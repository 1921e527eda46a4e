------------------------------ MODULE Customers ------------------------------
(***************************************************************************)
(* The endpoints below /customers, POST /orders as far as it needs a       *)
(* customer, and the readiness probe: one action per SQL statement, Redis  *)
(* command, publication or outbound HTTP attempt.  Each is an await, so    *)
(* the requests of all workers interleave between them.                    *)
(*                                                                         *)
(* The session takes a connection of its pool at the first statement and   *)
(* keeps it until the commit or the rollback, whatever it waits for.       *)
(* get_db_session commits after the answer was sent.                       *)
(***************************************************************************)
EXTENDS Integers, FiniteSets, Sequences

CONSTANTS
  N,          \* requests of a behaviour, numbered as they arrive
  MaxId,      \* ids of `customer`: enough for every request to insert
  Emails, Names,
  Scenarios,  \* [rows, calls]: what a behaviour finds, what its clients may call
  PoolSize,   \* connections of the engine
  MaxSize,    \* capacity of the recent buffer
  PageSize,
  None

ASSUME BoundsAssumption == {N, MaxId, PoolSize, MaxSize, PageSize} \subseteq Nat \ {0}

Requests == 1 .. N
Ids == 1 .. MaxId
Died == 0     \* in place of a status: the request ended without one
Row == [name : Names, email : Emails]

ByIdOps == {"get", "put", "patch", "delete", "audit", "bio", "todos", "enrich",
            "churn", "order"}

\* A call has the parameters of its endpoint: the id of a customer or the number
\* of a page, the fields of the body or the filter of a listing.
IsCall(c) ==
  /\ c \in [op : ByIdOps \cup {"create", "recent", "list", "ready", "slow", "fault"},
            id : Nat \cup {None}, name : Names \cup {None}, email : Emails \cup {None}]
  /\ c.op \in ByIdOps => c.id \in Ids
  /\ c.op = "list" => c.id \in Nat
  /\ c.op \in {"create", "put"} => c.name # None /\ c.email # None

ASSUME NoneAssumption == None \notin Nat \cup Names \cup Emails \cup Row
ASSUME ScenariosAssumption ==
  \A c \in Scenarios :
     /\ c.rows \in Seq(Row) /\ Len(c.rows) + N <= MaxId
     /\ \A i, j \in DOMAIN c.rows : i # j => c.rows[i].email # c.rows[j].email
     /\ \A d \in c.calls : IsCall(d)
Entry == [id : Ids, name : Names, email : Emails]

VARIABLES
  customers,  \* the committed row of each id, or None
  nextId,     \* the id sequence, which a rollback does not turn back
  ordered,    \* customers named by a committed order
  recent,     \* the Redis list, newest first
  events,     \* what is on the topic customer.created
  conns,      \* the requests that hold a connection
  pc, call,   \* per request: the step it is about to take, its parameters
  loaded,     \* what its session or its handler has read
  held,       \* the id of the row it has written and not committed
  tries,      \* outbound attempts
  answer,     \* the status it was answered with
  menu,
  \* History:
  made,       \* the row each id was inserted with
  touched,    \* ids whose committed row was changed or deleted
  lost,       \* ids whose INSERT was rolled back by a failure
  overtaken,  \* per request: commits that have overtaken it
  untrimmed   \* adds without their LTRIM since the last LTRIM

table == <<customers, nextId, ordered>>
sinks == <<recent, events>>
local == <<call, loaded, held, tries>>
past  == <<made, touched, lost, overtaken, untrimmed>>
vars  == <<table, sinks, conns, pc, local, answer, menu, past>>

Op(r) == call[r].op

\* The first statement of an operation.
FirstStep(op) ==
  CASE op = "create" -> "insert"
    [] op = "list" -> "count"
    [] op = "order" -> "order"
    [] op = "ready" -> "ping"
    [] op \in {"slow", "fault"} -> "diagnose"
    [] OTHER -> "load"

TodoAttempts == 3
BioAttempts == 2

Init ==
  /\ \E c \in Scenarios :
        /\ customers = [i \in Ids |-> IF i \in DOMAIN c.rows THEN c.rows[i] ELSE None]
        /\ made = customers /\ nextId = Len(c.rows) + 1 /\ touched = DOMAIN c.rows
        /\ menu = c.calls
  /\ ordered = {} /\ recent = <<>> /\ events = {} /\ conns = {}
  /\ pc = [r \in Requests |-> "idle"] /\ call = [r \in Requests |-> None]
  /\ loaded = [r \in Requests |-> None] /\ held = [r \in Requests |-> None]
  /\ tries = [r \in Requests |-> 0] /\ answer = [r \in Requests |-> None]
  /\ lost = {} /\ overtaken = [r \in Requests |-> 0] /\ untrimmed = 0
-----------------------------------------------------------------------------
Goto(r, step) == pc' = [pc EXCEPT ![r] = step]

\* Mutant: the session is not closed.
EndLeaking(r, status) ==
  /\ Goto(r, "done") /\ UNCHANGED conns
  /\ answer' = [answer EXCEPT ![r] = status]
  /\ held' = [held EXCEPT ![r] = None] /\ loaded' = [loaded EXCEPT ![r] = None]

\* The answer is sent, the session closed and its connection returned.
End(r, status) ==
  /\ Goto(r, "done") /\ conns' = conns \ {r}
  /\ answer' = [answer EXCEPT ![r] = status]
  /\ held' = [held EXCEPT ![r] = None] /\ loaded' = [loaded EXCEPT ![r] = None]

\* A step that only moves the request, or ends it, changes nothing shared.
Private == UNCHANGED <<table, sinks, menu, past>>
Move(r, step) == Goto(r, step) /\ UNCHANGED <<conns, answer, held, loaded>>
Read(r, what, step) ==
  /\ loaded' = [loaded EXCEPT ![r] = what] /\ Goto(r, step)
  /\ UNCHANGED <<conns, answer, held>>

\* The columns an UPDATE sets: the ORM compares what is asked, PATCH only
\* where it is given, with the row it has loaded.
Changed(r, row) ==
  {c \in {"name", "email"} : call[r][c] # None /\ call[r][c] # row[c]}

\* Mutant: the update leaves the email as it was.
WrittenNameOnly(r) ==
  IF Op(r) = "create" THEN [name |-> call[r].name, email |-> call[r].email]
  ELSE IF Op(r) = "delete" THEN None
  ELSE [loaded[r] EXCEPT !.name = IF call[r].name = None THEN @ ELSE call[r].name]

\* The row a writer leaves: what it has changed, on top of the newest version.
Written(r) ==
  IF Op(r) = "create" THEN [name |-> call[r].name, email |-> call[r].email]
  ELSE IF Op(r) = "delete" THEN None
  ELSE [c \in {"name", "email"} |->
          IF c \in Changed(r, loaded[r]) THEN call[r][c] ELSE customers[held[r]][c]]

\* PostgreSQL: the requests whose open transactions hold up a statement.  A
\* unique index waits for whoever is changing a row that has or will have the
\* email; DELETE and a change of the email wait for the KEY SHARE lock of an
\* order's foreign key, and that one waits for them.
Rivals(r) ==
  {s \in Requests \ {r} :
     /\ held[s] # None /\ Op(s) # "order"
     /\ \/ customers[held[s]] # None /\ customers[held[s]].email = call[r].email
        \/ /\ pc[s] # "index" /\ Written(s) # None
           /\ Written(s).email = call[r].email}
KeyChanges(r) == Op(r) = "delete" \/ "email" \in Changed(r, loaded[r])
Holders(i) == {s \in Requests : held[s] = i /\ Op(s) # "create"}

Blockers(r) ==
  CASE pc[r] \in {"insert", "index"} -> Rivals(r)
    [] pc[r] = "write" ->
         {s \in Holders(call[r].id) : Op(s) = "order" => KeyChanges(r)}
    [] pc[r] = "order" ->
         {s \in Holders(call[r].id) : Op(s) # "order" /\ KeyChanges(s)}
    [] OTHER -> {}

EmailTaken(r) ==
  \E i \in Ids \ {held[r]} : customers[i] # None /\ customers[i].email = call[r].email
-----------------------------------------------------------------------------
Start(r) ==
  /\ pc[r] = "idle" /\ \A s \in 1 .. r - 1 : pc[s] # "idle"
  /\ \E c \in menu :
        /\ call' = [call EXCEPT ![r] = c]
        /\ Goto(r, IF c.op = "recent" THEN "range" ELSE "connect")
  /\ UNCHANGED <<table, sinks, conns, loaded, held, tries, answer, menu, past>>

\* A dependency says no before any statement: no enrichment service while the
\* producer is not started, no churn model in this process.
Unavailable(r) ==
  /\ pc[r] = "connect" /\ Op(r) \in {"enrich", "churn"}
  /\ End(r, 503) /\ Private /\ UNCHANGED <<call, tries>>

Connect(r) ==
  /\ pc[r] = "connect" /\ Cardinality(conns) < PoolSize
  /\ conns' = conns \cup {r} /\ Goto(r, FirstStep(Op(r)))
  /\ Private /\ UNCHANGED <<local, answer>>

\* The pool gives up after its timeout; the probe reports it as DOWN.
PoolTimeout(r) ==
  /\ pc[r] = "connect" /\ Cardinality(conns) = PoolSize
  /\ End(r, IF Op(r) = "ready" THEN 503 ELSE 500)
  /\ Private /\ UNCHANGED <<call, tries>>

\* CustomerRepository.create: a duplicate email is a 409, and the id is used.
Insert(r) ==
  /\ pc[r] = "insert" /\ Blockers(r) = {}
  /\ nextId' = nextId + 1
  /\ IF EmailTaken(r)
     THEN End(r, 409) /\ UNCHANGED made
     ELSE /\ held' = [held EXCEPT ![r] = nextId]
          /\ made' = [made EXCEPT ![nextId] = Written(r)]
          /\ Goto(r, "push") /\ UNCHANGED <<conns, answer, loaded>>
  /\ UNCHANGED <<customers, ordered, sinks, call, tries, menu, touched, lost, overtaken, untrimmed>>

New(r) == [id |-> held[r], name |-> call[r].name, email |-> call[r].email]

\* RecentCustomerBuffer.add: LPUSH, then LTRIM; an error of either is
\* swallowed and skips the rest of the add.
LPush(r) ==
  /\ pc[r] = "push"
  /\ \/ recent' = <<New(r)>> \o recent /\ Move(r, "trim")
     \/ UNCHANGED recent /\ Move(r, "publish")
  /\ UNCHANGED <<table, events, call, tries, menu, past>>

\* Mutant: LTRIM with an exclusive end in mind.
KeptByOneMore == 1 .. MaxSize + 1

\* The positions LTRIM KEY 0 MAX_SIZE - 1 keeps.
Kept == 1 .. MaxSize

\* Mutant: an error of LTRIM ends the request.
LTrimFatal(r) ==
  /\ pc[r] = "trim"
  /\ \/ /\ recent' = [p \in Kept \cap DOMAIN recent |-> recent[p]]
        /\ untrimmed' = 0 /\ Move(r, "publish")
     \/ UNCHANGED recent /\ untrimmed' = untrimmed + 1 /\ End(r, 500)
  /\ UNCHANGED <<table, events, call, tries, menu, made, touched, lost, overtaken>>

LTrim(r) ==
  /\ pc[r] = "trim" /\ Move(r, "publish")
  /\ \/ recent' = [p \in Kept \cap DOMAIN recent |-> recent[p]] /\ untrimmed' = 0
     \/ UNCHANGED recent /\ untrimmed' = untrimmed + 1
  /\ UNCHANGED <<table, events, call, tries, menu, made, touched, lost, overtaken>>

\* publish_customer_created: without a producer, or on an error, the event is
\* skipped; a lost acknowledgement looks like an error too.
Publish(r) ==
  /\ pc[r] = "publish" /\ Move(r, "commit")
  /\ events' \in {events, events \cup {New(r)}}
  /\ UNCHANGED <<table, recent, call, tries, menu, past>>

\* GET /customers/recent: LRANGE, without a session.  The
\* entries are parsed and returned; Redis errors are not caught.
GetRecent(r) ==
  /\ pc[r] = "range" /\ \E status \in {200, 500} : End(r, status)
  /\ Private /\ UNCHANGED <<call, tries>>
-----------------------------------------------------------------------------
\* find_by_id_or_raise: 404, or on to a step of the endpoint.
Find(r, op, step) ==
  /\ pc[r] = "load" /\ Op(r) = op
  /\ LET row == customers[call[r].id] IN
       IF row = None THEN End(r, 404) ELSE Read(r, row, step)
  /\ Private /\ UNCHANGED <<call, tries>>

\* An update that changes nothing has nothing to flush.
Flushed(r) == IF Changed(r, customers[call[r].id]) = {} THEN "commit" ELSE "write"

GetCustomer(r)    == Find(r, "get", "commit")
UpdateCustomer(r) == Find(r, "put", Flushed(r))
PatchCustomer(r)  == Find(r, "patch", Flushed(r))
DeleteCustomer(r) == Find(r, "delete", "write")
GetAudit(r)       == Find(r, "audit", "commit")
GetBio(r)         == Find(r, "bio", "remote")
GetTodos(r)       == Find(r, "todos", "remote")
EnrichCustomer(r) == Find(r, "enrich", "reply")
PredictChurn(r)   == Find(r, "churn", "orders")

\* Mutant: orders do not keep their customer.
WriteUnreferenced(r) ==
  /\ pc[r] = "write" /\ Blockers(r) = {}
  /\ IF customers[call[r].id] = None THEN End(r, 500)
     ELSE /\ held' = [held EXCEPT ![r] = call[r].id]
          /\ Goto(r, IF Op(r) # "delete" /\ KeyChanges(r) THEN "index" ELSE "commit")
          /\ UNCHANGED <<conns, answer, loaded>>
  /\ Private /\ UNCHANGED <<call, tries>>

\* UPDATE or DELETE of the row.  No row left: StaleDataError for an UPDATE, a
\* warning for a DELETE.  delete_customer lets the IntegrityError of a customer
\* with orders (ON DELETE RESTRICT) pass.
Write(r) ==
  /\ pc[r] = "write" /\ Blockers(r) = {}
  /\ LET id == call[r].id IN
       IF customers[id] = None
       THEN IF Op(r) = "delete" THEN Move(r, "commit") ELSE End(r, 500)
       ELSE IF Op(r) = "delete" /\ id \in ordered THEN End(r, 500)
       ELSE /\ held' = [held EXCEPT ![r] = id]
            /\ Goto(r, IF Op(r) # "delete" /\ KeyChanges(r) THEN "index" ELSE "commit")
            /\ UNCHANGED <<conns, answer, loaded>>
  /\ Private /\ UNCHANGED <<call, tries>>

\* The new email enters the unique index when the row is already locked.
Index(r) ==
  /\ pc[r] = "index" /\ Blockers(r) = {}
  /\ IF EmailTaken(r) THEN End(r, 409) ELSE Move(r, "commit")
  /\ Private /\ UNCHANGED <<call, tries>>

\* POST /orders: the INSERT locks the customer it refers to.
InsertOrder(r) ==
  /\ pc[r] = "order" /\ Blockers(r) = {}
  /\ IF customers[call[r].id] = None THEN End(r, 422)
     ELSE /\ held' = [held EXCEPT ![r] = call[r].id]
          /\ Goto(r, "commit") /\ UNCHANGED <<conns, answer, loaded>>
  /\ Private /\ UNCHANGED <<call, tries>>
-----------------------------------------------------------------------------
Matching(r) ==
  {i \in Ids : customers[i] # None /\ call[r].name \in {None, customers[i].name}}

\* Mutant: the filter is left out of the count.
CountAll(r) ==
  /\ pc[r] = "count"
  /\ Read(r, [total |-> Cardinality({i \in Ids : customers[i] # None})], "page")
  /\ Private /\ UNCHANGED <<call, tries>>

\* find_all: two statements, so two snapshots.
Count(r) ==
  /\ pc[r] = "count"
  /\ Read(r, [total |-> Cardinality(Matching(r))], "page")
  /\ Private /\ UNCHANGED <<call, tries>>

\* ORDER BY id OFFSET page * size LIMIT size.
Page(r) ==
  /\ pc[r] = "page"
  /\ LET offset == call[r].id * PageSize
         rank(i) == Cardinality({j \in Matching(r) : j <= i})
         total == loaded[r].total
         rows == {i \in Matching(r) : rank(i) \in offset + 1 .. offset + PageSize}
     IN Read(r, [total |-> total, content |-> rows,
                 pages |-> (total + PageSize - 1) \div PageSize], "commit")
  /\ Private /\ UNCHANGED <<call, tries>>

\* The churn endpoint reads the orders, and their lines if there are any.
ChurnRows(r) ==
  /\ pc[r] \in {"orders", "lines"}
  /\ IF pc[r] = "orders" /\ call[r].id \in ordered
     THEN Move(r, "lines") ELSE Move(r, "commit")
  /\ Private /\ UNCHANGED <<call, tries>>

\* Mutant: only errors of the transport end in the fallback.
Uncaught(r) == End(r, 500)

\* get_todos, generate_bio: whatever ends the attempts becomes the fallback.
Fallback(r) == Move(r, "commit")

\* One attempt.  Transport and status errors are retried; a malformed payload
\* is not.
Attempt(r, op, most) ==
  /\ pc[r] = "remote" /\ Op(r) = op /\ tries' = [tries EXCEPT ![r] = @ + 1]
  /\ \/ Move(r, "commit")
     \/ tries[r] + 1 < most /\ Move(r, "remote")
     \/ Fallback(r)
  /\ Private /\ UNCHANGED call

FetchTodos(r)  == Attempt(r, "todos", TodoAttempts)
GenerateBio(r) == Attempt(r, "bio", BioAttempts)

Reply(r) ==
  /\ pc[r] = "reply" /\ Move(r, "commit")
  /\ Private /\ UNCHANGED <<call, tries>>

\* Mutant: the request waits for its reply without a timeout.
NeverTimesOut(r) == FALSE /\ UNCHANGED vars

\* enrich_customer: asyncio.wait_for gives up and the session is rolled back.
ReplyTimeout(r) ==
  /\ pc[r] = "reply" /\ End(r, 504)
  /\ Private /\ UNCHANGED <<call, tries>>

\* SELECT 1; any error is reported as DOWN, and the session still commits.
Ping(r) ==
  /\ pc[r] = "ping" /\ \E status \in {200, 503} : End(r, status)
  /\ Private /\ UNCHANGED <<call, tries>>

\* The diagnostic endpoints: a slow statement, or a sleep where the database
\* knows none; a statement that fails.
Diagnose(r) ==
  /\ pc[r] = "diagnose"
  /\ IF Op(r) = "slow" THEN Move(r, "commit") ELSE End(r, 500)
  /\ Private /\ UNCHANGED <<call, tries>>
-----------------------------------------------------------------------------
\* Requests whose reads a commit of r has made stale.
Overtakes(r) ==
  {s \in Requests \ {r} :
     \/ pc[s] = "page"
     \/ /\ pc[s] \in {"write", "commit"} /\ held[s] = None
        /\ call[s].id = held[r] /\ Op(s) \in {"put", "patch"}}

\* The answer has left before the COMMIT, which may also fail (see Lose).
Commit(r) ==
  /\ pc[r] = "commit" /\ End(r, 200)
  /\ LET writes == held[r] # None /\ Op(r) # "order" IN
       /\ customers' = IF writes THEN [customers EXCEPT ![held[r]] = Written(r)]
                       ELSE customers
       /\ touched' = IF writes /\ Op(r) # "create" THEN touched \cup {held[r]} ELSE touched
       /\ overtaken' = IF writes
                       THEN [s \in Requests |->
                               overtaken[s] + IF s \in Overtakes(r) THEN 1 ELSE 0]
                       ELSE overtaken
  /\ ordered' = IF Op(r) = "order" THEN ordered \cup {held[r]} ELSE ordered
  /\ UNCHANGED <<nextId, sinks, call, tries, menu, made, lost, untrimmed>>

\* A statement or the COMMIT fails, or the process dies: everything the
\* transaction wrote is undone, what was pushed and published is not.
Lose(r) ==
  /\ r \in conns /\ End(r, Died)
  /\ lost' = IF Op(r) = "create" THEN lost \cup ({held[r]} \ {None}) ELSE lost
  /\ untrimmed' = IF pc[r] = "trim" THEN untrimmed + 1 ELSE untrimmed
  /\ UNCHANGED <<table, sinks, call, tries, menu, made, touched, overtaken>>

\* PostgreSQL aborts a transaction of a cycle.
DeadlockVictim(r) ==
  /\ \E s \in Blockers(r) : r \in Blockers(s)
  /\ End(r, 500) /\ Private /\ UNCHANGED <<call, tries>>

Step(r) ==
  \/ Unavailable(r) \/ Connect(r) \/ PoolTimeout(r) \/ DeadlockVictim(r)
  \/ Insert(r) \/ LPush(r) \/ LTrim(r) \/ Publish(r) \/ GetRecent(r)
  \/ GetCustomer(r) \/ UpdateCustomer(r) \/ PatchCustomer(r) \/ DeleteCustomer(r)
  \/ GetAudit(r) \/ GetBio(r) \/ GetTodos(r) \/ EnrichCustomer(r) \/ PredictChurn(r)
  \/ Write(r) \/ Index(r) \/ InsertOrder(r) \/ Count(r) \/ Page(r)
  \/ ChurnRows(r) \/ FetchTodos(r) \/ GenerateBio(r) \/ ReplyTimeout(r) \/ Ping(r)
  \/ Diagnose(r) \/ Commit(r)

Next == \E r \in Requests : Start(r) \/ Step(r) \/ Reply(r) \/ Lose(r)

\* The event loop resumes whoever can go on, HTTP attempts and the pool's wait
\* have timeouts; neither clients, nor replies, nor failures are owed.
Spec == Init /\ [][Next]_vars /\ \A r \in Requests : WF_vars(Step(r))
-----------------------------------------------------------------------------
\* A connection is held exactly between the first statement and the end.
TypeOK ==
  /\ customers \in [Ids -> Row \cup {None}] /\ made \in [Ids -> Row \cup {None}]
  /\ nextId \in 1 .. MaxId + 1 /\ overtaken \in [Requests -> Nat]
  /\ recent \in Seq(Entry) /\ events \subseteq Entry
  /\ conns = {r \in Requests : pc[r] \notin {"idle", "connect", "range", "done"}}
  /\ Cardinality(conns) <= PoolSize
  /\ \A r \in Requests :
        /\ held[r] \in Ids \cup {None}
        /\ (pc[r] = "done") <=> (answer[r] # None)
        /\ held[r] # None => r \in conns

\* However creates, renames and deletes overlap, two committed customers never
\* share an email, and no order is left without its customer.
Consistent ==
  /\ \A i, j \in Ids : i # j /\ customers[i] # None /\ customers[j] # None
                       => customers[i].email # customers[j].email
  /\ \A i \in ordered : customers[i] # None

\* The buffer and the topic speak of customers whose INSERT the database
\* accepted, with the values inserted; and such a customer is stored, unless
\* it was changed or deleted since, its request is still open, or that request
\* failed after announcing it.
Announced ==
  \A a \in events \cup {recent[p] : p \in DOMAIN recent} :
     /\ made[a.id] = [name |-> a.name, email |-> a.email]
     /\ \/ customers[a.id] = made[a.id]
        \/ a.id \in touched \cup lost
        \/ \E r \in Requests : held[r] = a.id /\ Op(r) = "create"

\* Only adds that are between LPUSH and LTRIM, or whose LTRIM failed, take the
\* list past its capacity; the next LTRIM brings it back.
BufferBounded ==
  Len(recent) <= MaxSize + untrimmed + Cardinality({r \in Requests : pc[r] = "trim"})

\* PUT replaces the row: what is committed is what the answer says, unless
\* another write of the row came between its SELECT and its UPDATE; and even
\* then every column that the SELECT found to be different from what was asked
\* is as asked, so that only a column PUT had no need to change can be another's.
PutReplaces ==
  [][\A r \in Requests :
       pc[r] = "commit" /\ Op(r) = "put" /\ answer'[r] = 200 =>
         /\ overtaken[r] = 0 =>
              customers'[call[r].id] = [name |-> call[r].name, email |-> call[r].email]
         /\ \A c \in Changed(r, loaded[r]) :
              customers'[call[r].id][c] = call[r][c]]_vars

\* A page has the rows its total leaves for it, in number: each commit between
\* the two statements adds or takes away one of those at most, and without one
\* there are rows on the pages that the answer counts and on no others.
OnPage(rest) == IF rest < 0 THEN 0 ELSE IF rest < PageSize THEN rest ELSE PageSize
PageAgrees ==
  \A r \in Requests :
     pc[r] = "commit" /\ Op(r) = "list" =>
       LET l == loaded[r]
           rest == l.total - call[r].id * PageSize
       IN /\ OnPage(rest - overtaken[r]) <= Cardinality(l.content)
          /\ Cardinality(l.content) <= OnPage(rest + overtaken[r])
          /\ overtaken[r] = 0 => (call[r].id < l.pages <=> l.content # {})

\* Bio and todos of a customer that exists are answered 200 whatever the other
\* side does, within the number of attempts, unless the session itself fails.
Degrades ==
  \A r \in Requests :
     pc[r] # "idle" /\ Op(r) \in {"bio", "todos"} =>
       /\ tries[r] <= (IF Op(r) = "todos" THEN TodoAttempts ELSE BioAttempts)
       /\ (tries[r] > 0 /\ pc[r] = "done") => answer[r] \in {200, Died}

\* Every request comes to its end, also when all connections are held by requests
\* that wait for a reply, or writers wait for each other.
RequestsEnd == []<>(\A r \in Requests : pc[r] \in {"idle", "done"})
=============================================================================
