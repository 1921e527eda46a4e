--------------------------- MODULE CustomersProofs ---------------------------
(***************************************************************************)
(* Inductive (CustomersInv) is an invariant of Customers, for any number   *)
(* of requests, rows, pooled connections and entries of the buffer.        *)
(*                                                                         *)
(* A step belongs to one request.  Kinds sorts the steps by what they do   *)
(* to the rest of the system; each part of the invariant is then carried   *)
(* over the kinds that can disturb it.                                     *)
(***************************************************************************)
EXTENDS CustomersInv, FiniteSetTheorems, TLAPS

\* What belongs to the requests other than r stays.
Others(r) ==
  \A s \in Requests \ {r} :
     /\ pc'[s] = pc[s] /\ call'[s] = call[s] /\ loaded'[s] = loaded[s]
     /\ held'[s] = held[s] /\ tries'[s] = tries[s] /\ answer'[s] = answer[s]

\* The request ends without anything to commit.
Leaves(r) ==
  /\ pc[r] \in {"connect", "range", "load", "insert", "write", "index", "order",
                "reply", "ping", "diagnose"}
  /\ \E status \in Nat : End(r, status)
  /\ Private /\ UNCHANGED <<call, tries>>

\* Where a request may go that neither ends nor locks anything.
After(r) ==
  CASE pc[r] = "load" -> {"commit", "write", "remote", "reply", "orders"}
    [] pc[r] = "count" -> {"page"}
    [] pc[r] = "orders" -> {"lines", "commit"}
    [] pc[r] = "remote" -> {"remote", "commit"}
    [] OTHER -> {"commit"}

\* The request goes on, with what it has read.
Goes(r) ==
  /\ pc[r] \in {"load", "write", "index", "count", "page", "orders", "lines",
                "remote", "reply", "diagnose"}
  /\ pc'[r] \in After(r) \cap Path(Op(r))
  /\ DOMAIN pc' = Requests /\ DOMAIN loaded' = Requests /\ Others(r)
  /\ pc[r] = "index" => loaded'[r] = loaded[r] /\ Blockers(r) = {} /\ ~EmailTaken(r)
  /\ Op(r) = "put" =>
       \/ /\ pc[r] = "load" /\ customers[call[r].id] # None
          /\ loaded'[r] = customers[call[r].id] /\ pc'[r] = Flushed(r)
       \/ pc[r] = "index"
  /\ Op(r) = "list" => Count(r) \/ Page(r)
  /\ \/ tries' = tries /\ pc[r] # "remote" /\ (pc'[r] = "remote" => pc[r] = "load")
     \/ FetchTodos(r) \/ GenerateBio(r)
  /\ Private /\ UNCHANGED <<call, conns, held, answer>>

\* The request writes a row that is there, and locks it.
Locks(r) ==
  /\ pc[r] \in {"write", "order"} /\ Blockers(r) = {}
  /\ customers[call[r].id] # None
  /\ pc[r] = "order" => Op(r) = "order"
  /\ pc[r] = "write" => Op(r) \in {"put", "patch", "delete"}
  /\ Op(r) = "delete" => call[r].id \notin ordered
  /\ held' = [held EXCEPT ![r] = call[r].id]
  /\ Goto(r, IF pc[r] = "write" /\ Op(r) # "delete" /\ KeyChanges(r)
             THEN "index" ELSE "commit")
  /\ Private /\ UNCHANGED <<call, tries, conns, answer, loaded>>

\* Every path ends, and a path through the pool goes on with its first step.
LEMMA PathSteps ==
  \A op \in ByIdOps \cup {"create", "recent", "list", "ready", "slow", "fault"} :
     /\ "done" \in Path(op)
     /\ "connect" \in Path(op) => FirstStep(op) \in Path(op)
<1> SUFFICES
      ASSUME NEW op \in ByIdOps \cup {"create", "recent", "list", "ready", "slow",
                                       "fault"}
      PROVE  /\ "done" \in Path(op)
             /\ "connect" \in Path(op) => FirstStep(op) \in Path(op)
  OBVIOUS
<1>1. CASE op \in ByIdOps
  BY <1>1 DEF Path, FirstStep, ByIdOps
<1>2. CASE op \in {"create", "recent", "list", "ready", "slow", "fault"}
  BY <1>2 DEF Path, FirstStep
<1> QED
  BY <1>1, <1>2

\* Which operation is at which step.
LEMMA Ops ==
  ASSUME PathsInv, NEW r \in Requests, pc[r] # "idle"
  PROVE  /\ pc[r] \in {"connect", "insert", "push", "trim", "publish", "commit", "done",
                       "range", "load", "write", "index", "remote", "reply", "orders",
                       "lines", "order", "count", "page", "ping", "diagnose"}
         /\ pc[r] \in {"insert", "push", "trim", "publish"} => Op(r) = "create"
         /\ pc[r] = "range" <=> pc[r] # "done" /\ Op(r) = "recent"
         /\ pc[r] \in {"load", "write", "index", "remote", "reply", "orders", "lines", "order"}
              => Op(r) \in ByIdOps /\ call[r].id \in Ids
         /\ pc[r] \in {"load"} => Op(r) # "order"
         /\ pc[r] = "write" => Op(r) \in {"put", "patch", "delete"}
         /\ pc[r] = "index" => Op(r) \in {"put", "patch"}
         /\ pc[r] = "remote" => Op(r) \in {"bio", "todos"}
         /\ pc[r] = "reply" => Op(r) = "enrich"
         /\ pc[r] \in {"orders", "lines"} => Op(r) = "churn"
         /\ pc[r] = "order" => Op(r) = "order"
         /\ pc[r] \in {"count", "page"} => Op(r) = "list"
         /\ pc[r] = "ping" => Op(r) = "ready"
         /\ pc[r] = "diagnose" => Op(r) \in {"slow", "fault"}
         /\ pc[r] = "commit" => Op(r) \notin {"recent", "ready"}
<1>1. IsCall(call[r]) /\ pc[r] \in Path(Op(r))
  BY DEF PathsInv
<1>2. Op(r) \in ByIdOps \cup {"create", "recent", "list", "ready", "slow", "fault"}
  BY <1>1 DEF IsCall, Op
<1>3. Op(r) \in ByIdOps => call[r].id \in Ids
  BY <1>1 DEF IsCall, Op
<1> QED
  BY <1>1, <1>2, <1>3 DEF Path, ByIdOps

\* Every step of Next is a step of one request, of one of these kinds.
Kind(r) ==
  \/ Start(r) \/ Connect(r) \/ Leaves(r) \/ Goes(r) \/ Locks(r)
  \/ Insert(r) \/ LPush(r) \/ LTrim(r) \/ Publish(r) \/ Commit(r) \/ Lose(r)

\* A move, with or without a read, leaves the other requests alone.
LEMMA Moves ==
  ASSUME PathsInv, NEW r \in Requests, NEW step, NEW what,
         (Move(r, step) /\ what = loaded[r]) \/ Read(r, what, step), call' = call,
         tries' = tries \/ tries' = [tries EXCEPT ![r] = @ + 1]
  PROVE  /\ DOMAIN pc' = Requests /\ DOMAIN loaded' = Requests /\ Others(r)
         /\ pc'[r] = step /\ loaded'[r] = what
         /\ conns' = conns /\ held' = held /\ answer' = answer
  BY DEF PathsInv, Move, Read, Goto, Others

\* find_by_id_or_raise ends the request or lets it go on.
LEMMA FindKind ==
  ASSUME PathsInv, NEW r \in Requests, NEW op, NEW step, Find(r, op, step),
         step \in {"commit", "write", "remote", "reply", "orders"} \cap Path(op),
         op = "put" => step = Flushed(r), op # "list"
  PROVE  Leaves(r) \/ Goes(r)
<1>1. pc[r] = "load" /\ Op(r) = op /\ Private /\ call' = call /\ tries' = tries
  BY DEF Find
<1>2. CASE customers[call[r].id] = None
  <2>1. End(r, 404)
    BY <1>2 DEF Find
  <2> QED
    BY <1>1, <2>1 DEF Leaves
<1>3. CASE customers[call[r].id] # None
  <2>1. Read(r, customers[call[r].id], step)
    BY <1>3 DEF Find
  <2>2. /\ DOMAIN pc' = Requests /\ DOMAIN loaded' = Requests /\ Others(r)
        /\ pc'[r] = step /\ loaded'[r] = customers[call[r].id]
        /\ conns' = conns /\ held' = held /\ answer' = answer
    BY <1>1, <2>1, Moves
  <2>3. pc'[r] \in After(r) \cap Path(Op(r))
    BY <1>1, <2>2 DEF After
  <2> QED
    BY <1>1, <1>3, <2>2, <2>3 DEF Goes
<1> QED
  BY <1>2, <1>3

LEMMA Kinds ==
  ASSUME TypeOK, PathsInv, NEW r \in Requests,
         Start(r) \/ Step(r) \/ Reply(r) \/ Lose(r)
  PROVE  Kind(r)
<1>0. pc[r] # "idle" => IsCall(call[r]) /\ pc[r] \in Path(Op(r))
  BY DEF PathsInv
<1>1. ASSUME \/ Start(r) \/ Connect(r) \/ Insert(r) \/ LPush(r) \/ LTrim(r)
             \/ Publish(r) \/ Commit(r) \/ Lose(r)
      PROVE  Kind(r)
  BY <1>1 DEF Kind
<1>2. ASSUME Unavailable(r) \/ PoolTimeout(r) \/ GetRecent(r) \/ ReplyTimeout(r) \/ Ping(r)
      PROVE  Leaves(r)
  BY <1>2 DEF Unavailable, PoolTimeout, GetRecent, ReplyTimeout, Ping, Leaves
<1>3. ASSUME DeadlockVictim(r)
      PROVE  Leaves(r)
  BY <1>3 DEF DeadlockVictim, Blockers, Leaves
<1>4. ASSUME \/ GetCustomer(r) \/ UpdateCustomer(r) \/ PatchCustomer(r)
             \/ DeleteCustomer(r) \/ GetAudit(r) \/ GetBio(r) \/ GetTodos(r)
             \/ EnrichCustomer(r) \/ PredictChurn(r)
      PROVE  Leaves(r) \/ Goes(r)
  <2>1. Flushed(r) \in {"commit", "write"}
    BY DEF Flushed
  <2> QED
    BY <1>4, <2>1, FindKind
       DEF GetCustomer, UpdateCustomer, PatchCustomer, DeleteCustomer, GetAudit,
           GetBio, GetTodos, EnrichCustomer, PredictChurn, Path
<1>5. ASSUME Write(r)
      PROVE  Leaves(r) \/ Goes(r) \/ Locks(r)
  <2>1. pc[r] = "write" /\ Op(r) \in {"put", "patch", "delete"} /\ Blockers(r) = {}
        /\ Private /\ call' = call /\ tries' = tries
    BY <1>5, Ops DEF Write
  <2>2. CASE customers[call[r].id] = None /\ Op(r) = "delete"
    <3>1. Move(r, "commit")
      BY <1>5, <2>2 DEF Write
    <3>2. /\ DOMAIN pc' = Requests /\ DOMAIN loaded' = Requests /\ Others(r)
          /\ pc'[r] = "commit" /\ conns' = conns /\ held' = held /\ answer' = answer
      BY <2>1, <3>1, Moves
    <3>3. pc'[r] \in After(r) \cap Path(Op(r))
      BY <2>1, <2>2, <3>2 DEF After, Path
    <3> QED
      BY <2>1, <2>2, <3>2, <3>3 DEF Goes
  <2>3. CASE \/ customers[call[r].id] = None /\ Op(r) # "delete"
             \/ customers[call[r].id] # None /\ Op(r) = "delete" /\ call[r].id \in ordered
    BY <1>5, <2>1, <2>3 DEF Write, Leaves
  <2>4. CASE /\ customers[call[r].id] # None
             /\ Op(r) = "delete" => call[r].id \notin ordered
    BY <1>5, <2>1, <2>4 DEF Write, Locks
  <2> QED
    BY <2>2, <2>3, <2>4
<1>6. ASSUME Index(r)
      PROVE  Leaves(r) \/ Goes(r)
  <2>1. pc[r] = "index" /\ Op(r) \in {"put", "patch"} /\ Blockers(r) = {}
        /\ Private /\ call' = call /\ tries' = tries
    BY <1>6, Ops DEF Index
  <2>2. CASE EmailTaken(r)
    BY <1>6, <2>1, <2>2 DEF Index, Leaves
  <2>3. CASE ~EmailTaken(r)
    <3>1. Move(r, "commit")
      BY <1>6, <2>3 DEF Index
    <3>2. /\ DOMAIN pc' = Requests /\ DOMAIN loaded' = Requests /\ Others(r)
          /\ pc'[r] = "commit" /\ conns' = conns /\ held' = held /\ answer' = answer
          /\ loaded'[r] = loaded[r]
      BY <2>1, <3>1, Moves
    <3>3. pc'[r] \in After(r) \cap Path(Op(r))
      BY <2>1, <3>2 DEF After, Path
    <3> QED
      BY <2>1, <2>3, <3>2, <3>3 DEF Goes
  <2> QED
    BY <2>2, <2>3
<1>7. ASSUME InsertOrder(r)
      PROVE  Leaves(r) \/ Locks(r)
  <2>1. pc[r] = "order" /\ Op(r) = "order"
    BY <1>7, Ops DEF InsertOrder
  <2>2. CASE customers[call[r].id] = None
    BY <1>7, <2>1, <2>2 DEF InsertOrder, Leaves
  <2>3. CASE customers[call[r].id] # None
    BY <1>7, <2>1, <2>3 DEF InsertOrder, Locks
  <2> QED
    BY <2>2, <2>3
<1>8. ASSUME Count(r) \/ Page(r)
      PROVE  Goes(r)
  <2>1. /\ pc[r] \in {"count", "page"} /\ Op(r) = "list"
        /\ Private /\ call' = call /\ tries' = tries
    BY <1>8, Ops DEF Count, Page
  <2>2. PICK what : Read(r, what, IF pc[r] = "count" THEN "page" ELSE "commit")
    BY <1>8 DEF Count, Page
  <2>3. /\ DOMAIN pc' = Requests /\ DOMAIN loaded' = Requests /\ Others(r)
        /\ pc'[r] = (IF pc[r] = "count" THEN "page" ELSE "commit")
        /\ conns' = conns /\ held' = held /\ answer' = answer
    BY <2>1, <2>2, Moves
  <2>4. pc'[r] \in After(r) \cap Path(Op(r))
    BY <2>1, <2>3 DEF After, Path
  <2> QED
    BY <1>8, <2>1, <2>3, <2>4 DEF Goes
<1>9. ASSUME \/ ChurnRows(r) \/ Reply(r)
             \/ Diagnose(r) /\ Op(r) = "slow"
      PROVE  Goes(r)
  <2>1. /\ pc[r] \in {"orders", "lines", "reply", "diagnose"}
        /\ Op(r) \in {"churn", "enrich", "slow"}
        /\ Private /\ call' = call /\ tries' = tries
    BY <1>9, Ops DEF ChurnRows, Reply, Diagnose
  <2>2. PICK step \in After(r) \cap Path(Op(r)) : Move(r, step)
    BY <1>9, <2>1, Ops DEF ChurnRows, Reply, Diagnose, After, Path
  <2>3. /\ DOMAIN pc' = Requests /\ DOMAIN loaded' = Requests /\ Others(r)
        /\ pc'[r] = step /\ conns' = conns /\ held' = held /\ answer' = answer
    BY <2>1, <2>2, Moves
  <2>4. step # "remote"
    BY <2>1, <2>2 DEF After
  <2> QED
    BY <2>1, <2>2, <2>3, <2>4 DEF Goes
<1>10. ASSUME FetchTodos(r) \/ GenerateBio(r)
       PROVE  Goes(r)
  <2>1. /\ pc[r] = "remote" /\ Op(r) \in {"bio", "todos"}
        /\ Private /\ call' = call /\ tries' = [tries EXCEPT ![r] = @ + 1]
    BY <1>10 DEF FetchTodos, GenerateBio, Attempt
  <2>2. PICK step \in {"remote", "commit"} : Move(r, step)
    BY <1>10 DEF FetchTodos, GenerateBio, Attempt, Fallback
  <2>3. /\ DOMAIN pc' = Requests /\ DOMAIN loaded' = Requests /\ Others(r)
        /\ pc'[r] = step /\ conns' = conns /\ held' = held /\ answer' = answer
    BY <2>1, <2>2, Moves
  <2>4. pc'[r] \in After(r) \cap Path(Op(r))
    BY <2>1, <2>2, <2>3 DEF After, Path
  <2> QED
    BY <1>10, <2>1, <2>3, <2>4 DEF Goes
<1>11. ASSUME Diagnose(r), Op(r) # "slow"
       PROVE  Leaves(r)
  BY <1>11 DEF Diagnose, Leaves
<1> QED
  BY <1>1, <1>2, <1>3, <1>4, <1>5, <1>6, <1>7, <1>8, <1>9, <1>10, <1>11 DEF Step, Kind
-----------------------------------------------------------------------------
\* Whatever its kind, a step keeps what belongs to the other requests, the
\* call of r once it is made, and the functions defined for every request.
LEMMA Frame ==
  ASSUME TypeOK, PathsInv, NEW r \in Requests, Kind(r)
  PROVE  /\ Others(r) /\ menu' = menu
         /\ DOMAIN pc' = Requests /\ DOMAIN call' = Requests
         /\ DOMAIN loaded' = Requests /\ DOMAIN held' = Requests
         /\ pc[r] # "idle" => call'[r] = call[r]
         /\ pc[r] = "idle" => Start(r)
         /\ pc'[r] # "idle"
<1>1. CASE Start(r)
  BY <1>1 DEF Start, Goto, Others, PathsInv
<1>2. CASE Connect(r)
  BY <1>2 DEF Connect, Goto, Others, PathsInv, Private, local, FirstStep
<1>3. CASE Leaves(r)
  BY <1>3 DEF Leaves, End, Goto, Others, PathsInv, Private
<1>4. CASE Goes(r)
  BY <1>4 DEF Goes, Others, PathsInv, Private, After
<1>5. CASE Locks(r)
  BY <1>5 DEF Locks, Goto, Others, PathsInv, Private
<1>6. CASE Insert(r)
  BY <1>6 DEF Insert, End, Goto, Others, PathsInv
<1>7. CASE LPush(r) \/ LTrim(r) \/ Publish(r)
  BY <1>7 DEF LPush, LTrim, Publish, Move, Goto, Others, PathsInv
<1>8. CASE Commit(r)
  BY <1>8 DEF Commit, End, Goto, Others, PathsInv
<1>9. CASE Lose(r)
  BY <1>9 DEF Lose, End, Goto, Others, PathsInv, TypeOK
<1> QED
  BY <1>1, <1>2, <1>3, <1>4, <1>5, <1>6, <1>7, <1>8, <1>9 DEF Kind

\* Every step takes its request along the path of its operation.
LEMMA PathsStep ==
  ASSUME TypeOK, PathsInv, NEW r \in Requests, Kind(r)
  PROVE  PathsInv'
<1>1. /\ Others(r) /\ menu' = menu
      /\ DOMAIN pc' = Requests /\ DOMAIN call' = Requests
      /\ DOMAIN loaded' = Requests /\ DOMAIN held' = Requests
      /\ pc[r] # "idle" => call'[r] = call[r]
      /\ pc[r] = "idle" => Start(r)
      /\ pc'[r] # "idle"
  BY Frame
<1>2. tries' \in [Requests -> Nat]
  <2>1. tries' = tries \/ tries' = [tries EXCEPT ![r] = @ + 1]
    BY DEF Kind, Start, Connect, Leaves, Goes, FetchTodos, GenerateBio, Attempt,
           Locks, Insert, LPush, LTrim, Publish, Commit, Lose, local
  <2> QED
    BY <2>1 DEF PathsInv
<1>3. answer' \in [Requests -> Nat \cup {None}]
  <2>1. answer' = answer \/ \E status \in Nat : answer' = [answer EXCEPT ![r] = status]
    <3>1. ASSUME Start(r) \/ Connect(r) \/ Goes(r) \/ Locks(r) PROVE answer' = answer
      BY <3>1 DEF Start, Connect, Goes, Locks
    <3>2. ASSUME LPush(r) \/ Publish(r) \/ LTrim(r) PROVE answer' = answer
      BY <3>2 DEF LPush, LTrim, Publish, Move
    <3>3. ASSUME Leaves(r) \/ Commit(r) \/ Lose(r)
          PROVE  \E status \in Nat : answer' = [answer EXCEPT ![r] = status]
      BY <3>3 DEF Leaves, Commit, Lose, End, Died
    <3>4. ASSUME Insert(r)
          PROVE  answer' = answer \/ answer' = [answer EXCEPT ![r] = 409]
      BY <3>4 DEF Insert, End
    <3> QED
      BY <3>1, <3>2, <3>3, <3>4 DEF Kind
  <2> QED
    BY <2>1 DEF PathsInv
<1>4. IsCall(call'[r]) /\ pc'[r] \in Path(call'[r].op)
  <2>1. CASE Start(r)
    BY <2>1 DEF Start, Goto, PathsInv, IsCall, Path, ByIdOps
  <2>2. CASE pc[r] # "idle"
    <3>1. IsCall(call[r]) /\ pc[r] \in Path(Op(r)) /\ call'[r] = call[r]
      BY <1>1, <2>2 DEF PathsInv
    <3>2. ASSUME Connect(r) PROVE pc'[r] \in Path(Op(r))
      <4>1. pc[r] = "connect" /\ pc'[r] = FirstStep(Op(r))
        BY <3>2 DEF Connect, Goto, PathsInv
      <4> QED
        BY <3>1, <4>1, PathSteps DEF IsCall, Op
    <3>3. ASSUME Leaves(r) \/ Commit(r) \/ Lose(r) PROVE pc'[r] \in Path(Op(r))
      <4>1. pc'[r] = "done"
        BY <3>3 DEF Leaves, Commit, Lose, End, Goto, PathsInv
      <4> QED
        BY <3>1, <4>1, PathSteps DEF IsCall, Op
    <3>4. ASSUME Goes(r) PROVE pc'[r] \in Path(Op(r))
      BY <3>4 DEF Goes
    <3>5. ASSUME Locks(r) PROVE pc'[r] \in Path(Op(r))
      BY <3>5 DEF Locks, Goto, Path, PathsInv
    <3>6. ASSUME Insert(r) \/ LPush(r) \/ LTrim(r) \/ Publish(r)
          PROVE  pc'[r] \in Path(Op(r))
      <4>1. Op(r) = "create"
        BY <3>6, <2>2, Ops DEF Insert, LPush, LTrim, Publish
      <4> QED
        BY <3>6, <4>1 DEF Insert, LPush, LTrim, Publish, Move, End, Goto, Path, PathsInv
    <3> QED
      BY <3>1, <3>2, <3>3, <3>4, <3>5, <3>6, <2>2 DEF Kind, Start, Op
  <2> QED
    BY <1>1, <2>1, <2>2
<1>5. ASSUME NEW s \in Requests
      PROVE  /\ pc'[s] = "idle" => held'[s] = None /\ tries'[s] = 0
             /\ pc'[s] # "idle" => IsCall(call'[s]) /\ pc'[s] \in Path(call'[s].op)
  <2>1. CASE s = r
    BY <1>1, <1>4, <2>1
  <2>2. CASE s # r
    BY <1>1, <2>2 DEF Others, PathsInv, Op
  <2> QED
    BY <2>1, <2>2
<1> QED
  BY <1>1, <1>2, <1>3, <1>5 DEF PathsInv, Op
-----------------------------------------------------------------------------
\* The row that an insert or an update leaves is a row.
LEMMA WrittenRow ==
  ASSUME TypeOK, PathsInv, LocksInv, NEW r \in Requests, pc[r] # "idle",
         Op(r) \in {"create", "put", "patch"}, Op(r) = "create" \/ held[r] # None
  PROVE  /\ Written(r) \in Row
         /\ Op(r) = "create" => Written(r) = Asked(r)
<1>1. IsCall(call[r])
  BY DEF PathsInv
<1>2. CASE Op(r) = "create"
  BY <1>1, <1>2 DEF Written, IsCall, Op, Row, Asked
<1>3. CASE Op(r) # "create"
  <2>1. customers[held[r]] \in Row
    BY <1>3 DEF TypeOK, LocksInv
  <2>2. /\ call[r].name # None => call[r].name \in Names
        /\ call[r].email # None => call[r].email \in Emails
    BY <1>1 DEF IsCall
  <2> DEFINE n == IF "name" \in Changed(r, loaded[r]) THEN call[r]["name"]
                  ELSE customers[held[r]]["name"]
             e == IF "email" \in Changed(r, loaded[r]) THEN call[r]["email"]
                  ELSE customers[held[r]]["email"]
  <2>3. Written(r) = [c \in {"name", "email"} |-> IF c = "name" THEN n ELSE e]
    BY <1>3 DEF Written
  <2>4. n \in Names /\ e \in Emails
    BY <1>1, <2>1, <2>2 DEF Changed, Row, IsCall
  <2> HIDE DEF n, e
  <2> QED
    BY <1>3, <2>3, <2>4 DEF Row
<1> QED
  BY <1>2, <1>3

\* What a create announces is an entry, of the id it was given.
LEMMA NewEntry ==
  ASSUME TypeOK, PathsInv, LocksInv, NEW r \in Requests, pc[r] \in {"push", "publish"}
  PROVE  /\ New(r) \in Entry /\ New(r).id = held[r]
         /\ made[held[r]] = [name |-> New(r).name, email |-> New(r).email]
         /\ held[r] < nextId /\ Op(r) = "create"
<1>1. IsCall(call[r]) /\ Op(r) = "create"
  BY Ops DEF PathsInv
<1>2. held[r] \in Ids
  BY DEF TypeOK, LocksInv
<1>3. call[r].name \in Names /\ call[r].email \in Emails
  BY <1>1 DEF IsCall, Op
<1> QED
  BY <1>1, <1>2, <1>3, NoneAssumption DEF New, Entry, LocksInv, Asked, Ids

\* What LTRIM keeps is a list of no more than MaxSize of the entries.
Trimmed == [p \in Kept \cap DOMAIN recent |-> recent[p]]
LEMMA TrimmedList ==
  ASSUME TypeOK
  PROVE  /\ Trimmed \in Seq(Entry) /\ Len(Trimmed) <= MaxSize
         /\ {Trimmed[p] : p \in DOMAIN Trimmed} \subseteq {recent[p] : p \in DOMAIN recent}
<1> DEFINE n == IF Len(recent) < MaxSize THEN Len(recent) ELSE MaxSize
<1>1. recent \in Seq(Entry) /\ MaxSize \in Nat
  BY BoundsAssumption DEF TypeOK
<1>2. n \in Nat /\ Kept \cap DOMAIN recent = 1 .. n
  BY <1>1 DEF Kept
<1>3. Trimmed = [p \in 1 .. n |-> recent[p]]
  BY <1>2 DEF Trimmed
<1>4. \A p \in 1 .. n : recent[p] \in Entry /\ p \in DOMAIN recent
  BY <1>1
<1>5. Trimmed \in Seq(Entry) /\ Len(Trimmed) = n
  BY <1>2, <1>3, <1>4
<1>6. {Trimmed[p] : p \in DOMAIN Trimmed} \subseteq {recent[p] : p \in DOMAIN recent}
  BY <1>3, <1>4
<1> QED
  BY <1>1, <1>5, <1>6

\* The requests that may still draw an id.
ToInsert == {s \in Requests : pc[s] \in {"idle", "connect", "insert"}}

\* An insert finds an id left, and leaves enough for the requests after it.
LEMMA IdLeft ==
  ASSUME TypeOK, IdsInv, NEW r \in Requests, pc[r] \in {"idle", "connect", "insert"}
  PROVE  /\ nextId \in Ids /\ IsFiniteSet(ToInsert)
         /\ nextId + 1 + Cardinality(ToInsert \ {r}) <= MaxId + 1
<1>1. IsFiniteSet(Requests)
  BY FS_Interval, BoundsAssumption DEF Requests
<1>2. IsFiniteSet(ToInsert) /\ r \in ToInsert
  BY <1>1, FS_Subset DEF ToInsert
<1>3. Cardinality(ToInsert \ {r}) = Cardinality(ToInsert) - 1
      /\ Cardinality(ToInsert) \in Nat /\ Cardinality(ToInsert \ {r}) \in Nat
  BY <1>2, FS_RemoveElement, FS_CardinalityType
<1> QED
  BY <1>2, <1>3, BoundsAssumption DEF IdsInv, ToInsert, TypeOK, Ids

\* The rows, the list and the topic keep their types.
LEMMA DataTyped ==
  ASSUME TypeOK, PathsInv, IdsInv, LocksInv, NEW r \in Requests, Kind(r)
  PROVE  /\ customers' \in [Ids -> Row \cup {None}] /\ made' \in [Ids -> Row \cup {None}]
         /\ nextId' \in 1 .. MaxId + 1
         /\ recent' \in Seq(Entry) /\ events' \subseteq Entry
<1>1. ASSUME \/ Start(r) \/ Connect(r) \/ Leaves(r) \/ Goes(r) \/ Locks(r) \/ Lose(r)
      PROVE  /\ customers' = customers /\ made' = made /\ nextId' = nextId
             /\ recent' = recent /\ events' = events
  BY <1>1 DEF Start, Connect, Leaves, Goes, Locks, Lose, Private, table, sinks, past
<1>2. CASE Insert(r)
  <2>1. Op(r) = "create" /\ Written(r) \in Row /\ nextId \in Ids
    BY <1>2, Ops, WrittenRow, IdLeft DEF Insert
  <2>2. made' = made \/ made' = [made EXCEPT ![nextId] = Written(r)]
    BY <1>2 DEF Insert
  <2>3. made' \in [Ids -> Row \cup {None}]
    BY <2>1, <2>2 DEF TypeOK
  <2>4. /\ customers' = customers /\ nextId' = nextId + 1
        /\ recent' = recent /\ events' = events
    BY <1>2 DEF Insert, sinks
  <2>5. nextId' \in 1 .. MaxId + 1
    BY <2>1, <2>4, BoundsAssumption DEF Ids
  <2> QED
    BY <2>3, <2>4, <2>5 DEF TypeOK
<1>3. CASE LPush(r)
  <2>1. New(r) \in Entry
    BY <1>3, NewEntry DEF LPush
  <2>2. recent' = recent \/ recent' = <<New(r)>> \o recent
    BY <1>3 DEF LPush
  <2> QED
    BY <1>3, <2>1, <2>2 DEF LPush, TypeOK, table, past
<1>4. CASE LTrim(r)
  BY <1>4, TrimmedList DEF LTrim, TypeOK, table, Trimmed
<1>5. CASE Publish(r)
  <2>1. New(r) \in Entry
    BY <1>5, NewEntry DEF Publish
  <2> QED
    BY <1>5, <2>1 DEF Publish, TypeOK, table, past
<1>6. CASE Commit(r)
  <2>1. /\ made' = made /\ nextId' = nextId /\ recent' = recent /\ events' = events
    BY <1>6 DEF Commit, sinks
  <2>2. CASE held[r] # None /\ Op(r) # "order"
    <3>1. Written(r) \in Row \cup {None}
      <4>1. Op(r) \in {"create", "put", "patch", "delete"} /\ pc[r] # "idle"
        BY <1>6, <2>2 DEF LocksInv, Commit
      <4>2. Op(r) = "delete" => Written(r) = None
        BY DEF Written
      <4> QED
        BY <2>2, <4>1, <4>2, WrittenRow
    <3>2. customers' = [customers EXCEPT ![held[r]] = Written(r)]
      BY <1>6, <2>2 DEF Commit
    <3>3. customers' \in [Ids -> Row \cup {None}]
      BY <3>1, <3>2 DEF TypeOK
    <3> QED
      BY <2>1, <3>3 DEF TypeOK
  <2>3. CASE ~(held[r] # None /\ Op(r) # "order")
    BY <1>6, <2>1, <2>3 DEF Commit, TypeOK
  <2> QED
    BY <2>2, <2>3
<1> QED
  BY <1>1, <1>2, <1>3, <1>4, <1>5, <1>6 DEF Kind, TypeOK

\* Steps at which a request has no connection.
Free == {"idle", "connect", "range", "done"}

\* A step takes a connection, gives its own back, or neither.
LEMMA ConnsKinds ==
  ASSUME TypeOK, PathsInv, IdsInv, LocksInv, NEW r \in Requests, Kind(r)
  PROVE  /\ \/ conns' = conns /\ (pc'[r] \notin Free <=> pc[r] \notin Free)
            \/ /\ conns' = conns \cup {r} /\ pc'[r] \notin Free
               /\ Cardinality(conns) < PoolSize
            \/ conns' = conns \ {r} /\ pc'[r] \in Free
         /\ held'[r] \in Ids \cup {None}
         /\ pc'[r] = "done" <=> answer'[r] # None
         /\ held'[r] # None => pc'[r] \notin Free
<1>1. /\ None \notin Nat /\ pc'[r] # "idle" /\ Died \in Nat
      /\ held[r] \in Ids \cup {None} /\ (pc[r] = "done" <=> answer[r] # None)
      /\ held[r] # None => pc[r] \notin Free
  BY Frame, NoneAssumption DEF Free, Died, TypeOK, LocksInv
<1>2. CASE Start(r)
  BY <1>1, <1>2 DEF Start, Goto, PathsInv, Free, TypeOK
<1>3. CASE Connect(r)
  <2>1. IsCall(call[r]) /\ Op(r) # "recent"
    BY <1>3, Ops DEF Connect, PathsInv
  <2>2. FirstStep(Op(r)) \notin Free
    BY <2>1 DEF FirstStep, Free
  <2> QED
    BY <1>1, <1>3, <2>2 DEF Connect, Goto, PathsInv, Free, local
<1>4. CASE Leaves(r)
  BY <1>1, <1>4 DEF Leaves, End, Goto, PathsInv, Free
<1>5. CASE Goes(r)
  BY <1>1, <1>5 DEF Goes, After, PathsInv, Free
<1>6. CASE Locks(r)
  <2>1. call[r].id \in Ids
    BY <1>6, Ops DEF Locks
  <2> QED
    BY <1>1, <1>6, <2>1 DEF Locks, Goto, PathsInv, Free
<1>7. CASE Insert(r)
  <2>1. nextId \in Ids /\ pc[r] = "insert"
    BY <1>7, IdLeft DEF Insert
  <2>2. CASE EmailTaken(r)
    BY <1>1, <1>7, <2>1, <2>2 DEF Insert, End, Goto, PathsInv, Free
  <2>3. CASE ~EmailTaken(r)
    BY <1>1, <1>7, <2>1, <2>3 DEF Insert, Goto, PathsInv, Free
  <2> QED
    BY <2>2, <2>3
<1>8. CASE LPush(r) \/ LTrim(r) \/ Publish(r)
  BY <1>1, <1>8 DEF LPush, LTrim, Publish, Move, Goto, PathsInv, Free
<1>9. CASE Commit(r) \/ Lose(r)
  BY <1>1, <1>9 DEF Commit, Lose, End, Goto, PathsInv, Free
<1> QED
  BY <1>2, <1>3, <1>4, <1>5, <1>6, <1>7, <1>8, <1>9 DEF Kind

\* Requests are overtaken by commits that change a customer, once by each.
LEMMA OvertakenStep ==
  ASSUME TypeOK, NEW r \in Requests, Kind(r)
  PROVE  /\ overtaken' \in [Requests -> Nat]
         /\ \A s \in Requests : overtaken[s] <= overtaken'[s]
         /\ \/ customers' = customers
            \/ \A s \in Overtakes(r) : overtaken'[s] = overtaken[s] + 1
<1>t. overtaken \in [Requests -> Nat]
  BY DEF TypeOK
<1>1. CASE UNCHANGED <<customers, overtaken>>
  BY <1>t, <1>1
<1>2. CASE /\ overtaken' = [s \in Requests |->
                              overtaken[s] + IF s \in Overtakes(r) THEN 1 ELSE 0]
  <2>1. ASSUME NEW s \in Requests
        PROVE  /\ overtaken'[s] \in Nat /\ overtaken[s] <= overtaken'[s]
               /\ s \in Overtakes(r) => overtaken'[s] = overtaken[s] + 1
    <3>1. overtaken[s] \in Nat
      BY <1>t
    <3>2. CASE s \in Overtakes(r)
      BY <1>2, <3>1, <3>2
    <3>3. CASE s \notin Overtakes(r)
      BY <1>2, <3>1, <3>3
    <3> QED
      BY <3>2, <3>3
  <2>2. Overtakes(r) \subseteq Requests
    BY DEF Overtakes
  <2>3. DOMAIN overtaken' = Requests
    BY <1>2
  <2>4. overtaken' = [s \in Requests |-> overtaken'[s]]
    BY <1>2
  <2>5. overtaken' \in [Requests -> Nat]
    BY <2>1, <2>4
  <2> QED
    BY <2>1, <2>2, <2>5
<1>3. ASSUME \/ Start(r) \/ Connect(r) \/ Leaves(r) \/ Goes(r) \/ Locks(r) \/ Lose(r)
             \/ LPush(r) \/ LTrim(r) \/ Publish(r) \/ Insert(r)
      PROVE  UNCHANGED <<customers, overtaken>>
  BY <1>3 DEF Start, Connect, Leaves, Goes, Locks, Lose, LPush, LTrim, Publish, Insert,
              Private, table, past
<1>4. CASE Commit(r)
  BY <1>1, <1>2, <1>4 DEF Commit
<1> QED
  BY <1>1, <1>3, <1>4 DEF Kind

\* A connection stays held exactly between the first statement and the end.
LEMMA TypeStep ==
  ASSUME TypeOK, PathsInv, IdsInv, LocksInv, NEW r \in Requests, Kind(r)
  PROVE  TypeOK'
<1>1. /\ \/ conns' = conns /\ (pc'[r] \notin Free <=> pc[r] \notin Free)
         \/ conns' = conns \cup {r} /\ pc'[r] \notin Free /\ Cardinality(conns) < PoolSize
         \/ conns' = conns \ {r} /\ pc'[r] \in Free
      /\ held'[r] \in Ids \cup {None}
      /\ pc'[r] = "done" <=> answer'[r] # None
      /\ held'[r] # None => pc'[r] \notin Free
  BY ConnsKinds
<1>2. Others(r)
  BY Frame
<1>3. conns = {s \in Requests : pc[s] \notin Free} /\ Cardinality(conns) <= PoolSize
  BY DEF TypeOK, Free
<1>4. conns' = {s \in Requests : pc'[s] \notin Free}
  BY <1>1, <1>2, <1>3 DEF Others
<1>5. Cardinality(conns') <= PoolSize
  <2>1. IsFiniteSet(Requests)
    BY FS_Interval, BoundsAssumption DEF Requests
  <2>2. IsFiniteSet(conns) /\ Cardinality(conns) \in Nat
    <3>1. conns \in SUBSET Requests
      BY <1>3
    <3>2. IsFiniteSet(conns)
      BY <2>1, <3>1, FS_Subset
    <3> QED
      BY <3>2, FS_CardinalityType
  <2>3. Cardinality(conns \cup {r}) <= Cardinality(conns) + 1
    <3>1. Cardinality(conns \cup {r}) =
            IF r \in conns THEN Cardinality(conns) ELSE Cardinality(conns) + 1
      BY <2>2, FS_AddElement
    <3> QED
      BY <2>2, <3>1
  <2>4. Cardinality(conns \ {r}) <= Cardinality(conns)
    <3>1. Cardinality(conns \ {r}) =
            IF r \in conns THEN Cardinality(conns) - 1 ELSE Cardinality(conns)
      BY <2>2, FS_RemoveElement
    <3> QED
      BY <2>2, <3>1
  <2>5. PoolSize \in Nat
    BY BoundsAssumption
  <2>6. /\ Cardinality(conns \cup {r}) \in Nat
        /\ Cardinality(conns \ {r}) \in Nat
    BY <2>2, FS_AddElement, FS_RemoveElement, FS_CardinalityType
  <2>7. CASE conns' = conns
    BY <1>3, <2>7
  <2>8. CASE conns' = conns \cup {r} /\ Cardinality(conns) < PoolSize
    BY <2>2, <2>3, <2>5, <2>6, <2>8
  <2>9. CASE conns' = conns \ {r}
    BY <1>3, <2>2, <2>4, <2>5, <2>6, <2>9
  <2> QED
    BY <1>1, <2>7, <2>8, <2>9
<1>6. ASSUME NEW s \in Requests
      PROVE  /\ held'[s] \in Ids \cup {None}
             /\ pc'[s] = "done" <=> answer'[s] # None
             /\ held'[s] # None => s \in conns'
  <2>1. CASE s = r
    BY <1>1, <1>4, <2>1
  <2>2. CASE s # r
    BY <1>2, <1>3, <1>4, <2>2 DEF Others, TypeOK
  <2> QED
    BY <2>1, <2>2
<1> QED
  BY DataTyped, OvertakenStep, <1>4, <1>5, <1>6 DEF TypeOK, Free
-----------------------------------------------------------------------------
\* Every locked row has an id that was handed out.
LEMMA HeldBelow ==
  ASSUME TypeOK, IdsInv, LocksInv, NEW r \in Requests, held[r] # None
  PROVE  held[r] \in Ids /\ held[r] < nextId
<1>1. held[r] \in Ids /\ nextId \in Nat /\ MaxId \in Nat
  BY BoundsAssumption DEF TypeOK
<1>2. CASE Op(r) = "create"
  BY <1>1, <1>2 DEF LocksInv
<1>3. CASE Op(r) # "create"
  <2>1. customers[held[r]] # None
    BY <1>3 DEF LocksInv
  <2> QED
    BY <1>1, <2>1 DEF IdsInv, Ids
<1> QED
  BY <1>2, <1>3

\* What a request announces.
Announcements == events \cup {recent[p] : p \in DOMAIN recent}

\* Only the request's own entry is ever announced anew.
LEMMA AnnouncedAnew ==
  ASSUME TypeOK, PathsInv, LocksInv, NEW r \in Requests, Kind(r),
         NEW a, a \in events' \cup {recent'[p] : p \in DOMAIN recent'}
  PROVE  \/ a \in Announcements
         \/ (LPush(r) \/ Publish(r)) /\ a = New(r)
<1>1. CASE LPush(r)
  <2>1. recent' = recent \/ recent' = <<New(r)>> \o recent
    BY <1>1 DEF LPush
  <2>2. events' = events /\ pc[r] = "push" /\ recent \in Seq(Entry)
    BY <1>1 DEF LPush, TypeOK
  <2>3. New(r) \in Entry
    BY <2>2, NewEntry
  <2>4. ASSUME recent' = <<New(r)>> \o recent, NEW p \in DOMAIN recent'
        PROVE  recent'[p] = New(r) \/ recent'[p] \in Announcements
    <3>1. p \in 1 .. Len(recent) + 1 /\ Len(recent) \in Nat
      BY <2>2, <2>3, <2>4
    <3>2. recent'[p] = IF p = 1 THEN New(r) ELSE recent[p - 1]
      BY <2>2, <2>3, <2>4, <3>1
    <3> QED
      BY <2>2, <3>1, <3>2 DEF Announcements
  <2> QED
    BY <1>1, <2>1, <2>2, <2>4 DEF Announcements
<1>2. CASE LTrim(r)
  <2>1. events' = events /\ (recent' = recent \/ recent' = Trimmed)
    BY <1>2 DEF LTrim, Trimmed
  <2>2. {Trimmed[p] : p \in DOMAIN Trimmed} \subseteq {recent[p] : p \in DOMAIN recent}
    BY TrimmedList
  <2> QED
    BY <2>1, <2>2 DEF Announcements
<1>3. CASE Publish(r)
  BY <1>3 DEF Publish, Announcements
<1>4. CASE \/ Start(r) \/ Connect(r) \/ Leaves(r) \/ Goes(r) \/ Locks(r) \/ Lose(r)
           \/ Insert(r) \/ Commit(r)
  <2>1. recent' = recent /\ events' = events
    BY <1>4 DEF Start, Connect, Leaves, Goes, Locks, Lose, Insert, Commit, Private, sinks
  <2> QED
    BY <2>1 DEF Announcements
<1> QED
  BY <1>1, <1>2, <1>3, <1>4 DEF Kind

\* Ids are drawn once, one per request.
LEMMA IdsStep ==
  ASSUME TypeOK, PathsInv, IdsInv, LocksInv, NEW r \in Requests, Kind(r)
  PROVE  IdsInv'
<1>0. nextId \in Nat /\ MaxId \in Nat /\ N \in Nat
  BY BoundsAssumption DEF TypeOK
<1>1. /\ Others(r) /\ pc'[r] # "idle"
      /\ DOMAIN pc' = Requests
  BY Frame
<1>2. \/ nextId' = nextId
      \/ Insert(r) /\ nextId' = nextId + 1
  BY DEF Kind, Start, Connect, Leaves, Goes, Locks, Lose, LPush, LTrim, Publish, Commit,
         Insert, Private, table
<1>3. nextId' + Cardinality({s \in Requests : pc'[s] \in {"idle", "connect", "insert"}})
        <= MaxId + 1
  <2> DEFINE After1 == {s \in Requests : pc'[s] \in {"idle", "connect", "insert"}}
  <2>1. pc'[r] \in {"connect", "insert"} => pc[r] \in {"idle", "connect"}
    <3>1. ASSUME \/ Leaves(r) \/ Goes(r) \/ Locks(r) \/ Insert(r) \/ LPush(r) \/ LTrim(r)
                 \/ Publish(r) \/ Commit(r) \/ Lose(r)
          PROVE  pc'[r] \notin {"connect", "insert"}
      BY <3>1 DEF Leaves, Goes, After, Locks, Insert, LPush, LTrim, Publish, Commit, Lose,
                  End, Move, Goto, PathsInv
    <3> QED
      BY <3>1 DEF Kind, Start, Connect
  <2>2. After1 \subseteq ToInsert
    BY <1>1, <2>1 DEF Others, ToInsert
  <2>3. IsFiniteSet(Requests)
    BY FS_Interval, BoundsAssumption DEF Requests
  <2>4. IsFiniteSet(ToInsert) /\ ToInsert \in SUBSET Requests
    BY <2>3, FS_Subset DEF ToInsert
  <2>5. Cardinality(ToInsert) \in Nat /\ nextId + Cardinality(ToInsert) <= MaxId + 1
    BY <2>4, FS_CardinalityType DEF IdsInv, ToInsert
  <2> HIDE DEF After1
  <2>6. CASE nextId' = nextId
    <3>1. Cardinality(After1) <= Cardinality(ToInsert) /\ Cardinality(After1) \in Nat
      BY <2>2, <2>4, FS_Subset, FS_CardinalityType
    <3> QED
      BY <1>0, <2>5, <2>6, <3>1 DEF After1
  <2>7. CASE Insert(r) /\ nextId' = nextId + 1
    <3>1. pc[r] = "insert" /\ pc'[r] \in {"push", "done"}
      BY <2>7 DEF Insert, End, Goto, PathsInv
    <3>2. After1 \subseteq ToInsert \ {r}
      BY <2>2, <3>1 DEF After1
    <3>3. IsFiniteSet(ToInsert \ {r})
      BY <2>4, FS_RemoveElement
    <3>4. /\ Cardinality(After1) <= Cardinality(ToInsert \ {r})
          /\ Cardinality(After1) \in Nat /\ Cardinality(ToInsert \ {r}) \in Nat
      BY <3>2, <3>3, FS_Subset, FS_CardinalityType
    <3>5. nextId + 1 + Cardinality(ToInsert \ {r}) <= MaxId + 1
      BY <3>1, IdLeft
    <3> QED
      BY <1>0, <2>7, <3>4, <3>5 DEF After1
  <2> QED
    BY <1>2, <2>6, <2>7
<1>4. \A i \in nextId' .. MaxId : customers'[i] = None
  <2>1. \A i \in nextId' .. MaxId : i \in nextId .. MaxId /\ customers[i] = None
    BY <1>0, <1>2 DEF IdsInv
  <2>2. ASSUME customers' # customers
        PROVE  /\ held[r] # None
               /\ customers' = [customers EXCEPT ![held[r]] = Written(r)]
    BY <2>2 DEF Kind, Start, Connect, Leaves, Goes, Locks, Lose, LPush, LTrim, Publish,
                Insert, Commit, Private, table
  <2>3. CASE customers' = customers
    BY <2>1, <2>3
  <2>4. CASE customers' # customers
    <3>1. held[r] \in Ids /\ held[r] < nextId
      BY <2>2, <2>4, HeldBelow
    <3>2. \A i \in nextId' .. MaxId : i # held[r] /\ i \in Ids
      BY <1>0, <1>2, <3>1, <2>1 DEF Ids, TypeOK
    <3> QED
      BY <2>1, <2>2, <2>4, <3>2 DEF TypeOK
  <2> QED
    BY <2>3, <2>4
<1>5. \A a \in events' \cup {recent'[p] : p \in DOMAIN recent'} : a.id < nextId'
  <2> SUFFICES ASSUME NEW a \in events' \cup {recent'[p] : p \in DOMAIN recent'}
               PROVE  a.id < nextId'
    OBVIOUS
  <2>1. CASE a \in Announcements
    <3>1. a.id < nextId
      BY <2>1 DEF IdsInv, Announcements
    <3>2. a \in Entry
      BY <2>1 DEF TypeOK, Announcements
    <3>3. a.id \in Nat
      BY <3>2 DEF Entry, Ids
    <3> QED
      BY <1>0, <1>2, <3>1, <3>3
  <2>2. CASE (LPush(r) \/ Publish(r)) /\ a = New(r)
    <3>0. pc[r] \in {"push", "publish"}
      BY <2>2 DEF LPush, Publish
    <3>1. a.id = held[r] /\ held[r] < nextId /\ held[r] # None
      BY <2>2, <3>0, NewEntry DEF LocksInv
    <3>2. held[r] \in Nat
      BY <3>1, HeldBelow DEF Ids
    <3> QED
      BY <1>0, <1>2, <3>1, <3>2
  <2> QED
    BY <2>1, <2>2, AnnouncedAnew
<1>6. ordered' \subseteq Ids
  <2>1. \/ ordered' = ordered
        \/ pc[r] = "commit" /\ Op(r) = "order" /\ ordered' = ordered \cup {held[r]}
    BY DEF Kind, Start, Connect, Leaves, Goes, Locks, Lose, LPush, LTrim, Publish,
           Insert, Commit, Private, table
  <2>2. pc[r] = "commit" /\ Op(r) = "order" => held[r] \in Ids
    BY DEF LocksInv, TypeOK
  <2> QED
    BY <2>1, <2>2 DEF IdsInv
<1>7. untrimmed' \in Nat
  <2>1. untrimmed' \in {untrimmed, 0, untrimmed + 1}
    BY DEF Kind, Start, Connect, Leaves, Goes, Locks, Lose, LPush, LTrim, Publish,
           Insert, Commit, Private, past
  <2> QED
    BY <2>1 DEF IdsInv
<1> QED
  BY <1>3, <1>4, <1>5, <1>6, <1>7 DEF IdsInv
-----------------------------------------------------------------------------
\* A request that has written a row it will leave changed.
Writes(r) == held[r] # None /\ Op(r) # "order"

\* What a step does to the tables, whatever its kind.
LEMMA Effects ==
  ASSUME TypeOK, PathsInv, IdsInv, LocksInv, NEW r \in Requests, Kind(r)
  PROVE  /\ \/ customers' = customers
            \/ /\ Commit(r) /\ Writes(r)
               /\ customers' = [customers EXCEPT ![held[r]] = Written(r)]
               /\ \A s \in Overtakes(r) : overtaken'[s] = overtaken[s] + 1
         /\ \/ made' = made
            \/ Insert(r) /\ ~EmailTaken(r) /\ made' = [made EXCEPT ![nextId] = Written(r)]
         /\ \/ ordered' = ordered
            \/ Commit(r) /\ Op(r) = "order" /\ ordered' = ordered \cup {held[r]}
         /\ \/ nextId' = nextId
            \/ Insert(r) /\ nextId' = nextId + 1
         /\ \A s \in Requests : overtaken[s] <= overtaken'[s] /\ overtaken'[s] \in Nat
<1>1. ASSUME \/ Start(r) \/ Connect(r) \/ Leaves(r) \/ Goes(r) \/ Locks(r) \/ Lose(r)
             \/ LPush(r) \/ LTrim(r) \/ Publish(r)
      PROVE  /\ customers' = customers /\ made' = made /\ nextId' = nextId
             /\ ordered' = ordered
  BY <1>1 DEF Start, Connect, Leaves, Goes, Locks, Lose, LPush, LTrim, Publish,
              Private, table, past
<1>o. \A s \in Requests : overtaken[s] <= overtaken'[s] /\ overtaken'[s] \in Nat
  BY OvertakenStep
<1>2. CASE Insert(r)
  BY <1>o, <1>2 DEF Insert, Commit
<1>3. CASE Commit(r)
  <2>1. /\ made' = made /\ nextId' = nextId
        /\ ordered' = ordered \/ (Op(r) = "order" /\ ordered' = ordered \cup {held[r]})
        /\ Writes(r) => customers' = [customers EXCEPT ![held[r]] = Written(r)]
        /\ ~Writes(r) => customers' = customers
    BY <1>3 DEF Commit, Writes
  <2>2. customers' = customers \/ \A s \in Overtakes(r) : overtaken'[s] = overtaken[s] + 1
    BY OvertakenStep
  <2>3. CASE customers' = customers
    BY <1>3, <1>o, <2>1, <2>3
  <2>4. CASE customers' # customers
    BY <1>3, <1>o, <2>1, <2>2, <2>4
  <2> QED
    BY <2>3, <2>4
<1> QED
  BY <1>o, <1>1, <1>2, <1>3 DEF Kind

\* What LocksInv says of one request, and of two.
Lock(r) ==
  /\ held[r] # None =>
        /\ Op(r) \in {"create", "put", "patch", "delete", "order"}
        /\ pc[r] \in {"push", "trim", "publish", "index", "commit"}
        /\ Op(r) = "create" => /\ held[r] < nextId /\ customers[held[r]] = None
                               /\ made[held[r]] = Asked(r)
        /\ Op(r) # "create" => held[r] = call[r].id /\ customers[held[r]] # None
        /\ Op(r) = "delete" => held[r] \notin ordered
  /\ pc[r] \in {"push", "trim", "publish"} => held[r] # None
  /\ pc[r] = "commit" /\ Op(r) \in {"create", "order"} => held[r] # None
  /\ pc[r] = "index" => held[r] # None /\ KeyChanges(r)
Shared(r, s) ==
  held[r] # None /\ held[r] = held[s] =>
    "order" \in {Op(r), Op(s)} /\ "delete" \notin {Op(r), Op(s)}
LEMMA LocksInvUnfold ==
  LocksInv <=> /\ \A r \in Requests : Lock(r)
               /\ \A r, s \in Requests : r # s => Shared(r, s)
BY DEF LocksInv, Lock, Shared

\* What the open transaction of one request relies on, a step of another keeps.
LEMMA LockOfOthers ==
  ASSUME TypeOK, PathsInv, IdsInv, LocksInv, NEW r \in Requests, Kind(r),
         NEW t \in Requests, t # r
  PROVE  Lock(t)'
<1>1. /\ pc'[t] = pc[t] /\ call'[t] = call[t] /\ held'[t] = held[t]
      /\ loaded'[t] = loaded[t]
  BY Frame DEF Others
<1>2. Lock(t) /\ Shared(t, r)
  BY LocksInvUnfold
<1>3. KeyChanges(t)' <=> KeyChanges(t)
  BY <1>1 DEF KeyChanges, Changed, Op
<1>4. ASSUME held[t] # None
      PROVE  /\ Op(t) = "create" => /\ held[t] < nextId' /\ customers'[held[t]] = None
                                    /\ made'[held[t]] = Asked(t)
             /\ Op(t) # "create" => held[t] = call[t].id /\ customers'[held[t]] # None
             /\ Op(t) = "delete" => held[t] \notin ordered'
  <2>1. held[t] \in Ids /\ held[t] < nextId /\ nextId \in Nat
    BY <1>4, HeldBelow DEF TypeOK
  <2>2. held[t] < nextId'
    <3>1. nextId' \in {nextId, nextId + 1}
      BY Effects
    <3> QED
      BY <2>1, <3>1 DEF Ids
  <2>3. made'[held[t]] = made[held[t]]
    <3>1. made' = made \/ made' = [made EXCEPT ![nextId] = Written(r)]
      BY Effects
    <3>2. held[t] # nextId
      BY <2>1 DEF Ids
    <3> QED
      BY <2>1, <3>1, <3>2 DEF TypeOK
  <2>4. Op(t) = "delete" => held[t] \notin ordered'
    BY <1>2, <1>4, Effects DEF Lock, Shared
  <2>5. CASE customers'[held[t]] = customers[held[t]]
    BY <1>2, <1>4, <2>2, <2>3, <2>4, <2>5 DEF Lock
  <2>6. CASE customers'[held[t]] # customers[held[t]]
    <3>1. /\ Commit(r) /\ Writes(r) /\ held[r] = held[t]
          /\ customers' = [customers EXCEPT ![held[r]] = Written(r)]
      BY <2>1, <2>6, Effects DEF TypeOK
    <3>2. Op(t) = "order" /\ Op(r) # "delete"
      BY <1>2, <1>4, <3>1 DEF Shared, Writes
    <3>3. Written(r) \in Row /\ None \notin Row
      <4>1. Op(r) \in {"create", "put", "patch"} /\ held[r] # None /\ pc[r] # "idle"
        BY <3>1, <3>2 DEF LocksInv, Writes, Commit
      <4> QED
        BY <4>1, WrittenRow, NoneAssumption
    <3>4. customers'[held[t]] # None
      BY <2>1, <3>1, <3>3 DEF TypeOK
    <3> QED
      BY <1>2, <1>4, <2>4, <3>2, <3>4 DEF Lock
  <2> QED
    BY <2>5, <2>6
<1> QED
  BY <1>1, <1>2, <1>3, <1>4 DEF Lock, Op, Asked

\* A request locks a row that is there, or one that is new.
LEMMA LockOfOwn ==
  ASSUME TypeOK, PathsInv, IdsInv, LocksInv, NEW r \in Requests, Kind(r)
  PROVE  Lock(r)'
<1>1. /\ pc[r] # "idle" => call'[r] = call[r]
      /\ pc[r] = "idle" => Start(r)
  BY Frame
<1>2. Lock(r)
  BY LocksInvUnfold
<1>3. CASE Start(r)
  <2>1. held'[r] = None /\ pc'[r] \in {"connect", "range"}
    BY <1>3 DEF Start, Goto, PathsInv
  <2> QED
    BY <2>1 DEF Lock
<1>4. CASE Connect(r)
  <2>1. held'[r] = held[r] /\ pc[r] = "connect" /\ pc'[r] = FirstStep(Op(r))
    BY <1>4 DEF Connect, Goto, PathsInv, local
  <2>2. IsCall(call[r]) /\ Op(r) # "recent"
    BY <2>1, Ops DEF PathsInv
  <2>3. FirstStep(Op(r)) \notin {"push", "trim", "publish", "commit", "index"}
    BY <2>2 DEF FirstStep
  <2> QED
    BY <1>2, <2>1, <2>3 DEF Lock
<1>5. CASE Leaves(r) \/ Commit(r) \/ Lose(r)
  <2>1. held'[r] = None /\ pc'[r] = "done"
    BY <1>5 DEF Leaves, Commit, Lose, End, Goto, PathsInv
  <2> QED
    BY <2>1 DEF Lock
<1>6. CASE Goes(r)
  <2>1. /\ held'[r] = held[r] /\ call' = call /\ customers' = customers
        /\ ordered' = ordered
        /\ pc'[r] \in {"commit", "write", "remote", "reply", "orders", "page", "lines"}
        /\ pc[r] \in {"load", "write", "index", "count", "page", "orders", "lines",
                     "remote", "reply", "diagnose"}
    BY <1>6 DEF Goes, After, Private, table
  <2>2. Op(r) \notin {"create", "order"}
    BY <2>1, Ops DEF ByIdOps
  <2>3. held[r] # None => pc[r] = "index" /\ pc'[r] = "commit"
    BY <1>2, <1>6, <2>1 DEF Lock, Goes, After
  <2> QED
    BY <1>2, <2>1, <2>2, <2>3 DEF Lock, Op
<1>7. CASE Locks(r)
  <2>1. /\ held'[r] = call[r].id /\ call' = call /\ customers' = customers
        /\ ordered' = ordered /\ loaded' = loaded
        /\ Op(r) \in {"put", "patch", "delete", "order"}
        /\ customers[call[r].id] # None
        /\ Op(r) = "delete" => call[r].id \notin ordered
        /\ pc'[r] = IF pc[r] = "write" /\ Op(r) # "delete" /\ KeyChanges(r)
                    THEN "index" ELSE "commit"
        /\ pc[r] \in {"write", "order"}
    BY <1>7 DEF Locks, Goto, PathsInv, Private, table
  <2>2. call[r].id \in Ids /\ None \notin Nat
    BY <2>1, Ops, NoneAssumption
  <2>3. call[r].id # None
    BY <2>2 DEF Ids
  <2> QED
    BY <2>1, <2>3 DEF Lock, KeyChanges, Changed, Op
<1>8. CASE Insert(r)
  <2>1. pc[r] = "insert" /\ Op(r) = "create" /\ call'[r] = call[r]
        /\ nextId \in Ids /\ nextId' = nextId + 1 /\ customers' = customers
    BY <1>1, <1>8, Ops, IdLeft DEF Insert
  <2>2. CASE EmailTaken(r)
    <3>1. held'[r] = None /\ pc'[r] = "done"
      BY <1>8, <2>2 DEF Insert, End, Goto, PathsInv
    <3> QED
      BY <3>1 DEF Lock
  <2>3. CASE ~EmailTaken(r)
    <3>1. /\ held'[r] = nextId /\ made' = [made EXCEPT ![nextId] = Written(r)]
          /\ pc'[r] = "push"
      BY <1>8, <2>3 DEF Insert, Goto, PathsInv
    <3>2. Written(r) = Asked(r)
      BY <2>1, WrittenRow
    <3>3. customers[nextId] = None /\ nextId < nextId + 1 /\ nextId # None
      BY <2>1, NoneAssumption, BoundsAssumption DEF IdsInv, Ids
    <3>4. made'[nextId] = Asked(r)
      BY <2>1, <3>1, <3>2 DEF TypeOK
    <3> QED
      BY <2>1, <3>1, <3>3, <3>4 DEF Lock, Asked, Op
  <2> QED
    BY <2>2, <2>3
<1>9. CASE LPush(r) \/ LTrim(r) \/ Publish(r)
  <2>1. /\ held'[r] = held[r] /\ call' = call /\ customers' = customers
        /\ made' = made /\ nextId' = nextId /\ ordered' = ordered
        /\ pc[r] \in {"push", "trim", "publish"}
        /\ pc'[r] \in {"trim", "publish", "commit"}
    BY <1>9 DEF LPush, LTrim, Publish, Move, Goto, PathsInv, table, past
  <2> QED
    BY <1>2, <2>1 DEF Lock, Op, Asked
<1> QED
  BY <1>3, <1>4, <1>5, <1>6, <1>7, <1>8, <1>9 DEF Kind

\* A lock that is taken is one that nobody's lock forbids.
LEMMA LockOfTwo ==
  ASSUME TypeOK, PathsInv, IdsInv, LocksInv, NEW r \in Requests, Kind(r),
         NEW s \in Requests, s # r
  PROVE  Shared(r, s)' /\ Shared(s, r)'
<1>1. /\ held'[s] = held[s] /\ call'[s] = call[s]
      /\ pc[r] # "idle" => call'[r] = call[r]
      /\ pc[r] = "idle" => Start(r)
  BY Frame DEF Others
<1>2. Shared(r, s) /\ Lock(s) /\ Lock(r)
  BY LocksInvUnfold
<1>3. CASE held'[r] = None
  BY <1>1, <1>3 DEF Shared
<1>4. CASE held'[r] = held[r] /\ pc[r] # "idle"
  BY <1>1, <1>2, <1>4 DEF Shared, Op
<1>5. CASE Insert(r) /\ held'[r] = nextId
  <2>1. held[s] # None => held[s] < nextId /\ nextId \in Nat /\ held[s] \in Nat
    BY HeldBelow DEF TypeOK, Ids
  <2>2. held[s] # nextId \/ held[s] = None
    BY <2>1
  <2> QED
    BY <1>1, <1>5, <2>2 DEF Shared
<1>6. CASE Locks(r)
  <2>1. /\ held'[r] = call[r].id /\ call'[r] = call[r] /\ Blockers(r) = {}
        /\ customers[call[r].id] # None
        /\ pc[r] \in {"write", "order"}
        /\ pc[r] = "order" => Op(r) = "order"
        /\ pc[r] = "write" => Op(r) \in {"put", "patch", "delete"}
    BY <1>6 DEF Locks, PathsInv
  <2>2. ASSUME held[s] = call[r].id, held[s] # None
        PROVE  "order" \in {Op(r), Op(s)} /\ "delete" \notin {Op(r), Op(s)}
    <3>1. Op(s) # "create"
      BY <1>2, <2>1, <2>2 DEF Lock
    <3>2. s \in Holders(call[r].id)
      BY <2>2, <3>1 DEF Holders
    <3>3. CASE pc[r] = "write"
      <4>1. ~(Op(s) = "order" => KeyChanges(r))
        BY <2>1, <3>2, <3>3 DEF Blockers
      <4> QED
        BY <4>1 DEF KeyChanges
    <3>4. CASE pc[r] = "order"
      <4>1. ~(Op(s) # "order" /\ KeyChanges(s))
        BY <2>1, <3>2, <3>4 DEF Blockers
      <4> QED
        BY <2>1, <3>4, <4>1 DEF KeyChanges
    <3> QED
      BY <2>1, <3>3, <3>4
  <2> QED
    BY <1>1, <2>1, <2>2 DEF Shared, Op
<1>7. \/ held'[r] = None
      \/ held'[r] = held[r] /\ pc[r] # "idle"
      \/ Insert(r) /\ held'[r] = nextId
      \/ Locks(r)
  <2>1. ASSUME Leaves(r) \/ Commit(r) \/ Lose(r) PROVE held'[r] = None
    BY <2>1 DEF Leaves, Commit, Lose, End, PathsInv
  <2>2. ASSUME Start(r) PROVE held'[r] = None
    BY <2>2 DEF Start, PathsInv
  <2>3. ASSUME Connect(r) \/ Goes(r) PROVE held'[r] = held[r] /\ pc[r] # "idle"
    BY <2>3 DEF Connect, Goes, local
  <2>4. ASSUME LPush(r) \/ LTrim(r) \/ Publish(r)
        PROVE  held'[r] = held[r] /\ pc[r] # "idle"
    BY <2>4 DEF LPush, LTrim, Publish, Move
  <2>5. ASSUME Insert(r) PROVE held'[r] = None \/ held'[r] = nextId
    BY <2>5 DEF Insert, End, PathsInv
  <2> QED
    BY <2>1, <2>2, <2>3, <2>4, <2>5 DEF Kind
<1> QED
  BY <1>3, <1>4, <1>5, <1>6, <1>7

\* No step breaks what the locks protect.
LEMMA LocksStep ==
  ASSUME TypeOK, PathsInv, IdsInv, LocksInv, NEW r \in Requests, Kind(r)
  PROVE  LocksInv'
<1>1. \A t \in Requests : Lock(t)'
  BY LockOfOthers, LockOfOwn
<1>2. ASSUME NEW s \in Requests, NEW t \in Requests, s # t
      PROVE  Shared(s, t)'
  <2>1. CASE r \in {s, t}
    BY <1>2, <2>1, LockOfTwo
  <2>2. CASE r \notin {s, t}
    <3>1. /\ held'[s] = held[s] /\ held'[t] = held[t]
          /\ call'[s] = call[s] /\ call'[t] = call[t]
      BY <2>2, Frame DEF Others
    <3>2. Shared(s, t)
      BY <1>2, LocksInvUnfold
    <3> QED
      BY <3>1, <3>2 DEF Shared, Op
  <2> QED
    BY <2>1, <2>2
<1> QED
  BY <1>1, <1>2 DEF LocksInv, Lock, Shared
-----------------------------------------------------------------------------
\* While a row is locked, what its writer will leave there stays the same.
LEMMA ClaimStays ==
  ASSUME TypeOK, PathsInv, IdsInv, LocksInv, NEW r \in Requests, Kind(r),
         NEW t \in Requests, t # r
  PROVE  /\ Claims(t)' <=> Claims(t)
         /\ Claims(t) => Written(t)' = Written(t) /\ customers'[held[t]] = customers[held[t]]
<1>1. /\ pc'[t] = pc[t] /\ call'[t] = call[t] /\ held'[t] = held[t]
      /\ loaded'[t] = loaded[t]
  BY Frame DEF Others
<1>2. Claims(t)' <=> Claims(t)
  BY <1>1 DEF Claims, Op
<1>3. ASSUME Claims(t)
      PROVE  customers'[held[t]] = customers[held[t]]
  <2>1. held[t] \in Ids /\ held[t] # None /\ Op(t) # "order"
    BY <1>3, HeldBelow DEF Claims
  <2>2. ASSUME Writes(r), held[r] = held[t]
        PROVE  FALSE
    BY <2>1, <2>2 DEF LocksInv, Writes
  <2> QED
    BY <2>1, <2>2, Effects DEF TypeOK
<1>4. ASSUME Claims(t)
      PROVE  Written(t)' = Written(t)
  BY <1>1, <1>3, <1>4 DEF Written, Changed, Op
<1> QED
  BY <1>2, <1>3, <1>4

\* No row but that of id i, and no claim but that of r, has email e.
Untaken(r, i, e) ==
  /\ \A j \in Ids \ {i} : customers[j] # None => customers[j].email # e
  /\ \A s \in Requests \ {r} : Claims(s) => Written(s).email # e

\* A claim is of a row.
LEMMA ClaimedRow ==
  ASSUME TypeOK, PathsInv, LocksInv, NEW r \in Requests, Claims(r)
  PROVE  Written(r) \in Row /\ Written(r) # None
<1>1. /\ held[r] # None /\ pc[r] # "idle"
      /\ Op(r) \in {"create", "put", "patch"}
  BY DEF Claims, LocksInv
<1> QED
  BY <1>1, WrittenRow, NoneAssumption

\* Rivals and EmailTaken are what it takes to claim the email asked for.
LEMMA NoRivals ==
  ASSUME TypeOK, PathsInv, LocksInv, NEW r \in Requests, Rivals(r) = {}, ~EmailTaken(r)
  PROVE  Untaken(r, held[r], call[r].email)
<1>1. ASSUME NEW s \in Requests \ {r}, Claims(s)
      PROVE  Written(s).email # call[r].email
  <2>1. held[s] # None /\ Op(s) # "order" /\ pc[s] # "index"
    BY <1>1 DEF Claims
  <2>2. Written(s) # None => Written(s).email # call[r].email
    BY <1>1, <2>1 DEF Rivals
  <2>3. Written(s) # None
    BY <1>1, ClaimedRow
  <2> QED
    BY <2>2, <2>3
<1> QED
  BY <1>1 DEF Untaken, EmailTaken

\* Whatever request r claims after a step is neither stored nor claimed.
LEMMA NewClaim ==
  ASSUME TypeOK, PathsInv, IdsInv, LocksInv, EmailsInv, Consistent,
         NEW r \in Requests, Kind(r), Claims(r)'
  PROVE  customers' = customers /\ Untaken(r, held'[r], Written(r)'.email)
<1>1. /\ pc[r] # "idle" => call'[r] = call[r]
      /\ pc[r] = "idle" => Start(r)
  BY Frame
<1>2. Lock(r)
  BY LocksInvUnfold
<1>3. CASE LPush(r) \/ LTrim(r) \/ Publish(r)
  <2>1. /\ customers' = customers /\ held' = held /\ call' = call /\ loaded' = loaded
        /\ pc[r] # "index"
    BY <1>3 DEF LPush, LTrim, Publish, Move, table
  <2>2. Claims(r) /\ Written(r)' = Written(r)
    BY <2>1 DEF Claims, Written, Changed, Op
  <2> QED
    BY <2>1, <2>2 DEF EmailsInv, Untaken
<1>4. CASE Insert(r)
  <2>1. ~EmailTaken(r) /\ pc[r] = "insert" /\ Op(r) = "create" /\ Blockers(r) = {}
    BY <1>4, Ops DEF Insert, End, Claims, PathsInv
  <2>2. /\ held'[r] = nextId /\ customers' = customers /\ held[r] = None
        /\ call'[r] = call[r]
    BY <1>2, <1>4, <2>1 DEF Insert, PathsInv, Lock
  <2>3. Written(r)' = Asked(r)
    BY <2>1, <2>2 DEF Written, Op, Asked
  <2>4. Untaken(r, held[r], call[r].email)
    BY <2>1, NoRivals DEF Blockers
  <2>5. None \notin Ids
    BY NoneAssumption DEF Ids
  <2> QED
    BY <2>2, <2>3, <2>4, <2>5 DEF Untaken, Asked
<1>5. CASE Goes(r)
  <2>1. /\ customers' = customers /\ held' = held /\ call' = call
        /\ pc[r] = "index" => loaded'[r] = loaded[r] /\ Blockers(r) = {} /\ ~EmailTaken(r)
    BY <1>5 DEF Goes, Private, table
  <2>2. pc[r] = "index"
    BY <1>2, <1>5, <2>1 DEF Claims, Lock, Goes
  <2>3. /\ Op(r) \notin {"create", "delete"} /\ "email" \in Changed(r, loaded[r])
    BY <1>2, <2>2, Ops DEF Lock, KeyChanges
  <2>4. Written(r)' = Written(r) /\ Written(r).email = call[r].email
    <3>1. Written(r)' = Written(r)
      BY <2>1, <2>2 DEF Written, Changed, Op
    <3>2. Written(r)["email"] = call[r]["email"]
      BY <2>3 DEF Written
    <3> QED
      BY <3>1, <3>2
  <2>5. Untaken(r, held[r], call[r].email)
    BY <2>1, <2>2, NoRivals DEF Blockers
  <2> QED
    BY <2>1, <2>4, <2>5
<1>6. CASE Locks(r)
  <2> DEFINE id == call[r].id
  <2>1. /\ held'[r] = id /\ call' = call /\ customers' = customers /\ loaded' = loaded
        /\ Op(r) \in {"put", "patch", "delete", "order"} /\ Blockers(r) = {}
        /\ customers[id] # None /\ pc[r] \in {"write", "order"}
        /\ pc[r] = "order" => Op(r) = "order"
        /\ pc'[r] = IF pc[r] = "write" /\ Op(r) # "delete" /\ KeyChanges(r)
                    THEN "index" ELSE "commit"
    BY <1>6, Ops DEF Locks, Goto, PathsInv, Private, table
  <2>2. /\ Op(r) \in {"put", "patch"} /\ pc[r] = "write" /\ "email" \notin Changed(r, loaded[r])
    BY <2>1 DEF Claims, Op, KeyChanges
  <2>3. Written(r)'["email"] = customers[id]["email"]
    BY <2>1, <2>2 DEF Written, Changed, Op
  <2>4. id \in Ids
    BY <2>2, Ops
  <2>5. \A j \in Ids \ {id} : customers[j] # None => customers[j].email # customers[id].email
    BY <2>1, <2>4 DEF Consistent
  <2>6. ASSUME NEW s \in Requests \ {r}, Claims(s)
        PROVE  Written(s).email # customers[id].email
    <3>1. held[s] # None /\ Op(s) \notin {"order", "delete"}
      BY <2>6 DEF Claims
    <3>2. held[s] # id
      <4>1. ASSUME held[s] = id
            PROVE  s \in Holders(id)
        BY <2>1, <3>1, <4>1, LocksInvUnfold DEF Lock, Holders
      <4> QED
        BY <2>1, <2>2, <3>1, <4>1 DEF Blockers
    <3> QED
      BY <2>1, <2>4, <2>6, <3>2 DEF EmailsInv
  <2> QED
    BY <2>1, <2>3, <2>5, <2>6 DEF Untaken
<1>7. CASE Start(r) \/ Connect(r) \/ Leaves(r) \/ Commit(r) \/ Lose(r)
  <2>1. held'[r] = None
    <3>1. ASSUME Leaves(r) \/ Commit(r) \/ Lose(r) PROVE held'[r] = None
      BY <3>1 DEF Leaves, Commit, Lose, End, PathsInv
    <3>2. ASSUME Start(r) PROVE held'[r] = None
      BY <3>2 DEF Start, PathsInv
    <3>3. ASSUME Connect(r) PROVE held'[r] = None
      BY <1>2, <3>3 DEF Connect, Lock, local
    <3> QED
      BY <1>7, <3>1, <3>2, <3>3
  <2> QED
    BY <2>1 DEF Claims
<1> QED
  BY <1>3, <1>4, <1>5, <1>6, <1>7 DEF Kind

\* No two rows, stored or claimed, come to have the same email.
LEMMA EmailsStep ==
  ASSUME TypeOK, PathsInv, IdsInv, LocksInv, EmailsInv, Consistent,
         NEW r \in Requests, Kind(r)
  PROVE  EmailsInv'
<1>1. ASSUME NEW t \in Requests, Claims(t)', NEW i \in Ids \ {held'[t]}, customers'[i] # None
      PROVE  customers'[i].email # Written(t)'.email
  <2>1. CASE t = r
    BY <1>1, <2>1, NewClaim DEF Untaken
  <2>2. CASE t # r
    <3>1. Claims(t) /\ Written(t)' = Written(t) /\ held'[t] = held[t]
      BY <1>1, <2>2, ClaimStays, Frame DEF Others
    <3>2. CASE customers'[i] = customers[i]
      BY <1>1, <3>1, <3>2 DEF EmailsInv
    <3>3. CASE customers'[i] # customers[i]
      <4>1. /\ Commit(r) /\ Writes(r) /\ i = held[r] /\ customers'[i] = Written(r)
        BY <3>3, Effects DEF TypeOK
      <4>2. Claims(r)
        BY <1>1, <4>1 DEF Claims, Writes, Commit, Written
      <4> QED
        BY <2>2, <3>1, <4>1, <4>2 DEF EmailsInv
    <3> QED
      BY <3>2, <3>3
  <2> QED
    BY <2>1, <2>2
<1>2. ASSUME NEW t \in Requests, NEW s \in Requests \ {t}, Claims(t)', Claims(s)'
      PROVE  Written(s)'.email # Written(t)'.email
  <2>1. CASE t = r
    <3>1. Claims(s) /\ Written(s)' = Written(s)
      BY <1>2, <2>1, ClaimStays
    <3> QED
      BY <1>2, <2>1, <3>1, NewClaim DEF Untaken
  <2>2. CASE s = r
    <3>1. Claims(t) /\ Written(t)' = Written(t)
      BY <1>2, <2>2, ClaimStays
    <3> QED
      BY <1>2, <2>2, <3>1, NewClaim DEF Untaken
  <2>3. CASE t # r /\ s # r
    <3>1. Claims(t) /\ Written(t)' = Written(t) /\ Claims(s) /\ Written(s)' = Written(s)
      BY <1>2, <2>3, ClaimStays
    <3> QED
      BY <1>2, <3>1 DEF EmailsInv
  <2> QED
    BY <2>1, <2>2, <2>3
<1> QED
  BY <1>1, <1>2 DEF EmailsInv

\* Neither a duplicate email nor an order without its customer is committed.
LEMMA ConsistentStep ==
  ASSUME TypeOK, PathsInv, IdsInv, LocksInv, EmailsInv, Consistent,
         NEW r \in Requests, Kind(r)
  PROVE  Consistent'
<1>1. CASE customers' = customers
  <2>1. ASSUME NEW i \in ordered'
        PROVE  customers[i] # None
    <3>1. i \in ordered \/ (Commit(r) /\ Op(r) = "order" /\ i = held[r])
      BY Effects
    <3> QED
      BY <3>1 DEF Consistent, LocksInv, Commit
  <2> QED
    BY <1>1, <2>1 DEF Consistent
<1>2. CASE customers' # customers
  <2>1. /\ Commit(r) /\ Writes(r)
        /\ customers' = [customers EXCEPT ![held[r]] = Written(r)]
    BY <1>2, Effects
  <2>2. held[r] \in Ids /\ pc[r] = "commit"
    BY <2>1, HeldBelow DEF Writes, Commit
  <2>3. Written(r) # None => Claims(r)
    BY <2>1, <2>2 DEF Claims, Writes, Written
  <2>4. ASSUME NEW i \in Ids, NEW j \in Ids, i # j,
               customers'[i] # None, customers'[j] # None
        PROVE  customers'[i].email # customers'[j].email
    <3>1. CASE i = held[r]
      BY <2>1, <2>2, <2>3, <2>4, <3>1 DEF EmailsInv, TypeOK
    <3>2. CASE j = held[r]
      BY <2>1, <2>2, <2>3, <2>4, <3>2 DEF EmailsInv, TypeOK
    <3>3. CASE i # held[r] /\ j # held[r]
      BY <2>1, <2>2, <2>4, <3>3 DEF Consistent, TypeOK
    <3> QED
      BY <3>1, <3>2, <3>3
  <2>5. ASSUME NEW i \in ordered'
        PROVE  customers'[i] # None
    <3>1. i \in ordered /\ i \in Ids
      BY <2>1, Effects DEF Writes, IdsInv
    <3>2. CASE i = held[r]
      <4>1. Op(r) \in {"create", "put", "patch"}
        BY <2>1, <3>1, <3>2 DEF LocksInv, Writes
      <4>2. Written(r) # None
        BY <2>1, <2>2, <4>1, ClaimedRow DEF Claims, Writes
      <4> QED
        BY <2>1, <2>2, <3>2, <4>2 DEF TypeOK
    <3>3. CASE i # held[r]
      BY <2>1, <2>2, <3>1, <3>3 DEF TypeOK, Consistent
    <3> QED
      BY <3>2, <3>3
  <2> QED
    BY <2>4, <2>5 DEF Consistent
<1> QED
  BY <1>1, <1>2
-----------------------------------------------------------------------------
\* What has been announced stays true of the row, or has its reason not to.
LEMMA AnnouncedStep ==
  ASSUME TypeOK, PathsInv, IdsInv, LocksInv, Announced, NEW r \in Requests, Kind(r)
  PROVE  Announced'
<1>1. touched \subseteq touched' /\ lost \subseteq lost'
  BY DEF Kind, Start, Connect, Leaves, Goes, Locks, Lose, LPush, LTrim, Publish,
         Insert, Commit, Private, past
<1>2. ASSUME NEW a \in Announcements
      PROVE  /\ made'[a.id] = [name |-> a.name, email |-> a.email]
             /\ \/ customers'[a.id] = made'[a.id]
                \/ a.id \in touched' \cup lost'
                \/ \E q \in Requests : held'[q] = a.id /\ call'[q].op = "create"
  <2>1. a \in Entry /\ a.id < nextId
    BY DEF TypeOK, IdsInv, Announcements
  <2>2. a.id \in Ids /\ a.id # nextId /\ a.id # None
    BY <2>1, NoneAssumption DEF Entry, Ids
  <2>3. made'[a.id] = made[a.id]
    <3>1. made' = made \/ made' = [made EXCEPT ![nextId] = Written(r)]
      BY Effects
    <3> QED
      BY <2>2, <3>1 DEF TypeOK
  <2>4. /\ made[a.id] = [name |-> a.name, email |-> a.email]
        /\ \/ customers[a.id] = made[a.id]
           \/ a.id \in touched \cup lost
           \/ \E q \in Requests : held[q] = a.id /\ Op(q) = "create"
    BY DEF Announced, Announcements
  <2>5. CASE Commit(r) /\ held[r] = a.id /\ Op(r) # "order"
    <3>1. CASE Op(r) = "create"
      <4>1. Written(r) = Asked(r) /\ made[a.id] = Asked(r)
        BY <2>2, <2>5, <3>1 DEF LocksInv, Written, Asked
      <4>2. customers'[a.id] = Written(r)
        BY <2>2, <2>5 DEF Commit, TypeOK
      <4> QED
        BY <2>3, <2>4, <4>1, <4>2
    <3>2. CASE Op(r) # "create"
      <4>1. a.id \in touched'
        BY <2>2, <2>5, <3>2 DEF Commit
      <4> QED
        BY <2>3, <2>4, <4>1
    <3> QED
      BY <3>1, <3>2
  <2>6. CASE ~(Commit(r) /\ held[r] = a.id /\ Op(r) # "order")
    <3>1. customers'[a.id] = customers[a.id]
      BY <2>2, <2>6, Effects DEF TypeOK, Writes
    <3>2. CASE ~(held[r] = a.id /\ Op(r) = "create")
      <4>1. \A q \in Requests \ {r} : held'[q] = held[q] /\ call'[q] = call[q]
        BY Frame DEF Others
      <4> QED
        BY <1>1, <2>3, <2>4, <3>1, <3>2, <4>1 DEF Op
    <3>3. CASE held[r] = a.id /\ Op(r) = "create"
      <4>1. pc[r] \in {"push", "trim", "publish", "commit"} /\ call'[r] = call[r]
        BY <2>2, <3>3, Ops, Frame DEF LocksInv
      <4>2. CASE Lose(r)
        BY <2>2, <2>3, <2>4, <3>3, <4>2 DEF Lose
      <4>3. CASE LPush(r) \/ LTrim(r) \/ Publish(r) \/ Connect(r) \/ Goes(r)
        <5>1. held' = held
          BY <4>3 DEF LPush, LTrim, Publish, Connect, Goes, Move, local
        <5> QED
          BY <2>3, <2>4, <3>3, <4>1, <5>1 DEF Op
      <4> QED
        BY <2>6, <3>3, <4>1, <4>2, <4>3 DEF Kind, Start, Leaves, Insert, Locks
    <3> QED
      BY <3>2, <3>3
  <2> QED
    BY <2>5, <2>6
<1>3. ASSUME NEW a, a = New(r), LPush(r) \/ Publish(r)
      PROVE  /\ made'[a.id] = [name |-> a.name, email |-> a.email]
             /\ held'[r] = a.id /\ call'[r].op = "create"
  <2>1. pc[r] \in {"push", "publish"} /\ made' = made /\ held' = held /\ call' = call
    BY <1>3 DEF LPush, Publish, Move, past
  <2> QED
    BY <1>3, <2>1, NewEntry DEF Op
<1>4. ASSUME NEW a \in events' \cup {recent'[p] : p \in DOMAIN recent'}
      PROVE  /\ made'[a.id] = [name |-> a.name, email |-> a.email]
             /\ \/ customers'[a.id] = made'[a.id]
                \/ a.id \in touched' \cup lost'
                \/ \E q \in Requests : held'[q] = a.id /\ call'[q].op = "create"
  BY <1>2, <1>3, AnnouncedAnew
<1> QED
  BY <1>4 DEF Announced, Op

\* The list outgrows its capacity by adds that were not trimmed, no more.
LEMMA BufferStep ==
  ASSUME TypeOK, PathsInv, IdsInv, LocksInv, BufferBounded, NEW r \in Requests, Kind(r)
  PROVE  BufferBounded'
<1> DEFINE T == {s \in Requests : pc[s] = "trim"}
           U == {s \in Requests : pc'[s] = "trim"}
<1>1. IsFiniteSet(Requests)
  BY FS_Interval, BoundsAssumption DEF Requests
<1>2. IsFiniteSet(T) /\ IsFiniteSet(U)
  <2>1. T \in SUBSET Requests /\ U \in SUBSET Requests
    OBVIOUS
  <2> QED
    BY <1>1, <2>1, FS_Subset
<1>3. /\ pc'[r] = "trim" /\ pc[r] # "trim" => U = T \cup {r} /\ r \notin T
      /\ pc'[r] # "trim" /\ pc[r] = "trim" => U = T \ {r} /\ r \in T
      /\ (pc'[r] = "trim" <=> pc[r] = "trim") => U = T
  BY Frame DEF Others
<1>4. Len(recent) <= MaxSize + untrimmed + Cardinality(T)
  BY DEF BufferBounded
<1>5. BufferBounded' <=> Len(recent') <= MaxSize + untrimmed' + Cardinality(U)
  BY DEF BufferBounded
<1> HIDE DEF T, U
<1>6. Cardinality(T) \in Nat /\ Cardinality(U) \in Nat
  BY <1>2, FS_CardinalityType
<1>7. /\ r \in T => Cardinality(T \ {r}) = Cardinality(T) - 1
      /\ r \notin T => Cardinality(T \cup {r}) = Cardinality(T) + 1
  BY <1>2, FS_AddElement, FS_RemoveElement
<1>8. recent \in Seq(Entry) /\ Len(recent) \in Nat /\ untrimmed \in Nat /\ MaxSize \in Nat
  BY BoundsAssumption DEF TypeOK, IdsInv
<1>9. CASE LPush(r)
  <2>1. pc[r] = "push" /\ New(r) \in Entry /\ untrimmed' = untrimmed
    BY <1>9, NewEntry DEF LPush, past
  <2>2. CASE recent' = <<New(r)>> \o recent /\ pc'[r] = "trim"
    <3>1. Len(recent') = Len(recent) + 1
      BY <1>8, <2>1, <2>2
    <3>2. Cardinality(U) = Cardinality(T) + 1
      BY <1>3, <1>7, <2>1, <2>2
    <3> QED
      BY <1>4, <1>5, <1>6, <1>8, <2>1, <3>1, <3>2
  <2>3. CASE recent' = recent /\ pc'[r] = "publish"
    BY <1>3, <1>4, <1>5, <2>1, <2>3
  <2> QED
    BY <1>9, <2>2, <2>3 DEF LPush, Move, Goto, PathsInv
<1>10. ASSUME LTrim(r) \/ (Lose(r) /\ pc[r] = "trim"), recent' = recent,
              untrimmed' = untrimmed + 1
       PROVE  BufferBounded'
  <2>1. pc[r] = "trim" /\ pc'[r] # "trim"
    BY <1>10 DEF LTrim, Lose, Move, End, Goto, PathsInv
  <2>2. Cardinality(U) = Cardinality(T) - 1
    BY <1>3, <1>7, <2>1
  <2> QED
    BY <1>4, <1>5, <1>6, <1>8, <1>10, <2>2
<1>11. CASE LTrim(r)
  <2>1. CASE recent' = Trimmed /\ untrimmed' = 0
    <3>1. Len(recent') <= MaxSize /\ Len(recent') \in Nat
      BY <2>1, TrimmedList
    <3> QED
      BY <1>5, <1>6, <1>8, <2>1, <3>1
  <2> QED
    BY <1>10, <1>11, <2>1 DEF LTrim, Trimmed
<1>12. CASE Lose(r)
  <2>1. recent' = recent
    BY <1>12 DEF Lose, sinks
  <2>2. CASE pc[r] = "trim"
    BY <1>10, <1>12, <2>1, <2>2 DEF Lose
  <2>3. CASE pc[r] # "trim"
    <3>1. untrimmed' = untrimmed /\ pc'[r] # "trim"
      BY <1>12, <2>3 DEF Lose, End, Goto, PathsInv
    <3> QED
      BY <1>3, <1>4, <1>5, <2>1, <2>3, <3>1
  <2> QED
    BY <2>2, <2>3
<1>13. CASE \/ Start(r) \/ Connect(r) \/ Leaves(r) \/ Goes(r) \/ Locks(r)
            \/ Insert(r) \/ Publish(r) \/ Commit(r)
  <2>1. recent' = recent /\ untrimmed' = untrimmed
    BY <1>13 DEF Start, Connect, Leaves, Goes, Locks, Insert, Publish, Commit, Private,
                 sinks, past
  <2>2. pc[r] # "trim" /\ pc'[r] # "trim"
    BY <1>13 DEF Start, Connect, Leaves, Goes, Locks, Insert, Publish, Commit, End, Move,
                 Goto, PathsInv, After, FirstStep
  <2> QED
    BY <1>3, <1>4, <1>5, <2>1, <2>2
<1> QED
  BY <1>9, <1>11, <1>12, <1>13 DEF Kind

\* No operation makes more attempts than it may.
LEMMA AttemptsStep ==
  ASSUME TypeOK, PathsInv, IdsInv, LocksInv, AttemptsInv, Degrades,
         NEW r \in Requests, Kind(r)
  PROVE  AttemptsInv' /\ Degrades'
<1> DEFINE Most(op) == IF op = "todos" THEN TodoAttempts ELSE BioAttempts
<1>1. ASSUME NEW s \in Requests, s # r
      PROVE  pc'[s] = pc[s] /\ call'[s] = call[s] /\ tries'[s] = tries[s]
             /\ answer'[s] = answer[s]
  BY <1>1, Frame DEF Others
<1>2. /\ tries'[r] > 0 => pc'[r] \in {"remote", "commit", "done"}
      /\ pc'[r] = "remote" /\ call'[r].op = "todos" => tries'[r] < TodoAttempts
      /\ pc'[r] = "remote" /\ call'[r].op = "bio" => tries'[r] < BioAttempts
      /\ call'[r].op \in {"bio", "todos"} =>
           /\ tries'[r] <= Most(call'[r].op)
           /\ (tries'[r] > 0 /\ pc'[r] = "done") => answer'[r] \in {200, Died}
  <2>1. /\ pc[r] # "idle" => call'[r] = call[r]
        /\ pc[r] = "idle" => Start(r)
        /\ TodoAttempts = 3 /\ BioAttempts = 2
        /\ tries[r] \in Nat
    BY Frame DEF TodoAttempts, BioAttempts, PathsInv
  <2>2. pc[r] # "idle" =>
          /\ tries[r] > 0 => pc[r] \in {"remote", "commit", "done"}
          /\ pc[r] = "remote" /\ Op(r) = "todos" => tries[r] < TodoAttempts
          /\ pc[r] = "remote" /\ Op(r) = "bio" => tries[r] < BioAttempts
          /\ Op(r) \in {"bio", "todos"} => tries[r] <= Most(Op(r))
    BY DEF AttemptsInv, Degrades
  <2>3. CASE Start(r)
    <3>1. tries'[r] = 0 /\ pc'[r] \in {"connect", "range"}
      BY <2>3 DEF Start, Goto, PathsInv
    <3> QED
      BY <2>1, <3>1
  <2>4. CASE FetchTodos(r) \/ GenerateBio(r)
    <3>1. /\ pc[r] = "remote" /\ tries'[r] = tries[r] + 1 /\ pc'[r] \in {"remote", "commit"}
          /\ pc'[r] = "remote" => tries[r] + 1 < Most(Op(r))
          /\ Op(r) \in {"bio", "todos"}
      <4>1. ASSUME NEW op, NEW most \in Nat, Attempt(r, op, most)
            PROVE  /\ pc[r] = "remote" /\ tries'[r] = tries[r] + 1 /\ Op(r) = op
                   /\ pc'[r] \in {"remote", "commit"}
                   /\ pc'[r] = "remote" => tries[r] + 1 < most
        BY <4>1 DEF Attempt, Fallback, Move, Goto, PathsInv
      <4> QED
        BY <2>1, <2>4, <4>1 DEF FetchTodos, GenerateBio
    <3> QED
      BY <2>1, <2>2, <3>1 DEF Op
  <2>5. CASE Goes(r) /\ ~(FetchTodos(r) \/ GenerateBio(r))
    <3>1. /\ tries' = tries /\ pc[r] # "remote" /\ (pc'[r] = "remote" => pc[r] = "load")
          /\ pc[r] \notin {"idle", "commit", "done"} /\ pc'[r] # "done"
      BY <2>5 DEF Goes, After
    <3>2. tries[r] = 0
      BY <2>1, <2>2, <3>1
    <3> QED
      BY <2>1, <3>1, <3>2 DEF Op
  <2>6. CASE Leaves(r)
    <3>1. tries' = tries /\ pc[r] \notin {"idle", "remote", "commit", "done"}
      BY <2>6 DEF Leaves
    <3>2. tries'[r] = 0
      BY <2>1, <2>2, <3>1
    <3> QED
      BY <2>1, <3>2
  <2>7. CASE Connect(r) \/ Insert(r) \/ LPush(r) \/ LTrim(r) \/ Publish(r) \/ Locks(r)
    <3>1. tries' = tries /\ pc[r] \notin {"idle", "remote", "commit", "done"}
      BY <2>7 DEF Connect, Insert, LPush, LTrim, Publish, Locks, local
    <3>2. tries'[r] = 0
      BY <2>1, <2>2, <3>1
    <3> QED
      BY <2>1, <3>2
  <2>8. CASE Commit(r) \/ Lose(r)
    <3>1. tries' = tries /\ pc[r] # "idle" /\ pc'[r] = "done" /\ answer'[r] \in {200, Died}
      BY <2>8 DEF Commit, Lose, End, Goto, PathsInv, TypeOK
    <3> QED
      BY <2>1, <2>2, <3>1 DEF Op
  <2> QED
    BY <2>3, <2>4, <2>5, <2>6, <2>7, <2>8 DEF Kind
<1>3. AttemptsInv'
  <2> SUFFICES ASSUME NEW s \in Requests, pc'[s] # "idle"
               PROVE  /\ tries'[s] > 0 => pc'[s] \in {"remote", "commit", "done"}
                      /\ pc'[s] = "remote" /\ call'[s].op = "todos" => tries'[s] < TodoAttempts
                      /\ pc'[s] = "remote" /\ call'[s].op = "bio" => tries'[s] < BioAttempts
    BY DEF AttemptsInv, Op
  <2>1. CASE s = r
    BY <1>2, <2>1
  <2>2. CASE s # r
    BY <1>1, <2>2 DEF AttemptsInv, Op
  <2> QED
    BY <2>1, <2>2
<1>4. Degrades'
  <2> SUFFICES ASSUME NEW s \in Requests, pc'[s] # "idle", call'[s].op \in {"bio", "todos"}
               PROVE  /\ tries'[s] <= Most(call'[s].op)
                      /\ (tries'[s] > 0 /\ pc'[s] = "done") => answer'[s] \in {200, Died}
    BY DEF Degrades, Op
  <2>1. CASE s = r
    BY <1>2, <2>1
  <2>2. CASE s # r
    BY <1>1, <2>2 DEF Degrades, Op
  <2> QED
    BY <2>1, <2>2
<1> QED
  BY <1>3, <1>4
-----------------------------------------------------------------------------
\* The elements of S with a rank within a page of length k that starts after
\* the first o; and how many they are.
PageOf(S, o, k) == {i \in S : Cardinality({j \in S : j <= i}) \in o + 1 .. o + k}
LEMMA PageCount ==
  ASSUME NEW S \in SUBSET Nat, IsFiniteSet(S), NEW o \in Nat, NEW k \in Nat,
         NEW n \in Nat, n = Cardinality(S)
  PROVE  /\ IsFiniteSet(PageOf(S, o, k))
         /\ Cardinality(PageOf(S, o, k)) =
              IF n - o < 0 THEN 0 ELSE IF n - o < k THEN n - o ELSE k
<1> DEFINE upTo(i) == {j \in S : j <= i}
           f == [i \in S |-> Cardinality(upTo(i))]
           m == IF n < o + k THEN n ELSE o + k
           rows == {i \in S : f[i] \in o + 1 .. o + k}
           g == [i \in rows |-> f[i]]
<1>1. ASSUME NEW i \in S
      PROVE  IsFiniteSet(upTo(i)) /\ Cardinality(upTo(i)) \in 1 .. n
  <2>1. upTo(i) \in SUBSET S /\ {i} \in SUBSET upTo(i)
    BY <1>1
  <2>2. IsFiniteSet(upTo(i)) /\ Cardinality(upTo(i)) <= n
    BY <2>1, FS_Subset
  <2>3. Cardinality({i}) = 1
    BY FS_Singleton
  <2> HIDE DEF upTo
  <2>4. Cardinality({i}) <= Cardinality(upTo(i)) /\ Cardinality(upTo(i)) \in Nat
    BY <2>1, <2>2, FS_Subset, FS_CardinalityType
  <2> QED
    BY <2>2, <2>3, <2>4
<1>2. ASSUME NEW i \in S, NEW j \in S, i < j
      PROVE  Cardinality(upTo(i)) < Cardinality(upTo(j))
  <2>1. upTo(i) \in SUBSET upTo(j) /\ upTo(i) # upTo(j)
    <3>1. j \in upTo(j) /\ j \notin upTo(i)
      BY <1>2
    <3>2. upTo(i) \subseteq upTo(j)
      <4>1. \A l \in S : l \in Nat /\ i \in Nat /\ j \in Nat
        OBVIOUS
      <4>2. \A l \in S : l <= i => l <= j
        BY <1>2, <4>1
      <4> QED
        BY <4>2
    <3> QED
      BY <3>1, <3>2
  <2>2. /\ Cardinality(upTo(i)) \in Nat /\ Cardinality(upTo(j)) \in Nat
        /\ IsFiniteSet(upTo(j))
    BY <1>1
  <2> HIDE DEF upTo
  <2>3. Cardinality(upTo(i)) <= Cardinality(upTo(j))
        /\ Cardinality(upTo(i)) # Cardinality(upTo(j))
    BY <2>1, <2>2, FS_Subset
  <2> QED
    BY <2>2, <2>3
<1>3. f \in Injection(S, 1 .. n)
  <2>1. f \in [S -> 1 .. n]
    BY <1>1
  <2>2. ASSUME NEW i \in S, NEW j \in S, f[i] = f[j]
        PROVE  i = j
    <3>1. /\ f[i] = Cardinality(upTo(i)) /\ f[j] = Cardinality(upTo(j))
          /\ i \in Nat /\ j \in Nat /\ f[i] \in Nat
      BY <1>1
    <3> HIDE DEF f
    <3>2. ~(i < j) /\ ~(j < i)
      <4>1. ASSUME i < j PROVE f[i] < f[j]
        BY <1>2, <3>1, <4>1
      <4>2. ASSUME j < i PROVE f[j] < f[i]
        BY <1>2, <3>1, <4>2
      <4> QED
        BY <2>2, <3>1, <4>1, <4>2
    <3> QED
      BY <3>1, <3>2
  <2> HIDE DEF f
  <2> QED
    BY <2>1, <2>2 DEF Injection, IsInjective
<1>4. f \in Surjection(S, 1 .. n)
  <2>1. IsFiniteSet(1 .. n) /\ Cardinality(1 .. n) = n
    BY FS_Interval
  <2> HIDE DEF f
  <2> QED
    BY <1>3, <2>1, FS_Injection
<1>5. g \in Bijection(rows, o + 1 .. m)
  <2>1. /\ \A i \in S : f[i] \in 1 .. n
        /\ \A i, j \in S : f[i] = f[j] => i = j
        /\ \A t \in 1 .. n : \E i \in S : f[i] = t
    BY <1>3, <1>4 DEF Injection, IsInjective, Surjection
  <2>2. \A t : t \in o + 1 .. m <=> t \in o + 1 .. o + k /\ t \in 1 .. n
    OBVIOUS
  <2> HIDE DEF f, m
  <2>3. g \in [rows -> o + 1 .. m]
    BY <2>1, <2>2
  <2>4. \A i, j \in rows : g[i] = g[j] => i = j
    BY <2>1
  <2>5. \A t \in o + 1 .. m : \E i \in rows : g[i] = t
    BY <2>1, <2>2
  <2> HIDE DEF g, rows
  <2> QED
    BY <2>3, <2>4, <2>5 DEF Bijection, Injection, IsInjective, Surjection
<1>6. IsFiniteSet(rows)
  BY FS_Subset
<1>7. Cardinality(o + 1 .. m) = Cardinality(rows)
  <2> HIDE DEF rows, g, m
  <2>1. ExistsBijection(rows, o + 1 .. m)
    BY <1>5 DEF ExistsBijection
  <2> QED
    BY <1>6, <2>1, FS_Bijection
<1>8. Cardinality(o + 1 .. m) = IF o + 1 > m THEN 0 ELSE m - (o + 1) + 1
  <2>1. o + 1 \in Int /\ m \in Int
    OBVIOUS
  <2> HIDE DEF m
  <2> QED
    BY <2>1, FS_Interval
<1>9. rows = PageOf(S, o, k)
  BY DEF PageOf
<1>10. Cardinality(rows) = IF n - o < 0 THEN 0 ELSE IF n - o < k THEN n - o ELSE k
  <2> HIDE DEF rows
  <2> QED
    BY <1>7, <1>8
<1> QED
  BY <1>6, <1>9, <1>10

\* The number of pages is the least that holds the total.
LEMMA PagesBound ==
  ASSUME NEW t \in Nat, NEW p \in Nat \ {0}, NEW i \in Nat
  PROVE  i < (t + p - 1) \div p <=> i * p < t
OBVIOUS

\* A page has no more rows when fewer are left.
LEMMA OnPageMonotone ==
  ASSUME NEW a \in Int, NEW b \in Int, a <= b
  PROVE  OnPage(a) <= OnPage(b) /\ OnPage(a) \in Nat
<1>1. PageSize \in Nat
  BY BoundsAssumption
<1> QED
  BY <1>1 DEF OnPage

\* The rows that match are some of the ids.
LEMMA MatchingFinite ==
  ASSUME NEW r \in Requests
  PROVE  /\ IsFiniteSet(Matching(r)) /\ Matching(r) \in SUBSET Nat
         /\ Cardinality(Matching(r)) \in Nat
<1>1. IsFiniteSet(Ids)
  BY FS_Interval, BoundsAssumption DEF Ids
<1>2. Matching(r) \in SUBSET Ids
  BY DEF Matching
<1>3. IsFiniteSet(Matching(r))
  BY <1>1, <1>2, FS_Subset
<1> QED
  BY <1>2, <1>3, FS_CardinalityType DEF Ids

\* What PageAgrees says of an answer that d commits have overtaken.
Agrees(l, c, d) ==
  LET rest == l.total - c.id * PageSize
  IN  /\ OnPage(rest - d) <= Cardinality(l.content)
      /\ Cardinality(l.content) <= OnPage(rest + d)
      /\ d = 0 => (c.id < l.pages <=> l.content # {})

\* What r reads of the page agrees with the total it has read, if that total is
\* near the number of rows that match.
LEMMA PageRead ==
  ASSUME TypeOK, PathsInv, NEW r \in Requests, Page(r), loaded[r].total \in Nat,
         Near(loaded[r].total, Cardinality(Matching(r)), overtaken[r])
  PROVE  Agrees(loaded'[r], call[r], overtaken[r])
<1> DEFINE n == Cardinality(Matching(r))
           total == loaded[r].total
           d == overtaken[r]
           offset == call[r].id * PageSize
           rows == PageOf(Matching(r), offset, PageSize)
<1>1. call[r].id \in Nat /\ PageSize \in Nat \ {0} /\ PageSize \in Nat
  <2>1. IsCall(call[r]) /\ Op(r) = "list"
    BY Ops DEF Page, PathsInv
  <2> QED
    BY <2>1, BoundsAssumption DEF IsCall, Op
<1>2. offset \in Nat
  BY <1>1
<1>3. IsFiniteSet(Matching(r)) /\ Matching(r) \in SUBSET Nat
  BY MatchingFinite
<1>4. n \in Nat /\ total \in Nat /\ d \in Nat
  BY MatchingFinite DEF TypeOK
<1>n. total - d <= n /\ n <= total + d
  BY DEF Near
<1>5. loaded'[r] = [total |-> total, content |-> rows,
                    pages |-> (total + PageSize - 1) \div PageSize]
  BY DEF Page, Read, PathsInv, PageOf
<1> HIDE DEF n, offset, total, d
<1>6. IsFiniteSet(rows) /\ Cardinality(rows) = OnPage(n - offset)
  <2>1. /\ n = Cardinality(Matching(r)) /\ n \in Nat /\ offset \in Nat
        /\ PageSize \in Nat /\ Matching(r) \in SUBSET Nat
        /\ IsFiniteSet(Matching(r))
    BY <1>1, <1>2, <1>3, <1>4 DEF n
  <2> QED
    BY <2>1, PageCount DEF OnPage
<1> HIDE DEF rows
<1>7. /\ OnPage(total - offset - d) <= Cardinality(rows)
      /\ Cardinality(rows) <= OnPage(total - offset + d)
  <2>1. /\ total - offset - d \in Int /\ n - offset \in Int /\ total - offset + d \in Int
        /\ total - offset - d <= n - offset /\ n - offset <= total - offset + d
    BY <1>2, <1>4, <1>n
  <2> QED
    BY <1>6, <2>1, OnPageMonotone
<1>8. d = 0 => (call[r].id < (total + PageSize - 1) \div PageSize <=> rows # {})
  <2>1. call[r].id < (total + PageSize - 1) \div PageSize <=> offset < total
    BY <1>1, <1>4, PagesBound DEF offset
  <2>2. rows = {} <=> Cardinality(rows) = 0
    BY <1>6, FS_EmptySet
  <2>3. OnPage(n - offset) = 0 <=> n <= offset
    BY <1>1, <1>2, <1>4 DEF OnPage
  <2>4. d = 0 => n = total
    BY <1>4, <1>n
  <2> QED
    BY <1>2, <1>4, <1>6, <2>1, <2>2, <2>3, <2>4
<1> QED
  BY <1>5, <1>7, <1>8 DEF Agrees, offset, d

\* Two finite sets that differ in one element differ by one in number at most.
LEMMA OneApart ==
  ASSUME NEW S, NEW T, NEW i, IsFiniteSet(S), IsFiniteSet(T), S \ {i} = T \ {i}
  PROVE  /\ Cardinality(S) \in Nat /\ Cardinality(T) \in Nat
         /\ Cardinality(S) - 1 <= Cardinality(T) /\ Cardinality(T) <= Cardinality(S) + 1
<1>1. /\ Cardinality(S) \in Nat /\ Cardinality(T) \in Nat
      /\ Cardinality(S \ {i}) = IF i \in S THEN Cardinality(S) - 1 ELSE Cardinality(S)
      /\ Cardinality(T \ {i}) = IF i \in T THEN Cardinality(T) - 1 ELSE Cardinality(T)
  BY FS_RemoveElement, FS_CardinalityType
<1> QED
  BY <1>1

\* A commit of another request takes one row into a listing's filter, or out of
\* it, at most, and overtakes the listing when it does.
LEMMA MatchingStep ==
  ASSUME TypeOK, PathsInv, IdsInv, LocksInv, NEW r \in Requests, Kind(r),
         NEW s \in Requests, s # r, pc[s] = "page", loaded[s].total \in Nat,
         Near(loaded[s].total, Cardinality(Matching(s)), overtaken[s])
  PROVE  Near(loaded[s].total, Cardinality(Matching(s)'), overtaken'[s])
<1>1. call'[s] = call[s]
  BY Frame DEF Others
<1>2. overtaken[s] \in Nat /\ overtaken'[s] \in Nat /\ overtaken[s] <= overtaken'[s]
  BY Effects DEF TypeOK
<1>3. Cardinality(Matching(s)) \in Nat
  BY MatchingFinite
<1>4. CASE customers' = customers
  <2>1. Matching(s)' = Matching(s)
    BY <1>1, <1>4 DEF Matching
  <2> QED
    BY <1>2, <1>3, <2>1 DEF Near
<1>5. CASE customers' # customers
  <2>1. /\ customers' = [customers EXCEPT ![held[r]] = Written(r)]
        /\ \A t \in Overtakes(r) : overtaken'[t] = overtaken[t] + 1
    BY <1>5, Effects
  <2>2. overtaken'[s] = overtaken[s] + 1
    BY <2>1 DEF Overtakes
  <2>3. Matching(s)' \ {held[r]} = Matching(s) \ {held[r]}
    BY <1>1, <2>1 DEF Matching, TypeOK
  <2>4. IsFiniteSet(Matching(s)) /\ IsFiniteSet(Matching(s)')
    <3>1. IsFiniteSet(Ids)
      BY FS_Interval, BoundsAssumption DEF Ids
    <3>2. Matching(s)' \in SUBSET Ids
      BY DEF Matching
    <3> QED
      BY <3>1, <3>2, FS_Subset, MatchingFinite
  <2> HIDE DEF Matching
  <2>5. /\ Cardinality(Matching(s)') \in Nat
        /\ Cardinality(Matching(s)) - 1 <= Cardinality(Matching(s)')
        /\ Cardinality(Matching(s)') <= Cardinality(Matching(s)) + 1
    BY <2>3, <2>4, OneApart
  <2> QED
    BY <1>2, <1>3, <2>2, <2>5 DEF Near
<1> QED
  BY <1>4, <1>5

\* A commit overtakes whoever has read the row.
LEMMA NotOvertaken ==
  ASSUME TypeOK, PathsInv, IdsInv, LocksInv, NEW r \in Requests, Kind(r),
         NEW s \in Requests, overtaken'[s] = 0, s # r, pc[s] # "idle"
  PROVE  Op(s) = "put" /\ (pc[s] \in {"write", "commit"} \/ held[s] # None) =>
           customers'[call[s].id] = customers[call[s].id]
<1>1. call'[s] = call[s] /\ IsCall(call[s])
  BY Frame DEF Others, PathsInv
<1>2. CASE customers' = customers
  BY <1>2
<1>3. CASE customers' # customers
  <2>1. /\ Writes(r) /\ \A t \in Overtakes(r) : overtaken'[t] = overtaken[t] + 1
        /\ customers' = [customers EXCEPT ![held[r]] = Written(r)]
    BY <1>3, Effects
  <2>2. s \notin Overtakes(r)
    <3>1. overtaken[s] \in Nat
      BY DEF TypeOK
    <3> QED
      BY <2>1, <3>1
  <2>4. ASSUME Op(s) = "put", pc[s] \in {"write", "commit"} \/ held[s] # None
        PROVE  call[s].id # held[r]
    <3>1. CASE held[s] = None
      BY <2>2, <2>4, <3>1 DEF Overtakes
    <3>2. CASE held[s] # None
      <4>1. held[s] = call[s].id
        BY <2>4, <3>2 DEF LocksInv
      <4>2. held[s] # held[r]
        BY <2>1, <2>4, <3>2 DEF LocksInv, Writes
      <4> QED
        BY <4>1, <4>2
    <3> QED
      BY <3>1, <3>2
  <2>5. Op(s) = "put" => call[s].id \in Ids
    BY <1>1 DEF IsCall, Op, ByIdOps
  <2> QED
    BY <2>1, <2>4, <2>5 DEF TypeOK
<1> QED
  BY <1>2, <1>3

\* What was read and not overtaken is still so.
LEMMA ReadsStep ==
  ASSUME TypeOK, PathsInv, IdsInv, LocksInv, ReadsInv, NEW r \in Requests, Kind(r)
  PROVE  ReadsInv'
<1>1. /\ \A s \in Requests : overtaken[s] <= overtaken'[s]
      /\ \A s \in Requests : overtaken[s] \in Nat /\ overtaken'[s] \in Nat
  BY Effects DEF TypeOK
<1>o. \A s \in Requests : overtaken'[s] = 0 => overtaken[s] = 0
  BY <1>1
<1>2. ASSUME NEW s \in Requests, s # r
      PROVE  /\ pc'[s] # "idle" /\ call'[s].op = "put" =>
                  /\ overtaken'[s] = 0 => Found(s)'
                  /\ pc'[s] = "commit" /\ held'[s] = None => Changed(s, loaded[s])' = {}
             /\ pc'[s] = "page" =>
                  /\ Near(loaded'[s].total, Cardinality(Matching(s)'), overtaken'[s])
                  /\ loaded'[s].total \in Nat
  <2>1. /\ pc'[s] = pc[s] /\ call'[s] = call[s] /\ held'[s] = held[s]
        /\ loaded'[s] = loaded[s]
    BY <1>2, Frame DEF Others
  <2>2. Asked(s)' = Asked(s) /\ Changed(s, loaded[s])' = Changed(s, loaded[s])
    BY <2>1 DEF Asked, Changed
  <2>3. ASSUME pc[s] # "idle", Op(s) = "put", overtaken'[s] = 0,
               pc[s] \in {"write", "commit"} \/ held[s] # None
        PROVE  customers'[call[s].id] = customers[call[s].id]
    BY <1>2, <2>3, NotOvertaken
  <2>4. ASSUME pc[s] = "page"
        PROVE  /\ Near(loaded[s].total, Cardinality(Matching(s)'), overtaken'[s])
               /\ loaded[s].total \in Nat
    <3>1. /\ Near(loaded[s].total, Cardinality(Matching(s)), overtaken[s])
          /\ loaded[s].total \in Nat
      BY <2>4 DEF ReadsInv
    <3> QED
      BY <1>2, <2>4, <3>1, MatchingStep
  <2>5. pc[s] # "idle" /\ Op(s) = "put" =>
          /\ overtaken[s] = 0 => Found(s)
          /\ pc[s] = "commit" /\ held[s] = None => Changed(s, loaded[s]) = {}
    BY DEF ReadsInv
  <2>6. pc[s] # "idle" /\ Op(s) = "put" /\ overtaken'[s] = 0 => Found(s)'
    BY <1>o, <2>1, <2>2, <2>3, <2>5 DEF Found
  <2> QED
    BY <2>1, <2>2, <2>4, <2>5, <2>6 DEF Op
<1>3. ASSUME overtaken'[r] = 0, call'[r].op = "put"
      PROVE  /\ pc'[r] = "write" \/ held'[r] # None =>
                  loaded'[r] = customers'[call'[r].id]
             /\ pc'[r] = "commit" /\ held'[r] = None =>
                  customers'[call'[r].id] = Asked(r)'
  <2>1. /\ pc[r] # "idle" => call'[r] = call[r]
        /\ pc[r] = "idle" => Start(r)
        /\ overtaken[r] = 0
    BY <1>o, <1>3, Frame
  <2>2. CASE Goes(r)
    <3>1. /\ pc[r] # "idle" /\ Op(r) = "put" /\ customers' = customers /\ call' = call
          /\ held' = held
      BY <1>3, <2>1, <2>2 DEF Goes, Op, Private, table
    <3>2. CASE pc[r] = "index"
      <4>1. loaded'[r] = loaded[r] /\ held[r] # None
        BY <2>2, <3>2 DEF Goes, LocksInv
      <4> QED
        BY <2>1, <3>1, <4>1 DEF ReadsInv, Found
    <3>3. CASE pc[r] # "index"
      <4>1. /\ pc[r] = "load" /\ loaded'[r] = customers[call[r].id] /\ pc'[r] = Flushed(r)
            /\ customers[call[r].id] # None
        BY <2>2, <3>1, <3>3 DEF Goes
      <4>2. ASSUME pc'[r] = "commit"
            PROVE  customers[call[r].id] = Asked(r)
        <5>1. Changed(r, customers[call[r].id]) = {}
          BY <4>1, <4>2 DEF Flushed
        <5>2. IsCall(call[r]) /\ call[r].id \in Ids
          BY <3>1, <4>1, Ops DEF PathsInv
        <5>3. customers[call[r].id] \in Row
          BY <4>1, <5>2 DEF TypeOK
        <5>4. call[r].name # None /\ call[r].email # None
          BY <3>1, <5>2 DEF IsCall, Op
        <5>5. /\ call[r]["name"] = customers[call[r].id]["name"]
              /\ call[r]["email"] = customers[call[r].id]["email"]
          BY <5>1, <5>4 DEF Changed
        <5> QED
          BY <5>3, <5>5 DEF Row, Asked
      <4>3. Asked(r)' = Asked(r)
        BY <3>1 DEF Asked
      <4> QED
        BY <3>1, <4>1, <4>2, <4>3
    <3> QED
      BY <3>2, <3>3
  <2>3. CASE Locks(r)
    <3>1. /\ pc[r] \in {"write", "order"} /\ customers' = customers /\ call' = call
          /\ loaded' = loaded /\ held'[r] = call[r].id
          /\ pc'[r] \in {"index", "commit"}
          /\ pc[r] = "order" => Op(r) = "order"
      BY <2>3 DEF Locks, Goto, PathsInv, Private, table
    <3>2. call[r].id \in Ids /\ None \notin Ids
      BY <3>1, Ops, NoneAssumption DEF Ids
    <3> QED
      BY <1>3, <2>1, <3>1, <3>2 DEF ReadsInv, Found, Op
  <2>4. CASE Start(r) \/ Connect(r)
    <3>1. held'[r] = None /\ pc'[r] \notin {"write", "commit"}
      BY <2>4, <1>3, <2>1 DEF Start, Connect, Goto, PathsInv, LocksInv, FirstStep, local
    <3> QED
      BY <3>1
  <2>5. CASE Leaves(r) \/ Commit(r) \/ Lose(r)
    <3>1. held'[r] = None /\ pc'[r] = "done"
      BY <2>5 DEF Leaves, Commit, Lose, End, Goto, PathsInv
    <3> QED
      BY <3>1
  <2>6. CASE Insert(r) \/ LPush(r) \/ LTrim(r) \/ Publish(r)
    <3>1. pc[r] \in {"insert", "push", "trim", "publish"}
      BY <2>6 DEF Insert, LPush, LTrim, Publish
    <3> QED
      BY <1>3, <2>1, <3>1, Ops DEF Op
  <2> QED
    BY <2>2, <2>3, <2>4, <2>5, <2>6 DEF Kind
<1>4. ASSUME pc'[r] = "page"
      PROVE  /\ Near(loaded'[r].total, Cardinality(Matching(r)'), overtaken'[r])
             /\ loaded'[r].total \in Nat
  <2>1. CASE Goes(r)
    <3>1. /\ pc[r] = "count" /\ customers' = customers /\ call' = call
      BY <1>4, <2>1 DEF Goes, After, Private, table
    <3>2. Op(r) = "list"
      BY <3>1, Ops
    <3>3. Count(r)
      BY <2>1, <3>1, <3>2 DEF Goes, Page
    <3>4. loaded'[r] = [total |-> Cardinality(Matching(r))]
      BY <3>3 DEF Count, Read, PathsInv
    <3>5. Matching(r)' = Matching(r)
      BY <3>1 DEF Matching
    <3>6. Cardinality(Matching(r)) \in Nat /\ overtaken'[r] \in Nat
      BY <1>1, MatchingFinite
    <3> QED
      BY <3>4, <3>5, <3>6 DEF Near
  <2>2. CASE \/ Start(r) \/ Connect(r) \/ Leaves(r) \/ Locks(r) \/ Insert(r) \/ LPush(r)
             \/ LTrim(r) \/ Publish(r) \/ Commit(r) \/ Lose(r)
    <3>1. pc'[r] # "page"
      BY <2>2 DEF Start, Connect, Leaves, Locks, Insert, LPush, LTrim, Publish, Commit, Lose,
                  End, Move, Goto, PathsInv, FirstStep
    <3> QED
      BY <1>4, <3>1
  <2> QED
    BY <2>1, <2>2 DEF Kind
<1>5. ASSUME call'[r].op = "put", pc'[r] = "commit", held'[r] = None
      PROVE  Changed(r, loaded[r])' = {}
  <2>1. /\ pc[r] # "idle" => call'[r] = call[r]
        /\ pc[r] = "idle" => Start(r)
    BY Frame
  <2>2. CASE Goes(r)
    <3>1. /\ pc[r] # "idle" /\ Op(r) = "put" /\ call' = call /\ held' = held
      BY <1>5, <2>1, <2>2 DEF Goes, Op
    <3>2. pc[r] # "index"
      BY <1>5, <3>1 DEF LocksInv
    <3>3. loaded'[r] = customers[call[r].id] /\ pc'[r] = Flushed(r)
      BY <2>2, <3>1, <3>2 DEF Goes
    <3>4. Changed(r, customers[call[r].id]) = {}
      BY <1>5, <3>3 DEF Flushed
    <3> QED
      BY <3>1, <3>3, <3>4 DEF Changed
  <2>3. CASE Locks(r)
    <3>1. pc[r] \in {"write", "order"} /\ held'[r] = call[r].id
      BY <2>3 DEF Locks, PathsInv, LocksInv
    <3>2. call[r].id \in Ids /\ None \notin Ids
      BY <3>1, Ops, NoneAssumption DEF Ids
    <3> QED
      BY <1>5, <3>1, <3>2
  <2>4. CASE \/ Start(r) \/ Connect(r) \/ Leaves(r) \/ Commit(r) \/ Lose(r)
    <3>1. pc'[r] # "commit"
      BY <2>4 DEF Start, Connect, Leaves, Commit, Lose, End, Goto, PathsInv, FirstStep
    <3> QED
      BY <1>5, <3>1
  <2>5. CASE Insert(r) \/ LPush(r) \/ LTrim(r) \/ Publish(r)
    <3>1. pc[r] \in {"insert", "push", "trim", "publish"}
      BY <2>5 DEF Insert, LPush, LTrim, Publish
    <3> QED
      BY <1>5, <2>1, <3>1, Ops DEF Op
  <2> QED
    BY <2>2, <2>3, <2>4, <2>5 DEF Kind
<1>6. call'[r].op = "put" /\ overtaken'[r] = 0 => Found(r)'
  BY <1>3 DEF Found
<1> QED
  BY <1>2, <1>4, <1>5, <1>6 DEF ReadsInv, Op

\* Nothing overtakes a listing that has read its page.
LEMMA ListDone ==
  ASSUME TypeOK, NEW r \in Requests, Kind(r), NEW s \in Requests,
         pc[s] = "commit", Op(s) = "list"
  PROVE  overtaken'[s] = overtaken[s]
<1>1. s \notin Overtakes(r) /\ overtaken[s] \in Nat
  BY DEF Overtakes, TypeOK
<1>2. ASSUME \/ Start(r) \/ Connect(r) \/ Leaves(r) \/ Goes(r) \/ Locks(r) \/ Lose(r)
             \/ LPush(r) \/ LTrim(r) \/ Publish(r) \/ Insert(r)
      PROVE  overtaken' = overtaken
  BY <1>2 DEF Start, Connect, Leaves, Goes, Locks, Lose, LPush, LTrim, Publish, Insert,
              Private, table, past
<1>3. CASE Commit(r)
  BY <1>1, <1>3 DEF Commit
<1> QED
  BY <1>2, <1>3 DEF Kind

\* A page agrees with its total.
LEMMA PageStep ==
  ASSUME TypeOK, PathsInv, IdsInv, LocksInv, ReadsInv, PageAgrees,
         NEW r \in Requests, Kind(r)
  PROVE  PageAgrees'
<1>1. ASSUME NEW s \in Requests, pc'[s] = "commit", call'[s].op = "list"
      PROVE  Agrees(loaded'[s], call'[s], overtaken'[s])
  <2>2. CASE s # r
    <3>1. pc[s] = "commit" /\ call'[s] = call[s] /\ loaded'[s] = loaded[s]
      BY <1>1, <2>2, Frame DEF Others
    <3>2. overtaken'[s] = overtaken[s]
      BY <1>1, <2>2, <3>1, ListDone DEF Op
    <3> QED
      BY <1>1, <3>1, <3>2 DEF PageAgrees, Agrees, Op
  <2>3. CASE s = r /\ Goes(r)
    <3>1. call' = call /\ overtaken' = overtaken /\ (Count(r) \/ Page(r))
      BY <1>1, <2>3 DEF Goes, Op, Private, past
    <3>2. ~Count(r)
      BY <1>1, <2>3 DEF Count, Read, Goto, PathsInv
    <3>3. Page(r) /\ pc[r] = "page"
      BY <3>1, <3>2 DEF Page
    <3>4. /\ Near(loaded[r].total, Cardinality(Matching(r)), overtaken[r])
          /\ loaded[r].total \in Nat
      BY <3>3 DEF ReadsInv
    <3> QED
      BY <2>3, <3>1, <3>3, <3>4, PageRead
  <2>4. CASE s = r /\ ~Goes(r)
    <3>1. CASE Start(r) \/ Connect(r) \/ Leaves(r) \/ Commit(r) \/ Lose(r)
      BY <1>1, <2>4, <3>1 DEF Start, Connect, Leaves, Commit, Lose, End, Goto, PathsInv, FirstStep
    <3>2. CASE Insert(r) \/ LPush(r) \/ LTrim(r) \/ Publish(r)
      <4>1. pc[r] \in {"insert", "push", "trim", "publish"}
        BY <3>2 DEF Insert, LPush, LTrim, Publish
      <4> QED
        BY <1>1, <2>4, <4>1, Ops, Frame DEF Op
    <3>3. CASE Locks(r)
      <4>1. pc[r] \in {"write", "order"}
        BY <3>3 DEF Locks
      <4> QED
        BY <1>1, <2>4, <4>1, Ops, Frame DEF Op
    <3> QED
      BY <2>4, <3>1, <3>2, <3>3 DEF Kind
  <2> QED
    BY <2>2, <2>3, <2>4
<1> QED
  BY <1>1 DEF PageAgrees, Agrees, Op

\* What PUT commits is what it was asked, unless it was overtaken; and what it
\* changes is always as asked.
LEMMA PutStep ==
  ASSUME TypeOK, PathsInv, IdsInv, LocksInv, ReadsInv, NEW r \in Requests, Kind(r),
         NEW s \in Requests, pc[s] = "commit", Op(s) = "put", answer'[s] = 200
  PROVE  /\ overtaken[s] = 0 => customers'[call[s].id] = Asked(s)
         /\ \A c \in Changed(s, loaded[s]) : customers'[call[s].id][c] = call[s][c]
<1>1. s = r /\ Commit(r)
  <2>1. answer[s] = None /\ None # 200
    BY NoneAssumption DEF TypeOK
  <2>2. s = r
    BY <2>1, Frame DEF Others
  <2>3. ~Lose(r)
    BY <2>2 DEF Lose, End, Died, PathsInv
  <2> QED
    BY <2>1, <2>2, <2>3
       DEF Kind, Start, Connect, Leaves, Goes, Locks, Insert, LPush, LTrim, Publish, PathsInv
<1>2. CASE held[r] = None
  <2>1. customers' = customers
    BY <1>1, <1>2 DEF Commit
  <2> QED
    BY <1>1, <1>2, <2>1 DEF ReadsInv, Found
<1>3. CASE held[r] # None
  <2>1. /\ held[r] = call[r].id /\ held[r] \in Ids /\ customers[held[r]] # None
        /\ overtaken[r] = 0 => loaded[r] = customers[held[r]]
    BY <1>1, <1>3, HeldBelow DEF ReadsInv, Found, LocksInv
  <2>2. customers'[held[r]] = Written(r)
    BY <1>1, <1>3, <2>1 DEF Commit, TypeOK
  <2>3. Written(r) \in Row
    BY <1>1, <1>3, WrittenRow
  <2>4. call[r].name # None /\ call[r].email # None
    BY <1>1 DEF PathsInv, IsCall, Op
  <2>5. ASSUME overtaken[r] = 0
        PROVE  /\ Written(r)["name"] = call[r]["name"]
               /\ Written(r)["email"] = call[r]["email"]
    BY <1>1, <2>1, <2>4, <2>5 DEF Written, Changed
  <2>6. ASSUME NEW c \in Changed(r, loaded[r])
        PROVE  Written(r)[c] = call[r][c]
    BY <1>1, <2>6 DEF Written, Changed
  <2> QED
    BY <1>1, <2>1, <2>2, <2>3, <2>5, <2>6 DEF Row, Asked
<1> QED
  BY <1>2, <1>3
-----------------------------------------------------------------------------
\* The state a behaviour starts in, whatever rows it finds.
LEMMA InitInv ==
  Init => Inductive
<1> SUFFICES ASSUME Init PROVE Inductive
  OBVIOUS
<1>1. PICK c \in Scenarios :
         /\ customers = [i \in Ids |-> IF i \in DOMAIN c.rows THEN c.rows[i] ELSE None]
         /\ made = customers /\ nextId = Len(c.rows) + 1 /\ touched = DOMAIN c.rows
         /\ menu = c.calls
  BY DEF Init
<1>2. /\ c.rows \in Seq(Row) /\ Len(c.rows) + N <= MaxId /\ Len(c.rows) \in Nat
      /\ \A i, j \in DOMAIN c.rows : i # j => c.rows[i].email # c.rows[j].email
      /\ \A d \in c.calls : IsCall(d)
      /\ DOMAIN c.rows = 1 .. Len(c.rows)
  BY ScenariosAssumption
<1>3. /\ N \in Nat /\ N > 0 /\ MaxId \in Nat /\ PoolSize \in Nat
      /\ MaxSize \in Nat /\ PageSize \in Nat
  BY BoundsAssumption
<1>4. /\ ordered = {} /\ recent = <<>> /\ events = {} /\ conns = {}
      /\ pc = [r \in Requests |-> "idle"] /\ call = [r \in Requests |-> None]
      /\ loaded = [r \in Requests |-> None] /\ held = [r \in Requests |-> None]
      /\ tries = [r \in Requests |-> 0] /\ answer = [r \in Requests |-> None]
      /\ untrimmed = 0 /\ overtaken = [r \in Requests |-> 0]
  BY DEF Init
<1>5. Cardinality(conns) = 0
  BY <1>4, FS_EmptySet
<1>6. customers \in [Ids -> Row \cup {None}]
  BY <1>1, <1>2
<1>7. nextId \in 1 .. MaxId + 1
  BY <1>1, <1>2, <1>3
<1>8. TypeOK
  <2>1. conns = {r \in Requests : pc[r] \notin {"idle", "connect", "range", "done"}}
    BY <1>4
  <2>2. Cardinality(conns) <= PoolSize
    BY <1>3, <1>5
  <2> QED
    BY <1>1, <1>4, <1>6, <1>7, <2>1, <2>2 DEF TypeOK
<1>9. PathsInv
  BY <1>1, <1>2, <1>4 DEF PathsInv
<1>10. IdsInv
  <2>1. {r \in Requests : pc[r] \in {"idle", "connect", "insert"}} = Requests
    BY <1>4
  <2>2. Cardinality(Requests) = N
    <3>1. 1 \in Int /\ N \in Int
      BY <1>3
    <3>2. Cardinality(1 .. N) = IF 1 > N THEN 0 ELSE N - 1 + 1
      BY <3>1, FS_Interval
    <3> QED
      BY <1>3, <3>2 DEF Requests
  <2>3. \A i \in nextId .. MaxId : customers[i] = None
    BY <1>1, <1>2, <1>3 DEF Ids
  <2>4. nextId + N <= MaxId + 1
    BY <1>1, <1>2, <1>3
  <2>5. \A a \in events \cup {recent[p] : p \in DOMAIN recent} : a.id < nextId
    BY <1>4
  <2>6. ordered \subseteq Ids /\ untrimmed \in Nat
    BY <1>4
  <2> QED
    BY <2>1, <2>2, <2>3, <2>4, <2>5, <2>6 DEF IdsInv
<1>11. LocksInv /\ EmailsInv
  BY <1>4 DEF LocksInv, EmailsInv, Claims
<1>12. ReadsInv /\ AttemptsInv /\ PageAgrees /\ Degrades
  BY <1>4 DEF ReadsInv, AttemptsInv, PageAgrees, Degrades
<1>13. Consistent
  BY <1>1, <1>2, <1>4 DEF Consistent
<1>14. Announced
  BY <1>4 DEF Announced
<1>15. BufferBounded
  <2>1. {r \in Requests : pc[r] = "trim"} = {}
    BY <1>4
  <2>2. Cardinality({}) = 0 /\ Len(recent) = 0
    BY <1>4, FS_EmptySet
  <2>3. Len(recent) <= MaxSize + untrimmed + 0
    BY <1>3, <1>4, <2>2
  <2> QED
    BY <2>1, <2>2, <2>3 DEF BufferBounded
<1> QED
  BY <1>8, <1>9, <1>10, <1>11, <1>12, <1>13, <1>14, <1>15 DEF Inductive

\* Every step keeps the invariant.
LEMMA NextInv ==
  Inductive /\ [Next]_vars => Inductive'
<1> SUFFICES ASSUME Inductive, [Next]_vars PROVE Inductive'
  OBVIOUS
<1>1. CASE Next
  <2>1. PICK r \in Requests : Start(r) \/ Step(r) \/ Reply(r) \/ Lose(r)
    BY <1>1 DEF Next
  <2>2. Kind(r)
    BY <2>1, Kinds DEF Inductive
  <2> QED
    BY <2>2, TypeStep, PathsStep, IdsStep, LocksStep, EmailsStep, ConsistentStep,
       AnnouncedStep, BufferStep, AttemptsStep, ReadsStep, PageStep DEF Inductive
<1>2. CASE UNCHANGED vars
  <2>1. UNCHANGED <<customers, nextId, ordered, recent, events, conns, pc, call, loaded,
                    held, tries, answer, menu, made, touched, lost, overtaken, untrimmed>>
    BY <1>2 DEF vars, table, sinks, local, past
  <2>2. TypeOK' /\ PathsInv' /\ IdsInv' /\ Consistent' /\ BufferBounded'
    BY <2>1 DEF Inductive, TypeOK, PathsInv, IdsInv, Consistent, BufferBounded, Op
  <2>3. LocksInv'
    BY <2>1 DEF Inductive, LocksInv, Op, Asked, KeyChanges, Changed
  <2>4. EmailsInv'
    BY <2>1 DEF Inductive, EmailsInv, Claims, Written, Changed, Op
  <2>5. ReadsInv' /\ AttemptsInv'
    BY <2>1 DEF Inductive, ReadsInv, Found, Changed, AttemptsInv, Op, Asked, Matching
  <2>7. Degrades'
    BY <2>1 DEF Inductive, Degrades, Op
  <2>8. PageAgrees'
    BY <2>1 DEF Inductive, PageAgrees, Op
  <2>6. Announced'
    <3>1. /\ recent' = recent /\ events' = events /\ made' = made
          /\ customers' = customers /\ touched' = touched /\ lost' = lost
          /\ held' = held /\ call' = call
      BY <2>1
    <3>2. Announced
      BY DEF Inductive
    <3>3. ASSUME NEW a \in events' \cup {recent'[p] : p \in DOMAIN recent'}
          PROVE  /\ made'[a.id] = [name |-> a.name, email |-> a.email]
                 /\ \/ customers'[a.id] = made'[a.id]
                    \/ a.id \in touched' \cup lost'
                    \/ \E q \in Requests : held'[q] = a.id /\ call'[q].op = "create"
      <4>1. a \in events \cup {recent[p] : p \in DOMAIN recent}
        BY <3>1
      <4> QED
        BY <3>1, <3>2, <4>1 DEF Announced, Op
    <3> QED
      BY <3>3, Zenon DEF Announced, Op
  <2> QED
    BY <2>2, <2>3, <2>4, <2>5, <2>6, <2>7, <2>8 DEF Inductive
<1> QED
  BY <1>1, <1>2

\* Inductive holds of every reachable state, and with it all it consists of.
THEOREM CustomersInvariance == Spec => []Inductive
<1>1. Init => Inductive
  BY InitInv
<1>2. Inductive /\ [Next]_vars => Inductive'
  BY NextInv
<1> QED
  BY <1>1, <1>2, PTL DEF Spec

\* A request holds a connection exactly between its first statement and its
\* end, and the pool is never exceeded.
THEOREM CustomersTypeTheorem == Spec => []TypeOK
<1>1. Inductive => TypeOK
  BY DEF Inductive
<1> QED
  BY <1>1, CustomersInvariance, PTL

\* Two committed customers never share an email, and no order is left without
\* its customer, however creates, updates and deletes overlap.
THEOREM ConsistentTheorem == Spec => []Consistent
<1>1. Inductive => Consistent
  BY DEF Inductive
<1> QED
  BY <1>1, CustomersInvariance, PTL

\* An entry of the recent buffer or an event is of an insert that was accepted,
\* with its values; the row is there unless it was changed since, or its
\* transaction is open, or was lost.
THEOREM AnnouncedTheorem == Spec => []Announced
<1>1. Inductive => Announced
  BY DEF Inductive
<1> QED
  BY <1>1, CustomersInvariance, PTL

\* The recent buffer outgrows its capacity only by the adds whose LTRIM is yet
\* to come, or failed.
THEOREM BufferTheorem == Spec => []BufferBounded
<1>1. Inductive => BufferBounded
  BY DEF Inductive
<1> QED
  BY <1>1, CustomersInvariance, PTL

\* A page has the rows its total leaves for it, for every page number, page
\* size and filter, but for one row for each commit that came between its two
\* statements.
THEOREM PageTheorem == Spec => []PageAgrees
<1>1. Inductive => PageAgrees
  BY DEF Inductive
<1> QED
  BY <1>1, CustomersInvariance, PTL

\* Bio and todos make no more attempts than they may, and once one was made
\* answer 200 or die with their session.
THEOREM DegradesTheorem == Spec => []Degrades
<1>1. Inductive => Degrades
  BY DEF Inductive
<1> QED
  BY <1>1, CustomersInvariance, PTL

\* What PUT commits is what it was asked, unless another write of the row came
\* between its SELECT and its UPDATE; what it changes is as asked even then.
THEOREM PutTheorem == Spec => PutReplaces
<1> DEFINE Replaces ==
      \A r \in Requests :
        pc[r] = "commit" /\ Op(r) = "put" /\ answer'[r] = 200 =>
          /\ overtaken[r] = 0 =>
               customers'[call[r].id] = [name |-> call[r].name, email |-> call[r].email]
          /\ \A c \in Changed(r, loaded[r]) : customers'[call[r].id][c] = call[r][c]
<1>1. Inductive /\ [Next]_vars => [Replaces]_vars
  <2> SUFFICES ASSUME Inductive, Next PROVE Replaces
    OBVIOUS
  <2>1. PICK r \in Requests : Start(r) \/ Step(r) \/ Reply(r) \/ Lose(r)
    BY DEF Next
  <2>2. Kind(r)
    BY <2>1, Kinds DEF Inductive
  <2> QED
    BY <2>2, PutStep DEF Inductive, Asked
<1> QED
  BY <1>1, CustomersInvariance, PTL DEF Spec, PutReplaces
=============================================================================
