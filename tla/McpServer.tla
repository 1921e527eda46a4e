------------------------------ MODULE McpServer ------------------------------
(***************************************************************************)
(* The MCP server of one process: every call of a tool, from the request's *)
(* headers to its answer, on top of the order tool of IdempotentCreate.    *)
(*                                                                         *)
(* A tool body runs in the task of its request.  It is atomic up to its    *)
(* first SQL statement, and between two statements: the audit line, the    *)
(* ring buffer, the metrics cache and the idempotency cache are used       *)
(* without an await.                                                       *)
(*                                                                         *)
(* Calls belong to sessions, which the SDK keeps between requests: one is  *)
(* opened by an initialize request, and whoever is let in may call in it.  *)
(* The token verifier sets a context variable in the task of the request   *)
(* it looks at.  Which context a body then runs in, that of its own        *)
(* request or that of the request that opened its session, is the SDK's    *)
(* affair and left open here.                                              *)
(***************************************************************************)
EXTENDS IdempotentCreate, ChurnRules

CONSTANTS
  Sessions,     \* sessions that may be opened
  ApiKey,       \* the configured key
  Scenarios,    \* [tools, headers, sessions, lines, seconds, apps, model]: the
                \* tools called in a behaviour, in the order the calls arrive in,
                \* and by whom; how many sessions, log lines of other code,
                \* seconds and apps it has; whether the process found a churn
                \* model when it started
  Limits, MaxRecent,    \* limits a client may ask for, MAX_RECENT_ORDERS
  Lengths, Capacity,    \* lengths a client may ask for, records of the buffer
  Families, Labels,     \* of the metrics registry
  Blank,        \* an empty string, or an empty dict
  Queries,      \* <<name, tags>>: the filters a client may send
  Ttl,          \* seconds a snapshot is reused
  MaxSnapshots, \* DEFAULT_CACHE_MAXSIZE
  Stocks,       \* stock quantities of the products
  Histories, Now,       \* histories of a customer, and the time they are read
  NotFound, ServiceUnavailable  \* the errors a tool answers with

ASSUME McpAssumption ==
  /\ IsFiniteSet(Calls) /\ IsFiniteSet(OrderIds) /\ OrderIds = 1 .. Cardinality(OrderIds)
  /\ NotFound \notin [count : 0 .. Cardinality(OrderIds)]
  /\ {MaxRecent, Capacity, Ttl, MaxSnapshots} \subseteq Nat \ {0} /\ Stocks \subseteq Nat
  /\ Limits \cup Lengths \subseteq Int
  /\ Queries \subseteq (Families \cup {Blank, None}) \X (Labels \cup {Blank, None})
  /\ Now \in Int /\ \A h \in Histories : h.created \in Int /\ h.orders \in OrderRows

VARIABLES
  scenario,
  opener,         \* per session: the headers of its initialize request, or None
  tool, headers, session,  \* per call
  user,           \* per call: the ContextVar _current_user, as its body sees it
  ask, answer,    \* per call: parameters and result of the tools but create_order
  ring,           \* the buffer, oldest first
  attached,       \* is its handler on the root logger?
  metrics,        \* the TTL cache: [at, samples] of each key, or None
  clock,
  \* History:
  logged,         \* every record that went to the root logger
  heard,          \* how many of them the handler was there to hear
  deleted,        \* orders deleted since
  before          \* per reading call: orders answered to others when it arrived

callers == <<opener, tool, headers, session, user>>
logs == <<ring, attached, logged, heard>>
mcp == <<scenario, callers, ask, answer, logs, metrics, clock, deleted, before>>
mcpVars == <<vars, mcp>>
orderTool == <<store, cache, key, customer, order, result, madeFor, excused>>

Levels == {"INFO", "WARNING"}
DomainTools == {"create_order", "get_order_by_id", "list_recent_orders", "get_customer_360"}
AdminTools == {"trigger_chaos_experiment", "get_health_detail"}
PlainTools == {"get_actuator_env", "get_actuator_info", "get_openapi_spec"}
Tools == DomainTools \cup AdminTools \cup PlainTools
           \cup {"find_low_stock_products", "predict_customer_churn", "tail_logs",
                  "get_metrics", "get_health"}

McpInit ==
  /\ Init /\ scenario \in Scenarios
  /\ tool = [c \in Calls |-> None] /\ headers = [c \in Calls |-> None]
  /\ opener = [s \in Sessions |-> None] /\ session = [c \in Calls |-> None]
  /\ user = [c \in Calls |-> None]
  /\ ask = [c \in Calls |-> None] /\ answer = [c \in Calls |-> None]
  /\ ring = <<>> /\ attached = TRUE
  /\ metrics = [k \in (Families \cup {Blank}) \X (Labels \cup {Blank}) |-> None]
  /\ clock = 0 /\ logged = <<>> /\ heard = 0 /\ deleted = {}
  /\ before = [c \in Calls |-> {}]
-----------------------------------------------------------------------------
(* Who calls.  Headers are [key, bearer]; a bearer is the key, None or a   *)
(* token [sub, role, type, valid].                                         *)

ApiUser == [name |-> "api-key-user", role |-> "ROLE_ADMIN"]

\* ApiKeyMiddleware: a matching key replaces the Authorization header.
Bearer(h) == IF h.key = ApiKey THEN ApiKey ELSE h.bearer

\* decode_token with expected_type = ACCESS_TOKEN
Decodes(t) == t \notin {None, ApiKey} /\ t.valid /\ t.type = "access"

\* McpTokenVerifier.verify_token
VerifyToken(t) ==
  IF t = ApiKey THEN ApiUser
  ELSE IF Decodes(t) /\ None \notin {t.sub, t.role}
  THEN [name |-> t.sub, role |-> t.role] ELSE None

\* auth/deps.py: who the REST endpoints take the sender of these headers for.
CurrentUser(h) ==
  IF h.key = ApiKey THEN ApiUser
  ELSE IF Decodes(h.bearer) THEN [name |-> h.bearer.sub, role |-> h.bearer.role] ELSE None

\* Mutant: one variable for the process instead of one for each task.
SetUserOfAll(c, u) == [d \in Calls |-> u]

SetCurrentUser(c, u) == [user EXCEPT ![c] = u]

Sender(h) == VerifyToken(Bearer(h))

\* The SDK authenticates every request.  An unknown user, or one whose scopes
\* lack ROLE_USER, goes no further.
LetIn(h) == Sender(h) # None /\ Sender(h).role \in {"ROLE_USER", "ROLE_ADMIN"}

\* initialize
OpenSession(s) ==
  /\ opener[s] = None
  /\ Cardinality({t \in Sessions : opener[t] # None}) < scenario.sessions
  /\ \E h \in scenario.headers : LetIn(h) /\ opener' = [opener EXCEPT ![s] = h]
  /\ UNCHANGED <<vars, scenario, tool, headers, session, user, ask, answer, logs, metrics,
                 clock, deleted, before>>

\* tools/call
Arrive(c) ==
  /\ tool[c] = None
  /\ LET arrived == Cardinality({d \in Calls : tool[d] # None}) IN
       /\ arrived < Len(scenario.tools)
       /\ tool' = [tool EXCEPT ![c] = scenario.tools[arrived + 1]]
  /\ \E h \in scenario.headers :
       /\ headers' = [headers EXCEPT ![c] = h]
       /\ \/ /\ ~LetIn(h) /\ pc' = [pc EXCEPT ![c] = "failed"]
             /\ UNCHANGED <<session, user>>
          \/ /\ LetIn(h) /\ UNCHANGED pc
             /\ \E s \in {t \in Sessions : opener[t] # None} :
                  /\ session' = [session EXCEPT ![c] = s]
                  /\ \E u \in {Sender(h), Sender(opener[s])} : user' = SetCurrentUser(c, u)
  /\ before' = IF tool'[c] \in DomainTools \ {"create_order"}
               THEN [before EXCEPT ![c] = {result[d] : d \in Calls} \ (deleted \cup {None})]
               ELSE before
  /\ UNCHANGED <<orderTool, scenario, opener, ask, answer, logs, metrics, clock, deleted>>
-----------------------------------------------------------------------------
(* Logging. *)

\* deque(maxlen): the oldest record makes room.
Appended(buffer, record) ==
  IF Len(buffer) < Capacity THEN Append(buffer, record) ELSE Append(Tail(buffer), record)

\* RingBufferHandler.emit, if the root logger has the handler.
Emit(record) ==
  /\ logged' = Append(logged, record)
  /\ IF attached THEN ring' = Appended(ring, record) /\ heard' = heard + 1
     ELSE UNCHANGED <<ring, heard>>
  /\ UNCHANGED attached

\* record_tool_call, with _safe_user_role
Audit(c) == Emit([level |-> "INFO", call |-> c, user |-> user[c]])

\* A line of other code.
LogLine ==
  /\ Cardinality({i \in DOMAIN logged : logged[i].call = None}) < scenario.lines
  /\ \E level \in Levels : Emit([level |-> level, call |-> None, user |-> None])
  /\ UNCHANGED <<vars, scenario, callers, ask, answer, metrics, clock, deleted, before>>

\* A second create_app: configure_logging replaces the root logger's handlers,
\* and attach_ring_buffer finds its singleton and adds nothing.
CreateAppAgain ==
  /\ attached /\ scenario.apps > 1 /\ attached' = FALSE
  /\ UNCHANGED <<vars, scenario, callers, ask, answer, ring, metrics, clock, logged, heard,
                 deleted, before>>

Clamp(n, most) == IF n < 1 THEN 1 ELSE IF n < most THEN n ELSE most

\* The first n of the records that match, a list that grows to n.
FirstMatching(records, n, level) ==
  FoldLeft(LAMBDA found, e : IF level \in {None, e.level} /\ Len(found) < n
                             THEN Append(found, e) ELSE found,
           <<>>, records)

\* Mutant: the oldest matching records are returned.
SnapshotFromOldest(n, level) == FirstMatching(ring', n, level)

\* RingBufferHandler.snapshot: from the newest backwards until n match, then
\* turned round.
Snapshot(n, level) == Reverse(FirstMatching(Reverse(ring'), n, level))
-----------------------------------------------------------------------------
(* Metrics.  A sample is <<family, label>>; a snapshot is the samples that *)
(* were selected and the second they were read in.                         *)

\* Mutant: the key forgets the tags.
KeyWithoutTags(name, tags) == <<IF name = None THEN Blank ELSE name, Blank>>

\* _cache_key: nothing asked and an empty filter are the same key.
CacheKey(name, tags) ==
  <<IF name = None THEN Blank ELSE name, IF tags = None THEN Blank ELSE tags>>

\* _collect and _matches_tags
Collect(name, tags) ==
  {s \in Families \X Labels : name \in {None, Blank, s[1]} /\ tags \in {None, Blank, s[2]}}

Live(k) == metrics[k] # None /\ clock < metrics[k].at + Ttl

\* TTLCache: what has expired goes, and one that has not if there is no room.
Stored(k, fresh) ==
  LET others == {j \in DOMAIN metrics : j # k /\ Live(j)}
      kept == IF Cardinality(others) < MaxSnapshots THEN {others}
              ELSE {others \ {j} : j \in others}
  IN {[j \in DOMAIN metrics |-> IF j = k THEN fresh ELSE IF j \in s THEN metrics[j] ELSE None]
        : s \in kept}

\* list_samples
ListSamples(c, name, tags) ==
  LET k == CacheKey(name, tags)
      fresh == [at |-> clock, samples |-> Collect(name, tags)]
  IN /\ metrics' \in IF Live(k) THEN {metrics} ELSE Stored(k, fresh)
     /\ answer' = [answer EXCEPT ![c] = [asked |-> clock, is |-> metrics'[k]]]

Tick ==
  /\ clock < scenario.seconds /\ clock' = clock + 1
  /\ UNCHANGED <<vars, scenario, callers, ask, answer, logs, metrics, deleted, before>>
-----------------------------------------------------------------------------
(* Tool bodies. *)

Ready(c, t) == pc[c] = "idle" /\ tool[c] = t

\* The audit line, the parameters, and on to the first statement.
Begin(c, params, step) ==
  /\ Audit(c) /\ Goto(c, step) /\ ask' = [ask EXCEPT ![c] = params]
  /\ UNCHANGED <<orderTool, scenario, callers, clock, deleted, before>>

\* A tool without statements answers at once.
AnswerAtOnce(c, params, a) ==
  /\ Begin(c, params, "done") /\ answer' = [answer EXCEPT ![c] = a]
  /\ UNCHANGED metrics
Ask(c, params, step) == Begin(c, params, step) /\ UNCHANGED <<answer, metrics>>

\* A statement of a reading tool was executed.
Reads(c, t, step) == pc[c] = step /\ tool[c] = t
Unlogged == UNCHANGED <<orderTool, scenario, callers, ask, logs, metrics, clock, deleted,
                        before>>
AnswerWith(c, a) == Goto(c, "done") /\ answer' = [answer EXCEPT ![c] = a] /\ Unlogged
Then(c, step) == Goto(c, step) /\ UNCHANGED answer /\ Unlogged

\* create_order: audit and cache look-up, then as IdempotentCreate has it.
CreateOrder(c) ==
  /\ Ready(c, "create_order") /\ Audit(c)
  /\ \E k \in Keys \cup {None}, cust \in Customers : Call(c, k, cust)
  /\ UNCHANGED <<scenario, callers, ask, answer, metrics, clock, deleted, before>>
CreateOrderStep(c) ==
  /\ \/ \E o \in OrderIds : (\A p \in OrderIds \ issued : o <= p) /\ InsertOrder(c, o)
     \/ CommitOrder(c) \/ Remember(c) \/ Abort(c)
  /\ UNCHANGED mcp

\* DELETE /orders/{id} over REST, which knows nothing of the caches.
RestDeletesOrder ==
  /\ \E o \in OrderIds : DeleteOrder(o) /\ deleted' = deleted \cup {o}
  /\ UNCHANGED <<scenario, callers, ask, answer, logs, metrics, clock, before>>

GetOrderById(c) ==
  \/ Ready(c, "get_order_by_id") /\ \E o \in OrderIds : Ask(c, [id |-> o], "select")
  \/ Reads(c, "get_order_by_id", "select") /\ AnswerWith(c, [found |-> orders[ask[c].id] # None])

\* list_recent_orders: ORDER BY id DESC LIMIT
Newest(n) ==
  {o \in OrderIds : orders[o] # None /\
     Cardinality({p \in OrderIds : p >= o /\ orders[p] # None}) <= n}
ListRecentOrders(c) ==
  \/ Ready(c, "list_recent_orders") /\ \E n \in Limits : Ask(c, [limit |-> n], "select")
  \/ /\ Reads(c, "list_recent_orders", "select")
     /\ AnswerWith(c, [orders |-> Newest(Clamp(ask[c].limit, MaxRecent))])

\* find_low_stock_products: the stocks below the threshold.
FindLowStock(c) ==
  \/ /\ Ready(c, "find_low_stock_products")
     /\ \E n \in Limits : Ask(c, [threshold |-> Larger(0, n)], "select")
  \/ /\ Reads(c, "find_low_stock_products", "select")
     /\ AnswerWith(c, [stocks |-> {s \in Stocks : s < ask[c].threshold}])

\* get_customer_360: the customer, then the aggregate over the orders.
GetCustomer360(c) ==
  \/ Ready(c, "get_customer_360") /\ \E cust \in Customers : Ask(c, [customer |-> cust], "select")
  \/ /\ Reads(c, "get_customer_360", "select")
     /\ IF ask[c].customer \in known THEN Then(c, "aggregate") ELSE AnswerWith(c, NotFound)
  \/ /\ Reads(c, "get_customer_360", "aggregate")
     /\ AnswerWith(c, [count |-> Cardinality({o \in OrderIds : orders[o] = ask[c].customer})])

\* load_model runs once, when the process starts.
IsReady == scenario.model

\* ExtractFeatures on the rows, and a probability from the model.
Predict(c) ==
  \E p \in {0, Low, Low + 1, High, High + 1, 100} :
    AnswerWith(c, [features |-> ExtractFeatures(ask[c], Now), band |-> ClassifyRisk(p)])

\* predict_customer_churn: without a model there is no statement; the rows of a
\* customer that exists are read one SELECT after the other, the lines if there
\* are orders.
PredictChurn(c) ==
  \/ /\ Ready(c, "predict_customer_churn") /\ ~IsReady
     /\ AnswerAtOnce(c, None, ServiceUnavailable)
  \/ /\ Ready(c, "predict_customer_churn") /\ IsReady
     /\ \E h \in Histories \cup {None} : Ask(c, h, "select")
  \/ /\ Reads(c, "predict_customer_churn", "select")
     /\ IF ask[c] = None THEN AnswerWith(c, NotFound) ELSE Then(c, "orders")
  \/ /\ Reads(c, "predict_customer_churn", "orders")
     /\ IF ask[c].orders = <<>> THEN Predict(c) ELSE Then(c, "lines")
  \/ Reads(c, "predict_customer_churn", "lines") /\ Predict(c)

TailLogs(c) ==
  /\ Ready(c, "tail_logs")
  /\ \E n \in Lengths, level \in Levels \cup {None} :
       /\ Begin(c, [n |-> n, level |-> level], "done") /\ UNCHANGED metrics
       /\ answer' = [answer EXCEPT ![c] = [records |-> Snapshot(Clamp(n, Capacity), level),
                                           upto |-> Len(logged')]]

GetMetrics(c) ==
  /\ Ready(c, "get_metrics")
  /\ \E q \in Queries :
       /\ Begin(c, [name |-> q[1], tags |-> q[2]], "done") /\ ListSamples(c, q[1], q[2])

\* The role is asked for before the audit line is written.
RequireAdmin(c, t) == Ready(c, t) /\ user[c].role = "ROLE_ADMIN"
Refuse(c) ==
  /\ \E t \in AdminTools : Ready(c, t) /\ user[c].role # "ROLE_ADMIN"
  /\ Goto(c, "failed") /\ UNCHANGED answer /\ Unlogged

\* trigger_chaos_experiment: the two scenarios with a statement, one without.
TriggerChaos(c) ==
  \/ /\ RequireAdmin(c, "trigger_chaos_experiment")
     /\ \/ \E s \in {"slow-query", "db-failure"} : Ask(c, [chaos |-> s], "select")
        \/ AnswerAtOnce(c, [chaos |-> "kafka-timeout"], [status |-> "effective"])
  \/ /\ Reads(c, "trigger_chaos_experiment", "select") /\ AnswerWith(c, [status |-> "effective"])

\* get_health and get_health_detail: SELECT 1.  An error of SQLAlchemy is DOWN,
\* any other (the server refuses the connection) is an error of the tool.
GetHealth(c) ==
  \/ Ready(c, "get_health") /\ Ask(c, None, "probe")
  \/ RequireAdmin(c, "get_health_detail") /\ Ask(c, None, "probe")
  \/ pc[c] = "probe" /\ \E status \in {"UP", "DOWN"} : AnswerWith(c, [status |-> status])

\* build_env_snapshot, build_info_block, build_openapi
Describe(c) == \E t \in PlainTools : Ready(c, t) /\ AnswerAtOnce(c, None, [status |-> "described"])

\* A statement fails, or the client cancels: the session is closed.
ReadFails(c) ==
  /\ pc[c] \in {"select", "aggregate", "orders", "lines", "probe"}
  /\ Then(c, "failed")

McpNext ==
  \/ LogLine \/ CreateAppAgain \/ Tick \/ RestDeletesOrder
  \/ \E s \in Sessions : OpenSession(s)
  \/ \E c \in Calls :
       \/ Arrive(c) \/ CreateOrder(c) \/ CreateOrderStep(c)
       \/ GetOrderById(c) \/ ListRecentOrders(c) \/ GetCustomer360(c) \/ FindLowStock(c)
       \/ PredictChurn(c) \/ TailLogs(c) \/ GetMetrics(c)
       \/ Refuse(c) \/ TriggerChaos(c) \/ GetHealth(c) \/ Describe(c) \/ ReadFails(c)

McpSpec == McpInit /\ [][McpNext]_mcpVars
-----------------------------------------------------------------------------
ASSUME ScenariosAssumption ==
  /\ None \notin Tools \cup {NotFound}
  /\ \A s \in Scenarios : s.tools \in Seq(Tools) /\ {s.sessions, s.lines, s.seconds, s.apps} \subseteq Nat

Senders == {Sender(h) : h \in scenario.headers}
Records == [level : Levels, call : Calls \cup {None}, user : Senders \cup {None}]
Reading == {"select", "aggregate", "orders", "lines", "probe"}

\* A call that was let in has a user, and one that was answered is done; the
\* buffer and the metrics cache never outgrow their capacity.
McpTypeOK ==
  /\ scenario \in Scenarios /\ clock \in 0 .. scenario.seconds
  /\ orders \in [OrderIds -> Customers \cup {None}] /\ issued \subseteq OrderIds
  /\ cached \in Seq(Keys) /\ IsInjective(cached)
  /\ \A k \in Keys : Contains(cached, k) <=> ref[k] # None
  /\ logged \in Seq(Records) /\ ring \in Seq(Records) /\ Len(ring) <= Capacity
  /\ DOMAIN metrics = (Families \cup {Blank}) \X (Labels \cup {Blank})
  /\ IsFiniteSet({k \in DOMAIN metrics : metrics[k] # None})
  /\ Cardinality({k \in DOMAIN metrics : metrics[k] # None}) <= MaxSnapshots
  /\ tool \in [Calls -> Tools \cup {None}]
  /\ user \in [Calls -> Senders \cup {None}]
  /\ DOMAIN opener = Sessions /\ session \in [Calls -> Sessions \cup {None}]
  /\ DOMAIN headers = Calls /\ DOMAIN ask = Calls /\ DOMAIN answer = Calls /\ DOMAIN before = Calls
  /\ \A c \in Calls :
       /\ pc[c] \in Open \cup Reading \cup {"idle", "done", "failed"}
       /\ pc[c] # "failed" /\ tool[c] # None => user[c] # None
       /\ answer[c] # None => pc[c] = "done" /\ tool[c] # "create_order"

\* Who the REST endpoints would take the sender of headers h for, or the key's
\* user when the key is sent as a bearer token.
RestUser(h) == IF h.bearer = ApiKey THEN ApiUser ELSE CurrentUser(h)

\* Who a call may act for: whoever sent it, and whoever opened its session.
ActsFor(c) == {RestUser(headers[c]), RestUser(opener[session[c]])}

\* Whatever calls and sessions overlap, a call acts for one of these and never
\* for the sender of another call; its audit lines name the user its role was
\* checked for; and an administrator's tool that did its work acted for one.
OwnUser ==
  /\ \A i \in DOMAIN logged :
       LET c == logged[i].call IN
         c # None => logged[i].user = user[c] /\ user[c] \in ActsFor(c)
  /\ \A c \in Calls :
       tool[c] \in AdminTools /\ pc[c] # "failed" /\ (ask[c] # None \/ answer[c] # None)
       => user[c] \in ActsFor(c) /\ user[c].role = "ROLE_ADMIN"

Smaller(a, b) == IF a < b THEN a ELSE b

\* tail_logs: of the records still retained, the newest that match, at most as
\* many as asked for, oldest first.  What is retained ends at the call's own
\* line, or at the last one before a second app took the handler away.
TailAnswers ==
  \A c \in Calls :
    tool[c] = "tail_logs" /\ pc[c] = "done" =>
      LET upto == Smaller(answer[c].upto, heard)
          oldest == IF upto < Capacity THEN 1 ELSE upto - Capacity + 1
          matching == {i \in oldest .. upto : ask[c].level \in {None, logged[i].level}}
          found == answer[c].records
          shown == {i \in matching : Cardinality({j \in matching : j >= i})
                                       <= Clamp(ask[c].n, Capacity)}
      IN /\ Len(found) = Cardinality(shown)
         /\ \A i \in shown : found[Cardinality({j \in shown : j <= i})] = logged[i]

\* A metrics answer is the one to the question asked, read less than Ttl ago,
\* and never older than one already given to that question.
MetricsFresh ==
  \A c \in Calls :
    tool[c] = "get_metrics" /\ pc[c] = "done" =>
      LET a == answer[c] IN
        /\ a.is.samples = Collect(ask[c].name, ask[c].tags)
        /\ a.is.at \in a.asked - Ttl + 1 .. a.asked
        /\ \A d \in Calls :
             tool[d] = "get_metrics" /\ pc[d] = "done" /\ ask[d] = ask[c]
             /\ answer[d].asked < a.asked => answer[d].is.at <= a.is.at

\* An order whose reference was answered is committed: whoever asks afterwards
\* finds it by id, in the list unless newer ones fill it, and in the customer's
\* count, until it is deleted.
Finds(c) ==
  pc[c] = "done" =>
    LET seen == before[c] \ deleted IN
      CASE tool[c] = "get_order_by_id" -> ask[c].id \in seen => answer[c].found
        [] tool[c] = "list_recent_orders" ->
             \A o \in seen : \/ o \in answer[c].orders
                             \/ /\ Cardinality(answer[c].orders) = Clamp(ask[c].limit, MaxRecent)
                                /\ \A p \in answer[c].orders : p > o
        [] tool[c] = "get_customer_360" ->
             LET own == {o \in seen : orders[o] = ask[c].customer} IN
               own # {} => answer[c] # NotFound /\ answer[c].count >= Cardinality(own)
        [] OTHER -> TRUE
AnsweredIsVisible == \A c \in Calls : Finds(c)

\* The features served for a customer with orders are the row the training
\* builds from the same data, and a customer the training calls churned is
\* shown to the model without revenue in the windows it was quiet for.
FeaturesAgree ==
  \A c \in Calls :
    tool[c] = "predict_customer_churn" /\ pc[c] = "done"
    /\ answer[c] \notin {NotFound, ServiceUnavailable}
    /\ ask[c].orders # <<>> =>
      LET served == answer[c].features IN
        /\ served = BuildFeatures(ask[c], Now)
        /\ \A quiet \in Windows : LabelChurn(ask[c], Now, quiet, 0, 0) =>
             /\ served.daysSinceLast >= quiet
             /\ \A w \in Windows : w <= quiet => served.revenue[w] = 0
-----------------------------------------------------------------------------
(***************************************************************************)
(* The inductive invariant, in parts: what a call is allowed, what the     *)
(* buffer and the metrics cache hold, and where answered orders are.       *)
(***************************************************************************)

\* Who has opened a session was let in.
SessionsInv ==
  \A s \in Sessions : opener[s] # None => opener[s] \in scenario.headers /\ LetIn(opener[s])

\* A call that was let in acts for the sender of its headers or the opener of
\* its session; only the calls of administrators get past the role check.
Callers(c) == {Sender(headers[c]), Sender(opener[session[c]])}
InSession(c) ==
  /\ session[c] \in Sessions /\ opener[session[c]] # None
  /\ headers[c] \in scenario.headers /\ LetIn(headers[c])
  /\ user[c] \in Callers(c)
Allowed(c) ==
  /\ tool[c] = None => pc[c] = "idle"
  /\ pc[c] = "idle" => ask[c] = None /\ answer[c] = None
  /\ pc[c] \in Open => tool[c] = "create_order"
  /\ pc[c] \in Reading => tool[c] \notin {None, "create_order", "get_metrics"}
  /\ pc[c] = "probe" => tool[c] \in {"get_health", "get_health_detail"}
  /\ tool[c] # None /\ pc[c] # "failed" => InSession(c)
  /\ tool[c] \in AdminTools /\ pc[c] \notin {"idle", "failed"} => user[c].role = "ROLE_ADMIN"
AccessInv == SessionsInv /\ \A c \in Calls : Allowed(c)

\* Every audit line names the user of its call.
AuditInv ==
  \A i \in DOMAIN logged :
    LET c == logged[i].call IN
      c # None => tool[c] # None /\ InSession(c) /\ logged[i].user = user[c]

\* The buffer is the end of the log, as far as its handler has heard it.
RingInv ==
  /\ heard \in 0 .. Len(logged) /\ (attached => heard = Len(logged))
  /\ Len(ring) = Smaller(heard, Capacity)
  /\ \A i \in 1 .. Len(ring) : ring[i] = logged[heard - Len(ring) + i]

\* A cached snapshot is one of its key, and no older than any answer that was
\* given under that key.
MetricsInv ==
  /\ \A k \in DOMAIN metrics : metrics[k] # None =>
       /\ metrics[k].at \in 0 .. clock
       /\ metrics[k].samples = Collect(k[1], k[2])
  /\ \A c \in Calls : tool[c] = "get_metrics" /\ pc[c] = "done" =>
       LET k == CacheKey(ask[c].name, ask[c].tags) IN
         /\ k \in DOMAIN metrics
         /\ answer[c].asked \in 0 .. clock /\ answer[c].is.at \in 0 .. clock
         /\ metrics[k] # None => answer[c].is.at <= metrics[k].at

\* An order stays until it is deleted.
Stays(o) == o \in deleted \/ orders[o] # None

\* The orders calls work on, the cache refers to, were answered or expected
\* to be found, are there until deleted; their customers exist.
Settled(c) ==
  /\ pc[c] = "commit" => customer[c] \in known /\ orders[order[c]] = None /\ order[c] \notin deleted
  /\ pc[c] = "remember" => Stays(order[c])
  /\ result[c] # None => Stays(result[c])
  /\ before[c] \subseteq OrderIds /\ \A o \in before[c] : Stays(o)
  /\ tool[c] = "list_recent_orders" /\ pc[c] \in {"select", "done"} => ask[c].limit \in Limits
  /\ tool[c] = "get_customer_360" /\ pc[c] = "aggregate" => ask[c].customer \in known
  /\ tool[c] = "get_customer_360" /\ pc[c] = "done" => answer[c] \in {NotFound} \cup [count : Nat]
VisibleInv ==
  /\ known \subseteq Customers /\ deleted \subseteq issued
  /\ \A o \in OrderIds : orders[o] # None => o \in issued /\ orders[o] \in known
  /\ \A k \in Keys : ref[k] # None => Stays(ref[k])
  /\ \A c \in Calls : Settled(c)

\* A tail of the log ends at a line that was written.
TailInv ==
  \A c \in Calls : tool[c] = "tail_logs" /\ pc[c] = "done" =>
    answer[c].upto \in 0 .. Len(logged)

\* A prediction that is under way is one of a history, or of no customer until
\* that is noticed; one that was made served the features of its history.
PredictInv ==
  \A c \in Calls : tool[c] = "predict_customer_churn" =>
    /\ pc[c] = "select" => ask[c] \in Histories \cup {None}
    /\ pc[c] \in {"orders", "lines"} => ask[c] \in Histories
    /\ pc[c] = "done" /\ answer[c] \notin {NotFound, ServiceUnavailable} =>
         ask[c] \in Histories /\ answer[c].features = ExtractFeatures(ask[c], Now)

McpInductive ==
  /\ CreateInductive /\ McpTypeOK
  /\ AccessInv /\ AuditInv /\ RingInv /\ MetricsInv /\ MetricsFresh
  /\ VisibleInv /\ AnsweredIsVisible
  /\ TailInv /\ TailAnswers /\ PredictInv
=============================================================================
