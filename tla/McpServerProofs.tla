--------------------------- MODULE McpServerProofs ---------------------------
(***************************************************************************)
(* Proofs about the MCP server, for every number of calls, any mix of      *)
(* tools, sessions and senders, and every capacity: what the order tool    *)
(* promises holds among the calls of the others; a call acts for its       *)
(* sender or the opener of its session, a tail of the log is the newest    *)
(* lines, a metrics answer is fresh and its own, an answered order is      *)
(* found, and the churn features served are those of the training.         *)
(***************************************************************************)
EXTENDS McpServer, IdempotentCreateProofs, ChurnRulesProofs

HealthTools == {"get_health", "get_health_detail"}

\* What a call of a tool other than create_order does: it starts, with its
\* audit line, its parameters and perhaps its answer,
Starts(c, step) ==
  /\ pc[c] = "idle" /\ tool[c] \in Tools \ {"create_order"}
  /\ tool[c] \in AdminTools => user[c].role = "ROLE_ADMIN"
  /\ step \in Reading \cup {"done"}
  /\ step \in Reading => tool[c] # "get_metrics"
  /\ step = "probe" => tool[c] \in HealthTools
  /\ Audit(c)
  /\ \E params : ask' = [ask EXCEPT ![c] = params]
  /\ \/ UNCHANGED answer
     \/ step = "done" /\ \E a : answer' = [answer EXCEPT ![c] = a]
  /\ \/ GetMetrics(c)
     \/ tool[c] # "get_metrics" /\ UNCHANGED metrics

\* goes on, or ends, after a statement,
Continues(c, step) ==
  /\ pc[c] \in Reading /\ step \in (Reading \ {"probe"}) \cup {"done", "failed"}
  /\ UNCHANGED <<ask, logs, metrics>>
  /\ \/ UNCHANGED answer
     \/ step = "done" /\ \E a : answer' = [answer EXCEPT ![c] = a]

\* or is refused.
IsRefused(c, step) ==
  /\ pc[c] = "idle" /\ tool[c] \in AdminTools /\ step = "failed"
  /\ UNCHANGED <<ask, answer, logs, metrics>>

ToolStep(c) ==
  \/ GetOrderById(c) \/ ListRecentOrders(c) \/ GetCustomer360(c) \/ FindLowStock(c)
  \/ PredictChurn(c) \/ TailLogs(c) \/ GetMetrics(c) \/ Refuse(c) \/ TriggerChaos(c)
  \/ GetHealth(c) \/ Describe(c) \/ ReadFails(c)

\* Every such step is one of the three, and touches nothing of the order
\* tool, of the other calls' parameters or of the server's set-up.
LEMMA ToolFrame ==
  ASSUME NEW c \in Calls, ToolStep(c)
  PROVE  /\ UNCHANGED <<orderTool, scenario, callers, clock, deleted, before>>
         /\ \E step : /\ pc' = [pc EXCEPT ![c] = step]
                      /\ Starts(c, step) \/ Continues(c, step) \/ IsRefused(c, step)
<1> DEFINE Frame == /\ UNCHANGED <<orderTool, scenario, callers, clock, deleted,
                                   before>>
                    /\ \E step : /\ pc' = [pc EXCEPT ![c] = step]
                                 /\ \/ Starts(c, step) \/ Continues(c, step)
                                    \/ IsRefused(c, step)
<1>1. ASSUME NEW t \in Tools \ {"create_order", "get_metrics"}, NEW params,
             NEW step \in Reading, Ready(c, t), Ask(c, params, step),
             t \in AdminTools => user[c].role = "ROLE_ADMIN",
             step = "probe" => t \in HealthTools
      PROVE  Frame
  BY <1>1 DEF Starts, Ready, Ask, Begin, Goto, orderTool
<1>2. ASSUME NEW t \in Tools \ {"create_order", "get_metrics"}, NEW params, NEW a,
             Ready(c, t), AnswerAtOnce(c, params, a),
             t \in AdminTools => user[c].role = "ROLE_ADMIN"
      PROVE  Frame
  <2>1. Starts(c, "done")
    BY <1>2 DEF Starts, Ready, AnswerAtOnce, Begin, Reading
  <2>2. pc' = [pc EXCEPT ![c] = "done"]
    BY <1>2 DEF AnswerAtOnce, Begin, Goto
  <2>3. UNCHANGED <<orderTool, scenario, callers, clock, deleted, before>>
    BY <1>2 DEF AnswerAtOnce, Begin
  <2> QED
    BY <2>1, <2>2, <2>3
<1>3. ASSUME NEW a, pc[c] \in Reading, AnswerWith(c, a)
      PROVE  Frame
  BY <1>3 DEF Continues, AnswerWith, Unlogged, Goto, Reading
<1>4. ASSUME NEW step \in (Reading \ {"probe"}) \cup {"failed"}, pc[c] \in Reading,
             Then(c, step)
      PROVE  Frame
  BY <1>4 DEF Continues, Then, Unlogged, Goto, Reading
<1>5. CASE GetOrderById(c)
  <2>1. ASSUME NEW o \in OrderIds, Ready(c, "get_order_by_id"),
               Ask(c, [id |-> o], "select")
        PROVE  Frame
    BY <1>1, <2>1 DEF Reading, Tools, DomainTools, AdminTools
  <2>2. ASSUME Reads(c, "get_order_by_id", "select"),
               AnswerWith(c, [found |-> orders[ask[c].id] # None])
        PROVE  Frame
    BY <1>3, <2>2 DEF Reads, Reading
  <2> QED
    BY <1>5, <2>1, <2>2 DEF GetOrderById
<1>6. CASE ListRecentOrders(c)
  <2>1. ASSUME NEW n \in Limits, Ready(c, "list_recent_orders"),
               Ask(c, [limit |-> n], "select")
        PROVE  Frame
    BY <1>1, <2>1 DEF Reading, Tools, DomainTools, AdminTools
  <2>2. ASSUME NEW a, Reads(c, "list_recent_orders", "select"), AnswerWith(c, a)
        PROVE  Frame
    BY <1>3, <2>2 DEF Reads, Reading
  <2> QED
    BY <1>6, <2>1, <2>2 DEF ListRecentOrders
<1>7. CASE GetCustomer360(c)
  <2>1. ASSUME NEW cust \in Customers, Ready(c, "get_customer_360"),
               Ask(c, [customer |-> cust], "select")
        PROVE  Frame
    BY <1>1, <2>1 DEF Reading, Tools, DomainTools, AdminTools
  <2>2. ASSUME NEW a, pc[c] \in {"select", "aggregate"}, AnswerWith(c, a)
        PROVE  Frame
    BY <1>3, <2>2 DEF Reading
  <2>3. ASSUME pc[c] = "select", Then(c, "aggregate")
        PROVE  Frame
    BY <1>4, <2>3 DEF Reading
  <2>4. CASE /\ Reads(c, "get_customer_360", "select")
             /\ IF ask[c].customer \in known THEN Then(c, "aggregate")
                                             ELSE AnswerWith(c, NotFound)
    BY <2>2, <2>3, <2>4 DEF Reads
  <2>5. CASE /\ Reads(c, "get_customer_360", "aggregate")
             /\ AnswerWith(c, [count |-> Cardinality({o \in OrderIds :
                                            orders[o] = ask[c].customer})])
    BY <2>2, <2>5 DEF Reads
  <2> QED
    BY <1>7, <2>1, <2>4, <2>5 DEF GetCustomer360
<1>8. CASE FindLowStock(c)
  <2>1. ASSUME NEW params, Ready(c, "find_low_stock_products"),
               Ask(c, params, "select")
        PROVE  Frame
    BY <1>1, <2>1 DEF Reading, Tools, AdminTools
  <2>2. ASSUME NEW a, pc[c] = "select", AnswerWith(c, a)
        PROVE  Frame
    BY <1>3, <2>2 DEF Reading
  <2>3. CASE /\ Ready(c, "find_low_stock_products")
             /\ \E n \in Limits : Ask(c, [threshold |-> Larger(0, n)], "select")
    BY <2>1, <2>3
  <2>4. CASE /\ Reads(c, "find_low_stock_products", "select")
             /\ AnswerWith(c, [stocks |-> {s \in Stocks : s < ask[c].threshold}])
    BY <2>2, <2>4 DEF Reads
  <2> QED
    BY <1>8, <2>3, <2>4 DEF FindLowStock
<1>9. CASE PredictChurn(c)
  BY <1>1, <1>2, <1>3, <1>4, <1>9
     DEF PredictChurn, Predict, Reads, Reading, Tools, AdminTools
<1>10. CASE TailLogs(c)
  <2>1. PICK n \in Lengths, level \in Levels \cup {None} :
          /\ Begin(c, [n |-> n, level |-> level], "done") /\ UNCHANGED metrics
          /\ answer' = [answer EXCEPT ![c] = [records |-> Snapshot(Clamp(n, Capacity), level),
                                              upto |-> Len(logged')]]
    BY <1>10 DEF TailLogs
  <2>2. \E a : answer' = [answer EXCEPT ![c] = a]
    BY <2>1
  <2>3. Starts(c, "done")
    BY <1>10, <2>1, <2>2 DEF TailLogs, Starts, Ready, Begin, Reading, Tools, AdminTools
  <2>4. pc' = [pc EXCEPT ![c] = "done"]
    BY <2>1 DEF Begin, Goto
  <2>5. UNCHANGED <<orderTool, scenario, callers, clock, deleted, before>>
    BY <2>1 DEF Begin
  <2> QED
    BY <2>3, <2>4, <2>5
<1>11. CASE GetMetrics(c)
  <2>1. PICK q \in Queries :
          /\ Begin(c, [name |-> q[1], tags |-> q[2]], "done")
          /\ ListSamples(c, q[1], q[2])
    BY <1>11 DEF GetMetrics
  <2>2. \E a : answer' = [answer EXCEPT ![c] = a]
    BY <2>1 DEF ListSamples
  <2>3. Starts(c, "done")
    BY <1>11, <2>1, <2>2 DEF GetMetrics, Starts, Ready, Begin, Reading, Tools, AdminTools
  <2>4. pc' = [pc EXCEPT ![c] = "done"]
    BY <2>1 DEF Begin, Goto
  <2>5. UNCHANGED <<orderTool, scenario, callers, clock, deleted, before>>
    BY <2>1 DEF Begin
  <2> QED
    BY <2>3, <2>4, <2>5
<1>12. CASE Refuse(c)
  BY <1>12 DEF Refuse, IsRefused, Ready, Unlogged, Goto
<1>13. CASE TriggerChaos(c)
  BY <1>1, <1>2, <1>3, <1>13
     DEF TriggerChaos, RequireAdmin, Reads, Reading, Tools, AdminTools
<1>14. CASE GetHealth(c)
  BY <1>1, <1>3, <1>14
     DEF GetHealth, RequireAdmin, Reading, Tools, AdminTools, HealthTools
<1>15. CASE Describe(c)
  BY <1>2, <1>15 DEF Describe, Tools, PlainTools, AdminTools
<1>16. CASE ReadFails(c)
  BY <1>4, <1>16 DEF ReadFails, Reading
<1> QED
  BY <1>5, <1>6, <1>7, <1>8, <1>9, <1>10, <1>11, <1>12, <1>13, <1>14, <1>15, <1>16
     DEF ToolStep
-----------------------------------------------------------------------------
\* The capacities are positive numbers.
LEMMA Sizes ==
  /\ MaxRecent \in Nat \ {0} /\ Capacity \in Nat \ {0}
  /\ Ttl \in Nat \ {0} /\ MaxSnapshots \in Nat \ {0}
BY McpAssumption

\* Every initial state satisfies the invariant.
LEMMA McpInitInv == McpInit => McpInductive
<1> SUFFICES ASSUME McpInit PROVE McpInductive
  OBVIOUS
<1>1. CreateInductive
  BY CreateInit DEF McpInit
<1>2. McpTypeOK
  <2> DEFINE Kept == {k \in DOMAIN metrics : metrics[k] # None}
  <2>1. Kept = {}
    BY DEF McpInit
  <2> HIDE DEF Kept
  <2>2. IsFiniteSet(Kept) /\ Cardinality(Kept) <= MaxSnapshots
    BY <2>1, FS_EmptySet, Sizes
  <2>3. /\ scenario \in Scenarios /\ clock \in 0 .. scenario.seconds
        /\ orders \in [OrderIds -> Customers \cup {None}] /\ issued \subseteq OrderIds
    BY ScenariosAssumption DEF McpInit, Init
  <2>4. /\ cached \in Seq(Keys) /\ IsInjective(cached)
        /\ \A k \in Keys : Contains(cached, k) <=> ref[k] # None
    BY <1>1 DEF CreateInductive, CreateTypeOK, CacheInv
  <2>5. logged \in Seq(Records) /\ ring \in Seq(Records) /\ Len(ring) <= Capacity
    BY McpAssumption DEF McpInit
  <2>6. /\ DOMAIN metrics = (Families \cup {Blank}) \X (Labels \cup {Blank})
        /\ tool \in [Calls -> Tools \cup {None}]
        /\ user \in [Calls -> Senders \cup {None}]
        /\ DOMAIN opener = Sessions /\ session \in [Calls -> Sessions \cup {None}]
        /\ DOMAIN headers = Calls /\ DOMAIN ask = Calls
        /\ DOMAIN answer = Calls /\ DOMAIN before = Calls
        /\ \A c \in Calls :
             /\ pc[c] \in Open \cup Reading \cup {"idle", "done", "failed"}
             /\ pc[c] # "failed" /\ tool[c] # None => user[c] # None
             /\ answer[c] # None => pc[c] = "done" /\ tool[c] # "create_order"
    BY DEF McpInit, Init
  <2> QED
    BY <2>2, <2>3, <2>4, <2>5, <2>6 DEF McpTypeOK, Kept
<1>3. \A c \in Calls : pc[c] = "idle" /\ tool[c] = None /\ ask[c] = None /\ answer[c] = None
                       /\ result[c] = None /\ before[c] = {}
  BY DEF McpInit, Init
<1>4. AccessInv
  <2>1. SessionsInv
    BY DEF McpInit, SessionsInv
  <2> QED
    BY <1>3, <2>1 DEF AccessInv, Allowed, Open, Reading, AdminTools
<1>5. AuditInv /\ RingInv
  BY McpAssumption DEF McpInit, AuditInv, RingInv, Smaller
<1>6. MetricsInv
  BY <1>3 DEF McpInit, MetricsInv
<1>7. VisibleInv
  <2>1. /\ known \subseteq Customers /\ deleted \subseteq issued
        /\ \A o \in OrderIds : orders[o] = None
        /\ \A k \in Keys : ref[k] = None
    BY DEF McpInit, Init
  <2>2. \A c \in Calls : /\ pc[c] \notin {"commit", "remember", "select", "aggregate", "done"}
                          /\ tool[c] # "get_customer_360"
    BY <1>3, ScenariosAssumption DEF Tools, DomainTools
  <2>3. \A c \in Calls : before[c] \subseteq OrderIds /\ \A o \in before[c] : Stays(o)
    BY <1>3
  <2>4. \A c \in Calls : Settled(c)
    BY <1>3, <2>2, <2>3 DEF Settled
  <2> QED
    BY <2>1, <2>4 DEF VisibleInv
<1>8. MetricsFresh /\ AnsweredIsVisible
  BY <1>3, ScenariosAssumption DEF MetricsFresh, AnsweredIsVisible, Finds
<1>9. TailInv /\ TailAnswers /\ PredictInv
  BY <1>3, ScenariosAssumption DEF TailInv, TailAnswers, PredictInv
<1> QED
  BY <1>1, <1>2, <1>4, <1>5, <1>6, <1>7, <1>8, <1>9 DEF McpInductive
-----------------------------------------------------------------------------
\* The order tool keeps its invariant among the calls of the other tools.
LEMMA CreateStep ==
  ASSUME CreateInductive, AccessInv, McpNext
  PROVE  CreateInductive'
<1>1. CASE LogLine \/ CreateAppAgain \/ Tick \/ \E s \in Sessions : OpenSession(s)
  BY <1>1, StutterCreate DEF LogLine, CreateAppAgain, Tick, OpenSession
<1>2. CASE RestDeletesOrder
  BY <1>2, DeleteCreate DEF RestDeletesOrder
<1>3. ASSUME NEW c \in Calls, Arrive(c)
      PROVE  CreateInductive'
  <2>1. pc[c] = "idle" /\ UNCHANGED orderTool
    BY <1>3 DEF Arrive, AccessInv, Allowed
  <2>2. pc' = pc \/ pc' = [pc EXCEPT ![c] = "failed"]
    BY <1>3 DEF Arrive
  <2> QED
    BY <2>1, <2>2, OtherCreate DEF orderTool, store, cache, Open
<1>4. ASSUME NEW c \in Calls, CreateOrder(c)
      PROVE  CreateInductive'
  BY <1>4, CallCreate DEF CreateOrder
<1>5. ASSUME NEW c \in Calls, CreateOrderStep(c)
      PROVE  CreateInductive'
  BY <1>5, InsertCreate, CommitCreate, RememberCreate, AbortCreate DEF CreateOrderStep
<1>6. ASSUME NEW c \in Calls, ToolStep(c)
      PROVE  CreateInductive'
  <2>1. PICK step : /\ pc' = [pc EXCEPT ![c] = step]
                    /\ Starts(c, step) \/ Continues(c, step) \/ IsRefused(c, step)
    BY <1>6, ToolFrame
  <2>2. pc[c] \notin Open /\ step \notin Open \cup {"idle"}
    BY <2>1 DEF Starts, Continues, IsRefused, Open, Reading
  <2> QED
    BY <1>6, <2>1, <2>2, ToolFrame, OtherCreate DEF orderTool, store, cache
<1> QED
  BY <1>1, <1>2, <1>3, <1>4, <1>5, <1>6 DEF McpNext, ToolStep

\* The program counter of another call does not change; a call of create_order
\* goes through its own statements.
LEMMA CreateFrame ==
  ASSUME CreateInductive, NEW c \in Calls,
         \/ \E k \in Keys \cup {None}, cust \in Customers : Call(c, k, cust)
         \/ CreateOrderStep(c)
  PROVE  /\ \A d \in Calls \ {c} : pc'[d] = pc[d]
         /\ pc[c] \in Open \cup {"idle"}
         /\ pc'[c] \in Open \cup {"done", "failed"}
<1>1. pc = [d \in Calls |-> pc[d]]
  BY DEF CreateInductive, CreateTypeOK
<1>2. \E step \in Open \cup {"done", "failed"} : pc' = [pc EXCEPT ![c] = step]
  BY DEF CreateOrderStep, Call, InsertOrder, CommitOrder, Remember, Abort, Goto, Open
<1>3. pc[c] \in Open \cup {"idle"}
  BY DEF CreateOrderStep, Call, InsertOrder, CommitOrder, Remember, Abort, Open
<1> QED
  BY <1>1, <1>2, <1>3

\* What a call has from its arrival on, and that sessions stay as they were
\* opened.
Signed(d) == UNCHANGED <<tool[d], headers[d], session[d], user[d]>>
OpenersStay ==
  /\ UNCHANGED scenario
  /\ \A s \in Sessions : opener[s] # None => opener'[s] = opener[s]

\* A call keeps its session, and who it may act for.
LEMMA InSessionStays ==
  ASSUME NEW c \in Calls, InSession(c), Signed(c), OpenersStay
  PROVE  InSession(c)'
<1>1. opener'[session'[c]] = opener[session[c]]
  BY DEF InSession, Signed, OpenersStay
<1>2. /\ headers'[c] = headers[c] /\ session'[c] = session[c] /\ user'[c] = user[c]
      /\ scenario' = scenario
  BY DEF Signed, OpenersStay
<1>3. Callers(c)' = Callers(c)
  BY <1>1, <1>2 DEF Callers
<1> QED
  BY <1>1, <1>2, <1>3 DEF InSession

\* What a call arrives with: its tool, its headers and, let in, its session and
\* somebody to act for.
LEMMA ArriveFrame ==
  ASSUME CreateInductive, McpTypeOK, AccessInv, NEW c \in Calls, Arrive(c)
  PROVE  /\ pc[c] = "idle" /\ tool[c] = None /\ tool'[c] \in Tools
         /\ pc'[c] \in {"idle", "failed"}
         /\ pc'[c] = "idle" => InSession(c)' /\ user'[c] # None
         /\ user'[c] \in Senders \cup {None} /\ session'[c] \in Sessions \cup {None}
         /\ UNCHANGED <<scenario, opener>>
         /\ \A d \in Calls \ {c} : pc'[d] = pc[d] /\ Signed(d)
         /\ DOMAIN headers' = Calls /\ DOMAIN tool' = Calls
         /\ DOMAIN user' = Calls /\ DOMAIN session' = Calls
<1>p. pc = [d \in Calls |-> pc[d]]
  BY DEF CreateInductive, CreateTypeOK
<1>t. /\ tool \in [Calls -> Tools \cup {None}] /\ DOMAIN headers = Calls
      /\ user \in [Calls -> Senders \cup {None}] /\ scenario \in Scenarios
      /\ session \in [Calls -> Sessions \cup {None}]
  BY DEF McpTypeOK
<1>3. /\ tool[c] = None /\ pc[c] = "idle" /\ UNCHANGED <<scenario, opener>>
      /\ SessionsInv
  BY DEF Arrive, AccessInv, Allowed
<1>4. /\ tool'[c] \in Tools /\ DOMAIN tool' = Calls
      /\ \A d \in Calls \ {c} : tool'[d] = tool[d]
  <2> DEFINE arrived == Cardinality({d \in Calls : tool[d] # None})
  <2>1. /\ arrived < Len(scenario.tools)
        /\ tool' = [tool EXCEPT ![c] = scenario.tools[arrived + 1]]
    BY DEF Arrive
  <2>2. IsFiniteSet({d \in Calls : tool[d] # None})
    BY FS_Subset, McpAssumption
  <2>3. arrived \in Nat
    BY <2>2, FS_CardinalityType
  <2>4. scenario.tools \in Seq(Tools)
    BY <1>t, ScenariosAssumption
  <2> HIDE DEF arrived
  <2>5. arrived + 1 \in 1 .. Len(scenario.tools)
    BY <2>1, <2>3, <2>4
  <2>6. scenario.tools[arrived + 1] \in Tools
    BY <2>4, <2>5
  <2> QED
    BY <1>t, <2>1, <2>6
<1> DEFINE Frame == /\ pc'[c] \in {"idle", "failed"}
                    /\ pc'[c] = "idle" => InSession(c)' /\ user'[c] # None
                    /\ user'[c] \in Senders \cup {None}
                    /\ session'[c] \in Sessions \cup {None}
                    /\ \A d \in Calls \ {c} : /\ pc'[d] = pc[d] /\ headers'[d] = headers[d]
                                              /\ session'[d] = session[d]
                                              /\ user'[d] = user[d]
                    /\ DOMAIN headers' = Calls /\ DOMAIN user' = Calls
                    /\ DOMAIN session' = Calls
<1>5. PICK h \in scenario.headers :
        /\ headers' = [headers EXCEPT ![c] = h]
        /\ \/ /\ ~LetIn(h) /\ pc' = [pc EXCEPT ![c] = "failed"]
              /\ UNCHANGED <<session, user>>
           \/ /\ LetIn(h) /\ UNCHANGED pc
              /\ \E s \in {t \in Sessions : opener[t] # None} :
                   /\ session' = [session EXCEPT ![c] = s]
                   /\ \E u \in {Sender(h), Sender(opener[s])} : user' = SetCurrentUser(c, u)
  BY DEF Arrive
<1>6. ASSUME ~LetIn(h), pc' = [pc EXCEPT ![c] = "failed"], UNCHANGED <<session, user>>
      PROVE  Frame
  BY <1>p, <1>t, <1>5, <1>6
<1>7. ASSUME LetIn(h), UNCHANGED pc, NEW s \in Sessions, opener[s] # None,
             NEW u \in {Sender(h), Sender(opener[s])},
             session' = [session EXCEPT ![c] = s], user' = SetCurrentUser(c, u)
      PROVE  Frame
  <2>1. user' = [user EXCEPT ![c] = u]
    BY <1>7 DEF SetCurrentUser
  <2>2. /\ opener[s] \in scenario.headers /\ LetIn(opener[s])
        /\ Sender(h) # None /\ Sender(opener[s]) # None
    BY <1>3, <1>7 DEF SessionsInv, LetIn
  <2>3. u \in Senders /\ u # None
    BY <1>7, <2>2 DEF Senders
  <2>4. headers'[c] = h /\ session'[c] = s /\ user'[c] = u /\ pc'[c] = "idle"
    BY <1>t, <1>3, <1>5, <1>7, <2>1
  <2>5. opener'[s] = opener[s] /\ scenario' = scenario
    BY <1>3
  <2>6. u \in Callers(c)'
    BY <1>7, <2>4, <2>5 DEF Callers
  <2>7. InSession(c)'
    BY <1>5, <1>7, <2>4, <2>5, <2>6 DEF InSession
  <2> QED
    BY <1>t, <1>5, <1>7, <2>1, <2>3, <2>4, <2>7
<1> HIDE DEF Frame
<1>8. Frame
  BY <1>5, <1>6, <1>7
<1> QED
  BY <1>3, <1>4, <1>8 DEF Frame, Signed

\* The steps of no call: a line of other code, a second app, the clock, a
\* session, and DELETE over REST.
QuietStep ==
  \/ LogLine \/ CreateAppAgain \/ Tick \/ RestDeletesOrder
  \/ \E s \in Sessions : OpenSession(s)

LEMMA QuietFrame ==
  ASSUME QuietStep
  PROVE  /\ UNCHANGED <<calls, cache, known, issued, scenario, tool, headers, session, user,
                        ask, answer, metrics, before>>
BY DEF QuietStep, LogLine, CreateAppAgain, Tick, OpenSession, RestDeletesOrder, DeleteOrder,
       vars, store, calls, cache, callers

\* Who opened a session stays, and was let in.
LEMMA SessionsStep ==
  ASSUME McpTypeOK, SessionsInv, McpNext
  PROVE  OpenersStay /\ SessionsInv' /\ DOMAIN opener' = Sessions
<1>t. DOMAIN opener = Sessions
  BY DEF McpTypeOK
<1>1. ASSUME NEW s \in Sessions, OpenSession(s)
      PROVE  OpenersStay /\ SessionsInv' /\ DOMAIN opener' = Sessions
  <2>1. PICK h \in scenario.headers : LetIn(h) /\ opener' = [opener EXCEPT ![s] = h]
    BY <1>1 DEF OpenSession
  <2>2. opener[s] = None /\ scenario' = scenario
    BY <1>1 DEF OpenSession
  <2> QED
    BY <1>t, <2>1, <2>2 DEF OpenersStay, SessionsInv
<1>2. ASSUME UNCHANGED <<scenario, opener>>
      PROVE  OpenersStay /\ SessionsInv' /\ DOMAIN opener' = Sessions
  BY <1>t, <1>2 DEF OpenersStay, SessionsInv
<1>3. ASSUME LogLine \/ CreateAppAgain \/ Tick \/ RestDeletesOrder
      PROVE  UNCHANGED <<scenario, opener>>
  BY <1>3 DEF LogLine, CreateAppAgain, Tick, RestDeletesOrder, callers
<1>4. ASSUME NEW c \in Calls, Arrive(c) \/ CreateOrder(c) \/ CreateOrderStep(c)
      PROVE  UNCHANGED <<scenario, opener>>
  BY <1>4 DEF Arrive, CreateOrder, CreateOrderStep, callers, mcp
<1>5. ASSUME NEW c \in Calls, ToolStep(c)
      PROVE  UNCHANGED <<scenario, opener>>
  BY <1>5, ToolFrame DEF callers
<1> QED
  BY <1>1, <1>2, <1>3, <1>4, <1>5 DEF McpNext, ToolStep

\* Every step keeps the calls within what they are allowed.
LEMMA AccessStep ==
  ASSUME CreateInductive, McpTypeOK, AccessInv, McpNext
  PROVE  AccessInv'
<1>p. pc = [d \in Calls |-> pc[d]] /\ DOMAIN ask = Calls /\ DOMAIN answer = Calls
  BY DEF CreateInductive, CreateTypeOK, McpTypeOK
<1>t. None \notin Tools
  BY ScenariosAssumption
<1>s. OpenersStay /\ SessionsInv'
  BY SessionsStep DEF AccessInv
<1>a. \A c \in Calls : Allowed(c)
  BY DEF AccessInv
<1>d. ASSUME NEW d \in Calls, Signed(d), UNCHANGED <<pc[d], ask[d], answer[d]>>
      PROVE  Allowed(d)'
  <2>1. InSession(d) => InSession(d)'
    BY <1>s, <1>d, InSessionStays
  <2>2. /\ tool'[d] = tool[d] /\ pc'[d] = pc[d] /\ ask'[d] = ask[d]
        /\ answer'[d] = answer[d] /\ user'[d] = user[d]
    BY <1>d DEF Signed
  <2> QED
    BY <1>a, <2>1, <2>2 DEF Allowed
<1>1. CASE QuietStep
  <2>1. \A d \in Calls : Signed(d) /\ UNCHANGED <<pc[d], ask[d], answer[d]>>
    BY <1>1, QuietFrame DEF calls, Signed
  <2> QED
    BY <1>s, <1>d, <2>1 DEF AccessInv
<1>2. ASSUME NEW c \in Calls, Arrive(c)
      PROVE  AccessInv'
  <2>1. UNCHANGED <<ask, answer>>
    BY <1>2 DEF Arrive
  <2>2. Allowed(c)'
    <3>1. /\ pc[c] = "idle" /\ pc'[c] \in {"idle", "failed"} /\ tool'[c] # None
          /\ (pc'[c] = "idle" => InSession(c)')
      BY <1>2, <1>t, ArriveFrame
    <3>2. pc[c] = "idle" => ask[c] = None /\ answer[c] = None
      BY <1>a DEF Allowed
    <3> QED
      BY <2>1, <3>1, <3>2 DEF Allowed, Open, Reading
  <2>3. ASSUME NEW d \in Calls \ {c} PROVE Allowed(d)'
    BY <1>2, <1>d, <2>1, ArriveFrame
  <2> QED
    BY <1>s, <2>2, <2>3 DEF AccessInv
<1>3. ASSUME NEW c \in Calls, CreateOrder(c) \/ CreateOrderStep(c)
      PROVE  AccessInv'
  <2>1. UNCHANGED <<tool, user, ask, answer>> /\ \A d \in Calls : Signed(d)
    BY <1>3 DEF CreateOrder, CreateOrderStep, mcp, callers, Signed
  <2>2. /\ pc[c] \in Open \cup {"idle"} /\ pc'[c] \in Open \cup {"done", "failed"}
        /\ \A d \in Calls \ {c} : pc'[d] = pc[d]
    BY <1>3, CreateFrame DEF CreateOrder
  <2>3. tool[c] = "create_order"
    BY <1>3, <2>2 DEF CreateOrder, Ready, AccessInv, Allowed, CreateOrderStep, InsertOrder,
          CommitOrder, Remember, Abort, Open
  <2>4. Allowed(c)'
    <3>1. InSession(c)'
      BY <1>a, <1>s, <1>t, <2>1, <2>2, <2>3, InSessionStays
         DEF Allowed, Open, Tools, DomainTools
    <3> QED
      BY <1>t, <2>1, <2>2, <2>3, <3>1 DEF Allowed, Open, Reading, AdminTools, Tools, DomainTools
  <2>5. ASSUME NEW d \in Calls \ {c} PROVE Allowed(d)'
    BY <1>d, <2>1, <2>2
  <2> QED
    BY <1>s, <2>4, <2>5 DEF AccessInv
<1>4. ASSUME NEW c \in Calls, ToolStep(c)
      PROVE  AccessInv'
  <2>1. PICK step : /\ pc' = [pc EXCEPT ![c] = step]
                    /\ Starts(c, step) \/ Continues(c, step) \/ IsRefused(c, step)
    BY <1>4, ToolFrame
  <2>2. UNCHANGED <<tool, user>> /\ \A d \in Calls : Signed(d)
    BY <1>4, ToolFrame DEF callers, Signed
  <2>3. \A d \in Calls \ {c} : pc'[d] = pc[d] /\ ask'[d] = ask[d] /\ answer'[d] = answer[d]
    BY <1>p, <2>1 DEF Starts, Continues, IsRefused
  <2>4. ASSUME NEW d \in Calls \ {c} PROVE Allowed(d)'
    BY <1>d, <2>2, <2>3
  <2>5. pc'[c] = step
    BY <1>p, <2>1
  <2>i. tool[c] # None /\ pc[c] # "failed" => InSession(c)'
    BY <1>a, <1>s, <2>2, InSessionStays DEF Allowed
  <2>6. Allowed(c)'
    <3>1. CASE Starts(c, step)
      BY <1>a, <1>t, <2>2, <2>5, <2>i, <3>1 DEF Starts, Allowed, Open, Reading, HealthTools
    <3>2. CASE Continues(c, step)
      BY <1>a, <1>t, <2>2, <2>5, <2>i, <3>2 DEF Continues, Allowed, Open, Reading
    <3>3. CASE IsRefused(c, step)
      BY <1>a, <1>t, <2>2, <2>5, <2>i, <3>3 DEF IsRefused, Allowed, Open, Reading, Tools
    <3> QED
      BY <2>1, <3>1, <3>2, <3>3
  <2> QED
    BY <1>s, <2>4, <2>6 DEF AccessInv
<1> QED
  BY <1>1, <1>2, <1>3, <1>4 DEF McpNext, QuietStep, ToolStep
-----------------------------------------------------------------------------
\* A record that is emitted makes the log longer and leaves the buffer its end,
\* as far as the handler hears it.
LEMMA EmitStep ==
  ASSUME McpTypeOK, RingInv, NEW record \in Records, Emit(record), UNCHANGED scenario
  PROVE  /\ logged' \in Seq(Records') /\ ring' \in Seq(Records')
         /\ RingInv'
<1>1. Records' = Records
  BY DEF Records, Senders
<1>2. /\ logged \in Seq(Records) /\ ring \in Seq(Records) /\ Len(ring) <= Capacity
      /\ Capacity \in Nat \ {0} /\ Len(ring) \in Nat /\ Len(logged) \in Nat
      /\ heard \in 0 .. Len(logged) /\ UNCHANGED attached
  BY Sizes DEF McpTypeOK, RingInv, Emit
<1>3. /\ logged' \in Seq(Records) /\ Len(logged') = Len(logged) + 1
      /\ logged'[Len(logged) + 1] = record
      /\ \A i \in 1 .. Len(logged) : logged'[i] = logged[i]
  BY <1>2 DEF Emit
<1>4. CASE ~attached
  <2>1. UNCHANGED <<ring, heard>>
    BY <1>4 DEF Emit
  <2>2. /\ Len(ring) = Smaller(heard, Capacity)
        /\ \A i \in 1 .. Len(ring) : ring[i] = logged[heard - Len(ring) + i]
    BY DEF RingInv
  <2>3. \A i \in 1 .. Len(ring) : heard - Len(ring) + i \in 1 .. Len(logged)
    BY <1>2, <2>2 DEF Smaller
  <2>4. \A i \in 1 .. Len(ring) : ring[i] = logged'[heard - Len(ring) + i]
    BY <1>3, <2>2, <2>3
  <2>5. heard' \in 0 .. Len(logged')
    BY <1>2, <1>3, <2>1
  <2> QED
    BY <1>1, <1>2, <1>3, <1>4, <2>1, <2>2, <2>4, <2>5 DEF RingInv, Smaller
<1>h. ASSUME attached
      PROVE  /\ heard = Len(logged) /\ heard' = Len(logged')
             /\ ring' = Appended(ring, record)
  BY <1>2, <1>3, <1>h DEF Emit, RingInv
<1>5. CASE attached /\ Len(ring) < Capacity
  <2>1. /\ ring' \in Seq(Records) /\ Len(ring') = Len(ring) + 1
        /\ ring'[Len(ring) + 1] = record
        /\ \A i \in 1 .. Len(ring) : ring'[i] = ring[i]
    BY <1>2, <1>5, <1>h DEF Appended
  <2>2. /\ Len(logged) = Len(ring)
        /\ \A i \in 1 .. Len(ring) : ring[i] = logged[i]
    BY <1>2, <1>5, <1>h DEF RingInv, Smaller
  <2>3. \A i \in 1 .. Len(ring') : ring'[i] = logged'[heard' - Len(ring') + i]
    BY <1>2, <1>3, <1>5, <1>h, <2>1, <2>2
  <2>4. Len(ring') = Smaller(heard', Capacity)
    BY <1>2, <1>3, <1>5, <1>h, <2>1, <2>2 DEF Smaller
  <2> QED
    BY <1>1, <1>2, <1>3, <1>5, <1>h, <2>1, <2>3, <2>4 DEF RingInv
<1>6. CASE attached /\ Len(ring) = Capacity
  <2>1. /\ ring' = Append(Tail(ring), record) /\ ring # <<>>
    BY <1>2, <1>6, <1>h DEF Appended
  <2>2. /\ Tail(ring) \in Seq(Records) /\ Len(Tail(ring)) = Capacity - 1
        /\ \A i \in 1 .. Capacity - 1 : Tail(ring)[i] = ring[i + 1]
    BY <1>2, <1>6, <2>1
  <2>3. /\ ring' \in Seq(Records) /\ Len(ring') = Capacity /\ ring'[Capacity] = record
        /\ \A i \in 1 .. Capacity - 1 : ring'[i] = ring[i + 1]
    BY <1>2, <2>1, <2>2
  <2>4. /\ Len(logged) >= Capacity
        /\ \A i \in 1 .. Capacity : ring[i] = logged[Len(logged) - Capacity + i]
    <3>1. /\ Len(ring) = Smaller(heard, Capacity)
          /\ \A i \in 1 .. Len(ring) : ring[i] = logged[heard - Len(ring) + i]
      BY DEF RingInv
    <3>2. Smaller(Len(logged), Capacity) = Capacity
      BY <1>6, <1>h, <3>1
    <3>3. Len(logged) >= Capacity
      BY <1>2, <3>2 DEF Smaller
    <3> QED
      BY <1>6, <1>h, <3>1, <3>3
  <2>5. ASSUME NEW i \in 1 .. Capacity - 1
        PROVE  ring'[i] = logged'[Len(logged') - Capacity + i]
    <3>1. ring'[i] = ring[i + 1] /\ i + 1 \in 1 .. Capacity
      BY <1>2, <2>3
    <3>2. ring[i + 1] = logged[Len(logged) - Capacity + (i + 1)]
      BY <2>4, <3>1
    <3>3. /\ Len(logged) - Capacity + (i + 1) = Len(logged') - Capacity + i
          /\ Len(logged) - Capacity + (i + 1) \in 1 .. Len(logged)
      BY <1>2, <1>3, <2>4
    <3> QED
      BY <1>3, <3>1, <3>2, <3>3
  <2>6. ring'[Capacity] = logged'[Len(logged') - Capacity + Capacity]
    BY <1>2, <1>3, <2>3
  <2>7. \A i \in 1 .. Len(ring') : ring'[i] = logged'[heard' - Len(ring') + i]
    BY <1>2, <1>6, <1>h, <2>3, <2>5, <2>6
  <2>8. Len(ring') = Smaller(heard', Capacity)
    BY <1>2, <1>3, <1>6, <1>h, <2>3, <2>4 DEF Smaller
  <2> QED
    BY <1>1, <1>2, <1>3, <1>6, <1>h, <2>3, <2>7, <2>8 DEF RingInv
<1> QED
  BY <1>2, <1>4, <1>5, <1>6

\* A record names nobody, or the user of a call that was let in.
Named(record) ==
  record.call # None =>
    /\ record.call \in Calls /\ tool[record.call] # None /\ InSession(record.call)
    /\ record.user = user[record.call]

\* Calls that have arrived are what they were.
Arrived == \A d \in Calls : tool[d] # None => Signed(d)

\* A step logs nothing, or one record of its own call.
LEMMA LogCases ==
  ASSUME CreateInductive, McpTypeOK, AccessInv, McpNext
  PROVE  /\ UNCHANGED scenario /\ Arrived
         /\ \/ UNCHANGED <<logged, ring, heard>> /\ (attached' => attached)
            \/ \E record \in Records : Emit(record) /\ Named(record)
<1> DEFINE Silent == /\ UNCHANGED scenario /\ Arrived
                     /\ UNCHANGED <<logged, ring, heard>> /\ (attached' => attached)
           Speaks == /\ UNCHANGED scenario /\ Arrived
                     /\ \E record \in Records : Emit(record) /\ Named(record)
<1>a. ASSUME UNCHANGED <<tool, headers, session, user>> PROVE Arrived
  BY <1>a DEF Arrived, Signed
<1>1. ASSUME LogLine PROVE Speaks
  <2>1. PICK level \in Levels : Emit([level |-> level, call |-> None, user |-> None])
    BY <1>1 DEF LogLine
  <2>2. [level |-> level, call |-> None, user |-> None] \in Records
    BY DEF Records
  <2>3. Named([level |-> level, call |-> None, user |-> None])
    BY DEF Named
  <2>4. UNCHANGED scenario /\ Arrived
    BY <1>1, <1>a DEF LogLine, callers
  <2> QED
    BY <2>1, <2>2, <2>3, <2>4
<1>2. ASSUME CreateAppAgain \/ Tick \/ RestDeletesOrder \/ \E s \in Sessions : OpenSession(s)
      PROVE  Silent
  <2>1. UNCHANGED <<scenario, tool, headers, session, user, logged, ring, heard>>
    BY <1>2 DEF CreateAppAgain, Tick, RestDeletesOrder, OpenSession, callers, logs
  <2>2. attached' => attached
    BY <1>2 DEF CreateAppAgain, Tick, RestDeletesOrder, OpenSession, logs
  <2> QED
    BY <1>a, <2>1, <2>2
<1>3. ASSUME NEW c \in Calls, Arrive(c)
      PROVE  Silent
  <2>1. UNCHANGED <<logged, ring, heard, scenario, attached>>
    BY <1>3 DEF Arrive, logs
  <2>2. Arrived
    BY <1>3, ArriveFrame DEF Arrived
  <2> QED
    BY <2>1, <2>2
<1>4. ASSUME NEW c \in Calls, Audit(c), pc[c] = "idle", tool[c] \in Tools,
             UNCHANGED <<scenario, callers>>
      PROVE  Speaks
  <2>1. tool[c] # None
    BY <1>4, ScenariosAssumption
  <2>2. user[c] \in Senders
    BY <1>4, <2>1 DEF McpTypeOK
  <2>3. InSession(c)
    BY <1>4, <2>1 DEF AccessInv, Allowed
  <2> DEFINE record == [level |-> "INFO", call |-> c, user |-> user[c]]
  <2>4. record \in Records /\ Named(record)
    BY <2>1, <2>2, <2>3 DEF Records, Levels, Named
  <2>5. UNCHANGED scenario /\ Arrived
    BY <1>4, <1>a DEF callers
  <2> QED
    BY <1>4, <2>4, <2>5 DEF Audit
<1>5. ASSUME NEW c \in Calls, CreateOrder(c)
      PROVE  Speaks
  BY <1>4, <1>5 DEF CreateOrder, Ready, Call, Tools, DomainTools
<1>6. ASSUME NEW c \in Calls, CreateOrderStep(c)
      PROVE  Silent
  BY <1>6, <1>a DEF CreateOrderStep, mcp, callers, logs
<1>7. ASSUME NEW c \in Calls, ToolStep(c)
      PROVE  Silent \/ Speaks
  <2>1. UNCHANGED <<scenario, callers>>
    BY <1>7, ToolFrame
  <2>2. PICK step : Starts(c, step) \/ Continues(c, step) \/ IsRefused(c, step)
    BY <1>7, ToolFrame
  <2>3. CASE Starts(c, step)
    BY <1>4, <2>1, <2>3 DEF Starts
  <2>4. CASE Continues(c, step) \/ IsRefused(c, step)
    BY <1>a, <2>1, <2>4 DEF Continues, IsRefused, callers, logs
  <2> QED
    BY <2>2, <2>3, <2>4
<1> HIDE DEF Silent, Speaks
<1>8. Silent \/ Speaks
  BY <1>1, <1>2, <1>3, <1>5, <1>6, <1>7 DEF McpNext, ToolStep
<1> QED
  BY <1>8 DEF Silent, Speaks

\* Every step keeps the log: typed, the buffer its end, the names the users'.
LEMMA LogStep ==
  ASSUME CreateInductive, McpTypeOK, AccessInv, AuditInv, RingInv, McpNext
  PROVE  /\ logged' \in Seq(Records') /\ ring' \in Seq(Records')
         /\ RingInv' /\ AuditInv'
<1>t. /\ logged \in Seq(Records) /\ ring \in Seq(Records)
      /\ \A i \in DOMAIN logged : logged[i].call \in Calls \cup {None}
  <2>1. logged \in Seq(Records) /\ ring \in Seq(Records)
    BY DEF McpTypeOK
  <2>2. \A i \in DOMAIN logged : logged[i] \in Records
    BY <2>1
  <2>3. \A record \in Records : record.call \in Calls \cup {None}
    BY DEF Records
  <2> QED
    BY <2>1, <2>2, <2>3
<1>s. OpenersStay /\ UNCHANGED scenario /\ Arrived
  BY SessionsStep, LogCases DEF AccessInv
<1>n. ASSUME NEW record, Named(record), record.call # None
      PROVE  LET c == record.call IN
               tool'[c] # None /\ InSession(c)' /\ record.user = user'[c]
  <2>1. /\ record.call \in Calls /\ tool[record.call] # None /\ InSession(record.call)
        /\ record.user = user[record.call]
    BY <1>n DEF Named
  <2>2. Signed(record.call)
    BY <1>s, <2>1 DEF Arrived
  <2>3. \A c \in Calls : InSession(c) /\ Signed(c) => InSession(c)'
    BY <1>s, InSessionStays
  <2> QED
    BY <2>1, <2>2, <2>3 DEF Signed
<1>o. \A i \in DOMAIN logged : Named(logged[i])
  BY <1>t DEF AuditInv, Named
<1>1. CASE UNCHANGED <<logged, ring, heard>> /\ (attached' => attached)
  <2>1. Records' = Records
    BY <1>s DEF Records, Senders
  <2>2. RingInv'
    BY <1>1 DEF RingInv
  <2>3. AuditInv'
    BY <1>1, <1>n, <1>o DEF AuditInv
  <2> QED
    BY <1>1, <1>t, <2>1, <2>2, <2>3
<1>2. ASSUME NEW record \in Records, Emit(record), Named(record)
      PROVE  /\ logged' \in Seq(Records') /\ ring' \in Seq(Records')
             /\ RingInv' /\ AuditInv'
  <2>1. /\ \A i \in DOMAIN logged : logged'[i] = logged[i]
        /\ DOMAIN logged' = DOMAIN logged \cup {Len(logged) + 1}
        /\ logged'[Len(logged) + 1] = record
    BY <1>2, <1>t DEF Emit
  <2>2. \A i \in DOMAIN logged' : Named(logged'[i])
    BY <1>2, <1>o, <2>1
  <2>3. AuditInv'
    BY <1>n, <2>2 DEF AuditInv
  <2> QED
    BY <1>2, <1>s, <2>3, EmitStep
<1> QED
  BY <1>1, <1>2, LogCases
-----------------------------------------------------------------------------
\* A step of a call, and what it leaves of the others.
CallStep(c) == Arrive(c) \/ CreateOrder(c) \/ CreateOrderStep(c) \/ ToolStep(c)
Same(d) == UNCHANGED <<pc[d], tool[d], ask[d], answer[d], before[d]>>

LEMMA CallFrame ==
  ASSUME CreateInductive, McpTypeOK, AccessInv, NEW c \in Calls, CallStep(c)
  PROVE  /\ pc[c] # "done"
         /\ \A d \in Calls \ {c} : Same(d)
         /\ UNCHANGED clock
<1>t. /\ pc = [d \in Calls |-> pc[d]]
      /\ DOMAIN ask = Calls /\ DOMAIN answer = Calls /\ DOMAIN before = Calls
  BY DEF CreateInductive, CreateTypeOK, McpTypeOK
<1>1. CASE Arrive(c)
  <2>1. /\ UNCHANGED <<ask, answer, clock>>
        /\ before' = before \/ \E b : before' = [before EXCEPT ![c] = b]
    BY <1>1 DEF Arrive
  <2>2. \A d \in Calls \ {c} : before'[d] = before[d]
    BY <1>t, <2>1
  <2> QED
    BY <1>1, <2>1, <2>2, ArriveFrame DEF Same, Signed
<1>2. CASE CreateOrder(c) \/ CreateOrderStep(c)
  <2>1. UNCHANGED <<tool, ask, answer, before, clock>>
    BY <1>2 DEF CreateOrder, CreateOrderStep, mcp, callers
  <2>2. pc[c] \in Open \cup {"idle"} /\ \A d \in Calls \ {c} : pc'[d] = pc[d]
    BY <1>2, CreateFrame DEF CreateOrder
  <2> QED
    BY <2>1, <2>2 DEF Same, Open
<1>3. CASE ToolStep(c)
  <2>1. PICK step : /\ pc' = [pc EXCEPT ![c] = step]
                    /\ Starts(c, step) \/ Continues(c, step) \/ IsRefused(c, step)
    BY <1>3, ToolFrame
  <2>2. UNCHANGED <<tool, before, clock>>
    BY <1>3, ToolFrame DEF callers
  <2>3. \A d \in Calls \ {c} : pc'[d] = pc[d] /\ ask'[d] = ask[d] /\ answer'[d] = answer[d]
    BY <1>t, <2>1 DEF Starts, Continues, IsRefused
  <2>4. pc[c] # "done"
    BY <2>1 DEF Starts, Continues, IsRefused, Reading
  <2> QED
    BY <2>2, <2>3, <2>4 DEF Same
<1> QED
  BY <1>1, <1>2, <1>3 DEF CallStep

LEMMA NextCases == McpNext => QuietStep \/ \E c \in Calls : CallStep(c)
BY DEF McpNext, QuietStep, CallStep, ToolStep

\* A call of get_metrics that was answered, and the key it was answered under.
Metered(c) == tool[c] = "get_metrics" /\ pc[c] = "done"
AskedKey(c) == CacheKey(ask[c].name, ask[c].tags)

\* Only get_metrics itself touches the snapshots or adds a metrics answer.
LEMMA MetricsFrame ==
  ASSUME CreateInductive, McpTypeOK, AccessInv, McpNext, \A c \in Calls : ~GetMetrics(c)
  PROVE  /\ UNCHANGED metrics
         /\ clock \in Nat /\ clock' \in Nat /\ clock <= clock'
         /\ \A d \in Calls : Metered(d)' => /\ Metered(d)
                                            /\ UNCHANGED <<ask[d], answer[d]>>
<1>c. clock \in Nat
  BY ScenariosAssumption DEF McpTypeOK
<1>t. None \notin Tools
  BY ScenariosAssumption
<1>1. CASE QuietStep
  <2>1. UNCHANGED <<pc, tool, ask, answer, metrics>>
    BY <1>1, QuietFrame DEF calls
  <2>2. clock' \in Nat /\ clock <= clock'
    <3>1. CASE Tick
      BY <1>c, <3>1 DEF Tick
    <3>2. CASE ~Tick
      <4>1. UNCHANGED clock
        BY <1>1, <3>2 DEF QuietStep, LogLine, CreateAppAgain, OpenSession, RestDeletesOrder
      <4> QED
        BY <1>c, <4>1
    <3> QED
      BY <3>1, <3>2
  <2> QED
    BY <1>c, <2>1, <2>2 DEF Metered
<1>2. ASSUME NEW c \in Calls, CallStep(c)
      PROVE  UNCHANGED metrics /\ ~Metered(c)'
  <2>1. CASE Arrive(c)
    <3>1. pc'[c] # "done"
      BY <2>1, ArriveFrame
    <3> QED
      BY <2>1, <3>1 DEF Arrive, Metered
  <2>2. CASE CreateOrder(c) \/ CreateOrderStep(c)
    <3>1. UNCHANGED <<metrics, tool>>
      BY <2>2 DEF CreateOrder, CreateOrderStep, mcp, callers
    <3>2. tool[c] = "create_order"
      BY <2>2, CreateFrame DEF CreateOrder, CreateOrderStep, InsertOrder, CommitOrder,
            Remember, Abort, Ready, Open, AccessInv, Allowed
    <3> QED
      BY <3>1, <3>2 DEF Metered
  <2>3. CASE ToolStep(c)
    <3>1. PICK step : /\ pc' = [pc EXCEPT ![c] = step]
                      /\ Starts(c, step) \/ Continues(c, step) \/ IsRefused(c, step)
      BY <2>3, ToolFrame
    <3>2. UNCHANGED tool
      BY <2>3, ToolFrame DEF callers
    <3>3. CASE Starts(c, step)
      BY <3>2, <3>3 DEF Starts, Metered
    <3>4. CASE Continues(c, step)
      BY <3>2, <3>4 DEF Continues, Metered, AccessInv, Allowed
    <3>5. CASE IsRefused(c, step)
      BY <3>2, <3>5 DEF IsRefused, Metered, AdminTools
    <3> QED
      BY <3>1, <3>3, <3>4, <3>5
  <2> QED
    BY <1>2, <2>1, <2>2, <2>3 DEF CallStep
<1>3. ASSUME NEW c \in Calls, CallStep(c), NEW d \in Calls, Metered(d)'
      PROVE  Metered(d) /\ UNCHANGED <<ask[d], answer[d]>>
  BY <1>2, <1>3, CallFrame DEF Same, Metered
<1>4. ASSUME NEW c \in Calls, CallStep(c)
      PROVE  UNCHANGED clock
  BY <1>4, CallFrame
<1> QED
  BY <1>c, <1>1, <1>2, <1>3, <1>4, NextCases

\* TTLCache: the new snapshot is there, the others stayed or went, and there
\* are at most MaxSnapshots.
LEMMA StoredBound ==
  ASSUME McpTypeOK, NEW k \in DOMAIN metrics, NEW fresh, NEW m \in Stored(k, fresh)
  PROVE  /\ DOMAIN m = DOMAIN metrics /\ m[k] = fresh
         /\ \A j \in DOMAIN metrics : j # k => m[j] \in {metrics[j], None}
         /\ IsFiniteSet({j \in DOMAIN metrics : m[j] # None})
         /\ Cardinality({j \in DOMAIN metrics : m[j] # None}) <= MaxSnapshots
<1> DEFINE Kept == {j \in DOMAIN metrics : metrics[j] # None}
           others == {j \in DOMAIN metrics : j # k /\ Live(j)}
           left == {j \in DOMAIN metrics : m[j] # None}
<1>1. IsFiniteSet(Kept) /\ Cardinality(Kept) <= MaxSnapshots
  BY DEF McpTypeOK
<1>2. others \subseteq Kept
  BY DEF Live
<1>3. PICK s : /\ m = [j \in DOMAIN metrics |-> IF j = k THEN fresh
                                               ELSE IF j \in s THEN metrics[j] ELSE None]
               /\ \/ s = others /\ Cardinality(others) < MaxSnapshots
                  \/ /\ ~(Cardinality(others) < MaxSnapshots)
                     /\ \E j \in others : s = others \ {j}
  BY DEF Stored
<1>4. left \subseteq s \cup {k}
  BY <1>3
<1> HIDE DEF Kept, others, left
<1>5. /\ IsFiniteSet(others) /\ Cardinality(others) <= MaxSnapshots
      /\ Cardinality(others) \in Nat /\ MaxSnapshots \in Nat
  BY <1>1, <1>2, FS_Subset, FS_CardinalityType, Sizes
<1>6. IsFiniteSet(s) /\ Cardinality(s) \in Nat /\ Cardinality(s) < MaxSnapshots
  <2>1. CASE s = others
    BY <1>3, <1>5, <2>1
  <2>2. ASSUME NEW j \in others, s = others \ {j}
        PROVE  IsFiniteSet(s) /\ Cardinality(s) \in Nat /\ Cardinality(s) < MaxSnapshots
    <3>1. IsFiniteSet(s) /\ Cardinality(s) = Cardinality(others) - 1
      BY <1>5, <2>2, FS_RemoveElement
    <3> QED
      BY <1>5, <3>1, FS_CardinalityType
  <2> QED
    BY <1>3, <2>1, <2>2
<1>7. /\ IsFiniteSet(s \cup {k}) /\ Cardinality(s \cup {k}) <= MaxSnapshots
      /\ Cardinality(s \cup {k}) \in Nat
  <2>1. IsFiniteSet(s \cup {k}) /\ \/ Cardinality(s \cup {k}) = Cardinality(s)
                                   \/ Cardinality(s \cup {k}) = Cardinality(s) + 1
    BY <1>6, FS_AddElement
  <2> QED
    BY <1>5, <1>6, <2>1
<1>8. IsFiniteSet(left) /\ Cardinality(left) <= MaxSnapshots
  <2>1. /\ IsFiniteSet(left) /\ Cardinality(left) <= Cardinality(s \cup {k})
    BY <1>4, <1>7, FS_Subset
  <2>2. Cardinality(left) \in Nat
    BY <2>1, FS_CardinalityType
  <2> QED
    BY <1>5, <1>7, <2>1, <2>2
<1> QED
  BY <1>3, <1>8 DEF left

\* Nothing asked and an empty filter have the same key, and select the same.
LEMMA KeyOfQuery ==
  ASSUME NEW q \in Queries
  PROVE  /\ CacheKey(q[1], q[2]) \in (Families \cup {Blank}) \X (Labels \cup {Blank})
         /\ Collect(CacheKey(q[1], q[2])[1], CacheKey(q[1], q[2])[2]) = Collect(q[1], q[2])
<1>1. q[1] \in Families \cup {Blank, None} /\ q[2] \in Labels \cup {Blank, None}
  BY McpAssumption
<1>2. CacheKey(q[1], q[2])
        = <<IF q[1] = None THEN Blank ELSE q[1], IF q[2] = None THEN Blank ELSE q[2]>>
  BY DEF CacheKey
<1>3. CacheKey(q[1], q[2]) \in (Families \cup {Blank}) \X (Labels \cup {Blank})
  BY <1>1, <1>2
<1>4. /\ CacheKey(q[1], q[2])[1] = IF q[1] = None THEN Blank ELSE q[1]
      /\ CacheKey(q[1], q[2])[2] = IF q[2] = None THEN Blank ELSE q[2]
  BY <1>2
<1> QED
  BY <1>3, <1>4 DEF Collect

\* What get_metrics answers: the snapshot of its key, read now if there was no
\* live one.
LEMMA MetricsAnswer ==
  ASSUME McpTypeOK, MetricsInv, NEW c \in Calls, GetMetrics(c)
  PROVE  \E q \in Queries : \E k \in DOMAIN metrics :
           /\ k = CacheKey(q[1], q[2])
           /\ ask'[c] = [name |-> q[1], tags |-> q[2]]
           /\ answer'[c] = [asked |-> clock, is |-> metrics'[k]]
           /\ DOMAIN metrics' = DOMAIN metrics
           /\ IsFiniteSet({j \in DOMAIN metrics : metrics'[j] # None})
           /\ Cardinality({j \in DOMAIN metrics : metrics'[j] # None}) <= MaxSnapshots
           /\ \A j \in DOMAIN metrics : j # k => metrics'[j] \in {metrics[j], None}
           /\ metrics'[k].samples = Collect(q[1], q[2])
           /\ \/ metrics'[k] = metrics[k] /\ metrics[k] # None /\ clock < metrics[k].at + Ttl
              \/ metrics'[k].at = clock
<1>1. PICK q \in Queries :
        Begin(c, [name |-> q[1], tags |-> q[2]], "done") /\ ListSamples(c, q[1], q[2])
  BY DEF GetMetrics
<1> DEFINE k == CacheKey(q[1], q[2])
           fresh == [at |-> clock, samples |-> Collect(q[1], q[2])]
<1>2. /\ metrics' \in IF Live(k) THEN {metrics} ELSE Stored(k, fresh)
      /\ answer' = [answer EXCEPT ![c] = [asked |-> clock, is |-> metrics'[k]]]
      /\ ask' = [ask EXCEPT ![c] = [name |-> q[1], tags |-> q[2]]]
  BY <1>1 DEF ListSamples, Begin
<1>3. /\ DOMAIN ask = Calls /\ DOMAIN answer = Calls
      /\ DOMAIN metrics = (Families \cup {Blank}) \X (Labels \cup {Blank})
      /\ IsFiniteSet({j \in DOMAIN metrics : metrics[j] # None})
      /\ Cardinality({j \in DOMAIN metrics : metrics[j] # None}) <= MaxSnapshots
  BY DEF McpTypeOK
<1>4. /\ k \in DOMAIN metrics
      /\ Collect(k[1], k[2]) = Collect(q[1], q[2])
  BY <1>3, KeyOfQuery
<1>5. /\ answer'[c] = [asked |-> clock, is |-> metrics'[k]]
      /\ ask'[c] = [name |-> q[1], tags |-> q[2]]
  BY <1>2, <1>3
<1> HIDE DEF k, fresh
<1>6. CASE Live(k)
  <2>1. metrics' = metrics /\ metrics[k] # None /\ clock < metrics[k].at + Ttl
    BY <1>2, <1>6 DEF Live
  <2>2. metrics[k].samples = Collect(k[1], k[2])
    BY <1>4, <2>1 DEF MetricsInv
  <2> QED
    BY <1>3, <1>4, <1>5, <2>1, <2>2 DEF k
<1>7. CASE ~Live(k)
  <2>1. metrics' \in Stored(k, fresh)
    BY <1>2, <1>7
  <2>2. /\ DOMAIN metrics' = DOMAIN metrics /\ metrics'[k] = fresh
        /\ \A j \in DOMAIN metrics : j # k => metrics'[j] \in {metrics[j], None}
        /\ IsFiniteSet({j \in DOMAIN metrics : metrics'[j] # None})
        /\ Cardinality({j \in DOMAIN metrics : metrics'[j] # None}) <= MaxSnapshots
    <3>1. \E m : m = metrics'
      OBVIOUS
    <3>2. PICK m : m = metrics'
      BY <3>1
    <3>3. m \in Stored(k, fresh)
      BY <2>1, <3>2
    <3>4. /\ DOMAIN m = DOMAIN metrics /\ m[k] = fresh
          /\ \A j \in DOMAIN metrics : j # k => m[j] \in {metrics[j], None}
          /\ IsFiniteSet({j \in DOMAIN metrics : m[j] # None})
          /\ Cardinality({j \in DOMAIN metrics : m[j] # None}) <= MaxSnapshots
      BY <1>4, <3>3, StoredBound
    <3> QED
      BY <3>2, <3>4
  <2>3. metrics'[k].at = clock /\ metrics'[k].samples = Collect(q[1], q[2])
    BY <2>2 DEF fresh
  <2> QED
    BY <1>4, <1>5, <2>2, <2>3 DEF k
<1> QED
  BY <1>6, <1>7

\* The snapshots stay those of their keys and the newest of them, and the
\* answers stay fresh.
LEMMA MetricsStep ==
  ASSUME CreateInductive, McpTypeOK, AccessInv, MetricsInv, MetricsFresh, McpNext
  PROVE  /\ MetricsInv' /\ MetricsFresh'
         /\ DOMAIN metrics' = (Families \cup {Blank}) \X (Labels \cup {Blank})
         /\ IsFiniteSet({k \in DOMAIN metrics' : metrics'[k] # None})
         /\ Cardinality({k \in DOMAIN metrics' : metrics'[k] # None}) <= MaxSnapshots
<1>c. clock \in Nat /\ Ttl \in Nat \ {0}
  BY ScenariosAssumption, Sizes DEF McpTypeOK
<1>m. \A d \in Calls : Metered(d) =>
        /\ AskedKey(d) \in DOMAIN metrics
        /\ answer[d].asked \in 0 .. clock /\ answer[d].is.at \in 0 .. clock
        /\ metrics[AskedKey(d)] # None => answer[d].is.at <= metrics[AskedKey(d)].at
  BY DEF MetricsInv, Metered, AskedKey
<1>f. \A d \in Calls : Metered(d) =>
        /\ answer[d].is.samples = Collect(ask[d].name, ask[d].tags)
        /\ answer[d].is.at \in answer[d].asked - Ttl + 1 .. answer[d].asked
        /\ \A e \in Calls :
             /\ Metered(e) /\ ask[e] = ask[d] /\ answer[e].asked < answer[d].asked
             => answer[e].is.at <= answer[d].is.at
  BY DEF MetricsFresh, Metered
<1>1. CASE \A c \in Calls : ~GetMetrics(c)
  <2>1. /\ UNCHANGED metrics
        /\ clock' \in Nat /\ clock <= clock'
        /\ \A d \in Calls : Metered(d)' => Metered(d) /\ UNCHANGED <<ask[d], answer[d]>>
    BY <1>1, MetricsFrame
  <2>2. MetricsInv'
    <3>1. \A k \in DOMAIN metrics' : metrics'[k] # None =>
             metrics'[k].at \in 0 .. clock' /\ metrics'[k].samples = Collect(k[1], k[2])
      BY <1>c, <2>1 DEF MetricsInv
    <3>2. ASSUME NEW d \in Calls, Metered(d)'
          PROVE  /\ AskedKey(d)' \in DOMAIN metrics'
                 /\ answer'[d].asked \in 0 .. clock' /\ answer'[d].is.at \in 0 .. clock'
                 /\ metrics'[AskedKey(d)'] # None =>
                      answer'[d].is.at <= metrics'[AskedKey(d)'].at
      <4>1. AskedKey(d)' = AskedKey(d) /\ answer'[d] = answer[d] /\ Metered(d)
        BY <2>1, <3>2 DEF AskedKey, CacheKey
      <4> QED
        BY <1>c, <1>m, <2>1, <4>1
    <3> QED
      BY <3>1, <3>2 DEF MetricsInv, Metered, AskedKey, CacheKey, Collect
  <2>3. MetricsFresh'
    BY <1>f, <2>1 DEF MetricsFresh, Metered, Collect
  <2> QED
    BY <2>1, <2>2, <2>3 DEF McpTypeOK
<1>2. ASSUME NEW c \in Calls, GetMetrics(c)
      PROVE  /\ MetricsInv' /\ MetricsFresh'
             /\ DOMAIN metrics' = (Families \cup {Blank}) \X (Labels \cup {Blank})
             /\ IsFiniteSet({k \in DOMAIN metrics' : metrics'[k] # None})
             /\ Cardinality({k \in DOMAIN metrics' : metrics'[k] # None}) <= MaxSnapshots
  <2>1. PICK q \in Queries, k \in DOMAIN metrics :
           /\ k = CacheKey(q[1], q[2])
           /\ ask'[c] = [name |-> q[1], tags |-> q[2]]
           /\ answer'[c] = [asked |-> clock, is |-> metrics'[k]]
           /\ DOMAIN metrics' = DOMAIN metrics
           /\ IsFiniteSet({j \in DOMAIN metrics : metrics'[j] # None})
           /\ Cardinality({j \in DOMAIN metrics : metrics'[j] # None}) <= MaxSnapshots
           /\ \A j \in DOMAIN metrics : j # k => metrics'[j] \in {metrics[j], None}
           /\ metrics'[k].samples = Collect(q[1], q[2])
           /\ \/ metrics'[k] = metrics[k] /\ metrics[k] # None /\ clock < metrics[k].at + Ttl
              \/ metrics'[k].at = clock
    BY <1>2, MetricsAnswer
  <2>2. ToolStep(c) /\ CallStep(c)
    BY <1>2 DEF ToolStep, CallStep
  <2>3. /\ UNCHANGED clock
        /\ \A d \in Calls \ {c} : Metered(d)' => Metered(d) /\ UNCHANGED <<ask[d], answer[d]>>
    BY <2>2, CallFrame DEF Same, Metered
  <2>4. Collect(k[1], k[2]) = Collect(q[1], q[2])
    BY <2>1, KeyOfQuery
  <2>5. /\ \A j \in DOMAIN metrics : metrics[j] # None =>
             metrics[j].at \in 0 .. clock /\ metrics[j].samples = Collect(j[1], j[2])
    BY DEF MetricsInv
  <2>6. metrics'[k].at \in clock - Ttl + 1 .. clock /\ metrics'[k].at \in 0 .. clock
    BY <1>c, <2>1, <2>5
  <2>7. metrics[k] # None => metrics[k].at <= metrics'[k].at
    BY <1>c, <2>1, <2>5
  <2>8. AskedKey(c)' = k
    BY <2>1 DEF AskedKey, CacheKey
  <2>9. ASSUME NEW d \in Calls \ {c}, Metered(d)', AskedKey(d)' = k
        PROVE  answer'[d].is.at <= metrics'[k].at
    <3>1. AskedKey(d) = k /\ answer'[d] = answer[d] /\ Metered(d)
      BY <2>3, <2>9 DEF AskedKey, CacheKey
    <3>2. answer[d].is.at \in 0 .. clock
          /\ (metrics[k] # None => answer[d].is.at <= metrics[k].at)
      BY <1>m, <3>1
    <3>3. CASE metrics'[k].at = clock
      BY <1>c, <3>1, <3>2, <3>3
    <3>4. CASE metrics'[k] = metrics[k] /\ metrics[k] # None
      BY <3>1, <3>2, <3>4
    <3> QED
      BY <2>1, <3>3, <3>4
  <2>10. MetricsInv'
    <3>1. ASSUME NEW j \in DOMAIN metrics', metrics'[j] # None
          PROVE  metrics'[j].at \in 0 .. clock' /\ metrics'[j].samples = Collect(j[1], j[2])
      <4>1. CASE j = k
        BY <2>1, <2>3, <2>4, <2>6, <4>1
      <4>2. CASE j # k
        BY <2>1, <2>3, <2>5, <3>1, <4>2
      <4> QED
        BY <4>1, <4>2
    <3>2. ASSUME NEW d \in Calls, Metered(d)'
          PROVE  /\ AskedKey(d)' \in DOMAIN metrics'
                 /\ answer'[d].asked \in 0 .. clock' /\ answer'[d].is.at \in 0 .. clock'
                 /\ metrics'[AskedKey(d)'] # None =>
                      answer'[d].is.at <= metrics'[AskedKey(d)'].at
      <4>1. CASE d = c
        BY <1>c, <2>1, <2>3, <2>6, <2>8, <4>1
      <4>2. CASE d # c
        <5>1. AskedKey(d)' = AskedKey(d) /\ answer'[d] = answer[d] /\ Metered(d)
          BY <2>3, <3>2, <4>2 DEF AskedKey, CacheKey
        <5>2. CASE AskedKey(d)' = k
          BY <1>m, <2>1, <2>3, <2>9, <3>2, <4>2, <5>1, <5>2
        <5>3. CASE AskedKey(d)' # k
          BY <1>m, <2>1, <2>3, <5>1, <5>3
        <5> QED
          BY <5>2, <5>3
      <4> QED
        BY <4>1, <4>2
    <3> QED
      BY <3>1, <3>2 DEF MetricsInv, Metered, AskedKey, CacheKey, Collect
  <2>11. MetricsFresh'
    <3>1. answer'[c].asked = clock /\ answer'[c].is = metrics'[k]
          /\ ask'[c].name = q[1] /\ ask'[c].tags = q[2]
      BY <2>1
    <3>2. ASSUME NEW d \in Calls, Metered(d)'
          PROVE  /\ answer'[d].is.samples = Collect(ask'[d].name, ask'[d].tags)
                 /\ answer'[d].is.at \in answer'[d].asked - Ttl + 1 .. answer'[d].asked
      BY <1>f, <2>1, <2>3, <2>6, <3>1, <3>2
    <3>3. ASSUME NEW d \in Calls, NEW e \in Calls, Metered(d)', Metered(e)',
                 ask'[e] = ask'[d], answer'[e].asked < answer'[d].asked
          PROVE  answer'[e].is.at <= answer'[d].is.at
      <4>1. CASE d = c
        <5>1. e # c
          BY <1>c, <3>1, <3>3, <4>1
        <5>2. AskedKey(e)' = k
          BY <2>8, <3>3, <4>1 DEF AskedKey, CacheKey
        <5> QED
          BY <2>9, <3>1, <3>3, <4>1, <5>1, <5>2
      <4>2. CASE d # c /\ e = c
        <5>1. answer'[d] = answer[d] /\ answer[d].asked \in 0 .. clock
          BY <1>m, <2>3, <3>3, <4>2
        <5> QED
          BY <1>c, <3>1, <3>3, <4>2, <5>1
      <4>3. CASE d # c /\ e # c
        BY <1>f, <2>3, <3>3, <4>3
      <4> QED
        BY <4>1, <4>2, <4>3
    <3> QED
      BY <3>2, <3>3 DEF MetricsFresh, Metered, Collect
  <2> QED
    BY <2>1, <2>10, <2>11 DEF McpTypeOK
<1> QED
  BY <1>1, <1>2
-----------------------------------------------------------------------------
\* ORDER BY id DESC LIMIT n: of a finite set of numbers, if one has more than n
\* from it upwards, the list is full and of greater ones.
LEMMA ListIsFull ==
  ASSUME NEW L \in SUBSET Nat, IsFiniteSet(L), NEW n \in Nat, NEW o \in L,
         ~(Cardinality({p \in L : p >= o}) <= n)
  PROVE  /\ Cardinality({q \in L : Cardinality({p \in L : p >= q}) <= n}) = n
         /\ \A q \in L : Cardinality({p \in L : p >= q}) <= n => q > o
<1> DEFINE From(q) == {p \in L : p >= q}
           rank == [q \in L |-> Cardinality(From(q))]
           shown == {q \in L : rank[q] <= n}
<1>1. Cardinality(L) \in Nat
  BY FS_CardinalityType
<1>2. ASSUME NEW q \in L
      PROVE  IsFiniteSet(From(q)) /\ rank[q] \in 1 .. Cardinality(L)
  <2>1. From(q) \in SUBSET L /\ From(q) # {}
    OBVIOUS
  <2>2. IsFiniteSet(From(q)) /\ Cardinality(From(q)) <= Cardinality(L)
    BY <2>1, FS_Subset
  <2>3. Cardinality(From(q)) \in Nat /\ Cardinality(From(q)) # 0
    BY <2>1, <2>2, FS_CardinalityType, FS_EmptySet
  <2> HIDE DEF From
  <2> QED
    BY <1>1, <2>2, <2>3
<1>3. ASSUME NEW q \in L, NEW r \in L, q < r
      PROVE  rank[r] < rank[q]
  <2>1. From(r) \in SUBSET From(q) /\ From(r) # From(q)
    <3>0. q \in Nat /\ r \in Nat
      OBVIOUS
    <3>1. ASSUME NEW p \in L, p >= r
          PROVE  p >= q
      <4>1. p \in Nat
        OBVIOUS
      <4> QED
        BY <1>3, <3>0, <3>1, <4>1
    <3>2. q \in From(q) /\ q \notin From(r)
      BY <1>3
    <3> QED
      BY <3>1, <3>2, Zenon
  <2>2. Cardinality(From(r)) <= Cardinality(From(q)) /\ Cardinality(From(r)) # Cardinality(From(q))
    BY <1>2, <2>1, FS_Subset
  <2>3. rank[r] = Cardinality(From(r)) /\ rank[q] = Cardinality(From(q))
    OBVIOUS
  <2>4. rank[r] \in Nat /\ rank[q] \in Nat
    BY <1>1, <1>2
  <2> HIDE DEF From, rank
  <2> QED
    BY <2>2, <2>3, <2>4
<1>4. rank[o] \in 1 .. Cardinality(L) /\ n < rank[o]
  BY <1>2, <1>1
<1>r. DOMAIN rank = L /\ rank = [q \in L |-> rank[q]] /\ shown = {q \in L : rank[q] <= n}
  OBVIOUS
<1> HIDE DEF rank, From
<1>5. ASSUME NEW q \in shown
      PROVE  q > o
  BY <1>1, <1>2, <1>3, <1>4
<1>6. rank \in Surjection(L, 1 .. Cardinality(L))
  <2>1. rank \in [L -> 1 .. Cardinality(L)]
    BY <1>2, <1>r
  <2>2. ASSUME NEW q \in L, NEW r \in L, q # r
        PROVE  rank[q] # rank[r]
    <3>1. q < r \/ r < q
      BY <2>2
    <3> QED
      BY <1>1, <1>2, <1>3, <3>1
  <2>3. rank \in Injection(L, 1 .. Cardinality(L))
    BY <2>1, <2>2 DEF Injection, IsInjective
  <2>4. /\ IsFiniteSet(1 .. Cardinality(L))
        /\ Cardinality(1 .. Cardinality(L)) = Cardinality(L)
    BY <1>1, FS_Interval
  <2> QED
    BY <2>3, <2>4, FS_Injection
<1>7. Cardinality(shown) = n
  <2> DEFINE f == [q \in shown |-> rank[q]]
  <2>1. shown \in SUBSET L /\ IsFiniteSet(shown)
    BY FS_Subset
  <2>2. f \in [shown -> 1 .. n]
    <3>1. \A q \in shown : rank[q] \in 1 .. n
      BY <1>1, <1>2
    <3> QED
      BY <3>1
  <2>3. \A q, r \in shown : f[q] = f[r] => q = r
    BY <1>1, <1>2, <1>3
  <2>4. ASSUME NEW i \in 1 .. n
        PROVE  \E q \in shown : f[q] = i
    <3>1. i \in 1 .. Cardinality(L)
      BY <1>1, <1>4
    <3>2. PICK q \in L : rank[q] = i
      BY <1>6, <3>1 DEF Surjection
    <3> QED
      BY <3>2
  <2>5. f \in Bijection(shown, 1 .. n)
    BY <2>2, <2>3, <2>4 DEF Bijection, Injection, Surjection, IsInjective
  <2>6. Cardinality(1 .. n) = Cardinality(shown)
    BY <2>1, <2>5, FS_Bijection DEF ExistsBijection
  <2>7. Cardinality(1 .. n) = n
    BY FS_Interval
  <2> QED
    BY <2>6, <2>7
<1>8. \A q \in L : rank[q] = Cardinality({p \in L : p >= q})
  BY DEF rank, From
<1>9. shown = {q \in L : Cardinality({p \in L : p >= q}) <= n}
  BY <1>8
<1> QED
  BY <1>5, <1>7, <1>9

\* An order id stays as it was, is committed for the first time, or deleted.
Committed(o) ==
  /\ ~Stays(o) /\ o \notin deleted' /\ orders'[o] \in known /\ orders'[o] # None
  /\ \E c \in Calls : pc[c] = "commit" /\ order[c] = o /\ pc'[c] = "remember"
OrderKept(o) == orders'[o] = orders[o] /\ (o \in deleted' <=> o \in deleted)
OrderGone(o) == orders[o] # None /\ orders'[o] = None /\ o \in deleted'

LEMMA OrdersFrame ==
  ASSUME CreateInductive, McpTypeOK, AccessInv, VisibleInv, McpNext
  PROVE  /\ UNCHANGED known /\ deleted \subseteq deleted' /\ deleted' \subseteq OrderIds
         /\ \A o \in OrderIds : OrderKept(o) \/ Committed(o) \/ OrderGone(o)
<1>t. /\ orders \in [OrderIds -> Customers \cup {None}]
      /\ deleted \subseteq OrderIds /\ order \in [Calls -> OrderIds \cup {None}]
      /\ pc = [d \in Calls |-> pc[d]] /\ None \notin Customers
      /\ known \subseteq Customers
  BY NoneAssumption DEF CreateInductive, CreateTypeOK, VisibleInv
<1>1. ASSUME NEW c \in Calls, CommitOrder(c), UNCHANGED deleted
      PROVE  /\ UNCHANGED known
             /\ \A o \in OrderIds : OrderKept(o) \/ Committed(o)
  <2>1. /\ pc[c] = "commit" /\ pc'[c] = "remember" /\ UNCHANGED known
        /\ orders' = [orders EXCEPT ![order[c]] = customer[c]]
    BY <1>1, <1>t DEF CommitOrder, Goto
  <2>2. order[c] \in OrderIds
    BY <2>1 DEF CreateInductive, CreateTypeOK, CallInv, Inserted
  <2>3. customer[c] \in known /\ ~Stays(order[c]) /\ order[c] \notin deleted
    BY <2>1 DEF VisibleInv, Settled, Stays
  <2>4. orders'[order[c]] = customer[c] /\ customer[c] # None
    BY <1>t, <2>1, <2>2, <2>3
  <2>5. Committed(order[c])
    BY <1>1, <2>1, <2>3, <2>4 DEF Committed
  <2>6. \A o \in OrderIds \ {order[c]} : orders'[o] = orders[o]
    BY <1>t, <2>1
  <2> QED
    BY <1>1, <2>1, <2>5, <2>6 DEF OrderKept
<1>2. ASSUME NEW x \in OrderIds, DeleteOrder(x), deleted' = deleted \cup {x}
      PROVE  /\ UNCHANGED known
             /\ \A o \in OrderIds : OrderKept(o) \/ OrderGone(o)
  BY <1>2, <1>t DEF DeleteOrder, OrderKept, OrderGone
<1>3. ASSUME UNCHANGED <<orders, deleted>>
      PROVE  \A o \in OrderIds : OrderKept(o)
  BY <1>3 DEF OrderKept
<1>4. CASE QuietStep
  BY <1>2, <1>3, <1>4, <1>t
      DEF QuietStep, LogLine, CreateAppAgain, Tick, OpenSession, RestDeletesOrder, vars, store
<1>5. ASSUME NEW c \in Calls, CallStep(c)
      PROVE  /\ UNCHANGED <<known, deleted>>
             /\ \A o \in OrderIds : OrderKept(o) \/ Committed(o)
  <2>1. CASE Arrive(c)
    BY <1>3, <2>1 DEF Arrive, orderTool, store
  <2>2. CASE CreateOrder(c)
    BY <1>3, <2>2 DEF CreateOrder, Call, store
  <2>3. CASE CreateOrderStep(c)
    BY <1>1, <1>3, <2>3 DEF CreateOrderStep, InsertOrder, Remember, Abort, mcp, store
  <2>4. CASE ToolStep(c)
    BY <1>3, <2>4, ToolFrame DEF orderTool, store
  <2> QED
    BY <1>5, <2>1, <2>2, <2>3, <2>4 DEF CallStep
<1> QED
  BY <1>t, <1>4, <1>5, NextCases, QuietFrame
      DEF QuietStep, LogLine, CreateAppAgain, Tick, OpenSession, RestDeletesOrder

\* In the next state, the order is there or deleted.
StaysNext(o) == o \in deleted' \/ orders'[o] # None

\* What is there until deleted stays there until deleted.
LEMMA StaysStays ==
  ASSUME CreateInductive, McpTypeOK, AccessInv, VisibleInv, McpNext,
         NEW o \in OrderIds, Stays(o)
  PROVE  StaysNext(o)
BY OrdersFrame DEF OrderKept, Committed, OrderGone, Stays, StaysNext

\* The tools that read orders go on by their own actions, or fail.
LEMMA Readers ==
  ASSUME AccessInv, NEW c \in Calls, ToolStep(c), pc' # [pc EXCEPT ![c] = "failed"]
  PROVE  /\ tool[c] = "get_order_by_id" => GetOrderById(c)
         /\ tool[c] = "list_recent_orders" => ListRecentOrders(c)
         /\ tool[c] = "get_customer_360" => GetCustomer360(c)
<1> SUFFICES ASSUME tool[c] \in {"get_order_by_id", "list_recent_orders", "get_customer_360"}
             PROVE  \/ tool[c] = "get_order_by_id" /\ GetOrderById(c)
                    \/ tool[c] = "list_recent_orders" /\ ListRecentOrders(c)
                    \/ tool[c] = "get_customer_360" /\ GetCustomer360(c)
  BY Zenon
<1>1. ~Refuse(c) /\ ~ReadFails(c)
  BY DEF Refuse, ReadFails, Then, Goto
<1>2. ~FindLowStock(c) /\ ~TailLogs(c) /\ ~GetMetrics(c)
  BY DEF FindLowStock, TailLogs, GetMetrics, Ready, Reads
<1>3. ~PredictChurn(c) /\ ~TriggerChaos(c) /\ ~Describe(c)
  BY DEF PredictChurn, TriggerChaos, Describe, RequireAdmin, Ready, Reads, PlainTools
<1>4. ~GetHealth(c)
  BY DEF GetHealth, RequireAdmin, Ready, AccessInv, Allowed
<1>5. /\ GetOrderById(c) => tool[c] = "get_order_by_id"
      /\ ListRecentOrders(c) => tool[c] = "list_recent_orders"
      /\ GetCustomer360(c) => tool[c] = "get_customer_360"
  BY DEF GetOrderById, ListRecentOrders, GetCustomer360, Ready, Reads
<1> QED
  BY <1>1, <1>2, <1>3, <1>4, <1>5 DEF ToolStep

\* A call that another step leaves alone stays settled.
LEMMA SettledStays ==
  ASSUME CreateInductive, McpTypeOK, AccessInv, VisibleInv, McpNext, NEW d \in Calls,
         Same(d), UNCHANGED <<customer[d], order[d], result[d]>>
  PROVE  Settled(d)'
<1>1. Settled(d)
  BY DEF VisibleInv
<1>2. \A o \in OrderIds : Stays(o) => StaysNext(o)
  BY StaysStays
<1>3. UNCHANGED known
  BY OrdersFrame
<1>4. ASSUME pc[d] = "commit"
      PROVE  orders'[order[d]] = None /\ order[d] \notin deleted'
  <2>1. order[d] \in OrderIds
    BY <1>4 DEF CreateInductive, CreateTypeOK, CallInv, Inserted
  <2>2. ~Stays(order[d]) /\ orders[order[d]] = None /\ order[d] \notin deleted
    BY <1>1, <1>4 DEF Settled, Stays
  <2>3. ~Committed(order[d])
    <3>1. ASSUME NEW c \in Calls, pc[c] = "commit", order[c] = order[d], pc'[c] = "remember"
          PROVE  FALSE
      <4>1. c # d
        BY <1>4, <3>1 DEF Same
      <4> QED
        BY <1>4, <3>1, <4>1 DEF CreateInductive, CallInv, Inserted
    <3> QED
      BY <3>1 DEF Committed
  <2> QED
    BY <2>1, <2>2, <2>3, OrdersFrame DEF OrderKept, OrderGone
<1>5. order[d] \in OrderIds \cup {None} /\ result[d] \in OrderIds \cup {None}
  BY DEF CreateInductive, CreateTypeOK
<1>6. pc[d] = "remember" => order[d] \in OrderIds
  BY DEF CreateInductive, CreateTypeOK, CallInv, Inserted
<1> QED
  BY <1>1, <1>2, <1>3, <1>4, <1>5, <1>6 DEF Settled, Same, Stays, StaysNext

\* Every step keeps every call settled.
LEMMA SettledStep ==
  ASSUME CreateInductive, McpTypeOK, AccessInv, VisibleInv, McpNext, NEW d \in Calls
  PROVE  Settled(d)'
<1>t. /\ pc = [e \in Calls |-> pc[e]] /\ orders \in [OrderIds -> Customers \cup {None}]
      /\ customer \in [Calls -> Customers \cup {None}]
      /\ order \in [Calls -> OrderIds \cup {None}]
      /\ result \in [Calls -> OrderIds \cup {None}]
      /\ ref \in [Keys -> OrderIds \cup {None}] /\ issued \subseteq OrderIds
      /\ DOMAIN ask = Calls /\ DOMAIN answer = Calls /\ DOMAIN before = Calls
  BY DEF CreateInductive, CreateTypeOK, McpTypeOK
<1>s. Settled(d) /\ \A o \in OrderIds : Stays(o) => StaysNext(o)
  BY StaysStays DEF VisibleInv
<1>k. UNCHANGED known
  BY OrdersFrame
<1>1. CASE QuietStep
  BY <1>1, QuietFrame, SettledStays DEF calls, Same
<1>2. ASSUME NEW c \in Calls, CallStep(c), c # d
      PROVE  Settled(d)'
  <2>1. Same(d)
    BY <1>2, CallFrame
  <2>2. UNCHANGED <<customer[d], order[d], result[d]>>
    <3>1. CASE Arrive(c) \/ ToolStep(c)
      BY <3>1, ToolFrame DEF Arrive, orderTool
    <3>2. CASE CreateOrder(c)
      BY <1>2, <1>t, <3>2 DEF CreateOrder, Call
    <3>3. CASE CreateOrderStep(c)
      BY <1>2, <1>t, <3>3 DEF CreateOrderStep, InsertOrder, CommitOrder, Remember, Abort
    <3> QED
      BY <1>2, <3>1, <3>2, <3>3 DEF CallStep
  <2> QED
    BY <2>1, <2>2, SettledStays
<1>3. CASE Arrive(d)
  <2>1. pc'[d] \in {"idle", "failed"} /\ UNCHANGED <<result, deleted>>
    BY <1>3, ArriveFrame DEF Arrive, orderTool
  <2>2. \/ before'[d] = before[d]
        \/ before'[d] = {result[e] : e \in Calls} \ (deleted \cup {None})
    BY <1>3, <1>t DEF Arrive
  <2>3. \A e \in Calls : result[e] # None => result[e] \in OrderIds /\ Stays(result[e])
    BY <1>t DEF VisibleInv, Settled
  <2>4. before'[d] \subseteq OrderIds /\ \A o \in before'[d] : StaysNext(o)
    <3>1. before[d] \subseteq OrderIds /\ \A o \in before[d] : Stays(o)
      BY <1>s DEF Settled
    <3>2. before'[d] \subseteq OrderIds /\ \A o \in before'[d] : Stays(o)
      BY <2>2, <2>3, <3>1
    <3> QED
      BY <1>s, <3>2
  <2>5. result'[d] # None => StaysNext(result'[d])
    BY <1>s, <2>1, <2>3
  <2> QED
    BY <2>1, <2>4, <2>5 DEF Settled, Stays, StaysNext
<1>4. CASE CreateOrder(d) \/ CreateOrderStep(d)
  <2>1. UNCHANGED <<tool, before, deleted>> /\ tool[d] = "create_order"
    <3>1. UNCHANGED <<tool, before, deleted>>
      BY <1>4 DEF CreateOrder, CreateOrderStep, mcp, callers
    <3>2. tool[d] = "create_order"
      BY <1>4 DEF CreateOrder, CreateOrderStep, InsertOrder, CommitOrder, Remember, Abort,
                  Ready, Open, AccessInv, Allowed
    <3> QED
      BY <3>1, <3>2
  <2>2. before'[d] \subseteq OrderIds /\ \A o \in before'[d] : StaysNext(o)
    <3>1. before[d] \subseteq OrderIds /\ \A o \in before[d] : Stays(o)
      BY <1>s DEF Settled
    <3> QED
      BY <1>s, <2>1, <3>1
  <2>3. result[d] # None => result[d] \in OrderIds /\ StaysNext(result[d])
    BY <1>s, <1>t DEF Settled
  <2>4. ASSUME NEW k \in Keys \cup {None}, NEW cust \in Customers, Call(d, k, cust)
        PROVE  Settled(d)'
    <3>1. pc'[d] \in {"done", "insert"}
      BY <1>t, <2>4 DEF Call, Goto
    <3>2. \/ result'[d] = result[d]
          \/ k \in Keys /\ ref[k] # None /\ result'[d] = ref[k]
      BY <1>t, <2>4, NoneAssumption DEF Call, Cached
    <3>3. result'[d] # None => StaysNext(result'[d])
      <4>1. ASSUME k \in Keys, ref[k] # None PROVE StaysNext(ref[k]) /\ ref[k] \in OrderIds
        BY <1>s, <1>t, <4>1 DEF VisibleInv
      <4> QED
        BY <2>3, <3>2, <4>1
    <3> QED
      BY <2>1, <2>2, <3>1, <3>3 DEF Settled, Stays, StaysNext
  <2>5. ASSUME NEW x \in OrderIds, InsertOrder(d, x)
        PROVE  Settled(d)'
    <3>1. UNCHANGED <<orders, customer, result>> /\ x \notin issued
      BY <2>5 DEF InsertOrder
    <3>2. \/ pc'[d] = "commit" /\ customer[d] \in known /\ order'[d] = x
          \/ pc'[d] = "done"
      BY <1>t, <2>5 DEF InsertOrder, Goto
    <3>3. orders[x] = None /\ x \notin deleted
      BY <3>1 DEF VisibleInv
    <3> QED
      BY <1>k, <2>1, <2>2, <2>3, <3>1, <3>2, <3>3 DEF Settled, Stays, StaysNext
  <2>6. CASE CommitOrder(d)
    <3>1. /\ pc[d] = "commit" /\ pc'[d] = "remember" /\ UNCHANGED <<order, result>>
          /\ orders' = [orders EXCEPT ![order[d]] = customer[d]]
      BY <1>t, <2>6 DEF CommitOrder, Goto
    <3>2. order[d] \in OrderIds
      BY <3>1 DEF CreateInductive, CreateTypeOK, CallInv, Inserted
    <3>3. customer[d] # None
      BY <1>s, <3>1, NoneAssumption DEF Settled, VisibleInv
    <3>4. StaysNext(order'[d])
      BY <1>t, <3>1, <3>2, <3>3 DEF StaysNext
    <3> QED
      BY <2>1, <2>2, <2>3, <3>1, <3>4 DEF Settled, Stays, StaysNext
  <2>7. CASE Remember(d)
    <3>1. pc[d] = "remember" /\ pc'[d] = "done" /\ result'[d] = order[d]
      BY <1>t, <2>7 DEF Remember, Goto
    <3>2. order[d] \in OrderIds
      BY <3>1 DEF CreateInductive, CreateTypeOK, CallInv, Inserted
    <3>3. StaysNext(result'[d])
      BY <1>s, <3>1, <3>2 DEF Settled
    <3> QED
      BY <2>1, <2>2, <3>1, <3>3 DEF Settled, Stays, StaysNext
  <2>8. CASE Abort(d)
    <3>1. pc'[d] = "failed" /\ UNCHANGED result
      BY <1>t, <2>8 DEF Abort, Goto
    <3> QED
      BY <2>1, <2>2, <2>3, <3>1 DEF Settled, Stays, StaysNext
  <2> QED
    BY <1>4, <2>4, <2>5, <2>6, <2>7, <2>8 DEF CreateOrder, CreateOrderStep
<1>5. CASE ToolStep(d)
  <2>1. UNCHANGED <<orderTool, tool, before, deleted>>
    BY <1>5, ToolFrame DEF callers
  <2>2. PICK step : /\ pc' = [pc EXCEPT ![d] = step]
                    /\ Starts(d, step) \/ Continues(d, step) \/ IsRefused(d, step)
    BY <1>5, ToolFrame
  <2>3. pc'[d] = step /\ step \notin Open
    BY <1>t, <2>2 DEF Starts, Continues, IsRefused, Reading, Open
  <2>4. /\ before'[d] \subseteq OrderIds /\ \A o \in before'[d] : StaysNext(o)
        /\ result'[d] # None => StaysNext(result'[d])
    <3>1. before[d] \subseteq OrderIds /\ \A o \in before[d] : Stays(o)
      BY <1>s DEF Settled
    <3>2. result[d] # None => result[d] \in OrderIds /\ StaysNext(result[d])
      BY <1>s, <1>t DEF Settled
    <3> QED
      BY <1>s, <2>1, <3>1, <3>2 DEF orderTool
  <2>5. ASSUME tool[d] = "list_recent_orders", step \in {"select", "done"}
        PROVE  ask'[d].limit \in Limits
    <3>1. ListRecentOrders(d)
      BY <1>5, <1>t, <2>3, <2>5, Readers
    <3>2. CASE \E n \in Limits : Ask(d, [limit |-> n], "select")
      BY <1>t, <3>2 DEF Ask, Begin
    <3>3. CASE Reads(d, "list_recent_orders", "select") /\ UNCHANGED ask
      BY <1>s, <3>3 DEF Reads, Settled
    <3> QED
      BY <3>1, <3>2, <3>3 DEF ListRecentOrders, AnswerWith, Unlogged
  <2>6. ASSUME tool[d] = "get_customer_360", step # "failed"
        PROVE  /\ step = "aggregate" => ask'[d].customer \in known
               /\ step = "done" => answer'[d] \in {NotFound} \cup [count : Nat]
    <3>1. GetCustomer360(d)
      BY <1>5, <1>t, <2>3, <2>6, Readers
    <3>2. CASE \E cust \in Customers : Ask(d, [customer |-> cust], "select")
      BY <1>t, <2>3, <3>2 DEF Ask, Begin, Goto
    <3>3. CASE ask[d].customer \in known /\ Then(d, "aggregate")
      BY <1>t, <2>3, <3>3 DEF Then, Goto, Unlogged
    <3>4. CASE AnswerWith(d, NotFound)
      BY <1>t, <2>3, <3>4 DEF AnswerWith, Goto, Unlogged
    <3>5. CASE AnswerWith(d, [count |-> Cardinality({o \in OrderIds :
                                              orders[o] = ask[d].customer})])
      <4> DEFINE mine == {o \in OrderIds : orders[o] = ask[d].customer}
      <4>1. IsFiniteSet(mine)
        BY FS_Subset, McpAssumption
      <4>2. Cardinality(mine) \in Nat
        BY <4>1, FS_CardinalityType
      <4>3. pc'[d] = "done" /\ answer'[d] = [count |-> Cardinality(mine)]
        BY <1>t, <3>5 DEF AnswerWith, Goto
      <4> QED
        BY <2>3, <4>2, <4>3
    <3> QED
      BY <3>1, <3>2, <3>3, <3>4, <3>5 DEF GetCustomer360
  <2> QED
    BY <1>k, <2>1, <2>3, <2>4, <2>5, <2>6 DEF Settled, Open, Stays, StaysNext, orderTool
<1> QED
  BY <1>1, <1>2, <1>3, <1>4, <1>5, NextCases DEF CallStep

\* Every step keeps the orders where they are expected.
LEMMA VisibleStep ==
  ASSUME CreateInductive, McpTypeOK, AccessInv, VisibleInv, McpNext
  PROVE  VisibleInv'
<1>t. /\ ref \in [Keys -> OrderIds \cup {None}] /\ order \in [Calls -> OrderIds \cup {None}]
      /\ issued \subseteq OrderIds
  BY DEF CreateInductive, CreateTypeOK
<1>1. /\ issued \subseteq issued'
      /\ \/ UNCHANGED ref
         \/ \E c \in Calls : /\ pc[c] = "remember"
                             /\ \A k \in Keys : ref'[k] \in {None, order[c], ref[k]}
  <2>1. CASE QuietStep
    BY <2>1, QuietFrame DEF cache
  <2>2. ASSUME NEW c \in Calls, Arrive(c) \/ ToolStep(c)
        PROVE  UNCHANGED <<issued, ref>>
    BY <2>2, ToolFrame DEF Arrive, orderTool, store, cache
  <2>3. ASSUME NEW c \in Calls, CreateOrder(c)
        PROVE  UNCHANGED <<issued, ref>>
    BY <2>3 DEF CreateOrder, Call, store, cache
  <2>4. ASSUME NEW c \in Calls, CreateOrderStep(c)
        PROVE  /\ issued \subseteq issued'
               /\ \/ UNCHANGED ref
                  \/ /\ pc[c] = "remember"
                     /\ \A k \in Keys : ref'[k] \in {None, order[c], ref[k]}
    <3>1. CASE Remember(c)
      BY <3>1 DEF Remember, store, cache
    <3>2. CASE ~Remember(c)
      BY <2>4, <3>2 DEF CreateOrderStep, InsertOrder, CommitOrder, Abort, store, cache
    <3> QED
      BY <3>1, <3>2
  <2> QED
    BY <2>1, <2>2, <2>3, <2>4, NextCases DEF CallStep
<1>2. /\ known' \subseteq Customers
      /\ \A o \in OrderIds : orders'[o] # None => o \in issued' /\ orders'[o] \in known'
  <2>1. ASSUME NEW o \in OrderIds, orders'[o] # None
        PROVE  o \in issued' /\ orders'[o] \in known
    <3>1. CASE OrderKept(o)
      BY <1>1, <2>1, <3>1 DEF OrderKept, VisibleInv
    <3>2. CASE Committed(o)
      BY <1>1, <3>2 DEF Committed, CreateInductive, CallInv, Inserted
    <3> QED
      BY <2>1, <3>1, <3>2, OrdersFrame DEF OrderGone
  <2> QED
    BY <2>1, OrdersFrame DEF VisibleInv
<1>3. deleted' \subseteq issued'
  <2>1. ASSUME NEW o \in deleted'
        PROVE  o \in issued
    <3>1. o \in OrderIds
      BY OrdersFrame
    <3> QED
      BY <3>1, OrdersFrame DEF OrderKept, Committed, OrderGone, VisibleInv
  <2> QED
    BY <1>1, <2>1
<1>4. ASSUME NEW k \in Keys, ref'[k] # None
      PROVE  StaysNext(ref'[k])
  <2>1. ref[k] # None => ref[k] \in OrderIds /\ Stays(ref[k])
    BY <1>t DEF VisibleInv
  <2>2. \A c \in Calls : pc[c] = "remember" => order[c] \in OrderIds /\ Stays(order[c])
    BY <1>t DEF VisibleInv, Settled, CreateInductive, CallInv, Inserted
  <2>3. PICK o \in OrderIds : ref'[k] = o /\ Stays(o)
    BY <1>1, <1>4, <2>1, <2>2
  <2> QED
    BY <2>3, StaysStays
<1>5. \A c \in Calls : Settled(c)'
  BY SettledStep
<1> QED
  BY <1>2, <1>3, <1>4, <1>5 DEF VisibleInv, Stays, StaysNext

\* An answer that was given stays right.
LEMMA FindsStays ==
  ASSUME CreateInductive, McpTypeOK, AccessInv, VisibleInv, McpNext, NEW c \in Calls,
         Finds(c), Same(c)
  PROVE  Finds(c)'
<1> SUFFICES ASSUME pc[c] = "done"
             PROVE  Finds(c)'
  BY DEF Same, Finds
<1> DEFINE seen == before[c] \ deleted
           seenNext == before[c] \ deleted'
<1>s. /\ before[c] \subseteq OrderIds /\ \A o \in before[c] : Stays(o)
      /\ tool[c] = "get_customer_360" => answer[c] \in {NotFound} \cup [count : Nat]
  BY DEF VisibleInv, Settled
<1>1. seenNext \subseteq seen
  BY OrdersFrame
<1>2. CASE tool[c] = "get_order_by_id"
  BY <1>1, <1>2 DEF Finds, Same
<1>3. CASE tool[c] = "list_recent_orders"
  <2>1. \A o \in seen : \/ o \in answer[c].orders
                        \/ /\ Cardinality(answer[c].orders) = Clamp(ask[c].limit, MaxRecent)
                           /\ \A p \in answer[c].orders : p > o
    BY <1>3 DEF Finds
  <2>2. \A o \in seenNext : \/ o \in answer[c].orders
                            \/ /\ Cardinality(answer[c].orders) = Clamp(ask[c].limit, MaxRecent)
                               /\ \A p \in answer[c].orders : p > o
    BY <1>1, <2>1
  <2>3. UNCHANGED <<pc[c], tool[c], ask[c], answer[c], before[c]>>
    BY DEF Same
  <2> HIDE DEF seen
  <2> QED
    BY <1>3, <2>2, <2>3 DEF Finds, Clamp
<1>4. CASE tool[c] = "get_customer_360"
  <2> DEFINE own == {o \in seen : orders[o] = ask[c].customer}
             ownNext == {o \in seenNext : orders'[o] = ask[c].customer}
  <2>1. own # {} => answer[c] # NotFound /\ answer[c].count >= Cardinality(own)
    BY <1>4 DEF Finds
  <2>2. ownNext \subseteq own
    <3>1. ASSUME NEW o \in seenNext
          PROVE  orders'[o] = orders[o]
      BY <1>s, <3>1, OrdersFrame DEF OrderKept, Committed, OrderGone
    <3> QED
      BY <1>1, <3>1
  <2>3. IsFiniteSet(own)
    <3>1. own \in SUBSET OrderIds
      BY <1>s
    <3> QED
      BY <3>1, FS_Subset, McpAssumption
  <2> HIDE DEF own, ownNext
  <2>4. ASSUME ownNext # {}
        PROVE  answer[c] # NotFound /\ answer[c].count >= Cardinality(ownNext)
    <3>1. answer[c] # NotFound /\ answer[c].count >= Cardinality(own)
      BY <2>1, <2>2, <2>4
    <3>2. answer[c].count \in Nat
      BY <1>4, <1>s, <3>1
    <3>3. /\ Cardinality(ownNext) <= Cardinality(own)
          /\ Cardinality(own) \in Nat /\ Cardinality(ownNext) \in Nat
      BY <2>2, <2>3, FS_Subset, FS_CardinalityType
    <3> QED
      BY <3>1, <3>2, <3>3
  <2>5. UNCHANGED <<pc[c], tool[c], ask[c], answer[c], before[c]>>
    BY DEF Same
  <2> QED
    BY <1>4, <2>4, <2>5 DEF Finds, ownNext
<1>5. CASE tool[c] \notin {"get_order_by_id", "list_recent_orders", "get_customer_360"}
  BY <1>5 DEF Finds, Same
<1> QED
  BY <1>2, <1>3, <1>4, <1>5

\* An answer that is given finds what was answered before the call arrived.
LEMMA FindsNow ==
  ASSUME CreateInductive, McpTypeOK, AccessInv, VisibleInv, McpNext, NEW c \in Calls,
         ToolStep(c)
  PROVE  Finds(c)'
<1>t. /\ pc = [d \in Calls |-> pc[d]] /\ DOMAIN ask = Calls /\ DOMAIN answer = Calls
      /\ orders \in [OrderIds -> Customers \cup {None}]
  BY DEF CreateInductive, CreateTypeOK, McpTypeOK
<1> SUFFICES ASSUME pc'[c] = "done", tool[c] \in {"get_order_by_id", "list_recent_orders",
                                                  "get_customer_360"}
             PROVE  Finds(c)'
  BY ToolFrame DEF Finds, callers
<1>f. UNCHANGED <<orders, known, tool, before, deleted>>
  BY ToolFrame DEF orderTool, store, callers
<1>r. /\ tool[c] = "get_order_by_id" => GetOrderById(c)
      /\ tool[c] = "list_recent_orders" => ListRecentOrders(c)
      /\ tool[c] = "get_customer_360" => GetCustomer360(c)
  BY <1>t, Readers
<1> DEFINE seen == before[c] \ deleted
<1>s. /\ \A o \in seen : o \in OrderIds /\ orders[o] # None
      /\ \A o \in seen : orders[o] \in known
      /\ seen \in SUBSET OrderIds
  BY DEF VisibleInv, Settled, Stays
<1>1. CASE tool[c] = "get_order_by_id"
  <2>1. /\ UNCHANGED ask
        /\ answer' = [answer EXCEPT ![c] = [found |-> orders[ask[c].id] # None]]
    BY <1>1, <1>r, <1>t DEF GetOrderById, Ask, Begin, Goto, AnswerWith, Unlogged
  <2>2. answer'[c] = [found |-> orders[ask[c].id] # None]
    BY <1>t, <2>1
  <2>3. ask'[c].id \in seen => answer'[c].found
    <3>1. ask'[c].id \in seen => orders[ask[c].id] # None
      BY <1>s, <2>1
    <3>2. ASSUME NEW b, answer'[c] = [found |-> b] PROVE answer'[c].found = b
      BY <3>2
    <3>3. answer'[c].found = (orders[ask[c].id] # None)
      BY <2>2, <3>2, Zenon
    <3> QED
      BY <3>1, <3>3, Zenon
  <2> QED
    BY <1>1, <1>f, <2>3 DEF Finds
<1>2. CASE tool[c] = "list_recent_orders"
  <2> DEFINE n == Clamp(ask[c].limit, MaxRecent)
             L == {o \in OrderIds : orders[o] # None}
  <2>1. /\ pc[c] = "select" /\ UNCHANGED ask
        /\ answer' = [answer EXCEPT ![c] = [orders |-> Newest(n)]]
    BY <1>2, <1>r, <1>t DEF ListRecentOrders, Ask, Begin, Goto, AnswerWith, Unlogged, Reads
  <2>2. answer'[c].orders = Newest(n)
    BY <1>t, <2>1
  <2>3. n \in Nat
    <3>1. ask[c].limit \in Int
      BY <1>2, <2>1, McpAssumption DEF VisibleInv, Settled
    <3> QED
      BY <3>1, Sizes DEF Clamp
  <2>4. L \in SUBSET Nat /\ IsFiniteSet(L)
    <3>1. Cardinality(OrderIds) \in Nat /\ OrderIds = 1 .. Cardinality(OrderIds)
      BY McpAssumption, FS_CardinalityType
    <3>2. OrderIds \in SUBSET Nat
      BY <3>1
    <3> QED
      BY <3>2, FS_Subset, McpAssumption
  <2>5. Newest(n) = {q \in L : Cardinality({p \in L : p >= q}) <= n}
    <3>1. \A q \in OrderIds : {p \in L : p >= q} = {p \in OrderIds : p >= q /\ orders[p] # None}
      OBVIOUS
    <3> QED
      BY <3>1 DEF Newest
  <2> HIDE DEF n, L
  <2>6. ASSUME NEW o \in L, o \notin Newest(n)
        PROVE  Cardinality(Newest(n)) = n /\ \A p \in Newest(n) : p > o
    <3>1. ~(Cardinality({p \in L : p >= o}) <= n)
      BY <2>5, <2>6
    <3>2. /\ Cardinality({q \in L : Cardinality({p \in L : p >= q}) <= n}) = n
          /\ \A q \in L : Cardinality({p \in L : p >= q}) <= n => q > o
      BY <2>3, <2>4, <3>1, ListIsFull
    <3> QED
      BY <2>5, <3>2
  <2>7. \A o \in seen : o \in L
    BY <1>s DEF L
  <2>8. \A o \in seen : \/ o \in answer'[c].orders
                        \/ /\ Cardinality(answer'[c].orders) = Clamp(ask'[c].limit, MaxRecent)
                           /\ \A p \in answer'[c].orders : p > o
    BY <2>1, <2>2, <2>6, <2>7 DEF n
  <2> QED
    BY <1>2, <1>f, <2>8 DEF Finds, Clamp
<1>3. CASE tool[c] = "get_customer_360"
  <2> DEFINE own == {o \in seen : orders[o] = ask[c].customer}
             mine == {o \in OrderIds : orders[o] = ask[c].customer}
  <2>1. UNCHANGED ask
        /\ \/ ask[c].customer \notin known /\ answer'[c] = NotFound
           \/ answer'[c] = [count |-> Cardinality(mine)]
    BY <1>3, <1>r, <1>t DEF GetCustomer360, Ask, Begin, Goto, AnswerWith, Unlogged, Then, Reads
  <2>2. IsFiniteSet(mine) /\ IsFiniteSet(own) /\ own \in SUBSET mine
    BY <1>s, FS_Subset, McpAssumption
  <2>3. /\ Cardinality(own) <= Cardinality(mine)
        /\ Cardinality(mine) \in 0 .. Cardinality(OrderIds)
    <3>1. mine \in SUBSET OrderIds
      OBVIOUS
    <3> HIDE DEF own, mine
    <3> QED
      BY <2>2, <3>1, FS_Subset, FS_CardinalityType, McpAssumption
  <2>4. ASSUME own # {}
        PROVE  answer'[c] # NotFound /\ answer'[c].count >= Cardinality(own)
    <3>1. ask[c].customer \in known
      BY <1>s, <2>4
    <3>2. answer'[c] = [count |-> Cardinality(mine)]
      BY <2>1, <3>1
    <3>3. Cardinality(own) \in Nat
      BY <2>2, FS_CardinalityType
    <3> HIDE DEF own, mine
    <3> QED
      BY <2>3, <3>2, <3>3, McpAssumption
  <2> QED
    BY <1>3, <1>f, <2>1, <2>4 DEF Finds
<1> QED
  BY <1>1, <1>2, <1>3

\* Every step keeps what was answered visible.
LEMMA FindsStep ==
  ASSUME CreateInductive, McpTypeOK, AccessInv, VisibleInv, AnsweredIsVisible, McpNext
  PROVE  AnsweredIsVisible'
<1>1. \A c \in Calls : Finds(c)
  BY DEF AnsweredIsVisible
<1>2. CASE QuietStep
  BY <1>1, <1>2, QuietFrame, FindsStays DEF calls, Same, AnsweredIsVisible
<1>3. ASSUME NEW c \in Calls, CallStep(c), NEW d \in Calls
      PROVE  Finds(d)'
  <2>1. CASE d # c
    BY <1>1, <1>3, <2>1, CallFrame, FindsStays
  <2>2. CASE d = c /\ Arrive(c)
    <3>1. pc'[c] # "done"
      BY <2>2, ArriveFrame
    <3> QED
      BY <2>2, <3>1 DEF Finds
  <2>3. CASE d = c /\ (CreateOrder(c) \/ CreateOrderStep(c))
    <3>1. tool'[c] = "create_order"
      BY <2>3 DEF CreateOrder, CreateOrderStep, InsertOrder, CommitOrder, Remember, Abort,
                  Ready, Open, AccessInv, Allowed, mcp, callers
    <3> QED
      BY <2>3, <3>1 DEF Finds
  <2>4. CASE d = c /\ ToolStep(c)
    BY <2>4, FindsNow
  <2> QED
    BY <1>3, <2>1, <2>2, <2>3, <2>4 DEF CallStep
<1> QED
  BY <1>2, <1>3, NextCases DEF AnsweredIsVisible
-----------------------------------------------------------------------------
(***************************************************************************)
(* tail_logs: of a set M of indices the last n, and the loop that looks    *)
(* for them from the newest record backwards.                              *)
(***************************************************************************)
Rank(M, i) == Cardinality({j \in M : j >= i})
LastOf(M, n) == {i \in M : Rank(M, i) <= n}

\* acc[k] is what the loop has found in the first k records.
MatchingRun(acc, records, k, n, level) ==
  /\ acc[0] = <<>> /\ acc[k] = FirstMatching(records, n, level)
  /\ \A q \in 1 .. k :
       acc[q] = IF level \in {None, records[q].level} /\ Len(acc[q - 1]) < n
                THEN Append(acc[q - 1], records[q]) ELSE acc[q - 1]
LEMMA MatchingLoop ==
  ASSUME NEW k \in Nat, NEW records, DOMAIN records = 1 .. k, NEW R,
         \A q \in 1 .. k : records[q] \in R, NEW n, NEW level
  PROVE  \E acc : MatchingRun(acc, records, k, n, level)
<1> DEFINE D == 1 .. k
           fits(e, found) == level \in {None, e.level} /\ Len(found) < n
           Solves(h) == h = [s \in SUBSET D |->
              IF s = {} THEN <<>>
              ELSE IF fits(records[Max(s)], h[s \ {Max(s)}])
                   THEN Append(h[s \ {Max(s)}], records[Max(s)]) ELSE h[s \ {Max(s)}]]
           g == CHOOSE h : Solves(h)
           step == [p \in Seq(R) \X D |-> IF fits(records[p[2]], p[1])
                                          THEN Append(p[1], records[p[2]]) ELSE p[1]]
           acc == [q \in 0 .. k |-> g[1 .. q]]
<1>1. FirstMatching(records, n, level) = g[D]
  BY DEF FirstMatching, FoldLeft, MapThenFoldSet
<1>2. \E h : Solves(h)
  <2>1. <<>> \in Seq(R)
    OBVIOUS
  <2>2. step \in [Seq(R) \X D -> Seq(R)]
    OBVIOUS
  <2> HIDE DEF step
  <2>3. PICK h \in [SUBSET D -> Seq(R)] : LeftFolds(h, k, <<>>, step)
    BY <2>1, <2>2, LeftFoldExists, Zenon
  <2>4. \A s \in SUBSET D : s # {} =>
          h[s] = IF fits(records[Max(s)], h[s \ {Max(s)}])
                 THEN Append(h[s \ {Max(s)}], records[Max(s)]) ELSE h[s \ {Max(s)}]
    <3> HIDE DEF D, fits
    <3> QED
      BY <2>3 DEF step, LeftFolds, D
  <2>5. h = [s \in SUBSET D |-> h[s]]
    BY <2>3
  <2>6. h[{}] = <<>>
    BY <2>3 DEF LeftFolds
  <2> HIDE DEF fits
  <2>7. \A s \in SUBSET D : h[s] =
          IF s = {} THEN <<>>
          ELSE IF fits(records[Max(s)], h[s \ {Max(s)}])
               THEN Append(h[s \ {Max(s)}], records[Max(s)]) ELSE h[s \ {Max(s)}]
    BY <2>4, <2>6
  <2> QED
    BY <2>5, <2>7
<1>3. Solves(g)
  <2> HIDE DEF Solves
  <2> QED
    BY <1>2
<1> HIDE DEF g
<1>4. g[1 .. 0] = <<>>
  BY <1>3, IndexPrefixes
<1>5. ASSUME NEW q \in 1 .. k
      PROVE  g[1 .. q] = IF fits(records[q], g[1 .. (q - 1)])
                         THEN Append(g[1 .. (q - 1)], records[q]) ELSE g[1 .. (q - 1)]
  <2>1. /\ 1 .. q \in SUBSET D /\ 1 .. q # {}
        /\ Max(1 .. q) = q /\ (1 .. q) \ {q} = 1 .. (q - 1)
    BY IndexPrefixes
  <2> HIDE DEF D, fits
  <2> QED
    BY <1>3, <2>1
<1>6. acc[0] = <<>> /\ acc[k] = FirstMatching(records, n, level)
  BY <1>1, <1>4, IndexPrefixes
<1>7. \A q \in 1 .. k :
        acc[q] = IF level \in {None, records[q].level} /\ Len(acc[q - 1]) < n
                 THEN Append(acc[q - 1], records[q]) ELSE acc[q - 1]
  BY <1>5, IndexPrefixes
<1> HIDE DEF acc
<1> QED
  BY <1>6, <1>7 DEF MatchingRun

\* Of a finite set of indices, the rank of an element is between 1 and the
\* number of elements, and falls as the element grows.
LEMMA RankBounds ==
  ASSUME NEW M \in SUBSET Nat, IsFiniteSet(M), NEW i \in M
  PROVE  /\ Rank(M, i) \in 1 .. Cardinality(M) /\ Cardinality(M) \in Nat
         /\ \A j \in M : j >= i => Rank(M, j) <= Rank(M, i)
<1> DEFINE up(j) == {p \in M : p >= j}
<1>1. \A j \in M : IsFiniteSet(up(j)) /\ Cardinality(up(j)) \in Nat
                   /\ Cardinality(up(j)) <= Cardinality(M)
  BY FS_Subset, FS_CardinalityType
<1>2. Cardinality(up(i)) # 0
  <2>1. i \in up(i) /\ up(i) # {}
    OBVIOUS
  <2>2. IsFiniteSet(up(i))
    BY <1>1
  <2> HIDE DEF up
  <2> QED
    BY <2>1, <2>2, FS_EmptySet
<1>3. ASSUME NEW j \in M, j >= i PROVE Cardinality(up(j)) <= Cardinality(up(i))
  <2>1. \A p \in up(j) : p \in up(i)
    BY <1>3
  <2>2. IsFiniteSet(up(i))
    BY <1>1
  <2> HIDE DEF up
  <2>3. up(j) \in SUBSET up(i)
    BY <2>1
  <2> QED
    BY <2>2, <2>3, FS_Subset
<1>4. Cardinality(M) \in Nat
  BY FS_CardinalityType
<1> HIDE DEF up
<1>5. Cardinality(up(i)) \in 1 .. Cardinality(M)
  BY <1>1, <1>2, <1>4
<1> QED
  BY <1>3, <1>4, <1>5 DEF Rank, up

\* From either end, the last of M are counted out.
LEMMA RanksMeet ==
  ASSUME NEW M \in SUBSET Nat, IsFiniteSet(M), NEW n \in Nat, NEW i \in LastOf(M, n)
  PROVE  /\ Cardinality(LastOf(M, n)) \in Nat
         /\ Cardinality({j \in LastOf(M, n) : j <= i}) \in 1 .. Cardinality(LastOf(M, n))
         /\ Cardinality(LastOf(M, n)) - Cardinality({j \in LastOf(M, n) : j <= i}) + 1
              = Rank(M, i)
<1> DEFINE last == LastOf(M, n)
           down == {j \in last : j <= i}
           up == {j \in M : j >= i}
<1>1. last \in SUBSET M /\ i \in M /\ i \in Nat /\ Rank(M, i) <= n
  BY DEF LastOf
<1>2. up \in SUBSET last
  <2>1. ASSUME NEW j \in up PROVE j \in last
    <3>1. /\ Rank(M, j) <= Rank(M, i) /\ Rank(M, j) \in Nat /\ Rank(M, i) \in Nat
      BY <1>1, RankBounds
    <3> QED
      BY <1>1, <3>1 DEF LastOf
  <2> QED
    BY <2>1
<1>3. last = down \cup up /\ down \cap up = {i}
  <2>1. \A j \in last : j \in Nat /\ (j <= i \/ j >= i)
    BY <1>1
  <2>2. i \in down /\ i \in up
    BY <1>1
  <2>3. \A j \in down \cap up : j = i
    BY <1>1, <2>1
  <2> QED
    BY <1>1, <1>2, <2>1, <2>2, <2>3
<1>4. IsFiniteSet(last) /\ IsFiniteSet(down) /\ IsFiniteSet(up)
  <2>1. IsFiniteSet(last) /\ IsFiniteSet(up)
    BY <1>1, FS_Subset
  <2>2. down \in SUBSET last
    OBVIOUS
  <2> HIDE DEF last, down, up
  <2> QED
    BY <2>1, <2>2, FS_Subset
<1> HIDE DEF last, down, up
<1>5. Cardinality(down \cup up)
        = Cardinality(down) + Cardinality(up) - Cardinality(down \cap up)
  BY <1>4, FS_Union
<1>6. Cardinality(down \cap up) = 1
  BY <1>3, FS_Singleton
<1>7. /\ Cardinality(last) \in Nat /\ Cardinality(down) \in Nat /\ Cardinality(up) \in Nat
      /\ Cardinality(down) <= Cardinality(last) /\ Cardinality(down) # 0
  <2>1. i \in down /\ down \in SUBSET last
    BY <1>3
  <2> QED
    BY <1>4, <2>1, FS_CardinalityType, FS_Subset, FS_EmptySet
<1>8. /\ Cardinality(down) \in 1 .. Cardinality(last)
      /\ Cardinality(last) - Cardinality(down) + 1 = Cardinality(up)
  BY <1>3, <1>5, <1>6, <1>7
<1> QED
  BY <1>7, <1>8 DEF Rank, last, down, up

\* The indices of the matching lines among those from first to upto.
Matching(log, first, upto, level) == {i \in first .. upto : level \in {None, log[i].level}}

\* A line of a part S of M has a rank in it, and is in its place.
InPlace(log, M, S, n, s, i) ==
  /\ Rank(M, i) \in 1 .. Cardinality(S)
  /\ Rank(M, i) <= n => s[Rank(M, i)] = log[i]

\* What was found is the last n of the lines of M, in the order of their rank.
AreLast(log, M, n, R, found) ==
  /\ M \in SUBSET Nat /\ IsFiniteSet(M)
  /\ found \in Seq(R) /\ Len(found) = Cardinality(LastOf(M, n))
  /\ \A i \in LastOf(M, n) : found[Rank(M, i)] = log[i]

\* The loop over the newest k lines of a log, read backwards, finds the last n
\* that match, the one of rank r in place r.
THEOREM MatchingIsLast ==
  ASSUME NEW log, NEW upto \in Nat, NEW k \in 0 .. upto, NEW R,
         NEW records, DOMAIN records = 1 .. k,
         \A q \in 1 .. k : records[q] = log[upto - q + 1] /\ records[q] \in R,
         NEW n \in Nat, NEW level
  PROVE  AreLast(log, Matching(log, upto - k + 1, upto, level), n, R,
                 FirstMatching(records, n, level))
<1> DEFINE M == Matching(log, upto - k + 1, upto, level)
           seen(q) == {i \in M : i > upto - q}
           Holds(q, s) ==
             /\ s \in Seq(R) /\ IsFiniteSet(seen(q))
             /\ Len(s) = IF Cardinality(seen(q)) < n THEN Cardinality(seen(q)) ELSE n
             /\ Len(s) = Cardinality({i \in seen(q) : Rank(M, i) <= n})
             /\ \A i \in seen(q) : InPlace(log, M, seen(q), n, s, i)
<1>1. M \in SUBSET Nat /\ IsFiniteSet(M)
  <2>1. upto - k + 1 \in Int /\ upto \in Int /\ upto - k + 1 >= 0 /\ k \in Nat
    OBVIOUS
  <2>2. IsFiniteSet((upto - k + 1) .. upto)
    BY <2>1, FS_Interval
  <2>3. M \in SUBSET ((upto - k + 1) .. upto)
    BY DEF Matching
  <2>4. \A i \in (upto - k + 1) .. upto : i \in Nat
    BY <2>1
  <2> HIDE DEF M
  <2> QED
    BY <2>2, <2>3, <2>4, FS_Subset
<1>2. \A i : i \in M <=> /\ i \in Nat /\ upto - k < i /\ i <= upto
                        /\ level \in {None, log[i].level}
  BY <1>1 DEF Matching
<1>k. k \in Nat /\ k <= upto
  OBVIOUS
<1>3. PICK acc : MatchingRun(acc, records, k, n, level)
  BY <1>k, MatchingLoop
<1> HIDE DEF M
<1> DEFINE T == {q \in Nat : q <= k => Holds(q, acc[q])}
<1>4. 0 \in T
  <2>1. seen(0) = {}
    BY <1>2
  <2>2. {i \in seen(0) : Rank(M, i) <= n} = {}
    BY <2>1
  <2>3. acc[0] = <<>> /\ <<>> \in Seq(R) /\ Len(<<>>) = 0
    BY <1>3 DEF MatchingRun
  <2>4. IsFiniteSet({}) /\ Cardinality({}) = 0
    BY FS_EmptySet
  <2> HIDE DEF seen
  <2>5. Holds(0, acc[0])
    <3>1. IsFiniteSet(seen(0)) /\ Cardinality(seen(0)) = 0 /\ \A i \in seen(0) : FALSE
      BY <2>1, <2>4
    <3>2. Cardinality({i \in seen(0) : Rank(M, i) <= n}) = 0
      BY <2>2, <2>4
    <3>3. 0 = IF Cardinality(seen(0)) < n THEN Cardinality(seen(0)) ELSE n
      BY <3>1
    <3> QED
      BY <2>3, <3>1, <3>2, <3>3
  <2> HIDE DEF Holds
  <2> QED
    BY <2>5
<1>5. ASSUME NEW q \in T PROVE q + 1 \in T
  <2>1. ASSUME q + 1 <= k PROVE Holds(q + 1, acc[q + 1])
    <3> DEFINE e == upto - q
               s == acc[q]
    <3>1. /\ q \in Nat /\ q <= k /\ k \in Nat /\ q + 1 \in 1 .. k /\ (q + 1) - 1 = q
          /\ e \in Nat /\ upto - (q + 1) + 1 = e /\ upto - k < e /\ e <= upto
      BY <2>1
    <3>2. records[q + 1] = log[e] /\ records[q + 1] \in R
      BY <3>1
    <3>3. acc[q + 1] = IF level \in {None, log[e].level} /\ Len(s) < n
                       THEN Append(s, log[e]) ELSE s
      BY <1>3, <3>1, <3>2 DEF MatchingRun
    <3>4. Holds(q, s)
      BY <1>5, <3>1
    <3>5. e \notin seen(q)
      BY <3>1
    <3>6. /\ \A i \in Nat : i > upto - (q + 1) <=> i > upto - q \/ i = e
          /\ \A i \in Nat : i >= e <=> i > upto - q \/ i = e
      BY <3>1
    <3>7. CASE e \notin M
      <4>1. seen(q + 1) = seen(q)
        BY <1>2, <3>6, <3>7
      <4>2. acc[q + 1] = s
        BY <1>2, <3>1, <3>3, <3>7
      <4> QED
        BY <3>4, <4>1, <4>2
    <3>8. CASE e \in M
      <4>1. seen(q + 1) = seen(q) \cup {e} /\ {j \in M : j >= e} = seen(q + 1)
        BY <1>2, <3>6, <3>8
      <4>2. level \in {None, log[e].level}
        BY <1>2, <3>8
      <4>3. /\ IsFiniteSet(seen(q + 1)) /\ Cardinality(seen(q)) \in Nat
            /\ Cardinality(seen(q + 1)) = Cardinality(seen(q)) + 1
        <5>1. IsFiniteSet(seen(q))
          BY <3>4
        <5> HIDE DEF seen, e
        <5> QED
          BY <3>5, <4>1, <5>1, FS_AddElement, FS_CardinalityType
      <4>4. Rank(M, e) = Cardinality(seen(q)) + 1
        BY <4>1, <4>3 DEF Rank
      <4> HIDE DEF seen, e, s
      <4> DEFINE shown(p) == {i \in seen(p) : Rank(M, i) <= n}
      <4>5. CASE Len(s) < n
        <5>1. acc[q + 1] = Append(s, log[e]) /\ log[e] \in R
          BY <3>2, <3>3, <4>2, <4>5
        <5>2. Len(s) = Cardinality(seen(q)) /\ s \in Seq(R)
          BY <3>4, <4>3, <4>5
        <5>3. /\ Append(s, log[e]) \in Seq(R) /\ Len(Append(s, log[e])) = Len(s) + 1
              /\ Append(s, log[e])[Len(s) + 1] = log[e]
              /\ \A r \in 1 .. Len(s) : Append(s, log[e])[r] = s[r]
          BY <5>1, <5>2
        <5>4. shown(q + 1) = shown(q) \cup {e} /\ e \notin shown(q)
          BY <3>5, <4>1, <4>3, <4>4, <4>5, <5>2
        <5>5. Cardinality(shown(q + 1)) = Len(s) + 1
          <6>1. IsFiniteSet(shown(q)) /\ Cardinality(shown(q)) = Len(s)
            <7>1. shown(q) \in SUBSET seen(q)
              OBVIOUS
            <7> QED
              BY <3>4, <7>1, FS_Subset
          <6> HIDE DEF shown
          <6>2. Cardinality(shown(q) \cup {e}) = Cardinality(shown(q)) + 1
            BY <5>4, <6>1, FS_AddElement
          <6> QED
            BY <5>4, <6>1, <6>2
        <5>6. Cardinality(seen(q + 1)) <= n
          BY <4>3, <4>5, <5>2
        <5>7. ASSUME NEW i \in seen(q + 1)
              PROVE  InPlace(log, M, seen(q + 1), n, Append(s, log[e]), i)
          <6>1. CASE i = e
            BY <4>3, <4>4, <5>2, <5>3, <6>1 DEF InPlace
          <6>2. CASE i \in seen(q)
            <7>1. InPlace(log, M, seen(q), n, s, i)
              BY <3>4, <6>2
            <7> QED
              BY <4>3, <5>2, <5>3, <7>1 DEF InPlace
          <6> QED
            BY <4>1, <6>1, <6>2
        <5>8. Len(s) + 1 = IF Cardinality(seen(q + 1)) < n THEN Cardinality(seen(q + 1)) ELSE n
          BY <4>3, <5>2, <5>6
        <5> QED
          BY <4>3, <5>1, <5>3, <5>5, <5>7, <5>8
      <4>6. CASE ~(Len(s) < n)
        <5>1. acc[q + 1] = s
          BY <3>3, <4>6
        <5>2. Len(s) = n /\ Cardinality(seen(q)) >= n /\ s \in Seq(R)
          BY <3>4, <4>3, <4>6
        <5>3. shown(q + 1) = shown(q)
          BY <4>1, <4>3, <4>4, <5>2
        <5>4. ASSUME NEW i \in seen(q + 1)
              PROVE  InPlace(log, M, seen(q + 1), n, s, i)
          <6>1. CASE i = e
            BY <4>3, <4>4, <5>2, <6>1 DEF InPlace
          <6>2. CASE i \in seen(q)
            <7>1. InPlace(log, M, seen(q), n, s, i)
              BY <3>4, <6>2
            <7> QED
              BY <4>3, <7>1 DEF InPlace
          <6> QED
            BY <4>1, <6>1, <6>2
        <5>5. Len(s) = IF Cardinality(seen(q + 1)) < n THEN Cardinality(seen(q + 1)) ELSE n
          BY <4>3, <5>2
        <5>6. Len(s) = Cardinality(shown(q + 1))
          BY <3>4, <5>3
        <5> QED
          BY <4>3, <5>1, <5>2, <5>4, <5>5, <5>6
      <4> QED
        BY <4>5, <4>6
    <3> QED
      BY <3>7, <3>8
  <2>2. q + 1 \in Nat
    BY <1>5
  <2> HIDE DEF Holds
  <2> QED
    BY <2>1, <2>2
<1>6. T = Nat
  <2> HIDE DEF T
  <2>1. T \in SUBSET Nat
    BY DEF T
  <2> QED
    BY <1>4, <1>5, <2>1, NatSet
<1>7. Holds(k, FirstMatching(records, n, level))
  <2> HIDE DEF Holds, T
  <2>1. k \in T /\ k <= k
    BY <1>6, <1>k
  <2> QED
    BY <1>3, <2>1 DEF MatchingRun, T
<1>8. seen(k) = M
  BY <1>2
<1>9. {i \in seen(k) : Rank(M, i) <= n} = LastOf(M, n)
  BY <1>8 DEF LastOf
<1> DEFINE found == FirstMatching(records, n, level)
<1>10. /\ found \in Seq(R) /\ Len(found) = Cardinality(LastOf(M, n))
       /\ \A i \in LastOf(M, n) : found[Rank(M, i)] = log[i]
  <2>1. \A i \in LastOf(M, n) : i \in seen(k) /\ Rank(M, i) <= n
    BY <1>9
  <2>2. ASSUME NEW i \in LastOf(M, n) PROVE InPlace(log, M, seen(k), n, found, i)
    BY <1>7, <2>1
  <2> HIDE DEF found, seen
  <2>3. found \in Seq(R) /\ Len(found) = Cardinality({i \in seen(k) : Rank(M, i) <= n})
    BY <1>7 DEF found
  <2> QED
    BY <1>9, <2>1, <2>2, <2>3 DEF InPlace
<1> QED
  BY <1>1, <1>10 DEF M, AreLast
-----------------------------------------------------------------------------
\* A call that reads or has answered, of a tool other than create_order, came
\* there by its own step or was left alone.
LEMMA OwnStep ==
  ASSUME CreateInductive, McpTypeOK, AccessInv, McpNext, NEW c \in Calls,
         tool'[c] # "create_order", pc'[c] \in Reading \cup {"done"}
  PROVE  \/ UNCHANGED <<pc[c], tool[c], ask[c], answer[c]>>
         \/ ToolStep(c) /\ UNCHANGED tool[c] /\ pc' # [pc EXCEPT ![c] = "failed"]
<1>1. CASE QuietStep
  BY <1>1, QuietFrame DEF calls
<1>2. ASSUME NEW d \in Calls, CallStep(d), d # c
      PROVE  UNCHANGED <<pc[c], tool[c], ask[c], answer[c]>>
  BY <1>2, CallFrame DEF Same
<1>3. CASE Arrive(c)
  <2>1. pc'[c] \in {"idle", "failed"}
    BY <1>3, ArriveFrame
  <2> QED
    BY <2>1 DEF Reading
<1>4. CASE CreateOrder(c) \/ CreateOrderStep(c)
  <2>1. tool'[c] = "create_order"
    BY <1>4 DEF CreateOrder, CreateOrderStep, InsertOrder, CommitOrder, Remember, Abort,
                Ready, Open, AccessInv, Allowed, mcp, callers
  <2> QED
    BY <2>1
<1>5. CASE ToolStep(c)
  <2>1. pc = [d \in Calls |-> pc[d]]
    BY DEF CreateInductive, CreateTypeOK
  <2>2. pc' # [pc EXCEPT ![c] = "failed"]
    BY <2>1 DEF Reading
  <2> QED
    BY <1>5, <2>2, ToolFrame DEF callers
<1> QED
  BY <1>1, <1>2, <1>3, <1>4, <1>5, NextCases DEF CallStep

\* tail_logs answers at once, and predict_customer_churn goes on by itself.
LEMMA LogReaders ==
  ASSUME AccessInv, NEW c \in Calls, ToolStep(c), pc' # [pc EXCEPT ![c] = "failed"]
  PROVE  /\ tool[c] = "tail_logs" => TailLogs(c)
         /\ tool[c] = "predict_customer_churn" => PredictChurn(c)
<1> SUFFICES ASSUME tool[c] \in {"tail_logs", "predict_customer_churn"}
             PROVE  \/ tool[c] = "tail_logs" /\ TailLogs(c)
                    \/ tool[c] = "predict_customer_churn" /\ PredictChurn(c)
  BY Zenon
<1>1. ~Refuse(c) /\ ~ReadFails(c)
  BY DEF Refuse, ReadFails, Then, Goto
<1>2. ~FindLowStock(c) /\ ~GetOrderById(c) /\ ~GetMetrics(c)
  BY DEF FindLowStock, GetOrderById, GetMetrics, Ready, Reads
<1>3. ~ListRecentOrders(c) /\ ~GetCustomer360(c)
  BY DEF ListRecentOrders, GetCustomer360, Ready, Reads
<1>4. ~TriggerChaos(c) /\ ~Describe(c)
  BY DEF TriggerChaos, Describe, RequireAdmin, Ready, Reads, PlainTools
<1>5. ~GetHealth(c)
  BY DEF GetHealth, RequireAdmin, Ready, AccessInv, Allowed
<1>6. /\ TailLogs(c) => tool[c] = "tail_logs"
      /\ PredictChurn(c) => tool[c] = "predict_customer_churn"
  BY DEF TailLogs, PredictChurn, Ready, Reads
<1> QED
  BY <1>1, <1>2, <1>3, <1>4, <1>5, <1>6 DEF ToolStep
-----------------------------------------------------------------------------
\* The log only grows, and the handler hears the next line if it has heard all
\* before.
LEMMA LogGrows ==
  ASSUME CreateInductive, McpTypeOK, AccessInv, RingInv, McpNext
  PROVE  /\ Len(logged) \in Nat /\ Len(logged') \in Nat /\ Len(logged) <= Len(logged')
         /\ \A i \in 1 .. Len(logged) : logged'[i] = logged[i]
         /\ heard \in 0 .. Len(logged) /\ heard' \in Nat
         /\ heard' = heard \/ (heard = Len(logged) /\ heard <= heard')
<1>1. /\ logged \in Seq(Records)
      /\ heard \in 0 .. Len(logged) /\ (attached => heard = Len(logged))
  BY DEF McpTypeOK, RingInv
<1>2. ASSUME NEW record \in Records, Emit(record)
      PROVE  /\ Len(logged') = Len(logged) + 1
             /\ \A i \in 1 .. Len(logged) : logged'[i] = logged[i]
             /\ heard' = heard \/ (heard = Len(logged) /\ heard' = heard + 1)
  BY <1>1, <1>2 DEF Emit
<1> QED
  BY <1>1, <1>2, LogCases

\* What TailAnswers says of one answer: found is the last n lines of the level
\* among the Capacity lines up to upto.
Oldest(upto) == IF upto < Capacity THEN 1 ELSE upto - Capacity + 1
IsTail(log, n, level, upto, found) ==
  LET shown == LastOf(Matching(log, Oldest(upto), upto, level), n)
  IN /\ Len(found) = Cardinality(shown)
     /\ \A i \in shown : found[Cardinality({j \in shown : j <= i})] = log[i]
Tailed(c) == tool[c] = "tail_logs" /\ pc[c] = "done"
TailOf(c) ==
  IsTail(logged, Clamp(ask[c].n, Capacity), ask[c].level, Smaller(answer[c].upto, heard),
         answer[c].records)

LEMMA TailMeans ==
  /\ TailAnswers <=> \A c \in Calls : Tailed(c) => TailOf(c)
  /\ TailAnswers' <=> \A c \in Calls : Tailed(c)' => TailOf(c)'
BY DEF TailAnswers, Tailed, TailOf, IsTail, Oldest, LastOf, Matching, Rank, Clamp

\* Lines written later do not change what the tail was.
LEMMA TailIsStable ==
  ASSUME NEW log, NEW later, NEW upto \in Nat, \A i \in 1 .. upto : later[i] = log[i],
         NEW n, NEW level, NEW found, IsTail(log, n, level, upto, found)
  PROVE  IsTail(later, n, level, upto, found)
<1> DEFINE M == Matching(log, Oldest(upto), upto, level)
<1>1. Oldest(upto) \in Nat \ {0}
  BY Sizes DEF Oldest
<1>2. \A i \in Oldest(upto) .. upto : i \in 1 .. upto /\ later[i] = log[i]
  BY <1>1
<1>3. Matching(later, Oldest(upto), upto, level) = M
  BY <1>2 DEF Matching
<1>4. \A i \in LastOf(M, n) : later[i] = log[i]
  BY <1>2 DEF LastOf, Matching
<1> HIDE DEF M
<1>5. IsTail(log, n, level, upto, found)
        <=> /\ Len(found) = Cardinality(LastOf(M, n))
            /\ \A i \in LastOf(M, n) : found[Cardinality({j \in LastOf(M, n) : j <= i})] = log[i]
  BY DEF IsTail, M
<1> QED
  BY <1>3, <1>4, <1>5 DEF IsTail

\* The snapshot of a buffer that is the end of what was heard is its tail.
LEMMA SnapshotIsTail ==
  ASSUME NEW R, logged' \in Seq(R), ring' \in Seq(R), RingInv', NEW n \in Nat, NEW level
  PROVE  IsTail(logged', n, level, heard', Snapshot(n, level))
<1> DEFINE log == logged'
           buffer == ring'
           upto == heard'
           k == Len(buffer)
           records == Reverse(buffer)
           found == FirstMatching(records, n, level)
           M == Matching(log, upto - k + 1, upto, level)
           last == LastOf(M, n)
<1>1. /\ upto \in Nat /\ k \in 0 .. upto /\ k = IF upto < Capacity THEN upto ELSE Capacity
      /\ \A i \in 1 .. k : buffer[i] = log[upto - k + i] /\ buffer[i] \in R
  BY Sizes DEF RingInv, Smaller
<1>2. Oldest(upto) = upto - k + 1
  BY <1>1, Sizes DEF Oldest
<1>3. DOMAIN records = 1 .. k /\ \A q \in 1 .. k : records[q] = buffer[k - q + 1]
  BY <1>1 DEF Reverse
<1>4. \A q \in 1 .. k : records[q] = log[upto - q + 1] /\ records[q] \in R
  <2> SUFFICES ASSUME NEW q \in 1 .. k
               PROVE  records[q] = log[upto - q + 1] /\ records[q] \in R
    OBVIOUS
  <2> HIDE DEF log, buffer, upto, k, records
  <2>1. k - q + 1 \in 1 .. k /\ upto - k + (k - q + 1) = upto - q + 1
    BY <1>1
  <2>2. records[q] = buffer[k - q + 1]
    BY <1>3
  <2>3. buffer[k - q + 1] = log[upto - k + (k - q + 1)] /\ buffer[k - q + 1] \in R
    BY <1>1, <2>1
  <2> QED
    BY <2>1, <2>2, <2>3
<1> HIDE DEF log, buffer, upto, k, records
<1>5. AreLast(log, M, n, R, found)
  BY <1>1, <1>3, <1>4, MatchingIsLast
<1> HIDE DEF found, M
<1>f. /\ M \in SUBSET Nat /\ IsFiniteSet(M)
      /\ found \in Seq(R) /\ Len(found) = Cardinality(last)
      /\ \A i \in last : found[Rank(M, i)] = log[i]
  BY <1>5 DEF AreLast
<1>6. /\ Len(Reverse(found)) = Len(found)
      /\ \A r \in 1 .. Len(found) : Reverse(found)[r] = found[Len(found) - r + 1]
  BY <1>f DEF Reverse
<1>7. ASSUME NEW i \in last
      PROVE  Reverse(found)[Cardinality({j \in last : j <= i})] = log[i]
  <2> DEFINE r == Cardinality({j \in last : j <= i})
  <2>1. r \in 1 .. Cardinality(last) /\ Cardinality(last) - r + 1 = Rank(M, i)
    BY <1>f, RanksMeet
  <2> HIDE DEF r, last
  <2>2. Reverse(found)[r] = found[Rank(M, i)]
    BY <1>f, <1>6, <2>1
  <2> QED
    BY <1>f, <1>7, <2>2 DEF r
<1>8. Snapshot(n, level) = Reverse(found)
  BY DEF Snapshot, found, records, buffer
<1>9. IsTail(log, n, level, upto, Reverse(found))
  BY <1>2, <1>f, <1>6, <1>7 DEF IsTail, M
<1> QED
  BY <1>8, <1>9 DEF log, upto

\* Every step keeps the tails that were answered.
LEMMA TailStep ==
  ASSUME CreateInductive, McpTypeOK, AccessInv, AuditInv, RingInv, TailInv, TailAnswers, McpNext
  PROVE  TailInv' /\ TailAnswers'
<1>t. DOMAIN ask = Calls /\ DOMAIN answer = Calls
  BY DEF McpTypeOK
<1>1. ASSUME NEW c \in Calls, Tailed(c)'
      PROVE  \/ Tailed(c) /\ UNCHANGED <<ask[c], answer[c]>>
             \/ TailLogs(c)
  <2>1. tool'[c] # "create_order" /\ pc'[c] \in Reading \cup {"done"}
    BY <1>1 DEF Tailed
  <2>2. CASE UNCHANGED <<pc[c], tool[c], ask[c], answer[c]>>
    BY <1>1, <2>2 DEF Tailed
  <2>3. CASE ToolStep(c) /\ UNCHANGED tool[c] /\ pc' # [pc EXCEPT ![c] = "failed"]
    <3>1. tool[c] = "tail_logs"
      BY <1>1, <2>3 DEF Tailed
    <3> QED
      BY <2>3, <3>1, LogReaders
  <2> QED
    BY <2>1, <2>2, <2>3, OwnStep
<1>2. /\ Len(logged) \in Nat /\ Len(logged') \in Nat /\ Len(logged) <= Len(logged')
      /\ \A i \in 1 .. Len(logged) : logged'[i] = logged[i]
      /\ heard \in 0 .. Len(logged) /\ heard' \in Nat
      /\ heard' = heard \/ (heard = Len(logged) /\ heard <= heard')
  BY LogGrows
<1>3. ASSUME NEW c \in Calls, Tailed(c), UNCHANGED <<ask[c], answer[c]>>
      PROVE  answer'[c].upto \in 0 .. Len(logged') /\ TailOf(c)'
  <2> DEFINE n == Clamp(ask[c].n, Capacity)
             level == ask[c].level
             upto == Smaller(answer[c].upto, heard)
             found == answer[c].records
  <2>1. answer[c].upto \in 0 .. Len(logged)
    BY <1>3 DEF TailInv, Tailed
  <2>2. upto \in 0 .. Len(logged) /\ Smaller(answer[c].upto, heard') = upto
    BY <1>2, <2>1 DEF Smaller
  <2>3. IsTail(logged, n, level, upto, found)
    BY <1>3, TailMeans DEF TailOf
  <2>4. upto \in Nat /\ \A i \in 1 .. upto : logged'[i] = logged[i]
    BY <1>2, <2>2
  <2>5. IsTail(logged', n, level, upto, found)
    <3> HIDE DEF n, level, upto, found
    <3> QED
      BY <2>3, <2>4, TailIsStable
  <2>6. ask'[c] = ask[c] /\ answer'[c] = answer[c]
    BY <1>3
  <2>7. TailOf(c)'
    BY <2>2, <2>5, <2>6 DEF TailOf
  <2> QED
    BY <1>2, <2>1, <2>6, <2>7
<1>4. ASSUME NEW c \in Calls, TailLogs(c)
      PROVE  answer'[c].upto \in 0 .. Len(logged') /\ TailOf(c)'
  <2>1. PICK n \in Lengths, level \in Levels \cup {None} :
          /\ ask' = [ask EXCEPT ![c] = [n |-> n, level |-> level]]
          /\ answer' = [answer EXCEPT ![c] = [records |-> Snapshot(Clamp(n, Capacity), level),
                                              upto |-> Len(logged')]]
    BY <1>4 DEF TailLogs, Begin
  <2>2. /\ ask'[c] = [n |-> n, level |-> level]
        /\ answer'[c] = [records |-> Snapshot(Clamp(n, Capacity), level), upto |-> Len(logged')]
    BY <1>t, <2>1
  <2>3. Clamp(n, Capacity) \in Nat
    <3>1. n \in Int /\ Capacity \in Nat
      BY McpAssumption, Sizes
    <3> QED
      BY <3>1 DEF Clamp
  <2>4. logged' \in Seq(Records') /\ ring' \in Seq(Records') /\ RingInv'
    BY LogStep
  <2>5. IsTail(logged', Clamp(n, Capacity), level, heard', Snapshot(Clamp(n, Capacity), level))
    BY <2>3, <2>4, SnapshotIsTail
  <2>6. /\ ask'[c].n = n /\ ask'[c].level = level /\ answer'[c].upto = Len(logged')
        /\ answer'[c].records = Snapshot(Clamp(n, Capacity), level)
    BY <2>2
  <2>7. Smaller(Len(logged'), heard') = heard'
    BY <1>2, <2>4 DEF RingInv, Smaller
  <2>8. TailOf(c)'
    BY <2>5, <2>6, <2>7 DEF TailOf
  <2> QED
    BY <1>2, <2>6, <2>8
<1>5. \A c \in Calls : Tailed(c)' => answer'[c].upto \in 0 .. Len(logged') /\ TailOf(c)'
  BY <1>1, <1>3, <1>4
<1>6. TailInv'
  BY <1>5 DEF TailInv, Tailed
<1>7. TailAnswers'
  BY <1>5, TailMeans
<1> QED
  BY <1>6, <1>7
-----------------------------------------------------------------------------
\* Every step keeps the predictions those of a history.
LEMMA PredictStep ==
  ASSUME CreateInductive, McpTypeOK, AccessInv, PredictInv, McpNext
  PROVE  PredictInv'
<1> DEFINE Good(c) ==
      /\ pc'[c] = "select" => ask'[c] \in Histories \cup {None}
      /\ pc'[c] \in {"orders", "lines"} => ask'[c] \in Histories
      /\ pc'[c] = "done" /\ answer'[c] \notin {NotFound, ServiceUnavailable} =>
           ask'[c] \in Histories /\ answer'[c].features = ExtractFeatures(ask'[c], Now)
<1>t. pc = [d \in Calls |-> pc[d]] /\ DOMAIN ask = Calls /\ DOMAIN answer = Calls
  BY DEF CreateInductive, CreateTypeOK, McpTypeOK
<1>1. ASSUME NEW c \in Calls, tool[c] = "predict_customer_churn",
             UNCHANGED <<pc[c], ask[c], answer[c]>>
      PROVE  Good(c)
  BY <1>1 DEF PredictInv
<1>2. ASSUME NEW c \in Calls, tool[c] = "predict_customer_churn", PredictChurn(c)
      PROVE  Good(c)
  <2>1. CASE AnswerAtOnce(c, None, ServiceUnavailable)
    BY <1>t, <2>1 DEF AnswerAtOnce, Begin, Goto
  <2>2. ASSUME NEW h \in Histories \cup {None}, Ask(c, h, "select")
        PROVE  Good(c)
    BY <1>t, <2>2 DEF Ask, Begin, Goto
  <2>3. CASE AnswerWith(c, NotFound)
    BY <1>t, <2>3 DEF AnswerWith, Goto
  <2>4. ASSUME NEW step \in {"orders", "lines"}, Then(c, step), ask[c] \in Histories
        PROVE  Good(c)
    BY <1>t, <2>4 DEF Then, Goto, Unlogged
  <2>5. ASSUME Predict(c), ask[c] \in Histories
        PROVE  Good(c)
    <3>1. PICK band : AnswerWith(c, [features |-> ExtractFeatures(ask[c], Now), band |-> band])
      BY <2>5 DEF Predict
    <3>2. /\ pc'[c] = "done" /\ ask'[c] = ask[c]
          /\ answer'[c].features = ExtractFeatures(ask[c], Now)
      BY <1>t, <3>1 DEF AnswerWith, Goto, Unlogged
    <3> QED
      BY <2>5, <3>2
  <2>6. /\ pc[c] = "select" => ask[c] \in Histories \cup {None}
        /\ pc[c] \in {"orders", "lines"} => ask[c] \in Histories
    BY <1>2 DEF PredictInv
  <2> HIDE DEF Good
  <2> QED
    BY <1>2, <2>1, <2>2, <2>3, <2>4, <2>5, <2>6 DEF PredictChurn, Reads
<1>3. ASSUME NEW c \in Calls, tool'[c] = "predict_customer_churn",
             pc'[c] \in Reading \cup {"done"}
      PROVE  Good(c)
  <2>1. tool'[c] # "create_order"
    BY <1>3
  <2>2. CASE UNCHANGED <<pc[c], tool[c], ask[c], answer[c]>>
    BY <1>1, <1>3, <2>2
  <2>3. CASE ToolStep(c) /\ UNCHANGED tool[c] /\ pc' # [pc EXCEPT ![c] = "failed"]
    BY <1>2, <1>3, <2>3, LogReaders
  <2> HIDE DEF Good
  <2> QED
    BY <1>3, <2>1, <2>2, <2>3, OwnStep
<1>4. ASSUME NEW c \in Calls, pc'[c] \notin Reading \cup {"done"}
      PROVE  Good(c)
  BY <1>4 DEF Reading
<1>5. \A c \in Calls : tool'[c] = "predict_customer_churn" => Good(c)
  <2> HIDE DEF Good
  <2> QED
    BY <1>3, <1>4
<1> QED
  BY <1>5 DEF PredictInv, ExtractFeatures
-----------------------------------------------------------------------------
\* Every step keeps the types, the capacities and who has a user.
LEMMA McpTypeStep ==
  ASSUME McpInductive, McpNext
  PROVE  McpTypeOK'
<1>i. CreateInductive /\ McpTypeOK /\ AccessInv /\ AuditInv /\ RingInv /\ MetricsInv /\ MetricsFresh
  BY DEF McpInductive
<1>t. /\ pc = [d \in Calls |-> pc[d]]
      /\ DOMAIN headers = Calls /\ DOMAIN ask = Calls /\ DOMAIN answer = Calls
      /\ DOMAIN before = Calls /\ tool \in [Calls -> Tools \cup {None}]
      /\ session \in [Calls -> Sessions \cup {None}]
      /\ user \in [Calls -> Senders \cup {None}] /\ None \notin Tools
      /\ \A d \in Calls :
           /\ pc[d] \in Open \cup Reading \cup {"idle", "done", "failed"}
           /\ pc[d] # "failed" /\ tool[d] # None => user[d] # None
           /\ answer[d] # None => pc[d] = "done" /\ tool[d] # "create_order"
  BY <1>i, ScenariosAssumption DEF CreateInductive, CreateTypeOK, McpTypeOK
<1>1. scenario' \in Scenarios /\ clock' \in 0 .. scenario'.seconds /\ Senders' = Senders
  <2>1. UNCHANGED scenario
    BY <1>i, LogCases
  <2>2. \/ clock' = clock
        \/ clock < scenario.seconds /\ clock' = clock + 1
    <3>1. CASE QuietStep
      BY <3>1 DEF QuietStep, LogLine, CreateAppAgain, Tick, OpenSession, RestDeletesOrder
    <3> QED
      BY <1>i, <3>1, NextCases, CallFrame
  <2>3. scenario \in Scenarios /\ scenario.seconds \in Nat /\ clock \in 0 .. scenario.seconds
    BY <1>i, ScenariosAssumption DEF McpTypeOK
  <2> QED
    BY <2>1, <2>2, <2>3 DEF Senders
<1>2. /\ orders' \in [OrderIds -> Customers \cup {None}] /\ issued' \subseteq OrderIds
      /\ cached' \in Seq(Keys) /\ IsInjective(cached')
      /\ \A k \in Keys : Contains(cached', k) <=> ref'[k] # None
  <2>1. CreateInductive'
    BY <1>i, CreateStep
  <2> QED
    BY <2>1 DEF CreateInductive, CreateTypeOK, CacheInv
<1>3. logged' \in Seq(Records)' /\ ring' \in Seq(Records)' /\ Len(ring') <= Capacity
  <2>1. logged' \in Seq(Records)' /\ ring' \in Seq(Records)' /\ RingInv'
    BY <1>i, LogStep
  <2> QED
    BY <2>1, Sizes DEF RingInv, Smaller
<1>o. DOMAIN opener' = Sessions
  BY <1>i, SessionsStep DEF AccessInv
<1>4. /\ DOMAIN metrics' = (Families \cup {Blank}) \X (Labels \cup {Blank})
      /\ IsFiniteSet({k \in DOMAIN metrics' : metrics'[k] # None})
      /\ Cardinality({k \in DOMAIN metrics' : metrics'[k] # None}) <= MaxSnapshots
  BY <1>i, MetricsStep
<1> DEFINE CallsOK == /\ tool' \in [Calls -> Tools \cup {None}]
                      /\ user' \in [Calls -> Senders \cup {None}]
                      /\ session' \in [Calls -> Sessions \cup {None}]
                      /\ DOMAIN headers' = Calls /\ DOMAIN ask' = Calls
                      /\ DOMAIN answer' = Calls /\ DOMAIN before' = Calls
           CallOK(d) == /\ pc'[d] \in Open \cup Reading \cup {"idle", "done", "failed"}
                        /\ pc'[d] # "failed" /\ tool'[d] # None => user'[d] # None
                        /\ answer'[d] # None => pc'[d] = "done" /\ tool'[d] # "create_order"
<1>5. ASSUME QuietStep PROVE CallsOK /\ \A d \in Calls : CallOK(d)
  <2>1. UNCHANGED <<pc, tool, user, headers, session, ask, answer, before>>
    BY <1>5, QuietFrame DEF calls
  <2> QED
    BY <1>t, <2>1
<1>6. ASSUME NEW c \in Calls, Arrive(c) PROVE CallsOK /\ \A d \in Calls : CallOK(d)
  <2>1. /\ UNCHANGED <<ask, answer>>
        /\ before' = before \/ \E b : before' = [before EXCEPT ![c] = b]
        /\ \E x : tool' = [tool EXCEPT ![c] = x]
        /\ user' = user \/ \E u : user' = [user EXCEPT ![c] = u]
        /\ session' = session \/ \E x : session' = [session EXCEPT ![c] = x]
    BY <1>6 DEF Arrive, SetCurrentUser
  <2>2. /\ tool'[c] \in Tools /\ user'[c] \in Senders \cup {None} /\ DOMAIN headers' = Calls
        /\ session'[c] \in Sessions \cup {None}
        /\ pc'[c] \in {"idle", "failed"} /\ pc[c] = "idle"
        /\ pc'[c] = "idle" => user'[c] # None
        /\ \A d \in Calls \ {c} : pc'[d] = pc[d] /\ tool'[d] = tool[d] /\ user'[d] = user[d]
    <3>1. pc'[c] = "idle" => user'[c] # None
      BY <1>i, <1>6, ArriveFrame
    <3> QED
      BY <1>i, <1>6, <3>1, ArriveFrame DEF Signed
  <2>3. CallsOK
    <3>1. tool' \in [Calls -> Tools \cup {None}]
      BY <1>t, <2>1, <2>2
    <3>2. user' \in [Calls -> Senders \cup {None}]
      BY <1>t, <2>1, <2>2
    <3>3. DOMAIN before' = Calls
      BY <1>t, <2>1
    <3>4. session' \in [Calls -> Sessions \cup {None}]
      BY <1>t, <2>1, <2>2
    <3> QED
      BY <1>t, <2>1, <2>2, <3>1, <3>2, <3>3, <3>4
  <2>4. CallOK(c)
    BY <1>t, <2>1, <2>2
  <2>5. ASSUME NEW d \in Calls \ {c} PROVE CallOK(d)
    BY <1>t, <2>1, <2>2
  <2> QED
    BY <2>3, <2>4, <2>5
<1>7. ASSUME NEW c \in Calls, CreateOrder(c) \/ CreateOrderStep(c)
      PROVE  CallsOK /\ \A d \in Calls : CallOK(d)
  <2>1. UNCHANGED <<tool, user, headers, session, ask, answer, before>>
    BY <1>7 DEF CreateOrder, CreateOrderStep, mcp, callers
  <2>2. /\ pc[c] \in Open \cup {"idle"} /\ pc'[c] \in Open \cup {"done", "failed"}
        /\ \A d \in Calls \ {c} : pc'[d] = pc[d]
    BY <1>i, <1>7, CreateFrame DEF CreateOrder
  <2>3. CallsOK
    BY <1>t, <2>1
  <2>4. CallOK(c)
    BY <1>t, <2>1, <2>2 DEF Open
  <2>5. ASSUME NEW d \in Calls \ {c} PROVE CallOK(d)
    BY <1>t, <2>1, <2>2
  <2> QED
    BY <2>3, <2>4, <2>5
<1>8. ASSUME NEW c \in Calls, ToolStep(c)
      PROVE  CallsOK /\ \A d \in Calls : CallOK(d)
  <2>1. UNCHANGED <<tool, user, headers, session, before>>
    BY <1>8, ToolFrame DEF callers
  <2>2. PICK step : /\ pc' = [pc EXCEPT ![c] = step]
                    /\ Starts(c, step) \/ Continues(c, step) \/ IsRefused(c, step)
    BY <1>8, ToolFrame
  <2>3. /\ pc'[c] = step /\ step \in Reading \cup {"done", "failed"}
        /\ pc[c] \in Reading \cup {"idle"}
        /\ pc[c] \in Reading => tool[c] # "create_order"
        /\ pc[c] = "idle" => tool[c] # "create_order"
    <3>1. pc'[c] = step
      BY <1>t, <2>2
    <3>2. pc[c] \in Reading => tool[c] # "create_order"
      BY <1>i DEF AccessInv, Allowed
    <3>3. CASE Starts(c, step)
      BY <3>1, <3>2, <3>3 DEF Starts, Reading
    <3>4. CASE Continues(c, step)
      BY <3>1, <3>2, <3>4 DEF Continues, Reading
    <3>5. CASE IsRefused(c, step)
      BY <3>1, <3>2, <3>5 DEF IsRefused, Reading, AdminTools
    <3> QED
      BY <2>2, <3>3, <3>4, <3>5
  <2>4. /\ ask' = ask \/ \E p : ask' = [ask EXCEPT ![c] = p]
        /\ \/ answer' = answer
           \/ step = "done" /\ \E a : answer' = [answer EXCEPT ![c] = a]
    BY <2>2 DEF Starts, Continues, IsRefused
  <2>5. CallsOK
    BY <1>t, <2>1, <2>4
  <2>6. CallOK(c)
    BY <1>t, <2>1, <2>3, <2>4 DEF Reading
  <2>7. ASSUME NEW d \in Calls \ {c} PROVE CallOK(d)
    BY <1>t, <2>1, <2>2, <2>4
  <2> QED
    BY <2>5, <2>6, <2>7
<1>9. CallsOK /\ \A d \in Calls : CallOK(d)
  BY <1>5, <1>6, <1>7, <1>8, NextCases DEF CallStep
<1> QED
  BY <1>1, <1>2, <1>3, <1>4, <1>9, <1>o DEF McpTypeOK

\* The next-state relation keeps the invariant.
LEMMA McpNextInv ==
  ASSUME McpInductive, [McpNext]_mcpVars
  PROVE  McpInductive'
<1>i. CreateInductive /\ McpTypeOK /\ AccessInv /\ AuditInv /\ RingInv /\ MetricsInv
      /\ MetricsFresh /\ VisibleInv /\ AnsweredIsVisible
      /\ TailInv /\ TailAnswers /\ PredictInv
  BY DEF McpInductive
<1>1. CASE McpNext
  <2>1. CreateInductive' /\ McpTypeOK' /\ AccessInv'
    BY <1>i, <1>1, CreateStep, McpTypeStep, AccessStep
  <2>2. AuditInv' /\ RingInv' /\ MetricsInv' /\ MetricsFresh'
    BY <1>i, <1>1, LogStep, MetricsStep
  <2>3. VisibleInv' /\ AnsweredIsVisible'
    BY <1>i, <1>1, VisibleStep, FindsStep
  <2>4. TailInv' /\ TailAnswers' /\ PredictInv'
    BY <1>i, <1>1, TailStep, PredictStep
  <2> QED
    BY <2>1, <2>2, <2>3, <2>4 DEF McpInductive
<1>2. CASE UNCHANGED mcpVars
  <2>1. CreateInductive'
    BY <1>i, <1>2, StutterCreate DEF mcpVars
  <2>2. McpTypeOK'
    BY <1>i, <1>2 DEF mcpVars, mcp, callers, logs, vars, store, cache, calls, McpTypeOK,
                      Records, Senders
  <2>3. AccessInv' /\ AuditInv' /\ RingInv'
    BY <1>i, <1>2 DEF mcpVars, mcp, callers, logs, vars, store, cache, calls, AccessInv,
                      SessionsInv, Allowed, InSession, Callers, AuditInv, RingInv
  <2>4. MetricsInv' /\ MetricsFresh'
    BY <1>i, <1>2 DEF mcpVars, mcp, callers, vars, store, cache, calls, MetricsInv,
                      MetricsFresh, Collect, CacheKey
  <2>5. VisibleInv' /\ AnsweredIsVisible'
    <3>1. /\ UNCHANGED <<orders, known, issued, ref, pc, customer, order, result, tool, ask,
                        answer, deleted, before>>
          /\ VisibleInv /\ AnsweredIsVisible
      BY <1>i, <1>2 DEF mcpVars, mcp, callers, logs, vars, store, cache, calls
    <3>2. ASSUME NEW c \in Calls PROVE (Settled(c)' <=> Settled(c)) /\ (Finds(c)' <=> Finds(c))
      <4>1. Settled(c)' <=> Settled(c)
        BY <3>1 DEF Settled, Stays
      <4>2. Finds(c)' <=> Finds(c)
        BY <3>1 DEF Finds, Clamp
      <4> QED
        BY <4>1, <4>2
    <3>3. VisibleInv'
      BY <3>1, <3>2 DEF VisibleInv, Stays
    <3> QED
      BY <3>1, <3>2, <3>3 DEF AnsweredIsVisible
  <2>6. TailInv' /\ TailAnswers'
    <3>1. UNCHANGED <<pc, tool, ask, answer, logged, heard>> /\ TailInv /\ TailAnswers
      BY <1>i, <1>2 DEF mcpVars, mcp, callers, logs, vars, calls
    <3>2. TailInv'
      BY <3>1 DEF TailInv
    <3>3. \A c \in Calls : (Tailed(c)' <=> Tailed(c)) /\ (TailOf(c)' <=> TailOf(c))
      BY <3>1 DEF Tailed, TailOf
    <3> QED
      BY <3>1, <3>2, <3>3, TailMeans
  <2>7. PredictInv'
    <3>1. UNCHANGED <<pc, tool, ask, answer>> /\ PredictInv
      BY <1>i, <1>2 DEF mcpVars, mcp, callers, logs, vars, calls
    <3> QED
      BY <3>1 DEF PredictInv
  <2> QED
    BY <2>1, <2>2, <2>3, <2>4, <2>5, <2>6, <2>7 DEF McpInductive
<1> QED
  BY <1>1, <1>2
-----------------------------------------------------------------------------
\* The inductive invariant of a process of the MCP server: whatever calls of
\* whatever tools overlap, with REST deleting orders meanwhile.
THEOREM McpInvariance == McpSpec => []McpInductive
  BY McpInitInv, McpNextInv, PTL DEF McpSpec

\* deque(maxlen) and TTLCache(maxsize) hold what they may hold, whatever is
\* logged and asked.
THEOREM McpTypeTheorem == McpSpec => []McpTypeOK
<1>1. McpInductive => McpTypeOK
  BY DEF McpInductive
<1> QED
  BY <1>1, McpInvariance, PTL

\* Only the token verifier says whom a call acts for, that of its own request or
\* that of the request which opened its session: no audit line names anyone
\* else, and no administrator's tool works for one who is none.
THEOREM OwnUserTheorem == McpSpec => []OwnUser
<1>1. McpInductive => OwnUser
  <2> SUFFICES ASSUME McpInductive PROVE OwnUser
    OBVIOUS
  <2>1. ASSUME NEW h, Sender(h) # None
        PROVE  Sender(h) = RestUser(h)
    BY <2>1 DEF Sender, RestUser, VerifyToken, Bearer, CurrentUser
  <2>2. ASSUME NEW c, InSession(c)
        PROVE  user[c] \in ActsFor(c)
    <3>1. Sender(headers[c]) # None /\ Sender(opener[session[c]]) # None
      BY <2>2 DEF McpInductive, AccessInv, SessionsInv, InSession, LetIn
    <3> QED
      BY <2>1, <2>2, <3>1 DEF InSession, Callers, ActsFor
  <2>3. ASSUME NEW i \in DOMAIN logged, logged[i].call # None
        PROVE  /\ logged[i].user = user[logged[i].call]
               /\ user[logged[i].call] \in ActsFor(logged[i].call)
    BY <2>2, <2>3 DEF McpInductive, AuditInv
  <2>4. ASSUME NEW c \in Calls, tool[c] \in AdminTools, pc[c] # "failed",
               ask[c] # None \/ answer[c] # None
        PROVE  user[c] \in ActsFor(c) /\ user[c].role = "ROLE_ADMIN"
    <3>1. pc[c] # "idle" /\ Allowed(c)
      BY <2>4 DEF McpInductive, AccessInv, Allowed
    <3>2. tool[c] # None
      BY <2>4, ScenariosAssumption DEF Tools
    <3> QED
      BY <2>2, <2>4, <3>1, <3>2 DEF Allowed
  <2> QED
    BY <2>3, <2>4 DEF OwnUser
<1> QED
  BY <1>1, McpInvariance, PTL

\* Calls that share the metrics cache get snapshots of what they asked for,
\* none older than the time to live or than one given before.
THEOREM MetricsTheorem == McpSpec => []MetricsFresh
<1>1. McpInductive => MetricsFresh
  BY DEF McpInductive
<1> QED
  BY <1>1, McpInvariance, PTL

\* An order that create_order answered with is found by the reading tools
\* that are called afterwards, with no lock between them.
THEOREM VisibleTheorem == McpSpec => []AnsweredIsVisible
<1>1. McpInductive => AnsweredIsVisible
  BY DEF McpInductive
<1> QED
  BY <1>1, McpInvariance, PTL

\* A reader of the log gets, of the records the buffer still has, the newest
\* that match, in the order they were written, whatever is logged meanwhile.
THEOREM TailTheorem == McpSpec => []TailAnswers
<1>1. McpInductive => TailAnswers
  BY DEF McpInductive
<1> QED
  BY <1>1, McpInvariance, PTL

\* The model is asked about the features it was trained on: what inference.py
\* computes in one pass over the rows is, for any orders, what
\* feature_engineering.py computes with filters and groups of tables.
THEOREM FeaturesTheorem == McpSpec => []FeaturesAgree
<1>1. McpInductive => FeaturesAgree
  <2> SUFFICES ASSUME McpInductive, NEW c \in Calls,
                      tool[c] = "predict_customer_churn", pc[c] = "done",
                      answer[c] \notin {NotFound, ServiceUnavailable},
                      ask[c].orders # <<>>
               PROVE  LET served == answer[c].features IN
                        /\ served = BuildFeatures(ask[c], Now)
                        /\ \A quiet \in Windows : LabelChurn(ask[c], Now, quiet, 0, 0) =>
                             /\ served.daysSinceLast >= quiet
                             /\ \A w \in Windows : w <= quiet => served.revenue[w] = 0
    BY DEF FeaturesAgree
  <2>1. ask[c] \in Histories /\ answer[c].features = ExtractFeatures(ask[c], Now)
    BY DEF McpInductive, PredictInv
  <2>2. ask[c].created \in Int /\ ask[c].orders \in OrderRows /\ Now \in Int
    BY <2>1, McpAssumption
  <2>3. answer[c].features = BuildFeatures(ask[c], Now)
    BY <2>1, <2>2, ServedIsTrained
  <2>4. \A quiet \in Windows : LabelChurn(ask[c], Now, quiet, 0, 0) =>
          /\ BuildFeatures(ask[c], Now).daysSinceLast >= quiet
          /\ \A w \in Windows : w <= quiet => BuildFeatures(ask[c], Now).revenue[w] = 0
    BY <2>2, QuietIsShown
  <2> QED
    BY <2>3, <2>4
<1> QED
  BY <1>1, McpInvariance, PTL

\* The idempotency cache stays bounded while other tools are called and REST
\* deletes orders.
THEOREM McpCacheTheorem == McpSpec => []CacheBounded
<1>1. McpInductive => CacheBounded
  BY DEF McpInductive, CreateInductive, CacheInv
<1> QED
  BY <1>1, McpInvariance, PTL

\* So do its references name only orders that were committed for the key.
THEOREM McpRefsTheorem == McpSpec => []RefsWereCommitted
<1>1. McpInductive => RefsWereCommitted
  BY DEF McpInductive, CreateInductive
<1> QED
  BY <1>1, McpInvariance, PTL

\* In the whole server, too, a key creates one order unless it is excused.
THEOREM McpOneOrderTheorem == McpSpec => []OneOrderPerKey
<1>1. McpInductive => OneOrderPerKey
  BY KeyHasOneOrder DEF McpInductive
<1> QED
  BY <1>1, McpInvariance, PTL

\* And retries of a key that is not excused get the same reference.
THEOREM McpSameRefTheorem == McpSpec => []SameKeySameRef
<1>1. McpInductive => SameKeySameRef
  BY KeyHasOneRef DEF McpInductive
<1> QED
  BY <1>1, McpInvariance, PTL
=============================================================================
