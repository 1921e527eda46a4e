------------------------- MODULE OrdersTotalProofs -------------------------
(***************************************************************************)
(* Proofs about orders.total_amount: it is the sum of the lines unless two *)
(* line writers of the order have overlapped, whatever else runs.          *)
(*                                                                         *)
(* What the sum of a table is matters little here: two tables that agree   *)
(* on the amounts of an order have the same one, and no line makes none.   *)
(*                                                                         *)
(* With one connection in the pool nothing is raced: the total is exact    *)
(* and the handlers implement OrderLedger.                                 *)
(***************************************************************************)
EXTENDS OrdersProofs, FiniteSetTheorems

\* Two versions of the table order_line agree on the amounts of order o.
SameAmounts(ls, ms, o) ==
  \A l \in LineIds :
     /\ (ls[l] # None /\ ls[l].order = o) <=> (ms[l] # None /\ ms[l].order = o)
     /\ (ls[l] # None /\ ls[l].order = o)
           => ls[l].qty = ms[l].qty /\ ls[l].price = ms[l].price

\* The total is a function of the amounts.
LEMMA TotalOfAmounts ==
  ASSUME NEW ls, NEW ms, NEW o, SameAmounts(ls, ms, o)
  PROVE  OrderTotal(ls, o) = OrderTotal(ms, o)
<1>1. LinesOf(ls, o) = LinesOf(ms, o)
  BY DEF SameAmounts, LinesOf
<1>2. \A l \in LinesOf(ls, o) : ls[l].qty * ls[l].price = ms[l].qty * ms[l].price
  BY DEF SameAmounts, LinesOf
<1>3. Amounts(ls, o) = Amounts(ms, o)
  BY <1>1, <1>2 DEF Amounts
<1> QED
  BY <1>3 DEF OrderTotal

\* An order without lines has total 0.
LEMMA EmptyTotal ==
  ASSUME NEW ls, NEW o, LinesOf(ls, o) = {}
  PROVE  OrderTotal(ls, o) = 0
<1> DEFINE f == Amounts(ls, o)
<1>1. OrderTotal(ls, o) = SumFunction(f)
  BY DEF OrderTotal
<1>2. DOMAIN f = {}
  BY DEF Amounts
<1> HIDE DEF f
<1>3. SumFunction(f) = 0
  BY <1>2 DEF SumFunction, SumFunctionOnSet, FoldFunctionOnSet, MapThenFoldSet
<1> QED
  BY <1>1, <1>3

\* Every initial state satisfies TotalInv.
LEMMA InitTotal == Init => TotalInv
<1> SUFFICES ASSUME Init PROVE TotalInv
  OBVIOUS
<1>1. TotalExactUnlessRaced
  BY DEF Init, TotalExactUnlessRaced
<1>2. ASSUME NEW r \in Requests PROVE TargetsOK(r) /\ OwnLines(r) /\ SumOK(r)
  <2>1. pc[r] = "idle" /\ pc[r] \notin Steps /\ locks[r] = {}
    BY DEF Init, Steps
  <2> QED
    BY <2>1 DEF TargetsOK, OwnLines, SumOK, HasTotal, Writing
<1> QED
  BY <1>1, <1>2 DEF TotalInv

\* What a step that is no COMMIT leaves of the history and of the others.
LEMMA HistoryKept ==
  ASSUME IInv, NEW r \in Requests, Begin(r) \/ Step(r) \/ Fail(r), ~Commit(r)
  PROVE  /\ tainted' = tainted /\ issued \subseteq issued'
         /\ raced' = raced \/ raced' = raced \ {r}
         /\ ~Over(r) => raced' = raced
         /\ \A s \in Requests \ {r} : local'[s] = local[s]
<1> DEFINE Kept == /\ tainted' = tainted /\ issued \subseteq issued'
                   /\ raced' = raced
                   /\ \A s \in Requests \ {r} : local'[s] = local[s]
<1>1. ASSUME NEW outcome \in Final, Rollback(r, outcome)
      PROVE  /\ tainted' = tainted /\ issued \subseteq issued'
             /\ raced' = raced \ {r} /\ Over(r)
             /\ \A s \in Requests \ {r} : local'[s] = local[s]
  BY <1>1, RollbackEnds DEF Rollback, Finish, IInv, TypeOK
<1>2. \/ \E outcome \in Final : Rollback(r, outcome)
      \/ Kept
      \/ \E l \in LineIds : AddLineInsert(r, l)
  <2>1. CASE Begin(r)
    <3> USE DEF Reject, Final, Enter, history, IInv, TypeOK
    <3>1. CASE CreateOrderNoId(r)
      BY <3>1 DEF CreateOrderNoId
    <3>2. CASE \E o \in OrderIds : CreateOrderInsert(r, o)
      BY <3>2 DEF CreateOrderInsert, Finish
    <3>3. CASE \E o \in OrderIds : CancelOrderGet(r, o) \/ DeleteOrderGet(r, o)
      BY <3>3 DEF CancelOrderGet, DeleteOrderGet
    <3>4. CASE \E o \in OrderIds, t \in OrderStatus : OrderStatusGet(r, o, t)
      BY <3>4 DEF OrderStatusGet
    <3>5. CASE \E o \in OrderIds, p \in Products, q \in Quantities :
                  AddLineGetOrder(r, o, p, q)
      BY <3>5 DEF AddLineGetOrder
    <3>6. CASE \E o \in OrderIds, l \in LineIds : DeleteLineGet(r, o, l)
      BY <3>6 DEF DeleteLineGet
    <3>7. CASE \E o \in OrderIds, l \in LineIds, t \in LineStatus :
                  LineStatusGet(r, o, l, t)
      BY <3>7 DEF LineStatusGet
    <3>8. CASE \E p \in Products : \/ \E price \in Prices : ProductGet(r, p, price)
                                   \/ DeleteProductGet(r, p)
      BY <3>8 DEF ProductGet, DeleteProductGet
    <3> QED
      BY <2>1, <3>1, <3>2, <3>3, <3>4, <3>5, <3>6, <3>7, <3>8 DEF Begin
  <2>2. CASE Step(r)
    <3> USE DEF Reject, Final, history, IInv, TypeOK
    <3>1. CASE AddLineGetProduct(r) \/ AddLineNoId(r)
      BY <3>1 DEF AddLineGetProduct, AddLineNoId
    <3>2. CASE RecomputeSelect(r) \/ RecomputeUpdate(r) \/ OrderStatusUpdate(r)
                  \/ OrderStatusRefresh(r)
      BY <3>2 DEF RecomputeSelect, RecomputeUpdate, OrderStatusUpdate,
                  UpdateOrderRow, OrderStatusRefresh
    <3>3. CASE DeleteLineDelete(r) \/ DeleteLineGetOrder(r)
                  \/ LineStatusUpdate(r) \/ LineStatusRefresh(r)
      BY <3>3 DEF DeleteLineDelete, DeleteLineGetOrder, LineStatusUpdate,
                  LineStatusRefresh
    <3>4. CASE DeleteOrderDelete(r) \/ DeleteOrderCascade(r)
      BY <3>4 DEF DeleteOrderDelete, DeleteOrderCascade
    <3>5. CASE ProductUpdate(r) \/ ProductRefresh(r) \/ DeleteProductDelete(r)
                  \/ DeadlockVictim(r)
      BY <3>5 DEF ProductUpdate, ProductRefresh, DeleteProductDelete,
                  DeadlockVictim
    <3> QED
      BY <2>2, <3>1, <3>2, <3>3, <3>4, <3>5 DEF Step
  <2>3. CASE Fail(r)
    BY <2>3 DEF Fail, Final
  <2> QED
    BY <2>1, <2>2, <2>3
<1>3. ASSUME NEW l \in LineIds, AddLineInsert(r, l)
      PROVE  /\ tainted' = tainted /\ issued \subseteq issued'
             /\ \/ raced' = raced \ {r} /\ Over(r)
                \/ raced' = raced
             /\ \A s \in Requests \ {r} : local'[s] = local[s]
  BY <1>3, RollbackEnds
     DEF AddLineInsert, Finish, history, Final, IInv, TypeOK
<1> QED
  BY <1>1, <1>2, <1>3
-----------------------------------------------------------------------------
(***************************************************************************)
(* The statements before the COMMIT.                                       *)
(***************************************************************************)

\* The rows of order_line that a statement adds to the locks of its request.
LEMMA StepLines ==
  ASSUME IInv, NEW r \in Requests, Step(r), ~Commit(r), ~Over(r)
  PROVE  /\ call[r].op # "create_order"
         /\ locks[r] \subseteq locks'[r]
         /\ pc'[r] = "cascade" => call[r].order \in locks'[r]
         /\ \A l \in (locks'[r] \ locks[r]) \cap LineIds :
               \/ call[r].op = "add_line" /\ l \notin issued
               \/ call[r].op = "delete_line" /\ l = call[r].line
               \/ call[r].op = "update_line_status"
               \/ /\ call[r].op = "delete_order" /\ pc[r] = "cascade"
                  /\ l \in LinesOf(lines, call[r].order)
<1>1. /\ pc[r] \in Steps \ {"commit"} /\ pc'[r] \in Steps
      /\ call'[r] = call[r] /\ ~Fail(r) /\ ~DeadlockVictim(r)
      /\ ~Rollback(r, "error") /\ ~Rollback(r, "rejected") /\ ~Finish(r, "error")
  BY StepShape, RollbackEnds DEF Fail, DeadlockVictim, Final
<1>2. <<pc[r], call[r].op>> \in Handlers /\ CallShape(call[r])
  BY <1>1, AtStep
<1>3. /\ locks \in [Requests -> SUBSET Rows]
      /\ pc \in [Requests -> Steps \cup Final \cup {"idle"}]
  BY DEF IInv, TypeOK, Rows
<1>4. call[r].op # "create_order"
  BY <1>1, <1>2 DEF Handlers, LineWriters
<1>5. (LineIds \cap OrderIds = {}) /\ (LineIds \cap Products = {})
  BY IdsAssumption
<1> USE DEF Goto, Lock
<1>6. CASE AddLineGetProduct(r) \/ RecomputeSelect(r) \/ DeleteLineGetOrder(r)
              \/ LineStatusRefresh(r) \/ OrderStatusRefresh(r)
              \/ ProductRefresh(r)
  <2>1. locks'[r] = locks[r]
    BY <1>1, <1>6
       DEF AddLineGetProduct, Reject, RecomputeSelect, DeleteLineGetOrder,
           LineStatusRefresh, OrderStatusRefresh, ProductRefresh
  <2>2. pc'[r] # "cascade"
    BY <1>1, <1>3, <1>6
       DEF AddLineGetProduct, Reject, RecomputeSelect, DeleteLineGetOrder,
           LineStatusRefresh, OrderStatusRefresh, ProductRefresh
  <2> QED
    BY <1>4, <2>1, <2>2
<1>7. ASSUME NEW l \in LineIds, AddLineInsert(r, l)
      PROVE  /\ call[r].op = "add_line" /\ l \notin issued
             /\ locks'[r] = locks[r] \cup {l} /\ pc'[r] = "select_lines"
  BY <1>1, <1>2, <1>3, <1>7 DEF AddLineInsert, Handlers, LineWriters
<1>8. CASE RecomputeUpdate(r) \/ OrderStatusUpdate(r)
  <2>1. /\ locks'[r] = locks[r] \cup {call[r].order} /\ pc'[r] = "commit"
        /\ pc[r] \in {"update_total", "update_order"}
    BY <1>1, <1>3, <1>8 DEF RecomputeUpdate, OrderStatusUpdate, UpdateOrderRow
  <2>2. call[r].order \in OrderIds
    BY <1>2, <2>1 DEF CallShape, Handlers, LineWriters, OrderOps, LineOps
  <2> QED
    BY <1>4, <1>5, <2>1, <2>2
<1>9. CASE DeleteLineDelete(r)
  <2>1. /\ locks'[r] = locks[r] \/ locks'[r] = locks[r] \cup {call[r].line}
        /\ pc[r] = "delete_line" /\ pc'[r] = "get_order"
    BY <1>3, <1>9 DEF DeleteLineDelete
  <2>2. call[r].op = "delete_line"
    BY <1>2, <2>1 DEF Handlers, LineWriters
  <2> QED
    BY <2>1, <2>2
<1>10. CASE LineStatusUpdate(r)
  <2>1. /\ locks'[r] = locks[r] \cup {call[r].line}
        /\ pc[r] = "update_line" /\ pc'[r] = "commit"
    BY <1>1, <1>3, <1>10 DEF LineStatusUpdate
  <2>2. call[r].op = "update_line_status"
    BY <1>2, <2>1 DEF Handlers, LineWriters
  <2> QED
    BY <2>1, <2>2
<1>11. CASE DeleteOrderDelete(r)
  <2>1. /\ \/ locks'[r] = locks[r] /\ pc'[r] = "commit"
           \/ locks'[r] = locks[r] \cup {call[r].order} /\ pc'[r] = "cascade"
        /\ pc[r] = "delete_order"
    BY <1>3, <1>11 DEF DeleteOrderDelete
  <2>2. call[r].order \in OrderIds
    BY <1>2, <2>1 DEF CallShape, Handlers, LineWriters, OrderOps
  <2> QED
    BY <1>4, <1>5, <2>1, <2>2
<1>12. CASE DeleteOrderCascade(r)
  <2>1. /\ locks'[r] = locks[r] \cup LinesOf(lines, call[r].order)
        /\ pc[r] = "cascade" /\ pc'[r] = "commit"
    BY <1>3, <1>12 DEF DeleteOrderCascade
  <2>2. call[r].op = "delete_order"
    BY <1>2, <2>1 DEF Handlers, LineWriters
  <2> QED
    BY <2>1, <2>2
<1>13. CASE ProductUpdate(r) \/ DeleteProductDelete(r)
  <2>1. /\ \/ locks'[r] = locks[r] \cup {call[r].product}
           \/ locks'[r] = locks[r]
        /\ pc'[r] = "commit" /\ pc[r] \in {"update_product", "delete_product"}
    BY <1>1, <1>3, <1>13 DEF ProductUpdate, DeleteProductDelete
  <2>2. call[r].product \in Products
    BY <1>2, <2>1 DEF CallShape, Handlers, LineWriters, ProductOps
  <2> QED
    BY <1>4, <1>5, <2>1, <2>2
<1>14. ~AddLineNoId(r)
  BY <1>1 DEF AddLineNoId
<1> QED
  BY <1>1, <1>6, <1>7, <1>8, <1>9, <1>10, <1>11, <1>12, <1>13, <1>14 DEF Step

\* What r would make of the lines depends on its own session and the table.
LEMMA LinesAfterKept ==
  ASSUME NEW s \in Requests, lines' = lines, call'[s] = call[s],
         local'[s].price = local[s].price,
         locks'[s] \cap LineIds = locks[s] \cap LineIds
  PROVE  LinesAfter(s)' = LinesAfter(s)
BY DEF LinesAfter, LineAfter, NewLine

\* A statement keeps its request's sum, or computes it from the lines it sees.
LEMMA SumStep ==
  ASSUME IInv, TotalInv, NEW r \in Requests, Step(r), ~Commit(r), ~Over(r)
  PROVE  SumOK(r)'
<1> SUFFICES ASSUME r \notin raced', HasTotal(r)', orders'[call[r].order] # None
             PROVE  /\ local'[r].total = orders'[call[r].order].total
                    /\ pc'[r] \in {"update_total", "commit"} =>
                          local'[r].sum = OrderTotal(LinesAfter(r)', call[r].order)
                    /\ pc'[r] = "commit" => \/ call[r].order \in locks'[r]
                                            \/ local'[r].sum = local'[r].total
  BY StepShape DEF SumOK
<1>1. /\ pc[r] \in Steps \ {"commit"} /\ pc'[r] \in Steps
      /\ call'[r] = call[r] /\ ~Fail(r) /\ ~DeadlockVictim(r)
      /\ ~Rollback(r, "error") /\ ~Rollback(r, "rejected") /\ ~Finish(r, "error")
      /\ UNCHANGED tables /\ r \notin raced
  BY StepShape, RollbackEnds, TablesKept, HistoryKept
     DEF Fail, DeadlockVictim, Final
<1>2. <<pc[r], call[r].op>> \in Handlers /\ CallShape(call[r])
      /\ call[r].op \in LineWriters /\ orders[call[r].order] # None
  BY <1>1, AtStep DEF HasTotal, Writing, tables
<1>3. /\ locks \in [Requests -> SUBSET Rows] /\ local \in [Requests -> Local]
      /\ pc \in [Requests -> Steps \cup Final \cup {"idle"}]
  BY DEF IInv, TypeOK, Rows
<1>4. SumOK(r)
  BY DEF TotalInv
<1> USE DEF Goto, Lock
<1>5. CASE AddLineGetProduct(r)
  <2>1. /\ pc[r] = "get_product" /\ pc'[r] = "insert_line"
        /\ local'[r].total = local[r].total
    BY <1>1, <1>3, <1>5 DEF AddLineGetProduct, Reject, Local
  <2> QED
    BY <1>1, <1>2, <1>4, <2>1
       DEF SumOK, HasTotal, Writing, Handlers, LineWriters, tables
<1>6. CASE \E l \in LineIds : AddLineInsert(r, l)
  <2>1. pc[r] = "insert_line" /\ pc'[r] = "select_lines" /\ local' = local
    BY <1>1, <1>3, <1>6 DEF AddLineInsert
  <2> QED
    BY <1>1, <1>2, <1>4, <2>1
       DEF SumOK, HasTotal, Writing, Handlers, LineWriters, tables
<1>7. CASE RecomputeSelect(r)
  <2>1. /\ pc[r] = "select_lines" /\ locks' = locks
        /\ local'[r].sum = OrderTotal(LinesAfter(r), call[r].order)
        /\ local'[r].total = local[r].total
        /\ local'[r].price = local[r].price
        /\ pc'[r] = IF local'[r].sum = local[r].total THEN "commit"
                                                      ELSE "update_total"
    BY <1>1, <1>3, <1>7 DEF RecomputeSelect, Local
  <2>2. LinesAfter(r)' = LinesAfter(r)
    BY <1>1, <2>1, LinesAfterKept DEF tables
  <2>3. HasTotal(r)
    BY <1>1, <1>2, <2>1 DEF HasTotal, Writing
  <2> QED
    BY <1>1, <1>2, <1>4, <2>1, <2>2, <2>3 DEF SumOK, tables
<1>8. CASE RecomputeUpdate(r)
  <2>1. /\ pc[r] = "update_total" /\ local' = local
        /\ locks'[r] = locks[r] \cup {call[r].order}
    BY <1>1, <1>2, <1>3, <1>8 DEF RecomputeUpdate, UpdateOrderRow
  <2>2. call[r].order \in OrderIds
    BY <1>2 DEF CallShape, LineWriters, LineOps
  <2>3. LinesAfter(r)' = LinesAfter(r)
    BY <1>1, <2>1, <2>2, LinesAfterKept, IdsAssumption DEF tables
  <2>4. HasTotal(r)
    BY <1>1, <1>2, <2>1 DEF HasTotal, Writing
  <2> QED
    BY <1>1, <1>2, <1>4, <2>1, <2>3, <2>4 DEF SumOK, tables
<1>9. CASE DeleteLineDelete(r)
  <2>1. pc[r] = "delete_line" /\ pc'[r] = "get_order"
    BY <1>3, <1>9 DEF DeleteLineDelete
  <2> QED
    BY <1>1, <1>2, <2>1 DEF HasTotal, Handlers, LineWriters
<1>10. CASE DeleteLineGetOrder(r)
  <2>1. /\ pc[r] = "get_order" /\ pc'[r] = "select_lines"
        /\ local'[r].total = orders[call[r].order].total
    BY <1>2, <1>3, <1>10 DEF DeleteLineGetOrder, Local
  <2> QED
    BY <1>1, <2>1 DEF tables
<1>11. CASE ~(\/ AddLineGetProduct(r) \/ RecomputeSelect(r) \/ RecomputeUpdate(r)
              \/ DeleteLineDelete(r) \/ DeleteLineGetOrder(r)
              \/ \E l \in LineIds : AddLineInsert(r, l))
  BY <1>1, <1>2, <1>11
     DEF Step, AddLineNoId, LineStatusUpdate, LineStatusRefresh, Handlers,
         OrderStatusUpdate, UpdateOrderRow, OrderStatusRefresh, LineWriters,
         DeleteOrderDelete, DeleteOrderCascade, ProductUpdate, ProductRefresh,
         DeleteProductDelete
<1> QED
  BY <1>5, <1>6, <1>7, <1>8, <1>9, <1>10, <1>11

\* Until the COMMIT of one of them, requests do not see each other's lines,
\* and the ids they work with are not handed out again.
LEMMA TargetsStep ==
  ASSUME IInv, ParentsInv, TotalInv, NEW r \in Requests,
         Begin(r) \/ Step(r) \/ Fail(r), ~Commit(r)
  PROVE  \A s \in Requests : TargetsOK(s)'
<1> SUFFICES ASSUME NEW s \in Requests PROVE TargetsOK(s)'
  OBVIOUS
<1>1. OthersKept(r) /\ UNCHANGED tables /\ issued \subseteq issued'
  BY BeginShape, StepShape, TablesKept, HistoryKept
<1>2. Over(r) \/ (Begin(r) /\ ~Over(r)) \/ (Step(r) /\ ~Over(r))
  <2>1. CASE Fail(r)
    BY <2>1, RollbackEnds DEF Fail, Final
  <2> QED
    BY <2>1
<1>3. TargetsOK(s)
  BY DEF TotalInv
<1>4. ASSUME call'[r].op = "create_order", ~Over(r), NEW o \in locks'[r] \cap issued
      PROVE  o \notin OrderIds
  BY <1>2, <1>4, BeginShape, StepLines, StepShape
<1>5. ASSUME call'[r].op = "add_line", ~Over(r), NEW l \in locks'[r] \cap LineIds
      PROVE  (l \in locks[r] /\ call[r].op = "add_line") \/ l \notin issued
  BY <1>2, <1>5, BeginShape, StepLines, StepShape
<1>6. Writing(s)' => \/ Writing(s) /\ call'[s] = call[s]
                     \/ s = r /\ Begin(r) /\ ~Over(r)
  <2>1. CASE s # r
    BY <1>1, <2>1 DEF OthersKept, Writing
  <2>2. CASE s = r /\ Over(r)
    BY <2>2 DEF Over, Writing, Final, Steps
  <2>3. CASE s = r /\ Step(r) /\ ~Over(r)
    BY <2>3, StepShape DEF Writing
  <2> QED
    BY <1>2, <2>1, <2>2, <2>3
<1>7. ASSUME Writing(s), call'[s] = call[s]
      PROVE  TargetsOK(s)'
  <2>1. /\ call[s].order \in OrderIds
        /\ call[s].op = "delete_line" => call[s].line \in LineIds
    BY <1>7, AtStep DEF Writing, CallShape, LineWriters, LineOps
  <2>2. ASSUME NEW u \in Requests, call'[u].op = "create_order"
        PROVE  call[s].order \notin locks'[u]
    BY <1>1, <1>3, <1>4, <1>7, <2>1, <2>2 DEF TargetsOK, OthersKept, Over
  <2>3. ASSUME NEW u \in Requests, call'[u].op = "add_line",
               call[s].op = "delete_line"
        PROVE  call[s].line \notin locks'[u]
    BY <1>1, <1>3, <1>5, <1>7, <2>1, <2>3 DEF TargetsOK, OthersKept, Over
  <2> QED
    BY <1>1, <1>3, <1>7, <2>2, <2>3 DEF TargetsOK, tables
<1>8. ASSUME s = r, Begin(r), ~Over(r), Writing(r)'
      PROVE  TargetsOK(s)'
  <2>1. Asked(call'[r], local'[r], pc'[r]) /\ CallShape(call'[r])
    BY <1>8, BeginCall, BeginInv, AtStep DEF IInv, RequestOK, Writing
  <2>2. /\ call'[r].order \in OrderIds
        /\ call'[r].op = "delete_line" => call'[r].line \in LineIds
        /\ call'[r].op \in LineWriters
    BY <1>8, <2>1 DEF Writing, CallShape, LineWriters, LineOps
  <2>3. /\ orders[call'[r].order] # None
        /\ call'[r].op = "delete_line" =>
              /\ lines[call'[r].line] # None
              /\ lines[call'[r].line].order = call'[r].order
    BY <2>1, <2>2, <1>1 DEF Asked, LineWriters, ParentsInv, LinesHaveParents, tables
  <2>4. /\ call'[r].order \in issued
        /\ call'[r].op = "delete_line" => call'[r].line \in issued
    BY <2>2, <2>3 DEF IInv, RowsIssued
  <2>5. ASSUME NEW u \in Requests, call'[u].op = "create_order"
        PROVE  call'[r].order \notin locks'[u]
    <3>1. u # r /\ call[u].op = "create_order" /\ locks'[u] = locks[u]
      BY <1>1, <2>2, <2>5 DEF OthersKept, LineWriters
    <3>2. WritesOK(call[u], locks[u])
      BY DEF IInv, RequestOK
    <3> QED
      BY <2>2, <2>3, <3>1, <3>2 DEF WritesOK
  <2>6. ASSUME NEW u \in Requests, call'[u].op = "add_line",
               call'[r].op = "delete_line"
        PROVE  call'[r].line \notin locks'[u]
    <3>1. u # r /\ call[u].op = "add_line" /\ locks'[u] = locks[u]
      BY <1>1, <2>6 DEF OthersKept
    <3>2. WritesOK(call[u], locks[u])
      BY DEF IInv, RequestOK
    <3> QED
      BY <2>2, <2>3, <2>6, <3>1, <3>2 DEF WritesOK
  <2> QED
    BY <1>1, <1>8, <2>3, <2>4, <2>5, <2>6 DEF TargetsOK, tables
<1> QED
  BY <1>6, <1>7, <1>8 DEF TargetsOK

\* No handler starts in the middle of a cascade.
LEMMA BeginFirst ==
  ASSUME IInv, NEW r \in Requests, Begin(r)
  PROVE  pc'[r] # "cascade"
<1>1. pc \in [Requests -> Steps \cup Final \cup {"idle"}]
  BY DEF IInv, TypeOK
<1> USE DEF Reject, Rollback, Finish, Enter, Goto
<1>2. CASE CreateOrderNoId(r) \/ \E o \in OrderIds : CreateOrderInsert(r, o)
  BY <1>1, <1>2 DEF CreateOrderNoId, CreateOrderInsert
<1>3. CASE \E o \in OrderIds :
              \/ CancelOrderGet(r, o) \/ DeleteOrderGet(r, o)
              \/ \E t \in OrderStatus : OrderStatusGet(r, o, t)
  BY <1>1, <1>3 DEF CancelOrderGet, DeleteOrderGet, OrderStatusGet
<1>4. CASE \E o \in OrderIds, p \in Products, q \in Quantities :
              AddLineGetOrder(r, o, p, q)
  BY <1>1, <1>4 DEF AddLineGetOrder
<1>5. CASE \E o \in OrderIds, l \in LineIds : DeleteLineGet(r, o, l)
  BY <1>1, <1>5 DEF DeleteLineGet
<1>6. CASE \E o \in OrderIds, l \in LineIds, t \in LineStatus :
              LineStatusGet(r, o, l, t)
  BY <1>1, <1>6 DEF LineStatusGet
<1>7. CASE \E p \in Products : \/ \E price \in Prices : ProductGet(r, p, price)
                               \/ DeleteProductGet(r, p)
  BY <1>1, <1>7 DEF ProductGet, DeleteProductGet
<1> QED
  BY <1>2, <1>3, <1>4, <1>5, <1>6, <1>7 DEF Begin

\* A DELETE goes on holding the lines it names and no others.
LEMMA OwnLinesStep ==
  ASSUME IInv, TotalInv, NEW r \in Requests,
         Begin(r) \/ Step(r) \/ Fail(r), ~Commit(r)
  PROVE  \A s \in Requests : OwnLines(s)'
<1> SUFFICES ASSUME NEW s \in Requests PROVE OwnLines(s)'
  OBVIOUS
<1>1. OthersKept(r) /\ UNCHANGED tables
  BY BeginShape, StepShape, TablesKept
<1>2. OwnLines(s)
  BY DEF TotalInv
<1>3. CASE s # r
  BY <1>1, <1>2, <1>3 DEF OthersKept, OwnLines, tables
<1>4. CASE s = r /\ Over(r)
  BY <1>4 DEF Over, OwnLines, Final
<1>5. CASE s = r /\ Begin(r) /\ ~Over(r)
  <2>1. locks'[r] = {} \/ call'[r].op = "create_order"
    BY <1>5, BeginShape
  <2>2. pc'[r] # "cascade"
    BY <1>5, BeginFirst
  <2> QED
    BY <1>5, <2>1, <2>2 DEF OwnLines
<1>6. CASE s = r /\ Step(r) /\ ~Over(r)
  <2>1. call'[r] = call[r]
    BY <1>6, StepShape
  <2> QED
    BY <1>1, <1>2, <1>6, <2>1, StepLines, IdsAssumption
       DEF OwnLines, LinesOf, tables
<1>7. CASE Fail(r)
  BY <1>4, <1>3, <1>7, RollbackEnds DEF Fail, Final
<1> QED
  BY <1>3, <1>4, <1>5, <1>6, <1>7

\* A statement spoils no total, committed or computed.
LEMMA TotalStep ==
  ASSUME IInv, ParentsInv, TotalInv, NEW r \in Requests,
         Begin(r) \/ Step(r) \/ Fail(r), ~Commit(r)
  PROVE  TotalInv'
<1>1. OthersKept(r) /\ UNCHANGED tables
  BY BeginShape, StepShape, TablesKept
<1>2. TotalExactUnlessRaced'
  BY <1>1, HistoryKept DEF TotalInv, TotalExactUnlessRaced, tables
<1>3. ASSUME NEW s \in Requests PROVE SumOK(s)'
  <2>1. CASE s # r
    <3>1. /\ pc'[s] = pc[s] /\ call'[s] = call[s] /\ local'[s] = local[s]
          /\ locks'[s] = locks[s]
          /\ s \notin raced' => s \notin raced
      BY <1>1, <2>1, HistoryKept DEF OthersKept
    <3>2. LinesAfter(s)' = LinesAfter(s)
      BY <1>1, <3>1, LinesAfterKept DEF tables
    <3>3. SumOK(s)
      BY DEF TotalInv
    <3> QED
      BY <1>1, <3>1, <3>2, <3>3 DEF SumOK, HasTotal, Writing, tables
  <2>2. CASE s = r /\ Over(r)
    BY <2>2 DEF Over, SumOK, HasTotal, Writing, Final, Steps
  <2>3. CASE s = r /\ Step(r) /\ ~Over(r)
    BY <2>3, SumStep
  <2>4. CASE s = r /\ Begin(r) /\ ~Over(r)
    <3>1. Asked(call'[r], local'[r], pc'[r])
      BY <2>4, BeginCall
    <3> QED
      BY <1>1, <2>4, <3>1
         DEF SumOK, HasTotal, Writing, LineWriters, Asked, tables
  <2>5. CASE s = r /\ Fail(r)
    BY <2>2, <2>5, RollbackEnds DEF Fail, Final
  <2> QED
    BY <2>1, <2>2, <2>3, <2>4, <2>5
<1> QED
  BY <1>2, <1>3, TargetsStep, OwnLinesStep DEF TotalInv
-----------------------------------------------------------------------------
(***************************************************************************)
(* The COMMIT.                                                             *)
(***************************************************************************)

\* Only a line writer of an order, or its DELETE, changes its amounts.
LEMMA CommitAmounts ==
  ASSUME IInv, TotalInv, NEW r \in Requests, Commit(r), NEW o \in OrderIds,
         ~(call[r].op \in LineWriters /\ call[r].order = o),
         ~(call[r].op = "delete_order" /\ call[r].order = o /\ o \in locks[r])
  PROVE  SameAmounts(lines', lines, o)
<1>1. /\ pc[r] \in Steps /\ WritesOK(call[r], locks[r])
      /\ OwnLines(r) /\ TargetsOK(r)
  BY AtStep DEF Commit, Steps, TotalInv
<1> SUFFICES ASSUME NEW l \in LineIds
             PROVE  /\ (lines'[l] # None /\ lines'[l].order = o)
                           <=> (lines[l] # None /\ lines[l].order = o)
                    /\ (lines'[l] # None /\ lines'[l].order = o)
                           => /\ lines'[l].qty = lines[l].qty
                              /\ lines'[l].price = lines[l].price
  BY DEF SameAmounts
<1>2. lines'[l] = LineAfter(r, l) /\ lines[l] \in LineRow \cup {None}
  BY DEF Commit, LinesAfter, IInv, TypeOK
<1>3. CASE l \notin locks[r]
  BY <1>2, <1>3 DEF LineAfter
<1>4. CASE l \in locks[r] /\ call[r].op = "add_line"
  BY <1>1, <1>2, <1>4 DEF LineAfter, NewLine, WritesOK, LineWriters
<1>5. CASE l \in locks[r] /\ call[r].op = "update_line_status"
  <2>1. /\ lines[l] \in LineRow
        /\ lines'[l] = [lines[l] EXCEPT !.status = call[r].target]
    BY <1>1, <1>2, <1>5 DEF LineAfter, WritesOK
  <2> QED
    <3>1. call[r].target \in LineStatus
      BY <1>1, <1>5, AtStep DEF CallShape
    <3>2. lines'[l] \in LineRow
      BY <2>1, <3>1 DEF LineRow
    <3> QED
      BY <2>1, <3>2, NoneAssumption DEF LineRow
<1>6. CASE l \in locks[r] /\ call[r].op = "delete_line"
  BY <1>1, <1>2, <1>6
     DEF LineAfter, OwnLines, TargetsOK, Writing, WritesOK, LineWriters
<1>7. CASE l \in locks[r] /\ call[r].op = "delete_order"
  BY <1>1, <1>2, <1>7 DEF LineAfter, OwnLines
<1> QED
  BY <1>1, <1>3, <1>4, <1>5, <1>6, <1>7 DEF WritesOK, LineOps

\* The total a COMMIT publishes: of a new order, one it leaves, or its sum.
LEMMA CommitTotal ==
  ASSUME IInv, NEW r \in Requests, Commit(r),
         NEW o \in OrderIds, orders'[o] # None
  PROVE  \/ /\ orders[o] = None /\ orders'[o].total = 0
            /\ call[r].op = "create_order" /\ o \in locks[r]
         \/ /\ orders[o] # None /\ orders'[o].total = orders[o].total
            /\ \/ o \notin locks[r]
               \/ call[r].op \notin LineWriters \cup {"delete_order"}
         \/ /\ orders[o] # None /\ orders'[o].total = local[r].sum
            /\ call[r].op \in LineWriters /\ o = call[r].order
<1>1. pc[r] \in Steps /\ WritesOK(call[r], locks[r])
  BY AtStep DEF Commit, Steps
<1>2. orders'[o] = OrderAfter(r, o) /\ orders[o] \in OrderRow \cup {None}
  BY DEF Commit, IInv, TypeOK
<1>3. CASE o \notin locks[r]
  BY <1>2, <1>3 DEF OrderAfter
<1>4. CASE o \in locks[r] /\ call[r].op = "create_order"
  BY <1>1, <1>2, <1>4 DEF OrderAfter, WritesOK
<1>5. CASE o \in locks[r] /\ call[r].op # "create_order"
  <2>1. /\ orders[o] \in OrderRow /\ o = call[r].order
        /\ call[r].op # "delete_order" /\ orders[o] # None
    BY <1>1, <1>2, <1>5 DEF OrderAfter, WritesOK
  <2>2. CASE call[r].op \in LineWriters
    <3>1. orders'[o] = [orders[o] EXCEPT !.total = local[r].sum]
      BY <1>2, <1>5, <2>1, <2>2 DEF OrderAfter, LineWriters
    <3> QED
      BY <2>1, <2>2, <3>1 DEF OrderRow
  <2>3. CASE call[r].op \notin LineWriters
    <3>1. orders'[o] = [orders[o] EXCEPT !.status = call[r].target]
      BY <1>2, <1>5, <2>1, <2>3 DEF OrderAfter, LineWriters
    <3> QED
      BY <2>1, <2>3, <3>1 DEF OrderRow
  <2> QED
    BY <2>2, <2>3
<1> QED
  BY <1>3, <1>4, <1>5

\* A line writer that nobody has raced publishes the sum of the lines it
\* leaves; every other request leaves totals and amounts as they were.
LEMMA ExactCommit ==
  ASSUME IInv, ParentsInv, TotalInv, NEW r \in Requests, Commit(r)
  PROVE  TotalExactUnlessRaced'
<1> SUFFICES ASSUME NEW o \in OrderIds, orders'[o] # None, o \notin tainted'
             PROVE  orders'[o].total = OrderTotal(lines', o)
  BY DEF TotalExactUnlessRaced
<1>1. /\ pc[r] = "commit" /\ pc[r] \in Steps /\ lines' = LinesAfter(r)
      /\ SumOK(r)
  BY DEF Commit, Steps, TotalInv
<1>2. CASE call[r].op \in LineWriters /\ call[r].order = o
  <2>1. r \notin raced /\ HasTotal(r) /\ orders[o] # None
    BY <1>1, <1>2, CommitTotal DEF Commit, HasTotal, Writing, LineWriters
  <2>2. /\ local[r].total = orders[o].total
        /\ local[r].sum = OrderTotal(lines', o)
        /\ o \in locks[r] \/ local[r].sum = local[r].total
    BY <1>1, <1>2, <2>1 DEF SumOK
  <2> QED
    BY <1>2, <2>1, <2>2, CommitTotal
<1>3. CASE ~(call[r].op \in LineWriters /\ call[r].order = o)
  <2>1. SameAmounts(lines', lines, o)
    BY <1>3, CommitTotal, CommitAmounts DEF LineWriters
  <2>2. CASE orders[o] # None
    <3>1. o \notin tainted
      BY <1>3 DEF Commit
    <3>2. orders[o].total = OrderTotal(lines, o)
      BY <2>2, <3>1 DEF TotalInv, TotalExactUnlessRaced
    <3> QED
      BY <1>3, <2>1, <2>2, <3>2, CommitTotal, TotalOfAmounts
  <2>3. CASE orders[o] = None
    <3>1. LinesOf(lines', o) = {}
      BY <2>1, <2>3
         DEF SameAmounts, LinesOf, ParentsInv, LinesHaveParents
    <3> QED
      BY <2>3, <3>1, CommitTotal, EmptyTotal
  <2> QED
    BY <2>2, <2>3
<1> QED
  BY <1>2, <1>3

\* A session sees the change of another through the amounts alone.
LEMMA AfterSame ==
  ASSUME IInv, NEW s \in Requests, NEW o, SameAmounts(lines', lines, o),
         call'[s] = call[s], local'[s] = local[s], locks'[s] = locks[s],
         pc[s] \in Steps, call[s].op \in LineWriters
  PROVE  SameAmounts(LinesAfter(s)', LinesAfter(s), o)
<1> SUFFICES ASSUME NEW l \in LineIds
             PROVE  \/ LineAfter(s, l)' = LineAfter(s, l)
                    \/ /\ l \notin locks[s] /\ LineAfter(s, l)' = lines'[l]
                       /\ LineAfter(s, l) = lines[l]
  BY DEF SameAmounts, LinesAfter
<1> QED
  BY DEF LineAfter, NewLine, LineWriters

\* The COMMIT of r under the session of another request s.
LEMMA OthersCommit ==
  ASSUME IInv, TotalInv, NEW r \in Requests, Commit(r),
         NEW s \in Requests \ {r}
  PROVE  TargetsOK(s)' /\ OwnLines(s)' /\ SumOK(s)'
<1>1. /\ pc'[s] = pc[s] /\ call'[s] = call[s] /\ local'[s] = local[s]
      /\ locks'[s] = locks[s] /\ locks'[r] = {} /\ issued' = issued
      /\ \A u \in Requests \ {r} : call'[u] = call[u] /\ locks'[u] = locks[u]
  BY DEF Commit, Finish, Goto, IInv, TypeOK
<1>2. TargetsOK(s) /\ OwnLines(s) /\ SumOK(s) /\ locks[r] \cap locks[s] = {}
  BY DEF TotalInv, IInv, LocksDisjoint
<1>3. pc[r] \in Steps /\ WritesOK(call[r], locks[r])
  BY AtStep DEF Commit, Steps
<1>4. \A l \in LineIds \ locks[r] : lines'[l] = lines[l]
  BY DEF Commit, LinesAfter, LineAfter
<1>5. OwnLines(s)'
  BY <1>1, <1>2, <1>4 DEF OwnLines
<1>6. TargetsOK(s)'
  <2>1. ASSUME Writing(s), call[s].op = "delete_line", lines'[call[s].line] # None
        PROVE  lines'[call[s].line].order = call[s].order
    <3>1. call[s].line \in LineIds
      BY <2>1, AtStep DEF Writing, CallShape
    <3>2. ~(call[s].line \in locks[r] /\ call[r].op = "add_line")
      BY <1>2, <2>1 DEF TargetsOK
    <3>3. lines[call[s].line] # None
          /\ lines'[call[s].line].order = lines[call[s].line].order
      BY <2>1, <3>1, <3>2, CommitLine
    <3> QED
      BY <1>2, <2>1, <3>3 DEF TargetsOK
  <2>2. \A u \in Requests : locks'[u] # {} => u # r
    BY <1>1
  <2> QED
    BY <1>1, <1>2, <2>1, <2>2 DEF TargetsOK, Writing
<1>7. SumOK(s)'
  <2> SUFFICES ASSUME s \notin raced', HasTotal(s), orders'[call[s].order] # None
               PROVE  /\ local[s].total = orders'[call[s].order].total
                      /\ pc[s] \in {"update_total", "commit"} =>
                            local[s].sum =
                               OrderTotal(LinesAfter(s)', call[s].order)
                      /\ pc[s] = "commit" => \/ call[s].order \in locks[s]
                                             \/ local[s].sum = local[s].total
    BY <1>1 DEF SumOK, HasTotal, Writing
  <2> DEFINE o == call[s].order
  <2>1. Writing(s) /\ o \in OrderIds /\ s \in Open
    BY AtStep DEF HasTotal, Writing, CallShape, LineWriters, LineOps, Open
  <2>2. ~(call[r].op \in LineWriters /\ call[r].order = o)
    BY <2>1 DEF Commit, Overtaken, Writing
  <2>3. orders[o] # None /\ orders'[o].total = orders[o].total
    BY <1>2, <2>1, <2>2, CommitTotal DEF TargetsOK
  <2>4. s \notin raced
    BY DEF Commit
  <2>5. SameAmounts(lines', lines, o)
    BY <2>1, <2>2, CommitTotal, CommitAmounts DEF LineWriters
  <2>6. SameAmounts(LinesAfter(s)', LinesAfter(s), o)
    BY <1>1, <2>1, <2>5, AfterSame DEF Writing
  <2>7. OrderTotal(LinesAfter(s)', o) = OrderTotal(LinesAfter(s), o)
    BY <2>6, TotalOfAmounts
  <2> QED
    BY <1>2, <2>3, <2>4, <2>7 DEF SumOK
<1> QED
  BY <1>5, <1>6, <1>7

\* No COMMIT spoils a total that another request has not raced.
LEMMA TotalCommit ==
  ASSUME IInv, ParentsInv, TotalInv, NEW r \in Requests, Commit(r)
  PROVE  TotalInv'
<1>1. pc'[r] = "ok" /\ locks'[r] = {}
  BY DEF Commit, Finish, Goto, IInv, TypeOK
<1>2. TargetsOK(r)' /\ OwnLines(r)' /\ SumOK(r)'
  BY <1>1 DEF TargetsOK, OwnLines, SumOK, HasTotal, Writing, Steps
<1> QED
  BY <1>2, ExactCommit, OthersCommit DEF TotalInv

\* No interleaving leaves TotalInv: a stale total is written only by a line
\* writer that another line writer of its order has overtaken.
THEOREM TotalInvariance == Spec => []TotalInv
<1>1. TotalInv /\ UNCHANGED vars => TotalInv'
  BY DEF TotalInv, TotalExactUnlessRaced, TargetsOK, OwnLines, SumOK, HasTotal,
         Writing, LinesAfter, LineAfter, NewLine, vars
<1>2. IInv /\ ParentsInv /\ TotalInv /\ [Next]_vars => TotalInv'
  BY <1>1, TotalStep, TotalCommit DEF Next
<1> QED
  BY InitTotal, Invariance, ParentsInvariance, <1>2, PTL DEF Spec

\* orders.total_amount is the sum of the lines of the order, unless two line
\* writers of the order have overlapped and none has run alone since.
THEOREM TotalTheorem == Spec => []TotalExactUnlessRaced
<1>1. TotalInv => TotalExactUnlessRaced
  BY DEF TotalInv
<1> QED
  BY TotalInvariance, <1>1, PTL

\* The invariant that the runs check holds for every number of requests.
THEOREM InductiveInvariance == Spec => []Inductive
<1>1. IInv /\ StatusInv /\ ParentsInv /\ TotalInv => Inductive
  BY DEF Inductive
<1> QED
  BY Invariance, StatusInvariance, ParentsInvariance, TotalInvariance, <1>1, PTL
-----------------------------------------------------------------------------
(***************************************************************************)
(* One connection.  Requests do not overlap, the total is always exact and *)
(* the handlers implement OrderLedger.                                     *)
(***************************************************************************)

\* Every initial state satisfies SerialInv.
LEMMA InitSerial == Init => SerialInv
BY DEF Init, SerialInv, Open, Steps

\* The one connection is free when a request begins.
LEMMA BeginsAlone ==
  ASSUME PoolSize = 1, SerialInv, NEW r \in Requests, Begin(r)
  PROVE  Open = {}
<1>1. Cardinality(Open) < 1
  BY Zenon DEF Begin, CreateOrderNoId, CreateOrderInsert, CancelOrderGet,
     DeleteOrderGet, OrderStatusGet, AddLineGetOrder, DeleteLineGet,
     LineStatusGet, ProductGet, DeleteProductGet, Starts
<1> SUFFICES ASSUME NEW s \in Open PROVE FALSE
  OBVIOUS
<1>2. Open = {s}
  BY DEF SerialInv
<1>3. Cardinality(Open) = 1
  BY <1>2, FS_Singleton
<1> QED
  BY <1>1, <1>3

\* A statement leaves what the request has read as it was, and an add_line
\* inserts one line.
LEMMA CurrentStep ==
  ASSUME IInv, SerialInv, NEW r \in Requests, Step(r), ~Commit(r), ~Over(r)
  PROVE  Current(r)'
<1>1. /\ pc[r] \in Steps \ {"commit"} /\ pc'[r] \in Steps
      /\ call'[r] = call[r] /\ ~Fail(r) /\ ~DeadlockVictim(r)
      /\ ~Rollback(r, "error") /\ ~Rollback(r, "rejected") /\ ~Finish(r, "error")
      /\ UNCHANGED tables
  BY StepShape, RollbackEnds, TablesKept DEF Fail, DeadlockVictim, Final
<1>2. <<pc[r], call[r].op>> \in Handlers /\ CallShape(call[r])
  BY <1>1, AtStep
<1>3. /\ locks \in [Requests -> SUBSET Rows] /\ local \in [Requests -> Local]
      /\ pc \in [Requests -> Steps \cup Final \cup {"idle"}]
  BY DEF IInv, TypeOK, Rows
<1>4. Current(r)
  BY <1>1 DEF SerialInv, Open
<1>5. CASE call[r].op # "add_line"
  BY <1>1, <1>4, <1>5 DEF Current, OrderMayMove, LineMayMove, tables
<1>6. CASE call[r].op = "add_line"
  <2> SUFFICES /\ pc'[r] # "get_product"
                    => local'[r].price = products'[call[r].product]
               /\ IF pc'[r] \in {"get_product", "insert_line"}
                  THEN locks'[r] \cap LineIds = {}
                  ELSE \E l \in LineIds : locks'[r] \cap LineIds = {l}
    BY <1>1, <1>6 DEF Current
  <2> USE DEF Goto, Lock
  <2>1. CASE AddLineGetProduct(r)
    <3>1. /\ pc[r] = "get_product" /\ pc'[r] = "insert_line" /\ locks' = locks
          /\ local'[r].price = products[call[r].product]
      BY <1>1, <1>3, <2>1 DEF AddLineGetProduct, Reject, Local
    <3> QED
      BY <1>1, <1>4, <1>6, <3>1 DEF Current, tables
  <2>2. ASSUME NEW l \in LineIds, AddLineInsert(r, l)
        PROVE  /\ pc[r] = "insert_line" /\ pc'[r] = "select_lines"
               /\ locks'[r] = locks[r] \cup {l} /\ local' = local
    BY <1>1, <1>3, <2>2 DEF AddLineInsert
  <2>3. CASE \E l \in LineIds : AddLineInsert(r, l)
    <3>1. PICK l \in LineIds : AddLineInsert(r, l)
      BY <2>3
    <3>2. locks'[r] \cap LineIds = {l}
      BY <1>4, <1>6, <2>2, <3>1 DEF Current
    <3> QED
      BY <1>1, <1>4, <1>6, <2>2, <3>1, <3>2 DEF Current, tables
  <2>4. CASE RecomputeSelect(r)
    <3>1. /\ pc[r] = "select_lines" /\ pc'[r] \in {"commit", "update_total"}
          /\ locks' = locks /\ local'[r].price = local[r].price
      BY <1>1, <1>3, <2>4 DEF RecomputeSelect, Local
    <3> QED
      BY <1>1, <1>4, <1>6, <3>1 DEF Current, tables
  <2>5. CASE RecomputeUpdate(r)
    <3>1. /\ pc[r] = "update_total" /\ pc'[r] = "commit" /\ local' = local
          /\ locks'[r] = locks[r] \cup {call[r].order}
      BY <1>1, <1>3, <2>5 DEF RecomputeUpdate, UpdateOrderRow
    <3>2. call[r].order \in OrderIds
      BY <1>2, <1>6 DEF CallShape, LineOps
    <3>3. locks'[r] \cap LineIds = locks[r] \cap LineIds
      BY <3>1, <3>2, IdsAssumption
    <3> QED
      BY <1>1, <1>4, <1>6, <3>1, <3>3 DEF Current, tables
  <2>6. CASE ~(\/ AddLineGetProduct(r) \/ RecomputeSelect(r) \/ RecomputeUpdate(r)
               \/ \E l \in LineIds : AddLineInsert(r, l))
    BY <1>1, <1>2, <1>6, <2>6
       DEF Step, AddLineNoId, LineStatusUpdate, LineStatusRefresh, Handlers,
           OrderStatusUpdate, UpdateOrderRow, OrderStatusRefresh, LineWriters,
           DeleteOrderDelete, DeleteOrderCascade, ProductUpdate, ProductRefresh,
           DeleteProductDelete, DeleteLineDelete, DeleteLineGetOrder
  <2> QED
    BY <2>1, <2>3, <2>4, <2>5, <2>6
<1> QED
  BY <1>5, <1>6

\* A request that executes a statement is open.
LEMMA StepsAreOpen ==
  ASSUME NEW r \in Requests, Step(r)
  PROVE  r \in Open
<1> USE DEF Open, Steps
<1>1. CASE AddLineGetProduct(r) \/ AddLineNoId(r) \/ \E l \in LineIds : AddLineInsert(r, l)
  BY <1>1 DEF AddLineGetProduct, AddLineNoId, AddLineInsert
<1>2. CASE RecomputeSelect(r) \/ RecomputeUpdate(r) \/ OrderStatusUpdate(r)
              \/ OrderStatusRefresh(r)
  BY <1>2 DEF RecomputeSelect, RecomputeUpdate, OrderStatusUpdate, UpdateOrderRow,
              OrderStatusRefresh
<1>3. CASE DeleteLineDelete(r) \/ DeleteLineGetOrder(r) \/ LineStatusUpdate(r)
              \/ LineStatusRefresh(r)
  BY <1>3 DEF DeleteLineDelete, DeleteLineGetOrder, LineStatusUpdate, LineStatusRefresh
<1>4. CASE DeleteOrderDelete(r) \/ DeleteOrderCascade(r) \/ ProductUpdate(r)
              \/ ProductRefresh(r) \/ DeleteProductDelete(r)
  BY <1>4 DEF DeleteOrderDelete, DeleteOrderCascade, ProductUpdate, ProductRefresh,
              DeleteProductDelete
<1>5. CASE Commit(r) \/ DeadlockVictim(r)
  BY <1>5 DEF Commit, DeadlockVictim, WaitsFor
<1> QED
  BY <1>1, <1>2, <1>3, <1>4, <1>5 DEF Step

\* With one connection no step leaves SerialInv.
LEMMA SerialStep ==
  ASSUME PoolSize = 1, IInv, SerialInv, NEW r \in Requests,
         Begin(r) \/ Step(r) \/ Fail(r)
  PROVE  SerialInv'
<1>1. Open \subseteq {r}
  <2>1. CASE Begin(r)
    BY <2>1, BeginsAlone
  <2>2. CASE Step(r) \/ Fail(r)
    <3>1. r \in Open
      BY <2>2, StepsAreOpen DEF Fail
    <3> QED
      BY <3>1 DEF SerialInv
  <2> QED
    BY <2>1, <2>2
<1>2. OthersKept(r)
  BY BeginShape, StepShape, RollbackEnds DEF Commit, Final
<1>3. Open' \subseteq {r}
  BY <1>1, <1>2 DEF Open, OthersKept
<1>4. CASE Commit(r)
  <2>1. Over(r)
    BY <1>4, RollbackEnds DEF Commit, Final
  <2>2. Open' = {}
    BY <1>3, <2>1 DEF Over, Open, Final, Steps
  <2>3. Overtaken(r) = {}
    BY <1>1 DEF Overtaken
  <2>4. raced' = {} /\ tainted' = {}
    BY <1>4, <2>3 DEF Commit, SerialInv
  <2> QED
    BY <2>2, <2>4 DEF SerialInv
<1>5. CASE ~Commit(r)
  <2>1. raced' = {} /\ tainted' = {} /\ UNCHANGED tables
    BY <1>5, HistoryKept, TablesKept DEF SerialInv
  <2>2. ASSUME ~Over(r) PROVE Current(r)'
    <3>1. CASE Begin(r)
      <4>1. Asked(call'[r], local'[r], pc'[r])
        BY <2>2, <3>1, BeginCall
      <4>2. call'[r].op = "add_line" => locks'[r] = {}
        BY <2>2, <3>1, BeginShape
      <4> QED
        BY <2>1, <4>1, <4>2 DEF Current, Asked, OrderMayMove, LineMayMove, tables
    <3>2. CASE Step(r)
      BY <1>5, <2>2, <3>2, CurrentStep
    <3> QED
      BY <2>2, <3>1, <3>2, RollbackEnds DEF Fail, Final
  <2>3. Over(r) => r \notin Open'
    BY DEF Over, Open, Final, Steps
  <2> QED
    BY <1>3, <2>1, <2>2, <2>3 DEF SerialInv
<1> QED
  BY <1>4, <1>5

\* The ledger's sum of an order's lines is the one the handlers compute.
LEMMA LedgerSum ==
  ASSUME NEW f
  PROVE  Ledger!SumFunction(f) = SumFunction(f)
BY Zenon
   DEF Ledger!SumFunction, SumFunction, Ledger!SumFunctionOnSet, SumFunctionOnSet,
       Ledger!FoldFunctionOnSet, FoldFunctionOnSet, Ledger!MapThenFoldSet, MapThenFoldSet

\* And so is its total.
LEMMA LedgerTotal ==
  ASSUME NEW ls, NEW o
  PROVE  Ledger!OrderTotal(ls, o) = OrderTotal(ls, o)
BY LedgerSum DEF Ledger!OrderTotal, OrderTotal, Ledger!Amounts, Amounts,
                 Ledger!LinesOf, LinesOf

\* An initial state of the handlers is one of the ledger.
LEMMA LedgerInit == Init => Ledger!Init
BY LedgerTotal
   DEF Init, Ledger!Init, Ledger!TypeOK, Ledger!References, Ledger!Totals,
       Ledger!OrderRow, OrderRow, Ledger!LineRow, LineRow, Ledger!OrderStatus,
       OrderStatus, Ledger!LineStatus, LineStatus

\* A COMMIT changes the rows its request has locked.
LEMMA CommitTables ==
  ASSUME IInv, NEW r \in Requests, Commit(r)
  PROVE  /\ locks[r] \cap OrderIds = {} => orders' = orders
         /\ locks[r] \cap LineIds = {} => lines' = lines
         /\ locks[r] \cap Products = {} => products' = products
         /\ \A o \in OrderIds : locks[r] \cap OrderIds = {o} =>
               orders' = [orders EXCEPT ![o] = OrderAfter(r, o)]
         /\ \A l \in LineIds : locks[r] \cap LineIds = {l} =>
               lines' = [lines EXCEPT ![l] = LineAfter(r, l)]
         /\ \A p \in Products : locks[r] \cap Products = {p} =>
               products' = [products EXCEPT ![p] = ProductAfter(r, p)]
<1>1. /\ orders' = [o \in OrderIds |-> OrderAfter(r, o)]
      /\ lines' = [l \in LineIds |-> LineAfter(r, l)]
      /\ products' = [p \in Products |-> ProductAfter(r, p)]
  BY DEF Commit, LinesAfter
<1>2. /\ orders = [o \in OrderIds |-> orders[o]]
      /\ lines = [l \in LineIds |-> lines[l]]
      /\ products = [p \in Products |-> products[p]]
  BY DEF IInv, TypeOK
<1>3. /\ \A o \in OrderIds \ locks[r] : OrderAfter(r, o) = orders[o]
      /\ \A l \in LineIds \ locks[r] : LineAfter(r, l) = lines[l]
      /\ \A p \in Products \ locks[r] : ProductAfter(r, p) = products[p]
  BY DEF OrderAfter, LineAfter, ProductAfter
<1>4. locks[r] \cap OrderIds = {} => orders' = orders
  BY <1>1, <1>2, <1>3
<1>5. locks[r] \cap LineIds = {} => lines' = lines
  BY <1>1, <1>2, <1>3
<1>6. locks[r] \cap Products = {} => products' = products
  BY <1>1, <1>2, <1>3
<1>7. ASSUME NEW o \in OrderIds, locks[r] \cap OrderIds = {o}
      PROVE  orders' = [orders EXCEPT ![o] = OrderAfter(r, o)]
  BY <1>1, <1>2, <1>3, <1>7
<1>8. ASSUME NEW l \in LineIds, locks[r] \cap LineIds = {l}
      PROVE  lines' = [lines EXCEPT ![l] = LineAfter(r, l)]
  BY <1>1, <1>2, <1>3, <1>8
<1>9. ASSUME NEW p \in Products, locks[r] \cap Products = {p}
      PROVE  products' = [products EXCEPT ![p] = ProductAfter(r, p)]
  BY <1>1, <1>2, <1>3, <1>9
<1> QED
  BY <1>4, <1>5, <1>6, <1>7, <1>8, <1>9

\* A COMMIT of a request that does not write lines is a step of the ledger.
LEMMA OrderCommitRefines ==
  ASSUME IInv, StatusInv, SerialInv, NEW r \in Requests, Commit(r),
         call[r].op \in OrderOps \ {"delete_order"}
  PROVE  Ledger!Next \/ UNCHANGED tables
<1> DEFINE o == call[r].order
<1>1. /\ pc[r] \in Steps /\ CallShape(call[r]) /\ WritesOK(call[r], locks[r])
      /\ Current(r) /\ AsksOK(pc[r], call[r], locks[r])
  BY AtStep DEF Commit, Steps, SerialInv, Open, StatusInv
<1>2. o \in OrderIds
  BY <1>1 DEF CallShape, OrderOps
<1>3. lines' = lines /\ products' = products
  BY <1>1, CommitTables DEF WritesOK, OrderOps, LineOps, ProductOps
<1>4. CASE o \notin locks[r]
  <2>1. locks[r] \cap OrderIds = {}
    BY <1>1, <1>4 DEF WritesOK
  <2> QED
    BY <1>3, <2>1, CommitTables DEF tables
<1>5. CASE o \in locks[r]
  <2>1. locks[r] \cap OrderIds = {o}
    BY <1>1, <1>2, <1>5 DEF WritesOK
  <2>2. orders' = [orders EXCEPT ![o] = OrderAfter(r, o)]
    BY <1>2, <2>1, CommitTables
  <2>3. orders[o] = None <=> call[r].op = "create_order"
    BY <1>1, <1>2, <1>5 DEF WritesOK
  <2>4. CASE call[r].op = "create_order"
    <3>1. OrderAfter(r, o) = [status |-> "PENDING", total |-> 0]
      BY <1>5, <2>4 DEF OrderAfter
    <3>2. Ledger!CreateOrder(o)
      BY <1>3, <2>2, <2>3, <2>4, <3>1 DEF Ledger!CreateOrder
    <3> QED
      BY <1>2, <3>2 DEF Ledger!Next
  <2>5. CASE call[r].op \in {"update_order_status", "cancel_order"}
    <3>1. OrderAfter(r, o) = [orders[o] EXCEPT !.status = call[r].target]
      BY <1>5, <2>5 DEF OrderAfter, LineWriters
    <3>2. orders[o] # None
      BY <2>3, <2>5
    <3>3. CASE call[r].op = "update_order_status"
      <4>1. OrderCanTransition(orders[o].status, call[r].target)
        BY <1>1, <3>3 DEF Current, OrderMayMove
      <4>2. Ledger!SetOrderStatus(o, call[r].target)
        BY <1>3, <2>2, <3>1, <3>2, <4>1
           DEF Ledger!SetOrderStatus, Ledger!OrderCanTransition, OrderCanTransition,
               Ledger!OrderEdges, OrderEdges
      <4>3. call[r].target \in Ledger!OrderStatus
        BY <1>1, <3>3 DEF CallShape, Ledger!OrderStatus, OrderStatus
      <4> QED
        BY <1>2, <4>2, <4>3 DEF Ledger!Next
    <3>4. CASE call[r].op = "cancel_order"
      <4>1. call[r].target = "CANCELLED"
        BY <1>1, <3>4 DEF AsksOK
      <4>2. Ledger!CancelOrder(o)
        BY <1>3, <2>2, <3>1, <3>2, <4>1 DEF Ledger!CancelOrder
      <4> QED
        BY <1>2, <4>2 DEF Ledger!Next
    <3> QED
      BY <2>5, <3>3, <3>4
  <2> QED
    BY <2>4, <2>5 DEF OrderOps
<1> QED
  BY <1>4, <1>5

\* DELETE of an order takes its lines along, as the ledger's does.
LEMMA DeleteOrderRefines ==
  ASSUME IInv, ParentsInv, TotalInv, NEW r \in Requests, Commit(r),
         call[r].op = "delete_order"
  PROVE  Ledger!Next \/ UNCHANGED tables
<1> DEFINE o == call[r].order
<1>1. /\ pc[r] = "commit" /\ pc[r] \in Steps /\ CallShape(call[r])
      /\ WritesOK(call[r], locks[r]) /\ OwnLines(r)
      /\ ParentsOK(pc[r], call[r], locks[r], shares[r])
  BY AtStep DEF Commit, Steps, TotalInv, ParentsInv
<1>2. o \in OrderIds
  BY <1>1 DEF CallShape, OrderOps
<1>3. products' = products
  BY <1>1, CommitTables DEF WritesOK, ProductOps
<1>4. CASE o \notin locks[r]
  <2>1. locks[r] \cap OrderIds = {} /\ locks[r] \cap LineIds = {}
    BY <1>1, <1>4 DEF WritesOK, OwnLines
  <2> QED
    BY <1>3, <2>1, CommitTables DEF tables
<1>5. CASE o \in locks[r]
  <2>1. locks[r] \cap OrderIds = {o}
    BY <1>1, <1>2, <1>5 DEF WritesOK
  <2>2. orders' = [orders EXCEPT ![o] = None] /\ orders[o] # None
    <3>1. OrderAfter(r, o) = None
      BY <1>5 DEF OrderAfter
    <3> QED
      BY <1>1, <1>2, <1>5, <2>1, <3>1, CommitTables DEF WritesOK
  <2>3. \A l \in LineIds : l \in locks[r] <=> l \in LinesOf(lines, o)
    <3>1. LinesOf(lines, o) \subseteq locks[r]
      BY <1>1, <1>5 DEF ParentsOK
    <3>2. ASSUME NEW l \in LineIds, l \in locks[r] PROVE l \in LinesOf(lines, o)
      BY <1>1, <3>2 DEF WritesOK, OwnLines, LinesOf
    <3> QED
      BY <3>1, <3>2
  <2>4. lines' = [l \in LineIds |-> IF l \in LinesOf(lines, o) THEN None ELSE lines[l]]
    <3>1. \A l \in LineIds :
             LineAfter(r, l) = IF l \in LinesOf(lines, o) THEN None ELSE lines[l]
      BY <2>3 DEF LineAfter
    <3> QED
      BY <3>1 DEF Commit, LinesAfter
  <2>5. Ledger!LinesOf(lines, o) = LinesOf(lines, o)
    BY DEF Ledger!LinesOf, LinesOf
  <2>6. Ledger!DeleteOrder(o)
    BY <1>3, <2>2, <2>4, <2>5 DEF Ledger!DeleteOrder
  <2> QED
    BY <1>2, <2>6 DEF Ledger!Next
<1> QED
  BY <1>4, <1>5

\* What the COMMIT of a line writer leaves of the order: the sum of its lines.
LEMMA TotalCommitted ==
  ASSUME IInv, TotalInv, SerialInv, NEW r \in Requests, Commit(r),
         call[r].op \in LineWriters, orders[call[r].order] # None
  PROVE  /\ OrderTotal(lines', call[r].order) \in 0..MaxTotal
         /\ orders' = [orders EXCEPT ![call[r].order].total =
                                        OrderTotal(lines', call[r].order)]
         /\ products' = products
<1> DEFINE o == call[r].order
<1>1. /\ pc[r] = "commit" /\ pc[r] \in Steps /\ CallShape(call[r])
      /\ WritesOK(call[r], locks[r]) /\ local[r] \in Local
  BY AtStep DEF Commit, Steps
<1>2. o \in OrderIds
  BY <1>1 DEF CallShape, LineWriters, LineOps
<1>3. products' = products
  BY <1>1, CommitTables DEF WritesOK, ProductOps, LineWriters
<1>4. /\ local[r].total = orders[o].total
      /\ local[r].sum = OrderTotal(lines', o)
      /\ o \in locks[r] \/ local[r].sum = local[r].total
  <2>1. SumOK(r) /\ r \notin raced /\ HasTotal(r) /\ lines' = LinesAfter(r)
    BY <1>1 DEF TotalInv, SerialInv, HasTotal, Writing, Commit
  <2> QED
    BY <1>1, <2>1 DEF SumOK
<1>5. local[r].sum \in 0..MaxTotal
  BY <1>1 DEF Local
<1>6. orders[o] \in OrderRow
  BY <1>2 DEF IInv, TypeOK
<1>7. orders' = [orders EXCEPT ![o] = [orders[o] EXCEPT !.total = local[r].sum]]
  <2>1. CASE o \in locks[r]
    <3>1. locks[r] \cap OrderIds = {o}
      BY <1>1, <1>2, <2>1 DEF WritesOK
    <3>2. OrderAfter(r, o) = [orders[o] EXCEPT !.total = local[r].sum]
      BY <2>1 DEF OrderAfter, LineWriters
    <3> QED
      BY <1>2, <3>1, <3>2, CommitTables
  <2>2. CASE o \notin locks[r]
    <3>1. locks[r] \cap OrderIds = {}
      BY <1>1, <2>2 DEF WritesOK
    <3>2. [orders[o] EXCEPT !.total = local[r].sum] = orders[o]
      BY <1>4, <1>6, <2>2 DEF OrderRow
    <3>3. [orders EXCEPT ![o] = orders[o]] = orders
      BY <1>2 DEF IInv, TypeOK
    <3> QED
      BY <3>1, <3>2, <3>3, CommitTables
  <2> QED
    BY <2>1, <2>2
<1> QED
  BY <1>3, <1>4, <1>5, <1>7

\* POST of a line is one step of the ledger.
LEMMA AddLineRefines ==
  ASSUME IInv, ParentsInv, TotalInv, SerialInv, NEW r \in Requests, Commit(r),
         call[r].op = "add_line"
  PROVE  Ledger!Next
<1> DEFINE c == call[r]
<1>1. /\ pc[r] = "commit" /\ pc[r] \in Steps /\ CallShape(c)
      /\ WritesOK(c, locks[r]) /\ Current(r)
      /\ ParentsOK(pc[r], c, locks[r], shares[r])
  BY AtStep DEF Commit, Steps, SerialInv, Open, ParentsInv
<1>2. c.order \in OrderIds /\ c.product \in Products /\ c.qty \in Quantities
  BY <1>1 DEF CallShape, LineOps
<1>3. orders[c.order] # None /\ products[c.product] # None
      /\ local[r].price = products[c.product]
  BY <1>1 DEF ParentsOK, Current
<1>4. PICK l \in LineIds : locks[r] \cap LineIds = {l}
  BY <1>1 DEF Current
<1>5. lines[l] = None
  BY <1>1, <1>4 DEF WritesOK
<1>6. lines' = [lines EXCEPT ![l] = NewLine(r)]
  BY <1>4, CommitTables DEF LineAfter
<1>7. NewLine(r) = [order |-> c.order, product |-> c.product, qty |-> c.qty,
                    price |-> products[c.product], status |-> "PENDING"]
  BY <1>3 DEF NewLine
<1>8. Ledger!Retotal(c.order)
  BY <1>3, TotalCommitted, LedgerTotal DEF Ledger!Retotal, LineWriters
<1>9. Ledger!AddLine(c.order, l, c.product, c.qty)
  BY <1>3, <1>5, <1>6, <1>7, <1>8 DEF Ledger!AddLine
<1> QED
  BY <1>2, <1>9 DEF Ledger!Next

\* DELETE of a line is one step of the ledger, or changes nothing.
LEMMA DeleteLineRefines ==
  ASSUME IInv, ParentsInv, TotalInv, SerialInv, NEW r \in Requests, Commit(r),
         call[r].op = "delete_line"
  PROVE  Ledger!Next \/ UNCHANGED tables
<1> DEFINE o == call[r].order
           l == call[r].line
<1>1. /\ pc[r] \in Steps /\ CallShape(call[r]) /\ WritesOK(call[r], locks[r])
      /\ OwnLines(r) /\ TargetsOK(r)
  BY AtStep DEF Commit, Steps, TotalInv
<1>2. o \in OrderIds /\ l \in LineIds
  BY <1>1 DEF CallShape, LineOps
<1>3. CASE l \in locks[r]
  <2>1. locks[r] \cap LineIds = {l}
    BY <1>1, <1>2, <1>3 DEF OwnLines
  <2>2. lines[l] # None
    BY <1>1, <1>2, <1>3 DEF WritesOK
  <2>3. lines[l].order = o /\ orders[o] # None
    BY <1>1, <1>2, <2>2
       DEF TargetsOK, Writing, LineWriters, ParentsInv, LinesHaveParents
  <2>4. lines' = [lines EXCEPT ![l] = None]
    BY <1>2, <1>3, <2>1, CommitTables DEF LineAfter
  <2>5. Ledger!Retotal(o)
    BY <2>3, TotalCommitted, LedgerTotal DEF Ledger!Retotal, LineWriters
  <2>6. Ledger!DeleteLine(l)
    BY <2>2, <2>3, <2>4, <2>5 DEF Ledger!DeleteLine
  <2> QED
    BY <1>2, <2>6 DEF Ledger!Next
<1>4. CASE l \notin locks[r]
  <2>1. lines' = lines
    BY <1>1, <1>4, CommitTables DEF OwnLines
  <2>2. CASE orders[o] = None
    <3>1. locks[r] \cap OrderIds = {} /\ locks[r] \cap Products = {}
      BY <1>1, <1>2, <2>2 DEF WritesOK, ProductOps
    <3> QED
      BY <2>1, <3>1, CommitTables DEF tables
  <2>3. CASE orders[o] # None
    <3>1. orders[o].total = OrderTotal(lines', o)
      BY <1>2, <2>1, <2>3 DEF TotalInv, TotalExactUnlessRaced, SerialInv
    <3>2. /\ orders' = [orders EXCEPT ![o].total = OrderTotal(lines', o)]
          /\ products' = products
      BY <2>3, TotalCommitted DEF LineWriters
    <3>3. orders[o] \in OrderRow
      BY <1>2, <2>3 DEF IInv, TypeOK
    <3>4. [orders[o] EXCEPT !.total = orders[o].total] = orders[o]
      BY <3>3 DEF OrderRow
    <3>5. orders' = orders
      BY <1>2, <3>1, <3>2, <3>4 DEF IInv, TypeOK
    <3> QED
      BY <2>1, <3>2, <3>5 DEF tables
  <2> QED
    BY <2>2, <2>3
<1> QED
  BY <1>3, <1>4

\* PATCH of a line's status moves it along its graph.
LEMMA LineStatusRefines ==
  ASSUME IInv, SerialInv, NEW r \in Requests, Commit(r),
         call[r].op = "update_line_status"
  PROVE  Ledger!Next \/ UNCHANGED tables
<1> DEFINE l == call[r].line
           t == call[r].target
<1>1. /\ pc[r] \in Steps /\ CallShape(call[r]) /\ WritesOK(call[r], locks[r])
      /\ Current(r)
  BY AtStep DEF Commit, Steps, SerialInv, Open
<1>2. l \in LineIds /\ t \in LineStatus
  BY <1>1 DEF CallShape
<1>3. orders' = orders /\ products' = products
  BY <1>1, CommitTables DEF WritesOK, OrderOps, LineWriters, ProductOps
<1>4. CASE l \notin locks[r]
  <2>1. lines' = lines
    BY <1>1, <1>4, CommitTables DEF WritesOK
  <2> QED
    BY <1>3, <2>1 DEF tables
<1>5. CASE l \in locks[r]
  <2>1. locks[r] \cap LineIds = {l}
    BY <1>1, <1>2, <1>5 DEF WritesOK
  <2>2. lines' = [lines EXCEPT ![l] = [lines[l] EXCEPT !.status = t]]
    BY <1>2, <1>5, <2>1, CommitTables DEF LineAfter
  <2>3. lines[l] # None /\ LineCanTransition(lines[l].status, t)
    BY <1>1 DEF Current, LineMayMove
  <2>4. Ledger!SetLineStatus(l, t)
    BY <1>3, <2>2, <2>3
       DEF Ledger!SetLineStatus, Ledger!LineCanTransition, LineCanTransition,
           Ledger!LineEdges, LineEdges
  <2> QED
    BY <1>2, <2>4 DEF Ledger!Next, Ledger!LineStatus, LineStatus
<1> QED
  BY <1>4, <1>5

\* PUT and DELETE of a product change its row, and no line.
LEMMA ProductRefines ==
  ASSUME IInv, ParentsInv, NEW r \in Requests, Commit(r), call[r].op \in ProductOps
  PROVE  Ledger!Next \/ UNCHANGED tables
<1> DEFINE p == call[r].product
<1>1. /\ pc[r] = "commit" /\ pc[r] \in Steps /\ CallShape(call[r])
      /\ WritesOK(call[r], locks[r])
      /\ ParentsOK(pc[r], call[r], locks[r], shares[r])
  BY AtStep DEF Commit, Steps, ParentsInv
<1>2. p \in Products
  BY <1>1 DEF CallShape
<1>3. orders' = orders /\ lines' = lines
  BY <1>1, CommitTables DEF WritesOK, OrderOps, LineWriters, LineOps, ProductOps
<1>4. CASE p \notin locks[r]
  <2>1. products' = products
    BY <1>1, <1>4, CommitTables DEF WritesOK
  <2> QED
    BY <1>3, <2>1 DEF tables
<1>5. CASE p \in locks[r]
  <2>1. locks[r] \cap Products = {p} /\ products[p] # None
    BY <1>1, <1>2, <1>5 DEF WritesOK
  <2>2. products' = [products EXCEPT ![p] = ProductAfter(r, p)]
    BY <1>2, <2>1, CommitTables
  <2>3. CASE call[r].op = "update_product"
    <3>1. ProductAfter(r, p) = call[r].price /\ call[r].price \in Prices
      BY <1>1, <1>5, <2>3 DEF ProductAfter, CallShape
    <3>2. Ledger!SetPrice(p, call[r].price)
      BY <1>3, <2>1, <2>2, <3>1 DEF Ledger!SetPrice
    <3> QED
      BY <1>2, <3>1, <3>2 DEF Ledger!Next
  <2>4. CASE call[r].op = "delete_product"
    <3>1. ProductAfter(r, p) = None
      BY <1>5, <2>4 DEF ProductAfter
    <3>2. \A l \in LineIds : lines[l] # None => lines[l].product # p
      BY <1>1, <1>5, <2>4 DEF ParentsOK
    <3>3. Ledger!DeleteProduct(p)
      BY <1>3, <2>1, <2>2, <3>1, <3>2 DEF Ledger!DeleteProduct
    <3> QED
      BY <1>2, <3>3 DEF Ledger!Next
  <2> QED
    BY <2>3, <2>4 DEF ProductOps
<1> QED
  BY <1>4, <1>5

\* A step of a handler is a step of the ledger at its COMMIT, else a stutter.
LEMMA LedgerStep ==
  ASSUME IInv, StatusInv, ParentsInv, TotalInv, SerialInv, [Next]_vars
  PROVE  [Ledger!Next]_(Ledger!ledger)
<1> SUFFICES Ledger!Next \/ UNCHANGED tables
  BY DEF Ledger!ledger, tables
<1>1. CASE UNCHANGED vars
  BY <1>1 DEF vars, tables
<1>2. CASE Next
  <2>1. PICK r \in Requests : Begin(r) \/ Step(r) \/ Fail(r)
    BY <1>2 DEF Next
  <2>2. CASE ~Commit(r)
    BY <2>1, <2>2, TablesKept
  <2>3. CASE Commit(r)
    <3>1. call[r].op \in AllOps
      <4>1. pc[r] \in Steps /\ pc[r] = "commit"
        BY <2>3 DEF Commit, Steps
      <4> QED
        BY <4>1, AtStep DEF Handlers, LineWriters
    <3>2. \/ call[r].op \in OrderOps \ {"delete_order"}
          \/ call[r].op \in {"delete_order", "add_line", "delete_line",
                             "update_line_status"}
          \/ call[r].op \in ProductOps
      BY <3>1 DEF AllOps, OrderOps, ProductOps
    <3> QED
      BY <2>3, <3>2, OrderCommitRefines, DeleteOrderRefines, AddLineRefines,
         DeleteLineRefines, LineStatusRefines, ProductRefines
  <2> QED
    BY <2>2, <2>3
<1> QED
  BY <1>1, <1>2

\* With one connection requests do not overlap: no line writer is raced, and
\* what the open request has read stays true until it ends.
THEOREM SerialInvariance == ASSUME PoolSize = 1 PROVE Spec => []SerialInv
<1>1. IInv /\ SerialInv /\ [Next]_vars => SerialInv'
  <2> SUFFICES ASSUME IInv, SerialInv, [Next]_vars PROVE SerialInv'
    OBVIOUS
  <2>1. CASE UNCHANGED vars
    BY <2>1 DEF SerialInv, Current, Open, OrderMayMove, LineMayMove, vars
  <2>2. CASE Next
    BY <2>2, SerialStep DEF Next
  <2> QED
    BY <2>1, <2>2
<1> QED
  BY InitSerial, Invariance, <1>1, PTL DEF Spec

\* With one connection an order's total is always the sum of its lines, which
\* is invariant 1 of order/totals.py.
THEOREM SerialTotalTheorem == ASSUME PoolSize = 1 PROVE Spec => []TotalIsSumOfLines
<1>1. TotalInv /\ SerialInv => TotalIsSumOfLines
  BY DEF TotalInv, TotalExactUnlessRaced, SerialInv, TotalIsSumOfLines
<1> QED
  BY <1>1, TotalInvariance, SerialInvariance, PTL

\* With one connection the handlers implement the ledger, in which every
\* request is one step, a status moves along its graph only and the total
\* follows the lines at once.
THEOREM RefinementTheorem == ASSUME PoolSize = 1 PROVE Spec => AtomicHandlers
<1>1. Init => Ledger!Init
  BY LedgerInit
<1>2. IInv /\ StatusInv /\ ParentsInv /\ TotalInv /\ SerialInv /\ [Next]_vars
         => [Ledger!Next]_(Ledger!ledger)
  BY LedgerStep
<1> QED
  BY <1>1, <1>2, Invariance, StatusInvariance, ParentsInvariance, TotalInvariance,
     SerialInvariance, PTL DEF Spec, AtomicHandlers, Ledger!Spec
=============================================================================
