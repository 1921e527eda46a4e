---------------------------- MODULE OrdersProofs ----------------------------
(***************************************************************************)
(* Proofs about Orders for every number of requests, rows and connections: *)
(* the invariant IInv of OrdersInv is inductive, and with it TypeOK and    *)
(* RefundFollowsShipment hold in every reachable state.  The second half   *)
(* is about what requests that race cannot do to the order tables: ship an *)
(* order that was never confirmed, take an order or a line back to         *)
(* PENDING, or leave a line without its order or its product; StatusInv    *)
(* and ParentsInv are inductive relative to IInv.                          *)
(***************************************************************************)
EXTENDS OrdersInv, TLAPS

\* Every initial state satisfies the invariant.
LEMMA InitIInv == Init => IInv
<1> SUFFICES ASSUME Init PROVE IInv
  OBVIOUS
<1>1. TypeOK
  BY AmountsAssumption
     DEF Init, TypeOK, Call, Local, NoCall, NoLocal
<1>2. LocksDisjoint /\ RowsIssued /\ ShippedBefore
  BY DEF Init, LocksDisjoint, RowsIssued, ShippedBefore, LineRow, LineStatus
<1>3. \A r \in Requests : RequestOK(pc[r], call[r], local[r], locks[r])
  BY DEF Init, RequestOK, WritesOK, Steps, Rows
<1> QED
  BY <1>1, <1>2, <1>3 DEF IInv

(***************************************************************************)
(* A step that leaves the committed tables alone and moves one request to  *)
(* a state that RequestOK allows preserves the invariant.                  *)
(***************************************************************************)
LEMMA Frame ==
  ASSUME IInv,
         NEW r \in Requests,
         NEW step \in Steps \cup Final \cup {"idle"},
         NEW c \in Call, NEW v \in Local, NEW L,
         NEW S \in SUBSET (OrderIds \cup Products),
         RequestOK(step, c, v, L)',
         \A s \in Requests \ {r} : L \cap locks[s] = {},
         UNCHANGED <<tables, confirmed, shipped>>,
         issued \subseteq issued', issued' \subseteq OrderIds \cup LineIds,
         pc' = [pc EXCEPT ![r] = step],
         call' = [call EXCEPT ![r] = c],
         local' = [local EXCEPT ![r] = v],
         locks' = [locks EXCEPT ![r] = L],
         shares' = [shares EXCEPT ![r] = S],
         raced' \subseteq Requests, tainted' \subseteq OrderIds
  PROVE  IInv'
<1>1. TypeOK'
  BY DEF IInv, TypeOK, tables, RequestOK, Rows
<1>2. LocksDisjoint'
  BY DEF IInv, TypeOK, LocksDisjoint
<1>3. RowsIssued' /\ ShippedBefore'
  BY DEF IInv, RowsIssued, ShippedBefore, tables
<1>4. ASSUME NEW s \in Requests
      PROVE  RequestOK(pc[s], call[s], local[s], locks[s])'
  <2>1. CASE s = r
    BY <2>1 DEF IInv, TypeOK
  <2>2. CASE s # r
    <3>1. RequestOK(pc[s], call[s], local[s], locks[s])
      BY DEF IInv
    <3>2. /\ pc'[s] = pc[s] /\ call'[s] = call[s]
          /\ local'[s] = local[s] /\ locks'[s] = locks[s]
      BY <2>2 DEF IInv, TypeOK
    <3> QED
      BY <3>1, <3>2 DEF RequestOK, WritesOK, tables
  <2> QED
    BY <2>1, <2>2
<1> QED
  BY <1>1, <1>2, <1>3, <1>4 DEF IInv

\* An exception or a 4xx answer releases everything the request held.
LEMMA RollbackInv ==
  ASSUME IInv, NEW r \in Requests, NEW outcome \in Final,
         Rollback(r, outcome)
  PROVE  IInv'
<1>1. NoCall \in Call /\ NoLocal \in Local
  BY AmountsAssumption DEF Call, Local, NoCall, NoLocal
<1>2. RequestOK(outcome, NoCall, NoLocal, {})'
  BY DEF RequestOK, WritesOK, Steps, Final, Rows
<1>3. outcome \in Steps \cup Final \cup {"idle"}
  OBVIOUS
<1> QED
  BY <1>1, <1>2, <1>3, Frame
     DEF Rollback, Finish, Goto, IInv, TypeOK, tables

\* The first statement of a handler.
LEMMA EnterInv ==
  ASSUME IInv, NEW r \in Requests, pc[r] = "idle",
         NEW step \in Steps, NEW c \in Call, NEW v \in Local,
         Enter(r, c, step), local' = [local EXCEPT ![r] = v],
         UNCHANGED locks,
         <<step, c.op>> \in Handlers, CallShape(c),
         c.op = "add_line" => step = "get_product",
         (c.op = "update_line_status" /\ c.target = "REFUNDED")
            => c.line \in shipped
  PROVE  IInv'
<1>1. locks[r] = {}
  BY DEF IInv, RequestOK, Steps
<1>2. RequestOK(step, c, v, {})'
  BY DEF RequestOK, WritesOK, Rows, Enter, history
<1>3. step \in Steps \cup Final \cup {"idle"}
  OBVIOUS
<1>4. /\ locks' = [locks EXCEPT ![r] = {}]
      /\ shares' = [shares EXCEPT ![r] = shares[r]]
      /\ shares[r] \in SUBSET (OrderIds \cup Products)
  BY <1>1 DEF IInv, TypeOK, Enter
<1>5. /\ UNCHANGED <<tables, confirmed, shipped>>
      /\ issued \subseteq issued' /\ issued' \subseteq OrderIds \cup LineIds
      /\ pc' = [pc EXCEPT ![r] = step] /\ call' = [call EXCEPT ![r] = c]
      /\ raced' \subseteq Requests /\ tainted' \subseteq OrderIds
  BY DEF Enter, Goto, IInv, TypeOK, tables, history
<1>6. \A s \in Requests \ {r} : {} \cap locks[s] = {}
  OBVIOUS
<1> QED
  BY <1>2, <1>3, <1>4, <1>5, <1>6, Frame

\* A later statement: the request may load values and write more rows.
LEMMA AdvanceInv ==
  ASSUME IInv, NEW r \in Requests, pc[r] \in Steps,
         NEW step \in Steps, NEW v \in Local, NEW rows \in SUBSET Rows,
         rows \ Products \subseteq issued,
         \A s \in Requests \ {r} : rows \cap locks[s] = {},
         <<step, call[r].op>> \in Handlers,
         WritesOK(call[r], rows),
         (call[r].op = "add_line" /\ step # "get_product")
            => v.price \in Prices,
         Goto(r, step), local' = [local EXCEPT ![r] = v], Lock(r, rows),
         UNCHANGED <<tables, issued, call, shares, history>>
  PROVE  IInv'
<1> SUFFICES ASSUME NEW c, c = call[r], NEW L, L = locks[r] \cup rows
             PROVE  IInv'
  OBVIOUS
<1>1. RequestOK(pc[r], c, local[r], locks[r])
  BY DEF IInv
<1>2. WritesOK(c, L)
  BY <1>1 DEF RequestOK, WritesOK
<1>3. L \subseteq Rows /\ L \ Products \subseteq issued
  BY <1>1 DEF RequestOK
<1>4. RequestOK(step, c, v, L)
  BY <1>1, <1>2, <1>3 DEF RequestOK
<1>5. RequestOK(step, c, v, L)'
  BY <1>4 DEF RequestOK, WritesOK, tables, history
<1>6. \A s \in Requests \ {r} : L \cap locks[s] = {}
  BY DEF IInv, LocksDisjoint
<1>7. /\ locks' = [locks EXCEPT ![r] = L]
      /\ call' = [call EXCEPT ![r] = c]
      /\ shares' = [shares EXCEPT ![r] = shares[r]]
      /\ shares[r] \in SUBSET (OrderIds \cup Products)
      /\ c \in Call
      /\ step \in Steps \cup Final \cup {"idle"}
  BY DEF IInv, TypeOK, Lock
<1>8. /\ UNCHANGED <<tables, confirmed, shipped>>
      /\ issued \subseteq issued' /\ issued' \subseteq OrderIds \cup LineIds
      /\ pc' = [pc EXCEPT ![r] = step]
      /\ raced' \subseteq Requests /\ tainted' \subseteq OrderIds
  BY DEF Goto, IInv, TypeOK, tables, history
<1> QED
  BY <1>5, <1>6, <1>7, <1>8, Frame
-----------------------------------------------------------------------------
\* What IInv says of a request that is at a given statement.
LEMMA AtStep ==
  ASSUME IInv, NEW r \in Requests, pc[r] \in Steps
  PROVE  /\ <<pc[r], call[r].op>> \in Handlers
         /\ CallShape(call[r])
         /\ call[r] \in Call /\ local[r] \in Local
         /\ (call[r].op = "add_line" /\ pc[r] # "get_product")
               => local[r].price \in Prices
         /\ WritesOK(call[r], locks[r])
         /\ locks[r] \subseteq Rows
  BY DEF IInv, RequestOK, TypeOK

\* Each of the first statements.
LEMMA BeginInv ==
  ASSUME IInv, NEW r \in Requests, Begin(r)
  PROVE  IInv'
<1> USE DEF Starts, Reject, Final
<1>1. CASE CreateOrderNoId(r)
  BY <1>1, RollbackInv DEF CreateOrderNoId
<1>2. ASSUME NEW o \in OrderIds, CancelOrderGet(r, o)
      PROVE  IInv'
  <2>1. CASE orders[o] = None
    BY <1>2, <2>1, RollbackInv DEF CancelOrderGet
  <2>2. CASE ~(orders[o] = None)
    <3> DEFINE c == [NoCall EXCEPT !.op = "cancel_order", !.order = o,
                                   !.target = "CANCELLED"]
    <3>1. c \in Call /\ CallShape(c) /\ c.op = "cancel_order"
      BY <1>2, <2>2
         DEF CancelOrderGet, Call, NoCall, CallShape, AllOps, OrderStatus, LineStatus,
             OrderOps, LineOps, ProductOps
    <3>2. PICK step \in {"commit", "update_order"} : Enter(r, c, step)
      BY <1>2, <2>2 DEF CancelOrderGet
    <3>3. step \in Steps /\ <<step, c.op>> \in Handlers
      BY <3>1, <3>2 DEF Steps, Handlers, AllOps
    <3>4. /\ UNCHANGED locks /\ local' = [local EXCEPT ![r] = local[r]]
          /\ local[r] \in Local
      BY <1>2, <2>2 DEF CancelOrderGet, IInv, TypeOK
    <3> HIDE DEF c
    <3> QED
      BY <1>2, <3>1, <3>2, <3>3, <3>4, EnterInv DEF CancelOrderGet
  <2> QED
    BY <2>1, <2>2
<1>3. ASSUME NEW o \in OrderIds, DeleteOrderGet(r, o)
      PROVE  IInv'
  <2>1. CASE orders[o] = None
    BY <1>3, <2>1, RollbackInv DEF DeleteOrderGet
  <2>2. CASE ~(orders[o] = None)
    <3> DEFINE c == [NoCall EXCEPT !.op = "delete_order", !.order = o]
    <3>1. c \in Call /\ CallShape(c) /\ c.op = "delete_order"
      BY <1>3, <2>2
         DEF DeleteOrderGet, Call, NoCall, CallShape, AllOps, OrderStatus, LineStatus,
             OrderOps, LineOps, ProductOps
    <3>2. PICK step \in {"delete_order"} : Enter(r, c, step)
      BY <1>3, <2>2 DEF DeleteOrderGet
    <3>3. step \in Steps /\ <<step, c.op>> \in Handlers
      BY <3>1, <3>2 DEF Steps, Handlers, AllOps
    <3>4. /\ UNCHANGED locks /\ local' = [local EXCEPT ![r] = local[r]]
          /\ local[r] \in Local
      BY <1>3, <2>2 DEF DeleteOrderGet, IInv, TypeOK
    <3> HIDE DEF c
    <3> QED
      BY <1>3, <3>1, <3>2, <3>3, <3>4, EnterInv DEF DeleteOrderGet
  <2> QED
    BY <2>1, <2>2
<1>4. ASSUME NEW o \in OrderIds, NEW t \in OrderStatus, OrderStatusGet(r, o, t)
      PROVE  IInv'
  <2>1. CASE ~OrderMayMove(o, t)
    BY <1>4, <2>1, RollbackInv DEF OrderStatusGet
  <2>2. CASE ~(~OrderMayMove(o, t))
    <3> DEFINE c == [NoCall EXCEPT !.op = "update_order_status",
                                   !.order = o, !.target = t]
    <3>1. c \in Call /\ CallShape(c) /\ c.op = "update_order_status"
      BY <1>4, <2>2
         DEF OrderStatusGet, Call, NoCall, CallShape, AllOps, OrderStatus, LineStatus,
             OrderOps, LineOps, ProductOps
    <3>2. PICK step \in {"refresh_order", "update_order"} : Enter(r, c, step)
      BY <1>4, <2>2 DEF OrderStatusGet
    <3>3. step \in Steps /\ <<step, c.op>> \in Handlers
      BY <3>1, <3>2 DEF Steps, Handlers, AllOps
    <3>4. /\ UNCHANGED locks /\ local' = [local EXCEPT ![r] = local[r]]
          /\ local[r] \in Local
      BY <1>4, <2>2 DEF OrderStatusGet, IInv, TypeOK
    <3> HIDE DEF c
    <3> QED
      BY <1>4, <3>1, <3>2, <3>3, <3>4, EnterInv DEF OrderStatusGet
  <2> QED
    BY <2>1, <2>2
<1>5. ASSUME NEW o \in OrderIds, NEW p \in Products, NEW q \in Quantities, AddLineGetOrder(r, o, p, q)
      PROVE  IInv'
  <2>1. CASE orders[o] = None
    BY <1>5, <2>1, RollbackInv DEF AddLineGetOrder
  <2>2. CASE ~(orders[o] = None)
    <3> DEFINE c == [NoCall EXCEPT !.op = "add_line", !.order = o,
                                   !.product = p, !.qty = q]
    <3>1. c \in Call /\ CallShape(c) /\ c.op = "add_line"
      BY <1>5, <2>2
         DEF AddLineGetOrder, Call, NoCall, CallShape, AllOps, OrderStatus, LineStatus,
             OrderOps, LineOps, ProductOps
    <3>2. PICK step \in {"get_product"} : Enter(r, c, step)
      BY <1>5, <2>2 DEF AddLineGetOrder
    <3>3. step \in Steps /\ <<step, c.op>> \in Handlers
      BY <3>1, <3>2 DEF Steps, Handlers, AllOps
    <3>4. PICK v \in Local : local' = [local EXCEPT ![r] = v]
      <4> DEFINE v == [local[r] EXCEPT !.total = orders[o].total]
      <4>1. local' = [local EXCEPT ![r] = v]
        BY <1>5, <2>2 DEF AddLineGetOrder, IInv, TypeOK
      <4>2. orders[o].total \in 0..MaxTotal /\ local[r] \in Local
        BY <2>2 DEF IInv, TypeOK, OrderRow
      <4>3. v \in Local
        BY <4>2 DEF Local
      <4> QED
        BY <4>1, <4>3
    <3> HIDE DEF c
    <3> QED
      BY <1>5, <2>2, <3>1, <3>2, <3>3, <3>4, EnterInv DEF AddLineGetOrder
  <2> QED
    BY <2>1, <2>2
<1>6. ASSUME NEW o \in OrderIds, NEW l \in LineIds, DeleteLineGet(r, o, l)
      PROVE  IInv'
  <2>1. CASE ~(lines[l] # None /\ lines[l].order = o)
    BY <1>6, <2>1, RollbackInv DEF DeleteLineGet
  <2>2. CASE ~(~(lines[l] # None /\ lines[l].order = o))
    <3> DEFINE c == [NoCall EXCEPT !.op = "delete_line", !.order = o,
                                   !.line = l]
    <3>1. c \in Call /\ CallShape(c) /\ c.op = "delete_line"
      BY <1>6, <2>2
         DEF DeleteLineGet, Call, NoCall, CallShape, AllOps, OrderStatus, LineStatus,
             OrderOps, LineOps, ProductOps
    <3>2. PICK step \in {"delete_line"} : Enter(r, c, step)
      BY <1>6, <2>2 DEF DeleteLineGet
    <3>3. step \in Steps /\ <<step, c.op>> \in Handlers
      BY <3>1, <3>2 DEF Steps, Handlers, AllOps
    <3>4. /\ UNCHANGED locks /\ local' = [local EXCEPT ![r] = local[r]]
          /\ local[r] \in Local
      BY <1>6, <2>2 DEF DeleteLineGet, IInv, TypeOK
    <3> HIDE DEF c
    <3> QED
      BY <1>6, <3>1, <3>2, <3>3, <3>4, EnterInv DEF DeleteLineGet
  <2> QED
    BY <2>1, <2>2
<1>7. ASSUME NEW o \in OrderIds, NEW l \in LineIds, NEW t \in LineStatus, LineStatusGet(r, o, l, t)
      PROVE  IInv'
  <2>1. CASE ~LineMayMove(o, l, t)
    BY <1>7, <2>1, RollbackInv DEF LineStatusGet
  <2>2. CASE ~(~LineMayMove(o, l, t))
    <3> DEFINE c == [NoCall EXCEPT !.op = "update_line_status",
                                   !.order = o, !.line = l, !.target = t]
    <3>1. /\ c \in Call /\ CallShape(c) /\ c.op = "update_line_status"
          /\ c.line = l /\ c.target = t
      BY <1>7, <2>2
         DEF LineStatusGet, Call, NoCall, CallShape, AllOps, OrderStatus, LineStatus,
             OrderOps, LineOps, ProductOps
    <3>2. PICK step \in {"refresh_line", "update_line"} : Enter(r, c, step)
      BY <1>7, <2>2 DEF LineStatusGet
    <3>3. step \in Steps /\ <<step, c.op>> \in Handlers
      BY <3>1, <3>2 DEF Steps, Handlers, AllOps
    <3>4. /\ UNCHANGED locks /\ local' = [local EXCEPT ![r] = local[r]]
          /\ local[r] \in Local
      BY <1>7, <2>2 DEF LineStatusGet, IInv, TypeOK
    <3>5. t = "REFUNDED" => l \in shipped
      BY <2>2 DEF LineMayMove, LineCanTransition, LineEdges, IInv,
                  ShippedBefore
    <3> HIDE DEF c
    <3> QED
      BY <1>7, <3>1, <3>2, <3>3, <3>4, <3>5, EnterInv DEF LineStatusGet
  <2> QED
    BY <2>1, <2>2
<1>8. ASSUME NEW p \in Products, NEW price \in Prices, ProductGet(r, p, price)
      PROVE  IInv'
  <2>1. CASE products[p] = None
    BY <1>8, <2>1, RollbackInv DEF ProductGet
  <2>2. CASE ~(products[p] = None)
    <3> DEFINE c == [NoCall EXCEPT !.op = "update_product", !.product = p,
                                   !.price = price]
    <3>1. c \in Call /\ CallShape(c) /\ c.op = "update_product"
      BY <1>8, <2>2
         DEF ProductGet, Call, NoCall, CallShape, AllOps, OrderStatus, LineStatus,
             OrderOps, LineOps, ProductOps
    <3>2. PICK step \in {"refresh_product", "update_product"} : Enter(r, c, step)
      BY <1>8, <2>2 DEF ProductGet
    <3>3. step \in Steps /\ <<step, c.op>> \in Handlers
      BY <3>1, <3>2 DEF Steps, Handlers, AllOps
    <3>4. /\ UNCHANGED locks /\ local' = [local EXCEPT ![r] = local[r]]
          /\ local[r] \in Local
      BY <1>8, <2>2 DEF ProductGet, IInv, TypeOK
    <3> HIDE DEF c
    <3> QED
      BY <1>8, <3>1, <3>2, <3>3, <3>4, EnterInv DEF ProductGet
  <2> QED
    BY <2>1, <2>2
<1>9. ASSUME NEW p \in Products, DeleteProductGet(r, p)
      PROVE  IInv'
  <2>1. CASE products[p] = None
    BY <1>9, <2>1, RollbackInv DEF DeleteProductGet
  <2>2. CASE ~(products[p] = None)
    <3> DEFINE c == [NoCall EXCEPT !.op = "delete_product", !.product = p]
    <3>1. c \in Call /\ CallShape(c) /\ c.op = "delete_product"
      BY <1>9, <2>2
         DEF DeleteProductGet, Call, NoCall, CallShape, AllOps, OrderStatus, LineStatus,
             OrderOps, LineOps, ProductOps
    <3>2. PICK step \in {"delete_product"} : Enter(r, c, step)
      BY <1>9, <2>2 DEF DeleteProductGet
    <3>3. step \in Steps /\ <<step, c.op>> \in Handlers
      BY <3>1, <3>2 DEF Steps, Handlers, AllOps
    <3>4. /\ UNCHANGED locks /\ local' = [local EXCEPT ![r] = local[r]]
          /\ local[r] \in Local
      BY <1>9, <2>2 DEF DeleteProductGet, IInv, TypeOK
    <3> HIDE DEF c
    <3> QED
      BY <1>9, <3>1, <3>2, <3>3, <3>4, EnterInv DEF DeleteProductGet
  <2> QED
    BY <2>1, <2>2
<1>10. ASSUME NEW o \in OrderIds, CreateOrderInsert(r, o)
       PROVE  IInv'
  <2> DEFINE c == [NoCall EXCEPT !.op = "create_order", !.order = o]
  <2>1. NoCall \in Call /\ NoLocal \in Local
    BY AmountsAssumption DEF Call, Local, NoCall, NoLocal
  <2>2. /\ UNCHANGED <<tables, confirmed, shipped>>
        /\ issued \subseteq issued' /\ issued' \subseteq OrderIds \cup LineIds
        /\ raced' \subseteq Requests /\ tainted' \subseteq OrderIds
    BY <1>10 DEF CreateOrderInsert, tables, history, IInv, TypeOK
  <2>3. CASE Finish(r, "rejected")
    <3>1. RequestOK("rejected", NoCall, NoLocal, {})'
      BY DEF RequestOK, WritesOK, Steps, Rows
    <3> QED
      BY <2>1, <2>2, <2>3, <3>1, Frame DEF Finish, Goto
  <2>4. CASE ~Finish(r, "rejected")
    <3>1. c \in Call /\ CallShape(c) /\ c.op = "create_order" /\ c.order = o
      BY DEF Call, NoCall, CallShape, AllOps, OrderOps, LineOps, ProductOps
    <3>2. locks[r] = {} /\ local[r] \in Local
      BY <1>10 DEF CreateOrderInsert, IInv, RequestOK, TypeOK, Steps
    <3>3. orders[o] = None /\ o \in issued' /\ o \notin LineIds \cup Products
      BY <1>10, IdsAssumption DEF CreateOrderInsert, IInv, RowsIssued
    <3>4. "commit" \in Steps /\ <<"commit", "create_order">> \in Handlers
      BY DEF Steps, Handlers, AllOps
    <3>5. pc' = [pc EXCEPT ![r] = "commit"] /\ call' = [call EXCEPT ![r] = c]
          /\ local' = [local EXCEPT ![r] = local[r]]
          /\ locks' = [locks EXCEPT ![r] = {o}]
          /\ shares' = [shares EXCEPT ![r] = shares[r]]
          /\ shares[r] \in SUBSET (OrderIds \cup Products)
      BY <1>10, <2>4, <3>2 DEF CreateOrderInsert, Goto, Lock, IInv, TypeOK
    <3> HIDE DEF c
    <3>6. \A s \in Requests \ {r} : {o} \cap locks[s] = {}
      BY <1>10, <3>3 DEF CreateOrderInsert, IInv, RequestOK
    <3> SUFFICES ASSUME NEW v, v = local[r]
                 PROVE  IInv'
      OBVIOUS
    <3>7. RequestOK("commit", c, v, {o})'
      BY <2>2, <3>1, <3>3, <3>4
         DEF RequestOK, WritesOK, Rows, tables, OrderOps
    <3> QED
      BY <2>2, <3>1, <3>2, <3>4, <3>5, <3>6, <3>7, Frame
  <2> QED
    BY <2>3, <2>4
<1> QED
  BY <1>1, <1>2, <1>3, <1>4, <1>5, <1>6, <1>7, <1>8, <1>9, <1>10 DEF Begin

-----------------------------------------------------------------------------
\* A statement that changes nothing but the request's place in its handler.
LEMMA MoveInv ==
  ASSUME IInv, NEW r \in Requests, pc[r] \in Steps, NEW step \in Steps,
         <<step, call[r].op>> \in Handlers,
         call[r].op = "add_line" => pc[r] # "get_product",
         NEW v \in Local, v.price = local[r].price,
         local' = [local EXCEPT ![r] = v],
         Goto(r, step), UNCHANGED locks,
         UNCHANGED <<tables, issued, call, shares, history>>
  PROVE  IInv'
<1>1. Lock(r, {}) /\ {} \in SUBSET Rows /\ WritesOK(call[r], {})
  BY DEF Lock, IInv, TypeOK, WritesOK
<1>2. {} \ Products \subseteq issued
      /\ \A s \in Requests \ {r} : {} \cap locks[s] = {}
  OBVIOUS
<1> QED
  BY <1>1, <1>2, AtStep, AdvanceInv

\* An UPDATE or DELETE of one committed row that nobody else has written.
LEMMA WriteRowInv ==
  ASSUME IInv, NEW r \in Requests, pc[r] \in Steps, NEW step \in Steps,
         NEW row \in Rows, Free(r, row),
         row \in Products \/ row \in issued,
         WritesOK(call[r], {row}),
         <<step, call[r].op>> \in Handlers, call[r].op # "add_line"
            \/ pc[r] # "get_product",
         Goto(r, step), Lock(r, {row}),
         UNCHANGED <<tables, issued, call, local, shares, history>>
  PROVE  IInv'
<1>1. local' = [local EXCEPT ![r] = local[r]]
  BY DEF IInv, TypeOK
<1>2. {row} \in SUBSET Rows /\ {row} \ Products \subseteq issued
      /\ \A s \in Requests \ {r} : {row} \cap locks[s] = {}
  BY DEF Free
<1> QED
  BY <1>1, <1>2, AtStep, AdvanceInv

\* The statements of POST /orders/{id}/lines up to the INSERT.
LEMMA AddLineInv ==
  ASSUME IInv, NEW r \in Requests,
         AddLineGetProduct(r) \/ AddLineNoId(r)
            \/ \E l \in LineIds : AddLineInsert(r, l)
  PROVE  IInv'
<1> USE DEF Reject, Final
<1>1. CASE AddLineNoId(r)
  BY <1>1, RollbackInv DEF AddLineNoId
<1>2. CASE AddLineGetProduct(r)
  <2> DEFINE p == call[r].product
  <2>1. CASE products[p] = None
    BY <1>2, <2>1, RollbackInv DEF AddLineGetProduct
  <2>2. CASE products[p] # None
    <3>1. pc[r] \in Steps /\ "insert_line" \in Steps
      BY <1>2 DEF AddLineGetProduct, Steps
    <3>2. call[r].op = "add_line"
      BY <1>2, <3>1, AtStep DEF AddLineGetProduct, Handlers, LineWriters
    <3>3. products[p] \in Prices
      BY <2>2, <3>1, <3>2, AtStep DEF CallShape, IInv, TypeOK
    <3>4. PICK v \in Local :
             local' = [local EXCEPT ![r] = v] /\ v.price \in Prices
      <4> DEFINE v == [local[r] EXCEPT !.price = products[p]]
      <4>1. local' = [local EXCEPT ![r] = v]
        BY <1>2, <2>2 DEF AddLineGetProduct, IInv, TypeOK
      <4>2. v \in Local /\ v.price \in Prices
        BY <3>1, <3>3, AtStep DEF Local
      <4> QED
        BY <4>1, <4>2
    <3>5. <<"insert_line", call[r].op>> \in Handlers
      BY <3>2 DEF Handlers
    <3>6. Goto(r, "insert_line") /\ Lock(r, {}) /\ {} \in SUBSET Rows
          /\ WritesOK(call[r], {}) /\ {} \ Products \subseteq issued
          /\ (\A s \in Requests \ {r} : {} \cap locks[s] = {})
          /\ UNCHANGED <<tables, issued, call, shares, history>>
      BY <1>2, <2>2 DEF AddLineGetProduct, Lock, IInv, TypeOK, WritesOK
    <3> QED
      BY <3>1, <3>4, <3>5, <3>6, AdvanceInv
  <2> QED
    BY <2>1, <2>2
<1>3. ASSUME NEW l \in LineIds, AddLineInsert(r, l)
      PROVE  IInv'
  <2>1. /\ UNCHANGED <<tables, confirmed, shipped>>
        /\ issued \subseteq issued' /\ issued' \subseteq OrderIds \cup LineIds
        /\ raced' \subseteq Requests /\ tainted' \subseteq OrderIds
    BY <1>3 DEF AddLineInsert, tables, history, IInv, TypeOK
  <2>2. CASE Finish(r, "error")
    <3>1. NoCall \in Call /\ NoLocal \in Local
      BY AmountsAssumption DEF Call, Local, NoCall, NoLocal
    <3>2. RequestOK("error", NoCall, NoLocal, {})'
      BY DEF RequestOK, WritesOK, Steps, Rows
    <3> QED
      BY <2>1, <2>2, <3>1, <3>2, Frame DEF Finish, Goto
  <2>3. CASE ~Finish(r, "error")
    <3>1. pc[r] \in Steps /\ "select_lines" \in Steps
      BY <1>3 DEF AddLineInsert, Steps
    <3>2. call[r].op = "add_line" /\ local[r].price \in Prices
      BY <1>3, <3>1, AtStep DEF AddLineInsert, Handlers, LineWriters
    <3>3. lines[l] = None /\ l \notin OrderIds \cup Products
      BY <1>3, IdsAssumption DEF AddLineInsert, IInv, RowsIssued
    <3>4. PICK c, v, L : /\ c = call[r] /\ v = local[r]
                         /\ L = locks[r] \cup {l}
      OBVIOUS
    <3>5. RequestOK("select_lines", c, v, L)'
      <4>1. RequestOK(pc[r], c, v, locks[r])
        BY <3>4 DEF IInv
      <4>2. WritesOK(c, L)
        BY <3>2, <3>3, <3>4, <4>1 DEF RequestOK, WritesOK, LineOps
      <4>3. WritesOK(c, L)'
        BY <2>1, <4>2 DEF WritesOK, tables
      <4>4. L \subseteq Rows /\ L \ Products \subseteq issued'
        BY <1>3, <3>4, <4>1 DEF RequestOK, AddLineInsert, Rows
      <4>5. <<"select_lines", c.op>> \in Handlers /\ CallShape(c)
        BY <3>1, <3>2, <3>4, AtStep DEF Handlers, LineWriters
      <4> QED
        BY <3>1, <3>2, <3>4, <4>3, <4>4, <4>5 DEF RequestOK
    <3>6. ASSUME NEW s \in Requests \ {r} PROVE L \cap locks[s] = {}
      <4>1. locks[s] \ Products \subseteq issued
        BY DEF IInv, RequestOK
      <4>2. l \notin locks[s]
        BY <1>3, <3>3, <4>1 DEF AddLineInsert
      <4>3. locks[r] \cap locks[s] = {}
        BY DEF IInv, LocksDisjoint
      <4> QED
        BY <3>4, <4>2, <4>3
    <3>7. PICK S \in SUBSET (OrderIds \cup Products) :
             shares' = [shares EXCEPT ![r] = S]
      <4>1. call[r].order \in OrderIds /\ call[r].product \in Products
        BY <3>1, <3>2, AtStep DEF CallShape, LineOps
      <4> QED
        BY <1>3, <2>3, <4>1 DEF AddLineInsert
    <3>8. pc' = [pc EXCEPT ![r] = "select_lines"]
          /\ call' = [call EXCEPT ![r] = c] /\ local' = [local EXCEPT ![r] = v]
          /\ locks' = [locks EXCEPT ![r] = L] /\ c \in Call /\ v \in Local
      BY <1>3, <2>3, <3>4 DEF AddLineInsert, Goto, Lock, IInv, TypeOK
    <3> QED
      BY <2>1, <3>1, <3>5, <3>6, <3>7, <3>8, Frame
  <2> QED
    BY <2>2, <2>3
<1> QED
  BY <1>1, <1>2, <1>3
-----------------------------------------------------------------------------
(***************************************************************************)
(* The other statements of an open request, grouped by handler.            *)
(***************************************************************************)
LEMMA UpdateOrderRowInv ==
  ASSUME IInv, NEW r \in Requests,
         RecomputeUpdate(r) \/ OrderStatusUpdate(r)
  PROVE  IInv'
<1> USE DEF Final
<1>1. PICK step \in {"update_total", "update_order"} : UpdateOrderRow(r, step)
  BY DEF RecomputeUpdate, OrderStatusUpdate
<1> DEFINE o == call[r].order
<1>2. CASE orders[o] = None
  BY <1>1, <1>2, RollbackInv DEF UpdateOrderRow
<1>3. CASE orders[o] # None
  <2>1. pc[r] \in Steps /\ "commit" \in Steps /\ pc[r] # "get_product"
    BY <1>1 DEF UpdateOrderRow, Steps
  <2>2. call[r].op \in LineWriters \cup {"update_order_status", "cancel_order"}
    BY <1>1, <2>1, AtStep DEF UpdateOrderRow, Handlers
  <2>3. o \in OrderIds /\ o \notin LineIds \cup Products
    BY <2>1, <2>2, AtStep, IdsAssumption
       DEF CallShape, OrderOps, LineOps, LineWriters
  <2>4. o \in Rows /\ o \in issued
    BY <1>3, <2>3 DEF Rows, IInv, RowsIssued
  <2>5. WritesOK(call[r], {o})
    BY <1>3, <2>2, <2>3 DEF WritesOK, OrderOps, LineWriters
  <2>6. <<"commit", call[r].op>> \in Handlers
    BY <2>2 DEF Handlers, AllOps, LineWriters
  <2> QED
    BY <1>1, <1>3, <2>1, <2>4, <2>5, <2>6, WriteRowInv DEF UpdateOrderRow
<1> QED
  BY <1>2, <1>3

\* The SELECT of the lines and their sum.
LEMMA RecomputeSelectInv ==
  ASSUME IInv, NEW r \in Requests, RecomputeSelect(r)
  PROVE  IInv'
<1> USE DEF Final
<1> DEFINE sum == OrderTotal(LinesAfter(r), call[r].order)
<1>1. CASE sum \notin 0..MaxTotal
  BY <1>1, RollbackInv DEF RecomputeSelect
<1>2. CASE sum \in 0..MaxTotal
  <2> HIDE DEF sum
  <2>1. pc[r] \in Steps /\ pc[r] # "get_product"
    BY DEF RecomputeSelect, Steps
  <2>2. call[r].op \in LineWriters
    BY <2>1, AtStep DEF RecomputeSelect, Handlers
  <2>3. PICK step \in {"commit", "update_total"} : Goto(r, step)
    BY <1>2 DEF RecomputeSelect, sum
  <2>4. step \in Steps /\ <<step, call[r].op>> \in Handlers
    BY <2>2, <2>3 DEF Steps, Handlers, AllOps, LineWriters
  <2>5. PICK v \in Local :
           v.price = local[r].price /\ local' = [local EXCEPT ![r] = v]
    <3> DEFINE v == [local[r] EXCEPT !.sum = sum]
    <3>1. local' = [local EXCEPT ![r] = v]
      BY <1>2 DEF RecomputeSelect, sum, IInv, TypeOK
    <3>2. v \in Local /\ v.price = local[r].price
      BY <1>2, <2>1, AtStep DEF Local
    <3> QED
      BY <3>1, <3>2
  <2>6. UNCHANGED locks /\ UNCHANGED <<tables, issued, call, shares, history>>
    BY <1>2 DEF RecomputeSelect, sum
  <2> QED
    BY <2>1, <2>3, <2>4, <2>5, <2>6, MoveInv
<1> QED
  BY <1>1, <1>2

\* The statements of DELETE /orders/{id}/lines/{line_id}.
LEMMA DeleteLineInv ==
  ASSUME IInv, NEW r \in Requests,
         DeleteLineDelete(r) \/ DeleteLineGetOrder(r)
  PROVE  IInv'
<1>1. pc[r] \in Steps /\ pc[r] # "get_product"
  BY DEF DeleteLineDelete, DeleteLineGetOrder, Steps
<1>2. call[r].op = "delete_line"
  BY <1>1, AtStep
     DEF DeleteLineDelete, DeleteLineGetOrder, Handlers
<1>3. local' = [local EXCEPT ![r] = local[r]] <=> UNCHANGED local
  BY DEF IInv, TypeOK
<1>4. CASE DeleteLineDelete(r)
  <2> DEFINE l == call[r].line
  <2>1. "get_order" \in Steps /\ <<"get_order", call[r].op>> \in Handlers
    BY <1>2 DEF Steps, Handlers
  <2>2. CASE lines[l] = None
    <3>1. UNCHANGED locks
      BY <1>4, <2>2 DEF DeleteLineDelete, Lock, IInv, TypeOK
    <3>2. local[r] \in Local
      BY DEF IInv, TypeOK
    <3> QED
      BY <1>1, <1>2, <1>3, <1>4, <2>1, <3>1, <3>2, MoveInv
         DEF DeleteLineDelete
  <2>3. CASE lines[l] # None
    <3>1. l \in LineIds /\ l \notin OrderIds \cup Products
      BY <1>1, <1>2, AtStep, IdsAssumption DEF CallShape
    <3>2. l \in Rows /\ l \in issued
      BY <2>3, <3>1 DEF Rows, IInv, RowsIssued
    <3>3. WritesOK(call[r], {l})
      BY <1>2, <2>3, <3>1 DEF WritesOK, LineOps
    <3> QED
      BY <1>1, <1>2, <1>4, <2>1, <2>3, <3>2, <3>3, WriteRowInv
         DEF DeleteLineDelete
  <2> QED
    BY <2>2, <2>3
<1>5. CASE DeleteLineGetOrder(r)
  <2> DEFINE o == call[r].order
  <2>1. PICK step \in {"commit", "select_lines"}, v \in Local :
           /\ Goto(r, step)
           /\ v.price = local[r].price /\ local' = [local EXCEPT ![r] = v]
    <3>1. CASE orders[o] = None
      BY <1>3, <1>5, <3>1 DEF DeleteLineGetOrder, IInv, TypeOK
    <3>2. CASE orders[o] # None
      <4> DEFINE v == [local[r] EXCEPT !.total = orders[o].total]
      <4>1. o \in OrderIds
        BY <1>1, <1>2, AtStep DEF CallShape, LineOps
      <4>2. orders[o].total \in 0..MaxTotal
        BY <3>2, <4>1 DEF IInv, TypeOK, OrderRow
      <4>3. v \in Local /\ v.price = local[r].price
        BY <1>1, <4>2, AtStep DEF Local
      <4>4. local' = [local EXCEPT ![r] = v]
        BY <1>5, <3>2 DEF DeleteLineGetOrder, IInv, TypeOK
      <4> QED
        BY <1>5, <3>2, <4>3, <4>4 DEF DeleteLineGetOrder
    <3> QED
      BY <3>1, <3>2
  <2>2. step \in Steps /\ <<step, call[r].op>> \in Handlers
    BY <1>2, <2>1 DEF Steps, Handlers, AllOps, LineWriters
  <2> QED
    BY <1>1, <1>2, <1>5, <2>1, <2>2, MoveInv DEF DeleteLineGetOrder
<1> QED
  BY <1>4, <1>5

\* The statements of PATCH .../lines/{line_id}/status after the guard.
LEMMA LineStatusInv ==
  ASSUME IInv, NEW r \in Requests,
         LineStatusUpdate(r) \/ LineStatusRefresh(r)
  PROVE  IInv'
<1> USE DEF Final
<1> DEFINE l == call[r].line
<1>1. CASE lines[l] = None
  BY <1>1, RollbackInv DEF LineStatusUpdate, LineStatusRefresh
<1>2. CASE lines[l] # None
  <2>1. pc[r] \in Steps /\ "commit" \in Steps /\ pc[r] # "get_product"
    BY DEF LineStatusUpdate, LineStatusRefresh, Steps
  <2>2. call[r].op = "update_line_status"
    BY <2>1, AtStep
       DEF LineStatusUpdate, LineStatusRefresh, Handlers, LineWriters
  <2>3. <<"commit", call[r].op>> \in Handlers
    BY <2>2 DEF Handlers, AllOps
  <2>4. l \in LineIds /\ l \notin OrderIds \cup Products
    BY <2>1, <2>2, AtStep, IdsAssumption DEF CallShape
  <2>5. CASE LineStatusUpdate(r)
    <3>1. l \in Rows /\ l \in issued
      BY <1>2, <2>4 DEF Rows, IInv, RowsIssued
    <3>2. WritesOK(call[r], {l})
      BY <1>2, <2>2, <2>4 DEF WritesOK, LineOps
    <3> QED
      BY <1>2, <2>1, <2>3, <2>5, <3>1, <3>2, WriteRowInv
         DEF LineStatusUpdate
  <2>6. CASE LineStatusRefresh(r)
    <3>1. local' = [local EXCEPT ![r] = local[r]] /\ local[r] \in Local
      BY <1>2, <2>6 DEF LineStatusRefresh, IInv, TypeOK
    <3> QED
      BY <1>2, <2>1, <2>3, <2>6, <3>1, MoveInv DEF LineStatusRefresh
  <2> QED
    BY <2>5, <2>6
<1> QED
  BY <1>1, <1>2

\* The refresh of an unchanged order status.
LEMMA OrderRefreshInv ==
  ASSUME IInv, NEW r \in Requests,
         OrderStatusRefresh(r) \/ ProductRefresh(r)
  PROVE  IInv'
<1> USE DEF Final
<1>1. CASE Rollback(r, "error")
  BY <1>1, RollbackInv
<1>2. CASE ~Rollback(r, "error")
  <2>1. pc[r] \in Steps /\ "commit" \in Steps /\ pc[r] # "get_product"
    BY DEF OrderStatusRefresh, ProductRefresh, Steps
  <2>2. call[r].op \in {"update_order_status", "update_product"}
    BY <2>1, AtStep
       DEF OrderStatusRefresh, ProductRefresh, Handlers, LineWriters
  <2>3. <<"commit", call[r].op>> \in Handlers
    BY <2>2 DEF Handlers, AllOps
  <2>4. local' = [local EXCEPT ![r] = local[r]] /\ local[r] \in Local
    BY <1>2 DEF OrderStatusRefresh, ProductRefresh, IInv, TypeOK
  <2> QED
    BY <1>2, <2>1, <2>3, <2>4, MoveInv DEF OrderStatusRefresh, ProductRefresh
<1> QED
  BY <1>1, <1>2

\* The DELETE of an order and its cascade.
LEMMA DeleteOrderInv ==
  ASSUME IInv, NEW r \in Requests,
         DeleteOrderDelete(r) \/ DeleteOrderCascade(r)
  PROVE  IInv'
<1> DEFINE o == call[r].order
<1>1. pc[r] \in Steps /\ pc[r] # "get_product"
  BY DEF DeleteOrderDelete, DeleteOrderCascade, Steps
<1>2. call[r].op = "delete_order"
  BY <1>1, AtStep
     DEF DeleteOrderDelete, DeleteOrderCascade, Handlers, LineWriters
<1>3. o \in OrderIds /\ o \notin LineIds \cup Products
  BY <1>1, <1>2, AtStep, IdsAssumption DEF CallShape, OrderOps
<1>4. \A step \in {"commit", "cascade"} :
         step \in Steps /\ <<step, call[r].op>> \in Handlers
  BY <1>2 DEF Steps, Handlers, AllOps
<1>5. local[r] \in Local
  BY DEF IInv, TypeOK
<1>6. CASE DeleteOrderDelete(r) /\ orders[o] = None
  <2>1. local' = [local EXCEPT ![r] = local[r]]
    BY <1>6 DEF DeleteOrderDelete, IInv, TypeOK
  <2> QED
    BY <1>1, <1>2, <1>4, <1>5, <1>6, <2>1, MoveInv DEF DeleteOrderDelete
<1>7. CASE DeleteOrderDelete(r) /\ orders[o] # None
  <2>1. o \in Rows /\ o \in issued
    BY <1>3, <1>7 DEF Rows, IInv, RowsIssued
  <2>2. WritesOK(call[r], {o})
    BY <1>2, <1>3, <1>7 DEF WritesOK, OrderOps
  <2> QED
    BY <1>1, <1>2, <1>4, <1>7, <2>1, <2>2, WriteRowInv
       DEF DeleteOrderDelete, FreeToDelete
<1>8. CASE DeleteOrderCascade(r)
  <2> DEFINE rows == LinesOf(lines, o)
  <2>1. /\ \A l \in rows : l \in LineIds /\ lines[l] # None /\ l \in issued
        /\ rows \in SUBSET Rows
    BY DEF LinesOf, Rows, IInv, RowsIssued
  <2>2. \A s \in Requests \ {r} : rows \cap locks[s] = {}
    BY <1>8 DEF DeleteOrderCascade, Free
  <2>3. WritesOK(call[r], rows)
    BY <1>2, <2>1, IdsAssumption DEF WritesOK
  <2>4. Lock(r, rows) /\ local' = [local EXCEPT ![r] = local[r]]
        /\ Goto(r, "commit")
        /\ UNCHANGED <<tables, issued, call, shares, history>>
    BY <1>8 DEF DeleteOrderCascade, IInv, TypeOK
  <2> HIDE DEF rows
  <2> QED
    BY <1>1, <1>2, <1>4, <1>5, <2>1, <2>2, <2>3, <2>4, AdvanceInv
<1> QED
  BY <1>6, <1>7, <1>8

\* The statements of PUT and DELETE /products/{id}.
LEMMA ProductInv ==
  ASSUME IInv, NEW r \in Requests,
         ProductUpdate(r) \/ DeleteProductDelete(r)
  PROVE  IInv'
<1> DEFINE p == call[r].product
<1>1. CASE Rollback(r, "error")
  BY <1>1, RollbackInv DEF Final
<1>2. CASE ~Rollback(r, "error")
  <2>1. pc[r] \in Steps /\ "commit" \in Steps /\ pc[r] # "get_product"
    BY DEF ProductUpdate, DeleteProductDelete, Steps
  <2>2. call[r].op \in ProductOps
    BY <2>1, AtStep
       DEF ProductUpdate, DeleteProductDelete, Handlers, LineWriters, ProductOps
  <2>3. <<"commit", call[r].op>> \in Handlers /\ call[r].op # "add_line"
    BY <2>2 DEF Handlers, AllOps, ProductOps
  <2>4. p \in Products /\ p \notin OrderIds \cup LineIds /\ p \in Rows
    BY <2>1, <2>2, AtStep, IdsAssumption DEF CallShape, Rows
  <2>5. CASE products[p] = None
    <3>1. Goto(r, "commit") /\ UNCHANGED locks
          /\ UNCHANGED <<tables, issued, call, shares, history>>
          /\ local' = [local EXCEPT ![r] = local[r]] /\ local[r] \in Local
      BY <1>2, <2>5
         DEF ProductUpdate, DeleteProductDelete, Lock, IInv, TypeOK
    <3> QED
      BY <2>1, <2>3, <3>1, MoveInv
  <2>6. CASE products[p] # None
    <3>1. WritesOK(call[r], {p})
      BY <2>2, <2>4, <2>6 DEF WritesOK
    <3>2. /\ Free(r, p) /\ Goto(r, "commit") /\ Lock(r, {p})
          /\ UNCHANGED <<tables, issued, call, local, shares, history>>
      BY <1>2, <2>6 DEF ProductUpdate, DeleteProductDelete, FreeToDelete
    <3> QED
      BY <2>1, <2>3, <2>4, <3>1, <3>2, WriteRowInv
  <2> QED
    BY <2>5, <2>6
<1> QED
  BY <1>1, <1>2
-----------------------------------------------------------------------------
(***************************************************************************)
(* COMMIT: what a request publishes are rows again, and only the rows it   *)
(* has locked change.                                                      *)
(***************************************************************************)
LEMMA OrderAfterType ==
  ASSUME IInv, NEW r \in Requests, pc[r] = "commit", NEW o \in OrderIds
  PROVE  /\ OrderAfter(r, o) \in OrderRow \cup {None}
         /\ o \notin locks[r] => OrderAfter(r, o) = orders[o]
         /\ OrderAfter(r, o) # None => o \in issued
<1>1. pc[r] \in Steps
  BY DEF Steps
<1>2. CASE o \notin locks[r]
  BY <1>2 DEF OrderAfter, IInv, TypeOK, RowsIssued
<1>3. CASE o \in locks[r]
  <2>1. o \in issued
    BY <1>3, IdsAssumption DEF IInv, RequestOK
  <2>2. /\ call[r].op \in OrderOps \cup LineWriters
        /\ call[r].op # "create_order" => orders[o] \in OrderRow
    <3>1. orders[o] \in OrderRow \cup {None}
      BY DEF IInv, TypeOK
    <3>2. WritesOK(call[r], locks[r])
      BY <1>1, AtStep
    <3> QED
      BY <1>3, <3>1, <3>2 DEF WritesOK
  <2>3. CASE call[r].op = "create_order"
    BY <1>3, <2>1, <2>3, AmountsAssumption
       DEF OrderAfter, OrderRow, OrderStatus
  <2>4. CASE call[r].op = "delete_order"
    BY <1>3, <2>1, <2>4 DEF OrderAfter
  <2>5. CASE call[r].op \in LineWriters
    <3>1. OrderAfter(r, o) = [orders[o] EXCEPT !.total = local[r].sum]
      BY <1>3, <2>5 DEF OrderAfter, LineWriters
    <3>2. local[r].sum \in 0..MaxTotal
      BY <1>1, AtStep DEF Local
    <3>3. orders[o] \in OrderRow
      BY <2>2, <2>5 DEF LineWriters
    <3>4. [orders[o] EXCEPT !.total = local[r].sum] \in OrderRow
      BY <3>2, <3>3 DEF OrderRow
    <3> QED
      BY <1>3, <2>1, <3>1, <3>4
  <2>6. CASE call[r].op \in {"update_order_status", "cancel_order"}
    <3>1. OrderAfter(r, o) = [orders[o] EXCEPT !.status = call[r].target]
      BY <1>3, <2>6 DEF OrderAfter, LineWriters
    <3>2. call[r].target \in OrderStatus
      BY <1>1, <2>6, AtStep DEF CallShape
    <3>3. orders[o] \in OrderRow
      BY <2>2, <2>6
    <3>4. [orders[o] EXCEPT !.status = call[r].target] \in OrderRow
      BY <3>2, <3>3 DEF OrderRow
    <3> QED
      BY <1>3, <2>1, <3>1, <3>4
  <2> QED
    BY <2>2, <2>3, <2>4, <2>5, <2>6 DEF OrderOps
<1> QED
  BY <1>2, <1>3

\* The row of a line that a COMMIT publishes.
LEMMA LineAfterType ==
  ASSUME IInv, NEW r \in Requests, pc[r] = "commit", NEW l \in LineIds
  PROVE  /\ LineAfter(r, l) \in LineRow \cup {None}
         /\ l \notin locks[r] => LineAfter(r, l) = lines[l]
         /\ LineAfter(r, l) # None => l \in issued
         /\ (LineAfter(r, l) # None /\ LineAfter(r, l).status # "PENDING")
               => l \in shipped \/ LineAfter(r, l).status = "SHIPPED"
<1>1. pc[r] \in Steps
  BY DEF Steps
<1>2. CASE l \notin locks[r]
  BY <1>2 DEF LineAfter, IInv, TypeOK, RowsIssued, ShippedBefore
<1>3. CASE l \in locks[r]
  <2>1. l \in issued
    BY <1>3, IdsAssumption DEF IInv, RequestOK
  <2>2. CASE call[r].op = "add_line"
    <3>1. LineAfter(r, l) = NewLine(r)
      BY <1>3, <2>2 DEF LineAfter
    <3>2. /\ call[r].order \in OrderIds /\ call[r].product \in Products
          /\ call[r].qty \in Quantities /\ local[r].price \in Prices
      BY <1>1, <2>2, AtStep DEF CallShape, LineOps
    <3>3. NewLine(r) \in LineRow /\ NewLine(r).status = "PENDING"
      BY <3>2 DEF NewLine, LineRow, LineStatus
    <3> QED
      BY <1>3, <2>1, <3>1, <3>3
  <2>3. CASE call[r].op = "update_line_status"
    <3>1. LineAfter(r, l) = [lines[l] EXCEPT !.status = call[r].target]
      BY <1>3, <2>3 DEF LineAfter
    <3>2. call[r].target \in LineStatus
      BY <1>1, <2>3, AtStep DEF CallShape
    <3>3. lines[l] \in LineRow /\ l = call[r].line
      <4>1. WritesOK(call[r], locks[r])
        BY <1>1, AtStep
      <4>2. lines[l] # None /\ l = call[r].line
        BY <1>3, <2>3, <4>1 DEF WritesOK
      <4>3. lines[l] \in LineRow \cup {None}
        BY DEF IInv, TypeOK
      <4> QED
        BY <4>2, <4>3
    <3>4. /\ [lines[l] EXCEPT !.status = call[r].target] \in LineRow
          /\ [lines[l] EXCEPT !.status = call[r].target].status
                = call[r].target
      BY <3>2, <3>3 DEF LineRow
    <3>5. call[r].target = "REFUNDED" => l \in shipped
      BY <1>1, <2>3, <3>3 DEF IInv, RequestOK
    <3> QED
      BY <1>3, <2>1, <3>1, <3>2, <3>4, <3>5 DEF LineStatus
  <2>4. CASE call[r].op \notin {"add_line", "update_line_status"}
    BY <1>3, <2>1, <2>4 DEF LineAfter
  <2> QED
    BY <2>2, <2>3, <2>4
<1> QED
  BY <1>2, <1>3

\* The row of a product that a COMMIT publishes.
LEMMA ProductAfterType ==
  ASSUME IInv, NEW r \in Requests, pc[r] = "commit", NEW p \in Products
  PROVE  /\ ProductAfter(r, p) \in Prices \cup {None}
         /\ p \notin locks[r] => ProductAfter(r, p) = products[p]
<1>1. pc[r] \in Steps
  BY DEF Steps
<1>2. CASE p \notin locks[r]
  BY <1>2 DEF ProductAfter, IInv, TypeOK
<1>3. CASE p \in locks[r]
  <2>1. call[r].op \in ProductOps
    BY <1>1, <1>3, AtStep DEF WritesOK
  <2>2. call[r].op = "update_product" => call[r].price \in Prices
    BY <1>1, AtStep DEF CallShape
  <2> QED
    BY <1>3, <2>1, <2>2 DEF ProductAfter, ProductOps
<1> QED
  BY <1>2, <1>3

\* COMMIT publishes the request's rows and releases its locks.
LEMMA CommitInv ==
  ASSUME IInv, NEW r \in Requests, Commit(r)
  PROVE  IInv'
<1>1. pc[r] = "commit" /\ pc[r] \in Steps
  BY DEF Commit, Steps
<1>2. NoCall \in Call /\ NoLocal \in Local /\ "ok" \in Final
  BY AmountsAssumption DEF Call, Local, NoCall, NoLocal, Final
<1>3. /\ orders' \in [OrderIds -> OrderRow \cup {None}]
      /\ lines' \in [LineIds -> LineRow \cup {None}]
      /\ products' \in [Products -> Prices \cup {None}]
  BY <1>1, OrderAfterType, LineAfterType, ProductAfterType
     DEF Commit, LinesAfter
<1>4. /\ \A o \in OrderIds : o \notin locks[r] => orders'[o] = orders[o]
      /\ \A l \in LineIds : l \notin locks[r] => lines'[l] = lines[l]
      /\ \A p \in Products : p \notin locks[r] => products'[p] = products[p]
  BY <1>1, OrderAfterType, LineAfterType, ProductAfterType
     DEF Commit, LinesAfter
<1>5. /\ pc' = [pc EXCEPT ![r] = "ok"]
      /\ call' = [call EXCEPT ![r] = NoCall]
      /\ local' = [local EXCEPT ![r] = NoLocal]
      /\ locks' = [locks EXCEPT ![r] = {}]
      /\ shares' = [shares EXCEPT ![r] = {}]
      /\ issued' = issued
  BY DEF Commit, Finish, Goto
<1>6. raced' \subseteq Requests /\ tainted' \subseteq OrderIds
  <2>1. Overtaken(r) \subseteq Requests
    BY DEF Overtaken, Open
  <2>2. call[r].op \in LineWriters => call[r].order \in OrderIds
    BY <1>1, AtStep DEF CallShape, LineOps, LineWriters
  <2>3. raced \subseteq Requests /\ tainted \subseteq OrderIds
    BY DEF IInv, TypeOK
  <2> QED
    BY <2>1, <2>2, <2>3 DEF Commit
<1>7. /\ confirmed' \subseteq OrderIds /\ shipped' \subseteq LineIds
      /\ shipped \subseteq shipped'
  BY DEF Commit, IInv, TypeOK
<1>8. TypeOK'
  BY <1>2, <1>3, <1>5, <1>6, <1>7 DEF IInv, TypeOK
<1>9. LocksDisjoint'
  BY <1>5 DEF IInv, TypeOK, LocksDisjoint
<1>10. RowsIssued'
  BY <1>1, <1>5, OrderAfterType, LineAfterType
     DEF Commit, LinesAfter, RowsIssued
<1>11. ShippedBefore'
  <2> SUFFICES ASSUME NEW l \in LineIds, lines'[l] # None,
                      lines'[l].status # "PENDING"
               PROVE  l \in shipped'
    BY DEF ShippedBefore
  <2>1. lines'[l] = LineAfter(r, l)
    BY DEF Commit, LinesAfter
  <2>2. l \in shipped \/ lines'[l].status = "SHIPPED"
    BY <1>1, <2>1, LineAfterType
  <2> QED
    BY <1>7, <2>2 DEF Commit
<1>12. ASSUME NEW s \in Requests
       PROVE  RequestOK(pc[s], call[s], local[s], locks[s])'
  <2>1. CASE s = r
    BY <1>5, <2>1 DEF RequestOK, WritesOK, Steps, IInv, TypeOK
  <2>2. CASE s # r
    <3> SUFFICES ASSUME NEW step, NEW c, NEW v, NEW L,
                        step = pc[s], c = call[s], v = local[s], L = locks[s]
                 PROVE  RequestOK(pc[s], call[s], local[s], locks[s])'
      OBVIOUS
    <3>1. RequestOK(step, c, v, L)
      BY DEF IInv
    <3>2. L \cap locks[r] = {}
      BY <2>2 DEF IInv, LocksDisjoint
    <3>3. WritesOK(c, L)'
      BY <1>4, <3>1, <3>2 DEF RequestOK, WritesOK
    <3>4. RequestOK(step, c, v, L)'
      BY <1>5, <1>7, <3>1, <3>3 DEF RequestOK
    <3>5. pc'[s] = step /\ call'[s] = c /\ local'[s] = v /\ locks'[s] = L
      BY <1>5, <2>2 DEF IInv, TypeOK
    <3> QED
      BY <3>4, <3>5
  <2> QED
    BY <2>1, <2>2
<1> QED
  BY <1>8, <1>9, <1>10, <1>11, <1>12 DEF IInv
-----------------------------------------------------------------------------
\* Every later statement, and every failure.
LEMMA StepInv ==
  ASSUME IInv, NEW r \in Requests, Step(r) \/ Fail(r)
  PROVE  IInv'
<1>1. CASE Fail(r) \/ DeadlockVictim(r)
  BY <1>1, RollbackInv DEF Fail, DeadlockVictim, Final
<1>2. CASE Step(r) /\ ~DeadlockVictim(r)
  BY <1>2, AddLineInv, RecomputeSelectInv, UpdateOrderRowInv, DeleteLineInv,
     LineStatusInv, OrderRefreshInv, DeleteOrderInv, ProductInv, CommitInv
     DEF Step
<1> QED
  BY <1>1, <1>2

\* A step that changes no variable changes nothing the invariant says.
LEMMA StutterInv == IInv /\ UNCHANGED vars => IInv'
<1> SUFFICES ASSUME IInv, UNCHANGED vars PROVE IInv'
  OBVIOUS
<1>1. TypeOK' /\ LocksDisjoint' /\ RowsIssued' /\ ShippedBefore'
  BY DEF IInv, TypeOK, LocksDisjoint, RowsIssued, ShippedBefore, vars
<1>2. \A r \in Requests : RequestOK(pc[r], call[r], local[r], locks[r])'
  BY DEF IInv, RequestOK, WritesOK, vars
<1> QED
  BY <1>1, <1>2 DEF IInv

\* Every reachable state satisfies the inductive invariant: what a request
\* has loaded and locked agrees with the statement it is about to execute.
THEOREM Invariance == Spec => []IInv
<1>1. IInv /\ [Next]_vars => IInv'
  BY BeginInv, StepInv, StutterInv DEF Next
<1> QED
  BY InitIInv, <1>1, PTL DEF Spec

\* Tables, sessions and locks hold what their columns and the handlers
\* allow, for any number of requests, orders, lines and products.
THEOREM TypeCorrect == Spec => []TypeOK
<1>1. IInv => TypeOK
  BY DEF IInv
<1> QED
  BY Invariance, <1>1, PTL

\* No interleaving of PATCH .../status requests refunds a line that was
\* never shipped.
THEOREM RefundTheorem == Spec => []RefundFollowsShipment
<1>1. IInv => RefundFollowsShipment
  BY DEF IInv, ShippedBefore, RefundFollowsShipment
<1> QED
  BY Invariance, <1>1, PTL

\* Only COMMIT changes a table.
LEMMA TablesKept ==
  ASSUME NEW r \in Requests, Begin(r) \/ Step(r) \/ Fail(r), ~Commit(r)
  PROVE  UNCHANGED tables
<1>1. CASE Begin(r)
  <2>1. CASE CreateOrderNoId(r) \/ \E o \in OrderIds : CreateOrderInsert(r, o)
    BY <2>1 DEF CreateOrderNoId, CreateOrderInsert, Rollback, tables
  <2>2. CASE \E o \in OrderIds :
                \/ CancelOrderGet(r, o) \/ DeleteOrderGet(r, o)
                \/ \E t \in OrderStatus : OrderStatusGet(r, o, t)
    BY <2>2 DEF CancelOrderGet, DeleteOrderGet, OrderStatusGet, Reject,
                Rollback, Enter, tables
  <2>3. CASE \E o \in OrderIds :
                \/ \E p \in Products, q \in Quantities :
                      AddLineGetOrder(r, o, p, q)
                \/ \E l \in LineIds : DeleteLineGet(r, o, l)
                \/ \E l \in LineIds, t \in LineStatus :
                      LineStatusGet(r, o, l, t)
    BY <2>3 DEF AddLineGetOrder, DeleteLineGet, LineStatusGet, Reject,
                Rollback, Enter, tables
  <2>4. CASE \E p \in Products :
                \/ \E price \in Prices : ProductGet(r, p, price)
                \/ DeleteProductGet(r, p)
    BY <2>4 DEF ProductGet, DeleteProductGet, Reject, Rollback, Enter, tables
  <2> QED
    BY <1>1, <2>1, <2>2, <2>3, <2>4 DEF Begin
<1>2. CASE Step(r)
  <2>1. CASE AddLineGetProduct(r) \/ AddLineNoId(r)
                \/ \E l \in LineIds : AddLineInsert(r, l)
    BY <2>1 DEF AddLineGetProduct, AddLineNoId, AddLineInsert, Reject,
                Rollback, tables
  <2>2. CASE RecomputeSelect(r) \/ RecomputeUpdate(r) \/ OrderStatusUpdate(r)
                \/ OrderStatusRefresh(r)
    BY <2>2 DEF RecomputeSelect, RecomputeUpdate, OrderStatusUpdate,
                UpdateOrderRow, OrderStatusRefresh, Rollback, tables
  <2>3. CASE DeleteLineDelete(r) \/ DeleteLineGetOrder(r)
                \/ LineStatusUpdate(r) \/ LineStatusRefresh(r)
    BY <2>3 DEF DeleteLineDelete, DeleteLineGetOrder, LineStatusUpdate,
                LineStatusRefresh, Rollback, tables
  <2>4. CASE DeleteOrderDelete(r) \/ DeleteOrderCascade(r)
    BY <2>4 DEF DeleteOrderDelete, DeleteOrderCascade, tables
  <2>5. CASE ProductUpdate(r) \/ ProductRefresh(r) \/ DeleteProductDelete(r)
                \/ DeadlockVictim(r)
    BY <2>5 DEF ProductUpdate, ProductRefresh, DeleteProductDelete,
                DeadlockVictim, Rollback, tables
  <2> QED
    BY <1>2, <2>1, <2>2, <2>3, <2>4, <2>5 DEF Step
<1>3. CASE Fail(r)
  BY <1>3 DEF Fail, Rollback, tables
<1> QED
  BY <1>1, <1>2, <1>3

\* A COMMIT that keeps a line keeps all of it but its status.
LEMMA CommitKeepsSnapshot ==
  ASSUME IInv, NEW r \in Requests, Commit(r),
         NEW l \in LineIds, lines[l] # None, lines'[l] # None
  PROVE  lines'[l] = [lines[l] EXCEPT !.status = lines'[l].status]
<1>1. pc[r] \in Steps
  BY DEF Commit, Steps
<1>2. lines'[l] = LineAfter(r, l)
  BY DEF Commit, LinesAfter
<1>3. lines[l] \in LineRow
  BY DEF IInv, TypeOK
<1>4. CASE l \notin locks[r]
  BY <1>2, <1>3, <1>4 DEF LineAfter, LineRow
<1>5. CASE l \in locks[r]
  <2>1. call[r].op # "add_line"
    BY <1>1, <1>5, AtStep DEF WritesOK
  <2>2. lines'[l] = [lines[l] EXCEPT !.status = call[r].target]
    BY <1>2, <1>5, <2>1 DEF LineAfter
  <2> QED
    BY <1>3, <2>2 DEF LineRow
<1> QED
  BY <1>4, <1>5

\* No price change, refund, recomputed total or rollback ever reaches the
\* order, product, quantity and price a committed line was created with.
THEOREM SnapshotTheorem == Spec => SnapshotNeverChanges
<1> DEFINE Keeps == \A l \in LineIds :
                       lines[l] # None /\ lines'[l] # None =>
                          lines'[l] = [lines[l] EXCEPT !.status =
                                                          lines'[l].status]
<1>1. ASSUME IInv, [Next]_vars PROVE [Keeps]_vars
  <2>1. CASE UNCHANGED vars
    BY <2>1
  <2>2. CASE \E r \in Requests : Commit(r)
    BY <1>1, <2>2, CommitKeepsSnapshot
  <2>3. CASE Next /\ ~\E r \in Requests : Commit(r)
    <3>1. lines' = lines
      BY <2>3, TablesKept DEF Next, tables
    <3>2. \A l \in LineIds : lines[l] # None => lines[l] \in LineRow
      BY <1>1 DEF IInv, TypeOK
    <3> QED
      BY <3>1, <3>2 DEF LineRow
  <2> QED
    BY <1>1, <2>1, <2>2, <2>3
<1> QED
  BY Invariance, <1>1, PTL DEF Spec, SnapshotNeverChanges
-----------------------------------------------------------------------------
\* What request r leaves of the sessions of the others.
OthersKept(r) ==
  \A s \in Requests \ {r} :
     /\ pc'[s] = pc[s] /\ call'[s] = call[s]
     /\ locks'[s] = locks[s] /\ shares'[s] = shares[s]

\* The session of r is over, and with it its locks.
Over(r) == pc'[r] \in Final /\ locks'[r] = {} /\ shares'[r] = {}

\* A rollback is such an end.
LEMMA RollbackEnds ==
  ASSUME IInv, NEW r \in Requests, NEW outcome \in Final,
         Rollback(r, outcome) \/ Finish(r, outcome)
  PROVE  OthersKept(r) /\ Over(r)
BY DEF Rollback, Finish, Goto, OthersKept, Over, IInv, TypeOK

\* The first statement of a handler ends the request, or makes a session that
\* holds nothing, or inserts an order under an id nobody was given before.
LEMMA BeginShape ==
  ASSUME IInv, NEW r \in Requests, Begin(r)
  PROVE  /\ OthersKept(r) /\ UNCHANGED <<confirmed, shipped>>
         /\ \/ Over(r)
            \/ locks'[r] = {} /\ shares'[r] = shares[r]
            \/ /\ call'[r].op = "create_order" /\ pc'[r] = "commit"
               /\ shares'[r] = shares[r]
               /\ \E o \in OrderIds \ issued : locks'[r] = {o}
<1> USE DEF Starts, Reject, Final
<1>1. pc[r] = "idle" /\ locks[r] = {}
  <2>1. pc[r] = "idle"
    BY DEF Begin, CreateOrderNoId, CreateOrderInsert, CancelOrderGet,
           DeleteOrderGet, OrderStatusGet, AddLineGetOrder, DeleteLineGet,
           LineStatusGet, ProductGet, DeleteProductGet
  <2> QED
    BY <2>1 DEF IInv, RequestOK, Steps
<1>2. ASSUME NEW c, NEW step, Enter(r, c, step), UNCHANGED locks
      PROVE  /\ OthersKept(r) /\ UNCHANGED <<confirmed, shipped>>
             /\ locks'[r] = {} /\ shares'[r] = shares[r]
  BY <1>1, <1>2 DEF Enter, Goto, history, OthersKept, IInv, TypeOK
<1>3. ASSUME Rollback(r, "rejected") \/ Rollback(r, "error")
      PROVE  OthersKept(r) /\ UNCHANGED <<confirmed, shipped>> /\ Over(r)
  BY <1>3, RollbackEnds DEF Rollback
<1>4. CASE CreateOrderNoId(r)
  BY <1>3, <1>4 DEF CreateOrderNoId
<1>5. ASSUME NEW o \in OrderIds, CreateOrderInsert(r, o)
      PROVE  /\ OthersKept(r) /\ UNCHANGED <<confirmed, shipped>>
             /\ \/ Over(r)
                \/ /\ call'[r].op = "create_order" /\ pc'[r] = "commit"
                   /\ shares'[r] = shares[r]
                   /\ \E i \in OrderIds \ issued : locks'[r] = {i}
  <2>1. CASE Finish(r, "rejected") /\ UNCHANGED history
    BY <2>1, RollbackEnds DEF history
  <2>2. CASE /\ Goto(r, "commit") /\ Lock(r, {o}) /\ UNCHANGED <<shares, history>>
             /\ o \notin issued
             /\ call' = [call EXCEPT ![r] = [NoCall EXCEPT !.op = "create_order",
                                                           !.order = o]]
    BY <1>1, <2>2 DEF Goto, Lock, history, OthersKept, NoCall, IInv, TypeOK
  <2> QED
    BY <1>5, <2>1, <2>2 DEF CreateOrderInsert
<1>6. ASSUME NEW o \in OrderIds,
             \/ CancelOrderGet(r, o) \/ DeleteOrderGet(r, o)
             \/ \E t \in OrderStatus : OrderStatusGet(r, o, t)
             \/ \E p \in Products, q \in Quantities :
                   AddLineGetOrder(r, o, p, q)
             \/ \E l \in LineIds : DeleteLineGet(r, o, l)
             \/ \E l \in LineIds, t \in LineStatus : LineStatusGet(r, o, l, t)
      PROVE  \/ Rollback(r, "rejected")
             \/ \E c, step : Enter(r, c, step) /\ UNCHANGED locks
  BY <1>6, Zenon DEF CancelOrderGet, DeleteOrderGet, OrderStatusGet, AddLineGetOrder,
              DeleteLineGet, LineStatusGet
<1>7. ASSUME NEW p \in Products,
             \/ \E price \in Prices : ProductGet(r, p, price)
             \/ DeleteProductGet(r, p)
      PROVE  \/ Rollback(r, "rejected")
             \/ \E c, step : Enter(r, c, step) /\ UNCHANGED locks
  BY <1>7, Zenon DEF ProductGet, DeleteProductGet
<1> QED
  BY <1>2, <1>3, <1>4, <1>5, <1>6, <1>7 DEF Begin

\* A later statement ends the request or moves it on, with its parameters.
LEMMA StepShape ==
  ASSUME IInv, NEW r \in Requests, Step(r) \/ Fail(r), ~Commit(r)
  PROVE  /\ OthersKept(r) /\ UNCHANGED <<confirmed, shipped>>
         /\ \/ Over(r)
            \/ /\ pc[r] \in Steps \ {"commit"} /\ pc'[r] \in Steps
               /\ call'[r] = call[r]
               /\ pc[r] \in {"refresh_order", "refresh_line"}
                    => pc'[r] = "commit" /\ locks'[r] = locks[r]
<1> DEFINE Moves == /\ OthersKept(r) /\ UNCHANGED <<confirmed, shipped>>
                    /\ pc[r] \in Steps \ {"commit"} /\ pc'[r] \in Steps
                    /\ call'[r] = call[r]
                    /\ pc[r] \in {"refresh_order", "refresh_line"}
                         => pc'[r] = "commit" /\ locks'[r] = locks[r]
<1> USE DEF Final
<1>1. ASSUME Rollback(r, "rejected") \/ Rollback(r, "error")
      PROVE  OthersKept(r) /\ UNCHANGED <<confirmed, shipped>> /\ Over(r)
  BY <1>1, RollbackEnds DEF Rollback
<1>2. CASE AddLineGetProduct(r) \/ AddLineNoId(r)
  <2>1. CASE Rollback(r, "rejected") \/ Rollback(r, "error")
    BY <1>1, <2>1
  <2>2. CASE ~(Rollback(r, "rejected") \/ Rollback(r, "error"))
    <3> Moves
      BY <1>2, <2>2 DEF AddLineGetProduct, AddLineNoId, Reject, Goto, OthersKept,
                        history, Steps, IInv, TypeOK
    <3> QED
      OBVIOUS
  <2> QED
    BY <2>1, <2>2
<1>3. CASE \E l \in LineIds : AddLineInsert(r, l)
  <2>1. CASE Finish(r, "error") /\ UNCHANGED <<confirmed, shipped>>
    BY <2>1, RollbackEnds
  <2>2. CASE ~(Finish(r, "error") /\ UNCHANGED <<confirmed, shipped>>)
    <3> Moves
      BY <1>3, <2>2 DEF AddLineInsert, Goto, Lock, OthersKept, history, Steps,
                        IInv, TypeOK
    <3> QED
      OBVIOUS
  <2> QED
    BY <2>1, <2>2
<1>4. CASE RecomputeSelect(r)
  <2>1. CASE Rollback(r, "error")
    BY <1>1, <2>1
  <2>2. CASE ~Rollback(r, "error")
    <3>1. /\ pc[r] = "select_lines"
          /\ \E step \in {"commit", "update_total"} : Goto(r, step)
          /\ UNCHANGED <<call, locks, shares, history>>
      BY <1>4, <2>2 DEF RecomputeSelect
    <3> Moves
      BY <3>1 DEF Goto, OthersKept, history, Steps, IInv, TypeOK
    <3> QED
      OBVIOUS
  <2> QED
    BY <2>1, <2>2
<1>5. CASE RecomputeUpdate(r) \/ OrderStatusUpdate(r) \/ LineStatusUpdate(r)
              \/ ProductUpdate(r)
  <2>1. CASE Rollback(r, "error")
    BY <1>1, <2>1
  <2>2. CASE ~Rollback(r, "error")
    <3>1. /\ pc[r] \in {"update_total", "update_order", "update_line",
                        "update_product"}
          /\ Goto(r, "commit")
          /\ \E rows : Lock(r, rows)
          /\ UNCHANGED <<call, shares, history>>
      BY <1>5, <2>2
         DEF RecomputeUpdate, OrderStatusUpdate, UpdateOrderRow,
             LineStatusUpdate, ProductUpdate
    <3> Moves
      BY <3>1 DEF Goto, Lock, OthersKept, history, Steps, IInv, TypeOK
    <3> QED
      OBVIOUS
  <2> QED
    BY <2>1, <2>2
<1>6. CASE DeleteLineDelete(r) \/ DeleteLineGetOrder(r)
  <2> Moves
    BY <1>6 DEF DeleteLineDelete, DeleteLineGetOrder, Goto, Lock, OthersKept,
                history, Steps, IInv, TypeOK
  <2> QED
    OBVIOUS
<1>7. CASE LineStatusRefresh(r) \/ OrderStatusRefresh(r) \/ ProductRefresh(r)
  <2>1. CASE Rollback(r, "error")
    BY <1>1, <2>1
  <2>2. CASE ~Rollback(r, "error")
    <3> Moves
      BY <1>7, <2>2 DEF LineStatusRefresh, OrderStatusRefresh, ProductRefresh,
                        Goto, OthersKept, history, Steps, IInv, TypeOK
    <3> QED
      OBVIOUS
  <2> QED
    BY <2>1, <2>2
<1>8. CASE DeleteOrderDelete(r) \/ DeleteOrderCascade(r)
  <2> Moves
    BY <1>8 DEF DeleteOrderDelete, DeleteOrderCascade, Goto, Lock, OthersKept,
                history, Steps, IInv, TypeOK
  <2> QED
    OBVIOUS
<1>9. CASE DeleteProductDelete(r)
  <2>1. CASE Rollback(r, "error")
    BY <1>1, <2>1
  <2>2. CASE ~Rollback(r, "error")
    <3>1. /\ pc[r] = "delete_product" /\ Goto(r, "commit")
          /\ \E rows : Lock(r, rows)
          /\ UNCHANGED <<call, shares, history>>
      BY <1>9, <2>2 DEF DeleteProductDelete
    <3> Moves
      BY <3>1 DEF Goto, Lock, OthersKept, history, Steps, IInv, TypeOK
    <3> QED
      OBVIOUS
  <2> QED
    BY <2>1, <2>2
<1>10. CASE Fail(r) \/ DeadlockVictim(r)
  BY <1>1, <1>10 DEF Fail, DeadlockVictim
<1> QED
  BY <1>2, <1>3, <1>4, <1>5, <1>6, <1>7, <1>8, <1>9, <1>10 DEF Step
-----------------------------------------------------------------------------
(***************************************************************************)
(* The statuses.                                                           *)
(***************************************************************************)

\* Every initial state satisfies StatusInv.
LEMMA InitStatus == Init => StatusInv
<1> SUFFICES ASSUME Init PROVE StatusInv
  OBVIOUS
<1>1. ConfirmedBefore
  BY DEF Init, ConfirmedBefore
<1>2. \A r \in Requests : AsksOK(pc[r], call[r], locks[r])
  BY DEF Init, AsksOK, Steps
<1> QED
  BY <1>1, <1>2 DEF StatusInv

\* What the parameters say of the tables, what was loaded and the statement
\* that comes next.
Asked(c, v, step) ==
  /\ c.op = "add_line" =>
        /\ orders[c.order] # None
        /\ v.total = orders[c.order].total /\ step = "get_product"
  /\ c.op = "delete_line" =>
        /\ lines[c.line] # None /\ lines[c.line].order = c.order
        /\ step = "delete_line"
  /\ c.op = "cancel_order" => c.target = "CANCELLED"
  /\ c.op = "update_order_status" =>
        /\ OrderMayMove(c.order, c.target)
        /\ orders[c.order].status = c.target => step = "refresh_order"
  /\ c.op = "update_line_status" =>
        /\ LineMayMove(c.order, c.line, c.target)
        /\ lines[c.line].status = c.target => step = "refresh_line"

\* The first statement of a handler either ends the request or starts a
\* session with the parameters of the call, checked against the tables.
LEMMA BeginCall ==
  ASSUME IInv, NEW r \in Requests, Begin(r)
  PROVE  Over(r) \/ Asked(call'[r], local'[r], pc'[r])
<1> SUFFICES ASSUME ~Over(r) PROVE Asked(call'[r], local'[r], pc'[r])
  OBVIOUS
<1> USE DEF Starts, Reject, Final
<1>1. ASSUME NEW c \in Call, NEW step, Enter(r, c, step),
             Asked(c, local'[r], step)
      PROVE  Asked(call'[r], local'[r], pc'[r])
  <2>1. pc'[r] = step /\ call'[r] = c
    BY <1>1 DEF Enter, Goto, IInv, TypeOK
  <2> QED
    BY <1>1, <2>1
<1>2. ASSUME NEW o \in OrderIds, CancelOrderGet(r, o)
      PROVE  Asked(call'[r], local'[r], pc'[r])
  <2> DEFINE c == [NoCall EXCEPT !.op = "cancel_order", !.order = o,
                                 !.target = "CANCELLED"]
  <2>1. c \in Call /\ c.op = "cancel_order" /\ c.target = "CANCELLED"
    BY DEF Call, NoCall, AllOps, OrderStatus
  <2>2. \E step : Enter(r, c, step)
    BY <1>2, RollbackEnds, Zenon DEF CancelOrderGet
  <2> HIDE DEF c
  <2> QED
    BY <1>1, <2>1, <2>2 DEF Asked
<1>3. ASSUME NEW o \in OrderIds, DeleteOrderGet(r, o)
      PROVE  Asked(call'[r], local'[r], pc'[r])
  <2> DEFINE c == [NoCall EXCEPT !.op = "delete_order", !.order = o]
  <2>1. c \in Call /\ c.op = "delete_order"
    BY DEF Call, NoCall, AllOps, OrderStatus
  <2>2. \E step : Enter(r, c, step)
    BY <1>3, RollbackEnds, Zenon DEF DeleteOrderGet
  <2> HIDE DEF c
  <2> QED
    BY <1>1, <2>1, <2>2 DEF Asked
<1>4. ASSUME NEW o \in OrderIds, NEW t \in OrderStatus, OrderStatusGet(r, o, t)
      PROVE  Asked(call'[r], local'[r], pc'[r])
  <2> DEFINE c == [NoCall EXCEPT !.op = "update_order_status",
                                 !.order = o, !.target = t]
             step == IF orders[o].status = t THEN "refresh_order"
                                             ELSE "update_order"
  <2>1. c \in Call /\ c.op = "update_order_status" /\ c.order = o /\ c.target = t
    BY DEF Call, NoCall, AllOps
  <2>2. Enter(r, c, step) /\ OrderMayMove(o, t)
    BY <1>4, RollbackEnds, Zenon DEF OrderStatusGet
  <2>3. orders[o].status = t => step = "refresh_order"
    OBVIOUS
  <2> HIDE DEF c, step
  <2>4. Asked(c, local'[r], step)
    BY <2>1, <2>2, <2>3 DEF Asked
  <2> QED
    BY <1>1, <2>1, <2>2, <2>4
<1>5. ASSUME NEW o \in OrderIds, NEW l \in LineIds, NEW t \in LineStatus,
             LineStatusGet(r, o, l, t)
      PROVE  Asked(call'[r], local'[r], pc'[r])
  <2> DEFINE c == [NoCall EXCEPT !.op = "update_line_status", !.order = o,
                                 !.line = l, !.target = t]
             step == IF lines[l].status = t THEN "refresh_line"
                                            ELSE "update_line"
  <2>1. /\ c \in Call /\ c.op = "update_line_status"
        /\ c.order = o /\ c.line = l /\ c.target = t
    BY DEF Call, NoCall, AllOps
  <2>2. Enter(r, c, step) /\ LineMayMove(o, l, t)
    BY <1>5, RollbackEnds, Zenon DEF LineStatusGet
  <2>3. lines[l].status = t => step = "refresh_line"
    OBVIOUS
  <2> HIDE DEF c, step
  <2>4. Asked(c, local'[r], step)
    BY <2>1, <2>2, <2>3 DEF Asked
  <2> QED
    BY <1>1, <2>1, <2>2, <2>4
<1>6. ASSUME NEW o \in OrderIds, NEW p \in Products, NEW q \in Quantities,
             AddLineGetOrder(r, o, p, q)
      PROVE  Asked(call'[r], local'[r], pc'[r])
  <2> DEFINE c == [NoCall EXCEPT !.op = "add_line", !.order = o,
                                 !.product = p, !.qty = q]
  <2>1. c \in Call /\ c.op = "add_line" /\ c.order = o
    BY DEF Call, NoCall, AllOps, OrderStatus
  <2>2. /\ orders[o] # None /\ Enter(r, c, "get_product")
        /\ local' = [local EXCEPT ![r].total = orders[o].total]
    BY <1>6, RollbackEnds, Zenon DEF AddLineGetOrder
  <2>3. local'[r].total = orders[o].total
    BY <2>2 DEF IInv, TypeOK, Local
  <2> HIDE DEF c
  <2> QED
    BY <1>1, <2>1, <2>2, <2>3 DEF Asked
<1>7. ASSUME NEW o \in OrderIds, NEW l \in LineIds, DeleteLineGet(r, o, l)
      PROVE  Asked(call'[r], local'[r], pc'[r])
  <2> DEFINE c == [NoCall EXCEPT !.op = "delete_line", !.order = o, !.line = l]
  <2>1. c \in Call /\ c.op = "delete_line" /\ c.order = o /\ c.line = l
    BY DEF Call, NoCall, AllOps, OrderStatus
  <2>2. /\ lines[l] # None /\ lines[l].order = o
        /\ Enter(r, c, "delete_line")
    BY <1>7, RollbackEnds, Zenon DEF DeleteLineGet
  <2> HIDE DEF c
  <2> QED
    BY <1>1, <2>1, <2>2 DEF Asked
<1>8. ASSUME NEW p \in Products, NEW price \in Prices, ProductGet(r, p, price)
      PROVE  Asked(call'[r], local'[r], pc'[r])
  <2> DEFINE c == [NoCall EXCEPT !.op = "update_product", !.product = p,
                                 !.price = price]
  <2>1. c \in Call /\ c.op = "update_product"
    BY DEF Call, NoCall, AllOps, OrderStatus
  <2>2. \E step : Enter(r, c, step)
    BY <1>8, RollbackEnds, Zenon DEF ProductGet
  <2> HIDE DEF c
  <2> QED
    BY <1>1, <2>1, <2>2 DEF Asked
<1>9. ASSUME NEW p \in Products, DeleteProductGet(r, p)
      PROVE  Asked(call'[r], local'[r], pc'[r])
  <2> DEFINE c == [NoCall EXCEPT !.op = "delete_product", !.product = p]
  <2>1. c \in Call /\ c.op = "delete_product"
    BY DEF Call, NoCall, AllOps, OrderStatus
  <2>2. \E step : Enter(r, c, step)
    BY <1>9, RollbackEnds, Zenon DEF DeleteProductGet
  <2> HIDE DEF c
  <2> QED
    BY <1>1, <2>1, <2>2 DEF Asked
<1>10. ASSUME NEW o \in OrderIds, CreateOrderInsert(r, o)
       PROVE  Asked(call'[r], local'[r], pc'[r])
  <2>1. call'[r].op = "create_order"
    BY <1>10, RollbackEnds DEF CreateOrderInsert, IInv, TypeOK, NoCall
  <2> QED
    BY <2>1 DEF Asked
<1>11. ~CreateOrderNoId(r)
  BY RollbackEnds DEF CreateOrderNoId
<1> QED
  BY <1>2, <1>3, <1>4, <1>5, <1>6, <1>7, <1>8, <1>9, <1>10, <1>11 DEF Begin

\* A handler asks for a status only when the graph allows it from the status
\* it has read.
LEMMA BeginAsks ==
  ASSUME IInv, StatusInv, NEW r \in Requests, Begin(r)
  PROVE  AsksOK(pc[r], call[r], locks[r])'
<1>1. CASE Over(r)
  BY <1>1 DEF Over, AsksOK, Final, Steps
<1>2. CASE ~Over(r) /\ call'[r].op \notin {"update_order_status",
                                           "update_line_status"}
  BY <1>2, BeginCall DEF AsksOK, Asked
<1>3. CASE ~Over(r) /\ call'[r].op \in {"update_order_status",
                                        "update_line_status"}
  <2> SUFFICES ASSUME NEW c, c = call'[r], NEW step, step = pc'[r]
               PROVE  AsksOK(pc[r], call[r], locks[r])'
    OBVIOUS
  <2>1. Asked(c, local'[r], step) /\ locks'[r] = {} /\ confirmed' = confirmed
    BY <1>3, BeginCall, BeginShape
  <2>2. CASE c.op = "update_order_status"
    <3>1. CASE c.target = "SHIPPED"
      <4>1. c.order \in OrderIds
        <5>1. RequestOK(pc[r], call[r], local[r], locks[r])'
          BY BeginInv DEF IInv
        <5>2. c # NoCall
          BY <2>2 DEF NoCall
        <5> QED
          BY <2>2, <5>1, <5>2 DEF RequestOK, CallShape, OrderOps
      <4>2. c.order \in confirmed
        BY <2>1, <2>2, <3>1, <4>1
           DEF Asked, OrderMayMove, OrderCanTransition, OrderEdges, StatusInv,
               ConfirmedBefore
      <4> QED
        BY <2>1, <2>2, <3>1, <4>2 DEF AsksOK
    <3>2. CASE c.target = "PENDING"
      <4>1. step = "refresh_order"
        BY <2>1, <2>2, <3>2
           DEF Asked, OrderMayMove, OrderCanTransition, OrderEdges
      <4> QED
        BY <2>1, <2>2, <3>2, <4>1 DEF AsksOK
    <3>3. CASE c.target \notin {"SHIPPED", "PENDING"}
      BY <2>2, <3>3 DEF AsksOK
    <3> QED
      BY <3>1, <3>2, <3>3
  <2>3. CASE c.op = "update_line_status"
    <3>1. c.target = "PENDING" => step = "refresh_line"
      BY <2>1, <2>3 DEF Asked, LineMayMove, LineCanTransition, LineEdges
    <3> QED
      BY <2>1, <2>3, <3>1 DEF AsksOK
  <2> QED
    BY <1>3, <2>2, <2>3
<1> QED
  BY <1>1, <1>2, <1>3

\* A statement or a failure leaves what the request asks for as it was.
LEMMA StatusStep ==
  ASSUME IInv, StatusInv, NEW r \in Requests,
         Begin(r) \/ Step(r) \/ Fail(r), ~Commit(r)
  PROVE  StatusInv'
<1>1. OthersKept(r) /\ UNCHANGED <<confirmed, shipped>>
  BY BeginShape, StepShape
<1>2. ConfirmedBefore'
  BY <1>1, TablesKept DEF StatusInv, ConfirmedBefore, tables
<1>3. AsksOK(pc[r], call[r], locks[r])'
  <2>1. CASE Begin(r)
    BY <2>1, BeginAsks
  <2>2. CASE Over(r)
    BY <2>2 DEF Over, AsksOK, Final, Steps
  <2>3. CASE (Step(r) \/ Fail(r)) /\ ~Over(r)
    <3>1. AsksOK(pc[r], call[r], locks[r])
      BY DEF StatusInv
    <3> QED
      BY <1>1, <2>3, <3>1, StepShape DEF AsksOK
  <2> QED
    BY <2>1, <2>2, <2>3
<1>4. \A s \in Requests \ {r} : AsksOK(pc[s], call[s], locks[s])'
  BY <1>1 DEF StatusInv, AsksOK, OthersKept
<1> QED
  BY <1>2, <1>3, <1>4 DEF StatusInv

\* The status of an order that a COMMIT publishes, if it is a new one, is the
\* one the request has asked for.
LEMMA CommitStatus ==
  ASSUME IInv, NEW r \in Requests, Commit(r),
         NEW o \in OrderIds, orders'[o] # None
  PROVE  \/ orders[o] # None /\ orders'[o].status = orders[o].status
         \/ orders[o] = None /\ orders'[o].status = "PENDING"
         \/ /\ orders[o] # None /\ o \in locks[r] /\ o = call[r].order
            /\ call[r].op \in {"update_order_status", "cancel_order"}
            /\ orders'[o].status = call[r].target
<1>1. pc[r] \in Steps /\ orders'[o] = OrderAfter(r, o)
  BY DEF Commit, Steps
<1>2. CASE o \notin locks[r]
  BY <1>1, <1>2 DEF OrderAfter
<1>3. CASE o \in locks[r]
  <2>1. /\ o = call[r].order /\ call[r].op \in OrderOps \cup LineWriters
        /\ (orders[o] = None) <=> (call[r].op = "create_order")
    BY <1>1, <1>3, AtStep DEF WritesOK
  <2>2. orders[o] # None => orders[o] \in OrderRow
    BY DEF IInv, TypeOK
  <2> QED
    BY <1>1, <1>3, <2>1, <2>2
       DEF OrderAfter, OrderOps, LineWriters, OrderRow
<1> QED
  BY <1>2, <1>3

\* COMMIT records the orders it confirms.
LEMMA StatusCommit ==
  ASSUME IInv, StatusInv, NEW r \in Requests, Commit(r)
  PROVE  StatusInv'
<1>1. /\ OthersKept(r) /\ Over(r) /\ confirmed \subseteq confirmed'
      /\ pc[r] \in Steps
  BY RollbackEnds DEF Commit, Final, Steps
<1>2. ConfirmedBefore'
  <2> SUFFICES ASSUME NEW o \in OrderIds, orders'[o] # None,
                      orders'[o].status = "SHIPPED"
               PROVE  o \in confirmed
    BY <1>1 DEF ConfirmedBefore, Commit
  <2>1. CASE orders[o] # None /\ orders'[o].status = orders[o].status
    BY <2>1 DEF StatusInv, ConfirmedBefore
  <2>2. CASE /\ o = call[r].order /\ call[r].target = "SHIPPED"
             /\ call[r].op \in {"update_order_status", "cancel_order"}
    BY <1>1, <2>2 DEF StatusInv, AsksOK
  <2> QED
    BY <2>1, <2>2, CommitStatus
<1>3. \A s \in Requests : AsksOK(pc[s], call[s], locks[s])'
  BY <1>1 DEF StatusInv, AsksOK, OthersKept, Over, Final, Steps
<1> QED
  BY <1>2, <1>3 DEF StatusInv

\* However requests that change a status race, what they ask for agrees with
\* what was committed when they read it, for orders in every state.
THEOREM StatusInvariance == Spec => []StatusInv
<1>1. IInv /\ StatusInv /\ UNCHANGED vars => StatusInv'
  BY DEF StatusInv, ConfirmedBefore, AsksOK, vars
<1>2. IInv /\ StatusInv /\ [Next]_vars => StatusInv'
  BY <1>1, StatusStep, StatusCommit DEF Next
<1> QED
  BY InitStatus, Invariance, <1>2, PTL DEF Spec

\* No order is shipped that was never confirmed, whatever PUT .../status,
\* cancel_order and line writers overlap.
THEOREM ShipmentTheorem == Spec => []ShipmentFollowsConfirmation
<1>1. StatusInv => ShipmentFollowsConfirmation
  BY DEF StatusInv, ConfirmedBefore, ShipmentFollowsConfirmation
<1> QED
  BY StatusInvariance, <1>1, PTL

\* A COMMIT takes neither a line nor an order back to PENDING.
LEMMA CommitNeverBack ==
  ASSUME IInv, StatusInv, NEW r \in Requests, Commit(r)
  PROVE  /\ \A l \in LineIds :
              (lines[l] # None /\ lines'[l] # None /\ lines[l].status # "PENDING")
                 => lines'[l].status # "PENDING"
         /\ \A o \in OrderIds :
              (orders[o] # None /\ orders'[o] # None
                 /\ orders[o].status # "PENDING")
                 => orders'[o].status # "PENDING"
<1>1. pc[r] \in Steps /\ AsksOK(pc[r], call[r], locks[r])
  BY DEF Commit, Steps, StatusInv
<1>2. ASSUME NEW o \in OrderIds, orders[o] # None, orders'[o] # None,
             orders[o].status # "PENDING"
      PROVE  orders'[o].status # "PENDING"
  <2>1. CASE /\ o \in locks[r] /\ orders'[o].status = call[r].target
             /\ call[r].op \in {"update_order_status", "cancel_order"}
    BY <1>1, <2>1 DEF AsksOK
  <2> QED
    BY <1>2, <2>1, CommitStatus
<1>3. ASSUME NEW l \in LineIds, lines[l] # None, lines'[l] # None,
             lines[l].status # "PENDING"
      PROVE  lines'[l].status # "PENDING"
  <2>1. lines'[l] = LineAfter(r, l) /\ lines[l] \in LineRow
    BY <1>3 DEF Commit, LinesAfter, IInv, TypeOK
  <2>2. CASE l \notin locks[r]
    BY <1>3, <2>1, <2>2 DEF LineAfter
  <2>3. CASE l \in locks[r]
    <3>1. call[r].op # "add_line"
      BY <1>1, <1>3, <2>3, AtStep DEF WritesOK
    <3>2. /\ call[r].op = "update_line_status"
          /\ lines'[l] = [lines[l] EXCEPT !.status = call[r].target]
      BY <1>3, <2>1, <2>3, <3>1 DEF LineAfter
    <3>3. call[r].target # "PENDING"
      BY <1>1, <2>3, <3>2 DEF AsksOK
    <3> QED
      BY <2>1, <3>2, <3>3 DEF LineRow
  <2> QED
    BY <2>2, <2>3
<1> QED
  BY <1>2, <1>3

\* Nothing goes back to PENDING: a request that asks for PENDING has found it
\* and writes nothing, so it cannot overwrite what overtakes it.
THEOREM PendingTheorem == Spec => NeverBackToPending
<1> DEFINE Never ==
      /\ \A l \in LineIds :
           (lines[l] # None /\ lines'[l] # None /\ lines[l].status # "PENDING")
              => lines'[l].status # "PENDING"
      /\ \A o \in OrderIds :
           (orders[o] # None /\ orders'[o] # None
              /\ orders[o].status # "PENDING")
              => orders'[o].status # "PENDING"
<1>1. ASSUME IInv, StatusInv, [Next]_vars PROVE [Never]_vars
  <2>1. CASE UNCHANGED vars
    BY <2>1
  <2>2. CASE \E r \in Requests : Commit(r)
    BY <1>1, <2>2, CommitNeverBack
  <2>3. CASE Next /\ ~\E r \in Requests : Commit(r)
    BY <2>3, TablesKept DEF Next, tables
  <2> QED
    BY <1>1, <2>1, <2>2, <2>3
<1> QED
  BY Invariance, StatusInvariance, <1>1, PTL DEF Spec, NeverBackToPending
-----------------------------------------------------------------------------
(***************************************************************************)
(* The foreign keys of order_line.                                         *)
(***************************************************************************)

\* Every initial state satisfies ParentsInv.
LEMMA InitParents == Init => ParentsInv
  BY DEF Init, ParentsInv, LinesHaveParents, SharesHold, ParentsOK

\* Which rows a statement locks and shares: the INSERT of a line shares two
\* rows nobody deletes, a DELETE locks rows nobody shares.
LEMMA StepLocks ==
  ASSUME IInv, NEW r \in Requests, Step(r), ~Commit(r), ~Over(r)
  PROVE  /\ \/ shares'[r] = shares[r]
            \/ /\ call[r].op = "add_line" /\ pc[r] = "insert_line"
               /\ shares'[r] = {call[r].order, call[r].product}
               /\ FreeToShare(r, call[r].order)
               /\ FreeToShare(r, call[r].product)
               /\ orders[call[r].order] # None
               /\ products[call[r].product] # None
         /\ call[r].op \in Deletes =>
               \A row \in locks'[r] \cap (OrderIds \cup Products) :
                  row \in locks[r] \/ FreeToDelete(r, row)
         /\ pc'[r] \in {"select_lines", "update_total", "commit"} =>
               \/ call[r].op # "add_line"
               \/ /\ pc[r] = "insert_line"
                  /\ shares'[r] = {call[r].order, call[r].product}
                  /\ orders[call[r].order] # None
                  /\ products[call[r].product] # None
               \/ /\ pc[r] \in {"select_lines", "update_total"}
                  /\ shares'[r] = shares[r]
         /\ (pc'[r] = "commit" /\ call[r].op = "delete_order"
               /\ call[r].order \in locks'[r]) =>
               LinesOf(lines, call[r].order) \subseteq locks'[r]
         /\ (pc'[r] = "commit" /\ call[r].op = "delete_product"
               /\ call[r].product \in locks'[r]) =>
               \A l \in LineIds : lines[l] # None
                                    => lines[l].product # call[r].product
<1>1. /\ pc[r] \in Steps \ {"commit"} /\ pc'[r] \in Steps
      /\ call'[r] = call[r] /\ ~Fail(r) /\ ~DeadlockVictim(r)
  BY StepShape, RollbackEnds DEF Fail, DeadlockVictim, Final
<1>2. <<pc[r], call[r].op>> \in Handlers /\ CallShape(call[r])
  BY <1>1, AtStep
<1>3. locks \in [Requests -> SUBSET Rows] /\ shares \in [Requests -> SUBSET Rows]
      /\ pc \in [Requests -> Steps \cup Final \cup {"idle"}]
  BY DEF IInv, TypeOK, Rows
<1>4. ~Rollback(r, "error") /\ ~Rollback(r, "rejected") /\ ~Finish(r, "error")
  BY RollbackEnds DEF Final
<1> USE DEF Goto, Lock
<1>5. CASE AddLineGetProduct(r)
  <2>1. call[r].op = "add_line"
    BY <1>2, <1>5 DEF AddLineGetProduct, Handlers, LineWriters
  <2> QED
    BY <1>1, <1>3, <1>4, <1>5, <2>1 DEF AddLineGetProduct, Reject, Deletes
<1>6. CASE \E l \in LineIds : AddLineInsert(r, l)
  <2>1. call[r].op = "add_line"
    BY <1>2, <1>6 DEF AddLineInsert, Handlers, LineWriters
  <2> QED
    BY <1>1, <1>3, <1>4, <1>6, <2>1 DEF AddLineInsert, Deletes
<1>7. CASE RecomputeSelect(r)
  <2>1. call[r].op \in LineWriters /\ pc[r] = "select_lines"
    BY <1>2, <1>7 DEF RecomputeSelect, Handlers
  <2>2. UNCHANGED <<locks, shares>>
    BY <1>4, <1>7 DEF RecomputeSelect
  <2> QED
    BY <2>1, <2>2 DEF LineWriters, Deletes
<1>8. CASE RecomputeUpdate(r)
  <2>1. call[r].op \in LineWriters /\ pc[r] = "update_total"
    BY <1>2, <1>8 DEF RecomputeUpdate, UpdateOrderRow, Handlers
  <2>2. UNCHANGED shares
    BY <1>4, <1>8 DEF RecomputeUpdate, UpdateOrderRow
  <2> QED
    BY <2>1, <2>2 DEF LineWriters, Deletes
<1>9. CASE DeleteLineDelete(r) \/ DeleteLineGetOrder(r)
  <2>1. call[r].op = "delete_line"
    BY <1>2, <1>9 DEF DeleteLineDelete, DeleteLineGetOrder, Handlers
  <2>2. UNCHANGED shares
    BY <1>9 DEF DeleteLineDelete, DeleteLineGetOrder
  <2> QED
    BY <2>1, <2>2 DEF Deletes
<1>10. CASE LineStatusUpdate(r) \/ LineStatusRefresh(r)
  <2>1. call[r].op = "update_line_status"
    BY <1>2, <1>10 DEF LineStatusUpdate, LineStatusRefresh, Handlers
  <2>2. UNCHANGED shares
    BY <1>4, <1>10 DEF LineStatusUpdate, LineStatusRefresh
  <2> QED
    BY <2>1, <2>2 DEF Deletes
<1>11. CASE OrderStatusUpdate(r) \/ OrderStatusRefresh(r)
  <2>1. call[r].op \in {"update_order_status", "cancel_order"}
    BY <1>2, <1>11
       DEF OrderStatusUpdate, UpdateOrderRow, OrderStatusRefresh, Handlers
  <2>2. UNCHANGED shares
    BY <1>4, <1>11 DEF OrderStatusUpdate, UpdateOrderRow, OrderStatusRefresh
  <2> QED
    BY <2>1, <2>2 DEF Deletes
<1>12. CASE DeleteOrderDelete(r)
  <2>1. call[r].op = "delete_order" /\ pc[r] = "delete_order"
    BY <1>2, <1>12 DEF DeleteOrderDelete, Handlers, LineWriters
  <2>2. call[r].order \in OrderIds /\ locks[r] \subseteq Rows
    BY <1>2, <1>3, <2>1 DEF CallShape, OrderOps
  <2>3. UNCHANGED shares /\ FreeToDelete(r, call[r].order)
    BY <1>12 DEF DeleteOrderDelete
  <2>4. CASE orders[call[r].order] = None
    <3>1. locks' = locks /\ pc'[r] = "commit"
      BY <1>3, <1>12, <2>4 DEF DeleteOrderDelete
    <3>2. call[r].order \notin locks[r]
      BY <1>1, <2>1, <2>2, <2>4, AtStep DEF WritesOK
    <3> QED
      BY <2>1, <2>3, <3>1, <3>2
  <2>5. CASE orders[call[r].order] # None
    <3>1. locks'[r] = locks[r] \cup {call[r].order} /\ pc'[r] = "cascade"
      BY <1>3, <1>12, <2>5 DEF DeleteOrderDelete
    <3> QED
      BY <2>1, <2>3, <3>1
  <2> QED
    BY <2>4, <2>5
<1>13. CASE DeleteOrderCascade(r)
  <2>1. call[r].op = "delete_order" /\ pc[r] = "cascade"
    BY <1>2, <1>13 DEF DeleteOrderCascade, Handlers, LineWriters
  <2>2. /\ UNCHANGED shares
        /\ locks'[r] = locks[r] \cup LinesOf(lines, call[r].order)
    BY <1>3, <1>13 DEF DeleteOrderCascade
  <2>3. LinesOf(lines, call[r].order) \cap (OrderIds \cup Products) = {}
    BY IdsAssumption DEF LinesOf
  <2> QED
    BY <2>1, <2>2, <2>3
<1>14. CASE ProductUpdate(r) \/ ProductRefresh(r)
  <2>1. call[r].op = "update_product"
    BY <1>2, <1>14 DEF ProductUpdate, ProductRefresh, Handlers
  <2>2. UNCHANGED shares
    BY <1>4, <1>14 DEF ProductUpdate, ProductRefresh
  <2> QED
    BY <2>1, <2>2 DEF Deletes
<1>15. CASE DeleteProductDelete(r)
  <2>1. call[r].op = "delete_product" /\ pc[r] = "delete_product"
    BY <1>2, <1>15 DEF DeleteProductDelete, Handlers
  <2>2. call[r].product \in Products
    BY <1>2, <2>1 DEF CallShape, ProductOps
  <2>3. UNCHANGED shares /\ FreeToDelete(r, call[r].product)
    BY <1>4, <1>15 DEF DeleteProductDelete
  <2>4. CASE products[call[r].product] = None
    <3>1. locks'[r] = locks[r]
      BY <1>3, <1>4, <1>15, <2>4 DEF DeleteProductDelete
    <3>2. call[r].product \notin locks[r]
      BY <1>1, <2>2, <2>4, AtStep DEF WritesOK
    <3> QED
      BY <2>1, <2>3, <3>1, <3>2
  <2>5. CASE products[call[r].product] # None
    <3>1. /\ locks'[r] = locks[r] \cup {call[r].product}
          /\ {l \in LineIds : /\ lines[l] # None
                              /\ lines[l].product = call[r].product} = {}
      BY <1>3, <1>4, <1>15, <2>5 DEF DeleteProductDelete
    <3> QED
      BY <2>1, <2>3, <3>1
  <2> QED
    BY <2>4, <2>5
<1>16. ~AddLineNoId(r)
  BY <1>4 DEF AddLineNoId
<1> QED
  BY <1>1, <1>5, <1>6, <1>7, <1>8, <1>9, <1>10, <1>11, <1>12, <1>13, <1>14,
     <1>15, <1>16 DEF Step

\* The parents of a line outlive every statement but a COMMIT.
LEMMA ParentsStep ==
  ASSUME IInv, ParentsInv, NEW r \in Requests,
         Begin(r) \/ Step(r) \/ Fail(r), ~Commit(r)
  PROVE  ParentsInv'
<1>1. OthersKept(r) /\ UNCHANGED tables
  BY BeginShape, StepShape, TablesKept
<1>2. LinesHaveParents'
  BY <1>1 DEF ParentsInv, LinesHaveParents, tables
<1>3. CASE Over(r)
  <2>1. SharesHold'
    BY <1>1, <1>3 DEF Over, OthersKept, ParentsInv, SharesHold
  <2>2. \A s \in Requests : ParentsOK(pc[s], call[s], locks[s], shares[s])'
    BY <1>1, <1>3 DEF Over, OthersKept, ParentsInv, ParentsOK, LinesOf, Final,
                      tables
  <2> QED
    BY <1>2, <2>1, <2>2 DEF ParentsInv
<1>4. CASE Begin(r) /\ ~Over(r)
  <2>1. /\ shares'[r] = shares[r]
        /\ locks'[r] = {} \/ call'[r].op = "create_order"
    BY <1>4, BeginShape
  <2>2. SharesHold'
    BY <1>1, <2>1 DEF OthersKept, ParentsInv, SharesHold, Deletes
  <2>3. ParentsOK(pc[r], call[r], locks[r], shares[r])'
    BY <1>4, <2>1, BeginCall DEF ParentsOK, Asked
  <2>4. \A s \in Requests \ {r} :
           ParentsOK(pc[s], call[s], locks[s], shares[s])'
    BY <1>1 DEF OthersKept, ParentsInv, ParentsOK, LinesOf, tables
  <2> QED
    BY <1>2, <2>2, <2>3, <2>4 DEF ParentsInv
<1>5. CASE Step(r) /\ ~Over(r)
  <2>1. call'[r] = call[r] /\ pc[r] \in Steps
    BY <1>5, StepShape
  <2>2. SharesHold'
    <3> SUFFICES ASSUME NEW a \in Requests, NEW b \in Requests, a # b,
                        NEW row \in shares'[a], row \in locks'[b],
                        call'[b].op \in Deletes
                 PROVE  FALSE
      BY DEF SharesHold
    <3>1. CASE a # r /\ b # r
      BY <1>1, <3>1 DEF OthersKept, ParentsInv, SharesHold
    <3>2. CASE a = r
      <4>1. row \in locks[b] /\ call[b].op \in Deletes
        BY <1>1, <3>2 DEF OthersKept
      <4>2. CASE shares'[r] = shares[r]
        BY <3>2, <4>1, <4>2 DEF ParentsInv, SharesHold
      <4>3. CASE shares'[r] # shares[r]
        <5>1. FreeToShare(r, row)
          BY <1>5, <3>2, <4>3, StepLocks
        <5> QED
          BY <3>2, <4>1, <5>1 DEF FreeToShare, Deletes
      <4> QED
        BY <4>2, <4>3
    <3>3. CASE b = r
      <4>1. row \in shares[a] /\ call[r].op \in Deletes
        BY <1>1, <2>1, <3>3 DEF OthersKept
      <4>2. row \in OrderIds \cup Products
        BY <4>1 DEF IInv, TypeOK
      <4>3. row \in locks[r] \/ FreeToDelete(r, row)
        BY <1>5, <3>3, <4>1, <4>2, StepLocks
      <4> QED
        BY <3>3, <4>1, <4>3 DEF FreeToDelete, ParentsInv, SharesHold
    <3> QED
      BY <3>1, <3>2, <3>3
  <2>3. ParentsOK(pc[r], call[r], locks[r], shares[r])'
    <3>1. ParentsOK(pc[r], call[r], locks[r], shares[r])
      BY DEF ParentsInv
    <3>2. ASSUME call[r].op = "add_line",
                 pc'[r] \in {"select_lines", "update_total", "commit"}
          PROVE  /\ shares'[r] = {call[r].order, call[r].product}
                 /\ orders[call[r].order] # None
                 /\ products[call[r].product] # None
      BY <1>5, <3>1, <3>2, StepLocks DEF ParentsOK
    <3>3. LinesOf(lines, call[r].order)' = LinesOf(lines, call[r].order)
      BY <1>1, <2>1 DEF LinesOf, tables
    <3> QED
      BY <1>1, <1>5, <2>1, <3>2, <3>3, StepLocks DEF ParentsOK, tables
  <2>4. \A s \in Requests \ {r} :
           ParentsOK(pc[s], call[s], locks[s], shares[s])'
    BY <1>1 DEF OthersKept, ParentsInv, ParentsOK, LinesOf, tables
  <2> QED
    BY <1>2, <2>2, <2>3, <2>4 DEF ParentsInv
<1>6. CASE Fail(r) /\ ~Over(r)
  BY <1>6, RollbackEnds DEF Fail, Final
<1> QED
  BY <1>3, <1>4, <1>5, <1>6

\* Only the DELETE of an order, or of a product, takes its row away.
LEMMA CommitDeletes ==
  ASSUME IInv, NEW r \in Requests, Commit(r)
  PROVE  /\ \A o \in OrderIds : orders[o] # None /\ orders'[o] = None =>
              /\ o \in locks[r] /\ o = call[r].order
              /\ call[r].op = "delete_order"
         /\ \A p \in Products : products[p] # None /\ products'[p] = None =>
              /\ p \in locks[r] /\ p = call[r].product
              /\ call[r].op = "delete_product"
<1>1. pc[r] \in Steps /\ CallShape(call[r]) /\ WritesOK(call[r], locks[r])
      /\ local[r] \in Local
  BY AtStep DEF Commit, Steps
<1>2. ASSUME NEW o \in OrderIds, orders[o] # None, orders'[o] = None
      PROVE  /\ o \in locks[r] /\ o = call[r].order
             /\ call[r].op = "delete_order"
  <2>1. orders'[o] = OrderAfter(r, o) /\ orders[o] \in OrderRow
    BY <1>2 DEF Commit, IInv, TypeOK
  <2>2. o \in locks[r]
    BY <1>2, <2>1 DEF OrderAfter
  <2>3. o = call[r].order /\ call[r].op \in OrderOps \cup LineWriters
        /\ call[r].op # "create_order"
    BY <1>1, <1>2, <2>2 DEF WritesOK
  <2>4. [orders[o] EXCEPT !.total = local[r].sum] \in OrderRow
    BY <1>1, <2>1 DEF OrderRow, Local
  <2>5. call[r].op \in OrderOps \ {"create_order", "delete_order"} =>
           [orders[o] EXCEPT !.status = call[r].target] \in OrderRow
    BY <1>1, <2>1 DEF OrderRow, OrderOps, CallShape
  <2> QED
    BY <1>2, <2>1, <2>2, <2>3, <2>4, <2>5, NoneAssumption
       DEF OrderAfter, LineWriters
<1>3. ASSUME NEW p \in Products, products[p] # None, products'[p] = None
      PROVE  /\ p \in locks[r] /\ p = call[r].product
             /\ call[r].op = "delete_product"
  <2>1. products'[p] = ProductAfter(r, p)
    BY DEF Commit
  <2>2. p \in locks[r]
    BY <1>3, <2>1 DEF ProductAfter
  <2>3. p = call[r].product /\ call[r].op \in ProductOps
    BY <1>1, <2>2 DEF WritesOK
  <2> QED
    BY <1>1, <1>3, <2>1, <2>2, <2>3, NoneAssumption
       DEF ProductAfter, ProductOps, CallShape
<1> QED
  BY <1>2, <1>3

\* A line that a COMMIT publishes is the one there was, with the parents it
\* had, or the line that the request has inserted.
LEMMA CommitLine ==
  ASSUME IInv, NEW r \in Requests, Commit(r),
         NEW l \in LineIds, lines'[l] # None
  PROVE  \/ l \notin locks[r] /\ lines'[l] = lines[l]
         \/ /\ l \in locks[r] /\ lines[l] # None
            /\ call[r].op = "update_line_status"
            /\ lines'[l].order = lines[l].order
            /\ lines'[l].product = lines[l].product
         \/ /\ l \in locks[r] /\ call[r].op = "add_line"
            /\ lines'[l].order = call[r].order
            /\ lines'[l].product = call[r].product
<1>1. pc[r] \in Steps /\ WritesOK(call[r], locks[r])
  BY AtStep DEF Commit, Steps
<1>2. lines'[l] = LineAfter(r, l)
  BY DEF Commit, LinesAfter
<1>3. CASE l \notin locks[r]
  BY <1>2, <1>3 DEF LineAfter
<1>4. CASE l \in locks[r] /\ call[r].op = "add_line"
  BY <1>2, <1>4 DEF LineAfter, NewLine
<1>5. CASE l \in locks[r] /\ call[r].op # "add_line"
  <2>1. lines[l] # None /\ lines[l] \in LineRow
    BY <1>1, <1>5 DEF WritesOK, IInv, TypeOK
  <2>2. /\ call[r].op = "update_line_status"
        /\ lines'[l] = [lines[l] EXCEPT !.status = call[r].target]
    BY <1>2, <1>5 DEF LineAfter
  <2> QED
    BY <1>5, <2>1, <2>2 DEF LineRow
<1> QED
  BY <1>3, <1>4, <1>5

\* A COMMIT leaves no line without its parents, now or when a request that is
\* still open commits.
LEMMA ParentsCommit ==
  ASSUME IInv, ParentsInv, NEW r \in Requests, Commit(r)
  PROVE  ParentsInv'
<1>1. /\ OthersKept(r) /\ Over(r) /\ pc[r] = "commit" /\ pc[r] \in Steps
      /\ ParentsOK(pc[r], call[r], locks[r], shares[r])
  BY RollbackEnds DEF Commit, Final, Steps, ParentsInv
<1>2. CallShape(call[r])
  BY <1>1, AtStep
<1>3. \A l \in LineIds : lines[l] # None => lines[l] \in LineRow
  BY DEF IInv, TypeOK
<1>4. LinesHaveParents'
  <2> SUFFICES ASSUME NEW l \in LineIds, lines'[l] # None
               PROVE  orders'[lines'[l].order] # None
                      /\ products'[lines'[l].product] # None
    BY DEF LinesHaveParents
  <2>1. CASE l \in locks[r] /\ call[r].op = "add_line"
    <3>1. /\ call[r].order \in OrderIds /\ call[r].product \in Products
          /\ orders[call[r].order] # None /\ products[call[r].product] # None
      BY <1>1, <1>2, <2>1 DEF CallShape, LineOps, ParentsOK
    <3>2. lines'[l].order = call[r].order /\ lines'[l].product = call[r].product
      BY <2>1, CommitLine
    <3> QED
      BY <2>1, <3>1, <3>2, CommitDeletes
  <2>2. CASE ~(l \in locks[r] /\ call[r].op = "add_line")
    <3>1. /\ lines[l] # None /\ lines'[l].order = lines[l].order
          /\ lines'[l].product = lines[l].product
          /\ l \notin locks[r] \/ call[r].op = "update_line_status"
      BY <2>2, CommitLine
    <3>2. /\ lines[l].order \in OrderIds /\ lines[l].product \in Products
          /\ orders[lines[l].order] # None /\ products[lines[l].product] # None
      BY <1>3, <3>1 DEF LineRow, ParentsInv, LinesHaveParents
    <3>3. orders'[lines[l].order] # None
      BY <1>1, <3>1, <3>2, CommitDeletes DEF ParentsOK, LinesOf
    <3>4. products'[lines[l].product] # None
      BY <1>1, <3>1, <3>2, CommitDeletes DEF ParentsOK
    <3> QED
      BY <3>1, <3>3, <3>4
  <2> QED
    BY <2>1, <2>2
<1>5. SharesHold'
  BY <1>1 DEF OthersKept, Over, ParentsInv, SharesHold
<1>6. ASSUME NEW s \in Requests \ {r}
      PROVE  ParentsOK(pc[s], call[s], locks[s], shares[s])'
  <2> SUFFICES ASSUME NEW step, NEW c, NEW L, NEW S,
                      step = pc[s], c = call[s], L = locks[s], S = shares[s]
               PROVE  ParentsOK(step, c, L, S)'
    BY <1>1 DEF OthersKept, ParentsOK, LinesOf
  <2>1. ParentsOK(step, c, L, S)
    BY DEF ParentsInv
  <2>2. step \in Steps => CallShape(c)
    BY AtStep
  <2>3. S \cap locks[r] # {} => call[r].op \notin Deletes
    BY DEF ParentsInv, SharesHold
  <2>4. shares[r] \cap L # {} => c.op \notin Deletes
    BY DEF ParentsInv, SharesHold
  <2>5. L \cap locks[r] = {}
    BY DEF IInv, LocksDisjoint
  <2>6. ASSUME c.op = "add_line",
               step \in {"select_lines", "update_total", "commit"}
        PROVE  /\ S = {c.order, c.product}
               /\ orders'[c.order] # None /\ products'[c.product] # None
    <3>1. /\ S = {c.order, c.product}
          /\ orders[c.order] # None /\ products[c.product] # None
      BY <2>1, <2>6 DEF ParentsOK
    <3>2. c.order \in OrderIds /\ c.product \in Products
      BY <2>2, <2>6 DEF CallShape, LineOps, Steps
    <3> QED
      BY <2>3, <3>1, <3>2, CommitDeletes DEF Deletes
  <2>7. ASSUME c.op = "delete_order", step = "commit", c.order \in L,
               NEW l \in LineIds, lines'[l] # None, lines'[l].order = c.order
        PROVE  l \in L
    <3>1. LinesOf(lines, c.order) \subseteq L
      BY <2>1, <2>7 DEF ParentsOK
    <3>2. CASE l \in locks[r] /\ call[r].op = "add_line"
      <4>1. c.order \in shares[r]
        BY <1>1, <2>7, <3>2, CommitLine DEF ParentsOK
      <4> QED
        BY <2>4, <2>7, <4>1 DEF Deletes
    <3>3. CASE ~(l \in locks[r] /\ call[r].op = "add_line")
      BY <2>7, <3>1, <3>3, CommitLine DEF LinesOf
    <3> QED
      BY <3>2, <3>3
  <2>8. ASSUME c.op = "delete_product", step = "commit", c.product \in L,
               NEW l \in LineIds, lines'[l] # None
        PROVE  lines'[l].product # c.product
    <3>1. lines[l] # None => lines[l].product # c.product
      BY <2>1, <2>8 DEF ParentsOK
    <3>2. CASE l \in locks[r] /\ call[r].op = "add_line"
      <4>1. lines'[l].product \in shares[r]
        BY <1>1, <2>8, <3>2, CommitLine DEF ParentsOK
      <4> QED
        BY <2>4, <2>8, <4>1 DEF Deletes
    <3>3. CASE ~(l \in locks[r] /\ call[r].op = "add_line")
      BY <2>8, <3>1, <3>3, CommitLine
    <3> QED
      BY <3>2, <3>3
  <2> QED
    BY <2>6, <2>7, <2>8 DEF ParentsOK, LinesOf
<1>7. ParentsOK(pc[r], call[r], locks[r], shares[r])'
  BY <1>1 DEF Over, ParentsOK, Final
<1> QED
  BY <1>4, <1>5, <1>6, <1>7 DEF ParentsInv

\* The key-share locks, the cascade and the RESTRICT check keep ParentsInv,
\* whatever statements of other requests come between theirs.
THEOREM ParentsInvariance == Spec => []ParentsInv
<1>1. IInv /\ ParentsInv /\ UNCHANGED vars => ParentsInv'
  BY DEF ParentsInv, LinesHaveParents, SharesHold, ParentsOK, LinesOf, vars
<1>2. IInv /\ ParentsInv /\ [Next]_vars => ParentsInv'
  BY <1>1, ParentsStep, ParentsCommit DEF Next
<1> QED
  BY InitParents, Invariance, <1>2, PTL DEF Spec

\* No line is ever committed, or left, without its order and its product.
THEOREM ParentsTheorem == Spec => []LinesHaveParents
<1>1. ParentsInv => LinesHaveParents
  BY DEF ParentsInv
<1> QED
  BY ParentsInvariance, <1>1, PTL
=============================================================================
