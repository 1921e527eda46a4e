------------------------------- MODULE Orders -------------------------------
(***************************************************************************)
(* The order, order-line and product endpoints, and the MCP tool           *)
(* cancel_order, one SQL statement at a time.                              *)
(*                                                                         *)
(* A request opens a session (get_db_session), runs the statements of its  *)
(* handler, and commits; an exception rolls back.  Every `await` between   *)
(* two statements lets another request run.  PostgreSQL isolates them as   *)
(* READ COMMITTED does: a statement sees what is committed when it starts, *)
(* plus the request's own writes; UPDATE and DELETE wait for the row lock  *)
(* and then act on the newest version of the row; the INSERT of a line     *)
(* takes a KEY SHARE lock on the order and the product it refers to.       *)
(***************************************************************************)
EXTENDS OrderRules

CONSTANTS
  Requests,  \* the requests of a behaviour, each served once
  PoolSize,  \* connections of the engine: pool_size + max_overflow
  Ops        \* the operations the requests may call

AllOps == {"create_order", "update_order_status", "cancel_order",
           "delete_order", "add_line", "update_line_status", "delete_line",
           "update_product", "delete_product"}

ASSUME OpsAssumption == Ops \subseteq AllOps /\ PoolSize \in Nat

VARIABLES
  orders, lines, products,  \* the committed tables
  issued,  \* ids the two sequences have handed out: a rollback returns none
  pc,      \* the statement each request is about to execute
  call,    \* its parameters
  local,   \* what its session has loaded or computed
  locks,   \* rows it has written and not committed
  shares,  \* rows it holds a KEY SHARE lock on
  \* History, read by the properties alone:
  confirmed,  \* orders that have been CONFIRMED
  shipped,    \* lines that have been SHIPPED
  raced,      \* open requests a line writer of their order committed under
  tainted     \* orders whose last line writer was raced

tables  == <<orders, lines, products>>
history == <<confirmed, shipped, raced, tainted>>
vars    == <<orders, lines, products, issued, pc, call, local, locks, shares,
             confirmed, shipped, raced, tainted>>

\* The operations that write lines and so recompute orders.total_amount.
LineWriters == {"add_line", "delete_line"}

Final == {"ok", "rejected", "error"}
Steps == {"get_product", "insert_line", "delete_line", "get_order",
          "select_lines", "update_total", "update_order", "refresh_order",
          "delete_order", "cascade", "update_line", "refresh_line",
          "update_product", "refresh_product", "delete_product", "commit"}

Call == [op : AllOps \cup {"none"}, order : OrderIds \cup {None},
         line : LineIds \cup {None}, product : Products \cup {None},
         qty : Quantities \cup {None}, price : Prices \cup {None},
         target : OrderStatus \cup LineStatus \cup {None}]

\* total: orders.total_amount as loaded; price: the product's unit_price as
\* loaded; sum: the recomputed total.
Local == [total : 0..MaxTotal, price : Prices \cup {None},
          sum : 0..MaxTotal]

NoCall  == [op |-> "none", order |-> None, line |-> None, product |-> None,
            qty |-> None, price |-> None, target |-> None]
NoLocal == [total |-> 0, price |-> None, sum |-> 0]

Open == {r \in Requests : pc[r] \in Steps}
-----------------------------------------------------------------------------
(***************************************************************************)
(* Row locks.                                                              *)
(***************************************************************************)

\* UPDATE may lock the row: nobody else has written it.
Free(r, row) == \A s \in Requests \ {r} : row \notin locks[s]

\* DELETE conflicts with KEY SHARE as well.
FreeToDelete(r, row) ==
  Free(r, row) /\ \A s \in Requests \ {r} : row \notin shares[s]

\* KEY SHARE conflicts with a DELETE of the row only.
FreeToShare(r, row) ==
  \A s \in Requests \ {r} :
     row \in locks[s] => call[s].op \notin {"delete_order", "delete_product"}
-----------------------------------------------------------------------------
(***************************************************************************)
(* What request r makes of the tables: its own view of them, and what its  *)
(* COMMIT publishes.  UPDATE writes the columns the session changed only.  *)
(***************************************************************************)

NewLine(r) ==
  [order |-> call[r].order, product |-> call[r].product, qty |-> call[r].qty,
   price |-> local[r].price, status |-> "PENDING"]

\* Mutant: a status change copies the product's current price.
LineAfterRepriced(r, l) ==
  IF l \notin locks[r] THEN lines[l]
  ELSE IF call[r].op = "add_line" THEN NewLine(r)
  ELSE IF call[r].op = "update_line_status"
       THEN [lines[l] EXCEPT !.status = call[r].target,
                             !.price = products[lines[l].product]]
  ELSE None

LineAfter(r, l) ==
  IF l \notin locks[r] THEN lines[l]
  ELSE IF call[r].op = "add_line" THEN NewLine(r)
  ELSE IF call[r].op = "update_line_status"
       THEN [lines[l] EXCEPT !.status = call[r].target]
  ELSE None

LinesAfter(r) == [l \in LineIds |-> LineAfter(r, l)]

OrderAfter(r, o) ==
  IF o \notin locks[r] THEN orders[o]
  ELSE IF call[r].op = "create_order" THEN [status |-> "PENDING", total |-> 0]
  ELSE IF call[r].op = "delete_order" THEN None
  ELSE IF call[r].op \in LineWriters
       THEN [orders[o] EXCEPT !.total = local[r].sum]
  ELSE [orders[o] EXCEPT !.status = call[r].target]

ProductAfter(r, p) ==
  IF p \notin locks[r] THEN products[p]
  ELSE IF call[r].op = "delete_product" THEN None
  ELSE call[r].price
-----------------------------------------------------------------------------
(***************************************************************************)
(* The committed state a behaviour starts from: any state the handlers     *)
(* reach one request at a time.                                            *)
(***************************************************************************)
Init ==
  /\ orders \in [OrderIds -> OrderRow \cup {None}]
  /\ lines \in [LineIds -> LineRow \cup {None}]
  /\ products \in [Products -> Prices \cup {None}]
  /\ \A l \in LineIds : lines[l] # None =>
        orders[lines[l].order] # None /\ products[lines[l].product] # None
  /\ \A o \in OrderIds : orders[o] # None =>
        orders[o].total = OrderTotal(lines, o)
  /\ issued = {o \in OrderIds : orders[o] # None}
              \cup {l \in LineIds : lines[l] # None}
  /\ pc = [r \in Requests |-> "idle"]
  /\ call = [r \in Requests |-> NoCall]
  /\ local = [r \in Requests |-> NoLocal]
  /\ locks = [r \in Requests |-> {}]
  /\ shares = [r \in Requests |-> {}]
  /\ confirmed = {o \in OrderIds : orders[o] # None
                            /\ orders[o].status \in {"CONFIRMED", "SHIPPED"}}
  /\ shipped = {l \in LineIds : lines[l] # None
                            /\ lines[l].status \in {"SHIPPED", "REFUNDED"}}
  /\ raced = {}
  /\ tainted = {}

Goto(r, step) == pc' = [pc EXCEPT ![r] = step]

Lock(r, rows) == locks' = [locks EXCEPT ![r] = @ \cup rows]

\* Mutant: the session is not closed, its transaction stays open.
FinishLeavesSession(r, outcome) ==
  /\ Goto(r, outcome)
  /\ call' = [call EXCEPT ![r] = NoCall]
  /\ local' = [local EXCEPT ![r] = NoLocal]
  /\ UNCHANGED <<locks, shares>>

\* The request is over: the session closes and its locks go.
Finish(r, outcome) ==
  /\ Goto(r, outcome)
  /\ call' = [call EXCEPT ![r] = NoCall]
  /\ local' = [local EXCEPT ![r] = NoLocal]
  /\ locks' = [locks EXCEPT ![r] = {}]
  /\ shares' = [shares EXCEPT ![r] = {}]

\* An exception: get_db_session rolls back, the tables keep their rows.
Rollback(r, outcome) ==
  /\ Finish(r, outcome)
  /\ raced' = raced \ {r}
  /\ UNCHANGED <<orders, lines, products, issued, confirmed, shipped, tainted>>

\* The first statement of a handler: a connection is checked out.
Starts(r, op) ==
  /\ pc[r] = "idle" /\ op \in Ops
  /\ Cardinality(Open) < PoolSize

\* HTTPException before anything was written.
Reject(r) == Rollback(r, "rejected")

Enter(r, c, step) ==
  /\ Goto(r, step)
  /\ call' = [call EXCEPT ![r] = c]
  /\ UNCHANGED <<orders, lines, products, issued, shares, history>>
-----------------------------------------------------------------------------
(***************************************************************************)
(* POST /orders/{id}/lines                                                 *)
(***************************************************************************)

AddLineGetOrder(r, o, p, q) ==
  /\ Starts(r, "add_line")
  /\ \/ /\ orders[o] = None
        /\ Reject(r)
     \/ /\ orders[o] # None
        /\ Enter(r, [NoCall EXCEPT !.op = "add_line", !.order = o,
                                   !.product = p, !.qty = q], "get_product")
        /\ local' = [local EXCEPT ![r].total = orders[o].total]
        /\ UNCHANGED locks

AddLineGetProduct(r) ==
  /\ pc[r] = "get_product"
  /\ \/ /\ products[call[r].product] = None
        /\ Reject(r)
     \/ /\ products[call[r].product] # None
        /\ Goto(r, "insert_line")
        /\ local' = [local EXCEPT ![r].price = products[call[r].product]]
        /\ UNCHANGED <<tables, issued, call, locks, shares, history>>

\* The INSERT checks both foreign keys; IntegrityError is not caught here.
AddLineInsert(r, l) ==
  /\ pc[r] = "insert_line" /\ l \notin issued
  /\ FreeToShare(r, call[r].order) /\ FreeToShare(r, call[r].product)
  /\ issued' = issued \cup {l}
  /\ \/ /\ orders[call[r].order] = None \/ products[call[r].product] = None
        /\ Finish(r, "error")
        /\ raced' = raced \ {r}
        /\ UNCHANGED <<tables, confirmed, shipped, tainted>>
     \/ /\ orders[call[r].order] # None /\ products[call[r].product] # None
        /\ Goto(r, "select_lines")
        /\ Lock(r, {l})
        /\ shares' = [shares EXCEPT ![r] = {call[r].order, call[r].product}]
        /\ UNCHANGED <<tables, call, local, history>>

\* The sequence of an INTEGER key is at its end: the INSERT fails.
AddLineNoId(r) ==
  /\ pc[r] = "insert_line" /\ LineIds \subseteq issued
  /\ Rollback(r, "error")

(***************************************************************************)
(* _recompute_order_total: SELECT the lines, sum them, UPDATE the order.   *)
(* The session emits the UPDATE when the sum differs from the total it     *)
(* loaded.  A sum the column cannot hold is an error of the database.      *)
(***************************************************************************)

\* Mutant: the database does not refuse a sum the column cannot hold.
RecomputeSelectWide(r) ==
  /\ pc[r] = "select_lines"
  /\ Goto(r, "update_total")
  /\ local' = [local EXCEPT ![r].sum = OrderTotal(LinesAfter(r), call[r].order)]
  /\ UNCHANGED <<tables, issued, call, locks, shares, history>>

\* Mutant: the SELECT runs before the session has flushed its own line.
RecomputeSelectUnflushed(r) ==
  /\ pc[r] = "select_lines"
  /\ Goto(r, "update_total")
  /\ local' = [local EXCEPT ![r].sum = OrderTotal(lines, call[r].order)]
  /\ UNCHANGED <<tables, issued, call, locks, shares, history>>

RecomputeSelect(r) ==
  /\ pc[r] = "select_lines"
  /\ LET sum == OrderTotal(LinesAfter(r), call[r].order) IN
       \/ /\ sum \notin 0..MaxTotal
          /\ Rollback(r, "error")
       \/ /\ sum \in 0..MaxTotal
          /\ Goto(r, IF sum = local[r].total THEN "commit"
                                             ELSE "update_total")
          /\ local' = [local EXCEPT ![r].sum = sum]
          /\ UNCHANGED <<tables, issued, call, locks, shares, history>>

\* An UPDATE that matches no row raises StaleDataError.
UpdateOrderRow(r, step) ==
  /\ pc[r] = step
  /\ Free(r, call[r].order)
  /\ \/ /\ orders[call[r].order] = None
        /\ Rollback(r, "error")
     \/ /\ orders[call[r].order] # None
        /\ Goto(r, "commit")
        /\ Lock(r, {call[r].order})
        /\ UNCHANGED <<tables, issued, call, local, shares, history>>

RecomputeUpdate(r) == UpdateOrderRow(r, "update_total")
-----------------------------------------------------------------------------
(***************************************************************************)
(* DELETE /orders/{id}/lines/{line_id}                                     *)
(***************************************************************************)

DeleteLineGet(r, o, l) ==
  /\ Starts(r, "delete_line")
  /\ \/ /\ ~(lines[l] # None /\ lines[l].order = o)
        /\ Reject(r)
     \/ /\ lines[l] # None /\ lines[l].order = o
        /\ Enter(r, [NoCall EXCEPT !.op = "delete_line", !.order = o,
                                   !.line = l], "delete_line")
        /\ UNCHANGED <<local, locks>>

\* A DELETE that matches no row is only a warning: the handler goes on.
DeleteLineDelete(r) ==
  /\ pc[r] = "delete_line"
  /\ Free(r, call[r].line)
  /\ Goto(r, "get_order")
  /\ Lock(r, IF lines[call[r].line] = None THEN {} ELSE {call[r].line})
  /\ UNCHANGED <<tables, issued, call, local, shares, history>>

\* Mutant: the handler deletes the line and does not recompute the total.
DeleteLineForgetsTotal(r) ==
  /\ pc[r] = "get_order"
  /\ Goto(r, "commit")
  /\ UNCHANGED <<tables, issued, call, local, locks, shares, history>>

DeleteLineGetOrder(r) ==
  /\ pc[r] = "get_order"
  /\ \/ /\ orders[call[r].order] = None
        /\ Goto(r, "commit")
        /\ UNCHANGED local
     \/ /\ orders[call[r].order] # None
        /\ Goto(r, "select_lines")
        /\ local' = [local EXCEPT ![r].total = orders[call[r].order].total]
  /\ UNCHANGED <<tables, issued, call, locks, shares, history>>
-----------------------------------------------------------------------------
(***************************************************************************)
(* PATCH /orders/{id}/lines/{line_id}/status                               *)
(*                                                                         *)
(* A status equal to the loaded one leaves the session nothing to flush;   *)
(* the refresh that follows fails if the row has gone.                     *)
(***************************************************************************)

\* Mutant: the handler asks no status graph.
LineMayMoveAnywhere(o, l, target) == lines[l] # None /\ lines[l].order = o

LineMayMove(o, l, target) ==
  /\ lines[l] # None /\ lines[l].order = o
  /\ LineCanTransition(lines[l].status, target)

LineStatusGet(r, o, l, target) ==
  /\ Starts(r, "update_line_status")
  /\ \/ /\ ~LineMayMove(o, l, target)
        /\ Reject(r)
     \/ /\ LineMayMove(o, l, target)
        /\ Enter(r, [NoCall EXCEPT !.op = "update_line_status", !.order = o,
                                   !.line = l, !.target = target],
                 IF lines[l].status = target THEN "refresh_line"
                                             ELSE "update_line")
        /\ UNCHANGED <<local, locks>>

LineStatusUpdate(r) ==
  /\ pc[r] = "update_line"
  /\ Free(r, call[r].line)
  /\ \/ /\ lines[call[r].line] = None
        /\ Rollback(r, "error")
     \/ /\ lines[call[r].line] # None
        /\ Goto(r, "commit")
        /\ Lock(r, {call[r].line})
        /\ UNCHANGED <<tables, issued, call, local, shares, history>>

\* Mutant: the session writes a status it found unchanged.
LineStatusRefreshWrites(r) ==
  /\ pc[r] = "refresh_line" /\ lines[call[r].line] # None
  /\ Free(r, call[r].line) /\ Lock(r, {call[r].line})
  /\ Goto(r, "commit")
  /\ UNCHANGED <<tables, issued, call, local, shares, history>>

LineStatusRefresh(r) ==
  /\ pc[r] = "refresh_line"
  /\ \/ /\ lines[call[r].line] = None
        /\ Rollback(r, "error")
     \/ /\ lines[call[r].line] # None
        /\ Goto(r, "commit")
        /\ UNCHANGED <<tables, issued, call, local, locks, shares, history>>
-----------------------------------------------------------------------------
(***************************************************************************)
(* POST /orders, PUT /orders/{id}/status, the MCP tool cancel_order and    *)
(* DELETE /orders/{id}                                                     *)
(***************************************************************************)

\* The customer's foreign key holds (the INSERT waits in the session) or
\* fails (422); either way the sequence has advanced.
CreateOrderInsert(r, o) ==
  /\ Starts(r, "create_order") /\ o \notin issued
  /\ issued' = issued \cup {o}
  /\ \/ /\ Finish(r, "rejected")
        /\ UNCHANGED <<tables, history>>
     \/ /\ Goto(r, "commit")
        /\ call' = [call EXCEPT ![r] = [NoCall EXCEPT !.op = "create_order",
                                                      !.order = o]]
        /\ Lock(r, {o})
        /\ UNCHANGED <<tables, local, shares, history>>

CreateOrderNoId(r) ==
  /\ Starts(r, "create_order") /\ OrderIds \subseteq issued
  /\ Rollback(r, "error")

\* Mutant: the handler asks no status graph.
OrderMayMoveAnywhere(o, target) == orders[o] # None

OrderMayMove(o, target) ==
  orders[o] # None /\ OrderCanTransition(orders[o].status, target)

OrderStatusGet(r, o, target) ==
  /\ Starts(r, "update_order_status")
  /\ \/ /\ ~OrderMayMove(o, target)
        /\ Reject(r)
     \/ /\ OrderMayMove(o, target)
        /\ Enter(r, [NoCall EXCEPT !.op = "update_order_status", !.order = o,
                                   !.target = target],
                 IF orders[o].status = target THEN "refresh_order"
                                              ELSE "update_order")
        /\ UNCHANGED <<local, locks>>

\* cancel_order asks no status graph and does not refresh.
CancelOrderGet(r, o) ==
  /\ Starts(r, "cancel_order")
  /\ \/ /\ orders[o] = None
        /\ Reject(r)
     \/ /\ orders[o] # None
        /\ Enter(r, [NoCall EXCEPT !.op = "cancel_order", !.order = o,
                                   !.target = "CANCELLED"],
                 IF orders[o].status = "CANCELLED" THEN "commit"
                                                   ELSE "update_order")
        /\ UNCHANGED <<local, locks>>

OrderStatusUpdate(r) == UpdateOrderRow(r, "update_order")

OrderStatusRefresh(r) ==
  /\ pc[r] = "refresh_order"
  /\ \/ /\ orders[call[r].order] = None
        /\ Rollback(r, "error")
     \/ /\ orders[call[r].order] # None
        /\ Goto(r, "commit")
        /\ UNCHANGED <<tables, issued, call, local, locks, shares, history>>

DeleteOrderGet(r, o) ==
  /\ Starts(r, "delete_order")
  /\ \/ /\ orders[o] = None
        /\ Reject(r)
     \/ /\ orders[o] # None
        /\ Enter(r, [NoCall EXCEPT !.op = "delete_order", !.order = o],
                 "delete_order")
        /\ UNCHANGED <<local, locks>>

\* DELETE locks the order row, then ON DELETE CASCADE the rows of its lines,
\* keeping the first lock while it waits for the others.
DeleteOrderDelete(r) ==
  /\ pc[r] = "delete_order"
  /\ FreeToDelete(r, call[r].order)
  /\ \/ /\ orders[call[r].order] = None
        /\ Goto(r, "commit")
        /\ UNCHANGED locks
     \/ /\ orders[call[r].order] # None
        /\ Goto(r, "cascade")
        /\ Lock(r, {call[r].order})
  /\ UNCHANGED <<tables, issued, call, local, shares, history>>

\* Mutant: the foreign key of the lines has no ON DELETE CASCADE.
DeleteOrderNoCascade(r) ==
  /\ pc[r] = "cascade"
  /\ Goto(r, "commit")
  /\ UNCHANGED <<tables, issued, call, local, locks, shares, history>>

DeleteOrderCascade(r) ==
  /\ pc[r] = "cascade"
  /\ \A l \in LinesOf(lines, call[r].order) : Free(r, l)
  /\ Goto(r, "commit")
  /\ Lock(r, LinesOf(lines, call[r].order))
  /\ UNCHANGED <<tables, issued, call, local, shares, history>>
-----------------------------------------------------------------------------
(***************************************************************************)
(* PUT /products/{id} (the unit price is what orders depend on) and        *)
(* DELETE /products/{id}                                                   *)
(***************************************************************************)

ProductGet(r, p, price) ==
  /\ Starts(r, "update_product")
  /\ \/ /\ products[p] = None
        /\ Reject(r)
     \/ /\ products[p] # None
        /\ Enter(r, [NoCall EXCEPT !.op = "update_product", !.product = p,
                                   !.price = price],
                 IF products[p] = price THEN "refresh_product"
                                        ELSE "update_product")
        /\ UNCHANGED <<local, locks>>

ProductUpdate(r) ==
  /\ pc[r] = "update_product"
  /\ Free(r, call[r].product)
  /\ \/ /\ products[call[r].product] = None
        /\ Rollback(r, "error")
     \/ /\ products[call[r].product] # None
        /\ Goto(r, "commit")
        /\ Lock(r, {call[r].product})
        /\ UNCHANGED <<tables, issued, call, local, shares, history>>

ProductRefresh(r) ==
  /\ pc[r] = "refresh_product"
  /\ \/ /\ products[call[r].product] = None
        /\ Rollback(r, "error")
     \/ /\ products[call[r].product] # None
        /\ Goto(r, "commit")
        /\ UNCHANGED <<tables, issued, call, local, locks, shares, history>>

DeleteProductGet(r, p) ==
  /\ Starts(r, "delete_product")
  /\ \/ /\ products[p] = None
        /\ Reject(r)
     \/ /\ products[p] # None
        /\ Enter(r, [NoCall EXCEPT !.op = "delete_product", !.product = p],
                 "delete_product")
        /\ UNCHANGED <<local, locks>>

\* ON DELETE RESTRICT: a committed line of the product is an IntegrityError,
\* which the handler does not catch; a line another request is deleting
\* makes the check wait for that request.
DeleteProductDelete(r) ==
  LET p == call[r].product
      users == {l \in LineIds : lines[l] # None /\ lines[l].product = p}
      leaving == {l \in users : \E s \in Requests \ {r} :
                     l \in locks[s]
                     /\ call[s].op \in {"delete_line", "delete_order"}} IN
  /\ pc[r] = "delete_product"
  /\ FreeToDelete(r, p)
  /\ \/ /\ products[p] # None /\ users \ leaving # {}
        /\ Rollback(r, "error")
     \/ /\ products[p] = None \/ users = {}
        /\ Goto(r, "commit")
        /\ Lock(r, IF products[p] = None THEN {} ELSE {p})
        /\ UNCHANGED <<tables, issued, call, local, shares, history>>
-----------------------------------------------------------------------------
(***************************************************************************)
(* The end of a request.                                                   *)
(***************************************************************************)

\* The line writers of r's order that are open while r commits.
Overtaken(r) ==
  {s \in Open \ {r} : call[s].op \in LineWriters
                      /\ call[s].order = call[r].order}

\* get_db_session commits after the handler has returned.
Commit(r) ==
  /\ pc[r] = "commit"
  /\ orders' = [o \in OrderIds |-> OrderAfter(r, o)]
  /\ lines' = LinesAfter(r)
  /\ products' = [p \in Products |-> ProductAfter(r, p)]
  /\ confirmed' = confirmed \cup
        {o \in OrderIds : orders'[o] # None /\ orders'[o].status = "CONFIRMED"}
  /\ shipped' = shipped \cup
        {l \in LineIds : lines'[l] # None /\ lines'[l].status = "SHIPPED"}
  /\ IF call[r].op \in LineWriters
     THEN /\ raced' = (raced \cup Overtaken(r)) \ {r}
          /\ tainted' = IF r \in raced THEN tainted \cup {call[r].order}
                                       ELSE tainted \ {call[r].order}
     ELSE /\ raced' = raced \ {r}
          /\ UNCHANGED tainted
  /\ Finish(r, "ok")
  /\ UNCHANGED issued

\* A statement, the commit or the process fails at any point before the
\* commit is durable: the database rolls the transaction back.
Fail(r) == r \in Open /\ Rollback(r, "error")

\* r waits for a row s has locked, while holding a lock of its own.
WaitsFor(r, s) ==
  \/ pc[r] = "update_total" /\ call[r].order \in locks[s]
  \/ pc[r] = "cascade"
     /\ LinesOf(lines, call[r].order) \cap locks[s] # {}

\* PostgreSQL's deadlock detector aborts one of two requests that wait for
\* each other.
DeadlockVictim(r) ==
  /\ \E s \in Requests \ {r} : WaitsFor(r, s) /\ WaitsFor(s, r)
  /\ Rollback(r, "error")
-----------------------------------------------------------------------------
Begin(r) ==
  \/ CreateOrderNoId(r)
  \/ \E o \in OrderIds :
        CreateOrderInsert(r, o) \/ CancelOrderGet(r, o) \/ DeleteOrderGet(r, o)
  \/ \E o \in OrderIds, t \in OrderStatus : OrderStatusGet(r, o, t)
  \/ \E o \in OrderIds, p \in Products, q \in Quantities :
        AddLineGetOrder(r, o, p, q)
  \/ \E o \in OrderIds, l \in LineIds : DeleteLineGet(r, o, l)
  \/ \E o \in OrderIds, l \in LineIds, t \in LineStatus :
        LineStatusGet(r, o, l, t)
  \/ \E p \in Products, price \in Prices : ProductGet(r, p, price)
  \/ \E p \in Products : DeleteProductGet(r, p)

Step(r) ==
  \/ AddLineGetProduct(r) \/ AddLineNoId(r) \/ \E l \in LineIds : AddLineInsert(r, l)
  \/ RecomputeSelect(r) \/ RecomputeUpdate(r)
  \/ DeleteLineDelete(r) \/ DeleteLineGetOrder(r)
  \/ LineStatusUpdate(r) \/ LineStatusRefresh(r)
  \/ OrderStatusUpdate(r) \/ OrderStatusRefresh(r)
  \/ DeleteOrderDelete(r) \/ DeleteOrderCascade(r)
  \/ ProductUpdate(r) \/ ProductRefresh(r) \/ DeleteProductDelete(r)
  \/ Commit(r) \/ DeadlockVictim(r)

Next == \E r \in Requests : Begin(r) \/ Step(r) \/ Fail(r)

Spec == Init /\ [][Next]_vars

\* A request that can execute its next statement does: the event loop and
\* the database schedule every session.
FairSpec == Spec /\ \A r \in Requests : WF_vars(Step(r))
-----------------------------------------------------------------------------
TypeOK ==
  /\ orders \in [OrderIds -> OrderRow \cup {None}]
  /\ lines \in [LineIds -> LineRow \cup {None}]
  /\ products \in [Products -> Prices \cup {None}]
  /\ issued \subseteq OrderIds \cup LineIds
  /\ pc \in [Requests -> Steps \cup Final \cup {"idle"}]
  /\ call \in [Requests -> Call]
  /\ local \in [Requests -> Local]
  /\ locks \in [Requests -> SUBSET (OrderIds \cup LineIds \cup Products)]
  /\ shares \in [Requests -> SUBSET (OrderIds \cup Products)]
  /\ confirmed \subseteq OrderIds /\ shipped \subseteq LineIds
  /\ raced \subseteq Requests /\ tainted \subseteq OrderIds

\* A refunded line has been shipped (ADR-0063: no refund skips shipment),
\* whichever requests raced to set the status.
RefundFollowsShipment ==
  \A l \in LineIds :
     lines[l] # None /\ lines[l].status = "REFUNDED" => l \in shipped

\* A shipped order has been confirmed, even though a stale read may move a
\* status along no edge of the graph.
ShipmentFollowsConfirmation ==
  \A o \in OrderIds :
     orders[o] # None /\ orders[o].status = "SHIPPED" => o \in confirmed

\* No line is left without its order or its product: the cascade, the
\* RESTRICT check and the key-share locks of the INSERT close every race.
LinesHaveParents ==
  \A l \in LineIds : lines[l] # None =>
     orders[lines[l].order] # None /\ products[lines[l].product] # None

\* The total is the sum of the lines unless two line writers of the order
\* overlapped and the second committed over the first; the next line writer
\* that runs alone repairs it.
TotalExactUnlessRaced ==
  \A o \in OrderIds : orders[o] # None /\ o \notin tainted =>
     orders[o].total = OrderTotal(lines, o)

\* Invariant 1 of order/totals.py, without the proviso.
TotalIsSumOfLines ==
  \A o \in OrderIds : orders[o] # None =>
     orders[o].total = OrderTotal(lines, o)

\* "Backwards forbidden. CANCELLED is terminal" (order/models.py).
TerminalStatusStays ==
  [][\A o \in OrderIds :
        orders[o] # None /\ orders[o].status = "CANCELLED" =>
           orders'[o] = None \/ orders'[o].status = "CANCELLED"]_vars

\* A committed line keeps its order, product, quantity and price: a price
\* change, a refund or a recomputed total never reaches the snapshot.
SnapshotNeverChanges ==
  [][\A l \in LineIds : lines[l] # None /\ lines'[l] # None =>
        lines'[l] = [lines[l] EXCEPT !.status = lines'[l].status]]_vars

\* No order and no line goes back to PENDING, not even by a stale write.
NeverBackToPending ==
  [][/\ \A l \in LineIds :
          (lines[l] # None /\ lines'[l] # None /\ lines[l].status # "PENDING")
             => lines'[l].status # "PENDING"
     /\ \A o \in OrderIds :
          (orders[o] # None /\ orders'[o] # None
             /\ orders[o].status # "PENDING")
             => orders'[o].status # "PENDING"]_vars

\* Every request that has started ends: no wait for a row lock, and no pair
\* of requests that wait for each other, lasts.
RequestsEnd == \A r \in Requests : r \in Open ~> pc[r] \in Final

Ledger == INSTANCE OrderLedger WITH orders <- orders, lines <- lines, products <- products

\* Requests that never overlap implement the atomic ledger.
AtomicHandlers == Ledger!Spec
=============================================================================
