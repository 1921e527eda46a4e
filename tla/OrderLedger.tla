---------------------------- MODULE OrderLedger ----------------------------
(***************************************************************************)
(* What the order endpoints promise: every request is one atomic change of *)
(* the three tables, and an order's total is at all times the sum of its   *)
(* lines.  A status moves along its graph, with one exception: the MCP     *)
(* tool cancel_order writes CANCELLED over any status, SHIPPED included,   *)
(* which order/router.py:96-99 calls terminal.  Orders implements this     *)
(* specification when requests do not overlap (one connection in the       *)
(* pool); the README says what is left of it when they do.                 *)
(***************************************************************************)
EXTENDS OrderRules

VARIABLES orders, lines, products

ledger == <<orders, lines, products>>

TypeOK ==
  /\ orders \in [OrderIds -> OrderRow \cup {None}]
  /\ lines \in [LineIds -> LineRow \cup {None}]
  /\ products \in [Products -> Prices \cup {None}]

\* A line's order and product exist (fk_order_line_order,
\* fk_order_line_product) and an order's total is the sum of its lines.
References ==
  \A l \in LineIds : lines[l] # None =>
     /\ orders[lines[l].order] # None
     /\ products[lines[l].product] # None

Totals == \A o \in OrderIds : orders[o] # None =>
                                 orders[o].total = OrderTotal(lines, o)

Init == TypeOK /\ References /\ Totals

CreateOrder(o) ==
  /\ orders[o] = None
  /\ orders' = [orders EXCEPT ![o] = [status |-> "PENDING", total |-> 0]]
  /\ UNCHANGED <<lines, products>>

\* The total follows the lines: `o` gets the sum over the new table.
Retotal(o) ==
  /\ OrderTotal(lines', o) \in 0..MaxTotal
  /\ orders' = [orders EXCEPT ![o].total = OrderTotal(lines', o)]
  /\ UNCHANGED products

AddLine(o, l, p, q) ==
  /\ orders[o] # None /\ products[p] # None /\ lines[l] = None
  /\ lines' = [lines EXCEPT ![l] = [order |-> o, product |-> p, qty |-> q,
                                    price |-> products[p],
                                    status |-> "PENDING"]]
  /\ Retotal(o)

DeleteLine(l) ==
  /\ lines[l] # None
  /\ lines' = [lines EXCEPT ![l] = None]
  /\ Retotal(lines[l].order)

SetOrderStatus(o, target) ==
  /\ orders[o] # None
  /\ OrderCanTransition(orders[o].status, target)
  /\ orders' = [orders EXCEPT ![o].status = target]
  /\ UNCHANGED <<lines, products>>

\* The MCP tool cancels from any status, without asking the graph.
CancelOrder(o) ==
  /\ orders[o] # None
  /\ orders' = [orders EXCEPT ![o].status = "CANCELLED"]
  /\ UNCHANGED <<lines, products>>

SetLineStatus(l, target) ==
  /\ lines[l] # None
  /\ LineCanTransition(lines[l].status, target)
  /\ lines' = [lines EXCEPT ![l].status = target]
  /\ UNCHANGED <<orders, products>>

\* ON DELETE CASCADE: the lines go with their order.
DeleteOrder(o) ==
  /\ orders[o] # None
  /\ orders' = [orders EXCEPT ![o] = None]
  /\ lines' = [l \in LineIds |-> IF l \in LinesOf(lines, o) THEN None
                                                           ELSE lines[l]]
  /\ UNCHANGED products

\* A price change reaches no line: lines carry the price at order time.
SetPrice(p, price) ==
  /\ products[p] # None
  /\ products' = [products EXCEPT ![p] = price]
  /\ UNCHANGED <<orders, lines>>

\* ON DELETE RESTRICT: a product some line refers to stays.
DeleteProduct(p) ==
  /\ products[p] # None
  /\ \A l \in LineIds : lines[l] # None => lines[l].product # p
  /\ products' = [products EXCEPT ![p] = None]
  /\ UNCHANGED <<orders, lines>>

Next ==
  \/ \E o \in OrderIds : CreateOrder(o) \/ DeleteOrder(o) \/ CancelOrder(o)
  \/ \E o \in OrderIds, target \in OrderStatus : SetOrderStatus(o, target)
  \/ \E o \in OrderIds, l \in LineIds, p \in Products, q \in Quantities :
        AddLine(o, l, p, q)
  \/ \E l \in LineIds : DeleteLine(l)
  \/ \E l \in LineIds, target \in LineStatus : SetLineStatus(l, target)
  \/ \E p \in Products, price \in Prices : SetPrice(p, price)
  \/ \E p \in Products : DeleteProduct(p)

Spec == Init /\ [][Next]_ledger
=============================================================================
