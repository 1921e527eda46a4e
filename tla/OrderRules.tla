----------------------------- MODULE OrderRules -----------------------------
(***************************************************************************)
(* The vocabulary of the order tables: the rows that `orders`,             *)
(* `order_line` and `product` hold, the two status graphs, and the sum     *)
(* that the denormalised column orders.total_amount is meant to carry.     *)
(*                                                                         *)
(* OrderLedger (what the handlers promise) and Orders (what the handlers   *)
(* do, one statement at a time) are both written with it.                  *)
(***************************************************************************)
EXTENDS Naturals, FiniteSets, Functions

CONSTANTS
  OrderIds,    \* the ids the sequence of `orders` may hand out
  LineIds,     \* the ids the sequence of `order_line` may hand out
  Products,    \* the ids of the products in the catalogue
  Prices,      \* unit prices, in the smallest currency unit
  Quantities,  \* line quantities: Field(gt=0), CHECK (quantity > 0)
  MaxTotal,    \* the largest amount the column NUMERIC(12, 2) stores
  None         \* no row (ORM: None)

ASSUME AmountsAssumption ==
  /\ Prices \subseteq Nat
  /\ Quantities \subseteq Nat \ {0}
  /\ MaxTotal \in Nat

OrderStatus == {"PENDING", "CONFIRMED", "SHIPPED", "CANCELLED"}
LineStatus  == {"PENDING", "SHIPPED", "REFUNDED"}

OrderRow == [status : OrderStatus, total : 0..MaxTotal]
LineRow  == [order : OrderIds, product : Products, qty : Quantities,
             price : Prices, status : LineStatus]

ASSUME NoneAssumption ==
  /\ None \notin OrderRow
  /\ None \notin LineRow
  /\ None \notin Prices
  /\ None \notin OrderIds \cup LineIds \cup Products

ASSUME IdsAssumption ==
  /\ OrderIds \cap LineIds = {}
  /\ OrderIds \cap Products = {}
  /\ LineIds \cap Products = {}

\* OrderStatus.can_transition_to
OrderEdges == {<<"PENDING", "CONFIRMED">>, <<"PENDING", "CANCELLED">>,
               <<"CONFIRMED", "SHIPPED">>, <<"CONFIRMED", "CANCELLED">>}

OrderCanTransition(current, target) ==
  current = target \/ <<current, target>> \in OrderEdges

\* OrderLineStatus.can_transition_to
LineEdges == {<<"PENDING", "SHIPPED">>, <<"SHIPPED", "REFUNDED">>}

LineCanTransition(current, target) ==
  current = target \/ <<current, target>> \in LineEdges

(***************************************************************************)
(* LinesOf(ls, o) are the lines of order o in a version ls of the table    *)
(* order_line.  OrderTotal is the sum of their amounts; it depends on ls   *)
(* through Amounts only.                                                   *)
(***************************************************************************)
LinesOf(ls, o) == {l \in LineIds : ls[l] # None /\ ls[l].order = o}

Amounts(ls, o) == [l \in LinesOf(ls, o) |-> ls[l].qty * ls[l].price]

OrderTotal(ls, o) == SumFunction(Amounts(ls, o))
=============================================================================
