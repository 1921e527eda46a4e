----------------------------- MODULE ChurnRules -----------------------------
(***************************************************************************)
(* The arithmetic of the churn prediction: the features the service        *)
(* computes from the rows of one customer, the features and the label the  *)
(* training computes from whole tables, and the risk bands.                *)
(*                                                                         *)
(* Times are integers, Day of them a day.  A history is a customer with    *)
(* the orders found for it: [created, email, orders], an order being       *)
(* [at, amount, products].  A ratio is a pair: float32 division of equal   *)
(* integers gives equal floats.                                            *)
(***************************************************************************)
EXTENDS Integers, Sequences, FiniteSets, SequencesExt

CONSTANTS
  Products,     \* what an order line may name
  Day,          \* units of time in a day
  Windows,      \* the revenue windows in days: 30, 90, 365
  Mainstream, Disposable,  \* the domains of each list
  NoDomain      \* of an email without "@", or with nothing behind it

ASSUME DayAssumption == Day \in Nat \ {0} /\ Windows \subseteq Nat

OrderRows == Seq([at : Int, amount : Int, products : Seq(Products)])

Days(duration) == duration \div Day
Larger(a, b) == IF a < b THEN b ELSE a

ClassifyEmailDomain(domain) ==
  CASE domain = NoDomain -> 3
    [] domain \in Disposable -> 2
    [] domain \in Mainstream -> 1
    [] OTHER -> 0
-----------------------------------------------------------------------------
(* inference.py: one pass over the orders. *)

\* Mutant: an order exactly as old as the window is left out.
SumRevenueOpen(orders, now, window) ==
  FoldLeft(LAMBDA total, o : IF o.at <= now - window * Day THEN total ELSE total + o.amount,
           0, orders)

\* _sum_revenue_within
SumRevenueWithin(orders, now, window) ==
  FoldLeft(LAMBDA total, o : IF o.at < now - window * Day THEN total ELSE total + o.amount,
           0, orders)

\* _compute_diversity
Diversity(products) ==
  IF products = <<>> THEN <<0, 1>> ELSE <<Cardinality(ToSet(products)), Len(products)>>

\* max over the orders' times, and the lines of the orders
NewestAt(orders) == FoldLeft(LAMBDA t, o : Larger(t, o.at), Head(orders).at, orders)
ProductsOf(orders) == FoldLeft(LAMBDA s, o : s \o o.products, <<>>, orders)

ExtractFeatures(h, now) ==
  LET lifetime == Larger(1, Days(now - h.created))
      last == IF h.orders = <<>> THEN h.created ELSE NewestAt(h.orders)
  IN [daysSinceLast |-> Larger(0, Days(now - last)),
      revenue |-> [w \in Windows |-> SumRevenueWithin(h.orders, now, w)],
      frequency |-> <<Len(h.orders), lifetime>>,
      diversity |-> Diversity(ProductsOf(h.orders)),
      domain |-> ClassifyEmailDomain(h.email),
      lifetime |-> lifetime]
-----------------------------------------------------------------------------
(* feature_engineering.py: filters, groups and joins of tables. *)

\* generate_dataset: first_order_at and last_order_at of the customer's row.
LastOrderAt(h) == CHOOSE t \in {o.at : o \in ToSet(h.orders)} :
                    \A o \in ToSet(h.orders) : o.at <= t
FirstOrderAt(h) == CHOOSE t \in {o.at : o \in ToSet(h.orders)} :
                     \A o \in ToSet(h.orders) : t <= o.at

\* build_features, the row of a customer that has ordered.
BuildFeatures(h, now) ==
  LET rows == DOMAIN h.orders
      amount == [i \in rows |-> h.orders[i].amount]
      lines == UNION {{i} \X DOMAIN h.orders[i].products : i \in rows}
      lifetime == Larger(1, Days(now - h.created))
  IN [daysSinceLast |-> Larger(0, Days(now - LastOrderAt(h))),
      revenue |-> [w \in Windows |->
                     SumFunctionOnSet(amount, {i \in rows : h.orders[i].at >= now - w * Day})],
      frequency |-> <<Cardinality(rows), lifetime>>,
      diversity |-> IF lines = {} THEN <<0, 1>>
                    ELSE <<Cardinality({h.orders[l[1]].products[l[2]] : l \in lines}),
                           Cardinality(lines)>>,
      domain |-> ClassifyEmailDomain(h.email),
      lifetime |-> lifetime]

\* label_churn: quiet for a while, but not a customer of one day or a new one.
LabelChurn(h, now, quiet, active, age) ==
  /\ LastOrderAt(h) < now - quiet * Day
  /\ LastOrderAt(h) - FirstOrderAt(h) > active * Day
  /\ h.created < now - age * Day
-----------------------------------------------------------------------------
Low == 30     \* DEFAULT_LOW_THRESHOLD, in percent
High == 70    \* DEFAULT_HIGH_THRESHOLD

ClassifyRisk(p) ==
  IF p <= Low THEN "LOW" ELSE IF p <= High THEN "MEDIUM" ELSE "HIGH"
=============================================================================
