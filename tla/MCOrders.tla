------------------------------ MODULE MCOrders ------------------------------
(***************************************************************************)
(* Instances of Orders for TLC: one order, two line ids, one product.  Two *)
(* prices make a price change visible; MaxTotal = 3 lets two lines at the  *)
(* higher price overflow the total.                                        *)
(***************************************************************************)
EXTENDS OrdersInv, TLC

MCPrices     == {1, 2}
MCOnePrice   == {1}
MCQuantities == {1}

EveryOp     == AllOps
StatusOps   == {"update_order_status"}
AddLineOnly == {"add_line"}
RowLockers  == {"add_line", "delete_line", "update_line_status",
                "delete_order", "delete_product"}

Symmetry == Permutations(Requests) \cup Permutations(LineIds)
=============================================================================
