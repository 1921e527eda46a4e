----------------------------- MODULE MCCustomers -----------------------------
(***************************************************************************)
(* Instance of Customers for TLC.  Each menu is a group of calls that can  *)
(* get in each other's way; the identities of names and emails are fixed   *)
(* so that each clash appears once.                                        *)
(***************************************************************************)
EXTENDS CustomersInv

CONSTANTS n1, n2, e1, e2

Call(op, id, name, email) == [op |-> op, id |-> id, name |-> name, email |-> email]
On(op, id) == Call(op, id, None, None)
Create(name, email) == Call("create", None, name, email)

First == [name |-> n1, email |-> e1]
Second == [name |-> n2, email |-> e2]
From(rows, calls) == [rows |-> rows, calls |-> calls]

MCScenarios ==
  {From(<<>>, {Create(n1, e1), Create(n2, e2), On("delete", 1)}),
   From(<<First>>, {Create(n1, e2), On("recent", None), On("get", 2)}),
   From(<<First>>, {Create(n2, e1), Call("patch", 1, None, e2), On("delete", 1)}),
   From(<<First>>, {Call("patch", 1, None, e2), On("delete", 1), On("order", 1)}),
   From(<<First, Second>>, {Call("put", 1, n1, e2), Call("put", 2, n2, e1), On("delete", 1)}),
   From(<<First>>, {Call("put", 1, n2, e1), Call("put", 1, n1, e2), Call("patch", 1, n2, None)}),
   From(<<First>>, {Call("put", 1, n2, e2), On("order", 1), On("churn", 1)}),
   From(<<First, Second>>, {Call("list", 0, None, None), Call("list", 1, n1, None),
                            Call("list", 1, None, None), On("delete", 1)}),
   From(<<First>>, {Call("list", 0, n1, None), Call("list", 1, None, None), Create(n1, e2)}),
   From(<<First>>, {On("bio", 1), On("enrich", 1), On("ready", None), On("delete", 1)}),
   From(<<First>>, {On("todos", 1), On("churn", 1), On("order", 1)}),
   From(<<>>, {On("audit", 1), On("slow", None), On("fault", None)}),
   From(<<First>>, {On("audit", 1), On("bio", 1), On("enrich", 1), On("get", 2)})}
=============================================================================
