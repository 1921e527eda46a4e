----------------------------- MODULE OrdersInv -----------------------------
(***************************************************************************)
(* The inductive invariant of Orders: what an open request has loaded and  *)
(* locked at each statement, and what that says about the tables.          *)
(***************************************************************************)
EXTENDS Orders

Rows == OrderIds \cup LineIds \cup Products

OrderOps   == {"create_order", "update_order_status", "cancel_order",
               "delete_order"}
LineOps    == {"add_line", "update_line_status", "delete_line"}
ProductOps == {"update_product", "delete_product"}

\* The parameters an operation runs with.
CallShape(c) ==
  /\ c.op \in OrderOps \cup LineOps => c.order \in OrderIds
  /\ c.op \in {"update_line_status", "delete_line"} => c.line \in LineIds
  /\ c.op \in ProductOps \cup {"add_line"} => c.product \in Products
  /\ c.op = "add_line" => c.qty \in Quantities
  /\ c.op = "update_product" => c.price \in Prices
  /\ c.op \in {"update_order_status", "cancel_order"} =>
        c.target \in OrderStatus
  /\ c.op = "update_line_status" => c.target \in LineStatus

\* Which handlers contain a statement, as pairs <<statement, operation>>.
Handlers ==
  ({"get_product", "insert_line"} \X {"add_line"})
  \cup ({"delete_line", "get_order"} \X {"delete_line"})
  \cup ({"select_lines", "update_total"} \X LineWriters)
  \cup ({"update_order"} \X {"update_order_status", "cancel_order"})
  \cup ({"refresh_order"} \X {"update_order_status"})
  \cup ({"delete_order", "cascade"} \X {"delete_order"})
  \cup ({"update_line", "refresh_line"} \X {"update_line_status"})
  \cup ({"update_product", "refresh_product"} \X {"update_product"})
  \cup ({"delete_product"} \X {"delete_product"})
  \cup ({"commit"} \X AllOps)

\* The rows L that a call c has written, and whether they are committed.
WritesOK(c, L) ==
  /\ \A o \in L \cap OrderIds :
        /\ o = c.order /\ c.op \in OrderOps \cup LineWriters
        /\ (orders[o] = None) <=> (c.op = "create_order")
  /\ \A l \in L \cap LineIds :
        /\ c.op \in LineOps \cup {"delete_order"}
        /\ (lines[l] = None) <=> (c.op = "add_line")
        /\ c.op = "update_line_status" => l = c.line
  /\ \A p \in L \cap Products :
        p = c.product /\ c.op \in ProductOps /\ products[p] # None

\* A request at statement `step`, with parameters c, loaded values v and
\* written rows L.  A refund is only ever asked of a line that was shipped.
RequestOK(step, c, v, L) ==
  /\ L \subseteq Rows /\ L \ Products \subseteq issued
  /\ WritesOK(c, L)
  /\ IF step \in Steps
     THEN /\ <<step, c.op>> \in Handlers
          /\ CallShape(c)
          /\ (c.op = "add_line" /\ step # "get_product") => v.price \in Prices
          /\ (c.op = "update_line_status" /\ c.target = "REFUNDED")
                => c.line \in shipped
     ELSE c = NoCall /\ L = {}

\* A row is written by one request at a time.
LocksDisjoint ==
  \A r, s \in Requests : r # s => locks[r] \cap locks[s] = {}

\* The rows of the tables have ids that were handed out.
RowsIssued ==
  /\ \A o \in OrderIds : orders[o] # None => o \in issued
  /\ \A l \in LineIds : lines[l] # None => l \in issued

\* A line beyond PENDING has been shipped.
ShippedBefore ==
  \A l \in LineIds :
     lines[l] # None /\ lines[l].status # "PENDING" => l \in shipped

IInv ==
  /\ TypeOK /\ LocksDisjoint /\ RowsIssued /\ ShippedBefore
  /\ \A r \in Requests : RequestOK(pc[r], call[r], local[r], locks[r])
-----------------------------------------------------------------------------
(***************************************************************************)
(* The statuses.  A stale read can move a status along no edge of its      *)
(* graph, so the graphs are no invariant; this is what is left of them.    *)
(***************************************************************************)

\* An order that was confirmed is on record, also when it has moved on.
ConfirmedBefore ==
  \A o \in OrderIds :
     orders[o] # None /\ orders[o].status \in {"CONFIRMED", "SHIPPED"}
        => o \in confirmed

\* What request r asks: to ship an order that was confirmed, to cancel, or to
\* leave PENDING what it found PENDING, which takes no write.
AsksOK(step, c, L) ==
  step \in Steps =>
     /\ (c.op = "update_order_status" /\ c.target = "SHIPPED")
           => c.order \in confirmed
     /\ c.op = "cancel_order" => c.target = "CANCELLED"
     /\ (c.op \in {"update_order_status", "update_line_status"}
           /\ c.target = "PENDING")
           => step \in {"refresh_order", "refresh_line", "commit"} /\ L = {}

StatusInv ==
  ConfirmedBefore /\ \A r \in Requests : AsksOK(pc[r], call[r], locks[r])

(***************************************************************************)
(* The foreign keys of order_line.                                         *)
(***************************************************************************)
Deletes == {"delete_order", "delete_product"}

\* No request is deleting a row that another holds a KEY SHARE lock on.
SharesHold ==
  \A r, s \in Requests :
     r # s /\ shares[r] \cap locks[s] # {} => call[s].op \notin Deletes

\* A line that is not committed has its parents, and keeps them by its shares;
\* an order that goes takes all its lines along, and a product has none.
ParentsOK(step, c, L, S) ==
  /\ (c.op = "add_line" /\ step \in {"select_lines", "update_total", "commit"})
        => /\ S = {c.order, c.product}
           /\ orders[c.order] # None /\ products[c.product] # None
  /\ (c.op = "delete_order" /\ step = "commit" /\ c.order \in L)
        => LinesOf(lines, c.order) \subseteq L
  /\ (c.op = "delete_product" /\ step = "commit" /\ c.product \in L)
        => \A l \in LineIds : lines[l] # None => lines[l].product # c.product

ParentsInv ==
  /\ LinesHaveParents /\ SharesHold
  /\ \A r \in Requests : ParentsOK(pc[r], call[r], locks[r], shares[r])

(***************************************************************************)
(* The total.  Until another line writer of its order commits under it, a  *)
(* line writer works with the total and the lines that are committed.      *)
(***************************************************************************)
Writing(r) == pc[r] \in Steps /\ call[r].op \in LineWriters

\* The ids a line writer works with are not handed out again, so what they
\* name is either what it has read or gone.
TargetsOK(r) ==
  /\ Writing(r) =>
        /\ call[r].order \in issued
        /\ \A s \in Requests :
              call[s].op = "create_order" => call[r].order \notin locks[s]
  /\ (Writing(r) /\ call[r].op = "delete_line") =>
        /\ call[r].line \in issued
        /\ \A s \in Requests :
              call[s].op = "add_line" => call[r].line \notin locks[s]
        /\ lines[call[r].line] # None
              => lines[call[r].line].order = call[r].order

\* A DELETE locks the line it names, or the order it names and then its lines.
OwnLines(r) ==
  /\ pc[r] = "cascade" => call[r].order \in locks[r]
  /\ \A l \in locks[r] \cap LineIds :
        /\ call[r].op = "delete_line" => l = call[r].line
        /\ call[r].op = "delete_order" =>
              lines[l].order = call[r].order /\ call[r].order \in locks[r]

HasTotal(r) ==
  Writing(r) /\ (call[r].op = "delete_line" =>
                    pc[r] \in {"select_lines", "update_total", "commit"})

\* A request nobody has raced: its total is the committed one, its sum that of
\* the lines it will leave, and it skips the UPDATE only if the two agree.
SumOK(r) ==
  (r \notin raced /\ HasTotal(r) /\ orders[call[r].order] # None) =>
     /\ local[r].total = orders[call[r].order].total
     /\ pc[r] \in {"update_total", "commit"} =>
           local[r].sum = OrderTotal(LinesAfter(r), call[r].order)
     /\ pc[r] = "commit" =>
           call[r].order \in locks[r] \/ local[r].sum = local[r].total

TotalInv ==
  /\ TotalExactUnlessRaced
  /\ \A r \in Requests : TargetsOK(r) /\ OwnLines(r) /\ SumOK(r)

\* What a behaviour of Orders never leaves.
Inductive == IInv /\ StatusInv /\ ParentsInv /\ TotalInv
-----------------------------------------------------------------------------
(***************************************************************************)
(* One connection: requests do not overlap, and what the open one has read *)
(* is so until it ends.                                                    *)
(***************************************************************************)
Current(r) ==
  /\ call[r].op = "update_order_status" =>
        OrderMayMove(call[r].order, call[r].target)
  /\ call[r].op = "update_line_status" =>
        LineMayMove(call[r].order, call[r].line, call[r].target)
  /\ call[r].op = "add_line" =>
        /\ pc[r] # "get_product" => local[r].price = products[call[r].product]
        /\ IF pc[r] \in {"get_product", "insert_line"}
           THEN locks[r] \cap LineIds = {}
           ELSE \E l \in LineIds : locks[r] \cap LineIds = {l}

SerialInv ==
  /\ \A r, s \in Open : r = s
  /\ raced = {} /\ tainted = {}
  /\ \A r \in Open : Current(r)
=============================================================================
