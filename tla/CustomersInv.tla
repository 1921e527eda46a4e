---------------------------- MODULE CustomersInv ----------------------------
(***************************************************************************)
(* The inductive invariant of Customers: which step a request may be at,   *)
(* what its open transaction has locked and claimed, and what it has read  *)
(* of rows that nobody has committed to since.                             *)
(***************************************************************************)
EXTENDS Customers

\* The steps of an operation, from the pool to the answer.
Path(op) ==
  CASE op = "create" -> {"connect", "insert", "push", "trim", "publish", "commit", "done"}
    [] op = "recent" -> {"range", "done"}
    [] op \in {"put", "patch"} -> {"connect", "load", "write", "index", "commit", "done"}
    [] op = "delete" -> {"connect", "load", "write", "commit", "done"}
    [] op \in {"get", "audit"} -> {"connect", "load", "commit", "done"}
    [] op \in {"bio", "todos"} -> {"connect", "load", "remote", "commit", "done"}
    [] op = "enrich" -> {"connect", "load", "reply", "commit", "done"}
    [] op = "churn" -> {"connect", "load", "orders", "lines", "commit", "done"}
    [] op = "order" -> {"connect", "order", "commit", "done"}
    [] op = "list" -> {"connect", "count", "page", "commit", "done"}
    [] op = "ready" -> {"connect", "ping", "done"}
    [] op \in {"slow", "fault"} -> {"connect", "diagnose", "commit", "done"}

\* Every request is at a step of its operation, and holds no lock before its
\* first write.
PathsInv ==
  /\ DOMAIN pc = Requests /\ DOMAIN call = Requests /\ DOMAIN loaded = Requests
  /\ DOMAIN held = Requests
  /\ tries \in [Requests -> Nat] /\ answer \in [Requests -> Nat \cup {None}]
  /\ \A c \in menu : IsCall(c)
  /\ \A r \in Requests :
        /\ pc[r] = "idle" => held[r] = None /\ tries[r] = 0
        /\ pc[r] # "idle" => IsCall(call[r]) /\ pc[r] \in Path(Op(r))

\* Ids are handed out once, and there are enough for the requests to come.
IdsInv ==
  /\ nextId + Cardinality({r \in Requests : pc[r] \in {"idle", "connect", "insert"}})
       <= MaxId + 1
  /\ \A i \in nextId .. MaxId : customers[i] = None
  /\ \A a \in events \cup {recent[p] : p \in DOMAIN recent} : a.id < nextId
  /\ ordered \subseteq Ids
  /\ untrimmed \in Nat

Asked(r) == [name |-> call[r].name, email |-> call[r].email]

\* What holds of a request that has written a row: an insert is of a new id,
\* all else is of a committed row that the lock keeps as it is.
LocksInv ==
  /\ \A r \in Requests :
        /\ held[r] # None =>
              /\ Op(r) \in {"create", "put", "patch", "delete", "order"}
              /\ pc[r] \in {"push", "trim", "publish", "index", "commit"}
              /\ Op(r) = "create" => /\ held[r] < nextId /\ customers[held[r]] = None
                                     /\ made[held[r]] = Asked(r)
              /\ Op(r) # "create" => held[r] = call[r].id /\ customers[held[r]] # None
              /\ Op(r) = "delete" => held[r] \notin ordered
        /\ pc[r] \in {"push", "trim", "publish"} => held[r] # None
        /\ pc[r] = "commit" /\ Op(r) \in {"create", "order"} => held[r] # None
        /\ pc[r] = "index" => held[r] # None /\ KeyChanges(r)
  /\ \A r, s \in Requests :
        r # s /\ held[r] # None /\ held[r] = held[s] =>
          /\ "order" \in {Op(r), Op(s)}
          /\ "delete" \notin {Op(r), Op(s)}

\* A request whose uncommitted row is in the unique index.
Claims(r) == held[r] # None /\ Op(r) \notin {"order", "delete"} /\ pc[r] # "index"

\* No email in the unique index, committed or claimed, is there twice.
EmailsInv ==
  \A r \in Requests :
     Claims(r) =>
       /\ \A i \in Ids \ {held[r]} :
             customers[i] # None => customers[i].email # Written(r).email
       /\ \A s \in Requests \ {r} :
             Claims(s) => Written(s).email # Written(r).email

\* What a request that was not overtaken has read is still so, a total is out
\* by one for each commit that has overtaken it at most, and a PUT that writes
\* nothing has found nothing to change.
Found(r) ==
  /\ pc[r] = "write" \/ held[r] # None => loaded[r] = customers[call[r].id]
  /\ pc[r] = "commit" /\ held[r] = None => customers[call[r].id] = Asked(r)
Near(total, number, d) == total - d <= number /\ number <= total + d
ReadsInv ==
  \A r \in Requests :
     /\ pc[r] # "idle" /\ Op(r) = "put" =>
          /\ overtaken[r] = 0 => Found(r)
          /\ pc[r] = "commit" /\ held[r] = None => Changed(r, loaded[r]) = {}
     /\ pc[r] = "page" =>
          Near(loaded[r].total, Cardinality(Matching(r)), overtaken[r]) /\ loaded[r].total \in Nat

\* Attempts are only counted by an operation that makes them.
AttemptsInv ==
  \A r \in Requests :
     pc[r] # "idle" =>
       /\ tries[r] > 0 => pc[r] \in {"remote", "commit", "done"}
       /\ pc[r] = "remote" /\ Op(r) = "todos" => tries[r] < TodoAttempts
       /\ pc[r] = "remote" /\ Op(r) = "bio" => tries[r] < BioAttempts

Inductive ==
  /\ TypeOK /\ PathsInv /\ IdsInv /\ LocksInv /\ EmailsInv /\ ReadsInv /\ AttemptsInv
  /\ Consistent /\ Announced /\ BufferBounded /\ PageAgrees /\ Degrades
=============================================================================
