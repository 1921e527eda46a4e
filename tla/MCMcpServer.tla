---------------------------- MODULE MCMcpServer ----------------------------
(***************************************************************************)
(* Instance of McpServer for TLC.  Each scenario is a set of tools whose   *)
(* calls can affect each other, with the senders that matter to them.      *)
(***************************************************************************)
EXTENDS McpServer, TLC

CONSTANTS f1, f2, l1, l2, viewer, admin, main, throwaway, p1, p2

Token(sub, role, type, valid) == [sub |-> sub, role |-> role, type |-> type, valid |-> valid]
From(k, bearer) == [key |-> k, bearer |-> bearer]

Viewer == From(None, Token(viewer, "ROLE_USER", "access", TRUE))
Admin == From(None, Token(admin, "ROLE_ADMIN", "access", TRUE))
KeyAsBearer == From(None, ApiKey)
KeyHeader == From(ApiKey, None)
\* The middleware lets the key win over a token.
Both == From(ApiKey, Token(viewer, "ROLE_USER", "access", TRUE))
Nobody == From(None, None)
Expired == From(None, Token(viewer, "ROLE_ADMIN", "access", FALSE))
Refresh == From(None, Token(viewer, "ROLE_ADMIN", "refresh", TRUE))
NoRole == From(None, Token(viewer, None, "access", TRUE))

With(tools, senders) ==
  [tools |-> tools, headers |-> senders, sessions |-> 1, lines |-> 0, seconds |-> 0,
   apps |-> 1, model |-> TRUE]
Twice(t, senders) == With(<<t, t>>, senders)
MCScenarios ==
  {With(<<"create_order", "create_order", t>>, {Viewer}) : t \in DomainTools} \cup
  {[Twice("tail_logs", {Viewer}) EXCEPT !.lines = 2, !.apps = 2],
   [With(<<"get_metrics", "get_metrics", "get_metrics">>, {Viewer}) EXCEPT !.seconds = 2],
   With(<<"predict_customer_churn">>, {Viewer}),
   With(<<"find_low_stock_products">>, {Viewer}),
   [With(<<"predict_customer_churn">>, {Viewer}) EXCEPT !.model = FALSE],
   Twice("trigger_chaos_experiment", {Viewer, Admin, KeyHeader, Both, NoRole}),
   [Twice("get_health_detail", {Viewer, Admin, KeyAsBearer, Expired, Refresh})
      EXCEPT !.sessions = 2]} \cup
  {With(<<"get_health", t>>, {Viewer, Nobody}) : t \in PlainTools}

\* Each filter absent, empty or set; a family and a label asked for apart and
\* together, and another of each.
MCQueries ==
  {<<None, None>>, <<Blank, None>>, <<None, Blank>>, <<f1, None>>, <<None, l1>>,
   <<f1, l1>>, <<f1, l2>>, <<f2, l1>>}

\* The present, in half days, and orders on, just before and just after the
\* edge of the window of two days.
MCNow == 12
At(at, products) == [at |-> at, amount |-> at + 1, products |-> products]
MCHistories ==
  [created : {3}, email : {main, throwaway},
   orders : {<<>>, <<At(8, <<p1>>)>>, <<At(7, <<>>)>>,
             <<At(9, <<p1, p2, p1>>), At(4, <<p2>>)>>, <<At(4, <<p1>>), At(7, <<p1>>)>>}]

\* Only to get_customer_360 does it matter whose an order is.  Elsewhere there
\* is one customer, or none and somebody asks for one.
OneCustomer ==
  \/ "get_customer_360" \in {scenario.tools[i] : i \in DOMAIN scenario.tools}
  \/ Cardinality((known \cup {customer[c] : c \in Calls}) \ {None}) <= 1

Symmetry == Permutations(Calls) \cup Permutations(Sessions) \cup Permutations(Keys)
              \cup Permutations(Customers)
=============================================================================
