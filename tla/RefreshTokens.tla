--------------------------- MODULE RefreshTokens ---------------------------
(***************************************************************************)
(* POST /auth/login, POST /auth/refresh and the cleanup job over the table *)
(* refresh_token.                                                          *)
(*                                                                         *)
(* A refresh reads the record of its token, marks it revoked, inserts the  *)
(* record of a new token, answers, and only then commits: get_db_session   *)
(* commits after the response has been sent.  Statements interleave at     *)
(* every `await`, under READ COMMITTED.                                    *)
(***************************************************************************)
EXTENDS FiniteSets, Naturals

CONSTANTS
  Tokens,       \* refresh tokens uuid4 may mint: bounds the behaviour
  Requests,     \* sessions open at once; each serves any number of calls
  MaxFailures,  \* failures of a statement, a commit or the process
  None

ASSUME NoneAssumption == None \notin Tokens \cup {"live", "revoked"}
ASSUME FailuresAssumption == MaxFailures \in Nat

VARIABLES
  rows,      \* the committed record of each token: None, "live", "revoked"
  age,       \* "fresh"; "exp": the JWT has expired; "row": and the record
  pc,        \* the statement each request is about to execute
  old,       \* the token it presents (None: a login)
  new,       \* the token it has minted
  locks,     \* the record it has written
  purging,   \* records the cleanup's DELETE has matched and not committed
  failures,
  \* History:
  minted, parent,   \* tokens minted, and the token each was exchanged for
  held,             \* tokens answered to a client
  stored,           \* tokens whose record was committed
  rotated,          \* tokens a committed refresh has revoked
  late              \* requests that presented a rotated token

session == <<pc, old, new, locks, late>>
vars == <<rows, age, session, purging, failures, minted, parent, held,
          stored, rotated>>

Unminted == {"select", "revoke", "insert"}
Steps    == Unminted \cup {"answer", "commit"}

Init ==
  /\ rows = [t \in Tokens |-> None] /\ age = [t \in Tokens |-> "fresh"]
  /\ pc = [r \in Requests |-> "idle"]
  /\ old = [r \in Requests |-> None] /\ new = [r \in Requests |-> None]
  /\ locks = [r \in Requests |-> {}] /\ late = {}
  /\ purging = {} /\ failures = 0
  /\ minted = {} /\ parent = [t \in Tokens |-> None]
  /\ held = {} /\ stored = {} /\ rotated = {}

Goto(r, step) == pc' = [pc EXCEPT ![r] = step]

\* Mutant: the next call of the session finds the token of this one.
CloseKeepsNew(r) ==
  /\ Goto(r, "idle")
  /\ old' = [old EXCEPT ![r] = None] /\ UNCHANGED new
  /\ locks' = [locks EXCEPT ![r] = {}] /\ late' = late \ {r}

\* The session closes: an exception rolls its writes back.
Close(r) ==
  /\ Goto(r, "idle")
  /\ old' = [old EXCEPT ![r] = None] /\ new' = [new EXCEPT ![r] = None]
  /\ locks' = [locks EXCEPT ![r] = {}] /\ late' = late \ {r}

\* No other transaction has written the record.
Free(r, t) ==
  t \notin purging /\ \A s \in Requests \ {r} : t \notin locks[s]

\* Bound: a call starts only while uuid4 has a token left for it.
Room == Cardinality(minted) + Cardinality({r \in Requests : pc[r] \in Unminted})
           < Cardinality(Tokens)
-----------------------------------------------------------------------------
\* login: bad credentials are a 401 that changes nothing.
Login(r) ==
  /\ pc[r] = "idle" /\ Room
  /\ Goto(r, "insert")
  /\ UNCHANGED <<rows, age, old, new, locks, late, purging, failures, minted,
                 parent, held, stored, rotated>>

\* decode_token: a token whose JWT has expired is a 401 at once.
RefreshDecode(r, t) ==
  /\ pc[r] = "idle" /\ Room
  /\ t \in held /\ age[t] = "fresh"
  /\ Goto(r, "select")
  /\ old' = [old EXCEPT ![r] = t]
  /\ late' = IF t \in rotated THEN late \cup {r} ELSE late
  /\ UNCHANGED <<rows, age, new, locks, purging, failures, minted, parent,
                 held, stored, rotated>>

\* Mutant: only a record that exists can be revoked or expired.
UsableIfRecorded(t) == rows[t] = None \/ (rows[t] = "live" /\ age[t] # "row")

Usable(t) == rows[t] = "live" /\ age[t] # "row"

\* The record is read; none, a revoked or an expired one is a 401.
RefreshSelect(r) ==
  /\ pc[r] = "select"
  /\ IF Usable(old[r])
     THEN Goto(r, "revoke") /\ UNCHANGED <<old, new, locks, late>>
     ELSE Close(r)
  /\ UNCHANGED <<rows, age, purging, failures, minted, parent, held, stored,
                 rotated>>

\* Mutant: the new pair is minted and the old record is left as it is.
RefreshKeepsOld(r) ==
  /\ pc[r] = "revoke" /\ Goto(r, "insert")
  /\ UNCHANGED <<rows, age, old, new, locks, late, purging, failures, minted,
                 parent, held, stored, rotated>>

\* record.revoked = True; flush.  The UPDATE waits for the record's lock and
\* then matches by id, whatever the record says by now; no row left is a
\* StaleDataError.
RefreshRevoke(r) ==
  /\ pc[r] = "revoke" /\ Free(r, old[r])
  /\ IF rows[old[r]] # None
     THEN /\ Goto(r, "insert")
          /\ locks' = [locks EXCEPT ![r] = {old[r]}]
          /\ UNCHANGED <<old, new, late>>
     ELSE Close(r)
  /\ UNCHANGED <<rows, age, purging, failures, minted, parent, held, stored,
                 rotated>>

\* _issue_token_pair: a new jti, so a token no record has.
IssueTokenPair(r, u) ==
  /\ pc[r] = "insert" /\ u \notin minted
  /\ minted' = minted \cup {u}
  /\ parent' = [parent EXCEPT ![u] = old[r]]
  /\ new' = [new EXCEPT ![r] = u]
  /\ Goto(r, "answer")
  /\ UNCHANGED <<rows, age, old, locks, late, purging, failures, held, stored,
                 rotated>>

\* The handler returns: the client has the token before the commit.
Answer(r) ==
  /\ pc[r] = "answer" /\ Goto(r, "commit")
  /\ held' = held \cup {new[r]}
  /\ UNCHANGED <<rows, age, old, new, locks, late, purging, failures, minted,
                 parent, stored, rotated>>

\* Mutant: the revocation and the new record are committed apart, and the
\* second commit is lost.
CommitRevokeOnly(r) ==
  LET kept == IF locks[r] = {} THEN {new[r]} ELSE {} IN
  /\ pc[r] = "commit"
  /\ rows' = [t \in Tokens |-> IF t \in locks[r] THEN "revoked"
                               ELSE IF t \in kept THEN "live" ELSE rows[t]]
  /\ stored' = stored \cup kept
  /\ rotated' = rotated \cup locks[r]
  /\ Close(r)
  /\ UNCHANGED <<age, purging, failures, minted, parent, held>>

Commit(r) ==
  /\ pc[r] = "commit"
  /\ rows' = [t \in Tokens |-> IF t \in locks[r] THEN "revoked"
                               ELSE IF t = new[r] THEN "live" ELSE rows[t]]
  /\ stored' = stored \cup {new[r]}
  /\ rotated' = rotated \cup locks[r]
  /\ Close(r)
  /\ UNCHANGED <<age, purging, failures, minted, parent, held>>

\* A statement, the commit or the process fails: the transaction is undone,
\* but an answer that was sent stays sent.
Fail(r) ==
  /\ pc[r] \in Steps /\ failures < MaxFailures
  /\ failures' = failures + 1
  /\ Close(r)
  /\ UNCHANGED <<rows, age, purging, minted, parent, held, stored, rotated>>
-----------------------------------------------------------------------------
\* Mutant: the WHERE clause compares with the expiry of the access token.
DeadEarly(t) == rows[t] = "revoked" \/ (rows[t] = "live" /\ age[t] # "fresh")

\* The WHERE clause of cleanup_refresh_tokens.
Dead(t) == rows[t] = "revoked" \/ (rows[t] = "live" /\ age[t] = "row")

\* Mutant: the job looks for expired records only.
CleanupExpiredOnly ==
  /\ purging = {}
  /\ purging' = {t \in Tokens : rows[t] = "live" /\ age[t] = "row"}
  /\ purging' # {} /\ \A t \in purging', r \in Requests : t \notin locks[r]
  /\ UNCHANGED <<rows, age, session, failures, minted, parent, held, stored,
                 rotated>>

\* The DELETE waits for the records in-flight refreshes have written.
CleanupDelete ==
  /\ purging = {}
  /\ purging' = {t \in Tokens : Dead(t)}
  /\ purging' # {} /\ \A t \in purging', r \in Requests : t \notin locks[r]
  /\ UNCHANGED <<rows, age, session, failures, minted, parent, held, stored,
                 rotated>>

CleanupCommit ==
  /\ purging # {} /\ purging' = {}
  /\ rows' = [t \in Tokens |-> IF t \in purging THEN None ELSE rows[t]]
  /\ UNCHANGED <<age, session, failures, minted, parent, held, stored, rotated>>

\* The job fails; the scheduler runs it again the next day.
CleanupFail ==
  /\ purging # {} /\ failures < MaxFailures
  /\ purging' = {} /\ failures' = failures + 1
  /\ UNCHANGED <<rows, age, session, minted, parent, held, stored, rotated>>

\* _encode truncates `exp` to the second and reads the clock before
\* _issue_token_pair does for expires_at: the JWT expires first.
Expire(t) ==
  /\ t \in minted
  /\ \/ age[t] = "fresh" /\ age' = [age EXCEPT ![t] = "exp"]
     \/ age[t] = "exp" /\ age' = [age EXCEPT ![t] = "row"]
  /\ UNCHANGED <<rows, session, purging, failures, minted, parent, held,
                 stored, rotated>>

Cleanup == CleanupDelete \/ CleanupCommit

Step(r) ==
  \/ RefreshSelect(r) \/ RefreshRevoke(r)
  \/ \E u \in Tokens : IssueTokenPair(r, u)
  \/ Answer(r) \/ Commit(r)

Next ==
  \/ \E r \in Requests : \/ Login(r) \/ Step(r) \/ Fail(r)
                         \/ \E t \in Tokens : RefreshDecode(r, t)
  \/ Cleanup \/ CleanupFail
  \/ \E t \in Tokens : Expire(t)

Spec == Init /\ [][Next]_vars

\* Sessions run, the job fires every day.  A DELETE may wait for one refresh
\* after another, but a lock queue is served in order: strong fairness.
FairSpec == /\ Spec
            /\ SF_vars(CleanupDelete) /\ WF_vars(CleanupCommit)
            /\ \A r \in Requests : WF_vars(Step(r))
-----------------------------------------------------------------------------
TypeOK ==
  /\ rows \in [Tokens -> {None, "live", "revoked"}]
  /\ age \in [Tokens -> {"fresh", "exp", "row"}]
  /\ pc \in [Requests -> Steps \cup {"idle"}]
  /\ old \in [Requests -> Tokens \cup {None}]
  /\ new \in [Requests -> Tokens \cup {None}]
  /\ locks \in [Requests -> SUBSET Tokens]
  /\ \A r \in Requests :
        locks[r] \subseteq {old[r]}
        /\ (new[r] # None => pc[r] \in {"answer", "commit"})
  /\ late \subseteq Requests /\ purging \subseteq Tokens
  /\ failures \in 0..MaxFailures
  /\ minted \subseteq Tokens /\ parent \in [Tokens -> Tokens \cup {None}]
  /\ held \subseteq minted /\ stored \subseteq held /\ rotated \subseteq stored

\* Once the record of a new token is committed, the token it was exchanged
\* for is not live any more, whatever overlapped, failed or was purged.
RotationRevokes ==
  \A u \in stored : parent[u] # None => rows[parent[u]] # "live"

\* A record is revoked by a commit that stores its successor's: no failure half
\* way through a refresh leaves the one without the other in the table.  This
\* speaks of records: the token went out before the commit, and a client that
\* has lost the response does not have it.
RevokedHasSuccessor ==
  \A t \in Tokens : rows[t] = "revoked" => \E u \in stored : parent[u] = t

\* A call that arrives after its token was rotated goes no further than the
\* SELECT, also when the cleanup has already deleted the record.
LateIsRefused == \A r \in late : pc[r] = "select"

\* No step, the cleanup's included, deletes the record of a token a client
\* could still exchange.
UsableStays ==
  [][\A t \in Tokens : Usable(t) => rows'[t] # None]_vars

\* Every revoked record is deleted in the end.
RevokedIsPurged == \A t \in Tokens : rows[t] = "revoked" ~> rows[t] = None

\* "If the same refresh token is presented twice ..., the second call fails
\* with 401" (auth/router.py): a token has at most one successor.
OneSuccessor ==
  \A t \in Tokens : Cardinality({u \in stored : parent[u] = t}) <= 1
-----------------------------------------------------------------------------
(***************************************************************************)
(* The inductive invariant: what each session holds at its statement, and  *)
(* what the table says of the tokens that were exchanged.                  *)
(***************************************************************************)

\* A session that has written the record of its token keeps it from every
\* other, and the token it has minted is its own until it commits.
SessionOK(r) ==
  /\ old[r] # None => old[r] \in held
  /\ pc[r] = "idle" => old[r] = None
  /\ pc[r] \in {"select", "revoke"} => old[r] # None
  /\ locks[r] = IF pc[r] \in {"insert", "answer", "commit"} /\ old[r] # None
                THEN {old[r]} ELSE {}
  /\ \A t \in locks[r] : rows[t] # None /\ t \notin purging
  /\ new[r] # None <=> pc[r] \in {"answer", "commit"}
  /\ new[r] # None => new[r] \in minted \ stored /\ parent[new[r]] = old[r]
  /\ pc[r] = "commit" => new[r] \in held

SessionsApart ==
  \A r, s \in Requests : r # s =>
     locks[r] \cap locks[s] = {} /\ (new[r] # None => new[r] # new[s])

\* A token that was exchanged is rotated, and no record of it is live again.
Exchanged ==
  /\ \A t \in Tokens : rows[t] # None => t \in stored
  /\ \A t \in rotated : rows[t] # "live"
  /\ \A u \in stored : parent[u] # None => parent[u] \in rotated
  /\ \A r \in late : pc[r] = "select" /\ old[r] \in rotated

\* What the cleanup has matched stays dead until it commits.
PurgesDead == \A t \in purging : Dead(t)

Inductive ==
  /\ TypeOK /\ SessionsApart /\ Exchanged /\ PurgesDead
  /\ RevokedHasSuccessor
  /\ \A r \in Requests : SessionOK(r)
=============================================================================
