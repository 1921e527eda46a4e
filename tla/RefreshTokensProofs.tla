------------------------- MODULE RefreshTokensProofs -------------------------
(***************************************************************************)
(* Proofs about RefreshTokens for every number of sessions, tokens and     *)
(* failures: Inductive is inductive, and with it the rotation revokes, a   *)
(* revoked record has a successor, a late call is refused, and the cleanup *)
(* takes nothing a client could still use.                                 *)
(***************************************************************************)
EXTENDS RefreshTokens, TLAPS

\* Every initial state satisfies the invariant.
LEMMA InitInv == Init => Inductive
<1> SUFFICES ASSUME Init PROVE Inductive
  OBVIOUS
<1>1. TypeOK
  BY FailuresAssumption DEF Init, TypeOK
<1>2. SessionsApart /\ Exchanged /\ PurgesDead /\ RevokedHasSuccessor
  BY NoneAssumption
     DEF Init, SessionsApart, Exchanged, PurgesDead, RevokedHasSuccessor
<1>3. \A r \in Requests : SessionOK(r)
  BY DEF Init, SessionOK
<1> QED
  BY <1>1, <1>2, <1>3 DEF Inductive

\* A session that closes leaves the tokens as they are and takes its locks
\* along.
LEMMA CloseInv ==
  ASSUME Inductive, NEW r \in Requests, Close(r),
         failures' \in 0..MaxFailures,
         UNCHANGED <<rows, age, purging, minted, parent, held, stored, rotated>>
  PROVE  Inductive'
<1>1. TypeOK'
  BY NoneAssumption DEF Close, Goto, Inductive, TypeOK
<1>2. SessionsApart' /\ Exchanged'
  BY DEF Close, Goto, Inductive, TypeOK, SessionsApart, Exchanged
<1>3. PurgesDead' /\ RevokedHasSuccessor'
  BY DEF Inductive, PurgesDead, Dead, RevokedHasSuccessor
<1>4. ASSUME NEW s \in Requests PROVE SessionOK(s)'
  <2>1. CASE s = r
    BY <2>1 DEF Close, Goto, Inductive, TypeOK, SessionOK
  <2>2. CASE s # r
    BY <2>2 DEF Close, Goto, Inductive, TypeOK, SessionOK
  <2> QED
    BY <2>1, <2>2
<1> QED
  BY <1>1, <1>2, <1>3, <1>4 DEF Inductive

\* login and refresh start a session that holds nothing.
LEMMA StartInv ==
  ASSUME Inductive, NEW r \in Requests,
         Login(r) \/ \E t \in Tokens : RefreshDecode(r, t)
  PROVE  Inductive'
<1>1. TypeOK' /\ Exchanged'
  <2>1. CASE Login(r)
    BY <2>1 DEF Login, Goto, Inductive, TypeOK, Exchanged, Steps, Unminted
  <2>2. CASE \E t \in Tokens : RefreshDecode(r, t)
    BY <2>2
       DEF RefreshDecode, Goto, Inductive, TypeOK, SessionOK, Exchanged, Steps,
           Unminted
  <2> QED
    BY <2>1, <2>2
<1>2. SessionsApart' /\ PurgesDead' /\ RevokedHasSuccessor'
  BY DEF Login, RefreshDecode, Inductive, SessionsApart, PurgesDead, Dead,
         RevokedHasSuccessor
<1>3. ASSUME NEW s \in Requests PROVE SessionOK(s)'
  <2>1. SessionOK(s) /\ SessionOK(r) /\ pc[r] = "idle"
    BY DEF Login, RefreshDecode, Inductive
  <2>2. CASE s # r
    <3>1. /\ pc'[s] = pc[s] /\ old'[s] = old[s]
          /\ UNCHANGED <<new, locks, rows, purging, held, minted, stored, parent>>
      BY <2>2 DEF Login, RefreshDecode, Goto, Inductive, TypeOK
    <3> QED
      BY <2>1, <3>1 DEF SessionOK
  <2>3. CASE s = r /\ Login(r)
    BY <2>1, <2>3 DEF Login, Goto, Inductive, TypeOK, SessionOK
  <2>4. CASE s = r /\ \E t \in Tokens : RefreshDecode(r, t)
    BY <2>1, <2>4, NoneAssumption
       DEF RefreshDecode, Goto, Inductive, TypeOK, SessionOK
  <2> QED
    BY <2>2, <2>3, <2>4
<1> QED
  BY <1>1, <1>2, <1>3 DEF Inductive

\* The SELECT and the UPDATE of a refresh: one that was late goes no further.
LEMMA RotateInv ==
  ASSUME Inductive, NEW r \in Requests, RefreshSelect(r) \/ RefreshRevoke(r)
  PROVE  Inductive'
<1>1. CASE Close(r)
  BY <1>1, CloseInv DEF RefreshSelect, RefreshRevoke, Inductive, TypeOK
<1>2. CASE RefreshSelect(r) /\ ~Close(r)
  <2>1. /\ Usable(old[r]) /\ pc[r] = "select" /\ Goto(r, "revoke")
        /\ UNCHANGED <<old, new, locks, late, rows, age, purging, failures,
                       minted, parent, held, stored, rotated>>
    BY <1>2 DEF RefreshSelect
  <2>2. r \notin late
    BY <2>1 DEF Usable, Inductive, Exchanged
  <2>3. TypeOK' /\ SessionsApart' /\ Exchanged'
    BY <2>1, <2>2
       DEF Goto, Inductive, TypeOK, SessionsApart, Exchanged, Steps, Unminted
  <2>4. PurgesDead' /\ RevokedHasSuccessor'
    BY <2>1 DEF Inductive, PurgesDead, Dead, RevokedHasSuccessor
  <2>5. \A s \in Requests : SessionOK(s)'
    BY <2>1 DEF Goto, Inductive, TypeOK, SessionOK
  <2> QED
    BY <2>3, <2>4, <2>5 DEF Inductive
<1>3. CASE RefreshRevoke(r) /\ ~Close(r)
  <2>1. /\ pc[r] = "revoke" /\ Free(r, old[r]) /\ rows[old[r]] # None
        /\ Goto(r, "insert") /\ locks' = [locks EXCEPT ![r] = {old[r]}]
        /\ UNCHANGED <<old, new, late, rows, age, purging, failures,
                       minted, parent, held, stored, rotated>>
    BY <1>3 DEF RefreshRevoke
  <2>2. /\ old[r] \in Tokens /\ old[r] \notin purging
        /\ \A s \in Requests \ {r} : old[r] \notin locks[s]
    BY <2>1 DEF Free, Inductive, TypeOK, SessionOK
  <2>3. TypeOK' /\ SessionsApart' /\ Exchanged'
    BY <2>1, <2>2
       DEF Goto, Inductive, TypeOK, SessionsApart, Exchanged, Steps, Unminted
  <2>4. PurgesDead' /\ RevokedHasSuccessor'
    BY <2>1 DEF Inductive, PurgesDead, Dead, RevokedHasSuccessor
  <2>5. ASSUME NEW s \in Requests PROVE SessionOK(s)'
    <3>1. SessionOK(s) /\ SessionOK(r)
      BY DEF Inductive
    <3>2. CASE s # r
      BY <2>1, <3>1, <3>2 DEF Goto, Inductive, TypeOK, SessionOK
    <3>3. CASE s = r
      <4>1. pc'[r] = "insert" /\ locks'[r] = {old[r]} /\ old[r] # None
        BY <2>1, <3>1 DEF Goto, Inductive, TypeOK, SessionOK
      <4> QED
        BY <2>1, <2>2, <3>1, <3>3, <4>1 DEF SessionOK
    <3> QED
      BY <3>2, <3>3
  <2> QED
    BY <2>3, <2>4, <2>5 DEF Inductive
<1> QED
  BY <1>1, <1>2, <1>3

\* The token a refresh mints is nobody else's, and was exchanged for the one
\* whose record the refresh has written.
LEMMA MintInv ==
  ASSUME Inductive, NEW r \in Requests,
         Answer(r) \/ \E u \in Tokens : IssueTokenPair(r, u)
  PROVE  Inductive'
<1>1. CASE Answer(r)
  <2>1. TypeOK' /\ SessionsApart' /\ Exchanged'
    BY <1>1 DEF Answer, Goto, Inductive, TypeOK, SessionsApart, Exchanged,
                SessionOK, Steps
  <2>2. PurgesDead' /\ RevokedHasSuccessor'
    BY <1>1 DEF Answer, Inductive, PurgesDead, Dead, RevokedHasSuccessor
  <2>3. ASSUME NEW s \in Requests PROVE SessionOK(s)'
    <3>1. SessionOK(s)
      BY DEF Inductive
    <3> QED
      BY <1>1, <3>1 DEF Answer, Goto, Inductive, TypeOK, SessionOK
  <2> QED
    BY <2>1, <2>2, <2>3 DEF Inductive
<1>2. ASSUME NEW u \in Tokens, IssueTokenPair(r, u)
      PROVE  Inductive'
  <2>1. SessionOK(r) /\ u \notin stored /\ old[r] \in Tokens \cup {None}
    BY <1>2 DEF IssueTokenPair, Inductive, TypeOK
  <2>2. TypeOK'
    BY <1>2, <2>1 DEF IssueTokenPair, Goto, Inductive, TypeOK, Steps
  <2>3. SessionsApart'
    BY <1>2
       DEF IssueTokenPair, Inductive, TypeOK, SessionsApart, SessionOK
  <2>4. Exchanged'
    BY <1>2, <2>1 DEF IssueTokenPair, Goto, Inductive, TypeOK, Exchanged
  <2>5. PurgesDead' /\ RevokedHasSuccessor'
    BY <1>2, <2>1
       DEF IssueTokenPair, Inductive, TypeOK, PurgesDead, Dead,
           RevokedHasSuccessor
  <2>6. ASSUME NEW s \in Requests PROVE SessionOK(s)'
    <3>1. SessionOK(s)
      BY DEF Inductive
    <3>2. CASE s # r
      <4>1. new[s] # None => new[s] # u
        BY <1>2, <3>1 DEF IssueTokenPair, SessionOK
      <4> QED
        BY <1>2, <3>1, <3>2, <4>1
           DEF IssueTokenPair, Goto, Inductive, TypeOK, SessionOK
    <3>3. CASE s = r
      BY <1>2, <2>1, <3>3, NoneAssumption
         DEF IssueTokenPair, Goto, Inductive, TypeOK, SessionOK
    <3> QED
      BY <3>2, <3>3
  <2> QED
    BY <2>2, <2>3, <2>4, <2>5, <2>6 DEF Inductive
<1> QED
  BY <1>1, <1>2

\* The COMMIT revokes the old record and stores the new one at once.
LEMMA CommitInv ==
  ASSUME Inductive, NEW r \in Requests, Commit(r)
  PROVE  Inductive'
<1>1. /\ pc[r] = "commit" /\ SessionOK(r) /\ TypeOK
      /\ UNCHANGED <<age, purging, failures, minted, parent, held>>
      /\ stored' = stored \cup {new[r]} /\ rotated' = rotated \cup locks[r]
  BY DEF Commit, Inductive
<1>2. /\ new[r] \in (held \cap minted) \ stored /\ parent[new[r]] = old[r]
      /\ rows[new[r]] = None
      /\ \A t \in locks[r] : t = old[r] /\ rows[t] # None
                            /\ t \in stored /\ t \notin purging
      /\ old[r] # None => locks[r] = {old[r]}
  BY <1>1 DEF SessionOK, Inductive, TypeOK, Exchanged
<1>3. \A t \in Tokens :
         rows'[t] = IF t \in locks[r] THEN "revoked"
                    ELSE IF t = new[r] THEN "live" ELSE rows[t]
  BY DEF Commit
<1>4. TypeOK'
  BY <1>1, <1>2, <1>3, NoneAssumption DEF Commit, Close, Goto, TypeOK
<1>5. SessionsApart'
  BY <1>1 DEF Commit, Close, TypeOK, Inductive, SessionsApart
<1>6. Exchanged'
  <2>1. \A t \in Tokens : rows'[t] # None => t \in stored'
    BY <1>1, <1>2, <1>3 DEF Inductive, Exchanged
  <2>2. \A t \in rotated' : rows'[t] # "live"
    BY <1>1, <1>2, <1>3 DEF Inductive, Exchanged, TypeOK
  <2>3. \A u \in stored' : parent'[u] # None => parent'[u] \in rotated'
    BY <1>1, <1>2 DEF Inductive, Exchanged
  <2>4. \A s \in late' : pc'[s] = "select" /\ old'[s] \in rotated'
    BY <1>1 DEF Commit, Close, Goto, Inductive, Exchanged, TypeOK
  <2> QED
    BY <2>1, <2>2, <2>3, <2>4 DEF Exchanged
<1>7. PurgesDead'
  BY <1>1, <1>2, <1>3, NoneAssumption DEF Inductive, PurgesDead, Dead, TypeOK
<1>8. RevokedHasSuccessor'
  BY <1>1, <1>2, <1>3, NoneAssumption
     DEF Inductive, RevokedHasSuccessor, TypeOK
<1>9. ASSUME NEW s \in Requests PROVE SessionOK(s)'
  <2>1. SessionOK(s)
    BY DEF Inductive
  <2>2. CASE s = r
    BY <1>1, <2>2 DEF Commit, Close, Goto, TypeOK, SessionOK
  <2>3. CASE s # r
    <3>1. /\ pc'[s] = pc[s] /\ old'[s] = old[s] /\ new'[s] = new[s]
          /\ locks'[s] = locks[s]
      BY <1>1, <2>3 DEF Commit, Close, Goto, TypeOK
    <3>2. new[s] # None => new[s] \notin stored'
      BY <1>1, <2>1, <2>3 DEF Inductive, SessionsApart, SessionOK
    <3>3. \A t \in locks[s] : rows'[t] # None
      BY <1>1, <1>3, <2>1, NoneAssumption DEF SessionOK, TypeOK
    <3> QED
      BY <1>1, <2>1, <3>1, <3>2, <3>3 DEF SessionOK
  <2> QED
    BY <2>2, <2>3
<1> QED
  BY <1>4, <1>5, <1>6, <1>7, <1>8, <1>9 DEF Inductive

\* The cleanup job deletes records that are dead and that nobody has written.
LEMMA CleanupInv ==
  ASSUME Inductive, Cleanup \/ CleanupFail
  PROVE  Inductive'
<1>1. CASE CleanupDelete
  <2>1. TypeOK' /\ SessionsApart' /\ Exchanged' /\ RevokedHasSuccessor'
    BY <1>1 DEF CleanupDelete, session, Inductive, TypeOK, SessionsApart,
                Exchanged, RevokedHasSuccessor
  <2>2. PurgesDead'
    BY <1>1 DEF CleanupDelete, PurgesDead, Dead
  <2>3. \A r \in Requests : SessionOK(r)'
    BY <1>1 DEF CleanupDelete, session, Inductive, SessionOK
  <2> QED
    BY <2>1, <2>2, <2>3 DEF Inductive
<1>2. CASE CleanupCommit
  <2>1. \A t \in Tokens : rows'[t] = IF t \in purging THEN None ELSE rows[t]
    BY <1>2 DEF CleanupCommit
  <2>2. TypeOK'
    BY <1>2 DEF CleanupCommit, session, Inductive, TypeOK
  <2>3. SessionsApart' /\ PurgesDead'
    BY <1>2 DEF CleanupCommit, session, Inductive, SessionsApart, PurgesDead
  <2>4. Exchanged' /\ RevokedHasSuccessor'
    BY <1>2, <2>1, NoneAssumption
       DEF CleanupCommit, session, Inductive, TypeOK, Exchanged,
           RevokedHasSuccessor
  <2>5. ASSUME NEW r \in Requests PROVE SessionOK(r)'
    <3>1. SessionOK(r) /\ locks[r] \subseteq Tokens
      BY DEF Inductive, TypeOK
    <3> QED
      BY <1>2, <2>1, <3>1 DEF CleanupCommit, session, SessionOK
  <2> QED
    BY <2>2, <2>3, <2>4, <2>5 DEF Inductive
<1>3. CASE CleanupFail
  <2>1. TypeOK' /\ SessionsApart' /\ Exchanged' /\ RevokedHasSuccessor'
    BY <1>3, FailuresAssumption
       DEF CleanupFail, session, Inductive, TypeOK, SessionsApart,
           Exchanged, RevokedHasSuccessor
  <2>2. PurgesDead' /\ \A r \in Requests : SessionOK(r)'
    BY <1>3 DEF CleanupFail, session, Inductive, PurgesDead, SessionOK
  <2> QED
    BY <2>1, <2>2 DEF Inductive
<1> QED
  BY <1>1, <1>2, <1>3 DEF Cleanup

\* A token, then its record, expires.
LEMMA ExpireInv ==
  ASSUME Inductive, NEW t \in Tokens, Expire(t)
  PROVE  Inductive'
<1>1. TypeOK' /\ SessionsApart' /\ Exchanged' /\ RevokedHasSuccessor'
  BY DEF Expire, session, Inductive, TypeOK, SessionsApart, Exchanged,
         RevokedHasSuccessor
<1>2. PurgesDead'
  BY DEF Expire, Inductive, TypeOK, PurgesDead, Dead
<1>3. \A r \in Requests : SessionOK(r)'
  BY DEF Expire, session, Inductive, SessionOK
<1> QED
  BY <1>1, <1>2, <1>3 DEF Inductive
-----------------------------------------------------------------------------
\* Every step of a session, of the cleanup job or of the clock keeps it.
LEMMA NextInv == Inductive /\ [Next]_vars => Inductive'
<1> SUFFICES ASSUME Inductive, [Next]_vars PROVE Inductive'
  OBVIOUS
<1>1. CASE UNCHANGED vars
  <2>1. TypeOK' /\ SessionsApart' /\ Exchanged' /\ RevokedHasSuccessor'
    BY <1>1 DEF vars, session, Inductive, TypeOK, SessionsApart, Exchanged,
                RevokedHasSuccessor
  <2>2. PurgesDead' /\ \A r \in Requests : SessionOK(r)'
    BY <1>1 DEF vars, session, Inductive, PurgesDead, Dead, SessionOK
  <2> QED
    BY <2>1, <2>2 DEF Inductive
<1>2. ASSUME NEW r \in Requests, Fail(r)
      PROVE  Inductive'
  <2>1. failures' \in 0..MaxFailures
    BY <1>2, FailuresAssumption DEF Fail, Inductive, TypeOK
  <2> QED
    BY <1>2, <2>1, CloseInv DEF Fail
<1> QED
  BY <1>1, <1>2, StartInv, RotateInv, MintInv, CommitInv, CleanupInv, ExpireInv
     DEF Next, Step

\* What a session holds at each statement, and what the table says of every
\* token that was exchanged, however sessions and the cleanup interleave.
THEOREM Invariance == Spec => []Inductive
BY InitInv, NextInv, PTL DEF Spec

\* Once the record of a new token is committed, the one it was exchanged for
\* is live no more.
THEOREM RotationTheorem == Spec => []RotationRevokes
<1>1. Inductive => RotationRevokes
  BY DEF Inductive, Exchanged, RotationRevokes
<1> QED
  BY Invariance, <1>1, PTL

\* A record is revoked only together with the successor that replaces it: a
\* refresh that fails half way leaves the record it was about usable.  (Of the
\* records only: a client that never gets the answer is not in the model.)
THEOREM SuccessorTheorem == Spec => []RevokedHasSuccessor
<1>1. Inductive => RevokedHasSuccessor
  BY DEF Inductive
<1> QED
  BY Invariance, <1>1, PTL

\* A call that presents a rotated token goes no further than the SELECT.
THEOREM LateTheorem == Spec => []LateIsRefused
<1>1. Inductive => LateIsRefused
  BY DEF Inductive, Exchanged, LateIsRefused
<1> QED
  BY Invariance, <1>1, PTL

\* No step takes away the record of a token a client could still exchange.
THEOREM UsableTheorem == Spec => UsableStays
<1> DEFINE Stays == \A t \in Tokens : Usable(t) => rows'[t] # None
<1>1. ASSUME Inductive, [Next]_vars PROVE [Stays]_vars
  <2>1. CASE UNCHANGED rows
    BY <2>1, NoneAssumption DEF Usable
  <2>2. CASE CleanupCommit
    BY <1>1, <2>2, NoneAssumption
       DEF CleanupCommit, Inductive, PurgesDead, Dead, Usable
  <2>3. CASE \E r \in Requests : Commit(r)
    BY <2>3, NoneAssumption DEF Commit, Usable
  <2> QED
    BY <1>1, <2>1, <2>2, <2>3
       DEF Next, Step, Login, RefreshDecode, RefreshSelect, RefreshRevoke,
           IssueTokenPair, Answer, Fail, Cleanup, CleanupDelete, CleanupFail,
           Expire, vars
<1> QED
  BY Invariance, <1>1, PTL DEF Spec, UsableStays
=============================================================================
