---------------------------- MODULE MCEnrichment ----------------------------
(***************************************************************************)
(* Instances of Enrichment for TLC: two workers, two requests.             *)
(***************************************************************************)
EXTENDS Enrichment, TLC

\* Each worker has a reply group of its own, as the code intends; or all have
\* one, as the workers that gunicorn forks from one process do.
Apart  == [w \in Workers |-> w]
Forked == [w \in Workers |-> None]

\* The two topics hold four records together: two requests and their replies,
\* or one repeated, be it the request, which is then answered twice, or a reply.
FourRecords == Len(requests) + Len(replies) <= 4

Symmetry == Permutations(Workers) \cup Permutations(Requests)
              \cup Permutations(Ids)
=============================================================================
