-------------------------- MODULE IdempotentCreate --------------------------
(***************************************************************************)
(* The MCP tool create_order and its idempotency cache, in one process.    *)
(*                                                                         *)
(* The cache is a dict from idempotency key to the reference of the order  *)
(* created for it, read before the INSERT and written after the COMMIT,    *)
(* with an `await` at each statement in between.  A dict keeps its keys in *)
(* insertion order, and the oldest goes when there are more than           *)
(* _IDEMPOTENCY_MAX.                                                       *)
(***************************************************************************)
EXTENDS Naturals, FiniteSets, Sequences, SequencesExt

CONSTANTS
  Calls,      \* tool calls of a behaviour, each made once
  Keys,       \* idempotency keys
  Customers,  \* customer ids a call may name
  OrderIds,   \* ids of `orders`: bounds the behaviour
  MaxCache,   \* _IDEMPOTENCY_MAX
  None

ASSUME CacheAssumption == MaxCache \in Nat \ {0}
ASSUME NoneAssumption == None \notin Keys \cup Customers \cup OrderIds

VARIABLES
  orders,   \* the customer of each committed order, None if there is none
  known,    \* the customers that exist
  issued,   \* ids the sequence has handed out
  cached,   \* the keys of the cache, oldest first
  ref,      \* the order each key maps to
  pc, key, customer, order,  \* per call: statement, parameters, new order
  result,   \* the order a call answered with
  \* History:
  madeFor,  \* the key each committed order was created under
  excused   \* keys that overlapped, were evicted or lost their call

store == <<orders, known, issued>>
cache == <<cached, ref>>
calls == <<pc, key, customer, order, result>>
vars  == <<store, cache, calls, madeFor, excused>>

Open == {"insert", "commit", "remember"}

Init ==
  /\ orders = [o \in OrderIds |-> None] /\ known \in SUBSET Customers
  /\ issued = {} /\ cached = <<>> /\ ref = [k \in Keys |-> None]
  /\ pc = [c \in Calls |-> "idle"] /\ key = [c \in Calls |-> None]
  /\ customer = [c \in Calls |-> None] /\ order = [c \in Calls |-> None]
  /\ result = [c \in Calls |-> None]
  /\ madeFor = [o \in OrderIds |-> None] /\ excused = {}

Goto(c, step) == pc' = [pc EXCEPT ![c] = step]

Busy(k) == k # None /\ \E d \in Calls : key[d] = k /\ pc[d] \in Open

\* Mutant: the cache is not asked.
NeverCached(k) == FALSE

\* _idempotency_cache.get
Cached(k) == k # None /\ ref[k] # None

\* A known key answers at once, whatever the customer; another starts the
\* INSERT.  A call without a key is not remembered.
Call(c, k, cust) ==
  /\ pc[c] = "idle"
  /\ key' = [key EXCEPT ![c] = k] /\ customer' = [customer EXCEPT ![c] = cust]
  /\ IF Cached(k)
     THEN /\ Goto(c, "done") /\ result' = [result EXCEPT ![c] = ref[k]]
          /\ UNCHANGED excused
     ELSE /\ Goto(c, "insert") /\ UNCHANGED result
          /\ excused' = IF Busy(k) THEN excused \cup {k} ELSE excused
  /\ UNCHANGED <<store, cache, order, madeFor>>

\* INSERT: no such customer is an IntegrityError, a rollback and NotFound.
InsertOrder(c, o) ==
  /\ pc[c] = "insert" /\ o \notin issued
  /\ issued' = issued \cup {o}
  /\ IF customer[c] \in known
     THEN Goto(c, "commit") /\ order' = [order EXCEPT ![c] = o]
     ELSE Goto(c, "done") /\ UNCHANGED order
  /\ UNCHANGED <<orders, known, cache, key, customer, result, madeFor, excused>>

\* Mutant: the reference is remembered before the commit.
CommitAfterRemember(c) ==
  /\ pc[c] = "commit" /\ Goto(c, "remember")
  /\ IF key[c] # None THEN ref' = [ref EXCEPT ![key[c]] = order[c]]
                             /\ cached' = Append(cached, key[c])
                      ELSE UNCHANGED cache
  /\ UNCHANGED <<store, key, customer, order, result, madeFor, excused>>

\* Mutant: the call goes on without having committed.
NeverCommitted(c) ==
  /\ pc[c] = "commit" /\ Goto(c, "remember")
  /\ UNCHANGED <<store, cache, key, customer, order, result, madeFor, excused>>

CommitOrder(c) ==
  /\ pc[c] = "commit" /\ Goto(c, "remember")
  /\ orders' = [orders EXCEPT ![order[c]] = customer[c]]
  /\ madeFor' = [madeFor EXCEPT ![order[c]] = key[c]]
  /\ UNCHANGED <<known, issued, cache, key, customer, order, result, excused>>

\* Mutant: a key is listed each time it is set.
WithKeyAgain(k) == Append(cached, k)

\* Setting a key that is there keeps its place in the dict.
WithKey(k) == IF Contains(cached, k) THEN cached ELSE Append(cached, k)

\* Mutant: the eviction looks at the size the cache had before the call.
EvictLate(keys) ==
  IF Len(keys) > MaxCache + 1 THEN Head(keys) ELSE None

\* _evict_oldest_if_full: the key that goes, if one does.
Evicted(keys) == IF Len(keys) > MaxCache THEN Head(keys) ELSE None

\* The cache is written, and trimmed, before the next await.
Remember(c) ==
  /\ pc[c] = "remember" /\ Goto(c, "done")
  /\ result' = [result EXCEPT ![c] = order[c]]
  /\ IF key[c] = None
     THEN UNCHANGED <<cache, excused>>
     ELSE LET keys == WithKey(key[c])
              gone == Evicted(keys) IN
            /\ cached' = IF gone = None THEN keys ELSE Tail(keys)
            /\ ref' = [k \in Keys |-> IF k = gone THEN None
                                      ELSE IF k = key[c] THEN order[c]
                                      ELSE ref[k]]
            /\ excused' = excused \cup ({gone} \ {None})
  /\ UNCHANGED <<store, key, customer, order, madeFor>>

\* The client cancels the call or a statement fails: before the commit the
\* transaction is undone, after it only the cache misses the order.
Abort(c) ==
  /\ pc[c] \in Open /\ Goto(c, "failed")
  /\ excused' = IF pc[c] = "remember" /\ key[c] # None
                THEN excused \cup {key[c]} ELSE excused
  /\ UNCHANGED <<store, cache, key, customer, order, result, madeFor>>

\* DELETE /orders/{id} knows nothing of the cache.
DeleteOrder(o) ==
  /\ orders[o] # None
  /\ orders' = [orders EXCEPT ![o] = None]
  /\ UNCHANGED <<known, issued, cache, calls, madeFor, excused>>

Next ==
  \/ \E c \in Calls :
        \/ \E k \in Keys \cup {None}, cust \in Customers : Call(c, k, cust)
        \/ \E o \in OrderIds : InsertOrder(c, o)
        \/ CommitOrder(c) \/ Remember(c) \/ Abort(c)
  \/ \E o \in OrderIds : DeleteOrder(o)

Spec == Init /\ [][Next]_vars
-----------------------------------------------------------------------------
\* The list of keys is the domain of the dict, without repetition.
TypeOK ==
  /\ orders \in [OrderIds -> Customers \cup {None}]
  /\ known \subseteq Customers /\ issued \subseteq OrderIds
  /\ cached \in Seq(Keys) /\ ref \in [Keys -> OrderIds \cup {None}]
  /\ IsInjective(cached)
  /\ \A k \in Keys : Contains(cached, k) <=> ref[k] # None
  /\ pc \in [Calls -> Open \cup {"idle", "done", "failed"}]
  /\ key \in [Calls -> Keys \cup {None}]
  /\ customer \in [Calls -> Customers \cup {None}]
  /\ order \in [Calls -> OrderIds \cup {None}]
  /\ result \in [Calls -> OrderIds \cup {None}]
  /\ madeFor \in [OrderIds -> Keys \cup {None}] /\ excused \subseteq Keys

\* "Bounded so a runaway LLM ... can't OOM the process": the cache never
\* holds more keys than its cap between two events, however calls overlap.
CacheBounded == Len(cached) <= MaxCache

\* The cache only maps a key to an order that was committed for that key;
\* a rolled back or cancelled call leaves no reference behind.
RefsWereCommitted ==
  \A k \in Keys : ref[k] # None => madeFor[ref[k]] = k

\* A key creates one order, unless calls of the key overlapped, the cache
\* evicted it, or its call ended between the commit and the cache.
OneOrderPerKey ==
  \A k \in Keys \ excused :
     Cardinality({o \in OrderIds : madeFor[o] = k}) <= 1

\* Calls answered under one key that is not excused name the same order.
SameKeySameRef ==
  \A c, d \in Calls :
     /\ key[c] \in Keys \ excused /\ key[c] = key[d]
     /\ result[c] # None /\ result[d] # None
     => result[c] = result[d]
\* "the same key sent twice inside one process always returns the same
\* OrderRef" (mcp/tools.py), without the proviso.
AlwaysSameRef ==
  \A c, d \in Calls :
     key[c] # None /\ key[c] = key[d] /\ result[c] # None /\ result[d] # None
     => result[c] = result[d]
-----------------------------------------------------------------------------
(***************************************************************************)
(* The inductive invariant.  It says nothing of a call that is outside its *)
(* INSERT, COMMIT and cache write, so that the calls of other tools, which *)
(* run in the same process, keep it too.                                   *)
(***************************************************************************)

CreateTypeOK ==
  /\ orders \in [OrderIds -> Customers \cup {None}] /\ issued \subseteq OrderIds
  /\ cached \in Seq(Keys) /\ ref \in [Keys -> OrderIds \cup {None}]
  /\ pc = [c \in Calls |-> pc[c]] /\ key \in [Calls -> Keys \cup {None}]
  /\ customer \in [Calls -> Customers \cup {None}]
  /\ order \in [Calls -> OrderIds \cup {None}]
  /\ result \in [Calls -> OrderIds \cup {None}]
  /\ madeFor \in [OrderIds -> Keys \cup {None}] /\ excused \subseteq Keys

\* The list of keys is the domain of the dict, oldest first.
CacheInv ==
  /\ IsInjective(cached) /\ CacheBounded
  /\ \A k \in Keys : Contains(cached, k) <=> ref[k] # None

\* A call works on an order of its own, made for its key when it commits.
Inserted == {c \in Calls : pc[c] \in {"commit", "remember"}}
CallInv ==
  /\ \A c \in Inserted :
        /\ order[c] \in issued
        /\ madeFor[order[c]] = IF pc[c] = "commit" THEN None ELSE key[c]
        /\ \A d \in Inserted : c # d => order[c] # order[d]
  /\ \A o \in OrderIds : madeFor[o] # None => o \in issued
  /\ \A c \in Calls :
        /\ pc[c] \in Open \cup {"idle"} => result[c] = None
        /\ result[c] # None /\ key[c] # None => madeFor[result[c]] = key[c]

\* A key that is not excused has one call at work, or one reference, and the
\* order made for it is the one that call or reference names.
KeyInv ==
  \A k \in Keys \ excused :
     /\ \A c, d \in Calls :
           key[c] = k /\ key[d] = k /\ pc[c] \in Open /\ pc[d] \in Open
              => c = d /\ ref[k] = None
     /\ \A o \in OrderIds : madeFor[o] = k =>
           \/ ref[k] = o
           \/ \E c \in Calls : key[c] = k /\ pc[c] = "remember" /\ order[c] = o

CreateInductive ==
  CreateTypeOK /\ CacheInv /\ RefsWereCommitted /\ CallInv /\ KeyInv
=============================================================================
