----------------------- MODULE IdempotentCreateProofs -----------------------
(***************************************************************************)
(* Proofs about the order tool and its cache, for every number of calls,   *)
(* keys and orders and every size of the cache: the cache is bounded, it   *)
(* names orders that were committed for the key, and a key that is not     *)
(* excused has one order.                                                  *)
(***************************************************************************)
EXTENDS IdempotentCreate, TLAPS, FiniteSetTheorems

\* A key that is not in the dict becomes its last.
LEMMA AppendKey ==
  ASSUME NEW S, NEW s \in Seq(S), NEW k \in S, IsInjective(s), ~Contains(s, k)
  PROVE  /\ Append(s, k) \in Seq(S) /\ Len(Append(s, k)) = Len(s) + 1
         /\ IsInjective(Append(s, k))
         /\ \A x : Contains(Append(s, k), x) <=> (x = k \/ Contains(s, x))
<1>1. /\ Append(s, k) \in Seq(S) /\ Len(Append(s, k)) = Len(s) + 1
      /\ Len(s) \in Nat /\ DOMAIN s = 1 .. Len(s)
      /\ DOMAIN Append(s, k) = 1 .. Len(s) + 1
      /\ \A i \in 1 .. Len(s) : Append(s, k)[i] = s[i]
      /\ Append(s, k)[Len(s) + 1] = k
  OBVIOUS
<1>2. IsInjective(Append(s, k))
  BY <1>1 DEF IsInjective, Contains
<1>3. \A x : Contains(Append(s, k), x) <=> (x = k \/ Contains(s, x))
  BY <1>1 DEF Contains
<1> QED
  BY <1>1, <1>2, <1>3

\* The oldest key goes and the others keep their order.
LEMMA DropOldest ==
  ASSUME NEW S, NEW s \in Seq(S), s # <<>>, IsInjective(s)
  PROVE  /\ Tail(s) \in Seq(S) /\ Len(Tail(s)) = Len(s) - 1 /\ Head(s) \in S
         /\ IsInjective(Tail(s))
         /\ \A x : Contains(Tail(s), x) <=> (x # Head(s) /\ Contains(s, x))
<1>1. /\ Tail(s) \in Seq(S) /\ Len(Tail(s)) = Len(s) - 1 /\ Head(s) = s[1]
      /\ Len(s) \in Nat \ {0} /\ DOMAIN s = 1 .. Len(s) /\ s[1] \in S
      /\ DOMAIN Tail(s) = 1 .. Len(s) - 1
      /\ \A i \in 1 .. Len(s) - 1 : Tail(s)[i] = s[i + 1]
  OBVIOUS
<1>2. IsInjective(Tail(s))
  BY <1>1 DEF IsInjective
<1>3. \A x : Contains(Tail(s), x) <=> (x # Head(s) /\ Contains(s, x))
  <2> SUFFICES ASSUME NEW x
               PROVE  Contains(Tail(s), x) <=> (x # Head(s) /\ Contains(s, x))
    OBVIOUS
  <2>1. ASSUME NEW i \in 1 .. Len(s) - 1, Tail(s)[i] = x
        PROVE  x # Head(s) /\ Contains(s, x)
    BY <1>1, <2>1 DEF IsInjective, Contains
  <2>2. ASSUME NEW i \in 1 .. Len(s), s[i] = x, x # Head(s)
        PROVE  Contains(Tail(s), x)
    <3>1. i - 1 \in 1 .. Len(s) - 1 /\ Tail(s)[i - 1] = x
      BY <1>1, <2>2
    <3> QED
      BY <1>1, <3>1 DEF Contains
  <2> QED
    BY <1>1, <2>1, <2>2 DEF Contains
<1> QED
  BY <1>1, <1>2, <1>3
-----------------------------------------------------------------------------
\* Every initial state satisfies the invariant.
LEMMA CreateInit == Init => CreateInductive
<1> SUFFICES ASSUME Init PROVE CreateInductive
  OBVIOUS
<1>1. CreateTypeOK
  BY DEF Init, CreateTypeOK
<1>2. CacheInv /\ RefsWereCommitted
  BY CacheAssumption
     DEF Init, CacheInv, CacheBounded, RefsWereCommitted, IsInjective, Contains
<1>3. CallInv /\ KeyInv
  BY NoneAssumption DEF Init, CallInv, Inserted, KeyInv, Open
<1> QED
  BY <1>1, <1>2, <1>3 DEF CreateInductive

\* What a call finds: the reference its key has, or no order of that key.
LEMMA CallCreate ==
  ASSUME CreateInductive, NEW c \in Calls, NEW k \in Keys \cup {None},
         NEW cust \in Customers, Call(c, k, cust)
  PROVE  CreateInductive'
<1>1. CreateTypeOK'
  <2>1. /\ UNCHANGED <<orders, issued, cached, ref, order, madeFor>>
        /\ key' = [key EXCEPT ![c] = k] /\ customer' = [customer EXCEPT ![c] = cust]
        /\ pc' = [pc EXCEPT ![c] = pc'[c]]
        /\ \/ result' = result
           \/ k \in Keys /\ result' = [result EXCEPT ![c] = ref[k]]
        /\ \/ excused' = excused
           \/ k \in Keys /\ excused' = excused \cup {k}
    BY DEF Call, Goto, Cached, Busy, store, cache, CreateInductive, CreateTypeOK
  <2> QED
    BY <2>1 DEF CreateInductive, CreateTypeOK
<1>2. CacheInv' /\ RefsWereCommitted'
  BY DEF Call, store, cache, CreateInductive, CacheInv, CacheBounded,
         RefsWereCommitted
<1>3. CallInv'
  <2>1. /\ Inserted' = Inserted /\ UNCHANGED <<order, madeFor, issued>>
        /\ \A d \in Inserted : pc'[d] = pc[d] /\ key'[d] = key[d]
    BY DEF Call, Goto, store, Inserted, CreateInductive, CreateTypeOK
  <2>2. ASSUME NEW d \in Calls
        PROVE  /\ pc'[d] \in Open \cup {"idle"} => result'[d] = None
               /\ result'[d] # None /\ key'[d] # None
                     => madeFor'[result'[d]] = key'[d]
    <3>1. CASE d # c
      BY <3>1 DEF Call, Goto, CreateInductive, CreateTypeOK, CallInv
    <3>2. CASE d = c
      BY <3>2 DEF Call, Goto, Cached, Open, CreateInductive, CreateTypeOK, CallInv,
                  RefsWereCommitted
    <3> QED
      BY <3>1, <3>2
  <2> QED
    BY <2>1, <2>2 DEF CreateInductive, CallInv
<1>4. KeyInv'
  <2> SUFFICES ASSUME NEW j \in Keys \ excused'
               PROVE  /\ \A a, b \in Calls :
                            /\ key'[a] = j /\ key'[b] = j
                            /\ pc'[a] \in Open /\ pc'[b] \in Open
                            => a = b /\ ref'[j] = None
                      /\ \A o \in OrderIds : madeFor'[o] = j =>
                            \/ ref'[j] = o
                            \/ \E a \in Calls : /\ key'[a] = j /\ order'[a] = o
                                                /\ pc'[a] = "remember"
    BY DEF KeyInv
  <2>1. /\ j \notin excused /\ UNCHANGED <<ref, order, madeFor>>
        /\ pc[c] = "idle" /\ key'[c] = k /\ pc'[c] \in {"done", "insert"}
        /\ \A a \in Calls \ {c} : key'[a] = key[a] /\ pc'[a] = pc[a]
    BY DEF Call, Goto, store, cache, CreateInductive, CreateTypeOK
  <2>2. pc'[c] = "insert" /\ k = j =>
           ref[j] = None /\ \A a \in Calls : key[a] = j => pc[a] \notin Open
    BY NoneAssumption
       DEF Call, Goto, Cached, Busy, CreateInductive, CreateTypeOK
  <2> QED
    BY <2>1, <2>2 DEF CreateInductive, KeyInv, Open
<1> QED
  BY <1>1, <1>2, <1>3, <1>4 DEF CreateInductive

\* The INSERT hands out an id that no other call has.
LEMMA InsertCreate ==
  ASSUME CreateInductive, NEW c \in Calls, NEW o \in OrderIds, InsertOrder(c, o)
  PROVE  CreateInductive'
<1>1. /\ pc[c] = "insert" /\ o \notin issued /\ issued' = issued \cup {o}
      /\ UNCHANGED <<orders, cache, key, customer, result, madeFor, excused>>
      /\ pc' = [pc EXCEPT ![c] = pc'[c]] /\ pc'[c] \in {"commit", "done"}
      /\ \/ pc'[c] = "commit" /\ order' = [order EXCEPT ![c] = o]
         \/ pc'[c] = "done" /\ order' = order
  BY DEF InsertOrder, Goto, CreateInductive, CreateTypeOK
<1>2. CreateTypeOK'
  BY <1>1 DEF cache, CreateInductive, CreateTypeOK
<1>3. CacheInv' /\ RefsWereCommitted'
  BY <1>1 DEF cache, CreateInductive, CacheInv, CacheBounded, RefsWereCommitted
<1>4. CallInv'
  <2>1. Inserted' \subseteq Inserted \cup {c} /\ c \notin Inserted
    BY <1>1 DEF Inserted, CreateInductive, CreateTypeOK
  <2>2. \A d \in Inserted : /\ d # c /\ pc'[d] = pc[d] /\ order'[d] = order[d]
                            /\ order[d] \in issued
    BY <1>1, <2>1 DEF Inserted, CreateInductive, CreateTypeOK, CallInv
  <2>3. c \in Inserted' => /\ pc'[c] = "commit" /\ order'[c] = o
                           /\ madeFor'[o] = None /\ o \in issued'
    BY <1>1 DEF Inserted, CreateInductive, CreateTypeOK, CallInv
  <2>4. ASSUME NEW d \in Inserted'
        PROVE  /\ order'[d] \in issued'
               /\ madeFor'[order'[d]] = IF pc'[d] = "commit" THEN None ELSE key'[d]
               /\ \A e \in Inserted' : d # e => order'[d] # order'[e]
    BY <1>1, <2>1, <2>2, <2>3 DEF CreateInductive, CallInv
  <2>5. ASSUME NEW d \in Calls
        PROVE  /\ pc'[d] \in Open \cup {"idle"} => result'[d] = None
               /\ result'[d] # None /\ key'[d] # None
                     => madeFor'[result'[d]] = key'[d]
    BY <1>1 DEF CreateInductive, CreateTypeOK, CallInv, Open
  <2> QED
    BY <1>1, <2>4, <2>5 DEF CreateInductive, CallInv
<1>5. KeyInv'
  <2>1. \A d \in Calls : /\ pc'[d] \in Open => pc[d] \in Open
                         /\ pc[d] = "remember" =>
                               pc'[d] = "remember" /\ order'[d] = order[d]
    BY <1>1 DEF Open, CreateInductive, CreateTypeOK
  <2> QED
    BY <1>1, <2>1 DEF cache, CreateInductive, KeyInv
<1> QED
  BY <1>2, <1>3, <1>4, <1>5 DEF CreateInductive

\* The COMMIT makes the first order of its key, or of one that is excused.
LEMMA CommitCreate ==
  ASSUME CreateInductive, NEW c \in Calls, CommitOrder(c)
  PROVE  CreateInductive'
<1>1. /\ pc[c] = "commit" /\ c \in Inserted
      /\ orders' = [orders EXCEPT ![order[c]] = customer[c]]
      /\ madeFor' = [madeFor EXCEPT ![order[c]] = key[c]]
      /\ pc' = [pc EXCEPT ![c] = "remember"]
      /\ UNCHANGED <<issued, cached, ref, key, customer, order, result, excused>>
  BY DEF CommitOrder, Goto, Inserted, cache
<1>2. order[c] \in OrderIds /\ order[c] \in issued /\ madeFor[order[c]] = None
  BY <1>1 DEF CreateInductive, CreateTypeOK, CallInv
<1>3. CreateTypeOK'
  BY <1>1, <1>2 DEF CreateInductive, CreateTypeOK
<1>4. /\ madeFor'[order[c]] = key[c]
      /\ \A o \in OrderIds : o # order[c] => madeFor'[o] = madeFor[o]
  BY <1>1, <1>2 DEF CreateInductive, CreateTypeOK
<1>5. CacheInv' /\ RefsWereCommitted'
  BY <1>1, <1>2, <1>4, NoneAssumption
     DEF CreateInductive, CreateTypeOK, CacheInv, CacheBounded, RefsWereCommitted
<1>6. CallInv'
  <2>1. Inserted' = Inserted /\ \A d \in Inserted : d # c => pc'[d] = pc[d]
    BY <1>1 DEF Inserted, CreateInductive, CreateTypeOK
  <2>2. pc'[c] = "remember"
    BY <1>1 DEF CreateInductive, CreateTypeOK
  <2>3. ASSUME NEW d \in Inserted
        PROVE  /\ order'[d] \in issued'
               /\ madeFor'[order'[d]] = IF pc'[d] = "commit" THEN None ELSE key'[d]
               /\ \A e \in Inserted : d # e => order'[d] # order'[e]
    <3>1. order[d] \in OrderIds /\ (d # c => order[d] # order[c])
      BY <1>1 DEF CreateInductive, CreateTypeOK, CallInv
    <3> QED
      BY <1>1, <1>4, <2>1, <2>2, <3>1 DEF CreateInductive, CallInv
  <2>4. \A o \in OrderIds : madeFor'[o] # None => o \in issued'
    BY <1>1, <1>2, <1>4 DEF CreateInductive, CallInv
  <2>5. ASSUME NEW d \in Calls
        PROVE  /\ pc'[d] \in Open \cup {"idle"} => result'[d] = None
               /\ result'[d] # None /\ key'[d] # None
                     => madeFor'[result'[d]] = key'[d]
    BY <1>1, <1>2, <1>4
       DEF CreateInductive, CreateTypeOK, CallInv, Open
  <2> QED
    BY <2>1, <2>3, <2>4, <2>5 DEF CallInv
<1>7. KeyInv'
  <2> SUFFICES ASSUME NEW j \in Keys \ excused
               PROVE  /\ \A a, b \in Calls :
                            /\ key[a] = j /\ key[b] = j
                            /\ pc'[a] \in Open /\ pc'[b] \in Open
                            => a = b /\ ref[j] = None
                      /\ \A o \in OrderIds : madeFor'[o] = j =>
                            \/ ref[j] = o
                            \/ \E a \in Calls : /\ key[a] = j /\ order[a] = o
                                                /\ pc'[a] = "remember"
    BY <1>1 DEF KeyInv
  <2>1. \A a \in Calls : /\ pc'[a] \in Open => pc[a] \in Open
                         /\ pc[a] = "remember" => pc'[a] = "remember"
    BY <1>1 DEF Open, CreateInductive, CreateTypeOK
  <2>2. pc'[c] = "remember"
    BY <1>1 DEF CreateInductive, CreateTypeOK
  <2> QED
    BY <1>1, <1>4, <2>1, <2>2 DEF CreateInductive, KeyInv
<1> QED
  BY <1>3, <1>5, <1>6, <1>7 DEF CreateInductive

\* What setting a key, and trimming the cache, make of the dict.
LEMMA CacheSet ==
  ASSUME CreateInductive, NEW k \in Keys
  PROVE  LET keys == WithKey(k)
             gone == Evicted(keys)
             left == IF gone = None THEN keys ELSE Tail(keys)
         IN /\ gone \in Keys \cup {None} /\ gone # k
            /\ left \in Seq(Keys) /\ IsInjective(left) /\ Len(left) <= MaxCache
            /\ \A j \in Keys : Contains(left, j)
                              <=> (j # gone /\ (j = k \/ Contains(cached, j)))
<1> DEFINE keys == WithKey(k)
           gone == Evicted(keys)
           left == IF gone = None THEN keys ELSE Tail(keys)
<1>1. cached \in Seq(Keys) /\ IsInjective(cached) /\ Len(cached) <= MaxCache
      /\ Len(cached) \in Nat /\ MaxCache \in Nat \ {0}
  BY CacheAssumption
     DEF CreateInductive, CreateTypeOK, CacheInv, CacheBounded
<1>2. CASE Contains(cached, k)
  <2>1. keys = cached /\ gone = None /\ left = cached
    BY <1>1, <1>2 DEF WithKey, Evicted
  <2> QED
    BY <1>1, <1>2, <2>1, NoneAssumption
<1>3. CASE ~Contains(cached, k)
  <2> HIDE DEF keys
  <2>1. /\ keys = Append(cached, k) /\ keys \in Seq(Keys)
        /\ Len(keys) = Len(cached) + 1 /\ IsInjective(keys)
        /\ \A x : Contains(keys, x) <=> (x = k \/ Contains(cached, x))
    BY <1>1, <1>3, AppendKey DEF keys, WithKey
  <2>2. CASE Len(keys) <= MaxCache
    <3>1. gone = None /\ left = keys
      BY <1>1, <2>1, <2>2 DEF Evicted
    <3> QED
      BY <2>1, <2>2, <3>1, NoneAssumption DEF keys
  <2>3. CASE Len(keys) > MaxCache
    <3>1. gone = Head(keys) /\ keys # <<>>
      BY <1>1, <2>1, <2>3 DEF Evicted
    <3>2. Tail(keys) \in Seq(Keys) /\ Len(Tail(keys)) = Len(keys) - 1
          /\ Head(keys) \in Keys /\ IsInjective(Tail(keys))
          /\ \A x : Contains(Tail(keys), x) <=> (x # Head(keys) /\ Contains(keys, x))
      BY <2>1, <3>1, DropOldest
    <3>3. left = Tail(keys)
      BY <3>1, <3>2, NoneAssumption
    <3>4. Head(keys) # k
      <4>1. cached # <<>> /\ Head(keys) = cached[1] /\ 1 \in 1 .. Len(cached)
        BY <1>1, <2>1, <2>3
      <4> QED
        BY <1>3, <4>1 DEF Contains
    <3> QED
      BY <1>1, <2>1, <2>3, <3>1, <3>2, <3>3, <3>4 DEF keys
  <2> QED
    BY <1>1, <2>1, <2>2, <2>3
<1> QED
  BY <1>2, <1>3

\* The reference is remembered, and the key that makes room is excused.
LEMMA RememberCreate ==
  ASSUME CreateInductive, NEW c \in Calls, Remember(c)
  PROVE  CreateInductive'
<1>1. /\ pc[c] = "remember" /\ pc' = [pc EXCEPT ![c] = "done"]
      /\ result' = [result EXCEPT ![c] = order[c]]
      /\ UNCHANGED <<orders, issued, key, customer, order, madeFor>>
      /\ c \in Inserted /\ order[c] \in OrderIds
      /\ key[c] \in Keys \cup {None} /\ madeFor[order[c]] = key[c]
  BY DEF Remember, Goto, store, Inserted, CreateInductive, CreateTypeOK, CallInv
<1>2. CallInv'
  <2>1. Inserted' \subseteq Inserted /\ \A d \in Inserted' : pc'[d] = pc[d]
    BY <1>1 DEF Inserted, CreateInductive, CreateTypeOK
  <2>2. ASSUME NEW d \in Calls
        PROVE  /\ pc'[d] \in Open \cup {"idle"} => result'[d] = None
               /\ result'[d] # None /\ key'[d] # None
                     => madeFor'[result'[d]] = key'[d]
    BY <1>1 DEF CreateInductive, CreateTypeOK, CallInv, Open
  <2> QED
    BY <1>1, <2>1, <2>2 DEF CreateInductive, CallInv
<1>3. \A d \in Calls : /\ pc'[d] \in Open => pc[d] \in Open /\ d # c
                       /\ d # c => pc'[d] = pc[d]
  BY <1>1 DEF CreateInductive, CreateTypeOK, Open
<1>4. CASE key[c] = None
  <2>1. UNCHANGED <<cached, ref, excused>>
    BY <1>4 DEF Remember, cache
  <2>2. CreateTypeOK' /\ CacheInv' /\ RefsWereCommitted'
    BY <1>1, <2>1
       DEF CreateInductive, CreateTypeOK, CacheInv, CacheBounded, RefsWereCommitted
  <2>3. KeyInv'
    BY <1>1, <1>3, <1>4, <2>1, NoneAssumption DEF CreateInductive, KeyInv
  <2> QED
    BY <1>2, <2>2, <2>3 DEF CreateInductive
<1>5. CASE key[c] # None
  <2> DEFINE keys == WithKey(key[c])
             gone == Evicted(keys)
             left == IF gone = None THEN keys ELSE Tail(keys)
  <2>1. /\ key[c] \in Keys /\ cached' = left
        /\ ref' = [k \in Keys |-> IF k = gone THEN None
                                  ELSE IF k = key[c] THEN order[c] ELSE ref[k]]
        /\ excused' = excused \cup ({gone} \ {None})
    BY <1>1, <1>5 DEF Remember
  <2>2. /\ gone \in Keys \cup {None} /\ gone # key[c]
        /\ left \in Seq(Keys) /\ IsInjective(left) /\ Len(left) <= MaxCache
        /\ \A j \in Keys : Contains(left, j)
                          <=> (j # gone /\ (j = key[c] \/ Contains(cached, j)))
    BY <2>1, CacheSet
  <2> HIDE DEF keys, gone, left
  <2>3. CreateTypeOK'
    BY <1>1, <2>1, <2>2 DEF CreateInductive, CreateTypeOK
  <2>4. CacheInv'
    BY <1>1, <2>1, <2>2, NoneAssumption
       DEF CreateInductive, CacheInv, CacheBounded
  <2>5. RefsWereCommitted'
    BY <1>1, <2>1 DEF CreateInductive, RefsWereCommitted
  <2>6. KeyInv'
    <3> SUFFICES ASSUME NEW j \in Keys \ excused'
                 PROVE  /\ \A a, b \in Calls :
                              /\ key[a] = j /\ key[b] = j
                              /\ pc'[a] \in Open /\ pc'[b] \in Open
                              => a = b /\ ref'[j] = None
                        /\ \A o \in OrderIds : madeFor[o] = j =>
                              \/ ref'[j] = o
                              \/ \E a \in Calls : /\ key[a] = j /\ order[a] = o
                                                  /\ pc'[a] = "remember"
      BY <1>1 DEF KeyInv
    <3>1. j \notin excused /\ j # gone
      BY <2>1, NoneAssumption
    <3>2. CASE j # key[c]
      <4>1. ref'[j] = ref[j]
        BY <2>1, <3>1, <3>2
      <4>2. \A a, b \in Calls :
               /\ key[a] = j /\ key[b] = j /\ pc'[a] \in Open /\ pc'[b] \in Open
               => a = b /\ ref[j] = None
        BY <1>3, <3>1 DEF CreateInductive, KeyInv
      <4>3. ASSUME NEW o \in OrderIds, madeFor[o] = j, ref[j] # o
            PROVE  \E a \in Calls : key[a] = j /\ order[a] = o /\ pc'[a] = "remember"
        BY <1>3, <3>1, <3>2, <4>3 DEF CreateInductive, KeyInv
      <4> QED
        BY <4>1, <4>2, <4>3
    <3>3. CASE j = key[c]
      <4>1. ref'[j] = order[c]
        BY <2>1, <3>1, <3>3
      <4>2. \A a \in Calls : key[a] = j /\ pc[a] \in Open => a = c /\ ref[j] = None
        BY <1>1, <3>1, <3>3 DEF CreateInductive, KeyInv, Open
      <4>3. c \in Calls /\ pc[c] \in Open /\ ref[j] = None
        BY <1>1, <3>3, <4>2 DEF Open
      <4>4. \A o \in OrderIds : madeFor[o] = j => o = order[c]
        BY <3>1, <3>3, <4>2, <4>3, NoneAssumption
           DEF CreateInductive, KeyInv, Open
      <4>5. \A a \in Calls : ~(key[a] = j /\ pc'[a] \in Open)
        BY <1>3, <4>2
      <4> QED
        BY <4>1, <4>4, <4>5
    <3> QED
      BY <3>2, <3>3
  <2> QED
    BY <1>2, <2>3, <2>4, <2>5, <2>6 DEF CreateInductive
<1> QED
  BY <1>4, <1>5

\* A call that ends early leaves no reference; if it had committed, its key
\* is excused.
LEMMA AbortCreate ==
  ASSUME CreateInductive, NEW c \in Calls, Abort(c)
  PROVE  CreateInductive'
<1>1. /\ pc[c] \in Open /\ pc' = [pc EXCEPT ![c] = "failed"]
      /\ UNCHANGED <<orders, issued, cached, ref, key, customer, order, result,
                     madeFor>>
      /\ excused \subseteq excused' /\ excused' \subseteq Keys
      /\ pc[c] = "remember" /\ key[c] # None => key[c] \in excused'
  BY DEF Abort, Goto, store, cache, CreateInductive, CreateTypeOK
<1>2. \A d \in Calls : /\ pc'[d] \in Open => pc[d] \in Open
                       /\ d # c => pc'[d] = pc[d]
                       /\ pc'[c] = "failed"
  BY <1>1 DEF CreateInductive, CreateTypeOK, Open
<1>3. CreateTypeOK' /\ CacheInv' /\ RefsWereCommitted'
  BY <1>1 DEF CreateInductive, CreateTypeOK, CacheInv, CacheBounded,
              RefsWereCommitted
<1>4. CallInv'
  <2>1. Inserted' \subseteq Inserted /\ \A d \in Inserted' : pc'[d] = pc[d]
    BY <1>2 DEF Inserted
  <2>2. \A d \in Calls : pc'[d] \in Open \cup {"idle"} => pc[d] \in Open \cup {"idle"}
    BY <1>2 DEF Open
  <2> QED
    BY <1>1, <2>1, <2>2 DEF CreateInductive, CallInv
<1>5. KeyInv'
  <2> SUFFICES ASSUME NEW j \in Keys \ excused'
               PROVE  /\ \A a, b \in Calls :
                            /\ key[a] = j /\ key[b] = j
                            /\ pc'[a] \in Open /\ pc'[b] \in Open
                            => a = b /\ ref[j] = None
                      /\ \A o \in OrderIds : madeFor[o] = j =>
                            \/ ref[j] = o
                            \/ \E a \in Calls : /\ key[a] = j /\ order[a] = o
                                                /\ pc'[a] = "remember"
    BY <1>1 DEF KeyInv
  <2>1. j \notin excused
    BY <1>1
  <2>2. ASSUME NEW o \in OrderIds, madeFor[o] = j, ref[j] # o
        PROVE  \E a \in Calls : key[a] = j /\ order[a] = o /\ pc'[a] = "remember"
    <3>1. PICK a \in Calls : key[a] = j /\ pc[a] = "remember" /\ order[a] = o
      BY <2>1, <2>2 DEF CreateInductive, KeyInv
    <3>2. a # c
      BY <1>1, <3>1, NoneAssumption
    <3> QED
      BY <1>2, <3>1, <3>2
  <2> QED
    BY <1>2, <2>1, <2>2 DEF CreateInductive, KeyInv
<1> QED
  BY <1>3, <1>4, <1>5 DEF CreateInductive

\* A call of another tool, which only shares the program counter.
LEMMA OtherCreate ==
  ASSUME CreateInductive, NEW c \in Calls, NEW step,
         pc' = pc \/ (/\ pc' = [pc EXCEPT ![c] = step]
                     /\ pc[c] \notin Open /\ step \notin Open \cup {"idle"}),
         UNCHANGED <<orders, issued, cached, ref, key, customer, order, result,
                     madeFor, excused>>
  PROVE  CreateInductive'
<1>1. \A d \in Calls : /\ pc'[d] \in Open \/ pc[d] \in Open => pc'[d] = pc[d]
                       /\ pc'[d] = "idle" => pc[d] = "idle"
  BY DEF CreateInductive, CreateTypeOK
<1>2. CreateTypeOK' /\ CacheInv' /\ RefsWereCommitted'
  BY DEF CreateInductive, CreateTypeOK, CacheInv, CacheBounded, RefsWereCommitted
<1>3. CallInv'
  <2>1. Inserted' = Inserted /\ \A d \in Inserted' : pc'[d] = pc[d]
    BY <1>1 DEF Inserted, Open
  <2>2. \A d \in Calls : pc'[d] \in Open \cup {"idle"} => pc[d] \in Open \cup {"idle"}
    BY <1>1
  <2> QED
    BY <2>1, <2>2 DEF CreateInductive, CallInv
<1>4. KeyInv'
  BY <1>1 DEF CreateInductive, KeyInv, Open
<1> QED
  BY <1>2, <1>3, <1>4 DEF CreateInductive

\* The REST endpoint that deletes an order touches nothing else.
LEMMA DeleteCreate ==
  ASSUME CreateInductive, NEW o \in OrderIds, DeleteOrder(o)
  PROVE  CreateInductive'
<1>1. /\ orders' = [orders EXCEPT ![o] = None]
      /\ UNCHANGED <<issued, cached, ref, pc, key, customer, order, result, madeFor,
                     excused>>
  BY DEF DeleteOrder, cache, calls
<1>2. CreateTypeOK' /\ CacheInv' /\ RefsWereCommitted'
  BY <1>1 DEF CreateInductive, CreateTypeOK, CacheInv, CacheBounded,
              RefsWereCommitted
<1>3. CallInv' /\ KeyInv'
  BY <1>1 DEF CreateInductive, CallInv, Inserted, KeyInv
<1> QED
  BY <1>2, <1>3 DEF CreateInductive

\* A step that leaves the order tool alone.
LEMMA StutterCreate ==
  ASSUME CreateInductive, UNCHANGED vars
  PROVE  CreateInductive'
<1>1. CreateTypeOK' /\ CacheInv' /\ RefsWereCommitted'
  BY DEF vars, store, cache, calls, CreateInductive, CreateTypeOK, CacheInv,
         CacheBounded, RefsWereCommitted
<1>2. CallInv' /\ KeyInv'
  BY DEF vars, store, cache, calls, CreateInductive, CallInv, Inserted, KeyInv
<1> QED
  BY <1>1, <1>2 DEF CreateInductive
-----------------------------------------------------------------------------
\* No interleaving of calls, failures and deletions leaves the invariant.
THEOREM CreateInvariance == Spec => []CreateInductive
<1>1. CreateInductive /\ [Next]_vars => CreateInductive'
  BY StutterCreate, CallCreate, InsertCreate, CommitCreate, RememberCreate, AbortCreate,
     DeleteCreate DEF Next
<1> QED
  BY CreateInit, <1>1, PTL DEF Spec

\* Two orders made for one key that is not excused are one.
LEMMA OneOrder ==
  ASSUME CreateInductive, NEW k \in Keys \ excused,
         NEW o \in OrderIds, NEW p \in OrderIds, madeFor[o] = k, madeFor[p] = k
  PROVE  o = p
<1>1. \A a, b \in Calls : key[a] = k /\ key[b] = k /\ pc[a] \in Open /\ pc[b] \in Open
                          => a = b /\ ref[k] = None
  BY DEF CreateInductive, KeyInv
<1>2. \A i \in {o, p} : ref[k] = i \/ \E c \in Calls : /\ key[c] = k /\ order[c] = i
                                                    /\ pc[c] \in Open
  BY DEF CreateInductive, KeyInv, Open
<1>3. o # None /\ p # None
  BY NoneAssumption
<1> QED
  BY <1>1, <1>2, <1>3

\* A key that is not excused has at most one order.
LEMMA KeyHasOneOrder == CreateInductive => OneOrderPerKey
<1> SUFFICES ASSUME CreateInductive, NEW k \in Keys \ excused
             PROVE  Cardinality({o \in OrderIds : madeFor[o] = k}) <= 1
  BY DEF OneOrderPerKey
<1> DEFINE made == {o \in OrderIds : madeFor[o] = k}
<1>1. CASE made = {}
  BY <1>1, FS_EmptySet
<1>2. CASE made # {}
  <2>1. PICK o \in OrderIds : made = {o}
    BY <1>2, OneOrder
  <2> HIDE DEF made
  <2>2. Cardinality(made) = 1
    BY <2>1, FS_Singleton
  <2> QED
    BY <2>2 DEF made
<1> QED
  BY <1>1, <1>2

\* Calls of one key that is not excused get one reference.
LEMMA KeyHasOneRef == CreateInductive => SameKeySameRef
<1> SUFFICES ASSUME CreateInductive, NEW c \in Calls, NEW d \in Calls,
                    key[c] \in Keys \ excused, key[c] = key[d],
                    result[c] # None, result[d] # None
             PROVE  result[c] = result[d]
  BY DEF SameKeySameRef
<1>1. /\ result[c] \in OrderIds /\ result[d] \in OrderIds
      /\ madeFor[result[c]] = key[c] /\ madeFor[result[d]] = key[c]
  BY NoneAssumption DEF CreateInductive, CreateTypeOK, CallInv
<1> QED
  BY <1>1, OneOrder

\* The cache never holds more keys than its cap, however calls overlap.
THEOREM CacheTheorem == Spec => []CacheBounded
<1>1. CreateInductive => CacheBounded
  BY DEF CreateInductive, CacheInv
<1> QED
  BY CreateInvariance, <1>1, PTL

\* The cache never names an order that was not committed for the key.
THEOREM RefsTheorem == Spec => []RefsWereCommitted
<1>1. CreateInductive => RefsWereCommitted
  BY DEF CreateInductive
<1> QED
  BY CreateInvariance, <1>1, PTL

\* One key creates one order, unless its calls overlapped, the cache evicted
\* it, or its call ended between the commit and the cache.
THEOREM OneOrderTheorem == Spec => []OneOrderPerKey
BY CreateInvariance, KeyHasOneOrder, PTL

\* A retry of a key that is not excused answers with the same order.
THEOREM SameRefTheorem == Spec => []SameKeySameRef
BY CreateInvariance, KeyHasOneRef, PTL
=============================================================================
