-------------------------- MODULE ChurnRulesProofs --------------------------
(***************************************************************************)
(* Proofs about the features of the churn prediction, for histories of     *)
(* every length: what the service computes in one pass over the rows is    *)
(* what the training computes from tables.  A fold is followed through its *)
(* prefixes.  An induction is here a set of numbers that holds 0 and the   *)
(* successor of each of its elements.                                      *)
(***************************************************************************)
EXTENDS ChurnRules, FiniteSetTheorems, TLAPS

\* Induction over the natural numbers, stated of the set of those with a
\* property.
LEMMA NatSet ==
  ASSUME NEW T \in SUBSET Nat, 0 \in T, \A n \in T : n + 1 \in T
  PROVE  T = Nat
<1> SUFFICES ASSUME T # Nat PROVE FALSE
  OBVIOUS
<1> DEFINE rest == Nat \ T
<1>1. PICK n \in rest : \A m \in rest : ~(<<m, n>> \in OpToRel(<, Nat))
  BY NatLessThanWellFounded, WFMin
<1>2. \A m \in rest : ~(m < n)
  BY <1>1 DEF OpToRel
<1>3. n # 0 /\ n - 1 \in Nat /\ n - 1 < n
  OBVIOUS
<1>4. n - 1 \in T
  BY <1>2, <1>3
<1> QED
  BY <1>3, <1>4

\* The first n positive numbers are n.
LEMMA Counting ==
  ASSUME NEW n \in Nat
  PROVE  IsFiniteSet(1 .. n) /\ Cardinality(1 .. n) = n
<1>1. 1 \in Int /\ n \in Int
  OBVIOUS
<1>2. /\ IsFiniteSet(1 .. n)
      /\ Cardinality(1 .. n) = IF 1 > n THEN 0 ELSE n - 1 + 1
  BY <1>1, FS_Interval
<1> QED
  BY <1>2

\* h folds D: of the empty set it is the base, and of any other set it is got
\* from the element that C picks and from h of the rest.
Picks(C, D) == \A s \in SUBSET D : s # {} => C[s] \in s
Folds(h, D, C, base, step) ==
  \A s \in SUBSET D :
     h[s] = IF s = {} THEN base ELSE step[<<h[s \ {C[s]}], C[s]>>]

\* There is such a function.
LEMMA FoldExists ==
  ASSUME NEW D, IsFiniteSet(D), NEW C, Picks(C, D),
         NEW V, NEW base \in V, NEW step \in [V \X D -> V]
  PROVE  \E h \in [SUBSET D -> V] : Folds(h, D, C, base, step)
<1> DEFINE Solves(h, s) ==
             h[s] = IF s = {} THEN base ELSE step[<<h[s \ {C[s]}], C[s]>>]
           T == {n \in Nat : \E h \in [SUBSET D -> V] : \A s \in SUBSET D :
                               Cardinality(s) <= n => Solves(h, s)}
<1>1. \A s \in SUBSET D : IsFiniteSet(s) /\ Cardinality(s) \in Nat
  BY FS_Subset, FS_CardinalityType
<1>2. \A s \in SUBSET D : s # {} =>
        /\ C[s] \in D /\ s \ {C[s]} \in SUBSET D
        /\ Cardinality(s \ {C[s]}) = Cardinality(s) - 1
  BY <1>1, FS_RemoveElement DEF Picks
<1>3. 0 \in T
  <2> DEFINE h == [s \in SUBSET D |-> base]
  <2>1. h \in [SUBSET D -> V]
    OBVIOUS
  <2>2. ASSUME NEW s \in SUBSET D, Cardinality(s) <= 0 PROVE Solves(h, s)
    <3>1. s = {}
      BY <1>1, <2>2, FS_EmptySet
    <3> QED
      BY <3>1
  <2> HIDE DEF h
  <2> QED
    BY <2>1, <2>2
<1>4. ASSUME NEW n \in T PROVE n + 1 \in T
  <2>1. PICK h \in [SUBSET D -> V] : \A s \in SUBSET D :
          Cardinality(s) <= n => Solves(h, s)
    BY <1>4
  <2> DEFINE g == [s \in SUBSET D |-> IF Cardinality(s) <= n THEN h[s]
                    ELSE IF s = {} THEN base ELSE step[<<h[s \ {C[s]}], C[s]>>]]
  <2>2. g \in [SUBSET D -> V]
    BY <1>2
  <2>3. ASSUME NEW s \in SUBSET D, Cardinality(s) <= n + 1 PROVE Solves(g, s)
    <3>1. CASE s = {}
      BY <2>1, <3>1
    <3>2. CASE s # {}
      <4> DEFINE rest == s \ {C[s]}
      <4>1. rest \in SUBSET D /\ Cardinality(rest) <= n
        BY <1>1, <1>2, <2>3, <3>2
      <4>2. g[rest] = h[rest]
        BY <4>1
      <4>3. g[s] = step[<<h[rest], C[s]>>]
        <5>1. CASE Cardinality(s) <= n
          BY <2>1, <3>2, <5>1
        <5>2. CASE ~(Cardinality(s) <= n)
          BY <3>2, <5>2
        <5> QED
          BY <5>1, <5>2
      <4> QED
        BY <3>2, <4>2, <4>3
    <3> QED
      BY <3>1, <3>2
  <2>4. n + 1 \in Nat
    BY <1>4
  <2> HIDE DEF g, Solves
  <2> QED
    BY <2>2, <2>3, <2>4
<1>5. T = Nat
  <2> HIDE DEF T
  <2>1. T \in SUBSET Nat
    BY DEF T
  <2> QED
    BY <1>3, <1>4, <2>1, NatSet
<1>6. Cardinality(D) \in T /\ \A s \in SUBSET D : Cardinality(s) <= Cardinality(D)
  BY <1>1, <1>5, FS_Subset
<1> QED
  BY <1>6 DEF Folds

\* A finite set of integers has a largest element.
LEMMA MaxExists ==
  ASSUME NEW S \in SUBSET Int, IsFiniteSet(S), S # {}
  PROVE  Max(S) \in S /\ \A y \in S : y <= Max(S)
<1> DEFINE HasMax(U) == \E x \in U : \A y \in U : y <= x
           T == {n \in Nat : \A U \in SUBSET S :
                   U # {} /\ Cardinality(U) <= n => HasMax(U)}
<1>1. \A U \in SUBSET S : IsFiniteSet(U) /\ Cardinality(U) \in Nat
  BY FS_Subset, FS_CardinalityType
<1>2. 0 \in T
  <2>1. \A U \in SUBSET S : Cardinality(U) <= 0 => U = {}
    BY <1>1, FS_EmptySet
  <2> QED
    BY <2>1
<1>3. ASSUME NEW n \in T PROVE n + 1 \in T
  <2>1. ASSUME NEW U \in SUBSET S, U # {}, Cardinality(U) <= n + 1
        PROVE  HasMax(U)
    <3>1. PICK x \in U : TRUE
      BY <2>1
    <3>2. CASE U \ {x} = {}
      BY <3>1, <3>2
    <3>3. CASE U \ {x} # {}
      <4>1. Cardinality(U \ {x}) = Cardinality(U) - 1
        BY <1>1, FS_RemoveElement
      <4>2. U \ {x} \in SUBSET S /\ Cardinality(U \ {x}) <= n
        BY <1>1, <2>1, <4>1
      <4>3. PICK z \in U \ {x} : \A y \in U \ {x} : y <= z
        BY <1>3, <3>3, <4>2
      <4>4. x \in Int /\ z \in Int /\ \A y \in U : y \in Int
        OBVIOUS
      <4> QED
        BY <4>3, <4>4
    <3> QED
      BY <3>2, <3>3
  <2>2. n + 1 \in Nat
    BY <1>3
  <2> HIDE DEF HasMax
  <2> QED
    BY <2>1, <2>2
<1>4. T = Nat
  <2> HIDE DEF T
  <2>1. T \in SUBSET Nat
    BY DEF T
  <2> QED
    BY <1>2, <1>3, <2>1, NatSet
<1>5. HasMax(S)
  BY <1>1, <1>4
<1>6. \A x \in S : \A y \in S : x >= y <=> y <= x
  OBVIOUS
<1> QED
  BY <1>5, <1>6 DEF Max

\* The elements of a sequence are folded from the last index downwards.
LEMMA MaxOfPrefix ==
  ASSUME NEW k \in Nat \ {0}
  PROVE  Max(1 .. k) = k /\ (1 .. k) \ {k} = 1 .. (k - 1)
<1>1. 1 .. k \in SUBSET Int /\ 1 .. k # {} /\ k \in 1 .. k
  OBVIOUS
<1>2. IsFiniteSet(1 .. k)
  BY FS_Interval
<1>3. Max(1 .. k) \in 1 .. k /\ k <= Max(1 .. k)
  BY <1>1, <1>2, MaxExists
<1> QED
  BY <1>3

\* What a loop over the first n indices needs to know of its prefixes.
LEMMA IndexPrefixes ==
  ASSUME NEW n \in Nat
  PROVE  /\ n \in 0 .. n /\ 0 \in 0 .. n /\ 1 .. 0 \in SUBSET (1 .. n) /\ 1 .. 0 = {}
         /\ \A k \in 1 .. n : /\ k \in 0 .. n /\ k - 1 \in 0 .. n
                             /\ 1 .. k \in SUBSET (1 .. n) /\ 1 .. k # {}
                             /\ Max(1 .. k) = k /\ (1 .. k) \ {k} = 1 .. (k - 1)
<1>1. ASSUME NEW k \in 1 .. n PROVE Max(1 .. k) = k /\ (1 .. k) \ {k} = 1 .. (k - 1)
  <2>1. k \in Nat \ {0}
    OBVIOUS
  <2> QED
    BY <2>1, MaxOfPrefix
<1>2. ASSUME NEW k \in 1 .. n
      PROVE  /\ 1 .. k \in SUBSET (1 .. n) /\ 1 .. k # {}
             /\ k \in 0 .. n /\ k - 1 \in 0 .. n
  OBVIOUS
<1>3. n \in 0 .. n /\ 0 \in 0 .. n /\ 1 .. 0 \in SUBSET (1 .. n) /\ 1 .. 0 = {}
  OBVIOUS
<1> QED
  BY <1>1, <1>2, <1>3

\* So has the recursion of a fold over the indices of a sequence, in which
\* the largest is picked.
LeftFolds(h, n, base, step) ==
  \A s \in SUBSET (1 .. n) :
     /\ s # {} => Max(s) \in 1 .. n /\ s \ {Max(s)} \in SUBSET (1 .. n)
     /\ h[s] = IF s = {} THEN base ELSE step[<<h[s \ {Max(s)}], Max(s)>>]
LEMMA LeftFoldExists ==
  ASSUME NEW n \in Nat, NEW V, NEW base \in V, NEW step \in [V \X (1 .. n) -> V]
  PROVE  \E h \in [SUBSET (1 .. n) -> V] : LeftFolds(h, n, base, step)
<1> DEFINE D == 1 .. n
           C == [s \in SUBSET D |-> Max(s)]
<1>1. IsFiniteSet(D)
  BY FS_Interval
<1>2. \A s \in SUBSET D : s # {} => Max(s) \in s
  <2>1. ASSUME NEW s \in SUBSET D, s # {} PROVE Max(s) \in s
    <3>1. IsFiniteSet(s)
      BY <1>1, FS_Subset
    <3>2. s \in SUBSET Int
      OBVIOUS
    <3> QED
      BY <2>1, <3>1, <3>2, MaxExists
  <2> QED
    BY <2>1
<1>3. \A s \in SUBSET D : C[s] = Max(s)
  OBVIOUS
<1> HIDE DEF C
<1>4. PICK h \in [SUBSET D -> V] : Folds(h, D, C, base, step)
  <2>1. Picks(C, D)
    BY <1>2, <1>3 DEF Picks
  <2>2. step \in [V \X D -> V]
    OBVIOUS
  <2> HIDE DEF D
  <2> QED
    BY <1>1, <2>1, <2>2, FoldExists
<1>5. \A s \in SUBSET D :
        /\ s # {} => Max(s) \in D /\ s \ {Max(s)} \in SUBSET D
        /\ h[s] = IF s = {} THEN base ELSE step[<<h[s \ {Max(s)}], Max(s)>>]
  <2> HIDE DEF D
  <2> QED
    BY <1>2, <1>3, <1>4 DEF Folds
<1> QED
  BY <1>4, <1>5 DEF LeftFolds
-----------------------------------------------------------------------------
(***************************************************************************)
(* The folds of inference.py as loops: acc[k] is what the loop has after   *)
(* its first k orders.                                                     *)
(***************************************************************************)

\* _sum_revenue_within adds the amount of an order that is not too old.
RevenueRun(acc, orders, n, now, window) ==
  /\ acc[0] = 0 /\ acc[n] = SumRevenueWithin(orders, now, window)
  /\ \A k \in 1 .. n : acc[k] = IF orders[k].at < now - window * Day
                                THEN acc[k - 1] ELSE acc[k - 1] + orders[k].amount
LEMMA RevenueLoop ==
  ASSUME NEW n \in Nat, NEW orders, DOMAIN orders = 1 .. n,
         \A i \in 1 .. n : orders[i].amount \in Int,
         NEW now, NEW window
  PROVE  \E acc : RevenueRun(acc, orders, n, now, window)
<1> DEFINE D == 1 .. n
           Solves(h) == h = [s \in SUBSET D |->
              IF s = {} THEN 0 ELSE IF orders[Max(s)].at < now - window * Day THEN h[s \ {Max(s)}] ELSE h[s \ {Max(s)}] + orders[Max(s)].amount]
           g == CHOOSE h : Solves(h)
           step == [p \in Int \X D |-> IF orders[p[2]].at < now - window * Day THEN p[1] ELSE p[1] + orders[p[2]].amount]
           acc == [k \in 0 .. n |-> g[1 .. k]]
<1>1. SumRevenueWithin(orders, now, window) = g[D]
  BY DEF SumRevenueWithin, FoldLeft, MapThenFoldSet
<1>2. \E h : Solves(h)
  <2>1. 0 \in Int
    OBVIOUS
  <2>2. step \in [Int \X D -> Int]
    OBVIOUS
  <2> HIDE DEF step
  <2>3. PICK h \in [SUBSET D -> Int] : LeftFolds(h, n, 0, step)
    BY <2>1, <2>2, LeftFoldExists, Zenon
  <2>4. \A s \in SUBSET D : s # {} => h[s] = IF orders[Max(s)].at < now - window * Day THEN h[s \ {Max(s)}] ELSE h[s \ {Max(s)}] + orders[Max(s)].amount
    <3> HIDE DEF D
    <3> QED
      BY <2>3 DEF step, LeftFolds, D
  <2>5. h = [s \in SUBSET D |-> h[s]]
    BY <2>3
  <2>6. \A s \in SUBSET D : h[s] = IF s = {} THEN 0 ELSE IF orders[Max(s)].at < now - window * Day THEN h[s \ {Max(s)}] ELSE h[s \ {Max(s)}] + orders[Max(s)].amount
    BY <2>3, <2>4 DEF LeftFolds
  <2> QED
    BY <2>5, <2>6
<1>3. Solves(g)
  <2> HIDE DEF Solves
  <2> QED
    BY <1>2
<1> HIDE DEF g
<1>4. g[1 .. 0] = 0
  BY <1>3, IndexPrefixes
<1>5. ASSUME NEW k \in 1 .. n
      PROVE  g[1 .. k] = IF orders[k].at < now - window * Day THEN g[1 .. (k - 1)] ELSE g[1 .. (k - 1)] + orders[k].amount
  <2>1. /\ 1 .. k \in SUBSET D /\ 1 .. k # {}
        /\ Max(1 .. k) = k /\ (1 .. k) \ {k} = 1 .. (k - 1)
    BY IndexPrefixes
  <2> HIDE DEF D
  <2> QED
    BY <1>3, <2>1
<1>6. acc[0] = 0 /\ acc[n] = SumRevenueWithin(orders, now, window)
  BY <1>1, <1>4, IndexPrefixes
<1>7. \A k \in 1 .. n : acc[k] = IF orders[k].at < now - window * Day THEN acc[k - 1] ELSE acc[k - 1] + orders[k].amount
  BY <1>5, IndexPrefixes
<1> HIDE DEF acc
<1> QED
  BY <1>6, <1>7 DEF RevenueRun

\* The search for the newest order keeps the later of two times.
NewestRun(acc, orders, n) ==
  /\ acc[0] = Head(orders).at /\ acc[n] = NewestAt(orders)
  /\ \A k \in 1 .. n : acc[k] = Larger(acc[k - 1], orders[k].at)
LEMMA NewestLoop ==
  ASSUME NEW n \in Nat, NEW orders, DOMAIN orders = 1 .. n, Head(orders).at \in Int,
         \A i \in 1 .. n : orders[i].at \in Int
  PROVE  \E acc : NewestRun(acc, orders, n)
<1> DEFINE D == 1 .. n
           Solves(h) == h = [s \in SUBSET D |->
              IF s = {} THEN Head(orders).at ELSE Larger(h[s \ {Max(s)}], orders[Max(s)].at)]
           g == CHOOSE h : Solves(h)
           step == [p \in Int \X D |-> Larger(p[1], orders[p[2]].at)]
           acc == [k \in 0 .. n |-> g[1 .. k]]
<1>1. NewestAt(orders) = g[D]
  BY DEF NewestAt, FoldLeft, MapThenFoldSet
<1>2. \E h : Solves(h)
  <2>1. Head(orders).at \in Int
    OBVIOUS
  <2>2. step \in [Int \X D -> Int]
    BY DEF Larger
  <2> HIDE DEF step
  <2>3. PICK h \in [SUBSET D -> Int] : LeftFolds(h, n, Head(orders).at, step)
    BY <2>1, <2>2, LeftFoldExists, Zenon
  <2>4. \A s \in SUBSET D : s # {} => h[s] = Larger(h[s \ {Max(s)}], orders[Max(s)].at)
    <3> HIDE DEF D
    <3> QED
      BY <2>3 DEF step, LeftFolds, D
  <2>5. h = [s \in SUBSET D |-> h[s]]
    BY <2>3
  <2>6. \A s \in SUBSET D : h[s] = IF s = {} THEN Head(orders).at ELSE Larger(h[s \ {Max(s)}], orders[Max(s)].at)
    BY <2>3, <2>4 DEF LeftFolds
  <2> QED
    BY <2>5, <2>6
<1>3. Solves(g)
  <2> HIDE DEF Solves
  <2> QED
    BY <1>2
<1> HIDE DEF g
<1>4. g[1 .. 0] = Head(orders).at
  BY <1>3, IndexPrefixes
<1>5. ASSUME NEW k \in 1 .. n
      PROVE  g[1 .. k] = Larger(g[1 .. (k - 1)], orders[k].at)
  <2>1. /\ 1 .. k \in SUBSET D /\ 1 .. k # {}
        /\ Max(1 .. k) = k /\ (1 .. k) \ {k} = 1 .. (k - 1)
    BY IndexPrefixes
  <2> HIDE DEF D
  <2> QED
    BY <1>3, <2>1
<1>6. acc[0] = Head(orders).at /\ acc[n] = NewestAt(orders)
  BY <1>1, <1>4, IndexPrefixes
<1>7. \A k \in 1 .. n : acc[k] = Larger(acc[k - 1], orders[k].at)
  BY <1>5, IndexPrefixes
<1> HIDE DEF acc
<1> QED
  BY <1>6, <1>7 DEF NewestRun

\* The lines of the orders are put one after the other.
ProductsRun(acc, orders, n) ==
  /\ acc[0] = <<>> /\ acc[n] = ProductsOf(orders)
  /\ \A k \in 1 .. n : acc[k] = acc[k - 1] \o orders[k].products
LEMMA ProductsLoop ==
  ASSUME NEW n \in Nat, NEW orders, DOMAIN orders = 1 .. n, NEW P,
         \A i \in 1 .. n : orders[i].products \in Seq(P)
  PROVE  \E acc : ProductsRun(acc, orders, n)
<1> DEFINE D == 1 .. n
           Solves(h) == h = [s \in SUBSET D |->
              IF s = {} THEN <<>> ELSE h[s \ {Max(s)}] \o orders[Max(s)].products]
           g == CHOOSE h : Solves(h)
           step == [p \in Seq(P) \X D |-> p[1] \o orders[p[2]].products]
           acc == [k \in 0 .. n |-> g[1 .. k]]
<1>1. ProductsOf(orders) = g[D]
  BY DEF ProductsOf, FoldLeft, MapThenFoldSet
<1>2. \E h : Solves(h)
  <2>1. <<>> \in Seq(P)
    OBVIOUS
  <2>2. step \in [Seq(P) \X D -> Seq(P)]
    OBVIOUS
  <2> HIDE DEF step
  <2>3. PICK h \in [SUBSET D -> Seq(P)] : LeftFolds(h, n, <<>>, step)
    BY <2>1, <2>2, LeftFoldExists, Zenon
  <2>4. \A s \in SUBSET D : s # {} => h[s] = h[s \ {Max(s)}] \o orders[Max(s)].products
    <3> HIDE DEF D
    <3> QED
      BY <2>3 DEF step, LeftFolds, D
  <2>5. h = [s \in SUBSET D |-> h[s]]
    BY <2>3
  <2>6. \A s \in SUBSET D : h[s] = IF s = {} THEN <<>> ELSE h[s \ {Max(s)}] \o orders[Max(s)].products
    BY <2>3, <2>4 DEF LeftFolds
  <2> QED
    BY <2>5, <2>6
<1>3. Solves(g)
  <2> HIDE DEF Solves
  <2> QED
    BY <1>2
<1> HIDE DEF g
<1>4. g[1 .. 0] = <<>>
  BY <1>3, IndexPrefixes
<1>5. ASSUME NEW k \in 1 .. n
      PROVE  g[1 .. k] = g[1 .. (k - 1)] \o orders[k].products
  <2>1. /\ 1 .. k \in SUBSET D /\ 1 .. k # {}
        /\ Max(1 .. k) = k /\ (1 .. k) \ {k} = 1 .. (k - 1)
    BY IndexPrefixes
  <2> HIDE DEF D
  <2> QED
    BY <1>3, <2>1
<1>6. acc[0] = <<>> /\ acc[n] = ProductsOf(orders)
  BY <1>1, <1>4, IndexPrefixes
<1>7. \A k \in 1 .. n : acc[k] = acc[k - 1] \o orders[k].products
  BY <1>5, IndexPrefixes
<1> HIDE DEF acc
<1> QED
  BY <1>6, <1>7 DEF ProductsRun
-----------------------------------------------------------------------------
(***************************************************************************)
(* Sums over sets of indices.                                              *)
(***************************************************************************)
\* h adds f over the subsets of D: nothing is 0, and of a set that is not
\* empty an element is added to the rest.
Adds(h, f, D) ==
  /\ h[{}] = 0
  /\ \A s \in SUBSET D : s # {} =>
       h[s] = f[CHOOSE x \in s : TRUE] + h[s \ {CHOOSE x \in s : TRUE}]
Sums(h, f, D) ==
  /\ IsFiniteSet(D) /\ \A x \in D : f[x] \in Int
  /\ h \in [SUBSET D -> Int] /\ Adds(h, f, D)

\* There is one function of such sums.
LEMMA SumsExist ==
  ASSUME NEW D, IsFiniteSet(D), NEW f, \A x \in D : f[x] \in Int
  PROVE  \E h : Sums(h, f, D)
<1> DEFINE C == [s \in SUBSET D |-> CHOOSE x \in s : TRUE]
           step == [p \in Int \X D |-> f[p[2]] + p[1]]
<1>1. \A s \in SUBSET D : s # {} => (CHOOSE x \in s : TRUE) \in s
  OBVIOUS
<1>2. \A s \in SUBSET D : C[s] = CHOOSE x \in s : TRUE
  OBVIOUS
<1>3. step \in [Int \X D -> Int] /\ 0 \in Int
  OBVIOUS
<1>4. Picks(C, D)
  BY <1>1 DEF Picks
<1> HIDE DEF C, step
<1>5. PICK h \in [SUBSET D -> Int] : Folds(h, D, C, 0, step)
  BY <1>3, <1>4, FoldExists, Zenon
<1>6. ASSUME NEW s \in SUBSET D, s # {}
      PROVE  h[s] = f[CHOOSE x \in s : TRUE] + h[s \ {CHOOSE x \in s : TRUE}]
  <2> DEFINE x == CHOOSE y \in s : TRUE
  <2>1. x \in s /\ C[s] = x
    BY <1>1, <1>2, <1>6
  <2>2. h[s] = step[<<h[s \ {x}], x>>]
    BY <1>5, <1>6, <2>1 DEF Folds
  <2> HIDE DEF x
  <2>3. h[s \ {x}] \in Int /\ x \in D
    BY <2>1
  <2>4. h[s] = f[x] + h[s \ {x}]
    BY <2>2, <2>3 DEF step
  <2> QED
    BY <2>4 DEF x
<1>7. h[{}] = 0
  BY <1>5 DEF Folds
<1> QED
  BY <1>5, <1>6, <1>7 DEF Sums, Adds

\* Two functions of such sums agree.
LEMMA SumsAgree ==
  ASSUME NEW D, NEW f, NEW h, Sums(h, f, D), NEW S \in SUBSET D, NEW g, Adds(g, f, S)
  PROVE  g[S] = h[S]
<1> DEFINE T == {n \in Nat : \A s \in SUBSET S : Cardinality(s) <= n => g[s] = h[s]}
<1>1. \A s \in SUBSET D : IsFiniteSet(s) /\ Cardinality(s) \in Nat
  BY FS_Subset, FS_CardinalityType DEF Sums
<1>2. 0 \in T
  <2>1. \A s \in SUBSET S : Cardinality(s) <= 0 => s = {}
    BY <1>1, FS_EmptySet
  <2> QED
    BY <2>1 DEF Sums, Adds
<1>3. ASSUME NEW n \in T PROVE n + 1 \in T
  <2>1. ASSUME NEW s \in SUBSET S, Cardinality(s) <= n + 1 PROVE g[s] = h[s]
    <3>1. CASE s = {}
      BY <3>1 DEF Sums, Adds
    <3>2. CASE s # {}
      <4> DEFINE x == CHOOSE y \in s : TRUE
      <4>1. x \in s
        BY <3>2
      <4>2. g[s] = f[x] + g[s \ {x}] /\ h[s] = f[x] + h[s \ {x}]
        BY <3>2 DEF Sums, Adds
      <4> HIDE DEF x
      <4>3. Cardinality(s \ {x}) = Cardinality(s) - 1
        BY <1>1, <4>1, FS_RemoveElement
      <4>4. g[s \ {x}] = h[s \ {x}]
        BY <1>1, <1>3, <2>1, <4>3
      <4> QED
        BY <4>2, <4>4
    <3> QED
      BY <3>1, <3>2
  <2>2. n + 1 \in Nat
    BY <1>3
  <2> QED
    BY <2>1, <2>2
<1>4. T = Nat
  <2> HIDE DEF T
  <2>1. T \in SUBSET Nat
    BY DEF T
  <2> QED
    BY <1>2, <1>3, <2>1, NatSet
<1> QED
  BY <1>1, <1>4

\* Whichever element is taken out, its value is what the sum loses.
LEMMA SumsRest ==
  ASSUME NEW D, NEW f, NEW h, Sums(h, f, D), NEW S \in SUBSET D, NEW e \in S
  PROVE  h[S] = f[e] + h[S \ {e}]
<1> DEFINE Splits(s) == \A x \in s : h[s] = f[x] + h[s \ {x}]
           T == {n \in Nat : \A s \in SUBSET D : Cardinality(s) <= n => Splits(s)}
<1>1. \A s \in SUBSET D : IsFiniteSet(s) /\ Cardinality(s) \in Nat
  BY FS_Subset, FS_CardinalityType DEF Sums
<1>2. 0 \in T
  <2>1. \A s \in SUBSET D : Cardinality(s) <= 0 => s = {}
    BY <1>1, FS_EmptySet
  <2> QED
    BY <2>1
<1>3. ASSUME NEW n \in T PROVE n + 1 \in T
  <2>1. ASSUME NEW s \in SUBSET D, Cardinality(s) <= n + 1, NEW x \in s
        PROVE  h[s] = f[x] + h[s \ {x}]
    <3> DEFINE y == CHOOSE z \in s : TRUE
    <3>1. y \in s
      OBVIOUS
    <3>2. h[s] = f[y] + h[s \ {y}]
      BY <3>1 DEF Sums, Adds
    <3> HIDE DEF y
    <3>3. CASE x = y
      BY <3>2, <3>3
    <3>4. CASE x # y
      <4>1. /\ Cardinality(s \ {x}) = Cardinality(s) - 1
            /\ Cardinality(s \ {y}) = Cardinality(s) - 1
        BY <1>1, <3>1, FS_RemoveElement
      <4>2. Splits(s \ {x}) /\ Splits(s \ {y})
        <5>1. /\ s \ {x} \in SUBSET D /\ Cardinality(s \ {x}) <= n
              /\ s \ {y} \in SUBSET D /\ Cardinality(s \ {y}) <= n
          BY <1>1, <2>1, <4>1
        <5> HIDE DEF Splits
        <5> QED
          BY <1>3, <5>1
      <4>3. y \in s \ {x} /\ x \in s \ {y} /\ (s \ {x}) \ {y} = (s \ {y}) \ {x}
        BY <3>1, <3>4
      <4>4. /\ h[s \ {x}] = f[y] + h[(s \ {y}) \ {x}]
            /\ h[s \ {y}] = f[x] + h[(s \ {y}) \ {x}]
        BY <4>2, <4>3
      <4>5. f[x] \in Int /\ f[y] \in Int /\ h[(s \ {y}) \ {x}] \in Int
        BY <3>1 DEF Sums
      <4> QED
        BY <3>2, <4>4, <4>5
    <3> QED
      BY <3>3, <3>4
  <2>2. n + 1 \in Nat
    BY <1>3
  <2> HIDE DEF Splits
  <2>3. \A s \in SUBSET D : Cardinality(s) <= n + 1 => Splits(s)
    BY <2>1 DEF Splits
  <2> QED
    BY <2>2, <2>3
<1>4. T = Nat
  <2> HIDE DEF T
  <2>1. T \in SUBSET Nat
    BY DEF T
  <2> QED
    BY <1>2, <1>3, <2>1, NatSet
<1>5. Splits(S)
  <2>1. Cardinality(S) \in T
    BY <1>1, <1>4
  <2> HIDE DEF Splits
  <2> QED
    BY <1>1, <2>1
<1> QED
  BY <1>5

\* SumFunctionOnSet adds the values of all indices, in whatever order.
LEMMA SumOfSet ==
  ASSUME NEW D, IsFiniteSet(D), NEW f, \A x \in D : f[x] \in Int
  PROVE  /\ SumFunctionOnSet(f, {}) = 0
         /\ SumFunctionOnSet(f, D) \in Int
         /\ \A x \in D : SumFunctionOnSet(f, D) = f[x] + SumFunctionOnSet(f, D \ {x})
<1>1. PICK h : Sums(h, f, D)
  BY SumsExist
<1>2. ASSUME NEW S \in SUBSET D PROVE SumFunctionOnSet(f, S) = h[S]
  <2> DEFINE Solves(g) == g = [s \in SUBSET S |->
               IF s = {} THEN 0
               ELSE f[CHOOSE x \in s : TRUE] + g[s \ {CHOOSE x \in s : TRUE}]]
             k == [s \in SUBSET S |-> h[s]]
             g0 == CHOOSE g : Solves(g)
  <2>1. SumFunctionOnSet(f, S) = g0[S]
    BY DEF SumFunctionOnSet, FoldFunctionOnSet, MapThenFoldSet
  <2>2. Solves(k)
    <3>1. \A s \in SUBSET S : s # {} =>
            h[s] = f[CHOOSE x \in s : TRUE] + h[s \ {CHOOSE x \in s : TRUE}]
      BY <1>1 DEF Sums, Adds
    <3>2. \A s \in SUBSET S : k[s] =
            IF s = {} THEN 0
            ELSE f[CHOOSE x \in s : TRUE] + k[s \ {CHOOSE x \in s : TRUE}]
      BY <1>1, <3>1 DEF Sums, Adds
    <3>3. k = [s \in SUBSET S |-> k[s]]
      OBVIOUS
    <3> HIDE DEF k
    <3> QED
      BY <3>2, <3>3
  <2>3. Solves(g0)
    <3> HIDE DEF Solves
    <3> QED
      BY <2>2
  <2> HIDE DEF g0
  <2>4. Adds(g0, f, S)
    BY <2>3 DEF Adds
  <2>5. g0[S] = h[S]
    BY <1>1, <2>4, SumsAgree
  <2> QED
    BY <2>1, <2>5
<1>3. \A x \in D : h[D] = f[x] + h[D \ {x}]
  BY <1>1, SumsRest
<1>4. h[{}] = 0 /\ h[D] \in Int
  BY <1>1 DEF Sums, Adds
<1>5. SumFunctionOnSet(f, D) = h[D] /\ SumFunctionOnSet(f, {}) = h[{}]
  BY <1>2
<1>6. ASSUME NEW x \in D PROVE SumFunctionOnSet(f, D \ {x}) = h[D \ {x}]
  BY <1>2
<1> QED
  BY <1>3, <1>4, <1>5, <1>6
-----------------------------------------------------------------------------
(***************************************************************************)
(* The features served are the features trained on.                        *)
(***************************************************************************)
\* What the rows of orders are made of.
LEMMA OrderRowsType ==
  ASSUME NEW orders \in OrderRows
  PROVE  /\ Len(orders) \in Nat /\ DOMAIN orders = 1 .. Len(orders)
         /\ \A i \in 1 .. Len(orders) :
              /\ orders[i].at \in Int /\ orders[i].amount \in Int
              /\ orders[i].products \in Seq(Products)
<1> DEFINE Row == [at : Int, amount : Int, products : Seq(Products)]
<1>1. orders \in Seq(Row)
  BY DEF OrderRows
<1>2. \A row \in Row : /\ row.at \in Int /\ row.amount \in Int
                       /\ row.products \in Seq(Products)
  OBVIOUS
<1> HIDE DEF Row
<1>3. \A i \in 1 .. Len(orders) : orders[i] \in Row
  BY <1>1
<1> QED
  BY <1>1, <1>2, <1>3

\* The newest order of the pass is the last order of the joined table.
LEMMA NewestIsLast ==
  ASSUME NEW h, h.orders \in OrderRows, h.orders # <<>>
  PROVE  /\ NewestAt(h.orders) = LastOrderAt(h)
         /\ LastOrderAt(h) \in Int
         /\ \A i \in DOMAIN h.orders : h.orders[i].at <= LastOrderAt(h)
<1> DEFINE orders == h.orders
           n == Len(orders)
           Newest(k, t) == /\ \E j \in 1 .. n : t = orders[j].at
                           /\ \A i \in 1 .. k : orders[i].at <= t
<1>1. /\ n \in Nat /\ DOMAIN orders = 1 .. n
      /\ \A i \in 1 .. n : orders[i].at \in Int
  BY OrderRowsType
<1>2. 1 \in 1 .. n /\ Head(orders) = orders[1]
  <2>1. orders \in Seq([at : Int, amount : Int, products : Seq(Products)])
    BY DEF OrderRows
  <2> QED
    BY <1>1, <2>1
<1> HIDE DEF orders, n
<1>3. PICK acc : NewestRun(acc, orders, n)
  BY <1>1, <1>2, NewestLoop
<1> DEFINE T == {k \in Nat : k <= n => Newest(k, acc[k])}
<1>4. 0 \in T
  BY <1>2, <1>3 DEF NewestRun
<1>5. ASSUME NEW k \in T PROVE k + 1 \in T
  <2>1. ASSUME k + 1 <= n PROVE Newest(k + 1, acc[k + 1])
    <3>1. k + 1 \in 1 .. n /\ (k + 1) - 1 = k
      BY <1>1, <2>1
    <3>2. acc[k + 1] = Larger(acc[k], orders[k + 1].at)
      BY <1>3, <3>1 DEF NewestRun
    <3>3. Newest(k, acc[k])
      BY <1>1, <1>5, <2>1
    <3>4. acc[k] \in Int /\ orders[k + 1].at \in Int
      BY <1>1, <3>1, <3>3
    <3>5. CASE acc[k] < orders[k + 1].at
      <4>1. acc[k + 1] = orders[k + 1].at
        BY <3>2, <3>5 DEF Larger
      <4>2. ASSUME NEW i \in 1 .. k + 1 PROVE orders[i].at <= acc[k + 1]
        <5>1. CASE i = k + 1
          BY <3>4, <4>1, <5>1
        <5>2. CASE i \in 1 .. k
          <6>1. orders[i].at <= acc[k] /\ orders[i].at \in Int
            BY <1>1, <3>1, <3>3, <5>2
          <6> QED
            BY <3>4, <3>5, <4>1, <6>1
        <5> QED
          BY <5>1, <5>2
      <4> QED
        BY <3>1, <4>1, <4>2
    <3>6. CASE ~(acc[k] < orders[k + 1].at)
      <4>1. acc[k + 1] = acc[k]
        BY <3>2, <3>6 DEF Larger
      <4>2. ASSUME NEW i \in 1 .. k + 1 PROVE orders[i].at <= acc[k + 1]
        <5>1. CASE i = k + 1
          BY <3>4, <3>6, <4>1, <5>1
        <5>2. CASE i \in 1 .. k
          BY <3>3, <4>1, <5>2
        <5> QED
          BY <5>1, <5>2
      <4> QED
        BY <3>3, <4>1, <4>2
    <3> QED
      BY <3>5, <3>6
  <2>2. k + 1 \in Nat
    BY <1>5
  <2> HIDE DEF Newest
  <2> QED
    BY <2>1, <2>2
<1>6. T = Nat
  <2> HIDE DEF T
  <2>1. T \in SUBSET Nat
    BY DEF T
  <2> QED
    BY <1>4, <1>5, <2>1, NatSet
<1>7. Newest(n, NewestAt(orders))
  <2>1. n \in T /\ n <= n
    BY <1>1, <1>6
  <2> HIDE DEF Newest
  <2> QED
    BY <1>3, <2>1 DEF NewestRun
<1>8. LastOrderAt(h) = NewestAt(orders)
  <2> DEFINE times == {o.at : o \in ToSet(orders)}
             IsLast(t) == \A o \in ToSet(orders) : o.at <= t
  <2>1. ToSet(orders) = {orders[i] : i \in 1 .. n}
    BY <1>1 DEF ToSet
  <2>2. NewestAt(orders) \in times /\ IsLast(NewestAt(orders))
    BY <1>7, <2>1
  <2>3. \A t \in times : t \in Int /\ \E o \in ToSet(orders) : o.at = t
    BY <1>1, <2>1
  <2>4. \A t, u \in times : IsLast(t) /\ IsLast(u) => t = u
    <3>1. ASSUME NEW t \in times, NEW u \in times, IsLast(t), IsLast(u) PROVE t = u
      <4>1. t \in Int /\ u \in Int /\ t <= u /\ u <= t
        BY <2>3, <3>1
      <4> QED
        BY <4>1
    <3> QED
      BY <3>1
  <2>5. LastOrderAt(h) = CHOOSE t \in times : IsLast(t)
    BY DEF LastOrderAt, orders
  <2> HIDE DEF times, IsLast
  <2> QED
    BY <2>2, <2>4, <2>5
<1>9. NewestAt(orders) \in Int
  BY <1>1, <1>7
<1> QED
  BY <1>1, <1>7, <1>8, <1>9 DEF orders

\* The pass that leaves out what is too old adds what the filter keeps.
LEMMA RevenueIsTotal ==
  ASSUME NEW orders \in OrderRows, NEW now \in Int, NEW window \in Nat
  PROVE  SumRevenueWithin(orders, now, window)
           = SumFunctionOnSet([i \in DOMAIN orders |-> orders[i].amount],
                              {i \in DOMAIN orders : orders[i].at >= now - window * Day})
<1> DEFINE n == Len(orders)
           from == now - window * Day
           amount == [i \in DOMAIN orders |-> orders[i].amount]
           kept(k) == {i \in 1 .. k : orders[i].at >= from}
<1>1. /\ n \in Nat /\ DOMAIN orders = 1 .. n
      /\ \A i \in 1 .. n : orders[i].at \in Int /\ orders[i].amount \in Int
  BY OrderRowsType
<1>2. from \in Int
  BY DayAssumption
<1>3. PICK acc : RevenueRun(acc, orders, n, now, window)
  <2> HIDE DEF n
  <2> QED
    BY <1>1, RevenueLoop
<1> HIDE DEF from, n
<1>4. \A i \in 1 .. n : amount[i] = orders[i].amount /\ amount[i] \in Int
  BY <1>1
<1>5. ASSUME NEW k \in Nat, k <= n
      PROVE  IsFiniteSet(kept(k)) /\ \A i \in kept(k) : amount[i] \in Int
  <2>1. IsFiniteSet(1 .. k) /\ kept(k) \in SUBSET (1 .. k) /\ 1 .. k \in SUBSET (1 .. n)
    <3>1. 1 \in Int /\ k \in Int
      OBVIOUS
    <3>2. IsFiniteSet(1 .. k)
      BY <3>1, FS_Interval
    <3> QED
      BY <1>1, <1>5, <3>2
  <2> HIDE DEF amount, kept
  <2> QED
    BY <1>4, <2>1, FS_Subset
<1> HIDE DEF amount
<1> DEFINE T == {k \in Nat : k <= n => /\ acc[k] = SumFunctionOnSet(amount, kept(k))
                                       /\ acc[k] \in Int}
<1>6. 0 \in T
  <2>1. kept(0) = {}
    OBVIOUS
  <2>2. SumFunctionOnSet(amount, {}) = 0
    <3>1. IsFiniteSet(kept(0)) /\ \A i \in kept(0) : amount[i] \in Int
      <4>1. 0 \in Nat /\ 0 <= n
        BY <1>1
      <4> QED
        BY <1>5, <4>1
    <3> HIDE DEF kept
    <3> QED
      BY <3>1, SumOfSet
  <2> HIDE DEF kept
  <2> QED
    BY <1>3, <2>1, <2>2 DEF RevenueRun
<1>7. ASSUME NEW k \in T PROVE k + 1 \in T
  <2>1. ASSUME k + 1 <= n
        PROVE  /\ acc[k + 1] = SumFunctionOnSet(amount, kept(k + 1))
               /\ acc[k + 1] \in Int
    <3>1. k + 1 \in 1 .. n /\ (k + 1) - 1 = k /\ k \in Nat /\ k <= n
      BY <1>1, <2>1
    <3>2. acc[k] = SumFunctionOnSet(amount, kept(k)) /\ acc[k] \in Int
      BY <1>7, <3>1
    <3>3. acc[k + 1] = IF orders[k + 1].at < from THEN acc[k]
                       ELSE acc[k] + orders[k + 1].amount
      BY <1>3, <3>1 DEF from, RevenueRun
    <3>4. CASE orders[k + 1].at < from
      <4>1. kept(k + 1) = kept(k)
        BY <1>1, <1>2, <3>1, <3>4
      <4> HIDE DEF kept
      <4> QED
        BY <3>2, <3>3, <3>4, <4>1
    <3>5. CASE ~(orders[k + 1].at < from)
      <4>1. k + 1 \in kept(k + 1) /\ kept(k + 1) \ {k + 1} = kept(k)
        BY <1>1, <1>2, <3>1, <3>5
      <4>2. IsFiniteSet(kept(k + 1)) /\ \A i \in kept(k + 1) : amount[i] \in Int
        BY <1>5, <2>1
      <4> HIDE DEF kept
      <4>3. SumFunctionOnSet(amount, kept(k + 1))
              = amount[k + 1] + SumFunctionOnSet(amount, kept(k + 1) \ {k + 1})
        BY <4>1, <4>2, SumOfSet
      <4>4. amount[k + 1] = orders[k + 1].amount /\ amount[k + 1] \in Int
        BY <1>4, <3>1
      <4> QED
        BY <3>2, <3>3, <3>5, <4>1, <4>3, <4>4
    <3> QED
      BY <3>4, <3>5
  <2>2. k + 1 \in Nat
    BY <1>7
  <2> HIDE DEF kept
  <2> QED
    BY <2>1, <2>2
<1>8. T = Nat
  <2> HIDE DEF T
  <2>1. T \in SUBSET Nat
    BY DEF T
  <2> QED
    BY <1>6, <1>7, <2>1, NatSet
<1>9. SumRevenueWithin(orders, now, window) = SumFunctionOnSet(amount, kept(n))
  <2>1. n \in T /\ n <= n
    BY <1>1, <1>8
  <2> HIDE DEF kept
  <2> QED
    BY <1>3, <2>1 DEF RevenueRun
<1> QED
  BY <1>1, <1>9 DEF amount, from

\* The lines of the first k orders, as pairs of an order's and a line's index,
\* and the products they name.
LinesOf(orders, k) == UNION {{i} \X DOMAIN orders[i].products : i \in 1 .. k}
NamedBy(orders, lines) == {orders[l[1]].products[l[2]] : l \in lines}

\* With an order there come its lines.
LEMMA MoreLines ==
  ASSUME NEW orders \in OrderRows, NEW k \in 1 .. Len(orders), NEW s \in Seq(Products),
         IsFiniteSet(LinesOf(orders, k - 1)),
         Cardinality(LinesOf(orders, k - 1)) = Len(s),
         NamedBy(orders, LinesOf(orders, k - 1)) = ToSet(s)
  PROVE  LET t == s \o orders[k].products IN
           /\ t \in Seq(Products)
           /\ IsFiniteSet(LinesOf(orders, k))
           /\ Cardinality(LinesOf(orders, k)) = Len(t)
           /\ NamedBy(orders, LinesOf(orders, k)) = ToSet(t)
<1> DEFINE more == orders[k].products
           m == Len(more)
           new == {k} \X (1 .. m)
           old == LinesOf(orders, k - 1)
<1>1. more \in Seq(Products) /\ m \in Nat /\ DOMAIN more = 1 .. m
  BY OrderRowsType
<1>2. /\ s \o more \in Seq(Products) /\ Len(s) \in Nat
      /\ Len(s \o more) = Len(s) + m
      /\ ToSet(s \o more) = ToSet(s) \cup {more[j] : j \in 1 .. m}
  <2>1. /\ s \o more \in Seq(Products) /\ Len(s) \in Nat
        /\ Len(s \o more) = Len(s) + m
        /\ DOMAIN s = 1 .. Len(s) /\ DOMAIN (s \o more) = 1 .. (Len(s) + m)
    BY <1>1
  <2>2. \A i \in 1 .. (Len(s) + m) :
          (s \o more)[i] = IF i <= Len(s) THEN s[i] ELSE more[i - Len(s)]
    BY <1>1
  <2>3. ASSUME NEW x \in ToSet(s \o more)
        PROVE  x \in ToSet(s) \cup {more[j] : j \in 1 .. m}
    <3>1. PICK i \in 1 .. (Len(s) + m) : x = (s \o more)[i]
      BY <2>1 DEF ToSet
    <3>2. CASE i <= Len(s)
      BY <2>1, <2>2, <3>1, <3>2 DEF ToSet
    <3>3. CASE ~(i <= Len(s))
      <4>1. i - Len(s) \in 1 .. m /\ x = more[i - Len(s)]
        BY <1>1, <2>1, <2>2, <3>1, <3>3
      <4> QED
        BY <4>1
    <3> QED
      BY <3>2, <3>3
  <2>4. ASSUME NEW i \in 1 .. Len(s) PROVE s[i] \in ToSet(s \o more)
    <3>1. i \in 1 .. (Len(s) + m) /\ (s \o more)[i] = s[i]
      BY <1>1, <2>1, <2>2
    <3> QED
      BY <2>1, <3>1 DEF ToSet
  <2>5. ASSUME NEW j \in 1 .. m PROVE more[j] \in ToSet(s \o more)
    <3>1. /\ Len(s) + j \in 1 .. (Len(s) + m) /\ ~(Len(s) + j <= Len(s))
          /\ (Len(s) + j) - Len(s) = j
      BY <1>1, <2>1
    <3>2. (s \o more)[Len(s) + j] = more[j]
      BY <2>2, <3>1
    <3> QED
      BY <2>1, <3>1, <3>2 DEF ToSet
  <2>6. ToSet(s) = {s[i] : i \in 1 .. Len(s)}
    BY <2>1 DEF ToSet
  <2> HIDE DEF more, m
  <2> QED
    BY <2>1, <2>3, <2>4, <2>5, <2>6
<1>3. LinesOf(orders, k) = old \cup new /\ old \cap new = {}
  <2>1. 1 .. k = (1 .. (k - 1)) \cup {k} /\ k \notin 1 .. (k - 1)
    BY OrderRowsType
  <2> QED
    BY <1>1, <2>1 DEF LinesOf
<1>4. IsFiniteSet(new) /\ Cardinality(new) = m
  <2>1. IsFiniteSet({k}) /\ Cardinality({k}) = 1
    BY FS_Singleton
  <2>2. IsFiniteSet(1 .. m) /\ Cardinality(1 .. m) = m
    BY <1>1, Counting
  <2>3. IsFiniteSet(new) /\ Cardinality(new) = Cardinality({k}) * Cardinality(1 .. m)
    BY <2>1, <2>2, FS_Product
  <2> HIDE DEF new
  <2> QED
    BY <1>1, <2>1, <2>2, <2>3
<1>5. NamedBy(orders, new) = {more[j] : j \in 1 .. m}
  <2>1. \A l \in new : l[1] = k /\ l[2] \in 1 .. m
    OBVIOUS
  <2>2. \A j \in 1 .. m : <<k, j>> \in new /\ <<k, j>>[1] = k /\ <<k, j>>[2] = j
    OBVIOUS
  <2> HIDE DEF new
  <2> QED
    BY <2>1, <2>2 DEF NamedBy
<1>6. NamedBy(orders, old \cup new) = NamedBy(orders, old) \cup NamedBy(orders, new)
  <2> HIDE DEF new, old
  <2> QED
    BY DEF NamedBy
<1>7. /\ IsFiniteSet(old \cup new)
      /\ Cardinality(old \cup new) = Len(s) + m
  <2> HIDE DEF new
  <2>1. /\ IsFiniteSet(old \cup new)
        /\ Cardinality(old \cup new)
             = Cardinality(old) + Cardinality(new) - Cardinality(old \cap new)
    BY <1>4, FS_Union
  <2>2. Cardinality(old \cap new) = 0
    BY <1>3, FS_EmptySet
  <2> QED
    BY <1>1, <1>2, <1>4, <2>1, <2>2
<1> HIDE DEF old, new, m
<1> QED
  BY <1>2, <1>3, <1>5, <1>6, <1>7 DEF old

\* The ratio of the sequence of all lines is the one of their table.
LEMMA DiversityOfLines ==
  ASSUME NEW orders \in OrderRows
  PROVE  Diversity(ProductsOf(orders))
           = LET lines == LinesOf(orders, Len(orders)) IN
               IF lines = {} THEN <<0, 1>>
               ELSE <<Cardinality(NamedBy(orders, lines)), Cardinality(lines)>>
<1> DEFINE n == Len(orders)
           Holds(k, s) == /\ s \in Seq(Products)
                          /\ IsFiniteSet(LinesOf(orders, k))
                          /\ Cardinality(LinesOf(orders, k)) = Len(s)
                          /\ NamedBy(orders, LinesOf(orders, k)) = ToSet(s)
<1>1. /\ n \in Nat /\ DOMAIN orders = 1 .. n
      /\ \A i \in 1 .. n : orders[i].products \in Seq(Products)
  BY OrderRowsType
<1> HIDE DEF n
<1>2. PICK acc : ProductsRun(acc, orders, n)
  BY <1>1, ProductsLoop
<1> DEFINE T == {k \in Nat : k <= n => Holds(k, acc[k])}
<1>3. 0 \in T
  <2>1. LinesOf(orders, 0) = {}
    BY DEF LinesOf
  <2>2. NamedBy(orders, {}) = {} /\ ToSet(<<>>) = {} /\ Len(<<>>) = 0 /\ <<>> \in Seq(Products)
    BY DEF NamedBy, ToSet
  <2>3. acc[0] = <<>>
    BY <1>2 DEF ProductsRun
  <2>4. Holds(0, acc[0])
    BY <2>1, <2>2, <2>3, FS_EmptySet
  <2> HIDE DEF Holds
  <2> QED
    BY <2>4
<1>4. ASSUME NEW k \in T PROVE k + 1 \in T
  <2>1. ASSUME k + 1 <= n PROVE Holds(k + 1, acc[k + 1])
    <3>1. k + 1 \in 1 .. n /\ (k + 1) - 1 = k /\ k <= n
      BY <1>1, <2>1
    <3>2. acc[k + 1] = acc[k] \o orders[k + 1].products
      BY <1>2, <3>1 DEF ProductsRun
    <3>3. Holds(k, acc[k])
      BY <1>4, <3>1
    <3>4. k + 1 \in 1 .. Len(orders)
      BY <3>1 DEF n
    <3> QED
      BY <3>1, <3>2, <3>3, <3>4, MoreLines
  <2>2. k + 1 \in Nat
    BY <1>4
  <2> HIDE DEF Holds
  <2> QED
    BY <2>1, <2>2
<1>5. T = Nat
  <2> HIDE DEF T
  <2>1. T \in SUBSET Nat
    BY DEF T
  <2> QED
    BY <1>3, <1>4, <2>1, NatSet
<1>6. Holds(n, ProductsOf(orders))
  <2>1. n \in T /\ n <= n
    BY <1>1, <1>5
  <2> HIDE DEF Holds
  <2> QED
    BY <1>2, <2>1 DEF ProductsRun
<1> DEFINE all == ProductsOf(orders)
           lines == LinesOf(orders, n)
<1>7. lines = {} <=> all = <<>>
  <2>1. lines = {} <=> Cardinality(lines) = 0
    BY <1>6, FS_EmptySet
  <2>2. all = <<>> <=> Len(all) = 0
    BY <1>6
  <2> HIDE DEF all, lines
  <2> QED
    BY <1>6, <2>1, <2>2 DEF all, lines
<1> QED
  BY <1>6, <1>7 DEF Diversity, n

\* extract_features and build_features have the same row for a customer that
\* has ordered.
THEOREM ServedIsTrained ==
  ASSUME NEW h, h.created \in Int, h.orders \in OrderRows, h.orders # <<>>, NEW now \in Int
  PROVE  ExtractFeatures(h, now) = BuildFeatures(h, now)
<1> DEFINE orders == h.orders
           rows == DOMAIN orders
           amount == [i \in rows |-> orders[i].amount]
           lines == UNION {{i} \X DOMAIN orders[i].products : i \in rows}
<1>1. rows = 1 .. Len(orders) /\ Len(orders) \in Nat
  BY OrderRowsType
<1>2. NewestAt(orders) = LastOrderAt(h)
  BY NewestIsLast
<1>3. \A w \in Windows :
        SumRevenueWithin(orders, now, w)
          = SumFunctionOnSet(amount, {i \in rows : orders[i].at >= now - w * Day})
  BY RevenueIsTotal, DayAssumption
<1>4. Cardinality(rows) = Len(orders)
  BY <1>1, Counting
<1>5. lines = LinesOf(orders, Len(orders))
  BY <1>1 DEF LinesOf
<1>6. Diversity(ProductsOf(orders))
        = IF lines = {} THEN <<0, 1>>
          ELSE <<Cardinality({orders[l[1]].products[l[2]] : l \in lines}), Cardinality(lines)>>
  <2>1. {orders[l[1]].products[l[2]] : l \in lines} = NamedBy(orders, lines)
    BY DEF NamedBy
  <2> HIDE DEF lines, orders
  <2> QED
    BY <1>5, <2>1, DiversityOfLines DEF orders
<1>7. [w \in Windows |-> SumRevenueWithin(orders, now, w)]
        = [w \in Windows |->
             SumFunctionOnSet(amount, {i \in rows : orders[i].at >= now - w * Day})]
  BY <1>3
<1> DEFINE lifetime == Larger(1, Days(now - h.created))
           Row(last, revenue, count, diversity) ==
             [daysSinceLast |-> Larger(0, Days(now - last)), revenue |-> revenue,
              frequency |-> <<count, lifetime>>, diversity |-> diversity,
              domain |-> ClassifyEmailDomain(h.email), lifetime |-> lifetime]
<1>8. ExtractFeatures(h, now)
        = Row(NewestAt(orders), [w \in Windows |-> SumRevenueWithin(orders, now, w)],
              Len(orders), Diversity(ProductsOf(orders)))
  BY DEF ExtractFeatures
<1>9. BuildFeatures(h, now)
        = Row(LastOrderAt(h),
              [w \in Windows |->
                 SumFunctionOnSet(amount, {i \in rows : orders[i].at >= now - w * Day})],
              Cardinality(rows),
              IF lines = {} THEN <<0, 1>>
              ELSE <<Cardinality({orders[l[1]].products[l[2]] : l \in lines}),
                     Cardinality(lines)>>)
  BY DEF BuildFeatures
<1> HIDE DEF Row
<1> QED
  BY <1>2, <1>4, <1>6, <1>7, <1>8, <1>9

\* What lasts longer than a number of days lasts that number of days.
LEMMA LongerThanDays ==
  ASSUME NEW days \in Nat, NEW duration \in Int, duration > days * Day
  PROVE  Days(duration) \in Int /\ Days(duration) >= days
<1> DEFINE q == duration \div Day
           r == duration % Day
<1>1. Day \in Nat /\ Day > 0
  BY DayAssumption
<1>2. q \in Int /\ r \in 0 .. (Day - 1) /\ duration = q * Day + r
  BY <1>1
<1> HIDE DEF q, r
<1>3. ASSUME q < days PROVE FALSE
  <2>1. PICK m \in Nat : days = q + 1 + m
    <3>1. days - q - 1 \in Nat /\ days = q + 1 + (days - q - 1)
      BY <1>2, <1>3
    <3> QED
      BY <3>1
  <2>2. m * Day \in Nat
    BY <1>1
  <2>3. days * Day = q * Day + Day + m * Day
    BY <1>1, <1>2, <2>1
  <2>4. q * Day \in Int /\ days * Day \in Int
    BY <1>1, <1>2
  <2> QED
    BY <1>1, <1>2, <2>2, <2>3, <2>4
<1> QED
  BY <1>2, <1>3 DEF Days, q

\* A longer window reaches further back.
LEMMA WiderWindow ==
  ASSUME NEW v \in Nat, NEW w \in Nat, v <= w
  PROVE  v * Day \in Nat /\ w * Day \in Nat /\ v * Day <= w * Day
<1>1. Day \in Nat
  BY DayAssumption
<1>2. PICK m \in Nat : w = v + m
  <2>1. w - v \in Nat /\ w = v + (w - v)
    OBVIOUS
  <2> QED
    BY <2>1
<1>3. m * Day \in Nat /\ v * Day \in Nat /\ w * Day = v * Day + m * Day
  BY <1>1, <1>2
<1> QED
  BY <1>3

\* label_churn and the features: who is labelled quiet has been, and has no
\* revenue, for as long as the label asks.
THEOREM QuietIsShown ==
  ASSUME NEW h, h.created \in Int, h.orders \in OrderRows, h.orders # <<>>, NEW now \in Int,
         NEW quiet \in Windows, LabelChurn(h, now, quiet, 0, 0)
  PROVE  /\ BuildFeatures(h, now).daysSinceLast >= quiet
         /\ \A w \in Windows : w <= quiet => BuildFeatures(h, now).revenue[w] = 0
<1> DEFINE orders == h.orders
           rows == DOMAIN orders
           amount == [i \in rows |-> orders[i].amount]
           last == LastOrderAt(h)
<1>1. quiet \in Nat /\ quiet * Day \in Nat /\ Windows \subseteq Nat
  BY DayAssumption, WiderWindow
<1>2. last \in Int /\ \A i \in rows : orders[i].at <= last
  BY NewestIsLast
<1>3. last < now - quiet * Day
  BY DEF LabelChurn
<1> HIDE DEF last
<1>4. Days(now - last) \in Int /\ Days(now - last) >= quiet
  <2>1. now - last \in Int /\ now - last > quiet * Day
    BY <1>1, <1>2, <1>3
  <2> QED
    BY <1>1, <2>1, LongerThanDays
<1>5. BuildFeatures(h, now).daysSinceLast >= quiet
  <2>1. BuildFeatures(h, now).daysSinceLast = Larger(0, Days(now - last))
    BY DEF BuildFeatures, last
  <2> QED
    BY <1>1, <1>4, <2>1 DEF Larger
<1>6. ASSUME NEW w \in Windows, w <= quiet
      PROVE  BuildFeatures(h, now).revenue[w] = 0
  <2> DEFINE within == {i \in rows : orders[i].at >= now - w * Day}
  <2>1. BuildFeatures(h, now).revenue[w] = SumFunctionOnSet(amount, within)
    BY DEF BuildFeatures
  <2>2. within = {}
    <3>1. w * Day \in Nat /\ w * Day <= quiet * Day
      BY <1>1, <1>6, WiderWindow
    <3>2. ASSUME NEW i \in rows PROVE ~(orders[i].at >= now - w * Day)
      <4>1. orders[i].at \in Int /\ orders[i].at <= last
        BY <1>2, OrderRowsType
      <4> QED
        BY <1>1, <1>2, <1>3, <3>1, <4>1
    <3> QED
      BY <3>2
  <2>3. SumFunctionOnSet(amount, {}) = 0
    BY FS_EmptySet, SumOfSet
  <2> HIDE DEF within, amount
  <2> QED
    BY <2>1, <2>2, <2>3
<1> QED
  BY <1>5, <1>6
=============================================================================
