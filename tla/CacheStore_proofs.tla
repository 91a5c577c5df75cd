-------------------------- MODULE CacheStore_proofs --------------------------
(***************************************************************************)
(* Proofs about the payload cache, for any number of threads and keys, any *)
(* sizes and budgets, and any number of deaths of the process.             *)
(***************************************************************************)
EXTENDS CacheStore, FiniteSetTheorems, SequenceTheorems, WellFoundedInduction, TLAPS

-----------------------------------------------------------------------------
(* Induction, stated of sets.                                              *)

LEMMA LeastExists ==
  ASSUME NEW S \in SUBSET Nat, S # {}
  PROVE  Min(S) \in S /\ \A n \in S : Min(S) <= n
  <1> DEFINE U == {0..n : n \in S}
  <1>1. U \subseteq FiniteSubsetsOf(Nat) /\ U # {}
    <2>1. \A n \in S : 0..n \in SUBSET Nat /\ IsFiniteSet(0..n)
      BY FS_Interval
    <2>2. \A n \in S : 0..n \in FiniteSubsetsOf(Nat)
      BY <2>1 DEF FiniteSubsetsOf
    <2>3. QED
      BY <2>2
  <1>2. PICK u \in U : \A v \in U : <<v, u>> \notin StrictSubsetOrdering(Nat)
    <2> HIDE DEF U
    <2>1. QED
      BY <1>1, FS_StrictSubsetOrderingWellFounded, WFMin
  <1>3. PICK m \in S : u = 0..m
    BY <1>2
  <1>4. ASSUME NEW n \in S, n < m PROVE FALSE
    <2>1. 0..n \in U /\ 0..n \in SUBSET Nat /\ 0..m \in SUBSET Nat
      BY <1>4
    <2>2. 0..n \subseteq 0..m /\ 0..n # 0..m
      <3>1. m \in 0..m /\ m \notin 0..n
        BY <1>4
      <3>2. QED
        BY <1>4, <3>1
    <2>3. QED
      BY <1>2, <1>3, <2>1, <2>2 DEF StrictSubsetOrdering
  <1>5. \A n \in S : m <= n
    BY <1>4
  <1>6. QED
    BY <1>5 DEF Min

LEMMA CountingUp ==
  ASSUME NEW T, 0 \in T, \A n \in Nat : n \in T => n + 1 \in T
  PROVE  Nat \subseteq T
  <1> DEFINE S == {n \in Nat : n \notin T}
             m == Min(S)
  <1> SUFFICES ASSUME S # {} PROVE FALSE
    OBVIOUS
  <1>1. m \in S /\ \A n \in S : m <= n
    BY LeastExists
  <1>2. m # 0 /\ m - 1 \in Nat /\ m - 1 \notin S
    BY <1>1
  <1>3. QED
    BY <1>1, <1>2

-----------------------------------------------------------------------------
(* Sums.  The fold takes the members of a set in some order; every order   *)
(* gives the same.                                                         *)

Pick(s) == CHOOSE x \in s : TRUE

\* h adds up the weights of every set in D.
Sums(w, D, h) ==
  h = [s \in D |-> IF s = {} THEN 0 ELSE w[Pick(s)] + h[s \ {Pick(s)}]]

Small(S, n) == {s \in SUBSET S : Cardinality(s) <= n}

LEMMA PickIsMember ==
  ASSUME NEW s, s # {}
  PROVE  Pick(s) \in s
  BY DEF Pick

\* Up to each size there is such a function on the subsets of a set.
LEMMA SumsOfSmallSets ==
  ASSUME NEW w, NEW S, IsFiniteSet(S), NEW n \in Nat
  PROVE  \E h : Sums(w, Small(S, n), h)
  <1> DEFINE D(m) == {s \in SUBSET S : Cardinality(s) <= m}
             T == {m \in Nat : \E h : Sums(w, D(m), h)}
  <1>1. \A s \in SUBSET S : IsFiniteSet(s) /\ Cardinality(s) \in Nat
    BY FS_Subset, FS_CardinalityType
  <1>2. 0 \in T
    <2> DEFINE h == [s \in D(0) |-> 0]
    <2>1. \A s \in D(0) : s = {}
      BY <1>1, FS_EmptySet
    <2>2. h = [s \in D(0) |-> IF s = {} THEN 0 ELSE w[Pick(s)] + h[s \ {Pick(s)}]]
      BY <2>1
    <2>3. QED
      BY <2>2 DEF Sums
  <1>3. ASSUME NEW m \in Nat, m \in T PROVE m + 1 \in T
    <2>1. PICK h : Sums(w, D(m), h)
      BY <1>3
    <2> DEFINE g == [s \in D(m + 1) |-> IF s = {} THEN 0 ELSE w[Pick(s)] + h[s \ {Pick(s)}]]
    <2>2. \A s \in D(m + 1) : s # {} => s \ {Pick(s)} \in D(m)
      <3>1. SUFFICES ASSUME NEW s \in D(m + 1), s # {} PROVE s \ {Pick(s)} \in D(m)
        OBVIOUS
      <3>2. Cardinality(s \ {Pick(s)}) = Cardinality(s) - 1
        BY <1>1, <3>1, PickIsMember, FS_RemoveElement
      <3>3. QED
        BY <1>1, <3>1, <3>2
    <2>3. \A s \in D(m) : s \in D(m + 1) /\ g[s] = h[s]
      <3>1. \A s \in D(m) : s \in D(m + 1)
        BY <1>1
      <3>2. \A s \in D(m) : h[s] = IF s = {} THEN 0 ELSE w[Pick(s)] + h[s \ {Pick(s)}]
        BY <2>1 DEF Sums
      <3>3. QED
        BY <3>1, <3>2
    <2>4. \A s \in D(m + 1) : s # {} => g[s \ {Pick(s)}] = h[s \ {Pick(s)}]
      BY <2>2, <2>3
    <2>5. g = [s \in D(m + 1) |-> IF s = {} THEN 0 ELSE w[Pick(s)] + g[s \ {Pick(s)}]]
      BY ONLY <2>4
    <2> HIDE DEF g
    <2>6. Sums(w, D(m + 1), g)
      BY <2>5 DEF Sums
    <2>7. QED
      BY <2>6
  <1>4. Nat \subseteq T
    <2> HIDE DEF T
    <2>1. QED
      BY <1>2, <1>3, CountingUp
  <1>5. QED
    BY <1>4 DEF Small

LEMMA SumsExist ==
  ASSUME NEW w, NEW S, IsFiniteSet(S)
  PROVE  \E h : Sums(w, SUBSET S, h)
  <1>1. \A s \in SUBSET S : Cardinality(s) <= Cardinality(S)
    BY FS_Subset
  <1>2. Small(S, Cardinality(S)) = SUBSET S
    BY <1>1 DEF Small
  <1>3. Cardinality(S) \in Nat
    BY FS_CardinalityType
  <1>4. \E h : Sums(w, Small(S, Cardinality(S)), h)
    BY <1>3, SumsOfSmallSets
  <1>5. QED
    BY <1>2, <1>4

\* Two of them agree wherever both are defined.
LEMMA SumsAgree ==
  ASSUME NEW w, NEW S, NEW R, IsFiniteSet(S), IsFiniteSet(R), NEW g, NEW h,
         Sums(w, SUBSET S, g), Sums(w, SUBSET R, h),
         NEW s \in SUBSET S, s \in SUBSET R
  PROVE  g[s] = h[s]
  <1> DEFINE T == {n \in Nat : \A u \in SUBSET S :
                     u \in SUBSET R /\ Cardinality(u) = n => g[u] = h[u]}
  <1>1. \A u \in SUBSET S : /\ IsFiniteSet(u) /\ Cardinality(u) \in Nat
                            /\ Cardinality(u) = 0 <=> u = {}
    BY FS_Subset, FS_CardinalityType, FS_EmptySet
  <1>2. /\ \A u \in SUBSET S : g[u] = IF u = {} THEN 0 ELSE w[Pick(u)] + g[u \ {Pick(u)}]
        /\ \A u \in SUBSET R : h[u] = IF u = {} THEN 0 ELSE w[Pick(u)] + h[u \ {Pick(u)}]
    BY DEF Sums
  <1>3. 0 \in T
    BY <1>1, <1>2
  <1>4. ASSUME NEW n \in Nat, n \in T PROVE n + 1 \in T
    <2> SUFFICES ASSUME NEW u \in SUBSET S, u \in SUBSET R, Cardinality(u) = n + 1
                 PROVE  g[u] = h[u]
      OBVIOUS
    <2>1. u # {} /\ IsFiniteSet(u)
      BY <1>1
    <2>2. Cardinality(u \ {Pick(u)}) = n
      <3>1. Pick(u) \in u
        BY <2>1, PickIsMember
      <3>2. Cardinality(u \ {Pick(u)}) = Cardinality(u) - 1
        BY <2>1, <3>1, FS_RemoveElement
      <3>3. QED
        BY <3>2
    <2>3. g[u \ {Pick(u)}] = h[u \ {Pick(u)}]
      BY <1>4, <2>2
    <2>4. QED
      BY <1>2, <2>1, <2>3
  <1>5. Nat \subseteq T
    <2> HIDE DEF T
    <2>1. QED
      BY <1>3, <1>4, CountingUp
  <1>6. QED
    BY <1>1, <1>5

LEMMA TotalIsSum ==
  ASSUME NEW w, NEW S, IsFiniteSet(S)
  PROVE  \E h : Sums(w, SUBSET S, h) /\ Total(w, S) = h[S]
  <1> DEFINE H == CHOOSE h : h = [s \in SUBSET S |->
                    IF s = {} THEN 0 ELSE w[Pick(s)] + h[s \ {Pick(s)}]]
  <1>1. Total(w, S) = H[S]
    BY DEF Total, MapThenSumSet, MapThenFoldSet, Pick
  <1>2. Sums(w, SUBSET S, H)
    <2>1. PICK h : Sums(w, SUBSET S, h)
      BY SumsExist
    <2>2. \E f : f = [s \in SUBSET S |-> IF s = {} THEN 0 ELSE w[Pick(s)] + f[s \ {Pick(s)}]]
      BY ONLY <2>1 DEF Sums
    <2>3. H = [s \in SUBSET S |-> IF s = {} THEN 0 ELSE w[Pick(s)] + H[s \ {Pick(s)}]]
      BY ONLY <2>2
    <2>4. QED
      BY <2>3 DEF Sums
  <1>3. QED
    BY <1>1, <1>2

LEMMA SmallerSetsFirst ==
  ASSUME NEW K, NEW F,
         \A S \in SUBSET K :
           IsFiniteSet(S) /\ (\A x \in S : S \ {x} \in F) => S \in F
  PROVE  \A S \in SUBSET K : IsFiniteSet(S) => S \in F
  <1> DEFINE T == {n \in Nat : \A S \in SUBSET K :
                     IsFiniteSet(S) /\ Cardinality(S) = n => S \in F}
  <1>1. 0 \in T
    <2> SUFFICES ASSUME NEW S \in SUBSET K, IsFiniteSet(S), Cardinality(S) = 0
                 PROVE  S \in F
      OBVIOUS
    <2>1. S = {}
      BY FS_EmptySet
    <2>2. QED
      BY <2>1
  <1>2. ASSUME NEW n \in Nat, n \in T PROVE n + 1 \in T
    <2> SUFFICES ASSUME NEW S \in SUBSET K, IsFiniteSet(S), Cardinality(S) = n + 1
                 PROVE  S \in F
      OBVIOUS
    <2>1. ASSUME NEW x \in S PROVE S \ {x} \in F
      <3>1. IsFiniteSet(S \ {x}) /\ Cardinality(S \ {x}) = Cardinality(S) - 1
        BY FS_RemoveElement
      <3>2. QED
        BY <1>2, <3>1
    <2>2. QED
      BY <2>1
  <1>3. Nat \subseteq T
    <2> HIDE DEF T
    <2>1. QED
      BY <1>1, <1>2, CountingUp
  <1>4. QED
    BY <1>3, FS_CardinalityType

-----------------------------------------------------------------------------
(* What keys weigh together.                                               *)

LEMMA TotalOfNone ==
  ASSUME NEW w
  PROVE  Total(w, {}) = 0
  <1>1. PICK h : Sums(w, SUBSET {}, h) /\ Total(w, {}) = h[{}]
    BY TotalIsSum, FS_EmptySet
  <1>2. QED
    BY <1>1 DEF Sums

LEMMA TotalOfSome ==
  ASSUME NEW w, NEW S, IsFiniteSet(S), S # {}
  PROVE  Total(w, S) = w[Pick(S)] + Total(w, S \ {Pick(S)})
  <1> DEFINE R == S \ {Pick(S)}
  <1>1. IsFiniteSet(R)
    BY FS_Subset
  <1>2. PICK h : Sums(w, SUBSET S, h) /\ Total(w, S) = h[S]
    BY TotalIsSum
  <1>3. PICK g : Sums(w, SUBSET R, g) /\ Total(w, R) = g[R]
    BY <1>1, TotalIsSum
  <1>4. h[R] = g[R]
    <2> HIDE DEF R
    <2>1. R \in SUBSET S /\ R \in SUBSET R
      BY DEF R
    <2>2. QED
      BY <1>1, <1>2, <1>3, <2>1, SumsAgree
  <1>5. h[S] = w[Pick(S)] + h[R]
    BY <1>2 DEF Sums
  <1>6. QED
    BY <1>2, <1>3, <1>4, <1>5

LEMMA TotalType ==
  ASSUME NEW K, NEW w \in [K -> Nat], NEW S \in SUBSET K, IsFiniteSet(S)
  PROVE  Total(w, S) \in Nat
  <1> DEFINE F == {R \in SUBSET K : Total(w, R) \in Nat}
  <1>1. ASSUME NEW R \in SUBSET K, IsFiniteSet(R), \A x \in R : R \ {x} \in F
        PROVE  R \in F
    <2>1. CASE R = {}
      BY <2>1, TotalOfNone
    <2>2. CASE R # {}
      <3>1. Pick(R) \in R /\ Total(w, R) = w[Pick(R)] + Total(w, R \ {Pick(R)})
        BY <1>1, <2>2, PickIsMember, TotalOfSome
      <3>2. w[Pick(R)] \in Nat /\ Total(w, R \ {Pick(R)}) \in Nat
        BY <1>1, <3>1
      <3>3. QED
        BY <3>1, <3>2
    <2>3. QED
      BY <2>1, <2>2
  <1>2. \A R \in SUBSET K : IsFiniteSet(R) => R \in F
    <2> HIDE DEF F
    <2>1. QED
      BY <1>1, SmallerSetsFirst
  <1>3. QED
    BY <1>2

\* Any member can be taken out first.
LEMMA TotalWithout ==
  ASSUME NEW K, NEW w \in [K -> Nat], NEW S \in SUBSET K, IsFiniteSet(S), NEW k \in S
  PROVE  Total(w, S) = w[k] + Total(w, S \ {k})
  <1> DEFINE F == {R \in SUBSET K : \A x \in R : Total(w, R) = w[x] + Total(w, R \ {x})}
  <1>1. ASSUME NEW R \in SUBSET K, IsFiniteSet(R), \A x \in R : R \ {x} \in F, NEW x \in R
        PROVE  Total(w, R) = w[x] + Total(w, R \ {x})
    <2> DEFINE p == Pick(R)
    <2>1. p \in R /\ Total(w, R) = w[p] + Total(w, R \ {p})
      BY <1>1, PickIsMember, TotalOfSome
    <2>2. CASE x = p
      BY <2>1, <2>2
    <2>3. CASE x # p
      <3>1. Total(w, R \ {p}) = w[x] + Total(w, (R \ {p}) \ {x})
        BY <1>1, <2>1, <2>3
      <3>2. Total(w, R \ {x}) = w[p] + Total(w, (R \ {x}) \ {p})
        BY <1>1, <2>1, <2>3
      <3>3. (R \ {p}) \ {x} = (R \ {x}) \ {p}
        OBVIOUS
      <3> DEFINE rest == Total(w, (R \ {x}) \ {p})
      <3>4. w[p] \in Nat /\ w[x] \in Nat /\ rest \in Nat
        <4>1. IsFiniteSet((R \ {x}) \ {p}) /\ (R \ {x}) \ {p} \in SUBSET K
          BY <1>1, FS_Subset
        <4>2. QED
          BY <2>1, <4>1, TotalType
      <3>5. Total(w, R) = w[p] + (w[x] + rest) /\ Total(w, R \ {x}) = w[p] + rest
        BY ONLY <2>1, <3>1, <3>2, <3>3
      <3> HIDE DEF p, rest
      <3>6. QED
        BY <3>4, <3>5
    <2>4. QED
      BY <2>2, <2>3
  <1>2. \A R \in SUBSET K : IsFiniteSet(R) /\ (\A x \in R : R \ {x} \in F) => R \in F
    BY <1>1
  <1>3. \A R \in SUBSET K : IsFiniteSet(R) => R \in F
    <2> HIDE DEF F
    <2>1. QED
      BY <1>2, SmallerSetsFirst
  <1>4. QED
    BY <1>3

LEMMA TotalWith ==
  ASSUME NEW K, NEW w \in [K -> Nat], NEW S \in SUBSET K, IsFiniteSet(S),
         NEW k \in K, k \notin S
  PROVE  Total(w, S \cup {k}) = w[k] + Total(w, S)
  <1>1. IsFiniteSet(S \cup {k}) /\ S \cup {k} \in SUBSET K /\ k \in S \cup {k}
    BY FS_AddElement
  <1>2. (S \cup {k}) \ {k} = S
    OBVIOUS
  <1>3. QED
    BY <1>1, <1>2, TotalWithout

\* The members of a set weigh what some of them and the others weigh.
LEMMA TotalOfParts ==
  ASSUME NEW K, NEW w \in [K -> Nat], NEW S \in SUBSET K, IsFiniteSet(S), NEW R \in SUBSET S
  PROVE  /\ Total(w, S) = Total(w, R) + Total(w, S \ R)
         /\ Total(w, R) \in Nat /\ Total(w, S \ R) \in Nat
         /\ Total(w, R) <= Total(w, S)
  <1> DEFINE F == {Q \in SUBSET S : Total(w, S) = Total(w, Q) + Total(w, S \ Q)}
  <1>1. \A Q \in SUBSET S : /\ IsFiniteSet(Q) /\ IsFiniteSet(S \ Q)
                            /\ Total(w, Q) \in Nat /\ Total(w, S \ Q) \in Nat
    <2> TAKE Q \in SUBSET S
    <2>1. IsFiniteSet(Q) /\ IsFiniteSet(S \ Q) /\ Q \in SUBSET K /\ S \ Q \in SUBSET K
      BY FS_Subset
    <2>2. QED
      BY <2>1, TotalType
  <1>2. ASSUME NEW Q \in SUBSET S, IsFiniteSet(Q), \A x \in Q : Q \ {x} \in F
        PROVE  Q \in F
    <2>1. CASE Q = {}
      <3>1. S \ Q = S
        BY <2>1
      <3>2. QED
        BY <1>1, <2>1, <3>1, TotalOfNone
    <2>2. CASE Q # {}
      <3>1. PICK x \in Q : TRUE
        BY <2>2
      <3>2. Total(w, S) = Total(w, Q \ {x}) + Total(w, S \ (Q \ {x}))
        BY <1>2, <3>1
      <3>3. Total(w, Q) = w[x] + Total(w, Q \ {x})
        <4>1. Q \in SUBSET K /\ x \in Q
          BY <3>1
        <4>2. QED
          BY <1>2, <4>1, TotalWithout
      <3>4. Total(w, S \ (Q \ {x})) = w[x] + Total(w, S \ Q)
        <4>1. S \ (Q \ {x}) = (S \ Q) \cup {x} /\ x \notin S \ Q /\ x \in K /\ S \ Q \in SUBSET K
          BY <3>1
        <4>2. QED
          BY <1>1, <4>1, TotalWith
      <3>5. w[x] \in Nat /\ Total(w, Q \ {x}) \in Nat /\ Total(w, S \ Q) \in Nat
        BY <1>1, <3>1
      <3>6. QED
        BY <3>2, <3>3, <3>4, <3>5
    <2>3. QED
      BY <2>1, <2>2
  <1>3. \A Q \in SUBSET S : IsFiniteSet(Q) => Q \in F
    <2> HIDE DEF F
    <2>1. QED
      BY <1>2, SmallerSetsFirst
  <1>4. Total(w, S) = Total(w, R) + Total(w, S \ R)
    BY <1>1, <1>3
  <1>5. QED
    BY <1>1, <1>4

-----------------------------------------------------------------------------
(* Sequences.                                                              *)

Distinct(s) == \A i, j \in DOMAIN s : s[i] = s[j] => i = j

LEMMA MembersAreFinite ==
  ASSUME NEW A, NEW s \in Seq(A)
  PROVE  /\ IsFiniteSet(ToSet(s)) /\ ToSet(s) \in SUBSET A
         /\ Distinct(s) => Cardinality(ToSet(s)) = Len(s)
  <1>1. Len(s) \in Nat /\ DOMAIN s = 1..Len(s) /\ \A i \in DOMAIN s : s[i] \in A
    OBVIOUS
  <1>2. s \in Surjection(1..Len(s), ToSet(s))
    <2>1. s \in [1..Len(s) -> ToSet(s)]
      BY <1>1 DEF ToSet
    <2>2. QED
      BY <1>1, <2>1 DEF Surjection, ToSet
  <1>3. IsFiniteSet(1..Len(s)) /\ Cardinality(1..Len(s)) = Len(s)
    BY <1>1, FS_Interval
  <1>4. Distinct(s) => s \in Injection(1..Len(s), ToSet(s))
    BY <1>1, <1>2 DEF Distinct, Injection, IsInjective, Surjection
  <1>5. QED
    BY <1>1, <1>2, <1>3, <1>4, FS_Surjection DEF ToSet

\* A set of n naturals has one with i below it, for each i below n.
LEMMA RanksAreTaken ==
  ASSUME NEW N \in Nat, NEW S \in SUBSET (1..N)
  PROVE  LET Below(i) == {j \in S : j < i}
         IN  /\ IsFiniteSet(S) /\ Cardinality(S) \in Nat
             /\ \A i \in S : Cardinality(Below(i)) \in 0..(Cardinality(S) - 1)
             /\ \A i, j \in S : Cardinality(Below(i)) = Cardinality(Below(j)) => i = j
             /\ \A n \in 0..(Cardinality(S) - 1) : \E i \in S : Cardinality(Below(i)) = n
  <1> DEFINE Below(i) == {j \in S : j < i}
             rank == [i \in S |-> Cardinality(Below(i))]
             c == Cardinality(S)
  <1>1. IsFiniteSet(S) /\ c \in Nat
    <2>1. IsFiniteSet(1..N)
      BY FS_Interval
    <2>2. IsFiniteSet(S)
      BY <2>1, FS_Subset
    <2>3. QED
      BY <2>2, FS_CardinalityType
  <1>2. \A R \in SUBSET S : IsFiniteSet(R) /\ Cardinality(R) \in Nat /\ Cardinality(R) <= c
    <2>1. \A R \in SUBSET S : IsFiniteSet(R) /\ Cardinality(R) <= c
      BY <1>1, FS_Subset
    <2>2. \A R \in SUBSET S : Cardinality(R) \in Nat
      BY <2>1, FS_CardinalityType
    <2>3. QED
      BY <2>1, <2>2
  <1>3. ASSUME NEW R \in SUBSET S, R # S PROVE Cardinality(R) < c
    <2>1. Cardinality(R) # c
      BY <1>1, <1>3, FS_Subset
    <2> HIDE DEF c
    <2>2. QED
      BY <1>1, <1>2, <2>1
  <1>4. ASSUME NEW i \in S PROVE Cardinality(Below(i)) \in 0..(c - 1)
    <2>1. i \notin Below(i) /\ Below(i) \in SUBSET S
      OBVIOUS
    <2>2. Cardinality(Below(i)) \in Nat /\ Cardinality(Below(i)) < c
      BY <1>2, <1>3, <2>1
    <2>3. QED
      BY <1>1, <2>2
  <1>5. ASSUME NEW i \in S, NEW j \in S, i < j PROVE Cardinality(Below(i)) < Cardinality(Below(j))
    <2>1. Below(i) \in SUBSET Below(j) /\ i \in Below(j) /\ i \notin Below(i)
      <3>1. \A m \in S : m \in Nat
        OBVIOUS
      <3>2. \A m \in S : m < i => m < j
        BY <1>5, <3>1
      <3>3. Below(i) \in SUBSET Below(j)
        BY <3>2
      <3>4. i \in Below(j) /\ i \notin Below(i)
        BY <1>5, <3>1
      <3>5. QED
        BY <3>3, <3>4
    <2>2. IsFiniteSet(Below(j)) /\ Cardinality(Below(j)) \in Nat /\ Cardinality(Below(i)) \in Nat
      BY <1>2
    <2>3. Cardinality(Below(i)) <= Cardinality(Below(j)) /\ Cardinality(Below(i)) # Cardinality(Below(j))
      BY <2>1, <2>2, FS_Subset
    <2>4. QED
      BY <2>2, <2>3
  <1>6. ASSUME NEW i \in S, NEW j \in S, Cardinality(Below(i)) = Cardinality(Below(j))
        PROVE  i = j
    <2>1. ~(i < j) /\ ~(j < i)
      <3>1. Cardinality(Below(i)) \in Int
        BY <1>4
      <3> HIDE DEF Below
      <3>2. QED
        BY <1>5, <1>6, <3>1
    <2>2. QED
      BY <2>1
  <1>7. rank \in Injection(S, 0..(c - 1))
    <2>1. rank \in [S -> 0..(c - 1)]
      BY <1>4
    <2>2. \A i, j \in S : rank[i] = rank[j] => i = j
      <3> HIDE DEF Below
      <3>1. QED
        BY <1>6
    <2> HIDE DEF rank, c
    <2>3. QED
      BY <2>1, <2>2 DEF Injection, IsInjective
  <1>8. IsFiniteSet(0..(c - 1)) /\ Cardinality(0..(c - 1)) = c
    <2>1. PICK d \in Int : d = c - 1
      BY <1>1
    <2>2. IsFiniteSet(0..d) /\ Cardinality(0..d) = IF 0 > d THEN 0 ELSE d - 0 + 1
      BY ONLY FS_Interval
    <2> HIDE DEF c
    <2>3. QED
      BY ONLY <1>1, <2>1, <2>2
  <1>9. rank \in Surjection(S, 0..(c - 1))
    <2> HIDE DEF rank, c
    <2>1. QED
      BY <1>7, <1>8, FS_Injection DEF c
  <1>10. ASSUME NEW n \in 0..(c - 1) PROVE \E i \in S : Cardinality(Below(i)) = n
    <2>1. \E i \in S : rank[i] = n
      <3> HIDE DEF rank, c
      <3>1. QED
        BY <1>9 DEF Surjection
    <2>2. QED
      BY <2>1
  <1>11. QED
    BY <1>1, <1>4, <1>6, <1>10

\* What is kept of a sequence without repetition.
LEMMA KeepKeeps ==
  ASSUME NEW A, NEW s \in Seq(A), Distinct(s), NEW S
  PROVE  /\ Keep(s, S) \in Seq(A) /\ Distinct(Keep(s, S))
         /\ ToSet(Keep(s, S)) = ToSet(s) \cap S
         /\ s # <<>> /\ Last(s) \in S => Keep(s, S) # <<>> /\ Last(Keep(s, S)) = Last(s)
  <1> DEFINE at == {i \in DOMAIN s : s[i] \in S}
             Before(i) == Cardinality({j \in at : j < i})
             c == Cardinality(at)
             place(n) == CHOOSE i \in at : Before(i) = n - 1
             r == [n \in 1..c |-> s[place(n)]]
  <1>1. Len(s) \in Nat /\ DOMAIN s = 1..Len(s) /\ \A i \in DOMAIN s : s[i] \in A
    OBVIOUS
  <1>2. at \in SUBSET (1..Len(s))
    BY <1>1
  <1>3. /\ IsFiniteSet(at) /\ c \in Nat
        /\ \A i \in at : Before(i) \in 0..(c - 1)
        /\ \A i, j \in at : Before(i) = Before(j) => i = j
        /\ \A n \in 0..(c - 1) : \E i \in at : Before(i) = n
    <2> HIDE DEF at
    <2>1. QED
      BY <1>1, <1>2, RanksAreTaken
  <1>4. Keep(s, S) = r
    BY DEF Keep
  <1> HIDE DEF Before
  <1>5. ASSUME NEW n \in 1..c PROVE place(n) \in at /\ Before(place(n)) = n - 1
    <2>1. n - 1 \in 0..(c - 1)
      BY <1>3
    <2>2. QED
      BY <1>3, <2>1
  <1>6. ASSUME NEW i \in at PROVE Before(i) + 1 \in 1..c /\ place(Before(i) + 1) = i
    <2>1. Before(i) + 1 \in 1..c /\ (Before(i) + 1) - 1 = Before(i)
      BY <1>3
    <2>2. place(Before(i) + 1) \in at /\ Before(place(Before(i) + 1)) = Before(i)
      BY <1>5, <2>1
    <2>3. QED
      BY <1>3, <2>1, <2>2
  <1> HIDE DEF place
  <1>7. r \in Seq(A) /\ Len(r) = c
    <2>1. \A n \in 1..c : s[place(n)] \in A
      BY <1>1, <1>5
    <2> HIDE DEF c, at
    <2>2. QED
      BY <1>3, <2>1
  <1>8. \A n \in 1..c : r[n] = s[place(n)]
    OBVIOUS
  <1>9. Distinct(r)
    <2> SUFFICES ASSUME NEW m \in 1..c, NEW n \in 1..c, s[place(m)] = s[place(n)]
                 PROVE  m = n
      BY DEF Distinct
    <2>1. place(m) = place(n)
      BY <1>5 DEF Distinct
    <2>2. m - 1 = n - 1
      BY <1>5, <2>1
    <2>3. QED
      BY <1>3, <2>2
  <1>10. ToSet(r) = ToSet(s) \cap S
    <2>1. ASSUME NEW n \in 1..c PROVE r[n] \in ToSet(s) \cap S
      BY <1>5, <1>8 DEF ToSet
    <2>2. ASSUME NEW x \in ToSet(s) \cap S PROVE \E n \in 1..c : r[n] = x
      <3>1. PICK i \in at : s[i] = x
        BY DEF ToSet
      <3>2. QED
        BY <1>6, <1>8, <3>1
    <2>3. ToSet(r) = {r[n] : n \in 1..c}
      BY DEF ToSet
    <2> HIDE DEF r, c, at
    <2>4. QED
      BY <2>1, <2>2, <2>3
  <1>11. ASSUME s # <<>>, Last(s) \in S PROVE r # <<>> /\ Last(r) = Last(s)
    <2> DEFINE l == Len(s)
    <2>1. l \in at
      BY <1>1, <1>11 DEF Last
    <2>2. Before(l) = c - 1
      <3>1. {j \in at : j < l} = at \ {l}
        BY <1>2
      <3>2. Cardinality(at \ {l}) = c - 1
        BY <1>3, <2>1, FS_RemoveElement
      <3>3. QED
        BY <3>1, <3>2 DEF Before
    <2>3. c \in 1..c /\ place(c) = l
      BY <1>3, <1>6, <2>1, <2>2
    <2>4. r[c] = s[l]
      BY <1>8, <2>3
    <2>5. QED
      BY <1>3, <1>7, <2>3, <2>4 DEF Last
  <1>12. QED
    BY <1>4, <1>7, <1>9, <1>10, <1>11

\* The two parts that a place divides a sequence without repetition into.
LEMMA PartsOfSequence ==
  ASSUME NEW A, NEW s \in Seq(A), Distinct(s), NEW n \in 0..Len(s)
  PROVE  LET first == {s[i] : i \in 1..n}
         IN  /\ SubSeq(s, 1, n) \in Seq(A) /\ Distinct(SubSeq(s, 1, n))
             /\ ToSet(SubSeq(s, 1, n)) = first /\ first \in SUBSET ToSet(s)
             /\ SubSeq(s, n + 1, Len(s)) \in Seq(A) /\ Distinct(SubSeq(s, n + 1, Len(s)))
             /\ ToSet(SubSeq(s, n + 1, Len(s))) = ToSet(s) \ first
  <1> DEFINE first == {s[i] : i \in 1..n}
             l == Len(s)
             a == SubSeq(s, 1, n)
             b == SubSeq(s, n + 1, l)
  <1>1. l \in Nat /\ n \in Nat /\ n <= l /\ DOMAIN s = 1..l
    OBVIOUS
  <1>2. a \in Seq(A) /\ Len(a) = n /\ \A i \in 1..n : a[i] = s[i]
    BY <1>1
  <1>3. b \in Seq(A) /\ Len(b) = l - n /\ \A i \in 1..(l - n) : b[i] = s[n + i]
    <2>1. n + 1 \in Int /\ l \in Int /\ \A i \in (n + 1)..l : s[i] \in A
      BY <1>1
    <2> HIDE DEF l
    <2>2. /\ b \in Seq(A) /\ Len(b) = IF n + 1 <= l THEN l - (n + 1) + 1 ELSE 0
          /\ \A i \in 1..(l - (n + 1) + 1) : b[i] = s[(n + 1) + i - 1]
      BY <2>1, SubSeqProperties
    <2>3. l - (n + 1) + 1 = l - n /\ \A i \in Int : (n + 1) + i - 1 = n + i
      BY <1>1
    <2> HIDE DEF b
    <2>4. QED
      BY <1>1, <2>2, <2>3
  <1>4. DOMAIN a = 1..n /\ DOMAIN b = 1..(l - n)
    BY <1>2, <1>3
  <1> HIDE DEF a, b, l
  <1>5. \A i, j \in 1..l : s[i] = s[j] => i = j
    BY <1>1 DEF Distinct
  <1>6. Distinct(a) /\ ToSet(a) = first /\ first \in SUBSET ToSet(s)
    <2>1. Distinct(a)
      BY <1>1, <1>2, <1>4, <1>5 DEF Distinct
    <2>2. ToSet(a) = first
      BY <1>2, <1>4 DEF ToSet
    <2>3. \A i \in 1..n : i \in DOMAIN s
      BY <1>1
    <2>4. first \in SUBSET ToSet(s)
      BY <2>3 DEF ToSet
    <2>5. QED
      BY <2>1, <2>2, <2>4
  <1>7. Distinct(b)
    <2> SUFFICES ASSUME NEW i \in 1..(l - n), NEW j \in 1..(l - n), b[i] = b[j] PROVE i = j
      BY <1>4 DEF Distinct
    <2>1. n + i \in 1..l /\ n + j \in 1..l /\ s[n + i] = s[n + j]
      BY <1>1, <1>3
    <2>2. n + i = n + j
      BY <1>5, <2>1
    <2>3. QED
      BY <1>1, <2>2
  <1>8. ToSet(b) = ToSet(s) \ first
    <2>1. ASSUME NEW i \in 1..(l - n) PROVE b[i] \in ToSet(s) /\ b[i] \notin first
      <3>1. n + i \in 1..l /\ n + i > n /\ b[i] = s[n + i]
        BY <1>1, <1>3
      <3>2. \A j \in 1..n : j \in 1..l /\ j # n + i
        BY <1>1, <3>1
      <3>3. QED
        BY <1>1, <1>5, <3>1, <3>2 DEF ToSet
    <2>2. ASSUME NEW x \in ToSet(s), x \notin first PROVE \E i \in 1..(l - n) : b[i] = x
      <3>1. PICK j \in 1..l : s[j] = x
        BY <1>1 DEF ToSet
      <3>2. j \notin 1..n
        BY <2>2, <3>1
      <3>3. j - n \in 1..(l - n) /\ n + (j - n) = j
        BY <1>1, <3>2
      <3>4. QED
        BY <1>3, <3>1, <3>3
    <2>3. ToSet(b) = {b[i] : i \in 1..(l - n)}
      BY <1>4 DEF ToSet
    <2> HIDE DEF first
    <2>4. QED
      BY <2>1, <2>2, <2>3
  <1>9. QED
    BY <1>2, <1>3, <1>6, <1>7, <1>8 DEF a, b, l

LEMMA AppendKeeps ==
  ASSUME NEW A, NEW s \in Seq(A), Distinct(s), NEW x \in A, x \notin ToSet(s)
  PROVE  /\ Append(s, x) \in Seq(A) /\ Distinct(Append(s, x))
         /\ ToSet(Append(s, x)) = ToSet(s) \cup {x}
         /\ Append(s, x) # <<>> /\ Last(Append(s, x)) = x
  <1> DEFINE r == Append(s, x)
             l == Len(s)
  <1>1. l \in Nat /\ DOMAIN s = 1..l
    OBVIOUS
  <1>2. /\ r \in Seq(A) /\ Len(r) = l + 1 /\ DOMAIN r = 1..(l + 1)
        /\ r[l + 1] = x /\ \A i \in 1..l : r[i] = s[i]
    OBVIOUS
  <1> HIDE DEF r, l
  <1>3. \A i \in 1..l : s[i] # x /\ s[i] \in ToSet(s)
    BY <1>1 DEF ToSet
  <1>4. \A i \in 1..(l + 1) : i \in 1..l \/ i = l + 1
    BY <1>1
  <1>5. Distinct(r)
    <2> SUFFICES ASSUME NEW i \in 1..(l + 1), NEW j \in 1..(l + 1), r[i] = r[j] PROVE i = j
      BY <1>2 DEF Distinct
    <2>1. CASE i \in 1..l /\ j \in 1..l
      BY <1>1, <1>2, <2>1 DEF Distinct
    <2>2. CASE ~(i \in 1..l /\ j \in 1..l)
      BY <1>2, <1>3, <1>4, <2>2
    <2>3. QED
      BY <2>1, <2>2
  <1>6. ToSet(r) = ToSet(s) \cup {x}
    <2>1. ToSet(r) = {r[i] : i \in 1..(l + 1)} /\ ToSet(s) = {s[i] : i \in 1..l}
      BY <1>1, <1>2 DEF ToSet
    <2>2. \A i \in 1..l : i \in 1..(l + 1)
      BY <1>1
    <2>3. l + 1 \in 1..(l + 1)
      BY <1>1
    <2>4. QED
      BY <1>2, <1>4, <2>1, <2>2, <2>3
  <1>7. r # <<>> /\ Last(r) = x
    BY <1>1, <1>2 DEF Last
  <1>8. QED
    BY <1>2, <1>5, <1>6, <1>7 DEF r

LEMMA ContainsIsMember ==
  ASSUME NEW A, NEW s \in Seq(A), NEW x
  PROVE  Contains(s, x) <=> x \in ToSet(s)
  BY DEF Contains, ToSet

LEMMA WithoutKeeps ==
  ASSUME NEW A, NEW s \in Seq(A), Distinct(s), NEW x
  PROVE  /\ Without(s, x) \in Seq(A) /\ Distinct(Without(s, x))
         /\ ToSet(Without(s, x)) = ToSet(s) \ {x}
         /\ s # <<>> /\ Last(s) # x =>
              Without(s, x) # <<>> /\ Last(Without(s, x)) = Last(s)
  <1> DEFINE R == ToSet(s) \ {x}
  <1>1. /\ Keep(s, R) \in Seq(A) /\ Distinct(Keep(s, R))
        /\ ToSet(Keep(s, R)) = ToSet(s) \cap R
        /\ s # <<>> /\ Last(s) \in R => Keep(s, R) # <<>> /\ Last(Keep(s, R)) = Last(s)
    <2> HIDE DEF R
    <2>1. QED
      BY KeepKeeps
  <1>2. s # <<>> => Last(s) \in ToSet(s)
    BY DEF Last, ToSet
  <1>3. QED
    BY <1>1, <1>2 DEF Without

-----------------------------------------------------------------------------
(* The memory tier.                                                        *)

MemoryExact ==
  /\ memory \in Seq(Keys) /\ Distinct(memory)
  /\ memoryBytes = SizeOf(ToSet(memory)) /\ memoryBytes <= MemoryBudget

LEMMA Weights ==
  Size \in [Keys -> Nat] /\ EntryBytes \in [Keys -> Nat]
  BY SizeAssumption DEF EntryBytes

\* Forgetting a key gives back what it took.
LEMMA ForgottenKey ==
  ASSUME MemoryExact, NEW k \in Keys
  PROVE  LET bytes == memoryBytes - (IF Contains(memory, k) THEN Size[k] ELSE 0)
         IN  /\ bytes = SizeOf(ToSet(Without(memory, k))) /\ bytes \in Nat
             /\ bytes <= MemoryBudget
  <1> DEFINE keys == ToSet(memory)
             bytes == memoryBytes - (IF Contains(memory, k) THEN Size[k] ELSE 0)
  <1>1. /\ memory \in Seq(Keys) /\ Distinct(memory)
        /\ memoryBytes = Total(Size, keys) /\ memoryBytes <= MemoryBudget
    BY DEF MemoryExact, SizeOf
  <1>2. ToSet(Without(memory, k)) = keys \ {k}
    BY <1>1, WithoutKeeps
  <1>3. IsFiniteSet(keys) /\ keys \in SUBSET Keys
    BY <1>1, MembersAreFinite
  <1>4. Total(Size, keys) \in Nat /\ Total(Size, keys \ {k}) \in Nat
    <2>1. keys \ {k} \in SUBSET Keys /\ IsFiniteSet(keys \ {k})
      BY <1>3, FS_Subset
    <2>2. QED
      BY <1>3, <2>1, TotalType, Weights
  <1>5. Size[k] \in Nat /\ MemoryBudget \in Nat
    BY SizeAssumption, BudgetAssumption
  <1>6. CASE k \in keys
    <2>1. Total(Size, keys) = Size[k] + Total(Size, keys \ {k})
      BY <1>3, <1>6, TotalWithout, Weights
    <2>2. Contains(memory, k)
      BY <1>1, <1>6, ContainsIsMember
    <2>3. bytes = memoryBytes - Size[k]
      BY <2>2
    <2>4. SizeOf(ToSet(Without(memory, k))) = Total(Size, keys \ {k})
      BY <1>2 DEF SizeOf
    <2> HIDE DEF keys, bytes
    <2>5. bytes = Total(Size, keys \ {k}) /\ bytes <= MemoryBudget
      BY ONLY <1>1, <1>4, <1>5, <2>1, <2>3
    <2>6. QED
      BY <1>4, <2>4, <2>5 DEF bytes
  <1>7. CASE k \notin keys
    <2>1. keys \ {k} = keys
      BY <1>7
    <2>2. ~Contains(memory, k)
      BY <1>1, <1>7, ContainsIsMember
    <2>3. bytes = memoryBytes
      BY <1>1, <1>4, <2>2
    <2>4. SizeOf(ToSet(Without(memory, k))) = Total(Size, keys)
      BY <1>2, <2>1 DEF SizeOf
    <2> HIDE DEF keys, bytes
    <2>5. QED
      BY <1>1, <1>4, <2>3, <2>4 DEF bytes
  <1>8. QED
    BY <1>6, <1>7

LEMMA InsertKeepsMemory ==
  ASSUME MemoryExact, NEW k \in Keys, Insert(k)
  PROVE  MemoryExact'
  <1>1. CASE Size[k] > MemoryBudget
    BY <1>1 DEF Insert, ram, MemoryExact
  <1>2. CASE ~(Size[k] > MemoryBudget)
    <2> DEFINE rest == Without(memory, k)
               bytes == memoryBytes - (IF Contains(memory, k) THEN Size[k] ELSE 0)
               first(n) == {rest[i] : i \in 1..n}
               Left(n) == bytes - SizeOf(first(n))
               fits == {n \in 0..Len(rest) : Left(n) + Size[k] <= MemoryBudget}
               e == Min(fits)
               kept == SubSeq(rest, e + 1, Len(rest))
    <2>1. memory' = Append(kept, k) /\ memoryBytes' = Left(e) + Size[k]
      BY <1>2 DEF Insert
    <2>2. Size[k] \in Nat /\ MemoryBudget \in Nat /\ Size[k] <= MemoryBudget
      BY <1>2, SizeAssumption, BudgetAssumption
    <2>3. bytes = SizeOf(ToSet(rest)) /\ bytes \in Nat
      BY ForgottenKey
    <2>4. rest \in Seq(Keys) /\ Distinct(rest) /\ ToSet(rest) = ToSet(memory) \ {k}
      BY WithoutKeeps DEF MemoryExact
    <2>5. IsFiniteSet(ToSet(rest)) /\ ToSet(rest) \in SUBSET Keys
      <3> HIDE DEF rest
      <3>1. QED
        BY <2>4, MembersAreFinite
    <2> HIDE DEF rest, bytes
    <2>6. ASSUME NEW n \in 0..Len(rest)
          PROVE  Left(n) = SizeOf(ToSet(rest) \ first(n)) /\ Left(n) \in Nat
      <3>1. first(n) \in SUBSET ToSet(rest)
        BY <2>4, PartsOfSequence
      <3>2. /\ Total(Size, ToSet(rest)) = Total(Size, first(n)) + Total(Size, ToSet(rest) \ first(n))
            /\ Total(Size, first(n)) \in Nat /\ Total(Size, ToSet(rest) \ first(n)) \in Nat
        <4> HIDE DEF first
        <4> SUFFICES ASSUME NEW S \in SUBSET Keys, IsFiniteSet(S), NEW R \in SUBSET S
                     PROVE  /\ Total(Size, S) = Total(Size, R) + Total(Size, S \ R)
                            /\ Total(Size, R) \in Nat /\ Total(Size, S \ R) \in Nat
          BY <2>5, <3>1, Zenon
        <4>1. Total(Size, S) = Total(Size, R) + Total(Size, S \ R)
          BY TotalOfParts, Weights
        <4>2. Total(Size, R) \in Nat
          BY TotalOfParts, Weights
        <4>3. Total(Size, S \ R) \in Nat
          BY TotalOfParts, Weights
        <4>4. QED
          BY <4>1, <4>2, <4>3
      <3> HIDE DEF first
      <3>3. QED
        BY <2>3, <3>2 DEF SizeOf
    <2>7. Len(rest) \in fits
      <3>1. Len(rest) \in Nat /\ first(Len(rest)) = ToSet(rest)
        BY <2>4 DEF ToSet
      <3>2. Left(Len(rest)) = 0
        <4>1. ToSet(rest) \ first(Len(rest)) = {}
          BY <3>1
        <4>2. Total(Size, {}) = 0
          BY TotalOfNone
        <4>3. Len(rest) \in 0..Len(rest)
          BY <3>1
        <4> HIDE DEF first, Left
        <4>4. QED
          BY <2>6, <4>1, <4>2, <4>3 DEF SizeOf
      <3> HIDE DEF Left
      <3>3. QED
        BY <2>2, <3>1, <3>2
    <2>8. e \in fits
      <3>1. fits \in SUBSET Nat /\ fits # {}
        <4>1. Len(rest) \in Nat
          BY <2>4
        <4> HIDE DEF Left
        <4>2. QED
          BY <2>7, <4>1
      <3> HIDE DEF fits
      <3>2. QED
        BY <3>1, LeastExists
    <2>9. e \in 0..Len(rest) /\ Left(e) + Size[k] <= MemoryBudget
      BY <2>8
    <2> HIDE DEF e
    <2>10. kept \in Seq(Keys) /\ Distinct(kept) /\ ToSet(kept) = ToSet(rest) \ first(e)
      BY <2>4, <2>9, PartsOfSequence
    <2>11. Left(e) = SizeOf(ToSet(kept)) /\ Left(e) \in Nat
      <3> HIDE DEF first, Left, kept
      <3>1. QED
        BY <2>6, <2>9, <2>10
    <2> HIDE DEF kept, first, Left
    <2>12. k \notin ToSet(kept) /\ IsFiniteSet(ToSet(kept)) /\ ToSet(kept) \in SUBSET Keys
      <3>1. IsFiniteSet(ToSet(kept)) /\ ToSet(kept) \in SUBSET Keys
        BY <2>10, MembersAreFinite
      <3>2. QED
        BY <2>4, <2>10, <3>1
    <2>13. /\ memory' \in Seq(Keys) /\ Distinct(memory')
           /\ ToSet(memory') = ToSet(kept) \cup {k}
      BY <2>1, <2>10, <2>12, AppendKeeps
    <2>14. Total(Size, ToSet(kept) \cup {k}) = Size[k] + Total(Size, ToSet(kept))
      BY <2>12, TotalWith, Weights
    <2>15. memoryBytes' = SizeOf(ToSet(memory')) /\ memoryBytes' <= MemoryBudget
      BY <2>1, <2>2, <2>9, <2>11, <2>13, <2>14 DEF SizeOf
    <2>16. QED
      BY <2>13, <2>15 DEF MemoryExact
  <1>3. QED
    BY <1>1, <1>2

-----------------------------------------------------------------------------
(* The disk tier.                                                          *)

\* Every file that exists is in the directory's order, once.
DirectoryTypes ==
  /\ file \in [Names -> {Absent} \cup SUBSET (Threads \cup {Dead})]
  /\ order \in Seq(Names) /\ Distinct(order)
  /\ ToSet(order) = {name \in Names : file[name] # Absent}

Totals == [bytes : Nat, entries : Nat]
Within == DiskBytes(Stored) <= DiskBudget
Exact == stats = Inventory /\ Within
Newest(name) == order # <<>> /\ Last(order) = name

LEMMA NamesOfKeys ==
  /\ \A k \in Keys : /\ Entry(k) \in Names /\ Temporary(k) \in Names
                     /\ Entry(k) \in Entries /\ Temporary(k) \notin Entries
                     /\ Entry(k)[1] = k /\ Temporary(k)[2] = "temporary"
  /\ \A k, l \in Keys : /\ Entry(k) = Entry(l) => k = l
                        /\ Temporary(k) = Temporary(l) => k = l
                        /\ Entry(k) # Temporary(l)
  /\ \A name \in Names : \E k \in Keys : name = Entry(k) \/ name = Temporary(k)
  /\ Entries \in SUBSET Names
  BY DEF Entry, Temporary, Names, Entries

LEMMA StoredIsFinite ==
  ASSUME DirectoryTypes
  PROVE  /\ IsFiniteSet(Stored) /\ Stored \in SUBSET Keys
         /\ \A R \in SUBSET Stored : IsFiniteSet(R) /\ DiskBytes(R) \in Nat /\ Cardinality(R) \in Nat
  <1> DEFINE f == [k \in Stored |-> Entry(k)]
             E == ToSet(order)
  <1>1. Stored \in SUBSET Keys
    BY DEF Stored
  <1>2. IsFiniteSet(E)
    BY MembersAreFinite DEF DirectoryTypes
  <1>3. f \in Injection(Stored, E)
    <2>1. \A k \in Stored : Entry(k) \in E
      BY NamesOfKeys DEF DirectoryTypes, Stored
    <2>2. f \in [Stored -> E]
      BY <2>1
    <2>3. \A k, l \in Stored : f[k] = f[l] => k = l
      BY <1>1, NamesOfKeys
    <2> HIDE DEF f, E
    <2>4. QED
      BY <2>2, <2>3 DEF Injection, IsInjective
  <1>4. IsFiniteSet(Stored)
    <2> HIDE DEF f, E
    <2>1. QED
      BY <1>2, <1>3, FS_Injection
  <1>5. ASSUME NEW R \in SUBSET Stored
        PROVE  IsFiniteSet(R) /\ DiskBytes(R) \in Nat /\ Cardinality(R) \in Nat
    <2>1. IsFiniteSet(R) /\ R \in SUBSET Keys
      BY <1>1, <1>4, FS_Subset
    <2>2. DiskBytes(R) \in Nat
      BY <2>1, TotalType, Weights DEF DiskBytes
    <2>3. QED
      BY <2>1, <2>2, FS_CardinalityType
  <1>6. QED
    BY <1>1, <1>4, <1>5

\* What the entries weigh without some of them.
LEMMA StoredParts ==
  ASSUME DirectoryTypes, NEW R \in SUBSET Stored
  PROVE  /\ DiskBytes(Stored) = DiskBytes(R) + DiskBytes(Stored \ R)
         /\ DiskBytes(R) \in Nat /\ DiskBytes(Stored \ R) \in Nat /\ DiskBytes(Stored) \in Nat
  <1>1. IsFiniteSet(Stored) /\ Stored \in SUBSET Keys
    BY StoredIsFinite
  <1>2. Total(EntryBytes, Stored) = Total(EntryBytes, R) + Total(EntryBytes, Stored \ R)
    BY <1>1, TotalOfParts, Weights
  <1>3. DiskBytes(R) \in Nat /\ DiskBytes(Stored \ R) \in Nat /\ DiskBytes(Stored) \in Nat
    BY StoredIsFinite
  <1>4. QED
    BY <1>2, <1>3 DEF DiskBytes

LEMMA StoredWithout ==
  ASSUME DirectoryTypes, NEW k \in Stored
  PROVE  /\ DiskBytes(Stored) = EntryBytes[k] + DiskBytes(Stored \ {k})
         /\ Cardinality(Stored) = Cardinality(Stored \ {k}) + 1
         /\ EntryBytes[k] \in Nat /\ DiskBytes(Stored \ {k}) \in Nat
         /\ Cardinality(Stored \ {k}) \in Nat
  <1>1. IsFiniteSet(Stored) /\ Stored \in SUBSET Keys
    BY StoredIsFinite
  <1>2. Total(EntryBytes, Stored) = EntryBytes[k] + Total(EntryBytes, Stored \ {k})
    BY <1>1, TotalWithout, Weights
  <1>3. Cardinality(Stored \ {k}) = Cardinality(Stored) - 1 /\ Cardinality(Stored) \in Nat
    BY <1>1, FS_RemoveElement, FS_CardinalityType
  <1>4. Stored \ {k} \in SUBSET Stored
    OBVIOUS
  <1>5. DiskBytes(Stored \ {k}) \in Nat /\ Cardinality(Stored \ {k}) \in Nat
    BY <1>4, StoredIsFinite
  <1>6. EntryBytes[k] \in Nat
    BY <1>1, Weights
  <1>7. QED
    BY <1>2, <1>3, <1>5, <1>6 DEF DiskBytes

LEMMA InventoryType ==
  ASSUME DirectoryTypes
  PROVE  Inventory \in Totals
  <1>1. Stored \in SUBSET Stored
    OBVIOUS
  <1>2. DiskBytes(Stored) \in Nat /\ Cardinality(Stored) \in Nat
    BY <1>1, StoredIsFinite
  <1>3. QED
    BY <1>2 DEF Inventory, Totals

\* Removing an entry leaves the other files, and the newest of them newest.
LEMMA UnlinkRemoves ==
  ASSUME DirectoryTypes, NEW k \in Keys, Unlink(Entry(k))
  PROVE  /\ DirectoryTypes' /\ Stored' = Stored \ {k}
         /\ \A name \in Names : file'[name] = (IF name = Entry(k) THEN Absent ELSE file[name])
         /\ \A name \in Names : name # Entry(k) /\ Newest(name) => Newest(name)'
  <1>1. Entry(k) \in Names
    BY NamesOfKeys
  <1>2. /\ file \in [Names -> {Absent} \cup SUBSET (Threads \cup {Dead})]
        /\ order \in Seq(Names) /\ Distinct(order)
        /\ ToSet(order) = {name \in Names : file[name] # Absent}
    BY DEF DirectoryTypes
  <1>3. /\ file' \in [Names -> {Absent} \cup SUBSET (Threads \cup {Dead})]
        /\ \A name \in Names : file'[name] = (IF name = Entry(k) THEN Absent ELSE file[name])
    BY <1>1, <1>2 DEF Unlink
  <1>4. /\ order' \in Seq(Names) /\ Distinct(order') /\ ToSet(order') = ToSet(order) \ {Entry(k)}
        /\ order # <<>> /\ Last(order) # Entry(k) => order' # <<>> /\ Last(order') = Last(order)
    BY <1>2, WithoutKeeps DEF Unlink
  <1>5. ToSet(order') = {name \in Names : file'[name] # Absent}
    BY <1>2, <1>3, <1>4
  <1>6. DirectoryTypes'
    BY <1>3, <1>4, <1>5 DEF DirectoryTypes
  <1>7. Stored' = Stored \ {k}
    <2>1. \A l \in Keys : Entry(l) \in Names /\ (Entry(l) = Entry(k) <=> l = k)
      BY NamesOfKeys
    <2>2. QED
      BY <1>3, <2>1 DEF Stored
  <1>8. \A name \in Names : name # Entry(k) /\ Newest(name) => Newest(name)'
    BY <1>4 DEF Newest
  <1>9. QED
    BY <1>3, <1>6, <1>7, <1>8

\* The entries that eviction removes are stored and are enough, and the newest is
\* none of them when it fits.
LEMMA VictimsSuffice ==
  ASSUME DirectoryTypes
  PROVE  /\ Victims \in Seq(Keys) /\ Distinct(Victims) /\ ToSet(Victims) \in SUBSET Stored
         /\ DiskBytes(Stored \ ToSet(Victims)) <= DiskBudget
         /\ \A k \in Keys : Newest(Entry(k)) /\ EntryBytes[k] <= DiskBudget =>
              k \in Stored /\ k \notin ToSet(Victims)
  <1> DEFINE byAge == Keep(order, Entries)
             keys == [i \in 1..Len(byAge) |-> byAge[i][1]]
             first(n) == {keys[i] : i \in 1..n}
             Fits(n) == DiskBytes(Stored) - DiskBytes(first(n)) <= DiskBudget
             fits == {n \in 0..Len(keys) : Fits(n)}
             e == Min(fits)
  <1>1. Victims = SubSeq(keys, 1, e)
    BY DEF Victims
  <1>2. /\ byAge \in Seq(Names) /\ Distinct(byAge) /\ ToSet(byAge) = ToSet(order) \cap Entries
        /\ order # <<>> /\ Last(order) \in Entries => byAge # <<>> /\ Last(byAge) = Last(order)
    BY KeepKeeps DEF DirectoryTypes
  <1>3. ToSet(order) = {name \in Names : file[name] # Absent}
    BY DEF DirectoryTypes
  <1> HIDE DEF byAge
  <1>4. Len(byAge) \in Nat /\ DOMAIN byAge = 1..Len(byAge)
    BY <1>2
  <1>5. \A i \in 1..Len(byAge) : byAge[i] = Entry(keys[i]) /\ keys[i] \in Stored
    <2> TAKE i \in 1..Len(byAge)
    <2>1. byAge[i] \in Entries /\ byAge[i] \in ToSet(order)
      BY <1>2, <1>4 DEF ToSet
    <2>2. PICK k \in Keys : byAge[i] = Entry(k)
      BY <2>1 DEF Entries, Entry
    <2>3. keys[i] = k
      BY <2>2, NamesOfKeys
    <2>4. QED
      BY <1>3, <2>1, <2>2, <2>3 DEF Stored
  <1>6. keys \in Seq(Keys) /\ Len(keys) = Len(byAge) /\ DOMAIN keys = 1..Len(byAge)
    <2>1. \A i \in 1..Len(byAge) : byAge[i][1] \in Keys
      BY <1>5 DEF Stored
    <2>2. QED
      BY <1>4, <2>1
  <1> HIDE DEF keys
  <1>7. Distinct(keys)
    BY <1>2, <1>4, <1>5, <1>6 DEF Distinct
  <1>8. ToSet(keys) = Stored
    <2>1. ASSUME NEW k \in Stored PROVE \E i \in 1..Len(byAge) : keys[i] = k
      <3>1. Entry(k) \in ToSet(byAge) /\ k \in Keys
        BY <1>2, <1>3, NamesOfKeys DEF Stored
      <3>2. PICK i \in 1..Len(byAge) : byAge[i] = Entry(k)
        BY <1>4, <3>1 DEF ToSet
      <3>3. keys[i] = k
        BY <1>5, <3>1, <3>2, NamesOfKeys DEF Stored
      <3>4. QED
        BY <3>3
    <2>2. ToSet(keys) = {keys[i] : i \in 1..Len(byAge)}
      BY <1>6 DEF ToSet
    <2>3. QED
      BY <1>5, <2>1, <2>2
  <1>9. ASSUME NEW n \in 0..Len(keys)
        PROVE  /\ first(n) \in SUBSET Stored
               /\ Fits(n) <=> DiskBytes(Stored \ first(n)) <= DiskBudget
    <2>1. first(n) \in SUBSET Stored
      BY <1>6, <1>7, <1>8, PartsOfSequence
    <2>2. /\ DiskBytes(Stored) = DiskBytes(first(n)) + DiskBytes(Stored \ first(n))
          /\ DiskBytes(first(n)) \in Nat /\ DiskBytes(Stored \ first(n)) \in Nat
      <3> HIDE DEF first
      <3>1. QED
        BY <2>1, StoredParts
    <2>3. DiskBudget \in Nat
      BY BudgetAssumption
    <2> HIDE DEF first
    <2>4. QED
      BY <2>1, <2>2, <2>3
  <1>10. Len(keys) \in fits
    <2>1. Len(keys) \in 0..Len(keys) /\ first(Len(keys)) = Stored
      BY <1>4, <1>6, <1>8 DEF ToSet
    <2>2. Stored \ first(Len(keys)) = {} /\ DiskBytes({}) = 0
      BY <2>1, TotalOfNone DEF DiskBytes
    <2>3. 0 <= DiskBudget
      BY BudgetAssumption
    <2> HIDE DEF first, Fits
    <2>4. QED
      BY <1>9, <2>1, <2>2, <2>3
  <1>11. e \in fits /\ \A n \in fits : e <= n
    <2>1. fits \in SUBSET Nat /\ fits # {}
      <3>1. Len(keys) \in Nat
        BY <1>4, <1>6
      <3> HIDE DEF Fits
      <3>2. QED
        BY <1>10, <3>1
    <2> HIDE DEF fits
    <2>2. QED
      BY <2>1, LeastExists
  <1> HIDE DEF e, Fits
  <1>12. e \in 0..Len(keys) /\ DiskBytes(Stored \ first(e)) <= DiskBudget
    <2> HIDE DEF first
    <2>1. QED
      BY <1>9, <1>11
  <1>13. /\ Victims \in Seq(Keys) /\ Distinct(Victims) /\ ToSet(Victims) = first(e)
         /\ first(e) \in SUBSET Stored
    BY <1>1, <1>6, <1>7, <1>8, <1>12, PartsOfSequence
  <1>14. ASSUME NEW k \in Keys, Newest(Entry(k)), EntryBytes[k] <= DiskBudget
         PROVE  k \in Stored /\ k \notin first(e)
    <2> DEFINE l == Len(keys)
    <2>1. byAge # <<>> /\ Last(byAge) = Entry(k)
      BY <1>2, <1>14, NamesOfKeys DEF Newest
    <2>2. l \in Nat /\ l \in 1..l /\ keys[l] = k
      <3>1. l \in Nat /\ l # 0 /\ l = Len(byAge)
        BY <1>2, <1>4, <1>6, <2>1
      <3>2. l \in 1..l
        BY <3>1
      <3>3. Entry(keys[l]) = Entry(k) /\ keys[l] \in Keys
        BY <1>5, <2>1, <3>1, <3>2 DEF Last, Stored
      <3>4. QED
        BY <3>1, <3>2, <3>3, NamesOfKeys
    <2>3. k \in Stored
      BY <1>5, <1>6, <2>2
    <2>4. l - 1 \in 0..l /\ \A i \in 1..l : i \in 1..(l - 1) \/ i = l
      BY <2>2
    <2>5. Stored \ first(l - 1) = {k}
      <3>1. k \notin first(l - 1)
        <4>1. \A i \in 1..(l - 1) : i \in 1..l /\ i # l
          BY <2>2
        <4>2. QED
          BY <1>6, <1>7, <2>2, <4>1 DEF Distinct
      <3>2. \A x \in Stored : x = k \/ x \in first(l - 1)
        BY <1>6, <1>8, <2>2, <2>4 DEF ToSet
      <3>3. QED
        BY <2>3, <3>1, <3>2
    <2>6. DiskBytes({k}) = EntryBytes[k]
      <3>1. k \notin {} /\ {} \cup {k} = {k} /\ {} \in SUBSET Keys /\ IsFiniteSet({})
        BY FS_EmptySet
      <3>2. Total(EntryBytes, {} \cup {k}) = EntryBytes[k] + Total(EntryBytes, {})
        BY <3>1, TotalWith, Weights
      <3>3. EntryBytes[k] \in Nat /\ Total(EntryBytes, {}) = 0
        BY Weights, TotalOfNone
      <3>4. QED
        BY <3>1, <3>2, <3>3 DEF DiskBytes
    <2>7. l - 1 \in fits
      <3> HIDE DEF first
      <3>1. QED
        BY <1>9, <1>14, <2>4, <2>5, <2>6
    <2>8. e <= l - 1 /\ e \in Nat
      BY <1>11, <1>12, <2>2, <2>7
    <2>9. \A i \in 1..e : i \in 1..l /\ i # l
      BY <2>2, <2>8
    <2>10. k \notin first(e)
      BY <1>6, <1>7, <2>2, <2>9 DEF Distinct
    <2>11. QED
      BY <2>3, <2>10
  <1> HIDE DEF first
  <1>15. QED
    BY <1>12, <1>13, <1>14

LEMMA ConcatKeeps ==
  ASSUME NEW A, NEW s \in Seq(A), NEW r \in Seq(A), Distinct(s), Distinct(r),
         ToSet(s) \cap ToSet(r) = {}
  PROVE  /\ s \o r \in Seq(A) /\ Distinct(s \o r) /\ ToSet(s \o r) = ToSet(s) \cup ToSet(r)
         /\ r # <<>> => s \o r # <<>> /\ Last(s \o r) = Last(r)
  <1> DEFINE m == Len(s)
             n == Len(r)
             b == s \o r
  <1>1. /\ m \in Nat /\ n \in Nat /\ DOMAIN s = 1..m /\ DOMAIN r = 1..n
        /\ r # <<>> => n > 0
    OBVIOUS
  <1>2. b \in Seq(A) /\ Len(b) = m + n /\ DOMAIN b = 1..(m + n)
    OBVIOUS
  <1>3. /\ \A i \in 1..m : i \in 1..(m + n) /\ b[i] = s[i]
        /\ \A j \in 1..n : m + j \in 1..(m + n) /\ b[m + j] = r[j]
    <2>1. \A i \in 1..(m + n) : b[i] = IF i <= m THEN s[i] ELSE r[i - m]
      BY ConcatProperties
    <2> HIDE DEF b, m, n
    <2>2. \A i \in 1..m : i \in 1..(m + n) /\ i <= m
      BY <1>1
    <2>3. \A j \in 1..n : m + j \in 1..(m + n) /\ ~(m + j <= m) /\ (m + j) - m = j
      BY <1>1
    <2>4. QED
      BY <2>1, <2>2, <2>3
  <1> HIDE DEF b, m, n
  <1>4. \A i \in 1..(m + n) : i \in 1..m \/ \E j \in 1..n : i = m + j
    <2> TAKE i \in 1..(m + n)
    <2>1. CASE i <= m
      BY <1>1, <2>1
    <2>2. CASE ~(i <= m)
      <3>1. i - m \in 1..n /\ i = m + (i - m)
        BY <1>1, <2>2
      <3>2. QED
        BY <3>1
    <2>3. QED
      BY <2>1, <2>2
  <1>5. /\ \A i \in 1..m : s[i] \in ToSet(s)
        /\ \A j \in 1..n : r[j] \in ToSet(r)
    BY <1>1 DEF ToSet
  <1>6. Distinct(b)
    <2> SUFFICES ASSUME NEW i \in 1..(m + n), NEW j \in 1..(m + n), b[i] = b[j] PROVE i = j
      BY <1>2 DEF Distinct
    <2>1. CASE i \in 1..m /\ j \in 1..m
      BY <1>1, <1>3, <2>1 DEF Distinct
    <2>2. CASE i \in 1..m /\ j \notin 1..m
      BY <1>3, <1>4, <1>5, <2>2
    <2>3. CASE i \notin 1..m /\ j \in 1..m
      BY <1>3, <1>4, <1>5, <2>3
    <2>4. CASE i \notin 1..m /\ j \notin 1..m
      <3>1. PICK x \in 1..n : i = m + x
        BY <1>4, <2>4
      <3>2. PICK y \in 1..n : j = m + y
        BY <1>4, <2>4
      <3>3. r[x] = r[y]
        BY <1>3, <3>1, <3>2
      <3>4. QED
        BY <1>1, <3>1, <3>2, <3>3 DEF Distinct
    <2>5. QED
      BY <2>1, <2>2, <2>3, <2>4
  <1>7. ToSet(b) = ToSet(s) \cup ToSet(r)
    <2>1. /\ ToSet(b) = {b[i] : i \in 1..(m + n)}
          /\ ToSet(s) = {s[i] : i \in 1..m} /\ ToSet(r) = {r[i] : i \in 1..n}
      BY <1>1, <1>2 DEF ToSet
    <2>2. \A i \in 1..(m + n) : b[i] \in ToSet(s) \cup ToSet(r)
      BY <1>3, <1>4, <1>5
    <2>3. ToSet(s) \in SUBSET ToSet(b)
      BY <1>3, <2>1
    <2>4. ToSet(r) \in SUBSET ToSet(b)
      BY <1>3, <2>1
    <2>5. QED
      BY <2>1, <2>2, <2>3, <2>4
  <1>8. ASSUME r # <<>> PROVE b # <<>> /\ Last(b) = Last(r)
    <2>1. n \in 1..n /\ m + n > 0
      BY <1>1, <1>8
    <2>2. b[m + n] = r[n] /\ Len(b) = m + n /\ Len(r) = n
      BY <1>2, <1>3, <2>1 DEF n
    <2>3. b # <<>>
      BY <2>1, <2>2
    <2>4. QED
      BY <2>2, <2>3 DEF Last
  <1>9. QED
    BY <1>2, <1>6, <1>7, <1>8 DEF b

\* The steps that change files, other than removing an entry.

LEMMA PutOpens ==
  ASSUME DirectoryTypes, NEW k \in Keys, NEW t \in Threads, Put(t, k)
  PROVE  /\ DirectoryTypes' /\ Stored' = Stored /\ Newest(Temporary(k))'
         /\ t \in file'[Temporary(k)]
         /\ \A name \in Names, u \in Threads :
              file'[name] # Absent /\ u \in file'[name] =>
                u = t \/ (file[name] # Absent /\ u \in file[name])
  <1> DEFINE name == Temporary(k)
             writers == (IF file[name] = Absent THEN {} ELSE file[name]) \cup {t}
  <1>1. name \in Names
    BY NamesOfKeys
  <1>2. /\ file \in [Names -> {Absent} \cup SUBSET (Threads \cup {Dead})]
        /\ order \in Seq(Names) /\ Distinct(order)
        /\ ToSet(order) = {n \in Names : file[n] # Absent}
    BY DEF DirectoryTypes
  <1>3. writers \in SUBSET (Threads \cup {Dead}) /\ writers # Absent
    <2>1. writers \in SUBSET (Threads \cup {Dead})
      BY <1>1, <1>2
    <2>2. QED
      BY <2>1, AbsentAssumption
  <1>4. /\ file' = [file EXCEPT ![name] = writers]
        /\ order' = Append(Without(order, name), name)
    BY DEF Put
  <1>5. /\ file' \in [Names -> {Absent} \cup SUBSET (Threads \cup {Dead})]
        /\ \A n \in Names : file'[n] = IF n = name THEN writers ELSE file[n]
    <2> HIDE DEF writers, name
    <2>1. QED
      BY <1>1, <1>2, <1>3, <1>4
  <1>6. /\ Without(order, name) \in Seq(Names) /\ Distinct(Without(order, name))
        /\ ToSet(Without(order, name)) = ToSet(order) \ {name}
    BY <1>2, WithoutKeeps
  <1>7. /\ order' \in Seq(Names) /\ Distinct(order') /\ ToSet(order') = ToSet(order) \cup {name}
        /\ order' # <<>> /\ Last(order') = name
    <2> HIDE DEF name
    <2>1. name \notin ToSet(Without(order, name))
      BY <1>6
    <2>2. /\ order' \in Seq(Names) /\ Distinct(order')
          /\ ToSet(order') = ToSet(Without(order, name)) \cup {name}
          /\ order' # <<>> /\ Last(order') = name
      BY <1>1, <1>4, <1>6, <2>1, AppendKeeps
    <2>3. QED
      BY <1>6, <2>2
  <1>8. ToSet(order') = {n \in Names : file'[n] # Absent}
    <2> HIDE DEF name, writers
    <2>1. QED
      BY <1>1, <1>2, <1>3, <1>5, <1>7
  <1>9. DirectoryTypes'
    BY <1>5, <1>7, <1>8 DEF DirectoryTypes
  <1>10. Stored' = Stored
    <2>1. \A l \in Keys : Entry(l) \in Names /\ Entry(l) # name
      BY NamesOfKeys
    <2> HIDE DEF name, writers
    <2>2. QED
      BY <1>5, <2>1 DEF Stored
  <1>11. \A n \in Names, u \in Threads :
           file'[n] # Absent /\ u \in file'[n] => u = t \/ (file[n] # Absent /\ u \in file[n])
    BY <1>5
  <1>12. t \in file'[name]
    BY <1>1, <1>5
  <1>13. QED
    BY <1>7, <1>9, <1>10, <1>11, <1>12 DEF Newest

LEMMA WrittenCloses ==
  ASSUME DirectoryTypes, NEW t \in Threads, Written(t)
  PROVE  /\ DirectoryTypes' /\ Stored' = Stored
         /\ \A name \in Names : t \in file[name] /\ Newest(name) => Newest(name)'
         /\ \A name \in Names, u \in Threads :
              file'[name] # Absent /\ u \in file'[name] =>
                u # t /\ file[name] # Absent /\ u \in file[name]
  <1> DEFINE mine == {name \in ToSet(order) : t \in file[name]}
             a == Keep(order, ToSet(order) \ mine)
             b == Keep(order, mine)
  <1>1. /\ file \in [Names -> {Absent} \cup SUBSET (Threads \cup {Dead})]
        /\ order \in Seq(Names) /\ Distinct(order)
        /\ ToSet(order) = {n \in Names : file[n] # Absent}
    BY DEF DirectoryTypes
  <1>2. /\ file' = [name \in Names |-> IF file[name] = Absent THEN Absent ELSE file[name] \ {t}]
        /\ order' = a \o b
    BY DEF Written
  <1>3. \A n \in Names : file[n] # Absent =>
          /\ file'[n] = file[n] \ {t} /\ file'[n] # Absent
          /\ file'[n] \in SUBSET (Threads \cup {Dead})
    <2> TAKE n \in Names
    <2> HAVE file[n] # Absent
    <2>1. file[n] \in SUBSET (Threads \cup {Dead}) /\ file'[n] = file[n] \ {t}
      BY <1>1, <1>2
    <2>2. file[n] \ {t} \in SUBSET (Threads \cup {Dead})
      BY <2>1
    <2>3. file[n] \ {t} # Absent
      BY <2>2, AbsentAssumption
    <2>4. QED
      BY <2>1, <2>2, <2>3
  <1>4. \A n \in Names : file[n] = Absent => file'[n] = Absent
    BY <1>2
  <1>5. file' \in [Names -> {Absent} \cup SUBSET (Threads \cup {Dead})]
    <2>1. \A n \in Names : file'[n] \in {Absent} \cup SUBSET (Threads \cup {Dead})
      BY <1>3, <1>4
    <2>2. QED
      BY <1>2, <2>1
  <1>6. /\ a \in Seq(Names) /\ Distinct(a) /\ ToSet(a) = ToSet(order) \ mine
        /\ b \in Seq(Names) /\ Distinct(b) /\ ToSet(b) = mine
        /\ order # <<>> /\ Last(order) \in mine => b # <<>> /\ Last(b) = Last(order)
    <2> DEFINE R == ToSet(order) \ mine
    <2>1. mine \in SUBSET ToSet(order) /\ R \in SUBSET ToSet(order)
      OBVIOUS
    <2> HIDE DEF mine, R
    <2>2. /\ Keep(order, R) \in Seq(Names) /\ Distinct(Keep(order, R))
          /\ ToSet(Keep(order, R)) = ToSet(order) \cap R
      BY <1>1, KeepKeeps
    <2>3. /\ b \in Seq(Names) /\ Distinct(b) /\ ToSet(b) = ToSet(order) \cap mine
          /\ order # <<>> /\ Last(order) \in mine => b # <<>> /\ Last(b) = Last(order)
      BY <1>1, KeepKeeps
    <2>4. ToSet(order) \cap R = R /\ ToSet(order) \cap mine = mine
      BY <2>1
    <2>5. QED
      BY <2>2, <2>3, <2>4 DEF R
  <1>7. /\ order' \in Seq(Names) /\ Distinct(order') /\ ToSet(order') = ToSet(order)
        /\ b # <<>> => order' # <<>> /\ Last(order') = Last(b)
    <2>1. (ToSet(order) \ mine) \cap mine = {} /\ (ToSet(order) \ mine) \cup mine = ToSet(order)
      OBVIOUS
    <2> HIDE DEF a, b, mine
    <2>2. ToSet(a) \cap ToSet(b) = {} /\ ToSet(a) \cup ToSet(b) = ToSet(order)
      BY <1>6, <2>1
    <2>3. /\ a \o b \in Seq(Names) /\ Distinct(a \o b) /\ ToSet(a \o b) = ToSet(a) \cup ToSet(b)
          /\ b # <<>> => a \o b # <<>> /\ Last(a \o b) = Last(b)
      BY <1>6, <2>2, ConcatKeeps
    <2>4. QED
      BY <1>2, <2>2, <2>3
  <1>8. ToSet(order') = {n \in Names : file'[n] # Absent}
    BY <1>1, <1>3, <1>4, <1>7
  <1>9. DirectoryTypes'
    BY <1>5, <1>7, <1>8 DEF DirectoryTypes
  <1>10. Stored' = Stored
    BY <1>3, <1>4, NamesOfKeys DEF Stored
  <1>11. ASSUME NEW name \in Names, t \in file[name], Newest(name) PROVE Newest(name)'
    <2>1. order # <<>> /\ Last(order) = name
      BY <1>11 DEF Newest
    <2>2. name \in ToSet(order)
      BY <1>1, <2>1 DEF Last, ToSet
    <2>3. b # <<>> /\ Last(b) = Last(order)
      BY <1>6, <1>11, <2>1, <2>2
    <2>4. QED
      BY <1>7, <2>1, <2>3 DEF Newest
  <1>12. ASSUME NEW name \in Names, NEW u \in Threads, file'[name] # Absent, u \in file'[name]
         PROVE  u # t /\ file[name] # Absent /\ u \in file[name]
    BY <1>3, <1>4, <1>12
  <1>13. QED
    BY <1>9, <1>10, <1>11, <1>12

LEMMA RenameMoves ==
  ASSUME DirectoryTypes, NEW k \in Keys, NEW t \in Threads, Rename(t), call[t].key = k,
         file[Temporary(k)] # Absent
  PROVE  /\ DirectoryTypes' /\ Stored' = Stored \cup {k}
         /\ Newest(Temporary(k)) => Newest(Entry(k))'
         /\ file'[Entry(k)] = file[Temporary(k)] /\ file'[Temporary(k)] = Absent
         /\ \A name \in Names \ {Entry(k), Temporary(k)} : file'[name] = file[name]
  <1> DEFINE old == Temporary(k)
             new == Entry(k)
             others == Without(order, new)
             Moved(n) == IF n = old THEN new ELSE n
  <1>1. old \in Names /\ new \in Names /\ old # new
    BY NamesOfKeys
  <1>2. /\ file \in [Names -> {Absent} \cup SUBSET (Threads \cup {Dead})]
        /\ order \in Seq(Names) /\ Distinct(order)
        /\ ToSet(order) = {n \in Names : file[n] # Absent}
    BY DEF DirectoryTypes
  <1>3. /\ file' = [file EXCEPT ![new] = file[old], ![old] = Absent]
        /\ order' = [i \in DOMAIN others |-> Moved(others[i])]
    BY DEF Rename
  <1>4. /\ others \in Seq(Names) /\ Distinct(others) /\ ToSet(others) = ToSet(order) \ {new}
        /\ order # <<>> /\ Last(order) = old => others # <<>> /\ Last(others) = old
    BY <1>1, <1>2, WithoutKeeps
  <1> HIDE DEF old, new, others
  <1>5. /\ file' \in [Names -> {Absent} \cup SUBSET (Threads \cup {Dead})]
        /\ file'[new] = file[old] /\ file'[old] = Absent
        /\ \A n \in Names \ {new, old} : file'[n] = file[n]
    BY <1>1, <1>2, <1>3
  <1>6. /\ DOMAIN others = 1..Len(others) /\ Len(others) \in Nat
        /\ \A i \in 1..Len(others) : others[i] \in Names /\ others[i] # new
        /\ \A i, j \in 1..Len(others) : others[i] = others[j] => i = j
    <2>1. DOMAIN others = 1..Len(others) /\ Len(others) \in Nat
      BY <1>4
    <2>2. \A i \in 1..Len(others) : others[i] \in ToSet(others) /\ others[i] \in Names
      BY <1>4, <2>1 DEF ToSet
    <2>3. \A i \in 1..Len(others) : others[i] # new
      BY <1>4, <2>2
    <2>4. \A i, j \in 1..Len(others) : others[i] = others[j] => i = j
      BY <1>4, <2>1 DEF Distinct
    <2>5. QED
      BY <2>1, <2>2, <2>3, <2>4
  <1>7. order' = [i \in 1..Len(others) |-> Moved(others[i])]
    BY <1>3, <1>6
  <1>8. /\ order' \in Seq(Names) /\ Len(order') = Len(others) /\ DOMAIN order' = 1..Len(others)
        /\ \A i \in 1..Len(others) : order'[i] = Moved(others[i])
    <2>1. \A i \in 1..Len(others) : Moved(others[i]) \in Names
      BY <1>1, <1>6
    <2> HIDE DEF Moved
    <2>2. QED
      BY <1>6, <1>7, <2>1
  <1>9. Distinct(order')
    <2> SUFFICES ASSUME NEW i \in 1..Len(others), NEW j \in 1..Len(others),
                        Moved(others[i]) = Moved(others[j])
                 PROVE  i = j
      BY <1>8 DEF Distinct
    <2>1. others[i] = others[j]
      BY <1>6
    <2>2. QED
      BY <1>6, <2>1
  <1>10. \E i \in 1..Len(others) : others[i] = old
    <2>1. old \in ToSet(others)
      BY <1>1, <1>2, <1>4 DEF old
    <2>2. QED
      BY <1>6, <2>1 DEF ToSet
  <1>11. ToSet(order') = (ToSet(order) \ {new, old}) \cup {new}
    <2>1. ToSet(order') = {order'[i] : i \in 1..Len(others)}
      BY <1>8 DEF ToSet
    <2>2. ToSet(others) = {others[i] : i \in 1..Len(others)}
      BY <1>6 DEF ToSet
    <2>3. \A i \in 1..Len(others) : order'[i] \in (ToSet(order) \ {new, old}) \cup {new}
      BY <1>4, <1>8, <2>2
    <2>4. new \in ToSet(order')
      BY <1>8, <1>10, <2>1
    <2>5. ASSUME NEW n \in ToSet(order) \ {new, old} PROVE n \in ToSet(order')
      <3>1. PICK i \in 1..Len(others) : others[i] = n
        BY <1>4, <2>2
      <3>2. order'[i] = n
        BY <1>8, <3>1
      <3>3. QED
        BY <2>1, <3>2
    <2>6. QED
      BY <2>1, <2>3, <2>4, <2>5
  <1>12. ToSet(order') = {n \in Names : file'[n] # Absent}
    <2>1. file[old] # Absent
      BY DEF old
    <2>2. QED
      BY <1>1, <1>2, <1>5, <1>11, <2>1
  <1>13. DirectoryTypes'
    BY <1>5, <1>8, <1>9, <1>12 DEF DirectoryTypes
  <1>14. Stored' = Stored \cup {k}
    <2>1. \A l \in Keys : /\ Entry(l) \in Names /\ Entry(l) # old
                          /\ Entry(l) = new <=> l = k
      BY NamesOfKeys DEF old, new
    <2>2. file'[new] # Absent
      BY <1>5 DEF old
    <2>3. QED
      BY <1>5, <2>1, <2>2 DEF Stored, new
  <1>15. ASSUME Newest(old) PROVE Newest(new)'
    <2>1. others # <<>> /\ Last(others) = old
      BY <1>4, <1>15 DEF Newest
    <2>2. Len(others) \in 1..Len(others) /\ others[Len(others)] = old
      BY <1>4, <1>6, <2>1 DEF Last
    <2>3. order' # <<>> /\ order'[Len(order')] = new
      BY <1>8, <2>2
    <2>4. new' = new
      BY DEF new, Entry
    <2>5. QED
      BY <2>3 DEF Newest, Last
  <1>16. QED
    BY <1>5, <1>13, <1>14, <1>15 DEF old, new

LEMMA RestartKeepsEntries ==
  ASSUME DirectoryTypes, Restart
  PROVE  /\ DirectoryTypes'
         /\ \A name \in Names : file'[name] # Absent => file'[name] \in {{}, {Dead}}
  <1>1. /\ file \in [Names -> {Absent} \cup SUBSET (Threads \cup {Dead})]
        /\ order \in Seq(Names) /\ Distinct(order)
        /\ ToSet(order) = {n \in Names : file[n] # Absent}
    BY DEF DirectoryTypes
  <1>2. /\ file' = [name \in Names |-> IF file[name] # Absent /\ name \in Entries
                                       THEN {Dead : writer \in file[name]} ELSE Absent]
        /\ order' = Keep(order, Entries)
    BY DEF Restart
  <1>3. {} # Absent /\ {Dead} # Absent
    BY AbsentAssumption
  <1>4. ASSUME NEW name \in Names
        PROVE  /\ file'[name] \in {Absent, {}, {Dead}}
               /\ file'[name] # Absent <=> file[name] # Absent /\ name \in Entries
    <2>1. CASE file[name] # Absent /\ name \in Entries
      <3>1. file'[name] = {Dead : writer \in file[name]}
        BY <1>2, <2>1
      <3>2. file'[name] \in {{}, {Dead}}
        BY <3>1
      <3>3. QED
        BY <1>3, <2>1, <3>2
    <2>2. CASE ~(file[name] # Absent /\ name \in Entries)
      BY <1>2, <2>2
    <2>3. QED
      BY <2>1, <2>2
  <1>5. file' \in [Names -> {Absent} \cup SUBSET (Threads \cup {Dead})]
    <2>1. \A name \in Names : file'[name] \in {Absent} \cup SUBSET (Threads \cup {Dead})
      BY <1>4
    <2>2. file' = [name \in Names |-> file'[name]]
      BY <1>2
    <2>3. QED
      BY <2>1, <2>2
  <1>6. /\ order' \in Seq(Names) /\ Distinct(order') /\ ToSet(order') = ToSet(order) \cap Entries
    BY <1>1, <1>2, KeepKeeps
  <1>7. ToSet(order') = {n \in Names : file'[n] # Absent}
    BY <1>1, <1>4, <1>6
  <1>8. QED
    BY <1>4, <1>5, <1>6, <1>7 DEF DirectoryTypes

LEMMA SpoilKeepsEntries ==
  ASSUME DirectoryTypes, NEW k \in Keys, Spoil(k)
  PROVE  /\ DirectoryTypes' /\ Stored' = Stored
         /\ file'[Entry(k)] = file[Entry(k)] \cup {Dead}
         /\ \A name \in Names \ {Entry(k)} : file'[name] = file[name]
  <1>1. Entry(k) \in Names
    BY NamesOfKeys
  <1>2. /\ file \in [Names -> {Absent} \cup SUBSET (Threads \cup {Dead})]
        /\ order \in Seq(Names) /\ Distinct(order)
        /\ ToSet(order) = {n \in Names : file[n] # Absent}
    BY DEF DirectoryTypes
  <1>3. /\ file' = [file EXCEPT ![Entry(k)] = file[Entry(k)] \cup {Dead}]
        /\ file[Entry(k)] # Absent /\ order' = order
    BY DEF Spoil
  <1>4. file[Entry(k)] \cup {Dead} \in SUBSET (Threads \cup {Dead})
    BY <1>1, <1>2, <1>3
  <1>5. file[Entry(k)] \cup {Dead} # Absent
    BY <1>4, AbsentAssumption
  <1>6. /\ file' \in [Names -> {Absent} \cup SUBSET (Threads \cup {Dead})]
        /\ file'[Entry(k)] = file[Entry(k)] \cup {Dead}
        /\ \A name \in Names \ {Entry(k)} : file'[name] = file[name]
    BY <1>1, <1>2, <1>3, <1>4
  <1>7. \A n \in Names : file'[n] # Absent <=> file[n] # Absent
    BY <1>3, <1>5, <1>6
  <1>8. DirectoryTypes'
    BY <1>2, <1>3, <1>6, <1>7 DEF DirectoryTypes
  <1>9. Stored' = Stored
    BY <1>7, NamesOfKeys DEF Stored
  <1>10. QED
    BY <1>6, <1>8, <1>9

-----------------------------------------------------------------------------
(* The inductive invariant.                                                *)

\* Where the calls of each kind can be.
Sweep == {"listing", "counting", "choosing", "evicting", "listing again", "counting again"}
Placed(c) ==
  /\ c.op = "get"     => c.at \in {"reading", "restoring", "discarding", "recording"}
  /\ c.op = "put"     => c.at \in {"writing", "replacing", "removing", "renaming", "inserting"} \cup Sweep
  /\ c.op = "recover" => c.at \in {"forgetting", "listing", "counting"}
  /\ c.op = "clear"   => c.at = "clearing"
  /\ c.op = "open"    => c.at \in Sweep
  /\ c.op \in {"get", "put", "recover"} => c.key \in Keys

CallTypes ==
  /\ call \in [Threads -> Calls \cup {Absent}]
  /\ \A t \in Threads : call[t] # Absent => Placed(call[t])

\* A thread has a file open only while it writes it.
WritersWrite ==
  \A t \in Threads, name \in Names :
    file[name] # Absent /\ t \in file[name] => call[t] # Absent /\ call[t].at = "writing"

\* What the call c of thread t, that no other overlaps, knows at each step.
Knows(t, c) ==
  LET k == c.key
  IN  /\ c.at \in {"reading", "restoring", "discarding", "writing", "replacing", "removing"} => Exact
      /\ c.at = "writing" => t \in file[Temporary(k)]
      /\ c.at \in {"discarding", "removing"} => k \in Stored
      /\ c.at = "recording" =>
           /\ k \notin Stored /\ Within
           /\ stats.bytes = DiskBytes(Stored) + EntryBytes[k]
           /\ stats.entries = Cardinality(Stored) + 1
      /\ c.at \in {"writing", "replacing", "removing", "renaming"} => Newest(Temporary(k))
      /\ c.op = "put" /\ c.at \in {"inserting", "listing", "counting", "choosing"} => Newest(Entry(k))
      /\ c.op = "put" /\ c.at \in {"evicting", "listing again", "counting again"}
           /\ EntryBytes[k] <= DiskBudget =>
           k \in Stored /\ (c.at = "evicting" => k \notin ToSet(c.list))
      /\ c.at \in {"counting", "counting again"} => c.listed = Inventory
      /\ c.op = "recover" \/ c.at \in {"listing again", "counting again"} => Within
      /\ c.at = "evicting" =>
           /\ Distinct(c.list) /\ ToSet(c.list) \in SUBSET Stored
           /\ DiskBytes(Stored \ ToSet(c.list)) <= DiskBudget
      /\ c.at = "clearing" => Distinct(c.list) /\ ToSet(c.list) = Stored

Undisturbed ==
  ~overlapped =>
    /\ \A t, u \in Threads : call[t] # Absent /\ call[u] # Absent => t = u
    /\ AtRest => Exact
    /\ \A t \in Threads : call[t] # Absent => Knows(t, call[t])

IInv ==
  /\ CallTypes /\ DirectoryTypes /\ MemoryExact /\ WritersWrite /\ Undisturbed
  /\ stats \in Totals /\ overlapped \in BOOLEAN /\ failures = {} /\ faults \in 0..MaxFaults

LEMMA DiskStays ==
  ASSUME DirectoryTypes, UNCHANGED disk
  PROVE  /\ DirectoryTypes' /\ Stored' = Stored /\ Inventory' = Inventory
         /\ Within' = Within /\ file' = file
         /\ \A name : Newest(name)' = Newest(name)
  BY DEF disk, DirectoryTypes, Stored, Inventory, Within, Newest

LEMMA MemoryStays ==
  ASSUME MemoryExact, UNCHANGED ram
  PROVE  MemoryExact'
  BY DEF MemoryExact, ram

LEMMA CallFields ==
  ASSUME NEW c \in Calls
  PROVE  /\ c.op \in {"get", "put", "recover", "clear", "open"} /\ c.key \in Keys \cup {Absent}
         /\ c.at \in Steps /\ c.list \in Seq(Keys) /\ c.listed \in Totals
         /\ c # Absent
  BY AbsentAssumption DEF Calls, Totals

\* A thread that is not writing has no file open.
LEMMA OthersDoNotWrite ==
  ASSUME WritersWrite, NEW t \in Threads, call[t] = Absent \/ call[t].at # "writing"
  PROVE  \A name \in Names : file[name] # Absent => t \notin file[name]
  BY DEF WritersWrite

\* Only the call of t moves.
Moves(t) ==
  /\ call' \in [Threads -> Calls \cup {Absent}]
  /\ \A u \in Threads \ {t} : call'[u] = call[u]

LEMMA WritersStay ==
  ASSUME WritersWrite, NEW t \in Threads, Moves(t),
         \A name \in Names, u \in Threads : file'[name] # Absent /\ u \in file'[name] =>
           u # t /\ \E n \in Names : file[n] # Absent /\ u \in file[n]
  PROVE  WritersWrite'
  <1> SUFFICES ASSUME NEW u \in Threads, NEW name \in Names, file'[name] # Absent, u \in file'[name]
               PROVE  call'[u] # Absent /\ call'[u].at = "writing"
    BY DEF WritersWrite
  <1>1. u # t /\ \E n \in Names : file[n] # Absent /\ u \in file[n]
    OBVIOUS
  <1>2. call[u] # Absent /\ call[u].at = "writing"
    BY <1>1 DEF WritersWrite
  <1>3. call'[u] = call[u]
    BY <1>1 DEF Moves
  <1>4. QED
    BY <1>2, <1>3

\* A step of a call that leaves or loses files but opens none.
LEMMA WritersStayOut ==
  ASSUME WritersWrite, NEW t \in Threads, call[t].at # "writing", Moves(t),
         \A name \in Names : file'[name] # Absent => file[name] # Absent /\ file'[name] = file[name]
  PROVE  WritersWrite'
  <1>1. \A name \in Names : file[name] # Absent => t \notin file[name]
    BY OthersDoNotWrite
  <1>2. \A name \in Names, u \in Threads : file'[name] # Absent /\ u \in file'[name] =>
          u # t /\ \E n \in Names : file[n] # Absent /\ u \in file[n]
    BY <1>1
  <1>3. QED
    BY <1>2, WritersStay

\* A step of one call.
LEMMA CallMoves ==
  ASSUME IInv, NEW t \in Threads, call[t] # Absent, Moves(t),
         call'[t] # Absent => Placed(call'[t]),
         UNCHANGED history, UNCHANGED faults,
         DirectoryTypes', MemoryExact', WritersWrite', stats' \in Totals,
         ~overlapped /\ Knows(t, call[t]) =>
           IF call'[t] = Absent THEN Exact' ELSE Knows(t, call[t])'
  PROVE  IInv'
  <1>1. \A u \in Threads : call[u] # Absent => Placed(call[u])
    BY DEF IInv, CallTypes
  <1>2. /\ call' \in [Threads -> Calls \cup {Absent}]
        /\ \A u \in Threads : u # t => call'[u] = call[u]
    BY DEF Moves
  <1>3. CallTypes'
    <2>1. \A u \in Threads : call'[u] # Absent => Placed(call'[u])
      BY <1>1, <1>2
    <2>2. QED
      BY <1>2, <2>1 DEF CallTypes, Placed
  <1>4. Undisturbed'
    <2> SUFFICES ASSUME ~overlapped' PROVE
           /\ \A v, u \in Threads : call'[v] # Absent /\ call'[u] # Absent => v = u
           /\ AtRest' => Exact'
           /\ \A v \in Threads : call'[v] # Absent => Knows(v, call[v])'
      BY DEF Undisturbed
    <2>1. ~overlapped
      BY DEF history
    <2>2. Knows(t, call[t]) /\ \A u \in Threads : u # t => call[u] = Absent
      BY <2>1 DEF IInv, Undisturbed
    <2>3. IF call'[t] = Absent THEN Exact' ELSE Knows(t, call[t])'
      BY <2>1, <2>2
    <2>4. \A u \in Threads : u # t => call'[u] = Absent
      BY <1>2, <2>2
    <2>5. AtRest' => Exact'
      BY <2>3 DEF AtRest
    <2>6. ASSUME NEW v \in Threads, call'[v] # Absent PROVE Knows(v, call[v])'
      <3>1. v = t
        BY <2>4, <2>6
      <3>2. Knows(t, call[t])'
        BY <2>3, <2>6, <3>1
      <3>3. QED
        BY <3>1, <3>2 DEF Knows
    <2>7. QED
      BY <2>4, <2>5, <2>6
  <1>5. QED
    BY <1>3, <1>4 DEF IInv, history

LEMMA CallMovesOffDisk ==
  ASSUME IInv, NEW t \in Threads, call[t] # Absent, call[t].at # "writing", Moves(t),
         call'[t] # Absent => Placed(call'[t]),
         UNCHANGED <<disk, history, faults>>, MemoryExact', stats' \in Totals,
         ~overlapped /\ Knows(t, call[t]) =>
           IF call'[t] = Absent THEN Exact' ELSE Knows(t, call[t])'
  PROVE  IInv'
  <1>1. WritersWrite /\ DirectoryTypes
    BY DEF IInv
  <1>2. DirectoryTypes' /\ file' = file
    BY <1>1, DiskStays
  <1>3. WritersWrite'
    BY <1>1, <1>2, WritersStayOut
  <1>4. QED
    BY <1>2, <1>3, CallMoves

\* What is known of a call before it moves.
LEMMA CallInProgress ==
  ASSUME IInv, NEW t \in Threads, call[t] # Absent
  PROVE  /\ call \in [Threads -> Calls \cup {Absent}] /\ call[t] \in Calls /\ Placed(call[t])
         /\ call[t].op \in {"get", "put", "recover", "clear", "open"}
         /\ call[t].key \in Keys \cup {Absent} /\ call[t].list \in Seq(Keys)
         /\ call[t].listed \in Totals /\ call[t].at \in Steps
  BY CallFields DEF IInv, CallTypes

LEMMA CallReturns ==
  ASSUME call \in [Threads -> Calls \cup {Absent}], NEW t \in Threads, Return(t)
  PROVE  Moves(t) /\ call'[t] = Absent /\ UNCHANGED history
  BY DEF Return, Moves

LEMMA CallGoes ==
  ASSUME call \in [Threads -> Calls \cup {Absent}], NEW t \in Threads, call[t] \in Calls,
         NEW where \in Steps, Goto(t, where)
  PROVE  /\ Moves(t) /\ call'[t] # Absent /\ call'[t].at = where
         /\ call'[t].op = call[t].op /\ call'[t].key = call[t].key
         /\ call'[t].list = call[t].list /\ call'[t].listed = call[t].listed
  <1>1. call'[t] = [call[t] EXCEPT !.at = where] /\ \A u \in Threads \ {t} : call'[u] = call[u]
    BY DEF Goto
  <1>2. call'[t] \in Calls
    BY <1>1 DEF Calls
  <1>3. /\ call'[t].at = where /\ call'[t].op = call[t].op /\ call'[t].key = call[t].key
        /\ call'[t].list = call[t].list /\ call'[t].listed = call[t].listed
    BY <1>1 DEF Calls
  <1>4. call' = [u \in Threads |-> call'[u]]
    BY DEF Goto
  <1>5. call' \in [Threads -> Calls \cup {Absent}]
    BY <1>1, <1>2, <1>4
  <1>6. QED
    BY <1>1, <1>2, <1>3, <1>5, AbsentAssumption DEF Moves

-----------------------------------------------------------------------------
(* Every step of a call keeps the invariant.                              *)

LEMMA ListKeeps ==
  ASSUME IInv, NEW t \in Threads, List(t)
  PROVE  IInv'
  <1>1. call[t] # Absent /\ call[t].at \in {"listing", "listing again"}
    BY DEF List, Inside
  <1>2. call[t] \in Calls /\ Placed(call[t]) /\ call \in [Threads -> Calls \cup {Absent}]
    BY <1>1, CallInProgress
  <1>3. DirectoryTypes /\ MemoryExact /\ stats \in Totals
    BY DEF IInv
  <1>4. Inventory \in Totals
    BY <1>3, InventoryType
  <1>5. /\ call'[t] = [call[t] EXCEPT !.listed = Inventory,
                         !.at = IF call[t].at = "listing" THEN "counting" ELSE "counting again"]
        /\ \A u \in Threads \ {t} : call'[u] = call[u]
        /\ call' = [u \in Threads |-> call'[u]]
    BY <1>2 DEF List
  <1>6. /\ call'[t].op = call[t].op /\ call'[t].key = call[t].key /\ call'[t].listed = Inventory
        /\ call'[t].at = IF call[t].at = "listing" THEN "counting" ELSE "counting again"
    BY <1>2, <1>5 DEF Calls
  <1>7. call'[t] \in Calls
    BY <1>2, <1>4, <1>5 DEF Calls, Totals, Steps
  <1>8. Moves(t)
    BY <1>2, <1>5, <1>7 DEF Moves
  <1>9. Placed(call'[t])
    BY <1>1, <1>2, <1>6, CallFields DEF Placed, Sweep
  <1>10. UNCHANGED <<disk, ram, stats, history, faults>>
    BY DEF List
  <1>11. MemoryExact' /\ stats' \in Totals
    BY <1>3, <1>10, MemoryStays
  <1>12. /\ Stored' = Stored /\ Inventory' = Inventory /\ Within' = Within
         /\ \A name : Newest(name)' = Newest(name)
    BY <1>3, <1>10, DiskStays
  <1>13. Knows(t, call[t]) => Knows(t, call[t])'
    BY <1>1, <1>6, <1>12 DEF Knows
  <1>14. call'[t] # Absent
    BY <1>7, CallFields
  <1>15. QED
    BY <1>1, <1>8, <1>9, <1>10, <1>11, <1>13, <1>14, CallMovesOffDisk

LEMMA CountKeeps ==
  ASSUME IInv, NEW t \in Threads, Count(t)
  PROVE  IInv'
  <1>1. call[t] # Absent /\ call[t].at \in {"counting", "counting again"}
    BY DEF Count, Inside
  <1>2. /\ call[t] \in Calls /\ Placed(call[t]) /\ call[t].listed \in Totals
        /\ call \in [Threads -> Calls \cup {Absent}]
    BY <1>1, CallInProgress
  <1>3. DirectoryTypes /\ MemoryExact
    BY DEF IInv
  <1>4. UNCHANGED <<disk, ram, faults>> /\ stats' = call[t].listed
    BY DEF Count
  <1>5. MemoryExact' /\ stats' \in Totals
    BY <1>2, <1>3, <1>4, MemoryStays
  <1>6. /\ Stored' = Stored /\ Inventory' = Inventory /\ Within' = Within
        /\ \A name : Newest(name)' = Newest(name)
    BY <1>3, <1>4, DiskStays
  <1>7. CASE call[t].at = "counting" /\ call[t].op # "recover"
    <2>1. /\ call'[t] = [call[t] EXCEPT !.at = "choosing", !.listed = Empty]
          /\ \A u \in Threads \ {t} : call'[u] = call[u]
          /\ call' = [u \in Threads |-> call'[u]] /\ UNCHANGED history
      BY <1>2, <1>7 DEF Count
    <2>2. call'[t].op = call[t].op /\ call'[t].key = call[t].key /\ call'[t].at = "choosing"
      BY <1>2, <2>1 DEF Calls
    <2>3. call'[t] \in Calls
      <3>1. Empty \in Totals
        BY DEF Empty, Totals
      <3>2. QED
        BY <1>2, <2>1, <3>1 DEF Calls, Totals, Steps
    <2>4. Moves(t)
      BY <1>2, <2>1, <2>3 DEF Moves
    <2>5. Placed(call'[t])
      BY <1>2, <1>7, <2>2, CallFields DEF Placed, Sweep
    <2>6. Knows(t, call[t]) => Knows(t, call[t])'
      BY <1>6, <1>7, <2>2 DEF Knows
    <2>7. call'[t] # Absent
      BY <2>3, CallFields
    <2>8. QED
      BY <1>1, <1>4, <1>5, <2>1, <2>4, <2>5, <2>6, <2>7, CallMovesOffDisk
  <1>8. CASE ~(call[t].at = "counting" /\ call[t].op # "recover")
    <2>1. Moves(t) /\ call'[t] = Absent /\ UNCHANGED history
      BY <1>2, <1>8, CallReturns DEF Count
    <2>2. Knows(t, call[t]) => Within /\ call[t].listed = Inventory
      BY <1>1, <1>8 DEF Knows
    <2>3. Knows(t, call[t]) => Exact'
      BY <1>4, <1>6, <2>2 DEF Exact
    <2>4. QED
      BY <1>1, <1>4, <1>5, <2>1, <2>3, CallMovesOffDisk
  <1>9. QED
    BY <1>7, <1>8

LEMMA ChooseKeeps ==
  ASSUME IInv, NEW t \in Threads, Choose(t)
  PROVE  IInv'
  <1>1. call[t] # Absent /\ call[t].at = "choosing"
    BY DEF Choose, Inside
  <1>2. call[t] \in Calls /\ Placed(call[t]) /\ call \in [Threads -> Calls \cup {Absent}]
    BY <1>1, CallInProgress
  <1>3. DirectoryTypes /\ MemoryExact /\ stats \in Totals
    BY DEF IInv
  <1>4. /\ Victims \in Seq(Keys) /\ Distinct(Victims) /\ ToSet(Victims) \in SUBSET Stored
        /\ DiskBytes(Stored \ ToSet(Victims)) <= DiskBudget
        /\ \A k \in Keys : Newest(Entry(k)) /\ EntryBytes[k] <= DiskBudget =>
             k \in Stored /\ k \notin ToSet(Victims)
    BY <1>3, VictimsSuffice
  <1>5. /\ call'[t] = [call[t] EXCEPT !.list = Victims, !.at = "evicting"]
        /\ \A u \in Threads \ {t} : call'[u] = call[u]
        /\ call' = [u \in Threads |-> call'[u]]
    BY <1>2 DEF Choose
  <1>6. /\ call'[t].op = call[t].op /\ call'[t].key = call[t].key
        /\ call'[t].list = Victims /\ call'[t].at = "evicting"
    BY <1>2, <1>5 DEF Calls
  <1>7. call'[t] \in Calls
    BY <1>2, <1>4, <1>5 DEF Calls, Steps
  <1>8. Moves(t)
    BY <1>2, <1>5, <1>7 DEF Moves
  <1>9. Placed(call'[t])
    BY <1>1, <1>2, <1>6, CallFields DEF Placed, Sweep
  <1>10. UNCHANGED <<disk, ram, stats, history, faults>>
    BY DEF Choose
  <1>11. MemoryExact' /\ stats' \in Totals
    BY <1>3, <1>10, MemoryStays
  <1>12. Stored' = Stored
    BY <1>3, <1>10, DiskStays
  <1>13. ASSUME Knows(t, call[t]) PROVE Knows(t, call[t])'
    <2>1. call[t].op = "put" => call[t].key \in Keys /\ Newest(Entry(call[t].key))
      BY <1>1, <1>2, <1>13 DEF Knows, Placed
    <2>2. call[t].op # "recover"
      BY <1>1, <1>2 DEF Placed
    <2>3. call[t].op = "put" /\ EntryBytes[call[t].key] <= DiskBudget =>
            call[t].key \in Stored /\ call[t].key \notin ToSet(Victims)
      BY <1>4, <2>1
    <2>4. QED
      BY <1>4, <1>6, <1>12, <2>2, <2>3 DEF Knows
  <1>14. call'[t] # Absent
    BY <1>7, CallFields
  <1>15. QED
    BY <1>1, <1>8, <1>9, <1>10, <1>11, <1>13, <1>14, CallMovesOffDisk

LEMMA ReadKeeps ==
  ASSUME IInv, NEW t \in Threads, Read(t)
  PROVE  IInv'
  <1>1. call[t] # Absent /\ call[t].at = "reading"
    BY DEF Read, Inside
  <1>2. call[t] \in Calls /\ Placed(call[t]) /\ call \in [Threads -> Calls \cup {Absent}]
    BY <1>1, CallInProgress
  <1>3. DirectoryTypes /\ MemoryExact /\ stats \in Totals
    BY DEF IInv
  <1>4. UNCHANGED <<disk, ram, stats, faults>>
    BY DEF Read
  <1>5. MemoryExact' /\ stats' \in Totals
    BY <1>3, <1>4, MemoryStays
  <1>6. /\ Stored' = Stored /\ Inventory' = Inventory /\ Within' = Within
        /\ \A name : Newest(name)' = Newest(name)
    BY <1>3, <1>4, DiskStays
  <1>7. Knows(t, call[t]) => Exact /\ Exact'
    BY <1>1, <1>4, <1>6 DEF Knows, Exact
  <1>8. call[t].op = "get" /\ call[t].key \in Keys
    BY <1>1, <1>2, CallFields DEF Placed, Sweep
  <1>9. CASE Return(t)
    <2>1. Moves(t) /\ call'[t] = Absent /\ UNCHANGED history
      BY <1>2, <1>9, CallReturns
    <2>2. QED
      BY <1>1, <1>4, <1>5, <1>7, <2>1, CallMovesOffDisk
  <1>10. ASSUME NEW where \in {"restoring", "discarding"}, Goto(t, where), UNCHANGED history,
                file[Entry(call[t].key)] # Absent
         PROVE  IInv'
    <2>1. where \in Steps
      BY DEF Steps
    <2>2. /\ Moves(t) /\ call'[t] # Absent /\ call'[t].at = where
          /\ call'[t].op = call[t].op /\ call'[t].key = call[t].key
      BY <1>2, <1>10, <2>1, CallGoes
    <2>3. Placed(call'[t])
      BY <1>8, <2>2 DEF Placed
    <2>4. call[t].key \in Stored
      BY <1>8, <1>10 DEF Stored
    <2>5. Knows(t, call[t]) => Knows(t, call[t])'
      BY <1>6, <1>7, <1>8, <2>2, <2>4 DEF Knows
    <2>6. QED
      BY <1>1, <1>4, <1>5, <1>10, <2>2, <2>3, <2>5, CallMovesOffDisk
  <1>11. QED
    BY <1>9, <1>10 DEF Read

LEMMA RestoreKeeps ==
  ASSUME IInv, NEW t \in Threads, Restore(t)
  PROVE  IInv'
  <1>1. call[t] # Absent /\ call[t].at = "restoring"
    BY DEF Restore, Inside
  <1>2. call[t] \in Calls /\ Placed(call[t]) /\ call \in [Threads -> Calls \cup {Absent}]
    BY <1>1, CallInProgress
  <1>3. call[t].key \in Keys
    BY <1>1, <1>2, CallFields DEF Placed, Sweep
  <1>4. DirectoryTypes /\ MemoryExact /\ stats \in Totals
    BY DEF IInv
  <1>5. UNCHANGED <<disk, stats, faults>>
    BY DEF Restore
  <1>6. MemoryExact'
    BY <1>3, <1>4, InsertKeepsMemory DEF Restore
  <1>7. Moves(t) /\ call'[t] = Absent /\ UNCHANGED history
    BY <1>2, CallReturns DEF Restore
  <1>8. Knows(t, call[t]) => Exact'
    BY <1>1, <1>4, <1>5, DiskStays DEF Knows, Exact
  <1>9. QED
    BY <1>1, <1>4, <1>5, <1>6, <1>7, <1>8, CallMovesOffDisk

LEMMA MaxIsBound ==
  ASSUME NEW x \in Int
  PROVE  Max({0, x}) = IF x >= 0 THEN x ELSE 0
  <1>1. CASE x >= 0
    <2>1. \A m \in {0, x} : (\A y \in {0, x} : m >= y) => m = x
      BY <1>1
    <2>2. x \in {0, x} /\ \A y \in {0, x} : x >= y
      BY <1>1
    <2>3. QED
      BY <1>1, <2>1, <2>2 DEF Max
  <1>2. CASE ~(x >= 0)
    <2>1. \A m \in {0, x} : (\A y \in {0, x} : m >= y) => m = 0
      BY <1>2
    <2>2. 0 \in {0, x} /\ \A y \in {0, x} : 0 >= y
      BY <1>2
    <2>3. QED
      BY <1>2, <2>1, <2>2 DEF Max
  <1>3. QED
    BY <1>1, <1>2

LEMMA RecordKeeps ==
  ASSUME IInv, NEW t \in Threads, Record(t)
  PROVE  IInv'
  <1>1. call[t] # Absent /\ call[t].at = "recording"
    BY DEF Record, Inside
  <1>2. call[t] \in Calls /\ Placed(call[t]) /\ call \in [Threads -> Calls \cup {Absent}]
    BY <1>1, CallInProgress
  <1> DEFINE k == call[t].key
  <1>3. k \in Keys
    BY <1>1, <1>2, CallFields DEF Placed, Sweep
  <1>4. DirectoryTypes /\ MemoryExact /\ stats \in Totals
    BY DEF IInv
  <1>5. UNCHANGED <<disk, ram, faults>>
    BY DEF Record
  <1>6. EntryBytes[k] \in Nat /\ stats.bytes \in Nat /\ stats.entries \in Nat
    BY <1>3, <1>4, Weights DEF Totals
  <1>7. /\ stats'.bytes = (IF stats.bytes - EntryBytes[k] >= 0 THEN stats.bytes - EntryBytes[k] ELSE 0)
        /\ stats'.entries = (IF stats.entries - 1 >= 0 THEN stats.entries - 1 ELSE 0)
        /\ stats' = [bytes |-> stats'.bytes, entries |-> stats'.entries]
    <2>1. stats.bytes - EntryBytes[k] \in Int /\ stats.entries - 1 \in Int
      BY <1>6
    <2>2. stats' = [bytes |-> Max({0, stats.bytes - EntryBytes[k]}),
                    entries |-> Max({0, stats.entries - 1})]
      BY DEF Record
    <2>3. /\ stats'.bytes = Max({0, stats.bytes - EntryBytes[k]})
          /\ stats'.entries = Max({0, stats.entries - 1})
          /\ stats' = [bytes |-> stats'.bytes, entries |-> stats'.entries]
      BY <2>2
    <2>4. QED
      BY <2>1, <2>3, MaxIsBound
  <1>8. stats' \in Totals
    <2>1. stats'.bytes \in Nat /\ stats'.entries \in Nat
      BY <1>6, <1>7
    <2>2. QED
      BY <1>7, <2>1 DEF Totals
  <1>9. MemoryExact'
    BY <1>4, <1>5, MemoryStays
  <1>10. Moves(t) /\ call'[t] = Absent /\ UNCHANGED history
    BY <1>2, CallReturns DEF Record
  <1>11. ASSUME Knows(t, call[t]) PROVE Exact'
    <2>1. /\ Within /\ stats.bytes = DiskBytes(Stored) + EntryBytes[k]
          /\ stats.entries = Cardinality(Stored) + 1
      BY <1>1, <1>11 DEF Knows
    <2>2. DiskBytes(Stored) \in Nat /\ Cardinality(Stored) \in Nat
      <3>1. Stored \in SUBSET Stored
        OBVIOUS
      <3>2. QED
        BY <1>4, <3>1, StoredIsFinite
    <2>3. stats'.bytes = DiskBytes(Stored) /\ stats'.entries = Cardinality(Stored)
      BY <1>6, <1>7, <2>1, <2>2
    <2>4. stats' = Inventory
      BY <1>7, <2>3 DEF Inventory
    <2>5. Inventory' = Inventory /\ Within' = Within
      BY <1>4, <1>5, DiskStays
    <2>6. QED
      BY <2>1, <2>4, <2>5 DEF Exact
  <1>12. QED
    BY <1>1, <1>5, <1>8, <1>9, <1>10, <1>11, CallMovesOffDisk

LEMMA ReplaceKeeps ==
  ASSUME IInv, NEW t \in Threads, Replace(t)
  PROVE  IInv'
  <1>1. call[t] # Absent /\ call[t].at = "replacing"
    BY DEF Replace, Inside
  <1>2. call[t] \in Calls /\ Placed(call[t]) /\ call \in [Threads -> Calls \cup {Absent}]
    BY <1>1, CallInProgress
  <1>3. call[t].op = "put" /\ call[t].key \in Keys
    BY <1>1, <1>2, CallFields DEF Placed, Sweep
  <1>4. DirectoryTypes /\ MemoryExact /\ stats \in Totals
    BY DEF IInv
  <1>5. UNCHANGED <<disk, ram, stats, history, faults>>
    BY DEF Replace
  <1>6. MemoryExact' /\ stats' \in Totals
    BY <1>4, <1>5, MemoryStays
  <1>7. /\ Stored' = Stored /\ Inventory' = Inventory /\ Within' = Within
        /\ \A name : Newest(name)' = Newest(name)
    BY <1>4, <1>5, DiskStays
  <1> DEFINE where == IF file[Entry(call[t].key)] = Absent THEN "renaming" ELSE "removing"
  <1>8. where \in Steps /\ where \in {"renaming", "removing"}
    BY DEF Steps
  <1>9. where = "removing" => call[t].key \in Stored
    BY <1>3 DEF Stored
  <1>10. Goto(t, where)
    BY DEF Replace
  <1> HIDE DEF where
  <1>11. /\ Moves(t) /\ call'[t] # Absent /\ call'[t].at = where
         /\ call'[t].op = call[t].op /\ call'[t].key = call[t].key
    BY <1>2, <1>8, <1>10, CallGoes
  <1>12. Placed(call'[t])
    BY <1>3, <1>8, <1>11 DEF Placed
  <1>13. ASSUME Knows(t, call[t]) PROVE Knows(t, call[t])'
    <2>1. Exact /\ Newest(Temporary(call[t].key))
      BY <1>1, <1>13 DEF Knows
    <2>2. Exact'
      BY <1>5, <1>7, <2>1 DEF Exact
    <2>3. call'[t].key \in Stored' \/ call'[t].at # "removing"
      BY <1>7, <1>9, <1>11
    <2>4. QED
      BY <1>3, <1>7, <1>8, <1>11, <2>1, <2>2, <2>3 DEF Knows
  <1>14. QED
    BY <1>1, <1>5, <1>6, <1>11, <1>12, <1>13, CallMovesOffDisk

LEMMA InsertPutKeeps ==
  ASSUME IInv, NEW t \in Threads, InsertPut(t)
  PROVE  IInv'
  <1>1. call[t] # Absent /\ call[t].at = "inserting"
    BY DEF InsertPut, Inside
  <1>2. call[t] \in Calls /\ Placed(call[t]) /\ call \in [Threads -> Calls \cup {Absent}]
    BY <1>1, CallInProgress
  <1>3. call[t].op = "put" /\ call[t].key \in Keys
    BY <1>1, <1>2, CallFields DEF Placed, Sweep
  <1>4. DirectoryTypes /\ MemoryExact /\ stats \in Totals
    BY DEF IInv
  <1>5. UNCHANGED <<disk, stats, history, faults>>
    BY DEF InsertPut
  <1>6. MemoryExact' /\ stats' \in Totals
    BY <1>3, <1>4, <1>5, InsertKeepsMemory DEF InsertPut
  <1>7. \A name : Newest(name)' = Newest(name)
    BY <1>4, <1>5, DiskStays
  <1>8. "listing" \in Steps /\ Goto(t, "listing")
    BY DEF InsertPut, Steps
  <1>9. /\ Moves(t) /\ call'[t] # Absent /\ call'[t].at = "listing"
        /\ call'[t].op = call[t].op /\ call'[t].key = call[t].key
    BY <1>2, <1>8, CallGoes
  <1>10. Placed(call'[t])
    BY <1>3, <1>9 DEF Placed, Sweep
  <1>11. Knows(t, call[t]) => Knows(t, call[t])'
    BY <1>1, <1>3, <1>7, <1>9 DEF Knows
  <1>12. QED
    BY <1>1, <1>5, <1>6, <1>9, <1>10, <1>11, CallMovesOffDisk

LEMMA ForgetKeeps ==
  ASSUME IInv, NEW t \in Threads, Forget(t)
  PROVE  IInv'
  <1>1. call[t] # Absent /\ call[t].at = "forgetting"
    BY DEF Forget, Inside
  <1>2. call[t] \in Calls /\ Placed(call[t]) /\ call \in [Threads -> Calls \cup {Absent}]
    BY <1>1, CallInProgress
  <1>3. call[t].op = "recover" /\ call[t].key \in Keys
    BY <1>1, <1>2, CallFields DEF Placed, Sweep
  <1>4. DirectoryTypes /\ MemoryExact /\ stats \in Totals
    BY DEF IInv
  <1>5. UNCHANGED <<disk, stats, history, faults>>
    BY DEF Forget
  <1>6. MemoryExact'
    <2> DEFINE k == call[t].key
               bytes == memoryBytes - (IF Contains(memory, k) THEN Size[k] ELSE 0)
    <2>1. memory' = Without(memory, k) /\ memoryBytes' = bytes
      BY DEF Forget
    <2>2. bytes = SizeOf(ToSet(Without(memory, k))) /\ bytes <= MemoryBudget
      <3> HIDE DEF k
      <3>1. k \in Keys
        BY <1>3 DEF k
      <3>2. QED
        BY <1>4, <3>1, ForgottenKey
    <2>3. Without(memory, k) \in Seq(Keys) /\ Distinct(Without(memory, k))
      BY <1>4, WithoutKeeps DEF MemoryExact
    <2> HIDE DEF bytes
    <2>4. QED
      BY <2>1, <2>2, <2>3 DEF MemoryExact
  <1>7. Within' = Within
    BY <1>4, <1>5, DiskStays
  <1>8. "listing" \in Steps /\ Goto(t, "listing")
    BY DEF Forget, Steps
  <1>9. /\ Moves(t) /\ call'[t] # Absent /\ call'[t].at = "listing"
        /\ call'[t].op = call[t].op /\ call'[t].key = call[t].key
    BY <1>2, <1>8, CallGoes
  <1>10. Placed(call'[t])
    BY <1>3, <1>9 DEF Placed
  <1>11. Knows(t, call[t]) => Knows(t, call[t])'
    BY <1>1, <1>3, <1>7, <1>9 DEF Knows
  <1>12. QED
    BY <1>1, <1>4, <1>5, <1>6, <1>9, <1>10, <1>11, CallMovesOffDisk

LEMMA NothingWeighsNothing ==
  /\ ToSet(<<>>) = {} /\ SizeOf({}) = 0 /\ DiskBytes({}) = 0 /\ Cardinality({}) = 0
  /\ Empty \in Totals /\ 0 <= MemoryBudget /\ 0 <= DiskBudget
  <1>1. ToSet(<<>>) = {}
    BY DEF ToSet
  <1>2. SizeOf({}) = 0 /\ DiskBytes({}) = 0
    BY TotalOfNone DEF SizeOf, DiskBytes
  <1>3. Cardinality({}) = 0
    BY FS_EmptySet
  <1>4. Empty \in Totals
    BY DEF Empty, Totals
  <1>5. 0 <= MemoryBudget /\ 0 <= DiskBudget
    BY BudgetAssumption
  <1>6. QED
    BY <1>1, <1>2, <1>3, <1>4, <1>5

LEMMA EmptyMemory ==
  ASSUME memory' = <<>>, memoryBytes' = 0
  PROVE  MemoryExact'
  <1>1. <<>> \in Seq(Keys) /\ Distinct(<<>>)
    BY DEF Distinct
  <1>2. SizeOf(ToSet(memory')) = 0
    BY NothingWeighsNothing
  <1>3. QED
    BY <1>1, <1>2, NothingWeighsNothing DEF MemoryExact

LEMMA ClearAllKeeps ==
  ASSUME IInv, NEW t \in Threads, ClearAll(t)
  PROVE  IInv'
  <1>1. call[t] # Absent /\ call[t].at = "clearing" /\ call[t].list = <<>>
    BY DEF ClearAll, Inside
  <1>2. call \in [Threads -> Calls \cup {Absent}]
    BY <1>1, CallInProgress
  <1>3. DirectoryTypes
    BY DEF IInv
  <1>4. /\ UNCHANGED <<disk, faults>> /\ stats' = Empty
        /\ memory' = <<>> /\ memoryBytes' = 0
    BY DEF ClearAll
  <1>5. MemoryExact' /\ stats' \in Totals
    BY <1>4, EmptyMemory, NothingWeighsNothing
  <1>6. Moves(t) /\ call'[t] = Absent /\ UNCHANGED history
    BY <1>2, CallReturns DEF ClearAll
  <1>7. ASSUME Knows(t, call[t]) PROVE Exact'
    <2>1. Stored = {}
      BY <1>1, <1>7, NothingWeighsNothing DEF Knows
    <2>2. Stored' = {}
      BY <1>3, <1>4, <2>1, DiskStays
    <2>3. Empty = Inventory'
      BY <2>2, NothingWeighsNothing DEF Inventory, Empty
    <2>4. Within'
      BY <2>2, NothingWeighsNothing DEF Within
    <2>5. QED
      BY <1>4, <2>3, <2>4 DEF Exact
  <1>8. QED
    BY <1>1, <1>4, <1>5, <1>6, <1>7, CallMovesOffDisk

\* The steps that remove an entry.

LEMMA CallRemoves ==
  ASSUME IInv, NEW t \in Threads, call[t] # Absent, call[t].at # "writing", Moves(t),
         call'[t] # Absent => Placed(call'[t]), NEW k \in Keys, Unlink(Entry(k)),
         UNCHANGED <<ram, stats, history, faults>>,
         ~overlapped /\ Knows(t, call[t]) =>
           IF call'[t] = Absent THEN Exact' ELSE Knows(t, call[t])'
  PROVE  IInv'
  <1>1. WritersWrite /\ DirectoryTypes /\ MemoryExact /\ stats \in Totals
    BY DEF IInv
  <1>2. /\ DirectoryTypes'
        /\ \A name \in Names : file'[name] = (IF name = Entry(k) THEN Absent ELSE file[name])
    BY <1>1, UnlinkRemoves
  <1>3. WritersWrite'
    BY <1>1, <1>2, WritersStayOut
  <1>4. MemoryExact' /\ stats' \in Totals
    BY <1>1, MemoryStays
  <1>5. QED
    BY <1>2, <1>3, <1>4, CallMoves

LEMMA StoredFits ==
  ASSUME DirectoryTypes, Within, NEW R \in SUBSET Stored
  PROVE  DiskBytes(R) <= DiskBudget
  <1>1. /\ DiskBytes(Stored) = DiskBytes(R) + DiskBytes(Stored \ R)
        /\ DiskBytes(R) \in Nat /\ DiskBytes(Stored \ R) \in Nat /\ DiskBytes(Stored) \in Nat
    BY StoredParts
  <1>2. DiskBudget \in Nat
    BY BudgetAssumption
  <1>3. QED
    BY <1>1, <1>2 DEF Within

\* The head of a sequence without repetition is not in its tail.
LEMMA TailKeeps ==
  ASSUME NEW A, NEW s \in Seq(A), Distinct(s), s # <<>>
  PROVE  /\ Head(s) \in A /\ Head(s) \in ToSet(s)
         /\ Tail(s) \in Seq(A) /\ Distinct(Tail(s)) /\ ToSet(Tail(s)) = ToSet(s) \ {Head(s)}
  <1> DEFINE l == Len(s)
             r == Tail(s)
  <1>1. /\ l \in Nat /\ l > 0 /\ DOMAIN s = 1..l /\ Head(s) = s[1]
        /\ r \in Seq(A) /\ Len(r) = l - 1 /\ DOMAIN r = 1..(l - 1)
        /\ \A i \in 1..(l - 1) : r[i] = s[i + 1]
    OBVIOUS
  <1>2. \A i, j \in 1..l : s[i] = s[j] => i = j
    BY <1>1 DEF Distinct
  <1> HIDE DEF r, l
  <1>3. 1 \in 1..l /\ \A i \in 1..(l - 1) : i + 1 \in 1..l /\ i + 1 # 1
    BY <1>1
  <1>4. \A i \in 1..l : i = 1 \/ (i - 1 \in 1..(l - 1) /\ (i - 1) + 1 = i)
    BY <1>1
  <1>5. Head(s) \in A /\ Head(s) \in ToSet(s)
    BY <1>1, <1>3 DEF ToSet
  <1>6. Distinct(r)
    <2> SUFFICES ASSUME NEW i \in 1..(l - 1), NEW j \in 1..(l - 1), r[i] = r[j] PROVE i = j
      BY <1>1 DEF Distinct
    <2>1. s[i + 1] = s[j + 1]
      BY <1>1
    <2>2. i + 1 = j + 1
      BY <1>2, <1>3, <2>1
    <2>3. QED
      BY <1>1, <2>2
  <1>7. ToSet(r) = ToSet(s) \ {Head(s)}
    <2>1. ToSet(r) = {r[i] : i \in 1..(l - 1)} /\ ToSet(s) = {s[i] : i \in 1..l}
      BY <1>1 DEF ToSet
    <2>2. \A i \in 1..(l - 1) : r[i] \in ToSet(s) \ {Head(s)}
      BY <1>1, <1>2, <1>3, <2>1
    <2>3. ASSUME NEW x \in ToSet(s) \ {Head(s)} PROVE x \in ToSet(r)
      <3>1. PICK i \in 1..l : s[i] = x
        BY <2>1
      <3>2. i # 1
        BY <1>1, <3>1
      <3>3. r[i - 1] = x /\ i - 1 \in 1..(l - 1)
        BY <1>1, <1>4, <3>1, <3>2
      <3>4. QED
        BY <2>1, <3>3
    <2>4. QED
      BY <2>1, <2>2, <2>3
  <1>8. QED
    BY <1>1, <1>5, <1>6, <1>7 DEF r

\* A call goes on with the rest of its list.
LEMMA CallTails ==
  ASSUME call \in [Threads -> Calls \cup {Absent}], NEW t \in Threads, call[t] \in Calls,
         call[t].list # <<>>, call' = [call EXCEPT ![t].list = Tail(@)]
  PROVE  /\ Moves(t) /\ call'[t] # Absent /\ call'[t].at = call[t].at
         /\ call'[t].op = call[t].op /\ call'[t].key = call[t].key
         /\ call'[t].list = Tail(call[t].list)
  <1>1. /\ call'[t] = [call[t] EXCEPT !.list = Tail(call[t].list)]
        /\ \A u \in Threads \ {t} : call'[u] = call[u]
        /\ call' = [u \in Threads |-> call'[u]]
    OBVIOUS
  <1>2. Tail(call[t].list) \in Seq(Keys)
    <2>1. call[t].list \in Seq(Keys)
      BY CallFields
    <2>2. QED
      BY <2>1
  <1>3. call'[t] \in Calls
    BY <1>1, <1>2 DEF Calls
  <1>4. /\ call'[t].at = call[t].at /\ call'[t].op = call[t].op /\ call'[t].key = call[t].key
        /\ call'[t].list = Tail(call[t].list)
    BY <1>1 DEF Calls
  <1>5. call' \in [Threads -> Calls \cup {Absent}]
    BY <1>1, <1>3
  <1>6. QED
    BY <1>1, <1>3, <1>4, <1>5, AbsentAssumption DEF Moves

\* A call that fails is one of several.
LEMMA CallFails ==
  ASSUME IInv, NEW t \in Threads, call[t] # Absent, call[t].at # "writing", Fail(t),
         UNCHANGED <<disk, ram, stats, faults>>, overlapped
  PROVE  IInv'
  <1>1. call \in [Threads -> Calls \cup {Absent}]
    BY CallInProgress
  <1>2. Moves(t) /\ call'[t] = Absent /\ UNCHANGED history
    BY <1>1 DEF Fail, Moves, history
  <1>3. MemoryExact' /\ stats' \in Totals
    BY MemoryStays DEF IInv
  <1>4. QED
    BY <1>2, <1>3, CallMovesOffDisk

LEMMA EvictKeeps ==
  ASSUME IInv, NEW t \in Threads, Evict(t)
  PROVE  IInv'
  <1>1. call[t] # Absent /\ call[t].at = "evicting"
    BY DEF Evict, Inside
  <1>2. /\ call[t] \in Calls /\ Placed(call[t]) /\ call[t].list \in Seq(Keys)
        /\ call \in [Threads -> Calls \cup {Absent}]
    BY <1>1, CallInProgress
  <1>3. call[t].op \in {"put", "open"} /\ (call[t].op = "put" => call[t].key \in Keys)
    BY <1>1, <1>2, CallFields DEF Placed, Sweep
  <1>4. DirectoryTypes /\ MemoryExact /\ stats \in Totals
    BY DEF IInv
  <1>5. UNCHANGED <<ram, stats, faults>>
    BY DEF Evict
  <1> DEFINE list == call[t].list
  <1>6. Knows(t, call[t]) =>
          /\ Distinct(list) /\ ToSet(list) \in SUBSET Stored
          /\ DiskBytes(Stored \ ToSet(list)) <= DiskBudget
          /\ call[t].op = "put" /\ EntryBytes[call[t].key] <= DiskBudget =>
               call[t].key \in Stored /\ call[t].key \notin ToSet(list)
    BY <1>1 DEF Knows
  <1>7. CASE list = <<>> /\ Goto(t, "listing again") /\ UNCHANGED <<disk, history>>
    <2>1. "listing again" \in Steps
      BY DEF Steps
    <2>2. /\ Moves(t) /\ call'[t] # Absent /\ call'[t].at = "listing again"
          /\ call'[t].op = call[t].op /\ call'[t].key = call[t].key
      BY <1>2, <1>7, <2>1, CallGoes
    <2>3. Placed(call'[t])
      BY <1>3, <2>2 DEF Placed, Sweep
    <2>4. MemoryExact' /\ stats' \in Totals
      BY <1>4, <1>5, MemoryStays
    <2>5. ASSUME Knows(t, call[t]) PROVE Knows(t, call[t])'
      <3>1. Stored \ ToSet(list) = Stored
        BY <1>7, NothingWeighsNothing
      <3>2. Within
        BY <1>6, <2>5, <3>1 DEF Within
      <3>3. Within' /\ Stored' = Stored
        BY <1>4, <1>7, <3>2, DiskStays
      <3>4. QED
        BY <1>3, <1>6, <2>2, <2>5, <3>3 DEF Knows
    <2>6. QED
      BY <1>1, <1>5, <1>7, <2>2, <2>3, <2>4, <2>5, CallMovesOffDisk
  <1>8. CASE /\ list # <<>> /\ Unlink(Entry(Head(list)))
             /\ call' = [call EXCEPT ![t].list = Tail(@)] /\ UNCHANGED history
    <2> DEFINE k == Head(list)
    <2>1. k \in Keys
      BY <1>2, <1>8
    <2>2. Stored' = Stored \ {k}
      BY <1>4, <1>8, <2>1, UnlinkRemoves
    <2>3. /\ Moves(t) /\ call'[t] # Absent /\ call'[t].at = "evicting"
          /\ call'[t].op = call[t].op /\ call'[t].key = call[t].key /\ call'[t].list = Tail(list)
      BY <1>1, <1>2, <1>8, CallTails
    <2>4. Placed(call'[t])
      BY <1>3, <2>3 DEF Placed, Sweep
    <2>5. ASSUME Knows(t, call[t]) PROVE Knows(t, call[t])'
      <3> HIDE DEF k, list
      <3>1. /\ k \in ToSet(list) /\ Distinct(Tail(list)) /\ ToSet(Tail(list)) = ToSet(list) \ {k}
        <4>1. list \in Seq(Keys) /\ Distinct(list) /\ list # <<>>
          BY <1>2, <1>6, <1>8, <2>5 DEF list
        <4>2. QED
          BY <4>1, TailKeeps DEF k
      <3>2. Stored' \ ToSet(Tail(list)) = Stored \ ToSet(list)
        BY <2>2, <3>1
      <3>3. ToSet(Tail(list)) \in SUBSET Stored'
        BY <1>6, <2>2, <2>5, <3>1
      <3>4. DiskBytes(Stored' \ ToSet(Tail(list))) <= DiskBudget
        BY <1>6, <2>5, <3>2
      <3>5. call[t].op = "put" /\ EntryBytes[call[t].key] <= DiskBudget =>
              call[t].key \in Stored' /\ call[t].key \notin ToSet(Tail(list))
        BY <1>6, <2>2, <2>5, <3>1
      <3>6. QED
        BY <1>3, <2>3, <3>1, <3>3, <3>4, <3>5 DEF Knows
    <2>6. QED
      BY <1>1, <1>5, <1>8, <2>1, <2>3, <2>4, <2>5, CallRemoves
  <1>9. CASE list # <<>> /\ file[Entry(Head(list))] = Absent /\ Fail(t) /\ UNCHANGED disk
    <2>1. ~overlapped => FALSE
      <3>1. ASSUME ~overlapped PROVE FALSE
        <4>1. Knows(t, call[t])
          BY <1>1, <3>1 DEF IInv, Undisturbed
        <4>2. Head(list) \in ToSet(list) /\ ToSet(list) \in SUBSET Stored
          <5>1. list \in Seq(Keys) /\ Distinct(list) /\ list # <<>> /\ ToSet(list) \in SUBSET Stored
            BY <1>2, <1>6, <1>9, <4>1
          <5> HIDE DEF list
          <5>2. QED
            BY <5>1, TailKeeps
        <4>3. QED
          BY <1>9, <4>2 DEF Stored
      <3>2. QED
        BY <3>1
    <2>2. overlapped
      BY <2>1 DEF IInv
    <2>3. QED
      BY <1>1, <1>5, <1>9, <2>2, CallFails
  <1>10. QED
    BY <1>7, <1>8, <1>9 DEF Evict

LEMMA ClearOneKeeps ==
  ASSUME IInv, NEW t \in Threads, ClearOne(t)
  PROVE  IInv'
  <1>1. call[t] # Absent /\ call[t].at = "clearing" /\ call[t].list # <<>>
    BY DEF ClearOne, Inside
  <1>2. /\ call[t] \in Calls /\ Placed(call[t]) /\ call[t].list \in Seq(Keys)
        /\ call \in [Threads -> Calls \cup {Absent}]
    BY <1>1, CallInProgress
  <1>3. call[t].op = "clear"
    BY <1>1, <1>2, CallFields DEF Placed, Sweep
  <1>4. DirectoryTypes /\ MemoryExact /\ stats \in Totals
    BY DEF IInv
  <1>5. UNCHANGED <<ram, stats, faults>>
    BY DEF ClearOne
  <1> DEFINE list == call[t].list
             k == Head(list)
  <1>6. Knows(t, call[t]) => Distinct(list) /\ ToSet(list) = Stored
    BY <1>1 DEF Knows
  <1>7. Distinct(list) =>
          k \in ToSet(list) /\ Distinct(Tail(list)) /\ ToSet(Tail(list)) = ToSet(list) \ {k}
    <2> SUFFICES ASSUME Distinct(list)
                 PROVE  /\ k \in ToSet(list) /\ Distinct(Tail(list))
                        /\ ToSet(Tail(list)) = ToSet(list) \ {k}
      OBVIOUS
    <2>1. list \in Seq(Keys) /\ list # <<>>
      BY <1>1, <1>2
    <2> HIDE DEF list
    <2>2. QED
      BY <2>1, TailKeeps
  <1>8. CASE file[Entry(k)] = Absent /\ Fail(t) /\ UNCHANGED disk
    <2>1. overlapped
      <3> SUFFICES ASSUME ~overlapped PROVE FALSE
        BY DEF IInv
      <3>1. Knows(t, call[t])
        BY <1>1 DEF IInv, Undisturbed
      <3>2. k \in Stored
        BY <1>6, <1>7, <3>1
      <3>3. QED
        BY <1>8, <3>2 DEF Stored
    <2>2. QED
      BY <1>1, <1>5, <1>8, <2>1, CallFails
  <1>9. CASE /\ Unlink(Entry(k)) /\ call' = [call EXCEPT ![t].list = Tail(@)]
             /\ UNCHANGED history
    <2>1. k \in Keys
      BY <1>1, <1>2
    <2>2. Stored' = Stored \ {k}
      BY <1>4, <1>9, <2>1, UnlinkRemoves
    <2>3. /\ Moves(t) /\ call'[t] # Absent /\ call'[t].at = "clearing"
          /\ call'[t].op = call[t].op /\ call'[t].key = call[t].key /\ call'[t].list = Tail(list)
      BY <1>1, <1>2, <1>9, CallTails
    <2>4. Placed(call'[t])
      BY <1>3, <2>3 DEF Placed
    <2>5. Knows(t, call[t]) => Knows(t, call[t])'
      BY <1>3, <1>6, <1>7, <2>2, <2>3 DEF Knows
    <2>6. QED
      BY <1>1, <1>5, <1>9, <2>1, <2>3, <2>4, <2>5, CallRemoves
  <1>10. QED
    BY <1>8, <1>9 DEF ClearOne

LEMMA DiscardKeeps ==
  ASSUME IInv, NEW t \in Threads, Discard(t)
  PROVE  IInv'
  <1>1. call[t] # Absent /\ call[t].at = "discarding"
    BY DEF Discard, Inside
  <1>2. call[t] \in Calls /\ Placed(call[t]) /\ call \in [Threads -> Calls \cup {Absent}]
    BY <1>1, CallInProgress
  <1>3. call[t].op = "get" /\ call[t].key \in Keys
    BY <1>1, <1>2, CallFields DEF Placed, Sweep
  <1>4. DirectoryTypes /\ MemoryExact /\ stats \in Totals
    BY DEF IInv
  <1> DEFINE k == call[t].key
  <1>5. UNCHANGED <<ram, stats, history, faults>> /\ Unlink(Entry(k))
    BY DEF Discard
  <1>6. "recording" \in Steps /\ Goto(t, "recording")
    BY DEF Discard, Steps
  <1>7. /\ Moves(t) /\ call'[t] # Absent /\ call'[t].at = "recording"
        /\ call'[t].op = call[t].op /\ call'[t].key = k
    BY <1>2, <1>6, CallGoes
  <1>8. Placed(call'[t])
    BY <1>3, <1>7 DEF Placed
  <1>9. Stored' = Stored \ {k}
    BY <1>3, <1>4, <1>5, UnlinkRemoves
  <1>10. ASSUME Knows(t, call[t]) PROVE Knows(t, call[t])'
    <2>1. Exact /\ k \in Stored
      BY <1>1, <1>10 DEF Knows
    <2>2. /\ DiskBytes(Stored) = EntryBytes[k] + DiskBytes(Stored \ {k})
          /\ Cardinality(Stored) = Cardinality(Stored \ {k}) + 1
          /\ EntryBytes[k] \in Nat /\ DiskBytes(Stored \ {k}) \in Nat
      BY <1>4, <2>1, StoredWithout
    <2>3. DiskBytes(Stored \ {k}) <= DiskBudget
      BY <1>4, <2>1, StoredFits DEF Exact
    <2>4. stats.bytes = DiskBytes(Stored) /\ stats.entries = Cardinality(Stored)
      BY <2>1 DEF Exact, Inventory
    <2>5. stats'.bytes = DiskBytes(Stored') + EntryBytes[k] /\ stats'.entries = Cardinality(Stored') + 1
      <3> HIDE DEF k
      <3>1. QED
        BY <1>5, <1>9, <2>2, <2>4
    <2>6. Within' /\ k \notin Stored'
      BY <1>9, <2>3 DEF Within
    <2>7. QED
      BY <1>3, <1>7, <2>5, <2>6 DEF Knows
  <1>11. QED
    BY <1>1, <1>3, <1>5, <1>7, <1>8, <1>10, CallRemoves

LEMMA RemoveOldKeeps ==
  ASSUME IInv, NEW t \in Threads, RemoveOld(t)
  PROVE  IInv'
  <1>1. call[t] # Absent /\ call[t].at = "removing"
    BY DEF RemoveOld, Inside
  <1>2. call[t] \in Calls /\ Placed(call[t]) /\ call \in [Threads -> Calls \cup {Absent}]
    BY <1>1, CallInProgress
  <1>3. call[t].op = "put" /\ call[t].key \in Keys
    BY <1>1, <1>2, CallFields DEF Placed, Sweep
  <1>4. DirectoryTypes
    BY DEF IInv
  <1>5. UNCHANGED <<ram, stats, faults>>
    BY DEF RemoveOld
  <1> DEFINE k == call[t].key
  <1>6. CASE file[Entry(k)] = Absent /\ Fail(t) /\ UNCHANGED disk
    <2>1. overlapped
      <3> SUFFICES ASSUME ~overlapped PROVE FALSE
        BY DEF IInv
      <3>1. Knows(t, call[t])
        BY <1>1 DEF IInv, Undisturbed
      <3>2. k \in Stored
        BY <1>1, <3>1 DEF Knows
      <3>3. QED
        BY <1>6, <3>2 DEF Stored
    <2>2. QED
      BY <1>1, <1>5, <1>6, <2>1, CallFails
  <1>7. CASE Unlink(Entry(k)) /\ Goto(t, "renaming") /\ UNCHANGED history
    <2>1. "renaming" \in Steps
      BY DEF Steps
    <2>2. /\ Moves(t) /\ call'[t] # Absent /\ call'[t].at = "renaming"
          /\ call'[t].op = call[t].op /\ call'[t].key = k
      BY <1>2, <1>7, <2>1, CallGoes
    <2>3. Placed(call'[t])
      BY <1>3, <2>2 DEF Placed
    <2>4. \A name \in Names : name # Entry(k) /\ Newest(name) => Newest(name)'
      BY <1>3, <1>4, <1>7, UnlinkRemoves
    <2>5. Temporary(k) \in Names /\ Temporary(k) # Entry(k)
      BY <1>3, NamesOfKeys
    <2>6. Knows(t, call[t]) => Knows(t, call[t])'
      <3>1. Knows(t, call[t]) => Newest(Temporary(k))
        BY <1>1 DEF Knows
      <3>2. Temporary(k) \in Names /\ (Newest(Temporary(k)) => order' # <<>> /\ Last(order') = Temporary(k))
        BY <2>4, <2>5 DEF Newest
      <3>3. Knows(t, call[t]) => order' # <<>> /\ Last(order') = Temporary(call'[t].key)
        BY <2>2, <3>1, <3>2
      <3>4. QED
        BY <1>3, <2>2, <3>3 DEF Knows, Newest, Temporary
    <2>7. QED
      BY <1>1, <1>3, <1>5, <1>7, <2>2, <2>3, <2>6, CallRemoves
  <1>8. QED
    BY <1>6, <1>7 DEF RemoveOld

LEMMA WrittenKeeps ==
  ASSUME IInv, NEW t \in Threads, Written(t)
  PROVE  IInv'
  <1>1. call[t] # Absent /\ call[t].at = "writing"
    BY DEF Written, Inside
  <1>2. call[t] \in Calls /\ Placed(call[t]) /\ call \in [Threads -> Calls \cup {Absent}]
    BY <1>1, CallInProgress
  <1>3. call[t].op = "put" /\ call[t].key \in Keys
    BY <1>1, <1>2, CallFields DEF Placed, Sweep
  <1>4. DirectoryTypes /\ MemoryExact /\ WritersWrite /\ stats \in Totals
    BY DEF IInv
  <1> DEFINE k == call[t].key
  <1>5. UNCHANGED <<ram, stats, history, faults>> /\ Goto(t, "replacing") /\ "replacing" \in Steps
    BY DEF Written, Steps
  <1>6. /\ Moves(t) /\ call'[t] # Absent /\ call'[t].at = "replacing"
        /\ call'[t].op = call[t].op /\ call'[t].key = k
    BY <1>2, <1>5, CallGoes
  <1>7. Placed(call'[t])
    BY <1>3, <1>6 DEF Placed
  <1>8. /\ DirectoryTypes' /\ Stored' = Stored
        /\ \A name \in Names : t \in file[name] /\ Newest(name) => Newest(name)'
        /\ \A name \in Names, u \in Threads :
             file'[name] # Absent /\ u \in file'[name] =>
               u # t /\ file[name] # Absent /\ u \in file[name]
    BY <1>4, WrittenCloses
  <1>9. WritersWrite'
    <2>1. \A name \in Names, u \in Threads : file'[name] # Absent /\ u \in file'[name] =>
            u # t /\ \E n \in Names : file[n] # Absent /\ u \in file[n]
      BY <1>8
    <2>2. QED
      BY <1>4, <1>6, <2>1, WritersStay
  <1>10. MemoryExact' /\ stats' \in Totals
    BY <1>4, <1>5, MemoryStays
  <1>11. ASSUME Knows(t, call[t]) PROVE Knows(t, call[t])'
    <2>1. Exact /\ t \in file[Temporary(k)] /\ Newest(Temporary(k))
      BY <1>1, <1>11 DEF Knows
    <2>2. Temporary(k) \in Names
      BY <1>3, NamesOfKeys
    <2>3. Exact'
      BY <1>5, <1>8, <2>1 DEF Exact, Within, Inventory
    <2>4. order' # <<>> /\ Last(order') = Temporary(k)
      BY <1>8, <2>1, <2>2 DEF Newest
    <2>5. order' # <<>> /\ Last(order') = Temporary(call'[t].key)
      BY <1>6, <2>4
    <2>6. QED
      BY <1>3, <1>6, <2>3, <2>5 DEF Knows, Newest, Temporary
  <1>12. QED
    BY <1>1, <1>5, <1>6, <1>7, <1>8, <1>9, <1>10, <1>11, CallMoves

LEMMA RenameKeeps ==
  ASSUME IInv, NEW t \in Threads, Rename(t)
  PROVE  IInv'
  <1>1. call[t] # Absent /\ call[t].at = "renaming"
    BY DEF Rename, Inside
  <1>2. call[t] \in Calls /\ Placed(call[t]) /\ call \in [Threads -> Calls \cup {Absent}]
    BY <1>1, CallInProgress
  <1>3. call[t].op = "put" /\ call[t].key \in Keys
    BY <1>1, <1>2, CallFields DEF Placed, Sweep
  <1>4. DirectoryTypes /\ MemoryExact /\ WritersWrite /\ stats \in Totals
    BY DEF IInv
  <1>5. UNCHANGED <<ram, stats, faults>>
    BY DEF Rename
  <1> DEFINE k == call[t].key
             old == Temporary(k)
             new == Entry(k)
  <1>6. old \in Names /\ new \in Names
    BY <1>3, NamesOfKeys
  <1>7. Knows(t, call[t]) => Newest(old)
    BY <1>1 DEF Knows
  <1>8. CASE file[old] = Absent /\ Fail(t) /\ UNCHANGED disk
    <2>1. overlapped
      <3> SUFFICES ASSUME ~overlapped PROVE FALSE
        BY DEF IInv
      <3>1. Knows(t, call[t])
        BY <1>1 DEF IInv, Undisturbed
      <3>2. order # <<>> /\ Last(order) = old /\ order \in Seq(Names)
        BY <1>4, <1>7, <3>1 DEF Newest, DirectoryTypes
      <3>3. old \in ToSet(order)
        <4> HIDE DEF old
        <4>1. Len(order) \in DOMAIN order /\ order[Len(order)] = old
          BY <3>2 DEF Last
        <4>2. QED
          BY <4>1 DEF ToSet
      <3>4. QED
        BY <1>4, <1>8, <3>3 DEF DirectoryTypes
    <2>2. QED
      BY <1>1, <1>5, <1>8, <2>1, CallFails
  <1>9. CASE file[old] # Absent /\ Goto(t, "inserting") /\ UNCHANGED history
    <2>1. "inserting" \in Steps
      BY DEF Steps
    <2>2. /\ Moves(t) /\ call'[t] # Absent /\ call'[t].at = "inserting"
          /\ call'[t].op = call[t].op /\ call'[t].key = k
      BY <1>2, <1>9, <2>1, CallGoes
    <2>3. Placed(call'[t])
      BY <1>3, <2>2 DEF Placed
    <2>4. /\ DirectoryTypes' /\ (Newest(old) => order' # <<>> /\ Last(order') = new)
          /\ file'[new] = file[old] /\ file'[old] = Absent
          /\ \A name \in Names \ {new, old} : file'[name] = file[name]
      <3>1. ASSUME NEW key \in Keys, key = k
            PROVE  /\ DirectoryTypes'
                   /\ Newest(Temporary(key)) => order' # <<>> /\ Last(order') = Entry(key)
                   /\ file'[Entry(key)] = file[Temporary(key)] /\ file'[Temporary(key)] = Absent
                   /\ \A name \in Names \ {Entry(key), Temporary(key)} : file'[name] = file[name]
        <4>1. file[Temporary(key)] # Absent
          BY <1>9, <3>1
        <4>2. QED
          BY <1>4, <3>1, <4>1, RenameMoves DEF Newest
      <3>2. QED
        BY <1>3, <3>1
    <2>5. WritersWrite'
      <3>1. \A n \in Names : file[n] # Absent => t \notin file[n]
        BY <1>1, <1>4, OthersDoNotWrite
      <3> HIDE DEF old, new
      <3>2. \A name \in Names, u \in Threads : file'[name] # Absent /\ u \in file'[name] =>
              \E n \in Names : file[n] # Absent /\ u \in file[n]
        BY <1>6, <1>9, <2>4
      <3>3. QED
        BY <1>4, <2>2, <3>1, <3>2, WritersStay
    <2>6. MemoryExact' /\ stats' \in Totals
      BY <1>4, <1>5, MemoryStays
    <2>7. ASSUME Knows(t, call[t]) PROVE Knows(t, call[t])'
      <3>1. order' # <<>> /\ Last(order') = Entry(k)
        BY <1>7, <2>4, <2>7
      <3>2. order' # <<>> /\ Last(order') = Entry(call'[t].key)
        BY <2>2, <3>1
      <3>3. QED
        BY <1>3, <2>2, <3>2 DEF Knows, Newest, Entry
    <2>8. QED
      BY <1>1, <1>5, <1>9, <2>2, <2>3, <2>4, <2>5, <2>6, <2>7, CallMoves
  <1>10. QED
    BY <1>8, <1>9 DEF Rename

\* A listing of a finite set has each of its members once.
LEMMA ListsOfSet ==
  ASSUME NEW A, NEW S \in SUBSET A, IsFiniteSet(S), NEW s \in SetToSeqs(S)
  PROVE  s \in Seq(A) /\ Distinct(s) /\ ToSet(s) = S
  <1> DEFINE n == Cardinality(S)
  <1>1. n \in Nat
    BY FS_CardinalityType
  <1>2. s \in [1..n -> S] /\ \A i, j \in 1..n : i # j => s[i] # s[j]
    BY DEF SetToSeqs
  <1> HIDE DEF n
  <1>3. s \in Seq(S) /\ Len(s) = n /\ DOMAIN s = 1..n
    BY <1>1, <1>2
  <1>4. s \in Seq(A) /\ Distinct(s)
    BY <1>2, <1>3 DEF Distinct
  <1>5. IsFiniteSet(ToSet(s)) /\ ToSet(s) \in SUBSET S /\ Cardinality(ToSet(s)) = n
    BY <1>3, <1>4, MembersAreFinite
  <1>6. ToSet(s) = S
    BY <1>5, FS_Subset DEF n
  <1>7. QED
    BY <1>4, <1>6

-----------------------------------------------------------------------------
(* So does the begin of a call.                                           *)

\* The kinds of calls.
Kinds == {"get", "put", "recover", "clear", "open"}

\* A call that begins in one thread, and what follows from ~overlapped'.
Begins(t, op, k, where, list) ==
  /\ Moves(t) /\ call[t] = Absent /\ call'[t] # Absent
  /\ call'[t].op = op /\ call'[t].key = k /\ call'[t].at = where /\ call'[t].list = list
  /\ ~overlapped' => ~overlapped /\ (\A u \in Threads : call[u] = Absent)
  /\ overlapped' \in BOOLEAN /\ failures' = {}
LEMMA CallBegins ==
  ASSUME IInv, NEW t \in Threads, NEW op \in Kinds,
         NEW k \in Keys \cup {Absent}, NEW where \in Steps, NEW list \in Seq(Keys),
         Begin(t, op, k, where, list)
  PROVE  Begins(t, op, k, where, list)
  <1>1. call \in [Threads -> Calls \cup {Absent}] /\ overlapped \in BOOLEAN /\ failures = {}
    BY DEF IInv, CallTypes
  <1>2. /\ call'[t] = [op |-> op, key |-> k, at |-> where, list |-> list, listed |-> Empty]
        /\ \A u \in Threads \ {t} : call'[u] = call[u]
        /\ call' = [u \in Threads |-> call'[u]]
    BY <1>1 DEF Begin
  <1>3. call'[t] \in Calls
    BY <1>2 DEF Calls, Empty, Kinds
  <1>4. call' \in [Threads -> Calls \cup {Absent}]
    BY <1>1, <1>2, <1>3
  <1>5. Moves(t)
    BY <1>2, <1>4 DEF Moves
  <1>6. call'[t].op = op /\ call'[t].key = k /\ call'[t].at = where /\ call'[t].list = list
    BY <1>2
  <1>7. call'[t] # Absent
    BY <1>3, CallFields
  <1>8. /\ call[t] = Absent /\ overlapped' = (overlapped \/ \E u \in Threads : call[u] # Absent)
        /\ failures' = failures
    BY DEF Begin
  <1>9. QED
    BY <1>1, <1>5, <1>6, <1>7, <1>8 DEF Begins

\* A call begins with exact statistics, or overlaps another.
LEMMA BeginKeeps ==
  ASSUME IInv, NEW t \in Threads, NEW op \in Kinds,
         NEW k \in Keys \cup {Absent}, NEW where \in Steps, NEW list \in Seq(Keys),
         Begin(t, op, k, where, list), Placed(call'[t]),
         UNCHANGED <<ram, stats, faults>>, DirectoryTypes', WritersWrite',
         Exact => Knows(t, call[t])'
  PROVE  IInv'
  <1>1. /\ Moves(t) /\ call[t] = Absent /\ call'[t] # Absent
        /\ ~overlapped' => ~overlapped /\ (\A u \in Threads : call[u] = Absent)
        /\ overlapped' \in BOOLEAN /\ failures' = {}
    <2>1. Begins(t, op, k, where, list)
      BY CallBegins
    <2>2. QED
      BY ONLY <2>1 DEF Begins
  <1>2. /\ CallTypes /\ MemoryExact /\ Undisturbed /\ stats \in Totals /\ faults \in 0..MaxFaults
    BY DEF IInv
  <1>3. MemoryExact' /\ stats' \in Totals /\ faults' \in 0..MaxFaults
    BY <1>2, MemoryStays
  <1>4. CallTypes'
    <2>1. \A u \in Threads : call'[u] # Absent => Placed(call'[u])
      BY <1>1, <1>2 DEF CallTypes, Moves
    <2>2. call' \in [Threads -> Calls \cup {Absent}]
      BY <1>1 DEF Moves
    <2>3. QED
      BY <2>1, <2>2 DEF CallTypes, Placed
  <1>5. Undisturbed'
    <2> SUFFICES ASSUME ~overlapped' PROVE
           /\ \A v, u \in Threads : call'[v] # Absent /\ call'[u] # Absent => v = u
           /\ AtRest' => Exact'
           /\ \A v \in Threads : call'[v] # Absent => Knows(v, call[v])'
      BY DEF Undisturbed
    <2>1. ~overlapped /\ \A u \in Threads : call[u] = Absent
      BY <1>1
    <2>2. Exact
      BY <1>2, <2>1 DEF Undisturbed, AtRest
    <2>3. \A u \in Threads : u # t => call'[u] = Absent
      BY <1>1, <2>1 DEF Moves
    <2>4. AtRest' => Exact'
      BY <1>1 DEF AtRest
    <2>5. Knows(t, call[t])'
      BY <2>2
    <2>6. ASSUME NEW v \in Threads, call'[v] # Absent PROVE Knows(v, call[v])'
      <3>1. v = t
        BY <2>3, <2>6
      <3>2. QED
        BY <2>5, <3>1 DEF Knows
    <2>7. QED
      BY <2>3, <2>4, <2>6
  <1>6. QED
    BY <1>1, <1>3, <1>4, <1>5 DEF IInv

\* A call that begins without touching the disk.
LEMMA BeginOffDisk ==
  ASSUME IInv, NEW t \in Threads, Moves(t), call[t] = Absent, UNCHANGED disk
  PROVE  /\ DirectoryTypes' /\ WritersWrite' /\ Stored' = Stored
         /\ Inventory' = Inventory /\ Within' = Within
  <1>1. DirectoryTypes /\ WritersWrite
    BY DEF IInv
  <1>2. /\ DirectoryTypes' /\ Stored' = Stored /\ file' = file
        /\ Inventory' = Inventory /\ Within' = Within
    BY <1>1, DiskStays
  <1>3. \A name \in Names : file[name] # Absent => t \notin file[name]
    BY <1>1, OthersDoNotWrite
  <1>4. \A name \in Names, u \in Threads : file'[name] # Absent /\ u \in file'[name] =>
          u # t /\ \E n \in Names : file[n] # Absent /\ u \in file[n]
    BY <1>2, <1>3
  <1>5. WritersWrite'
    BY <1>1, <1>4, WritersStay
  <1>6. QED
    BY <1>2, <1>5

LEMMA MissKeeps ==
  ASSUME IInv, NEW t \in Threads, NEW k \in Keys, Miss(t, k)
  PROVE  IInv'
  <1>1. /\ Begin(t, "get", k, "reading", <<>>) /\ UNCHANGED <<disk, ram, stats, faults>>
        /\ "reading" \in Steps /\ <<>> \in Seq(Keys)
    BY DEF Miss, Steps
  <1>2. /\ Moves(t) /\ call[t] = Absent
        /\ call'[t].op = "get" /\ call'[t].key = k /\ call'[t].at = "reading"
    <2>1. "get" \in Kinds /\ k \in Keys \cup {Absent}
      BY DEF Kinds
    <2>2. Begins(t, "get", k, "reading", <<>>)
      BY <1>1, <2>1, CallBegins
    <2>3. QED
      BY ONLY <2>2 DEF Begins
  <1>3. Placed(call'[t])
    BY <1>2 DEF Placed
  <1>4. DirectoryTypes' /\ WritersWrite' /\ Inventory' = Inventory /\ Within' = Within
    BY <1>1, <1>2, BeginOffDisk
  <1>5. Exact => Exact'
    BY <1>1, <1>4 DEF Exact
  <1>6. Exact => Knows(t, call[t])'
    BY <1>2, <1>5 DEF Knows
  <1>7. QED
    BY <1>1, <1>3, <1>4, <1>6, BeginKeeps DEF Kinds

LEMMA ClearKeeps ==
  ASSUME IInv, NEW t \in Threads, Clear(t)
  PROVE  IInv'
  <1>1. PICK list \in SetToSeqs(Stored) : Begin(t, "clear", Absent, "clearing", list)
    BY DEF Clear
  <1>2. UNCHANGED <<disk, ram, stats, faults>> /\ "clearing" \in Steps
    BY DEF Clear, Steps
  <1>3. DirectoryTypes
    BY DEF IInv
  <1>4. IsFiniteSet(Stored) /\ Stored \in SUBSET Keys /\ Cardinality(Stored) \in Nat
    BY <1>3, StoredIsFinite, FS_CardinalityType
  <1>5. list \in Seq(Keys) /\ Distinct(list) /\ ToSet(list) = Stored
    BY <1>4, ListsOfSet
  <1>6. /\ Moves(t) /\ call[t] = Absent /\ call'[t].op = "clear" /\ call'[t].key = Absent
        /\ call'[t].at = "clearing" /\ call'[t].list = list
    <2>1. "clear" \in Kinds /\ Absent \in Keys \cup {Absent}
      BY DEF Kinds
    <2>2. Begins(t, "clear", Absent, "clearing", list)
      BY <1>1, <1>2, <1>5, <2>1, CallBegins
    <2>3. QED
      BY ONLY <2>2 DEF Begins
  <1>7. Placed(call'[t])
    BY <1>6 DEF Placed
  <1>8. DirectoryTypes' /\ WritersWrite' /\ Stored' = Stored
    BY <1>2, <1>6, BeginOffDisk
  <1>9. Exact => Knows(t, call[t])'
    BY <1>5, <1>6, <1>8 DEF Knows
  <1>10. QED
    BY <1>1, <1>2, <1>5, <1>7, <1>8, <1>9, BeginKeeps DEF Kinds

LEMMA RecoverKeeps ==
  ASSUME IInv, NEW t \in Threads, NEW k \in Keys, Recover(t, k)
  PROVE  IInv'
  <1>1. /\ Begin(t, "recover", k, "forgetting", <<>>) /\ UNCHANGED <<ram, stats, faults>>
        /\ Unlink(Entry(k)) /\ "forgetting" \in Steps /\ <<>> \in Seq(Keys)
    BY DEF Recover, Steps
  <1>2. /\ Moves(t) /\ call[t] = Absent
        /\ call'[t].op = "recover" /\ call'[t].key = k /\ call'[t].at = "forgetting"
    <2>1. /\ Begin(t, "recover", k, "forgetting", <<>>) /\ "forgetting" \in Steps /\ <<>> \in Seq(Keys)
          /\ k \in Keys \cup {Absent} /\ "recover" \in Kinds
      BY <1>1 DEF Kinds
    <2>2. Begins(t, "recover", k, "forgetting", <<>>)
      BY <2>1, CallBegins
    <2>3. QED
      BY ONLY <2>2 DEF Begins
  <1>3. Placed(call'[t])
    BY <1>2 DEF Placed
  <1>4. DirectoryTypes /\ WritersWrite
    BY DEF IInv
  <1>5. /\ DirectoryTypes' /\ Stored' = Stored \ {k}
        /\ \A name \in Names : file'[name] = (IF name = Entry(k) THEN Absent ELSE file[name])
    BY <1>1, <1>4, UnlinkRemoves
  <1>6. WritersWrite'
    <2>1. \A name \in Names : file[name] # Absent => t \notin file[name]
      BY <1>2, <1>4, OthersDoNotWrite
    <2>2. \A name \in Names, u \in Threads : file'[name] # Absent /\ u \in file'[name] =>
            u # t /\ \E n \in Names : file[n] # Absent /\ u \in file[n]
      BY <1>5, <2>1
    <2>3. QED
      BY <1>2, <1>4, <2>2, WritersStay
  <1>7. Exact => Within'
    <2>1. Exact => DiskBytes(Stored \ {k}) <= DiskBudget
      BY <1>4, StoredFits DEF Exact
    <2>2. QED
      BY <1>5, <2>1 DEF Within
  <1>8. Exact => Knows(t, call[t])'
    BY <1>2, <1>7 DEF Knows
  <1>9. QED
    BY <1>1, <1>3, <1>5, <1>6, <1>8, BeginKeeps DEF Kinds

LEMMA PutKeeps ==
  ASSUME IInv, NEW t \in Threads, NEW k \in Keys, Put(t, k)
  PROVE  IInv'
  <1>1. /\ Begin(t, "put", k, "writing", <<>>) /\ UNCHANGED <<ram, stats, faults>>
        /\ "writing" \in Steps /\ <<>> \in Seq(Keys)
    BY DEF Put, Steps
  <1>2. /\ Moves(t) /\ call[t] = Absent /\ call'[t] # Absent
        /\ call'[t].op = "put" /\ call'[t].key = k /\ call'[t].at = "writing"
    <2>1. /\ Begin(t, "put", k, "writing", <<>>) /\ "writing" \in Steps /\ <<>> \in Seq(Keys)
          /\ k \in Keys \cup {Absent} /\ "put" \in Kinds
      BY <1>1 DEF Kinds
    <2>2. Begins(t, "put", k, "writing", <<>>)
      BY <2>1, CallBegins
    <2>3. QED
      BY ONLY <2>2 DEF Begins
  <1>3. Placed(call'[t])
    BY <1>2 DEF Placed
  <1>4. DirectoryTypes /\ WritersWrite
    BY DEF IInv
  <1>5. /\ DirectoryTypes' /\ Stored' = Stored /\ Newest(Temporary(k))'
        /\ t \in file'[Temporary(k)]
        /\ \A name \in Names, u \in Threads :
             file'[name] # Absent /\ u \in file'[name] =>
               u = t \/ (file[name] # Absent /\ u \in file[name])
    BY <1>4, PutOpens
  <1>6. WritersWrite'
    <2> SUFFICES ASSUME NEW u \in Threads, NEW name \in Names, file'[name] # Absent, u \in file'[name]
                 PROVE  call'[u] # Absent /\ call'[u].at = "writing"
      BY DEF WritersWrite
    <2>1. CASE u = t
      BY <1>2, <2>1
    <2>2. CASE u # t
      <3>1. call[u] # Absent /\ call[u].at = "writing"
        BY <1>4, <1>5, <2>2 DEF WritersWrite
      <3>2. QED
        BY <1>2, <2>2, <3>1 DEF Moves
    <2>3. QED
      BY <2>1, <2>2
  <1>7. Exact => Exact'
    BY <1>1, <1>5 DEF Exact, Within, Inventory
  <1>8. Exact => Knows(t, call[t])'
    <2>1. /\ t \in file'[Temporary(call'[t].key)]
          /\ order' # <<>> /\ Last(order') = Temporary(call'[t].key)
      BY <1>2, <1>5 DEF Newest
    <2>2. QED
      BY <1>2, <1>7, <2>1 DEF Knows, Newest, Temporary
  <1>9. QED
    BY <1>1, <1>3, <1>5, <1>6, <1>8, BeginKeeps DEF Kinds

-----------------------------------------------------------------------------
(* And a hit, the death of the process and a spoiled entry.                *)

\* A step of no call, which leaves the writers and the times of the files alone.
LEMMA NoCallMoves ==
  ASSUME IInv, UNCHANGED <<order, stats, call, history>>, faults' \in 0..MaxFaults,
         DirectoryTypes', MemoryExact', Stored' = Stored,
         \A name \in Names : (file'[name] # Absent <=> file[name] # Absent),
         \A name \in Names, t \in Threads : t \in file'[name] <=> t \in file[name]
  PROVE  IInv'
  <1>1. /\ CallTypes /\ WritersWrite /\ Undisturbed /\ stats \in Totals
        /\ overlapped \in BOOLEAN /\ failures = {}
    BY DEF IInv
  <1>2. CallTypes'
    BY <1>1 DEF CallTypes, Placed
  <1>3. WritersWrite'
    BY <1>1 DEF WritersWrite
  <1>4. Exact => Exact'
    BY DEF Exact, Within, Inventory
  <1>5. ASSUME NEW t \in Threads, call[t] # Absent, Knows(t, call[t]) PROVE Knows(t, call[t])'
    <2>1. /\ call'[t] = call[t] /\ stats' = stats /\ order' = order
          /\ call[t].at = "writing" => call[t].key \in Keys
      BY <1>1, <1>5, CallFields DEF CallTypes, Placed, Sweep
    <2>2. /\ Within' <=> Within
          /\ Inventory' = Inventory
          /\ DiskBytes(Stored') = DiskBytes(Stored)
          /\ \A k : Newest(Temporary(k))' <=> Newest(Temporary(k))
          /\ \A k : Newest(Entry(k))' <=> Newest(Entry(k))
      BY <2>1 DEF Within, Inventory, Newest
    <2>3. call[t].at = "writing" => t \in file'[Temporary(call[t].key)]
      <3>1. \A k \in Keys : Temporary(k) \in Names
        BY NamesOfKeys
      <3>2. QED
        BY <1>5, <2>1, <3>1 DEF Knows
    <2>4. QED
      BY <1>4, <1>5, <2>1, <2>2, <2>3 DEF Knows, Newest, Temporary, Entry
  <1>6. Undisturbed'
    BY <1>1, <1>4, <1>5 DEF Undisturbed, AtRest, history
  <1>7. QED
    BY <1>1, <1>2, <1>3, <1>6 DEF IInv, history

LEMMA HitKeeps ==
  ASSUME IInv, NEW t \in Threads, NEW k \in Keys, Hit(t, k)
  PROVE  IInv'
  <1>1. /\ Contains(memory, k) /\ memory' = Append(Without(memory, k), k)
        /\ UNCHANGED <<disk, memoryBytes, stats, call, history, faults>>
    BY DEF Hit
  <1>2. DirectoryTypes /\ MemoryExact /\ faults \in 0..MaxFaults
    BY DEF IInv
  <1>3. /\ memory \in Seq(Keys) /\ Distinct(memory)
        /\ memoryBytes = SizeOf(ToSet(memory)) /\ memoryBytes <= MemoryBudget
    BY <1>2 DEF MemoryExact
  <1>4. k \in ToSet(memory)
    BY <1>1, <1>3, ContainsIsMember
  <1>5. /\ Without(memory, k) \in Seq(Keys) /\ Distinct(Without(memory, k))
        /\ ToSet(Without(memory, k)) = ToSet(memory) \ {k}
    BY <1>3, WithoutKeeps
  <1>6. k \notin ToSet(Without(memory, k))
    BY <1>5
  <1>7. /\ memory' \in Seq(Keys) /\ Distinct(memory')
        /\ ToSet(memory') = ToSet(Without(memory, k)) \cup {k}
    BY <1>1, <1>5, <1>6, AppendKeeps
  <1>8. ToSet(memory') = ToSet(memory)
    BY <1>4, <1>5, <1>7
  <1>9. MemoryExact'
    BY <1>1, <1>3, <1>7, <1>8 DEF MemoryExact, SizeOf
  <1>10. DirectoryTypes' /\ Stored' = Stored /\ file' = file
    BY <1>1, <1>2, DiskStays
  <1>11. QED
    BY <1>1, <1>2, <1>9, <1>10, NoCallMoves DEF disk

LEMMA SpoilKeeps ==
  ASSUME IInv, NEW k \in Keys, Spoil(k)
  PROVE  IInv'
  <1>1. /\ faults < MaxFaults /\ faults' = faults + 1 /\ file[Entry(k)] # Absent
        /\ UNCHANGED <<order, ram, stats, call, history>>
    BY DEF Spoil
  <1>2. DirectoryTypes /\ MemoryExact /\ faults \in 0..MaxFaults
    BY DEF IInv
  <1>3. /\ DirectoryTypes' /\ Stored' = Stored
        /\ file'[Entry(k)] = file[Entry(k)] \cup {Dead}
        /\ \A name \in Names \ {Entry(k)} : file'[name] = file[name]
    BY <1>2, SpoilKeepsEntries
  <1>4. faults' \in 0..MaxFaults
    BY <1>1, <1>2, FaultAssumption
  <1>5. MemoryExact'
    BY <1>1, <1>2, MemoryStays
  <1>6. Entry(k) \in Names
    BY NamesOfKeys
  <1>7. file'[Entry(k)] # Absent
    <2>1. Entry(k) \in ToSet(order)
      BY <1>1, <1>2, <1>6 DEF DirectoryTypes
    <2>2. Entry(k) \in ToSet(order')
      BY <1>1, <2>1
    <2>3. QED
      BY <1>3, <2>2 DEF DirectoryTypes
  <1>8. \A name \in Names : (file'[name] # Absent <=> file[name] # Absent)
    BY <1>1, <1>3, <1>7
  <1>9. \A name \in Names, t \in Threads : t \in file'[name] <=> t \in file[name]
    BY <1>3, WriterAssumption
  <1>10. QED
    BY <1>1, <1>3, <1>4, <1>5, <1>8, <1>9, NoCallMoves

LEMMA RestartKeeps ==
  ASSUME IInv, Restart
  PROVE  IInv'
  <1>1. /\ faults < MaxFaults /\ faults' = faults + 1
        /\ memory' = <<>> /\ memoryBytes' = 0 /\ stats' = Empty
        /\ overlapped' = FALSE /\ UNCHANGED failures
    BY DEF Restart
  <1>2. PICK t \in Threads :
          call' = [u \in Threads |-> IF u = t
                     THEN [op |-> "open", key |-> Absent, at |-> "listing", list |-> <<>>, listed |-> Empty]
                     ELSE Absent]
    BY DEF Restart
  <1>3. DirectoryTypes /\ failures = {} /\ faults \in 0..MaxFaults
    BY DEF IInv
  <1>4. /\ DirectoryTypes'
        /\ \A name \in Names : file'[name] # Absent => file'[name] \in {{}, {Dead}}
    BY <1>3, RestartKeepsEntries
  <1>5. faults' \in 0..MaxFaults
    BY <1>1, <1>3, FaultAssumption
  <1>6. stats' \in Totals
    BY <1>1 DEF Empty, Totals
  <1>7. MemoryExact'
    BY <1>1, EmptyMemory
  <1>8. /\ call'[t] = [op |-> "open", key |-> Absent, at |-> "listing", list |-> <<>>, listed |-> Empty]
        /\ \A u \in Threads \ {t} : call'[u] = Absent
    BY <1>2
  <1>9. call'[t] \in Calls
    BY <1>8 DEF Calls, Steps, Empty
  <1>10. call'[t].op = "open" /\ call'[t].at = "listing" /\ call'[t] # Absent
    BY <1>8, <1>9, CallFields
  <1>11. CallTypes'
    <2>1. call' \in [Threads -> Calls \cup {Absent}]
      BY <1>2, <1>8, <1>9
    <2>2. \A u \in Threads : call'[u] # Absent => u = t
      BY <1>8
    <2>3. Placed(call'[t])
      BY <1>10 DEF Placed, Sweep
    <2>4. \A u \in Threads : call'[u] # Absent => Placed(call'[u])
      BY <2>2, <2>3
    <2>5. QED
      BY <2>1, <2>4 DEF CallTypes, Placed
  <1>12. WritersWrite'
    <2>1. \A u \in Threads, name \in Names : file'[name] # Absent => u \notin file'[name]
      BY <1>4, WriterAssumption
    <2>2. QED
      BY <2>1 DEF WritersWrite
  <1>13. Undisturbed'
    <2>1. \A u, v \in Threads : call'[u] # Absent /\ call'[v] # Absent => u = v
      BY <1>8
    <2>2. ~AtRest'
      BY <1>10 DEF AtRest
    <2>3. ASSUME NEW u \in Threads, call'[u] # Absent PROVE Knows(u, call[u])'
      <3>1. call'[u].op = "open" /\ call'[u].at = "listing"
        BY <1>8, <1>10, <2>3
      <3>2. QED
        BY <3>1 DEF Knows
    <2>4. QED
      BY <2>1, <2>2, <2>3 DEF Undisturbed
  <1>14. QED
    BY <1>1, <1>3, <1>4, <1>5, <1>6, <1>7, <1>11, <1>12, <1>13 DEF IInv

LEMMA InitKeeps == Init => IInv
  <1> SUFFICES ASSUME Init PROVE IInv
    OBVIOUS
  <1>1. /\ file = [name \in Names |-> Absent] /\ order = <<>> /\ memory = <<>> /\ memoryBytes = 0
        /\ stats = Empty /\ call = [t \in Threads |-> Absent]
        /\ failures = {} /\ overlapped = FALSE /\ faults = 0
    BY DEF Init
  <1>2. DirectoryTypes
    <2>1. order \in Seq(Names) /\ Distinct(order) /\ ToSet(order) = {}
      BY <1>1 DEF Distinct, ToSet
    <2>2. QED
      BY <1>1, <2>1 DEF DirectoryTypes
  <1>3. MemoryExact
    <2>1. memory \in Seq(Keys) /\ Distinct(memory)
      BY <1>1 DEF Distinct
    <2>2. memoryBytes = SizeOf(ToSet(memory))
      BY <1>1, NothingWeighsNothing
    <2>3. QED
      BY <1>1, <2>1, <2>2, BudgetAssumption DEF MemoryExact
  <1>4. Exact
    <2>1. \A k \in Keys : Entry(k) \in Names
      BY NamesOfKeys
    <2>2. Stored = {}
      BY <1>1, <2>1 DEF Stored
    <2>3. DiskBytes(Stored) = 0 /\ Cardinality(Stored) = 0
      BY <2>2, TotalOfNone, FS_EmptySet DEF DiskBytes
    <2>4. QED
      BY <1>1, <2>3, BudgetAssumption DEF Exact, Within, Inventory, Empty
  <1>5. CallTypes
    BY <1>1 DEF CallTypes
  <1>6. WritersWrite
    BY <1>1 DEF WritersWrite
  <1>7. Undisturbed
    BY <1>1, <1>4 DEF Undisturbed
  <1>8. stats \in Totals
    BY <1>1 DEF Empty, Totals
  <1>9. QED
    <2>1. overlapped \in BOOLEAN /\ failures = {}
      BY <1>1
    <2>2. faults \in 0..MaxFaults
      BY <1>1, FaultAssumption
    <2>3. QED
      BY <1>2, <1>3, <1>5, <1>6, <1>7, <1>8, <2>1, <2>2 DEF IInv

LEMMA ProceedKeeps ==
  ASSUME IInv, NEW t \in Threads, Proceed(t)
  PROVE  IInv'
  <1>1. CASE List(t)
    BY <1>1, ListKeeps
  <1>2. CASE Count(t)
    BY <1>2, CountKeeps
  <1>3. CASE Choose(t)
    BY <1>3, ChooseKeeps
  <1>4. CASE Evict(t)
    BY <1>4, EvictKeeps
  <1>5. CASE Read(t)
    BY <1>5, ReadKeeps
  <1>6. CASE Restore(t)
    BY <1>6, RestoreKeeps
  <1>7. CASE Discard(t)
    BY <1>7, DiscardKeeps
  <1>8. CASE Record(t)
    BY <1>8, RecordKeeps
  <1>9. CASE Written(t)
    BY <1>9, WrittenKeeps
  <1>10. CASE Replace(t)
    BY <1>10, ReplaceKeeps
  <1>11. CASE RemoveOld(t)
    BY <1>11, RemoveOldKeeps
  <1>12. CASE Rename(t)
    BY <1>12, RenameKeeps
  <1>13. CASE InsertPut(t)
    BY <1>13, InsertPutKeeps
  <1>14. CASE Forget(t)
    BY <1>14, ForgetKeeps
  <1>15. CASE ClearOne(t)
    BY <1>15, ClearOneKeeps
  <1>16. CASE ClearAll(t)
    BY <1>16, ClearAllKeeps
  <1>17. QED
    BY <1>1, <1>2, <1>3, <1>4, <1>5, <1>6, <1>7, <1>8, <1>9, <1>10, <1>11, <1>12, <1>13,
       <1>14, <1>15, <1>16 DEF Proceed

\* The invariant is inductive.
LEMMA StepKeeps ==
  ASSUME IInv, [Next]_vars
  PROVE  IInv'
  <1>1. ASSUME NEW t \in Threads, Proceed(t) PROVE IInv'
    BY <1>1, ProceedKeeps
  <1>2. ASSUME NEW t \in Threads, Clear(t) PROVE IInv'
    BY <1>2, ClearKeeps
  <1>3. ASSUME NEW t \in Threads, NEW k \in Keys, Call(t, k) PROVE IInv'
    <2>1. CASE Hit(t, k)
      BY <2>1, HitKeeps
    <2>2. CASE Miss(t, k)
      BY <2>2, MissKeeps
    <2>3. CASE Put(t, k)
      BY <2>3, PutKeeps
    <2>4. CASE Recover(t, k)
      BY <2>4, RecoverKeeps
    <2>5. QED
      BY <1>3, <2>1, <2>2, <2>3, <2>4 DEF Call
  <1>4. CASE Restart
    BY <1>4, RestartKeeps
  <1>5. ASSUME NEW k \in Keys, Spoil(k) PROVE IInv'
    BY <1>5, SpoilKeeps
  <1>6. CASE UNCHANGED vars
    <2>1. UNCHANGED <<disk, ram, stats, call, history, faults>>
      BY <1>6 DEF vars, disk, ram
    <2>2. DirectoryTypes /\ MemoryExact /\ faults \in 0..MaxFaults
      BY DEF IInv
    <2>3. DirectoryTypes' /\ Stored' = Stored /\ file' = file /\ order' = order
      BY <2>1, <2>2, DiskStays DEF disk
    <2>4. MemoryExact'
      BY <2>1, <2>2, MemoryStays
    <2>5. QED
      BY <2>1, <2>2, <2>3, <2>4, NoCallMoves
  <1>7. QED
    BY <1>1, <1>2, <1>3, <1>4, <1>5, <1>6 DEF Next

-----------------------------------------------------------------------------
(* The theorems.                                                           *)

\* The inductive invariant holds of every reachable state: both tiers are what
\* their counters say, and a call that nothing overlaps knows at each of its steps
\* what is on disk (lib.rs:206-455).
THEOREM CacheInvariant == Spec => []IInv
  BY InitKeeps, StepKeeps, PTL DEF Spec

\* Every variable keeps its type: the directory lists each existing file once, and
\* no key is in memory twice, whatever calls of however many threads interleave
\* (CacheStore and MemoryState, lib.rs:145-165).
THEOREM CacheTypes == Spec => []TypeOK
  <1>1. IInv => TypeOK
    <2> SUFFICES ASSUME IInv PROVE TypeOK
      OBVIOUS
    <2>1. /\ CallTypes /\ DirectoryTypes /\ MemoryExact /\ stats \in Totals
          /\ overlapped \in BOOLEAN /\ failures = {} /\ faults \in 0..MaxFaults
      BY DEF IInv
    <2>2. /\ ToSet(order) = {name \in Names : file[name] # Absent}
          /\ Len(order) = Cardinality(ToSet(order))
          /\ file \in [Names -> {Absent} \cup SUBSET (Threads \cup {Dead})]
      BY <2>1, MembersAreFinite DEF DirectoryTypes
    <2>3. ToSet(memory) \subseteq Keys /\ Len(memory) = Cardinality(ToSet(memory))
      BY <2>1, MembersAreFinite DEF MemoryExact
    <2>4. \A t \in Threads : call[t] \in Calls \cup {Absent}
      BY <2>1 DEF CallTypes
    <2>5. stats.bytes \in Int /\ stats.entries \in Int
      BY <2>1 DEF Totals
    <2>6. QED
      BY <2>1, <2>2, <2>3, <2>4, <2>5 DEF TypeOK
  <1>2. QED
    BY CacheInvariant, <1>1, PTL

\* The memory tier is inside its budget and its byte counter is the sum of what it
\* holds, for any number of threads and keys, any sizes and any budget: inserting
\* evicts far enough, and no entry is counted twice or after it left
\* (insert_memory and remove_memory, lib.rs:419-455).
THEOREM MemoryHolds == Spec => []MemoryWithinBudget
  <1>1. IInv => MemoryWithinBudget
    BY DEF IInv, MemoryExact, MemoryWithinBudget
  <1>2. QED
    BY CacheInvariant, <1>1, PTL

\* The disk statistics never go below zero, and at rest after calls that did not
\* overlap they are what is on disk, inside the budget, also after deaths of the
\* process and spoiled entries (refresh_disk_inventory, evict_disk_to_budget,
\* lib.rs:244-260, 372-416).
THEOREM DiskTierHolds == Spec => []DiskTierExact
  <1>1. IInv => DiskTierExact
    BY DEF IInv, Undisturbed, Exact, Within, Totals, DiskTierExact
  <1>2. QED
    BY CacheInvariant, <1>1, PTL

\* No call fails that no other overlaps: what it removes or renames is there
\* (lib.rs:272-416).
THEOREM CallsHold == Spec => []CallsSucceed
  <1>1. IInv => CallsSucceed
    BY DEF IInv, CallsSucceed
  <1>2. QED
    BY CacheInvariant, <1>1, PTL

\* How a put that no other call overlaps ends: by the second count of the entries.
LEMMA PutEnds ==
  ASSUME IInv, [Next]_vars, NEW t \in Threads, call[t] # Absent, call[t].op = "put",
         call'[t] = Absent, ~overlapped, faults' = faults
  PROVE  call[t].at = "counting again" /\ UNCHANGED file
  <1>1. IInv'
    BY StepKeeps
  <1>2. /\ call[t] \in Calls /\ Placed(call[t]) /\ call \in [Threads -> Calls \cup {Absent}]
    BY CallInProgress
  <1>3. \A u \in Threads : u # t => call[u] = Absent
    BY DEF IInv, Undisturbed
  <1>4. ~Fail(t)
    <2>1. failures' = {} /\ call[t].op \in failures \cup {call[t].op}
      BY <1>1 DEF IInv
    <2>2. QED
      BY <2>1 DEF Fail
  <1>5. \A where \in Steps : ~Goto(t, where)
    BY <1>2, CallGoes
  <1>6. call' # call
    BY <1>2
  <1>7. ASSUME NEW u \in Threads, Proceed(u) PROVE call[t].at = "counting again" /\ UNCHANGED file
    <2>1. u = t
      BY <1>3, <1>7 DEF Proceed, List, Count, Choose, Evict, Read, Restore, Discard, Record,
         Written, Replace, RemoveOld, Rename, InsertPut, Forget, ClearOne, ClearAll, Inside
    <2>2. call[t].at \in {"writing", "replacing", "removing", "renaming", "inserting"} \cup Sweep
      BY <1>2 DEF Placed
    <2>3. ~List(t) /\ ~Choose(t)
      <3>2. List(t) => call'[t] = [call[t] EXCEPT !.listed = Inventory,
               !.at = IF call[t].at = "listing" THEN "counting" ELSE "counting again"]
        BY <1>2 DEF List
      <3>3. Choose(t) => call'[t] = [call[t] EXCEPT !.list = Victims, !.at = "evicting"]
        BY <1>2 DEF Choose
      <3>4. DirectoryTypes
        BY DEF IInv
      <3>5. Victims \in Seq(Keys) /\ Inventory \in Totals
        BY <3>4, VictimsSuffice, InventoryType
      <3>6. {"counting", "counting again", "evicting"} \subseteq Steps
        BY DEF Steps
      <3>7. List(t) => call'[t] \in Calls
        BY ONLY <1>2, <3>2, <3>5, <3>6 DEF Calls, Totals
      <3>8. Choose(t) => call'[t] \in Calls
        BY ONLY <1>2, <3>3, <3>5, <3>6 DEF Calls
      <3>9. QED
        BY <3>7, <3>8, AbsentAssumption
    <2>4. ~Evict(t)
      <3>1. "listing again" \in Steps
        BY DEF Steps
      <3>2. call[t].list # <<>> => ~(call' = [call EXCEPT ![t].list = Tail(@)])
        BY <1>2, CallTails
      <3>3. QED
        BY <1>4, <1>5, <3>1, <3>2 DEF Evict
    <2>5. ~Read(t) /\ ~Restore(t) /\ ~Discard(t) /\ ~Record(t) /\ ~ClearOne(t) /\ ~ClearAll(t)
      BY <2>2 DEF Read, Restore, Discard, Record, ClearOne, ClearAll, Inside, Sweep
    <2>6. ~Forget(t)
      BY <2>2 DEF Forget, Inside, Sweep
    <2>7. ~Written(t) /\ ~Replace(t) /\ ~InsertPut(t)
      <3>1. {"replacing", "removing", "renaming", "listing"} \subseteq Steps
        BY DEF Steps
      <3>2. ~Written(t) /\ ~InsertPut(t)
        BY <1>5, <3>1 DEF Written, InsertPut
      <3>3. ~Replace(t)
        <4>1. (IF file[Entry(call[t].key)] = Absent THEN "renaming" ELSE "removing") \in Steps
          BY <3>1
        <4>2. QED
          BY <1>5, <4>1 DEF Replace
      <3>4. QED
        BY <3>2, <3>3
    <2>8. ~RemoveOld(t) /\ ~Rename(t)
      <3>1. "renaming" \in Steps /\ "inserting" \in Steps
        BY DEF Steps
      <3>2. QED
        BY <1>4, <1>5, <3>1 DEF RemoveOld, Rename
    <2>9. Count(t)
      BY <1>7, <2>1, <2>3, <2>4, <2>5, <2>6, <2>7, <2>8 DEF Proceed
    <2>10. UNCHANGED file
      BY <2>9 DEF Count, disk
    <2>11. ~(call[t].at = "counting")
      <3> SUFFICES ASSUME call[t].at = "counting" PROVE FALSE
        OBVIOUS
      <3>1. call'[t] = [call[t] EXCEPT !.at = "choosing", !.listed = Empty]
        BY <1>2, <2>9 DEF Count
      <3>2. call'[t] \in Calls
        BY <1>2, <3>1, NothingWeighsNothing DEF Calls, Totals, Steps
      <3>3. QED
        BY <3>2, AbsentAssumption
    <2>12. QED
      BY <2>9, <2>10, <2>11 DEF Count, Inside
  <1>8. ASSUME NEW u \in Threads, NEW op, NEW k, NEW where, NEW list, Begin(u, op, k, where, list)
        PROVE  FALSE
    <2>1. u # t /\ call'[t] = call[t]
      BY <1>2, <1>8 DEF Begin
    <2>2. QED
      BY <2>1
  <1>9. ASSUME NEW u \in Threads PROVE ~Clear(u)
    BY <1>8 DEF Clear
  <1>10. ASSUME NEW u \in Threads, NEW k \in Keys PROVE ~Call(u, k)
    <2>1. ~Miss(u, k) /\ ~Put(u, k) /\ ~Recover(u, k)
      BY <1>8 DEF Miss, Put, Recover
    <2>2. ~Hit(u, k)
      BY <1>6 DEF Hit
    <2>3. QED
      BY <2>1, <2>2 DEF Call
  <1>11. ~Restart /\ \A k \in Keys : ~Spoil(k)
    <2>1. faults \in Nat /\ faults' # faults + 1
      BY FaultAssumption DEF IInv
    <2>2. QED
      BY <2>1 DEF Restart, Spoil
  <1>12. ~UNCHANGED vars
    BY <1>6 DEF vars
  <1>13. QED
    BY <1>7, <1>9, <1>10, <1>11, <1>12 DEF Next

\* A put that overlaps no other call and fits the budget ends with a whole entry on
\* disk: what is evicted to make room for it is older, and nobody is writing it
\* (put and evict_disk_to_budget, lib.rs:272-304, 381-416).
THEOREM PutHolds == Spec => PutIsStored
  <1> DEFINE Stored1(t) ==
        (call[t] # Absent /\ call[t].op = "put" /\ call'[t] = Absent /\ ~overlapped
         /\ faults' = faults /\ EntryBytes[call[t].key] <= DiskBudget)
        => file'[Entry(call[t].key)] # Absent /\ file'[Entry(call[t].key)] \subseteq {Dead}
  <1>1. ASSUME IInv, [Next]_vars, NEW t \in Threads PROVE Stored1(t)
    <2> SUFFICES ASSUME call[t] # Absent, call[t].op = "put", call'[t] = Absent, ~overlapped,
                        faults' = faults, EntryBytes[call[t].key] <= DiskBudget
                 PROVE  /\ file'[Entry(call[t].key)] # Absent
                        /\ file'[Entry(call[t].key)] \subseteq {Dead}
      OBVIOUS
    <2> DEFINE k == call[t].key
    <2>1. call[t].at = "counting again" /\ file' = file
      BY <1>1, PutEnds
    <2>2. Knows(t, call[t]) /\ \A u \in Threads : u # t => call[u] = Absent
      BY <1>1 DEF IInv, Undisturbed
    <2>3. k \in Keys /\ file[Entry(k)] # Absent
      BY <2>1, <2>2 DEF Knows, Stored
    <2>4. Entry(k) \in Names
      BY <2>3, NamesOfKeys
    <2>5. file[Entry(k)] \in SUBSET (Threads \cup {Dead})
      BY <1>1, <2>3, <2>4 DEF IInv, DirectoryTypes
    <2>6. \A u \in Threads : u \notin file[Entry(k)]
      BY <1>1, <2>1, <2>2, <2>3, <2>4 DEF IInv, WritersWrite
    <2>7. QED
      BY <2>1, <2>3, <2>5, <2>6
  <1>2. IInv /\ [Next]_vars => \A t \in Threads : Stored1(t)
    BY <1>1
  <1>3. IInv /\ [Next]_vars =>
          [\A t \in Threads :
             LET put == call[t]
             IN  (put # Absent /\ put.op = "put" /\ call'[t] = Absent /\ ~overlapped
                  /\ faults' = faults /\ EntryBytes[put.key] <= DiskBudget)
                 => file'[Entry(put.key)] # Absent /\ file'[Entry(put.key)] \subseteq {Dead}]_vars
    BY <1>2
  <1>4. QED
    BY CacheInvariant, <1>3, PTL DEF Spec, PutIsStored
=============================================================================
