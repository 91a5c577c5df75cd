------------------------ MODULE Calculations_proofs ------------------------
(***************************************************************************)
(* The two calculations of the program that keep a state of their own: the  *)
(* compute session (VayuSession), whose chunks and bytes are added up, and  *)
(* the ranking of a study (StudyRanking), whose crowding distances are.     *)
(* Both sums are folds over finite sets, and the first lemmas, shared, say  *)
(* what can be said of these without induction on the data.                 *)
(*                                                                         *)
(* The properties of a compute session are proved for any number of         *)
(* threads, any batches, scenes, sizes and policies, and any number of      *)
(* failures of the device.  Those of the ranking and of the optimizer, from *)
(* the lemma SumIsInt on, are proved for populations, archives and batches  *)
(* of any size, any number of generations, and any evaluations of one or    *)
(* two objectives.  With three objectives domination may go round in a      *)
(* circle, and then a candidate has no front.                               *)
(***************************************************************************)
EXTENDS VayuSession, StudyRanking, FiniteSetTheorems, SequenceTheorems, WellFoundedInduction, TLAPS

-----------------------------------------------------------------------------
(* Induction, stated of sets.                                              *)

LEMMA LeastExists ==
  ASSUME NEW S \in SUBSET Nat, S # {}
  PROVE  Min(S) \in S /\ \A n \in S : Min(S) <= n
  <1> DEFINE U == {0..n : n \in S}
  <1>1. U \subseteq FiniteSubsetsOf(Nat) /\ U # {}
    <2>1. \A n \in S : 0..n \in SUBSET Nat /\ IsFiniteSet(0..n)
      BY FS_Interval
    <2>2. \A n \in S : 0..n \in FiniteSubsetsOf(Nat)
      BY <2>1 DEF FiniteSubsetsOf
    <2>3. QED
      BY <2>2
  <1>2. PICK u \in U : \A v \in U : <<v, u>> \notin StrictSubsetOrdering(Nat)
    <2> HIDE DEF U
    <2>1. QED
      BY <1>1, FS_StrictSubsetOrderingWellFounded, WFMin
  <1>3. PICK m \in S : u = 0..m
    BY <1>2
  <1>4. ASSUME NEW n \in S, n < m PROVE FALSE
    <2>1. 0..n \in U /\ 0..n \in SUBSET Nat /\ 0..m \in SUBSET Nat
      BY <1>4
    <2>2. 0..n \subseteq 0..m /\ 0..n # 0..m
      <3>1. m \in 0..m /\ m \notin 0..n
        BY <1>4
      <3>2. QED
        BY <1>4, <3>1
    <2>3. QED
      BY <1>2, <1>3, <2>1, <2>2 DEF StrictSubsetOrdering
  <1>5. \A n \in S : m <= n
    BY <1>4
  <1>6. QED
    BY <1>5 DEF Min

LEMMA GreatestExists ==
  ASSUME NEW S \in SUBSET Nat, S # {}, NEW n \in Nat, \A s \in S : s <= n
  PROVE  Max(S) \in S /\ \A s \in S : s <= Max(S)
  <1> DEFINE U == {m \in Nat : \A s \in S : s <= m}
  <1>1. n \in U /\ U \in SUBSET Nat /\ U # {}
    OBVIOUS
  <1>2. PICK m : m = Min(U)
    OBVIOUS
  <1>3. m \in U /\ \A u \in U : m <= u
    BY <1>1, <1>2, LeastExists
  <1>4. m \in S
    <2>1. SUFFICES ASSUME m \notin S PROVE FALSE
      OBVIOUS
    <2>2. m \in Nat /\ \A s \in S : s < m
      BY <1>3, <2>1
    <2>3. PICK s \in S : s < m
      BY <2>2
    <2>4. m - 1 \in Nat
      BY <2>2, <2>3
    <2>5. m - 1 \in U
      BY <2>2, <2>4
    <2>6. QED
      BY <1>3, <2>2, <2>5
  <1>5. \A s \in S : m >= s
    BY <1>3
  <1>6. \A k \in S : (\A s \in S : k >= s) => k = m
    BY <1>4, <1>5
  <1>7. Max(S) = m
    BY <1>4, <1>5, <1>6 DEF Max
  <1>8. QED
    BY <1>4, <1>5, <1>7

LEMMA CountingUp ==
  ASSUME NEW T, 0 \in T, \A n \in Nat : n \in T => n + 1 \in T
  PROVE  Nat \subseteq T
  <1> DEFINE S == {n \in Nat : n \notin T}
             m == Min(S)
  <1> SUFFICES ASSUME S # {} PROVE FALSE
    OBVIOUS
  <1>1. m \in S /\ \A n \in S : m <= n
    BY LeastExists
  <1>2. m # 0 /\ m - 1 \in Nat /\ m - 1 \notin S
    BY <1>1
  <1>3. QED
    BY <1>1, <1>2

-----------------------------------------------------------------------------
(* Sums.  The fold takes the members of a set in some order; every order   *)
(* gives the same.                                                         *)

Pick(s) == CHOOSE x \in s : TRUE

\* h adds up the weights of every set in D.
Sums(w, D, h) ==
  h = [s \in D |-> IF s = {} THEN 0 ELSE w[Pick(s)] + h[s \ {Pick(s)}]]

Small(S, n) == {s \in SUBSET S : Cardinality(s) <= n}

LEMMA PickIsMember ==
  ASSUME NEW s, s # {}
  PROVE  Pick(s) \in s
  BY DEF Pick

\* Up to each size there is such a function on the subsets of a set.
LEMMA SumsOfSmallSets ==
  ASSUME NEW w, NEW S, IsFiniteSet(S), NEW n \in Nat
  PROVE  \E h : Sums(w, Small(S, n), h)
  <1> DEFINE D(m) == {s \in SUBSET S : Cardinality(s) <= m}
             T == {m \in Nat : \E h : Sums(w, D(m), h)}
  <1>1. \A s \in SUBSET S : IsFiniteSet(s) /\ Cardinality(s) \in Nat
    BY FS_Subset, FS_CardinalityType
  <1>2. 0 \in T
    <2> DEFINE h == [s \in D(0) |-> 0]
    <2>1. \A s \in D(0) : s = {}
      BY <1>1, FS_EmptySet
    <2>2. h = [s \in D(0) |-> IF s = {} THEN 0 ELSE w[Pick(s)] + h[s \ {Pick(s)}]]
      BY <2>1
    <2>3. QED
      BY <2>2 DEF Sums
  <1>3. ASSUME NEW m \in Nat, m \in T PROVE m + 1 \in T
    <2>1. PICK h : Sums(w, D(m), h)
      BY <1>3
    <2> DEFINE g == [s \in D(m + 1) |-> IF s = {} THEN 0 ELSE w[Pick(s)] + h[s \ {Pick(s)}]]
    <2>2. \A s \in D(m + 1) : s # {} => s \ {Pick(s)} \in D(m)
      <3>1. SUFFICES ASSUME NEW s \in D(m + 1), s # {} PROVE s \ {Pick(s)} \in D(m)
        OBVIOUS
      <3>2. Cardinality(s \ {Pick(s)}) = Cardinality(s) - 1
        BY <1>1, <3>1, PickIsMember, FS_RemoveElement
      <3>3. QED
        BY <1>1, <3>1, <3>2
    <2>3. \A s \in D(m) : s \in D(m + 1) /\ g[s] = h[s]
      <3>1. \A s \in D(m) : s \in D(m + 1)
        BY <1>1
      <3>2. \A s \in D(m) : h[s] = IF s = {} THEN 0 ELSE w[Pick(s)] + h[s \ {Pick(s)}]
        BY <2>1 DEF Sums
      <3>3. QED
        BY <3>1, <3>2
    <2>4. \A s \in D(m + 1) : s # {} => g[s \ {Pick(s)}] = h[s \ {Pick(s)}]
      BY <2>2, <2>3
    <2>5. g = [s \in D(m + 1) |-> IF s = {} THEN 0 ELSE w[Pick(s)] + g[s \ {Pick(s)}]]
      BY ONLY <2>4
    <2> HIDE DEF g
    <2>6. Sums(w, D(m + 1), g)
      BY <2>5 DEF Sums
    <2>7. QED
      BY <2>6
  <1>4. Nat \subseteq T
    <2> HIDE DEF T
    <2>1. QED
      BY <1>2, <1>3, CountingUp
  <1>5. QED
    BY <1>4 DEF Small

LEMMA SumsExist ==
  ASSUME NEW w, NEW S, IsFiniteSet(S)
  PROVE  \E h : Sums(w, SUBSET S, h)
  <1>1. \A s \in SUBSET S : Cardinality(s) <= Cardinality(S)
    BY FS_Subset
  <1>2. Small(S, Cardinality(S)) = SUBSET S
    BY <1>1 DEF Small
  <1>3. Cardinality(S) \in Nat
    BY FS_CardinalityType
  <1>4. \E h : Sums(w, Small(S, Cardinality(S)), h)
    BY <1>3, SumsOfSmallSets
  <1>5. QED
    BY <1>2, <1>4

LEMMA SmallerSetsFirst ==
  ASSUME NEW K, IsFiniteSet(K), NEW F, {} \in F,
         \A s \in SUBSET K : s # {} /\ s \ {Pick(s)} \in F => s \in F
  PROVE  K \in F
  <1> DEFINE T == {n \in Nat : \A s \in SUBSET K : Cardinality(s) = n => s \in F}
  <1>1. \A s \in SUBSET K : IsFiniteSet(s) /\ Cardinality(s) \in Nat /\ (Cardinality(s) = 0 <=> s = {})
    BY FS_Subset, FS_CardinalityType, FS_EmptySet
  <1>2. 0 \in T
    BY <1>1
  <1>3. ASSUME NEW n \in Nat, n \in T PROVE n + 1 \in T
    <2>1. SUFFICES ASSUME NEW s \in SUBSET K, Cardinality(s) = n + 1 PROVE s \in F
      OBVIOUS
    <2>2. s # {} /\ IsFiniteSet(s)
      BY <1>1, <2>1
    <2>3. Cardinality(s \ {Pick(s)}) = n
      <3>1. Pick(s) \in s
        BY <2>2, PickIsMember
      <3>2. Cardinality(s \ {Pick(s)}) = Cardinality(s) - 1
        BY <2>2, <3>1, FS_RemoveElement
      <3>3. QED
        BY <2>1, <3>2
    <2>4. s \ {Pick(s)} \in F
      BY <1>3, <2>3
    <2>5. QED
      BY <2>2, <2>4
  <1>4. Nat \subseteq T
    <2> HIDE DEF T
    <2>1. QED
      BY <1>2, <1>3, CountingUp
  <1>5. QED
    BY <1>1, <1>4

LEMMA SumIsNat ==
  ASSUME NEW S, IsFiniteSet(S), NEW w, \A x \in S : w[x] \in Nat, NEW h, Sums(w, SUBSET S, h)
  PROVE  h[S] \in Nat
  <1> DEFINE F == {s \in SUBSET S : h[s] \in Nat}
  <1>1. \A s \in SUBSET S : h[s] = IF s = {} THEN 0 ELSE w[Pick(s)] + h[s \ {Pick(s)}]
    BY DEF Sums
  <1>2. {} \in F
    <2>1. {} \in SUBSET S
      OBVIOUS
    <2>2. h[{}] = 0
      BY Zenon, <1>1, <2>1
    <2>3. QED
      BY <2>1, <2>2
  <1>3. ASSUME NEW s \in SUBSET S, s # {}, s \ {Pick(s)} \in F PROVE s \in F
    <2>1. Pick(s) \in S
      BY <1>3, PickIsMember
    <2>2. w[Pick(s)] \in Nat /\ h[s \ {Pick(s)}] \in Nat
      BY <1>3, <2>1
    <2>3. h[s] = w[Pick(s)] + h[s \ {Pick(s)}]
      BY <1>1, <1>3
    <2>4. h[s] \in Nat
      BY ONLY <2>2, <2>3
    <2>5. QED
      BY <1>3, <2>4
  <1>4. S \in F
    <2> HIDE DEF F
    <2>1. QED
      BY <1>2, <1>3, SmallerSetsFirst
  <1>5. QED
    BY <1>4

\* One weight grows by d: so does the sum.
LEMMA SumGrows ==
  ASSUME NEW S, IsFiniteSet(S), NEW v, NEW w, \A x \in S : v[x] \in Nat, NEW c \in S, NEW d \in Nat,
         w[c] = v[c] + d, \A x \in S \ {c} : w[x] = v[x],
         NEW g, Sums(v, SUBSET S, g), NEW h, Sums(w, SUBSET S, h)
  PROVE  g[S] \in Nat /\ h[S] = g[S] + d
  <1> DEFINE F == {s \in SUBSET S : g[s] \in Nat /\ h[s] = g[s] + IF c \in s THEN d ELSE 0}
  <1>1. /\ \A s \in SUBSET S : g[s] = IF s = {} THEN 0 ELSE v[Pick(s)] + g[s \ {Pick(s)}]
        /\ \A s \in SUBSET S : h[s] = IF s = {} THEN 0 ELSE w[Pick(s)] + h[s \ {Pick(s)}]
    BY DEF Sums
  <1>2. {} \in F
    <2>1. {} \in SUBSET S
      OBVIOUS
    <2>2. g[{}] = 0 /\ h[{}] = 0
      BY Zenon, <1>1, <2>1
    <2>3. QED
      BY <2>1, <2>2
  <1>3. ASSUME NEW s \in SUBSET S, s # {}, s \ {Pick(s)} \in F PROVE s \in F
    <2>1. Pick(s) \in s /\ Pick(s) \in S /\ v[Pick(s)] \in Nat
      BY <1>3, PickIsMember
    <2>2. PICK p : p = Pick(s)
      OBVIOUS
    <2>3. p \in s /\ p \in S /\ v[p] \in Nat /\ s \ {p} \in F
      BY <1>3, <2>1, <2>2
    <2>4. g[s] = v[p] + g[s \ {p}] /\ h[s] = w[p] + h[s \ {p}]
      BY <1>1, <1>3, <2>2
    <2>5. g[s \ {p}] \in Nat /\ h[s \ {p}] = g[s \ {p}] + IF c \in s \ {p} THEN d ELSE 0
      BY <2>3
    <2>6. CASE p = c
      <3>1. w[p] = v[p] + d /\ c \in s /\ c \notin s \ {p}
        BY <2>3, <2>6
      <3>2. QED
        BY <2>3, <2>4, <2>5, <3>1
    <2>7. CASE p # c
      <3>1. w[p] = v[p] /\ (c \in s <=> c \in s \ {p})
        BY <2>3, <2>7
      <3>2. QED
        BY <2>3, <2>4, <2>5, <3>1
    <2>8. QED
      BY <2>6, <2>7
  <1>4. S \in F
    <2> HIDE DEF F
    <2>1. QED
      BY <1>2, <1>3, SmallerSetsFirst
  <1>5. QED
    BY <1>4

\* The sum that the fold of the model takes over a set.
Total(w, S) == MapThenSumSet(LAMBDA x : w[x], S)

LEMMA TotalIsSum ==
  ASSUME NEW w, NEW S, IsFiniteSet(S)
  PROVE  \E h : Sums(w, SUBSET S, h) /\ Total(w, S) = h[S]
  <1> DEFINE H == CHOOSE h : h = [s \in SUBSET S |->
                    IF s = {} THEN 0 ELSE w[Pick(s)] + h[s \ {Pick(s)}]]
  <1>1. Total(w, S) = H[S]
    BY DEF Total, MapThenSumSet, MapThenFoldSet, Pick
  <1>2. Sums(w, SUBSET S, H)
    <2>1. PICK h : Sums(w, SUBSET S, h)
      BY SumsExist
    <2>2. \E f : f = [s \in SUBSET S |-> IF s = {} THEN 0 ELSE w[Pick(s)] + f[s \ {Pick(s)}]]
      BY ONLY <2>1 DEF Sums
    <2>3. H = [s \in SUBSET S |-> IF s = {} THEN 0 ELSE w[Pick(s)] + H[s \ {Pick(s)}]]
      BY ONLY <2>2
    <2>4. QED
      BY <2>3 DEF Sums
  <1>3. QED
    BY <1>1, <1>2

-----------------------------------------------------------------------------
(* The batches that fell back.                                             *)

Fallbacks(records) == MapThenSumSet(LAMBDA c : records[c].fallbacks, Threads)
FallbacksOf(records) == [c \in Threads |-> records[c].fallbacks]

LEMMA FallbacksAreSum ==
  ASSUME SessionAssumption, NEW records
  PROVE  \E h : Sums(FallbacksOf(records), SUBSET Threads, h) /\ Fallbacks(records) = h[Threads]
  <1> DEFINE H == CHOOSE h : h = [s \in SUBSET Threads |->
                    IF s = {} THEN 0 ELSE records[Pick(s)].fallbacks + h[s \ {Pick(s)}]]
  <1>1. Fallbacks(records) = H[Threads]
    BY DEF Fallbacks, MapThenSumSet, MapThenFoldSet, Pick
  <1>2. Sums(FallbacksOf(records), SUBSET Threads, H)
    <2>1. PICK h : Sums(FallbacksOf(records), SUBSET Threads, h)
      BY SumsExist DEF SessionAssumption
    <2>2. \A s \in SUBSET Threads : s # {} => FallbacksOf(records)[Pick(s)] = records[Pick(s)].fallbacks
      BY PickIsMember DEF FallbacksOf
    <2>3. \A f : f = [s \in SUBSET Threads |-> IF s = {} THEN 0 ELSE records[Pick(s)].fallbacks + f[s \ {Pick(s)}]]
                   <=> Sums(FallbacksOf(records), SUBSET Threads, f)
      BY ONLY <2>2 DEF Sums
    <2>4. h = [s \in SUBSET Threads |-> IF s = {} THEN 0 ELSE records[Pick(s)].fallbacks + h[s \ {Pick(s)}]]
      BY ONLY <2>1, <2>3
    <2>5. H = [s \in SUBSET Threads |-> IF s = {} THEN 0 ELSE records[Pick(s)].fallbacks + H[s \ {Pick(s)}]]
      BY ONLY <2>4
    <2> HIDE DEF H
    <2>6. QED
      BY ONLY <2>3, <2>5
  <1>3. QED
    BY <1>1, <1>2

LEMMA FallbacksGrow ==
  ASSUME SessionAssumption, NEW r, NEW q, \A c \in Threads : r[c].fallbacks \in Nat,
         NEW c \in Threads, NEW d \in Nat, q[c].fallbacks = r[c].fallbacks + d,
         \A x \in Threads \ {c} : q[x].fallbacks = r[x].fallbacks
  PROVE  Fallbacks(q) = Fallbacks(r) + d
  <1>1. PICK g : Sums(FallbacksOf(r), SUBSET Threads, g) /\ Fallbacks(r) = g[Threads]
    BY FallbacksAreSum
  <1>2. PICK h : Sums(FallbacksOf(q), SUBSET Threads, h) /\ Fallbacks(q) = h[Threads]
    BY FallbacksAreSum
  <1>3. PICK v : v = FallbacksOf(r)
    OBVIOUS
  <1>4. PICK w : w = FallbacksOf(q)
    OBVIOUS
  <1>5. /\ \A x \in Threads : v[x] \in Nat
        /\ w[c] = v[c] + d
        /\ \A x \in Threads \ {c} : w[x] = v[x]
        /\ IsFiniteSet(Threads)
    BY <1>3, <1>4 DEF FallbacksOf, SessionAssumption
  <1>6. Sums(v, SUBSET Threads, g) /\ Sums(w, SUBSET Threads, h)
    BY <1>1, <1>2, <1>3, <1>4
  <1>7. h[Threads] = g[Threads] + d
    BY ONLY <1>5, <1>6, c \in Threads, d \in Nat, SumGrows
  <1>8. QED
    BY <1>1, <1>2, <1>7

LEMMA FallbacksAreNat ==
  ASSUME SessionAssumption, NEW r, \A c \in Threads : r[c].fallbacks \in Nat
  PROVE  Fallbacks(r) \in Nat
  <1>1. PICK h : Sums(FallbacksOf(r), SUBSET Threads, h) /\ Fallbacks(r) = h[Threads]
    BY FallbacksAreSum
  <1>2. PICK w : w = FallbacksOf(r)
    OBVIOUS
  <1>3. \A c \in Threads : w[c] \in Nat
    BY <1>2 DEF FallbacksOf
  <1>4. IsFiniteSet(Threads) /\ Sums(w, SUBSET Threads, h)
    BY <1>1, <1>2 DEF SessionAssumption
  <1>5. h[Threads] \in Nat
    BY ONLY <1>3, <1>4, SumIsNat
  <1>6. QED
    BY <1>1, <1>5

LEMMA NothingFellBack ==
  ASSUME SessionAssumption, NEW r, \A c \in Threads : r[c].fallbacks = 0
  PROVE  Fallbacks(r) = 0
  <1>1. PICK h : Sums(FallbacksOf(r), SUBSET Threads, h) /\ Fallbacks(r) = h[Threads]
    BY FallbacksAreSum
  <1> DEFINE F == {s \in SUBSET Threads : h[s] = 0}
  <1>2. \A s \in SUBSET Threads : h[s] = IF s = {} THEN 0 ELSE FallbacksOf(r)[Pick(s)] + h[s \ {Pick(s)}]
    BY <1>1 DEF Sums
  <1>3. {} \in F
    BY <1>2
  <1>4. ASSUME NEW s \in SUBSET Threads, s # {}, s \ {Pick(s)} \in F PROVE s \in F
    <2>1. Pick(s) \in Threads
      BY <1>4, PickIsMember
    <2>2. FallbacksOf(r)[Pick(s)] = 0 /\ h[s \ {Pick(s)}] = 0
      BY <1>4, <2>1 DEF FallbacksOf
    <2>3. QED
      BY <1>2, <1>4, <2>2
  <1>5. Threads \in F
    <2>1. IsFiniteSet(Threads)
      BY DEF SessionAssumption
    <2> HIDE DEF F
    <2>2. QED
      BY <1>3, <1>4, <2>1, SmallerSetsFirst
  <1>6. QED
    BY <1>1, <1>5

-----------------------------------------------------------------------------
(* The chunks of the geometry.                                             *)

\* What an occurrence makes of the chunks before it.
Longer(before, o) == IF before = <<>> THEN <<>> ELSE Append(Last(before), o)
Grown(before, o, limit) ==
  IF before # <<>> /\ estimate_payload(Longer(before, o)) <= limit
  THEN Append(Front(before), Longer(before, o))
  ELSE Append(before, <<o>>)
Groups(occurrences, limit, n, g) ==
  g = [i \in 0..n |-> IF i = 0 THEN <<>> ELSE Grown(g[i - 1], occurrences[i], limit)]

LEMMA AppendedAreMembers ==
  ASSUME NEW T, NEW s \in Seq(T), NEW e \in T
  PROVE  Append(s, e) \in Seq(T) \ {<<>>} /\ <<>> \in Seq(T)
  <1>1. Len(Append(s, e)) = Len(s) + 1 /\ Len(s) \in Nat
    OBVIOUS
  <1>2. QED
    BY <1>1

LEMMA GrownAreChunks ==
  ASSUME NEW S, NEW before \in Seq(Seq(S)), NEW o \in S, NEW limit
  PROVE  Grown(before, o, limit) \in Seq(Seq(S)) \ {<<>>}
  <1>1. <<o>> \in Seq(S)
    OBVIOUS
  <1>2. Append(before, <<o>>) \in Seq(Seq(S)) \ {<<>>}
    BY <1>1, AppendedAreMembers
  <1>3. ASSUME before # <<>> PROVE Append(Front(before), Longer(before, o)) \in Seq(Seq(S)) \ {<<>>}
    <2>1. Len(before) \in Nat \ {0} /\ Len(before) \in DOMAIN before
      BY <1>3
    <2>2. Last(before) \in Seq(S)
      BY <2>1 DEF Last
    <2>3. PICK l : l = Longer(before, o)
      OBVIOUS
    <2>4. l \in Seq(S)
      BY <1>3, <2>2, <2>3 DEF Longer
    <2>5. Front(before) \in Seq(Seq(S))
      BY <2>1 DEF Front
    <2>6. Append(Front(before), l) \in Seq(Seq(S)) \ {<<>>}
      BY <2>4, <2>5, AppendedAreMembers
    <2>7. QED
      BY <2>3, <2>6
  <1>4. QED
    BY <1>2, <1>3 DEF Grown

LEMMA GroupsExist ==
  ASSUME NEW occurrences, NEW limit, NEW n \in Nat
  PROVE  \E g : Groups(occurrences, limit, n, g)
  <1> DEFINE T == {m \in Nat : \E g : Groups(occurrences, limit, m, g)}
  <1>1. 0 \in T
    <2> DEFINE g == [i \in 0..0 |-> <<>>]
    <2>1. g = [i \in 0..0 |-> IF i = 0 THEN <<>> ELSE Grown(g[i - 1], occurrences[i], limit)]
      OBVIOUS
    <2>2. QED
      BY <2>1 DEF Groups
  <1>2. ASSUME NEW m \in Nat, m \in T PROVE m + 1 \in T
    <2>1. PICK h : Groups(occurrences, limit, m, h)
      BY <1>2
    <2> DEFINE g == [i \in 0..(m + 1) |-> IF i = 0 THEN <<>> ELSE Grown(h[i - 1], occurrences[i], limit)]
    <2>2. \A i \in 0..m : i \in 0..(m + 1) /\ g[i] = h[i]
      BY <2>1 DEF Groups
    <2>3. \A i \in 0..(m + 1) : i # 0 => g[i - 1] = h[i - 1]
      <3>1. \A i \in 0..(m + 1) : i # 0 => i - 1 \in 0..m
        OBVIOUS
      <3> HIDE DEF g
      <3>2. QED
        BY <2>2, <3>1
    <2>4. g = [i \in 0..(m + 1) |-> IF i = 0 THEN <<>> ELSE Grown(g[i - 1], occurrences[i], limit)]
      BY ONLY <2>3
    <2> HIDE DEF g
    <2>5. Groups(occurrences, limit, m + 1, g)
      BY ONLY <2>4 DEF Groups
    <2>6. QED
      BY <2>5
  <1>3. Nat \subseteq T
    <2> HIDE DEF T
    <2>1. QED
      BY <1>1, <1>2, CountingUp
  <1>4. QED
    BY <1>3

LEMMA GroupsAreChunks ==
  ASSUME NEW S, NEW occurrences \in Seq(S), NEW limit, NEW g, Groups(occurrences, limit, Len(occurrences), g),
         occurrences # <<>>
  PROVE  g[Len(occurrences)] \in Seq(Seq(S)) \ {<<>>}
  <1>1. PICK len \in Nat : len = Len(occurrences)
    OBVIOUS
  <1>2. len # 0 /\ \A i \in 1..len : occurrences[i] \in S
    BY <1>1
  <1>3. g[0] = <<>> /\ \A i \in 1..len : g[i] = Grown(g[i - 1], occurrences[i], limit)
    BY <1>1 DEF Groups
  <1> DEFINE T == {n \in Nat : n <= len => g[n] \in Seq(Seq(S)) /\ (n # 0 => g[n] # <<>>)}
  <1>4. 0 \in T
    <2>1. \A Q : <<>> \in Seq(Q)
      OBVIOUS
    <2>2. <<>> \in Seq(Seq(S))
      BY Zenon, <2>1
    <2>3. QED
      BY <1>3, <2>2
  <1>5. ASSUME NEW n \in Nat, n \in T PROVE n + 1 \in T
    <2>1. SUFFICES ASSUME n + 1 <= len PROVE g[n + 1] \in Seq(Seq(S)) \ {<<>>}
      OBVIOUS
    <2>2. g[n] \in Seq(Seq(S)) /\ n + 1 \in 1..len
      BY <1>5, <2>1
    <2>3. g[n + 1] = Grown(g[n], occurrences[n + 1], limit)
      <3>1. (n + 1) - 1 = n
        OBVIOUS
      <3>2. QED
        BY <1>3, <2>2, <3>1
    <2>4. occurrences[n + 1] \in S
      BY <1>2, <2>2
    <2>5. QED
      BY ONLY <2>2, <2>3, <2>4, GrownAreChunks
  <1>6. Nat \subseteq T
    <2> HIDE DEF T
    <2>1. QED
      BY <1>4, <1>5, CountingUp
  <1>7. QED
    BY <1>1, <1>2, <1>6

LEMMA SnapshotsAreChunks ==
  ASSUME NEW S, NEW occurrences \in Seq(S), occurrences # <<>>, NEW limit
  PROVE  portable_snapshots(occurrences, limit) \in Seq(Seq(S)) \ {<<>>}
  <1> DEFINE H == CHOOSE g : g = [i \in 0..Len(occurrences) |->
                    IF i = 0 THEN <<>> ELSE Grown(g[i - 1], occurrences[i], limit)]
  <1>1. portable_snapshots(occurrences, limit) = H[Len(occurrences)]
    BY DEF portable_snapshots, Grown, Longer
  <1>2. Len(occurrences) \in Nat
    OBVIOUS
  <1>3. Groups(occurrences, limit, Len(occurrences), H)
    <2>1. PICK g : Groups(occurrences, limit, Len(occurrences), g)
      BY <1>2, GroupsExist
    <2>2. g = [i \in 0..Len(occurrences) |-> IF i = 0 THEN <<>> ELSE Grown(g[i - 1], occurrences[i], limit)]
      BY ONLY <2>1 DEF Groups
    <2>3. H = [i \in 0..Len(occurrences) |-> IF i = 0 THEN <<>> ELSE Grown(H[i - 1], occurrences[i], limit)]
      BY ONLY <2>2
    <2> HIDE DEF H
    <2>4. QED
      BY ONLY <2>3 DEF Groups
  <1> HIDE DEF H
  <1>4. QED
    BY <1>1, <1>3, GroupsAreChunks

-----------------------------------------------------------------------------
(* Sizes.                                                                  *)

LEMMA PayloadIsNat ==
  ASSUME SessionAssumption, NEW group \in Seq(DOMAIN MeshBytes)
  PROVE  payload_bytes(group) \in Nat
  <1>1. IsFiniteSet(Meshes(group)) /\ Meshes(group) \subseteq DOMAIN MeshBytes
    <2>1. PICK len \in Nat : len = Len(group)
      OBVIOUS
    <2>2. IsFiniteSet(1..len)
      BY FS_Interval
    <2>3. group \in Surjection(1..len, Meshes(group))
      BY <2>1 DEF Surjection, Meshes
    <2>4. IsFiniteSet(Meshes(group))
      BY <2>2, <2>3, FS_Surjection
    <2>5. QED
      BY <2>4 DEF Meshes
  <1>2. PICK h : Sums(MeshBytes, SUBSET Meshes(group), h)
                 /\ Total(MeshBytes, Meshes(group)) = h[Meshes(group)]
    BY <1>1, TotalIsSum
  <1>3. \A x \in Meshes(group) : MeshBytes[x] \in Nat
    BY <1>1 DEF SessionAssumption
  <1>4. h[Meshes(group)] \in Nat
    BY <1>1, <1>2, <1>3, SumIsNat
  <1>5. PICK len \in Nat : len = Len(group)
    OBVIOUS
  <1>6. InstanceBytes * len \in Nat
    BY DEF SessionAssumption
  <1>7. payload_bytes(group) = InstanceBytes * len + h[Meshes(group)]
    BY <1>2, <1>5 DEF payload_bytes, Total
  <1>8. QED
    BY <1>4, <1>6, <1>7

LEMMA MaxIsNat ==
  ASSUME NEW n \in Nat \ {0}, NEW f, \A i \in 1..n : f[i] \in Nat
  PROVE  Max({f[i] : i \in 1..n}) \in Nat
  <1> DEFINE T == {m \in Nat : m \in 1..n => \E j \in 1..m : \A i \in 1..m : f[j] >= f[i]}
  <1>1. 0 \in T
    OBVIOUS
  <1>2. ASSUME NEW m \in Nat, m \in T PROVE m + 1 \in T
    <2>1. SUFFICES ASSUME m + 1 <= n PROVE \E j \in 1..(m + 1) : \A i \in 1..(m + 1) : f[j] >= f[i]
      OBVIOUS
    <2>2. CASE m = 0
      <3>1. \A i \in 1..(m + 1) : i = 1 /\ f[1] \in Nat
        BY <2>1, <2>2
      <3>2. 1 \in 1..(m + 1)
        BY <2>2
      <3>3. QED
        BY <3>1, <3>2
    <2>3. CASE m # 0
      <3>1. PICK j \in 1..m : \A i \in 1..m : f[j] >= f[i]
        BY <1>2, <2>1, <2>3
      <3>2. /\ f[j] \in Nat /\ f[m + 1] \in Nat
            /\ \A i \in 1..(m + 1) : f[i] \in Nat /\ (i \in 1..m \/ i = m + 1)
            /\ j \in 1..(m + 1) /\ m + 1 \in 1..(m + 1)
        BY <2>1
      <3>3. CASE f[j] >= f[m + 1]
        BY <3>1, <3>2, <3>3
      <3>4. CASE ~(f[j] >= f[m + 1])
        <4>1. \A i \in 1..(m + 1) : f[m + 1] >= f[i]
          BY <3>1, <3>2, <3>4
        <4>2. QED
          BY <3>2, <4>1
      <3>5. QED
        BY <3>3, <3>4
    <2>4. QED
      BY <2>2, <2>3
  <1>3. Nat \subseteq T
    <2> HIDE DEF T
    <2>1. QED
      BY <1>1, <1>2, CountingUp
  <1>4. PICK j \in 1..n : \A i \in 1..n : f[j] >= f[i]
    BY <1>3
  <1> DEFINE V == {f[i] : i \in 1..n}
  <1>5. f[j] \in V /\ \A y \in V : f[j] >= y
    BY <1>4
  <1>6. Max(V) \in V
    <2> HIDE DEF V
    <2>1. \E x \in V : \A y \in V : x >= y
      BY <1>5
    <2>2. QED
      BY <2>1 DEF Max
  <1>7. QED
    BY <1>6

\* The geometry of a session takes a number of bytes.
LEMMA ApproximateIsNat ==
  ASSUME SessionAssumption, plan.chunks \in Seq(Seq(DOMAIN MeshBytes)) \ {<<>>}
  PROVE  approximate_gpu_bytes \in Nat
  <1>1. PICK len \in Nat \ {0} : len = Len(plan.chunks)
    OBVIOUS
  <1>2. DOMAIN plan.chunks = 1..len
    BY <1>1
  <1> DEFINE f == [g \in 1..len |-> payload_bytes(plan.chunks[g])]
  <1>3. \A g \in 1..len : f[g] \in Nat
    <2>1. \A g \in 1..len : plan.chunks[g] \in Seq(DOMAIN MeshBytes)
      BY <1>2
    <2>2. QED
      BY <2>1, PayloadIsNat
  <1>4. approximate_gpu_bytes = Max({f[g] : g \in 1..len})
    <2>1. {f[g] : g \in 1..len} = {payload_bytes(plan.chunks[g]) : g \in DOMAIN plan.chunks}
      BY <1>2
    <2>2. QED
      BY <2>1 DEF approximate_gpu_bytes
  <1> HIDE DEF f
  <1>5. QED
    BY <1>3, <1>4, MaxIsNat

LEMMA DivisionFits ==
  ASSUME NEW x \in Nat, NEW r \in Nat \ {0}
  PROVE  x \div r \in Nat /\ r * (x \div r) <= x
  OBVIOUS

LEMMA ProductsGrow ==
  ASSUME NEW r \in Nat, NEW i \in Nat, NEW j \in Nat, i <= j
  PROVE  r * i \in Nat /\ r * j \in Nat /\ r * i <= r * j
  OBVIOUS

\* The next power of two is there, up to the limit of a slot.
LEMMA PowersReach ==
  ASSUME NEW n \in Nat, n <= MAXIMUM_REUSABLE_RAYS_PER_SLOT
  PROVE  NextPowerOfTwo(n) \in Nat /\ NextPowerOfTwo(n) >= 1 /\ NextPowerOfTwo(n) >= n
  <1> DEFINE S == {p \in PowersOfTwo : p >= n}
  <1>1. 262144 \in S /\ S \in SUBSET Nat /\ \A p \in S : p >= 1 /\ p >= n
    BY DEF PowersOfTwo, MAXIMUM_REUSABLE_RAYS_PER_SLOT
  <1>2. Min(S) \in S
    <2> HIDE DEF S
    <2>1. QED
      BY <1>1, LeastExists
  <1>3. QED
    BY <1>1, <1>2 DEF NextPowerOfTwo

-----------------------------------------------------------------------------
(* The invariant.  First the types.                                        *)

Critical == {"geometry", "pack", "submit", "readback"}
Tracing == {"pack", "submit", "readback"}
Backends == {"cpu", "gpu"}
Stages == {"new", "adapter", "plan", "build", "open", "cpu", "gpu", "refused"}
Hit == SUBSET (Nat \X (Threads \X Nat))
AnswerType == [backend : Backends \cup {None, "error"}, fallback : BOOLEAN, clean : BOOLEAN]
CallType ==
  [pc : {"idle", "counted", "locking"} \cup Critical, n : Nat, imprecise : Nat, made : Nat, geometry : Nat,
   next : Nat, hits : Seq(Hit), broken : BOOLEAN, answer : AnswerType]
SlotType == [rays : Seq(Threads \X Nat), geometry : Nat]
ScratchType == [capacity : Nat, holder : Threads \cup {None}, geometry : Nat, slots : [1..2 -> SlotType]]
DeviceType == [lost : BOOLEAN, losses : Nat, errors : Nat, faults : Nat]
RecordType == [backend : Backends \cup {None, "mixed"}, batches : Nat, fallbacks : Nat]

\* What the creation has settled.
CreationInv ==
  /\ sessionScene \in Scenes /\ options \in Policies /\ stage \in Stages
  /\ stage \in {"open", "gpu"} => plan.of = "scene" /\ plan.chunks \in Seq(Seq(DOMAIN MeshBytes)) \ {<<>>}
  /\ stage \notin {"new", "cpu", "refused"} => options.preference # "cpu"
  /\ stage = "cpu" => options.preference # "require"
  /\ stage = "gpu" => approximate_gpu_bytes <= options.gpuBytes /\ memory_ray_limit # 0

\* A device that failed once is marked lost.
DeviceInv == device \in DeviceType /\ (device.errors > 0 => device.lost)

\* The arena: nothing in it before there is a device, and never more than its limit.
ArenaInv ==
  /\ scratch \in ScratchType
  /\ stage # "gpu" => scratch.capacity = 0 /\ scratch.geometry = 1
  /\ stage = "gpu" => scratch.capacity <= maximum_rays_per_dispatch
  /\ stage = "gpu" /\ Len(plan.chunks) = 1 => scratch.geometry = 1

\* A call under way, and what was answered last: st is the stage of the session,
\* preference what it was asked to prefer, lost whether its device is.
Underway(k, st, preference, lost) ==
  /\ k.pc # "idle" => st \in Backends
  /\ k.pc \in {"locking"} \cup Critical => st = "gpu" /\ ~k.broken /\ k.n >= 1
  /\ k.broken => lost
  /\ k.answer.backend = "error" => preference = "require"
  /\ k.answer.backend = "cpu" => preference # "require"
  /\ k.pc = "idle" /\ k.answer.backend = "gpu" => ~k.broken
  /\ k.answer.clean

\* The rays of call k of caller c that belong into a slot of arena s.
Cut(c, k, s, slot) ==
  LET first == (k.next + slot - 2) * s.capacity + 1
  IN  SubSeq(Own(c, k.n), first, Least(first + s.capacity - 1, k.n))
\* The hits of a ray, merged from the first chunks of the geometry.
From(c, i, chunks) == {<<g, <<c, i>>>> : g \in 1..chunks}
\* A batch that holds the arena: which rays have been through which of the chunks
\* of the geometry, and that the slots hold the rays that are next.
Batch(c, k, s, chunks) ==
  k.pc \in Critical =>
    /\ s.capacity >= 1 /\ k.next >= 1 /\ k.geometry \in 1..chunks
    /\ DOMAIN k.hits = 1..k.n
    /\ k.pc = "geometry" => \A i \in 1..k.n : k.hits[i] = From(c, i, k.geometry - 1)
    /\ k.pc \in Tracing =>
         /\ s.geometry = k.geometry
         /\ \A i \in 1..k.n :
              k.hits[i] = From(c, i, IF i <= (k.next - 1) * s.capacity THEN k.geometry ELSE k.geometry - 1)
    /\ k.pc \in {"submit", "readback"} =>
         \A slot \in 1..2 : s.slots[slot].geometry = k.geometry /\ s.slots[slot].rays = Cut(c, k, s, slot)

\* Only the batch that holds the arena works in it.
CallsInv ==
  /\ call \in [Threads -> CallType]
  /\ \A c \in Threads :
       /\ Underway(call[c], stage, options.preference, device.lost)
       /\ Batch(c, call[c], scratch, Len(plan.chunks))
       /\ call[c].pc \in Critical <=> scratch.holder = c

\* The record of an analysis, and the backends that answered it.
Recorded(s, backends) ==
  /\ backends = {} <=> s.batches = 0
  /\ s.batches = 0 => s.fallbacks = 0
  /\ backends = {"cpu"} => s.backend = "cpu"
  /\ backends = {"gpu"} => s.backend = "gpu"
  /\ backends = Backends => s.backend = "mixed"
RecordsInv ==
  /\ counted \in [traces : Nat, fallbacks : Nat, batches : Nat, direct : Nat]
  /\ summary \in [Threads -> RecordType] /\ used \in [Threads -> SUBSET Backends]
  /\ \A c \in Threads : Recorded(summary[c], used[c])
  /\ counted.fallbacks = counted.direct + Fallbacks(summary)

SessionInv == CreationInv /\ DeviceInv /\ ArenaInv /\ CallsInv /\ RecordsInv

-----------------------------------------------------------------------------
(* The creation of a session.                                              *)

LEMMA InitHolds ==
  ASSUME SessionAssumption, SessionInit
  PROVE  SessionInv
  <1>1. CreationInv
    BY DEF SessionInit, CreationInv, Stages
  <1>2. DeviceInv
    BY DEF SessionInit, DeviceInv, DeviceType
  <1>3. ArenaInv
    <2>1. FreshSlots \in [1..2 -> SlotType]
      BY DEF FreshSlots, SlotType
    <2> HIDE DEF FreshSlots
    <2>2. scratch \in ScratchType /\ scratch.capacity = 0 /\ scratch.geometry = 1
      BY <2>1 DEF SessionInit, ScratchType
    <2>3. stage # "gpu"
      BY DEF SessionInit
    <2>4. QED
      BY <2>2, <2>3 DEF ArenaInv
  <1>4. CallsInv
    <2>1. call \in [Threads -> CallType]
      <3>1. \A Q : <<>> \in Seq(Q)
        OBVIOUS
      <3>2. <<>> \in Seq(Hit)
        BY Zenon, <3>1
      <3> HIDE DEF Hit
      <3>3. QED
        BY <3>2 DEF SessionInit, CallType, AnswerType
    <2>2. \A c \in Threads : /\ call[c].pc = "idle" /\ ~call[c].broken
                             /\ call[c].answer.backend = None /\ call[c].answer.clean
      BY DEF SessionInit
    <2>3. \A c \in Threads : Underway(call[c], stage, options.preference, device.lost)
      BY <2>2 DEF Underway, Critical, None
    <2>4. \A c \in Threads : Batch(c, call[c], scratch, Len(plan.chunks))
      BY <2>2 DEF Batch, Critical
    <2>5. \A c \in Threads : call[c].pc \in Critical <=> scratch.holder = c
      BY <2>2 DEF Critical, SessionInit, SessionAssumption
    <2>6. QED
      BY <2>1, <2>3, <2>4, <2>5 DEF CallsInv
  <1>5. RecordsInv
    <2>1. \A c \in Threads : summary[c].fallbacks = 0
      BY DEF SessionInit
    <2>2. Fallbacks(summary) = 0
      BY <2>1, NothingFellBack
    <2>3. \A c \in Threads : Recorded(summary[c], used[c])
      BY DEF SessionInit, Recorded, Backends
    <2>4. summary \in [Threads -> RecordType] /\ used \in [Threads -> SUBSET Backends]
      BY DEF SessionInit, RecordType
    <2>5. counted \in [traces : Nat, fallbacks : Nat, batches : Nat, direct : Nat]
          /\ counted.fallbacks = 0 /\ counted.direct = 0
      BY DEF SessionInit
    <2>6. QED
      BY <2>2, <2>3, <2>4, <2>5 DEF RecordsInv
  <1>6. QED
    BY <1>1, <1>2, <1>3, <1>4, <1>5 DEF SessionInv

\* What a device may take at once fits beside the largest chunk.
LEMMA DispatchFits ==
  ASSUME SessionAssumption, options \in Policies, plan.chunks \in Seq(Seq(DOMAIN MeshBytes)) \ {<<>>},
         approximate_gpu_bytes <= options.gpuBytes, memory_ray_limit # 0
  PROVE  /\ maximum_rays_per_dispatch \in Nat \ {0}
         /\ approximate_gpu_bytes + RayBytes * maximum_rays_per_dispatch <= options.gpuBytes
  <1>1. PICK room : room = options.gpuBytes - approximate_gpu_bytes
    OBVIOUS
  <1>2. options.gpuBytes \in Nat /\ options.rays \in Nat /\ RayBytes \in Nat \ {0}
    BY DEF SessionAssumption
  <1>3. approximate_gpu_bytes \in Nat
    BY ApproximateIsNat
  <1>4. room \in Nat /\ options.gpuBytes = room + approximate_gpu_bytes
    BY <1>1, <1>2, <1>3
  <1>5. PICK limit : limit = room \div RayBytes
    OBVIOUS
  <1>6. limit \in Nat /\ RayBytes * limit <= room
    BY <1>2, <1>4, <1>5, DivisionFits
  <1>7. memory_ray_limit = limit
    BY <1>1, <1>5 DEF memory_ray_limit
  <1>8. maximum_rays_per_dispatch \in Nat \ {0} /\ maximum_rays_per_dispatch <= limit
    BY <1>2, <1>6, <1>7 DEF maximum_rays_per_dispatch, Most, Least
  <1>9. PICK most : most = maximum_rays_per_dispatch
    OBVIOUS
  <1>10. RayBytes * most \in Nat /\ RayBytes * most <= RayBytes * limit /\ RayBytes * limit \in Nat
    BY <1>2, <1>6, <1>8, <1>9, ProductsGrow
  <1>11. approximate_gpu_bytes + RayBytes * most <= options.gpuBytes
    BY ONLY <1>3, <1>4, <1>6, <1>10
  <1>12. QED
    BY <1>8, <1>9, <1>11

CreationStep ==
  Create \/ NoAdapter \/ request_adapter \/ RestorePlan \/ MissPlan \/ load_or_build_scene_plan \/ open_device

LEMMA CreationMoves ==
  ASSUME CreationStep
  PROVE  stage \notin CreationOver /\ UNCHANGED <<sessionScene, options, device, counted, scratch, call, summary, used>>
  <1>1. \A next, using : Continue(next, using) =>
          UNCHANGED <<sessionScene, options, device, counted, scratch, call, summary, used>>
    BY DEF Continue
  <1>2. CASE Create
    BY <1>1, <1>2, Zenon DEF Create, CreationOver
  <1>3. CASE NoAdapter
    BY <1>1, <1>3, Zenon DEF NoAdapter, CreationOver
  <1>4. CASE request_adapter
    BY <1>1, <1>4, Zenon DEF request_adapter, CreationOver
  <1>5. CASE RestorePlan
    <2>1. stage = "plan"
      BY <1>5 DEF RestorePlan
    <2>2. UNCHANGED <<sessionScene, options, device, counted, scratch, call, summary, used>>
      BY <1>5 DEF RestorePlan, Continue
    <2>3. QED
      BY <2>1, <2>2 DEF CreationOver
  <1>6. CASE MissPlan
    BY <1>1, <1>6, Zenon DEF MissPlan, CreationOver
  <1>7. CASE load_or_build_scene_plan
    <2>1. stage = "build"
      BY <1>7 DEF load_or_build_scene_plan
    <2>2. UNCHANGED <<sessionScene, options, device, counted, scratch, call, summary, used>>
      BY <1>7 DEF load_or_build_scene_plan, Continue
    <2>3. QED
      BY <2>1, <2>2 DEF CreationOver
  <1>8. CASE open_device
    BY <1>1, <1>8, Zenon DEF open_device, CreationOver
  <1>9. QED
    BY <1>2, <1>3, <1>4, <1>5, <1>6, <1>7, <1>8 DEF CreationStep

\* A plan is of the scene, and has a chunk.
LEMMA PlansAreChunks ==
  ASSUME SessionAssumption, sessionScene \in Scenes
  PROVE  portable_snapshots(sessionScene, options.chunkBytes) \in Seq(Seq(DOMAIN MeshBytes)) \ {<<>>}
  <1>1. sessionScene \in Seq(DOMAIN MeshBytes) /\ sessionScene # <<>>
    BY DEF SessionAssumption
  <1>2. QED
    BY <1>1, SnapshotsAreChunks

LEMMA CreationSettles ==
  ASSUME SessionAssumption, CreationInv, CreationStep
  PROVE  /\ CreationInv'
         /\ stage' = "gpu" => UNCHANGED plan
  <1>1. UNCHANGED <<sessionScene, options>> /\ options.preference \in Preferences
    BY CreationMoves DEF CreationInv, SessionAssumption
  <1>2. \A next, using : Continue(next, using) => stage' = next
    BY DEF Continue
  <1>3. CASE Create
    <2>1. /\ UNCHANGED plan
          /\ \/ stage' = "refused"
             \/ stage' = "cpu" /\ options.preference = "cpu"
             \/ stage' = "adapter" /\ options.preference # "cpu"
      BY <1>2, <1>3, Zenon DEF Create
    <2>2. QED
      BY <1>1, <2>1 DEF CreationInv, Stages
  <1>4. CASE NoAdapter
    <2>1. stage \in {"adapter", "open"} /\ stage' = CreationFails /\ UNCHANGED plan
      BY <1>2, <1>4 DEF NoAdapter
    <2>2. QED
      BY <1>1, <2>1 DEF CreationInv, Stages, CreationFails
  <1>5. CASE request_adapter
    <2>1. stage = "adapter" /\ stage' = "plan" /\ UNCHANGED plan
      BY <1>2, <1>5 DEF request_adapter
    <2>2. QED
      BY <1>1, <2>1 DEF CreationInv, Stages
  <1>6. CASE RestorePlan
    <2>1. CASE decode_scene_plan(stores[store])
      <3>1. /\ stage = "plan" /\ stage' = "open"
            /\ plan' = [of |-> stores[store], chunks |-> portable_snapshots(sessionScene, options.chunkBytes)]
        BY <1>2, <1>6, <2>1 DEF RestorePlan
      <3>2. plan'.of = "scene" /\ plan'.chunks \in Seq(Seq(DOMAIN MeshBytes)) \ {<<>>}
        BY <2>1, <3>1, PlansAreChunks DEF decode_scene_plan, CreationInv
      <3>3. QED
        BY <1>1, <3>1, <3>2 DEF CreationInv, Stages
    <2>2. CASE ~decode_scene_plan(stores[store])
      <3>1. stage = "plan" /\ stage' = "build"
        BY <1>6, <2>2 DEF RestorePlan
      <3>2. QED
        BY <1>1, <3>1 DEF CreationInv, Stages
    <2>3. QED
      BY <2>1, <2>2
  <1>7. CASE MissPlan
    <2>1. stage = "plan" /\ stage' = "build" /\ UNCHANGED plan
      BY <1>2, <1>7 DEF MissPlan
    <2>2. QED
      BY <1>1, <2>1 DEF CreationInv, Stages
  <1>8. CASE load_or_build_scene_plan
    <2>1. CASE GeometryChunkTooLarge(sessionScene, options.chunkBytes)
      <3>1. stage = "build" /\ stage' = CreationFails /\ UNCHANGED plan
        BY <1>2, <1>8, <2>1 DEF load_or_build_scene_plan
      <3>2. QED
        BY <1>1, <3>1 DEF CreationInv, Stages, CreationFails
    <2>2. CASE ~GeometryChunkTooLarge(sessionScene, options.chunkBytes)
      <3>1. /\ stage = "build" /\ stage' = "open"
            /\ plan' = [of |-> "scene", chunks |-> portable_snapshots(sessionScene, options.chunkBytes)]
        BY <1>8, <2>2 DEF load_or_build_scene_plan
      <3>2. plan'.of = "scene" /\ plan'.chunks \in Seq(Seq(DOMAIN MeshBytes)) \ {<<>>}
        BY <3>1, PlansAreChunks DEF CreationInv
      <3>3. QED
        BY <1>1, <3>1, <3>2 DEF CreationInv, Stages
    <2>3. QED
      BY <2>1, <2>2
  <1>9. CASE open_device
    <2>1. /\ stage = "open" /\ UNCHANGED plan
          /\ stage' = IF approximate_gpu_bytes > options.gpuBytes \/ memory_ray_limit = 0 THEN CreationFails ELSE "gpu"
      BY <1>2, <1>9 DEF open_device
    <2>2. plan.of = "scene" /\ plan.chunks \in Seq(Seq(DOMAIN MeshBytes)) \ {<<>>} /\ options.preference # "cpu"
      BY <2>1 DEF CreationInv
    <2>3. CASE stage' = "gpu"
      <3>1. CreationFails # "gpu"
        BY DEF CreationFails
      <3>2. ~(approximate_gpu_bytes > options.gpuBytes) /\ memory_ray_limit # 0
        BY <2>1, <2>3, <3>1
      <3>3. approximate_gpu_bytes \in Nat /\ options.gpuBytes \in Nat
        BY <2>2, ApproximateIsNat DEF CreationInv, SessionAssumption
      <3>4. approximate_gpu_bytes <= options.gpuBytes
        BY <3>2, <3>3
      <3>5. UNCHANGED <<approximate_gpu_bytes, memory_ray_limit>>
        BY <1>1, <2>1 DEF approximate_gpu_bytes, memory_ray_limit
      <3>6. QED
        BY <1>1, <2>1, <2>2, <2>3, <3>2, <3>4, <3>5 DEF CreationInv, Stages
    <2>4. CASE stage' # "gpu"
      <3>1. stage' = CreationFails
        BY <2>1, <2>4
      <3>2. QED
        BY <1>1, <2>1, <2>2, <3>1 DEF CreationInv, Stages, CreationFails
    <2>5. QED
      BY <2>3, <2>4
  <1>10. QED
    BY <1>3, <1>4, <1>5, <1>6, <1>7, <1>8, <1>9 DEF CreationStep

LEMMA CreationKeeps ==
  ASSUME SessionAssumption, SessionInv, CreationStep
  PROVE  SessionInv'
  <1>1. /\ CreationInv' /\ (stage' = "gpu" => UNCHANGED plan)
        /\ stage \notin CreationOver /\ UNCHANGED <<sessionScene, options, device, counted, scratch, call, summary, used>>
    BY CreationSettles, CreationMoves DEF SessionInv
  <1>2. DeviceInv'
    BY <1>1 DEF SessionInv, DeviceInv
  <1>3. ArenaInv'
    <2>1. scratch \in ScratchType /\ scratch.capacity = 0 /\ scratch.geometry = 1
      BY <1>1 DEF SessionInv, ArenaInv, CreationOver
    <2>2. ASSUME stage' = "gpu" PROVE 0 <= maximum_rays_per_dispatch'
      <3>1. /\ options \in Policies /\ plan.chunks \in Seq(Seq(DOMAIN MeshBytes)) \ {<<>>}
            /\ approximate_gpu_bytes <= options.gpuBytes /\ memory_ray_limit # 0
        BY <1>1, <2>2 DEF CreationInv, approximate_gpu_bytes, memory_ray_limit
      <3>2. maximum_rays_per_dispatch \in Nat \ {0}
        BY <3>1, DispatchFits
      <3>3. UNCHANGED maximum_rays_per_dispatch
        BY <1>1, <2>2 DEF maximum_rays_per_dispatch, memory_ray_limit, approximate_gpu_bytes
      <3>4. QED
        BY <3>2, <3>3
    <2>3. QED
      BY <1>1, <2>1, <2>2 DEF ArenaInv
  <1>4. CallsInv'
    <2>1. \A c \in Threads : call[c].pc = "idle"
      BY <1>1 DEF SessionInv, CallsInv, Underway, CreationOver, Backends
    <2>2. \A c \in Threads : Underway(call[c], stage, options.preference, device.lost)'
      BY <1>1, <2>1 DEF SessionInv, CallsInv, Underway, Critical
    <2>3. \A c \in Threads : Batch(c, call[c], scratch, Len(plan.chunks))'
      BY <1>1, <2>1 DEF Batch, Critical
    <2>4. QED
      BY <1>1, <2>2, <2>3 DEF SessionInv, CallsInv
  <1>5. RecordsInv'
    BY <1>1 DEF SessionInv, RecordsInv
  <1>6. QED
    BY <1>1, <1>2, <1>3, <1>4, <1>5 DEF SessionInv

-----------------------------------------------------------------------------
(* A step of a call: what becomes of it, and what it does to the arena.    *)

Becomes(c, new) == call' = [call EXCEPT ![c] = new]
\* What CallsInv asks of the call that moved.
Sound(c, new) ==
  /\ new \in CallType
  /\ Underway(new, stage, options.preference, device'.lost)
  /\ Batch(c, new, scratch', Len(plan.chunks))
  /\ new.pc \in Critical <=> scratch'.holder = c
\* The arena is changed only by the call that has it, takes it or lets it go.
ArenaOf(c) == scratch' = scratch \/ (scratch.holder \in {None, c} /\ scratch'.holder \in {None, c})

LEMMA CallMoves ==
  ASSUME SessionAssumption, CallsInv, NEW c \in Threads, NEW new, Becomes(c, new), Sound(c, new), ArenaOf(c),
         UNCHANGED <<stage, options, plan>>, device.lost => device'.lost
  PROVE  CallsInv'
  <1>1. call' \in [Threads -> CallType] /\ call'[c] = new /\ \A d \in Threads \ {c} : call'[d] = call[d]
    BY DEF CallsInv, Becomes, Sound
  <1>2. /\ Underway(call'[c], stage', options'.preference, device'.lost)
        /\ Batch(c, call'[c], scratch', Len(plan'.chunks))
        /\ call'[c].pc \in Critical <=> scratch'.holder = c
    BY <1>1 DEF Sound
  <1>3. ASSUME NEW d \in Threads \ {c}
        PROVE  /\ Underway(call'[d], stage', options'.preference, device'.lost)
               /\ Batch(d, call'[d], scratch', Len(plan'.chunks))
               /\ call'[d].pc \in Critical <=> scratch'.holder = d
    <2>1. call'[d] = call[d]
      BY <1>1
    <2>2. /\ Underway(call[d], stage, options.preference, device.lost)
          /\ Batch(d, call[d], scratch, Len(plan.chunks))
          /\ call[d].pc \in Critical <=> scratch.holder = d
      BY DEF CallsInv
    <2>3. Underway(call'[d], stage', options'.preference, device'.lost)
      BY <2>1, <2>2 DEF Underway
    <2>4. CASE scratch' = scratch
      BY <2>1, <2>2, <2>3, <2>4
    <2>5. CASE scratch' # scratch
      <3>1. scratch.holder # d /\ scratch'.holder # d
        BY <2>5 DEF ArenaOf, SessionAssumption
      <3>2. call'[d].pc \notin Critical
        BY <2>1, <2>2, <3>1
      <3>3. Batch(d, call'[d], scratch', Len(plan'.chunks))
        BY <3>2 DEF Batch
      <3>4. QED
        BY <2>3, <3>1, <3>2, <3>3
    <2>6. QED
      BY <2>4, <2>5
  <1>4. QED
    BY <1>1, <1>2, <1>3 DEF CallsInv

\* What is known of a call before it moves.
LEMMA CallBefore ==
  ASSUME CallsInv, NEW c \in Threads
  PROVE  /\ call[c] \in CallType
         /\ Underway(call[c], stage, options.preference, device.lost)
         /\ Batch(c, call[c], scratch, Len(plan.chunks))
         /\ call[c].pc \in Critical <=> scratch.holder = c
  BY DEF CallsInv

\* Who does not hold the arena and leaves it alone, and is not about to use it.
LEMMA OutsideIsSound ==
  ASSUME NEW c, NEW new \in CallType, new.pc \notin Critical, scratch'.holder # c,
         Underway(new, stage, options.preference, device'.lost)
  PROVE  Sound(c, new)
  BY DEF Sound, Batch

-----------------------------------------------------------------------------
(* Calls that are answered.                                                *)

\* An answer that a session of this preference may give.
Permitted(c, answer) ==
  /\ answer \in AnswerType /\ answer.clean
  /\ answer.backend = "cpu" => options.preference # "require"
  /\ answer.backend = "gpu" => ~call[c].broken
  /\ answer.backend = "error" => options.preference = "require"

LEMMA AnswersKeepCalls ==
  ASSUME SessionAssumption, CallsInv, NEW c \in Threads, NEW answer, Permitted(c, answer),
         call' = [call EXCEPT ![c].pc = "idle", ![c].answer = answer],
         scratch'.holder # c, ArenaOf(c), UNCHANGED <<stage, options, plan>>, device.lost => device'.lost
  PROVE  CallsInv'
  <1>1. PICK new : new = [call[c] EXCEPT !.pc = "idle", !.answer = answer]
    OBVIOUS
  <1>2. call[c] \in CallType /\ Underway(call[c], stage, options.preference, device.lost)
    BY CallBefore
  <1>3. Becomes(c, new)
    BY <1>1 DEF CallsInv, Becomes
  <1>4. answer \in AnswerType
    BY DEF Permitted
  <1>5. new \in CallType /\ new.pc = "idle" /\ new.broken = call[c].broken /\ new.answer = answer
    <2> HIDE DEF AnswerType
    <2>1. QED
      BY <1>1, <1>2, <1>4 DEF CallType
  <1>6. Underway(new, stage, options.preference, device'.lost)
    BY <1>2, <1>5 DEF Permitted, Underway, Critical
  <1>7. Sound(c, new)
    <2>1. new.pc \notin Critical
      BY <1>5 DEF Critical
    <2>2. QED
      BY <1>5, <1>6, <2>1, OutsideIsSound
  <1>8. QED
    BY <1>3, <1>7, CallMoves

\* The record of an analysis with one batch more.
LEMMA MergedRecord ==
  ASSUME RecordsInv, NEW c \in Threads, NEW answer \in AnswerType, answer.backend \in Backends
  PROVE  LET r == merge(Analysis(c), record(from_context, answer))
         IN  /\ r \in RecordType
             /\ r.fallbacks = summary[c].fallbacks + IF answer.fallback THEN 1 ELSE 0
             /\ Recorded(r, used[c] \cup {answer.backend})
  <1> DEFINE one == record(from_context, answer)
             r == merge(Analysis(c), one)
  <1>1. one.backend = answer.backend
    <2>1. from_context.batches = 0
      BY DEF from_context
    <2>2. \A s : s.batches = 0 => record(s, answer).backend = answer.backend
      <3>1. SUFFICES ASSUME NEW s, s.batches = 0 PROVE record(s, answer).backend = answer.backend
        OBVIOUS
      <3>2. ~(s.batches > 0)
        BY <3>1
      <3>3. QED
        BY <3>1, <3>2, Zenon DEF record
    <2>3. QED
      BY <2>1, <2>2
  <1>2. one.batches = 1 /\ one.fallbacks = IF answer.fallback THEN 1 ELSE 0
    BY DEF record, from_context, AnswerType
  <1>3. /\ summary[c] \in RecordType /\ used[c] \in SUBSET Backends /\ Recorded(summary[c], used[c])
    BY DEF RecordsInv
  <1>4. PICK s : s = Analysis(c)
    OBVIOUS
  <1>5. /\ s.batches = summary[c].batches /\ s.fallbacks = summary[c].fallbacks
        /\ s.batches # 0 => s.backend = summary[c].backend
    BY <1>3, <1>4 DEF Analysis, from_context, Recorded
  <1>6. s.batches \in Nat /\ s.fallbacks \in Nat /\ summary[c].backend \in Backends \cup {None, "mixed"}
    BY <1>3, <1>5 DEF RecordType
  <1> HIDE DEF one
  <1>7. SummaryBackend(s, one) =
          IF s.batches = 0 THEN answer.backend
          ELSE IF s.backend # answer.backend THEN "mixed" ELSE s.backend
    <2>1. one.batches > 0
      BY <1>2
    <2>2. CASE s.batches = 0
      <3>1. ~(s.batches > 0)
        BY <2>2
      <3>2. QED
        BY <1>1, <2>2, <3>1, Zenon DEF SummaryBackend
    <2>3. CASE s.batches # 0
      <3>1. s.batches > 0
        BY <1>6, <2>3
      <3>2. QED
        BY <1>1, <2>1, <2>3, <3>1, Zenon DEF SummaryBackend
    <2>4. QED
      BY <2>2, <2>3
  <1>8. PICK b : b = SummaryBackend(s, one)
    OBVIOUS
  <1>9. r = [backend |-> b, batches |-> s.batches + one.batches, fallbacks |-> s.fallbacks + one.fallbacks]
    BY <1>4, <1>8 DEF merge
  <1>10. b \in Backends \cup {None, "mixed"}
    BY <1>5, <1>6, <1>7, <1>8
  <1>11. /\ r.backend = b /\ r.batches = s.batches + 1 /\ r.batches \in Nat
         /\ r.fallbacks = s.fallbacks + (IF answer.fallback THEN 1 ELSE 0) /\ r.fallbacks \in Nat
    BY <1>2, <1>6, <1>9
  <1>12. r \in RecordType
    BY <1>9, <1>10, <1>11 DEF RecordType
  <1>13. Recorded(r, used[c] \cup {answer.backend})
    <2>1. r.batches # 0 /\ used[c] \cup {answer.backend} # {}
      BY <1>6, <1>11
    <2>2. CASE s.batches = 0
      <3>1. used[c] = {} /\ r.backend = answer.backend
        BY <1>3, <1>5, <1>7, <1>8, <1>11, <2>2 DEF Recorded
      <3>2. QED
        BY <2>1, <3>1 DEF Recorded, Backends
    <2>3. CASE s.batches # 0
      <3>1. /\ r.backend = IF s.backend # answer.backend THEN "mixed" ELSE s.backend
            /\ s.backend = summary[c].backend /\ used[c] # {}
        BY <1>3, <1>5, <1>7, <1>8, <1>11, <2>3 DEF Recorded
      <3>2. used[c] = {"cpu"} \/ used[c] = {"gpu"} \/ used[c] = Backends
        BY <1>3, <3>1 DEF Backends
      <3>3. /\ used[c] = {"cpu"} => s.backend = "cpu"
            /\ used[c] = {"gpu"} => s.backend = "gpu"
            /\ used[c] = Backends => s.backend = "mixed"
        BY <1>3, <3>1 DEF Recorded
      <3>4. answer.backend = "cpu" \/ answer.backend = "gpu"
        BY DEF Backends
      <3>5. QED
        BY <2>1, <3>1, <3>2, <3>3, <3>4 DEF Recorded, Backends
    <2>4. QED
      BY <2>2, <2>3
  <1>14. QED
    BY <1>5, <1>11, <1>12, <1>13 DEF one

\* A batch is recorded in a summary as its own record would be merged into it.
LEMMA RecordIsMerge ==
  ASSUME NEW s, s.batches \in Nat, NEW answer \in AnswerType
  PROVE  record(s, answer) = merge(s, record(from_context, answer))
  <1>1. PICK one : one = record(from_context, answer)
    OBVIOUS
  <1>2. from_context.batches = 0 /\ from_context.fallbacks = 0
    BY DEF from_context
  <1>3. PICK b : b = CASE from_context.batches > 0 /\ from_context.backend # answer.backend -> "mixed"
                       [] from_context.batches = 0 -> answer.backend
                       [] OTHER -> from_context.backend
    OBVIOUS
  <1>4. b = answer.backend
    <2>1. ~(from_context.batches > 0)
      BY <1>2
    <2>2. QED
      BY <1>2, <1>3, <2>1, Zenon
  <1>5. PICK more \in {0, 1} : more = IF answer.fallback THEN 1 ELSE 0
    BY DEF AnswerType
  <1>6. one = [backend |-> b, batches |-> 0 + 1, fallbacks |-> 0 + more]
    BY <1>1, <1>2, <1>3, <1>5 DEF record
  <1>7. one.backend = answer.backend /\ one.batches = 1 /\ one.fallbacks = more
    BY <1>4, <1>5, <1>6
  <1>8. SummaryBackend(s, one) =
          CASE s.batches > 0 /\ s.backend # answer.backend -> "mixed"
            [] s.batches = 0 -> answer.backend
            [] OTHER -> s.backend
    <2>1. one.batches > 0
      BY <1>7
    <2>2. QED
      BY <1>7, <2>1 DEF SummaryBackend
  <1>9. QED
    BY <1>1, <1>5, <1>7, <1>8 DEF record, merge

\* Outside an analysis nothing is recorded, and a fallback is counted as such.
LEMMA DirectKeepsRecords ==
  ASSUME SessionAssumption, RecordsInv, UNCHANGED <<summary, used>>,
         counted' \in [traces : Nat, fallbacks : Nat, batches : Nat, direct : Nat],
         NEW n \in Nat, counted'.fallbacks = counted.fallbacks + n, counted'.direct = counted.direct + n
  PROVE  RecordsInv'
  <1>1. \A c \in Threads : summary[c].fallbacks \in Nat
    BY DEF RecordsInv, RecordType
  <1>2. PICK f \in Nat : f = Fallbacks(summary)
    BY <1>1, FallbacksAreNat
  <1>3. f = Fallbacks(summary')
    BY <1>2
  <1>4. counted.fallbacks = counted.direct + f /\ counted.direct \in Nat
    BY <1>2 DEF RecordsInv
  <1>5. counted'.fallbacks = counted'.direct + f
    BY <1>4
  <1>6. QED
    BY <1>3, <1>5 DEF RecordsInv

LEMMA AnswersKeepRecords ==
  ASSUME SessionAssumption, RecordsInv, NEW c \in Threads, NEW answer \in AnswerType, answer.backend \in Backends,
         Return(c, answer), counted'.direct = counted.direct,
         counted' \in [traces : Nat, fallbacks : Nat, batches : Nat, direct : Nat],
         counted'.fallbacks = counted.fallbacks + IF answer.fallback THEN 1 ELSE 0
  PROVE  RecordsInv'
  <1>1. PICK r : r = merge(Analysis(c), record(from_context, answer))
    OBVIOUS
  <1>2. /\ r \in RecordType
        /\ r.fallbacks = summary[c].fallbacks + IF answer.fallback THEN 1 ELSE 0
        /\ Recorded(r, used[c] \cup {answer.backend})
    BY <1>1, MergedRecord
  <1>3. /\ summary \in [Threads -> RecordType] /\ used \in [Threads -> SUBSET Backends]
        /\ \A d \in Threads : Recorded(summary[d], used[d])
        /\ counted.fallbacks = counted.direct + Fallbacks(summary) /\ counted.direct \in Nat
    BY DEF RecordsInv
  <1>4. summary' = [summary EXCEPT ![c] = r] /\ used' = [used EXCEPT ![c] = used[c] \cup {answer.backend}]
    <2>1. Analysis(c).batches \in Nat
      BY <1>3 DEF Analysis, from_context, RecordType
    <2>2. record(Analysis(c), answer) = r
      BY <1>1, <2>1, RecordIsMerge
    <2>3. QED
      BY <1>1, <2>2 DEF Return
  <1>5. summary' \in [Threads -> RecordType] /\ used' \in [Threads -> SUBSET Backends]
    BY <1>2, <1>3, <1>4
  <1>6. /\ summary'[c] = r /\ used'[c] = used[c] \cup {answer.backend}
        /\ \A d \in Threads \ {c} : summary'[d] = summary[d] /\ used'[d] = used[d]
    BY <1>3, <1>4
  <1>7. \A d \in Threads : Recorded(summary'[d], used'[d])
    BY <1>2, <1>3, <1>6
  <1>8. counted'.fallbacks = counted'.direct + Fallbacks(summary')
    <2>1. PICK n \in Nat : n = IF answer.fallback THEN 1 ELSE 0
      OBVIOUS
    <2>2. \A d \in Threads : summary[d].fallbacks \in Nat
      BY <1>3 DEF RecordType
    <2>3. PICK q : q = summary'
      OBVIOUS
    <2>4. q[c].fallbacks = summary[c].fallbacks + n /\ \A d \in Threads \ {c} : q[d].fallbacks = summary[d].fallbacks
      BY <1>2, <1>6, <2>1, <2>3
    <2>5. Fallbacks(q) = Fallbacks(summary) + n
      BY <2>2, <2>4, FallbacksGrow
    <2>6. PICK f \in Nat : f = Fallbacks(summary)
      BY <2>2, FallbacksAreNat
    <2>7. counted'.fallbacks = counted'.direct + (f + n)
      BY <1>3, <2>1, <2>6
    <2>8. QED
      BY <2>3, <2>5, <2>6, <2>7
  <1>9. QED
    BY <1>5, <1>7, <1>8 DEF RecordsInv

\* An answer that is no fallback is recorded or not.
LEMMA RespondKeepsRecords ==
  ASSUME SessionAssumption, RecordsInv, NEW c \in Threads, NEW answer \in AnswerType, answer.backend \in Backends,
         Respond(c, answer), ~answer.fallback,
         counted' \in [traces : Nat, fallbacks : Nat, batches : Nat, direct : Nat],
         counted'.fallbacks = counted.fallbacks, counted'.direct = counted.direct
  PROVE  RecordsInv'
  <1>1. counted.fallbacks \in Nat /\ counted.direct \in Nat
    BY DEF RecordsInv
  <1>2. CASE Return(c, answer)
    <2>1. counted'.fallbacks = counted.fallbacks + IF answer.fallback THEN 1 ELSE 0
      BY <1>1
    <2>2. QED
      BY <1>2, <2>1, AnswersKeepRecords
  <1>3. CASE Direct(c, answer)
    <2>1. UNCHANGED <<summary, used>>
      BY <1>3 DEF Direct
    <2>2. counted'.fallbacks = counted.fallbacks + 0 /\ counted'.direct = counted.direct + 0
      BY <1>1
    <2>3. QED
      BY <2>1, <2>2, DirectKeepsRecords
  <1>4. QED
    BY <1>2, <1>3 DEF Respond

\* An error of a batch is answered from the CPU, or it is the answer.
LEMMA FailuresKeep ==
  ASSUME SessionAssumption, CreationInv, CallsInv, RecordsInv, NEW c \in Threads, TraceFails(c), stage = "gpu",
         scratch'.holder # c, ArenaOf(c), UNCHANGED <<stage, options, plan>>, device.lost => device'.lost
  PROVE  CallsInv' /\ RecordsInv'
  <1>1. options.preference \in Preferences \ {"cpu"}
    BY DEF CreationInv, SessionAssumption
  <1>2. CASE FallsBack
    <2>1. PICK answer : answer = [backend |-> "cpu", fallback |-> TRUE, clean |-> TRUE]
      OBVIOUS
    <2>2. /\ answer \in AnswerType /\ answer.backend = "cpu" /\ answer.fallback /\ answer.clean
      BY <2>1 DEF AnswerType, Backends
    <2>3. Permitted(c, answer)
      BY <1>2, <2>2 DEF Permitted, FallsBack
    <2>4. \/ /\ Return(c, answer)
             /\ counted' = [counted EXCEPT !.fallbacks = counted.fallbacks + 1]
          \/ /\ Direct(c, answer)
             /\ counted' = [counted EXCEPT !.fallbacks = counted.fallbacks + 1, !.direct = counted.direct + 1]
      BY <1>2, <2>1 DEF TraceFails, cpu_batch
    <2>5. CallsInv'
      <3>1. call' = [call EXCEPT ![c].pc = "idle", ![c].answer = answer]
        BY <2>4 DEF Return, Direct
      <3>2. QED
        BY <2>3, <3>1, AnswersKeepCalls
    <2>6. answer.backend \in Backends
      BY <2>2 DEF Backends
    <2>7. CASE /\ Return(c, answer)
               /\ counted' = [counted EXCEPT !.fallbacks = counted.fallbacks + 1]
      <3>1. /\ counted' \in [traces : Nat, fallbacks : Nat, batches : Nat, direct : Nat]
            /\ counted'.fallbacks = counted.fallbacks + IF answer.fallback THEN 1 ELSE 0
            /\ counted'.direct = counted.direct
        BY <2>2, <2>7 DEF RecordsInv
      <3>2. RecordsInv'
        BY <2>2, <2>6, <2>7, <3>1, AnswersKeepRecords
      <3>3. QED
        BY <2>5, <3>2
    <2>8. CASE /\ Direct(c, answer)
               /\ counted' = [counted EXCEPT !.fallbacks = counted.fallbacks + 1, !.direct = counted.direct + 1]
      <3>1. /\ counted' \in [traces : Nat, fallbacks : Nat, batches : Nat, direct : Nat]
            /\ counted'.fallbacks = counted.fallbacks + 1 /\ counted'.direct = counted.direct + 1
        <4>1. counted \in [traces : Nat, fallbacks : Nat, batches : Nat, direct : Nat]
          BY DEF RecordsInv
        <4>2. counted' = [traces |-> counted.traces, fallbacks |-> counted.fallbacks + 1,
                          batches |-> counted.batches, direct |-> counted.direct + 1]
          BY ONLY <2>8, <4>1
        <4>3. QED
          BY ONLY <4>1, <4>2
      <3>2. UNCHANGED <<summary, used>>
        BY <2>8 DEF Direct
      <3>3. RecordsInv'
        BY <3>1, <3>2, DirectKeepsRecords
      <3>4. QED
        BY <2>5, <3>3
    <2>9. QED
      BY <2>4, <2>7, <2>8
  <1>3. CASE ~FallsBack
    <2>1. PICK answer : answer = [backend |-> "error", fallback |-> FALSE, clean |-> TRUE]
      OBVIOUS
    <2>2. answer \in AnswerType /\ answer.backend = "error" /\ answer.clean
      BY <2>1 DEF AnswerType, Backends
    <2>3. Permitted(c, answer)
      BY <1>1, <1>3, <2>2 DEF Permitted, FallsBack, Preferences
    <2>4. call' = [call EXCEPT ![c].pc = "idle", ![c].answer = answer] /\ UNCHANGED <<counted, summary, used>>
      BY <1>3, <2>1 DEF TraceFails
    <2>5. CallsInv'
      BY <2>3, <2>4, AnswersKeepCalls
    <2>6. RecordsInv'
      BY <2>4 DEF RecordsInv
    <2>7. QED
      BY <2>5, <2>6
  <1>4. QED
    BY <1>2, <1>3

-----------------------------------------------------------------------------
(* The rays of a slot, and the hits they are merged into.                  *)

\* What a slot takes of the n rays of a caller after the first o of them.
Slice(c, n, capacity, o) == SubSeq(Own(c, n), o + 1, Least(o + 1 + capacity - 1, n))
IsSlice(c, n, capacity, o, rays) ==
  /\ DOMAIN rays = {j \in Nat : j >= 1 /\ j <= capacity /\ o + j <= n}
  /\ \A j \in DOMAIN rays : rays[j] = <<c, o + j>>
  /\ rays = <<>> <=> o >= n
  /\ c \in Threads => rays \in Seq(Threads \X Nat)

LEMMA SlicesAreSlices ==
  ASSUME NEW c, NEW n \in Nat, NEW capacity \in Nat \ {0}, NEW o \in Nat, NEW rays, rays = Slice(c, n, capacity, o)
  PROVE  IsSlice(c, n, capacity, o, rays)
  <1>1. PICK last : last = Least(o + 1 + capacity - 1, n)
    OBVIOUS
  <1>2. last \in Nat /\ last <= o + capacity /\ last <= n /\ (last = o + capacity \/ last = n)
    BY <1>1 DEF Least
  <1>3. PICK len : len = IF o + 1 <= last THEN last - o ELSE 0
    OBVIOUS
  <1>4. len \in Nat /\ len = IF o + 1 <= last THEN last - (o + 1) + 1 ELSE 0
    BY <1>2, <1>3
  <1>5. last - (o + 1) + 1 \in Int /\ 1..(last - (o + 1) + 1) = 1..len
    BY <1>2, <1>3
  <1> DEFINE R == {<<c, i>> : i \in 1..n}
  <1>6. \A i \in (o + 1)..last : i \in 1..n /\ Own(c, n)[i] = <<c, i>>
    BY <1>2 DEF Own
  <1>7. \A i \in (o + 1)..last : Own(c, n)[i] \in R
    BY <1>6
  <1> HIDE DEF R
  <1>8. /\ rays \in Seq(R) /\ Len(rays) = len
        /\ \A j \in 1..len : rays[j] = Own(c, n)[(o + 1) + j - 1]
    <2>1. o + 1 \in Int /\ last \in Int
      BY <1>2
    <2>2. PICK a : a = SubSeq(Own(c, n), o + 1, last)
      OBVIOUS
    <2>3. /\ a \in Seq(R) /\ Len(a) = IF o + 1 <= last THEN last - (o + 1) + 1 ELSE 0
          /\ \A j \in 1..(last - (o + 1) + 1) : a[j] = Own(c, n)[(o + 1) + j - 1]
      BY <1>7, <2>1, <2>2, SubSeqProperties
    <2>4. a = rays
      BY <1>1, <2>2 DEF Slice
    <2>5. QED
      BY <1>4, <1>5, <2>3, <2>4
  <1>9. DOMAIN rays = 1..len
    BY <1>8
  <1>10. \A j \in 1..len : (o + 1) + j - 1 = o + j /\ o + j \in (o + 1)..last
    BY <1>2, <1>3
  <1>11. \A j \in 1..len : rays[j] = <<c, o + j>>
    BY <1>6, <1>8, <1>10
  <1>12. \A j \in Nat : j \in 1..len <=> j >= 1 /\ j <= capacity /\ o + j <= n
    BY <1>2, <1>3
  <1>13. rays = <<>> <=> o >= n
    <2>1. rays = <<>> <=> len = 0
      BY <1>8, EmptySeq
    <2>2. QED
      BY <1>2, <1>3, <2>1
  <1>14. ASSUME c \in Threads PROVE rays \in Seq(Threads \X Nat)
    <2>1. PICK T : T = Threads \X Nat
      OBVIOUS
    <2>2. \A i \in (o + 1)..last : i \in Nat /\ <<c, i>> \in Threads \X Nat
      BY <1>2, <1>14
    <2>3. \A i \in (o + 1)..last : Own(c, n)[i] \in T
      BY <1>6, <2>1, <2>2
    <2>4. o + 1 \in Int /\ last \in Int
      BY <1>2
    <2>5. SubSeq(Own(c, n), o + 1, last) \in Seq(T)
      BY <2>3, <2>4, SubSeqProperties
    <2>6. QED
      BY <1>1, <2>1, <2>5 DEF Slice
  <1>15. DOMAIN rays = {j \in Nat : j >= 1 /\ j <= capacity /\ o + j <= n}
    <2>1. 1..len \subseteq Nat
      OBVIOUS
    <2>2. QED
      BY <1>9, <1>12, <2>1
  <1>16. QED
    BY <1>9, <1>11, <1>13, <1>14, <1>15 DEF IsSlice

LEMMA Offsets ==
  ASSUME NEW m \in Nat, m >= 1, NEW capacity \in Nat
  PROVE  /\ (m - 1) * capacity \in Nat
         /\ (m + 1 - 2) * capacity = (m - 1) * capacity
         /\ (m + 2 - 2) * capacity = (m - 1) * capacity + capacity
         /\ ((m + 2) - 1) * capacity = (m - 1) * capacity + capacity + capacity
  OBVIOUS

\* The slots of a batch begin where the one before ends.
LEMMA CutsFollow ==
  ASSUME NEW c, NEW k \in CallType, NEW s \in ScratchType, s.capacity >= 1, k.next >= 1, NEW slot \in 1..2,
         NEW o, o = (k.next + slot - 2) * s.capacity
  PROVE  o \in Nat /\ IsSlice(c, k.n, s.capacity, o, Cut(c, k, s, slot))
  <1>1. k.n \in Nat /\ k.next \in Nat /\ s.capacity \in Nat \ {0}
    BY DEF CallType, ScratchType
  <1>2. o \in Nat
    <2>1. PICK m : m = k.next
      OBVIOUS
    <2>2. PICK capacity : capacity = s.capacity
      OBVIOUS
    <2>3. (m - 1) * capacity \in Nat /\ (m + 1 - 2) * capacity = (m - 1) * capacity
          /\ (m + 2 - 2) * capacity = (m - 1) * capacity + capacity
      BY <1>1, <2>1, <2>2, Offsets
    <2>4. slot = 1 \/ slot = 2
      OBVIOUS
    <2>5. capacity \in Nat
      BY <1>1, <2>2
    <2>6. QED
      BY <2>1, <2>2, <2>3, <2>4, <2>5
  <1>3. PICK rays : rays = Slice(c, k.n, s.capacity, o)
    OBVIOUS
  <1>4. Cut(c, k, s, slot) = rays
    BY <1>3 DEF Cut, Slice
  <1>5. IsSlice(c, k.n, s.capacity, o, rays)
    BY ONLY <1>1, <1>2, <1>3, SlicesAreSlices
  <1>6. QED
    BY <1>2, <1>4, <1>5

LEMMA OneChunkMore ==
  ASSUME NEW c, NEW i, NEW g \in Nat, g >= 1
  PROVE  From(c, i, g) = From(c, i, g - 1) \cup {<<g, <<c, i>>>>}
  <1>1. 1..g = (1..(g - 1)) \cup {g}
    OBVIOUS
  <1>2. QED
    BY <1>1 DEF From

\* The hits of a ray after the slots were read back.
Merged(c, k, s, i) ==
  k.hits[i] \cup {<<s.slots[t].geometry, s.slots[t].rays[i - (k.next + t - 2) * s.capacity]>> :
                    t \in {u \in 1..2 : i - (k.next + u - 2) * s.capacity \in DOMAIN s.slots[u].rays}}

LEMMA MergedOnce ==
  ASSUME NEW c, NEW k \in CallType, NEW s \in ScratchType, NEW chunks \in Nat, Batch(c, k, s, chunks),
         k.pc = "readback", NEW i \in 1..k.n
  PROVE  Merged(c, k, s, i) =
           From(c, i, IF i <= ((k.next + 2) - 1) * s.capacity THEN k.geometry ELSE k.geometry - 1)
  <1>1. /\ s.capacity >= 1 /\ k.next >= 1 /\ k.geometry \in 1..chunks
        /\ k.hits[i] = From(c, i, IF i <= (k.next - 1) * s.capacity THEN k.geometry ELSE k.geometry - 1)
        /\ \A slot \in 1..2 : s.slots[slot].geometry = k.geometry /\ s.slots[slot].rays = Cut(c, k, s, slot)
    BY DEF Batch, Critical, Tracing
  <1>2. k.n \in Nat /\ k.next \in Nat /\ s.capacity \in Nat /\ k.geometry \in Nat /\ i \in Nat
    BY DEF CallType, ScratchType
  <1>3. PICK g : g = k.geometry
    OBVIOUS
  <1>4. PICK capacity : capacity = s.capacity
    OBVIOUS
  <1>5. PICK o : o = (k.next - 1) * capacity
    OBVIOUS
  <1>6. /\ o \in Nat /\ (k.next + 1 - 2) * s.capacity = o /\ (k.next + 2 - 2) * s.capacity = o + capacity
        /\ ((k.next + 2) - 1) * s.capacity = o + capacity + capacity
    BY <1>1, <1>2, <1>4, <1>5, Offsets
  <1>7. \A t \in 1..2 : \A j \in Int :
          LET p == (k.next + t - 2) * s.capacity
          IN  /\ j \in DOMAIN s.slots[t].rays <=> j >= 1 /\ j <= capacity /\ p + j <= k.n
              /\ j \in DOMAIN s.slots[t].rays => s.slots[t].rays[j] = <<c, p + j>>
    <2>1. SUFFICES ASSUME NEW t \in 1..2, NEW j \in Int, NEW p, p = (k.next + t - 2) * s.capacity
                   PROVE  /\ j \in DOMAIN s.slots[t].rays <=> j >= 1 /\ j <= capacity /\ p + j <= k.n
                          /\ j \in DOMAIN s.slots[t].rays => s.slots[t].rays[j] = <<c, p + j>>
      BY Zenon
    <2>2. IsSlice(c, k.n, s.capacity, p, Cut(c, k, s, t))
      BY <1>1, <2>1, CutsFollow
    <2>3. s.slots[t].rays = Cut(c, k, s, t)
      BY <1>1
    <2>4. QED
      BY <1>4, <2>2, <2>3 DEF IsSlice
  <1> DEFINE First == i - o
             Second == i - (o + capacity)
  <1>8. First \in DOMAIN s.slots[1].rays <=> i > o /\ i <= o + capacity
    BY <1>2, <1>4, <1>6, <1>7
  <1>9. Second \in DOMAIN s.slots[2].rays <=> i > o + capacity /\ i <= o + capacity + capacity
    BY <1>2, <1>4, <1>6, <1>7
  <1>10. First \in DOMAIN s.slots[1].rays => s.slots[1].rays[First] = <<c, i>>
    BY <1>2, <1>4, <1>6, <1>7
  <1>11. Second \in DOMAIN s.slots[2].rays => s.slots[2].rays[Second] = <<c, i>>
    BY <1>2, <1>4, <1>6, <1>7
  <1>12. s.slots[1].geometry = g /\ s.slots[2].geometry = g
    BY <1>1, <1>3
  <1> DEFINE hit == <<g, <<c, i>>>>
             At(t) == i - (k.next + t - 2) * s.capacity
  <1>13. At(1) = First /\ At(2) = Second
    BY <1>6
  <1> DEFINE U == {u \in 1..2 : At(u) \in DOMAIN s.slots[u].rays}
  <1>14. U # {} <=> i > o /\ i <= o + capacity + capacity
    <2>1. U # {} <=> At(1) \in DOMAIN s.slots[1].rays \/ At(2) \in DOMAIN s.slots[2].rays
      <3> HIDE DEF At
      <3>1. \A u \in 1..2 : u = 1 \/ u = 2
        OBVIOUS
      <3>2. QED
        BY <3>1
    <2>2. U # {} <=> (i > o /\ i <= o + capacity) \/ (i > o + capacity /\ i <= o + capacity + capacity)
      <3> HIDE DEF At, First, Second, U
      <3>1. QED
        BY <1>8, <1>9, <1>13, <2>1
    <2> HIDE DEF U
    <2>3. QED
      BY <1>2, <1>4, <1>6, <2>2
  <1>15. \A u \in U : <<s.slots[u].geometry, s.slots[u].rays[At(u)]>> = hit
    <2>1. SUFFICES ASSUME NEW u \in U PROVE s.slots[u].geometry = g /\ s.slots[u].rays[At(u)] = <<c, i>>
      OBVIOUS
    <2>2. u = 1 \/ u = 2
      OBVIOUS
    <2> HIDE DEF First, Second, At
    <2>3. QED
      BY <1>10, <1>11, <1>12, <1>13, <2>1, <2>2
  <1>16. Merged(c, k, s, i) = k.hits[i] \cup {<<s.slots[u].geometry, s.slots[u].rays[At(u)]>> : u \in U}
    BY DEF Merged
  <1> HIDE DEF U, At
  <1>17. Merged(c, k, s, i) = k.hits[i] \cup (IF U = {} THEN {} ELSE {hit})
    BY ONLY <1>15, <1>16
  <1>18. k.hits[i] = From(c, i, IF i <= o THEN g ELSE g - 1)
    BY <1>1, <1>3, <1>4, <1>5
  <1>19. From(c, i, g) = From(c, i, g - 1) \cup {hit}
    BY <1>1, <1>2, <1>3, OneChunkMore
  <1>20. Merged(c, k, s, i) = From(c, i, IF i <= o + capacity + capacity THEN g ELSE g - 1)
    <2> HIDE DEF hit
    <2>1. CASE i <= o
      <3>1. U = {} /\ i <= o + capacity + capacity
        BY <1>2, <1>4, <1>6, <1>14, <2>1
      <3>2. QED
        BY <1>17, <1>18, <2>1, <3>1
    <2>2. CASE i > o /\ i <= o + capacity + capacity
      <3>1. U # {} /\ ~(i <= o)
        BY <1>2, <1>6, <1>14, <2>2
      <3>2. QED
        BY <1>17, <1>18, <1>19, <2>2, <3>1
    <2>3. CASE ~(i <= o) /\ ~(i <= o + capacity + capacity)
      <3>1. U = {}
        BY <1>14, <2>3
      <3>2. QED
        BY <1>17, <1>18, <2>3, <3>1
    <2>4. QED
      BY <1>2, <1>4, <1>6, <2>1, <2>2, <2>3
  <1>21. QED
    BY <1>3, <1>6, <1>20

-----------------------------------------------------------------------------
(* The steps.                                                              *)

LEMMA CreationStays ==
  ASSUME CreationInv, UNCHANGED creation
  PROVE  CreationInv' /\ UNCHANGED <<stage, options, plan>>
  <1>1. UNCHANGED <<sessionScene, options, stage, plan>>
    BY DEF creation
  <1>2. UNCHANGED <<approximate_gpu_bytes, memory_ray_limit>>
    BY <1>1 DEF approximate_gpu_bytes, memory_ray_limit
  <1>3. QED
    BY <1>1, <1>2 DEF CreationInv

\* What the arena may become while a session traces.
ArenaMay(s) ==
  /\ s \in ScratchType /\ s.capacity <= maximum_rays_per_dispatch
  /\ Len(plan.chunks) = 1 => s.geometry = 1

LEMMA ArenaMoves ==
  ASSUME ArenaInv, UNCHANGED creation, scratch' = scratch \/ (stage = "gpu" /\ ArenaMay(scratch'))
  PROVE  ArenaInv'
  <1>1. UNCHANGED <<options, stage, plan>>
    BY DEF creation
  <1>2. UNCHANGED maximum_rays_per_dispatch
    BY <1>1 DEF maximum_rays_per_dispatch, memory_ray_limit, approximate_gpu_bytes
  <1>3. CASE scratch' = scratch
    BY <1>1, <1>2, <1>3 DEF ArenaInv
  <1>4. CASE stage = "gpu" /\ ArenaMay(scratch')
    BY <1>1, <1>2, <1>4 DEF ArenaInv, ArenaMay
  <1>5. QED
    BY <1>3, <1>4

LEMMA ArenaIsAsItMay ==
  ASSUME ArenaInv, stage = "gpu"
  PROVE  ArenaMay(scratch)
  BY DEF ArenaInv, ArenaMay

\* The cache is changed beside the creation.
LEMMA CacheKeeps ==
  ASSUME SessionInv, configure_scene_cache \/ clear_scene_cache
  PROVE  SessionInv'
  <1>1. UNCHANGED <<sessionScene, options, stage, plan, device, counted, scratch, call, summary, used>>
    BY DEF configure_scene_cache, clear_scene_cache
  <1>2. UNCHANGED <<approximate_gpu_bytes, memory_ray_limit, maximum_rays_per_dispatch>>
    BY <1>1 DEF approximate_gpu_bytes, memory_ray_limit, maximum_rays_per_dispatch
  <1>3. CreationInv' /\ DeviceInv' /\ ArenaInv'
    BY <1>1, <1>2 DEF SessionInv, CreationInv, DeviceInv, ArenaInv
  <1>4. CallsInv'
    BY <1>1 DEF SessionInv, CallsInv
  <1>5. RecordsInv'
    BY <1>1 DEF SessionInv, RecordsInv
  <1>6. QED
    BY <1>3, <1>4, <1>5 DEF SessionInv

LEMMA StutteringKeeps ==
  ASSUME SessionInv, UNCHANGED sessionVars
  PROVE  SessionInv'
  <1>1. UNCHANGED <<sessionScene, options, stage, plan, device, counted, scratch, call, summary, used>>
    BY DEF sessionVars, creation
  <1>2. UNCHANGED <<approximate_gpu_bytes, memory_ray_limit, maximum_rays_per_dispatch>>
    BY <1>1 DEF approximate_gpu_bytes, memory_ray_limit, maximum_rays_per_dispatch
  <1>3. CreationInv' /\ DeviceInv' /\ ArenaInv'
    BY <1>1, <1>2 DEF SessionInv, CreationInv, DeviceInv, ArenaInv
  <1>4. CallsInv'
    BY <1>1 DEF SessionInv, CallsInv
  <1>5. RecordsInv'
    BY <1>1 DEF SessionInv, RecordsInv
  <1>6. QED
    BY <1>3, <1>4, <1>5 DEF SessionInv

\* The device is lost while any number of batches is under way.
LEMMA LosingKeeps ==
  ASSUME SessionInv, LoseDevice
  PROVE  SessionInv'
  <1>1. UNCHANGED <<creation, counted, scratch, call, summary, used>>
    BY DEF LoseDevice
  <1>2. device' \in DeviceType /\ device'.lost
    <2>1. PICK before : before = record_error
      OBVIOUS
    <2>2. before \in DeviceType
      BY <2>1 DEF record_error, SessionInv, DeviceInv, DeviceType
    <2>3. PICK lost : lost = record_device_loss
      OBVIOUS
    <2>4. lost = [before EXCEPT !.lost = TRUE, !.losses = IF device.lost THEN @ ELSE @ + 1]
      BY <2>1, <2>3 DEF record_device_loss
    <2>5. lost \in DeviceType /\ lost.lost
      <3>1. PICK losses : losses = IF device.lost THEN before.losses ELSE before.losses + 1
        OBVIOUS
      <3>2. losses \in Nat
        <4>1. before.losses \in Nat
          BY <2>2 DEF DeviceType
        <4>2. QED
          BY ONLY <3>1, <4>1
      <3>3. lost = [before EXCEPT !.lost = TRUE, !.losses = losses]
        BY <2>4, <3>1
      <3>4. QED
        BY ONLY <2>2, <3>2, <3>3 DEF DeviceType
    <2>6. device' = [lost EXCEPT !.faults = @ + 1]
      BY <2>3 DEF LoseDevice
    <2>7. QED
      BY <2>5, <2>6 DEF DeviceType
  <1>3. CreationInv' /\ UNCHANGED <<stage, options, plan>>
    BY <1>1, CreationStays DEF SessionInv
  <1>4. ArenaInv'
    BY <1>1, ArenaMoves DEF SessionInv
  <1>5. CallsInv'
    <2>1. \A c \in Threads : Underway(call[c], stage, options.preference, device.lost)'
      BY <1>1, <1>2, <1>3 DEF SessionInv, CallsInv, Underway
    <2>2. QED
      BY <1>1, <1>3, <2>1 DEF SessionInv, CallsInv
  <1>6. RecordsInv'
    BY <1>1 DEF SessionInv, RecordsInv
  <1>7. QED
    BY <1>2, <1>3, <1>4, <1>5, <1>6 DEF SessionInv, DeviceInv

\* A batch is asked for.
LEMMA TracingKeeps ==
  ASSUME SessionAssumption, SessionInv, NEW c \in Threads, trace_closest(c)
  PROVE  SessionInv'
  <1>1. UNCHANGED <<creation, device, scratch, summary, used>> /\ stage \in Backends /\ call[c].pc = "idle"
    BY DEF trace_closest, Backends
  <1>2. /\ CreationInv' /\ UNCHANGED <<stage, options, plan>>
    BY <1>1, CreationStays DEF SessionInv
  <1>3. DeviceInv' /\ ArenaInv'
    BY <1>1, ArenaMoves DEF SessionInv, DeviceInv
  <1>4. CallsInv'
    <2>1. PICK n \in Requests : \E imprecise \in {0, n} :
            call' = [call EXCEPT ![c].pc = "counted", ![c].n = n, ![c].imprecise = imprecise,
                                 ![c].made = call[c].made + 1, ![c].hits = <<>>, ![c].broken = device.errors > 0]
      BY DEF trace_closest
    <2>2. PICK imprecise \in {0, n} :
            call' = [call EXCEPT ![c].pc = "counted", ![c].n = n, ![c].imprecise = imprecise,
                                 ![c].made = call[c].made + 1, ![c].hits = <<>>, ![c].broken = device.errors > 0]
      BY <2>1
    <2>3. PICK new : new = [call[c] EXCEPT !.pc = "counted", !.n = n, !.imprecise = imprecise,
                                           !.made = call[c].made + 1, !.hits = <<>>, !.broken = device.errors > 0]
      OBVIOUS
    <2>4. /\ call[c] \in CallType /\ Underway(call[c], stage, options.preference, device.lost)
          /\ call[c].pc \in Critical <=> scratch.holder = c
      BY CallBefore DEF SessionInv
    <2>5. Becomes(c, new)
      BY <2>2, <2>3 DEF SessionInv, CallsInv, Becomes
    <2>6. n \in Nat /\ imprecise \in Nat /\ <<>> \in Seq(Hit)
      <3>1. \A Q : <<>> \in Seq(Q)
        OBVIOUS
      <3>2. <<>> \in Seq(Hit)
        BY Zenon, <3>1
      <3>3. QED
        BY <3>2 DEF SessionAssumption
    <2>7. /\ new \in CallType /\ new.pc = "counted" /\ new.answer = call[c].answer
          /\ new.broken => device.lost
      <3> HIDE DEF Hit, AnswerType
      <3>1. new.broken = (device.errors > 0) /\ new.pc = "counted" /\ new.answer = call[c].answer
        BY <2>3, <2>4 DEF CallType
      <3>2. PICK broken : broken = (device.errors > 0)
        OBVIOUS
      <3>3. broken \in BOOLEAN
        BY <3>2
      <3>4. PICK made \in Nat : made = call[c].made + 1
        BY <2>4 DEF CallType
      <3>5. new = [call[c] EXCEPT !.pc = "counted", !.n = n, !.imprecise = imprecise, !.made = made,
                                  !.hits = <<>>, !.broken = broken]
        BY <2>3, <3>2, <3>4
      <3>6. new \in CallType
        BY ONLY <2>4, <2>6, <3>3, <3>4, <3>5 DEF CallType
      <3>7. QED
        BY <3>1, <3>6 DEF SessionInv, DeviceInv
    <2>8. Underway(new, stage, options.preference, device'.lost)
      BY <1>1, <2>4, <2>7 DEF Underway, Critical
    <2>9. Sound(c, new)
      <3>1. new.pc \notin Critical /\ scratch'.holder # c
        BY <1>1, <2>4, <2>7 DEF Critical
      <3>2. QED
        BY <2>7, <2>8, <3>1, OutsideIsSound
    <2>10. QED
      BY <1>1, <1>2, <2>5, <2>9, CallMoves DEF SessionInv, ArenaOf
  <1>5. RecordsInv'
    <2>1. counted' = [counted EXCEPT !.traces = counted.traces + 1]
      BY DEF trace_closest
    <2>2. /\ counted' \in [traces : Nat, fallbacks : Nat, batches : Nat, direct : Nat]
          /\ counted'.fallbacks = counted.fallbacks /\ counted'.direct = counted.direct
      BY <2>1 DEF SessionInv, RecordsInv
    <2>3. QED
      BY <1>1, <2>2 DEF SessionInv, RecordsInv
  <1>6. QED
    BY <1>2, <1>3, <1>4, <1>5 DEF SessionInv

\* A batch that needs no GPU is answered at once; the others go for the arena.
LEMMA CheckKeeps ==
  ASSUME SessionAssumption, SessionInv, NEW c \in Threads, Check(c)
  PROVE  SessionInv'
  <1>1. UNCHANGED <<creation, device, scratch>> /\ call[c].pc = "counted"
    BY DEF Check
  <1>2. /\ CreationInv' /\ UNCHANGED <<stage, options, plan>>
    BY <1>1, CreationStays DEF SessionInv
  <1>3. DeviceInv' /\ ArenaInv'
    BY <1>1, ArenaMoves DEF SessionInv, DeviceInv
  <1>4. /\ call[c] \in CallType /\ Underway(call[c], stage, options.preference, device.lost)
        /\ call[c].pc \in Critical <=> scratch.holder = c
    BY CallBefore DEF SessionInv
  <1>5. scratch'.holder # c /\ ArenaOf(c)
    BY <1>1, <1>4 DEF Critical, ArenaOf
  <1>6. CASE stage = "cpu" /\ Respond(c, cpu_batch(FALSE)) /\ UNCHANGED counted
    <2>1. PICK answer : answer = [backend |-> "cpu", fallback |-> FALSE, clean |-> TRUE]
      OBVIOUS
    <2>2. /\ answer \in AnswerType /\ answer.backend = "cpu" /\ ~answer.fallback /\ answer.clean
      BY <2>1 DEF AnswerType, Backends
    <2>3. Permitted(c, answer)
      BY <1>6, <2>2 DEF Permitted, SessionInv, CreationInv
    <2>4. Respond(c, answer)
      BY <1>6, <2>1 DEF cpu_batch
    <2>5. call' = [call EXCEPT ![c].pc = "idle", ![c].answer = answer]
      BY <2>4 DEF Respond, Return, Direct
    <2>6. CallsInv'
      BY <1>1, <1>2, <1>5, <2>3, <2>5, AnswersKeepCalls DEF SessionInv
    <2>7. /\ counted' \in [traces : Nat, fallbacks : Nat, batches : Nat, direct : Nat]
          /\ counted'.fallbacks = counted.fallbacks /\ counted'.direct = counted.direct
      BY <1>6 DEF SessionInv, RecordsInv
    <2>8. answer.backend \in Backends
      BY <2>2 DEF Backends
    <2>9. RecordsInv'
      BY <2>2, <2>4, <2>7, <2>8, RespondKeepsRecords DEF SessionInv
    <2>10. QED
      BY <1>2, <1>3, <2>6, <2>9 DEF SessionInv
  <1>7. CASE stage = "gpu" /\ ~require_healthy /\ TraceFails(c)
    <2>1. CallsInv' /\ RecordsInv'
      BY <1>1, <1>2, <1>5, <1>7, FailuresKeep DEF SessionInv
    <2>2. QED
      BY <1>2, <1>3, <2>1 DEF SessionInv
  <1>8. CASE /\ stage = "gpu" /\ require_healthy /\ call[c].n = 0
             /\ Respond(c, [backend |-> "gpu", fallback |-> FALSE, clean |-> TRUE]) /\ UNCHANGED counted
    <2>1. PICK answer : answer = [backend |-> "gpu", fallback |-> FALSE, clean |-> TRUE]
      OBVIOUS
    <2>2. /\ answer \in AnswerType /\ answer.backend = "gpu" /\ ~answer.fallback /\ answer.clean
      BY <2>1 DEF AnswerType, Backends
    <2>3. Permitted(c, answer)
      <3>1. ~call[c].broken
        BY <1>4, <1>8 DEF Underway, require_healthy
      <3>2. QED
        BY <2>2, <3>1 DEF Permitted
    <2>4. Respond(c, answer)
      BY <1>8, <2>1
    <2>5. call' = [call EXCEPT ![c].pc = "idle", ![c].answer = answer]
      BY <2>4 DEF Respond, Return, Direct
    <2>6. CallsInv'
      BY <1>1, <1>2, <1>5, <2>3, <2>5, AnswersKeepCalls DEF SessionInv
    <2>7. /\ counted' \in [traces : Nat, fallbacks : Nat, batches : Nat, direct : Nat]
          /\ counted'.fallbacks = counted.fallbacks /\ counted'.direct = counted.direct
      BY <1>8 DEF SessionInv, RecordsInv
    <2>8. answer.backend \in Backends
      BY <2>2 DEF Backends
    <2>9. RecordsInv'
      BY <2>2, <2>4, <2>7, <2>8, RespondKeepsRecords DEF SessionInv
    <2>10. QED
      BY <1>2, <1>3, <2>6, <2>9 DEF SessionInv
  <1>9. CASE /\ stage = "gpu" /\ require_healthy /\ call[c].n > 0
             /\ Goto(c, "locking") /\ UNCHANGED <<counted, summary, used>>
    <2>1. PICK new : new = [call[c] EXCEPT !.pc = "locking"]
      OBVIOUS
    <2>2. Becomes(c, new)
      BY <1>9, <2>1 DEF SessionInv, CallsInv, Becomes, Goto
    <2>3. /\ new \in CallType /\ new.pc = "locking" /\ new.n = call[c].n /\ new.broken = call[c].broken
          /\ new.answer = call[c].answer
      <3> HIDE DEF AnswerType, Hit
      <3>1. QED
        BY <1>4, <2>1 DEF CallType
    <2>4. Underway(new, stage, options.preference, device'.lost)
      <3>1. ~new.broken /\ new.n >= 1
        BY <1>4, <1>9, <2>3 DEF Underway, require_healthy, CallType
      <3>2. QED
        BY <1>1, <1>4, <1>9, <2>3, <3>1 DEF Underway, Backends
    <2>5. Sound(c, new)
      <3>1. new.pc \notin Critical
        BY <2>3 DEF Critical
      <3>2. QED
        BY <1>5, <2>3, <2>4, <3>1, OutsideIsSound
    <2>6. CallsInv'
      BY <1>1, <1>2, <1>5, <2>2, <2>5, CallMoves DEF SessionInv
    <2>7. RecordsInv'
      BY <1>9 DEF SessionInv, RecordsInv
    <2>8. QED
      BY <1>2, <1>3, <2>6, <2>7 DEF SessionInv
  <1>10. QED
    BY <1>6, <1>7, <1>8, <1>9 DEF Check

\* The arena is taken, and grown to what the batch needs of it.
LEMMA CapacityGrows ==
  ASSUME SessionAssumption, CreationInv, ArenaInv, stage = "gpu", NEW n \in Nat, n >= 1,
         NEW s, s = ensure_capacity(Least(n, maximum_slot_capacity))
  PROVE  ArenaMay(s) /\ s.capacity >= 1 /\ s.holder = scratch.holder /\ s.geometry = scratch.geometry
  <1>1. maximum_rays_per_dispatch \in Nat \ {0}
    BY DispatchFits DEF CreationInv
  <1>2. PICK most : most = maximum_slot_capacity
    OBVIOUS
  <1>3. most \in Nat /\ most >= 1 /\ most <= maximum_rays_per_dispatch /\ most <= MAXIMUM_REUSABLE_RAYS_PER_SLOT
    BY <1>1, <1>2 DEF maximum_slot_capacity, Least, MAXIMUM_REUSABLE_RAYS_PER_SLOT
  <1>4. PICK required : required = Least(n, most)
    OBVIOUS
  <1>5. required \in Nat /\ required >= 1 /\ required <= MAXIMUM_REUSABLE_RAYS_PER_SLOT
    BY <1>3, <1>4 DEF Least, MAXIMUM_REUSABLE_RAYS_PER_SLOT
  <1>6. ArenaMay(scratch)
    BY ArenaIsAsItMay
  <1>7. scratch \in ScratchType
    BY DEF ArenaInv
  <1>8. CASE scratch.capacity >= required
    <2>1. s = scratch
      BY <1>2, <1>4, <1>8 DEF ensure_capacity
    <2>2. QED
      BY <1>5, <1>6, <1>7, <1>8, <2>1 DEF ScratchType
  <1>9. CASE ~(scratch.capacity >= required)
    <2>1. PICK power : power = NextPowerOfTwo(required)
      OBVIOUS
    <2>2. power \in Nat /\ power >= 1
      BY <1>5, <2>1, PowersReach
    <2>3. PICK capacity : capacity = Capacity(required)
      OBVIOUS
    <2>4. capacity = Least(power, most)
      BY <1>2, <2>1, <2>3 DEF Capacity
    <2>5. capacity \in Nat /\ capacity >= 1 /\ capacity <= maximum_rays_per_dispatch
      BY <1>1, <1>3, <2>2, <2>4 DEF Least
    <2>6. PICK slots : slots = FreshSlots
      OBVIOUS
    <2>7. slots \in [1..2 -> SlotType]
      BY <2>6 DEF FreshSlots, SlotType
    <2>8. s = [scratch EXCEPT !.capacity = capacity, !.slots = slots]
      BY <1>2, <1>4, <1>9, <2>3, <2>6 DEF ensure_capacity
    <2>9. /\ s \in ScratchType /\ s.capacity = capacity /\ s.holder = scratch.holder
          /\ s.geometry = scratch.geometry
      <3> HIDE DEF SlotType
      <3>1. QED
        BY <1>7, <2>5, <2>7, <2>8 DEF ScratchType
    <2>10. QED
      BY <1>6, <2>5, <2>9 DEF ArenaMay
  <1>10. QED
    BY <1>8, <1>9

LEMMA LockKeeps ==
  ASSUME SessionAssumption, SessionInv, NEW c \in Threads, Lock(c)
  PROVE  SessionInv'
  <1>1. UNCHANGED <<creation, device, counted, summary, used>> /\ call[c].pc = "locking" /\ scratch.holder = None
    BY DEF Lock
  <1>2. /\ CreationInv' /\ UNCHANGED <<stage, options, plan>>
    BY <1>1, CreationStays DEF SessionInv
  <1>3. DeviceInv' /\ RecordsInv'
    BY <1>1 DEF SessionInv, DeviceInv, RecordsInv
  <1>4. call[c] \in CallType /\ Underway(call[c], stage, options.preference, device.lost)
    BY CallBefore DEF SessionInv
  <1>5. stage = "gpu" /\ ~call[c].broken /\ call[c].n >= 1
    BY <1>1, <1>4 DEF Underway
  <1>6. PICK n \in Nat : n = call[c].n
    BY <1>4 DEF CallType
  <1>7. PICK s : s = ensure_capacity(Least(n, maximum_slot_capacity))
    OBVIOUS
  <1>8. ArenaMay(s) /\ s.capacity >= 1 /\ s.geometry = scratch.geometry
    BY <1>5, <1>6, <1>7, CapacityGrows DEF SessionInv
  <1>9. scratch' = [s EXCEPT !.holder = c]
    BY <1>6, <1>7 DEF Lock
  <1>10. /\ scratch' \in ScratchType /\ scratch'.capacity = s.capacity /\ scratch'.geometry = s.geometry
         /\ scratch'.holder = c
    BY <1>8, <1>9 DEF ArenaMay, ScratchType
  <1>11. ArenaMay(scratch')
    BY <1>8, <1>10 DEF ArenaMay
  <1>12. ArenaInv'
    BY <1>1, <1>5, <1>11, ArenaMoves DEF SessionInv
  <1>13. CallsInv'
    <2>1. PICK hits : hits = [i \in 1..n |-> {}]
      OBVIOUS
    <2>2. hits \in Seq(Hit) /\ DOMAIN hits = 1..n /\ \A i \in 1..n : hits[i] = {}
      BY <2>1 DEF Hit
    <2>3. PICK new : new = [call[c] EXCEPT !.pc = "geometry", !.geometry = 1, !.next = 1, !.hits = hits]
      OBVIOUS
    <2>4. Becomes(c, new)
      BY <1>6, <2>1, <2>3 DEF Lock, SessionInv, CallsInv, Becomes
    <2>5. /\ new \in CallType /\ new.pc = "geometry" /\ new.geometry = 1 /\ new.next = 1 /\ new.hits = hits
          /\ new.n = n /\ new.broken = call[c].broken /\ new.answer = call[c].answer
      <3> HIDE DEF AnswerType, Hit
      <3>1. QED
        BY <1>4, <1>6, <2>2, <2>3 DEF CallType, Critical
    <2>6. Underway(new, stage, options.preference, device'.lost)
      BY <1>1, <1>4, <1>5, <1>6, <2>5 DEF Underway, Critical, Backends
    <2>7. Len(plan.chunks) \in Nat /\ 1 <= Len(plan.chunks)
      <3>1. plan.chunks \in Seq(Seq(DOMAIN MeshBytes)) \ {<<>>}
        BY <1>5 DEF SessionInv, CreationInv
      <3>2. QED
        BY <3>1
    <2>8. Batch(c, new, scratch', Len(plan.chunks))
      <3>1. new.geometry \in 1..Len(plan.chunks) /\ DOMAIN new.hits = 1..new.n
        BY <2>2, <2>5, <2>7
      <3>2. \A i \in 1..new.n : new.hits[i] = From(c, i, new.geometry - 1)
        BY <2>2, <2>5 DEF From
      <3>3. new.pc \notin Tracing /\ new.pc \notin {"submit", "readback"} /\ new.next >= 1 /\ scratch'.capacity >= 1
        BY <1>8, <1>10, <2>5 DEF Tracing
      <3>4. QED
        BY <3>1, <3>2, <3>3 DEF Batch
    <2>9. Sound(c, new)
      BY <1>10, <2>5, <2>6, <2>8 DEF Sound, Critical
    <2>10. ArenaOf(c)
      BY <1>1, <1>10 DEF ArenaOf
    <2>11. QED
      BY <1>1, <1>2, <2>4, <2>9, <2>10, CallMoves DEF SessionInv
  <1>14. QED
    BY <1>2, <1>3, <1>12, <1>13 DEF SessionInv

\* What a batch that holds the arena knows of itself.
LEMMA Working ==
  ASSUME SessionAssumption, SessionInv, NEW c \in Threads, call[c].pc \in Critical
  PROVE  /\ call[c] \in CallType /\ scratch \in ScratchType
         /\ Underway(call[c], stage, options.preference, device.lost)
         /\ Batch(c, call[c], scratch, Len(plan.chunks))
         /\ scratch.holder = c /\ stage = "gpu" /\ ~call[c].broken
         /\ plan.chunks \in Seq(Seq(DOMAIN MeshBytes)) \ {<<>>} /\ Len(plan.chunks) \in Nat /\ Len(plan.chunks) >= 1
         /\ c # None
  <1>1. /\ call[c] \in CallType
        /\ Underway(call[c], stage, options.preference, device.lost)
        /\ Batch(c, call[c], scratch, Len(plan.chunks))
        /\ scratch.holder = c
    BY CallBefore DEF SessionInv
  <1>2. stage = "gpu" /\ ~call[c].broken
    BY <1>1 DEF Underway
  <1>3. plan.chunks \in Seq(Seq(DOMAIN MeshBytes)) \ {<<>>}
    BY <1>2 DEF SessionInv, CreationInv
  <1>4. Len(plan.chunks) \in Nat /\ Len(plan.chunks) >= 1
    BY <1>3
  <1>5. QED
    BY <1>1, <1>2, <1>3, <1>4 DEF SessionInv, ArenaInv, SessionAssumption

\* A step of a batch in the arena that neither the device nor the records see.
LEMMA WorkKeeps ==
  ASSUME SessionAssumption, SessionInv, NEW c \in Threads, call[c].pc \in Critical,
         UNCHANGED <<creation, device, counted, summary, used>>,
         ArenaMay(scratch'), scratch'.holder = c,
         NEW new \in CallType, Becomes(c, new), new.pc \in Critical, new.n = call[c].n,
         new.broken = call[c].broken, new.answer = call[c].answer,
         Batch(c, new, scratch', Len(plan.chunks))
  PROVE  SessionInv'
  <1>1. /\ CreationInv' /\ UNCHANGED <<stage, options, plan>>
    BY CreationStays DEF SessionInv
  <1>2. DeviceInv' /\ RecordsInv'
    BY DEF SessionInv, DeviceInv, RecordsInv
  <1>3. scratch.holder = c /\ stage = "gpu" /\ Underway(call[c], stage, options.preference, device.lost)
    BY Working
  <1>4. ArenaInv'
    BY <1>3, ArenaMoves DEF SessionInv
  <1>5. Underway(new, stage, options.preference, device'.lost)
    BY <1>3 DEF Underway, Critical
  <1>6. Sound(c, new)
    BY <1>5 DEF Sound
  <1>7. ArenaOf(c)
    BY <1>3 DEF ArenaOf
  <1>8. CallsInv'
    BY <1>1, <1>6, <1>7, CallMoves DEF SessionInv
  <1>9. QED
    BY <1>1, <1>2, <1>4, <1>8 DEF SessionInv

LEMMA UploadKeeps ==
  ASSUME SessionAssumption, SessionInv, NEW c \in Threads, upload_scene(c)
  PROVE  SessionInv'
  <1>1. UNCHANGED <<creation, device, counted, summary, used>> /\ call[c].pc = "geometry"
    BY DEF upload_scene
  <1>2. call[c].pc \in Critical
    BY <1>1 DEF Critical
  <1>3. /\ call[c] \in CallType /\ scratch \in ScratchType /\ Batch(c, call[c], scratch, Len(plan.chunks))
        /\ scratch.holder = c /\ stage = "gpu" /\ Len(plan.chunks) \in Nat /\ Len(plan.chunks) >= 1
    BY <1>2, Working
  <1>4. /\ scratch.capacity >= 1 /\ call[c].geometry \in 1..Len(plan.chunks) /\ DOMAIN call[c].hits = 1..call[c].n
        /\ \A i \in 1..call[c].n : call[c].hits[i] = From(c, i, call[c].geometry - 1)
    BY <1>1, <1>2, <1>3 DEF Batch
  <1>5. ArenaMay(scratch)
    BY <1>3, ArenaIsAsItMay DEF SessionInv
  <1>6. /\ scratch' \in ScratchType /\ scratch'.capacity = scratch.capacity /\ scratch'.holder = c
        /\ scratch'.geometry = call[c].geometry
    <2>1. CASE Len(plan.chunks) > 1
      <3>1. scratch' = [scratch EXCEPT !.geometry = call[c].geometry] /\ call[c].geometry \in Nat
        BY <1>3, <2>1 DEF upload_scene, CallType
      <3> HIDE DEF SlotType
      <3>2. QED
        BY <1>3, <3>1 DEF ScratchType
    <2>2. CASE ~(Len(plan.chunks) > 1)
      <3>1. scratch' = scratch
        BY <2>2 DEF upload_scene
      <3>2. Len(plan.chunks) = 1
        <4>1. PICK len : len = Len(plan.chunks)
          OBVIOUS
        <4>2. len \in Nat /\ len >= 1 /\ ~(len > 1)
          BY <1>3, <2>2, <4>1
        <4>3. len = 1
          BY ONLY <4>2
        <4>4. QED
          BY <4>1, <4>3
      <3>3. scratch.geometry = 1 /\ call[c].geometry = 1
        BY <1>4, <1>5, <3>2 DEF ArenaMay
      <3>4. QED
        BY <1>3, <3>1, <3>3
    <2>3. QED
      BY <2>1, <2>2
  <1>7. ArenaMay(scratch')
    <2>1. Len(plan.chunks) = 1 => call[c].geometry = 1
      BY <1>4
    <2>2. QED
      BY <1>5, <1>6, <2>1 DEF ArenaMay
  <1>8. PICK new : new = [call[c] EXCEPT !.pc = "pack", !.next = 1]
    OBVIOUS
  <1>9. Becomes(c, new)
    BY <1>8 DEF upload_scene, SessionInv, CallsInv, Becomes
  <1>10. /\ new \in CallType /\ new.pc = "pack" /\ new.next = 1 /\ new.geometry = call[c].geometry
         /\ new.hits = call[c].hits /\ new.n = call[c].n /\ new.broken = call[c].broken
         /\ new.answer = call[c].answer
    <2> HIDE DEF AnswerType, Hit
    <2>1. QED
      BY <1>3, <1>8 DEF CallType, Critical
  <1>11. Batch(c, new, scratch', Len(plan.chunks))
    <2>1. (new.next - 1) * scratch'.capacity = 0
      <3>1. PICK capacity \in Nat : capacity = scratch'.capacity
        BY <1>6 DEF ScratchType
      <3>2. (1 - 1) * capacity = 0
        OBVIOUS
      <3>3. QED
        BY <1>10, <3>1, <3>2
    <2>2. \A i \in 1..new.n :
            new.hits[i] = From(c, i, IF i <= (new.next - 1) * scratch'.capacity THEN new.geometry ELSE new.geometry - 1)
      <3>1. \A i \in 1..new.n : ~(i <= 0) /\ new.hits[i] = From(c, i, new.geometry - 1)
        BY <1>4, <1>10
      <3>2. QED
        BY <2>1, <3>1
    <2>3. /\ scratch'.capacity >= 1 /\ new.next >= 1 /\ new.geometry \in 1..Len(plan.chunks)
          /\ DOMAIN new.hits = 1..new.n /\ scratch'.geometry = new.geometry
      BY <1>4, <1>6, <1>10
    <2>4. QED
      BY <1>10, <2>2, <2>3 DEF Batch
  <1>12. new.pc \in Critical
    BY <1>10 DEF Critical
  <1>13. QED
    BY <1>1, <1>2, <1>6, <1>7, <1>9, <1>10, <1>11, <1>12, WorkKeeps

\* A batch that fails lets the arena go.
LEMMA AbortKeeps ==
  ASSUME SessionAssumption, SessionInv, NEW c \in Threads, call[c].pc \in Critical, Abort(c),
         DeviceInv', device.lost => device'.lost
  PROVE  SessionInv'
  <1>1. scratch' = [scratch EXCEPT !.holder = None] /\ TraceFails(c) /\ UNCHANGED creation
    BY DEF Abort
  <1>2. /\ CreationInv' /\ UNCHANGED <<stage, options, plan>>
    BY <1>1, CreationStays DEF SessionInv
  <1>3. scratch \in ScratchType /\ scratch.holder = c /\ stage = "gpu" /\ c # None
    BY Working
  <1>4. ArenaMay(scratch)
    BY <1>3, ArenaIsAsItMay DEF SessionInv
  <1>5. /\ scratch' \in ScratchType /\ scratch'.capacity = scratch.capacity /\ scratch'.geometry = scratch.geometry
        /\ scratch'.holder = None
    <2> HIDE DEF SlotType
    <2>1. QED
      BY <1>1, <1>3 DEF ScratchType
  <1>6. ArenaMay(scratch')
    BY <1>4, <1>5 DEF ArenaMay
  <1>7. ArenaInv'
    BY <1>1, <1>3, <1>6, ArenaMoves DEF SessionInv
  <1>8. scratch'.holder # c /\ ArenaOf(c)
    BY <1>3, <1>5 DEF ArenaOf
  <1>9. CallsInv' /\ RecordsInv'
    BY <1>1, <1>2, <1>3, <1>8, FailuresKeep DEF SessionInv
  <1>10. QED
    BY <1>2, <1>7, <1>9 DEF SessionInv

LEMMA PackKeeps ==
  ASSUME SessionAssumption, SessionInv, NEW c \in Threads, pack_rays_into(c)
  PROVE  SessionInv'
  <1>1. call[c].pc = "pack" /\ call[c].pc \in Critical
    BY DEF pack_rays_into, Critical
  <1>2. CASE PrecisionExceeded(c)
    <2>1. Abort(c) /\ UNCHANGED device
      BY <1>2 DEF pack_rays_into
    <2>2. DeviceInv'
      BY <2>1 DEF SessionInv, DeviceInv
    <2>3. QED
      BY <1>1, <2>1, <2>2, AbortKeeps
  <1>3. CASE ~PrecisionExceeded(c)
    <2>1. /\ scratch' = [scratch EXCEPT !.slots = [slot \in 1..2 |->
                           [rays |-> Chunk(c, slot), geometry |-> scratch.geometry]]]
          /\ Goto(c, "submit") /\ UNCHANGED <<creation, device, counted, summary, used>>
      BY <1>3 DEF pack_rays_into
    <2>2. /\ call[c] \in CallType /\ scratch \in ScratchType /\ Batch(c, call[c], scratch, Len(plan.chunks))
          /\ scratch.holder = c /\ stage = "gpu"
      BY <1>1, Working
    <2>3. /\ scratch.capacity >= 1 /\ call[c].next >= 1 /\ call[c].geometry \in 1..Len(plan.chunks)
          /\ DOMAIN call[c].hits = 1..call[c].n /\ scratch.geometry = call[c].geometry
          /\ \A i \in 1..call[c].n : call[c].hits[i] =
               From(c, i, IF i <= (call[c].next - 1) * scratch.capacity THEN call[c].geometry ELSE call[c].geometry - 1)
      BY <1>1, <2>2 DEF Batch, Tracing
    <2>4. \A slot \in 1..2 : Chunk(c, slot) = Cut(c, call[c], scratch, slot)
      BY DEF Chunk, Cut
    <2>5. \A slot \in 1..2 : Chunk(c, slot) \in Seq(Threads \X Nat)
      <3>1. SUFFICES ASSUME NEW slot \in 1..2 PROVE Cut(c, call[c], scratch, slot) \in Seq(Threads \X Nat)
        BY <2>4
      <3>2. PICK o : o = (call[c].next + slot - 2) * scratch.capacity
        OBVIOUS
      <3>3. IsSlice(c, call[c].n, scratch.capacity, o, Cut(c, call[c], scratch, slot))
        BY <2>2, <2>3, <3>2, CutsFollow
      <3>4. QED
        BY <3>3 DEF IsSlice
    <2>6. PICK slots : slots = [slot \in 1..2 |-> [rays |-> Chunk(c, slot), geometry |-> scratch.geometry]]
      OBVIOUS
    <2>7. scratch.geometry \in Nat
      BY <2>2 DEF ScratchType
    <2>8. slots \in [1..2 -> SlotType]
      <3>1. PICK R : R = Seq(Threads \X Nat)
        OBVIOUS
      <3>2. \A slot \in 1..2 : Chunk(c, slot) \in R
        BY <2>5, <3>1
      <3>3. slots \in [1..2 -> [rays : R, geometry : Nat]]
        BY ONLY <2>6, <2>7, <3>2
      <3>4. QED
        BY <3>1, <3>3 DEF SlotType
    <2>9. \A slot \in 1..2 : slots[slot].geometry = scratch.geometry /\ slots[slot].rays = Cut(c, call[c], scratch, slot)
      <3>1. \A slot \in 1..2 : slots[slot].geometry = scratch.geometry /\ slots[slot].rays = Chunk(c, slot)
        BY ONLY <2>6
      <3>2. QED
        BY <2>4, <3>1
    <2>10. scratch' = [scratch EXCEPT !.slots = slots]
      BY <2>1, <2>6
    <2>11. /\ scratch' \in ScratchType /\ scratch'.capacity = scratch.capacity /\ scratch'.geometry = scratch.geometry
           /\ scratch'.holder = c /\ scratch'.slots = slots
      <3> HIDE DEF SlotType
      <3>1. QED
        BY <2>2, <2>8, <2>10 DEF ScratchType
    <2>12. ArenaMay(scratch')
      <3>1. ArenaMay(scratch)
        BY <2>2, ArenaIsAsItMay DEF SessionInv
      <3>2. QED
        BY <2>11, <3>1 DEF ArenaMay
    <2>13. PICK new : new = [call[c] EXCEPT !.pc = "submit"]
      OBVIOUS
    <2>14. Becomes(c, new)
      BY <2>1, <2>13 DEF Goto, SessionInv, CallsInv, Becomes
    <2>15. /\ new \in CallType /\ new.pc = "submit" /\ new.next = call[c].next /\ new.geometry = call[c].geometry
           /\ new.hits = call[c].hits /\ new.n = call[c].n /\ new.broken = call[c].broken
           /\ new.answer = call[c].answer
      <3> HIDE DEF AnswerType, Hit
      <3>1. QED
        BY <2>2, <2>13 DEF CallType, Critical
    <2>16. Batch(c, new, scratch', Len(plan.chunks))
      <3>1. \A slot \in 1..2 : Cut(c, call[c], scratch, slot) = Cut(c, new, scratch', slot)
        BY <2>11, <2>15 DEF Cut
      <3>2. \A slot \in 1..2 : scratch'.slots[slot].geometry = new.geometry
                               /\ scratch'.slots[slot].rays = Cut(c, new, scratch', slot)
        BY <2>3, <2>9, <2>11, <2>15, <3>1
      <3>3. \A i \in 1..new.n :
              new.hits[i] = From(c, i, IF i <= (new.next - 1) * scratch'.capacity THEN new.geometry ELSE new.geometry - 1)
        BY <2>3, <2>11, <2>15
      <3>4. /\ scratch'.capacity >= 1 /\ new.next >= 1 /\ new.geometry \in 1..Len(plan.chunks)
            /\ DOMAIN new.hits = 1..new.n /\ scratch'.geometry = new.geometry
        BY <2>3, <2>11, <2>15
      <3>5. QED
        BY <2>15, <3>2, <3>3, <3>4 DEF Batch
    <2>17. new.pc \in Critical
      BY <2>15 DEF Critical
    <2>18. QED
      BY <1>1, <2>1, <2>11, <2>12, <2>14, <2>15, <2>16, <2>17, WorkKeeps
  <1>4. QED
    BY <1>2, <1>3

LEMMA SubmitKeeps ==
  ASSUME SessionAssumption, SessionInv, NEW c \in Threads, Submit(c)
  PROVE  SessionInv'
  <1>1. /\ call[c].pc = "submit" /\ call[c].pc \in Critical
        /\ Goto(c, "readback") /\ UNCHANGED <<creation, device, counted, scratch, summary, used>>
    BY DEF Submit, Critical
  <1>2. /\ call[c] \in CallType /\ Batch(c, call[c], scratch, Len(plan.chunks))
        /\ scratch.holder = c /\ stage = "gpu"
    BY <1>1, Working
  <1>3. PICK new : new = [call[c] EXCEPT !.pc = "readback"]
    OBVIOUS
  <1>4. Becomes(c, new)
    BY <1>1, <1>3 DEF Goto, SessionInv, CallsInv, Becomes
  <1>5. /\ new \in CallType /\ new.pc = "readback" /\ new.next = call[c].next /\ new.geometry = call[c].geometry
        /\ new.hits = call[c].hits /\ new.n = call[c].n /\ new.broken = call[c].broken
        /\ new.answer = call[c].answer
    <2> HIDE DEF AnswerType, Hit
    <2>1. QED
      BY <1>2, <1>3 DEF CallType, Critical
  <1>6. Batch(c, new, scratch', Len(plan.chunks))
    <2>1. \A slot \in 1..2 : Cut(c, call[c], scratch, slot) = Cut(c, new, scratch, slot)
      BY <1>5 DEF Cut
    <2>2. /\ scratch.capacity >= 1 /\ call[c].next >= 1 /\ call[c].geometry \in 1..Len(plan.chunks)
          /\ DOMAIN call[c].hits = 1..call[c].n /\ scratch.geometry = call[c].geometry
          /\ \A i \in 1..call[c].n : call[c].hits[i] =
               From(c, i, IF i <= (call[c].next - 1) * scratch.capacity THEN call[c].geometry ELSE call[c].geometry - 1)
      BY <1>1, <1>2 DEF Batch, Tracing
    <2>3. \A slot \in 1..2 : scratch.slots[slot].geometry = call[c].geometry
                             /\ scratch.slots[slot].rays = Cut(c, call[c], scratch, slot)
      BY <1>1, <1>2 DEF Batch
    <2>4. QED
      BY <1>1, <1>5, <2>1, <2>2, <2>3 DEF Batch
  <1>7. ArenaMay(scratch') /\ scratch'.holder = c
    BY <1>1, <1>2, ArenaIsAsItMay DEF SessionInv
  <1>8. new.pc \in Critical
    BY <1>5 DEF Critical
  <1>9. QED
    BY <1>1, <1>4, <1>5, <1>6, <1>7, <1>8, WorkKeeps

LEMMA ErrorKeeps ==
  ASSUME SessionAssumption, SessionInv, NEW c \in Threads, execution_error(c)
  PROVE  SessionInv'
  <1>1. call[c].pc \in Critical /\ Abort(c)
    BY DEF execution_error, Critical
  <1>2. device' \in DeviceType /\ device'.lost
    <2>1. PICK before : before = record_error
      OBVIOUS
    <2>2. before \in DeviceType
      BY <2>1 DEF record_error, SessionInv, DeviceInv, DeviceType
    <2>3. PICK lost : lost = record_execution_failure
      OBVIOUS
    <2>4. lost = [before EXCEPT !.lost = TRUE]
      BY <2>1, <2>3 DEF record_execution_failure
    <2>5. lost \in DeviceType /\ lost.lost
      BY <2>2, <2>4 DEF DeviceType
    <2>6. device' = [lost EXCEPT !.faults = @ + 1]
      BY <2>3 DEF execution_error
    <2>7. QED
      BY <2>5, <2>6 DEF DeviceType
  <1>3. DeviceInv'
    BY <1>2 DEF DeviceInv
  <1>4. QED
    BY <1>1, <1>2, <1>3, AbortKeeps

LEMMA ReadbackKeeps ==
  ASSUME SessionAssumption, SessionInv, NEW c \in Threads, Readback(c)
  PROVE  SessionInv'
  <1>1. /\ call[c].pc = "readback" /\ call[c].pc \in Critical
        /\ UNCHANGED <<creation, device, counted, scratch, summary, used>>
    BY DEF Readback, Critical
  <1>2. /\ call[c] \in CallType /\ scratch \in ScratchType /\ Batch(c, call[c], scratch, Len(plan.chunks))
        /\ scratch.holder = c /\ stage = "gpu" /\ Len(plan.chunks) \in Nat
    BY <1>1, Working
  <1>3. /\ scratch.capacity >= 1 /\ call[c].next >= 1 /\ call[c].geometry \in 1..Len(plan.chunks)
        /\ DOMAIN call[c].hits = 1..call[c].n /\ scratch.geometry = call[c].geometry
    BY <1>1, <1>2 DEF Batch, Tracing
  <1>4. PICK n \in Nat : n = call[c].n
    BY <1>2 DEF CallType
  <1>5. PICK hits : hits = merge_hit(c)
    OBVIOUS
  <1>6. hits = [i \in 1..n |-> Merged(c, call[c], scratch, i)]
    BY <1>3, <1>4, <1>5 DEF merge_hit, Merged, RayOffset
  <1>7. \A i \in 1..n : hits[i] =
          From(c, i, IF i <= ((call[c].next + 2) - 1) * scratch.capacity THEN call[c].geometry ELSE call[c].geometry - 1)
    <2>1. \A i \in 1..n : Merged(c, call[c], scratch, i) =
            From(c, i, IF i <= ((call[c].next + 2) - 1) * scratch.capacity THEN call[c].geometry ELSE call[c].geometry - 1)
      BY <1>1, <1>2, <1>4, MergedOnce
    <2>2. QED
      BY <1>6, <2>1
  <1>8. PICK next \in Nat : next = call[c].next + 2
    BY <1>2 DEF CallType
  <1>9. hits \in Seq(Hit)
    <2>1. \A i \in 1..n : \A g \in Nat : From(c, i, g) \in Hit /\ From(c, i, g - 1) \in Hit
      BY DEF From, Hit
    <2>2. call[c].geometry \in Nat
      BY <1>2 DEF CallType
    <2>3. \A i \in 1..n : hits[i] \in Hit
      BY <1>7, <2>1, <2>2
    <2>4. DOMAIN hits = 1..n /\ hits = [i \in 1..n |-> hits[i]]
      BY <1>6
    <2>5. PICK H : H = Hit
      OBVIOUS
    <2>6. \A i \in 1..n : hits[i] \in H
      BY <2>3, <2>5
    <2>7. hits \in Seq(H)
      BY ONLY n \in Nat, <2>4, <2>6
    <2>8. QED
      BY <2>5, <2>7
  <1>10. PICK new : new = [call[c] EXCEPT !.pc = "pack", !.hits = hits, !.next = next]
    OBVIOUS
  <1>11. Becomes(c, new)
    BY <1>5, <1>8, <1>10 DEF Readback, SessionInv, CallsInv, Becomes
  <1>12. /\ new \in CallType /\ new.pc = "pack" /\ new.next = next /\ new.geometry = call[c].geometry
         /\ new.hits = hits /\ new.n = call[c].n /\ new.broken = call[c].broken
         /\ new.answer = call[c].answer
    <2> HIDE DEF AnswerType, Hit
    <2>1. QED
      BY <1>2, <1>9, <1>10 DEF CallType, Critical
  <1>13. Batch(c, new, scratch', Len(plan.chunks))
    <2>1. DOMAIN new.hits = 1..new.n
      BY <1>4, <1>6, <1>12
    <2>2. \A i \in 1..new.n :
            new.hits[i] = From(c, i, IF i <= (new.next - 1) * scratch'.capacity THEN new.geometry ELSE new.geometry - 1)
      BY <1>1, <1>4, <1>7, <1>8, <1>12
    <2>3. new.next >= 1
      BY <1>2, <1>3, <1>8, <1>12 DEF CallType
    <2>4. /\ scratch'.capacity >= 1 /\ new.geometry \in 1..Len(plan.chunks) /\ scratch'.geometry = new.geometry
      BY <1>1, <1>3, <1>12
    <2>5. QED
      BY <1>12, <2>1, <2>2, <2>3, <2>4 DEF Batch
  <1>14. ArenaMay(scratch') /\ scratch'.holder = c
    BY <1>1, <1>2, ArenaIsAsItMay DEF SessionInv
  <1>15. new.pc \in Critical
    BY <1>12 DEF Critical
  <1>16. QED
    BY <1>1, <1>11, <1>12, <1>13, <1>14, <1>15, WorkKeeps

\* Every ray of the batch has been through the chunk that is uploaded.
LEMMA AllRaysAreThrough ==
  ASSUME SessionAssumption, SessionInv, NEW c \in Threads, call[c].pc = "pack", Chunk(c, 1) = <<>>
  PROVE  \A i \in 1..call[c].n : call[c].hits[i] = From(c, i, call[c].geometry)
  <1>1. call[c].pc \in Critical
    BY DEF Critical
  <1>2. /\ call[c] \in CallType /\ scratch \in ScratchType /\ Batch(c, call[c], scratch, Len(plan.chunks))
    BY <1>1, Working
  <1>3. /\ scratch.capacity >= 1 /\ call[c].next >= 1
        /\ \A i \in 1..call[c].n : call[c].hits[i] =
             From(c, i, IF i <= (call[c].next - 1) * scratch.capacity THEN call[c].geometry ELSE call[c].geometry - 1)
    BY <1>1, <1>2 DEF Batch, Tracing
  <1>4. PICK o : o = (call[c].next + 1 - 2) * scratch.capacity
    OBVIOUS
  <1>5. o \in Nat /\ IsSlice(c, call[c].n, scratch.capacity, o, Cut(c, call[c], scratch, 1))
    <2>1. 1 \in 1..2
      OBVIOUS
    <2>2. QED
      BY <1>2, <1>3, <1>4, <2>1, CutsFollow
  <1>6. Cut(c, call[c], scratch, 1) = <<>>
    BY DEF Chunk, Cut
  <1>7. o >= call[c].n
    BY <1>5, <1>6 DEF IsSlice
  <1>8. (call[c].next - 1) * scratch.capacity = o
    <2>1. call[c].next \in Nat /\ scratch.capacity \in Nat
      BY <1>2 DEF CallType, ScratchType
    <2>2. QED
      BY <1>3, <1>4, <2>1, Offsets
  <1>9. \A i \in 1..call[c].n : i <= o
    BY <1>2, <1>5, <1>7 DEF CallType
  <1>10. QED
    BY <1>3, <1>8, <1>9

LEMMA ChunkDoneKeeps ==
  ASSUME SessionAssumption, SessionInv, NEW c \in Threads, ChunkDone(c)
  PROVE  SessionInv'
  <1>1. call[c].pc = "pack" /\ call[c].pc \in Critical /\ Chunk(c, 1) = <<>>
    BY DEF ChunkDone, Critical
  <1>2. /\ call[c] \in CallType /\ scratch \in ScratchType /\ Batch(c, call[c], scratch, Len(plan.chunks))
        /\ scratch.holder = c /\ stage = "gpu" /\ ~call[c].broken /\ c # None
        /\ Len(plan.chunks) \in Nat /\ plan.chunks \in Seq(Seq(DOMAIN MeshBytes))
    BY <1>1, Working
  <1>3. /\ scratch.capacity >= 1 /\ call[c].next >= 1 /\ call[c].geometry \in 1..Len(plan.chunks)
        /\ DOMAIN call[c].hits = 1..call[c].n /\ call[c].geometry \in Nat
    BY <1>1, <1>2 DEF Batch, CallType
  <1>4. \A i \in 1..call[c].n : call[c].hits[i] = From(c, i, call[c].geometry)
    BY <1>1, AllRaysAreThrough
  <1>5. ArenaMay(scratch)
    BY <1>2, ArenaIsAsItMay DEF SessionInv
  <1>6. CASE call[c].geometry < Len(plan.chunks)
    <2>1. UNCHANGED <<creation, device, counted, scratch, summary, used>>
      BY <1>6 DEF ChunkDone
    <2>2. PICK geometry \in Nat : geometry = call[c].geometry + 1
      BY <1>3
    <2>3. PICK new : new = [call[c] EXCEPT !.pc = "geometry", !.geometry = geometry]
      OBVIOUS
    <2>4. Becomes(c, new)
      BY <1>6, <2>2, <2>3 DEF ChunkDone, SessionInv, CallsInv, Becomes
    <2>5. /\ new \in CallType /\ new.pc = "geometry" /\ new.next = call[c].next /\ new.geometry = geometry
          /\ new.hits = call[c].hits /\ new.n = call[c].n /\ new.broken = call[c].broken
          /\ new.answer = call[c].answer
      <3> HIDE DEF AnswerType, Hit
      <3>1. QED
        BY <1>2, <2>3 DEF CallType, Critical
    <2>6. Batch(c, new, scratch', Len(plan.chunks))
      <3>1. new.geometry - 1 = call[c].geometry /\ new.geometry \in 1..Len(plan.chunks)
        <4>1. PICK len : len = Len(plan.chunks)
          OBVIOUS
        <4>2. PICK g : g = call[c].geometry
          OBVIOUS
        <4>3. len \in Nat /\ g \in 1..len /\ g < len /\ geometry = g + 1
          BY <1>2, <1>3, <1>6, <2>2, <4>1, <4>2
        <4>4. geometry - 1 = g /\ geometry \in 1..len
          BY ONLY <4>3
        <4>5. QED
          BY <2>5, <4>1, <4>2, <4>4
      <3>2. \A i \in 1..new.n : new.hits[i] = From(c, i, new.geometry - 1)
        BY <1>4, <2>5, <3>1
      <3>3. /\ scratch'.capacity >= 1 /\ new.next >= 1 /\ DOMAIN new.hits = 1..new.n
            /\ new.pc \notin Tracing /\ new.pc \notin {"submit", "readback"}
        BY <1>3, <2>1, <2>5 DEF Tracing
      <3>4. QED
        BY <3>1, <3>2, <3>3 DEF Batch
    <2>7. new.pc \in Critical
      BY <2>5 DEF Critical
    <2>8. ArenaMay(scratch') /\ scratch'.holder = c
      BY <1>2, <1>5, <2>1
    <2>9. QED
      BY <1>1, <2>1, <2>4, <2>5, <2>6, <2>7, <2>8, WorkKeeps
  <1>7. CASE ~(call[c].geometry < Len(plan.chunks))
    <2>1. /\ counted' = [counted EXCEPT !.batches = counted.batches + 1]
          /\ scratch' = [scratch EXCEPT !.holder = None]
          /\ Respond(c, [backend |-> "gpu", fallback |-> FALSE, clean |-> Whole(c)])
          /\ UNCHANGED <<creation, device>>
      BY <1>7 DEF ChunkDone
    <2>2. Whole(c)
      <3>1. PICK len : len = Len(plan.chunks)
        OBVIOUS
      <3>2. call[c].geometry = len
        BY <1>2, <1>3, <1>7, <3>1
      <3>3. DOMAIN plan.chunks = 1..len
        BY <1>2, <3>1
      <3>4. \A i \in 1..call[c].n : call[c].hits[i] = {<<g, <<c, i>>>> : g \in 1..len}
        BY <1>4, <3>2 DEF From
      <3>5. QED
        BY <3>3, <3>4 DEF Whole
    <2>3. PICK answer : answer = [backend |-> "gpu", fallback |-> FALSE, clean |-> TRUE]
      OBVIOUS
    <2>4. answer = [backend |-> "gpu", fallback |-> FALSE, clean |-> Whole(c)]
      <3>1. Whole(c) \in BOOLEAN
        BY DEF Whole
      <3> HIDE DEF Whole
      <3>2. Whole(c) = TRUE
        BY <2>2, <3>1
      <3>3. QED
        BY <2>3, <3>2
    <2>5. Respond(c, answer)
      BY <2>1, <2>4
    <2>6. /\ answer \in AnswerType /\ answer.backend = "gpu" /\ ~answer.fallback /\ answer.clean
      BY <2>3 DEF AnswerType, Backends
    <2>7. Permitted(c, answer)
      BY <1>2, <2>6 DEF Permitted
    <2>8. /\ CreationInv' /\ UNCHANGED <<stage, options, plan>>
      BY <2>1, CreationStays DEF SessionInv
    <2>9. /\ scratch' \in ScratchType /\ scratch'.capacity = scratch.capacity /\ scratch'.geometry = scratch.geometry
          /\ scratch'.holder = None
      <3> HIDE DEF SlotType
      <3>1. QED
        BY <1>2, <2>1 DEF ScratchType
    <2>10. ArenaInv'
      <3>1. ArenaMay(scratch')
        BY <1>5, <2>9 DEF ArenaMay
      <3>2. QED
        BY <1>2, <2>1, <3>1, ArenaMoves DEF SessionInv
    <2>11. CallsInv'
      <3>1. call' = [call EXCEPT ![c].pc = "idle", ![c].answer = answer]
        BY <2>5 DEF Respond, Return, Direct
      <3>2. scratch'.holder # c /\ ArenaOf(c)
        BY <1>2, <2>9 DEF ArenaOf
      <3>3. QED
        BY <2>1, <2>7, <2>8, <3>1, <3>2, AnswersKeepCalls DEF SessionInv
    <2>12. RecordsInv'
      <3>1. /\ counted' \in [traces : Nat, fallbacks : Nat, batches : Nat, direct : Nat]
            /\ counted'.fallbacks = counted.fallbacks /\ counted'.direct = counted.direct
        BY <2>1 DEF SessionInv, RecordsInv
      <3>2. answer.backend \in Backends
        BY <2>6 DEF Backends
      <3>3. QED
        BY <2>5, <2>6, <3>1, <3>2, RespondKeepsRecords DEF SessionInv
    <2>13. DeviceInv'
      BY <2>1 DEF SessionInv, DeviceInv
    <2>14. QED
      BY <2>8, <2>10, <2>11, <2>12, <2>13 DEF SessionInv
  <1>8. QED
    BY <1>6, <1>7

-----------------------------------------------------------------------------
LEMMA StepsKeep ==
  ASSUME SessionAssumption, SessionInv, [SessionNext]_sessionVars
  PROVE  SessionInv'
  <1>1. CASE CreationStep
    BY <1>1, CreationKeeps
  <1>2. CASE configure_scene_cache \/ clear_scene_cache
    BY <1>2, CacheKeeps
  <1>3. CASE LoseDevice
    BY <1>3, LosingKeeps
  <1>4. ASSUME NEW c \in Threads,
               \/ trace_closest(c) \/ Check(c) \/ Lock(c) \/ upload_scene(c) \/ pack_rays_into(c)
               \/ Submit(c) \/ execution_error(c) \/ Readback(c) \/ ChunkDone(c)
        PROVE  SessionInv'
    <2>1. CASE trace_closest(c)
      BY <2>1, TracingKeeps
    <2>2. CASE Check(c)
      BY <2>2, CheckKeeps
    <2>3. CASE Lock(c)
      BY <2>3, LockKeeps
    <2>4. CASE upload_scene(c)
      BY <2>4, UploadKeeps
    <2>5. CASE pack_rays_into(c)
      BY <2>5, PackKeeps
    <2>6. CASE Submit(c)
      BY <2>6, SubmitKeeps
    <2>7. CASE execution_error(c)
      BY <2>7, ErrorKeeps
    <2>8. CASE Readback(c)
      BY <2>8, ReadbackKeeps
    <2>9. CASE ChunkDone(c)
      BY <2>9, ChunkDoneKeeps
    <2>10. QED
      BY <1>4, <2>1, <2>2, <2>3, <2>4, <2>5, <2>6, <2>7, <2>8, <2>9
  <1>5. CASE Done \/ UNCHANGED sessionVars
    BY <1>5, StutteringKeeps DEF Done
  <1>6. QED
    BY <1>1, <1>2, <1>3, <1>4, <1>5 DEF SessionNext, CreationStep

-----------------------------------------------------------------------------
(* The theorems.                                                           *)

\* What a compute session always is: its plan is of its scene, a failed device is
\* marked, the arena is within its limit and belongs to one batch, the hits of that
\* batch are those of the chunks its rays have been through, and the records and
\* the counter of fallbacks agree with the answers.
THEOREM SessionInvariant ==
  ASSUME SessionAssumption
  PROVE  SessionSpec => []SessionInv
  <1>1. SessionInit => SessionInv
    BY InitHolds
  <1>2. SessionInv /\ [SessionNext]_sessionVars => SessionInv'
    BY StepsKeep
  <1>3. QED
    BY <1>1, <1>2, PTL DEF SessionSpec

\* Whatever the scene cache holds or held when the session was created, and
\* whoever replaced or cleared it meanwhile, the session traces its own scene
\* (load_or_build_scene_plan, lib.rs).
THEOREM PlansAreOfTheScene ==
  ASSUME SessionAssumption
  PROVE  SessionSpec => []PlanIsOfTheScene
  <1>1. SessionInv => PlanIsOfTheScene
    BY DEF SessionInv, CreationInv, PlanIsOfTheScene
  <1>2. QED
    BY <1>1, SessionInvariant, PTL

\* However the arena grows, what fits into it leaves room for the largest chunk of
\* the geometry under the limit on memory.
THEOREM ArenasFitTheBudget ==
  ASSUME SessionAssumption
  PROVE  SessionSpec => []ArenaWithinBudget
  <1>1. SessionInv => ArenaWithinBudget
    <2>1. SUFFICES ASSUME SessionInv, stage = "gpu"
                   PROVE  approximate_gpu_bytes + RayBytes * scratch.capacity <= options.gpuBytes
      BY DEF ArenaWithinBudget
    <2>2. /\ plan.chunks \in Seq(Seq(DOMAIN MeshBytes)) \ {<<>>} /\ options \in Policies
          /\ approximate_gpu_bytes <= options.gpuBytes /\ memory_ray_limit # 0
      BY <2>1 DEF SessionInv, CreationInv
    <2>3. PICK most : most = maximum_rays_per_dispatch
      OBVIOUS
    <2>4. most \in Nat /\ approximate_gpu_bytes + RayBytes * most <= options.gpuBytes
      BY <2>2, <2>3, DispatchFits
    <2>5. PICK capacity : capacity = scratch.capacity
      OBVIOUS
    <2>6. capacity \in Nat /\ capacity <= most
      BY <2>1, <2>3, <2>5 DEF SessionInv, ArenaInv, ScratchType
    <2>7. RayBytes \in Nat /\ approximate_gpu_bytes \in Nat /\ options.gpuBytes \in Nat
      BY <2>2, ApproximateIsNat DEF SessionAssumption
    <2>8. RayBytes * capacity \in Nat /\ RayBytes * most \in Nat /\ RayBytes * capacity <= RayBytes * most
      BY <2>4, <2>6, <2>7, ProductsGrow
    <2>9. approximate_gpu_bytes + RayBytes * capacity <= options.gpuBytes
      BY ONLY <2>4, <2>7, <2>8
    <2>10. QED
      BY <2>5, <2>9
  <1>2. QED
    BY <1>1, SessionInvariant, PTL

\* An Auto session answers every batch, one that requires the GPU never answers
\* from the CPU, and no batch that begins after the device has failed is answered
\* by it (require_healthy and record_execution_failure, lib.rs).
THEOREM BrokenDevicesAreLeft ==
  ASSUME SessionAssumption
  PROVE  SessionSpec => []BrokenDeviceIsLeft
  <1>1. SessionInv => BrokenDeviceIsLeft
    BY DEF SessionInv, CallsInv, Underway, BrokenDeviceIsLeft, Answered
  <1>2. QED
    BY <1>1, SessionInvariant, PTL

\* Every hit the GPU answers has been merged from every chunk of the geometry,
\* each time from the readback of its own ray.
THEOREM WholeHits ==
  ASSUME SessionAssumption
  PROVE  SessionSpec => []HitsAreWhole
  <1>1. SessionInv => HitsAreWhole
    BY DEF SessionInv, CallsInv, Underway, HitsAreWhole
  <1>2. QED
    BY <1>1, SessionInvariant, PTL

\* The record of an analysis names the backends that answered it, and the batches
\* that all records together say fell back are those the session counted.
THEOREM TrueRecords ==
  ASSUME SessionAssumption
  PROVE  SessionSpec => []RecordsAreTrue
  <1>1. SessionInv => RecordsAreTrue
    <2>1. SUFFICES ASSUME SessionInv PROVE RecordsAreTrue
      OBVIOUS
    <2>2. ASSUME NEW c \in Threads, used[c] # {}
          PROVE  summary[c].backend = IF Cardinality(used[c]) = 1 THEN CHOOSE b \in used[c] : TRUE ELSE "mixed"
      <3>1. used[c] \in SUBSET Backends /\ Recorded(summary[c], used[c])
        BY <2>1 DEF SessionInv, RecordsInv
      <3>2. used[c] = {"cpu"} \/ used[c] = {"gpu"} \/ used[c] = Backends
        BY <2>2, <3>1 DEF Backends
      <3>3. ASSUME NEW x, used[c] = {x}
            PROVE  Cardinality(used[c]) = 1 /\ (CHOOSE b \in used[c] : TRUE) = x
        BY <3>3, FS_Singleton
      <3>4. Cardinality(Backends) # 1
        <4>1. IsFiniteSet({"cpu"}) /\ Cardinality({"cpu"}) = 1
          BY FS_Singleton
        <4>2. Cardinality({"cpu"} \cup {"gpu"}) = IF "gpu" \in {"cpu"} THEN 1 ELSE 1 + 1
          BY <4>1, FS_AddElement
        <4>3. Backends = {"cpu"} \cup {"gpu"}
          BY DEF Backends
        <4>4. QED
          BY <4>2, <4>3
      <3>5. CASE used[c] = {"cpu"}
        BY <3>1, <3>3, <3>5 DEF Recorded
      <3>6. CASE used[c] = {"gpu"}
        BY <3>1, <3>3, <3>6 DEF Recorded
      <3>7. CASE used[c] = Backends
        BY <3>1, <3>4, <3>7 DEF Recorded
      <3>8. QED
        BY <3>2, <3>5, <3>6, <3>7
    <2>3. counted.fallbacks = counted.direct + MapThenSumSet(LAMBDA c : summary[c].fallbacks, Threads)
      BY <2>1 DEF SessionInv, RecordsInv, Fallbacks
    <2>4. QED
      BY <2>2, <2>3 DEF RecordsAreTrue
  <1>2. QED
    BY <1>1, SessionInvariant, PTL

-----------------------------------------------------------------------------
(* Sums of a ranking.                                                       *)

LEMMA SumIsInt ==
  ASSUME NEW S, IsFiniteSet(S), NEW w, \A x \in S : w[x] \in Int, NEW h, Sums(w, SUBSET S, h)
  PROVE  h[S] \in Int
  <1> DEFINE F == {s \in SUBSET S : h[s] \in Int}
  <1>1. \A s \in SUBSET S : h[s] = IF s = {} THEN 0 ELSE w[Pick(s)] + h[s \ {Pick(s)}]
    BY DEF Sums
  <1>2. {} \in F
    <2>1. {} \in SUBSET S
      OBVIOUS
    <2>2. h[{}] = 0
      BY Zenon, <1>1, <2>1
    <2>3. QED
      BY <2>1, <2>2
  <1>3. ASSUME NEW s \in SUBSET S, s # {}, s \ {Pick(s)} \in F PROVE s \in F
    <2>1. Pick(s) \in S
      BY <1>3, PickIsMember
    <2>2. w[Pick(s)] \in Int /\ h[s \ {Pick(s)}] \in Int
      BY <1>3, <2>1
    <2>3. QED
      BY <1>1, <1>3, <2>2
  <1>4. S \in F
    <2> HIDE DEF F
    <2>1. QED
      BY <1>2, <1>3, SmallerSetsFirst
  <1>5. QED
    BY <1>4

-----------------------------------------------------------------------------
(* Sorting.                                                                *)

StrictTotal(S, before) ==
  /\ \A x \in S : <<x, x>> \notin before
  /\ \A x, y, z \in S : <<x, y>> \in before /\ <<y, z>> \in before => <<x, z>> \in before
  /\ \A x, y \in S : x # y => <<x, y>> \in before \/ <<y, x>> \in before

\* The places of the members are the numbers from one to how many they are.
LEMMA Places ==
  ASSUME NEW S, IsFiniteSet(S), NEW before, StrictTotal(S, before)
  PROVE  /\ \A x \in S : place(x, S, before) \in 1..Cardinality(S)
         /\ \A x, y \in S : place(x, S, before) = place(y, S, before) => x = y
         /\ \A n \in 1..Cardinality(S) : \E x \in S : place(x, S, before) = n
  <1> DEFINE B(x) == {y \in S : <<x, y>> \notin before}
             P == [x \in S |-> place(x, S, before)]
  <1>1. PICK n \in Nat : n = Cardinality(S)
    BY FS_CardinalityType
  <1>2. \A x \in S : B(x) \in SUBSET S /\ x \in B(x)
    BY DEF StrictTotal
  <1>3. \A x \in S : place(x, S, before) = Cardinality(B(x))
    BY DEF place
  <1>4. \A x \in S : IsFiniteSet(B(x)) /\ Cardinality(B(x)) \in 1..n
    <2>1. SUFFICES ASSUME NEW x \in S PROVE IsFiniteSet(B(x)) /\ Cardinality(B(x)) \in 1..n
      OBVIOUS
    <2>2. B(x) \in SUBSET S /\ B(x) # {}
      BY <1>2
    <2> HIDE DEF B
    <2>3. IsFiniteSet(B(x)) /\ Cardinality(B(x)) \in Nat /\ Cardinality(B(x)) # 0 /\ Cardinality(B(x)) <= n
      BY <1>1, <2>2, FS_Subset, FS_CardinalityType, FS_EmptySet
    <2>4. QED
      BY <2>3
  <1>5. ASSUME NEW x \in S, NEW y \in S, <<x, y>> \in before
        PROVE  Cardinality(B(x)) < Cardinality(B(y))
    <2>1. B(x) \in SUBSET B(y)
      BY <1>5 DEF StrictTotal
    <2>2. y \in B(y) /\ y \notin B(x)
      BY <1>2, <1>5
    <2> HIDE DEF B
    <2>3. IsFiniteSet(B(y)) /\ Cardinality(B(x)) \in Nat /\ Cardinality(B(y)) \in Nat
      BY ONLY <1>1, <1>4
    <2>4. Cardinality(B(x)) <= Cardinality(B(y)) /\ Cardinality(B(x)) # Cardinality(B(y))
      BY <2>1, <2>2, <2>3, FS_Subset
    <2>5. QED
      BY <2>3, <2>4
  <1>6. \A x, y \in S : Cardinality(B(x)) = Cardinality(B(y)) => x = y
    <2>1. SUFFICES ASSUME NEW x \in S, NEW y \in S, Cardinality(B(x)) = Cardinality(B(y)), x # y PROVE FALSE
      OBVIOUS
    <2>2. <<x, y>> \in before \/ <<y, x>> \in before
      BY <2>1 DEF StrictTotal
    <2> HIDE DEF B
    <2>3. Cardinality(B(x)) \in Nat /\ Cardinality(B(y)) \in Nat
      BY ONLY <1>1, <1>4, <2>1
    <2>4. QED
      BY <1>5, <2>1, <2>2, <2>3
  <1>7. P \in Injection(S, 1..n)
    <2> HIDE DEF B
    <2>1. P \in [S -> 1..n]
      BY <1>3, <1>4
    <2>2. \A x, y \in S : P[x] = P[y] => x = y
      BY <1>3, <1>6
    <2> HIDE DEF P
    <2>3. QED
      BY <2>1, <2>2 DEF Injection, IsInjective
  <1>8. P \in Surjection(S, 1..n)
    <2>1. IsFiniteSet(1..n) /\ Cardinality(1..n) = n
      BY FS_Interval
    <2> HIDE DEF P
    <2>2. QED
      BY <1>1, <1>7, <2>1, FS_Injection
  <1>9. \A m \in 1..n : \E x \in S : P[x] = m
    <2> HIDE DEF P
    <2>1. QED
      BY <1>8 DEF Surjection
  <1>10. /\ \A x \in S : place(x, S, before) \in 1..n
         /\ \A x, y \in S : place(x, S, before) = place(y, S, before) => x = y
    <2> HIDE DEF B
    <2>1. QED
      BY <1>3, <1>4, <1>6
  <1>11. QED
    BY <1>1, <1>9, <1>10

LEMMA Sorted ==
  ASSUME NEW S, IsFiniteSet(S), NEW before, StrictTotal(S, before)
  PROVE  /\ sort_by(S, before) \in Seq(S)
         /\ Len(sort_by(S, before)) = Cardinality(S)
         /\ Range(sort_by(S, before)) = S
         /\ \A i, j \in 1..Cardinality(S) : sort_by(S, before)[i] = sort_by(S, before)[j] => i = j
  <1>1. PICK n \in Nat : n = Cardinality(S)
    BY FS_CardinalityType
  <1>2. PICK s : s = sort_by(S, before)
    OBVIOUS
  <1>3. s = [m \in 1..n |-> CHOOSE x \in S : place(x, S, before) = m]
    BY <1>1, <1>2 DEF sort_by
  <1>4. \A m \in 1..n : s[m] \in S /\ place(s[m], S, before) = m
    BY <1>1, <1>3, Places
  <1>5. s \in [1..n -> S]
    BY <1>3, <1>4
  <1>6. s \in Seq(S) /\ Len(s) = n
    BY <1>5
  <1>7. \A x \in S : \E m \in 1..n : s[m] = x
    <2>1. \A x \in S : place(x, S, before) \in 1..n
      BY <1>1, Places
    <2>2. \A x \in S : s[place(x, S, before)] \in S /\ place(s[place(x, S, before)], S, before) = place(x, S, before)
      BY <1>4, <2>1
    <2>3. \A x \in S : s[place(x, S, before)] = x
      BY <2>2, Places
    <2>4. QED
      BY <2>1, <2>3
  <1>8. Range(s) = S
    BY <1>5, <1>7 DEF Range
  <1>9. \A i, j \in 1..n : s[i] = s[j] => i = j
    BY <1>4
  <1>10. QED
    BY <1>1, <1>2, <1>6, <1>8, <1>9

-----------------------------------------------------------------------------
(* Candidates and individuals.                                             *)

Candidates == [id : Nat, objectives : [Objectives -> Int], violation : Int]
Individuals == [id : Nat, objectives : [Objectives -> Int], violation : Int, rank : Nat, crowding : Int]
Distinct(S) == \A x, y \in S : x.id = y.id => x = y
\* Nobody is twice in a sequence.
OneEach(xs) == \A i, j \in 1..Len(xs) : xs[i].id = xs[j].id => i = j

LEMMA ObjectivesAreNumbers ==
  ASSUME RankingAssumption
  PROVE  /\ Len(Directions) \in Nat \ {0} /\ Objectives = 1..Len(Directions) /\ IsFiniteSet(Objectives)
  <1>1. Directions \in Seq({"minimize", "maximize"}) /\ Directions # <<>>
    BY DEF RankingAssumption
  <1>2. Len(Directions) \in Nat \ {0} /\ Objectives = 1..Len(Directions)
    BY <1>1 DEF Objectives
  <1>3. QED
    BY <1>2, FS_Interval

LEMMA TransformedIsInt ==
  ASSUME NEW x, x.objectives \in [Objectives -> Int], NEW k \in Objectives
  PROVE  transformed_objective(x, k) \in Int
  BY DEF transformed_objective

LEMMA ByObjectiveIsTotal ==
  ASSUME NEW S, S \subseteq Candidates, Distinct(S), NEW k \in Objectives
  PROVE  StrictTotal(S, by_objective(S, k))
  <1> DEFINE t(x) == transformed_objective(x, k)
  <1>1. \A x \in S : t(x) \in Int /\ x.id \in Nat
    BY TransformedIsInt DEF Candidates
  <1>2. \A x, y \in S : <<x, y>> \in by_objective(S, k) <=> t(x) < t(y) \/ (t(x) = t(y) /\ x.id < y.id)
    BY DEF by_objective
  <1>3. \A x, y \in S : x # y => x.id # y.id
    BY DEF Distinct
  <1> HIDE DEF t
  <1>4. \A x \in S : <<x, x>> \notin by_objective(S, k)
    BY <1>1, <1>2
  <1>5. \A x, y, z \in S : <<x, y>> \in by_objective(S, k) /\ <<y, z>> \in by_objective(S, k)
                              => <<x, z>> \in by_objective(S, k)
    BY <1>1, <1>2
  <1>6. \A x, y \in S : x # y => <<x, y>> \in by_objective(S, k) \/ <<y, x>> \in by_objective(S, k)
    BY <1>1, <1>2, <1>3
  <1>7. QED
    BY <1>4, <1>5, <1>6 DEF StrictTotal

LEMMA BySelectionIsTotal ==
  ASSUME NEW S, S \subseteq Individuals, Distinct(S)
  PROVE  StrictTotal(S, by_selection(S))
  <1>1. \A x \in S : x.rank \in Int /\ x.crowding \in Int /\ x.id \in Int
    BY DEF Individuals
  <1>2. \A x, y \in S : <<x, y>> \in by_selection(S) <=> selection_order(x, y)
    BY DEF by_selection
  <1>3. \A x, y \in S : x # y => x.id # y.id
    BY DEF Distinct
  <1>4. \A x \in S : ~selection_order(x, x)
    BY <1>1 DEF selection_order
  <1>5. \A x, y, z \in S : selection_order(x, y) /\ selection_order(y, z) => selection_order(x, z)
    BY <1>1 DEF selection_order
  <1>6. \A x, y \in S : x # y => selection_order(x, y) \/ selection_order(y, x)
    BY <1>1, <1>3 DEF selection_order
  <1>7. QED
    BY <1>2, <1>4, <1>5, <1>6 DEF StrictTotal

LEMMA SelectedAreAll ==
  ASSUME NEW S, IsFiniteSet(S), S \subseteq Individuals, Distinct(S)
  PROVE  Selected(S) \in Seq(S) /\ Len(Selected(S)) = Cardinality(S) /\ Range(Selected(S)) = S /\ OneEach(Selected(S))
  <1>1. PICK n \in Nat : n = Cardinality(S)
    BY FS_CardinalityType
  <1>2. PICK s : s = Selected(S)
    OBVIOUS
  <1>3. s \in Seq(S) /\ Len(s) = n /\ Range(s) = S /\ \A i, j \in 1..n : s[i] = s[j] => i = j
    BY <1>1, <1>2, BySelectionIsTotal, Sorted DEF Selected
  <1>4. \A i \in 1..n : s[i] \in S
    BY <1>3
  <1>5. OneEach(s)
    BY <1>3, <1>4 DEF Distinct, OneEach
  <1>6. QED
    BY <1>1, <1>2, <1>3, <1>5

\* What the k-th objective adds to the crowding distance of x.
Place(x, front, k) == place(x, front, by_objective(front, k))
At(front, k, i) == transformed_objective(sort_by(front, by_objective(front, k))[i], k)
Spread(front, k) == At(front, k, Cardinality(front)) - At(front, k, 1)
Gap(x, front, k) ==
  IF Spread(front, k) <= DOMINANCE_EPSILON THEN 0
  ELSE (Scale * (At(front, k, Place(x, front, k) + 1) - At(front, k, Place(x, front, k) - 1))) \div Spread(front, k)
Gaps(x, front) == [k \in Objectives |-> Gap(x, front, k)]

LEMMA GapIsInt ==
  ASSUME NEW front, IsFiniteSet(front), front \subseteq Candidates, Distinct(front), NEW x \in front,
         NEW k \in Objectives, Place(x, front, k) \notin {1, Cardinality(front)}
  PROVE  Gap(x, front, k) \in Int
  <1>1. StrictTotal(front, by_objective(front, k))
    BY ByObjectiveIsTotal
  <1>2. PICK n \in Nat : n = Cardinality(front)
    BY FS_CardinalityType
  <1>3. Place(x, front, k) \in 1..n
    BY <1>1, <1>2, Places DEF Place
  <1>4. \A i \in 1..n : At(front, k, i) \in Int
    <2>1. PICK s : s = sort_by(front, by_objective(front, k))
      OBVIOUS
    <2>2. s \in Seq(front) /\ Len(s) = n
      BY <1>1, <1>2, <2>1, Sorted
    <2>3. \A i \in 1..n : s[i] \in front
      BY <2>2
    <2>4. \A i \in 1..n : s[i].objectives \in [Objectives -> Int]
      BY <2>3 DEF Candidates
    <2>5. \A i \in 1..n : transformed_objective(s[i], k) \in Int
      BY <2>4, TransformedIsInt
    <2>6. QED
      BY <2>1, <2>5 DEF At
  <1>5. PICK p : p = Place(x, front, k)
    OBVIOUS
  <1>6. p + 1 \in 1..n /\ p - 1 \in 1..n /\ 1 \in 1..n /\ n \in 1..n
    BY <1>2, <1>3, <1>5
  <1>7. PICK a \in Int : a = At(front, k, p + 1) - At(front, k, p - 1)
    BY <1>4, <1>6
  <1>8. PICK d \in Int : d = Spread(front, k)
    BY <1>2, <1>4, <1>6 DEF Spread
  <1>9. PICK b \in Int : b = Scale * a
    BY <1>7 DEF Scale
  <1>10. Gap(x, front, k) = IF d <= 1 THEN 0 ELSE b \div d
    BY <1>5, <1>7, <1>8, <1>9 DEF Gap, DOMINANCE_EPSILON
  <1>11. QED
    BY <1>8, <1>9, <1>10

LEMMA CrowdingIsInt ==
  ASSUME RankingAssumption, NEW front, IsFiniteSet(front), front \subseteq Candidates, Distinct(front), NEW x \in front
  PROVE  assign_crowding(x, front) \in Int
  <1> DEFINE inside == ~(Cardinality(front) <= 2 \/ \E k \in Objectives : Place(x, front, k) \in {1, Cardinality(front)})
             H == CHOOSE h : h = [s \in SUBSET Objectives |->
                    IF s = {} THEN 0 ELSE Gap(x, front, Pick(s)) + h[s \ {Pick(s)}]]
  <1>1. assign_crowding(x, front) = IF inside THEN H[Objectives] ELSE Infinity
    BY DEF assign_crowding, Place, Gap, Spread, At, MapThenSumSet, MapThenFoldSet, Pick
  <1>2. IsFiniteSet(Objectives)
    BY ObjectivesAreNumbers
  <1>3. Sums(Gaps(x, front), SUBSET Objectives, H)
    <2>1. PICK h : Sums(Gaps(x, front), SUBSET Objectives, h)
      BY <1>2, SumsExist
    <2>2. \A s \in SUBSET Objectives : s # {} => Gaps(x, front)[Pick(s)] = Gap(x, front, Pick(s))
      BY PickIsMember DEF Gaps
    <2>3. \A f : f = [s \in SUBSET Objectives |-> IF s = {} THEN 0 ELSE Gap(x, front, Pick(s)) + f[s \ {Pick(s)}]]
                   <=> Sums(Gaps(x, front), SUBSET Objectives, f)
      BY ONLY <2>2 DEF Sums
    <2>4. h = [s \in SUBSET Objectives |-> IF s = {} THEN 0 ELSE Gap(x, front, Pick(s)) + h[s \ {Pick(s)}]]
      BY ONLY <2>1, <2>3
    <2>5. H = [s \in SUBSET Objectives |-> IF s = {} THEN 0 ELSE Gap(x, front, Pick(s)) + H[s \ {Pick(s)}]]
      BY ONLY <2>4
    <2> HIDE DEF H
    <2>6. QED
      BY ONLY <2>3, <2>5
  <1>4. ASSUME inside PROVE H[Objectives] \in Int
    <2>1. \A k \in Objectives : Gap(x, front, k) \in Int
      BY <1>4, GapIsInt
    <2>2. \A k \in Objectives : Gaps(x, front)[k] \in Int
      BY <2>1 DEF Gaps
    <2> HIDE DEF H
    <2>3. QED
      BY <1>2, <1>3, <2>2, SumIsInt
  <1> HIDE DEF H, inside
  <1>5. QED
    BY <1>1, <1>4 DEF Infinity

-----------------------------------------------------------------------------
(* Domination.                                                             *)

LEMMA DominanceIsBeating ==
  ASSUME RankingAssumption, NEW x \in Candidates, NEW y \in Candidates
  PROVE  dominance(x, y) = "second" <=> Beats(y, x)
  <1>1. x.violation \in Int /\ y.violation \in Int
    BY DEF Candidates
  <1>2. CASE feasible(x) # feasible(y)
    <2>1. feasible(x) \in BOOLEAN /\ feasible(y) \in BOOLEAN
      BY DEF feasible
    <2>2. dominance(x, y) = IF feasible(x) THEN "first" ELSE "second"
      BY <1>2, <2>1 DEF dominance
    <2>3. Beats(y, x) <=> feasible(y) /\ ~feasible(x)
      BY <1>2, <2>1 DEF Beats
    <2>4. QED
      BY <1>2, <2>1, <2>2, <2>3
  <1>3. CASE ~feasible(x) /\ ~feasible(y)
    <2>1. Beats(y, x) <=> y.violation < x.violation - DOMINANCE_EPSILON
      BY <1>3 DEF Beats
    <2>2. dominance(x, y) = CASE Less(x.violation, y.violation) -> "first"
                             [] Less(y.violation, x.violation) -> "second"
                             [] OTHER -> "neither"
      <3>1. ~(feasible(x) # feasible(y))
        BY <1>3 DEF feasible
      <3>2. QED
        BY <1>3, <3>1, Zenon DEF dominance
    <2>3. dominance(x, y) = "second" <=> ~Less(x.violation, y.violation) /\ Less(y.violation, x.violation)
      <3>1. CASE Less(x.violation, y.violation)
        <4>1. ~Less(y.violation, x.violation)
          BY <1>1, <3>1 DEF Less, DOMINANCE_EPSILON
        <4>2. dominance(x, y) = "first"
          BY <2>2, <3>1, <4>1, Zenon
        <4>3. QED
          BY <3>1, <4>2
      <3>2. CASE ~Less(x.violation, y.violation) /\ Less(y.violation, x.violation)
        <4>1. dominance(x, y) = "second"
          BY <2>2, <3>2, Zenon
        <4>2. QED
          BY <3>2, <4>1
      <3>3. CASE ~Less(x.violation, y.violation) /\ ~Less(y.violation, x.violation)
        <4>1. dominance(x, y) = "neither"
          BY <2>2, <3>3, Zenon
        <4>2. QED
          BY <3>3, <4>1
      <3>4. QED
        BY <3>1, <3>2, <3>3
    <2>4. QED
      BY <1>1, <2>1, <2>3 DEF Less, DOMINANCE_EPSILON
  <1>4. CASE feasible(x) /\ feasible(y)
    <2>1. \A k \in Objectives : transformed_objective(x, k) \in Int /\ transformed_objective(y, k) \in Int
      BY TransformedIsInt DEF Candidates
    <2>2. dominance(x, y) = "second" <=> BetterIn(y, x) # {} /\ BetterIn(x, y) = {}
      BY <1>4 DEF dominance
    <2>3. BetterIn(y, x) # {}
            <=> \E k \in Objectives : transformed_objective(y, k) < transformed_objective(x, k) - DOMINANCE_EPSILON
      BY <2>1 DEF BetterIn, Less, DOMINANCE_EPSILON
    <2>4. BetterIn(x, y) = {}
            <=> \A k \in Objectives : transformed_objective(y, k) <= transformed_objective(x, k) + DOMINANCE_EPSILON
      BY <2>1 DEF BetterIn, Less, DOMINANCE_EPSILON
    <2>5. Beats(y, x) <=> /\ \E k \in Objectives : transformed_objective(y, k) < transformed_objective(x, k) - DOMINANCE_EPSILON
                          /\ \A k \in Objectives : transformed_objective(y, k) <= transformed_objective(x, k) + DOMINANCE_EPSILON
      BY <1>4 DEF Beats
    <2>6. QED
      BY <2>2, <2>3, <2>4, <2>5
  <1>5. feasible(x) \in BOOLEAN /\ feasible(y) \in BOOLEAN
    BY DEF feasible
  <1>6. QED
    BY <1>2, <1>3, <1>4, <1>5

LEMMA OneOrTwo ==
  ASSUME RankingAssumption, Len(Directions) <= 2
  PROVE  Len(Directions) \in {1, 2} /\ Objectives = 1..Len(Directions)
  <1>1. PICK len : len = Len(Directions)
    OBVIOUS
  <1>2. len \in Nat \ {0} /\ Objectives = 1..len
    BY <1>1, ObjectivesAreNumbers
  <1>3. len <= 2
    BY <1>1
  <1>4. QED
    BY <1>1, <1>2, <1>3

\* With one or two objectives the sum of the objectives falls along domination.
Worth(x) ==
  IF Len(Directions) = 1 THEN transformed_objective(x, 1)
  ELSE transformed_objective(x, 1) + transformed_objective(x, 2)

LEMMA BeatingIsWorth ==
  ASSUME RankingAssumption, Len(Directions) <= 2, NEW x \in Candidates, NEW y \in Candidates,
         feasible(x), Beats(y, x)
  PROVE  feasible(y) /\ Worth(y) < Worth(x)
  <1>1. /\ feasible(y)
        /\ \E k \in Objectives : transformed_objective(y, k) < transformed_objective(x, k) - DOMINANCE_EPSILON
        /\ \A k \in Objectives : transformed_objective(y, k) <= transformed_objective(x, k) + DOMINANCE_EPSILON
    BY DEF Beats
  <1>2. \A k \in Objectives : transformed_objective(x, k) \in Int /\ transformed_objective(y, k) \in Int
    BY TransformedIsInt DEF Candidates
  <1>3. Len(Directions) \in {1, 2} /\ Objectives = 1..Len(Directions)
    BY OneOrTwo
  <1>4. CASE Len(Directions) = 1
    <2>1. Objectives = {1}
      BY <1>3, <1>4
    <2>2. QED
      BY <1>1, <1>2, <1>4, <2>1 DEF Worth, DOMINANCE_EPSILON
  <1>5. CASE Len(Directions) = 2
    <2>1. Objectives = {1, 2}
      BY <1>3, <1>5
    <2>2. QED
      BY <1>1, <1>2, <1>5, <2>1 DEF Worth, DOMINANCE_EPSILON
  <1>6. QED
    BY <1>3, <1>4, <1>5

\* A finite set has a member of least value.
LEMMA LowestExists ==
  ASSUME NEW S, IsFiniteSet(S), S # {}, NEW f, \A x \in S : f[x] \in Int
  PROVE  \E x \in S : \A y \in S : f[x] <= f[y]
  <1> DEFINE F == {s \in SUBSET S : s # {} => \E x \in s : \A y \in s : f[x] <= f[y]}
  <1>1. {} \in F
    OBVIOUS
  <1>2. ASSUME NEW s \in SUBSET S, s # {}, s \ {Pick(s)} \in F PROVE s \in F
    <2>1. PICK p : p = Pick(s)
      OBVIOUS
    <2>2. p \in s
      BY <1>2, <2>1, PickIsMember
    <2>3. CASE s \ {p} = {}
      <3>1. s = {p}
        BY <2>2, <2>3
      <3>2. QED
        BY <3>1
    <2>4. CASE s \ {p} # {}
      <3>1. PICK x \in s \ {p} : \A y \in s \ {p} : f[x] <= f[y]
        BY <1>2, <2>1, <2>4
      <3>2. CASE f[x] <= f[p]
        BY <3>1, <3>2
      <3>3. CASE f[p] < f[x]
        <4>1. \A y \in s : f[p] <= f[y]
          BY <2>2, <3>1, <3>3
        <4>2. QED
          BY <2>2, <4>1
      <3>4. f[x] \in Int /\ f[p] \in Int
        BY <2>2, <3>1
      <3>5. QED
        BY <3>2, <3>3, <3>4
    <2>5. QED
      BY <2>3, <2>4
  <1>3. S \in F
    <2> HIDE DEF F
    <2>1. QED
      BY <1>1, <1>2, SmallerSetsFirst
  <1>4. QED
    BY <1>3

\* Domination never goes round in a circle.
LEMMA UnbeatenExists ==
  ASSUME RankingAssumption, Len(Directions) <= 2, NEW S, IsFiniteSet(S), S # {}, S \subseteq Candidates
  PROVE  \E x \in S : \A y \in S : ~Beats(y, x)
  <1> DEFINE T == {x \in S : feasible(x)}
  <1>1. CASE T # {}
    <2> DEFINE f == [x \in T |-> Worth(x)]
    <2>1. \A x \in T : f[x] = Worth(x)
      OBVIOUS
    <2>2. \A x \in T : Worth(x) \in Int
      <3>1. Len(Directions) \in {1, 2} /\ Objectives = 1..Len(Directions)
        BY OneOrTwo
      <3>2. \A x \in T : x.objectives \in [Objectives -> Int]
        BY DEF Candidates
      <3>3. \A x \in T, k \in Objectives : transformed_objective(x, k) \in Int
        BY <3>2, TransformedIsInt
      <3>4. ASSUME NEW x \in T PROVE Worth(x) \in Int
        <4>1. CASE Len(Directions) = 1
          <5>1. transformed_objective(x, 1) \in Int
            BY <3>1, <3>3, <4>1
          <5>2. QED
            BY ONLY <4>1, <5>1 DEF Worth
        <4>2. CASE Len(Directions) = 2
          <5>1. transformed_objective(x, 1) \in Int /\ transformed_objective(x, 2) \in Int
            BY <3>1, <3>3, <4>2
          <5>2. QED
            BY ONLY <4>2, <5>1 DEF Worth
        <4>3. QED
          BY <3>1, <4>1, <4>2
      <3>5. QED
        BY <3>4
    <2>3. IsFiniteSet(T)
      BY FS_Subset
    <2> HIDE DEF f
    <2>4. PICK x \in T : \A y \in T : f[x] <= f[y]
      <3> HIDE DEF T
      <3>1. QED
        BY <1>1, <2>1, <2>2, <2>3, LowestExists
    <2>5. \A y \in T : Worth(x) <= Worth(y)
      BY <2>1, <2>4
    <2>6. ASSUME NEW y \in S, Beats(y, x) PROVE FALSE
      <3>1. x \in Candidates /\ y \in Candidates /\ feasible(x)
        OBVIOUS
      <3>2. feasible(y) /\ Worth(y) < Worth(x)
        BY <2>6, <3>1, BeatingIsWorth
      <3>3. y \in T
        BY <3>2
      <3>4. QED
        BY <2>2, <2>5, <3>2, <3>3
    <2>7. QED
      BY <2>6
  <1>2. CASE T = {}
    <2> DEFINE f == [x \in S |-> x.violation]
    <2>1. \A x \in S : f[x] = x.violation /\ f[x] \in Int
      BY DEF Candidates
    <2> HIDE DEF f
    <2>2. PICK x \in S : \A y \in S : f[x] <= f[y]
      BY <2>1, LowestExists
    <2>3. ASSUME NEW y \in S, Beats(y, x) PROVE FALSE
      <3>1. y.violation < x.violation - DOMINANCE_EPSILON
        BY <1>2, <2>3 DEF Beats
      <3>2. QED
        BY <2>1, <2>2, <3>1 DEF DOMINANCE_EPSILON
    <2>4. QED
      BY <2>3
  <1>3. QED
    BY <1>1, <1>2

-----------------------------------------------------------------------------
(* The fronts.                                                             *)

\* The candidates that are placed after those in before, and these.
Further(all, before) ==
  before \cup {x \in all : \A y \in all :
                 <<x, y>> \in {p \in all \X all : dominance(p[1], p[2]) = "second"} => y \in before}
Peeling(all, n, d) == d = [k \in 0..n |-> IF k = 0 THEN {} ELSE Further(all, d[k - 1])]

LEMMA PeelingValues ==
  ASSUME NEW all, NEW n \in Nat, NEW d, Peeling(all, n, d)
  PROVE  \A k \in 0..n : d[k] = IF k = 0 THEN {} ELSE Further(all, d[k - 1])
  <1>1. PICK e : e = d
    OBVIOUS
  <1>2. d = [k \in 0..n |-> IF k = 0 THEN {} ELSE Further(all, e[k - 1])]
    BY ONLY <1>1, Peeling(all, n, d) DEF Peeling
  <1>3. \A k \in 0..n : d[k] = IF k = 0 THEN {} ELSE Further(all, e[k - 1])
    BY ONLY <1>2
  <1>4. QED
    BY ONLY <1>1, <1>3

LEMMA PeelingExists ==
  ASSUME NEW all, NEW n \in Nat
  PROVE  \E d : Peeling(all, n, d)
  <1> DEFINE T == {m \in Nat : \E d : Peeling(all, m, d)}
  <1>1. 0 \in T
    <2> DEFINE d == [k \in 0..0 |-> {}]
    <2>1. d = [k \in 0..0 |-> IF k = 0 THEN {} ELSE Further(all, d[k - 1])]
      OBVIOUS
    <2>2. QED
      BY <2>1 DEF Peeling
  <1>2. ASSUME NEW m \in Nat, m \in T PROVE m + 1 \in T
    <2>1. PICK h : Peeling(all, m, h)
      BY <1>2
    <2> DEFINE d == [k \in 0..(m + 1) |-> IF k = 0 THEN {} ELSE Further(all, h[k - 1])]
    <2>2. \A k \in 0..m : k \in 0..(m + 1) /\ d[k] = h[k]
      <3>1. \A k \in 0..m : h[k] = IF k = 0 THEN {} ELSE Further(all, h[k - 1])
        BY <2>1, PeelingValues
      <3>2. \A k \in 0..m : k \in 0..(m + 1)
        OBVIOUS
      <3>3. \A k \in 0..m : d[k] = IF k = 0 THEN {} ELSE Further(all, h[k - 1])
        BY ONLY <3>2
      <3>4. QED
        BY ONLY <3>1, <3>2, <3>3
    <2>3. \A k \in 0..(m + 1) : k # 0 => d[k - 1] = h[k - 1]
      <3>1. \A k \in 0..(m + 1) : k # 0 => k - 1 \in 0..m
        OBVIOUS
      <3> HIDE DEF d
      <3>2. QED
        BY <2>2, <3>1
    <2>4. d = [k \in 0..(m + 1) |-> IF k = 0 THEN {} ELSE Further(all, d[k - 1])]
      BY ONLY <2>3
    <2> HIDE DEF d
    <2>5. Peeling(all, m + 1, d)
      BY ONLY <2>4 DEF Peeling
    <2>6. QED
      BY <2>5
  <1>3. Nat \subseteq T
    <2> HIDE DEF T
    <2>1. QED
      BY <1>1, <1>2, CountingUp
  <1>4. QED
    BY <1>3

LEMMA PeelIsPeeling ==
  ASSUME NEW all, IsFiniteSet(all)
  PROVE  \E d : /\ Peeling(all, Cardinality(all), d)
                /\ peel(all) = {[rank |-> k - 1, members |-> d[k] \ d[k - 1]] : k \in 1..Cardinality(all)}
  <1> DEFINE H == CHOOSE d : d = [k \in 0..Cardinality(all) |-> IF k = 0 THEN {} ELSE Further(all, d[k - 1])]
  <1>1. peel(all) = {[rank |-> k - 1, members |-> H[k] \ H[k - 1]] : k \in 1..Cardinality(all)}
    BY DEF peel, Further
  <1>2. Peeling(all, Cardinality(all), H)
    <2>1. Cardinality(all) \in Nat
      BY FS_CardinalityType
    <2>2. PICK d : Peeling(all, Cardinality(all), d)
      BY <2>1, PeelingExists
    <2>3. d = [k \in 0..Cardinality(all) |-> IF k = 0 THEN {} ELSE Further(all, d[k - 1])]
      BY ONLY <2>2 DEF Peeling
    <2>4. H = [k \in 0..Cardinality(all) |-> IF k = 0 THEN {} ELSE Further(all, H[k - 1])]
      BY ONLY <2>3
    <2> HIDE DEF H
    <2>5. QED
      BY ONLY <2>4 DEF Peeling
  <1> HIDE DEF H
  <1>3. QED
    BY <1>1, <1>2

LEMMA PeelingSteps ==
  ASSUME RankingAssumption, NEW all, all \subseteq Candidates, NEW n \in Nat, NEW d, Peeling(all, n, d)
  PROVE  /\ d[0] = {}
         /\ \A k \in 1..n : d[k - 1] \subseteq d[k]
         /\ \A k \in 1..n, x \in all : x \in d[k] <=> x \in d[k - 1] \/ \A y \in all : Beats(y, x) => y \in d[k - 1]
         /\ \A k \in 0..n : d[k] \subseteq all
  <1>1. d[0] = {} /\ \A k \in 1..n : d[k] = Further(all, d[k - 1])
    <2>1. \A k \in 0..n : d[k] = IF k = 0 THEN {} ELSE Further(all, d[k - 1])
      BY PeelingValues
    <2>2. QED
      BY <2>1
  <1>2. \A x, y \in all : <<x, y>> \in {p \in all \X all : dominance(p[1], p[2]) = "second"} <=> Beats(y, x)
    <2>1. \A x, y \in all : <<x, y>> \in {p \in all \X all : dominance(p[1], p[2]) = "second"}
                              <=> dominance(x, y) = "second"
      OBVIOUS
    <2>2. \A x, y \in all : dominance(x, y) = "second" <=> Beats(y, x)
      BY DominanceIsBeating
    <2>3. QED
      BY <2>1, <2>2
  <1>3. \A b : Further(all, b) = b \cup {x \in all : \A y \in all : Beats(y, x) => y \in b}
    BY ONLY <1>2 DEF Further
  <1>4. \A k \in 1..n : d[k] = d[k - 1] \cup {x \in all : \A y \in all : Beats(y, x) => y \in d[k - 1]}
    BY <1>1, <1>3
  <1> DEFINE T == {k \in Nat : k <= n => d[k] \subseteq all}
  <1>5. 0 \in T
    BY <1>1
  <1>6. ASSUME NEW k \in Nat, k \in T PROVE k + 1 \in T
    <2>1. SUFFICES ASSUME k + 1 <= n PROVE d[k + 1] \subseteq all
      OBVIOUS
    <2>2. k + 1 \in 1..n /\ (k + 1) - 1 = k /\ d[k] \subseteq all
      BY <1>6, <2>1
    <2>3. d[k + 1] = d[k] \cup {x \in all : \A y \in all : Beats(y, x) => y \in d[k]}
      BY <1>4, <2>2
    <2>4. QED
      BY <2>2, <2>3
  <1>7. Nat \subseteq T
    <2> HIDE DEF T
    <2>1. QED
      BY <1>5, <1>6, CountingUp
  <1>8. \A k \in 0..n : d[k] \subseteq all
    BY <1>7
  <1>9. /\ \A k \in 1..n : d[k - 1] \subseteq d[k]
        /\ \A k \in 1..n, x \in all : x \in d[k] <=> x \in d[k - 1] \/ \A y \in all : Beats(y, x) => y \in d[k - 1]
    BY <1>4
  <1>10. QED
    BY <1>1, <1>8, <1>9

\* Every step places another candidate, so that as many steps as there are candidates place all.
LEMMA PeelingEnds ==
  ASSUME RankingAssumption, Len(Directions) <= 2, NEW all, IsFiniteSet(all), all \subseteq Candidates,
         NEW d, Peeling(all, Cardinality(all), d)
  PROVE  d[Cardinality(all)] = all
  <1>1. PICK n \in Nat : n = Cardinality(all)
    BY FS_CardinalityType
  <1>2. /\ d[0] = {}
        /\ \A k \in 1..n : d[k - 1] \subseteq d[k]
        /\ \A k \in 1..n, x \in all : x \in d[k] <=> x \in d[k - 1] \/ \A y \in all : Beats(y, x) => y \in d[k - 1]
        /\ \A k \in 0..n : d[k] \subseteq all
    BY <1>1, PeelingSteps
  <1>3. \A k \in 0..n : IsFiniteSet(d[k]) /\ Cardinality(d[k]) \in Nat /\ Cardinality(d[k]) <= n
    BY <1>1, <1>2, FS_Subset, FS_CardinalityType
  <1> DEFINE T == {k \in Nat : k <= n => d[k] = all \/ Cardinality(d[k]) >= k}
  <1>4. 0 \in T
    BY <1>3
  <1>5. ASSUME NEW k \in Nat, k \in T PROVE k + 1 \in T
    <2>1. SUFFICES ASSUME k + 1 <= n PROVE d[k + 1] = all \/ Cardinality(d[k + 1]) >= k + 1
      OBVIOUS
    <2>2. k + 1 \in 1..n /\ (k + 1) - 1 = k /\ k \in 0..n /\ k + 1 \in 0..n
      BY <2>1
    <2>3. d[k] \subseteq d[k + 1] /\ d[k] \subseteq all /\ d[k + 1] \subseteq all
      BY <1>2, <2>2
    <2>4. CASE d[k] = all
      BY <2>3, <2>4
    <2>5. CASE d[k] # all
      <3>1. all \ d[k] # {} /\ IsFiniteSet(all \ d[k]) /\ all \ d[k] \subseteq Candidates
        BY <2>3, <2>5, FS_Difference
      <3>2. PICK x \in all \ d[k] : \A y \in all \ d[k] : ~Beats(y, x)
        BY <3>1, UnbeatenExists
      <3>3. x \in d[k + 1] /\ x \notin d[k]
        BY <1>2, <2>2, <3>2
      <3>4. Cardinality(d[k]) # Cardinality(d[k + 1]) /\ Cardinality(d[k]) <= Cardinality(d[k + 1])
        <4>1. d[k] \in SUBSET d[k + 1] /\ IsFiniteSet(d[k + 1])
          BY <1>3, <2>2, <2>3
        <4>2. QED
          BY <3>3, <4>1, FS_Subset
      <3>5. Cardinality(d[k]) >= k
        BY <1>5, <2>1, <2>5
      <3>6. Cardinality(d[k]) \in Nat /\ Cardinality(d[k + 1]) \in Nat
        BY <1>3, <2>2
      <3>7. QED
        BY <3>4, <3>5, <3>6
    <2>6. QED
      BY <2>4, <2>5
  <1>6. Nat \subseteq T
    <2> HIDE DEF T
    <2>1. QED
      BY <1>4, <1>5, CountingUp
  <1>7. d[n] = all \/ Cardinality(d[n]) >= n
    BY <1>6
  <1>8. d[n] \in SUBSET all /\ Cardinality(d[n]) \in Nat /\ Cardinality(d[n]) <= n
    BY <1>2, <1>3
  <1>9. Cardinality(d[n]) = n => d[n] = all
    BY <1>1, <1>8, FS_Subset
  <1>10. d[n] = all
    BY <1>7, <1>8, <1>9
  <1>11. QED
    BY <1>1, <1>10

\* A partition into fronts, each of the candidates that are beaten from the front before
\* and from no later one.
Layers(all, fronts) ==
  /\ \A x \in all : \E f \in fronts : x \in f.members
  /\ \A f, g \in fronts : \A x \in f.members : x \in g.members => f = g
  /\ \A f, g \in fronts : f.rank = g.rank => f = g
  /\ \A f \in fronts : f.rank \in Nat /\ f.rank < Cardinality(all) /\ f.members \subseteq all
  /\ \A f \in fronts : \A x \in f.members, y \in all : Beats(y, x) => \E g \in fronts : y \in g.members /\ g.rank < f.rank
  /\ \A f \in fronts : \A x \in f.members : f.rank # 0 =>
       \E y \in all : Beats(y, x) /\ \E g \in fronts : y \in g.members /\ g.rank = f.rank - 1

LEMMA FrontsAreMade ==
  ASSUME RankingAssumption, Len(Directions) <= 2, NEW all, IsFiniteSet(all), all \subseteq Candidates
  PROVE  Layers(all, peel(all))
  <1>1. PICK n \in Nat : n = Cardinality(all)
    BY FS_CardinalityType
  <1>2. PICK d : /\ Peeling(all, n, d)
                 /\ peel(all) = {[rank |-> k - 1, members |-> d[k] \ d[k - 1]] : k \in 1..n}
    <2>1. \E d : /\ Peeling(all, Cardinality(all), d)
                 /\ peel(all) = {[rank |-> k - 1, members |-> d[k] \ d[k - 1]] : k \in 1..Cardinality(all)}
      BY PeelIsPeeling
    <2>2. QED
      BY <1>1, <2>1, Zenon
  <1>3. /\ d[0] = {}
        /\ \A k \in 1..n : d[k - 1] \subseteq d[k]
        /\ \A k \in 1..n, x \in all : x \in d[k] <=> x \in d[k - 1] \/ \A y \in all : Beats(y, x) => y \in d[k - 1]
        /\ \A k \in 0..n : d[k] \subseteq all
    BY <1>2, PeelingSteps
  <1>4. d[n] = all
    BY <1>1, <1>2, PeelingEnds
  <1> DEFINE T == {k \in Nat : k <= n => \A j \in 0..k : d[j] \subseteq d[k]}
  <1>5. 0 \in T
    BY <1>3
  <1>6. ASSUME NEW k \in Nat, k \in T PROVE k + 1 \in T
    <2>1. SUFFICES ASSUME k + 1 <= n, NEW j \in 0..(k + 1) PROVE d[j] \subseteq d[k + 1]
      OBVIOUS
    <2>2. k + 1 \in 1..n /\ (k + 1) - 1 = k
      BY <2>1
    <2>3. d[k] \subseteq d[k + 1]
      BY <1>3, <2>2
    <2>4. j = k + 1 \/ j \in 0..k
      BY <2>1
    <2>5. j \in 0..k => d[j] \subseteq d[k]
      BY <1>6, <2>1
    <2>6. QED
      BY <2>3, <2>4, <2>5
  <1>7. Nat \subseteq T
    <2> HIDE DEF T
    <2>1. QED
      BY <1>5, <1>6, CountingUp
  <1>8. \A j, k \in 0..n : j <= k => d[j] \subseteq d[k]
    BY <1>7
  <1> HIDE DEF T
  <1>9. ASSUME NEW x \in all PROVE \E k \in 1..n : x \in d[k] /\ x \notin d[k - 1]
    <2> DEFINE K == {k \in 0..n : x \in d[k]}
    <2>1. K \in SUBSET Nat /\ K # {}
      BY <1>4, <1>9
    <2>2. PICK m : m = Min(K)
      OBVIOUS
    <2>3. m \in K /\ \A k \in K : m <= k
      BY <2>1, <2>2, LeastExists
    <2>4. m # 0
      BY <1>3, <2>3
    <2>5. m \in 1..n /\ m - 1 \in 0..n
      BY <2>3, <2>4
    <2>6. m - 1 \notin K
      BY <2>3, <2>5
    <2>7. QED
      BY <2>3, <2>5, <2>6
  <1>10. ASSUME NEW j \in 1..n, NEW k \in 1..n, NEW x, x \in d[j] \ d[j - 1], x \in d[k] \ d[k - 1] PROVE j = k
    <2>1. j - 1 \in 0..n /\ k - 1 \in 0..n /\ j \in 0..n /\ k \in 0..n
      OBVIOUS
    <2>2. ~(j <= k - 1) /\ ~(k <= j - 1)
      BY <1>8, <1>10, <2>1
    <2>3. QED
      BY <2>2
  <1> DEFINE F(k) == [rank |-> k - 1, members |-> d[k] \ d[k - 1]]
  <1>11. peel(all) = {F(k) : k \in 1..n}
    BY <1>2
  <1>12. \A k \in 1..n : F(k).rank = k - 1 /\ F(k).members = d[k] \ d[k - 1]
    OBVIOUS
  <1> HIDE DEF F
  <1>13. \A x \in all : \E f \in peel(all) : x \in f.members
    BY <1>9, <1>11, <1>12
  <1>14. \A f, g \in peel(all) : \A x \in f.members : x \in g.members => f = g
    <2>1. SUFFICES ASSUME NEW j \in 1..n, NEW k \in 1..n, NEW x \in F(j).members, x \in F(k).members PROVE F(j) = F(k)
      BY <1>11
    <2>2. j = k
      BY <1>10, <1>12, <2>1
    <2>3. QED
      BY <2>2
  <1>15. \A f, g \in peel(all) : f.rank = g.rank => f = g
    <2>1. SUFFICES ASSUME NEW j \in 1..n, NEW k \in 1..n, F(j).rank = F(k).rank PROVE F(j) = F(k)
      BY <1>11
    <2>2. j = k
      BY <1>12, <2>1
    <2>3. QED
      BY <2>2
  <1>16. \A f \in peel(all) : f.rank \in Nat /\ f.rank < Cardinality(all) /\ f.members \subseteq all
    <2>1. SUFFICES ASSUME NEW k \in 1..n PROVE F(k).rank \in Nat /\ F(k).rank < n /\ F(k).members \subseteq all
      BY <1>1, <1>11
    <2>2. d[k] \subseteq all
      BY <1>3
    <2>3. QED
      BY <1>12, <2>2
  <1>17. ASSUME NEW f \in peel(all), NEW x \in f.members, NEW y \in all, Beats(y, x)
         PROVE  \E g \in peel(all) : y \in g.members /\ g.rank < f.rank
    <2>1. PICK k \in 1..n : f = F(k)
      BY <1>11
    <2>2. x \in d[k] /\ x \notin d[k - 1] /\ f.rank = k - 1 /\ x \in all
      <3>1. d[k] \subseteq all
        BY <1>3
      <3>2. QED
        BY <1>12, <1>17, <2>1, <3>1
    <2>3. y \in d[k - 1]
      BY <1>3, <1>17, <2>2
    <2>4. PICK j \in 1..n : y \in d[j] /\ y \notin d[j - 1]
      BY <1>9
    <2>5. ~(k - 1 <= j - 1)
      <3>1. k - 1 \in 0..n /\ j - 1 \in 0..n
        OBVIOUS
      <3>2. QED
        BY <1>8, <2>3, <2>4, <3>1
    <2>6. F(j) \in peel(all) /\ y \in F(j).members /\ F(j).rank < f.rank
      BY <1>11, <1>12, <2>2, <2>4, <2>5
    <2>7. QED
      BY <2>6
  <1>18. ASSUME NEW f \in peel(all), NEW x \in f.members, f.rank # 0
         PROVE  \E y \in all : Beats(y, x) /\ \E g \in peel(all) : y \in g.members /\ g.rank = f.rank - 1
    <2>1. PICK k \in 1..n : f = F(k)
      BY <1>11
    <2>2. x \in d[k] /\ x \notin d[k - 1] /\ f.rank = k - 1 /\ x \in all
      <3>1. d[k] \subseteq all
        BY <1>3
      <3>2. QED
        BY <1>12, <1>18, <2>1, <3>1
    <2>3. k - 1 \in 1..n /\ (k - 1) - 1 \in 0..n
      BY <1>18, <2>2
    <2>4. PICK y \in all : Beats(y, x) /\ y \notin d[(k - 1) - 1]
      BY <1>3, <2>2, <2>3
    <2>5. y \in d[k - 1]
      BY <1>3, <2>2, <2>4
    <2>6. F(k - 1) \in peel(all) /\ y \in F(k - 1).members /\ F(k - 1).rank = f.rank - 1
      BY <1>11, <1>12, <2>2, <2>3, <2>4, <2>5
    <2>7. QED
      BY <2>4, <2>6
  <1>19. QED
    BY <1>13, <1>14, <1>15, <1>16, <1>17, <1>18 DEF Layers

-----------------------------------------------------------------------------
(* Ranking.                                                                *)

BareOf(S) == {Bare(x) : x \in S}
IdsOf(S) == {x.id : x \in S}

LEMMA BareIsCandidate ==
  ASSUME NEW x \in Individuals
  PROVE  /\ Bare(x) \in Candidates
         /\ Bare(x).id = x.id /\ Bare(x).objectives = x.objectives /\ Bare(x).violation = x.violation
  BY DEF Bare, Individuals, Candidates

LEMMA BareSets ==
  ASSUME NEW S, IsFiniteSet(S), S \subseteq Individuals, Distinct(S)
  PROVE  IsFiniteSet(BareOf(S)) /\ BareOf(S) \subseteq Candidates /\ Distinct(BareOf(S))
  <1>1. \A x \in S : Bare(x) \in Candidates /\ Bare(x).id = x.id
    BY BareIsCandidate
  <1>2. BareOf(S) \subseteq Candidates /\ Distinct(BareOf(S))
    BY <1>1 DEF BareOf, Distinct
  <1>3. IsFiniteSet(BareOf(S))
    <2> DEFINE f == [x \in S |-> Bare(x)]
    <2>1. f \in [S -> BareOf(S)] /\ \A y \in BareOf(S) : \E x \in S : f[x] = y
      BY DEF BareOf
    <2> HIDE DEF f
    <2>2. f \in Surjection(S, BareOf(S))
      BY <2>1 DEF Surjection
    <2>3. QED
      BY <2>2, FS_Surjection
  <1>4. QED
    BY <1>2, <1>3

\* The rank and the distance are those that the ranking of all gives.
Placed(x, all) ==
  \E f \in peel(all) : /\ Bare(x) \in f.members
                       /\ x.rank = f.rank /\ x.crowding = assign_crowding(Bare(x), f.members)
AllPlaced(S) == \A x \in S : Placed(x, BareOf(S))

LEMMA SamePlace ==
  ASSUME RankingAssumption, Len(Directions) <= 2, NEW all, IsFiniteSet(all), all \subseteq Candidates,
         NEW x \in Individuals, NEW y \in Individuals, Bare(x) = Bare(y), Placed(x, all), Placed(y, all)
  PROVE  x = y
  <1>1. \A f, g \in peel(all) : \A c \in f.members : c \in g.members => f = g
    BY FrontsAreMade DEF Layers
  <1>2. PICK f \in peel(all) : /\ Bare(x) \in f.members
                               /\ x.rank = f.rank /\ x.crowding = assign_crowding(Bare(x), f.members)
    BY DEF Placed
  <1>3. PICK g \in peel(all) : /\ Bare(y) \in g.members
                               /\ y.rank = g.rank /\ y.crowding = assign_crowding(Bare(y), g.members)
    BY DEF Placed
  <1>4. f = g
    BY <1>1, <1>2, <1>3
  <1>5. x.rank = y.rank /\ x.crowding = y.crowding
    BY <1>2, <1>3, <1>4
  <1>6. x.id = y.id /\ x.objectives = y.objectives /\ x.violation = y.violation
    BY BareIsCandidate
  <1>7. QED
    BY <1>5, <1>6 DEF Individuals

LEMMA RankingPlaces ==
  ASSUME RankingAssumption, Len(Directions) <= 2, NEW S, IsFiniteSet(S), S \subseteq Individuals, Distinct(S)
  PROVE  /\ DOMAIN ranking(S) = S
         /\ \A x \in S : /\ ranking(S)[x] \in Individuals
                         /\ Bare(ranking(S)[x]) = Bare(x)
                         /\ Placed(ranking(S)[x], BareOf(S))
  <1> DEFINE fronts == peel(BareOf(S))
             FrontOf(x) == CHOOSE f \in fronts : Bare(x) \in f.members
             Ranked(x) == IF \E f \in fronts : Bare(x) \in f.members
                          THEN [x EXCEPT !.rank = FrontOf(x).rank, !.crowding = assign_crowding(Bare(x), FrontOf(x).members)]
                          ELSE x
  <1>1. ranking(S) = [x \in S |-> Ranked(x)]
    BY DEF ranking, BareOf
  <1>2. IsFiniteSet(BareOf(S)) /\ BareOf(S) \subseteq Candidates /\ Distinct(BareOf(S))
    BY BareSets
  <1>3. Layers(BareOf(S), fronts)
    BY <1>2, FrontsAreMade
  <1> HIDE DEF fronts
  <1>4. ASSUME NEW x \in S
        PROVE  Ranked(x) \in Individuals /\ Bare(Ranked(x)) = Bare(x) /\ Placed(Ranked(x), BareOf(S))
    <2>1. \E f \in fronts : Bare(x) \in f.members
      BY <1>3 DEF Layers, BareOf
    <2>2. FrontOf(x) \in fronts /\ Bare(x) \in FrontOf(x).members
      BY <2>1
    <2>3. PICK f : f = FrontOf(x)
      OBVIOUS
    <2>4. f \in fronts /\ Bare(x) \in f.members /\ f.rank \in Nat /\ f.members \subseteq BareOf(S)
      BY <1>3, <2>2, <2>3 DEF Layers
    <2>5. PICK c : c = assign_crowding(Bare(x), f.members)
      OBVIOUS
    <2>6. c \in Int
      <3>1. IsFiniteSet(f.members) /\ f.members \subseteq Candidates /\ Distinct(f.members)
        BY <1>2, <2>4, FS_Subset DEF Distinct
      <3>2. QED
        BY <2>4, <2>5, <3>1, CrowdingIsInt
    <2>7. PICK r : r = [x EXCEPT !.rank = f.rank, !.crowding = c]
      OBVIOUS
    <2>8. Ranked(x) = r
      BY <2>1, <2>3, <2>5, <2>7
    <2>9. r \in Individuals /\ r.rank = f.rank /\ r.crowding = c
          /\ r.id = x.id /\ r.objectives = x.objectives /\ r.violation = x.violation
      BY <2>4, <2>6, <2>7 DEF Individuals
    <2>10. Bare(r) = Bare(x)
      BY <2>9 DEF Bare
    <2>11. Placed(r, BareOf(S))
      BY <2>4, <2>5, <2>9, <2>10 DEF Placed, fronts
    <2>12. QED
      BY <2>8, <2>9, <2>10, <2>11
  <1> HIDE DEF Ranked
  <1>5. QED
    BY <1>1, <1>4

\* The same candidates at the same places of a sequence.
Alike(xs, ys) ==
  /\ ys \in Seq(Individuals) /\ Len(ys) = Len(xs)
  /\ \A i \in 1..Len(xs) : Bare(ys[i]) = Bare(xs[i])

LEMMA RangeOfSequence ==
  ASSUME NEW T, NEW xs \in Seq(T)
  PROVE  /\ Range(xs) = {xs[i] : i \in 1..Len(xs)} /\ Range(xs) \subseteq T /\ IsFiniteSet(Range(xs))
         /\ Cardinality(Range(xs)) <= Len(xs)
  <1>1. PICK n \in Nat : n = Len(xs)
    OBVIOUS
  <1>2. DOMAIN xs = 1..n /\ \A i \in 1..n : xs[i] \in T
    BY <1>1
  <1>3. Range(xs) = {xs[i] : i \in 1..n}
    BY <1>2 DEF Range
  <1>4. Range(xs) \subseteq T
    BY <1>2, <1>3
  <1>5. xs \in Surjection(1..n, Range(xs))
    <2>1. xs \in [1..n -> Range(xs)]
      BY <1>1, <1>3
    <2>2. \A y \in Range(xs) : \E i \in 1..n : xs[i] = y
      BY <1>3
    <2>3. QED
      BY <2>1, <2>2 DEF Surjection
  <1>6. IsFiniteSet(1..n) /\ Cardinality(1..n) = n
    BY FS_Interval
  <1>7. IsFiniteSet(Range(xs)) /\ Cardinality(Range(xs)) <= n
    BY <1>5, <1>6, FS_Surjection
  <1>8. QED
    BY <1>1, <1>3, <1>4, <1>7

LEMMA RangeOfLength ==
  ASSUME NEW T, NEW xs \in Seq(T), NEW n, n = Len(xs)
  PROVE  Range(xs) = {xs[i] : i \in 1..n}
  <1>1. Range(xs) = {xs[i] : i \in 1..Len(xs)}
    BY RangeOfSequence
  <1>2. QED
    BY <1>1, Zenon

LEMMA AlikeSets ==
  ASSUME NEW xs \in Seq(Individuals), NEW ys, Alike(xs, ys), Distinct(Range(xs))
  PROVE  BareOf(Range(ys)) = BareOf(Range(xs))
  <1>1. PICK n \in Nat : n = Len(xs)
    OBVIOUS
  <1>2. Range(xs) = {xs[i] : i \in 1..n} /\ Range(ys) = {ys[i] : i \in 1..n}
    BY <1>1, RangeOfSequence DEF Alike
  <1>3. \A i \in 1..n : Bare(ys[i]) = Bare(xs[i])
    BY <1>1 DEF Alike
  <1>4. QED
    BY <1>2, <1>3 DEF BareOf

LEMMA AlikeIds ==
  ASSUME NEW xs \in Seq(Individuals), NEW ys, Alike(xs, ys)
  PROVE  IdsOf(Range(ys)) = IdsOf(Range(xs))
  <1>1. PICK n \in Nat : n = Len(xs)
    OBVIOUS
  <1>2. Range(xs) = {xs[i] : i \in 1..n} /\ Range(ys) = {ys[i] : i \in 1..n}
    BY <1>1, RangeOfSequence DEF Alike
  <1>3. \A i \in 1..n : xs[i] \in Individuals /\ ys[i] \in Individuals /\ Bare(ys[i]) = Bare(xs[i])
    BY <1>1 DEF Alike
  <1>4. \A i \in 1..n : ys[i].id = xs[i].id
    <2>1. \A i \in 1..n : Bare(ys[i]).id = ys[i].id /\ Bare(xs[i]).id = xs[i].id
      BY <1>3, BareIsCandidate
    <2>2. QED
      BY <1>3, <2>1
  <1>5. QED
    BY <1>2, <1>4 DEF IdsOf

LEMMA AlikeOneEach ==
  ASSUME NEW xs \in Seq(Individuals), NEW ys, Alike(xs, ys), OneEach(xs)
  PROVE  OneEach(ys)
  <1>1. PICK n \in Nat : n = Len(xs)
    OBVIOUS
  <1>2. \A i \in 1..n : xs[i] \in Individuals /\ ys[i] \in Individuals /\ Bare(ys[i]) = Bare(xs[i])
    BY <1>1 DEF Alike
  <1>3. \A i \in 1..n : ys[i].id = xs[i].id
    <2>1. \A i \in 1..n : Bare(ys[i]).id = ys[i].id /\ Bare(xs[i]).id = xs[i].id
      BY <1>2, BareIsCandidate
    <2>2. QED
      BY <1>2, <2>1
  <1>4. QED
    BY <1>1, <1>3 DEF OneEach, Alike

\* Ranking keeps the candidates and places all of them.
LEMMA RankIndividuals ==
  ASSUME RankingAssumption, Len(Directions) <= 2, NEW xs \in Seq(Individuals), Distinct(Range(xs)),
         NEW ys, ys = rank_individuals(xs)
  PROVE  Alike(xs, ys) /\ Distinct(Range(ys)) /\ AllPlaced(Range(ys))
  <1>1. PICK n \in Nat : n = Len(xs)
    OBVIOUS
  <1>2. PICK S : S = Range(xs)
    OBVIOUS
  <1>3. IsFiniteSet(S) /\ S \subseteq Individuals /\ Distinct(S) /\ S = {xs[i] : i \in 1..n}
    BY <1>1, <1>2, RangeOfSequence
  <1>4. \A i \in 1..n : xs[i] \in S
    BY <1>3
  <1>5. ys = [i \in 1..n |-> ranking(S)[xs[i]]]
    BY <1>1, <1>2 DEF rank_individuals
  <1>6. \A i \in 1..n : ys[i] \in Individuals /\ Bare(ys[i]) = Bare(xs[i]) /\ Placed(ys[i], BareOf(S))
    BY <1>3, <1>4, <1>5, RankingPlaces
  <1>7. ys \in [1..n -> Individuals]
    BY <1>5, <1>6
  <1>8. ys \in Seq(Individuals) /\ Len(ys) = n
    BY <1>7
  <1>9. Alike(xs, ys)
    BY <1>1, <1>6, <1>8 DEF Alike
  <1>10. BareOf(Range(ys)) = BareOf(S)
    BY <1>2, <1>9, AlikeSets
  <1>11. Range(ys) = {ys[i] : i \in 1..n}
    BY <1>8, RangeOfSequence
  <1>12. AllPlaced(Range(ys))
    BY <1>6, <1>10, <1>11 DEF AllPlaced
  <1>13. Distinct(Range(ys))
    <2>1. SUFFICES ASSUME NEW i \in 1..n, NEW j \in 1..n, ys[i].id = ys[j].id PROVE ys[i] = ys[j]
      BY <1>11 DEF Distinct
    <2>2. xs[i].id = xs[j].id /\ xs[i] \in S /\ xs[j] \in S
      <3>1. xs[i] \in Individuals /\ xs[j] \in Individuals /\ ys[i] \in Individuals /\ ys[j] \in Individuals
        BY <1>3, <1>4, <1>6
      <3>2. xs[i].id = Bare(xs[i]).id /\ ys[i].id = Bare(ys[i]).id /\ xs[j].id = Bare(xs[j]).id /\ ys[j].id = Bare(ys[j]).id
        BY <3>1, BareIsCandidate
      <3>3. QED
        BY <1>4, <1>6, <2>1, <3>2
    <2>3. xs[i] = xs[j]
      BY <1>3, <2>2 DEF Distinct
    <2>4. QED
      BY <1>5, <2>3
  <1>14. QED
    BY <1>9, <1>12, <1>13

LEMMA LayeredRanks ==
  ASSUME RankingAssumption, Len(Directions) <= 2, NEW S, IsFiniteSet(S), S \subseteq Individuals, Distinct(S),
         AllPlaced(S)
  PROVE  /\ \A x, y \in S : Beats(y, x) => y.rank < x.rank
         /\ \A x \in S : x.rank # 0 => \E y \in S : Beats(y, x) /\ y.rank = x.rank - 1
         /\ \E n \in Nat : \A x \in S : x.rank \in 0..n
  <1>1. IsFiniteSet(BareOf(S)) /\ BareOf(S) \subseteq Candidates
    BY BareSets
  <1>2. PICK fronts : fronts = peel(BareOf(S))
    OBVIOUS
  <1>3. Layers(BareOf(S), fronts)
    BY <1>1, <1>2, FrontsAreMade
  <1>4. \A x \in S : Bare(x) \in BareOf(S) /\ \E f \in fronts : Bare(x) \in f.members /\ x.rank = f.rank
    BY <1>2 DEF AllPlaced, Placed, BareOf
  <1>5. \A b \in BareOf(S) : \E x \in S : b = Bare(x)
    BY DEF BareOf
  <1>6. ASSUME NEW x \in S, NEW f \in fronts, Bare(x) \in f.members PROVE x.rank = f.rank
    <2>1. PICK g \in fronts : Bare(x) \in g.members /\ x.rank = g.rank
      BY <1>4
    <2>2. f = g
      BY <1>3, <1>6, <2>1 DEF Layers
    <2>3. QED
      BY <2>1, <2>2
  <1>7. \A x, y \in S : Beats(Bare(y), Bare(x)) <=> Beats(y, x)
    <2>1. \A x \in S : Bare(x).objectives = x.objectives /\ Bare(x).violation = x.violation
      BY BareIsCandidate
    <2>2. \A x \in S : feasible(Bare(x)) <=> feasible(x)
      BY <2>1 DEF feasible
    <2>3. \A x \in S : \A k : transformed_objective(Bare(x), k) = transformed_objective(x, k)
      BY <2>1 DEF transformed_objective
    <2>4. QED
      BY ONLY <2>1, <2>2, <2>3 DEF Beats
  <1>8. ASSUME NEW x \in S, NEW y \in S, Beats(y, x) PROVE y.rank < x.rank
    <2>1. PICK f \in fronts : Bare(x) \in f.members /\ x.rank = f.rank
      BY <1>4
    <2>2. Beats(Bare(y), Bare(x)) /\ Bare(y) \in BareOf(S)
      BY <1>4, <1>7, <1>8
    <2>3. PICK g \in fronts : Bare(y) \in g.members /\ g.rank < f.rank
      BY <1>3, <2>1, <2>2 DEF Layers
    <2>4. y.rank = g.rank
      BY <1>6, <2>3
    <2>5. QED
      BY <2>1, <2>3, <2>4
  <1>9. ASSUME NEW x \in S, x.rank # 0 PROVE \E y \in S : Beats(y, x) /\ y.rank = x.rank - 1
    <2>1. PICK f \in fronts : Bare(x) \in f.members /\ x.rank = f.rank
      BY <1>4
    <2>2. PICK b \in BareOf(S) : Beats(b, Bare(x)) /\ \E g \in fronts : b \in g.members /\ g.rank = f.rank - 1
      BY <1>3, <1>9, <2>1 DEF Layers
    <2>3. PICK y \in S : b = Bare(y)
      BY <1>5
    <2>4. PICK g \in fronts : Bare(y) \in g.members /\ g.rank = f.rank - 1
      BY <2>2, <2>3
    <2>5. y.rank = g.rank
      BY <1>6, <2>4
    <2>6. Beats(y, x)
      BY <1>7, <2>2, <2>3
    <2>7. QED
      BY <2>1, <2>4, <2>5, <2>6
  <1>10. \E n \in Nat : \A x \in S : x.rank \in 0..n
    <2>1. PICK n \in Nat : n = Cardinality(BareOf(S))
      BY <1>1, FS_CardinalityType
    <2>2. \A f \in fronts : f.rank \in Nat /\ f.rank < n
      BY <1>3, <2>1 DEF Layers
    <2>3. \A x \in S : x.rank \in 0..n
      BY <1>4, <2>2
    <2>4. QED
      BY <2>3
  <1>11. QED
    BY <1>8, <1>9, <1>10

\* What FrontsAreLayers says of a population.
LayeredFronts(xs) ==
  /\ \A x \in Range(xs) :
        LET above == {y.rank : y \in {z \in Range(xs) : Beats(z, x)}}
        IN  x.rank = IF above = {} THEN 0 ELSE Max(above) + 1
  /\ 0..(study_result(xs).front_count - 1) = {x.rank : x \in Range(xs)}

LEMMA PlacedAreLayered ==
  ASSUME RankingAssumption, Len(Directions) <= 2, NEW xs \in Seq(Individuals), Distinct(Range(xs)), AllPlaced(Range(xs))
  PROVE  LayeredFronts(xs)
  <1>1. PICK S : S = Range(xs)
    OBVIOUS
  <1>2. IsFiniteSet(S) /\ S \subseteq Individuals /\ Distinct(S) /\ AllPlaced(S)
    BY <1>1, RangeOfSequence
  <1>3. /\ \A x, y \in S : Beats(y, x) => y.rank < x.rank
        /\ \A x \in S : x.rank # 0 => \E y \in S : Beats(y, x) /\ y.rank = x.rank - 1
        /\ \E n \in Nat : \A x \in S : x.rank \in 0..n
    BY <1>2, LayeredRanks
  <1>4. \A x \in S : x.rank \in Nat
    BY <1>2 DEF Individuals
  <1>5. ASSUME NEW x \in S, NEW above, above = {y.rank : y \in {z \in S : Beats(z, x)}}
        PROVE  x.rank = IF above = {} THEN 0 ELSE Max(above) + 1
    <2>1. CASE x.rank = 0
      <3>1. above = {}
        BY <1>3, <1>4, <1>5, <2>1
      <3>2. QED
        BY <2>1, <3>1
    <2>2. CASE x.rank # 0
      <3>1. x.rank - 1 \in above /\ x.rank - 1 \in Nat
        BY <1>3, <1>4, <1>5, <2>2
      <3>2. above \in SUBSET Nat /\ \A r \in above : r <= x.rank - 1
        BY <1>3, <1>4, <1>5
      <3>3. PICK m : m = Max(above)
        OBVIOUS
      <3>4. m \in above /\ \A r \in above : r <= m
        BY <3>1, <3>2, <3>3, GreatestExists
      <3>5. m = x.rank - 1
        BY <3>1, <3>2, <3>4
      <3>6. x.rank = m + 1
        BY <1>4, <3>5
      <3>7. QED
        BY <3>1, <3>3, <3>6
    <2>3. QED
      BY <2>1, <2>2
  <1> DEFINE ranks == {x.rank : x \in S}
  <1>6. CASE S = {}
    <2>1. xs = <<>>
      <3>1. PICK n \in Nat : n = Len(xs)
        OBVIOUS
      <3>2. S = {xs[i] : i \in 1..n}
        BY <1>1, <3>1, RangeOfSequence
      <3>3. 1 \notin 1..n
        BY <1>6, <3>2
      <3>4. n = 0
        BY <3>3
      <3>5. Len(xs) = 0
        BY <3>1, <3>4
      <3>6. QED
        BY <3>5, EmptySeq
    <2>2. study_result(xs).front_count = 0
      BY <2>1 DEF study_result
    <2>3. ranks = {} /\ 0..(0 - 1) = {}
      BY <1>6
    <2>4. QED
      BY <1>1, <1>5, <2>2, <2>3 DEF LayeredFronts
  <1>7. CASE S # {}
    <2>1. xs # <<>>
      BY <1>1, <1>7 DEF Range
    <2>2. PICK m : m = Max(ranks)
      OBVIOUS
    <2>3. study_result(xs).front_count = m + 1
      BY <1>1, <2>1, <2>2 DEF study_result
    <2>4. PICK n \in Nat : \A x \in S : x.rank \in 0..n
      BY <1>3
    <2>5. ranks \in SUBSET Nat /\ ranks # {} /\ \A r \in ranks : r <= n
      BY <1>4, <1>7, <2>4
    <2>6. m \in ranks /\ m \in Nat /\ \A r \in ranks : r <= m
      <3> HIDE DEF ranks
      <3>1. QED
        BY <2>2, <2>5, GreatestExists
    <2> DEFINE T == {k \in Nat : k <= m => m - k \in ranks}
    <2>7. 0 \in T
      BY <2>6
    <2>8. ASSUME NEW k \in Nat, k \in T PROVE k + 1 \in T
      <3>1. SUFFICES ASSUME k + 1 <= m PROVE m - (k + 1) \in ranks
        OBVIOUS
      <3>2. PICK x \in S : x.rank = m - k
        BY <2>6, <2>8, <3>1
      <3>3. x.rank # 0
        BY <2>6, <3>1, <3>2
      <3>4. PICK y \in S : y.rank = x.rank - 1
        BY <1>3, <3>3
      <3>5. y.rank = m - (k + 1)
        BY <2>6, <3>2, <3>4
      <3>6. QED
        BY <3>5
    <2>9. Nat \subseteq T
      <3> HIDE DEF T
      <3>1. QED
        BY <2>7, <2>8, CountingUp
    <2>10. ASSUME NEW r \in 0..m PROVE r \in ranks
      <3>1. m - r \in Nat /\ m - r <= m /\ m - (m - r) = r
        BY <2>6
      <3> HIDE DEF ranks
      <3>2. m - r \in T
        BY <2>9, <3>1
      <3>3. QED
        BY <3>1, <3>2
    <2>11. 0..((m + 1) - 1) = ranks
      <3> HIDE DEF ranks
      <3>1. (m + 1) - 1 = m
        BY <2>6
      <3>2. \A r \in ranks : r \in 0..m
        BY <2>5, <2>6
      <3>3. 0..m = ranks
        BY <2>10, <3>2
      <3>4. QED
        BY <3>1, <3>3
    <2>12. QED
      BY <1>1, <1>5, <2>3, <2>11 DEF LayeredFronts
  <1>8. QED
    BY <1>6, <1>7

-----------------------------------------------------------------------------
(* Selection and the archive.                                              *)

LEMMA RankedSet ==
  ASSUME RankingAssumption, Len(Directions) <= 2, NEW S, IsFiniteSet(S), S \subseteq Individuals, Distinct(S),
         NEW R, R = Range(ranking(S))
  PROVE  /\ IsFiniteSet(R) /\ R \subseteq Individuals /\ Distinct(R) /\ AllPlaced(R)
         /\ IdsOf(R) = IdsOf(S)
  <1> DEFINE g == [x \in S |-> ranking(S)[x]]
  <1>1. /\ DOMAIN ranking(S) = S
        /\ \A x \in S : /\ ranking(S)[x] \in Individuals
                        /\ Bare(ranking(S)[x]) = Bare(x)
                        /\ Placed(ranking(S)[x], BareOf(S))
    BY RankingPlaces
  <1>2. R = {ranking(S)[x] : x \in S}
    BY <1>1 DEF Range
  <1>3. /\ g \in [S -> R] /\ R = {g[x] : x \in S}
        /\ \A x \in S : g[x] \in Individuals /\ Bare(g[x]) = Bare(x) /\ Placed(g[x], BareOf(S))
    BY <1>1, <1>2
  <1> HIDE DEF g
  <1>4. g \in Surjection(S, R)
    BY <1>3 DEF Surjection
  <1>5. IsFiniteSet(R)
    BY <1>4, FS_Surjection
  <1>6. R \subseteq Individuals
    BY <1>3
  <1>7. \A x \in S : g[x].id = x.id
    <2>1. \A x \in S : Bare(g[x]).id = g[x].id /\ Bare(x).id = x.id
      BY <1>3, BareIsCandidate
    <2>2. QED
      BY <1>3, <2>1
  <1>8. Distinct(R) /\ IdsOf(R) = IdsOf(S)
    <2>1. IdsOf(R) = IdsOf(S)
      BY <1>3, <1>7 DEF IdsOf
    <2>2. SUFFICES ASSUME NEW x \in S, NEW y \in S, g[x].id = g[y].id PROVE g[x] = g[y]
      BY <1>3, <2>1 DEF Distinct
    <2>3. x = y
      BY <1>7, <2>2 DEF Distinct
    <2>4. QED
      BY <2>3
  <1>9. BareOf(R) = BareOf(S)
    <2>1. R = {g[x] : x \in S} /\ \A x \in S : Bare(g[x]) = Bare(x)
      BY <1>3
    <2>2. BareOf(R) = {Bare(g[x]) : x \in S}
      BY ONLY <2>1 DEF BareOf
    <2>3. QED
      BY ONLY <2>1, <2>2 DEF BareOf
  <1>10. AllPlaced(R)
    BY <1>3, <1>9 DEF AllPlaced
  <1>11. QED
    BY <1>5, <1>6, <1>8, <1>10

LEMMA Truncated ==
  ASSUME NEW T, NEW xs \in Seq(T), NEW n \in Nat
  PROVE  /\ Truncate(xs, n) \in Seq(T) /\ Len(Truncate(xs, n)) <= n
         /\ Range(Truncate(xs, n)) \subseteq Range(xs)
         /\ Len(xs) <= n => Truncate(xs, n) = xs
         /\ OneEach(xs) => OneEach(Truncate(xs, n))
  <1>1. PICK len \in Nat : len = Len(xs)
    OBVIOUS
  <1>2. PICK m \in Nat : m = IF len < n THEN len ELSE n
    BY <1>1
  <1>3. PICK ys : ys = SubSeq(xs, 1, m)
    OBVIOUS
  <1>4. Truncate(xs, n) = ys
    BY <1>1, <1>2, <1>3 DEF Truncate
  <1>5. m <= len /\ m <= n /\ 1 \in 1..(Len(xs) + 1) /\ m \in 0..Len(xs)
    BY <1>1, <1>2
  <1>6. ys \in Seq(T) /\ Len(ys) = m /\ \A i \in 1..m : ys[i] = xs[i]
    <2>1. \A i \in 1..m : xs[i] \in T
      BY <1>1, <1>5
    <2>2. /\ ys \in Seq(T) /\ Len(ys) = IF 1 <= m THEN m - 1 + 1 ELSE 0
          /\ \A i \in 1..(m - 1 + 1) : ys[i] = xs[1 + i - 1]
      BY <1>3, <2>1, SubSeqProperties
    <2>3. \A i \in 1..m : i \in 1..(m - 1 + 1) /\ 1 + i - 1 = i
      OBVIOUS
    <2>4. QED
      BY <2>2, <2>3
  <1>7. Range(ys) \subseteq Range(xs)
    <2>1. Range(ys) = {ys[i] : i \in 1..m} /\ Range(xs) = {xs[i] : i \in 1..len}
      BY <1>1, <1>6, RangeOfSequence
    <2>2. \A i \in 1..m : i \in 1..len
      BY <1>5
    <2>3. QED
      BY <1>6, <2>1, <2>2
  <1>8. len <= n => ys = xs
    <2>1. SUFFICES ASSUME len <= n PROVE ys = xs
      OBVIOUS
    <2>2. m = len
      BY <1>2, <2>1
    <2>3. \A i \in 1..len : ys[i] = xs[i]
      BY <1>6, <2>2
    <2>4. ys \in [1..len -> T] /\ xs \in [1..len -> T]
      BY <1>1, <1>6, <2>2
    <2>5. QED
      BY <2>3, <2>4
  <1>9. OneEach(xs) => OneEach(ys)
    BY <1>1, <1>5, <1>6 DEF OneEach
  <1>10. QED
    BY <1>1, <1>4, <1>5, <1>6, <1>7, <1>8, <1>9

LEMMA SurvivorsArePlaced ==
  ASSUME RankingAssumption, Len(Directions) <= 2, NEW combined \in Seq(Individuals), Distinct(Range(combined)),
         NEW ys, ys = Survivors(combined)
  PROVE  /\ ys \in Seq(Individuals) /\ Len(ys) <= PopulationSize
         /\ Distinct(Range(ys)) /\ AllPlaced(Range(ys)) /\ IdsOf(Range(ys)) \subseteq IdsOf(Range(combined))
         /\ OneEach(ys)
  <1>1. PICK S : S = Range(combined)
    OBVIOUS
  <1>2. IsFiniteSet(S) /\ S \subseteq Individuals /\ Distinct(S)
    BY <1>1, RangeOfSequence
  <1>3. PICK R : R = Range(ranking(S))
    OBVIOUS
  <1>4. IsFiniteSet(R) /\ R \subseteq Individuals /\ Distinct(R) /\ IdsOf(R) = IdsOf(S)
    BY <1>2, <1>3, RankedSet
  <1>5. PICK sel : sel = Selected(R)
    OBVIOUS
  <1>6. sel \in Seq(R) /\ Range(sel) = R /\ OneEach(sel)
    BY <1>4, <1>5, SelectedAreAll
  <1>7. PICK cutSel : cutSel = Truncate(sel, PopulationSize)
    OBVIOUS
  <1>8. PopulationSize \in Nat
    BY DEF RankingAssumption
  <1>9. cutSel \in Seq(R) /\ Len(cutSel) <= PopulationSize /\ Range(cutSel) \subseteq R /\ OneEach(cutSel)
    BY <1>6, <1>7, <1>8, Truncated
  <1>10. cutSel \in Seq(Individuals) /\ Distinct(Range(cutSel))
    <2>1. PICK n \in Nat : n = Len(cutSel)
      BY <1>9
    <2>2. cutSel \in [1..n -> R]
      BY <1>9, <2>1
    <2>3. cutSel \in [1..n -> Individuals]
      BY <1>4, <2>2
    <2>4. QED
      BY <1>4, <1>9, <2>3 DEF Distinct
  <1>11. ys = rank_individuals(cutSel)
    BY <1>1, <1>3, <1>5, <1>7 DEF Survivors
  <1>12. Alike(cutSel, ys) /\ Distinct(Range(ys)) /\ AllPlaced(Range(ys))
    BY <1>10, <1>11, RankIndividuals
  <1>13. ys \in Seq(Individuals) /\ Len(ys) <= PopulationSize
    BY <1>9, <1>12 DEF Alike
  <1>14. IdsOf(Range(ys)) = IdsOf(Range(cutSel))
    BY <1>10, <1>12, AlikeIds
  <1>15. IdsOf(Range(ys)) \subseteq IdsOf(S)
    BY <1>4, <1>9, <1>14 DEF IdsOf
  <1>16. OneEach(ys)
    BY <1>9, <1>10, <1>12, AlikeOneEach
  <1>17. QED
    BY <1>1, <1>12, <1>13, <1>15, <1>16

\* The archive's next members, of those it has and a population.
Pareto(S) == {x \in Range(ranking(S)) : feasible(x) /\ x.rank = 0}

\* The feasible candidates of the first front are none of the candidates or all that front.
LEMMA ParetoIsPlaced ==
  ASSUME RankingAssumption, Len(Directions) <= 2, NEW S, IsFiniteSet(S), S \subseteq Individuals, Distinct(S),
         NEW P, P = Pareto(S)
  PROVE  IsFiniteSet(P) /\ P \subseteq Individuals /\ Distinct(P) /\ AllPlaced(P) /\ IdsOf(P) \subseteq IdsOf(S)
  <1>1. PICK R : R = Range(ranking(S))
    OBVIOUS
  <1>2. IsFiniteSet(R) /\ R \subseteq Individuals /\ Distinct(R) /\ AllPlaced(R) /\ IdsOf(R) = IdsOf(S)
    BY <1>1, RankedSet
  <1>3. P = {x \in R : feasible(x) /\ x.rank = 0}
    BY <1>1 DEF Pareto
  <1>4. P \in SUBSET R
    BY <1>3
  <1>5. IsFiniteSet(P) /\ P \subseteq Individuals /\ Distinct(P)
    BY <1>2, <1>4, FS_Subset DEF Distinct
  <1>6. IdsOf(P) \subseteq IdsOf(S)
    BY <1>2, <1>4 DEF IdsOf
  <1>7. ASSUME NEW x \in P PROVE Placed(x, BareOf(P))
    <2>1. \A y, z \in R : Beats(z, y) => z.rank < y.rank
      BY <1>2, LayeredRanks
    <2>2. \A y \in R : y.rank \in Nat
      BY <1>2 DEF Individuals
    <2>3. IsFiniteSet(BareOf(R)) /\ BareOf(R) \subseteq Candidates
      BY <1>2, BareSets
    <2>4. Layers(BareOf(R), peel(BareOf(R)))
      BY <2>3, FrontsAreMade
    <2>5. x \in R /\ feasible(x) /\ x.rank = 0
      BY <1>3, <1>7
    <2>6. PICK f \in peel(BareOf(R)) : /\ Bare(x) \in f.members /\ x.rank = f.rank
                                       /\ x.crowding = assign_crowding(Bare(x), f.members)
      BY <1>2, <2>5 DEF AllPlaced, Placed
    <2>7. \A y \in R : \E g \in peel(BareOf(R)) : Bare(y) \in g.members /\ y.rank = g.rank
      BY <1>2 DEF AllPlaced, Placed
    <2>8. BareOf(P) \subseteq f.members
      <3>1. SUFFICES ASSUME NEW y \in P PROVE Bare(y) \in f.members
        BY DEF BareOf
      <3>2. PICK g \in peel(BareOf(R)) : Bare(y) \in g.members /\ y.rank = g.rank
        BY <1>4, <2>7, <3>1
      <3>3. g = f
        BY <1>3, <2>4, <2>5, <2>6, <3>1, <3>2 DEF Layers
      <3>4. QED
        BY <3>2, <3>3
    <2>9. f.members \subseteq BareOf(P)
      <3>1. SUFFICES ASSUME NEW b \in f.members PROVE b \in BareOf(P)
        OBVIOUS
      <3>2. b \in BareOf(R)
        BY <2>4, <2>6, <3>1 DEF Layers
      <3>3. PICK y \in R : b = Bare(y)
        BY <3>2 DEF BareOf
      <3>4. PICK g \in peel(BareOf(R)) : Bare(y) \in g.members /\ y.rank = g.rank
        BY <2>7
      <3>5. g = f
        BY <2>4, <2>6, <3>1, <3>3, <3>4 DEF Layers
      <3>6. y.rank = 0
        BY <2>5, <2>6, <3>4, <3>5
      <3>7. feasible(y)
        <4>1. SUFFICES ASSUME ~feasible(y) PROVE FALSE
          OBVIOUS
        <4>2. Beats(x, y)
          BY <2>5, <4>1 DEF Beats
        <4>3. QED
          BY <2>1, <2>2, <2>5, <3>6, <4>2
      <3>8. y \in P
        BY <1>3, <3>6, <3>7
      <3>9. QED
        BY <3>3, <3>8 DEF BareOf
    <2>10. BareOf(P) = f.members
      BY <2>8, <2>9
    <2>11. IsFiniteSet(BareOf(P)) /\ BareOf(P) \subseteq Candidates
      BY <1>5, BareSets
    <2>12. Layers(BareOf(P), peel(BareOf(P)))
      BY <2>11, FrontsAreMade
    <2>13. \A g \in peel(BareOf(P)) : \A b \in g.members : g.rank = 0
      <3>1. SUFFICES ASSUME NEW g \in peel(BareOf(P)), NEW b \in g.members, g.rank # 0 PROVE FALSE
        OBVIOUS
      <3>2. PICK c \in BareOf(P) : Beats(c, b)
        BY <2>12, <3>1 DEF Layers
      <3>3. b \in f.members /\ c \in f.members
        BY <2>10, <2>12, <3>1, <3>2 DEF Layers
      <3>4. c \in BareOf(R)
        BY <2>4, <2>6, <3>3 DEF Layers
      <3>5. PICK h \in peel(BareOf(R)) : c \in h.members /\ h.rank < f.rank
        BY <2>4, <3>2, <3>3, <3>4 DEF Layers
      <3>6. h.rank \in Nat
        BY <2>4 DEF Layers
      <3>7. QED
        BY <2>5, <2>6, <3>5, <3>6
    <2>14. Bare(x) \in BareOf(P)
      BY <1>7 DEF BareOf
    <2>15. PICK g \in peel(BareOf(P)) : Bare(x) \in g.members
      BY <2>12, <2>14 DEF Layers
    <2>16. g.rank = 0
      BY <2>13, <2>15
    <2>17. g.members = BareOf(P)
      <3>1. g.members \subseteq BareOf(P)
        BY <2>12 DEF Layers
      <3>2. ASSUME NEW b \in BareOf(P) PROVE b \in g.members
        <4>1. PICK h \in peel(BareOf(P)) : b \in h.members
          BY <2>12 DEF Layers
        <4>2. h.rank = g.rank
          BY <2>13, <2>16, <4>1
        <4>3. h = g
          BY <2>12, <4>2 DEF Layers
        <4>4. QED
          BY <4>1, <4>3
      <3>3. QED
        BY <3>1, <3>2
    <2>18. g.members = f.members
      BY <2>10, <2>17
    <2>19. x.rank = g.rank /\ x.crowding = assign_crowding(Bare(x), g.members)
      BY <2>5, <2>6, <2>16, <2>18
    <2>20. QED
      BY <2>15, <2>19 DEF Placed
  <1>8. AllPlaced(P)
    BY <1>7 DEF AllPlaced
  <1>9. QED
    BY <1>5, <1>6, <1>8

\* The candidates that the archive is chosen from.
Together(old, new) == Range(old) \cup {x \in Range(new) : x.id \notin {y.id : y \in Range(old)}}

LEMMA ArchiveIsPlaced ==
  ASSUME RankingAssumption, Len(Directions) <= 2, NEW old \in Seq(Individuals), Distinct(Range(old)),
         NEW new \in Seq(Individuals), Distinct(Range(new)), NEW h, h = Selected(Pareto(Together(old, new)))
  PROVE  /\ Truncate(h, ArchiveCapacity) \in Seq(Individuals) /\ Len(Truncate(h, ArchiveCapacity)) <= ArchiveCapacity
         /\ Distinct(Range(Truncate(h, ArchiveCapacity))) /\ OneEach(Truncate(h, ArchiveCapacity))
         /\ (Len(h) > ArchiveCapacity) \in BOOLEAN
         /\ Len(h) > ArchiveCapacity \/ AllPlaced(Range(Truncate(h, ArchiveCapacity)))
         /\ IdsOf(Range(Truncate(h, ArchiveCapacity))) \subseteq IdsOf(Range(old)) \cup IdsOf(Range(new))
  <1>1. PICK S : S = Together(old, new)
    OBVIOUS
  <1>2. /\ IsFiniteSet(Range(old)) /\ Range(old) \subseteq Individuals
        /\ IsFiniteSet(Range(new)) /\ Range(new) \subseteq Individuals
    BY RangeOfSequence
  <1>3. IsFiniteSet(S) /\ S \subseteq Individuals /\ Distinct(S)
    <2> DEFINE B == {x \in Range(new) : x.id \notin {y.id : y \in Range(old)}}
    <2>1. B \in SUBSET Range(new) /\ S = Range(old) \cup B
      BY <1>1 DEF Together
    <2>2. IsFiniteSet(B) /\ B \subseteq Individuals
      BY <1>2, <2>1, FS_Subset
    <2>3. \A x \in Range(old), y \in B : x.id # y.id
      OBVIOUS
    <2> HIDE DEF B
    <2>4. IsFiniteSet(S) /\ S \subseteq Individuals
      BY <1>2, <2>1, <2>2, FS_Union
    <2>5. \A x, y \in B : x.id = y.id => x = y
      BY <2>1 DEF Distinct
    <2>6. Distinct(S)
      BY <2>1, <2>3, <2>5 DEF Distinct
    <2>7. QED
      BY <2>4, <2>6
  <1>4. PICK P : P = Pareto(S)
    OBVIOUS
  <1>5. IsFiniteSet(P) /\ P \subseteq Individuals /\ Distinct(P) /\ AllPlaced(P) /\ IdsOf(P) \subseteq IdsOf(S)
    BY <1>3, <1>4, ParetoIsPlaced
  <1>6. h = Selected(P)
    BY <1>1, <1>4
  <1>7. h \in Seq(P) /\ Range(h) = P /\ OneEach(h)
    BY <1>5, <1>6, SelectedAreAll
  <1>8. PICK cutH : cutH = Truncate(h, ArchiveCapacity)
    OBVIOUS
  <1>9. PICK capacity \in Nat : capacity = ArchiveCapacity
    BY DEF RankingAssumption
  <1>10. /\ cutH \in Seq(P) /\ Len(cutH) <= capacity /\ Range(cutH) \subseteq P
         /\ Len(h) <= capacity => cutH = h
         /\ OneEach(cutH)
    BY <1>7, <1>8, <1>9, Truncated
  <1>11. cutH \in Seq(Individuals)
    <2>1. PICK n \in Nat : n = Len(cutH)
      BY <1>10
    <2>2. cutH \in [1..n -> P]
      BY <1>10, <2>1
    <2>3. cutH \in [1..n -> Individuals]
      BY <1>5, <2>2
    <2>4. QED
      BY <2>3
  <1>12. Distinct(Range(cutH))
    BY <1>5, <1>10 DEF Distinct
  <1>13. PICK len \in Nat : len = Len(h)
    BY <1>7
  <1>14. (len > capacity) \in BOOLEAN /\ (len > capacity \/ AllPlaced(Range(cutH)))
    BY <1>5, <1>7, <1>10, <1>13
  <1>15. IdsOf(Range(cutH)) \subseteq IdsOf(Range(old)) \cup IdsOf(Range(new))
    <2>1. IdsOf(S) \subseteq IdsOf(Range(old)) \cup IdsOf(Range(new))
      BY <1>1 DEF Together, IdsOf
    <2>2. IdsOf(Range(cutH)) \subseteq IdsOf(P)
      BY <1>10 DEF IdsOf
    <2>3. QED
      BY <1>5, <2>1, <2>2
  <1>16. QED
    BY <1>8, <1>9, <1>10, <1>11, <1>12, <1>13, <1>14, <1>15

-----------------------------------------------------------------------------
(* Checkpoints.                                                            *)

LEMMA CheckpointKeeps ==
  ASSUME NEW xs \in Seq(Individuals)
  PROVE  /\ Len(checkpoint_individuals(xs)) = Len(xs) /\ Ids(checkpoint_individuals(xs)) = IdsOf(Range(xs))
         /\ OneEach(xs) => ~DuplicateIdentifier(checkpoint_individuals(xs))
  <1>1. PICK n \in Nat : n = Len(xs)
    OBVIOUS
  <1>2. PICK c : c = checkpoint_individuals(xs)
    OBVIOUS
  <1>3. \A i \in 1..n : xs[i] \in Individuals
    BY <1>1
  <1>4. c = [i \in 1..n |-> Bare(xs[i])]
    BY <1>1, <1>2 DEF checkpoint_individuals
  <1>5. c \in [1..n -> Candidates] /\ \A i \in 1..n : c[i].id = xs[i].id
    BY <1>3, <1>4, BareIsCandidate
  <1>6. c \in Seq(Candidates) /\ Len(c) = n
    BY <1>5
  <1>7. Range(c) = {c[i] : i \in 1..n} /\ Range(xs) = {xs[i] : i \in 1..n}
    BY <1>1, <1>6, RangeOfSequence
  <1>8. Ids(c) = IdsOf(Range(xs))
    BY <1>5, <1>7 DEF Ids, IdsOf
  <1>9. OneEach(xs) => ~DuplicateIdentifier(c)
    <2>1. SUFFICES ASSUME OneEach(xs) PROVE IsInjective([i \in DOMAIN c |-> c[i].id])
      BY DEF DuplicateIdentifier
    <2>2. PICK ids : ids = [i \in 1..n |-> c[i].id]
      OBVIOUS
    <2>3. DOMAIN ids = 1..n /\ \A i \in 1..n : ids[i] = xs[i].id
      BY <1>5, <2>2
    <2>4. \A i, j \in DOMAIN ids : ids[i] = ids[j] => i = j
      BY <1>1, <2>1, <2>3 DEF OneEach
    <2>5. IsInjective(ids)
      BY <2>4 DEF IsInjective
    <2>6. QED
      BY <1>5, <2>2, <2>5
  <1>10. QED
    BY <1>1, <1>2, <1>6, <1>8, <1>9

\* What was ranked is restored as it was.
LEMMA Restored ==
  ASSUME RankingAssumption, Len(Directions) <= 2, NEW xs \in Seq(Individuals), Distinct(Range(xs)),
         NEW ys, ys = restore_individuals(checkpoint_individuals(xs))
  PROVE  /\ Alike(xs, ys) /\ Distinct(Range(ys)) /\ AllPlaced(Range(ys))
         /\ AllPlaced(Range(xs)) => ys = xs
  <1>1. PICK n \in Nat : n = Len(xs)
    OBVIOUS
  <1>2. \A i \in 1..n : xs[i] \in Individuals
    BY <1>1
  <1>3. PICK zs : zs = bind_individuals(checkpoint_individuals(xs))
    OBVIOUS
  <1>4. zs = [i \in 1..n |-> Bound(Bare(xs[i]))]
    BY <1>1, <1>3 DEF bind_individuals, checkpoint_individuals
  <1>5. ASSUME NEW x \in Individuals PROVE Bound(Bare(x)) \in Individuals /\ Bare(Bound(Bare(x))) = Bare(x)
    BY DEF Bound, Bare, Individuals, Unranked
  <1>6. zs \in [1..n -> Individuals] /\ \A i \in 1..n : Bare(zs[i]) = Bare(xs[i])
    BY <1>2, <1>4, <1>5
  <1>7. zs \in Seq(Individuals) /\ Len(zs) = n
    BY <1>6
  <1>8. Alike(xs, zs)
    BY <1>1, <1>6, <1>7 DEF Alike
  <1>9. Distinct(Range(zs))
    <2>1. Range(zs) = {zs[i] : i \in 1..n} /\ Range(xs) = {xs[i] : i \in 1..n}
      BY <1>1, <1>7, RangeOfSequence
    <2>2. SUFFICES ASSUME NEW i \in 1..n, NEW j \in 1..n, zs[i].id = zs[j].id PROVE zs[i] = zs[j]
      BY <2>1 DEF Distinct
    <2>3. \A k \in 1..n : Bare(zs[k]).id = zs[k].id /\ Bare(xs[k]).id = xs[k].id
      BY <1>2, <1>6, BareIsCandidate
    <2>4. xs[i].id = xs[j].id
      BY <1>6, <2>2, <2>3
    <2>5. xs[i] = xs[j]
      BY <2>1, <2>4 DEF Distinct
    <2>6. QED
      BY <1>4, <2>5
  <1>10. ys = rank_individuals(zs)
    BY <1>3 DEF restore_individuals
  <1>11. Alike(zs, ys) /\ Distinct(Range(ys)) /\ AllPlaced(Range(ys))
    BY <1>7, <1>9, <1>10, RankIndividuals
  <1>12. ys \in Seq(Individuals) /\ Len(ys) = n /\ \A i \in 1..n : Bare(ys[i]) = Bare(xs[i])
    BY <1>6, <1>7, <1>11 DEF Alike
  <1>13. Alike(xs, ys)
    BY <1>1, <1>12 DEF Alike
  <1>14. ASSUME AllPlaced(Range(xs)) PROVE ys = xs
    <2>1. PICK all : all = BareOf(Range(xs))
      OBVIOUS
    <2>2. IsFiniteSet(all) /\ all \subseteq Candidates
      BY <2>1, RangeOfSequence, BareSets
    <2>3. BareOf(Range(ys)) = all
      BY <1>13, <2>1, AlikeSets
    <2>4. Range(ys) = {ys[i] : i \in 1..n} /\ Range(xs) = {xs[i] : i \in 1..n}
      BY <1>1, <1>12, RangeOfSequence
    <2>5. \A i \in 1..n : Placed(xs[i], all) /\ Placed(ys[i], all)
      BY <1>11, <1>14, <2>1, <2>3, <2>4 DEF AllPlaced
    <2>6. \A i \in 1..n : ys[i] \in Individuals
      BY <1>12
    <2>7. \A i \in 1..n : ys[i] = xs[i]
      BY <1>2, <1>12, <2>2, <2>5, <2>6, SamePlace
    <2>8. ys \in [1..n -> Individuals] /\ xs \in [1..n -> Individuals]
      BY <1>1, <1>12
    <2>9. QED
      BY <2>7, <2>8
  <1>15. QED
    BY <1>11, <1>13, <1>14

-----------------------------------------------------------------------------
(* The invariant.  Every individual of the population has the rank and the *)
(* distance of a ranking of just the population, and so has every one of   *)
(* the archive, unless the archive was truncated after its ranking; nobody *)
(* has an identifier of another or one still to be given.                  *)

Bounded(xs, capacity) == xs \in Seq(Individuals) /\ Len(xs) <= capacity /\ Distinct(Range(xs)) /\ OneEach(xs)
Numbered(members, asked, next) ==
  /\ asked \in Seq(Nat) /\ IsInjective(asked) /\ next \in Nat
  /\ \A id \in members \cup Range(asked) : id < next
RankingInvariant ==
  /\ Bounded(population, PopulationSize) /\ AllPlaced(Range(population))
  /\ Bounded(archive, ArchiveCapacity) /\ cut \in BOOLEAN /\ (cut \/ AllPlaced(Range(archive)))
  /\ Numbered(IdsOf(Range(population)) \cup IdsOf(Range(archive)), pending, next_candidate_id)
  /\ Range(pending) \cap IdsOf(Range(population)) = {}
  /\ generation \in Nat /\ evaluation_count \in Nat

LEMMA NobodyYet ==
  ASSUME NEW xs, xs = <<>>
  PROVE  /\ xs \in Seq(Individuals) /\ xs \in Seq(Nat) /\ Len(xs) = 0 /\ Range(xs) = {} /\ IsInjective(xs)
         /\ Distinct(Range(xs)) /\ AllPlaced(Range(xs)) /\ IdsOf(Range(xs)) = {} /\ OneEach(xs)
  <1>1. xs \in Seq(Individuals) /\ xs \in Seq(Nat) /\ Len(xs) = 0
    BY EmptySeq
  <1>2. DOMAIN xs = {}
    OBVIOUS
  <1>3. Range(xs) = {} /\ IsInjective(xs)
    BY <1>2 DEF Range, IsInjective
  <1>4. QED
    BY <1>1, <1>3 DEF Distinct, AllPlaced, IdsOf, OneEach

LEMMA InitRanking ==
  ASSUME RankingAssumption, RankingInit
  PROVE  RankingInvariant
  <1>1. /\ population = <<>> /\ archive = <<>> /\ pending = <<>>
        /\ next_candidate_id = 1 /\ generation = 0 /\ evaluation_count = 0 /\ cut = FALSE
    BY DEF RankingInit
  <1>2. PopulationSize \in Nat /\ ArchiveCapacity \in Nat
    BY DEF RankingAssumption
  <1>3. Bounded(population, PopulationSize) /\ AllPlaced(Range(population)) /\ Range(population) = {}
    BY <1>1, <1>2, NobodyYet DEF Bounded
  <1>4. Bounded(archive, ArchiveCapacity) /\ AllPlaced(Range(archive)) /\ Range(archive) = {}
    BY <1>1, <1>2, NobodyYet DEF Bounded
  <1>5. pending \in Seq(Nat) /\ IsInjective(pending) /\ Range(pending) = {}
    BY <1>1, NobodyYet
  <1>6. IdsOf(Range(population)) = {} /\ IdsOf(Range(archive)) = {}
    BY <1>3, <1>4 DEF IdsOf
  <1>7. QED
    BY <1>1, <1>3, <1>4, <1>5, <1>6 DEF RankingInvariant, Numbered

\* The next n candidates have the next n identifiers.
LEMMA NextCandidates ==
  ASSUME NEW n \in Nat, NEW next \in Nat, NEW p, p = [i \in 1..n |-> next + i - 1]
  PROVE  p \in Seq(Nat) /\ Len(p) = n /\ IsInjective(p) /\ \A id \in Range(p) : next <= id /\ id < next + n
  <1>1. p \in [1..n -> Nat] /\ \A i \in 1..n : p[i] = next + i - 1
    OBVIOUS
  <1>2. p \in Seq(Nat) /\ Len(p) = n
    BY <1>1
  <1>3. Range(p) = {p[i] : i \in 1..n}
    BY ONLY <1>2, RangeOfLength
  <1>4. IsInjective(p)
    BY <1>1 DEF IsInjective
  <1>5. QED
    BY <1>1, <1>2, <1>3, <1>4

LEMMA AskPreserves ==
  ASSUME RankingAssumption, RankingInvariant, ask
  PROVE  RankingInvariant'
  <1>1. UNCHANGED <<population, archive, generation, evaluation_count, cut>>
    BY DEF ask
  <1>2. PICK n \in Nat : pending' = [i \in 1..n |-> next_candidate_id + i - 1]
    <2>1. PopulationSize \in Nat /\ OffspringSize \in Nat
      BY DEF RankingAssumption
    <2>2. pending' = IF population = <<>> THEN stratified_initial_population ELSE generate_offspring
      BY DEF ask
    <2>3. QED
      BY <2>1, <2>2 DEF stratified_initial_population, generate_offspring, next_candidate
  <1>3. next_candidate_id \in Nat
    BY DEF RankingInvariant, Numbered
  <1>4. /\ pending' \in Seq(Nat) /\ Len(pending') = n /\ IsInjective(pending')
        /\ \A id \in Range(pending') : next_candidate_id <= id /\ id < next_candidate_id + n
    BY <1>2, <1>3, NextCandidates
  <1>5. next_candidate_id' = next_candidate_id + n
    BY <1>4 DEF ask
  <1>6. PICK members : members = IdsOf(Range(population)) \cup IdsOf(Range(archive))
    OBVIOUS
  <1>7. members \subseteq Nat /\ \A id \in members : id < next_candidate_id
    <2>1. Range(population) \subseteq Individuals /\ Range(archive) \subseteq Individuals
      BY RangeOfSequence DEF RankingInvariant, Bounded
    <2>2. members \subseteq Nat
      BY <1>6, <2>1 DEF IdsOf, Individuals
    <2>3. QED
      BY <1>6, <2>2 DEF RankingInvariant, Numbered
  <1>8. \A id \in members \cup Range(pending') : id < next_candidate_id'
    BY <1>3, <1>4, <1>5, <1>7
  <1>9. Numbered(members, pending', next_candidate_id')
    BY <1>3, <1>4, <1>5, <1>8 DEF Numbered
  <1>10. Range(pending') \cap members = {}
    <2>1. SUFFICES ASSUME NEW id \in Range(pending'), id \in members PROVE FALSE
      OBVIOUS
    <2>2. id \in Nat /\ id < next_candidate_id
      BY <1>7, <2>1
    <2>3. next_candidate_id <= id
      BY <1>4, <2>1
    <2>4. QED
      BY <1>3, <2>2, <2>3
  <1>11. Range(pending') \cap IdsOf(Range(population)) = {}
    BY <1>6, <1>10
  <1>12. QED
    BY <1>1, <1>6, <1>9, <1>11 DEF RankingInvariant

LEMMA IdsInOrder ==
  ASSUME NEW xs \in Seq(Individuals), NEW ids \in Seq(Nat), NEW n \in Nat, n = Len(xs), n = Len(ids), IsInjective(ids),
         \A i \in 1..n : xs[i].id = ids[i]
  PROVE  IdsOf(Range(xs)) = Range(ids) /\ Distinct(Range(xs))
  <1>1. Range(xs) = {xs[i] : i \in 1..n} /\ Range(ids) = {ids[i] : i \in 1..n}
    BY RangeOfLength
  <1>2. IdsOf(Range(xs)) = Range(ids)
    BY <1>1 DEF IdsOf
  <1>3. Distinct(Range(xs))
    <2>1. SUFFICES ASSUME NEW i \in 1..n, NEW j \in 1..n, xs[i].id = xs[j].id PROVE xs[i] = xs[j]
      BY <1>1 DEF Distinct
    <2>2. i = j
      BY <2>1 DEF IsInjective
    <2>3. QED
      BY <2>2
  <1>4. QED
    BY <1>2, <1>3

\* The told candidates are individuals with the identifiers that were asked.
LEMMA ToldAreAsked ==
  ASSUME RankingAssumption, NEW asked \in Seq(Nat), IsInjective(asked), NEW results \in [DOMAIN asked -> Evaluations],
         NEW told, told = bind_individuals([i \in DOMAIN asked |->
                     [id |-> asked[i], objectives |-> results[i].objectives, violation |-> results[i].violation]])
  PROVE  told \in Seq(Individuals) /\ Distinct(Range(told)) /\ IdsOf(Range(told)) = Range(asked)
  <1>1. PICK n \in Nat : n = Len(asked)
    OBVIOUS
  <1>2. DOMAIN asked = 1..n /\ \A i \in 1..n : asked[i] \in Nat
    BY <1>1
  <1>3. \A i \in 1..n : results[i].objectives \in [Objectives -> Int] /\ results[i].violation \in Int
    BY <1>2 DEF RankingAssumption, Objectives
  <1>4. told = [i \in 1..n |-> [id |-> asked[i], objectives |-> results[i].objectives,
                                violation |-> results[i].violation, rank |-> Unranked, crowding |-> 0]]
    BY <1>2 DEF bind_individuals, Bound
  <1>5. told \in [1..n -> Individuals] /\ \A i \in 1..n : told[i].id = asked[i]
    <2>1. \A i \in 1..n : told[i] \in Individuals /\ told[i].id = asked[i]
      <3>1. SUFFICES ASSUME NEW i \in 1..n PROVE told[i] \in Individuals /\ told[i].id = asked[i]
        OBVIOUS
      <3>2. told[i] = [id |-> asked[i], objectives |-> results[i].objectives,
                       violation |-> results[i].violation, rank |-> Unranked, crowding |-> 0]
        BY <1>4
      <3>3. asked[i] \in Nat /\ results[i].objectives \in [Objectives -> Int] /\ results[i].violation \in Int
        BY <1>2, <1>3
      <3>4. PICK o \in [Objectives -> Int] : o = results[i].objectives
        BY <3>3
      <3>5. PICK v \in Int : v = results[i].violation
        BY <3>3
      <3>6. told[i] = [id |-> asked[i], objectives |-> o, violation |-> v, rank |-> 1000, crowding |-> 0]
        BY <3>2, <3>4, <3>5 DEF Unranked
      <3>7. [id |-> asked[i], objectives |-> o, violation |-> v, rank |-> 1000, crowding |-> 0] \in Individuals
        BY <3>3 DEF Individuals
      <3>8. QED
        BY <3>6, <3>7
    <2>2. QED
      BY <1>4, <2>1
  <1>6. told \in Seq(Individuals) /\ Len(told) = n
    BY <1>5
  <1>7. IdsOf(Range(told)) = Range(asked) /\ Distinct(Range(told))
    <2>1. asked \in Seq(Nat) /\ n = Len(told) /\ n = Len(asked)
      BY <1>1, <1>6
    <2>2. QED
      BY <1>5, <1>6, <2>1, IdsInOrder
  <1>8. QED
    BY <1>6, <1>7

LEMMA JoinedRange ==
  ASSUME NEW T, NEW xs \in Seq(T), NEW ys \in Seq(T)
  PROVE  xs \o ys \in Seq(T) /\ Range(xs \o ys) = Range(xs) \cup Range(ys)
  <1>1. PICK m \in Nat : m = Len(xs)
    OBVIOUS
  <1>2. PICK n \in Nat : n = Len(ys)
    OBVIOUS
  <1>3. PICK zs : zs = xs \o ys
    OBVIOUS
  <1>4. zs \in Seq(T) /\ Len(zs) = m + n /\ \A i \in 1..(m + n) : zs[i] = IF i <= m THEN xs[i] ELSE ys[i - m]
    BY <1>1, <1>2, <1>3
  <1>5. Range(xs) = {xs[i] : i \in 1..m} /\ Range(ys) = {ys[i] : i \in 1..n} /\ Range(zs) = {zs[i] : i \in 1..(m + n)}
    BY <1>1, <1>2, <1>4, RangeOfSequence
  <1>6. \A i \in 1..(m + n) : zs[i] \in Range(xs) \cup Range(ys)
    <2>1. SUFFICES ASSUME NEW i \in 1..(m + n) PROVE zs[i] \in Range(xs) \cup Range(ys)
      OBVIOUS
    <2>2. CASE i <= m
      BY <1>4, <1>5, <2>2
    <2>3. CASE ~(i <= m)
      <3>1. i - m \in 1..n /\ zs[i] = ys[i - m]
        BY <1>4, <2>3
      <3>2. QED
        BY <1>5, <3>1
    <2>4. QED
      BY <2>2, <2>3
  <1>7. \A i \in 1..m : xs[i] \in Range(zs)
    <2>1. \A i \in 1..m : i \in 1..(m + n) /\ zs[i] = xs[i]
      BY <1>4
    <2>2. QED
      BY <1>5, <2>1
  <1>8. \A i \in 1..n : ys[i] \in Range(zs)
    <2>1. \A i \in 1..n : m + i \in 1..(m + n) /\ ~(m + i <= m) /\ (m + i) - m = i
      OBVIOUS
    <2>2. \A i \in 1..n : zs[m + i] = ys[i]
      BY <1>4, <2>1
    <2>3. QED
      BY <1>5, <2>1, <2>2
  <1>9. Range(zs) = Range(xs) \cup Range(ys)
    BY <1>5, <1>6, <1>7, <1>8
  <1>10. QED
    BY <1>3, <1>4, <1>9

LEMMA TellPreserves ==
  ASSUME RankingAssumption, Len(Directions) <= 2, RankingInvariant, tell
  PROVE  RankingInvariant'
  <1> DEFINE Told(results) == bind_individuals([i \in DOMAIN pending |->
               [id |-> pending[i], objectives |-> results[i].objectives, violation |-> results[i].violation]])
  <1>1. /\ population \in Seq(Individuals) /\ Distinct(Range(population))
        /\ archive \in Seq(Individuals) /\ Len(archive) <= ArchiveCapacity /\ Distinct(Range(archive))
        /\ pending \in Seq(Nat) /\ IsInjective(pending) /\ next_candidate_id \in Nat
        /\ Range(pending) \cap IdsOf(Range(population)) = {}
        /\ \A id \in (IdsOf(Range(population)) \cup IdsOf(Range(archive))) \cup Range(pending) : id < next_candidate_id
        /\ generation \in Nat /\ evaluation_count \in Nat
    BY DEF RankingInvariant, Bounded, Numbered
  <1>2. PICK results \in [DOMAIN pending -> Evaluations] :
          population' = Survivors(population \o Told(results)) /\ update_archive(population')
    BY DEF tell
  <1>3. PICK told : told = Told(results)
    OBVIOUS
  <1>4. told \in Seq(Individuals) /\ Distinct(Range(told)) /\ IdsOf(Range(told)) = Range(pending)
    BY <1>1, <1>3, ToldAreAsked
  <1>5. population' = Survivors(population \o told)
    BY <1>2, <1>3
  <1> HIDE DEF Told
  <1>6. PICK combined : combined = population \o told
    OBVIOUS
  <1>7. combined \in Seq(Individuals) /\ Range(combined) = Range(population) \cup Range(told)
    BY <1>1, <1>4, <1>6, JoinedRange
  <1>8. Distinct(Range(combined))
    <2>1. \A x \in Range(population), y \in Range(told) : x.id # y.id
      BY <1>1, <1>4 DEF IdsOf
    <2>2. QED
      BY <1>1, <1>4, <1>7, <2>1 DEF Distinct
  <1>9. /\ population' \in Seq(Individuals) /\ Len(population') <= PopulationSize
        /\ Distinct(Range(population')) /\ AllPlaced(Range(population'))
        /\ IdsOf(Range(population')) \subseteq IdsOf(Range(combined)) /\ OneEach(population')
    BY <1>5, <1>6, <1>7, <1>8, SurvivorsArePlaced
  <1>10. IdsOf(Range(population')) \subseteq IdsOf(Range(population)) \cup Range(pending)
    <2>1. IdsOf(Range(combined)) = IdsOf(Range(population)) \cup IdsOf(Range(told))
      BY <1>7 DEF IdsOf
    <2>2. QED
      BY <1>4, <1>9, <2>1
  <1>11. PICK h : /\ h = Selected(Pareto(Together(archive, population')))
                  /\ archive' = Truncate(h, ArchiveCapacity) /\ cut' = (Len(h) > ArchiveCapacity)
    BY <1>2 DEF update_archive, Historical, Pareto, Together
  <1>12. /\ archive' \in Seq(Individuals) /\ Len(archive') <= ArchiveCapacity /\ Distinct(Range(archive'))
         /\ cut' \in BOOLEAN /\ (cut' \/ AllPlaced(Range(archive'))) /\ OneEach(archive')
         /\ IdsOf(Range(archive')) \subseteq IdsOf(Range(archive)) \cup IdsOf(Range(population'))
    BY <1>1, <1>9, <1>11, ArchiveIsPlaced
  <1>13. /\ pending' = <<>> /\ next_candidate_id' = next_candidate_id
         /\ evaluation_count' = evaluation_count + Len(pending) /\ generation' = generation + 1
    BY DEF tell
  <1>14. pending' \in Seq(Nat) /\ IsInjective(pending') /\ Range(pending') = {}
    BY <1>13, NobodyYet
  <1>15. Bounded(population', PopulationSize) /\ Bounded(archive', ArchiveCapacity)
    BY <1>9, <1>12 DEF Bounded
  <1>16. \A id \in (IdsOf(Range(population')) \cup IdsOf(Range(archive'))) \cup Range(pending') : id < next_candidate_id'
    BY <1>1, <1>10, <1>12, <1>13, <1>14
  <1>17. Numbered(IdsOf(Range(population')) \cup IdsOf(Range(archive')), pending', next_candidate_id')
    BY <1>1, <1>13, <1>14, <1>16 DEF Numbered
  <1>18. generation' \in Nat /\ evaluation_count' \in Nat
    BY <1>1, <1>13
  <1>19. QED
    BY <1>9, <1>12, <1>14, <1>15, <1>17, <1>18 DEF RankingInvariant

LEMMA RestorePreserves ==
  ASSUME RankingAssumption, Len(Directions) <= 2, RankingInvariant, from_checkpoint
  PROVE  RankingInvariant'
  <1>1. /\ population \in Seq(Individuals) /\ Distinct(Range(population)) /\ AllPlaced(Range(population))
        /\ archive \in Seq(Individuals) /\ Len(archive) <= ArchiveCapacity /\ Distinct(Range(archive))
        /\ OneEach(archive)
    BY DEF RankingInvariant, Bounded
  <1>2. /\ population' = restore_individuals(checkpoint_individuals(population))
        /\ archive' = restore_individuals(checkpoint_individuals(archive))
        /\ UNCHANGED <<pending, next_candidate_id, generation, evaluation_count, cut>>
    BY DEF from_checkpoint, checkpoint
  <1>3. population' = population
    BY <1>1, <1>2, Restored
  <1>4. Alike(archive, archive') /\ Distinct(Range(archive')) /\ AllPlaced(Range(archive'))
    BY <1>1, <1>2, Restored
  <1>5. IdsOf(Range(archive')) = IdsOf(Range(archive))
    BY <1>1, <1>4, AlikeIds
  <1>6. Bounded(archive', ArchiveCapacity)
    BY <1>1, <1>4, AlikeOneEach DEF Alike, Bounded
  <1>7. QED
    BY <1>2, <1>3, <1>4, <1>5, <1>6 DEF RankingInvariant

\* However often the optimizer goes round and is restored, every individual of its
\* population has the rank and the crowding distance that the ranking of just this
\* population gives, and so has every one of its archive if that was not cut; neither
\* is larger than it may be, nobody has the identifier of another, and no candidate
\* that is asked for has the identifier of one that was there before.
THEOREM RankingInvariantHolds ==
  ASSUME RankingAssumption, Len(Directions) <= 2
  PROVE  RankingSpec => []RankingInvariant
  <1>1. RankingInit => RankingInvariant
    BY InitRanking
  <1>2. RankingInvariant /\ [RankingNext]_rankingVars => RankingInvariant'
    <2>1. SUFFICES ASSUME RankingInvariant, [RankingNext]_rankingVars PROVE RankingInvariant'
      OBVIOUS
    <2>2. CASE ask
      BY <2>1, <2>2, AskPreserves
    <2>3. CASE tell
      BY <2>1, <2>3, TellPreserves
    <2>4. CASE from_checkpoint
      BY <2>1, <2>4, RestorePreserves
    <2>5. CASE UNCHANGED rankingVars
      BY <2>1, <2>5 DEF RankingInvariant, rankingVars
    <2>6. QED
      BY <2>1, <2>2, <2>3, <2>4, <2>5 DEF RankingNext
  <1>3. QED
    BY <1>1, <1>2, PTL DEF RankingSpec

\* With one or two objectives domination goes round in no circle, in spite of the
\* tolerance, and every survivor is in the front after the last one that holds a
\* survivor beating it; no front is empty.
THEOREM FrontsAreFronts ==
  ASSUME RankingAssumption, Len(Directions) <= 2
  PROVE  RankingSpec => []FrontsAreLayers
  <1>1. RankingInvariant => FrontsAreLayers
    <2>1. SUFFICES ASSUME RankingInvariant PROVE FrontsAreLayers
      OBVIOUS
    <2>2. population \in Seq(Individuals) /\ Distinct(Range(population)) /\ AllPlaced(Range(population))
      BY <2>1 DEF RankingInvariant, Bounded
    <2>3. LayeredFronts(population)
      BY <2>2, PlacedAreLayered
    <2>4. QED
      BY <2>3 DEF LayeredFronts, FrontsAreLayers
  <1>2. QED
    BY <1>1, RankingInvariantHolds, PTL

\* A checkpoint that the optimizer takes is accepted, and the optimizer that goes on
\* from it has the ranks and the distances of the one that took it.
THEOREM RestoringIsFaithful ==
  ASSUME RankingAssumption, Len(Directions) <= 2
  PROVE  RankingSpec => []RestoredIsTheSame
  <1>1. RankingInvariant => RestoredIsTheSame
    <2>1. SUFFICES ASSUME RankingInvariant PROVE RestoredIsTheSame
      OBVIOUS
    <2>2. /\ population \in Seq(Individuals) /\ Len(population) <= PopulationSize
          /\ Distinct(Range(population)) /\ AllPlaced(Range(population))
          /\ archive \in Seq(Individuals) /\ Len(archive) <= ArchiveCapacity
          /\ Distinct(Range(archive)) /\ (cut \/ AllPlaced(Range(archive)))
          /\ cut \in BOOLEAN /\ OneEach(population) /\ OneEach(archive)
      BY <2>1 DEF RankingInvariant, Bounded
    <2>3. checkpoint.population = checkpoint_individuals(population)
          /\ checkpoint.archive = checkpoint_individuals(archive)
          /\ checkpoint.pending = pending /\ checkpoint.next_candidate_id = next_candidate_id
      BY DEF checkpoint
    <2>4. restore_individuals(checkpoint.population) = population
      BY <2>2, <2>3, Restored
    <2>5. cut \/ restore_individuals(checkpoint.archive) = archive
      BY <2>2, <2>3, Restored
    <2>6. ~InvalidCheckpoint(checkpoint)
      <3>1. /\ Len(checkpoint.population) = Len(population) /\ Ids(checkpoint.population) = IdsOf(Range(population))
            /\ Len(checkpoint.archive) = Len(archive) /\ Ids(checkpoint.archive) = IdsOf(Range(archive))
            /\ ~DuplicateIdentifier(checkpoint.population) /\ ~DuplicateIdentifier(checkpoint.archive)
        BY <2>2, <2>3, CheckpointKeeps
      <3>2. /\ IsInjective(pending) /\ Range(pending) \cap IdsOf(Range(population)) = {}
            /\ next_candidate_id \in Nat
            /\ \A id \in (IdsOf(Range(population)) \cup IdsOf(Range(archive))) \cup Range(pending) : id < next_candidate_id
        BY <2>1 DEF RankingInvariant, Numbered
      <3>3. (IdsOf(Range(population)) \cup IdsOf(Range(archive))) \cup Range(pending) \subseteq Nat
        <4>1. Range(population) \subseteq Individuals /\ Range(archive) \subseteq Individuals
          BY <2>2, RangeOfSequence
        <4>2. pending \in Seq(Nat)
          BY <2>1 DEF RankingInvariant, Numbered
        <4>3. Range(pending) \subseteq Nat
          BY <4>2, RangeOfSequence
        <4>4. QED
          BY <4>1, <4>3 DEF IdsOf, Individuals
      <3>4. PICK p \in Nat : p = Len(population)
        BY <2>2
      <3>5. PICK a \in Nat : a = Len(archive)
        BY <2>2
      <3>6. ~(p > PopulationSize) /\ ~(a > ArchiveCapacity)
        BY <2>2, <3>4, <3>5 DEF RankingAssumption
      <3>7. \A id \in (IdsOf(Range(population)) \cup IdsOf(Range(archive))) \cup Range(pending) : ~(next_candidate_id <= id)
        BY <3>2, <3>3
      <3>8. QED
        BY <2>3, <3>1, <3>2, <3>4, <3>5, <3>6, <3>7 DEF InvalidCheckpoint
    <2>7. QED
      BY <2>4, <2>5, <2>6 DEF RestoredIsTheSame
  <1>2. QED
    BY <1>1, RankingInvariantHolds, PTL

=============================================================================
