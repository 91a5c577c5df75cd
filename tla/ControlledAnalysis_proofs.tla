---------------------- MODULE ControlledAnalysis_proofs ----------------------
(***************************************************************************)
(* What the watched and cancelled analyses promise, for any number of jobs, *)
(* sensors, chunks and cached matrices.                                     *)
(*                                                                          *)
(* The argument.  The step sequence of every analysis is regular: no chunk  *)
(* without a look at the flag right before it, and between looking a matrix *)
(* up and inserting it exactly as many chunks as a hit counts at once.      *)
(* What is left of a regular sequence is regular, and what was done plus    *)
(* the chunks that are left is what was announced.                          *)
(***************************************************************************)
EXTENDS ControlledAnalysis, FiniteSetTheorems, SequenceTheorems,
        WellFoundedInduction, TLAPS

Ops == {"total", "zero", "scene", "check", "work", "find", "insert"}

-----------------------------------------------------------------------------
(* Loops: n rounds of the same steps.                                       *)

LEMMA Rounds ==
  ASSUME NEW a \in Nat, NEW l \in Nat \ {0}
  PROVE  /\ a % l \in 0..(l - 1) /\ a \div l \in Nat
         /\ a = (a \div l) * l + (a % l)
  <1>1. a % l \in 0..(l - 1)
    OBVIOUS
  <1>2. a \div l \in Nat
    OBVIOUS
  <1>3. a = (a \div l) * l + (a % l)
    OBVIOUS
  <1>4. QED
    BY <1>1, <1>2, <1>3

LEMMA OneRound ==
  ASSUME NEW l \in Nat \ {0}, NEW q \in Nat, NEW r \in 0..(l - 1)
  PROVE  (q * l + r) % l = r /\ (q * l + r) \div l = q
  <1>1. (q * l + r) % l = r
    OBVIOUS
  <1>2. (q * l + r) \div l = q
    OBVIOUS
  <1>3. QED
    BY <1>1, <1>2

\* The step before another one of the same round.
LEMMA StepBefore ==
  ASSUME NEW l \in Nat \ {0}, NEW a \in Nat, a % l # 0
  PROVE  a >= 1 /\ (a - 1) % l = (a % l) - 1
  <1> DEFINE q == a \div l
             r == a % l
  <1>0. q \in Nat /\ r \in 0..(l - 1) /\ a = q * l + r /\ r # 0
    BY ONLY Rounds, l \in Nat \ {0}, a \in Nat, a % l # 0
  <1> HIDE DEF q, r
  <1>1. q \in Nat /\ r \in 0..(l - 1) /\ a = q * l + r /\ r >= 1
    BY <1>0
  <1>2. q * l \in Nat
    BY <1>1
  <1>3. a - 1 = q * l + (r - 1) /\ a >= 1 /\ r - 1 \in 0..(l - 1)
    BY <1>1, <1>2
  <1>4. (q * l + (r - 1)) % l = r - 1
    BY <1>1, <1>3, OneRound
  <1>5. (a - 1) % l = r - 1
    BY <1>3, <1>4
  <1>6. QED
    BY <1>3, <1>5 DEF r

LEMMA TimesType ==
  ASSUME NEW n \in Nat, NEW S, NEW s \in Seq(S), Len(s) # 0
  PROVE  /\ Times(n, s) \in Seq(S)
         /\ DOMAIN Times(n, s) = 1..(n * Len(s)) /\ Len(Times(n, s)) = n * Len(s)
         /\ n * Len(s) \in Nat
         /\ \A i \in 1..(n * Len(s)) :
              /\ Times(n, s)[i] = s[1 + ((i - 1) % Len(s))]
              /\ 1 + ((i - 1) % Len(s)) \in DOMAIN s
  <1> DEFINE l == Len(s)
  <1>1. l \in Nat \ {0} /\ DOMAIN s = 1..l
    OBVIOUS
  <1>2. n * l \in Nat
    BY <1>1
  <1> HIDE DEF l
  <1>3. ASSUME NEW i \in 1..(n * l) PROVE 1 + ((i - 1) % l) \in DOMAIN s
    <2>1. (i - 1) % l \in 0..(l - 1)
      BY <1>1, <1>2, <1>3, Rounds, SMTT(40)
    <2>2. QED
      BY <1>1, <2>1
  <1>4. Times(n, s) = [i \in 1..(n * l) |-> s[1 + ((i - 1) % l)]]
    BY DEF Times, l
  <1>5. \A i \in 1..(n * l) : s[1 + ((i - 1) % l)] \in S
    BY <1>3
  <1>6. Times(n, s) \in [1..(n * l) -> S]
    BY <1>4, <1>5
  <1>7. Times(n, s) \in Seq(S) /\ Len(Times(n, s)) = n * l /\ DOMAIN Times(n, s) = 1..(n * l)
    BY <1>2, <1>6
  <1>8. QED
    BY <1>2, <1>3, <1>4, <1>7 DEF l

-----------------------------------------------------------------------------
(* A look at the flag before every chunk.                                   *)

Closed(s) ==
  \A i \in DOMAIN s : s[i] = "work" => i > 1 /\ s[i - 1] = "check"

LEMMA ClosedTimes ==
  ASSUME NEW n \in Nat, NEW s \in Seq(Ops), Len(s) # 0, Closed(s)
  PROVE  Closed(Times(n, s))
  <1> DEFINE t == Times(n, s)
             l == Len(s)
  <1>1. /\ DOMAIN t = 1..(n * l) /\ n * l \in Nat
        /\ \A i \in 1..(n * l) :
             t[i] = s[1 + ((i - 1) % l)] /\ 1 + ((i - 1) % l) \in DOMAIN s
    BY TimesType
  <1>2. l \in Nat \ {0} /\ DOMAIN s = 1..l
    OBVIOUS
  <1> HIDE DEF t, l
  <1>3. ASSUME NEW i \in DOMAIN t, t[i] = "work"
        PROVE  i > 1 /\ t[i - 1] = "check"
    <2> DEFINE r == (i - 1) % l
    <2>0. i - 1 \in Nat
      BY <1>1
    <2>1. i - 1 \in Nat /\ r \in 0..(l - 1)
      BY ONLY <1>2, <2>0, Rounds
    <2>2. s[1 + r] = "work" /\ 1 + r \in DOMAIN s
      BY <1>1, <1>3
    <2>3. 1 + r > 1 /\ s[(1 + r) - 1] = "check"
      BY <2>2 DEF Closed
    <2>4. r # 0
      BY <2>1, <2>3
    <2>5. i - 1 >= 1 /\ ((i - 1) - 1) % l = r - 1
      BY <1>2, <2>1, <2>4, StepBefore
    <2> HIDE DEF r
    <2>6. i - 1 \in 1..(n * l) /\ i > 1
      BY <1>1, <2>1, <2>5
    <2>7. t[i - 1] = s[1 + (((i - 1) - 1) % l)]
      BY <1>1, <2>6
    <2>8. t[i - 1] = s[1 + (r - 1)] /\ 1 + (r - 1) = (1 + r) - 1
      BY <2>1, <2>5, <2>7
    <2>9. QED
      BY <2>3, <2>6, <2>8
  <1>4. QED
    BY <1>3 DEF Closed, t

LEMMA Joined ==
  ASSUME NEW s \in Seq(Ops), NEW t \in Seq(Ops)
  PROVE  /\ s \o t \in Seq(Ops)
         /\ Len(s \o t) = Len(s) + Len(t)
         /\ DOMAIN (s \o t) = 1..(Len(s) + Len(t))
         /\ \A i \in 1..Len(s) : (s \o t)[i] = s[i]
         /\ \A i \in (Len(s) + 1)..(Len(s) + Len(t)) : (s \o t)[i] = t[i - Len(s)]
  OBVIOUS

LEMMA ClosedJoined ==
  ASSUME NEW s \in Seq(Ops), NEW t \in Seq(Ops), Closed(s), Closed(t)
  PROVE  Closed(s \o t)
  <1> DEFINE u == s \o t
             m == Len(s)
             n == Len(t)
  <1>1. /\ DOMAIN u = 1..(m + n) /\ m \in Nat /\ n \in Nat
        /\ DOMAIN s = 1..m /\ DOMAIN t = 1..n
        /\ \A i \in 1..m : u[i] = s[i]
        /\ \A i \in (m + 1)..(m + n) : u[i] = t[i - m]
    BY Joined
  <1> HIDE DEF u, m, n
  <1>2. ASSUME NEW i \in DOMAIN u, u[i] = "work" PROVE i > 1 /\ u[i - 1] = "check"
    <2>1. CASE i \in 1..m
      <3>1. i > 1 /\ s[i - 1] = "check"
        BY <1>1, <1>2, <2>1 DEF Closed
      <3>2. QED
        BY <1>1, <2>1, <3>1
    <2>2. CASE i \in (m + 1)..(m + n)
      <3>1. i - m \in DOMAIN t /\ t[i - m] = "work"
        BY <1>1, <1>2, <2>2
      <3>2. i - m > 1 /\ t[(i - m) - 1] = "check"
        BY <3>1 DEF Closed
      <3>3. i - 1 \in (m + 1)..(m + n) /\ (i - 1) - m = (i - m) - 1
        BY <1>1, <2>2, <3>2
      <3>4. u[i - 1] = t[(i - 1) - m]
        BY <1>1, <3>3
      <3>5. QED
        BY <1>1, <2>2, <3>2, <3>3, <3>4
    <2>3. QED
      BY <1>1, <2>1, <2>2
  <1>3. QED
    BY <1>2 DEF Closed, u

-----------------------------------------------------------------------------
(* How many chunks a sequence of steps has.                                 *)

Works(s) == {i \in DOMAIN s : s[i] = "work"}
Count(s) == Cardinality(Works(s))

LEMMA Renamed ==
  ASSUME NEW S, NEW T, IsFiniteSet(S), NEW f \in [S -> T],
         \A x, y \in S : f[x] = f[y] => x = y,
         \A z \in T : \E x \in S : f[x] = z
  PROVE  IsFiniteSet(T) /\ Cardinality(T) = Cardinality(S)
  <1>1. f \in Bijection(S, T)
    BY DEF Bijection, Injection, Surjection, IsInjective
  <1>2. QED
    BY <1>1, FS_Bijection DEF ExistsBijection

LEMMA CountType ==
  ASSUME NEW s \in Seq(Ops)
  PROVE  IsFiniteSet(Works(s)) /\ Count(s) \in Nat
  <1>1. DOMAIN s = 1..Len(s) /\ Len(s) \in Nat
    OBVIOUS
  <1>2. IsFiniteSet(1..Len(s))
    BY <1>1, FS_Interval
  <1>3. Works(s) \in SUBSET (1..Len(s))
    BY <1>1 DEF Works
  <1>4. QED
    BY <1>2, <1>3, FS_Subset, FS_CardinalityType DEF Count

LEMMA CountNone ==
  ASSUME NEW s \in Seq(Ops), \A i \in DOMAIN s : s[i] # "work"
  PROVE  Count(s) = 0
  <1>1. Works(s) = {}
    BY DEF Works
  <1>2. QED
    BY <1>1, FS_EmptySet DEF Count

LEMMA CountJoined ==
  ASSUME NEW s \in Seq(Ops), NEW t \in Seq(Ops)
  PROVE  Count(s \o t) = Count(s) + Count(t)
  <1> DEFINE u == s \o t
             m == Len(s)
             n == Len(t)
             shifted == {i \in (m + 1)..(m + n) : u[i] = "work"}
             shift == [i \in Works(t) |-> i + m]
  <1>1. /\ DOMAIN u = 1..(m + n) /\ m \in Nat /\ n \in Nat
        /\ DOMAIN s = 1..m /\ DOMAIN t = 1..n
        /\ \A i \in 1..m : u[i] = s[i]
        /\ \A i \in (m + 1)..(m + n) : u[i] = t[i - m]
    BY Joined
  <1> HIDE DEF u, m, n
  <1>2. Works(u) = Works(s) \cup shifted /\ Works(s) \cap shifted = {}
    BY <1>1 DEF Works
  <1>3. shift \in [Works(t) -> shifted]
    <2>1. ASSUME NEW i \in Works(t) PROVE i + m \in shifted
      <3>1. i \in 1..n /\ t[i] = "work"
        BY <1>1 DEF Works
      <3>2. i + m \in (m + 1)..(m + n) /\ (i + m) - m = i
        BY <1>1, <3>1
      <3>3. QED
        BY <1>1, <3>1, <3>2
    <2>2. QED
      BY <2>1
  <1>4. \A x, y \in Works(t) : shift[x] = shift[y] => x = y
    BY <1>1 DEF Works
  <1>5. \A z \in shifted : \E x \in Works(t) : shift[x] = z
    <2>1. ASSUME NEW z \in shifted PROVE \E x \in Works(t) : shift[x] = z
      <3>1. z - m \in 1..n /\ t[z - m] = "work" /\ (z - m) + m = z
        BY <1>1
      <3>2. z - m \in Works(t)
        BY <1>1, <3>1 DEF Works
      <3>3. QED
        BY <3>1, <3>2
    <2>2. QED
      BY <2>1
  <1>6. /\ IsFiniteSet(Works(s)) /\ IsFiniteSet(Works(t))
        /\ Cardinality(Works(s)) \in Nat /\ Cardinality(Works(t)) \in Nat
    BY CountType DEF Count
  <1> HIDE DEF shift, shifted
  <1>7. IsFiniteSet(shifted) /\ Cardinality(shifted) = Cardinality(Works(t))
    BY <1>3, <1>4, <1>5, <1>6, Renamed
  <1>8. Cardinality(Works(s) \cup shifted)
          = Cardinality(Works(s)) + Cardinality(shifted) - Cardinality(Works(s) \cap shifted)
    BY <1>6, <1>7, FS_Union
  <1>9. Cardinality(Works(s) \cap shifted) = 0
    BY <1>2, FS_EmptySet
  <1>10. Cardinality(Works(u)) = Cardinality(Works(s)) + Cardinality(Works(t))
    BY <1>2, <1>6, <1>7, <1>8, <1>9
  <1>11. QED
    BY <1>10 DEF Count, u

LEMMA WithinBound ==
  ASSUME NEW a \in Nat, NEW b \in Nat, NEW l \in Nat, NEW r \in 1..l, a + l <= b
  PROVE  a + r \in 1..b /\ (a + r) - 1 = a + (r - 1)
  OBVIOUS

\* A round and a step of it tell which step of the loop is meant.
LEMMA CountTimes ==
  ASSUME NEW n \in Nat, NEW s \in Seq(Ops), Len(s) # 0
  PROVE  Count(Times(n, s)) = n * Count(s)
  <1> DEFINE t == Times(n, s)
             l == Len(s)
             steps == (0..(n - 1)) \X Works(s)
             at == [p \in steps |-> p[1] * l + p[2]]
  <1>1. /\ DOMAIN t = 1..(n * l) /\ n * l \in Nat
        /\ \A i \in 1..(n * l) :
             t[i] = s[1 + ((i - 1) % l)] /\ 1 + ((i - 1) % l) \in DOMAIN s
    BY TimesType
  <1>2. l \in Nat \ {0} /\ DOMAIN s = 1..l
    OBVIOUS
  <1> HIDE DEF t, l
  <1>3. ASSUME NEW q \in 0..(n - 1), NEW r \in Works(s)
        PROVE  /\ q * l + r \in Works(t)
               /\ ((q * l + r) - 1) \div l = q /\ ((q * l + r) - 1) % l = r - 1
    <2>1. q \in Nat /\ r \in 1..l /\ s[r] = "work" /\ r - 1 \in 0..(l - 1)
      BY <1>2 DEF Works
    <2>2. (q * l + (r - 1)) % l = r - 1 /\ (q * l + (r - 1)) \div l = q
      BY ONLY <1>2, <2>1, OneRound
    <2>3. q * l \in Nat /\ (q + 1) * l <= n * l /\ (q + 1) * l = q * l + l
      <3>1. q * l \in Nat /\ (q + 1) * l = q * l + l
        BY <1>2, <2>1
      <3>2. q + 1 <= n /\ q + 1 \in Nat
        BY <2>1
      <3>3. (q + 1) * l <= n * l
        BY <1>2, <3>2
      <3>4. QED
        BY <3>1, <3>3
    <2>4. q * l + r \in 1..(n * l) /\ (q * l + r) - 1 = q * l + (r - 1)
      <3>1. q * l \in Nat /\ r \in 1..l /\ q * l + l <= n * l
        BY <2>1, <2>3
      <3>2. PICK a \in Nat : a = q * l
        BY <3>1
      <3>3. PICK b \in Nat : b = n * l
        BY <1>2
      <3>4. l \in Nat /\ a + l <= b
        BY <1>2, <3>1, <3>2, <3>3
      <3>5. a + r \in 1..b /\ (a + r) - 1 = a + (r - 1)
        BY ONLY <3>1, <3>2, <3>3, <3>4, WithinBound
      <3>6. QED
        BY ONLY <3>2, <3>3, <3>5
    <2>5. t[q * l + r] = s[1 + (r - 1)] /\ 1 + (r - 1) = r
      BY <1>1, <2>1, <2>2, <2>4
    <2>6. QED
      BY <1>1, <2>1, <2>2, <2>4, <2>5 DEF Works
  <1>4. at \in [steps -> Works(t)]
    BY <1>3
  <1>5. ASSUME NEW x \in steps, NEW y \in steps, at[x] = at[y] PROVE x = y
    <2>1. /\ x = <<x[1], x[2]>> /\ x[1] \in 0..(n - 1) /\ x[2] \in Works(s)
          /\ y = <<y[1], y[2]>> /\ y[1] \in 0..(n - 1) /\ y[2] \in Works(s)
          /\ x[1] * l + x[2] = y[1] * l + y[2]
      BY <1>5
    <2>2. x[1] = y[1] /\ x[2] - 1 = y[2] - 1
      BY <1>3, <2>1
    <2>3. x[2] \in Nat /\ y[2] \in Nat
      BY <1>2, <2>1 DEF Works
    <2>4. QED
      BY <2>1, <2>2, <2>3
  <1>6. ASSUME NEW z \in Works(t) PROVE \E x \in steps : at[x] = z
    <2> DEFINE q == (z - 1) \div l
               r == (z - 1) % l
    <2>1. z \in 1..(n * l) /\ s[1 + r] = "work" /\ 1 + r \in Works(s)
      BY <1>1 DEF Works
    <2>2. z - 1 \in Nat
      BY <1>1, <2>1
    <2>3. q \in Nat /\ r \in 0..(l - 1) /\ z - 1 = q * l + r
      BY ONLY <1>2, <2>2, Rounds
    <2> HIDE DEF q, r
    <2>4. q * l \in Nat /\ q * l <= n * l - 1
      <3>1. q * l \in Nat
        BY <1>2, <2>3
      <3>2. z - 1 <= n * l - 1 /\ n * l \in Nat
        BY <1>1, <2>1
      <3>3. QED
        BY <2>3, <3>1, <3>2
    <2>5. q < n
      <3>1. q >= n => q * l >= n * l
        BY <1>2, <2>3
      <3>2. QED
        BY <1>1, <2>3, <2>4, <3>1
    <2>6. <<q, 1 + r>> \in steps
      BY <2>1, <2>3, <2>5
    <2>7. at[<<q, 1 + r>>] = q * l + (1 + r)
      BY <2>6
    <2>8. q * l + (1 + r) = z
      BY <1>2, <2>1, <2>3, <2>4
    <2>9. QED
      BY <2>6, <2>7, <2>8
  <1>7. /\ IsFiniteSet(Works(s)) /\ Cardinality(Works(s)) \in Nat
        /\ IsFiniteSet(0..(n - 1)) /\ Cardinality(0..(n - 1)) = n
    <2>1. IsFiniteSet(0..(n - 1)) /\ Cardinality(0..(n - 1)) = n
      BY FS_Interval
    <2>2. QED
      BY <2>1, CountType DEF Count
  <1>8. IsFiniteSet(steps) /\ Cardinality(steps) = n * Cardinality(Works(s))
    BY <1>7, FS_Product
  <1> HIDE DEF at, steps
  <1>9. Cardinality(Works(t)) = Cardinality(steps)
    BY <1>4, <1>5, <1>6, <1>8, Renamed
  <1>10. QED
    BY <1>8, <1>9 DEF Count, t

-----------------------------------------------------------------------------
(* Regular sequences of steps.                                              *)

\* The cells of a matrix.
Cells == Sensors * Chunks
MatrixLoop == Times(Cells, Chunk)

\* Between looking a matrix up at i and inserting it.
BuiltAfter(s, i) ==
  /\ i + 2 * Cells + 1 \in DOMAIN s /\ s[i + 2 * Cells + 1] = "insert"
  /\ \A k \in 1..(2 * Cells) : s[i + k] = MatrixLoop[k]

\* Of what is left of an analysis.  Its first step may be a chunk.
Regular(s) ==
  /\ s \in Seq(Ops)
  /\ \A i \in DOMAIN s :
       /\ s[i] = "work" /\ i > 1 => s[i - 1] = "check"
       /\ s[i] = "total" => i = 1
       /\ s[i] = "find" => BuiltAfter(s, i)
       /\ s[i] = "insert" => i < Len(s)
  /\ \A i, k \in DOMAIN s :
       /\ s[i] = "zero" /\ s[k] \in {"work", "find"} => i < k
       /\ s[i] = "insert" /\ s[k] = "insert" => i = k
       /\ s[i] = "find" /\ s[k] = "insert" => i < k

\* An analysis from its start: what it inserts it has looked up.
Whole(s) ==
  /\ Regular(s) /\ s # <<>> /\ Head(s) = "total"
  /\ \A k \in DOMAIN s : s[k] = "insert" => \E i \in DOMAIN s : s[i] = "find"

LEMMA LoopOfChunks ==
  /\ Cells \in Nat /\ 2 * Cells \in Nat
  /\ \A n \in Nat : /\ Times(n, Chunk) \in Seq({"check", "work"})
                    /\ Len(Times(n, Chunk)) = 2 * n
                    /\ Closed(Times(n, Chunk)) /\ Count(Times(n, Chunk)) = n
  <1>1. Cells \in Nat /\ 2 * Cells \in Nat
    BY SizesAssumption DEF Cells
  <1>2. /\ Chunk \in Seq({"check", "work"}) /\ Chunk \in Seq(Ops)
        /\ Len(Chunk) = 2 /\ Chunk[1] = "check" /\ Chunk[2] = "work" /\ DOMAIN Chunk = {1, 2}
    BY DEF Chunk, Ops
  <1>3. Closed(Chunk)
    BY <1>2 DEF Closed
  <1>4. Works(Chunk) = {2}
    BY <1>2 DEF Works
  <1>5. Count(Chunk) = 1
    BY <1>4, FS_Singleton DEF Count
  <1> HIDE DEF Chunk
  <1>6. ASSUME NEW n \in Nat
        PROVE  /\ Times(n, Chunk) \in Seq({"check", "work"})
               /\ Len(Times(n, Chunk)) = 2 * n
               /\ Closed(Times(n, Chunk)) /\ Count(Times(n, Chunk)) = n
    <2>1. Len(Chunk) # 0
      BY <1>2
    <2>2. Times(n, Chunk) \in Seq({"check", "work"}) /\ Len(Times(n, Chunk)) = n * 2
      BY <1>2, <2>1, TimesType
    <2>3. Closed(Times(n, Chunk)) /\ Count(Times(n, Chunk)) = n * 1
      BY <1>2, <1>3, <1>5, <2>1, ClosedTimes, CountTimes
    <2>4. QED
      BY <2>2, <2>3
  <1>7. QED
    BY <1>1, <1>6

LEMMA LoopsAreSteps ==
  ASSUME NEW s \in Seq({"check", "work"})
  PROVE  s \in Seq(Ops)
  BY DEF Ops

\* What every analysis begins with.
Opening(step) == <<"total", "zero", "scene", step>>

LEMMA OpeningType ==
  ASSUME NEW step \in Ops, step # "work"
  PROVE  /\ Opening(step) \in Seq(Ops) /\ Len(Opening(step)) = 4
         /\ Opening(step)[1] = "total" /\ Opening(step)[2] = "zero"
         /\ Opening(step)[3] = "scene" /\ Opening(step)[4] = step
         /\ Closed(Opening(step)) /\ Count(Opening(step)) = 0
  <1>1. /\ Opening(step) \in Seq(Ops) /\ Len(Opening(step)) = 4
        /\ Opening(step)[1] = "total" /\ Opening(step)[2] = "zero"
        /\ Opening(step)[3] = "scene" /\ Opening(step)[4] = step
        /\ DOMAIN Opening(step) = 1..4
    BY DEF Opening, Ops
  <1>2. \A i \in 1..4 : Opening(step)[i] # "work"
    <2>1. ASSUME NEW i \in 1..4 PROVE Opening(step)[i] # "work"
      <3>1. i = 1 \/ i = 2 \/ i = 3 \/ i = 4
        OBVIOUS
      <3>2. QED
        BY <1>1, <3>1
    <2>2. QED
      BY <2>1
  <1>3. Closed(Opening(step)) /\ Count(Opening(step)) = 0
    BY <1>1, <1>2, CountNone DEF Closed
  <1>4. QED
    BY <1>1, <1>3

\* An analysis that uses no matrix.
LEMMA RegularLoop ==
  ASSUME NEW c \in Seq({"check", "work"}), Closed(c)
  PROVE  Whole(Opening("zero") \o c) /\ Count(Opening("zero") \o c) = Count(c)
  <1> DEFINE o == Opening("zero")
             s == o \o c
  <1>1. /\ o \in Seq(Ops) /\ Len(o) = 4 /\ Closed(o) /\ Count(o) = 0
        /\ o[1] = "total" /\ o[2] = "zero" /\ o[3] = "scene" /\ o[4] = "zero"
    BY OpeningType DEF Ops
  <1>2. c \in Seq(Ops) /\ Len(c) \in Nat /\ DOMAIN c = 1..Len(c)
        /\ \A i \in 1..Len(c) : c[i] \in {"check", "work"}
    BY LoopsAreSteps
  <1>3. Closed(s) /\ Count(s) = Count(o) + Count(c) /\ Count(c) \in Nat
    BY <1>1, <1>2, ClosedJoined, CountJoined, CountType
  <1> HIDE DEF o
  <1>4. /\ s \in Seq(Ops) /\ DOMAIN s = 1..(4 + Len(c)) /\ Len(s) = 4 + Len(c)
        /\ s[1] = "total" /\ s[2] = "zero" /\ s[3] = "scene" /\ s[4] = "zero"
        /\ \A i \in 5..(4 + Len(c)) : s[i] \in {"check", "work"}
    <2>1. /\ s \in Seq(Ops) /\ Len(s) = 4 + Len(c) /\ DOMAIN s = 1..(4 + Len(c))
          /\ \A i \in 1..4 : s[i] = o[i]
          /\ \A i \in 5..(4 + Len(c)) : s[i] = c[i - 4]
      <3>1. /\ s \in Seq(Ops) /\ Len(s) = Len(o) + Len(c) /\ DOMAIN s = 1..(Len(o) + Len(c))
            /\ \A i \in 1..Len(o) : s[i] = o[i]
            /\ \A i \in (Len(o) + 1)..(Len(o) + Len(c)) : s[i] = c[i - Len(o)]
        BY ONLY <1>1, <1>2, Joined
      <3>2. Len(o) + 1 = 5
        BY <1>1
      <3>3. QED
        BY ONLY <1>1, <3>1, <3>2
    <2>2. \A i \in 5..(4 + Len(c)) : i - 4 \in 1..Len(c)
      BY <1>2
    <2>3. QED
      BY <1>1, <1>2, <2>1, <2>2
  <1> HIDE DEF s
  <1>5. \A i \in DOMAIN s : \/ i \in {1, 2, 3, 4}
                            \/ i > 4 /\ s[i] \in {"check", "work"}
    <2>1. \A i \in 1..(4 + Len(c)) : i \in {1, 2, 3, 4} \/ i \in 5..(4 + Len(c))
      BY <1>2
    <2>2. QED
      BY <1>4, <2>1
  <1>6. Regular(s) /\ \A k \in DOMAIN s : s[k] # "insert"
    <2>1. \A i \in DOMAIN s : s[i] = "work" /\ i > 1 => s[i - 1] = "check"
      BY <1>3 DEF Closed
    <2>2. \A i \in DOMAIN s : s[i] = "total" => i = 1
      BY <1>4, <1>5
    <2>3. \A i \in DOMAIN s : s[i] \notin {"find", "insert"}
      BY <1>4, <1>5
    <2>4. \A i, k \in DOMAIN s : s[i] = "zero" /\ s[k] \in {"work", "find"} => i < k
      BY <1>4, <1>5
    <2>5. QED
      BY <1>4, <2>1, <2>2, <2>3, <2>4 DEF Regular
  <1>7. s # <<>> /\ Head(s) = "total"
    BY <1>2, <1>4
  <1>8. QED
    BY <1>1, <1>3, <1>6, <1>7 DEF s, o, Whole

\* An analysis that looks its matrix up, builds it and goes on.
LEMMA RegularMatrix ==
  ASSUME NEW y \in Seq({"check", "work"}), Closed(y), Len(y) # 0
  PROVE  LET s == (Opening("find") \o MatrixLoop) \o (<<"insert">> \o y)
         IN  Whole(s) /\ Count(s) = Cells + Count(y)
  <1> DEFINE o == Opening("find")
             a == o \o MatrixLoop
             b == <<"insert">> \o y
             s == a \o b
             n == 2 * Cells
  <1>1. /\ o \in Seq(Ops) /\ Len(o) = 4 /\ Closed(o) /\ Count(o) = 0
        /\ o[1] = "total" /\ o[2] = "zero" /\ o[3] = "scene" /\ o[4] = "find"
    BY OpeningType DEF Ops
  <1>2. /\ y \in Seq(Ops) /\ Len(y) \in Nat
        /\ \A i \in 1..Len(y) : y[i] \in {"check", "work"}
    BY LoopsAreSteps
  <1>3. /\ MatrixLoop \in Seq({"check", "work"}) /\ Len(MatrixLoop) = n /\ n \in Nat
        /\ Cells \in Nat /\ Closed(MatrixLoop) /\ Count(MatrixLoop) = Cells
    BY LoopOfChunks DEF MatrixLoop
  <1>4. /\ MatrixLoop \in Seq(Ops)
        /\ \A i \in 1..n : MatrixLoop[i] \in {"check", "work"}
    BY <1>3, LoopsAreSteps
  <1>5. /\ <<"insert">> \in Seq(Ops) /\ Len(<<"insert">>) = 1 /\ <<"insert">>[1] = "insert"
        /\ Closed(<<"insert">>) /\ Count(<<"insert">>) = 0
    <2>1. /\ <<"insert">> \in Seq(Ops) /\ Len(<<"insert">>) = 1 /\ <<"insert">>[1] = "insert"
          /\ DOMAIN <<"insert">> = {1}
      BY DEF Ops
    <2>2. QED
      BY <2>1, CountNone DEF Closed
  <1> HIDE DEF o, n
  <1>6. /\ a \in Seq(Ops) /\ Len(a) = 4 + n /\ Closed(a) /\ Count(a) = Cells
        /\ \A i \in 1..4 : a[i] = o[i]
        /\ \A i \in 5..(4 + n) : a[i] = MatrixLoop[i - 4]
    <2>1. /\ a \in Seq(Ops) /\ Len(a) = Len(o) + Len(MatrixLoop)
          /\ \A i \in 1..Len(o) : a[i] = o[i]
          /\ \A i \in (Len(o) + 1)..(Len(o) + Len(MatrixLoop)) : a[i] = MatrixLoop[i - Len(o)]
      BY ONLY <1>1, <1>4, Joined
    <2>2. Closed(a) /\ Count(a) = Count(o) + Count(MatrixLoop)
      BY ONLY <1>1, <1>3, <1>4, ClosedJoined, CountJoined
    <2>3. Len(o) + 1 = 5 /\ Count(o) + Count(MatrixLoop) = Cells
      BY <1>1, <1>3
    <2>4. QED
      BY ONLY <1>1, <1>3, <2>1, <2>2, <2>3
  <1>7. /\ b \in Seq(Ops) /\ Len(b) = 1 + Len(y) /\ Closed(b) /\ Count(b) = Count(y)
        /\ b[1] = "insert" /\ \A i \in 2..(1 + Len(y)) : b[i] = y[i - 1]
    <2>1. /\ b \in Seq(Ops) /\ Len(b) = Len(<<"insert">>) + Len(y)
          /\ \A i \in 1..Len(<<"insert">>) : b[i] = <<"insert">>[i]
          /\ \A i \in (Len(<<"insert">>) + 1)..(Len(<<"insert">>) + Len(y)) :
               b[i] = y[i - Len(<<"insert">>)]
      BY ONLY <1>2, <1>5, Joined
    <2>2. Closed(b) /\ Count(b) = Count(<<"insert">>) + Count(y) /\ Count(y) \in Nat
      BY ONLY <1>2, <1>5, Closed(y), ClosedJoined, CountJoined, CountType
    <2>3. Len(<<"insert">>) + 1 = 2 /\ Count(<<"insert">>) + Count(y) = Count(y)
      BY <1>5, <2>2
    <2>4. QED
      BY ONLY <1>2, <1>5, <2>1, <2>2, <2>3
  <1> HIDE DEF a, b
  <1>8. /\ s \in Seq(Ops) /\ Len(s) = 5 + n + Len(y) /\ DOMAIN s = 1..(5 + n + Len(y))
        /\ Closed(s) /\ Count(s) = Cells + Count(y)
        /\ \A i \in 1..(4 + n) : s[i] = a[i]
        /\ \A i \in (5 + n)..(5 + n + Len(y)) : s[i] = b[i - (4 + n)]
    <2>1. /\ s \in Seq(Ops) /\ Len(s) = Len(a) + Len(b) /\ DOMAIN s = 1..(Len(a) + Len(b))
          /\ \A i \in 1..Len(a) : s[i] = a[i]
          /\ \A i \in (Len(a) + 1)..(Len(a) + Len(b)) : s[i] = b[i - Len(a)]
      BY ONLY <1>6, <1>7, Joined
    <2>2. Closed(s) /\ Count(s) = Count(a) + Count(b)
      BY ONLY <1>6, <1>7, ClosedJoined, CountJoined
    <2>3. Len(a) + 1 = 5 + n /\ Len(a) + Len(b) = 5 + n + Len(y)
      BY <1>2, <1>3, <1>6, <1>7
    <2>4. QED
      BY ONLY <1>3, <1>6, <1>7, <2>1, <2>2, <2>3
  <1> HIDE DEF s
  <1>9. /\ s[1] = "total" /\ s[2] = "zero" /\ s[3] = "scene" /\ s[4] = "find"
        /\ \A k \in 1..n : s[4 + k] = MatrixLoop[k]
        /\ s[5 + n] = "insert"
        /\ \A i \in (6 + n)..(5 + n + Len(y)) : s[i] \in {"check", "work"}
    <2>1. ASSUME NEW k \in 1..n PROVE s[4 + k] = MatrixLoop[k]
      <3>1. 4 + k \in 1..(4 + n) /\ 4 + k \in 5..(4 + n) /\ (4 + k) - 4 = k
        BY <1>3
      <3>2. QED
        BY <1>6, <1>8, <3>1
    <2>2. s[5 + n] = "insert"
      <3>1. 5 + n \in (5 + n)..(5 + n + Len(y)) /\ (5 + n) - (4 + n) = 1
        BY <1>2, <1>3
      <3>2. QED
        BY <1>7, <1>8, <3>1
    <2>3. ASSUME NEW i \in (6 + n)..(5 + n + Len(y)) PROVE s[i] \in {"check", "work"}
      <3>1. /\ i \in (5 + n)..(5 + n + Len(y)) /\ i - (4 + n) \in 2..(1 + Len(y))
            /\ (i - (4 + n)) - 1 \in 1..Len(y)
        BY <1>2, <1>3
      <3>2. QED
        BY <1>2, <1>7, <1>8, <3>1
    <2>4. \A i \in {1, 2, 3, 4} : i \in 1..(4 + n) /\ s[i] = o[i]
      <3>1. \A i \in {1, 2, 3, 4} : i \in 1..(4 + n) /\ i \in 1..4
        BY <1>3
      <3>2. QED
        BY <1>6, <1>8, <3>1
    <2>5. QED
      BY <1>1, <2>1, <2>2, <2>3, <2>4
  <1>10. \A i \in DOMAIN s : \/ i \in {1, 2, 3, 4}
                             \/ i \in 5..(4 + n) /\ s[i] \in {"check", "work"}
                             \/ i = 5 + n
                             \/ i \in (6 + n)..(5 + n + Len(y)) /\ s[i] \in {"check", "work"}
    <2>1. \A i \in 1..(5 + n + Len(y)) :
            \/ i \in {1, 2, 3, 4} \/ i \in 5..(4 + n) \/ i = 5 + n
            \/ i \in (6 + n)..(5 + n + Len(y))
      BY <1>2, <1>3
    <2>2. ASSUME NEW i \in 5..(4 + n) PROVE s[i] \in {"check", "work"}
      <3>1. i - 4 \in 1..n /\ 4 + (i - 4) = i
        BY <1>3
      <3>2. QED
        BY <1>4, <1>9, <3>1
    <2>3. QED
      BY <1>8, <1>9, <2>1, <2>2
  <1>11. \A i \in DOMAIN s : /\ s[i] = "total" => i = 1
                             /\ s[i] = "zero" => i = 2
                             /\ s[i] = "find" => i = 4
                             /\ s[i] = "insert" => i = 5 + n
                             /\ s[i] = "work" => i > 2
    BY <1>3, <1>9, <1>10
  <1>12. \A i \in DOMAIN s : s[i] = "find" => BuiltAfter(s, i)
    <2>1. n = 2 * Cells /\ 4 + 2 * Cells + 1 = 5 + n /\ 5 + n \in DOMAIN s
      BY <1>2, <1>3, <1>8 DEF n
    <2>2. BuiltAfter(s, 4)
      BY <1>9, <2>1 DEF BuiltAfter
    <2>3. QED
      BY <1>11, <2>2
  <1>13. Regular(s)
    <2>1. \A i \in DOMAIN s : s[i] = "work" /\ i > 1 => s[i - 1] = "check"
      BY <1>8 DEF Closed
    <2>2. \A i, k \in DOMAIN s :
            /\ s[i] = "zero" /\ s[k] \in {"work", "find"} => i < k
            /\ s[i] = "insert" /\ s[k] = "insert" => i = k
            /\ s[i] = "find" /\ s[k] = "insert" => i < k
      <3>1. \A i \in DOMAIN s : i \in Nat
        BY <1>2, <1>3, <1>8
      <3>2. 4 < 5 + n
        BY <1>3
      <3>3. QED
        BY <1>11, <3>1, <3>2
    <2>3. 5 + n < Len(s)
      BY <1>2, <1>3, <1>8
    <2>4. \A i \in DOMAIN s : s[i] = "insert" => i < Len(s)
      BY <1>11, <2>3
    <2>5. QED
      BY <1>8, <1>11, <1>12, <2>1, <2>2, <2>4 DEF Regular
  <1>14. s # <<>> /\ Head(s) = "total" /\ 4 \in DOMAIN s
    BY <1>2, <1>3, <1>8, <1>9
  <1>15. Whole(s)
    BY <1>9, <1>13, <1>14 DEF Whole
  <1>16. QED
    BY <1>8, <1>15 DEF s, a, b, o

Regroups(s, t, u) == (s \o t) \o u = s \o (t \o u)
LEMMA Associative ==
  \A s, t, u \in Seq(Ops) : Regroups(s, t, u)
  BY ConcatAssociative DEF Regroups

OpensWith(step, a, b) ==
  /\ <<"total", "zero", "scene">> \o ((<<step>> \o a) \o b) = Opening(step) \o (a \o b)
  /\ \A c \in Seq(Ops) :
       <<"total", "zero", "scene">> \o (((<<step>> \o a) \o b) \o c)
         = (Opening(step) \o a) \o (b \o c)
LEMMA Regrouped ==
  ASSUME NEW step \in Ops, NEW a \in Seq(Ops), NEW b \in Seq(Ops)
  PROVE  OpensWith(step, a, b)
  <1> DEFINE three == <<"total", "zero", "scene">>
             one == <<step>>
  <1>1. three \in Seq(Ops) /\ one \in Seq(Ops)
    BY DEF Ops
  <1>2. three \o one = Opening(step)
    <2>1. three \o one \in Seq(Ops) /\ Len(three \o one) = 4
      BY <1>1
    <2>2. Opening(step) \in Seq(Ops) /\ Len(Opening(step)) = 4
      BY DEF Opening, Ops
    <2>3. ASSUME NEW i \in 1..4 PROVE (three \o one)[i] = Opening(step)[i]
      <3>1. i = 1 \/ i = 2 \/ i = 3 \/ i = 4
        OBVIOUS
      <3>2. QED
        BY <3>1 DEF Opening
    <2>4. QED
      BY ONLY <2>1, <2>2, <2>3, SeqEqual
  <1> HIDE DEF three, one
  <1>3. ASSUME NEW d \in Seq(Ops) PROVE three \o (one \o d) = Opening(step) \o d
    <2>1. (three \o one) \o d = three \o (one \o d)
      <3>1. Regroups(three, one, d)
        BY <1>1, Associative
      <3>2. QED
        BY ONLY <3>1 DEF Regroups
    <2>2. QED
      BY <1>2, <2>1, Zenon
  <1>4. (one \o a) \o b = one \o (a \o b) /\ a \o b \in Seq(Ops)
    BY ONLY <1>1, a \in Seq(Ops), b \in Seq(Ops), ConcatAssociative, Joined
  <1>5. three \o ((one \o a) \o b) = Opening(step) \o (a \o b)
    BY <1>3, <1>4
  <1>6. ASSUME NEW c \in Seq(Ops)
        PROVE  three \o (((one \o a) \o b) \o c) = (Opening(step) \o a) \o (b \o c)
    <2>1. (one \o (a \o b)) \o c = one \o ((a \o b) \o c)
      <3>1. Regroups(one, a \o b, c)
        BY <1>1, <1>4, Associative
      <3>2. QED
        BY ONLY <3>1 DEF Regroups
    <2>2. (a \o b) \o c = a \o (b \o c) /\ b \o c \in Seq(Ops) /\ a \o (b \o c) \in Seq(Ops)
      <3>1. b \o c \in Seq(Ops)
        BY Joined
      <3>2. a \o (b \o c) \in Seq(Ops)
        BY <3>1, Joined
      <3>3. Regroups(a, b, c)
        BY Associative
      <3>4. QED
        BY ONLY <3>1, <3>2, <3>3 DEF Regroups
    <2>3. three \o (one \o (a \o (b \o c))) = Opening(step) \o (a \o (b \o c))
      BY <1>3, <2>2
    <2>4. Opening(step) \in Seq(Ops)
      BY DEF Opening, Ops
    <2>5. (Opening(step) \o a) \o (b \o c) = Opening(step) \o (a \o (b \o c))
      <3>1. Regroups(Opening(step), a, b \o c)
        BY <2>2, <2>4, Associative
      <3>2. QED
        BY ONLY <3>1 DEF Regroups
    <2>6. QED
      BY <1>4, <2>1, <2>2, <2>3, <2>5
  <1>7. QED
    BY <1>5, <1>6 DEF three, one, OpensWith

\* A loop of looks and chunks is closed, whatever is repeated in it.
LEMMA LoopJoined ==
  ASSUME NEW a \in Seq({"check", "work"}), NEW b \in Seq({"check", "work"}),
         Closed(a), Closed(b)
  PROVE  /\ a \o b \in Seq({"check", "work"}) /\ Closed(a \o b)
         /\ Count(a \o b) = Count(a) + Count(b) /\ Len(a \o b) = Len(a) + Len(b)
  <1>1. a \in Seq(Ops) /\ b \in Seq(Ops)
    BY LoopsAreSteps
  <1>2. Closed(a \o b) /\ Count(a \o b) = Count(a) + Count(b) /\ Len(a \o b) = Len(a) + Len(b)
    BY <1>1, ClosedJoined, CountJoined, Joined
  <1>3. a \o b \in Seq({"check", "work"})
    BY ConcatProperties
  <1>4. QED
    BY <1>2, <1>3

IsLoop(c, count) == c \in Seq({"check", "work"}) /\ Closed(c) /\ Count(c) = count
LEMMA LoopTimes ==
  ASSUME NEW n \in Nat, NEW a \in Seq({"check", "work"}), Closed(a), Len(a) # 0
  PROVE  IsLoop(Times(n, a), n * Count(a))
  <1>1. a \in Seq(Ops)
    BY LoopsAreSteps
  <1>2. QED
    BY <1>1, TimesType, ClosedTimes, CountTimes DEF IsLoop

LEMMA OneLook ==
  /\ <<"check">> \in Seq({"check", "work"}) /\ Closed(<<"check">>)
  /\ Count(<<"check">>) = 0 /\ Len(<<"check">>) = 1
  <1>1. /\ <<"check">> \in Seq({"check", "work"}) /\ <<"check">> \in Seq(Ops)
        /\ Len(<<"check">>) = 1
        /\ DOMAIN <<"check">> = {1} /\ <<"check">>[1] = "check"
    BY DEF Ops
  <1>2. QED
    BY <1>1, CountNone DEF Closed

\* Every analysis is regular, and has as many chunks as its exported function announces.
LEMMA StepsAreRegular ==
  ASSUME NEW analysis \in Analyses
  PROVE  /\ Whole(Steps(analysis)) /\ Count(Steps(analysis)) = Total(analysis)
         /\ Total(analysis) \in Nat
  <1> DEFINE Loops == Seq({"check", "work"})
             open == <<"total", "zero", "scene">>
  <1>1. /\ Sensors \in Nat /\ Chunks \in Nat /\ Cells \in Nat
        /\ Times(Sensors, Chunk) \in Loops /\ Closed(Times(Sensors, Chunk))
        /\ Count(Times(Sensors, Chunk)) = Sensors
        /\ Times(Chunks, Chunk) \in Loops /\ Closed(Times(Chunks, Chunk))
        /\ Count(Times(Chunks, Chunk)) = Chunks /\ Len(Times(Chunks, Chunk)) = 2 * Chunks
        /\ MatrixLoop \in Loops /\ Closed(MatrixLoop) /\ Count(MatrixLoop) = Cells
        /\ Len(Times(Sensors, Chunk)) # 0 /\ Len(MatrixLoop) # 0
    <2>1. /\ Sensors \in Nat \ {0} /\ Chunks \in Nat /\ Cells \in Nat \ {0}
          /\ 2 * Sensors # 0 /\ 2 * Cells # 0
      BY SizesAssumption DEF Cells
    <2>2. QED
      BY <2>1, LoopOfChunks DEF MatrixLoop
  <1>2. /\ \A c \in Loops : c \in Seq(Ops)
        /\ <<"insert">> \in Seq(Ops) /\ "find" \in Ops /\ "zero" \in Ops
    BY LoopsAreSteps DEF Ops
  <1>3. CASE analysis = "sky view"
    <2> DEFINE sensor == <<"check">> \o Times(Chunks, Chunk)
               c == Times(Sensors, sensor) \o <<"check">>
    <2>1. sensor \in Loops /\ Closed(sensor) /\ Count(sensor) = Chunks /\ Len(sensor) # 0
      <3>1. /\ sensor \in Loops /\ Closed(sensor)
            /\ Count(sensor) = Count(<<"check">>) + Count(Times(Chunks, Chunk))
            /\ Len(sensor) = Len(<<"check">>) + Len(Times(Chunks, Chunk))
        BY ONLY <1>1, OneLook, LoopJoined
      <3>2. QED
        BY ONLY <1>1, OneLook, <3>1
    <2> HIDE DEF sensor
    <2>2. /\ Times(Sensors, sensor) \in Loops /\ Closed(Times(Sensors, sensor))
          /\ Count(Times(Sensors, sensor)) = Sensors * Chunks
      <3>1. IsLoop(Times(Sensors, sensor), Sensors * Count(sensor))
        BY ONLY SizesAssumption, <1>1, <2>1, LoopTimes
      <3>2. QED
        BY ONLY <2>1, <3>1 DEF IsLoop
    <2>3. c \in Loops /\ Closed(c) /\ Count(c) = Sensors * Chunks
      <3>1. c \in Loops /\ Closed(c) /\ Count(c) = Count(Times(Sensors, sensor)) + Count(<<"check">>)
        BY ONLY <2>2, OneLook, LoopJoined
      <3>2. Sensors * Chunks \in Nat
        BY <1>1 DEF Cells
      <3>3. QED
        BY ONLY <2>2, OneLook, <3>1, <3>2
    <2>4. Steps(analysis) = open \o ((<<"zero">> \o Times(Sensors, sensor)) \o <<"check">>)
      BY <1>3 DEF Steps, analyze_sky_view_controlled, sensor
    <2>5. Steps(analysis) = Opening("zero") \o c
      <3>1. OpensWith("zero", Times(Sensors, sensor), <<"check">>)
        BY <1>2, <2>2, OneLook, Regrouped
      <3>2. QED
        BY ONLY <2>4, <3>1 DEF OpensWith, open, c
    <2>6. Total(analysis) = Sensors * Chunks /\ Sensors * Chunks \in Nat
      <3>1. Total(analysis) = Sensors * Chunks
        BY <1>3 DEF Total, xv_scene_sky_view
      <3>2. QED
        BY <1>1, <3>1 DEF Cells
    <2> HIDE DEF c
    <2>7. QED
      BY <2>3, <2>5, <2>6, RegularLoop
  <1>4. CASE analysis = "annual irradiance"
    <2> DEFINE sensor == Chunk \o Times(Chunks, Chunk)
               c == Times(Sensors, sensor) \o <<"check">>
    <2>1. Chunk \in Loops /\ Closed(Chunk) /\ Count(Chunk) = 1 /\ Len(Chunk) = 2
      <3>1. /\ Chunk \in Loops /\ Len(Chunk) = 2 /\ DOMAIN Chunk = {1, 2}
            /\ Chunk[1] = "check" /\ Chunk[2] = "work"
        BY DEF Chunk
      <3>2. Works(Chunk) = {2} /\ Closed(Chunk)
        BY <3>1 DEF Works, Closed
      <3>3. QED
        BY <3>1, <3>2, FS_Singleton DEF Count
    <2>2. sensor \in Loops /\ Closed(sensor) /\ Count(sensor) = 1 + Chunks /\ Len(sensor) # 0
      <3>1. /\ sensor \in Loops /\ Closed(sensor)
            /\ Count(sensor) = Count(Chunk) + Count(Times(Chunks, Chunk))
            /\ Len(sensor) = Len(Chunk) + Len(Times(Chunks, Chunk))
        BY ONLY <1>1, <2>1, LoopJoined
      <3>2. QED
        BY ONLY <1>1, <2>1, <3>1
    <2> HIDE DEF sensor
    <2>3. /\ Times(Sensors, sensor) \in Loops /\ Closed(Times(Sensors, sensor))
          /\ Count(Times(Sensors, sensor)) = Sensors * (1 + Chunks)
      <3>1. IsLoop(Times(Sensors, sensor), Sensors * Count(sensor))
        BY ONLY SizesAssumption, <1>1, <2>2, LoopTimes
      <3>2. QED
        BY ONLY <2>2, <3>1 DEF IsLoop
    <2>4. Sensors * (1 + Chunks) \in Nat
      BY <1>1
    <2>5. c \in Loops /\ Closed(c) /\ Count(c) = Sensors * (1 + Chunks)
      <3>1. c \in Loops /\ Closed(c) /\ Count(c) = Count(Times(Sensors, sensor)) + Count(<<"check">>)
        BY ONLY <2>3, OneLook, LoopJoined
      <3>2. QED
        BY ONLY <2>3, <2>4, OneLook, <3>1
    <2>6. Steps(analysis) = open \o ((<<"zero">> \o Times(Sensors, sensor)) \o <<"check">>)
      BY <1>4 DEF Steps, analyze_annual_irradiance_controlled, sensor
    <2>7. Steps(analysis) = Opening("zero") \o c
      <3>1. OpensWith("zero", Times(Sensors, sensor), <<"check">>)
        BY <1>2, <2>3, OneLook, Regrouped
      <3>2. QED
        BY ONLY <2>6, <3>1 DEF OpensWith, open, c
    <2>8. Total(analysis) = Sensors * (1 + Chunks)
      BY <1>4 DEF Total, xv_scene_annual_irradiance
    <2> HIDE DEF c
    <2>9. QED
      BY <2>4, <2>5, <2>7, <2>8, RegularLoop
  <1>5. ASSUME NEW y \in Loops, Closed(y), Len(y) # 0,
               Steps(analysis) = open \o (((<<"find">> \o MatrixLoop) \o <<"insert">>) \o y),
               Total(analysis) = Cells + Count(y), Count(y) \in Nat
        PROVE  /\ Whole(Steps(analysis)) /\ Count(Steps(analysis)) = Total(analysis)
               /\ Total(analysis) \in Nat
    <2>1. MatrixLoop \in Seq(Ops) /\ y \in Seq(Ops)
      BY <1>1, <1>2, <1>5
    <2>2. Steps(analysis) = (Opening("find") \o MatrixLoop) \o (<<"insert">> \o y)
      <3>1. "find" \in Ops /\ <<"insert">> \in Seq(Ops)
        BY DEF Ops
      <3>2. \A rest \in Seq(Ops) :
              open \o (((<<"find">> \o MatrixLoop) \o <<"insert">>) \o rest)
                = (Opening("find") \o MatrixLoop) \o (<<"insert">> \o rest)
        <4>1. OpensWith("find", MatrixLoop, <<"insert">>)
          BY ONLY <2>1, <3>1, Regrouped
        <4>2. QED
          BY ONLY <4>1 DEF OpensWith, open
      <3>3. QED
        BY ONLY <1>5, <2>1, <3>2
    <2> DEFINE s == (Opening("find") \o MatrixLoop) \o (<<"insert">> \o y)
    <2>3. Whole(s) /\ Count(s) = Cells + Count(y)
      BY ONLY <1>5, y \in Loops, RegularMatrix
    <2> HIDE DEF s
    <2>4. Steps(analysis) = s
      BY ONLY <2>2 DEF s
    <2>5. Cells + Count(y) \in Nat
      BY ONLY <1>1, <1>5
    <2>6. QED
      BY ONLY <1>5, <2>3, <2>4, <2>5
  <1>6. CASE analysis = "point illuminance"
    <2>1. Steps(analysis) = open \o (((<<"find">> \o MatrixLoop) \o <<"insert">>)
                                        \o Times(Sensors, Chunk))
      BY <1>6 DEF Steps, analyze_point_illuminance_controlled,
              daylight_coefficient_matrix_controlled, MatrixLoop, Cells
    <2>2. Total(analysis) = Cells + Sensors
      <3>1. Total(analysis) = Sensors * (Chunks + 1)
        BY <1>6 DEF Total, xv_scene_point_illuminance
      <3>2. Sensors * (Chunks + 1) = Sensors * Chunks + Sensors
        BY <1>1
      <3>3. QED
        BY <3>1, <3>2 DEF Cells
    <2>3. QED
      BY <1>1, <1>5, <2>1, <2>2
  <1>7. CASE analysis = "annual daylight"
    <2>1. Steps(analysis) = open \o (((<<"find">> \o MatrixLoop) \o <<"insert">>) \o MatrixLoop)
      BY <1>7 DEF Steps, analyze_annual_daylight_controlled,
              daylight_coefficient_matrix_controlled, MatrixLoop, Cells
    <2>2. Total(analysis) = Cells + Cells
      <3>1. Total(analysis) = Sensors * (Chunks + Chunks)
        BY <1>7 DEF Total, xv_scene_annual_daylight
      <3>2. Sensors * (Chunks + Chunks) = Sensors * Chunks + Sensors * Chunks
        BY <1>1
      <3>3. QED
        BY <3>1, <3>2 DEF Cells
    <2>3. QED
      BY <1>1, <1>5, <2>1, <2>2
  <1>8. QED
    BY <1>3, <1>4, <1>6, <1>7 DEF Analyses

-----------------------------------------------------------------------------
(* What is left of a regular sequence.                                       *)

LEMMA Suffix ==
  ASSUME NEW s, Regular(s), NEW n \in Nat, NEW r \in Seq(Ops), Len(r) + n = Len(s),
         \A i \in 1..Len(r) : r[i] = s[i + n]
  PROVE  Regular(r)
  <1>1. /\ s \in Seq(Ops) /\ Len(r) \in Nat /\ n \in Nat
        /\ DOMAIN s = 1..(Len(r) + n) /\ DOMAIN r = 1..Len(r)
    BY DEF Regular
  <1>2. \A i \in DOMAIN r : i + n \in DOMAIN s /\ r[i] = s[i + n] /\ i \in Nat
    BY <1>1
  <1>3. ASSUME NEW i \in DOMAIN r, r[i] = "work", i > 1 PROVE r[i - 1] = "check"
    <2>1. i + n \in DOMAIN s /\ s[i + n] = "work" /\ i + n > 1
      BY <1>1, <1>2, <1>3
    <2>2. s[(i + n) - 1] = "check"
      BY <2>1 DEF Regular
    <2>3. i - 1 \in DOMAIN r /\ (i - 1) + n = (i + n) - 1
      BY <1>1, <1>3
    <2>4. QED
      BY <1>2, <2>2, <2>3
  <1>4. ASSUME NEW i \in DOMAIN r, r[i] = "total" PROVE i = 1
    <2>1. i + n = 1
      BY <1>2, <1>4 DEF Regular
    <2>2. QED
      BY <1>1, <2>1
  <1>5. ASSUME NEW i \in DOMAIN r, r[i] = "find" PROVE BuiltAfter(r, i)
    <2> DEFINE c == 2 * Cells
    <2>1. BuiltAfter(s, i + n)
      BY <1>2, <1>5 DEF Regular
    <2>2. /\ (i + n) + c + 1 \in DOMAIN s /\ s[(i + n) + c + 1] = "insert"
          /\ \A k \in 1..c : s[(i + n) + k] = MatrixLoop[k]
      BY <2>1 DEF BuiltAfter
    <2>3. c \in Nat
      BY LoopOfChunks
    <2> HIDE DEF c
    <2>4. /\ i + c + 1 \in DOMAIN r /\ (i + c + 1) + n = (i + n) + c + 1
          /\ \A k \in 1..c : i + k \in DOMAIN r /\ (i + k) + n = (i + n) + k
      BY <1>1, <2>2, <2>3
    <2>5. r[i + c + 1] = "insert" /\ \A k \in 1..c : r[i + k] = MatrixLoop[k]
      BY <1>2, <2>2, <2>4
    <2>6. QED
      BY <2>4, <2>5 DEF BuiltAfter, c
  <1>6. ASSUME NEW i \in DOMAIN r, r[i] = "insert" PROVE i < Len(r)
    <2>1. i + n < Len(s)
      BY <1>2, <1>6 DEF Regular
    <2>2. QED
      BY <1>1, <2>1
  <1>7. ASSUME NEW i \in DOMAIN r, NEW k \in DOMAIN r
        PROVE  /\ r[i] = "zero" /\ r[k] \in {"work", "find"} => i < k
               /\ r[i] = "insert" /\ r[k] = "insert" => i = k
               /\ r[i] = "find" /\ r[k] = "insert" => i < k
    <2>1. /\ s[i + n] = "zero" /\ s[k + n] \in {"work", "find"} => i + n < k + n
          /\ s[i + n] = "insert" /\ s[k + n] = "insert" => i + n = k + n
          /\ s[i + n] = "find" /\ s[k + n] = "insert" => i + n < k + n
      BY <1>2 DEF Regular
    <2>2. QED
      BY <1>1, <1>2, <2>1
  <1>8. QED
    BY <1>3, <1>4, <1>5, <1>6, <1>7 DEF Regular

\* The next step taken.
LEMMA RegularTail ==
  ASSUME NEW s, Regular(s), s # <<>>
  PROVE  /\ Head(s) \in Ops /\ Head(s) = s[1] /\ 1 \in DOMAIN s
         /\ Tail(s) \in Seq(Ops) /\ Regular(Tail(s)) /\ Len(Tail(s)) + 1 = Len(s)
         /\ DOMAIN Tail(s) = 1..Len(Tail(s)) /\ Len(Tail(s)) \in Nat
         /\ \A i \in DOMAIN Tail(s) : i + 1 \in DOMAIN s /\ Tail(s)[i] = s[i + 1]
         /\ \A i \in DOMAIN s : i = 1 \/ (i - 1 \in DOMAIN Tail(s) /\ s[i] = Tail(s)[i - 1])
         /\ Count(s) = (IF Head(s) = "work" THEN 1 ELSE 0) + Count(Tail(s))
         /\ Count(s) \in Nat /\ Count(Tail(s)) \in Nat
  <1>1. s \in Seq(Ops)
    BY DEF Regular
  <1>2. /\ Head(s) \in Ops /\ Head(s) = s[1] /\ Tail(s) \in Seq(Ops) /\ Len(Tail(s)) = Len(s) - 1
        /\ \A i \in 1..Len(Tail(s)) : Tail(s)[i] = s[i + 1]
    BY <1>1, HeadTailProperties
  <1>3. /\ Len(s) \in Nat /\ DOMAIN s = 1..Len(s) /\ Len(s) # 0
        /\ DOMAIN Tail(s) = 1..Len(Tail(s)) /\ Len(Tail(s)) \in Nat
    BY <1>1, <1>2
  <1>4. Regular(Tail(s))
    <2>1. Len(Tail(s)) + 1 = Len(s) /\ 1 \in Nat
      BY <1>2, <1>3
    <2>2. QED
      BY ONLY Regular(s), <1>2, <2>1, Suffix
  <1>5. Count(s) = Count(<<Head(s)>>) + Count(Tail(s))
    <2> DEFINE u == <<Head(s)>> \o Tail(s)
    <2>1. <<Head(s)>> \in Seq(Ops) /\ Len(<<Head(s)>>) = 1 /\ <<Head(s)>>[1] = s[1]
      BY <1>2
    <2>2. /\ u \in Seq(Ops) /\ Len(u) = 1 + Len(Tail(s))
          /\ \A i \in 1..1 : u[i] = <<Head(s)>>[i]
          /\ \A i \in (1 + 1)..(1 + Len(Tail(s))) : u[i] = Tail(s)[i - 1]
      <3>1. /\ u \in Seq(Ops) /\ Len(u) = Len(<<Head(s)>>) + Len(Tail(s))
            /\ \A i \in 1..Len(<<Head(s)>>) : u[i] = <<Head(s)>>[i]
            /\ \A i \in (Len(<<Head(s)>>) + 1)..(Len(<<Head(s)>>) + Len(Tail(s))) :
                 u[i] = Tail(s)[i - Len(<<Head(s)>>)]
        BY ONLY <1>2, <2>1, Joined
      <3>2. QED
        BY ONLY <2>1, <3>1
    <2> HIDE DEF u
    <2>3. ASSUME NEW i \in 1..Len(u) PROVE u[i] = s[i]
      <3>1. CASE i = 1
        BY <2>1, <2>2, <3>1
      <3>2. CASE i # 1
        <4>1. i \in (1 + 1)..(1 + Len(Tail(s))) /\ i - 1 \in 1..Len(Tail(s)) /\ (i - 1) + 1 = i
          BY <1>3, <2>2, <3>2
        <4>2. QED
          BY <1>2, <2>2, <4>1
      <3>3. QED
        BY <3>1, <3>2
    <2>4. Len(u) = Len(s)
      BY <1>2, <1>3, <2>2
    <2>5. u = s
      BY ONLY <1>1, <2>2, <2>3, <2>4, SeqEqual
    <2>6. Count(u) = Count(<<Head(s)>>) + Count(Tail(s))
      BY <1>2, <2>1, CountJoined DEF u
    <2>7. QED
      BY <2>5, <2>6
  <1>6. Count(<<Head(s)>>) = IF Head(s) = "work" THEN 1 ELSE 0
    <2> DEFINE h == <<Head(s)>>
    <2>1. h \in Seq(Ops) /\ DOMAIN h = {1} /\ h[1] = Head(s)
      BY <1>2
    <2> HIDE DEF h
    <2>2. CASE Head(s) = "work"
      <3>1. Works(h) = {1}
        BY <2>1, <2>2 DEF Works
      <3>2. QED
        BY <2>2, <3>1, FS_Singleton DEF Count, h
    <2>3. CASE Head(s) # "work"
      <3>1. Count(h) = 0
        BY <2>1, <2>3, CountNone
      <3>2. QED
        BY <2>3, <3>1 DEF h
    <2>4. QED
      BY <2>2, <2>3
  <1>7. Count(s) \in Nat /\ Count(Tail(s)) \in Nat
    BY <1>1, <1>2, CountType
  <1>8. \A i \in DOMAIN s : i = 1 \/ (i - 1 \in DOMAIN Tail(s) /\ s[i] = Tail(s)[i - 1])
    <2>1. ASSUME NEW i \in DOMAIN s, i # 1
          PROVE  i - 1 \in DOMAIN Tail(s) /\ s[i] = Tail(s)[i - 1]
      <3>1. i - 1 \in 1..Len(Tail(s)) /\ (i - 1) + 1 = i
        BY <1>2, <1>3, <2>1
      <3>2. QED
        BY <1>2, <1>3, <3>1
    <2>2. QED
      BY <2>1
  <1>9. \A i \in DOMAIN Tail(s) : i + 1 \in DOMAIN s /\ Tail(s)[i] = s[i + 1]
    BY <1>2, <1>3
  <1>10. 1 \in DOMAIN s /\ Len(Tail(s)) + 1 = Len(s)
    BY <1>2, <1>3
  <1>11. QED
    BY ONLY <1>2, <1>3, <1>4, <1>5, <1>6, <1>7, <1>8, <1>9, <1>10

LEMMA Dropped ==
  ASSUME NEW s \in Seq(Ops), NEW n \in Nat, n < Len(s)
  PROVE  LET d == SubSeq(s, n + 1, Len(s))
         IN  /\ d \in Seq(Ops) /\ Len(d) + n = Len(s)
             /\ \A i \in 1..Len(d) : d[i] = s[i + n]
  <1> DEFINE d == SubSeq(s, n + 1, Len(s))
  <1>1. n + 1 \in Int /\ Len(s) \in Int /\ \A i \in (n + 1)..Len(s) : s[i] \in Ops
    OBVIOUS
  <1>2. /\ d \in Seq(Ops) /\ Len(d) = (IF n + 1 <= Len(s) THEN Len(s) - (n + 1) + 1 ELSE 0)
        /\ \A i \in 1..(Len(s) - (n + 1) + 1) : d[i] = s[(n + 1) + i - 1]
    BY <1>1, SubSeqProperties
  <1> HIDE DEF d
  <1>3. Len(d) = Len(s) - n /\ Len(s) \in Nat
    BY <1>2
  <1>4. \A i \in 1..Len(d) : i \in 1..(Len(s) - (n + 1) + 1) /\ (n + 1) + i - 1 = i + n
    BY <1>3
  <1>5. \A i \in 1..Len(d) : d[i] = s[i + n]
    BY ONLY <1>2, <1>4
  <1>6. Len(d) + n = Len(s)
    BY <1>3
  <1>7. QED
    BY <1>2, <1>5, <1>6 DEF d

LEMMA SameLength ==
  ASSUME NEW a \in Nat, NEW n \in Nat, NEW l \in Nat, a + (n + 2) = l
  PROVE  (1 + n) + (1 + a) = l
  OBVIOUS

\* A matrix found: the loop that builds it is left out, all its chunks at once.
LEMMA RegularAfterInsert ==
  ASSUME NEW s, Regular(s), s # <<>>, Head(s) = "find"
  PROVE  /\ AfterInsert(s) \in Seq(Ops) /\ Regular(AfterInsert(s)) /\ AfterInsert(s) # <<>>
         /\ Head(AfterInsert(s)) # "work"
         /\ \A i \in DOMAIN AfterInsert(s) : AfterInsert(s)[i] \notin {"insert", "total", "zero"}
         /\ Count(s) = Cells + Count(AfterInsert(s))
  <1> DEFINE n == 2 * Cells
             r == SubSeq(s, n + 3, Len(s))
  <1>1. s \in Seq(Ops) /\ DOMAIN s = 1..Len(s) /\ Len(s) \in Nat /\ s[1] = "find" /\ 1 \in DOMAIN s
    BY DEF Regular
  <1>2. n \in Nat /\ Cells \in Nat
    BY LoopOfChunks
  <1>3. /\ n + 2 \in DOMAIN s /\ s[n + 2] = "insert"
        /\ \A k \in 1..n : s[1 + k] = MatrixLoop[k]
    <2>1. BuiltAfter(s, 1)
      BY <1>1 DEF Regular
    <2>2. /\ 1 + 2 * Cells + 1 \in DOMAIN s /\ s[1 + 2 * Cells + 1] = "insert"
          /\ \A k \in 1..(2 * Cells) : s[1 + k] = MatrixLoop[k]
      BY <2>1 DEF BuiltAfter
    <2>3. 1 + n + 1 = n + 2
      BY <1>2
    <2>4. QED
      BY <2>2, <2>3
  <1>4. n + 2 < Len(s)
    BY <1>3 DEF Regular
  <1>5. \A i \in DOMAIN s : s[i] = "insert" => i = n + 2
    BY <1>3 DEF Regular
  <1>6. AfterInsert(s) = r
    <2>1. (CHOOSE i \in DOMAIN s : s[i] = "insert") = n + 2
      BY <1>3, <1>5
    <2>2. 1 + (n + 2) = n + 3
      BY <1>2
    <2>3. QED
      BY <2>1, <2>2 DEF AfterInsert
  <1> HIDE DEF n
  <1>7. /\ r \in Seq(Ops) /\ Len(r) + (n + 2) = Len(s) /\ n + 2 \in Nat
        /\ \A i \in 1..Len(r) : r[i] = s[i + (n + 2)]
    <2>1. n + 2 \in Nat /\ (n + 2) + 1 = n + 3
      BY <1>2
    <2>2. LET d == SubSeq(s, (n + 2) + 1, Len(s))
          IN  /\ d \in Seq(Ops) /\ Len(d) + (n + 2) = Len(s)
              /\ \A i \in 1..Len(d) : d[i] = s[i + (n + 2)]
      BY ONLY <1>1, <1>4, <2>1, Dropped
    <2>3. QED
      BY ONLY <2>1, <2>2
  <1> HIDE DEF r
  <1>8. Regular(r)
    BY ONLY Regular(s), <1>7, Suffix
  <1>9. DOMAIN r = 1..Len(r) /\ Len(r) \in Nat /\ Len(r) >= 1 /\ r # <<>> /\ Head(r) = r[1]
    BY <1>1, <1>2, <1>4, <1>7
  <1>10. ASSUME NEW i \in DOMAIN r
         PROVE  i + (n + 2) \in DOMAIN s /\ i + (n + 2) > n + 2 /\ r[i] = s[i + (n + 2)]
    BY <1>1, <1>2, <1>7, <1>9
  <1>11. ASSUME NEW i \in DOMAIN r PROVE r[i] \notin {"insert", "total", "zero"}
    <2>1. i + (n + 2) # n + 2 /\ i + (n + 2) # 1 /\ ~(i + (n + 2) < 1)
      BY <1>2, <1>9
    <2>2. r[i] # "insert"
      BY <1>5, <1>10, <2>1
    <2>3. r[i] # "total"
      BY <1>10, <2>1 DEF Regular
    <2>4. r[i] # "zero"
      BY <1>1, <1>10, <2>1 DEF Regular
    <2>5. QED
      BY <2>2, <2>3, <2>4
  <1>12. r[1] # "work"
    <2>1. 1 + (n + 2) \in DOMAIN s /\ 1 + (n + 2) > 1 /\ r[1] = s[1 + (n + 2)]
          /\ (1 + (n + 2)) - 1 = n + 2
      BY <1>2, <1>9, <1>10
    <2>2. s[1 + (n + 2)] = "work" => s[(1 + (n + 2)) - 1] = "check"
      BY <2>1 DEF Regular
    <2>3. QED
      BY <1>3, <2>1, <2>2
  <1>13. Count(s) = Cells + Count(r)
    <2> DEFINE f == <<"find">>
               g == <<"insert">>
               a == f \o MatrixLoop
               b == g \o r
               u == a \o b
    <2>1. /\ f \in Seq(Ops) /\ Len(f) = 1 /\ f[1] = "find" /\ Count(f) = 0
          /\ g \in Seq(Ops) /\ Len(g) = 1 /\ g[1] = "insert" /\ Count(g) = 0
      <3>1. /\ f \in Seq(Ops) /\ Len(f) = 1 /\ f[1] = "find" /\ DOMAIN f = {1}
            /\ g \in Seq(Ops) /\ Len(g) = 1 /\ g[1] = "insert" /\ DOMAIN g = {1}
        BY DEF Ops
      <3>2. QED
        BY <3>1, CountNone
    <2>2. MatrixLoop \in Seq(Ops) /\ Len(MatrixLoop) = n /\ Count(MatrixLoop) = Cells
      BY <1>2, LoopOfChunks, LoopsAreSteps DEF MatrixLoop, n
    <2> HIDE DEF f, g
    <2>3. /\ a \in Seq(Ops) /\ Len(a) = 1 + n /\ Count(a) = Cells
          /\ a[1] = "find" /\ \A i \in 2..(1 + n) : a[i] = MatrixLoop[i - 1]
      <3>1. /\ a \in Seq(Ops) /\ Len(a) = Len(f) + Len(MatrixLoop)
            /\ \A i \in 1..Len(f) : a[i] = f[i]
            /\ \A i \in (Len(f) + 1)..(Len(f) + Len(MatrixLoop)) : a[i] = MatrixLoop[i - Len(f)]
        BY ONLY <2>1, <2>2, Joined
      <3>2. Count(a) = Count(f) + Count(MatrixLoop)
        BY ONLY <2>1, <2>2, CountJoined
      <3>3. QED
        BY ONLY <1>2, <2>1, <2>2, <3>1, <3>2
    <2>4. /\ b \in Seq(Ops) /\ Len(b) = 1 + Len(r) /\ Count(b) = Count(r)
          /\ b[1] = "insert" /\ \A i \in 2..(1 + Len(r)) : b[i] = r[i - 1]
      <3>1. /\ b \in Seq(Ops) /\ Len(b) = Len(g) + Len(r)
            /\ \A i \in 1..Len(g) : b[i] = g[i]
            /\ \A i \in (Len(g) + 1)..(Len(g) + Len(r)) : b[i] = r[i - Len(g)]
        BY ONLY <1>7, <2>1, Joined
      <3>2. Count(b) = Count(g) + Count(r) /\ Count(r) \in Nat
        BY ONLY <1>7, <2>1, CountJoined, CountType
      <3>3. QED
        BY ONLY <1>9, <2>1, <3>1, <3>2
    <2> HIDE DEF a, b
    <2>5. /\ u \in Seq(Ops) /\ Len(u) = (1 + n) + (1 + Len(r)) /\ Count(u) = Cells + Count(r)
          /\ \A i \in 1..(1 + n) : u[i] = a[i]
          /\ \A i \in ((1 + n) + 1)..((1 + n) + (1 + Len(r))) : u[i] = b[i - (1 + n)]
      <3>1. /\ u \in Seq(Ops) /\ Len(u) = Len(a) + Len(b)
            /\ \A i \in 1..Len(a) : u[i] = a[i]
            /\ \A i \in (Len(a) + 1)..(Len(a) + Len(b)) : u[i] = b[i - Len(a)]
        BY ONLY <2>3, <2>4, Joined
      <3>2. Count(u) = Count(a) + Count(b)
        BY ONLY <2>3, <2>4, CountJoined
      <3>3. QED
        BY ONLY <2>3, <2>4, <3>1, <3>2
    <2> HIDE DEF u
    <2>6. Len(u) = Len(s)
      <3>1. Len(r) \in Nat /\ n \in Nat /\ Len(s) \in Nat /\ Len(r) + (n + 2) = Len(s)
        BY <1>1, <1>2, <1>7, <1>9
      <3>2. QED
        BY ONLY <2>5, <3>1, SameLength
    <2>7. ASSUME NEW i \in 1..Len(u) PROVE u[i] = s[i]
      <3>1. CASE i = 1
        BY <1>1, <1>2, <2>3, <2>5, <3>1
      <3>2. CASE i \in 2..(1 + n)
        <4>1. i \in 1..(1 + n) /\ i - 1 \in 1..n /\ 1 + (i - 1) = i
          BY <1>2, <3>2
        <4>2. QED
          BY <1>3, <2>3, <2>5, <3>2, <4>1
      <3>3. CASE i = n + 2
        <4>1. i \in ((1 + n) + 1)..((1 + n) + (1 + Len(r))) /\ i - (1 + n) = 1
          BY <1>2, <1>9, <3>3
        <4>2. QED
          BY <1>3, <2>4, <2>5, <3>3, <4>1
      <3>4. CASE i > n + 2
        <4>1. /\ i \in ((1 + n) + 1)..((1 + n) + (1 + Len(r)))
              /\ i - (1 + n) \in 2..(1 + Len(r)) /\ (i - (1 + n)) - 1 = i - (n + 2)
              /\ i - (n + 2) \in 1..Len(r) /\ (i - (n + 2)) + (n + 2) = i
          BY ONLY <1>2, <1>9, <2>5, <2>7, <3>4
        <4>2. QED
          BY <1>7, <2>4, <2>5, <4>1
      <3>5. QED
        BY <1>2, <3>1, <3>2, <3>3, <3>4
    <2>8. u = s
      BY ONLY <1>1, <2>5, <2>6, <2>7, SeqEqual
    <2>9. QED
      BY <2>5, <2>8
  <1>14. QED
    BY ONLY <1>6, <1>7, <1>8, <1>9, <1>11, <1>12, <1>13

-----------------------------------------------------------------------------
(* The inductive invariant.                                                 *)

Matrices == {""} \cup (UNION {{w[j].matrix : j \in DOMAIN w} : w \in Workloads})
                 \cup (UNION {ToSet(c) : c \in EarlierMatrices})

Natives == [live : BOOLEAN, cancelled : BOOLEAN, total : Nat, completed : Nat]
Calls == [analysis : Analyses \cup {""}, matrix : Matrices, rest : Seq(Ops),
          outcome : {"", "succeeded", "cancelled", "failed"}]
Objects == [closed : BOOLEAN, last : [total : Nat, completed : Nat]]
Readers == [holder : {"nobody", "client", "continuation"},
            step : {"", "total", "completed", "report"}, total : Nat, completed : Nat]

Types ==
  /\ native \in [Jobs -> Natives]
  /\ call \in [Jobs -> Calls]
  /\ managed \in [Jobs -> Objects]
  /\ reader \in [Jobs -> Readers]
  /\ token \in [Jobs -> {"none", "calling", "called"}]
  /\ cache \in Seq(Matrices)
  /\ late \in [Jobs -> Nat]

\* A call that has begun follows a regular sequence; before and after there is no step left.
CallInv(j) ==
  /\ call[j].outcome = "" => call[j].analysis \in Analyses
  /\ call[j].outcome # "" => ~Running(j)
  /\ Regular(call[j].rest)

\* The handle is in the table until the object is closed, and nobody is about to use it then.
HandleInv(j) ==
  /\ native[j].live <=> ~managed[j].closed
  /\ managed[j].closed => call[j].outcome # "" /\ Free(j) /\ token[j] # "calling"
  /\ ~Free(j) => reader[j].step # ""
  /\ reader[j].holder = "continuation" => call[j].outcome # ""

\* A chunk done too late leaves the call in front of a look at the flag, or past its chunks.
LateInv(j) == late[j] <= 1 /\ (late[j] = 1 => native[j].cancelled /\ ~At(j, "work"))

\* What is done and what is left make up what was announced.
WorkInv(j) ==
  /\ call[j].outcome = "" /\ ~Running(j) => native[j].total = 0 /\ native[j].completed = 0
  /\ Running(j) =>
       /\ native[j].completed + Count(call[j].rest) = Total(call[j].analysis)
       /\ IF At(j, "total") THEN native[j].total = 0 ELSE native[j].total = Total(call[j].analysis)
       /\ (\E i \in DOMAIN call[j].rest : call[j].rest[i] \in {"total", "zero"}) => native[j].completed = 0
  /\ call[j].outcome = "succeeded" =>
       native[j].total = Total(call[j].analysis) /\ native[j].completed = Total(call[j].analysis)
  /\ native[j].completed <= native[j].total

\* What a reader holds was read after the announcement or shows no total.
ReaderInv(j) ==
  /\ reader[j].step \in {"", "total", "completed"} => reader[j].completed = 0
  /\ reader[j].total # 0 => reader[j].total = native[j].total /\ reader[j].completed <= reader[j].total
  /\ reader[j].holder = "continuation" /\ reader[j].step \in {"completed", "report"} =>
       reader[j].total = native[j].total
  /\ managed[j].last.total # 0 => managed[j].last.completed <= managed[j].last.total
  /\ managed[j].closed /\ call[j].outcome = "succeeded" =>
       managed[j].last.completed = Total(call[j].analysis)

\* j looked its matrix up in vain and has not inserted it yet.
Builds(j) ==
  /\ \E i \in DOMAIN call[j].rest : call[j].rest[i] = "insert"
  /\ \A i \in DOMAIN call[j].rest : call[j].rest[i] # "find"

\* A matrix that did not race is in one place: in the cache, or in the making by one call.
CacheInv ==
  /\ Len(cache) <= MATRIX_CACHE_CAPACITY
  /\ \A i, k \in DOMAIN cache : i < k /\ cache[i] = cache[k] => cache[i] \in raced
  /\ \A j \in Jobs : \A i \in DOMAIN cache :
       Builds(j) /\ cache[i] = call[j].matrix => call[j].matrix \in raced
  /\ \A j, k \in Jobs : Builds(j) /\ Builds(k) /\ j # k /\ call[j].matrix = call[k].matrix =>
       call[j].matrix \in raced

JobInv(j) == CallInv(j) /\ HandleInv(j) /\ LateInv(j) /\ WorkInv(j) /\ ReaderInv(j)
IInv == Types /\ (\A j \in Jobs : JobInv(j)) /\ CacheInv

-----------------------------------------------------------------------------
(* One step changes the state of one job.                                    *)

LEMMA Untouched ==
  ASSUME NEW j, NEW k, k \in Jobs, k # j, JobInv(k),
         native'[k] = native[k], call'[k] = call[k], managed'[k] = managed[k],
         reader'[k] = reader[k], token'[k] = token[k], late'[k] = late[k]
  PROVE  JobInv(k)'
  <1>1. CallInv(k)'
    BY DEF JobInv, CallInv, Running
  <1>2. HandleInv(k)'
    BY DEF JobInv, HandleInv, Free
  <1>3. LateInv(k)'
    BY DEF JobInv, LateInv, At, Running
  <1>4. WorkInv(k)'
    BY DEF JobInv, WorkInv, At, Running
  <1>5. ReaderInv(k)'
    BY DEF JobInv, ReaderInv
  <1>6. QED
    BY <1>1, <1>2, <1>3, <1>4, <1>5 DEF JobInv

LEMMA CacheKept ==
  ASSUME CacheInv, cache' = cache, \A m \in raced : m \in raced',
         \A k \in Jobs : call'[k].matrix = call[k].matrix /\ (Builds(k)' => Builds(k))
  PROVE  CacheInv'
  <1>1. Len(cache') <= MATRIX_CACHE_CAPACITY
    BY DEF CacheInv
  <1>2. \A i, k \in DOMAIN cache' : i < k /\ cache'[i] = cache'[k] => cache'[i] \in raced'
    BY DEF CacheInv
  <1>3. \A j \in Jobs : \A i \in DOMAIN cache' :
          Builds(j)' /\ cache'[i] = call'[j].matrix => call'[j].matrix \in raced'
    BY DEF CacheInv
  <1>4. \A j, k \in Jobs : Builds(j)' /\ Builds(k)' /\ j # k /\ call'[j].matrix = call'[k].matrix =>
          call'[j].matrix \in raced'
    BY DEF CacheInv
  <1>5. QED
    BY <1>1, <1>2, <1>3, <1>4 DEF CacheInv

\* A step that touches neither the calls nor the cache, and one job at most.
LEMMA ObjectStep ==
  ASSUME IInv, NEW j \in Jobs, Types', UNCHANGED <<call, cache, raced, late>>,
         \A k \in Jobs \ {j} : /\ native'[k] = native[k] /\ managed'[k] = managed[k]
                               /\ reader'[k] = reader[k] /\ token'[k] = token[k],
         HandleInv(j)', LateInv(j)', WorkInv(j)', ReaderInv(j)'
  PROVE  IInv'
  <1>1. CallInv(j)'
    BY DEF IInv, JobInv, CallInv, Running
  <1>2. JobInv(j)'
    BY <1>1 DEF JobInv
  <1>3. ASSUME NEW k \in Jobs, k # j PROVE JobInv(k)'
    BY <1>3, Untouched DEF IInv
  <1>4. CacheInv'
    <2>1. \A k \in Jobs : call'[k].matrix = call[k].matrix /\ (Builds(k)' => Builds(k))
      BY DEF Builds
    <2>2. QED
      BY <2>1, CacheKept DEF IInv
  <1>5. QED
    BY <1>2, <1>3, <1>4 DEF IInv

\* What the invariant says of the counters, for the parts of a step that leave them alone.
LEMMA CountersKept ==
  ASSUME NEW j \in Jobs, WorkInv(j), call' = call,
         native'[j].total = native[j].total, native'[j].completed = native[j].completed
  PROVE  WorkInv(j)'
  BY DEF WorkInv, At, Running

LEMMA ReaderTakes ==
  ASSUME NEW who \in {"client", "continuation"}
  PROVE  /\ Unlocked \in Readers /\ Unlocked.holder = "nobody" /\ Unlocked.step = ""
         /\ Unlocked.total = 0 /\ Unlocked.completed = 0
         /\ LET v == [Unlocked EXCEPT !.holder = who, !.step = "total"]
            IN  v \in Readers /\ v.holder = who /\ v.step = "total" /\ v.total = 0 /\ v.completed = 0
  <1> DEFINE v == [Unlocked EXCEPT !.holder = who, !.step = "total"]
  <1>1. /\ Unlocked \in Readers /\ Unlocked.holder = "nobody" /\ Unlocked.step = ""
        /\ Unlocked.total = 0 /\ Unlocked.completed = 0
    BY DEF Unlocked, Readers
  <1>2. v.holder = who
    BY DEF Unlocked
  <1>3. v.step = "total"
    BY DEF Unlocked
  <1>4. v.total = 0 /\ v.completed = 0
    BY DEF Unlocked
  <1>5. v \in Readers
    BY <1>1 DEF Readers
  <1>6. QED
    BY <1>1, <1>2, <1>3, <1>4, <1>5

LEMMA ProgressStep ==
  ASSUME IInv, NEW j \in Jobs, Progress(j) \/ Complete(j)
  PROVE  IInv'
  <1>1. /\ UNCHANGED <<native, call, managed, token, cache, raced, late>>
        /\ Free(j) /\ ~managed[j].closed
        /\ \/ reader' = [reader EXCEPT ![j] = [Unlocked EXCEPT !.holder = "client", !.step = "total"]]
           \/ /\ reader' = [reader EXCEPT ![j] = [Unlocked EXCEPT !.holder = "continuation", !.step = "total"]]
              /\ call[j].outcome # ""
    BY DEF Progress, Complete, Finished
  <1>2. PICK v \in Readers :
          /\ reader' = [reader EXCEPT ![j] = v]
          /\ v.holder \in {"client", "continuation"} /\ v.step = "total"
          /\ v.total = 0 /\ v.completed = 0
          /\ v.holder = "continuation" => call[j].outcome # ""
    BY <1>1, ReaderTakes
  <1>3. Types /\ JobInv(j)
    BY DEF IInv
  <1>4. Types'
    BY <1>1, <1>2, <1>3 DEF Types
  <1>5. reader'[j] = v /\ \A k \in Jobs \ {j} : reader'[k] = reader[k]
    BY <1>2, <1>3 DEF Types
  <1>6. HandleInv(j)'
    BY <1>1, <1>2, <1>3, <1>5 DEF JobInv, HandleInv, Free
  <1>7. LateInv(j)' /\ WorkInv(j)'
    BY <1>1, <1>3, CountersKept DEF JobInv, LateInv, At, Running
  <1>8. ReaderInv(j)'
    BY <1>1, <1>2, <1>3, <1>5 DEF JobInv, ReaderInv
  <1>9. QED
    BY <1>1, <1>4, <1>5, <1>6, <1>7, <1>8, ObjectStep

LEMMA LoadStep ==
  ASSUME IInv, NEW j \in Jobs, Load(j)
  PROVE  IInv'
  <1>1. /\ UNCHANGED <<native, call, managed, token, cache, raced, late>>
        /\ ~Free(j) /\ reader[j].step # "report"
    BY DEF Load
  <1>2. Types /\ JobInv(j)
    BY DEF IInv
  <1>3. /\ reader[j].step \in {"total", "completed"} /\ reader[j] \in Readers
        /\ native[j].total \in Nat /\ native[j].completed \in Nat
    BY <1>1, <1>2 DEF Types, JobInv, HandleInv, Readers, Natives
  <1>4. /\ reader[j].step = "total" =>
             reader' = [reader EXCEPT ![j].step = "completed", ![j].total = native[j].total]
        /\ reader[j].step = "completed" =>
             reader' = [reader EXCEPT ![j].step = "report", ![j].completed = native[j].completed]
    BY <1>3 DEF Load
  <1>5. \A k \in Jobs \ {j} : reader'[k] = reader[k]
    BY <1>2, <1>3, <1>4 DEF Types
  <1>6. CASE reader[j].step = "total"
    <2>1. /\ reader'[j].holder = reader[j].holder /\ reader'[j].step = "completed"
          /\ reader'[j].total = native[j].total /\ reader'[j].completed = reader[j].completed
          /\ reader'[j] \in Readers
      <3>1. reader'[j] = [reader[j] EXCEPT !.step = "completed", !.total = native[j].total]
        BY <1>2, <1>4, <1>6 DEF Types
      <3>2. QED
        BY ONLY <1>3, <3>1 DEF Readers
    <2>2. Types'
      BY <1>1, <1>2, <1>4, <1>6, <2>1 DEF Types
    <2>3. HandleInv(j)'
      BY <1>1, <1>2, <2>1 DEF JobInv, HandleInv, Free
    <2>4. LateInv(j)' /\ WorkInv(j)'
      BY <1>1, <1>2, CountersKept DEF JobInv, LateInv, At, Running
    <2>5. ReaderInv(j)'
      BY <1>1, <1>2, <1>3, <1>6, <2>1 DEF JobInv, ReaderInv
    <2>6. QED
      BY <1>1, <1>5, <2>2, <2>3, <2>4, <2>5, ObjectStep
  <1>7. CASE reader[j].step = "completed"
    <2>1. /\ reader'[j].holder = reader[j].holder /\ reader'[j].step = "report"
          /\ reader'[j].total = reader[j].total /\ reader'[j].completed = native[j].completed
          /\ reader'[j] \in Readers
      <3>1. reader'[j] = [reader[j] EXCEPT !.step = "report", !.completed = native[j].completed]
        BY <1>2, <1>4, <1>7 DEF Types
      <3>2. QED
        BY ONLY <1>3, <3>1 DEF Readers
    <2>2. Types'
      BY <1>1, <1>2, <1>4, <1>7, <2>1 DEF Types
    <2>3. HandleInv(j)'
      BY <1>1, <1>2, <2>1 DEF JobInv, HandleInv, Free
    <2>4. LateInv(j)' /\ WorkInv(j)'
      BY <1>1, <1>2, CountersKept DEF JobInv, LateInv, At, Running
    <2>5. native[j].completed <= native[j].total
      BY <1>2 DEF JobInv, WorkInv
    <2>6. ReaderInv(j)'
      BY <1>1, <1>2, <1>3, <1>7, <2>1, <2>5 DEF JobInv, ReaderInv
    <2>7. QED
      BY <1>1, <1>5, <2>2, <2>3, <2>4, <2>6, ObjectStep
  <1>8. QED
    BY <1>3, <1>6, <1>7

LEMMA ReportStep ==
  ASSUME IInv, NEW j \in Jobs, ReportToClient(j)
  PROVE  IInv'
  <1>1. /\ UNCHANGED <<native, call, token, cache, raced, late>>
        /\ reader[j].holder = "client" /\ reader[j].step = "report"
        /\ managed' = [managed EXCEPT ![j].last = Report(j)]
        /\ reader' = [reader EXCEPT ![j] = Unlocked]
    BY DEF ReportToClient, Holds
  <1>2. Types /\ JobInv(j)
    BY DEF IInv
  <1>3. /\ reader[j] \in Readers /\ managed[j] \in Objects
        /\ reader[j].total \in Nat /\ reader[j].completed \in Nat
    BY <1>2 DEF Types, Readers
  <1>4. /\ reader'[j] = Unlocked /\ \A k \in Jobs \ {j} : reader'[k] = reader[k]
        /\ managed'[j].closed = managed[j].closed /\ managed'[j].last = Report(j)
        /\ \A k \in Jobs \ {j} : managed'[k] = managed[k]
    BY <1>1, <1>2 DEF Types, Objects
  <1>5. Types'
    <2>1. reader' \in [Jobs -> Readers]
      BY <1>1, <1>2 DEF Types, Readers, Unlocked
    <2>2. managed' \in [Jobs -> Objects]
      BY <1>1, <1>2, <1>3 DEF Types, Objects, Report
    <2>3. QED
      BY <1>1, <1>2, <2>1, <2>2 DEF Types
  <1>6. ~managed[j].closed
    BY <1>1, <1>2 DEF JobInv, HandleInv, Free
  <1>7. HandleInv(j)'
    BY <1>1, <1>2, <1>4, <1>6, ReaderTakes DEF JobInv, HandleInv, Free
  <1>8. LateInv(j)' /\ WorkInv(j)'
    BY <1>1, <1>2, CountersKept DEF JobInv, LateInv, At, Running
  <1>9. ReaderInv(j)'
    <2>1. /\ managed'[j].last.total = reader[j].total
          /\ managed'[j].last.completed = reader[j].completed
      BY <1>4 DEF Report
    <2>2. reader[j].total # 0 => reader[j].completed <= reader[j].total
      BY <1>2 DEF JobInv, ReaderInv
    <2>3. ~managed'[j].closed
      BY <1>4, <1>6
    <2>4. QED
      BY <1>4, <2>1, <2>2, <2>3, ReaderTakes DEF ReaderInv
  <1>10. QED
    BY <1>1, <1>4, <1>5, <1>7, <1>8, <1>9, ObjectStep

LEMMA CloseStep ==
  ASSUME IInv, NEW j \in Jobs, Close(j)
  PROVE  IInv'
  <1> DEFINE report == IF call[j].outcome = "succeeded"
                         THEN [total |-> reader[j].total, completed |-> reader[j].total]
                         ELSE [total |-> reader[j].total, completed |-> reader[j].completed]
  <1>1. /\ UNCHANGED <<call, token, cache, raced, late>>
        /\ reader[j].holder = "continuation" /\ reader[j].step = "report" /\ token[j] # "calling"
        /\ managed' = [managed EXCEPT ![j].closed = TRUE, ![j].last = report]
        /\ native' = [native EXCEPT ![j].live = FALSE]
        /\ reader' = [reader EXCEPT ![j] = Unlocked]
    <2>1. [Report(j) EXCEPT !.completed = reader[j].total]
            = [total |-> reader[j].total, completed |-> reader[j].total]
      BY DEF Report
    <2>2. QED
      BY <2>1 DEF Close, Holds, MayClose, Report
  <1>2. Types /\ JobInv(j)
    BY DEF IInv
  <1>3. /\ reader[j] \in Readers /\ managed[j] \in Objects /\ native[j] \in Natives
        /\ reader[j].total \in Nat /\ reader[j].completed \in Nat
    BY <1>2 DEF Types, Readers
  <1>4. report \in [total : Nat, completed : Nat]
    BY <1>3
  <1>5. /\ report.total = reader[j].total
        /\ call[j].outcome = "succeeded" => report.completed = reader[j].total
        /\ call[j].outcome # "succeeded" => report.completed = reader[j].completed
    OBVIOUS
  <1> HIDE DEF report
  <1>6. /\ reader'[j] = Unlocked /\ \A k \in Jobs \ {j} : reader'[k] = reader[k]
        /\ managed'[j].closed = TRUE /\ managed'[j].last = report
        /\ \A k \in Jobs \ {j} : managed'[k] = managed[k]
        /\ native'[j].live = FALSE /\ native'[j].cancelled = native[j].cancelled
        /\ native'[j].total = native[j].total /\ native'[j].completed = native[j].completed
        /\ \A k \in Jobs \ {j} : native'[k] = native[k]
    BY <1>1, <1>2 DEF Types, Objects, Natives
  <1>7. Types'
    <2>1. reader' \in [Jobs -> Readers]
      BY <1>1, <1>2 DEF Types, Readers, Unlocked
    <2>2. managed' \in [Jobs -> Objects]
      <3>1. [managed[j] EXCEPT !.closed = TRUE, !.last = report] \in Objects
        BY <1>3, <1>4 DEF Objects
      <3>2. managed' = [managed EXCEPT ![j] = [managed[j] EXCEPT !.closed = TRUE, !.last = report]]
        BY <1>1, <1>2 DEF Types
      <3>3. QED
        BY <1>2, <3>1, <3>2 DEF Types
    <2>3. native' \in [Jobs -> Natives]
      BY <1>1, <1>2 DEF Types, Natives
    <2>4. QED
      BY <1>1, <1>2, <2>1, <2>2, <2>3 DEF Types
  <1>8. HandleInv(j)'
    BY <1>1, <1>2, <1>6, ReaderTakes DEF JobInv, HandleInv, Free
  <1>9. LateInv(j)'
    BY <1>1, <1>2, <1>6 DEF JobInv, LateInv, At, Running
  <1>10. WorkInv(j)'
    BY <1>1, <1>2, <1>6, CountersKept DEF JobInv
  <1>11. ReaderInv(j)'
    <2>1. reader[j].total = native[j].total
      BY <1>1, <1>2 DEF JobInv, ReaderInv
    <2>2. call[j].outcome = "succeeded" => native[j].total = Total(call[j].analysis)
      BY <1>2 DEF JobInv, WorkInv
    <2>3. report.total # 0 => report.completed <= report.total
      <3>1. reader[j].total # 0 => reader[j].completed <= reader[j].total
        BY <1>2 DEF JobInv, ReaderInv
      <3>2. QED
        BY <1>3, <1>5, <3>1
    <2>4. call[j].outcome = "succeeded" => report.completed = Total(call[j].analysis)
      BY <1>5, <2>1, <2>2
    <2>5. QED
      BY <1>1, <1>6, <2>3, <2>4, ReaderTakes DEF ReaderInv
  <1>12. QED
    BY <1>1, <1>6, <1>7, <1>8, <1>9, <1>10, <1>11, ObjectStep

LEMMA CancelStep ==
  ASSUME IInv, NEW j \in Jobs, Cancel(j) \/ TokenFires(j) \/ RequestCancellation(j)
  PROVE  IInv'
  <1>1. Types /\ JobInv(j)
    BY DEF IInv
  <1>2. /\ UNCHANGED <<call, managed, reader, cache, raced, late>>
        /\ native' = native \/ native' = [native EXCEPT ![j].cancelled = TRUE]
        /\ \/ token' = token
           \/ token' = [token EXCEPT ![j] = "calling"] /\ ~managed[j].closed
           \/ token' = [token EXCEPT ![j] = "called"]
    BY DEF Cancel, TokenFires, RequestCancellation
  <1>3. /\ native'[j].live = native[j].live
        /\ native'[j].cancelled = native[j].cancelled \/ native'[j].cancelled = TRUE
        /\ native'[j].total = native[j].total /\ native'[j].completed = native[j].completed
        /\ \A k \in Jobs \ {j} : native'[k] = native[k]
    <2>1. CASE native' = native
      BY <2>1
    <2>2. CASE native' = [native EXCEPT ![j].cancelled = TRUE]
      BY <1>1, <2>2 DEF Types, Natives
    <2>3. QED
      BY <1>2, <2>1, <2>2
  <1>4. /\ token'[j] = "calling" => token[j] = "calling" \/ ~managed[j].closed
        /\ \A k \in Jobs \ {j} : token'[k] = token[k]
    BY <1>1, <1>2 DEF Types
  <1>5. Types'
    <2>1. native' \in [Jobs -> Natives]
      <3>1. [native EXCEPT ![j].cancelled = TRUE] \in [Jobs -> Natives]
        BY <1>1 DEF Types, Natives
      <3>2. QED
        BY <1>1, <1>2, <3>1 DEF Types
    <2>2. token' \in [Jobs -> {"none", "calling", "called"}]
      BY <1>1, <1>2 DEF Types
    <2>3. QED
      BY <1>1, <1>2, <2>1, <2>2 DEF Types
  <1>6. HandleInv(j)'
    BY <1>1, <1>2, <1>3, <1>4 DEF JobInv, HandleInv, Free
  <1>7. LateInv(j)'
    BY <1>1, <1>2, <1>3 DEF JobInv, LateInv, At, Running
  <1>8. WorkInv(j)'
    BY <1>1, <1>2, <1>3, CountersKept DEF JobInv
  <1>9. ReaderInv(j)'
    BY <1>1, <1>2, <1>3 DEF JobInv, ReaderInv
  <1>10. QED
    BY <1>2, <1>3, <1>4, <1>5, <1>6, <1>7, <1>8, <1>9, ObjectStep

-----------------------------------------------------------------------------
(* Steps of the native call.                                                 *)

LEMMA NothingLeft == Regular(<<>>) /\ Count(<<>>) = 0 /\ <<>> \in Seq(Ops) /\ DOMAIN <<>> = {}
  <1>1. <<>> \in Seq(Ops) /\ DOMAIN <<>> = {}
    OBVIOUS
  <1>2. QED
    BY <1>1, CountNone DEF Regular

\* Only a look at the flag is followed by a chunk.
LEMMA NoChunkNext ==
  ASSUME NEW s, Regular(s), s # <<>>, Head(s) # "check"
  PROVE  Tail(s) = <<>> \/ Head(Tail(s)) # "work"
  <1>1. /\ Head(s) = s[1] /\ Tail(s) \in Seq(Ops) /\ DOMAIN Tail(s) = 1..Len(Tail(s))
        /\ \A i \in DOMAIN Tail(s) : i + 1 \in DOMAIN s /\ Tail(s)[i] = s[i + 1]
    BY RegularTail
  <1>2. CASE Tail(s) # <<>>
    <2>1. 1 \in DOMAIN Tail(s) /\ Head(Tail(s)) = Tail(s)[1]
      BY <1>1, <1>2
    <2>2. 1 + 1 \in DOMAIN s /\ Tail(s)[1] = s[1 + 1]
      BY <1>1, <2>1
    <2>3. s[1 + 1] = "work" => s[(1 + 1) - 1] = "check"
      BY <2>2 DEF Regular
    <2>4. QED
      BY <1>1, <2>1, <2>2, <2>3
  <1>3. QED
    BY <1>2

\* What a call that takes a step has: its analysis, and an open handle that no
\* continuation is releasing.
LEMMA Alive ==
  ASSUME IInv, NEW j \in Jobs, call[j].outcome = ""
  PROVE  /\ Types /\ JobInv(j) /\ call[j] \in Calls /\ native[j] \in Natives
         /\ native[j].total \in Nat /\ native[j].completed \in Nat /\ late[j] \in Nat
         /\ call[j].analysis \in Analyses /\ Regular(call[j].rest) /\ call[j].rest \in Seq(Ops)
         /\ ~managed[j].closed /\ native[j].live /\ reader[j].holder # "continuation"
         /\ Total(call[j].analysis) \in Nat /\ Count(call[j].rest) \in Nat
  <1>1. Types /\ JobInv(j)
    BY DEF IInv
  <1>2. call[j] \in Calls /\ native[j] \in Natives /\ late[j] \in Nat
    BY <1>1 DEF Types
  <1>3. native[j].total \in Nat /\ native[j].completed \in Nat /\ call[j].rest \in Seq(Ops)
    BY <1>2 DEF Natives, Calls
  <1>4. call[j].analysis \in Analyses /\ Regular(call[j].rest)
    BY <1>1 DEF JobInv, CallInv
  <1>5. ~managed[j].closed /\ native[j].live /\ reader[j].holder # "continuation"
    BY <1>1 DEF JobInv, HandleInv
  <1>6. Total(call[j].analysis) \in Nat /\ Count(call[j].rest) \in Nat
    BY <1>3, <1>4, StepsAreRegular, CountType
  <1>7. QED
    BY <1>1, <1>2, <1>3, <1>4, <1>5, <1>6

LEMMA RunningIsOpen ==
  ASSUME IInv, NEW j \in Jobs, Running(j)
  PROVE  call[j].outcome = "" /\ call[j].rest # <<>>
  BY DEF IInv, JobInv, CallInv, Running

LEMMA CallStep ==
  ASSUME IInv, NEW j \in Jobs, call[j].outcome = "", UNCHANGED <<managed, reader, token>>,
         native' \in [Jobs -> Natives], call' \in [Jobs -> Calls], late' \in [Jobs -> Nat],
         cache' \in Seq(Matrices),
         \A k \in Jobs \ {j} : native'[k] = native[k] /\ call'[k] = call[k] /\ late'[k] = late[k],
         native'[j].live = native[j].live,
         native'[j].total = native[j].total \/ native[j].total = 0,
         CallInv(j)', LateInv(j)', WorkInv(j)', CacheInv'
  PROVE  IInv'
  <1>1. Types /\ JobInv(j) /\ ~managed[j].closed /\ reader[j].holder # "continuation"
    BY Alive
  <1>2. Types'
    BY <1>1 DEF Types
  <1>3. HandleInv(j)'
    BY <1>1 DEF JobInv, HandleInv, Free
  <1>4. ReaderInv(j)'
    BY <1>1 DEF JobInv, ReaderInv
  <1>5. JobInv(j)'
    BY <1>3, <1>4 DEF JobInv
  <1>6. ASSUME NEW k \in Jobs, k # j PROVE JobInv(k)'
    BY <1>6, Untouched DEF IInv
  <1>7. QED
    BY <1>2, <1>5, <1>6 DEF IInv

\* The call goes on to its next step, or succeeds.
LEMMA Continued ==
  ASSUME IInv, NEW j \in Jobs, Running(j), Continue(j)
  PROVE  /\ call' \in [Jobs -> Calls] /\ CallInv(j)'
         /\ \A k \in Jobs \ {j} : call'[k] = call[k]
         /\ call'[j].rest = Tail(call[j].rest) /\ call'[j].analysis = call[j].analysis
         /\ call'[j].matrix = call[j].matrix
         /\ call'[j].outcome = IF Tail(call[j].rest) = <<>> THEN "succeeded" ELSE ""
  <1>1. call[j].outcome = "" /\ call[j].rest # <<>>
    BY RunningIsOpen
  <1>2. /\ Types /\ call[j] \in Calls /\ Regular(call[j].rest) /\ call[j].analysis \in Analyses
    BY <1>1, Alive
  <1>3. Tail(call[j].rest) \in Seq(Ops) /\ Regular(Tail(call[j].rest))
    BY <1>1, <1>2, RegularTail
  <1> DEFINE next == [call[j] EXCEPT !.rest = Tail(@),
                                     !.outcome = IF Tail(call[j].rest) = <<>> THEN "succeeded" ELSE @]
  <1>4. call' = [call EXCEPT ![j] = next]
    BY <1>2 DEF Continue, Types
  <1>5. /\ next.rest = Tail(call[j].rest) /\ next.analysis = call[j].analysis
        /\ next.matrix = call[j].matrix
        /\ next.outcome = IF Tail(call[j].rest) = <<>> THEN "succeeded" ELSE ""
    BY <1>1, <1>2 DEF Calls
  <1>6. next \in Calls
    BY <1>2, <1>3 DEF Calls
  <1> HIDE DEF next
  <1>7. call'[j] = next /\ (\A k \in Jobs \ {j} : call'[k] = call[k]) /\ call' \in [Jobs -> Calls]
    BY <1>2, <1>4, <1>6 DEF Types
  <1>8. CallInv(j)'
    BY <1>2, <1>3, <1>5, <1>7 DEF CallInv, Running
  <1>9. QED
    BY <1>5, <1>7, <1>8

LEMMA EndedCall ==
  ASSUME IInv, NEW j \in Jobs, call[j].outcome = "",
         NEW outcome \in {"cancelled", "failed"}, End(j, outcome)
  PROVE  /\ call' \in [Jobs -> Calls] /\ CallInv(j)'
         /\ \A k \in Jobs \ {j} : call'[k] = call[k]
         /\ call'[j].rest = <<>> /\ call'[j].analysis = call[j].analysis
         /\ call'[j].matrix = call[j].matrix /\ call'[j].outcome = outcome
  <1>1. Types /\ call[j] \in Calls
    BY Alive
  <1> DEFINE next == [call[j] EXCEPT !.rest = <<>>, !.outcome = outcome]
  <1>2. call' = [call EXCEPT ![j] = next]
    BY <1>1 DEF End, Types
  <1>3. /\ next.rest = <<>> /\ next.analysis = call[j].analysis
        /\ next.matrix = call[j].matrix /\ next.outcome = outcome
    BY <1>1 DEF Calls
  <1>4. next \in Calls
    BY <1>1, NothingLeft DEF Calls
  <1> HIDE DEF next
  <1>5. call'[j] = next /\ (\A k \in Jobs \ {j} : call'[k] = call[k]) /\ call' \in [Jobs -> Calls]
    BY <1>1, <1>2, <1>4 DEF Types
  <1>6. CallInv(j)'
    BY <1>3, <1>5, NothingLeft DEF CallInv, Running
  <1>7. QED
    BY <1>3, <1>5, <1>6

\* A call that ends without success leaves everything as it was.
LEMMA EndStep ==
  ASSUME IInv, NEW j \in Jobs, call[j].outcome = "",
         NEW outcome \in {"cancelled", "failed"}, End(j, outcome),
         UNCHANGED <<native, managed, reader, token, cache, raced, late>>
  PROVE  IInv'
  <1>1. /\ call' \in [Jobs -> Calls] /\ CallInv(j)'
        /\ \A k \in Jobs \ {j} : call'[k] = call[k]
        /\ call'[j].rest = <<>> /\ call'[j].analysis = call[j].analysis
        /\ call'[j].matrix = call[j].matrix /\ call'[j].outcome = outcome
    BY EndedCall
  <1>2. Types /\ JobInv(j)
    BY Alive
  <1>3. LateInv(j)'
    BY <1>1, <1>2 DEF JobInv, LateInv, At, Running
  <1>4. WorkInv(j)'
    BY <1>1, <1>2 DEF JobInv, WorkInv, Running
  <1>5. CacheInv'
    <2>1. \A k \in Jobs : call'[k].matrix = call[k].matrix /\ (Builds(k)' => Builds(k))
      <3>1. ~Builds(j)'
        <4>1. call'[j].rest = <<>> /\ DOMAIN <<>> = {}
          BY ONLY <1>1, NothingLeft
        <4>2. QED
          BY <4>1 DEF Builds
      <3>2. QED
        BY <1>1, <3>1 DEF Builds
    <2>2. QED
      BY <2>1, CacheKept DEF IInv
  <1>6. QED
    BY <1>1, <1>2, <1>3, <1>4, <1>5, CallStep DEF Types

LEMMA StartStep ==
  ASSUME IInv, NEW j \in Jobs, Start(j)
  PROVE  IInv'
  <1>1. /\ call[j].outcome = "" /\ ~Running(j)
        /\ UNCHANGED <<native, managed, reader, token, cache, raced, late>>
        /\ \/ call' = [call EXCEPT ![j].rest = Steps(call[j].analysis)]
           \/ End(j, "cancelled")
    BY DEF Start
  <1>2. CASE End(j, "cancelled")
    BY <1>1, <1>2, EndStep
  <1>3. CASE call' = [call EXCEPT ![j].rest = Steps(call[j].analysis)]
    <2> DEFINE s == Steps(call[j].analysis)
    <2>1. /\ Types /\ JobInv(j) /\ call[j] \in Calls /\ call[j].analysis \in Analyses
      BY <1>1, Alive
    <2>2. Whole(s) /\ Count(s) = Total(call[j].analysis) /\ Total(call[j].analysis) \in Nat
      BY <2>1, StepsAreRegular
    <2> HIDE DEF s
    <2>3. Regular(s) /\ s \in Seq(Ops) /\ s # <<>> /\ Head(s) = "total"
      BY <2>2 DEF Whole, Regular
    <2>4. /\ call'[j].rest = s /\ call'[j].analysis = call[j].analysis
          /\ call'[j].matrix = call[j].matrix /\ call'[j].outcome = ""
          /\ \A k \in Jobs \ {j} : call'[k] = call[k]
      BY <1>1, <1>3, <2>1 DEF Types, Calls, s
    <2>5. call' \in [Jobs -> Calls]
      <3>1. [call[j] EXCEPT !.rest = s] \in Calls
        BY <2>1, <2>3 DEF Calls
      <3>2. call' = [call EXCEPT ![j] = [call[j] EXCEPT !.rest = s]]
        BY <1>3, <2>1 DEF Types, s
      <3>3. QED
        BY <2>1, <3>1, <3>2 DEF Types
    <2>6. CallInv(j)'
      BY <2>1, <2>3, <2>4 DEF CallInv, Running
    <2>7. LateInv(j)'
      BY <1>1, <2>1, <2>3, <2>4 DEF JobInv, LateInv, At, Running
    <2>8. WorkInv(j)'
      <3>1. native[j].total = 0 /\ native[j].completed = 0
        BY <1>1, <2>1 DEF JobInv, WorkInv
      <3>2. /\ native'[j].total = 0 /\ native'[j].completed = 0
            /\ native'[j].completed + Count(s) = Total(call[j].analysis)
        <4>1. native'[j].total = 0 /\ native'[j].completed = 0
          BY ONLY <1>1, <3>1
        <4>2. 0 + Count(s) = Total(call[j].analysis)
          BY ONLY <2>2
        <4>3. QED
          BY ONLY <4>1, <4>2
      <3>3. call'[j].rest # <<>> /\ Head(call'[j].rest) = "total"
        BY <2>3, <2>4
      <3>4. QED
        <4>1. native'[j].completed + Count(call'[j].rest) = Total(call'[j].analysis)
          BY ONLY <2>4, <3>2
        <4>2. native'[j].completed <= native'[j].total
          BY ONLY <3>2
        <4>3. call'[j].outcome = "" /\ Running(j)' /\ At(j, "total")'
          BY ONLY <2>4, <3>3 DEF At, Running
        <4>4. QED
          BY ONLY <3>2, <4>1, <4>2, <4>3 DEF WorkInv
    <2>9. CacheInv'
      <3>1. ~Builds(j)'
        BY <2>2, <2>4 DEF Builds, Whole
      <3>2. \A k \in Jobs : call'[k].matrix = call[k].matrix /\ (Builds(k)' => Builds(k))
        BY <2>4, <3>1 DEF Builds
      <3>3. QED
        BY <1>1, <3>2, CacheKept DEF IInv
    <2>10. QED
      BY <1>1, <2>1, <2>4, <2>5, <2>6, <2>7, <2>8, <2>9, CallStep DEF Types
  <1>4. QED
    BY <1>1, <1>2, <1>3

LEMMA Remaining ==
  ASSUME NEW a \in Nat, NEW b \in Nat, NEW t \in Nat, a + b = t
  PROVE  a <= t /\ (b = 0 => a = t)
  OBVIOUS

\* The counters agree with what is left after a step.
LEMMA WorkContinued ==
  ASSUME IInv, NEW j \in Jobs, Running(j), Continue(j),
         native'[j].total = Total(call[j].analysis), native'[j].completed \in Nat,
         native'[j].completed + Count(Tail(call[j].rest)) = Total(call[j].analysis),
         \A i \in DOMAIN Tail(call[j].rest) :
           Tail(call[j].rest)[i] = "zero" => native'[j].completed = 0
  PROVE  WorkInv(j)'
  <1> DEFINE r == Tail(call[j].rest)
  <1>1. /\ call'[j].rest = r /\ call'[j].analysis = call[j].analysis
        /\ call'[j].outcome = IF r = <<>> THEN "succeeded" ELSE ""
    BY Continued
  <1>2. call[j].outcome = "" /\ call[j].rest # <<>> /\ Regular(call[j].rest)
        /\ Total(call[j].analysis) \in Nat
    BY RunningIsOpen, Alive
  <1>3. /\ r \in Seq(Ops) /\ Count(r) \in Nat /\ DOMAIN r = 1..Len(r) /\ Len(r) \in Nat
        /\ \A i \in DOMAIN r : i + 1 \in DOMAIN call[j].rest /\ r[i] = call[j].rest[i + 1]
    BY <1>2, RegularTail
  <1>4. \A i \in DOMAIN r : r[i] # "total"
    <2>1. ASSUME NEW i \in DOMAIN r, r[i] = "total" PROVE FALSE
      <3>1. i + 1 = 1
        BY <1>2, <1>3, <2>1 DEF Regular
      <3>2. QED
        BY <1>3, <3>1
    <2>2. QED
      BY <2>1
  <1>5. r # <<>> => Head(r) # "total"
    <2>1. r # <<>> => Head(r) = r[1] /\ 1 \in DOMAIN r
      BY <1>3
    <2>2. QED
      BY <1>4, <2>1
  <1>6. \A i \in DOMAIN r : r[i] \in {"total", "zero"} => native'[j].completed = 0
    BY <1>4
  <1>7. r = <<>> => Count(r) = 0
    BY NothingLeft
  <1>8. /\ native'[j].completed \in Nat /\ native'[j].total = Total(call[j].analysis)
        /\ native'[j].completed + Count(r) = Total(call[j].analysis)
    OBVIOUS
  <1> HIDE DEF r
  <1>9. native'[j].completed <= native'[j].total
    BY ONLY <1>2, <1>3, <1>8, Remaining
  <1>10. r = <<>> => native'[j].completed = Total(call[j].analysis)
    BY ONLY <1>2, <1>3, <1>7, <1>8, Remaining
  <1>11. QED
    BY ONLY <1>1, <1>5, <1>6, <1>8, <1>9, <1>10 DEF WorkInv, At, Running

LEMMA BuildsContinued ==
  ASSUME IInv, NEW j \in Jobs, Running(j), Continue(j), Head(call[j].rest) # "find"
  PROVE  \A k \in Jobs : call'[k].matrix = call[k].matrix /\ (Builds(k)' => Builds(k))
  <1> DEFINE s == call[j].rest
             r == Tail(s)
  <1>1. /\ call'[j].rest = r /\ call'[j].matrix = call[j].matrix
        /\ \A k \in Jobs \ {j} : call'[k] = call[k]
    BY Continued
  <1>2. Regular(s) /\ s # <<>>
    BY RunningIsOpen, Alive
  <1>3. /\ Head(s) = s[1]
        /\ \A i \in DOMAIN r : i + 1 \in DOMAIN s /\ r[i] = s[i + 1]
        /\ \A i \in DOMAIN s : i = 1 \/ (i - 1 \in DOMAIN r /\ s[i] = r[i - 1])
    BY <1>2, RegularTail
  <1>4. ASSUME Builds(j)' PROVE Builds(j)
    <2>1. /\ \E i \in DOMAIN r : r[i] = "insert"
          /\ \A i \in DOMAIN r : r[i] # "find"
      BY <1>1, <1>4 DEF Builds
    <2>2. \E i \in DOMAIN s : s[i] = "insert"
      BY <1>3, <2>1
    <2>3. \A i \in DOMAIN s : s[i] # "find"
      BY <1>3, <2>1
    <2>4. QED
      BY <2>2, <2>3 DEF Builds
  <1>5. QED
    BY <1>1, <1>4 DEF Builds

\* A step that neither counts nor looks at the cache.
LEMMA QuietStep ==
  ASSUME IInv, NEW j \in Jobs, Running(j), Continue(j),
         Head(call[j].rest) \in {"zero", "scene"} \/ (Head(call[j].rest) = "check" /\ ~native[j].cancelled),
         \/ native' = native
         \/ Head(call[j].rest) = "zero" /\ native' = [native EXCEPT ![j].completed = 0],
         UNCHANGED <<managed, reader, token, cache, raced, late>>
  PROVE  IInv'
  <1> DEFINE s == call[j].rest
  <1>1. call[j].outcome = "" /\ s # <<>>
    BY RunningIsOpen
  <1>2. /\ Types /\ JobInv(j) /\ native[j] \in Natives /\ native[j].completed \in Nat
        /\ Regular(s) /\ Total(call[j].analysis) \in Nat
    BY <1>1, Alive
  <1>3. /\ Head(s) = s[1] /\ 1 \in DOMAIN s /\ Count(s) = Count(Tail(s)) /\ Count(Tail(s)) \in Nat
        /\ \A i \in DOMAIN Tail(s) : i + 1 \in DOMAIN s /\ Tail(s)[i] = s[i + 1]
    <2>1. /\ Head(s) = s[1] /\ 1 \in DOMAIN s /\ Count(Tail(s)) \in Nat
          /\ Count(s) = (IF Head(s) = "work" THEN 1 ELSE 0) + Count(Tail(s))
          /\ \A i \in DOMAIN Tail(s) : i + 1 \in DOMAIN s /\ Tail(s)[i] = s[i + 1]
      BY ONLY <1>1, <1>2, RegularTail
    <2>2. Head(s) # "work"
      OBVIOUS
    <2>3. QED
      BY ONLY <2>1, <2>2
  <1>4. /\ native[j].total = Total(call[j].analysis)
        /\ native[j].completed + Count(s) = Total(call[j].analysis)
        /\ \A i \in DOMAIN s : s[i] = "zero" => native[j].completed = 0
    BY <1>1, <1>2 DEF JobInv, WorkInv, At, Running
  <1>5. /\ native' \in [Jobs -> Natives] /\ native'[j].live = native[j].live
        /\ native'[j].cancelled = native[j].cancelled /\ native'[j].total = native[j].total
        /\ native'[j].completed = native[j].completed
        /\ \A k \in Jobs \ {j} : native'[k] = native[k]
    <2>1. CASE native' = native
      BY <1>2, <2>1 DEF Types
    <2>2. CASE Head(s) = "zero" /\ native' = [native EXCEPT ![j].completed = 0]
      <3>1. native[j].completed = 0
        BY <1>3, <1>4, <2>2
      <3>2. native' \in [Jobs -> Natives]
        BY <1>2, <2>2 DEF Types, Natives
      <3>3. QED
        BY <1>2, <2>2, <3>1, <3>2 DEF Types, Natives
    <2>3. QED
      BY <2>1, <2>2
  <1>6. /\ call' \in [Jobs -> Calls] /\ CallInv(j)' /\ call'[j].rest = Tail(s)
        /\ \A k \in Jobs \ {j} : call'[k] = call[k]
    BY Continued
  <1>7. WorkInv(j)'
    <2>1. \A i \in DOMAIN Tail(s) : Tail(s)[i] = "zero" => native'[j].completed = 0
      BY <1>3, <1>4, <1>5
    <2>2. native'[j].completed + Count(Tail(s)) = Total(call[j].analysis)
      BY <1>3, <1>4, <1>5
    <2>3. QED
      BY <1>2, <1>4, <1>5, <2>1, <2>2, WorkContinued
  <1>8. LateInv(j)'
    <2>1. late[j] <= 1 /\ (late[j] = 1 => native[j].cancelled)
      BY <1>2 DEF JobInv, LateInv
    <2>2. Head(s) # "check" => Tail(s) = <<>> \/ Head(Tail(s)) # "work"
      BY <1>1, <1>2, NoChunkNext
    <2>3. late[j] = 1 => Head(s) # "check"
      BY <2>1
    <2>4. QED
      BY <1>5, <1>6, <2>1, <2>2, <2>3 DEF LateInv, At, Running
  <1>9. CacheInv'
    BY BuildsContinued, CacheKept DEF IInv
  <1>10. QED
    BY <1>1, <1>2, <1>5, <1>6, <1>7, <1>8, <1>9, CallStep DEF Types

LEMMA AnnounceStep ==
  ASSUME IInv, NEW j \in Jobs, Announce(j)
  PROVE  IInv'
  <1> DEFINE s == call[j].rest
             total == Total(call[j].analysis)
  <1>1. Running(j) /\ Head(s) = "total" /\ UNCHANGED <<managed, reader, token, cache, raced, late>>
    BY DEF Announce, At
  <1>2. call[j].outcome = "" /\ s # <<>>
    BY <1>1, RunningIsOpen
  <1>3. /\ Types /\ JobInv(j) /\ native[j] \in Natives /\ native[j].live
        /\ native[j].completed \in Nat /\ Regular(s) /\ total \in Nat
    BY <1>2, Alive
  <1>4. native' = [native EXCEPT ![j].total = total] /\ Continue(j)
    BY <1>3 DEF Announce
  <1>5. /\ Head(s) = s[1] /\ 1 \in DOMAIN s /\ Count(s) = Count(Tail(s)) /\ Count(Tail(s)) \in Nat
    <2>1. /\ Head(s) = s[1] /\ 1 \in DOMAIN s /\ Count(Tail(s)) \in Nat
          /\ Count(s) = (IF Head(s) = "work" THEN 1 ELSE 0) + Count(Tail(s))
      BY ONLY <1>2, <1>3, RegularTail
    <2>2. QED
      BY ONLY <1>1, <2>1
  <1>6. native[j].total = 0 /\ native[j].completed = 0 /\ native[j].completed + Count(s) = total
    BY <1>1, <1>3, <1>5 DEF JobInv, WorkInv, At
  <1> HIDE DEF total
  <1>7. /\ native' \in [Jobs -> Natives] /\ native'[j].live = native[j].live
        /\ native'[j].cancelled = native[j].cancelled /\ native'[j].total = total
        /\ native'[j].completed = native[j].completed
        /\ \A k \in Jobs \ {j} : native'[k] = native[k]
    BY <1>3, <1>4 DEF Types, Natives
  <1>8. /\ call' \in [Jobs -> Calls] /\ CallInv(j)' /\ call'[j].rest = Tail(s)
        /\ \A k \in Jobs \ {j} : call'[k] = call[k]
    BY <1>1, <1>4, Continued
  <1>9. WorkInv(j)'
    <2>1. native'[j].completed = 0 /\ native'[j].completed + Count(Tail(s)) = total
      BY <1>5, <1>6, <1>7
    <2>2. QED
      BY <1>1, <1>4, <1>7, <2>1, WorkContinued DEF total
  <1>10. LateInv(j)'
    <2>1. Tail(s) = <<>> \/ Head(Tail(s)) # "work"
      BY <1>1, <1>2, <1>3, NoChunkNext
    <2>2. QED
      BY <1>1, <1>3, <1>7, <1>8, <2>1 DEF JobInv, LateInv, At, Running
  <1>11. CacheInv'
    BY <1>1, <1>4, BuildsContinued, CacheKept DEF IInv
  <1>12. QED
    BY <1>1, <1>2, <1>3, <1>6, <1>7, <1>8, <1>9, <1>10, <1>11, CallStep DEF Types

LEMMA WaitStep ==
  ASSUME IInv, NEW j \in Jobs, Zero(j) \/ FindScene(j) \/ Check(j)
  PROVE  IInv'
  <1>1. CASE Zero(j)
    BY <1>1, QuietStep DEF Zero, At
  <1>2. CASE FindScene(j)
    <2>1. CASE Continue(j)
      BY <1>2, <2>1, QuietStep DEF FindScene, At
    <2>2. CASE End(j, "failed")
      BY <1>2, <2>2, RunningIsOpen, EndStep DEF FindScene, At
    <2>3. QED
      BY <1>2, <2>1, <2>2 DEF FindScene
  <1>3. CASE Check(j)
    <2>1. CASE native[j].cancelled
      BY <1>3, <2>1, RunningIsOpen, EndStep DEF Check, At
    <2>2. CASE ~native[j].cancelled
      BY <1>3, <2>2, QuietStep DEF Check, At
    <2>3. QED
      BY <2>1, <2>2
  <1>4. QED
    BY <1>1, <1>2, <1>3

LEMMA WorkStep ==
  ASSUME IInv, NEW j \in Jobs, Work(j)
  PROVE  IInv'
  <1> DEFINE s == call[j].rest
             total == Total(call[j].analysis)
  <1>1. /\ Running(j) /\ Head(s) = "work" /\ UNCHANGED <<managed, reader, token, cache, raced>>
        /\ native' = [native EXCEPT ![j].completed = @ + 1] /\ Continue(j)
        /\ late' = [late EXCEPT ![j] = IF native[j].cancelled THEN @ + 1 ELSE @]
    BY DEF Work, At
  <1>2. call[j].outcome = "" /\ s # <<>>
    BY <1>1, RunningIsOpen
  <1>3. /\ Types /\ JobInv(j) /\ native[j] \in Natives /\ late[j] \in Nat
        /\ native[j].completed \in Nat /\ Regular(s) /\ total \in Nat
    BY <1>2, Alive
  <1>4. /\ Head(s) = s[1] /\ 1 \in DOMAIN s /\ Count(s) = 1 + Count(Tail(s)) /\ Count(Tail(s)) \in Nat
        /\ \A i \in DOMAIN Tail(s) : i + 1 \in DOMAIN s /\ Tail(s)[i] = s[i + 1] /\ i \in Nat /\ i >= 1
    <2>1. /\ Head(s) = s[1] /\ 1 \in DOMAIN s /\ Count(Tail(s)) \in Nat
          /\ Count(s) = (IF Head(s) = "work" THEN 1 ELSE 0) + Count(Tail(s))
          /\ \A i \in DOMAIN Tail(s) : i + 1 \in DOMAIN s /\ Tail(s)[i] = s[i + 1]
          /\ DOMAIN Tail(s) = 1..Len(Tail(s)) /\ Len(Tail(s)) \in Nat
      BY ONLY <1>2, <1>3, RegularTail
    <2>2. QED
      BY ONLY <1>1, <2>1
  <1>5. native[j].total = total /\ native[j].completed + Count(s) = total
    BY <1>1, <1>3 DEF JobInv, WorkInv, At
  <1> HIDE DEF total
  <1>6. /\ native' \in [Jobs -> Natives] /\ native'[j].live = native[j].live
        /\ native'[j].cancelled = native[j].cancelled /\ native'[j].total = native[j].total
        /\ native'[j].completed = native[j].completed + 1
        /\ \A k \in Jobs \ {j} : native'[k] = native[k]
    <2> DEFINE counted == [native[j] EXCEPT !.completed = native[j].completed + 1]
    <2>1. /\ counted \in Natives /\ counted.live = native[j].live
          /\ counted.cancelled = native[j].cancelled /\ counted.total = native[j].total
          /\ counted.completed = native[j].completed + 1
      BY ONLY <1>3 DEF Natives
    <2>2. native' = [native EXCEPT ![j] = counted]
      BY <1>1, <1>3 DEF Types
    <2> HIDE DEF counted
    <2>3. QED
      BY <1>3, <2>1, <2>2 DEF Types
  <1>7. /\ call' \in [Jobs -> Calls] /\ CallInv(j)' /\ call'[j].rest = Tail(s)
        /\ \A k \in Jobs \ {j} : call'[k] = call[k]
    BY <1>1, Continued
  <1>8. WorkInv(j)'
    <2>1. native'[j].completed \in Nat /\ native'[j].completed + Count(Tail(s)) = total
      <3>1. native[j].completed + (1 + Count(Tail(s))) = total
        BY <1>4, <1>5
      <3>2. QED
        BY ONLY <1>3, <1>4, <1>6, <3>1
    <2>2. \A i \in DOMAIN Tail(s) : Tail(s)[i] # "zero"
      <3>1. ASSUME NEW i \in DOMAIN Tail(s), Tail(s)[i] = "zero" PROVE FALSE
        <4>1. s[i + 1] = "zero" /\ i + 1 \in DOMAIN s /\ s[1] = "work" /\ i + 1 > 1
          BY <1>1, <1>4, <3>1
        <4>2. i + 1 < 1
          BY <1>3, <1>4, <4>1 DEF Regular
        <4>3. QED
          BY <1>4, <4>2
      <3>2. QED
        BY <3>1
    <2>3. QED
      BY <1>1, <1>5, <1>6, <2>1, <2>2, WorkContinued DEF total
  <1>9. late' \in [Jobs -> Nat] /\ \A k \in Jobs \ {j} : late'[k] = late[k]
    BY <1>1, <1>3 DEF Types
  <1>10. LateInv(j)'
    <2>1. Tail(s) = <<>> \/ Head(Tail(s)) # "work"
      BY <1>1, <1>2, <1>3, NoChunkNext
    <2>2. late[j] = 0
      BY <1>1, <1>3 DEF JobInv, LateInv, At
    <2>3. late'[j] <= 1 /\ (late'[j] = 1 => native[j].cancelled)
      BY <1>1, <1>3, <2>2 DEF Types
    <2>4. QED
      BY <1>6, <1>7, <2>1, <2>3 DEF LateInv, At, Running
  <1>11. CacheInv'
    BY <1>1, BuildsContinued, CacheKept DEF IInv
  <1>12. QED
    BY <1>1, <1>2, <1>3, <1>6, <1>7, <1>8, <1>9, <1>10, <1>11, CallStep DEF Types

-----------------------------------------------------------------------------
(* The cache of matrices.                                                    *)

\* What was at p is where it was put.
LEMMA MovedToFront ==
  ASSUME NEW S, NEW c \in Seq(S), NEW p \in DOMAIN c
  PROVE  LET d == <<c[p]>> \o RemoveAt(c, p)
             was(i) == IF i = 1 THEN p ELSE IF i <= p THEN i - 1 ELSE i
         IN  /\ d \in Seq(S) /\ Len(d) = Len(c) /\ DOMAIN d = DOMAIN c
             /\ \A i \in DOMAIN d : was(i) \in DOMAIN c /\ d[i] = c[was(i)]
             /\ \A i, k \in DOMAIN d : was(i) = was(k) => i = k
  <1> DEFINE a == SubSeq(c, 1, p - 1)
             b == SubSeq(c, p + 1, Len(c))
             e == <<c[p]>>
             d == e \o (a \o b)
             n == Len(c)
             was(i) == IF i = 1 THEN p ELSE IF i <= p THEN i - 1 ELSE i
  <1>1. n \in Nat /\ p \in 1..n /\ DOMAIN c = 1..n /\ \A i \in 1..n : c[i] \in S
    OBVIOUS
  <1>2. /\ a \in Seq(S) /\ Len(a) = p - 1
        /\ \A i \in 1..(p - 1) : a[i] = c[i]
    <2>1. 1 \in Int /\ p - 1 \in Int /\ \A i \in 1..(p - 1) : c[i] \in S
      BY <1>1
    <2>2. /\ a \in Seq(S) /\ Len(a) = (IF 1 <= p - 1 THEN (p - 1) - 1 + 1 ELSE 0)
          /\ \A i \in 1..((p - 1) - 1 + 1) : a[i] = c[1 + i - 1]
      BY ONLY <2>1, SubSeqProperties
    <2> HIDE DEF a
    <2>3. Len(a) = p - 1
      BY <1>1, <2>2
    <2>4. \A i \in 1..(p - 1) : a[i] = c[i]
      BY <1>1, <2>2
    <2>5. QED
      BY <2>2, <2>3, <2>4
  <1>3. /\ b \in Seq(S) /\ Len(b) = n - p
        /\ \A i \in 1..(n - p) : b[i] = c[i + p]
    <2>1. p + 1 \in Int /\ n \in Int /\ \A i \in (p + 1)..n : c[i] \in S
      BY <1>1
    <2>2. /\ b \in Seq(S) /\ Len(b) = (IF p + 1 <= n THEN n - (p + 1) + 1 ELSE 0)
          /\ \A i \in 1..(n - (p + 1) + 1) : b[i] = c[(p + 1) + i - 1]
      BY ONLY <2>1, SubSeqProperties
    <2> HIDE DEF b, n
    <2>3. Len(b) = n - p
      BY <1>1, <2>2
    <2>4. \A i \in 1..(n - p) : i \in 1..(n - (p + 1) + 1) /\ (p + 1) + i - 1 = i + p
      BY <1>1
    <2>5. QED
      BY <2>2, <2>3, <2>4
  <1>4. e \in Seq(S) /\ Len(e) = 1 /\ e[1] = c[p]
    BY <1>1
  <1> HIDE DEF a, b, e, n
  <1>5. /\ a \o b \in Seq(S) /\ Len(a \o b) = (p - 1) + (n - p)
        /\ \A i \in 1..(p - 1) : (a \o b)[i] = a[i]
        /\ \A i \in p..((p - 1) + (n - p)) : (a \o b)[i] = b[i - (p - 1)]
    <2>1. /\ a \o b \in Seq(S) /\ Len(a \o b) = Len(a) + Len(b)
          /\ \A i \in 1..(Len(a) + Len(b)) :
               (a \o b)[i] = IF i <= Len(a) THEN a[i] ELSE b[i - Len(a)]
      BY ONLY <1>2, <1>3, ConcatProperties
    <2>2. \A i \in 1..(p - 1) : i \in 1..((p - 1) + (n - p)) /\ i <= p - 1
      BY <1>1
    <2>3. \A i \in p..((p - 1) + (n - p)) : i \in 1..((p - 1) + (n - p)) /\ ~(i <= p - 1)
      BY <1>1
    <2>4. QED
      BY ONLY <1>2, <1>3, <2>1, <2>2, <2>3
  <1>6. (p - 1) + (n - p) = n - 1
    BY <1>1
  <1>7. /\ d \in Seq(S) /\ Len(d) = n /\ d[1] = c[p]
        /\ \A i \in 2..n : d[i] = (a \o b)[i - 1]
    <2>1. /\ d \in Seq(S) /\ Len(d) = Len(e) + Len(a \o b)
          /\ \A i \in 1..(Len(e) + Len(a \o b)) :
               d[i] = IF i <= Len(e) THEN e[i] ELSE (a \o b)[i - Len(e)]
      BY ONLY <1>4, <1>5, ConcatProperties
    <2>2. Len(e) + Len(a \o b) = n /\ Len(e) = 1
      BY <1>1, <1>4, <1>5, <1>6
    <2>3. /\ d \in Seq(S) /\ Len(d) = n
          /\ \A i \in 1..n : d[i] = IF i <= 1 THEN e[i] ELSE (a \o b)[i - 1]
      BY ONLY <2>1, <2>2
    <2>4. 1 \in 1..n /\ \A i \in 2..n : i \in 1..n /\ ~(i <= 1)
      BY <1>1
    <2> HIDE DEF d
    <2>5. d[1] = e[1]
      BY ONLY <2>3, <2>4
    <2>6. \A i \in 2..n : d[i] = (a \o b)[i - 1]
      BY ONLY <2>3, <2>4
    <2>7. QED
      BY ONLY <1>4, <2>3, <2>5, <2>6
  <1> HIDE DEF d
  <1>8. ASSUME NEW i \in 1..n PROVE was(i) \in 1..n /\ d[i] = c[was(i)]
    <2>1. CASE i = 1
      BY <1>1, <1>7, <2>1
    <2>2. CASE i # 1 /\ i <= p
      <3>1. i \in 2..n /\ i - 1 \in 1..(p - 1) /\ i - 1 \in 1..n
        BY <1>1, <2>2
      <3>2. QED
        BY <1>2, <1>5, <1>7, <2>2, <3>1
    <2>3. CASE i > p
      <3>1. /\ i \in 2..n /\ i - 1 \in p..((p - 1) + (n - p))
            /\ (i - 1) - (p - 1) = i - p /\ i - p \in 1..(n - p) /\ (i - p) + p = i
            /\ i # 1 /\ ~(i <= p)
        BY <1>1, <2>3
      <3>2. QED
        BY <1>3, <1>5, <1>7, <3>1
    <2>4. QED
      BY <1>1, <2>1, <2>2, <2>3
  <1>9. \A i, k \in 1..n : was(i) = was(k) => i = k
    BY <1>1
  <1>10. DOMAIN d = 1..n
    BY <1>7
  <1>11. QED
    BY <1>1, <1>7, <1>8, <1>9, <1>10 DEF d, e, a, b, n, RemoveAt

\* What is inserted is in front, what was cached comes after it or is dropped.
LEMMA InsertedInFront ==
  ASSUME NEW S, NEW c \in Seq(S), NEW m \in S, NEW cap \in Nat, Len(c) <= cap
  PROVE  LET grown == <<m>> \o c
             d == SubSeq(grown, 1, IF Len(grown) > cap THEN cap ELSE Len(grown))
         IN  /\ d \in Seq(S) /\ Len(d) <= cap
             /\ \A i \in DOMAIN d : \/ i = 1 /\ d[i] = m
                                    \/ i > 1 /\ i - 1 \in DOMAIN c /\ d[i] = c[i - 1]
  <1> DEFINE e == <<m>>
             grown == e \o c
             n == Len(c)
             l == IF Len(grown) > cap THEN cap ELSE Len(grown)
             d == SubSeq(grown, 1, l)
  <1>1. n \in Nat /\ DOMAIN c = 1..n /\ e \in Seq(S) /\ Len(e) = 1 /\ e[1] = m
    OBVIOUS
  <1>2. /\ grown \in Seq(S) /\ Len(grown) = 1 + n
        /\ grown[1] = m /\ \A i \in 2..(1 + n) : grown[i] = c[i - 1]
    <2>1. /\ grown \in Seq(S) /\ Len(grown) = Len(e) + n
          /\ \A i \in 1..(Len(e) + n) : grown[i] = IF i <= Len(e) THEN e[i] ELSE c[i - Len(e)]
      BY <1>1, ConcatProperties
    <2> HIDE DEF grown, e, n
    <2>2. \A i \in 1..(1 + n) : grown[i] = IF i <= 1 THEN e[i] ELSE c[i - 1]
      BY ONLY <1>1, <2>1
    <2>3. 1 \in 1..(1 + n) /\ \A i \in 2..(1 + n) : i \in 1..(1 + n) /\ ~(i <= 1)
      BY <1>1
    <2>4. QED
      BY ONLY <1>1, <2>1, <2>2, <2>3
  <1> HIDE DEF grown, e, n
  <1>3. l \in Nat /\ l <= cap /\ l <= 1 + n
    BY <1>1, <1>2
  <1> HIDE DEF l
  <1>4. /\ d \in Seq(S) /\ Len(d) = l /\ \A i \in 1..l : d[i] = grown[i]
    <2>1. 1 \in Int /\ l \in Int /\ \A i \in 1..l : grown[i] \in S
      BY <1>1, <1>2, <1>3
    <2>2. /\ d \in Seq(S) /\ Len(d) = (IF 1 <= l THEN l - 1 + 1 ELSE 0)
          /\ \A i \in 1..(l - 1 + 1) : d[i] = grown[1 + i - 1]
      BY ONLY <2>1, SubSeqProperties
    <2> HIDE DEF d
    <2>3. Len(d) = l
      BY ONLY <1>3, <2>2
    <2>4. \A i \in 1..l : i \in 1..(l - 1 + 1) /\ 1 + i - 1 = i
      BY ONLY <1>3
    <2>5. QED
      BY ONLY <2>2, <2>3, <2>4
  <1> HIDE DEF d
  <1>5. DOMAIN d = 1..l
    BY <1>4
  <1>6. ASSUME NEW i \in 1..l
        PROVE  \/ i = 1 /\ d[i] = m
               \/ i > 1 /\ i - 1 \in DOMAIN c /\ d[i] = c[i - 1]
    <2>1. i = 1 \/ (i \in 2..(1 + n) /\ i > 1 /\ i - 1 \in 1..n)
      BY <1>1, <1>3
    <2>2. CASE i = 1
      <3>1. d[i] = grown[i] /\ grown[1] = m
        BY <1>2, <1>4
      <3>2. QED
        BY ONLY <2>2, <3>1
    <2>3. CASE i \in 2..(1 + n) /\ i > 1 /\ i - 1 \in 1..n
      BY ONLY <1>1, <1>2, <1>4, <1>6, <2>3
    <2>4. QED
      BY <2>1, <2>2, <2>3
  <1>7. QED
    BY <1>3, <1>4, <1>5, <1>6 DEF d, l, grown, e

\* The matrix of a call that builds it is neither cached nor built by another, or it raced.
LEMMA HitStep ==
  ASSUME IInv, NEW j \in Jobs, Running(j), Head(call[j].rest) = "find",
         NEW p \in DOMAIN cache,
         cache' = <<cache[p]>> \o RemoveAt(cache, p),
         native' = [native EXCEPT ![j].completed = @ + Sensors * Chunks],
         call' = [call EXCEPT ![j].rest = AfterInsert(@)],
         UNCHANGED <<managed, reader, token, raced, late>>
  PROVE  IInv'
  <1> DEFINE s == call[j].rest
             r == AfterInsert(s)
             total == Total(call[j].analysis)
             done == native[j].completed
  <1>1. call[j].outcome = "" /\ s # <<>>
    BY RunningIsOpen
  <1>2. /\ Types /\ JobInv(j) /\ native[j] \in Natives /\ call[j] \in Calls /\ done \in Nat
        /\ call[j].analysis \in Analyses /\ Regular(s) /\ total \in Nat
    BY <1>1, Alive
  <1>3. /\ r \in Seq(Ops) /\ Regular(r) /\ r # <<>> /\ Head(r) # "work"
        /\ \A i \in DOMAIN r : r[i] \notin {"insert", "total", "zero"}
        /\ Count(s) = Cells + Count(r) /\ Cells \in Nat /\ Count(r) \in Nat
    BY <1>1, <1>2, RegularAfterInsert, LoopOfChunks, CountType
  <1>4. native[j].total = total /\ done + Count(s) = total
    BY <1>2 DEF JobInv, WorkInv, At
  <1>5. /\ native' \in [Jobs -> Natives] /\ native'[j].live = native[j].live
        /\ native'[j].cancelled = native[j].cancelled /\ native'[j].total = native[j].total
        /\ native'[j].completed = done + Cells
        /\ \A k \in Jobs \ {j} : native'[k] = native[k]
    <2> DEFINE counted == [native[j] EXCEPT !.completed = done + Cells]
    <2>1. done + Cells \in Nat
      BY <1>2, <1>3
    <2>2. /\ counted \in Natives /\ counted.live = native[j].live
          /\ counted.cancelled = native[j].cancelled /\ counted.total = native[j].total
          /\ counted.completed = done + Cells
      BY ONLY <1>2, <2>1 DEF Natives
    <2>3. native' = [native EXCEPT ![j] = counted]
      BY <1>2 DEF Types, Cells
    <2> HIDE DEF counted
    <2>4. QED
      BY <1>2, <2>2, <2>3 DEF Types
  <1>6. /\ call' \in [Jobs -> Calls] /\ call'[j].rest = r /\ call'[j].analysis = call[j].analysis
        /\ call'[j].matrix = call[j].matrix /\ call'[j].outcome = ""
        /\ \A k \in Jobs \ {j} : call'[k] = call[k]
    <2> DEFINE next == [call[j] EXCEPT !.rest = r]
    <2>1. call' = [call EXCEPT ![j] = next]
      BY <1>2 DEF Types
    <2> HIDE DEF r
    <2>2. /\ next \in Calls /\ next.rest = r /\ next.analysis = call[j].analysis
          /\ next.matrix = call[j].matrix /\ next.outcome = ""
      BY <1>1, <1>2, <1>3 DEF Calls
    <2> HIDE DEF next
    <2>3. QED
      BY <1>2, <2>1, <2>2 DEF Types
  <1> HIDE DEF r, total, done
  <1>7. CallInv(j)'
    BY ONLY <1>2, <1>3, <1>6 DEF CallInv, Running
  <1>8. LateInv(j)'
    BY <1>2, <1>3, <1>5, <1>6 DEF JobInv, LateInv, At, Running
  <1>9. WorkInv(j)'
    <2>1. (done + Cells) + Count(r) = total /\ done + Cells \in Nat
      <3>1. done + (Cells + Count(r)) = total
        BY ONLY <1>3, <1>4
      <3>2. QED
        BY ONLY <1>2, <1>3, <3>1
    <2>2. done + Cells <= total
      BY ONLY <1>2, <1>3, <2>1, Remaining
    <2>3. Head(r) # "total"
      <3>1. 1 \in DOMAIN r /\ Head(r) = r[1]
        BY <1>3
      <3>2. QED
        BY <1>3, <3>1
    <2>4. /\ native'[j].completed + Count(call'[j].rest) = Total(call'[j].analysis)
          /\ native'[j].total = Total(call'[j].analysis)
          /\ native'[j].completed <= native'[j].total
      BY <1>4, <1>5, <1>6, <2>1, <2>2 DEF total
    <2>5. /\ call'[j].outcome = "" /\ Running(j)' /\ ~At(j, "total")'
          /\ \A i \in DOMAIN call'[j].rest : call'[j].rest[i] \notin {"total", "zero"}
      BY <1>3, <1>6, <2>3 DEF Running, At
    <2>6. QED
      BY ONLY <2>4, <2>5 DEF WorkInv
  <1>10. /\ cache' \in Seq(Matrices) /\ CacheInv'
    <2> DEFINE was(i) == IF i = 1 THEN p ELSE IF i <= p THEN i - 1 ELSE i
    <2>1. /\ cache' \in Seq(Matrices) /\ Len(cache') = Len(cache) /\ DOMAIN cache' = DOMAIN cache
          /\ \A i \in DOMAIN cache' : was(i) \in DOMAIN cache /\ cache'[i] = cache[was(i)]
          /\ \A i, k \in DOMAIN cache' : was(i) = was(k) => i = k
      BY <1>2, MovedToFront DEF Types
    <2> HIDE DEF was
    <2>2. \A i, k \in DOMAIN cache : i \in Int /\ k \in Int
      BY <1>2 DEF Types
    <2>3. \A i, k \in DOMAIN cache : i # k /\ cache[i] = cache[k] => cache[i] \in raced
      <3>1. ASSUME NEW i \in DOMAIN cache, NEW k \in DOMAIN cache, i # k, cache[i] = cache[k]
            PROVE  cache[i] \in raced
        <4>1. i < k \/ k < i
          BY <2>2, <3>1
        <4>2. QED
          BY <3>1, <4>1 DEF IInv, CacheInv
      <3>2. QED
        BY <3>1
    <2>4. ASSUME NEW i \in DOMAIN cache', NEW k \in DOMAIN cache', i < k, cache'[i] = cache'[k]
          PROVE  cache'[i] \in raced'
      <3>1. i # k
        BY <2>1, <2>2, <2>4
      <3>2. was(i) # was(k) /\ cache[was(i)] = cache[was(k)] /\ was(i) \in DOMAIN cache
            /\ was(k) \in DOMAIN cache /\ cache'[i] = cache[was(i)]
        BY <2>1, <2>4, <3>1
      <3>3. QED
        BY <2>3, <3>2
    <2>5. \A k \in Jobs : call'[k].matrix = call[k].matrix /\ (Builds(k)' => Builds(k))
      <3>1. ~Builds(j)'
        BY <1>3, <1>6 DEF Builds
      <3>2. QED
        BY <1>6, <3>1 DEF Builds
    <2>6. \A k \in Jobs : \A i \in DOMAIN cache' :
            Builds(k)' /\ cache'[i] = call'[k].matrix => call'[k].matrix \in raced'
      BY <2>1, <2>5 DEF IInv, CacheInv
    <2>7. \A k, l \in Jobs : Builds(k)' /\ Builds(l)' /\ k # l /\ call'[k].matrix = call'[l].matrix =>
            call'[k].matrix \in raced'
      BY <2>5 DEF IInv, CacheInv
    <2>8. Len(cache') <= MATRIX_CACHE_CAPACITY
      BY <2>1 DEF IInv, CacheInv
    <2>9. QED
      BY <2>1, <2>4, <2>6, <2>7, <2>8 DEF CacheInv
  <1>11. QED
    BY <1>1, <1>2, <1>5, <1>6, <1>7, <1>8, <1>9, <1>10, CallStep DEF Types

\* j misses: whoever builds its matrix already makes it a race.
LEMMA MissStep ==
  ASSUME IInv, NEW j \in Jobs, Running(j), Head(call[j].rest) = "find", Continue(j),
         Found(call[j].matrix) = {},
         raced' = IF Building(call[j].matrix) # {} THEN raced \cup {call[j].matrix} ELSE raced,
         UNCHANGED <<native, managed, reader, token, cache, late>>
  PROVE  IInv'
  <1> DEFINE s == call[j].rest
             m == call[j].matrix
  <1>1. call[j].outcome = "" /\ s # <<>>
    BY RunningIsOpen
  <1>2. /\ Types /\ JobInv(j) /\ native[j].completed \in Nat /\ Regular(s)
        /\ Total(call[j].analysis) \in Nat
    BY <1>1, Alive
  <1>3. /\ Head(s) = s[1] /\ 1 \in DOMAIN s /\ Count(s) = Count(Tail(s)) /\ Count(Tail(s)) \in Nat
        /\ \A i \in DOMAIN Tail(s) : i + 1 \in DOMAIN s /\ Tail(s)[i] = s[i + 1]
    <2>1. /\ Head(s) = s[1] /\ 1 \in DOMAIN s /\ Count(Tail(s)) \in Nat
          /\ Count(s) = (IF Head(s) = "work" THEN 1 ELSE 0) + Count(Tail(s))
          /\ \A i \in DOMAIN Tail(s) : i + 1 \in DOMAIN s /\ Tail(s)[i] = s[i + 1]
      BY ONLY <1>1, <1>2, RegularTail
    <2>2. Head(s) # "work"
      OBVIOUS
    <2>3. QED
      BY ONLY <2>1, <2>2
  <1>4. /\ native[j].total = Total(call[j].analysis)
        /\ native[j].completed + Count(s) = Total(call[j].analysis)
        /\ \A i \in DOMAIN s : s[i] = "zero" => native[j].completed = 0
    BY <1>2 DEF JobInv, WorkInv, At
  <1>5. /\ call' \in [Jobs -> Calls] /\ CallInv(j)' /\ call'[j].rest = Tail(s)
        /\ call'[j].matrix = m
        /\ \A k \in Jobs \ {j} : call'[k] = call[k]
    BY Continued
  <1>6. WorkInv(j)'
    <2>1. \A i \in DOMAIN Tail(s) : Tail(s)[i] = "zero" => native'[j].completed = 0
      BY <1>3, <1>4
    <2>2. native'[j].completed + Count(Tail(s)) = Total(call[j].analysis)
      BY <1>3, <1>4
    <2>3. QED
      BY <1>2, <1>4, <2>1, <2>2, WorkContinued
  <1>7. LateInv(j)'
    <2>1. Tail(s) = <<>> \/ Head(Tail(s)) # "work"
      BY <1>1, <1>2, NoChunkNext
    <2>2. QED
      BY <1>2, <1>5, <2>1 DEF JobInv, LateInv, At, Running
  <1>8. CacheInv'
    <2>1. \A i \in DOMAIN cache : cache[i] # m
      BY DEF Found
    <2>2. \A x \in raced : x \in raced'
      OBVIOUS
    <2>3. ASSUME NEW k \in Jobs, k # j, Builds(k), call[k].matrix = m PROVE m \in raced'
      <3>1. /\ \E i \in DOMAIN call[k].rest : call[k].rest[i] = "insert"
            /\ \A i \in DOMAIN call[k].rest : call[k].rest[i] # "find"
        BY <2>3 DEF Builds
      <3>2. "insert" \in ToSet(call[k].rest) /\ "find" \notin ToSet(call[k].rest)
        BY <3>1 DEF ToSet
      <3>3. ~At(k, "find")
        <4>1. call[k].rest \in Seq(Ops)
          BY <1>2 DEF Types, Calls
        <4>2. Running(k) => Head(call[k].rest) = call[k].rest[1] /\ 1 \in DOMAIN call[k].rest
          BY <4>1 DEF Running
        <4>3. QED
          BY <3>1, <4>2 DEF At
      <3>4. k \in Building(m)
        BY <2>3, <3>2, <3>3 DEF Building
      <3>5. QED
        BY <3>4
    <2>4. \A k \in Jobs : call'[k].matrix = call[k].matrix /\ (k # j /\ Builds(k)' => Builds(k))
      BY <1>5 DEF Builds
    <2>5. \A i, k \in DOMAIN cache' : i < k /\ cache'[i] = cache'[k] => cache'[i] \in raced'
      BY <2>2 DEF IInv, CacheInv
    <2>6. \A k \in Jobs : \A i \in DOMAIN cache' :
            Builds(k)' /\ cache'[i] = call'[k].matrix => call'[k].matrix \in raced'
      BY <2>1, <2>2, <2>4 DEF IInv, CacheInv
    <2>7. ASSUME NEW k \in Jobs, NEW l \in Jobs, Builds(k)', Builds(l)', k # l,
                 call'[k].matrix = call'[l].matrix
          PROVE  call'[k].matrix \in raced'
      <3>1. CASE k = j
        BY <2>3, <2>4, <2>7, <3>1
      <3>2. CASE l = j
        BY <2>3, <2>4, <2>7, <3>2
      <3>3. CASE k # j /\ l # j
        BY <2>2, <2>4, <2>7, <3>3 DEF IInv, CacheInv
      <3>4. QED
        BY <3>1, <3>2, <3>3
    <2>8. Len(cache') <= MATRIX_CACHE_CAPACITY
      BY DEF IInv, CacheInv
    <2>9. QED
      BY <2>5, <2>6, <2>7, <2>8 DEF CacheInv
  <1>9. QED
    BY <1>1, <1>2, <1>5, <1>6, <1>7, <1>8, CallStep DEF Types

LEMMA Smallest ==
  ASSUME NEW S, S \subseteq Nat, S # {}
  PROVE  \E i \in S : \A k \in S : i <= k
  <1> DEFINE R == OpToRel(<, Nat)
  <1>1. PICK x \in S : \A y \in S : ~(<<y, x>> \in R)
    BY NatLessThanWellFounded, WFMin
  <1>2. \A a \in Nat : \A b \in Nat : a < b => <<a, b>> \in R
    BY DEF OpToRel
  <1> HIDE DEF R
  <1>3. \A y \in S : ~(y < x)
    BY <1>1, <1>2
  <1>4. QED
    BY <1>3

LEMMA FindStep ==
  ASSUME IInv, NEW j \in Jobs, Find(j)
  PROVE  IInv'
  <1> DEFINE hits == Found(call[j].matrix)
  <1>1. Running(j) /\ Head(call[j].rest) = "find" /\ UNCHANGED <<managed, reader, token, late>>
    BY DEF Find, At
  <1>2. CASE hits = {}
    <2>1. /\ Continue(j) /\ UNCHANGED <<native, cache>>
          /\ raced' = IF Building(call[j].matrix) # {} THEN raced \cup {call[j].matrix} ELSE raced
      BY <1>2 DEF Find
    <2>2. QED
      BY <1>1, <1>2, <2>1, MissStep
  <1>3. CASE hits # {}
    <2> DEFINE first == CHOOSE i \in hits : \A k \in hits : i <= k
    <2>1. /\ cache' = <<cache[first]>> \o RemoveAt(cache, first)
          /\ native' = [native EXCEPT ![j].completed = @ + Sensors * Chunks]
          /\ call' = [call EXCEPT ![j].rest = AfterInsert(@)]
          /\ raced' = raced
      BY <1>3 DEF Find
    <2>2. first \in DOMAIN cache
      <3>1. \E i \in hits : \A k \in hits : i <= k
        <4>1. hits \in SUBSET Nat
          BY DEF Found, IInv, Types
        <4>2. PICK i \in hits : TRUE
          BY <1>3
        <4>3. QED
          BY <4>1, <4>2, Smallest
      <3>2. first \in hits
        BY <3>1
      <3>3. QED
        BY <3>2 DEF Found
    <2> HIDE DEF first
    <2>3. QED
      BY <1>1, <2>1, <2>2, HitStep
  <1>4. QED
    BY <1>2, <1>3

LEMMA InsertStep ==
  ASSUME IInv, NEW j \in Jobs, Insert(j)
  PROVE  IInv'
  <1> DEFINE s == call[j].rest
             m == call[j].matrix
             grown == <<m>> \o cache
             shown == SubSeq(grown, 1, IF Len(grown) > MATRIX_CACHE_CAPACITY
                                         THEN MATRIX_CACHE_CAPACITY ELSE Len(grown))
  <1>1. /\ Running(j) /\ Head(s) = "insert" /\ Continue(j) /\ cache' = shown
        /\ UNCHANGED <<native, managed, reader, token, raced, late>>
    BY DEF Insert, At
  <1>2. call[j].outcome = "" /\ s # <<>>
    BY <1>1, RunningIsOpen
  <1>3. /\ Types /\ JobInv(j) /\ CacheInv /\ native[j].completed \in Nat /\ Regular(s)
        /\ Total(call[j].analysis) \in Nat /\ m \in Matrices /\ cache \in Seq(Matrices)
    BY <1>2, Alive DEF IInv, Types, Calls
  <1>4. /\ cache' \in Seq(Matrices) /\ Len(cache') <= MATRIX_CACHE_CAPACITY
        /\ \A i \in DOMAIN cache' : \/ i = 1 /\ cache'[i] = m
                                    \/ i > 1 /\ i - 1 \in DOMAIN cache /\ cache'[i] = cache[i - 1]
    <2>1. Len(cache) <= MATRIX_CACHE_CAPACITY /\ MATRIX_CACHE_CAPACITY \in Nat
      BY <1>3, SizesAssumption DEF CacheInv
    <2>2. LET d == shown
          IN  /\ d \in Seq(Matrices) /\ Len(d) <= MATRIX_CACHE_CAPACITY
              /\ \A i \in DOMAIN d : \/ i = 1 /\ d[i] = m
                                     \/ i > 1 /\ i - 1 \in DOMAIN cache /\ d[i] = cache[i - 1]
      BY ONLY <1>3, <2>1, InsertedInFront
    <2> HIDE DEF shown
    <2>3. QED
      BY <1>1, <2>2
  <1> HIDE DEF shown
  <1>5. /\ Head(s) = s[1] /\ 1 \in DOMAIN s /\ Count(s) = Count(Tail(s)) /\ Count(Tail(s)) \in Nat
        /\ \A i \in DOMAIN Tail(s) : /\ i + 1 \in DOMAIN s /\ Tail(s)[i] = s[i + 1]
                                     /\ i \in Nat /\ i >= 1
    <2>1. /\ Head(s) = s[1] /\ 1 \in DOMAIN s /\ Count(Tail(s)) \in Nat
          /\ Count(s) = (IF Head(s) = "work" THEN 1 ELSE 0) + Count(Tail(s))
          /\ \A i \in DOMAIN Tail(s) : i + 1 \in DOMAIN s /\ Tail(s)[i] = s[i + 1]
          /\ DOMAIN Tail(s) = 1..Len(Tail(s)) /\ Len(Tail(s)) \in Nat
      BY ONLY <1>2, <1>3, RegularTail
    <2>2. Head(s) # "work"
      BY <1>1
    <2>3. QED
      BY ONLY <2>1, <2>2
  <1>6. /\ native[j].total = Total(call[j].analysis)
        /\ native[j].completed + Count(s) = Total(call[j].analysis)
        /\ \A i \in DOMAIN s : s[i] = "zero" => native[j].completed = 0
    BY <1>1, <1>3 DEF JobInv, WorkInv, At
  <1>7. /\ call' \in [Jobs -> Calls] /\ CallInv(j)' /\ call'[j].rest = Tail(s)
        /\ call'[j].matrix = m
        /\ \A k \in Jobs \ {j} : call'[k] = call[k]
    BY <1>1, Continued
  <1>8. WorkInv(j)'
    <2>1. native' = native
      BY <1>1
    <2>2. \A i \in DOMAIN Tail(s) : Tail(s)[i] = "zero" => native'[j].completed = 0
      BY <1>5, <1>6, <2>1
    <2>3. native'[j].completed + Count(Tail(s)) = Total(call[j].analysis)
      BY <1>5, <1>6, <2>1
    <2>4. QED
      BY <1>1, <1>3, <1>6, <2>1, <2>2, <2>3, WorkContinued
  <1>9. LateInv(j)'
    <2>1. Tail(s) = <<>> \/ Head(Tail(s)) # "work"
      BY <1>1, <1>2, <1>3, NoChunkNext
    <2>2. QED
      BY <1>1, <1>3, <1>7, <2>1 DEF JobInv, LateInv, At, Running
  <1>10. CacheInv'
    <2>1. Builds(j)
      <3>1. \A i \in DOMAIN s : s[i] # "find"
        <4>1. ASSUME NEW i \in DOMAIN s, s[i] = "find" PROVE FALSE
          <5>1. i < 1
            BY <1>1, <1>3, <1>5, <4>1 DEF Regular
          <5>2. i >= 1
            BY <1>3 DEF Regular
          <5>3. i \in Int
            BY <1>3 DEF Regular
          <5>4. QED
            BY ONLY <5>1, <5>2, <5>3
        <4>2. QED
          BY <4>1
      <3>2. QED
        BY <1>1, <1>5, <3>1 DEF Builds
    <2>2. ~Builds(j)'
      <3>1. ASSUME NEW i \in DOMAIN Tail(s), Tail(s)[i] = "insert" PROVE FALSE
        <4>1. i + 1 = 1
          BY <1>1, <1>3, <1>5, <3>1 DEF Regular
        <4>2. QED
          BY <1>5, <4>1
      <3>2. QED
        BY <1>7, <3>1 DEF Builds
    <2>3. \A k \in Jobs : call'[k].matrix = call[k].matrix /\ (Builds(k)' => Builds(k) /\ k # j)
      BY <1>7, <2>2 DEF Builds
    <2>4. \A i \in DOMAIN cache : cache[i] = m => m \in raced
      BY <1>3, <2>1 DEF CacheInv
    <2>5. \A k \in Jobs : k # j /\ Builds(k) /\ call[k].matrix = m => m \in raced
      BY <1>3, <2>1 DEF CacheInv
    <2>6. ASSUME NEW i \in DOMAIN cache', NEW k \in DOMAIN cache', i < k, cache'[i] = cache'[k]
          PROVE  cache'[i] \in raced
      <3>1. k > 1 /\ k - 1 \in DOMAIN cache /\ cache'[k] = cache[k - 1]
        <4>1. k = 1 => ~(i < k)
          <5>1. i \in Int /\ i >= 1
            BY <1>4
          <5>2. QED
            BY <5>1
        <4>2. QED
          BY <1>4, <2>6, <4>1
      <3>2. CASE i = 1
        <4>1. cache[k - 1] = m
          BY <1>4, <2>6, <3>1, <3>2
        <4>2. QED
          BY <2>4, <2>6, <3>1, <4>1
      <3>3. CASE i # 1
        <4>1. i > 1 /\ i - 1 \in DOMAIN cache /\ cache'[i] = cache[i - 1]
          BY <1>4, <3>3
        <4>2. i - 1 < k - 1
          <5>1. i \in Int /\ k \in Int
            BY <1>4
          <5>2. QED
            BY <2>6, <5>1
        <4>3. QED
          BY <1>3, <2>6, <3>1, <4>1, <4>2 DEF CacheInv
      <3>4. QED
        BY <3>2, <3>3
    <2>7. ASSUME NEW k \in Jobs, NEW i \in DOMAIN cache', Builds(k)', cache'[i] = call'[k].matrix
          PROVE  call'[k].matrix \in raced
      <3>1. call'[k].matrix = call[k].matrix /\ Builds(k) /\ k # j
        BY <2>3, <2>7
      <3>2. CASE cache'[i] = m
        BY <2>5, <2>7, <3>1, <3>2
      <3>3. CASE i - 1 \in DOMAIN cache /\ cache'[i] = cache[i - 1]
        BY <1>3, <2>7, <3>1, <3>3 DEF CacheInv
      <3>4. QED
        BY <1>4, <3>2, <3>3
    <2>8. \A k, l \in Jobs : Builds(k)' /\ Builds(l)' /\ k # l /\ call'[k].matrix = call'[l].matrix =>
            call'[k].matrix \in raced
      BY <1>3, <2>3 DEF CacheInv
    <2>9. raced' = raced
      BY <1>1
    <2>10. QED
      BY <1>4, <2>6, <2>7, <2>8, <2>9 DEF CacheInv
  <1>11. QED
    BY <1>1, <1>2, <1>3, <1>4, <1>7, <1>8, <1>9, <1>10, CallStep DEF Types

-----------------------------------------------------------------------------
(* The invariant holds.                                                      *)

\* A handle is in the table from the start unless the object was closed before.
LEMMA InitialHandle ==
  ASSUME NEW idle \in BOOLEAN
  PROVE  LET n == [live |-> ~idle, cancelled |-> FALSE, total |-> 0, completed |-> 0]
             m == [closed |-> idle, last |-> NoReport]
         IN  /\ (n.live <=> ~m.closed) /\ (m.closed <=> idle)
             /\ n.total = 0 /\ n.completed = 0 /\ m.last.total = 0
             /\ n \in Natives /\ m \in Objects
  <1>1. CASE idle = TRUE
    BY <1>1 DEF NoReport, Natives, Objects
  <1>2. CASE idle = FALSE
    BY <1>2 DEF NoReport, Natives, Objects
  <1>3. QED
    BY <1>1, <1>2

LEMMA InitInv == Init => IInv
  <1> SUFFICES ASSUME Init PROVE IInv
    OBVIOUS
  <1> DEFINE Idle(w) == Jobs \ DOMAIN w
  <1>1. PICK w \in Workloads :
          /\ native = [j \in Jobs |-> [live |-> j \notin Idle(w), cancelled |-> FALSE,
                                       total |-> 0, completed |-> 0]]
          /\ call = [j \in Jobs |-> IF j \in Idle(w) THEN Ended
                                    ELSE NewCall(w[j].analysis, w[j].matrix)]
          /\ managed = [j \in Jobs |-> [closed |-> j \in Idle(w), last |-> NoReport]]
    BY DEF Init
  <1>2. /\ reader = [j \in Jobs |-> Unlocked] /\ token = [j \in Jobs |-> "none"]
        /\ cache \in EarlierMatrices /\ raced = {} /\ late = [j \in Jobs |-> 0]
    BY DEF Init
  <1>3. cache \in Seq(Matrices)
    <2>1. cache \in Seq(ToSet(cache))
      BY <1>2, EarlierAssumption
    <2>2. ASSUME NEW m \in ToSet(cache) PROVE m \in Matrices
      <3>1. ToSet(cache) \in {ToSet(c) : c \in EarlierMatrices}
        BY <1>2
      <3>2. QED
        <4> DEFINE earlier == {ToSet(c) : c \in EarlierMatrices}
                   now == ToSet(cache)
                   assigned == UNION {{v[j].matrix : j \in DOMAIN v} : v \in Workloads}
        <4>1. now \in earlier /\ m \in now
          BY <3>1
        <4>2. Matrices = {""} \cup assigned \cup (UNION earlier)
          BY DEF Matrices
        <4> HIDE DEF earlier, now, assigned
        <4>3. QED
          <5>1. m \in UNION earlier
            BY ONLY <4>1
          <5>2. QED
            BY ONLY <4>2, <5>1
    <2>3. cache \in [1..Len(cache) -> Matrices] /\ Len(cache) \in Nat
      BY <2>1, <2>2
    <2>4. QED
      BY <2>3
  <1>4. ASSUME NEW j \in Jobs
        PROVE  /\ call[j] \in Calls /\ native[j] \in Natives /\ managed[j] \in Objects
               /\ call[j].rest = <<>> /\ native[j].total = 0 /\ native[j].completed = 0
               /\ managed[j].last.total = 0
               /\ call[j].outcome = "" => call[j].analysis \in Analyses
               /\ call[j].outcome \in {"", "cancelled"}
               /\ native[j].live <=> ~managed[j].closed
               /\ managed[j].closed => call[j].outcome # ""
    <2> DEFINE idle == j \in Idle(w)
    <2>1. /\ native[j] = [live |-> ~idle, cancelled |-> FALSE, total |-> 0, completed |-> 0]
          /\ managed[j] = [closed |-> idle, last |-> NoReport]
      BY <1>1
    <2>2. idle \in BOOLEAN
      OBVIOUS
    <2> HIDE DEF idle
    <2>3. /\ (native[j].live <=> ~managed[j].closed) /\ (managed[j].closed <=> idle)
          /\ native[j].total = 0 /\ native[j].completed = 0 /\ managed[j].last.total = 0
          /\ native[j] \in Natives /\ managed[j] \in Objects
      BY <2>1, <2>2, InitialHandle, Zenon
    <2>4. CASE idle
      <3>1. call[j] = [analysis |-> "", matrix |-> "", rest |-> <<>>, outcome |-> "cancelled"]
        BY <1>1, <2>4 DEF idle, Ended
      <3>2. "" \in Matrices
        BY DEF Matrices
      <3>3. /\ call[j] \in Calls /\ call[j].rest = <<>> /\ call[j].outcome = "cancelled"
        <4> DEFINE none == <<>>
        <4>1. /\ none \in Seq(Ops) /\ "" \in Analyses \cup {""}
              /\ "cancelled" \in {"", "succeeded", "cancelled", "failed"}
          BY ONLY NothingLeft
        <4> HIDE DEF none
        <4> DEFINE made == [analysis |-> "", matrix |-> "", rest |-> none, outcome |-> "cancelled"]
        <4>2. call[j] = made
          BY <3>1 DEF none
        <4>3. made \in Calls /\ made.rest = none /\ made.outcome = "cancelled"
          BY ONLY <3>2, <4>1 DEF Calls
        <4> HIDE DEF made
        <4>4. QED
          BY <4>2, <4>3 DEF none
      <3>4. QED
        BY <2>3, <3>3
    <2>5. CASE ~idle
      <3>1. /\ call[j] = [analysis |-> w[j].analysis, matrix |-> w[j].matrix, rest |-> <<>>,
                          outcome |-> ""]
            /\ j \in DOMAIN w
        BY <1>1, <2>5 DEF idle, NewCall
      <3>2. w[j].analysis \in Analyses
        BY <3>1, WorkAssumption
      <3>3. w[j].matrix \in Matrices
        <4>1. w[j].matrix \in {w[k].matrix : k \in DOMAIN w}
          BY <3>1
        <4>2. {w[k].matrix : k \in DOMAIN w} \in {{v[k].matrix : k \in DOMAIN v} : v \in Workloads}
          OBVIOUS
        <4>3. QED
          BY <4>1, <4>2, Zenon DEF Matrices
      <3>4. /\ call[j] \in Calls /\ call[j].rest = <<>> /\ call[j].outcome = ""
            /\ call[j].analysis \in Analyses
        <4> DEFINE none == <<>>
                   work == w[j]
        <4>1. /\ none \in Seq(Ops) /\ work.analysis \in Analyses \cup {""}
              /\ "" \in {"", "succeeded", "cancelled", "failed"}
          BY <3>2, NothingLeft
        <4> HIDE DEF none, work
        <4> DEFINE made == [analysis |-> work.analysis, matrix |-> work.matrix, rest |-> none, outcome |-> ""]
        <4>2. call[j] = made
          BY <3>1 DEF none, work
        <4>3. work.matrix \in Matrices
          BY <3>3 DEF work
        <4>4. made \in Calls /\ made.rest = none /\ made.outcome = "" /\ made.analysis = work.analysis
          BY ONLY <4>1, <4>3 DEF Calls
        <4> HIDE DEF made
        <4>5. QED
          BY <3>2, <4>2, <4>4 DEF none, work
      <3>5. QED
        BY <2>3, <2>5, <3>4
    <2>6. QED
      BY <2>4, <2>5
  <1>5. Types
    <2>1. call \in [Jobs -> Calls]
      <3>1. call = [j \in Jobs |-> call[j]]
        BY <1>1
      <3>2. QED
        BY <1>4, <3>1
    <2>2. native \in [Jobs -> Natives]
      <3>1. native = [j \in Jobs |-> native[j]]
        BY <1>1
      <3>2. QED
        BY <1>4, <3>1
    <2>3. managed \in [Jobs -> Objects]
      <3>1. managed = [j \in Jobs |-> managed[j]]
        BY <1>1
      <3>2. QED
        BY <1>4, <3>1
    <2>4. reader \in [Jobs -> Readers]
      BY <1>2, ReaderTakes
    <2>5. token \in [Jobs -> {"none", "calling", "called"}] /\ late \in [Jobs -> Nat]
      BY <1>2
    <2>6. QED
      BY <1>3, <2>1, <2>2, <2>3, <2>4, <2>5 DEF Types
  <1>6. ASSUME NEW j \in Jobs PROVE JobInv(j)
    <2>1. /\ reader[j].holder = "nobody" /\ reader[j].step = ""
          /\ reader[j].total = 0 /\ reader[j].completed = 0
          /\ token[j] = "none" /\ late[j] = 0 /\ ~Running(j)
      BY <1>2, <1>4, ReaderTakes DEF Running
    <2>2. CallInv(j)
      BY <1>4, NothingLeft DEF CallInv, Running
    <2>3. HandleInv(j)
      BY <1>4, <2>1 DEF HandleInv, Free
    <2>4. LateInv(j)
      <3>1. late[j] = 0
        BY <2>1
      <3>2. QED
        BY ONLY <3>1 DEF LateInv
    <2>5. WorkInv(j)
      <3>1. native[j].total = 0 /\ native[j].completed = 0 /\ call[j].outcome # "succeeded"
        BY <1>4
      <3>2. native[j].completed <= native[j].total
        BY <3>1
      <3>3. QED
        BY <2>1, <3>1, <3>2 DEF WorkInv
    <2>6. ReaderInv(j)
      BY <1>4, <2>1 DEF ReaderInv
    <2>7. QED
      BY <2>2, <2>3, <2>4, <2>5, <2>6 DEF JobInv
  <1>7. CacheInv
    <2>1. Len(cache) <= MATRIX_CACHE_CAPACITY /\ \A i, k \in DOMAIN cache : cache[i] = cache[k] => i = k
      BY <1>2, EarlierAssumption
    <2>2. \A j \in Jobs : ~Builds(j)
      BY <1>4, NothingLeft DEF Builds
    <2>3. \A i, k \in DOMAIN cache : i < k => i # k
      BY <1>3
    <2>4. QED
      BY <2>1, <2>2, <2>3 DEF CacheInv
  <1>8. QED
    BY <1>5, <1>6, <1>7 DEF IInv

LEMMA StutterInv == IInv /\ UNCHANGED vars => IInv'
  <1> SUFFICES ASSUME IInv, UNCHANGED vars PROVE IInv'
    OBVIOUS
  <1>1. UNCHANGED <<native, call, managed, reader, token, cache, raced, late>>
    BY DEF vars
  <1>2. Types'
    BY <1>1 DEF IInv, Types
  <1>3. ASSUME NEW j \in Jobs PROVE JobInv(j)'
    BY <1>1 DEF IInv, JobInv, CallInv, HandleInv, LateInv, WorkInv, ReaderInv, At, Running, Free
  <1>4. CacheInv'
    BY <1>1, CacheKept DEF IInv, Builds
  <1>5. QED
    BY <1>2, <1>3, <1>4 DEF IInv

LEMMA NextInv == IInv /\ [Next]_vars => IInv'
  <1> SUFFICES ASSUME IInv, [Next]_vars PROVE IInv'
    OBVIOUS
  <1>1. ASSUME NEW j \in Jobs, NativeStep(j) PROVE IInv'
    <2>1. CASE Start(j)
      BY <2>1, StartStep
    <2>2. CASE Announce(j)
      BY <2>2, AnnounceStep
    <2>3. CASE Zero(j) \/ FindScene(j) \/ Check(j)
      BY <2>3, WaitStep
    <2>4. CASE Work(j)
      BY <2>4, WorkStep
    <2>5. CASE Find(j)
      BY <2>5, FindStep
    <2>6. CASE Insert(j)
      BY <2>6, InsertStep
    <2>7. QED
      BY <1>1, <2>1, <2>2, <2>3, <2>4, <2>5, <2>6 DEF NativeStep
  <1>2. ASSUME NEW j \in Jobs, Progress(j) \/ Complete(j) PROVE IInv'
    BY <1>2, ProgressStep
  <1>3. ASSUME NEW j \in Jobs, Load(j) PROVE IInv'
    BY <1>3, LoadStep
  <1>4. ASSUME NEW j \in Jobs, ReportToClient(j) PROVE IInv'
    BY <1>4, ReportStep
  <1>5. ASSUME NEW j \in Jobs, Close(j) PROVE IInv'
    BY <1>5, CloseStep
  <1>6. ASSUME NEW j \in Jobs, Cancel(j) \/ TokenFires(j) \/ RequestCancellation(j) PROVE IInv'
    BY <1>6, CancelStep
  <1>7. CASE Done
    BY <1>7, StutterInv DEF Done
  <1>8. CASE UNCHANGED vars
    BY <1>8, StutterInv
  <1>9. QED
    BY <1>1, <1>2, <1>3, <1>4, <1>5, <1>6, <1>7, <1>8 DEF Next

\* The inductive invariant, of every behaviour whatever is fair.
THEOREM AnalysisInvariant == Spec => []IInv
  BY InitInv, NextInv, PTL DEF Spec

\* Nobody is about to use a handle that was released: not the call, not whoever reads the
\* progress, not the callback of the token (Sky.cs:330-344, job.rs:90-140).
THEOREM HandlesHold == Spec => []HandlesOutliveTheirUse
  <1>1. IInv => HandlesOutliveTheirUse
    BY DEF IInv, JobInv, CallInv, HandleInv, HandlesOutliveTheirUse
  <1>2. QED
    BY <1>1, AnalysisInvariant, PTL

\* Whichever analysis it is, and whenever the flag is set: at most the chunk that was about
\* to be done is done after it (job.rs:70, sky.rs:230).
THEOREM CancellationHolds == Spec => []CancelledInOneChunk
  <1>1. IInv => CancelledInOneChunk
    BY DEF IInv, JobInv, LateInv, CancelledInOneChunk
  <1>2. QED
    BY <1>1, AnalysisInvariant, PTL

\* A matrix is cached twice only if two calls were building it together, and the cache keeps
\* to its capacity (daylight.rs:408-424, 476-483).
THEOREM DuplicatesHold == Spec => []DuplicatesAreRaces
  <1>1. IInv => DuplicatesAreRaces
    BY DEF IInv, CacheInv, DuplicatesAreRaces
  <1>2. QED
    BY <1>1, AnalysisInvariant, PTL

\* What the exported functions announce is what the loops and the cache count, for any
\* number of sensors and chunks, and no report mixes moments into more than everything.
THEOREM ProgressHolds == Spec => []ProgressIsTruthful
  <1>1. IInv => ProgressIsTruthful
    BY DEF IInv, JobInv, WorkInv, ReaderInv, ProgressIsTruthful
  <1>2. QED
    BY <1>1, AnalysisInvariant, PTL

=============================================================================
