-------------------------- MODULE CacheReferenceProofs ------------------------
(***************************************************************************)
(* The stack property of the simulated caches, for every trace, hierarchy  *)
(* and number of lines: a line is resident at a level exactly if its reuse *)
(* distance within its set is below the associativity.                     *)
(***************************************************************************)
EXTENDS CacheReference, FiniteSums, SequenceTheorems

\* The lines of set s, as the caches and the analyzer see them at level k.
InSet(k, s) == {m \in LineIds : SetOf(k, m) = s}
Content(q) == {q[p] : p \in 1 .. Len(q)}

Typed ==
  /\ hierarchy \in Hierarchies
  /\ pending \in Seq(LineIds)
  /\ \A k \in Level : residents[k] \in [0 .. SetsOf(hierarchy[k]) - 1 -> Seq(LineIds)]
  /\ serial \in [Level -> Nat]
  /\ last \in [Level -> [LineIds -> Nat]]

\* The requests of a level are numbered, each by its line.
Numbered(k) ==
  /\ \A m \in LineIds : last[k][m] <= serial[k]
  /\ \A m, n \in LineIds : last[k][m] = last[k][n] /\ last[k][m] > 0 => m = n

\* Of the lines of S, requested last as L says, q has the most recent ones, as
\* many as there are ways, in the order of their last requests.
Recent(S, ways, L, q) ==
  /\ Len(q) <= ways
  /\ \A p \in 1 .. Len(q) : q[p] \in S /\ L[q[p]] > 0
  /\ \A p, r \in 1 .. Len(q) : p < r => L[q[p]] < L[q[r]]
  /\ \A m \in S \ Content(q) :
       L[m] > 0 => /\ Len(q) = ways
                   /\ \A p \in 1 .. Len(q) : L[m] < L[q[p]]

StackInv ==
  /\ Typed
  /\ \A k \in Level : Numbered(k)
  /\ \A k \in Level : \A s \in 0 .. SetsOf(hierarchy[k]) - 1 :
       Recent(InSet(k, s), Ways(k), last[k], residents[k][s])

-----------------------------------------------------------------------------
(***************************************************************************)
(* One set of one level.                                                   *)
(***************************************************************************)
\* A hit moves the line to the end and keeps the order of the others.
LEMMA HitKeepsOrder ==
  ASSUME NEW S, S \subseteq LineIds, NEW w \in Nat, NEW L \in [LineIds -> Nat],
         NEW q \in Seq(LineIds), NEW n \in Nat, \A m \in LineIds : L[m] <= n,
         Recent(S, w, L, q), NEW line \in S, Holds(q, line)
  PROVE  /\ MovedToEnd(q, line) \in Seq(LineIds)
         /\ Recent(S, w, [L EXCEPT ![line] = n + 1], MovedToEnd(q, line))
<1> DEFINE x == CHOOSE p \in 1 .. Len(q) : q[p] = line
           M == [L EXCEPT ![line] = n + 1]
           r == MovedToEnd(q, line)
<1>1. x \in 1 .. Len(q) /\ q[x] = line /\ Len(q) \in Nat
  BY DEF Holds
<1>2. r = [i \in 1 .. Len(q) |-> IF i < x THEN q[i] ELSE IF i < Len(q) THEN q[i + 1] ELSE line]
  BY DEF MovedToEnd
<1> HIDE DEF x, r
<1>3. /\ \A i \in 1 .. Len(q) : q[i] \in LineIds /\ q[i] \in S /\ L[q[i]] > 0 /\ L[q[i]] <= n
      /\ \A i, j \in 1 .. Len(q) : i < j => L[q[i]] < L[q[j]]
  BY DEF Recent
<1>4. r \in Seq(LineIds) /\ Len(r) = Len(q)
  <2>1. \A i \in 1 .. Len(q) : r[i] \in LineIds
    BY <1>1, <1>2, <1>3
  <2> QED BY <1>1, <1>2, <2>1
<1>5. \A i \in 1 .. Len(q) : q[i] = line => i = x
  BY <1>1, <1>3
\* All but the last place of r are old places other than x.
<1>6. ASSUME NEW i \in 1 .. Len(q), i < Len(q)
      PROVE  \E j \in 1 .. Len(q) :
               j # x /\ r[i] = q[j] /\ j = (IF i < x THEN i ELSE i + 1)
  BY <1>1, <1>2, <1>6
<1>7. r[Len(q)] = line
  BY <1>1, <1>2
<1>8. /\ M[line] = n + 1
      /\ \A j \in 1 .. Len(q) : j # x => M[q[j]] = L[q[j]]
  BY <1>3, <1>5
<1>9. \A i \in 1 .. Len(r) : r[i] \in S /\ M[r[i]] > 0
  <2> SUFFICES ASSUME NEW i \in 1 .. Len(q) PROVE r[i] \in S /\ M[r[i]] > 0
    BY <1>4
  <2>1. CASE i < Len(q)
    BY <1>3, <1>6, <1>8, <2>1
  <2>2. CASE i = Len(q)
    BY <1>7, <1>8, <2>2
  <2> QED BY <1>1, <2>1, <2>2
<1>10. \A i, j \in 1 .. Len(r) : i < j => M[r[i]] < M[r[j]]
  <2> SUFFICES ASSUME NEW i \in 1 .. Len(q), NEW j \in 1 .. Len(q), i < j
               PROVE  M[r[i]] < M[r[j]]
    BY <1>4
  <2>1. PICK a \in 1 .. Len(q) : a # x /\ r[i] = q[a] /\ a = (IF i < x THEN i ELSE i + 1)
    BY <1>1, <1>6
  <2>2. CASE j < Len(q)
    <3>1. PICK b \in 1 .. Len(q) : b # x /\ r[j] = q[b] /\ b = (IF j < x THEN j ELSE j + 1)
      BY <1>6, <2>2
    <3>2. a < b
      BY <1>1, <2>1, <3>1
    <3> QED BY <1>3, <1>8, <2>1, <3>1, <3>2
  <2>3. CASE j = Len(q)
    <3>1. M[r[i]] = L[q[a]] /\ L[q[a]] <= n /\ L[q[a]] \in Nat
      BY <1>3, <1>8, <2>1
    <3> QED BY <1>7, <1>8, <2>3, <3>1
  <2> QED BY <1>1, <2>2, <2>3
<1>11. Content(r) = Content(q)
  <2>1. \A i \in 1 .. Len(q) : \E j \in 1 .. Len(q) : r[i] = q[j]
    BY <1>1, <1>6, <1>7
  <2>2. ASSUME NEW j \in 1 .. Len(q) PROVE \E i \in 1 .. Len(q) : r[i] = q[j]
    <3>1. CASE j < x
      BY <1>1, <1>2, <3>1
    <3>2. CASE j = x
      BY <1>1, <1>7, <3>2
    <3>3. CASE j > x
      <4>1. j - 1 \in 1 .. Len(q) /\ ~(j - 1 < x) /\ j - 1 < Len(q) /\ (j - 1) + 1 = j
        BY <1>1, <3>3
      <4> QED BY <1>2, <4>1
    <3> QED BY <1>1, <3>1, <3>2, <3>3
  <2>3. Content(r) \subseteq Content(q)
    BY <1>4, <2>1 DEF Content
  <2>4. Content(q) \subseteq Content(r)
    BY <1>4, <2>2 DEF Content
  <2> QED BY <2>3, <2>4
<1>12. ASSUME NEW m \in S \ Content(r), M[m] > 0
       PROVE  Len(r) = w /\ \A i \in 1 .. Len(r) : M[m] < M[r[i]]
  <2>1. m # line /\ m \in S \ Content(q) /\ M[m] = L[m] /\ m \in LineIds
    BY <1>1, <1>11, <1>12 DEF Content
  <2>2. Len(q) = w /\ \A j \in 1 .. Len(q) : L[m] < L[q[j]]
    BY <1>12, <2>1 DEF Recent
  <2>3. ASSUME NEW i \in 1 .. Len(q) PROVE M[m] < M[r[i]]
    <3>1. CASE i < Len(q)
      BY <1>6, <1>8, <2>1, <2>2, <3>1
    <3>2. CASE i = Len(q)
      <4>1. L[m] \in Nat /\ L[m] <= n
        BY <2>1
      <4> QED BY <1>7, <1>8, <2>1, <3>2, <4>1
    <3> QED BY <1>1, <3>1, <3>2
  <2> QED BY <1>4, <2>2, <2>3
<1>13. Len(r) <= w
  BY <1>4 DEF Recent
<1> QED BY <1>4, <1>9, <1>10, <1>12, <1>13 DEF Recent, r

\* A miss appends the line, and drops the oldest of a full set.
LEMMA MissKeepsOrder ==
  ASSUME NEW S, S \subseteq LineIds, NEW w \in Nat \ {0}, NEW L \in [LineIds -> Nat],
         NEW q \in Seq(LineIds), NEW n \in Nat, \A m \in LineIds : L[m] <= n,
         \A m, o \in LineIds : L[m] = L[o] /\ L[m] > 0 => m = o,
         Recent(S, w, L, q), NEW line \in S, ~Holds(q, line)
  PROVE  /\ Allocated(q, w, line) \in Seq(LineIds)
         /\ Recent(S, w, [L EXCEPT ![line] = n + 1], Allocated(q, w, line))
<1> DEFINE M == [L EXCEPT ![line] = n + 1]
           kept == IF Len(q) = w THEN Tail(q) ELSE q
           d == IF Len(q) = w THEN 1 ELSE 0
           r == Append(kept, line)
<1>0. Len(q) \in Nat /\ Len(q) <= w /\ d \in 0 .. 1
  BY DEF Recent
<1>1. /\ kept \in Seq(LineIds) /\ Len(kept) = Len(q) - d
      /\ \A i \in 1 .. Len(kept) : kept[i] = q[i + d] /\ i + d \in 1 .. Len(q)
  <2>1. CASE Len(q) = w
    <3>1. q # <<>> /\ d = 1
      BY <2>1
    <3>2. Tail(q) \in Seq(LineIds) /\ Len(Tail(q)) = Len(q) - 1
      BY <3>1
    <3>3. \A i \in 1 .. Len(Tail(q)) : Tail(q)[i] = q[i + 1]
      BY <3>1, HeadTailProperties
    <3>4. kept = Tail(q) /\ Len(q) \in Nat
      BY <2>1
    <3> HIDE DEF kept, d
    <3> QED BY <3>1, <3>2, <3>3, <3>4
  <2>2. CASE Len(q) # w
    <3>1. kept = q /\ d = 0 /\ Len(q) \in Nat
      BY <2>2
    <3> HIDE DEF kept, d
    <3> QED BY <3>1
  <2> QED BY <2>1, <2>2
<1>2. r \in Seq(LineIds) /\ Len(r) = Len(q) - d + 1 /\ Len(r) <= w /\ Len(r) \in Nat \ {0}
  BY <1>0, <1>1
<1> HIDE DEF kept
<1>3. /\ \A i \in 1 .. Len(r) - 1 : r[i] = q[i + d] /\ i + d \in 1 .. Len(q)
      /\ r[Len(r)] = line
  BY <1>0, <1>1, <1>2
<1> HIDE DEF d, r
<1>4. /\ \A i \in 1 .. Len(q) : q[i] \in LineIds /\ q[i] \in S /\ L[q[i]] > 0 /\ L[q[i]] <= n
      /\ \A i, j \in 1 .. Len(q) : i < j => L[q[i]] < L[q[j]]
      /\ \A i \in 1 .. Len(q) : q[i] # line /\ M[q[i]] = L[q[i]]
      /\ M[line] = n + 1
  BY DEF Recent, Holds
<1>5. \A i \in 1 .. Len(r) : r[i] \in S /\ M[r[i]] > 0
  <2> SUFFICES ASSUME NEW i \in 1 .. Len(r) PROVE r[i] \in S /\ M[r[i]] > 0
    OBVIOUS
  <2>1. CASE i < Len(r)
    <3>1. i \in 1 .. Len(r) - 1
      BY <1>2, <2>1
    <3>2. r[i] = q[i + d] /\ i + d \in 1 .. Len(q)
      BY <1>3, <3>1
    <3> HIDE DEF M
    <3> QED BY <1>4, <3>2
  <2>2. CASE i = Len(r)
    BY <1>3, <1>4, <2>2
  <2> QED BY <1>2, <2>1, <2>2
<1>6. \A i, j \in 1 .. Len(r) : i < j => M[r[i]] < M[r[j]]
  <2> SUFFICES ASSUME NEW i \in 1 .. Len(r), NEW j \in 1 .. Len(r), i < j
               PROVE  M[r[i]] < M[r[j]]
    OBVIOUS
  <2>1. i \in 1 .. Len(r) - 1
    BY <1>2
  <2>2. CASE j < Len(r)
    <3>1. j \in 1 .. Len(r) - 1 /\ i + d < j + d
      BY <1>0, <1>2, <2>2
    <3>2. /\ r[i] = q[i + d] /\ i + d \in 1 .. Len(q)
          /\ r[j] = q[j + d] /\ j + d \in 1 .. Len(q)
      BY <1>3, <2>1, <3>1
    <3>3. M[q[i + d]] = L[q[i + d]] /\ M[q[j + d]] = L[q[j + d]]
      BY <1>4, <3>2
    <3> HIDE DEF M
    <3> QED BY <1>4, <3>1, <3>2, <3>3
  <2>3. CASE j = Len(r)
    <3>1. r[i] = q[i + d] /\ i + d \in 1 .. Len(q)
      BY <1>3, <2>1
    <3>2. M[r[i]] = L[q[i + d]] /\ L[q[i + d]] <= n /\ L[q[i + d]] \in Nat
      BY <1>4, <3>1
    <3>3. M[r[j]] = n + 1
      BY <1>3, <1>4, <2>3
    <3> QED BY <3>2, <3>3
  <2> QED BY <1>2, <2>2, <2>3
<1>7. ASSUME NEW m \in S \ Content(r), M[m] > 0
      PROVE  Len(r) = w /\ \A i \in 1 .. Len(r) : M[m] < M[r[i]]
  <2>1. m # line /\ m \in LineIds /\ M[m] = L[m] /\ L[m] \in Nat /\ L[m] <= n
    <3>1. line \in Content(r)
      <4>1. Len(r) \in 1 .. Len(r)
        BY <1>0, <1>2
      <4> QED BY <1>3, <4>1 DEF Content
    <3> QED BY <1>7, <3>1
\* The line was not resident before, or is the one dropped.
  <2>2. Len(q) = w /\ \A i \in 1 .. Len(q) : i > 1 => L[m] < L[q[i]]
    <3>1. CASE m \notin Content(q)
      BY <1>7, <2>1, <3>1 DEF Recent
    <3>2. CASE m \in Content(q)
      <4>1. PICK a \in 1 .. Len(q) : q[a] = m
        BY <3>2 DEF Content
      <4>2. ASSUME a - d \in 1 .. Len(r) - 1 PROVE FALSE
        <5>1. r[a - d] = q[(a - d) + d] /\ (a - d) + d = a
          BY <1>0, <1>3, <4>1, <4>2
        <5>2. m \in Content(r)
          BY <1>2, <4>1, <4>2, <5>1 DEF Content
        <5> QED BY <5>2
      <4>3. a = 1 /\ d = 1
        BY <1>0, <1>2, <4>1, <4>2
      <4>4. Len(q) = w
        BY <4>3 DEF d
      <4> QED BY <1>0, <1>4, <4>1, <4>3, <4>4
    <3> QED BY <3>1, <3>2
  <2>3. d = 1 /\ Len(r) = w
    BY <1>0, <1>2, <2>2 DEF d
  <2>4. ASSUME NEW i \in 1 .. Len(r) PROVE M[m] < M[r[i]]
    <3>1. CASE i < Len(r)
      <4>1. r[i] = q[i + 1] /\ i + 1 \in 1 .. Len(q) /\ i + 1 > 1
        BY <1>2, <1>3, <2>3, <3>1
      <4> QED BY <1>4, <2>1, <2>2, <4>1
    <3>2. CASE i = Len(r)
      BY <1>3, <1>4, <2>1, <3>2
    <3> QED BY <1>2, <3>1, <3>2
  <2> QED BY <2>3, <2>4
<1>8. Allocated(q, w, line) = r
  BY DEF Allocated, r, kept
<1> QED BY <1>2, <1>5, <1>6, <1>7, <1>8 DEF Recent

\* A request of a line of another set changes nothing here.
LEMMA OthersKeepOrder ==
  ASSUME NEW S, S \subseteq LineIds, NEW w, NEW L \in [LineIds -> Nat], NEW q, NEW n \in Nat,
         NEW line \in LineIds \ S, Recent(S, w, L, q)
  PROVE  Recent(S, w, [L EXCEPT ![line] = n], q)
<1> DEFINE M == [L EXCEPT ![line] = n]
<1>1. \A m \in S : M[m] = L[m]
  OBVIOUS
<1> HIDE DEF M
<1> QED BY <1>1 DEF Recent

\* The stack property of one set.
LEMMA StackProperty ==
  ASSUME NEW S, IsFiniteSet(S), NEW w \in Nat, NEW L, \A m \in S : L[m] \in Nat,
         NEW q, q \in Seq(S), Recent(S, w, L, q), NEW line \in S
  PROVE  Holds(q, line) <=> L[line] > 0 /\ Cardinality({m \in S : L[m] > L[line]}) < w
<1> DEFINE C == Content(q)
           later == {m \in S : L[m] > L[line]}
<1>0. /\ Len(q) \in Nat /\ Len(q) <= w /\ C \subseteq S
      /\ Holds(q, line) <=> line \in C
  BY DEF Recent, Content, Holds
\* There are as many resident lines as places in the dictionary.
<1>1. IsFiniteSet(C) /\ Cardinality(C) = Len(q)
  <2> DEFINE f == [i \in 1 .. Len(q) |-> q[i]]
  <2>1. f \in Bijection(1 .. Len(q), C)
    <3>1. \A i, j \in 1 .. Len(q) : q[i] = q[j] => i = j
      <4> SUFFICES ASSUME NEW i \in 1 .. Len(q), NEW j \in 1 .. Len(q), q[i] = q[j], i # j
                   PROVE  FALSE
        OBVIOUS
      <4>1. L[q[i]] \in Nat /\ (i < j \/ j < i)
        BY <1>0 DEF Recent
      <4> QED BY <4>1 DEF Recent
    <3>2. \A c \in C : \E i \in 1 .. Len(q) : f[i] = c
      BY DEF Content
    <3>3. f \in [1 .. Len(q) -> C]
      BY DEF Content
    <3>4. \A i, j \in 1 .. Len(q) : f[i] = f[j] => i = j
      BY <3>1
    <3> HIDE DEF f, C
    <3>5. \A i \in DOMAIN f, j \in DOMAIN f : f[i] = f[j] => i = j
      BY <3>3, <3>4
    <3> QED BY <3>2, <3>3, <3>5 DEF Bijection, Injection, Surjection, IsInjective
  <2>2. IsFiniteSet(1 .. Len(q)) /\ Cardinality(1 .. Len(q)) = Len(q)
    <3>1. 1 \in Int /\ Len(q) \in Int
      BY <1>0
    <3>2. /\ IsFiniteSet(1 .. Len(q))
          /\ Cardinality(1 .. Len(q)) = IF 1 > Len(q) THEN 0 ELSE Len(q) - 1 + 1
      BY <3>1, FS_Interval
    <3> QED BY <1>0, <3>2
  <2>3. ExistsBijection(1 .. Len(q), C)
    BY <2>1 DEF ExistsBijection
  <2> HIDE DEF f, C
  <2> QED BY <2>2, <2>3, FS_Bijection
<1>2. IsFiniteSet(later) /\ Cardinality(later) \in Nat
  BY FS_Subset, FS_CardinalityType
<1>3. CASE line \in C
  <2>1. L[line] > 0
    BY <1>3 DEF Recent, Content
  <2>2. later \subseteq C \ {line}
    BY <1>0, <1>3 DEF Recent, Content
  <2>3. IsFiniteSet(C \ {line}) /\ Cardinality(C \ {line}) = Len(q) - 1
    BY <1>1, <1>3, FS_RemoveElement
  <2>4. Cardinality(later) <= Len(q) - 1
    BY <2>2, <2>3, FS_Subset
  <2> QED BY <1>0, <1>2, <1>3, <2>1, <2>4
<1>4. CASE line \notin C /\ L[line] > 0
  <2>1. Len(q) = w /\ \A i \in 1 .. Len(q) : L[line] < L[q[i]]
    BY <1>0, <1>4 DEF Recent
  <2>2. C \subseteq later
    BY <1>0, <2>1 DEF Content
  <2>3. Cardinality(C) <= Cardinality(later)
    BY <1>2, <2>2, FS_Subset
  <2> QED BY <1>0, <1>1, <1>2, <1>4, <2>1, <2>3
<1> QED BY <1>0, <1>3, <1>4

-----------------------------------------------------------------------------
(***************************************************************************)
(* The whole simulation.                                                   *)
(***************************************************************************)
LEMMA LevelFacts ==
  ASSUME Typed, NEW k \in Level
  PROVE  /\ Ways(k) \in Nat \ {0}
         /\ SetsOf(hierarchy[k]) \in Nat \ {0}
         /\ \A m \in LineIds : SetOf(k, m) \in 0 .. SetsOf(hierarchy[k]) - 1
         /\ \A s : InSet(k, s) \subseteq LineIds /\ IsFiniteSet(InSet(k, s))
<1>1. ValidHierarchy(hierarchy) /\ LineIds \subseteq Nat /\ IsFiniteSet(LineIds)
  BY StudyAssumption DEF Typed
<1>2. Ways(k) \in Nat \ {0} /\ SetsOf(hierarchy[k]) \in Nat \ {0}
  BY <1>1 DEF ValidHierarchy, CacheLevels, Ways
<1>3. \A m \in LineIds : SetOf(k, m) \in 0 .. SetsOf(hierarchy[k]) - 1
  <2> SUFFICES ASSUME NEW m \in LineIds, NEW d \in Nat \ {0}
               PROVE  m % d \in 0 .. d - 1
    BY <1>2 DEF SetOf
  <2>1. m \in Nat
    BY <1>1
  <2> QED BY <2>1
<1>4. \A s : InSet(k, s) \subseteq LineIds
  BY DEF InSet
<1> QED BY <1>1, <1>2, <1>3, <1>4, FS_Subset

\* A request that reaches a level keeps all that is said of the level.
LEMMA DemandKeepsLevel ==
  ASSUME Typed, NEW k \in Level, Numbered(k),
         \A s \in 0 .. SetsOf(hierarchy[k]) - 1 :
           Recent(InSet(k, s), Ways(k), last[k], residents[k][s]),
         NEW line \in LineIds,
         NEW L, L = [last[k] EXCEPT ![line] = serial[k] + 1]
  PROVE  /\ L \in [LineIds -> Nat]
         /\ \A m \in LineIds : L[m] <= serial[k] + 1
         /\ \A m, o \in LineIds : L[m] = L[o] /\ L[m] > 0 => m = o
         /\ Demanded(k, line) \in [0 .. SetsOf(hierarchy[k]) - 1 -> Seq(LineIds)]
         /\ \A s \in 0 .. SetsOf(hierarchy[k]) - 1 :
              Recent(InSet(k, s), Ways(k), L, Demanded(k, line)[s])
<1> DEFINE x == SetOf(k, line)
           q == residents[k][x]
           new == IF Holds(q, line) THEN MovedToEnd(q, line) ELSE Allocated(q, Ways(k), line)
<1>1. /\ Ways(k) \in Nat \ {0}
      /\ x \in 0 .. SetsOf(hierarchy[k]) - 1
      /\ \A s : InSet(k, s) \subseteq LineIds
      /\ line \in InSet(k, x)
  BY LevelFacts DEF InSet
<1>2. /\ last[k] \in [LineIds -> Nat] /\ serial[k] \in Nat
      /\ residents[k] \in [0 .. SetsOf(hierarchy[k]) - 1 -> Seq(LineIds)]
  BY DEF Typed
<1>3. /\ \A m \in LineIds : last[k][m] <= serial[k]
      /\ \A m, o \in LineIds : last[k][m] = last[k][o] /\ last[k][m] > 0 => m = o
  BY DEF Numbered
<1>4. /\ L \in [LineIds -> Nat] /\ L[line] = serial[k] + 1
      /\ \A m \in LineIds : m # line => L[m] = last[k][m]
  BY <1>2
<1>5. q \in Seq(LineIds) /\ Recent(InSet(k, x), Ways(k), last[k], q)
  BY <1>1, <1>2
<1>6. new \in Seq(LineIds) /\ Recent(InSet(k, x), Ways(k), L, new)
  <2> HIDE DEF q, x
  <2>1. CASE Holds(q, line)
    BY <1>1, <1>2, <1>3, <1>5, <2>1, HitKeepsOrder
  <2>2. CASE ~Holds(q, line)
    BY <1>1, <1>2, <1>3, <1>5, <2>2, MissKeepsOrder
  <2> QED BY <2>1, <2>2
<1>7. Demanded(k, line) = [residents[k] EXCEPT ![x] = new]
  BY DEF Demanded
<1> HIDE DEF new, q, x
<1>8. Demanded(k, line) \in [0 .. SetsOf(hierarchy[k]) - 1 -> Seq(LineIds)]
  BY <1>1, <1>2, <1>6, <1>7
<1>9. ASSUME NEW s \in 0 .. SetsOf(hierarchy[k]) - 1
      PROVE  Recent(InSet(k, s), Ways(k), L, Demanded(k, line)[s])
  <2>1. CASE s = x
    <3>1. Demanded(k, line)[s] = new
      BY <1>1, <1>2, <1>7, <2>1
    <3> QED BY <1>6, <2>1, <3>1
  <2>2. CASE s # x
    <3>1. Demanded(k, line)[s] = residents[k][s]
      BY <1>2, <1>7, <2>2
    <3>2. line \in LineIds \ InSet(k, s)
      BY <2>2 DEF InSet, x
    <3>3. serial[k] + 1 \in Nat
      BY <1>2
    <3> QED BY <1>1, <1>2, <3>1, <3>2, <3>3, OthersKeepOrder
  <2> QED BY <2>1, <2>2
<1>10. \A m \in LineIds : L[m] <= serial[k] + 1
  BY <1>2, <1>3, <1>4
<1>11. \A m, o \in LineIds : L[m] = L[o] /\ L[m] > 0 => m = o
  <2> SUFFICES ASSUME NEW m \in LineIds, NEW o \in LineIds, L[m] = L[o], L[m] > 0, m # o
               PROVE  FALSE
    OBVIOUS
  <2>1. \A i \in LineIds : last[k][i] \in Nat /\ last[k][i] < serial[k] + 1
    BY <1>2, <1>3
  <2> QED BY <1>2, <1>3, <1>4, <2>1
<1> QED BY <1>4, <1>8, <1>9, <1>10, <1>11

\* Empty caches are stacks of no requests.
LEMMA InitStack == Init => StackInv
<1> SUFFICES ASSUME Init PROVE StackInv
  OBVIOUS
<1>1. Typed
  BY DEF Init, Typed
<1>2. ASSUME NEW k \in Level PROVE Numbered(k)
  BY <1>2 DEF Init, Numbered
<1>3. ASSUME NEW k \in Level, NEW s \in 0 .. SetsOf(hierarchy[k]) - 1
      PROVE  Recent(InSet(k, s), Ways(k), last[k], residents[k][s])
  <2>1. residents[k][s] = <<>> /\ last[k] = [m \in LineIds |-> 0]
    BY DEF Init
  <2>2. Ways(k) \in Nat /\ InSet(k, s) \subseteq LineIds
    BY <1>1, LevelFacts
  <2> QED BY <2>1, <2>2 DEF Recent
<1> QED BY <1>1, <1>2, <1>3 DEF StackInv

\* Expanding an access into its lines touches no cache.
LEMMA AccessKeepsStack == StackInv /\ Access => StackInv'
<1> SUFFICES ASSUME StackInv, Access PROVE StackInv'
  OBVIOUS
<1>1. UNCHANGED <<hierarchy, residents, serial, last>>
  BY DEF Access, caches, profile
<1>2. pending' \in Seq(LineIds)
  BY StudyAssumption DEF Access, StackInv, Typed
<1> QED BY <1>1, <1>2 DEF StackInv, Typed, Numbered, Recent, InSet, SetOf, Ways

\* A reference moves its line to the end of its sets, and cuts them at their
\* ways.
LEMMA ReferKeepsStack == StackInv /\ Refer => StackInv'
<1> SUFFICES ASSUME StackInv, Refer PROVE StackInv'
  OBVIOUS
<1> DEFINE line == Head(pending)
           D(k) == Demanded(k, line)
           L(k) == [last[k] EXCEPT ![line] = serial[k] + 1]
<1>1. /\ Typed /\ line \in LineIds /\ hierarchy' = hierarchy
      /\ pending' \in Seq(LineIds)
      /\ Reaches(line) \subseteq Level
  BY HeadTailProperties DEF StackInv, Typed, Refer, Reaches, Level
<1>2. ASSUME NEW k \in Level
      PROVE  /\ residents'[k] = IF k \in Reaches(line) THEN D(k) ELSE residents[k]
             /\ serial'[k] = IF k \in Reaches(line) THEN serial[k] + 1 ELSE serial[k]
             /\ last'[k] = IF k \in Reaches(line) THEN L(k) ELSE last[k]
  BY DEF Refer, Record
<1>3. /\ serial' = [k \in Level |-> IF k \in Reaches(line) THEN serial[k] + 1 ELSE serial[k]]
      /\ last' = [k \in Level |-> IF k \in Reaches(line) THEN L(k) ELSE last[k]]
  BY DEF Refer, Record
<1>4. ASSUME NEW k \in Level
      PROVE  /\ Numbered(k)
             /\ \A s \in 0 .. SetsOf(hierarchy[k]) - 1 :
                  Recent(InSet(k, s), Ways(k), last[k], residents[k][s])
             /\ last[k] \in [LineIds -> Nat] /\ serial[k] \in Nat
             /\ residents[k] \in [0 .. SetsOf(hierarchy[k]) - 1 -> Seq(LineIds)]
  BY DEF StackInv, Typed
<1> HIDE DEF line
<1>5. ASSUME NEW k \in Level
      PROVE  /\ L(k) \in [LineIds -> Nat]
             /\ \A m \in LineIds : L(k)[m] <= serial[k] + 1
             /\ \A m, o \in LineIds : L(k)[m] = L(k)[o] /\ L(k)[m] > 0 => m = o
             /\ D(k) \in [0 .. SetsOf(hierarchy[k]) - 1 -> Seq(LineIds)]
             /\ \A s \in 0 .. SetsOf(hierarchy[k]) - 1 :
                  Recent(InSet(k, s), Ways(k), L(k), D(k)[s])
  BY <1>1, <1>4, DemandKeepsLevel
<1> HIDE DEF D, L
<1>6. ASSUME NEW k \in Level
      PROVE  /\ last'[k] \in [LineIds -> Nat] /\ serial'[k] \in Nat
             /\ \A m \in LineIds : last'[k][m] <= serial'[k]
             /\ \A m, o \in LineIds : last'[k][m] = last'[k][o] /\ last'[k][m] > 0 => m = o
             /\ residents'[k] \in [0 .. SetsOf(hierarchy[k]) - 1 -> Seq(LineIds)]
             /\ \A s \in 0 .. SetsOf(hierarchy[k]) - 1 :
                  Recent(InSet(k, s), Ways(k), last'[k], residents'[k][s])
  <2>1. CASE k \in Reaches(line)
    <3>1. residents'[k] = D(k) /\ last'[k] = L(k) /\ serial'[k] = serial[k] + 1
      BY <1>2, <2>1
    <3> QED BY <1>4, <1>5, <3>1
  <2>2. CASE k \notin Reaches(line)
    <3>1. residents'[k] = residents[k] /\ last'[k] = last[k] /\ serial'[k] = serial[k]
      BY <1>2, <2>2
    <3> QED BY <1>4, <3>1 DEF Numbered
  <2> QED BY <2>1, <2>2
<1>7. Typed'
  <2>1. serial' \in [Level -> Nat] /\ last' \in [Level -> [LineIds -> Nat]]
    BY <1>3, <1>6
  <2> QED BY <1>1, <1>6, <2>1 DEF Typed
<1>8. \A k \in Level : Numbered(k)'
  BY <1>6 DEF Numbered
<1>9. ASSUME NEW k \in Level, NEW s \in 0 .. SetsOf(hierarchy[k]) - 1
      PROVE  Recent(InSet(k, s), Ways(k), last[k], residents[k][s])'
  <2>1. InSet(k, s)' = InSet(k, s) /\ Ways(k)' = Ways(k)
    BY <1>1 DEF InSet, SetOf, Ways
  <2> QED BY <1>6, <2>1 DEF Recent, Content
<1> QED BY <1>1, <1>7, <1>8, <1>9 DEF StackInv

\* The lines of every set of every level are kept in the order of their last
\* requests, and only older ones are gone, for every trace and hierarchy: the
\* inductive invariant of simulate().
THEOREM StackInvariant == Spec => []StackInv
<1>1. StackInv /\ [Next]_vars => StackInv'
  <2> SUFFICES ASSUME StackInv, [Next]_vars PROVE StackInv'
    OBVIOUS
  <2>1. CASE UNCHANGED vars
    BY <2>1 DEF StackInv, Typed, Numbered, Recent, InSet, SetOf, Ways, vars
  <2>2. CASE Access
    BY <2>2, AccessKeepsStack
  <2>3. CASE Refer
    BY <2>3, ReferKeepsStack
  <2> QED BY <2>1, <2>2, <2>3 DEF Next
<1> QED BY InitStack, <1>1, PTL DEF Spec

\* The stack property of the whole simulation.
LEMMA NearIsResident == StackInv => ResidencyIsDistance
<1> SUFFICES ASSUME StackInv, NEW k \in Level, NEW line \in LineIds
             PROVE  Hit(k, line) <=> last[k][line] > 0 /\ SetDistance(k, line) < Ways(k)
  BY DEF ResidencyIsDistance
<1> DEFINE s == SetOf(k, line)
           S == InSet(k, s)
           q == residents[k][s]
<1>1. /\ Ways(k) \in Nat /\ s \in 0 .. SetsOf(hierarchy[k]) - 1
      /\ S \subseteq LineIds /\ IsFiniteSet(S) /\ line \in S
  BY LevelFacts DEF StackInv, InSet
<1>2. Recent(S, Ways(k), last[k], q) /\ q \in Seq(LineIds) /\ last[k] \in [LineIds -> Nat]
  BY <1>1 DEF StackInv, Typed
<1>3. {m \in S : last[k][m] > last[k][line]}
        = {m \in Since(k, line) : SetOf(k, m) = SetOf(k, line)}
  BY DEF Since, InSet
<1> HIDE DEF S, q, s
<1>4. q \in Seq(S)
  <2>1. Len(q) \in Nat /\ \A p \in 1 .. Len(q) : q[p] \in S
    BY <1>2 DEF Recent
  <2> QED BY <1>2, <2>1
<1>5. \A m \in S : last[k][m] \in Nat
  BY <1>1, <1>2
<1>6. Holds(q, line) <=> last[k][line] > 0 /\ Cardinality({m \in S : last[k][m] > last[k][line]}) < Ways(k)
  BY <1>1, <1>2, <1>4, <1>5, StackProperty
<1> QED BY <1>3, <1>6 DEF Hit, SetDistance, q, s

\* A line is resident exactly if its set distance is below the associativity:
\* the simulated hierarchy and the distances agree, the foundation of
\* csrd_counts().
THEOREM ResidentLinesAreNear == Spec => []ResidencyIsDistance
BY StackInvariant, NearIsResident, PTL

-----------------------------------------------------------------------------
(***************************************************************************)
(* What the estimator counts.                                              *)
(***************************************************************************)
LEMMA DistancesFinite ==
  /\ Cardinality(LineIds) \in Nat
  /\ IsFiniteSet(Distances) /\ Distances \subseteq Nat
<1>1. Cardinality(LineIds) \in Nat
  BY StudyAssumption, FS_CardinalityType
<1>2. 0 \in Int /\ Cardinality(LineIds) \in Int
  BY <1>1
<1> QED BY <1>1, <1>2, FS_Interval DEF Distances

\* One distance more in a histogram.
LEMMA BetweenGrows ==
  ASSUME NEW h \in [Distances -> Nat], NEW d \in Distances, NEW low, NEW high
  PROVE  /\ Between(h, low, high) \in Nat
         /\ Between([h EXCEPT ![d] = @ + 1], low, high)
              = Between(h, low, high) + IF low <= d /\ d < high THEN 1 ELSE 0
<1> DEFINE I == {e \in Distances : low <= e /\ e < high}
           g == [h EXCEPT ![d] = @ + 1]
<1>1. g \in [Distances -> Nat] /\ h[d] \in Nat /\ g[d] = h[d] + 1
      /\ \A e \in Distances : e # d => g[e] = h[e]
  OBVIOUS
<1>2. Between(h, low, high) = SumFunctionOnSet(h, I) /\ Between(g, low, high) = SumFunctionOnSet(g, I)
  BY <1>1 DEF Between
<1>3. IsFiniteSet(I) /\ I \subseteq Distances /\ (d \in I <=> low <= d /\ d < high)
  BY DistancesFinite, FS_Subset
<1> HIDE DEF I, g
<1>4. /\ SumFunctionOnSet(h, I) = Cardinality(Units(h, I))
      /\ SumFunctionOnSet(g, I) = Cardinality(Units(g, I))
      /\ IsFiniteSet(Units(h, I)) /\ Cardinality(Units(h, I)) \in Nat
  BY <1>1, <1>3, SumCountsUnits, UnitsFinite
<1>5. CASE d \in I
  <2>1. Units(g, I) = Units(h, I) \cup {<<d, h[d]>>} /\ <<d, h[d]>> \notin Units(h, I)
    BY <1>1, <1>3, <1>5 DEF Units
  <2>2. Cardinality(Units(g, I)) = Cardinality(Units(h, I)) + 1
    BY <1>4, <2>1, FS_AddElement
  <2> QED BY <1>2, <1>3, <1>4, <1>5, <2>2 DEF g
<1>6. CASE d \notin I
  <2>1. Units(g, I) = Units(h, I)
    BY <1>1, <1>3, <1>6 DEF Units
  <2> QED BY <1>2, <1>3, <1>4, <1>6, <2>1 DEF g
<1> QED BY <1>5, <1>6

\* No request has been counted at any distance.
LEMMA BetweenStarts ==
  ASSUME NEW low, NEW high
  PROVE  Between([d \in Distances |-> 0], low, high) = 0
<1> DEFINE I == {e \in Distances : low <= e /\ e < high}
           h == [d \in Distances |-> 0]
<1>1. IsFiniteSet(I) /\ \A e \in I : h[e] = 0 /\ h[e] \in Nat
  BY DistancesFinite, FS_Subset
<1>2. Between(h, low, high) = SumFunctionOnSet(h, I)
  BY DEF Between
<1> HIDE DEF h, I
<1>3. Units(h, I) = {}
  BY <1>1 DEF Units
<1>4. SumFunctionOnSet(h, I) = 0
  BY <1>1, <1>3, SumCountsUnits, FS_EmptySet
<1> QED BY <1>2, <1>4 DEF h

All(k) == Between(histogram[k], 0, Cardinality(LineIds) + 1)

\* Every request of a level is a first one or has a distance; it was a hit
\* exactly if that is below the associativity; the LLC sees the L1's misses.
CountInv ==
  /\ hits \in [1 .. 3 -> Nat]
  /\ histogram \in [Level -> [Distances -> Nat]]
  /\ cold \in [Level -> Nat]
  /\ \A k \in Level : LevelHits(k) = hits[k] /\ serial[k] = cold[k] + All(k)
  /\ serial[1] = hits[1] + hits[2] + hits[3]
  /\ serial[2] = hits[2] + hits[3]

\* Nothing is counted yet.
LEMMA InitCounts == Init => CountInv
<1> SUFFICES ASSUME Init PROVE CountInv
  OBVIOUS
<1>1. /\ hits = [c \in 1 .. 3 |-> 0] /\ serial = [k \in Level |-> 0] /\ cold = [k \in Level |-> 0]
      /\ \A k \in Level : histogram[k] = [d \in Distances |-> 0]
      /\ histogram \in [Level -> [Distances -> Nat]]
  BY DistancesFinite DEF Init
<1>2. \A k \in Level : LevelHits(k) = 0 /\ All(k) = 0
  BY <1>1, BetweenStarts DEF LevelHits, All
<1> QED BY <1>1, <1>2 DEF CountInv, Level

\* What one request does to the profile of a level it reaches.
LEMMA LevelCounts ==
  ASSUME StackInv, CountInv, Refer, NEW k \in Level
  PROVE  LET line == Head(pending)
             near == IF k \in Reaches(line) /\ Hit(k, line) THEN 1 ELSE 0
             seen == IF k \in Reaches(line) THEN 1 ELSE 0
         IN  /\ histogram'[k] \in [Distances -> Nat] /\ cold'[k] \in Nat
             /\ LevelHits(k)' = LevelHits(k) + near
             /\ serial'[k] = serial[k] + seen
             /\ cold'[k] + All(k)' = cold[k] + All(k) + seen
<1> DEFINE line == Head(pending)
           d == SetDistance(k, line)
<1>1. line \in LineIds /\ pending # <<>> /\ hierarchy' = hierarchy
  BY HeadTailProperties DEF StackInv, Typed, Refer
<1>2. /\ histogram'[k] = IF k \in Reaches(line) /\ last[k][line] > 0
                         THEN [histogram[k] EXCEPT ![d] = @ + 1] ELSE histogram[k]
      /\ cold'[k] = IF k \in Reaches(line) /\ last[k][line] = 0 THEN cold[k] + 1 ELSE cold[k]
      /\ serial'[k] = IF k \in Reaches(line) THEN serial[k] + 1 ELSE serial[k]
  BY DEF Refer, Record
<1>3. /\ histogram[k] \in [Distances -> Nat] /\ cold[k] \in Nat /\ serial[k] \in Nat
      /\ last[k][line] \in Nat
  BY <1>1 DEF CountInv, StackInv, Typed
<1>4. Hit(k, line) <=> last[k][line] > 0 /\ d < Ways(k)
  BY <1>1, NearIsResident DEF ResidencyIsDistance
<1>5. d \in Distances /\ 0 <= d /\ d < Cardinality(LineIds) + 1
  <2>1. {m \in Since(k, line) : SetOf(k, m) = SetOf(k, line)} \in SUBSET LineIds
    BY DEF Since
  <2>2. IsFiniteSet(LineIds)
    BY StudyAssumption
  <2>3. d <= Cardinality(LineIds) /\ d \in Nat
    BY <2>1, <2>2, FS_Subset, FS_CardinalityType DEF SetDistance
  <2> QED BY <2>3, DistancesFinite DEF Distances
<1>6. Ways(k)' = Ways(k) /\ LevelHits(k)' = Between(histogram'[k], 0, Ways(k))
      /\ All(k)' = Between(histogram'[k], 0, Cardinality(LineIds) + 1)
  BY <1>1 DEF LevelHits, All, Ways
<1> HIDE DEF d, line
<1>7. /\ LevelHits(k) \in Nat /\ All(k) \in Nat
      /\ LET h == [histogram[k] EXCEPT ![d] = @ + 1]
         IN  /\ h \in [Distances -> Nat]
             /\ Between(h, 0, Ways(k)) = LevelHits(k) + IF d < Ways(k) THEN 1 ELSE 0
             /\ Between(h, 0, Cardinality(LineIds) + 1) = All(k) + 1
  BY <1>3, <1>5, BetweenGrows DEF LevelHits, All
<1>8. CASE k \in Reaches(line) /\ last[k][line] > 0
  BY <1>2, <1>3, <1>4, <1>6, <1>7, <1>8 DEF line
<1>9. CASE k \in Reaches(line) /\ last[k][line] = 0
  BY <1>2, <1>3, <1>4, <1>6, <1>7, <1>9 DEF line, LevelHits, All
<1>10. CASE k \notin Reaches(line)
  BY <1>2, <1>3, <1>6, <1>7, <1>10 DEF line, LevelHits, All
<1> QED BY <1>3, <1>8, <1>9, <1>10

\* A reference adds one request, at one distance, to every level it reaches,
\* and a hit or a miss to the same levels.
LEMMA ReferKeepsCounts == StackInv /\ CountInv /\ Refer => CountInv'
<1> SUFFICES ASSUME StackInv, CountInv, Refer PROVE CountInv'
  OBVIOUS
<1> DEFINE line == Head(pending)
           seen(k) == IF k \in Reaches(line) THEN 1 ELSE 0
           near(k) == IF k \in Reaches(line) /\ Hit(k, line) THEN 1 ELSE 0
<1>1. ASSUME NEW k \in Level
      PROVE  /\ histogram'[k] \in [Distances -> Nat] /\ cold'[k] \in Nat
             /\ LevelHits(k)' = LevelHits(k) + near(k)
             /\ serial'[k] = serial[k] + seen(k)
             /\ cold'[k] + All(k)' = cold[k] + All(k) + seen(k)
  BY LevelCounts
<1>2. /\ hits \in [1 .. 3 -> Nat]
      /\ hits' = [hits EXCEPT ![FirstHit(line)] = @ + 1]
      /\ FirstHit(line) = IF Hit(1, line) THEN 1 ELSE IF Hit(2, line) THEN 2 ELSE 3
  BY DEF CountInv, Refer, FirstHit
<1>3. /\ 1 \in Level /\ 2 \in Level
      /\ seen(1) = 1 /\ seen(2) = IF Hit(1, line) THEN 0 ELSE 1
      /\ near(1) = IF Hit(1, line) THEN 1 ELSE 0
      /\ near(2) = IF ~Hit(1, line) /\ Hit(2, line) THEN 1 ELSE 0
  BY DEF Reaches, Level
<1>4. /\ histogram' \in [Level -> [Distances -> Nat]] /\ cold' \in [Level -> Nat]
  <2>1. DOMAIN histogram' = Level /\ histogram' = [k \in Level |-> histogram'[k]]
        /\ cold' = [k \in Level |-> cold'[k]]
    BY DEF Refer, Record
  <2> QED BY <1>1, <2>1
<1>5. /\ \A k \in Level : LevelHits(k) = hits[k] /\ serial[k] = cold[k] + All(k)
      /\ serial[1] = hits[1] + hits[2] + hits[3]
      /\ serial[2] = hits[2] + hits[3]
      /\ serial[1] \in Nat /\ serial[2] \in Nat
  BY <1>3 DEF CountInv, StackInv, Typed
<1> HIDE DEF line, seen, near
<1>6. \A k \in Level : serial'[k] = cold'[k] + All(k)'
  BY <1>1, <1>5
<1>7. /\ hits' \in [1 .. 3 -> Nat]
      /\ hits'[1] = hits[1] + near(1) /\ hits'[2] = hits[2] + near(2)
      /\ hits'[3] = hits[3] + IF ~Hit(1, line) /\ ~Hit(2, line) THEN 1 ELSE 0
  BY <1>2, <1>3
<1>8. \A k \in Level : LevelHits(k)' = hits'[k]
  <2>1. LevelHits(1)' = hits'[1] /\ LevelHits(2)' = hits'[2]
    BY <1>1, <1>3, <1>5, <1>7
  <2> QED BY <2>1 DEF Level
<1>9. /\ serial'[1] = hits'[1] + hits'[2] + hits'[3]
      /\ serial'[2] = hits'[2] + hits'[3]
  <2>1. /\ serial'[1] = serial[1] + 1
        /\ serial'[2] = serial[2] + IF Hit(1, line) THEN 0 ELSE 1
    BY <1>1, <1>3
  <2> QED BY <1>2, <1>3, <1>5, <1>7, <2>1
<1> QED BY <1>4, <1>6, <1>7, <1>8, <1>9 DEF CountInv

\* The counts of the estimator by set distance are those of the simulated
\* hierarchy, and csrd_counts() never refuses the profiles, for every trace.
THEOREM CsrdAgrees == Spec => []CsrdExact
<1>1. CountInv /\ StackInv /\ [Next]_vars => CountInv'
  <2> SUFFICES ASSUME CountInv, StackInv, [Next]_vars PROVE CountInv'
    OBVIOUS
  <2>1. CASE UNCHANGED <<hierarchy, caches, profile>>
    BY <2>1 DEF CountInv, LevelHits, All, Ways, caches, profile
  <2>2. CASE Refer
    BY <2>2, ReferKeepsCounts
  <2> QED BY <2>1, <2>2 DEF Next, Access, vars, caches, profile
<1>2. CountInv /\ StackInv => CsrdExact
  <2> SUFFICES ASSUME CountInv, StackInv PROVE CsrdExact
    OBVIOUS
  <2>1. 1 \in Level /\ 2 \in Level
    BY DEF Level
  <2>2. hits = <<hits[1], hits[2], hits[3]>> /\ hits[1] \in Nat /\ hits[2] \in Nat /\ hits[3] \in Nat
    BY DEF CountInv
  <2>3. /\ LevelHits(1) = hits[1] /\ LevelHits(2) = hits[2]
        /\ serial[1] = hits[1] + hits[2] + hits[3] /\ serial[2] = hits[2] + hits[3]
    BY <2>1 DEF CountInv
  <2>4. serial[2] = serial[1] - LevelHits(1) /\ hits[3] = serial[1] - LevelHits(1) - LevelHits(2)
    BY <2>2, <2>3
  <2>5. Conserved
    BY <2>4 DEF Conserved, CountInv, All
  <2> QED BY <2>2, <2>3, <2>4, <2>5 DEF CsrdExact, CsrdCounts
<1> QED BY InitCounts, StackInvariant, <1>1, <1>2, PTL DEF Spec
=============================================================================
