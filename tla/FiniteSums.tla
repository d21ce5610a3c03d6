----------------------------- MODULE FiniteSums -----------------------------
(***************************************************************************)
(* Facts about finite sets, sums, products and greedy choices that several *)
(* proof modules need.  The library's induction theorems take an operator  *)
(* as a parameter; here the statement to be proved is a set of good sets.  *)
(***************************************************************************)
EXTENDS FiniteSetsExt, FiniteSetTheorems, TLAPS

\* Induction over the subsets of a finite set, the statement being a set.
LEMMA FiniteGrowth ==
  ASSUME NEW S, IsFiniteSet(S), NEW G, {} \in G,
         \A s \in SUBSET S : s # {} /\ (\A x \in s : s \ {x} \in G) => s \in G
  PROVE  S \in G
<1> SUFFICES ASSUME S \notin G PROVE FALSE
  OBVIOUS
<1> DEFINE T == {s \in SUBSET S : s \notin G}
<1>1. T \subseteq FiniteSubsetsOf(S) /\ T # {}
  BY FS_Subset DEF FiniteSubsetsOf
<1>2. PICK s \in T : \A r \in T : ~(<<r, s>> \in StrictSubsetOrdering(S))
  <2>1. IsWellFoundedOn(StrictSubsetOrdering(S), FiniteSubsetsOf(S))
    BY FS_StrictSubsetOrderingWellFounded
  <2> HIDE DEF T
  <2> QED BY <1>1, <2>1, WFMin
<1>3. PICK x \in s : s \ {x} \in T
  BY <1>2
<1>4. <<s \ {x}, s>> \in StrictSubsetOrdering(S)
  BY <1>2, <1>3 DEF StrictSubsetOrdering
<1> QED BY <1>2, <1>3, <1>4

\* A finite set has an element of the largest value.
LEMMA Largest ==
  ASSUME NEW S, IsFiniteSet(S), S # {}, NEW f, \A i \in S : f[i] \in Int
  PROVE  \E m \in S : \A i \in S : f[i] <= f[m]
<1> DEFINE G == {s \in SUBSET S : s = {} \/ \E m \in s : \A i \in s : f[i] <= f[m]}
<1>1. ASSUME NEW s \in SUBSET S, NEW x \in s, s \ {x} \in G PROVE s \in G
  <2>1. CASE s \ {x} = {}
    BY <2>1
  <2>2. ASSUME NEW m \in s \ {x}, \A i \in s \ {x} : f[i] <= f[m] PROVE s \in G
    <3>1. CASE f[x] <= f[m]
      BY <2>2, <3>1
    <3>2. CASE f[m] <= f[x]
      <4>1. \A i \in s : f[i] <= f[x]
        BY <2>2, <3>2
      <4> QED BY <4>1
    <3> QED BY <3>1, <3>2
  <2> QED BY <1>1, <2>1, <2>2
<1>2. {} \in G
  OBVIOUS
<1> HIDE DEF G
<1>3. S \in G
  BY <1>1, <1>2, FiniteGrowth
<1> QED BY <1>3 DEF G

\* The largest value of a function on a finite set.
LEMMA MaxOfImage ==
  ASSUME NEW S, IsFiniteSet(S), S # {}, NEW f, \A i \in S : f[i] \in Int
  PROVE  /\ Max({f[i] : i \in S}) \in {f[i] : i \in S}
         /\ \A k \in S : f[k] <= Max({f[i] : i \in S})
<1>1. PICK m \in S : \A i \in S : f[i] <= f[m]
  BY Largest
<1> DEFINE T == {f[i] : i \in S}
<1>2. f[m] \in T /\ \A y \in T : f[m] >= y
  BY <1>1
<1>3. Max(T) \in T /\ \A y \in T : Max(T) >= y
  BY <1>2 DEF Max
<1> QED BY <1>3

\* The extremes of a finite set of integers.
LEMMA Extremes ==
  ASSUME NEW T, IsFiniteSet(T), T # {}, T \subseteq Int
  PROVE  /\ Min(T) \in T /\ \A y \in T : Min(T) <= y
         /\ Max(T) \in T /\ \A y \in T : y <= Max(T)
<1>1. PICK m \in T : \A y \in T : y <= m
  <2> DEFINE f == [y \in T |-> y]
  <2>1. \A y \in T : f[y] = y /\ f[y] \in Int
    OBVIOUS
  <2> HIDE DEF f
  <2>2. \E m \in T : \A y \in T : f[y] <= f[m]
    BY <2>1, Largest
  <2> QED BY <2>1, <2>2
<1>2. PICK n \in T : \A y \in T : n <= y
  <2> DEFINE f == [y \in T |-> 0 - y]
  <2>1. \A y \in T : f[y] = 0 - y /\ f[y] \in Int
    OBVIOUS
  <2> HIDE DEF f
  <2>2. PICK n \in T : \A y \in T : f[y] <= f[n]
    BY <2>1, Largest
  <2>3. \A y \in T : n <= y
    BY <2>1, <2>2
  <2> QED BY <2>3
<1>3. Max(T) \in T /\ \A y \in T : Max(T) >= y
  BY <1>1 DEF Max
<1>4. Min(T) \in T /\ \A y \in T : Min(T) <= y
  BY <1>2 DEF Min
<1> QED BY <1>3, <1>4

\* The values of a function on a finite set are finitely many.
LEMMA ImageFinite ==
  ASSUME NEW S, IsFiniteSet(S), NEW f
  PROVE  IsFiniteSet({f[i] : i \in S})
<1> DEFINE g == [i \in S |-> f[i]]
<1>1. g \in Surjection(S, {f[i] : i \in S})
  BY DEF Surjection
<1> HIDE DEF g
<1> QED BY <1>1, FS_Surjection

\* Two disjoint parts hold no more than the whole.
LEMMA DisjointParts ==
  ASSUME NEW S, IsFiniteSet(S), NEW A \in SUBSET S, NEW B \in SUBSET S, A \cap B = {}
  PROVE  /\ Cardinality(A) \in Nat /\ Cardinality(B) \in Nat
         /\ Cardinality(A) + Cardinality(B) <= Cardinality(S)
<1>1. IsFiniteSet(A) /\ IsFiniteSet(B) /\ Cardinality(A) \in Nat /\ Cardinality(B) \in Nat
  BY FS_Subset, FS_CardinalityType
<1>2. Cardinality(A \cup B) = Cardinality(A) + Cardinality(B) - Cardinality(A \cap B)
  BY <1>1, FS_Union
<1>3. Cardinality(A \cap B) = 0
  BY FS_EmptySet
<1>4. A \cup B \in SUBSET S
  OBVIOUS
<1>5. Cardinality(A \cup B) <= Cardinality(S)
  BY <1>4, FS_Subset
<1> QED BY <1>1, <1>2, <1>3, <1>5

\* A finite set has an element that precedes no other.
LEMMA LastOfOrder ==
  ASSUME NEW S, IsFiniteSet(S), S # {}, NEW R,
         \A i \in S : <<i, i>> \notin R,
         \A i, j, k \in S : <<i, j>> \in R /\ <<j, k>> \in R => <<i, k>> \in R
  PROVE  \E m \in S : \A i \in S : <<m, i>> \notin R
<1> DEFINE G == {s \in SUBSET S : s = {} \/ \E m \in s : \A i \in s : <<m, i>> \notin R}
<1>1. ASSUME NEW s \in SUBSET S, NEW x \in s, s \ {x} \in G PROVE s \in G
  <2>1. CASE s \ {x} = {}
    BY <2>1
  <2>2. ASSUME NEW m \in s \ {x}, \A i \in s \ {x} : <<m, i>> \notin R PROVE s \in G
    <3>1. CASE <<m, x>> \notin R
      BY <2>2, <3>1
    <3>2. CASE <<m, x>> \in R
      <4>1. \A i \in s : <<x, i>> \notin R
        BY <2>2, <3>2
      <4> QED BY <4>1
    <3> QED BY <3>1, <3>2
  <2> QED BY <1>1, <2>1, <2>2
<1>2. {} \in G
  OBVIOUS
<1> HIDE DEF G
<1>3. S \in G
  BY <1>1, <1>2, FiniteGrowth
<1> QED BY <1>3 DEF G

-----------------------------------------------------------------------------
(***************************************************************************)
(* Sums of naturals count units, which brings the folds of the library     *)
(* within reach of the facts about cardinality.                            *)
(***************************************************************************)
\* Element i counts f[i] units.
Units(f, S) == {q \in S \X Nat : q[2] < f[q[1]]}

\* The units of one element more.
LEMMA UnitsGrow ==
  ASSUME NEW S, NEW f, NEW x \in S, f[x] \in Nat, IsFiniteSet(Units(f, S \ {x}))
  PROVE  /\ IsFiniteSet(Units(f, S))
         /\ Cardinality(Units(f, S)) = f[x] + Cardinality(Units(f, S \ {x}))
<1> DEFINE A == {x} \X (0 .. f[x] - 1)
           B == Units(f, S \ {x})
<1>1. IsFiniteSet(A) /\ Cardinality(A) = f[x]
  <2>1. IsFiniteSet(0 .. f[x] - 1) /\ Cardinality(0 .. f[x] - 1) = f[x]
    <3>1. 0 \in Int /\ f[x] - 1 \in Int
      OBVIOUS
    <3>2. /\ IsFiniteSet(0 .. f[x] - 1)
          /\ Cardinality(0 .. f[x] - 1) = IF 0 > f[x] - 1 THEN 0 ELSE (f[x] - 1) - 0 + 1
      BY ONLY <3>1, FS_Interval
    <3> QED BY <3>2
  <2>2. IsFiniteSet({x}) /\ Cardinality({x}) = 1
    BY FS_Singleton
  <2>3. IsFiniteSet(A) /\ Cardinality(A) = Cardinality({x}) * Cardinality(0 .. f[x] - 1)
    BY ONLY <2>1, <2>2, FS_Product
  <2> QED BY <2>1, <2>2, <2>3
<1>2. Units(f, S) = A \cup B /\ A \cap B = {}
  BY DEF Units
<1> HIDE DEF A, B
<1>3. Cardinality(A \cap B) = 0 /\ Cardinality(B) \in Nat
  BY <1>2, FS_EmptySet, FS_CardinalityType DEF B
<1>4. IsFiniteSet(A \cup B) /\ Cardinality(A \cup B) = Cardinality(A) + Cardinality(B) - Cardinality(A \cap B)
  BY <1>1, FS_Union DEF B
<1> QED BY <1>1, <1>2, <1>3, <1>4 DEF B

\* A finite set of naturals has finitely many units.
LEMMA UnitsFinite ==
  ASSUME NEW S, IsFiniteSet(S), NEW f, \A i \in S : f[i] \in Nat
  PROVE  /\ IsFiniteSet(Units(f, S))
         /\ Cardinality(Units(f, S)) \in Nat
<1> DEFINE G == {s \in SUBSET S : IsFiniteSet(Units(f, s))}
<1>1. {} \in G
  <2>1. Units(f, {}) = {}
    BY DEF Units
  <2> QED BY <2>1, FS_EmptySet
<1>2. ASSUME NEW s \in SUBSET S, NEW x \in s, s \ {x} \in G PROVE s \in G
  <2>1. f[x] \in Nat /\ IsFiniteSet(Units(f, s \ {x}))
    BY <1>2
  <2> QED BY <2>1, UnitsGrow
<1> HIDE DEF G
<1>3. S \in G
  BY <1>1, <1>2, FiniteGrowth
<1> QED BY <1>3, FS_CardinalityType DEF G

\* The library's sum of a function over a set is the number of its units.
LEMMA SumCountsUnits ==
  ASSUME NEW S, IsFiniteSet(S), NEW f, \A i \in S : f[i] \in Nat
  PROVE  SumFunctionOnSet(f, S) = Cardinality(Units(f, S))
<1> DEFINE pick(s) == CHOOSE x \in s : TRUE
           count == [s \in SUBSET S |-> Cardinality(Units(f, s))]
           sum == CHOOSE g : g = [s \in SUBSET S |->
                    IF s = {} THEN 0 ELSE f[pick(s)] + g[s \ {pick(s)}]]
           G == {s \in SUBSET S : sum[s] = count[s]}
<1>1. SumFunctionOnSet(f, S) = sum[S]
  BY DEF SumFunctionOnSet, FoldFunctionOnSet, MapThenFoldSet
<1>2. /\ count[{}] = 0
      /\ \A s \in SUBSET S : \A x \in s : count[s] = f[x] + count[s \ {x}]
  <2>1. Units(f, {}) = {}
    BY DEF Units
  <2>2. ASSUME NEW s \in SUBSET S, NEW x \in s PROVE count[s] = f[x] + count[s \ {x}]
    <3>1. IsFiniteSet(Units(f, s \ {x}))
      BY FS_Subset, UnitsFinite
    <3> QED BY <3>1, UnitsGrow
  <2> QED BY <2>1, <2>2, FS_EmptySet
<1>3. \A s \in SUBSET S : s # {} => pick(s) \in s /\ s \ {pick(s)} \in SUBSET S
  OBVIOUS
<1>4. count = [s \in SUBSET S |-> IF s = {} THEN 0 ELSE f[pick(s)] + count[s \ {pick(s)}]]
  <2> HIDE DEF pick
  <2>1. count = [s \in SUBSET S |-> count[s]]
    OBVIOUS
  <2> HIDE DEF count
  <2>2. \A s \in SUBSET S : count[s] = IF s = {} THEN 0 ELSE f[pick(s)] + count[s \ {pick(s)}]
    BY <1>2, <1>3
  <2> QED BY <2>1, <2>2
<1> HIDE DEF pick, count
<1>5. sum = [s \in SUBSET S |-> IF s = {} THEN 0 ELSE f[pick(s)] + sum[s \ {pick(s)}]]
  BY <1>4
<1> HIDE DEF sum
<1>6. sum[{}] = 0 /\ \A s \in SUBSET S : s # {} => sum[s] = f[pick(s)] + sum[s \ {pick(s)}]
  BY <1>5
<1>7. {} \in G
  BY <1>2, <1>6
<1>8. \A s \in SUBSET S : s # {} /\ s \ {pick(s)} \in G => s \in G
  BY <1>2, <1>3, <1>6
<1> HIDE DEF G
<1>9. S \in G
  BY <1>3, <1>7, <1>8, FiniteGrowth
<1>10. sum[S] = count[S]
  BY <1>9 DEF G
<1> QED BY <1>1, <1>10 DEF count

\* The sum of naturals is one.
LEMMA SumIsNat ==
  ASSUME NEW S, IsFiniteSet(S), NEW f, \A i \in S : f[i] \in Nat
  PROVE  SumFunctionOnSet(f, S) \in Nat
BY SumCountsUnits, UnitsFinite

\* So is the sum of a function to the naturals.
LEMMA SumFunctionIsNat ==
  ASSUME NEW S, IsFiniteSet(S), NEW f \in [S -> Nat]
  PROVE  SumFunction(f) \in Nat
<1>1. DOMAIN f = S /\ \A i \in S : f[i] \in Nat
  OBVIOUS
<1> QED BY <1>1, SumIsNat DEF SumFunction

\* A sum depends on the values in the set only.
LEMMA SumAgrees ==
  ASSUME NEW S, IsFiniteSet(S), NEW f, NEW g, \A i \in S : f[i] \in Nat /\ f[i] = g[i]
  PROVE  SumFunctionOnSet(f, S) = SumFunctionOnSet(g, S)
<1>1. Units(f, S) = Units(g, S)
  BY DEF Units
<1> QED BY <1>1, SumCountsUnits

\* A sum of zeros.
LEMMA SumOfZeros ==
  ASSUME NEW S, IsFiniteSet(S), NEW f, \A i \in S : f[i] = 0
  PROVE  SumFunctionOnSet(f, S) = 0
<1>1. Units(f, S) = {}
  BY DEF Units
<1> QED BY <1>1, SumCountsUnits, FS_EmptySet

\* Any element can be taken out of a sum.
LEMMA SumTakesOut ==
  ASSUME NEW S, IsFiniteSet(S), NEW f, \A i \in S : f[i] \in Nat, NEW x \in S
  PROVE  /\ SumFunctionOnSet(f, S) = f[x] + SumFunctionOnSet(f, S \ {x})
         /\ SumFunctionOnSet(f, S \ {x}) \in Nat
<1>1. IsFiniteSet(S \ {x}) /\ \A i \in S \ {x} : f[i] \in Nat
  BY FS_Subset
<1>2. /\ SumFunctionOnSet(f, S) = Cardinality(Units(f, S))
      /\ SumFunctionOnSet(f, S \ {x}) = Cardinality(Units(f, S \ {x}))
      /\ IsFiniteSet(Units(f, S \ {x}))
  BY <1>1, SumCountsUnits, UnitsFinite
<1> QED BY <1>1, <1>2, UnitsGrow, SumIsNat

\* The sum over two sets that have nothing in common.
LEMMA SumOfUnion ==
  ASSUME NEW S, IsFiniteSet(S), NEW T, IsFiniteSet(T), S \cap T = {},
         NEW f, \A i \in S \cup T : f[i] \in Nat
  PROVE  SumFunctionOnSet(f, S \cup T) = SumFunctionOnSet(f, S) + SumFunctionOnSet(f, T)
<1>1. Units(f, S \cup T) = Units(f, S) \cup Units(f, T) /\ Units(f, S) \cap Units(f, T) = {}
  BY DEF Units
<1>2. /\ IsFiniteSet(Units(f, S)) /\ Cardinality(Units(f, S)) \in Nat
      /\ IsFiniteSet(Units(f, T)) /\ Cardinality(Units(f, T)) \in Nat
  BY UnitsFinite
<1>3. Cardinality(Units(f, S) \cup Units(f, T)) = Cardinality(Units(f, S)) + Cardinality(Units(f, T))
  <2> DEFINE A == Units(f, S)
             B == Units(f, T)
  <2>1. IsFiniteSet(A) /\ IsFiniteSet(B) /\ Cardinality(A) \in Nat /\ Cardinality(B) \in Nat /\ A \cap B = {}
    BY <1>1, <1>2
  <2> HIDE DEF A, B
  <2>2. Cardinality(A \cup B) = Cardinality(A) + Cardinality(B) - Cardinality(A \cap B)
    BY <2>1, FS_Union
  <2>3. Cardinality(A \cap B) = 0
    BY <2>1, FS_EmptySet
  <2>4. Cardinality(A \cup B) = Cardinality(A) + Cardinality(B)
    BY ONLY <2>1, <2>2, <2>3
  <2> QED BY <2>4 DEF A, B
<1>4. IsFiniteSet(S \cup T)
  BY FS_Union
<1> QED BY <1>1, <1>3, <1>4, SumCountsUnits

-----------------------------------------------------------------------------
(***************************************************************************)
(* Products count boxes.                                                   *)
(***************************************************************************)
\* Places in a box whose sides are the members of S.
Boxes(S) == {g \in [S -> Nat] : \A p \in S : g[p] < p}

\* The boxes with one side more.
LEMMA BoxesGrow ==
  ASSUME NEW S, NEW x \in S, x \in Nat, IsFiniteSet(Boxes(S \ {x}))
  PROVE  /\ IsFiniteSet(Boxes(S))
         /\ Cardinality(Boxes(S)) = x * Cardinality(Boxes(S \ {x}))
<1> DEFINE A == 0 .. x - 1
           B == Boxes(S \ {x})
           P == A \X B
           glue == [q \in P |-> [p \in S |-> IF p = x THEN q[1] ELSE q[2][p]]]
<1>1. IsFiniteSet(A) /\ Cardinality(A) = x
  <2>1. 0 \in Int /\ x - 1 \in Int
    OBVIOUS
  <2>2. /\ IsFiniteSet(0 .. x - 1)
        /\ Cardinality(0 .. x - 1) = IF 0 > x - 1 THEN 0 ELSE (x - 1) - 0 + 1
    BY ONLY <2>1, FS_Interval
  <2> QED BY <2>2
<1>2. IsFiniteSet(P) /\ Cardinality(P) = Cardinality(A) * Cardinality(B)
  <2> HIDE DEF A
  <2> QED BY ONLY <1>1, IsFiniteSet(B), FS_Product
<1>3. ASSUME NEW q \in P
      PROVE  glue[q] \in Boxes(S)
  <2>1. q[1] \in Nat /\ q[1] < x /\ q[2] \in [S \ {x} -> Nat] /\ \A p \in S \ {x} : q[2][p] < p
    BY DEF Boxes
  <2>2. glue[q] = [p \in S |-> IF p = x THEN q[1] ELSE q[2][p]]
    OBVIOUS
  <2> HIDE DEF glue
  <2> QED BY <2>1, <2>2 DEF Boxes
<1>4. ASSUME NEW q \in P, NEW r \in P, glue[q] = glue[r]
      PROVE  q = r
  <2>1. /\ glue[q] = [p \in S |-> IF p = x THEN q[1] ELSE q[2][p]]
        /\ glue[r] = [p \in S |-> IF p = x THEN r[1] ELSE r[2][p]]
    OBVIOUS
  <2>2. /\ q = <<q[1], q[2]>> /\ r = <<r[1], r[2]>>
        /\ q[2] \in [S \ {x} -> Nat] /\ r[2] \in [S \ {x} -> Nat]
    BY DEF Boxes
  <2> HIDE DEF glue, P
  <2>3. \A p \in S : glue[q][p] = glue[r][p]
    BY <1>4
  <2>4. q[1] = r[1] /\ \A p \in S \ {x} : q[2][p] = r[2][p]
    <3>1. glue[q][x] = q[1] /\ glue[r][x] = r[1]
      BY <2>1
    <3>2. \A p \in S \ {x} : glue[q][p] = q[2][p] /\ glue[r][p] = r[2][p]
      BY <2>1
    <3> QED BY <2>3, <3>1, <3>2
  <2>5. q[2] = r[2]
    BY <2>2, <2>4
  <2> QED BY <2>2, <2>4, <2>5
<1>5. ASSUME NEW g \in Boxes(S)
      PROVE  \E q \in P : glue[q] = g
  <2> DEFINE b == [p \in S \ {x} |-> g[p]]
  <2>1. g \in [S -> Nat] /\ g[x] \in A /\ b \in B
    BY DEF Boxes
  <2>2. <<g[x], b>> \in P
    BY <2>1
  <2>3. glue[<<g[x], b>>] = g
    BY <2>1, <2>2
  <2> QED BY <2>2, <2>3
<1>6. glue \in Bijection(P, Boxes(S))
  <2>1. glue \in [P -> Boxes(S)]
    BY <1>3
  <2>2. \A q \in DOMAIN glue, r \in DOMAIN glue : glue[q] = glue[r] => q = r
    BY <1>4
  <2> HIDE DEF glue, P
  <2> QED BY <1>5, <2>1, <2>2 DEF Bijection, Injection, Surjection, IsInjective
<1>7. ExistsBijection(P, Boxes(S))
  BY <1>6 DEF ExistsBijection
<1> HIDE DEF P
<1>8. IsFiniteSet(Boxes(S)) /\ Cardinality(Boxes(S)) = Cardinality(P)
  BY <1>2, <1>7, FS_Bijection, FS_SameCardinalityBij
<1> QED BY <1>1, <1>2, <1>8

\* There is one box without sides.
LEMMA BoxOfNothing ==
  IsFiniteSet(Boxes({})) /\ Cardinality(Boxes({})) = 1
<1> DEFINE e == [p \in {} |-> 0]
<1>1. e \in [{} -> Nat] /\ \A g \in [{} -> Nat] : g = e
  OBVIOUS
<1>2. Boxes({}) = {e}
  BY <1>1 DEF Boxes
<1> HIDE DEF e
<1> QED BY <1>2, FS_Singleton

\* Boxes with finitely many sides are finitely many.
LEMMA BoxesFinite ==
  ASSUME NEW S, IsFiniteSet(S), S \subseteq Nat
  PROVE  IsFiniteSet(Boxes(S)) /\ Cardinality(Boxes(S)) \in Nat
<1> DEFINE G == {s \in SUBSET S : IsFiniteSet(Boxes(s))}
<1>1. {} \in G
  BY BoxOfNothing
<1>2. ASSUME NEW s \in SUBSET S, NEW x \in s, s \ {x} \in G PROVE s \in G
  <2>1. x \in Nat /\ IsFiniteSet(Boxes(s \ {x}))
    BY <1>2
  <2> QED BY <2>1, BoxesGrow
<1> HIDE DEF G
<1>3. S \in G
  BY <1>1, <1>2, FiniteGrowth
<1> QED BY <1>3, FS_CardinalityType DEF G

\* The library's product of a set is the number of its boxes.
LEMMA ProductCountsBoxes ==
  ASSUME NEW S, IsFiniteSet(S), S \subseteq Nat
  PROVE  ProductSet(S) = Cardinality(Boxes(S))
<1> DEFINE pick(s) == CHOOSE x \in s : TRUE
           count == [s \in SUBSET S |-> Cardinality(Boxes(s))]
           product == CHOOSE g : g = [s \in SUBSET S |->
                        IF s = {} THEN 1 ELSE pick(s) * g[s \ {pick(s)}]]
           G == {s \in SUBSET S : product[s] = count[s]}
<1>1. ProductSet(S) = product[S]
  BY DEF ProductSet, FoldSet, MapThenFoldSet
<1>2. /\ count[{}] = 1
      /\ \A s \in SUBSET S : \A x \in s : count[s] = x * count[s \ {x}]
  <2>1. count[{}] = 1
    BY BoxOfNothing
  <2>2. ASSUME NEW s \in SUBSET S, NEW x \in s PROVE count[s] = x * count[s \ {x}]
    <3>1. IsFiniteSet(Boxes(s \ {x})) /\ x \in Nat
      BY FS_Subset, BoxesFinite
    <3> QED BY <3>1, BoxesGrow
  <2> QED BY <2>1, <2>2
<1>3. \A s \in SUBSET S : s # {} => pick(s) \in s /\ s \ {pick(s)} \in SUBSET S
  OBVIOUS
<1>4. count = [s \in SUBSET S |-> IF s = {} THEN 1 ELSE pick(s) * count[s \ {pick(s)}]]
  <2> HIDE DEF pick
  <2>1. count = [s \in SUBSET S |-> count[s]]
    OBVIOUS
  <2> HIDE DEF count
  <2>2. \A s \in SUBSET S : count[s] = IF s = {} THEN 1 ELSE pick(s) * count[s \ {pick(s)}]
    BY <1>2, <1>3
  <2> QED BY <2>1, <2>2
<1> HIDE DEF pick, count
<1>5. product = [s \in SUBSET S |-> IF s = {} THEN 1 ELSE pick(s) * product[s \ {pick(s)}]]
  BY <1>4
<1> HIDE DEF product
<1>6. product[{}] = 1 /\ \A s \in SUBSET S : s # {} => product[s] = pick(s) * product[s \ {pick(s)}]
  BY <1>5
<1>7. {} \in G
  BY <1>2, <1>6
<1>8. \A s \in SUBSET S : s # {} /\ s \ {pick(s)} \in G => s \in G
  BY <1>2, <1>3, <1>6
<1> HIDE DEF G
<1>9. S \in G
  BY <1>3, <1>7, <1>8, FiniteGrowth
<1>10. product[S] = count[S]
  BY <1>9 DEF G
<1> QED BY <1>1, <1>10 DEF count

\* Multiples.
LEMMA MultipleOf == \A p \in Nat \ {0}, k \in Nat : (p * k) % p = 0
<1> SUFFICES ASSUME NEW p \in Nat \ {0}, NEW k \in Nat PROVE (p * k) % p = 0
  OBVIOUS
<1> QED OBVIOUS

\* The product of positive numbers is positive and a multiple of each.
LEMMA ProductIsMultiple ==
  ASSUME NEW S, IsFiniteSet(S), S \subseteq Nat \ {0}
  PROVE  ProductSet(S) \in Nat \ {0} /\ \A p \in S : ProductSet(S) % p = 0
<1>1. ProductSet(S) = Cardinality(Boxes(S)) /\ ProductSet(S) \in Nat
  BY ProductCountsBoxes, BoxesFinite
<1>2. ProductSet(S) # 0
  <2>1. [p \in S |-> 0] \in Boxes(S)
    BY DEF Boxes
  <2> QED BY <1>1, <2>1, FS_EmptySet, BoxesFinite
<1>3. ASSUME NEW p \in S PROVE ProductSet(S) % p = 0
  <2>1. IsFiniteSet(S \ {p}) /\ S \ {p} \subseteq Nat
    BY FS_Subset
  <2>2. IsFiniteSet(Boxes(S \ {p})) /\ Cardinality(Boxes(S \ {p})) \in Nat
    BY <2>1, BoxesFinite
  <2>3. ProductSet(S) = p * Cardinality(Boxes(S \ {p}))
    BY <1>1, <2>2, BoxesGrow
  <2> QED BY <2>2, <2>3, MultipleOf
<1> QED BY <1>1, <1>2, <1>3
-----------------------------------------------------------------------------
(***************************************************************************)
(* Greedy placement: turn by turn, every element gets one of its choices,  *)
(* which depend on what the elements before it got.                        *)
(***************************************************************************)
\* What the elements of S before t got.
Given(S, V, R, a, t) == {q \in S \X V : <<q[1], t>> \in R /\ q[2] = a[q[1]]}

\* Whatever the choices are, all elements can be served in the order R.
LEMMA TurnByTurn ==
  ASSUME NEW S, IsFiniteSet(S), NEW V, NEW R,
         \A i \in S : <<i, i>> \notin R,
         \A i, j, k \in S : <<i, j>> \in R /\ <<j, k>> \in R => <<i, k>> \in R,
         NEW C, \A t \in S : \A p \in SUBSET (S \X V) : C[<<t, p>>] \cap V # {}
  PROVE  \E a \in [S -> V] : \A t \in S : a[t] \in C[<<t, Given(S, V, R, a, t)>>]
<1> DEFINE Good(s, a) == \A t \in s : a[t] \in C[<<t, Given(s, V, R, a, t)>>]
           G == {s \in SUBSET S : \E a \in [s -> V] : Good(s, a)}
<1>1. {} \in G
  <2> DEFINE e == [i \in {} |-> i]
  <2>1. e \in [{} -> V]
    OBVIOUS
  <2> QED BY <2>1
<1>2. ASSUME NEW s \in SUBSET S, s # {}, \A x \in s : s \ {x} \in G PROVE s \in G
  <2>1. PICK x \in s : \A i \in s : <<x, i>> \notin R
    <3>1. IsFiniteSet(s)
      BY FS_Subset
    <3>2. \A i, j, k \in s : <<i, j>> \in R /\ <<j, k>> \in R => <<i, k>> \in R
      OBVIOUS
    <3> HIDE DEF G
    <3> QED BY <1>2, <3>1, <3>2, LastOfOrder
  <2> DEFINE r == s \ {x}
  <2>2. PICK b \in [r -> V] : Good(r, b)
    BY <1>2, <2>1
  <2> DEFINE p == {q \in r \X V : <<q[1], x>> \in R /\ q[2] = b[q[1]]}
  <2>3. PICK v \in V : v \in C[<<x, p>>]
    <3>1. p \in SUBSET (S \X V) /\ x \in S
      OBVIOUS
    <3> HIDE DEF p, G
    <3> QED BY <3>1
  <2> DEFINE a == [i \in s |-> IF i = x THEN v ELSE b[i]]
  <2>4. a \in [s -> V] /\ a[x] = v /\ \A i \in r : a[i] = b[i]
    BY <2>1
  <2> HIDE DEF a, G, Good
  <2>5. Given(s, V, R, a, x) = p
    BY <2>1, <2>4 DEF Given
  <2>6. \A t \in r : Given(s, V, R, a, t) = Given(r, V, R, b, t)
    BY <2>1, <2>4 DEF Given
  <2>7. Good(s, a)
    <3>1. \A t \in r : a[t] \in C[<<t, Given(s, V, R, a, t)>>]
      BY <2>2, <2>4, <2>6 DEF Good
    <3>2. a[x] \in C[<<x, Given(s, V, R, a, x)>>]
      BY <2>3, <2>4, <2>5
    <3> QED BY <3>1, <3>2 DEF Good
  <2> QED BY <2>4, <2>7 DEF G
<1> HIDE DEF G
<1>3. S \in G
  BY <1>1, <1>2, FiniteGrowth
<1> QED BY <1>3 DEF G

\* Among finitely many numbered cores one is least loaded, the lowest among equals.
Least(cores, load, c) ==
  \A d \in cores \ {c} : load[c] < load[d] \/ (load[c] = load[d] /\ c < d)

\* There is such a core.
LEMMA LeastExists ==
  ASSUME NEW cores, IsFiniteSet(cores), cores # {}, cores \subseteq Int,
         NEW load, \A c \in cores : load[c] \in Int
  PROVE  \E c \in cores : Least(cores, load, c)
<1> DEFINE R == {q \in cores \X cores : load[q[1]] > load[q[2]] \/ (load[q[1]] = load[q[2]] /\ q[1] > q[2])}
<1>1. \A i \in cores : <<i, i>> \notin R
  OBVIOUS
<1>2. \A i, j, k \in cores : <<i, j>> \in R /\ <<j, k>> \in R => <<i, k>> \in R
  OBVIOUS
<1>3. PICK c \in cores : \A d \in cores : <<c, d>> \notin R
  <2> HIDE DEF R
  <2> QED BY <1>1, <1>2, LastOfOrder
<1>4. \A d \in cores \ {c} : load[c] < load[d] \/ (load[c] = load[d] /\ c < d)
  <2> SUFFICES ASSUME NEW d \in cores \ {c} PROVE load[c] < load[d] \/ (load[c] = load[d] /\ c < d)
    OBVIOUS
  <2>1. ~(load[c] > load[d] \/ (load[c] = load[d] /\ c > d))
    BY <1>3
  <2> QED BY <2>1
<1> QED BY <1>4 DEF Least
=============================================================================
