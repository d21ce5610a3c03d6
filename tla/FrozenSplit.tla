----------------------------- MODULE FrozenSplit -----------------------------
(***************************************************************************)
(* How a population of workloads is split into train, validation and test: *)
(* taskset_split (chaser/dataset/splits.py) and the legacy family holdout  *)
(* of freeze_split (chaser/dataset/builder.py).                            *)
(*                                                                         *)
(* An input `in` gives each workload its family and the signature of what  *)
(* it computes; workloads with one signature are aliases.  The seeded      *)
(* SHA-256 order is the constant Rank.                                     *)
(***************************************************************************)
EXTENDS Integers, FiniteSets

CONSTANTS
  Rank,         \* Rank[seed][x]: place of a signature or family in the seeded order
  NoSignature   \* a workload that states no input signature

Members(in)     == DOMAIN in.family
Families(in)    == {in.family[w] : w \in Members(in)}
InputsOf(in, f) == {in.signature[w] : w \in {v \in Members(in) : in.family[v] = f}}

(***************************************************************************)
(* Sizes: fifths of n, remainders to the largest, nobody empty.            *)
(***************************************************************************)
Groups == <<"train", "validation", "test">>
Share  == <<3, 1, 1>>                          \* of five

Floor(n, i)     == (Share[i] * n) \div 5
Remainder(n, i) == (Share[i] * n) % 5
LeftOver(n)     == n - (Floor(n, 1) + Floor(n, 2) + Floor(n, 3))
Earlier(n, i, j) ==
  Remainder(n, i) > Remainder(n, j) \/ (Remainder(n, i) = Remainder(n, j) /\ i < j)

Rounded(n) ==
  [i \in 1 .. 3 |-> Floor(n, i) +
     IF Cardinality({j \in 1 .. 3 : Earlier(n, j, i)}) < LeftOver(n) THEN 1 ELSE 0]

\* An empty group takes one from the first of the largest.
Fed(sizes, i) ==
  LET donor == CHOOSE d \in 1 .. 3 :
        \A j \in 1 .. 3 : sizes[d] > sizes[j] \/ (sizes[d] = sizes[j] /\ d <= j)
  IN IF sizes[i] > 0 THEN sizes ELSE [sizes EXCEPT ![donor] = @ - 1, ![i] = 1]

\* Mutant: a group may stay empty.
Sizes_Unfed(n) == Rounded(n)

Sizes(n) == Fed(Fed(Fed(Rounded(n), 1), 2), 3)

\* The group of the k-th of n (k counts from 0).
GroupAt(n, k) ==
  LET sizes == Sizes(n)
  IN IF k < sizes[1] THEN Groups[1]
     ELSE IF k < sizes[1] + sizes[2] THEN Groups[2] ELSE Groups[3]

(***************************************************************************)
(* taskset_split: whole inputs are assigned, within each family.           *)
(***************************************************************************)
Splittable(in) ==
  /\ \A w \in Members(in) : in.signature[w] # NoSignature
  /\ \A v, w \in Members(in) :
       in.signature[v] = in.signature[w] => in.family[v] = in.family[w]
  /\ \A f \in Families(in) : Cardinality(InputsOf(in, f)) >= 3

Place(seed, inputs, s) == Cardinality({t \in inputs : Rank[seed][t] < Rank[seed][s]})

Assigned(in, seed, w) ==
  LET inputs == InputsOf(in, in.family[w])
  IN GroupAt(Cardinality(inputs), Place(seed, inputs, in.signature[w]))

TasksetSplit(in, seed) ==
  [policy |-> "taskset", seed |-> seed, family |-> in.family, signature |-> in.signature,
   group |-> [w \in Members(in) |-> Assigned(in, seed, w)]]

(***************************************************************************)
(* The legacy policy: whole families, 70/20/10.                            *)
(***************************************************************************)
Tenths(n) ==                                   \* round(n * 0.1), half to even
  LET q == n \div 10
      r == n % 10
  IN IF r > 5 \/ (r = 5 /\ q % 2 = 1) THEN q + 1 ELSE q
Fifths(n) == (n + 2) \div 5                    \* round(n * 0.2)
AtLeastOne(k) == IF k > 1 THEN k ELSE 1

FamilyGroup(in, seed, f) ==
  LET n          == Cardinality(Families(in))
      test       == AtLeastOne(Tenths(n))
      validation == AtLeastOne(Fifths(n))
      k          == Place(seed, Families(in), f)
  IN IF k < n - test - validation THEN Groups[1]
     ELSE IF k < n - test THEN Groups[2] ELSE Groups[3]

FamilySplit(in, seed) ==
  [policy |-> "family", seed |-> seed, family |-> in.family,
   group |-> [f \in Families(in) |-> FamilyGroup(in, seed, f)]]

(***************************************************************************)
(* What freeze_split draws, and what it accepts from the file.             *)
(***************************************************************************)
CanDraw(in, policy) ==
  IF policy = "taskset" THEN Splittable(in) ELSE Cardinality(Families(in)) >= 3

Drawn(in, seed, policy) ==
  IF policy = "taskset" THEN TasksetSplit(in, seed) ELSE FamilySplit(in, seed)

\* The taskset split is drawn again from the file's own seed and compared; of
\* the legacy one only the families and the use of all three groups are checked.
Acceptable(in, policy, s) ==
  /\ s.policy = policy
  /\ IF policy = "taskset"
       THEN Splittable(in) /\ s = TasksetSplit(in, s.seed)
       ELSE /\ s.family = in.family
            /\ DOMAIN s.group = Families(in)
            /\ {s.group[f] : f \in DOMAIN s.group} = {Groups[i] : i \in 1 .. 3}

GroupOf(s, w) == IF s.policy = "taskset" THEN s.group[w] ELSE s.group[s.family[w]]
=============================================================================
