--------------------------- MODULE MCDatasetBuild ----------------------------
(***************************************************************************)
(* DatasetBuild for TLC: small populations over signatures 1 to 12.        *)
(***************************************************************************)
EXTENDS DatasetBuild, TLC

CONSTANTS p1, p2, v1, v2

TwoProcesses == {p1, p2}
TwoOutputs   == {v1, v2}
Symmetry     == Permutations(TwoProcesses) \cup Permutations(TwoOutputs)

\* Seed 1 orders as numbers do, seed 2 the other way round.
SeededRank == <<[x \in 1 .. 12 |-> x], [x \in 1 .. 12 |-> 13 - x]>>

\* A population of one family, signatures given workload by workload.
OneFamily(signatures) ==
  [family |-> [w \in DOMAIN signatures |-> 1], signature |-> signatures]

Aliased  == OneFamily(<<1, 2, 3, 2>>)
Grown    == OneFamily(<<1, 2, 3, 2, 4>>)
Changed  == OneFamily(<<5, 2, 3, 2>>)
Unsigned == OneFamily(<<1, 2, 3, 0>>)
TooFew   == OneFamily(<<1, 2, 2, 1>>)
Claimed  == [Aliased EXCEPT !.family[4] = 2]
TwoSizes == [family    |-> [w \in 1 .. 12 |-> IF w <= 5 THEN 1 ELSE 2],
             signature |-> [w \in 1 .. 12 |-> w]]
Three    == [family |-> <<1, 2, 3, 1>>, signature |-> <<1, 2, 3, 2>>]

\* The measurements of a population, but for one workload, are complete.
Line(in, seed, policy, missing) ==
  [in |-> in, seed |-> seed, policy |-> policy, complete |-> Members(in) \ missing]

Lines ==
  {Line(Aliased, 1, "taskset", {1}), Line(Aliased, 2, "taskset", {}),
   Line(Grown, 1, "taskset", {2}), Line(Changed, 2, "taskset", {}),
   Line(TwoSizes, 1, "taskset", {}), Line(Three, 1, "family", {4})}
  \cup {Line(Aliased, 1, "family", {})}
  \cup {Line(in, 1, "taskset", {}) : in \in {Unsigned, TooFew, Claimed}}
=============================================================================
