---------------------------- MODULE CacheReference ----------------------------
(***************************************************************************)
(* The cache study of the S1 experiments (chaser/locality): a trace of     *)
(* memory accesses is replayed in a two-level LRU hierarchy, and the same  *)
(* hits are estimated from reuse distances within each set alone.          *)
(*                                                                         *)
(* The analyzer that measures the distances is not part of the repository: *)
(* its histograms are modelled by what the estimator takes them for, one   *)
(* per level over the requests that reach the level.                       *)
(***************************************************************************)
EXTENDS Naturals, Sequences, FiniteSets, Functions

CONSTANTS
  Hierarchies,   \* pairs of cache levels, the L1 and the LLC
  Accesses,      \* the accesses a program may make, [address, size]
  LineIds,       \* the cache lines these touch
  MaxReferences  \* BOUND: no access begins after this many line references

Level == 1 .. 2

LinesOf(level) == level.size \div level.line
SetsOf(level) == LinesOf(level) \div level.ways

CacheLevels ==
  [size : Nat \ {0}, line : Nat \ {0}, ways : Nat \ {0}]

\* The checks of CacheLevel and validate_hierarchy(); each level has a set then.
ValidHierarchy(h) ==
  /\ \A k \in Level :
       /\ h[k] \in CacheLevels
       /\ h[k].size % (h[k].line * h[k].ways) = 0
       /\ SetsOf(h[k]) \in Nat \ {0}
  /\ h[1].line = h[2].line
  /\ h[1].size <= h[2].size

\* The lines an access touches, in the order of their addresses.
CacheLines(a, line) ==
  LET first == a.address \div line
      last  == (a.address + a.size - 1) \div line
  IN  [i \in 1 .. last - first + 1 |-> first + i - 1]

ASSUME StudyAssumption ==
  /\ IsFiniteSet(LineIds) /\ LineIds \subseteq Nat
  /\ \A h \in Hierarchies :
       /\ ValidHierarchy(h)
       /\ \A a \in Accesses : CacheLines(a, h[1].line) \in Seq(LineIds)
  /\ MaxReferences \in Nat

VARIABLES
  hierarchy,  \* the levels that are simulated
  pending,    \* lines of the present access still to be referenced
  residents,  \* per level and set the resident lines, the oldest first
  hits,       \* first hits: L1, LLC, neither
  serial,     \* requests each level has seen
  last,       \* the number of the last request of each line at each level
  histogram,  \* per level, how many requests had which set distance
  cold        \* per level, first requests of a line

vars == <<hierarchy, pending, residents, hits, serial, last, histogram, cold>>

caches == <<residents, hits>>
profile == <<serial, last, histogram, cold>>

SetOf(k, line) == line % SetsOf(hierarchy[k])
Ways(k) == hierarchy[k].ways

-----------------------------------------------------------------------------
(***************************************************************************)
(* simulate(): the set of a level is an ordered dictionary.                *)
(***************************************************************************)
Holds(q, line) == \E p \in 1 .. Len(q) : q[p] = line

\* Mutant: a hit does not refresh the line (FIFO).
MovedToEnd_Not(q, line) == q

MovedToEnd(q, line) ==
  LET p == CHOOSE p \in 1 .. Len(q) : q[p] = line
  IN  [i \in 1 .. Len(q) |-> IF i < p THEN q[i]
                             ELSE IF i < Len(q) THEN q[i + 1]
                             ELSE line]

\* The oldest line of a full set makes room.
Allocated(q, ways, line) == Append(IF Len(q) = ways THEN Tail(q) ELSE q, line)

Hit(k, line) == Holds(residents[k][SetOf(k, line)], line)

Demanded(k, line) ==
  [residents[k] EXCEPT ![SetOf(k, line)] =
     IF Holds(@, line) THEN MovedToEnd(@, line) ELSE Allocated(@, Ways(k), line)]

\* Mutant: the LLC sees every reference.
Reaches_All(line) == Level

\* The levels that see a reference: the LLC only if the L1 does not have it.
Reaches(line) == IF Hit(1, line) THEN {1} ELSE Level

FirstHit(line) == IF Hit(1, line) THEN 1 ELSE IF Hit(2, line) THEN 2 ELSE 3

-----------------------------------------------------------------------------
(***************************************************************************)
(* What the analyzer records of the same references.                       *)
(***************************************************************************)
\* The distinct lines requested at level k since the last request of a line.
Since(k, line) == {m \in LineIds : last[k][m] > last[k][line]}

SetDistance(k, line) ==
  Cardinality({m \in Since(k, line) : SetOf(k, m) = SetOf(k, line)})

Record(line) ==
  /\ serial' = [k \in Level |-> IF k \in Reaches(line) THEN serial[k] + 1 ELSE serial[k]]
  /\ last' = [k \in Level |->
                IF k \in Reaches(line) THEN [last[k] EXCEPT ![line] = serial[k] + 1]
                ELSE last[k]]
  /\ histogram' = [k \in Level |->
                     IF k \in Reaches(line) /\ last[k][line] > 0
                     THEN [histogram[k] EXCEPT ![SetDistance(k, line)] = @ + 1]
                     ELSE histogram[k]]
  /\ cold' = [k \in Level |->
                IF k \in Reaches(line) /\ last[k][line] = 0 THEN cold[k] + 1 ELSE cold[k]]

-----------------------------------------------------------------------------
Distances == 0 .. Cardinality(LineIds)

Init ==
  /\ hierarchy \in Hierarchies
  /\ pending = <<>>
  /\ residents = [k \in Level |-> [s \in 0 .. SetsOf(hierarchy[k]) - 1 |-> <<>>]]
  /\ hits = [c \in 1 .. 3 |-> 0]
  /\ serial = [k \in Level |-> 0]
  /\ last = [k \in Level |-> [m \in LineIds |-> 0]]
  /\ histogram = [k \in Level |-> [d \in Distances |-> 0]]
  /\ cold = [k \in Level |-> 0]

\* The next access of the trace is expanded into line references.
Access ==
  /\ pending = <<>> /\ serial[1] < MaxReferences
  /\ \E a \in Accesses : pending' = CacheLines(a, hierarchy[1].line)
  /\ UNCHANGED <<hierarchy, caches, profile>>

\* One pass of the loop of simulate(); the analyzer sees the same reference.
Refer ==
  LET line == Head(pending)
  IN  /\ pending # <<>>
      /\ pending' = Tail(pending)
      /\ residents' = [k \in Level |->
                         IF k \in Reaches(line) THEN Demanded(k, line) ELSE residents[k]]
      /\ hits' = [hits EXCEPT ![FirstHit(line)] = @ + 1]
      /\ Record(line)
      /\ UNCHANGED hierarchy

Next == Access \/ Refer

Spec == Init /\ [][Next]_vars

-----------------------------------------------------------------------------
(***************************************************************************)
(* The estimator by set distance (estimators.py).                          *)
(***************************************************************************)
Between(h, low, high) == SumFunctionOnSet(h, {d \in DOMAIN h : low <= d /\ d < high})

\* Requests of a level whose set distance is below its associativity.
LevelHits(k) == Between(histogram[k], 0, Ways(k))

\* csrd_counts() refuses profiles that do not conserve the requests.
Conserved ==
  /\ serial[2] = serial[1] - LevelHits(1)
  /\ \A k \in Level : serial[k] = cold[k] + Between(histogram[k], 0, Cardinality(LineIds) + 1)

CsrdCounts ==
  <<LevelHits(1), LevelHits(2), serial[1] - LevelHits(1) - LevelHits(2)>>

-----------------------------------------------------------------------------
\* The two independent computations of a cache agree on every line at every
\* moment: it is resident exactly if fewer distinct lines of its set than the
\* level has ways were requested there since its own last request.
ResidencyIsDistance ==
  \A k \in Level, line \in LineIds :
    Hit(k, line) <=> last[k][line] > 0 /\ SetDistance(k, line) < Ways(k)

\* evaluation.py 150: the counts of the estimator by set distance are those of
\* the simulated hierarchy after every reference, and its profiles, the LLC's
\* being that of the L1's misses, are never refused.
CsrdExact == Conserved /\ CsrdCounts = hits
=============================================================================
