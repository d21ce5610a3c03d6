---------------------------- MODULE PolicyProofs ----------------------------
(***************************************************************************)
(* What holds of the placement policies for every task set, core count,    *)
(* capacity and cost: the decision accepts only what fits and never proves *)
(* infeasible what is not, CHASER's search ends in a local optimum no      *)
(* costlier than its start, and the calibration selects the best threshold *)
(* on complete evidence without infrastructure faults.                     *)
(***************************************************************************)
EXTENDS PlacementDecision, Calibration, FiniteSums


(***************************************************************************)
(* The utilization of a set of tasks.                                      *)
(***************************************************************************)
(* Finitely many numbered tasks of whole utilization.                       *)
Sized(ts) ==
    /\ IsFiniteSet(DOMAIN ts) /\ DOMAIN ts \subseteq Nat
    /\ \A i \in DOMAIN ts : ts[i].u \in Nat

(* What the sums of the library give for utilizations.                      *)
LEMMA UtilizationIsNat ==
    ASSUME NEW ts, Sized(ts), NEW S \in SUBSET DOMAIN ts
    PROVE  U(ts, S) \in Nat
<1>1. IsFiniteSet(S) /\ \A i \in S : [j \in DOMAIN ts |-> ts[j].u][i] \in Nat
  BY FS_Subset DEF Sized
<1> QED
  BY <1>1, SumIsNat DEF U

(* The utilization of one task can be taken out.                            *)
LEMMA UtilizationTakesOut ==
    ASSUME NEW ts, Sized(ts), NEW S \in SUBSET DOMAIN ts, NEW x \in S
    PROVE  U(ts, S) = ts[x].u + U(ts, S \ {x}) /\ U(ts, S \ {x}) \in Nat
<1> DEFINE f == [j \in DOMAIN ts |-> ts[j].u]
<1>1. IsFiniteSet(S) /\ (\A i \in S : f[i] \in Nat) /\ f[x] = ts[x].u
  BY FS_Subset DEF Sized
<1> HIDE DEF f
<1>2. /\ SumFunctionOnSet(f, S) = f[x] + SumFunctionOnSet(f, S \ {x})
      /\ SumFunctionOnSet(f, S \ {x}) \in Nat
  BY <1>1, SumTakesOut
<1> QED
  BY <1>1, <1>2 DEF U, f

(* The utilizations of tasks on different cores add up.                     *)
LEMMA UtilizationAddsUp ==
    ASSUME NEW ts, Sized(ts), NEW S \in SUBSET DOMAIN ts, NEW T \in SUBSET DOMAIN ts, S \cap T = {}
    PROVE  U(ts, S \cup T) = U(ts, S) + U(ts, T)
<1> DEFINE f == [j \in DOMAIN ts |-> ts[j].u]
<1>1. IsFiniteSet(S) /\ IsFiniteSet(T) /\ \A i \in S \cup T : f[i] \in Nat
  BY FS_Subset DEF Sized
<1> HIDE DEF f
<1>2. SumFunctionOnSet(f, S \cup T) = SumFunctionOnSet(f, S) + SumFunctionOnSet(f, T)
  BY <1>1, SumOfUnion
<1> QED
  BY <1>2 DEF U, f

(* No tasks, no utilization.                                                *)
LEMMA UtilizationOfNone == ASSUME NEW ts PROVE U(ts, {}) = 0
  BY SumOfZeros, FS_EmptySet DEF U
-----------------------------------------------------------------------------
(***************************************************************************)
(* The placements that the rules describe by what every task finds when    *)
(* its turn comes exist: the tasks are served one by one.                  *)
(***************************************************************************)
(* Pairs of tasks of S in the order of placement.                           *)
Turns(ts, S) == {q \in S \X S : Precedes(ts, q[1], q[2])}

(* The order in which tasks are placed (falling utilization, then index) is *)
(* strict.                                                                  *)
LEMMA TurnsAreOrdered ==
    ASSUME NEW ts, Sized(ts), NEW S \in SUBSET DOMAIN ts
    PROVE  /\ \A i \in S : <<i, i>> \notin Turns(ts, S)
           /\ \A i, j, k \in S : <<i, j>> \in Turns(ts, S) /\ <<j, k>> \in Turns(ts, S)
                               => <<i, k>> \in Turns(ts, S)
<1>1. \A i \in S : i \in Nat /\ ts[i].u \in Nat
  BY DEF Sized
<1> QED
  BY <1>1 DEF Turns, Precedes

(* What the tasks placed so far, the pairs p, put on each core.             *)
LoadBy(ts, S, cores, base, p) ==
    [c \in cores |-> base[c] + U(ts, {j \in S : <<j, c>> \in p})]

(* What the tasks before t put there under the placement a.                 *)
LoadBefore(ts, cores, base, a, t) ==
    [c \in cores |-> base[c] + U(ts, {j \in On(a, c) : Precedes(ts, j, t)})]

(* When t has its turn, the pairs so far are those tasks.                   *)
LEMMA LoadByTurn ==
    ASSUME NEW ts, NEW S, NEW V, NEW cores \in SUBSET V, NEW base, NEW a \in [S -> V], NEW t \in S
    PROVE  LoadBy(ts, S, cores, base, Given(S, V, Turns(ts, S), a, t))
             = LoadBefore(ts, cores, base, a, t)
<1>1. ASSUME NEW c \in cores
      PROVE  {j \in S : <<j, c>> \in Given(S, V, Turns(ts, S), a, t)} = {j \in On(a, c) : Precedes(ts, j, t)}
  BY DEF Given, Turns, On
<1> QED
  BY <1>1 DEF LoadBy, LoadBefore

(* Worst fit: each task on the core least loaded when its turn comes.       *)
LEMMA WorstFitExists ==
    ASSUME NEW ts, Sized(ts), NEW S \in SUBSET DOMAIN ts,
           NEW cores, IsFiniteSet(cores), cores # {}, cores \subseteq Nat,
           NEW base, \A c \in cores : base[c] \in Nat
    PROVE  \E a \in [S -> cores] : \A i \in S :
             Least(cores, LoadBefore(ts, cores, base, a, i), a[i])
<1> DEFINE C == [q \in S \X SUBSET (S \X cores) |->
                   {c \in cores : Least(cores, LoadBy(ts, S, cores, base, q[2]), c)}]
<1>1. ASSUME NEW t \in S, NEW p \in SUBSET (S \X cores) PROVE C[<<t, p>>] \cap cores # {}
  <2> DEFINE load == LoadBy(ts, S, cores, base, p)
  <2>1. \A c \in cores : load[c] \in Int
    <3> SUFFICES ASSUME NEW c \in cores PROVE load[c] \in Int
      OBVIOUS
    <3>1. U(ts, {j \in S : <<j, c>> \in p}) \in Nat
      BY UtilizationIsNat
    <3> QED
      BY <3>1 DEF LoadBy
  <2> HIDE DEF load
  <2>2. PICK c \in cores : Least(cores, load, c)
    <3>1. cores \subseteq Int
      OBVIOUS
    <3> QED
      BY <2>1, <3>1, LeastExists
  <2>3. c \in C[<<t, p>>]
    BY <2>2 DEF load
  <2> QED
    BY <2>3
<1>2. IsFiniteSet(S)
  BY FS_Subset DEF Sized
<1>3. PICK a \in [S -> cores] : \A t \in S : a[t] \in C[<<t, Given(S, cores, Turns(ts, S), a, t)>>]
  <2> HIDE DEF C
  <2> QED
    BY <1>1, <1>2, TurnsAreOrdered, TurnByTurn
<1>4. ASSUME NEW i \in S
      PROVE  Least(cores, LoadBefore(ts, cores, base, a, i), a[i])
  <2>1. Given(S, cores, Turns(ts, S), a, i) \in SUBSET (S \X cores)
    BY DEF Given
  <2>2. Least(cores, LoadBy(ts, S, cores, base, Given(S, cores, Turns(ts, S), a, i)), a[i])
    BY <1>3, <2>1
  <2>3. LoadBy(ts, S, cores, base, Given(S, cores, Turns(ts, S), a, i))
          = LoadBefore(ts, cores, base, a, i)
    <3>1. cores \in SUBSET cores
      OBVIOUS
    <3> QED
      BY <3>1, LoadByTurn
  <2> QED
    BY <2>2, <2>3
<1> QED
  BY <1>4

(* So WFD puts every task it is asked to place on one of the cores          *)
(* (_wfd_into).                                                             *)
LEMMA WfdPlaces ==
    ASSUME NEW ts, Sized(ts), NEW S \in SUBSET DOMAIN ts,
           NEW cores, IsFiniteSet(cores), cores # {}, cores \subseteq Nat,
           NEW from, DOMAIN from \in SUBSET DOMAIN ts
    PROVE  \A i \in S : WfdInto(ts, S, cores, from)[i] \in cores
<1> DEFINE Load(a, i, c) == U(ts, On(from, c)) + U(ts, {j \in On(a, c) : Precedes(ts, j, i)})
           P(a) == \A i \in S : \A d \in cores \ {a[i]} :
                     \/ Load(a, i, a[i]) < Load(a, i, d)
                     \/ Load(a, i, a[i]) = Load(a, i, d) /\ a[i] < d
           placed == CHOOSE a \in [S -> cores] : P(a)
<1>1. \E a \in [S -> cores] : P(a)
  <2> DEFINE base == [c \in cores |-> U(ts, On(from, c))]
  <2>1. \A c \in cores : base[c] = U(ts, On(from, c)) /\ base[c] \in Nat
    <3> SUFFICES ASSUME NEW c \in cores PROVE U(ts, On(from, c)) \in Nat
      OBVIOUS
    <3>1. On(from, c) \in SUBSET DOMAIN ts
      BY DEF On
    <3> QED
      BY <3>1, UtilizationIsNat
  <2> HIDE DEF base, P, Load
  <2>2. PICK a \in [S -> cores] : \A i \in S :
          Least(cores, LoadBefore(ts, cores, base, a, i), a[i])
    <3> HIDE DEF placed
    <3>1. \A c \in cores : base[c] \in Nat
      BY <2>1
    <3> QED
      BY <3>1, WorstFitExists
  <2>3. P(a)
    BY <2>1, <2>2 DEF Least, P, Load, LoadBefore
  <2> QED
    BY <2>3
<1>2. WfdInto(ts, S, cores, from) = [i \in DOMAIN from \cup S |-> IF i \in S THEN placed[i] ELSE from[i]]
  BY DEF WfdInto
<1> HIDE DEF P
<1>3. placed \in [S -> cores]
  BY <1>1
<1> HIDE DEF placed
<1> QED
  BY <1>2, <1>3
-----------------------------------------------------------------------------
(* A placement of every task that keeps the low-affinity tasks together.    *)
Kept(a) ==
    /\ a \in [Tasks -> Cores]
    /\ Mixed(tasks) => \A i \in Low(tasks) : a[i] \in GroupCores(tasks)

SearchInv ==
    /\ tasks \in [Tasks -> TaskValues]
    /\ pc = "nominal" => assign = <<>> /\ champion = <<>>
    /\ pc = "descend" => /\ Kept(assign)
                         /\ allowed = [i \in Tasks |-> Allowed(tasks, i)]
    /\ assign # <<>> => Kept(assign)
    /\ champion # <<>> => Kept(champion)

OfferInv ==
    /\ pc \in {"nominal", "descend", "candidates"} => offered = {}
    /\ pc # "done" => outcome = Undecided
    /\ Chaser \in offered => Valid(tasks, champion)
    /\ \A k \in offered \ {Chaser} : DomainFits(k)
    /\ AcceptedFits
-----------------------------------------------------------------------------
(* WFD gives a core to the tasks it is asked to place and to no other       *)
(* (_wfd_into).                                                             *)
LEMMA WfdDomain ==
    ASSUME NEW ts, NEW S, NEW cores, NEW from, NEW D, DOMAIN from \cup S = D
    PROVE  DOMAIN WfdInto(ts, S, cores, from) = D
  BY DEF WfdInto

(* The balanced grouping places every task (grouped_balanced).              *)
LEMMA GroupedDomain ==
    ASSUME NEW ts
    PROVE  DOMAIN Grouped(ts) = DOMAIN ts
<1>1. DOMAIN Nowhere = {}
  BY DEF Nowhere
<1>2. CASE ~Mixed(ts)
  <2>1. DOMAIN Nowhere \cup DOMAIN ts = DOMAIN ts
    BY <1>1
  <2>2. DOMAIN WfdInto(ts, DOMAIN ts, Cores, Nowhere) = DOMAIN ts
    BY <2>1, WfdDomain
  <2> QED
    BY <1>2, <2>2 DEF Grouped, Wfd
<1>3. CASE Mixed(ts)
  <2> DEFINE first(n) == WfdInto(ts, Low(ts), 0 .. n - 1, Nowhere)
             fits == {n \in 1 .. Cardinality(Cores) :
                        \A c \in Cores : WithinLimit(ts, CoreLoad(ts, first(n), c))}
             used == IF fits = {} THEN Cardinality(Cores) ELSE Min(fits)
  <2>1. Grouped(ts) = WfdInto(ts, DOMAIN ts \ Low(ts), Cores, first(used))
    BY <1>3 DEF Grouped
  <2>2. DOMAIN Nowhere \cup Low(ts) = Low(ts)
    BY <1>1
  <2>3. DOMAIN first(used) = Low(ts)
    BY <2>2, WfdDomain
  <2> HIDE DEF first, used
  <2>4. DOMAIN first(used) \cup (DOMAIN ts \ Low(ts)) = DOMAIN ts
    BY <2>3 DEF Low
  <2>5. DOMAIN WfdInto(ts, DOMAIN ts \ Low(ts), Cores, first(used)) = DOMAIN ts
    BY <2>4, WfdDomain
  <2> QED
    BY <2>1, <2>5
<1> QED
  BY <1>2, <1>3

(* The task sets of the decision are finite and sized.                      *)
LEMMA TasksSized == ASSUME tasks \in [Tasks -> TaskValues] PROVE Sized(tasks)
<1>1. Tasks \subseteq Nat
  BY DecisionAssumption, FS_CardinalityType
<1> QED
  BY <1>1, DecisionAssumption DEF Sized

(* The balanced grouping gives every task one of the cores                  *)
(* (grouped_balanced).                                                      *)
LEMMA GroupedPlaces ==
    ASSUME NEW ts, Sized(ts)
    PROVE  Grouped(ts) \in [DOMAIN ts -> Cores]
<1>1. /\ IsFiniteSet(Cores) /\ Cores # {} /\ Cores \subseteq Nat
      /\ Cores = 0 .. Cardinality(Cores) - 1 /\ Cardinality(Cores) \in Nat
  BY PlacementAssumption, FS_CardinalityType
<1>2. DOMAIN Nowhere = {}
  BY DEF Nowhere
<1>3. CASE ~Mixed(ts)
  <2>1. DOMAIN Nowhere \in SUBSET DOMAIN ts /\ DOMAIN Nowhere \cup DOMAIN ts = DOMAIN ts
    BY <1>2
  <2>2. \A i \in DOMAIN ts : Wfd(ts)[i] \in Cores
    BY <1>1, <2>1, WfdPlaces DEF Wfd
  <2>3. Wfd(ts) = [i \in DOMAIN ts |-> Wfd(ts)[i]]
    BY <2>1 DEF Wfd, WfdInto
  <2> QED
    BY <1>3, <2>2, <2>3 DEF Grouped
<1>4. CASE Mixed(ts)
  <2> DEFINE first(n) == WfdInto(ts, Low(ts), 0 .. n - 1, Nowhere)
             fits == {n \in 1 .. Cardinality(Cores) :
                        \A c \in Cores : WithinLimit(ts, CoreLoad(ts, first(n), c))}
             used == IF fits = {} THEN Cardinality(Cores) ELSE Min(fits)
             high == DOMAIN ts \ Low(ts)
  <2>1. Grouped(ts) = WfdInto(ts, high, Cores, first(used))
    BY <1>4 DEF Grouped
  <2>2. used \in 1 .. Cardinality(Cores)
    <3>1. Cardinality(Cores) \in 1 .. Cardinality(Cores)
      BY <1>1
    <3>2. ASSUME fits # {} PROVE Min(fits) \in fits
      <4>1. fits \subseteq 1 .. Cardinality(Cores)
        OBVIOUS
      <4> HIDE DEF fits
      <4>2. IsFiniteSet(1 .. Cardinality(Cores)) /\ 1 .. Cardinality(Cores) \subseteq Int
        BY <1>1, FS_Interval
      <4>3. IsFiniteSet(fits) /\ fits \subseteq Int
        BY <4>1, <4>2, FS_Subset
      <4> QED
        BY <3>2, <4>3, Extremes
    <3> QED
      BY <3>1, <3>2
  <2> HIDE DEF used
  <2>3. /\ 0 .. used - 1 \subseteq Cores /\ 0 .. used - 1 # {} /\ 0 .. used - 1 \subseteq Nat
        /\ IsFiniteSet(0 .. used - 1)
    <3>1. 0 .. used - 1 \subseteq Cores /\ 0 \in 0 .. used - 1
      BY <1>1, <2>2
    <3> QED
      BY <1>1, <3>1, FS_Subset
  <2>4. /\ Low(ts) \in SUBSET DOMAIN ts /\ DOMAIN Nowhere \in SUBSET DOMAIN ts
        /\ DOMAIN Nowhere \cup Low(ts) = Low(ts)
    BY <1>2 DEF Low
  <2>5. DOMAIN first(used) = Low(ts)
    BY <2>4, WfdDomain
  <2>6. \A i \in Low(ts) : first(used)[i] \in 0 .. used - 1
    <3> DEFINE cs == 0 .. used - 1
               S == Low(ts)
    <3>1. /\ cs \subseteq Nat /\ cs # {} /\ IsFiniteSet(cs)
          /\ S \in SUBSET DOMAIN ts /\ DOMAIN Nowhere \in SUBSET DOMAIN ts
      BY <2>3, <2>4
    <3> HIDE DEF cs, S
    <3>2. \A i \in S : WfdInto(ts, S, cs, Nowhere)[i] \in cs
      BY ONLY Sized(ts), <3>1, WfdPlaces
    <3> QED
      BY <3>2 DEF cs, S
  <2> HIDE DEF first
  <2>7. /\ high \in SUBSET DOMAIN ts /\ DOMAIN first(used) \in SUBSET DOMAIN ts
        /\ DOMAIN first(used) \cup high = DOMAIN ts /\ DOMAIN first(used) \ high = Low(ts)
    BY <2>4, <2>5
  <2> DEFINE g == WfdInto(ts, high, Cores, first(used))
  <2>8. (\A i \in high : g[i] \in Cores) /\ (\A i \in DOMAIN first(used) \ high : g[i] = first(used)[i])
    <3> DEFINE from == first(used)
               cs == Cores
    <3>1. /\ cs \subseteq Nat /\ cs # {} /\ IsFiniteSet(cs)
          /\ high \in SUBSET DOMAIN ts /\ DOMAIN from \in SUBSET DOMAIN ts
      BY <1>1, <2>7
    <3> HIDE DEF high, from, cs, g, fits
    <3>2. \A i \in high : WfdInto(ts, high, cs, from)[i] \in cs
      BY ONLY Sized(ts), <3>1, WfdPlaces
    <3>3. \A i \in DOMAIN from \ high : WfdInto(ts, high, cs, from)[i] = from[i]
      BY DEF WfdInto
    <3> QED
      BY <3>2, <3>3 DEF from, cs, g
  <2>9. \A i \in DOMAIN ts : g[i] \in Cores
    BY <2>3, <2>6, <2>7, <2>8
  <2>10. g = [i \in DOMAIN ts |-> g[i]]
    BY <2>7 DEF WfdInto
  <2> HIDE DEF g
  <2> QED
    BY <2>1, <2>9, <2>10 DEF g
<1> QED
  BY <1>3, <1>4

(* So it keeps the group on the group's cores: they are the cores it gave   *)
(* the low-affinity tasks (release_aware_grouped).                          *)
LEMMA GroupedKept ==
    ASSUME tasks \in [Tasks -> TaskValues]
    PROVE  Kept(Grouped(tasks))
<1>1. Grouped(tasks) \in [Tasks -> Cores]
  BY TasksSized, GroupedPlaces
<1> QED
  BY <1>1 DEF Kept, GroupCores

(* A permitted trial keeps the group together, whatever it moves or swaps   *)
(* (_descend).                                                              *)
LEMMA TrialKeeps ==
    ASSUME NEW a, Kept(a), NEW t \in Trials, tasks \in [Tasks -> TaskValues],
           allowed = [i \in Tasks |-> Allowed(tasks, i)], Permitted(a, t)
    PROVE  Kept(Applied(a, t))
<1>1. /\ t[1] \in {0, 1} /\ t[2] \in Tasks
      /\ t[1] = 0 => t[3] \in Cores
      /\ t[1] = 1 => t[3] \in Tasks
  BY DEF Trials
<1>2. Applied(a, t) \in [Tasks -> Cores]
  BY <1>1 DEF Applied, Kept
<1>3. ASSUME Mixed(tasks), NEW i \in Low(tasks)
      PROVE  Applied(a, t)[i] \in GroupCores(tasks)
  <2>1. i \in Tasks /\ a[i] \in GroupCores(tasks)
    BY <1>3 DEF Kept, Low
  <2>2. allowed[i] = GroupCores(tasks)
    BY <1>3, <2>1 DEF Allowed
  <2>3. CASE i = t[2]
    BY <2>2, <2>3 DEF Permitted
  <2>4. CASE t[1] = 1 /\ i = t[3]
    BY <2>2, <2>4 DEF Permitted
  <2>5. CASE i # t[2] /\ ~(t[1] = 1 /\ i = t[3])
    <3>1. Applied(a, t)[i] = a[i]
      BY <1>1, <2>1, <2>5 DEF Applied, Kept
    <3> QED
      BY <2>1, <3>1
  <2> QED
    BY <2>3, <2>4, <2>5
<1> QED
  BY <1>2, <1>3 DEF Kept
-----------------------------------------------------------------------------
(* Every action keeps the low-affinity tasks together.                      *)
LEMMA SearchInit == Init => SearchInv
  BY DEF Init, SearchInv

(* Every trial of the search stays within the group it searches.            *)
LEMMA SearchStep == SearchInv /\ [Next]_vars => SearchInv'
<1> SUFFICES ASSUME SearchInv, [Next]_vars
             PROVE  SearchInv'
  OBVIOUS
<1> USE DEF SearchInv
<1>1. CASE Nominal
  <2>1. CASE check' = "feasible"
    <3>1. /\ pc' = "descend" /\ assign' = Grouped(tasks) /\ champion' = <<>> /\ tasks' = tasks
          /\ allowed' = [i \in Tasks |-> Allowed(tasks, i)]
      BY <1>1, <2>1 DEF Nominal
    <3>2. Kept(assign)'
      BY <3>1, GroupedKept DEF Kept
    <3> QED
      BY <3>1, <3>2
  <2>2. CASE check' # "feasible"
    <3>1. pc' = "candidates" /\ assign' = <<>> /\ champion' = <<>> /\ tasks' = tasks
      BY <1>1, <2>2 DEF Nominal, search
    <3> QED
      BY <3>1
  <2> QED
    BY <2>1, <2>2
<1>2. CASE Improve
  <2>1. PICK t \in Ahead : assign' = Applied(assign, t)
    BY <1>2 DEF Improve
  <2>2. Kept(Applied(assign, t))
    BY <1>2, <2>1, TrialKeeps DEF Improve, Ahead, Lowers
  <2>3. Kept(assign)'
    BY <1>2, <2>1, <2>2 DEF Improve, Kept
  <2> QED
    BY <1>2, <2>3 DEF Improve, Kept
<1>3. CASE NextPass
  BY <1>3 DEF NextPass, Kept
<1>4. CASE DescentEnds
  <2>1. Kept(assign) /\ pc = "descend" /\ tasks' = tasks /\ allowed' = allowed
    BY <1>4 DEF DescentEnds
  <2>2. Kept(champion)'
    BY <1>4, <2>1 DEF DescentEnds, Kept
  <2>3. CASE assign' \in {a \in [Tasks -> Cores] : \A i \in Tasks : a[i] \in allowed[i]}
    <3>1. assign' \in [Tasks -> Cores] /\ \A i \in Tasks : assign'[i] \in allowed[i]
      BY <2>3
    <3>2. ASSUME Mixed(tasks), NEW i \in Low(tasks)
          PROVE  assign'[i] \in GroupCores(tasks)
      <4>1. i \in Tasks
        BY <3>2 DEF Low
      <4>2. allowed[i] = GroupCores(tasks)
        BY <2>1, <3>2, <4>1 DEF Allowed
      <4> QED
        BY <3>1, <4>1, <4>2
    <3>3. Kept(assign)'
      BY <2>1, <3>1, <3>2 DEF Kept
    <3> QED
      BY <1>4, <2>1, <2>2, <3>3 DEF DescentEnds
  <2>4. CASE pc' = "candidates" /\ assign' = assign
    <3>1. Kept(assign)'
      BY <2>1, <2>4 DEF Kept
    <3> QED
      BY <2>1, <2>2, <2>4, <3>1
  <2> QED
    BY <1>4, <2>3, <2>4 DEF DescentEnds
<1>5. CASE Candidates
  BY <1>5 DEF Candidates, search, Kept
<1>6. CASE Decide
  BY <1>6 DEF Decide, search, Kept
<1>7. CASE UNCHANGED vars
  BY <1>7 DEF vars, Kept
<1> QED
  BY <1>1, <1>2, <1>3, <1>4, <1>5, <1>6, <1>7 DEF Next

(* The search never moves a low-affinity task off the group's cores         *)
(* (release_aware_grouped, placement.py 131-146), for every task set,       *)
(* number of cores and cost.                                                *)
THEOREM GroupIsKept == Spec => []GroupKept
<1>1. SearchInv => GroupKept
  <2> SUFFICES ASSUME SearchInv, NEW a \in {assign, champion}, a # <<>>, Mixed(tasks), NEW i \in Low(tasks)
               PROVE  \E j \in Low(tasks) : a[i] = Grouped(tasks)[j]
    BY DEF GroupKept
  <2>1. a[i] \in GroupCores(tasks)
    BY DEF SearchInv, Kept
  <2> QED
    BY <2>1 DEF GroupCores
<1> QED
  BY <1>1, SearchInit, SearchStep, PTL DEF Spec
-----------------------------------------------------------------------------

(* Nothing is offered before the decision.                                  *)
LEMMA OfferInit == Init => OfferInv
  BY DEF Init, OfferInv, AcceptedFits, Undecided

(* An offer is accepted only after the capacity test of its kind.           *)
LEMMA OfferStep == OfferInv /\ [Next]_vars => OfferInv'
<1> SUFFICES ASSUME OfferInv, [Next]_vars
             PROVE  OfferInv'
  OBVIOUS
<1> USE DEF OfferInv
<1>1. CASE Nominal \/ Improve \/ NextPass \/ DescentEnds
  <2>1. /\ offered' = {} /\ outcome' = Undecided
        /\ pc' \in {"descend", "candidates"}
    BY <1>1 DEF Nominal, Improve, NextPass, DescentEnds
  <2> QED
    BY <2>1 DEF AcceptedFits, Undecided
<1>2. CASE Candidates
  <2>1. /\ offered' = Offered /\ outcome' = Undecided /\ pc' = "choose"
        /\ tasks' = tasks /\ champion' = champion
    BY <1>2 DEF Candidates, search
  <2>2. Chaser \in Offered => Valid(tasks, champion)
    BY DecisionAssumption DEF Offered
  <2>3. \A k \in Offered \ {Chaser} : DomainFits(k)
    BY DEF Offered
  <2>4. (\A k \in offered \ {Chaser} : DomainFits(k))'
    BY <2>1, <2>3 DEF DomainFits
  <2> QED
    BY <2>1, <2>2, <2>4 DEF AcceptedFits, Undecided
<1>3. CASE Decide
  <2>1. /\ pc' = "done" /\ tasks' = tasks /\ champion' = champion /\ offered' = offered
    BY <1>3 DEF Decide, search
  <2>2. (\A k \in offered \ {Chaser} : DomainFits(k))'
    BY <2>1 DEF DomainFits
  <2>3. CASE outcome' = [status |-> "deferred", choice |-> Chaser]
    BY <2>1, <2>2, <2>3 DEF AcceptedFits
  <2>4. ASSUME NEW prob \in [offered -> Probabilities], outcome' \in Chosen(prob)
        PROVE  AcceptedFits'
    <3>1. outcome'.status = "P" => Chaser \in offered
      BY <2>4 DEF Chosen
    <3>2. outcome'.status = "fallback_gc" => outcome'.choice \in offered \ {Chaser}
      BY <2>4 DEF Chosen
    <3> QED
      BY <2>1, <2>2, <3>1, <3>2 DEF AcceptedFits
  <2>5. AcceptedFits'
    BY <1>3, <2>3, <2>4 DEF Decide
  <2> QED
    BY <2>1, <2>2, <2>5
<1>4. CASE UNCHANGED vars
  BY <1>4 DEF vars, AcceptedFits, DomainFits
<1> QED
  BY <1>1, <1>2, <1>3, <1>4 DEF Next

(* Whatever the forest predicts, and although the search may trade          *)
(* capacity for cost, an accepted configuration keeps its capacity          *)
(* (candidates and choose, decision.py 44-69).                              *)
THEOREM AcceptedAlwaysFits == Spec => []AcceptedFits
<1>1. OfferInv => AcceptedFits
  BY DEF OfferInv
<1> QED
  BY <1>1, OfferInit, OfferStep, PTL DEF Spec
-----------------------------------------------------------------------------
(* What a valid placement holds on any cores is at most their capacity.     *)
LEMMA ValidHoldsAtMost ==
    ASSUME NEW ts, Sized(ts), NEW a, Valid(ts, a)
    PROVE  U(ts, DOMAIN ts) <= Cardinality(Cores) * Cap
<1> DEFINE of(C) == {i \in DOMAIN ts : a[i] \in C}
           G == {C \in SUBSET Cores : U(ts, of(C)) <= Cardinality(C) * Cap}
<1>1. IsFiniteSet(Cores) /\ Cap \in Nat /\ a \in [DOMAIN ts -> Cores]
  BY PlacementAssumption DEF Valid
<1>2. {} \in G
  <2>1. of({}) = {} /\ Cardinality({}) = 0
    BY FS_EmptySet
  <2>2. U(ts, of({})) = 0
    BY <2>1, UtilizationOfNone
  <2> QED
    BY <1>1, <2>1, <2>2
<1>3. ASSUME NEW C \in SUBSET Cores, NEW x \in C, C \ {x} \in G PROVE C \in G
  <2>1. of(C) = of(C \ {x}) \cup On(a, x) /\ of(C \ {x}) \cap On(a, x) = {}
    BY <1>1 DEF On
  <2>2. of(C \ {x}) \in SUBSET DOMAIN ts /\ On(a, x) \in SUBSET DOMAIN ts
    BY <1>1 DEF On
  <2>3. U(ts, of(C)) = U(ts, of(C \ {x})) + U(ts, On(a, x))
    <3> HIDE DEF of
    <3> QED
      BY <2>1, <2>2, UtilizationAddsUp
  <2>4. U(ts, of(C \ {x})) \in Nat /\ U(ts, On(a, x)) \in Nat /\ U(ts, On(a, x)) <= Cap
    BY <2>2, UtilizationIsNat DEF Valid, CoreLoad
  <2>5. Cardinality(C) = Cardinality(C \ {x}) + 1 /\ Cardinality(C \ {x}) \in Nat
    <3>1. IsFiniteSet(C)
      BY <1>1, FS_Subset
    <3> QED
      BY <3>1, FS_RemoveElement, FS_CardinalityType, FS_Subset
  <2>6. U(ts, of(C \ {x})) <= Cardinality(C \ {x}) * Cap
    BY <1>3
  <2> HIDE DEF of
  <2>7. (Cardinality(C \ {x}) + 1) * Cap = Cardinality(C \ {x}) * Cap + Cap
    BY <1>1, <2>5
  <2>8. U(ts, of(C)) <= Cardinality(C) * Cap
    <3> DEFINE n == Cardinality(C \ {x}) * Cap
    <3>1. n \in Nat
      BY <1>1, <2>5
    <3> HIDE DEF n
    <3>2. Cardinality(C) * Cap = n + Cap
      BY <2>5, <2>7 DEF n
    <3>3. U(ts, of(C \ {x})) <= n
      BY <2>6 DEF n
    <3> QED
      BY <1>1, <2>3, <2>4, <3>1, <3>2, <3>3
  <2> QED
    BY <2>8
<1> HIDE DEF G
<1>4. Cores \in G
  <2>1. IsFiniteSet(Cores)
    BY <1>1
  <2>2. \A C \in SUBSET Cores : C # {} /\ (\A x \in C : C \ {x} \in G) => C \in G
    BY <1>3
  <2> QED
    BY <1>2, <2>1, <2>2, FiniteGrowth
<1>5. of(Cores) = DOMAIN ts
  BY <1>1
<1> QED
  BY <1>4, <1>5 DEF G

(* So tasks or a total that exceed the capacity have no valid placement.    *)
LEMMA TooMuchHasNoPlacement ==
    ASSUME NEW ts, Sized(ts), TooMuch(ts), NEW a, Valid(ts, a)
    PROVE  FALSE
<1>1. CASE \E i \in DOMAIN ts : ts[i].u > Cap
  <2>1. PICK i \in DOMAIN ts : ts[i].u > Cap
    BY <1>1
  <2>2. a[i] \in Cores /\ i \in On(a, a[i]) /\ On(a, a[i]) \in SUBSET DOMAIN ts
    BY DEF Valid, On
  <2>3. /\ CoreLoad(ts, a, a[i]) = ts[i].u + U(ts, On(a, a[i]) \ {i})
        /\ U(ts, On(a, a[i]) \ {i}) \in Nat
    BY <2>2, UtilizationTakesOut DEF CoreLoad
  <2>4. ts[i].u \in Nat /\ Cap \in Nat
    BY PlacementAssumption DEF Sized
  <2>5. CoreLoad(ts, a, a[i]) <= Cap
    BY <2>2 DEF Valid
  <2> QED
    BY <2>1, <2>3, <2>4, <2>5
<1>2. CASE U(ts, DOMAIN ts) > Cardinality(Cores) * Cap
  <2>1. U(ts, DOMAIN ts) \in Nat /\ Cardinality(Cores) * Cap \in Nat
    BY UtilizationIsNat, PlacementAssumption, FS_CardinalityType
  <2> QED
    BY <1>2, <2>1, ValidHoldsAtMost
<1> QED
  BY <1>1, <1>2 DEF TooMuch

NominalInv ==
    /\ tasks \in [Tasks -> TaskValues]
    /\ check = "proven_infeasible" => TooMuch(tasks)

(* The nominal check proves infeasible only what no placement satisfies     *)
(* (nominal, placement.py 49-56).                                           *)
THEOREM NominalIsSound == Spec => []NominalSound
<1>1. Init => NominalInv
  BY DEF Init, NominalInv
<1>2. NominalInv /\ [Next]_vars => NominalInv'
  <2> SUFFICES ASSUME NominalInv, [Next]_vars PROVE NominalInv'
    OBVIOUS
  <2> USE DEF NominalInv
  <2>1. CASE Nominal
    <3>1. tasks' = tasks /\ check' = NominalStatus(tasks)
      BY <2>1 DEF Nominal
    <3>2. check' = "proven_infeasible" => TooMuch(tasks)
      BY <3>1 DEF NominalStatus
    <3> QED
      BY <3>1, <3>2 DEF TooMuch, U
  <2>2. CASE tasks' = tasks /\ check' = check
    BY <2>2 DEF TooMuch, U
  <2>3. Improve \/ NextPass \/ DescentEnds \/ Candidates \/ Decide \/ UNCHANGED vars
          => tasks' = tasks /\ check' = check
    BY DEF Improve, NextPass, DescentEnds, Candidates, Decide, vars
  <2> QED
    BY <2>1, <2>2, <2>3 DEF Next
<1>3. NominalInv => NominalSound
  BY TasksSized, TooMuchHasNoPlacement DEF NominalInv, NominalSound
<1> QED
  BY <1>1, <1>2, <1>3, PTL DEF Spec
-----------------------------------------------------------------------------
(* The periods of a task set have a common multiple, so a least one.        *)
LEMMA HyperperiodIsPositive ==
    ASSUME NEW ts \in [Tasks -> TaskValues]
    PROVE  Hyperperiod(ts) \in Nat \ {0}
<1> DEFINE f == [i \in Tasks |-> ts[i].period]
           P == {f[i] : i \in Tasks}
           H == {h \in 1 .. ProductSet(P) : \A i \in DOMAIN ts : h % ts[i].period = 0}
<1>1. P = {ts[i].period : i \in DOMAIN ts}
  OBVIOUS
<1>2. P \subseteq Nat \ {0} /\ IsFiniteSet(P)
  <2>1. P \subseteq Nat \ {0}
    BY DecisionAssumption
  <2>2. IsFiniteSet(P)
    <3> HIDE DEF f
    <3> QED
      BY DecisionAssumption, ImageFinite
  <2> QED
    BY <2>1, <2>2
<1>3. ProductSet(P) \in Nat \ {0} /\ \A p \in P : ProductSet(P) % p = 0
  <2> HIDE DEF P
  <2> QED
    BY <1>2, ProductIsMultiple
<1>4. ProductSet(P) \in H
  <2>1. \A i \in DOMAIN ts : ts[i].period \in P
    OBVIOUS
  <2> HIDE DEF P
  <2> QED
    BY <1>3, <2>1
<1>5. IsFiniteSet(H) /\ H \subseteq Int
  <2> DEFINE n == ProductSet(P)
  <2>1. n \in Int
    BY <1>3
  <2>2. H \subseteq 1 .. n
    OBVIOUS
  <2> HIDE DEF n, H
  <2>3. IsFiniteSet(1 .. n) /\ 1 .. n \subseteq Int
    BY <2>1, FS_Interval
  <2> QED
    BY <2>2, <2>3, FS_Subset
<1>6. Hyperperiod(ts) = Min(H)
  BY <1>1 DEF Hyperperiod
<1>7. H \subseteq Nat \ {0}
  <2> DEFINE n == ProductSet(P)
  <2>1. H \subseteq 1 .. n /\ n \in Nat
    BY <1>3
  <2> HIDE DEF n, H
  <2> QED
    BY <2>1
<1> HIDE DEF H
<1>8. Min(H) \in H
  BY <1>4, <1>5, Extremes
<1> QED
  BY ONLY <1>6, <1>7, <1>8

(* Costs are numbers, so that they can be compared.                         *)
LEMMA CostIsNat ==
    ASSUME NEW ts \in [Tasks -> TaskValues], NEW a, DOMAIN a = Tasks
    PROVE  Cost(ts, a) \in Nat
<1>1. /\ IsFiniteSet(Cores) /\ Cores # {} /\ Cap \in Nat /\ Penalty \in Nat
      /\ IsFiniteSet(Tasks) /\ DOMAIN ts = Tasks
      /\ \A i \in Tasks : ts[i].u \in Nat /\ ts[i].period \in Nat
  BY PlacementAssumption, DecisionAssumption
<1>2. ASSUME NEW t, NEW c PROVE Released(ts, a, t, c) \in Nat
  <2> DEFINE f == [i \in DOMAIN ts |-> ts[i].u * ts[i].period]
             S == {i \in On(a, c) : t % ts[i].period = 0}
  <2>1. S \subseteq Tasks
    BY DEF On
  <2>2. IsFiniteSet(S)
    BY <1>1, <2>1, FS_Subset
  <2>3. \A i \in S : f[i] \in Nat
    BY <1>1, <2>1
  <2>4. Released(ts, a, t, c) = SumFunctionOnSet(f, S)
    BY DEF Released
  <2> HIDE DEF f, S
  <2> QED
    BY <2>2, <2>3, <2>4, SumIsNat
<1>3. Crowding(ts, a) \in Nat
  <2> DEFINE T == 0 .. Hyperperiod(ts) - 1
             f == [t \in T |-> Max({Released(ts, a, t, c) : c \in Cores})]
  <2>1. IsFiniteSet(T)
    <3>1. 0 \in Int /\ Hyperperiod(ts) - 1 \in Int
      BY HyperperiodIsPositive
    <3> QED
      BY <3>1, FS_Interval
  <2>2. ASSUME NEW t \in T PROVE Max({Released(ts, a, t, c) : c \in Cores}) \in Nat
    <3> DEFINE g == [c \in Cores |-> Released(ts, a, t, c)]
    <3>1. {Released(ts, a, t, c) : c \in Cores} = {g[c] : c \in Cores}
      OBVIOUS
    <3>2. \A c \in Cores : g[c] \in Nat /\ g[c] \in Int
      BY <1>2
    <3> HIDE DEF g
    <3>3. Max({g[c] : c \in Cores}) \in {g[c] : c \in Cores}
      BY <1>1, <3>2, MaxOfImage
    <3>4. Max({g[c] : c \in Cores}) \in Nat
      BY <3>2, <3>3
    <3> QED
      BY <3>1, <3>4
  <2>3. f \in [T -> Nat]
    BY <2>2
  <2>4. Crowding(ts, a) = SumFunction(f)
    BY DEF Crowding
  <2> HIDE DEF f, T
  <2> QED
    BY <2>1, <2>3, <2>4, SumFunctionIsNat
<1>4. Overload(ts, a) \in Nat
  <2> DEFINE f == [c \in Cores |-> Max({0, CoreLoad(ts, a, c) - Cap})]
  <2>1. ASSUME NEW c \in Cores PROVE Max({0, CoreLoad(ts, a, c) - Cap}) \in Nat
    <3> DEFINE x == CoreLoad(ts, a, c) - Cap
    <3>1. x \in Int
      <4>1. Sized(ts) /\ On(a, c) \in SUBSET DOMAIN ts
        BY <1>1, DecisionAssumption, FS_CardinalityType DEF Sized, On
      <4>2. CoreLoad(ts, a, c) \in Nat
        BY <4>1, UtilizationIsNat DEF CoreLoad
      <4> QED
        BY <1>1, <4>2
    <3> HIDE DEF x
    <3>2. PICK y \in {0, x} : \A z \in {0, x} : y >= z
      BY <3>1
    <3>3. Max({0, x}) \in {0, x} /\ \A z \in {0, x} : Max({0, x}) >= z
      BY <3>2 DEF Max
    <3>4. Max({0, x}) \in Nat
      BY <3>1, <3>3
    <3> QED
      BY <3>4 DEF x
  <2>2. f \in [Cores -> Nat]
    BY <2>1
  <2>3. Overload(ts, a) = SumFunction(f)
    BY DEF Overload
  <2> HIDE DEF f
  <2> QED
    BY <1>1, <2>2, <2>3, SumFunctionIsNat
<1> QED
  BY <1>1, <1>3, <1>4 DEF Cost

(* Every trial lies ahead of the origin: tasks are numbered from one.       *)
LEMMA TrialsAhead == \A t \in Trials : Before(Origin, t)
<1>1. \A i \in Tasks : i \in Nat /\ i > 0
  BY DecisionAssumption, FS_CardinalityType
<1> QED
  BY <1>1 DEF Trials, Before, Origin

(* A pass that took no trial starts and ends at the origin, so that it      *)
(* looked at every trial; the first descent starts from the grouping, and   *)
(* no step makes its placement costlier.                                    *)
ChampionInv ==
    /\ ~improved => cursor = Origin
    /\ pc = "descend" /\ champion = <<>> => Cost(tasks, assign) <= Cost(tasks, Grouped(tasks))
    /\ ChampionOptimal

(* No step of the first descent makes the placement costlier, and a pass    *)
(* that took no trial ends in an optimum.                                   *)
LEMMA ChampionStep == SearchInv /\ SearchInv' /\ ChampionInv /\ [Next]_vars => ChampionInv'
<1> SUFFICES ASSUME SearchInv, SearchInv', ChampionInv, [Next]_vars
             PROVE  ChampionInv'
  OBVIOUS
<1>1. CASE Nominal
  <2>1. /\ champion' = <<>> /\ tasks' = tasks /\ cursor' = cursor /\ improved' = improved
        /\ pc' = "descend" => assign' = Grouped(tasks)
    BY <1>1 DEF Nominal, search, SearchInv
  <2>2. Cost(tasks, Grouped(tasks)) \in Nat
    BY GroupedDomain, CostIsNat DEF SearchInv
  <2>3. (pc = "descend" /\ champion = <<>> => Cost(tasks, assign) <= Cost(tasks, Grouped(tasks)))'
    BY <2>1, <2>2
  <2> QED
    BY <2>1, <2>3 DEF ChampionInv, ChampionOptimal
<1>2. CASE Improve
  <2>1. PICK t \in Ahead : assign' = Applied(assign, t)
    BY <1>2 DEF Improve
  <2>2. tasks' = tasks /\ allowed' = allowed /\ champion' = champion /\ pc = "descend" /\ improved' = TRUE
    BY <1>2 DEF Improve
  <2>3. DOMAIN assign = Tasks /\ DOMAIN Applied(assign, t) = Tasks
    BY <2>2 DEF SearchInv, Kept, Applied
  <2>4. /\ Cost(tasks, assign) \in Nat /\ Cost(tasks, Applied(assign, t)) \in Nat
        /\ Cost(tasks, Grouped(tasks)) \in Nat
    BY <2>3, GroupedDomain, CostIsNat DEF SearchInv
  <2>5. Cost(tasks, Applied(assign, t)) < Cost(tasks, assign)
    BY <2>1 DEF Ahead, Lowers
  <2>6. (pc = "descend" /\ champion = <<>> => Cost(tasks, assign) <= Cost(tasks, Grouped(tasks)))'
    BY <2>1, <2>2, <2>4, <2>5 DEF ChampionInv
  <2>7. ChampionOptimal'
    BY <2>2 DEF ChampionInv, ChampionOptimal, Lowers, Permitted
  <2> QED
    BY <2>2, <2>6, <2>7 DEF ChampionInv
<1>3. CASE DescentEnds
  <2>1. /\ tasks' = tasks /\ allowed' = allowed /\ pc = "descend" /\ ~improved /\ Ahead = {}
        /\ cursor' = Origin /\ cursor = Origin
        /\ champion' = IF champion = <<>> \/ Cost(tasks, assign) < Cost(tasks, champion)
                       THEN assign ELSE champion
    BY <1>3 DEF DescentEnds, ChampionInv
  <2>2. ~\E t \in Trials : Lowers(assign, t)
    BY <2>1, TrialsAhead DEF Ahead
  <2>3. DOMAIN assign = Tasks /\ assign # <<>>
    BY <2>1, DecisionAssumption DEF SearchInv, Kept
  <2>4. /\ Cost(tasks, assign) \in Nat /\ Cost(tasks, Grouped(tasks)) \in Nat
        /\ champion # <<>> => Cost(tasks, champion) \in Nat
    BY <2>3, GroupedDomain, CostIsNat DEF SearchInv, Kept
  <2>5. champion' # <<>>
    BY <2>1, <2>3
  <2>6. Cost(tasks, champion') <= Cost(tasks, Grouped(tasks)) /\ ~\E t \in Trials : Lowers(champion', t)
    <3>1. CASE champion = <<>>
      BY <2>1, <2>2, <3>1 DEF ChampionInv
    <3>2. CASE champion # <<>>
      BY <2>1, <2>2, <2>4, <3>2 DEF ChampionInv, ChampionOptimal
    <3> QED
      BY <3>1, <3>2
  <2>7. ChampionOptimal'
    <3>1. (\E t \in Trials : Lowers(champion, t))' = \E t \in Trials : Lowers(champion', t)
      BY <2>1 DEF Lowers, Permitted
    <3> QED
      BY <2>1, <2>6, <3>1 DEF ChampionOptimal
  <2> QED
    BY <2>1, <2>5, <2>7 DEF ChampionInv
<1>4. CASE NextPass
  BY <1>4 DEF NextPass, ChampionInv, ChampionOptimal, Lowers, Permitted
<1>5. CASE Candidates \/ Decide \/ UNCHANGED vars
  <2>1. /\ tasks' = tasks /\ UNCHANGED search
        /\ pc' = "descend" => pc = "descend"
    BY <1>5 DEF Candidates, Decide, vars, search
  <2> QED
    BY <2>1 DEF search, ChampionInv, ChampionOptimal, Lowers, Permitted
<1> QED
  BY <1>1, <1>2, <1>3, <1>4, <1>5 DEF Next

(* The search ends in a placement that no permitted move or swap makes      *)
(* cheaper, no costlier than the balanced grouping it started from          *)
(* (_descend and release_aware_grouped, placement.py 107-151).              *)
THEOREM ChampionIsOptimal == Spec => []ChampionOptimal
<1>1. Init => ChampionInv
  BY DEF Init, ChampionInv, ChampionOptimal
<1>2. ChampionInv => ChampionOptimal
  BY DEF ChampionInv
<1> QED
  BY <1>1, <1>2, SearchInit, SearchStep, ChampionStep, PTL DEF Spec
-----------------------------------------------------------------------------
Evidence ==
    /\ DOMAIN evidence \subseteq Requests
    /\ \A r \in DOMAIN evidence : evidence[r] \in Batches

EvidenceInv ==
    /\ stage = "plan" => evidence = <<>>
    /\ Evidence
    /\ stage \in {"plan", "measure"} => selection = Unselected
    /\ Resolved => \A r \in Requests :
         /\ r \in DOMAIN evidence
         /\ Status(evidence[r]) # "infrastructure_error"

(* A batch that is no infrastructure error is whole, and only its schedule  *)
(* can have failed it (classify_p_batch).                                   *)
LEMMA NoFault ==
    ASSUME NEW batch \in Batches, Status(batch) # "infrastructure_error"
    PROVE  /\ batch # Unreadable
           /\ \/ \A i \in DOMAIN batch : ~batch[i].failed
              \/ \E i \in DOMAIN batch : batch[i].errors \cap Scheduling # {}
           /\ UNION {batch[i].errors : i \in DOMAIN batch} \subseteq Scheduling \cup {"job_completeness"}
           /\ \A i \in DOMAIN batch : batch[i].exit = 0
<1> DEFINE failed == {i \in DOMAIN batch : batch[i].failed}
           reasons == UNION {batch[i].errors : i \in failed}
<1>1. batch # Unreadable
  BY DEF Status
<1>2. \A i \in DOMAIN batch : ~batch[i].failed => batch[i].errors = {} /\ batch[i].exit = 0
  BY <1>1, BatchAssumption DEF Unreadable
<1>3. CASE failed = {}
  BY <1>1, <1>2, <1>3
<1>4. CASE failed # {}
  <2>1. /\ reasons \cap Scheduling # {}
        /\ reasons \subseteq Scheduling \cup {"job_completeness"}
        /\ \A i \in failed : batch[i].exit = 0
    BY <1>1, <1>4 DEF Status
  <2>2. \E i \in DOMAIN batch : batch[i].errors \cap Scheduling # {}
    BY <2>1
  <2>3. \A i \in DOMAIN batch : batch[i].errors \subseteq Scheduling \cup {"job_completeness"}
    BY <1>2, <2>1
  <2>4. \A i \in DOMAIN batch : batch[i].exit = 0
    BY <1>2, <2>1
  <2> QED
    BY <1>1, <2>2, <2>3, <2>4
<1> QED
  BY <1>3, <1>4
-----------------------------------------------------------------------------

(* No evidence is collected yet.                                            *)
LEMMA EvidenceInit == CalInit => EvidenceInv
<1> SUFFICES ASSUME CalInit
             PROVE  EvidenceInv
  OBVIOUS
<1>1. DOMAIN evidence = {}
  BY DEF CalInit
<1>2. ~Resolved
  BY DEF CalInit, Resolved, Unselected
<1> QED
  BY <1>1, <1>2 DEF CalInit, EvidenceInv, Evidence

(* Every batch that is kept as evidence answers a planned request.          *)
LEMMA EvidenceStep == EvidenceInv /\ [CalNext]_calVars => EvidenceInv'
<1> SUFFICES ASSUME EvidenceInv, [CalNext]_calVars
             PROVE  EvidenceInv'
  OBVIOUS
<1> USE DEF EvidenceInv
<1>1. CASE Plan
  <2>1. DOMAIN evidence' = {} /\ selection' = Unselected /\ stage' = "measure"
    BY <1>1 DEF Plan
  <2>2. ~Resolved'
    BY <2>1 DEF Resolved, Unselected
  <2>3. Evidence'
    BY <2>1 DEF Evidence
  <2> QED
    BY <2>1, <2>2, <2>3
<1>2. CASE Measure
  <2>1. PICK r \in Requests \ DOMAIN evidence, b \in Batches :
          evidence' = [q \in DOMAIN evidence \cup {r} |-> IF q = r THEN b ELSE evidence[q]]
    BY <1>2 DEF Measure
  <2>2. stage' = "measure" /\ selection' = Unselected /\ plan' = plan
    BY <1>2 DEF Measure
  <2>3. Requests' = Requests
    BY <2>2 DEF Requests, Infeasible, On
  <2>4. Evidence'
    BY <2>1, <2>3 DEF Evidence
  <2>5. ~Resolved'
    BY <2>2 DEF Resolved, Unselected
  <2> QED
    BY <2>2, <2>4, <2>5
<1>3. CASE Select
  <2>1. stage' = "selected" /\ plan' = plan /\ evidence' = evidence /\ DOMAIN evidence = Requests
    BY <1>3 DEF Select
  <2>2. Requests' = Requests
    BY <2>1 DEF Requests, Infeasible, On
  <2>3. Evidence'
    BY <2>1, <2>2 DEF Evidence
  <2>4. ASSUME NEW r \in Requests, Status(evidence[r]) = "infrastructure_error"
        PROVE  ~Resolved'
    <3>1. selection' = [Unselected EXCEPT !.status = "refused"]
      BY <1>3, <2>4 DEF Select
    <3> QED
      BY <3>1 DEF Resolved, Unselected
  <2> QED
    BY <2>1, <2>2, <2>3, <2>4
<1>4. CASE Deploy \/ UNCHANGED calVars
  <2>1. plan' = plan /\ evidence' = evidence /\ selection' = selection
    BY <1>4 DEF Deploy, calVars
  <2>2. stage' = stage \/ stage' = "deployed"
    BY <1>4 DEF Deploy, calVars
  <2>3. Requests' = Requests /\ Resolved' = Resolved
    BY <2>1 DEF Requests, Infeasible, On, Resolved
  <2>4. Evidence'
    BY <2>1, <2>3 DEF Evidence
  <2> QED
    BY <2>1, <2>2, <2>3, <2>4
<1> QED
  BY <1>1, <1>2, <1>3, <1>4 DEF CalNext

(* No infrastructure fault is ever counted for or against a threshold       *)
(* (select_threshold and classify_p_batch, calibration.py 125-199).         *)
THEOREM FaultsNeverCount == CalSpec => []NoFaultCounted
<1>1. EvidenceInv => NoFaultCounted
  <2> SUFFICES ASSUME EvidenceInv, Resolved, NEW theta \in DOMAIN plan, NEW w \in Workloads,
                      Infeasible(plan[theta][w]) = {}
               PROVE  LET batch == evidence[<<w, plan[theta][w]>>]
                          named == UNION {batch[i].errors : i \in DOMAIN batch}
                      IN /\ batch # Unreadable
                         /\ \/ \A i \in DOMAIN batch : ~batch[i].failed
                            \/ \E i \in DOMAIN batch : batch[i].errors \cap Scheduling # {}
                         /\ named \subseteq Scheduling \cup {"job_completeness"}
                         /\ \A i \in DOMAIN batch : batch[i].exit = 0
    BY DEF NoFaultCounted
  <2> DEFINE r == <<w, plan[theta][w]>>
  <2>1. r \in Requests
    BY DEF Requests
  <2>2. evidence[r] \in Batches /\ Status(evidence[r]) # "infrastructure_error"
    BY <2>1 DEF EvidenceInv, Evidence
  <2> QED
    BY <2>2, NoFault
<1> QED
  BY <1>1, EvidenceInit, EvidenceStep, PTL DEF CalSpec
-----------------------------------------------------------------------------
(* The cores of its group that have room for a task under a load.           *)
Room(load, t, theta) == {c \in Group(t, theta) : load[c] + cases[t].u <= Capacity}

Empty == [c \in AllCores |-> 0]

(* What Algorithm 1 asks of the core of task t.                             *)
Placed(m, t, theta) ==
    LET load == LoadBefore(cases, AllCores, Empty, m, t)
        room == Room(load, t, theta)
    IN \/ room = {} /\ m[t] = NoCore
       \/ m[t] \in room /\ Least(room, load, m[t])

(* Algorithm 1 serves every task in turn, so that its allocation exists     *)
(* (allocate, allocator.py 56-72).                                          *)
LEMMA AllocationExists ==
    ASSUME Sized(cases), NEW S \in SUBSET DOMAIN cases, NEW theta
    PROVE  \E m \in [S -> AllCores \cup {NoCore}] : \A t \in S : Placed(m, t, theta)
<1> DEFINE V == AllCores \cup {NoCore}
           load(p) == LoadBy(cases, S, AllCores, Empty, p)
           C == [q \in S \X SUBSET (S \X V) |->
                   IF Room(load(q[2]), q[1], theta) = {} THEN {NoCore}
                   ELSE {c \in Room(load(q[2]), q[1], theta) : Least(Room(load(q[2]), q[1], theta), load(q[2]), c)}]
<1>1. IsFiniteSet(AllCores) /\ AllCores \subseteq Int /\ \A t : Group(t, theta) \subseteq AllCores
  BY CalibrationAssumption DEF AllCores, Group
<1>2. ASSUME NEW t \in S, NEW p \in SUBSET (S \X V) PROVE C[<<t, p>>] \cap V # {}
  <2> DEFINE l == load(p)
             room == Room(l, t, theta)
  <2>1. C[<<t, p>>] = IF room = {} THEN {NoCore} ELSE {c \in room : Least(room, l, c)}
    OBVIOUS
  <2>2. \A c \in AllCores : l[c] \in Int
    <3> SUFFICES ASSUME NEW c \in AllCores PROVE l[c] \in Int
      OBVIOUS
    <3>1. U(cases, {j \in S : <<j, c>> \in p}) \in Nat
      BY UtilizationIsNat
    <3> QED
      BY <3>1 DEF LoadBy, Empty
  <2> HIDE DEF l, C
  <2>3. room \subseteq AllCores
    BY <1>1 DEF Room
  <2>4. IsFiniteSet(room) /\ room \subseteq Int /\ \A c \in room : l[c] \in Int
    BY <1>1, <2>2, <2>3, FS_Subset
  <2> HIDE DEF room
  <2>5. CASE room = {}
    BY <2>1, <2>5
  <2>6. CASE room # {}
    <3>1. PICK c \in room : Least(room, l, c)
      BY <2>4, <2>6, LeastExists
    <3> QED
      BY <2>1, <2>3, <2>6, <3>1
  <2> QED
    BY <2>5, <2>6
<1>3. IsFiniteSet(S)
  BY FS_Subset DEF Sized
<1>4. PICK m \in [S -> V] : \A t \in S : m[t] \in C[<<t, Given(S, V, Turns(cases, S), m, t)>>]
  <2> HIDE DEF C
  <2> QED
    BY <1>2, <1>3, TurnsAreOrdered, TurnByTurn
<1>5. ASSUME NEW t \in S PROVE Placed(m, t, theta)
  <2> DEFINE p == Given(S, V, Turns(cases, S), m, t)
             l == load(p)
             room == Room(l, t, theta)
  <2>1. p \in SUBSET (S \X V)
    BY DEF Given
  <2>2. m[t] \in IF room = {} THEN {NoCore} ELSE {c \in room : Least(room, l, c)}
    <3> HIDE DEF p
    <3>1. C[<<t, p>>] = IF room = {} THEN {NoCore} ELSE {c \in room : Least(room, l, c)}
      BY <2>1
    <3>2. m[t] \in C[<<t, p>>]
      BY <1>4 DEF p
    <3> QED
      BY <3>1, <3>2
  <2>3. l = LoadBefore(cases, AllCores, Empty, m, t)
    <3>1. AllCores \in SUBSET V
      OBVIOUS
    <3> QED
      BY <3>1, LoadByTurn
  <2> HIDE DEF l, p
  <2> QED
    BY <2>2, <2>3 DEF Placed
<1> QED
  BY <1>5

(* So a task it places is in its own group, and fits when it arrives.       *)
LEMMA AllocationPlaces ==
    ASSUME Sized(cases), NEW S \in SUBSET DOMAIN cases, NEW theta
    PROVE  LET m == Allocation(S, theta)
           IN /\ m \in [S -> AllCores \cup {NoCore}]
              /\ \A t \in S : m[t] # NoCore =>
                   /\ m[t] \in Group(t, theta)
                   /\ U(cases, {s \in On(m, m[t]) : Precedes(cases, s, t)}) + cases[t].u <= Capacity
<1> DEFINE P(a) == \A t \in S :
             LET load(c) == U(cases, {s \in On(a, c) : Precedes(cases, s, t)})
                 room == {c \in Group(t, theta) : load(c) + cases[t].u <= Capacity}
             IN \/ room = {} /\ a[t] = NoCore
                \/ a[t] \in room /\ \A c \in room \ {a[t]} :
                     load(a[t]) < load(c) \/ (load(a[t]) = load(c) /\ a[t] < c)
           m == Allocation(S, theta)
<1>1. \E a \in [S -> AllCores \cup {NoCore}] : P(a)
  <2>1. PICK a \in [S -> AllCores \cup {NoCore}] : \A t \in S : Placed(a, t, theta)
    BY AllocationExists
  <2>2. ASSUME NEW t \in S
        PROVE  LET load(c) == U(cases, {s \in On(a, c) : Precedes(cases, s, t)})
                   room == {c \in Group(t, theta) : load(c) + cases[t].u <= Capacity}
               IN \/ room = {} /\ a[t] = NoCore
                  \/ a[t] \in room /\ \A c \in room \ {a[t]} :
                       load(a[t]) < load(c) \/ (load(a[t]) = load(c) /\ a[t] < c)
    <3> DEFINE load(c) == U(cases, {s \in On(a, c) : Precedes(cases, s, t)})
               room == {c \in Group(t, theta) : load(c) + cases[t].u <= Capacity}
               l == LoadBefore(cases, AllCores, Empty, a, t)
    <3>1. \A c \in AllCores : l[c] = load(c)
      <4> SUFFICES ASSUME NEW c \in AllCores PROVE l[c] = load(c)
        OBVIOUS
      <4>1. {s \in On(a, c) : Precedes(cases, s, t)} \in SUBSET DOMAIN cases
        BY DEF On
      <4>2. load(c) \in Nat
        BY <4>1, UtilizationIsNat
      <4> QED
        BY <4>2 DEF LoadBefore, Empty
    <3>2. Group(t, theta) \subseteq AllCores
      BY DEF Group, AllCores
    <3> HIDE DEF load, l
    <3>3. room = Room(l, t, theta) /\ room \subseteq AllCores
      BY <3>1, <3>2 DEF Room
    <3> HIDE DEF room
    <3>4. \/ room = {} /\ a[t] = NoCore
          \/ a[t] \in room /\ Least(room, l, a[t])
      BY <2>1, <3>3 DEF Placed, l
    <3>5. \/ room = {} /\ a[t] = NoCore
          \/ a[t] \in room /\ \A c \in room \ {a[t]} :
               load(a[t]) < load(c) \/ (load(a[t]) = load(c) /\ a[t] < c)
      BY <3>1, <3>3, <3>4 DEF Least
    <3> QED
      BY <3>5 DEF load, room
  <2> QED
    BY <2>2
<1>2. m = CHOOSE a \in [S -> AllCores \cup {NoCore}] : P(a)
  BY DEF Allocation
<1> HIDE DEF P, m
<1>3. m \in [S -> AllCores \cup {NoCore}] /\ P(m)
  BY <1>1, <1>2
<1>4. ASSUME NEW t \in S, m[t] # NoCore
      PROVE  /\ m[t] \in Group(t, theta)
             /\ U(cases, {s \in On(m, m[t]) : Precedes(cases, s, t)}) + cases[t].u <= Capacity
  BY <1>3, <1>4 DEF P
<1> QED
  BY <1>3, <1>4 DEF m

(* No core is overloaded: the last task to arrive found room for itself.    *)
LEMMA AllocationFits ==
    ASSUME Sized(cases), NEW S \in SUBSET DOMAIN cases, NEW theta, NEW c \in AllCores
    PROVE  U(cases, On(Allocation(S, theta), c)) <= Capacity
<1> DEFINE m == Allocation(S, theta)
           T == On(m, c)
<1>1. /\ m \in [S -> AllCores \cup {NoCore}]
      /\ \A t \in S : m[t] # NoCore =>
           U(cases, {s \in On(m, m[t]) : Precedes(cases, s, t)}) + cases[t].u <= Capacity
  BY AllocationPlaces
<1>2. c # NoCore /\ Capacity \in Nat
  BY CalibrationAssumption DEF NoCore
<1> HIDE DEF m
<1>3. T \in SUBSET DOMAIN cases /\ T \subseteq S /\ IsFiniteSet(T)
  <2>1. T \subseteq S
    BY <1>1 DEF On
  <2> QED
    BY <2>1, FS_Subset DEF Sized
<1>4. ASSUME T = {} PROVE U(cases, T) <= Capacity
  BY <1>2, <1>4, UtilizationOfNone
<1>5. ASSUME T # {} PROVE U(cases, T) <= Capacity
  <2> DEFINE R == Turns(cases, DOMAIN cases)
  <2>1. /\ \A i \in T : <<i, i>> \notin R
        /\ \A i, j, k \in T : <<i, j>> \in R /\ <<j, k>> \in R => <<i, k>> \in R
    <3>1. DOMAIN cases \in SUBSET DOMAIN cases
      OBVIOUS
    <3>2. /\ \A i \in DOMAIN cases : <<i, i>> \notin R
          /\ \A i, j, k \in DOMAIN cases : <<i, j>> \in R /\ <<j, k>> \in R => <<i, k>> \in R
      BY <3>1, TurnsAreOrdered
    <3> HIDE DEF R, T
    <3> QED
      BY <1>3, <3>2
  <2>2. PICK t \in T : \A i \in T : <<t, i>> \notin R
    <3> HIDE DEF R, T
    <3> QED
      BY <1>3, <1>5, <2>1, LastOfOrder
  <2>3. m[t] = c /\ t \in S
    BY <1>3, <2>2 DEF On
  <2>4. {s \in T : Precedes(cases, s, t)} = T \ {t}
    <3> SUFFICES ASSUME NEW s \in T PROVE Precedes(cases, s, t) <=> s # t
      OBVIOUS
    <3>1. /\ s \in Nat /\ t \in Nat /\ cases[s].u \in Nat /\ cases[t].u \in Nat
          /\ s \in DOMAIN cases /\ t \in DOMAIN cases
      BY <1>3, <2>2 DEF Sized
    <3>2. ~Precedes(cases, t, s)
      BY <2>2, <3>1 DEF Turns
    <3> QED
      BY <3>1, <3>2 DEF Precedes
  <2>5. U(cases, T \ {t}) + cases[t].u <= Capacity
    BY <1>1, <1>2, <2>3, <2>4
  <2> HIDE DEF T
  <2>6. U(cases, T) = cases[t].u + U(cases, T \ {t}) /\ U(cases, T \ {t}) \in Nat
    BY <1>3, <2>2, UtilizationTakesOut
  <2>7. cases[t].u \in Nat
    BY <1>3, <2>2 DEF Sized
  <2> QED
    BY <2>5, <2>6, <2>7
<1> HIDE DEF T
<1>6. U(cases, T) <= Capacity
  BY <1>4, <1>5
<1> QED
  BY <1>6 DEF T, m

(* The completion leaves the tasks that Algorithm 1 placed where they are,  *)
(* and finds a core for every other (algorithm1.place).                     *)
LEMMA CompletedKeeps ==
    ASSUME Sized(cases), NEW S \in SUBSET DOMAIN cases, NEW m \in [S -> AllCores \cup {NoCore}]
    PROVE  /\ Completed(m) \in [S -> AllCores]
           /\ \A t \in S : m[t] # NoCore => Completed(m)[t] = m[t]
<1> DEFINE P(a) == \A t \in DOMAIN m :
             LET load(c) == U(cases, On(m, c)) + U(cases, {s \in Infeasible(m) : a[s] = c /\ Precedes(cases, s, t)})
             IN IF m[t] # NoCore THEN a[t] = m[t]
                ELSE \A c \in AllCores \ {a[t]} :
                       load(a[t]) < load(c) \/ (load(a[t]) = load(c) /\ a[t] < c)
<1>1. IsFiniteSet(AllCores) /\ AllCores # {} /\ AllCores \subseteq Nat
  BY CalibrationAssumption
<1>2. DOMAIN m = S /\ Infeasible(m) = {t \in S : m[t] = NoCore} /\ Infeasible(m) \in SUBSET DOMAIN cases
  BY DEF Infeasible, On
<1>3. \E a \in [DOMAIN m -> AllCores] : P(a)
  <2> DEFINE T == Infeasible(m)
             base == [c \in AllCores |-> U(cases, On(m, c))]
  <2>1. \A c \in AllCores : base[c] = U(cases, On(m, c)) /\ base[c] \in Nat
    <3> SUFFICES ASSUME NEW c \in AllCores PROVE U(cases, On(m, c)) \in Nat
      OBVIOUS
    <3>1. On(m, c) \in SUBSET DOMAIN cases
      BY DEF On
    <3> QED
      BY <3>1, UtilizationIsNat
  <2> HIDE DEF base, P
  <2>2. PICK b \in [T -> AllCores] : \A i \in T :
          Least(AllCores, LoadBefore(cases, AllCores, base, b, i), b[i])
    <3>1. T \in SUBSET DOMAIN cases
      BY <1>2
    <3>2. \A c \in AllCores : base[c] \in Nat
      BY <2>1
    <3> HIDE DEF T
    <3> QED
      BY ONLY Sized(cases), <1>1, <3>1, <3>2, WorstFitExists, ZenonT(120)
  <2> DEFINE a == [t \in S |-> IF t \in T THEN b[t] ELSE m[t]]
  <2>3. a \in [S -> AllCores]
    BY <1>2
  <2>4. ASSUME NEW t \in S
        PROVE  LET load(c) == U(cases, On(m, c)) + U(cases, {s \in T : a[s] = c /\ Precedes(cases, s, t)})
               IN IF m[t] # NoCore THEN a[t] = m[t]
                  ELSE \A c \in AllCores \ {a[t]} :
                         load(a[t]) < load(c) \/ (load(a[t]) = load(c) /\ a[t] < c)
    <3> DEFINE load(c) == U(cases, On(m, c)) + U(cases, {s \in T : a[s] = c /\ Precedes(cases, s, t)})
               l == LoadBefore(cases, AllCores, base, b, t)
    <3>1. CASE m[t] # NoCore
      BY <1>2, <3>1
    <3>2. CASE m[t] = NoCore
      <4>1. t \in T /\ a[t] = b[t] /\ Least(AllCores, l, a[t])
        BY <1>2, <2>2, <3>2
      <4>2. \A c \in AllCores : l[c] = load(c)
        <5> SUFFICES ASSUME NEW c \in AllCores PROVE l[c] = load(c)
          OBVIOUS
        <5>1. {s \in T : a[s] = c /\ Precedes(cases, s, t)} = {s \in On(b, c) : Precedes(cases, s, t)}
          BY <1>2 DEF On
        <5> QED
          BY <2>1, <5>1 DEF LoadBefore
      <4>3. a[t] \in AllCores
        BY <2>3
      <4> HIDE DEF load, l, a, T
      <4>4. \A c \in AllCores \ {a[t]} :
              load(a[t]) < load(c) \/ (load(a[t]) = load(c) /\ a[t] < c)
        BY <4>1, <4>2, <4>3 DEF Least
      <4> QED
        BY <3>2, <4>4 DEF load
    <3> QED
      BY <3>1, <3>2
  <2>5. P(a)
    BY <1>2, <2>4 DEF P
  <2> HIDE DEF a
  <2> QED
    BY <1>2, <2>3, <2>5
<1>4. Completed(m) = CHOOSE a \in [DOMAIN m -> AllCores] : P(a)
  BY DEF Completed
<1> HIDE DEF P
<1>5. Completed(m) \in [DOMAIN m -> AllCores] /\ P(Completed(m))
  BY <1>3, <1>4
<1> QED
  BY <1>2, <1>5 DEF P

(* The task sets are those of the assumption, and nothing is deployed       *)
(* before a threshold is selected.                                          *)
DeployInv ==
    /\ cases \in Cases
    /\ stage # "deployed" => deployed = <<>>
    /\ PlaceableFits

(* What is deployed for a placeable set fits.                               *)
LEMMA DeployStep == DeployInv /\ [CalNext]_calVars => DeployInv'
<1> SUFFICES ASSUME DeployInv, [CalNext]_calVars PROVE DeployInv'
  OBVIOUS
<1>1. CASE Plan \/ Measure \/ Select
  <2>1. cases' = cases /\ stage # "deployed" /\ deployed' = deployed
    BY <1>1 DEF Plan, Measure, Select
  <2>2. deployed' = <<>>
    BY <2>1 DEF DeployInv
  <2> QED
    BY <2>1, <2>2 DEF DeployInv, PlaceableFits
<1>2. CASE Deploy
  <2>1. PICK S \in SUBSET DOMAIN cases :
          deployed' = [cores |-> Completed(Allocation(S, selection.theta)),
                       unplaced |-> Infeasible(Allocation(S, selection.theta))]
    BY <1>2 DEF Deploy
  <2>2. cases' = cases /\ selection' = selection /\ stage' = "deployed"
    BY <1>2 DEF Deploy
  <2> DEFINE theta == selection.theta
             m == Allocation(S, theta)
             a == Completed(m)
             placed == DOMAIN a \ Infeasible(m)
  <2>3. Sized(cases)
    BY CaseAssumption DEF DeployInv, Sized
  <2>4. /\ m \in [S -> AllCores \cup {NoCore}]
        /\ \A t \in S : m[t] # NoCore => m[t] \in Group(t, theta)
    BY <2>3, AllocationPlaces
  <2>5. a \in [S -> AllCores] /\ \A t \in S : m[t] # NoCore => a[t] = m[t]
    <3> HIDE DEF m
    <3> QED
      BY <2>3, <2>4, CompletedKeeps
  <2>6. ASSUME NEW c \in AllCores
        PROVE  /\ On(a, c) \cap placed \subseteq {t \in placed : c \in Group(t, theta)}
               /\ U(cases, On(a, c) \cap placed) <= Capacity
    <3>1. c # NoCore
      BY CalibrationAssumption DEF NoCore
    <3>2. U(cases, On(m, c)) <= Capacity
      BY <2>3, AllocationFits
    <3> HIDE DEF m, a, theta
    <3>3. On(a, c) \cap placed = On(m, c)
      BY <2>4, <2>5, <3>1 DEF On, Infeasible
    <3>4. On(a, c) \cap placed \subseteq {t \in placed : c \in Group(t, theta)}
      BY <2>4, <2>5, <3>1 DEF On, Infeasible
    <3> QED
      BY <3>2, <3>3, <3>4
  <2>7. deployed'.cores = a /\ deployed'.unplaced = Infeasible(m)
    BY <2>1
  <2> HIDE DEF m, a
  <2>8. PlaceableFits'
    BY <2>2, <2>6, <2>7 DEF PlaceableFits, Group
  <2> QED
    BY <2>2, <2>8 DEF DeployInv
<1>3. CASE UNCHANGED calVars
  BY <1>3 DEF calVars, DeployInv, PlaceableFits, Group
<1> QED
  BY <1>1, <1>2, <1>3 DEF CalNext

(* However the fallback piles tasks up, those that the frozen policy places *)
(* are in their own group and overload no core (allocate, allocator.py      *)
(* 56-72; place, algorithm1.py 31-45).                                      *)
THEOREM PlaceableAlwaysFits == CalSpec => []PlaceableFits
<1>1. CalInit => DeployInv
  BY DEF CalInit, DeployInv, PlaceableFits
<1>2. DeployInv => PlaceableFits
  BY DEF DeployInv
<1> QED
  BY <1>1, <1>2, DeployStep, PTL DEF CalSpec
-----------------------------------------------------------------------------
(* A batch whose runs all succeeded has a middle time: the least time that  *)
(* at most half of the runs exceed (median, calibration.py 196).            *)
LEMMA MiddleExists ==
    ASSUME NEW batch \in Batches, batch # Unreadable, \A i \in DOMAIN batch : ~batch[i].failed
    PROVE  TwiceMedian(batch) \in Nat
<1> DEFINE I == 1 .. Repeats
           tat == [i \in I |-> batch[i].tat]
           T == {tat[i] : i \in I}
           below(x) == {i \in I : tat[i] < x}
           above(x) == {i \in I : tat[i] > x}
           High == {x \in T : 2 * Cardinality(above(x)) <= Repeats}
           M == {x \in High : 2 * Cardinality(below(x)) <= Repeats}
<1>1. Repeats \in Nat \ {0} /\ DOMAIN batch = I /\ \A i \in I : batch[i].tat \in Nat
  BY CalibrationAssumption, BatchAssumption DEF Unreadable
<1>2. IsFiniteSet(I) /\ Cardinality(I) = Repeats
  <2>1. 1 \in Int /\ Repeats \in Int /\ ~(1 > Repeats)
    BY <1>1
  <2>2. IsFiniteSet(I) /\ Cardinality(I) = IF 1 > Repeats THEN 0 ELSE Repeats - 1 + 1
    BY <2>1, FS_Interval
  <2> QED
    BY <2>1, <2>2
<1>3. M = Middle(batch)
  <2>1. T = {batch[i].tat : i \in DOMAIN batch}
    BY <1>1
  <2>2. \A x : /\ below(x) = {i \in DOMAIN batch : batch[i].tat < x}
               /\ above(x) = {i \in DOMAIN batch : batch[i].tat > x}
    BY <1>1
  <2> HIDE DEF T, below, above
  <2> QED
    BY <2>1, <2>2 DEF Middle
<1>4. \A i \in I : tat[i] \in Nat /\ tat[i] \in T
  BY <1>1
<1>5. 1 \in I /\ T \subseteq Nat
  BY <1>1
<1> HIDE DEF tat, I
<1>6. IsFiniteSet(T) /\ T # {} /\ T \subseteq Int
  BY <1>2, <1>4, <1>5, ImageFinite
<1>7. Max(T) \in High
  <2>1. Max(T) \in T /\ \A y \in T : y <= Max(T)
    <3> HIDE DEF T
    <3> QED
      BY <1>6, Extremes
  <2>2. above(Max(T)) = {}
    <3> HIDE DEF T
    <3> SUFFICES ASSUME NEW i \in I, tat[i] > Max(T) PROVE FALSE
      OBVIOUS
    <3>1. tat[i] \in Nat /\ tat[i] \in T
      BY <1>4
    <3>2. Max(T) \in Nat /\ tat[i] <= Max(T)
      BY <1>5, <2>1, <3>1
    <3> QED
      BY <3>1, <3>2
  <2>3. Cardinality(above(Max(T))) = 0
    BY <2>2, FS_EmptySet
  <2> HIDE DEF above, T
  <2> QED
    BY <1>1, <2>1, <2>3
<1>8. IsFiniteSet(High) /\ High \subseteq Int
  <2> HIDE DEF T
  <2> QED
    BY <1>6, FS_Subset
<1>9. Min(High) \in High /\ \A y \in High : Min(High) <= y
  <2> HIDE DEF High
  <2> QED
    BY <1>7, <1>8, Extremes
<1>10. 2 * Cardinality(below(Min(High))) <= Repeats
  <2> DEFINE x == Min(High)
             B == below(x)
             L == {tat[i] : i \in B}
  <2> SUFFICES ASSUME ~(2 * Cardinality(B) <= Repeats) PROVE FALSE
    OBVIOUS
  <2>1. x \in High /\ x \in Int /\ \A y \in High : x <= y
    BY <1>8, <1>9
  <2> HIDE DEF x
  <2>2. B \in SUBSET I /\ IsFiniteSet(B)
    BY <1>2, FS_Subset
  <2>3. B # {}
    <3> SUFFICES ASSUME B = {} PROVE FALSE
      OBVIOUS
    <3>1. Cardinality(B) = 0
      BY FS_EmptySet
    <3> HIDE DEF B
    <3> QED
      BY <1>1, <3>1
  <2>4. IsFiniteSet(L) /\ L # {} /\ L \subseteq Int
    <3>1. IsFiniteSet(L)
      <4> HIDE DEF B
      <4> QED
        BY <2>2, ImageFinite
    <3>2. \A i \in B : tat[i] \in L /\ tat[i] \in Int
      BY <1>4, <2>2
    <3>3. L # {}
      BY <2>3, <3>2
    <3>4. L \subseteq Int
      BY <3>2
    <3> QED
      BY <3>1, <3>3, <3>4
  <2>5. Max(L) \in L /\ \A y \in L : y <= Max(L)
    <3> HIDE DEF L
    <3> QED
      BY <2>4, Extremes
  <2> DEFINE y == Max(L)
             A == above(y)
  <2>6. y \in T /\ y < x /\ y \in Int
    BY <1>4, <2>4, <2>5
  <2>7. \A i \in B : tat[i] <= y
    BY <2>5
  <2> HIDE DEF y
  <2>8. ~(2 * Cardinality(A) <= Repeats)
    <3>1. ~(x <= y)
      BY <2>1, <2>6
    <3> QED
      BY <2>1, <2>6, <3>1
  <2>9. A \in SUBSET I /\ A \cap B = {}
    BY <1>4, <2>6, <2>7
  <2> HIDE DEF A, B
  <2>10. /\ Cardinality(A) \in Nat /\ Cardinality(B) \in Nat
         /\ Cardinality(A) + Cardinality(B) <= Repeats
    BY <1>2, <2>2, <2>9, DisjointParts
  <2> QED
    BY <1>1, <2>8, <2>10
<1>11. Min(High) \in M
  BY <1>9, <1>10
<1>12. IsFiniteSet(M) /\ M \subseteq Int /\ M \subseteq Nat
  <2>1. M \subseteq High /\ High \subseteq Nat
    BY <1>5
  <2> HIDE DEF M, High
  <2> QED
    BY <1>8, <2>1, FS_Subset
<1> HIDE DEF M
<1>13. Min(M) \in M /\ Max(M) \in M
  BY <1>11, <1>12, Extremes
<1>14. Min(M) \in Nat /\ Max(M) \in Nat
  BY <1>12, <1>13
<1> QED
  BY <1>3, <1>14 DEF TwiceMedian

(* A batch that is neither an infrastructure error nor a failure succeeded. *)
LEMMA OkBatch ==
    ASSUME NEW batch, Status(batch) # "infrastructure_error", Status(batch) # "workload_failure"
    PROVE  batch # Unreadable /\ \A i \in DOMAIN batch : ~batch[i].failed
<1> DEFINE failed == {i \in DOMAIN batch : batch[i].failed}
<1>1. batch # Unreadable
  BY DEF Status
<1>2. failed = {}
  BY <1>1 DEF Status
<1> QED
  BY <1>1, <1>2

(* The plan covers finitely many thresholds; what was selected is best.     *)
BestInv ==
    /\ cases \in Cases
    /\ stage = "plan" => selection = Unselected
    /\ stage = "measure" => selection = Unselected
    /\ stage # "plan" => IsFiniteSet(DOMAIN plan) /\ DOMAIN plan # {} /\ DOMAIN plan \subseteq Nat
    /\ SelectionBest

(* The candidates are finitely many numbers (threshold_candidates).         *)
LEMMA ThresholdsFinite ==
    ASSUME cases \in Cases
    PROVE  IsFiniteSet(Thresholds) /\ Thresholds # {} /\ Thresholds \subseteq Nat
<1> DEFINE f == [t \in DOMAIN cases |-> cases[t].scalar]
           R == {f[t] : t \in DOMAIN cases}
<1>1. Top \in Nat /\ IsFiniteSet(DOMAIN cases) /\ \A t \in DOMAIN cases : cases[t].scalar \in 0 .. Top
  BY CalibrationAssumption, CaseAssumption
<1>2. IsFiniteSet(R)
  <2> HIDE DEF f
  <2> QED
    BY <1>1, ImageFinite
<1>3. R = {cases[t].scalar : t \in DOMAIN cases} /\ R \subseteq Nat
  BY <1>1
<1>4. Thresholds = {0, Top} \cup R
  BY <1>3 DEF Thresholds
<1>5. IsFiniteSet({0, Top})
  <2>1. 0 .. Top \subseteq Nat /\ IsFiniteSet(0 .. Top) /\ {0, Top} \subseteq 0 .. Top
    BY <1>1, FS_Interval
  <2> QED
    BY <2>1, FS_Subset
<1> HIDE DEF R
<1>6. IsFiniteSet({0, Top} \cup R)
  BY <1>2, <1>5, FS_Union
<1> QED
  BY <1>1, <1>3, <1>4, <1>6

(* There is a threshold that fails fewest.                                  *)
LEMMA FinalistsExist ==
    ASSUME IsFiniteSet(DOMAIN plan), DOMAIN plan # {}, DOMAIN plan \subseteq Nat
    PROVE  IsFiniteSet(Finalists) /\ Finalists # {} /\ Finalists \subseteq Int
<1> DEFINE few == [theta \in DOMAIN plan |-> 0 - Cardinality(Failures(theta))]
<1>1. \A theta \in DOMAIN plan : Cardinality(Failures(theta)) \in Nat
  <2> SUFFICES ASSUME NEW theta \in DOMAIN plan PROVE Cardinality(Failures(theta)) \in Nat
    OBVIOUS
  <2>1. Failures(theta) \subseteq Workloads /\ IsFiniteSet(Workloads)
    BY CalibrationAssumption DEF Failures
  <2> QED
    BY <2>1, FS_Subset, FS_CardinalityType
<1>2. \A theta \in DOMAIN plan : few[theta] \in Int /\ few[theta] = 0 - Cardinality(Failures(theta))
  BY <1>1
<1> HIDE DEF few
<1>3. PICK m \in DOMAIN plan : \A theta \in DOMAIN plan : few[theta] <= few[m]
  BY <1>2, Largest
<1>4. m \in Finalists
  <2>1. ASSUME NEW eta \in DOMAIN plan PROVE Cardinality(Failures(m)) <= Cardinality(Failures(eta))
    BY <1>1, <1>2, <1>3
  <2> QED
    BY <2>1 DEF Finalists
<1>5. Finalists \subseteq DOMAIN plan
  BY DEF Finalists
<1> QED
  BY <1>4, <1>5, FS_Subset

(* On workloads a threshold did not fail it has a time.                     *)
LEMMA ScoreIsNat ==
    ASSUME EvidenceInv, DOMAIN evidence = Requests,
           \A r \in Requests : Status(evidence[r]) # "infrastructure_error",
           NEW theta \in DOMAIN plan, NEW S \in SUBSET (Workloads \ Failures(theta))
    PROVE  Score(theta, S) \in Nat
<1> DEFINE f == [w \in S |-> TwiceMedian(evidence[<<w, plan[theta][w]>>])]
<1>1. ASSUME NEW w \in S PROVE TwiceMedian(evidence[<<w, plan[theta][w]>>]) \in Nat
  <2> DEFINE r == <<w, plan[theta][w]>>
  <2>1. w \in Workloads /\ Infeasible(plan[theta][w]) = {} /\ Status(evidence[r]) # "workload_failure"
    BY DEF Failures
  <2>2. r \in Requests
    BY <2>1 DEF Requests
  <2>3. evidence[r] \in Batches /\ Status(evidence[r]) # "infrastructure_error"
    BY <2>2 DEF EvidenceInv, Evidence
  <2> HIDE DEF r
  <2>4. evidence[r] # Unreadable /\ \A i \in DOMAIN evidence[r] : ~evidence[r][i].failed
    BY <2>1, <2>3, OkBatch DEF r
  <2>5. TwiceMedian(evidence[r]) \in Nat
    BY <2>3, <2>4, MiddleExists
  <2> QED
    BY <2>5 DEF r
<1>2. f \in [S -> Nat]
  BY <1>1
<1>3. IsFiniteSet(S)
  <2>1. S \subseteq Workloads /\ IsFiniteSet(Workloads)
    BY CalibrationAssumption
  <2> QED
    BY <2>1, FS_Subset
<1>4. Score(theta, S) = SumFunction(f)
  BY DEF Score
<1> HIDE DEF f
<1> QED
  BY <1>2, <1>3, <1>4, SumFunctionIsNat

(* So the least time decides, and at equal times the smaller threshold      *)
(* (select_threshold, calibration.py 145-156).                              *)
LEMMA WinnerIsBest ==
    ASSUME EvidenceInv, DOMAIN evidence = Requests,
           \A r \in Requests : Status(evidence[r]) # "infrastructure_error",
           IsFiniteSet(DOMAIN plan), DOMAIN plan # {}, DOMAIN plan \subseteq Nat,
           NEW S, S = Workloads \ UNION {Failures(theta) : theta \in Finalists}
    PROVE  /\ Winner(S) \in Finalists
           /\ \A eta \in Finalists :
                \/ Score(Winner(S), S) < Score(eta, S)
                \/ Score(Winner(S), S) = Score(eta, S) /\ Winner(S) <= eta
<1> DEFINE load == [theta \in Finalists |-> Score(theta, S)]
<1>1. IsFiniteSet(Finalists) /\ Finalists # {} /\ Finalists \subseteq Int /\ Finalists \subseteq DOMAIN plan
  BY FinalistsExist DEF Finalists
<1>2. ASSUME NEW theta \in Finalists PROVE load[theta] = Score(theta, S) /\ load[theta] \in Int
  <2>1. S \in SUBSET (Workloads \ Failures(theta)) /\ theta \in DOMAIN plan
    BY <1>1
  <2>2. Score(theta, S) \in Nat
    BY <2>1, ScoreIsNat
  <2> QED
    BY <2>2
<1> HIDE DEF load
<1>3. PICK theta \in Finalists : Least(Finalists, load, theta)
  BY <1>1, <1>2, LeastExists
<1>4. \A eta \in Finalists :
        \/ Score(theta, S) < Score(eta, S)
        \/ Score(theta, S) = Score(eta, S) /\ theta <= eta
  <2> SUFFICES ASSUME NEW eta \in Finalists
               PROVE  \/ Score(theta, S) < Score(eta, S)
                      \/ Score(theta, S) = Score(eta, S) /\ theta <= eta
    OBVIOUS
  <2>1. CASE eta = theta
    BY <1>1, <2>1
  <2>2. CASE eta # theta
    <3>1. load[theta] < load[eta] \/ (load[theta] = load[eta] /\ theta < eta)
      BY <1>3, <2>2 DEF Least
    <3> QED
      BY <1>1, <1>2, <3>1
  <2> QED
    BY <2>1, <2>2
<1> QED
  BY <1>4 DEF Winner

(* Failures and times depend on the plan and the evidence alone.            *)
LEMMA SameScores ==
    ASSUME plan' = plan, evidence' = evidence
    PROVE  /\ \A theta : Failures(theta)' = Failures(theta)
           /\ \A theta, S : Score(theta, S)' = Score(theta, S)
<1>1. ASSUME NEW theta PROVE Failures(theta)' = Failures(theta)
  BY DEF Failures, Infeasible, On
<1>2. ASSUME NEW theta, NEW S PROVE Score(theta, S)' = Score(theta, S)
  BY DEF Score
<1> QED
  BY <1>1, <1>2

(* Every action keeps the selection best.                                   *)
LEMMA BestStep == EvidenceInv /\ BestInv /\ [CalNext]_calVars => BestInv'
<1> SUFFICES ASSUME EvidenceInv, BestInv, [CalNext]_calVars PROVE BestInv'
  OBVIOUS
<1>1. CASE Plan
  <2>1. /\ DOMAIN plan' = Thresholds /\ cases' = cases /\ stage' = "measure"
        /\ selection' = Unselected
    BY <1>1 DEF Plan, BestInv
  <2>2. ~Resolved'
    BY <2>1 DEF Resolved, Unselected
  <2>3. cases \in Cases
    BY DEF BestInv
  <2> QED
    BY <2>1, <2>2, <2>3, ThresholdsFinite DEF BestInv, SelectionBest
<1>2. CASE Measure
  <2>1. /\ plan' = plan /\ cases' = cases /\ stage' = "measure" /\ stage = "measure"
        /\ selection' = Unselected
    BY <1>2 DEF Measure, BestInv
  <2>2. ~Resolved'
    BY <2>1 DEF Resolved, Unselected
  <2> QED
    BY <2>1, <2>2 DEF BestInv, SelectionBest
<1>3. CASE Select
  <2>1. /\ plan' = plan /\ evidence' = evidence /\ cases' = cases /\ stage' = "selected"
        /\ DOMAIN evidence = Requests /\ stage = "measure"
    BY <1>3 DEF Select
  <2>2. ASSUME Resolved' PROVE SelectionBest'
    <3> DEFINE S == Workloads \ UNION {Failures(theta) : theta \in Finalists}
    <3>1. (\A r \in Requests : Status(evidence[r]) # "infrastructure_error") /\ selection' = Selected
      BY <1>3, <2>2 DEF Select, Resolved, Unselected
    <3>2. S # {} /\ Selected.theta = Winner(S) /\ Selected.common = S
      <4>1. selection'.status \in {"complete", "partial_coverage"}
        BY <2>2 DEF Resolved
      <4> QED
        BY <3>1, <4>1 DEF Selected
    <3>3. IsFiniteSet(DOMAIN plan) /\ DOMAIN plan # {} /\ DOMAIN plan \subseteq Nat
      BY <2>1 DEF BestInv
    <3>4. /\ Winner(S) \in Finalists
          /\ \A eta \in Finalists :
               \/ Score(Winner(S), S) < Score(eta, S)
               \/ Score(Winner(S), S) = Score(eta, S) /\ Winner(S) <= eta
      BY <2>1, <3>1, <3>3, WinnerIsBest
    <3> DEFINE win == Winner(S)
    <3>5. ASSUME NEW eta \in DOMAIN plan
          PROVE  /\ Cardinality(Failures(win)) <= Cardinality(Failures(eta))
                 /\ Cardinality(Failures(win)) = Cardinality(Failures(eta)) =>
                      /\ S \cap Failures(eta) = {}
                      /\ \/ Score(win, S) < Score(eta, S)
                         \/ Score(win, S) = Score(eta, S) /\ win <= eta
      <4>1. \A theta \in DOMAIN plan : Cardinality(Failures(win)) <= Cardinality(Failures(theta))
        BY <3>4 DEF Finalists
      <4>2. ASSUME Cardinality(Failures(win)) = Cardinality(Failures(eta)) PROVE eta \in Finalists
        BY <4>1, <4>2 DEF Finalists
      <4>3. ASSUME eta \in Finalists PROVE S \cap Failures(eta) = {}
        BY <4>3
      <4> HIDE DEF win, S
      <4> QED
        BY <3>4, <4>1, <4>2, <4>3 DEF win
    <3> HIDE DEF win, S
    <3>6. selection'.theta = win /\ selection'.common = S
      BY <3>1, <3>2 DEF win
    <3> QED
      BY <2>1, <3>5, <3>6, SameScores DEF SelectionBest
  <2> QED
    BY <2>1, <2>2 DEF BestInv, SelectionBest
<1>4. CASE Deploy \/ UNCHANGED calVars
  <2>1. /\ plan' = plan /\ evidence' = evidence /\ cases' = cases /\ selection' = selection
        /\ stage' = stage \/ (stage = "selected" /\ stage' = "deployed")
    BY <1>4 DEF Deploy, calVars
  <2>2. SelectionBest'
    BY <2>1, SameScores DEF BestInv, SelectionBest, Resolved
  <2> QED
    BY <2>1, <2>2 DEF BestInv
<1> QED
  BY <1>1, <1>2, <1>3, <1>4 DEF CalNext

(* The calibration selects the threshold that fails fewest workloads and,   *)
(* among those, is fastest where all of them succeed, the smallest among    *)
(* equals (select_threshold, calibration.py 125-161), for every population  *)
(* and every measured outcome.                                              *)
THEOREM SelectionIsBest == CalSpec => []SelectionBest
<1>1. CalInit => BestInv
  BY DEF CalInit, BestInv, SelectionBest, Resolved, Unselected
<1>2. BestInv => SelectionBest
  BY DEF BestInv
<1> QED
  BY <1>1, <1>2, EvidenceInit, EvidenceStep, BestStep, PTL DEF CalSpec
=============================================================================
