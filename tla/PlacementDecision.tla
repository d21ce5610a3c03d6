-------------------------- MODULE PlacementDecision --------------------------
(***************************************************************************)
(* The pre-run decision of chaser/policy/pfirst: nominal() of the          *)
(* partitioned capacity, the release-aware search of CHASER's placement    *)
(* (release_aware_grouped and _descend), the candidates and the choice of  *)
(* decision.py.                                                            *)
(*                                                                         *)
(* The search tries moves and swaps in a fixed order and takes each one    *)
(* that lowers the cost; a step of the model is the next trial that does.  *)
(* What the seeded random generator draws is any start within the          *)
(* constraint, what the forest predicts is any probability.                *)
(***************************************************************************)
EXTENDS Placement

CONSTANTS Tasks,         \* 1 .. n
          TaskValues,    \* the records [u, period, low] a task may be
          Restarts,
          Domains,       \* core partitions of the Global and Clustered candidates, in name order
          Probabilities, Tau

Chaser == 0

ASSUME DecisionAssumption ==
    /\ IsFiniteSet(Tasks) /\ Tasks # {} /\ Tasks = 1 .. Cardinality(Tasks)
    /\ Restarts \in Nat \ {0} /\ Tau \in Nat \ {0} /\ Probabilities \subseteq Nat
    /\ Chaser \notin DOMAIN Domains
    /\ \A v \in TaskValues : v.u \in Nat /\ v.period \in Nat \ {0}

VARIABLES
    tasks,      \* the task set
    pc,
    check,      \* status of the nominal check
    allowed,    \* where the search may put each task
    assign,     \* the placement being improved
    cursor,     \* last trial taken in this pass
    improved,   \* the pass took a trial
    left,       \* descents still to do
    champion,   \* best result of a descent, <<>> before the first
    offered,    \* candidates: 0 is CHASER's placement, k is Domains[k]
    outcome     \* status and choice

vars == <<tasks, pc, check, allowed, assign, cursor, improved, left, champion, offered, outcome>>
search == <<allowed, assign, cursor, improved, left, champion>>

Undecided == [status |-> "none", choice |-> Chaser]

(* Moves <<0, task, core>>, then swaps <<1, task, later task>>, in the      *)
(* order of the loops.                                                      *)
Trials == {<<0, i, c>> : i \in Tasks, c \in Cores} \cup {t \in {1} \X Tasks \X Tasks : t[2] < t[3]}
Origin == <<0, 0, 0>>
Before(s, t) == \/ s[1] < t[1]
                \/ s[1] = t[1] /\ s[2] < t[2]
                \/ s[1] = t[1] /\ s[2] = t[2] /\ s[3] < t[3]

Applied(a, t) == IF t[1] = 0 THEN [a EXCEPT ![t[2]] = t[3]]
                 ELSE [a EXCEPT ![t[2]] = a[t[3]], ![t[3]] = a[t[2]]]

\* Mutant: a swap checks only where its first task goes.
Permitted_OneSide(a, t) == Applied(a, t)[t[2]] \in allowed[t[2]]

Permitted(a, t) ==
    /\ Applied(a, t)[t[2]] \in allowed[t[2]]
    /\ t[1] = 1 => Applied(a, t)[t[3]] \in allowed[t[3]]

Lowers(a, t) == Permitted(a, t) /\ Cost(tasks, Applied(a, t)) < Cost(tasks, a)
Ahead == {t \in Trials : Before(cursor, t) /\ Lowers(assign, t)}

Init ==
    /\ tasks \in [Tasks -> TaskValues]
    /\ pc = "nominal" /\ check = "none"
    /\ allowed = <<>> /\ assign = <<>> /\ cursor = Origin /\ improved = FALSE /\ left = 0
    /\ champion = <<>>
    /\ offered = {} /\ outcome = Undecided
-----------------------------------------------------------------------------
\* Mutant: a total that equals the capacity counts as too much.
TooMuch_Full(ts) ==
    \/ \E i \in DOMAIN ts : ts[i].u > Cap
    \/ U(ts, DOMAIN ts) >= Cardinality(Cores) * Cap

TooMuch(ts) ==
    \/ \E i \in DOMAIN ts : ts[i].u > Cap
    \/ U(ts, DOMAIN ts) > Cardinality(Cores) * Cap

NominalStatus(ts) == IF TooMuch(ts) THEN "proven_infeasible"
                     ELSE IF Valid(ts, Wfd(ts)) THEN "feasible" ELSE "unknown"

Nominal ==
    /\ pc = "nominal"
    /\ check' = NominalStatus(tasks)
    /\ IF check' = "feasible"
       THEN /\ pc' = "descend" /\ assign' = Grouped(tasks) /\ left' = Restarts
            /\ allowed' = [i \in Tasks |-> Allowed(tasks, i)]
            /\ UNCHANGED <<cursor, improved, champion>>
       ELSE pc' = "candidates" /\ UNCHANGED search
    /\ UNCHANGED <<tasks, offered, outcome>>

Improve ==
    /\ pc = "descend"
    /\ LET ahead == Ahead IN \E t \in ahead :
         /\ \A s \in ahead : s = t \/ Before(t, s)
         /\ assign' = Applied(assign, t) /\ cursor' = t
    /\ improved' = TRUE
    /\ UNCHANGED <<tasks, pc, check, allowed, left, champion, offered, outcome>>

NextPass ==
    /\ pc = "descend" /\ Ahead = {} /\ improved
    /\ cursor' = Origin /\ improved' = FALSE
    /\ UNCHANGED <<tasks, pc, check, allowed, assign, left, champion, offered, outcome>>

\* Mutant: one pass is enough.
DescentEnds_OnePass ==
    /\ pc = "descend" /\ Ahead = {}
    /\ champion' = IF champion = <<>> \/ Cost(tasks, assign) < Cost(tasks, champion)
                   THEN assign ELSE champion
    /\ left' = left - 1 /\ cursor' = Origin /\ improved' = FALSE
    /\ \/ /\ left' > 0
          /\ assign' \in {a \in [Tasks -> Cores] : \A i \in Tasks : a[i] \in allowed[i]}
          /\ UNCHANGED pc
       \/ left' = 0 /\ pc' = "candidates" /\ UNCHANGED assign
    /\ UNCHANGED <<tasks, check, allowed, offered, outcome>>

DescentEnds ==
    /\ pc = "descend" /\ Ahead = {} /\ ~improved
    /\ champion' = IF champion = <<>> \/ Cost(tasks, assign) < Cost(tasks, champion)
                   THEN assign ELSE champion
    /\ left' = left - 1 /\ cursor' = Origin /\ UNCHANGED improved
    /\ \/ /\ left' > 0
          /\ assign' \in {a \in [Tasks -> Cores] : \A i \in Tasks : a[i] \in allowed[i]}
          /\ UNCHANGED pc
       \/ left' = 0 /\ pc' = "candidates" /\ UNCHANGED assign
    /\ UNCHANGED <<tasks, check, allowed, offered, outcome>>

(* candidates(): CHASER's placement if it is valid, and every partition    *)
(* whose domains hold the WFD loads they cover.                            *)
DomainFits(k) == \A d \in Domains[k] :
    U(tasks, {i \in Tasks : Wfd(tasks)[i] \in d}) <= Cardinality(d) * Cap

\* Mutant: the search's result is offered as it is.
Offered_Unchecked ==
    {k \in {Chaser} : check = "feasible"} \cup {k \in DOMAIN Domains : DomainFits(k)}

Offered ==
    {k \in {Chaser} : check = "feasible" /\ Valid(tasks, champion)}
      \cup {k \in DOMAIN Domains : DomainFits(k)}

Candidates ==
    /\ pc = "candidates"
    /\ offered' = Offered
    /\ pc' = "choose"
    /\ UNCHANGED <<tasks, check, search, outcome>>

(* choose(): P when it reaches tau, else the most likely other candidate    *)
(* that does, the last by name among equals.                                *)
Chosen(prob) ==
    LET likely == {k \in offered \ {Chaser} : prob[k] >= Tau}
    IN IF Chaser \in offered /\ prob[Chaser] >= Tau THEN {[status |-> "P", choice |-> Chaser]}
       ELSE IF likely = {} THEN {[status |-> "rejected", choice |-> Chaser]}
       ELSE [status : {"fallback_gc"},
             choice : {k \in likely : \A l \in likely : prob[k] > prob[l] \/ (prob[k] = prob[l] /\ k >= l)}]

Decide ==
    /\ pc = "choose" /\ pc' = "done"
    /\ \/ /\ check = "unknown"
          /\ outcome' = [status |-> "deferred", choice |-> Chaser]
       \/ /\ check # "unknown"
          /\ \E prob \in [offered -> Probabilities] : outcome' \in Chosen(prob)
    /\ UNCHANGED <<tasks, check, search, offered>>

Next == Nominal \/ Improve \/ NextPass \/ DescentEnds \/ Candidates \/ Decide

Spec == Init /\ [][Next]_vars
-----------------------------------------------------------------------------
(* Properties.                                                             *)

(* An accepted configuration fits: CHASER's placement keeps every core      *)
(* within the nominal capacity although the search may trade capacity for   *)
(* cost, and a Global or Clustered one keeps every domain within its own.   *)
(* (decision.py 6-9.)                                                       *)
AcceptedFits ==
    /\ outcome.status = "P" => Valid(tasks, champion)
    /\ outcome.status = "fallback_gc" => DomainFits(outcome.choice)

(* The nominal check never proves infeasible what some placement satisfies  *)
(* (nominal, placement.py 50: "a task or the total exceeds the capacity").  *)
NominalSound ==
    check = "proven_infeasible" => ~\E a \in [Tasks -> Cores] : Valid(tasks, a)

(* Through every move, swap and restart the low-affinity tasks stay on the  *)
(* cores the balanced grouping gave them (placement.py 132: "low-CLS tasks  *)
(* kept on the group's cores").                                             *)
GroupKept ==
    \A a \in {assign, champion} : a # <<>> /\ Mixed(tasks) =>
      \A i \in Low(tasks) : \E j \in Low(tasks) : a[i] = Grouped(tasks)[j]

(* The champion is a local optimum, no costlier than the balanced grouping  *)
(* the search started from.                                                 *)
ChampionOptimal ==
    champion # <<>> => /\ ~\E t \in Trials : Lowers(champion, t)
                       /\ Cost(tasks, champion) <= Cost(tasks, Grouped(tasks))
=============================================================================
