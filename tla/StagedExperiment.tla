-------------------------- MODULE StagedExperiment --------------------------
(***************************************************************************)
(* A staged experiment: a supervisor script runs the stages of hl_run.py   *)
(* (through pm_run.py) in order, each stage a process that runs a batch of *)
(* simulators in a thread pool; it may be stopped at any step and resumed  *)
(* from a stage it reached, while somebody edits the simulator or the      *)
(* prepared files, and a second supervisor polls the first one's exit file.*)
(*                                                                         *)
(* Two designs: "deadline" predicts before the first run of any kind       *)
(* (deadline_analysis.py predict), "confirm" decides after the isolated    *)
(* runs and before the measured ones (confirm_decide.py).                  *)
(***************************************************************************)
EXTENDS Naturals, Sequences, FiniteSets

CONSTANTS Cases,       \* task sets
          PilotCases,  \* set 0 of every cell
          Keys,        \* build and architecture of a measured run
          Workers,     \* threads of the pool
          InfraLimit,  \* MAX_INFRA_FAILURES
          LogKinds,    \* what a simulator's log may hold
          MaxStarts, MaxStops, MaxChanges  \* bounds: starts, kills, edits

Isolated == PilotCases \X {"isolated"}
Measured == Cases \X Keys
Runs == Isolated \cup Measured
Jobs == Runs \cup Cases

(* The content of a run directory: without measurements.jsonl ("bare"),     *)
(* with an empty file, with a truncated line, or with a row. "changed" is a *)
(* good log whose second input check failed; "partial" a log without the    *)
(* end marker, "unstarted" a first check that failed: both have no header.  *)
Headed == {"ok", "deadline", "startup", "other", "changed"}
Rows == Headed \cup {"partial", "unstarted"}
Contents == Rows \cup {"absent", "bare", "empty", "torn"}
HasRecords(x) == x \notin {"absent", "bare"}

Order == [deadline |-> <<"prepare", "predict", "isolated", "pilot", "full">>,
          confirm  |-> <<"prepare", "isolated", "decide", "pilot", "full">>]

ASSUME StagesAssumption ==
    /\ IsFiniteSet(Cases) /\ Cases # {} /\ PilotCases \subseteq Cases
    /\ IsFiniteSet(Keys) /\ "isolated" \notin Keys /\ Cases \cap Runs = {}
    /\ InfraLimit \in Nat \ {0}
    /\ LogKinds \subseteq {"ok", "deadline", "startup", "other", "partial"}
    /\ MaxStarts \in Nat /\ MaxStops \in Nat /\ MaxChanges \in Nat

VARIABLES
    design,     \* which supervisor script
    caseDir,    \* prepared task set: absent, partial or built
    protocol,   \* protocol.json: none, base (hl_run's) or full (pm_run's)
    dir,        \* content of each run's directory
    aside,      \* contents of its .aborted-N directories
    decisions,  \* times the prediction was written
    seal,       \* the prediction its sha256 file belongs to
    results,    \* state of each run in results.jsonl
    exitFile,   \* supervisor.exit: none, empty, "0" or "1"
    sup,        \* the supervisor: pc, stage index, status
    reached,    \* first stage that has not succeeded, or was killed since
    stage,      \* what the running stage does next, or "none"
    job,        \* the pool's work
    infra,      \* header-less runs the stage's main thread has counted
    raised,     \* an exception is on its way through the pool's exit
    succ,       \* the supervisor that waits for this one
    intact,     \* prepared files still match their manifest
    tainted,    \* runs an edit happened under
    starts, stops, changes

files == <<caseDir, protocol, dir, aside, decisions, seal, results>>
pool == <<stage, job, infra, raised>>
world == <<intact, tainted, changes>>
vars == <<design, files, exitFile, sup, reached, pool, succ, world, starts, stops>>

Stages == Order[design]
Working == {"bare", "running"}
Busy == {j \in Jobs : job[j] \in Working}
Free == Cardinality(Busy) < Workers

Init ==
    /\ design \in DOMAIN Order
    /\ caseDir = [c \in Cases |-> "absent"]
    /\ protocol = "none"
    /\ dir = [r \in Runs |-> "absent"]
    /\ aside = [r \in Runs |-> <<>>]
    /\ decisions = 0 /\ seal = 0
    /\ results = [r \in Measured |-> "absent"]
    /\ exitFile = "none"
    /\ sup = [pc |-> "idle", at |-> 1, status |-> 0]
    /\ reached = 1
    /\ stage = "none"
    /\ job = [j \in Jobs |-> "idle"]
    /\ infra = 0 /\ raised = FALSE
    /\ succ = "waiting"
    /\ intact = TRUE /\ tainted = {} /\ changes = 0
    /\ starts = 0 /\ stops = 0
-----------------------------------------------------------------------------
(* The supervisor script and the operator.                                 *)

Start(i) ==
    /\ sup.pc = "idle" /\ starts < MaxStarts
    /\ i \in 1 .. Len(Stages) /\ i <= reached
    /\ sup' = [pc |-> "run", at |-> i, status |-> 0]
    /\ starts' = starts + 1
    /\ UNCHANGED <<design, files, exitFile, reached, pool, succ, world, stops>>

EndStage(code) ==
    /\ stage' = "none"
    /\ job' = [j \in Jobs |-> "idle"]
    /\ infra' = 0 /\ raised' = FALSE
    /\ reached' = IF code = 0 /\ sup.at = reached THEN reached + 1 ELSE reached
    /\ sup' = IF code = 0 /\ sup.at < Len(Stages)
              THEN [sup EXCEPT !.at = @ + 1]
              ELSE [sup EXCEPT !.pc = "exit", !.status = code]
    /\ UNCHANGED <<design, exitFile, succ, world, starts, stops>>

OpenExitFile ==
    /\ sup.pc = "exit"
    /\ exitFile' = "empty"
    /\ sup' = [sup EXCEPT !.pc = "write"]
    /\ UNCHANGED <<design, files, reached, pool, succ, world, starts, stops>>

WriteExitFile ==
    /\ sup.pc = "write"
    /\ exitFile' = IF sup.status = 0 THEN "0" ELSE "1"
    /\ sup' = [sup EXCEPT !.pc = "idle"]
    /\ UNCHANGED <<design, files, reached, pool, succ, world, starts, stops>>

\* Mutant: the file is enough.
Poll_AnyStatus ==
    /\ design = "deadline" /\ succ = "waiting" /\ exitFile # "none"
    /\ succ' = "started"
    /\ UNCHANGED <<design, files, exitFile, sup, reached, pool, world, starts, stops>>

(* The next experiment's supervisor polls the file; any content but 0 ends it. *)
Poll ==
    /\ design = "deadline" /\ succ = "waiting" /\ exitFile # "none"
    /\ succ' = IF exitFile = "0" THEN "started" ELSE "refused"
    /\ UNCHANGED <<design, files, exitFile, sup, reached, pool, world, starts, stops>>
-----------------------------------------------------------------------------
(* A stage starts: the pool is filled, or the stage refuses.               *)

Fill(next, jobs) ==
    /\ stage' = next
    /\ job' = [j \in Jobs |-> IF j \in jobs THEN "todo" ELSE "idle"]
    /\ UNCHANGED <<design, files, exitFile, sup, reached, infra, raised, succ, world, starts, stops>>

Starting(name) == sup.pc = "run" /\ stage = "none" /\ Stages[sup.at] = name

ChecksProtocol == protocol # "none" /\ \A c \in Cases : caseDir[c] = "built"

RunsOf(name) == CASE name = "isolated" -> Isolated
                  [] name = "pilot" -> PilotCases \X Keys
                  [] name = "full" -> (Cases \ PilotCases) \X Keys

StartPrepare == Starting("prepare") /\ Fill("prepare", Cases)

StartRuns(name) ==
    /\ Starting(name)
    /\ \/ ChecksProtocol /\ Fill(name, RunsOf(name))
       \/ ~ChecksProtocol /\ EndStage(1) /\ UNCHANGED files

(* The runs whose records make the prediction stage refuse: every directory *)
(* name below the case counts, an aborted one's too.                        *)
Counted == IF design = "deadline" THEN Runs ELSE Measured

\* Mutant: only rows with a header count.
RunsExist_Headed == \E r \in Counted : dir[r] \in Headed

RunsExist ==
    \E r \in Counted : HasRecords(dir[r]) \/ \E i \in DOMAIN aside[r] : HasRecords(aside[r][i])

Predict ==
    /\ Starting("predict")
    /\ \/ RunsExist /\ EndStage(1) /\ UNCHANGED files
       \/ /\ ~RunsExist
          /\ EndStage(0)
          /\ decisions' = decisions + 1
          /\ seal' = decisions'
          /\ UNCHANGED <<caseDir, protocol, dir, aside, results>>

Decide ==
    /\ Starting("decide")
    /\ \/ RunsExist /\ EndStage(1) /\ UNCHANGED files
       \/ /\ ~RunsExist
          /\ decisions' = decisions + 1
          /\ stage' = "seal"
          /\ UNCHANGED <<design, caseDir, protocol, dir, aside, seal, results, exitFile, sup,
                         reached, job, infra, raised, succ, world, starts, stops>>

Seal ==
    /\ stage = "seal"
    /\ EndStage(0)
    /\ seal' = decisions
    /\ UNCHANGED <<caseDir, protocol, dir, aside, decisions, results>>
-----------------------------------------------------------------------------
(* The pool of the prepare stage.                                          *)

Moves(j, from, to) ==
    /\ job[j] = from
    /\ job' = [job EXCEPT ![j] = to]
    /\ UNCHANGED <<design, exitFile, sup, reached, stage, infra, raised, succ, starts, stops>>

PrepareCase(c) ==
    /\ Free
    /\ UNCHANGED <<protocol, dir, aside, decisions, seal, results, world>>
    /\ \/ caseDir[c] # "absent" /\ Moves(c, "todo", "error") /\ UNCHANGED caseDir
       \/ /\ caseDir[c] = "absent" /\ Moves(c, "todo", "bare")
          /\ caseDir' = [caseDir EXCEPT ![c] = "partial"]

BuildCase(c) ==
    /\ Moves(c, "bare", "row")
    /\ caseDir' = [caseDir EXCEPT ![c] = "built"]
    /\ UNCHANGED <<protocol, dir, aside, decisions, seal, results, world>>
-----------------------------------------------------------------------------
(* The pool of a measuring stage: execute() of run.py, run() of            *)
(* rtems_periodic.py.                                                      *)

\* Mutant: the directory is removed instead of renamed.
MovedAside_Deletes(r) == aside

\* Mutant: a directory that does not exist is renamed, too.
MovedAside_Absent(r) == [aside EXCEPT ![r] = Append(@, dir[r])]

MovedAside(r) == IF dir[r] = "absent" THEN aside ELSE [aside EXCEPT ![r] = Append(@, dir[r])]

(* completed(): a row with a header is kept, a truncated line raises.      *)
FindRow(r) ==
    /\ Free
    /\ \/ dir[r] \in Headed /\ Moves(r, "todo", "row")
       \/ dir[r] = "torn" /\ Moves(r, "todo", "error")
    /\ UNCHANGED <<files, world>>

BeginRun(r) ==
    /\ Free /\ dir[r] \notin Headed \cup {"torn"}
    /\ aside' = MovedAside(r)
    /\ \/ intact /\ Moves(r, "todo", "bare") /\ dir' = [dir EXCEPT ![r] = "bare"]
       \/ ~intact /\ Moves(r, "todo", "error") /\ dir' = [dir EXCEPT ![r] = "absent"]
    /\ tainted' = tainted \ {r}
    /\ UNCHANGED <<caseDir, protocol, decisions, seal, results, intact, changes>>

Unchanged(r) == intact /\ r \notin tainted

Launch(r) ==
    /\ \/ Unchanged(r) /\ Moves(r, "bare", "running") /\ dir' = [dir EXCEPT ![r] = "empty"]
       \/ ~Unchanged(r) /\ Moves(r, "bare", "infra") /\ dir' = [dir EXCEPT ![r] = "unstarted"]
    /\ UNCHANGED <<caseDir, protocol, aside, decisions, seal, results, world>>

\* Mutant: no second check after the run.
RowOf_NoSecondCheck(log, r) == log

RowOf(log, r) == IF log = "ok" /\ ~Unchanged(r) THEN "changed" ELSE log

Finish(r) == \E log \in LogKinds :
    /\ Moves(r, "running", IF log \in Headed THEN "row" ELSE "infra")
    /\ dir' = [dir EXCEPT ![r] = RowOf(log, r)]
    /\ UNCHANGED <<caseDir, protocol, aside, decisions, seal, results, world>>

\* Mutant: the limit itself is tolerated.
Handle_OneMore(j) ==
    /\ ~raised /\ job[j] \in {"row", "infra", "error"}
    /\ LET stopped == job[j] = "infra" /\ infra + 1 > InfraLimit IN
       /\ job' = [k \in Jobs |-> IF k = j \/ (stopped /\ job[k] = "todo") THEN "idle" ELSE job[k]]
       /\ raised' = (stopped \/ job[j] = "error")
    /\ infra' = IF job[j] = "infra" THEN infra + 1 ELSE infra
    /\ UNCHANGED <<design, files, exitFile, sup, reached, stage, succ, world, starts, stops>>

(* run_specs(): the main thread takes the results as they complete. At the  *)
(* limit it cancels what has not started; after another exception the pool  *)
(* still runs everything that is queued.                                    *)
Handle(j) ==
    /\ ~raised /\ job[j] \in {"row", "infra", "error"}
    /\ LET stopped == job[j] = "infra" /\ infra + 1 >= InfraLimit IN
       /\ job' = [k \in Jobs |-> IF k = j \/ (stopped /\ job[k] = "todo") THEN "idle" ELSE job[k]]
       /\ raised' = (stopped \/ job[j] = "error")
    /\ infra' = IF job[j] = "infra" THEN infra + 1 ELSE infra
    /\ UNCHANGED <<design, files, exitFile, sup, reached, stage, succ, world, starts, stops>>
-----------------------------------------------------------------------------
(* After the pool.                                                         *)

\* Mutant: after an exception the main thread waits for results nobody takes.
Drained_AllTaken == \A j \in Jobs : job[j] = "idle"

Drained == \A j \in Jobs : job[j] \notin Working \cup {"todo"} /\ (raised \/ job[j] = "idle")

PoolRaises ==
    /\ stage \in {"prepare", "isolated", "pilot", "full"} /\ raised /\ Drained
    /\ EndStage(1) /\ UNCHANGED files

(* hl_run's protocol.json, then pm_run's second version of it.             *)
WriteProtocol ==
    /\ stage = "prepare" /\ ~raised /\ Drained
    /\ protocol' = "base"
    /\ stage' = "extend"
    /\ UNCHANGED <<design, caseDir, dir, aside, decisions, seal, results, exitFile, sup,
                   reached, job, infra, raised, succ, world, starts, stops>>

ExtendProtocol ==
    /\ stage = "extend"
    /\ EndStage(0)
    /\ protocol' = "full"
    /\ UNCHANGED <<caseDir, dir, aside, decisions, seal, results>>

(* load_batch() raises on changed inputs, on a file without its one row and *)
(* on a row without a log.                                                  *)
Loads(r) == intact /\ dir[r] \in Rows \ {"unstarted"}

RunState(x) == CASE x \in {"startup", "changed", "unstarted"} -> "startup"
                 [] x \in {"other", "partial"} -> "other"
                 [] OTHER -> x

GateIsolated ==
    /\ stage = "isolated" /\ ~raised /\ Drained
    /\ UNCHANGED files
    /\ \/ EndStage(1)   \* a header-less or failed run, or a utilization out of tolerance
       \/ /\ infra = 0
          /\ \A r \in Isolated : Loads(r) /\ RunState(dir[r]) \in {"ok", "startup"}
          /\ EndStage(0)

Summarized == {r \in Measured : \A k \in Keys : HasRecords(dir[<<r[1], k>>])}
Summary == [r \in Measured |-> IF r \in Summarized THEN RunState(dir[r]) ELSE "absent"]

Summarize ==
    /\ stage \in {"pilot", "full"} /\ ~raised /\ Drained
    /\ UNCHANGED <<caseDir, protocol, dir, aside, decisions, seal>>
    /\ \/ /\ \E r \in Summarized : ~Loads(r)
          /\ EndStage(1) /\ UNCHANGED results
       \/ /\ \A r \in Summarized : Loads(r)
          /\ results' = Summary
          /\ EndStage(IF stage = "pilot" /\ \E r \in Measured : Summary[r] = "other" THEN 1 ELSE 0)
-----------------------------------------------------------------------------
(* What happens around the program.                                        *)

(* A kill of the stage alone, or of the supervisor with it. A line being    *)
(* written may be cut.                                                      *)
Stop ==
    /\ sup.pc # "idle" /\ stops < MaxStops
    /\ stops' = stops + 1
    /\ \E torn \in SUBSET {r \in Runs : job[r] = "running"} :
         dir' = [r \in Runs |-> IF r \in torn THEN "torn" ELSE dir[r]]
    /\ stage' = "none" /\ job' = [j \in Jobs |-> "idle"] /\ infra' = 0 /\ raised' = FALSE
    /\ reached' = IF stage # "none" /\ sup.at < reached THEN sup.at ELSE reached
    /\ \/ sup' = [sup EXCEPT !.pc = "idle"]
       \/ stage # "none" /\ sup' = [sup EXCEPT !.pc = "exit", !.status = 1]
    /\ UNCHANGED <<design, caseDir, protocol, aside, decisions, seal, results, exitFile,
                   succ, world, starts>>

Edit ==
    /\ changes < MaxChanges
    /\ changes' = changes + 1
    /\ tainted' = tainted \cup (Busy \cap Runs)
    /\ \/ Busy \cap Runs # {} /\ UNCHANGED intact  \* the simulator: no other run sees it
       \/ intact' = FALSE /\ \A c \in Cases : caseDir[c] = "built"  \* a prepared file
    /\ UNCHANGED <<design, files, exitFile, sup, reached, pool, succ, starts, stops>>
-----------------------------------------------------------------------------
Pool == \/ \E c \in Cases : PrepareCase(c) \/ BuildCase(c)
        \/ \E r \in Runs : FindRow(r) \/ BeginRun(r) \/ Launch(r) \/ Finish(r)

Main == \/ StartPrepare \/ \E name \in {"isolated", "pilot", "full"} : StartRuns(name)
        \/ Predict \/ Decide \/ Seal
        \/ \E j \in Jobs : Handle(j)
        \/ PoolRaises \/ WriteProtocol \/ ExtendProtocol \/ GateIsolated \/ Summarize
        \/ OpenExitFile \/ WriteExitFile

Next == Main \/ Pool \/ Stop \/ Edit \/ Poll \/ \E i \in 1 .. 5 : Start(i)

Spec == Init /\ [][Next]_vars

(* The operating system runs the main thread and the workers, a simulator  *)
(* ends or is killed by timeout(1), and the second supervisor keeps polling.*)
FairSpec == Spec /\ WF_vars(Main) /\ WF_vars(Pool) /\ WF_vars(Poll)
-----------------------------------------------------------------------------
(* Properties.                                                             *)

(* Every variable has its type.                                            *)
TypeOK ==
    /\ design \in DOMAIN Order
    /\ caseDir \in [Cases -> {"absent", "partial", "built"}]
    /\ protocol \in {"none", "base", "full"}
    /\ dir \in [Runs -> Contents]
    /\ aside \in [Runs -> Seq(Contents \ (Headed \cup {"absent", "torn"}))]
    /\ decisions \in Nat /\ seal \in Nat
    /\ results \in [Measured -> {"absent", "ok", "deadline", "startup", "other"}]
    /\ exitFile \in {"none", "empty", "0", "1"}
    /\ sup \in [pc : {"idle", "run", "exit", "write"}, at : 1 .. 5, status : {0, 1}]
    /\ reached \in 1 .. 6
    /\ stage \in {"none", "prepare", "extend", "isolated", "seal", "pilot", "full"}
    /\ job \in [Jobs -> {"idle", "todo", "bare", "running", "row", "infra", "error"}]
    /\ infra \in Nat /\ raised \in BOOLEAN
    /\ succ \in {"waiting", "started", "refused"}
    /\ intact \in BOOLEAN /\ tainted \subseteq Runs
    /\ changes \in 0 .. MaxChanges /\ starts \in 0 .. MaxStarts /\ stops \in 0 .. MaxStops

(* The prediction comes before the runs it is about and is the one its hash *)
(* was written for, the task sets are complete and the protocol is pm_run's *)
(* when they begin: through every stop and every choice of stages.          *)
Begun == {r \in Counted : HasRecords(dir[r]) \/ \E i \in DOMAIN aside[r] : HasRecords(aside[r][i])}
RunsAfterPrediction ==
    Begun # {} => /\ decisions > 0 /\ seal = decisions
                  /\ protocol = "full" /\ \A c \in Cases : caseDir[c] = "built"

(* A row that says ok, and a result computed from it, comes from a run      *)
(* under which neither the inputs nor the simulator changed (the second     *)
(* check of run(), load_batch() and the choice of what completed() keeps).  *)
CleanEvidence ==
    /\ \A r \in Runs : dir[r] = "ok" => r \notin tainted
    /\ \A r \in Measured : results[r] = "ok" => dir[r] = "ok"

(* What a stage that exited 0 leaves behind: the gate has seen every        *)
(* isolated run, every pilot run has a header and a known state, and the    *)
(* full stage let fewer than MAX_INFRA_FAILURES runs pass without header.   *)
Passed(name) == \E i \in 1 .. reached - 1 : Stages[i] = name
IsolatedSeen == \A r \in Isolated : dir[r] \in {"ok", "startup", "changed"}
PilotSeen == \A r \in RunsOf("pilot") : dir[r] \in Headed \ {"other"}
FullSeen == Cardinality({r \in RunsOf("full") : dir[r] \notin Headed}) < InfraLimit
StagesLeaveEvidence ==
    /\ Passed("isolated") => IsolatedSeen
    /\ Passed("pilot") => PilotSeen
    /\ Passed("full") => FullSeen

(* The waiting supervisor starts only when every stage of this experiment   *)
(* has left its evidence (deadline-ladder-v1.sh 7-8: "starts only if it     *)
(* exited 0"), however old the exit file is.                                *)
StartsAfterSuccess == succ = "started" => IsolatedSeen /\ PilotSeen /\ FullSeen

(* No record is ever lost: it stays where it is, or moves aside whole, and  *)
(* a directory set aside is never touched again (run.py 9-10).              *)
NoRecordLost ==
    [][\A r \in Runs :
         /\ dir[r] \in Headed => dir'[r] = dir[r]
         /\ dir[r] \in {"empty", "partial", "unstarted"} /\ dir'[r] # dir[r] =>
               job[r] = "running" \/ aside'[r] = Append(aside[r], dir[r])
         /\ \A i \in DOMAIN aside[r] : i \in DOMAIN aside'[r] /\ aside'[r][i] = aside[r][i]]_vars

(* The prediction is frozen first and evidence is never replaced.          *)
Registered == INSTANCE PreRegistration WITH
    Predicted <- Runs, Evidence <- Headed, frozen <- decisions, begun <- Begun,
    kept <- [r \in Runs |-> IF r \in Counted /\ dir[r] \in Headed THEN dir[r] ELSE "none"]
RegisteredSpec == Registered!Spec

(* Every attempt ends with an exit file or a kill: the pool drains also     *)
(* when it is cancelled at the infrastructure limit or an exception passes. *)
AttemptEnds == sup.pc = "run" ~> sup.pc = "idle"

(* bi_run.py 169-170: a level that failed only at startup takes the model's *)
(* utilization, "any other failure stops the stage".                        *)
OnlyStartupTolerated == Passed("isolated") => \A r \in Isolated : dir[r] \in {"ok", "startup"}
=============================================================================
