------------------------ MODULE StagedExperimentProofs ------------------------
(***************************************************************************)
(* What a staged experiment keeps for any task sets, keys, pool size and   *)
(* infrastructure limit, through any number of stops, resumes and edits.   *)
(***************************************************************************)
EXTENDS StagedExperiment, FiniteSetTheorems, TLAPS

PoolStages == {"prepare", "isolated", "pilot", "full"}
RunStages == {"isolated", "pilot", "full"}
StageOf == [prepare |-> "prepare", extend |-> "prepare", isolated |-> "isolated",
            seal |-> "decide", pilot |-> "pilot", full |-> "full"]
Work(s) == IF s = "prepare" THEN Cases ELSE RunsOf(s)
AllBuilt == \A c \in Cases : caseDir[c] = "built"
AllSeen == IsolatedSeen /\ PilotSeen /\ FullSeen

(* A stage is run by the supervisor, which never goes beyond what was reached. *)
StageInv ==
    /\ stage # "none" => sup.pc = "run" /\ Stages[sup.at] = StageOf[stage]
    /\ sup.pc = "run" => sup.at <= reached

(* The pool holds the stage's own work, and what a job has come to is what  *)
(* its directory holds.                                                     *)
PoolInv ==
    /\ \A j \in Jobs : job[j] # "idle" => stage \in PoolStages /\ j \in Work(stage)
    /\ raised => stage \in PoolStages
    /\ stage \notin RunStages => infra = 0
    /\ \A c \in Cases : job[c] \notin {"running", "infra"}
    /\ \A r \in Runs : /\ job[r] = "bare" => dir[r] = "bare"
                       /\ job[r] = "running" => dir[r] = "empty"
                       /\ job[r] = "row" => dir[r] \in Headed
                       /\ job[r] = "infra" => dir[r] \in {"partial", "unstarted"}

(* The main thread has counted each header-less run it has taken.           *)
Headless == {r \in RunsOf(stage) : job[r] = "idle" /\ dir[r] \notin Headed}
TakenInv ==
    stage \in RunStages /\ ~raised =>
      /\ infra < InfraLimit /\ Cardinality(Headless) = infra
      /\ \A r \in RunsOf(stage) : job[r] = "idle" => dir[r] \in Rows

(* Task sets are built once, and protocol.json is written when all are.     *)
PrepareInv ==
    /\ protocol # "none" => AllBuilt
    /\ stage = "extend" => protocol # "none"
    /\ stage = "prepare" /\ ~raised =>
         \A c \in Cases : /\ job[c] \in {"idle", "row"} => caseDir[c] = "built"
                          /\ protocol # "none" => job[c] \in {"todo", "error"}

(* What the stages before the one reached have left for the runs.           *)
ProgressInv ==
    /\ reached >= 2 => protocol = "full"
    /\ design = "deadline" /\ reached >= 3 => decisions > 0 /\ seal = decisions
    /\ design = "confirm" /\ reached >= 4 => decisions > 0 /\ (stage = "seal" \/ seal = decisions)
    /\ stage = "seal" => Begun = {} /\ decisions > 0
    /\ RunsAfterPrediction

(* A successful end is only reported with all the evidence there.           *)
ExitInv ==
    /\ sup.pc \in {"exit", "write"} /\ sup.status = 0 => AllSeen
    /\ exitFile = "0" => AllSeen
    /\ StartsAfterSuccess

StagedInv ==
    TypeOK /\ StageInv /\ PoolInv /\ TakenInv /\ PrepareInv /\ ProgressInv
    /\ CleanEvidence /\ StagesLeaveEvidence /\ ExitInv
-----------------------------------------------------------------------------
(* The runs of a stage are runs; the isolated ones are none of the others', *)
(* and a task set is no run.                                                *)
LEMMA RunSets ==
    /\ Isolated \subseteq Runs /\ Measured \subseteq Runs /\ Isolated \cap Measured = {}
    /\ Jobs = Runs \cup Cases /\ Cases \cap Runs = {}
    /\ RunsOf("isolated") = Isolated
    /\ RunsOf("pilot") = PilotCases \X Keys
    /\ RunsOf("full") = (Cases \ PilotCases) \X Keys
    /\ RunsOf("pilot") \subseteq Measured /\ RunsOf("full") \subseteq Measured
<1>1. Isolated \cap Measured = {}
  BY StagesAssumption DEF Isolated, Measured
<1>2. /\ RunsOf("isolated") = Isolated
      /\ RunsOf("pilot") = PilotCases \X Keys
      /\ RunsOf("full") = (Cases \ PilotCases) \X Keys
  BY DEF RunsOf
<1>3. RunsOf("pilot") \subseteq Measured /\ RunsOf("full") \subseteq Measured
  BY <1>2, StagesAssumption DEF Measured
<1> QED
  BY <1>1, <1>2, <1>3, StagesAssumption DEF Runs, Jobs

(* The runs of the full stage are finitely many.                            *)
LEMMA FullFinite == IsFiniteSet(RunsOf("full"))
<1>1. IsFiniteSet(Cases \ PilotCases)
  BY StagesAssumption, FS_Difference
<1> QED
  BY <1>1, RunSets, StagesAssumption, FS_Product

(* The order of the stages in the two designs.                              *)
LEMMA StageOrder ==
    ASSUME design \in DOMAIN Order
    PROVE  /\ design \in {"deadline", "confirm"}
           /\ Len(Stages) = 5 /\ DOMAIN Stages = 1 .. 5
           /\ Stages[1] = "prepare" /\ Stages[4] = "pilot" /\ Stages[5] = "full"
           /\ design = "deadline" => Stages[2] = "predict" /\ Stages[3] = "isolated"
           /\ design = "confirm" => Stages[2] = "isolated" /\ Stages[3] = "decide"
  BY DEF Order, Stages
-----------------------------------------------------------------------------

(* The initial disk and memory have their types.                            *)
LEMMA TypeInit == Init => TypeOK
<1> SUFFICES ASSUME Init PROVE TypeOK
  OBVIOUS
<1>1. dir \in [Runs -> Contents]
  BY DEF Init, Contents
<1>2. aside \in [Runs -> Seq(Contents \ (Headed \cup {"absent", "torn"}))]
  BY DEF Init
<1>3. sup \in [pc : {"idle", "run", "exit", "write"}, at : 1 .. 5, status : {0, 1}]
  BY DEF Init
<1>4. /\ caseDir \in [Cases -> {"absent", "partial", "built"}]
      /\ results \in [Measured -> {"absent", "ok", "deadline", "startup", "other"}]
      /\ job \in [Jobs -> {"idle", "todo", "bare", "running", "row", "infra", "error"}]
  BY DEF Init
<1>5. /\ changes \in 0 .. MaxChanges /\ starts \in 0 .. MaxStarts /\ stops \in 0 .. MaxStops
  BY StagesAssumption DEF Init
<1>6. /\ reached \in 1 .. 6 /\ decisions \in Nat /\ seal \in Nat /\ infra \in Nat
      /\ protocol \in {"none", "base", "full"} /\ exitFile \in {"none", "empty", "0", "1"}
      /\ stage \in {"none", "prepare", "extend", "isolated", "seal", "pilot", "full"}
      /\ succ \in {"waiting", "started", "refused"} /\ design \in DOMAIN Order
  BY DEF Init
<1>7. raised \in BOOLEAN /\ intact \in BOOLEAN /\ tainted \subseteq Runs
  BY DEF Init
<1> QED
  BY <1>1, <1>2, <1>3, <1>4, <1>5, <1>6, <1>7 DEF TypeOK

(* What the end of a stage assigns has its type.                            *)
LEMMA TypeEnd ==
    ASSUME TypeOK, NEW code \in {0, 1}, EndStage(code)
    PROVE  /\ stage' = "none" /\ job' \in [Jobs -> {"idle"}] /\ infra' = 0 /\ raised' = FALSE
           /\ sup' \in [pc : {"idle", "run", "exit", "write"}, at : 1 .. 5, status : {0, 1}]
           /\ reached' \in 1 .. 6
<1>1. sup.at < Len(Stages) => sup.at + 1 \in 1 .. 5
  <2>1. Len(Stages) = 5
    BY StageOrder DEF TypeOK
  <2>2. sup.at \in 1 .. 5
    BY DEF TypeOK
  <2> QED BY <2>1, <2>2
<1>2. sup' \in [pc : {"idle", "run", "exit", "write"}, at : 1 .. 5, status : {0, 1}]
  BY <1>1 DEF TypeOK, EndStage
<1>3. reached' \in 1 .. 6
  BY DEF TypeOK, EndStage
<1> QED
  BY <1>2, <1>3 DEF EndStage

(* Every step keeps the types of disk and memory.                           *)
LEMMA TypeStep ==
    ASSUME TypeOK, Next
    PROVE  TypeOK'
<1> USE DEF TypeOK
<1>1. ASSUME NEW i \in 1 .. 5, Start(i) PROVE TypeOK'
  BY <1>1, StagesAssumption DEF Start, files, pool, world
<1>2. CASE OpenExitFile \/ WriteExitFile
  BY <1>2 DEF OpenExitFile, WriteExitFile, files, pool, world
<1>3. CASE Poll
  BY <1>3 DEF Poll, files, pool, world
<1>4. CASE StartPrepare
  BY <1>4 DEF StartPrepare, Fill, files, world
<1>5. ASSUME NEW name \in {"isolated", "pilot", "full"}, StartRuns(name) PROVE TypeOK'
  <2>1. CASE Fill(name, RunsOf(name))
    BY <1>5, <2>1 DEF Fill, files, world
  <2>2. CASE EndStage(1) /\ UNCHANGED files
    BY <2>2, TypeEnd DEF EndStage, files, world
  <2> QED BY <1>5, <2>1, <2>2 DEF StartRuns
<1>6. CASE Predict
  <2>1. CASE EndStage(1) /\ UNCHANGED files
    BY <2>1, TypeEnd DEF EndStage, files, world
  <2>2. CASE EndStage(0) /\ decisions' = decisions + 1 /\ seal' = decisions'
             /\ UNCHANGED <<caseDir, protocol, dir, aside, results>>
    <3>1. decisions' \in Nat /\ seal' \in Nat
      BY <2>2
    <3> QED BY <2>2, <3>1, TypeEnd DEF EndStage, world
  <2> QED BY <1>6, <2>1, <2>2 DEF Predict
<1>7. CASE Decide
  <2>1. CASE EndStage(1) /\ UNCHANGED files
    BY <2>1, TypeEnd DEF EndStage, files, world
  <2>2. CASE ~(EndStage(1) /\ UNCHANGED files)
    BY <1>7, <2>2 DEF Decide, world
  <2> QED BY <2>1, <2>2
<1>8. CASE Seal
  BY <1>8, TypeEnd DEF Seal, EndStage, world
<1>9. ASSUME NEW c \in Cases, PrepareCase(c) \/ BuildCase(c) PROVE TypeOK'
  <2>1. caseDir' \in [Cases -> {"absent", "partial", "built"}]
    BY <1>9 DEF PrepareCase, BuildCase
  <2>2. job' \in [Jobs -> {"idle", "todo", "bare", "running", "row", "infra", "error"}]
    BY <1>9 DEF PrepareCase, BuildCase, Moves
  <2> QED BY <1>9, <2>1, <2>2 DEF PrepareCase, BuildCase, Moves, world
<1>10. ASSUME NEW r \in Runs, FindRow(r) PROVE TypeOK'
  <2>1. job' \in [Jobs -> {"idle", "todo", "bare", "running", "row", "infra", "error"}]
    BY <1>10 DEF FindRow, Moves
  <2> QED BY <1>10, <2>1 DEF FindRow, Moves, files, world
<1>11. ASSUME NEW r \in Runs, BeginRun(r) PROVE TypeOK'
  <2>1. dir' \in [Runs -> Contents] /\ job' \in [Jobs -> {"idle", "todo", "bare", "running", "row", "infra", "error"}]
    BY <1>11 DEF BeginRun, Moves, Contents
  <2>2. aside' \in [Runs -> Seq(Contents \ (Headed \cup {"absent", "torn"}))]
    <3>1. CASE dir[r] = "absent"
      BY <1>11, <3>1 DEF BeginRun, MovedAside
    <3>2. CASE dir[r] # "absent"
      <4>1. dir[r] \in Contents \ (Headed \cup {"absent", "torn"})
        BY <1>11, <3>2 DEF BeginRun
      <4>2. aside' = [aside EXCEPT ![r] = Append(aside[r], dir[r])]
        BY <1>11, <3>2 DEF BeginRun, MovedAside
      <4>3. Append(aside[r], dir[r]) \in Seq(Contents \ (Headed \cup {"absent", "torn"}))
        BY <4>1
      <4> QED BY <4>2, <4>3
    <3> QED BY <3>1, <3>2
  <2>3. tainted' \subseteq Runs
    BY <1>11 DEF BeginRun
  <2> QED BY <1>11, <2>1, <2>2, <2>3 DEF BeginRun, Moves
<1>12. ASSUME NEW r \in Runs, Launch(r) PROVE TypeOK'
  <2>1. dir' \in [Runs -> Contents]
    BY <1>12 DEF Launch, Contents, Rows
  <2>2. job' \in [Jobs -> {"idle", "todo", "bare", "running", "row", "infra", "error"}]
    BY <1>12 DEF Launch, Moves
  <2> QED BY <1>12, <2>1, <2>2 DEF Launch, Moves, world
<1>13. ASSUME NEW r \in Runs, Finish(r) PROVE TypeOK'
  <2>1. PICK log \in LogKinds :
          /\ Moves(r, "running", IF log \in Headed THEN "row" ELSE "infra")
          /\ dir' = [dir EXCEPT ![r] = RowOf(log, r)]
          /\ UNCHANGED <<caseDir, protocol, aside, decisions, seal, results, world>>
    BY <1>13 DEF Finish
  <2>2. RowOf(log, r) \in Contents
    BY StagesAssumption DEF RowOf, Contents, Rows, Headed
  <2>3. dir' \in [Runs -> Contents]
    BY <2>1, <2>2
  <2>4. job' \in [Jobs -> {"idle", "todo", "bare", "running", "row", "infra", "error"}]
    BY <2>1 DEF Moves
  <2> QED BY <2>1, <2>3, <2>4 DEF Moves, world
<1>14. ASSUME NEW j \in Jobs, Handle(j) PROVE TypeOK'
  <2>1. job' \in [Jobs -> {"idle", "todo", "bare", "running", "row", "infra", "error"}]
    BY <1>14 DEF Handle
  <2>2. raised' \in BOOLEAN /\ infra' \in Nat
    BY <1>14 DEF Handle
  <2> QED BY <1>14, <2>1, <2>2 DEF Handle, files, world
<1>15. CASE PoolRaises
  BY <1>15, TypeEnd DEF PoolRaises, EndStage, files, world
<1>16. CASE WriteProtocol
  BY <1>16 DEF WriteProtocol, world
<1>17. CASE ExtendProtocol
  BY <1>17, TypeEnd DEF ExtendProtocol, EndStage, world
<1>18. CASE GateIsolated
  <2>1. PICK code \in {0, 1} : EndStage(code)
    BY <1>18 DEF GateIsolated
  <2> QED BY <1>18, <2>1, TypeEnd DEF GateIsolated, EndStage, files, world
<1>19. CASE Summarize
  <2>1. PICK code \in {0, 1} : EndStage(code)
    BY <1>19 DEF Summarize
  <2>2. results' \in [Measured -> {"absent", "ok", "deadline", "startup", "other"}]
    <3>1. CASE results' = results
      BY <3>1
    <3>2. CASE results' = Summary /\ \A r \in Summarized : Loads(r)
      <4>1. \A r \in Summarized : r \in Runs /\ RunState(dir[r]) \in {"ok", "deadline", "startup", "other"}
        BY <3>2, RunSets DEF Summarized, Loads, RunState, Rows, Headed
      <4> QED BY <3>2, <4>1 DEF Summary
    <3> QED BY <1>19, <3>1, <3>2 DEF Summarize
  <2> QED BY <1>19, <2>1, <2>2, TypeEnd DEF Summarize, EndStage, world
<1>20. CASE Stop
  <2>1. sup' \in [pc : {"idle", "run", "exit", "write"}, at : 1 .. 5, status : {0, 1}]
    BY <1>20 DEF Stop
  <2>2. dir' \in [Runs -> Contents]
    BY <1>20 DEF Stop, Contents
  <2>3. reached' \in 1 .. 6
    BY <1>20 DEF Stop
  <2>4. stops' \in 0 .. MaxStops
    BY <1>20, StagesAssumption DEF Stop
  <2> QED BY <1>20, <2>1, <2>2, <2>3, <2>4 DEF Stop, world
<1>21. CASE Edit
  <2>1. changes' \in 0 .. MaxChanges
    BY <1>21, StagesAssumption DEF Edit
  <2>2. intact' \in BOOLEAN /\ tainted' \subseteq Runs
    BY <1>21 DEF Edit
  <2> QED BY <1>21, <2>1, <2>2 DEF Edit, files, pool
<1> QED
  BY <1>1, <1>2, <1>3, <1>4, <1>5, <1>6, <1>7, <1>8, <1>9, <1>10, <1>11, <1>12, <1>13, <1>14, <1>15,
     <1>16, <1>17, <1>18, <1>19, <1>20, <1>21 DEF Next, Main, Pool
-----------------------------------------------------------------------------
(* Whatever ends a stage leaves an empty pool, and the supervisor no        *)
(* further than one stage on.                                               *)
LEMMA EndKeeps ==
    ASSUME TypeOK, StageInv, sup.pc = "run", NEW code \in {0, 1}, EndStage(code)
    PROVE  StageInv'
<1>1. sup.at <= reached /\ sup.at \in 1 .. 5 /\ reached \in 1 .. 6
  BY DEF TypeOK, StageInv
<1>2. CASE code = 0 /\ sup.at < Len(Stages)
  <2>1. sup'.pc = "run" /\ sup'.at = sup.at + 1
    BY <1>2 DEF EndStage, TypeOK
  <2>2. sup.at + 1 <= reached'
    BY <1>1, <1>2 DEF EndStage
  <2> QED BY <2>1, <2>2 DEF EndStage, StageInv
<1>3. CASE ~(code = 0 /\ sup.at < Len(Stages))
  <2>1. sup'.pc = "exit"
    BY <1>3 DEF EndStage, TypeOK
  <2> QED BY <2>1 DEF EndStage, StageInv
<1> QED BY <1>2, <1>3

(* The actions in which a stage ends.                                       *)
LEMMA Endings ==
    ASSUME TypeOK, StageInv,
           \/ PoolRaises \/ ExtendProtocol \/ Seal \/ GateIsolated \/ Summarize \/ Predict
           \/ Decide /\ stage' = "none"
           \/ \E name \in RunStages : StartRuns(name) /\ stage' = "none"
    PROVE  \E code \in {0, 1} : EndStage(code) /\ sup.pc = "run"
<1>1. stage \in {"extend", "seal", "prepare", "isolated", "pilot", "full"} => sup.pc = "run"
  BY DEF StageInv
<1>2. CASE PoolRaises \/ ExtendProtocol \/ Seal
  BY <1>1, <1>2 DEF PoolRaises, ExtendProtocol, Seal
<1>3. CASE GateIsolated
  BY <1>1, <1>3 DEF GateIsolated
<1>4. CASE Summarize
  BY <1>1, <1>4 DEF Summarize
<1>5. CASE Predict
  BY <1>5 DEF Predict, Starting
<1>6. CASE Decide /\ stage' = "none"
  BY <1>6 DEF Decide, Starting
<1>7. CASE \E name \in RunStages : StartRuns(name) /\ stage' = "none"
  BY <1>7 DEF StartRuns, Starting, Fill, RunStages
<1> QED BY <1>2, <1>3, <1>4, <1>5, <1>6, <1>7

(* The running stage stays the supervisor's, within what was reached.       *)
LEMMA StageStep ==
    ASSUME TypeOK, StageInv, Next
    PROVE  StageInv'
<1> USE DEF StageInv
<1>1. ASSUME NEW i \in 1 .. 5, Start(i) PROVE StageInv'
  <2>1. stage = "none"
    BY <1>1 DEF Start
  <2> QED BY <1>1, <2>1 DEF Start, pool
<1>2. CASE OpenExitFile \/ WriteExitFile
  BY <1>2 DEF OpenExitFile, WriteExitFile, pool, TypeOK
<1>3. CASE UNCHANGED <<design, stage, sup, reached>>
  BY <1>3 DEF Stages
<1>4. CASE StartPrepare \/ \E name \in RunStages : StartRuns(name) /\ stage' # "none"
  <2>1. PICK name \in PoolStages : Starting(name) /\ stage' = name /\ UNCHANGED <<design, sup, reached>>
    BY <1>4 DEF StartPrepare, StartRuns, Fill, EndStage, PoolStages, RunStages
  <2> QED BY <2>1 DEF Starting, Stages, StageOf, PoolStages
<1>5. CASE Decide /\ stage' # "none"
  <2>1. Starting("decide") /\ stage' = "seal" /\ UNCHANGED <<design, sup, reached>>
    BY <1>5 DEF Decide, EndStage
  <2> QED BY <2>1 DEF Starting, Stages, StageOf
<1>6. CASE WriteProtocol
  BY <1>6 DEF WriteProtocol, Stages, StageOf
<1>7. CASE Stop
  BY <1>7 DEF Stop, TypeOK
<1>8. CASE \/ PoolRaises \/ ExtendProtocol \/ Seal \/ GateIsolated \/ Summarize \/ Predict
           \/ Decide /\ stage' = "none"
           \/ \E name \in RunStages : StartRuns(name) /\ stage' = "none"
  BY <1>8, Endings, EndKeeps
<1>9. CASE Pool \/ Edit \/ Poll \/ \E j \in Jobs : Handle(j)
  BY <1>3, <1>9 DEF Pool, PrepareCase, BuildCase, FindRow, BeginRun, Launch, Finish, Moves, Edit, Poll,
                    Handle, pool
<1> QED
  BY <1>1, <1>2, <1>4, <1>5, <1>6, <1>7, <1>8, <1>9 DEF Next, Main, RunStages
-----------------------------------------------------------------------------
(* The pool, its work and the directories.                                  *)
LEMMA PoolEnd ==
    ASSUME NEW code \in {0, 1}, EndStage(code)
    PROVE  PoolInv' /\ TakenInv'
  BY RunSets DEF EndStage, PoolInv, TakenInv, PoolStages, RunStages

(* Only a stage that runs has a pool, and it has the runs of that stage.    *)
LEMMA PoolStep ==
    ASSUME TypeOK, StageInv, PoolInv, Next
    PROVE  PoolInv'
<1> USE DEF PoolInv
<1>1. CASE UNCHANGED <<pool, dir>>
  BY <1>1 DEF pool, Work
<1>2. CASE (\E i \in 1 .. 5 : Start(i)) \/ OpenExitFile \/ WriteExitFile \/ Poll \/ Edit
  BY <1>1, <1>2 DEF Start, OpenExitFile, WriteExitFile, Poll, Edit, files
<1>3. CASE \/ PoolRaises \/ ExtendProtocol \/ Seal \/ GateIsolated \/ Summarize \/ Predict
           \/ Decide /\ stage' = "none"
           \/ \E name \in RunStages : StartRuns(name) /\ stage' = "none"
  BY <1>3, Endings, PoolEnd
<1>4. CASE StartPrepare \/ \E name \in RunStages : StartRuns(name) /\ stage' # "none"
  <2>1. PICK name \in PoolStages : Starting(name) /\ Fill(name, Work(name))
    BY <1>4 DEF StartPrepare, StartRuns, EndStage, PoolStages, RunStages, Work
  <2>2. Work(name) \subseteq Jobs /\ Work(name)' = Work(name)
    BY RunSets DEF Work, PoolStages
  <2> QED BY <2>1, <2>2, RunSets DEF Starting, Fill, PoolStages, RunStages
<1>5. CASE Decide /\ stage' # "none"
  BY <1>5 DEF Decide, EndStage, Starting, PoolStages, RunStages
<1>6. CASE WriteProtocol
  BY <1>6 DEF WriteProtocol, Drained, PoolStages, RunStages
<1>7. CASE Stop
  BY <1>7, RunSets DEF Stop, PoolStages, RunStages
<1>8. ASSUME NEW c \in Cases, PrepareCase(c) \/ BuildCase(c) PROVE PoolInv'
  BY <1>8, RunSets DEF PrepareCase, BuildCase, Moves, TypeOK
<1>9. ASSUME NEW r \in Runs, FindRow(r) \/ BeginRun(r) \/ Launch(r) PROVE PoolInv'
  <2>1. DOMAIN dir = Runs /\ DOMAIN job = Jobs
    BY DEF TypeOK
  <2>2. CASE FindRow(r)
    BY <2>1, <2>2, RunSets DEF FindRow, Moves, files
  <2>3. CASE BeginRun(r)
    BY <2>1, <2>3, RunSets DEF BeginRun, Moves
  <2>4. CASE Launch(r)
    BY <2>1, <2>4, RunSets DEF Launch, Moves
  <2> QED BY <1>9, <2>2, <2>3, <2>4
<1>10. ASSUME NEW r \in Runs, Finish(r) PROVE PoolInv'
  <2>1. PICK log \in LogKinds :
          /\ Moves(r, "running", IF log \in Headed THEN "row" ELSE "infra")
          /\ dir' = [dir EXCEPT ![r] = RowOf(log, r)]
    BY <1>10 DEF Finish
  <2>2. IF log \in Headed THEN RowOf(log, r) \in Headed ELSE RowOf(log, r) = "partial"
    BY StagesAssumption DEF RowOf, Headed
  <2> QED BY <2>1, <2>2, RunSets DEF Moves, TypeOK
<1>11. ASSUME NEW j \in Jobs, Handle(j) PROVE PoolInv'
  <2>1. \A k \in Jobs : job'[k] \in {"idle", job[k]}
    BY <1>11 DEF Handle
  <2>2. stage' = stage /\ dir' = dir /\ stage \in PoolStages
    BY <1>11 DEF Handle, files
  <2>3. stage \notin RunStages => infra' = 0
    <3>1. ASSUME stage \notin RunStages PROVE job[j] # "infra"
      BY <1>11, <2>2, <3>1, RunSets DEF Handle, Work, RunStages, PoolStages
    <3> QED BY <1>11, <3>1 DEF Handle
  <2> QED BY <2>1, <2>2, <2>3, RunSets DEF Work
<1> QED
  BY <1>2, <1>3, <1>4, <1>5, <1>6, <1>7, <1>8, <1>9, <1>10, <1>11 DEF Next, Main, Pool, RunStages

(* Handle counts the header-less run it takes, and no other.                *)
LEMMA TakenHandle ==
    ASSUME TypeOK, PoolInv, TakenInv, NEW j \in Jobs, Handle(j)
    PROVE  TakenInv'
<1> SUFFICES ASSUME stage \in RunStages, ~raised'
             PROVE  TakenInv'
  BY DEF TakenInv, Handle
<1> USE RunSets
<1>1. /\ stage' = stage /\ dir' = dir /\ ~raised /\ job[j] \in {"row", "infra"}
      /\ job' = [k \in Jobs |-> IF k = j THEN "idle" ELSE job[k]]
      /\ job[j] = "infra" => infra' = infra + 1 /\ infra' < InfraLimit
      /\ job[j] = "row" => infra' = infra
  <2>1. ~(job[j] = "infra" /\ infra + 1 >= InfraLimit) /\ job[j] # "error"
    BY DEF Handle
  <2> QED BY <2>1, StagesAssumption DEF Handle, files, TypeOK
<1>2. RunsOf(stage)' = RunsOf(stage) /\ RunsOf(stage) \subseteq Runs /\ j \in RunsOf(stage)
  BY <1>1 DEF RunStages, PoolInv, Work
<1>3. IsFiniteSet(Headless)
  <2>1. IsFiniteSet(RunsOf(stage))
    <3>1. IsFiniteSet(PilotCases) /\ IsFiniteSet({"isolated"})
      BY StagesAssumption, FS_Subset, FS_Singleton
    <3>2. IsFiniteSet(Isolated) /\ IsFiniteSet(RunsOf("pilot"))
      BY <3>1, StagesAssumption, FS_Product DEF Isolated
    <3> QED BY <3>2, FullFinite DEF RunStages
  <2> QED BY <2>1, FS_Subset DEF Headless
<1>4. infra < InfraLimit /\ Cardinality(Headless) = infra
      /\ \A r \in RunsOf(stage) : job[r] = "idle" => dir[r] \in Rows
  BY <1>1 DEF TakenInv
<1>5. \A r \in RunsOf(stage)' : job'[r] = "idle" => dir'[r] \in Rows
  BY <1>1, <1>2, <1>4 DEF PoolInv, Rows
<1>6. CASE job[j] = "row"
  <2>1. Headless' = Headless
    BY <1>1, <1>2, <1>6 DEF Headless, PoolInv
  <2> QED BY <1>1, <1>4, <1>5, <1>6, <2>1 DEF TakenInv
<1>7. CASE job[j] = "infra"
  <2>1. dir[j] \notin Headed
    BY <1>2, <1>7 DEF PoolInv, Headed
  <2>2. Headless' = Headless \cup {j} /\ j \notin Headless
    BY <1>1, <1>2, <1>7, <2>1 DEF Headless
  <2>3. Cardinality(Headless') = infra + 1
    BY <1>3, <1>4, <2>2, FS_AddElement
  <2> QED BY <1>1, <1>5, <1>7, <2>3 DEF TakenInv
<1> QED BY <1>1, <1>6, <1>7

(* A run without a header is counted when the main thread takes its result. *)
LEMMA TakenStep ==
    ASSUME TypeOK, StageInv, PoolInv, TakenInv, Next
    PROVE  TakenInv'
<1> DEFINE Quiet == /\ stage' = stage /\ infra' = infra /\ raised' = raised
                    /\ \A r \in Runs :
                         \/ job'[r] = job[r] /\ dir'[r] = dir[r]
                         \/ job[r] # "idle" /\ job'[r] # "idle"
<1>1. Quiet => TakenInv'
  <2> SUFFICES ASSUME Quiet, stage \in RunStages PROVE TakenInv'
    BY DEF TakenInv
  <2>1. RunsOf(stage)' = RunsOf(stage) /\ RunsOf(stage) \subseteq Runs
    BY RunSets DEF RunStages
  <2>2. Headless' = Headless
    BY <2>1 DEF Headless
  <2> QED BY <2>1, <2>2 DEF TakenInv
<1>2. CASE UNCHANGED <<pool, dir>>
  BY <1>1, <1>2 DEF pool
<1>3. CASE (\E i \in 1 .. 5 : Start(i)) \/ OpenExitFile \/ WriteExitFile \/ Poll \/ Edit
  BY <1>2, <1>3 DEF Start, OpenExitFile, WriteExitFile, Poll, Edit, files
<1>4. CASE \/ PoolRaises \/ ExtendProtocol \/ Seal \/ GateIsolated \/ Summarize \/ Predict
           \/ Decide /\ stage' = "none"
           \/ \E name \in RunStages : StartRuns(name) /\ stage' = "none"
  BY <1>4, Endings, PoolEnd
<1>5. CASE \E name \in RunStages : StartRuns(name) /\ stage' # "none"
  <2>1. PICK name \in RunStages : Starting(name) /\ Fill(name, RunsOf(name))
    BY <1>5 DEF StartRuns, EndStage
  <2>2. RunsOf(name) \subseteq Jobs /\ RunsOf(stage)' = RunsOf(name)
    BY <2>1, RunSets DEF RunStages, Fill
  <2>3. Headless' = {}
    BY <2>1, <2>2 DEF Headless, Fill
  <2>4. infra' = 0
    BY <2>1 DEF Starting, Fill, PoolInv, RunStages
  <2> QED BY <2>1, <2>2, <2>3, <2>4, FS_EmptySet, StagesAssumption DEF TakenInv, Fill
<1>6. CASE StartPrepare \/ (Decide /\ stage' # "none") \/ WriteProtocol \/ Stop
  <2>1. stage' \notin RunStages
    BY <1>6 DEF StartPrepare, Fill, Decide, EndStage, WriteProtocol, Stop, RunStages
  <2> QED BY <2>1 DEF TakenInv
<1>7. ASSUME NEW c \in Cases, PrepareCase(c) \/ BuildCase(c) PROVE TakenInv'
  BY <1>1, <1>7, RunSets DEF PrepareCase, BuildCase, Moves, TypeOK
<1>8. ASSUME NEW r \in Runs, FindRow(r) \/ BeginRun(r) \/ Launch(r) \/ Finish(r) PROVE TakenInv'
  <2>1. /\ job[r] # "idle" /\ job'[r] # "idle" /\ UNCHANGED <<stage, infra, raised>>
        /\ \A q \in Runs \ {r} : job'[q] = job[q] /\ dir'[q] = dir[q]
    BY <1>8, RunSets DEF FindRow, BeginRun, Launch, Finish, Moves, TypeOK, files
  <2> QED BY <1>1, <2>1
<1>9. ASSUME NEW j \in Jobs, Handle(j) PROVE TakenInv'
  BY <1>9, TakenHandle
<1> QED
  BY <1>3, <1>4, <1>5, <1>6, <1>7, <1>8, <1>9 DEF Next, Main, Pool, RunStages
-----------------------------------------------------------------------------
(* The task sets are built once, and protocol.json is written once.         *)
LEMMA PrepareStep ==
    ASSUME TypeOK, StageInv, PoolInv, PrepareInv, Next
    PROVE  PrepareInv' /\ (protocol = "full" => protocol' = "full")
<1> USE DEF PrepareInv
<1>1. CASE UNCHANGED <<caseDir, protocol, stage, job, raised>>
  BY <1>1 DEF AllBuilt
<1>2. CASE (\E i \in 1 .. 5 : Start(i)) \/ OpenExitFile \/ WriteExitFile \/ Poll \/ Edit
  BY <1>1, <1>2 DEF Start, OpenExitFile, WriteExitFile, Poll, Edit, files, pool
<1>3. CASE \/ PoolRaises \/ Seal \/ GateIsolated \/ Summarize \/ Predict
           \/ Decide /\ stage' = "none"
           \/ \E name \in RunStages : StartRuns(name) /\ stage' = "none"
  <2>1. caseDir' = caseDir /\ protocol' = protocol
    BY <1>3 DEF PoolRaises, Seal, GateIsolated, Summarize, Predict, Decide, StartRuns, Fill, files, RunStages,
                Starting
  <2>2. stage' = "none"
    BY <1>3, Endings DEF EndStage
  <2> QED BY <2>1, <2>2 DEF AllBuilt
<1>4. CASE ExtendProtocol
  BY <1>4 DEF ExtendProtocol, EndStage, AllBuilt
<1>5. CASE StartPrepare
  <2>1. caseDir' = caseDir /\ protocol' = protocol /\ \A c \in Cases : job'[c] = "todo"
    BY <1>5, RunSets DEF StartPrepare, Fill, files
  <2>2. stage' = "prepare"
    BY <1>5 DEF StartPrepare, Fill
  <2> QED BY <2>1, <2>2 DEF AllBuilt
<1>6. CASE \/ \E name \in RunStages : StartRuns(name) /\ stage' # "none"
           \/ Decide /\ stage' # "none"
           \/ Stop
  <2>1. caseDir' = caseDir /\ protocol' = protocol /\ stage' \notin {"prepare", "extend"}
    BY <1>6 DEF StartRuns, Fill, Decide, EndStage, Stop, files, RunStages
  <2> QED BY <2>1 DEF AllBuilt
<1>7. CASE WriteProtocol
  <2>1. AllBuilt /\ protocol = "none"
    BY <1>7, RunSets, StagesAssumption DEF WriteProtocol, Drained, AllBuilt
  <2> QED BY <1>7, <2>1 DEF WriteProtocol, AllBuilt
<1>8. ASSUME NEW c \in Cases, PrepareCase(c) \/ BuildCase(c)
      PROVE  PrepareInv' /\ (protocol = "full" => protocol' = "full")
  <2>1. stage = "prepare" /\ UNCHANGED <<protocol, stage, raised>>
    BY <1>8, RunSets DEF PrepareCase, BuildCase, Moves, PoolInv, Work, PoolStages
  <2>2. \A d \in Cases \ {c} : caseDir'[d] = caseDir[d] /\ job'[d] = job[d]
    BY <1>8, RunSets DEF PrepareCase, BuildCase, Moves, TypeOK
  <2>3. CASE PrepareCase(c)
    BY <2>1, <2>2, <2>3, RunSets DEF PrepareCase, Moves, TypeOK, AllBuilt
  <2>4. CASE BuildCase(c)
    <3>1. caseDir'[c] = "built" /\ job'[c] = "row" /\ job[c] = "bare"
      BY <2>4, RunSets DEF BuildCase, Moves, TypeOK
    <3> QED BY <2>1, <2>2, <3>1 DEF AllBuilt
  <2> QED BY <1>8, <2>3, <2>4
<1>9. ASSUME NEW r \in Runs, FindRow(r) \/ BeginRun(r) \/ Launch(r) \/ Finish(r)
      PROVE  PrepareInv' /\ (protocol = "full" => protocol' = "full")
  <2>1. UNCHANGED <<caseDir, protocol, stage, raised>> /\ \A c \in Cases : job'[c] = job[c]
    BY <1>9, RunSets DEF FindRow, BeginRun, Launch, Finish, Moves, TypeOK, files
  <2> QED BY <2>1 DEF AllBuilt
<1>10. ASSUME NEW j \in Jobs, Handle(j)
       PROVE  PrepareInv' /\ (protocol = "full" => protocol' = "full")
  <2>1. UNCHANGED <<caseDir, protocol, stage>>
    BY <1>10 DEF Handle, files
  <2>2. ASSUME stage = "prepare", ~raised' 
        PROVE  /\ ~raised /\ job[j] = "row" /\ j \in Cases
               /\ job' = [k \in Jobs |-> IF k = j THEN "idle" ELSE job[k]]
    BY <1>10, <2>2, RunSets DEF Handle, PoolInv, Work, PoolStages
  <2> QED BY <2>1, <2>2, RunSets DEF AllBuilt
<1> QED
  BY <1>2, <1>3, <1>4, <1>5, <1>6, <1>7, <1>8, <1>9, <1>10 DEF Next, Main, Pool, RunStages
-----------------------------------------------------------------------------
(* What a step may do to the directory of a run.                            *)
Begins(r) ==
    /\ dir[r] \notin Headed \cup {"torn"} /\ dir'[r] \in {"absent", "bare"}
    /\ aside'[r] = IF dir[r] = "absent" THEN aside[r] ELSE Append(aside[r], dir[r])
Launches(r) ==
    /\ Launch(r)
    /\ job[r] = "bare" /\ dir[r] = "bare" /\ dir'[r] \in {"empty", "unstarted"}
    /\ aside'[r] = aside[r]
Ends(r) ==
    /\ \/ Finish(r) /\ dir'[r] \in Rows \ {"unstarted"}
       \/ dir'[r] = "torn"
    /\ job[r] = "running" /\ dir[r] = "empty"
    /\ aside'[r] = aside[r]
Keeps(r) == dir'[r] = dir[r] /\ aside'[r] = aside[r]

(* A step does one of four things to the directory of a run.                *)
LEMMA DirStep ==
    ASSUME TypeOK, PoolInv, Next
    PROVE  \A r \in Runs : Begins(r) \/ Launches(r) \/ Ends(r) \/ Keeps(r)
<1> USE DEF Keeps
<1>1. CASE UNCHANGED <<dir, aside>>
  BY <1>1
<1>2. CASE (\E i \in 1 .. 5 : Start(i)) \/ OpenExitFile \/ WriteExitFile \/ Poll \/ Edit
           \/ StartPrepare \/ (\E name \in RunStages : StartRuns(name)) \/ Predict \/ Decide \/ Seal
           \/ (\E j \in Jobs : Handle(j))
  BY <1>1, <1>2 DEF Start, OpenExitFile, WriteExitFile, Poll, Edit, StartPrepare, StartRuns, Fill,
                    Predict, Decide, Seal, Handle, files
<1>3. CASE PoolRaises \/ WriteProtocol \/ ExtendProtocol \/ GateIsolated \/ Summarize
           \/ \E c \in Cases : PrepareCase(c) \/ BuildCase(c)
  BY <1>1, <1>3 DEF PoolRaises, WriteProtocol, ExtendProtocol, GateIsolated, Summarize,
                    PrepareCase, BuildCase, files
<1>4. ASSUME NEW q \in Runs, FindRow(q) PROVE UNCHANGED <<dir, aside>>
  BY <1>4 DEF FindRow, files
<1>5. ASSUME NEW q \in Runs, BeginRun(q), NEW r \in Runs PROVE Begins(r) \/ Keeps(r)
  <2>1. /\ dir[q] \notin Headed \cup {"torn"} /\ aside' = MovedAside(q)
        /\ dir' = [dir EXCEPT ![q] = "bare"] \/ dir' = [dir EXCEPT ![q] = "absent"]
    BY <1>5 DEF BeginRun
  <2>2. DOMAIN dir = Runs
    BY DEF TypeOK
  <2>3. CASE q = r
    <3>1. dir'[r] \in {"absent", "bare"}
      BY <2>1, <2>2, <2>3
    <3>2. aside'[r] = IF dir[r] = "absent" THEN aside[r] ELSE Append(aside[r], dir[r])
      BY <1>5, <2>1, <2>3 DEF MovedAside, TypeOK
    <3> QED BY <2>1, <2>3, <3>1, <3>2 DEF Begins
  <2>4. CASE q # r
    BY <1>5, <2>1, <2>2, <2>4 DEF MovedAside, TypeOK
  <2> QED BY <2>3, <2>4
<1>6. ASSUME NEW q \in Runs, Launch(q), NEW r \in Runs PROVE Launches(r) \/ Keeps(r)
  <2>1. /\ job[q] = "bare" /\ aside' = aside
        /\ dir' = [dir EXCEPT ![q] = "empty"] \/ dir' = [dir EXCEPT ![q] = "unstarted"]
    BY <1>6 DEF Launch, Moves
  <2> QED BY <1>6, <2>1 DEF Launches, TypeOK, PoolInv
<1>7. ASSUME NEW q \in Runs, Finish(q), NEW r \in Runs PROVE Ends(r) \/ Keeps(r)
  <2>1. PICK log \in LogKinds :
          job[q] = "running" /\ dir' = [dir EXCEPT ![q] = RowOf(log, q)] /\ aside' = aside
    BY <1>7 DEF Finish, Moves
  <2>2. RowOf(log, q) \in Rows \ {"unstarted"}
    BY StagesAssumption DEF RowOf, Rows, Headed
  <2> QED BY <1>7, <2>1, <2>2 DEF Ends, TypeOK, PoolInv
<1>8. CASE Stop
  BY <1>8 DEF Stop, Ends, PoolInv
<1> QED
  BY <1>1, <1>2, <1>3, <1>4, <1>5, <1>6, <1>7, <1>8 DEF Next, Main, Pool, RunStages

(* A row with a header stays, and with it what the gates have seen.         *)
LEMMA SeenKept ==
    ASSUME TypeOK, PoolInv, Next
    PROVE  /\ \A r \in Runs : dir[r] \in Headed => dir'[r] = dir[r]
           /\ IsolatedSeen => IsolatedSeen'
           /\ PilotSeen => PilotSeen'
           /\ FullSeen => FullSeen'
<1>1. \A r \in Runs : dir[r] \in Headed => dir'[r] = dir[r]
  BY DirStep DEF Begins, Launches, Ends, Keeps, Headed
<1>2. IsolatedSeen => IsolatedSeen'
  BY <1>1, RunSets DEF IsolatedSeen, Headed
<1>3. PilotSeen => PilotSeen'
  BY <1>1, RunSets DEF PilotSeen
<1>4. FullSeen => FullSeen'
  <2> DEFINE missing == {r \in RunsOf("full") : dir[r] \notin Headed}
  <2>1. RunsOf("full")' = RunsOf("full")
    BY RunSets
  <2>2. missing' \subseteq missing
    BY <1>1, <2>1, RunSets
  <2>3. IsFiniteSet(missing)
    BY FullFinite, FS_Subset
  <2>4. /\ Cardinality(missing) \in Nat /\ Cardinality(missing') \in Nat
        /\ Cardinality(missing') <= Cardinality(missing)
    BY <2>2, <2>3, FS_Subset, FS_CardinalityType
  <2> HIDE DEF missing
  <2>5. Cardinality(missing) < InfraLimit => Cardinality(missing') < InfraLimit
    BY <2>4, StagesAssumption
  <2> QED BY <2>5 DEF FullSeen, missing
<1> QED BY <1>1, <1>2, <1>3, <1>4

(* Records are never unmade, and only a launch makes the first one.         *)
Recorded(r) == HasRecords(dir[r]) \/ \E i \in DOMAIN aside[r] : HasRecords(aside[r][i])

(* Runs begin by being launched, and have begun for good.                   *)
LEMMA BegunStep ==
    ASSUME TypeOK, PoolInv, Next
    PROVE  /\ Begun \subseteq Begun'
           /\ \A r \in Begun' \ Begun : r \in Counted /\ job[r] = "bare" /\ Launch(r)
<1>1. design' = design /\ Counted' = Counted /\ Counted \subseteq Runs
  <2>1. design' = design
    BY DEF Next, Main, Pool, Start, OpenExitFile, WriteExitFile, Poll, StartPrepare, StartRuns, Fill,
           EndStage, Predict, Decide, Seal, PrepareCase, BuildCase, FindRow, BeginRun, Launch, Finish,
           Moves, Handle, PoolRaises, WriteProtocol, ExtendProtocol, GateIsolated, Summarize, Stop, Edit
  <2> QED BY <2>1, RunSets DEF Counted
<1>2. ASSUME NEW r \in Runs PROVE Recorded(r) => Recorded(r)'
  <2>1. CASE Begins(r)
    <3>1. CASE dir[r] = "absent"
      BY <2>1, <3>1 DEF Begins, Recorded, HasRecords
    <3>2. CASE dir[r] # "absent"
      <4>1. aside'[r] = Append(aside[r], dir[r]) /\ aside[r] \in Seq(Contents \ (Headed \cup {"absent", "torn"}))
        BY <2>1, <3>2 DEF Begins, TypeOK
      <4>2. /\ \A i \in DOMAIN aside[r] : i \in DOMAIN aside'[r] /\ aside'[r][i] = aside[r][i]
            /\ Len(aside[r]) + 1 \in DOMAIN aside'[r] /\ aside'[r][Len(aside[r]) + 1] = dir[r]
        BY <4>1
      <4> QED BY <4>2 DEF Recorded
    <3> QED BY <3>1, <3>2
  <2>2. CASE Launches(r) \/ Ends(r) \/ Keeps(r)
    BY <2>2 DEF Launches, Ends, Keeps, Recorded, HasRecords, Rows, Headed
  <2> QED BY <2>1, <2>2, DirStep
<1>3. ASSUME NEW r \in Runs, Recorded(r)', ~Recorded(r) PROVE job[r] = "bare" /\ Launch(r)
  <2>1. CASE Begins(r)
    <3>1. CASE dir[r] = "absent"
      BY <1>3, <2>1, <3>1 DEF Begins, Recorded, HasRecords
    <3>2. CASE dir[r] # "absent"
      <4>1. /\ aside'[r] = Append(aside[r], dir[r]) /\ aside[r] \in Seq(Contents \ (Headed \cup {"absent", "torn"}))
            /\ ~HasRecords(dir'[r])
        BY <2>1, <3>2 DEF Begins, TypeOK, HasRecords
      <4>2. PICK i \in DOMAIN aside'[r] : HasRecords(aside'[r][i])
        BY <1>3, <4>1 DEF Recorded
      <4>3. (i \in DOMAIN aside[r] /\ aside'[r][i] = aside[r][i]) \/ aside'[r][i] = dir[r]
        BY <4>1
      <4> QED BY <1>3, <4>2, <4>3 DEF Recorded
    <3> QED BY <3>1, <3>2
  <2>2. CASE Launches(r) \/ Ends(r) \/ Keeps(r)
    BY <1>3, <2>2 DEF Launches, Ends, Keeps, Recorded, HasRecords
  <2> QED BY <2>1, <2>2, DirStep
<1>4. Begun = {r \in Counted : Recorded(r)} /\ Begun' = {r \in Counted : Recorded(r)'}
  BY <1>1 DEF Begun, Recorded
<1> QED BY <1>1, <1>2, <1>3, <1>4
-----------------------------------------------------------------------------
(* How far the experiment has come.                                         *)
LEMMA RunsAllowed ==
    ASSUME TypeOK, StageInv, PoolInv, PrepareInv, ProgressInv,
           NEW r \in Counted, job[r] = "bare"
    PROVE  /\ decisions > 0 /\ seal = decisions /\ protocol = "full"
           /\ stage \in RunStages
<1>1. r \in Runs /\ r \notin Cases /\ r \in Jobs
  BY RunSets DEF Counted
<1>2. stage \in RunStages /\ r \in RunsOf(stage)
  BY <1>1 DEF PoolInv, PoolStages, RunStages, Work
<1>3. sup.at <= reached /\ Stages[sup.at] = stage /\ sup.at \in 1 .. 5 /\ reached \in 1 .. 6
  BY <1>2 DEF StageInv, RunStages, StageOf, TypeOK
<1>4. design = "confirm" => stage # "isolated"
  BY <1>2, RunSets DEF Counted
<1>5. IF design = "deadline" THEN sup.at >= 3 ELSE sup.at >= 4
  BY <1>2, <1>3, <1>4, StageOrder DEF RunStages, TypeOK
<1>6. stage # "seal"
  BY <1>2 DEF RunStages
<1> QED BY <1>2, <1>3, <1>5, <1>6, StageOrder DEF ProgressInv, TypeOK

(* The ways a stage succeeds, and what it leaves.                           *)
Succeeds ==
    \/ ExtendProtocol \/ Seal \/ (Predict /\ ~RunsExist)
    \/ (GateIsolated \/ Summarize) /\ EndStage(0)

(* A stage that ends with 1 lets the supervisor reach nothing new.          *)
LEMMA EndFails ==
    ASSUME TypeOK, EndStage(1)
    PROVE  sup'.pc = "exit" /\ sup'.status = 1 /\ reached' <= reached
  BY DEF EndStage, TypeOK

(* A stage ends with one exit code.                                         *)
LEMMA OneCode ==
    ASSUME TypeOK, StageInv, sup.pc = "run", EndStage(0), EndStage(1)
    PROVE  FALSE
<1>1. sup'.pc = "exit" /\ sup'.status = 1
  BY EndFails
<1>2. sup'.pc = "exit" => sup'.status = 0
  <2>1. sup' = [sup EXCEPT !.at = @ + 1] \/ sup' = [sup EXCEPT !.pc = "exit", !.status = 0]
    BY DEF EndStage
  <2> QED BY <2>1 DEF TypeOK
<1> QED BY <1>1, <1>2

(* A summary that succeeds has seen every run of its stage.                 *)
LEMMA SummarySeen ==
    ASSUME TypeOK, StageInv, PoolInv, TakenInv, Summarize, EndStage(0)
    PROVE  (stage = "pilot" /\ PilotSeen) \/ (stage = "full" /\ FullSeen)
<1>1. /\ stage \in {"pilot", "full"} /\ ~raised /\ sup.pc = "run"
      /\ \A j \in Jobs : job[j] = "idle"
  BY DEF Summarize, Drained, StageInv
<1>2. \A r \in RunsOf(stage) : dir[r] \in Rows
  BY <1>1, RunSets DEF TakenInv, RunStages
<1>3. /\ \A r \in Summarized : Loads(r)
      /\ ~(stage = "pilot" /\ \E r \in Measured : Summary[r] = "other")
  BY <1>1, OneCode DEF Summarize
<1>4. CASE stage = "pilot"
  <2>1. ASSUME NEW r \in RunsOf("pilot") PROVE dir[r] \in Headed \ {"other"}
    <3>1. r \in Measured /\ r \in Runs /\ \A k \in Keys : <<r[1], k>> \in RunsOf("pilot")
      BY <2>1, RunSets
    <3>2. r \in Summarized
      BY <1>2, <1>4, <3>1 DEF Summarized, HasRecords, Rows, Headed
    <3>3. dir[r] \in Rows \ {"unstarted"} /\ RunState(dir[r]) # "other"
      BY <1>3, <1>4, <3>1, <3>2 DEF Loads, Summary
    <3> QED BY <3>3 DEF Rows, RunState
  <2> QED BY <1>4, <2>1 DEF PilotSeen
<1>5. CASE stage = "full"
  <2>1. {r \in RunsOf("full") : dir[r] \notin Headed} = Headless
    BY <1>1, <1>5, RunSets DEF Headless
  <2> QED BY <1>1, <1>5, <2>1 DEF TakenInv, RunStages, FullSeen
<1> QED BY <1>1, <1>4, <1>5

(* What each stage leaves behind when it succeeds.                          *)
LEMMA Successes ==
    ASSUME TypeOK, StageInv, PoolInv, TakenInv, Succeeds
    PROVE  /\ EndStage(0) /\ sup.pc = "run" /\ dir' = dir
           /\ \/ Stages[sup.at] = "prepare" /\ protocol' = "full" /\ UNCHANGED <<decisions, seal>>
              \/ Stages[sup.at] = "predict" /\ decisions' > 0 /\ seal' = decisions'
              \/ Stages[sup.at] = "decide" /\ stage = "seal" /\ seal' = decisions /\ decisions' = decisions
              \/ Stages[sup.at] = "isolated" /\ IsolatedSeen /\ UNCHANGED <<decisions, seal>>
              \/ Stages[sup.at] = "pilot" /\ PilotSeen /\ UNCHANGED <<decisions, seal>>
              \/ Stages[sup.at] = "full" /\ FullSeen /\ UNCHANGED <<decisions, seal>>
<1>1. CASE ExtendProtocol
  BY <1>1 DEF ExtendProtocol, StageInv, StageOf
<1>2. CASE Seal
  BY <1>2 DEF Seal, StageInv, StageOf
<1>3. CASE Predict /\ ~RunsExist
  BY <1>3 DEF Predict, Starting, TypeOK
<1>4. CASE GateIsolated /\ EndStage(0)
  <2>1. sup.pc = "run" /\ Stages[sup.at] = "isolated" /\ UNCHANGED files
    BY <1>4 DEF GateIsolated, StageInv, StageOf
  <2>2. \A r \in Isolated : Loads(r) /\ RunState(dir[r]) \in {"ok", "startup"}
    BY <1>4, <2>1, OneCode DEF GateIsolated
  <2>3. IsolatedSeen
    BY <2>2 DEF IsolatedSeen, Loads, Rows, Headed, RunState
  <2> QED BY <1>4, <2>1, <2>3 DEF files
<1>5. CASE Summarize /\ EndStage(0)
  BY <1>5, SummarySeen DEF Summarize, StageInv, StageOf
<1> QED BY <1>1, <1>2, <1>3, <1>4, <1>5 DEF Succeeds

(* Every other step reaches no further and makes no exit status 0.          *)
LEMMA Failures ==
    ASSUME TypeOK, StageInv, Next, ~Succeeds
    PROVE  /\ reached' <= reached
           /\ sup'.pc \in {"exit", "write"} /\ sup'.status = 0
                => sup.pc \in {"exit", "write"} /\ sup.status = 0
<1>1. ASSUME EndStage(1) PROVE reached' <= reached /\ ~(sup'.pc \in {"exit", "write"} /\ sup'.status = 0)
  BY <1>1, EndFails
<1>2. CASE UNCHANGED <<sup, reached>>
  BY <1>2 DEF TypeOK
<1>3. CASE (\E i \in 1 .. 5 : Start(i)) \/ OpenExitFile \/ WriteExitFile
  BY <1>3 DEF Start, OpenExitFile, WriteExitFile, TypeOK
<1>4. CASE Stop
  <2>1. reached' <= reached
    BY <1>4 DEF Stop, TypeOK
  <2>2. sup' = [sup EXCEPT !.pc = "idle"] \/ sup' = [sup EXCEPT !.pc = "exit", !.status = 1]
    BY <1>4 DEF Stop
  <2>3. sup'.pc = "idle" \/ sup'.status = 1
    BY <2>2 DEF TypeOK
  <2> QED BY <2>1, <2>3
<1>5. CASE PoolRaises \/ Predict \/ GateIsolated \/ Summarize
  BY <1>1, <1>5 DEF Succeeds, PoolRaises, Predict, GateIsolated, Summarize
<1>6. CASE Decide \/ StartPrepare \/ \E name \in RunStages : StartRuns(name)
  BY <1>1, <1>2, <1>6 DEF Decide, StartPrepare, StartRuns, Fill
<1>7. CASE Pool \/ Edit \/ Poll \/ WriteProtocol \/ \E j \in Jobs : Handle(j)
  BY <1>2, <1>7 DEF Pool, PrepareCase, BuildCase, FindRow, BeginRun, Launch, Finish, Moves, Edit, Poll,
                    WriteProtocol, Handle, pool
<1> QED
  BY <1>3, <1>4, <1>5, <1>6, <1>7 DEF Next, Main, Succeeds, RunStages

(* The design of the experiment is chosen once.                             *)
LEMMA SameDesign ==
    ASSUME Next
    PROVE  design' = design /\ Stages' = Stages /\ Counted' = Counted
<1>1. design' = design
  BY DEF Next, Main, Pool, Start, OpenExitFile, WriteExitFile, Poll, StartPrepare, StartRuns, Fill,
         EndStage, Predict, Decide, Seal, PrepareCase, BuildCase, FindRow, BeginRun, Launch, Finish,
         Moves, Handle, PoolRaises, WriteProtocol, ExtendProtocol, GateIsolated, Summarize, Stop, Edit
<1> QED BY <1>1 DEF Stages, Counted

(* The prediction is only written by its own stages, before any run.        *)
LEMMA DecisionsStep ==
    ASSUME TypeOK, Next, ~Predict, ~Decide, ~Seal
    PROVE  UNCHANGED <<decisions, seal>> /\ (stage' = "seal" => stage = "seal")
  BY DEF Next, Main, Pool, Start, OpenExitFile, WriteExitFile, Poll, StartPrepare, StartRuns, Fill,
         EndStage, PrepareCase, BuildCase, FindRow, BeginRun, Launch, Finish,
         Moves, Handle, PoolRaises, WriteProtocol, ExtendProtocol, GateIsolated, Summarize, Stop, Edit,
         files, pool

(* The predicting program sees runs exactly when some have begun.           *)
LEMMA RunsExistBegun ==
    ASSUME TypeOK
    PROVE  RunsExist <=> Begun # {}
  BY DEF RunsExist, Begun

(* Stages that were passed have left a protocol, a prediction and its seal. *)
LEMMA ProgressStep ==
    ASSUME TypeOK, StageInv, PoolInv, TakenInv, PrepareInv, ProgressInv, Next
    PROVE  ProgressInv'
<1> DEFINE Frozen == decisions > 0 /\ seal = decisions
<1> USE SameDesign
<1>1. reached \in 1 .. 6 /\ reached' \in 1 .. 6 /\ decisions \in Nat /\ seal \in Nat
      /\ design \in {"deadline", "confirm"} /\ sup.at \in 1 .. 5
  BY TypeStep, StageOrder DEF TypeOK
<1>2. PrepareInv' /\ (protocol = "full" => protocol' = "full")
  BY PrepareStep
<1>3. reached' > reached =>
        /\ Succeeds /\ sup.at = reached /\ reached' = reached + 1
  <2> SUFFICES ASSUME reached' > reached
               PROVE  Succeeds /\ sup.at = reached /\ reached' = reached + 1
    OBVIOUS
  <2>1. Succeeds
    BY <1>1, Failures
  <2>2. reached' = IF sup.at = reached THEN reached + 1 ELSE reached
    BY <2>1, Successes DEF EndStage
  <2> QED BY <1>1, <2>1, <2>2
<1>4. reached' >= 2 => protocol' = "full"
  <2>1. CASE reached >= 2
    BY <1>2, <2>1 DEF ProgressInv
  <2>2. CASE reached < 2 /\ reached' >= 2
    <3>1. Succeeds /\ sup.at = 1
      BY <1>1, <1>3, <2>2
    <3> QED BY <3>1, Successes, StageOrder DEF TypeOK
  <2> QED BY <1>1, <2>1, <2>2
<1>5. design = "deadline" => ~Decide /\ ~Seal
  BY <1>1, StageOrder DEF Decide, Seal, Starting, StageInv, StageOf, TypeOK
<1>6. design = "confirm" => ~Predict
  BY <1>1, StageOrder DEF Predict, Starting, TypeOK
<1>7. Predict => (decisions' > 0 /\ seal' = decisions') \/ UNCHANGED <<decisions, seal>>
  BY <1>1 DEF Predict, files
<1>8. design = "deadline" /\ reached' >= 3 => Frozen'
  <2> SUFFICES ASSUME design = "deadline", reached' >= 3 PROVE Frozen'
    OBVIOUS
  <2>1. CASE reached >= 3
    <3>1. Frozen
      BY <2>1 DEF ProgressInv
    <3> QED BY <1>5, <1>7, <3>1, DecisionsStep
  <2>2. CASE reached < 3
    <3>1. Succeeds /\ sup.at = 2
      BY <1>1, <1>3, <2>2
    <3> QED BY <3>1, Successes, StageOrder DEF TypeOK
  <2> QED BY <1>1, <2>1, <2>2
<1>9. Decide => \/ UNCHANGED <<decisions, seal>> /\ stage' # "seal"
                \/ decisions' = decisions + 1 /\ stage' = "seal" /\ ~RunsExist /\ UNCHANGED <<dir, aside>>
  BY DEF Decide, EndStage, files
<1>10. Seal => seal' = decisions /\ decisions' = decisions /\ stage' = "none" /\ stage = "seal"
  BY DEF Seal, EndStage
<1>11. design = "confirm" /\ reached' >= 4 => decisions' > 0 /\ (stage' = "seal" \/ seal' = decisions')
  <2> SUFFICES ASSUME design = "confirm", reached' >= 4
               PROVE  decisions' > 0 /\ (stage' = "seal" \/ seal' = decisions')
    OBVIOUS
  <2>1. CASE reached >= 4
    <3>1. decisions > 0 /\ (stage = "seal" \/ seal = decisions)
      BY <2>1 DEF ProgressInv
    <3>2. CASE Decide \/ Seal
      <4>1. Decide => stage # "seal"
        BY DEF Decide, Starting
      <4>2. Decide => decisions' > 0 /\ (stage' = "seal" \/ seal' = decisions')
        BY <1>1, <1>9, <3>1, <4>1
      <4> QED BY <1>10, <3>1, <3>2, <4>2
    <3>3. CASE ~Decide /\ ~Seal
      <4>1. UNCHANGED <<decisions, seal>>
        BY <1>6, <3>3, DecisionsStep
      <4>2. stage = "seal" => stage' = "seal"
        <5> SUFFICES ASSUME stage = "seal", stage' # "seal" PROVE FALSE
          OBVIOUS
        <5>1. sup.at = 3 /\ sup.pc = "run"
          BY <1>1, StageOrder DEF StageInv, StageOf, TypeOK
        <5>2. CASE Stop
          <6>1. reached' = 3
            BY <1>1, <2>1, <5>1, <5>2 DEF Stop
          <6> QED BY <6>1
        <5>3. CASE ~Stop
          BY <3>3, <5>1, <5>3, RunSets
             DEF Next, Main, Pool, Start, OpenExitFile, WriteExitFile, Poll, StartPrepare, StartRuns,
                 Starting, Predict, PrepareCase, BuildCase, FindRow, BeginRun, Launch, Finish, Moves,
                 Handle, PoolRaises, WriteProtocol, ExtendProtocol, GateIsolated, Summarize, Edit, pool
        <5> QED BY <5>2, <5>3
      <4> QED BY <3>1, <4>1, <4>2
    <3> QED BY <3>2, <3>3
  <2>2. CASE reached < 4
    <3>1. Succeeds /\ sup.at = 3
      BY <1>1, <1>3, <2>2
    <3>2. seal' = decisions /\ decisions' = decisions /\ stage = "seal"
      BY <3>1, Successes, StageOrder DEF TypeOK
    <3> QED BY <3>2 DEF ProgressInv
  <2> QED BY <1>1, <2>1, <2>2
<1>12. stage' = "seal" => Begun' = {} /\ decisions' > 0
  <2> SUFFICES ASSUME stage' = "seal" PROVE Begun' = {} /\ decisions' > 0
    OBVIOUS
  <2>1. CASE Decide
    <3>1. decisions' = decisions + 1 /\ ~RunsExist /\ UNCHANGED <<dir, aside>>
      BY <1>9, <2>1
    <3>2. Begun' = Begun
      BY <3>1 DEF Begun
    <3> QED BY <1>1, <3>1, <3>2, RunsExistBegun
  <2>2. CASE ~Decide
    <3>1. ~Seal /\ ~Predict
      BY <1>10 DEF Predict, EndStage
    <3>2. stage = "seal" /\ UNCHANGED <<decisions, seal>>
      BY <2>2, <3>1, DecisionsStep
    <3>3. \A r \in Counted : job[r] # "bare"
      BY <3>2, RunsAllowed DEF RunStages
    <3> QED BY <3>2, <3>3, BegunStep DEF ProgressInv
  <2> QED BY <2>1, <2>2
<1>13. RunsAfterPrediction'
  <2> SUFFICES ASSUME Begun' # {}
               PROVE  Frozen' /\ protocol' = "full" /\ AllBuilt'
    BY DEF RunsAfterPrediction, AllBuilt
  <2>1. Frozen /\ protocol = "full" /\ (Begun # {} \/ stage \in RunStages)
    <3>1. CASE Begun # {}
      BY <3>1 DEF ProgressInv, RunsAfterPrediction
    <3>2. CASE Begun = {}
      <4>1. PICK r \in Begun' : r \in Counted /\ job[r] = "bare"
        BY <3>2, BegunStep
      <4> QED BY <4>1, RunsAllowed
    <3> QED BY <3>1, <3>2
  <2>2. protocol' = "full" /\ AllBuilt'
    BY <1>2, <2>1 DEF PrepareInv
  <2>3. UNCHANGED <<decisions, seal>>
    <3>1. CASE Seal
      BY <1>10, <2>1, <3>1
    <3>2. CASE Decide \/ Predict
      <4>1. stage = "none"
        BY <3>2 DEF Decide, Predict, Starting
      <4>2. RunsExist
        BY <2>1, <4>1, RunsExistBegun DEF RunStages
      <4> QED BY <3>2, <4>2 DEF Decide, Predict, files
    <3> QED BY <3>1, <3>2, DecisionsStep
  <2> QED BY <2>1, <2>2, <2>3
<1> QED BY <1>4, <1>8, <1>11, <1>12, <1>13 DEF ProgressInv
-----------------------------------------------------------------------------
(* The evidence.                                                            *)
LEMMA CleanStep ==
    ASSUME TypeOK, PoolInv, CleanEvidence, Next
    PROVE  CleanEvidence'
<1>1. ASSUME NEW r \in Runs, dir'[r] = "ok" PROVE r \notin tainted'
  <2>1. CASE \E q \in Runs : BeginRun(q)
    <3>1. PICK q \in Runs : BeginRun(q)
      BY <2>1
    <3>2. dir[r] = "ok" /\ tainted' = tainted \ {q}
      BY <1>1, <3>1 DEF BeginRun, TypeOK
    <3> QED BY <1>1, <3>2 DEF CleanEvidence
  <2>2. CASE \E q \in Runs : Finish(q)
    <3>1. PICK q \in Runs : Finish(q)
      BY <2>2
    <3>2. PICK log \in LogKinds : dir' = [dir EXCEPT ![q] = RowOf(log, q)] /\ UNCHANGED world
      BY <3>1 DEF Finish
    <3>3. tainted' = tainted
      BY <3>2 DEF world
    <3>4. CASE q = r
      <4>1. RowOf(log, r) = "ok"
        BY <1>1, <3>2, <3>4 DEF TypeOK
      <4>2. Unchanged(r)
        BY <4>1 DEF RowOf
      <4> QED BY <3>3, <4>2 DEF Unchanged
    <3>5. CASE q # r
      BY <1>1, <3>2, <3>3, <3>5 DEF TypeOK, CleanEvidence
    <3> QED BY <3>4, <3>5
  <2>3. CASE Edit
    <3>1. dir[r] = "ok" /\ tainted' = tainted \cup (Busy \cap Runs)
      BY <1>1, <2>3 DEF Edit, files
    <3>2. r \notin Busy
      BY <1>1, <3>1 DEF PoolInv, Busy, Working
    <3> QED BY <1>1, <3>1, <3>2 DEF CleanEvidence
  <2>4. CASE ~Edit /\ \A q \in Runs : ~BeginRun(q) /\ ~Finish(q)
    <3>1. tainted' = tainted
      BY <2>4 DEF Next, Main, Pool, Start, OpenExitFile, WriteExitFile, Poll, StartPrepare, StartRuns,
             Fill, EndStage, Predict, Decide, Seal, PrepareCase, BuildCase, FindRow, Launch, Handle,
             PoolRaises, WriteProtocol, ExtendProtocol, GateIsolated, Summarize, Stop, world
    <3>2. dir[r] = "ok"
      <4>1. CASE \E q \in Runs : Launch(q)
        BY <1>1, <4>1 DEF Launch, TypeOK
      <4>2. CASE Stop
        BY <1>1, <4>2 DEF Stop
      <4>3. CASE ~Stop /\ \A q \in Runs : ~Launch(q)
        <5>1. dir' = dir
          BY <2>4, <4>3 DEF Next, Main, Pool, Start, OpenExitFile, WriteExitFile, Poll, StartPrepare,
                 StartRuns, Fill, Predict, Decide, Seal, PrepareCase, BuildCase, FindRow,
                 Handle, PoolRaises, WriteProtocol, ExtendProtocol, GateIsolated, Summarize, files
        <5> QED BY <1>1, <5>1
      <4> QED BY <4>1, <4>2, <4>3
    <3> QED BY <1>1, <3>1, <3>2 DEF CleanEvidence
  <2> QED BY <2>1, <2>2, <2>3, <2>4
<1>2. ASSUME NEW r \in Measured, results'[r] = "ok" PROVE dir'[r] = "ok"
  <2>1. CASE results' = results
    BY <1>2, <2>1, SeenKept, RunSets DEF CleanEvidence, Headed
  <2>2. CASE results' # results
    <3>1. results' = Summary /\ dir' = dir
      BY <2>2 DEF Next, Main, Pool, Start, OpenExitFile, WriteExitFile, Poll, StartPrepare, StartRuns,
             Fill, EndStage, Predict, Decide, Seal, PrepareCase, BuildCase, FindRow, BeginRun, Launch,
             Finish, Handle, PoolRaises, WriteProtocol, ExtendProtocol, GateIsolated, Summarize, Stop,
             Edit, files
    <3>2. RunState(dir[r]) = "ok"
      BY <1>2, <3>1 DEF Summary
    <3> QED BY <3>1, <3>2 DEF RunState
  <2> QED BY <2>1, <2>2
<1> QED BY <1>1, <1>2 DEF CleanEvidence

(* Which stages come before the n-th.                                       *)
Before(n, name) == \E i \in 1 .. n - 1 : Stages[i] = name

(* Where the gates stand in the two orders of stages.                       *)
LEMMA BeforeCases ==
    ASSUME design \in DOMAIN Order, NEW n \in 1 .. 6
    PROVE  /\ Before(n, "isolated") <=> n > IF design = "deadline" THEN 3 ELSE 2
           /\ Before(n, "pilot") <=> n > 4
           /\ Before(n, "full") <=> n > 5
<1>1. \A i \in 1 .. 5 :
        /\ Stages[i] = "isolated" <=> i = IF design = "deadline" THEN 3 ELSE 2
        /\ Stages[i] = "pilot" <=> i = 4
        /\ Stages[i] = "full" <=> i = 5
  BY StageOrder
<1>2. \A i : i \in 1 .. n - 1 <=> i \in 1 .. 5 /\ i < n
  OBVIOUS
<1> QED BY <1>1, <1>2 DEF Before

(* Stages that were passed leave their evidence, and the exit file stands   *)
(* for it.                                                                  *)
LEMMA EvidenceStep ==
    ASSUME TypeOK, StageInv, PoolInv, TakenInv, StagesLeaveEvidence, ExitInv, Next
    PROVE  StagesLeaveEvidence' /\ ExitInv'
<1>1. /\ design \in DOMAIN Order /\ reached \in 1 .. 6 /\ sup.at \in 1 .. 5
      /\ design' = design /\ reached' \in 1 .. 6
  BY TypeStep, SameDesign DEF TypeOK
<1>2. /\ IsolatedSeen => IsolatedSeen'
      /\ PilotSeen => PilotSeen'
      /\ FullSeen => FullSeen'
  BY SeenKept
<1>3. /\ Passed("isolated") <=> reached > IF design = "deadline" THEN 3 ELSE 2
      /\ Passed("pilot") <=> reached > 4
      /\ Passed("full") <=> reached > 5
  BY <1>1, BeforeCases DEF Passed, Before
<1>4. /\ Passed("isolated")' <=> reached' > IF design = "deadline" THEN 3 ELSE 2
      /\ Passed("pilot")' <=> reached' > 4
      /\ Passed("full")' <=> reached' > 5
  <2>1. \A name : Passed(name)' <=> Before(reached', name)
    BY SameDesign DEF Passed, Before
  <2> QED BY <1>1, <2>1, BeforeCases
<1>5. CASE Succeeds
  <2>1. /\ EndStage(0) /\ sup.pc = "run" /\ sup.at <= reached
        /\ reached' = IF sup.at = reached THEN reached + 1 ELSE reached
    BY <1>5, Successes DEF StageInv, EndStage
  <2>2. /\ sup.at = (IF design = "deadline" THEN 3 ELSE 2) => IsolatedSeen
        /\ sup.at = 4 => PilotSeen
        /\ sup.at = 5 => FullSeen
    BY <1>1, <1>5, Successes, StageOrder
  <2>3. StagesLeaveEvidence'
    BY <1>1, <1>2, <1>3, <1>4, <2>1, <2>2 DEF StagesLeaveEvidence
  <2>4. sup'.pc \in {"exit", "write"} => AllSeen'
    <3> SUFFICES ASSUME sup'.pc \in {"exit", "write"} PROVE AllSeen'
      OBVIOUS
    <3>1. sup.at = 5
      <4>0. Len(Stages) = 5
        BY <1>1, StageOrder
      <4> SUFFICES ASSUME sup.at < Len(Stages) PROVE FALSE
        BY <1>1, <4>0
      <4>1. sup' = [sup EXCEPT !.at = @ + 1]
        BY <2>1 DEF EndStage
      <4> QED BY <2>1, <4>1 DEF TypeOK
    <3> QED BY <1>1, <1>2, <1>3, <2>1, <2>2, <3>1 DEF AllSeen, StagesLeaveEvidence
  <2>5. exitFile' = exitFile /\ succ' = succ
    BY <2>1 DEF EndStage
  <2> QED BY <1>2, <2>3, <2>4, <2>5 DEF ExitInv, AllSeen, StartsAfterSuccess
<1>6. CASE ~Succeeds
  <2>1. /\ reached' <= reached
        /\ sup'.pc \in {"exit", "write"} /\ sup'.status = 0
             => sup.pc \in {"exit", "write"} /\ sup.status = 0
    BY <1>6, Failures
  <2>2. StagesLeaveEvidence'
    BY <1>1, <1>2, <1>3, <1>4, <2>1 DEF StagesLeaveEvidence
  <2>3. exitFile' = "0" => exitFile = "0" \/ (sup.pc \in {"exit", "write"} /\ sup.status = 0)
    BY DEF Next, Main, Pool, Start, OpenExitFile, WriteExitFile, Poll, StartPrepare, StartRuns,
           Fill, EndStage, Predict, Decide, Seal, PrepareCase, BuildCase, FindRow, BeginRun, Launch,
           Finish, Moves, Handle, PoolRaises, WriteProtocol, ExtendProtocol, GateIsolated, Summarize, Stop,
           Edit, files
  <2>4. succ' = "started" => succ = "started" \/ exitFile = "0"
    BY DEF Next, Main, Pool, Start, OpenExitFile, WriteExitFile, Poll, StartPrepare, StartRuns,
           Fill, EndStage, Predict, Decide, Seal, PrepareCase, BuildCase, FindRow, BeginRun, Launch,
           Finish, Moves, Handle, PoolRaises, WriteProtocol, ExtendProtocol, GateIsolated, Summarize, Stop,
           Edit, files
  <2> QED BY <1>2, <2>1, <2>2, <2>3, <2>4 DEF ExitInv, AllSeen, StartsAfterSuccess
<1> QED BY <1>5, <1>6
-----------------------------------------------------------------------------

(* A disk without an experiment satisfies the invariant.                    *)
LEMMA InitInv == Init => StagedInv
<1> SUFFICES ASSUME Init PROVE StagedInv
  OBVIOUS
<1>1. TypeOK
  BY TypeInit
<1>2. StageInv /\ PoolInv /\ TakenInv /\ PrepareInv
  BY RunSets DEF Init, StageInv, PoolInv, TakenInv, PrepareInv, RunStages, PoolStages
<1>3. Begun = {}
  BY RunSets DEF Init, Begun, Counted, HasRecords
<1>4. ProgressInv
  BY <1>3 DEF Init, ProgressInv, RunsAfterPrediction
<1>5. CleanEvidence
  BY DEF Init, CleanEvidence
<1>6. StagesLeaveEvidence /\ ExitInv
  <2>1. \A name : ~Passed(name)
    BY DEF Init, Passed
  <2> QED BY <2>1 DEF Init, StagesLeaveEvidence, ExitInv, StartsAfterSuccess
<1> QED BY <1>1, <1>2, <1>4, <1>5, <1>6 DEF StagedInv

(* Every step keeps the invariant.                                          *)
LEMMA StepInv == StagedInv /\ [Next]_vars => StagedInv'
<1> SUFFICES ASSUME StagedInv, [Next]_vars PROVE StagedInv'
  OBVIOUS
<1>1. CASE Next
  BY <1>1, TypeStep, StageStep, PoolStep, TakenStep, PrepareStep, ProgressStep, CleanStep, EvidenceStep
     DEF StagedInv
<1>2. CASE UNCHANGED vars
  BY <1>2 DEF vars, files, pool, world, StagedInv, TypeOK, StageInv, PoolInv, TakenInv, Headless,
              PrepareInv, AllBuilt, ProgressInv, RunsAfterPrediction, Begun, Counted, CleanEvidence,
              StagesLeaveEvidence, Passed, IsolatedSeen, PilotSeen, FullSeen, ExitInv, AllSeen,
              StartsAfterSuccess, Stages
<1> QED BY <1>1, <1>2

(* The inductive invariant of a staged experiment, for any task sets, keys, *)
(* pool and limits, and any number of stops and edits.                      *)
THEOREM StagedInvariant == Spec => []StagedInv
BY InitInv, StepInv, PTL DEF Spec

(* Every variable of StagedExperiment keeps its type.                       *)
THEOREM StagedTypes == Spec => []TypeOK
<1>1. StagedInv => TypeOK
  BY DEF StagedInv
<1> QED BY <1>1, StagedInvariant, PTL

(* No stop, resume or choice of stages lets a predicted run begin before    *)
(* its prediction is sealed (confirm_decide.py, deadline_analysis.py).      *)
THEOREM PredictionFirst == Spec => []RunsAfterPrediction
<1>1. StagedInv => RunsAfterPrediction
  BY DEF StagedInv, ProgressInv
<1> QED BY <1>1, StagedInvariant, PTL

(* A run whose inputs or simulator changed never counts as ok               *)
(* (rtems_periodic.py run, run.py load_batch).                              *)
THEOREM ChangedNeverOk == Spec => []CleanEvidence
<1>1. StagedInv => CleanEvidence
  BY DEF StagedInv
<1> QED BY <1>1, StagedInvariant, PTL

(* A stage that exited 0 leaves the evidence its gate asks for              *)
(* (bi_run.py, hl_run.py summarize, run.py run_specs).                      *)
THEOREM EvidenceIsLeft == Spec => []StagesLeaveEvidence
<1>1. StagedInv => StagesLeaveEvidence
  BY DEF StagedInv
<1> QED BY <1>1, StagedInvariant, PTL

(* The waiting supervisor starts on evidence only, however old the exit     *)
(* file it finds (deadline-ladder-v1.sh).                                   *)
THEOREM SuccessorWaits == Spec => []StartsAfterSuccess
<1>1. StagedInv => StartsAfterSuccess
  BY DEF StagedInv, ExitInv
<1> QED BY <1>1, StagedInvariant, PTL

(* Records stay where they are or move aside whole, through every stop and  *)
(* rerun (run.py execute).                                                  *)
THEOREM RecordsStay == Spec => NoRecordLost
<1> DEFINE Kept == \A r \in Runs :
         /\ dir[r] \in Headed => dir'[r] = dir[r]
         /\ dir[r] \in {"empty", "partial", "unstarted"} /\ dir'[r] # dir[r] =>
               job[r] = "running" \/ aside'[r] = Append(aside[r], dir[r])
         /\ \A i \in DOMAIN aside[r] : i \in DOMAIN aside'[r] /\ aside'[r][i] = aside[r][i]
<1>1. ASSUME StagedInv, [Next]_vars PROVE [Kept]_vars
  <2> SUFFICES ASSUME Next, NEW r \in Runs
               PROVE  /\ dir[r] \in Headed => dir'[r] = dir[r]
                      /\ dir[r] \in {"empty", "partial", "unstarted"} /\ dir'[r] # dir[r] =>
                           job[r] = "running" \/ aside'[r] = Append(aside[r], dir[r])
                      /\ \A i \in DOMAIN aside[r] :
                           i \in DOMAIN aside'[r] /\ aside'[r][i] = aside[r][i]
    BY <1>1
  <2> USE <1>1 DEF StagedInv
  <2>1. aside[r] \in Seq(Contents \ (Headed \cup {"absent", "torn"}))
    BY DEF TypeOK
  <2>2. CASE Begins(r)
    <3>1. CASE dir[r] = "absent"
      BY <2>2, <3>1 DEF Begins, Headed
    <3>2. CASE dir[r] # "absent"
      <4>1. aside'[r] = Append(aside[r], dir[r])
        BY <2>2, <3>2 DEF Begins
      <4>2. \A i \in DOMAIN aside[r] : i \in DOMAIN aside'[r] /\ aside'[r][i] = aside[r][i]
        BY <2>1, <4>1
      <4> QED BY <2>2, <4>1, <4>2 DEF Begins
    <3> QED BY <3>1, <3>2
  <2>3. CASE Launches(r) \/ Ends(r) \/ Keeps(r)
    BY <2>3 DEF Launches, Ends, Keeps, Headed
  <2> QED BY <2>2, <2>3, DirStep
<1>2. Spec => [][Kept]_vars
  BY <1>1, StagedInvariant, PTL DEF Spec
<1> QED BY <1>2 DEF NoRecordLost
-----------------------------------------------------------------------------
(* What the abstract experiment keeps of a run.                             *)
Kept == [r \in Runs |-> IF r \in Counted /\ dir[r] \in Headed THEN dir[r] ELSE "none"]

(* A prediction is written before any run begins.                           *)
LEMMA PredictsOnce ==
    ASSUME StagedInv, Next, decisions' # decisions
    PROVE  Begun = {} /\ Begun' = {} /\ decisions' = decisions + 1 /\ dir' = dir
<1>1. CASE Predict
  BY <1>1, RunsExistBegun, SameDesign DEF Predict, files, StagedInv, Begun
<1>2. CASE Decide
  BY <1>2, RunsExistBegun, SameDesign DEF Decide, files, StagedInv, Begun
<1>3. ~Seal
  BY DEF Seal
<1> QED BY <1>1, <1>2, <1>3, DecisionsStep DEF StagedInv

(* A launch begins a counted run after a prediction, or changes nothing the *)
(* abstract experiment sees.                                                *)
LEMMA LaunchMaps ==
    ASSUME StagedInv, Next, NEW r \in Runs, Launch(r)
    PROVE  /\ Kept' = Kept /\ decisions' = decisions
           /\ Begun' = Begun \/ (Begun' = Begun \cup {r} /\ decisions > 0)
<1> USE SameDesign DEF StagedInv
<1>1. /\ job[r] = "bare" /\ dir[r] = "bare" /\ aside' = aside /\ decisions' = decisions
      /\ dir' = [dir EXCEPT ![r] = "empty"] \/ dir' = [dir EXCEPT ![r] = "unstarted"]
  BY DEF Launch, Moves, PoolInv
<1>2. /\ \A q \in Runs \ {r} : dir'[q] = dir[q]
      /\ dir'[r] \in {"empty", "unstarted"}
  BY <1>1 DEF TypeOK
<1>3. Kept' = Kept
  BY <1>1, <1>2 DEF Kept, Headed
<1>4. Begun \subseteq Begun' /\ Begun' \subseteq Begun \cup {r}
  BY <1>1, <1>2, BegunStep, RunSets DEF Begun, Counted
<1>5. Begun' # Begun => decisions > 0
  BY <1>1, <1>4, BegunStep, RunsAllowed
<1> QED BY <1>1, <1>3, <1>4, <1>5

(* The end of a run records it, or changes nothing the abstract experiment  *)
(* sees.                                                                    *)
LEMMA FinishMaps ==
    ASSUME StagedInv, Next, NEW r \in Runs, Finish(r)
    PROVE  /\ Begun' = Begun /\ decisions' = decisions
           /\ \/ Kept' = Kept
              \/ /\ r \in Begun /\ Kept[r] = "none"
                 /\ \E e \in Headed : Kept' = [Kept EXCEPT ![r] = e]
<1> USE SameDesign DEF StagedInv
<1>1. PICK log \in LogKinds : /\ job[r] = "running" /\ dir[r] = "empty"
                              /\ dir' = [dir EXCEPT ![r] = RowOf(log, r)]
                              /\ aside' = aside /\ decisions' = decisions
  BY DEF Finish, Moves, PoolInv
<1>2. \A q \in Runs \ {r} : dir'[q] = dir[q]
  BY <1>1 DEF TypeOK
<1>3. Begun' = Begun
  BY <1>1, <1>2, BegunStep, RunSets DEF Begun, Counted
<1>4. CASE r \in Counted /\ dir'[r] \in Headed
  <2>1. r \in Begun /\ Kept[r] = "none"
    BY <1>1, <1>4 DEF Begun, HasRecords, Kept, Headed
  <2>2. Kept' = [Kept EXCEPT ![r] = dir'[r]]
    BY <1>2, <1>4 DEF Kept
  <2> QED BY <1>1, <1>3, <1>4, <2>1, <2>2
<1>5. CASE ~(r \in Counted /\ dir'[r] \in Headed)
  <2>1. Kept' = Kept
    BY <1>1, <1>2, <1>5 DEF Kept, Headed
  <2> QED BY <1>1, <1>3, <2>1
<1> QED BY <1>4, <1>5

(* Every other step leaves begun runs and their records alone.              *)
LEMMA OthersMap ==
    ASSUME StagedInv, Next, \A r \in Runs : ~Launch(r) /\ ~Finish(r)
    PROVE  Begun' = Begun /\ Kept' = Kept
<1> USE SameDesign DEF StagedInv
<1>1. \A r \in Runs : Begins(r) \/ (Ends(r) /\ dir'[r] = "torn") \/ Keeps(r)
  BY DirStep DEF Launches, Ends
<1>2. Kept' = Kept
  BY <1>1 DEF Kept, Begins, Ends, Keeps, Headed
<1>3. \A r \in Begun' \ Begun : Launch(r)
  BY BegunStep
<1>4. Begun' \subseteq Runs
  BY RunSets DEF Begun, Counted
<1>5. Begun' = Begun
  BY <1>3, <1>4, BegunStep
<1> QED BY <1>2, <1>5

(* The staged experiment implements PreRegistration: the prediction is      *)
(* frozen before the first predicted run and evidence is never replaced.    *)
THEOREM ImplementsRegistration == Spec => RegisteredSpec
<1>1. Init => Registered!Init
  <2> SUFFICES ASSUME Init PROVE Registered!Init
    OBVIOUS
  <2>1. Begun = {} /\ \A r \in Runs : dir[r] = "absent"
    BY RunSets DEF Init, Begun, Counted, HasRecords
  <2> QED BY <2>1 DEF Init, Registered!Init, Headed
<1>2. StagedInv /\ [Next]_vars => [Registered!Next]_Registered!vars
  <2> SUFFICES ASSUME StagedInv, Next PROVE [Registered!Next]_Registered!vars
    BY DEF vars, files, Registered!vars, Begun, Counted
  <2>1. CASE decisions' # decisions
    <3>1. Begun = {} /\ Begun' = {} /\ decisions' = decisions + 1 /\ Kept' = Kept
      BY <2>1, PredictsOnce, SameDesign DEF Kept
    <3>2. Registered!Freeze
      BY <3>1 DEF Registered!Freeze, Kept
    <3> QED BY <3>2 DEF Registered!Next
  <2>2. ASSUME decisions' = decisions, NEW r \in Runs, Launch(r) PROVE [Registered!Next]_Registered!vars
    <3>1. /\ Kept' = Kept
          /\ Begun' = Begun \/ (Begun' = Begun \cup {r} /\ decisions > 0)
      BY <2>2, LaunchMaps
    <3>2. (Begun' = Begun \cup {r} /\ decisions > 0) => Registered!Begin(r)
      BY <2>2, <3>1 DEF Registered!Begin, Kept
    <3>3. Begun' = Begun => UNCHANGED Registered!vars
      BY <2>2, <3>1 DEF Registered!vars, Kept
    <3> QED BY <3>1, <3>2, <3>3 DEF Registered!Next
  <2>3. ASSUME decisions' = decisions, NEW r \in Runs, Finish(r) PROVE [Registered!Next]_Registered!vars
    <3>1. /\ Begun' = Begun
          /\ \/ Kept' = Kept
             \/ /\ r \in Begun /\ Kept[r] = "none"
                /\ \E e \in Headed : Kept' = [Kept EXCEPT ![r] = e]
      BY <2>3, FinishMaps
    <3>2. CASE Kept' = Kept
      BY <2>3, <3>1, <3>2 DEF Registered!vars, Kept
    <3>3. CASE Kept' # Kept
      <4>1. Registered!Keep(r)
        BY <2>3, <3>1, <3>3 DEF Registered!Keep, Kept
      <4> QED BY <4>1 DEF Registered!Next
    <3> QED BY <3>2, <3>3
  <2>4. CASE decisions' = decisions /\ \A r \in Runs : ~Launch(r) /\ ~Finish(r)
    <3>1. Begun' = Begun /\ Kept' = Kept
      BY <2>4, OthersMap
    <3> QED BY <2>4, <3>1 DEF Registered!vars, Kept
  <2> QED BY <2>1, <2>2, <2>3, <2>4
<1> QED BY <1>1, <1>2, StagedInvariant, PTL DEF Spec, RegisteredSpec, Registered!Spec
=============================================================================
