------------------------ MODULE EventCompressionProofs ------------------------
(***************************************************************************)
(* Inv is an inductive invariant of EventCompression for any number of     *)
(* analyses, workers and files and any limit, and the pipeline implements  *)
(* RawEventStore.                                                          *)
(*                                                                         *)
(* The proof takes the conjuncts of Inv one lemma each.  In every lemma a  *)
(* step that touches none of the variables a conjunct speaks of is left to *)
(* one leaf, the others have a step of their own.                          *)
(***************************************************************************)
EXTENDS EventCompression, FiniteSetTheorems, TLAPS

USE DEF Files

\* The file of a newest reservation is a file of its analysis.
LEMMA CurrentFile ==
  ASSUME TypeOK, CurrentInv, NEW p \in Analyses,
         pc[p] \in InBody \cup {"release"}
  PROVE  Current(p) \in Files
BY FilesAssumption DEF TypeOK, CurrentInv, Current

\* Every state has the types of TypeOK after any step: in particular no stack
\* of reservations goes below zero or beyond the files of the analysis.
LEMMA TypeStep ==
  ASSUME TypeOK, CurrentInv, ExecutorInv, Next
  PROVE  TypeOK'
<1> USE FilesAssumption, NoneAssumption DEF TypeOK, Labels, Stages
<1>1. ASSUME NEW p \in Analyses, Reserve(p)
      PROVE  TypeOK'
  <2>1. CASE ReserveBlocks(p)
    BY <2>1 DEF ReserveBlocks, AtReserve, MayProceed, executorVars, diskVars
  <2>2. CASE ReserveRefused(p)
    BY <2>2 DEF ReserveRefused, AtReserve, Goto, queueVars, executorVars, diskVars
  <2>3. CASE ReserveGranted(p)
    BY <2>3 DEF ReserveGranted, AtReserve, Goto, CurrentInv, executorVars, diskVars
  <2> QED BY <1>1, <2>1, <2>2, <2>3 DEF Reserve
<1>2. ASSUME NEW p \in Analyses, Body(p)
      PROVE  TypeOK'
  <2>1. CASE Export(p)
    BY <2>1, CurrentFile DEF Export, InBody, Goto, queueVars, executorVars
  <2>2. CASE CheckPasses(p)
    BY <2>2 DEF CheckPasses, Goto, queueVars, executorVars, diskVars
  <2>3. CASE BodyFails(p)
    BY <2>3 DEF BodyFails, Goto, queueVars, executorVars, diskVars
  <2>4. CASE Submit(p)
    <3>1. Current(p) \in Files
      BY <2>4, CurrentFile DEF Submit, InBody
    <3>2. tasks' \in Seq(Files)
      BY <2>4, <3>1 DEF Submit
    <3>3. future' \in [Files -> {"none", "pending", "ok", "error"}]
      BY <2>4, <3>1 DEF Submit
    <3> QED BY <2>4, <3>2, <3>3 DEF Submit, Goto, queueVars, diskVars
  <2>5. CASE MarkSubmitted(p)
    BY <2>5, CurrentFile DEF MarkSubmitted, InBody, Goto, queueVars, executorVars, diskVars
  <2>6. CASE AwaitError(p) \/ Publish(p) \/ InputsChanged(p)
    BY <2>6 DEF AwaitError, Publish, InputsChanged, Goto, queueVars, executorVars, diskVars
  <2> QED BY <1>2, <2>1, <2>2, <2>3, <2>4, <2>5, <2>6 DEF Body
<1>3. ASSUME NEW p \in Analyses, Unwind(p) \/ Interrupt(p)
      PROVE  TypeOK'
  <2>1. CASE UnwindFail(p)
    BY <2>1 DEF UnwindFail, Fail, NotifyAll, Goto, executorVars, diskVars
  <2>2. CASE UnwindRelease(p)
    BY <2>2 DEF UnwindRelease, Release, NotifyAll, CurrentInv, Goto,
                queueVars, executorVars, diskVars
  <2>3. CASE UnwindEnds(p)
    BY <2>3 DEF UnwindEnds, Goto, queueVars, executorVars, diskVars
  <2>4. CASE Interrupt(p)
    BY <2>4 DEF Interrupt, Goto, executorVars, diskVars
  <2> QED BY <1>3, <2>1, <2>2, <2>3, <2>4 DEF Unwind
<1>4. ASSUME NEW w \in Workers, Archive(w)
      PROVE  TypeOK'
  <2>1. CASE Take(w)
    BY <2>1 DEF Take, Stage, queueVars, diskVars
  <2>2. CASE Compress(w)
    BY <2>2 DEF Compress, Stage, ExecutorInv, queueVars
  <2>3. CASE Unlink(w)
    BY <2>3 DEF Unlink, Stage, queueVars
  <2>4. CASE ArchiveFails(w)
    BY <2>4 DEF ArchiveFails, Fail, NotifyAll, diskVars
  <2>5. CASE ReleaseArchived(w)
    <3>1. stage' \in [Workers -> Stages]
      BY <2>5 DEF ReleaseArchived, Stage
    <3>2. /\ active' \in Int
          /\ held' \in SUBSET Files
          /\ waiting' \in SUBSET Analyses
          /\ failed' \in BOOLEAN
      BY <2>5 DEF ReleaseArchived, Release, NotifyAll
    <3> QED BY <2>5, <3>1, <3>2 DEF ReleaseArchived, diskVars
  <2>6. CASE Settle(w)
    BY <2>6 DEF Settle, queueVars, diskVars
  <2> QED BY <1>4, <2>1, <2>2, <2>3, <2>4, <2>5, <2>6 DEF Archive
<1>5. CASE Shutdown
  BY <1>5 DEF Shutdown, queueVars, executorVars, diskVars
<1>6. CASE Finished
  BY <1>6 DEF Finished, vars, queueVars, executorVars, diskVars
<1> QED BY <1>1, <1>2, <1>3, <1>4, <1>5, <1>6 DEF Next, Analysis

\* A step moves only the stack of the analysis that takes it.
LEMMA CurrentStep ==
  ASSUME TypeOK, CurrentInv, Next
  PROVE  CurrentInv'
<1> USE FilesAssumption DEF TypeOK, Labels, CurrentInv, InBody
<1>1. ASSUME NEW p \in Analyses, Reserve(p)
      PROVE  CurrentInv'
  BY <1>1 DEF Reserve, ReserveBlocks, ReserveRefused, ReserveGranted, AtReserve, Goto
<1>2. ASSUME NEW p \in Analyses, Body(p)
      PROVE  CurrentInv'
  <2>1. CASE MarkSubmitted(p)
    BY <2>1 DEF MarkSubmitted, Goto
  <2> QED BY <1>2, <2>1 DEF Body, Export, CheckPasses, BodyFails, Submit, AwaitError,
               Publish, InputsChanged, AwaitedAll, Goto
<1>3. ASSUME NEW p \in Analyses, Unwind(p) \/ Interrupt(p)
      PROVE  CurrentInv'
  BY <1>3 DEF Unwind, UnwindFail, UnwindRelease, UnwindEnds, Interrupt, Goto
<1>4. ASSUME NEW w \in Workers, Archive(w)
      PROVE  CurrentInv'
  BY <1>4 DEF Archive, Take, Compress, Unlink, ArchiveFails, ReleaseArchived, Settle
<1>5. CASE Shutdown \/ Finished
  BY <1>5 DEF Shutdown, Finished, vars
<1> QED BY <1>1, <1>2, <1>3, <1>4, <1>5 DEF Next, Analysis

\* A submitted file enters the executor once; a worker takes it out of the
\* queue and settles its future when it drops it.
LEMMA ExecutorStep ==
  ASSUME TypeOK, CurrentInv, ExecutorInv, Next
  PROVE  ExecutorInv'
<1> DEFINE Unsubmitted(p, i) ==
             \/ pc[p] \in {"reserve", "mark"} /\ i > entered[p]
             \/ pc[p] \in {"export", "check", "submit"} /\ i >= entered[p]
<1>a. /\ tasks \in Seq(Files)
      /\ job \in [Workers -> Files \cup {None}]
      /\ stage \in [Workers -> Stages]
      /\ future \in [Files -> {"none", "pending", "ok", "error"}]
      /\ entered \in [Analyses -> 0 .. FilesPerAnalysis]
      /\ pc \in [Analyses -> Labels]
  BY DEF TypeOK
<1>b. ASSUME NEW w \in Workers, stage[w] # "idle"
      PROVE  job[w] \in Files /\ future[job[w]] = "pending" /\ job[w] \notin Queued
  BY <1>a, <1>b DEF ExecutorInv
<1>1. ASSUME UNCHANGED executorVars,
             \A p \in Analyses, i \in 1 .. FilesPerAnalysis :
               Unsubmitted(p, i)' => future[<<p, i>>] = "none"
      PROVE  ExecutorInv'
  BY <1>1 DEF executorVars, ExecutorInv, Queued
<1>2. ASSUME NEW p \in Analyses, Reserve(p)
      PROVE  ExecutorInv'
  BY <1>a, <1>1, <1>2, FilesAssumption
     DEF ExecutorInv, Reserve, ReserveBlocks, ReserveRefused, ReserveGranted, AtReserve, Goto
<1>3. ASSUME NEW p \in Analyses, Body(p)
      PROVE  ExecutorInv'
  <2>1. CASE Submit(p)
    <3> DEFINE f == Current(p)
    <3>1. f \in Files /\ future[f] = "none" /\ entered[p] \in 1 .. FilesPerAnalysis
      BY <1>a, <2>1, FilesAssumption DEF Submit, Current, CurrentInv, InBody, ExecutorInv
    <3>2. /\ tasks' = Append(tasks, f)
          /\ future' = [future EXCEPT ![f] = "pending"]
          /\ UNCHANGED <<job, stage, entered>>
          /\ pc' = [pc EXCEPT ![p] = "mark"]
      BY <2>1 DEF Submit, Goto
    <3>3. f \notin Queued
      BY <3>1 DEF ExecutorInv
    <3>4. \A w \in Workers : job[w] # f
      BY <1>b, <3>1, NoneAssumption DEF ExecutorInv
    <3>5. Queued' = Queued \cup {f}
      <4>1. /\ Len(tasks') = Len(tasks) + 1 /\ Len(tasks) \in Nat
            /\ tasks'[Len(tasks) + 1] = f
            /\ \A k \in 1 .. Len(tasks) : tasks'[k] = tasks[k]
        BY <1>a, <3>1, <3>2
      <4> HIDE DEF f
      <4> QED BY <4>1 DEF Queued
    <3>6. \A i, j \in 1 .. Len(tasks') : tasks'[i] = tasks'[j] => i = j
      BY <1>a, <3>1, <3>2, <3>3 DEF ExecutorInv, Queued
    <3>7. \A q \in Analyses, i \in 1 .. FilesPerAnalysis :
            Unsubmitted(q, i)' => Unsubmitted(q, i) /\ <<q, i>> # f
      BY <1>a, <2>1, <3>1, <3>2 DEF Submit, Current
    <3> HIDE DEF f
    <3>8. \A q \in Analyses, i \in 1 .. FilesPerAnalysis :
            Unsubmitted(q, i)' => future'[<<q, i>>] = "none"
      BY <1>a, <3>1, <3>2, <3>7 DEF ExecutorInv
    <3>9. \A g \in Queued' : future'[g] = "pending"
      BY <1>a, <3>1, <3>2, <3>3, <3>5 DEF ExecutorInv
    <3>10. \A w \in Workers :
            /\ stage'[w] = "idle" <=> job'[w] = None
            /\ stage'[w] # "idle" => future'[job'[w]] = "pending" /\ job'[w] \notin Queued'
      BY <1>a, <1>b, <3>1, <3>2, <3>4, <3>5 DEF ExecutorInv
    <3>11. \A v, w \in Workers : v # w /\ job'[v] = job'[w] => job'[v] = None
      BY <3>2 DEF ExecutorInv
    <3> QED BY <3>6, <3>8, <3>9, <3>10, <3>11 DEF ExecutorInv
  <2>2. CASE MarkSubmitted(p)
    BY <1>a, <1>1, <2>2, FilesAssumption DEF MarkSubmitted, Goto, ExecutorInv
  <2> QED BY <1>a, <1>1, <1>3, <2>1, <2>2
          DEF Body, Export, CheckPasses, BodyFails, AwaitError, Publish, InputsChanged,
              AwaitedAll, Goto, ExecutorInv
<1>4. ASSUME NEW p \in Analyses, Unwind(p) \/ Interrupt(p)
      PROVE  ExecutorInv'
  <2>1. UNCHANGED executorVars
    BY <1>4 DEF Unwind, UnwindFail, UnwindRelease, UnwindEnds, Interrupt
  <2>2. /\ pc' \in [Analyses -> Labels]
        /\ pc'[p] \in {"unwind", "release", "raised"}
        /\ \A q \in Analyses \ {p} : pc'[q] = pc[q] /\ entered'[q] = entered[q]
    BY <1>a, <1>4 DEF Unwind, UnwindFail, UnwindRelease, UnwindEnds, Interrupt, Goto, Labels
  <2> QED BY <1>1, <2>1, <2>2 DEF ExecutorInv
<1>5. ASSUME NEW w \in Workers, Archive(w)
      PROVE  ExecutorInv'
  <2>1. CASE Take(w)
    <3> DEFINE f == Head(tasks)
    <3>1. /\ f \in Queued /\ f \in Files /\ f # None
          /\ future[f] = "pending"
          /\ \A k \in 1 .. Len(tasks') : k + 1 \in 1 .. Len(tasks) /\ tasks'[k] = tasks[k + 1]
      BY <1>a, <2>1, NoneAssumption DEF Take, Queued, ExecutorInv
    <3>2. /\ job' = [job EXCEPT ![w] = f]
          /\ stage' = [stage EXCEPT ![w] = "compress"]
          /\ stage[w] = "idle"
          /\ UNCHANGED <<future, pc, entered>>
      BY <2>1 DEF Take, Stage
    <3>3. Queued' \subseteq Queued /\ f \notin Queued'
      <4>1. Queued' \subseteq Queued
        BY <3>1 DEF Queued
      <4>2. Len(tasks) \in Nat \ {0} /\ Len(tasks') \in Nat /\ f = tasks[1]
        BY <1>a, <2>1 DEF Take
      <4>3. ASSUME NEW k \in 1 .. Len(tasks')
            PROVE  tasks'[k] # f
        <5>1. k + 1 \in 1 .. Len(tasks) /\ 1 \in 1 .. Len(tasks) /\ k + 1 # 1 /\ tasks'[k] = tasks[k + 1]
          BY <3>1, <4>2
        <5>2. tasks[k + 1] # tasks[1]
          BY <5>1 DEF ExecutorInv
        <5> QED BY <4>2, <5>1, <5>2
      <4> QED BY <4>1, <4>3 DEF Queued
    <3>4. \A v \in Workers : job[v] # f
      BY <1>b, <3>1 DEF ExecutorInv
    <3>5. \A i, j \in 1 .. Len(tasks') : tasks'[i] = tasks'[j] => i = j
      BY <1>a, <2>1, <3>1 DEF Take, ExecutorInv
    <3> HIDE DEF f
    <3>6. \A v \in Workers :
            /\ stage'[v] = "idle" <=> job'[v] = None
            /\ stage'[v] # "idle" => future'[job'[v]] = "pending" /\ job'[v] \notin Queued'
      BY <1>a, <1>b, <3>1, <3>2, <3>3 DEF ExecutorInv
    <3>7. \A v, u \in Workers : v # u /\ job'[v] = job'[u] => job'[v] = None
      BY <1>a, <3>2, <3>4 DEF ExecutorInv
    <3> QED BY <3>2, <3>3, <3>5, <3>6, <3>7 DEF ExecutorInv
  <2>2. CASE Compress(w) \/ Unlink(w) \/ ArchiveFails(w) \/ ReleaseArchived(w)
    <3>1. /\ UNCHANGED <<tasks, job, future, pc, entered>>
          /\ stage[w] # "idle" /\ stage'[w] # "idle"
          /\ \A v \in Workers \ {w} : stage'[v] = stage[v]
      BY <1>a, <2>2 DEF Compress, Unlink, ArchiveFails, ReleaseArchived, Stage
    <3> QED BY <3>1 DEF ExecutorInv, Queued
  <2>3. CASE Settle(w)
    <3> DEFINE f == job[w]
    <3>1. f \in Files /\ future[f] = "pending" /\ f \notin Queued /\ f # None
      BY <1>b, <2>3, NoneAssumption DEF Settle
    <3>2. /\ UNCHANGED <<tasks, pc, entered>>
          /\ \A g \in Files \ {f} : future'[g] = future[g]
          /\ job'[w] = None /\ stage'[w] = "idle"
          /\ \A v \in Workers \ {w} : job'[v] = job[v] /\ stage'[v] = stage[v]
      BY <1>a, <2>3 DEF Settle
    <3>3. \A v \in Workers \ {w} : job[v] # f
      BY <3>1 DEF ExecutorInv
    <3>4. \A q \in Analyses, i \in 1 .. FilesPerAnalysis :
            Unsubmitted(q, i) => future'[<<q, i>>] = "none"
      BY <3>1, <3>2 DEF ExecutorInv
    <3>5. \A g \in Queued : g \in Files
      BY <1>a DEF Queued
    <3> HIDE DEF f
    <3>6. \A v \in Workers :
            /\ stage'[v] = "idle" <=> job'[v] = None
            /\ stage'[v] # "idle" => future'[job'[v]] = "pending" /\ job'[v] \notin Queued
      BY <1>b, <3>2, <3>3 DEF ExecutorInv
    <3>7. \A g \in Queued : future'[g] = "pending"
      BY <3>1, <3>2, <3>5 DEF ExecutorInv
    <3>8. \A v, u \in Workers : v # u /\ job'[v] = job'[u] => job'[v] = None
      BY <3>2 DEF ExecutorInv
    <3> QED BY <3>2, <3>4, <3>6, <3>7, <3>8 DEF ExecutorInv, Queued
  <2> QED BY <1>5, <2>1, <2>2, <2>3 DEF Archive
<1>6. CASE Shutdown \/ Finished
  BY <1>1, <1>6 DEF Shutdown, Finished, vars, ExecutorInv
<1> QED BY <1>2, <1>3, <1>4, <1>5, <1>6 DEF Next, Analysis

\* A file is on disk until its archive is verified; only the worker that holds
\* its job removes it.
LEMMA DiskStep ==
  ASSUME TypeOK, CurrentInv, ExecutorInv, DiskInv, Next
  PROVE  DiskInv'
<1>a. /\ tasks \in Seq(Files)
      /\ job \in [Workers -> Files \cup {None}]
      /\ stage \in [Workers -> Stages]
      /\ future \in [Files -> {"none", "pending", "ok", "error"}]
      /\ entered \in [Analyses -> 0 .. FilesPerAnalysis]
      /\ pc \in [Analyses -> Labels]
  BY DEF TypeOK
<1>b. ASSUME NEW w \in Workers, stage[w] # "idle"
      PROVE  job[w] \in Files /\ future[job[w]] = "pending" /\ job[w] \notin Queued
  BY <1>a, <1>b DEF ExecutorInv
<1>c. ASSUME NEW p \in Analyses, pc[p] \in {"export", "check", "submit"}
      PROVE  Current(p) \in Files /\ future[Current(p)] = "none"
  BY <1>a, <1>c, FilesAssumption DEF Current, CurrentInv, InBody, ExecutorInv
<1>1. ASSUME UNCHANGED <<executorVars, diskVars>>,
             NEW p \in Analyses,
             \A q \in Analyses \ {p} : pc'[q] = pc[q] /\ entered'[q] = entered[q],
             pc'[p] \notin {"check", "submit", "published"}
      PROVE  DiskInv'
  BY <1>1 DEF executorVars, diskVars, DiskInv, Queued, Current
<1>2. ASSUME NEW p \in Analyses, Reserve(p)
      PROVE  DiskInv'
  <2>1. CASE ReserveBlocks(p)
    BY <2>1 DEF ReserveBlocks, executorVars, diskVars, DiskInv, Queued, Current
  <2>2. CASE ReserveRefused(p) \/ ReserveGranted(p)
    BY <1>a, <1>1, <2>2 DEF ReserveRefused, ReserveGranted, Goto
  <2> QED BY <1>2, <2>1, <2>2 DEF Reserve
<1>3. ASSUME NEW p \in Analyses, Body(p)
      PROVE  DiskInv'
  <2>1. CASE Export(p)
    <3> DEFINE f == Current(p)
    <3>1. f \in Files /\ future[f] = "none"
      BY <1>c, <2>1 DEF Export
    <3>2. /\ raw' = raw \cup {f}
          /\ UNCHANGED <<archived, tasks, job, stage, future, entered>>
          /\ pc' = [pc EXCEPT ![p] = "check"]
      BY <2>1 DEF Export, Goto, executorVars
    <3>3. \A q \in Analyses : pc'[q] \in {"check", "submit"} => Current(q)' \in raw'
      BY <1>a, <3>2 DEF DiskInv, Current
    <3> HIDE DEF f
    <3>4. \A w \in Workers : stage[w] # "idle" => job[w] # f
      BY <1>b, <3>1
    <3> QED BY <1>a, <3>1, <3>2, <3>3, <3>4 DEF DiskInv, Queued
  <2>2. CASE CheckPasses(p)
    BY <1>a, <2>2 DEF CheckPasses, Goto, executorVars, diskVars, DiskInv, Queued, Current
  <2>3. CASE BodyFails(p) \/ MarkSubmitted(p) \/ AwaitError(p) \/ InputsChanged(p)
    BY <1>a, <1>1, <2>3 DEF BodyFails, MarkSubmitted, AwaitError, InputsChanged, Goto
  <2>4. CASE Submit(p)
    <3> DEFINE f == Current(p)
    <3>1. f \in Files /\ future[f] = "none" /\ f \in raw
      BY <1>c, <2>4 DEF Submit, DiskInv
    <3>2. /\ tasks' = Append(tasks, f)
          /\ future' = [future EXCEPT ![f] = "pending"]
          /\ UNCHANGED <<job, stage, entered, raw, archived>>
          /\ pc' = [pc EXCEPT ![p] = "mark"]
      BY <2>4 DEF Submit, Goto, diskVars
    <3>3. Queued' \subseteq Queued \cup {f}
      BY <1>a, <3>1, <3>2 DEF Queued
    <3>4. \A q \in Analyses : pc'[q] \in {"check", "submit"} => Current(q)' \in raw'
      BY <1>a, <3>2 DEF DiskInv, Current
    <3> HIDE DEF f
    <3>5. \A q \in Analyses : pc'[q] = "published" =>
            \A i \in 1 .. FilesPerAnalysis : future'[<<q, i>>] = "ok"
      BY <1>a, <3>1, <3>2 DEF DiskInv
    <3> QED BY <1>a, <3>1, <3>2, <3>3, <3>4, <3>5 DEF DiskInv
  <2>5. CASE Publish(p)
    <3>1. /\ pc' = [pc EXCEPT ![p] = "published"]
          /\ \A i \in 1 .. FilesPerAnalysis : future[<<p, i>>] = "ok"
          /\ UNCHANGED <<entered, tasks, job, stage, future, raw, archived>>
      BY <2>5 DEF Publish, AwaitedAll, Future, Goto, executorVars, diskVars
    <3> QED BY <1>a, <3>1 DEF DiskInv, Queued, Current
  <2> QED BY <1>3, <2>1, <2>2, <2>3, <2>4, <2>5 DEF Body
<1>4. ASSUME NEW p \in Analyses, Unwind(p) \/ Interrupt(p)
      PROVE  DiskInv'
  BY <1>a, <1>1, <1>4 DEF Unwind, UnwindFail, UnwindRelease, UnwindEnds, Interrupt, Goto
<1>5. ASSUME NEW w \in Workers, Archive(w)
      PROVE  DiskInv'
  <2>1. CASE Take(w)
    <3>1. /\ Queued' \subseteq Queued /\ Head(tasks) \in Queued
          /\ job' = [job EXCEPT ![w] = Head(tasks)]
          /\ stage' = [stage EXCEPT ![w] = "compress"]
          /\ UNCHANGED <<future, pc, entered, raw, archived>>
      BY <1>a, <2>1 DEF Take, Stage, Queued, diskVars
    <3> QED BY <1>a, <3>1 DEF DiskInv, Current
  <2>2. CASE Compress(w)
    <3>1. /\ archived' = archived \cup {job[w]}
          /\ stage' = [stage EXCEPT ![w] = "unlink"] /\ stage[w] = "compress"
          /\ UNCHANGED <<tasks, job, future, pc, entered, raw>>
      BY <2>2 DEF Compress, Stage
    <3> QED BY <1>a, <3>1 DEF DiskInv, Queued, Current
  <2>3. CASE Unlink(w)
    <3> DEFINE f == job[w]
    <3>1. f \in Files /\ future[f] = "pending" /\ f \notin Queued
      BY <1>b, <2>3 DEF Unlink, Stage
    <3>2. /\ raw' = raw \ {f}
          /\ stage' = [stage EXCEPT ![w] = "release"] /\ stage[w] = "unlink"
          /\ UNCHANGED <<tasks, job, future, pc, entered, archived>>
      BY <2>3 DEF Unlink, Stage
    <3>3. \A v \in Workers \ {w} : stage[v] # "idle" => job[v] # f
      BY <1>a, <1>b, <3>1, NoneAssumption DEF ExecutorInv
    <3>4. \A q \in Analyses : pc[q] \in {"check", "submit"} => Current(q) # f
      BY <1>c, <3>1
    <3> QED BY <1>a, <3>1, <3>2, <3>3, <3>4 DEF DiskInv, Queued, Current
  <2>4. CASE ArchiveFails(w)
    BY <1>a, <2>4 DEF ArchiveFails, diskVars, DiskInv, Queued, Current
  <2>5. CASE ReleaseArchived(w)
    <3>1. /\ UNCHANGED <<tasks, job, future, pc, entered, raw, archived>>
          /\ \A v \in Workers \ {w} : stage'[v] = stage[v]
          /\ \/ stage[w] = "release" /\ stage'[w] = "settle"
             \/ stage'[w] = "settleFailed"
      BY <1>a, <2>5 DEF ReleaseArchived, Stage, diskVars
    <3> QED BY <3>1 DEF DiskInv, Queued, Current
  <2>6. CASE Settle(w)
    <3> DEFINE f == job[w]
    <3>1. f \in Files /\ future[f] = "pending"
      BY <1>b, <2>6 DEF Settle
    <3>2. /\ future' = [future EXCEPT ![f] = IF stage[w] = "settle" THEN "ok" ELSE "error"]
          /\ \A v \in Workers \ {w} : job'[v] = job[v] /\ stage'[v] = stage[v]
          /\ stage'[w] = "idle"
          /\ UNCHANGED <<tasks, pc, entered, raw, archived>>
      BY <1>a, <2>6 DEF Settle, diskVars
    <3>3. stage[w] = "settle" => f \in archived \ raw
      BY DEF DiskInv
    <3> HIDE DEF f
    <3>4. \A g \in Files : future'[g] = "ok" => g \in archived \ raw
      BY <1>a, <3>1, <3>2, <3>3 DEF DiskInv
    <3>5. \A q \in Analyses : pc'[q] = "published" =>
            \A i \in 1 .. FilesPerAnalysis : future'[<<q, i>>] = "ok"
      BY <1>a, <3>1, <3>2 DEF DiskInv
    <3> QED BY <3>2, <3>4, <3>5 DEF DiskInv, Queued, Current
  <2> QED BY <1>5, <2>1, <2>2, <2>3, <2>4, <2>5, <2>6 DEF Archive
<1>6. CASE Shutdown \/ Finished
  BY <1>6 DEF Shutdown, Finished, vars, executorVars, diskVars, DiskInv, Queued, Current
<1> QED BY <1>2, <1>3, <1>4, <1>5, <1>6 DEF Next, Analysis

\* Finitely many analyses export finitely many files.
LEMMA FilesFinite == IsFiniteSet(Files)
<1>1. IsFiniteSet(1 .. FilesPerAnalysis)
  BY FilesAssumption, FS_Interval
<1> QED BY <1>1, AnalysesAssumption, FS_Product

\* How a move of one analysis changes the files granted and not yet written.
LEMMA UnwrittenKept ==
  ASSUME NEW p \in Analyses, pc[p] # "export", pc'[p] # "export",
         \A q \in Analyses \ {p} : pc'[q] = pc[q] /\ entered'[q] = entered[q]
  PROVE  Unwritten' = Unwritten
BY DEF Unwritten, Current

\* An analysis that is granted a slot adds its new file to the unwritten ones.
LEMMA UnwrittenGrows ==
  ASSUME NEW p \in Analyses, pc[p] # "export", pc'[p] = "export",
         \A q \in Analyses \ {p} : pc'[q] = pc[q] /\ entered'[q] = entered[q]
  PROVE  Unwritten' = Unwritten \cup {Current(p)'}
BY DEF Unwritten, Current

\* An analysis that leaves the export takes its file from them.
LEMMA UnwrittenShrinks ==
  ASSUME NEW p \in Analyses, pc[p] = "export", pc'[p] # "export",
         \A q \in Analyses \ {p} : pc'[q] = pc[q] /\ entered'[q] = entered[q]
  PROVE  /\ Unwritten' = Unwritten \ {Current(p)}
         /\ Current(p) \in Unwritten
BY DEF Unwritten, Current

\* Steps that touch neither pc nor entered leave the unwritten files alone.
LEMMA UnwrittenUnmoved ==
  ASSUME UNCHANGED <<pc, entered>>
  PROVE  Unwritten' = Unwritten
BY DEF Unwritten, Current

\* The files written or about to be are finitely many.
LEMMA AdmittedFinite ==
  ASSUME TypeOK, CurrentInv
  PROVE  Admitted \subseteq Files /\ IsFiniteSet(Admitted)
<1>1. Unwritten \subseteq Files
  BY CurrentFile DEF Unwritten, InBody
<1>2. Admitted \subseteq Files
  BY <1>1 DEF Admitted, TypeOK
<1> QED BY <1>2, FilesFinite, FS_Subset

\* A slot only goes back before its time on a queue that has failed already:
\* _fail comes before _release on both error paths.
LEMMA FailureStep ==
  ASSUME TypeOK, FailureInv, Next
  PROVE  FailureInv'
<1>a. pc \in [Analyses -> Labels] /\ stage \in [Workers -> Stages]
  BY DEF TypeOK
<1> USE DEF FailureInv
<1>1. ASSUME NEW p \in Analyses, Analysis(p) \/ Interrupt(p)
      PROVE  FailureInv'
  <2>1. CASE Reserve(p)
    BY <1>a, <2>1 DEF Reserve, ReserveBlocks, ReserveRefused, ReserveGranted, Goto,
                      queueVars, executorVars
  <2>2. CASE Body(p)
    BY <1>a, <2>2 DEF Body, Export, CheckPasses, BodyFails, Submit, MarkSubmitted, AwaitError,
                      Publish, InputsChanged, Goto, queueVars, executorVars
  <2>3. CASE Unwind(p) \/ Interrupt(p)
    BY <1>a, <2>3 DEF Unwind, UnwindFail, UnwindRelease, UnwindEnds, Interrupt, Goto, Fail,
                      Release, queueVars, executorVars
  <2> QED BY <1>1, <2>1, <2>2, <2>3 DEF Analysis
<1>2. ASSUME NEW w \in Workers, Archive(w)
      PROVE  FailureInv'
  BY <1>a, <1>2 DEF Archive, Take, Compress, Unlink, ArchiveFails, ReleaseArchived, Settle,
                    Stage, Fail, Release, queueVars
<1>3. CASE Shutdown \/ Finished
  BY <1>3 DEF Shutdown, Finished, vars, queueVars, executorVars
<1> QED BY <1>1, <1>2, <1>3 DEF Next

\* While the queue has not failed, a slot is handed out with its file and
\* given back exactly once, by the worker that removed the file.
LEMMA SlotStep ==
  ASSUME TypeOK, CurrentInv, ExecutorInv, DiskInv, FailureInv, SlotInv, Next
  PROVE  SlotInv'
<1> SUFFICES ASSUME ~failed'
             PROVE  SlotInv'
  BY DEF SlotInv
<1>a. /\ tasks \in Seq(Files)
      /\ job \in [Workers -> Files \cup {None}]
      /\ stage \in [Workers -> Stages]
      /\ entered \in [Analyses -> 0 .. FilesPerAnalysis]
      /\ pc \in [Analyses -> Labels]
      /\ held \subseteq Files
  BY DEF TypeOK
<1>b. ASSUME NEW w \in Workers, stage[w] # "idle"
      PROVE  job[w] \in Files /\ future[job[w]] = "pending" /\ job[w] \notin Queued
  BY <1>a, <1>b DEF ExecutorInv
<1>c. ASSUME NEW p \in Analyses, pc[p] \in {"export", "check", "submit"}
      PROVE  Current(p) \in Files /\ future[Current(p)] = "none"
  BY <1>a, <1>c, FilesAssumption DEF Current, CurrentInv, InBody, ExecutorInv
<1>d. IsFiniteSet(held) /\ Cardinality(held) \in Nat
  BY <1>a, FilesFinite, FS_Subset, FS_CardinalityType
<1>1. ASSUME UNCHANGED <<active, failed, held, executorVars, diskVars>>,
             NEW p \in Analyses,
             \A q \in Analyses \ {p} : pc'[q] = pc[q] /\ entered'[q] = entered[q],
             entered'[p] = entered[p],
             pc'[p] # "export",
             pc'[p] \in {"check", "submit"} => pc[p] \in {"check", "submit"}
      PROVE  SlotInv'
  <2>1. Unwritten' \subseteq Unwritten
    BY <1>1 DEF Unwritten, Current
  <2> QED BY <1>1, <2>1 DEF SlotInv, Admitted, Queued, Current, executorVars, diskVars
<1>2. ASSUME NEW p \in Analyses, Reserve(p)
      PROVE  SlotInv'
  <2>1. CASE ReserveBlocks(p)
    BY <2>1, UnwrittenUnmoved
       DEF ReserveBlocks, SlotInv, Admitted, Queued, Current, executorVars, diskVars
  <2>2. CASE ReserveRefused(p)
    BY <1>a, <1>1, <2>2 DEF ReserveRefused, Goto, queueVars
  <2>3. CASE ReserveGranted(p)
    <3> DEFINE f == <<p, entered[p] + 1>>
    <3>1. /\ ~failed /\ active' = active + 1 /\ held' = held \cup {f}
          /\ pc[p] = "reserve" /\ pc' = [pc EXCEPT ![p] = "export"]
          /\ entered' = [entered EXCEPT ![p] = @ + 1]
          /\ UNCHANGED <<tasks, job, stage, future, raw, archived>>
      BY <2>3 DEF ReserveGranted, AtReserve, Goto, executorVars, diskVars
    <3>2. entered[p] \in Nat /\ entered[p] + 1 \in 1 .. FilesPerAnalysis
      BY <1>a, <3>1, FilesAssumption DEF CurrentInv
    <3>3. f \notin held
      BY <3>1, <3>2 DEF SlotInv
    <3>4. active' = Cardinality(held')
      BY <1>d, <3>1, <3>3, FS_AddElement DEF SlotInv
    <3>5. Unwritten' = Unwritten \cup {f}
      <4>1. Current(p)' = f
        BY <1>a, <3>1 DEF Current
      <4> QED BY <1>a, <3>1, <4>1, UnwrittenGrows
    <3>6. Admitted' \subseteq held'
      BY <3>1, <3>5 DEF SlotInv, Admitted
    <3>7. \A q \in Analyses, i \in 1 .. FilesPerAnalysis :
            <<q, i>> \in held' \cup archived' => i <= entered'[q]
      BY <1>a, <3>1, <3>2 DEF SlotInv
    <3>8. \A q \in Analyses : pc'[q] \in {"check", "submit"} => Current(q)' \in held'
      BY <1>a, <3>1 DEF SlotInv, Current
    <3> QED BY <3>1, <3>4, <3>6, <3>7, <3>8 DEF SlotInv, Queued
  <2> QED BY <1>2, <2>1, <2>2, <2>3 DEF Reserve
<1>3. ASSUME NEW p \in Analyses, Body(p)
      PROVE  SlotInv'
  <2>1. CASE Export(p)
    <3>1. /\ raw' = raw \cup {Current(p)}
          /\ pc[p] = "export" /\ pc' = [pc EXCEPT ![p] = "check"]
          /\ UNCHANGED <<active, failed, held, archived, tasks, job, stage, entered>>
      BY <2>1 DEF Export, Goto, queueVars, executorVars
    <3>2. Unwritten' = Unwritten \ {Current(p)} /\ Current(p) \in Unwritten
      BY <1>a, <3>1, UnwrittenShrinks
    <3>3. Admitted' = Admitted
      BY <3>1, <3>2 DEF Admitted
    <3>4. \A q \in Analyses : pc'[q] \in {"check", "submit"} => Current(q)' \in held'
      BY <1>a, <3>1, <3>2 DEF SlotInv, Admitted, Current
    <3> QED BY <3>1, <3>3, <3>4 DEF SlotInv, Queued
  <2>2. CASE \/ CheckPasses(p) \/ BodyFails(p) \/ MarkSubmitted(p) \/ AwaitError(p)
             \/ Publish(p) \/ InputsChanged(p)
    BY <1>a, <1>1, <2>2 DEF CheckPasses, BodyFails, MarkSubmitted, AwaitError, Publish,
                            InputsChanged, Goto, queueVars
  <2>3. CASE Submit(p)
    <3>1. /\ tasks' = Append(tasks, Current(p))
          /\ pc[p] = "submit" /\ pc' = [pc EXCEPT ![p] = "mark"]
          /\ UNCHANGED <<active, failed, held, raw, archived, job, stage, entered>>
      BY <2>3 DEF Submit, Goto, queueVars, diskVars
    <3>2. Queued' \subseteq Queued \cup {Current(p)}
      BY <1>a, <1>c, <3>1 DEF Queued
    <3>3. Unwritten' = Unwritten
      BY <1>a, <3>1, UnwrittenKept
    <3>4. \A q \in Analyses : pc'[q] \in {"check", "submit"} => Current(q)' \in held'
      BY <1>a, <3>1 DEF SlotInv, Current
    <3> QED BY <3>1, <3>2, <3>3, <3>4 DEF SlotInv, Admitted
  <2> QED BY <1>3, <2>1, <2>2, <2>3 DEF Body
<1>4. ASSUME NEW p \in Analyses, Unwind(p) \/ Interrupt(p)
      PROVE  SlotInv'
  <2>1. CASE UnwindFail(p)
    BY <2>1 DEF UnwindFail, Fail
  <2>2. CASE UnwindRelease(p)
    BY <2>2 DEF UnwindRelease, Release, FailureInv, queueVars
  <2>3. CASE UnwindEnds(p) \/ Interrupt(p)
    BY <1>a, <1>1, <2>3 DEF UnwindEnds, Interrupt, Goto, queueVars
  <2> QED BY <1>4, <2>1, <2>2, <2>3 DEF Unwind
<1>5. ASSUME NEW w \in Workers, Archive(w)
      PROVE  SlotInv'
  <2>0. UNCHANGED <<pc, entered>>
    BY <1>5 DEF Archive, Take, Compress, Unlink, ArchiveFails, ReleaseArchived, Settle
  <2>u. Unwritten' = Unwritten
    BY <2>0, UnwrittenUnmoved
  <2>1. CASE Take(w)
    <3>1. /\ job' = [job EXCEPT ![w] = Head(tasks)]
          /\ stage' = [stage EXCEPT ![w] = "compress"]
          /\ UNCHANGED <<active, failed, held, raw, archived>>
      BY <2>1 DEF Take, Stage, queueVars, diskVars
    <3>2. Queued' \subseteq Queued /\ Head(tasks) \in Queued
      BY <1>a, <2>1 DEF Take, Queued
    <3> QED BY <1>a, <2>0, <2>u, <3>1, <3>2 DEF SlotInv, Admitted, Current
  <2>2. CASE Compress(w)
    <3>1. /\ archived' = archived \cup {job[w]}
          /\ stage' = [stage EXCEPT ![w] = "unlink"] /\ stage[w] = "compress"
          /\ UNCHANGED <<tasks, job, active, failed, held, raw>>
      BY <2>2 DEF Compress, Stage, queueVars
    <3> QED BY <1>a, <2>0, <2>u, <3>1 DEF SlotInv, Admitted, Queued, Current
  <2>3. CASE Unlink(w)
    <3>1. /\ raw' = raw \ {job[w]}
          /\ stage' = [stage EXCEPT ![w] = "release"] /\ stage[w] = "unlink"
          /\ UNCHANGED <<tasks, job, active, failed, held, archived>>
      BY <2>3 DEF Unlink, Stage, queueVars
    <3> QED BY <1>a, <2>0, <2>u, <3>1 DEF SlotInv, Admitted, Queued, Current
  <2>4. CASE ArchiveFails(w)
    BY <2>4 DEF ArchiveFails, Fail
  <2>5. CASE ReleaseArchived(w)
    <3> DEFINE f == job[w]
    <3>1. /\ stage[w] = "release" /\ stage' = [stage EXCEPT ![w] = "settle"]
          /\ active' = active - 1 /\ held' = held \ {f} /\ ~failed
          /\ UNCHANGED <<tasks, job, raw, archived>>
      BY <2>5 DEF ReleaseArchived, Stage, Release, FailureInv, diskVars
    <3>2. f \in Files /\ future[f] = "pending" /\ f \notin Queued /\ f \in held /\ f \notin raw
      BY <1>b, <3>1 DEF SlotInv, DiskInv
    <3>3. active' = Cardinality(held')
      <4>1. active = Cardinality(held)
        BY <3>1 DEF SlotInv
      <4>2. Cardinality(held \ {f}) = Cardinality(held) - 1
        BY <1>d, <3>2, FS_RemoveElement
      <4> QED BY <3>1, <4>1, <4>2
    <3>4. \A p \in Analyses : pc[p] \in {"export", "check", "submit"} => Current(p) # f
      BY <1>c, <3>2
    <3>5. Admitted' \subseteq held'
      <4>1. f \notin Unwritten
        BY <3>4 DEF Unwritten
      <4> QED BY <2>u, <3>1, <3>2, <4>1 DEF SlotInv, Admitted
    <3>6. \A v \in Workers \ {w} : stage[v] # "idle" => job[v] # f
      BY <1>b, <3>2, NoneAssumption DEF ExecutorInv
    <3>7. \A v \in Workers : stage'[v] \in {"compress", "unlink", "release"} => job'[v] \in held'
      BY <1>a, <3>1, <3>6 DEF SlotInv
    <3>8. \A p \in Analyses : pc'[p] \in {"check", "submit"} => Current(p)' \in held'
      BY <2>0, <3>1, <3>4 DEF SlotInv, Current
    <3>9. Queued' \subseteq held'
      BY <3>1, <3>2 DEF SlotInv, Queued
    <3>10. \A p \in Analyses, i \in 1 .. FilesPerAnalysis :
             <<p, i>> \in held' \cup archived' => i <= entered'[p]
      BY <2>0, <3>1 DEF SlotInv
    <3> QED BY <3>3, <3>5, <3>7, <3>8, <3>9, <3>10 DEF SlotInv
  <2>6. CASE Settle(w)
    <3>1. /\ UNCHANGED <<tasks, active, failed, held, raw, archived>>
          /\ \A v \in Workers \ {w} : job'[v] = job[v] /\ stage'[v] = stage[v]
          /\ stage'[w] = "idle"
      BY <1>a, <2>6 DEF Settle, queueVars, diskVars
    <3> QED BY <2>0, <2>u, <3>1 DEF SlotInv, Admitted, Queued, Current
  <2> QED BY <1>5, <2>1, <2>2, <2>3, <2>4, <2>5, <2>6 DEF Archive
<1>6. CASE Shutdown \/ Finished
  BY <1>6, UnwrittenUnmoved
     DEF Shutdown, Finished, vars, queueVars, executorVars, diskVars, SlotInv, Admitted,
         Queued, Current
<1> QED BY <1>2, <1>3, <1>4, <1>5, <1>6 DEF Next, Analysis

\* The files on disk or about to be: one more is admitted only by a queue that
\* has not failed and has a slot left, and every other step only loses some.
LEMMA BoundStep ==
  ASSUME TypeOK, CurrentInv, SlotInv, RawBound, Next
  PROVE  RawBound'
<1>a. pc \in [Analyses -> Labels] /\ entered \in [Analyses -> 0 .. FilesPerAnalysis]
  BY DEF TypeOK
<1>b. IsFiniteSet(Admitted) /\ Cardinality(Admitted) \in Nat /\ Cardinality(Admitted) <= MaxFiles
  BY AdmittedFinite, FS_CardinalityType DEF RawBound
<1>1. ASSUME Admitted' \subseteq Admitted
      PROVE  RawBound'
  <2>1. IsFiniteSet(Admitted') /\ Cardinality(Admitted') <= Cardinality(Admitted)
    BY <1>1, <1>b, FS_Subset
  <2>2. Cardinality(Admitted') \in Nat
    BY <2>1, FS_CardinalityType
  <2> QED BY <1>b, <2>1, <2>2, MaxFilesAssumption DEF RawBound
<1>2. ASSUME NEW p \in Analyses, ReserveGranted(p)
      PROVE  RawBound'
  <2>1. /\ ~failed /\ active < MaxFiles /\ raw' = raw
        /\ pc[p] # "export" /\ pc' = [pc EXCEPT ![p] = "export"]
        /\ entered' = [entered EXCEPT ![p] = @ + 1]
    BY <1>2 DEF ReserveGranted, AtReserve, Goto, diskVars
  <2>2. Admitted' = Admitted \cup {Current(p)'}
    BY <1>a, <2>1, UnwrittenGrows DEF Admitted
  <2>3. Cardinality(Admitted) <= Cardinality(held) /\ Cardinality(held) = active
    <3>1. IsFiniteSet(held)
      BY FilesFinite, FS_Subset DEF TypeOK
    <3>2. Admitted \in SUBSET held
      BY <2>1 DEF SlotInv
    <3> QED BY <2>1, <3>1, <3>2, FS_Subset DEF SlotInv
  <2>4. Cardinality(Admitted') <= Cardinality(Admitted) + 1
    BY <1>b, <2>2, FS_AddElement
  <2>5. Cardinality(Admitted') \in Nat
    BY <1>b, <2>2, FS_AddElement, FS_CardinalityType
  <2>6. active \in Int
    BY DEF TypeOK
  <2> QED BY <1>b, <2>1, <2>3, <2>4, <2>5, <2>6, MaxFilesAssumption DEF RawBound
<1>3. ASSUME NEW p \in Analyses, Export(p)
      PROVE  RawBound'
  <2>1. Current(p) \in Unwritten /\ Unwritten' = Unwritten \ {Current(p)}
    BY <1>a, <1>3, UnwrittenShrinks DEF Export, Goto
  <2> QED BY <1>1, <1>3, <2>1 DEF Export, Admitted
<1>4. ASSUME NEW p \in Analyses,
             \/ ReserveRefused(p) \/ ReserveBlocks(p) \/ CheckPasses(p) \/ BodyFails(p)
             \/ Submit(p) \/ MarkSubmitted(p) \/ AwaitError(p) \/ Publish(p)
             \/ InputsChanged(p) \/ Unwind(p) \/ Interrupt(p)
      PROVE  RawBound'
  <2>1. /\ raw' = raw
        /\ \A q \in Analyses \ {p} : pc'[q] = pc[q] /\ entered'[q] = entered[q]
        /\ pc'[p] # "export"
      BY <1>a, <1>4 DEF ReserveRefused, ReserveBlocks, AtReserve, CheckPasses, BodyFails, Submit,
           MarkSubmitted, AwaitError, Publish, InputsChanged, Unwind, UnwindFail, UnwindRelease,
           UnwindEnds, Interrupt, Goto, diskVars
  <2>2. Unwritten' \subseteq Unwritten
    BY <2>1 DEF Unwritten, Current
  <2> QED BY <1>1, <2>1, <2>2 DEF Admitted
<1>5. ASSUME NEW w \in Workers, Archive(w)
      PROVE  RawBound'
  <2>1. UNCHANGED <<pc, entered>> /\ raw' \subseteq raw
    BY <1>5 DEF Archive, Take, Compress, Unlink, ArchiveFails, ReleaseArchived, Settle, diskVars
  <2> QED BY <1>1, <2>1, UnwrittenUnmoved DEF Admitted
<1>6. CASE Shutdown \/ Finished
  BY <1>1, <1>6, UnwrittenUnmoved DEF Shutdown, Finished, vars, diskVars, Admitted
<1> QED BY <1>2, <1>3, <1>4, <1>5, <1>6 DEF Next, Analysis, Reserve, Body

\* The invariant holds of a new queue with nothing on disk.
LEMMA InvInit == ASSUME Init PROVE Inv
<1>1. TypeOK
  <2>1. pc \in [Analyses -> Labels] /\ entered \in [Analyses -> 0 .. FilesPerAnalysis]
    BY FilesAssumption DEF Init, Labels
  <2>2. tasks \in Seq(Files)
    BY DEF Init
  <2>3. /\ job \in [Workers -> Files \cup {None}]
        /\ stage \in [Workers -> Stages]
        /\ future \in [Files -> {"none", "pending", "ok", "error"}]
    BY DEF Init, Stages
  <2>4. /\ submitted \in SUBSET Files /\ waiting \in SUBSET Analyses
        /\ raw \in SUBSET Files /\ archived \in SUBSET Files /\ held \in SUBSET Files
    BY DEF Init
  <2>5. active \in Int
    BY DEF Init
  <2>6. failed \in BOOLEAN /\ shutdown \in BOOLEAN
    BY Zenon DEF Init
  <2> QED BY <2>1, <2>2, <2>3, <2>4, <2>5, <2>6 DEF TypeOK
<1>2. Queued = {} /\ Admitted = {}
  BY DEF Init, Queued, Admitted, Unwritten
<1>3. SlotInv /\ RawBound
  BY <1>2, FS_EmptySet, MaxFilesAssumption DEF Init, SlotInv, RawBound
<1>4. CurrentInv /\ FailureInv
  BY FilesAssumption DEF Init, CurrentInv, FailureInv, InBody
<1>5. ExecutorInv /\ DiskInv
  BY <1>2 DEF Init, ExecutorInv, DiskInv
<1> QED BY <1>1, <1>3, <1>4, <1>5 DEF Inv

\* Every step of every thread keeps the invariant.
LEMMA InvStep == ASSUME Inv, [Next]_vars PROVE Inv'
<1>1. CASE Next
  BY <1>1, TypeStep, CurrentStep, ExecutorStep, DiskStep, FailureStep, SlotStep, BoundStep DEF Inv
<1>2. CASE UNCHANGED vars
  BY <1>2, UnwrittenUnmoved
     DEF vars, queueVars, executorVars, diskVars, Inv, TypeOK, CurrentInv, ExecutorInv, DiskInv,
         FailureInv, SlotInv, RawBound, Admitted, Queued, Current
<1> QED BY <1>1, <1>2

\* The invariant holds in every reachable state of the pipeline.
THEOREM Invariance == Spec => []Inv
BY InvInit, InvStep, PTL DEF Spec

\* The disk bound: never more than MaxFiles raw event files, written or about
\* to be, through failures and interrupts, for any number of threads.
THEOREM DiskBound == Spec => []RawBound
<1>1. Inv => RawBound
  BY DEF Inv
<1> QED BY <1>1, Invariance, PTL

\* Until a failure _active counts exactly the slots handed out.
THEOREM SlotsCounted == Spec => []SlotAccounting
<1>1. Inv => SlotAccounting
  BY DEF Inv, SlotInv, SlotAccounting
<1> QED BY <1>1, Invariance, PTL

\* A published manifest names verified archives only.
THEOREM PublishedEvidence == Spec => []PublishedComplete
<1>1. Inv => PublishedComplete
  BY DEF Inv, DiskInv, PublishedComplete, TypeOK
<1> QED BY <1>1, Invariance, PTL

\* A file leaves the queue for a worker, and a worker with its future settled.
LEMMA ForgottenStep ==
  ASSUME TypeOK, ExecutorInv, NoArchiveForgotten, [Next]_vars
  PROVE  NoArchiveForgotten'
<1>a. /\ tasks \in Seq(Files)
      /\ job \in [Workers -> Files \cup {None}]
      /\ future \in [Files -> {"none", "pending", "ok", "error"}]
  BY DEF TypeOK
<1>1. CASE UNCHANGED <<tasks, job, future>>
  BY <1>1 DEF NoArchiveForgotten, Queued
<1>2. ASSUME NEW p \in Analyses, Submit(p)
      PROVE  NoArchiveForgotten'
  <2>1. Queued' = Queued \cup {Current(p)}
    <3>1. /\ Len(tasks') = Len(tasks) + 1 /\ Len(tasks) \in Nat
          /\ tasks'[Len(tasks) + 1] = Current(p)
          /\ \A k \in 1 .. Len(tasks) : tasks'[k] = tasks[k]
      BY <1>a, <1>2 DEF Submit
    <3> QED BY <3>1 DEF Queued
  <2>2. \A f \in Files \ {Current(p)} : future'[f] = future[f]
    BY <1>a, <1>2 DEF Submit
  <2>3. job' = job
    BY <1>2 DEF Submit
  <2> QED BY <2>1, <2>2, <2>3 DEF NoArchiveForgotten
<1>3. ASSUME NEW w \in Workers, Take(w)
      PROVE  NoArchiveForgotten'
  <2> DEFINE f == Head(tasks)
  <2>1. /\ tasks # <<>> /\ tasks' = Tail(tasks) /\ future' = future
        /\ job' = [job EXCEPT ![w] = f] /\ job[w] = None
    BY <1>3 DEF Take, Stage, ExecutorInv
  <2>2. Queued \subseteq Queued' \cup {f}
    <3>1. ASSUME NEW k \in 1 .. Len(tasks), k # 1
          PROVE  k - 1 \in 1 .. Len(tasks') /\ tasks'[k - 1] = tasks[k]
      BY <1>a, <2>1, <3>1
    <3>2. f = tasks[1]
      BY <1>a, <2>1
    <3> QED BY <3>1, <3>2 DEF Queued
  <2> HIDE DEF f
  <2>3. job'[w] = f /\ \A v \in Workers \ {w} : job'[v] = job[v]
    BY <1>a, <2>1
  <2> QED BY <2>1, <2>2, <2>3, NoneAssumption DEF NoArchiveForgotten
<1>4. ASSUME NEW w \in Workers, Settle(w)
      PROVE  NoArchiveForgotten'
  <2>1. /\ tasks' = tasks
        /\ job' = [job EXCEPT ![w] = None]
        /\ future' = [future EXCEPT ![job[w]] = IF stage[w] = "settle" THEN "ok" ELSE "error"]
    BY <1>4 DEF Settle
  <2>2. ASSUME NEW f \in Files, future'[f] = "pending"
        PROVE  future[f] = "pending" /\ job[w] # f
    BY <1>a, <2>1, <2>2
  <2>3. \A v \in Workers \ {w} : job'[v] = job[v]
    BY <1>a, <2>1
  <2> QED BY <2>1, <2>2, <2>3 DEF NoArchiveForgotten, Queued
<1>5. CASE \/ \E p \in Analyses : ~Submit(p) /\ (Analysis(p) \/ Interrupt(p))
           \/ \E w \in Workers : ~Take(w) /\ ~Settle(w) /\ Archive(w)
           \/ Shutdown \/ Finished \/ UNCHANGED vars
  <2>1. UNCHANGED <<tasks, job, future>>
    BY <1>5 DEF vars, executorVars, Analysis, Reserve, ReserveBlocks, ReserveRefused, ReserveGranted,
                Body, Export, CheckPasses, BodyFails, MarkSubmitted, AwaitError, Publish,
                InputsChanged, Unwind, UnwindFail, UnwindRelease, UnwindEnds, Interrupt, Archive,
                Compress, Unlink, ArchiveFails, ReleaseArchived, Shutdown, Finished
  <2> QED BY <1>1, <2>1
<1> QED BY <1>2, <1>3, <1>4, <1>5 DEF Next, Analysis, Body, Archive

\* Work accepted by executor.submit is done or reported: it never drops out of
\* the executor with its future unsettled, shutdown included.
THEOREM AcceptedWorkKept == Spec => []NoArchiveForgotten
<1>1. Init => NoArchiveForgotten
  BY DEF Init, NoArchiveForgotten
<1>2. Inv /\ NoArchiveForgotten /\ [Next]_vars => NoArchiveForgotten'
  BY ForgottenStep DEF Inv
<1> QED BY <1>1, <1>2, Invariance, PTL DEF Spec

(***************************************************************************)
(* The slots that are out when everything has come to rest.                *)
(***************************************************************************)
\* One file fewer, or the same files, after a release.
LEMMA OneLess ==
  ASSUME NEW S, NEW f, IsFiniteSet(S)
  PROVE  /\ Cardinality(S) \in Nat /\ Cardinality(S \ {f}) \in Nat
         /\ f \in S => Cardinality(S \ {f}) = Cardinality(S) - 1
         /\ f \notin S => S \ {f} = S
         /\ f \notin S => Cardinality(S \cup {f}) = Cardinality(S) + 1
BY FS_CardinalityType, FS_RemoveElement, FS_AddElement, FS_Subset

\* Files in the executor's hands are pending.
LEMMA WorkingPending ==
  ASSUME TypeOK, ExecutorInv
  PROVE  \A f \in Working : f \in Files /\ future[f] = "pending"
<1>1. ASSUME NEW w \in Workers, stage[w] # "idle"
      PROVE  job[w] \in Files /\ future[job[w]] = "pending"
  BY <1>1 DEF TypeOK, ExecutorInv
<1>2. \A f \in Queued : f \in Files /\ future[f] = "pending"
  BY DEF TypeOK, ExecutorInv, Queued
<1> QED BY <1>1, <1>2 DEF Working

\* Steps that move no slot, no file and no future.
LEMMA RestQuiet ==
  ASSUME TypeOK, RestInv,
         UNCHANGED <<executorVars, held, active, submitted, entered>>,
         \A p \in Analyses :
           /\ pc'[p] = "mark" => pc[p] = "mark"
           /\ pc'[p] = "raised" => entered[p] = 0
           /\ Interruptible = {} /\ pc[p] = "mark" => pc'[p] = "mark"
  PROVE  RestInv'
<1>1. Working' = Working
  BY DEF executorVars, Working, Queued
<1>2. future' = future
  BY DEF executorVars
<1> QED BY <1>1, <1>2 DEF RestInv, Owned, Current

\* Who gives a slot back is decided by submitted, and only an interrupt between
\* executor.submit and that flag makes two of them.
LEMMA RestStep ==
  ASSUME TypeOK, TypeOK', CurrentInv, ExecutorInv, RestInv, Next
  PROVE  RestInv'
<1>a. /\ tasks \in Seq(Files)
      /\ job \in [Workers -> Files \cup {None}]
      /\ stage \in [Workers -> Stages]
      /\ future \in [Files -> {"none", "pending", "ok", "error"}]
      /\ entered \in [Analyses -> 0 .. FilesPerAnalysis]
      /\ pc \in [Analyses -> Labels]
      /\ active \in Int
  BY DEF TypeOK
<1>b. ASSUME NEW w \in Workers, stage[w] # "idle"
      PROVE  job[w] \in Files /\ future[job[w]] = "pending" /\ job[w] \notin Queued
  BY <1>a, <1>b DEF ExecutorInv
<1>c. IsFiniteSet(held)
  BY FilesFinite, FS_Subset DEF TypeOK
<1>1. ASSUME NEW p \in Analyses, Reserve(p)
      PROVE  RestInv'
  <2>1. CASE ReserveGranted(p)
    <3> DEFINE f == <<p, entered[p] + 1>>
    <3>1. /\ pc[p] = "reserve" /\ pc' = [pc EXCEPT ![p] = "export"]
          /\ active' = active + 1 /\ held' = held \cup {f}
          /\ entered' = [entered EXCEPT ![p] = @ + 1]
          /\ UNCHANGED <<executorVars, submitted>>
      BY <2>1 DEF ReserveGranted, AtReserve, Goto
    <3>2. entered[p] + 1 \in 1 .. FilesPerAnalysis /\ f \in Files
      BY <1>a, <3>1, FilesAssumption DEF CurrentInv, Files
    <3>3. future[f] = "none" /\ future' = future
      BY <1>a, <3>1, <3>2 DEF ExecutorInv, executorVars
    <3>4. f \notin Working /\ Working' = Working
      BY <3>1, <3>3, WorkingPending DEF Working, Queued, executorVars
    <3>5. f \notin held
      BY <1>a, <3>2, <3>4 DEF RestInv
    <3>6. Cardinality(held') = Cardinality(held) + 1 /\ Cardinality(held) \in Nat
      BY <1>c, <3>1, <3>5, OneLess
    <3>7. /\ entered'[p] = entered[p] + 1 /\ pc'[p] = "export"
          /\ \A q \in Analyses \ {p} : entered'[q] = entered[q] /\ pc'[q] = pc[q]
      BY <1>a, <3>1
    <3>8. ASSUME NEW q \in Analyses, NEW i \in 1 .. FilesPerAnalysis, <<q, i>> \in held'
          PROVE  (future[<<q, i>>] = "none" /\ i <= entered'[q]) \/ <<q, i>> \in Working
      <4>1. CASE <<q, i>> = f
        BY <1>a, <3>2, <3>3, <3>7, <4>1
      <4>2. CASE <<q, i>> # f
        BY <1>a, <3>1, <3>7, <3>8, <4>2 DEF RestInv
      <4> QED BY <4>1, <4>2
    <3>9. ASSUME NEW q \in Analyses, NEW i \in 1 .. FilesPerAnalysis, Owned(q, i)'
          PROVE  Owned(q, i) \/ <<q, i>> = f
      BY <1>a, <3>1, <3>7, <3>9 DEF Owned
    <3>10. \A q \in Analyses : pc'[q] = "mark" => q # p /\ Current(q)' = Current(q)
      BY <3>7 DEF Current
    <3> HIDE DEF f
    <3>11. /\ \A q \in Analyses : pc'[q] = "mark" => future'[Current(q)'] # "none"
           /\ \A q \in Analyses : pc'[q] = "raised" => entered'[q] = 0
           /\ \A q \in Analyses, i \in 1 .. FilesPerAnalysis :
                pc'[q] = "mark" /\ i = entered'[q] => pc[q] = "mark" /\ i = entered[q]
      BY <3>3, <3>7, <3>10 DEF RestInv
    <3>12. active' <= Cardinality(held')
      BY <1>a, <3>1, <3>6 DEF RestInv
    <3>13. Interruptible = {} =>
             /\ active' = Cardinality(held') /\ Working' \subseteq held'
             /\ \A q \in Analyses, i \in 1 .. FilesPerAnalysis :
                  /\ Owned(q, i)' => <<q, i>> \in held' /\ future'[<<q, i>>] = "none"
                  /\ pc'[q] = "mark" /\ i = entered'[q] => <<q, i>> \notin submitted'
      BY <1>a, <3>1, <3>3, <3>4, <3>6, <3>9, <3>11 DEF RestInv
    <3> QED BY <3>1, <3>3, <3>4, <3>8, <3>11, <3>12, <3>13 DEF RestInv
  <2>2. CASE ReserveBlocks(p) \/ ReserveRefused(p)
    BY <1>a, <2>2, RestQuiet
       DEF ReserveBlocks, ReserveRefused, AtReserve, Goto, queueVars, RestInv
  <2> QED BY <1>1, <2>1, <2>2 DEF Reserve
<1>2. ASSUME NEW p \in Analyses, Submit(p)
      PROVE  RestInv'
  <2> DEFINE f == Current(p)
  <2>1. f \in Files /\ future[f] = "none" /\ entered[p] \in 1 .. FilesPerAnalysis
    BY <1>a, <1>2, FilesAssumption DEF Submit, Current, CurrentInv, InBody, ExecutorInv
  <2>2. /\ pc[p] = "submit" /\ pc' = [pc EXCEPT ![p] = "mark"]
        /\ tasks' = Append(tasks, f) /\ future' = [future EXCEPT ![f] = "pending"]
        /\ UNCHANGED <<job, stage, entered, submitted, held, active>>
    BY <1>2 DEF Submit, Goto, queueVars
  <2>3. Working' = Working \cup {f}
    <3>1. /\ Len(tasks') = Len(tasks) + 1 /\ Len(tasks) \in Nat
          /\ tasks'[Len(tasks) + 1] = f
          /\ \A k \in 1 .. Len(tasks) : tasks'[k] = tasks[k]
      BY <1>a, <2>1, <2>2
    <3> HIDE DEF f
    <3>2. Queued' = Queued \cup {f}
      BY <3>1 DEF Queued
    <3> QED BY <2>2, <3>2 DEF Working
  <2>4. f \notin submitted
    BY <2>1 DEF RestInv
  <2>5. f = <<p, entered[p]>> /\ f = Current(p)'
    BY <2>2 DEF Current
  <2>6. /\ future'[f] = "pending" /\ \A g \in Files \ {f} : future'[g] = future[g]
        /\ pc'[p] = "mark" /\ \A q \in Analyses \ {p} : pc'[q] = pc[q] /\ Current(q)' = Current(q)
    BY <1>a, <2>1, <2>2 DEF Current
  <2> HIDE DEF f
  <2>7. \A g \in submitted : g \in Files /\ g # f
    BY <2>4 DEF TypeOK
  <2>8. \A q \in Analyses, i \in 1 .. FilesPerAnalysis : <<q, i>> \in Files
    BY DEF Files
  <2>9. \A q \in Analyses : pc[q] = "mark" => Current(q) \in Files /\ q # p
    BY <1>a, <2>2, FilesAssumption DEF Current, CurrentInv, InBody, Files
  <2>10. /\ \A g \in submitted : future'[g] # "none"
         /\ \A q \in Analyses : pc'[q] = "mark" => future'[Current(q)'] # "none"
         /\ \A q \in Analyses : pc'[q] = "raised" => entered[q] = 0
    <3>1. \A g \in submitted : future'[g] # "none"
      BY <2>6, <2>7 DEF RestInv
    <3>2. ASSUME NEW q \in Analyses, pc'[q] = "mark"
          PROVE  future'[Current(q)'] # "none"
      <4>1. CASE q = p
        BY <2>5, <2>6, <4>1
      <4>2. CASE q # p
        <5>1. pc[q] = "mark" /\ Current(q)' = Current(q) /\ Current(q) \in Files
          BY <2>6, <2>9, <3>2, <4>2
        <5>2. future[Current(q)] # "none" /\ Current(q) # f
          BY <2>1, <5>1 DEF RestInv
        <5> QED BY <2>6, <5>1, <5>2
      <4> QED BY <4>1, <4>2
    <3>3. \A q \in Analyses : pc'[q] = "raised" => entered[q] = 0
      BY <2>6 DEF RestInv
    <3> QED BY <3>1, <3>2, <3>3
  <2>11. ASSUME NEW q \in Analyses, NEW i \in 1 .. FilesPerAnalysis, <<q, i>> \in held
         PROVE  (future'[<<q, i>>] = "none" /\ i <= entered[q]) \/ <<q, i>> \in Working'
    BY <2>3, <2>6, <2>8, <2>11 DEF RestInv
  <2>12. ASSUME Interruptible = {}
         PROVE  /\ Working' \subseteq held
                /\ \A q \in Analyses, i \in 1 .. FilesPerAnalysis :
                     /\ Owned(q, i)' => <<q, i>> \in held /\ future'[<<q, i>>] = "none"
                     /\ pc'[q] = "mark" /\ i = entered[q] => <<q, i>> \notin submitted
    <3>1. Owned(p, entered[p])
      BY <1>a, <2>2, <2>4, <2>5 DEF Owned
    <3>2. f \in held
      BY <2>1, <2>5, <2>12, <3>1 DEF RestInv
    <3>3. ASSUME NEW q \in Analyses, NEW i \in 1 .. FilesPerAnalysis, Owned(q, i)'
          PROVE  Owned(q, i) /\ <<q, i>> # f
      BY <2>2, <2>5, <2>6, <3>3 DEF Owned
    <3>4. ASSUME NEW q \in Analyses, NEW i \in 1 .. FilesPerAnalysis, pc'[q] = "mark", i = entered[q]
          PROVE  <<q, i>> \notin submitted
      BY <2>4, <2>5, <2>6, <2>12, <3>4 DEF RestInv
    <3> QED BY <2>3, <2>6, <2>8, <2>12, <3>2, <3>3, <3>4 DEF RestInv
  <2> QED BY <2>2, <2>10, <2>11, <2>12 DEF RestInv
<1>3. ASSUME NEW p \in Analyses, MarkSubmitted(p)
      PROVE  RestInv'
  <2> DEFINE f == Current(p)
  <2>1. /\ pc[p] = "mark" /\ pc'[p] \in {"reserve", "await"}
        /\ \A q \in Analyses \ {p} : pc'[q] = pc[q]
        /\ submitted' = submitted \cup {f}
        /\ UNCHANGED <<entered, held, active, executorVars>>
    BY <1>a, <1>3 DEF MarkSubmitted, Goto, queueVars
  <2>2. future[f] # "none" /\ f = <<p, entered[p]>>
    BY <2>1 DEF RestInv, Current
  <2>3. Working' = Working /\ future' = future
    BY <2>1 DEF Working, Queued, executorVars
  <2>4. \A q \in Analyses : pc'[q] = "mark" => q # p /\ pc[q] = "mark" /\ Current(q)' = Current(q)
    BY <2>1 DEF Current
  <2>5. ASSUME NEW q \in Analyses, NEW i \in 1 .. FilesPerAnalysis, Owned(q, i)'
        PROVE  Owned(q, i)
    BY <2>1, <2>2, <2>5 DEF Owned
  <2> HIDE DEF f
  <2>6. \A q \in Analyses, i \in 1 .. FilesPerAnalysis :
          Interruptible = {} /\ pc'[q] = "mark" /\ i = entered[q] => <<q, i>> \notin submitted'
    BY <2>1, <2>2, <2>4 DEF RestInv
  <2>7. /\ \A g \in submitted' : future[g] # "none"
        /\ \A q \in Analyses : pc'[q] = "mark" => future[Current(q)'] # "none"
        /\ \A q \in Analyses : pc'[q] = "raised" => entered[q] = 0
    BY <2>1, <2>2, <2>4 DEF RestInv
  <2> QED BY <2>1, <2>3, <2>5, <2>6, <2>7 DEF RestInv
<1>4. ASSUME NEW p \in Analyses, UnwindRelease(p)
      PROVE  RestInv'
  <2> DEFINE f == Current(p)
  <2>1. /\ pc[p] = "release" /\ pc'[p] = "unwind"
        /\ \A q \in Analyses \ {p} : pc'[q] = pc[q] /\ entered'[q] = entered[q]
        /\ entered'[p] = entered[p] - 1
        /\ UNCHANGED <<submitted, executorVars>>
    BY <1>a, <1>4 DEF UnwindRelease, Goto
  <2>2. f = <<p, entered[p]>> /\ entered[p] \in 1 .. FilesPerAnalysis /\ f \in Files
    BY <1>a, <2>1, FilesAssumption DEF Current, CurrentInv, Files
  <2>3. Working' = Working /\ future' = future
    BY <2>1 DEF Working, Queued, executorVars
  <2>4. \A q \in Analyses : pc'[q] = "mark" => q # p /\ pc[q] = "mark" /\ Current(q)' = Current(q)
    BY <2>1 DEF Current
  <2>5. ASSUME NEW q \in Analyses, NEW i \in 1 .. FilesPerAnalysis, Owned(q, i)'
        PROVE  Owned(q, i) /\ <<q, i>> # f
    BY <1>a, <2>1, <2>2, <2>5 DEF Owned
  <2>6. /\ \A q \in Analyses : pc'[q] = "mark" => future[Current(q)'] # "none"
        /\ \A q \in Analyses : pc'[q] = "raised" => entered'[q] = 0
        /\ \A q \in Analyses, i \in 1 .. FilesPerAnalysis :
             pc'[q] = "mark" /\ i = entered'[q] => pc[q] = "mark" /\ i = entered[q]
    BY <2>1, <2>4 DEF RestInv
  <2>7. CASE f \in submitted
    <3>1. UNCHANGED <<held, active>>
      BY <1>4, <2>7 DEF UnwindRelease, queueVars
    <3>2. future[f] # "none"
      BY <2>7 DEF RestInv
    <3>3. ASSUME NEW q \in Analyses, NEW i \in 1 .. FilesPerAnalysis, <<q, i>> \in held
          PROVE  (future[<<q, i>>] = "none" /\ i <= entered'[q]) \/ <<q, i>> \in Working
      <4>1. CASE future[<<q, i>>] = "none" /\ i <= entered[q]
        <5>1. <<q, i>> # f
          BY <3>2, <4>1
        <5> QED BY <1>a, <2>1, <2>2, <4>1, <5>1
      <4> QED BY <3>3, <4>1 DEF RestInv
    <3> HIDE DEF f
    <3> QED BY <2>1, <2>3, <2>5, <2>6, <3>1, <3>3 DEF RestInv
  <2>8. CASE f \notin submitted
    <3>1. active' = active - 1 /\ held' = held \ {f}
      BY <1>4, <2>8 DEF UnwindRelease, Release
    <3>2. ASSUME NEW q \in Analyses, NEW i \in 1 .. FilesPerAnalysis, <<q, i>> \in held'
          PROVE  (future[<<q, i>>] = "none" /\ i <= entered'[q]) \/ <<q, i>> \in Working
      <4>1. <<q, i>> \in held /\ <<q, i>> # f
        BY <3>1, <3>2
      <4>2. i <= entered[q] => i <= entered'[q]
        BY <1>a, <2>1, <2>2, <4>1
      <4> QED BY <4>1, <4>2 DEF RestInv
    <3>3. Interruptible = {} => f \in held /\ future[f] = "none"
      <4>1. Owned(p, entered[p])
        BY <1>a, <2>1, <2>2, <2>8 DEF Owned
      <4> QED BY <2>2, <4>1 DEF RestInv
    <3> HIDE DEF f
    <3>4. active' <= Cardinality(held')
      <4>1. active <= Cardinality(held)
        BY DEF RestInv
      <4>2. CASE f \in held
        <5>1. Cardinality(held') = Cardinality(held) - 1 /\ Cardinality(held) \in Nat
          BY <1>c, <3>1, <4>2, OneLess
        <5> QED BY <1>a, <3>1, <4>1, <5>1
      <4>3. CASE f \notin held
        <5>1. held' = held
          BY <3>1, <4>3
        <5>2. Cardinality(held') = Cardinality(held)
          BY <5>1
        <5>3. Cardinality(held) \in Nat /\ active \in Int
          BY <1>a, <1>c, FS_CardinalityType
        <5> QED BY <3>1, <4>1, <5>2, <5>3
      <4> QED BY <4>2, <4>3
    <3>5. ASSUME Interruptible = {}
          PROVE  active' = Cardinality(held') /\ Working \subseteq held'
      <4>1. Cardinality(held') = Cardinality(held) - 1 /\ Cardinality(held) \in Nat
        BY <1>c, <3>1, <3>3, <3>5, OneLess
      <4>2. f \notin Working
        BY <3>3, <3>5, WorkingPending
      <4> QED BY <1>a, <3>1, <3>5, <4>1, <4>2 DEF RestInv
    <3>6. Interruptible = {} =>
            \A q \in Analyses, i \in 1 .. FilesPerAnalysis :
              /\ Owned(q, i)' => <<q, i>> \in held' /\ future[<<q, i>>] = "none"
              /\ pc'[q] = "mark" /\ i = entered'[q] => <<q, i>> \notin submitted
      BY <2>5, <2>6, <3>1 DEF RestInv
    <3> QED BY <2>1, <2>3, <2>6, <3>2, <3>4, <3>5, <3>6 DEF RestInv
  <2> QED BY <2>7, <2>8
<1>5. ASSUME NEW p \in Analyses,
             \/ Export(p) \/ CheckPasses(p) \/ BodyFails(p) \/ AwaitError(p) \/ Publish(p)
             \/ InputsChanged(p) \/ UnwindFail(p) \/ UnwindEnds(p) \/ Interrupt(p)
      PROVE  RestInv'
  <2>1. UNCHANGED <<executorVars, held, active, submitted, entered>>
    BY <1>5 DEF Export, CheckPasses, BodyFails, AwaitError, Publish, InputsChanged, UnwindFail,
                UnwindEnds, Interrupt, Fail, queueVars
  <2>2. /\ \A q \in Analyses \ {p} : pc'[q] = pc[q]
        /\ pc'[p] # "mark"
        /\ pc'[p] = "raised" => entered[p] = 0
        /\ Interruptible = {} => pc[p] # "mark"
    BY <1>a, <1>5 DEF Export, CheckPasses, BodyFails, AwaitError, Publish, InputsChanged, AwaitedAll,
                      UnwindFail, UnwindEnds, Interrupt, Goto
  <2>3. \A q \in Analyses : pc[q] = "raised" => entered[q] = 0
    BY DEF RestInv
  <2> QED BY <2>1, <2>2, <2>3, RestQuiet
<1>6. ASSUME NEW w \in Workers, Take(w) \/ Compress(w) \/ Unlink(w) \/ ArchiveFails(w)
      PROVE  RestInv'
  <2>1. UNCHANGED <<pc, entered, submitted, held, active, future>>
    BY <1>6 DEF Take, Compress, Unlink, ArchiveFails, Fail, queueVars
  <2>2. Working' = Working
    <3>1. CASE Take(w)
      <4> DEFINE f == Head(tasks)
      <4>1. /\ tasks # <<>> /\ tasks' = Tail(tasks) /\ job'[w] = f
            /\ stage[w] = "idle" /\ stage'[w] = "compress"
            /\ \A v \in Workers \ {w} : job'[v] = job[v] /\ stage'[v] = stage[v]
        BY <1>a, <3>1 DEF Take, Stage
      <4>2. Queued = Queued' \cup {f}
        <5>1. /\ f = tasks[1] /\ 1 \in 1 .. Len(tasks)
              /\ \A k \in 1 .. Len(tasks') : k + 1 \in 1 .. Len(tasks) /\ tasks'[k] = tasks[k + 1]
              /\ \A k \in 1 .. Len(tasks) : k # 1 => k - 1 \in 1 .. Len(tasks') /\ tasks'[k - 1] = tasks[k]
          BY <1>a, <4>1
        <5> QED BY <5>1 DEF Queued
      <4> HIDE DEF f
      <4> QED BY <4>1, <4>2 DEF Working
    <3>2. CASE Compress(w) \/ Unlink(w) \/ ArchiveFails(w)
      <4>1. /\ UNCHANGED <<tasks, job>>
            /\ stage[w] \in {"compress", "unlink"}
            /\ stage'[w] \in {"unlink", "release", "releaseFailed"}
            /\ \A v \in Workers \ {w} : stage'[v] = stage[v]
        BY <1>a, <3>2 DEF Compress, Unlink, ArchiveFails, Stage
      <4> QED BY <4>1 DEF Working, Queued
    <3> QED BY <1>6, <3>1, <3>2
  <2> QED BY <2>1, <2>2 DEF RestInv, Owned, Current
<1>7. ASSUME NEW w \in Workers, ReleaseArchived(w)
      PROVE  RestInv'
  <2> DEFINE f == job[w]
  <2>1. /\ stage[w] \in {"release", "releaseFailed"} /\ stage'[w] \in {"settle", "settleFailed"}
        /\ \A v \in Workers \ {w} : stage'[v] = stage[v]
        /\ active' = active - 1 /\ held' = held \ {f}
        /\ UNCHANGED <<pc, entered, submitted, tasks, job, future>>
    BY <1>a, <1>7 DEF ReleaseArchived, Release, Stage
  <2>2. f \in Files /\ future[f] = "pending" /\ f \notin Queued /\ f \in Working /\ f # None
    BY <1>b, <2>1, NoneAssumption DEF Working
  <2>3. \A v \in Workers \ {w} : job[v] # f
    BY <2>2 DEF ExecutorInv
  <2> HIDE DEF f
  <2>4. Working' = Working \ {f}
    BY <2>1, <2>2, <2>3 DEF Working, Queued, f
  <2>5. active' <= Cardinality(held')
    <3>1. active <= Cardinality(held)
      BY DEF RestInv
    <3>2. CASE f \in held
      <4>1. Cardinality(held') = Cardinality(held) - 1 /\ Cardinality(held) \in Nat
        BY <1>c, <2>1, <3>2, OneLess
      <4> QED BY <1>a, <2>1, <3>1, <4>1
    <3>3. CASE f \notin held
      <4>1. held' = held
        BY <2>1, <3>3
      <4>2. Cardinality(held') = Cardinality(held)
        BY <4>1
      <4>3. Cardinality(held) \in Nat /\ active \in Int
        BY <1>a, <1>c, FS_CardinalityType
      <4> QED BY <2>1, <3>1, <4>2, <4>3
    <3> QED BY <3>2, <3>3
  <2>6. ASSUME Interruptible = {}
        PROVE  /\ active' = Cardinality(held') /\ Working' \subseteq held'
               /\ \A q \in Analyses, i \in 1 .. FilesPerAnalysis :
                    Owned(q, i) => <<q, i>> \in held'
    <3>1. f \in held
      BY <2>2, <2>6 DEF RestInv
    <3>2. active' = Cardinality(held')
      <4>1. Cardinality(held') = Cardinality(held) - 1
        BY <1>c, <2>1, <3>1, OneLess
      <4>2. active = Cardinality(held)
        BY <2>6 DEF RestInv
      <4> QED BY <2>1, <4>1, <4>2
    <3> QED BY <2>1, <2>2, <2>4, <2>6, <3>2 DEF RestInv
  <2>7. \A q \in Analyses, i \in 1 .. FilesPerAnalysis :
          /\ Owned(q, i)' <=> Owned(q, i)
          /\ Current(q)' = Current(q)
    BY <2>1 DEF Owned, Current
  <2>8. ASSUME NEW q \in Analyses, NEW i \in 1 .. FilesPerAnalysis, <<q, i>> \in held'
        PROVE  (future[<<q, i>>] = "none" /\ i <= entered[q]) \/ <<q, i>> \in Working'
    BY <2>1, <2>4, <2>8 DEF RestInv
  <2>9. \A q \in Analyses : Current(q)' = Current(q)
    BY <2>1 DEF Current
  <2> QED BY <2>1, <2>5, <2>6, <2>7, <2>8, <2>9 DEF RestInv
<1>8. ASSUME NEW w \in Workers, Settle(w)
      PROVE  RestInv'
  <2> DEFINE f == job[w]
  <2>1. /\ stage[w] \in {"settle", "settleFailed"} /\ stage'[w] = "idle" /\ job'[w] = None
        /\ \A v \in Workers \ {w} : stage'[v] = stage[v] /\ job'[v] = job[v]
        /\ UNCHANGED <<pc, entered, submitted, tasks, held, active>>
    BY <1>a, <1>8 DEF Settle, queueVars
  <2>2. f \in Files /\ future[f] = "pending"
    BY <1>b, <2>1
  <2>3. /\ future'[f] # "none" /\ \A g \in Files \ {f} : future'[g] = future[g]
    BY <1>a, <1>8, <2>2 DEF Settle
  <2> HIDE DEF f
  <2>4. Working' = Working
    BY <2>1 DEF Working, Queued
  <2>5. \A g \in Files : (future'[g] = "none" <=> future[g] = "none")
    BY <2>2, <2>3
  <2>6. /\ \A q \in Analyses, i \in 1 .. FilesPerAnalysis : <<q, i>> \in Files
        /\ \A g \in submitted : g \in Files
        /\ \A q \in Analyses : pc[q] = "mark" => Current(q) \in Files
    BY <1>a, FilesAssumption DEF Files, TypeOK, Current, CurrentInv, InBody
  <2>7. \A q \in Analyses, i \in 1 .. FilesPerAnalysis : (Owned(q, i)' <=> Owned(q, i))
    BY <2>1 DEF Owned
  <2>8. \A q \in Analyses : Current(q)' = Current(q)
    BY <2>1 DEF Current
  <2> QED BY <2>1, <2>4, <2>5, <2>6, <2>7, <2>8 DEF RestInv
<1>9. CASE Shutdown \/ Finished
  BY <1>9, RestQuiet DEF Shutdown, Finished, vars, queueVars, RestInv
<1> QED
  BY <1>1, <1>2, <1>3, <1>4, <1>5, <1>6, <1>7, <1>8, <1>9
  DEF Next, Analysis, Body, Unwind, Archive

\* At rest no slot is out: the interrupted producer's file included, and
\* without interrupts the counter is exact (reserve, submit and archive).
THEOREM SlotsComeBack == Spec => []SlotsReturned
<1>1. Init => RestInv
  <2> SUFFICES ASSUME Init
               PROVE  RestInv
    OBVIOUS
  <2>1. Working = {} /\ held = {} /\ Cardinality(held) = 0
    BY FS_EmptySet DEF Init, Working, Queued
  <2> QED BY <2>1 DEF Init, RestInv, Owned
<1>2. Inv /\ RestInv /\ [Next]_vars => RestInv'
  <2> SUFFICES ASSUME Inv, RestInv, [Next]_vars
               PROVE  RestInv'
    OBVIOUS
  <2>1. CASE Next
    BY <2>1, TypeStep, RestStep DEF Inv
  <2>2. CASE UNCHANGED vars
    BY <2>2, RestQuiet DEF vars, queueVars, Inv, RestInv
  <2> QED BY <2>1, <2>2
<1>3. Inv /\ RestInv => SlotsReturned
  <2> SUFFICES ASSUME Inv, RestInv, AtRest
               PROVE  /\ held = {}
                      /\ active <= 0
                      /\ failed \/ active = 0
                      /\ Interruptible = {} => active = 0
    BY DEF SlotsReturned
  <2>1. Working = {}
    BY DEF AtRest, Working, Queued
  <2>2. ASSUME NEW q \in Analyses, NEW i \in 1 .. FilesPerAnalysis, <<q, i>> \in held
        PROVE  FALSE
    <3>1. future[<<q, i>>] = "none" /\ i <= entered[q]
      BY <2>1, <2>2 DEF RestInv
    <3>2. pc[q] # "raised"
      BY <3>1 DEF RestInv
    <3>3. pc[q] # "published"
      BY <3>1 DEF Inv, DiskInv
    <3> QED BY <3>2, <3>3 DEF AtRest, Ended
  <2>3. held = {}
    BY <2>2 DEF Inv, TypeOK, Files
  <2>4. Cardinality(held) = 0
    BY <2>3, FS_EmptySet
  <2> QED BY <2>3, <2>4 DEF RestInv, Inv, SlotInv, TypeOK
<1> QED BY <1>1, <1>2, <1>3, Invariance, PTL DEF Spec

(***************************************************************************)
(* The pipeline implements the bounded store.                              *)
(***************************************************************************)
\* The store counts its files as this module does.
LEMMA StoreCardinality == ASSUME NEW S PROVE Store!Cardinality(S) = Cardinality(S)
BY DEF Store!Cardinality, Cardinality

\* A new queue is an empty store.
LEMMA StoreInit == ASSUME Init PROVE Store!Init
BY DEF Init, Store!Init, Unwritten

\* A granted reservation admits its file, an export writes it or withdraws it,
\* a worker stores and removes it, and every _fail stops admission; all other
\* steps are invisible to the store.
LEMMA StoreStep ==
  ASSUME Inv, [Next]_vars
  PROVE  [Store!Next]_(Store!vars)
<1> USE DEF Store!vars
<1>a. /\ pc \in [Analyses -> Labels]
      /\ entered \in [Analyses -> 0 .. FilesPerAnalysis]
      /\ TypeOK /\ CurrentInv
  BY DEF Inv, TypeOK
<1>b. ASSUME NEW p \in Analyses, pc[p] = "export"
      PROVE  Current(p) \in Files
  BY <1>a, <1>b, CurrentFile DEF InBody
<1>1. ASSUME NEW p \in Analyses, Reserve(p)
      PROVE  [Store!Next]_(Store!vars)
  <2>1. CASE ReserveBlocks(p) \/ ReserveRefused(p)
    <3>1. Unwritten' = Unwritten
      <4>1. CASE ReserveBlocks(p)
        BY <4>1, UnwrittenUnmoved DEF ReserveBlocks
      <4>2. CASE ReserveRefused(p)
        BY <1>a, <4>2, UnwrittenKept DEF ReserveRefused, AtReserve, Goto
      <4> QED BY <2>1, <4>1, <4>2
    <3> QED BY <2>1, <3>1 DEF ReserveBlocks, ReserveRefused, queueVars, diskVars
  <2>2. CASE ReserveGranted(p)
    <3> DEFINE f == <<p, entered[p] + 1>>
    <3>1. /\ ~failed /\ active < MaxFiles
          /\ pc[p] = "reserve" /\ pc' = [pc EXCEPT ![p] = "export"]
          /\ entered' = [entered EXCEPT ![p] = @ + 1]
          /\ UNCHANGED <<raw, archived, failed>>
      BY <2>2 DEF ReserveGranted, AtReserve, Goto, diskVars
    <3>2. f \in Files
      BY <1>a, <3>1, FilesAssumption DEF CurrentInv
    <3>3. f \notin held \cup archived
      BY <1>a, <3>1, <3>2 DEF Inv, SlotInv
    <3>4. Admitted \in SUBSET held /\ active = Cardinality(held) /\ IsFiniteSet(held)
      BY <1>a, <3>1, FilesFinite, FS_Subset DEF Inv, SlotInv, TypeOK
    <3>5. Cardinality(Admitted) < MaxFiles
      <4>1. Cardinality(Admitted) <= Cardinality(held)
        BY <3>4, FS_Subset
      <4>2. Cardinality(Admitted) \in Nat /\ Cardinality(held) \in Nat
        BY <1>a, <3>4, AdmittedFinite, FS_CardinalityType
      <4> QED BY <3>1, <3>4, <4>1, <4>2, MaxFilesAssumption
    <3>6. Unwritten' = Unwritten \cup {f}
      <4>1. Current(p)' = f
        BY <1>a, <3>1 DEF Current
      <4> QED BY <1>a, <3>1, <4>1, UnwrittenGrows
    <3>7. f \notin Unwritten \cup raw \cup archived
      BY <3>3, <3>4 DEF Admitted
    <3>8. Cardinality(Unwritten \cup raw) < MaxFiles
      <4>1. Unwritten \cup raw = Admitted
        BY DEF Admitted
      <4> QED BY <3>5, <4>1
    <3> HIDE DEF f
    <3>9. Store!Admit(f)
      BY <3>1, <3>6, <3>7, <3>8, StoreCardinality DEF Store!Admit
    <3> QED BY <3>2, <3>9 DEF Store!Next
  <2> QED BY <1>1, <2>1, <2>2 DEF Reserve
<1>2. ASSUME NEW p \in Analyses, Body(p)
      PROVE  [Store!Next]_(Store!vars)
  <2>1. CASE Export(p)
    <3>1. Unwritten' = Unwritten \ {Current(p)} /\ Current(p) \in Unwritten
      BY <1>a, <2>1, UnwrittenShrinks DEF Export, Goto
    <3>2. Store!Write(Current(p))
      BY <2>1, <3>1 DEF Export, Store!Write, queueVars
    <3> QED BY <1>b, <2>1, <3>2 DEF Export, Store!Next
  <2>2. CASE BodyFails(p) /\ pc[p] = "export"
    <3>1. Unwritten' = Unwritten \ {Current(p)} /\ Current(p) \in Unwritten
      BY <1>a, <2>2, UnwrittenShrinks DEF BodyFails, Goto
    <3>2. Store!Withdraw(Current(p))
      BY <2>2, <3>1 DEF BodyFails, Store!Withdraw, queueVars, diskVars
    <3> QED BY <1>b, <2>2, <3>2 DEF Store!Next
  <2>3. CASE \/ BodyFails(p) /\ pc[p] # "export"
             \/ CheckPasses(p) \/ Submit(p) \/ MarkSubmitted(p) \/ AwaitError(p)
             \/ Publish(p) \/ InputsChanged(p)
    <3>1. /\ UNCHANGED <<raw, archived, failed, entered>>
          /\ pc[p] # "export" /\ pc'[p] # "export"
          /\ \A q \in Analyses \ {p} : pc'[q] = pc[q]
      BY <1>a, <2>3 DEF BodyFails, CheckPasses, Submit, MarkSubmitted, AwaitError, Publish,
                        InputsChanged, AwaitedAll, Goto, queueVars, diskVars
    <3> QED BY <3>1, UnwrittenKept
  <2> QED BY <1>2, <2>1, <2>2, <2>3 DEF Body
<1>3. ASSUME NEW p \in Analyses, Interrupt(p)
      PROVE  [Store!Next]_(Store!vars)
  <2>1. /\ UNCHANGED <<raw, archived, failed, entered>>
        /\ pc' = [pc EXCEPT ![p] = "unwind"]
    BY <1>3 DEF Interrupt, Goto, diskVars
  <2>2. CASE pc[p] = "export"
    <3>1. Unwritten' = Unwritten \ {Current(p)} /\ Current(p) \in Unwritten
      BY <1>a, <2>1, <2>2, UnwrittenShrinks
    <3>2. Store!Withdraw(Current(p))
      BY <2>1, <3>1 DEF Store!Withdraw
    <3> QED BY <1>b, <2>2, <3>2 DEF Store!Next
  <2>3. CASE pc[p] # "export"
    BY <1>a, <2>1, <2>3, UnwrittenKept
  <2> QED BY <2>2, <2>3
<1>4. ASSUME NEW p \in Analyses, Unwind(p)
      PROVE  [Store!Next]_(Store!vars)
  <2>1. /\ UNCHANGED <<raw, archived>>
        /\ pc[p] # "export" /\ pc'[p] # "export"
        /\ \A q \in Analyses \ {p} : pc'[q] = pc[q] /\ entered'[q] = entered[q]
        /\ failed' = TRUE \/ failed' = failed
    BY <1>a, <1>4 DEF Unwind, UnwindFail, UnwindRelease, UnwindEnds, Fail, Release, Goto,
                      queueVars, diskVars
  <2>2. Unwritten' = Unwritten
    BY <2>1, UnwrittenKept
  <2> QED BY <2>1, <2>2 DEF Store!Next, Store!Stop
<1>5. ASSUME NEW w \in Workers, Archive(w)
      PROVE  [Store!Next]_(Store!vars)
  <2>0. Unwritten' = Unwritten
    BY <1>5, UnwrittenUnmoved
       DEF Archive, Take, Compress, Unlink, ArchiveFails, ReleaseArchived, Settle
  <2>1. CASE Take(w) \/ ReleaseArchived(w) \/ Settle(w)
    BY <2>0, <2>1 DEF Take, ReleaseArchived, Release, Settle, queueVars, diskVars
  <2>2. CASE Compress(w)
    <3>1. job[w] \in raw /\ job[w] \in Files
      BY <2>2 DEF Compress, Stage, Inv, DiskInv, TypeOK
    <3>2. Store!Store(job[w])
      BY <2>0, <2>2, <3>1 DEF Compress, Store!Store, queueVars
    <3> QED BY <3>1, <3>2 DEF Store!Next
  <2>3. CASE Unlink(w)
    <3>1. job[w] \in raw \cap archived /\ job[w] \in Files
      BY <2>3 DEF Unlink, Stage, Inv, DiskInv, TypeOK
    <3>2. Store!Remove(job[w])
      BY <2>0, <2>3, <3>1 DEF Unlink, Store!Remove, queueVars
    <3> QED BY <3>1, <3>2 DEF Store!Next
  <2>4. CASE ArchiveFails(w)
    BY <2>0, <2>4 DEF ArchiveFails, Fail, diskVars, Store!Next, Store!Stop
  <2> QED BY <1>5, <2>1, <2>2, <2>3, <2>4 DEF Archive
<1>6. CASE Shutdown \/ UNCHANGED vars
  BY <1>6, UnwrittenUnmoved DEF Shutdown, vars, queueVars, diskVars
<1> QED BY <1>1, <1>2, <1>3, <1>4, <1>5, <1>6 DEF Next, Analysis, Finished

\* EventCompressionQueue keeps the promise of its class comment.
THEOREM ImplementsStore == Spec => StoreSpec
<1>1. Init => Store!Init
  BY StoreInit
<1>2. Inv /\ [Next]_vars => [Store!Next]_(Store!vars)
  BY StoreStep
<1> QED BY <1>1, <1>2, Invariance, PTL DEF Spec, StoreSpec, Store!Spec
=============================================================================
