--------------------------- MODULE EventCompression ---------------------------
(***************************************************************************)
(* The bounded raw-event pipeline: EventCompressionQueue and its           *)
(* reservations (chaser/periodic/event_compression.py), the archive job of *)
(* event_storage.py, and the analyses that export through it               *)
(* (chaser/periodic/analysis.py).                                          *)
(*                                                                         *)
(* Analyses run on threads of their own.  Each exports FilesPerAnalysis    *)
(* event files in turn, holds all its reservations on one ExitStack, then  *)
(* waits for the archives and publishes its manifest.  A step of this      *)
(* module is a stretch of code no other thread can observe half-done: one  *)
(* critical section of the queue's condition, one change of the disk, one  *)
(* call of the executor.                                                   *)
(***************************************************************************)
EXTENDS Integers, Sequences, FiniteSets

CONSTANTS
  Analyses,          \* the analyses (producer threads) sharing the queue
  Workers,           \* the executor's compression threads
  FilesPerAnalysis,  \* event files of one analysis: task x architecture x segment
  MaxFiles,          \* max_files of the queue
  Interruptible,     \* analyses on the main thread, where KeyboardInterrupt lands
  None               \* "no file", for an idle worker

ASSUME AnalysesAssumption == IsFiniteSet(Analyses)
ASSUME FilesAssumption    == FilesPerAnalysis \in Nat \ {0}
ASSUME MaxFilesAssumption == MaxFiles \in Nat \ {0}   \* ValueError otherwise

Files == Analyses \X (1 .. FilesPerAnalysis)
ASSUME NoneAssumption == None \notin Files

VARIABLES
  pc,        \* where each analysis is in _analyze
  entered,   \* how many reservations its ExitStack holds
  submitted, \* files whose reservation has its submitted flag set
  waiting,   \* analyses asleep in the condition's wait_for
  active,    \* _active
  failed,    \* _failed is not None
  shutdown,  \* the executor accepts no more work
  tasks,     \* the executor's FIFO of archive jobs
  job,       \* the file each worker is archiving
  stage,     \* how far its archive() has come
  future,    \* the state of each file's future
  raw,       \* events.json files on disk
  archived,  \* files with a verified .xz
  held       \* history: slots handed out and not given back

queueVars    == <<waiting, active, failed, held>>
executorVars == <<tasks, job, stage, future>>
diskVars     == <<raw, archived>>
vars == <<pc, entered, submitted, shutdown, queueVars, executorVars, diskVars>>

Current(p) == <<p, entered[p]>>    \* the file of p's newest reservation

Goto(p, label) == pc' = [pc EXCEPT ![p] = label]

Init ==
  /\ pc = [p \in Analyses |-> "reserve"]
  /\ entered = [p \in Analyses |-> 0]
  /\ submitted = {}
  /\ waiting = {}
  /\ active = 0
  /\ failed = FALSE
  /\ shutdown = FALSE
  /\ tasks = <<>>
  /\ job = [w \in Workers |-> None]
  /\ stage = [w \in Workers |-> "idle"]
  /\ future = [f \in Files |-> "none"]
  /\ raw = {}
  /\ archived = {}
  /\ held = {}

(***************************************************************************)
(* The queue's critical sections.                                          *)
(***************************************************************************)
NotifyAll == waiting' = {}

\* _fail(error): only the first error is kept, everybody is woken.
Fail ==
  /\ failed' = TRUE
  /\ NotifyAll
  /\ UNCHANGED <<active, held>>

\* Mutant: the slot goes back without waking the blocked producers.
Release_WithoutNotify(f) ==
  /\ active' = active - 1
  /\ held' = held \ {f}
  /\ UNCHANGED <<waiting, failed>>

\* _release(): the slot of file f goes back.
Release(f) ==
  /\ active' = active - 1
  /\ held' = held \ {f}
  /\ NotifyAll
  /\ UNCHANGED failed

(***************************************************************************)
(* reserve(): entering the context.                                        *)
(***************************************************************************)
AtReserve(p) == pc[p] = "reserve" /\ p \notin waiting

\* The predicate of wait_for.
MayProceed == failed \/ active < MaxFiles

ReserveBlocks(p) ==
  /\ AtReserve(p)
  /\ ~MayProceed
  /\ waiting' = waiting \cup {p}
  /\ UNCHANGED <<pc, entered, submitted, shutdown, active, failed, held,
                 executorVars, diskVars>>

\* RuntimeError, before the try: this reservation never joins the ExitStack.
ReserveRefused(p) ==
  /\ AtReserve(p)
  /\ failed
  /\ Goto(p, "unwind")
  /\ UNCHANGED <<entered, submitted, shutdown, queueVars, executorVars, diskVars>>

\* Mutant: a failed queue goes on admitting files.
ReserveGranted_IgnoresFailure(p) ==
  /\ AtReserve(p)
  /\ active < MaxFiles
  /\ active' = active + 1
  /\ entered' = [entered EXCEPT ![p] = @ + 1]
  /\ held' = held \cup {<<p, entered[p] + 1>>}
  /\ Goto(p, "export")
  /\ UNCHANGED <<submitted, shutdown, waiting, failed, executorVars, diskVars>>

ReserveGranted(p) ==
  /\ AtReserve(p)
  /\ ~failed
  /\ active < MaxFiles
  /\ active' = active + 1
  /\ entered' = [entered EXCEPT ![p] = @ + 1]
  /\ held' = held \cup {<<p, entered[p] + 1>>}
  /\ Goto(p, "export")
  /\ UNCHANGED <<submitted, shutdown, waiting, failed, executorVars, diskVars>>

(***************************************************************************)
(* The body: export, check, submit, wait, publish.  An error anywhere in   *)
(* it starts the unwinding of the ExitStack.                               *)
(***************************************************************************)
\* The exporter opens events.json; from here the file may be partial or whole.
Export(p) ==
  /\ pc[p] = "export"
  /\ raw' = raw \cup {Current(p)}
  /\ Goto(p, "check")
  /\ UNCHANGED <<entered, submitted, shutdown, queueVars, executorVars, archived>>

\* The exporter finished inside its size limit and the stream checks passed.
CheckPasses(p) ==
  /\ pc[p] = "check"
  /\ Goto(p, "submit")
  /\ UNCHANGED <<entered, submitted, shutdown, queueVars, executorVars, diskVars>>

\* An exporter mode fails or times out before the file exists, or the exporter
\* or a check fails after it does; at submit, the executor is shut down.
BodyFails(p) ==
  /\ \/ pc[p] \in {"export", "check"}
     \/ pc[p] = "submit" /\ shutdown
  /\ Goto(p, "unwind")
  /\ UNCHANGED <<entered, submitted, shutdown, queueVars, executorVars, diskVars>>

\* executor.submit(archive): from here a worker may run the job to its end
\* before the reservation is marked.
Submit(p) ==
  /\ pc[p] = "submit"
  /\ ~shutdown
  /\ tasks' = Append(tasks, Current(p))
  /\ future' = [future EXCEPT ![Current(p)] = "pending"]
  /\ Goto(p, "mark")
  /\ UNCHANGED <<entered, submitted, shutdown, queueVars, job, stage, diskVars>>

\* self.submitted = True, and the loop goes on to the next file.
MarkSubmitted(p) ==
  /\ pc[p] = "mark"
  /\ submitted' = submitted \cup {Current(p)}
  /\ Goto(p, IF entered[p] < FilesPerAnalysis THEN "reserve" ELSE "await")
  /\ UNCHANGED <<entered, shutdown, queueVars, executorVars, diskVars>>

Future(p, i) == future[<<p, i>>]

\* future.result() for every file in submission order: the first error that
\* is reached is raised, after the results before it have arrived.
AwaitError(p) ==
  /\ pc[p] = "await"
  /\ \E i \in 1 .. FilesPerAnalysis :
       /\ Future(p, i) = "error"
       /\ \A j \in 1 .. i - 1 : Future(p, j) = "ok"
  /\ Goto(p, "unwind")
  /\ UNCHANGED <<entered, submitted, shutdown, queueVars, executorVars, diskVars>>

\* Mutant: only the newest file's future is awaited.
AwaitedAll_LastOnly(p) ==
  pc[p] = "await" /\ Future(p, FilesPerAnalysis) = "ok"

AwaitedAll(p) ==
  pc[p] = "await" /\ \A i \in 1 .. FilesPerAnalysis : Future(p, i) = "ok"

\* locality.json, then manifest.json.  Every reservation on the ExitStack is
\* submitted, so closing it changes nothing.
Publish(p) ==
  /\ AwaitedAll(p)
  /\ Goto(p, "published")
  /\ UNCHANGED <<entered, submitted, shutdown, queueVars, executorVars, diskVars>>

\* An input or an analyzer changed during the analysis.
InputsChanged(p) ==
  /\ AwaitedAll(p)
  /\ Goto(p, "unwind")
  /\ UNCHANGED <<entered, submitted, shutdown, queueVars, executorVars, diskVars>>

\* KeyboardInterrupt in the main thread, asleep in wait_for or in the body.
Interrupt(p) ==
  /\ p \in Interruptible
  /\ pc[p] \in {"reserve", "export", "check", "submit", "mark", "await"}
  /\ waiting' = waiting \ {p}
  /\ Goto(p, "unwind")
  /\ UNCHANGED <<entered, submitted, shutdown, active, failed, held,
                 executorVars, diskVars>>

(***************************************************************************)
(* Unwinding: the ExitStack leaves its reservations newest first; each     *)
(* calls _fail, then gives its slot back unless it was submitted.          *)
(***************************************************************************)
UnwindFail(p) ==
  /\ pc[p] = "unwind"
  /\ entered[p] > 0
  /\ Fail
  /\ Goto(p, "release")
  /\ UNCHANGED <<entered, submitted, shutdown, executorVars, diskVars>>

\* Mutant: the finally of reserve() is gone.
UnwindRelease_KeepsSlot(p) ==
  /\ pc[p] = "release"
  /\ entered' = [entered EXCEPT ![p] = @ - 1]
  /\ Goto(p, "unwind")
  /\ UNCHANGED <<submitted, shutdown, queueVars, executorVars, diskVars>>

UnwindRelease(p) ==
  /\ pc[p] = "release"
  /\ IF Current(p) \in submitted
       THEN UNCHANGED queueVars
       ELSE Release(Current(p))
  /\ entered' = [entered EXCEPT ![p] = @ - 1]
  /\ Goto(p, "unwind")
  /\ UNCHANGED <<submitted, shutdown, executorVars, diskVars>>

UnwindEnds(p) ==
  /\ pc[p] = "unwind"
  /\ entered[p] = 0
  /\ Goto(p, "raised")
  /\ UNCHANGED <<entered, submitted, shutdown, queueVars, executorVars, diskVars>>

(***************************************************************************)
(* archive() on a worker of the executor.                                  *)
(***************************************************************************)
Stage(w, from, to) == stage[w] = from /\ stage' = [stage EXCEPT ![w] = to]

Take(w) ==
  /\ tasks # <<>>
  /\ Stage(w, "idle", "compress")
  /\ job' = [job EXCEPT ![w] = Head(tasks)]
  /\ tasks' = Tail(tasks)
  /\ UNCHANGED <<pc, entered, submitted, shutdown, queueVars, future, diskVars>>

\* Mutant: the raw file is forgotten once compressed.
Compress_KeepsRaw(w) ==
  /\ Stage(w, "compress", "release")
  /\ archived' = archived \cup {job[w]}
  /\ UNCHANGED <<pc, entered, submitted, shutdown, queueVars, tasks, job, future, raw>>

\* compress_events: the .xz is written, read back and compared.
Compress(w) ==
  /\ Stage(w, "compress", "unlink")
  /\ archived' = archived \cup {job[w]}
  /\ UNCHANGED <<pc, entered, submitted, shutdown, queueVars, tasks, job, future, raw>>

Unlink(w) ==
  /\ Stage(w, "unlink", "release")
  /\ raw' = raw \ {job[w]}
  /\ UNCHANGED <<pc, entered, submitted, shutdown, queueVars, tasks, job, future, archived>>

\* Mutant: a failed compression cleans its raw file up.
ArchiveFails_RemovesRaw(w) ==
  /\ stage[w] \in {"compress", "unlink"}
  /\ stage' = [stage EXCEPT ![w] = "releaseFailed"]
  /\ raw' = raw \ {job[w]}
  /\ Fail
  /\ UNCHANGED <<pc, entered, submitted, shutdown, tasks, job, future, archived>>

\* compress_events or unlink raises: _fail before the finally releases.
ArchiveFails(w) ==
  /\ stage[w] \in {"compress", "unlink"}
  /\ stage' = [stage EXCEPT ![w] = "releaseFailed"]
  /\ Fail
  /\ UNCHANGED <<pc, entered, submitted, shutdown, tasks, job, future, diskVars>>

ReleaseArchived(w) ==
  /\ \/ Stage(w, "release", "settle")
     \/ Stage(w, "releaseFailed", "settleFailed")
  /\ Release(job[w])
  /\ UNCHANGED <<pc, entered, submitted, shutdown, tasks, job, future, diskVars>>

\* archive() has returned or raised, and the executor settles its future.
Settle(w) ==
  /\ stage[w] \in {"settle", "settleFailed"}
  /\ future' = [future EXCEPT ![job[w]] = IF stage[w] = "settle" THEN "ok" ELSE "error"]
  /\ stage' = [stage EXCEPT ![w] = "idle"]
  /\ job' = [job EXCEPT ![w] = None]
  /\ UNCHANGED <<pc, entered, submitted, shutdown, queueVars, tasks, diskVars>>

\* Mutant: shutting down drops the queued jobs.
Shutdown_DropsJobs ==
  /\ ~shutdown
  /\ shutdown' = TRUE
  /\ tasks' = <<>>
  /\ UNCHANGED <<pc, entered, submitted, queueVars, job, stage, future, diskVars>>

\* The caller leaves the with block of the queue: executor.shutdown(wait=True)
\* refuses new work and lets the queued jobs finish.
Shutdown ==
  /\ ~shutdown
  /\ shutdown' = TRUE
  /\ UNCHANGED <<pc, entered, submitted, queueVars, executorVars, diskVars>>

(***************************************************************************)
(* The specification.                                                      *)
(***************************************************************************)
Reserve(p)      == ReserveBlocks(p) \/ ReserveRefused(p) \/ ReserveGranted(p)
Body(p)         == \/ Export(p) \/ CheckPasses(p) \/ BodyFails(p) \/ Submit(p)
                   \/ MarkSubmitted(p) \/ AwaitError(p) \/ Publish(p) \/ InputsChanged(p)
Unwind(p)       == UnwindFail(p) \/ UnwindRelease(p) \/ UnwindEnds(p)
Analysis(p)     == Reserve(p) \/ Body(p) \/ Unwind(p)
Archive(w)      == \/ Take(w) \/ Compress(w) \/ Unlink(w) \/ ArchiveFails(w)
                   \/ ReleaseArchived(w) \/ Settle(w)

Ended(p) == pc[p] \in {"published", "raised"}

\* Everything has come to rest: what is left is the process's own exit.
Finished ==
  /\ shutdown
  /\ tasks = <<>>
  /\ \A p \in Analyses : Ended(p)
  /\ \A w \in Workers : stage[w] = "idle"
  /\ UNCHANGED vars

Next ==
  \/ \E p \in Analyses : Analysis(p) \/ Interrupt(p)
  \/ \E w \in Workers : Archive(w)
  \/ Shutdown
  \/ Finished

Spec == Init /\ [][Next]_vars

\* Threads are scheduled; neither an interrupt nor the shutdown has to come.
Fairness ==
  /\ \A p \in Analyses : WF_vars(Analysis(p))
  /\ \A w \in Workers : WF_vars(Archive(w))

FairSpec == Spec /\ Fairness

(***************************************************************************)
(* Properties.                                                             *)
(***************************************************************************)
Labels == {"reserve", "export", "check", "submit", "mark", "await",
           "unwind", "release", "published", "raised"}
Stages == {"idle", "compress", "unlink", "release", "releaseFailed",
           "settle", "settleFailed"}

\* Every variable has its type; _active may leave Nat, see SlotsReturned.
TypeOK ==
  /\ pc \in [Analyses -> Labels]
  /\ entered \in [Analyses -> 0 .. FilesPerAnalysis]
  /\ submitted \in SUBSET Files
  /\ waiting \in SUBSET Analyses
  /\ active \in Int
  /\ failed \in BOOLEAN
  /\ shutdown \in BOOLEAN
  /\ tasks \in Seq(Files)
  /\ job \in [Workers -> Files \cup {None}]
  /\ stage \in [Workers -> Stages]
  /\ future \in [Files -> {"none", "pending", "ok", "error"}]
  /\ raw \in SUBSET Files
  /\ archived \in SUBSET Files
  /\ held \in SUBSET Files

\* Files a reservation was granted for and that are not written yet.
Unwritten == {Current(p) : p \in {q \in Analyses : pc[q] = "export"}}

\* A written file, or one that is still going to be.
Admitted == raw \cup Unwritten

\* The disk bound: never more than max_files raw event files, counting those
\* about to be written, through failures, interrupts and slots that went back
\* while their file stayed (the reason _fail comes before _release).
RawBound == Cardinality(Admitted) <= MaxFiles

\* While nothing failed, _active is exactly the number of slots handed out and
\* every admitted file owns one: archive() and the exit of reserve() never
\* both release, and never neither, however they interleave with submitted.
SlotAccounting == ~failed => active = Cardinality(held) /\ Admitted \subseteq held

\* A published manifest stands for archived evidence only: all event files of
\* the analysis are verified archives and none is left raw, whatever happened
\* to the other analyses of the queue.
PublishedComplete ==
  \A p \in Analyses : pc[p] = "published" =>
    \A i \in 1 .. FilesPerAnalysis : <<p, i>> \in archived \ raw

Queued == {tasks[k] : k \in 1 .. Len(tasks)}

\* No accepted archive is forgotten: until its future is settled the job is in
\* the executor's queue or on a worker, after a failure and after shutdown too.
\* (Workers never wait, so it is settled.)
NoArchiveForgotten ==
  \A f \in Files : future[f] = "pending" => f \in Queued \/ \E w \in Workers : job[w] = f

AtRest ==
  /\ tasks = <<>>
  /\ \A p \in Analyses : Ended(p)
  /\ \A w \in Workers : stage[w] = "idle"

\* At rest no slot is lost; an interrupt between executor.submit and the
\* submitted flag may give one back twice, which only a failed queue sees.
SlotsReturned ==
  AtRest => /\ held = {}
            /\ active <= 0
            /\ failed \/ active = 0
            /\ Interruptible = {} => active = 0

\* Every analysis ends, published or raised: no wake-up of a blocked reserve
\* is lost and every awaited future is settled.
EveryAnalysisEnds == <>(\A p \in Analyses : Ended(p))

\* The pipeline implements the bounded store of RawEventStore.
Store == INSTANCE RawEventStore WITH reserved <- Unwritten, stopped <- failed

StoreSpec == Store!Spec

(***************************************************************************)
(* Inv, the inductive invariant behind RawBound, SlotAccounting,           *)
(* PublishedComplete and StoreSpec (proved in EventCompressionProofs).     *)
(***************************************************************************)
InBody == {"export", "check", "submit", "mark"}

\* Inside the body, and while a slot goes back, there is a current file; at
\* reserve() there is a file left to reserve for.
CurrentInv ==
  \A p \in Analyses :
    /\ pc[p] \in InBody \cup {"release"} => entered[p] > 0
    /\ pc[p] = "reserve" => entered[p] < FilesPerAnalysis

\* A file is in at most one place of the executor, and only while pending; a
\* file that was not submitted yet is in none.
ExecutorInv ==
  /\ \A f \in Queued : future[f] = "pending"
  /\ \A w \in Workers :
       /\ stage[w] = "idle" <=> job[w] = None
       /\ stage[w] # "idle" => future[job[w]] = "pending" /\ job[w] \notin Queued
  /\ \A v, w \in Workers : v # w /\ job[v] = job[w] => job[v] = None
  /\ \A i, j \in 1 .. Len(tasks) : tasks[i] = tasks[j] => i = j
  /\ \A p \in Analyses, i \in 1 .. FilesPerAnalysis :
       \/ pc[p] \in {"reserve", "mark"} /\ i > entered[p]
       \/ pc[p] \in {"export", "check", "submit"} /\ i >= entered[p]
       => future[<<p, i>>] = "none"

\* What is on disk at each stage of a file's way through the pipeline.
DiskInv ==
  /\ \A p \in Analyses : pc[p] \in {"check", "submit"} => Current(p) \in raw
  /\ Queued \subseteq raw
  /\ \A w \in Workers :
       /\ stage[w] \in {"compress", "unlink"} => job[w] \in raw
       /\ stage[w] \in {"unlink", "release", "settle"} => job[w] \in archived
       /\ stage[w] \in {"release", "settle"} => job[w] \notin raw
  /\ \A f \in Files : future[f] = "ok" => f \in archived \ raw
  /\ \A p \in Analyses : pc[p] = "published" =>
       \A i \in 1 .. FilesPerAnalysis : future[<<p, i>>] = "ok"

\* A slot goes back early only once the queue has failed.
FailureInv ==
  /\ \A p \in Analyses : pc[p] = "release" => failed
  /\ \A w \in Workers : stage[w] = "releaseFailed" => failed

\* Until the queue fails, every file on its way owns its slot.
SlotInv ==
  ~failed =>
    /\ active = Cardinality(held)
    /\ Admitted \subseteq held
    /\ \A p \in Analyses : pc[p] \in {"check", "submit"} => Current(p) \in held
    /\ Queued \subseteq held
    /\ \A w \in Workers : stage[w] \in {"compress", "unlink", "release"} => job[w] \in held
    /\ \A p \in Analyses, i \in 1 .. FilesPerAnalysis :
         <<p, i>> \in held \cup archived => i <= entered[p]

Inv ==
  /\ TypeOK
  /\ CurrentInv
  /\ ExecutorInv
  /\ DiskInv
  /\ FailureInv
  /\ SlotInv
  /\ RawBound

\* Files whose slot the archive job has not given back yet.
Working == Queued \cup {job[w] : w \in {v \in Workers :
             stage[v] \in {"compress", "unlink", "release", "releaseFailed"}}}

\* A file that exit from its reservation would release.
Owned(p, i) ==
  /\ i <= entered[p]
  /\ <<p, i>> \notin submitted
  /\ ~(pc[p] = "mark" /\ i = entered[p])

\* RestInv, the inductive invariant behind SlotsReturned: a slot that is out
\* has somebody who gives it back; nobody but an interrupted producer gives
\* one back that the worker gives back too.
RestInv ==
  /\ \A f \in submitted : future[f] # "none"
  /\ \A p \in Analyses : pc[p] = "mark" => future[Current(p)] # "none"
  /\ \A p \in Analyses : pc[p] = "raised" => entered[p] = 0
  /\ \A p \in Analyses, i \in 1 .. FilesPerAnalysis : <<p, i>> \in held =>
       \/ future[<<p, i>>] = "none" /\ i <= entered[p]
       \/ <<p, i>> \in Working
  /\ active <= Cardinality(held)
  /\ Interruptible = {} =>
       /\ active = Cardinality(held)
       /\ Working \subseteq held
       /\ \A p \in Analyses, i \in 1 .. FilesPerAnalysis :
            /\ Owned(p, i) => <<p, i>> \in held /\ future[<<p, i>>] = "none"
            /\ pc[p] = "mark" /\ i = entered[p] => <<p, i>> \notin submitted
=============================================================================
