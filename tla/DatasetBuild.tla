---------------------------- MODULE DatasetBuild -----------------------------
(***************************************************************************)
(* tools/build_dataset.py: freeze_split, build_dataset and write_dataset   *)
(* (chaser/dataset/builder.py) as programs that run side by side, are      *)
(* killed and started again over the years, sharing one split file and a   *)
(* few output directories.                                                 *)
(*                                                                         *)
(* A step is one access to the file system with the computation around it. *)
(***************************************************************************)
EXTENDS FrozenSplit

CONSTANTS
  Processes,   \* programs that may run at a time
  Commands,    \* [in, seed, policy, complete]: a command line and the input it names
  Outputs,     \* output directories
  Tables,      \* how many files a dataset has; metadata.json is the last
  MaxStarts,   \* bound: programs started in all
  Movable,     \* bound: entries of a split file that an edit may move
  Absent,      \* no value: an unwritten table, the memory of an idle program
  Cut          \* a table that was opened for writing and is not all there

ASSUME TablesAssumption == Tables \in Nat \ {0}
ASSUME CommandsAssumption ==
  \A c \in Commands : /\ c.policy \in {"taskset", "family"}
                      /\ DOMAIN c.in.signature = Members(c.in)
                      /\ c.complete \subseteq Members(c.in)
                      /\ IsFiniteSet(Members(c.in))

\* The seeded order of the inputs of a family is total: equal hashes are
\* ordered by the signatures themselves.
ASSUME RankAssumption ==
  \A c \in Commands : \A f \in Families(c.in) :
    \A s, t \in InputsOf(c.in, f) \ {NoSignature} :
      /\ Rank[c.seed][s] \in Nat
      /\ Rank[c.seed][s] = Rank[c.seed][t] => s = t

VARIABLES
  splitFile,   \* the split file is absent, partial (opened, not all written) or whole
  frozen,      \* what the whole file says
  edited,      \* it was edited by hand (bound: once)
  made,        \* the output directories that exist
  dir,         \* what each of their tables holds
  pc,          \* where each program is
  command,     \* its command line
  output,      \* its --output
  split,       \* the split it has in memory
  dataset,     \* the tables it is going to write, as the rows they agree on
  table,       \* how many of them it has written
  starts       \* programs started so far

fileVars   == <<splitFile, frozen, edited>>
outputVars == <<made, dir>>
memoryVars == <<command, output, split, dataset, table>>
vars == <<fileVars, outputVars, pc, memoryVars, starts>>

Init ==
  /\ splitFile = "absent"
  /\ frozen = Absent
  /\ edited = FALSE
  /\ made = {}
  /\ dir = [d \in Outputs |-> [k \in 1 .. Tables |-> Absent]]
  /\ pc = [p \in Processes |-> "idle"]
  /\ command = [p \in Processes |-> Absent]
  /\ output = [p \in Processes |-> Absent]
  /\ split = [p \in Processes |-> Absent]
  /\ dataset = [p \in Processes |-> Absent]
  /\ table = [p \in Processes |-> 0]
  /\ starts = 0

Goto(p, label) == pc' = [pc EXCEPT ![p] = label]

(***************************************************************************)
(* Starting and ending.                                                    *)
(***************************************************************************)
\* main: an existing output is refused at once; then the input is read.
Start(p, c, d) ==
  /\ pc[p] = "idle"
  /\ starts < MaxStarts
  /\ d \notin made
  /\ starts' = starts + 1
  /\ command' = [command EXCEPT ![p] = c]
  /\ output' = [output EXCEPT ![p] = d]
  /\ Goto(p, "freeze")
  /\ UNCHANGED <<fileVars, outputVars, split, dataset, table>>

\* The program is gone, and its memory with it.
Exit(p) ==
  /\ Goto(p, "idle")
  /\ command' = [command EXCEPT ![p] = Absent]
  /\ output' = [output EXCEPT ![p] = Absent]
  /\ split' = [split EXCEPT ![p] = Absent]
  /\ dataset' = [dataset EXCEPT ![p] = Absent]
  /\ table' = [table EXCEPT ![p] = 0]

(***************************************************************************)
(* freeze_split.                                                           *)
(***************************************************************************)
Exists(p) ==
  /\ pc[p] = "freeze"
  /\ splitFile # "absent"
  /\ Goto(p, "load")
  /\ UNCHANGED <<fileVars, outputVars, memoryVars, starts>>

Accepts(p) ==
  /\ splitFile = "whole"
  /\ Acceptable(command[p].in, command[p].policy, frozen)

\* An existing valid split wins over the seed of the command line.
Load(p) ==
  /\ pc[p] = "load"
  /\ Accepts(p)
  /\ split' = [split EXCEPT ![p] = frozen]
  /\ Goto(p, "build")
  /\ UNCHANGED <<fileVars, outputVars, command, output, dataset, table, starts>>

Draw(p) ==
  /\ pc[p] = "freeze"
  /\ splitFile = "absent"
  /\ CanDraw(command[p].in, command[p].policy)
  /\ split' = [split EXCEPT ![p] = Drawn(command[p].in, command[p].seed, command[p].policy)]
  /\ Goto(p, "create")
  /\ UNCHANGED <<fileVars, outputVars, command, output, dataset, table, starts>>

\* Mutant: the split file is opened for writing, whether it exists or not.
Create_Truncates(p) ==
  /\ pc[p] = "create"
  /\ splitFile' = "partial"
  /\ Goto(p, "write")
  /\ UNCHANGED <<frozen, edited, outputVars, memoryVars, starts>>

\* path.open('x'): created by exactly one.
Create(p) ==
  /\ pc[p] = "create"
  /\ splitFile = "absent"
  /\ splitFile' = "partial"
  /\ Goto(p, "write")
  /\ UNCHANGED <<frozen, edited, outputVars, memoryVars, starts>>

WriteSplit(p) ==
  /\ pc[p] = "write"
  /\ splitFile' = "whole"
  /\ frozen' = split[p]
  /\ Goto(p, "build")
  /\ UNCHANGED <<edited, outputVars, memoryVars, starts>>

(***************************************************************************)
(* build_dataset and write_dataset.                                        *)
(***************************************************************************)
\* Workloads whose measurements are complete are labelled, the others excluded
\* from every representation; each keeps the group the split gave it.
Build(p) ==
  /\ pc[p] = "build"
  /\ dataset' = [dataset EXCEPT ![p] =
       [policy |-> split[p].policy, signature |-> command[p].in.signature,
        rows |-> [w \in command[p].complete |-> GroupOf(split[p], w)]]]
  /\ Goto(p, "mkdir")
  /\ UNCHANGED <<fileVars, outputVars, command, output, split, table, starts>>

\* Mutant: an existing directory will do.
MakeDirectory_ExistOk(p) ==
  /\ pc[p] = "mkdir"
  /\ made' = made \cup {output[p]}
  /\ Goto(p, "tables")
  /\ UNCHANGED <<fileVars, dir, memoryVars, starts>>

MakeDirectory(p) ==
  /\ pc[p] = "mkdir"
  /\ output[p] \notin made
  /\ made' = made \cup {output[p]}
  /\ Goto(p, "tables")
  /\ UNCHANGED <<fileVars, dir, memoryVars, starts>>

Put(p, content) ==
  dir' = [dir EXCEPT ![output[p]] = [@ EXCEPT ![table[p] + 1] = content]]

\* write_text() of the next file opens it, which leaves it empty, and fills it.
OpenTable(p) ==
  /\ pc[p] = "tables"
  /\ table[p] < Tables
  /\ Put(p, Cut)
  /\ Goto(p, "writing")
  /\ UNCHANGED <<fileVars, made, memoryVars, starts>>

WriteTable(p) ==
  /\ pc[p] = "writing"
  /\ Put(p, dataset[p])
  /\ table' = [table EXCEPT ![p] = @ + 1]
  /\ Goto(p, "tables")
  /\ UNCHANGED <<fileVars, made, command, output, split, dataset, starts>>

\* All tables are written.
Done(p) ==
  /\ pc[p] = "tables"
  /\ table[p] = Tables
  /\ Exit(p)
  /\ UNCHANGED <<fileVars, outputVars, starts>>

(***************************************************************************)
(* What goes wrong.                                                        *)
(***************************************************************************)
\* The program reports an error and exits: an input that cannot be split, a
\* split file it cannot read or that is not the one it would have drawn,
\* another program that came first, records that do not fit together.
Refuse(p) ==
  /\ \/ pc[p] = "freeze" /\ splitFile = "absent" /\ ~CanDraw(command[p].in, command[p].policy)
     \/ pc[p] = "load" /\ ~Accepts(p)
     \/ pc[p] = "create" /\ splitFile # "absent"
     \/ pc[p] = "build"
     \/ pc[p] = "mkdir" /\ output[p] \in made
  /\ Exit(p)
  /\ UNCHANGED <<fileVars, outputVars, starts>>

\* The program is killed, or a write fails; what it was writing stays cut.
Kill(p) ==
  /\ pc[p] # "idle"
  /\ Exit(p)
  /\ UNCHANGED <<fileVars, outputVars, starts>>

\* Somebody moves an entry of the frozen split into another group.
Edit ==
  /\ ~edited
  /\ splitFile = "whole"
  /\ edited' = TRUE
  /\ \E x \in Movable \cap DOMAIN frozen.group, i \in 1 .. 3 :
       /\ Groups[i] # frozen.group[x]
       /\ frozen' = [frozen EXCEPT !.group[x] = Groups[i]]
  /\ UNCHANGED <<splitFile, outputVars, pc, memoryVars, starts>>

Run(p) ==
  \/ Exists(p) \/ Load(p) \/ Draw(p) \/ Create(p) \/ WriteSplit(p)
  \/ Build(p) \/ MakeDirectory(p) \/ OpenTable(p) \/ WriteTable(p)
  \/ Done(p) \/ Refuse(p)

Next ==
  \/ \E p \in Processes : Run(p) \/ Kill(p)
  \/ \E p \in Processes, c \in Commands, d \in Outputs : Start(p, c, d)
  \/ Edit

Spec == Init /\ [][Next]_vars

(***************************************************************************)
(* Properties.                                                             *)
(***************************************************************************)
\* A reader takes a directory whose metadata.json parses for a dataset; one that
\* is empty or cut, as a kill or a full disk leaves it, does not parse.
Finished == {d \in Outputs : dir[d][Tables] \notin {Absent, Cut}}
Metadata(d) == dir[d][Tables]

\* All tables of a finished dataset belong together: none is missing, none cut
\* and none of another dataset, whoever else wrote, or died writing, there.
WholeDatasets == \A d \in Finished : \A k \in 1 .. Tables : dir[d][k] = Metadata(d)

\* Over all datasets ever finished against one split file, by whichever
\* seeds, populations, races, restarts and edits: the policy is one, and under
\* the taskset policy an input, under all its names, is in one group only.
NoLeakage ==
  \A d, e \in Finished :
    /\ Metadata(d).policy = Metadata(e).policy
    /\ Metadata(d).policy = "taskset" =>
         \A v \in DOMAIN Metadata(d).rows, w \in DOMAIN Metadata(e).rows :
           Metadata(d).signature[v] = Metadata(e).signature[w] =>
             Metadata(d).rows[v] = Metadata(e).rows[w]

\* How many inputs of family f a split has in a group.
Count(s, f, g) ==
  Cardinality({s.signature[w] : w \in {v \in DOMAIN s.family : s.family[v] = f /\ s.group[v] = g}})

Distance(a, b) == IF a < b THEN b - a ELSE a - b

\* A taskset split a program works with serves every group from every family,
\* with less than one input between a group and its share (families of three
\* inputs give one to each group).
EveryGroupServed ==
  \A p \in Processes : pc[p] = "build" /\ split[p].policy = "taskset" =>
    \A f \in {split[p].family[w] : w \in DOMAIN split[p].family}, i \in 1 .. 3 :
      LET n     == Cardinality(InputsOf(split[p], f))
          count == Count(split[p], f, Groups[i])
      IN IF n = 3 THEN count = 1
         ELSE count > 0 /\ Distance(5 * count, Share[i] * n) < 5

(***************************************************************************)
(* DatasetInv, the inductive invariant behind WholeDatasets, NoLeakage and *)
(* EveryGroupServed (proved in DatasetProofs).                             *)
(***************************************************************************)
Filling == {"tables", "writing"}
InUse   == {"build", "mkdir"} \cup Filling
Labels  == {"idle", "freeze", "load", "create", "write"} \cup InUse

Shapes ==
  /\ pc \in [Processes -> Labels]
  /\ command = [p \in Processes |-> command[p]]
  /\ output = [p \in Processes |-> output[p]]
  /\ split = [p \in Processes |-> split[p]]
  /\ dataset = [p \in Processes |-> dataset[p]]
  /\ table \in [Processes -> 0 .. Tables]
  /\ made \in SUBSET Outputs
  /\ dir = [d \in Outputs |-> [k \in 1 .. Tables |-> dir[d][k]]]
  /\ splitFile \in {"absent", "partial", "whole"}
  /\ \A p \in Processes : pc[p] # "idle" => command[p] \in Commands /\ output[p] \in Outputs
  /\ \A p \in Processes : pc[p] = "writing" => table[p] < Tables

\* One program at most writes the split file; none has a split before it is whole.
FileInv ==
  /\ \A p \in Processes : pc[p] \in {"create", "write"} =>
       /\ CanDraw(command[p].in, command[p].policy)
       /\ split[p] = Drawn(command[p].in, command[p].seed, command[p].policy)
  /\ \A p, q \in Processes : pc[p] = "write" => splitFile = "partial" /\ (pc[q] = "write" => p = q)
  /\ \A p \in Processes : pc[p] \in InUse => splitFile = "whole"

\* What an edit cannot change, because the entries it moves are drawn again.
FrozenInv ==
  splitFile = "whole" =>
    \/ /\ frozen.policy = "taskset"
       /\ DOMAIN frozen = {"policy", "seed", "family", "signature", "group"}
       /\ Splittable(frozen)
    \/ /\ frozen.policy = "family"
       /\ DOMAIN frozen = {"policy", "seed", "family", "group"}

\* A taskset file keeps the population and the seed of some command line.
OriginInv ==
  splitFile = "whole" /\ frozen.policy = "taskset" =>
    \E c \in Commands : /\ frozen.seed = c.seed
                       /\ frozen.family = c.in.family
                       /\ frozen.signature = c.in.signature

\* A program in its second half holds the split as it was drawn.
MemoryInv ==
  \A p \in Processes : pc[p] \in InUse =>
    /\ split[p].policy = frozen.policy
    /\ frozen.policy = "taskset" =>
         /\ command[p].in.family = frozen.family
         /\ command[p].in.signature = frozen.signature
         /\ split[p] = TasksetSplit(frozen, frozen.seed)

\* Rows that follow from the frozen population and seed alone.
TrueRows(x) ==
  /\ x.policy = frozen.policy
  /\ frozen.policy = "taskset" =>
       /\ x.signature = frozen.signature
       /\ DOMAIN x.rows \subseteq Members(frozen)
       /\ \A w \in DOMAIN x.rows : x.rows[w] = Assigned(frozen, frozen.seed, w)

RowsInv ==
  /\ \A p \in Processes : pc[p] \in {"mkdir"} \cup Filling => TrueRows(dataset[p])
  /\ \A d \in Outputs : \A k \in 1 .. Tables :
       dir[d][k] \notin {Absent, Cut} => splitFile = "whole" /\ TrueRows(dir[d][k])

\* What program p has left in file k of its directory.
Left(p, k) == IF k <= table[p] THEN dataset[p]
              ELSE IF pc[p] = "writing" /\ k = table[p] + 1 THEN Cut ELSE Absent

\* A directory belongs to the program that made it, which fills it in order.
DirectoryInv ==
  /\ \A p \in Processes : pc[p] \notin Filling => table[p] = 0
  /\ \A p \in Processes : pc[p] \in Filling =>
       /\ output[p] \in made
       /\ \A k \in 1 .. Tables : dir[output[p]][k] = Left(p, k)
  /\ \A p, q \in Processes :
       pc[p] \in Filling /\ pc[q] \in Filling /\ output[p] = output[q] => p = q
  /\ \A d \in Outputs \ made : \A k \in 1 .. Tables : dir[d][k] = Absent

DatasetInv ==
  /\ Shapes
  /\ FileInv
  /\ FrozenInv
  /\ OriginInv
  /\ MemoryInv
  /\ RowsInv
  /\ DirectoryInv
  /\ WholeDatasets
=============================================================================
