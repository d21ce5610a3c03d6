---------------------------- MODULE DatasetProofs ----------------------------
(***************************************************************************)
(* Proofs about DatasetBuild, for every set of programs, command lines and *)
(* outputs and every seeded order: DatasetInv is inductive, so finished    *)
(* datasets are whole and no input ever leaks from a group into another.   *)
(***************************************************************************)
EXTENDS DatasetBuild, FiniteSums

USE DEF fileVars, outputVars, memoryVars

(***************************************************************************)
(* The split depends on families, signatures and seed only.                *)
(***************************************************************************)
\* Two records that give the same families and signatures are split alike.
LEMMA SameInput ==
  ASSUME NEW a, NEW b, a.family = b.family, a.signature = b.signature
  PROVE  /\ Members(a) = Members(b)
         /\ Splittable(a) <=> Splittable(b)
         /\ \A seed, w : Assigned(a, seed, w) = Assigned(b, seed, w)
         /\ \A seed : TasksetSplit(a, seed) = TasksetSplit(b, seed)
<1>1. /\ Members(a) = Members(b)
      /\ Families(a) = Families(b)
      /\ \A f : InputsOf(a, f) = InputsOf(b, f)
  BY DEF Members, Families, InputsOf
<1>2. Splittable(a) <=> Splittable(b)
  BY <1>1 DEF Splittable
<1>3. \A seed, w : Assigned(a, seed, w) = Assigned(b, seed, w)
  BY <1>1 DEF Assigned
<1>4. \A seed : TasksetSplit(a, seed) = TasksetSplit(b, seed)
  BY <1>1, <1>3 DEF TasksetSplit
<1> QED
  BY <1>1, <1>2, <1>3, <1>4

\* A split that was drawn can be drawn again from itself.
LEMMA DrawnAgain ==
  ASSUME NEW in, NEW seed, NEW s, s = TasksetSplit(in, seed), Splittable(in)
  PROVE  /\ s.policy = "taskset" /\ s.family = in.family /\ s.signature = in.signature
         /\ DOMAIN s = {"policy", "seed", "family", "signature", "group"}
         /\ Splittable(s)
         /\ s = TasksetSplit(s, s.seed)
<1>1. /\ s.policy = "taskset" /\ s.family = in.family /\ s.signature = in.signature
      /\ s.seed = seed
      /\ DOMAIN s = {"policy", "seed", "family", "signature", "group"}
  BY DEF TasksetSplit
<1> QED
  BY <1>1, SameInput

\* What a group says of a workload in a split drawn from itself.
LEMMA GroupDrawn ==
  ASSUME NEW s, NEW z, s = TasksetSplit(z, z.seed), NEW w \in Members(z)
  PROVE  GroupOf(s, w) = Assigned(z, z.seed, w)
BY DEF TasksetSplit, GroupOf

(***************************************************************************)
(* Shapes.                                                                 *)
(***************************************************************************)
\* Writing a file of a directory changes that file only.
LEMMA PutChanges ==
  ASSUME Shapes, NEW p \in Processes, output[p] \in Outputs, NEW x, Put(p, x)
  PROVE  /\ dir' = [d \in Outputs |-> [k \in 1 .. Tables |-> dir'[d][k]]]
         /\ \A d \in Outputs \ {output[p]} : dir'[d] = dir[d]
         /\ \A k \in 1 .. Tables :
              dir'[output[p]][k] = IF k = table[p] + 1 THEN x ELSE dir[output[p]][k]
<1> DEFINE o == output[p]
           filled == [dir[o] EXCEPT ![table[p] + 1] = x]
<1>1. dir' = [dir EXCEPT ![o] = filled] /\ o \in Outputs
  BY DEF Put
<1>2. /\ filled = [k \in 1 .. Tables |-> filled[k]]
      /\ \A k \in 1 .. Tables : filled[k] = IF k = table[p] + 1 THEN x ELSE dir[o][k]
  <2>1. dir[o] = [k \in 1 .. Tables |-> dir[o][k]]
    BY DEF Shapes
  <2>2. DOMAIN dir[o] = 1 .. Tables
    BY <2>1
  <2> HIDE DEF o
  <2> QED
    BY <2>2
<1>3. dir' = [d \in Outputs |-> dir'[d]] /\ dir'[o] = filled
  <2> HIDE DEF filled
  <2> QED BY <1>1 DEF Shapes
<1>4. \A d \in Outputs \ {o} : dir'[d] = dir[d]
  <2> HIDE DEF filled
  <2> QED BY <1>1
<1>5. ASSUME NEW d \in Outputs
      PROVE  dir'[d] = [k \in 1 .. Tables |-> dir'[d][k]]
  <2>1. CASE d = o
    BY <1>2, <1>3, <2>1
  <2>2. CASE d # o
    <3>1. dir'[d] = dir[d]
      BY <1>4, <2>2
    <3> QED
      BY <3>1 DEF Shapes
  <2> QED
    BY <2>1, <2>2
<1>6. dir' = [d \in Outputs |-> [k \in 1 .. Tables |-> dir'[d][k]]]
  BY <1>3, <1>5
<1> QED
  BY <1>2, <1>3, <1>4, <1>6

\* Labels, memories and directories keep their shapes.
LEMMA ShapesKept ==
  ASSUME Shapes, [Next]_vars
  PROVE  Shapes'
<1> USE TablesAssumption DEF Shapes, Labels, InUse, Filling
<1>1. CASE UNCHANGED vars
  BY <1>1 DEF vars
<1>2. ASSUME NEW p \in Processes, NEW c \in Commands, NEW d \in Outputs, Start(p, c, d)
      PROVE  Shapes'
  BY <1>2 DEF Start, Goto
<1>3. ASSUME NEW p \in Processes, Exit(p), UNCHANGED <<fileVars, outputVars, starts>>
      PROVE  Shapes'
  <2>1. pc' \in [Processes -> Labels] /\ table' \in [Processes -> 0 .. Tables]
    BY <1>3 DEF Exit, Goto
  <2>2. /\ command' = [q \in Processes |-> command'[q]]
        /\ output' = [q \in Processes |-> output'[q]]
    BY <1>3 DEF Exit
  <2>3. /\ split' = [q \in Processes |-> split'[q]]
        /\ dataset' = [q \in Processes |-> dataset'[q]]
    BY <1>3 DEF Exit
  <2>4. /\ \A q \in Processes : pc'[q] # "idle" => command'[q] \in Commands /\ output'[q] \in Outputs
        /\ \A q \in Processes : pc'[q] = "writing" => table'[q] < Tables
    BY <1>3 DEF Exit, Goto
  <2> QED
    BY <1>3, <2>1, <2>2, <2>3, <2>4
<1>4. ASSUME NEW p \in Processes, OpenTable(p) \/ WriteTable(p)
      PROVE  Shapes'
  <2>1. PICK x : Put(p, x)
    BY <1>4 DEF OpenTable, WriteTable
  <2>2. output[p] \in Outputs
    BY <1>4 DEF OpenTable, WriteTable
  <2>3. dir' = [d \in Outputs |-> [k \in 1 .. Tables |-> dir'[d][k]]]
    BY <2>1, <2>2, PutChanges
  <2>4. table' \in [Processes -> 0 .. Tables] /\ pc' \in [Processes -> Labels]
    <3>1. CASE OpenTable(p)
      BY <3>1 DEF OpenTable, Goto
    <3>2. CASE WriteTable(p)
      <4>1. table[p] + 1 \in 0 .. Tables
        BY <3>2 DEF WriteTable
      <4> QED
        BY <3>2, <4>1 DEF WriteTable, Goto
    <3> QED
      BY <1>4, <3>1, <3>2
  <2>5. /\ \A q \in Processes : pc'[q] = "writing" => table'[q] < Tables
        /\ \A q \in Processes : pc'[q] # "idle" => command'[q] \in Commands /\ output'[q] \in Outputs
    BY <1>4 DEF OpenTable, WriteTable, Goto
  <2>6. UNCHANGED <<fileVars, made, command, output, split, dataset>>
    BY <1>4 DEF OpenTable, WriteTable
  <2> QED
    BY <2>3, <2>4, <2>5, <2>6
<1>5. ASSUME NEW p \in Processes,
             Exists(p) \/ Load(p) \/ Draw(p) \/ Create(p) \/ WriteSplit(p) \/ Build(p) \/ MakeDirectory(p)
      PROVE  Shapes'
  <2>1. CASE Exists(p)
    BY <2>1 DEF Exists, Goto
  <2>2. CASE Load(p)
    BY <2>2 DEF Load, Goto
  <2>3. CASE Draw(p)
    BY <2>3 DEF Draw, Goto
  <2>4. CASE Create(p)
    BY <2>4 DEF Create, Goto
  <2>5. CASE WriteSplit(p)
    BY <2>5 DEF WriteSplit, Goto
  <2>6. CASE Build(p)
    BY <2>6 DEF Build, Goto
  <2>7. CASE MakeDirectory(p)
    BY <2>7 DEF MakeDirectory, Goto
  <2> QED
    BY <1>5, <2>1, <2>2, <2>3, <2>4, <2>5, <2>6, <2>7
<1>6. CASE Edit
  BY <1>6 DEF Edit
<1> QED
  BY <1>1, <1>2, <1>3, <1>4, <1>5, <1>6 DEF Next, Run, Done, Refuse, Kill

(***************************************************************************)
(* Who writes the split file, and what stays true of it.                   *)
(***************************************************************************)
\* One program at most writes the split file, and what it writes it has drawn.
LEMMA FileKept ==
  ASSUME Shapes, FileInv, [Next]_vars
  PROVE  FileInv'
<1> USE DEF Shapes, Labels, FileInv, InUse, Filling
<1>1. CASE UNCHANGED vars
  BY <1>1 DEF vars
<1>2. ASSUME NEW p \in Processes, NEW c \in Commands, NEW d \in Outputs, Start(p, c, d)
      PROVE  FileInv'
  BY <1>2 DEF Start, Goto
<1>3. ASSUME NEW p \in Processes, Exit(p), UNCHANGED <<fileVars, outputVars, starts>>
      PROVE  FileInv'
  BY <1>3 DEF Exit, Goto
<1>4. ASSUME NEW p \in Processes, Draw(p)
      PROVE  FileInv'
  BY <1>4 DEF Draw, Goto
<1>5. ASSUME NEW p \in Processes, Create(p)
      PROVE  FileInv'
  BY <1>5 DEF Create, Goto
<1>6. ASSUME NEW p \in Processes, WriteSplit(p)
      PROVE  FileInv'
  BY <1>6 DEF WriteSplit, Goto
<1>7. ASSUME NEW p \in Processes, Load(p)
      PROVE  FileInv'
  BY <1>7 DEF Load, Accepts, Goto
<1>8. ASSUME NEW p \in Processes, Exists(p) \/ Build(p) \/ MakeDirectory(p) \/ OpenTable(p) \/ WriteTable(p)
      PROVE  FileInv'
  <2>1. CASE Exists(p)
    BY <2>1 DEF Exists, Goto
  <2>2. CASE Build(p)
    BY <2>2 DEF Build, Goto
  <2>3. CASE MakeDirectory(p)
    BY <2>3 DEF MakeDirectory, Goto
  <2>4. CASE OpenTable(p)
    BY <2>4 DEF OpenTable, Goto
  <2>5. CASE WriteTable(p)
    BY <2>5 DEF WriteTable, Goto
  <2> QED
    BY <1>8, <2>1, <2>2, <2>3, <2>4, <2>5
<1>9. CASE Edit
  BY <1>9 DEF Edit
<1> QED
  BY <1>1, <1>2, <1>3, <1>4, <1>5, <1>6, <1>7, <1>8, <1>9 DEF Next, Run, Done, Refuse, Kill

\* Once whole, the split file keeps its policy, population and seed; only the
\* write that makes it whole and an edit change what it says.
LEMMA FrozenStays ==
  ASSUME Shapes, FileInv, FrozenInv, [Next]_vars, splitFile = "whole"
  PROVE  /\ splitFile' = "whole"
         /\ FrozenInv'
         /\ frozen'.policy = frozen.policy
         /\ frozen.policy = "taskset" =>
              /\ frozen'.family = frozen.family
              /\ frozen'.signature = frozen.signature
              /\ frozen'.seed = frozen.seed
<1>1. CASE UNCHANGED <<splitFile, frozen>>
  BY <1>1 DEF FrozenInv, Splittable, Members, Families, InputsOf
<1>2. CASE Edit
  <2>1. PICK x \in Movable \cap DOMAIN frozen.group, i \in 1 .. 3 :
          frozen' = [frozen EXCEPT !.group[x] = Groups[i]]
    BY <1>2 DEF Edit
  <2>2. DOMAIN frozen' = DOMAIN frozen /\ splitFile' = "whole"
    BY <1>2, <2>1 DEF Edit
  <2>3. \A h \in DOMAIN frozen : h # "group" => frozen'[h] = frozen[h]
    BY <2>1
  <2>4. CASE frozen.policy = "taskset"
    <3>1. DOMAIN frozen = {"policy", "seed", "family", "signature", "group"} /\ Splittable(frozen)
      BY <2>4 DEF FrozenInv
    <3>2. /\ frozen'.policy = "taskset" /\ frozen'.family = frozen.family
          /\ frozen'.signature = frozen.signature /\ frozen'.seed = frozen.seed
      BY <2>3, <2>4, <3>1
    <3>3. Splittable(frozen')
      BY <3>1, <3>2, SameInput
    <3> QED
      BY <2>2, <2>4, <3>1, <3>2, <3>3 DEF FrozenInv
  <2>5. CASE frozen.policy = "family"
    <3>1. DOMAIN frozen = {"policy", "seed", "family", "group"}
      BY <2>5 DEF FrozenInv
    <3>2. frozen'.policy = "family"
      BY <2>3, <2>5, <3>1
    <3> QED
      BY <2>2, <2>5, <3>1, <3>2 DEF FrozenInv
  <2> QED
    BY <2>4, <2>5 DEF FrozenInv
<1>3. ASSUME NEW p \in Processes, Run(p) \/ Kill(p)
      PROVE  UNCHANGED <<splitFile, frozen>>
  <2>1. ~Create(p) /\ ~WriteSplit(p)
    BY DEF Create, WriteSplit, FileInv, InUse, Filling
  <2> QED
    BY <1>3, <2>1 DEF Run, Exists, Load, Draw, Build, MakeDirectory, OpenTable, WriteTable,
                       Done, Refuse, Kill
<1>4. ASSUME NEW p \in Processes, NEW c \in Commands, NEW d \in Outputs, Start(p, c, d)
      PROVE  UNCHANGED <<splitFile, frozen>>
  BY <1>4 DEF Start
<1>5. CASE UNCHANGED vars
  BY <1>1, <1>5 DEF vars
<1> QED
  BY <1>1, <1>2, <1>3, <1>4, <1>5 DEF Next

\* A whole split file has the shape its policy gives it.
LEMMA FrozenKept ==
  ASSUME Shapes, FileInv, FrozenInv, [Next]_vars
  PROVE  FrozenInv'
<1>1. CASE splitFile = "whole"
  BY <1>1, FrozenStays
<1>2. CASE splitFile # "whole" /\ splitFile' # "whole"
  BY <1>2 DEF FrozenInv
<1>3. CASE splitFile # "whole" /\ splitFile' = "whole"
  <2>1. PICK p \in Processes : WriteSplit(p)
    <3>1. ~UNCHANGED splitFile
      BY <1>3
    <3> QED
      BY <1>3, <3>1 DEF Next, vars, Run, Start, Exists, Load, Draw, Create, Build, MakeDirectory,
                        OpenTable, WriteTable, Done, Refuse, Kill, Edit
  <2> DEFINE c == command[p]
  <2>2. /\ CanDraw(c.in, c.policy) /\ frozen' = Drawn(c.in, c.seed, c.policy)
        /\ c.policy \in {"taskset", "family"}
    BY <2>1, CommandsAssumption DEF WriteSplit, FileInv, Shapes
  <2>3. CASE c.policy = "taskset"
    <3>1. Splittable(c.in) /\ frozen' = TasksetSplit(c.in, c.seed)
      BY <2>2, <2>3 DEF CanDraw, Drawn
    <3>2. /\ frozen'.policy = "taskset" /\ Splittable(frozen')
          /\ DOMAIN frozen' = {"policy", "seed", "family", "signature", "group"}
      BY <3>1, DrawnAgain
    <3> QED
      BY <3>2 DEF FrozenInv
  <2>4. CASE c.policy = "family"
    <3>1. frozen' = FamilySplit(c.in, c.seed)
      BY <2>2, <2>4 DEF Drawn
    <3>2. frozen'.policy = "family" /\ DOMAIN frozen' = {"policy", "seed", "family", "group"}
      BY <3>1 DEF FamilySplit
    <3> QED
      BY <3>2 DEF FrozenInv
  <2> QED
    BY <2>2, <2>3, <2>4
<1> QED
  BY <1>1, <1>2, <1>3

(***************************************************************************)
(* What programs hold, and what they write.                                *)
(***************************************************************************)
\* A split that stays in memory stays the one the file was drawn as.
LEMMA MemoryStays ==
  ASSUME Shapes, FileInv, FrozenInv, MemoryInv, [Next]_vars,
         NEW p \in Processes, pc[p] \in InUse, split'[p] = split[p], command'[p] = command[p]
  PROVE  /\ split'[p].policy = frozen'.policy
         /\ frozen'.policy = "taskset" =>
              /\ command'[p].in.family = frozen'.family
              /\ command'[p].in.signature = frozen'.signature
              /\ split'[p] = TasksetSplit(frozen', frozen'.seed)
<1>1. splitFile = "whole"
  BY DEF FileInv
<1>2. /\ frozen'.policy = frozen.policy
      /\ frozen.policy = "taskset" =>
           /\ frozen'.family = frozen.family
           /\ frozen'.signature = frozen.signature
           /\ frozen'.seed = frozen.seed
  BY <1>1, FrozenStays
<1>3. frozen.policy = "taskset" =>
        TasksetSplit(frozen', frozen'.seed) = TasksetSplit(frozen, frozen.seed)
  BY <1>2, SameInput
<1> QED
  BY <1>2, <1>3 DEF MemoryInv

\* Memory and file agree: on the split read, on the split written, and later.
LEMMA MemoryKept ==
  ASSUME Shapes, FileInv, FrozenInv, MemoryInv, [Next]_vars
  PROVE  MemoryInv'
<1> SUFFICES ASSUME NEW p \in Processes, pc'[p] \in InUse
             PROVE  /\ split'[p].policy = frozen'.policy
                    /\ frozen'.policy = "taskset" =>
                         /\ command'[p].in.family = frozen'.family
                         /\ command'[p].in.signature = frozen'.signature
                         /\ split'[p] = TasksetSplit(frozen', frozen'.seed)
  BY DEF MemoryInv
<1> DEFINE c == command[p]
<1>1. CASE Load(p)
  <2>1. /\ Acceptable(c.in, c.policy, frozen) /\ splitFile = "whole"
        /\ split'[p] = frozen /\ UNCHANGED <<frozen, command>>
    BY <1>1 DEF Load, Accepts, Shapes
  <2>2. CASE frozen.policy = "taskset"
    <3>1. Splittable(c.in) /\ frozen = TasksetSplit(c.in, frozen.seed)
      BY <2>1, <2>2 DEF Acceptable
    <3>2. frozen.family = c.in.family /\ frozen.signature = c.in.signature
          /\ frozen = TasksetSplit(frozen, frozen.seed)
      BY <3>1, DrawnAgain
    <3> QED
      BY <2>1, <3>2
  <2> QED
    BY <2>1, <2>2
<1>2. CASE WriteSplit(p)
  <2>1. /\ CanDraw(c.in, c.policy) /\ frozen' = Drawn(c.in, c.seed, c.policy)
        /\ c.policy \in {"taskset", "family"} /\ split'[p] = frozen' /\ command' = command
    BY <1>2, CommandsAssumption DEF WriteSplit, FileInv, Shapes, memoryVars
  <2>2. CASE c.policy = "taskset"
    <3>1. Splittable(c.in) /\ frozen' = TasksetSplit(c.in, c.seed)
      BY <2>1, <2>2 DEF CanDraw, Drawn
    <3>2. frozen'.family = c.in.family /\ frozen'.signature = c.in.signature
          /\ frozen' = TasksetSplit(frozen', frozen'.seed)
      BY <3>1, DrawnAgain
    <3> QED
      BY <2>1, <3>2
  <2>3. CASE c.policy = "family"
    <3>1. frozen'.policy = "family"
      BY <2>1, <2>3 DEF Drawn, FamilySplit
    <3> QED
      BY <2>1, <3>1
  <2> QED
    BY <2>1, <2>2, <2>3
<1>3. CASE ~Load(p) /\ ~WriteSplit(p)
  <2>1. pc[p] \in InUse /\ split'[p] = split[p] /\ command'[p] = command[p]
    <3>1. CASE UNCHANGED vars
      BY <3>1 DEF vars
    <3>2. CASE Edit
      BY <3>2 DEF Edit
    <3>3. ASSUME NEW q \in Processes, NEW e \in Commands, NEW d \in Outputs, Start(q, e, d)
          PROVE  pc[p] \in InUse /\ split'[p] = split[p] /\ command'[p] = command[p]
      BY <3>3 DEF Start, Goto, Shapes, InUse, Filling
    <3>4. ASSUME NEW q \in Processes, Exit(q)
          PROVE  pc[p] \in InUse /\ split'[p] = split[p] /\ command'[p] = command[p]
      BY <3>4 DEF Exit, Goto, Shapes, InUse, Filling
    <3>5. ASSUME NEW q \in Processes, Exists(q) \/ Load(q) \/ Draw(q)
          PROVE  pc[p] \in InUse /\ split'[p] = split[p] /\ command'[p] = command[p]
      BY <1>3, <3>5 DEF Exists, Load, Draw, Goto, Shapes, InUse, Filling
    <3>6. ASSUME NEW q \in Processes, Create(q) \/ WriteSplit(q)
          PROVE  pc[p] \in InUse /\ split'[p] = split[p] /\ command'[p] = command[p]
      BY <1>3, <3>6 DEF Create, WriteSplit, Goto, Shapes, InUse, Filling
    <3>7. ASSUME NEW q \in Processes, Build(q) \/ MakeDirectory(q) \/ OpenTable(q) \/ WriteTable(q)
          PROVE  pc[p] \in InUse /\ split'[p] = split[p] /\ command'[p] = command[p]
      BY <3>7 DEF Build, MakeDirectory, OpenTable, WriteTable, Goto, Shapes, InUse, Filling
    <3> QED
      BY <3>1, <3>2, <3>3, <3>4, <3>5, <3>6, <3>7 DEF Next, Run, Done, Refuse, Kill
  <2> QED
    BY <2>1, MemoryStays
<1> QED
  BY <1>1, <1>2, <1>3

\* Rows that follow from the frozen population go on doing so.
LEMMA RowsStay ==
  ASSUME Shapes, FileInv, FrozenInv, [Next]_vars, splitFile = "whole", NEW x, TrueRows(x)
  PROVE  TrueRows(x)'
<1>1. /\ frozen'.policy = frozen.policy
      /\ frozen.policy = "taskset" =>
           /\ frozen'.family = frozen.family
           /\ frozen'.signature = frozen.signature
           /\ frozen'.seed = frozen.seed
  BY FrozenStays
<1>2. frozen.policy = "taskset" =>
        /\ Members(frozen') = Members(frozen)
        /\ \A w : Assigned(frozen', frozen'.seed, w) = Assigned(frozen, frozen.seed, w)
  BY <1>1, SameInput
<1> QED
  BY <1>1, <1>2 DEF TrueRows

\* Rows are computed from the split in memory, so they are true ones.
LEMMA RowsBuilt ==
  ASSUME Shapes, MemoryInv, NEW p \in Processes, Build(p)
  PROVE  TrueRows(dataset'[p])
<1> DEFINE c == command[p]
           x == [policy |-> split[p].policy, signature |-> c.in.signature,
                 rows |-> [w \in c.complete |-> GroupOf(split[p], w)]]
<1>1. dataset'[p] = x /\ pc[p] \in InUse /\ c.complete \subseteq Members(c.in)
  BY CommandsAssumption DEF Build, Shapes, InUse, Filling
<1>2. split[p].policy = frozen.policy
  BY <1>1 DEF MemoryInv
<1>3. CASE frozen.policy = "taskset"
  <2>1. /\ c.in.family = frozen.family /\ c.in.signature = frozen.signature
        /\ split[p] = TasksetSplit(frozen, frozen.seed)
    BY <1>1, <1>3 DEF MemoryInv
  <2>2. Members(c.in) = Members(frozen)
    BY <2>1 DEF Members
  <2>3. \A w \in c.complete : GroupOf(split[p], w) = Assigned(frozen, frozen.seed, w)
    BY <1>1, <2>1, <2>2, GroupDrawn
  <2> QED
    BY <1>1, <1>2, <2>1, <2>2, <2>3 DEF TrueRows
<1> QED
  BY <1>1, <1>2, <1>3 DEF TrueRows

\* Programs prepare, and directories hold, true rows only.
LEMMA RowsKept ==
  ASSUME Shapes, FileInv, FrozenInv, MemoryInv, RowsInv, [Next]_vars
  PROVE  RowsInv'
<1>1. ASSUME splitFile = "whole"
      PROVE  splitFile' = "whole" /\ \A x : TrueRows(x) => TrueRows(x)'
  BY <1>1, FrozenStays, RowsStay
<1>2. ASSUME NEW p \in Processes, pc'[p] \in {"mkdir"} \cup Filling
      PROVE  TrueRows(dataset[p])'
  <2>1. CASE Build(p)
    <3>1. frozen' = frozen
      BY <2>1 DEF Build
    <3> QED
      BY <2>1, <3>1, RowsBuilt DEF TrueRows
  <2>2. CASE ~Build(p)
    <3>1. pc[p] \in {"mkdir"} \cup Filling /\ dataset'[p] = dataset[p]
      <4>1. CASE UNCHANGED vars
        BY <1>2, <4>1 DEF vars
      <4>2. CASE Edit
        BY <1>2, <4>2 DEF Edit
      <4>3. ASSUME NEW q \in Processes, NEW e \in Commands, NEW d \in Outputs, Start(q, e, d)
            PROVE  pc[p] \in {"mkdir"} \cup Filling /\ dataset'[p] = dataset[p]
        BY <1>2, <4>3 DEF Start, Goto, Shapes, Filling
      <4>4. ASSUME NEW q \in Processes, Exit(q)
            PROVE  pc[p] \in {"mkdir"} \cup Filling /\ dataset'[p] = dataset[p]
        BY <1>2, <4>4 DEF Exit, Goto, Shapes, Filling
      <4>5. ASSUME NEW q \in Processes, Exists(q) \/ Load(q) \/ Draw(q) \/ Create(q) \/ WriteSplit(q)
            PROVE  pc[p] \in {"mkdir"} \cup Filling /\ dataset'[p] = dataset[p]
        BY <1>2, <4>5 DEF Exists, Load, Draw, Create, WriteSplit, Goto, Shapes, Filling
      <4>6. ASSUME NEW q \in Processes, Build(q) \/ MakeDirectory(q) \/ OpenTable(q) \/ WriteTable(q)
            PROVE  pc[p] \in {"mkdir"} \cup Filling /\ dataset'[p] = dataset[p]
        BY <1>2, <2>2, <4>6 DEF Build, MakeDirectory, OpenTable, WriteTable, Goto, Shapes, Filling
      <4> QED
        BY <4>1, <4>2, <4>3, <4>4, <4>5, <4>6 DEF Next, Run, Done, Refuse, Kill
    <3>2. splitFile = "whole" /\ TrueRows(dataset[p])
      BY <3>1 DEF FileInv, RowsInv, InUse, Filling
    <3> QED
      BY <1>1, <3>1, <3>2 DEF TrueRows
  <2> QED
    BY <2>1, <2>2
<1>3. ASSUME NEW d \in Outputs, NEW k \in 1 .. Tables, dir'[d][k] \notin {Absent, Cut}
      PROVE  splitFile' = "whole" /\ TrueRows(dir[d][k])'
  <2>1. PICK x : x = dir'[d][k] /\ splitFile = "whole" /\ TrueRows(x)
    <3>1. CASE dir' = dir
      BY <1>3, <3>1 DEF RowsInv
    <3>2. CASE dir' # dir
      <4>1. PICK p \in Processes : OpenTable(p) \/ WriteTable(p)
        BY <3>2 DEF Next, vars, Run, Start, Exists, Load, Draw, Create, WriteSplit, Build, MakeDirectory,
                    Done, Refuse, Kill, Edit
      <4>2. splitFile = "whole" /\ TrueRows(dataset[p]) /\ output[p] \in Outputs
        BY <4>1 DEF OpenTable, WriteTable, FileInv, RowsInv, InUse, Filling, Shapes
      <4>3. dir'[d][k] = dir[d][k] \/ dir'[d][k] \in {Cut, dataset[p]}
        <5>1. PICK y \in {Cut, dataset[p]} : Put(p, y)
          BY <4>1 DEF OpenTable, WriteTable
        <5>2. /\ \A e \in Outputs \ {output[p]} : dir'[e] = dir[e]
              /\ dir'[output[p]][k] = IF k = table[p] + 1 THEN y ELSE dir[output[p]][k]
          BY <4>2, <5>1, PutChanges
        <5> QED
          BY <5>2
      <4> QED
        BY <1>3, <4>2, <4>3 DEF RowsInv
    <3> QED
      BY <3>1, <3>2
  <2> QED
    BY <1>1, <2>1 DEF TrueRows
<1> QED
  BY <1>2, <1>3 DEF RowsInv

(***************************************************************************)
(* Directories.                                                            *)
(***************************************************************************)
\* A directory is filled by the program that made it, and in order.
LEMMA DirectoryKept ==
  ASSUME Shapes, DirectoryInv, WholeDatasets, [Next]_vars
  PROVE  DirectoryInv' /\ WholeDatasets'
<1> USE TablesAssumption
<1>1. ASSUME UNCHANGED outputVars,
             \A p \in Processes : pc'[p] \in Filling =>
               /\ pc'[p] = pc[p] /\ output'[p] = output[p]
               /\ dataset'[p] = dataset[p] /\ table'[p] = table[p],
             \A p \in Processes : pc'[p] \notin Filling => table'[p] = 0
      PROVE  DirectoryInv' /\ WholeDatasets'
  <2>1. WholeDatasets'
    BY <1>1 DEF WholeDatasets, Finished, Metadata
  <2>2. ASSUME NEW p \in Processes, pc'[p] \in Filling
        PROVE  /\ pc[p] \in Filling
               /\ output'[p] \in made'
               /\ \A k \in 1 .. Tables : dir'[output'[p]][k] = Left(p, k)'
    <3>1. /\ pc'[p] = pc[p] /\ output'[p] = output[p]
          /\ dataset'[p] = dataset[p] /\ table'[p] = table[p]
      BY <1>1, <2>2
    <3>2. pc[p] \in Filling
      BY <2>2, <3>1
    <3> QED
      BY <1>1, <3>1, <3>2 DEF Left, DirectoryInv
  <2>3. \A p, q \in Processes :
          pc'[p] \in Filling /\ pc'[q] \in Filling /\ output'[p] = output'[q] => p = q
    BY <1>1, <2>2 DEF DirectoryInv
  <2>4. \A d \in Outputs \ made' : \A k \in 1 .. Tables : dir'[d][k] = Absent
    BY <1>1 DEF DirectoryInv
  <2> QED
    BY <1>1, <2>1, <2>2, <2>3, <2>4 DEF DirectoryInv
<1>2. CASE UNCHANGED vars \/ Edit
  BY <1>1, <1>2 DEF vars, Edit, DirectoryInv
<1>3. ASSUME NEW p \in Processes, NEW c \in Commands, NEW d \in Outputs, Start(p, c, d)
      PROVE  DirectoryInv' /\ WholeDatasets'
  BY <1>1, <1>3 DEF Start, Goto, Shapes, DirectoryInv, Filling
<1>4. ASSUME NEW p \in Processes, Exit(p), UNCHANGED <<fileVars, outputVars, starts>>
      PROVE  DirectoryInv' /\ WholeDatasets'
  BY <1>1, <1>4 DEF Exit, Goto, Shapes, DirectoryInv, Filling
<1>5. ASSUME NEW p \in Processes, Exists(p) \/ Load(p) \/ Draw(p) \/ Create(p) \/ WriteSplit(p)
      PROVE  DirectoryInv' /\ WholeDatasets'
  <2>1. UNCHANGED <<outputVars, output, dataset, table>>
    BY <1>5 DEF Exists, Load, Draw, Create, WriteSplit
  <2>2. PICK l \in {"load", "create", "write", "build"} : Goto(p, l) /\ pc[p] \notin Filling
    BY <1>5 DEF Exists, Load, Draw, Create, WriteSplit, Filling
  <2> QED
    BY <1>1, <2>1, <2>2 DEF Goto, Shapes, DirectoryInv, Filling
<1>6. ASSUME NEW p \in Processes, Build(p)
      PROVE  DirectoryInv' /\ WholeDatasets'
  BY <1>1, <1>6 DEF Build, Goto, Shapes, DirectoryInv, Filling
<1>7. ASSUME NEW p \in Processes, MakeDirectory(p)
      PROVE  DirectoryInv' /\ WholeDatasets'
  <2> DEFINE o == output[p]
  <2>1. /\ o \in Outputs \ made /\ table[p] = 0
        /\ \A k \in 1 .. Tables : dir[o][k] = Absent
    BY <1>7 DEF MakeDirectory, Shapes, DirectoryInv, Filling
  <2>2. /\ made' = made \cup {o} /\ UNCHANGED <<dir, output, dataset, table>>
        /\ pc'[p] = "tables" /\ \A q \in Processes \ {p} : pc'[q] = pc[q]
    BY <1>7 DEF MakeDirectory, Goto, Shapes
  <2>3. \A q \in Processes \ {p} : pc'[q] \in Filling =>
          pc[q] \in Filling /\ output[q] # o /\ output[q] \in made
    BY <2>1, <2>2 DEF DirectoryInv
  <2>4. \A q \in Processes : pc'[q] \notin Filling => table'[q] = 0
    BY <2>1, <2>2 DEF DirectoryInv
  <2>5. ASSUME NEW q \in Processes, pc'[q] \in Filling
        PROVE  /\ output'[q] \in made'
               /\ \A k \in 1 .. Tables : dir'[output'[q]][k] = Left(q, k)'
    <3>1. CASE q = p
      BY <2>1, <2>2, <3>1 DEF Left
    <3>2. CASE q # p
      <4>1. pc[q] \in Filling /\ pc'[q] = pc[q] /\ output[q] \in made
        BY <2>2, <2>3, <2>5, <3>2
      <4>2. \A k \in 1 .. Tables : dir[output[q]][k] = Left(q, k)
        BY <4>1 DEF DirectoryInv
      <4> QED
        BY <2>2, <4>1, <4>2 DEF Left
    <3> QED
      BY <3>1, <3>2
  <2>6. \A q, r \in Processes :
          pc'[q] \in Filling /\ pc'[r] \in Filling /\ output'[q] = output'[r] => q = r
    BY <2>2, <2>3 DEF DirectoryInv
  <2>7. \A d \in Outputs \ made' : \A k \in 1 .. Tables : dir'[d][k] = Absent
    BY <2>2 DEF DirectoryInv
  <2>8. DirectoryInv'
    BY <2>4, <2>5, <2>6, <2>7 DEF DirectoryInv
  <2> QED
    BY <2>2, <2>8 DEF WholeDatasets, Finished, Metadata
<1>8. ASSUME NEW p \in Processes, NEW x, Put(p, x), pc[p] \in Filling, pc'[p] \in Filling,
             UNCHANGED <<made, output, dataset>>,
             table'[p] \in 0 .. Tables,
             \A k \in 1 .. Tables :
               (IF k = table[p] + 1 THEN x ELSE Left(p, k)) = Left(p, k)',
             \A q \in Processes \ {p} : pc'[q] = pc[q] /\ table'[q] = table[q]
      PROVE  DirectoryInv' /\ WholeDatasets'
  <2> DEFINE o == output[p]
  <2>1. /\ o \in Outputs /\ o \in made
        /\ \A k \in 1 .. Tables : dir[o][k] = Left(p, k)
    BY <1>8 DEF Shapes, DirectoryInv, Filling
  <2>2. /\ \A d \in Outputs \ {o} : dir'[d] = dir[d]
        /\ \A k \in 1 .. Tables : dir'[o][k] = IF k = table[p] + 1 THEN x ELSE dir[o][k]
    BY <1>8, <2>1, PutChanges
  <2>3. \A k \in 1 .. Tables : dir'[o][k] = Left(p, k)'
    BY <1>8, <2>1, <2>2
  <2>4. ASSUME NEW q \in Processes, pc'[q] \in Filling
        PROVE  /\ output'[q] \in made'
               /\ \A k \in 1 .. Tables : dir'[output'[q]][k] = Left(q, k)'
    <3>1. CASE q = p
      BY <1>8, <2>1, <2>3, <3>1
    <3>2. CASE q # p
      <4>1. pc[q] \in Filling /\ pc'[q] = pc[q] /\ table'[q] = table[q]
        BY <1>8, <2>4, <3>2
      <4>2. output[q] \in Outputs \ {o} /\ output[q] \in made
        BY <1>8, <3>2, <4>1 DEF Shapes, DirectoryInv, Filling
      <4>3. dir'[output[q]] = dir[output[q]]
        BY <2>2, <4>2
      <4>4. \A k \in 1 .. Tables : dir[output[q]][k] = Left(q, k)
        BY <4>1 DEF DirectoryInv
      <4>5. \A k \in 1 .. Tables : Left(q, k)' = Left(q, k)
        BY <1>8, <4>1 DEF Left
      <4> QED
        BY <1>8, <4>2, <4>3, <4>4, <4>5
    <3> QED
      BY <3>1, <3>2
  <2>5. \A q \in Processes : pc'[q] \notin Filling => table'[q] = 0
    BY <1>8 DEF DirectoryInv
  <2>6. \A q, r \in Processes :
          pc'[q] \in Filling /\ pc'[r] \in Filling /\ output'[q] = output'[r] => q = r
    BY <1>8 DEF DirectoryInv
  <2>7. \A d \in Outputs \ made' : \A k \in 1 .. Tables : dir'[d][k] = Absent
    BY <1>8, <2>1, <2>2 DEF DirectoryInv
  <2>8. DirectoryInv'
    BY <2>4, <2>5, <2>6, <2>7 DEF DirectoryInv
  <2>9. ASSUME NEW d \in Finished', NEW k \in 1 .. Tables
        PROVE  dir'[d][k] = dir'[d][Tables]
    <3>1. CASE d = o
      <4>1. dir'[o][Tables] \notin {Absent, Cut}
        BY <2>9, <3>1 DEF Finished
      <4>2. Left(p, Tables)' \notin {Absent, Cut}
        BY <2>3, <4>1
      <4>3. Tables <= table'[p]
        BY <4>2 DEF Left
      <4>4. k <= table'[p]
        BY <1>8, <4>3
      <4>5. Left(p, k)' = dataset'[p] /\ Left(p, Tables)' = dataset'[p]
        BY <4>3, <4>4 DEF Left
      <4> QED
        BY <2>3, <3>1, <4>5
    <3>2. CASE d # o
      BY <2>2, <2>9, <3>2 DEF WholeDatasets, Finished, Metadata
    <3> QED
      BY <3>1, <3>2
  <2> QED
    BY <2>8, <2>9 DEF WholeDatasets, Metadata
<1>9. ASSUME NEW p \in Processes, OpenTable(p)
      PROVE  DirectoryInv' /\ WholeDatasets'
  <2>1. /\ pc[p] = "tables" /\ pc'[p] = "writing" /\ table[p] \in 0 .. Tables /\ table' = table
        /\ \A q \in Processes \ {p} : pc'[q] = pc[q]
        /\ UNCHANGED <<made, output, dataset>> /\ Put(p, Cut)
    BY <1>9 DEF OpenTable, Goto, Shapes
  <2>2. \A k \in 1 .. Tables : (IF k = table[p] + 1 THEN Cut ELSE Left(p, k)) = Left(p, k)'
    BY <2>1 DEF Left
  <2> QED
    BY <1>8, <2>1, <2>2 DEF Filling
<1>10. ASSUME NEW p \in Processes, WriteTable(p)
       PROVE  DirectoryInv' /\ WholeDatasets'
  <2>1. /\ pc[p] = "writing" /\ pc'[p] = "tables" /\ table[p] \in 0 .. Tables /\ table[p] < Tables
        /\ table'[p] = table[p] + 1
        /\ \A q \in Processes \ {p} : pc'[q] = pc[q] /\ table'[q] = table[q]
        /\ UNCHANGED <<made, output, dataset>> /\ Put(p, dataset[p])
    BY <1>10 DEF WriteTable, Goto, Shapes
  <2>2. \A k \in 1 .. Tables : (IF k = table[p] + 1 THEN dataset[p] ELSE Left(p, k)) = Left(p, k)'
    BY <2>1 DEF Left
  <2>3. table'[p] \in 0 .. Tables
    BY <2>1
  <2> QED
    BY <1>8, <2>1, <2>2, <2>3 DEF Filling
<1> QED
  BY <1>2, <1>3, <1>4, <1>5, <1>6, <1>7, <1>9, <1>10 DEF Next, Run, Done, Refuse, Kill

(***************************************************************************)
(* Every group is served: the sizes of the groups of n inputs.             *)
(***************************************************************************)
\* Dividing by five.
LEMMA Fifth ==
  ASSUME NEW a \in Int, NEW b \in 0 .. 4, NEW m, m = 5 * a + b
  PROVE  m \div 5 = a /\ m % 5 = b
BY Z3

\* n is 5 * q + r.
Fives(n, q, r) == q \in Nat /\ r \in 0 .. 4 /\ n = 5 * q + r

\* Floors and remainders of the shares of 5 * q + r inputs.
LEMMA Floors ==
  ASSUME NEW n, NEW q, NEW r, Fives(n, q, r)
  PROVE  /\ Floor(n, 2) = q /\ Floor(n, 3) = q /\ Remainder(n, 2) = r /\ Remainder(n, 3) = r
         /\ r = 0 => Floor(n, 1) = 3 * q /\ Remainder(n, 1) = 0
         /\ r = 1 => Floor(n, 1) = 3 * q /\ Remainder(n, 1) = 3
         /\ r = 2 => Floor(n, 1) = 3 * q + 1 /\ Remainder(n, 1) = 1
         /\ r = 3 => Floor(n, 1) = 3 * q + 1 /\ Remainder(n, 1) = 4
         /\ r = 4 => Floor(n, 1) = 3 * q + 2 /\ Remainder(n, 1) = 2
<1> USE DEF Fives
<1>0. Share[1] = 3 /\ Share[2] = 1 /\ Share[3] = 1
  BY DEF Share
<1>1. ASSUME NEW i \in 1 .. 3, NEW a \in Int, NEW b \in 0 .. 4, Share[i] * n = 5 * a + b
      PROVE  Floor(n, i) = a /\ Remainder(n, i) = b
  <2> DEFINE m == Share[i] * n
  <2>1. m = 5 * a + b
    BY <1>1
  <2> HIDE DEF m
  <2>2. m \div 5 = a /\ m % 5 = b
    BY <2>1, Fifth
  <2> QED BY <2>2 DEF m, Floor, Remainder
<1>2. \A i \in {2, 3} : Floor(n, i) = q /\ Remainder(n, i) = r
  <2> TAKE i \in {2, 3}
  <2>1. Share[i] * n = 5 * q + r /\ q \in Int /\ i \in 1 .. 3
    BY <1>0
  <2> QED BY <1>1, <2>1
<1>3. ASSUME NEW a \in Int, NEW b \in 0 .. 4, 3 * n = 5 * a + b
      PROVE  Floor(n, 1) = a /\ Remainder(n, 1) = b
  <2>1. Share[1] * n = 5 * a + b /\ 1 \in 1 .. 3
    BY <1>0, <1>3
  <2> QED BY <1>1, <2>1
<1>4. /\ r = 0 => 3 * n = 5 * (3 * q) + 0
      /\ r = 1 => 3 * n = 5 * (3 * q) + 3
      /\ r = 2 => 3 * n = 5 * (3 * q + 1) + 1
      /\ r = 3 => 3 * n = 5 * (3 * q + 1) + 4
      /\ r = 4 => 3 * n = 5 * (3 * q + 2) + 2
  OBVIOUS
<1>5. 3 * q \in Int /\ 3 * q + 1 \in Int /\ 3 * q + 2 \in Int
  OBVIOUS
<1>6. r = 0 => Floor(n, 1) = 3 * q /\ Remainder(n, 1) = 0
  BY <1>3, <1>4, <1>5
<1>7. r = 1 => Floor(n, 1) = 3 * q /\ Remainder(n, 1) = 3
  BY <1>3, <1>4, <1>5
<1>8. r = 2 => Floor(n, 1) = 3 * q + 1 /\ Remainder(n, 1) = 1
  BY <1>3, <1>4, <1>5
<1>9. r = 3 => Floor(n, 1) = 3 * q + 1 /\ Remainder(n, 1) = 4
  BY <1>3, <1>4, <1>5
<1>10. r = 4 => Floor(n, 1) = 3 * q + 2 /\ Remainder(n, 1) = 2
  BY <1>3, <1>4, <1>5
<1> QED BY <1>2, <1>6, <1>7, <1>8, <1>9, <1>10

\* How many are served before a group.
LEMMA OneOrTwo ==
  /\ Cardinality({}) = 0
  /\ \A b : Cardinality({b}) = 1
  /\ \A b, c : b # c => Cardinality({b, c}) = 2
<1>1. \A b : IsFiniteSet({b}) /\ Cardinality({b}) = 1
  BY FS_Singleton
<1>2. ASSUME NEW b, NEW c, b # c PROVE Cardinality({b, c}) = 2
  <2>1. {b, c} = {b} \cup {c} /\ c \notin {b}
    BY <1>2
  <2>2. Cardinality({b} \cup {c}) = Cardinality({b}) + 1
    BY <1>1, <2>1, FS_AddElement
  <2>3. Cardinality({b}) = 1
    BY <1>1
  <2> QED BY ONLY <2>1, <2>2, <2>3
<1> QED BY <1>1, <1>2, FS_EmptySet

\* The rounded sizes.
LEMMA RoundedSizes ==
  ASSUME NEW n, NEW q, NEW r, Fives(n, q, r)
  PROVE  /\ Rounded(n) = [i \in 1 .. 3 |-> Rounded(n)[i]]
         /\ r = 0 => Rounded(n)[1] = 3 * q /\ Rounded(n)[2] = q /\ Rounded(n)[3] = q
         /\ r = 1 => Rounded(n)[1] = 3 * q + 1 /\ Rounded(n)[2] = q /\ Rounded(n)[3] = q
         /\ r = 2 => Rounded(n)[1] = 3 * q + 1 /\ Rounded(n)[2] = q + 1 /\ Rounded(n)[3] = q
         /\ r = 3 => Rounded(n)[1] = 3 * q + 2 /\ Rounded(n)[2] = q + 1 /\ Rounded(n)[3] = q
         /\ r = 4 => Rounded(n)[1] = 3 * q + 2 /\ Rounded(n)[2] = q + 1 /\ Rounded(n)[3] = q + 1
<1>1. Rounded(n) = [i \in 1 .. 3 |-> Rounded(n)[i]]
  BY DEF Rounded
<1>2. q \in Nat /\ r \in 0 .. 4 /\ n = 5 * q + r
  BY DEF Fives
<1>3. Floor(n, 2) = q /\ Floor(n, 3) = q /\ Remainder(n, 2) = r /\ Remainder(n, 3) = r
  BY Floors
<1>4. 1 .. 3 = {1, 2, 3}
  OBVIOUS
<1>5. \A i \in 1 .. 3 : Rounded(n)[i] = Floor(n, i) +
        (IF Cardinality({j \in 1 .. 3 : Earlier(n, j, i)}) < LeftOver(n) THEN 1 ELSE 0)
  BY DEF Rounded
<1>6. /\ r = 0 => Floor(n, 1) = 3 * q /\ Remainder(n, 1) = 0
      /\ r = 1 => Floor(n, 1) = 3 * q /\ Remainder(n, 1) = 3
      /\ r = 2 => Floor(n, 1) = 3 * q + 1 /\ Remainder(n, 1) = 1
      /\ r = 3 => Floor(n, 1) = 3 * q + 1 /\ Remainder(n, 1) = 4
      /\ r = 4 => Floor(n, 1) = 3 * q + 2 /\ Remainder(n, 1) = 2
  BY Floors
<1>7. Cardinality({1, 2}) = 2 /\ Cardinality({2, 3}) = 2
  <2>1. 1 # 2 /\ 2 # 3
    OBVIOUS
  <2> QED BY <2>1, OneOrTwo
<1>8. CASE r = 0
  <2>1. Floor(n, 1) = 3 * q /\ Remainder(n, 1) = 0
    BY <1>8, Floors
  <2>2. LeftOver(n) = 0
    BY <1>2, <1>3, <1>8, <2>1 DEF LeftOver
  <2>3. \A i \in 1 .. 3 : Cardinality({j \in 1 .. 3 : Earlier(n, j, i)}) \in Nat
    <3> TAKE i \in 1 .. 3
    <3>1. IsFiniteSet(1 .. 3)
      <4>1. 1 \in Int /\ 3 \in Int
        OBVIOUS
      <4> QED BY <4>1, FS_Interval
    <3>2. IsFiniteSet({j \in 1 .. 3 : Earlier(n, j, i)})
      BY <3>1, FS_Subset
    <3> QED BY <3>2, FS_CardinalityType
  <2>4. \A i \in 1 .. 3 : Rounded(n)[i] = Floor(n, i) + 0
    <3> TAKE i \in 1 .. 3
    <3>1. ~(Cardinality({j \in 1 .. 3 : Earlier(n, j, i)}) < LeftOver(n))
      BY <2>2, <2>3
    <3> QED BY <1>5, <3>1
  <2> QED BY <1>1, <1>2, <1>3, <1>4, <1>8, <2>1, <2>4
<1>9. CASE r = 1 \/ r = 3
  <2> DEFINE a == Floor(n, 1)
             b == Remainder(n, 1)
  <2>1. /\ a \in Nat /\ b \in {3, 4} /\ b > r
        /\ (r = 1 => a = 3 * q) /\ (r = 3 => a = 3 * q + 1)
    BY <1>2, <1>6, <1>9
  <2>2. (r = 1 => LeftOver(n) = 1) /\ (r = 3 => LeftOver(n) = 2)
    BY <1>2, <1>3, <2>1 DEF LeftOver
  <2>3. {j \in 1 .. 3 : Earlier(n, j, 1)} = {}
    <3>1. \A j \in {1, 2, 3} : Earlier(n, j, 1) <=> j \in {}
      BY <1>2, <1>3, <2>1 DEF Earlier
    <3> QED BY <1>4, <3>1
  <2>4. {j \in 1 .. 3 : Earlier(n, j, 2)} = {1}
    <3>1. \A j \in {1, 2, 3} : Earlier(n, j, 2) <=> j \in {1}
      BY <1>2, <1>3, <2>1 DEF Earlier
    <3> QED BY <1>4, <3>1
  <2>5. {j \in 1 .. 3 : Earlier(n, j, 3)} = {1, 2}
    <3>1. \A j \in {1, 2, 3} : Earlier(n, j, 3) <=> j \in {1, 2}
      BY <1>2, <1>3, <2>1 DEF Earlier
    <3> QED BY <1>4, <3>1
  <2>6. Rounded(n)[1] = Floor(n, 1) + (IF 0 < LeftOver(n) THEN 1 ELSE 0)
    <3>1. Cardinality({j \in 1 .. 3 : Earlier(n, j, 1)}) = 0
      BY <2>3, OneOrTwo
    <3> QED BY <1>5, <3>1
  <2>7. Rounded(n)[2] = Floor(n, 2) + (IF 1 < LeftOver(n) THEN 1 ELSE 0)
    <3>1. Cardinality({j \in 1 .. 3 : Earlier(n, j, 2)}) = 1
      BY <2>4, OneOrTwo
    <3> QED BY <1>5, <3>1
  <2>8. Rounded(n)[3] = Floor(n, 3) + (IF 2 < LeftOver(n) THEN 1 ELSE 0)
    <3>1. Cardinality({j \in 1 .. 3 : Earlier(n, j, 3)}) = 2
      BY <1>7, <2>5
    <3> QED BY <1>5, <3>1
  <2> QED BY <1>1, <1>2, <1>3, <1>9, <2>1, <2>2, <2>6, <2>7, <2>8
<1>10. CASE r = 2 \/ r = 4
  <2> DEFINE a == Floor(n, 1)
             b == Remainder(n, 1)
  <2>1. /\ a \in Nat /\ b \in {1, 2} /\ b < r
        /\ (r = 2 => a = 3 * q + 1) /\ (r = 4 => a = 3 * q + 2)
    BY <1>2, <1>6, <1>10
  <2>2. (r = 2 => LeftOver(n) = 1) /\ (r = 4 => LeftOver(n) = 2)
    BY <1>2, <1>3, <2>1 DEF LeftOver
  <2>3. {j \in 1 .. 3 : Earlier(n, j, 1)} = {2, 3}
    <3>1. \A j \in {1, 2, 3} : Earlier(n, j, 1) <=> j \in {2, 3}
      BY <1>2, <1>3, <2>1 DEF Earlier
    <3> QED BY <1>4, <3>1
  <2>4. {j \in 1 .. 3 : Earlier(n, j, 2)} = {}
    <3>1. \A j \in {1, 2, 3} : Earlier(n, j, 2) <=> j \in {}
      BY <1>2, <1>3, <2>1 DEF Earlier
    <3> QED BY <1>4, <3>1
  <2>5. {j \in 1 .. 3 : Earlier(n, j, 3)} = {2}
    <3>1. \A j \in {1, 2, 3} : Earlier(n, j, 3) <=> j \in {2}
      BY <1>2, <1>3, <2>1 DEF Earlier
    <3> QED BY <1>4, <3>1
  <2>6. Rounded(n)[1] = Floor(n, 1) + (IF 2 < LeftOver(n) THEN 1 ELSE 0)
    <3>1. Cardinality({j \in 1 .. 3 : Earlier(n, j, 1)}) = 2
      BY <1>7, <2>3
    <3> QED BY <1>5, <3>1
  <2>7. Rounded(n)[2] = Floor(n, 2) + (IF 0 < LeftOver(n) THEN 1 ELSE 0)
    <3>1. Cardinality({j \in 1 .. 3 : Earlier(n, j, 2)}) = 0
      BY <2>4, OneOrTwo
    <3> QED BY <1>5, <3>1
  <2>8. Rounded(n)[3] = Floor(n, 3) + (IF 1 < LeftOver(n) THEN 1 ELSE 0)
    <3>1. Cardinality({j \in 1 .. 3 : Earlier(n, j, 3)}) = 1
      BY <2>5, OneOrTwo
    <3> QED BY <1>5, <3>1
  <2> QED BY <1>1, <1>2, <1>3, <1>10, <2>1, <2>2, <2>6, <2>7, <2>8
<1> QED BY <1>2, <1>8, <1>9, <1>10

\* Groups that all have inputs feed nobody.
LEMMA NobodyFed ==
  ASSUME NEW s, \A i \in 1 .. 3 : s[i] > 0
  PROVE  Fed(Fed(Fed(s, 1), 2), 3) = s
<1>1. ASSUME NEW i \in 1 .. 3 PROVE Fed(s, i) = s
  <2>1. s[i] > 0
    OBVIOUS
  <2> QED BY ONLY <2>1 DEF Fed
<1> QED BY <1>1

\* Three inputs: the last group is fed by the first.
LEMMA LastIsFed ==
  ASSUME NEW s, s = [i \in 1 .. 3 |-> s[i]], s[1] = 2, s[2] = 1, s[3] = 0
  PROVE  LET t == Fed(Fed(Fed(s, 1), 2), 3) IN t[1] = 1 /\ t[2] = 1 /\ t[3] = 1
<1>1. Fed(s, 1) = s /\ Fed(s, 2) = s
  <2>1. s[1] > 0 /\ s[2] > 0
    OBVIOUS
  <2> QED BY ONLY <2>1 DEF Fed
<1> DEFINE First(d) == \A j \in 1 .. 3 : s[d] > s[j] \/ (s[d] = s[j] /\ d <= j)
           donor == CHOOSE d \in 1 .. 3 : First(d)
<1>2. First(1) /\ ~First(2) /\ ~First(3)
  OBVIOUS
<1>3. donor = 1
  <2>1. \A d \in 1 .. 3 : First(d) <=> d = 1
    <3> HIDE DEF First
    <3>1. 1 .. 3 = {1, 2, 3}
      OBVIOUS
    <3> QED BY <1>2, <3>1
  <2> HIDE DEF First
  <2> QED BY <2>1
<1>4. Fed(s, 3) = [s EXCEPT ![donor] = @ - 1, ![3] = 1]
  BY DEF Fed
<1> HIDE DEF donor, First
<1>5. Fed(s, 3) = [s EXCEPT ![1] = @ - 1, ![3] = 1]
  BY <1>3, <1>4
<1> QED BY <1>1, <1>5

\* What three groups of a family of n get: all of it, nobody nothing, and each
\* less than one input from its share; of three inputs, one each.
LEMMA SizesServe ==
  ASSUME NEW n \in Nat, n >= 3
  PROVE  /\ \A i \in 1 .. 3 : Sizes(n)[i] \in Nat /\ Sizes(n)[i] > 0
         /\ Sizes(n)[1] + Sizes(n)[2] + Sizes(n)[3] = n
         /\ n = 3 => \A i \in 1 .. 3 : Sizes(n)[i] = 1
         /\ n # 3 => /\ 5 * Sizes(n)[1] - 3 * n < 5 /\ 3 * n - 5 * Sizes(n)[1] < 5
                     /\ 5 * Sizes(n)[2] - n < 5 /\ n - 5 * Sizes(n)[2] < 5
                     /\ 5 * Sizes(n)[3] - n < 5 /\ n - 5 * Sizes(n)[3] < 5
<1>0. PICK q \in Nat, r \in 0 .. 4 : Fives(n, q, r) /\ n = 5 * q + r
  <2>1. n \div 5 \in Nat /\ n % 5 \in 0 .. 4 /\ n = 5 * (n \div 5) + (n % 5)
    OBVIOUS
  <2> QED BY <2>1 DEF Fives
<1> DEFINE s == Rounded(n)
<1>1. /\ s = [i \in 1 .. 3 |-> s[i]]
      /\ r = 0 => s[1] = 3 * q /\ s[2] = q /\ s[3] = q
      /\ r = 1 => s[1] = 3 * q + 1 /\ s[2] = q /\ s[3] = q
      /\ r = 2 => s[1] = 3 * q + 1 /\ s[2] = q + 1 /\ s[3] = q
      /\ r = 3 => s[1] = 3 * q + 2 /\ s[2] = q + 1 /\ s[3] = q
      /\ r = 4 => s[1] = 3 * q + 2 /\ s[2] = q + 1 /\ s[3] = q + 1
  BY <1>0, RoundedSizes
<1>2. Sizes(n) = Fed(Fed(Fed(s, 1), 2), 3)
  BY DEF Sizes
<1> HIDE DEF s
<1>3. 1 .. 3 = {1, 2, 3}
  OBVIOUS
<1>4. CASE n = 3
  <2>1. q = 0 /\ r = 3
    BY <1>0, <1>4
  <2>2. s[1] = 2 /\ s[2] = 1 /\ s[3] = 0
    BY <1>1, <2>1
  <2>3. Sizes(n)[1] = 1 /\ Sizes(n)[2] = 1 /\ Sizes(n)[3] = 1
    BY <1>1, <1>2, <2>2, LastIsFed
  <2> QED BY <1>3, <1>4, <2>3
<1>5. CASE n # 3
  <2>1. q >= 1 \/ r = 4
    BY <1>0, <1>5
  <2>2. \A i \in 1 .. 3 : s[i] > 0
    BY <1>1, <1>3, <2>1
  <2>3. Sizes(n) = s
    BY <1>2, <2>2, NobodyFed
  <2>4. /\ s[1] \in Nat /\ s[2] \in Nat /\ s[3] \in Nat
        /\ s[1] + s[2] + s[3] = n
    BY <1>0, <1>1
  <2>5. /\ 5 * s[1] - 3 * n < 5 /\ 3 * n - 5 * s[1] < 5
        /\ 5 * s[2] - n < 5 /\ n - 5 * s[2] < 5
        /\ 5 * s[3] - n < 5 /\ n - 5 * s[3] < 5
    BY <1>0, <1>1
  <2> QED BY <1>3, <1>5, <2>2, <2>3, <2>4, <2>5
<1> QED BY <1>4, <1>5

(***************************************************************************)
(* Every group is served: the order of the inputs of a family.             *)
(***************************************************************************)
\* The seeded order of some inputs is total.
Ordered(seed, inputs) ==
  /\ IsFiniteSet(inputs)
  /\ \A s, t \in inputs : /\ Rank[seed][s] \in Nat
                          /\ Rank[seed][s] = Rank[seed][t] => s = t

\* Places among n inputs are 0 to n - 1, each taken by one input.
LEMMA PlacesAreTaken ==
  ASSUME NEW seed, NEW inputs, Ordered(seed, inputs), NEW n, n = Cardinality(inputs)
  PROVE  /\ n \in Nat
         /\ \A s \in inputs : Place(seed, inputs, s) \in 0 .. n - 1
         /\ \A s, t \in inputs : Place(seed, inputs, s) = Place(seed, inputs, t) => s = t
         /\ \A k \in 0 .. n - 1 : \E s \in inputs : Place(seed, inputs, s) = k
<1> DEFINE r(s) == Rank[seed][s]
           Below(s) == {t \in inputs : r(t) < r(s)}
           place(s) == Place(seed, inputs, s)
<1>0. \A s \in inputs : place(s) = Cardinality(Below(s))
  BY DEF Place
<1>1. /\ IsFiniteSet(inputs) /\ n \in Nat
      /\ \A s \in inputs : r(s) \in Nat
      /\ \A s, t \in inputs : r(s) = r(t) => s = t
  BY FS_CardinalityType DEF Ordered
<1> HIDE DEF r
<1>2. ASSUME NEW s \in inputs PROVE IsFiniteSet(Below(s)) /\ Cardinality(Below(s)) \in Nat
  <2>1. Below(s) \in SUBSET inputs
    OBVIOUS
  <2>2. IsFiniteSet(Below(s))
    BY <1>1, <2>1, FS_Subset
  <2> QED BY <2>2, FS_CardinalityType
<1>3. ASSUME NEW s \in inputs, NEW A \in SUBSET inputs, Below(s) \subseteq A, s \in A
      PROVE  IsFiniteSet(A) /\ Cardinality(A) \in Nat /\ place(s) < Cardinality(A)
  <2>1. IsFiniteSet(A) /\ Cardinality(A) \in Nat
    BY <1>1, FS_Subset, FS_CardinalityType
  <2>2. s \notin Below(s)
    BY <1>1
  <2>3. Below(s) \in SUBSET A /\ Below(s) # A
    BY <1>3, <2>2
  <2>4. Cardinality(Below(s)) <= Cardinality(A) /\ Cardinality(Below(s)) # Cardinality(A)
    BY <2>1, <2>3, FS_Subset
  <2>5. place(s) = Cardinality(Below(s)) /\ Cardinality(Below(s)) \in Nat
    BY <1>0, <1>2
  <2> HIDE DEF place, Below
  <2> QED BY <2>1, <2>4, <2>5
<1>4. \A s \in inputs : place(s) \in Nat /\ place(s) < n
  <2> TAKE s \in inputs
  <2>1. place(s) < Cardinality(inputs)
    BY <1>3
  <2> QED BY <1>0, <1>2, <2>1
<1>5. ASSUME NEW s \in inputs, NEW t \in inputs, r(s) < r(t) PROVE place(s) < place(t)
  <2>1. Below(s) \subseteq Below(t) /\ s \in Below(t) /\ Below(t) \in SUBSET inputs
    BY <1>1, <1>5
  <2>2. place(s) < Cardinality(Below(t))
    BY <1>3, <2>1
  <2> QED BY <1>0, <2>2
<1>6. ASSUME NEW s \in inputs, NEW t \in inputs, place(s) = place(t) PROVE s = t
  <2>1. ~(r(s) < r(t)) /\ ~(r(t) < r(s))
    BY <1>4, <1>5, <1>6
  <2> QED BY <1>1, <2>1
<1> DEFINE f == [s \in inputs |-> place(s)]
<1> HIDE DEF place, Below
<1>7. f \in [inputs -> 0 .. n - 1]
  BY <1>1, <1>4
<1>8. f \in Injection(inputs, 0 .. n - 1)
  <2>1. \A s, t \in inputs : f[s] = f[t] => s = t
    BY <1>6
  <2> HIDE DEF f
  <2> QED BY <1>7, <2>1 DEF Injection, IsInjective
<1>9. IsFiniteSet(0 .. n - 1) /\ Cardinality(0 .. n - 1) = n
  <2>1. 0 \in Int /\ n - 1 \in Int
    BY <1>1
  <2> QED BY <1>1, <2>1, FS_Interval
<1>10. f \in Surjection(inputs, 0 .. n - 1)
  <2> HIDE DEF f
  <2> QED BY <1>8, <1>9, FS_Injection
<1>11. \A k \in 0 .. n - 1 : \E s \in inputs : place(s) = k
  <2>1. \A k \in 0 .. n - 1 : \E s \in inputs : f[s] = k
    <3> HIDE DEF f
    <3> QED BY <1>10 DEF Surjection
  <2> QED BY <2>1
<1>12. \A s \in inputs : place(s) \in 0 .. n - 1
  BY <1>1, <1>4
<1> QED BY <1>1, <1>6, <1>11, <1>12 DEF place

\* Inputs with the b places from a on.
PlacedIn(seed, inputs, a, b) ==
  {s \in inputs : a <= Place(seed, inputs, s) /\ Place(seed, inputs, s) < a + b}

\* As many inputs have a place in a range as the range has places.
LEMMA RangeOfPlaces ==
  ASSUME NEW seed, NEW inputs, Ordered(seed, inputs), NEW n, n = Cardinality(inputs),
         NEW a \in Nat, NEW b \in Nat, a + b <= n
  PROVE  Cardinality(PlacedIn(seed, inputs, a, b)) = b
<1> DEFINE place(s) == Place(seed, inputs, s)
           S == {s \in inputs : a <= place(s) /\ place(s) < a + b}
           T == a .. a + b - 1
           f == [s \in S |-> place(s)]
<1>1. /\ n \in Nat
      /\ \A s \in inputs : place(s) \in 0 .. n - 1
      /\ \A s, t \in inputs : place(s) = place(t) => s = t
      /\ \A k \in 0 .. n - 1 : \E s \in inputs : place(s) = k
  BY PlacesAreTaken
<1> HIDE DEF place
<1>2. IsFiniteSet(T) /\ Cardinality(T) = b
  <2>1. a \in Int /\ a + b - 1 \in Int /\ (a > a + b - 1 <=> b = 0)
    OBVIOUS
  <2> QED BY <2>1, FS_Interval
<1>3. f \in [S -> T]
  BY <1>1
<1>4. \A s, t \in S : f[s] = f[t] => s = t
  BY <1>1
<1>5. \A k \in T : \E s \in S : f[s] = k
  <2> TAKE k \in T
  <2>1. k \in 0 .. n - 1 /\ a <= k /\ k < a + b
    BY <1>1
  <2>2. PICK s \in inputs : place(s) = k
    BY <1>1, <2>1
  <2> QED BY <2>1, <2>2
<1> HIDE DEF f, S, T
<1>6. f \in Injection(S, T)
  BY <1>3, <1>4 DEF Injection, IsInjective
<1>7. f \in Surjection(S, T)
  BY <1>3, <1>5 DEF Surjection
<1>8. Cardinality(S) = b
  BY <1>2, <1>6, <1>7, FS_Injection
<1> QED BY <1>8 DEF S, place, PlacedIn

\* Inputs of the i-th group.
Grouped(seed, inputs, n, i) == {s \in inputs : GroupAt(n, Place(seed, inputs, s)) = Groups[i]}

\* A group of a family gets as many inputs as its size.
LEMMA GroupsAreFilled ==
  ASSUME NEW seed, NEW inputs, Ordered(seed, inputs), NEW n, n = Cardinality(inputs), n >= 3,
         NEW i \in 1 .. 3
  PROVE  Cardinality(Grouped(seed, inputs, n, i)) = Sizes(n)[i]
<1> DEFINE place(s) == Place(seed, inputs, s)
           x == Sizes(n)[1]
           y == Sizes(n)[2]
           z == Sizes(n)[3]
           In(a, b) == {s \in inputs : a <= place(s) /\ place(s) < a + b}
<1>1. n \in Nat /\ \A s \in inputs : place(s) \in 0 .. n - 1
  BY PlacesAreTaken
<1>2. x \in Nat /\ y \in Nat /\ z \in Nat /\ x + y + z = n
  BY <1>1, SizesServe
<1>3. \A s \in inputs : GroupAt(n, place(s)) =
        IF place(s) < x THEN "train" ELSE IF place(s) < x + y THEN "validation" ELSE "test"
  BY DEF GroupAt, Groups
<1>4. \A a, b \in Nat : a + b <= n => Cardinality(In(a, b)) = b
  <2> TAKE a, b \in Nat
  <2> HAVE a + b <= n
  <2>1. Cardinality(PlacedIn(seed, inputs, a, b)) = b
    BY RangeOfPlaces
  <2> QED BY <2>1 DEF PlacedIn
<1> HIDE DEF place, x, y, z
<1>5. CASE i = 1
  <2>1. {s \in inputs : GroupAt(n, place(s)) = Groups[i]} = In(0, x)
    BY <1>1, <1>2, <1>3, <1>5 DEF Groups
  <2>2. Cardinality(In(0, x)) = x
    BY <1>1, <1>2, <1>4
  <2> QED BY <1>5, <2>1, <2>2 DEF Grouped, place, x
<1>6. CASE i = 2
  <2>1. {s \in inputs : GroupAt(n, place(s)) = Groups[i]} = In(x, y)
    BY <1>1, <1>2, <1>3, <1>6 DEF Groups
  <2>2. Cardinality(In(x, y)) = y
    <3>1. x + y <= n
      BY <1>1, <1>2
    <3> HIDE DEF In
    <3> QED BY <1>2, <1>4, <3>1
  <2> QED BY <1>6, <2>1, <2>2 DEF Grouped, place, y
<1>7. CASE i = 3
  <2>1. {s \in inputs : GroupAt(n, place(s)) = Groups[i]} = In(x + y, z)
    BY <1>1, <1>2, <1>3, <1>7 DEF Groups
  <2>2. Cardinality(In(x + y, z)) = z
    <3>1. x + y + z <= n /\ x + y \in Nat
      BY <1>1, <1>2
    <3> HIDE DEF In
    <3> QED BY <1>2, <1>4, <3>1
  <2> QED BY <1>7, <2>1, <2>2 DEF Grouped, place, z
<1> QED BY <1>5, <1>6, <1>7

\* A split drawn from a population and a seed of some command line gives each
\* group of a family as many inputs as its size.
LEMMA DrawnIsServed ==
  ASSUME NEW c \in Commands, NEW z, z.seed = c.seed, z.family = c.in.family,
         z.signature = c.in.signature, Splittable(z),
         NEW s, s = TasksetSplit(z, z.seed),
         NEW f \in Families(z), NEW i \in 1 .. 3,
         NEW n, n = Cardinality(InputsOf(z, f))
  PROVE  n \in Nat /\ n >= 3 /\ Count(s, f, Groups[i]) = Sizes(n)[i]
<1> DEFINE inputs == InputsOf(z, f)
           named == {v \in Members(z) : z.family[v] = f}
<1>1. /\ IsFiniteSet(Members(z)) /\ Members(z) = Members(c.in)
      /\ DOMAIN z.signature = Members(z)
  BY CommandsAssumption DEF Members
<1>2. inputs = {z.signature[w] : w \in named}
  BY DEF InputsOf
<1>3. IsFiniteSet(inputs)
  <2>1. named \in SUBSET Members(z)
    OBVIOUS
  <2>2. IsFiniteSet(named)
    BY <1>1, <2>1, FS_Subset
  <2> HIDE DEF named, inputs
  <2> QED BY <1>2, <2>2, ImageFinite
<1>4. Ordered(z.seed, inputs)
  <2>1. inputs = InputsOf(c.in, f) \ {NoSignature} /\ f \in Families(c.in)
    BY <1>1, <1>2 DEF Splittable, InputsOf, Families, Members
  <2>2. \A s1, t1 \in inputs : /\ Rank[c.seed][s1] \in Nat
                               /\ Rank[c.seed][s1] = Rank[c.seed][t1] => s1 = t1
    BY <2>1, RankAssumption
  <2> HIDE DEF inputs
  <2> QED BY <1>3, <2>2 DEF Ordered
<1>5. n \in Nat /\ n >= 3
  BY <1>3, FS_CardinalityType DEF Splittable
<1>6. Cardinality(Grouped(z.seed, inputs, n, i)) = Sizes(n)[i]
  <2> HIDE DEF inputs
  <2>1. n = Cardinality(inputs)
    BY DEF inputs
  <2> QED BY <1>4, <1>5, <2>1, GroupsAreFilled
<1>7. /\ s.family = z.family /\ s.signature = z.signature
      /\ \A w \in Members(z) : s.group[w] = Assigned(z, z.seed, w)
  BY DEF TasksetSplit
<1>8. \A w \in named : Assigned(z, z.seed, w) = GroupAt(n, Place(z.seed, inputs, z.signature[w]))
  BY DEF Assigned
<1>9. {v \in DOMAIN s.family : s.family[v] = f /\ s.group[v] = Groups[i]}
      = {v \in named : GroupAt(n, Place(z.seed, inputs, z.signature[v])) = Groups[i]}
  <2> HIDE DEF inputs
  <2> QED BY <1>7, <1>8 DEF Members
<1>10. {s.signature[w] : w \in {v \in DOMAIN s.family : s.family[v] = f /\ s.group[v] = Groups[i]}}
       = Grouped(z.seed, inputs, n, i)
  <2> HIDE DEF inputs, named
  <2>1. {s.signature[w] : w \in {v \in DOMAIN s.family : s.family[v] = f /\ s.group[v] = Groups[i]}}
        = {z.signature[w] : w \in {v \in named : GroupAt(n, Place(z.seed, inputs, z.signature[v])) = Groups[i]}}
    BY <1>7, <1>9
  <2>2. {z.signature[w] : w \in {v \in named : GroupAt(n, Place(z.seed, inputs, z.signature[v])) = Groups[i]}}
        = Grouped(z.seed, inputs, n, i)
    BY <1>2 DEF Grouped
  <2> QED BY <2>1, <2>2
<1> QED BY <1>5, <1>6, <1>10 DEF Count

\* Groups of the right sizes are served.
LEMMA SizesAreFair ==
  ASSUME NEW n \in Nat, n >= 3, NEW i \in 1 .. 3, NEW count, count = Sizes(n)[i]
  PROVE  IF n = 3 THEN count = 1 ELSE count > 0 /\ Distance(5 * count, Share[i] * n) < 5
<1>1. /\ count \in Nat /\ count > 0
      /\ n = 3 => count = 1
  BY SizesServe
<1>2. n # 3 => 5 * count - Share[i] * n < 5 /\ Share[i] * n - 5 * count < 5
  <2>1. /\ n # 3 => /\ 5 * Sizes(n)[1] - 3 * n < 5 /\ 3 * n - 5 * Sizes(n)[1] < 5
                    /\ 5 * Sizes(n)[2] - n < 5 /\ n - 5 * Sizes(n)[2] < 5
                    /\ 5 * Sizes(n)[3] - n < 5 /\ n - 5 * Sizes(n)[3] < 5
    BY SizesServe
  <2>2. 1 .. 3 = {1, 2, 3} /\ Share[1] = 3 /\ Share[2] = 1 /\ Share[3] = 1
    BY DEF Share
  <2>3. CASE i = 1
    BY <2>1, <2>2, <2>3
  <2>4. CASE i = 2
    BY <2>1, <2>2, <2>4
  <2>5. CASE i = 3
    BY <2>1, <2>2, <2>5
  <2> QED BY <2>2, <2>3, <2>4, <2>5
<1> QED BY <1>1, <1>2 DEF Distance

\* Where a taskset file came from stays true of it.
LEMMA OriginKept ==
  ASSUME Shapes, FileInv, FrozenInv, OriginInv, [Next]_vars
  PROVE  OriginInv'
<1>1. CASE splitFile = "whole"
  BY <1>1, FrozenStays DEF OriginInv
<1>2. CASE splitFile' # "whole"
  BY <1>2 DEF OriginInv
<1>3. CASE splitFile # "whole" /\ splitFile' = "whole"
  <2>1. PICK p \in Processes : WriteSplit(p)
    <3>1. ~UNCHANGED splitFile
      BY <1>3
    <3> QED
      BY <1>3, <3>1 DEF Next, vars, Run, Start, Exists, Load, Draw, Create, Build, MakeDirectory,
                        OpenTable, WriteTable, Done, Refuse, Kill, Edit
  <2> DEFINE c == command[p]
  <2>2. /\ c \in Commands /\ c.policy \in {"taskset", "family"}
        /\ CanDraw(c.in, c.policy) /\ frozen' = Drawn(c.in, c.seed, c.policy)
    BY <2>1, CommandsAssumption DEF WriteSplit, FileInv, Shapes
  <2>3. CASE c.policy = "taskset"
    <3>1. frozen' = TasksetSplit(c.in, c.seed)
      BY <2>2, <2>3 DEF Drawn
    <3>2. /\ frozen'.seed = c.seed /\ frozen'.family = c.in.family
          /\ frozen'.signature = c.in.signature
      BY <3>1 DEF TasksetSplit
    <3> QED
      BY <2>2, <3>2 DEF OriginInv
  <2>4. CASE c.policy = "family"
    <3>1. frozen'.policy = "family"
      BY <2>2, <2>4 DEF Drawn, FamilySplit
    <3> QED
      BY <3>1 DEF OriginInv
  <2> QED
    BY <2>2, <2>3, <2>4
<1> QED
  BY <1>1, <1>2, <1>3

(***************************************************************************)
(* Theorems.                                                               *)
(***************************************************************************)
\* Nothing is written yet.
LEMMA DatasetStarts == Init => DatasetInv
<1> SUFFICES ASSUME Init
             PROVE  DatasetInv
  OBVIOUS
<1> USE TablesAssumption DEF Init
<1>1. Shapes
  BY DEF Shapes, Labels, InUse, Filling
<1>2. FileInv /\ FrozenInv /\ OriginInv /\ MemoryInv
  BY DEF FileInv, FrozenInv, OriginInv, MemoryInv, InUse, Filling
<1>3. RowsInv /\ DirectoryInv
  BY DEF RowsInv, DirectoryInv, Filling
<1>4. WholeDatasets
  BY DEF WholeDatasets, Finished
<1> QED
  BY <1>1, <1>2, <1>3, <1>4 DEF DatasetInv

\* The split file has one writer and keeps its population, directories have one
\* owner, and rows follow from the population (freeze_split to write_dataset).
THEOREM DatasetInvariant == Spec => []DatasetInv
<1>1. DatasetInv /\ [Next]_vars => DatasetInv'
  BY ShapesKept, FileKept, FrozenKept, OriginKept, MemoryKept, RowsKept, DirectoryKept DEF DatasetInv
<1> QED
  BY DatasetStarts, <1>1, PTL DEF Spec

\* A directory whose metadata.json is all there holds the tables of one dataset,
\* each of them whole, whatever other programs, kills and failed writes did there
\* (write_dataset, which opens and then fills one file after another).
THEOREM DatasetsAreWhole == Spec => []WholeDatasets
<1>1. DatasetInv => WholeDatasets
  BY DEF DatasetInv
<1> QED
  BY DatasetInvariant, <1>1, PTL

\* Two names of one input are in one group in all datasets of a split file
\* (freeze_split and validate_taskset_split, over seeds, races, kills and edits).
THEOREM NothingLeaks == Spec => []NoLeakage
<1>1. ASSUME DatasetInv
      PROVE  NoLeakage
  <2> SUFFICES ASSUME NEW d \in Finished, NEW e \in Finished
               PROVE  /\ Metadata(d).policy = Metadata(e).policy
                      /\ Metadata(d).policy = "taskset" =>
                           \A v \in DOMAIN Metadata(d).rows, w \in DOMAIN Metadata(e).rows :
                             Metadata(d).signature[v] = Metadata(e).signature[w] =>
                               Metadata(d).rows[v] = Metadata(e).rows[w]
    BY DEF NoLeakage
  <2>1. splitFile = "whole" /\ TrueRows(Metadata(d)) /\ TrueRows(Metadata(e))
    BY <1>1, TablesAssumption DEF DatasetInv, RowsInv, Finished, Metadata
  <2>2. Metadata(d).policy = frozen.policy /\ Metadata(e).policy = frozen.policy
    BY <2>1 DEF TrueRows
  <2>3. ASSUME frozen.policy = "taskset",
               NEW v \in DOMAIN Metadata(d).rows, NEW w \in DOMAIN Metadata(e).rows,
               Metadata(d).signature[v] = Metadata(e).signature[w]
        PROVE  Metadata(d).rows[v] = Metadata(e).rows[w]
    <3>1. /\ v \in Members(frozen) /\ w \in Members(frozen)
          /\ frozen.signature[v] = frozen.signature[w]
          /\ Metadata(d).rows[v] = Assigned(frozen, frozen.seed, v)
          /\ Metadata(e).rows[w] = Assigned(frozen, frozen.seed, w)
      BY <2>1, <2>3 DEF TrueRows
    <3>2. Splittable(frozen)
      BY <1>1, <2>1, <2>3 DEF DatasetInv, FrozenInv
    <3>3. frozen.family[v] = frozen.family[w]
      BY <3>1, <3>2 DEF Splittable
    <3> QED
      BY <3>1, <3>3 DEF Assigned
  <2> QED
    BY <2>2, <2>3
<1> QED
  BY DatasetInvariant, <1>1, PTL

\* Every split a program builds a dataset with gives all three groups inputs of
\* every family, less than one input from their shares (taskset_split: largest
\* remainders, an empty group fed by the largest, ranked inputs dealt in order).
THEOREM GroupsAreServed == Spec => []EveryGroupServed
<1>1. ASSUME DatasetInv
      PROVE  EveryGroupServed
  <2> SUFFICES ASSUME NEW p \in Processes, pc[p] = "build", split[p].policy = "taskset",
                      NEW f \in {split[p].family[w] : w \in DOMAIN split[p].family}, NEW i \in 1 .. 3
               PROVE  LET n     == Cardinality(InputsOf(split[p], f))
                          count == Count(split[p], f, Groups[i])
                      IN IF n = 3 THEN count = 1
                         ELSE count > 0 /\ Distance(5 * count, Share[i] * n) < 5
    BY DEF EveryGroupServed
  <2> DEFINE n == Cardinality(InputsOf(frozen, f))
             count == Count(split[p], f, Groups[i])
  <2>1. splitFile = "whole" /\ frozen.policy = "taskset" /\ split[p] = TasksetSplit(frozen, frozen.seed)
    BY <1>1 DEF DatasetInv, FileInv, MemoryInv, InUse
  <2>2. PICK c \in Commands : /\ frozen.seed = c.seed
                             /\ frozen.family = c.in.family
                             /\ frozen.signature = c.in.signature
    BY <1>1, <2>1 DEF DatasetInv, OriginInv
  <2>3. Splittable(frozen)
    BY <1>1, <2>1 DEF DatasetInv, FrozenInv
  <2>4. split[p].family = frozen.family /\ split[p].signature = frozen.signature
    BY <2>1 DEF TasksetSplit
  <2>5. f \in Families(frozen) /\ InputsOf(split[p], f) = InputsOf(frozen, f)
    BY <2>4 DEF Families, Members, InputsOf
  <2>6. n \in Nat /\ n >= 3 /\ count = Sizes(n)[i]
    BY <2>1, <2>2, <2>3, <2>5, DrawnIsServed
  <2> HIDE DEF n, count
  <2>7. IF n = 3 THEN count = 1 ELSE count > 0 /\ Distance(5 * count, Share[i] * n) < 5
    BY <2>6, SizesAreFair
  <2> QED
    BY <2>5, <2>7 DEF n, count
<1> QED
  BY DatasetInvariant, <1>1, PTL
=============================================================================
