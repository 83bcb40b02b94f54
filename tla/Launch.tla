------------------------------- MODULE Launch -------------------------------
(***************************************************************************)
(* mimpirun.c, and what MIMPI_Finalize does to the descriptors it leaves   *)
(* behind: which process holds which end of which pipe, at which number.   *)
(*                                                                         *)
(* A process sees the end of a pipe only when no process holds its writing *)
(* end any more.  mimpirun opens every pipe of the job, so it and all its  *)
(* children start with all the ends, and give up those of the others while *)
(* the first children may already run, finish or die.  mimpirun itself is  *)
(* not killed; the exit code 0 of a child stands for whatever code it ends *)
(* with after exec, by its own choice or in an assertion of the library.   *)
(*                                                                         *)
(* What the programs read and write is in PointToPoint and GroupTree,      *)
(* which take for granted what LaunchCorrect states of this module.        *)
(***************************************************************************)
EXTENDS Integers, FiniteSets

CONSTANTS
    N,              \* the number of copies of the program
    Files,          \* the descriptors that are open when mimpirun starts
    ForkMayFail,    \* the ranks whose fork may fail
    ExecMayFail,    \* the ranks whose exec may fail
    Mortal          \* the ranks whose process may be killed at any time

Ranks == 0 .. N - 1
Main == -1
Procs == Ranks \cup {Main}

DescriptorLimit == 1024

ASSUME CopiesAssumption == N \in 1 .. 16

\* mimpirun may use the numbers from 20 to 1023 (assignment_EN.md:256-259).
\* channel() takes the two lowest free numbers for a moment: were there none
\* below 20, dup2 to the number 21 would destroy the pipe just opened in 20
\* and 21.  No pipe is kept at 20, so one number below it is enough.
ASSUME FilesAssumption ==
    /\ Files \subseteq Nat \ 20 .. DescriptorLimit - 1
    /\ \E f \in 0 .. 19 : f \notin Files

ASSUME FaultsAssumption ==
    ForkMayFail \subseteq Ranks /\ ExecMayFail \subseteq Ranks /\ Mortal \subseteq Ranks

VARIABLES
    at,         \* where each process is in its program
    code,       \* its exit code, Running if it has none
    table       \* its descriptor table: the numbers and what they stand for

vars == <<at, code, table>>

Running == -1

(***************************************************************************)
(* Numbers.  As in the code, rank k is node k + 1 of the tree; slot 0 of a *)
(* node is for its parent, slots 1 and 2 are for its children.             *)
(***************************************************************************)
PointRead(i, j) == 20 * (2 * i + 1) + j         \* i receives from j
PointWriteShort(i, j) == 20 * (i + 1) + j       \* mutant: meets PointRead
PointWrite(i, j) == 40 * (i + 1) + j            \* j sends to i
GroupWrite(me, slot) == 700 + 6 * me + slot
GroupRead(me, slot) == 700 + 6 * me + slot - 3
Direct(me, slot) == 900 + 4 * me + slot

(***************************************************************************)
(* Ends.  A pipe is known by who reads and who writes it; it is part of    *)
(* the point-to-point, the tree or the direct pipes.                       *)
(***************************************************************************)
ReadEnd(kind, i, j) == [kind |-> kind, reader |-> i, writer |-> j, side |-> "read"]
WriteEnd(kind, i, j) == [kind |-> kind, reader |-> i, writer |-> j, side |-> "write"]
Owner(e) == IF e.side = "read" THEN e.reader ELSE e.writer

Pairs == {ij \in Ranks \X Ranks : ij[1] # ij[2]}
Nodes == 1 .. N
ChildNode(me, slot) == 2 * me + slot - 1
Children == {ms \in Nodes \X {1, 2} : ChildNode(ms[1], ms[2]) <= N}

\* What mimpirun opens, in three loops.
PointEntries ==
    {<<PointRead(ij[1], ij[2]), ReadEnd("point", ij[1], ij[2])>> : ij \in Pairs}
    \cup {<<PointWrite(ij[1], ij[2]), WriteEnd("point", ij[1], ij[2])>> : ij \in Pairs}

\* The pipes between node me and the child in its slot.
EdgeEntries(me, slot) ==
    LET c == ChildNode(me, slot) IN
    {<<GroupRead(me, slot), ReadEnd("tree", me - 1, c - 1)>>,
     <<GroupWrite(c, 0), WriteEnd("tree", me - 1, c - 1)>>,
     <<GroupRead(c, 0), ReadEnd("tree", c - 1, me - 1)>>,
     <<GroupWrite(me, slot), WriteEnd("tree", c - 1, me - 1)>>}

TreeEntries == UNION {EdgeEntries(ms[1], ms[2]) : ms \in Children}

\* The pipes between the first process and node me.
SpokeEntries(me) ==
    {<<Direct(me, 1), ReadEnd("direct", 0, me - 1)>>,
     <<Direct(me, 2), WriteEnd("direct", 0, me - 1)>>,
     <<Direct(me, 3), ReadEnd("direct", me - 1, 0)>>,
     <<Direct(me, 0), WriteEnd("direct", me - 1, 0)>>}

DirectEntries == UNION {SpokeEntries(me) : me \in 2 .. N}

Entries == PointEntries \cup TreeEntries \cup DirectEntries
Ends == {entry[2] : entry \in Entries}

FileEntries == {<<f, [kind |-> "file"]>> : f \in Files}

\* What a child closes before exec.  Mutants: it keeps the writing ends that
\* are not its own; it closes what was never opened.
PointPruneDiagonal(k) ==
    {PointRead(i, j) : i \in Ranks \ {k}, j \in Ranks}
    \cup {PointWrite(i, j) : i \in Ranks, j \in Ranks \ {k}}
PointPruneReads(k) == {PointRead(ij[1], ij[2]) : ij \in {x \in Pairs : x[1] # k}}
PointPrune(k) ==
    {PointRead(ij[1], ij[2]) : ij \in {x \in Pairs : x[1] # k}}
    \cup {PointWrite(ij[1], ij[2]) : ij \in {x \in Pairs : x[2] # k}}

Slots(me) == {slot \in 0 .. 2 : (slot = 0 /\ me # 1) \/ (slot # 0 /\ ChildNode(me, slot) <= N)}
SlotNumbers(me) == {GroupWrite(me, s) : s \in Slots(me)} \cup {GroupRead(me, s) : s \in Slots(me)}
TreePrune(k) == UNION {SlotNumbers(me) : me \in Nodes \ {k + 1}}

\* Mutant: a child closes the ends it needs, and keeps those of the first one.
DirectPruneSwapped(k) ==
    {Direct(me, s) : me \in 2 .. N \ {k + 1}, s \in 0 .. 3}
    \cup (IF k = 0 THEN {} ELSE {Direct(k + 1, 2), Direct(k + 1, 3)})
DirectPrune(k) ==
    IF k = 0
    THEN {Direct(me, s) : me \in 2 .. N, s \in {2, 3}}
    ELSE {Direct(me, s) : me \in 2 .. N \ {k + 1}, s \in 0 .. 3}
         \cup {Direct(k + 1, 0), Direct(k + 1, 1)}

(***************************************************************************)
(* What the library closes, at numbers of its own (mimpi_common.c).        *)
(***************************************************************************)
LibraryPointReads(k) == {PointRead(k, j) : j \in Ranks \ {k}}
LibraryPointWrites(k) == {PointWrite(i, k) : i \in Ranks \ {k}}

\* Mutant: the loop over the direct pipes stops too early.
GroupNumbersShort(k) ==
    {GroupWrite(k + 1, s) : s \in 0 .. 2} \cup {GroupRead(k + 1, s) : s \in 0 .. 2}
    \cup (IF k = 0 THEN {Direct(me, s) : me \in 2 .. N - 1, s \in {0, 1}}
                   ELSE {Direct(k + 1, s) : s \in {2, 3}})
GroupNumbers(k) ==
    {GroupWrite(k + 1, s) : s \in 0 .. 2} \cup {GroupRead(k + 1, s) : s \in 0 .. 2}
    \cup (IF k = 0 THEN {Direct(me, s) : me \in 2 .. N, s \in {0, 1}}
                   ELSE {Direct(k + 1, s) : s \in {2, 3}})

-----------------------------------------------------------------------------
Numbers(entries) == {entry[1] : entry \in entries}
Without(entries, numbers) == {entry \in entries : entry[1] \notin numbers}

\* What is still open somewhere.
Held == {entry[2] : entry \in UNION {table[p] : p \in Procs}}

Init ==
    /\ at = [p \in Procs |-> IF p = Main THEN "openPoint" ELSE "unborn"]
    /\ code = [p \in Procs |-> Running]
    /\ table = [p \in Procs |-> IF p = Main THEN FileEntries ELSE {}]

\* The process is gone, and the kernel has closed its descriptors.
Exit(p, c) ==
    /\ at' = [at EXCEPT ![p] = "ended"]
    /\ code' = [code EXCEPT ![p] = c]
    /\ table' = [table EXCEPT ![p] = {}]

\* channel() and dup2: what was at the number before is closed.  Two ends that
\* one loop puts at the same number would both be in the table, which
\* NothingOverwritten of LaunchCorrect excludes.
Open(loop, entries, next) ==
    /\ at[Main] = loop
    /\ table' = [table EXCEPT ![Main] = Without(@, Numbers(entries)) \cup entries]
    /\ at' = [at EXCEPT ![Main] = next]
    /\ UNCHANGED code

OpenPoint == Open("openPoint", PointEntries, "openTree")
OpenTree == Open("openTree", TreeEntries, "openDirect")
OpenDirect == Open("openDirect", DirectEntries, "forking")

\* close inside ASSERT_SYS_OK: a number that is not open ends the process.
CloseAsserted(p, loop, numbers, next) ==
    /\ at[p] = loop
    /\ IF numbers \subseteq Numbers(table[p])
       THEN /\ table' = [table EXCEPT ![p] = Without(@, numbers)]
            /\ at' = [at EXCEPT ![p] = next]
            /\ UNCHANGED code
       ELSE Exit(p, 1)

\* The rank mimpirun forks next.
NextRank(k) ==
    /\ at[Main] = "forking" /\ at[k] = "unborn"
    /\ \A i \in Ranks : i < k => at[i] # "unborn"

\* Mutant: the loop ends before the last rank.
ForkShort(k) ==
    /\ NextRank(k)
    /\ at' = [at EXCEPT ![k] = "prunePoint",
                        ![Main] = IF k = N - 2 THEN "closeTree" ELSE "forking"]
    /\ table' = [table EXCEPT ![k] = table[Main]]
    /\ UNCHANGED code

Fork(k) ==
    /\ NextRank(k)
    /\ at' = [at EXCEPT ![k] = "prunePoint",
                        ![Main] = IF k = N - 1 THEN "closeTree" ELSE "forking"]
    /\ table' = [table EXCEPT ![k] = table[Main]]
    /\ UNCHANGED code

ForkFails(k) == NextRank(k) /\ k \in ForkMayFail /\ Exit(Main, 255)

PrunePoint(k) == CloseAsserted(k, "prunePoint", PointPrune(k), "pruneTree")
PruneTree(k) == CloseAsserted(k, "pruneTree", TreePrune(k), "pruneDirect")
PruneDirect(k) == CloseAsserted(k, "pruneDirect", DirectPrune(k), "exec")

Exec(k) ==
    /\ at[k] = "exec"
    /\ at' = [at EXCEPT ![k] = "running"]
    /\ UNCHANGED <<code, table>>

\* Mutant: the child goes on in the loop of mimpirun.
ExecFailsGoesOn(k) ==
    /\ at[k] = "exec" /\ k \in ExecMayFail
    /\ at' = [at EXCEPT ![k] = "forking"]
    /\ UNCHANGED <<code, table>>

ExecFails(k) == at[k] = "exec" /\ k \in ExecMayFail /\ Exit(k, 1)

\* Mutant: mimpirun keeps the ends of the point-to-point pipes.
CloseTreeOnly == CloseAsserted(Main, "closeTree", Numbers(TreeEntries), "closeDirect")
CloseTree == CloseAsserted(Main, "closeTree", Numbers(TreeEntries), "closePoint")
ClosePoint == CloseAsserted(Main, "closePoint", Numbers(PointEntries), "closeDirect")
CloseDirect == CloseAsserted(Main, "closeDirect", Numbers(DirectEntries), "waiting")

\* wait returns a child that has ended, and mimpirun calls it n times.
Reap(k) ==
    /\ at[Main] = "waiting" /\ at[k] = "ended"
    /\ at' = [at EXCEPT ![k] = "reaped"]
    /\ UNCHANGED <<code, table>>

\* Mutant: one wait too few.
AllButOneReaped == Cardinality({k \in Ranks : at[k] = "reaped"}) >= N - 1
AllReaped == \A k \in Ranks : at[k] = "reaped"

Return == at[Main] = "waiting" /\ AllReaped /\ Exit(Main, 0)

-----------------------------------------------------------------------------
\* close without ASSERT_SYS_OK: numbers that are not open are no error.
CloseAny(k, from, numbers, next) ==
    /\ at[k] = from
    /\ table' = [table EXCEPT ![k] = Without(@, numbers)]
    /\ at' = [at EXCEPT ![k] = next]
    /\ UNCHANGED code

\* A group call finds that a process it talks to has gone.
GroupPeerGone(k) ==
    \E e \in Ends : /\ e.kind # "point" /\ k \in {e.reader, e.writer}
                    /\ Owner(e) # k /\ e \notin Held
GroupFails(k) == GroupPeerGone(k) /\ CloseAny(k, "running", GroupNumbers(k), "running")

\* MIMPI_Finalize.
CloseGroupPipes(k) == CloseAny(k, "running", GroupNumbers(k), "closing")
CloseWriting(k) == CloseAny(k, "closing", LibraryPointWrites(k), "joining")

\* The Readers of k end when every pipe it reads from is at its end.
WaitForReaders(k) ==
    /\ at[k] = "joining"
    /\ \A j \in Ranks \ {k} : WriteEnd("point", k, j) \notin Held
    /\ at' = [at EXCEPT ![k] = "joined"]
    /\ UNCHANGED <<code, table>>

CloseReading(k) == CloseAny(k, "joined", LibraryPointReads(k), "finalized")

\* The program ends, after MIMPI_Finalize or without it.
ProgramEnds(k) == at[k] \in {"running", "finalized"} /\ Exit(k, 0)

Killed(k) == k \in Mortal /\ at[k] \notin {"unborn", "ended", "reaped"} /\ Exit(k, 137)

-----------------------------------------------------------------------------
LauncherStep ==
    \/ OpenPoint \/ OpenTree \/ OpenDirect
    \/ \E k \in Ranks : Fork(k) \/ ForkFails(k) \/ Reap(k)
    \/ CloseTree \/ ClosePoint \/ CloseDirect \/ Return

ChildStep(k) ==
    \/ PrunePoint(k) \/ PruneTree(k) \/ PruneDirect(k) \/ Exec(k) \/ ExecFails(k)
    \/ CloseWriting(k) \/ WaitForReaders(k) \/ CloseReading(k)

ProgramStep(k) == GroupFails(k) \/ CloseGroupPipes(k) \/ ProgramEnds(k)

Next ==
    \/ LauncherStep
    \/ \E k \in Ranks : ChildStep(k) \/ ProgramStep(k) \/ Killed(k)

Spec == Init /\ [][Next]_vars

\* The system runs every process that can run.  A program may run for ever.
Fairness == WF_vars(LauncherStep) /\ \A k \in Ranks : WF_vars(ChildStep(k))

FairSpec == Spec /\ Fairness

-----------------------------------------------------------------------------
LauncherPlaces ==
    {"openPoint", "openTree", "openDirect", "forking", "closeTree", "closePoint",
     "closeDirect", "waiting", "ended"}
ChildPlaces ==
    {"unborn", "prunePoint", "pruneTree", "pruneDirect", "exec", "running", "closing",
     "joining", "joined", "finalized", "ended", "reaped"}

\* TypeOK: every variable has its type, and a table holds nothing but files
\* and ends of the job's pipes.
TypeOK ==
    /\ at \in [Procs -> LauncherPlaces \cup ChildPlaces]
    /\ at[Main] \in LauncherPlaces /\ \A k \in Ranks : at[k] \in ChildPlaces
    /\ code \in [Procs -> {Running, 0, 1, 137, 255}]
    /\ table \in [Procs -> SUBSET (FileEntries \cup Entries)]
=============================================================================
