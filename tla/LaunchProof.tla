---------------------------- MODULE LaunchProof -----------------------------
(***************************************************************************)
(* Proofs about Launch for every number of copies from 1 to 16.            *)
(***************************************************************************)
EXTENDS LaunchCorrect, TLAPS

\* What the entries of each loop look like.
LEMMA PointShape ==
    ASSUME NEW x \in PointEntries
    PROVE  \E i, j \in 0 .. 15 :
              \/ x = <<PointRead(i, j), ReadEnd("point", i, j)>>
              \/ x = <<PointWrite(i, j), WriteEnd("point", i, j)>>
  <1>1. PICK ij \in Pairs : \/ x = <<PointRead(ij[1], ij[2]), ReadEnd("point", ij[1], ij[2])>>
                            \/ x = <<PointWrite(ij[1], ij[2]), WriteEnd("point", ij[1], ij[2])>>
    BY DEF PointEntries
  <1>2. ij[1] \in 0 .. 15 /\ ij[2] \in 0 .. 15
    BY CopiesAssumption DEF Pairs, Ranks
  <1> QED
    BY <1>1, <1>2

\* The number of a tree pipe says which edge it is: for slot 0 of node c, the
\* one to its only parent.
LEMMA TreeShape ==
    ASSUME NEW x \in TreeEntries
    PROVE  \E me, c \in 1 .. 16, s \in {1, 2} :
              /\ c = 2 * me + s - 1
              /\ \/ x = <<GroupRead(me, s), ReadEnd("tree", me - 1, c - 1)>>
                 \/ x = <<GroupWrite(c, 0), WriteEnd("tree", me - 1, c - 1)>>
                 \/ x = <<GroupRead(c, 0), ReadEnd("tree", c - 1, me - 1)>>
                 \/ x = <<GroupWrite(me, s), WriteEnd("tree", c - 1, me - 1)>>
  <1>1. PICK ms \in Children : x \in EdgeEntries(ms[1], ms[2])
    BY DEF TreeEntries
  <1> DEFINE me == ms[1]
             slot == ms[2]
             c == ChildNode(me, slot)
  <1>2. me \in 1 .. 16 /\ slot \in {1, 2} /\ c <= N /\ N \in 1 .. 16
    BY CopiesAssumption DEF Children, Nodes
  <1>3. c = 2 * me + slot - 1 /\ c \in 1 .. 16
    BY <1>2 DEF ChildNode
  <1>4. \/ x = <<GroupRead(me, slot), ReadEnd("tree", me - 1, c - 1)>>
        \/ x = <<GroupWrite(c, 0), WriteEnd("tree", me - 1, c - 1)>>
        \/ x = <<GroupRead(c, 0), ReadEnd("tree", c - 1, me - 1)>>
        \/ x = <<GroupWrite(me, slot), WriteEnd("tree", c - 1, me - 1)>>
    BY <1>1 DEF EdgeEntries
  <1> HIDE DEF me, slot, c
  <1> QED
    BY <1>2, <1>3, <1>4

LEMMA DirectShape ==
    ASSUME NEW x \in DirectEntries
    PROVE  \E me \in 2 .. 16 :
              \/ x = <<Direct(me, 1), ReadEnd("direct", 0, me - 1)>>
              \/ x = <<Direct(me, 2), WriteEnd("direct", 0, me - 1)>>
              \/ x = <<Direct(me, 3), ReadEnd("direct", me - 1, 0)>>
              \/ x = <<Direct(me, 0), WriteEnd("direct", me - 1, 0)>>
  <1>1. PICK me \in 2 .. N : x \in SpokeEntries(me)
    BY DEF DirectEntries
  <1>2. me \in 2 .. 16
    BY CopiesAssumption
  <1> QED
    BY <1>1, <1>2 DEF SpokeEntries

LEMMA PointApart ==
    ASSUME NEW x \in PointEntries, NEW y \in PointEntries, x[1] = y[1]
    PROVE  x = y
  <1>1. PICK i, j \in 0 .. 15 :
              \/ x = <<PointRead(i, j), ReadEnd("point", i, j)>>
              \/ x = <<PointWrite(i, j), WriteEnd("point", i, j)>>
    BY PointShape
  <1>2. PICK k, l \in 0 .. 15 :
              \/ y = <<PointRead(k, l), ReadEnd("point", k, l)>>
              \/ y = <<PointWrite(k, l), WriteEnd("point", k, l)>>
    BY PointShape
  <1> QED
    BY <1>1, <1>2 DEF PointRead, PointWrite

LEMMA TreeApart ==
    ASSUME NEW x \in TreeEntries, NEW y \in TreeEntries, x[1] = y[1]
    PROVE  x = y
  <1>1. PICK me, c \in 1 .. 16, s \in {1, 2} :
              /\ c = 2 * me + s - 1
              /\ \/ x = <<GroupRead(me, s), ReadEnd("tree", me - 1, c - 1)>>
                 \/ x = <<GroupWrite(c, 0), WriteEnd("tree", me - 1, c - 1)>>
                 \/ x = <<GroupRead(c, 0), ReadEnd("tree", c - 1, me - 1)>>
                 \/ x = <<GroupWrite(me, s), WriteEnd("tree", c - 1, me - 1)>>
    BY TreeShape
  <1>2. PICK me2, c2 \in 1 .. 16, s2 \in {1, 2} :
              /\ c2 = 2 * me2 + s2 - 1
              /\ \/ y = <<GroupRead(me2, s2), ReadEnd("tree", me2 - 1, c2 - 1)>>
                 \/ y = <<GroupWrite(c2, 0), WriteEnd("tree", me2 - 1, c2 - 1)>>
                 \/ y = <<GroupRead(c2, 0), ReadEnd("tree", c2 - 1, me2 - 1)>>
                 \/ y = <<GroupWrite(me2, s2), WriteEnd("tree", c2 - 1, me2 - 1)>>
    BY TreeShape
  <1>3. c = c2 => me = me2 /\ s = s2
    BY <1>1, <1>2
  <1>4. me = me2 /\ s = s2 => c = c2
    BY <1>1, <1>2
  <1>5. s \in 0 .. 2 /\ s2 \in 0 .. 2 /\ s # 0 /\ s2 # 0
    OBVIOUS
  <1>6. CASE x = <<GroupRead(me, s), ReadEnd("tree", me - 1, c - 1)>>
    BY <1>1, <1>2, <1>4, <1>5, <1>6 DEF GroupRead, GroupWrite
  <1>7. CASE x = <<GroupWrite(c, 0), WriteEnd("tree", me - 1, c - 1)>>
    BY <1>1, <1>2, <1>3, <1>5, <1>7 DEF GroupRead, GroupWrite
  <1>8. CASE x = <<GroupRead(c, 0), ReadEnd("tree", c - 1, me - 1)>>
    BY <1>1, <1>2, <1>3, <1>5, <1>8 DEF GroupRead, GroupWrite
  <1>9. CASE x = <<GroupWrite(me, s), WriteEnd("tree", c - 1, me - 1)>>
    BY <1>1, <1>2, <1>4, <1>5, <1>9 DEF GroupRead, GroupWrite
  <1> QED
    BY <1>1, <1>6, <1>7, <1>8, <1>9

LEMMA DirectApart ==
    ASSUME NEW x \in DirectEntries, NEW y \in DirectEntries, x[1] = y[1]
    PROVE  x = y
  <1>1. PICK a \in 2 .. 16 :
              \/ x = <<Direct(a, 1), ReadEnd("direct", 0, a - 1)>>
              \/ x = <<Direct(a, 2), WriteEnd("direct", 0, a - 1)>>
              \/ x = <<Direct(a, 3), ReadEnd("direct", a - 1, 0)>>
              \/ x = <<Direct(a, 0), WriteEnd("direct", a - 1, 0)>>
    BY DirectShape
  <1>2. PICK b \in 2 .. 16 :
              \/ y = <<Direct(b, 1), ReadEnd("direct", 0, b - 1)>>
              \/ y = <<Direct(b, 2), WriteEnd("direct", 0, b - 1)>>
              \/ y = <<Direct(b, 3), ReadEnd("direct", b - 1, 0)>>
              \/ y = <<Direct(b, 0), WriteEnd("direct", b - 1, 0)>>
    BY DirectShape
  <1> QED
    BY <1>1, <1>2 DEF Direct

\* The loops stay out of each other's numbers.
LEMMA Regions ==
    /\ \A x \in PointEntries : x[1] \in Int /\ 20 <= x[1] /\ x[1] < 700
    /\ \A x \in TreeEntries : x[1] \in Int /\ 700 <= x[1] /\ x[1] < 900
    /\ \A x \in DirectEntries : x[1] \in Int /\ 900 <= x[1] /\ x[1] < 1024
  <1>1. ASSUME NEW x \in PointEntries  PROVE x[1] \in Int /\ 20 <= x[1] /\ x[1] < 700
    BY PointShape DEF PointRead, PointWrite
  <1>2. ASSUME NEW x \in TreeEntries  PROVE x[1] \in Int /\ 700 <= x[1] /\ x[1] < 900
    BY TreeShape DEF GroupRead, GroupWrite
  <1>3. ASSUME NEW x \in DirectEntries  PROVE x[1] \in Int /\ 900 <= x[1] /\ x[1] < 1024
    BY DirectShape DEF Direct
  <1> QED
    BY <1>1, <1>2, <1>3

(***************************************************************************)
(* DescriptorsApart: for every number of copies from 1 to 16, no two ends  *)
(* of the pipes that mimpirun opens (mimpirun.c:42-87) share a number, and *)
(* none falls on a descriptor of the program.                              *)
(***************************************************************************)
THEOREM DescriptorsApart == NumbersApart
  <1>1. ASSUME NEW x \in Entries, NEW y \in Entries, x[1] = y[1]
        PROVE  x = y
    <2>1. \/ x \in PointEntries /\ y \in PointEntries
          \/ x \in TreeEntries /\ y \in TreeEntries
          \/ x \in DirectEntries /\ y \in DirectEntries
      <3>1. /\ x \in PointEntries \/ x \in TreeEntries \/ x \in DirectEntries
            /\ y \in PointEntries \/ y \in TreeEntries \/ y \in DirectEntries
        BY DEF Entries
      <3> QED
        BY <1>1, <3>1, Regions
    <2> QED
      BY <1>1, <2>1, PointApart, TreeApart, DirectApart
  <1>2. ASSUME NEW x \in Entries  PROVE x[1] \in 20 .. DescriptorLimit - 1
    BY Regions DEF Entries, DescriptorLimit
  <1> QED
    BY <1>1, <1>2 DEF NumbersApart, Numbers

(***************************************************************************)
(* NothingOverwritten needs to know what each loop found: the files and    *)
(* what the loops before it opened, none of which shares a number with     *)
(* what it opens.  Only mimpirun's own steps touch its table.              *)
(***************************************************************************)
Opened(loop) ==
    CASE loop = "openTree"   -> PointEntries
      [] loop = "openDirect" -> PointEntries \cup TreeEntries
      [] loop = "forking"    -> Entries
      [] OTHER               -> {}

Opening == {"openPoint", "openTree", "openDirect", "forking"}

OpenedSoFar ==
    /\ at \in [Procs -> LauncherPlaces \cup ChildPlaces]
    /\ table \in [Procs -> SUBSET (FileEntries \cup Entries)]
    /\ at[Main] \in Opening => table[Main] = FileEntries \cup Opened(at[Main])

\* The files keep out of the numbers of the pipes.
LEMMA FilesApart ==
    ASSUME NEW f \in FileEntries, NEW x \in Entries
    PROVE  f[1] # x[1]
  <1>1. f[1] \notin 20 .. DescriptorLimit - 1
    BY FilesAssumption DEF FileEntries
  <1>2. x[1] \in 20 .. DescriptorLimit - 1
    BY DescriptorsApart DEF NumbersApart, Numbers
  <1> QED
    BY <1>1, <1>2

\* A loop that opens ends no one has opened yet closes nothing.
LEMMA OpenAdds ==
    ASSUME NEW old, NEW new,
           old \subseteq FileEntries \cup Entries, new \subseteq Entries, old \cap new = {}
    PROVE  Without(old, Numbers(new)) = old
  <1>1. ASSUME NEW x \in old, NEW y \in new, x[1] = y[1]  PROVE FALSE
    <2>1. CASE x \in FileEntries
      BY <1>1, <2>1, FilesApart
    <2>2. CASE x \in Entries
      BY <1>1, <2>2, DescriptorsApart DEF NumbersApart
    <2> QED
      BY <2>1, <2>2
  <1> QED
    BY <1>1 DEF Without, Numbers

\* The loops open different pipes.
LEMMA LoopsApart ==
    /\ PointEntries \cap TreeEntries = {}
    /\ (PointEntries \cup TreeEntries) \cap DirectEntries = {}
    /\ FileEntries \cap Entries = {}
  <1>1. PointEntries \cap TreeEntries = {}
    BY Regions
  <1>2. (PointEntries \cup TreeEntries) \cap DirectEntries = {}
    BY Regions
  <1>3. FileEntries \cap Entries = {}
    BY FilesApart
  <1> QED
    BY <1>1, <1>2, <1>3

\* A step of a copy leaves mimpirun where it is, and its table alone.
LEMMA CopyStepApart ==
    ASSUME OpenedSoFar, NEW k \in Ranks,
           ChildStep(k) \/ ProgramStep(k) \/ Killed(k)
    PROVE  OpenedSoFar'
  <1>1. k \in Procs /\ Main \in Procs /\ k # Main
    BY CopiesAssumption DEF Procs, Ranks, Main
  <1> DEFINE Moves == \E place \in ChildPlaces : at' = [at EXCEPT ![k] = place]
             Shrinks == \E few \in SUBSET table[k] : table' = [table EXCEPT ![k] = few]
  <1>2. ASSUME NEW c, Exit(k, c)  PROVE Moves /\ Shrinks
    BY <1>2 DEF Exit, ChildPlaces
  <1>3. ASSUME NEW loop, NEW numbers, NEW next \in ChildPlaces,
               CloseAsserted(k, loop, numbers, next)
        PROVE  Moves /\ Shrinks
    BY <1>2, <1>3 DEF CloseAsserted, Without
  <1>4. ASSUME NEW from, NEW numbers, NEW next \in ChildPlaces,
               CloseAny(k, from, numbers, next)
        PROVE  Moves /\ Shrinks
    BY <1>4 DEF CloseAny, Without
  <1>5. ASSUME UNCHANGED table  PROVE Shrinks
    BY <1>1, <1>5 DEF OpenedSoFar
  <1>6. Moves /\ Shrinks
    <2>1. CASE PrunePoint(k) \/ PruneTree(k) \/ PruneDirect(k)
      BY <1>3, <2>1 DEF PrunePoint, PruneTree, PruneDirect, ChildPlaces
    <2>2. CASE Exec(k) \/ WaitForReaders(k)
      BY <1>5, <2>2 DEF Exec, WaitForReaders, ChildPlaces
    <2>3. CASE ExecFails(k) \/ ProgramEnds(k) \/ Killed(k)
      BY <1>2, <2>3 DEF ExecFails, ProgramEnds, Killed
    <2>4. CASE CloseWriting(k) \/ CloseReading(k) \/ GroupFails(k) \/ CloseGroupPipes(k)
      BY <1>4, <2>4 DEF CloseWriting, CloseReading, GroupFails, CloseGroupPipes, ChildPlaces
    <2> QED
      BY <2>1, <2>2, <2>3, <2>4 DEF ChildStep, ProgramStep
  <1> QED
    BY <1>1, <1>6 DEF OpenedSoFar

LEMMA OpenStep ==
    ASSUME OpenedSoFar, OpenPoint \/ OpenTree \/ OpenDirect
    PROVE  OpenedSoFar'
  <1>1. Main \in Procs
    BY DEF Procs
  <1>2. ASSUME NEW loop \in Opening, NEW entries \in SUBSET Entries, NEW next \in Opening,
               Open(loop, entries, next),
               Opened(loop) \subseteq Entries, Opened(loop) \cap entries = {},
               Opened(next) = Opened(loop) \cup entries
        PROVE  OpenedSoFar'
    <2>1. table[Main] = FileEntries \cup Opened(loop)
      BY <1>2 DEF Open, OpenedSoFar
    <2>2. Without(table[Main], Numbers(entries)) = table[Main]
      BY <1>2, <2>1, OpenAdds, LoopsApart
    <2>3. table' = [table EXCEPT ![Main] = FileEntries \cup Opened(next)]
      <3>1. table' = [table EXCEPT ![Main] = table[Main] \cup entries]
        BY <1>2, <2>2 DEF Open
      <3>2. table[Main] \cup entries = FileEntries \cup Opened(next)
        BY <1>2, <2>1
      <3> QED
        BY <3>1, <3>2
    <2>4. at' = [at EXCEPT ![Main] = next] /\ next \in LauncherPlaces
      BY <1>2 DEF Open, Opening, LauncherPlaces
    <2>5. Opened(next) \subseteq Entries
      BY <1>2
    <2> QED
      BY <1>1, <2>3, <2>4, <2>5 DEF OpenedSoFar
  <1>3. CASE OpenPoint
    BY <1>2, <1>3 DEF OpenPoint, Opening, Opened, Entries
  <1>4. CASE OpenTree
    BY <1>2, <1>4, LoopsApart DEF OpenTree, Opening, Opened, Entries
  <1>5. CASE OpenDirect
    BY <1>2, <1>5, LoopsApart DEF OpenDirect, Opening, Opened, Entries
  <1> QED
    BY <1>3, <1>4, <1>5

LEMMA OtherLauncherStep ==
    ASSUME OpenedSoFar,
           \/ \E k \in Ranks : Fork(k) \/ ForkFails(k) \/ Reap(k)
           \/ CloseTree \/ ClosePoint \/ CloseDirect \/ Return
    PROVE  OpenedSoFar'
  <1>1. Main \in Procs /\ Ranks \subseteq Procs /\ Main \notin Ranks
    BY CopiesAssumption DEF Procs, Ranks, Main
  <1>2. ASSUME NEW c, Exit(Main, c)  PROVE OpenedSoFar'
    BY <1>1, <1>2 DEF Exit, OpenedSoFar, Opening, LauncherPlaces
  <1>3. ASSUME NEW loop, NEW numbers,
               NEW next \in {"closePoint", "closeDirect", "waiting"},
               CloseAsserted(Main, loop, numbers, next)
        PROVE  OpenedSoFar'
    BY <1>1, <1>2, <1>3 DEF CloseAsserted, Without, OpenedSoFar, Opening, LauncherPlaces
  <1>4. ASSUME NEW k \in Ranks, Fork(k)  PROVE OpenedSoFar'
    BY <1>1, <1>4 DEF Fork, NextRank, OpenedSoFar, Opening, LauncherPlaces, ChildPlaces
  <1>5. ASSUME NEW k \in Ranks, ForkFails(k)  PROVE OpenedSoFar'
    BY <1>2, <1>5 DEF ForkFails
  <1>6. ASSUME NEW k \in Ranks, Reap(k)  PROVE OpenedSoFar'
    BY <1>1, <1>6 DEF Reap, OpenedSoFar, Opening, ChildPlaces
  <1>7. CASE CloseTree \/ ClosePoint \/ CloseDirect
    BY <1>3, <1>7 DEF CloseTree, ClosePoint, CloseDirect
  <1>8. CASE Return
    BY <1>2, <1>8 DEF Return
  <1> QED
    BY <1>4, <1>5, <1>6, <1>7, <1>8

LEMMA OpenedInit == Init => OpenedSoFar
  BY DEF Init, OpenedSoFar, Procs, Main, LauncherPlaces, ChildPlaces, Opening, Opened

LEMMA OpenedStep == OpenedSoFar /\ [Next]_vars => OpenedSoFar'
  <1> SUFFICES ASSUME OpenedSoFar, [Next]_vars  PROVE OpenedSoFar'
    OBVIOUS
  <1>1. CASE LauncherStep
    BY <1>1, OpenStep, OtherLauncherStep DEF LauncherStep
  <1>2. ASSUME NEW k \in Ranks, ChildStep(k) \/ ProgramStep(k) \/ Killed(k)
        PROVE  OpenedSoFar'
    BY <1>2, CopyStepApart
  <1>3. CASE UNCHANGED vars
    BY <1>3 DEF vars, OpenedSoFar
  <1> QED
    BY <1>1, <1>2, <1>3 DEF Next

(***************************************************************************)
(* NothingOverwrittenHolds: in every job of up to 16 copies, mimpirun      *)
(* begins to fork with every end of every pipe it has opened, whatever     *)
(* files outside its range were open (mimpirun.c:42-91).                   *)
(***************************************************************************)
THEOREM NothingOverwrittenHolds == Spec => []NothingOverwritten
  <1>1. ASSUME NEW a \in FileEntries \cup Entries, NEW b \in FileEntries \cup Entries,
               a[1] = b[1]
        PROVE  a = b
    <2>1. CASE a \in FileEntries /\ b \in FileEntries
      BY <1>1, <2>1 DEF FileEntries
    <2>2. CASE a \in Entries /\ b \in Entries
      BY <1>1, <2>2, DescriptorsApart DEF NumbersApart
    <2> QED
      BY <1>1, <2>1, <2>2, FilesApart
  <1>2. OpenedSoFar => NothingOverwritten
    BY <1>1, DescriptorsApart DEF OpenedSoFar, NothingOverwritten, NumbersApart, Opening, Opened
  <1> QED
    BY OpenedInit, OpenedStep, <1>2, PTL DEF Spec

(***************************************************************************)
(* WaitsForAll: a copy that has ended has an exit code, and mimpirun does  *)
(* not return 0 before it has waited for every one of them.                *)
(***************************************************************************)
EndedHaveCodes ==
    /\ at \in [Procs -> LauncherPlaces \cup ChildPlaces]
    /\ code \in [Procs -> Int]
    /\ \A k \in Ranks : at[k] \in {"ended", "reaped"} => code[k] # Running
    /\ code[Main] = 0 => \A k \in Ranks : at[k] = "reaped"

\* A step of a copy moves it on, or ends it with an exit code.
LEMMA CopyGoesOn ==
    ASSUME EndedHaveCodes, NEW k \in Ranks,
           ChildStep(k) \/ ProgramStep(k) \/ Killed(k)
    PROVE  EndedHaveCodes'
  <1>1. k \in Procs /\ Main \in Procs /\ k # Main
    BY CopiesAssumption DEF Procs, Ranks, Main
  <1>2. at[k] \notin {"ended", "reaped"}
    BY DEF ChildStep, ProgramStep, PrunePoint, PruneTree, PruneDirect, Exec, ExecFails,
           CloseWriting, WaitForReaders, CloseReading, GroupFails, CloseGroupPipes,
           ProgramEnds, Killed, CloseAsserted, CloseAny
  <1>3. code[Main] # 0
    BY <1>2 DEF EndedHaveCodes
  <1>4. ASSUME NEW c \in Nat, Exit(k, c)  PROVE EndedHaveCodes'
    BY <1>1, <1>3, <1>4 DEF Exit, EndedHaveCodes, Running, ChildPlaces
  <1>5. ASSUME NEW place \in ChildPlaces \ {"ended", "reaped"},
               at' = [at EXCEPT ![k] = place], UNCHANGED code
        PROVE  EndedHaveCodes'
    BY <1>1, <1>3, <1>5 DEF EndedHaveCodes
  <1>6. CASE PrunePoint(k) \/ PruneTree(k) \/ PruneDirect(k)
    BY <1>4, <1>5, <1>6 DEF PrunePoint, PruneTree, PruneDirect, CloseAsserted, ChildPlaces
  <1>7. CASE Exec(k) \/ WaitForReaders(k)
    BY <1>5, <1>7 DEF Exec, WaitForReaders, ChildPlaces
  <1>8. CASE ExecFails(k) \/ ProgramEnds(k) \/ Killed(k)
    BY <1>4, <1>8 DEF ExecFails, ProgramEnds, Killed
  <1>9. CASE CloseWriting(k) \/ CloseReading(k) \/ GroupFails(k) \/ CloseGroupPipes(k)
    BY <1>5, <1>9
       DEF CloseWriting, CloseReading, GroupFails, CloseGroupPipes, CloseAny, ChildPlaces
  <1> QED
    BY <1>6, <1>7, <1>8, <1>9 DEF ChildStep, ProgramStep

LEMMA LauncherCounts ==
    ASSUME EndedHaveCodes, LauncherStep
    PROVE  EndedHaveCodes'
  <1>1. Main \in Procs /\ Ranks \subseteq Procs /\ Main \notin Ranks
    BY CopiesAssumption DEF Procs, Ranks, Main
  <1>2. ASSUME NEW c \in Nat, Exit(Main, c), c = 0 => AllReaped
        PROVE  EndedHaveCodes'
    BY <1>1, <1>2 DEF Exit, EndedHaveCodes, AllReaped, LauncherPlaces
  <1>3. ASSUME NEW place \in LauncherPlaces, at' = [at EXCEPT ![Main] = place], UNCHANGED code
        PROVE  EndedHaveCodes'
    BY <1>1, <1>3 DEF EndedHaveCodes
  <1>4. CASE OpenPoint \/ OpenTree \/ OpenDirect
    BY <1>3, <1>4 DEF OpenPoint, OpenTree, OpenDirect, Open, LauncherPlaces
  <1>5. CASE CloseTree \/ ClosePoint \/ CloseDirect
    BY <1>2, <1>3, <1>5 DEF CloseTree, ClosePoint, CloseDirect, CloseAsserted, LauncherPlaces
  <1>6. CASE Return
    BY <1>2, <1>6 DEF Return
  <1>7. ASSUME NEW k \in Ranks, Fork(k)  PROVE EndedHaveCodes'
    BY <1>1, <1>7 DEF Fork, NextRank, EndedHaveCodes, LauncherPlaces, ChildPlaces
  <1>8. ASSUME NEW k \in Ranks, ForkFails(k)  PROVE EndedHaveCodes'
    BY <1>2, <1>8 DEF ForkFails
  <1>9. ASSUME NEW k \in Ranks, Reap(k)  PROVE EndedHaveCodes'
    BY <1>1, <1>9 DEF Reap, EndedHaveCodes, ChildPlaces
  <1> QED
    BY <1>4, <1>5, <1>6, <1>7, <1>8, <1>9 DEF LauncherStep

(***************************************************************************)
(* WaitsForAllHolds: mimpirun returns 0 only when all the copies have been *)
(* launched and have ended, whichever of them fail or are killed.          *)
(***************************************************************************)
THEOREM WaitsForAllHolds == Spec => []WaitsForAll
  <1>1. Init => EndedHaveCodes
    BY DEF Init, EndedHaveCodes, Procs, Ranks, Main, Running, LauncherPlaces, ChildPlaces
  <1>2. EndedHaveCodes /\ [Next]_vars => EndedHaveCodes'
    <2> SUFFICES ASSUME EndedHaveCodes, [Next]_vars  PROVE EndedHaveCodes'
      OBVIOUS
    <2>1. CASE LauncherStep
      BY <2>1, LauncherCounts
    <2>2. ASSUME NEW k \in Ranks, ChildStep(k) \/ ProgramStep(k) \/ Killed(k)
          PROVE  EndedHaveCodes'
      BY <2>2, CopyGoesOn
    <2>3. CASE UNCHANGED vars
      BY <2>3 DEF vars, EndedHaveCodes
    <2> QED
      BY <2>1, <2>2, <2>3 DEF Next
  <1>3. EndedHaveCodes => WaitsForAll
    BY DEF EndedHaveCodes, WaitsForAll
  <1> QED
    BY <1>1, <1>2, <1>3, PTL DEF Spec

(***************************************************************************)
(* ClosesOpenOnly: what a process has still to close with an assertion, it *)
(* holds.  A loop closes numbers of its own pipes only, and since numbers  *)
(* are apart it leaves alone what the loops after it close.                *)
(***************************************************************************)
Needed(place) ==
    CASE place \in {"forking", "closeTree", "prunePoint"} -> Entries
      [] place = "pruneTree" -> TreeEntries \cup DirectEntries
      [] place = "closePoint" -> PointEntries \cup DirectEntries
      [] place \in {"pruneDirect", "closeDirect"} -> DirectEntries
      [] OTHER -> {}

Gone == {"ended", "reaped"}

HoldsNeeded ==
    /\ at \in [Procs -> LauncherPlaces \cup ChildPlaces]
    /\ code \in [Procs -> Int]
    /\ DOMAIN table = Procs
    /\ \A p \in Procs : Needed(at[p]) \subseteq table[p]
    /\ \A p \in Procs : code[p] = 1 => p \in ExecMayFail /\ at[p] \in Gone

\* The loops of a child close numbers that the loops of main opened.
LEMMA PruneKnown ==
    ASSUME NEW k \in Ranks
    PROVE  /\ PointPrune(k) \subseteq Numbers(PointEntries)
           /\ TreePrune(k) \subseteq Numbers(TreeEntries)
           /\ DirectPrune(k) \subseteq Numbers(DirectEntries)
  <1>1. PointPrune(k) \subseteq Numbers(PointEntries)
    <2>1. ASSUME NEW ij \in Pairs
          PROVE  /\ PointRead(ij[1], ij[2]) \in Numbers(PointEntries)
                 /\ PointWrite(ij[1], ij[2]) \in Numbers(PointEntries)
      <3> DEFINE read == <<PointRead(ij[1], ij[2]), ReadEnd("point", ij[1], ij[2])>>
                 write == <<PointWrite(ij[1], ij[2]), WriteEnd("point", ij[1], ij[2])>>
      <3>1. read \in PointEntries /\ write \in PointEntries
        BY DEF PointEntries
      <3> QED
        BY <3>1 DEF Numbers
    <2> QED
      BY <2>1 DEF PointPrune
  <1>2. TreePrune(k) \subseteq Numbers(TreeEntries)
    <2>1. ASSUME NEW me \in Nodes, NEW slot \in {1, 2}, ChildNode(me, slot) <= N,
                 NEW x \in EdgeEntries(me, slot)
          PROVE  x[1] \in Numbers(TreeEntries)
      <3>1. <<me, slot>> \in Children
        BY <2>1 DEF Children
      <3>2. x \in TreeEntries
        BY <3>1 DEF TreeEntries
      <3> QED
        BY <3>2 DEF Numbers
    <2>2. ASSUME NEW me \in Nodes, NEW slot \in Slots(me)
          PROVE  /\ GroupWrite(me, slot) \in Numbers(TreeEntries)
                 /\ GroupRead(me, slot) \in Numbers(TreeEntries)
      <3>1. CASE slot # 0
        <4>1. slot \in {1, 2} /\ ChildNode(me, slot) <= N
          BY <3>1 DEF Slots
        <4> DEFINE up == <<GroupRead(me, slot), ReadEnd("tree", me - 1, ChildNode(me, slot) - 1)>>
                   down == <<GroupWrite(me, slot), WriteEnd("tree", ChildNode(me, slot) - 1, me - 1)>>
        <4>2. up \in EdgeEntries(me, slot) /\ down \in EdgeEntries(me, slot)
          BY DEF EdgeEntries
        <4> QED
          BY <2>1, <4>1, <4>2
      <3>2. CASE slot = 0
        <4>1. me \in 2 .. N
          BY <3>2, CopiesAssumption DEF Slots, Nodes
        <4>2. PICK parent \in Nodes, s \in {1, 2} : me = ChildNode(parent, s)
          <5>1. PICK parent \in 1 .. N : me = 2 * parent \/ me = 2 * parent + 1
            BY <4>1, CopiesAssumption
          <5>2. me = ChildNode(parent, 1) \/ me = ChildNode(parent, 2)
            BY <5>1, <4>1, CopiesAssumption DEF ChildNode
          <5> QED
            BY <5>1, <5>2 DEF Nodes
        <4>3. ChildNode(parent, s) <= N
          BY <4>1, <4>2, CopiesAssumption
        <4> DEFINE write == <<GroupWrite(me, 0), WriteEnd("tree", parent - 1, me - 1)>>
                   read == <<GroupRead(me, 0), ReadEnd("tree", me - 1, parent - 1)>>
        <4>4. write \in EdgeEntries(parent, s) /\ read \in EdgeEntries(parent, s)
          BY <4>2 DEF EdgeEntries
        <4> QED
          BY <2>1, <3>2, <4>3, <4>4
      <3> QED
        BY <3>1, <3>2
    <2> QED
      BY <2>2 DEF TreePrune, SlotNumbers
  <1>3. DirectPrune(k) \subseteq Numbers(DirectEntries)
    <2>1. ASSUME NEW me \in 2 .. N, NEW slot \in 0 .. 3
          PROVE  Direct(me, slot) \in Numbers(DirectEntries)
      <3>1. \E x \in SpokeEntries(me) : x[1] = Direct(me, slot)
        BY DEF SpokeEntries
      <3> QED
        BY <3>1 DEF DirectEntries, Numbers
    <2>2. k # 0 => k + 1 \in 2 .. N
      BY CopiesAssumption DEF Ranks
    <2> QED
      BY <2>1, <2>2 DEF DirectPrune
  <1> QED
    BY <1>1, <1>2, <1>3

\* Closing some ends by their numbers leaves others alone.
LEMMA CloseLeaves ==
    ASSUME NEW held, NEW kept \in SUBSET Entries, kept \subseteq held,
           NEW closed \in SUBSET Entries, closed \cap kept = {},
           NEW numbers, numbers \subseteq Numbers(closed)
    PROVE  kept \subseteq Without(held, numbers)
  <1>1. ASSUME NEW x \in kept, x[1] \in numbers  PROVE FALSE
    <2>1. PICK y \in closed : y[1] = x[1]
      BY <1>1 DEF Numbers
    <2> QED
      BY <2>1, DescriptorsApart DEF NumbersApart
  <1> QED
    BY <1>1 DEF Without

LEMMA NumbersGrow ==
    ASSUME NEW few, NEW many, few \subseteq many
    PROVE  Numbers(few) \subseteq Numbers(many)
  BY DEF Numbers

\* A step of one process that has not ended.
LEMMA OneMoves ==
    ASSUME HoldsNeeded, NEW p \in Procs, at[p] \notin Gone,
           NEW place \in LauncherPlaces \cup ChildPlaces, at' = [at EXCEPT ![p] = place],
           NEW held, Needed(place) \subseteq held, table' = [table EXCEPT ![p] = held],
           UNCHANGED code
    PROVE  HoldsNeeded'
  BY DEF HoldsNeeded

LEMMA OneEnds ==
    ASSUME HoldsNeeded, NEW p \in Procs, NEW c \in Int, Exit(p, c), c = 1 => p \in ExecMayFail
    PROVE  HoldsNeeded'
  <1>1. Needed("ended") = {}
    BY DEF Needed
  <1> QED
    BY <1>1 DEF HoldsNeeded, Exit, Gone, LauncherPlaces

\* An asserted close of what is needed for it succeeds.
LEMMA OneCloses ==
    ASSUME HoldsNeeded, NEW p \in Procs,
           NEW loop, loop \notin Gone, NEW closed \in SUBSET Needed(loop),
           NEW numbers, numbers \subseteq Numbers(closed),
           NEW next \in LauncherPlaces \cup ChildPlaces,
           Needed(next) \subseteq Needed(loop), closed \cap Needed(next) = {},
           CloseAsserted(p, loop, numbers, next)
    PROVE  HoldsNeeded'
  <1>1. at[p] = loop /\ Needed(loop) \subseteq table[p]
    BY DEF CloseAsserted, HoldsNeeded
  <1>2. Needed(loop) \subseteq Entries
    BY DEF Needed, Entries
  <1>3. numbers \subseteq Numbers(table[p])
    BY <1>1, NumbersGrow
  <1>4. Needed(next) \subseteq Without(table[p], numbers)
    BY <1>1, <1>2, CloseLeaves
  <1>5. /\ table' = [table EXCEPT ![p] = Without(table[p], numbers)]
        /\ at' = [at EXCEPT ![p] = next] /\ UNCHANGED code
    BY <1>3 DEF CloseAsserted
  <1> QED
    BY <1>1, <1>4, <1>5, OneMoves

LEMMA CopyCloses ==
    ASSUME HoldsNeeded, NEW k \in Ranks,
           ChildStep(k) \/ ProgramStep(k) \/ Killed(k)
    PROVE  HoldsNeeded'
  <1>1. k \in Procs
    BY DEF Procs
  <1>2. CASE PrunePoint(k)
    <2>1. Needed("prunePoint") = Entries /\ Needed("pruneTree") = TreeEntries \cup DirectEntries
      BY DEF Needed
    <2> QED
      BY <1>1, <1>2, <2>1, OneCloses, PruneKnown, LoopsApart
         DEF PrunePoint, Entries, Gone, ChildPlaces
  <1>3. CASE PruneTree(k)
    <2>1. /\ Needed("pruneTree") = TreeEntries \cup DirectEntries
          /\ Needed("pruneDirect") = DirectEntries
      BY DEF Needed
    <2> QED
      BY <1>1, <1>3, <2>1, OneCloses, PruneKnown, LoopsApart DEF PruneTree, Gone, ChildPlaces
  <1>4. CASE PruneDirect(k)
    <2>1. Needed("pruneDirect") = DirectEntries /\ Needed("exec") = {}
      BY DEF Needed
    <2> QED
      BY <1>1, <1>4, <2>1, OneCloses, PruneKnown DEF PruneDirect, Gone, ChildPlaces
  <1>5. \A place \in {"running", "closing", "joining", "joined", "finalized"} : Needed(place) = {}
    BY DEF Needed
  <1>6. CASE Exec(k) \/ WaitForReaders(k)
    <2>1. PICK place \in {"running", "joined"} : at' = [at EXCEPT ![k] = place]
      BY <1>6 DEF Exec, WaitForReaders
    <2>2. UNCHANGED <<code, table>> /\ at[k] \notin Gone
      BY <1>6 DEF Exec, WaitForReaders, Gone
    <2> QED
      BY <1>1, <1>5, <2>1, <2>2 DEF HoldsNeeded, ChildPlaces
  <1>7. CASE CloseWriting(k) \/ CloseReading(k) \/ GroupFails(k) \/ CloseGroupPipes(k)
    <2>1. ASSUME NEW from \in {"running", "closing", "joined"}, NEW numbers,
                 NEW place \in {"running", "closing", "joining", "finalized"},
                 CloseAny(k, from, numbers, place)
          PROVE  HoldsNeeded'
      <3>1. at[k] \notin Gone /\ Needed(place) \subseteq Without(table[k], numbers)
        BY <1>5, <2>1 DEF CloseAny, Gone
      <3>2. table' = [table EXCEPT ![k] = Without(table[k], numbers)]
        BY <2>1 DEF CloseAny
      <3> QED
        BY <1>1, <2>1, <3>1, <3>2, OneMoves DEF CloseAny, ChildPlaces
    <2> QED
      BY <1>7, <2>1 DEF CloseWriting, CloseReading, GroupFails, CloseGroupPipes
  <1>8. CASE ExecFails(k) \/ ProgramEnds(k) \/ Killed(k)
    BY <1>1, <1>8, OneEnds DEF ExecFails, ProgramEnds, Killed
  <1> QED
    BY <1>2, <1>3, <1>4, <1>6, <1>7, <1>8 DEF ChildStep, ProgramStep

LEMMA LauncherCloses ==
    ASSUME OpenedSoFar', HoldsNeeded, LauncherStep
    PROVE  HoldsNeeded'
  <1>1. Main \in Procs /\ Ranks \subseteq Procs /\ Main \notin Ranks
    BY CopiesAssumption DEF Procs, Ranks, Main
  <1>2. CASE OpenPoint \/ OpenTree \/ OpenDirect
    <2>1. ASSUME NEW loop \in Opening, NEW entries, NEW next \in Opening,
                 Open(loop, entries, next)
          PROVE  HoldsNeeded'
      <3> DEFINE held == Without(table[Main], Numbers(entries)) \cup entries
      <3>1. table' = [table EXCEPT ![Main] = held]
        BY <2>1 DEF Open
      <3>2. /\ at' = [at EXCEPT ![Main] = next] /\ next \in LauncherPlaces
            /\ UNCHANGED code /\ at[Main] \notin Gone
        BY <2>1 DEF Open, Opening, LauncherPlaces, Gone
      <3>3. at'[Main] = next /\ table'[Main] = held
        BY <1>1, <3>1, <3>2 DEF HoldsNeeded
      <3> HIDE DEF held
      <3>4. Needed(next) \subseteq held
        <4>1. next = "forking" => held = FileEntries \cup Entries
          BY <3>3 DEF OpenedSoFar, Opening, Opened
        <4>2. next # "forking" => Needed(next) = {}
          BY DEF Opening, Needed
        <4>3. Needed("forking") = Entries
          BY DEF Needed
        <4> QED
          BY <4>1, <4>2, <4>3
      <3> QED
        BY <1>1, <3>1, <3>2, <3>4, OneMoves
    <2> QED
      BY <1>2, <2>1 DEF OpenPoint, OpenTree, OpenDirect, Opening
  <1>3. CASE CloseTree
    <2>1. Needed("closeTree") = Entries /\ Needed("closePoint") = PointEntries \cup DirectEntries
      BY DEF Needed
    <2> QED
      BY <1>1, <1>3, <2>1, OneCloses, LoopsApart DEF CloseTree, Entries, Gone, LauncherPlaces
  <1>4. CASE ClosePoint
    <2>1. /\ Needed("closePoint") = PointEntries \cup DirectEntries
          /\ Needed("closeDirect") = DirectEntries
      BY DEF Needed
    <2> QED
      BY <1>1, <1>4, <2>1, OneCloses, LoopsApart DEF ClosePoint, Gone, LauncherPlaces
  <1>5. CASE CloseDirect
    <2>1. Needed("closeDirect") = DirectEntries /\ Needed("waiting") = {}
      BY DEF Needed
    <2> QED
      BY <1>1, <1>5, <2>1, OneCloses DEF CloseDirect, Gone, LauncherPlaces
  <1>6. CASE Return
    BY <1>1, <1>6, OneEnds DEF Return
  <1>7. ASSUME NEW k \in Ranks, Fork(k)  PROVE HoldsNeeded'
    <2>1. /\ Needed("prunePoint") = Entries /\ Needed("forking") = Entries
          /\ Needed("closeTree") = Entries
      BY DEF Needed
    <2>2. Entries \subseteq table[Main] /\ at[Main] = "forking" /\ at[k] = "unborn"
      BY <1>1, <1>7, <2>1 DEF Fork, NextRank, HoldsNeeded
    <2> QED
      BY <1>1, <1>7, <2>1, <2>2 DEF Fork, HoldsNeeded, Gone, LauncherPlaces, ChildPlaces
  <1>8. ASSUME NEW k \in Ranks, ForkFails(k)  PROVE HoldsNeeded'
    BY <1>1, <1>8, OneEnds DEF ForkFails
  <1>9. ASSUME NEW k \in Ranks, Reap(k)  PROVE HoldsNeeded'
    <2>1. Needed("reaped") = {}
      BY DEF Needed
    <2> QED
      BY <1>1, <1>9, <2>1 DEF Reap, HoldsNeeded, Gone, ChildPlaces
  <1> QED
    BY <1>2, <1>3, <1>4, <1>5, <1>6, <1>7, <1>8, <1>9 DEF LauncherStep

(***************************************************************************)
(* ClosesOpenOnlyHolds: in every job of up to 16 copies, mimpirun and its  *)
(* children hold what their loops are about to close with an assertion,    *)
(* and nobody is ended by a close that finds nothing.                      *)
(***************************************************************************)
THEOREM ClosesOpenOnlyHolds == Spec => []ClosesOpenOnly
  <1> DEFINE Both == OpenedSoFar /\ HoldsNeeded
  <1>1. Init => Both
    <2> SUFFICES ASSUME Init  PROVE Both
      OBVIOUS
    <2>1. OpenedSoFar
      BY OpenedInit
    <2>2. Needed("openPoint") = {} /\ Needed("unborn") = {}
      BY DEF Needed
    <2>3. HoldsNeeded
      BY <2>2 DEF Init, HoldsNeeded, Running, LauncherPlaces, ChildPlaces
    <2> QED
      BY <2>1, <2>3
  <1>2. Both /\ [Next]_vars => Both'
    <2> SUFFICES ASSUME OpenedSoFar, HoldsNeeded, [Next]_vars  PROVE HoldsNeeded'
      BY OpenedStep
    <2>1. CASE LauncherStep
      BY <2>1, OpenedStep, LauncherCloses
    <2>2. ASSUME NEW k \in Ranks, ChildStep(k) \/ ProgramStep(k) \/ Killed(k)
          PROVE  HoldsNeeded'
      BY <2>2, CopyCloses
    <2>3. CASE UNCHANGED vars
      BY <2>3 DEF vars, HoldsNeeded
    <2> QED
      BY <2>1, <2>2, <2>3 DEF Next
  <1>3. Both => ClosesOpenOnly
    <2> SUFFICES ASSUME HoldsNeeded  PROVE ClosesOpenOnly
      OBVIOUS
    <2>1. \A p \in Procs : Numbers(Needed(at[p])) \subseteq Numbers(table[p])
      BY NumbersGrow DEF HoldsNeeded
    <2>2. /\ Numbers(PointEntries) \subseteq Numbers(Entries)
          /\ Numbers(TreeEntries) \subseteq Numbers(TreeEntries \cup DirectEntries)
          /\ Numbers(TreeEntries) \subseteq Numbers(Entries)
          /\ Numbers(PointEntries) \subseteq Numbers(PointEntries \cup DirectEntries)
      BY DEF Numbers, Entries
    <2>3. ASSUME NEW k \in Ranks  PROVE AssertedByChild(k) \subseteq Numbers(table[k])
      <3>1. AssertedByChild(k) \subseteq Numbers(Needed(at[k]))
        BY <2>2, PruneKnown DEF AssertedByChild, Needed
      <3> QED
        BY <2>1, <3>1 DEF Procs
    <2>4. AssertedByMain \subseteq Numbers(table[Main])
      <3>1. AssertedByMain \subseteq Numbers(Needed(at[Main]))
        BY <2>2 DEF AssertedByMain, Needed
      <3> QED
        BY <2>1, <3>1 DEF Procs
    <2> QED
      BY <2>3, <2>4 DEF ClosesOpenOnly, HoldsNeeded, Gone
  <1> QED
    BY <1>1, <1>2, <1>3, PTL DEF Spec
=============================================================================
