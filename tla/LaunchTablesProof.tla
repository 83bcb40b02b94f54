-------------------------- MODULE LaunchTablesProof --------------------------
(***************************************************************************)
(* Proofs that every process of a job of up to 16 copies has exactly the   *)
(* descriptors it should have, and what follows from that.                 *)
(***************************************************************************)
EXTENDS LaunchTables, LaunchProof

(***************************************************************************)
(* LaunchTyping: every variable keeps its type; whatever fails, a table    *)
(* holds nothing but the files and ends of the job's pipes.                *)
(***************************************************************************)
LEMMA ProcsApart == Main \in Procs /\ Ranks \subseteq Procs /\ Main \notin Ranks
  BY CopiesAssumption DEF Procs, Ranks, Main

LEMMA TypedExit ==
    ASSUME TypeOK, NEW p \in Procs, NEW c \in {0, 1, 137, 255}, Exit(p, c)
    PROVE  TypeOK'
  BY ProcsApart DEF TypeOK, Exit, LauncherPlaces, ChildPlaces

LEMMA TypedMove ==
    ASSUME TypeOK, NEW p \in Procs, NEW place,
           at' = [at EXCEPT ![p] = place],
           IF p = Main THEN place \in LauncherPlaces ELSE place \in ChildPlaces,
           NEW held \in SUBSET (FileEntries \cup Entries),
           table' = [table EXCEPT ![p] = held],
           UNCHANGED code
    PROVE  TypeOK'
  BY ProcsApart DEF TypeOK

LEMMA TypedClose ==
    ASSUME TypeOK, NEW p \in Procs, NEW loop, NEW numbers, NEW next,
           IF p = Main THEN next \in LauncherPlaces ELSE next \in ChildPlaces,
           CloseAsserted(p, loop, numbers, next) \/ CloseAny(p, loop, numbers, next)
    PROVE  TypeOK'
  <1> DEFINE few == Without(table[p], numbers)
  <1>1. few \in SUBSET (FileEntries \cup Entries)
    BY DEF Without, TypeOK
  <1>2. CASE Exit(p, 1)
    BY <1>2, TypedExit
  <1>3. CASE ~Exit(p, 1)
    <2>1. at' = [at EXCEPT ![p] = next] /\ table' = [table EXCEPT ![p] = few] /\ UNCHANGED code
      BY <1>3 DEF CloseAsserted, CloseAny
    <2> HIDE DEF few
    <2> QED
      BY <1>1, <2>1, TypedMove
  <1> QED
    BY <1>2, <1>3

LEMMA TypedLauncherStep == TypeOK /\ LauncherStep => TypeOK'
  <1> SUFFICES ASSUME TypeOK, LauncherStep  PROVE TypeOK'
    OBVIOUS
  <1> USE ProcsApart
  <1>1. ASSUME NEW loop, NEW entries \in SUBSET Entries, NEW next \in LauncherPlaces,
               Open(loop, entries, next)
        PROVE  TypeOK'
    <2> DEFINE held == Without(table[Main], Numbers(entries)) \cup entries
    <2>1. held \in SUBSET (FileEntries \cup Entries)
      BY DEF Without, TypeOK
    <2>2. at' = [at EXCEPT ![Main] = next] /\ table' = [table EXCEPT ![Main] = held]
          /\ UNCHANGED code
      BY <1>1 DEF Open
    <2> HIDE DEF held
    <2> QED
      BY <2>1, <2>2, TypedMove
  <1>2. CASE OpenPoint \/ OpenTree \/ OpenDirect
    BY <1>1, <1>2 DEF OpenPoint, OpenTree, OpenDirect, Entries, LauncherPlaces
  <1>3. ASSUME NEW k \in Ranks, Fork(k)  PROVE TypeOK'
    BY <1>3 DEF Fork, TypeOK, LauncherPlaces, ChildPlaces
  <1>4. ASSUME NEW k \in Ranks, ForkFails(k)  PROVE TypeOK'
    BY <1>4, TypedExit DEF ForkFails
  <1>5. ASSUME NEW k \in Ranks, Reap(k)  PROVE TypeOK'
    BY <1>5 DEF Reap, TypeOK, ChildPlaces
  <1>6. CASE CloseTree \/ ClosePoint \/ CloseDirect
    BY <1>6, TypedClose DEF CloseTree, ClosePoint, CloseDirect, LauncherPlaces
  <1>7. CASE Return
    BY <1>7, TypedExit DEF Return
  <1> QED
    BY <1>2, <1>3, <1>4, <1>5, <1>6, <1>7 DEF LauncherStep

LEMMA TypedCopyStep ==
    ASSUME TypeOK, NEW k \in Ranks, ChildStep(k) \/ ProgramStep(k) \/ Killed(k)
    PROVE  TypeOK'
  <1> USE ProcsApart
  <1>1. CASE PrunePoint(k) \/ PruneTree(k) \/ PruneDirect(k)
    BY <1>1, TypedClose DEF PrunePoint, PruneTree, PruneDirect, ChildPlaces
  <1>2. CASE CloseWriting(k) \/ CloseReading(k) \/ GroupFails(k) \/ CloseGroupPipes(k)
    BY <1>2, TypedClose DEF CloseWriting, CloseReading, GroupFails, CloseGroupPipes, ChildPlaces
  <1>3. CASE Exec(k) \/ WaitForReaders(k)
    BY <1>3 DEF Exec, WaitForReaders, TypeOK, ChildPlaces
  <1>4. CASE ExecFails(k) \/ ProgramEnds(k) \/ Killed(k)
    BY <1>4, TypedExit DEF ExecFails, ProgramEnds, Killed
  <1> QED
    BY <1>1, <1>2, <1>3, <1>4 DEF ChildStep, ProgramStep

LEMMA TypedInit == Init => TypeOK
  BY ProcsApart DEF Init, TypeOK, LauncherPlaces, ChildPlaces

LEMMA TypedStep == TypeOK /\ [Next]_vars => TypeOK'
  <1> SUFFICES ASSUME TypeOK, [Next]_vars  PROVE TypeOK'
    OBVIOUS
  <1>1. CASE UNCHANGED vars
    BY <1>1 DEF vars, TypeOK
  <1> QED
    BY <1>1, TypedLauncherStep, TypedCopyStep DEF Next

THEOREM LaunchTyping == Spec => []TypeOK
  BY TypedInit, TypedStep, PTL DEF Spec

(***************************************************************************)
(* What the loops of a child and of the library close, against what the    *)
(* loops of main opened.                                                   *)
(***************************************************************************)
\* Numbers are apart, so closing by numbers closes exactly the ends meant.
LEMMA CloseExactly ==
    ASSUME NEW held \in SUBSET (FileEntries \cup Entries), NEW shut \in SUBSET Entries
    PROVE  Without(held, Numbers(shut)) = held \ shut
  <1>1. ASSUME NEW x \in held, NEW y \in shut, x[1] = y[1]  PROVE x = y
    <2>1. x \notin FileEntries
      BY <1>1, FilesApart
    <2> QED
      BY <1>1, <2>1, DescriptorsApart DEF NumbersApart
  <1> QED
    BY <1>1 DEF Without, Numbers

\* The point-to-point ends of rank k are those the library looks for, and the
\* first loop of a child closes all the others.
LEMMA PointOwned ==
    ASSUME NEW k \in Ranks
    PROVE  /\ OwnEntries(PointEntries, k) = LibraryPoint(k)
           /\ PointPrune(k) = Numbers(PointEntries \ OwnEntries(PointEntries, k))
           /\ LibraryPointReads(k) = Numbers(OwnReads(k))
           /\ LibraryPointWrites(k) = Numbers(OwnEntries(PointEntries, k) \ OwnReads(k))
  <1> DEFINE R(i, j) == <<PointRead(i, j), ReadEnd("point", i, j)>>
             W(i, j) == <<PointWrite(i, j), WriteEnd("point", i, j)>>
  <1>1. \A i, j : /\ Owner(R(i, j)[2]) = i /\ R(i, j)[2].side = "read" /\ R(i, j)[1] = PointRead(i, j)
                  /\ Owner(W(i, j)[2]) = j /\ W(i, j)[2].side = "write" /\ W(i, j)[1] = PointWrite(i, j)
    BY DEF Owner, ReadEnd, WriteEnd
  <1>1a. \A i, j : <<i, j>> \in Pairs <=> i \in Ranks /\ j \in Ranks /\ i # j
    BY DEF Pairs
  <1>1b. \A ij \in Pairs : ij[1] \in Ranks /\ ij[2] \in Ranks /\ ij[1] # ij[2]
    BY DEF Pairs
  <1>2. \A x : x \in PointEntries <=>
            \E i, j \in Ranks : i # j /\ (x = R(i, j) \/ x = W(i, j))
    <2>1. \A x : x \in PointEntries <=>
              \E ij \in Pairs : x = R(ij[1], ij[2]) \/ x = W(ij[1], ij[2])
      BY DEF PointEntries
    <2> HIDE DEF R, W
    <2>2. ASSUME NEW x, NEW i \in Ranks, NEW j \in Ranks, i # j, x = R(i, j) \/ x = W(i, j)
          PROVE  x \in PointEntries
      <3> DEFINE ij == <<i, j>>
      <3>1. ij \in Pairs /\ ij[1] = i /\ ij[2] = j
        BY <1>1a, <2>2
      <3> HIDE DEF ij
      <3> QED
        BY <2>1, <2>2, <3>1
    <2> QED
      BY <1>1b, <2>1, <2>2
  <1>3. \A x : x \in LibraryPoint(k) <=> \E i \in Ranks \ {k} : x = R(k, i) \/ x = W(i, k)
    BY DEF LibraryPoint
  <1>4. \A n : n \in PointPrune(k) <=>
            \E i, j \in Ranks : /\ i # j
                                /\ (i # k /\ n = PointRead(i, j)) \/ (j # k /\ n = PointWrite(i, j))
    <2>1. \A n : n \in PointPrune(k) <=>
              \E ij \in Pairs : \/ ij[1] # k /\ n = PointRead(ij[1], ij[2])
                                \/ ij[2] # k /\ n = PointWrite(ij[1], ij[2])
      BY DEF PointPrune
    <2>2. ASSUME NEW n, NEW i \in Ranks, NEW j \in Ranks, i # j,
                 (i # k /\ n = PointRead(i, j)) \/ (j # k /\ n = PointWrite(i, j))
          PROVE  n \in PointPrune(k)
      <3> DEFINE ij == <<i, j>>
      <3>1. ij \in Pairs /\ ij[1] = i /\ ij[2] = j
        BY <1>1a, <2>2
      <3> HIDE DEF ij
      <3> QED
        BY <2>1, <2>2, <3>1
    <2> QED
      BY <1>1b, <2>1, <2>2
  <1> HIDE DEF R, W
  <1>5. OwnEntries(PointEntries, k) = LibraryPoint(k)
    BY <1>1, <1>2, <1>3 DEF OwnEntries
  <1>6. PointPrune(k) = Numbers(PointEntries \ OwnEntries(PointEntries, k))
    <2>1. ASSUME NEW n \in PointPrune(k)
          PROVE  n \in Numbers(PointEntries \ OwnEntries(PointEntries, k))
      BY <1>1, <1>2, <1>4 DEF OwnEntries, Numbers
    <2>2. ASSUME NEW x \in PointEntries, x \notin OwnEntries(PointEntries, k)
          PROVE  x[1] \in PointPrune(k)
      BY <1>1, <1>2, <1>4, <2>2 DEF OwnEntries
    <2> QED
      BY <2>1, <2>2 DEF Numbers
  <1>7. \A x : x \in OwnReads(k) <=> \E i \in Ranks \ {k} : x = R(k, i)
    BY <1>1, <1>3, <1>5 DEF OwnReads
  <1>8. \A x : x \in OwnEntries(PointEntries, k) \ OwnReads(k) <=> \E i \in Ranks \ {k} : x = W(i, k)
    BY <1>1, <1>3, <1>5, <1>7 DEF OwnReads
  <1>9. LibraryPointReads(k) = Numbers(OwnReads(k))
    BY <1>1, <1>7 DEF LibraryPointReads, Numbers
  <1>10. LibraryPointWrites(k) = Numbers(OwnEntries(PointEntries, k) \ OwnReads(k))
    BY <1>1, <1>8 DEF LibraryPointWrites, Numbers
  <1> QED
    BY <1>5, <1>6, <1>9, <1>10

\* The tree pipes by node and slot: what main opens edge by edge is, node by
\* node, an end to read from and an end to write to in every slot in use.
Neighbour(me, s) == IF s = 0 THEN me \div 2 ELSE ChildNode(me, s)
SlotReadEntry(me, s) == <<GroupRead(me, s), ReadEnd("tree", me - 1, Neighbour(me, s) - 1)>>
SlotWriteEntry(me, s) == <<GroupWrite(me, s), WriteEnd("tree", Neighbour(me, s) - 1, me - 1)>>

LEMMA TreeByNode ==
    ASSUME NEW x
    PROVE  x \in TreeEntries <=>
              \E me \in Nodes : \E s \in Slots(me) :
                  x = SlotReadEntry(me, s) \/ x = SlotWriteEntry(me, s)
  <1>1. ASSUME NEW me \in Nodes, NEW s \in {1, 2}, ChildNode(me, s) <= N
        PROVE  /\ ChildNode(me, s) \in Nodes /\ 0 \in Slots(ChildNode(me, s)) /\ s \in Slots(me)
               /\ Neighbour(ChildNode(me, s), 0) = me /\ Neighbour(me, s) = ChildNode(me, s)
    BY <1>1, CopiesAssumption DEF Nodes, ChildNode, Slots, Neighbour
  <1>2. \A me, s : x \in EdgeEntries(me, s) <=>
            \/ x = <<GroupRead(me, s), ReadEnd("tree", me - 1, ChildNode(me, s) - 1)>>
            \/ x = <<GroupWrite(ChildNode(me, s), 0), WriteEnd("tree", me - 1, ChildNode(me, s) - 1)>>
            \/ x = <<GroupRead(ChildNode(me, s), 0), ReadEnd("tree", ChildNode(me, s) - 1, me - 1)>>
            \/ x = <<GroupWrite(me, s), WriteEnd("tree", ChildNode(me, s) - 1, me - 1)>>
    BY DEF EdgeEntries
  <1>3. ASSUME x \in TreeEntries
        PROVE  \E me \in Nodes : \E s \in Slots(me) :
                  x = SlotReadEntry(me, s) \/ x = SlotWriteEntry(me, s)
    <2>1. PICK me \in Nodes, s \in {1, 2} : ChildNode(me, s) <= N /\ x \in EdgeEntries(me, s)
      BY <1>3 DEF TreeEntries, Children
    <2> QED
      BY <1>1, <1>2, <2>1 DEF SlotReadEntry, SlotWriteEntry
  <1>4. ASSUME NEW me \in Nodes, NEW s \in Slots(me),
               x = SlotReadEntry(me, s) \/ x = SlotWriteEntry(me, s)
        PROVE  x \in TreeEntries
    <2>1. ASSUME NEW up \in Nodes, NEW t \in {1, 2}, ChildNode(up, t) <= N, x \in EdgeEntries(up, t)
          PROVE  x \in TreeEntries
      <3>1. <<up, t>> \in Children
        BY <2>1 DEF Children
      <3> QED
        BY <2>1, <3>1 DEF TreeEntries
    <2>2. CASE s # 0
      <3>1. s \in {1, 2} /\ ChildNode(me, s) <= N
        BY <2>2 DEF Slots
      <3> QED
        BY <1>1, <1>2, <1>4, <2>1, <3>1 DEF SlotReadEntry, SlotWriteEntry
    <2>3. CASE s = 0
      <3>1. me \in 2 .. N
        BY <2>3, CopiesAssumption DEF Slots, Nodes
      <3>2. PICK up \in Nodes, t \in {1, 2} : me = ChildNode(up, t)
        <4>1. PICK up \in 1 .. N : me = 2 * up \/ me = 2 * up + 1
          BY <3>1, CopiesAssumption
        <4>2. me = ChildNode(up, 1) \/ me = ChildNode(up, 2)
          BY <4>1, <3>1, CopiesAssumption DEF ChildNode
        <4> QED
          BY <4>1, <4>2 DEF Nodes
      <3>3. ChildNode(up, t) <= N
        BY <3>1, <3>2, CopiesAssumption
      <3> QED
        BY <1>1, <1>2, <1>4, <2>1, <2>3, <3>2, <3>3 DEF SlotReadEntry, SlotWriteEntry
    <2> QED
      BY <2>2, <2>3
  <1> QED
    BY <1>3, <1>4

LEMMA TreeOwned ==
    ASSUME NEW k \in Ranks
    PROVE  /\ OwnEntries(TreeEntries, k) = LibraryTree(k)
           /\ TreePrune(k) = Numbers(TreeEntries \ OwnEntries(TreeEntries, k))
  <1>1. \A me, s : /\ Owner(SlotReadEntry(me, s)[2]) = me - 1
                   /\ Owner(SlotWriteEntry(me, s)[2]) = me - 1
                   /\ SlotReadEntry(me, s)[1] = GroupRead(me, s)
                   /\ SlotWriteEntry(me, s)[1] = GroupWrite(me, s)
    BY DEF SlotReadEntry, SlotWriteEntry, Owner, ReadEnd, WriteEnd
  <1>2. k + 1 \in Nodes /\ \A me \in Nodes : me - 1 = k <=> me = k + 1
    BY CopiesAssumption DEF Ranks, Nodes
  <1>3. \A x : x \in OwnEntries(TreeEntries, k) <=>
            \E s \in Slots(k + 1) : x = SlotReadEntry(k + 1, s) \/ x = SlotWriteEntry(k + 1, s)
    BY <1>1, <1>2, TreeByNode DEF OwnEntries
  <1>4. \A x : x \in LibraryTree(k) <=>
            \E s \in Slots(k + 1) : x = SlotReadEntry(k + 1, s) \/ x = SlotWriteEntry(k + 1, s)
    <2>1. (k + 1) - 1 = k /\ k + 1 \in Int
      BY CopiesAssumption DEF Ranks
    <2>2. ASSUME NEW x
          PROVE  x \in LibraryTree(k) <=>
                    \/ \E s \in Slots(k + 1) \ {0} :
                          \/ x = <<GroupRead(k + 1, s), ReadEnd("tree", k, ChildNode(k + 1, s) - 1)>>
                          \/ x = <<GroupWrite(k + 1, s), WriteEnd("tree", ChildNode(k + 1, s) - 1, k)>>
                    \/ /\ k + 1 # 1
                       /\ \/ x = <<GroupRead(k + 1, 0), ReadEnd("tree", k, (k + 1) \div 2 - 1)>>
                          \/ x = <<GroupWrite(k + 1, 0), WriteEnd("tree", (k + 1) \div 2 - 1, k)>>
      BY DEF LibraryTree
    <2>3. 0 \in Slots(k + 1) <=> k + 1 # 1
      BY DEF Slots
    <2> QED
      BY <2>1, <2>2, <2>3 DEF SlotReadEntry, SlotWriteEntry, Neighbour
  <1>5. \A n : n \in TreePrune(k) <=>
            \E me \in Nodes \ {k + 1} : \E s \in Slots(me) : n = GroupWrite(me, s) \/ n = GroupRead(me, s)
    BY DEF TreePrune, SlotNumbers
  <1>6. \A x : x \in TreeEntries \ OwnEntries(TreeEntries, k) <=>
            \E me \in Nodes \ {k + 1} : \E s \in Slots(me) :
                x = SlotReadEntry(me, s) \/ x = SlotWriteEntry(me, s)
    BY <1>1, <1>2, TreeByNode DEF OwnEntries
  <1>7. TreePrune(k) = Numbers(TreeEntries \ OwnEntries(TreeEntries, k))
    <2>1. ASSUME NEW n \in TreePrune(k)
          PROVE  n \in Numbers(TreeEntries \ OwnEntries(TreeEntries, k))
      BY <1>1, <1>5, <1>6 DEF Numbers
    <2>2. ASSUME NEW x \in TreeEntries \ OwnEntries(TreeEntries, k)  PROVE x[1] \in TreePrune(k)
      BY <1>1, <1>5, <1>6
    <2> QED
      BY <2>1, <2>2 DEF Numbers
  <1> QED
    BY <1>3, <1>4, <1>7

LEMMA DirectOwned ==
    ASSUME NEW k \in Ranks
    PROVE  /\ OwnEntries(DirectEntries, k) = LibraryDirect(k)
           /\ DirectPrune(k) = Numbers(DirectEntries \ OwnEntries(DirectEntries, k))
  <1> DEFINE A(i) == <<Direct(i + 1, 1), ReadEnd("direct", 0, i)>>
             B(i) == <<Direct(i + 1, 2), WriteEnd("direct", 0, i)>>
             C(i) == <<Direct(i + 1, 3), ReadEnd("direct", i, 0)>>
             D(i) == <<Direct(i + 1, 0), WriteEnd("direct", i, 0)>>
  <1>1. \A i : /\ Owner(A(i)[2]) = 0 /\ Owner(B(i)[2]) = i /\ Owner(C(i)[2]) = i /\ Owner(D(i)[2]) = 0
               /\ A(i)[1] = Direct(i + 1, 1) /\ B(i)[1] = Direct(i + 1, 2)
               /\ C(i)[1] = Direct(i + 1, 3) /\ D(i)[1] = Direct(i + 1, 0)
    BY DEF Owner, ReadEnd, WriteEnd
  <1>2. \A x : x \in DirectEntries <=>
            \E i \in Ranks \ {0} : x = A(i) \/ x = B(i) \/ x = C(i) \/ x = D(i)
    <2>1. \A i \in Ranks \ {0} : i + 1 \in 2 .. N /\ (i + 1) - 1 = i
      BY CopiesAssumption DEF Ranks
    <2>2. \A me \in 2 .. N : me - 1 \in Ranks \ {0} /\ (me - 1) + 1 = me
      BY CopiesAssumption DEF Ranks
    <2>3. ASSUME NEW x
          PROVE  x \in DirectEntries <=> \E me \in 2 .. N : x \in SpokeEntries(me)
      BY DEF DirectEntries
    <2>4. ASSUME NEW x, NEW i \in Ranks \ {0}
          PROVE  x \in SpokeEntries(i + 1) <=> x = A(i) \/ x = B(i) \/ x = C(i) \/ x = D(i)
      BY <2>1 DEF SpokeEntries
    <2> HIDE DEF A, B, C, D
    <2> QED
      BY <2>1, <2>2, <2>3, <2>4
  <1>3. \A x : x \in LibraryDirect(k) <=>
            IF k = 0 THEN \E i \in Ranks \ {0} : x = A(i) \/ x = D(i)
                     ELSE x = B(k) \/ x = C(k)
    BY DEF LibraryDirect
  <1>4. \A n : n \in DirectPrune(k) <=>
            IF k = 0
            THEN \E i \in Ranks \ {0} : n = Direct(i + 1, 2) \/ n = Direct(i + 1, 3)
            ELSE \E i \in Ranks \ {0} :
                    \/ n = Direct(i + 1, 0) \/ n = Direct(i + 1, 1)
                    \/ i # k /\ (n = Direct(i + 1, 2) \/ n = Direct(i + 1, 3))
    <2>1. \A i \in Ranks \ {0} : i + 1 \in 2 .. N /\ (i + 1 = k + 1 <=> i = k)
      BY CopiesAssumption DEF Ranks
    <2>2. \A me \in 2 .. N : me - 1 \in Ranks \ {0} /\ (me - 1) + 1 = me
      BY CopiesAssumption DEF Ranks
    <2>3. CASE k = 0
      <3>1. \A n : n \in DirectPrune(k) <=> \E me \in 2 .. N : n = Direct(me, 2) \/ n = Direct(me, 3)
        BY <2>3 DEF DirectPrune
      <3> QED
        BY <2>1, <2>2, <2>3, <3>1
    <2>4. CASE k # 0
      <3>1. \A n : n \in DirectPrune(k) <=>
                \/ \E me \in 2 .. N \ {k + 1} : \/ n = Direct(me, 0) \/ n = Direct(me, 1)
                                                \/ n = Direct(me, 2) \/ n = Direct(me, 3)
                \/ n = Direct(k + 1, 0) \/ n = Direct(k + 1, 1)
        <4>1. 0 .. 3 = {0, 1, 2, 3}
          OBVIOUS
        <4> QED
          BY <2>4, <4>1 DEF DirectPrune
      <3> QED
        BY <2>1, <2>2, <2>4, <3>1
    <2> QED
      BY <2>3, <2>4
  <1> HIDE DEF A, B, C, D
  <1>5. OwnEntries(DirectEntries, k) = LibraryDirect(k)
    BY <1>1, <1>2, <1>3 DEF OwnEntries
  <1>6. DirectPrune(k) = Numbers(DirectEntries \ OwnEntries(DirectEntries, k))
    <2>1. ASSUME NEW n \in DirectPrune(k)
          PROVE  n \in Numbers(DirectEntries \ OwnEntries(DirectEntries, k))
      BY <1>1, <1>2, <1>4 DEF OwnEntries, Numbers
    <2>2. ASSUME NEW x \in DirectEntries, x \notin OwnEntries(DirectEntries, k)
          PROVE  x[1] \in DirectPrune(k)
      BY <1>1, <1>2, <1>4, <2>2 DEF OwnEntries
    <2> QED
      BY <2>1, <2>2 DEF Numbers
  <1> QED
    BY <1>5, <1>6

\* closeGroupPipes closes all the group ends of rank k and, whatever else it
\* tries to close, nothing of the files and the point-to-point ends.
LEMMA GroupClosed ==
    ASSUME NEW k \in Ranks, NEW held,
           held \in {FileEntries \cup OwnEntries(Entries, k),
                     FileEntries \cup OwnEntries(PointEntries, k)}
    PROVE  Without(held, GroupNumbers(k)) = FileEntries \cup OwnEntries(PointEntries, k)
  <1>1. k \in 0 .. 15 /\ k + 1 \in 1 .. 16 /\ N \in 1 .. 16
    BY CopiesAssumption DEF Ranks
  <1>2. ASSUME NEW n \in GroupNumbers(k)  PROVE n \in Int /\ 700 <= n /\ n < 1024
    <2>1. \/ \E s \in 0 .. 2 : n = GroupWrite(k + 1, s) \/ n = GroupRead(k + 1, s)
          \/ \E me \in 2 .. N, s \in {0, 1} : n = Direct(me, s)
          \/ k # 0 /\ \E s \in {2, 3} : n = Direct(k + 1, s)
      BY DEF GroupNumbers
    <2> QED
      BY <1>1, <2>1 DEF GroupWrite, GroupRead, Direct
  <1>3. ASSUME NEW x \in FileEntries \cup PointEntries  PROVE x[1] \notin GroupNumbers(k)
    <2>1. CASE x \in PointEntries
      BY <1>2, <2>1, Regions
    <2>2. CASE x \in FileEntries
      <3>1. x[1] \in Nat \ (20 .. 1023)
        BY <2>2, FilesAssumption DEF FileEntries, DescriptorLimit
      <3> QED
        BY <1>2, <3>1
    <2> QED
      BY <2>1, <2>2
  <1>4. ASSUME NEW x \in OwnEntries(TreeEntries, k)  PROVE x[1] \in GroupNumbers(k)
    <2> PICK me \in Nodes : \E s \in Slots(me) : x = SlotReadEntry(me, s) \/ x = SlotWriteEntry(me, s)
      BY TreeByNode DEF OwnEntries
    <2>1. PICK s \in Slots(me) : x = SlotReadEntry(me, s) \/ x = SlotWriteEntry(me, s)
      OBVIOUS
    <2>2. me - 1 = k /\ (x[1] = GroupRead(me, s) \/ x[1] = GroupWrite(me, s))
      BY <2>1 DEF OwnEntries, SlotReadEntry, SlotWriteEntry, Owner, ReadEnd, WriteEnd
    <2>3. me = k + 1 /\ s \in 0 .. 2
      BY <1>1, <2>2 DEF Nodes, Slots
    <2> QED
      BY <2>2, <2>3 DEF GroupNumbers
  <1>5. ASSUME NEW x \in OwnEntries(DirectEntries, k)  PROVE x[1] \in GroupNumbers(k)
    <2> x \in LibraryDirect(k)
      BY DirectOwned
    <2>1. CASE k = 0
      <3>1. PICK i \in Ranks \ {0} : x[1] = Direct(i + 1, 1) \/ x[1] = Direct(i + 1, 0)
        BY <2>1 DEF LibraryDirect
      <3>2. i + 1 \in 2 .. N
        BY <1>1, <3>1 DEF Ranks
      <3> QED
        BY <2>1, <3>1, <3>2 DEF GroupNumbers
    <2>2. CASE k # 0
      <3>1. x[1] = Direct(k + 1, 3) \/ x[1] = Direct(k + 1, 2)
        BY <2>2 DEF LibraryDirect
      <3> QED
        BY <2>2, <3>1 DEF GroupNumbers
    <2> QED
      BY <2>1, <2>2
  <1>6. OwnEntries(Entries, k) = OwnEntries(PointEntries, k)
                                 \cup OwnEntries(TreeEntries, k) \cup OwnEntries(DirectEntries, k)
    BY DEF OwnEntries, Entries
  <1>7. OwnEntries(PointEntries, k) \subseteq PointEntries
    BY DEF OwnEntries
  <1> QED
    BY <1>3, <1>4, <1>5, <1>6, <1>7 DEF Without

(***************************************************************************)
(* TablesExact is inductive.                                               *)
(***************************************************************************)
\* What a process that goes from one loop to the next then holds.
LEMMA HoldsSubset ==
    ASSUME NEW k \in Ranks, NEW place, NEW holds \in ChildHolds(k, place)
    PROVE  holds \subseteq Entries
  BY DEF ChildHolds, OwnEntries, OwnReads, Entries

LEMMA PruneSteps ==
    ASSUME NEW k \in Ranks
    PROVE  /\ Entries \ (PointEntries \ OwnEntries(PointEntries, k))
                = OwnEntries(PointEntries, k) \cup TreeEntries \cup DirectEntries
           /\ (OwnEntries(PointEntries, k) \cup TreeEntries \cup DirectEntries)
                \ (TreeEntries \ OwnEntries(TreeEntries, k))
                = OwnEntries(PointEntries \cup TreeEntries, k) \cup DirectEntries
           /\ (OwnEntries(PointEntries \cup TreeEntries, k) \cup DirectEntries)
                \ (DirectEntries \ OwnEntries(DirectEntries, k))
                = OwnEntries(Entries, k)
  BY LoopsApart DEF OwnEntries, Entries

\* A rank that lives on.
LEMMA CopyMoves ==
    ASSUME TypeOK, TablesExact, NEW k \in Ranks, at[k] \notin NoTable,
           NEW place \in ChildPlaces \ NoTable, at' = [at EXCEPT ![k] = place],
           NEW holds \in ChildHolds(k, place),
           table' = [table EXCEPT ![k] = FileEntries \cup holds]
    PROVE  TablesExact'
  <1>1. at'[k] = place /\ table'[k] = FileEntries \cup holds
    BY ProcsApart DEF TypeOK
  <1>2. \A p \in Procs \ {k} : at'[p] = at[p] /\ table'[p] = table[p]
    BY DEF TypeOK
  <1>3. (at[Main] # "ended" => table[Main] = FileEntries \cup LauncherHolds(at[Main]))'
    BY <1>2, ProcsApart DEF TablesExact
  <1>4. ASSUME NEW i \in Ranks
        PROVE  (/\ IF at[i] \in NoTable
                   THEN table[i] = {}
                   ELSE \E h \in ChildHolds(i, at[i]) : table[i] = FileEntries \cup h
                /\ at[i] = "unborn" => at[Main] \in {"openPoint", "openTree", "openDirect", "forking", "ended"})'
    <2>1. CASE i = k
      BY <1>1, <2>1 DEF NoTable
    <2>2. CASE i # k
      BY <1>2, <2>2, ProcsApart DEF TablesExact
    <2> QED
      BY <2>1, <2>2
  <1> QED
    BY <1>3, <1>4 DEF TablesExact

LEMMA CopyEnds ==
    ASSUME TypeOK, TablesExact, NEW k \in Ranks, NEW c, Exit(k, c)
    PROVE  TablesExact'
  <1>1. at'[k] = "ended" /\ table'[k] = {}
    BY ProcsApart DEF TypeOK, Exit
  <1>2. \A p \in Procs \ {k} : at'[p] = at[p] /\ table'[p] = table[p]
    BY DEF TypeOK, Exit
  <1> QED
    BY <1>1, <1>2, ProcsApart DEF TablesExact, NoTable

\* A rank that closes ends it holds, by their numbers.
LEMMA CopyShuts ==
    ASSUME TypeOK, TablesExact, NEW k \in Ranks, NEW from \in ChildPlaces \ NoTable,
           NEW held, ChildHolds(k, from) = {held},
           NEW shut \in SUBSET Entries, NEW place \in ChildPlaces \ NoTable,
           held \ shut \in ChildHolds(k, place),
           \/ CloseAsserted(k, from, Numbers(shut), place)
           \/ CloseAny(k, from, Numbers(shut), place)
    PROVE  TablesExact'
  <1>1. at[k] = from /\ table[k] = FileEntries \cup held
    BY DEF CloseAsserted, CloseAny, TablesExact
  <1>2. held \subseteq Entries
    BY HoldsSubset
  <1>3. Without(table[k], Numbers(shut)) = FileEntries \cup (held \ shut)
    BY <1>1, <1>2, CloseExactly, LoopsApart
  <1>4. CASE Exit(k, 1)
    BY <1>4, CopyEnds
  <1>5. CASE ~Exit(k, 1)
    BY <1>1, <1>3, <1>5, CopyMoves DEF CloseAsserted, CloseAny
  <1> QED
    BY <1>4, <1>5

LEMMA CopyKeepsTables ==
    ASSUME TypeOK, TablesExact, NEW k \in Ranks,
           ChildStep(k) \/ ProgramStep(k) \/ Killed(k)
    PROVE  TablesExact'
  <1> DEFINE P == OwnEntries(PointEntries, k)
  <1>1. /\ PointEntries \ P \in SUBSET Entries
        /\ TreeEntries \ OwnEntries(TreeEntries, k) \in SUBSET Entries
        /\ DirectEntries \ OwnEntries(DirectEntries, k) \in SUBSET Entries
        /\ P \in SUBSET Entries /\ OwnReads(k) \in SUBSET P
    BY DEF Entries, OwnEntries, OwnReads
  <1>2. CASE PrunePoint(k)
    <2>1. CloseAsserted(k, "prunePoint", Numbers(PointEntries \ P), "pruneTree")
      BY <1>2, PointOwned DEF PrunePoint
    <2>2. /\ ChildHolds(k, "prunePoint") = {Entries}
          /\ ChildHolds(k, "pruneTree") = {P \cup TreeEntries \cup DirectEntries}
      BY DEF ChildHolds
    <2>3. Entries \ (PointEntries \ P) \in ChildHolds(k, "pruneTree")
      BY <2>2, PruneSteps
    <2> HIDE DEF P
    <2> QED
      BY <1>1, <2>1, <2>2, <2>3, CopyShuts DEF ChildPlaces, NoTable
  <1>3. CASE PruneTree(k)
    <2> DEFINE held == P \cup TreeEntries \cup DirectEntries
               shut == TreeEntries \ OwnEntries(TreeEntries, k)
    <2>1. CloseAsserted(k, "pruneTree", Numbers(shut), "pruneDirect")
      BY <1>3, TreeOwned DEF PruneTree
    <2>2. /\ ChildHolds(k, "pruneTree") = {held}
          /\ ChildHolds(k, "pruneDirect") = {OwnEntries(PointEntries \cup TreeEntries, k) \cup DirectEntries}
      BY DEF ChildHolds
    <2>3. held \ shut \in ChildHolds(k, "pruneDirect") /\ shut \in SUBSET Entries
      BY <1>1, <2>2, PruneSteps
    <2> HIDE DEF held, shut
    <2> QED
      BY <2>1, <2>2, <2>3, CopyShuts DEF ChildPlaces, NoTable
  <1>4. CASE PruneDirect(k)
    <2> DEFINE held == OwnEntries(PointEntries \cup TreeEntries, k) \cup DirectEntries
               shut == DirectEntries \ OwnEntries(DirectEntries, k)
    <2>1. CloseAsserted(k, "pruneDirect", Numbers(shut), "exec")
      BY <1>4, DirectOwned DEF PruneDirect
    <2>2. /\ ChildHolds(k, "pruneDirect") = {held}
          /\ ChildHolds(k, "exec") = {OwnEntries(Entries, k)}
      BY DEF ChildHolds
    <2>3. held \ shut \in ChildHolds(k, "exec") /\ shut \in SUBSET Entries
      BY <1>1, <2>2, PruneSteps
    <2> HIDE DEF held, shut
    <2> QED
      BY <2>1, <2>2, <2>3, CopyShuts DEF ChildPlaces, NoTable
  <1>5. CASE Exec(k)
    <2>1. table[k] = FileEntries \cup OwnEntries(Entries, k)
      BY <1>5 DEF Exec, TablesExact, ChildHolds, NoTable
    <2>2. table' = [table EXCEPT ![k] = FileEntries \cup OwnEntries(Entries, k)]
      BY <1>5, <2>1 DEF Exec, TypeOK
    <2>3. OwnEntries(Entries, k) \in ChildHolds(k, "running")
      BY DEF ChildHolds
    <2> QED
      BY <1>5, <2>2, <2>3, CopyMoves DEF Exec, ChildPlaces, NoTable
  <1>6. CASE GroupFails(k) \/ CloseGroupPipes(k)
    <2>1. PICK place \in {"running", "closing"} : CloseAny(k, "running", GroupNumbers(k), place)
      BY <1>6 DEF GroupFails, CloseGroupPipes
    <2>2. table[k] \in {FileEntries \cup OwnEntries(Entries, k), FileEntries \cup P}
      BY <2>1 DEF CloseAny, TablesExact, ChildHolds, NoTable
    <2>3. Without(table[k], GroupNumbers(k)) = FileEntries \cup P
      BY <2>2, GroupClosed
    <2>4. P \in ChildHolds(k, place)
      BY DEF ChildHolds
    <2> HIDE DEF P
    <2> QED
      BY <2>1, <2>3, <2>4, CopyMoves DEF CloseAny, ChildPlaces, NoTable
  <1>7. CASE CloseWriting(k)
    <2> DEFINE shut == P \ OwnReads(k)
    <2>1. CloseAny(k, "closing", Numbers(shut), "joining")
      BY <1>7, PointOwned DEF CloseWriting
    <2>2. ChildHolds(k, "closing") = {P} /\ ChildHolds(k, "joining") = {OwnReads(k)}
      BY DEF ChildHolds
    <2>3. P \ shut \in ChildHolds(k, "joining") /\ shut \in SUBSET Entries
      <3>1. P \ shut = OwnReads(k)
        BY <1>1
      <3> QED
        BY <1>1, <2>2, <3>1
    <2> HIDE DEF P, shut
    <2> QED
      BY <2>1, <2>2, <2>3, CopyShuts DEF ChildPlaces, NoTable
  <1>8. CASE WaitForReaders(k)
    <2>1. table[k] = FileEntries \cup OwnReads(k)
      BY <1>8 DEF WaitForReaders, TablesExact, ChildHolds, NoTable
    <2>2. table' = [table EXCEPT ![k] = FileEntries \cup OwnReads(k)]
      BY <1>8, <2>1 DEF WaitForReaders, TypeOK
    <2>3. OwnReads(k) \in ChildHolds(k, "joined")
      BY DEF ChildHolds
    <2> QED
      BY <1>8, <2>2, <2>3, CopyMoves DEF WaitForReaders, ChildPlaces, NoTable
  <1>9. CASE CloseReading(k)
    <2>1. CloseAny(k, "joined", Numbers(OwnReads(k)), "finalized")
      BY <1>9, PointOwned DEF CloseReading
    <2>2. ChildHolds(k, "joined") = {OwnReads(k)} /\ ChildHolds(k, "finalized") = {{}}
      BY DEF ChildHolds
    <2>3. OwnReads(k) \ OwnReads(k) \in ChildHolds(k, "finalized")
      BY <2>2
    <2> QED
      BY <1>1, <2>1, <2>2, <2>3, CopyShuts DEF ChildPlaces, NoTable
  <1>10. CASE ExecFails(k) \/ ProgramEnds(k) \/ Killed(k)
    BY <1>10, CopyEnds DEF ExecFails, ProgramEnds, Killed
  <1> QED
    BY <1>2, <1>3, <1>4, <1>5, <1>6, <1>7, <1>8, <1>9, <1>10 DEF ChildStep, ProgramStep

\* What the loops of mimpirun leave it with.
LEMMA LauncherMoves ==
    ASSUME TypeOK, TablesExact, at[Main] \notin {"forking", "ended"},
           NEW place \in LauncherPlaces \ {"ended"}, at' = [at EXCEPT ![Main] = place],
           at[Main] \in {"openPoint", "openTree", "openDirect"}
               => place \in {"openPoint", "openTree", "openDirect", "forking"},
           table' = [table EXCEPT ![Main] = FileEntries \cup LauncherHolds(place)]
    PROVE  TablesExact'
  <1>1. at'[Main] = place /\ table'[Main] = FileEntries \cup LauncherHolds(place)
    BY ProcsApart DEF TypeOK
  <1>2. \A k \in Ranks : at'[k] = at[k] /\ table'[k] = table[k]
    BY ProcsApart DEF TypeOK
  <1> QED
    BY <1>1, <1>2 DEF TablesExact

LEMMA LauncherEnds ==
    ASSUME TypeOK, TablesExact, NEW c, Exit(Main, c)
    PROVE  TablesExact'
  <1>1. at'[Main] = "ended" /\ \A k \in Ranks : at'[k] = at[k] /\ table'[k] = table[k]
    BY ProcsApart DEF TypeOK, Exit
  <1> QED
    BY <1>1 DEF TablesExact

LEMMA LauncherShuts ==
    ASSUME TypeOK, TablesExact, NEW loop \in LauncherPlaces \ {"ended", "forking"},
           loop \notin {"openPoint", "openTree", "openDirect"},
           NEW shut \in SUBSET Entries, NEW place \in LauncherPlaces \ {"ended"},
           LauncherHolds(loop) \ shut = LauncherHolds(place),
           CloseAsserted(Main, loop, Numbers(shut), place)
    PROVE  TablesExact'
  <1>1. table[Main] = FileEntries \cup LauncherHolds(loop) /\ at[Main] = loop
    BY DEF CloseAsserted, TablesExact
  <1>2. LauncherHolds(loop) \subseteq Entries
    BY DEF LauncherHolds, Entries
  <1>3. Without(table[Main], Numbers(shut)) = FileEntries \cup LauncherHolds(place)
    BY <1>1, <1>2, CloseExactly, LoopsApart
  <1>4. CASE Exit(Main, 1)
    BY <1>4, LauncherEnds
  <1>5. CASE ~Exit(Main, 1)
    BY <1>1, <1>3, <1>5, LauncherMoves DEF CloseAsserted
  <1> QED
    BY <1>4, <1>5

LEMMA LauncherOpens ==
    ASSUME TypeOK, TablesExact, NEW loop \in {"openPoint", "openTree", "openDirect"},
           NEW entries \in SUBSET Entries, NEW place \in {"openTree", "openDirect", "forking"},
           LauncherHolds(loop) \subseteq Entries, LauncherHolds(loop) \cap entries = {},
           LauncherHolds(loop) \cup entries = LauncherHolds(place),
           Open(loop, entries, place)
    PROVE  TablesExact'
  <1>1. table[Main] = FileEntries \cup LauncherHolds(loop) /\ at[Main] = loop
    BY DEF Open, TablesExact
  <1>2. Without(table[Main], Numbers(entries)) \cup entries = FileEntries \cup LauncherHolds(place)
    BY <1>1, OpenAdds, LoopsApart
  <1> QED
    BY <1>1, <1>2, LauncherMoves DEF Open, LauncherPlaces

LEMMA LauncherKeepsTables == TypeOK /\ TablesExact /\ LauncherStep => TablesExact'
  <1> SUFFICES ASSUME TypeOK, TablesExact, LauncherStep  PROVE TablesExact'
    OBVIOUS
  <1>1. /\ LauncherHolds("openPoint") = {} /\ LauncherHolds("openTree") = PointEntries
        /\ LauncherHolds("openDirect") = PointEntries \cup TreeEntries
        /\ LauncherHolds("forking") = Entries /\ LauncherHolds("closeTree") = Entries
        /\ LauncherHolds("closePoint") = PointEntries \cup DirectEntries
        /\ LauncherHolds("closeDirect") = DirectEntries /\ LauncherHolds("waiting") = {}
    BY DEF LauncherHolds
  <1>2. /\ PointEntries \in SUBSET Entries /\ TreeEntries \in SUBSET Entries
        /\ DirectEntries \in SUBSET Entries
        /\ Entries = (PointEntries \cup TreeEntries) \cup DirectEntries
        /\ Entries \ TreeEntries = PointEntries \cup DirectEntries
        /\ (PointEntries \cup DirectEntries) \ PointEntries = DirectEntries
    BY LoopsApart DEF Entries
  <1>3. CASE OpenPoint
    BY <1>1, <1>2, <1>3, LauncherOpens DEF OpenPoint
  <1>4. CASE OpenTree
    BY <1>1, <1>2, <1>4, LauncherOpens, LoopsApart DEF OpenTree
  <1>5. CASE OpenDirect
    BY <1>1, <1>2, <1>5, LauncherOpens, LoopsApart DEF OpenDirect
  <1>6. ASSUME NEW k \in Ranks, Fork(k)  PROVE TablesExact'
    <2> DEFINE next == IF k = N - 1 THEN "closeTree" ELSE "forking"
    <2>1. at[Main] = "forking" /\ table[Main] = FileEntries \cup Entries
      BY <1>1, <1>6 DEF Fork, NextRank, TablesExact
    <2>2. /\ at'[Main] = next /\ table'[Main] = FileEntries \cup LauncherHolds(next)
          /\ at'[k] = "prunePoint" /\ table'[k] = FileEntries \cup Entries
      BY <1>1, <1>6, <2>1, ProcsApart DEF Fork, TypeOK
    <2>3. \A i \in Ranks \ {k} : at'[i] = at[i] /\ table'[i] = table[i]
      BY <1>6, ProcsApart DEF Fork, TypeOK
    <2>4. ASSUME NEW i \in Ranks, at'[i] = "unborn"  PROVE next = "forking"
      <3>1. k = N - 1 => i = k \/ i < k
        BY CopiesAssumption DEF Ranks
      <3> QED
        BY <1>6, <2>2, <2>3, <2>4, <3>1 DEF Fork, NextRank
    <2>5. Entries \in ChildHolds(k, "prunePoint")
      BY DEF ChildHolds
    <2> HIDE DEF next
    <2>6. ASSUME NEW i \in Ranks
          PROVE  (/\ IF at[i] \in NoTable
                     THEN table[i] = {}
                     ELSE \E h \in ChildHolds(i, at[i]) : table[i] = FileEntries \cup h
                  /\ at[i] = "unborn" => at[Main] \in {"openPoint", "openTree", "openDirect", "forking", "ended"})'
      <3>1. CASE i = k
        BY <2>2, <2>5, <3>1 DEF NoTable
      <3>2. CASE i # k
        BY <2>2, <2>3, <2>4, <3>2 DEF TablesExact
      <3> QED
        BY <3>1, <3>2
    <2> QED
      BY <2>2, <2>6 DEF TablesExact
  <1>7. ASSUME NEW k \in Ranks, ForkFails(k)  PROVE TablesExact'
    BY <1>7, LauncherEnds DEF ForkFails
  <1>8. ASSUME NEW k \in Ranks, Reap(k)  PROVE TablesExact'
    <2>1. at'[k] = "reaped" /\ table' = table /\ table[k] = {}
      BY <1>8, ProcsApart DEF Reap, TypeOK, TablesExact, NoTable
    <2>2. \A p \in Procs \ {k} : at'[p] = at[p]
      BY <1>8 DEF Reap, TypeOK
    <2> QED
      BY <2>1, <2>2, ProcsApart DEF TablesExact, NoTable
  <1>9. CASE CloseTree
    BY <1>1, <1>2, <1>9, LauncherShuts DEF CloseTree, LauncherPlaces
  <1>10. CASE ClosePoint
    BY <1>1, <1>2, <1>10, LauncherShuts DEF ClosePoint, LauncherPlaces
  <1>11. CASE CloseDirect
    BY <1>1, <1>2, <1>11, LauncherShuts DEF CloseDirect, LauncherPlaces
  <1>12. CASE Return
    BY <1>12, LauncherEnds DEF Return
  <1> QED
    BY <1>3, <1>4, <1>5, <1>6, <1>7, <1>8, <1>9, <1>10, <1>11, <1>12 DEF LauncherStep

LEMMA TablesInit == Init => TablesExact
  BY ProcsApart DEF Init, TablesExact, LauncherHolds, NoTable

(***************************************************************************)
(* TablesExactHolds: in every job of up to 16 copies, whichever fork or    *)
(* exec fails and whoever is killed or fails in a group call, every        *)
(* process holds exactly the files and the ends of its place.              *)
(***************************************************************************)
THEOREM TablesExactHolds == Spec => []TablesExact
  <1> DEFINE Both == TypeOK /\ TablesExact
  <1>1. Init => Both
    BY TypedInit, TablesInit
  <1>2. Both /\ [Next]_vars => Both'
    <2> SUFFICES ASSUME TypeOK, TablesExact, [Next]_vars  PROVE TablesExact'
      BY TypedStep
    <2>1. CASE UNCHANGED vars
      BY <2>1 DEF vars, TablesExact
    <2> QED
      BY <2>1, LauncherKeepsTables, CopyKeepsTables DEF Next
  <1>3. Both => TablesExact
    OBVIOUS
  <1> QED
    BY <1>1, <1>2, <1>3, PTL DEF Spec

(***************************************************************************)
(* RightEndsHold: a program starts with the ends the library expects for   *)
(* its rank at the numbers the library computes, and keeps them.           *)
(***************************************************************************)
LEMMA AllOwned ==
    ASSUME NEW k \in Ranks
    PROVE  OwnEntries(Entries, k) = LibraryPoint(k) \cup LibraryTree(k) \cup LibraryDirect(k)
  <1>1. OwnEntries(Entries, k) = OwnEntries(PointEntries, k)
                                 \cup OwnEntries(TreeEntries, k) \cup OwnEntries(DirectEntries, k)
    BY DEF OwnEntries, Entries
  <1> QED
    BY <1>1, PointOwned, TreeOwned, DirectOwned

THEOREM RightEndsHold == Spec => []RightEnds
  <1>1. TablesExact => RightEnds
    <2> SUFFICES ASSUME TablesExact, NEW k \in Ranks
                 PROVE  LET kept == FileEntries \cup LibraryPoint(k)
                            all == kept \cup LibraryTree(k) \cup LibraryDirect(k)
                        IN /\ at[k] = "exec" => table[k] = all
                           /\ at[k] = "running" => table[k] \in {all, kept}
      BY DEF RightEnds
    <2> DEFINE kept == FileEntries \cup LibraryPoint(k)
               all == kept \cup LibraryTree(k) \cup LibraryDirect(k)
    <2>1. /\ FileEntries \cup OwnEntries(Entries, k) = all
          /\ FileEntries \cup OwnEntries(PointEntries, k) = kept
      BY AllOwned, PointOwned
    <2>2. at[k] = "exec" => table[k] = FileEntries \cup OwnEntries(Entries, k)
      BY DEF TablesExact, ChildHolds, NoTable
    <2>3. at[k] = "running" => table[k] \in {FileEntries \cup OwnEntries(Entries, k),
                                             FileEntries \cup OwnEntries(PointEntries, k)}
      BY DEF TablesExact, ChildHolds, NoTable
    <2> HIDE DEF kept, all
    <2>4. (at[k] = "exec" => table[k] = all) /\ (at[k] = "running" => table[k] \in {all, kept})
      BY <2>1, <2>2, <2>3
    <2> QED
      BY <2>4 DEF kept, all
  <1> QED
    BY <1>1, TablesExactHolds, PTL

(***************************************************************************)
(* NoEarlyEofHolds: nobody's writes fail and nobody reads an end of file   *)
(* on a pipe whose other owner is still to be born, starts or runs, also   *)
(* when mimpirun could not fork the ranks after it.                        *)
(***************************************************************************)
LEMMA OwnersAreRanks ==
    ASSUME NEW x \in Entries
    PROVE  Owner(x[2]) \in Ranks /\ (x[2].kind = "point" => x \in PointEntries)
  <1>1. CASE x \in PointEntries
    <2>1. PICK ij \in Pairs : \/ x = <<PointRead(ij[1], ij[2]), ReadEnd("point", ij[1], ij[2])>>
                              \/ x = <<PointWrite(ij[1], ij[2]), WriteEnd("point", ij[1], ij[2])>>
      BY <1>1 DEF PointEntries
    <2>2. Owner(x[2]) = ij[1] \/ Owner(x[2]) = ij[2]
      BY <2>1 DEF Owner, ReadEnd, WriteEnd
    <2> QED
      BY <1>1, <2>2 DEF Pairs
  <1>2. CASE x \in TreeEntries
    <2> PICK me \in Nodes : \E s \in Slots(me) : x = SlotReadEntry(me, s) \/ x = SlotWriteEntry(me, s)
      BY <1>2, TreeByNode
    <2>1. PICK s \in Slots(me) : x = SlotReadEntry(me, s) \/ x = SlotWriteEntry(me, s)
      OBVIOUS
    <2>2. Owner(x[2]) = me - 1 /\ x[2].kind = "tree"
      BY <2>1 DEF SlotReadEntry, SlotWriteEntry, Owner, ReadEnd, WriteEnd
    <2>3. me - 1 \in Ranks
      BY CopiesAssumption DEF Nodes, Ranks
    <2> QED
      BY <2>2, <2>3
  <1>3. CASE x \in DirectEntries
    <2>1. PICK me \in 2 .. N : x \in SpokeEntries(me)
      BY <1>3 DEF DirectEntries
    <2>2. (Owner(x[2]) = 0 \/ Owner(x[2]) = me - 1) /\ x[2].kind = "direct"
      BY <2>1 DEF SpokeEntries, Owner, ReadEnd, WriteEnd
    <2>3. 0 \in Ranks /\ me - 1 \in Ranks
      BY CopiesAssumption DEF Ranks
    <2> QED
      BY <2>2, <2>3
  <1> QED
    BY <1>1, <1>2, <1>3 DEF Entries

THEOREM NoEarlyEofHolds == Spec => []NoEarlyEof
  <1>1. TablesExact => NoEarlyEof
    <2> SUFFICES ASSUME TablesExact,
                        NEW x \in Entries,
                        \/ ToBeBorn(Owner(x[2]))
                        \/ at[Owner(x[2])] \in Starting
                        \/ at[Owner(x[2])] = "running" /\ x[2].kind = "point"
                 PROVE  \E p \in Procs : x \in table[p]
      BY DEF NoEarlyEof, Ends, Held
    <2> DEFINE k == Owner(x[2])
    <2>1. k \in Ranks /\ (x[2].kind = "point" => x \in PointEntries)
      BY OwnersAreRanks
    <2>2. CASE at[k] = "unborn"
      <3>1. at[Main] = "forking"
        BY <2>1, <2>2 DEF TablesExact, ToBeBorn, Starting
      <3>2. x \in table[Main]
        BY <3>1 DEF TablesExact, LauncherHolds
      <3> QED
        BY <3>2, ProcsApart
    <2>3. CASE at[k] # "unborn"
      <3>1. at[k] \in {"prunePoint", "pruneTree", "pruneDirect", "exec", "running"}
        BY <2>3 DEF Starting, ToBeBorn
      <3>2. x \in OwnEntries(Entries, k)
        BY DEF OwnEntries
      <3>3. at[k] = "running" => x \in OwnEntries(PointEntries, k)
        BY <2>1 DEF OwnEntries, Starting, ToBeBorn
      <3>4. \A holds \in ChildHolds(k, at[k]) : x \in holds
        <4>1. /\ OwnEntries(Entries, k) \subseteq Entries
              /\ x \in OwnEntries(PointEntries, k) \cup TreeEntries \cup DirectEntries
              /\ x \in OwnEntries(PointEntries \cup TreeEntries, k) \cup DirectEntries
          BY <3>2 DEF OwnEntries, Entries
        <4> HIDE DEF k
        <4> QED
          BY <3>1, <3>2, <3>3, <4>1 DEF ChildHolds
      <3>5. PICK holds \in ChildHolds(k, at[k]) : table[k] = FileEntries \cup holds
        BY <2>1, <3>1 DEF TablesExact, NoTable
      <3> QED
        BY <2>1, <3>4, <3>5, ProcsApart
    <2> QED
      BY <2>2, <2>3
  <1> QED
    BY <1>1, TablesExactHolds, PTL

(***************************************************************************)
(* FinalizeReleasesHolds: MIMPI_Finalize leaves a program with the files   *)
(* mimpirun was given and nothing else, although none of its closes is     *)
(* asserted and some of them run twice.                                    *)
(***************************************************************************)
THEOREM FinalizeReleasesHolds == Spec => []FinalizeReleases
  <1>1. TablesExact => FinalizeReleases
    BY DEF TablesExact, FinalizeReleases, ChildHolds, NoTable
  <1> QED
    BY <1>1, TablesExactHolds, PTL
=============================================================================
