---------------------------- MODULE LaunchCorrect ----------------------------
(***************************************************************************)
(* What makes mimpirun and the library agree about descriptors, and the    *)
(* ends of pipes mean what the library takes them for.                     *)
(***************************************************************************)
EXTENDS Launch

(***************************************************************************)
(* NothingOverwritten: when mimpirun has opened all its pipes, it holds    *)
(* every end of every one of them and the files it was given, each at a    *)
(* number of its own; no dup2 has fallen on a number in use, and all       *)
(* numbers are in the range mimpirun may use (assignment_EN.md:256-261).   *)
(* What this hangs on is NumbersApart, a fact about the formulas.          *)
(***************************************************************************)
NumbersApart ==
    /\ \A a, b \in Entries : a[1] = b[1] => a = b
    /\ Numbers(Entries) \subseteq 20 .. DescriptorLimit - 1

NothingOverwritten ==
    at[Main] = "forking" =>
        /\ table[Main] = FileEntries \cup Entries
        /\ \A a, b \in table[Main] : a[1] = b[1] => a = b
        /\ Numbers(Entries) \subseteq 20 .. DescriptorLimit - 1

(***************************************************************************)
(* ClosesOpenOnly: every close of mimpirun and its children finds its      *)
(* descriptor open; none of them is ended by ASSERT_SYS_OK, whatever ran   *)
(* before.  The three loops of a child undo exactly what the three loops   *)
(* of main did, except for the child's own ends.  A failed exec ends a     *)
(* process with the same code 1, so what counts is the table in the loop.  *)
(***************************************************************************)
\* The numbers that the loop a process is in closes with an assertion.
AssertedByChild(k) ==
    CASE at[k] = "prunePoint" -> PointPrune(k)
      [] at[k] = "pruneTree" -> TreePrune(k)
      [] at[k] = "pruneDirect" -> DirectPrune(k)
      [] OTHER -> {}
AssertedByMain ==
    CASE at[Main] = "closeTree" -> Numbers(TreeEntries)
      [] at[Main] = "closePoint" -> Numbers(PointEntries)
      [] at[Main] = "closeDirect" -> Numbers(DirectEntries)
      [] OTHER -> {}

ClosesOpenOnly ==
    /\ \A k \in Ranks : AssertedByChild(k) \subseteq Numbers(table[k])
    /\ AssertedByMain \subseteq Numbers(table[Main])
    /\ \A p \in Procs : code[p] = 1 => p \in ExecMayFail /\ at[p] \in {"ended", "reaped"}

(***************************************************************************)
(* RightEnds: a program starts with the files mimpirun was given and, at   *)
(* the numbers the library computes for its rank, the ends it expects      *)
(* there.  The formulas for numbers are the same text in both sources and  *)
(* the same operators here; what is compared is the indices and slots that *)
(* the loops of mimpirun leave to a rank with those the library uses.      *)
(* They stay as they are until the library closes them, except for the     *)
(* group pipes, which a failed call closes.                                *)
(***************************************************************************)
LibraryPoint(k) ==
    {<<PointRead(k, i), ReadEnd("point", k, i)>> : i \in Ranks \ {k}}
    \cup {<<PointWrite(i, k), WriteEnd("point", i, k)>> : i \in Ranks \ {k}}

LibraryTree(k) ==
    LET me == k + 1 IN
    {<<GroupRead(me, s), ReadEnd("tree", k, ChildNode(me, s) - 1)>> : s \in Slots(me) \ {0}}
    \cup {<<GroupWrite(me, s), WriteEnd("tree", ChildNode(me, s) - 1, k)>> : s \in Slots(me) \ {0}}
    \cup IF me = 1 THEN {}
         ELSE {<<GroupRead(me, 0), ReadEnd("tree", k, me \div 2 - 1)>>,
               <<GroupWrite(me, 0), WriteEnd("tree", me \div 2 - 1, k)>>}

LibraryDirect(k) ==
    IF k = 0
    THEN {<<Direct(i + 1, 1), ReadEnd("direct", 0, i)>> : i \in Ranks \ {0}}
         \cup {<<Direct(i + 1, 0), WriteEnd("direct", i, 0)>> : i \in Ranks \ {0}}
    ELSE {<<Direct(k + 1, 3), ReadEnd("direct", k, 0)>>,
          <<Direct(k + 1, 2), WriteEnd("direct", 0, k)>>}

RightEnds ==
    \A k \in Ranks :
        LET kept == FileEntries \cup LibraryPoint(k)
            all == kept \cup LibraryTree(k) \cup LibraryDirect(k)
        IN /\ at[k] = "exec" => table[k] = all
           /\ at[k] = "running" => table[k] \in {all, kept}

(***************************************************************************)
(* NoEarlyEof: an end is not lost before its owner gives it up: as long as *)
(* the owner is still to be born, starts or runs, somebody holds it, so    *)
(* that nobody sees the end of its pipe, and nobody's write to it fails.   *)
(* When a fork fails, only the ranks that were never born lose their ends. *)
(***************************************************************************)
ToBeBorn(k) == at[k] = "unborn" /\ at[Main] \notin {"openPoint", "openTree", "openDirect", "ended"}
Starting == {"prunePoint", "pruneTree", "pruneDirect", "exec"}

NoEarlyEof ==
    {e \in Ends : \/ ToBeBorn(Owner(e))
                  \/ at[Owner(e)] \in Starting
                  \/ at[Owner(e)] = "running" /\ e.kind = "point"} \subseteq Held

(***************************************************************************)
(* FinalizeReleases: MIMPI_Finalize leaves the program with the files      *)
(* mimpirun was given and no descriptor more (mimpi.h:38, "freeing all     *)
(* MIMPI-related resources").  Its closes are not asserted, so none of     *)
(* them says that it missed its end.                                       *)
(***************************************************************************)
FinalizeReleases == \A k \in Ranks : at[k] = "finalized" => table[k] = FileEntries

(***************************************************************************)
(* WaitsForAll: mimpirun returns 0 only when it has launched all the       *)
(* copies and all of them have ended (assignment_EN.md:18-21).             *)
(***************************************************************************)
WaitsForAll == code[Main] = 0 => \A k \in Ranks : code[k] # Running

(***************************************************************************)
(* EofVisible: under FairSpec, when a process has given up its writing     *)
(* ends, or has gone, in the end no copy of them is left in mimpirun or in *)
(* a slow child, and its readers see the end of the pipes, even if other   *)
(* programs run for ever.  What is given up stays so, hence "in the end".  *)
(***************************************************************************)
GaveUp(k) == at[k] \in {"joining", "joined", "finalized", "ended", "reaped"}

EofVisible == <>[](\A e \in Held : e \in Ends /\ e.side = "write" => ~GaveUp(e.writer))

(***************************************************************************)
(* JobEnds: under FairSpec, if no program runs for ever the whole job      *)
(* comes to its end: no process waits in MIMPI_Finalize, and mimpirun in   *)
(* wait, for an end of a pipe that another one holds open, even if some    *)
(* copies are killed or never start.                                       *)
(***************************************************************************)
ProgramsEnd == \A k \in Ranks : []<>(at[k] \notin {"running", "finalized"})

JobEnds == ProgramsEnd => <>(\A p \in Procs : at[p] \in {"unborn", "ended", "reaped"})

(***************************************************************************)
(* What the documentation promises and the code does not do.               *)
(***************************************************************************)
\* assignment_EN.md:13: "If the appropriate exec call fails (e.g., due to an
\* incorrect path), mimpirun should terminate with a non-zero exit code."
ExecFailureReported == code[Main] = 0 => \A k \in Ranks : code[k] # 1
=============================================================================
