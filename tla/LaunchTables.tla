---------------------------- MODULE LaunchTables ----------------------------
(***************************************************************************)
(* What the descriptor table of every process is, number by number, at     *)
(* every place of its program: the inductive invariant behind RightEnds,   *)
(* NoEarlyEof and FinalizeReleases of LaunchCorrect.                       *)
(***************************************************************************)
EXTENDS LaunchCorrect

\* The entries that rank k needs, and of its point-to-point ends those it
\* reads from.
OwnEntries(entries, k) == {x \in entries : Owner(x[2]) = k}
OwnReads(k) == {x \in OwnEntries(PointEntries, k) : x[2].side = "read"}

\* What mimpirun holds besides the files.
LauncherHolds(place) ==
    CASE place = "openTree" -> PointEntries
      [] place = "openDirect" -> PointEntries \cup TreeEntries
      [] place \in {"forking", "closeTree"} -> Entries
      [] place = "closePoint" -> PointEntries \cup DirectEntries
      [] place = "closeDirect" -> DirectEntries
      [] OTHER -> {}

\* What rank k holds besides the files.  Only a program that runs is free to
\* do one thing or the other: a failed group call closes the group pipes.
ChildHolds(k, place) ==
    CASE place = "prunePoint" -> {Entries}
      [] place = "pruneTree" -> {OwnEntries(PointEntries, k) \cup TreeEntries \cup DirectEntries}
      [] place = "pruneDirect" -> {OwnEntries(PointEntries \cup TreeEntries, k) \cup DirectEntries}
      [] place = "exec" -> {OwnEntries(Entries, k)}
      [] place = "running" -> {OwnEntries(Entries, k), OwnEntries(PointEntries, k)}
      [] place = "closing" -> {OwnEntries(PointEntries, k)}
      [] place \in {"joining", "joined"} -> {OwnReads(k)}
      [] OTHER -> {{}}

NoTable == {"unborn", "ended", "reaped"}

(***************************************************************************)
(* TablesExact: until it has gone, every process holds the files, the ends *)
(* it needs, those it has opened or inherited and not yet given up, and    *)
(* nothing else; and mimpirun stops forking only when all are born, or     *)
(* when it fails.                                                          *)
(***************************************************************************)
TablesExact ==
    /\ at[Main] # "ended" => table[Main] = FileEntries \cup LauncherHolds(at[Main])
    /\ \A k \in Ranks :
        /\ IF at[k] \in NoTable
           THEN table[k] = {}
           ELSE \E holds \in ChildHolds(k, at[k]) : table[k] = FileEntries \cup holds
        /\ at[k] = "unborn" => at[Main] \in {"openPoint", "openTree", "openDirect", "forking", "ended"}
=============================================================================
