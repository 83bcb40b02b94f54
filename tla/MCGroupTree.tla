---------------------------- MODULE MCGroupTree -----------------------------
(***************************************************************************)
(* Instances of GroupTreeOrder for TLC.                                    *)
(***************************************************************************)
EXTENDS GroupTreeOrder

Barrier == [kind |-> "barrier", count |-> 0, root |-> 0, op |-> "MAX"]
Bcast(count, root) == [kind |-> "bcast", count |-> count, root |-> root, op |-> "MAX"]
Reduce(count, root, op) == [kind |-> "reduce", count |-> count, root |-> root, op |-> op]

\* The programs' bytes: sums and products of them wrap around, and neither the
\* first process nor the last has the smallest or the largest.
Bytes == <<200, 3, 77, 250, 13>>
ThreeBytes == <<200, 3, 77>>

\* Programs in which every kind of call follows every other, with roots at the
\* top, in the middle and at the bottom of the tree, and all the operations of
\* Reduce; in the last one a call is rejected.
Programs == {
    <<Barrier, Barrier, Reduce(1, 3, "SUM"), Barrier>>,
    <<Bcast(2, 3), Bcast(1, 1), Reduce(2, 1, "PROD")>>,
    <<Reduce(1, 4, "MIN"), Reduce(1, 0, "MAX"), Bcast(1, 0), Barrier>>,
    <<Bcast(1, 5), Barrier, Bcast(1, 2)>>}

\* Calls that move no data.
EmptyCalls == {<<Bcast(0, 1), Barrier>>, <<Reduce(0, 1, "SUM"), Bcast(1, 2)>>}

ThreeBarriers == {<<Barrier, Barrier, Barrier>>}
=============================================================================
