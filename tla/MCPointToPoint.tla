--------------------------- MODULE MCPointToPoint ---------------------------
(***************************************************************************)
(* Instances of PointToPointCorrect for TLC.                               *)
(***************************************************************************)
EXTENDS PointToPointCorrect

SendCall(by, peer, count, tag) ==
    [by |-> by, op |-> "send", peer |-> peer, count |-> count, tag |-> tag]
RecvCall(by, peer, count, tag) ==
    [by |-> by, op |-> "recv", peer |-> peer, count |-> count, tag |-> tag]

\* Two processes.  0 sends messages that differ in tag and count, 1 asks for
\* them by tag, by count and by any tag; each makes a call that is rejected.
PairCalls ==
    {SendCall(0, 1, 0, 1), SendCall(0, 1, 2, 1), SendCall(0, 1, 2, 2),
     RecvCall(1, 0, 2, 2), RecvCall(1, 0, 2, MIMPI_ANY_TAG), RecvCall(1, 0, 0, 1),
     RecvCall(0, 0, 0, 1), SendCall(1, 2, 0, 1)}

\* Three processes.  0 receives from 1 and from 2 with one condition variable
\* and one flag for both.
TrioCalls ==
    {SendCall(1, 0, 0, 1), SendCall(2, 0, 0, 1),
     RecvCall(0, 1, 0, 1), RecvCall(0, 2, 0, MIMPI_ANY_TAG)}

\* Two processes that send to each other and receive from each other.
MutualCalls ==
    {SendCall(0, 1, 1, 1), RecvCall(0, 1, 1, 1),
     SendCall(1, 0, 1, 1), RecvCall(1, 0, 1, 1)}

OneEach == [p \in Ranks |-> 1]
TwoEach == [p \in Ranks |-> 2]
ThreeEach == [p \in Ranks |-> 3]
ReceiverTwoSendersOne == [p \in Ranks |-> IF p = 0 THEN 2 ELSE 1]
=============================================================================
