------------------------------ MODULE Messages ------------------------------
(***************************************************************************)
(* What Mailbox and PointToPoint have in common: the processes, the links  *)
(* between them, the calls a program makes and the rule by which a message *)
(* answers a MIMPI_Recv.                                                   *)
(***************************************************************************)
EXTENDS Integers, Sequences, FiniteSets, SequencesExt

CONSTANTS
    N,          \* the number of processes, MIMPI_World_size()
    Calls,      \* the calls the program makes: who, what, with which arguments
    MaxCalls,   \* bound: how many calls each process makes at most
    Mortal      \* the processes that may die without MIMPI_Finalize

Ranks == 0 .. N - 1
Links == {l \in Ranks \X Ranks : l[1] # l[2]}
MIMPI_ANY_TAG == 0

ASSUME SizesAssumption == N \in Nat \ {0} /\ MaxCalls \in [Ranks -> Nat]
ASSUME CallsAssumption ==
    Calls \subseteq [by: Ranks, op: {"send", "recv"}, peer: Int, count: Nat, tag: Nat]
ASSUME MortalAssumption == Mortal \subseteq Ranks

\* The link <<i, j>> carries the messages from j to i.
Receiver(l) == l[1]
Sender(l) == l[2]
Outgoing(p) == {l \in Links : Sender(l) = p}
Incoming(p) == {l \in Links : Receiver(l) = p}

\* The argument checks at the head of MIMPI_Send and MIMPI_Recv.
\* Mutant: off by one.
RejectionLate(c) ==
    IF c.peer = c.by THEN "ERROR_ATTEMPTED_SELF_OP"
    ELSE IF c.peer > N \/ c.peer < 0 THEN "ERROR_NO_SUCH_RANK"
    ELSE "NONE"

Rejection(c) ==
    IF c.peer = c.by THEN "ERROR_ATTEMPTED_SELF_OP"
    ELSE IF c.peer >= N \/ c.peer < 0 THEN "ERROR_NO_SUCH_RANK"
    ELSE "NONE"

\* Message m answers the MIMPI_Recv c; the first message of s that does, or 0.
Matches(m, c) == m.count = c.count /\ (c.tag = MIMPI_ANY_TAG \/ m.tag = c.tag)
HasMatch(s, c) == \E i \in 1 .. Len(s) : Matches(s[i], c)
FirstMatch(s, c) == SelectInSeq(s, LAMBDA m : Matches(m, c))

NoCall == [by |-> 0, op |-> "none", peer |-> -1, count |-> 0, tag |-> 0]
NoRet == [code |-> "NONE", data |-> <<>>]
Return(code) == [code |-> code, data |-> <<>>]
=============================================================================
