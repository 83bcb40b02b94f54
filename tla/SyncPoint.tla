----------------------------- MODULE SyncPoint ------------------------------
(***************************************************************************)
(* What the group operations promise as synchronisation points: a call     *)
(* succeeds only when every process has begun it, and it fails only when   *)
(* a process has gone without beginning it, or has died.                   *)
(***************************************************************************)
EXTENDS Integers

CONSTANT
    Procs       \* the processes

VARIABLES
    entered,    \* how many calls the process has begun
    passed,     \* the last one of them that succeeded
    where       \* "outside" a call, "inside" one, "left", or "dead"

vars == <<entered, passed, where>>

Init ==
    /\ entered = [p \in Procs |-> 0]
    /\ passed = [p \in Procs |-> 0]
    /\ where = [p \in Procs |-> "outside"]

Move(p, x) == where' = [where EXCEPT ![p] = x]

Enter(p) ==
    /\ where[p] = "outside"
    /\ entered' = [entered EXCEPT ![p] = @ + 1]
    /\ Move(p, "inside")
    /\ UNCHANGED passed

\* A call with an impossible argument does not synchronise.
Skip(p) ==
    /\ where[p] = "outside"
    /\ entered' = [entered EXCEPT ![p] = @ + 1]
    /\ UNCHANGED <<passed, where>>

Pass(p) ==
    /\ where[p] = "inside"
    /\ \A q \in Procs : entered[q] >= entered[p]
    /\ passed' = [passed EXCEPT ![p] = entered[p]]
    /\ Move(p, "outside")
    /\ UNCHANGED entered

\* Process q will never complete the call that p is in.
Missing(q, p) == where[q] = "dead" \/ (where[q] = "left" /\ entered[q] < entered[p])

Fail(p) ==
    /\ where[p] = "inside"
    /\ \E q \in Procs : Missing(q, p)
    /\ Move(p, "outside")
    /\ UNCHANGED <<entered, passed>>

Leave(p) ==
    /\ where[p] = "outside"
    /\ Move(p, "left")
    /\ UNCHANGED <<entered, passed>>

Die(p) ==
    /\ where[p] \in {"outside", "inside"}
    /\ Move(p, "dead")
    /\ UNCHANGED <<entered, passed>>

Next == \E p \in Procs :
    Enter(p) \/ Skip(p) \/ Pass(p) \/ Fail(p) \/ Leave(p) \/ Die(p)

Spec == Init /\ [][Next]_vars
=============================================================================
