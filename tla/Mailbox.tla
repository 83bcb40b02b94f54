------------------------------ MODULE Mailbox -------------------------------
(***************************************************************************)
(* What MIMPI_Send, MIMPI_Recv and MIMPI_Finalize promise their callers.   *)
(*                                                                         *)
(* There are no threads, pipes, packets or locks here.  Every ordered pair *)
(* of processes has a box of whole messages.  A successful MIMPI_Send puts *)
(* one message at its end.  A successful MIMPI_Recv takes the first one of *)
(* the right count and tag.  MIMPI_Recv reports ERROR_REMOTE_FINISHED only *)
(* when the sender is gone and no message of the box will do; MIMPI_Send   *)
(* only when the receiver is gone.  MIMPI_Finalize returns only when every *)
(* other process has stopped sending.                                      *)
(***************************************************************************)
EXTENDS Messages

VARIABLES
    phase,      \* what p is doing
    call,       \* p's call in progress, or the last one made
    calls,      \* how many calls p has made; also the payload p sends
    ret,        \* return code of p's last call, and the data it received
    box,        \* messages sent along a link and not yet received
    open,       \* the sender can still put messages into the box
    attended    \* the receiver has not left

vars == <<phase, call, calls, ret, box, open, attended>>

Out(p) == <<call[p].peer, p>>
In(p) == <<p, call[p].peer>>

Init ==
    /\ phase = [p \in Ranks |-> "outside"]
    /\ call = [p \in Ranks |-> NoCall]
    /\ calls = [p \in Ranks |-> 0]
    /\ ret = [p \in Ranks |-> NoRet]
    /\ box = [l \in Links |-> <<>>]
    /\ open = [l \in Links |-> TRUE]
    /\ attended = [l \in Links |-> TRUE]

Become(p, x) == phase' = [phase EXCEPT ![p] = x]
Finish(p, result) == Become(p, "idle") /\ ret' = [ret EXCEPT ![p] = result]

Enter(p) ==
    /\ phase[p] = "outside"
    /\ Become(p, "idle")
    /\ UNCHANGED <<call, calls, ret, box, open, attended>>

Invoke(p) == \E c \in Calls :
    /\ phase[p] = "idle" /\ c.by = p /\ calls[p] < MaxCalls[p]
    /\ call' = [call EXCEPT ![p] = c]
    /\ calls' = [calls EXCEPT ![p] = @ + 1]
    /\ IF Rejection(c) = "NONE"
       THEN /\ Become(p, IF c.op = "send" THEN "sending" ELSE "receiving")
            /\ ret' = [ret EXCEPT ![p] = NoRet]
       ELSE Finish(p, Return(Rejection(c)))
    /\ UNCHANGED <<box, open, attended>>

\* The message a MIMPI_Send of p puts into the box.
Posted(p) ==
    [count |-> call[p].count, tag |-> call[p].tag,
     data |-> [i \in 1 .. call[p].count |-> calls[p]]]

Send(p) ==
    /\ phase[p] = "sending" /\ attended[Out(p)]
    /\ box' = [box EXCEPT ![Out(p)] = Append(@, Posted(p))]
    /\ Finish(p, Return("SUCCESS"))
    /\ UNCHANGED <<call, calls, open, attended>>

SendFails(p) ==
    /\ phase[p] = "sending" /\ ~attended[Out(p)]
    /\ Finish(p, Return("ERROR_REMOTE_FINISHED"))
    /\ UNCHANGED <<call, calls, box, open, attended>>

Receive(p) ==
    /\ phase[p] = "receiving" /\ HasMatch(box[In(p)], call[p])
    /\ LET i == FirstMatch(box[In(p)], call[p]) IN
        /\ box' = [box EXCEPT ![In(p)] = RemoveAt(@, i)]
        /\ Finish(p, [code |-> "SUCCESS", data |-> box[In(p)][i].data])
    /\ UNCHANGED <<call, calls, open, attended>>

ReceiveFails(p) ==
    /\ phase[p] = "receiving"
    /\ ~open[In(p)] /\ ~HasMatch(box[In(p)], call[p])
    /\ Finish(p, Return("ERROR_REMOTE_FINISHED"))
    /\ UNCHANGED <<call, calls, box, open, attended>>

StartLeaving(p) ==
    /\ phase[p] = "idle"
    /\ Become(p, "leaving")
    /\ UNCHANGED <<call, calls, ret, box, open, attended>>

Close(l) ==
    /\ phase[Sender(l)] = "leaving"
    /\ open' = [open EXCEPT ![l] = FALSE]
    /\ UNCHANGED <<phase, call, calls, ret, box, attended>>

\* The boxes p leaves behind are emptied.
Abandon(p) ==
    /\ box' = [l \in Links |-> IF Receiver(l) = p THEN <<>> ELSE box[l]]
    /\ attended' = [l \in Links |-> attended[l] /\ Receiver(l) # p]

Leave(p) ==
    /\ phase[p] = "leaving" /\ \A l \in Links : p \in {l[1], l[2]} => ~open[l]
    /\ Become(p, "left")
    /\ Abandon(p)
    /\ UNCHANGED <<call, calls, ret, open>>

Vanish(p) ==
    /\ p \in Mortal /\ phase[p] \notin {"left", "dead"}
    /\ Become(p, "dead")
    /\ open' = [l \in Links |-> open[l] /\ Sender(l) # p]
    /\ Abandon(p)
    /\ UNCHANGED <<call, calls, ret>>

Next ==
    \/ \E p \in Ranks :
        \/ Enter(p) \/ Invoke(p) \/ Send(p) \/ SendFails(p)
        \/ Receive(p) \/ ReceiveFails(p) \/ StartLeaving(p) \/ Leave(p) \/ Vanish(p)
    \/ \E l \in Links : Close(l)

Spec == Init /\ [][Next]_vars
=============================================================================
