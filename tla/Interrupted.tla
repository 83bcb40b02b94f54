----------------------------- MODULE Interrupted -----------------------------
(***************************************************************************)
(* PointToPoint in programs that handle a signal without SA_RESTART: a     *)
(* read or a write that blocks fails with EINTR.  The tryToPoint helpers   *)
(* make the call again inside ASSERT_SYS_OK, and then return the -1 of the *)
(* first one, which their callers take for the end of the peer.            *)
(*                                                                         *)
(* The instances make one call a process: a MIMPI_Send that follows one    *)
(* that failed halfway would write into the middle of its message, and     *)
(* packets, unlike the bytes in the code, do not run into each other.      *)
(***************************************************************************)
EXTENDS PointToPointCorrect

CONSTANT Interruptible      \* the processes that handle such a signal

VARIABLE retrying           \* the threads whose call is made again

interruptedVars == <<vars, retrying>>

\* A Reader is known by its link, the main thread of p by <<p, p>>.
MainThread(p) == <<p, p>>
ThreadsOf(p) == {MainThread(p)} \cup Incoming(p)

InterruptedInit == Init /\ retrying = {}

Interrupt(thread) ==
    /\ thread \notin retrying /\ thread[1] \in Interruptible
    /\ retrying' = retrying \cup {thread}
    /\ UNCHANGED vars

WriteInterrupted(p) ==
    /\ pc[p] \in InSend /\ ropen[Out(p)] /\ Len(pipe[Out(p)]) = PipeCap
    /\ Interrupt(MainThread(p))

ReadInterrupted(l) ==
    /\ rpc[l] \in {"count", "data", "tag"} /\ pipe[l] = <<>> /\ wopen[l]
    /\ Interrupt(l)

NextPacket(p) ==
    CASE pc[p] = "send_count" -> Packet("count", call[p].count)
      [] pc[p] = "send_data" -> Packet("chunk", calls[p])
      [] OTHER -> Packet("tag", call[p].tag)

\* The packet is written all the same.
WriteAgain(p) ==
    /\ MainThread(p) \in retrying
    /\ Write(Out(p), NextPacket(p))
    /\ Finish(p, Return("ERROR_REMOTE_FINISHED"))
    /\ retrying' = retrying \ {MainThread(p)}
    /\ UNCHANGED <<call, calls, sent, wopen, ropen, threadVars, sharedVars>>

\* The packet is lost, or there is none: 0 is not an error for ASSERT_SYS_OK.
ReadAgain(l) ==
    /\ l \in retrying
    /\ Read(l) \/ (AtEof(l) /\ UNCHANGED pipe)
    /\ rbuf' = [rbuf EXCEPT ![l] = NoBuf]
    /\ ReaderAt(l, "cleanup")
    /\ retrying' = retrying \ {l}
    /\ UNCHANGED <<mainVars, wopen, ropen, sharedVars>>

\* Interrupted again, or EPIPE: ASSERT_SYS_OK ends the process.
AgainFails(p) ==
    /\ \/ \E thread \in ThreadsOf(p) \cap retrying : p \in Interruptible
       \/ MainThread(p) \in retrying /\ ~ropen[Out(p)]
    /\ Goto(p, "dead")
    /\ wopen' = [l \in Links |-> wopen[l] /\ l \notin Outgoing(p)]
    /\ Release(p)
    /\ rpc' = [l \in Links |-> IF l \in Incoming(p) THEN "dead" ELSE rpc[l]]
    /\ rbuf' = [l \in Links |-> IF l \in Incoming(p) THEN NoBuf ELSE rbuf[l]]
    /\ retrying' = retrying \ ThreadsOf(p)
    /\ UNCHANGED <<call, calls, sent, ret, mutex_list, waiting_for, added, has_finished>>

InterruptedNext ==
    \/ \E p \in Ranks :
        \/ MainThread(p) \notin retrying /\ MainStep(p) /\ UNCHANGED retrying
        \/ /\ UserStep(p)
           /\ retrying' = IF pc'[p] = "dead" THEN retrying \ ThreadsOf(p) ELSE retrying
        \/ WriteInterrupted(p) \/ WriteAgain(p) \/ AgainFails(p)
    \/ \E l \in Links :
        \/ l \notin retrying /\ ReaderStep(l) /\ UNCHANGED retrying
        \/ ReadInterrupted(l) \/ ReadAgain(l)

InterruptedSpec == InterruptedInit /\ [][InterruptedNext]_interruptedVars

(***************************************************************************)
(* What the documentation promises and the code does not do.               *)
(***************************************************************************)
\* mimpi.h:69-70 and 94-95: MIMPI_Send and MIMPI_Recv return
\* ERROR_REMOTE_FINISHED if the peer "has already escaped MPI block", and so
\* not while it is in it.
RemoteFinishedMeansGone ==
    \A p \in Ranks :
        pc[p] = "user" /\ ret[p].code = "ERROR_REMOTE_FINISHED" =>
            pc[call[p].peer] \in {"closing", "closed", "dead"}
=============================================================================
