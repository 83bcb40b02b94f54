------------------------ MODULE PointToPointCorrect -------------------------
(***************************************************************************)
(* What makes PointToPoint correct: the invariants of the handshake        *)
(* between a Reader and the main thread, the refinement of Mailbox, and    *)
(* what the threads must eventually do.                                    *)
(***************************************************************************)
EXTENDS PointToPoint

Alive(p) == pc[p] # "dead"

\* The wait of p's main thread in waitForMessage, and its part after the last
\* look at the condition and before or inside pthread_cond_wait.
Waiting(p) == pc[p] \in InWait
Asleep(p) == pc[p] \in {"sleep", "blocked"}
Answered(p) == HasMatch(list[In(p)], call[p])

(***************************************************************************)
(* AddedMeansMatch: the flag `added', which Readers set for the main       *)
(* thread (mimpi_common.c:362), is up only during a wait, and then a       *)
(* message that the wait is for is in the list.  Search relies on it: its  *)
(* second scan (435-442) takes the node it stops at unseen, so a stale     *)
(* flag would hand over a wrong message, or the guard of an empty list.    *)
(***************************************************************************)
AddedMeansMatch ==
    \A p \in Ranks : Alive(p) /\ added[p] => Waiting(p) /\ Answered(p)

(***************************************************************************)
(* NoLostMessageWakeup: a main thread is never about to block, or blocked, *)
(* while a message it waits for is in the list -- unless the Reader that   *)
(* added it still holds the mutex and is about to signal                   *)
(* (mimpi_common.c:343-369 against 381-387).                               *)
(***************************************************************************)
NoLostMessageWakeup ==
    \A p \in Ranks : Asleep(p) /\ Answered(p) =>
        pc[p] = "blocked" /\ rpc[In(p)] = "notify"

(***************************************************************************)
(* FinishedMeansDrained: a peer counts as finished only when all it sent   *)
(* has been listed: its end of the pipe is closed, the pipe empty, and the *)
(* Reader past its last read.  ERROR_REMOTE_FINISHED (mimpi_common.c:397)  *)
(* is returned on this flag while the list is held.                        *)
(***************************************************************************)
FinishedMeansDrained ==
    \A l \in Links : has_finished[l] /\ Alive(Receiver(l)) =>
        /\ ~wopen[l] /\ pipe[l] = <<>>
        /\ rpc[l] \in {"finished", "signal", "exit"}

(***************************************************************************)
(* ReadersStopLast: MIMPI_Finalize frees the lists and the mutexes         *)
(* (mimpi.c:51-53) when no Reader can touch them any more, and a Reader    *)
(* stops before that only because its peer has closed its end.             *)
(***************************************************************************)
ReadersStopLast ==
    \A l \in Links :
        /\ pc[Receiver(l)] = "closed" =>
               rpc[l] = "exit" /\ ~wopen[l] /\ mutex_list[l] = "free"
        /\ rpc[l] = "exit" => ~wopen[l]

(***************************************************************************)
(* Handshake: how the Readers and the main thread of a live process agree  *)
(* on who holds a mutex, which wait is registered and what each flag says. *)
(* It is inductive together with TypeOK, and the four invariants above     *)
(* follow from it (PointToPointProof).                                     *)
(***************************************************************************)
Holding == {"register", "check", "sleep", "leave", "woken"}
Registered == {"check", "sleep", "blocked", "relock", "leave"}

\* mutex_list excludes: a Reader holds it from listing a message to the signal
\* (mimpi_common.c:343-369), the main thread from its scan to its return
\* (410-483), less pthread_cond_wait.
MutexHeld ==
    \A l \in Links : Alive(Receiver(l)) =>
        /\ mutex_list[l] = "reader" <=> rpc[l] = "notify"
        /\ mutex_list[l] = "main" <=>
               pc[Receiver(l)] \in Holding /\ In(Receiver(l)) = l

\* waiting_for describes the call in progress, or nothing.
WaitRegistered ==
    \A p \in Ranks : Alive(p) =>
        waiting_for[p] =
            IF pc[p] \in Registered
            THEN [count |-> call[p].count, source |-> call[p].peer, tag |-> call[p].tag]
            ELSE NoOne

\* The flag is up for a wait that is answered, and never while the main thread
\* goes to sleep; the wait ends for one of the two flags.
FlagAnswersFor(p) ==
    Alive(p) =>
        /\ added[p] => pc[p] \in {"relock", "check", "leave", "woken"} /\ Answered(p)
        /\ pc[p] \in {"leave", "woken"} => added[p] \/ Ended(p)
FlagAnswers == \A p \in Ranks : FlagAnswersFor(p)

\* A wait that is answered without the flag is about to get it.
AnswerFlaggedFor(p) ==
    Waiting(p) /\ Answered(p) /\ ~added[p] =>
        rpc[In(p)] = "notify" /\ Matches(rbuf[In(p)], call[p])
AnswerFlagged == \A p \in Ranks : AnswerFlaggedFor(p)

\* What a Reader notifies of is the newest message of the list.
NewestNotified ==
    \A l \in Links : rpc[l] = "notify" =>
        list[l] # <<>> /\ list[l][Len(list[l])] = rbuf[l]

\* A Reader past its last read has drained a pipe that nobody writes to.
EndIsFinal ==
    \A l \in Links :
        /\ Alive(Receiver(l)) /\ rpc[l] \in {"cleanup", "finished", "signal", "exit"} =>
               ~wopen[l] /\ pipe[l] = <<>>
        /\ Alive(Receiver(l)) /\ has_finished[l] => rpc[l] \in {"finished", "signal", "exit"}
        /\ pc[Sender(l)] \notin {"closing", "closed", "dead"} => wopen[l]
        /\ pc[Receiver(l)] = "start" => rpc[l] = "unborn"
        /\ rpc[l] = "dead" <=> pc[Receiver(l)] = "dead"
        /\ pc[Receiver(l)] = "closed" => rpc[l] = "exit"

Handshake ==
    /\ MutexHeld
    /\ WaitRegistered
    /\ FlagAnswers
    /\ AnswerFlagged
    /\ NewestNotified
    /\ EndIsFinal

(***************************************************************************)
(* Refinement.  The box of a link is the list, then the message the Reader *)
(* has read and not yet listed, then the messages whose last packet is in  *)
(* the pipe; a message cut short by the death of its sender is none.       *)
(***************************************************************************)
\* What a Reader that has come this far makes of one packet more, and of the
\* packets of s one after the other.
Scan(l) ==
    [stage |-> IF rpc[l] \in {"count", "data", "tag"} THEN rpc[l] ELSE "count",
     buf |-> IF rpc[l] \in {"data", "tag"} THEN rbuf[l] ELSE NoBuf,
     done |-> IF rpc[l] = "save" THEN <<rbuf[l]>> ELSE <<>>]

Assemble(scan, packet) ==
    CASE scan.stage = "count" ->
           [scan EXCEPT !.stage = IF packet.val = 0 THEN "tag" ELSE "data",
                        !.buf = [NoBuf EXCEPT !.count = packet.val]]
      [] scan.stage = "data" ->
           [scan EXCEPT !.stage = IF Len(scan.buf.data) + 1 < scan.buf.count
                                  THEN "data" ELSE "tag",
                        !.buf.data = Append(@, packet.val)]
      [] OTHER ->
           [scan EXCEPT !.stage = "count", !.buf = NoBuf,
                        !.done = Append(@, [scan.buf EXCEPT !.tag = packet.val])]

Scanned(scan, s) ==
    LET after[n \in 0 .. Len(s)] == IF n = 0 THEN scan ELSE Assemble(after[n - 1], s[n])
    IN after
AfterAll(scan, s) == Scanned(scan, s)[Len(s)]

InFlight(l) == AfterAll(Scan(l), pipe[l]).done

(***************************************************************************)
(* Framing: packets carry no header, so nothing but their order tells the  *)
(* Reader a count from a chunk or a tag.  It takes every packet in the     *)
(* pipe for what it was written as, and when it has read them all it is in *)
(* the place of the message where the writer is, with the same message in  *)
(* its hands (mimpi_common.c:487-518 against 296-341).                     *)
(***************************************************************************)
WrittenAs(stage) == IF stage = "data" THEN "chunk" ELSE stage

Understood(l) ==
    \A i \in 1 .. Len(pipe[l]) :
        pipe[l][i].kind = WrittenAs(Scanned(Scan(l), pipe[l])[i - 1].stage)

\* The message a Send of p has written so far.
Written(p) ==
    [count |-> call[p].count, tag |-> 0, data |-> [i \in 1 .. sent[p] |-> calls[p]]]
InMessage(l) == pc[Sender(l)] \in {"send_data", "send_tag"} /\ Out(Sender(l)) = l

InStep(l) ==
    LET p == Sender(l)
        scan == AfterAll(Scan(l), pipe[l])
    IN IF InMessage(l)
       THEN /\ scan.buf = Written(p)
            /\ pc[p] = "send_data" => scan.stage = "data" /\ sent[p] < call[p].count
            /\ pc[p] = "send_tag" => scan.stage = "tag" /\ sent[p] = call[p].count
       ELSE scan.stage = "count"

Framing ==
    /\ \A p \in Ranks : pc[p] = "send_count" => sent[p] = 0
    /\ \A l \in Links :
        /\ ropen[l] <=> pc[Receiver(l)] \notin {"closed", "dead"}
        /\ ~ropen[l] => list[l] = <<>> /\ pipe[l] = <<>>
        /\ Understood(l)
        /\ wopen[l] /\ ropen[l] => InStep(l)

Phase(label) ==
    CASE label = "start" -> "outside"
      [] label = "user" -> "idle"
      [] label \in InSend -> "sending"
      [] label \in InRecv -> "receiving"
      [] label = "closing" -> "leaving"
      [] label = "closed" -> "left"
      [] OTHER -> "dead"

Box == [l \in Links |-> list[l] \o InFlight(l)]

M == INSTANCE Mailbox WITH
        phase <- [p \in Ranks |-> Phase(pc[p])], box <- Box,
        open <- wopen, attended <- ropen

(***************************************************************************)
(* DeliversInOrder: every step of the threads is a step of Mailbox or none *)
(* at all: no message is lost, duplicated, mixed up, reordered past one    *)
(* that answers the same call, or handed to a call it does not answer;     *)
(* ERROR_REMOTE_FINISHED is reported only when the peer is gone and        *)
(* nothing it sent will do; MIMPI_Finalize outlasts the other processes.   *)
(***************************************************************************)
DeliversInOrder == M!Spec

(***************************************************************************)
(* Liveness, under FairSpec.                                               *)
(***************************************************************************)
\* A MIMPI_Recv whose message was sent returns it: it blocks "until" the data
\* "arrives from the process" it names (mimpi.h:81-82), and no longer.
ReceivesWhatIsSent ==
    \A p \in Ranks :
        pc[p] \in InRecv /\ HasMatch(Box[In(p)], call[p]) ~> pc[p] \notin InRecv

\* A MIMPI_Send to a process that has called MIMPI_Init returns, whether the
\* receiver calls MIMPI_Recv or not: its Reader empties the pipe
\* (mimpi_common.c:300-370).
SendsReturn ==
    \A p \in Ranks :
        pc[p] \in InSend /\ pc[call[p].peer] # "start" ~> pc[p] \notin InSend

\* Once every process is in MIMPI_Finalize, or past it, or dead, every
\* MIMPI_Finalize returns: no Reader waits for a peer that waits for it.
FinalizeReturns ==
    (\A p \in Ranks : pc[p] \in {"closing", "closed", "dead"})
        ~> (\A p \in Ranks : pc[p] \in {"closed", "dead"})

\* Once the Reader has met the end of the pipe, a MIMPI_Recv returns -- unless
\* the main thread is between its last look at has_finished and
\* pthread_cond_wait, or fell asleep there and missed the signal.
Missed(p) == pc[p] = "sleep" \/ (pc[p] = "blocked" /\ rpc[In(p)] = "exit")

RecvSeesFinished ==
    \A p \in Ranks :
        pc[p] \in InRecv /\ has_finished[In(p)] /\ ~Missed(p)
            ~> pc[p] \notin InRecv

(***************************************************************************)
(* What the documentation promises and the code does not do.               *)
(***************************************************************************)
\* mimpi.h:94-95 and assignment_EN.md:79-83: MIMPI_Recv fails with
\* ERROR_REMOTE_FINISHED when the sender has left the MPI block, "even if
\* the second process leaves the MPI block while waiting for MIMPI_Recv".
\* A MIMPI_Recv from a process that has closed its pipes must return.
RecvNoticesEnd ==
    \A p \in Ranks : pc[p] \in InRecv /\ ~wopen[In(p)] ~> pc[p] \notin InRecv

\* mimpi.h:96-97 and assignment_EN.md:109-115: two processes, each in a
\* MIMPI_Recv from the other with no message under way that could end either,
\* are told ERROR_DEADLOCK_DETECTED (every MIMPI_Init enables the detection).
Deadlocked(p, q) ==
    /\ pc[p] \in InRecv /\ call[p].peer = q /\ ~HasMatch(Box[In(p)], call[p])
    /\ pc[q] \in InRecv /\ call[q].peer = p /\ ~HasMatch(Box[In(q)], call[q])

DeadlockDetected ==
    \A l \in Links :
        Deadlocked(l[1], l[2]) ~> ret[l[1]].code = "ERROR_DEADLOCK_DETECTED"

\* mimpi.h:39-40: "After a process has called this function [MIMPI_Finalize],
\* all MIMPI interaction with it (e.g. sending data to it) should return
\* MIMPI_ERROR_REMOTE_FINISHED".  A MIMPI_Send made after the destination
\* called MIMPI_Finalize -- as p's first or second call -- returns nothing else.
SendAfterFinalize ==
    \A p, q \in Ranks, k \in 0 .. 1 :
        []( pc[p] = "user" /\ calls[p] = k /\ pc[q] \in {"closing", "closed"}
            => []( pc[p] = "user" /\ calls[p] > k
                     /\ call[p].op = "send" /\ call[p].peer = q
                   => ret[p].code = "ERROR_REMOTE_FINISHED" ) )
=============================================================================
