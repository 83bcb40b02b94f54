---------------------------- MODULE PointToPoint ----------------------------
(***************************************************************************)
(* MIMPI_Send, MIMPI_Recv, MIMPI_Init and MIMPI_Finalize as the threads of *)
(* mimpi.c and mimpi_common.c carry them out.                              *)
(*                                                                         *)
(* Every process p runs a main thread, which makes the calls, and one      *)
(* Reader thread per peer.  The link <<i, j>> is what i keeps for the      *)
(* messages of j: the pipe from j to i, i's Reader for j, the list         *)
(* list[j] of i and its mutex.  A message crosses the pipe as a count,     *)
(* data in chunks of at most BUFFER_SIZE bytes, and a tag; here a count is *)
(* the number of chunks, and a pipe holds at most PipeCap packets.  The    *)
(* pipes of the group operations are modelled in GroupTree.                *)
(*                                                                         *)
(* A step is what a thread does between two points where another thread    *)
(* or process can tell the difference: a read or a write on a pipe, or the *)
(* acquisition of a mutex that another thread contends for.                *)
(***************************************************************************)
EXTENDS Messages

CONSTANT PipeCap    \* bound: packets a pipe holds before a writer blocks

ASSUME PipeCapAssumption == PipeCap \in Nat \ {0}

VARIABLES
    \* Main threads.
    pc,             \* where the main thread of p is
    call,           \* p's call in progress, or the last one made
    calls,          \* how many calls p has made; also the payload p sends
    sent,           \* chunks the Send in progress has written
    ret,            \* return code of p's last call, and the data it received
    \* Pipes.
    pipe,           \* packets written and not yet read
    wopen,          \* the sender's end of the pipe is open
    ropen,          \* the receiver's end of the pipe is open
    \* Readers and what they share with the main thread.
    rpc,            \* where the Reader thread is
    rbuf,           \* the message it is assembling
    list,           \* messages received and not yet taken
    mutex_list,     \* who holds the mutex of the list
    waiting_for,    \* what the main thread of p waits for
    added,          \* flag: a message that p waits for was added
    has_finished    \* flag: the Reader met the end of the pipe

mainVars == <<pc, call, calls, sent, ret>>
pipeVars == <<pipe, wopen, ropen>>
threadVars == <<rpc, rbuf>>
sharedVars == <<list, mutex_list, waiting_for, added, has_finished>>
vars == <<pc, call, calls, sent, ret, pipe, wopen, ropen, rpc, rbuf,
          list, mutex_list, waiting_for, added, has_finished>>

NoOne == [count |-> -1, source |-> -1, tag |-> -1]
NoBuf == [count |-> 0, tag |-> 0, data |-> <<>>]

Packet(kind, val) == [kind |-> kind, val |-> val]

RescanLast(s, c) == Len(s)      \* mutant: takes the newest message
\* The second scan of Search starts where the first one stopped, and stops at
\* the last node of the list whether that node matches or not.
Rescan(s, c) == IF HasMatch(s, c) THEN FirstMatch(s, c) ELSE Len(s)

\* The link an outgoing, respectively an incoming, call of p uses.
Out(p) == <<call[p].peer, p>>
In(p) == <<p, call[p].peer>>

-----------------------------------------------------------------------------
Init ==
    /\ pc = [p \in Ranks |-> "start"]
    /\ call = [p \in Ranks |-> NoCall]
    /\ calls = [p \in Ranks |-> 0]
    /\ sent = [p \in Ranks |-> 0]
    /\ ret = [p \in Ranks |-> NoRet]
    /\ pipe = [l \in Links |-> <<>>]
    /\ wopen = [l \in Links |-> TRUE]
    /\ ropen = [l \in Links |-> TRUE]
    /\ rpc = [l \in Links |-> "unborn"]
    /\ rbuf = [l \in Links |-> NoBuf]
    /\ list = [l \in Links |-> <<>>]
    /\ mutex_list = [l \in Links |-> "free"]
    /\ waiting_for = [p \in Ranks |-> NoOne]
    /\ added = [p \in Ranks |-> FALSE]
    /\ has_finished = [l \in Links |-> FALSE]

(***************************************************************************)
(* The main thread: initialisation and calls.                              *)
(***************************************************************************)
Goto(p, label) == pc' = [pc EXCEPT ![p] = label]
Finish(p, result) == Goto(p, "user") /\ ret' = [ret EXCEPT ![p] = result]

\* MIMPI_Init: the lists are empty, and a Reader starts for every peer.
MIMPI_Init(p) ==
    /\ pc[p] = "start"
    /\ Goto(p, "user")
    /\ rpc' = [l \in Links |-> IF l \in Incoming(p) THEN "count" ELSE rpc[l]]
    /\ UNCHANGED <<call, calls, sent, ret, pipeVars, rbuf, sharedVars>>

Begin(p, c) ==
    /\ pc[p] = "user" /\ calls[p] < MaxCalls[p]
    /\ c.by = p
    /\ call' = [call EXCEPT ![p] = c]
    /\ calls' = [calls EXCEPT ![p] = @ + 1]

RejectCall(p) == \E c \in Calls :
    /\ Begin(p, c) /\ Rejection(c) # "NONE"
    /\ Finish(p, Return(Rejection(c)))
    /\ UNCHANGED <<sent, pipeVars, threadVars, sharedVars>>

BeginSend(p) == \E c \in Calls :
    /\ Begin(p, c) /\ Rejection(c) = "NONE" /\ c.op = "send"
    /\ Goto(p, "send_count")
    /\ sent' = [sent EXCEPT ![p] = 0]
    /\ ret' = [ret EXCEPT ![p] = NoRet]
    /\ UNCHANGED <<pipeVars, threadVars, sharedVars>>

BeginRecv(p) == \E c \in Calls :
    /\ Begin(p, c) /\ Rejection(c) = "NONE" /\ c.op = "recv"
    /\ Goto(p, "search")
    /\ ret' = [ret EXCEPT ![p] = NoRet]
    /\ UNCHANGED <<sent, pipeVars, threadVars, sharedVars>>

(***************************************************************************)
(* Send: the count, the chunks, the tag.  A write blocks while the pipe is *)
(* full, and fails with EPIPE once the receiver has closed its end.        *)
(***************************************************************************)
Write(l, packet) ==
    /\ ropen[l] /\ Len(pipe[l]) < PipeCap
    /\ pipe' = [pipe EXCEPT ![l] = Append(@, packet)]

SendCount(p) ==
    /\ pc[p] = "send_count"
    /\ Write(Out(p), Packet("count", call[p].count))
    /\ Goto(p, IF call[p].count = 0 THEN "send_tag" ELSE "send_data")
    /\ UNCHANGED <<call, calls, sent, ret, wopen, ropen, threadVars, sharedVars>>

SendData(p) ==
    /\ pc[p] = "send_data"
    /\ Write(Out(p), Packet("chunk", calls[p]))
    /\ sent' = [sent EXCEPT ![p] = @ + 1]
    /\ Goto(p, IF sent[p] + 1 < call[p].count THEN "send_data" ELSE "send_tag")
    /\ UNCHANGED <<call, calls, ret, wopen, ropen, threadVars, sharedVars>>

SendTag(p) ==
    /\ pc[p] = "send_tag"
    /\ Write(Out(p), Packet("tag", call[p].tag))
    /\ Finish(p, Return("SUCCESS"))
    /\ UNCHANGED <<call, calls, sent, wopen, ropen, threadVars, sharedVars>>

SendFails(p) ==
    /\ pc[p] \in {"send_count", "send_data", "send_tag"}
    /\ ~ropen[Out(p)]
    /\ Finish(p, Return("ERROR_REMOTE_FINISHED"))
    /\ UNCHANGED <<call, calls, sent, pipeVars, threadVars, sharedVars>>

(***************************************************************************)
(* Search: the main thread holds mutex_list from the scan to the end of    *)
(* the call, except while it is blocked in pthread_cond_wait.              *)
(***************************************************************************)
Hold(l, holder) == mutex_list' = [mutex_list EXCEPT ![l] = holder]
Take(l, i) == list' = [list EXCEPT ![l] = RemoveAt(@, i)]

SearchHit(p) ==
    /\ pc[p] = "search" /\ mutex_list[In(p)] = "free"
    /\ HasMatch(list[In(p)], call[p])
    /\ LET i == FirstMatch(list[In(p)], call[p]) IN
        /\ Take(In(p), i)
        /\ Finish(p, [code |-> "SUCCESS", data |-> list[In(p)][i].data])
    /\ UNCHANGED <<call, calls, sent, pipeVars, threadVars,
                   mutex_list, waiting_for, added, has_finished>>

SearchMiss(p) ==
    /\ pc[p] = "search" /\ mutex_list[In(p)] = "free"
    /\ ~HasMatch(list[In(p)], call[p])
    /\ Hold(In(p), "main")
    /\ Goto(p, "register")
    /\ UNCHANGED <<call, calls, sent, ret, pipeVars, threadVars,
                   list, waiting_for, added, has_finished>>

RegisterWait(p) ==
    /\ pc[p] = "register"
    /\ waiting_for' = [waiting_for EXCEPT ![p] =
           [count |-> call[p].count, source |-> call[p].peer, tag |-> call[p].tag]]
    /\ Goto(p, "check")
    /\ UNCHANGED <<call, calls, sent, ret, pipeVars, threadVars,
                   list, mutex_list, added, has_finished>>

\* Mutant: one flag for all peers.
EndedAnyPeer(p) == \E l \in Incoming(p) : has_finished[l]

\* The condition of the wait loop, read under has_finished_mutex alone.
Ended(p) == has_finished[In(p)]

CheckWait(p) ==
    /\ pc[p] = "check"
    /\ Goto(p, IF added[p] \/ Ended(p) THEN "leave" ELSE "sleep")
    /\ UNCHANGED <<call, calls, sent, ret, pipeVars, threadVars, sharedVars>>

\* pthread_cond_wait: the mutex is released and the thread blocked at once,
\* but some time after the condition was read.
Sleep(p) ==
    /\ pc[p] = "sleep"
    /\ Hold(In(p), "free")
    /\ Goto(p, "blocked")
    /\ UNCHANGED <<call, calls, sent, ret, pipeVars, threadVars,
                   list, waiting_for, added, has_finished>>

\* pthread_cond_wait may return without a signal.
SpuriousWake(p) ==
    /\ pc[p] = "blocked"
    /\ Goto(p, "relock")
    /\ UNCHANGED <<call, calls, sent, ret, pipeVars, threadVars, sharedVars>>

Relock(p) ==
    /\ pc[p] = "relock" /\ mutex_list[In(p)] = "free"
    /\ Hold(In(p), "main")
    /\ Goto(p, "check")
    /\ UNCHANGED <<call, calls, sent, ret, pipeVars, threadVars,
                   list, waiting_for, added, has_finished>>

\* Mutant: the wait stays registered.
LeaveWaitRegistered(p) ==
    /\ pc[p] = "leave"
    /\ Goto(p, "woken")
    /\ UNCHANGED <<call, calls, sent, ret, pipeVars, threadVars, sharedVars>>

LeaveWait(p) ==
    /\ pc[p] = "leave"
    /\ waiting_for' = [waiting_for EXCEPT ![p] = NoOne]
    /\ Goto(p, "woken")
    /\ UNCHANGED <<call, calls, sent, ret, pipeVars, threadVars,
                   list, mutex_list, added, has_finished>>

\* Mutant: the flag is not taken down.
EndWaitFlagUp(p) == UNCHANGED added /\ Hold(In(p), "free")
EndWait(p) ==
    /\ added' = [added EXCEPT ![p] = FALSE]
    /\ Hold(In(p), "free")

WaitFails(p) ==
    /\ pc[p] = "woken" /\ ~added[p] /\ Ended(p)
    /\ EndWait(p)
    /\ Finish(p, Return("ERROR_REMOTE_FINISHED"))
    /\ UNCHANGED <<call, calls, sent, pipeVars, threadVars,
                   list, waiting_for, has_finished>>

\* The second scan takes the node it stops at without looking at it again.
\* On an empty list that node is the guard, which has no message.
WaitDelivers(p) ==
    /\ pc[p] = "woken" /\ (added[p] \/ ~Ended(p))
    /\ list[In(p)] # <<>>
    /\ LET i == Rescan(list[In(p)], call[p]) IN
        /\ Take(In(p), i)
        /\ Finish(p, [code |-> "SUCCESS", data |-> list[In(p)][i].data])
    /\ EndWait(p)
    /\ UNCHANGED <<call, calls, sent, pipeVars, threadVars,
                   waiting_for, has_finished>>

\* Mutant: the Reader reads only while the main thread waits for its peer.
ReadOnDemand(l) ==
    /\ pipe[l] # <<>> /\ waiting_for[Receiver(l)].source = Sender(l)
    /\ pipe' = [pipe EXCEPT ![l] = Tail(@)]

(***************************************************************************)
(* Reader: a read takes the packet at the head of the pipe, whatever it    *)
(* was written as.                                                         *)
(***************************************************************************)
Read(l) ==
    /\ pipe[l] # <<>>
    /\ pipe' = [pipe EXCEPT ![l] = Tail(@)]

ReaderAt(l, label) == rpc' = [rpc EXCEPT ![l] = label]

SignalNobody(p) == UNCHANGED pc     \* mutant
\* pthread_cond_signal: nothing is kept for a thread that is not blocked.
Signal(p) == pc' = [pc EXCEPT ![p] = IF @ = "blocked" THEN "relock" ELSE @]

ReadCount(l) ==
    /\ rpc[l] = "count"
    /\ Read(l)
    /\ LET count == Head(pipe[l]).val IN
        /\ rbuf' = [rbuf EXCEPT ![l] = [count |-> count, tag |-> 0, data |-> <<>>]]
        /\ ReaderAt(l, IF count = 0 THEN "tag" ELSE "data")
    /\ UNCHANGED <<mainVars, wopen, ropen, sharedVars>>

MoreChunksThan(l) == Len(rbuf[l].data) < rbuf[l].count     \* mutant: one too many
\* The chunk being read is not the last.
MoreChunks(l) == Len(rbuf[l].data) + 1 < rbuf[l].count

ReadData(l) ==
    /\ rpc[l] = "data"
    /\ Read(l)
    /\ rbuf' = [rbuf EXCEPT ![l].data = Append(@, Head(pipe[l]).val)]
    /\ ReaderAt(l, IF MoreChunks(l) THEN "data" ELSE "tag")
    /\ UNCHANGED <<mainVars, wopen, ropen, sharedVars>>

ReadTag(l) ==
    /\ rpc[l] = "tag"
    /\ Read(l)
    /\ rbuf' = [rbuf EXCEPT ![l].tag = Head(pipe[l]).val]
    /\ ReaderAt(l, "save")
    /\ UNCHANGED <<mainVars, wopen, ropen, sharedVars>>

AtEofUndrained(l) == ~wopen[l]      \* mutant: what is in the pipe is lost
\* A read returns 0: the pipe is drained and nobody can write to it any more.
AtEof(l) == pipe[l] = <<>> /\ ~wopen[l]

ReadEof(l) ==
    /\ rpc[l] \in {"count", "data", "tag"} /\ AtEof(l)
    /\ rbuf' = [rbuf EXCEPT ![l] = NoBuf]
    /\ ReaderAt(l, "cleanup")
    /\ UNCHANGED <<mainVars, pipeVars, sharedVars>>

SaveMessage(l) ==
    /\ rpc[l] = "save" /\ mutex_list[l] = "free"
    /\ Hold(l, "reader")
    /\ list' = [list EXCEPT ![l] = Append(@, rbuf[l])]
    /\ ReaderAt(l, "notify")
    /\ UNCHANGED <<mainVars, pipeVars, rbuf, waiting_for, added, has_finished>>

\* Mutants: MIMPI_ANY_TAG is not known here; the source is not compared.
AwaitedSameTag(w, l, m) == w.count = m.count /\ w.source = Sender(l) /\ w.tag = m.tag
AwaitedAnySource(w, l, m) == w.count = m.count /\ w.tag \in {MIMPI_ANY_TAG, m.tag}

\* Whether the main thread that registered w waits for this message.
Awaited(w, l, m) ==
    /\ w.count = m.count /\ w.source = Sender(l)
    /\ w.tag = MIMPI_ANY_TAG \/ w.tag = m.tag

NotifyReceiver(l) ==
    /\ rpc[l] = "notify"
    /\ LET p == Receiver(l) IN
        IF Awaited(waiting_for[p], l, rbuf[l])
        THEN added' = [added EXCEPT ![p] = TRUE] /\ Signal(p)
        ELSE UNCHANGED <<added, pc>>
    /\ Hold(l, "free")
    /\ rbuf' = [rbuf EXCEPT ![l] = NoBuf]
    /\ ReaderAt(l, "count")
    /\ UNCHANGED <<call, calls, sent, ret, pipeVars, list, waiting_for, has_finished>>

\* readerCleanup, in three steps: none of them holds mutex_list.
MarkFinished(l) ==
    /\ rpc[l] = "cleanup"
    /\ has_finished' = [has_finished EXCEPT ![l] = TRUE]
    /\ ReaderAt(l, "finished")
    /\ UNCHANGED <<mainVars, pipeVars, rbuf, list, mutex_list, waiting_for, added>>

\* Mutant: the wrong rank is compared.
WaitedForSelf(l) == waiting_for[Receiver(l)].source = Receiver(l)
WaitedFor(l) == waiting_for[Receiver(l)].source = Sender(l)

CheckWaiting(l) ==
    /\ rpc[l] = "finished"
    /\ ReaderAt(l, IF WaitedFor(l) THEN "signal" ELSE "exit")
    /\ UNCHANGED <<mainVars, pipeVars, rbuf, sharedVars>>

SignalFinished(l) ==
    /\ rpc[l] = "signal"
    /\ Signal(Receiver(l))
    /\ ReaderAt(l, "exit")
    /\ UNCHANGED <<call, calls, sent, ret, pipeVars, rbuf, sharedVars>>

(***************************************************************************)
(* MIMPI_Finalize: close the writing ends one by one, join the Readers,    *)
(* close the reading ends, free the lists.                                 *)
(***************************************************************************)
BeginFinalize(p) ==
    /\ pc[p] = "user"
    /\ Goto(p, "closing")
    /\ UNCHANGED <<call, calls, sent, ret, pipeVars, threadVars, sharedVars>>

\* Mutant: a flag is trusted instead of the thread's end.
ReadersFlagged(p) == \A l \in Incoming(p) : has_finished[l]
ReadersDone(p) == \A l \in Incoming(p) : rpc[l] = "exit"

\* Mutant: the Readers are joined before the pipes are closed.
CanCloseJoined(p) == pc[p] = "closing" /\ ReadersDone(p)
CanClose(p) == pc[p] = "closing"

CloseWriting(p) ==
    /\ CanClose(p)
    /\ \E l \in Outgoing(p) :
        /\ wopen[l] /\ \A k \in Outgoing(p) : wopen[k] => Receiver(l) <= Receiver(k)
        /\ wopen' = [wopen EXCEPT ![l] = FALSE]
    /\ UNCHANGED <<mainVars, pipe, ropen, threadVars, sharedVars>>

\* The process gives up what it keeps for the messages sent to it.
Release(p) ==
    /\ ropen' = [l \in Links |-> ropen[l] /\ l \notin Incoming(p)]
    /\ pipe' = [l \in Links |-> IF l \in Incoming(p) THEN <<>> ELSE pipe[l]]
    /\ list' = [l \in Links |-> IF l \in Incoming(p) THEN <<>> ELSE list[l]]

JoinReaders(p) ==
    /\ pc[p] = "closing" /\ \A l \in Outgoing(p) : ~wopen[l]
    /\ ReadersDone(p)
    /\ Goto(p, "closed")
    /\ Release(p)
    /\ UNCHANGED <<call, calls, sent, ret, wopen, threadVars,
                   mutex_list, waiting_for, added, has_finished>>

\* The process ends without MIMPI_Finalize; the kernel closes its pipes.
Die(p) ==
    /\ p \in Mortal /\ pc[p] \notin {"closed", "dead"}
    /\ Goto(p, "dead")
    /\ wopen' = [l \in Links |-> wopen[l] /\ l \notin Outgoing(p)]
    /\ Release(p)
    /\ rpc' = [l \in Links |-> IF l \in Incoming(p) THEN "dead" ELSE rpc[l]]
    /\ rbuf' = [l \in Links |-> IF l \in Incoming(p) THEN NoBuf ELSE rbuf[l]]
    /\ UNCHANGED <<call, calls, sent, ret, mutex_list, waiting_for, added, has_finished>>

-----------------------------------------------------------------------------
\* What the library does by itself once a call is made.
Sending(p) == SendCount(p) \/ SendData(p) \/ SendTag(p) \/ SendFails(p)
Receiving(p) ==
    \/ SearchHit(p) \/ SearchMiss(p) \/ RegisterWait(p) \/ CheckWait(p)
    \/ Sleep(p) \/ Relock(p) \/ LeaveWait(p) \/ WaitFails(p) \/ WaitDelivers(p)
Finalizing(p) == CloseWriting(p) \/ JoinReaders(p)
MainStep(p) == Sending(p) \/ Receiving(p) \/ Finalizing(p)

\* What the program or the environment decides.
UserStep(p) ==
    \/ MIMPI_Init(p) \/ RejectCall(p) \/ BeginSend(p) \/ BeginRecv(p)
    \/ BeginFinalize(p) \/ SpuriousWake(p) \/ Die(p)

ReaderStep(l) ==
    \/ ReadCount(l) \/ ReadData(l) \/ ReadTag(l) \/ ReadEof(l)
    \/ SaveMessage(l) \/ NotifyReceiver(l)
    \/ MarkFinished(l) \/ CheckWaiting(l) \/ SignalFinished(l)

Next ==
    \/ \E p \in Ranks : MainStep(p) \/ UserStep(p)
    \/ \E l \in Links : ReaderStep(l)

Spec == Init /\ [][Next]_vars

\* The system runs every thread that can run.  Nothing is promised about what
\* the program calls and about deaths.  Spurious wakeups come to an end: a main
\* thread woken for nothing again and again could keep a Reader from the mutex
\* for ever, since a pthread mutex is not fair.
Fairness ==
    /\ \A p \in Ranks : WF_vars(MainStep(p))
    /\ \A l \in Links : WF_vars(ReaderStep(l))
    /\ <>[][\A p \in Ranks : ~SpuriousWake(p)]_vars

FairSpec == Spec /\ Fairness

-----------------------------------------------------------------------------
PcLabels ==
    {"start", "user", "send_count", "send_data", "send_tag", "search", "register",
     "check", "sleep", "blocked", "relock", "leave", "woken",
     "closing", "closed", "dead"}
ReaderLabels ==
    {"unborn", "count", "data", "tag", "save", "notify", "cleanup", "finished",
     "signal", "exit", "dead"}
Message == [count: Nat, tag: Nat, data: Seq(Nat)]
PacketType == [kind: {"count", "chunk", "tag"}, val: Nat]
ReturnCodes ==
    {"NONE", "SUCCESS", "ERROR_ATTEMPTED_SELF_OP", "ERROR_NO_SUCH_RANK",
     "ERROR_REMOTE_FINISHED", "ERROR_DEADLOCK_DETECTED"}
RetType == [code: ReturnCodes, data: Seq(Nat)]
WaitType == [count: Int, source: Int, tag: Int]
CallType == [by: Ranks, op: {"none", "send", "recv"}, peer: Int, count: Nat, tag: Nat]

(***************************************************************************)
(* TypeOK: every variable has its type, and a main thread inside a Send or *)
(* a Recv works for a call that passed the argument checks.                *)
(***************************************************************************)
InSend == {"send_count", "send_data", "send_tag"}
InWait == {"register", "check", "sleep", "blocked", "relock", "leave", "woken"}
InRecv == InWait \cup {"search"}

TypeOK ==
    /\ pc \in [Ranks -> PcLabels]
    /\ call \in [Ranks -> CallType]
    /\ \A p \in Ranks : /\ pc[p] \in InSend => Out(p) \in Links
                        /\ pc[p] \in InRecv => In(p) \in Links
    /\ calls \in [Ranks -> Nat]
    /\ sent \in [Ranks -> Nat]
    /\ ret \in [Ranks -> RetType]
    /\ pipe \in [Links -> Seq(PacketType)]
    /\ wopen \in [Links -> BOOLEAN]
    /\ ropen \in [Links -> BOOLEAN]
    /\ rpc \in [Links -> ReaderLabels]
    /\ rbuf \in [Links -> Message]
    /\ list \in [Links -> Seq(Message)]
    /\ mutex_list \in [Links -> {"free", "main", "reader"}]
    /\ waiting_for \in [Ranks -> WaitType]
    /\ added \in [Ranks -> BOOLEAN]
    /\ has_finished \in [Links -> BOOLEAN]
=============================================================================
