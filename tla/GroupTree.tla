----------------------------- MODULE GroupTree ------------------------------
(***************************************************************************)
(* MIMPI_Barrier, MIMPI_Bcast and MIMPI_Reduce of mimpi_common.c.          *)
(*                                                                         *)
(* As in the code, process `me' is rank me - 1, the children of me are     *)
(* 2 * me and 2 * me + 1 and its parent is me \div 2.  Every child has a   *)
(* pipe to its parent and one from it (descriptors 700...), and one to the *)
(* first process and one from it (descriptors 900...).                     *)
(*                                                                         *)
(* All three operations go through the same phases and differ in how many  *)
(* packets a process moves in each, and in what a packet carries:          *)
(*   - the root of a Bcast hands its data to the first process;            *)
(*   - the processes collect from their children and send to their parent: *)
(*     a token, or the partial result of a Reduce;                         *)
(*   - they are released by their parent and release their children: a     *)
(*     token, or the data of a Bcast;                                      *)
(*   - the first process hands the result of a Reduce to the root.         *)
(* A packet is what one write puts into a pipe, at most BUFFER_SIZE bytes; *)
(* a count is a number of packets, and one byte stands for the bytes of a  *)
(* packet, which the library moves and reduces alike.                      *)
(***************************************************************************)
EXTENDS Integers, Sequences, FiniteSets, Reduction

CONSTANTS
    N,          \* the number of processes
    Data,       \* the byte each program brings to its calls
    Scripts,    \* the sequences of group calls that programs make
    PipeCap,    \* bound: packets a pipe holds before a writer blocks
    Mortal      \* the processes that may die without MIMPI_Finalize

Procs == 1 .. N
Op == [kind: {"barrier", "bcast", "reduce"}, count: Nat, root: Int, op: MIMPI_Op]

ASSUME SizesAssumption == N \in Nat \ {0} /\ PipeCap \in Nat \ {0}
ASSUME DataAssumption == Data \in [Procs -> Byte]
ASSUME ScriptsAssumption == Scripts \subseteq Seq(Op)
ASSUME MortalAssumption == Mortal \subseteq Procs

VARIABLES
    script,     \* the calls of this program, the same for every process
    round,      \* how many group calls the process has begun
    done,       \* the last one of them that returned SUCCESS
    phase,      \* the phase of the call in progress, Outside if there is none
    moved,      \* packets moved in this phase
    acc,        \* the process's data, one byte for every chunk
    ret,        \* return code of the last call, and the data handed out
    status,     \* whether the process runs
    open,       \* its ends of the group pipes are open
    pipe        \* packets written and not yet read

vars == <<script, round, done, phase, moved, acc, ret, status, open, pipe>>

(***************************************************************************)
(* Phases, in the order of the code.                                       *)
(***************************************************************************)
Outside == 0
ToFirst == 1        \* root of a Bcast: data to the first process
FromRoot == 2       \* first process: data of the root of a Bcast
FromLeft == 3
FromRight == 4
ToParent == 5
FromParent == 6
ToLeft == 7
ToRight == 8
ToRoot == 9         \* first process: result to the root of a Reduce
FromFirst == 10     \* root of a Reduce: result of the first process
Leaving == 11

Transfers == ToFirst .. FromFirst
Sends == {ToFirst, ToParent, ToLeft, ToRight, ToRoot}

Root(o) == o.root + 1

HasChild(c) == c <= N

\* Whether a process takes part in a phase of an operation.
TakesPart(me, ph, o) ==
    CASE ph = ToFirst                -> o.kind = "bcast" /\ me = Root(o) /\ me # 1
      [] ph = FromRoot               -> o.kind = "bcast" /\ me # Root(o) /\ me = 1
      [] ph \in {FromLeft, ToLeft}   -> HasChild(2 * me)
      [] ph \in {FromRight, ToRight} -> HasChild(2 * me + 1)
      [] ph \in {ToParent, FromParent} -> me # 1
      [] ph = ToRoot                 -> o.kind = "reduce" /\ me # Root(o) /\ me = 1
      [] ph = FromFirst              -> o.kind = "reduce" /\ me = Root(o) /\ me # 1
      [] OTHER                       -> TRUE

\* Whether the packets of a phase carry data, as opposed to one token.
CarriesData(ph, o) ==
    \/ ph \in {ToFirst, FromRoot, ToRoot, FromFirst}
    \/ ph \in {FromLeft, FromRight, ToParent} /\ o.kind = "reduce"
    \/ ph \in {FromParent, ToLeft, ToRight} /\ o.kind = "bcast"

\* Mutants: a process reads one packet of its parent; no token releases anyone.
PacketsShort(ph, o) == IF CarriesData(ph, o) /\ ph # FromParent THEN o.count ELSE 1
PacketsUnreleased(ph, o) ==
    IF CarriesData(ph, o) THEN o.count ELSE IF ph \in {FromParent, ToLeft, ToRight} THEN 0 ELSE 1
Packets(ph, o) == IF CarriesData(ph, o) THEN o.count ELSE 1

Size(me, ph, o) == IF TakesPart(me, ph, o) THEN Packets(ph, o) ELSE 0

\* The next phase in which the process has something to do.
NextPhase(me, ph, o) ==
    CHOOSE n \in ph + 1 .. Leaving :
        Size(me, n, o) > 0 /\ \A m \in ph + 1 .. n - 1 : Size(me, m, o) = 0

(***************************************************************************)
(* Pipes: each belongs to a process other than the first.                  *)
(***************************************************************************)
Pipes == {"up", "down", "first", "root"} \X (2 .. N)

Parent(c) == c \div 2
Writer(x) == CASE x[1] \in {"up", "first"} -> x[2]
               [] x[1] = "down" -> Parent(x[2])
               [] OTHER -> 1
Reader(x) == CASE x[1] \in {"down", "root"} -> x[2]
               [] x[1] = "up" -> Parent(x[2])
               [] OTHER -> 1

PipeOf(me, ph, o) ==
    CASE ph = ToFirst -> <<"first", me>>
      [] ph = FromRoot -> <<"first", Root(o)>>
      [] ph = FromLeft -> <<"up", 2 * me>>
      [] ph = FromRight -> <<"up", 2 * me + 1>>
      [] ph = ToParent -> <<"up", me>>
      [] ph = FromParent -> <<"down", me>>
      [] ph = ToLeft -> <<"down", 2 * me>>
      [] ph = ToRight -> <<"down", 2 * me + 1>>
      [] ph = ToRoot -> <<"root", Root(o)>>
      [] OTHER -> <<"root", me>>

(***************************************************************************)
(* Data: one byte for every chunk of the buffer.  Chunks differ, and so do *)
(* those of different processes if Data does; a token's value is not used. *)
(***************************************************************************)
Chunk == Byte
Token == 0
Own(p, i) == Wrap(Data[p] + i)

\* A process brings its own data to a Reduce, and to a Bcast if it is the root.
Initial(me, o) ==
    [i \in 1 .. o.count |->
        IF o.kind = "reduce" \/ (o.kind = "bcast" /\ me = Root(o))
        THEN Own(me, i) ELSE Token]

\* Mutant: the data of a second child replace what has been collected.
AbsorbOver(buf, i, val, ph, o) ==
    [buf EXCEPT ![i] = IF ph = FromLeft THEN Reducer(val, @, o.op) ELSE val]

\* What a process makes of the data of chunk i: it reduces it with its own,
\* or takes it over.
Absorb(buf, i, val, ph, o) ==
    [buf EXCEPT ![i] =
        IF ph \in {FromLeft, FromRight} THEN Reducer(val, @, o.op) ELSE val]

-----------------------------------------------------------------------------
Init ==
    /\ script \in Scripts
    /\ round = [p \in Procs |-> 0]
    /\ done = [p \in Procs |-> 0]
    /\ phase = [p \in Procs |-> Outside]
    /\ moved = [p \in Procs |-> 0]
    /\ acc = [p \in Procs |-> <<>>]
    /\ ret = [p \in Procs |-> [code |-> "NONE", data |-> <<>>]]
    /\ status = [p \in Procs |-> "running"]
    /\ open = [p \in Procs |-> TRUE]
    /\ pipe = [x \in Pipes |-> <<>>]

Current(p) == script[round[p]]
Here(p) == PipeOf(p, phase[p], Current(p))

\* The data a successful call hands to its caller.
Result(p, o) ==
    IF o.kind = "bcast" \/ (o.kind = "reduce" /\ p = Root(o)) THEN acc[p] ELSE <<>>

Return(p, code, data) ==
    /\ ret' = [ret EXCEPT ![p] = [code |-> code, data |-> data]]
    /\ phase' = [phase EXCEPT ![p] = Outside]

\* A process calls the next operation of the program.
ValidRoot(o) == o.kind = "barrier" \/ (o.root >= 0 /\ o.root < N)

Call(p) ==
    /\ status[p] = "running" /\ phase[p] = Outside /\ round[p] < Len(script)
    /\ LET o == script[round[p] + 1] IN
        /\ ValidRoot(o)
        /\ phase' = [phase EXCEPT ![p] = NextPhase(p, Outside, o)]
        /\ acc' = [acc EXCEPT ![p] = Initial(p, o)]
    /\ round' = [round EXCEPT ![p] = @ + 1]
    /\ moved' = [moved EXCEPT ![p] = 0]
    /\ ret' = [ret EXCEPT ![p] = [code |-> "NONE", data |-> <<>>]]
    /\ UNCHANGED <<script, done, status, open, pipe>>

RejectCall(p) ==
    /\ status[p] = "running" /\ phase[p] = Outside /\ round[p] < Len(script)
    /\ ~ValidRoot(script[round[p] + 1])
    /\ round' = [round EXCEPT ![p] = @ + 1]
    /\ Return(p, "ERROR_NO_SUCH_RANK", <<>>)
    /\ UNCHANGED <<script, done, moved, acc, status, open, pipe>>

\* Mutant: off by one.
LastPacketLate(p) == moved[p] >= Size(p, phase[p], Current(p))
LastPacket(p) == moved[p] + 1 >= Size(p, phase[p], Current(p))

\* One packet of the phase has moved.
Advance(p) ==
    IF LastPacket(p)
    THEN /\ moved' = [moved EXCEPT ![p] = 0]
         /\ phase' = [phase EXCEPT ![p] = NextPhase(p, @, Current(p))]
    ELSE moved' = [moved EXCEPT ![p] = @ + 1] /\ UNCHANGED phase

Busy(p) == status[p] = "running" /\ phase[p] \in Transfers
Sending(p) == Busy(p) /\ phase[p] \in Sends
Receiving(p) == Busy(p) /\ phase[p] \notin Sends

\* A packet is marked with the call and the chunk it was written for; nothing
\* in the pipe shows that to the reader.
GroupSend(p) ==
    /\ Sending(p) /\ open[p]
    /\ open[Reader(Here(p))] /\ Len(pipe[Here(p)]) < PipeCap
    /\ LET i == moved[p] + 1
           val == IF CarriesData(phase[p], Current(p)) THEN acc[p][i] ELSE Token
       IN pipe' = [pipe EXCEPT ![Here(p)] =
                      Append(@, [round |-> round[p], chunk |-> i, val |-> val])]
    /\ Advance(p)
    /\ UNCHANGED <<script, round, done, acc, ret, status, open>>

GroupRecv(p) ==
    /\ Receiving(p) /\ open[p]
    /\ pipe[Here(p)] # <<>>
    /\ pipe' = [pipe EXCEPT ![Here(p)] = Tail(@)]
    /\ acc' = IF CarriesData(phase[p], Current(p))
              THEN [acc EXCEPT ![p] = Absorb(@, moved[p] + 1, Head(pipe[Here(p)]).val,
                                               phase[p], Current(p))]
              ELSE acc
    /\ Advance(p)
    /\ UNCHANGED <<script, round, done, ret, status, open>>

\* closeGroupPipes; what is left in the pipes p reads from is lost.
CloseGroupPipes(p) ==
    /\ open' = [open EXCEPT ![p] = FALSE]
    /\ pipe' = [x \in Pipes |-> IF Reader(x) = p THEN <<>> ELSE pipe[x]]

\* Mutants: what is still in the pipe is not read; the end of file is ignored.
PeerGoneAtOnce(p) ==
    \/ Sending(p) /\ ~open[Reader(Here(p))]
    \/ Receiving(p) /\ ~open[Writer(Here(p))]
PeerGoneForWriters(p) == Sending(p) /\ ~open[Reader(Here(p))]

\* EPIPE on a write, or end of file on a read.
PeerGone(p) ==
    \/ Sending(p) /\ ~open[Reader(Here(p))]
    \/ Receiving(p) /\ pipe[Here(p)] = <<>> /\ ~open[Writer(Here(p))]

GroupFails(p) ==
    /\ PeerGone(p) /\ open[p]
    /\ CloseGroupPipes(p)
    /\ Return(p, "ERROR_REMOTE_FINISHED", <<>>)
    /\ UNCHANGED <<script, round, done, moved, acc, status>>

\* A read or a write on a descriptor that closeGroupPipes has closed fails
\* with EBADF, twice, and ASSERT_SYS_OK ends the process.
Abort(p) ==
    /\ Busy(p) /\ ~open[p]
    /\ status' = [status EXCEPT ![p] = "aborted"]
    /\ UNCHANGED <<script, round, done, phase, moved, acc, ret, open, pipe>>

Succeed(p) ==
    /\ status[p] = "running" /\ phase[p] = Leaving
    /\ Return(p, "SUCCESS", Result(p, Current(p)))
    /\ done' = [done EXCEPT ![p] = round[p]]
    /\ UNCHANGED <<script, round, moved, acc, status, open, pipe>>

\* MIMPI_Finalize, as far as the group pipes are concerned.
Finalize(p) ==
    /\ status[p] = "running" /\ phase[p] = Outside
    /\ status' = [status EXCEPT ![p] = "left"]
    /\ CloseGroupPipes(p)
    /\ UNCHANGED <<script, round, done, phase, moved, acc, ret>>

\* The process ends without MIMPI_Finalize; the kernel closes its pipes.
Die(p) ==
    /\ p \in Mortal /\ status[p] = "running"
    /\ status' = [status EXCEPT ![p] = "dead"]
    /\ CloseGroupPipes(p)
    /\ UNCHANGED <<script, round, done, phase, moved, acc, ret>>

-----------------------------------------------------------------------------
LibraryStep(p) ==
    GroupSend(p) \/ GroupRecv(p) \/ GroupFails(p) \/ Abort(p) \/ Succeed(p)
ProgramStep(p) == Call(p) \/ RejectCall(p) \/ Finalize(p)

Next == \E p \in Procs : LibraryStep(p) \/ ProgramStep(p) \/ Die(p)

Spec == Init /\ [][Next]_vars

\* The system runs every process that can run, and no program stays between
\* two calls for ever: it makes its next call or leaves.
Fairness == \A p \in Procs : WF_vars(LibraryStep(p) \/ ProgramStep(p))

FairSpec == Spec /\ Fairness

-----------------------------------------------------------------------------
Mark == [round: Nat, chunk: Nat, val: Chunk]
Codes == {"NONE", "SUCCESS", "ERROR_NO_SUCH_RANK", "ERROR_REMOTE_FINISHED"}

\* A process inside a call still has a packet of its phase to move.
InCall(p) ==
    phase[p] # Outside =>
        /\ round[p] \in 1 .. Len(script) /\ ValidRoot(Current(p))
        /\ moved[p] < Size(p, phase[p], Current(p))
        /\ acc[p] \in [1 .. Current(p).count -> Chunk]

\* TypeOK: every variable has its type, and a process inside a call is in a
\* phase of that call in which it still has a packet to move.
TypeOK ==
    /\ script \in Scripts
    /\ round \in [Procs -> Nat] /\ \A p \in Procs : round[p] <= Len(script)
    /\ done \in [Procs -> Nat]
    /\ phase \in [Procs -> Outside .. Leaving]
    /\ moved \in [Procs -> Nat]
    /\ \A p \in Procs : InCall(p)
    /\ acc \in [Procs -> Seq(Chunk)]
    /\ ret \in [Procs -> [code: Codes, data: Seq(Chunk)]]
    /\ status \in [Procs -> {"running", "left", "dead", "aborted"}]
    /\ open \in [Procs -> BOOLEAN]
    /\ pipe \in [Pipes -> Seq(Mark)]
=============================================================================
