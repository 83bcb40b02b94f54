# A verification project for MIMPI

MIMPI is a small message-passing library in C. `mimpirun` starts `n` copies of a
program and connects them with pipes; the library gives them ranks, point-to-point
messages and three group operations. This directory holds TLA+ models of the
library, the TLC configurations that check them and proofs that TLAPS checks.

Source positions are relative to the repository's root (`src/` in `PROJECT.json`).

## 1. The system

### Components

| Component | Code | Model |
|---|---|---|
| Point-to-point messaging | `mimpi.c` 59-98, `mimpi_common.c` 113-144, 280-518 | `PointToPoint`, refines `Mailbox`; signals: `Interrupted` |
| Group operations | `mimpi.c` 100-126, `mimpi_common.c` 89-111, 531-943 | `GroupTree`, refines `SyncPoint` |
| Initialisation, finalisation | `mimpi.c` 26-57, `mimpi_common.c` 147-277 | `PointToPoint` (Readers, lists), `GroupTree` (group pipes), `Launch` (descriptors) |
| Reduction arithmetic | `mimpi_common.c` 575-641 | `Reduction`, used by `GroupTree` |
| Launcher | `mimpirun.c` | `Launch` |
| Channels with delays | `channel.c` | the pipes of all models |
| Example programs, tests | `examples/`, `tests/` | not modelled; they state some of the claims |

**Point-to-point messaging.** State: for every peer a pipe in each direction, a
Reader thread, a linked list of messages that have arrived, a mutex for it and the
flag `has_finished`; for the whole process one condition variable, one record
`waiting_for` and one flag `added`. Operations: `MIMPI_Send` writes a count, the
data in chunks and a tag. A Reader repeats: read those, append the message to the
list, and, if it is what the main thread waits for, raise `added` and signal.
`MIMPI_Recv` scans the list; if nothing answers, it registers what it waits for and
sleeps until `added` or `has_finished` is up. Hard: the Readers and the main thread
share the list under one mutex, `waiting_for` under another and `has_finished`
under a third; the second scan of `Search` relies on what the flag means; a peer
may leave or die at any moment, also in the middle of a message; the pipes are
finite. Correct means: messages arrive once, whole, in order among those that
answer the same call; no wakeup is lost; the end of a peer is reported if and only
if nothing more can come; nothing is freed under a running thread; nobody waits
for ever without reason.

**Group operations.** State: per process the position in the call and its partial
data; a pipe up and a pipe down on every edge of a binary tree over ranks, and a
pair of direct pipes between the first process and every other. There are no
threads: all calls run in the main thread. Operations: `MIMPI_Barrier` (tokens up,
tokens down), `MIMPI_Bcast` (root to the first process, tokens up, data down),
`MIMPI_Reduce` (partial results up, tokens down, result from the first process to
the root). Hard: the pipes carry bare bytes, so only the order of reads and writes
separates one call from the next; a process may be a call ahead of another; a
process that leaves or dies must be noticed by everyone who depends on it, and by
nobody else. Correct means: nobody leaves a call before everyone has entered it;
the bytes of two calls never mix; data arrive complete and are combined exactly
once; failures spread to whoever would otherwise wait for ever.

**Initialisation and finalisation.** `MIMPI_Init` creates the lists and one Reader
per peer. `MIMPI_Finalize` closes the group pipes, closes the writing ends, joins the
Readers, closes the reading ends and frees the rest. A Reader ends only when its
peer has closed its end, so `MIMPI_Finalize` waits for every other process to reach
its own, or to die. Hard: that circle of waits, and the order of release.

**Reduction arithmetic.** `reducer` combines two byte arrays by MAX, MIN, SUM or PROD
modulo 256; the shape of the tree decides the order.

**Launcher.** State: the descriptor tables of `mimpirun` and of its children.
`mimpirun` opens all pipes under computed descriptor numbers, forks, closes in every
child the descriptors of the others, execs, closes its own copies and waits. Hard:
the library computes the same numbers by formulas of its own; the end of a pipe is
visible only if every copy of its writing end has been closed, in processes that may
still be starting; fork or exec may fail halfway. Correct means: every program gets
exactly its own ends, under the numbers it looks at; nobody sees the end of a pipe
while its owner may still write, and everybody does afterwards; the job ends.

**Channels.** `chsend` and `chrecv` are `write` and `read`, with an optional sleep.

### Interactions

The two groups of pipes are disjoint. The main thread of a process makes one call
at a time, so a group call and a point-to-point call of one process never overlap;
what runs beside a group call are the Readers, which touch no group state. This is
why the two halves are modelled apart. They meet in `MIMPI_Finalize` only, which
each half models as far as it concerns it, and whose order `Launch` has in full.

Both halves take for granted that a pipe has one reader and one writer and is at its
end when the writer has closed it or has gone. That is a fact about descriptors in
several processes, and `Launch` is where it is checked: `RightEnds` and `NoEarlyEof`
say that a live owner's end is there, `EofVisible` that in the end no other process keeps
one. While copies are still starting, one that has not pruned its table may hold the
reading end of a process that has gone, and a write that the other models let fail at
once succeeds, or blocks, a little longer; that window is in `Launch` only.

## 2. Modules

```
Messages            constants, argument checks, when a message answers a call
  Mailbox           abstract: boxes of whole messages
  PointToPoint      detailed: threads, pipes, mutexes, flags
    PointToPointCorrect   properties, the refinement of Mailbox
      MCPointToPoint      instances for TLC
      Interrupted         reads and writes interrupted by a signal
        MCInterrupted     its instance
      PointToPointProof   lemmas about Messages, Typing, Handshake
        DeliveryProof     Framing, the refinement of Mailbox
SyncPoint           abstract: calls that succeed together
Reduction           reducer on bytes
GroupTree           detailed: the tree, the direct pipes, the phases of the calls
  GroupTreeCorrect        properties, the refinement of SyncPoint
    GroupTreeOrder        the inductive invariants behind them
      MCGroupTree         instances for TLC
    GroupTreeProof        GroupTyping
      GroupOrderProof     the order of packets (extends GroupTreeOrder too)
        GroupSyncProof    who has begun a call, the refinement of SyncPoint
          GroupDataProof  the bytes
Launch              mimpirun, and what MIMPI_Finalize does to descriptors
  LaunchCorrect           properties
    LaunchTables          the inductive invariant about tables
      MCLaunch            instances for TLC
    LaunchProof           DescriptorsApart, three properties
      LaunchTablesProof   the tables (extends LaunchTables too), three properties
```

An operator commented "mutant" is not part of the model. It is a plausible bug in
place of the operator that follows it, kept to show that a property notices it; the
list is in `PROJECT.json`.

### PointToPoint

| Model | Code |
|---|---|
| `pc[p]`, `call`, `calls`, `sent`, `ret` | the main thread: where it is, arguments, locals, return code |
| `pipe[l]`, `wopen[l]`, `ropen[l]` | a pipe and its two ends; `<<i, j>>` carries what `j` sends to `i` |
| `rpc[l]`, `rbuf[l]` | the Reader of `i` for `j`, and the message it assembles |
| `list`, `mutex_list`, `waiting_for`, `added`, `has_finished` | the statics of `mimpi_common.c` 73-85 |

A step is what a thread does between two points where another can tell the
difference: one read or write on a pipe, or what it does from acquiring a contended
mutex on. `waiting_for_mutex` and `has_finished_mutex` protect single reads and writes
and become atomic steps; `mutex_list` is held across steps and is a variable.
`pthread_cond_wait` is `Sleep` (release and block at once), a wakeup by `Signal` or
`SpuriousWake`, and `Relock`. The gap between `CheckWait` and `Sleep` is in the code
(lines 381-384): the Reader's cleanup does not take `mutex_list`.

`added` is a plain flag that the main thread reads under the mutex of the list;
every Reader that raises it for a registered wait holds the same mutex, because it
raises it only for its own peer's wait. `AddedMeansMatch` and `MutexHeld` are where
this argument is checked and proved rather than assumed.

Abstracted: a count is a number of chunks, and a payload the number of the call
that sent it; memory allocation does not fail; `chsend` and `chrecv` move whole
packets (a chunk is at most 512 bytes, which a pipe writes atomically); the counts
and tags a program passes are non-negative; no signal interrupts a read or a write.

A process of the set `Mortal` may end at any step without `MIMPI_Finalize`; the kernel
then closes its ends of the pipes.

### Interrupted

`PointToPoint` without the last abstraction. A blocked read or write of a process in
`Interruptible` fails with `EINTR` (`ReadInterrupted`, `WriteInterrupted`); the thread then
makes the call again inside `ASSERT_SYS_OK` (the set `retrying`), which moves the packet
(`ReadAgain`, `WriteAgain`) or ends the process (`AgainFails`), and returns the -1 of the
first call. It serves one finding. It goes no further than one call a process: after
a `MIMPI_Send` that failed halfway the next one writes into the middle of a message, and
what the Reader makes of that depends on the bytes.

### GroupTree

| Model | Code |
|---|---|
| `script` | the program: the same sequence of group calls in every process (`mimpi.h` 106-111) |
| `round`, `done` | calls begun, and the last that returned `SUCCESS` |
| `phase`, `moved` | position in `Barrier`, `Bcast`, `Reduce`: which transfer, how many packets of it |
| `acc`, `ret` | `data`, `res_tab`, `recv_data`: one byte for every chunk |
| `status`, `open` | whether the process runs; whether its group descriptors are open |
| `pipe` | the pipes 700... (`up`, `down`) and 900... (`first`, `root`) |

The three operations are one sequence of phases, in the order of the code; `TakesPart`
says which process acts in a phase and `Packets` how much it moves. `GroupSend`,
`GroupRecv` are one turn of the loops of the same names. A packet carries a mark, the
call and the chunk it was written for, which no action reads: only `ReadsAligned` and
the invariants of `GroupTreeOrder` do.
After a failure `closeGroupPipes` closes the descriptors, and the next read or write
fails with `EBADF`, which `ASSERT_SYS_OK` turns into the end of the process (`Abort`).

Abstracted: one byte stands for the up to 512 bytes of a packet, since the library
moves them together and `reducer` treats them alike. The bytes are the program's
(`Data`); they differ between processes and between chunks, and `Reducer` combines them
as the code does, modulo 256 at every process on the way up.

### Launch

| Model | Code |
|---|---|
| `table[p]` | the descriptor table of `mimpirun` (`Main`) or of a copy: pairs of a number and what it stands for |
| `at[p]` | the position in `main`, in the child's part of it, or in the library |
| `code[p]` | the exit code |

An end of a pipe is known by who reads and who writes it, and by its side. The three
loops that open pipes, the three that prune a child and the three that close
`mimpirun`'s copies are one action each: nobody else can see a process's table, and
only the copies that fork makes of it matter. `CloseAsserted` is `close` inside
`ASSERT_SYS_OK`, which ends a process whose number is not open; `CloseAny` is `close`
without it. `dup2` to a number in use replaces what is there (`Open`).

The numbers that the library closes (`GroupNumbers`, `LibraryPointReads`,
`LibraryPointWrites`) and uses (`LibraryPoint`, `LibraryTree`, `LibraryDirect` of
`LaunchCorrect`) are translated from `mimpi_common.c`, those of `mimpirun` from
`mimpirun.c`. The formulas themselves (`PointRead`, `GroupRead`, `Direct`, ...) are the same
text in both sources and one operator here; what `RightEnds` compares is the indices
and slots: which numbers the loops of `mimpirun` leave to a rank, for which end, and
which ones the library looks at.

A program runs (`running`), may meet the end of a group pipe (`GroupFails`), calls
`MIMPI_Finalize` (`closing` to `finalized`) or ends without. Copies in `Mortal` may be killed
at any step, forks of ranks in `ForkMayFail` and execs of ranks in `ExecMayFail` may fail.

Abstracted: the environment variables that tell a copy its rank; the code a copy
ends with after exec; `mimpirun` itself is not killed, and `wait` does not fail.

## 3. Runs

Programs may stop at any point and leave processes waiting for one another, so no
configuration checks for deadlock as such; liveness properties say which waits must
end.

| Run | Instance | Shows |
|---|---|---|
| `p2p_pair` | 2 processes, 3 calls each, pipe of 2 packets, process 0 mortal | the handshake invariants, and refinement of `Mailbox` |
| `p2p_trio` | 3 processes, two senders and one receiver, pipe of 1 | the same with two Readers on one condition variable |
| `p2p_live` | 2 processes, 2 calls each, both directions, pipe of 1, process 0 mortal | liveness |
| `group_five` | 5 processes, four programs of three or four calls, pipe of 1, process 3 mortal | synchronisation, framing, data, refinement, liveness |
| `launch` | `mimpirun` and 4 copies; the forks of ranks 2 and 3 and the exec of rank 1 may fail, rank 0 may be killed | who holds which descriptor, ends of pipes, the end of the job |
| `p2p_recv_end`, `p2p_deadlock`, `p2p_late_send`, `group_abort`, `group_zero`, `launch_exec`, `interrupted` | 2 or 3 processes | the findings of section 5 |

### Bounds

- `PipeCap`, the packets a pipe holds, is 1 or 2 where blocking matters. That is the
  harshest case: a larger pipe only lets a writer run further ahead. A message of
  two chunks is four packets, so it fills either pipe and a writer blocks inside a
  message. The point-to-point runs for the findings use 3, so that no counterexample is due to a
  full pipe.
- `MaxCalls`: three calls a side give two messages out of order and a third call that
  meets what the earlier ones left (a stale flag, a remembered list position, a
  registered wait). Two calls a side suffice for liveness: the second meets what the
  first left.
- `Calls` of the pair: tags equal and different, counts equal and different, the tag
  `MIMPI_ANY_TAG`, an empty message, a rejected rank on either side of the check.
- The programs of `group_five` make every kind of call follow every other, with roots
  at the top, inside and at the bottom of the tree, calls of one and two packets, all
  four operators and a rejected root. A call interferes at most with the one before
  and after it, since no process can be two calls ahead (`GroupSync`). Five processes
  are the smallest tree with a process that has a parent and two children; the
  remaining shapes repeat. Process 3, a leaf next to an inner process, is mortal: its
  death reaches the others directly, through the root, and down the other branch.
- The bytes of `group_five` make every sum and product wrap around at least once on
  the way up, and put the largest and the smallest byte neither first nor last.
- Four copies in `launch` give a tree with an inner process, a first process that is
  killed while others depend on it, a fork that fails first or second of two, and a
  copy that runs while three are still starting. The formulas for numbers hold for
  every n up to 16 by proof (`DescriptorsApart`).
- `Mortal` is one process in the runs. The theorems hold for any set of mortal processes,
  so two deaths at a time are left open for liveness only.

### Properties

Point-to-point, safety: `AddedMeansMatch`, `NoLostMessageWakeup`, `FinishedMeansDrained`,
`ReadersStopLast`, their inductive strengthening `Handshake`; `Framing`, that a Reader takes
every packet for what it was written as; and `DeliversInOrder`: under
the mapping in `PointToPointCorrect` every step is a step of `Mailbox` or a stutter. The
box of a link is the list, then the message the Reader has in hand, then the messages
complete in the pipe; a send takes effect when its last packet is written.

Point-to-point, liveness: `ReceivesWhatIsSent`, `SendsReturn`, `FinalizeReturns`,
`RecvSeesFinished`. The last excludes the main thread that is past its last look at
`has_finished`; for that one the promise does not hold (section 5).

Group, safety: `GroupSync`, `ReadsAligned`, `NothingLeftBehind`, `DataArrives`, and
`Synchronises`, the refinement of `SyncPoint`, which adds to `GroupSync` that a call fails
only if some process has left without beginning it or has died. The inductive
invariants behind them, which the same run checks: `PacketsInOrder` (what is in a pipe,
given where its two ends are), `CallsInStep` (what a process knows of the others),
`LossesExplained` (why a packet never comes), `DataExact` (what each byte is worth).
Liveness: `CallsReturn`.
A program makes finitely many calls, so that every call returns is the same as that
in the end none is in progress, and the latter is what is checked.

Launcher, safety: `NothingOverwritten`, `ClosesOpenOnly`, `RightEnds`, `NoEarlyEof`,
`FinalizeReleases`, `WaitsForAll`, and `TablesExact`, the table of every process at every
place of its program. `ClosesOpenOnly` looks at the tables in the loops that close with an
assertion, since the exit code alone would not tell a failed close from a failed exec.
`NoEarlyEof` is about ends lost too early, also for the copies that live on after a fork
has failed; an end kept too long is what `TablesExact`, `EofVisible` and `JobEnds` notice.
Liveness: `EofVisible`, that in the end nobody holds a
writing end that its owner has given up, and `JobEnds`.

### Fairness

The system runs every thread that can run: weak fairness for each main thread's
library steps and each Reader. One condition stands for many waits: a main thread
whose `pthread_cond_wait` returns for nothing again and again could keep a Reader from
the mutex for ever, since a pthread mutex is not fair; so spurious wakeups are
assumed to come to an end. Nothing is assumed about what a program calls in
`PointToPoint`, and nothing about deaths. In `GroupTree` a program does not stay between
two calls for ever: it makes the next or leaves (weak fairness of all steps of a
process together). Without that nobody could be blamed for a call that waits. In
`Launch` `mimpirun` and the parts of a copy before exec and inside `MIMPI_Finalize` run
fairly. A program may run for ever: `EofVisible` holds all the same, and `JobEnds` says in
its hypothesis (`ProgramsEnd`) that none does.

## 4. Proofs

`tlapm` checks every theorem below for all values of the constants, from the
assumptions on the constants of each module, which TLC evaluates in every run:

- `Messages`, `PointToPoint`: `SizesAssumption` (N is positive and every process has a
  bound on its calls), `CallsAssumption` (ranks are any integers, counts and tags
  naturals), `MortalAssumption`, `PipeCapAssumption`;
- `GroupTree`: `SizesAssumption`, `DataAssumption` (a byte for every process),
  `ScriptsAssumption`, `MortalAssumption`;
- `Launch`: `CopiesAssumption` (`mimpirun` is for 1 to 16 copies), `FilesAssumption` (the
  numbers from 20 to 1023 are free when it starts, as the assignment grants, and one
  below 20 is, so that `channel()` does not land among them), `FaultsAssumption`.

| Theorem | States |
|---|---|
| `Typing` (`PointToPointProof`) | `Spec => []TypeOK` |
| `HandshakeHolds` (`PointToPointProof`) | `Spec => []Handshake` |
| `AddedMeansMatchHolds`, `NoLostMessageWakeupHolds`, `FinishedMeansDrainedHolds`, `ReadersStopLastHolds` (`PointToPointProof`) | the four safety properties, from `Handshake` |
| `FramingHolds` (`DeliveryProof`) | `Spec => []Framing` |
| `PointToPointImplementsMailbox` (`DeliveryProof`) | `Spec => DeliversInOrder`, the refinement of `Mailbox` |
| `GroupTyping` (`GroupTreeProof`) | `Spec => []TypeOK` of `GroupTree` |
| `GroupPacketsInOrder`, `GroupReadsAligned`, `GroupNothingLeftBehind` (`GroupOrderProof`) | the bytes of two calls never mix, and none are left over |
| `GroupLossesExplained` (`GroupSyncProof`) | `Spec => []LossesExplained` |
| `GroupCallsInStep`, `GroupSynchronised` (`GroupSyncProof`) | under `NonEmptyCalls`, nobody leaves a call before all have entered it |
| `GroupImplementsSyncPoint` (`GroupSyncProof`) | under `NonEmptyCalls`, `Spec => Synchronises`, the refinement of `SyncPoint` |
| `GroupDataExact`, `GroupDataArrives` (`GroupDataProof`) | a `MIMPI_Bcast` hands out the root's bytes, a `MIMPI_Reduce` the reduction of everybody's |
| `DescriptorsApart` (`LaunchProof`) | `NumbersApart`: the formulas give every end a number of its own, for every n up to 16 |
| `NothingOverwrittenHolds`, `ClosesOpenOnlyHolds`, `WaitsForAllHolds` (`LaunchProof`) | three safety properties of `Launch` |
| `LaunchTyping`, `TablesExactHolds` (`LaunchTablesProof`) | `Spec => []TypeOK`, `Spec => []TablesExact` |
| `RightEndsHold`, `NoEarlyEofHolds`, `FinalizeReleasesHolds` (`LaunchTablesProof`) | the other three safety properties of `Launch` |

`NonEmptyCalls` says that every `MIMPI_Bcast` and `MIMPI_Reduce` of the program has a count
above zero. It is a hypothesis because the code needs it: run `group_zero` is the
counterexample without it. No other theorem has a hypothesis.

### Point-to-point

`TypeOK` is inductive as it stands, because it includes that a main thread inside a
call works on a link that exists; its proof needs that the list search returns an
index (`FirstMatchFinds`) and that removing one keeps a sequence of messages
(`RemoveAtLeavesRest`), both in `PointToPointProof`.

The four safety properties are not inductive. `Handshake` is, together with `TypeOK`,
and its parts are the argument for the code:

- `MutexHeld`: who holds a list's mutex is a function of where the two threads are.
- `WaitRegistered`: `waiting_for` is the call in progress exactly between `RegisterWait`
  and `LeaveWait`. Without it a Reader could raise the flag for a past call.
- `FlagAnswers`: the flag is up only for an answered wait, and never when the main
  thread is going to sleep; and a wait ends for one of the two flags, so
  `WaitDelivers` with the flag down cannot happen. This part and the next are stated
  for one process, so that a step of another process is dealt with once (`WaitKept`,
  `OthersKept`).
- `AnswerFlagged`: an answer without the flag is a Reader about to raise it.
- `NewestNotified`: what a Reader notifies of is what it has just appended.
- `EndIsFinal`: past its last read, a Reader has drained a pipe nobody writes to.

A Reader appends and notifies in two steps; between them `AnswerFlagged` and `MutexHeld`
carry the argument, and the lemma `HasMatchAppend` turns "the list has an answer
now" into "it had one, or the new message is one".

`Framing` is inductive together with `TypeOK` and `Handshake`. It compares two places in a
message: where the sender is, and where the Reader will be once it has read what is in
the pipe. The latter is `Scanned`, a recursive function along the pipe. The theorem
library's definition by recursion takes an operator as a parameter, so that `Scanned`
is what its equation says is shown here for each pipe, as a fact about the least
length for which it fails (`ScannedDefined`, `ScannedSteps`); the lemmas that carry the
proof follow in the same way: a packet more at the end is a step more at the end
(`ScannedAppend`), and a packet taken from the front is a step of the Reader
(`ScannedTail`). So a writer moves one side, a Reader neither.

`PointToPointImplementsMailbox` maps every step: `SendTag` is `Mailbox`'s `Send`, for only
the last packet completes a message in the pipe (`NoneCompleted`, `BoxWritten`);
`SearchHit` and `WaitDelivers` are `Receive`, for the first answer in the list is the first
in the box (`FirstOfBox`, `RemoveFromBox`); `WaitFails` is `ReceiveFails`, and this is where
`EndIsFinal` and `AnswerFlagged` are needed: with the end seen and `added` down there is no
answer in the list and nothing in the pipe; `CloseWriting`, `JoinReaders` and `Die` are
`Close`, `Leave` and `Vanish`. All others, those of the Readers among them, are stutters:
a Reader moves a message inside the box (`DeliversReader`).

### Group operations

`GroupTyping` holds for every number of processes and every program, from the
assumptions in `GroupTree`. What it says beyond types is in `InCall`: a process inside a
call has packets of its phase left to move, and on a pipe that exists
(`NextPhaseFinds`, `PipeExists`). So the tree's arithmetic never leads to a descriptor
that `mimpirun` did not open, and the loops never run past the buffer of a call. That
the buffer holds bytes rests on `ReducerTyped`: the remainder modulo 256.

Every pipe has one writer and one reader (`PipeEnds`), and each of them uses it in one
phase. Which packets are due there follows from the program alone, and the two ends
agree on it (`EndsAgree`, `DueAgreed`). `PacketsInOrder` says of a pipe whose reader is there
that it holds due packets in order, none of them read, with nothing missing before
them, and, while the writer is there too, all it has sent. A read then takes the next
packet the reader is owed (`HeadIsNext`), which is `ReadsAligned`; and a process that has
finished its program has been owed nothing (`NothingLeftBehind`). The proof sees three
kinds of steps of one pipe only: its writer sends, its reader receives, neither
(`EveryPipeStep`).

`GroupSync` is the end of an induction along the tree, put into an invariant. `Below[c]`
is the part of the tree under `c`; `CallsInStep` says that a packet on the way up means
that everybody below its sender has begun the call, that a process past its children
knows it of everybody below them, and that packets on the way down, and whoever has
passed them on, know it of everybody (`ReadTells`, `MoveKnows`, `RootKnows`: below the first
process are all). `NonEmptyCalls` enters in one lemma, `NotSkipped`: no phase of an edge
is left out.

`LossesExplained` says that what is missing for good belongs to a call that some process
has left without beginning, or died in; a process that fails passes this on, since the
packet it could not move names the call (`FailureExplained`, `ClosingExplained`). With
`CallsInStep` it gives the step simulation of `SyncPoint` (`RefinementStep`).

`DataExact` gives each byte. In a `MIMPI_Reduce` a byte stands for a set of processes: those
its holder has collected so far, everybody below the sender for a packet on the way
up, everybody for the result. A step on the way up joins two sets, which are disjoint
(`BelowApart`), and everybody below a process is the process and those below its children
(`BelowJoin`); `ReducedJoin` says that `reducer` of the bytes of two disjoint sets is the byte
of their union, for each operator. `Reduced` is stated without the tree: greatest, least,
and running sum and product modulo 256 over the processes in the order of their ranks.
So the theorem says that the shape of the tree and the wraparound on the way up do not
show in the result, which rests on `SumsWrap` and `ProductsWrap`. That the running sums and
products exist is again shown by a least counterexample (`UpTo`, `RunsExist`). Which packet is
read is known from `PacketsInOrder`; `NonEmptyCalls` is not needed.

### Launcher

`DescriptorsApart` is arithmetic over the four formulas: first what an entry of each loop
looks like (`PointShape`, `TreeShape`, `DirectShape`), then that the ranges of the loops are
apart and that within a loop a number determines its end. The interesting case is the
point-to-point range: reading ends are at odd multiples of 20 and writing ends at even
ones, which works because there are at most 16 ranks.

On it rest two invariants about tables. `OpenedSoFar` says what `mimpirun` holds before
each loop that opens pipes: the files and what the earlier loops opened; as numbers are
apart and the files keep out of their range (`FilesApart`), `dup2` replaces nothing
(`OpenAdds`). `HoldsNeeded` says that every process holds what it has still to close
with an assertion (`Needed`, a function of its place): a loop closes numbers of its own
pipes only (`PruneKnown`, where the child's formulas meet those of `main`), and so leaves
alone what later loops close (`CloseLeaves`). `ClosesOpenOnly` is the same
with numbers for entries. `WaitsForAll` needs only that a copy that
has ended has an exit code (`EndedHaveCodes`).

`TablesExact` sharpens `HoldsNeeded` from what a process holds at least to what it holds:
the table of each process is a function of its place (`LauncherHolds`, `ChildHolds`), except
that a running program may have lost its group pipes. The work is in the child's loops:
of the entries a loop of `main` makes, the child's formulas close those of other
ranks and no others (`PointOwned`, `TreeOwned`, `DirectOwned`), and the library closes all
of its own group ends and, whatever other numbers it tries, nothing else
(`GroupClosed`). The three properties follow without another induction: `RightEnds`, because
a program holds the ends it owns and the numbers the library looks at are theirs (`AllOwned`); `NoEarlyEof`, because a live owner keeps its writing end up to
the place where the library closes it; `FinalizeReleases`, because past the last loop of
`MIMPI_Finalize` the files are all there is.

### Only model-checked

Liveness: `ReceivesWhatIsSent`, `SendsReturn`, `FinalizeReturns`, `RecvSeesFinished`, `CallsReturn`,
`EofVisible` and `JobEnds`. TLAPS cannot reason about fairness and ENABLED here. Every other
property of a passing run is proved. The findings of section 5 are counterexamples,
and for these a run is the right tool.

## 5. Where code and documentation disagree

Each is a run that TLC must find violated.

1. `p2p_recv_end`: a `MIMPI_Recv` can sleep for ever although the sender has left. The
   flag is read under one mutex, the wait releases another, and the Reader sets the
   flag and signals in between (`mimpi_common.c` 280-293, 381-384; `mimpi.h` 94-95).
2. `p2p_deadlock`: `MIMPI_Init(true)` promises deadlock detection (`mimpi.h` 96-97,
   `examples/deadlock.c` 16); the flag is stored and never read (156).
3. `p2p_late_send`: a `MIMPI_Send` to a process inside `MIMPI_Finalize` succeeds
   (`mimpi.h` 39-40, `examples/pipe_closed.c` 28).
4. `group_abort`: the group call after a failed one ends the process (89-111; `mimpi.h`
   115-116).
5. `group_zero`: with count 0 a `MIMPI_Bcast` or `MIMPI_Reduce` is no synchronisation
   point (531-569; `mimpi.h` 126, 153).
6. `launch_exec`: `mimpirun` returns 0 although an exec failed (`mimpirun.c` 149, 186, 201;
   `assignment_EN.md` 13).
7. `interrupted`: in a program that handles a signal without `SA_RESTART`, `MIMPI_Send` and
   `MIMPI_Recv` report the end of a peer that still runs (`mimpi_common.c` 113-144; `mimpi.h`
   69-70, 94-95).

## 6. Not modelled, and the plan

Not modelled, because nothing about it can be checked here: the sleeps of `channel.c`
(they delay a step, and every delay is an interleaving), memory management, the
environment variables that hand out ranks, the shell around the tests.

Not modelled, for other reasons:

- The example programs use the library and keep no state of their own; what their
  assertions claim of it is in the findings.
- Interrupted group calls: their helpers (89-111) have the same fault as the
  point-to-point ones, and afterwards the byte stream of the tree is out of step. What
  then happens depends on bytes that a packet does not show.
- Group calls and point-to-point calls in one process: a product of two models that
  share no variable. The main thread makes one call at a time, the Readers touch no
  group state, and the one place where both matter, `MIMPI_Finalize`, is in `Launch` with
  the order of its closes and the wait between them.

The properties that are planned are modelled and checked, and the safety ones are
proved. What could still be added:

1. A second inductive look at `Interrupted`: which of the point-to-point invariants survive
   a signal, beside the promise that does not.
2. Sufficient conditions under which the findings do not occur, such as that a
   `MIMPI_Recv` for which the peer's end was seen before it began does return.
