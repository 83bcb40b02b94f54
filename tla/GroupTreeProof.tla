--------------------------- MODULE GroupTreeProof ---------------------------
(***************************************************************************)
(* Proofs about GroupTree for every number of processes, every set of      *)
(* programs, every pipe size and every set of processes that may die.      *)
(***************************************************************************)
EXTENDS GroupTreeCorrect, SequenceTheorems, TLAPS

LEMMA PhaseNumbers ==
    /\ Outside = 0 /\ ToFirst = 1 /\ FromRoot = 2 /\ FromLeft = 3 /\ FromRight = 4
    /\ ToParent = 5 /\ FromParent = 6 /\ ToLeft = 7 /\ ToRight = 8
    /\ ToRoot = 9 /\ FromFirst = 10 /\ Leaving = 11
  BY DEF Outside, ToFirst, FromRoot, FromLeft, FromRight, ToParent, FromParent,
         ToLeft, ToRight, ToRoot, FromFirst, Leaving

LEMMA SizeTyped ==
    ASSUME NEW me \in Procs, NEW o \in Op, NEW ph \in Outside .. Leaving
    PROVE  /\ Size(me, ph, o) \in Nat
           /\ Size(me, Leaving, o) = 1
  <1>1. Packets(ph, o) \in Nat
    BY DEF Packets, Op
  <1>2. TakesPart(me, Leaving, o)
    BY PhaseNumbers, SMT DEF TakesPart
  <1>3. Packets(Leaving, o) = 1
    BY PhaseNumbers DEF Packets, CarriesData
  <1> QED
    BY <1>1, <1>2, <1>3 DEF Size

\* Every process has a phase to go to: the last one is never empty.  It is
\* what NextPhase says: there are packets to move in it, and none before it.
LEMMA NextPhaseFinds ==
    ASSUME NEW me \in Procs, NEW o \in Op, NEW ph \in Outside .. FromFirst
    PROVE  LET n == NextPhase(me, ph, o) IN
           /\ n \in ph + 1 .. Leaving
           /\ Size(me, n, o) > 0
           /\ \A m \in ph + 1 .. n - 1 : Size(me, m, o) = 0
  <1> DEFINE Todo(m) == Size(me, m, o)
             First(n) == Todo(n) > 0 /\ \A m \in ph + 1 .. n - 1 : Todo(m) = 0
  <1>1. \A m \in Outside .. Leaving : Todo(m) \in Nat
    BY SizeTyped
  <1>2. Todo(11) > 0
    BY SizeTyped, PhaseNumbers
  <1>3. \E n \in ph + 1 .. 11 : First(n)
    <2> HIDE DEF Todo
    <2>1. ph \in 0 .. 10 /\ \A m \in 0 .. 11 : Todo(m) \in Nat
      BY <1>1, PhaseNumbers
    <2>2. \A k \in 1 .. 11 : (\A m \in ph + 1 .. k - 1 : Todo(m) = 0) \/ \E n \in ph + 1 .. k - 1 : First(n)
      <3> DEFINE P(k) == (\A m \in ph + 1 .. k - 1 : Todo(m) = 0) \/ \E n \in ph + 1 .. k - 1 : First(n)
      <3>1. P(1)
        BY <2>1
      <3>2. \A k \in 1 .. 10 : P(k) => P(k + 1)
        BY <2>1
      <3> HIDE DEF P
      <3>3. P(2) /\ P(3) /\ P(4) /\ P(5) /\ P(6)
        BY <3>1, <3>2
      <3>4. P(7) /\ P(8) /\ P(9) /\ P(10) /\ P(11)
        BY <3>2, <3>3
      <3>5. \A k \in 1 .. 11 : P(k)
        BY <3>1, <3>3, <3>4
      <3> QED  BY <3>5 DEF P
    <2> QED
      BY <1>2, <2>1, <2>2
  <1>4. NextPhase(me, ph, o) = CHOOSE n \in ph + 1 .. 11 : First(n)
    BY PhaseNumbers DEF NextPhase
  <1>5. NextPhase(me, ph, o) \in ph + 1 .. 11 /\ First(NextPhase(me, ph, o))
    <2> HIDE DEF First
    <2> QED  BY <1>3, <1>4
  <1> QED
    BY <1>5, PhaseNumbers

\* A process that moves a packet in a phase does it on a pipe that exists, and
\* data move only as chunks of the call.
LEMMA PipeExists ==
    ASSUME NEW me \in Procs, NEW o \in Op, ValidRoot(o),
           NEW ph \in Transfers, Size(me, ph, o) > 0
    PROVE  /\ PipeOf(me, ph, o) \in Pipes
           /\ TakesPart(me, ph, o)
           /\ CarriesData(ph, o) => Size(me, ph, o) = o.count
  <1>1. TakesPart(me, ph, o)
    BY DEF Size
  <1>2. N \in Nat /\ me \in 1 .. N /\ o.root \in Int
    BY SizesAssumption DEF Procs, Op
  <1>3. \A k \in {"up", "down", "first", "root"}, c \in 2 .. N : <<k, c>> \in Pipes
    BY DEF Pipes
  <1>4. ph \in 1 .. 10
    BY PhaseNumbers DEF Transfers
  <1>5. PipeOf(me, ph, o) \in Pipes
    <2>1. CASE ph = 1
      BY <1>1, <1>2, <1>3, <2>1, PhaseNumbers DEF TakesPart, PipeOf
    <2>2. CASE ph = 2
      BY <1>1, <1>2, <1>3, <2>2, PhaseNumbers DEF TakesPart, PipeOf, ValidRoot, Root
    <2>3. CASE ph \in 3 .. 4
      BY <1>1, <1>2, <1>3, <2>3, PhaseNumbers DEF TakesPart, PipeOf, HasChild
    <2>4. CASE ph \in 5 .. 6
      BY <1>1, <1>2, <1>3, <2>4, PhaseNumbers DEF TakesPart, PipeOf
    <2>5. CASE ph \in 7 .. 8
      BY <1>1, <1>2, <1>3, <2>5, PhaseNumbers DEF TakesPart, PipeOf, HasChild
    <2>6. CASE ph = 9
      BY <1>1, <1>2, <1>3, <2>6, PhaseNumbers DEF TakesPart, PipeOf, ValidRoot, Root
    <2>7. CASE ph = 10
      BY <1>1, <1>2, <1>3, <2>7, PhaseNumbers DEF TakesPart, PipeOf
    <2> QED  BY <1>4, <2>1, <2>2, <2>3, <2>4, <2>5, <2>6, <2>7
  <1> QED
    BY <1>1, <1>5 DEF Size, Packets

\* What reducer stores is a byte again.
LEMMA ReducerTyped ==
    ASSUME NEW a \in Byte, NEW b \in Byte, NEW op \in MIMPI_Op
    PROVE  Reducer(a, b, op) \in Byte
  <1>1. \A n \in Int : Wrap(n) \in Byte
    BY DEF Wrap, Byte
  <1>2. a \in Int /\ b \in Int /\ a * b \in Int /\ a + b \in Int
    BY DEF Byte
  <1>3. CASE op = "MAX"
    BY <1>3 DEF Reducer
  <1>4. CASE op = "MIN"
    BY <1>4 DEF Reducer
  <1>5. CASE op = "PROD"
    BY <1>1, <1>2, <1>5, Zenon DEF Reducer
  <1>6. CASE op = "SUM"
    BY <1>1, <1>2, <1>6, Zenon DEF Reducer
  <1> QED
    BY <1>3, <1>4, <1>5, <1>6 DEF MIMPI_Op

LEMMA ChunksTyped ==
    /\ Token \in Chunk
    /\ \A p \in Procs, i \in Nat : Own(p, i) \in Chunk
  <1>1. \A p \in Procs, i \in Nat : Data[p] + i \in Int
    BY DataAssumption DEF Byte
  <1>2. \A n \in Int : Wrap(n) \in Byte
    BY DEF Wrap, Byte
  <1>3. Token \in Chunk
    BY DEF Token, Chunk, Byte
  <1> QED
    BY <1>1, <1>2, <1>3, Zenon DEF Own, Chunk

\* The data of a call stay chunks, one for every packet of its count.
LEMMA DataTyped ==
    ASSUME NEW p \in Procs, NEW o \in Op
    PROVE  /\ Initial(p, o) \in [1 .. o.count -> Chunk]
           /\ \A buf \in [1 .. o.count -> Chunk], i \in 1 .. o.count, val \in Chunk, ph \in Nat :
                  Absorb(buf, i, val, ph, o) \in [1 .. o.count -> Chunk]
           /\ [1 .. o.count -> Chunk] \subseteq Seq(Chunk)
  <1>1. Initial(p, o) \in [1 .. o.count -> Chunk]
    BY ChunksTyped DEF Initial, Op
  <1>2. ASSUME NEW buf \in [1 .. o.count -> Chunk], NEW i \in 1 .. o.count,
               NEW val \in Chunk, NEW ph \in Nat
        PROVE  Absorb(buf, i, val, ph, o) \in [1 .. o.count -> Chunk]
    <2>1. Reducer(val, buf[i], o.op) \in Chunk
      BY ReducerTyped DEF Chunk, Op
    <2> QED  BY <2>1 DEF Absorb
  <1>3. o.count \in Nat
    BY DEF Op
  <1> QED
    <2>1. ASSUME NEW buf \in [1 .. o.count -> Chunk]  PROVE buf \in Seq(Chunk)
      BY <1>3
    <2> QED  BY <1>1, <1>2, <2>1, Zenon

LEMMA TypingInit == Init => TypeOK
  BY EmptySeq, PhaseNumbers DEF Init, TypeOK, InCall, Codes

\* A program's calls are operations.
LEMMA ScriptTyped ==
    ASSUME TypeOK, NEW i \in 1 .. Len(script)
    PROVE  script[i] \in Op
  BY ScriptsAssumption, ElementOfSeq DEF TypeOK

\* What TypeOK says of a process that moves a packet.
LEMMA BusyTyped ==
    ASSUME TypeOK, NEW p \in Procs, Busy(p)
    PROVE  /\ Current(p) \in Op /\ round[p] \in 1 .. Len(script) /\ ValidRoot(Current(p))
           /\ phase[p] \in Outside .. FromFirst /\ phase[p] \in Nat
           /\ Here(p) \in Pipes /\ pipe[Here(p)] \in Seq(Mark)
           /\ moved[p] \in Nat /\ moved[p] + 1 <= Size(p, phase[p], Current(p))
           /\ acc[p] \in [1 .. Current(p).count -> Chunk]
           /\ CarriesData(phase[p], Current(p)) => moved[p] + 1 \in 1 .. Current(p).count
  <1>1. phase[p] \in Transfers /\ phase[p] # Outside /\ phase[p] \in 1 .. 10
    BY PhaseNumbers DEF Busy, Transfers
  <1>2. /\ round[p] \in 1 .. Len(script) /\ ValidRoot(Current(p))
        /\ moved[p] < Size(p, phase[p], Current(p)) /\ moved[p] \in Nat
        /\ acc[p] \in [1 .. Current(p).count -> Chunk]
    BY <1>1 DEF TypeOK, InCall
  <1>3. Current(p) \in Op
    BY <1>2, ScriptTyped DEF Current
  <1>4. Size(p, phase[p], Current(p)) \in Nat
    BY <1>1, <1>3, SizeTyped, PhaseNumbers
  <1>5. /\ Here(p) \in Pipes
        /\ CarriesData(phase[p], Current(p)) => Size(p, phase[p], Current(p)) = Current(p).count
    BY <1>1, <1>2, <1>3, <1>4, PipeExists DEF Here
  <1> QED
    BY <1>1, <1>2, <1>3, <1>4, <1>5, PhaseNumbers DEF TypeOK

\* Whatever moved, the process is left with something to do in its phase.
LEMMA AdvanceTyped ==
    ASSUME TypeOK, NEW p \in Procs, Busy(p), Advance(p)
    PROVE  /\ phase' \in [Procs -> Outside .. Leaving] /\ moved' \in [Procs -> Nat]
           /\ phase'[p] # Outside /\ moved'[p] < Size(p, phase'[p], Current(p))
           /\ \A q \in Procs \ {p} : phase'[q] = phase[q] /\ moved'[q] = moved[q]
  <1>1. /\ phase \in [Procs -> Outside .. Leaving] /\ moved \in [Procs -> Nat]
        /\ phase[p] # Outside
    BY PhaseNumbers DEF TypeOK, Busy, Transfers
  <1>2. Current(p) \in Op /\ phase[p] \in Outside .. FromFirst
    BY BusyTyped
  <1>3. CASE LastPacket(p)
    <2> DEFINE n == NextPhase(p, phase[p], Current(p))
    <2>1. n \in phase[p] + 1 .. Leaving /\ Size(p, n, Current(p)) > 0
      BY <1>2, NextPhaseFinds
    <2>2. n \in Outside .. Leaving /\ n # Outside
      BY <1>2, <2>1, PhaseNumbers
    <2> HIDE DEF n
    <2>3. phase' = [phase EXCEPT ![p] = n] /\ moved' = [moved EXCEPT ![p] = 0]
      BY <1>3 DEF Advance, n
    <2> QED  BY <1>1, <2>1, <2>2, <2>3
  <1>4. CASE ~LastPacket(p)
    <2>1. moved' = [moved EXCEPT ![p] = @ + 1] /\ phase' = phase
      BY <1>4 DEF Advance
    <2>2. moved[p] + 1 < Size(p, phase[p], Current(p))
      <3>1. Size(p, phase[p], Current(p)) \in Nat
        BY <1>1, <1>2, SizeTyped
      <3> QED  BY <1>1, <1>4, <3>1 DEF LastPacket
    <2> QED  BY <1>1, <2>1, <2>2
  <1> QED
    BY <1>3, <1>4

\* A step of one process keeps what TypeOK says of the others.
LEMMA InCallKept ==
    ASSUME NEW q \in Procs, InCall(q), script' = script,
           phase'[q] = phase[q], round'[q] = round[q], moved'[q] = moved[q], acc'[q] = acc[q]
    PROVE  InCall(q)'
  BY DEF InCall, Current

\* One that moves a packet keeps it for the process that does.
LEMMA InCallMoves ==
    ASSUME TypeOK, NEW p \in Procs, Busy(p), script' = script, round' = round,
           moved'[p] < Size(p, phase'[p], Current(p)),
           acc'[p] \in [1 .. Current(p).count -> Chunk]
    PROVE  InCall(p)'
  <1>1. round[p] \in 1 .. Len(script) /\ ValidRoot(Current(p))
    BY BusyTyped
  <1>2. Current(p)' = Current(p)
    BY DEF Current
  <1> QED
    BY <1>1, <1>2 DEF InCall

LEMMA TypingLibrary ==
    ASSUME TypeOK, NEW p \in Procs, LibraryStep(p)
    PROVE  TypeOK'
  <1>1. CASE GroupSend(p)
    <2>0. Busy(p) /\ Advance(p) /\ UNCHANGED <<script, round, done, acc, ret, status, open>>
      BY <1>1 DEF GroupSend, Sending
    <2> DEFINE val == IF CarriesData(phase[p], Current(p)) THEN acc[p][moved[p] + 1] ELSE Token
               mark == [round |-> round[p], chunk |-> moved[p] + 1, val |-> val]
    <2>1. val \in Chunk
      BY <2>0, BusyTyped, ChunksTyped
    <2>2. mark \in Mark
      BY <2>0, <2>1, BusyTyped DEF Mark, TypeOK
    <2> HIDE DEF mark
    <2>3. pipe' = [pipe EXCEPT ![Here(p)] = Append(@, mark)]
      BY <1>1 DEF GroupSend, mark
    <2>4. pipe' \in [Pipes -> Seq(Mark)]
      BY <2>0, <2>2, <2>3, BusyTyped, AppendProperties DEF TypeOK
    <2>5. InCall(p)'
      BY <2>0, BusyTyped, AdvanceTyped, InCallMoves
    <2>6. \A q \in Procs \ {p} : InCall(q)'
      BY <2>0, AdvanceTyped, InCallKept DEF TypeOK
    <2> QED
      BY <2>0, <2>4, <2>5, <2>6, AdvanceTyped DEF TypeOK
  <1>2. CASE GroupRecv(p)
    <2>0. /\ Busy(p) /\ Advance(p) /\ UNCHANGED <<script, round, done, ret, status, open>>
          /\ pipe[Here(p)] # <<>> /\ pipe' = [pipe EXCEPT ![Here(p)] = Tail(@)]
      BY <1>2 DEF GroupRecv, Receiving
    <2>1. Head(pipe[Here(p)]) \in Mark /\ Tail(pipe[Here(p)]) \in Seq(Mark)
      BY <2>0, BusyTyped, HeadTailProperties
    <2>2. pipe' \in [Pipes -> Seq(Mark)]
      BY <2>0, <2>1, BusyTyped DEF TypeOK
    <2> DEFINE val == Head(pipe[Here(p)]).val
    <2>3. val \in Chunk
      BY <2>1 DEF Mark
    <2>4. /\ acc'[p] \in [1 .. Current(p).count -> Chunk]
          /\ \A q \in Procs \ {p} : acc'[q] = acc[q]
      <3> HIDE DEF val
      <3>0. acc \in [Procs -> Seq(Chunk)]
        BY DEF TypeOK
      <3>1. CASE CarriesData(phase[p], Current(p))
        <4>1. acc' = [acc EXCEPT ![p] = Absorb(@, moved[p] + 1, val, phase[p], Current(p))]
          BY <1>2, <3>1 DEF GroupRecv, val
        <4>2. Absorb(acc[p], moved[p] + 1, val, phase[p], Current(p)) \in [1 .. Current(p).count -> Chunk]
          BY <2>0, <2>3, <3>1, BusyTyped, DataTyped
        <4> QED  BY <3>0, <4>1, <4>2
      <3>2. CASE ~CarriesData(phase[p], Current(p))
        BY <1>2, <2>0, <3>2, BusyTyped DEF GroupRecv
      <3> QED  BY <3>1, <3>2
    <2>5. InCall(p)'
      BY <2>0, <2>4, AdvanceTyped, InCallMoves
    <2>6. \A q \in Procs \ {p} : InCall(q)'
      BY <2>0, <2>4, AdvanceTyped, InCallKept DEF TypeOK
    <2>7. acc' \in [Procs -> Seq(Chunk)]
      <3>1. acc'[p] \in Seq(Chunk)
        BY <2>0, <2>4, BusyTyped, DataTyped
      <3>2. acc \in [Procs -> Seq(Chunk)] /\ \E v : acc' = [acc EXCEPT ![p] = v]
        <4>1. acc \in [Procs -> Seq(Chunk)]
          BY DEF TypeOK
        <4>2. acc = [acc EXCEPT ![p] = acc[p]]
          BY <4>1
        <4> QED  BY <1>2, <4>1, <4>2 DEF GroupRecv
      <3> QED  BY <3>1, <3>2
    <2> QED
      BY <2>0, <2>2, <2>5, <2>6, <2>7, AdvanceTyped DEF TypeOK
  <1>3. CASE GroupFails(p)
    <2>1. /\ UNCHANGED <<script, round, done, moved, acc, status>>
          /\ open' = [open EXCEPT ![p] = FALSE]
          /\ pipe' = [x \in Pipes |-> IF Reader(x) = p THEN <<>> ELSE pipe[x]]
          /\ ret' = [ret EXCEPT ![p] = [code |-> "ERROR_REMOTE_FINISHED", data |-> <<>>]]
          /\ phase' = [phase EXCEPT ![p] = Outside]
      BY <1>3 DEF GroupFails, CloseGroupPipes, Return
    <2>2. phase' \in [Procs -> Outside .. Leaving]
      BY <2>1, PhaseNumbers DEF TypeOK
    <2>3. \A q \in Procs : InCall(q)'
      <3>1. InCall(p)'
        BY <2>1 DEF InCall, TypeOK
      <3>2. \A q \in Procs \ {p} : InCall(q)'
        BY <2>1, InCallKept DEF TypeOK
      <3> QED  BY <3>1, <3>2
    <2>4. ret' \in [Procs -> [code: Codes, data: Seq(Chunk)]]
      BY <2>1, EmptySeq DEF TypeOK, Codes
    <2>5. pipe' \in [Pipes -> Seq(Mark)] /\ open' \in [Procs -> BOOLEAN]
      BY <2>1, EmptySeq DEF TypeOK
    <2> QED
      BY <2>1, <2>2, <2>3, <2>4, <2>5 DEF TypeOK
  <1>4. CASE Abort(p)
    BY <1>4 DEF Abort, TypeOK, InCall, Current
  <1>5. CASE Succeed(p)
    <2>1. round[p] \in 1 .. Len(script) /\ acc[p] \in [1 .. Current(p).count -> Chunk]
      BY <1>5, PhaseNumbers DEF Succeed, TypeOK, InCall
    <2>2. Current(p) \in Op
      BY <2>1, ScriptTyped DEF Current
    <2>3. Result(p, Current(p)) \in Seq(Chunk)
      BY <2>1, <2>2, DataTyped, EmptySeq DEF Result
    <2>4. /\ UNCHANGED <<script, round, moved, acc, status, open, pipe>>
          /\ done' = [done EXCEPT ![p] = round[p]]
          /\ ret' = [ret EXCEPT ![p] = [code |-> "SUCCESS", data |-> Result(p, Current(p))]]
          /\ phase' = [phase EXCEPT ![p] = Outside]
      BY <1>5 DEF Succeed, Return
    <2>5. \A q \in Procs : InCall(q)'
      <3>1. InCall(p)'
        BY <2>4 DEF InCall, TypeOK
      <3>2. \A q \in Procs \ {p} : InCall(q)'
        BY <2>4, InCallKept DEF TypeOK
      <3> QED  BY <3>1, <3>2
    <2>6. ret' \in [Procs -> [code: Codes, data: Seq(Chunk)]]
      BY <2>3, <2>4 DEF TypeOK, Codes
    <2>7. phase' \in [Procs -> Outside .. Leaving] /\ done' \in [Procs -> Nat]
      BY <2>4, PhaseNumbers DEF TypeOK
    <2> QED
      BY <2>4, <2>5, <2>6, <2>7 DEF TypeOK
  <1> QED
    BY <1>1, <1>2, <1>3, <1>4, <1>5 DEF LibraryStep

\* A call of the program, rejected or not, and the end of the process.
LEMMA TypingProgram ==
    ASSUME TypeOK, NEW p \in Procs, ProgramStep(p) \/ Die(p)
    PROVE  TypeOK'
  <1>0. script \in Seq(Op)
    BY ScriptsAssumption DEF TypeOK
  <1>1. CASE Call(p)
    <2> DEFINE o == script[round[p] + 1]
               n == NextPhase(p, Outside, o)
    <2>1. /\ round[p] \in Nat /\ round[p] + 1 \in 1 .. Len(script) /\ ValidRoot(o)
      BY <1>0, <1>1 DEF Call, TypeOK
    <2>2. o \in Op
      BY <2>1, ScriptTyped
    <2>3. n \in Outside .. Leaving /\ Size(p, n, o) > 0
      BY <2>2, NextPhaseFinds, PhaseNumbers
    <2>4. Initial(p, o) \in [1 .. o.count -> Chunk] /\ Initial(p, o) \in Seq(Chunk)
      BY <2>2, DataTyped
    <2> HIDE DEF n
    <2>5. /\ phase' = [phase EXCEPT ![p] = n] /\ acc' = [acc EXCEPT ![p] = Initial(p, o)]
          /\ round' = [round EXCEPT ![p] = @ + 1] /\ moved' = [moved EXCEPT ![p] = 0]
          /\ ret' = [ret EXCEPT ![p] = [code |-> "NONE", data |-> <<>>]]
          /\ UNCHANGED <<script, done, status, open, pipe>>
      BY <1>1 DEF Call, n
    <2> HIDE DEF o
    <2>6. InCall(p)'
      <3>1. round'[p] = round[p] + 1 /\ moved'[p] = 0 /\ phase'[p] = n /\ acc'[p] = Initial(p, o)
        BY <2>5 DEF TypeOK
      <3>2. Current(p)' = o
        BY <2>5, <3>1 DEF Current, o
      <3> QED  BY <2>1, <2>3, <2>4, <2>5, <3>1, <3>2 DEF InCall
    <2>7. \A q \in Procs \ {p} : InCall(q)'
      BY <2>5, InCallKept DEF TypeOK
    <2>8. /\ phase' \in [Procs -> Outside .. Leaving] /\ acc' \in [Procs -> Seq(Chunk)]
          /\ moved' \in [Procs -> Nat]
      BY <2>3, <2>4, <2>5 DEF TypeOK
    <2>9. round' \in [Procs -> Nat] /\ \A q \in Procs : round'[q] <= Len(script)
      BY <2>1, <2>5 DEF TypeOK
    <2>10. ret' \in [Procs -> [code: Codes, data: Seq(Chunk)]]
      BY <2>5, EmptySeq DEF TypeOK, Codes
    <2> QED
      BY <2>5, <2>6, <2>7, <2>8, <2>9, <2>10 DEF TypeOK
  <1>2. CASE RejectCall(p)
    <2>1. /\ round[p] < Len(script) /\ phase[p] = Outside
          /\ round' = [round EXCEPT ![p] = @ + 1]
          /\ ret' = [ret EXCEPT ![p] = [code |-> "ERROR_NO_SUCH_RANK", data |-> <<>>]]
          /\ phase' = [phase EXCEPT ![p] = Outside]
          /\ UNCHANGED <<script, done, moved, acc, status, open, pipe>>
      BY <1>2 DEF RejectCall, Return
    <2>2. InCall(p)'
      BY <2>1 DEF InCall, TypeOK
    <2>3. \A q \in Procs \ {p} : InCall(q)'
      BY <2>1, InCallKept DEF TypeOK
    <2>4. /\ round' \in [Procs -> Nat] /\ \A q \in Procs : round'[q] <= Len(script)
          /\ phase' \in [Procs -> Outside .. Leaving]
      BY <1>0, <2>1, PhaseNumbers DEF TypeOK
    <2>5. ret' \in [Procs -> [code: Codes, data: Seq(Chunk)]]
      BY <2>1, EmptySeq DEF TypeOK, Codes
    <2> QED
      BY <2>1, <2>2, <2>3, <2>4, <2>5 DEF TypeOK
  <1>3. CASE Finalize(p) \/ Die(p)
    <2>1. /\ UNCHANGED <<script, round, done, phase, moved, acc, ret>>
          /\ status' = [status EXCEPT ![p] = "left"] \/ status' = [status EXCEPT ![p] = "dead"]
          /\ open' = [open EXCEPT ![p] = FALSE]
          /\ pipe' = [x \in Pipes |-> IF Reader(x) = p THEN <<>> ELSE pipe[x]]
      BY <1>3 DEF Finalize, Die, CloseGroupPipes
    <2>2. \A q \in Procs : InCall(q)'
      BY <2>1, InCallKept DEF TypeOK
    <2>3. pipe' \in [Pipes -> Seq(Mark)] /\ open' \in [Procs -> BOOLEAN]
      BY <2>1, EmptySeq DEF TypeOK
    <2>4. status' \in [Procs -> {"running", "left", "dead", "aborted"}]
      BY <2>1 DEF TypeOK
    <2> QED
      BY <2>1, <2>2, <2>3, <2>4 DEF TypeOK
  <1> QED
    BY <1>1, <1>2, <1>3 DEF ProgramStep

LEMMA TypingStep == TypeOK /\ [Next]_vars => TypeOK'
  <1> SUFFICES ASSUME TypeOK, [Next]_vars  PROVE TypeOK'
    OBVIOUS
  <1>1. CASE Next
    BY <1>1, TypingLibrary, TypingProgram DEF Next
  <1>2. CASE UNCHANGED vars
    BY <1>2 DEF vars, TypeOK, InCall, Current
  <1> QED
    BY <1>1, <1>2

(***************************************************************************)
(* GroupTyping: whatever the tree's size and the program, the variables    *)
(* keep their types, and a process inside a group call always has a packet *)
(* of its phase left to move, on a pipe that mimpirun has opened: the      *)
(* loops of GroupSend and GroupRecv (mimpi_common.c:531-569) never run     *)
(* past their buffer, and no call gets stuck between two transfers.        *)
(***************************************************************************)
THEOREM GroupTyping == Spec => []TypeOK
  BY TypingInit, TypingStep, PTL DEF Spec
=============================================================================
