-------------------------- MODULE GroupOrderProof ---------------------------
(***************************************************************************)
(* Proofs that the packets of group calls stay in order, for every number  *)
(* of processes, every program and every pipe size, whoever fails.         *)
(***************************************************************************)
EXTENDS GroupTreeOrder, GroupTreeProof

(***************************************************************************)
(* The two ends of a pipe.                                                 *)
(***************************************************************************)
LEMMA PipeParts ==
    ASSUME NEW x \in Pipes
    PROVE  /\ x[1] \in {"up", "down", "first", "root"} /\ x[2] \in 2 .. N
           /\ x = <<x[1], x[2]>>
  BY DEF Pipes

LEMMA Halves ==
    ASSUME NEW c \in 2 .. N
    PROVE  /\ c \in Procs /\ Parent(c) \in Procs /\ Parent(c) # c /\ 1 \in Procs
           /\ LeftChild(c) => c = 2 * Parent(c)
           /\ ~LeftChild(c) => c = 2 * Parent(c) + 1
  BY SizesAssumption DEF Procs, Parent, LeftChild

LEMMA PipeEnds ==
    ASSUME NEW x \in Pipes
    PROVE  /\ Writer(x) \in Procs /\ Reader(x) \in Procs /\ Writer(x) # Reader(x)
           /\ WritePhase(x) \in Sends /\ ReadPhase(x) \in Transfers \ Sends
           /\ WritePhase(x) \in 1 .. 9 /\ ReadPhase(x) \in 2 .. 10
  <1>1. x[1] \in {"up", "down", "first", "root"} /\ x[2] \in 2 .. N
    BY PipeParts
  <1>2. x[2] # 1 /\ x[2] \in Procs /\ Parent(x[2]) \in Procs /\ Parent(x[2]) # x[2] /\ 1 \in Procs
    BY <1>1, Halves, SizesAssumption
  <1>3. Writer(x) \in Procs /\ Reader(x) \in Procs /\ Writer(x) # Reader(x)
    BY <1>1, <1>2 DEF Writer, Reader
  <1>4. WritePhase(x) \in {1, 5, 7, 8, 9} /\ ReadPhase(x) \in {2, 3, 4, 6, 10}
    BY <1>1, PhaseNumbers DEF WritePhase, ReadPhase
  <1> QED
    BY <1>3, <1>4, PhaseNumbers DEF Sends, Transfers

\* Both ends know from the operation how many packets go through the pipe.
LEMMA EndsAgree ==
    ASSUME NEW x \in Pipes, NEW o \in Op, ValidRoot(o), NEW i \in Nat, i > 0
    PROVE  (PipeOf(Writer(x), WritePhase(x), o) = x /\ i <= Size(Writer(x), WritePhase(x), o))
           <=> (PipeOf(Reader(x), ReadPhase(x), o) = x /\ i <= Size(Reader(x), ReadPhase(x), o))
  <1> DEFINE c == x[2]
  <1>1. c \in 2 .. N /\ c # 1 /\ c <= N /\ o.count \in Nat
    BY PipeParts, SizesAssumption DEF Op
  <1>2. CASE x[1] = "first"
    <2>1. x = <<"first", c>> /\ Writer(x) = c /\ WritePhase(x) = 1 /\ Reader(x) = 1 /\ ReadPhase(x) = 2
      BY <1>2, PipeParts, PhaseNumbers DEF Writer, Reader, WritePhase, ReadPhase
    <2>2. PipeOf(c, 1, o) = <<"first", c>> /\ PipeOf(1, 2, o) = <<"first", Root(o)>>
      BY PhaseNumbers DEF PipeOf
    <2>3. TakesPart(c, 1, o) <=> o.kind = "bcast" /\ c = Root(o)
      BY <1>1, PhaseNumbers DEF TakesPart
    <2>4. TakesPart(1, 2, o) <=> o.kind = "bcast" /\ 1 # Root(o)
      BY PhaseNumbers DEF TakesPart
    <2>5. Packets(1, o) = o.count /\ Packets(2, o) = o.count
      BY PhaseNumbers DEF Packets, CarriesData
    <2> HIDE DEF c
    <2> QED
      BY <1>1, <2>1, <2>2, <2>3, <2>4, <2>5 DEF Size
  <1>3. CASE x[1] = "root"
    <2>1. x = <<"root", c>> /\ Writer(x) = 1 /\ WritePhase(x) = 9 /\ Reader(x) = c /\ ReadPhase(x) = 10
      BY <1>3, PipeParts, PhaseNumbers DEF Writer, Reader, WritePhase, ReadPhase
    <2>2. PipeOf(1, 9, o) = <<"root", Root(o)>> /\ PipeOf(c, 10, o) = <<"root", c>>
      BY PhaseNumbers DEF PipeOf
    <2>3. TakesPart(1, 9, o) <=> o.kind = "reduce" /\ 1 # Root(o)
      BY PhaseNumbers DEF TakesPart
    <2>4. TakesPart(c, 10, o) <=> o.kind = "reduce" /\ c = Root(o)
      BY <1>1, PhaseNumbers DEF TakesPart
    <2>5. Packets(9, o) = o.count /\ Packets(10, o) = o.count
      BY PhaseNumbers DEF Packets, CarriesData
    <2> HIDE DEF c
    <2> QED
      BY <1>1, <2>1, <2>2, <2>3, <2>4, <2>5 DEF Size
  <1>4. CASE x[1] = "up"
    <2> DEFINE ph == IF LeftChild(c) THEN 3 ELSE 4
    <2>1. x = <<"up", c>> /\ Writer(x) = c /\ WritePhase(x) = 5 /\ Reader(x) = Parent(c) /\ ReadPhase(x) = ph
      BY <1>4, PipeParts, PhaseNumbers DEF Writer, Reader, WritePhase, ReadPhase
    <2>2. PipeOf(c, 5, o) = <<"up", c>> /\ PipeOf(Parent(c), ph, o) = <<"up", c>>
      BY <1>1, Halves, PhaseNumbers DEF PipeOf
    <2>3. TakesPart(c, 5, o) /\ TakesPart(Parent(c), ph, o)
      BY <1>1, Halves, PhaseNumbers DEF TakesPart, HasChild
    <2>4. Packets(5, o) = Packets(ph, o)
      BY PhaseNumbers DEF Packets, CarriesData
    <2> HIDE DEF c, ph
    <2> QED
      BY <1>1, <2>1, <2>2, <2>3, <2>4 DEF Size
  <1>5. CASE x[1] = "down"
    <2> DEFINE ph == IF LeftChild(c) THEN 7 ELSE 8
    <2>1. x = <<"down", c>> /\ Writer(x) = Parent(c) /\ WritePhase(x) = ph /\ Reader(x) = c /\ ReadPhase(x) = 6
      BY <1>5, PipeParts, PhaseNumbers DEF Writer, Reader, WritePhase, ReadPhase
    <2>2. PipeOf(Parent(c), ph, o) = <<"down", c>> /\ PipeOf(c, 6, o) = <<"down", c>>
      BY <1>1, Halves, PhaseNumbers DEF PipeOf
    <2>3. TakesPart(Parent(c), ph, o) /\ TakesPart(c, 6, o)
      BY <1>1, Halves, PhaseNumbers DEF TakesPart, HasChild
    <2>4. Packets(6, o) = Packets(ph, o)
      BY PhaseNumbers DEF Packets, CarriesData
    <2> HIDE DEF c, ph
    <2> QED
      BY <1>1, <2>1, <2>2, <2>3, <2>4 DEF Size
  <1> QED
    BY <1>2, <1>3, <1>4, <1>5, PipeParts

\* What it means that a packet is one of those p moves through x in phase ph.
LEMMA ShareSays ==
    ASSUME TypeOK, NEW p \in Procs, NEW ph \in Transfers, NEW x
    PROVE  \A k : k \in Share(p, ph, x) <=>
               /\ k = <<k[1], k[2]>> /\ k[1] \in 1 .. Len(script) /\ k[2] \in Nat /\ k[2] > 0
               /\ ValidRoot(script[k[1]]) /\ PipeOf(p, ph, script[k[1]]) = x
               /\ k[2] <= Size(p, ph, script[k[1]])
  <1>1. \A r \in 1 .. Len(script) : Size(p, ph, script[r]) \in Nat
    <2>1. ph \in Outside .. Leaving
      BY PhaseNumbers DEF Transfers
    <2> QED
      BY <2>1, ScriptTyped, SizeTyped
  <1>2. ASSUME NEW k \in Share(p, ph, x)
        PROVE  /\ k = <<k[1], k[2]>> /\ k[1] \in 1 .. Len(script) /\ k[2] \in Nat /\ k[2] > 0
               /\ ValidRoot(script[k[1]]) /\ PipeOf(p, ph, script[k[1]]) = x
               /\ k[2] <= Size(p, ph, script[k[1]])
    <2>1. PICK r \in Uses(p, ph, x) : k \in {r} \X (1 .. Size(p, ph, script[r]))
      BY DEF Share
    <2>2. r \in 1 .. Len(script) /\ ValidRoot(script[r]) /\ PipeOf(p, ph, script[r]) = x
      BY DEF Uses
    <2>3. k = <<k[1], k[2]>> /\ k[1] = r /\ k[2] \in 1 .. Size(p, ph, script[r])
      BY <2>1
    <2> QED
      BY <1>1, <2>2, <2>3
  <1>3. ASSUME NEW k,
               k = <<k[1], k[2]>>, k[1] \in 1 .. Len(script), k[2] \in Nat, k[2] > 0,
               ValidRoot(script[k[1]]), PipeOf(p, ph, script[k[1]]) = x,
               k[2] <= Size(p, ph, script[k[1]])
        PROVE  k \in Share(p, ph, x)
    <2>1. k[1] \in Uses(p, ph, x)
      BY <1>3 DEF Uses
    <2>2. k[2] \in 1 .. Size(p, ph, script[k[1]])
      BY <1>1, <1>3
    <2>3. k \in {k[1]} \X (1 .. Size(p, ph, script[k[1]]))
      BY <1>3, <2>2
    <2> QED
      BY <2>1, <2>3 DEF Share
  <1> QED
    BY <1>2, <1>3

\* The packets due in a pipe are those its reader expects.
LEMMA DueAgreed ==
    ASSUME TypeOK, NEW x \in Pipes
    PROVE  Due(x) = Share(Reader(x), ReadPhase(x), x)
  <1>1. /\ Writer(x) \in Procs /\ Reader(x) \in Procs
        /\ WritePhase(x) \in Transfers /\ ReadPhase(x) \in Transfers
    BY PipeEnds, PhaseNumbers DEF Transfers
  <1>2. \A k : k \in Due(x) <=> k \in Share(Reader(x), ReadPhase(x), x)
    <2>1. ASSUME NEW k, k[1] \in 1 .. Len(script), k[2] \in Nat, k[2] > 0, ValidRoot(script[k[1]])
          PROVE  (PipeOf(Writer(x), WritePhase(x), script[k[1]]) = x
                    /\ k[2] <= Size(Writer(x), WritePhase(x), script[k[1]]))
                 <=> (PipeOf(Reader(x), ReadPhase(x), script[k[1]]) = x
                    /\ k[2] <= Size(Reader(x), ReadPhase(x), script[k[1]]))
      BY <2>1, EndsAgree, ScriptTyped
    <2> QED
      BY <1>1, <2>1, ShareSays DEF Due
  <1> QED
    BY <1>2

\* A process that moves a packet is at the end of the pipe it moves it through.
LEMMA AtWork ==
    ASSUME TypeOK, NEW p \in Procs, Busy(p)
    PROVE  /\ phase[p] \in Sends => Writer(Here(p)) = p /\ WritePhase(Here(p)) = phase[p]
           /\ phase[p] \notin Sends => Reader(Here(p)) = p /\ ReadPhase(Here(p)) = phase[p]
  <1>1. /\ Current(p) \in Op /\ ValidRoot(Current(p)) /\ phase[p] \in 1 .. 10
        /\ Size(p, phase[p], Current(p)) > 0 /\ p \in Nat
    <2>1. phase[p] \in 1 .. 10
      BY PhaseNumbers DEF Busy, Transfers
    <2>2. Size(p, phase[p], Current(p)) \in Nat
      <3>1. phase[p] \in Outside .. Leaving
        BY <2>1, PhaseNumbers
      <3> QED
        BY <3>1, BusyTyped, SizeTyped
    <2> QED
      BY <2>1, <2>2, BusyTyped DEF Procs
  <1>2. TakesPart(p, phase[p], Current(p))
    BY <1>1 DEF Size
  <1>3. \A a, b : <<a, b>>[1] = a /\ <<a, b>>[2] = b
    OBVIOUS
  <1>4. p = (2 * p) \div 2 /\ p = (2 * p + 1) \div 2 /\ (2 * p) % 2 = 0 /\ (2 * p + 1) % 2 # 0
    BY <1>1
  <1>5. CASE phase[p] \in {1, 5}
    BY <1>2, <1>3, <1>5, PhaseNumbers DEF Here, PipeOf, Writer, Reader, WritePhase, ReadPhase, Sends
  <1>6. CASE phase[p] \in {7, 8}
    BY <1>2, <1>3, <1>4, <1>6, PhaseNumbers
       DEF Here, PipeOf, Writer, Reader, WritePhase, ReadPhase, Sends, LeftChild, Parent
  <1>7. CASE phase[p] \in {3, 4}
    BY <1>2, <1>3, <1>4, <1>7, PhaseNumbers
       DEF Here, PipeOf, Writer, Reader, WritePhase, ReadPhase, Sends, LeftChild, Parent
  <1>8. CASE phase[p] \in {6, 10}
    BY <1>2, <1>3, <1>8, PhaseNumbers DEF Here, PipeOf, Writer, Reader, WritePhase, ReadPhase, Sends
  <1>9. CASE phase[p] = 9
    BY <1>2, <1>3, <1>9, PhaseNumbers
       DEF Here, PipeOf, Writer, Reader, WritePhase, ReadPhase, Sends, TakesPart
  <1>10. CASE phase[p] = 2
    BY <1>2, <1>3, <1>10, PhaseNumbers
       DEF Here, PipeOf, Writer, Reader, WritePhase, ReadPhase, Sends, TakesPart
  <1> QED
    BY <1>1, <1>5, <1>6, <1>7, <1>8, <1>9, <1>10

\* The packet a process moves next is due, and all that are due before have moved.
NextKey(p) == <<round[p], moved[p] + 1>>

LEMMA NextIsDue ==
    ASSUME TypeOK, NEW p \in Procs, Busy(p)
    PROVE  /\ NextKey(p) \in Share(p, phase[p], Here(p))
           /\ ~Moved(p, phase[p], NextKey(p))
           /\ \A k \in Share(p, phase[p], Here(p)) :
                  Moved(p, phase[p], k) \/ k = NextKey(p) \/ Before(NextKey(p), k)
  <1>1. /\ phase[p] \in Transfers /\ phase[p] # Outside /\ phase[p] \in 1 .. 10
        /\ round[p] \in 1 .. Len(script) /\ moved[p] \in Nat /\ ValidRoot(Current(p))
        /\ moved[p] + 1 <= Size(p, phase[p], Current(p))
    BY BusyTyped, PhaseNumbers DEF Busy, Transfers
  <1>2. NextKey(p)[1] = round[p] /\ NextKey(p)[2] = moved[p] + 1
    BY DEF NextKey
  <1>3. NextKey(p) \in Share(p, phase[p], Here(p))
    BY <1>1, <1>2, ShareSays DEF Here, Current, NextKey
  <1>4. ~Moved(p, phase[p], NextKey(p))
    BY <1>1, <1>2 DEF Moved
  <1>5. ASSUME NEW k \in Share(p, phase[p], Here(p)), ~Moved(p, phase[p], k)
        PROVE  k = NextKey(p) \/ Before(NextKey(p), k)
    <2>1. k = <<k[1], k[2]>> /\ k[1] \in 1 .. Len(script) /\ k[2] \in Nat
      BY <1>1, ShareSays
    <2>2. k[1] >= round[p] /\ (k[1] = round[p] => k[2] >= moved[p] + 1)
      BY <1>1, <1>5, <2>1 DEF Moved
    <2> QED
      BY <1>1, <1>2, <2>1, <2>2 DEF Before, NextKey
  <1> QED
    BY <1>3, <1>4, <1>5

\* A process that moves a packet has moved that packet, and no other of those
\* due: the phases it skips are empty.
LEMMA AdvanceMoves ==
    ASSUME TypeOK, NEW p \in Procs, Busy(p), Advance(p), script' = script, round' = round,
           NEW ph \in Transfers, NEW x, NEW k \in Share(p, ph, x)
    PROVE  /\ Moved(p, ph, k)' <=> Moved(p, ph, k) \/ (ph = phase[p] /\ k = NextKey(p))
           /\ ph = phase[p] /\ k = NextKey(p) => x = Here(p)
  <1>1. /\ phase[p] \in Outside .. FromFirst /\ phase[p] \in 1 .. 10 /\ ph \in 1 .. 10
        /\ Current(p) \in Op
        /\ round[p] \in 1 .. Len(script) /\ moved[p] \in Nat
        /\ phase \in [Procs -> Outside .. Leaving] /\ moved \in [Procs -> Nat]
    BY BusyTyped, PhaseNumbers DEF Busy, Transfers, TypeOK
  <1>2. /\ k = <<k[1], k[2]>> /\ k[1] \in 1 .. Len(script) /\ k[2] \in Nat /\ k[2] > 0
        /\ PipeOf(p, ph, script[k[1]]) = x /\ k[2] <= Size(p, ph, script[k[1]])
    BY ShareSays
  <1>3. NextKey(p)[1] = round[p] /\ NextKey(p)[2] = moved[p] + 1
    BY DEF NextKey
  <1>4. k = NextKey(p) <=> k[1] = round[p] /\ k[2] = moved[p] + 1
    BY <1>2, <1>3 DEF NextKey
  <1>5. ph = phase[p] /\ k = NextKey(p) => x = Here(p)
    BY <1>2, <1>3 DEF Here, Current
  <1>6. CASE LastPacket(p)
    <2> DEFINE n == NextPhase(p, phase[p], Current(p))
    <2>1. /\ n \in phase[p] + 1 .. Leaving
          /\ \A m \in phase[p] + 1 .. n - 1 : Size(p, m, Current(p)) = 0
      BY <1>1, NextPhaseFinds
    <2> HIDE DEF n
    <2>2. phase' = [phase EXCEPT ![p] = n] /\ moved' = [moved EXCEPT ![p] = 0]
      BY <1>6 DEF Advance, n
    <2>3. phase'[p] = n /\ moved'[p] = 0
      BY <1>1, <2>2
    <2>4. moved[p] + 1 >= Size(p, phase[p], Current(p))
      BY <1>6 DEF LastPacket
    <2>5. CASE k[1] # round[p]
      BY <1>1, <1>2, <1>4, <2>5 DEF Moved
    <2>6. CASE k[1] = round[p] /\ ph > phase[p]
      <3>1. ph >= n
        <4>1. Size(p, ph, Current(p)) # 0
          BY <1>2, <2>6 DEF Current
        <4>2. ph \notin phase[p] + 1 .. n - 1
          BY <2>1, <4>1
        <4> QED
          BY <1>1, <2>1, <2>6, <4>2, PhaseNumbers
      <3> QED
        BY <1>1, <1>2, <2>1, <2>3, <2>6, <3>1, PhaseNumbers DEF Moved
    <2>7. CASE k[1] = round[p] /\ ph < phase[p]
      BY <1>1, <1>2, <2>1, <2>3, <2>7, PhaseNumbers DEF Moved
    <2>8. CASE k[1] = round[p] /\ ph = phase[p]
      <3>1. k[2] <= moved[p] + 1
        <4>1. Size(p, phase[p], Current(p)) \in Nat
          BY <1>1, SizeTyped, PhaseNumbers
        <4> QED
          BY <1>1, <1>2, <2>4, <2>8, <4>1 DEF Current
      <3> QED
        BY <1>1, <1>2, <1>4, <1>5, <2>1, <2>3, <2>8, <3>1, PhaseNumbers DEF Moved
    <2>9. k[1] # round[p] \/ (k[1] = round[p] /\ (ph > phase[p] \/ ph < phase[p] \/ ph = phase[p]))
      BY <1>1
    <2>10. Moved(p, ph, k)' <=> Moved(p, ph, k) \/ (ph = phase[p] /\ k = NextKey(p))
      BY <2>5, <2>6, <2>7, <2>8, <2>9
    <2> QED
      BY <1>5, <2>10
  <1>7. CASE ~LastPacket(p)
    <2>1. moved'[p] = moved[p] + 1 /\ phase'[p] = phase[p]
      BY <1>1, <1>7 DEF Advance
    <2>2. Moved(p, ph, k)' <=> Moved(p, ph, k) \/ (ph = phase[p] /\ k = NextKey(p))
      BY <1>1, <1>2, <1>4, <2>1, PhaseNumbers DEF Moved
    <2> QED
      BY <1>5, <2>2
  <1> QED
    BY <1>6, <1>7

\* Nothing that is due moves when a call begins, is rejected or returns.
LEMMA QuietMoves ==
    ASSUME TypeOK, NEW p \in Procs, Call(p) \/ RejectCall(p) \/ Succeed(p),
           NEW ph \in Transfers, NEW x, NEW k \in Share(p, ph, x)
    PROVE  Moved(p, ph, k)' <=> Moved(p, ph, k)
  <1>1. /\ phase \in [Procs -> Outside .. Leaving] /\ moved \in [Procs -> Nat]
        /\ round \in [Procs -> Nat] /\ ph \in 1 .. 10
    BY PhaseNumbers DEF TypeOK, Transfers
  <1>2. /\ k[1] \in 1 .. Len(script) /\ k[2] \in Nat /\ k[2] > 0
        /\ ValidRoot(script[k[1]]) /\ k[2] <= Size(p, ph, script[k[1]])
    BY ShareSays
  <1>3. CASE Call(p)
    <2> DEFINE o == script[round[p] + 1]
               n == NextPhase(p, Outside, o)
    <2>1. round[p] + 1 \in 1 .. Len(script) /\ o \in Op
      <3>1. round[p] + 1 \in 1 .. Len(script)
        BY <1>1, <1>2, <1>3 DEF Call
      <3> QED
        BY <3>1, ScriptTyped
    <2>2. n \in 1 .. 11 /\ \A m \in 1 .. n - 1 : Size(p, m, o) = 0
      BY <2>1, NextPhaseFinds, PhaseNumbers
    <2> HIDE DEF n
    <2>3. phase'[p] = n /\ moved'[p] = 0 /\ round'[p] = round[p] + 1 /\ phase[p] = 0
      BY <1>1, <1>3, PhaseNumbers DEF Call, n
    <2>4. CASE k[1] # round[p] + 1
      BY <1>1, <1>2, <2>2, <2>3, <2>4, PhaseNumbers DEF Moved
    <2>5. CASE k[1] = round[p] + 1
      <3>1. ph >= n
        BY <1>1, <1>2, <2>2, <2>5
      <3> QED
        BY <1>1, <1>2, <2>2, <2>3, <2>5, <3>1, PhaseNumbers DEF Moved
    <2> QED
      BY <2>4, <2>5
  <1>4. CASE RejectCall(p)
    <2>1. /\ phase'[p] = phase[p] /\ phase[p] = 0 /\ round'[p] = round[p] + 1
          /\ ~ValidRoot(script[round[p] + 1])
      BY <1>1, <1>4, PhaseNumbers DEF RejectCall, Return
    <2> QED
      BY <1>1, <1>2, <2>1, PhaseNumbers DEF Moved
  <1>5. CASE Succeed(p)
    <2>1. phase'[p] = 0 /\ phase[p] = 11 /\ UNCHANGED <<round, moved>>
      BY <1>1, <1>5, PhaseNumbers DEF Succeed, Return
    <2> QED
      BY <1>1, <1>2, <2>1, PhaseNumbers DEF Moved
  <1> QED
    BY <1>3, <1>4, <1>5
LEMMA IdleMoves ==
    ASSUME NEW q \in Procs, UNCHANGED <<phase[q], moved[q], round[q]>>, NEW ph, NEW k
    PROVE  Moved(q, ph, k)' <=> Moved(q, ph, k)
  BY DEF Moved

(***************************************************************************)
(* What a step may do to a pipe: nothing, a write, a read, or the end of   *)
(* its reader.                                                             *)
(***************************************************************************)
SentKept(x) == \A k \in Due(x) : Sent(x, k)' <=> Sent(x, k)
GotKept(x) == \A k \in Due(x) : Got(x, k)' <=> Got(x, k)

Steady(x) ==
    /\ pipe'[x] = pipe[x]
    /\ open'[Writer(x)] => open[Writer(x)] /\ SentKept(x)
    /\ open'[Reader(x)] = open[Reader(x)] /\ (open'[Reader(x)] => GotKept(x))

Writes(x, m) ==
    /\ open[Writer(x)] /\ open[Reader(x)] /\ UNCHANGED <<open, round>> /\ GotKept(x)
    /\ pipe'[x] = Append(pipe[x], m) /\ m \in Mark
    /\ m.round = round[Writer(x)] /\ phase[Writer(x)] = WritePhase(x)
    /\ Key(m) \in Due(x) /\ ~Sent(x, Key(m))
    /\ \A k \in Due(x) : Sent(x, k) \/ k = Key(m) \/ Before(Key(m), k)
    /\ \A k \in Due(x) : Sent(x, k)' <=> Sent(x, k) \/ k = Key(m)

Reads(x, K) ==
    /\ open[Reader(x)] /\ UNCHANGED <<open, round>> /\ SentKept(x)
    /\ pipe[x] # <<>> /\ pipe'[x] = Tail(pipe[x])
    /\ K \in Due(x) /\ ~Got(x, K)
    /\ \A k \in Due(x) : Got(x, k) \/ k = K \/ Before(K, k)
    /\ \A k \in Due(x) : Got(x, k)' <=> Got(x, k) \/ k = K

Lost(x) ==
    /\ ~open'[Reader(x)] /\ pipe'[x] = <<>>
    /\ open'[Writer(x)] => open[Writer(x)] /\ SentKept(x)

PipeStep(x) == Steady(x) \/ (\E m : Writes(x, m)) \/ (\E K : Reads(x, K)) \/ Lost(x)

\* The program stays the same, and so do the packets due; calls only go on.
LEMMA ProgramFixed ==
    ASSUME TypeOK, [Next]_vars
    PROVE  /\ script' = script /\ \A x : Due(x)' = Due(x)
           /\ \A q \in Procs : round[q] \in Nat /\ round'[q] \in Nat /\ round'[q] >= round[q]
           /\ \A q \in Procs : open'[q] => open[q]
  <1>1. script' = script /\ \A q \in Procs : round'[q] >= round[q] /\ (open'[q] => open[q])
    <2>0. round \in [Procs -> Nat] /\ open \in [Procs -> BOOLEAN]
      BY DEF TypeOK
    <2>1. ASSUME NEW p \in Procs, LibraryStep(p)
          PROVE  script' = script /\ \A q \in Procs : round'[q] >= round[q] /\ (open'[q] => open[q])
      BY <2>0, <2>1 DEF LibraryStep, GroupSend, GroupRecv, GroupFails, Abort, Succeed, CloseGroupPipes
    <2>2. ASSUME NEW p \in Procs, ProgramStep(p) \/ Die(p)
          PROVE  script' = script /\ \A q \in Procs : round'[q] >= round[q] /\ (open'[q] => open[q])
      BY <2>0, <2>2 DEF ProgramStep, Call, RejectCall, Finalize, Die, CloseGroupPipes
    <2> QED
      BY <2>0, <2>1, <2>2 DEF Next, vars
  <1>2. \A q \in Procs : round[q] \in Nat /\ round'[q] \in Nat
    BY TypingStep DEF TypeOK
  <1>3. \A x : Due(x)' = Due(x)
    BY <1>1 DEF Due, Share, Uses
  <1> QED
    BY <1>1, <1>2, <1>3

\* What a process knows of its packets is kept by the steps of the others.
LEMMA OthersIdle ==
    ASSUME TypeOK, NEW p \in Procs, LibraryStep(p) \/ ProgramStep(p) \/ Die(p),
           NEW q \in Procs \ {p}
    PROVE  UNCHANGED <<phase[q], moved[q], round[q], open[q], status[q]>>
  <1>0. /\ phase \in [Procs -> Outside .. Leaving] /\ moved \in [Procs -> Nat]
        /\ round \in [Procs -> Nat] /\ open \in [Procs -> BOOLEAN]
        /\ status \in [Procs -> {"running", "left", "dead", "aborted"}]
    BY DEF TypeOK
  <1>1. CASE GroupSend(p) \/ GroupRecv(p)
    BY <1>0, <1>1 DEF GroupSend, GroupRecv, Advance
  <1>2. CASE GroupFails(p) \/ Abort(p) \/ Succeed(p)
    BY <1>0, <1>2 DEF GroupFails, Abort, Succeed, CloseGroupPipes, Return
  <1>3. CASE ProgramStep(p) \/ Die(p)
    BY <1>0, <1>3 DEF ProgramStep, Call, RejectCall, Finalize, Die, CloseGroupPipes, Return
  <1> QED
    BY <1>1, <1>2, <1>3 DEF LibraryStep

LEMMA SendStep ==
    ASSUME TypeOK, NEW p \in Procs, GroupSend(p), NEW x \in Pipes
    PROVE  Steady(x) \/ \E m : Writes(x, m)
  <1>1. /\ Busy(p) /\ phase[p] \in Sends /\ Advance(p) /\ open[p] /\ open[Reader(Here(p))]
        /\ UNCHANGED <<script, round, open>>
    BY DEF GroupSend, Sending
  <1>2. Writer(Here(p)) = p /\ WritePhase(Here(p)) = phase[p] /\ Here(p) \in Pipes
    BY <1>1, AtWork, BusyTyped
  <1> DEFINE val == IF CarriesData(phase[p], Current(p)) THEN acc[p][moved[p] + 1] ELSE Token
             m == [round |-> round[p], chunk |-> moved[p] + 1, val |-> val]
  <1>3. Key(m) = NextKey(p) /\ m.round = round[p] /\ m \in Mark
    <2>1. val \in Chunk
      BY <1>1, BusyTyped, ChunksTyped
    <2>2. round[p] \in Nat /\ moved[p] + 1 \in Nat
      BY DEF TypeOK
    <2> QED
      BY <2>1, <2>2 DEF Key, NextKey, Mark
  <1> HIDE DEF m
  <1>4. pipe' = [pipe EXCEPT ![Here(p)] = Append(@, m)]
    BY DEF GroupSend, m
  <1>5. /\ Writer(x) \in Procs /\ Reader(x) \in Procs /\ Writer(x) # Reader(x)
        /\ WritePhase(x) \in Sends /\ WritePhase(x) \in Transfers
        /\ ReadPhase(x) \in Transfers /\ ReadPhase(x) \notin Sends
    BY PipeEnds, PhaseNumbers DEF Transfers
  <1>6. GotKept(x)
    <2>1. ASSUME NEW k \in Due(x)  PROVE Got(x, k)' <=> Got(x, k)
      <3>1. CASE Reader(x) = p
        <4>1. k \in Share(p, ReadPhase(x), x)
          BY <3>1, DueAgreed
        <4> QED
          BY <1>1, <1>5, <3>1, <4>1, AdvanceMoves DEF Got
      <3>2. CASE Reader(x) # p
        BY <1>5, <3>2, OthersIdle, IdleMoves DEF Got, LibraryStep
      <3> QED  BY <3>1, <3>2
    <2> QED  BY <2>1 DEF GotKept
  <1>7. CASE x = Here(p)
    <2>1. Due(x) = Share(p, phase[p], Here(p))
      BY <1>2, <1>7 DEF Due
    <2>2. \A k : Sent(x, k) <=> Moved(p, phase[p], k)
      BY <1>2, <1>7 DEF Sent
    <2>3. /\ Key(m) \in Due(x) /\ ~Sent(x, Key(m))
          /\ \A k \in Due(x) : Sent(x, k) \/ k = Key(m) \/ Before(Key(m), k)
      BY <1>1, <1>3, <2>1, <2>2, NextIsDue
    <2>4. ASSUME NEW k \in Due(x)  PROVE Sent(x, k)' <=> Sent(x, k) \/ k = Key(m)
      <3>1. k \in Share(p, WritePhase(x), x)
        BY <1>2, <1>7 DEF Due
      <3>2. Moved(p, WritePhase(x), k)' <=> Moved(p, WritePhase(x), k) \/ k = NextKey(p)
        BY <1>1, <1>2, <1>5, <1>7, <3>1, AdvanceMoves
      <3> QED
        BY <1>2, <1>3, <1>7, <3>2 DEF Sent
    <2>5. pipe'[x] = Append(pipe[x], m)
      BY <1>2, <1>4, <1>7 DEF TypeOK
    <2> QED
      BY <1>1, <1>2, <1>3, <1>6, <1>7, <2>3, <2>4, <2>5 DEF Writes
  <1>8. CASE x # Here(p)
    <2>1. pipe'[x] = pipe[x]
      BY <1>4, <1>8 DEF TypeOK
    <2>2. SentKept(x)
      <3>1. ASSUME NEW k \in Due(x)  PROVE Sent(x, k)' <=> Sent(x, k)
        <4>1. CASE Writer(x) = p
          <5>1. k \in Share(p, WritePhase(x), x)
            BY <4>1 DEF Due
          <5> QED
            BY <1>1, <1>5, <1>8, <4>1, <5>1, AdvanceMoves DEF Sent
        <4>2. CASE Writer(x) # p
          BY <1>5, <4>2, OthersIdle, IdleMoves DEF Sent, LibraryStep
        <4> QED  BY <4>1, <4>2
      <3> QED  BY <3>1 DEF SentKept
    <2> QED
      BY <1>1, <1>6, <2>1, <2>2 DEF Steady
  <1> QED
    BY <1>7, <1>8

LEMMA RecvStep ==
    ASSUME TypeOK, NEW p \in Procs, GroupRecv(p), NEW x \in Pipes
    PROVE  Steady(x) \/ (x = Here(p) /\ Reads(x, NextKey(p)))
  <1>1. /\ Busy(p) /\ phase[p] \notin Sends /\ Advance(p) /\ open[p] /\ pipe[Here(p)] # <<>>
        /\ UNCHANGED <<script, round, open>> /\ pipe' = [pipe EXCEPT ![Here(p)] = Tail(@)]
    BY DEF GroupRecv, Receiving
  <1>2. Reader(Here(p)) = p /\ ReadPhase(Here(p)) = phase[p] /\ Here(p) \in Pipes
    BY <1>1, AtWork, BusyTyped
  <1>3. /\ Writer(x) \in Procs /\ Reader(x) \in Procs /\ Writer(x) # Reader(x)
        /\ WritePhase(x) \in Sends /\ WritePhase(x) \in Transfers
        /\ ReadPhase(x) \in Transfers /\ ReadPhase(x) \notin Sends
    BY PipeEnds, PhaseNumbers DEF Transfers
  <1>4. SentKept(x)
    <2>1. ASSUME NEW k \in Due(x)  PROVE Sent(x, k)' <=> Sent(x, k)
      <3>1. CASE Writer(x) = p
        <4>1. k \in Share(p, WritePhase(x), x)
          BY <3>1 DEF Due
        <4> QED
          BY <1>1, <1>3, <3>1, <4>1, AdvanceMoves DEF Sent
      <3>2. CASE Writer(x) # p
        BY <1>3, <3>2, OthersIdle, IdleMoves DEF Sent, LibraryStep
      <3> QED  BY <3>1, <3>2
    <2> QED  BY <2>1 DEF SentKept
  <1>5. CASE x = Here(p)
    <2>1. Due(x) = Share(p, phase[p], Here(p))
      BY <1>2, <1>5, DueAgreed
    <2>2. \A k : Got(x, k) <=> Moved(p, phase[p], k)
      BY <1>2, <1>5 DEF Got
    <2>3. /\ NextKey(p) \in Due(x) /\ ~Got(x, NextKey(p))
          /\ \A k \in Due(x) : Got(x, k) \/ k = NextKey(p) \/ Before(NextKey(p), k)
      BY <1>1, <2>1, <2>2, NextIsDue
    <2>4. ASSUME NEW k \in Due(x)  PROVE Got(x, k)' <=> Got(x, k) \/ k = NextKey(p)
      <3>1. k \in Share(p, ReadPhase(x), x)
        BY <1>2, <1>5, <2>1
      <3>2. Moved(p, ReadPhase(x), k)' <=> Moved(p, ReadPhase(x), k) \/ k = NextKey(p)
        BY <1>1, <1>2, <1>3, <1>5, <3>1, AdvanceMoves
      <3> QED
        BY <1>2, <1>5, <3>2 DEF Got
    <2>5. pipe'[x] = Tail(pipe[x])
      BY <1>1, <1>2, <1>5 DEF TypeOK
    <2> QED
      BY <1>1, <1>2, <1>4, <1>5, <2>3, <2>4, <2>5 DEF Reads
  <1>6. CASE x # Here(p)
    <2>1. pipe'[x] = pipe[x]
      BY <1>1, <1>6 DEF TypeOK
    <2>2. GotKept(x)
      <3>1. ASSUME NEW k \in Due(x)  PROVE Got(x, k)' <=> Got(x, k)
        <4>1. CASE Reader(x) = p
          <5>1. k \in Share(p, ReadPhase(x), x)
            BY <4>1, DueAgreed
          <5> QED
            BY <1>1, <1>3, <1>6, <4>1, <5>1, AdvanceMoves DEF Got
        <4>2. CASE Reader(x) # p
          BY <1>3, <4>2, OthersIdle, IdleMoves DEF Got, LibraryStep
        <4> QED  BY <4>1, <4>2
      <3> QED  BY <3>1 DEF GotKept
    <2> QED
      BY <1>1, <1>4, <2>1, <2>2 DEF Steady
  <1> QED
    BY <1>5, <1>6

\* The other steps move no packets; those that close the pipes may lose some.
LEMMA OtherStep ==
    ASSUME TypeOK, NEW p \in Procs, NEW x \in Pipes,
           GroupFails(p) \/ Abort(p) \/ Succeed(p) \/ ProgramStep(p) \/ Die(p)
    PROVE  Steady(x) \/ Lost(x)
  <1>1. /\ Writer(x) \in Procs /\ Reader(x) \in Procs /\ Writer(x) # Reader(x)
        /\ WritePhase(x) \in Transfers /\ ReadPhase(x) \in Transfers
    BY PipeEnds, PhaseNumbers DEF Transfers
  <1>2. open \in [Procs -> BOOLEAN]
    BY DEF TypeOK
  <1>3. CASE Call(p) \/ RejectCall(p) \/ Succeed(p)
    <2>1. UNCHANGED <<pipe, open>>
      BY <1>3 DEF Call, RejectCall, Succeed
    <2>2. SentKept(x)
      <3>1. ASSUME NEW k \in Due(x)  PROVE Sent(x, k)' <=> Sent(x, k)
        <4>1. CASE Writer(x) = p
          BY <1>1, <1>3, <4>1, QuietMoves DEF Due, Sent
        <4>2. CASE Writer(x) # p
          BY <1>1, <1>3, <4>2, OthersIdle, IdleMoves DEF Sent, LibraryStep, ProgramStep
        <4> QED  BY <4>1, <4>2
      <3> QED  BY <3>1 DEF SentKept
    <2>3. GotKept(x)
      <3>1. ASSUME NEW k \in Due(x)  PROVE Got(x, k)' <=> Got(x, k)
        <4>1. CASE Reader(x) = p
          BY <1>1, <1>3, <4>1, QuietMoves, DueAgreed DEF Got
        <4>2. CASE Reader(x) # p
          BY <1>1, <1>3, <4>2, OthersIdle, IdleMoves DEF Got, LibraryStep, ProgramStep
        <4> QED  BY <4>1, <4>2
      <3> QED  BY <3>1 DEF GotKept
    <2> QED
      BY <2>1, <2>2, <2>3 DEF Steady
  <1>4. CASE Abort(p)
    BY <1>1, <1>4, IdleMoves DEF Abort, Steady, SentKept, GotKept, Sent, Got
  <1>5. CASE GroupFails(p) \/ Finalize(p) \/ Die(p)
    <2>1. open' = [open EXCEPT ![p] = FALSE] /\ pipe'[x] = IF Reader(x) = p THEN <<>> ELSE pipe[x]
      BY <1>5 DEF GroupFails, Finalize, Die, CloseGroupPipes
    <2>2. CASE Reader(x) = p
      <3>1. UNCHANGED <<phase[Writer(x)], moved[Writer(x)], round[Writer(x)], open[Writer(x)]>>
        BY <1>1, <1>5, <2>2, OthersIdle DEF LibraryStep, ProgramStep
      <3>2. SentKept(x)
        BY <1>1, <3>1, IdleMoves DEF SentKept, Sent
      <3> QED
        BY <1>1, <1>2, <2>1, <2>2, <3>1, <3>2 DEF Lost
    <2>3. CASE Reader(x) # p
      <3>1. UNCHANGED <<phase[Reader(x)], moved[Reader(x)], round[Reader(x)]>>
        BY <1>1, <1>5, <2>3, OthersIdle DEF LibraryStep, ProgramStep
      <3>2. GotKept(x)
        BY <1>1, <3>1, IdleMoves DEF GotKept, Got
      <3>3. open'[Writer(x)] => open[Writer(x)] /\ SentKept(x)
        <4>1. CASE Writer(x) = p
          BY <1>1, <1>2, <2>1, <4>1
        <4>2. CASE Writer(x) # p
          <5>1. UNCHANGED <<phase[Writer(x)], moved[Writer(x)], round[Writer(x)], open[Writer(x)]>>
            BY <1>1, <1>5, <4>2, OthersIdle DEF LibraryStep, ProgramStep
          <5> QED
            BY <1>1, <5>1, IdleMoves DEF SentKept, Sent
        <4> QED  BY <4>1, <4>2
      <3>4. open'[Reader(x)] = open[Reader(x)]
        BY <1>1, <1>2, <2>1, <2>3
      <3> QED
        BY <2>1, <2>3, <3>2, <3>3, <3>4 DEF Steady
    <2> QED  BY <2>2, <2>3
  <1> QED
    BY <1>3, <1>4, <1>5 DEF ProgramStep

LEMMA EveryPipeStep ==
    ASSUME TypeOK, [Next]_vars, NEW x \in Pipes
    PROVE  PipeStep(x)
  <1>1. CASE Next
    <2>1. PICK p \in Procs : LibraryStep(p) \/ ProgramStep(p) \/ Die(p)
      BY <1>1 DEF Next
    <2> QED
      BY <2>1, SendStep, RecvStep, OtherStep DEF LibraryStep, PipeStep
  <1>2. CASE UNCHANGED vars
    <2>1. Writer(x) \in Procs /\ Reader(x) \in Procs
      BY PipeEnds
    <2> QED
      BY <1>2, <2>1, IdleMoves DEF vars, PipeStep, Steady, SentKept, GotKept, Sent, Got
  <1> QED
    BY <1>1, <1>2
(***************************************************************************)
(* PacketsInOrder is inductive.                                            *)
(***************************************************************************)
LEMMA KeyOfMark ==
    ASSUME TypeOK, NEW x \in Pipes
    PROVE  /\ pipe[x] \in Seq(Mark) /\ Len(pipe[x]) \in Nat
           /\ \A i \in 1 .. Len(pipe[x]) : pipe[x][i] \in Mark /\ Key(pipe[x][i]) \in Keys(x)
           /\ \A m : Key(m)[1] = m.round /\ Key(m)[2] = m.chunk
  <1>1. pipe[x] \in Seq(Mark)
    BY DEF TypeOK
  <1> QED
    BY <1>1, ElementOfSeq DEF Keys, Key

LEMMA BeforeOrders ==
    ASSUME TypeOK, NEW x \in Pipes
    PROVE  /\ \A k \in Due(x) : k[1] \in Nat /\ k[2] \in Nat /\ ~Before(k, k)
           /\ \A j, k \in Due(x) : Before(j, k) => ~Before(k, j) /\ j # k
           /\ \A i, j, k \in Due(x) : Before(i, j) /\ Before(j, k) => Before(i, k)
  <1>1. \A k \in Due(x) : k[1] \in Nat /\ k[2] \in Nat
    BY PipeEnds, ShareSays, PhaseNumbers DEF Due, Transfers
  <1> QED
    BY <1>1 DEF Before

LEMMA InOrderInit == Init => PacketsInOrder
  <1> SUFFICES ASSUME Init, NEW x \in Pipes  PROVE InOrder(x)
    BY DEF PacketsInOrder
  <1>1. TypeOK
    BY TypingInit
  <1>2. pipe[x] = <<>> /\ Keys(x) = {}
    BY DEF Init, Keys
  <1>3. Writer(x) \in Procs /\ Reader(x) \in Procs
    BY PipeEnds
  <1>4. \A k \in Due(x) : ~Sent(x, k) /\ ~Got(x, k)
    <2>1. \A k \in Due(x) : k[1] >= 1 /\ k[1] \in Nat
      BY <1>1, PipeEnds, ShareSays, PhaseNumbers DEF Due, Transfers
    <2>2. round[Writer(x)] = 0 /\ round[Reader(x)] = 0
      BY <1>3 DEF Init
    <2> QED
      BY <2>1, <2>2 DEF Sent, Got, Moved
  <1> QED
    BY <1>2, <1>4 DEF InOrder, Sorted, Holds, NoGap, NotAhead, Missed

LEMMA InOrderSteady ==
    ASSUME TypeOK, [Next]_vars, NEW x \in Pipes, InOrder(x), Steady(x)
    PROVE  InOrder(x)'
  <1>1. Due(x)' = Due(x) /\ Writer(x) \in Procs /\ Reader(x) \in Procs
    BY ProgramFixed, PipeEnds
  <1>2. /\ Keys(x)' = Keys(x) /\ pipe'[x] = pipe[x] /\ open'[Reader(x)] = open[Reader(x)]
        /\ round[Writer(x)] \in Nat /\ round'[Writer(x)] >= round[Writer(x)]
        /\ round'[Writer(x)] \in Nat
        /\ \A k \in Due(x) : k[1] \in Nat
    BY <1>1, ProgramFixed, BeforeOrders DEF Steady, Keys
  <1>3. CASE ~open[Reader(x)]
    BY <1>2, <1>3 DEF InOrder
  <1>4. CASE open[Reader(x)]
    <2>1. /\ \A k \in Due(x) : Got(x, k)' <=> Got(x, k)
          /\ open'[Writer(x)] => open[Writer(x)] /\ \A k \in Due(x) : Sent(x, k)' <=> Sent(x, k)
          /\ Sorted(x) /\ Holds(x) /\ NoGap(x) /\ NotAhead(x)
      BY <1>2, <1>4 DEF InOrder, Steady, GotKept, SentKept
    <2>2. Missed(x)' = Missed(x)
      BY <1>1, <1>2, <2>1 DEF Missed
    <2>3. Sorted(x)'
      BY <1>2, <2>1 DEF Sorted, Key
    <2>4. Holds(x)'
      BY <1>1, <1>2, <2>1 DEF Holds
    <2>5. NoGap(x)'
      BY <1>1, <1>2, <2>1, <2>2 DEF NoGap, Missed
    <2>6. NotAhead(x)'
      BY <1>1, <2>1 DEF NotAhead
    <2> QED
      BY <1>2, <1>4, <2>3, <2>4, <2>5, <2>6 DEF InOrder
  <1> QED
    BY <1>3, <1>4

LEMMA InOrderWrites ==
    ASSUME TypeOK, [Next]_vars, NEW x \in Pipes, InOrder(x), NEW m, Writes(x, m)
    PROVE  InOrder(x)'
  <1> DEFINE K == Key(m)
  <1>1. /\ Due(x)' = Due(x) /\ Writer(x) \in Procs /\ Reader(x) \in Procs
        /\ round[Writer(x)] \in Nat
    BY ProgramFixed, PipeEnds
  <1>2. /\ open[Writer(x)] /\ open[Reader(x)] /\ open' = open /\ round' = round
        /\ m \in Mark /\ pipe'[x] = Append(pipe[x], m) /\ K[1] = round[Writer(x)]
        /\ K \in Due(x) /\ ~Sent(x, K)
    BY DEF Writes, Key
  <1>3. /\ \A k \in Due(x) : Got(x, k)' <=> Got(x, k)
        /\ \A k \in Due(x) : Sent(x, k)' <=> Sent(x, k) \/ k = K
        /\ \A k \in Due(x) : Sent(x, k) \/ k = K \/ Before(K, k)
    BY DEF Writes, GotKept
  <1>4. Sorted(x) /\ Holds(x) /\ NoGap(x) /\ NotAhead(x)
    BY <1>2 DEF InOrder
  <1>5. /\ pipe[x] \in Seq(Mark) /\ Len(pipe[x]) \in Nat
        /\ Len(pipe'[x]) = Len(pipe[x]) + 1
        /\ \A i \in 1 .. Len(pipe[x]) : pipe'[x][i] = pipe[x][i] /\ Key(pipe[x][i]) \in Keys(x)
        /\ pipe'[x][Len(pipe[x]) + 1] = m
    BY <1>2, KeyOfMark, AppendProperties
  <1>6. Keys(x)' = Keys(x) \cup {K}
    BY <1>5 DEF Keys
  <1> HIDE DEF K
  <1>7. ~Got(x, K) /\ K \notin Keys(x)
    BY <1>2, <1>4 DEF NotAhead, Holds
  <1>8. \A j \in Keys(x) : Before(j, K)
    BY <1>2, <1>4, <1>7 DEF NoGap, Missed
  <1>9. Sorted(x)'
    <2> SUFFICES ASSUME NEW i \in 1 .. Len(pipe[x]) + 1, NEW j \in 1 .. Len(pipe[x]) + 1, i < j
                 PROVE  Before(Key(pipe'[x][i]), Key(pipe'[x][j]))
      BY <1>5 DEF Sorted
    <2>1. i \in 1 .. Len(pipe[x])
      BY <1>5
    <2>2. CASE j \in 1 .. Len(pipe[x])
      BY <1>4, <1>5, <2>1, <2>2 DEF Sorted
    <2>3. CASE j = Len(pipe[x]) + 1
      BY <1>5, <1>8, <2>1, <2>3 DEF K
    <2> QED
      BY <1>5, <2>2, <2>3
  <1>10. Holds(x)'
    BY <1>1, <1>2, <1>3, <1>4, <1>6, <1>7 DEF Holds
  <1>11. \A k \in Missed(x)' : k \in Missed(x) /\ k # K
    BY <1>1, <1>3, <1>6 DEF Missed
  <1>12. NoGap(x)'
    <2> SUFFICES ASSUME NEW k \in Missed(x)'
                 PROVE  (\A j \in Keys(x) \cup {K} : Before(j, k)) /\ ~Sent(x, k)'
      BY <1>6 DEF NoGap
    <2>1. k \in Due(x) /\ k # K /\ (\A j \in Keys(x) : Before(j, k)) /\ ~Sent(x, k)
      BY <1>2, <1>4, <1>11 DEF NoGap, Missed
    <2> QED
      BY <1>3, <2>1
  <1>13. NotAhead(x)'
    BY <1>1, <1>2, <1>3, <1>4 DEF NotAhead
  <1> QED
    BY <1>2, <1>9, <1>10, <1>12, <1>13 DEF InOrder

\* The packet read is the first one in the pipe.
LEMMA HeadIsNext ==
    ASSUME TypeOK, NEW x \in Pipes, open[Reader(x)], InOrder(x), pipe[x] # <<>>,
           NEW K \in Due(x), ~Got(x, K),
           \A k \in Due(x) : Got(x, k) \/ k = K \/ Before(K, k)
    PROVE  Key(Head(pipe[x])) = K
  <1>1. Sorted(x) /\ Holds(x) /\ NoGap(x)
    BY DEF InOrder
  <1> DEFINE H == Key(pipe[x][1])
  <1>2. /\ pipe[x] \in Seq(Mark) /\ Len(pipe[x]) \in Nat /\ 1 \in 1 .. Len(pipe[x])
        /\ Head(pipe[x]) = pipe[x][1] /\ H \in Keys(x)
    BY KeyOfMark
  <1> HIDE DEF H
  <1>3. H \in Due(x) /\ (H = K \/ Before(K, H))
    BY <1>1, <1>2 DEF Holds
  <1>4. CASE K \in Keys(x)
    <2>1. PICK i \in 1 .. Len(pipe[x]) : K = Key(pipe[x][i])
      BY <1>4 DEF Keys
    <2>2. i = 1 \/ Before(H, K)
      BY <1>1, <1>2, <2>1 DEF Sorted, H
    <2> QED
      BY <1>2, <1>3, <2>1, <2>2, BeforeOrders DEF H
  <1>5. CASE K \notin Keys(x)
    <2>1. Before(H, K)
      BY <1>1, <1>2, <1>5 DEF NoGap, Missed
    <2> QED
      BY <1>3, <2>1, BeforeOrders
  <1> QED
    BY <1>4, <1>5

LEMMA InOrderReads ==
    ASSUME TypeOK, [Next]_vars, NEW x \in Pipes, InOrder(x), NEW K, Reads(x, K)
    PROVE  /\ InOrder(x)' /\ Keys(x)' \subseteq Keys(x)
           /\ \A k \in Keys(x) : k = K \/ k \in Keys(x)'
  <1>1. Due(x)' = Due(x) /\ Writer(x) \in Procs /\ Reader(x) \in Procs
    BY ProgramFixed, PipeEnds
  <1>2. /\ open[Reader(x)] /\ open' = open /\ round' = round
        /\ pipe[x] # <<>> /\ pipe'[x] = Tail(pipe[x]) /\ K \in Due(x) /\ ~Got(x, K)
    BY DEF Reads
  <1>3. /\ \A k \in Due(x) : Got(x, k)' <=> Got(x, k) \/ k = K
        /\ \A k \in Due(x) : Sent(x, k)' <=> Sent(x, k)
        /\ \A k \in Due(x) : Got(x, k) \/ k = K \/ Before(K, k)
    BY DEF Reads, SentKept
  <1>4. Sorted(x) /\ Holds(x) /\ NoGap(x) /\ NotAhead(x)
    BY <1>2 DEF InOrder
  <1>5. K = Key(Head(pipe[x]))
    BY <1>2, <1>3, HeadIsNext
  <1>6. /\ pipe[x] \in Seq(Mark) /\ Len(pipe[x]) \in Nat /\ Len(pipe[x]) >= 1
        /\ Len(pipe'[x]) = Len(pipe[x]) - 1
        /\ \A i \in 1 .. Len(pipe[x]) - 1 : pipe'[x][i] = pipe[x][i + 1]
        /\ K = Key(pipe[x][1])
    BY <1>2, <1>5, KeyOfMark, HeadTailProperties
  <1>7. Sorted(x)'
    BY <1>4, <1>6 DEF Sorted, Key
  <1>8. Keys(x)' \subseteq Keys(x) /\ K \in Keys(x) /\ K \notin Keys(x)'
    <2>1. ASSUME NEW i \in 1 .. Len(pipe[x]) - 1
          PROVE  Key(pipe'[x][i]) \in Keys(x) /\ Key(pipe'[x][i]) # K
      <3>1. i + 1 \in 1 .. Len(pipe[x]) /\ 1 \in 1 .. Len(pipe[x]) /\ 1 < i + 1
        BY <1>6
      <3>2. Before(K, Key(pipe[x][i + 1])) /\ Key(pipe[x][i + 1]) \in Keys(x)
        BY <1>4, <1>6, <3>1, KeyOfMark DEF Sorted
      <3> QED
        BY <1>2, <1>6, <3>2, BeforeOrders
    <2>2. K \in Keys(x)
      BY <1>6, KeyOfMark
    <2> QED
      BY <1>6, <2>1, <2>2 DEF Keys, Key
  <1>9. \A k \in Keys(x) : k = K \/ k \in Keys(x)'
    <2>1. ASSUME NEW i \in 1 .. Len(pipe[x]), i # 1
          PROVE  Key(pipe[x][i]) \in Keys(x)'
      <3>1. i - 1 \in 1 .. Len(pipe[x]) - 1 /\ (i - 1) + 1 = i
        BY <1>6, <2>1
      <3>2. pipe'[x][i - 1] = pipe[x][i] /\ i - 1 \in 1 .. Len(pipe'[x])
        BY <1>6, <3>1
      <3> QED
        BY <3>2 DEF Keys, Key
    <2> QED
      BY <1>6, <2>1 DEF Keys
  <1>10. Holds(x)'
    BY <1>1, <1>2, <1>3, <1>4, <1>8 DEF Holds
  <1>11. \A k \in Missed(x)' : k \in Missed(x)
    BY <1>1, <1>3, <1>9 DEF Missed
  <1>12. NoGap(x)'
    BY <1>1, <1>2, <1>3, <1>4, <1>8, <1>11 DEF NoGap, Missed
  <1>13. NotAhead(x)'
    BY <1>1, <1>2, <1>3, <1>4, <1>8 DEF NotAhead, Holds
  <1> QED
    BY <1>2, <1>7, <1>8, <1>9, <1>10, <1>12, <1>13 DEF InOrder

LEMMA InOrderStep == TypeOK /\ PacketsInOrder /\ [Next]_vars => PacketsInOrder'
  <1> SUFFICES ASSUME TypeOK, PacketsInOrder, [Next]_vars, NEW x \in Pipes
               PROVE  InOrder(x)'
    BY DEF PacketsInOrder
  <1>1. InOrder(x)
    BY DEF PacketsInOrder
  <1>2. CASE Lost(x)
    BY <1>2 DEF Lost, InOrder
  <1> QED
    BY <1>1, <1>2, EveryPipeStep, InOrderSteady, InOrderWrites, InOrderReads DEF PipeStep

LEMMA OrderKept == Spec => [](TypeOK /\ PacketsInOrder)
  <1>1. Init => TypeOK /\ PacketsInOrder
    BY TypingInit, InOrderInit
  <1>2. TypeOK /\ PacketsInOrder /\ [Next]_vars => (TypeOK /\ PacketsInOrder)'
    BY TypingStep, InOrderStep
  <1> QED
    BY <1>1, <1>2, PTL DEF Spec
(***************************************************************************)
(* GroupPacketsInOrder: whoever fails or dies, and however many packets a  *)
(* pipe takes, every group pipe holds the packets its reader still has to  *)
(* read, in the order of its reads, none missing and none from a call that *)
(* is over (writeToGroup and readFromGroup, mimpi_common.c:64-133, put no  *)
(* header on them).                                                        *)
(***************************************************************************)
THEOREM GroupPacketsInOrder == Spec => []PacketsInOrder
  BY OrderKept, PTL

(***************************************************************************)
(* GroupReadsAligned: no process ever takes the bytes of one group call,   *)
(* or of one chunk of its buffer, for those of another.                    *)
(***************************************************************************)
LEMMA AlignedRead ==
    ASSUME TypeOK, PacketsInOrder, NEW p \in Procs, Receiving(p), open[p], pipe[Here(p)] # <<>>
    PROVE  Key(Head(pipe[Here(p)])) = NextKey(p)
  <1> DEFINE x == Here(p)
  <1>1. Busy(p) /\ phase[p] \notin Sends
    BY DEF Receiving
  <1>2. x \in Pipes /\ Reader(x) = p /\ ReadPhase(x) = phase[p]
    BY <1>1, AtWork, BusyTyped
  <1>3. Due(x) = Share(p, phase[p], x) /\ \A k : Got(x, k) <=> Moved(p, phase[p], k)
    BY <1>2, DueAgreed DEF Got
  <1>4. InOrder(x)
    BY <1>2 DEF PacketsInOrder
  <1>5. /\ NextKey(p) \in Due(x) /\ ~Got(x, NextKey(p))
        /\ \A k \in Due(x) : Got(x, k) \/ k = NextKey(p) \/ Before(NextKey(p), k)
    BY <1>1, <1>3, NextIsDue
  <1> QED
    BY <1>2, <1>4, <1>5, HeadIsNext

LEMMA AlignedInv == TypeOK /\ PacketsInOrder => ReadsAligned
  <1> SUFFICES ASSUME TypeOK, PacketsInOrder, NEW p \in Procs,
                      Receiving(p), open[p], pipe[Here(p)] # <<>>
               PROVE  /\ Head(pipe[Here(p)]).round = round[p]
                      /\ Head(pipe[Here(p)]).chunk = moved[p] + 1
    BY DEF ReadsAligned
  <1>1. Key(Head(pipe[Here(p)])) = NextKey(p)
    BY AlignedRead
  <1> QED
    BY <1>1 DEF Key, NextKey

THEOREM GroupReadsAligned == Spec => []ReadsAligned
  BY OrderKept, AlignedInv, PTL

(***************************************************************************)
(* GroupNothingLeftBehind: when all processes are back from the same call, *)
(* no byte of it is left in any pipe for the next one to stumble on.       *)
(***************************************************************************)
LEMMA NothingLeftInv == TypeOK /\ PacketsInOrder => NothingLeftBehind
  <1> SUFFICES ASSUME TypeOK, PacketsInOrder, NEW x \in Pipes,
                      \A p, q \in Procs : phase[p] = Outside /\ done[p] = round[q],
                      pipe[x] # <<>>
               PROVE  FALSE
    BY DEF NothingLeftBehind
  <1>1. Writer(x) \in Procs /\ Reader(x) \in Procs
    BY PipeEnds
  <1>2. phase[Reader(x)] = Outside /\ round[Reader(x)] = round[Writer(x)]
    BY <1>1
  <1>3. Holds(x)
    BY DEF PacketsInOrder, InOrder
  <1>4. 1 \in 1 .. Len(pipe[x])
    BY KeyOfMark
  <1>5. PICK k : k \in Keys(x)
    BY <1>4, KeyOfMark
  <1>6. k \in Due(x) /\ ~Got(x, k) /\ k[1] <= round[Writer(x)]
    BY <1>3, <1>5 DEF Holds
  <1>7. k[1] \in Nat /\ round[Writer(x)] \in Nat
    BY <1>1, <1>6, BeforeOrders DEF TypeOK
  <1> QED
    BY <1>2, <1>6, <1>7 DEF Got, Moved

THEOREM GroupNothingLeftBehind == Spec => []NothingLeftBehind
  BY OrderKept, NothingLeftInv, PTL
=============================================================================
