--------------------------- MODULE GroupSyncProof ---------------------------
(***************************************************************************)
(* Proofs that the group operations synchronise, for every number of       *)
(* processes and every program whose calls have data to move.              *)
(***************************************************************************)
EXTENDS GroupOrderProof, WellFoundedInduction

(***************************************************************************)
(* The tree.                                                               *)
(***************************************************************************)
LEMMA BelowStep ==
    ASSUME NEW c \in Procs, NEW d \in Below[c]
    PROVE  \/ d = c
           \/ HasChild(2 * c) /\ d \in Below[2 * c]
           \/ HasChild(2 * c + 1) /\ d \in Below[2 * c + 1]
  <1> DEFINE U == {e \in Procs : \/ e = c
                                 \/ HasChild(2 * c) /\ e \in Below[2 * c]
                                 \/ HasChild(2 * c + 1) /\ e \in Below[2 * c + 1]}
  <1>1. \A a \in Procs : HasChild(2 * a) <=> 2 * a \in Procs
    BY SizesAssumption DEF Procs, HasChild
  <1>2. \A a \in Procs : HasChild(2 * a + 1) <=> 2 * a + 1 \in Procs
    BY SizesAssumption DEF Procs, HasChild
  <1>3. \A a \in Procs : a \in Below[a] /\ Below[a] \subseteq Procs
    BY DEF Below
  <1>4. ASSUME NEW a \in Procs, NEW e \in Below[a], NEW f \in {2 * e, 2 * e + 1}, f \in Procs
        PROVE  f \in Below[a]
    BY <1>4 DEF Below, Closed
  <1>5. Closed(U)
    <2> SUFFICES ASSUME NEW e \in U, NEW f \in {2 * e, 2 * e + 1}, f \in Procs
                 PROVE  f \in U
      BY DEF Closed
    <2>1. CASE e = c
      BY <1>1, <1>2, <1>3, <2>1
    <2>2. CASE HasChild(2 * c) /\ e \in Below[2 * c]
      BY <1>1, <1>4, <2>2
    <2>3. CASE HasChild(2 * c + 1) /\ e \in Below[2 * c + 1]
      BY <1>2, <1>4, <2>3
    <2> QED
      BY <2>1, <2>2, <2>3
  <1>6. \A T \in SUBSET Procs : c \in T /\ Closed(T) => d \in T
    BY DEF Below
  <1>7. U \in SUBSET Procs /\ c \in U
    OBVIOUS
  <1>8. d \in U
    BY <1>5, <1>6, <1>7
  <1> QED
    BY <1>8

\* Everyone is below the first process: the smallest process that were not
\* would have a parent that is.
LEMMA BelowRoot == 1 \in Procs /\ Below[1] = Procs
  <1>0. N \in Nat /\ 1 \in Procs /\ Procs \subseteq Nat
    BY SizesAssumption DEF Procs
  <1>1. ASSUME NEW d \in Procs, NEW T \in SUBSET Procs, 1 \in T, Closed(T)
        PROVE  d \in T
    <2> SUFFICES ASSUME d \notin T  PROVE FALSE
      OBVIOUS
    <2> DEFINE Out == Procs \ T
    <2>1. Out \subseteq Nat /\ Out # {}
      BY <1>0
    <2>2. PICK e \in Out : \A f \in Out : ~(<<f, e>> \in OpToRel(<, Nat))
      <3> HIDE DEF Out
      <3> QED
        BY <2>1, NatLessThanWellFounded, WFMin
    <2>3. \A f \in Out : ~(f < e)
      BY <2>1, <2>2 DEF OpToRel
    <2>4. e \in 2 .. N /\ e \in Procs /\ e \notin T
      BY <1>1, <1>0 DEF Procs
    <2>5. Parent(e) \in Procs /\ Parent(e) < e /\ e \in {2 * Parent(e), 2 * Parent(e) + 1}
      BY <1>0, <2>4 DEF Procs, Parent
    <2>6. Parent(e) \in T
      BY <2>3, <2>5
    <2> QED
      BY <1>1, <2>4, <2>5, <2>6 DEF Closed
  <1> QED
    BY <1>0, <1>1 DEF Below

\* What a process knows of all below its children it knows of all below itself.
LEMMA BegunBelow ==
    ASSUME NEW c \in Procs, NEW r, round[c] >= r,
           HasChild(2 * c) => Begun(r, Below[2 * c]),
           HasChild(2 * c + 1) => Begun(r, Below[2 * c + 1])
    PROVE  Begun(r, Below[c])
  BY BelowStep DEF Begun
(***************************************************************************)
(* No process skips a phase in which it has packets to move; under         *)
(* NonEmptyCalls these are all the phases it takes part in.                *)
(***************************************************************************)
LEMMA SomePackets ==
    ASSUME TypeOK, NonEmptyCalls, NEW i \in 1 .. Len(script),
           NEW p \in Procs, NEW ph \in Transfers, TakesPart(p, ph, script[i])
    PROVE  Size(p, ph, script[i]) > 0
  <1>1. script[i] \in Op /\ script \in Scripts
    BY ScriptTyped DEF TypeOK
  <1>2. script[i].kind # "barrier" => script[i].count > 0
    BY <1>1 DEF NonEmptyCalls
  <1>3. script[i].kind = "barrier" => ~CarriesData(ph, script[i])
    <2>1. \A f \in {ToFirst, FromRoot, ToRoot, FromFirst} :
              script[i].kind = "barrier" => ~TakesPart(p, f, script[i])
      BY PhaseNumbers DEF TakesPart
    <2> QED
      BY <2>1 DEF CarriesData
  <1> QED
    BY <1>2, <1>3 DEF Size, Packets

LEMMA NotSkipped ==
    ASSUME TypeOK, NonEmptyCalls, NEW p \in Procs, Busy(p), Advance(p),
           NEW ph \in Transfers, TakesPart(p, ph, Current(p)), phase'[p] > ph
    PROVE  phase[p] >= ph
  <1>1. /\ phase[p] \in Outside .. FromFirst /\ Current(p) \in Op
        /\ phase \in [Procs -> Outside .. Leaving] /\ round[p] \in 1 .. Len(script)
    BY BusyTyped DEF TypeOK
  <1>2. Size(p, ph, Current(p)) > 0
    BY <1>1, SomePackets DEF Current
  <1> DEFINE n == NextPhase(p, phase[p], Current(p))
  <1>3. n \in phase[p] + 1 .. Leaving /\ \A m \in phase[p] + 1 .. n - 1 : Size(p, m, Current(p)) = 0
    BY <1>1, NextPhaseFinds
  <1> HIDE DEF n
  <1>4. phase'[p] = n \/ phase'[p] = phase[p]
    BY <1>1 DEF Advance, n
  <1>5. ph \notin phase[p] + 1 .. n - 1
    BY <1>2, <1>3
  <1> QED
    BY <1>1, <1>3, <1>4, <1>5, PhaseNumbers DEF Transfers

LEMMA CallSkipsNothing ==
    ASSUME TypeOK, NonEmptyCalls, NEW p \in Procs, Call(p),
           NEW ph \in Transfers, TakesPart(p, ph, script[round[p] + 1])
    PROVE  phase'[p] <= ph
  <1> DEFINE o == script[round[p] + 1]
             n == NextPhase(p, Outside, o)
  <1>1. round[p] + 1 \in 1 .. Len(script)
    <2>1. round[p] \in Nat /\ round[p] < Len(script) /\ script \in Seq(Op)
      BY ScriptsAssumption DEF TypeOK, Call
    <2> QED
      BY <2>1
  <1>2. o \in Op /\ Size(p, ph, o) > 0
    BY <1>1, ScriptTyped, SomePackets
  <1>3. n \in 1 .. 11 /\ \A m \in 1 .. n - 1 : Size(p, m, o) = 0
    BY <1>2, NextPhaseFinds, PhaseNumbers
  <1> HIDE DEF n
  <1>4. phase'[p] = n
    BY DEF Call, TypeOK, n
  <1>5. ph \notin 1 .. n - 1
    BY <1>2, <1>3
  <1> QED
    BY <1>3, <1>4, <1>5, PhaseNumbers DEF Transfers

(***************************************************************************)
(* CallsInStep is inductive.                                               *)
(***************************************************************************)
LEMMA BegunLasts ==
    ASSUME TypeOK, [Next]_vars, NEW r, r \in Int, NEW Q \in SUBSET Procs, Begun(r, Q)
    PROVE  Begun(r, Q)'
  <1> SUFFICES ASSUME NEW q \in Q  PROVE round'[q] >= r
    BY DEF Begun
  <1>1. round[q] \in Nat /\ round'[q] \in Nat /\ round'[q] >= round[q]
    BY ProgramFixed
  <1> QED
    BY <1>1 DEF Begun

LEMMA BelowProcs == \A c \in Procs : Below[c] \subseteq Procs
  BY DEF Below

\* The packets in a pipe after a step were there before, or one was written.
LEMMA KeysGrow ==
    ASSUME TypeOK, PacketsInOrder, [Next]_vars, NEW x \in Pipes
    PROVE  \A k \in Keys(x)' :
               /\ k[1] \in Nat
               /\ \/ k \in Keys(x)
                  \/ /\ k[1] = round[Writer(x)] /\ phase[Writer(x)] = WritePhase(x)
                     /\ round' = round
  <1>1. InOrder(x) /\ TypeOK' /\ InOrder(x)'
    BY TypingStep, InOrderStep DEF PacketsInOrder
  <1>2. \A k \in Keys(x)' : k[1] \in Nat
    <2>1. pipe'[x] \in Seq(Mark)
      BY <1>1 DEF TypeOK
    <2>2. \A i \in 1 .. Len(pipe'[x]) : pipe'[x][i].round \in Nat
      <3>1. ASSUME NEW i \in 1 .. Len(pipe'[x])  PROVE pipe'[x][i] \in Mark
        BY <2>1, ElementOfSeq
      <3> QED
        BY <3>1 DEF Mark
    <2> QED
      BY <2>2 DEF Keys, Key
  <1>3. CASE Steady(x)
    BY <1>2, <1>3 DEF Steady, Keys, Key
  <1>4. CASE \E K : Reads(x, K)
    BY <1>1, <1>2, <1>4, InOrderReads
  <1>5. CASE Lost(x)
    BY <1>2, <1>5 DEF Lost, Keys
  <1>6. ASSUME NEW m, Writes(x, m)
        PROVE  \A k \in Keys(x)' : k \in Keys(x) \/ k = Key(m)
    <2>1. /\ pipe'[x] = Append(pipe[x], m) /\ pipe[x] \in Seq(Mark) /\ m \in Mark
      BY <1>6 DEF Writes, TypeOK
    <2>2. /\ Len(pipe'[x]) = Len(pipe[x]) + 1 /\ Len(pipe[x]) \in Nat
          /\ \A i \in 1 .. Len(pipe[x]) : pipe'[x][i] = pipe[x][i]
          /\ pipe'[x][Len(pipe[x]) + 1] = m
      BY <2>1, AppendProperties
    <2> QED
      BY <2>2 DEF Keys, Key
  <1>7. CASE \E m : Writes(x, m)
    <2>1. PICK m : Writes(x, m)
      BY <1>7
    <2>2. /\ Key(m)[1] = round[Writer(x)] /\ phase[Writer(x)] = WritePhase(x) /\ round' = round
      BY <2>1 DEF Writes, Key
    <2> QED
      BY <1>2, <1>6, <2>1, <2>2
  <1> QED
    BY <1>3, <1>4, <1>5, <1>7, EveryPipeStep DEF PipeStep

LEMMA UpStep ==
    ASSUME TypeOK, PacketsInOrder, CallsInStep, [Next]_vars, NEW c \in 2 .. N
    PROVE  UpTells(c)'
  <1> DEFINE x == <<"up", c>>
  <1>1. x \in Pipes /\ c \in Procs /\ c # 1 /\ Writer(x) = c /\ WritePhase(x) = ToParent
    BY Halves, SizesAssumption DEF Pipes, Writer, WritePhase
  <1> HIDE DEF x
  <1> SUFFICES ASSUME NEW k \in Keys(x)'  PROVE Begun(k[1], Below[c])'
    BY DEF UpTells, x
  <1>2. k[1] \in Nat /\ Below[c] \in SUBSET Procs
    BY <1>1, KeysGrow, BelowProcs
  <1>3. Begun(k[1], Below[c])
    <2>1. CASE k \in Keys(x)
      BY <2>1 DEF CallsInStep, UpTells, x
    <2>2. CASE k[1] = round[c] /\ phase[c] = ToParent
      <3>1. LeftKnown(c) /\ RightKnown(c)
        BY <1>1 DEF CallsInStep
      <3>2. /\ HasChild(2 * c) => Begun(round[c], Below[2 * c])
            /\ HasChild(2 * c + 1) => Begun(round[c], Below[2 * c + 1])
        BY <2>2, <3>1, PhaseNumbers DEF LeftKnown, RightKnown
      <3>3. round[c] >= round[c]
        BY <1>1 DEF TypeOK
      <3> QED
        BY <1>1, <2>2, <3>2, <3>3, BegunBelow
    <2> QED
      BY <1>1, <2>1, <2>2, KeysGrow
  <1> QED
    BY <1>2, <1>3, BegunLasts

LEMMA DownStep ==
    ASSUME TypeOK, PacketsInOrder, CallsInStep, [Next]_vars, NEW c \in 2 .. N
    PROVE  DownTells(c)'
  <1> DEFINE x == <<"down", c>>
  <1>1. /\ x \in Pipes /\ Parent(c) \in Procs /\ Writer(x) = Parent(c)
        /\ WritePhase(x) \in {ToLeft, ToRight}
    BY Halves DEF Pipes, Writer, WritePhase
  <1> HIDE DEF x
  <1> SUFFICES ASSUME NEW k \in Keys(x)'  PROVE Begun(k[1], Procs)'
    BY DEF DownTells, x
  <1>2. k[1] \in Nat
    BY <1>1, KeysGrow
  <1>3. Begun(k[1], Procs)
    <2>1. CASE k \in Keys(x)
      BY <2>1 DEF CallsInStep, DownTells, x
    <2>2. CASE k[1] = round[Parent(c)] /\ phase[Parent(c)] \in {ToLeft, ToRight}
      <3>1. AllKnown(Parent(c))
        BY <1>1 DEF CallsInStep
      <3> QED
        BY <2>2, <3>1, PhaseNumbers DEF AllKnown
    <2> QED
      BY <1>1, <2>1, <2>2, KeysGrow
  <1> QED
    BY <1>2, <1>3, BegunLasts

\* What the packet tells the process that reads it.
LEMMA ReadTells ==
    ASSUME TypeOK, PacketsInOrder, CallsInStep, NEW p \in Procs, GroupRecv(p)
    PROVE  /\ phase[p] = FromLeft => Begun(round[p], Below[2 * p])
           /\ phase[p] = FromRight => Begun(round[p], Below[2 * p + 1])
           /\ phase[p] = FromParent => Begun(round[p], Procs)
  <1>1. Busy(p) /\ Receiving(p) /\ open[p] /\ pipe[Here(p)] # <<>>
    BY DEF GroupRecv, Receiving
  <1>2. Here(p) \in Pipes
    BY <1>1, BusyTyped
  <1>3. Key(Head(pipe[Here(p)])) = NextKey(p)
    BY <1>1, AlignedRead
  <1>4. NextKey(p) \in Keys(Here(p)) /\ NextKey(p)[1] = round[p]
    BY <1>1, <1>2, <1>3, KeyOfMark DEF NextKey
  <1>5. \A a, b : <<a, b>> \in Pipes => b \in 2 .. N
    BY DEF Pipes
  <1>6. CASE phase[p] = FromLeft
    <2>1. Here(p) = <<"up", 2 * p>> /\ 2 * p \in 2 .. N
      BY <1>2, <1>5, <1>6, PhaseNumbers DEF Here, PipeOf
    <2>2. UpTells(2 * p)
      BY <2>1 DEF CallsInStep
    <2> QED
      BY <1>4, <1>6, <2>1, <2>2, PhaseNumbers DEF UpTells
  <1>7. CASE phase[p] = FromRight
    <2>1. Here(p) = <<"up", 2 * p + 1>> /\ 2 * p + 1 \in 2 .. N
      BY <1>2, <1>5, <1>7, PhaseNumbers DEF Here, PipeOf
    <2>2. UpTells(2 * p + 1)
      BY <2>1 DEF CallsInStep
    <2> QED
      BY <1>4, <1>7, <2>1, <2>2, PhaseNumbers DEF UpTells
  <1>8. CASE phase[p] = FromParent
    <2>1. Here(p) = <<"down", p>> /\ p \in 2 .. N
      BY <1>2, <1>5, <1>8, PhaseNumbers DEF Here, PipeOf
    <2>2. DownTells(p)
      BY <2>1 DEF CallsInStep
    <2> QED
      BY <1>4, <1>8, <2>1, <2>2, PhaseNumbers DEF DownTells
  <1> QED
    BY <1>6, <1>7, <1>8

\* What is known in the phases of the tree.
Knows(p) == LeftKnown(p) /\ RightKnown(p) /\ AllKnown(p)

LEMMA RootKnows ==
    ASSUME NEW r, round[1] >= r,
           HasChild(2) => Begun(r, Below[2]), HasChild(3) => Begun(r, Below[3])
    PROVE  Begun(r, Procs)
  <1>1. 1 \in Procs /\ Below[1] = Procs /\ 2 * 1 = 2 /\ 2 * 1 + 1 = 3
    BY BelowRoot
  <1> QED
    BY <1>1, BegunBelow

LEMMA MoveKnows ==
    ASSUME TypeOK, PacketsInOrder, CallsInStep, NonEmptyCalls, [Next]_vars,
           NEW p \in Procs, GroupSend(p) \/ GroupRecv(p)
    PROVE  Knows(p)'
  <1>1. /\ Busy(p) /\ Advance(p) /\ round' = round
        /\ phase[p] \in Sends => ~GroupRecv(p)
        /\ phase[p] \notin Sends => GroupRecv(p)
    BY DEF GroupSend, GroupRecv, Sending, Receiving
  <1>2. /\ phase[p] \in 1 .. 10 /\ Current(p) \in Op
        /\ phase'[p] \in 0 .. 11
    BY <1>1, BusyTyped, AdvanceTyped, PhaseNumbers DEF Busy, Transfers
  <1>3. Knows(p)
    BY DEF CallsInStep, Knows
  <1>4. LeftKnown(p)'
    <2> SUFFICES ASSUME phase'[p] > FromLeft, HasChild(2 * p)
                 PROVE  Begun(round[p], Below[2 * p])
      BY <1>1 DEF LeftKnown, Begun
    <2>1. TakesPart(p, FromLeft, Current(p)) /\ FromLeft \in Transfers
      BY PhaseNumbers DEF TakesPart, Transfers
    <2>2. phase[p] >= FromLeft
      BY <1>1, <2>1, NotSkipped
    <2>3. CASE phase[p] > FromLeft
      BY <1>3, <2>3 DEF Knows, LeftKnown
    <2>4. CASE phase[p] = FromLeft
      <3>1. GroupRecv(p)
        BY <1>1, <2>4, PhaseNumbers DEF Sends
      <3> QED
        BY <2>4, <3>1, ReadTells
    <2> QED
      BY <1>2, <2>2, <2>3, <2>4, PhaseNumbers
  <1>5. RightKnown(p)'
    <2> SUFFICES ASSUME phase'[p] > FromRight, HasChild(2 * p + 1)
                 PROVE  Begun(round[p], Below[2 * p + 1])
      BY <1>1 DEF RightKnown, Begun
    <2>1. TakesPart(p, FromRight, Current(p)) /\ FromRight \in Transfers
      BY PhaseNumbers DEF TakesPart, Transfers
    <2>2. phase[p] >= FromRight
      BY <1>1, <2>1, NotSkipped
    <2>3. CASE phase[p] > FromRight
      BY <1>3, <2>3 DEF Knows, RightKnown
    <2>4. CASE phase[p] = FromRight
      <3>1. GroupRecv(p)
        BY <1>1, <2>4, PhaseNumbers DEF Sends
      <3> QED
        BY <2>4, <3>1, ReadTells
    <2> QED
      BY <1>2, <2>2, <2>3, <2>4, PhaseNumbers
  <1>6. AllKnown(p)'
    <2> SUFFICES ASSUME phase'[p] >= ToLeft  PROVE Begun(round[p], Procs)
      BY <1>1 DEF AllKnown, Begun
    <2>1. CASE phase[p] >= ToLeft
      BY <1>3, <2>1 DEF Knows, AllKnown
    <2>2. CASE phase[p] < ToLeft /\ p # 1
      <3>1. TakesPart(p, FromParent, Current(p)) /\ FromParent \in Transfers
        BY <2>2, PhaseNumbers DEF TakesPart, Transfers
      <3>2. phase[p] >= FromParent
        BY <1>1, <1>2, <3>1, NotSkipped, PhaseNumbers
      <3>3. phase[p] = FromParent
        BY <1>2, <2>2, <3>2, PhaseNumbers
      <3>4. GroupRecv(p)
        BY <1>1, <3>3, PhaseNumbers DEF Sends
      <3> QED
        BY <3>3, <3>4, ReadTells
    <2>3. CASE p = 1
      <3>1. LeftKnown(1)' /\ RightKnown(1)' /\ phase'[1] > FromLeft /\ phase'[1] > FromRight
        BY <1>2, <1>4, <1>5, <2>3, PhaseNumbers
      <3>2. 2 * 1 = 2 /\ 2 * 1 + 1 = 3
        OBVIOUS
      <3>3. /\ HasChild(2) => Begun(round[1], Below[2])
            /\ HasChild(3) => Begun(round[1], Below[3])
        BY <1>1, <3>1, <3>2 DEF LeftKnown, RightKnown, Begun
      <3>4. round[1] >= round[1]
        BY <2>3 DEF TypeOK
      <3> QED
        BY <2>3, <3>3, <3>4, RootKnows
    <2> QED
      BY <1>2, <2>1, <2>2, <2>3, PhaseNumbers
  <1> QED
    BY <1>4, <1>5, <1>6 DEF Knows
LEMMA CallKnows ==
    ASSUME TypeOK, NonEmptyCalls, [Next]_vars, NEW p \in Procs, Call(p)
    PROVE  Knows(p)'
  <1> DEFINE o == script[round[p] + 1]
  <1>1. /\ phase'[p] \in 0 .. 11 /\ round'[p] \in Nat
        /\ \A ph \in Transfers : TakesPart(p, ph, o) => phase'[p] <= ph
    BY TypingStep, CallSkipsNothing, PhaseNumbers DEF TypeOK
  <1>2. \A ph \in {FromLeft, FromRight, FromParent} : ph \in Transfers
    BY PhaseNumbers DEF Transfers
  <1>3. /\ HasChild(2 * p) => TakesPart(p, FromLeft, o)
        /\ HasChild(2 * p + 1) => TakesPart(p, FromRight, o)
        /\ p # 1 => TakesPart(p, FromParent, o)
    BY PhaseNumbers DEF TakesPart
  <1> HIDE DEF o
  <1>4. /\ HasChild(2 * p) => phase'[p] <= FromLeft
        /\ HasChild(2 * p + 1) => phase'[p] <= FromRight
        /\ p # 1 => phase'[p] <= FromParent
    BY <1>1, <1>2, <1>3
  <1>5. LeftKnown(p)' /\ RightKnown(p)'
    BY <1>1, <1>4, PhaseNumbers DEF LeftKnown, RightKnown
  <1>6. AllKnown(p)'
    <2> SUFFICES ASSUME phase'[p] >= ToLeft  PROVE \A q \in Procs : round'[q] >= round'[p]
      BY DEF AllKnown, Begun
    <2>1. p = 1 /\ ~HasChild(2)
      BY <1>1, <1>4, PhaseNumbers
    <2>2. Procs = {1}
      BY <2>1, SizesAssumption DEF Procs, HasChild
    <2> QED
      BY <1>1, <2>1, <2>2
  <1> QED
    BY <1>5, <1>6 DEF Knows

LEMMA IdleKnows ==
    ASSUME TypeOK, [Next]_vars, NEW q \in Procs, Knows(q), UNCHANGED <<phase[q], round[q]>>
    PROVE  Knows(q)'
  <1>1. round[q] \in Int /\ \A c \in Procs : Below[c] \in SUBSET Procs
    BY BelowProcs DEF TypeOK
  <1>2. LeftKnown(q)'
    <2> SUFFICES ASSUME phase[q] > FromLeft, HasChild(2 * q)
                 PROVE  Begun(round[q], Below[2 * q])'
      BY DEF LeftKnown, Begun
    <2>1. 2 * q \in Procs
      BY SizesAssumption DEF HasChild, Procs
    <2> QED
      BY <1>1, <2>1, BegunLasts DEF Knows, LeftKnown
  <1>3. RightKnown(q)'
    <2> SUFFICES ASSUME phase[q] > FromRight, HasChild(2 * q + 1)
                 PROVE  Begun(round[q], Below[2 * q + 1])'
      BY DEF RightKnown, Begun
    <2>1. 2 * q + 1 \in Procs
      BY SizesAssumption DEF HasChild, Procs
    <2> QED
      BY <1>1, <2>1, BegunLasts DEF Knows, RightKnown
  <1>4. AllKnown(q)'
    <2> SUFFICES ASSUME phase[q] >= ToLeft  PROVE Begun(round[q], Procs)'
      BY DEF AllKnown, Begun
    <2> QED
      BY <1>1, BegunLasts DEF Knows, AllKnown
  <1> QED
    BY <1>2, <1>3, <1>4 DEF Knows

LEMMA KnowsStep ==
    ASSUME TypeOK, PacketsInOrder, CallsInStep, NonEmptyCalls, [Next]_vars, NEW q \in Procs
    PROVE  Knows(q)'
  <1>0. Knows(q)
    BY DEF CallsInStep, Knows
  <1>1. CASE UNCHANGED vars
    <2>1. UNCHANGED <<phase[q], round[q]>>
      BY <1>1 DEF vars
    <2> QED
      BY <1>0, <2>1, IdleKnows
  <1>2. ASSUME NEW p \in Procs, LibraryStep(p) \/ ProgramStep(p) \/ Die(p)
        PROVE  Knows(q)'
    <2>1. CASE p # q
      <3>1. UNCHANGED <<phase[q], round[q]>>
        BY <1>2, <2>1, OthersIdle
      <3> QED
        BY <1>0, <3>1, IdleKnows
    <2>2. CASE p = q /\ (GroupSend(p) \/ GroupRecv(p))
      BY <2>2, MoveKnows
    <2>3. CASE p = q /\ Call(p)
      BY <2>3, CallKnows
    <2>4. CASE p = q /\ (GroupFails(p) \/ Succeed(p) \/ RejectCall(p))
      <3>1. phase'[q] = Outside
        BY <2>4 DEF GroupFails, Succeed, RejectCall, Return, TypeOK
      <3> QED
        BY <3>1, PhaseNumbers DEF Knows, LeftKnown, RightKnown, AllKnown
    <2>5. CASE p = q /\ (Abort(p) \/ Finalize(p) \/ Die(p))
      <3>1. UNCHANGED <<phase[q], round[q]>>
        BY <2>5 DEF Abort, Finalize, Die
      <3> QED
        BY <1>0, <3>1, IdleKnows
    <2> QED
      BY <1>2, <2>1, <2>2, <2>3, <2>4, <2>5 DEF LibraryStep, ProgramStep
  <1> QED
    BY <1>1, <1>2 DEF Next

LEMMA SyncStep ==
    ASSUME TypeOK, CallsInStep, [Next]_vars
    PROVE  GroupSync'
  <1> SUFFICES ASSUME NEW p \in Procs, NEW q \in Procs  PROVE done'[p] <= round'[q]
    BY DEF GroupSync
  <1>1. /\ done[p] \in Nat /\ round[p] \in Nat /\ round[q] \in Nat /\ round'[q] \in Nat
        /\ round'[q] >= round[q] /\ done[p] <= round[q]
    BY ProgramFixed DEF TypeOK, CallsInStep, GroupSync
  <1>2. done'[p] = done[p] \/ (Succeed(p) /\ done'[p] = round[p])
    <2>0. done \in [Procs -> Nat]
      BY DEF TypeOK
    <2>1. ASSUME NEW a \in Procs, LibraryStep(a)
          PROVE  done'[p] = done[p] \/ (Succeed(p) /\ done'[p] = round[p])
      BY <2>0, <2>1 DEF LibraryStep, GroupSend, GroupRecv, GroupFails, Abort, Succeed
    <2>2. ASSUME NEW a \in Procs, ProgramStep(a) \/ Die(a)
          PROVE  done'[p] = done[p]
      BY <2>2 DEF ProgramStep, Call, RejectCall, Finalize, Die
    <2> QED
      BY <2>1, <2>2 DEF Next, vars
  <1>3. CASE Succeed(p) /\ done'[p] = round[p]
    <2>1. AllKnown(p) /\ phase[p] >= ToLeft
      BY <1>3, PhaseNumbers DEF CallsInStep, Succeed
    <2>2. round[q] >= round[p]
      BY <2>1 DEF AllKnown, Begun
    <2> QED
      BY <1>1, <1>3, <2>2
  <1> QED
    BY <1>1, <1>2, <1>3

LEMMA InStepInit == Init => CallsInStep
  <1> SUFFICES ASSUME Init  PROVE CallsInStep
    OBVIOUS
  <1>1. \A c \in 2 .. N : UpTells(c) /\ DownTells(c)
    <2>1. \A c \in 2 .. N : <<"up", c>> \in Pipes /\ <<"down", c>> \in Pipes
      BY DEF Pipes
    <2>2. \A c \in 2 .. N : Keys(<<"up", c>>) = {} /\ Keys(<<"down", c>>) = {}
      <3>1. ASSUME NEW x \in Pipes  PROVE Keys(x) = {}
        BY DEF Init, Keys
      <3> QED
        BY <2>1, <3>1
    <2> QED
      BY <2>2 DEF UpTells, DownTells
  <1>2. \A p \in Procs : phase[p] = Outside /\ done[p] = 0 /\ round[p] = 0
    BY DEF Init
  <1> QED
    BY <1>1, <1>2, PhaseNumbers DEF CallsInStep, LeftKnown, RightKnown, AllKnown, GroupSync

LEMMA InStepStep ==
    NonEmptyCalls /\ TypeOK /\ PacketsInOrder /\ CallsInStep /\ [Next]_vars => CallsInStep'
  <1> SUFFICES ASSUME NonEmptyCalls, TypeOK, PacketsInOrder, CallsInStep, [Next]_vars
               PROVE  CallsInStep'
    OBVIOUS
  <1>1. \A c \in 2 .. N : UpTells(c)' /\ DownTells(c)'
    BY UpStep, DownStep
  <1>2. \A p \in Procs : LeftKnown(p)' /\ RightKnown(p)' /\ AllKnown(p)'
    BY KnowsStep DEF Knows
  <1> QED
    BY <1>1, <1>2, SyncStep DEF CallsInStep

LEMMA InStepKept ==
    ASSUME NonEmptyCalls
    PROVE  Spec => [](TypeOK /\ PacketsInOrder /\ CallsInStep)
  <1>1. Init => TypeOK /\ PacketsInOrder /\ CallsInStep
    BY TypingInit, InOrderInit, InStepInit
  <1>2. TypeOK /\ PacketsInOrder /\ CallsInStep /\ [Next]_vars
            => (TypeOK /\ PacketsInOrder /\ CallsInStep)'
    BY TypingStep, InOrderStep, InStepStep
  <1> QED
    BY <1>1, <1>2, PTL DEF Spec

(***************************************************************************)
(* GroupSynchronised: a group call returns SUCCESS only after every        *)
(* process has begun it, for any number of processes, if every Bcast and   *)
(* Reduce has data to move.  The hypothesis is needed: without data a Bcast *)
(* releases nobody and a Reduce waits for nobody (run group_zero).         *)
(***************************************************************************)
THEOREM GroupSynchronised == NonEmptyCalls => (Spec => []GroupSync)
  <1> SUFFICES ASSUME NonEmptyCalls  PROVE Spec => []GroupSync
    OBVIOUS
  <1>1. CallsInStep => GroupSync
    BY DEF CallsInStep
  <1>2. Spec => [](TypeOK /\ PacketsInOrder /\ CallsInStep)
    BY InStepKept
  <1> QED
    BY <1>1, <1>2, PTL

\* The inductive invariant behind it: what every process knows of the others.
THEOREM GroupCallsInStep == NonEmptyCalls => (Spec => []CallsInStep)
  <1> SUFFICES ASSUME NonEmptyCalls  PROVE Spec => []CallsInStep
    OBVIOUS
  <1>1. Spec => [](TypeOK /\ PacketsInOrder /\ CallsInStep)
    BY InStepKept
  <1> QED
    BY <1>1, PTL
(***************************************************************************)
(* LossesExplained is inductive.                                           *)
(***************************************************************************)
LEMMA DoomedLasts ==
    ASSUME TypeOK, [Next]_vars, NEW r, Doomed(r)
    PROVE  Doomed(r)'
  <1>1. PICK q \in Procs : Where(q) = "dead" \/ (Where(q) = "left" /\ round[q] < r)
    BY DEF Doomed
  <1>2. status[q] \in {"left", "dead", "aborted"}
    BY <1>1 DEF Where
  <1>3. UNCHANGED <<status[q], round[q]>>
    <2>1. ASSUME NEW p \in Procs, LibraryStep(p) \/ ProgramStep(p) \/ Die(p)
          PROVE  UNCHANGED <<status[q], round[q]>>
      <3>1. p # q
        BY <1>2, <2>1 DEF LibraryStep, ProgramStep, GroupSend, GroupRecv, GroupFails, PeerGone,
              Sending, Receiving, Busy, Abort, Succeed, Call, RejectCall, Finalize, Die
      <3> QED
        BY <2>1, <3>1, OthersIdle
    <2> QED
      BY <2>1 DEF Next, vars
  <1>4. Where(q)' = Where(q)
    BY <1>2, <1>3 DEF Where
  <1> QED
    BY <1>1, <1>3, <1>4 DEF Doomed

LEMMA DoomedLater ==
    ASSUME TypeOK, NEW r \in Nat, NEW s \in Nat, r <= s, Doomed(r)
    PROVE  Doomed(s)
  <1>1. \A q \in Procs : round[q] \in Nat
    BY DEF TypeOK
  <1> QED
    BY <1>1 DEF Doomed

\* A call fails in a process only for a reason.
LEMMA FailureExplained ==
    ASSUME TypeOK, LossesExplained, NEW p \in Procs, GroupFails(p)
    PROVE  Doomed(round[p])
  <1> DEFINE x == Here(p)
  <1>1. Busy(p) /\ open[p]
    BY DEF GroupFails, PeerGone, Sending, Receiving
  <1>2. /\ x \in Pipes
        /\ NextKey(p) \in Share(p, phase[p], x) /\ ~Moved(p, phase[p], NextKey(p))
        /\ NextKey(p)[1] = round[p]
    BY <1>1, BusyTyped, NextIsDue DEF NextKey
  <1>3. CASE Sending(p) /\ ~open[Reader(x)]
    <2>1. Writer(x) = p /\ WritePhase(x) = phase[p]
      BY <1>1, <1>3, AtWork DEF Sending
    <2>2. NextKey(p) \in Due(x) /\ ~Sent(x, NextKey(p))
      BY <1>2, <2>1 DEF Due, Sent
    <2> QED
      BY <1>1, <1>2, <1>3, <2>1, <2>2 DEF LossesExplained
  <1>4. CASE Receiving(p) /\ pipe[x] = <<>> /\ ~open[Writer(x)]
    <2>1. Reader(x) = p /\ ReadPhase(x) = phase[p]
      BY <1>1, <1>4, AtWork DEF Receiving
    <2>2. NextKey(p) \in Due(x) /\ ~Got(x, NextKey(p))
      BY <1>2, <2>1, DueAgreed DEF Got
    <2>3. NextKey(p) \in Missed(x)
      BY <1>4, <2>2 DEF Missed, Keys
    <2> QED
      BY <1>1, <1>2, <1>4, <2>1, <2>3 DEF LossesExplained
  <1> QED
    BY <1>3, <1>4 DEF GroupFails, PeerGone

Closing(p) == GroupFails(p) \/ Finalize(p) \/ Die(p)

LEMMA WhoCloses ==
    ASSUME TypeOK, [Next]_vars, NEW q \in Procs, open[q], ~open'[q]
    PROVE  Closing(q)
  <1>1. ASSUME NEW p \in Procs, LibraryStep(p) \/ ProgramStep(p) \/ Die(p)
        PROVE  Closing(q)
    <2>1. p = q
      BY <1>1, OthersIdle
    <2> QED
      BY <1>1, <2>1 DEF LibraryStep, ProgramStep, GroupSend, GroupRecv, Abort, Succeed,
         Call, RejectCall, Closing
  <1> QED
    BY <1>1 DEF Next, vars

\* A process closes its pipes with packets still to move only if a process has
\* gone without beginning their call, or died.
LEMMA ClosingExplained ==
    ASSUME TypeOK, LossesExplained, [Next]_vars, NEW p \in Procs, Closing(p),
           NEW ph \in Transfers, NEW x, NEW k \in Share(p, ph, x), ~Moved(p, ph, k)
    PROVE  Doomed(k[1])'
  <1>1. /\ k[1] \in Nat /\ round[p] \in Nat /\ k[1] >= round[p]
        /\ status \in [Procs -> {"running", "left", "dead", "aborted"}]
    <2>1. k[1] \in Nat /\ round[p] \in Nat
      BY ShareSays DEF TypeOK
    <2> QED
      BY <2>1 DEF Moved, TypeOK
  <1>2. CASE GroupFails(p)
    BY <1>1, <1>2, FailureExplained, DoomedLater, DoomedLasts
  <1>3. CASE Finalize(p)
    <2>1. Where(p)' = "left" /\ round'[p] = round[p] /\ phase[p] = Outside
      BY <1>1, <1>3 DEF Finalize, Where
    <2>2. round[p] < k[1]
      BY <1>1, <2>1 DEF Moved
    <2> QED
      BY <2>1, <2>2 DEF Doomed
  <1>4. CASE Die(p)
    <2>1. Where(p)' = "dead"
      BY <1>1, <1>4 DEF Die, Where
    <2> QED
      BY <2>1 DEF Doomed
  <1> QED
    BY <1>2, <1>3, <1>4 DEF Closing

LEMMA MissedShrinks ==
    ASSUME TypeOK, PacketsInOrder, [Next]_vars, NEW x \in Pipes, open'[Reader(x)], ~open'[Writer(x)]
    PROVE  Missed(x)' \subseteq Missed(x)
  <1>1. Due(x)' = Due(x) /\ Writer(x) \in Procs /\ Reader(x) \in Procs /\ InOrder(x)
    BY ProgramFixed, PipeEnds DEF PacketsInOrder
  <1>2. CASE Steady(x)
    BY <1>1, <1>2 DEF Steady, GotKept, Missed, Keys, Key
  <1>3. ASSUME NEW K, Reads(x, K)
        PROVE  Missed(x)' \subseteq Missed(x)
    <2>1. \A k \in Due(x) : ~Got(x, k)' => ~Got(x, k) /\ k # K
      BY <1>3 DEF Reads
    <2>2. \A k \in Keys(x) : k = K \/ k \in Keys(x)'
      BY <1>1, <1>3, InOrderReads
    <2> QED
      BY <1>1, <2>1, <2>2 DEF Missed
  <1>4. ~Lost(x) /\ \A m : ~Writes(x, m)
    BY DEF Lost, Writes
  <1> QED
    BY <1>2, <1>3, <1>4, EveryPipeStep DEF PipeStep

LEMMA LossesInit == Init => LossesExplained
  <1> SUFFICES ASSUME Init, NEW x \in Pipes  PROVE open[Reader(x)] /\ open[Writer(x)]
    BY DEF LossesExplained
  <1> QED
    BY PipeEnds DEF Init

LEMMA LossesStep ==
    TypeOK /\ PacketsInOrder /\ LossesExplained /\ [Next]_vars => LossesExplained'
  <1> SUFFICES ASSUME TypeOK, PacketsInOrder, LossesExplained, [Next]_vars, NEW x \in Pipes
               PROVE  /\ open'[Reader(x)] /\ ~open'[Writer(x)]
                            => \A k \in Missed(x)' : Doomed(k[1])'
                      /\ open'[Writer(x)] /\ ~open'[Reader(x)]
                            => \A k \in Due(x)' : Sent(x, k)' \/ Doomed(k[1])'
    BY DEF LossesExplained
  <1>1. /\ Due(x)' = Due(x) /\ Writer(x) \in Procs /\ Reader(x) \in Procs /\ InOrder(x)
        /\ WritePhase(x) \in Transfers /\ ReadPhase(x) \in Transfers
        /\ Due(x) = Share(Writer(x), WritePhase(x), x) /\ Due(x) = Share(Reader(x), ReadPhase(x), x)
    BY ProgramFixed, PipeEnds, DueAgreed, PhaseNumbers DEF PacketsInOrder, Transfers, Due
  <1>2. (open'[Reader(x)] => open[Reader(x)]) /\ (open'[Writer(x)] => open[Writer(x)])
    BY <1>1, ProgramFixed
  <1>3. ASSUME open'[Reader(x)], ~open'[Writer(x)], NEW k \in Missed(x)'
        PROVE  Doomed(k[1])'
    <2>1. k \in Missed(x) /\ open[Reader(x)]
      BY <1>2, <1>3, MissedShrinks
    <2>2. CASE ~open[Writer(x)]
      BY <2>1, <2>2, DoomedLasts DEF LossesExplained
    <2>3. CASE open[Writer(x)]
      <3>1. k \in Due(x) /\ ~Sent(x, k)
        BY <1>1, <2>1, <2>3 DEF InOrder, NoGap, Missed
      <3>2. Closing(Writer(x))
        BY <1>1, <1>3, <2>3, WhoCloses
      <3> QED
        BY <1>1, <3>1, <3>2, ClosingExplained DEF Sent
    <2> QED
      BY <2>2, <2>3
  <1>4. ASSUME open'[Writer(x)], ~open'[Reader(x)], NEW k \in Due(x), ~Sent(x, k)'
        PROVE  Doomed(k[1])'
    <2>1. SentKept(x)
      <3>2. ASSUME NEW m, Writes(x, m)  PROVE FALSE
        BY <1>4, <3>2 DEF Writes
      <3>3. ASSUME NEW K, Reads(x, K)  PROVE FALSE
        BY <1>4, <3>3 DEF Reads
      <3> QED
        BY <1>4, <3>2, <3>3, EveryPipeStep DEF PipeStep, Steady, Lost
    <2>2. ~Sent(x, k) /\ open[Writer(x)]
      BY <1>2, <1>4, <2>1 DEF SentKept
    <2>3. CASE ~open[Reader(x)]
      BY <2>2, <2>3, DoomedLasts DEF LossesExplained
    <2>4. CASE open[Reader(x)]
      <3>1. ~Got(x, k)
        BY <1>1, <2>2, <2>4 DEF InOrder, NotAhead
      <3>2. Closing(Reader(x))
        BY <1>1, <1>4, <2>4, WhoCloses
      <3> QED
        BY <1>1, <3>1, <3>2, ClosingExplained DEF Got
    <2> QED
      BY <2>3, <2>4
  <1> QED
    BY <1>1, <1>3, <1>4
LEMMA LossesKept == Spec => [](TypeOK /\ PacketsInOrder /\ LossesExplained)
  <1>1. Init => TypeOK /\ PacketsInOrder /\ LossesExplained
    BY TypingInit, InOrderInit, LossesInit
  <1>2. TypeOK /\ PacketsInOrder /\ LossesExplained /\ [Next]_vars
            => (TypeOK /\ PacketsInOrder /\ LossesExplained)'
    BY TypingStep, InOrderStep, LossesStep
  <1> QED
    BY <1>1, <1>2, PTL DEF Spec

(***************************************************************************)
(* GroupLossesExplained: a packet of a group call is lost, or not wanted   *)
(* any more, only if some process has left without beginning that call, or *)
(* has died; so a call fails for no other reason (closeGroupPipes,         *)
(* mimpi_common.c, on EPIPE and on end of file).  No hypothesis is needed. *)
(***************************************************************************)
THEOREM GroupLossesExplained == Spec => []LossesExplained
  BY LossesKept, PTL

(***************************************************************************)
(* The tree of pipes implements SyncPoint.                                 *)
(***************************************************************************)
Places == [p \in Procs |-> Where(p)]

LEMMA RefinementInit == Init => S!Init
  BY DEF Init, S!Init, Where

\* The abstract place of the processes that do not move is the same.
LEMMA PlacesChange ==
    ASSUME TypeOK, NEW p \in Procs, LibraryStep(p) \/ ProgramStep(p) \/ Die(p)
    PROVE  Places' = [Places EXCEPT ![p] = Where(p)']
  <1>1. \A q \in Procs \ {p} : Where(q)' = Where(q)
    BY OthersIdle DEF Where
  <1> QED
    BY <1>1 DEF Places

LEMMA RefinementStep ==
    NonEmptyCalls /\ TypeOK /\ PacketsInOrder /\ CallsInStep /\ LossesExplained /\ [Next]_vars
        => [S!Next]_(S!vars)
  <1> SUFFICES ASSUME NonEmptyCalls, TypeOK, PacketsInOrder, CallsInStep, LossesExplained, Next
               PROVE  S!Next \/ UNCHANGED S!vars
    <2>1. CASE UNCHANGED vars
      <3>1. UNCHANGED <<round, done>> /\ \A p \in Procs : Where(p)' = Where(p)
        BY <2>1 DEF vars, Where
      <3>2. UNCHANGED <<round, done, Places>>
        BY <3>1 DEF Places
      <3> QED
        BY <3>2 DEF S!vars, Places
    <2> QED
      BY <2>1
  <1>1. PICK p \in Procs : LibraryStep(p) \/ ProgramStep(p) \/ Die(p)
    BY DEF Next
  <1>2. /\ Places' = [Places EXCEPT ![p] = Where(p)'] /\ Places[p] = Where(p)
        /\ Places = [Places EXCEPT ![p] = Where(p)]
    BY <1>1, PlacesChange DEF Places
  <1>3. /\ phase \in [Procs -> Outside .. Leaving] /\ round \in [Procs -> Nat]
        /\ status \in [Procs -> {"running", "left", "dead", "aborted"}]
    BY DEF TypeOK
  <1>4. CASE Call(p)
    <2>1. /\ status[p] = "running" /\ phase[p] = Outside /\ UNCHANGED <<status, done>>
          /\ round' = [round EXCEPT ![p] = @ + 1]
      BY <1>4 DEF Call
    <2>2. phase'[p] # Outside
      <3>1. round[p] + 1 \in 1 .. Len(script)
        BY <1>3, <1>4, ScriptsAssumption DEF Call, TypeOK
      <3>2. NextPhase(p, Outside, script[round[p] + 1]) \in 1 .. 11
        BY <3>1, ScriptTyped, NextPhaseFinds, PhaseNumbers
      <3>3. phase'[p] = NextPhase(p, Outside, script[round[p] + 1])
        BY <1>3, <1>4 DEF Call
      <3> QED
        BY <3>2, <3>3, PhaseNumbers
    <2>3. Where(p) = "outside" /\ Where(p)' = "inside"
      BY <2>1, <2>2 DEF Where
    <2>4. S!Enter(p)
      BY <1>2, <2>1, <2>3 DEF S!Enter, S!Move, Places
    <2> QED
      BY <2>4 DEF S!Next
  <1>5. CASE RejectCall(p)
    <2>1. /\ status[p] = "running" /\ phase[p] = Outside /\ UNCHANGED <<status, done>>
          /\ round' = [round EXCEPT ![p] = @ + 1] /\ phase'[p] = Outside
      BY <1>3, <1>5 DEF RejectCall, Return
    <2>2. Where(p) = "outside" /\ Where(p)' = "outside"
      BY <2>1 DEF Where
    <2>3. S!Skip(p)
      BY <1>2, <2>1, <2>2 DEF S!Skip, Places
    <2> QED
      BY <2>3 DEF S!Next
  <1>6. CASE GroupSend(p) \/ GroupRecv(p)
    <2>1. /\ Busy(p) /\ Advance(p) /\ UNCHANGED <<status, done, round>>
      BY <1>6 DEF GroupSend, GroupRecv, Sending, Receiving
    <2>2. phase[p] # Outside /\ phase'[p] # Outside /\ status[p] = "running"
      BY <2>1, AdvanceTyped, PhaseNumbers DEF Busy, Transfers
    <2>3. Where(p)' = Where(p)
      BY <2>1, <2>2 DEF Where
    <2>4. UNCHANGED <<round, done, Places>>
      BY <1>2, <2>1, <2>3
    <2> QED
      BY <2>4 DEF S!vars, Places
  <1>7. CASE GroupFails(p)
    <2>1. /\ Busy(p) /\ UNCHANGED <<status, done, round>> /\ phase'[p] = Outside
      BY <1>3, <1>7 DEF GroupFails, Return, PeerGone, Sending, Receiving
    <2>2. Where(p) = "inside" /\ Where(p)' = "outside"
      BY <2>1, PhaseNumbers DEF Where, Busy, Transfers
    <2>3. PICK q \in Procs : Where(q) = "dead" \/ (Where(q) = "left" /\ round[q] < round[p])
      BY <1>7, FailureExplained DEF Doomed
    <2>4. S!Missing(q, p) /\ Places[q] = Where(q)
      BY <2>3 DEF S!Missing, Places
    <2>5. S!Fail(p)
      BY <1>2, <2>1, <2>2, <2>4 DEF S!Fail, S!Move, Places
    <2> QED
      BY <2>5 DEF S!Next
  <1>8. CASE Abort(p)
    <2>1. Busy(p) /\ UNCHANGED <<done, round>> /\ status'[p] = "aborted"
      BY <1>3, <1>8 DEF Abort
    <2>2. Where(p) = "inside" /\ Where(p)' = "dead"
      BY <2>1, PhaseNumbers DEF Where, Busy, Transfers
    <2>3. S!Die(p)
      BY <1>2, <2>1, <2>2 DEF S!Die, S!Move, Places
    <2> QED
      BY <2>3 DEF S!Next
  <1>9. CASE Succeed(p)
    <2>1. /\ status[p] = "running" /\ phase[p] = Leaving /\ UNCHANGED <<status, round>>
          /\ done' = [done EXCEPT ![p] = round[p]] /\ phase'[p] = Outside
      BY <1>3, <1>9 DEF Succeed, Return
    <2>2. Where(p) = "inside" /\ Where(p)' = "outside"
      BY <2>1, PhaseNumbers DEF Where
    <2>3. AllKnown(p) /\ phase[p] >= ToLeft
      BY <2>1, PhaseNumbers DEF CallsInStep
    <2>4. \A q \in Procs : round[q] >= round[p]
      BY <2>3 DEF AllKnown, Begun
    <2>5. S!Pass(p)
      BY <1>2, <2>1, <2>2, <2>4 DEF S!Pass, S!Move, Places
    <2> QED
      BY <2>5 DEF S!Next
  <1>10. CASE Finalize(p)
    <2>1. /\ status[p] = "running" /\ phase[p] = Outside /\ UNCHANGED <<round, done>>
          /\ status'[p] = "left"
      BY <1>3, <1>10 DEF Finalize
    <2>2. Where(p) = "outside" /\ Where(p)' = "left"
      BY <2>1 DEF Where
    <2>3. S!Leave(p)
      BY <1>2, <2>1, <2>2 DEF S!Leave, S!Move, Places
    <2> QED
      BY <2>3 DEF S!Next
  <1>11. CASE Die(p)
    <2>1. status[p] = "running" /\ UNCHANGED <<round, done>> /\ status'[p] = "dead"
      BY <1>3, <1>11 DEF Die
    <2>2. Where(p) \in {"outside", "inside"} /\ Where(p)' = "dead"
      BY <2>1 DEF Where
    <2>3. S!Die(p)
      BY <1>2, <2>1, <2>2 DEF S!Die, S!Move, Places
    <2> QED
      BY <2>3 DEF S!Next
  <1> QED
    BY <1>1, <1>4, <1>5, <1>6, <1>7, <1>8, <1>9, <1>10, <1>11 DEF LibraryStep, ProgramStep

(***************************************************************************)
(* GroupImplementsSyncPoint: for any number of processes, a group call     *)
(* succeeds only when every process has begun it, and fails only if one    *)
(* has left without beginning it or has died; a process that leaves after  *)
(* a call makes none of those still in it fail.                            *)
(***************************************************************************)
THEOREM GroupImplementsSyncPoint == NonEmptyCalls => (Spec => Synchronises)
  <1> SUFFICES ASSUME NonEmptyCalls  PROVE Spec => Synchronises
    OBVIOUS
  <1>1. Spec => [](TypeOK /\ PacketsInOrder /\ CallsInStep)
    BY InStepKept
  <1>2. Init => S!Init
    BY RefinementInit
  <1>3. TypeOK /\ PacketsInOrder /\ CallsInStep /\ LossesExplained /\ [Next]_vars
            => [S!Next]_(S!vars)
    BY RefinementStep
  <1> QED
    BY <1>1, <1>2, <1>3, LossesKept, PTL DEF Spec, Synchronises, S!Spec
=============================================================================
