------------------------- MODULE PointToPointProof --------------------------
(***************************************************************************)
(* Proofs about PointToPoint for every number of processes, every set of   *)
(* calls, every pipe size and every set of processes that may die.         *)
(***************************************************************************)
EXTENDS PointToPointCorrect, SequenceTheorems, WellFoundedInduction, TLAPS

-----------------------------------------------------------------------------
(***************************************************************************)
(* The operators of Messages: what a scan of a list returns and what is    *)
(* left of a list after a message was taken.                               *)
(***************************************************************************)
\* Every non-empty set of natural numbers has a least element.
LEMMA LeastNatural ==
    ASSUME NEW S \in SUBSET Nat, S # {}
    PROVE  /\ Min(S) \in S
           /\ \A y \in S : Min(S) <= y
  <1> DEFINE Less == {ss \in Nat \X Nat : ss[1] < ss[2]}
  <1>1. IsWellFoundedOn(Less, Nat)
    BY NatLessThanWellFounded, Zenon DEF OpToRel
  <1>2. PICK x \in S : \A y \in S : ~(<<y, x>> \in Less)
    <2> HIDE DEF Less
    <2> QED  BY <1>1, WFMin
  <1>3. \A y \in S : x <= y
    <2> SUFFICES ASSUME NEW y \in S, y < x  PROVE FALSE
      OBVIOUS
    <2>1. <<y, x>> \in Nat \X Nat /\ <<y, x>>[1] < <<y, x>>[2]
      OBVIOUS
    <2>2. <<y, x>> \in Less
      BY <2>1, Zenon
    <2> QED  BY <1>2, <2>2
  <1> QED
    BY <1>3 DEF Min

\* The scan of Search stops at the first message that answers the call
\* (mimpi_common.c:414-430), or at none when there is none.
LEMMA FirstMatchFinds ==
    ASSUME NEW S, NEW s \in Seq(S), NEW c, HasMatch(s, c)
    PROVE  /\ FirstMatch(s, c) \in 1 .. Len(s)
           /\ Matches(s[FirstMatch(s, c)], c)
           /\ \A i \in 1 .. FirstMatch(s, c) - 1 : ~Matches(s[i], c)
  <1> DEFINE I == {i \in 1 .. Len(s) : Matches(s[i], c)}
  <1>1. I # {} /\ I \in SUBSET Nat
    BY DEF HasMatch
  <1>2. FirstMatch(s, c) = Min(I)
    BY <1>1 DEF FirstMatch, SelectInSeq
  <1>3. Min(I) \in I /\ \A y \in I : Min(I) <= y
    <2> HIDE DEF I
    <2> QED  BY <1>1, LeastNatural
  <1> QED
    <2> DEFINE i == Min(I)
    <2>1. i \in 1 .. Len(s) /\ Matches(s[i], c)
      BY <1>3, Zenon
    <2>2. ASSUME NEW j \in 1 .. i - 1  PROVE ~Matches(s[j], c)
      <3>1. j \in 1 .. Len(s) /\ ~(i <= j)
        BY <2>1
      <3> QED  BY <1>3, <3>1
    <2> QED  BY <1>2, <2>1, <2>2

\* Taking a message out of a list leaves the others, in their order.
LEMMA RemoveAtLeavesRest ==
    ASSUME NEW S, NEW s \in Seq(S), NEW i \in 1 .. Len(s)
    PROVE  /\ RemoveAt(s, i) \in Seq(S)
           /\ Len(RemoveAt(s, i)) = Len(s) - 1
           /\ \A j \in 1 .. Len(s) - 1 :
                RemoveAt(s, i)[j] = IF j < i THEN s[j] ELSE s[j + 1]
  <1> DEFINE a == SubSeq(s, 1, i - 1)
             b == SubSeq(s, i + 1, Len(s))
  <1>1. /\ a \in Seq(S) /\ Len(a) = i - 1
        /\ \A j \in 1 .. i - 1 : a[j] = s[j]
    BY SubSeqProperties, ElementOfSeq
  <1>2. /\ b \in Seq(S) /\ Len(b) = Len(s) - i
        /\ \A j \in 1 .. Len(s) - i : b[j] = s[i + j]
    BY SubSeqProperties, ElementOfSeq
  <1>3. RemoveAt(s, i) = a \o b
    BY DEF RemoveAt
  <1> HIDE DEF a, b
  <1>4. /\ a \o b \in Seq(S) /\ Len(a \o b) = Len(s) - 1
        /\ \A j \in 1 .. Len(s) - 1 :
             (a \o b)[j] = IF j <= i - 1 THEN a[j] ELSE b[j - (i - 1)]
    <2>1. Len(s) \in Nat /\ Len(a) + Len(b) = Len(s) - 1
      BY <1>1, <1>2
    <2>2. /\ a \o b \in Seq(S) /\ Len(a \o b) = Len(a) + Len(b)
          /\ \A j \in 1 .. Len(a) + Len(b) :
               (a \o b)[j] = IF j <= Len(a) THEN a[j] ELSE b[j - Len(a)]
      BY <1>1, <1>2, ConcatProperties, Zenon
    <2> QED  BY <1>1, <2>1, <2>2
  <1> QED
    BY <1>1, <1>2, <1>3, <1>4

\* A message added to a list answers a call, or what was there did.
LEMMA HasMatchAppend ==
    ASSUME NEW S, NEW s \in Seq(S), NEW m \in S, NEW c
    PROVE  HasMatch(Append(s, m), c) <=> HasMatch(s, c) \/ Matches(m, c)
  <1>1. /\ Len(s) \in Nat /\ Len(Append(s, m)) = Len(s) + 1
        /\ \A i \in 1 .. Len(s) : Append(s, m)[i] = s[i]
        /\ Append(s, m)[Len(s) + 1] = m
    BY AppendProperties, LenProperties
  <1>2. \A i : i \in 1 .. Len(s) + 1 <=> i \in 1 .. Len(s) \/ i = Len(s) + 1
    BY <1>1
  <1> QED
    BY <1>1, <1>2 DEF HasMatch

-----------------------------------------------------------------------------
\* A link is the pair of its ends.
LEMMA LinkEnds ==
    /\ \A l \in Links :
        /\ Receiver(l) \in Ranks /\ Sender(l) \in Ranks /\ Receiver(l) # Sender(l)
        /\ l = <<Receiver(l), Sender(l)>>
    /\ \A p, q \in Ranks : p # q => <<p, q>> \in Links
  BY DEF Links, Receiver, Sender

\* A call that passes the argument checks names a link either way.
LEMMA AcceptedCall ==
    ASSUME NEW c \in Calls, Rejection(c) # "NONE" <=> FALSE
    PROVE  /\ c \in CallType /\ c.by \in Ranks
           /\ <<c.peer, c.by>> \in Links /\ <<c.by, c.peer>> \in Links
  BY SizesAssumption, CallsAssumption DEF Rejection, CallType, Links, Ranks

\* What the second scan of Search takes is in the list (mimpi_common.c:435-442).
LEMMA RescanInRange ==
    ASSUME NEW s \in Seq(Message), s # <<>>, NEW c
    PROVE  Rescan(s, c) \in 1 .. Len(s)
  BY FirstMatchFinds, EmptySeq, LenProperties DEF Rescan

-----------------------------------------------------------------------------
\* What a call returns, and what a thread writes, has the type the model gives.
LEMMA ReturnTyped ==
    /\ NoRet \in RetType
    /\ \A code \in ReturnCodes : Return(code) \in RetType
    /\ \A m \in Message : [code |-> "SUCCESS", data |-> m.data] \in RetType
    /\ Return("SUCCESS") \in RetType /\ Return("ERROR_REMOTE_FINISHED") \in RetType
  <1>1. \A d \in Seq(Nat), code \in ReturnCodes : [code |-> code, data |-> d] \in RetType
    BY DEF RetType
  <1>2. <<>> \in Seq(Nat) /\ \A m \in Message : m.data \in Seq(Nat)
    BY EmptySeq DEF Message
  <1>3. {"NONE", "SUCCESS", "ERROR_REMOTE_FINISHED"} \subseteq ReturnCodes
    BY DEF ReturnCodes
  <1> QED
    BY <1>1, <1>2, <1>3 DEF NoRet, Return

LEMMA CallTyped ==
    ASSUME NEW c \in Calls
    PROVE  c \in CallType /\ Rejection(c) \in ReturnCodes
  <1>1. c \in CallType
    BY CallsAssumption DEF CallType
  <1>2. Rejection(c) \in ReturnCodes
    BY DEF Rejection, ReturnCodes
  <1> QED
    BY <1>1, <1>2

LEMMA ValuesTyped ==
    /\ NoBuf \in Message /\ NoOne \in WaitType /\ NoCall \in CallType
    /\ <<>> \in Seq(PacketType) /\ <<>> \in Seq(Message)
  BY SizesAssumption, EmptySeq DEF NoBuf, NoOne, NoCall, Message, WaitType, CallType, Ranks

LEMMA TypingInit == Init => TypeOK
  BY ValuesTyped, ReturnTyped
     DEF Init, TypeOK, PcLabels, ReaderLabels, InSend, InRecv, InWait

\* The steps of the program and of the environment.
LEMMA TypingUser ==
    ASSUME TypeOK, NEW p \in Ranks, UserStep(p)
    PROVE  TypeOK'
  <1>1. CASE BeginSend(p)
    <2>1. PICK c \in Calls :
            /\ Begin(p, c) /\ Rejection(c) = "NONE"
            /\ Goto(p, "send_count") /\ sent' = [sent EXCEPT ![p] = 0]
            /\ ret' = [ret EXCEPT ![p] = NoRet]
            /\ UNCHANGED <<pipeVars, threadVars, sharedVars>>
      BY <1>1 DEF BeginSend
    <2>2. c \in CallType /\ <<c.peer, p>> \in Links /\ <<p, c.peer>> \in Links
      BY <2>1, AcceptedCall DEF Begin
    <2>3. /\ call' = [call EXCEPT ![p] = c] /\ call' \in [Ranks -> CallType]
          /\ calls' \in [Ranks -> Nat]
      BY <2>1, <2>2 DEF Begin, TypeOK
    <2>4. \A q \in Ranks : /\ pc'[q] \in InSend => <<call'[q].peer, q>> \in Links
                           /\ pc'[q] \in InRecv => <<q, call'[q].peer>> \in Links
      BY <2>1, <2>2, <2>3 DEF Goto, TypeOK, InSend, InRecv, InWait, Out, In
    <2>5. pc' \in [Ranks -> PcLabels] /\ sent' \in [Ranks -> Nat] /\ ret' \in [Ranks -> RetType]
      BY <2>1, ReturnTyped DEF Goto, TypeOK, PcLabels
    <2>6. UNCHANGED <<pipe, wopen, ropen, rpc, rbuf, list, mutex_list, waiting_for,
                      added, has_finished>>
      BY <2>1 DEF pipeVars, threadVars, sharedVars
    <2> QED
      BY <2>3, <2>4, <2>5, <2>6 DEF TypeOK, Out, In
  <1>2. CASE BeginRecv(p)
    <2>1. PICK c \in Calls :
            /\ Begin(p, c) /\ Rejection(c) = "NONE"
            /\ Goto(p, "search") /\ ret' = [ret EXCEPT ![p] = NoRet]
            /\ UNCHANGED <<sent, pipeVars, threadVars, sharedVars>>
      BY <1>2 DEF BeginRecv
    <2>2. c \in CallType /\ <<c.peer, p>> \in Links /\ <<p, c.peer>> \in Links
      BY <2>1, AcceptedCall DEF Begin
    <2>3. /\ call' = [call EXCEPT ![p] = c] /\ call' \in [Ranks -> CallType]
          /\ calls' \in [Ranks -> Nat]
      BY <2>1, <2>2 DEF Begin, TypeOK
    <2>4. \A q \in Ranks : /\ pc'[q] \in InSend => <<call'[q].peer, q>> \in Links
                           /\ pc'[q] \in InRecv => <<q, call'[q].peer>> \in Links
      BY <2>1, <2>2, <2>3 DEF Goto, TypeOK, InSend, InRecv, InWait, Out, In
    <2>5. pc' \in [Ranks -> PcLabels] /\ sent' \in [Ranks -> Nat] /\ ret' \in [Ranks -> RetType]
      BY <2>1, ReturnTyped DEF Goto, TypeOK, PcLabels
    <2>6. UNCHANGED <<pipe, wopen, ropen, rpc, rbuf, list, mutex_list, waiting_for,
                      added, has_finished>>
      BY <2>1 DEF pipeVars, threadVars, sharedVars
    <2> QED
      BY <2>3, <2>4, <2>5, <2>6 DEF TypeOK, Out, In
  <1> USE DEF TypeOK, InSend, InRecv, InWait, In, Out, PcLabels
  <1>3. CASE MIMPI_Init(p)
    BY <1>3 DEF MIMPI_Init, Goto, ReaderLabels, pipeVars, sharedVars
  <1>4. CASE RejectCall(p)
    <2>1. PICK c \in Calls :
            Begin(p, c) /\ Finish(p, Return(Rejection(c)))
      BY <1>4 DEF RejectCall
    <2>2. c \in CallType /\ Return(Rejection(c)) \in RetType
      BY CallTyped, ReturnTyped
    <2> QED
      BY <1>4, <2>1, <2>2 DEF RejectCall, Begin, Finish, Goto,
                              pipeVars, threadVars, sharedVars
  <1>5. CASE BeginFinalize(p)
    BY <1>5 DEF BeginFinalize, Goto, pipeVars, threadVars, sharedVars
  <1>6. CASE SpuriousWake(p)
    BY <1>6 DEF SpuriousWake, Goto, pipeVars, threadVars, sharedVars
  <1>7. CASE Die(p)
    BY <1>7, ValuesTyped DEF Die, Goto, Release, ReaderLabels
  <1> QED
    BY <1>1, <1>2, <1>3, <1>4, <1>5, <1>6, <1>7 DEF UserStep

\* A packet written to a pipe leaves it a sequence of packets.
LEMMA WriteTyped ==
    ASSUME TypeOK, NEW l \in Links, NEW k \in {"count", "chunk", "tag"}, NEW v \in Nat,
           Write(l, Packet(k, v))
    PROVE  pipe' \in [Links -> Seq(PacketType)]
  <1>1. Packet(k, v) \in PacketType
    BY DEF Packet, PacketType
  <1>2. Append(pipe[l], Packet(k, v)) \in Seq(PacketType)
    BY <1>1, AppendProperties DEF TypeOK
  <1> QED
    BY <1>2 DEF Write, TypeOK

\* The steps of the main thread that send a message or finalize.
LEMMA TypingSends ==
    ASSUME TypeOK, NEW p \in Ranks, Sending(p) \/ Finalizing(p)
    PROVE  TypeOK'
  <1>1. ASSUME pc[p] \in InSend
        PROVE  /\ Out(p) \in Links /\ call[p].count \in Nat /\ call[p].tag \in Nat
               /\ calls[p] \in Nat
    BY <1>1 DEF TypeOK, CallType
  <1>2. CASE SendCount(p)
    <2>1. pipe' \in [Links -> Seq(PacketType)]
      BY <1>1, <1>2, WriteTyped DEF SendCount, InSend
    <2> QED
      BY <1>1, <1>2, <2>1 DEF SendCount, Goto, threadVars, sharedVars,
                              TypeOK, PcLabels, InSend, InRecv, InWait, Out, In
  <1>3. CASE SendData(p)
    <2>1. pipe' \in [Links -> Seq(PacketType)]
      BY <1>1, <1>3, WriteTyped DEF SendData, InSend
    <2> QED
      BY <1>1, <1>3, <2>1 DEF SendData, Goto, threadVars, sharedVars,
                              TypeOK, PcLabels, InSend, InRecv, InWait, Out, In
  <1>4. CASE SendTag(p)
    <2>1. pipe' \in [Links -> Seq(PacketType)]
      BY <1>1, <1>4, WriteTyped DEF SendTag, InSend
    <2> QED
      BY <1>4, <2>1, ReturnTyped DEF SendTag, Finish, Goto, threadVars, sharedVars,
                              TypeOK, PcLabels, InSend, InRecv, InWait, Out, In
  <1> USE DEF TypeOK, InSend, InRecv, InWait, In, Out, PcLabels
  <1>5. CASE SendFails(p)
    BY <1>5, ReturnTyped DEF SendFails, Finish, Goto, pipeVars, threadVars, sharedVars
  <1>6. CASE CloseWriting(p)
    BY <1>6 DEF CloseWriting, CanClose, mainVars, threadVars, sharedVars
  <1>7. CASE JoinReaders(p)
    BY <1>7, ValuesTyped DEF JoinReaders, Release, Goto, threadVars
  <1> QED
    BY <1>2, <1>3, <1>4, <1>5, <1>6, <1>7 DEF Sending, Finalizing

\* Taking the message at i out of a list.
LEMMA TakeTyped ==
    ASSUME TypeOK, NEW l \in Links, NEW i \in 1 .. Len(list[l]), Take(l, i)
    PROVE  /\ list' \in [Links -> Seq(Message)]
           /\ [code |-> "SUCCESS", data |-> list[l][i].data] \in RetType
  <1>1. list[l] \in Seq(Message)
    BY DEF TypeOK
  <1>2. RemoveAt(list[l], i) \in Seq(Message) /\ list[l][i] \in Message
    BY <1>1, RemoveAtLeavesRest, ElementOfSeq
  <1> QED
    BY <1>2, ReturnTyped DEF Take, TypeOK

\* The steps of the main thread that receive a message.
LEMMA TypingReceives ==
    ASSUME TypeOK, NEW p \in Ranks, Receiving(p)
    PROVE  TypeOK'
  <1>1. pc[p] \in InRecv => In(p) \in Links /\ list[In(p)] \in Seq(Message)
    BY DEF TypeOK
  <1>2. CASE SearchHit(p)
    <2> DEFINE i == FirstMatch(list[In(p)], call[p])
    <2>1. i \in 1 .. Len(list[In(p)]) /\ Take(In(p), i) /\ In(p) \in Links
      BY <1>1, <1>2, FirstMatchFinds DEF SearchHit, InRecv
    <2>2. /\ list' \in [Links -> Seq(Message)]
          /\ [code |-> "SUCCESS", data |-> list[In(p)][i].data] \in RetType
      BY <2>1, TakeTyped
    <2>3. ret' \in [Ranks -> RetType] /\ pc' = [pc EXCEPT ![p] = "user"]
      BY <1>2, <2>2 DEF SearchHit, Finish, Goto, TypeOK
    <2> QED
      BY <1>2, <2>2, <2>3 DEF SearchHit, pipeVars, threadVars,
                              TypeOK, PcLabels, InSend, InRecv, InWait, Out, In
  <1>3. CASE WaitDelivers(p)
    <2> DEFINE i == Rescan(list[In(p)], call[p])
    <2>1. i \in 1 .. Len(list[In(p)]) /\ Take(In(p), i) /\ In(p) \in Links
      BY <1>1, <1>3, RescanInRange DEF WaitDelivers, InRecv, InWait
    <2>2. /\ list' \in [Links -> Seq(Message)]
          /\ [code |-> "SUCCESS", data |-> list[In(p)][i].data] \in RetType
      BY <2>1, TakeTyped
    <2>3. ret' \in [Ranks -> RetType] /\ pc' = [pc EXCEPT ![p] = "user"]
      BY <1>3, <2>2 DEF WaitDelivers, Finish, Goto, TypeOK
    <2> QED
      BY <1>3, <2>2, <2>3 DEF WaitDelivers, EndWait, Hold, pipeVars, threadVars,
                              TypeOK, PcLabels, InSend, InRecv, InWait, Out, In
  <1> USE DEF TypeOK, InSend, InRecv, InWait, In, Out, PcLabels, Goto, Hold
  <1>4. CASE SearchMiss(p)
    BY <1>4 DEF SearchMiss, pipeVars, threadVars
  <1>5. CASE RegisterWait(p)
    <2>1. [count |-> call[p].count, source |-> call[p].peer, tag |-> call[p].tag]
            \in WaitType
      BY DEF CallType, WaitType
    <2> QED
      BY <1>5, <2>1 DEF RegisterWait, pipeVars, threadVars
  <1>6. CASE CheckWait(p)
    BY <1>6 DEF CheckWait, pipeVars, threadVars, sharedVars
  <1>7. CASE Sleep(p)
    BY <1>7 DEF Sleep, pipeVars, threadVars
  <1>8. CASE Relock(p)
    BY <1>8 DEF Relock, pipeVars, threadVars
  <1>9. CASE LeaveWait(p)
    BY <1>9, ValuesTyped DEF LeaveWait, pipeVars, threadVars
  <1>10. CASE WaitFails(p)
    BY <1>10, ReturnTyped DEF WaitFails, EndWait, Finish, pipeVars, threadVars
  <1> QED
    BY <1>2, <1>3, <1>4, <1>5, <1>6, <1>7, <1>8, <1>9, <1>10 DEF Receiving

\* What a read takes from a pipe, and what it leaves there.
LEMMA ReadTyped ==
    ASSUME TypeOK, NEW l \in Links, Read(l)
    PROVE  pipe' \in [Links -> Seq(PacketType)] /\ Head(pipe[l]).val \in Nat
  <1>1. pipe[l] \in Seq(PacketType) /\ pipe[l] # <<>>
    BY DEF TypeOK, Read
  <1>2. Head(pipe[l]) \in PacketType /\ Tail(pipe[l]) \in Seq(PacketType)
    BY <1>1, HeadTailProperties
  <1> QED
    BY <1>2 DEF Read, TypeOK, PacketType

\* The steps of a Reader.
LEMMA TypingReader ==
    ASSUME TypeOK, NEW l \in Links, ReaderStep(l)
    PROVE  TypeOK'
  <1> DEFINE v == Head(pipe[l]).val
  <1>1. Receiver(l) \in Ranks
    BY LinkEnds
  <1>2. CASE ReadCount(l)
    <2>1. pipe' \in [Links -> Seq(PacketType)] /\ v \in Nat
      BY <1>2, ReadTyped DEF ReadCount
    <2>2. [count |-> v, tag |-> 0, data |-> <<>>] \in Message
      BY <2>1, EmptySeq DEF Message
    <2> QED
      BY <1>2, <2>1, <2>2 DEF ReadCount, ReaderAt, ReaderLabels, mainVars, sharedVars,
                              TypeOK, Out, In
  <1>3. CASE ReadData(l)
    <2>1. pipe' \in [Links -> Seq(PacketType)] /\ v \in Nat
      BY <1>3, ReadTyped DEF ReadData
    <2>2. rbuf[l] \in Message /\ Append(rbuf[l].data, v) \in Seq(Nat)
      BY <2>1, AppendProperties DEF TypeOK, Message
    <2>3. rbuf' \in [Links -> Message]
      BY <1>3, <2>2 DEF ReadData, TypeOK, Message
    <2> QED
      BY <1>3, <2>1, <2>3 DEF ReadData, ReaderAt, ReaderLabels, mainVars, sharedVars,
                              TypeOK, Out, In
  <1>4. CASE ReadTag(l)
    <2>1. pipe' \in [Links -> Seq(PacketType)] /\ v \in Nat
      BY <1>4, ReadTyped DEF ReadTag
    <2>2. rbuf' \in [Links -> Message]
      BY <1>4, <2>1 DEF ReadTag, TypeOK, Message
    <2> QED
      BY <1>4, <2>1, <2>2 DEF ReadTag, ReaderAt, ReaderLabels, mainVars, sharedVars,
                              TypeOK, Out, In
  <1>5. CASE SaveMessage(l)
    <2>1. Append(list[l], rbuf[l]) \in Seq(Message)
      BY AppendProperties DEF TypeOK
    <2> QED
      BY <1>5, <2>1 DEF SaveMessage, Hold, ReaderAt, ReaderLabels, mainVars, pipeVars,
                        TypeOK, Out, In
  <1>7. CASE NotifyReceiver(l)
    <2>1. rbuf' \in [Links -> Message] /\ mutex_list' \in [Links -> {"free", "main", "reader"}]
      BY <1>7, ValuesTyped DEF NotifyReceiver, Hold, TypeOK
    <2>2. added' \in [Ranks -> BOOLEAN]
      BY <1>7 DEF NotifyReceiver, TypeOK
    <2>3. pc' = pc \/ Signal(Receiver(l))
      BY <1>7 DEF NotifyReceiver
    <2>4. /\ pc' \in [Ranks -> PcLabels]
          /\ \A q \in Ranks : /\ pc'[q] \in InSend => pc[q] \in InSend
                              /\ pc'[q] \in InRecv => pc[q] \in InRecv
      BY <1>1, <2>3 DEF Signal, PcLabels, TypeOK, InSend, InRecv, InWait
    <2> QED
      BY <1>7, <2>1, <2>2, <2>4 DEF NotifyReceiver, ReaderAt, ReaderLabels, pipeVars,
                                    TypeOK, In, Out
  <1> USE DEF TypeOK, InSend, InRecv, InWait, In, Out, ReaderLabels, ReaderAt
  <1>6. CASE ReadEof(l)
    BY <1>6, ValuesTyped DEF ReadEof, mainVars, pipeVars, sharedVars
  <1>8. CASE MarkFinished(l)
    BY <1>8 DEF MarkFinished, mainVars, pipeVars
  <1>9. CASE CheckWaiting(l)
    BY <1>9 DEF CheckWaiting, mainVars, pipeVars, sharedVars
  <1>10. CASE SignalFinished(l)
    BY <1>1, <1>10 DEF SignalFinished, Signal, PcLabels, pipeVars, sharedVars
  <1> QED
    BY <1>2, <1>3, <1>4, <1>5, <1>6, <1>7, <1>8, <1>9, <1>10 DEF ReaderStep

\* Every variable keeps its type, and a main thread in a Send or a Recv works
\* for a call that passed the checks of mimpi.c:72-95.
THEOREM Typing == Spec => []TypeOK
  <1>1. ASSUME TypeOK, [Next]_vars  PROVE TypeOK'
    <2>1. CASE UNCHANGED vars
      BY <1>1, <2>1 DEF vars, TypeOK, In, Out
    <2>2. CASE Next
      BY <1>1, <2>2, TypingUser, TypingSends, TypingReceives, TypingReader
         DEF Next, MainStep
    <2> QED  BY <1>1, <2>1, <2>2
  <1> QED
    BY <1>1, TypingInit, PTL DEF Spec

-----------------------------------------------------------------------------
(***************************************************************************)
(* Handshake is an invariant of PointToPoint, and with it the four         *)
(* properties of the agreement between Readers and main threads.           *)
(***************************************************************************)
\* A wait is for a link of the waiting process.
LEMMA WaitsOnLink ==
    ASSUME TypeOK, NEW p \in Ranks, pc[p] \in InRecv
    PROVE  /\ In(p) \in Links /\ Receiver(In(p)) = p /\ Sender(In(p)) = call[p].peer
           /\ list[In(p)] \in Seq(Message)
  BY DEF TypeOK, In, Receiver, Sender

\* A step that leaves alone a main thread, its flag and what its Readers share
\* with it keeps what Handshake says of that wait.
LEMMA WaitKept ==
    ASSUME TypeOK, NEW q \in Ranks, FlagAnswersFor(q), AnswerFlaggedFor(q),
           pc'[q] = pc[q] \/ (pc[q] = "blocked" /\ pc'[q] = "relock"),
           call'[q] = call[q], added'[q] = added[q],
           \A l \in Links : Receiver(l) = q =>
               /\ list'[l] = list[l] /\ (has_finished[l] => has_finished'[l])
               /\ rpc[l] = "notify" => rpc'[l] = "notify" /\ rbuf'[l] = rbuf[l]
    PROVE  FlagAnswersFor(q)' /\ AnswerFlaggedFor(q)'
  <1>1. In(q)' = In(q)
    BY DEF In
  <1>2. pc[q] \in InRecv => In(q) \in Links /\ Receiver(In(q)) = q
    BY WaitsOnLink
  <1>3. CASE pc[q] \in InRecv
    <2>1. /\ list'[In(q)] = list[In(q)] /\ (has_finished[In(q)] => has_finished'[In(q)])
          /\ rpc[In(q)] = "notify" => rpc'[In(q)] = "notify" /\ rbuf'[In(q)] = rbuf[In(q)]
      BY <1>2, <1>3
    <2>2. /\ Alive(q)' => Alive(q)
          /\ Waiting(q)' => Waiting(q)
          /\ pc'[q] \in {"leave", "woken"} => pc[q] \in {"leave", "woken"}
          /\ pc[q] \in {"relock", "check", "leave", "woken"}
                => pc'[q] \in {"relock", "check", "leave", "woken"}
      BY DEF Alive, Waiting, InWait
    <2> QED
      BY <1>1, <2>1, <2>2 DEF FlagAnswersFor, AnswerFlaggedFor, Answered, Ended
  <1>4. CASE pc[q] \notin InRecv
    BY <1>4 DEF FlagAnswersFor, AnswerFlaggedFor, Alive, Waiting, InRecv, InWait
  <1> QED
    BY <1>3, <1>4

\* Outside a wait, with the flag down, Handshake says nothing of a wait.
LEMMA NoWait ==
    ASSUME NEW p \in Ranks, pc[p] \notin InWait, ~added[p] \/ ~Alive(p)
    PROVE  FlagAnswersFor(p) /\ AnswerFlaggedFor(p)
  BY DEF FlagAnswersFor, AnswerFlaggedFor, Waiting, InWait

\* A step of one main thread leaves the waits of the others as they were.
LEMMA OthersKept ==
    ASSUME TypeOK, Handshake, NEW p \in Ranks,
           \A q \in Ranks \ {p} : pc'[q] = pc[q] /\ call'[q] = call[q] /\ added'[q] = added[q],
           \A l \in Links : Receiver(l) # p =>
               /\ list'[l] = list[l] /\ (has_finished[l] => has_finished'[l])
               /\ rpc[l] = "notify" => rpc'[l] = "notify" /\ rbuf'[l] = rbuf[l],
           FlagAnswersFor(p)', AnswerFlaggedFor(p)'
    PROVE  FlagAnswers' /\ AnswerFlagged'
  <1>1. ASSUME NEW q \in Ranks \ {p}
        PROVE  FlagAnswersFor(q)' /\ AnswerFlaggedFor(q)'
    <2>1. FlagAnswersFor(q) /\ AnswerFlaggedFor(q)
      BY DEF Handshake, FlagAnswers, AnswerFlagged
    <2> QED
      BY <1>1, <2>1, WaitKept
  <1> QED
    BY <1>1 DEF FlagAnswers, AnswerFlagged

\* The same, when the thread that moved is not in a wait afterwards.
LEMMA OutsideWait ==
    ASSUME TypeOK, Handshake, NEW p \in Ranks,
           pc'[p] \notin InWait, ~added'[p] \/ pc'[p] = "dead",
           \A q \in Ranks \ {p} : pc'[q] = pc[q] /\ call'[q] = call[q] /\ added'[q] = added[q],
           \A l \in Links : Receiver(l) # p =>
               /\ list'[l] = list[l] /\ (has_finished[l] => has_finished'[l])
               /\ rpc[l] = "notify" => rpc'[l] = "notify" /\ rbuf'[l] = rbuf[l]
    PROVE  FlagAnswers' /\ AnswerFlagged'
  <1>1. FlagAnswersFor(p)' /\ AnswerFlaggedFor(p)'
    BY DEF FlagAnswersFor, AnswerFlaggedFor, Waiting, Alive, InWait
  <1> QED
    BY <1>1, OthersKept

LEMMA FlagDown ==
    ASSUME Handshake, NEW p \in Ranks, Alive(p), pc[p] \notin InWait
    PROVE  ~added[p]
  BY DEF Handshake, FlagAnswers, FlagAnswersFor, InWait

LEMMA HandshakeInit == Init => Handshake
  <1> SUFFICES ASSUME Init  PROVE Handshake
    OBVIOUS
  <1>1. FlagAnswers /\ AnswerFlagged
    BY NoWait DEF Init, FlagAnswers, AnswerFlagged, InWait
  <1> QED
    BY <1>1, LinkEnds DEF Init, Handshake, MutexHeld, WaitRegistered, NewestNotified,
       EndIsFinal, Holding, Registered, Incoming, Alive

-----------------------------------------------------------------------------
\* The steps of the program and of the environment.
LEMMA HandshakeUser ==
    ASSUME TypeOK, Handshake, NEW p \in Ranks, UserStep(p)
    PROVE  Handshake'
  <1> USE LinkEnds DEF Handshake, Holding, Registered, Alive, In, Goto,
          Receiver, Sender, Incoming, Outgoing
  <1>1. CASE MIMPI_Init(p)
    <2>1. FlagAnswers' /\ AnswerFlagged'
      BY <1>1, OutsideWait, FlagDown
         DEF MIMPI_Init, EndIsFinal, sharedVars, TypeOK, InWait
    <2> QED
      BY <1>1, <2>1 DEF MIMPI_Init, TypeOK, MutexHeld, WaitRegistered, NewestNotified,
                        EndIsFinal, pipeVars, sharedVars
  <1>2. CASE RejectCall(p)
    <2>1. FlagAnswers' /\ AnswerFlagged'
      <3>1. /\ ~added[p] /\ pc'[p] \notin InWait /\ UNCHANGED <<threadVars, sharedVars>>
            /\ \A q \in Ranks \ {p} : pc'[q] = pc[q] /\ call'[q] = call[q]
        BY <1>2, FlagDown DEF RejectCall, Begin, Finish, TypeOK, InWait
      <3> QED
        BY <3>1, OutsideWait DEF threadVars, sharedVars
    <2> QED
      BY <1>2, <2>1 DEF RejectCall, Begin, Finish, TypeOK, MutexHeld, WaitRegistered,
                        NewestNotified, EndIsFinal, pipeVars, threadVars, sharedVars
  <1>3. CASE BeginSend(p)
    <2>1. FlagAnswers' /\ AnswerFlagged'
      <3>1. /\ ~added[p] /\ pc'[p] \notin InWait /\ UNCHANGED <<threadVars, sharedVars>>
            /\ \A q \in Ranks \ {p} : pc'[q] = pc[q] /\ call'[q] = call[q]
        BY <1>3, FlagDown DEF BeginSend, Begin, TypeOK, InWait
      <3> QED
        BY <3>1, OutsideWait DEF threadVars, sharedVars
    <2> QED
      BY <1>3, <2>1 DEF BeginSend, Begin, TypeOK, MutexHeld, WaitRegistered,
                        NewestNotified, EndIsFinal, pipeVars, threadVars, sharedVars
  <1>4. CASE BeginRecv(p)
    <2>1. FlagAnswers' /\ AnswerFlagged'
      <3>1. /\ ~added[p] /\ pc'[p] \notin InWait /\ UNCHANGED <<threadVars, sharedVars>>
            /\ \A q \in Ranks \ {p} : pc'[q] = pc[q] /\ call'[q] = call[q]
        BY <1>4, FlagDown DEF BeginRecv, Begin, TypeOK, InWait
      <3> QED
        BY <3>1, OutsideWait DEF threadVars, sharedVars
    <2> QED
      BY <1>4, <2>1 DEF BeginRecv, Begin, TypeOK, MutexHeld, WaitRegistered,
                        NewestNotified, EndIsFinal, pipeVars, threadVars, sharedVars
  <1>5. CASE BeginFinalize(p)
    <2>1. FlagAnswers' /\ AnswerFlagged'
      BY <1>5, OutsideWait, FlagDown
         DEF BeginFinalize, threadVars, sharedVars, TypeOK, InWait
    <2> QED
      BY <1>5, <2>1 DEF BeginFinalize, TypeOK, MutexHeld, WaitRegistered,
                        NewestNotified, EndIsFinal, pipeVars, threadVars, sharedVars
  <1>6. CASE SpuriousWake(p)
    BY <1>6 DEF SpuriousWake, TypeOK, MutexHeld, WaitRegistered, FlagAnswers, FlagAnswersFor,
                AnswerFlagged, AnswerFlaggedFor, Waiting, Answered, Ended, InWait,
                NewestNotified, EndIsFinal, pipeVars, threadVars, sharedVars
  <1>7. CASE Die(p)
    <2>1. FlagAnswers' /\ AnswerFlagged'
      BY <1>7, OutsideWait
         DEF Die, Release, TypeOK, InWait
    <2> QED
      BY <1>7, <2>1 DEF Die, Release, TypeOK, MutexHeld, WaitRegistered,
                        NewestNotified, EndIsFinal
  <1> QED
    BY <1>1, <1>2, <1>3, <1>4, <1>5, <1>6, <1>7 DEF UserStep

\* The steps of the main thread that send a message or finalize.
LEMMA HandshakeSends ==
    ASSUME TypeOK, Handshake, NEW p \in Ranks, Sending(p) \/ Finalizing(p)
    PROVE  Handshake'
  <1> USE LinkEnds DEF Handshake, Holding, Registered, Alive, In, Goto,
          Receiver, Sender, Incoming, Outgoing
  <1>1. CASE SendCount(p)
    <2>1. FlagAnswers' /\ AnswerFlagged'
      BY <1>1, OutsideWait, FlagDown
         DEF SendCount, Write, Out, InSend, TypeOK, InWait, mainVars, threadVars, sharedVars
    <2> QED
      BY <1>1, <2>1 DEF SendCount, Write, Out, InSend, TypeOK, MutexHeld, WaitRegistered,
                        NewestNotified, EndIsFinal, mainVars, pipeVars, threadVars, sharedVars
  <1>2. CASE SendData(p)
    <2>1. FlagAnswers' /\ AnswerFlagged'
      BY <1>2, OutsideWait, FlagDown
         DEF SendData, Write, Out, InSend, TypeOK, InWait, mainVars, threadVars, sharedVars
    <2> QED
      BY <1>2, <2>1 DEF SendData, Write, Out, InSend, TypeOK, MutexHeld, WaitRegistered,
                        NewestNotified, EndIsFinal, mainVars, pipeVars, threadVars, sharedVars
  <1>3. CASE SendTag(p)
    <2>1. FlagAnswers' /\ AnswerFlagged'
      BY <1>3, OutsideWait, FlagDown
         DEF SendTag, Write, Out, InSend, Finish, TypeOK, InWait, mainVars, threadVars, sharedVars
    <2> QED
      BY <1>3, <2>1 DEF SendTag, Write, Out, InSend, Finish, TypeOK, MutexHeld, WaitRegistered,
                        NewestNotified, EndIsFinal, mainVars, pipeVars, threadVars, sharedVars
  <1>4. CASE SendFails(p)
    <2>1. FlagAnswers' /\ AnswerFlagged'
      BY <1>4, OutsideWait, FlagDown
         DEF SendFails, Finish, TypeOK, InWait, mainVars, threadVars, sharedVars
    <2> QED
      BY <1>4, <2>1 DEF SendFails, Finish, TypeOK, MutexHeld, WaitRegistered,
                        NewestNotified, EndIsFinal, mainVars, pipeVars, threadVars, sharedVars
  <1>5. CASE CloseWriting(p)
    <2>1. FlagAnswers' /\ AnswerFlagged'
      BY <1>5, OutsideWait, FlagDown
         DEF CloseWriting, CanClose, InWait, mainVars, threadVars, sharedVars
    <2> QED
      BY <1>5, <2>1 DEF CloseWriting, CanClose, TypeOK, MutexHeld, WaitRegistered,
                        NewestNotified, EndIsFinal, mainVars, threadVars, sharedVars
  <1>6. CASE JoinReaders(p)
    <2>1. FlagAnswers' /\ AnswerFlagged'
      BY <1>6, OutsideWait, FlagDown
         DEF JoinReaders, Release, TypeOK, InWait, threadVars
    <2> QED
      BY <1>6, <2>1 DEF JoinReaders, ReadersDone, Release, TypeOK, MutexHeld, WaitRegistered,
                        NewestNotified, EndIsFinal, threadVars
  <1> QED
    BY <1>1, <1>2, <1>3, <1>4, <1>5, <1>6 DEF Sending, Finalizing

\* The steps of the main thread that receive a message.
LEMMA HandshakeReceives ==
    ASSUME TypeOK, Handshake, NEW p \in Ranks, Receiving(p)
    PROVE  Handshake'
  <1> USE LinkEnds DEF Handshake, Holding, Registered, Alive, In, Goto,
          Receiver, Sender, Incoming, Outgoing
  <1>1. CASE SearchHit(p)
    <2>1. In(p) \in Links /\ Receiver(In(p)) = p /\ rpc[In(p)] # "notify"
      BY <1>1, WaitsOnLink DEF SearchHit, MutexHeld, InRecv, InWait, TypeOK
    <2>2. NewestNotified'
      BY <1>1, <2>1 DEF SearchHit, Take, TypeOK, NewestNotified, threadVars
    <2>3. FlagAnswers' /\ AnswerFlagged'
      <3>1. ~added'[p] /\ pc'[p] \notin InWait
        BY <1>1, FlagDown DEF SearchHit, Take, Finish, TypeOK, InWait
      <3>2. \A l \in Links : Receiver(l) # p => list'[l] = list[l]
        BY <1>1, <2>1 DEF SearchHit, Take, TypeOK
      <3> QED
        BY <1>1, <3>1, <3>2, OutsideWait DEF SearchHit, Take, Finish, TypeOK, threadVars
    <2>4. MutexHeld'
      BY <1>1, <2>1 DEF SearchHit, Take, Finish, TypeOK, MutexHeld, threadVars
    <2> QED
      BY <1>1, <2>2, <2>3, <2>4 DEF SearchHit, Take, Finish, TypeOK, WaitRegistered,
                        EndIsFinal, pipeVars, threadVars
  <1>2. CASE WaitDelivers(p)
    <2>1. In(p) \in Links /\ Receiver(In(p)) = p /\ rpc[In(p)] # "notify"
      BY <1>2, WaitsOnLink DEF WaitDelivers, MutexHeld, InRecv, InWait, TypeOK
    <2>2. NewestNotified'
      BY <1>2, <2>1 DEF WaitDelivers, Take, TypeOK, NewestNotified, threadVars
    <2>3. FlagAnswers' /\ AnswerFlagged'
      <3>1. ~added'[p] /\ pc'[p] \notin InWait
        BY <1>2, FlagDown DEF WaitDelivers, Take, Finish, EndWait, Hold, TypeOK, InWait
      <3>2. \A l \in Links : Receiver(l) # p => list'[l] = list[l]
        BY <1>2, <2>1 DEF WaitDelivers, Take, TypeOK
      <3> QED
        BY <1>2, <3>1, <3>2, OutsideWait DEF WaitDelivers, Take, Finish, EndWait, Hold, TypeOK, threadVars
    <2>4. MutexHeld'
      BY <1>2, <2>1 DEF WaitDelivers, Take, Finish, EndWait, Hold, TypeOK, MutexHeld, threadVars
    <2> QED
      BY <1>2, <2>2, <2>3, <2>4 DEF WaitDelivers, Take, Finish, EndWait, Hold, TypeOK, WaitRegistered,
                        EndIsFinal, pipeVars, threadVars
  <1>3. CASE WaitFails(p)
    <2>1. FlagAnswers' /\ AnswerFlagged'
      BY <1>3, OutsideWait
         DEF WaitFails, Finish, EndWait, TypeOK, InWait, threadVars
    <2> QED
      BY <1>3, <2>1, WaitsOnLink DEF WaitFails, Finish, EndWait, Hold, TypeOK, MutexHeld, WaitRegistered,
                        NewestNotified, EndIsFinal, InRecv, InWait, pipeVars, threadVars
  <1>4. CASE SearchMiss(p)
    <2>1. In(p) \in Links /\ Receiver(In(p)) = p
      BY <1>4, WaitsOnLink DEF SearchMiss, InRecv, InWait
    <2>2. FlagAnswersFor(p)' /\ AnswerFlaggedFor(p)'
      BY <1>4, FlagDown DEF SearchMiss, TypeOK, FlagAnswersFor, AnswerFlaggedFor, Waiting,
                            Answered, InWait
    <2>3. FlagAnswers' /\ AnswerFlagged'
      BY <1>4, <2>2, OthersKept DEF SearchMiss, Hold, TypeOK, threadVars, sharedVars
    <2>4. MutexHeld'
      <3> SUFFICES ASSUME NEW l \in Links
          PROVE  (Alive(Receiver(l)) =>
                    /\ mutex_list[l] = "reader" <=> rpc[l] = "notify"
                    /\ mutex_list[l] = "main" <=>
                           pc[Receiver(l)] \in Holding /\ In(Receiver(l)) = l)'
        BY DEF MutexHeld
      <3>1. CASE l = In(p)
        BY <1>4, <2>1, <3>1 DEF SearchMiss, Hold, TypeOK, MutexHeld, threadVars, sharedVars
      <3>2. CASE l # In(p)
        BY <1>4, <2>1, <3>2 DEF SearchMiss, Hold, TypeOK, MutexHeld, threadVars, sharedVars
      <3> QED
        BY <3>1, <3>2
    <2> QED
      BY <1>4, <2>3, <2>4 DEF SearchMiss, Hold, TypeOK, WaitRegistered, NewestNotified,
                        EndIsFinal, pipeVars, threadVars, sharedVars
  <1>5. CASE RegisterWait(p)
    BY <1>5 DEF RegisterWait, TypeOK, MutexHeld, WaitRegistered, FlagAnswers, FlagAnswersFor,
                AnswerFlagged, AnswerFlaggedFor, Waiting, Answered, Ended, InWait, InRecv,
                NewestNotified,
                EndIsFinal, mainVars, pipeVars, threadVars, sharedVars
  <1>6. CASE CheckWait(p)
    <2>1. In(p) \in Links /\ Receiver(In(p)) = p
      BY <1>6, WaitsOnLink DEF CheckWait, InRecv, InWait
    <2>2. FlagAnswersFor(p)' /\ AnswerFlaggedFor(p)'
      BY <1>6, <2>1 DEF CheckWait, sharedVars, threadVars, TypeOK, FlagAnswers, AnswerFlagged,
                            FlagAnswersFor, AnswerFlaggedFor, Waiting, Answered, Ended, InWait
    <2>3. FlagAnswers' /\ AnswerFlagged'
      BY <1>6, <2>2, OthersKept DEF CheckWait, TypeOK, threadVars, sharedVars
    <2>4. MutexHeld'
      <3> SUFFICES ASSUME NEW l \in Links
          PROVE  (Alive(Receiver(l)) =>
                    /\ mutex_list[l] = "reader" <=> rpc[l] = "notify"
                    /\ mutex_list[l] = "main" <=>
                           pc[Receiver(l)] \in Holding /\ In(Receiver(l)) = l)'
        BY DEF MutexHeld
      <3>1. CASE l = In(p)
        BY <1>6, <2>1, <3>1 DEF CheckWait, TypeOK, MutexHeld, threadVars, sharedVars
      <3>2. CASE l # In(p)
        BY <1>6, <2>1, <3>2 DEF CheckWait, TypeOK, MutexHeld, threadVars, sharedVars
      <3> QED
        BY <3>1, <3>2
    <2> QED
      BY <1>6, <2>3, <2>4 DEF CheckWait, TypeOK, WaitRegistered, NewestNotified,
                        EndIsFinal, pipeVars, threadVars, sharedVars
  <1>7. CASE Sleep(p)
    BY <1>7 DEF Sleep, Hold, TypeOK, MutexHeld, WaitRegistered, FlagAnswers, FlagAnswersFor,
                AnswerFlagged, AnswerFlaggedFor, Waiting, Answered, Ended, InWait, InRecv,
                NewestNotified,
                EndIsFinal, mainVars, pipeVars, threadVars, sharedVars
  <1>8. CASE Relock(p)
    <2>1. In(p) \in Links /\ Receiver(In(p)) = p
      BY <1>8, WaitsOnLink DEF Relock, InRecv, InWait
    <2>2. FlagAnswersFor(p)' /\ AnswerFlaggedFor(p)'
      BY <1>8, <2>1 DEF Relock, threadVars, TypeOK, FlagAnswers, AnswerFlagged,
                            FlagAnswersFor, AnswerFlaggedFor, Waiting, Answered, Ended, InWait
    <2>3. FlagAnswers' /\ AnswerFlagged'
      BY <1>8, <2>2, OthersKept DEF Relock, Hold, TypeOK, threadVars, sharedVars
    <2>4. MutexHeld'
      <3> SUFFICES ASSUME NEW l \in Links
          PROVE  (Alive(Receiver(l)) =>
                    /\ mutex_list[l] = "reader" <=> rpc[l] = "notify"
                    /\ mutex_list[l] = "main" <=>
                           pc[Receiver(l)] \in Holding /\ In(Receiver(l)) = l)'
        BY DEF MutexHeld
      <3>1. CASE l = In(p)
        BY <1>8, <2>1, <3>1 DEF Relock, Hold, TypeOK, MutexHeld, threadVars, sharedVars
      <3>2. CASE l # In(p)
        BY <1>8, <2>1, <3>2 DEF Relock, Hold, TypeOK, MutexHeld, threadVars, sharedVars
      <3> QED
        BY <3>1, <3>2
    <2> QED
      BY <1>8, <2>3, <2>4 DEF Relock, Hold, TypeOK, WaitRegistered, NewestNotified,
                        EndIsFinal, pipeVars, threadVars, sharedVars
  <1>9. CASE LeaveWait(p)
    BY <1>9 DEF LeaveWait, TypeOK, MutexHeld, WaitRegistered, FlagAnswers, FlagAnswersFor,
                AnswerFlagged, AnswerFlaggedFor, Waiting, Answered, Ended, InWait, InRecv,
                NewestNotified,
                EndIsFinal, mainVars, pipeVars, threadVars, sharedVars
  <1> QED
    BY <1>1, <1>2, <1>3, <1>4, <1>5, <1>6, <1>7, <1>8, <1>9 DEF Receiving

\* The steps of a Reader.
LEMMA HandshakeReader ==
    ASSUME TypeOK, Handshake, NEW l \in Links, ReaderStep(l)
    PROVE  Handshake'
  <1> USE LinkEnds DEF Handshake, Holding, Registered, Alive, In, Goto,
          Receiver, Sender, Incoming, Outgoing
  <1>1. CASE ReadCount(l)
    <2>1. FlagAnswers' /\ AnswerFlagged'
      BY <1>1, WaitKept DEF ReadCount, Read, ReaderAt, FlagAnswers, AnswerFlagged, TypeOK, mainVars, sharedVars
    <2> QED
      BY <1>1, <2>1 DEF ReadCount, Read, ReaderAt, TypeOK, MutexHeld, WaitRegistered,
                        NewestNotified, EndIsFinal, mainVars, pipeVars, sharedVars
  <1>2. CASE ReadData(l)
    <2>1. FlagAnswers' /\ AnswerFlagged'
      BY <1>2, WaitKept DEF ReadData, Read, ReaderAt, FlagAnswers, AnswerFlagged, TypeOK, mainVars, sharedVars
    <2> QED
      BY <1>2, <2>1 DEF ReadData, Read, ReaderAt, TypeOK, MutexHeld, WaitRegistered,
                        NewestNotified, EndIsFinal, mainVars, pipeVars, sharedVars
  <1>3. CASE ReadTag(l)
    <2>1. FlagAnswers' /\ AnswerFlagged'
      BY <1>3, WaitKept DEF ReadTag, Read, ReaderAt, FlagAnswers, AnswerFlagged, TypeOK, mainVars, sharedVars
    <2> QED
      BY <1>3, <2>1 DEF ReadTag, Read, ReaderAt, TypeOK, MutexHeld, WaitRegistered,
                        NewestNotified, EndIsFinal, mainVars, pipeVars, sharedVars
  <1>4. CASE ReadEof(l)
    <2>1. FlagAnswers' /\ AnswerFlagged'
      BY <1>4, WaitKept DEF ReadEof, AtEof, ReaderAt, FlagAnswers, AnswerFlagged, TypeOK, mainVars, sharedVars
    <2> QED
      BY <1>4, <2>1 DEF ReadEof, AtEof, ReaderAt, TypeOK, MutexHeld, WaitRegistered,
                        NewestNotified, EndIsFinal, mainVars, pipeVars, sharedVars
  <1>5. CASE MarkFinished(l)
    <2>1. FlagAnswers' /\ AnswerFlagged'
      BY <1>5, WaitKept DEF MarkFinished, ReaderAt, FlagAnswers, AnswerFlagged, TypeOK, mainVars
    <2> QED
      BY <1>5, <2>1 DEF MarkFinished, ReaderAt, TypeOK, MutexHeld, WaitRegistered,
                        NewestNotified, EndIsFinal, mainVars, pipeVars
  <1>6. CASE CheckWaiting(l)
    <2>1. FlagAnswers' /\ AnswerFlagged'
      BY <1>6, WaitKept DEF CheckWaiting, ReaderAt, FlagAnswers, AnswerFlagged, TypeOK, mainVars, sharedVars
    <2> QED
      BY <1>6, <2>1 DEF CheckWaiting, ReaderAt, TypeOK, MutexHeld, WaitRegistered,
                        NewestNotified, EndIsFinal, mainVars, pipeVars, sharedVars
  <1>7. CASE SaveMessage(l)
    <2> DEFINE r == Receiver(l)
    <2>1. /\ list[l] \in Seq(Message) /\ rbuf[l] \in Message
          /\ list' = [list EXCEPT ![l] = Append(list[l], rbuf[l])]
      BY <1>7 DEF SaveMessage, TypeOK
    <2>2. NewestNotified'
      BY <1>7, <2>1, AppendProperties DEF SaveMessage, ReaderAt, TypeOK, NewestNotified
    <2>3. FlagAnswersFor(r)' /\ AnswerFlaggedFor(r)'
      <3>1. HasMatch(list'[l], call[r]) <=> HasMatch(list[l], call[r]) \/ Matches(rbuf[l], call[r])
        BY <2>1, HasMatchAppend DEF TypeOK
      <3>2. FlagAnswersFor(r) /\ AnswerFlaggedFor(r)
        BY DEF FlagAnswers, AnswerFlagged
      <3>3. CASE In(r) = l
        BY <1>7, <3>1, <3>2, <3>3 DEF SaveMessage, ReaderAt, TypeOK, FlagAnswersFor,
             AnswerFlaggedFor, Waiting, Answered, Ended, InWait, mainVars
      <3>4. CASE In(r) # l
        BY <1>7, <2>1, <3>2, <3>4, WaitsOnLink DEF SaveMessage, ReaderAt, TypeOK, FlagAnswersFor,
             AnswerFlaggedFor, Waiting, Answered, Ended, InWait, InRecv, mainVars
      <3> QED
        BY <3>3, <3>4
    <2>4. FlagAnswers' /\ AnswerFlagged'
      BY <1>7, <2>1, <2>3, OthersKept DEF SaveMessage, ReaderAt, TypeOK, mainVars
    <2> QED
      BY <1>7, <2>2, <2>4 DEF SaveMessage, Hold, ReaderAt, TypeOK, MutexHeld, WaitRegistered,
                        EndIsFinal, mainVars, pipeVars
  <1>8. CASE NotifyReceiver(l)
    <2> DEFINE r == Receiver(l)
    <2>1. /\ Alive(r) /\ mutex_list[l] = "reader"
          /\ pc[r] \in Holding => In(r) # l
      BY <1>8 DEF NotifyReceiver, MutexHeld, EndIsFinal
    <2>2. FlagAnswersFor(r) /\ AnswerFlaggedFor(r)
      BY DEF FlagAnswers, AnswerFlagged
    <2>3. CASE Awaited(waiting_for[r], l, rbuf[l])
      <3>1. pc[r] \in {"blocked", "relock"} /\ In(r) = l /\ Matches(rbuf[l], call[r])
        <4>1. /\ waiting_for[r].count = rbuf[l].count /\ waiting_for[r].source = Sender(l)
              /\ waiting_for[r].tag = MIMPI_ANY_TAG \/ waiting_for[r].tag = rbuf[l].tag
          BY <2>3 DEF Awaited
        <4>2. rbuf[l].count \in Nat
          BY DEF TypeOK, Message
        <4>3. /\ pc[r] \in Registered
              /\ waiting_for[r] = [count |-> call[r].count, source |-> call[r].peer,
                                   tag |-> call[r].tag]
          BY <2>1, <4>1, <4>2 DEF WaitRegistered, NoOne
        <4>4. In(r) = l
          BY <4>1, <4>3
        <4> QED
          BY <2>1, <4>1, <4>3, <4>4 DEF Matches
      <3>2. HasMatch(list[l], call[r])
        <4>1. list[l] # <<>> /\ list[l][Len(list[l])] = rbuf[l] /\ list[l] \in Seq(Message)
          BY <1>8 DEF NotifyReceiver, NewestNotified, TypeOK
        <4>2. Len(list[l]) \in 1 .. Len(list[l])
          BY <4>1, EmptySeq
        <4> QED
          BY <3>1, <4>1, <4>2 DEF HasMatch
      <3>3. /\ added' = [added EXCEPT ![r] = TRUE] /\ pc'[r] = "relock"
            /\ \A q \in Ranks \ {r} : pc'[q] = pc[q]
        BY <1>8, <2>3, <3>1 DEF NotifyReceiver, Signal, TypeOK
      <3>4. FlagAnswersFor(r)' /\ AnswerFlaggedFor(r)'
        BY <1>8, <3>1, <3>2, <3>3 DEF NotifyReceiver, TypeOK, FlagAnswersFor, AnswerFlaggedFor,
                                      Answered
      <3>5. FlagAnswers' /\ AnswerFlagged'
        BY <1>8, <3>3, <3>4, OthersKept DEF NotifyReceiver, ReaderAt, TypeOK
      <3>6. MutexHeld' /\ EndIsFinal'
        <4>1. /\ \A q \in Ranks : In(q)' = In(q) /\ (Alive(q)' <=> Alive(q))
              /\ \A q \in Ranks : pc'[q] \in Holding <=> pc[q] \in Holding
              /\ \A q \in Ranks : \A label \in {"start", "user", "closing", "closed", "dead"} :
                    pc'[q] = label <=> pc[q] = label
              /\ \A q \in Ranks : pc'[q] \notin {"closing", "closed", "dead"}
                    => pc[q] \notin {"closing", "closed", "dead"}
          BY <1>8, <3>1, <3>3 DEF NotifyReceiver
        <4>2. MutexHeld'
          BY <1>8, <2>1, <4>1 DEF NotifyReceiver, Hold, ReaderAt, TypeOK, MutexHeld
        <4>3. EndIsFinal'
          BY <1>8, <4>1 DEF NotifyReceiver, ReaderAt, TypeOK, EndIsFinal, pipeVars
        <4> QED
          BY <4>2, <4>3
      <3>7. WaitRegistered' /\ NewestNotified'
        BY <1>8, <2>1, <3>1, <3>3 DEF NotifyReceiver, ReaderAt, TypeOK, WaitRegistered,
             NewestNotified
      <3> QED
        BY <3>5, <3>6, <3>7
    <2>4. CASE ~Awaited(waiting_for[r], l, rbuf[l])
      <3>1. UNCHANGED <<pc, added>>
        BY <1>8, <2>4 DEF NotifyReceiver
      <3>2. ~(Waiting(r) /\ In(r) = l /\ Matches(rbuf[l], call[r]))
        <4> SUFFICES ASSUME Waiting(r), In(r) = l, Matches(rbuf[l], call[r])  PROVE FALSE
          OBVIOUS
        <4>1. pc[r] \in {"blocked", "relock"} /\ call[r].peer = Sender(l)
          BY <2>1 DEF Waiting, InWait
        <4>2. waiting_for[r] = [count |-> call[r].count, source |-> call[r].peer,
                                tag |-> call[r].tag]
          BY <2>1, <4>1 DEF WaitRegistered
        <4> QED
          BY <2>4, <4>1, <4>2 DEF Awaited, Matches
      <3>3. FlagAnswersFor(r)' /\ AnswerFlaggedFor(r)'
        BY <1>8, <2>2, <3>1, <3>2, WaitsOnLink DEF NotifyReceiver, ReaderAt, TypeOK, FlagAnswersFor,
             AnswerFlaggedFor, Waiting, Answered, Ended, InWait, InRecv
      <3>4. FlagAnswers' /\ AnswerFlagged'
        BY <1>8, <3>1, <3>3, OthersKept DEF NotifyReceiver, ReaderAt, TypeOK
      <3> QED
        BY <1>8, <2>1, <3>1, <3>4 DEF NotifyReceiver, Hold, ReaderAt, TypeOK, MutexHeld,
             WaitRegistered, NewestNotified, EndIsFinal, pipeVars
    <2> QED
      BY <2>3, <2>4
  <1>9. CASE SignalFinished(l)
    <2>1. FlagAnswers' /\ AnswerFlagged'
      BY <1>9, WaitKept DEF SignalFinished, Signal, ReaderAt, FlagAnswers, AnswerFlagged,
                            TypeOK, sharedVars
    <2> QED
      BY <1>9, <2>1 DEF SignalFinished, Signal, ReaderAt, TypeOK, MutexHeld, WaitRegistered,
                        NewestNotified, EndIsFinal, pipeVars, sharedVars
  <1> QED
    BY <1>1, <1>2, <1>3, <1>4, <1>5, <1>6, <1>7, <1>8, <1>9 DEF ReaderStep

-----------------------------------------------------------------------------
\* Readers and main threads agree, in every reachable state, on the mutexes, on
\* the wait that is registered and on the meaning of both flags
\* (mimpi_common.c:280-404).
THEOREM HandshakeHolds == Spec => []Handshake
  <1>1. ASSUME TypeOK, Handshake, [Next]_vars  PROVE Handshake'
    <2>1. CASE UNCHANGED vars
      BY <1>1, <2>1 DEF vars, Handshake, MutexHeld, WaitRegistered, FlagAnswers, FlagAnswersFor,
         AnswerFlagged, AnswerFlaggedFor, NewestNotified, EndIsFinal, Alive, Waiting, Answered,
         Ended, In
    <2>2. CASE Next
      BY <1>1, <2>2, HandshakeUser, HandshakeSends, HandshakeReceives, HandshakeReader
         DEF Next, MainStep
    <2> QED
      BY <1>1, <2>1, <2>2
  <1> QED
    BY <1>1, HandshakeInit, Typing, PTL DEF Spec

\* A raised flag means that the list holds an answer to the wait in progress:
\* the second scan of Search (mimpi_common.c:435-442) never takes a message
\* unseen, nor the guard of an empty list.
THEOREM AddedMeansMatchHolds == Spec => []AddedMeansMatch
  <1>1. Handshake => AddedMeansMatch
    BY DEF Handshake, FlagAnswers, FlagAnswersFor, AddedMeansMatch, Waiting, InWait
  <1> QED
    BY <1>1, HandshakeHolds, PTL

\* No main thread goes to sleep over a message that answers it, and none stays
\* asleep without a Reader that is about to signal (mimpi_common.c:343-387).
THEOREM NoLostMessageWakeupHolds == Spec => []NoLostMessageWakeup
  <1>1. TypeOK /\ Handshake => NoLostMessageWakeup
    <2> SUFFICES ASSUME TypeOK, Handshake, NEW p \in Ranks, Asleep(p), Answered(p)
                 PROVE  pc[p] = "blocked" /\ rpc[In(p)] = "notify"
      BY DEF NoLostMessageWakeup
    <2>1. In(p) \in Links /\ Receiver(In(p)) = p /\ Alive(p) /\ Waiting(p)
      BY WaitsOnLink DEF Asleep, Alive, Waiting, InRecv, InWait
    <2>2. ~added[p]
      BY <2>1 DEF Handshake, FlagAnswers, FlagAnswersFor, Asleep
    <2>3. rpc[In(p)] = "notify"
      BY <2>1, <2>2 DEF Handshake, AnswerFlagged, AnswerFlaggedFor
    <2>4. pc[p] \notin Holding
      BY <2>1, <2>3 DEF Handshake, MutexHeld
    <2> QED
      BY <2>3, <2>4 DEF Asleep, Holding
  <1> QED
    BY <1>1, HandshakeHolds, Typing, PTL

\* A Reader reports the end of a peer after the last message of the peer was
\* listed, so ERROR_REMOTE_FINISHED (mimpi_common.c:397) never hides one.
THEOREM FinishedMeansDrainedHolds == Spec => []FinishedMeansDrained
  <1>1. Handshake => FinishedMeansDrained
    BY DEF Handshake, EndIsFinal, FinishedMeansDrained
  <1> QED
    BY <1>1, HandshakeHolds, PTL

\* MIMPI_Finalize frees what the Readers use after the last of them stopped,
\* each at the end of a pipe its peer had closed (mimpi.c:47-55).
THEOREM ReadersStopLastHolds == Spec => []ReadersStopLast
  <1>1. TypeOK /\ Handshake => ReadersStopLast
    <2> SUFFICES ASSUME TypeOK, Handshake, NEW l \in Links
                 PROVE  /\ pc[Receiver(l)] = "closed" =>
                              rpc[l] = "exit" /\ ~wopen[l] /\ mutex_list[l] = "free"
                        /\ rpc[l] = "exit" => ~wopen[l]
      BY DEF ReadersStopLast
    <2>1. rpc[l] = "exit" => ~wopen[l]
      BY DEF Handshake, EndIsFinal, Alive
    <2>2. pc[Receiver(l)] = "closed" => rpc[l] = "exit" /\ mutex_list[l] = "free"
      BY DEF Handshake, EndIsFinal, MutexHeld, Alive, Holding, TypeOK
    <2> QED
      BY <2>1, <2>2
  <1> QED
    BY <1>1, HandshakeHolds, Typing, PTL
=============================================================================
