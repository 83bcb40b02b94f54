---------------------------- MODULE DeliveryProof ----------------------------
(***************************************************************************)
(* Proof that the threads of PointToPoint implement Mailbox, for every     *)
(* number of processes, every program and every size of the pipes.         *)
(***************************************************************************)
EXTENDS PointToPointProof

(***************************************************************************)
(* Scanned: what a Reader makes of a sequence of packets.  That the        *)
(* recursion has a solution, and only one, is shown by looking at the      *)
(* shortest prefix that would have none, or two.                           *)
(***************************************************************************)
LEMMA ScannedDefined ==
    ASSUME NEW s, Len(s) \in Nat, NEW scan
    PROVE  Scanned(scan, s) =
              [n \in 0 .. Len(s) |->
                  IF n = 0 THEN scan ELSE Assemble(Scanned(scan, s)[n - 1], s[n])]
  <1> DEFINE Solves(f, k) ==
                 f = [n \in 0 .. k |-> IF n = 0 THEN scan ELSE Assemble(f[n - 1], s[n])]
             Bad == {k \in Nat : ~\E f : Solves(f, k)}
  <1>1. Len(s) \in Nat
    OBVIOUS
  <1>2. Bad = {}
    <2> SUFFICES ASSUME Bad # {}  PROVE FALSE
      OBVIOUS
    <2> DEFINE m == Min(Bad)
    <2>1. m \in Bad /\ \A k \in Bad : m <= k
      <3> HIDE DEF Bad
      <3>1. Bad \in SUBSET Nat
        BY DEF Bad
      <3> QED
        BY <3>1, LeastNatural
    <2>2. m \in Nat /\ ~\E f : Solves(f, m)
      BY <2>1
    <2> HIDE DEF m
    <2>3. CASE m = 0
      <3> DEFINE f == [n \in 0 .. 0 |-> scan]
      <3>1. Solves(f, 0)
        OBVIOUS
      <3> QED
        BY <2>2, <2>3, <3>1
    <2>4. CASE m # 0
      <3>1. m - 1 \in Nat /\ m - 1 \notin Bad
        <4> HIDE DEF Bad
        <4> QED
          BY <2>1, <2>2, <2>4
      <3>2. PICK f : Solves(f, m - 1)
        BY <3>1
      <3>3. \A n \in 0 .. m - 1 : f[n] = IF n = 0 THEN scan ELSE Assemble(f[n - 1], s[n])
        BY <3>2
      <3> DEFINE g == [n \in 0 .. m |-> IF n = m THEN Assemble(f[m - 1], s[m]) ELSE f[n]]
      <3>4. \A n \in 0 .. m : g[n] = IF n = 0 THEN scan ELSE Assemble(g[n - 1], s[n])
        <4> SUFFICES ASSUME NEW n \in 0 .. m
                     PROVE  g[n] = IF n = 0 THEN scan ELSE Assemble(g[n - 1], s[n])
          OBVIOUS
        <4>1. CASE n = 0
          BY <2>2, <2>4, <3>3, <4>1
        <4>2. CASE n # 0
          <5>1. n - 1 \in 0 .. m - 1 /\ g[n - 1] = f[n - 1]
            BY <2>2, <4>2
          <5>2. CASE n = m
            BY <2>4, <5>1, <5>2
          <5>3. CASE n # m
            <6>1. n \in 0 .. m - 1
              BY <2>2, <5>3
            <6> QED
              BY <3>3, <4>2, <5>1, <5>3, <6>1
          <5> QED
            BY <5>2, <5>3
        <4> QED
          BY <4>1, <4>2
      <3>5. g = [n \in 0 .. m |-> g[n]]
        OBVIOUS
      <3> HIDE DEF g
      <3>6. Solves(g, m)
        BY <3>4, <3>5
      <3> QED
        BY <2>2, <3>6
    <2> QED
      BY <2>3, <2>4
  <1>3. \E f : Solves(f, Len(s))
    BY <1>1, <1>2
  <1>4. Scanned(scan, s) = CHOOSE f : Solves(f, Len(s))
    BY Zenon DEF Scanned
  <1>5. Solves(Scanned(scan, s), Len(s))
    <2> HIDE DEF Solves
    <2> QED
      BY <1>3, <1>4, Zenon
  <1> QED
    BY <1>5

LEMMA ScannedSteps ==
    ASSUME NEW s, Len(s) \in Nat, NEW scan
    PROVE  /\ Scanned(scan, s)[0] = scan
           /\ \A n \in 1 .. Len(s) :
                Scanned(scan, s)[n] = Assemble(Scanned(scan, s)[n - 1], s[n])
  <1>1. Len(s) \in Nat
    OBVIOUS
  <1> DEFINE g == Scanned(scan, s)
  <1>2. g = [n \in 0 .. Len(s) |-> IF n = 0 THEN scan ELSE Assemble(g[n - 1], s[n])]
    BY ScannedDefined
  <1> HIDE DEF g
  <1>3. g[0] = scan /\ \A n \in 1 .. Len(s) : g[n] = Assemble(g[n - 1], s[n])
    BY <1>1, <1>2
  <1> QED
    BY <1>3 DEF g

LEMMA NothingScanned ==
    ASSUME NEW scan
    PROVE  AfterAll(scan, <<>>) = scan
  <1> DEFINE s == <<>>
  <1>1. Len(s) = 0
    OBVIOUS
  <1> HIDE DEF s
  <1>2. Scanned(scan, s)[0] = scan
    BY <1>1, ScannedSteps
  <1>3. AfterAll(scan, s) = scan
    BY <1>1, <1>2 DEF AfterAll
  <1> QED
    BY <1>3 DEF s

\* The states f that a scan passes through in the first k packets of s.
Follows(f, scan, s, k) ==
    f[0] = scan /\ \A n \in 1 .. k : f[n] = Assemble(f[n - 1], s[n])

LEMMA ScannedOnly ==
    ASSUME NEW s, Len(s) \in Nat, NEW scan, NEW f, NEW k \in 0 .. Len(s),
           Follows(f, scan, s, k)
    PROVE  f[k] = Scanned(scan, s)[k]
  <1> DEFINE Bad == {n \in 0 .. k : f[n] # Scanned(scan, s)[n]}
  <1>1. Len(s) \in Nat
    OBVIOUS
  <1> SUFFICES ASSUME Bad # {}  PROVE FALSE
    BY <1>1
  <1> DEFINE m == Min(Bad)
  <1>2. m \in Bad /\ \A n \in Bad : m <= n
    <2>1. Bad \in SUBSET Nat
      BY <1>1
    <2> HIDE DEF Bad
    <2> QED
      BY <2>1, LeastNatural
  <1>3. m \in 0 .. k /\ f[m] # Scanned(scan, s)[m]
    BY <1>2
  <1> HIDE DEF m
  <1>4. m # 0
    BY <1>3, ScannedSteps DEF Follows
  <1>5. m - 1 \in 0 .. k /\ m - 1 \notin Bad /\ m \in 1 .. k /\ m \in 1 .. Len(s)
    BY <1>1, <1>2, <1>3, <1>4
  <1>6. f[m - 1] = Scanned(scan, s)[m - 1]
    BY <1>5
  <1>7. f[m] = Assemble(f[m - 1], s[m])
    BY <1>5 DEF Follows
  <1>8. Scanned(scan, s)[m] = Assemble(Scanned(scan, s)[m - 1], s[m])
    BY <1>5, ScannedSteps
  <1> QED
    BY <1>3, <1>6, <1>7, <1>8

\* One packet more: at the end, as a write adds it, and at the front, as a
\* read takes it.
LEMMA ScannedAppend ==
    ASSUME NEW T, NEW s \in Seq(T), NEW x \in T, NEW scan
    PROVE  /\ \A n \in 0 .. Len(s) : Scanned(scan, Append(s, x))[n] = Scanned(scan, s)[n]
           /\ AfterAll(scan, Append(s, x)) = Assemble(AfterAll(scan, s), x)
  <1> DEFINE t == Append(s, x)
             f == Scanned(scan, t)
  <1>1. /\ Len(s) \in Nat /\ t \in Seq(T) /\ Len(t) = Len(s) + 1
        /\ \A i \in 1 .. Len(s) : t[i] = s[i]
        /\ t[Len(s) + 1] = x
    BY AppendProperties, LenProperties
  <1> HIDE DEF t
  <1>2. f[0] = scan /\ \A n \in 1 .. Len(s) + 1 : f[n] = Assemble(f[n - 1], t[n])
    BY <1>1, ScannedSteps
  <1> HIDE DEF f
  <1>3. \A n \in 1 .. Len(s) : f[n] = Assemble(f[n - 1], s[n])
    BY <1>1, <1>2
  <1>4. ASSUME NEW n \in 0 .. Len(s)  PROVE f[n] = Scanned(scan, s)[n]
    <2>1. Follows(f, scan, s, n)
      BY <1>1, <1>2, <1>3 DEF Follows
    <2> QED
      BY <1>1, <2>1, ScannedOnly
  <1>5. f[Len(s) + 1] = Assemble(f[Len(s)], x)
    BY <1>1, <1>2
  <1> QED
    BY <1>1, <1>4, <1>5 DEF AfterAll, t, f

LEMMA ScannedTail ==
    ASSUME NEW T, NEW s \in Seq(T), s # <<>>, NEW scan
    PROVE  /\ \A n \in 0 .. Len(s) - 1 :
                Scanned(Assemble(scan, Head(s)), Tail(s))[n] = Scanned(scan, s)[n + 1]
           /\ AfterAll(Assemble(scan, Head(s)), Tail(s)) = AfterAll(scan, s)
  <1> DEFINE t == Tail(s)
             g == [n \in 0 .. Len(s) - 1 |-> Scanned(scan, s)[n + 1]]
             next == Assemble(scan, Head(s))
  <1>1. /\ Len(s) \in Nat \ {0} /\ t \in Seq(T) /\ Len(t) = Len(s) - 1
        /\ \A i \in 1 .. Len(s) - 1 : t[i] = s[i + 1]
        /\ Head(s) = s[1]
    BY HeadTailProperties, LenProperties, EmptySeq
  <1> HIDE DEF t
  <1>2. g[0] = next
    BY <1>1, ScannedSteps
  <1>3. \A n \in 1 .. Len(s) - 1 : g[n] = Assemble(g[n - 1], t[n])
    <2> SUFFICES ASSUME NEW n \in 1 .. Len(s) - 1  PROVE g[n] = Assemble(g[n - 1], t[n])
      OBVIOUS
    <2>1. n + 1 \in 1 .. Len(s) /\ (n + 1) - 1 = n /\ (n - 1) + 1 = n
          /\ n \in 0 .. Len(s) - 1 /\ n - 1 \in 0 .. Len(s) - 1
      BY <1>1
    <2>2. Scanned(scan, s)[n + 1] = Assemble(Scanned(scan, s)[n], s[n + 1])
      BY <2>1, ScannedSteps
    <2> QED
      BY <1>1, <2>1, <2>2
  <1>4. \A n \in 0 .. Len(s) - 1 : g[n] = Scanned(scan, s)[n + 1]
    OBVIOUS
  <1> HIDE DEF g, next
  <1>5. ASSUME NEW n \in 0 .. Len(s) - 1  PROVE Scanned(next, t)[n] = Scanned(scan, s)[n + 1]
    <2>1. n \in 0 .. Len(t) /\ Len(t) \in Nat /\ Follows(g, next, t, n)
      BY <1>1, <1>2, <1>3 DEF Follows
    <2>2. g[n] = Scanned(next, t)[n]
      BY <2>1, ScannedOnly
    <2> QED
      BY <1>4, <2>2
  <1>6. Scanned(next, t)[Len(t)] = Scanned(scan, s)[Len(s)]
    BY <1>1, <1>5
  <1> QED
    BY <1>5, <1>6 DEF AfterAll, t, next

\* What has been assembled stays a scan of messages.
ScanType == [stage: {"count", "data", "tag"}, buf: Message, done: Seq(Message)]

LEMMA AssembleForms ==
    ASSUME NEW scan \in ScanType, NEW x \in PacketType
    PROVE  /\ scan.stage = "count" =>
                Assemble(scan, x) =
                    [stage |-> IF x.val = 0 THEN "tag" ELSE "data",
                     buf |-> [count |-> x.val, tag |-> 0, data |-> <<>>],
                     done |-> scan.done]
           /\ scan.stage = "data" =>
                Assemble(scan, x) =
                    [stage |-> IF Len(scan.buf.data) + 1 < scan.buf.count THEN "data" ELSE "tag",
                     buf |-> [count |-> scan.buf.count, tag |-> scan.buf.tag,
                              data |-> Append(scan.buf.data, x.val)],
                     done |-> scan.done]
           /\ scan.stage = "tag" =>
                Assemble(scan, x) =
                    [stage |-> "count", buf |-> NoBuf,
                     done |-> Append(scan.done, [count |-> scan.buf.count, tag |-> x.val,
                                                 data |-> scan.buf.data])]
  <1>1. [NoBuf EXCEPT !.count = x.val] = [count |-> x.val, tag |-> 0, data |-> <<>>]
    BY DEF NoBuf
  <1>2. /\ [scan.buf EXCEPT !.tag = x.val] = [count |-> scan.buf.count, tag |-> x.val, data |-> scan.buf.data]
        /\ [scan.buf EXCEPT !.data = Append(@, x.val)]
              = [count |-> scan.buf.count, tag |-> scan.buf.tag, data |-> Append(scan.buf.data, x.val)]
    <2>1. scan.buf \in [count: Nat, tag: Nat, data: Seq(Nat)]
      BY DEF ScanType, Message
    <2>2. ASSUME NEW b \in [count: Nat, tag: Nat, data: Seq(Nat)], NEW v, NEW w
          PROVE  /\ [b EXCEPT !.tag = v] = [count |-> b.count, tag |-> v, data |-> b.data]
                 /\ [b EXCEPT !.data = w] = [count |-> b.count, tag |-> b.tag, data |-> w]
      OBVIOUS
    <2> QED
      BY <2>1, <2>2
  <1>3. CASE scan.stage = "count"
    BY <1>1, <1>3 DEF Assemble, ScanType
  <1>4. CASE scan.stage = "data"
    BY <1>2, <1>4 DEF Assemble, ScanType
  <1>5. CASE scan.stage = "tag"
    BY <1>2, <1>5 DEF Assemble, ScanType
  <1> QED
    BY <1>3, <1>4, <1>5 DEF ScanType

LEMMA AssembleTyped ==
    ASSUME NEW scan \in ScanType, NEW x \in PacketType
    PROVE  Assemble(scan, x) \in ScanType
  <1>1. /\ x.val \in Nat /\ scan.buf.count \in Nat /\ scan.buf.tag \in Nat
        /\ scan.buf.data \in Seq(Nat) /\ scan.done \in Seq(Message)
    BY DEF ScanType, PacketType, Message
  <1>2. Append(scan.buf.data, x.val) \in Seq(Nat) /\ <<>> \in Seq(Nat)
    BY <1>1
  <1>3. /\ [count |-> x.val, tag |-> 0, data |-> <<>>] \in Message
        /\ NoBuf \in Message
        /\ [count |-> scan.buf.count, tag |-> scan.buf.tag, data |-> Append(scan.buf.data, x.val)] \in Message
        /\ [count |-> scan.buf.count, tag |-> x.val, data |-> scan.buf.data] \in Message
    BY <1>1, <1>2 DEF Message, NoBuf
  <1>4. Append(scan.done, [count |-> scan.buf.count, tag |-> x.val, data |-> scan.buf.data]) \in Seq(Message)
    BY <1>1, <1>3
  <1>5. ASSUME NEW stage \in {"count", "data", "tag"}, NEW buf \in Message, NEW done \in Seq(Message)
        PROVE  [stage |-> stage, buf |-> buf, done |-> done] \in ScanType
    BY DEF ScanType
  <1>6. CASE scan.stage = "count"
    BY <1>1, <1>3, <1>5, <1>6, AssembleForms
  <1>7. CASE scan.stage = "data"
    BY <1>1, <1>3, <1>5, <1>7, AssembleForms
  <1>8. CASE scan.stage = "tag"
    <2> DEFINE m == [count |-> scan.buf.count, tag |-> x.val, data |-> scan.buf.data]
               done == Append(scan.done, m)
    <2>1. Assemble(scan, x) = [stage |-> "count", buf |-> NoBuf, done |-> done]
      BY <1>8, AssembleForms
    <2>2. done \in Seq(Message)
      BY <1>4
    <2> HIDE DEF done
    <2> QED
      BY <1>3, <1>5, <2>1, <2>2
  <1> QED
    BY <1>6, <1>7, <1>8 DEF ScanType

LEMMA ScannedTyped ==
    ASSUME NEW s \in Seq(PacketType), NEW scan \in ScanType, NEW k \in 0 .. Len(s)
    PROVE  Scanned(scan, s)[k] \in ScanType
  <1> DEFINE Bad == {n \in 0 .. Len(s) : Scanned(scan, s)[n] \notin ScanType}
  <1>1. Len(s) \in Nat
    BY LenProperties
  <1> SUFFICES ASSUME Bad # {}  PROVE FALSE
    OBVIOUS
  <1> DEFINE m == Min(Bad)
  <1>2. m \in Bad /\ \A n \in Bad : m <= n
    <2>1. Bad \in SUBSET Nat
      BY <1>1
    <2> HIDE DEF Bad
    <2> QED
      BY <2>1, LeastNatural
  <1>3. m \in 0 .. Len(s) /\ Scanned(scan, s)[m] \notin ScanType
    BY <1>2
  <1> HIDE DEF m
  <1>4. m # 0
    BY <1>3, ScannedSteps
  <1>5. m - 1 \in 0 .. Len(s) /\ m - 1 \notin Bad /\ m \in 1 .. Len(s)
    BY <1>1, <1>2, <1>3, <1>4
  <1>6. Scanned(scan, s)[m] = Assemble(Scanned(scan, s)[m - 1], s[m]) /\ s[m] \in PacketType
    BY <1>5, ScannedSteps, ElementOfSeq
  <1>7. Scanned(scan, s)[m - 1] \in ScanType
    BY <1>5
  <1> QED
    BY <1>3, <1>6, <1>7, AssembleTyped

\* Messages that are complete play no part in what comes after them.
After(first, scan) == [stage |-> scan.stage, buf |-> scan.buf, done |-> first \o scan.done]

LEMMA AssembleAfter ==
    ASSUME NEW scan \in ScanType, NEW first \in Seq(Message), NEW x \in PacketType
    PROVE  Assemble(After(first, scan), x) = After(first, Assemble(scan, x))
  <1>1. /\ scan.stage \in {"count", "data", "tag"} /\ scan.buf \in Message /\ scan.done \in Seq(Message)
        /\ first \o scan.done \in Seq(Message)
    BY DEF ScanType
  <1>2. After(first, scan) \in ScanType
    BY <1>1 DEF After, ScanType
  <1> DEFINE m == [count |-> scan.buf.count, tag |-> x.val, data |-> scan.buf.data]
  <1>3. m \in Message
    BY <1>1 DEF Message, PacketType
  <1> HIDE DEF m
  <1>4. Append(first \o scan.done, m) = first \o Append(scan.done, m)
    BY <1>1, <1>3
  <1>5. /\ After(first, scan).stage = scan.stage /\ After(first, scan).buf = scan.buf
        /\ After(first, scan).done = first \o scan.done
    BY DEF After
  <1>6. CASE scan.stage = "count"
    <2> DEFINE stage == IF x.val = 0 THEN "tag" ELSE "data"
               buf == [count |-> x.val, tag |-> 0, data |-> <<>>]
    <2>1. Assemble(After(first, scan), x) = [stage |-> stage, buf |-> buf, done |-> first \o scan.done]
      BY <1>2, <1>5, <1>6, AssembleForms
    <2>2. Assemble(scan, x) = [stage |-> stage, buf |-> buf, done |-> scan.done]
      BY <1>6, AssembleForms
    <2> HIDE DEF stage, buf
    <2> QED
      BY <2>1, <2>2 DEF After
  <1>7. CASE scan.stage = "data"
    <2> DEFINE stage == IF Len(scan.buf.data) + 1 < scan.buf.count THEN "data" ELSE "tag"
               buf == [count |-> scan.buf.count, tag |-> scan.buf.tag,
                       data |-> Append(scan.buf.data, x.val)]
    <2>1. Assemble(After(first, scan), x) = [stage |-> stage, buf |-> buf, done |-> first \o scan.done]
      BY <1>2, <1>5, <1>7, AssembleForms
    <2>2. Assemble(scan, x) = [stage |-> stage, buf |-> buf, done |-> scan.done]
      BY <1>7, AssembleForms
    <2> HIDE DEF stage, buf
    <2> QED
      BY <2>1, <2>2 DEF After
  <1>8. CASE scan.stage = "tag"
    <2>1. Assemble(After(first, scan), x) = [stage |-> "count", buf |-> NoBuf, done |-> Append(first \o scan.done, m)]
      BY <1>2, <1>5, <1>8, AssembleForms DEF m
    <2>2. Assemble(scan, x) = [stage |-> "count", buf |-> NoBuf, done |-> Append(scan.done, m)]
      BY <1>8, AssembleForms DEF m
    <2> QED
      BY <1>4, <2>1, <2>2 DEF After
  <1> QED
    BY <1>1, <1>6, <1>7, <1>8

LEMMA ScannedAfter ==
    ASSUME NEW s \in Seq(PacketType), NEW scan \in ScanType, NEW first \in Seq(Message)
    PROVE  /\ \A n \in 0 .. Len(s) :
                Scanned(After(first, scan), s)[n] = After(first, Scanned(scan, s)[n])
           /\ AfterAll(After(first, scan), s) = After(first, AfterAll(scan, s))
  <1> DEFINE g == [n \in 0 .. Len(s) |-> After(first, Scanned(scan, s)[n])]
  <1>1. Len(s) \in Nat
    BY LenProperties
  <1>2. \A n \in 0 .. Len(s) : g[n] = After(first, Scanned(scan, s)[n])
    OBVIOUS
  <1> HIDE DEF g
  <1>3. g[0] = After(first, scan)
    BY <1>1, <1>2, ScannedSteps
  <1>4. \A n \in 1 .. Len(s) : g[n] = Assemble(g[n - 1], s[n])
    <2> SUFFICES ASSUME NEW n \in 1 .. Len(s)  PROVE g[n] = Assemble(g[n - 1], s[n])
      OBVIOUS
    <2>1. n - 1 \in 0 .. Len(s) /\ n \in 0 .. Len(s) /\ s[n] \in PacketType
      BY <1>1, ElementOfSeq
    <2>2. Scanned(scan, s)[n - 1] \in ScanType
      BY <2>1, ScannedTyped
    <2>3. Scanned(scan, s)[n] = Assemble(Scanned(scan, s)[n - 1], s[n])
      BY ScannedSteps
    <2> QED
      BY <1>2, <2>1, <2>2, <2>3, AssembleAfter
  <1>5. ASSUME NEW n \in 0 .. Len(s)
        PROVE  Scanned(After(first, scan), s)[n] = After(first, Scanned(scan, s)[n])
    <2>1. Follows(g, After(first, scan), s, n)
      BY <1>1, <1>3, <1>4 DEF Follows
    <2> QED
      BY <1>1, <1>2, <2>1, ScannedOnly
  <1> QED
    BY <1>1, <1>5 DEF AfterAll

-----------------------------------------------------------------------------
(***************************************************************************)
(* Framing.                                                                *)
(***************************************************************************)
\* A Reader in the state scan takes the packets of s for what they are.
Fits(scan, s) == \A i \in 1 .. Len(s) : s[i].kind = WrittenAs(Scanned(scan, s)[i - 1].stage)

LEMMA FitsAppend ==
    ASSUME NEW s \in Seq(PacketType), NEW x \in PacketType, NEW scan,
           Fits(scan, s), x.kind = WrittenAs(AfterAll(scan, s).stage)
    PROVE  Fits(scan, Append(s, x))
  <1>1. /\ Len(s) \in Nat /\ Len(Append(s, x)) = Len(s) + 1
        /\ \A i \in 1 .. Len(s) : Append(s, x)[i] = s[i]
        /\ Append(s, x)[Len(s) + 1] = x
    BY AppendProperties, LenProperties
  <1>2. \A n \in 0 .. Len(s) : Scanned(scan, Append(s, x))[n] = Scanned(scan, s)[n]
    BY ScannedAppend
  <1> SUFFICES ASSUME NEW i \in 1 .. Len(s) + 1
               PROVE  Append(s, x)[i].kind = WrittenAs(Scanned(scan, Append(s, x))[i - 1].stage)
    BY <1>1 DEF Fits
  <1>3. i - 1 \in 0 .. Len(s) /\ Scanned(scan, Append(s, x))[i - 1] = Scanned(scan, s)[i - 1]
    BY <1>1, <1>2
  <1>4. CASE i \in 1 .. Len(s)
    BY <1>1, <1>3, <1>4 DEF Fits
  <1>5. CASE i = Len(s) + 1
    <2>1. i - 1 = Len(s)
      BY <1>1, <1>5
    <2> QED
      BY <1>1, <1>3, <1>5, <2>1 DEF AfterAll
  <1> QED
    BY <1>1, <1>4, <1>5

LEMMA FitsTail ==
    ASSUME NEW s \in Seq(PacketType), s # <<>>, NEW scan, Fits(scan, s)
    PROVE  Head(s).kind = WrittenAs(scan.stage) /\ Fits(Assemble(scan, Head(s)), Tail(s))
  <1>1. /\ Len(s) \in Nat \ {0} /\ Len(Tail(s)) = Len(s) - 1 /\ Head(s) = s[1]
        /\ \A i \in 1 .. Len(s) - 1 : Tail(s)[i] = s[i + 1]
    BY HeadTailProperties, LenProperties, EmptySeq
  <1>2. \A n \in 0 .. Len(s) - 1 :
            Scanned(Assemble(scan, Head(s)), Tail(s))[n] = Scanned(scan, s)[n + 1]
    BY ScannedTail
  <1>3. Head(s).kind = WrittenAs(scan.stage)
    BY <1>1, ScannedSteps DEF Fits
  <1>4. ASSUME NEW i \in 1 .. Len(s) - 1
        PROVE  Tail(s)[i].kind = WrittenAs(Scanned(Assemble(scan, Head(s)), Tail(s))[i - 1].stage)
    <2>1. i - 1 \in 0 .. Len(s) - 1 /\ i + 1 \in 1 .. Len(s) /\ (i + 1) - 1 = i /\ (i - 1) + 1 = i
      BY <1>1
    <2>2. s[i + 1].kind = WrittenAs(Scanned(scan, s)[i].stage)
      BY <2>1 DEF Fits
    <2> QED
      BY <1>1, <1>2, <2>1, <2>2
  <1> QED
    BY <1>1, <1>3, <1>4 DEF Fits

LEMMA FitsAfter ==
    ASSUME NEW s \in Seq(PacketType), NEW scan \in ScanType, NEW first \in Seq(Message)
    PROVE  Fits(After(first, scan), s) <=> Fits(scan, s)
  <1>1. Len(s) \in Nat
    BY LenProperties
  <1>2. \A i \in 1 .. Len(s) : i - 1 \in 0 .. Len(s)
    BY <1>1
  <1>3. ASSUME NEW n \in 0 .. Len(s)
        PROVE  Scanned(After(first, scan), s)[n].stage = Scanned(scan, s)[n].stage
    <2>1. Scanned(After(first, scan), s)[n] = After(first, Scanned(scan, s)[n])
      BY ScannedAfter
    <2> QED
      BY <2>1 DEF After
  <1> QED
    BY <1>2, <1>3 DEF Fits

LEMMA ScanTyped ==
    ASSUME TypeOK, NEW l \in Links
    PROVE  Scan(l) \in ScanType /\ pipe[l] \in Seq(PacketType) /\ AfterAll(Scan(l), pipe[l]) \in ScanType
  <1>1. pipe[l] \in Seq(PacketType) /\ rbuf[l] \in Message /\ NoBuf \in Message
    BY ValuesTyped DEF TypeOK
  <1>2. <<>> \in Seq(Message) /\ <<rbuf[l]>> \in Seq(Message)
    BY <1>1
  <1>3. Scan(l) \in ScanType
    BY <1>1, <1>2 DEF Scan, ScanType
  <1>4. AfterAll(Scan(l), pipe[l]) \in ScanType
    BY <1>1, <1>3, ScannedTyped, LenProperties DEF AfterAll
  <1> QED
    BY <1>1, <1>3, <1>4

\* What Framing says of one link.
Attended(l) == pc[Receiver(l)] \notin {"closed", "dead"}
Framed(l) ==
    /\ ropen[l] <=> Attended(l)
    /\ ~ropen[l] => list[l] = <<>> /\ pipe[l] = <<>>
    /\ Fits(Scan(l), pipe[l])
    /\ wopen[l] /\ ropen[l] => InStep(l)

LEMMA FramingByLink ==
    /\ Framing <=> /\ \A p \in Ranks : pc[p] = "send_count" => sent[p] = 0
                   /\ \A l \in Links : Framed(l)
    /\ Framing' <=> /\ \A p \in Ranks : pc'[p] = "send_count" => sent'[p] = 0
                    /\ \A l \in Links : Framed(l)'
  BY DEF Framing, Framed, Attended, Understood, Fits

\* A link none of whose ends moves.
LEMMA LinkKept ==
    ASSUME NEW l \in Links, Framed(l),
           Scan(l)' = Scan(l), pipe'[l] = pipe[l], ropen'[l] = ropen[l],
           ~ropen[l] => list'[l] = list[l],
           wopen'[l] => wopen[l],
           Attended(l)' <=> Attended(l),
           wopen'[l] /\ ropen[l] =>
               \/ ~InMessage(l) /\ ~InMessage(l)'
               \/ LET p == Sender(l)
                  IN pc'[p] = pc[p] /\ call'[p] = call[p] /\ calls'[p] = calls[p] /\ sent'[p] = sent[p]
    PROVE  Framed(l)'
  <1>1. wopen'[l] /\ ropen'[l] => InStep(l)'
    BY DEF Framed, InStep, InMessage, Written, Out
  <1> QED
    BY <1>1 DEF Framed

LEMMA FramingInit == Init => Framing
  <1> SUFFICES ASSUME Init  PROVE Framing
    OBVIOUS
  <1>1. ASSUME NEW l \in Links  PROVE Framed(l)
    <2>1. /\ pipe[l] = <<>> /\ list[l] = <<>> /\ ropen[l] /\ wopen[l]
          /\ pc[Receiver(l)] = "start" /\ pc[Sender(l)] = "start" /\ rpc[l] = "unborn"
      BY LinkEnds DEF Init
    <2>2. Len(pipe[l]) = 0 /\ Scan(l).stage = "count"
      BY <2>1 DEF Scan
    <2>3. AfterAll(Scan(l), pipe[l]) = Scan(l)
      BY <2>1, NothingScanned
    <2> QED
      BY <2>1, <2>2, <2>3 DEF Framed, Attended, Fits, InStep, InMessage
  <1> QED
    BY <1>1, FramingByLink DEF Init

\* A step of the main thread of p that writes nothing and ends nothing.
LEMMA FramingQuiet ==
    ASSUME TypeOK, Framing, NEW p \in Ranks,
           UNCHANGED <<pipeVars, threadVars>>,
           pc[p] \notin {"closed", "dead", "send_data", "send_tag"},
           pc'[p] \notin {"closed", "dead", "send_data", "send_tag"},
           pc'[p] = "send_count" => sent'[p] = 0,
           \A q \in Ranks \ {p} :
               pc'[q] = pc[q] /\ call'[q] = call[q] /\ calls'[q] = calls[q] /\ sent'[q] = sent[q],
           \A l \in Links : ~ropen[l] => list'[l] = list[l]
    PROVE  Framing'
  <1>1. ASSUME NEW l \in Links  PROVE Framed(l)'
    <2>1. Framed(l) /\ Scan(l)' = Scan(l) /\ pipe'[l] = pipe[l] /\ ropen'[l] = ropen[l] /\ wopen'[l] = wopen[l]
      BY FramingByLink DEF Scan, pipeVars, threadVars
    <2>2. Attended(l)' <=> Attended(l)
      BY LinkEnds DEF Attended
    <2>3. \/ ~InMessage(l) /\ ~InMessage(l)'
          \/ LET q == Sender(l)
             IN pc'[q] = pc[q] /\ call'[q] = call[q] /\ calls'[q] = calls[q] /\ sent'[q] = sent[q]
      BY LinkEnds DEF InMessage
    <2> QED
      BY <2>1, <2>2, <2>3, LinkKept
  <1>2. \A q \in Ranks : pc'[q] = "send_count" => sent'[q] = 0
    BY FramingByLink
  <1> QED
    BY <1>1, <1>2, FramingByLink

LEMMA FramingUser ==
    ASSUME TypeOK, Handshake, Framing, NEW p \in Ranks, UserStep(p)
    PROVE  Framing'
  <1>1. CASE MIMPI_Init(p)
    <2>1. ASSUME NEW l \in Links  PROVE Framed(l)'
      <3>1. Framed(l) /\ pc[p] = "start"
        BY <1>1, FramingByLink DEF MIMPI_Init
      <3>2. Scan(l)' = Scan(l)
        <4>1. rbuf'[l] = rbuf[l] /\ (rpc'[l] = rpc[l] \/ (rpc[l] = "unborn" /\ rpc'[l] = "count"))
          BY <1>1 DEF MIMPI_Init, Incoming, Handshake, EndIsFinal, TypeOK
        <4> QED
          BY <4>1 DEF Scan
      <3>3. UNCHANGED <<pipe, ropen, wopen, list, call, calls, sent>>
        BY <1>1 DEF MIMPI_Init, pipeVars, sharedVars
      <3>4. (Attended(l)' <=> Attended(l)) /\ (InMessage(l)' <=> InMessage(l))
            /\ (InMessage(l) => pc'[Sender(l)] = pc[Sender(l)])
        BY <1>1, <3>3, LinkEnds DEF MIMPI_Init, Goto, Attended, InMessage, Out, TypeOK
      <3> QED
        BY <3>1, <3>2, <3>3, <3>4, LinkKept
    <2>2. \A q \in Ranks : pc'[q] = "send_count" => sent'[q] = 0
      BY <1>1, FramingByLink DEF MIMPI_Init, Goto, TypeOK
    <2> QED
      BY <2>1, <2>2, FramingByLink
  <1>2. CASE RejectCall(p)
    BY <1>2, FramingQuiet DEF RejectCall, Begin, Finish, Goto, TypeOK, sharedVars
  <1>3. CASE BeginSend(p)
    BY <1>3, FramingQuiet DEF BeginSend, Begin, Goto, TypeOK, sharedVars
  <1>4. CASE BeginRecv(p)
    BY <1>4, FramingQuiet DEF BeginRecv, Begin, Goto, TypeOK, sharedVars
  <1>5. CASE BeginFinalize(p)
    BY <1>5, FramingQuiet DEF BeginFinalize, Goto, TypeOK, sharedVars
  <1>6. CASE SpuriousWake(p)
    BY <1>6, FramingQuiet DEF SpuriousWake, Goto, TypeOK, sharedVars
  <1>7. CASE Die(p)
    <2>1. ASSUME NEW l \in Links  PROVE Framed(l)'
      <3>1. Framed(l)
        BY FramingByLink
      <3>2. CASE Receiver(l) = p
        <4>1. ~ropen'[l] /\ pipe'[l] = <<>> /\ list'[l] = <<>> /\ pc'[p] = "dead"
          BY <1>7, <3>2 DEF Die, Release, Incoming, Goto, TypeOK
        <4>2. Len(pipe'[l]) = 0
          BY <4>1
        <4> QED
          BY <3>2, <4>1, <4>2 DEF Framed, Attended, Fits
      <3>3. CASE Receiver(l) # p
        <4>1. /\ rpc'[l] = rpc[l] /\ rbuf'[l] = rbuf[l] /\ pipe'[l] = pipe[l] /\ ropen'[l] = ropen[l]
              /\ list'[l] = list[l] /\ pc'[Receiver(l)] = pc[Receiver(l)]
              /\ wopen'[l] => wopen[l] /\ Sender(l) # p
          BY <1>7, <3>3, LinkEnds DEF Die, Release, Incoming, Outgoing, Goto, TypeOK
        <4>2. Scan(l)' = Scan(l) /\ (Attended(l)' <=> Attended(l))
          BY <4>1 DEF Scan, Attended
        <4>3. wopen'[l] => LET q == Sender(l)
                           IN pc'[q] = pc[q] /\ call'[q] = call[q] /\ calls'[q] = calls[q] /\ sent'[q] = sent[q]
          BY <1>7, <4>1, LinkEnds DEF Die, Goto, TypeOK
        <4> QED
          BY <3>1, <4>1, <4>2, <4>3, LinkKept
      <3> QED
        BY <3>2, <3>3
    <2>2. \A q \in Ranks : pc'[q] = "send_count" => sent'[q] = 0
      BY <1>7, FramingByLink DEF Die, Goto, TypeOK
    <2> QED
      BY <2>1, <2>2, FramingByLink
  <1> QED
    BY <1>1, <1>2, <1>3, <1>4, <1>5, <1>6, <1>7 DEF UserStep

LEMMA FramingReceives ==
    ASSUME TypeOK, Handshake, Framing, NEW p \in Ranks, Receiving(p)
    PROVE  Framing'
  <1>1. pc[p] \in InRecv => ropen[In(p)]
    BY WaitsOnLink, FramingByLink DEF Framed, Attended, InRecv, InWait
  <1> USE DEF Goto, Finish, TypeOK
  <1>2. CASE SearchHit(p)
    BY <1>1, <1>2, FramingQuiet DEF SearchHit, Take, InRecv
  <1>3. CASE SearchMiss(p)
    BY <1>3, FramingQuiet DEF SearchMiss
  <1>4. CASE RegisterWait(p)
    BY <1>4, FramingQuiet DEF RegisterWait
  <1>5. CASE CheckWait(p)
    BY <1>5, FramingQuiet DEF CheckWait, sharedVars
  <1>6. CASE Sleep(p)
    BY <1>6, FramingQuiet DEF Sleep
  <1>7. CASE Relock(p)
    BY <1>7, FramingQuiet DEF Relock
  <1>8. CASE LeaveWait(p)
    BY <1>8, FramingQuiet DEF LeaveWait
  <1>9. CASE WaitFails(p)
    BY <1>9, FramingQuiet DEF WaitFails
  <1>10. CASE WaitDelivers(p)
    BY <1>1, <1>10, FramingQuiet DEF WaitDelivers, Take, InRecv, InWait
  <1> QED
    BY <1>2, <1>3, <1>4, <1>5, <1>6, <1>7, <1>8, <1>9, <1>10 DEF Receiving

\* A chunk more of the message that p is writing.
LEMMA ChunkAdded ==
    ASSUME NEW n \in Nat, NEW c \in Nat
    PROVE  /\ [i \in 1 .. n |-> c] \in Seq(Nat) /\ Len([i \in 1 .. n |-> c]) = n
           /\ Append([i \in 1 .. n |-> c], c) = [i \in 1 .. n + 1 |-> c]
  <1> DEFINE s == [i \in 1 .. n |-> c]
             t == [i \in 1 .. n + 1 |-> c]
  <1>1. s \in Seq(Nat) /\ Len(s) = n /\ \A i \in 1 .. n : s[i] = c
    OBVIOUS
  <1>2. t \in Seq(Nat) /\ Len(t) = n + 1 /\ \A i \in 1 .. n + 1 : t[i] = c
    OBVIOUS
  <1> HIDE DEF s, t
  <1>3. /\ Append(s, c) \in Seq(Nat) /\ Len(Append(s, c)) = n + 1
        /\ \A i \in 1 .. n : Append(s, c)[i] = c
        /\ Append(s, c)[n + 1] = c
    BY <1>1, AppendProperties
  <1>4. \A i \in 1 .. n + 1 : Append(s, c)[i] = t[i]
    BY <1>2, <1>3
  <1>5. Append(s, c) = t
    BY <1>2, <1>3, <1>4, SeqEqual
  <1> QED
    BY <1>1, <1>5 DEF s, t

\* Where a write of p goes, and what that link says before it.
LEMMA WriterFramed ==
    ASSUME TypeOK, Handshake, Framing, NEW p \in Ranks, pc[p] \in InSend
    PROVE  /\ Out(p) \in Links /\ Sender(Out(p)) = p /\ Receiver(Out(p)) # p
           /\ wopen[Out(p)]
           /\ Framed(Out(p))
           /\ ropen[Out(p)] => InStep(Out(p))
  <1>1. Out(p) \in Links /\ Sender(Out(p)) = p /\ Receiver(Out(p)) # p
    BY LinkEnds DEF TypeOK, Out, Sender
  <1>2. wopen[Out(p)] /\ Framed(Out(p))
    BY <1>1, FramingByLink DEF Handshake, EndIsFinal, InSend
  <1> QED
    BY <1>1, <1>2 DEF Framed

\* The links that the write leaves alone.
LEMMA OtherLinksKept ==
    ASSUME TypeOK, Framing, NEW p \in Ranks, pc[p] \in InSend,
           UNCHANGED <<ropen, wopen, list, call, calls, threadVars>>,
           pc'[p] \in InSend \cup {"user"},
           \A q \in Ranks \ {p} : pc'[q] = pc[q] /\ sent'[q] = sent[q],
           NEW l \in Links, l # Out(p), pipe'[l] = pipe[l]
    PROVE  Framed(l)'
  <1>1. Framed(l) /\ Scan(l)' = Scan(l)
    BY FramingByLink DEF Scan, threadVars
  <1>2. Attended(l)' <=> Attended(l)
    BY LinkEnds DEF Attended, InSend
  <1>3. \/ ~InMessage(l) /\ ~InMessage(l)'
        \/ LET q == Sender(l)
           IN pc'[q] = pc[q] /\ call'[q] = call[q] /\ calls'[q] = calls[q] /\ sent'[q] = sent[q]
    BY LinkEnds DEF InMessage, Out
  <1> QED
    BY <1>1, <1>2, <1>3, LinkKept

\* The link that gets a packet.
LEMMA LinkWritten ==
    ASSUME TypeOK, NEW l \in Links, Framed(l), ropen[l], NEW x \in PacketType,
           pipe'[l] = Append(pipe[l], x), UNCHANGED <<ropen, wopen, list, threadVars>>,
           Attended(l)' <=> Attended(l),
           x.kind = WrittenAs(AfterAll(Scan(l), pipe[l]).stage),
           InStep(l)'
    PROVE  Framed(l)'
  <1>1. Scan(l)' = Scan(l) /\ pipe[l] \in Seq(PacketType)
    BY DEF Scan, threadVars, TypeOK
  <1>2. Fits(Scan(l), pipe'[l])
    BY <1>1, FitsAppend DEF Framed
  <1> QED
    BY <1>1, <1>2 DEF Framed

LEMMA FramingSends ==
    ASSUME TypeOK, Handshake, Framing, NEW p \in Ranks, Sending(p)
    PROVE  Framing'
  <1>1. pc[p] \in InSend
    BY DEF Sending, SendCount, SendData, SendTag, SendFails, InSend
  <1>2. PICK l \in Links : l = Out(p)
    BY <1>1, WriterFramed
  <1> DEFINE scan == AfterAll(Scan(l), pipe[l])
             now == AfterAll(Scan(l)', pipe'[l])
  <1>3. /\ l \in Links /\ Sender(l) = p /\ Receiver(l) # p /\ Receiver(l) \in Ranks
        /\ wopen[l] /\ Framed(l) /\ (ropen[l] => InStep(l))
    BY <1>1, <1>2, WriterFramed, LinkEnds
  <1>4. /\ call[p] \in CallType /\ call[p].count \in Nat /\ call[p].tag \in Nat
        /\ calls[p] \in Nat /\ sent[p] \in Nat /\ pipe[l] \in Seq(PacketType)
    BY <1>3 DEF TypeOK, CallType
  <1>5. scan \in ScanType
    BY <1>3, ScanTyped
  <1>6. InMessage(l) <=> pc[p] \in {"send_data", "send_tag"}
    BY <1>3, <1>2 DEF InMessage
  <1>7. ASSUME NEW x \in PacketType, ropen[l], pipe' = [pipe EXCEPT ![l] = Append(@, x)],
               UNCHANGED <<ropen, wopen, list, call, calls, threadVars>>,
               pc'[p] \in InSend \cup {"user"},
               \A q \in Ranks \ {p} : pc'[q] = pc[q] /\ sent'[q] = sent[q],
               x.kind = WrittenAs(scan.stage),
               pc'[p] = "send_count" => sent'[p] = 0,
               now = Assemble(scan, x) => InStep(l)'
        PROVE  Framing'
    <2>1. pipe'[l] = Append(pipe[l], x) /\ Scan(l)' = Scan(l)
      BY <1>3, <1>7 DEF TypeOK, Scan, threadVars
    <2>2. now = Assemble(scan, x)
      BY <1>4, <2>1, ScannedAppend
    <2>3. Attended(l)' <=> Attended(l)
      BY <1>3, <1>7 DEF Attended
    <2>4. Framed(l)'
      BY <1>3, <1>7, <2>1, <2>2, <2>3, LinkWritten
    <2>5. ASSUME NEW k \in Links, k # l  PROVE Framed(k)'
      <3>1. pipe'[k] = pipe[k]
        BY <1>3, <1>7, <2>5 DEF TypeOK
      <3> QED
        BY <1>1, <1>7, <1>2, <2>5, <3>1, OtherLinksKept
    <2>6. \A q \in Ranks : pc'[q] = "send_count" => sent'[q] = 0
      BY <1>7, FramingByLink
    <2> QED
      BY <2>4, <2>5, <2>6, FramingByLink
  <1>8. CASE SendCount(p)
    <2> DEFINE x == Packet("count", call[p].count)
    <2>1. /\ x \in PacketType /\ x.kind = "count" /\ x.val = call[p].count
      BY <1>4 DEF Packet, PacketType
    <2>2. /\ ropen[l] /\ pipe' = [pipe EXCEPT ![l] = Append(@, x)]
          /\ UNCHANGED <<ropen, wopen, list, call, calls, sent, threadVars>>
          /\ pc[p] = "send_count" /\ sent[p] = 0
          /\ pc' = [pc EXCEPT ![p] = IF call[p].count = 0 THEN "send_tag" ELSE "send_data"]
      BY <1>8, <1>2, FramingByLink DEF SendCount, Write, Goto, sharedVars
    <2>3. scan.stage = "count"
      BY <1>3, <1>6, <2>2 DEF InStep
    <2>4. Assemble(scan, x) = [stage |-> IF x.val = 0 THEN "tag" ELSE "data",
                               buf |-> [count |-> x.val, tag |-> 0, data |-> <<>>],
                               done |-> scan.done]
      <3> HIDE DEF scan, x
      <3> QED
        BY <1>5, <2>1, <2>3, AssembleForms
    <2>5. pc'[p] = (IF call[p].count = 0 THEN "send_tag" ELSE "send_data") /\ InMessage(l)'
      BY <1>3, <1>2, <2>2 DEF TypeOK, InMessage, Out
    <2>6. Written(p)' = [count |-> call[p].count, tag |-> 0, data |-> <<>>]
      <3>1. [i \in 1 .. 0 |-> calls[p]] = <<>>
        OBVIOUS
      <3> QED
        BY <2>2, <3>1 DEF Written
    <2>7. now = Assemble(scan, x) => InStep(l)'
      <3> SUFFICES ASSUME now = Assemble(scan, x)  PROVE InStep(l)'
        OBVIOUS
      <3> HIDE DEF scan, x
      <3>1. now.buf = Written(p)' /\ now.stage = IF call[p].count = 0 THEN "tag" ELSE "data"
        BY <2>1, <2>4, <2>6
      <3>2. /\ pc'[p] = "send_data" => now.stage = "data" /\ sent'[p] < call'[p].count
            /\ pc'[p] = "send_tag" => now.stage = "tag" /\ sent'[p] = call'[p].count
        BY <1>4, <2>2, <2>5, <3>1
      <3> QED
        BY <1>3, <2>5, <3>1, <3>2 DEF InStep
    <2>8. /\ pc'[p] \in InSend \cup {"user"} /\ pc'[p] # "send_count"
          /\ \A q \in Ranks \ {p} : pc'[q] = pc[q] /\ sent'[q] = sent[q]
      BY <2>2, <2>5 DEF InSend, TypeOK
    <2> HIDE DEF x, scan
    <2> QED
      BY <1>7, <2>1, <2>2, <2>3, <2>7, <2>8 DEF WrittenAs
  <1>9. CASE SendData(p)
    <2> DEFINE x == Packet("chunk", calls[p])
               data == [i \in 1 .. sent[p] |-> calls[p]]
    <2>1. /\ x \in PacketType /\ x.kind = "chunk" /\ x.val = calls[p]
      BY <1>4 DEF Packet, PacketType
    <2>2. /\ ropen[l] /\ pipe' = [pipe EXCEPT ![l] = Append(@, x)]
          /\ UNCHANGED <<ropen, wopen, list, call, calls, threadVars>>
          /\ pc[p] = "send_data" /\ sent' = [sent EXCEPT ![p] = @ + 1]
          /\ pc' = [pc EXCEPT ![p] = IF sent[p] + 1 < call[p].count THEN "send_data" ELSE "send_tag"]
      BY <1>9, <1>2 DEF SendData, Write, Goto, sharedVars
    <2>3. /\ scan.stage = "data" /\ sent[p] < call[p].count
          /\ scan.buf = [count |-> call[p].count, tag |-> 0, data |-> data]
      BY <1>3, <1>6, <2>2 DEF InStep, Written
    <2>4. Assemble(scan, x) = [stage |-> IF Len(data) + 1 < call[p].count THEN "data" ELSE "tag",
                               buf |-> [count |-> call[p].count, tag |-> 0, data |-> Append(data, x.val)],
                               done |-> scan.done]
      <3> HIDE DEF scan, x, data
      <3>1. scan.buf.count = call[p].count /\ scan.buf.tag = 0 /\ scan.buf.data = data
        BY <2>3
      <3>2. Assemble(scan, x) =
                [stage |-> IF Len(scan.buf.data) + 1 < scan.buf.count THEN "data" ELSE "tag",
                 buf |-> [count |-> scan.buf.count, tag |-> scan.buf.tag,
                          data |-> Append(scan.buf.data, x.val)],
                 done |-> scan.done]
        BY <1>5, <2>1, <2>3, AssembleForms
      <3> QED
        BY <3>1, <3>2
    <2>5. /\ pc'[p] = (IF sent[p] + 1 < call[p].count THEN "send_data" ELSE "send_tag") /\ InMessage(l)'
          /\ sent'[p] = sent[p] + 1
      BY <1>3, <1>2, <2>2 DEF TypeOK, InMessage, Out
    <2>6. Len(data) = sent[p] /\ Written(p)' = [count |-> call[p].count, tag |-> 0, data |-> Append(data, x.val)]
      <3>1. Len(data) = sent[p] /\ Append(data, calls[p]) = [i \in 1 .. sent[p] + 1 |-> calls[p]]
        BY <1>4, ChunkAdded
      <3>2. Written(p)' = [count |-> call[p].count, tag |-> 0, data |-> [i \in 1 .. sent[p] + 1 |-> calls[p]]]
        BY <2>2, <2>5 DEF Written
      <3> QED
        BY <2>1, <3>1, <3>2
    <2>7. now = Assemble(scan, x) => InStep(l)'
      <3> SUFFICES ASSUME now = Assemble(scan, x)  PROVE InStep(l)'
        OBVIOUS
      <3> HIDE DEF scan, x, data
      <3>1. now.buf = Written(p)' /\ now.stage = IF sent[p] + 1 < call[p].count THEN "data" ELSE "tag"
        BY <2>4, <2>6
      <3>2. /\ pc'[p] = "send_data" => now.stage = "data" /\ sent'[p] < call'[p].count
            /\ pc'[p] = "send_tag" => now.stage = "tag" /\ sent'[p] = call'[p].count
        BY <1>4, <2>2, <2>3, <2>5, <3>1
      <3> QED
        BY <1>3, <2>5, <3>1, <3>2 DEF InStep
    <2>8. /\ pc'[p] \in InSend \cup {"user"} /\ pc'[p] # "send_count"
          /\ \A q \in Ranks \ {p} : pc'[q] = pc[q] /\ sent'[q] = sent[q]
      BY <2>2, <2>5 DEF InSend, TypeOK
    <2> HIDE DEF x, scan
    <2> QED
      BY <1>7, <2>1, <2>2, <2>3, <2>7, <2>8 DEF WrittenAs
  <1>10. CASE SendTag(p)
    <2> DEFINE x == Packet("tag", call[p].tag)
    <2>1. /\ x \in PacketType /\ x.kind = "tag"
      BY <1>4 DEF Packet, PacketType
    <2>2. /\ ropen[l] /\ pipe' = [pipe EXCEPT ![l] = Append(@, x)]
          /\ UNCHANGED <<ropen, wopen, list, call, calls, sent, threadVars>>
          /\ pc[p] = "send_tag" /\ pc' = [pc EXCEPT ![p] = "user"]
      BY <1>10, <1>2 DEF SendTag, Write, Finish, Goto, sharedVars
    <2>3. scan.stage = "tag"
      BY <1>3, <1>6, <2>2 DEF InStep
    <2>4. Assemble(scan, x).stage = "count"
      <3> HIDE DEF scan, x
      <3> DEFINE done == Append(scan.done, [count |-> scan.buf.count, tag |-> x.val,
                                            data |-> scan.buf.data])
      <3>1. Assemble(scan, x) = [stage |-> "count", buf |-> NoBuf, done |-> done]
        BY <1>5, <2>1, <2>3, AssembleForms
      <3> HIDE DEF done
      <3> QED
        BY <3>1
    <2>5. pc'[p] = "user" /\ ~InMessage(l)'
      BY <1>3, <1>2, <2>2 DEF TypeOK, InMessage
    <2>6. now = Assemble(scan, x) => InStep(l)'
      <3> HIDE DEF scan, x
      <3> QED
        BY <1>3, <2>4, <2>5 DEF InStep
    <2>7. \A q \in Ranks \ {p} : pc'[q] = pc[q] /\ sent'[q] = sent[q]
      BY <2>2 DEF TypeOK
    <2> HIDE DEF x, scan
    <2> QED
      BY <1>7, <2>1, <2>2, <2>3, <2>5, <2>6, <2>7 DEF WrittenAs
  <1>11. CASE SendFails(p)
    <2>1. ~ropen[l] /\ UNCHANGED <<pipeVars, call, calls, sent, list, threadVars>>
          /\ pc' = [pc EXCEPT ![p] = "user"]
      BY <1>11, <1>2 DEF SendFails, Finish, Goto, sharedVars
    <2>2. ASSUME NEW k \in Links  PROVE Framed(k)'
      <3>1. Framed(k) /\ Scan(k)' = Scan(k)
        BY <2>1, FramingByLink DEF Scan, threadVars
      <3>2. Attended(k)' <=> Attended(k)
        BY <1>1, <2>1 DEF Attended, InSend, TypeOK
      <3>3. wopen'[k] /\ ropen[k] =>
                \/ ~InMessage(k) /\ ~InMessage(k)'
                \/ LET q == Sender(k)
                   IN pc'[q] = pc[q] /\ call'[q] = call[q] /\ calls'[q] = calls[q] /\ sent'[q] = sent[q]
        BY <1>2, <2>1, LinkEnds DEF InMessage, Out, TypeOK
      <3> QED
        BY <2>1, <3>1, <3>2, <3>3, LinkKept DEF pipeVars
    <2>3. \A q \in Ranks : pc'[q] = "send_count" => sent'[q] = 0
      BY <2>1, FramingByLink DEF TypeOK
    <2> QED
      BY <2>2, <2>3, FramingByLink
  <1> QED
    BY <1>8, <1>9, <1>10, <1>11 DEF Sending

-----------------------------------------------------------------------------
\* What a read does to the scan of its link.
LEMMA ReadAssembles ==
    ASSUME TypeOK, NEW l \in Links, ReadCount(l) \/ ReadData(l) \/ ReadTag(l)
    PROVE  /\ pipe[l] # <<>> /\ Head(pipe[l]) \in PacketType
           /\ pipe' = [pipe EXCEPT ![l] = Tail(@)]
           /\ Scan(l)' = Assemble(Scan(l), Head(pipe[l]))
           /\ \A k \in Links \ {l} : rpc'[k] = rpc[k] /\ rbuf'[k] = rbuf[k]
           /\ UNCHANGED <<mainVars, wopen, ropen, sharedVars>>
  <1> DEFINE x == Head(pipe[l])
  <1>1. /\ pipe[l] # <<>> /\ pipe' = [pipe EXCEPT ![l] = Tail(@)]
        /\ \A k \in Links \ {l} : rpc'[k] = rpc[k] /\ rbuf'[k] = rbuf[k]
        /\ UNCHANGED <<mainVars, wopen, ropen, sharedVars>>
    BY DEF ReadCount, ReadData, ReadTag, Read, ReaderAt, TypeOK
  <1>2. x \in PacketType
    <2>1. pipe[l] \in Seq(PacketType)
      BY DEF TypeOK
    <2> QED
      BY <1>1, <2>1, HeadTailProperties
  <1>3. Scan(l) \in ScanType /\ rbuf[l] \in Message
    BY ScanTyped DEF TypeOK
  <1> HIDE DEF x
  <1>4. CASE ReadCount(l)
    <2>1. rpc[l] = "count" /\ rpc'[l] = (IF x.val = 0 THEN "tag" ELSE "data")
          /\ rbuf'[l] = [count |-> x.val, tag |-> 0, data |-> <<>>]
      BY <1>4 DEF ReadCount, ReaderAt, TypeOK, x
    <2>2. Scan(l).stage = "count" /\ Scan(l).done = <<>>
      BY <2>1 DEF Scan
    <2>3. Assemble(Scan(l), x) = [stage |-> IF x.val = 0 THEN "tag" ELSE "data",
                                  buf |-> [count |-> x.val, tag |-> 0, data |-> <<>>],
                                  done |-> <<>>]
      BY <1>2, <1>3, <2>2, AssembleForms
    <2> QED
      BY <1>1, <1>2, <2>1, <2>3 DEF Scan, x
  <1>5. CASE ReadData(l)
    <2>1. rpc[l] = "data" /\ rpc'[l] = (IF Len(rbuf[l].data) + 1 < rbuf[l].count THEN "data" ELSE "tag")
          /\ rbuf'[l] = [rbuf[l] EXCEPT !.data = Append(@, x.val)]
      BY <1>5 DEF ReadData, MoreChunks, ReaderAt, TypeOK, x
    <2>2. Scan(l).stage = "data" /\ Scan(l).done = <<>> /\ Scan(l).buf = rbuf[l]
      BY <2>1 DEF Scan
    <2>3. rbuf'[l] = [count |-> rbuf[l].count, tag |-> rbuf[l].tag, data |-> Append(rbuf[l].data, x.val)]
      <3>1. ASSUME NEW b \in [count: Nat, tag: Nat, data: Seq(Nat)], NEW w
            PROVE  [b EXCEPT !.data = w] = [count |-> b.count, tag |-> b.tag, data |-> w]
        OBVIOUS
      <3> QED
        BY <1>3, <2>1, <3>1 DEF Message
    <2>4. Scan(l)' = [stage |-> rpc'[l], buf |-> rbuf'[l], done |-> <<>>]
      BY <2>1 DEF Scan
    <2>5. Assemble(Scan(l), x) =
              [stage |-> IF Len(Scan(l).buf.data) + 1 < Scan(l).buf.count THEN "data" ELSE "tag",
               buf |-> [count |-> Scan(l).buf.count, tag |-> Scan(l).buf.tag,
                        data |-> Append(Scan(l).buf.data, x.val)],
               done |-> Scan(l).done]
      BY <1>2, <1>3, <2>2, AssembleForms
    <2>6. Assemble(Scan(l), x) = [stage |-> rpc'[l], buf |-> rbuf'[l], done |-> <<>>]
      BY <2>1, <2>2, <2>3, <2>5
    <2> QED
      BY <1>1, <1>2, <2>4, <2>6 DEF x
  <1>6. CASE ReadTag(l)
    <2>1. rpc[l] = "tag" /\ rpc'[l] = "save" /\ rbuf'[l] = [rbuf[l] EXCEPT !.tag = x.val]
      BY <1>6 DEF ReadTag, ReaderAt, TypeOK, x
    <2>2. Scan(l) = [stage |-> "tag", buf |-> rbuf[l], done |-> <<>>]
      BY <2>1 DEF Scan
    <2>3. Assemble(Scan(l), x) = [stage |-> "count", buf |-> NoBuf, done |-> <<rbuf'[l]>>]
      <3>1. Append(<<>>, rbuf'[l]) = <<rbuf'[l]>>
        OBVIOUS
      <3> HIDE <2>1
      <3>2. Assemble(Scan(l), x) = [Scan(l) EXCEPT !.stage = "count", !.buf = NoBuf,
                                       !.done = Append(<<>>, [rbuf[l] EXCEPT !.tag = x.val])]
        BY <2>2 DEF Assemble
      <3> QED
        BY <2>1, <2>2, <3>1, <3>2
    <2> QED
      BY <1>1, <1>2, <2>1, <2>3 DEF Scan, x
  <1> QED
    BY <1>4, <1>5, <1>6

\* What every other step of a Reader does to it.
LEMMA ReaderScans ==
    ASSUME TypeOK, Handshake, NEW l \in Links, ReaderStep(l),
           ~(ReadCount(l) \/ ReadData(l) \/ ReadTag(l))
    PROVE  /\ UNCHANGED <<pipeVars, call, calls, sent, ret>>
           /\ \A k \in Links \ {l} : Scan(k)' = Scan(k) /\ list'[k] = list[k]
           /\ \/ Scan(l)' = Scan(l) /\ list'[l] = list[l]
              \/ /\ Scan(l) = After(<<rbuf[l]>>, Scan(l)') /\ list'[l] = Append(list[l], rbuf[l])
                 /\ rpc[l] = "save" /\ rpc'[l] = "notify" /\ UNCHANGED <<pc, rbuf>>
              \/ /\ pipe[l] = <<>> /\ ~wopen[l] /\ list'[l] = list[l]
                 /\ Scan(l).done = <<>> /\ Scan(l)'.done = <<>>
           /\ \A q \in Ranks : pc'[q] = pc[q] \/ (pc[q] = "blocked" /\ pc'[q] = "relock")
  <1>1. CASE ReadEof(l)
    <2>1. /\ pipe[l] = <<>> /\ ~wopen[l] /\ rpc[l] \in {"count", "data", "tag"} /\ rpc'[l] = "cleanup"
          /\ \A k \in Links \ {l} : rpc'[k] = rpc[k] /\ rbuf'[k] = rbuf[k]
          /\ UNCHANGED <<mainVars, pipeVars, sharedVars>>
      BY <1>1 DEF ReadEof, AtEof, ReaderAt, TypeOK
    <2> QED
      BY <2>1 DEF Scan, mainVars, sharedVars
  <1>2. CASE SaveMessage(l)
    <2>1. /\ rpc[l] = "save" /\ rpc'[l] = "notify" /\ list' = [list EXCEPT ![l] = Append(@, rbuf[l])]
          /\ \A k \in Links \ {l} : rpc'[k] = rpc[k] /\ list'[k] = list[k]
          /\ UNCHANGED <<mainVars, pipeVars, rbuf>>
      BY <1>2 DEF SaveMessage, ReaderAt, TypeOK
    <2>2. Scan(l)' = [stage |-> "count", buf |-> NoBuf, done |-> <<>>]
          /\ Scan(l) = [stage |-> "count", buf |-> NoBuf, done |-> <<rbuf[l]>>]
      BY <2>1 DEF Scan
    <2>3. <<rbuf[l]>> \o <<>> = <<rbuf[l]>>
      OBVIOUS
    <2>4. Scan(l) = After(<<rbuf[l]>>, Scan(l)')
      BY <2>2, <2>3 DEF After
    <2>5. list'[l] = Append(list[l], rbuf[l])
      BY <2>1 DEF TypeOK
    <2> QED
      BY <2>1, <2>4, <2>5 DEF Scan, mainVars
  <1>3. CASE NotifyReceiver(l)
    <2>1. /\ rpc[l] = "notify" /\ rpc'[l] = "count"
          /\ \A k \in Links \ {l} : rpc'[k] = rpc[k] /\ rbuf'[k] = rbuf[k]
          /\ UNCHANGED <<call, calls, sent, ret, pipeVars, list>>
          /\ \A q \in Ranks : pc'[q] = pc[q] \/ (pc[q] = "blocked" /\ pc'[q] = "relock")
      BY <1>3 DEF NotifyReceiver, ReaderAt, Signal, TypeOK
    <2> QED
      BY <2>1 DEF Scan
  <1>4. CASE MarkFinished(l)
    <2>1. /\ rpc[l] = "cleanup" /\ rpc'[l] = "finished"
          /\ \A k \in Links \ {l} : rpc'[k] = rpc[k]
          /\ UNCHANGED <<mainVars, pipeVars, rbuf, list>>
      BY <1>4 DEF MarkFinished, ReaderAt, TypeOK
    <2> QED
      BY <2>1 DEF Scan, mainVars
  <1>5. CASE CheckWaiting(l)
    <2>1. /\ rpc[l] = "finished" /\ rpc'[l] \in {"signal", "exit"}
          /\ \A k \in Links \ {l} : rpc'[k] = rpc[k]
          /\ UNCHANGED <<mainVars, pipeVars, rbuf, sharedVars>>
      BY <1>5 DEF CheckWaiting, ReaderAt, TypeOK
    <2> QED
      BY <2>1 DEF Scan, mainVars, sharedVars
  <1>6. CASE SignalFinished(l)
    <2>1. /\ rpc[l] = "signal" /\ rpc'[l] = "exit"
          /\ \A k \in Links \ {l} : rpc'[k] = rpc[k]
          /\ UNCHANGED <<call, calls, sent, ret, pipeVars, rbuf, sharedVars>>
          /\ \A q \in Ranks : pc'[q] = pc[q] \/ (pc[q] = "blocked" /\ pc'[q] = "relock")
      BY <1>6 DEF SignalFinished, Signal, ReaderAt, TypeOK
    <2> QED
      BY <2>1 DEF Scan, sharedVars
  <1> QED
    BY <1>1, <1>2, <1>3, <1>4, <1>5, <1>6 DEF ReaderStep

LEMMA FramingReader ==
    ASSUME TypeOK, Handshake, Framing, NEW l \in Links, ReaderStep(l)
    PROVE  Framing'
  <1>1. CASE ReadCount(l) \/ ReadData(l) \/ ReadTag(l)
    <2> DEFINE x == Head(pipe[l])
    <2>1. /\ pipe[l] # <<>> /\ pipe' = [pipe EXCEPT ![l] = Tail(@)]
          /\ Scan(l)' = Assemble(Scan(l), x)
          /\ \A k \in Links \ {l} : Scan(k)' = Scan(k)
          /\ UNCHANGED <<pc, call, calls, sent, wopen, ropen, list>>
      BY <1>1, ReadAssembles DEF Scan, mainVars, sharedVars
    <2>2. pipe[l] \in Seq(PacketType) /\ pipe'[l] = Tail(pipe[l]) /\ Framed(l)
      BY <2>1, FramingByLink DEF TypeOK
    <2> HIDE DEF x
    <2>3. Fits(Scan(l)', pipe'[l])
      BY <2>1, <2>2, FitsTail DEF Framed, x
    <2>4. AfterAll(Scan(l)', pipe'[l]) = AfterAll(Scan(l), pipe[l])
      BY <2>1, <2>2, ScannedTail DEF x
    <2>5. InStep(l)' <=> InStep(l)
      BY <2>1, <2>4 DEF InStep, InMessage, Written, Out
    <2>6. Framed(l)'
      BY <2>1, <2>2, <2>3, <2>5 DEF Framed, Attended
    <2>7. ASSUME NEW k \in Links, k # l  PROVE Framed(k)'
      <3>1. Framed(k) /\ pipe'[k] = pipe[k] /\ Scan(k)' = Scan(k)
        BY <2>1, <2>7, FramingByLink DEF TypeOK
      <3> QED
        BY <2>1, <3>1, LinkKept DEF Attended
    <2> QED
      BY <2>1, <2>6, <2>7, FramingByLink
  <1>2. CASE ~(ReadCount(l) \/ ReadData(l) \/ ReadTag(l))
    <2>1. /\ UNCHANGED <<pipeVars, call, calls, sent, ret>>
          /\ \A k \in Links \ {l} : Scan(k)' = Scan(k) /\ list'[k] = list[k]
          /\ \A q \in Ranks : pc'[q] = pc[q] \/ (pc[q] = "blocked" /\ pc'[q] = "relock")
      BY <1>2, ReaderScans
    <2>2. ASSUME NEW k \in Links
          PROVE  /\ Framed(k) /\ UNCHANGED <<pipe, ropen, wopen>>
                 /\ Attended(k)' <=> Attended(k)
                 /\ \/ ~InMessage(k) /\ ~InMessage(k)'
                    \/ LET q == Sender(k)
                       IN pc'[q] = pc[q] /\ call'[q] = call[q] /\ calls'[q] = calls[q] /\ sent'[q] = sent[q]
      BY <2>1, LinkEnds, FramingByLink DEF pipeVars, Attended, InMessage
    <2>3. ASSUME NEW k \in Links, Scan(k)' = Scan(k), list'[k] = list[k]
          PROVE  Framed(k)'
      BY <2>2, <2>3, LinkKept
    <2>4. Framed(l)'
      <3>1. CASE Scan(l)' = Scan(l) /\ list'[l] = list[l]
        BY <2>3, <3>1
      <3>2. CASE /\ Scan(l) = After(<<rbuf[l]>>, Scan(l)') /\ list'[l] = Append(list[l], rbuf[l])
                 /\ rpc[l] = "save" /\ rpc'[l] = "notify" /\ UNCHANGED <<pc, rbuf>>
        <4> DEFINE first == <<rbuf[l]>>
                   next == Scan(l)'
        <4>1. next \in ScanType /\ first \in Seq(Message) /\ pipe[l] \in Seq(PacketType)
          <5>1. rbuf[l] \in Message /\ NoBuf \in Message /\ <<>> \in Seq(Message)
            BY ValuesTyped DEF TypeOK
          <5>2. next = [stage |-> "count", buf |-> NoBuf, done |-> <<>>]
            BY <3>2 DEF Scan
          <5> QED
            BY <5>1, <5>2 DEF TypeOK, ScanType
        <4>2. Scan(l) = After(first, next) /\ pipe'[l] = pipe[l]
          BY <2>2, <3>2
        <4>3. Framed(l)
          BY <2>2
        <4> HIDE DEF first, next
        <4>4. Fits(next, pipe[l])
          BY <4>1, <4>2, <4>3, FitsAfter DEF Framed
        <4>5. /\ AfterAll(Scan(l), pipe[l]).stage = AfterAll(next, pipe[l]).stage
              /\ AfterAll(Scan(l), pipe[l]).buf = AfterAll(next, pipe[l]).buf
          <5>1. AfterAll(Scan(l), pipe[l]) = After(first, AfterAll(next, pipe[l]))
            BY <4>1, <4>2, ScannedAfter
          <5> QED
            BY <5>1 DEF After
        <4>6. InStep(l) => InStep(l)'
          BY <2>1, <3>2, <4>2, <4>5 DEF InStep, InMessage, Written, Out, next
        <4>7. ropen[l]
          <5>1. Alive(Receiver(l)) /\ pc[Receiver(l)] # "closed"
            BY <3>2, LinkEnds DEF Handshake, EndIsFinal, Alive
          <5> QED
            BY <4>3, <5>1 DEF Framed, Attended, Alive
        <4> QED
          BY <2>2, <4>2, <4>3, <4>4, <4>6, <4>7 DEF Framed, next
      <3>3. CASE pipe[l] = <<>> /\ ~wopen[l] /\ list'[l] = list[l]
        <4>1. Len(pipe'[l]) = 0
          BY <2>2, <3>3
        <4> QED
          BY <2>2, <3>3, <4>1 DEF Framed, Fits
      <3> QED
        BY <1>2, <3>1, <3>2, <3>3, ReaderScans
    <2>5. \A q \in Ranks : pc'[q] = "send_count" => sent'[q] = 0
      BY <2>1, FramingByLink
    <2> QED
      BY <2>1, <2>3, <2>4, <2>5, FramingByLink
  <1> QED
    BY <1>1, <1>2

LEMMA FramingFinalizes ==
    ASSUME TypeOK, Handshake, Framing, NEW p \in Ranks, Finalizing(p)
    PROVE  Framing'
  <1>1. CASE CloseWriting(p)
    <2>1. /\ UNCHANGED <<pc, call, calls, sent, pipe, ropen, threadVars, list>>
          /\ \A l \in Links : wopen'[l] => wopen[l]
      BY <1>1 DEF CloseWriting, Outgoing, mainVars, sharedVars, TypeOK
    <2>2. ASSUME NEW l \in Links  PROVE Framed(l)'
      <3>1. Framed(l) /\ Scan(l)' = Scan(l) /\ (Attended(l)' <=> Attended(l))
        BY <2>1, FramingByLink DEF Scan, threadVars, Attended
      <3> QED
        BY <2>1, <3>1, LinkKept
    <2> QED
      BY <2>1, <2>2, FramingByLink
  <1>2. CASE JoinReaders(p)
    <2>1. /\ pc[p] = "closing" /\ pc' = [pc EXCEPT ![p] = "closed"]
          /\ UNCHANGED <<call, calls, sent, wopen, threadVars>> /\ Release(p)
      BY <1>2 DEF JoinReaders, Goto
    <2>2. ASSUME NEW l \in Links  PROVE Framed(l)'
      <3>1. Framed(l) /\ Scan(l)' = Scan(l)
        BY <2>1, FramingByLink DEF Scan, threadVars
      <3>2. CASE Receiver(l) = p
        <4>1. ~ropen'[l] /\ pipe'[l] = <<>> /\ list'[l] = <<>> /\ pc'[p] = "closed"
          BY <2>1, <3>2 DEF Release, Incoming, TypeOK
        <4>2. Len(pipe'[l]) = 0
          BY <4>1
        <4> QED
          BY <3>2, <4>1, <4>2 DEF Framed, Attended, Fits
      <3>3. CASE Receiver(l) # p
        <4>1. /\ pipe'[l] = pipe[l] /\ ropen'[l] = ropen[l] /\ list'[l] = list[l]
              /\ pc'[Receiver(l)] = pc[Receiver(l)]
          BY <2>1, <3>3, LinkEnds DEF Release, Incoming, TypeOK
        <4>2. (Attended(l)' <=> Attended(l)) /\ (InMessage(l)' <=> InMessage(l))
              /\ (InMessage(l) => pc'[Sender(l)] = pc[Sender(l)])
          BY <2>1, <4>1, LinkEnds DEF Attended, InMessage, Out, TypeOK
        <4> QED
          BY <2>1, <3>1, <4>1, <4>2, LinkKept
      <3> QED
        BY <3>2, <3>3
    <2>3. \A q \in Ranks : pc'[q] = "send_count" => sent'[q] = 0
      BY <2>1, FramingByLink DEF TypeOK
    <2> QED
      BY <2>2, <2>3, FramingByLink
  <1> QED
    BY <1>1, <1>2 DEF Finalizing

LEMMA FramingStep == TypeOK /\ Handshake /\ Framing /\ [Next]_vars => Framing'
  <1> SUFFICES ASSUME TypeOK, Handshake, Framing, [Next]_vars  PROVE Framing'
    OBVIOUS
  <1>1. CASE UNCHANGED vars
    BY <1>1 DEF vars, Framing, Understood, InStep, InMessage, Written, Scan, Out
  <1>2. ASSUME NEW p \in Ranks, MainStep(p) \/ UserStep(p)  PROVE Framing'
    BY <1>2, FramingUser, FramingSends, FramingReceives, FramingFinalizes DEF MainStep
  <1>3. ASSUME NEW l \in Links, ReaderStep(l)  PROVE Framing'
    BY <1>3, FramingReader
  <1> QED
    BY <1>1, <1>2, <1>3 DEF Next

(***************************************************************************)
(* FramingHolds: for any number of processes, any program and any size of  *)
(* the pipes, a Reader takes every packet for what it was written as, and  *)
(* a message is assembled from the packets of one MIMPI_Send.              *)
(***************************************************************************)
THEOREM FramingHolds == Spec => []Framing
  BY FramingInit, FramingStep, Typing, HandshakeHolds, PTL DEF Spec

-----------------------------------------------------------------------------
(***************************************************************************)
(* The refinement.  Mailbox uses the operators of Messages under its own   *)
(* names.                                                                  *)
(***************************************************************************)
LEMMA SameMessages ==
    /\ M!Ranks = Ranks /\ M!Links = Links
    /\ \A l : M!Sender(l) = Sender(l) /\ M!Receiver(l) = Receiver(l)
    /\ \A c : M!Rejection(c) = Rejection(c)
    /\ \A s, c : M!HasMatch(s, c) = HasMatch(s, c) /\ M!FirstMatch(s, c) = FirstMatch(s, c)
    /\ \A code : M!Return(code) = Return(code)
    /\ M!NoCall = NoCall /\ M!NoRet = NoRet
    /\ \A p : M!Out(p) = Out(p) /\ M!In(p) = In(p)
    /\ \A s, i : M!RemoveAt(s, i) = RemoveAt(s, i)
  <1>1. M!Ranks = Ranks /\ M!Links = Links
    BY DEF M!Ranks, Ranks, M!Links, Links
  <1>2. \A l : M!Sender(l) = Sender(l) /\ M!Receiver(l) = Receiver(l)
    BY DEF M!Sender, Sender, M!Receiver, Receiver
  <1>3. \A c : M!Rejection(c) = Rejection(c)
    BY DEF M!Rejection, Rejection
  <1>4. \A m, c : M!Matches(m, c) = Matches(m, c)
    BY DEF M!Matches, Matches, M!MIMPI_ANY_TAG, MIMPI_ANY_TAG
  <1>5. \A s, c : M!HasMatch(s, c) = HasMatch(s, c)
    BY <1>4 DEF M!HasMatch, HasMatch
  <1>6. ASSUME NEW s, NEW c  PROVE M!FirstMatch(s, c) = FirstMatch(s, c)
    <2> DEFINE I == {i \in 1 .. Len(s) : Matches(s[i], c)}
               J == {i \in 1 .. Len(s) : M!Matches(s[i], c)}
    <2>1. FirstMatch(s, c) = IF I # {} THEN Min(I) ELSE 0
      BY Zenon DEF FirstMatch, SelectInSeq
    <2>2. M!FirstMatch(s, c) = IF J # {} THEN M!Min(J) ELSE 0
      BY Zenon DEF M!FirstMatch, M!SelectInSeq
    <2>3. I = J
      BY <1>4
    <2> HIDE DEF I, J
    <2>4. M!Min(J) = Min(J)
      BY Zenon DEF Min, M!Min
    <2> QED
      BY <2>1, <2>2, <2>3, <2>4
  <1>7. /\ \A code : M!Return(code) = Return(code)
        /\ M!NoCall = NoCall /\ M!NoRet = NoRet
    BY DEF M!Return, Return, M!NoCall, NoCall, M!NoRet, NoRet
  <1>8. \A p : M!Out(p) = Out(p) /\ M!In(p) = In(p)
    BY DEF M!Out, Out, M!In, In
  <1>9. \A s, i : M!RemoveAt(s, i) = RemoveAt(s, i)
    BY DEF M!RemoveAt, RemoveAt
  <1> QED
    BY <1>1, <1>2, <1>3, <1>5, <1>6, <1>7, <1>8, <1>9

LEMMA Phases ==
    /\ Phase("start") = "outside" /\ Phase("user") = "idle"
    /\ Phase("closing") = "leaving" /\ Phase("closed") = "left" /\ Phase("dead") = "dead"
    /\ \A x \in InSend : Phase(x) = "sending"
    /\ \A x \in InRecv : Phase(x) = "receiving"
    /\ \A x \in PcLabels : /\ Phase(x) = "idle" <=> x = "user"
                           /\ Phase(x) = "left" <=> x = "closed"
                           /\ Phase(x) = "dead" <=> x = "dead"
  BY DEF Phase, InSend, InRecv, InWait, PcLabels

Doing == [p \in Ranks |-> Phase(pc[p])]

LEMMA PhaseMoves ==
    ASSUME TypeOK, NEW p \in Ranks, NEW label, pc' = [pc EXCEPT ![p] = label]
    PROVE  Doing' = [Doing EXCEPT ![p] = Phase(label)]
  BY DEF Doing, TypeOK

LEMMA BoxMoves ==
    ASSUME NEW l \in Links, NEW b, Box'[l] = b, \A k \in Links \ {l} : Box'[k] = Box[k]
    PROVE  Box' = [Box EXCEPT ![l] = b]
  <1>1. /\ Box = [k \in Links |-> list[k] \o InFlight(k)]
        /\ Box' = [k \in Links |-> (list[k] \o InFlight(k))']
    BY DEF Box
  <1> QED
    BY <1>1

LEMMA BoxStays ==
    ASSUME \A k \in Links : Box'[k] = Box[k]
    PROVE  Box' = Box
  BY DEF Box

LEMMA BoxTyped ==
    ASSUME TypeOK, NEW l \in Links
    PROVE  /\ Box[l] = list[l] \o InFlight(l)
           /\ list[l] \in Seq(Message) /\ InFlight(l) \in Seq(Message) /\ Box[l] \in Seq(Message)
  <1>1. InFlight(l) \in Seq(Message)
    BY ScanTyped DEF InFlight, ScanType
  <1>2. list[l] \in Seq(Message)
    BY DEF TypeOK
  <1>3. Box[l] = list[l] \o InFlight(l)
    BY DEF Box
  <1> QED
    BY <1>1, <1>2, <1>3

LEMMA BoxKept ==
    ASSUME NEW l \in Links, Scan(l)' = Scan(l), pipe'[l] = pipe[l], list'[l] = list[l]
    PROVE  Box'[l] = Box[l]
  BY DEF Box, InFlight

-----------------------------------------------------------------------------
\* The first message of a list that answers a call is the first of the box.
LEMMA FirstOfBox ==
    ASSUME NEW s \in Seq(Message), NEW d \in Seq(Message), NEW c, HasMatch(s, c)
    PROVE  /\ HasMatch(s \o d, c) /\ FirstMatch(s \o d, c) = FirstMatch(s, c)
           /\ FirstMatch(s, c) \in 1 .. Len(s)
           /\ (s \o d)[FirstMatch(s, c)] = s[FirstMatch(s, c)]
  <1> DEFINE t == s \o d
  <1>1. /\ t \in Seq(Message) /\ Len(s) \in Nat /\ Len(d) \in Nat /\ Len(t) = Len(s) + Len(d)
        /\ \A i \in 1 .. Len(s) : t[i] = s[i]
    BY ConcatProperties, LenProperties
  <1> HIDE DEF t
  <1>2. HasMatch(t, c)
    BY <1>1 DEF HasMatch
  <1> DEFINE i == FirstMatch(s, c)
             j == FirstMatch(t, c)
  <1>3. i \in 1 .. Len(s) /\ Matches(s[i], c) /\ \A k \in 1 .. i - 1 : ~Matches(s[k], c)
    BY FirstMatchFinds
  <1>4. j \in 1 .. Len(t) /\ Matches(t[j], c) /\ \A k \in 1 .. j - 1 : ~Matches(t[k], c)
    BY <1>1, <1>2, FirstMatchFinds
  <1> HIDE DEF i, j
  <1>5. ~(i < j)
    BY <1>1, <1>3, <1>4
  <1>6. ~(j < i)
    BY <1>1, <1>3, <1>4
  <1>7. i = j
    BY <1>1, <1>3, <1>4, <1>5, <1>6
  <1> QED
    BY <1>1, <1>2, <1>3, <1>7 DEF t, i, j

LEMMA RemoveFromBox ==
    ASSUME NEW s \in Seq(Message), NEW d \in Seq(Message), NEW i \in 1 .. Len(s)
    PROVE  RemoveAt(s \o d, i) = RemoveAt(s, i) \o d
  <1> DEFINE t == s \o d
             r == RemoveAt(s, i)
             u == r \o d
             v == RemoveAt(t, i)
  <1>1. /\ t \in Seq(Message) /\ Len(s) \in Nat \ {0} /\ Len(d) \in Nat /\ Len(t) = Len(s) + Len(d)
        /\ \A j \in 1 .. Len(s) + Len(d) : t[j] = IF j <= Len(s) THEN s[j] ELSE d[j - Len(s)]
    BY ConcatProperties, LenProperties
  <1> HIDE DEF t
  <1>2. /\ r \in Seq(Message) /\ Len(r) = Len(s) - 1
        /\ \A j \in 1 .. Len(s) - 1 : r[j] = IF j < i THEN s[j] ELSE s[j + 1]
    BY RemoveAtLeavesRest
  <1>3. /\ v \in Seq(Message) /\ Len(v) = Len(t) - 1
        /\ \A j \in 1 .. Len(t) - 1 : v[j] = IF j < i THEN t[j] ELSE t[j + 1]
    <2>1. i \in 1 .. Len(t)
      BY <1>1
    <2> QED
      BY <1>1, <2>1, RemoveAtLeavesRest
  <1> HIDE DEF r, v
  <1>4. /\ u \in Seq(Message) /\ Len(u) = Len(r) + Len(d)
        /\ \A j \in 1 .. Len(r) + Len(d) : u[j] = IF j <= Len(r) THEN r[j] ELSE d[j - Len(r)]
    BY <1>2, ConcatProperties
  <1> HIDE DEF u
  <1>5. Len(u) = Len(v)
    BY <1>1, <1>2, <1>3, <1>4
  <1>6. ASSUME NEW j \in 1 .. Len(u)  PROVE u[j] = v[j]
    <2>1. j \in 1 .. Len(s) + Len(d) - 1 /\ j \in Nat
      BY <1>1, <1>2, <1>4
    <2>2. u[j] = IF j <= Len(s) - 1 THEN (IF j < i THEN s[j] ELSE s[j + 1]) ELSE d[j - (Len(s) - 1)]
      BY <1>1, <1>2, <1>4, <2>1
    <2>3. v[j] = IF j < i THEN t[j] ELSE t[j + 1]
      BY <1>1, <1>3, <2>1
    <2>4. CASE j < i
      BY <1>1, <2>1, <2>2, <2>3, <2>4
    <2>5. CASE ~(j < i)
      <3>1. j + 1 \in 1 .. Len(s) + Len(d) /\ v[j] = t[j + 1] /\ (j + 1) - Len(s) = j - (Len(s) - 1)
        BY <1>1, <2>1, <2>3, <2>5
      <3> QED
        BY <1>1, <2>1, <2>2, <2>5, <3>1
    <2> QED
      BY <2>4, <2>5
  <1>7. u = v
    BY <1>3, <1>4, <1>5, <1>6, SeqEqual
  <1> QED
    BY <1>7 DEF r, t, u, v

-----------------------------------------------------------------------------
\* The steps of Mailbox.
LEMMA DeliversInit == Init => M!Init
  <1> SUFFICES ASSUME Init  PROVE M!Init
    OBVIOUS
  <1>1. ASSUME NEW l \in Links  PROVE Box[l] = <<>>
    <2>1. pipe[l] = <<>> /\ list[l] = <<>> /\ Scan(l).done = <<>>
      BY DEF Init, Scan
    <2>2. InFlight(l) = <<>>
      BY <2>1, NothingScanned DEF InFlight
    <2> QED
      BY <2>1, <2>2 DEF Box
  <1>2. Box = [l \in Links |-> <<>>]
    BY <1>1 DEF Box
  <1>3. [p \in Ranks |-> Phase(pc[p])] = [p \in Ranks |-> "outside"]
    BY Phases DEF Init
  <1> QED
    BY <1>2, <1>3, SameMessages DEF Init, M!Init

LEMMA BecomesAs ==
    ASSUME TypeOK, NEW p \in Ranks, NEW label, pc' = [pc EXCEPT ![p] = label]
    PROVE  \A x : Phase(label) = x => M!Become(p, x)
  BY PhaseMoves DEF M!Become, Doing

\* A process that dies, or returns from MIMPI_Finalize, gives up its boxes.
LEMMA Abandons ==
    ASSUME TypeOK, NEW p \in Ranks, Release(p),
           \A l \in Links : Receiver(l) = p => Scan(l)'.done = <<>>,
           \A l \in Links : Receiver(l) # p => Scan(l)' = Scan(l)
    PROVE  M!Abandon(p)
  <1>1. ASSUME NEW l \in Links, Receiver(l) = p  PROVE Box'[l] = <<>>
    <2>1. pipe'[l] = <<>> /\ list'[l] = <<>> /\ Scan(l)'.done = <<>>
      BY <1>1 DEF Release, Incoming
    <2>2. InFlight(l)' = <<>>
      BY <2>1, NothingScanned DEF InFlight
    <2> QED
      BY <2>1, <2>2 DEF Box
  <1>2. ASSUME NEW l \in Links, Receiver(l) # p  PROVE Box'[l] = Box[l]
    <2>1. pipe'[l] = pipe[l] /\ list'[l] = list[l]
      BY <1>2 DEF Release, Incoming
    <2> QED
      BY <1>2, <2>1, BoxKept
  <1>3. Box' = [l \in Links |-> Box'[l]]
    BY DEF Box
  <1>4. Box' = [l \in Links |-> IF Receiver(l) = p THEN <<>> ELSE Box[l]]
    BY <1>1, <1>2, <1>3
  <1>5. ropen' = [l \in Links |-> ropen[l] /\ Receiver(l) # p]
    <2>1. ropen' = [l \in Links |-> ropen[l] /\ l \notin Incoming(p)]
      BY DEF Release
    <2>2. \A l \in Links : l \notin Incoming(p) <=> Receiver(l) # p
      BY DEF Incoming
    <2> QED
      BY <2>1, <2>2, Zenon
  <1> QED
    BY <1>4, <1>5, SameMessages DEF M!Abandon

LEMMA DeliversUser ==
    ASSUME TypeOK, Handshake, Framing, NEW p \in Ranks, UserStep(p)
    PROVE  M!Next \/ UNCHANGED M!vars
  <1>1. p \in M!Ranks /\ pc[p] \in PcLabels
    BY SameMessages DEF TypeOK
  <1>2. Doing[p] = Phase(pc[p])
    BY DEF Doing
  <1>3. CASE \/ RejectCall(p) \/ BeginSend(p) \/ BeginRecv(p)
             \/ BeginFinalize(p) \/ SpuriousWake(p)
    <2>1. UNCHANGED <<pipeVars, threadVars, list>>
      BY <1>3 DEF RejectCall, BeginSend, BeginRecv, BeginFinalize, SpuriousWake, sharedVars
    <2>2. Box' = Box
      BY <2>1, BoxKept, BoxStays DEF Scan, pipeVars, threadVars
    <2>3. CASE RejectCall(p)
      <3>1. PICK c \in Calls :
                /\ pc[p] = "user" /\ calls[p] < MaxCalls[p] /\ c.by = p /\ Rejection(c) # "NONE"
                /\ call' = [call EXCEPT ![p] = c] /\ calls' = [calls EXCEPT ![p] = @ + 1]
                /\ pc' = [pc EXCEPT ![p] = "user"]
                /\ ret' = [ret EXCEPT ![p] = Return(Rejection(c))]
        BY <2>3 DEF RejectCall, Begin, Finish, Goto
      <3>2. M!Become(p, "idle") /\ [q \in Ranks |-> Phase(pc[q])][p] = "idle"
        BY <3>1, Phases, BecomesAs
      <3>3. M!Invoke(p)
        BY <2>1, <2>2, <3>1, <3>2, SameMessages DEF M!Invoke, M!Finish, pipeVars
      <3> QED
        BY <1>1, <3>3 DEF M!Next
    <2>4. CASE BeginSend(p)
      <3>1. PICK c \in Calls :
                /\ pc[p] = "user" /\ calls[p] < MaxCalls[p] /\ c.by = p
                /\ Rejection(c) = "NONE" /\ c.op = "send"
                /\ call' = [call EXCEPT ![p] = c] /\ calls' = [calls EXCEPT ![p] = @ + 1]
                /\ pc' = [pc EXCEPT ![p] = "send_count"] /\ ret' = [ret EXCEPT ![p] = NoRet]
        BY <2>4 DEF BeginSend, Begin, Goto
      <3>2. M!Become(p, "sending") /\ [q \in Ranks |-> Phase(pc[q])][p] = "idle"
        <4>1. Phase("send_count") = "sending"
          BY Phases DEF InSend
        <4> QED
          BY <3>1, <4>1, Phases, BecomesAs
      <3>3. M!Invoke(p)
        BY <2>1, <2>2, <3>1, <3>2, SameMessages DEF M!Invoke, pipeVars
      <3> QED
        BY <1>1, <3>3 DEF M!Next
    <2>5. CASE BeginRecv(p)
      <3>1. PICK c \in Calls :
                /\ pc[p] = "user" /\ calls[p] < MaxCalls[p] /\ c.by = p
                /\ Rejection(c) = "NONE" /\ c.op = "recv"
                /\ call' = [call EXCEPT ![p] = c] /\ calls' = [calls EXCEPT ![p] = @ + 1]
                /\ pc' = [pc EXCEPT ![p] = "search"] /\ ret' = [ret EXCEPT ![p] = NoRet]
        BY <2>5 DEF BeginRecv, Begin, Goto
      <3>2. M!Become(p, "receiving") /\ [q \in Ranks |-> Phase(pc[q])][p] = "idle"
        BY <3>1, Phases, BecomesAs DEF InRecv
      <3>3. M!Invoke(p)
        BY <2>1, <2>2, <3>1, <3>2, SameMessages DEF M!Invoke, pipeVars
      <3> QED
        BY <1>1, <3>3 DEF M!Next
    <2>6. CASE BeginFinalize(p)
      <3>1. M!StartLeaving(p)
        BY <2>2, <2>6, Phases, BecomesAs DEF BeginFinalize, Goto, M!StartLeaving, pipeVars
      <3> QED
        BY <1>1, <3>1 DEF M!Next
    <2>7. CASE SpuriousWake(p)
      <3>1. /\ pc[p] = "blocked" /\ pc' = [pc EXCEPT ![p] = "relock"]
            /\ UNCHANGED <<call, calls, ret, pipeVars>>
        BY <2>7 DEF SpuriousWake, Goto
      <3>2. [q \in Ranks |-> Phase(pc'[q])] = [q \in Ranks |-> Phase(pc[q])]
        BY <3>1, Phases DEF InRecv, InWait, TypeOK
      <3> QED
        BY <2>2, <3>1, <3>2 DEF M!vars, pipeVars
    <2> QED
      BY <1>3, <2>3, <2>4, <2>5, <2>6, <2>7
  <1>4. CASE MIMPI_Init(p)
    <2>1. ASSUME NEW l \in Links  PROVE Box'[l] = Box[l]
      <3>1. /\ pipe'[l] = pipe[l] /\ list'[l] = list[l] /\ rbuf'[l] = rbuf[l]
            /\ rpc'[l] = rpc[l] \/ (rpc[l] = "unborn" /\ rpc'[l] = "count")
        BY <1>4 DEF MIMPI_Init, Incoming, Handshake, EndIsFinal, TypeOK, pipeVars, sharedVars
      <3>2. Scan(l)' = Scan(l)
        BY <3>1 DEF Scan
      <3> QED
        BY <3>1, <3>2, BoxKept
    <2>2. Box' = Box
      BY <2>1, BoxStays
    <2>3. M!Enter(p)
      BY <1>4, <2>2, Phases, BecomesAs DEF MIMPI_Init, Goto, M!Enter, pipeVars
    <2> QED
      BY <1>1, <2>3 DEF M!Next
  <1>5. CASE Die(p)
    <2>1. /\ p \in Mortal /\ pc[p] \notin {"closed", "dead"} /\ pc' = [pc EXCEPT ![p] = "dead"]
          /\ wopen' = [l \in Links |-> wopen[l] /\ l \notin Outgoing(p)]
          /\ Release(p) /\ UNCHANGED <<call, calls, ret>>
      BY <1>5 DEF Die, Goto
    <2>2. ASSUME NEW l \in Links
          PROVE  /\ Receiver(l) = p => Scan(l)'.done = <<>>
                 /\ Receiver(l) # p => Scan(l)' = Scan(l)
      BY <1>5 DEF Die, Scan, Incoming
    <2>3. M!Abandon(p)
      BY <2>1, <2>2, Abandons
    <2>4. wopen' = [l \in Links |-> wopen[l] /\ Sender(l) # p]
      <3>1. \A l \in Links : l \notin Outgoing(p) <=> Sender(l) # p
        BY DEF Outgoing
      <3> QED
        BY <2>1, <3>1, Zenon
    <2>5. M!Become(p, "dead") /\ [q \in Ranks |-> Phase(pc[q])][p] \notin {"left", "dead"}
      BY <1>1, <2>1, Phases, BecomesAs
    <2>6. M!Vanish(p)
      BY <2>1, <2>3, <2>4, <2>5, SameMessages DEF M!Vanish
    <2> QED
      BY <1>1, <2>6 DEF M!Next
  <1> QED
    BY <1>3, <1>4, <1>5 DEF UserStep

LEMMA NoneCompleted ==
    ASSUME NEW scan \in ScanType, NEW x \in PacketType, scan.stage # "tag"
    PROVE  Assemble(scan, x).done = scan.done
  <1> DEFINE data == [count |-> scan.buf.count, tag |-> scan.buf.tag,
                      data |-> Append(scan.buf.data, x.val)]
             count == [count |-> x.val, tag |-> 0, data |-> <<>>]
             more == IF Len(scan.buf.data) + 1 < scan.buf.count THEN "data" ELSE "tag"
             some == IF x.val = 0 THEN "tag" ELSE "data"
  <1>1. \/ Assemble(scan, x) = [stage |-> some, buf |-> count, done |-> scan.done]
        \/ Assemble(scan, x) = [stage |-> more, buf |-> data, done |-> scan.done]
    <2>1. CASE scan.stage = "count"
      BY <2>1, AssembleForms
    <2>2. CASE scan.stage = "data"
      BY <2>2, AssembleForms
    <2> QED
      BY <2>1, <2>2 DEF ScanType
  <1> HIDE DEF data, count, more, some
  <1> QED
    BY <1>1

\* A message moves from one part of the box to the next, or comes in at its end.
LEMMA MessageMoves ==
    ASSUME NEW s \in Seq(Message), NEW d \in Seq(Message), NEW m \in Message
    PROVE  /\ s \o Append(d, m) = Append(s \o d, m)
           /\ Append(s, m) \o d = s \o (<<m>> \o d)
  OBVIOUS

\* A packet adds to the box what it completes.
LEMMA BoxWritten ==
    ASSUME TypeOK, NEW l \in Links, NEW x \in PacketType,
           pipe' = [pipe EXCEPT ![l] = Append(@, x)], UNCHANGED <<threadVars, list>>
    PROVE  /\ Box'[l] = list[l] \o Assemble(AfterAll(Scan(l), pipe[l]), x).done
           /\ \A k \in Links \ {l} : Box'[k] = Box[k]
  <1>1. \A k \in Links : Scan(k)' = Scan(k) /\ list'[k] = list[k]
    BY DEF Scan, threadVars
  <1>2. pipe[l] \in Seq(PacketType) /\ pipe'[l] = Append(pipe[l], x)
        /\ \A k \in Links \ {l} : pipe'[k] = pipe[k]
    BY DEF TypeOK
  <1>3. InFlight(l)' = Assemble(AfterAll(Scan(l), pipe[l]), x).done
    BY <1>1, <1>2, ScannedAppend DEF InFlight
  <1> QED
    BY <1>1, <1>2, <1>3, BoxKept DEF Box

LEMMA DeliversSends ==
    ASSUME TypeOK, Handshake, Framing, NEW p \in Ranks, Sending(p)
    PROVE  M!Next \/ UNCHANGED M!vars
  <1>1. pc[p] \in InSend
    BY DEF Sending, SendCount, SendData, SendTag, SendFails, InSend
  <1>2. PICK l \in Links : l = Out(p)
    BY <1>1, WriterFramed
  <1> DEFINE scan == AfterAll(Scan(l), pipe[l])
             idle == [q \in Ranks |-> Phase(pc[q])]
  <1>3. wopen[l] /\ (ropen[l] => InStep(l)) /\ Sender(l) = p /\ p \in M!Ranks
        /\ idle[p] = "sending"
    BY <1>1, <1>2, WriterFramed, SameMessages, Phases
  <1>4. /\ call[p].count \in Nat /\ call[p].tag \in Nat
        /\ calls[p] \in Nat /\ sent[p] \in Nat /\ scan \in ScanType
    BY ScanTyped DEF TypeOK, CallType
  <1>5. InMessage(l) <=> pc[p] \in {"send_data", "send_tag"}
    BY <1>2, <1>3 DEF InMessage
  <1> HIDE DEF scan
  <1>6. ASSUME NEW x \in PacketType, pipe' = [pipe EXCEPT ![l] = Append(@, x)],
               UNCHANGED <<call, calls, ret, list, wopen, ropen, threadVars>>,
               NEW label \in InSend, pc' = [pc EXCEPT ![p] = label],
               Assemble(scan, x).done = scan.done
        PROVE  UNCHANGED M!vars
    <2>1. Box'[l] = Box[l] /\ \A k \in Links \ {l} : Box'[k] = Box[k]
      BY <1>6, BoxWritten, BoxTyped DEF scan, InFlight
    <2>2. Box' = Box
      BY <2>1, BoxStays
    <2>3. [q \in Ranks |-> Phase(pc'[q])] = idle
      BY <1>1, <1>6, Phases DEF TypeOK
    <2> QED
      BY <1>6, <2>2, <2>3 DEF M!vars
  <1>7. CASE SendCount(p)
    <2> DEFINE x == Packet("count", call[p].count)
               label == IF call[p].count = 0 THEN "send_tag" ELSE "send_data"
    <2>1. x \in PacketType /\ label \in InSend
      BY <1>4 DEF Packet, PacketType, InSend
    <2>2. /\ ropen[l] /\ pipe' = [pipe EXCEPT ![l] = Append(@, x)] /\ pc[p] = "send_count"
          /\ UNCHANGED <<call, calls, ret, list, wopen, ropen, threadVars>>
          /\ pc' = [pc EXCEPT ![p] = label]
      BY <1>2, <1>7 DEF SendCount, Write, Goto, sharedVars
    <2> HIDE DEF x, label
    <2>3. scan.stage = "count"
      BY <1>3, <1>5, <2>2 DEF InStep, scan
    <2>4. Assemble(scan, x).done = scan.done
      BY <1>4, <2>1, <2>3, NoneCompleted
    <2> QED
      BY <1>6, <2>1, <2>2, <2>4
  <1>8. CASE SendData(p)
    <2> DEFINE x == Packet("chunk", calls[p])
               label == IF sent[p] + 1 < call[p].count THEN "send_data" ELSE "send_tag"
    <2>1. x \in PacketType /\ label \in InSend
      BY <1>4 DEF Packet, PacketType, InSend
    <2>2. /\ ropen[l] /\ pipe' = [pipe EXCEPT ![l] = Append(@, x)] /\ pc[p] = "send_data"
          /\ UNCHANGED <<call, calls, ret, list, wopen, ropen, threadVars>>
          /\ pc' = [pc EXCEPT ![p] = label]
      BY <1>2, <1>8 DEF SendData, Write, Goto, sharedVars
    <2> HIDE DEF x, label
    <2>3. scan.stage = "data"
      BY <1>3, <1>5, <2>2 DEF InStep, scan
    <2>4. Assemble(scan, x).done = scan.done
      BY <1>4, <2>1, <2>3, NoneCompleted
    <2> QED
      BY <1>6, <2>1, <2>2, <2>4
  <1>9. CASE SendTag(p)
    <2> DEFINE x == Packet("tag", call[p].tag)
    <2>1. x \in PacketType /\ x.val = call[p].tag
      BY <1>4 DEF Packet, PacketType
    <2>2. /\ ropen[l] /\ pipe' = [pipe EXCEPT ![l] = Append(@, x)] /\ pc[p] = "send_tag"
          /\ UNCHANGED <<call, calls, list, wopen, ropen, threadVars>>
          /\ pc' = [pc EXCEPT ![p] = "user"] /\ ret' = [ret EXCEPT ![p] = Return("SUCCESS")]
      BY <1>2, <1>9 DEF SendTag, Write, Finish, Goto, sharedVars
    <2> HIDE DEF x
    <2>3. /\ scan.stage = "tag" /\ sent[p] = call[p].count
          /\ scan.buf = [count |-> call[p].count, tag |-> 0, data |-> [i \in 1 .. sent[p] |-> calls[p]]]
      BY <1>3, <1>5, <2>2 DEF InStep, Written, scan
    <2>4. Assemble(scan, x).done = Append(scan.done, M!Posted(p))
      <3> DEFINE data == [i \in 1 .. call[p].count |-> calls[p]]
      <3>1. M!Posted(p) = [count |-> call[p].count, tag |-> x.val, data |-> data]
        BY <2>1 DEF M!Posted
      <3>2. scan.buf.count = call[p].count /\ scan.buf.data = data
        BY <2>3
      <3> HIDE DEF data
      <3> DEFINE done == Append(scan.done, [count |-> scan.buf.count, tag |-> x.val,
                                            data |-> scan.buf.data])
      <3>3. Assemble(scan, x) = [stage |-> "count", buf |-> NoBuf, done |-> done]
        BY <1>4, <2>1, <2>3, AssembleForms
      <3>4. done = Append(scan.done, M!Posted(p))
        BY <3>1, <3>2
      <3> HIDE DEF done
      <3> QED
        BY <3>3, <3>4
    <2>5. Box' = [Box EXCEPT ![l] = Append(@, M!Posted(p))]
      <3> DEFINE m == M!Posted(p)
      <3>1. /\ Box'[l] = list[l] \o Append(scan.done, m)
            /\ \A k \in Links \ {l} : Box'[k] = Box[k]
        BY <2>1, <2>2, <2>4, BoxWritten DEF scan
      <3>2. m \in Message
        <4>1. [i \in 1 .. call[p].count |-> calls[p]] \in Seq(Nat)
          BY <1>4, ChunkAdded
        <4> QED
          BY <1>4, <4>1 DEF M!Posted, Message
      <3> HIDE DEF m
      <3>3. /\ Box[l] = list[l] \o scan.done /\ list[l] \in Seq(Message)
            /\ scan.done \in Seq(Message)
        BY BoxTyped DEF InFlight, scan
      <3>4. list[l] \o Append(scan.done, m) = Append(list[l] \o scan.done, m)
        BY <3>2, <3>3, MessageMoves
      <3>5. Box'[l] = Append(Box[l], m)
        BY <3>1, <3>3, <3>4
      <3>6. Box' = [Box EXCEPT ![l] = Append(Box[l], m)]
        BY <3>1, <3>5, BoxMoves
      <3> QED
        BY <3>6 DEF m
    <2>6. M!Become(p, "idle")
      BY <2>2, Phases, BecomesAs
    <2>7. M!Send(p)
      BY <1>2, <1>3, <2>2, <2>5, <2>6, SameMessages DEF M!Send, M!Finish
    <2> QED
      BY <1>3, <2>7 DEF M!Next
  <1>10. CASE SendFails(p)
    <2>1. /\ ~ropen[l] /\ UNCHANGED <<call, calls, pipeVars, threadVars, list>>
          /\ pc' = [pc EXCEPT ![p] = "user"]
          /\ ret' = [ret EXCEPT ![p] = Return("ERROR_REMOTE_FINISHED")]
      BY <1>2, <1>10 DEF SendFails, Finish, Goto, sharedVars
    <2>2. Box' = Box
      BY <2>1, BoxKept, BoxStays DEF Scan, pipeVars, threadVars
    <2>3. M!Become(p, "idle")
      BY <2>1, Phases, BecomesAs
    <2>4. M!SendFails(p)
      BY <1>2, <1>3, <2>1, <2>2, <2>3, SameMessages DEF M!SendFails, M!Finish, pipeVars
    <2> QED
      BY <1>3, <2>4 DEF M!Next
  <1> QED
    BY <1>7, <1>8, <1>9, <1>10 DEF Sending

LEMMA DeliversReader ==
    ASSUME TypeOK, Handshake, NEW l \in Links, ReaderStep(l)
    PROVE  UNCHANGED M!vars
  <1>1. CASE ReadCount(l) \/ ReadData(l) \/ ReadTag(l)
    <2>1. /\ pipe[l] # <<>> /\ pipe' = [pipe EXCEPT ![l] = Tail(@)] /\ pipe[l] \in Seq(PacketType)
          /\ Scan(l)' = Assemble(Scan(l), Head(pipe[l]))
          /\ \A k \in Links \ {l} : Scan(k)' = Scan(k)
          /\ UNCHANGED <<pc, call, calls, ret, wopen, ropen, list>>
      BY <1>1, ReadAssembles DEF Scan, mainVars, sharedVars, TypeOK
    <2>2. pipe'[l] = Tail(pipe[l]) /\ \A k \in Links \ {l} : pipe'[k] = pipe[k]
      BY <2>1 DEF TypeOK
    <2>3. InFlight(l)' = InFlight(l)
      BY <2>1, <2>2, ScannedTail DEF InFlight
    <2>4. Box' = Box
      BY <2>1, <2>2, <2>3, BoxKept, BoxStays DEF Box
    <2> QED
      BY <2>1, <2>4 DEF M!vars
  <1>2. CASE ~(ReadCount(l) \/ ReadData(l) \/ ReadTag(l))
    <2>1. /\ UNCHANGED <<pipeVars, call, calls, sent, ret>>
          /\ \A k \in Links \ {l} : Scan(k)' = Scan(k) /\ list'[k] = list[k]
          /\ \A q \in Ranks : pc'[q] = pc[q] \/ (pc[q] = "blocked" /\ pc'[q] = "relock")
      BY <1>2, ReaderScans
    <2>2. \A q \in Ranks : Phase(pc'[q]) = Phase(pc[q])
      BY <2>1, Phases DEF InRecv, InWait
    <2>3. Box'[l] = Box[l]
      <3>1. CASE Scan(l)' = Scan(l) /\ list'[l] = list[l]
        BY <2>1, <3>1, BoxKept DEF pipeVars
      <3>2. CASE /\ Scan(l) = After(<<rbuf[l]>>, Scan(l)') /\ list'[l] = Append(list[l], rbuf[l])
                 /\ rpc[l] = "save" /\ rpc'[l] = "notify" /\ UNCHANGED <<pc, rbuf>>
        <4> DEFINE first == <<rbuf[l]>>
                   next == Scan(l)'
                   done == AfterAll(next, pipe[l]).done
        <4>1. /\ next \in ScanType /\ first \in Seq(Message) /\ pipe[l] \in Seq(PacketType)
              /\ rbuf[l] \in Message /\ list[l] \in Seq(Message)
          <5>1. rbuf[l] \in Message /\ NoBuf \in Message /\ <<>> \in Seq(Message)
            BY ValuesTyped DEF TypeOK
          <5>2. next = [stage |-> "count", buf |-> NoBuf, done |-> <<>>]
            BY <3>2 DEF Scan
          <5> QED
            BY <5>1, <5>2 DEF TypeOK, ScanType
        <4>2. Scan(l) = After(first, next) /\ pipe'[l] = pipe[l]
          BY <2>1, <3>2 DEF pipeVars
        <4> HIDE DEF first, next
        <4>3. AfterAll(Scan(l), pipe[l]) = After(first, AfterAll(next, pipe[l]))
          BY <4>1, <4>2, ScannedAfter
        <4>4. InFlight(l) = first \o done /\ InFlight(l)' = done
          <5>1. InFlight(l)' = done
            BY <4>2 DEF InFlight, next
          <5>2. InFlight(l) = After(first, AfterAll(next, pipe[l])).done
            BY <4>3 DEF InFlight
          <5> QED
            BY <5>1, <5>2 DEF After
        <4>5. done \in Seq(Message)
          <5>1. AfterAll(next, pipe[l]) \in ScanType
            BY <4>1, ScannedTyped, LenProperties DEF AfterAll
          <5> QED
            BY <5>1 DEF ScanType
        <4> HIDE DEF done
        <4>6. Append(list[l], rbuf[l]) \o done = list[l] \o (<<rbuf[l]>> \o done)
          BY <4>1, <4>5, MessageMoves
        <4> QED
          BY <3>2, <4>4, <4>6 DEF Box, first
      <3>3. CASE /\ pipe[l] = <<>> /\ ~wopen[l] /\ list'[l] = list[l]
                 /\ Scan(l).done = <<>> /\ Scan(l)'.done = <<>>
        <4>1. InFlight(l) = <<>> /\ InFlight(l)' = <<>>
          BY <2>1, <3>3, NothingScanned DEF InFlight, pipeVars
        <4> QED
          BY <3>3, <4>1 DEF Box
      <3> QED
        BY <1>2, <3>1, <3>2, <3>3, ReaderScans
    <2>4. Box' = Box
      BY <2>1, <2>3, BoxKept, BoxStays DEF pipeVars
    <2> QED
      BY <2>1, <2>2, <2>4 DEF M!vars, pipeVars
  <1> QED
    BY <1>1, <1>2

\* Taking a message from the list takes it from the box.
LEMMA BoxTaken ==
    ASSUME TypeOK, NEW l \in Links, NEW i \in 1 .. Len(list[l]), Take(l, i),
           UNCHANGED <<pipe, threadVars>>
    PROVE  Box' = [Box EXCEPT ![l] = RemoveAt(@, i)]
  <1>1. /\ list'[l] = RemoveAt(list[l], i) /\ \A k \in Links \ {l} : list'[k] = list[k]
        /\ \A k \in Links : Scan(k)' = Scan(k)
    BY DEF Take, TypeOK, Scan, threadVars
  <1>2. InFlight(l)' = InFlight(l)
    BY <1>1 DEF InFlight
  <1>3. Box'[l] = RemoveAt(list[l], i) \o InFlight(l)
    BY <1>1, <1>2 DEF Box
  <1>4. RemoveAt(Box[l], i) = RemoveAt(list[l], i) \o InFlight(l)
    BY BoxTyped, RemoveFromBox
  <1> QED
    BY <1>1, <1>3, <1>4, BoxKept, BoxMoves

\* A MIMPI_Recv that takes the first message of the list that answers it takes
\* the first of the box.
LEMMA ReceivesFirst ==
    ASSUME TypeOK, NEW p \in Ranks, pc[p] \in InRecv, HasMatch(list[In(p)], call[p]),
           NEW i, i = FirstMatch(list[In(p)], call[p]),
           Take(In(p), i), Finish(p, [code |-> "SUCCESS", data |-> list[In(p)][i].data]),
           UNCHANGED <<call, calls, pipeVars, threadVars>>
    PROVE  M!Receive(p)
  <1>1. PICK l \in Links : l = In(p)
    BY WaitsOnLink
  <1>2. /\ list[l] \in Seq(Message) /\ InFlight(l) \in Seq(Message)
        /\ Box[l] = list[l] \o InFlight(l)
    BY BoxTyped
  <1>3. /\ HasMatch(Box[l], call[p]) /\ FirstMatch(Box[l], call[p]) = i
        /\ i \in 1 .. Len(list[l]) /\ Box[l][i] = list[l][i]
    BY <1>1, <1>2, FirstOfBox
  <1>4. Box' = [Box EXCEPT ![l] = RemoveAt(@, i)]
    BY <1>1, <1>3, BoxTaken DEF pipeVars
  <1>5. M!Become(p, "idle") /\ [q \in Ranks |-> Phase(pc[q])][p] = "receiving"
    BY Phases, BecomesAs DEF Finish, Goto
  <1> QED
    BY <1>1, <1>3, <1>4, <1>5, SameMessages DEF M!Receive, M!Finish, Finish, pipeVars

LEMMA DeliversReceives ==
    ASSUME TypeOK, Handshake, NEW p \in Ranks, Receiving(p)
    PROVE  M!Next \/ UNCHANGED M!vars
  <1>1. pc[p] \in InRecv
    BY DEF Receiving, SearchHit, SearchMiss, RegisterWait, CheckWait, Sleep, Relock,
           LeaveWait, WaitFails, WaitDelivers, InRecv, InWait
  <1>2. PICK l \in Links : l = In(p)
    BY <1>1, WaitsOnLink
  <1>3. p \in M!Ranks /\ Receiver(l) = p /\ [q \in Ranks |-> Phase(pc[q])][p] = "receiving"
    BY <1>1, <1>2, WaitsOnLink, SameMessages, Phases
  <1>4. ASSUME UNCHANGED <<call, calls, ret, pipeVars, threadVars, list>>,
               NEW label \in InRecv, pc' = [pc EXCEPT ![p] = label]
        PROVE  UNCHANGED M!vars
    <2>1. Box' = Box
      BY <1>4, BoxKept, BoxStays DEF Scan, pipeVars, threadVars
    <2>2. [q \in Ranks |-> Phase(pc'[q])] = [q \in Ranks |-> Phase(pc[q])]
      BY <1>1, <1>4, Phases DEF TypeOK
    <2> QED
      BY <1>4, <2>1, <2>2 DEF M!vars, pipeVars
  <1>5. CASE SearchHit(p)
    <2>1. M!Receive(p)
      BY <1>1, <1>5, ReceivesFirst DEF SearchHit
    <2> QED
      BY <1>3, <2>1 DEF M!Next
  <1>6. CASE SearchMiss(p)
    BY <1>4, <1>6 DEF SearchMiss, Goto, InRecv, InWait
  <1>7. CASE RegisterWait(p)
    BY <1>4, <1>7 DEF RegisterWait, Goto, InRecv, InWait
  <1>8. CASE CheckWait(p)
    <2>1. (IF added[p] \/ Ended(p) THEN "leave" ELSE "sleep") \in InRecv
      BY DEF InRecv, InWait
    <2> QED
      BY <1>4, <1>8, <2>1 DEF CheckWait, Goto, sharedVars
  <1>9. CASE Sleep(p)
    BY <1>4, <1>9 DEF Sleep, Goto, InRecv, InWait
  <1>10. CASE Relock(p)
    BY <1>4, <1>10 DEF Relock, Goto, InRecv, InWait
  <1>11. CASE LeaveWait(p)
    BY <1>4, <1>11 DEF LeaveWait, Goto, InRecv, InWait
  <1>12. CASE WaitFails(p)
    <2>1. /\ pc[p] = "woken" /\ ~added[p] /\ has_finished[l]
          /\ pc' = [pc EXCEPT ![p] = "user"]
          /\ ret' = [ret EXCEPT ![p] = Return("ERROR_REMOTE_FINISHED")]
          /\ UNCHANGED <<call, calls, pipeVars, threadVars, list>>
      BY <1>2, <1>12 DEF WaitFails, Ended, Finish, Goto
    <2>2. rpc[l] \in {"finished", "signal", "exit"} /\ ~wopen[l] /\ pipe[l] = <<>>
      BY <1>3, <2>1 DEF Handshake, EndIsFinal, Alive
    <2>3. ~HasMatch(list[l], call[p])
      BY <1>2, <2>1, <2>2 DEF Handshake, AnswerFlagged, AnswerFlaggedFor, Waiting, InWait, Answered
    <2>4. ~HasMatch(Box[l], call[p])
      <3>1. Scan(l).done = <<>>
        BY <2>2 DEF Scan
      <3>2. InFlight(l) = <<>>
        BY <2>2, <3>1, NothingScanned DEF InFlight
      <3>3. Box[l] = list[l]
        BY <3>2, BoxTyped
      <3> QED
        BY <2>3, <3>3
    <2>5. Box' = Box
      BY <2>1, BoxKept, BoxStays DEF Scan, pipeVars, threadVars
    <2>6. M!Become(p, "idle")
      BY <2>1, Phases, BecomesAs
    <2>7. M!ReceiveFails(p)
      BY <1>2, <1>3, <2>1, <2>2, <2>4, <2>5, <2>6, SameMessages DEF M!ReceiveFails, M!Finish, pipeVars
    <2> QED
      BY <1>3, <2>7 DEF M!Next
  <1>13. CASE WaitDelivers(p)
    <2>1. pc[p] = "woken" /\ (added[p] \/ ~Ended(p))
      BY <1>13 DEF WaitDelivers
    <2>2. HasMatch(list[In(p)], call[p])
      BY <2>1 DEF Handshake, FlagAnswers, FlagAnswersFor, Alive, Answered
    <2>3. Rescan(list[In(p)], call[p]) = FirstMatch(list[In(p)], call[p])
      BY <2>2 DEF Rescan
    <2>4. M!Receive(p)
      BY <1>1, <1>13, <2>2, <2>3, ReceivesFirst DEF WaitDelivers
    <2> QED
      BY <1>3, <2>4 DEF M!Next
  <1> QED
    BY <1>5, <1>6, <1>7, <1>8, <1>9, <1>10, <1>11, <1>12, <1>13 DEF Receiving

LEMMA DeliversFinalizes ==
    ASSUME TypeOK, Handshake, NEW p \in Ranks, Finalizing(p)
    PROVE  M!Next \/ UNCHANGED M!vars
  <1>1. p \in M!Ranks
    BY SameMessages
  <1>2. CASE CloseWriting(p)
    <2>1. PICK l \in Outgoing(p) : wopen' = [wopen EXCEPT ![l] = FALSE]
      BY <1>2 DEF CloseWriting
    <2>2. /\ l \in Links /\ Sender(l) = p /\ pc[p] = "closing"
          /\ UNCHANGED <<pc, call, calls, ret, pipe, ropen, threadVars, list>>
      BY <1>2 DEF CloseWriting, CanClose, Outgoing, mainVars, sharedVars
    <2>3. Box' = Box
      BY <2>2, BoxKept, BoxStays DEF Scan, threadVars
    <2>4. M!Close(l)
      BY <2>1, <2>2, <2>3, SameMessages, Phases DEF M!Close
    <2> QED
      BY <2>2, <2>4, SameMessages DEF M!Next
  <1>3. CASE JoinReaders(p)
    <2>1. /\ pc[p] = "closing" /\ pc' = [pc EXCEPT ![p] = "closed"]
          /\ \A l \in Outgoing(p) : ~wopen[l]
          /\ \A l \in Incoming(p) : rpc[l] = "exit"
          /\ UNCHANGED <<call, calls, ret, wopen, threadVars>> /\ Release(p)
      BY <1>3 DEF JoinReaders, Goto, ReadersDone
    <2>2. ASSUME NEW l \in Links, p \in {l[1], l[2]}  PROVE ~wopen[l]
      <3>1. CASE Sender(l) = p
        BY <2>1, <3>1 DEF Outgoing
      <3>2. CASE Receiver(l) = p
        BY <2>1, <3>2 DEF Incoming, Handshake, EndIsFinal, Alive
      <3> QED
        BY <2>2, <3>1, <3>2 DEF Sender, Receiver
    <2>3. M!Abandon(p)
      <3>1. ASSUME NEW l \in Links
            PROVE  Scan(l)' = Scan(l) /\ (Receiver(l) = p => Scan(l)'.done = <<>>)
        BY <2>1 DEF Scan, threadVars, Incoming
      <3> QED
        BY <2>1, <3>1, Abandons
    <2>4. M!Become(p, "left") /\ [q \in Ranks |-> Phase(pc[q])][p] = "leaving"
      BY <2>1, Phases, BecomesAs
    <2>5. M!Leave(p)
      BY <2>1, <2>2, <2>3, <2>4, SameMessages DEF M!Leave
    <2> QED
      BY <1>1, <2>5 DEF M!Next
  <1> QED
    BY <1>2, <1>3 DEF Finalizing

LEMMA DeliversStep == TypeOK /\ Handshake /\ Framing /\ [Next]_vars => [M!Next]_(M!vars)
  <1> SUFFICES ASSUME TypeOK, Handshake, Framing, [Next]_vars
               PROVE  M!Next \/ UNCHANGED M!vars
    OBVIOUS
  <1>1. CASE UNCHANGED vars
    <2>1. Box' = Box
      BY <1>1, BoxKept, BoxStays DEF Scan, vars
    <2> QED
      BY <1>1, <2>1 DEF vars, M!vars
  <1>2. ASSUME NEW p \in Ranks, MainStep(p) \/ UserStep(p)
        PROVE  M!Next \/ UNCHANGED M!vars
    BY <1>2, DeliversUser, DeliversSends, DeliversReceives, DeliversFinalizes DEF MainStep
  <1>3. ASSUME NEW l \in Links, ReaderStep(l)  PROVE UNCHANGED M!vars
    BY <1>3, DeliversReader
  <1> QED
    BY <1>1, <1>2, <1>3 DEF Next

(***************************************************************************)
(* PointToPointImplementsMailbox: for any number of processes, any program *)
(* and any size of the pipes, every step of the threads is a step of       *)
(* Mailbox or none at all.                                                 *)
(***************************************************************************)
THEOREM PointToPointImplementsMailbox == Spec => DeliversInOrder
  BY DeliversInit, DeliversStep, Typing, HandshakeHolds, FramingHolds, PTL
     DEF Spec, DeliversInOrder, M!Spec
=============================================================================
