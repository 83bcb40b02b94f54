--------------------------- MODULE GroupTreeOrder ---------------------------
(***************************************************************************)
(* Why the group operations keep in step although their pipes carry bare   *)
(* bytes: the inductive invariants behind GroupTreeCorrect.  Every pipe    *)
(* has one writer and one reader, and both know from the program alone     *)
(* which packets go through it, and in which order.                        *)
(***************************************************************************)
EXTENDS GroupTreeCorrect

(***************************************************************************)
(* A packet is known by its key: the call it belongs to, and the chunk.    *)
(***************************************************************************)
Key(m) == <<m.round, m.chunk>>

Before(j, k) == j[1] < k[1] \/ (j[1] = k[1] /\ j[2] < k[2])

\* The phase in which the writer of a pipe writes to it, and the one in which
\* its reader reads.
LeftChild(c) == c % 2 = 0

WritePhase(x) ==
    CASE x[1] = "first" -> ToFirst
      [] x[1] = "up" -> ToParent
      [] x[1] = "down" -> IF LeftChild(x[2]) THEN ToLeft ELSE ToRight
      [] OTHER -> ToRoot
ReadPhase(x) ==
    CASE x[1] = "first" -> FromRoot
      [] x[1] = "up" -> IF LeftChild(x[2]) THEN FromLeft ELSE FromRight
      [] x[1] = "down" -> FromParent
      [] OTHER -> FromFirst

\* The calls of the program in which process p uses pipe x in phase ph, and
\* the packets it moves there.
Uses(p, ph, x) == {r \in 1 .. Len(script) :
                       ValidRoot(script[r]) /\ PipeOf(p, ph, script[r]) = x}
Share(p, ph, x) == UNION {{r} \X (1 .. Size(p, ph, script[r])) : r \in Uses(p, ph, x)}

Due(x) == Share(Writer(x), WritePhase(x), x)

\* Process p has moved the packet k of its phase ph.
Moved(p, ph, k) ==
    \/ k[1] < round[p]
    \/ k[1] = round[p] /\ (phase[p] = Outside \/ phase[p] > ph)
    \/ k[1] = round[p] /\ phase[p] = ph /\ k[2] <= moved[p]

Sent(x, k) == Moved(Writer(x), WritePhase(x), k)
Got(x, k) == Moved(Reader(x), ReadPhase(x), k)

Keys(x) == {Key(pipe[x][i]) : i \in 1 .. Len(pipe[x])}

\* What is due, not yet read and not on its way either.
Missed(x) == {k \in Due(x) : ~Got(x, k) /\ k \notin Keys(x)}

(***************************************************************************)
(* PacketsInOrder: a pipe holds packets its reader still has to read, one  *)
(* after the other and none of them missing; while its writer is there,    *)
(* these are all that have been written, and nothing was read before.      *)
(***************************************************************************)
Sorted(x) ==
    \A i, j \in 1 .. Len(pipe[x]) : i < j => Before(Key(pipe[x][i]), Key(pipe[x][j]))

Holds(x) ==
    \A k \in Keys(x) :
        /\ k \in Due(x) /\ ~Got(x, k) /\ k[1] <= round[Writer(x)]
        /\ open[Writer(x)] => Sent(x, k)

NoGap(x) ==
    \A k \in Missed(x) :
        /\ \A j \in Keys(x) : Before(j, k)
        /\ open[Writer(x)] => ~Sent(x, k)

NotAhead(x) == open[Writer(x)] => \A k \in Due(x) : Got(x, k) => Sent(x, k)

InOrder(x) ==
    IF open[Reader(x)]
    THEN Sorted(x) /\ Holds(x) /\ NoGap(x) /\ NotAhead(x)
    ELSE pipe[x] = <<>>

PacketsInOrder == \A x \in Pipes : InOrder(x)

(***************************************************************************)
(* CallsInStep: what a process knows of the others from the packets it has *)
(* read.  The processes below c in the tree, c included, are those in      *)
(* every set that contains c and the children of all its members.          *)
(***************************************************************************)
Closed(T) == \A e \in T : \A d \in {2 * e, 2 * e + 1} : d \in Procs => d \in T
Below == [c \in Procs |-> {d \in Procs : \A T \in SUBSET Procs : c \in T /\ Closed(T) => d \in T}]

Begun(r, Q) == \A q \in Q : round[q] >= r

\* A packet to the parent is sent when all below have begun the call; a
\* process that is past a child's packets knows it of those below the child.
UpTells(c) == \A k \in Keys(<<"up", c>>) : Begun(k[1], Below[c])
LeftKnown(p) == phase[p] > FromLeft /\ HasChild(2 * p) => Begun(round[p], Below[2 * p])
RightKnown(p) == phase[p] > FromRight /\ HasChild(2 * p + 1) => Begun(round[p], Below[2 * p + 1])

\* A packet from the parent is sent when all processes have begun the call.
DownTells(c) == \A k \in Keys(<<"down", c>>) : Begun(k[1], Procs)
AllKnown(p) == phase[p] >= ToLeft => Begun(round[p], Procs)

CallsInStep ==
    /\ \A c \in 2 .. N : UpTells(c) /\ DownTells(c)
    /\ \A p \in Procs : LeftKnown(p) /\ RightKnown(p) /\ AllKnown(p)
    /\ GroupSync

\* The programs in which every Bcast and every Reduce has data to move.
NonEmptyCalls ==
    \A s \in Scripts : \A i \in 1 .. Len(s) : s[i].kind # "barrier" => s[i].count > 0

(***************************************************************************)
(* LossesExplained: a packet that will never come, or never be wanted, is  *)
(* one of a call some process has left without beginning, or died in.      *)
(***************************************************************************)
Doomed(r) == \E q \in Procs : Where(q) = "dead" \/ (Where(q) = "left" /\ round[q] < r)

LossesExplained ==
    \A x \in Pipes :
        /\ open[Reader(x)] /\ ~open[Writer(x)] => \A k \in Missed(x) : Doomed(k[1])
        /\ open[Writer(x)] /\ ~open[Reader(x)] => \A k \in Due(x) : Sent(x, k) \/ Doomed(k[1])

(***************************************************************************)
(* DataExact: what a process has in its buffer, and what the packets in    *)
(* the pipes carry, byte for byte, and what calls have handed out.  In a   *)
(* Reduce a byte stands for the processes below the one that holds it, as  *)
(* far as it has collected them; in a Bcast a process either has the       *)
(* root's byte or has still to receive it.                                 *)
(***************************************************************************)
Collected(p, i) ==
    {p} \cup {d \in Procs :
                \/ /\ HasChild(2 * p) /\ d \in Below[2 * p]
                   /\ Moved(p, FromLeft, <<round[p], i>>)
                \/ /\ HasChild(2 * p + 1) /\ d \in Below[2 * p + 1]
                   /\ Moved(p, FromRight, <<round[p], i>>)}

HasCopy(p, i) ==
    \/ p = Root(Current(p))
    \/ Moved(p, IF p = 1 THEN FromRoot ELSE FromParent, <<round[p], i>>)

HasResult(p, i) ==
    p # 1 /\ p = Root(Current(p)) /\ Moved(p, FromFirst, <<round[p], i>>)

ChunkExact(p, i) ==
    LET o == Current(p) IN
    /\ o.kind = "bcast" /\ HasCopy(p, i) => acc[p][i] = Own(Root(o), i)
    /\ o.kind = "reduce" =>
          acc[p][i] = Reduced(IF HasResult(p, i) THEN Procs ELSE Collected(p, i), i, o.op)

BufferExact(p) == phase[p] # Outside => \A i \in 1 .. Current(p).count : ChunkExact(p, i)

\* What a packet of call o on pipe x that carries chunk i is worth.
Worth(x, i, o) ==
    IF o.kind = "bcast" THEN Own(Root(o), i)
    ELSE Reduced(IF x[1] = "up" THEN Below[x[2]] ELSE Procs, i, o.op)

PacketsExact(x) ==
    \A n \in 1 .. Len(pipe[x]) :
        LET m == pipe[x][n]
            o == script[m.round]
        IN CarriesData(WritePhase(x), o) => m.val = Worth(x, m.chunk, o)

DataExact ==
    /\ \A p \in Procs : BufferExact(p)
    /\ \A x \in Pipes : PacketsExact(x)
    /\ DataArrives
=============================================================================
