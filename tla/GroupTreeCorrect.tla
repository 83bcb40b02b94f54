-------------------------- MODULE GroupTreeCorrect --------------------------
(***************************************************************************)
(* What makes the group operations correct.                                *)
(***************************************************************************)
EXTENDS GroupTree

Sets == INSTANCE FiniteSetsExt

(***************************************************************************)
(* GroupSync: a group call returns SUCCESS only after every process has    *)
(* begun it (mimpi.h:106-111; assignment_EN.md:127-128: each procedure "is *)
(* a synchronization point for all processes").                            *)
(***************************************************************************)
GroupSync == \A p, q \in Procs : done[p] <= round[q]

(***************************************************************************)
(* ReadsAligned: the packet a process is about to read in a phase is the   *)
(* one that was written for it: in the same call, as the same chunk.  The  *)
(* pipes carry bare bytes, so nothing but the order of reads and writes    *)
(* keeps a call from eating the bytes of another.                          *)
(***************************************************************************)
ReadsAligned ==
    \A p \in Procs :
        Receiving(p) /\ open[p] /\ pipe[Here(p)] # <<>> =>
            /\ Head(pipe[Here(p)]).round = round[p]
            /\ Head(pipe[Here(p)]).chunk = moved[p] + 1

(***************************************************************************)
(* NothingLeftBehind: when all processes are back from the same call, all  *)
(* the pipes are empty.                                                    *)
(***************************************************************************)
NothingLeftBehind ==
    (\A p, q \in Procs : phase[p] = Outside /\ done[p] = round[q])
        => \A x \in Pipes : pipe[x] = <<>>

(***************************************************************************)
(* DataArrives: when a call returns SUCCESS, a Bcast has handed every      *)
(* chunk of the root's data to the caller, and a Reduce has handed the     *)
(* root, for every chunk, the data of every process reduced exactly once:  *)
(* the largest or the smallest byte, or the sum or the product of all of   *)
(* them modulo 256, whatever the tree and the order in which partial       *)
(* results wrapped around (mimpi_common.c:612-634).                        *)
(***************************************************************************)
Owns(Q, i) == {Own(q, i) : q \in Q}

\* The sum and the product of the bytes of the processes in Q up to each rank.
Sums(Q, i) ==
    LET sum[n \in 0 .. N] ==
            IF n = 0 THEN 0 ELSE IF n \in Q THEN sum[n - 1] + Own(n, i) ELSE sum[n - 1]
    IN sum
Products(Q, i) ==
    LET prod[n \in 0 .. N] ==
            IF n = 0 THEN 1 ELSE IF n \in Q THEN prod[n - 1] * Own(n, i) ELSE prod[n - 1]
    IN prod

\* The bytes of the processes in Q, each taken once.
Reduced(Q, i, op) ==
    CASE op = "MAX"  -> Sets!Max(Owns(Q, i))
      [] op = "MIN"  -> Sets!Min(Owns(Q, i))
      [] op = "SUM"  -> Sums(Q, i)[N] % 256
      [] op = "PROD" -> Products(Q, i)[N] % 256

Delivered(p) ==
    LET o == Current(p) IN
    CASE o.kind = "bcast" ->
           ret[p].data = [i \in 1 .. o.count |-> Own(Root(o), i)]
      [] o.kind = "reduce" /\ p = Root(o) ->
           ret[p].data = [i \in 1 .. o.count |-> Reduced(Procs, i, o.op)]
      [] OTHER -> ret[p].data = <<>>

DataArrives == \A p \in Procs : ret[p].code = "SUCCESS" => Delivered(p)

(***************************************************************************)
(* Synchronises: the tree of pipes implements SyncPoint.  Besides          *)
(* GroupSync: a call fails only if some process has left without beginning *)
(* it, or has died; a process that leaves after the call, while others are *)
(* still in it, makes none of them fail.                                   *)
(***************************************************************************)
Where(p) ==
    CASE status[p] = "left" -> "left"
      [] status[p] \in {"dead", "aborted"} -> "dead"
      [] status[p] = "running" /\ phase[p] = Outside -> "outside"
      [] OTHER -> "inside"

S == INSTANCE SyncPoint WITH
        entered <- round, passed <- done, where <- [p \in Procs |-> Where(p)]

Synchronises == S!Spec

(***************************************************************************)
(* CallsReturn: under FairSpec no group call blocks for ever: the waits of *)
(* the tree and of the direct pipes form no cycle, and a process that has  *)
(* gone makes everyone who waits for it fail, directly or through others   *)
(* (assignment_EN.md:130-136).  As programs make finitely many calls, all  *)
(* of them return if and only if in the end none is in progress.           *)
(***************************************************************************)
CallsReturn == <>[](\A p \in Procs : ~Busy(p))

(***************************************************************************)
(* What the documentation promises and the code does not do.               *)
(***************************************************************************)
\* mimpi.h:115-116: MIMPI_Barrier returns ERROR_REMOTE_FINISHED "if any
\* process in the world has already escaped MPI block".  It does not end the
\* process that calls it.
NoAbort == \A p \in Procs : status[p] # "aborted"
=============================================================================
