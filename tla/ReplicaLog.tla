----------------------------- MODULE ReplicaLog -----------------------------
(***************************************************************************)
(* Replica implements ReplicatedLog: the cluster of a validator list is    *)
(* the set of nodes configured with it, the writer of a slot is the owner  *)
(* of the key whose turn it is, a member holds its NodeRuntime.blocks (for *)
(* a process that is down, what it held when it died), and the log is the  *)
(* longest of these.                                                       *)
(***************************************************************************)
EXTENDS Replica

CONSTANT List    \* the validator list of the cluster

ASSUME ListAssumption == List \in Seq(Key) /\ List # << >>

Cluster == {n \in Node : Validators[n] = List}

LongestHeld ==
    LET histories == {blocks[n] : n \in Cluster}
    IN  CHOOSE s \in histories : \A t \in histories : Len(t) <= Len(s)

Abstract == INSTANCE ReplicatedLog
                WITH Member <- Cluster,
                     Writer <- LAMBDA slot : OwnerOf[ExpectedProposer(List, slot)],
                     log    <- LongestHeld,
                     held   <- [n \in Cluster |-> blocks[n]]

\* The nodes of a cluster implement one replicated log with one writer per slot:
\* a block enters the log only when its round-robin proposer, holding every
\* earlier block, adopts it (propose_block and apply_block, or the replay of a
\* block that was saved and not adopted before a crash); everyone else only
\* learns blocks of the log, in order, whatever is lost, repeated or interrupted.
ImplementsLog == Abstract!Spec
=============================================================================
