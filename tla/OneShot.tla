------------------------------ MODULE OneShot ------------------------------
(***************************************************************************)
(* qcoin-node run --once, again and again on the same files: pull blocks   *)
(* over HTTP from one peer after the other, produce one block if it is     *)
(* this node's turn, and exit.  The peers go on growing, stop and start.   *)
(*                                                                         *)
(* A block is the chain it belongs to and its height.  A header does not   *)
(* name its chain, and the first block of every chain has the same parent: *)
(* validation alone cannot tell the blocks of a cluster with the same      *)
(* validators and another chain id from this cluster's.                    *)
(***************************************************************************)
EXTENDS Naturals, Sequences, SequencesExt

CONSTANTS
    Peers,         \* the configured peers, all spelled with http:// in front
    ChainOf,       \* ChainOf[p]: the chain id of the peer
    OwnChain,
    Turns,         \* the heights this node proposes
    ProduceEmpty,  \* produce_enabled and produce_empty_blocks
    MaxHeight,     \* bound on the height of every chain
    MaxFaults      \* bound: how often a peer stops or a request fails

ASSUME OneShotConstants ==
    /\ Peers # << >>
    /\ Turns \subseteq 1..MaxHeight /\ MaxFaults \in Nat

Peer == ToSet(Peers)

VARIABLES
    blocks,    \* the node's history, in memory and in its file
    held,      \* held[p]: the height of peer p
    up,        \* the peers that answer
    faults,    \* how often peers have stopped and requests have failed
    pc,        \* where the process is
    at,        \* the position of the peer it syncs from
    tip        \* tip.height of that peer, as it answered

remote == <<held, up, faults>>
vars == <<blocks, remote, pc, at, tip>>

Block(chain, height) == [chain |-> chain, height |-> height]

Init ==
    /\ blocks = << >>
    /\ held = [p \in Peer |-> 0] /\ up = {} /\ faults = 0
    /\ pc = "exited" /\ at = 1 /\ tip = 0

-----------------------------------------------------------------------------
\* The cluster: a height is this node's turn or somebody else's, and what this
\* node produces here is not sent to anybody.
PeerGrows(p) ==
    /\ held[p] < MaxHeight
    /\ ChainOf[p] = OwnChain => held[p] + 1 \notin Turns
    /\ held' = [held EXCEPT ![p] = @ + 1]
    /\ UNCHANGED <<blocks, up, faults, pc, at, tip>>

PeerStarts(p) ==
    /\ p \notin up
    /\ up' = up \union {p}
    /\ UNCHANGED <<blocks, held, faults, pc, at, tip>>

PeerStops(p) ==
    /\ p \in up /\ faults < MaxFaults
    /\ up' = up \ {p} /\ faults' = faults + 1
    /\ UNCHANGED <<blocks, held, pc, at, tip>>

-----------------------------------------------------------------------------
Source == Peers[at]

\* An HTTP request is answered when the peer is up.  (A peer that is spelled
\* without http:// never answers: the request has no valid URL.)
Answers == Source \in up

Start ==
    /\ pc = "exited"
    /\ pc' = "node-info" /\ at' = 1
    /\ UNCHANGED <<blocks, remote, tip>>

\* The loop of sync_all_peers_http: an error is reported, and the next peer has
\* its turn.
NextPeer ==
    /\ pc' = IF at = Len(Peers) THEN "produce" ELSE "node-info"
    /\ at' = IF at = Len(Peers) THEN at ELSE at + 1

\* Mutants: an error ends the sync; the peer is asked again.
MutAfterError == pc' = "produce" /\ UNCHANGED at
MutAskAgain == UNCHANGED <<pc, at>>

AfterError == NextPeer

CaughtUp == Len(blocks) >= tip

\* A request that fails or times out, an answer that cannot be read, or a save
\* that fails (Replica has the case where the file is replaced all the same).
Fails ==
    /\ pc \in {"node-info", "tip", "block"}
    /\ pc = "block" => ~CaughtUp
    /\ \/ ~Answers /\ UNCHANGED faults
       \/ Answers /\ faults < MaxFaults /\ faults' = faults + 1
    /\ AfterError
    /\ UNCHANGED <<blocks, held, up, tip>>

\* A mutant: only the wire version is compared.
MutCompatible(p) == TRUE

Compatible(p) == ChainOf[p] = OwnChain

NodeInfo ==
    /\ pc = "node-info" /\ Answers
    /\ IF Compatible(Source) THEN pc' = "tip" /\ UNCHANGED at ELSE AfterError
    /\ UNCHANGED <<blocks, remote, tip>>

Tip ==
    /\ pc = "tip" /\ Answers
    /\ tip' = held[Source]
    /\ pc' = "block"
    /\ UNCHANGED <<blocks, remote, at>>

PeerDone ==
    /\ pc = "block" /\ CaughtUp
    /\ NextPeer
    /\ UNCHANGED <<blocks, remote, tip>>

\* validate_block: the next height, and the parent is the last block.
Extends(block) ==
    /\ block.height = Len(blocks) + 1
    /\ blocks # << >> => Last(blocks).chain = block.chain

\* GET /blocks/<next height> and apply_block.
FetchBlock ==
    LET block == Block(ChainOf[Source], Len(blocks) + 1)
    IN  /\ pc = "block" /\ ~CaughtUp /\ Answers
        /\ IF block.height <= held[Source] /\ Extends(block)
           THEN blocks' = Append(blocks, block) /\ UNCHANGED <<pc, at>>
           ELSE AfterError /\ UNCHANGED blocks
        /\ UNCHANGED <<remote, tip>>

\* produce_one_block, with a mempool that is always empty here.
Produce ==
    /\ pc = "produce"
    /\ pc' = "exited"
    /\ blocks' = IF ProduceEmpty /\ Len(blocks) + 1 \in Turns
                 THEN Append(blocks, Block(OwnChain, Len(blocks) + 1))
                 ELSE blocks
    /\ UNCHANGED <<remote, at, tip>>

Step == Fails \/ NodeInfo \/ Tip \/ PeerDone \/ FetchBlock \/ Produce

Next ==
    \/ \E p \in Peer : PeerGrows(p) \/ PeerStarts(p) \/ PeerStops(p)
    \/ Start
    \/ Step

(***************************************************************************)
(* Every request returns within its three seconds; the job is run again;   *)
(* a peer that stopped is started again.                                   *)
(***************************************************************************)
Fairness ==
    /\ WF_vars(Step) /\ WF_vars(Start)
    /\ \A p \in Peer : WF_vars(PeerStarts(p))

Spec == Init /\ [][Next]_vars /\ Fairness

-----------------------------------------------------------------------------
\* The history is one chain of this node's chain id, whatever peer of another
\* chain is asked first and however far it is ahead (sync_from_peer_http's
\* check of node info is what keeps it out).
OwnChainOnly == \A h \in DOMAIN blocks : blocks[h] = Block(OwnChain, h)

\* Every run ends, however the peers grow, stop or disagree.
RunEnds == pc # "exited" ~> pc = "exited"

\* What a peer of this chain holds, a repeated one-shot run has in the end,
\* whatever the other peers do.
PulledInTheEnd ==
    \A p \in Peer : \A h \in 1..MaxHeight :
        (ChainOf[p] = OwnChain /\ held[p] >= h) ~> Len(blocks) >= h
=============================================================================
