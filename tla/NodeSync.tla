------------------------------ MODULE NodeSync ------------------------------
(***************************************************************************)
(* The UDP service of a node (NodeServiceInner and its SyncState): peers   *)
(* are discovered by presence announcements, vetted by node info, asked    *)
(* for their tip, and missing blocks are fetched one at a time; accepted   *)
(* transactions are announced and fetched.                                 *)
(*                                                                         *)
(* Chains are abstract here: a block is its proposer and the set of its    *)
(* transactions, and a block fits a chain when its height is the next one. *)
(* Replica justifies this: nodes with one validator list hold equal blocks *)
(* at equal heights, so the parent of the next block is the last one.      *)
(*                                                                         *)
(* UDP frames are a set: delivered in any order.  A budget bounds the      *)
(* frames that are lost and the processes that restart.                    *)
(***************************************************************************)
EXTENDS Naturals, Sequences, SequencesExt, FiniteSets

CONSTANTS
    Node,
    Order,          \* the validators, in proposing order (a sequence of nodes)
    Bootstrap,      \* Bootstrap[n]: static peers and members of the multicast group
    Info,           \* Info[n]: wire version, oldest wire version accepted, chain id
    ProduceEmpty,   \* the nodes that also produce empty blocks
    Tx,             \* transactions (identifiers)
    Stored,         \* Stored[n]: the chain node n has on disk at first
    MaxHeight,      \* bound on the length of a chain
    MaxFrames,      \* timers fire while fewer frames are under way
    MaxInFrame,     \* transactions of a block that fits into one 64 KiB frame
    Budgets         \* bounds on faults: a set of [lost |-> , restarts |-> ]

\* A block of a chain on disk or made later.
Recorded == UNION {UNION {Stored[n][h].transactions : h \in DOMAIN Stored[n]} : n \in Node}
AnyBlock == [proposer : Node, transactions : SUBSET (Tx \cup Recorded)]

ASSUME NodeSyncConstants ==
    /\ Stored \in [Node -> Seq(AnyBlock)]
    /\ Order \in Seq(Node) /\ Order # << >>
    /\ Bootstrap \in [Node -> SUBSET Node] /\ \A n \in Node : n \notin Bootstrap[n]
    /\ Info \in [Node -> [wire : Nat, min : Nat, chain : Nat]]
    /\ MaxHeight \in Nat /\ MaxInFrame \in Nat
    /\ Budgets \subseteq [lost : Nat, restarts : Nat]

VARIABLES
    chain,      \* chain[n]: the blocks of node n
    pool,       \* pool[n]: pending transactions
    known,      \* known[n]: SyncState.known_peers
    rejected,   \* rejected[n]: SyncState.peer_rejections
    tips,       \* tips[n][m]: peer_tip_heights (0 when absent)
    inFlight,   \* inFlight[n][m]: in_flight_blocks (0 when absent)
    waiting,    \* waiting[n][m]: pending_transaction_announcements
    probed,     \* probed[n]: peers probed less than 5 seconds ago
    answered,   \* answered[n]: peers sent node info less than 42 seconds ago
    net,        \* frames under way
    budget      \* faults that may still happen

book == <<known, rejected>>
sync == <<tips, inFlight>>
timers == <<probed, answered>>
vars == <<chain, pool, book, sync, waiting, timers, net, budget>>

Height(n) == Len(chain[n])
Block(n, txs) == [proposer |-> n, transactions |-> txs]
Committed(c) == UNION {c[h].transactions : h \in DOMAIN c}

MutProposers(h) == {Order[i] : i \in DOMAIN Order}    \* mutant: no turns

\* The nodes that may propose the block at height h: round robin over Order.
Proposers(h) == {Order[((h - 1) % Len(Order)) + 1]}

Init ==
    /\ chain = Stored
    /\ pool = [n \in Node |-> {}]
    /\ known = [n \in Node |-> {}]
    /\ rejected = [n \in Node |-> {}]
    /\ tips = [n \in Node |-> [m \in Node |-> 0]]
    /\ inFlight = [n \in Node |-> [m \in Node |-> 0]]
    /\ waiting = [n \in Node |-> [m \in Node |-> {}]]
    /\ probed = [n \in Node |-> {}]
    /\ answered = [n \in Node |-> {}]
    /\ net = {}
    /\ budget \in Budgets

(***************************************************************************)
(* Frames.                                                                 *)
(***************************************************************************)
Frame(type, n, m) == [type |-> type, src |-> n, dst |-> m]
HeightFrame(type, n, m, h) == [type |-> type, src |-> n, dst |-> m, height |-> h]
BlockFrame(type, n, m, h, block) ==
    [type |-> type, src |-> n, dst |-> m, height |-> h, block |-> block]
TxFrame(type, n, m, tx) == [type |-> type, src |-> n, dst |-> m, tx |-> tx]
TxBodyFrame(n, m, tx, found) ==
    [type |-> "TransactionResponse", src |-> n, dst |-> m, tx |-> tx, found |-> found]

Types == {"PresenceAnnounce", "NodeInfo", "TipRequest", "TipResponse",
          "BlockRequest", "BlockResponse", "SubmitBlock", "TransactionAnnounce",
          "TransactionRequest", "TransactionResponse"}

\* The handler of frame f consumes it and sends the frames in out.
Reply(f, out) == net' = (net \ {f}) \cup out

(***************************************************************************)
(* Nothing bounds a block, but sending a message that is longer than a     *)
(* frame fails.                                                            *)
(***************************************************************************)
Sendable(block) == Cardinality(block.transactions) <= MaxInFrame

Announcements(n, tx) == {TxFrame("TransactionAnnounce", n, m, tx) : m \in Bootstrap[n]}

-----------------------------------------------------------------------------
(***************************************************************************)
(* Timers.                                                                 *)
(***************************************************************************)
Room == Cardinality(net) < MaxFrames

AnnouncePresence(n) ==
    /\ Room
    /\ net' = net \cup {Frame("PresenceAnnounce", n, m) : m \in Bootstrap[n]}
    /\ UNCHANGED <<chain, pool, book, sync, waiting, timers, budget>>

RequestTips(n) ==
    /\ Room
    /\ net' = net \cup {Frame("TipRequest", n, m) : m \in known[n]}
    /\ UNCHANGED <<chain, pool, book, sync, waiting, timers, budget>>

\* produce_now: a new block with all pending transactions, stored, then sent to
\* the known peers if it can be.
Produce(n) ==
    LET block == Block(n, pool[n])
    IN  /\ Height(n) < MaxHeight
        /\ n \in Proposers(Height(n) + 1)
        /\ pool[n] # {} \/ n \in ProduceEmpty
        /\ chain' = [chain EXCEPT ![n] = Append(@, block)]
        /\ pool' = [pool EXCEPT ![n] = {}]
        /\ net' = net \cup {BlockFrame("SubmitBlock", n, m, Height(n) + 1, block) :
                               m \in IF Sendable(block) THEN known[n] ELSE {}}
        /\ UNCHANGED <<book, sync, waiting, timers, budget>>

\* NODE_INFO_PROBE_MIN_INTERVAL and NODE_INFO_RESPONSE_MIN_INTERVAL go by.
ProbeIntervalEnds(n, m) ==
    /\ m \in probed[n]
    /\ probed' = [probed EXCEPT ![n] = @ \ {m}]
    /\ UNCHANGED <<chain, pool, book, sync, waiting, answered, net, budget>>

AnswerIntervalEnds(n, m) ==
    /\ m \in answered[n]
    /\ answered' = [answered EXCEPT ![n] = @ \ {m}]
    /\ UNCHANGED <<chain, pool, book, sync, waiting, probed, net, budget>>

-----------------------------------------------------------------------------
(***************************************************************************)
(* Discovery.                                                              *)
(***************************************************************************)
NodeInfoFrame(n, m) == Frame("NodeInfo", n, m)

\* Mutant: the chain id is not compared.
MutCompatible(n, m) == Info[m].wire >= Info[n].min /\ Info[m].min <= Info[n].wire

\* ensure_node_info_compatible: wire versions overlap, chain ids are equal.
Compatible(n, m) ==
    /\ Info[m].wire >= Info[n].min
    /\ Info[m].min <= Info[n].wire
    /\ Info[m].chain = Info[n].chain

OnPresenceAnnounce(f) ==
    LET n == f.dst
        m == f.src
        respond == m \notin known[n] \/ m \notin answered[n]
    IN  /\ f.type = "PresenceAnnounce"
        /\ answered' = [answered EXCEPT ![n] = IF respond THEN @ \cup {m} ELSE @]
        /\ Reply(f, IF respond THEN {NodeInfoFrame(n, m)} ELSE {})
        /\ UNCHANGED <<chain, pool, book, sync, waiting, probed, budget>>

HasTransaction(n, tx) == tx \in pool[n] \cup Committed(chain[n])

(***************************************************************************)
(* handle_node_info: an incompatible peer is forgotten and remembered as   *)
(* rejected; a compatible one becomes known, and the transactions it       *)
(* announced while unknown are requested.                                  *)
(***************************************************************************)
OnNodeInfo(f) ==
    LET n == f.dst
        m == f.src
        missing == {tx \in waiting[n][m] : ~HasTransaction(n, tx)}
    IN  /\ f.type = "NodeInfo"
        /\ waiting' = [waiting EXCEPT ![n][m] = {}]
        /\ \/ /\ ~Compatible(n, m)
              /\ known' = [known EXCEPT ![n] = @ \ {m}]
              /\ rejected' = [rejected EXCEPT ![n] = @ \cup {m}]
              /\ Reply(f, {})
              /\ UNCHANGED probed
           \/ /\ Compatible(n, m)
              /\ known' = [known EXCEPT ![n] = @ \cup {m}]
              /\ rejected' = [rejected EXCEPT ![n] = @ \ {m}]
              /\ probed' = [probed EXCEPT ![n] = @ \ {m}]
              /\ Reply(f, {TxFrame("TransactionRequest", n, m, tx) : tx \in missing})
        /\ UNCHANGED <<chain, pool, sync, answered, budget>>

(***************************************************************************)
(* ensure_compatible_peer for a frame from an unknown peer: the frame is   *)
(* dropped and, unless the peer is rejected, the peer is probed (at most   *)
(* once per interval).                                                     *)
(***************************************************************************)
ProbeFrames(n, m) == IF m \in probed[n] THEN {}
                     ELSE {Frame("PresenceAnnounce", n, m), NodeInfoFrame(n, m)}

Probe(n, m) ==
    /\ probed' = [probed EXCEPT ![n] = @ \cup {m}]
    /\ answered' = [answered EXCEPT ![n] = IF m \in probed[n] THEN @ ELSE @ \cup {m}]

Gated == {"TipRequest", "TipResponse", "BlockRequest", "BlockResponse", "SubmitBlock",
          "TransactionRequest", "TransactionResponse"}

OnUnknownPeer(f) ==
    /\ f.type \in Gated
    /\ f.src \notin known[f.dst]
    /\ \/ /\ f.src \in rejected[f.dst]
          /\ Reply(f, {})
          /\ UNCHANGED timers
       \/ /\ f.src \notin rejected[f.dst]
          /\ Reply(f, ProbeFrames(f.dst, f.src))
          /\ Probe(f.dst, f.src)
    /\ UNCHANGED <<chain, pool, book, sync, waiting, budget>>

-----------------------------------------------------------------------------
(***************************************************************************)
(* Tips and blocks.  All handlers below serve known peers only.            *)
(***************************************************************************)
FromKnown(f, type) == f.type = type /\ f.src \in known[f.dst]

OnTipRequest(f) ==
    /\ FromKnown(f, "TipRequest")
    /\ Reply(f, {HeightFrame("TipResponse", f.dst, f.src, Height(f.dst))})
    /\ UNCHANGED <<chain, pool, book, sync, waiting, timers, budget>>

(***************************************************************************)
(* request_next_missing_block, for a node whose chain has length local and *)
(* whose in_flight_blocks entry for the peer is flying: the heights it     *)
(* requests (one or none), and the entry afterwards.                       *)
(***************************************************************************)
\* Mutants: the peer's last block is never asked for; one beyond it is.
MutFetchShort(flying, local, remoteTip) ==
    IF remoteTip <= local + 1 \/ flying = local + 1 THEN {} ELSE {local + 1}

MutFetchLong(flying, local, remoteTip) ==
    IF remoteTip < local \/ flying = local + 1 THEN {} ELSE {local + 1}

Fetch(flying, local, remoteTip) ==
    IF remoteTip <= local \/ flying = local + 1 THEN {} ELSE {local + 1}

Flying(flying, local, remoteTip) ==
    IF Fetch(flying, local, remoteTip) = {} THEN flying ELSE local + 1

Requests(n, m, flying, local, remoteTip) ==
    {HeightFrame("BlockRequest", n, m, h) : h \in Fetch(flying, local, remoteTip)}

OnTipResponse(f) ==
    LET n == f.dst
        m == f.src
    IN  /\ FromKnown(f, "TipResponse")
        /\ tips' = [tips EXCEPT ![n][m] = f.height]
        /\ inFlight' = [inFlight EXCEPT ![n][m] = Flying(@, Height(n), f.height)]
        /\ Reply(f, Requests(n, m, inFlight[n][m], Height(n), f.height))
        /\ UNCHANGED <<chain, pool, book, waiting, timers, budget>>

\* The block at a height, if the node has it (an Option); no answer if it is
\* longer than a frame.
OnBlockRequest(f) ==
    LET block == IF f.height \in DOMAIN chain[f.dst] THEN <<chain[f.dst][f.height]>>
                                                     ELSE << >>
    IN  /\ FromKnown(f, "BlockRequest")
        /\ Reply(f, IF block # << >> => Sendable(block[1])
                    THEN {BlockFrame("BlockResponse", f.dst, f.src, f.height, block)}
                    ELSE {})
        /\ UNCHANGED <<chain, pool, book, sync, waiting, timers, budget>>

\* apply_remote_block: only the next block fits.
Fits(n, height) == height = Height(n) + 1

Apply(n, height, block) ==
    /\ chain' = [chain EXCEPT ![n] = IF Fits(n, height) THEN Append(@, block) ELSE @]
    /\ pool' = [pool EXCEPT ![n] = IF Fits(n, height) THEN @ \ block.transactions ELSE @]

(***************************************************************************)
(* handle_block_response: the entry is cleared first; then, unless there   *)
(* is no block or it does not fit, the next missing block is requested     *)
(* (remoteTip = 0 requests nothing).                                       *)
(***************************************************************************)
OnBlockResponse(f) ==
    LET n == f.dst
        m == f.src
        local == IF f.block # << >> /\ Fits(n, f.height) THEN Height(n) + 1 ELSE Height(n)
        remoteTip == IF f.block # << >> /\ f.height <= local THEN tips[n][m] ELSE 0
    IN  /\ FromKnown(f, "BlockResponse")
        /\ IF f.block # << >> THEN Apply(n, f.height, f.block[1])
                              ELSE UNCHANGED <<chain, pool>>
        /\ inFlight' = [inFlight EXCEPT ![n][m] = Flying(0, local, remoteTip)]
        /\ Reply(f, Requests(n, m, 0, local, remoteTip))
        /\ UNCHANGED <<book, tips, waiting, timers, budget>>

\* A block that does not fit is refused; the response only says so.
OnSubmitBlock(f) ==
    /\ FromKnown(f, "SubmitBlock")
    /\ Apply(f.dst, f.height, f.block)
    /\ Reply(f, {})
    /\ UNCHANGED <<book, sync, waiting, timers, budget>>

-----------------------------------------------------------------------------
(***************************************************************************)
(* Transactions.                                                           *)
(***************************************************************************)
(***************************************************************************)
(* A client submits a new transaction (one that is pending or committed    *)
(* changes nothing).  The client is answered first: if that fails, the     *)
(* handler returns and the accepted transaction is not announced.          *)
(***************************************************************************)
SubmitTransaction(n, tx) ==
    /\ ~HasTransaction(n, tx)
    /\ pool' = [pool EXCEPT ![n] = @ \cup {tx}]
    /\ \/ net' = net \cup Announcements(n, tx)
       \/ UNCHANGED net
    /\ UNCHANGED <<chain, book, sync, waiting, timers, budget>>

OnTransactionAnnounce(f) ==
    LET n == f.dst
        m == f.src
    IN  /\ f.type = "TransactionAnnounce"
        /\ \/ /\ HasTransaction(n, f.tx) \/ (m \notin known[n] /\ m \in rejected[n])
              /\ Reply(f, {})
              /\ UNCHANGED <<waiting, timers>>
           \/ /\ ~HasTransaction(n, f.tx) /\ m \in known[n]
              /\ Reply(f, {TxFrame("TransactionRequest", n, m, f.tx)})
              /\ UNCHANGED <<waiting, timers>>
           \/ /\ ~HasTransaction(n, f.tx) /\ m \notin known[n] \cup rejected[n]
              /\ waiting' = [waiting EXCEPT ![n][m] = @ \cup {f.tx}]
              /\ Reply(f, ProbeFrames(n, m))
              /\ Probe(n, m)
        /\ UNCHANGED <<chain, pool, book, sync, budget>>

\* transaction_by_id finds pending transactions only.
MutServes(n, tx) == tx \in Committed(chain[n])    \* mutant: committed ones only

Serves(n, tx) == tx \in pool[n]

OnTransactionRequest(f) ==
    /\ FromKnown(f, "TransactionRequest")
    /\ Reply(f, {TxBodyFrame(f.dst, f.src, f.tx, Serves(f.dst, f.tx))})
    /\ UNCHANGED <<chain, pool, book, sync, waiting, timers, budget>>

OnTransactionResponse(f) ==
    LET n == f.dst
        fresh == f.found /\ ~HasTransaction(n, f.tx)
    IN  /\ FromKnown(f, "TransactionResponse")
        /\ pool' = [pool EXCEPT ![n] = IF fresh THEN @ \cup {f.tx} ELSE @]
        /\ Reply(f, IF fresh THEN Announcements(n, f.tx) ELSE {})
        /\ UNCHANGED <<chain, book, sync, waiting, timers, budget>>

-----------------------------------------------------------------------------
(***************************************************************************)
(* Faults.  A restart keeps the chain, which is on disk, and nothing else; *)
(* any of the frames that arrive while the process is down are lost.       *)
(***************************************************************************)
Restart(n) ==
    /\ budget.restarts > 0
    /\ budget' = [budget EXCEPT !.restarts = @ - 1]
    /\ pool' = [pool EXCEPT ![n] = {}]
    /\ known' = [known EXCEPT ![n] = {}]
    /\ rejected' = [rejected EXCEPT ![n] = {}]
    /\ tips' = [tips EXCEPT ![n] = [m \in Node |-> 0]]
    /\ inFlight' = [inFlight EXCEPT ![n] = [m \in Node |-> 0]]
    /\ waiting' = [waiting EXCEPT ![n] = [m \in Node |-> {}]]
    /\ probed' = [probed EXCEPT ![n] = {}]
    /\ answered' = [answered EXCEPT ![n] = {}]
    /\ \E lost \in SUBSET {f \in net : f.dst = n} : net' = net \ lost
    /\ UNCHANGED chain

Lose(f) ==
    /\ budget.lost > 0
    /\ budget' = [budget EXCEPT !.lost = @ - 1]
    /\ net' = net \ {f}
    /\ UNCHANGED <<chain, pool, book, sync, waiting, timers>>

-----------------------------------------------------------------------------
Receive(f) ==
    \/ OnPresenceAnnounce(f)
    \/ OnNodeInfo(f)
    \/ OnUnknownPeer(f)
    \/ OnTipRequest(f)
    \/ OnTipResponse(f)
    \/ OnBlockRequest(f)
    \/ OnBlockResponse(f)
    \/ OnSubmitBlock(f)
    \/ OnTransactionAnnounce(f)
    \/ OnTransactionRequest(f)
    \/ OnTransactionResponse(f)

Next ==
    \/ \E n \in Node :
          \/ AnnouncePresence(n)
          \/ RequestTips(n)
          \/ Produce(n)
          \/ Restart(n)
          \/ \E tx \in Tx : SubmitTransaction(n, tx)
          \/ \E m \in Node : ProbeIntervalEnds(n, m) \/ AnswerIntervalEnds(n, m)
    \/ \E f \in net : Receive(f) \/ Lose(f)

Spec == Init /\ [][Next]_vars

(***************************************************************************)
(* Timers keep firing, and a link keeps delivering the frames of each      *)
(* type, in some order.                                                    *)
(***************************************************************************)
Deliver(type, n, m) ==
    \E f \in net : f.type = type /\ f.src = n /\ f.dst = m /\ Receive(f)

Fairness ==
    \A n \in Node :
        /\ SF_vars(AnnouncePresence(n))
        /\ SF_vars(RequestTips(n))
        /\ WF_vars(Produce(n))
        /\ \A m \in Node :
              /\ WF_vars(ProbeIntervalEnds(n, m))
              /\ WF_vars(AnswerIntervalEnds(n, m))
              /\ \A type \in Types : WF_vars(Deliver(type, n, m))

FairSpec == Spec /\ Fairness

-----------------------------------------------------------------------------
Peers(n) == {m \in Node \ {n} : Compatible(n, m)}

\* The chains of any two nodes of the cluster are one a prefix of the other,
\* whatever frames are lost or late and whoever restarts (only the next block
\* fits, and each height has one proposer).
Consistent ==
    \A n \in Node : \A m \in Peers(n) :
        IsPrefix(chain[n], chain[m]) \/ IsPrefix(chain[m], chain[n])

\* A block request always names a block the peer has, even when it was sent on
\* an old tip and the peer restarted since: an answer without a block, after
\* which the node would ask nobody, does not happen (request_next_missing_block).
AsksForExisting ==
    \A f \in net : f.type = "BlockRequest" => f.height <= Height(f.dst)

\* The nodes of one network: those with one chain id, whatever wire versions
\* they speak.
Network(n) == {m \in Node : Info[m].chain = Info[n].chain}

\* Transactions that only nodes of another network committed never reach a chain
\* of this one (ensure_node_info_compatible, ensure_compatible_peer).
Quarantine ==
    \A n \in Node :
        Committed(chain[n]) \subseteq Tx \cup UNION {Committed(Stored[m]) : m \in Network(n)}

\* A node that lags behind a peer catches up with it.
CatchUp ==
    \A n \in Node : \A h \in 1..MaxHeight :
        (\E m \in Peers(n) : Height(m) >= h) ~> Height(n) >= h

CommittedEverywhere(tx) == \A n \in Node : tx \in Committed(chain[n])

\* A transaction that a node of the cluster accepted when the nodes knew each
\* other, and announced, is committed by all of them (right after
\* handle_submitted_transaction all announcements are under way).
Acquainted == \A n \in Node : Peers(n) \subseteq known[n]

IngressAmongAcquainted ==
    \A n \in Node, tx \in Tx :
        (tx \in pool[n] /\ Acquainted /\ Announcements(n, tx) \subseteq net)
            ~> CommittedEverywhere(tx)
=============================================================================
