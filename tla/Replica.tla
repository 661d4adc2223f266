------------------------------ MODULE Replica ------------------------------
(***************************************************************************)
(* The nodes of a network as replicas of a chain: NodeRuntime (chain,      *)
(* blocks, pending transactions), its two files (block history and chain   *)
(* state snapshot) and the operations that change them: producing a block, *)
(* applying a received one, admitting a transaction, losing power, and     *)
(* starting up from the files.                                             *)
(*                                                                         *)
(* Every operation runs under the runtime mutex, so it is one action; the  *)
(* start-up replay is not (nothing else runs in the process, but the       *)
(* process may die in the middle), so it goes block by block.              *)
(*                                                                         *)
(* The network is the set `wire' of blocks that some node has sent, by     *)
(* broadcasting them or by answering a request.  Any of them may be        *)
(* delivered to any node at any time, any number of times, or never.       *)
(***************************************************************************)
EXTENDS Consensus

CONSTANTS
    Node,
    Key,            \* public keys
    OwnerOf,        \* OwnerOf[k]: the node that generated (and alone holds) key k
    KeyFile,        \* the nodes whose key is kept in a file; others make a new one
    Validators,     \* Validators[n]: the validator list node n is configured with
    ChainIdOf,      \* ChainIdOf[n]: the chain id node n is configured with
    Producer,       \* the nodes that produce
    ProduceEmpty,   \* the nodes that also produce empty blocks
    Txs,            \* the transactions clients and peers submit
    Clock,          \* readings of a node's clock, in seconds
    MaxHeight       \* bound on the height of the chain

ASSUME ReplicaConstants ==
    /\ OwnerOf \in [Key -> Node]
    /\ Validators \in [Node -> Seq(Key)]
    /\ Clock \subseteq Nat
    /\ MaxHeight \in Nat

VARIABLES
    phase,        \* phase[n]: "down", "replaying", "up", or "refused" to start
    key,          \* key[n]: the signing key of the process
    chain,        \* chain[n]: NodeRuntime.chain (while replaying: rebuilt so far)
    blocks,       \* blocks[n]: NodeRuntime.blocks (while not up: when last up)
    pending,      \* pending[n]: NodeRuntime.pending_transactions
    diskBlocks,   \* diskBlocks[n]: the block history file
    diskChain,    \* diskChain[n]: the chain state file, an Option
    wire          \* the blocks that have been sent

memory == <<key, chain, blocks, pending>>
disk   == <<diskBlocks, diskChain>>
vars   == <<phase, memory, disk, wire>>

KeysOf(n) == {k \in Key : OwnerOf[k] = n}

\* The list the consensus engine of a running node checks proposers against.
EngineValidators(n) == EffectiveValidators(Validators[n], key[n])

Init ==
    /\ phase = [n \in Node |-> "down"]
    /\ key \in [Node -> Key] /\ \A n \in Node : OwnerOf[key[n]] = n
    /\ chain = [n \in Node |-> DefaultChainState(ChainIdOf[n])]
    /\ blocks = [n \in Node |-> << >>]
    /\ pending = [n \in Node |-> << >>]
    /\ diskBlocks = [n \in Node |-> << >>]
    /\ diskChain = [n \in Node |-> None]
    /\ wire = {}

-----------------------------------------------------------------------------
(***************************************************************************)
(* The mempool.                                                            *)
(***************************************************************************)
CommittedIds(history) ==
    UNION {{TxId(history[h].transactions[i]) : i \in DOMAIN history[h].transactions} :
              h \in DOMAIN history}

PendingIds(txs) == {TxId(txs[i]) : i \in DOMAIN txs}

(***************************************************************************)
(* reconcile_pending_transactions: committed transactions go; the others   *)
(* are replayed on one scratch ledger, in order, and the ones it rejects   *)
(* go.                                                                     *)
(***************************************************************************)
\* Mutants: invalid transactions stay; committed transactions stay.
MutReconcileInvalid(newChain, history, txs) ==
    SelectSeq(txs, LAMBDA tx : TxId(tx) \notin CommittedIds(history))

MutReconcileCommitted(newChain, history, txs) ==
    LET keep(acc, tx) ==
            LET applied == ApplyTransaction(acc.ledger, tx, newChain.height + 1,
                                            newChain.chain_id)
            IN  [ledger |-> applied.ledger,
                 kept   |-> IF applied.result = "ok" THEN Append(acc.kept, tx)
                                                     ELSE acc.kept]
    IN  FoldLeft(keep, [ledger |-> newChain.ledger, kept |-> << >>], txs).kept

Reconcile(newChain, history, txs) ==
    LET committed == CommittedIds(history)
        keep(acc, tx) ==
            IF TxId(tx) \in committed THEN acc
            ELSE LET applied == ApplyTransaction(acc.ledger, tx, newChain.height + 1,
                                                 newChain.chain_id)
                 IN  [ledger |-> applied.ledger,
                      kept   |-> IF applied.result = "ok" THEN Append(acc.kept, tx)
                                                          ELSE acc.kept]
    IN  FoldLeft(keep, [ledger |-> newChain.ledger, kept |-> << >>], txs).kept

(***************************************************************************)
(* accept_transaction, for a transaction that is neither committed nor     *)
(* pending (the other two returns change nothing).                         *)
(***************************************************************************)
AcceptTransaction(n, tx) ==
    /\ phase[n] = "up"
    /\ TxId(tx) \notin CommittedIds(blocks[n]) \cup PendingIds(pending[n])
    /\ Simulate(chain[n], Append(pending[n], tx), chain[n].height + 1).result = "ok"
    /\ pending' = [pending EXCEPT ![n] = Append(@, tx)]
    /\ UNCHANGED <<phase, key, chain, blocks, disk, wire>>

-----------------------------------------------------------------------------
(***************************************************************************)
(* apply_block: validate, apply to a copy, save the history, save the      *)
(* snapshot, adopt.  Saving replaces a file atomically, but may report an  *)
(* error before or after the file was replaced (the directory sync comes   *)
(* after the rename); an error returns early and memory keeps the old      *)
(* chain.  A save that fails before the history was replaced changes       *)
(* nothing, and is left out.                                               *)
(***************************************************************************)
\* Mutant: the history is not saved.
MutAdopt(n, newChain, newBlocks) ==
    /\ UNCHANGED diskBlocks
    /\ diskChain' = [diskChain EXCEPT ![n] = Some(newChain)]
    /\ chain' = [chain EXCEPT ![n] = newChain]
    /\ blocks' = [blocks EXCEPT ![n] = newBlocks]
    /\ pending' = [pending EXCEPT ![n] = Reconcile(newChain, newBlocks, @)]

Adopt(n, newChain, newBlocks) ==
    /\ diskBlocks' = [diskBlocks EXCEPT ![n] = newBlocks]
    /\ diskChain' = [diskChain EXCEPT ![n] = Some(newChain)]
    /\ chain' = [chain EXCEPT ![n] = newChain]
    /\ blocks' = [blocks EXCEPT ![n] = newBlocks]
    /\ pending' = [pending EXCEPT ![n] = Reconcile(newChain, newBlocks, @)]

SaveFails(n, newChain, newBlocks) ==
    /\ diskBlocks' = [diskBlocks EXCEPT ![n] = newBlocks]
    /\ \E snapshot \in {diskChain[n], Some(newChain)} :
          diskChain' = [diskChain EXCEPT ![n] = snapshot]
    /\ UNCHANGED <<chain, blocks, pending>>

\* Mutant: the file, which may be ahead of memory, is extended.
MutHistoryWith(n, block) == Append(diskBlocks[n], block)

HistoryWith(n, block) == Append(blocks[n], block)

NodeApplyBlock(n, block) ==
    LET newChain  == ApplyBlock(chain[n], block)
        newBlocks == HistoryWith(n, block)
    IN  /\ ValidateReplayedBlock(chain[n], block, EngineValidators(n))
        /\ Adopt(n, newChain, newBlocks) \/ SaveFails(n, newChain, newBlocks)
        /\ UNCHANGED <<phase, key, wire>>

(***************************************************************************)
(* produce_one_block: every pending transaction goes into the block; the   *)
(* clock is read once.                                                     *)
(***************************************************************************)
Produce(n, now) ==
    /\ phase[n] = "up" /\ n \in Producer
    /\ chain[n].height < MaxHeight
    /\ CanProposeNextBlock(chain[n], EngineValidators(n), key[n])
    /\ pending[n] # << >> \/ n \in ProduceEmpty
    /\ Simulate(chain[n], pending[n], chain[n].height + 1).result = "ok"
    /\ NodeApplyBlock(n, ProposeBlock(chain[n], pending[n], key[n], now))

\* A block arrives: SubmitBlock, BlockResponse, POST /blocks or HTTP sync.
ReceiveBlock(n, block) ==
    /\ phase[n] = "up"
    /\ NodeApplyBlock(n, block)

\* broadcast_block, an answer to BlockRequest or to GET /blocks/<height>.
SendBlock(n, height) ==
    /\ phase[n] = "up"
    /\ wire' = wire \cup {blocks[n][height]}
    /\ UNCHANGED <<phase, memory, disk>>

-----------------------------------------------------------------------------
(***************************************************************************)
(* The process dies; memory is gone, the files stay.  A crash between the  *)
(* two saves of apply_block leaves what SaveFails followed by Crash does.  *)
(***************************************************************************)
Crash(n) ==
    /\ phase[n] \in {"up", "replaying"}
    /\ phase' = [phase EXCEPT ![n] = "down"]
    /\ chain' = [chain EXCEPT ![n] = DefaultChainState(ChainIdOf[n])]
    /\ pending' = [pending EXCEPT ![n] = << >>]
    /\ UNCHANGED <<key, blocks, disk, wire>>

(***************************************************************************)
(* run_node up to load_or_repair_storage: the key is loaded or generated   *)
(* and the replay starts from the empty chain.                             *)
(***************************************************************************)
Start(n) ==
    /\ phase[n] = "down"
    /\ phase' = [phase EXCEPT ![n] = "replaying"]
    /\ \E k \in IF n \in KeyFile THEN {key[n]} ELSE KeysOf(n) :
          key' = [key EXCEPT ![n] = k]
    /\ UNCHANGED <<chain, blocks, pending, disk, wire>>

\* The history is checked against the configured list, not the engine's.
MutReplayValidators(n) == EngineValidators(n)    \* mutant: the engine's

ReplayValidators(n) == Validators[n]

\* One turn of the loop of rebuild_chain_state_from_blocks.
Replay(n) ==
    LET block == diskBlocks[n][chain[n].height + 1]
    IN  /\ phase[n] = "replaying"
        /\ chain[n].height < Len(diskBlocks[n])
        /\ IF ValidateReplayedBlock(chain[n], block, ReplayValidators(n))
           THEN /\ chain' = [chain EXCEPT ![n] = ApplyBlock(@, block)]
                /\ UNCHANGED phase
           ELSE /\ phase' = [phase EXCEPT ![n] = "refused"]
                /\ UNCHANGED chain
        /\ UNCHANGED <<key, blocks, pending, disk, wire>>

\* Mutant: only the heights are compared.
MutStateDiffers(n) ==
    IF diskChain[n] = None THEN diskBlocks[n] # << >>
    ELSE diskChain[n][1].height # chain[n].height

StateDiffers(n) ==
    IF diskChain[n] = None THEN diskBlocks[n] # << >>
    ELSE LET stored == diskChain[n][1]
         IN  \/ stored.height # chain[n].height
             \/ stored.tip_hash # chain[n].tip_hash
             \/ stored.state_root # chain[n].state_root
             \/ stored.last_timestamp # chain[n].last_timestamp

(***************************************************************************)
(* The rest of load_or_repair_storage once the history is replayed: a      *)
(* snapshot of another chain id is refused, one that differs from the      *)
(* rebuilt chain is overwritten (an error there ends the process; the      *)
(* file may be replaced or not).                                           *)
(***************************************************************************)
WrongChainId(n) == diskChain[n] # None /\ diskChain[n][1].chain_id # ChainIdOf[n]

Repaired(n) == IF StateDiffers(n) THEN Some(chain[n]) ELSE diskChain[n]

FinishStart(n) ==
    /\ phase[n] = "replaying"
    /\ chain[n].height = Len(diskBlocks[n])
    /\ IF WrongChainId(n)
       THEN /\ phase' = [phase EXCEPT ![n] = "refused"]
            /\ UNCHANGED <<blocks, diskChain>>
       ELSE /\ phase' = [phase EXCEPT ![n] = "up"]
            /\ blocks' = [blocks EXCEPT ![n] = diskBlocks[n]]
            /\ diskChain' = [diskChain EXCEPT ![n] = Repaired(n)]
    /\ UNCHANGED <<key, chain, pending, diskBlocks, wire>>

RepairFails(n) ==
    /\ phase[n] = "replaying"
    /\ chain[n].height = Len(diskBlocks[n])
    /\ ~WrongChainId(n) /\ StateDiffers(n)
    /\ phase' = [phase EXCEPT ![n] = "down"]
    /\ chain' = [chain EXCEPT ![n] = DefaultChainState(ChainIdOf[n])]
    /\ \E snapshot \in {diskChain[n], Some(chain[n])} :
          diskChain' = [diskChain EXCEPT ![n] = snapshot]
    /\ UNCHANGED <<key, blocks, pending, diskBlocks, wire>>

-----------------------------------------------------------------------------
Next ==
    \E n \in Node :
        \/ \E tx \in Txs : AcceptTransaction(n, tx)
        \/ \E now \in Clock : Produce(n, now)
        \/ \E block \in wire : ReceiveBlock(n, block)
        \/ \E height \in DOMAIN blocks[n] : SendBlock(n, height)
        \/ Crash(n)
        \/ Start(n)
        \/ Replay(n)
        \/ FinishStart(n)
        \/ RepairFails(n)

Spec == Init /\ [][Next]_vars

-----------------------------------------------------------------------------
\* A value that is a sequence of its own elements.
IsSeq(s) == s \in Seq({s[i] : i \in DOMAIN s})

\* The variables have their types; heights are naturals, and every chain has the
\* chain id its node is configured with.
TypeOK ==
    /\ phase \in [Node -> {"down", "replaying", "up", "refused"}]
    /\ key \in [Node -> Key]
    /\ DOMAIN chain = Node
    /\ \A n \in Node : chain[n].height \in Nat /\ chain[n].chain_id = ChainIdOf[n]
    /\ DOMAIN blocks = Node /\ \A n \in Node : IsSeq(blocks[n])
    /\ DOMAIN pending = Node
    /\ DOMAIN diskBlocks = Node /\ \A n \in Node : IsSeq(diskBlocks[n])
    /\ DOMAIN diskChain = Node

\* Two nodes configured with the same validators never hold different blocks at
\* the same height, whatever is lost, delayed, repeated or reordered, whoever
\* crashes in the middle of saving, and whatever nodes with other validator
\* lists send (validate_block, and apply_block's order of saving and adopting).
Agreement ==
    \A m, n \in Node : Validators[m] = Validators[n] /\ Validators[n] # << >> =>
        \A h \in DOMAIN blocks[m] \cap DOMAIN blocks[n] : blocks[m][h] = blocks[n][h]

\* A running node's chain only grows at its end, and a restart resumes with at
\* least what the node held before it went down (FORK_CHOICE_POLICY: no reorg).
AppendOnly == [][\A n \in Node : IsPrefix(blocks[n], blocks'[n])]_blocks

\* Whatever was sent is in the history file of the node that proposed it: a
\* crash cannot make a proposer forget, and then contradict, a published block
\* (save_block_history comes before the block can be served).
PublishedIsDurable ==
    \A b \in wire :
        LET p == OwnerOf[b.proposer_public_key]
        IN  b.header.height \in DOMAIN diskBlocks[p] /\ diskBlocks[p][b.header.height] = b

\* A node never refuses the files it wrote itself, at whatever point it died or
\* failed to save (load_or_repair_storage).
NeverRefused == \A n \in Node : phase[n] # "refused"

\* When the history file of a running node is its chain, so is the snapshot:
\* start-up repaired whatever an interrupted save left (StateDiffers).
SnapshotRepaired ==
    \A n \in Node : phase[n] = "up" /\ diskBlocks[n] = blocks[n] =>
        \/ diskChain[n] = Some(chain[n])
        \/ diskChain[n] = None /\ blocks[n] = << >>

\* The transactions a running node would put into the next block all apply, one
\* after the other, at the next height, and are new: production is never stuck
\* on a stale mempool (accept_transaction, reconcile_pending_transactions).
MempoolReady ==
    \A n \in Node : phase[n] = "up" =>
        /\ Simulate(chain[n], pending[n], chain[n].height + 1).result = "ok"
        /\ PendingIds(pending[n]) \cap CommittedIds(blocks[n]) = {}

\* No transaction is committed twice on a chain of a node, not even one without
\* inputs, which the ledger alone would accept again.
CommittedOnce ==
    \A n \in Node : \A g, h \in DOMAIN blocks[n] :
        \A i \in DOMAIN blocks[n][g].transactions, j \in DOMAIN blocks[n][h].transactions :
            TxId(blocks[n][g].transactions[i]) = TxId(blocks[n][h].transactions[j])
                => g = h /\ i = j
=============================================================================
