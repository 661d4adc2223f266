# A TLA+ model of qcoin

qcoin is a small proof-of-authority blockchain written in Rust: a ledger of
unspent outputs with native assets, a script engine, round-robin block
production by a fixed validator list, and a node that stores its chain in two
files, discovers its peers over UDP multicast and fetches blocks and
transactions from them. This directory models the parts that carry state, checks
them with TLC and proves the central safety results with TLAPS.

## The system: inventory

| component | source | state | operations | modelled by |
|---|---|---|---|---|
| transaction types | `qcoin-types` | none | identifiers, sighash, asset ids, consensus encoding | `Types`, `Codec` |
| script engine | `qcoin-script` | stack and gas of one evaluation | `eval` | `ScriptEngine`, `ScriptMachine` |
| ledger | `qcoin-ledger` | `LedgerState` (UTXOs, assets), `ChainState` | `apply_transaction`, `apply_block`, `state_root` | `Ledger`, `LedgerMachine` |
| consensus rules | `qcoin-consensus` | validator list, own key | `propose_block`, `validate_block`, `validate_replayed_block` | `Consensus`, `ReplicatedLog`, `ReplicaLog` |
| node runtime and persistence | `qcoin-node/src/main.rs` | `NodeRuntime` (chain, blocks, pending), history file, snapshot file | `produce_one_block`, `apply_block`, `accept_transaction`, `reconcile_pending_transactions`, `load_or_repair_storage`, `write_file_atomically` | `Replica`, `Storage` |
| UDP service | `qcoin-node/src/node.rs`, `wire.rs` | `SyncState` (peer book, tips, in-flight requests, parked announcements) | one handler per message, four timers | `NodeSync`, `NodeThreads` |
| HTTP API, one-shot HTTP sync | `main.rs` | none of its own | `GET`/`POST /blocks`, `run --once` | `NodeThreads`, `OneShot`, `Replica` |
| submission client | `main.rs`, `node.rs` | none | `submit-tx` | `Submission` |
| command line, manifest, network configuration, key file | `main.rs`, `node.rs` | the key file | `run_node` up to the running service | `Startup` |
| signature schemes | `qcoin-crypto` | none | key and signature encodings, sign, verify | `Crypto` |
| proactor, network crates | not in the repository | sockets, timers | | external: frames and timers |

How they interact. The node runtime sits behind one mutex. The UDP service
(driven by the proactor's single event loop) and the HTTP thread call
`produce_one_block`, `apply_block` and `accept_transaction` on it; these call the
consensus engine, which simulates transactions on a copy of the ledger, which
evaluates scripts. Nodes exchange UDP frames only; nothing but the two files and
the key file survives a process.

What is hard, and what makes each part correct:

* **Ledger.** Long sequences of legal calls: transactions that are applied again
  (one without inputs always can be), creations that fail half way, sums at the
  width of the integer. Correct: supply is conserved, value is spent once, locks are
  honoured.
* **Scripts, encodings, keys.** Limits met one operation at a time; bytes that mean
  two things. Correct: a script that passes has the signatures, pre-images and
  heights it asks for and stayed within its limits; an encoding has one reading.
* **Replica.** A save can fail before or after the file was replaced, a crash can
  come between the two saves or during start-up, memory and disk can disagree,
  and the node may then produce a second block for the same height. Blocks arrive
  in any order. Correct: nodes of one validator list agree, chains only grow, what
  was published survives, a node accepts its own files, production is never stuck
  on a stale mempool, no transaction is committed twice.
* **Storage.** A process or the power fails between any two system calls of a save.
  Correct: a start reads a whole ledger, and never one older than the last save that
  returned Ok.
* **Start-up.** The same facts come from up to three places in several spellings, and
  the key file may be half-saved. Correct: nodes of one manifest follow one set of
  rules, keep their identity, and can be reached where they were configured to be.
* **NodeSync.** Frames are lost and reordered, processes restart and forget
  everything but the chain, acquaintance is one-sided for a while, requests have no
  timeout. Correct: chains stay consistent, foreign networks are kept out, a
  lagging node catches up, an accepted transaction is committed everywhere.
* **NodeThreads.** A handler uses a height it read under an earlier lock, one failing
  frame ends a drain, an HTTP client decides how long the lock is held. Correct: no
  needed request is blocked, the node takes its turn, a shutdown completes.
* **OneShot, Submission.** Peers change while they are read; a timeout says nothing
  about what happened. Correct: only blocks of the own chain are pulled, in the end
  all of them; what the client prints is true, and submitting again ends in a commit.

`PROJECT.json` lists the hazards with their lines and the properties aimed at
them.

## Modules

* `Types` - transactions, outputs and identifiers. A digest is the tagged value it
  was computed from, so that digests are equal only for equal contents. A
  transaction identifier covers the core and not the witness, as in the code.
* `Codec` - the bytes under those digests: the encodings of transaction cores,
  outputs, asset definitions, scripts, and the pre-images of signature hashes and
  asset identifiers. A field of fixed width is one number; nothing says which field it
  is, and tags, lengths and values overlap. The machine composes a document part by
  part. It discharges, up to the bounds, what `Types` takes for granted.
* `Crypto` - `qcoin-crypto`: sizes, `encode_with_scheme` and `decode_with_scheme` byte
  by byte, the errors, the registry; the libraries are the constants `Keypair` and
  `DetachedSign`. The machine is a deserialiser that is given any bytes.
* `ScriptEngine` - `Eval` folds `EvalOp` over a script: gas is charged first, then
  the opcode runs; an error stops the script. Stack items are tagged by what they
  encode (a `u64`, a digest, a key, a signature, other bytes) and have the length
  the code checks. The relative lock adds heights modulo `HeightMod`, as a release
  build does.
* `ScriptMachine` - every script over a set of opcodes, opcode by opcode, evaluated
  for every input of a set.
* `Ledger` - `ApplyTransaction` returns the result and the ledger left behind,
  with the checks in the order of the code; amounts add modulo `AmountMod`.
  `ApplyBlock` is `ChainState::apply_block`.
* `LedgerMachine` - one ledger and a caller. `Submit` is `apply_transaction`,
  `NextBlock` moves the height on. The journal of accepted transactions is history
  the properties speak about.
* `Consensus` - the proposer of a height, proposing and validating a block.
* `Replica` - a set of nodes with memory and disk. `AcceptTransaction`, `Produce`,
  `ReceiveBlock` and `SendBlock` are the operations under the runtime mutex;
  `NodeApplyBlock` is `apply_block` with its two outcomes `Adopt` and `SaveFails`;
  `Crash`, `Start`, `Replay`, `FinishStart` and `RepairFails` are the life of a
  process. The replay goes block by block because the process may die inside it.
  `wire` only grows: a block in it may be delivered to anybody at any time any
  number of times, or never.
* `ReplicatedLog` - what a cluster promises: one log, one writer per slot, who writes
  only when it holds all of the log; members hold prefixes that only get longer.
  `ReplicaLog` is the refinement mapping from `Replica`: the cluster of a validator
  list, what its members hold, and the longest of these as the log.
* `Storage` - the snapshot format (`ToSnapshot`, `IntoChainState`) and
  `write_file_atomically` in its steps. A file has a written and a synced part; a
  rename is durable once the directory is synced.
* `Startup` - `run_node` up to the running service as one action `RunNode`: keypair
  (created, loaded, or half-saved), validators, chain id, production mode, multicast
  interfaces and groups, peers, discovery targets, sockets. Hex strings keep the key
  they spell and a spelling.
* `NodeSync` - the UDP service. One action per handler (`On...`), per timer, for
  client submission, for restart and for loss. `OnUnknownPeer` is what every gated
  handler does with a frame of a peer that has not completed the node-info
  exchange. Chains are abstract (a block is its proposer and its transactions, and
  fits if its height is the next); `Agreement` of `Replica` justifies this for nodes of
  one validator list. Minimum intervals between probes and between answers are sets of
  recently served peers that a timer empties.
* `NodeThreads` - the event loop and the HTTP thread of one node, one step per lock
  section, with one peer that is ahead.
* `OneShot` - `run --once`, request by request, run again and again on the same files.
* `Submission` - `submit-tx` and `handle_submitted_transaction`, frames in between,
  and an outbox that submits again.
* `MCLedger`, `MCReplica`, `MCSync`, `MCData`, `MCProcess`, `MCOneShot` - the instances
  below. `MCData` (scripts, encodings, keys) and `MCProcess` (start-up, storage) hold
  parts that share no state: each part is explored while the others are at their
  beginning.
* `LedgerProofs`, `ReplicaProofs`, `NodeSyncProofs`, `NodeThreadsProofs`, `OneShotProofs`,
  `SubmissionProofs`, `ProcessProofs` (start-up and storage) and `TransactionProofs`
  (ledger, scripts, keys, encodings) - the theorems.

Definitions whose name starts with `Mut` are deliberate mistakes: each replaces the
definition below it to confirm that a property notices.

## Runs

Passing:

* **ledger** (`MCLedger.cfg`, 106,000 states). Three owners (unlocked, locked
  until height 2, locked for one block), two assets, one with a maximum; every
  transaction over at most two existing outputs with right and wrong witnesses.
  Four accepted transactions suffice to create an asset, split it, move it and try
  to use an old output again, over two heights. Checks `SupplyConserved`,
  `ValueSpentOnce`, `LocksHonoured`.
* **replica** (`MCReplica.cfg`, 7,100 states). Two validators, one of them
  producing empty blocks; a transaction without inputs and two that compete for its
  output. Height 3 gives each validator a turn after the other; the clock's three
  readings are the fewest that allow three blocks. Checks all properties of `Replica`,
  and `ImplementsLog`: the detailed specification implements `ReplicatedLog`.
* **replica_mixed** (`MCReplicaMixed.cfg`, 373,000 states). A validator, an
  observer, and a node without a list whose key changes at each start, and which
  owns a key the list names. At height 2, the validator's turn, the third node
  produces a block of its own as well. Checks `NeverRefused`: the replay of a history
  made under other keys succeeds. (That `Agreement` holds here too is a theorem.)
* **sync** (`MCSync.cfg`, 1,714,000 states). Two proposers from first contact on and a
  third node that runs another chain on the same multicast group and has a block of
  its own; two heights; one lost frame or one restart at any point. Checks
  `Consistent`, `AsksForExisting`, `Quarantine`.
* **sync_live** (`MCSyncLive.cfg`, 42,000 states). Two proposers, one a block behind,
  and a transaction submitted to either at any time; the answer to the client may
  fail, and then nothing is announced. Under fairness, `CatchUp` and
  `IngressAmongAcquainted`.
* **data** (`MCData.cfg`, 477,000 states). Scripts of up to five of sixteen opcodes,
  with a gas budget for three signature checks and a stack of four items, at two
  heights: `SignedForThisInput`, `LocksOpened`, `WithinLimits`. Transactions of up to
  one input and two outputs and scripts of two opcodes, with values that equal lengths
  and tags: `Readable`, `OneMeaning`. Every string of up to eight bytes of three values
  as an encoded key or signature: the prefix is six bytes, so that every length from too
  short to one too long occurs for every scheme: `Canonical`, `AcceptedAsSent`.
* **process** (`MCProcess.cfg`, 11,400 states). Two machines, nine command lines each
  (with and without manifest, network configuration, key file; both schemes; explicit
  roles), interfaces that are down or cannot be listed, up to three generated keys:
  `SameRules`, `NoRivalChains`, `ListedProduce`, `OneIdentity`, `Reachable`. Four saves
  of different ledgers with up to four failing calls, crashes and losses of power:
  `ReadsBack`, `SavedSurvives`.
* **node_threads** (`NodeThreads.cfg`). A peer three blocks ahead, the first two of which
  HTTP clients may post at any time or never finish posting, one failing frame, a signal
  at any time: `RequestUnderWay`, `TakesItsTurn`, `ShutdownCompletes`.
* **one_shot** (`MCOneShot.cfg`, 36,000 states). Three peers, the first one of another
  chain; two stops or failed requests; this node proposes the third block:
  `OwnChainOnly`, `RunEnds`, `PulledInTheEnd`.
* **submission** (`Submission.cfg`). Two valid transactions and an invalid one, two
  ports, two faults: `ToldTheTruth`, `KnownToBeCommitted`.

Runs that find a disagreement with a statement in the repository (quoted under
`findings` in `PROJECT.json`):

* **ledger_signed** - an output locked by a signature can be created and never spent
  (`SignedSpendAccepted`).
* **sync_restart** - a block request lost in the restart of the peer is never
  repeated (`CatchUp` with one restart).

Bounds. `MaxTxs`, `MaxHeight`, `Clock`, `Budgets`, `MaxFaults`, `MaxGen`, `MaxInput` and
the `Max...` of `Codec` bound what would be unbounded;
`MaxFrames` lets a presence or tip timer fire only while fewer frames are under way, which keeps
the number of frames that overtake each other small. Replies and announcements are
never held back. In the ledger and replica runs script limits have their real values
except the width of heights and amounts (256).

Deadlock is not checked where the system may stop: a caller or client may have nothing
more to do, a process may have ended, a document may be complete, and with
every frame already under way a timer changes nothing. The replica and one-shot runs
check it.

## Fairness

* `NodeSync`. The presence, sync and produce timers
  reschedule themselves for as long as the process runs. The presence and tip timers
  are strongly fair, because `MaxFrames`, which the code does not have, disables them
  now and then; production and the two intervals are weakly fair. Each link keeps
  delivering frames of each type (weak fairness for each type and link); which frame
  of the type comes first is left open. Clients, losses and restarts have no fairness.
* `NodeThreads`. Both threads run. A timer that is due fires the next time the event
  loop polls, which it does again and again: strong fairness. The peer answers. Of
  HTTP clients nothing is assumed; a body may never be complete, and the two liveness
  properties name that case (`StuckClient`) as their exception.
* `OneShot`. Requests return (they have a timeout of three seconds), the job is run
  again, peers that stopped are started again. Peers need not grow.
* `Submission`. The outbox submits everything again and again
  (`src/docs/EAB_ANCHOR_TRANSACTION_MODEL.md:78-84`), a run ends by answer or timeout,
  the node handles what arrives and produces. Faults are finitely many.

## Proofs

What is proved holds for every value of the constants that satisfies the `ASSUME` of
the module (`ReplicaConstants`, `NodeSyncConstants`, ...), so for any number of nodes,
keys, frames, faults and restarts. Theorems that need more say so with a named
hypothesis, listed here with them.

### Replicas (`ReplicaProofs`)

| theorem | states | rests on |
|---|---|---|
| `TypeCorrect` | `[]TypeOK` | `IndInv` |
| `AgreementHolds` | `[]Agreement` | `IndInv` |
| `PublishedHolds` | `[]PublishedIsDurable` | `IndInv` |
| `AppendOnlyHolds` | `AppendOnly` | `IndInv` |
| `NeverRefusedHolds` | `[]NeverRefused` | `FilesInv` |
| `SnapshotRepairedHolds` | `[]SnapshotRepaired` | `FilesInv` |
| `MempoolReadyHolds` | `[]MempoolReady` | `MempoolInv` |
| `CommittedOnceHolds` | `[]CommittedOnce` | `MempoolInv` |
| `ImplementsLogHolds` | `ImplementsLog` | `IndInv`, hypothesis `ListShared` |

*Agreement.* `Agreement` is not inductive:
two chains can only be compared through what their blocks' proposers hold. `IndInv` says
that every block in a node's memory or history file is at its height, carries the
key the node's list expects there, and is on the wire or is the node's own
(`HistorySound`); that the file holds what memory holds and at most one block more
(`DiskHoldsChain`, the gap a failing save leaves); that a running node's height is the
number of its blocks (`HeightIsLength`); that a process signs with a key of its
node (`KeysAreOwn`); and that each block on the wire is in the memory of the node
that owns its proposer's key (`WireOwned`). Agreement follows because equal
validator lists expect one key at one height, that key has one owner, and the
owner holds one block there. `NextInv` has one step per action; `ApplyPreserves` is
the common part of `Produce` and `ReceiveBlock`. The assumptions are that a key has one
owner, and, built into the operators, that hashes do not collide and signatures are not
forged. Agreement holds whatever `apply_transaction` does.

*Files.* A start replays the history with other checks than those that accepted it, and
with another key and list perhaps. `FilesInv` says that each file is the record of a run
of the rules of some process of the node (`Replayable`) and that chains and snapshots are
what such runs leave. A block made by `propose_block` passes `validate_replayed_block`
because both run `apply_transaction` on the same ledger.

*Mempool.* Production takes the mempool as it is, so it is stuck if one entry does not
apply. `MempoolInv` says that identifiers in a mempool differ, that a node which is not
running has none, and that no identifier occurs twice in a history file. The proof
follows the loop of `reconcile_pending_transactions` turn by turn; the loop tries
transactions on a scratch ledger, in which a rejected creation leaves its asset
(`LedgerProofs`, `ResidueIsHarmless`): what applies to the scratch ledger applies
without the residue too. `CommittedOnce` holds although the ledger accepts a transaction
without inputs again: a block fits only the chain whose last header it names, and its
proposer chose what was new on that chain.

*Refinement.* A block is new to a node because the node made it, and then nobody of the
cluster is ahead of it; or it came from the wire, and then its writer holds it already.
`ListShared` says that the owners of the listed keys run with the list themselves.
Without it the writer of a slot need not be a member of the cluster, and the log has no
longest holder; the instance satisfies it.

### Synchronisation (`NodeSyncProofs`, `NodeThreadsProofs`, `OneShotProofs`)

* `AsksForExistingHolds`: `Spec => []AsksForExisting`. A request follows a recorded tip,
  which followed a frame; `SyncInv` says that neither a recorded tip nor the height in a
  frame is ever above the chain of the peer it is about (`TipsOK`, `FrameOK`), whatever
  is lost or late, because chains only grow and survive a restart (`Grows`). There is one
  lemma per group of handlers; `Quiet` is their common part.
* `QuarantineHolds`: `Spec => []Quarantine`. `CarryInv` says that peers which count as
  compatible are of the own network (`Vetted`), and that a frame with a block carries the
  block its sender has at that height (`Carries`), which it keeps.
* `ConsistentHolds`: `Spec => []Consistent`, hypothesis `DisksAgree`: the disks the nodes
  start with agree where they overlap, and hold a block only if its proposer does. That
  is what `Replica` establishes for nodes that keep their files. The invariant is the
  same statement about the running chains, with `CarryInv`.
* `RequestUnderWayHolds`: `Spec => []RequestUnderWay`. The HTTP thread moves the height,
  so an old entry of `in_flight_blocks` can become the one that matters: `ThreadsInv`
  says of every entry, whatever the height, that its request or its answer is under way.
* `OwnChainHolds`: `Spec => []OwnChainOnly`. The strengthening `Vetted` of
  `OneShotProofs` says that whenever a tip or a block is being fetched, the peer's node
  info has been compared.

### Clients and processes (`SubmissionProofs`, `ProcessProofs`)

* `ToldTheTruthHolds`: `Spec => []ToldTheTruth`, from `AnswersInv`: every answer under way
  was true when it was sent, and the node's epoch says whether a restart has come between.
  `OutboxKeeps`: what left the outbox without being invalid is committed.
* `ReadsBackHolds`, `SavedSurvivesHolds`, from `StorageInv`, which ties each place of the
  program in a save to the contents of the temporary file, and says that both the file
  seen by processes and the file that survives a loss of power are whole and not older
  than the last save that returned Ok. `ReadsBack` includes that sorting and listing a
  ledger and reading the list gives the ledger.
* `SameRulesHolds`, `NoRivalChainsHolds`, `ListedProduceHolds`, `OneIdentityHolds`,
  `ReachableHolds`, from `StartupInv`: a process is what `run_node` makes of some command
  line, some answer of the operating system and some key, and with a key file it is the
  key in the file. The rest is about what trimming, removing duplicates and comparing hex
  strings do with lists of any length.

### Transactions (`LedgerProofs`, `TransactionProofs`)

* `ValueSpentOnceHolds`: `Spec /\ []Typed /\ []SumsFit => []ValueSpentOnce`. A key of
  an output names the transaction that made it. An output could be spent twice only if
  its transaction were applied twice, which happens: one without inputs always can be.
  But a transaction whose outputs have value creates an asset and is then refused the
  second time, or has spent an output with value (`ValueHasSource`), and that one does not
  come back, by the same argument. `LedgerInv` ties keys, outputs and journal together.
* `SupplyConservedHolds`: `Spec /\ []Typed /\ []OutputsFit => []SupplyConserved`. A
  transaction takes its inputs out of the sum over the unspent outputs and puts its outputs
  into it. Two things could go wrong. An output could replace one that is there: its
  transaction is then applied again and makes no value. Totals that are equal modulo the
  width could differ: but what the inputs hold was issued once (`OnceIssued`), so it fits,
  and of the outputs `OutputsFit` says so. The invariant, with `LedgerInv`, is `SupplyInv`:
  for each asset the unspent outputs hold what the journal says was created (`Backed`).
* `LocksHonouredHolds`: `Spec /\ []Typed /\ []Witnessed => []LocksHonoured`. `HeightInv`
  bounds the heights of outputs; `PassedAll` says that every script of an accepted
  transaction passed in the context of its own input.
* `LocksOpenedHolds`: for scripts of any length over any opcodes (`OpsAreOpcodes`), under
  `HeightsFit`. The invariant of a run (`Passed`) is that each item on the stack was
  pushed by an opcode of the script, in the order of the stack (`Placed`); no opcode
  makes an item, so what a lock consumes was pushed before it.
* `SignedForThisInputHolds`, under `OpsAreOpcodes`. A signature must not count for two
  opcodes, so the invariant of a run (`Unused`) keeps, for every context, a set of
  positions of the script: those of the signatures that have counted so far, as many as
  the opcodes so far need (`Counted`), each over this input's hash and by a key pushed
  before; no item on the stack came from one of them. A check takes its signatures off the
  stack, so the positions it adds are new.
* `WithinLimitsHolds`, under `OpsAreOpcodes` and `ItemsHaveLength`. `Metered` says after
  each opcode that gas and depth are the sums so far of what opcodes cost, push and take
  (`Prices`, `Pushed`, `Taken`), and that the limits hold; at the end the sums are those
  of the property.
* `BytesIdentify`: cores, scripts, signature hashes and asset identifiers of any size have
  different bytes if they differ, and no core or script starts another. Nothing in the bytes
  tells fields apart, so the proof goes part by part: two encodings can be read (`Reads`)
  if they are separate (`Separate`: whatever follows, the whole is equal only if both parts
  are) and equal only for equal values. Fields of one width can; so can a part followed by
  one that is read according to it (`ReadsJoined`: a tag and what it announces, a number
  and as many elements). `ReadableHolds` and `OneMeaningHolds` follow for what a wallet
  composes, with `CodecInv`: that it can be encoded.
* `CanonicalHolds` (under `InputFits`: a length fits its four bytes) and
  `AcceptedAsSentHolds`, for any sizes of keys and signatures.

`Typed` says that what is submitted is a transaction, as the types of the code do (its
amounts and the maximal supply it names are naturals); `OpsAreOpcodes` and
`ItemsHaveLength` say the same of scripts, `CodecConstants` of the values that are
encoded. The other hypotheses are exactly where an integer of the code wraps around:
`SumsFit` excludes positive amounts of one asset in the outputs of a transaction that add
up to a multiple of `AmountMod`, `OutputsFit` any that add up to `AmountMod` or more;
`Witnessed` and `HeightsFit` exclude a lock that counts beyond `HeightMod`.
`apply_transaction` and `eval` do not check this (see "Where code and documents differ").
The instances of the runs satisfy all of them.

### Method

The library's induction theorems take an operator as a parameter, which the provers do
not instantiate. `NatSet` is used in their place: a set of naturals with 0 and all
successors is `Nat`; the induction hypothesis is membership in a set. The loops of the
model (`ApplyTransactions`, `Reconcile`, `Totals`, `Eval`, ...) are folds of the library,
whose operator parameter is in the way for the same reason. `LedgerProofs` gives a loop as
a tuple that names it, `Turn` says what one turn of it does, and `Computes` and `Runs` say
of a function that it gives the state after each turn; that each fold is its loop is shown
once, from the library's definition of it. In the same way `MapThenSumSet` is shown to be
`SumOf`, the value at its set of a function that adds one element at a time (`Sums`);
`SetInduction` and the lemmas on `SumOf` (taking an element out, splitting a set, equal
terms) take the place of an induction over finite sets. `FlattenSeq`
is shown to be the last of the strings of `Joins`, each of which is the one before with one
more part.

### Only model-checked

* Liveness under fairness (`CatchUp`, `IngressAmongAcquainted`, `TakesItsTurn`,
  `ShutdownCompletes`, `RunEnds`, `PulledInTheEnd`, `KnownToBeCommitted`): out of the
  prover's reach.

Every other property of the passing runs has a theorem.

## Assumptions about what is outside

* The proactor reports a socket as readable for as long as frames are in it: frames
  left behind by a failing handler are drained at the next poll.
* The `sync_state` mutex is used by the event loop only, so it orders nothing.
* `Replica` takes a file that has been replaced as replaced for good. `Storage` has
  the finer picture: until the directory is synced, a loss of power may bring the
  old file back. A start that reads a file another process renamed and did not sync
  relies on something that a loss of power can still undo.
* The peers of `OneShot` are spelled with `http://`; the paths of `Storage` have a
  directory part (see below).
* Replies of a node fit into a frame unless they carry a block.

## Where code and documents differ

Besides the two violation runs, modelling met these. Each can be reproduced with the
modules by the instance given.

* A `CreateAsset` that the conservation check rejects leaves its asset registered:
  `apply_transaction` inserts the definition (`qcoin-ledger/src/lib.rs:280`) before the
  check (283-294). The test `create_asset_rejects_wrong_asset_id` (line 561) states of
  an earlier rejection that the asset is not registered. `LedgerMachine` has registered
  assets without a creation in its journal.
* `issuer_authorized` is also set by an input that lists the asset with amount zero
  (`qcoin-ledger/src/lib.rs:221`), so that an asset can be created without its issuer;
  `docs/qcoin1.md:566` calls the issuer script the one "who can mint / burn / freeze".
* Sums of amounts wrap in a release build (`qcoin-ledger/src/lib.rs:321`), against
  `docs/qcoin1.md:602`; `SupplyConserved` fails with `AmountMod` 4 and two outputs of 3.
* The end of a relative lock wraps (`qcoin-script/src/lib.rs:396`); `LocksOpened`
  fails with a `HeightMod` that a lock in the script reaches.
* `CheckMultiSig` compares signature `i` with key `i` (`qcoin-script/src/lib.rs:293`), so
  only the first M keys can open it; `docs/qcoin1.md:607` lists "M-of-N PQ multi-sig".
* A transaction accepted before the accepting node knows the proposer, or whose
  client could not be answered (`qcoin-node/src/node.rs:1115`), is not announced again
  and waits for another one; `docs/QCOIN_EXIT_GATE.md:88-92` expects it in a block.
  `IngressAmongAcquainted` is therefore about announced transactions of acquainted nodes.
* A block longer than a frame is produced, stored and never sent
  (`qcoin-node/src/node.rs:842`); `CatchUp` fails when `Stored` has a block of more than
  `MaxInFrame` transactions.
* Without a manifest and validators a node produces by default
  (`qcoin-node/src/main.rs:1353`), as its test wants; `README.md:117` says it does so "only
  when its local key is in the manifest validator set".
* `run --once` fails for every peer spelled without `http://`
  (`qcoin-node/src/main.rs:726`), which `README.md:114` gives as an example.
* With a state or blocks path that is a bare file name every save returns an error
  after the rename, because the parent of such a path is the empty path, which
  `sync_parent_dir` cannot open (`qcoin-node/src/main.rs:1671-1680`).

## Not modelled

JSON and bincode syntax, address syntax, log output, HTTP as such, the order in which
reliable peers are served, deployment scripts, `keygen` (it only prints). Block headers
and the state root have fixed fields and stay symbolic. Frames that only carry a report
(`SubmitBlockResponse`; `SubmitTransactionResponse` outside `Submission`) change no state
and are left out of `NodeSync`. The post-quantum libraries and the proactor are external.
Peers that change their version or chain at a restart are not in an instance.

## Plan

Done: all components of the inventory have a module, with the runs above; `Replica`
implements `ReplicatedLog` (proved); every property of the passing runs that is not about
liveness has a theorem.

Left:

1. A start in `Replica` that reads a renamed file which is not yet durable.
2. Instances of `NodeSync` with three cluster nodes and with peers that change their
   version at a restart.
