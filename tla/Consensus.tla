----------------------------- MODULE Consensus -----------------------------
(***************************************************************************)
(* The rules of qcoin-consensus (DummyConsensusEngine and                  *)
(* validate_replayed_block) as operators on chain states and blocks: a     *)
(* fixed validator list, one proposer per height in round-robin order.     *)
(***************************************************************************)
EXTENDS Ledger

\* The key whose turn it is at a height (heights of blocks start at 1).
ExpectedProposer(validators, height) ==
    validators[((height - 1) % Len(validators)) + 1]

MutEffectiveValidators(configured, ownKey) == <<ownKey>>    \* mutant: always alone

\* from_keys: a node configured with no validators is its own only validator.
EffectiveValidators(configured, ownKey) ==
    IF configured = << >> THEN <<ownKey>> ELSE configured

CanProposeNextBlock(chain, validators, ownKey) ==
    ExpectedProposer(validators, chain.height + 1) = ownKey

\* The transaction root covers the identifiers, hence not the witnesses.
ComputeTxRoot(txs) == Blake3("txs", [i \in DOMAIN txs |-> TxId(txs[i])])

\* What the transactions do to a copy of the chain's ledger.
Simulate(chain, txs, height) ==
    ApplyTransactions(chain.ledger, txs, height, chain.chain_id)

\* External: signing and verifying a header with a post-quantum scheme.
Sign(key, header) == [key |-> key, over |-> header]
SignatureVerifies(signature, key, header) == signature = Sign(key, header)

(***************************************************************************)
(* propose_block, for transactions that Simulate accepts; timestamp is     *)
(* the proposer's clock in whole seconds.                                  *)
(***************************************************************************)
ProposeBlock(chain, txs, ownKey, timestamp) ==
    LET header == [parent_hash |-> chain.tip_hash,
                   state_root  |-> StateRoot(Simulate(chain, txs, chain.height + 1).ledger),
                   tx_root     |-> ComputeTxRoot(txs),
                   height      |-> chain.height + 1,
                   timestamp   |-> timestamp]
    IN  [header |-> header, transactions |-> txs, proposer_public_key |-> ownKey,
         signature |-> Sign(ownKey, header)]

(***************************************************************************)
(* validate_replayed_block.  An empty list of validators, which only the   *)
(* replay of a stored history can pass, switches the proposer check off.   *)
(***************************************************************************)
ProposerIsExpected(block, validators) ==
    validators # << >> =>
        block.proposer_public_key = ExpectedProposer(validators, block.header.height)

ValidateReplayedBlock(chain, block, validators) ==
    LET simulated == Simulate(chain, block.transactions, block.header.height)
    IN  /\ block.header.height = chain.height + 1
        /\ block.header.parent_hash = chain.tip_hash
        /\ block.header.timestamp > chain.last_timestamp
        /\ ProposerIsExpected(block, validators)
        /\ block.header.tx_root = ComputeTxRoot(block.transactions)
        /\ simulated.result = "ok"
        /\ block.header.state_root = StateRoot(simulated.ledger)
        /\ SignatureVerifies(block.signature, block.proposer_public_key, block.header)
=============================================================================
