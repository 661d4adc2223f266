------------------------------- MODULE Ledger -------------------------------
(***************************************************************************)
(* LedgerState and ChainState of qcoin-ledger as values, and the functions *)
(* that transform them: apply_transaction, state_root, apply_block.        *)
(***************************************************************************)
EXTENDS ScriptEngine

CONSTANT
    AmountMod    \* amounts are u128; a release build adds them modulo this

ASSUME AmountModAssumption == AmountMod \in Nat \ {0}

(***************************************************************************)
(* utxos maps a UtxoKey to a TrackedOutput; assets maps an AssetId to its  *)
(* definition.  The initial ledger is empty.                               *)
(***************************************************************************)
UtxoKey(txId, index) == TransactionInput(txId, index)
EmptyLedger == [utxos |-> << >>, assets |-> << >>]

StateRoot(ledger) == Blake3("state", ledger)

(***************************************************************************)
(* accumulate_asset over a list of amounts: the identifiers that occur,    *)
(* each with its (wrapping) sum.                                           *)
(***************************************************************************)
Totals(amounts) ==
    [a \in {amounts[i].asset_id : i \in DOMAIN amounts} |->
        FoldLeft(LAMBDA sum, x : IF x.asset_id = a THEN (sum + x.amount) % AmountMod
                                                   ELSE sum,
                 0, amounts)]

Total(totals, assetId) == IF assetId \in DOMAIN totals THEN totals[assetId] ELSE 0
Without(totals, assetId) == [a \in DOMAIN totals \ {assetId} |-> totals[a]]

OutputAssets(tx) ==
    FoldLeft(LAMBDA all, o : all \o o.assets, << >>, tx.core.outputs)

InputAssets(ledger, tx) ==
    FoldLeft(LAMBDA all, key : all \o ledger.utxos[key].output.assets,
             << >>, tx.core.inputs)

IsCreate(tx) == tx.core.kind.kind = "CreateAsset"

(***************************************************************************)
(* The checks on input i, in the order the code makes them.                *)
(***************************************************************************)
ScriptCtx(ledger, tx, i, height, chainId) ==
    LET tracked == ledger.utxos[tx.core.inputs[i]]
    IN  [sighash |-> Sighash(tx, i, tracked.output,
                             tracked.output.owner_script_hash, chainId),
         created_height |-> tracked.created_height,
         current_height |-> height]

MetadataMatches(output, witness) ==
    output.metadata_hash =
        [j \in DOMAIN witness.metadata |-> Blake3("bytes", witness.metadata[j])]

\* The script the witness reveals is the one the output committed to.
MutScriptMatches(witness, output) == TRUE    \* mutant: any script will do

ScriptMatches(witness, output) == ScriptHash(witness.script) = output.owner_script_hash

CheckInput(ledger, tx, i, height, chainId) ==
    LET key     == tx.core.inputs[i]
        output  == ledger.utxos[key].output
        witness == tx.witness[i]
    IN  IF \E j \in 1..(i - 1) : tx.core.inputs[j] = key THEN "DoubleSpend"
        ELSE IF key \notin DOMAIN ledger.utxos THEN "MissingInput"
        ELSE IF i > Len(tx.witness) THEN "MissingWitness"
        ELSE IF ~witness.well_formed THEN "InvalidWitness"
        ELSE IF ~ScriptMatches(witness, output)
             THEN "ScriptHashMismatch"
        ELSE IF ~MetadataMatches(output, witness) THEN "MetadataHashMismatch"
        ELSE IF Eval(witness.script,
                     ScriptCtx(ledger, tx, i, height, chainId)).result # "ok"
             THEN "ScriptFailed"
        ELSE "ok"

CheckInputs(ledger, tx, height, chainId) ==
    LET bad == {i \in DOMAIN tx.core.inputs :
                   CheckInput(ledger, tx, i, height, chainId) # "ok"}
    IN  IF bad = {} THEN "ok"
        ELSE CheckInput(ledger, tx, CHOOSE i \in bad : \A j \in bad : i <= j,
                        height, chainId)

(***************************************************************************)
(* CreateAsset: the checks before the inputs are looked at, and the ones   *)
(* made on the totals.  An input authorises the creation when the issuer   *)
(* script owns it, or when it lists the asset.                             *)
(***************************************************************************)
CheckNewAsset(ledger, tx, chainId) ==
    LET assetId == DeriveAssetId(tx.core.kind.definition, chainId)
    IN  IF assetId = QcoinAssetId THEN "ReservedNativeAssetId"
        ELSE IF assetId \in DOMAIN ledger.assets THEN "AssetAlreadyExists"
        ELSE "ok"

IssuerAuthorized(ledger, tx, assetId) ==
    \E i \in DOMAIN tx.core.inputs :
        LET output == ledger.utxos[tx.core.inputs[i]].output
        IN  \/ output.owner_script_hash = tx.core.kind.definition.issuer_script_hash
            \/ \E j \in DOMAIN output.assets : output.assets[j].asset_id = assetId

CheckMint(ledger, tx, assetId, inputTotals, outputTotals) ==
    LET minted == Total(outputTotals, assetId)
        max    == tx.core.kind.definition.max_supply
    IN  IF minted # tx.core.kind.initial_supply THEN "AssetConservationViolation"
        ELSE IF max # None /\ minted > max[1] THEN "MaxSupplyExceeded"
        ELSE IF Total(inputTotals, assetId) # 0 THEN "AssetConservationViolation"
        ELSE IF ~IssuerAuthorized(ledger, tx, assetId)
             THEN "MissingIssuerAuthorization"
        ELSE "ok"

(***************************************************************************)
(* What goes in comes out, asset by asset; an asset that only comes out    *)
(* must come out zero times.                                               *)
(***************************************************************************)
\* Mutant: assets that only come out are not looked at.
MutConserves(inputTotals, outputTotals) ==
    \A a \in DOMAIN inputTotals : inputTotals[a] = Total(outputTotals, a)

Conserves(inputTotals, outputTotals) ==
    /\ \A a \in DOMAIN inputTotals : inputTotals[a] = Total(outputTotals, a)
    /\ \A a \in DOMAIN outputTotals \ DOMAIN inputTotals : outputTotals[a] = 0

\* Mutant: the inputs stay.
MutSpendNothing(utxos, tx, height) ==
    LET created == {UtxoKey(TxId(tx), i - 1) : i \in DOMAIN tx.core.outputs}
    IN  [key \in DOMAIN utxos \cup created |->
            IF key \in created
            THEN [output |-> tx.core.outputs[key.index + 1],
                  created_height |-> height]
            ELSE utxos[key]]

\* The inputs leave the UTXO set, the outputs enter it (replacing an entry
\* with the same key).
SpendAndCreate(utxos, tx, height) ==
    LET consumed == {tx.core.inputs[i] : i \in DOMAIN tx.core.inputs}
        created  == {UtxoKey(TxId(tx), i - 1) : i \in DOMAIN tx.core.outputs}
    IN  [key \in (DOMAIN utxos \ consumed) \cup created |->
            IF key \in created
            THEN [output |-> tx.core.outputs[key.index + 1],
                  created_height |-> height]
            ELSE utxos[key]]

(***************************************************************************)
(* apply_transaction: the result and the ledger it leaves behind.  The     *)
(* definition of a new asset is registered before the conservation check,  *)
(* so it stays registered when that check fails.                           *)
(***************************************************************************)
ApplyTransaction(ledger, tx, height, chainId) ==
    LET reject(error, left) == [result |-> error, ledger |-> left]
        assetId    == DeriveAssetId(tx.core.kind.definition, chainId)
        newAsset   == IF IsCreate(tx) THEN CheckNewAsset(ledger, tx, chainId) ELSE "ok"
        inputs     == CheckInputs(ledger, tx, height, chainId)
        inTotals   == Totals(InputAssets(ledger, tx))
        outTotals  == Totals(OutputAssets(tx))
        mint       == IF IsCreate(tx)
                      THEN CheckMint(ledger, tx, assetId, inTotals, outTotals)
                      ELSE "ok"
        registered == IF IsCreate(tx)
                      THEN [ledger EXCEPT !.assets =
                              [a \in DOMAIN @ \cup {assetId} |->
                                  IF a = assetId THEN tx.core.kind.definition
                                                 ELSE @[a]]]
                      ELSE ledger
        conserves  == IF IsCreate(tx)
                      THEN Conserves(Without(inTotals, assetId),
                                     Without(outTotals, assetId))
                      ELSE Conserves(inTotals, outTotals)
    IN  IF newAsset # "ok" THEN reject(newAsset, ledger)
        ELSE IF inputs # "ok" THEN reject(inputs, ledger)
        ELSE IF mint # "ok" THEN reject(mint, ledger)
        ELSE IF ~conserves THEN reject("AssetConservationViolation", registered)
        ELSE [result |-> "ok",
              ledger |-> [registered EXCEPT !.utxos = SpendAndCreate(@, tx, height)]]

\* The loop over a list of transactions: it stops at the first rejection.
ApplyTransactions(ledger, txs, height, chainId) ==
    FoldLeft(LAMBDA acc, tx : IF acc.result = "ok"
                              THEN ApplyTransaction(acc.ledger, tx, height, chainId)
                              ELSE acc,
             [result |-> "ok", ledger |-> ledger], txs)

(***************************************************************************)
(* ChainState::apply_block, on a chain whose transactions all apply (its   *)
(* callers validate first), and the empty chain of                         *)
(* default_chain_state_with_id.                                            *)
(***************************************************************************)
GenesisTip == <<"zero">>

DefaultChainState(chainId) ==
    [ledger |-> EmptyLedger, height |-> 0, tip_hash |-> GenesisTip,
     state_root |-> StateRoot(EmptyLedger), last_timestamp |-> 0,
     chain_id |-> chainId]

\* Mutant: the identity of the chain is not carried over.
MutApplyBlock(chain, block) ==
    LET ledger == ApplyTransactions(chain.ledger, block.transactions,
                                    block.header.height, chain.chain_id).ledger
    IN  [ledger |-> ledger, height |-> block.header.height,
         tip_hash |-> Blake3("header", block.header),
         state_root |-> StateRoot(ledger),
         last_timestamp |-> block.header.timestamp,
         chain_id |-> chain.chain_id + 1]

ApplyBlock(chain, block) ==
    LET ledger == ApplyTransactions(chain.ledger, block.transactions,
                                    block.header.height, chain.chain_id).ledger
    IN  [ledger |-> ledger, height |-> block.header.height,
         tip_hash |-> Blake3("header", block.header),
         state_root |-> StateRoot(ledger),
         last_timestamp |-> block.header.timestamp,
         chain_id |-> chain.chain_id]
=============================================================================
