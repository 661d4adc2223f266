------------------------------- MODULE Types -------------------------------
(***************************************************************************)
(* The data of qcoin-types: transactions, outputs, asset definitions and   *)
(* the identifiers derived from them by hashing.                           *)
(*                                                                         *)
(* A digest is symbolic: Blake3(domain, x) is a value that determines its  *)
(* domain and its pre-image, which is what collision resistance gives the  *)
(* code.  An Option is a sequence of length zero or one.                   *)
(***************************************************************************)
EXTENDS Naturals, Sequences

None == << >>
Some(x) == <<x>>

\* External: the blake3 crate, as the code uses it.
Blake3(domain, preimage) == <<domain, preimage>>

(***************************************************************************)
(* QCOIN_ASSET_ID is a fixed literal, not a digest, so it differs from     *)
(* every derived identifier.                                               *)
(***************************************************************************)
QcoinAssetId == <<"loadngo">>

DeriveAssetId(definition, chainId) ==
    Blake3("QCOIN_ASSET_ID_V1", [chain_id |-> chainId, definition |-> definition])

(***************************************************************************)
(* A transaction is a core and a witness.  The identifier covers the core  *)
(* only: two transactions that differ in their witnesses share it.         *)
(***************************************************************************)
TxId(tx) == Blake3("tx", tx.core)

Sighash(tx, inputIndex, prevOutput, scriptHash, chainId) ==
    Blake3("QCOIN_SIGHASH_V1",
           [core |-> tx.core, prev |-> prevOutput, index |-> inputIndex,
            script_hash |-> scriptHash, chain_id |-> chainId])

AssetAmount(assetId, amount) == [asset_id |-> assetId, amount |-> amount]

Output(ownerScriptHash, assets, metadataHash) ==
    [owner_script_hash |-> ownerScriptHash, assets |-> assets,
     metadata_hash |-> metadataHash]

TransactionInput(txId, index) == [tx_id |-> txId, index |-> index]

(***************************************************************************)
(* TransactionKind: Transfer carries no fields; CreateAsset carries the    *)
(* definition and the initial supply.                                      *)
(***************************************************************************)
Transfer == [kind |-> "Transfer"]
CreateAsset(definition, initialSupply) ==
    [kind |-> "CreateAsset", definition |-> definition,
     initial_supply |-> initialSupply]

Transaction(kind, inputs, outputs, witnesses) ==
    [core |-> [kind |-> kind, inputs |-> inputs, outputs |-> outputs],
     witness |-> witnesses]

(***************************************************************************)
(* The fields of an AssetDefinition that a rule looks at, and one that     *)
(* makes definitions (and so identifiers) different.                       *)
(***************************************************************************)
AssetDefinition(issuerScriptHash, metadataRoot, maxSupply) ==
    [issuer_script_hash |-> issuerScriptHash, metadata_root |-> metadataRoot,
     max_supply |-> maxSupply]
=============================================================================
