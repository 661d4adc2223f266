------------------------------- MODULE Codec -------------------------------
(***************************************************************************)
(* The consensus encodings of qcoin-types and qcoin-script: the bytes that *)
(* are hashed into transaction identifiers, asset identifiers, signature   *)
(* hashes and script hashes.  Types and ScriptEngine take these hashes for *)
(* injective; this module checks that the bytes under them are.            *)
(*                                                                         *)
(* A field of fixed width (a hash, an integer, a tag) is one symbol, a     *)
(* natural number; nothing in the encoding says which field a symbol       *)
(* belongs to, and lengths, tags and values overlap.                       *)
(*                                                                         *)
(* The machine is a wallet that composes a document part by part.          *)
(***************************************************************************)
EXTENDS Types, SequencesExt

CONSTANTS
    Hashes, Amounts,     \* the values of a Hash256 and of an integer
    Definitions,         \* asset definitions
    ChainIds,
    MaxInputs, MaxOutputs, MaxAssets, MaxOps, MaxData,  \* bounds
    MaxSigned            \* bound: outputs of a transaction that is signed

AssetKinds == {"Fungible", "NonFungible", "SemiFungible"}

ASSUME CodecConstants ==
    /\ Hashes \subseteq Nat /\ Amounts \subseteq Nat /\ ChainIds \subseteq Nat
    /\ {MaxInputs, MaxOutputs, MaxAssets, MaxOps, MaxData, MaxSigned} \subseteq Nat
    /\ \A d \in Definitions :
          /\ d \in [issuer_script_hash : Nat, kind : AssetKinds, metadata_root : Nat,
                   max_supply : {d.max_supply}, decimals : Nat]
          /\ d.max_supply # None => /\ d.max_supply = Some(d.max_supply[1])
                                    /\ d.max_supply[1] \in Nat

Concat(encode(_), s) == FlattenSeq([i \in DOMAIN s |-> encode(s[i])])

EncodeLen(s) == <<Len(s)>>

EncodeOption(option) == IF option = None THEN <<0>> ELSE <<1, option[1]>>

EncodeTransactionInput(input) == <<input.tx_id, input.index>>

EncodeAssetAmount(asset) == <<asset.asset_id, asset.amount>>

KindTag(kind) == CASE kind = "Fungible"     -> 0
                   [] kind = "NonFungible"  -> 1
                   [] kind = "SemiFungible" -> 2

EncodeAssetDefinition(d) ==
    <<d.issuer_script_hash, KindTag(d.kind), d.metadata_root>>
    \o EncodeOption(d.max_supply) \o <<d.decimals>>

\* A mutant: the assets of an output are not counted.
MutEncodeOutput(output) ==
    <<output.owner_script_hash>> \o Concat(EncodeAssetAmount, output.assets)
    \o EncodeOption(output.metadata_hash)
EncodeOutput(output) ==
    <<output.owner_script_hash>> \o EncodeLen(output.assets)
    \o Concat(EncodeAssetAmount, output.assets) \o EncodeOption(output.metadata_hash)

EncodeTxCore(core) ==
    <<IF core.kind.kind = "Transfer" THEN 0 ELSE 1>>
    \o EncodeLen(core.inputs) \o Concat(EncodeTransactionInput, core.inputs)
    \o EncodeLen(core.outputs) \o Concat(EncodeOutput, core.outputs)
    \o (IF core.kind.kind = "Transfer" THEN << >>
        ELSE EncodeAssetDefinition(core.kind.definition) \o <<core.kind.initial_supply>>)

\* The domain separators are symbols that no field has.
AssetIdPreimage(definition, chainId) ==
    <<1000, chainId>> \o EncodeAssetDefinition(definition)

\* A mutant: the output that is spent is not covered.
MutSighashPreimage(core, r) ==
    <<1001, r.chain_id>> \o EncodeTxCore(core) \o <<r.index, r.script_hash, r.flags>>
SighashPreimage(core, r) ==
    <<1001, r.chain_id>> \o EncodeTxCore(core) \o EncodeOutput(r.prev)
    \o <<r.index, r.script_hash, r.flags>>

(***************************************************************************)
(* Scripts: the number of opcodes, then each with its operands.            *)
(***************************************************************************)
EncodeOp(op) ==
    CASE op.op = "CheckSig"              -> <<0>>
      [] op.op = "CheckMultiSig"         -> <<1, op.threshold, op.total>>
      [] op.op = "CheckTimeLock"         -> <<2>>
      [] op.op = "CheckRelativeTimeLock" -> <<3>>
      [] op.op = "CheckHashLock"         -> <<4>>
      [] op.op = "PushBytes"             -> <<5>> \o EncodeLen(op.data) \o op.data
      [] op.op = "Nop"                   -> <<6>>

EncodeScript(script) == EncodeLen(script) \o Concat(EncodeOp, script)

(***************************************************************************)
(* create_asset_transaction: no inputs, and one output with the supply of  *)
(* the new asset.                                                          *)
(***************************************************************************)
CreateAssetCore(definition, initialSupply, destination, assetId) ==
    [kind |-> CreateAsset(definition, initialSupply), inputs |-> << >>,
     outputs |-> <<Output(destination, <<AssetAmount(assetId, initialSupply)>>, None)>>]

(***************************************************************************)
(* The documents, up to the bounds.                                        *)
(***************************************************************************)
UpTo(S, n) == UNION {[1..k -> S] : k \in 0..n}

Options(S) == {None} \union {Some(x) : x \in S}
Outputs ==
    {Output(o, s, h) : o \in Hashes, h \in Options(Hashes),
       s \in UpTo({AssetAmount(i, v) : i \in Hashes, v \in Amounts}, MaxAssets)}
Inputs == {TransactionInput(h, i) : h \in Hashes, i \in Amounts}
TxKinds == {Transfer} \union {CreateAsset(d, v) : d \in Definitions, v \in Amounts}
EncodableOps == {[op |-> o] : o \in {"CheckSig", "CheckTimeLock", "CheckRelativeTimeLock",
                            "CheckHashLock", "Nop"}}
       \union {[op |-> "CheckMultiSig", threshold |-> k, total |-> n] : k, n \in Amounts}
       \union {[op |-> "PushBytes", data |-> d] : d \in UpTo(0..6, MaxData)}

Cores == {[kind |-> k, inputs |-> i, outputs |-> o] : k \in TxKinds,
            i \in UpTo(Inputs, MaxInputs), o \in UpTo(Outputs, MaxOutputs)}
Requests == [prev : Outputs, index : Amounts, script_hash : Hashes,
             chain_id : ChainIds, flags : {0}]

VARIABLES
    part,       \* what is being composed: "none", "transaction" or "script"
    core,       \* a transaction core
    request,    \* Some(what signs one of its inputs)
    ops         \* the opcodes of a script

codecVars == <<part, core, request, ops>>

EmptyCore == [kind |-> Transfer, inputs |-> << >>, outputs |-> << >>]

CodecInit == part = "none" /\ core = EmptyCore /\ request = None /\ ops = << >>

NewDocument ==
    /\ part = "none" /\ part' \in {"transaction", "script"}
    /\ UNCHANGED <<core, request, ops>>

Composing == part = "transaction" /\ request = None

AddInput ==
    /\ Composing /\ Len(core.inputs) < MaxInputs
    /\ \E i \in Inputs : core' = [core EXCEPT !.inputs = Append(@, i)]
    /\ UNCHANGED <<part, request, ops>>

AddOutput ==
    /\ Composing /\ Len(core.outputs) < MaxOutputs
    /\ \E o \in Outputs : core' = [core EXCEPT !.outputs = Append(@, o)]
    /\ UNCHANGED <<part, request, ops>>

\* create_asset_transaction, or the same kind written by hand with other parts.
CreateAssetTransaction ==
    /\ Composing /\ core.kind = Transfer
    /\ \E d \in Definitions, v \in Amounts :
          \/ core' = [core EXCEPT !.kind = CreateAsset(d, v)]
          \/ \E h, id \in Hashes :
                core = EmptyCore /\ core' = CreateAssetCore(d, v, h, id)
    /\ UNCHANGED <<part, request, ops>>

RequestSignature ==
    /\ Composing /\ core.inputs # << >> /\ Len(core.outputs) <= MaxSigned
    /\ \E r \in Requests : request' = Some(r)
    /\ UNCHANGED <<part, core, ops>>

AddOp ==
    /\ part = "script" /\ Len(ops) < MaxOps
    /\ \E o \in EncodableOps : ops' = Append(ops, o)
    /\ UNCHANGED <<part, core, request>>

CodecNext ==
    NewDocument \/ AddInput \/ AddOutput \/ CreateAssetTransaction \/ RequestSignature \/ AddOp

-----------------------------------------------------------------------------
CoreEncodings == [c \in Cores |-> EncodeTxCore(c)]
ScriptEncodings == [s \in UpTo(EncodableOps, MaxOps) |-> EncodeScript(s)]

Starts(s, t) == Len(s) <= Len(t) /\ SubSeq(t, 1, Len(s)) = s

(***************************************************************************)
(* Two different transaction cores have different bytes, and neither       *)
(* encoding starts the other, so what follows a core in a signature hash   *)
(* cannot be read as a part of it: tx_id identifies the core.  The same    *)
(* holds for scripts: whoever pays to a script hash knows the conditions   *)
(* under which the output can be spent.                                    *)
(***************************************************************************)
Readable ==
    /\ Composing =>
          LET encoding == EncodeTxCore(core)
          IN  \A c \in Cores : Starts(encoding, CoreEncodings[c]) => c = core
    /\ part = "script" =>
          LET encoding == EncodeScript(ops)
          IN  \A s \in UpTo(EncodableOps, MaxOps) :
                 Starts(encoding, ScriptEncodings[s]) => s = ops

(***************************************************************************)
(* A signature hash stands for one input of one transaction on one chain:  *)
(* no other output, index, script or chain has the same pre-image, so a    *)
(* signature cannot be used a second time for something else.  An asset    *)
(* identifier stands for one definition on one chain.                      *)
(***************************************************************************)
OneMeaning ==
    /\ request # None =>
          \A r \in Requests :
             SighashPreimage(core, r) = SighashPreimage(core, request[1]) => r = request[1]
    /\ core.kind # Transfer =>
          \A d \in Definitions, i, j \in ChainIds :
             AssetIdPreimage(core.kind.definition, i) = AssetIdPreimage(d, j)
             => d = core.kind.definition /\ i = j
=============================================================================
