------------------------------ MODULE MCLedger ------------------------------
(***************************************************************************)
(* Small transactions for LedgerMachine: three owners (a plain script, a   *)
(* script locked until height 2, a script locked for one block), two       *)
(* assets with different issuers, and every way of spending up to two      *)
(* existing outputs.                                                       *)
(***************************************************************************)
EXTENDS LedgerMachine

Plain  == <<Nop>>
Locked == <<PushBytes(U64(2)), CheckTimeLock>>
Aged   == <<PushBytes(U64(1)), CheckRelativeTimeLock>>
Scripts == {Plain, Locked, Aged}

GoldDefinition   == AssetDefinition(ScriptHash(Plain), "gold", Some(2))
SilverDefinition == AssetDefinition(ScriptHash(Locked), "silver", None)
Gold   == DeriveAssetId(GoldDefinition, ChainId)
Silver == DeriveAssetId(SilverDefinition, ChainId)

\* Gold may not be created beyond its maximum of 2.
Kinds == {Transfer, CreateAsset(GoldDefinition, 2), CreateAsset(GoldDefinition, 3),
          CreateAsset(SilverDefinition, 2)}

Owned(script, assets) == Output(ScriptHash(script), assets, None)

Keys(l) == DOMAIN l.utxos
Unknown == UtxoKey(<<"unknown">>, 0)

\* No input, one (also one that names no output), two different ones, or the
\* same one twice.
InputLists(l) ==
    {<< >>, <<Unknown>>} \cup {<<k>> : k \in Keys(l)} \cup {<<k, k>> : k \in Keys(l)}
    \cup {SetToSeq(pair) : pair \in kSubset(2, Keys(l))}

Witness(script) == [well_formed |-> TRUE, script |-> script, metadata |-> None]

\* One witness per input: the script the output commits to, except that a
\* single input is also tried with every other script.
Witnesses(l, inputs) ==
    LET right(k) == l.utxos[k].output.owner_script_hash[2]
    IN  IF inputs = <<Unknown>> THEN {<<Witness(Plain)>>}
        ELSE IF Len(inputs) = 1 THEN {<<Witness(s)>> : s \in Scripts}
        ELSE {[i \in DOMAIN inputs |-> Witness(right(inputs[i]))]}

Build(l, outputLists) ==
    UNION {{Transaction(kind, inputs, outputs, w) :
               kind \in Kinds, outputs \in outputLists, w \in Witnesses(l, inputs)} :
           inputs \in InputLists(l)}

SmallOutputs ==
    {<<Owned(Plain, << >>)>>, <<Owned(Plain, << >>), Owned(Locked, << >>)>>}
    \cup {<<Owned(Plain, <<AssetAmount(Gold, n)>>)>> : n \in {0, 2, 3}}
    \cup {<<Owned(Plain, <<AssetAmount(Silver, 2)>>)>>,
          <<Owned(Aged, <<AssetAmount(Gold, 2)>>)>>,
          <<Owned(Plain, <<AssetAmount(Gold, 1)>>),
            Owned(Locked, <<AssetAmount(Gold, 1), AssetAmount(Silver, 2)>>)>>}

MCCandidates(l) == Build(l, SmallOutputs)

\* Outputs locked by a signature of their owner, next to plain ones.
SignedCandidates(l) ==
    Build(l, {<<Owned(Plain, << >>)>>,
              <<Owned(SignatureTemplate("owner"), << >>)>>})
=============================================================================
