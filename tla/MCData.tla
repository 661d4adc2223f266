------------------------------- MODULE MCData -------------------------------
(***************************************************************************)
(* The data a transaction is made of: scripts and their evaluation, the    *)
(* consensus encodings, and keys and signatures as bytes.  The three parts *)
(* share no state; each is explored while the other two are at their       *)
(* beginning.                                                              *)
(***************************************************************************)
EXTENDS ScriptMachine, Codec, Crypto

vars == <<script, codecVars, cryptoVars>>

Init == ScriptInit /\ CodecInit /\ CryptoInit

Next ==
    \/ CodecInit /\ CryptoInit /\ ScriptNext /\ UNCHANGED <<codecVars, cryptoVars>>
    \/ ScriptInit /\ CryptoInit /\ CodecNext /\ UNCHANGED <<script, cryptoVars>>
    \/ ScriptInit /\ CodecInit /\ CryptoNext /\ UNCHANGED <<script, codecVars>>

Spec == Init /\ [][Next]_vars

(***************************************************************************)
(* Scripts: two keys, signatures over this and over another input,         *)
(* heights, a hash lock, and limits small enough for scripts of five       *)
(* opcodes to meet them: a budget for three signature checks, a stack of   *)
(* four items.                                                             *)
(***************************************************************************)
Checks == {CheckSig, CheckMultiSig(1, 2), CheckMultiSig(2, 2), CheckMultiSig(2, 1),
           CheckTimeLock, CheckRelativeTimeLock, CheckHashLock, Nop}
Pushes == {PushBytes(KeyItem("a")), PushBytes(KeyItem("b")),
           PushBytes(SigItem("a", "m")), PushBytes(SigItem("b", "m")),
           PushBytes(SigItem("a", "other")), PushBytes(U64(2)),
           PushBytes(HashItem(Blake3("bytes", U64(2)))), PushBytes(Bytes(33))}
AllOps == Checks \union Pushes

SpentInputs ==
    {[sighash |-> "m", created_height |-> 1, current_height |-> h] : h \in {2, 3}}

(***************************************************************************)
(* Encodings: 0 and 1 for hashes and integers, which are also lengths and  *)
(* tags; two asset definitions, one of them with a supply limit, whose     *)
(* symbols are the same but for the tag of the limit.                      *)
(***************************************************************************)
SomeDefinitions ==
    {[issuer_script_hash |-> 0, kind |-> "NonFungible", metadata_root |-> 0,
      max_supply |-> None, decimals |-> 0],
     [issuer_script_hash |-> 0, kind |-> "NonFungible", metadata_root |-> 0,
      max_supply |-> Some(0), decimals |-> 1]}

(***************************************************************************)
(* Keys: bytes of three values, keys and signatures of one or two bytes.   *)
(* Both libraries return the same signature bytes for message m, so only   *)
(* the scheme tag tells the two apart; for n, Falcon's is one byte longer. *)
(***************************************************************************)
D(d, f) == [s \in Schemes |-> IF s = "Dilithium2" THEN d ELSE f]

PkSizes == D(1, 2)
SkSizes == D(2, 1)
SigSizes == D(1, 2)
KeyPairs == D([public |-> <<0>>, secret |-> <<1, 2>>],
              [public |-> <<0, 1>>, secret |-> <<2>>])
Signing == D([m |-> <<1>>, n |-> <<2>>],
             [m |-> <<1>>, n |-> <<2, 0>>])
=============================================================================
