----------------------------- MODULE MCReplica -----------------------------
(***************************************************************************)
(* Two validators (a, b), an observer (o) and a node outside the cluster   *)
(* (d) that was started without a validator list and makes a new key each  *)
(* time; runs choose among them.                                           *)
(***************************************************************************)
EXTENDS ReplicaLog

CONSTANTS a, b, o, d, ka, kb, ko, kd1, kd2

MCOwnerOf == [k \in Key |-> CASE k = ka -> a [] k = kb -> b [] k = ko -> o
                              [] k \in {kd1, kd2} -> d]
MCList == <<ka, kb>>
MCValidators == [n \in Node |-> IF n = d THEN << >> ELSE MCList]

\* The cluster's list names a key of d, which itself runs without the list.
MixedList == <<kd1, ka>>
MixedValidators == [n \in Node |-> IF n = d THEN << >> ELSE MixedList]
MCChainIdOf == [n \in Node |-> IF n = d THEN 0 ELSE 7]

Plain == <<Nop>>
Open == Output(ScriptHash(Plain), << >>, None)
Witness(script) == [well_formed |-> TRUE, script |-> script, metadata |-> None]

\* A transaction without inputs (the ledger would accept it again and again)
\* and two that compete for its output.
Seed == Transaction(Transfer, << >>, <<Open>>, << >>)
SpendBy(outputs) ==
    Transaction(Transfer, <<UtxoKey(TxId(Seed), 0)>>, outputs, <<Witness(Plain)>>)
Left  == SpendBy(<<Open>>)
Right == SpendBy(<<Open, Open>>)
MCTxs == {Seed, Left, Right}
OneTx == {Seed}
=============================================================================
