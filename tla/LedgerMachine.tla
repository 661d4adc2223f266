--------------------------- MODULE LedgerMachine ---------------------------
(***************************************************************************)
(* One ledger driven by a caller that submits transactions in any order,   *)
(* any number of times, at heights that never go back.  apply_transaction  *)
(* works on the ledger in place: what a rejected transaction leaves behind *)
(* stays.                                                                  *)
(***************************************************************************)
EXTENDS Ledger, FiniteSets, FiniteSetsExt

CONSTANTS
    ChainId,
    Owners,          \* the holders of keys
    Candidates(_),   \* the transactions a caller may submit, given the ledger
    MaxTxs,          \* bound on the number of accepted transactions
    MaxHeight        \* bound on the block height

ASSUME LedgerMachineBounds == MaxTxs \in Nat /\ MaxHeight \in Nat \ {0}

VARIABLES
    ledger,    \* LedgerState
    height,    \* height of the block the transactions are applied for
    journal    \* accepted transactions, each with the ledger it was applied to

vars == <<ledger, height, journal>>

Init ==
    /\ ledger = EmptyLedger
    /\ height = 1
    /\ journal = << >>

Submit(tx) ==
    LET applied == ApplyTransaction(ledger, tx, height, ChainId)
    IN  /\ ledger' = applied.ledger
        /\ journal' = IF applied.result = "ok"
                      THEN Append(journal, [tx |-> tx, height |-> height,
                                            spent |-> [i \in DOMAIN tx.core.inputs |->
                                              ledger.utxos[tx.core.inputs[i]]]])
                      ELSE journal
        /\ UNCHANGED height

\* The caller goes on to the next block.
NextBlock ==
    /\ height < MaxHeight
    /\ height' = height + 1
    /\ UNCHANGED <<ledger, journal>>

Next ==
    \/ NextBlock
    \/ /\ Len(journal) < MaxTxs
       /\ \E tx \in Candidates(ledger) : Submit(tx)

Spec == Init /\ [][Next]_vars

-----------------------------------------------------------------------------
(***************************************************************************)
(* What the properties count.                                              *)
(***************************************************************************)
HeldBy(output, assetId) ==
    FoldLeft(LAMBDA sum, x : IF x.asset_id = assetId THEN sum + x.amount ELSE sum,
             0, output.assets)

\* The amount of an asset in all unspent outputs (a mathematical sum).
Unspent(assetId) ==
    MapThenSumSet(LAMBDA key : HeldBy(ledger.utxos[key].output, assetId),
                  DOMAIN ledger.utxos)

AssetsHeld ==
    UNION {{x.asset_id : x \in Range(ledger.utxos[key].output.assets)} :
              key \in DOMAIN ledger.utxos}

Creations(assetId) ==
    {i \in DOMAIN journal :
        /\ IsCreate(journal[i].tx)
        /\ DeriveAssetId(journal[i].tx.core.kind.definition, ChainId) = assetId}

Issued(assetId) ==
    MapThenSumSet(LAMBDA i : journal[i].tx.core.kind.initial_supply,
                  Creations(assetId))

-----------------------------------------------------------------------------
\* Sum of each asset over the unspent outputs is exactly what its one
\* creation issued, and within its declared maximum: transfers, re-submitted
\* transactions and creations of other assets neither mint nor burn
\* (apply_transaction's conservation and mint checks).
SupplyConserved ==
    \A a \in AssetsHeld \cup DOMAIN ledger.assets :
        /\ Cardinality(Creations(a)) <= 1
        /\ Unspent(a) = Issued(a)
        /\ \A i \in Creations(a) :
              LET max == journal[i].tx.core.kind.definition.max_supply
              IN  max # None => Unspent(a) <= max[1]

\* An output that carries value is spent by at most one accepted transaction,
\* though outputs without value can come back: a transaction without inputs
\* can be applied again and recreates its outputs.
ValueSpentOnce ==
    \A i, j \in DOMAIN journal :
        i # j =>
          \A k \in DOMAIN journal[i].tx.core.inputs :
             LET key == journal[i].tx.core.inputs[k]
                 assets == journal[i].spent[k].output.assets
             IN  /\ key \in Range(journal[j].tx.core.inputs)
                 /\ \E x \in Range(assets) : x.amount > 0
                 => FALSE

\* A transaction that spends an output locked until a height was applied at
\* that height or later, whatever witness was supplied: the witness script has
\* to be the one the output commits to (LockedUntil gives the height of a
\* script that is an absolute or relative lock, and 0 for others).
LockedUntil(script, created) ==
    IF Len(script) = 2 /\ script[1].op = "PushBytes" /\ script[1].item.t = "u64"
    THEN CASE script[2].op = "CheckTimeLock" -> script[1].item.v
           [] script[2].op = "CheckRelativeTimeLock" -> created + script[1].item.v
           [] OTHER -> 0
    ELSE 0

LocksHonoured ==
    \A i \in DOMAIN journal : \A k \in DOMAIN journal[i].spent :
        journal[i].height >=
           LockedUntil(journal[i].spent[k].output.owner_script_hash[2],
                       journal[i].spent[k].created_height)

(***************************************************************************)
(* An output locked by a signature, as the engine's test                   *)
(* checks_signature_successfully builds it: its owner hashes a script with *)
(* an empty place for the signature, and to spend it signs the sighash for *)
(* that script and puts the signature into the place.                      *)
(***************************************************************************)
SignatureTemplate(owner) ==
    <<PushBytes(KeyItem(owner)), PushBytes(Bytes(0)), CheckSig>>

\* The owner's transfers of output key: with the signature in its place, and
\* with the script as it was committed to.
OwnerSpends(key, owner) ==
    LET tracked == ledger.utxos[key]
        spend(script) ==
            Transaction(Transfer, <<key>>, <<tracked.output>>,
                        <<[well_formed |-> TRUE, script |-> script, metadata |-> None]>>)
        signature ==
            SigItem(owner, ScriptCtx(ledger, spend(<< >>), 1, height, ChainId).sighash)
    IN  {spend(SignatureTemplate(owner)),
         spend([SignatureTemplate(owner) EXCEPT ![2] = PushBytes(signature)])}

\* When the engine accepts a spend by the owner of a signature-locked output, in
\* the context the ledger gives it, the ledger accepts one too (CheckSig of the
\* engine, the script hash check of apply_transaction).
SignedSpendAccepted ==
    \A key \in DOMAIN ledger.utxos, owner \in Owners :
        LET spends == OwnerSpends(key, owner)
        IN  /\ ledger.utxos[key].output.owner_script_hash
                  = ScriptHash(SignatureTemplate(owner))
            /\ \E tx \in spends :
                  Eval(tx.witness[1].script,
                       ScriptCtx(ledger, tx, 1, height, ChainId)).result = "ok"
            => \E tx \in spends :
                  ApplyTransaction(ledger, tx, height, ChainId).result = "ok"
=============================================================================
