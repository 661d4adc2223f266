------------------------- MODULE TransactionProofs -------------------------
(***************************************************************************)
(* Theorems about transactions: about the ledger that applies them         *)
(* (LedgerMachine), the scripts that unlock their inputs (ScriptMachine),  *)
(* the keys and signatures in those scripts (Crypto) and the bytes that    *)
(* their identifiers are hashes of (Codec).                                *)
(*                                                                         *)
(* The hypotheses on what a caller submits (Typed, SumsFit, OutputsFit,    *)
(* Witnessed, OpsAreOpcodes, ItemsHaveLength, HeightsFit, InputFits) are   *)
(* types of the code, or name the case in which an integer of the code     *)
(* wraps around.                                                           *)
(***************************************************************************)
EXTENDS LedgerMachine, ScriptMachine, Crypto, Codec, LedgerProofs, SequenceTheorems,
        FiniteSetTheorems

-----------------------------------------------------------------------------
(***************************************************************************)
(* Value is spent once.                                                    *)
(*                                                                         *)
(* A key names the transaction that made the output, and so the output.    *)
(* An output could be spent twice only if its transaction were applied     *)
(* twice.  That happens: a transaction without inputs always can be.  But  *)
(* a transaction whose outputs have value creates an asset, and then it is *)
(* refused the second time, or it has spent an output with value; and that *)
(* one does not come back, by the same argument.                           *)
(***************************************************************************)
\* What the caller submits are transactions, and no sum of positive amounts in
\* their outputs wraps around to zero.
Typed == \A tx \in Candidates(ledger) : IsTransaction(tx)
SumsFit == \A tx \in Candidates(ledger) : NothingVanishes(tx)

\* The output that a key names.
OutputOf(key) == key.tx_id[2].outputs[key.index + 1]

\* One of the accepted transactions made the output with this key.
MadeBy(key, tx) == key.tx_id = TxId(tx) /\ key.index + 1 \in DOMAIN tx.core.outputs
Genuine(key) == \E j \in DOMAIN journal : MadeBy(key, journal[j].tx)

Entry(e) ==
    /\ IsTransaction(e.tx)
    /\ e.spent = [k \in DOMAIN e.tx.core.inputs |-> e.spent[k]]
    /\ \A k \in DOMAIN e.tx.core.inputs :
          /\ Genuine(e.tx.core.inputs[k])
          /\ e.spent[k].output = OutputOf(e.tx.core.inputs[k])
          /\ Positive(e.spent[k].output) => e.tx.core.inputs[k] \notin DOMAIN ledger.utxos
    /\ IsCreate(e.tx) => AssetIdOf(e.tx, ChainId) \in DOMAIN ledger.assets

LedgerInv ==
    /\ IsLedger(ledger) /\ IsList(journal)
    /\ \A key \in DOMAIN ledger.utxos :
          Genuine(key) /\ ledger.utxos[key].output = OutputOf(key)
    /\ \A i \in DOMAIN journal : Entry(journal[i])

\* A key made by a transaction names an output of it.
LEMMA KeyNames ==
    ASSUME NEW tx, NEW key, MadeBy(key, tx)
    PROVE  OutputOf(key) = tx.core.outputs[key.index + 1]
  BY DEF MadeBy, OutputOf, TxId, Blake3

\* Equal identifiers have equal cores.
LEMMA SameCore ==
    ASSUME NEW t, NEW u, TxId(t) = TxId(u) PROVE t.core = u.core
  BY DEF TxId, Blake3

\* The output of a genuine key is well-formed.
LEMMA GenuineOutput ==
    ASSUME LedgerInv, NEW key, Genuine(key) PROVE IsOutput(OutputOf(key))
  <1>1. PICK j \in DOMAIN journal : MadeBy(key, journal[j].tx)
    BY DEF Genuine
  <1>2. IsTransaction(journal[j].tx)
    BY DEF LedgerInv, Entry
  <1>3. OutputOf(key) = journal[j].tx.core.outputs[key.index + 1]
    BY <1>1, KeyNames
  <1>4. QED BY <1>1, <1>2, <1>3 DEF IsTransaction, MadeBy

\* What is needed of a transaction that is accepted.
Accepted(tx) ==
    /\ IsTransaction(tx) /\ NothingVanishes(tx)
    /\ Applicable(ledger, tx, height, ChainId)

\* Its inputs are there, and each was made by an accepted transaction.
LEMMA InputsThere ==
    ASSUME LedgerInv, NEW tx, Accepted(tx), NEW k \in DOMAIN tx.core.inputs
    PROVE  /\ tx.core.inputs[k] \in DOMAIN ledger.utxos
           /\ Genuine(tx.core.inputs[k])
           /\ ledger.utxos[tx.core.inputs[k]].output = OutputOf(tx.core.inputs[k])
  <1>1. CheckInput(ledger, tx, k, height, ChainId) = "ok"
    BY InputsPass DEF Accepted, Applicable, IsTransaction
  <1>2. tx.core.inputs[k] \in DOMAIN ledger.utxos
    BY <1>1 DEF CheckInput
  <1>3. QED BY <1>2 DEF LedgerInv

\* A transaction that is accepted a second time makes no value.
LEMMA AgainWithoutValue ==
    ASSUME LedgerInv, NEW tx, Accepted(tx),
           NEW j \in DOMAIN journal, TxId(tx) = TxId(journal[j].tx),
           NEW o \in DOMAIN tx.core.outputs
    PROVE  ~Positive(tx.core.outputs[o])
  <1> SUFFICES ASSUME Positive(tx.core.outputs[o]) PROVE FALSE
    OBVIOUS
  <1>1. tx.core = journal[j].tx.core
    BY SameCore
  <1>2. Entry(journal[j])
    BY DEF LedgerInv
  <1>3. ~IsCreate(tx)
    <2> SUFFICES ASSUME IsCreate(tx) PROVE FALSE
      OBVIOUS
    <2>1. IsCreate(journal[j].tx) /\ AssetIdOf(tx, ChainId) = AssetIdOf(journal[j].tx, ChainId)
      BY <1>1 DEF IsCreate, AssetIdOf
    <2>2. AssetIdOf(tx, ChainId) \in DOMAIN ledger.assets
      BY <1>2, <2>1 DEF Entry
    <2>3. CheckNewAsset(ledger, tx, ChainId) = "ok"
      BY DEF Accepted, Applicable
    <2>4. QED BY <2>2, <2>3 DEF CheckNewAsset, AssetIdOf
  <1>4. \A k \in DOMAIN tx.core.inputs : IsOutput(ledger.utxos[tx.core.inputs[k]].output)
    BY InputsThere, GenuineOutput
  <1>5. PICK k \in DOMAIN tx.core.inputs : Positive(ledger.utxos[tx.core.inputs[k]].output)
    <2>1. Conserved(ledger, tx, ChainId) /\ IsTransaction(tx) /\ NothingVanishes(tx)
      BY DEF Accepted, Applicable
    <2>2. QED BY <1>3, <1>4, <2>1, ValueHasSource
  <1>6. PICK key : key = tx.core.inputs[k]
    OBVIOUS
  <1>7. key \in DOMAIN ledger.utxos /\ Positive(OutputOf(key))
    BY <1>5, <1>6, InputsThere
  <1>8. k \in DOMAIN journal[j].tx.core.inputs /\ key = journal[j].tx.core.inputs[k]
    BY <1>1, <1>6
  <1>9. key \notin DOMAIN ledger.utxos
    BY <1>2, <1>7, <1>8 DEF Entry
  <1>10. QED BY <1>7, <1>9

\* What spending and creating leaves: what was there and is no input, and the
\* outputs of the transaction.
LEMMA SpentAndCreated ==
    ASSUME NEW utxos, NEW tx, IsTransaction(tx), NEW h,
           NEW key \in DOMAIN SpendAndCreate(utxos, tx, h)
    PROVE  LET new == SpendAndCreate(utxos, tx, h)
           IN  \/ MadeBy(key, tx) /\ new[key].output = OutputOf(key)
               \/ /\ key \in DOMAIN utxos /\ new[key] = utxos[key]
                  /\ \A k \in DOMAIN tx.core.inputs : tx.core.inputs[k] # key
  <1> DEFINE consumed == {tx.core.inputs[i] : i \in DOMAIN tx.core.inputs}
             created == {UtxoKey(TxId(tx), i - 1) : i \in DOMAIN tx.core.outputs}
  <1>1. PICK new : new = SpendAndCreate(utxos, tx, h)
    OBVIOUS
  <1>2. new = [k \in (DOMAIN utxos \ consumed) \cup created |->
                  IF k \in created
                  THEN [output |-> tx.core.outputs[k.index + 1], created_height |-> h]
                  ELSE utxos[k]]
    BY <1>1 DEF SpendAndCreate
  <1>3. CASE key \in created
    <2>1. PICK i \in DOMAIN tx.core.outputs : key = UtxoKey(TxId(tx), i - 1)
      BY <1>3
    <2>2. PICK n \in Nat : DOMAIN tx.core.outputs = 1..n
      BY ListDomain DEF IsTransaction
    <2>3. key.tx_id = TxId(tx) /\ key.index = i - 1
      BY <2>1 DEF UtxoKey, TransactionInput
    <2>4. key.index + 1 = i
      BY <2>2, <2>3
    <2>5. MadeBy(key, tx)
      BY <2>3, <2>4 DEF MadeBy
    <2>6. new[key].output = tx.core.outputs[key.index + 1]
      <3> HIDE DEF created
      <3>1. QED BY <1>2, <1>3
    <2>7. QED BY <1>1, <2>5, <2>6, KeyNames
  <1>4. CASE key \notin created
    <2>1. key \in DOMAIN utxos \ consumed /\ new[key] = utxos[key]
      <3> HIDE DEF created, consumed
      <3>1. QED BY <1>1, <1>2, <1>4
    <2>2. QED BY <1>1, <2>1
  <1>5. QED BY <1>3, <1>4

\* A longer list.
OneMore(s, e, t) ==
    /\ IsList(t) /\ Len(s) \in Nat /\ DOMAIN s = 1..Len(s)
    /\ DOMAIN t = 1..(Len(s) + 1) /\ t[Len(s) + 1] = e
    /\ \A i \in DOMAIN s : t[i] = s[i]

\* What Append does to a list.
LEMMA AppendList ==
    ASSUME NEW s, IsList(s), NEW e PROVE OneMore(s, e, Append(s, e))
  <1>1. Len(s) \in Nat /\ DOMAIN s = 1..Len(s) /\ s \in Seq(ToSet(s))
    BY ListDomain DEF IsList
  <1>2. PICK S : S = ToSet(s) \cup {e}
    OBVIOUS
  <1>3. s \in Seq(S) /\ e \in S
    BY <1>1, <1>2
  <1>4. PICK t, n : t = Append(s, e) /\ n = Len(s) + 1
    OBVIOUS
  <1>5. n \in Nat /\ t \in Seq(S) /\ Len(t) = n
    BY <1>1, <1>3, <1>4
  <1>6. t[n] = e /\ \A i \in 1..Len(s) : t[i] = s[i]
    BY <1>1, <1>3, <1>4
  <1>7. t = [i \in 1..n |-> t[i]]
    BY <1>5
  <1>8. IsList(t) /\ DOMAIN t = 1..n
    BY <1>5, <1>7, ListFrom
  <1>9. QED BY <1>1, <1>4, <1>6, <1>8 DEF OneMore

\* What Submit does to the state.
Record(tx) ==
    [tx |-> tx, height |-> height,
     spent |-> [i \in DOMAIN tx.core.inputs |-> ledger.utxos[tx.core.inputs[i]]]]

\* A transaction that is accepted is applied and recorded; another one changes
\* neither outputs nor journal.
LEMMA SubmitIs ==
    ASSUME IsLedger(ledger), NEW tx, Submit(tx)
    PROVE  /\ IsLedger(ledger') /\ height' = height
           /\ DOMAIN ledger.assets \subseteq DOMAIN ledger'.assets
           /\ \/ /\ Applicable(ledger, tx, height, ChainId)
                 /\ ledger'.utxos = SpendAndCreate(ledger.utxos, tx, height)
                 /\ IsCreate(tx) => AssetIdOf(tx, ChainId) \in DOMAIN ledger'.assets
                 /\ journal' = Append(journal, Record(tx))
              \/ ledger'.utxos = ledger.utxos /\ journal' = journal
  <1>1. PICK r : r = ApplyTransaction(ledger, tx, height, ChainId)
    OBVIOUS
  <1>2. /\ ledger' = r.ledger /\ height' = height
        /\ journal' = IF r.result = "ok" THEN Append(journal, Record(tx)) ELSE journal
    BY <1>1 DEF Submit, Record
  <1>3. /\ IsLedger(r.ledger)
        /\ r.result = "ok" <=> Applicable(ledger, tx, height, ChainId)
        /\ r.ledger.utxos = IF r.result = "ok" THEN SpendAndCreate(ledger.utxos, tx, height)
                                               ELSE ledger.utxos
        /\ DOMAIN ledger.assets \subseteq DOMAIN r.ledger.assets
        /\ r.result = "ok" =>
              DOMAIN r.ledger.assets
                = DOMAIN ledger.assets
                  \cup (IF IsCreate(tx) THEN {AssetIdOf(tx, ChainId)} ELSE {})
    BY <1>1, ApplyShape
  <1>4. CASE r.result = "ok"
    BY <1>2, <1>3, <1>4
  <1>5. CASE r.result # "ok"
    BY <1>2, <1>3, <1>5
  <1>6. QED BY <1>4, <1>5

\* Every step keeps the invariant.
LEMMA SubmitPreserves ==
    ASSUME LedgerInv, Typed, SumsFit, NEW tx \in Candidates(ledger), Submit(tx)
    PROVE  LedgerInv'
  <1>0. IsTransaction(tx) /\ NothingVanishes(tx)
    BY DEF Typed, SumsFit
  <1>1. /\ IsLedger(ledger') /\ DOMAIN ledger.assets \subseteq DOMAIN ledger'.assets
    BY SubmitIs DEF LedgerInv
  <1>2. CASE ledger'.utxos = ledger.utxos /\ journal' = journal
    <2>1. \A key : Genuine(key)' <=> Genuine(key)
      BY <1>2 DEF Genuine
    <2>2. \A i \in DOMAIN journal : Entry(journal[i])
      BY DEF LedgerInv
    <2>3. \A i \in DOMAIN journal' : Entry(journal[i])'
      BY <1>1, <1>2, <2>1, <2>2 DEF Entry
    <2>4. \A key \in DOMAIN ledger'.utxos :
             Genuine(key)' /\ ledger'.utxos[key].output = OutputOf(key)
      BY <1>2, <2>1 DEF LedgerInv
    <2>5. IsList(journal')
      BY <1>2 DEF LedgerInv
    <2>6. QED BY <1>1, <2>3, <2>4, <2>5 DEF LedgerInv
  <1>3. CASE /\ Applicable(ledger, tx, height, ChainId)
             /\ ledger'.utxos = SpendAndCreate(ledger.utxos, tx, height)
             /\ IsCreate(tx) => AssetIdOf(tx, ChainId) \in DOMAIN ledger'.assets
             /\ journal' = Append(journal, Record(tx))
    <2>1. Accepted(tx)
      BY <1>0, <1>3 DEF Accepted
    <2>2. PICK n \in Nat :
             /\ n = Len(journal) + 1 /\ IsList(journal') /\ n \in DOMAIN journal'
             /\ journal'[n] = Record(tx)
             /\ \A i \in DOMAIN journal : journal'[i] = journal[i] /\ i \in DOMAIN journal'
             /\ \A i \in DOMAIN journal' : i \in DOMAIN journal \/ i = n
      <3>1. IsList(journal)
        BY DEF LedgerInv
      <3>2. Len(journal) + 1 \in Nat /\ Len(journal) + 1 \in 1..(Len(journal) + 1)
        BY <3>1, ListDomain
      <3>3. OneMore(journal, Record(tx), journal')
        BY <1>3, <3>1, AppendList
      <3>4. QED BY <3>2, <3>3 DEF OneMore
    <2>3. Record(tx).tx = tx
      BY DEF Record
    <2>4. \A key : Genuine(key) => Genuine(key)'
      BY <2>2 DEF Genuine
    <2>5. \A key : MadeBy(key, tx) => Genuine(key)'
      BY <2>2, <2>3 DEF Genuine
    <2>6. ASSUME NEW key \in DOMAIN ledger'.utxos
          PROVE  Genuine(key)' /\ ledger'.utxos[key].output = OutputOf(key)
      <3>1. \/ MadeBy(key, tx) /\ ledger'.utxos[key].output = OutputOf(key)
            \/ key \in DOMAIN ledger.utxos /\ ledger'.utxos[key] = ledger.utxos[key]
        BY <1>0, <1>3, <2>6, SpentAndCreated
      <3>2. QED BY <2>4, <2>5, <3>1 DEF LedgerInv
    <2>7. ASSUME NEW key, Positive(OutputOf(key)), Genuine(key),
                 \/ key \notin DOMAIN ledger.utxos
                 \/ \E k \in DOMAIN tx.core.inputs : tx.core.inputs[k] = key
          PROVE  key \notin DOMAIN ledger'.utxos
      <3> SUFFICES ASSUME key \in DOMAIN ledger'.utxos PROVE FALSE
        OBVIOUS
      <3>1. MadeBy(key, tx)
        BY <1>0, <1>3, <2>7, SpentAndCreated
      <3>2. PICK j \in DOMAIN journal : MadeBy(key, journal[j].tx)
        BY <2>7 DEF Genuine
      <3>3. TxId(tx) = TxId(journal[j].tx) /\ key.index + 1 \in DOMAIN tx.core.outputs
        BY <3>1, <3>2 DEF MadeBy
      <3>4. ~Positive(tx.core.outputs[key.index + 1])
        BY <2>1, <3>3, AgainWithoutValue
      <3>5. QED BY <2>7, <3>1, <3>4, KeyNames
    <2>8. ASSUME NEW i \in DOMAIN journal PROVE Entry(journal[i])'
      <3>1. PICK e : e = journal[i]
        OBVIOUS
      <3>2. Entry(e)
        BY <3>1 DEF LedgerInv
      <3>3. journal'[i] = e
        BY <2>2, <3>1
      <3>4. ASSUME NEW k \in DOMAIN e.tx.core.inputs
            PROVE  /\ Genuine(e.tx.core.inputs[k])'
                   /\ e.spent[k].output = OutputOf(e.tx.core.inputs[k])
                   /\ Positive(e.spent[k].output) => e.tx.core.inputs[k] \notin DOMAIN ledger'.utxos
        BY <2>4, <2>7, <3>2 DEF Entry
      <3>5. IsCreate(e.tx) => AssetIdOf(e.tx, ChainId) \in DOMAIN ledger'.assets
        BY <1>1, <3>2 DEF Entry
      <3>6. IsTransaction(e.tx) /\ e.spent = [k \in DOMAIN e.tx.core.inputs |-> e.spent[k]]
        BY <3>2 DEF Entry
      <3>7. QED BY <3>3, <3>4, <3>5, <3>6 DEF Entry
    <2>9. Entry(journal[n])'
      <3>1. PICK e : e = Record(tx)
        OBVIOUS
      <3>2. /\ e.tx = tx /\ e.spent = [k \in DOMAIN tx.core.inputs |-> e.spent[k]]
            /\ \A k \in DOMAIN tx.core.inputs : e.spent[k] = ledger.utxos[tx.core.inputs[k]]
        BY <3>1 DEF Record
      <3>3. ASSUME NEW k \in DOMAIN tx.core.inputs
            PROVE  /\ Genuine(tx.core.inputs[k])'
                   /\ e.spent[k].output = OutputOf(tx.core.inputs[k])
                   /\ Positive(e.spent[k].output) => tx.core.inputs[k] \notin DOMAIN ledger'.utxos
        <4>1. /\ Genuine(tx.core.inputs[k])
              /\ e.spent[k].output = OutputOf(tx.core.inputs[k])
          <5>1. /\ Genuine(tx.core.inputs[k])
                /\ ledger.utxos[tx.core.inputs[k]].output = OutputOf(tx.core.inputs[k])
            BY <2>1, InputsThere
          <5>2. e.spent[k] = ledger.utxos[tx.core.inputs[k]]
            BY <3>2
          <5>3. QED BY <5>1, <5>2
        <4>2. QED BY <2>4, <2>7, <4>1
      <3>4. journal'[n] = e
        BY <2>2, <3>1
      <3>5. QED BY <1>0, <1>3, <3>2, <3>3, <3>4 DEF Entry
    <2>10. \A i \in DOMAIN journal' : Entry(journal[i])'
      BY <2>2, <2>8, <2>9
    <2>11. QED BY <1>1, <2>2, <2>6, <2>10 DEF LedgerInv
  <1>4. QED BY <1>2, <1>3, SubmitIs DEF LedgerInv

\* The empty ledger and the empty journal satisfy the invariant.
LEMMA LedgerInvInit == Init => LedgerInv
  <1> SUFFICES ASSUME Init PROVE LedgerInv
    OBVIOUS
  <1>1. IsLedger(ledger) /\ DOMAIN ledger.utxos = {}
    BY DEF Init, EmptyLedger, IsLedger
  <1>2. IsList(journal) /\ DOMAIN journal = {}
    BY DEF Init, IsList
  <1>3. QED BY <1>1, <1>2 DEF LedgerInv

\* Going on to the next block, or stuttering, touches neither ledger nor journal.
LEMMA LedgerInvNext ==
    ASSUME LedgerInv, Typed, SumsFit, [Next]_vars PROVE LedgerInv'
  <1>1. CASE UNCHANGED <<ledger, journal>>
    <2>1. \A key : Genuine(key)' <=> Genuine(key)
      BY <1>1 DEF Genuine
    <2>2. \A i \in DOMAIN journal : Entry(journal[i])
      BY DEF LedgerInv
    <2>3. \A i \in DOMAIN journal' : Entry(journal[i])'
      BY <1>1, <2>1, <2>2 DEF Entry
    <2>4. QED BY <1>1, <2>1, <2>3 DEF LedgerInv
  <1>2. CASE \E tx \in Candidates(ledger) : Submit(tx)
    BY <1>2, SubmitPreserves
  <1>3. QED BY <1>1, <1>2 DEF Next, NextBlock, vars

\* Two entries of the journal share no input with value.
Apart(d, e) ==
    \A k \in DOMAIN d.tx.core.inputs, m \in DOMAIN e.tx.core.inputs :
        d.tx.core.inputs[k] = e.tx.core.inputs[m] => ~Positive(d.spent[k].output)
AllApart == \A i, j \in DOMAIN journal : i # j => Apart(journal[i], journal[j])

\* ValueSpentOnce says that of every two entries.
LEMMA ApartIsOnce == AllApart => ValueSpentOnce
  <1> SUFFICES ASSUME AllApart, NEW i \in DOMAIN journal, NEW j \in DOMAIN journal, i # j,
                      NEW k \in DOMAIN journal[i].tx.core.inputs,
                      journal[i].tx.core.inputs[k] \in Range(journal[j].tx.core.inputs),
                      \E x \in Range(journal[i].spent[k].output.assets) : x.amount > 0
               PROVE  FALSE
    BY DEF ValueSpentOnce
  <1>1. PICK m \in DOMAIN journal[j].tx.core.inputs :
           journal[i].tx.core.inputs[k] = journal[j].tx.core.inputs[m]
    BY DEF Range
  <1>2. Positive(journal[i].spent[k].output)
    BY DEF Range, ToSet, Positive
  <1>3. QED BY <1>1, <1>2 DEF AllApart, Apart

\* A transaction that is accepted spends what is there, and no value that an
\* earlier entry has spent is there.
LEMMA ApartNext ==
    ASSUME AllApart, LedgerInv, Typed, SumsFit, [Next]_vars PROVE AllApart'
  <1>1. CASE journal' = journal
    BY <1>1 DEF AllApart
  <1>2. ASSUME NEW tx \in Candidates(ledger), Submit(tx), journal' # journal
        PROVE  AllApart'
    <2>1. /\ Applicable(ledger, tx, height, ChainId)
          /\ journal' = Append(journal, Record(tx))
      BY <1>2, SubmitIs DEF LedgerInv
    <2>2. Accepted(tx)
      BY <2>1 DEF Accepted, Typed, SumsFit
    <2>3. PICK e : e = Record(tx)
      OBVIOUS
    <2>4. /\ e.tx = tx
          /\ \A k \in DOMAIN tx.core.inputs : e.spent[k] = ledger.utxos[tx.core.inputs[k]]
      BY <2>3 DEF Record
    <2>5. OneMore(journal, e, journal')
      BY <2>1, <2>3, AppendList DEF LedgerInv
    <2>6. PICK n \in Nat : n = Len(journal)
      BY <2>5 DEF OneMore
    <2>7. ASSUME NEW i \in DOMAIN journal'
          PROVE  \/ i \in DOMAIN journal /\ journal'[i] = journal[i]
                 \/ i = n + 1 /\ journal'[i] = e
      <3>1. /\ DOMAIN journal = 1..n /\ DOMAIN journal' = 1..(n + 1)
            /\ journal'[n + 1] = e /\ \A k \in DOMAIN journal : journal'[k] = journal[k]
        BY <2>5, <2>6 DEF OneMore
      <3>2. i \in 1..n \/ i = n + 1
        BY <2>7, <3>1
      <3>3. QED BY <3>1, <3>2
    <2>8. ASSUME NEW j \in DOMAIN journal PROVE Apart(journal[j], e) /\ Apart(e, journal[j])
      <3>1. PICK d : d = journal[j]
        OBVIOUS
      <3>2. Entry(d)
        BY <3>1 DEF LedgerInv
      <3>3. ASSUME NEW k \in DOMAIN d.tx.core.inputs, NEW m \in DOMAIN tx.core.inputs,
                   d.tx.core.inputs[k] = tx.core.inputs[m]
            PROVE  ~Positive(d.spent[k].output) /\ ~Positive(e.spent[m].output)
        <4>1. /\ tx.core.inputs[m] \in DOMAIN ledger.utxos
              /\ ledger.utxos[tx.core.inputs[m]].output = OutputOf(tx.core.inputs[m])
          BY <2>2, InputsThere
        <4>2. e.spent[m].output = d.spent[k].output
          BY <2>4, <3>2, <3>3, <4>1 DEF Entry
        <4>3. ~Positive(d.spent[k].output)
          BY <3>2, <3>3, <4>1 DEF Entry
        <4>4. QED BY <4>2, <4>3
      <3>4. QED BY <2>4, <3>1, <3>3 DEF Apart
    <2>9. \A i, j \in DOMAIN journal : i # j => Apart(journal[i], journal[j])
      BY DEF AllApart
    <2>10. ASSUME NEW i \in DOMAIN journal', NEW j \in DOMAIN journal', i # j
          PROVE  Apart(journal'[i], journal'[j])
      BY <2>7, <2>8, <2>9, <2>10
    <2>11. QED BY <2>10 DEF AllApart
  <1>3. QED BY <1>1, <1>2 DEF Next, NextBlock, vars

\* An output with value is spent by at most one accepted transaction, for every
\* caller and every order of submissions (apply_transaction), as long as no
\* transaction has outputs whose sum wraps around to zero: that is exactly the
\* transaction that would make value out of nothing in a release build.
THEOREM ValueSpentOnceHolds == Spec /\ []Typed /\ []SumsFit => []ValueSpentOnce
  <1>1. Init => AllApart
    BY DEF Init, AllApart
  <1>2. LedgerInv /\ Typed /\ SumsFit /\ [Next]_vars => LedgerInv'
    BY LedgerInvNext
  <1>3. AllApart /\ LedgerInv /\ Typed /\ SumsFit /\ [Next]_vars => AllApart'
    BY ApartNext
  <1>4. QED BY <1>1, <1>2, <1>3, LedgerInvInit, ApartIsOnce, PTL DEF Spec

-----------------------------------------------------------------------------
(***************************************************************************)
(* Scripts.                                                                *)
(*                                                                         *)
(* While a script passes, every item on the stack is one that an earlier   *)
(* opcode pushed, and the items lie in the order in which they were        *)
(* pushed.  So what a lock finds on the stack stands in the script.        *)
(***************************************************************************)
OpNames == {"PushBytes", "Nop", "CheckSig", "CheckMultiSig", "CheckTimeLock",
            "CheckRelativeTimeLock", "CheckHashLock"}
IsOp(op) ==
    /\ op.op \in OpNames
    /\ op.op = "CheckMultiSig" => op.threshold \in Nat /\ op.total \in Nat
IsScript(s) == IsList(s) /\ \A i \in DOMAIN s : IsOp(s[i])

IsRun(st) ==
    /\ st = [result |-> st.result, stack |-> st.stack, gas |-> st.gas]
    /\ IsList(st.stack)

\* The height from which a lock counts.
Start(op, ctx) == IF op.op = "CheckTimeLock" THEN 0 ELSE ctx.created_height

\* How many items an opcode takes from the stack, and how many of them, from the top,
\* are signatures.
Takes(op) ==
    CASE op.op \in {"CheckSig", "CheckHashLock"} -> 2
      [] op.op = "CheckMultiSig" -> op.threshold + op.total
      [] IsLock(op) -> 1
      [] OTHER -> 0
Needs(op) ==
    IF IsCheckSig(op) THEN 1 ELSE IF IsMultiSig(op) THEN op.threshold ELSE 0

\* An opcode has pushed its item, or dropped the ones that it takes from the top.
Stacked(stack, op, new) ==
    IF op.op = "PushBytes" THEN new = Append(stack, op.item)
    ELSE Takes(op) \in 0..Len(stack) /\ new = SubSeq(stack, 1, Len(stack) - Takes(op))

\* What a check of signatures has found on the stack when it succeeds: the signatures
\* over this input on top, and the keys that made them below, all of which it takes.
IsKeyAt(stack, p, v) == stack[p].t = "key" /\ stack[p].v = v
IsSigAt(stack, p, ctx) == stack[p].t = "sig" /\ stack[p].over = ctx.sighash
Signed(stack, op, ctx) ==
    LET top == Len(stack)
    IN  /\ Needs(op) \in Nat /\ Needs(op) <= Takes(op) /\ Needs(op) <= top
        /\ \A p \in (top - Needs(op) + 1)..top :
              /\ IsSigAt(stack, p, ctx)
              /\ \E q \in 1..top : IsKeyAt(stack, q, stack[p].v)

\* What a lock has found on the stack when it opens.
Opened(stack, op, ctx) ==
    LET top == Len(stack)
    IN  /\ IsHashLock(op) =>
              /\ top >= 2 /\ stack[top - 1].t = "hash"
              /\ stack[top - 1].v = Blake3("bytes", stack[top])
        /\ IsLock(op) =>
              /\ top >= 1 /\ stack[top].t = "u64"
              /\ ctx.current_height >= (Start(op, ctx) + stack[top].v) % HeightMod

\* Dropping items from a list.
LEMMA DropList ==
    ASSUME NEW s, IsList(s), NEW d \in 0..Len(s), NEW t, t = SubSeq(s, 1, Len(s) - d)
    PROVE  /\ IsList(t) /\ Len(t) = Len(s) - d
           /\ DOMAIN t \subseteq DOMAIN s /\ \A p \in DOMAIN t : t[p] = s[p]
  <1>1. PICK n \in Nat : n = Len(s) /\ DOMAIN s = 1..n
    BY ListDomain
  <1>2. PICK m \in Nat : m = n - d /\ m <= n
    BY <1>1
  <1>3. s \in Seq(ToSet(s))
    BY DEF IsList
  <1>4. t \in Seq(ToSet(s)) /\ Len(t) = m /\ \A p \in 1..m : t[p] = s[p]
    BY <1>1, <1>2, <1>3
  <1>5. t = [p \in 1..m |-> t[p]]
    BY <1>4
  <1>6. IsList(t) /\ DOMAIN t = 1..m
    BY <1>5, ListFrom
  <1>7. QED BY <1>1, <1>2, <1>4, <1>6

\* What an opcode that does not fail does.
LEMMA OpPasses ==
    ASSUME NEW st, IsRun(st), NEW op, IsOp(op), NEW ctx, EvalOp(st, op, ctx).result = "ok"
    PROVE  /\ st.result = "ok"
           /\ Stacked(st.stack, op, EvalOp(st, op, ctx).stack)
           /\ Opened(st.stack, op, ctx) /\ Signed(st.stack, op, ctx)
           /\ IsRun(EvalOp(st, op, ctx))
           /\ EvalOp(st, op, ctx).gas = st.gas - GasCost(op)
           /\ ~(GasCost(op) > st.gas)
           /\ op.op = "PushBytes" =>
                 ~(ItemLen(op.item) > MaxPushBytes) /\ ~(Len(st.stack) >= MaxStackItems)
  <1> DEFINE new == EvalOp(st, op, ctx)
             stack == st.stack
  <1>0. \A s, e : IsRun(s) => Fail(s, e).result = e
    BY DEF IsRun, Fail
  <1>1. PICK n \in Nat : n = Len(stack) /\ DOMAIN stack = 1..n
    BY ListDomain DEF IsRun
  <1>2. PICK paid : /\ paid = [st EXCEPT !.gas = @ - GasCost(op)]
                    /\ paid.stack = stack /\ paid.result = st.result /\ IsRun(paid)
                    /\ paid.gas = st.gas - GasCost(op)
    <2>1. PICK c : c = st.gas - GasCost(op)
      OBVIOUS
    <2>2. PICK paid : paid = [result |-> st.result, stack |-> stack, gas |-> c]
      OBVIOUS
    <2>3. paid = [st EXCEPT !.gas = c]
      BY <2>2 DEF IsRun
    <2>4. paid.stack = stack /\ paid.result = st.result /\ paid.gas = c /\ IsRun(paid)
      BY <2>2 DEF IsRun
    <2>5. QED BY <2>1, <2>3, <2>4
  <1>3. st.result = "ok"
    BY DEF EvalOp
  <1>4. /\ ~(op.op = "PushBytes" /\ ItemLen(op.item) > MaxPushBytes)
        /\ ~(GasCost(op) > st.gas)
    BY <1>0, <1>3 DEF EvalOp
  <1>5. new = CASE op.op = "PushBytes" -> Push(paid, op.item)
               [] op.op = "Nop" -> paid
               [] op.op = "CheckSig" -> EvalCheckSig(paid, ctx)
               [] op.op = "CheckMultiSig" -> EvalCheckMultiSig(paid, op, ctx)
               [] op.op = "CheckTimeLock" ->
                    EvalHeightLock(paid, 0, ctx.current_height)
               [] op.op = "CheckRelativeTimeLock" ->
                    EvalHeightLock(paid, ctx.created_height, ctx.current_height)
               [] op.op = "CheckHashLock" -> EvalCheckHashLock(paid)
    BY <1>2, <1>3, <1>4 DEF EvalOp
  <1>6. ASSUME NEW d \in 0..n, d = Takes(op), new = Drop(paid, d), op.op # "PushBytes"
        PROVE  Stacked(stack, op, new.stack) /\ IsRun(new) /\ new.gas = paid.gas
    <2>1. PICK t : t = SubSeq(stack, 1, n - d)
      OBVIOUS
    <2>2. new = [paid EXCEPT !.stack = t]
      BY <1>1, <1>2, <1>6, <2>1 DEF Drop
    <2>3. IsList(t)
      BY <1>1, <2>1, DropList DEF IsRun
    <2>4. new = [result |-> paid.result, stack |-> t, gas |-> paid.gas]
      BY <1>2, <2>2 DEF IsRun
    <2>5. IsRun(new) /\ new.stack = t /\ new.gas = paid.gas
      BY <2>3, <2>4 DEF IsRun
    <2>6. QED BY <1>1, <1>6, <2>1, <2>5 DEF Stacked
  <1>n. ASSUME ~IsCheckSig(op), ~IsMultiSig(op) PROVE Signed(stack, op, ctx)
    <2>1. Needs(op) = 0 /\ Takes(op) \in Nat
      BY <1>n DEF Needs, Takes, IsMultiSig
    <2>2. (n - 0 + 1)..n = {}
      OBVIOUS
    <2>3. QED BY <1>1, <2>1, <2>2 DEF Signed
  <1>7. CASE op.op = "PushBytes"
    <2>0. Signed(stack, op, ctx)
      BY <1>7, <1>n DEF IsCheckSig, IsMultiSig
    <2>1. new = Push(paid, op.item)
      BY <1>5, <1>7
    <2>2. ~(n >= MaxStackItems) /\ new = [paid EXCEPT !.stack = Append(stack, op.item)]
      BY <1>0, <1>1, <1>2, <2>1 DEF Push
    <2>3. PICK t : t = Append(stack, op.item) /\ IsList(t)
      BY AppendList DEF OneMore, IsRun
    <2>4. new = [result |-> paid.result, stack |-> t, gas |-> paid.gas]
      BY <1>2, <2>2, <2>3 DEF IsRun
    <2>5. new.stack = t /\ new.gas = paid.gas /\ new.result = paid.result /\ IsList(t)
      BY <2>3, <2>4
    <2>6. IsRun(new)
      <3> HIDE DEF new
      <3>1. QED BY <2>4, <2>5 DEF IsRun
    <2>7. QED BY <1>1, <1>2, <1>3, <1>4, <1>7, <2>0, <2>2, <2>3, <2>5, <2>6
              DEF Stacked, Opened, IsHashLock, IsLock
  <1>8. CASE op.op = "Nop"
    <2>0. Signed(stack, op, ctx) /\ Takes(op) = 0
      BY <1>8, <1>n DEF IsCheckSig, IsMultiSig, Takes, IsLock
    <2>1. new = paid /\ 0 \in 0..n
      BY <1>5, <1>8
    <2>2. stack = SubSeq(stack, 1, n - 0)
      BY <1>1 DEF IsRun, IsList
    <2>3. Stacked(stack, op, new.stack)
      BY <1>1, <1>2, <1>8, <2>0, <2>1, <2>2 DEF Stacked
    <2>4. QED BY <1>2, <1>3, <1>4, <1>8, <2>0, <2>1, <2>3 DEF Opened, IsHashLock, IsLock
  <1>9. CASE op.op = "CheckSig"
    <2>1. /\ n >= 2 /\ new = Drop(paid, 2)
          /\ Popped(paid, 1).t = "sig" /\ Popped(paid, 2).t = "key"
          /\ Verify(Popped(paid, 2), ctx.sighash, Popped(paid, 1))
      BY <1>0, <1>1, <1>2, <1>5, <1>9 DEF EvalCheckSig
    <2>2. 2 \in 0..n /\ n - 1 \in 1..n /\ (n - 1 + 1)..n = {n}
      BY <2>1
    <2>3. Takes(op) = 2 /\ Needs(op) = 1
      BY <1>9 DEF Takes, Needs, IsCheckSig, IsLock
    <2>4. Popped(paid, 1) = stack[n] /\ Popped(paid, 2) = stack[n - 1]
      BY <1>1, <1>2 DEF Popped
    <2>5. IsSigAt(stack, n, ctx) /\ IsKeyAt(stack, n - 1, stack[n].v)
      BY <2>1, <2>4 DEF Verify, IsSigAt, IsKeyAt
    <2>6. Signed(stack, op, ctx)
      BY <1>1, <2>1, <2>2, <2>3, <2>5 DEF Signed
    <2>7. QED BY <1>2, <1>3, <1>4, <1>6, <1>9, <2>1, <2>2, <2>3, <2>6
              DEF Opened, IsHashLock, IsLock
  <1>10. CASE op.op = "CheckMultiSig"
    <2>1. new = EvalCheckMultiSig(paid, op, ctx)
      BY <1>5, <1>10
    <2>2. PICK c \in Nat : c = op.threshold + op.total
      BY <1>10 DEF IsOp
    <2>3. ~(op.threshold = 0) /\ new = Drop(paid, c) /\ \A i \in 1..c : ~(i > Len(paid.stack))
      BY <1>0, <1>2, <2>1, <2>2 DEF EvalCheckMultiSig
    <2>4. c \in 1..c
      BY <1>10, <2>2, <2>3 DEF IsOp
    <2>5. c \in 0..n
      BY <1>1, <1>2, <2>2, <2>3, <2>4
    <2>6. PICK th \in Nat : th = op.threshold /\ Needs(op) = th /\ Takes(op) = c
      BY <1>10, <2>2 DEF IsOp, Needs, Takes, IsCheckSig, IsMultiSig, IsLock
    <2>7. th <= op.total /\ op.total \in Nat
      BY <1>0, <1>2, <1>10, <2>1, <2>6 DEF EvalCheckMultiSig, IsOp
    <2>8. /\ \A i \in 1..c : Popped(paid, i).t = (IF i <= th THEN "sig" ELSE "key")
          /\ \A i \in 1..th : Verify(Popped(paid, th + i), ctx.sighash, Popped(paid, i))
      BY <1>0, <1>2, <1>3, <2>1, <2>2, <2>6 DEF EvalCheckMultiSig
    <2>9. \A i \in 1..c : Popped(paid, i) = stack[n + 1 - i]
      BY <1>1, <1>2 DEF Popped
    <2>10. ASSUME NEW p \in (n - th + 1)..n
           PROVE  IsSigAt(stack, p, ctx) /\ \E q \in 1..n : IsKeyAt(stack, q, stack[p].v)
      <3>1. PICK i \in 1..th : i = n + 1 - p /\ n + 1 - i = p
        BY <2>10
      <3>2. PICK q \in 1..n : q = n + 1 - (th + i)
        BY <2>2, <2>5, <2>6, <2>7, <3>1
      <3>3. i \in 1..c /\ th + i \in 1..c /\ i <= th /\ ~(th + i <= th)
        BY <2>2, <2>6, <2>7, <3>1
      <3>4. /\ stack[p].t = "sig" /\ stack[q].t = "key"
            /\ Verify(stack[q], ctx.sighash, stack[p])
        BY <2>8, <2>9, <3>1, <3>2, <3>3
      <3>5. QED BY <3>4 DEF Verify, IsSigAt, IsKeyAt
    <2>11. Signed(stack, op, ctx)
      BY <1>1, <2>2, <2>5, <2>6, <2>7, <2>10 DEF Signed
    <2>12. QED BY <1>2, <1>3, <1>4, <1>6, <1>10, <2>3, <2>5, <2>6, <2>11
              DEF Opened, IsHashLock, IsLock
  <1>11. CASE IsLock(op)
    <2>1. new = EvalHeightLock(paid, Start(op, ctx), ctx.current_height)
      BY <1>5, <1>11 DEF Start, IsLock
    <2>2. stack # << >>
      BY <1>0, <1>2, <2>1 DEF EvalHeightLock
    <2>3. n >= 1
      BY <1>1, <2>2 DEF IsRun, IsList
    <2>4. /\ Popped(paid, 1).t = "u64" /\ new = Drop(paid, 1)
          /\ ctx.current_height >= (Start(op, ctx) + Popped(paid, 1).v) % HeightMod
      BY <1>0, <1>2, <2>1, <2>2 DEF EvalHeightLock
    <2>5. Popped(paid, 1) = stack[n]
      BY <1>1, <1>2 DEF Popped
    <2>6. 1 \in 0..n /\ Takes(op) = 1 /\ Signed(stack, op, ctx)
      BY <1>11, <1>n, <2>3 DEF Takes, IsLock, IsCheckSig, IsMultiSig
    <2>7. QED BY <1>1, <1>2, <1>3, <1>4, <1>6, <1>11, <2>3, <2>4, <2>5, <2>6
              DEF Opened, IsHashLock, IsLock
  <1>12. CASE op.op = "CheckHashLock"
    <2>1. n >= 2 /\ new = Drop(paid, 2)
          /\ Popped(paid, 2).t = "hash" /\ Popped(paid, 2).v = Blake3("bytes", Popped(paid, 1))
      BY <1>0, <1>1, <1>2, <1>5, <1>12 DEF EvalCheckHashLock
    <2>2. Popped(paid, 1) = stack[n] /\ Popped(paid, 2) = stack[n - 1]
      BY <1>1, <1>2 DEF Popped
    <2>3. 2 \in 0..n /\ Takes(op) = 2 /\ Signed(stack, op, ctx)
      BY <1>12, <1>n, <2>1 DEF Takes, IsLock, IsCheckSig, IsMultiSig
    <2>4. QED BY <1>1, <1>2, <1>3, <1>4, <1>6, <1>12, <2>1, <2>2, <2>3
              DEF Opened, IsHashLock, IsLock
  <1>13. QED BY <1>7, <1>8, <1>9, <1>10, <1>11, <1>12 DEF IsOp, OpNames, IsLock

\* f says which of the first k opcodes pushed each item of the stack.
Placed(f, stack, s, k) ==
    /\ \A p \in DOMAIN stack :
          f[p] \in 1..k /\ s[f[p]].op = "PushBytes" /\ s[f[p]].item = stack[p]
    /\ \A p, q \in DOMAIN stack : p < q => f[p] < f[q]

\* h places the items that f has placed where f does, and others at k.
PlacedFrom(h, f, stack, new, s, k) ==
    /\ Placed(h, new, s, k)
    /\ \A p \in DOMAIN new : h[p] = k \/ (p \in DOMAIN stack /\ h[p] = f[p])

\* The lock at position i has found what opens it among the earlier opcodes.
LockOpens(s, i, ctx) ==
    /\ IsHashLock(s[i]) =>
          \E j, m \in 1..(i - 1) :
             /\ j < m /\ s[j].op = "PushBytes" /\ s[m].op = "PushBytes"
             /\ s[j].item.t = "hash" /\ s[j].item.v = Blake3("bytes", s[m].item)
    /\ IsLock(s[i]) =>
          \E j \in 1..(i - 1) :
             /\ s[j].op = "PushBytes" /\ s[j].item.t = "u64"
             /\ ctx.current_height >= (Start(s[i], ctx) + s[j].item.v) % HeightMod

\* The next opcode's item is the latest; dropping leaves the others in place.
LEMMA PlacedNext ==
    ASSUME NEW stack, IsList(stack), NEW s, NEW k \in Nat, NEW f, Placed(f, stack, s, k),
           NEW new, Stacked(stack, s[k + 1], new)
    PROVE  \E h : PlacedFrom(h, f, stack, new, s, k + 1)
  <1>1. PICK n \in Nat : n = Len(stack) /\ DOMAIN stack = 1..n
    BY ListDomain
  <1>2. CASE s[k + 1].op = "PushBytes"
    <2>1. /\ DOMAIN new = 1..(n + 1) /\ new[n + 1] = s[k + 1].item
          /\ \A p \in 1..n : new[p] = stack[p]
      BY <1>1, <1>2, AppendList DEF Stacked, OneMore
    <2>2. PICK h : h = [p \in 1..(n + 1) |-> IF p = n + 1 THEN k + 1 ELSE f[p]]
      OBVIOUS
    <2>3. h[n + 1] = k + 1 /\ \A p \in 1..n : h[p] = f[p] /\ f[p] \in 1..k
      BY <1>1, <2>2 DEF Placed
    <2>4. ASSUME NEW p \in DOMAIN new
          PROVE  h[p] \in 1..(k + 1) /\ s[h[p]].op = "PushBytes" /\ s[h[p]].item = new[p]
      <3>1. CASE p = n + 1
        BY <1>2, <2>1, <2>3, <3>1
      <3>2. CASE p \in 1..n
        BY <1>1, <2>1, <2>3, <3>2 DEF Placed
      <3>3. QED BY <2>1, <2>4, <3>1, <3>2
    <2>5. ASSUME NEW p \in DOMAIN new, NEW q \in DOMAIN new, p < q PROVE h[p] < h[q]
      <3>1. p \in 1..n
        BY <2>1, <2>5
      <3>2. CASE q = n + 1
        BY <2>3, <3>1, <3>2
      <3>3. CASE q \in 1..n
        BY <1>1, <2>3, <2>5, <3>1, <3>3 DEF Placed
      <3>4. QED BY <2>1, <2>5, <3>2, <3>3
    <2>6. \A p \in DOMAIN new : p = n + 1 \/ p \in 1..n
      BY <2>1
    <2>7. ASSUME NEW p \in DOMAIN new
          PROVE  h[p] = k + 1 \/ (p \in DOMAIN stack /\ h[p] = f[p])
      <3>1. CASE p = n + 1
        BY <2>3, <3>1
      <3>2. CASE p \in 1..n
        BY <1>1, <2>3, <3>2
      <3>3. QED BY <2>6, <3>1, <3>2
    <2>8. Placed(h, new, s, k + 1)
      BY <2>4, <2>5 DEF Placed
    <2>9. QED BY <2>7, <2>8 DEF PlacedFrom
  <1>3. CASE s[k + 1].op # "PushBytes"
    <2>1. PICK d \in 0..Len(stack) : new = SubSeq(stack, 1, Len(stack) - d)
      BY <1>3 DEF Stacked
    <2>2. DOMAIN new \subseteq DOMAIN stack /\ \A p \in DOMAIN new : new[p] = stack[p]
      BY <2>1, DropList
    <2>3. \A p \in DOMAIN stack : f[p] \in 1..(k + 1)
      BY DEF Placed
    <2>4. Placed(f, new, s, k + 1)
      BY <2>2, <2>3 DEF Placed
    <2>5. QED BY <2>2, <2>4 DEF PlacedFrom
  <1>4. QED BY <1>2, <1>3

\* What a lock finds on the stack stands in the script.
LEMMA OpenedByScript ==
    ASSUME NEW stack, IsList(stack), NEW s, NEW k \in Nat, NEW f, Placed(f, stack, s, k),
           NEW ctx, Opened(stack, s[k + 1], ctx)
    PROVE  LockOpens(s, k + 1, ctx)
  <1>1. PICK n \in Nat : n = Len(stack) /\ DOMAIN stack = 1..n
    BY ListDomain
  <1>2. ASSUME IsHashLock(s[k + 1])
        PROVE  \E j, m \in 1..k :
                  /\ j < m /\ s[j].op = "PushBytes" /\ s[m].op = "PushBytes"
                  /\ s[j].item.t = "hash" /\ s[j].item.v = Blake3("bytes", s[m].item)
    <2>1. /\ n >= 2 /\ stack[n - 1].t = "hash"
          /\ stack[n - 1].v = Blake3("bytes", stack[n])
      BY <1>1, <1>2 DEF Opened
    <2>2. n \in DOMAIN stack /\ n - 1 \in DOMAIN stack /\ n - 1 < n
      BY <1>1, <2>1
    <2>3. PICK j, m : j = f[n - 1] /\ m = f[n]
      OBVIOUS
    <2>4. /\ j \in 1..k /\ m \in 1..k /\ j < m
          /\ s[j].op = "PushBytes" /\ s[m].op = "PushBytes"
          /\ s[j].item = stack[n - 1] /\ s[m].item = stack[n]
      BY <2>2, <2>3 DEF Placed
    <2>5. QED BY <2>1, <2>4
  <1>3. ASSUME IsLock(s[k + 1])
        PROVE  \E j \in 1..k :
                  /\ s[j].op = "PushBytes" /\ s[j].item.t = "u64"
                  /\ ctx.current_height >= (Start(s[k + 1], ctx) + s[j].item.v) % HeightMod
    <2>1. /\ n >= 1 /\ stack[n].t = "u64"
          /\ ctx.current_height >= (Start(s[k + 1], ctx) + stack[n].v) % HeightMod
      BY <1>1, <1>3 DEF Opened
    <2>2. n \in DOMAIN stack
      BY <1>1, <2>1
    <2>3. PICK j : j = f[n]
      OBVIOUS
    <2>4. j \in 1..k /\ s[j].op = "PushBytes" /\ s[j].item = stack[n]
      BY <2>2, <2>3 DEF Placed
    <2>5. QED BY <2>1, <2>4
  <1>4. (k + 1) - 1 = k
    OBVIOUS
  <1>5. QED BY <1>2, <1>3, <1>4 DEF LockOpens

\* The state of a run after k opcodes of the script s, none of which failed.
Passed(st, s, k, ctx) ==
    /\ IsRun(st)
    /\ \E f : Placed(f, st.stack, s, k)
    /\ \A i \in 1..k : LockOpens(s, i, ctx)

\* A run that has passed so far and passes the next opcode.
LEMMA PassedNext ==
    ASSUME NEW st, NEW s, IsScript(s), NEW k \in Nat, k + 1 \in DOMAIN s, NEW ctx,
           Passed(st, s, k, ctx), EvalOp(st, s[k + 1], ctx).result = "ok"
    PROVE  Passed(EvalOp(st, s[k + 1], ctx), s, k + 1, ctx)
  <1>1. PICK new : new = EvalOp(st, s[k + 1], ctx)
    OBVIOUS
  <1>2. IsOp(s[k + 1]) /\ IsRun(st) /\ IsList(st.stack)
    BY DEF IsScript, Passed, IsRun
  <1>3. IsRun(new) /\ Stacked(st.stack, s[k + 1], new.stack) /\ Opened(st.stack, s[k + 1], ctx)
    BY <1>1, <1>2, OpPasses
  <1>4. PICK f : Placed(f, st.stack, s, k)
    BY DEF Passed
  <1>5. \E h : Placed(h, new.stack, s, k + 1)
    BY <1>2, <1>3, <1>4, PlacedNext DEF PlacedFrom
  <1>6. LockOpens(s, k + 1, ctx)
    BY <1>2, <1>3, <1>4, OpenedByScript
  <1>7. \A i \in 1..(k + 1) : i \in 1..k \/ i = k + 1
    OBVIOUS
  <1>8. \A i \in 1..(k + 1) : LockOpens(s, i, ctx)
    BY <1>6, <1>7 DEF Passed
  <1>9. QED BY <1>1, <1>3, <1>5, <1>8 DEF Passed

\* r[k] is the state of the run after k of the n opcodes.
Trace(r, s, n, ctx) ==
    /\ r[0] = Running(<< >>, MaxGas)
    /\ \A k \in 0..n : r[k].result = "ok" /\ Passed(r[k], s, k, ctx)
    /\ \A k \in 1..n : r[k] = EvalOp(r[k - 1], s[k], ctx)

\* A script that passes has passed each of its opcodes.
LEMMA PassedTrace ==
    ASSUME NEW s, IsScript(s), NEW ctx, Eval(s, ctx).result = "ok",
           NEW n \in Nat, n = Len(s)
    PROVE  \E r : Trace(r, s, n, ctx) /\ r[n] = Eval(s, ctx)
  <1>1. ~(Len(s) > MaxScriptLen)
    BY DEF Eval, Fail, Running
  <1>2. DOMAIN s = 1..n
    BY ListDomain DEF IsScript
  <1>3. PICK g : /\ Computes(g, ScriptLoop(ctx), Running(<< >>, MaxGas), s, n)
                 /\ Eval(s, ctx) = g[1..n]
    BY <1>1, <1>2, EvalIsLoop
  <1>4. PICK base : base = Running(<< >>, MaxGas)
    OBVIOUS
  <1>5. Runs(g, ScriptLoop(ctx), base, s, n)
    BY <1>3, <1>4, LoopTurn
  <1>a. PICK r : r = [k \in 0..n |-> g[1..k]]
    OBVIOUS
  <1>6. /\ r[0] = base /\ r[n] = Eval(s, ctx)
        /\ \A k \in 1..n : r[k] = EvalOp(r[k - 1], s[k], ctx)
    <2>1. \A acc, x : Turn(ScriptLoop(ctx), acc, x) = EvalOp(acc, x, ctx)
      BY DEF Turn, ScriptLoop
    <2>2. \A k \in 1..n : k - 1 \in 0..n
      OBVIOUS
    <2>3. QED BY <1>3, <1>5, <1>a, <2>1, <2>2 DEF Runs
  <1> DEFINE T == {j \in Nat : j <= n => r[n - j].result = "ok"}
             S == {k \in Nat : k <= n => Passed(r[k], s, k, ctx)}
  <1>b. \A k \in 0..n : r[k].result = "ok"
    <2>1. 0 \in T
      BY <1>6
    <2>2. ASSUME NEW j \in T PROVE j + 1 \in T
      <3> SUFFICES ASSUME j + 1 <= n PROVE r[n - (j + 1)].result = "ok"
        OBVIOUS
      <3>1. PICK k \in 1..n : k = n - j /\ k - 1 = n - (j + 1)
        OBVIOUS
      <3>2. r[k].result = "ok"
        BY <2>2, <3>1
      <3>3. r[k] = EvalOp(r[k - 1], s[k], ctx)
        BY <1>6
      <3>4. r[k - 1].result = "ok"
        BY <3>2, <3>3 DEF EvalOp
      <3>5. QED BY <3>1, <3>4
    <2>3. T = Nat
      <3>1. T \in SUBSET Nat
        OBVIOUS
      <3> HIDE DEF T
      <3>2. QED BY <2>1, <2>2, <3>1, NatSet
    <2> TAKE k \in 0..n
    <2>4. PICK j \in Nat : j <= n /\ n - j = k
      <3>1. n - k \in Nat /\ n - k <= n /\ n - (n - k) = k
        OBVIOUS
      <3>2. QED BY <3>1
    <2>5. j \in T
      BY <2>3
    <2>6. QED BY <2>4, <2>5
  <1>7. 0 \in S
    <2>1. IsRun(base) /\ base.stack = << >>
      BY <1>4 DEF Running, IsRun, IsList
    <2>2. PICK st : st = base
      OBVIOUS
    <2>3. DOMAIN st.stack = {}
      BY <2>1, <2>2
    <2>4. Placed(st, st.stack, s, 0)
      BY <2>3 DEF Placed
    <2>5. Passed(st, s, 0, ctx)
      BY <2>1, <2>2, <2>4 DEF Passed
    <2>6. QED BY <1>6, <2>2, <2>5
  <1>8. ASSUME NEW k \in S PROVE k + 1 \in S
    <2> SUFFICES ASSUME k + 1 <= n PROVE Passed(r[k + 1], s, k + 1, ctx)
      OBVIOUS
    <2>1. k \in Nat /\ k + 1 \in 1..n /\ (k + 1) - 1 = k /\ k \in 0..n /\ k + 1 \in 0..n
      OBVIOUS
    <2>2. PICK st : st = r[k]
      OBVIOUS
    <2>3. r[k + 1] = EvalOp(st, s[k + 1], ctx)
      BY <1>6, <2>1, <2>2
    <2>4. r[k + 1].result = "ok"
      BY <1>b, <2>1
    <2>5. Passed(st, s, k, ctx)
      BY <1>8, <2>1, <2>2
    <2>6. QED BY <1>2, <2>1, <2>3, <2>4, <2>5, PassedNext
  <1>9. S = Nat
    <2> HIDE DEF S
    <2>1. S \in SUBSET Nat
      BY DEF S
    <2>2. QED BY <1>7, <1>8, <2>1, NatSet
  <1>10. \A k \in 0..n : Passed(r[k], s, k, ctx)
    BY <1>9
  <1>11. Trace(r, s, n, ctx)
    BY <1>4, <1>6, <1>b, <1>10 DEF Trace
  <1>12. QED BY <1>6, <1>11

\* So it has passed all of them.
LEMMA PassedAll ==
    ASSUME NEW s, IsScript(s), NEW ctx, Eval(s, ctx).result = "ok"
    PROVE  Passed(Eval(s, ctx), s, Len(s), ctx) /\ ~(Len(s) > MaxScriptLen)
  <1>1. ~(Len(s) > MaxScriptLen)
    BY DEF Eval, Fail, Running
  <1>2. PICK n \in Nat : n = Len(s)
    BY ListDomain DEF IsScript
  <1>3. PICK r : Trace(r, s, n, ctx) /\ r[n] = Eval(s, ctx)
    BY <1>2, PassedTrace
  <1>4. Passed(r[n], s, n, ctx)
    BY <1>3 DEF Trace
  <1>5. QED BY <1>1, <1>2, <1>3, <1>4

\* The engine alone: scripts grow by opcodes, and no lock counts beyond the width
\* of a height.
ScriptSpec == ScriptInit /\ [][ScriptNext]_script
OpsAreOpcodes == \A op \in Ops : IsOp(op)
HeightsFit ==
    \A ctx \in Contexts, op \in Ops :
        /\ ctx.created_height \in Nat
        /\ op.op = "PushBytes" /\ op.item.t = "u64" =>
              op.item.v \in Nat /\ ctx.created_height + op.item.v < HeightMod

ScriptInv == IsList(script) /\ \A i \in DOMAIN script : script[i] \in Ops

\* A script that is composed holds opcodes only.
LEMMA ScriptInvNext == ScriptInv /\ [ScriptNext]_script => ScriptInv'
  <1> SUFFICES ASSUME ScriptInv, NEW op \in Ops, script' = Append(script, op) PROVE ScriptInv'
    BY DEF ScriptInv, ScriptNext, Extend
  <1>1. OneMore(script, op, script')
    BY AppendList DEF ScriptInv
  <1>2. PICK n \in Nat : n = Len(script)
    BY <1>1 DEF OneMore
  <1>3. \A i \in 1..(n + 1) : i \in 1..n \/ i = n + 1
    OBVIOUS
  <1>4. QED BY <1>1, <1>2, <1>3 DEF OneMore, ScriptInv

\* No sum of a lock that fits wraps around.
LEMMA NoWrap ==
    ASSUME NEW a \in Nat, NEW b \in Nat, a + b < HeightMod PROVE (a + b) % HeightMod = a + b
  BY ScriptConstants

\* Every lock of a script that passes was opened by what the script holds: by the
\* pre-image of a hash, or by a height that has been reached (eval of
\* DeterministicScriptEngine, for every script and every input).
THEOREM LocksOpenedHolds ==
    ASSUME OpsAreOpcodes, HeightsFit PROVE ScriptSpec => []LocksOpened
  <1>1. ScriptInit => ScriptInv
    BY DEF ScriptInit, ScriptInv, IsList
  <1>2. ScriptInv => LocksOpened
    <2> SUFFICES ASSUME ScriptInv, NEW ctx \in Contexts, Passes(ctx)
                 PROVE  /\ \A i \in Positions(IsHashLock) :
                              \E j, k \in PushedBefore(i, LAMBDA x : TRUE) :
                                 /\ j < k /\ script[j].item.t = "hash"
                                 /\ script[j].item.v = Blake3("bytes", script[k].item)
                        /\ \A i \in Positions(IsLock) :
                              \E j \in PushedBefore(i, LAMBDA x : x.t = "u64") :
                                 Reached(script[j].item.v, script[i], ctx)
      BY DEF LocksOpened
    <2>1. IsScript(script)
      BY DEF ScriptInv, OpsAreOpcodes, IsScript
    <2>2. PICK n \in Nat : n = Len(script) /\ DOMAIN script = 1..n
      BY ListDomain DEF ScriptInv
    <2>3. \A i \in 1..n : LockOpens(script, i, ctx)
      BY <2>1, <2>2, PassedAll DEF Passed, Passes, Verdict
    <2>4. \A i \in 1..n : \A j \in 1..(i - 1) : j \in 1..n /\ j < i
      OBVIOUS
    <2>5. ASSUME NEW i \in Positions(IsHashLock)
          PROVE  \E j, k \in PushedBefore(i, LAMBDA x : TRUE) :
                    /\ j < k /\ script[j].item.t = "hash"
                    /\ script[j].item.v = Blake3("bytes", script[k].item)
      <3>1. i \in 1..n /\ IsHashLock(script[i])
        BY <2>2 DEF Positions
      <3>2. PICK j \in 1..(i - 1), m \in 1..(i - 1) :
               /\ j < m /\ script[j].op = "PushBytes" /\ script[m].op = "PushBytes"
               /\ script[j].item.t = "hash" /\ script[j].item.v = Blake3("bytes", script[m].item)
        BY <2>3, <3>1 DEF LockOpens
      <3>3. j \in PushedBefore(i, LAMBDA x : TRUE) /\ m \in PushedBefore(i, LAMBDA x : TRUE)
        BY <2>2, <2>4, <3>1, <3>2 DEF PushedBefore, Positions, IsPush
      <3>4. QED BY <3>2, <3>3
    <2>6. ASSUME NEW i \in Positions(IsLock)
          PROVE  \E j \in PushedBefore(i, LAMBDA x : x.t = "u64") :
                    Reached(script[j].item.v, script[i], ctx)
      <3>1. i \in 1..n /\ IsLock(script[i])
        BY <2>2 DEF Positions
      <3>2. PICK j \in 1..(i - 1) :
               /\ script[j].op = "PushBytes" /\ script[j].item.t = "u64"
               /\ ctx.current_height >= (Start(script[i], ctx) + script[j].item.v) % HeightMod
        BY <2>3, <3>1 DEF LockOpens
      <3>3. j \in PushedBefore(i, LAMBDA x : x.t = "u64")
        BY <2>2, <2>4, <3>1, <3>2 DEF PushedBefore, Positions, IsPush
      <3>4. PICK a, b : a = Start(script[i], ctx) /\ b = script[j].item.v
        OBVIOUS
      <3>5. /\ script[j] \in Ops /\ ctx.created_height \in Nat /\ b \in Nat
            /\ ctx.created_height + b < HeightMod
        BY <2>2, <2>4, <3>1, <3>2, <3>4 DEF ScriptInv, HeightsFit
      <3>6. a \in Nat /\ a + b < HeightMod /\ b + a = a + b
        BY <3>4, <3>5, ScriptConstants DEF Start
      <3>7. ctx.current_height >= a + b
        BY <3>2, <3>4, <3>5, <3>6, NoWrap
      <3>8. Reached(b, script[i], ctx)
        BY <3>1, <3>4, <3>6, <3>7 DEF Reached, Start
      <3>9. QED BY <3>3, <3>4, <3>8
    <2>7. QED BY <2>5, <2>6
  <1>3. QED BY <1>1, <1>2, ScriptInvNext, PTL DEF ScriptSpec

-----------------------------------------------------------------------------
(***************************************************************************)
(* Locks of outputs.                                                       *)
(***************************************************************************)
\* The script is a lock and its height.
IsLockScript(s) ==
    Len(s) = 2 /\ s[1].op = "PushBytes" /\ s[1].item.t = "u64" /\ IsLock(s[2])

\* The witnesses that the caller submits hold scripts, and no height of a lock
\* counts beyond the width of a height.
WitnessFits(w) ==
    /\ IsScript(w.script)
    /\ IsLockScript(w.script) =>
          w.script[1].item.v \in Nat /\ w.script[1].item.v + MaxHeight < HeightMod
Witnessed ==
    \A tx \in Candidates(ledger) :
        IsList(tx.witness) /\ \A i \in DOMAIN tx.witness : WitnessFits(tx.witness[i])

\* The heights that occur.
HeightInv ==
    /\ IsLedger(ledger) /\ IsList(journal)
    /\ height \in Nat /\ height <= MaxHeight
    /\ \A key \in DOMAIN ledger.utxos : ledger.utxos[key].created_height \in 0..height

\* A lock that passes has been reached.
LEMMA LockReached ==
    ASSUME NEW w, WitnessFits(w), NEW ctx, Eval(w.script, ctx).result = "ok",
           ctx.current_height \in Nat, ctx.created_height \in Nat,
           ctx.created_height <= MaxHeight
    PROVE  ctx.current_height >= LockedUntil(w.script, ctx.created_height)
  <1>1. CASE IsLockScript(w.script)
    <2>1. PICK s : s = w.script
      OBVIOUS
    <2>2. IsScript(s) /\ Len(s) = 2 /\ DOMAIN s = 1..2 /\ IsLock(s[2])
      BY <1>1, <2>1, ListDomain DEF WitnessFits, IsScript, IsLockScript
    <2>3. LockOpens(s, 2, ctx)
      BY <2>1, <2>2, PassedAll DEF Passed
    <2>4. PICK j \in 1..(2 - 1) :
             ctx.current_height >= (Start(s[2], ctx) + s[j].item.v) % HeightMod
      BY <2>2, <2>3 DEF LockOpens
    <2>5. j = 1
      OBVIOUS
    <2>6. PICK a, b : a = Start(s[2], ctx) /\ b = s[1].item.v
      OBVIOUS
    <2>7. b \in Nat /\ b + MaxHeight < HeightMod
      BY <1>1, <2>1, <2>6 DEF WitnessFits
    <2>8. a \in Nat /\ a <= MaxHeight
      BY <2>6, LedgerMachineBounds DEF Start
    <2>9. a + b < HeightMod
      BY <2>7, <2>8, ScriptConstants, LedgerMachineBounds
    <2>10. ctx.current_height >= a + b
      BY <2>4, <2>5, <2>6, <2>7, <2>8, <2>9, NoWrap
    <2>11. LockedUntil(s, ctx.created_height) =
              IF s[2].op = "CheckTimeLock" THEN b ELSE ctx.created_height + b
      BY <1>1, <2>1, <2>2, <2>6 DEF LockedUntil, IsLockScript, IsLock
    <2>12. QED BY <2>1, <2>6, <2>7, <2>10, <2>11 DEF Start
  <1>2. CASE ~IsLockScript(w.script)
    <2>1. LockedUntil(w.script, ctx.created_height) = 0
      BY <1>2 DEF LockedUntil, IsLockScript, IsLock
    <2>2. QED BY <2>1
  <1>3. QED BY <1>1, <1>2

\* An input that passes was locked until now at most.
LEMMA InputUnlocked ==
    ASSUME Witnessed, HeightInv, NEW tx \in Candidates(ledger), IsTransaction(tx),
           Applicable(ledger, tx, height, ChainId), NEW k \in DOMAIN tx.core.inputs
    PROVE  LET spent == ledger.utxos[tx.core.inputs[k]]
           IN  height >= LockedUntil(spent.output.owner_script_hash[2], spent.created_height)
  <1>1. CheckInput(ledger, tx, k, height, ChainId) = "ok"
    BY InputsPass DEF Applicable, IsTransaction
  <1>2. PICK ctx : ctx = ScriptCtx(ledger, tx, k, height, ChainId)
    OBVIOUS
  <1>3. PICK w : w = tx.witness[k]
    OBVIOUS
  <1>4. /\ tx.core.inputs[k] \in DOMAIN ledger.utxos
        /\ ~(k > Len(tx.witness))
        /\ ScriptMatches(w, ledger.utxos[tx.core.inputs[k]].output)
        /\ Eval(w.script, ctx).result = "ok"
    BY <1>1, <1>2, <1>3 DEF CheckInput
  <1>5. k \in DOMAIN tx.witness
    <2>1. PICK n \in Nat : n = Len(tx.witness) /\ DOMAIN tx.witness = 1..n
      BY ListDomain DEF Witnessed
    <2>2. PICK m \in Nat : DOMAIN tx.core.inputs = 1..m
      BY ListDomain DEF IsTransaction
    <2>3. QED BY <1>4, <2>1, <2>2
  <1>6. PICK spent : spent = ledger.utxos[tx.core.inputs[k]]
    OBVIOUS
  <1>7. /\ ctx.current_height = height /\ ctx.created_height = spent.created_height
        /\ height \in Nat /\ height <= MaxHeight /\ spent.created_height \in 0..height
    BY <1>2, <1>4, <1>6 DEF ScriptCtx, HeightInv
  <1>8. ctx.created_height \in Nat /\ ctx.created_height <= MaxHeight
    BY <1>7, LedgerMachineBounds
  <1>9. WitnessFits(w)
    BY <1>3, <1>5 DEF Witnessed
  <1>10. height >= LockedUntil(w.script, spent.created_height)
    BY <1>4, <1>7, <1>8, <1>9, LockReached
  <1>11. spent.output.owner_script_hash[2] = w.script
    BY <1>4, <1>6 DEF ScriptMatches, ScriptHash, Blake3
  <1>12. QED BY <1>6, <1>10, <1>11

\* Outputs are created at the height of a block, and heights do not go back.
LEMMA HeightInvNext ==
    ASSUME HeightInv, [Next]_vars PROVE HeightInv'
  <1>1. CASE UNCHANGED vars
    BY <1>1 DEF HeightInv, vars
  <1>2. CASE NextBlock
    BY <1>2, LedgerMachineBounds DEF HeightInv, NextBlock
  <1>3. ASSUME NEW tx \in Candidates(ledger), Submit(tx) PROVE HeightInv'
    <2>1. /\ height' = height
          /\ \/ ledger'.utxos = SpendAndCreate(ledger.utxos, tx, height)
             \/ ledger'.utxos = ledger.utxos
          /\ IsLedger(ledger') /\ IsList(journal')
      <3>1. IsLedger(ledger) /\ IsList(journal)
        BY DEF HeightInv
      <3>2. IsList(Append(journal, Record(tx)))
        BY <3>1, AppendList DEF OneMore
      <3>3. QED BY <1>3, <3>1, <3>2, SubmitIs
    <2>2. CASE ledger'.utxos = ledger.utxos
      BY <2>1, <2>2 DEF HeightInv
    <2>3. CASE ledger'.utxos = SpendAndCreate(ledger.utxos, tx, height)
      <3> SUFFICES ASSUME NEW key \in DOMAIN ledger'.utxos
                   PROVE  ledger'.utxos[key].created_height \in 0..height
        BY <2>1 DEF HeightInv
      <3>1. \/ ledger'.utxos[key].created_height = height
            \/ key \in DOMAIN ledger.utxos /\ ledger'.utxos[key] = ledger.utxos[key]
        BY <2>3 DEF SpendAndCreate
      <3>2. QED BY <3>1 DEF HeightInv
    <2>4. QED BY <2>1, <2>2, <2>3
  <1>4. QED BY <1>1, <1>2, <1>3 DEF Next

\* One entry of the journal was unlocked when it was applied.
Unlocked(e) ==
    \A k \in DOMAIN e.spent :
        e.height >= LockedUntil(e.spent[k].output.owner_script_hash[2],
                                e.spent[k].created_height)

\* What is recorded was unlocked.
LEMMA LocksNext ==
    ASSUME LocksHonoured, Typed, Witnessed, HeightInv, [Next]_vars
    PROVE  LocksHonoured'
  <1>0. \A i \in DOMAIN journal : Unlocked(journal[i])
    BY DEF LocksHonoured, Unlocked
  <1>1. CASE journal' = journal
    BY <1>1 DEF LocksHonoured
  <1>2. ASSUME NEW tx \in Candidates(ledger), Submit(tx), journal' # journal
        PROVE  LocksHonoured'
    <2>1. /\ Applicable(ledger, tx, height, ChainId)
          /\ journal' = Append(journal, Record(tx))
      BY <1>2, SubmitIs DEF HeightInv
    <2>2. IsTransaction(tx)
      BY DEF Typed
    <2>3. PICK e : e = Record(tx)
      OBVIOUS
    <2>4. /\ e.height = height /\ DOMAIN e.spent = DOMAIN tx.core.inputs
          /\ \A k \in DOMAIN tx.core.inputs : e.spent[k] = ledger.utxos[tx.core.inputs[k]]
      BY <2>3 DEF Record
    <2>5. Unlocked(e)
      BY <2>1, <2>2, <2>4, InputUnlocked DEF Unlocked
    <2>6. OneMore(journal, e, journal')
      BY <2>1, <2>3, AppendList DEF HeightInv
    <2>7. PICK n \in Nat : n = Len(journal)
      BY <2>6 DEF OneMore
    <2>8. \A i \in 1..(n + 1) : i \in 1..n \/ i = n + 1
      OBVIOUS
    <2>9. \A i \in DOMAIN journal' : Unlocked(journal'[i])
      BY <1>0, <2>5, <2>6, <2>7, <2>8 DEF OneMore
    <2>10. QED BY <2>9 DEF LocksHonoured, Unlocked
  <1>3. QED BY <1>1, <1>2 DEF Next, NextBlock, vars

\* No output is spent before the height its script is locked until, whatever the
\* witness and the order of submissions (apply_transaction, eval_check_time_lock
\* and eval_check_relative_time_lock), as long as lock heights do not exceed the
\* width of a height.
THEOREM LocksHonouredHolds == Spec /\ []Typed /\ []Witnessed => []LocksHonoured
  <1>1. Init => LocksHonoured
    BY DEF Init, LocksHonoured
  <1>2. Init => HeightInv
    BY LedgerMachineBounds DEF Init, EmptyLedger, HeightInv, IsLedger, IsList
  <1>3. HeightInv /\ [Next]_vars => HeightInv'
    BY HeightInvNext
  <1>4. LocksHonoured /\ Typed /\ Witnessed /\ HeightInv /\ [Next]_vars => LocksHonoured'
    BY LocksNext
  <1>5. QED BY <1>1, <1>2, <1>3, <1>4, PTL DEF Spec

-----------------------------------------------------------------------------
(***************************************************************************)
(* Keys and signatures as bytes.                                           *)
(***************************************************************************)
CryptoSpec == CryptoInit /\ [][CryptoNext]_cryptoVars

\* The length of every input fits four bytes.
InputFits == MaxInput < Byte * Byte * (Byte * Byte)

IsByte(b) == b \in 0..(Byte - 1)

\* Division by a positive number, written out.
LEMMA Divided ==
    ASSUME NEW w \in Nat \ {0}, NEW n \in Nat
    PROVE  /\ n \div w \in Nat /\ n % w \in 0..(w - 1)
           /\ n = (n % w) + w * (n \div w)
  OBVIOUS

\* The digits of a number are determined by it.
LEMMA Digits ==
    ASSUME NEW w \in Nat \ {0}, NEW r \in 0..(w - 1), NEW q \in Nat
    PROVE  (r + w * q) \div w = q /\ (r + w * q) % w = r
  OBVIOUS

\* A number of two bytes, written and read.
LEMMA TwoBytes ==
    ASSUME NEW a, IsByte(a), NEW b, IsByte(b)
    PROVE  /\ U16ToLe(a + Byte * b) = <<a, b>>
           /\ a + Byte * b \in 0..(Byte * Byte - 1)
  <1>1. Byte \in Nat \ {0} /\ a \in 0..(Byte - 1) /\ b \in 0..(Byte - 1) /\ b \in Nat
    BY CryptoConstants DEF IsByte
  <1>2. (a + Byte * b) \div Byte = b /\ (a + Byte * b) % Byte = a
    BY <1>1, Digits
  <1>3. b % Byte = b
    BY <1>1
  <1>4. a + Byte * b \in 0..(Byte * Byte - 1)
    <2>1. Byte * b <= Byte * (Byte - 1)
      BY <1>1
    <2>2. Byte * (Byte - 1) = Byte * Byte - Byte
      BY <1>1
    <2>3. Byte * b \in Nat /\ Byte * Byte \in Nat
      BY <1>1
    <2>4. QED BY <1>1, <2>1, <2>2, <2>3
  <1>5. QED BY <1>2, <1>3, <1>4 DEF U16ToLe

\* A number below Byte * Byte, read from what was written.
LEMMA TwoBytesBack ==
    ASSUME NEW n \in 0..(Byte * Byte - 1)
    PROVE  /\ U16FromLe(U16ToLe(n)) = n
           /\ IsByte(n % Byte) /\ IsByte((n \div Byte) % Byte)
  <1>1. Byte \in Nat \ {0} /\ n \in Nat /\ n < Byte * Byte
    BY CryptoConstants
  <1>2. PICK q : q = n \div Byte
    OBVIOUS
  <1>3. q \in Nat /\ n % Byte \in 0..(Byte - 1) /\ n = (n % Byte) + Byte * q
    BY <1>1, <1>2, Divided
  <1>4. q < Byte
    <2> SUFFICES ASSUME q >= Byte PROVE FALSE
      BY <1>1, <1>3
    <2>1. Byte * q >= Byte * Byte
      BY <1>1, <1>3
    <2>2. Byte * q \in Nat /\ Byte * Byte \in Nat
      BY <1>1, <1>3
    <2>3. QED BY <1>1, <1>3, <2>1, <2>2
  <1>5. q % Byte = q
    BY <1>1, <1>3, <1>4
  <1>6. QED BY <1>1, <1>2, <1>3, <1>4, <1>5 DEF U16ToLe, U16FromLe, IsByte

\* Sums and products of naturals are naturals.
LEMMA NatClosed == ASSUME NEW x \in Nat, NEW y \in Nat PROVE x + y \in Nat /\ x * y \in Nat
  OBVIOUS

\* Two pairs put together.
LEMMA TwoPairs ==
    ASSUME NEW a, NEW b, NEW c, NEW d PROVE <<a, b>> \o <<c, d>> = <<a, b, c, d>>
  <1>1. PICK D : D = {a, b, c, d}
    OBVIOUS
  <1>2. PICK s, t, u : s = <<a, b>> /\ t = <<c, d>> /\ u = <<a, b, c, d>>
    OBVIOUS
  <1>3. s \in Seq(D) /\ Len(s) = 2 /\ s[1] = a /\ s[2] = b
    BY <1>1, <1>2
  <1>4. t \in Seq(D) /\ Len(t) = 2 /\ t[1] = c /\ t[2] = d
    BY <1>1, <1>2
  <1>5. u \in Seq(D) /\ Len(u) = 4 /\ u[1] = a /\ u[2] = b /\ u[3] = c /\ u[4] = d
    BY <1>1, <1>2
  <1>6. PICK v : v = s \o t
    OBVIOUS
  <1>7. /\ v \in Seq(D) /\ Len(v) = Len(s) + Len(t)
        /\ \A i \in 1 .. Len(s) + Len(t) : v[i] = IF i <= Len(s) THEN s[i] ELSE t[i - Len(s)]
    <2>1. s \in Seq(D) /\ t \in Seq(D)
      BY <1>3, <1>4
    <2>2. QED BY <1>6, <2>1, ConcatProperties
  <1>8. Len(v) = 4 /\ \A i \in 1..4 : v[i] = IF i <= 2 THEN s[i] ELSE t[i - 2]
    BY <1>3, <1>4, <1>7
  <1>9. v[1] = a /\ v[2] = b /\ v[3] = c /\ v[4] = d
    BY <1>3, <1>4, <1>8
  <1>10. \A i \in 1..4 : v[i] = u[i]
    BY <1>5, <1>9
  <1>11. v = u
    BY <1>5, <1>7, <1>8, <1>10, SeqEqual
  <1>12. QED BY <1>2, <1>6, <1>11

\* A number of four bytes, written and read.
LEMMA FourBytes ==
    ASSUME NEW a, IsByte(a), NEW b, IsByte(b), NEW c, IsByte(c), NEW d, IsByte(d)
    PROVE  /\ U32ToLe(U32FromLe(<<a, b, c, d>>)) = <<a, b, c, d>>
           /\ U32FromLe(<<a, b, c, d>>) \in Nat
  <1>1. PICK w, lo, hi : w = Byte * Byte /\ lo = a + Byte * b /\ hi = c + Byte * d
    OBVIOUS
  <1>2. /\ U16ToLe(lo) = <<a, b>> /\ lo \in 0..(w - 1)
        /\ U16ToLe(hi) = <<c, d>> /\ hi \in 0..(w - 1)
    BY <1>1, TwoBytes
  <1>3. w \in Nat \ {0} /\ Byte \in Nat \ {0}
    BY <1>1, CryptoConstants
  <1>4. hi \in Nat
    BY <1>2, <1>3
  <1>5. PICK n : n = lo + w * hi
    OBVIOUS
  <1>6. n \div w = hi
    BY <1>2, <1>3, <1>4, <1>5, Digits
  <1>7. n % Byte = lo % Byte /\ (n \div Byte) % Byte = (lo \div Byte) % Byte
    <2>1. a \in 0..(Byte - 1) /\ b \in 0..(Byte - 1) /\ b \in Nat
      BY <1>3 DEF IsByte
    <2>2. PICK q \in Nat : q = b + Byte * hi
      BY <1>3, <1>4, <2>1
    <2>3. n = a + Byte * q
      <3>1. Byte * q = Byte * b + Byte * (Byte * hi)
        BY <1>3, <1>4, <2>1, <2>2
      <3>2. Byte * (Byte * hi) = w * hi
        BY <1>1, <1>3, <1>4
      <3>3. QED BY <1>1, <1>3, <1>4, <1>5, <2>1, <3>1, <3>2
    <2>4. n \div Byte = q /\ n % Byte = a
      BY <1>3, <2>1, <2>2, <2>3, Digits
    <2>5. q % Byte = b
      BY <1>3, <1>4, <2>1, <2>2, Digits
    <2>6. lo \div Byte = b /\ lo % Byte = a
      BY <1>1, <1>3, <2>1, Digits
    <2>7. b % Byte = b
      BY <1>3, <2>1
    <2>8. QED BY <2>4, <2>5, <2>6, <2>7
  <1>8. U16ToLe(n) = U16ToLe(lo)
    BY <1>7 DEF U16ToLe
  <1>9. U32FromLe(<<a, b, c, d>>) = n
    BY <1>1, <1>5 DEF U32FromLe, U16FromLe
  <1>10. U32ToLe(n) = <<a, b>> \o <<c, d>>
    BY <1>1, <1>2, <1>6, <1>8 DEF U32ToLe
  <1>11. n \in Nat
    <2>1. lo \in Nat /\ w \in Nat
      BY <1>2, <1>3
    <2>2. w * hi \in Nat
      BY <1>4, <2>1, NatClosed
    <2>3. QED BY <1>5, <2>1, <2>2, NatClosed
  <1>12. QED BY <1>9, <1>10, <1>11, TwoPairs

\* A sequence of at least six elements is two elements, four elements and a rest.
LEMMA Apart246 ==
    ASSUME NEW D, NEW e \in Seq(D), Len(e) >= 6
    PROVE  /\ \A i \in 1..6 : e[i] \in D
           /\ SubSeq(e, 1, 2) = <<e[1], e[2]>>
           /\ SubSeq(e, 3, 6) = <<e[3], e[4], e[5], e[6]>>
           /\ SubSeq(e, 7, Len(e)) \in Seq(D)
           /\ Len(SubSeq(e, 7, Len(e))) = Len(e) - 6
           /\ SubSeq(e, 1, 2) \o SubSeq(e, 3, 6) \o SubSeq(e, 7, Len(e)) = e
  <1>1. PICK n \in Nat : n = Len(e) /\ n >= 6 /\ DOMAIN e = 1..n /\ \A i \in 1..n : e[i] \in D
    BY LenProperties, ElementOfSeq
  <1>2. e[1] \in D /\ e[2] \in D /\ e[3] \in D /\ e[4] \in D /\ e[5] \in D /\ e[6] \in D
    BY <1>1
  <1>3. PICK h, l, p : h = SubSeq(e, 1, 2) /\ l = SubSeq(e, 3, 6) /\ p = SubSeq(e, 7, n)
    OBVIOUS
  <1>4. /\ h \in Seq(D) /\ Len(h) = 2 /\ \A i \in 1..2 : h[i] = e[i]
    <2>1. \A i \in 1..2 : e[i] \in D
      BY <1>1
    <2>2. /\ h \in Seq(D) /\ Len(h) = IF 1 <= 2 THEN 2 - 1 + 1 ELSE 0
          /\ \A i \in 1 .. 2 - 1 + 1 : h[i] = e[1 + i - 1]
      BY <1>3, <2>1, SubSeqProperties
    <2>3. QED BY <2>2
  <1>5. /\ l \in Seq(D) /\ Len(l) = 4 /\ \A i \in 1..4 : l[i] = e[i + 2]
    <2>1. \A i \in 3..6 : e[i] \in D
      BY <1>1
    <2>2. /\ l \in Seq(D) /\ Len(l) = IF 3 <= 6 THEN 6 - 3 + 1 ELSE 0
          /\ \A i \in 1 .. 6 - 3 + 1 : l[i] = e[3 + i - 1]
      BY <1>3, <2>1, SubSeqProperties
    <2>3. QED BY <2>2
  <1>6. /\ p \in Seq(D) /\ Len(p) = n - 6 /\ \A i \in 1..(n - 6) : p[i] = e[i + 6]
    <2>1. \A i \in 7..n : e[i] \in D
      BY <1>1
    <2>2. /\ p \in Seq(D) /\ Len(p) = IF 7 <= n THEN n - 7 + 1 ELSE 0
          /\ \A i \in 1 .. n - 7 + 1 : p[i] = e[7 + i - 1]
      BY <1>3, <2>1, SubSeqProperties
    <2>3. QED BY <1>1, <2>2
  <1>7. h = <<e[1], e[2]>>
    <2>1. PICK t : t = <<e[1], e[2]>>
      OBVIOUS
    <2>2. t \in Seq(D) /\ Len(t) = 2 /\ t[1] = e[1] /\ t[2] = e[2]
      BY <1>2, <2>1
    <2>3. \A i \in 1..2 : h[i] = t[i]
      BY <1>4, <2>2
    <2>4. QED BY <1>4, <2>1, <2>2, <2>3, SeqEqual
  <1>8. l = <<e[3], e[4], e[5], e[6]>>
    <2>1. PICK t : t = <<e[3], e[4], e[5], e[6]>>
      OBVIOUS
    <2>2. t \in Seq(D) /\ Len(t) = 4 /\ t[1] = e[3] /\ t[2] = e[4] /\ t[3] = e[5] /\ t[4] = e[6]
      BY <1>2, <2>1
    <2>3. \A i \in 1..4 : l[i] = t[i]
      BY <1>5, <2>2
    <2>4. QED BY <1>5, <2>1, <2>2, <2>3, SeqEqual
  <1>9. h \o l \o p = e
    <2>1. PICK t : t = h \o l
      OBVIOUS
    <2>2. /\ t \in Seq(D) /\ Len(t) = Len(h) + Len(l)
          /\ \A i \in 1 .. Len(h) + Len(l) : t[i] = IF i <= Len(h) THEN h[i] ELSE l[i - Len(h)]
      <3>1. h \in Seq(D) /\ l \in Seq(D)
        BY <1>4, <1>5
      <3>2. QED BY <2>1, <3>1, ConcatProperties
    <2>3. Len(t) = 6 /\ \A i \in 1..6 : t[i] = e[i]
      BY <1>4, <1>5, <2>2
    <2>4. PICK u : u = t \o p
      OBVIOUS
    <2>5. /\ u \in Seq(D) /\ Len(u) = Len(t) + Len(p)
          /\ \A i \in 1 .. Len(t) + Len(p) : u[i] = IF i <= Len(t) THEN t[i] ELSE p[i - Len(t)]
      BY <1>6, <2>2, <2>4, ConcatProperties
    <2>6. Len(u) = n /\ \A i \in 1..n : u[i] = IF i <= 6 THEN t[i] ELSE p[i - 6]
      BY <1>1, <1>6, <2>3, <2>5
    <2>7. ASSUME NEW i \in 1..n PROVE u[i] = e[i]
      <3>1. CASE i <= 6
        BY <2>3, <2>6, <3>1
      <3>2. CASE i > 6
        <4>1. i - 6 \in 1..(n - 6) /\ (i - 6) + 6 = i /\ ~(i <= 6)
          BY <3>2
        <4>2. QED BY <1>6, <2>6, <4>1
      <3>3. QED BY <3>1, <3>2
    <2>8. QED BY <1>1, <2>1, <2>4, <2>5, <2>6, <2>7, SeqEqual
  <1>10. \A i \in 1..6 : e[i] \in D
    BY <1>1
  <1>11. QED BY <1>1, <1>3, <1>6, <1>7, <1>8, <1>9, <1>10

\* The three parts of e.
Parts(e, h, l, b) ==
    /\ Len(e) = 6 + Len(b) /\ SubSeq(e, 1, 2) = h /\ SubSeq(e, 3, 6) = l
    /\ SubSeq(e, 7, Len(e)) = b

\* Put together they can be taken apart again.
LEMMA Together246 ==
    ASSUME NEW D, NEW h \in Seq(D), Len(h) = 2, NEW l \in Seq(D), Len(l) = 4, NEW b \in Seq(D)
    PROVE  Parts(h \o l \o b, h, l, b)
  <1>1. PICK n \in Nat : n = Len(b)
    BY LenProperties
  <1>2. PICK t : t = h \o l
    OBVIOUS
  <1>3. /\ t \in Seq(D) /\ Len(t) = Len(h) + Len(l)
        /\ \A i \in 1 .. Len(h) + Len(l) : t[i] = IF i <= Len(h) THEN h[i] ELSE l[i - Len(h)]
    BY <1>2, ConcatProperties
  <1>4. Len(t) = 6 /\ \A i \in 1..6 : t[i] = IF i <= 2 THEN h[i] ELSE l[i - 2]
    BY <1>3
  <1>5. PICK e : e = t \o b
    OBVIOUS
  <1>6. /\ e \in Seq(D) /\ Len(e) = Len(t) + Len(b)
        /\ \A i \in 1 .. Len(t) + Len(b) : e[i] = IF i <= Len(t) THEN t[i] ELSE b[i - Len(t)]
    <2>1. t \in Seq(D)
      BY <1>3
    <2>2. QED BY <1>5, <2>1, ConcatProperties
  <1>7. /\ Len(e) = 6 + n
        /\ \A i \in 1..(6 + n) : e[i] = IF i <= 6 THEN t[i] ELSE b[i - 6]
    BY <1>1, <1>4, <1>6
  <1>8. Len(e) >= 6 /\ 6 + n - 6 = n
    BY <1>7
  <1>9. PICK p : p = SubSeq(e, 7, 6 + n)
    OBVIOUS
  <1>10. /\ \A i \in 1..(6 + n) : e[i] \in D
    BY <1>6, <1>7, ElementOfSeq
  <1>11. SubSeq(e, 1, 2) = h
    <2>1. \A i \in 1..2 : e[i] \in D
      BY <1>10
    <2>2. PICK x : x = SubSeq(e, 1, 2)
      OBVIOUS
    <2>3. /\ x \in Seq(D) /\ Len(x) = IF 1 <= 2 THEN 2 - 1 + 1 ELSE 0
          /\ \A i \in 1 .. 2 - 1 + 1 : x[i] = e[1 + i - 1]
      BY <2>1, <2>2, SubSeqProperties
    <2>4. Len(x) = 2 /\ \A i \in 1..2 : x[i] = e[i]
      BY <2>3
    <2>5. \A i \in 1..2 : e[i] = h[i]
      BY <1>4, <1>7
    <2>6. QED BY <2>2, <2>3, <2>4, <2>5, SeqEqual
  <1>12. SubSeq(e, 3, 6) = l
    <2>1. \A i \in 3..6 : e[i] \in D
      BY <1>10
    <2>2. PICK x : x = SubSeq(e, 3, 6)
      OBVIOUS
    <2>3. /\ x \in Seq(D) /\ Len(x) = IF 3 <= 6 THEN 6 - 3 + 1 ELSE 0
          /\ \A i \in 1 .. 6 - 3 + 1 : x[i] = e[3 + i - 1]
      BY <2>1, <2>2, SubSeqProperties
    <2>4. Len(x) = 4 /\ \A i \in 1..4 : x[i] = e[i + 2]
      BY <2>3
    <2>5. \A i \in 1..4 : e[i + 2] = l[i]
      BY <1>4, <1>7
    <2>6. QED BY <2>2, <2>3, <2>4, <2>5, SeqEqual
  <1>13. p = b
    <2>1. \A i \in 7..(6 + n) : e[i] \in D
      BY <1>10
    <2>2. /\ p \in Seq(D) /\ Len(p) = IF 7 <= 6 + n THEN (6 + n) - 7 + 1 ELSE 0
          /\ \A i \in 1 .. (6 + n) - 7 + 1 : p[i] = e[7 + i - 1]
      BY <1>9, <2>1, SubSeqProperties
    <2>3. Len(p) = n /\ \A i \in 1..n : p[i] = e[i + 6]
      BY <2>2
    <2>4. \A i \in 1..n : e[i + 6] = b[i]
      BY <1>7
    <2>5. QED BY <1>1, <2>2, <2>3, <2>4, SeqEqual
  <1>14. Parts(e, h, l, b)
    BY <1>1, <1>7, <1>9, <1>11, <1>12, <1>13 DEF Parts
  <1>15. QED BY <1>2, <1>5, <1>14

\* A number of four bytes, read from what was written.
LEMMA FourBytesBack ==
    ASSUME NEW n \in Nat, n < Byte * Byte * (Byte * Byte)
    PROVE  U32FromLe(U32ToLe(n)) = n /\ U32ToLe(n) \in Seq(0..(Byte - 1)) /\ Len(U32ToLe(n)) = 4
  <1>1. PICK w : w = Byte * Byte
    OBVIOUS
  <1>2. Byte \in Nat \ {0} /\ w \in Nat \ {0}
    BY <1>1, CryptoConstants
  <1>3. PICK lo, hi : lo = n % w /\ hi = n \div w
    OBVIOUS
  <1>4. lo \in 0..(w - 1) /\ hi \in Nat /\ n = lo + w * hi
    BY <1>2, <1>3, Divided
  <1>5. hi \in 0..(w - 1)
    <2> SUFFICES ASSUME hi >= w PROVE FALSE
      BY <1>2, <1>4
    <2>1. w * hi >= w * w /\ w * hi \in Nat /\ w * w \in Nat
      BY <1>2, <1>4
    <2>2. QED BY <1>1, <1>2, <1>4, <2>1
  <1>6. U16ToLe(n) = U16ToLe(lo)
    <2>1. PICK r, q : r = lo % Byte /\ q = lo \div Byte
      OBVIOUS
    <2>2. lo \in Nat /\ r \in 0..(Byte - 1) /\ q \in Nat /\ lo = r + Byte * q
      <3>1. lo \in Nat
        BY <1>2, <1>4
      <3>2. QED BY <1>2, <2>1, <3>1, Divided
    <2>3. PICK p \in Nat : p = q + Byte * hi
      BY <1>2, <1>4, <2>2
    <2>4. n = r + Byte * p
      <3>1. Byte * p = Byte * q + Byte * (Byte * hi)
        BY <1>2, <1>4, <2>2, <2>3
      <3>2. Byte * (Byte * hi) = w * hi
        BY <1>1, <1>2, <1>4
      <3>3. QED BY <1>2, <1>4, <2>2, <3>1, <3>2
    <2>5. n \div Byte = p /\ n % Byte = r
      BY <1>2, <2>2, <2>3, <2>4, Digits
    <2>6. q \in 0..(Byte - 1)
      <3> SUFFICES ASSUME q >= Byte PROVE FALSE
        BY <1>2, <2>2
      <3>1. Byte * q >= Byte * Byte /\ Byte * q \in Nat /\ Byte * Byte \in Nat
        BY <1>2, <2>2
      <3>2. QED BY <1>1, <1>2, <1>4, <2>2, <3>1
    <2>7. p % Byte = q /\ q % Byte = q
      BY <1>2, <1>4, <2>3, <2>6, Digits
    <2>8. QED BY <2>1, <2>5, <2>7 DEF U16ToLe
  <1>7. /\ U16FromLe(U16ToLe(lo)) = lo /\ U16FromLe(U16ToLe(hi)) = hi
        /\ IsByte(lo % Byte) /\ IsByte((lo \div Byte) % Byte)
        /\ IsByte(hi % Byte) /\ IsByte((hi \div Byte) % Byte)
    BY <1>1, <1>4, <1>5, TwoBytesBack
  <1>8. PICK a, b, c, d : /\ a = lo % Byte /\ b = (lo \div Byte) % Byte
                          /\ c = hi % Byte /\ d = (hi \div Byte) % Byte
    OBVIOUS
  <1>9. U16ToLe(lo) = <<a, b>> /\ U16ToLe(hi) = <<c, d>>
    BY <1>8 DEF U16ToLe
  <1>10. U32ToLe(n) = <<a, b, c, d>>
    <2>1. U32ToLe(n) = <<a, b>> \o <<c, d>>
      BY <1>1, <1>3, <1>6, <1>9 DEF U32ToLe
    <2>2. <<a, b>> \o <<c, d>> = <<a, b, c, d>>
      BY TwoPairs
    <2>3. QED BY <2>1, <2>2
  <1>11. U32FromLe(<<a, b, c, d>>) = lo + w * hi
    BY <1>1, <1>7, <1>9 DEF U32FromLe
  <1>12. a \in 0..(Byte - 1) /\ b \in 0..(Byte - 1) /\ c \in 0..(Byte - 1) /\ d \in 0..(Byte - 1)
    BY <1>7, <1>8 DEF IsByte
  <1>13. <<a, b, c, d>> \in Seq(0..(Byte - 1)) /\ Len(<<a, b, c, d>>) = 4
    <2>1. PICK D : D = 0..(Byte - 1)
      OBVIOUS
    <2>2. a \in D /\ b \in D /\ c \in D /\ d \in D
      BY <1>12, <2>1
    <2>3. <<a, b, c, d>> \in Seq(D) /\ Len(<<a, b, c, d>>) = 4
      BY <2>2
    <2>4. QED BY <2>1, <2>3
  <1>14. QED BY <1>4, <1>10, <1>11, <1>13

\* The tags of the schemes are read as they are written.
LEMMA TagsRead == \A id : ToU16(FromU16(id)) = id
  BY DEF ToU16, FromU16, Dilithium2, Falcon512, Unknown

\* What from_bytes accepts is what to_bytes writes for it.
LEMMA ReadIsWritten ==
    ASSUME NEW e \in Seq(0..(Byte - 1)), NEW kind, FromBytes(kind, e).ok
    PROVE  ToBytes(kind, FromBytes(kind, e).value) = Ok(e)
  <1>1. Byte \in Nat \ {0}
    BY CryptoConstants
  <1>2. PICK n \in Nat : n = Len(e)
    OBVIOUS
  <1>3. PICK decoded : decoded = DecodeWithScheme(kind, e)
    OBVIOUS
  <1>4. /\ decoded.ok /\ FromBytes(kind, e) = decoded
        /\ ValidateKeySize(kind, decoded.value.scheme, Len(decoded.value.bytes)).ok
    BY <1>3 DEF FromBytes
  <1>5. PICK h, l, p : h = SubSeq(e, 1, 2) /\ l = SubSeq(e, 3, 6) /\ p = SubSeq(e, 7, n)
    OBVIOUS
  <1>6. /\ n >= 6 /\ n = 6 + U32FromLe(l)
        /\ decoded = Ok([scheme |-> FromU16(U16FromLe(h)), bytes |-> p])
    <2>1. \A error : ~Err(error).ok
      BY DEF Err
    <2>2. QED BY <1>2, <1>3, <1>4, <1>5, <2>1 DEF DecodeWithScheme, PrefixLen
  <1>7. decoded.value.scheme = FromU16(U16FromLe(h)) /\ decoded.value.bytes = p
    BY <1>6 DEF Ok
  <1>8. /\ IsByte(e[1]) /\ IsByte(e[2]) /\ IsByte(e[3])
        /\ IsByte(e[4]) /\ IsByte(e[5]) /\ IsByte(e[6])
        /\ h = <<e[1], e[2]>> /\ l = <<e[3], e[4], e[5], e[6]>>
        /\ Len(p) = n - 6 /\ h \o l \o p = e
    <2>1. PICK D : D = 0..(Byte - 1)
      OBVIOUS
    <2>2. e \in Seq(D) /\ Len(e) >= 6
      BY <1>2, <1>6, <2>1
    <2>3. /\ \A i \in 1..6 : e[i] \in D
          /\ h = <<e[1], e[2]>> /\ l = <<e[3], e[4], e[5], e[6]>>
          /\ Len(p) = n - 6 /\ h \o l \o p = e
      BY <1>2, <1>5, <2>2, Apart246
    <2>4. QED BY <2>1, <2>3 DEF IsByte
  <1>10. U16ToLe(U16FromLe(h)) = h
    BY <1>8, TwoBytes DEF U16FromLe
  <1>11. U32ToLe(U32FromLe(l)) = l
    BY <1>8, FourBytes
  <1>12. Len(p) = U32FromLe(l)
    <2>1. U32FromLe(l) \in Nat
      BY <1>8, FourBytes
    <2>2. PICK v : v = U32FromLe(l)
      OBVIOUS
    <2>3. n = 6 + v /\ v \in Nat
      BY <1>6, <2>1, <2>2
    <2>4. Len(p) = n - 6
      BY <1>8
    <2>5. QED BY <2>2, <2>3, <2>4
  <1>14. ToBytes(kind, decoded.value) = Ok(U16ToLe(U16FromLe(h)) \o U32ToLe(Len(p)) \o p)
    BY <1>4, <1>7, TagsRead DEF ToBytes, EncodeWithScheme
  <1>15. QED BY <1>4, <1>8, <1>10, <1>11, <1>12, <1>14

\* What new accepts is read back from what to_bytes writes.
LEMMA WrittenIsRead ==
    ASSUME NEW b \in Seq(0..(Byte - 1)), Len(b) < Byte * Byte * (Byte * Byte),
           NEW kind, NEW s \in Schemes, New(kind, SchemeOf(s), b).ok
    PROVE  LET item == New(kind, SchemeOf(s), b)
           IN  FromBytes(kind, ToBytes(kind, item.value).value) = item
  <1>1. PICK scheme, n : scheme = SchemeOf(s) /\ n = Len(b)
    OBVIOUS
  <1>2. n \in Nat
    BY <1>1
  <1>3. PICK item : item = Ok([scheme |-> scheme, bytes |-> b])
    OBVIOUS
  <1>4. New(kind, SchemeOf(s), b) = item /\ ValidateKeySize(kind, scheme, n).ok
    BY <1>1, <1>3 DEF New
  <1>5. item.ok /\ item.value.scheme = scheme /\ item.value.bytes = b
    BY <1>3 DEF Ok
  <1>6. PICK h, l : h = U16ToLe(ToU16(scheme)) /\ l = U32ToLe(n)
    OBVIOUS
  <1>7. PICK e : e = h \o l \o b
    OBVIOUS
  <1>8. ToBytes(kind, item.value).value = e
    BY <1>1, <1>4, <1>5, <1>6, <1>7 DEF ToBytes, EncodeWithScheme, Ok
  <1>9. ToU16(scheme) \in 0..(Byte * Byte - 1) /\ FromU16(ToU16(scheme)) = scheme
    <2>1. ToU16(scheme) \in {1, 2} /\ FromU16(ToU16(scheme)) = scheme
      BY <1>1 DEF ToU16, FromU16, SchemeOf, Schemes, Dilithium2, Falcon512
    <2>2. Byte \in Nat /\ Byte >= 3
      BY CryptoConstants
    <2>3. Byte * Byte >= 9 /\ Byte * Byte \in Nat
      BY <2>2
    <2>4. QED BY <2>1, <2>3
  <1>10. /\ U16FromLe(h) = ToU16(scheme) /\ h \in Seq(0..(Byte - 1)) /\ Len(h) = 2
    <2>1. PICK i : i = ToU16(scheme)
      OBVIOUS
    <2>2. U16FromLe(h) = i /\ IsByte(i % Byte) /\ IsByte((i \div Byte) % Byte)
      BY <1>6, <1>9, <2>1, TwoBytesBack
    <2>3. PICK x, y, D : x = i % Byte /\ y = (i \div Byte) % Byte /\ D = 0..(Byte - 1)
      OBVIOUS
    <2>4. h = <<x, y>> /\ x \in D /\ y \in D
      BY <1>6, <2>1, <2>2, <2>3 DEF U16ToLe, IsByte
    <2>5. h \in Seq(D) /\ Len(h) = 2
      BY <2>4
    <2>6. QED BY <2>1, <2>2, <2>3, <2>5
  <1>11. U32FromLe(l) = n /\ l \in Seq(0..(Byte - 1)) /\ Len(l) = 4
    BY <1>1, <1>2, <1>6, FourBytesBack
  <1>12. /\ Len(e) = 6 + n /\ SubSeq(e, 1, 2) = h /\ SubSeq(e, 3, 6) = l
         /\ SubSeq(e, 7, Len(e)) = b
    <2>1. PICK D : D = 0..(Byte - 1)
      OBVIOUS
    <2>2. h \in Seq(D) /\ Len(h) = 2 /\ l \in Seq(D) /\ Len(l) = 4 /\ b \in Seq(D)
      BY <1>10, <1>11, <2>1
    <2>3. Parts(h \o l \o b, h, l, b)
      BY <2>2, Together246
    <2>4. QED BY <1>1, <1>7, <2>3 DEF Parts
  <1>13. DecodeWithScheme(kind, e) = item
    <2>1. Len(e) = 6 + n /\ ~(Len(e) < 6)
      BY <1>2, <1>12
    <2>2. 2 + 4 = 6 /\ 6 + 1 = 7
      OBVIOUS
    <2>3. QED BY <1>3, <1>9, <1>10, <1>11, <1>12, <2>1, <2>2
              DEF DecodeWithScheme, PrefixLen
  <1>14. FromBytes(kind, e) = item
    BY <1>1, <1>4, <1>5, <1>13 DEF FromBytes
  <1>15. QED BY <1>4, <1>8, <1>14

\* The bytes read so far are bytes, and a result is what from_bytes makes of them.
CryptoInv ==
    /\ bytes \in Seq(0..(Byte - 1)) /\ Len(bytes) <= MaxInput
    /\ \/ result = << >>
       \/ \E kind \in Kinds : result = <<[kind |-> kind, item |-> FromBytes(kind, bytes)]>>

\* Every step of the reader keeps that.
LEMMA CryptoInvNext == CryptoInv /\ [CryptoNext]_cryptoVars => CryptoInv'
  <1> SUFFICES ASSUME CryptoInv, [CryptoNext]_cryptoVars PROVE CryptoInv'
    OBVIOUS
  <1>1. CASE NextElement
    <2>1. PICK b \in 0..(Byte - 1) : bytes' = Append(bytes, b)
      BY <1>1 DEF NextElement
    <2>2. PICK D : D = 0..(Byte - 1)
      OBVIOUS
    <2>3. bytes \in Seq(D) /\ b \in D /\ Len(bytes) \in Nat
      BY <2>1, <2>2 DEF CryptoInv
    <2>4. bytes' \in Seq(D) /\ Len(bytes') = Len(bytes) + 1
      BY <2>1, <2>3
    <2>5. Len(bytes') <= MaxInput /\ result' = << >>
      BY <1>1, <2>3, <2>4, CryptoConstants DEF NextElement
    <2>6. QED BY <2>2, <2>4, <2>5 DEF CryptoInv
  <1>2. CASE Deserialize
    BY <1>2 DEF Deserialize, CryptoInv
  <1>3. CASE NextItem
    <2>1. bytes' = << >> /\ result' = << >>
      BY <1>3 DEF NextItem
    <2>2. QED BY <2>1, CryptoConstants DEF CryptoInv
  <1>4. CASE UNCHANGED cryptoVars
    BY <1>4 DEF cryptoVars, CryptoInv
  <1>5. QED BY <1>1, <1>2, <1>3, <1>4 DEF CryptoNext

\* What a result that was decoded says about the bytes.
LEMMA DecodedIs ==
    ASSUME CryptoInv, NEW kind, Decoded(kind)
    PROVE  ToBytes(kind, result[1].item.value) = Ok(bytes)
  <1>1. PICK k \in Kinds : result = <<[kind |-> k, item |-> FromBytes(k, bytes)]>>
    BY DEF CryptoInv, Decoded
  <1>2. k = kind /\ result[1].item = FromBytes(kind, bytes) /\ FromBytes(kind, bytes).ok
    BY <1>1 DEF Decoded
  <1>3. ToBytes(kind, FromBytes(kind, bytes).value) = Ok(bytes)
    BY <1>2, ReadIsWritten DEF CryptoInv
  <1>4. QED BY <1>2, <1>3

\* A key or a signature has one encoding (encode_with_scheme, decode_with_scheme),
\* for every size of byte, key and signature.
THEOREM CanonicalHolds == ASSUME InputFits PROVE CryptoSpec => []Canonical
  <1>1. CryptoInit => CryptoInv
    <2> SUFFICES ASSUME CryptoInit PROVE CryptoInv
      OBVIOUS
    <2>1. bytes = << >> /\ result = << >>
      BY DEF CryptoInit
    <2>2. QED BY <2>1, CryptoConstants DEF CryptoInv
  <1>2. CryptoInv => Canonical
    <2> SUFFICES ASSUME CryptoInv PROVE Canonical
      OBVIOUS
    <2>1. \A kind \in Kinds : Decoded(kind) => ToBytes(kind, result[1].item.value) = Ok(bytes)
      BY DecodedIs
    <2>2. ASSUME NEW kind \in Kinds, NEW s \in Schemes, New(kind, SchemeOf(s), bytes).ok
          PROVE  LET item == New(kind, SchemeOf(s), bytes)
                 IN  FromBytes(kind, ToBytes(kind, item.value).value) = item
      <3>1. bytes \in Seq(0..(Byte - 1)) /\ Len(bytes) < Byte * Byte * (Byte * Byte)
        <4>1. PICK w : w = Byte * Byte * (Byte * Byte)
          OBVIOUS
        <4>2. w \in Nat
          BY <4>1, CryptoConstants, NatClosed
        <4>3. Len(bytes) \in Nat /\ Len(bytes) <= MaxInput /\ MaxInput < w /\ MaxInput \in Nat
          BY <4>1, CryptoConstants DEF CryptoInv, InputFits
        <4>4. QED BY <4>1, <4>2, <4>3 DEF CryptoInv
      <3>2. QED BY <2>2, <3>1, WrittenIsRead
    <2>3. QED BY <2>1, <2>2 DEF Canonical
  <1>3. QED BY <1>1, <1>2, CryptoInvNext, PTL DEF CryptoSpec

\* A signature is accepted only as the bytes that its signer sent (verify of both
\* schemes, from_bytes of Signature).
THEOREM AcceptedAsSentHolds == CryptoSpec => []AcceptedAsSent
  <1>1. CryptoInit => CryptoInv
    <2> SUFFICES ASSUME CryptoInit PROVE CryptoInv
      OBVIOUS
    <2>1. bytes = << >> /\ result = << >>
      BY DEF CryptoInit
    <2>2. QED BY <2>1, CryptoConstants DEF CryptoInv
  <1>2. CryptoInv => AcceptedAsSent
    <2> DEFINE sig == result[1].item.value
    <2> SUFFICES ASSUME CryptoInv, Decoded("Signature"), NEW s \in Schemes, NEW m \in Messages,
                        SchemeVerify(s, Keygen(s).public.value, m, sig).ok
                 PROVE  bytes = ToBytes("Signature",
                                        SchemeSign(s, Keygen(s).secret.value, m).value).value
      BY DEF AcceptedAsSent
    <2>1. ToBytes("Signature", sig) = Ok(bytes)
      BY DecodedIs
    <2>2. \A error : ~Err(error).ok
      BY DEF Err
    <2>3. sig.scheme = SchemeOf(s) /\ sig.bytes = DetachedSign[s][m]
      BY <2>2 DEF SchemeVerify, VerifyDetached
    <2>4. PICK k, scheme : k = Keypair[s].secret /\ scheme = SchemeOf(s)
      OBVIOUS
    <2>5. scheme.name = s
      BY <2>4 DEF SchemeOf, Schemes, Dilithium2, Falcon512
    <2>6. Len(k) = SecretKeyBytes[s]
      BY <2>4, CryptoConstants
    <2>7. New("PrivateKey", scheme, k) = Ok([scheme |-> scheme, bytes |-> k])
      <3>1. ValidateKeySize("PrivateKey", scheme, Len(k)) = Ok(Len(k))
        BY <2>5, <2>6 DEF ValidateKeySize, SizeFn, AllowShorter
      <3>2. Ok(Len(k)).ok
        BY DEF Ok
      <3>3. QED BY <3>1, <3>2 DEF New
    <2>8. Keygen(s).secret.value = [scheme |-> scheme, bytes |-> k]
      BY <2>4, <2>7 DEF Keygen, Ok
    <2>9. SchemeSign(s, Keygen(s).secret.value, m) = New("Signature", scheme, DetachedSign[s][m])
      BY <2>4, <2>6, <2>8 DEF SchemeSign
    <2>10. New("Signature", scheme, DetachedSign[s][m])
             = Ok([scheme |-> scheme, bytes |-> DetachedSign[s][m]])
      <3>1. PICK b : b = DetachedSign[s][m]
        OBVIOUS
      <3>2. Len(b) <= SignatureBytes[s]
        BY <3>1, CryptoConstants
      <3>3. ValidateKeySize("Signature", scheme, Len(b)) = Ok(Len(b))
        BY <2>5, <3>2 DEF ValidateKeySize, SizeFn, AllowShorter
      <3>4. Ok(Len(b)).ok
        BY DEF Ok
      <3>5. QED BY <3>1, <3>3, <3>4 DEF New
    <2>11. PICK sent : sent = [scheme |-> scheme, bytes |-> DetachedSign[s][m]]
      OBVIOUS
    <2>12. SchemeSign(s, Keygen(s).secret.value, m).value = sent
      BY <2>9, <2>10, <2>11 DEF Ok
    <2>13. ToBytes("Signature", sent) = ToBytes("Signature", sig)
      BY <2>3, <2>4, <2>11 DEF ToBytes, EncodeWithScheme
    <2>14. QED BY <2>1, <2>12, <2>13 DEF Ok
  <1>3. QED BY <1>1, <1>2, CryptoInvNext, PTL DEF CryptoSpec

-----------------------------------------------------------------------------
(***************************************************************************)
(* Sums over finite sets.                                                  *)
(***************************************************************************)
\* Induction: a family of subsets of a finite set that has the empty set, and has a
\* set when it has every set with one element less, has every subset.
LEMMA SetInduction ==
    ASSUME NEW S, IsFiniteSet(S), NEW Q, {} \in Q,
           \A s \in SUBSET S : s # {} /\ (\A x \in s : s \ {x} \in Q) => s \in Q
    PROVE  \A s \in SUBSET S : s \in Q
  <1> DEFINE T == {n \in Nat : \A s \in SUBSET S : Cardinality(s) = n => s \in Q}
  <1>1. \A s \in SUBSET S : IsFiniteSet(s) /\ Cardinality(s) \in Nat
    BY FS_Subset, FS_CardinalityType
  <1>2. 0 \in T
    BY <1>1, FS_EmptySet
  <1>3. ASSUME NEW n \in T PROVE n + 1 \in T
    <2> SUFFICES ASSUME NEW s \in SUBSET S, Cardinality(s) = n + 1 PROVE s \in Q
      OBVIOUS
    <2>0. n \in Nat /\ Cardinality({}) = 0
      BY <1>3, FS_EmptySet
    <2>1. s # {}
      <3> SUFFICES ASSUME s = {} PROVE FALSE
        OBVIOUS
      <3>1. n + 1 = 0
        BY <2>0
      <3>2. QED BY <2>0, <3>1
    <2>2. ASSUME NEW x \in s PROVE s \ {x} \in Q
      <3>1. Cardinality(s \ {x}) = Cardinality(s) - 1
        BY <1>1, FS_RemoveElement
      <3>2. Cardinality(s \ {x}) = n /\ s \ {x} \in SUBSET S
        BY <1>3, <3>1
      <3>3. QED BY <1>3, <3>2
    <2>3. QED BY <2>1, <2>2
  <1>4. T = Nat
    <2>1. T \in SUBSET Nat
      OBVIOUS
    <2> HIDE DEF T
    <2>2. QED BY <1>2, <1>3, <2>1, NatSet
  <1>5. QED BY <1>1, <1>4

Pick(s) == CHOOSE x \in s : TRUE

\* g[s] is the sum of f over s, for every subset s of S.
Sums(g, f, S) ==
    /\ g = [s \in SUBSET S |-> g[s]]
    /\ \A s \in SUBSET S : g[s] = IF s = {} THEN 0 ELSE f[Pick(s)] + g[s \ {Pick(s)}]

\* An element is picked from every set that has one.
LEMMA Picked == ASSUME NEW s, s # {} PROVE Pick(s) \in s
  BY DEF Pick

\* The sums up to a cardinality.
SumsUpTo(g, f, S, n) ==
    /\ g = [s \in SUBSET S |-> g[s]]
    /\ \A s \in SUBSET S : Cardinality(s) <= n =>
          g[s] = IF s = {} THEN 0 ELSE f[Pick(s)] + g[s \ {Pick(s)}]

\* A finite set has sums.
LEMMA SumsExist ==
    ASSUME NEW S, IsFiniteSet(S), NEW f PROVE \E g : Sums(g, f, S)
  <1> DEFINE T == {n \in Nat : \E g : SumsUpTo(g, f, S, n)}
  <1>1. \A s \in SUBSET S :
           IsFiniteSet(s) /\ Cardinality(s) \in Nat /\ Cardinality(s) <= Cardinality(S)
    BY FS_Subset, FS_CardinalityType
  <1>2. 0 \in T
    <2>1. PICK g : g = [s \in SUBSET S |-> 0]
      OBVIOUS
    <2>2. \A s \in SUBSET S : Cardinality(s) <= 0 => s = {}
      BY <1>1, FS_EmptySet
    <2>3. SumsUpTo(g, f, S, 0)
      BY <2>1, <2>2 DEF SumsUpTo
    <2>4. QED BY <2>3
  <1>3. ASSUME NEW n \in T PROVE n + 1 \in T
    <2>1. PICK g : SumsUpTo(g, f, S, n)
      BY <1>3
    <2>2. PICK h : h = [s \in SUBSET S |-> IF Cardinality(s) = n + 1
                                           THEN f[Pick(s)] + g[s \ {Pick(s)}] ELSE g[s]]
      OBVIOUS
    <2>3. ASSUME NEW s \in SUBSET S, Cardinality(s) <= n + 1
          PROVE  h[s] = IF s = {} THEN 0 ELSE f[Pick(s)] + h[s \ {Pick(s)}]
      <3>1. CASE s = {}
        <4>1. Cardinality(s) = 0 /\ n \in Nat
          BY <1>3, <3>1, FS_EmptySet
        <4>2. Cardinality(s) # n + 1 /\ Cardinality(s) <= n
          BY <4>1
        <4>3. h[s] = g[s]
          BY <2>2, <4>2
        <4>4. g[s] = 0
          BY <2>1, <3>1, <4>2 DEF SumsUpTo
        <4>5. QED BY <3>1, <4>3, <4>4
      <3>2. CASE s # {}
        <4>1. PICK t : t = s \ {Pick(s)} /\ t \in SUBSET S
          OBVIOUS
        <4>2. Cardinality(t) = Cardinality(s) - 1
          BY <1>1, <3>2, <4>1, Picked, FS_RemoveElement
        <4>3. Cardinality(t) # n + 1 /\ n \in Nat
          BY <1>1, <1>3, <2>3, <4>2
        <4>4. h[t] = g[t]
          BY <2>2, <4>1, <4>3
        <4>5. CASE Cardinality(s) = n + 1
          BY <2>2, <3>2, <4>1, <4>4, <4>5
        <4>6. CASE Cardinality(s) # n + 1
          <5>1. Cardinality(s) <= n
            BY <1>1, <1>3, <2>3, <4>6
          <5>2. h[s] = g[s] /\ g[s] = f[Pick(s)] + g[t]
            BY <2>1, <2>2, <3>2, <4>1, <4>6, <5>1 DEF SumsUpTo
          <5>3. QED BY <3>2, <4>1, <4>4, <5>2
        <4>7. QED BY <4>5, <4>6
      <3>3. QED BY <3>1, <3>2
    <2>4. h = [s \in SUBSET S |-> h[s]]
      BY <2>2
    <2>5. SumsUpTo(h, f, S, n + 1)
      BY <2>3, <2>4 DEF SumsUpTo
    <2>6. n + 1 \in Nat
      BY <1>3
    <2>7. QED BY <2>5, <2>6
  <1>4. T = Nat
    <2>1. T \in SUBSET Nat
      OBVIOUS
    <2> HIDE DEF T
    <2>2. QED BY <1>2, <1>3, <2>1, NatSet
  <1>5. Cardinality(S) \in Nat
    BY FS_CardinalityType
  <1>6. PICK g : SumsUpTo(g, f, S, Cardinality(S))
    BY <1>4, <1>5
  <1>7. Sums(g, f, S)
    BY <1>1, <1>6 DEF SumsUpTo, Sums
  <1>8. QED BY <1>7

\* Sums of the same values are the same, whatever larger sets they are sums for.
LEMMA SumsAgree ==
    ASSUME NEW S, IsFiniteSet(S), NEW R, NEW f, NEW e, NEW g, Sums(g, f, S),
           NEW h, Sums(h, e, R), S \subseteq R, \A x \in S : f[x] = e[x]
    PROVE  \A s \in SUBSET S : g[s] = h[s]
  <1> DEFINE Q == {s \in SUBSET S : g[s] = h[s]}
  <1>1. {} \in Q
    <2>1. {} \in SUBSET S /\ {} \in SUBSET R
      OBVIOUS
    <2>2. QED BY <2>1 DEF Sums
  <1>2. ASSUME NEW s \in SUBSET S, s # {}, \A x \in s : s \ {x} \in Q PROVE s \in Q
    <2>1. PICK x : x = Pick(s) /\ x \in s
      BY <1>2, Picked
    <2>2. g[s \ {x}] = h[s \ {x}] /\ f[x] = e[x] /\ s \in SUBSET R
      BY <1>2, <2>1
    <2>3. g[s] = f[x] + g[s \ {x}] /\ h[s] = e[x] + h[s \ {x}]
      BY <1>2, <2>1, <2>2 DEF Sums
    <2>4. QED BY <2>2, <2>3
  <1>3. \A s \in SUBSET S : s # {} /\ (\A x \in s : s \ {x} \in Q) => s \in Q
    BY <1>2
  <1> HIDE DEF Q
  <1>4. \A s \in SUBSET S : s \in Q
    BY <1>1, <1>3, SetInduction
  <1>5. QED BY <1>4 DEF Q

\* Sums of naturals are naturals.
LEMMA SumsNat ==
    ASSUME NEW S, IsFiniteSet(S), NEW f, NEW g, Sums(g, f, S), \A x \in S : f[x] \in Nat
    PROVE  \A s \in SUBSET S : g[s] \in Nat
  <1> DEFINE Q == {s \in SUBSET S : g[s] \in Nat}
  <1>1. {} \in Q
    <2>1. {} \in SUBSET S
      OBVIOUS
    <2>2. g[{}] = 0
      BY <2>1 DEF Sums
    <2>3. QED BY <2>1, <2>2
  <1>2. ASSUME NEW s \in SUBSET S, s # {}, \A x \in s : s \ {x} \in Q PROVE s \in Q
    <2>1. PICK x : x = Pick(s) /\ x \in s
      BY <1>2, Picked
    <2>2. g[s \ {x}] \in Nat /\ f[x] \in Nat
      BY <1>2, <2>1
    <2>3. g[s] = f[x] + g[s \ {x}]
      BY <1>2, <2>1 DEF Sums
    <2>4. QED BY <2>2, <2>3
  <1>3. \A s \in SUBSET S : s # {} /\ (\A x \in s : s \ {x} \in Q) => s \in Q
    BY <1>2
  <1> HIDE DEF Q
  <1>4. \A s \in SUBSET S : s \in Q
    BY <1>1, <1>3, SetInduction
  <1>5. QED BY <1>4 DEF Q

\* Any element can be taken out of a sum first.
LEMMA SumsTake ==
    ASSUME NEW S, IsFiniteSet(S), NEW f, NEW g, Sums(g, f, S), \A x \in S : f[x] \in Nat
    PROVE  \A s \in SUBSET S : \A x \in s : g[s] = f[x] + g[s \ {x}]
  <1> DEFINE Q == {s \in SUBSET S : \A x \in s : g[s] = f[x] + g[s \ {x}]}
  <1>0. \A s \in SUBSET S : g[s] \in Nat
    BY SumsNat
  <1>1. {} \in Q
    OBVIOUS
  <1>2. ASSUME NEW s \in SUBSET S, s # {}, \A x \in s : s \ {x} \in Q PROVE s \in Q
    <2> SUFFICES ASSUME NEW x \in s PROVE g[s] = f[x] + g[s \ {x}]
      OBVIOUS
    <2>1. PICK c : c = Pick(s) /\ c \in s
      BY <1>2, Picked
    <2>2. g[s] = f[c] + g[s \ {c}]
      BY <1>2, <2>1 DEF Sums
    <2>3. CASE x = c
      BY <2>2, <2>3
    <2>4. CASE x # c
      <3>1. x \in s \ {c} /\ c \in s \ {x}
        BY <2>1, <2>4
      <3>2. PICK t : t = (s \ {c}) \ {x} /\ t \in SUBSET S
        OBVIOUS
      <3>3. t = (s \ {x}) \ {c}
        BY <3>2
      <3>4. g[s \ {c}] = f[x] + g[t] /\ g[s \ {x}] = f[c] + g[t]
        BY <1>2, <2>1, <3>1, <3>2, <3>3
      <3>5. f[x] \in Nat /\ f[c] \in Nat /\ g[t] \in Nat
        BY <1>0, <2>1, <3>2
      <3>6. QED BY <2>2, <3>4, <3>5
    <2>5. QED BY <2>3, <2>4
  <1>3. \A s \in SUBSET S : s # {} /\ (\A x \in s : s \ {x} \in Q) => s \in Q
    BY <1>2
  <1> HIDE DEF Q
  <1>4. \A s \in SUBSET S : s \in Q
    BY <1>1, <1>3, SetInduction
  <1>5. QED BY <1>4 DEF Q

\* The sum of f over a finite set.
SumOf(f, S) == (CHOOSE g : Sums(g, f, S))[S]

\* Any sums give it.
LEMMA SumOfIs ==
    ASSUME NEW S, IsFiniteSet(S), NEW R, S \subseteq R, NEW f, NEW e,
           \A x \in S : f[x] = e[x], NEW g, Sums(g, e, R)
    PROVE  SumOf(f, S) = g[S]
  <1>1. PICK h : h = (CHOOSE c : Sums(c, f, S))
    OBVIOUS
  <1>2. Sums(h, f, S)
    BY <1>1, SumsExist
  <1>3. h[S] = g[S]
    BY <1>2, SumsAgree
  <1>4. QED BY <1>1, <1>3 DEF SumOf

\* What a sum is: nothing for no element, and one element more than the others.
LEMMA SumOfRules ==
    ASSUME NEW S, IsFiniteSet(S), NEW f, \A x \in S : f[x] \in Nat
    PROVE  /\ SumOf(f, S) \in Nat
           /\ S = {} => SumOf(f, S) = 0
           /\ \A x \in S : SumOf(f, S) = f[x] + SumOf(f, S \ {x})
  <1>1. PICK g : Sums(g, f, S)
    BY SumsExist
  <1>2. SumOf(f, S) = g[S]
    BY <1>1, SumOfIs
  <1>3. \A x \in S : SumOf(f, S \ {x}) = g[S \ {x}]
    <2> TAKE x \in S
    <2>1. IsFiniteSet(S \ {x}) /\ S \ {x} \subseteq S /\ \A y \in S \ {x} : f[y] = f[y]
      BY FS_RemoveElement
    <2>2. QED BY <1>1, <2>1, SumOfIs
  <1>4. g[S] \in Nat
    BY <1>1, SumsNat
  <1>5. \A x \in S : g[S] = f[x] + g[S \ {x}]
    BY <1>1, SumsTake
  <1>6. S = {} => g[S] = 0
    BY <1>1 DEF Sums
  <1>7. QED BY <1>2, <1>3, <1>4, <1>5, <1>6

\* Equal values have equal sums.
LEMMA SumOfSame ==
    ASSUME NEW S, IsFiniteSet(S), NEW f, NEW e, \A x \in S : f[x] = e[x]
    PROVE  SumOf(f, S) = SumOf(e, S)
  <1>1. PICK g : Sums(g, e, S)
    BY SumsExist
  <1>2. SumOf(f, S) = g[S]
    BY <1>1, SumOfIs
  <1>3. \A x \in S : e[x] = e[x]
    OBVIOUS
  <1>4. SumOf(e, S) = g[S]
    BY <1>1, <1>3, SumOfIs
  <1>5. QED BY <1>2, <1>4

\* One element more.
LEMMA SumOfAdd ==
    ASSUME NEW S, IsFiniteSet(S), NEW x, x \notin S, NEW f, \A y \in S \cup {x} : f[y] \in Nat
    PROVE  /\ IsFiniteSet(S \cup {x}) /\ SumOf(f, S) \in Nat
           /\ SumOf(f, S \cup {x}) = f[x] + SumOf(f, S)
  <1>0. IsFiniteSet(S \cup {x})
    BY FS_AddElement
  <1>1. PICK R : R = S \cup {x}
    OBVIOUS
  <1>a. IsFiniteSet(R) /\ x \in R /\ R \ {x} = S /\ \A y \in R : f[y] \in Nat
    BY <1>0, <1>1
  <1>2. SumOf(f, R) = f[x] + SumOf(f, R \ {x})
    BY <1>a, SumOfRules
  <1>3. SumOf(f, S) \in Nat
    BY SumOfRules
  <1>4. QED BY <1>1, <1>a, <1>2, <1>3

\* A sum over two parts.
LEMMA SumOfParts ==
    ASSUME NEW S, IsFiniteSet(S), NEW f, \A x \in S : f[x] \in Nat
    PROVE  \A T \in SUBSET S : /\ SumOf(f, T) \in Nat /\ SumOf(f, S \ T) \in Nat
                               /\ SumOf(f, S) = SumOf(f, T) + SumOf(f, S \ T)
  <1> DEFINE Q == {T \in SUBSET S : SumOf(f, S) = SumOf(f, T) + SumOf(f, S \ T)}
  <1>0. \A T \in SUBSET S : IsFiniteSet(T) /\ SumOf(f, T) \in Nat
    BY FS_Subset, SumOfRules
  <1>1. {} \in Q
    <2>1. SumOf(f, {}) = 0
      <3>1. IsFiniteSet({}) /\ \A x \in {} : f[x] \in Nat
        BY FS_EmptySet
      <3>2. QED BY <3>1, SumOfRules
    <2>2. S \ {} = S /\ {} \in SUBSET S
      OBVIOUS
    <2>3. SumOf(f, S) \in Nat
      BY <1>0
    <2>4. QED BY <2>1, <2>2, <2>3
  <1>2. ASSUME NEW T \in SUBSET S, T # {}, \A x \in T : T \ {x} \in Q PROVE T \in Q
    <2>1. PICK x \in T : TRUE
      BY <1>2
    <2>a. PICK U : U = T \ {x}
      OBVIOUS
    <2>b. PICK R : R = S \ T
      OBVIOUS
    <2>2. U = T \ {x} /\ R = S \ T /\ U \in SUBSET S /\ R \in SUBSET S
      BY <2>a, <2>b
    <2>3. T = U \cup {x} /\ S \ U = R \cup {x} /\ x \notin U /\ x \notin R
      BY <2>1, <2>2
    <2>4. SumOf(f, S) = SumOf(f, U) + SumOf(f, S \ U)
      BY <1>2, <2>1, <2>2
    <2>5. SumOf(f, T) = f[x] + SumOf(f, U)
      <3>1. IsFiniteSet(U) /\ \A y \in U \cup {x} : f[y] \in Nat
        BY <1>0, <2>1, <2>2
      <3>2. QED BY <2>3, <3>1, SumOfAdd
    <2>6. SumOf(f, S \ U) = f[x] + SumOf(f, R)
      <3>1. IsFiniteSet(R) /\ \A y \in R \cup {x} : f[y] \in Nat
        BY <1>0, <2>1, <2>2
      <3>2. QED BY <2>3, <3>1, SumOfAdd
    <2>7. f[x] \in Nat /\ SumOf(f, U) \in Nat /\ SumOf(f, R) \in Nat
      BY <1>0, <2>1, <2>2
    <2>8. QED BY <2>2, <2>4, <2>5, <2>6, <2>7
  <1>3. \A T \in SUBSET S : T # {} /\ (\A x \in T : T \ {x} \in Q) => T \in Q
    BY <1>2
  <1> HIDE DEF Q
  <1>4. \A T \in SUBSET S : T \in Q
    BY <1>1, <1>3, SetInduction
  <1>5. QED BY <1>0, <1>4 DEF Q

\* Reducing a summand first changes nothing.
LEMMA ModAdds ==
    ASSUME NEW m \in Nat \ {0}
    PROVE  \A c, d \in Nat : ((c % m) + d) % m = (c + d) % m
  <1> SUFFICES ASSUME NEW c \in Nat, NEW d \in Nat PROVE ((c % m) + d) % m = (c + d) % m
    OBVIOUS
  <1>1. PICK q, r : q = c \div m /\ r = c % m
    OBVIOUS
  <1>2. q \in Nat /\ r \in Nat /\ c = r + m * q
    BY <1>1, Divided
  <1>3. PICK p, t : p = (r + d) \div m /\ t = (r + d) % m
    OBVIOUS
  <1>4. r + d \in Nat
    BY <1>2
  <1>5. p \in Nat /\ t \in 0..(m - 1) /\ r + d = t + m * p
    BY <1>3, <1>4, Divided
  <1>6. c + d = t + m * (q + p)
    <2>1. m * (q + p) = m * q + m * p
      BY <1>2, <1>5
    <2>2. m * q \in Nat /\ m * p \in Nat
      BY <1>2, <1>5
    <2>3. QED BY <1>2, <1>5, <2>1, <2>2
  <1>7. q + p \in Nat
    BY <1>2, <1>5
  <1>8. (c + d) % m = t
    BY <1>5, <1>6, <1>7, Digits
  <1>9. QED BY <1>1, <1>3, <1>8

\* A sum of zeros.
LEMMA SumOfZeros ==
    ASSUME NEW S, IsFiniteSet(S), NEW f, \A x \in S : f[x] = 0
    PROVE  SumOf(f, S) = 0
  <1> DEFINE Q == {s \in SUBSET S : SumOf(f, s) = 0}
  <1>0. ASSUME NEW s \in SUBSET S
        PROVE  IsFiniteSet(s) /\ \A x \in s : f[x] \in Nat /\ f[x] = 0
    BY FS_Subset
  <1>1. {} \in Q
    <2>1. {} \in SUBSET S
      OBVIOUS
    <2>2. SumOf(f, {}) = 0
      BY <1>0, <2>1, SumOfRules
    <2>3. QED BY <2>1, <2>2
  <1>2. ASSUME NEW s \in SUBSET S, s # {}, \A x \in s : s \ {x} \in Q PROVE s \in Q
    <2>1. PICK x \in s : TRUE
      BY <1>2
    <2>2. SumOf(f, s) = f[x] + SumOf(f, s \ {x})
      BY <1>0, SumOfRules
    <2>3. SumOf(f, s \ {x}) = 0 /\ f[x] = 0
      BY <1>2
    <2>4. QED BY <2>2, <2>3
  <1>3. \A s \in SUBSET S : s # {} /\ (\A x \in s : s \ {x} \in Q) => s \in Q
    BY <1>2
  <1> HIDE DEF Q
  <1>4. \A s \in SUBSET S : s \in Q
    BY <1>1, <1>3, SetInduction
  <1>5. QED BY <1>4 DEF Q

Image(b, s) == {b[x] : x \in s}

\* A sum over other names of the elements.
LEMMA SumOfImage ==
    ASSUME NEW S, IsFiniteSet(S), NEW b, \A x, y \in S : b[x] = b[y] => x = y,
           NEW f, NEW e, \A x \in S : f[x] \in Nat /\ e[b[x]] = f[x]
    PROVE  IsFiniteSet(Image(b, S)) /\ SumOf(e, Image(b, S)) = SumOf(f, S)
  <1> DEFINE Q == {s \in SUBSET S : IsFiniteSet(Image(b, s)) /\ SumOf(e, Image(b, s)) = SumOf(f, s)}
  <1>0. ASSUME NEW s \in SUBSET S PROVE IsFiniteSet(s) /\ \A x \in s : f[x] \in Nat
    BY FS_Subset
  <1>1. {} \in Q
    <2>1. {} \in SUBSET S /\ Image(b, {}) = {}
      BY DEF Image
    <2>2. IsFiniteSet({}) /\ SumOf(f, {}) = 0
      BY <1>0, <2>1, SumOfRules
    <2>3. \A x \in {} : e[x] \in Nat
      OBVIOUS
    <2>4. SumOf(e, {}) = 0
      BY <2>2, <2>3, SumOfRules
    <2>5. QED BY <2>1, <2>2, <2>4
  <1>2. ASSUME NEW s \in SUBSET S, s # {}, \A x \in s : s \ {x} \in Q PROVE s \in Q
    <2>1. PICK x \in s : TRUE
      BY <1>2
    <2>2. PICK t : t = s \ {x}
      OBVIOUS
    <2>3. PICK U : U = Image(b, t)
      OBVIOUS
    <2>4. IsFiniteSet(U) /\ SumOf(e, U) = SumOf(f, t)
      BY <1>2, <2>2, <2>3
    <2>5. Image(b, s) = U \cup {b[x]} /\ b[x] \notin U
      <3>1. s = t \cup {x} /\ x \notin t /\ t \subseteq S
        BY <2>2
      <3>2. QED BY <2>3, <3>1 DEF Image
    <2>6. \A y \in U \cup {b[x]} : e[y] \in Nat
      BY <2>2, <2>3 DEF Image
    <2>7. /\ IsFiniteSet(U \cup {b[x]})
          /\ SumOf(e, U \cup {b[x]}) = e[b[x]] + SumOf(e, U)
      BY <2>4, <2>5, <2>6, SumOfAdd
    <2>8. SumOf(f, s) = f[x] + SumOf(f, t)
      BY <1>0, <2>2, SumOfRules
    <2>9. e[b[x]] = f[x]
      OBVIOUS
    <2>10. QED BY <2>4, <2>5, <2>7, <2>8, <2>9
  <1>3. \A s \in SUBSET S : s # {} /\ (\A x \in s : s \ {x} \in Q) => s \in Q
    BY <1>2
  <1> HIDE DEF Q
  <1>4. S \in SUBSET S
    OBVIOUS
  <1>5. S \in Q
    BY <1>1, <1>3, <1>4, SetInduction
  <1>6. QED BY <1>5 DEF Q

-----------------------------------------------------------------------------
(***************************************************************************)
(* The amount of an asset in a list, as a sum over positions.              *)
(***************************************************************************)
IsAmounts(s) == IsList(s) /\ \A x \in ToSet(s) : x.amount \in Nat

AmountsOf(a, s) == [i \in DOMAIN s |-> IF s[i].asset_id = a THEN s[i].amount ELSE 0]

\* Its values.
LEMMA AmountsAre ==
    ASSUME NEW a, NEW s, IsAmounts(s)
    PROVE  /\ IsFiniteSet(DOMAIN s)
           /\ \A i \in DOMAIN s :
                 /\ AmountsOf(a, s)[i] = IF s[i].asset_id = a THEN s[i].amount ELSE 0
                 /\ AmountsOf(a, s)[i] \in Nat /\ s[i] \in ToSet(s)
  <1>1. PICK n \in Nat : DOMAIN s = 1..n
    BY ListDomain DEF IsAmounts
  <1>2. IsFiniteSet(1..n)
    BY FS_Interval
  <1>3. \A i \in DOMAIN s : s[i] \in ToSet(s)
    BY DEF ToSet
  <1>4. QED BY <1>1, <1>2, <1>3 DEF AmountsOf, IsAmounts

\* The sum of the first k elements, one more at a time.
LEMMA SumOfFirst ==
    ASSUME NEW n \in Nat, NEW f, \A i \in 1..n : f[i] \in Nat
    PROVE  /\ SumOf(f, 1..0) = 0
           /\ \A k \in 1..n : /\ SumOf(f, 1..k) \in Nat /\ SumOf(f, 1..(k - 1)) \in Nat
                              /\ SumOf(f, 1..k) = f[k] + SumOf(f, 1..(k - 1))
  <1>1. ASSUME NEW k \in 0..n
        PROVE  IsFiniteSet(1..k) /\ \A i \in 1..k : f[i] \in Nat
    <2>1. IsFiniteSet(1..k)
      BY FS_Interval
    <2>2. QED BY <2>1
  <1>2. SumOf(f, 1..0) = 0
    <2>1. 1..0 = {} /\ 0 \in 0..n
      OBVIOUS
    <2>2. QED BY <1>1, <2>1, SumOfRules
  <1>3. ASSUME NEW k \in 1..n
        PROVE  /\ SumOf(f, 1..k) \in Nat /\ SumOf(f, 1..(k - 1)) \in Nat
               /\ SumOf(f, 1..k) = f[k] + SumOf(f, 1..(k - 1))
    <2>1. k \in 0..n /\ k - 1 \in 0..n /\ k \in 1..k /\ (1..k) \ {k} = 1..(k - 1)
      OBVIOUS
    <2>2. SumOf(f, 1..k) = f[k] + SumOf(f, (1..k) \ {k})
      BY <1>1, <2>1, SumOfRules
    <2>3. SumOf(f, 1..k) \in Nat /\ SumOf(f, 1..(k - 1)) \in Nat
      BY <1>1, <2>1, SumOfRules
    <2>4. QED BY <2>1, <2>2, <2>3
  <1>4. QED BY <1>2, <1>3

\* HeldOf is that sum, and TotalOf is what it leaves in the width of an amount.
LEMMA HeldIs ==
    ASSUME NEW a, NEW s, IsAmounts(s)
    PROVE  /\ HeldOf(a, s) = SumOf(AmountsOf(a, s), DOMAIN s) /\ HeldOf(a, s) \in Nat
           /\ TotalOf(a, s) = HeldOf(a, s) % AmountMod
  <1>1. PICK n \in Nat : DOMAIN s = 1..n
    BY ListDomain DEF IsAmounts
  <1>2. PICK g : Computes(g, HeldLoop(a), 0, s, n) /\ HeldOf(a, s) = g[1..n]
    BY <1>1, HeldIsLoop
  <1>3. PICK h : Computes(h, TotalLoop(a), 0, s, n) /\ TotalOf(a, s) = h[1..n]
    BY <1>1, TotalIsLoop
  <1>4. Runs(g, HeldLoop(a), 0, s, n) /\ Runs(h, TotalLoop(a), 0, s, n)
    BY <1>2, <1>3, LoopTurn
  <1>5. PICK f : f = AmountsOf(a, s)
    OBVIOUS
  <1>6. \A i \in 1..n : f[i] \in Nat /\ f[i] = IF s[i].asset_id = a THEN s[i].amount ELSE 0
    BY <1>1, <1>5, AmountsAre
  <1>7. /\ SumOf(f, 1..0) = 0
        /\ \A k \in 1..n : /\ SumOf(f, 1..k) \in Nat /\ SumOf(f, 1..(k - 1)) \in Nat
                           /\ SumOf(f, 1..k) = f[k] + SumOf(f, 1..(k - 1))
    BY <1>6, SumOfFirst
  <1>8. \A acc, x : /\ Turn(HeldLoop(a), acc, x) = IF x.asset_id = a THEN acc + x.amount ELSE acc
                    /\ Turn(TotalLoop(a), acc, x)
                         = IF x.asset_id = a THEN (acc + x.amount) % AmountMod ELSE acc
    BY DEF Turn, HeldLoop, TotalLoop, HeldNext, TotalNext
  <1>9. \A c, d \in Nat : ((c % AmountMod) + d) % AmountMod = (c + d) % AmountMod
    BY AmountModAssumption, ModAdds
  <1> DEFINE T == {k \in Nat : k <= n => /\ g[1..k] = SumOf(f, 1..k) /\ g[1..k] \in Nat
                                         /\ h[1..k] = g[1..k] % AmountMod}
  <1>10. 0 \in T
    <2>1. g[1..0] = 0 /\ h[1..0] = 0
      BY <1>4 DEF Runs
    <2>2. 0 % AmountMod = 0
      BY AmountModAssumption
    <2>3. QED BY <1>7, <2>1, <2>2
  <1>11. ASSUME NEW k \in T PROVE k + 1 \in T
    <2> SUFFICES ASSUME k + 1 <= n
                 PROVE  /\ g[1..(k + 1)] = SumOf(f, 1..(k + 1)) /\ g[1..(k + 1)] \in Nat
                        /\ h[1..(k + 1)] = g[1..(k + 1)] % AmountMod
      BY <1>11
    <2>1. k + 1 \in 1..n /\ (k + 1) - 1 = k /\ k <= n
      BY <1>11
    <2>2. PICK c : c = g[1..k] /\ c = SumOf(f, 1..k) /\ c \in Nat /\ h[1..k] = c % AmountMod
      BY <1>11, <2>1
    <2>3. PICK x : x = s[k + 1]
      OBVIOUS
    <2>4. /\ g[1..(k + 1)] = Turn(HeldLoop(a), c, x)
          /\ h[1..(k + 1)] = Turn(TotalLoop(a), c % AmountMod, x)
      BY <1>4, <2>1, <2>2, <2>3 DEF Runs
    <2>5. SumOf(f, 1..(k + 1)) = f[k + 1] + c
      BY <1>7, <2>1, <2>2
    <2>6. f[k + 1] \in Nat /\ f[k + 1] = IF x.asset_id = a THEN x.amount ELSE 0
      BY <1>6, <2>1, <2>3
    <2>7. CASE x.asset_id = a
      <3>1. x.amount \in Nat /\ f[k + 1] = x.amount
        BY <2>6, <2>7
      <3>2. g[1..(k + 1)] = c + x.amount /\ h[1..(k + 1)] = ((c % AmountMod) + x.amount) % AmountMod
        BY <1>8, <2>4, <2>7
      <3>3. ((c % AmountMod) + x.amount) % AmountMod = (c + x.amount) % AmountMod
        BY <1>9, <2>2, <3>1
      <3>4. f[k + 1] + c = c + x.amount /\ c + x.amount \in Nat
        BY <2>2, <3>1
      <3>5. QED BY <2>5, <3>2, <3>3, <3>4
    <2>8. CASE x.asset_id # a
      <3>1. f[k + 1] = 0 /\ g[1..(k + 1)] = c /\ h[1..(k + 1)] = c % AmountMod
        BY <1>8, <2>4, <2>6, <2>8
      <3>2. QED BY <2>2, <2>5, <3>1
    <2>9. QED BY <2>7, <2>8
  <1>12. T \in SUBSET Nat
    OBVIOUS
  <1> HIDE DEF T
  <1>13. n \in T
    BY <1>10, <1>11, <1>12, NatSet
  <1>14. QED BY <1>1, <1>2, <1>3, <1>5, <1>13 DEF T

\* A list without the asset, or with nothing of it, holds none.
LEMMA HeldNone ==
    ASSUME NEW a, NEW s, IsAmounts(s), \A x \in ToSet(s) : x.asset_id = a => x.amount = 0
    PROVE  HeldOf(a, s) = 0
  <1>1. PICK f : f = AmountsOf(a, s)
    OBVIOUS
  <1>2. IsFiniteSet(DOMAIN s) /\ \A i \in DOMAIN s : f[i] = 0
    BY <1>1, AmountsAre
  <1>3. SumOf(f, DOMAIN s) = 0
    BY <1>2, SumOfZeros
  <1>4. QED BY <1>1, <1>3, HeldIs

\* A list holds at least each of its amounts.
LEMMA HeldSome ==
    ASSUME NEW s, IsAmounts(s), NEW x \in ToSet(s)
    PROVE  HeldOf(x.asset_id, s) >= x.amount
  <1>1. PICK i \in DOMAIN s : x = s[i]
    BY DEF ToSet
  <1>2. PICK f, h : f = AmountsOf(x.asset_id, s) /\ h = SumOf(f, (DOMAIN s) \ {i})
    OBVIOUS
  <1>3. /\ IsFiniteSet(DOMAIN s) /\ \A j \in DOMAIN s : f[j] \in Nat
        /\ f[i] = x.amount
    BY <1>1, <1>2, AmountsAre
  <1>4. SumOf(f, DOMAIN s) = f[i] + h
    BY <1>2, <1>3, SumOfRules
  <1>5. h \in Nat
    <2>1. IsFiniteSet((DOMAIN s) \ {i})
      BY <1>3, FS_RemoveElement
    <2>2. \A j \in (DOMAIN s) \ {i} : f[j] \in Nat
      BY <1>3
    <2>3. QED BY <1>2, <2>1, <2>2, SumOfRules
  <1>6. HeldOf(x.asset_id, s) = x.amount + h /\ x.amount \in Nat
    BY <1>2, <1>3, <1>4, HeldIs
  <1>7. QED BY <1>5, <1>6

\* Two lists put together hold what they hold.
LEMMA HeldConcat ==
    ASSUME NEW a, NEW s, IsAmounts(s), NEW t, IsAmounts(t)
    PROVE  IsAmounts(s \o t) /\ HeldOf(a, s \o t) = HeldOf(a, s) + HeldOf(a, t)
  <1>1. IsList(s) /\ IsList(t)
    BY DEF IsAmounts
  <1>2. IsList(s \o t) /\ ToSet(s \o t) = ToSet(s) \union ToSet(t)
    BY <1>1, ConcatLists
  <1>3. IsAmounts(s \o t)
    BY <1>2 DEF IsAmounts
  <1>4. PICK n, m, r : n = Len(s) /\ m = Len(t) /\ r = s \o t
    OBVIOUS
  <1>5. n \in Nat /\ m \in Nat /\ DOMAIN s = 1..n /\ DOMAIN t = 1..m
    BY <1>1, <1>4, ListDomain
  <1>6. /\ DOMAIN r = 1..(n + m)
        /\ \A i \in 1..n : r[i] = s[i]
        /\ \A i \in 1..m : r[n + i] = t[i]
    <2>1. PICK S : S = ToSet(s) \union ToSet(t)
      OBVIOUS
    <2>2. s \in Seq(S) /\ t \in Seq(S)
      BY <1>1, <2>1 DEF IsList
    <2>3. /\ Len(r) = n + m /\ r \in Seq(S)
          /\ \A i \in 1..(n + m) : r[i] = IF i <= n THEN s[i] ELSE t[i - n]
      BY <1>4, <2>2, ConcatProperties
    <2>4. DOMAIN r = 1..(n + m)
      BY <2>3
    <2>5. \A i \in 1..n : i \in 1..(n + m) /\ i <= n
      BY <1>5
    <2>6. \A i \in 1..m : n + i \in 1..(n + m) /\ ~(n + i <= n) /\ (n + i) - n = i
      BY <1>5
    <2>7. \A i \in 1..m : r[n + i] = t[i]
      BY <2>3, <2>6
    <2>8. \A i \in 1..n : r[i] = s[i]
      BY <2>3, <2>5
    <2>9. QED BY <2>4, <2>7, <2>8
  <1>7. PICK f, g, h : f = AmountsOf(a, r) /\ g = AmountsOf(a, s) /\ h = AmountsOf(a, t)
    OBVIOUS
  <1>8. /\ IsFiniteSet(DOMAIN r) /\ \A i \in DOMAIN r : f[i] \in Nat
        /\ \A i \in DOMAIN r : f[i] = IF r[i].asset_id = a THEN r[i].amount ELSE 0
    <2>1. IsAmounts(r)
      BY <1>3, <1>4
    <2>2. QED BY <1>7, <2>1, AmountsAre
  <1>9. /\ IsFiniteSet(DOMAIN s) /\ \A i \in DOMAIN s : g[i] \in Nat
        /\ \A i \in DOMAIN s : g[i] = IF s[i].asset_id = a THEN s[i].amount ELSE 0
    BY <1>7, AmountsAre
  <1>10. /\ IsFiniteSet(DOMAIN t) /\ \A i \in DOMAIN t : h[i] \in Nat
         /\ \A i \in DOMAIN t : h[i] = IF t[i].asset_id = a THEN t[i].amount ELSE 0
    BY <1>7, AmountsAre
  <1>11. /\ SumOf(f, DOMAIN r) = SumOf(f, DOMAIN s) + SumOf(f, (DOMAIN r) \ (DOMAIN s))
         /\ DOMAIN s \subseteq DOMAIN r
    <2>1. DOMAIN s \subseteq DOMAIN r
      BY <1>5, <1>6
    <2>2. QED BY <1>8, <2>1, SumOfParts
  <1>12. SumOf(f, DOMAIN s) = SumOf(g, DOMAIN s)
    <2>1. \A i \in DOMAIN s : f[i] = g[i]
      BY <1>5, <1>6, <1>8, <1>9, <1>11
    <2>2. QED BY <1>9, <2>1, SumOfSame
  <1>13. SumOf(f, (DOMAIN r) \ (DOMAIN s)) = SumOf(h, DOMAIN t)
    <2>1. PICK b : b = [i \in DOMAIN t |-> n + i]
      OBVIOUS
    <2>2. \A i \in DOMAIN t : b[i] = n + i
      BY <2>1
    <2>3. \A i, j \in DOMAIN t : b[i] = b[j] => i = j
      BY <1>5, <2>2
    <2>4. \A i \in DOMAIN t : n + i \in DOMAIN r
      BY <1>5, <1>6
    <2>5. \A i \in DOMAIN t : f[n + i] = h[i]
      BY <1>5, <1>6, <1>8, <1>10, <2>4
    <2>6. \A i \in DOMAIN t : h[i] \in Nat /\ f[b[i]] = h[i]
      BY <1>10, <2>2, <2>5
    <2>7. Image(b, DOMAIN t) = (DOMAIN r) \ (DOMAIN s)
      <3>1. \A i \in DOMAIN t : b[i] \in (DOMAIN r) \ (DOMAIN s)
        BY <1>5, <2>2, <2>4
      <3>2. ASSUME NEW j \in (DOMAIN r) \ (DOMAIN s) PROVE j \in Image(b, DOMAIN t)
        <4>1. j - n \in DOMAIN t /\ n + (j - n) = j
          BY <1>5, <1>6, <3>2
        <4>2. QED BY <2>2, <4>1 DEF Image
      <3>3. QED BY <3>1, <3>2 DEF Image
    <2>8. SumOf(f, Image(b, DOMAIN t)) = SumOf(h, DOMAIN t)
      BY <1>10, <2>3, <2>6, SumOfImage
    <2>9. QED BY <2>7, <2>8
  <1>14. /\ HeldOf(a, r) = SumOf(f, DOMAIN r)
         /\ HeldOf(a, s) = SumOf(g, DOMAIN s) /\ HeldOf(a, t) = SumOf(h, DOMAIN t)
    BY <1>3, <1>4, <1>7, HeldIs
  <1>15. QED BY <1>3, <1>4, <1>11, <1>12, <1>13, <1>14

\* h[i] is what the item i holds; a list holds the sum of these.
ItemsHold(a, items, h, n) == \A i \in 1..n : IsAmounts(items[i]) /\ h[i] = HeldOf(a, items[i])
HoldsAll(a, s, h, n) == IsAmounts(s) /\ HeldOf(a, s) = SumOf(h, 1..n)

\* A loop that joins lists holds what they hold together.
LEMMA HeldJoin ==
    ASSUME NEW a, NEW loop, NEW seq, NEW n \in Nat, NEW base, base = << >>,
           NEW g, Computes(g, loop, base, seq, n), NEW items,
           JoinsItems(loop, seq, items, n), NEW h, ItemsHold(a, items, h, n)
    PROVE  HoldsAll(a, g[1..n], h, n)
  <1>1. Runs(g, loop, base, seq, n)
    BY LoopTurn
  <1>2. \A i \in 1..n : h[i] \in Nat
    BY HeldIs DEF ItemsHold
  <1>3. /\ SumOf(h, 1..0) = 0
        /\ \A k \in 1..n : /\ SumOf(h, 1..k) \in Nat /\ SumOf(h, 1..(k - 1)) \in Nat
                           /\ SumOf(h, 1..k) = h[k] + SumOf(h, 1..(k - 1))
    BY <1>2, SumOfFirst
  <1> DEFINE T == {k \in Nat : k <= n => IsAmounts(g[1..k]) /\ HeldOf(a, g[1..k]) = SumOf(h, 1..k)}
  <1>4. 0 \in T
    <2>1. g[1..0] = << >>
      BY <1>1 DEF Runs
    <2>2. ToSet(<< >>) = {} /\ IsList(<< >>)
      BY DEF ToSet, IsList
    <2>3. IsAmounts(<< >>)
      BY <2>2 DEF IsAmounts
    <2>4. PICK empty : empty = << >>
      OBVIOUS
    <2>5. IsAmounts(empty) /\ \A x \in ToSet(empty) : x.asset_id = a => x.amount = 0
      BY <2>2, <2>3, <2>4
    <2>6. HeldOf(a, empty) = 0
      BY <2>5, HeldNone
    <2>7. QED BY <1>3, <2>1, <2>4, <2>5, <2>6
  <1>5. ASSUME NEW k \in T PROVE k + 1 \in T
    <2> SUFFICES ASSUME k + 1 <= n
                 PROVE  IsAmounts(g[1..(k + 1)]) /\ HeldOf(a, g[1..(k + 1)]) = SumOf(h, 1..(k + 1))
      BY <1>5
    <2>1. k + 1 \in 1..n /\ (k + 1) - 1 = k /\ k <= n
      BY <1>5
    <2>2. PICK s : s = g[1..k] /\ IsAmounts(s) /\ HeldOf(a, s) = SumOf(h, 1..k)
      BY <1>5, <2>1
    <2>3. PICK t : t = items[k + 1]
      OBVIOUS
    <2>4. g[1..(k + 1)] = Turn(loop, s, seq[k + 1])
      BY <1>1, <2>1, <2>2 DEF Runs
    <2>5. g[1..(k + 1)] = s \o t
      BY <2>1, <2>3, <2>4 DEF JoinsItems
    <2>6. IsAmounts(t) /\ h[k + 1] = HeldOf(a, t)
      BY <2>1, <2>3 DEF ItemsHold
    <2>7. IsAmounts(s \o t) /\ HeldOf(a, s \o t) = HeldOf(a, s) + HeldOf(a, t)
      BY <2>2, <2>6, HeldConcat
    <2>8. /\ SumOf(h, 1..(k + 1)) = h[k + 1] + SumOf(h, 1..k)
          /\ h[k + 1] \in Nat /\ SumOf(h, 1..k) \in Nat
      BY <1>2, <1>3, <2>1
    <2>9. QED BY <2>2, <2>5, <2>6, <2>7, <2>8
  <1>6. T \in SUBSET Nat
    OBVIOUS
  <1> HIDE DEF T
  <1>7. n \in T
    BY <1>4, <1>5, <1>6, NatSet
  <1>8. QED BY <1>7 DEF T, HoldsAll

\* What the outputs of a transaction hold.
LEMMA OutputsHold ==
    ASSUME NEW a, NEW tx, IsTransaction(tx),
           NEW h, \A i \in DOMAIN tx.core.outputs : h[i] = HeldOf(a, tx.core.outputs[i].assets)
    PROVE  /\ IsAmounts(OutputAssets(tx))
           /\ HeldOf(a, OutputAssets(tx)) = SumOf(h, DOMAIN tx.core.outputs)
  <1>1. PICK n \in Nat : DOMAIN tx.core.outputs = 1..n
    BY ListDomain DEF IsTransaction
  <1>2. PICK base : base = << >>
    OBVIOUS
  <1>3. PICK g : /\ Computes(g, OutputLoop, base, tx.core.outputs, n)
                 /\ OutputAssets(tx) = g[1..n]
    BY <1>1, <1>2, OutputsIsLoop
  <1>4. PICK items : items = [i \in 1..n |-> tx.core.outputs[i].assets]
    OBVIOUS
  <1>5. \A i \in 1..n : items[i] = tx.core.outputs[i].assets /\ IsAmounts(items[i])
    BY <1>1, <1>4 DEF IsTransaction, IsOutput, IsAmounts
  <1>6. \A acc, x : Turn(OutputLoop, acc, x) = acc \o x.assets
    BY DEF Turn, OutputLoop, OutputNext
  <1>7. JoinsItems(OutputLoop, tx.core.outputs, items, n)
    BY <1>5, <1>6 DEF JoinsItems, IsAmounts
  <1>8. ItemsHold(a, items, h, n)
    BY <1>1, <1>5 DEF ItemsHold
  <1>9. HoldsAll(a, g[1..n], h, n)
    BY <1>2, <1>3, <1>7, <1>8, HeldJoin
  <1>10. QED BY <1>1, <1>3, <1>9 DEF HoldsAll

\* What its inputs hold.
LEMMA InputsHold ==
    ASSUME NEW a, NEW l, NEW tx, IsTransaction(tx),
           \A i \in DOMAIN tx.core.inputs : IsOutput(l.utxos[tx.core.inputs[i]].output),
           NEW h, \A i \in DOMAIN tx.core.inputs :
                     h[i] = HeldOf(a, l.utxos[tx.core.inputs[i]].output.assets)
    PROVE  /\ IsAmounts(InputAssets(l, tx))
           /\ HeldOf(a, InputAssets(l, tx)) = SumOf(h, DOMAIN tx.core.inputs)
  <1>1. PICK n \in Nat : DOMAIN tx.core.inputs = 1..n
    BY ListDomain DEF IsTransaction
  <1>2. PICK base : base = << >>
    OBVIOUS
  <1>3. PICK g : /\ Computes(g, InputLoop(l.utxos), base, tx.core.inputs, n)
                 /\ InputAssets(l, tx) = g[1..n]
    BY <1>1, <1>2, InputsIsLoop
  <1>4. PICK items : items = [i \in 1..n |-> l.utxos[tx.core.inputs[i]].output.assets]
    OBVIOUS
  <1>5. \A i \in 1..n : /\ items[i] = l.utxos[tx.core.inputs[i]].output.assets
                        /\ IsAmounts(items[i])
    BY <1>1, <1>4 DEF IsOutput, IsAmounts
  <1>6. \A acc, x : Turn(InputLoop(l.utxos), acc, x) = acc \o l.utxos[x].output.assets
    BY DEF Turn, InputLoop, InputNext
  <1>7. JoinsItems(InputLoop(l.utxos), tx.core.inputs, items, n)
    <2>1. \A i \in 1..n : IsList(items[i])
      BY <1>5 DEF IsAmounts
    <2>2. ASSUME NEW i \in 1..n, NEW acc
          PROVE  Turn(InputLoop(l.utxos), acc, tx.core.inputs[i]) = acc \o items[i]
      <3>1. PICK x, t : x = tx.core.inputs[i] /\ t = items[i]
        OBVIOUS
      <3>2. t = l.utxos[x].output.assets
        BY <1>5, <3>1
      <3>3. Turn(InputLoop(l.utxos), acc, x) = acc \o l.utxos[x].output.assets
        BY <1>6
      <3>4. QED BY <3>1, <3>2, <3>3
    <2>3. QED BY <2>1, <2>2 DEF JoinsItems
  <1>8. ItemsHold(a, items, h, n)
    BY <1>1, <1>5 DEF ItemsHold
  <1>9. HoldsAll(a, g[1..n], h, n)
    BY <1>2, <1>3, <1>7, <1>8, HeldJoin
  <1>10. QED BY <1>1, <1>3, <1>9 DEF HoldsAll

\* The total of an asset, whether it occurs in the list or not.
LEMMA TotalIs ==
    ASSUME NEW s, IsList(s), NEW a PROVE Total(Totals(s), a) = TotalOf(a, s)
  <1>1. /\ a \in DOMAIN Totals(s) <=> \E x \in ToSet(s) : x.asset_id = a
        /\ a \in DOMAIN Totals(s) => Totals(s)[a] = TotalOf(a, s)
    BY TotalsAre
  <1>2. CASE a \in DOMAIN Totals(s)
    BY <1>1, <1>2 DEF Total
  <1>3. CASE a \notin DOMAIN Totals(s)
    <2>1. \A x \in ToSet(s) : x.asset_id = a => x.amount = 0
      BY <1>1, <1>3
    <2>2. TotalOf(a, s) = 0
      BY <2>1, TotalOfNone
    <2>3. QED BY <1>3, <2>2 DEF Total
  <1>4. QED BY <1>2, <1>3

\* Totals are conserved exactly when those of every asset are equal.
LEMMA ConservesIs ==
    ASSUME NEW i, NEW o, Conserves(i, o), NEW a PROVE Total(i, a) = Total(o, a)
  BY DEF Conserves, Total

\* Leaving one asset out does not touch the others.
LEMMA WithoutIs ==
    ASSUME NEW t, NEW b, NEW a, a # b PROVE Total(Without(t, b), a) = Total(t, a)
  BY DEF Without, Total

\* What the initial supply of an accepted creation is.
MintedOnly(tx) ==
    LET supply == tx.core.kind.initial_supply
        max    == tx.core.kind.definition.max_supply
    IN  supply \in 0..(AmountMod - 1) /\ (max # None => supply <= max[1])

\* The totals of a transaction that applies: what it creates comes out only, in
\* the amount of the initial supply; all else goes in and comes out.
LEMMA Balanced ==
    ASSUME NEW l, NEW tx, IsTransaction(tx), NEW h, NEW id, Applicable(l, tx, h, id),
           IsAmounts(InputAssets(l, tx)), IsAmounts(OutputAssets(tx)), NEW a
    PROVE  LET in == TotalOf(a, InputAssets(l, tx))
               out == TotalOf(a, OutputAssets(tx))
           IN  /\ IsCreate(tx) /\ a = AssetIdOf(tx, id) =>
                     in = 0 /\ out = tx.core.kind.initial_supply /\ MintedOnly(tx)
               /\ ~(IsCreate(tx) /\ a = AssetIdOf(tx, id)) => in = out
  <1>1. PICK i, o : i = Totals(InputAssets(l, tx)) /\ o = Totals(OutputAssets(tx))
    OBVIOUS
  <1>2. PICK in, out : in = TotalOf(a, InputAssets(l, tx)) /\ out = TotalOf(a, OutputAssets(tx))
    OBVIOUS
  <1>3. Total(i, a) = in /\ Total(o, a) = out
    BY <1>1, <1>2, TotalIs DEF IsAmounts
  <1>4. CASE IsCreate(tx) /\ a = AssetIdOf(tx, id)
    <2>1. CheckMint(l, tx, a, i, o) = "ok"
      BY <1>1, <1>4 DEF Applicable, MintAllowed
    <2>2. PICK supply, max : /\ supply = tx.core.kind.initial_supply
                             /\ max = tx.core.kind.definition.max_supply
      OBVIOUS
    <2>3. out = supply /\ in = 0 /\ ~(max # None /\ out > max[1])
      BY <1>3, <2>1, <2>2 DEF CheckMint
    <2>4. max # None => max[1] \in Nat
      BY <1>4, <2>2 DEF IsTransaction
    <2>5. out \in 0..(AmountMod - 1)
      <3>1. out = HeldOf(a, OutputAssets(tx)) % AmountMod /\ HeldOf(a, OutputAssets(tx)) \in Nat
        BY <1>2, HeldIs
      <3>2. QED BY <3>1, AmountModAssumption
    <2>6. out \in Nat
      BY <2>5, AmountModAssumption
    <2>7. max # None => out <= max[1]
      BY <2>3, <2>4, <2>6
    <2>8. MintedOnly(tx)
      BY <2>2, <2>3, <2>5, <2>7 DEF MintedOnly
    <2>9. QED BY <1>2, <1>4, <2>2, <2>3, <2>8
  <1>5. CASE ~(IsCreate(tx) /\ a = AssetIdOf(tx, id))
    <2>1. CASE IsCreate(tx)
      <3>1. PICK b : b = AssetIdOf(tx, id) /\ a # b
        BY <1>5, <2>1
      <3>2. Conserves(Without(i, b), Without(o, b))
        BY <1>1, <2>1, <3>1 DEF Applicable, Conserved
      <3>3. Total(Without(i, b), a) = Total(Without(o, b), a)
        BY <3>2, ConservesIs
      <3>4. QED BY <1>2, <1>3, <1>5, <3>1, <3>3, WithoutIs
    <2>2. CASE ~IsCreate(tx)
      <3>1. Conserves(i, o)
        BY <1>1, <2>2 DEF Applicable, Conserved
      <3>2. QED BY <1>2, <1>3, <1>5, <3>1, ConservesIs
    <2>3. QED BY <2>1, <2>2
  <1>6. QED BY <1>4, <1>5

\* The value of each unspent output, and the sums the property speaks of.
ValueOf(utxos, a) == [key \in DOMAIN utxos |-> HeldOf(a, utxos[key].output.assets)]
UnspentIn(utxos, a) ==
    MapThenSumSet(LAMBDA key : HeldBy(utxos[key].output, a), DOMAIN utxos)

CreationsIn(j, a) == {i \in DOMAIN j : IsCreate(j[i].tx) /\ AssetIdOf(j[i].tx, ChainId) = a}
IssuedIn(j, a) == MapThenSumSet(LAMBDA i : j[i].tx.core.kind.initial_supply, CreationsIn(j, a))

\* What is unspent is the sum of these values.
LEMMA UnspentIs ==
    ASSUME NEW utxos, IsFiniteSet(DOMAIN utxos), NEW a
    PROVE  UnspentIn(utxos, a) = SumOf(ValueOf(utxos, a), DOMAIN utxos)
  <1>1. PICK f, S : f = ValueOf(utxos, a) /\ S = DOMAIN utxos
    OBVIOUS
  <1>2. \A key \in S : f[key] = HeldBy(utxos[key].output, a)
    BY <1>1 DEF ValueOf, HeldBy, HeldOf
  <1> DEFINE Body(g) == [s \in SUBSET S |->
                            IF s = {} THEN 0
                            ELSE HeldBy(utxos[Pick(s)].output, a) + g[s \ {Pick(s)}]]
             it == CHOOSE g : g = Body(g)
  <1>3. \A s \in SUBSET S : s # {} => f[Pick(s)] = HeldBy(utxos[Pick(s)].output, a)
    BY <1>2, Picked
  <1>4. PICK g : Sums(g, f, S)
    BY <1>1, SumsExist
  <1>5. g = Body(g)
    BY <1>3, <1>4 DEF Sums
  <1>6. it = Body(it)
    BY <1>5
  <1>7. UnspentIn(utxos, a) = it[S]
    BY <1>1 DEF UnspentIn, MapThenSumSet, MapThenFoldSet, Pick
  <1> HIDE DEF it
  <1>8. Sums(it, f, S)
    <2>1. it = [s \in SUBSET S |-> it[s]]
      BY <1>6
    <2>2. ASSUME NEW s \in SUBSET S
          PROVE  it[s] = IF s = {} THEN 0 ELSE f[Pick(s)] + it[s \ {Pick(s)}]
      BY <1>3, <1>6
    <2>3. QED BY <2>1, <2>2 DEF Sums
  <1>9. SumOf(f, S) = it[S]
    <2>1. IsFiniteSet(S) /\ S \subseteq S /\ \A x \in S : f[x] = f[x]
      BY <1>1
    <2>2. QED BY <1>8, <2>1, SumOfIs
  <1>10. QED BY <1>1, <1>7, <1>9

\* What was issued of an asset that was created once, or never.
LEMMA IssuedIs ==
    ASSUME NEW j, NEW a
    PROVE  /\ CreationsIn(j, a) = {} => IssuedIn(j, a) = 0
           /\ \A i : /\ CreationsIn(j, a) = {i} /\ j[i].tx.core.kind.initial_supply \in Nat
                     => IssuedIn(j, a) = j[i].tx.core.kind.initial_supply
  <1>0. PICK S : S = CreationsIn(j, a)
    OBVIOUS
  <1> SUFFICES ASSUME S = {} \/ \E i : S = {i} /\ j[i].tx.core.kind.initial_supply \in Nat
               PROVE  /\ S = {} => IssuedIn(j, a) = 0
                      /\ \A i : S = {i} /\ j[i].tx.core.kind.initial_supply \in Nat
                                => IssuedIn(j, a) = j[i].tx.core.kind.initial_supply
    BY <1>0
  <1>1. PICK f : f = [i \in S |-> j[i].tx.core.kind.initial_supply]
    OBVIOUS
  <1>2. IsFiniteSet(S)
    <2>1. CASE S = {}
      BY <2>1, FS_EmptySet
    <2>2. ASSUME NEW i, S = {i} PROVE IsFiniteSet(S)
      BY <2>2, FS_Singleton
    <2>3. QED BY <2>1, <2>2
  <1> DEFINE Body(g) == [s \in SUBSET S |->
                            IF s = {} THEN 0
                            ELSE j[Pick(s)].tx.core.kind.initial_supply + g[s \ {Pick(s)}]]
             it == CHOOSE g : g = Body(g)
  <1>3. \A s \in SUBSET S : s # {} => f[Pick(s)] = j[Pick(s)].tx.core.kind.initial_supply
    BY <1>1, Picked
  <1>4. PICK g : Sums(g, f, S)
    BY <1>2, SumsExist
  <1>5. g = Body(g)
    BY <1>3, <1>4 DEF Sums
  <1>6. it = Body(it)
    BY <1>5
  <1>7. IssuedIn(j, a) = it[S]
    BY <1>0 DEF IssuedIn, MapThenSumSet, MapThenFoldSet, Pick
  <1> HIDE DEF it
  <1>8. it[{}] = 0
    <2>1. {} \in SUBSET S
      OBVIOUS
    <2>2. QED BY <1>6, <2>1
  <1>9. ASSUME NEW i, S = {i}, j[i].tx.core.kind.initial_supply \in Nat
        PROVE  it[S] = j[i].tx.core.kind.initial_supply
    <2>1. S \in SUBSET S /\ S # {} /\ Pick(S) = i /\ S \ {i} = {}
      BY <1>9, Picked
    <2>2. it[S] = j[i].tx.core.kind.initial_supply + it[{}]
      BY <1>6, <2>1
    <2>3. QED BY <1>8, <1>9, <2>2
  <1>10. QED BY <1>7, <1>8, <1>9

-----------------------------------------------------------------------------
(***************************************************************************)
(* Supply is conserved.                                                    *)
(*                                                                         *)
(* A transaction takes its inputs out of the sum and puts its outputs into *)
(* it.  Two things could go wrong.  An output could replace one that is    *)
(* there; but then the transaction is applied again, and makes no value.   *)
(* And totals that are equal modulo the width of an amount could differ;   *)
(* but what the inputs hold was issued, so it fits, and of the outputs it  *)
(* is assumed.                                                             *)
(***************************************************************************)
\* No sum of an asset over the outputs of a transaction exceeds the width of an
\* amount.
SumsBelow(tx) ==
    \A x \in ToSet(OutputAssets(tx)) : HeldOf(x.asset_id, OutputAssets(tx)) < AmountMod
OutputsFit == \A tx \in Candidates(ledger) : SumsBelow(tx)

\* Then no sum of any asset does, and none vanishes.
LEMMA Fitting ==
    ASSUME NEW tx, IsTransaction(tx), SumsBelow(tx)
    PROVE  /\ IsAmounts(OutputAssets(tx)) /\ NothingVanishes(tx)
           /\ \A a : HeldOf(a, OutputAssets(tx)) < AmountMod
  <1>1. PICK s : s = OutputAssets(tx)
    OBVIOUS
  <1>2. IsAmounts(s)
    <2>1. PICK a, h : h = [i \in DOMAIN tx.core.outputs |-> HeldOf(a, tx.core.outputs[i].assets)]
      OBVIOUS
    <2>2. \A i \in DOMAIN tx.core.outputs : h[i] = HeldOf(a, tx.core.outputs[i].assets)
      BY <2>1
    <2>3. QED BY <1>1, <2>2, OutputsHold
  <1>3. ASSUME NEW a PROVE HeldOf(a, s) < AmountMod
    <2>1. CASE \E x \in ToSet(s) : x.asset_id = a
      BY <1>1, <2>1 DEF SumsBelow
    <2>2. CASE ~(\E x \in ToSet(s) : x.asset_id = a)
      <3>1. HeldOf(a, s) = 0
        BY <1>2, <2>2, HeldNone
      <3>2. QED BY <3>1, AmountModAssumption
    <2>3. QED BY <2>1, <2>2
  <1>4. ASSUME NEW i \in DOMAIN tx.core.outputs, NEW x \in ToSet(tx.core.outputs[i].assets),
               x.amount > 0
        PROVE  TotalOf(x.asset_id, s) # 0
    <2>1. x \in ToSet(s)
      BY <1>1, OutputsJoined DEF IsTransaction, IsOutput
    <2>2. PICK c : c = HeldOf(x.asset_id, s)
      OBVIOUS
    <2>3. c >= x.amount /\ x.amount \in Nat
      BY <1>2, <2>1, <2>2, HeldSome DEF IsAmounts
    <2>4. c \in Nat /\ c < AmountMod /\ TotalOf(x.asset_id, s) = c % AmountMod
      BY <1>2, <1>3, <2>2, HeldIs
    <2>5. c % AmountMod = c
      BY <2>4, AmountModAssumption
    <2>6. QED BY <1>4, <2>3, <2>4, <2>5
  <1>5. NothingVanishes(tx)
    BY <1>1, <1>4 DEF NothingVanishes
  <1>6. QED BY <1>1, <1>2, <1>3, <1>5

\* The keys of the outputs of a transaction, and the keys it spends.
OutputKeys(tx) == [i \in DOMAIN tx.core.outputs |-> UtxoKey(TxId(tx), i - 1)]
MadeKeys(tx) == Image(OutputKeys(tx), DOMAIN tx.core.outputs)
SpentKeys(tx) == Image(tx.core.inputs, DOMAIN tx.core.inputs)

\* Different outputs have different keys, each made by the transaction.
LEMMA KeysDiffer ==
    ASSUME NEW tx, IsTransaction(tx)
    PROVE  /\ \A i, k \in DOMAIN tx.core.outputs : OutputKeys(tx)[i] = OutputKeys(tx)[k] => i = k
           /\ \A i \in DOMAIN tx.core.outputs : /\ OutputKeys(tx)[i].index + 1 = i
                                                /\ MadeBy(OutputKeys(tx)[i], tx)
  <1>1. PICK n \in Nat : DOMAIN tx.core.outputs = 1..n
    BY ListDomain DEF IsTransaction
  <1>2. ASSUME NEW i \in DOMAIN tx.core.outputs
        PROVE  OutputKeys(tx)[i].index + 1 = i /\ MadeBy(OutputKeys(tx)[i], tx)
    <2>1. OutputKeys(tx)[i] = UtxoKey(TxId(tx), i - 1)
      BY DEF OutputKeys
    <2>2. OutputKeys(tx)[i].tx_id = TxId(tx) /\ OutputKeys(tx)[i].index = i - 1
      BY <2>1 DEF UtxoKey, TransactionInput
    <2>3. (i - 1) + 1 = i
      BY <1>1
    <2>4. QED BY <2>2, <2>3 DEF MadeBy
  <1>3. \A i, k \in DOMAIN tx.core.outputs : OutputKeys(tx)[i] = OutputKeys(tx)[k] => i = k
    BY <1>2
  <1>4. QED BY <1>2, <1>3

\* The unspent outputs new follow the outputs utxos when tx is applied.
Follows(new, utxos, tx) ==
    /\ DOMAIN new = (DOMAIN utxos \ SpentKeys(tx)) \cup MadeKeys(tx)
    /\ \A key \in (DOMAIN utxos \ SpentKeys(tx)) \ MadeKeys(tx) : new[key] = utxos[key]
    /\ \A i \in DOMAIN tx.core.outputs : new[OutputKeys(tx)[i]].output = tx.core.outputs[i]

\* What spending and creating does to the outputs that are there.
LEMMA Spending ==
    ASSUME NEW utxos, NEW tx, IsTransaction(tx), NEW h
    PROVE  Follows(SpendAndCreate(utxos, tx, h), utxos, tx)
  <1>1. PICK C, N : C = SpentKeys(tx) /\ N = MadeKeys(tx)
    OBVIOUS
  <1>2. C = {tx.core.inputs[i] : i \in DOMAIN tx.core.inputs}
    BY <1>1 DEF SpentKeys, Image
  <1>3. N = {UtxoKey(TxId(tx), i - 1) : i \in DOMAIN tx.core.outputs}
    <2>1. \A i \in DOMAIN tx.core.outputs : OutputKeys(tx)[i] = UtxoKey(TxId(tx), i - 1)
      BY DEF OutputKeys
    <2>2. QED BY <1>1, <2>1 DEF MadeKeys, Image
  <1>4. PICK new : new = SpendAndCreate(utxos, tx, h)
    OBVIOUS
  <1>5. new = [k \in (DOMAIN utxos \ C) \cup N |->
                  IF k \in N THEN [output |-> tx.core.outputs[k.index + 1], created_height |-> h]
                  ELSE utxos[k]]
    BY <1>2, <1>3, <1>4 DEF SpendAndCreate
  <1>6. ASSUME NEW i \in DOMAIN tx.core.outputs
        PROVE  new[OutputKeys(tx)[i]].output = tx.core.outputs[i]
    <2>1. PICK key : key = OutputKeys(tx)[i]
      OBVIOUS
    <2>2. key \in N
      BY <1>1, <2>1 DEF MadeKeys, Image
    <2>3. key.index + 1 = i
      BY <2>1, KeysDiffer
    <2>4. new[key] = [output |-> tx.core.outputs[key.index + 1], created_height |-> h]
      BY <1>5, <2>2
    <2>5. QED BY <2>1, <2>3, <2>4
  <1>7. DOMAIN new = (DOMAIN utxos \ C) \cup N
    BY <1>5
  <1>8. \A key \in (DOMAIN utxos \ C) \ N : new[key] = utxos[key]
    BY <1>5
  <1>9. QED BY <1>1, <1>4, <1>6, <1>7, <1>8 DEF Follows

\* The inputs of an accepted transaction are different and there.
LEMMA InputsDiffer ==
    ASSUME LedgerInv, NEW tx, Accepted(tx)
    PROVE  /\ \A i, k \in DOMAIN tx.core.inputs : tx.core.inputs[i] = tx.core.inputs[k] => i = k
           /\ SpentKeys(tx) \subseteq DOMAIN ledger.utxos
  <1>1. PICK n \in Nat : DOMAIN tx.core.inputs = 1..n
    BY ListDomain DEF Accepted, IsTransaction
  <1>2. ASSUME NEW i \in 1..n, NEW k \in 1..n, k < i PROVE tx.core.inputs[i] # tx.core.inputs[k]
    <2>1. CheckInput(ledger, tx, i, height, ChainId) = "ok"
      BY <1>1, InputsPass DEF Accepted, Applicable, IsTransaction
    <2>2. ~(\E j \in 1..(i - 1) : tx.core.inputs[j] = tx.core.inputs[i])
      BY <2>1 DEF CheckInput
    <2>3. k \in 1..(i - 1)
      BY <1>2
    <2>4. QED BY <2>2, <2>3
  <1>3. \A i, k \in 1..n : i = k \/ k < i \/ i < k
    OBVIOUS
  <1>4. \A i, k \in 1..n : tx.core.inputs[i] = tx.core.inputs[k] => i = k
    BY <1>2, <1>3
  <1>5. SpentKeys(tx) \subseteq DOMAIN ledger.utxos
    BY InputsThere DEF SpentKeys, Image
  <1>6. QED BY <1>1, <1>4, <1>5

\* A list of amounts without value holds nothing.
LEMMA NoValue ==
    ASSUME NEW output, IsOutput(output), ~Positive(output), NEW a
    PROVE  HeldOf(a, output.assets) = 0
  <1>1. PICK s : s = output.assets
    OBVIOUS
  <1>2. IsAmounts(s) /\ \A x \in ToSet(s) : ~(x.amount > 0) /\ x.amount \in Nat
    BY <1>1 DEF IsOutput, IsAmounts, Positive
  <1>3. \A x \in ToSet(s) : x.asset_id = a => x.amount = 0
    BY <1>2
  <1>4. HeldOf(a, s) = 0
    BY <1>2, <1>3, HeldNone
  <1>5. QED BY <1>1, <1>4

\* The values of the unspent outputs are naturals.
LEMMA ValuesAre ==
    ASSUME NEW utxos, \A key \in DOMAIN utxos : IsOutput(utxos[key].output), NEW a
    PROVE  \A key \in DOMAIN utxos : /\ ValueOf(utxos, a)[key] = HeldOf(a, utxos[key].output.assets)
                                     /\ ValueOf(utxos, a)[key] \in Nat
  <1> SUFFICES ASSUME NEW key \in DOMAIN utxos
               PROVE  /\ ValueOf(utxos, a)[key] = HeldOf(a, utxos[key].output.assets)
                      /\ ValueOf(utxos, a)[key] \in Nat
    OBVIOUS
  <1>1. ValueOf(utxos, a)[key] = HeldOf(a, utxos[key].output.assets)
    BY DEF ValueOf
  <1>2. PICK s : s = utxos[key].output.assets
    OBVIOUS
  <1>3. IsAmounts(s)
    BY <1>2 DEF IsOutput, IsAmounts
  <1>4. HeldOf(a, s) \in Nat
    BY <1>3, HeldIs
  <1>5. QED BY <1>1, <1>2, <1>4

\* An accepted transaction changes what is unspent by the difference of what its
\* outputs and its inputs hold, and its inputs hold at most what is unspent.
LEMMA UnspentNext ==
    ASSUME LedgerInv, IsFiniteSet(DOMAIN ledger.utxos), NEW tx, Accepted(tx), NEW a
    PROVE  LET new == SpendAndCreate(ledger.utxos, tx, height)
               in  == HeldOf(a, InputAssets(ledger, tx))
               out == HeldOf(a, OutputAssets(tx))
           IN  /\ IsFiniteSet(DOMAIN new) /\ in \in Nat /\ out \in Nat
               /\ UnspentIn(new, a) \in Nat /\ UnspentIn(ledger.utxos, a) \in Nat
               /\ UnspentIn(new, a) + in = UnspentIn(ledger.utxos, a) + out
               /\ in <= UnspentIn(ledger.utxos, a)
               /\ IsAmounts(InputAssets(ledger, tx)) /\ IsAmounts(OutputAssets(tx))
  <1>0. IsTransaction(tx)
    BY DEF Accepted
  <1>1. PICK U, new : U = ledger.utxos /\ new = SpendAndCreate(ledger.utxos, tx, height)
    OBVIOUS
  <1>2. PICK D, C, N : D = DOMAIN U /\ C = SpentKeys(tx) /\ N = MadeKeys(tx)
    OBVIOUS
  <1>3. /\ DOMAIN new = (D \ C) \cup N
        /\ \A key \in (D \ C) \ N : new[key] = U[key]
        /\ \A i \in DOMAIN tx.core.outputs : new[OutputKeys(tx)[i]].output = tx.core.outputs[i]
    <2>1. new = SpendAndCreate(U, tx, height)
      BY <1>1
    <2>2. Follows(new, U, tx)
      BY <1>0, <2>1, Spending
    <2>3. QED BY <1>2, <2>2 DEF Follows
  <1>4. /\ \A i, k \in DOMAIN tx.core.inputs : tx.core.inputs[i] = tx.core.inputs[k] => i = k
        /\ C \subseteq D
    BY <1>1, <1>2, InputsDiffer
  <1>5. /\ \A i, k \in DOMAIN tx.core.outputs : OutputKeys(tx)[i] = OutputKeys(tx)[k] => i = k
        /\ \A i \in DOMAIN tx.core.outputs : MadeBy(OutputKeys(tx)[i], tx)
    BY <1>0, KeysDiffer
  <1>6. PICK O, R : O = (D \ C) \cap N /\ R = (D \ C) \ N
    OBVIOUS
  <1>7. IsFiniteSet(D)
    BY <1>1, <1>2
  <1>8. IsFiniteSet(DOMAIN tx.core.inputs) /\ IsFiniteSet(DOMAIN tx.core.outputs)
    <2>1. PICK m, n \in Nat : DOMAIN tx.core.inputs = 1..m /\ DOMAIN tx.core.outputs = 1..n
      BY <1>0, ListDomain DEF IsTransaction
    <2>2. IsFiniteSet(1..m) /\ IsFiniteSet(1..n)
      BY FS_Interval
    <2>3. QED BY <2>1, <2>2
  <1>9. \A key \in D : IsOutput(U[key].output)
    BY <1>1, <1>2, GenuineOutput DEF LedgerInv
  <1>10. PICK old, now : old = ValueOf(U, a) /\ now = ValueOf(new, a)
    OBVIOUS
  <1>11. \A key \in D : old[key] = HeldOf(a, U[key].output.assets) /\ old[key] \in Nat
    BY <1>2, <1>9, <1>10, ValuesAre
  <1>12. ASSUME NEW key \in DOMAIN new PROVE IsOutput(new[key].output)
    <2>1. CASE key \in N
      <3>1. PICK i \in DOMAIN tx.core.outputs : key = OutputKeys(tx)[i]
        BY <1>2, <2>1 DEF MadeKeys, Image
      <3>2. QED BY <1>0, <1>3, <3>1 DEF IsTransaction
    <2>2. CASE key \notin N
      BY <1>3, <1>9, <1>12, <2>2
    <2>3. QED BY <2>1, <2>2
  <1>13. \A key \in DOMAIN new : now[key] = HeldOf(a, new[key].output.assets) /\ now[key] \in Nat
    BY <1>10, <1>12, ValuesAre
  \* The inputs.
  <1>14. PICK hin :
            hin = [i \in DOMAIN tx.core.inputs |-> HeldOf(a, U[tx.core.inputs[i]].output.assets)]
    OBVIOUS
  <1>15. ASSUME NEW i \in DOMAIN tx.core.inputs
         PROVE  /\ hin[i] = HeldOf(a, U[tx.core.inputs[i]].output.assets)
                /\ hin[i] \in Nat /\ old[tx.core.inputs[i]] = hin[i]
                /\ IsOutput(U[tx.core.inputs[i]].output)
    <2>1. tx.core.inputs[i] \in D
      BY <1>2, <1>4 DEF SpentKeys, Image
    <2>2. QED BY <1>9, <1>11, <1>14, <2>1
  <1>16. /\ IsAmounts(InputAssets(ledger, tx))
         /\ HeldOf(a, InputAssets(ledger, tx)) = SumOf(hin, DOMAIN tx.core.inputs)
    <2>1. \A i \in DOMAIN tx.core.inputs :
             /\ IsOutput(ledger.utxos[tx.core.inputs[i]].output)
             /\ hin[i] = HeldOf(a, ledger.utxos[tx.core.inputs[i]].output.assets)
      BY <1>1, <1>15
    <2>2. PICK l : l = ledger
      OBVIOUS
    <2>3. /\ \A i \in DOMAIN tx.core.inputs : IsOutput(l.utxos[tx.core.inputs[i]].output)
          /\ \A i \in DOMAIN tx.core.inputs :
                hin[i] = HeldOf(a, l.utxos[tx.core.inputs[i]].output.assets)
      BY <2>1, <2>2
    <2>4. /\ IsAmounts(InputAssets(l, tx))
          /\ HeldOf(a, InputAssets(l, tx)) = SumOf(hin, DOMAIN tx.core.inputs)
      BY <1>0, <2>3, InputsHold
    <2>5. QED BY <2>2, <2>4
  <1>17. SumOf(old, C) = SumOf(hin, DOMAIN tx.core.inputs)
    <2>1. PICK b, S : b = tx.core.inputs /\ S = DOMAIN tx.core.inputs
      OBVIOUS
    <2>2. IsFiniteSet(S) /\ \A i, k \in S : b[i] = b[k] => i = k
      BY <1>4, <1>8, <2>1
    <2>3. \A i \in S : hin[i] \in Nat /\ old[b[i]] = hin[i]
      BY <1>15, <2>1
    <2>4. SumOf(old, Image(b, S)) = SumOf(hin, S)
      BY <2>2, <2>3, SumOfImage
    <2>5. QED BY <1>2, <2>1, <2>4 DEF SpentKeys
  \* The outputs.
  <1>18. PICK hout : hout = [i \in DOMAIN tx.core.outputs |-> HeldOf(a, tx.core.outputs[i].assets)]
    OBVIOUS
  <1>19. ASSUME NEW i \in DOMAIN tx.core.outputs
         PROVE  /\ hout[i] = HeldOf(a, tx.core.outputs[i].assets)
                /\ hout[i] \in Nat /\ now[OutputKeys(tx)[i]] = hout[i]
    <2>1. OutputKeys(tx)[i] \in DOMAIN new
      BY <1>2, <1>3 DEF MadeKeys, Image
    <2>2. QED BY <1>3, <1>13, <1>18, <2>1
  <1>20. /\ IsAmounts(OutputAssets(tx))
         /\ HeldOf(a, OutputAssets(tx)) = SumOf(hout, DOMAIN tx.core.outputs)
    BY <1>0, <1>19, OutputsHold
  <1>21. IsFiniteSet(N) /\ SumOf(now, N) = SumOf(hout, DOMAIN tx.core.outputs)
    BY <1>2, <1>5, <1>8, <1>19, SumOfImage DEF MadeKeys
  \* The sums over all.
  <1>22. IsFiniteSet(D \ C) /\ IsFiniteSet(DOMAIN new)
    <2>1. IsFiniteSet(D \ C)
      BY <1>7, FS_Difference
    <2>2. IsFiniteSet((D \ C) \cup N)
      BY <1>21, <2>1, FS_Union
    <2>3. QED BY <1>3, <2>1, <2>2
  <1>23. /\ SumOf(old, D) = SumOf(old, C) + SumOf(old, D \ C)
         /\ SumOf(old, C) \in Nat /\ SumOf(old, D \ C) \in Nat
    BY <1>4, <1>7, <1>11, SumOfParts
  <1>24. /\ SumOf(old, D \ C) = SumOf(old, O) + SumOf(old, R)
         /\ SumOf(old, O) \in Nat /\ SumOf(old, R) \in Nat
    <2>1. O \in SUBSET (D \ C) /\ (D \ C) \ O = R /\ \A key \in D \ C : old[key] \in Nat
      BY <1>6, <1>11
    <2>2. QED BY <1>22, <2>1, SumOfParts
  <1>25. SumOf(old, O) = 0
    <2>1. IsFiniteSet(O)
      <3>1. O \in SUBSET (D \ C)
        BY <1>6
      <3>2. QED BY <1>22, <3>1, FS_Subset
    <2>2. ASSUME NEW key \in O PROVE old[key] = 0
      <3>1. key \in D /\ key \in N
        BY <1>6
      <3>2. PICK i \in DOMAIN tx.core.outputs : key = OutputKeys(tx)[i]
        BY <1>2, <3>1 DEF MadeKeys, Image
      <3>3. MadeBy(key, tx)
        BY <1>5, <3>2
      <3>4. Genuine(key) /\ U[key].output = OutputOf(key)
        BY <1>1, <1>2, <3>1 DEF LedgerInv
      <3>5. PICK j \in DOMAIN journal : MadeBy(key, journal[j].tx)
        BY <3>4 DEF Genuine
      <3>6. TxId(tx) = TxId(journal[j].tx) /\ key.index + 1 \in DOMAIN tx.core.outputs
        BY <3>3, <3>5 DEF MadeBy
      <3>7. ~Positive(tx.core.outputs[key.index + 1])
        BY <3>6, AgainWithoutValue
      <3>8. ~Positive(U[key].output) /\ IsOutput(U[key].output)
        BY <1>9, <3>1, <3>3, <3>4, <3>7, KeyNames
      <3>9. HeldOf(a, U[key].output.assets) = 0
        BY <3>8, NoValue
      <3>10. QED BY <1>11, <3>1, <3>9
    <2>3. QED BY <2>1, <2>2, SumOfZeros
  <1>26. /\ SumOf(now, DOMAIN new) = SumOf(now, N) + SumOf(now, R)
         /\ SumOf(now, N) \in Nat /\ SumOf(now, R) \in Nat
    <2>1. N \in SUBSET (DOMAIN new) /\ (DOMAIN new) \ N = R
      BY <1>3, <1>6
    <2>2. QED BY <1>13, <1>22, <2>1, SumOfParts
  <1>27. SumOf(now, R) = SumOf(old, R)
    <2>1. IsFiniteSet(R)
      <3>1. R \in SUBSET (D \ C)
        BY <1>6
      <3>2. QED BY <1>22, <3>1, FS_Subset
    <2>2. ASSUME NEW key \in R PROVE now[key] = old[key]
      <3>1. key \in D /\ key \in DOMAIN new /\ new[key] = U[key]
        BY <1>3, <1>6
      <3>2. QED BY <1>11, <1>13, <3>1
    <2>3. QED BY <2>1, <2>2, SumOfSame
  <1>28. UnspentIn(U, a) = SumOf(old, D) /\ UnspentIn(new, a) = SumOf(now, DOMAIN new)
    BY <1>2, <1>7, <1>10, <1>22, UnspentIs
  <1>29. PICK in, out, rest : /\ in = SumOf(old, C) /\ out = SumOf(now, N) /\ rest = SumOf(old, R)
                              /\ in \in Nat /\ out \in Nat /\ rest \in Nat
    BY <1>23, <1>24, <1>26
  <1>30. UnspentIn(U, a) = in + rest /\ UnspentIn(new, a) = out + rest
    BY <1>23, <1>24, <1>25, <1>26, <1>27, <1>28, <1>29
  <1>31. in = HeldOf(a, InputAssets(ledger, tx)) /\ out = HeldOf(a, OutputAssets(tx))
    BY <1>16, <1>17, <1>20, <1>21, <1>29
  <1>32. /\ UnspentIn(new, a) \in Nat /\ UnspentIn(U, a) \in Nat
         /\ UnspentIn(new, a) + in = UnspentIn(U, a) + out /\ in <= UnspentIn(U, a)
    BY <1>29, <1>30
  <1>33. QED BY <1>1, <1>16, <1>20, <1>22, <1>29, <1>31, <1>32

\* An asset was created by no entry of the journal, or by one that kept to its
\* initial supply and its maximum.
OnceIssued(j, a) ==
    \/ CreationsIn(j, a) = {}
    \/ \E i \in DOMAIN j : CreationsIn(j, a) = {i} /\ MintedOnly(j[i].tx)

\* What was issued then fits an amount.
LEMMA IssuedFits ==
    ASSUME NEW j, NEW a, OnceIssued(j, a)
    PROVE  /\ IssuedIn(j, a) \in Nat /\ IssuedIn(j, a) < AmountMod
           /\ CreationsIn(j, a) = {} => IssuedIn(j, a) = 0
           /\ \A i \in CreationsIn(j, a) :
                 /\ CreationsIn(j, a) = {i} /\ MintedOnly(j[i].tx)
                 /\ IssuedIn(j, a) = j[i].tx.core.kind.initial_supply
  <1>1. CASE CreationsIn(j, a) = {}
    <2>1. IssuedIn(j, a) = 0
      BY <1>1, IssuedIs
    <2>2. QED BY <1>1, <2>1, AmountModAssumption
  <1>2. ASSUME NEW i \in DOMAIN j, CreationsIn(j, a) = {i}, MintedOnly(j[i].tx)
        PROVE  /\ IssuedIn(j, a) \in Nat /\ IssuedIn(j, a) < AmountMod
               /\ IssuedIn(j, a) = j[i].tx.core.kind.initial_supply
    <2>1. PICK supply : supply = j[i].tx.core.kind.initial_supply
      OBVIOUS
    <2>2. supply \in 0..(AmountMod - 1)
      BY <1>2, <2>1 DEF MintedOnly
    <2>3. supply \in Nat /\ supply < AmountMod
      BY <2>2, AmountModAssumption
    <2>4. IssuedIn(j, a) = supply
      BY <1>2, <2>1, <2>3, IssuedIs
    <2>5. QED BY <2>1, <2>3, <2>4
  <1>3. QED BY <1>1, <1>2 DEF OnceIssued

\* It depends on the creations alone.
LEMMA IssuedSame ==
    ASSUME NEW j, NEW k, NEW a, OnceIssued(j, a), CreationsIn(k, a) = CreationsIn(j, a),
           \A i \in DOMAIN j : i \in DOMAIN k /\ k[i].tx = j[i].tx
    PROVE  OnceIssued(k, a) /\ IssuedIn(k, a) = IssuedIn(j, a)
  <1>1. OnceIssued(k, a)
    BY DEF OnceIssued
  <1>2. CASE CreationsIn(j, a) = {}
    <2>1. IssuedIn(j, a) = 0 /\ IssuedIn(k, a) = 0
      BY <1>1, <1>2, IssuedFits
    <2>2. QED BY <1>1, <2>1
  <1>3. ASSUME NEW i \in DOMAIN j, CreationsIn(j, a) = {i}
        PROVE  IssuedIn(k, a) = IssuedIn(j, a)
    <2>1. i \in CreationsIn(j, a) /\ i \in CreationsIn(k, a) /\ k[i].tx = j[i].tx
      BY <1>3
    <2>2. IssuedIn(j, a) = j[i].tx.core.kind.initial_supply
      BY <2>1, IssuedFits
    <2>3. IssuedIn(k, a) = k[i].tx.core.kind.initial_supply
      BY <1>1, <2>1, IssuedFits
    <2>4. QED BY <2>1, <2>2, <2>3
  <1>4. QED BY <1>1, <1>2, <1>3 DEF OnceIssued

\* What is unspent of every asset is what was issued of it.
Backed(utxos, j, a) == OnceIssued(j, a) /\ UnspentIn(utxos, a) = IssuedIn(j, a)

SupplyInv ==
    /\ IsFiniteSet(DOMAIN ledger.utxos)
    /\ \A a : Backed(ledger.utxos, journal, a)

\* That is what SupplyConserved says of the assets that occur.
LEMMA SupplyIsConserved == SupplyInv => SupplyConserved
  <1> SUFFICES ASSUME SupplyInv, NEW a
               PROVE  /\ Cardinality(Creations(a)) <= 1
                      /\ Unspent(a) = Issued(a)
                      /\ \A i \in Creations(a) :
                            LET max == journal[i].tx.core.kind.definition.max_supply
                            IN  max # None => Unspent(a) <= max[1]
    BY DEF SupplyConserved
  <1>1. Creations(a) = CreationsIn(journal, a)
    BY DEF Creations, CreationsIn, AssetIdOf
  <1>2. Issued(a) = IssuedIn(journal, a)
    BY DEF Issued, IssuedIn, Creations, CreationsIn, AssetIdOf, MapThenSumSet, MapThenFoldSet
  <1>3. Unspent(a) = UnspentIn(ledger.utxos, a)
    BY DEF Unspent, UnspentIn, MapThenSumSet, MapThenFoldSet
  <1>4. OnceIssued(journal, a) /\ UnspentIn(ledger.utxos, a) = IssuedIn(journal, a)
    BY DEF SupplyInv, Backed
  <1>5. Cardinality(CreationsIn(journal, a)) <= 1
    <2>1. CASE CreationsIn(journal, a) = {}
      <3>1. Cardinality({}) = 0
        BY FS_EmptySet
      <3>2. QED BY <2>1, <3>1
    <2>2. ASSUME NEW i, CreationsIn(journal, a) = {i}
          PROVE  Cardinality(CreationsIn(journal, a)) <= 1
      <3>1. Cardinality({i}) = 1
        BY FS_Singleton
      <3>2. QED BY <2>2, <3>1
    <2>3. QED BY <1>4, <2>1, <2>2 DEF OnceIssued
  <1>6. ASSUME NEW i \in CreationsIn(journal, a)
        PROVE  LET max == journal[i].tx.core.kind.definition.max_supply
               IN  max # None => Unspent(a) <= max[1]
    <2>1. /\ MintedOnly(journal[i].tx)
          /\ IssuedIn(journal, a) = journal[i].tx.core.kind.initial_supply
      BY <1>4, IssuedFits
    <2>2. QED BY <1>3, <1>4, <2>1 DEF MintedOnly
  <1>7. QED BY <1>1, <1>2, <1>3, <1>4, <1>5, <1>6

\* The creations of a journal with one more entry.
LEMMA CreationsNext ==
    ASSUME NEW j, NEW k, NEW e, OneMore(j, e, k), NEW a
    PROVE  CreationsIn(k, a) = CreationsIn(j, a)
              \cup (IF IsCreate(e.tx) /\ AssetIdOf(e.tx, ChainId) = a THEN {Len(j) + 1} ELSE {})
  <1>1. PICK n \in Nat : n = Len(j)
    BY DEF OneMore
  <1>2. /\ DOMAIN j = 1..n /\ DOMAIN k = 1..(n + 1) /\ k[n + 1] = e
        /\ \A i \in 1..n : k[i] = j[i]
    BY <1>1 DEF OneMore
  <1>3. \A i : i \in 1..(n + 1) <=> i \in 1..n \/ i = n + 1
    OBVIOUS
  <1>4. n + 1 \notin 1..n
    OBVIOUS
  <1>5. QED BY <1>1, <1>2, <1>3, <1>4 DEF CreationsIn

\* Totals that fit are what the list holds.
LEMMA TotalFits ==
    ASSUME NEW a, NEW s, IsAmounts(s), HeldOf(a, s) < AmountMod
    PROVE  TotalOf(a, s) = HeldOf(a, s)
  <1>1. PICK c : c = HeldOf(a, s)
    OBVIOUS
  <1>2. c \in Nat /\ c < AmountMod /\ TotalOf(a, s) = c % AmountMod
    BY <1>1, HeldIs
  <1>3. c % AmountMod = c
    BY <1>2, AmountModAssumption
  <1>4. QED BY <1>1, <1>2, <1>3

\* A transaction that is accepted keeps every asset backed.
LEMMA BackedNext ==
    ASSUME LedgerInv, SupplyInv, NEW tx, Accepted(tx), SumsBelow(tx),
           NEW k, OneMore(journal, Record(tx), k), NEW a
    PROVE  Backed(SpendAndCreate(ledger.utxos, tx, height), k, a)
  <1>0. IsTransaction(tx) /\ Applicable(ledger, tx, height, ChainId)
    BY DEF Accepted
  <1>1. PICK new, in, out : /\ new = SpendAndCreate(ledger.utxos, tx, height)
                            /\ in = HeldOf(a, InputAssets(ledger, tx))
                            /\ out = HeldOf(a, OutputAssets(tx))
    OBVIOUS
  <1>2. PICK old, now : old = UnspentIn(ledger.utxos, a) /\ now = UnspentIn(new, a)
    OBVIOUS
  <1>3. /\ in \in Nat /\ out \in Nat /\ now \in Nat /\ old \in Nat
        /\ now + in = old + out /\ in <= old
        /\ IsAmounts(InputAssets(ledger, tx)) /\ IsAmounts(OutputAssets(tx))
    BY <1>1, <1>2, UnspentNext DEF SupplyInv
  <1>4. OnceIssued(journal, a) /\ old = IssuedIn(journal, a)
    BY <1>2 DEF SupplyInv, Backed
  <1>5. old < AmountMod
    BY <1>4, IssuedFits
  <1>6. in < AmountMod /\ out < AmountMod
    <2>1. in < AmountMod
      BY <1>3, <1>5, AmountModAssumption
    <2>2. out < AmountMod
      BY <1>0, <1>1, Fitting
    <2>3. QED BY <2>1, <2>2
  <1>7. TotalOf(a, InputAssets(ledger, tx)) = in /\ TotalOf(a, OutputAssets(tx)) = out
    BY <1>1, <1>3, <1>6, TotalFits
  <1>8. /\ IsCreate(tx) /\ a = AssetIdOf(tx, ChainId) =>
              in = 0 /\ out = tx.core.kind.initial_supply /\ MintedOnly(tx)
        /\ ~(IsCreate(tx) /\ a = AssetIdOf(tx, ChainId)) => in = out
    BY <1>0, <1>3, <1>7, Balanced
  <1>9. Record(tx).tx = tx
    BY DEF Record
  <1>10. CreationsIn(k, a) = CreationsIn(journal, a)
            \cup (IF IsCreate(tx) /\ AssetIdOf(tx, ChainId) = a THEN {Len(journal) + 1} ELSE {})
    BY <1>9, CreationsNext
  <1>11. CASE IsCreate(tx) /\ a = AssetIdOf(tx, ChainId)
    <2>1. a \notin DOMAIN ledger.assets
      BY <1>0, <1>11 DEF Applicable, CheckNewAsset, AssetIdOf
    <2>2. CreationsIn(journal, a) = {}
      BY <2>1 DEF CreationsIn, LedgerInv, Entry
    <2>3. PICK n : n = Len(journal) + 1 /\ n \in DOMAIN k /\ k[n].tx = tx
      <3>1. PICK m \in Nat : m = Len(journal)
        BY DEF OneMore
      <3>2. DOMAIN k = 1..(m + 1) /\ k[m + 1] = Record(tx)
        BY <3>1 DEF OneMore
      <3>3. m + 1 \in 1..(m + 1)
        OBVIOUS
      <3>4. QED BY <1>9, <3>1, <3>2, <3>3
    <2>4. CreationsIn(k, a) = {n}
      BY <1>10, <1>11, <2>2, <2>3
    <2>5. OnceIssued(k, a)
      BY <1>8, <1>11, <2>3, <2>4 DEF OnceIssued
    <2>6. IssuedIn(k, a) = out
      <3>1. n \in CreationsIn(k, a)
        BY <2>4
      <3>2. IssuedIn(k, a) = k[n].tx.core.kind.initial_supply
        BY <2>5, <3>1, IssuedFits
      <3>3. QED BY <1>8, <1>11, <2>3, <3>2
    <2>7. old = 0
      BY <1>4, <2>2, IssuedFits
    <2>8. now = out
      BY <1>3, <1>8, <1>11, <2>7
    <2>9. QED BY <1>1, <1>2, <2>5, <2>6, <2>8 DEF Backed
  <1>12. CASE ~(IsCreate(tx) /\ a = AssetIdOf(tx, ChainId))
    <2>1. CreationsIn(k, a) = CreationsIn(journal, a)
      BY <1>10, <1>12
    <2>2. \A i \in DOMAIN journal : i \in DOMAIN k /\ k[i].tx = journal[i].tx
      <3>1. PICK m \in Nat : m = Len(journal)
        BY DEF OneMore
      <3>2. /\ DOMAIN journal = 1..m /\ DOMAIN k = 1..(m + 1)
            /\ \A i \in DOMAIN journal : k[i] = journal[i]
        BY <3>1 DEF OneMore
      <3>3. \A i \in 1..m : i \in 1..(m + 1)
        OBVIOUS
      <3>4. QED BY <3>2, <3>3
    <2>3. OnceIssued(k, a) /\ IssuedIn(k, a) = IssuedIn(journal, a)
      BY <1>4, <2>1, <2>2, IssuedSame
    <2>4. now = old
      BY <1>3, <1>8, <1>12
    <2>5. QED BY <1>1, <1>2, <1>4, <2>3, <2>4 DEF Backed
  <1>13. QED BY <1>11, <1>12

\* So does every step.
LEMMA SupplyInvNext ==
    ASSUME LedgerInv, SupplyInv, Typed, OutputsFit, [Next]_vars PROVE SupplyInv'
  <1>1. CASE ledger'.utxos = ledger.utxos /\ journal' = journal
    BY <1>1 DEF SupplyInv
  <1>2. ASSUME NEW tx \in Candidates(ledger), Submit(tx) PROVE SupplyInv'
    <2>1. CASE ~(ledger'.utxos = ledger.utxos /\ journal' = journal)
      <3>1. /\ Applicable(ledger, tx, height, ChainId)
            /\ ledger'.utxos = SpendAndCreate(ledger.utxos, tx, height)
            /\ journal' = Append(journal, Record(tx))
        BY <1>2, <2>1, SubmitIs DEF LedgerInv
      <3>2. IsTransaction(tx) /\ SumsBelow(tx)
        BY <1>2 DEF Typed, OutputsFit
      <3>3. Accepted(tx)
        BY <3>1, <3>2, Fitting DEF Accepted
      <3>4. IsFiniteSet(DOMAIN ledger'.utxos)
        BY <3>1, <3>3, UnspentNext DEF SupplyInv
      <3>5. PICK k : k = journal'
        OBVIOUS
      <3>6. OneMore(journal, Record(tx), k)
        BY <3>1, <3>5, AppendList DEF LedgerInv
      <3>7. \A a : Backed(ledger'.utxos, journal', a)
        BY <3>1, <3>2, <3>3, <3>5, <3>6, BackedNext
      <3>8. QED BY <3>4, <3>7 DEF SupplyInv
    <2>2. QED BY <1>1, <2>1
  <1>3. QED BY <1>1, <1>2 DEF Next, NextBlock, vars

\* Nothing is issued and nothing is there at the beginning.
LEMMA SupplyInvInit == Init => SupplyInv
  <1> SUFFICES ASSUME Init, NEW a
               PROVE  IsFiniteSet(DOMAIN ledger.utxos) /\ Backed(ledger.utxos, journal, a)
    BY DEF SupplyInv
  <1>1. DOMAIN ledger.utxos = {} /\ DOMAIN journal = {}
    BY DEF Init, EmptyLedger
  <1>2. IsFiniteSet(DOMAIN ledger.utxos)
    BY <1>1, FS_EmptySet
  <1>3. CreationsIn(journal, a) = {}
    BY <1>1 DEF CreationsIn
  <1>4. OnceIssued(journal, a) /\ IssuedIn(journal, a) = 0
    BY <1>3, IssuedIs DEF OnceIssued
  <1>5. PICK u : u = ledger.utxos
    OBVIOUS
  <1>6. UnspentIn(u, a) = 0
    <2>1. UnspentIn(u, a) = SumOf(ValueOf(u, a), DOMAIN u)
      BY <1>2, <1>5, UnspentIs
    <2>2. PICK f, S : f = ValueOf(u, a) /\ S = DOMAIN u
      OBVIOUS
    <2>3. IsFiniteSet(S) /\ \A x \in S : f[x] = 0
      BY <1>1, <1>2, <1>5, <2>2
    <2>4. SumOf(f, S) = 0
      BY <2>3, SumOfZeros
    <2>5. QED BY <2>1, <2>2, <2>4
  <1>7. QED BY <1>2, <1>4, <1>5, <1>6 DEF Backed

\* The unspent amount of every asset is what its one creation issued, and within
\* its maximum, for every caller, every order of submissions and any number of
\* rejected and repeated ones (apply_transaction), as long as no sum of an asset
\* over the outputs of a transaction exceeds the width of an amount.
THEOREM SupplyConservedHolds == Spec /\ []Typed /\ []OutputsFit => []SupplyConserved
  <1>1. Typed /\ OutputsFit => SumsFit
    BY Fitting DEF Typed, OutputsFit, SumsFit
  <1>2. Init => LedgerInv /\ SupplyInv
    BY LedgerInvInit, SupplyInvInit
  <1>3. LedgerInv /\ SupplyInv /\ Typed /\ OutputsFit /\ [Next]_vars => LedgerInv' /\ SupplyInv'
    BY <1>1, LedgerInvNext, SupplyInvNext
  <1>4. QED BY <1>2, <1>3, SupplyIsConserved, PTL DEF Spec

-----------------------------------------------------------------------------
(***************************************************************************)
(* The limits of a script.                                                 *)
(*                                                                         *)
(* After k opcodes the gas that is left and the prices of these opcodes    *)
(* make up the budget, and the items on the stack are those that were      *)
(* pushed and not taken.                                                   *)
(***************************************************************************)
\* A sum over the part outside of which the summands are zero.
LEMMA SumOfPart ==
    ASSUME NEW S, IsFiniteSet(S), NEW T \in SUBSET S, NEW f,
           \A x \in S : f[x] \in Nat, \A x \in S \ T : f[x] = 0
    PROVE  IsFiniteSet(T) /\ SumOf(f, T) \in Nat /\ SumOf(f, S) = SumOf(f, T)
  <1>1. IsFiniteSet(T) /\ IsFiniteSet(S \ T)
    BY FS_Subset
  <1>2. SumOf(f, S \ T) = 0
    BY <1>1, SumOfZeros
  <1>3. SumOf(f, T) \in Nat /\ SumOf(f, S) = SumOf(f, T) + SumOf(f, S \ T)
    BY SumOfParts
  <1>4. QED BY <1>1, <1>2, <1>3

\* A sum of ones counts.
LEMMA SumOfOnes ==
    ASSUME NEW S, IsFiniteSet(S), NEW f, \A x \in S : f[x] = 1
    PROVE  SumOf(f, S) = Cardinality(S)
  <1> DEFINE Q == {s \in SUBSET S : SumOf(f, s) = Cardinality(s)}
  <1>0. ASSUME NEW s \in SUBSET S
        PROVE  IsFiniteSet(s) /\ Cardinality(s) \in Nat /\ \A x \in s : f[x] \in Nat /\ f[x] = 1
    BY FS_Subset, FS_CardinalityType
  <1>1. {} \in Q
    <2>1. {} \in SUBSET S
      OBVIOUS
    <2>2. SumOf(f, {}) = 0
      BY <1>0, <2>1, SumOfRules
    <2>3. QED BY <2>1, <2>2, FS_EmptySet
  <1>2. ASSUME NEW s \in SUBSET S, s # {}, \A x \in s : s \ {x} \in Q PROVE s \in Q
    <2>1. PICK x \in s : TRUE
      BY <1>2
    <2>2. SumOf(f, s) = f[x] + SumOf(f, s \ {x}) /\ f[x] = 1
      BY <1>0, SumOfRules
    <2>3. SumOf(f, s \ {x}) = Cardinality(s \ {x})
      BY <1>2
    <2>4. Cardinality(s \ {x}) = Cardinality(s) - 1 /\ Cardinality(s) \in Nat
      BY <1>0, FS_RemoveElement
    <2>5. QED BY <2>2, <2>3, <2>4
  <1>3. \A s \in SUBSET S : s # {} /\ (\A x \in s : s \ {x} \in Q) => s \in Q
    BY <1>2
  <1> HIDE DEF Q
  <1>4. S \in SUBSET S
    OBVIOUS
  <1>5. S \in Q
    BY <1>1, <1>3, <1>4, SetInduction
  <1>6. QED BY <1>5 DEF Q

\* The price of each opcode, the items it takes and the items it pushes.
Prices(s) == [i \in DOMAIN s |-> GasCost(s[i])]
Taken(s) == [i \in DOMAIN s |-> Takes(s[i])]
Pushed(s) == [i \in DOMAIN s |-> IF IsPush(s[i]) THEN 1 ELSE 0]

\* Every item has a length.
HasLength(op) == IsPush(op) => ItemLen(op.item) \in Nat

\* They are natural numbers.
LEMMA PricesAre ==
    ASSUME NEW s, IsScript(s), \A i \in DOMAIN s : HasLength(s[i]), NEW i \in DOMAIN s
    PROVE  /\ Prices(s)[i] = GasCost(s[i]) /\ Prices(s)[i] \in Nat
           /\ Taken(s)[i] = Takes(s[i]) /\ Taken(s)[i] \in Nat
           /\ Pushed(s)[i] = (IF IsPush(s[i]) THEN 1 ELSE 0) /\ Pushed(s)[i] \in Nat
  <1>1. PICK op : op = s[i] /\ IsOp(op) /\ HasLength(op)
    BY DEF IsScript
  <1>2. BaseCost \in Nat /\ SigCost \in Nat /\ HashCost \in Nat
    BY ScriptConstants
  <1>3. Takes(op) \in Nat
    BY <1>1 DEF Takes, IsOp, OpNames, IsLock
  <1>4. GasCost(op) \in Nat
    <2>1. CASE op.op = "CheckMultiSig"
      <3>1. PICK t \in Nat : t = IF op.threshold > 1 THEN op.threshold ELSE 1
        BY <1>1, <2>1 DEF IsOp
      <3>2. GasCost(op) = SigCost * t
        BY <2>1, <3>1 DEF GasCost
      <3>3. QED BY <1>2, <3>2, NatClosed
    <2>2. CASE op.op = "PushBytes"
      BY <1>1, <1>2, <2>2 DEF GasCost, HasLength, IsPush
    <2>3. CASE op.op \notin {"PushBytes", "CheckMultiSig"}
      BY <1>1, <1>2, <2>3 DEF GasCost, IsOp, OpNames
    <2>4. QED BY <2>1, <2>2, <2>3
  <1>5. QED BY <1>1, <1>3, <1>4 DEF Prices, Taken, Pushed

\* What the engine keeps count of.
Metered(st, s, k) ==
    /\ st.gas \in Nat /\ Len(st.stack) \in Nat /\ Len(st.stack) <= MaxStackItems
    /\ st.gas + SumOf(Prices(s), 1..k) = MaxGas
    /\ Len(st.stack) + SumOf(Taken(s), 1..k) = SumOf(Pushed(s), 1..k)
    /\ \A i \in 1..k : IsPush(s[i]) => ItemLen(s[i].item) <= MaxPushBytes

\* It keeps count of one opcode more.
LEMMA MeteredNext ==
    ASSUME NEW s, IsScript(s), \A i \in DOMAIN s : HasLength(s[i]),
           NEW n \in Nat, n = Len(s), NEW k \in 1..n, NEW ctx,
           NEW st, IsRun(st), Metered(st, s, k - 1),
           NEW new, new = EvalOp(st, s[k], ctx), new.result = "ok"
    PROVE  Metered(new, s, k)
  <1>1. DOMAIN s = 1..n
    BY ListDomain DEF IsScript
  <1>2. PICK op : op = s[k] /\ IsOp(op) /\ HasLength(op)
    BY <1>1 DEF IsScript
  <1>3. /\ Stacked(st.stack, op, new.stack) /\ IsRun(new)
        /\ new.gas = st.gas - GasCost(op) /\ ~(GasCost(op) > st.gas)
        /\ op.op = "PushBytes" =>
              ~(ItemLen(op.item) > MaxPushBytes) /\ ~(Len(st.stack) >= MaxStackItems)
    BY <1>2, OpPasses
  <1>4. /\ \A i \in 1..n : Prices(s)[i] \in Nat /\ Taken(s)[i] \in Nat /\ Pushed(s)[i] \in Nat
        /\ Prices(s)[k] = GasCost(op) /\ Taken(s)[k] = Takes(op)
        /\ Pushed(s)[k] = (IF IsPush(op) THEN 1 ELSE 0)
    BY <1>1, <1>2, PricesAre
  <1>5. PICK c, t, p, c0, t0, p0 :
           /\ c = SumOf(Prices(s), 1..k) /\ c0 = SumOf(Prices(s), 1..(k - 1))
           /\ t = SumOf(Taken(s), 1..k) /\ t0 = SumOf(Taken(s), 1..(k - 1))
           /\ p = SumOf(Pushed(s), 1..k) /\ p0 = SumOf(Pushed(s), 1..(k - 1))
    OBVIOUS
  <1>6. c \in Nat /\ c0 \in Nat /\ c = GasCost(op) + c0 /\ GasCost(op) \in Nat
    BY <1>4, <1>5, SumOfFirst
  <1>7. t \in Nat /\ t0 \in Nat /\ t = Takes(op) + t0 /\ Takes(op) \in Nat
    BY <1>4, <1>5, SumOfFirst
  <1>8. p \in Nat /\ p0 \in Nat /\ p = (IF IsPush(op) THEN 1 ELSE 0) + p0
    BY <1>4, <1>5, SumOfFirst
  <1>9. /\ st.gas \in Nat /\ Len(st.stack) \in Nat /\ Len(st.stack) <= MaxStackItems
        /\ st.gas + c0 = MaxGas /\ Len(st.stack) + t0 = p0
    BY <1>5 DEF Metered
  <1>10. new.gas \in Nat /\ new.gas + c = MaxGas
    BY <1>3, <1>6, <1>9
  <1>11. Len(new.stack) \in Nat /\ Len(new.stack) <= MaxStackItems /\ Len(new.stack) + t = p
    <2>1. MaxStackItems \in Nat /\ IsList(st.stack)
      BY ScriptConstants DEF IsRun
    <2>2. CASE op.op = "PushBytes"
      <3>1. new.stack = Append(st.stack, op.item)
        BY <1>3, <2>2 DEF Stacked
      <3>2. Len(new.stack) = Len(st.stack) + 1
        BY <2>1, <3>1, AppendList, ListDomain DEF OneMore, IsList
      <3>3. Takes(op) = 0
        BY <2>2 DEF Takes, IsLock
      <3>4. ~(Len(st.stack) >= MaxStackItems) /\ p = 1 + p0
        BY <1>3, <1>8, <2>2 DEF IsPush
      <3>5. QED BY <1>7, <1>8, <1>9, <2>1, <3>2, <3>3, <3>4
    <2>3. CASE op.op # "PushBytes"
      <3>1. /\ Takes(op) \in 0..Len(st.stack)
            /\ new.stack = SubSeq(st.stack, 1, Len(st.stack) - Takes(op))
        BY <1>3, <2>3 DEF Stacked
      <3>2. Len(new.stack) = Len(st.stack) - Takes(op)
        BY <2>1, <3>1, DropList
      <3>3. p = p0
        BY <1>8, <2>3 DEF IsPush
      <3>4. PICK l \in Nat, d \in Nat : l = Len(st.stack) /\ d = Takes(op) /\ d <= l
        BY <1>7, <1>9, <3>1
      <3>5. l + t0 = p0 /\ l <= MaxStackItems /\ t = d + t0 /\ Len(new.stack) = l - d
        BY <1>7, <1>9, <3>2, <3>4
      <3>6. l - d \in Nat /\ l - d <= MaxStackItems /\ (l - d) + t = p
        <4>1. t0 \in Nat /\ p \in Nat /\ MaxStackItems \in Nat /\ p = l + t0
          BY <1>7, <1>8, <2>1, <3>3, <3>5
        <4>2. PICK j \in Nat : l = j + d /\ j = l - d
          BY <3>4
        <4>3. j <= MaxStackItems
          <5>1. PICK m \in Nat : m = MaxStackItems
            BY <2>1
          <5>2. l <= m
            BY <3>5, <5>1
          <5>3. j <= m
            BY <4>2, <5>2
          <5>4. QED BY <5>1, <5>3
        <4>4. j + t = p
          BY <3>4, <3>5, <4>1, <4>2
        <4>5. QED BY <4>2, <4>3, <4>4
      <3>7. QED BY <3>5, <3>6
    <2>4. QED BY <2>2, <2>3
  <1>12. \A i \in 1..k : IsPush(s[i]) => ItemLen(s[i].item) <= MaxPushBytes
    <2> SUFFICES ASSUME NEW i \in 1..k, IsPush(s[i]) PROVE ItemLen(s[i].item) <= MaxPushBytes
      OBVIOUS
    <2>1. CASE i = k
      <3>1. ItemLen(op.item) \in Nat /\ ~(ItemLen(op.item) > MaxPushBytes)
        BY <1>2, <1>3, <2>1 DEF HasLength, IsPush
      <3>2. MaxPushBytes \in Nat
        BY ScriptConstants
      <3>3. QED BY <1>2, <2>1, <3>1, <3>2
    <2>2. CASE i # k
      <3>1. i \in 1..(k - 1)
        BY <2>2
      <3>2. QED BY <3>1 DEF Metered
    <2>3. QED BY <2>1, <2>2
  <1>13. QED BY <1>5, <1>10, <1>11, <1>12 DEF Metered

\* and of all.
LEMMA MeteredAll ==
    ASSUME NEW s, IsScript(s), \A i \in DOMAIN s : HasLength(s[i]),
           NEW n \in Nat, n = Len(s), NEW ctx, NEW r, Trace(r, s, n, ctx)
    PROVE  Metered(r[n], s, n)
  <1> DEFINE S == {k \in Nat : k <= n => Metered(r[k], s, k)}
  <1>1. 0 \in S
    <2>1. PICK st : st = Running(<< >>, MaxGas)
      OBVIOUS
    <2>2. st.gas = MaxGas /\ st.stack = << >> /\ Len(st.stack) = 0
      BY <2>1 DEF Running
    <2>3. MaxGas \in Nat /\ MaxStackItems \in Nat
      BY ScriptConstants
    <2>4. DOMAIN s = 1..n
      BY ListDomain DEF IsScript
    <2>5. \A i \in 1..n : Prices(s)[i] \in Nat /\ Taken(s)[i] \in Nat /\ Pushed(s)[i] \in Nat
      BY <2>4, PricesAre
    <2>6. /\ SumOf(Prices(s), 1..0) = 0 /\ SumOf(Taken(s), 1..0) = 0
          /\ SumOf(Pushed(s), 1..0) = 0
      BY <2>5, SumOfFirst
    <2>7. \A i \in 1..0 : FALSE
      OBVIOUS
    <2>8. Metered(st, s, 0)
      BY <2>2, <2>3, <2>6, <2>7 DEF Metered
    <2>9. QED BY <2>1, <2>8 DEF Trace
  <1>2. ASSUME NEW k \in S PROVE k + 1 \in S
    <2> SUFFICES ASSUME k + 1 <= n PROVE Metered(r[k + 1], s, k + 1)
      OBVIOUS
    <2>1. PICK m \in 1..n : m = k + 1 /\ m - 1 = k /\ m - 1 \in 0..n /\ m \in 0..n
      OBVIOUS
    <2>2. PICK st, new : st = r[m - 1] /\ new = r[m]
      OBVIOUS
    <2>3. IsRun(st) /\ new = EvalOp(st, s[m], ctx) /\ new.result = "ok"
      BY <2>1, <2>2 DEF Trace, Passed
    <2>4. Metered(st, s, m - 1)
      BY <1>2, <2>1, <2>2
    <2>5. Metered(new, s, m)
      BY <2>3, <2>4, MeteredNext
    <2>6. QED BY <2>1, <2>2, <2>5
  <1>3. S = Nat
    <2>1. S \in SUBSET Nat
      OBVIOUS
    <2> HIDE DEF S
    <2>2. QED BY <1>1, <1>2, <2>1, NatSet
  <1>4. QED BY <1>3

\* The sums of WithinLimits are these sums.
LEMMA PriceIs ==
    ASSUME NEW n \in Nat, DOMAIN script = 1..n
    PROVE  MapThenSumSet(LAMBDA i : GasCost(script[i]), DOMAIN script)
              = SumOf(Prices(script), DOMAIN script)
  <1>1. PICK f, S : f = Prices(script) /\ S = DOMAIN script
    OBVIOUS
  <1>0. IsFiniteSet(S)
    BY <1>1, FS_Interval
  <1>2. \A i \in S : f[i] = GasCost(script[i])
    BY <1>1 DEF Prices
  <1> DEFINE Body(g) == [s \in SUBSET S |->
                            IF s = {} THEN 0
                            ELSE GasCost(script[Pick(s)]) + g[s \ {Pick(s)}]]
             it == CHOOSE g : g = Body(g)
  <1>3. \A s \in SUBSET S : s # {} => f[Pick(s)] = GasCost(script[Pick(s)])
    BY <1>2, Picked
  <1>4. PICK g : Sums(g, f, S)
    BY <1>0, SumsExist
  <1>5. g = Body(g)
    BY <1>3, <1>4 DEF Sums
  <1>6. it = Body(it)
    BY <1>5
  <1>7. MapThenSumSet(LAMBDA i : GasCost(script[i]), DOMAIN script) = it[S]
    BY <1>1 DEF MapThenSumSet, MapThenFoldSet, Pick
  <1> HIDE DEF it
  <1>8. Sums(it, f, S)
    <2>1. it = [s \in SUBSET S |-> it[s]]
      BY <1>6
    <2>2. ASSUME NEW s \in SUBSET S
          PROVE  it[s] = IF s = {} THEN 0 ELSE f[Pick(s)] + it[s \ {Pick(s)}]
      BY <1>3, <1>6
    <2>3. QED BY <2>1, <2>2 DEF Sums
  <1>9. SumOf(f, S) = it[S]
    <2>1. S \subseteq S /\ \A x \in S : f[x] = f[x]
      OBVIOUS
    <2>2. QED BY <1>0, <1>8, <2>1, SumOfIs
  <1>10. QED BY <1>1, <1>7, <1>9

LEMMA ConsumedIs ==
    ASSUME NEW n \in Nat, DOMAIN script = 1..n
    PROVE  MapThenSumSet(Consumed, DOMAIN script) = SumOf(Taken(script), DOMAIN script)
  <1>1. PICK f, S : f = Taken(script) /\ S = DOMAIN script
    OBVIOUS
  <1>0. IsFiniteSet(S)
    BY <1>1, FS_Interval
  <1>2. \A i \in S : f[i] = Consumed(i)
    BY <1>1 DEF Taken, Takes, Consumed, IsLock
  <1> DEFINE Body(g) == [s \in SUBSET S |->
                            IF s = {} THEN 0 ELSE Consumed(Pick(s)) + g[s \ {Pick(s)}]]
             it == CHOOSE g : g = Body(g)
  <1>3. \A s \in SUBSET S : s # {} => f[Pick(s)] = Consumed(Pick(s))
    BY <1>2, Picked
  <1>4. PICK g : Sums(g, f, S)
    BY <1>0, SumsExist
  <1>5. g = Body(g)
    BY <1>3, <1>4 DEF Sums
  <1>6. it = Body(it)
    BY <1>5
  <1>7. MapThenSumSet(Consumed, DOMAIN script) = it[S]
    BY <1>1 DEF MapThenSumSet, MapThenFoldSet, Pick
  <1> HIDE DEF it
  <1>8. Sums(it, f, S)
    <2>1. it = [s \in SUBSET S |-> it[s]]
      BY <1>6
    <2>2. ASSUME NEW s \in SUBSET S
          PROVE  it[s] = IF s = {} THEN 0 ELSE f[Pick(s)] + it[s \ {Pick(s)}]
      BY <1>3, <1>6
    <2>3. QED BY <2>1, <2>2 DEF Sums
  <1>9. SumOf(f, S) = it[S]
    <2>1. S \subseteq S /\ \A x \in S : f[x] = f[x]
      OBVIOUS
    <2>2. QED BY <1>0, <1>8, <2>1, SumOfIs
  <1>10. QED BY <1>1, <1>7, <1>9

LEMMA PushedIs ==
    ASSUME NEW n \in Nat, DOMAIN script = 1..n
    PROVE  Cardinality(Positions(IsPush)) = SumOf(Pushed(script), DOMAIN script)
  <1>1. PICK f, S, T : f = Pushed(script) /\ S = DOMAIN script /\ T = Positions(IsPush)
    OBVIOUS
  <1>2. IsFiniteSet(S) /\ T \in SUBSET S
    BY <1>1, FS_Interval DEF Positions
  <1>3. /\ \A i \in T : f[i] = 1 /\ f[i] \in Nat
        /\ \A i \in S \ T : f[i] = 0
        /\ \A i \in S : f[i] \in Nat
    BY <1>1 DEF Pushed, Positions
  <1>4. IsFiniteSet(T) /\ SumOf(f, S) = SumOf(f, T)
    BY <1>2, <1>3, SumOfPart
  <1>5. SumOf(f, T) = Cardinality(T)
    BY <1>3, <1>4, SumOfOnes
  <1>6. QED BY <1>1, <1>4, <1>5

\* What is pushed is a string of bytes.
ItemsHaveLength == \A op \in Ops : HasLength(op)

\* The limits of the engine bound every script that passes: it has paid the price of
\* each opcode out of the budget, and its stack, its pushes and its length are within
\* bounds (charge_gas, push and eval of DeterministicScriptEngine).
THEOREM WithinLimitsHolds ==
    ASSUME OpsAreOpcodes, ItemsHaveLength PROVE ScriptSpec => []WithinLimits
  <1>1. ScriptInit => ScriptInv
    BY DEF ScriptInit, ScriptInv, IsList
  <1>2. ScriptInv => WithinLimits
    <2> SUFFICES ASSUME ScriptInv, NEW ctx \in Contexts, Passes(ctx)
                 PROVE  /\ MapThenSumSet(LAMBDA i : GasCost(script[i]), DOMAIN script)
                              = MaxGas - Verdict(ctx).gas
                        /\ Verdict(ctx).gas >= 0
                        /\ Cardinality(Positions(IsPush)) - MapThenSumSet(Consumed, DOMAIN script)
                              = Len(Verdict(ctx).stack)
                        /\ Len(Verdict(ctx).stack) <= MaxStackItems
                        /\ \A i \in Positions(IsPush) : ItemLen(script[i].item) <= MaxPushBytes
                        /\ Len(script) <= MaxScriptLen
      BY DEF WithinLimits
    <2>1. IsScript(script) /\ \A i \in DOMAIN script : HasLength(script[i])
      BY DEF ScriptInv, OpsAreOpcodes, ItemsHaveLength, IsScript
    <2>2. PICK n \in Nat : n = Len(script) /\ DOMAIN script = 1..n
      BY ListDomain DEF ScriptInv
    <2>3. PICK st : st = Verdict(ctx) /\ st = Eval(script, ctx) /\ st.result = "ok"
      BY DEF Passes, Verdict
    <2>4. PICK r : Trace(r, script, n, ctx) /\ r[n] = st
      BY <2>1, <2>2, <2>3, PassedTrace
    <2>5. Metered(st, script, n)
      BY <2>1, <2>2, <2>4, MeteredAll
    <2>6. PICK c, t, p : /\ c = SumOf(Prices(script), 1..n) /\ t = SumOf(Taken(script), 1..n)
                         /\ p = SumOf(Pushed(script), 1..n)
      OBVIOUS
    <2>7. c \in Nat /\ t \in Nat /\ p \in Nat
      <3>1. \A i \in 1..n : /\ Prices(script)[i] \in Nat /\ Taken(script)[i] \in Nat
                            /\ Pushed(script)[i] \in Nat
        BY <2>1, <2>2, PricesAre
      <3>2. IsFiniteSet(1..n)
        BY FS_Interval
      <3>3. QED BY <2>6, <3>1, <3>2, SumOfRules
    <2>8. /\ st.gas \in Nat /\ Len(st.stack) \in Nat /\ Len(st.stack) <= MaxStackItems
          /\ st.gas + c = MaxGas /\ Len(st.stack) + t = p
          /\ \A i \in 1..n : IsPush(script[i]) => ItemLen(script[i].item) <= MaxPushBytes
      BY <2>5, <2>6 DEF Metered
    <2>9. c = MaxGas - st.gas /\ st.gas >= 0 /\ p - t = Len(st.stack)
      BY <2>7, <2>8
    <2>10. /\ MapThenSumSet(LAMBDA i : GasCost(script[i]), DOMAIN script) = c
           /\ MapThenSumSet(Consumed, DOMAIN script) = t
           /\ Cardinality(Positions(IsPush)) = p
      <3>1. MapThenSumSet(LAMBDA i : GasCost(script[i]), DOMAIN script) = c
        BY <2>2, <2>6, PriceIs
      <3>2. MapThenSumSet(Consumed, DOMAIN script) = t
        BY <2>2, <2>6, ConsumedIs
      <3>3. Cardinality(Positions(IsPush)) = p
        BY <2>2, <2>6, PushedIs
      <3>4. QED BY <3>1, <3>2, <3>3
    <2>11. \A i \in Positions(IsPush) : ItemLen(script[i].item) <= MaxPushBytes
      BY <2>2, <2>8 DEF Positions
    <2>12. Len(script) <= MaxScriptLen
      <3>1. ~(n > MaxScriptLen)
        BY <2>1, <2>2, <2>3, PassedAll
      <3>2. QED BY <2>2, <3>1, ScriptConstants
    <2>13. QED BY <2>3, <2>8, <2>9, <2>10, <2>11, <2>12
  <1>3. QED BY <1>1, <1>2, ScriptInvNext, PTL DEF ScriptSpec

-----------------------------------------------------------------------------
(***************************************************************************)
(* The signatures of a script.                                             *)
(*                                                                         *)
(* A check takes its signatures from the stack, so that the opcodes which  *)
(* pushed them push nothing that is still there: no signature counts       *)
(* twice.  U has the positions of the signatures that were counted.        *)
(***************************************************************************)
\* Other names for the elements of a set are as many.
LEMMA ImageCounts ==
    ASSUME NEW S, IsFiniteSet(S), NEW b, \A x, y \in S : b[x] = b[y] => x = y
    PROVE  IsFiniteSet(Image(b, S)) /\ Cardinality(Image(b, S)) = Cardinality(S)
  <1>1. PICK f, e : f = [x \in S |-> 1] /\ e = [y \in Image(b, S) |-> 1]
    OBVIOUS
  <1>2. \A x \in S : b[x] \in Image(b, S)
    BY DEF Image
  <1>3. \A x \in S : f[x] = 1 /\ f[x] \in Nat /\ e[b[x]] = f[x]
    BY <1>1, <1>2
  <1>4. IsFiniteSet(Image(b, S)) /\ SumOf(e, Image(b, S)) = SumOf(f, S)
    BY <1>3, SumOfImage
  <1>5. SumOf(f, S) = Cardinality(S)
    BY <1>3, SumOfOnes
  <1>6. SumOf(e, Image(b, S)) = Cardinality(Image(b, S))
    <2>1. \A y \in Image(b, S) : e[y] = 1
      BY <1>1
    <2>2. QED BY <1>4, <2>1, SumOfOnes
  <1>7. QED BY <1>4, <1>5, <1>6

Needed(s) == [i \in DOMAIN s |-> Needs(s[i])]

\* Position u has a signature over this input by a key that is pushed before k.
PushesSig(s, u, k, ctx) ==
    /\ u \in 1..(k - 1) /\ IsPush(s[u]) /\ s[u].item.t = "sig" /\ s[u].item.over = ctx.sighash
    /\ \E q \in 1..(k - 1) : IsPush(s[q]) /\ IsKey(s[q].item) /\ s[q].item.v = s[u].item.v

Counted(U, s, k, ctx) ==
    /\ IsFiniteSet(U) /\ Cardinality(U) = SumOf(Needed(s), 1..k)
    /\ \A u \in U : PushesSig(s, u, k, ctx)

\* f says where the items on the stack come from: not from U.
Unused(f, U, stack, s, k, ctx) ==
    /\ Placed(f, stack, s, k) /\ Counted(U, s, k, ctx)
    /\ \A p \in DOMAIN stack : f[p] \notin U

\* The next opcode takes as many signatures as it needs.
LEMMA UnusedNext ==
    ASSUME NEW s, IsScript(s), NEW n \in Nat, n = Len(s), NEW k \in 1..n, NEW ctx,
           NEW st, IsRun(st), NEW f, NEW U, Unused(f, U, st.stack, s, k - 1, ctx),
           NEW new, new = EvalOp(st, s[k], ctx), new.result = "ok"
    PROVE  \E h, W : Unused(h, W, new.stack, s, k, ctx)
  <1>1. DOMAIN s = 1..n
    BY ListDomain DEF IsScript
  <1>2. PICK op : op = s[k] /\ IsOp(op)
    BY <1>1 DEF IsScript
  <1>3. PICK stack : stack = st.stack /\ IsList(stack)
    BY DEF IsRun
  <1>4. Stacked(stack, op, new.stack) /\ Signed(stack, op, ctx)
    BY <1>2, <1>3, OpPasses
  <1>5. PICK top \in Nat : top = Len(stack) /\ DOMAIN stack = 1..top
    BY <1>3, ListDomain
  <1>6. PICK m \in Nat : m = Needs(op) /\ m <= Takes(op) /\ m <= top
    BY <1>4, <1>5 DEF Signed
  <1>7. PICK j \in Nat : j = k - 1 /\ k = j + 1
    OBVIOUS
  <1>8. /\ Placed(f, stack, s, j) /\ Counted(U, s, j, ctx)
        /\ \A p \in DOMAIN stack : f[p] \notin U
    BY <1>3, <1>7 DEF Unused
  <1>9. PICK h : /\ Placed(h, new.stack, s, k)
                 /\ \A p \in DOMAIN new.stack : h[p] = k \/ (p \in DOMAIN stack /\ h[p] = f[p])
    <2>1. PICK t : t = new.stack /\ Stacked(stack, s[j + 1], t)
      BY <1>2, <1>4, <1>7
    <2>2. PICK h : PlacedFrom(h, f, stack, t, s, j + 1)
      BY <1>3, <1>8, <2>1, PlacedNext
    <2>3. QED BY <1>7, <2>1, <2>2 DEF PlacedFrom
  <1>10. PICK R : R = (top - m + 1)..top
    OBVIOUS
  <1>11. PICK V, W : V = Image(f, R) /\ W = U \cup V
    OBVIOUS
  <1>12. R \subseteq DOMAIN stack /\ IsFiniteSet(R) /\ Cardinality(R) = m
    <2>1. R \subseteq 1..top
      BY <1>6, <1>10
    <2>2. top - m + 1 \in Int /\ top \in Int
      OBVIOUS
    <2>3. IsFiniteSet(R) /\ Cardinality(R) = IF top - m + 1 > top THEN 0
                                             ELSE top - (top - m + 1) + 1
      BY <1>10, <2>2, FS_Interval
    <2>4. QED BY <1>5, <1>6, <2>1, <2>3
  <1>13. \A p, q \in DOMAIN stack : f[p] = f[q] => p = q
    <2> SUFFICES ASSUME NEW p \in 1..top, NEW q \in 1..top, f[p] = f[q] PROVE p = q
      BY <1>5
    <2>1. f[p] \in 1..j /\ f[q] \in 1..j
      BY <1>5, <1>8 DEF Placed
    <2>2. (p < q => f[p] < f[q]) /\ (q < p => f[q] < f[p])
      BY <1>5, <1>8 DEF Placed
    <2>3. QED BY <2>1, <2>2
  <1>14. IsFiniteSet(V) /\ Cardinality(V) = m
    BY <1>11, <1>12, <1>13, ImageCounts
  <1>15. IsFiniteSet(W) /\ Cardinality(W) = SumOf(Needed(s), 1..k)
    <2>1. U \cap V = {}
      BY <1>8, <1>11, <1>12 DEF Image
    <2>2. IsFiniteSet(U) /\ Cardinality(U) = SumOf(Needed(s), 1..j) /\ Cardinality(U) \in Nat
      BY <1>8, FS_CardinalityType DEF Counted
    <2>3. IsFiniteSet(W) /\ Cardinality(W) = Cardinality(U) + m - Cardinality({})
      BY <1>11, <1>14, <2>1, <2>2, FS_Union
    <2>a. Cardinality({}) = 0
      BY FS_EmptySet
    <2>4. \A i \in 1..n : Needed(s)[i] = Needs(s[i]) /\ Needed(s)[i] \in Nat
      BY <1>1 DEF Needed, Needs, IsScript, IsOp, IsMultiSig
    <2>5. SumOf(Needed(s), 1..k) = m + SumOf(Needed(s), 1..j)
      <3>1. SumOf(Needed(s), 1..k) = Needed(s)[k] + SumOf(Needed(s), 1..(k - 1))
        BY <2>4, SumOfFirst
      <3>2. Needed(s)[k] = m
        BY <1>2, <1>6, <2>4
      <3>3. QED BY <1>7, <3>1, <3>2
    <2>6. QED BY <2>2, <2>3, <2>a, <2>5
  <1>16. ASSUME NEW u \in W PROVE PushesSig(s, u, k, ctx)
    <2>1. CASE u \in U
      <3>1. PushesSig(s, u, j, ctx)
        BY <1>8, <2>1 DEF Counted
      <3>2. \A i \in 1..(j - 1) : i \in 1..(k - 1)
        BY <1>7
      <3>3. QED BY <3>1, <3>2 DEF PushesSig
    <2>2. CASE u \in V
      <3>1. PICK p \in R : u = f[p]
        BY <1>11, <2>2 DEF Image
      <3>2. PICK q \in 1..top : IsSigAt(stack, p, ctx) /\ IsKeyAt(stack, q, stack[p].v)
        BY <1>4, <1>5, <1>6, <1>10, <3>1 DEF Signed
      <3>3. PICK y : y = f[q]
        OBVIOUS
      <3>4. /\ u \in 1..j /\ s[u].op = "PushBytes" /\ s[u].item = stack[p]
            /\ y \in 1..j /\ s[y].op = "PushBytes" /\ s[y].item = stack[q]
        BY <1>5, <1>8, <1>12, <3>1, <3>3 DEF Placed
      <3>5. /\ IsPush(s[u]) /\ s[u].item.t = "sig" /\ s[u].item.over = ctx.sighash
            /\ IsPush(s[y]) /\ IsKey(s[y].item) /\ s[y].item.v = s[u].item.v
        BY <3>2, <3>4 DEF IsPush, IsKey, IsSigAt, IsKeyAt
      <3>6. QED BY <1>7, <3>4, <3>5 DEF PushesSig
    <2>3. QED BY <1>11, <2>1, <2>2
  <1>17. ASSUME NEW p \in DOMAIN new.stack PROVE h[p] \notin W
    <2>1. CASE h[p] = k
      <3>1. \A u \in W : u \in 1..(k - 1)
        BY <1>16 DEF PushesSig
      <3>2. k \notin 1..(k - 1)
        OBVIOUS
      <3>3. QED BY <2>1, <3>1, <3>2
    <2>2. CASE p \in DOMAIN stack /\ h[p] = f[p]
      <3>1. f[p] \notin U
        BY <1>8, <2>2
      <3>2. p \notin R
        <4>1. CASE op.op = "PushBytes"
          <5>1. m = 0
            BY <1>6, <4>1 DEF Needs, IsCheckSig, IsMultiSig
          <5>2. QED BY <1>10, <5>1
        <4>2. CASE op.op # "PushBytes"
          <5>1. /\ Takes(op) \in 0..top
                /\ new.stack = SubSeq(stack, 1, Len(stack) - Takes(op))
            BY <1>4, <1>5, <4>2 DEF Stacked
          <5>2. PICK l \in Nat : l = top - Takes(op) /\ l <= top - m
            BY <1>6, <5>1
          <5>3. IsList(new.stack) /\ Len(new.stack) = l
            BY <1>3, <1>5, <5>1, <5>2, DropList
          <5>4. p \in 1..l
            BY <1>17, <5>3, ListDomain
          <5>5. QED BY <1>10, <5>2, <5>4
        <4>3. QED BY <4>1, <4>2
      <3>3. f[p] \notin V
        BY <1>11, <1>12, <1>13, <2>2, <3>2 DEF Image
      <3>4. QED BY <1>11, <2>2, <3>1, <3>3
    <2>3. QED BY <1>9, <2>1, <2>2
  <1>18. Counted(W, s, k, ctx)
    BY <1>15, <1>16 DEF Counted
  <1>19. Unused(h, W, new.stack, s, k, ctx)
    BY <1>9, <1>17, <1>18 DEF Unused
  <1>20. QED BY <1>19

\* So it is after every opcode.
LEMMA UnusedAll ==
    ASSUME NEW s, IsScript(s), NEW n \in Nat, n = Len(s), NEW ctx,
           NEW r, Trace(r, s, n, ctx)
    PROVE  \A k \in 0..n : \E f, U : Unused(f, U, r[k].stack, s, k, ctx)
  <1> DEFINE S == {k \in Nat : k <= n => \E f, U : Unused(f, U, r[k].stack, s, k, ctx)}
  <1>1. 0 \in S
    <2>1. PICK stack : stack = r[0].stack
      OBVIOUS
    <2>2. stack = << >>
      BY <2>1 DEF Trace, Running
    <2>3. Placed(stack, stack, s, 0)
      BY <2>2 DEF Placed
    <2>4. DOMAIN s = 1..n
      BY ListDomain DEF IsScript
    <2>5. \A i \in 1..n : Needed(s)[i] \in Nat
      BY <2>4 DEF Needed, Needs, IsScript, IsOp, IsMultiSig
    <2>6. SumOf(Needed(s), 1..0) = 0
      BY <2>5, SumOfFirst
    <2>7. Counted({}, s, 0, ctx)
      BY <2>6, FS_EmptySet DEF Counted
    <2>8. Unused(stack, {}, stack, s, 0, ctx)
      BY <2>3, <2>7 DEF Unused
    <2>9. QED BY <2>1, <2>8
  <1>2. ASSUME NEW k \in S PROVE k + 1 \in S
    <2> SUFFICES ASSUME k + 1 <= n
                 PROVE  \E f, U : Unused(f, U, r[k + 1].stack, s, k + 1, ctx)
      OBVIOUS
    <2>1. PICK m \in 1..n : m = k + 1 /\ m - 1 = k /\ m - 1 \in 0..n /\ m \in 0..n
      OBVIOUS
    <2>2. PICK st, new : st = r[m - 1] /\ new = r[m]
      OBVIOUS
    <2>3. IsRun(st) /\ new = EvalOp(st, s[m], ctx) /\ new.result = "ok"
      BY <2>1, <2>2 DEF Trace, Passed
    <2>4. PICK f, U : Unused(f, U, st.stack, s, m - 1, ctx)
      BY <1>2, <2>1, <2>2
    <2>5. \E h, W : Unused(h, W, new.stack, s, m, ctx)
      BY <2>3, <2>4, UnusedNext
    <2>6. QED BY <2>1, <2>2, <2>5
  <1>3. S = Nat
    <2>1. S \in SUBSET Nat
      OBVIOUS
    <2> HIDE DEF S
    <2>2. QED BY <1>1, <1>2, <2>1, NatSet
  <1>4. QED BY <1>3

\* The signatures that SignedForThisInput asks for are these.
MultiSigs(i) == {j \in Positions(IsMultiSig) : j <= i}
LEMMA ThresholdsAre ==
    ASSUME NEW i, IsFiniteSet(MultiSigs(i))
    PROVE  MapThenSumSet(LAMBDA j : script[j].threshold, MultiSigs(i))
              = SumOf(Needed(script), MultiSigs(i))
  <1>1. PICK f, S : f = Needed(script) /\ S = MultiSigs(i)
    OBVIOUS
  <1>2. \A j \in S : f[j] = script[j].threshold
    BY <1>1 DEF Needed, Needs, MultiSigs, Positions, IsMultiSig, IsCheckSig
  <1> DEFINE Body(g) == [s \in SUBSET S |->
                            IF s = {} THEN 0 ELSE script[Pick(s)].threshold + g[s \ {Pick(s)}]]
             it == CHOOSE g : g = Body(g)
  <1>3. \A s \in SUBSET S : s # {} => f[Pick(s)] = script[Pick(s)].threshold
    BY <1>2, Picked
  <1>4. PICK g : Sums(g, f, S)
    BY <1>1, SumsExist
  <1>5. g = Body(g)
    BY <1>3, <1>4 DEF Sums
  <1>6. it = Body(it)
    BY <1>5
  <1>7. MapThenSumSet(LAMBDA j : script[j].threshold, MultiSigs(i)) = it[S]
    BY <1>1 DEF MapThenSumSet, MapThenFoldSet, Pick
  <1> HIDE DEF it
  <1>8. Sums(it, f, S)
    <2>1. it = [s \in SUBSET S |-> it[s]]
      BY <1>6
    <2>2. ASSUME NEW s \in SUBSET S
          PROVE  it[s] = IF s = {} THEN 0 ELSE f[Pick(s)] + it[s \ {Pick(s)}]
      BY <1>3, <1>6
    <2>3. QED BY <2>1, <2>2 DEF Sums
  <1>9. SumOf(f, S) = it[S]
    <2>1. IsFiniteSet(S) /\ S \subseteq S /\ \A x \in S : f[x] = f[x]
      BY <1>1
    <2>2. QED BY <1>8, <2>1, SumOfIs
  <1>10. QED BY <1>1, <1>7, <1>9

LEMMA NeededAre ==
    ASSUME IsScript(script), NEW n \in Nat, DOMAIN script = 1..n, NEW i \in 1..n
    PROVE  SignaturesNeeded(i) = SumOf(Needed(script), 1..i)
  <1>1. PICK f, S, T, M : /\ f = Needed(script) /\ S = 1..i /\ M = MultiSigs(i)
                          /\ T = {j \in Positions(IsCheckSig) : j <= i}
    OBVIOUS
  <1>2. IsFiniteSet(S) /\ T \in SUBSET S /\ M \in SUBSET (S \ T)
    <2>1. IsFiniteSet(S)
      BY <1>1, FS_Interval
    <2>2. \A j \in 1..n : j <= i => j \in 1..i
      OBVIOUS
    <2>3. QED BY <1>1, <2>1, <2>2 DEF Positions, MultiSigs, IsCheckSig, IsMultiSig
  <1>3. IsFiniteSet(T) /\ IsFiniteSet(S \ T) /\ IsFiniteSet(M)
    BY <1>2, FS_Subset
  <1>4. /\ \A j \in S : f[j] = Needs(script[j]) /\ f[j] \in Nat
        /\ \A j \in T : f[j] = 1
        /\ \A j \in (S \ T) \ M : f[j] = 0
    <2>1. \A j \in S : j \in DOMAIN script /\ j <= i
      BY <1>1
    <2>2. \A j \in S : f[j] = Needs(script[j]) /\ f[j] \in Nat
      BY <1>1, <2>1 DEF Needed, Needs, IsScript, IsOp, IsMultiSig
    <2>3. QED BY <1>1, <2>1, <2>2 DEF Needs, Positions, MultiSigs
  <1>5. SumOf(f, T) = Cardinality(T) /\ Cardinality(T) \in Nat
    BY <1>3, <1>4, SumOfOnes, FS_CardinalityType
  <1>6. SumOf(f, S \ T) = SumOf(f, M)
    <2>1. PICK R : R = S \ T
      OBVIOUS
    <2>2. /\ IsFiniteSet(R) /\ M \in SUBSET R /\ (\A j \in R : f[j] \in Nat)
          /\ \A j \in R \ M : f[j] = 0
      BY <1>2, <1>3, <1>4, <2>1
    <2>3. QED BY <2>1, <2>2, SumOfPart
  <1>7. SumOf(f, S) = SumOf(f, T) + SumOf(f, S \ T)
    BY <1>2, <1>4, SumOfParts
  <1>8. MapThenSumSet(LAMBDA j : script[j].threshold, MultiSigs(i)) = SumOf(f, M)
    BY <1>1, <1>3, ThresholdsAre
  <1>9. SignaturesNeeded(i) =
           Cardinality(T) + MapThenSumSet(LAMBDA j : script[j].threshold, MultiSigs(i))
    BY <1>1 DEF SignaturesNeeded, MultiSigs
  <1>10. QED BY <1>1, <1>5, <1>6, <1>7, <1>8, <1>9

\* A script that passes has, for every signature its checks ask for, a signature of its
\* own over this input by a key that the script lists (eval_check_sig and
\* eval_check_multisig, which pop what they check).
THEOREM SignedForThisInputHolds ==
    ASSUME OpsAreOpcodes PROVE ScriptSpec => []SignedForThisInput
  <1>1. ScriptInit => ScriptInv
    BY DEF ScriptInit, ScriptInv, IsList
  <1>2. ScriptInv => SignedForThisInput
    <2> SUFFICES ASSUME ScriptInv, NEW ctx \in Contexts, Passes(ctx), NEW i \in DOMAIN script
                 PROVE  LET keys == {script[j].item.v : j \in PushedBefore(i, IsKey)}
                        IN  Cardinality(PushedBefore(i, LAMBDA x : /\ x.t = "sig"
                                                                   /\ x.over = ctx.sighash
                                                                   /\ x.v \in keys))
                            >= SignaturesNeeded(i)
      BY DEF SignedForThisInput
    <2> DEFINE keys == {script[j].item.v : j \in PushedBefore(i, IsKey)}
    <2>1. IsScript(script)
      BY DEF ScriptInv, OpsAreOpcodes, IsScript
    <2>2. PICK n \in Nat : n = Len(script) /\ DOMAIN script = 1..n
      BY ListDomain DEF ScriptInv
    <2>3. PICK r : Trace(r, script, n, ctx)
      BY <2>1, <2>2, PassedTrace DEF Passes, Verdict
    <2>4. PICK f, U : Unused(f, U, r[i].stack, script, i, ctx)
      BY <2>1, <2>2, <2>3, UnusedAll
    <2>5. /\ Cardinality(U) = SumOf(Needed(script), 1..i)
          /\ \A u \in U : PushesSig(script, u, i, ctx)
      BY <2>4 DEF Unused, Counted
    <2>6. PICK G : G = PushedBefore(i, LAMBDA x : /\ x.t = "sig"
                                                  /\ x.over = ctx.sighash
                                                  /\ x.v \in keys)
      OBVIOUS
    <2>7. U \subseteq G
      <3> SUFFICES ASSUME NEW u \in U PROVE u \in G
        OBVIOUS
      <3>1. \A j \in 1..(i - 1) : j \in DOMAIN script /\ j < i
        BY <2>2
      <3>2. /\ u \in 1..(i - 1) /\ IsPush(script[u])
            /\ script[u].item.t = "sig" /\ script[u].item.over = ctx.sighash
        BY <2>5 DEF PushesSig
      <3>3. PICK q \in 1..(i - 1) : /\ IsPush(script[q]) /\ IsKey(script[q].item)
                                    /\ script[q].item.v = script[u].item.v
        BY <2>5 DEF PushesSig
      <3>4. q \in PushedBefore(i, IsKey)
        BY <3>1, <3>3 DEF PushedBefore, Positions
      <3>5. script[u].item.v \in keys
        BY <3>3, <3>4
      <3>6. QED BY <2>6, <3>1, <3>2, <3>5 DEF PushedBefore, Positions
    <2>8. IsFiniteSet(G)
      <3>1. IsFiniteSet(1..n) /\ G \in SUBSET (1..n)
        BY <2>2, <2>6, FS_Interval DEF PushedBefore, Positions
      <3>2. QED BY <3>1, FS_Subset
    <2>9. Cardinality(U) <= Cardinality(G) /\ Cardinality(U) \in Nat /\ Cardinality(G) \in Nat
      BY <2>7, <2>8, FS_Subset, FS_CardinalityType
    <2>10. SignaturesNeeded(i) = SumOf(Needed(script), 1..i)
      BY <2>1, <2>2, NeededAre
    <2>11. Cardinality(G) >= SignaturesNeeded(i)
      BY <2>5, <2>9, <2>10
    <2>12. QED BY <2>6, <2>11
  <1>3. QED BY <1>1, <1>2, ScriptInvNext, PTL DEF ScriptSpec

-----------------------------------------------------------------------------
(***************************************************************************)
(* Encodings.                                                              *)
(*                                                                         *)
(* Two strings of symbols are separate if neither starts the other, unless *)
(* they are the same.  Strings of the same length are; a string that       *)
(* begins with a part which tells how the rest is to be read is, part by   *)
(* part.                                                                   *)
(***************************************************************************)
Symbols == Seq(Nat)

Separate(a, b) == \A u, v \in Symbols : a \o u = b \o v => a = b /\ u = v

\* a and b are encodings of x and y: a reader can tell where they end, and x from y.
Reads(a, b, x, y) ==
    /\ a \in Symbols /\ b \in Symbols /\ Separate(a, b)
    /\ a = b => x = y

\* Strings that are joined.
LEMMA JoinedSymbols ==
    ASSUME NEW a \in Symbols, NEW b \in Symbols
    PROVE  /\ a \o b \in Symbols /\ Len(a) \in Nat /\ Len(b) \in Nat
           /\ Len(a \o b) = Len(a) + Len(b)
           /\ \A i \in 1..Len(a) : (a \o b)[i] = a[i]
  <1>1. a \in Seq(Nat) /\ b \in Seq(Nat)
    BY DEF Symbols
  <1>2. Len(a) \in Nat /\ Len(b) \in Nat
    BY <1>1
  <1>3. /\ a \o b \in Seq(Nat) /\ Len(a \o b) = Len(a) + Len(b)
        /\ \A i \in 1 .. Len(a) + Len(b) : (a \o b)[i] = IF i <= Len(a) THEN a[i] ELSE b[i - Len(a)]
    BY <1>1, ConcatProperties
  <1>4. \A i \in 1..Len(a) : i \in 1..(Len(a) + Len(b)) /\ i <= Len(a)
    BY <1>2
  <1>5. QED BY <1>2, <1>3, <1>4 DEF Symbols

LEMMA JoinedTwice ==
    ASSUME NEW a \in Symbols, NEW b \in Symbols, NEW c \in Symbols
    PROVE  (a \o b) \o c = a \o (b \o c)
  BY DEF Symbols

\* Fields of a fixed width are separate.
LEMMA SameWidth ==
    ASSUME NEW a \in Symbols, NEW b \in Symbols, Len(a) = Len(b)
    PROVE  Separate(a, b)
  <1> SUFFICES ASSUME NEW u \in Symbols, NEW v \in Symbols, a \o u = b \o v
               PROVE  a = b /\ u = v
    BY DEF Separate
  <1>1. \A i \in 1..Len(a) : (a \o u)[i] = a[i]
    BY JoinedSymbols
  <1>2. \A i \in 1..Len(b) : (b \o v)[i] = b[i]
    BY JoinedSymbols
  <1>3. \A i \in 1..Len(a) : a[i] = b[i]
    BY <1>1, <1>2
  <1>4. a \in Seq(Nat) /\ b \in Seq(Nat) /\ u \in Seq(Nat) /\ v \in Seq(Nat)
    BY DEF Symbols
  <1>5. a = b
    BY <1>3, <1>4, SeqEqual
  <1>6. u = v
    BY <1>4, <1>5, ConcatSimplifications
  <1>7. QED BY <1>5, <1>6

\* Strings that begin differently are separate.
LEMMA OtherTag ==
    ASSUME NEW a \in Symbols, NEW b \in Symbols, Len(a) > 0, Len(b) > 0, a[1] # b[1]
    PROVE  Separate(a, b) /\ a # b
  <1>1. a # b
    OBVIOUS
  <1>2. ASSUME NEW u \in Symbols, NEW v \in Symbols, a \o u = b \o v PROVE FALSE
    <2>1. 1 \in 1..Len(a) /\ 1 \in 1..Len(b)
      BY DEF Symbols
    <2>2. (a \o u)[1] = a[1]
      BY <2>1, JoinedSymbols
    <2>3. (b \o v)[1] = b[1]
      BY <2>1, JoinedSymbols
    <2>4. QED BY <1>2, <2>2, <2>3
  <1>3. QED BY <1>1, <1>2 DEF Separate

\* A part, and then another that is read according to the first.
LEMMA ReadsJoined ==
    ASSUME NEW a, NEW b, NEW x, NEW y, Reads(a, b, x, y),
           NEW c \in Symbols, NEW d \in Symbols, NEW z, NEW w, x = y => Reads(c, d, z, w)
    PROVE  Reads(a \o c, b \o d, <<x, z>>, <<y, w>>)
  <1>1. a \in Symbols /\ b \in Symbols /\ Separate(a, b) /\ (a = b => x = y)
    BY DEF Reads
  <1>2. a \o c \in Symbols /\ b \o d \in Symbols
    BY <1>1, JoinedSymbols
  <1>3. ASSUME NEW u \in Symbols, NEW v \in Symbols, (a \o c) \o u = (b \o d) \o v
        PROVE  a = b /\ c = d /\ u = v /\ x = y /\ z = w
    <2>1. (a \o c) \o u = a \o (c \o u) /\ (b \o d) \o v = b \o (d \o v)
      <3>1. (a \o c) \o u = a \o (c \o u)
        BY <1>1, JoinedTwice
      <3>2. (b \o d) \o v = b \o (d \o v)
        BY <1>1, JoinedTwice
      <3>3. QED BY <3>1, <3>2
    <2>2. c \o u \in Symbols /\ d \o v \in Symbols
      BY JoinedSymbols
    <2>3. a = b /\ c \o u = d \o v
      BY <1>1, <1>3, <2>1, <2>2 DEF Separate
    <2>4. x = y /\ Reads(c, d, z, w)
      BY <1>1, <2>3
    <2>5. c = d /\ u = v
      BY <2>3, <2>4 DEF Reads, Separate
    <2>6. z = w
      BY <2>4, <2>5 DEF Reads
    <2>7. QED BY <2>3, <2>4, <2>5, <2>6
  <1>4. Separate(a \o c, b \o d)
    BY <1>3 DEF Separate
  <1>5. a \o c = b \o d => <<x, z>> = <<y, w>>
    <2> SUFFICES ASSUME a \o c = b \o d PROVE x = y /\ z = w
      OBVIOUS
    <2>1. << >> \in Symbols /\ (a \o c) \o << >> = (b \o d) \o << >>
      BY DEF Symbols
    <2>2. QED BY <1>3, <2>1
  <1>6. QED BY <1>2, <1>4, <1>5 DEF Reads

\* g[k] is what the first k of n strings are when they are joined.
Joins(g, q, n) ==
    /\ g = [k \in 0..n |-> g[k]]
    /\ g[0] = << >>
    /\ \A k \in 1..n : g[k] = g[k - 1] \o q[k]

\* They can be joined.
LEMMA JoinsExist ==
    ASSUME NEW q, NEW n \in Nat PROVE \E g : Joins(g, q, n)
  <1> DEFINE S == {m \in Nat : \E g : Joins(g, q, m)}
  <1>1. 0 \in S
    <2>1. PICK g : g = [k \in 0..0 |-> << >>]
      OBVIOUS
    <2>2. Joins(g, q, 0)
      BY <2>1 DEF Joins
    <2>3. QED BY <2>2
  <1>2. ASSUME NEW m \in S PROVE m + 1 \in S
    <2>1. PICK g : Joins(g, q, m)
      BY <1>2
    <2>2. PICK h : h = [k \in 0..(m + 1) |-> IF k = m + 1 THEN g[m] \o q[m + 1] ELSE g[k]]
      OBVIOUS
    <2>3. h[m + 1] = g[m] \o q[m + 1] /\ \A k \in 0..m : h[k] = g[k]
      BY <2>2
    <2>4. ASSUME NEW k \in 1..(m + 1) PROVE h[k] = h[k - 1] \o q[k]
      <3>1. CASE k = m + 1
        <4>1. k - 1 = m /\ m \in 0..m
          BY <3>1
        <4>2. QED BY <2>3, <3>1, <4>1
      <3>2. CASE k # m + 1
        <4>1. k \in 1..m /\ k \in 0..m /\ k - 1 \in 0..m
          BY <3>2
        <4>2. g[k] = g[k - 1] \o q[k]
          BY <2>1, <4>1 DEF Joins
        <4>3. QED BY <2>3, <4>1, <4>2
      <3>3. QED BY <3>1, <3>2
    <2>5. h[0] = << >>
      BY <2>1, <2>3 DEF Joins
    <2>6. h = [k \in 0..(m + 1) |-> h[k]]
      BY <2>2
    <2>7. Joins(h, q, m + 1)
      BY <2>4, <2>5, <2>6 DEF Joins
    <2>8. QED BY <2>7
  <1>3. S = Nat
    <2>1. S \in SUBSET Nat
      OBVIOUS
    <2> HIDE DEF S
    <2>2. QED BY <1>1, <1>2, <2>1, NatSet
  <1>4. QED BY <1>3

\* A list of strings, and FlattenSeq as its join.
IsStrings(q, n) == IsList(q) /\ Len(q) = n /\ DOMAIN q = 1..n /\ \A i \in 1..n : q[i] \in Symbols

LEMMA FlattenJoins ==
    ASSUME NEW n \in Nat, NEW q, IsStrings(q, n)
    PROVE  \E g : Joins(g, q, n) /\ FlattenSeq(q) = g[n]
  <1>1. PICK f : Joins(f, q, n)
    BY JoinsExist
  <1>2. CASE n = 0
    <2>1. q = << >>
      BY <1>2 DEF IsStrings, IsList
    <2>2. FlattenSeq(q) = q
      BY <2>1 DEF FlattenSeq
    <2>3. QED BY <1>1, <1>2, <2>1, <2>2 DEF Joins
  <1>3. CASE n # 0
    <2> DEFINE Body(g) == [i \in 1..n |-> IF i = 1 THEN q[i] ELSE g[i - 1] \o q[i]]
               it == CHOOSE g : g = Body(g)
    <2>1. PICK e : e = [i \in 1..n |-> f[i]]
      OBVIOUS
    <2>2. 1 \in 1..n /\ << >> \o q[1] = q[1]
      <3>1. 1 \in 1..n
        BY <1>3
      <3>2. q[1] \in Seq(Nat)
        BY <3>1 DEF IsStrings, Symbols
      <3>3. QED BY <3>1, <3>2, ConcatEmptySeq
    <2>3. ASSUME NEW i \in 1..n PROVE e[i] = IF i = 1 THEN q[i] ELSE e[i - 1] \o q[i]
      <3>1. e[i] = f[i - 1] \o q[i]
        BY <1>1, <2>1 DEF Joins
      <3>2. CASE i = 1
        BY <1>1, <2>2, <3>1, <3>2 DEF Joins
      <3>3. CASE i # 1
        <4>1. i - 1 \in 1..n
          BY <3>3
        <4>2. QED BY <2>1, <3>1, <3>3, <4>1
      <3>4. QED BY <3>2, <3>3
    <2>4. e = Body(e)
      BY <2>1, <2>3
    <2>5. it = Body(it)
      BY <2>4
    <2>6. FlattenSeq(q) = it[n]
      BY <1>3 DEF FlattenSeq, IsStrings
    <2> HIDE DEF it
    <2>7. PICK g : g = [k \in 0..n |-> IF k = 0 THEN << >> ELSE it[k]]
      OBVIOUS
    <2>8. ASSUME NEW k \in 1..n PROVE g[k] = g[k - 1] \o q[k]
      <3>1. g[k] = it[k] /\ it[k] = IF k = 1 THEN q[k] ELSE it[k - 1] \o q[k]
        BY <2>5, <2>7
      <3>2. CASE k = 1
        <4>1. g[k - 1] = << >>
          BY <2>7, <3>2
        <4>2. QED BY <2>2, <3>1, <3>2, <4>1
      <3>3. CASE k # 1
        <4>1. k - 1 \in 1..n /\ k - 1 # 0
          BY <3>3
        <4>2. g[k - 1] = it[k - 1]
          BY <2>7, <4>1
        <4>3. QED BY <3>1, <3>3, <4>2
      <3>4. QED BY <3>2, <3>3
    <2>9. g[0] = << >> /\ g[n] = it[n] /\ g = [k \in 0..n |-> g[k]]
      BY <1>3, <2>7
    <2>10. Joins(g, q, n)
      BY <2>8, <2>9 DEF Joins
    <2>11. QED BY <2>6, <2>9, <2>10
  <1>4. QED BY <1>2, <1>3

\* The strings of two lists are encodings of the elements of two others.
ReadsEach(p, q, x, y, n) == \A i \in 1..n : Reads(p[i], q[i], x[i], y[i])
Alike(x, y, n) == \A i \in 1..n : x[i] = y[i]

\* As many encodings, one after the other, can be read.
LEMMA ReadsFlat ==
    ASSUME NEW n \in Nat, NEW p, IsStrings(p, n), NEW q, IsStrings(q, n),
           NEW x, NEW y, ReadsEach(p, q, x, y, n)
    PROVE  /\ FlattenSeq(p) \in Symbols /\ FlattenSeq(q) \in Symbols
           /\ Separate(FlattenSeq(p), FlattenSeq(q))
           /\ FlattenSeq(p) = FlattenSeq(q) => Alike(x, y, n)
  <1>1. PICK g : Joins(g, p, n) /\ FlattenSeq(p) = g[n]
    BY FlattenJoins
  <1>2. PICK h : Joins(h, q, n) /\ FlattenSeq(q) = h[n]
    BY FlattenJoins
  <1> DEFINE Good(k) == /\ g[k] \in Symbols /\ h[k] \in Symbols /\ Separate(g[k], h[k])
                        /\ g[k] = h[k] => Alike(x, y, k)
             S == {k \in Nat : k <= n => Good(k)}
  <1>3. 0 \in S
    <2>1. g[0] = << >> /\ h[0] = << >> /\ << >> \in Symbols /\ Len(<< >>) = Len(<< >>)
      BY <1>1, <1>2 DEF Joins, Symbols
    <2>2. Separate(<< >>, << >>)
      BY <2>1, SameWidth
    <2>3. Alike(x, y, 0)
      BY DEF Alike
    <2>4. QED BY <2>1, <2>2, <2>3
  <1>4. ASSUME NEW k \in S PROVE k + 1 \in S
    <2> SUFFICES ASSUME k + 1 <= n PROVE Good(k + 1)
      OBVIOUS
    <2>1. PICK m \in 1..n : m = k + 1 /\ m - 1 = k
      OBVIOUS
    <2>2. Good(k)
      BY <1>4, <2>1
    <2>3. g[m] = g[k] \o p[m] /\ h[m] = h[k] \o q[m]
      BY <1>1, <1>2, <2>1 DEF Joins
    <2>4. PICK a, b : a = g[k] /\ b = h[k]
      OBVIOUS
    <2>5. PICK c, d : c = p[m] /\ d = q[m]
      OBVIOUS
    <2>6. c \in Symbols /\ d \in Symbols /\ Reads(c, d, x[m], y[m])
      BY <2>5 DEF IsStrings, ReadsEach
    <2>7. PICK X, Y : X = [i \in 1..k |-> x[i]] /\ Y = [i \in 1..k |-> y[i]]
      OBVIOUS
    <2>8. Alike(x, y, k) <=> X = Y
      BY <2>7 DEF Alike
    <2>9. Reads(a, b, X, Y)
      BY <2>2, <2>4, <2>8 DEF Reads
    <2>10. Reads(a \o c, b \o d, <<X, x[m]>>, <<Y, y[m]>>)
      BY <2>6, <2>9, ReadsJoined
    <2>11. /\ a \o c \in Symbols /\ b \o d \in Symbols /\ Separate(a \o c, b \o d)
           /\ a \o c = b \o d => X = Y /\ x[m] = y[m]
      BY <2>10 DEF Reads
    <2>12. X = Y /\ x[m] = y[m] => Alike(x, y, m)
      <3> SUFFICES ASSUME Alike(x, y, k), x[m] = y[m], NEW i \in 1..m PROVE x[i] = y[i]
        BY <2>8 DEF Alike
      <3>1. i \in 1..k \/ i = m
        BY <2>1
      <3>2. QED BY <3>1 DEF Alike
    <2>13. QED BY <2>1, <2>3, <2>4, <2>5, <2>11, <2>12
  <1>5. S = Nat
    <2>1. S \in SUBSET Nat
      OBVIOUS
    <2> HIDE DEF S
    <2>2. QED BY <1>3, <1>4, <2>1, NatSet
  <1>6. Good(n)
    BY <1>5
  <1>7. QED BY <1>1, <1>2, <1>6

\* The symbols of a list of strings.
LEMMA FlattenSymbols ==
    ASSUME NEW n \in Nat, NEW q, IsStrings(q, n) PROVE FlattenSeq(q) \in Symbols
  <1>1. \A i \in 1..n : q[i] \in Symbols /\ Separate(q[i], q[i])
    BY SameWidth DEF IsStrings
  <1>2. ReadsEach(q, q, q, q, n)
    BY <1>1 DEF ReadsEach, Reads
  <1>3. QED BY <1>2, ReadsFlat

\* A part, and then a list of encodings after their number.
LEMMA ReadsListAfter ==
    ASSUME NEW a, NEW b, NEW x, NEW y, Reads(a, b, x, y),
           NEW s, IsList(s), NEW n \in Nat, n = Len(s), NEW p, IsStrings(p, n),
           NEW t, IsList(t), NEW m \in Nat, m = Len(t), NEW q, IsStrings(q, m),
           n = m => ReadsEach(p, q, s, t, n)
    PROVE  Reads((a \o EncodeLen(s)) \o FlattenSeq(p), (b \o EncodeLen(t)) \o FlattenSeq(q),
                 <<x, s>>, <<y, t>>)
  <1>1. PICK k, l : k = <<n>> /\ l = <<m>>
    OBVIOUS
  <1>2. /\ k = EncodeLen(s) /\ l = EncodeLen(t) /\ k \in Symbols /\ l \in Symbols
        /\ Len(k) = Len(l) /\ (k = l => n = m)
    BY <1>1 DEF EncodeLen, Symbols
  <1>3. Reads(k, l, n, m)
    BY <1>2, SameWidth DEF Reads
  <1>4. PICK c, d : c = a \o k /\ d = b \o l
    OBVIOUS
  <1>5. Reads(c, d, <<x, n>>, <<y, m>>)
    BY <1>2, <1>3, <1>4, ReadsJoined
  <1>6. PICK e, f : e = FlattenSeq(p) /\ f = FlattenSeq(q)
    OBVIOUS
  <1>7. e \in Symbols /\ f \in Symbols
    BY <1>6, FlattenSymbols
  <1>8. ASSUME n = m PROVE Reads(e, f, s, t)
    <2>1. Separate(e, f) /\ (e = f => Alike(s, t, n))
      BY <1>6, <1>8, ReadsFlat
    <2>2. DOMAIN s = 1..n /\ DOMAIN t = 1..n
      BY <1>8, ListDomain
    <2>3. Alike(s, t, n) => s = t
      BY <1>8, <2>2 DEF Alike, IsList
    <2>4. QED BY <1>7, <2>1, <2>3 DEF Reads
  <1>9. Reads(c \o e, d \o f, <<<<x, n>>, s>>, <<<<y, m>>, t>>)
    BY <1>5, <1>7, <1>8, ReadsJoined
  <1>10. Reads(c \o e, d \o f, <<x, s>>, <<y, t>>)
    BY <1>9 DEF Reads
  <1>11. QED BY <1>2, <1>4, <1>6, <1>10

\* The values that are encoded.
IsOption(o) == o = None \/ (o = Some(o[1]) /\ o[1] \in Nat)
IsAsset(x) == x = AssetAmount(x.asset_id, x.amount) /\ x.asset_id \in Nat /\ x.amount \in Nat
IsReference(x) == x = TransactionInput(x.tx_id, x.index) /\ x.tx_id \in Nat /\ x.index \in Nat
IsCoin(o) ==
    /\ o = Output(o.owner_script_hash, o.assets, o.metadata_hash)
    /\ o.owner_script_hash \in Nat /\ IsOption(o.metadata_hash)
    /\ IsList(o.assets) /\ \A i \in DOMAIN o.assets : IsAsset(o.assets[i])
IsDefinition(d) ==
    /\ d = [issuer_script_hash |-> d.issuer_script_hash, kind |-> d.kind,
            metadata_root |-> d.metadata_root, max_supply |-> d.max_supply,
            decimals |-> d.decimals]
    /\ d.issuer_script_hash \in Nat /\ d.kind \in AssetKinds /\ d.metadata_root \in Nat
    /\ IsOption(d.max_supply) /\ d.decimals \in Nat
IsKind(k) ==
    \/ k = Transfer
    \/ /\ k = CreateAsset(k.definition, k.initial_supply)
       /\ IsDefinition(k.definition) /\ k.initial_supply \in Nat
IsCore(c) ==
    /\ c = [kind |-> c.kind, inputs |-> c.inputs, outputs |-> c.outputs]
    /\ IsKind(c.kind) /\ IsList(c.inputs) /\ IsList(c.outputs)
    /\ \A i \in DOMAIN c.inputs : IsReference(c.inputs[i])
    /\ \A i \in DOMAIN c.outputs : IsCoin(c.outputs[i])

\* Fields of one, two and three symbols.
LEMMA ReadsFields ==
    ASSUME NEW x \in Nat, NEW y \in Nat, NEW z \in Nat, NEW u \in Nat, NEW v \in Nat, NEW w \in Nat
    PROVE  /\ Reads(<<x>>, <<u>>, x, u)
           /\ Reads(<<x, y>>, <<u, v>>, <<x, y>>, <<u, v>>)
           /\ Reads(<<x, y, z>>, <<u, v, w>>, <<x, y, z>>, <<u, v, w>>)
  <1>1. /\ <<x>> \in Symbols /\ <<u>> \in Symbols /\ Len(<<x>>) = Len(<<u>>)
        /\ <<x, y>> \in Symbols /\ <<u, v>> \in Symbols /\ Len(<<x, y>>) = Len(<<u, v>>)
        /\ <<x, y, z>> \in Symbols /\ <<u, v, w>> \in Symbols
        /\ Len(<<x, y, z>>) = Len(<<u, v, w>>)
    BY DEF Symbols
  <1>2. /\ Separate(<<x>>, <<u>>) /\ Separate(<<x, y>>, <<u, v>>)
        /\ Separate(<<x, y, z>>, <<u, v, w>>)
    BY <1>1, SameWidth
  <1>3. <<x>> = <<u>> => x = u
    OBVIOUS
  <1>4. QED BY <1>1, <1>2, <1>3 DEF Reads

\* An option tells whether a value follows.
LEMMA ReadsOption ==
    ASSUME NEW o, IsOption(o), NEW p, IsOption(p)
    PROVE  Reads(EncodeOption(o), EncodeOption(p), o, p)
  <1>1. ASSUME NEW v, IsOption(v)
        PROVE  IF v = None THEN EncodeOption(v) = <<0>>
               ELSE v[1] \in Nat /\ v = <<v[1]>> /\ EncodeOption(v) = <<1, v[1]>>
    BY <1>1 DEF IsOption, EncodeOption, None, Some
  <1>2. CASE o = None /\ p = None
    <2>1. Reads(<<0>>, <<0>>, 0, 0)
      BY ReadsFields
    <2>2. QED BY <1>1, <1>2, <2>1 DEF Reads
  <1>3. CASE o # None /\ p # None
    <2>1. PICK x \in Nat, y \in Nat : /\ EncodeOption(o) = <<1, x>> /\ o = <<x>>
                                      /\ EncodeOption(p) = <<1, y>> /\ p = <<y>>
      BY <1>1, <1>3
    <2>2. Reads(<<1, x>>, <<1, y>>, <<1, x>>, <<1, y>>)
      BY ReadsFields
    <2>3. <<1, x>> = <<1, y>> => <<x>> = <<y>>
      OBVIOUS
    <2>4. QED BY <2>1, <2>2, <2>3 DEF Reads
  <1>4. ASSUME NEW x \in Nat
        PROVE  /\ <<0>> \in Symbols /\ <<1, x>> \in Symbols
               /\ Separate(<<0>>, <<1, x>>) /\ Separate(<<1, x>>, <<0>>) /\ <<0>> # <<1, x>>
    <2>1. PICK a, b : a = <<0>> /\ b = <<1, x>>
      OBVIOUS
    <2>2. /\ a \in Symbols /\ b \in Symbols /\ Len(a) > 0 /\ Len(b) > 0 /\ a[1] # b[1]
      BY <2>1 DEF Symbols
    <2>3. Separate(a, b) /\ Separate(b, a) /\ a # b
      BY <2>2, OtherTag
    <2>4. QED BY <2>1, <2>2, <2>3
  <1>5. CASE o = None /\ p # None
    <2>1. PICK y \in Nat : EncodeOption(p) = <<1, y>> /\ EncodeOption(o) = <<0>>
      BY <1>1, <1>5
    <2>2. QED BY <1>4, <2>1 DEF Reads
  <1>6. CASE o # None /\ p = None
    <2>1. PICK y \in Nat : EncodeOption(o) = <<1, y>> /\ EncodeOption(p) = <<0>>
      BY <1>1, <1>6
    <2>2. QED BY <1>4, <2>1 DEF Reads
  <1>7. QED BY <1>2, <1>3, <1>5, <1>6

\* Inputs, and amounts of an asset.
LEMMA ReadsPairs ==
    /\ \A x, y : IsAsset(x) /\ IsAsset(y) =>
          Reads(EncodeAssetAmount(x), EncodeAssetAmount(y), x, y)
    /\ \A x, y : IsReference(x) /\ IsReference(y) =>
          Reads(EncodeTransactionInput(x), EncodeTransactionInput(y), x, y)
  <1>1. ASSUME NEW x, NEW y, IsAsset(x), IsAsset(y)
        PROVE  Reads(EncodeAssetAmount(x), EncodeAssetAmount(y), x, y)
    <2>1. PICK a \in Nat, b \in Nat : x = AssetAmount(a, b) /\ EncodeAssetAmount(x) = <<a, b>>
      BY <1>1 DEF IsAsset, EncodeAssetAmount
    <2>2. PICK c \in Nat, d \in Nat : y = AssetAmount(c, d) /\ EncodeAssetAmount(y) = <<c, d>>
      BY <1>1 DEF IsAsset, EncodeAssetAmount
    <2>3. Reads(<<a, b>>, <<c, d>>, <<a, b>>, <<c, d>>)
      BY ReadsFields
    <2>4. <<a, b>> = <<c, d>> => x = y
      BY <2>1, <2>2
    <2>5. QED BY <2>1, <2>2, <2>3, <2>4 DEF Reads
  <1>2. ASSUME NEW x, NEW y, IsReference(x), IsReference(y)
        PROVE  Reads(EncodeTransactionInput(x), EncodeTransactionInput(y), x, y)
    <2>1. PICK a \in Nat, b \in Nat :
             x = TransactionInput(a, b) /\ EncodeTransactionInput(x) = <<a, b>>
      BY <1>2 DEF IsReference, EncodeTransactionInput
    <2>2. PICK c \in Nat, d \in Nat :
             y = TransactionInput(c, d) /\ EncodeTransactionInput(y) = <<c, d>>
      BY <1>2 DEF IsReference, EncodeTransactionInput
    <2>3. Reads(<<a, b>>, <<c, d>>, <<a, b>>, <<c, d>>)
      BY ReadsFields
    <2>4. <<a, b>> = <<c, d>> => x = y
      BY <2>1, <2>2
    <2>5. QED BY <2>1, <2>2, <2>3, <2>4 DEF Reads
  <1>3. QED BY <1>1, <1>2

\* A list that is encoded element by element.
IsEncoded(p, s) == p = [i \in DOMAIN s |-> p[i]] /\ \A i \in DOMAIN s : p[i] \in Symbols

LEMMA EncodedStrings ==
    ASSUME NEW s, IsList(s), NEW p, IsEncoded(p, s)
    PROVE  Len(s) \in Nat /\ DOMAIN s = 1..Len(s) /\ IsStrings(p, Len(s))
  <1>1. Len(s) \in Nat /\ DOMAIN s = 1..Len(s)
    BY ListDomain
  <1>2. PICK n \in Nat : n = Len(s)
    BY <1>1
  <1>3. p = [i \in 1..n |-> p[i]]
    BY <1>1, <1>2 DEF IsEncoded
  <1>4. IsList(p) /\ Len(p) = n /\ DOMAIN p = 1..n
    BY <1>3, ListFrom
  <1>5. QED BY <1>1, <1>2, <1>4 DEF IsStrings, IsEncoded

LEMMA ReadsList ==
    ASSUME NEW a, NEW b, NEW x, NEW y, Reads(a, b, x, y),
           NEW s, IsList(s), NEW p, IsEncoded(p, s), NEW t, IsList(t), NEW q, IsEncoded(q, t),
           \A i \in DOMAIN s \cap DOMAIN t : Reads(p[i], q[i], s[i], t[i])
    PROVE  Reads((a \o EncodeLen(s)) \o FlattenSeq(p), (b \o EncodeLen(t)) \o FlattenSeq(q),
                 <<x, s>>, <<y, t>>)
  <1>1. PICK n \in Nat : n = Len(s) /\ DOMAIN s = 1..n /\ IsStrings(p, n)
    BY EncodedStrings
  <1>2. PICK m \in Nat : m = Len(t) /\ DOMAIN t = 1..m /\ IsStrings(q, m)
    BY EncodedStrings
  <1>3. n = m => ReadsEach(p, q, s, t, n)
    BY <1>1, <1>2 DEF ReadsEach
  <1>4. QED BY <1>1, <1>2, <1>3, ReadsListAfter

\* An output: its owner, its assets after their number, and an option.
LEMMA ReadsOutput ==
    ASSUME NEW o, IsCoin(o), NEW p, IsCoin(p)
    PROVE  Reads(EncodeOutput(o), EncodeOutput(p), o, p)
  <1>1. PICK x, s, h : /\ o = Output(x, s, h) /\ IsOption(h) /\ IsList(s) /\ x \in Nat
                       /\ \A i \in DOMAIN s : IsAsset(s[i])
                       /\ x = o.owner_script_hash /\ s = o.assets /\ h = o.metadata_hash
    BY DEF IsCoin
  <1>2. PICK y, t, k : /\ p = Output(y, t, k) /\ IsOption(k) /\ IsList(t) /\ y \in Nat
                       /\ \A i \in DOMAIN t : IsAsset(t[i])
                       /\ y = p.owner_script_hash /\ t = p.assets /\ k = p.metadata_hash
    BY DEF IsCoin
  <1>3. PICK e : e = [i \in DOMAIN s |-> EncodeAssetAmount(s[i])]
    OBVIOUS
  <1>4. PICK f : f = [i \in DOMAIN t |-> EncodeAssetAmount(t[i])]
    OBVIOUS
  <1>5. Reads(<<x>>, <<y>>, x, y)
    BY <1>1, <1>2, ReadsFields
  <1>6. IsEncoded(e, s) /\ IsEncoded(f, t)
    BY <1>1, <1>2, <1>3, <1>4, ReadsPairs DEF IsEncoded, Reads
  <1>7. \A i \in DOMAIN s \cap DOMAIN t : Reads(e[i], f[i], s[i], t[i])
    BY <1>1, <1>2, <1>3, <1>4, ReadsPairs
  <1>8. PICK a, b : /\ a = (<<x>> \o EncodeLen(s)) \o FlattenSeq(e)
                    /\ b = (<<y>> \o EncodeLen(t)) \o FlattenSeq(f)
    OBVIOUS
  <1>9. Reads(a, b, <<x, s>>, <<y, t>>)
    BY <1>1, <1>2, <1>5, <1>6, <1>7, <1>8, ReadsList
  <1>10. PICK c, d : c = EncodeOption(h) /\ d = EncodeOption(k)
    OBVIOUS
  <1>11. Reads(c, d, h, k)
    BY <1>1, <1>2, <1>10, ReadsOption
  <1>12. Reads(a \o c, b \o d, <<<<x, s>>, h>>, <<<<y, t>>, k>>)
    <2>1. c \in Symbols /\ d \in Symbols
      BY <1>11 DEF Reads
    <2>2. QED BY <1>9, <1>11, <2>1, ReadsJoined
  <1>13. <<<<x, s>>, h>> = <<<<y, t>>, k>> => o = p
    BY <1>1, <1>2
  <1>14. EncodeOutput(o) = a \o c
    BY <1>1, <1>3, <1>8, <1>10 DEF EncodeOutput, Concat
  <1>15. EncodeOutput(p) = b \o d
    BY <1>2, <1>4, <1>8, <1>10 DEF EncodeOutput, Concat
  <1>16. QED BY <1>12, <1>13, <1>14, <1>15 DEF Reads

\* An asset definition: three fields, an option, and a field.
LEMMA ReadsDefinition ==
    ASSUME NEW d, IsDefinition(d), NEW e, IsDefinition(e)
    PROVE  Reads(EncodeAssetDefinition(d), EncodeAssetDefinition(e), d, e)
  <1>1. ASSUME NEW g \in AssetKinds, NEW h \in AssetKinds
        PROVE  KindTag(g) \in Nat /\ (KindTag(g) = KindTag(h) => g = h)
    BY DEF AssetKinds, KindTag
  <1>2. PICK x : x = <<d.issuer_script_hash, KindTag(d.kind), d.metadata_root>>
    OBVIOUS
  <1>3. PICK y : y = <<e.issuer_script_hash, KindTag(e.kind), e.metadata_root>>
    OBVIOUS
  <1>4. Reads(x, y, x, y)
    BY <1>1, <1>2, <1>3, ReadsFields DEF IsDefinition
  <1>5. PICK o, p : o = EncodeOption(d.max_supply) /\ p = EncodeOption(e.max_supply)
    OBVIOUS
  <1>6. Reads(o, p, d.max_supply, e.max_supply) /\ o \in Symbols /\ p \in Symbols
    <2>1. Reads(o, p, d.max_supply, e.max_supply)
      BY <1>5, ReadsOption DEF IsDefinition
    <2>2. QED BY <2>1 DEF Reads
  <1>7. PICK a, b : a = x \o o /\ b = y \o p
    OBVIOUS
  <1>8. Reads(a, b, <<x, d.max_supply>>, <<y, e.max_supply>>)
    BY <1>4, <1>6, <1>7, ReadsJoined
  <1>9. PICK u, v : u = <<d.decimals>> /\ v = <<e.decimals>>
    OBVIOUS
  <1>10. Reads(u, v, d.decimals, e.decimals) /\ u \in Symbols /\ v \in Symbols
    <2>1. Reads(u, v, d.decimals, e.decimals)
      BY <1>9, ReadsFields DEF IsDefinition
    <2>2. QED BY <2>1 DEF Reads
  <1>11. Reads(a \o u, b \o v, <<<<x, d.max_supply>>, d.decimals>>,
                               <<<<y, e.max_supply>>, e.decimals>>)
    BY <1>8, <1>10, ReadsJoined
  <1>12. x = y /\ d.max_supply = e.max_supply /\ d.decimals = e.decimals => d = e
    BY <1>1, <1>2, <1>3 DEF IsDefinition
  <1>13. EncodeAssetDefinition(d) = a \o u
    BY <1>2, <1>5, <1>7, <1>9 DEF EncodeAssetDefinition
  <1>14. EncodeAssetDefinition(e) = b \o v
    BY <1>3, <1>5, <1>7, <1>9 DEF EncodeAssetDefinition
  <1>15. QED BY <1>11, <1>12, <1>13, <1>14 DEF Reads

\* A core: a tag, the inputs and the outputs after their numbers, and then a definition if the
\* tag says so.
KindOf(c) == IF c.kind.kind = "Transfer" THEN 0 ELSE 1
TailOf(c) == IF c.kind.kind = "Transfer" THEN << >>
             ELSE EncodeAssetDefinition(c.kind.definition) \o <<c.kind.initial_supply>>

LEMMA ReadsTail ==
    ASSUME NEW c, IsCore(c), NEW d, IsCore(d)
    PROVE  /\ TailOf(c) \in Symbols /\ TailOf(d) \in Symbols
           /\ KindOf(c) = KindOf(d) => Reads(TailOf(c), TailOf(d), c.kind, d.kind)
  <1>1. ASSUME NEW e, IsCore(e)
        PROVE  IF e.kind.kind = "Transfer" THEN e.kind = Transfer
               ELSE /\ e.kind = CreateAsset(e.kind.definition, e.kind.initial_supply)
                    /\ IsDefinition(e.kind.definition) /\ e.kind.initial_supply \in Nat
    BY <1>1 DEF IsCore, IsKind, Transfer, CreateAsset
  <1>2. ASSUME NEW e, IsCore(e), e.kind.kind # "Transfer",
               NEW f, IsCore(f), f.kind.kind # "Transfer"
        PROVE  Reads(TailOf(e), TailOf(f), e.kind, f.kind)
    <2>1. PICK x, v : x = e.kind.definition /\ v = e.kind.initial_supply
      OBVIOUS
    <2>2. PICK y, w : y = f.kind.definition /\ w = f.kind.initial_supply
      OBVIOUS
    <2>3. e.kind = CreateAsset(x, v) /\ IsDefinition(x) /\ v \in Nat
      BY <1>1, <1>2, <2>1
    <2>4. f.kind = CreateAsset(y, w) /\ IsDefinition(y) /\ w \in Nat
      BY <1>1, <1>2, <2>2
    <2>5. PICK a, b : a = EncodeAssetDefinition(x) /\ b = EncodeAssetDefinition(y)
      OBVIOUS
    <2>6. Reads(a, b, x, y)
      BY <2>3, <2>4, <2>5, ReadsDefinition
    <2>7. PICK g, h : g = <<v>> /\ h = <<w>>
      OBVIOUS
    <2>8. Reads(g, h, v, w)
      BY <2>3, <2>4, <2>7, ReadsFields
    <2>9. g \in Symbols /\ h \in Symbols
      BY <2>8 DEF Reads
    <2>10. Reads(a \o g, b \o h, <<x, v>>, <<y, w>>)
      BY <2>6, <2>8, <2>9, ReadsJoined
    <2>11. <<x, v>> = <<y, w>> => e.kind = f.kind
      BY <2>3, <2>4
    <2>12. TailOf(e) = a \o g /\ TailOf(f) = b \o h
      BY <1>2, <2>1, <2>2, <2>5, <2>7 DEF TailOf
    <2>13. QED BY <2>10, <2>11, <2>12 DEF Reads
  <1>3. << >> \in Symbols /\ Separate(<< >>, << >>)
    <2>1. << >> \in Symbols
      BY DEF Symbols
    <2>2. QED BY <2>1, SameWidth
  <1>4. ASSUME NEW e, IsCore(e) PROVE TailOf(e) \in Symbols
    <2>1. CASE e.kind.kind = "Transfer"
      BY <1>3, <2>1 DEF TailOf
    <2>2. CASE e.kind.kind # "Transfer"
      <3>1. Reads(TailOf(e), TailOf(e), e.kind, e.kind)
        BY <1>2, <1>4, <2>2
      <3>2. QED BY <3>1 DEF Reads
    <2>3. QED BY <2>1, <2>2
  <1>5. CASE c.kind.kind = "Transfer" /\ d.kind.kind = "Transfer"
    <2>1. TailOf(c) = << >> /\ TailOf(d) = << >> /\ c.kind = d.kind
      BY <1>1, <1>5 DEF TailOf
    <2>2. QED BY <1>3, <2>1 DEF Reads
  <1>6. CASE c.kind.kind # "Transfer" /\ d.kind.kind # "Transfer"
    BY <1>2, <1>4, <1>6
  <1>7. CASE ~(c.kind.kind = "Transfer" <=> d.kind.kind = "Transfer")
    BY <1>4, <1>7 DEF KindOf
  <1>8. QED BY <1>5, <1>6, <1>7

LEMMA ReadsCore ==
    ASSUME NEW c, IsCore(c), NEW d, IsCore(d)
    PROVE  Reads(EncodeTxCore(c), EncodeTxCore(d), c, d)
  <1>1. PICK k, s, t : k = KindOf(c) /\ s = c.inputs /\ t = c.outputs
    OBVIOUS
  <1>2. PICK l, u, v : l = KindOf(d) /\ u = d.inputs /\ v = d.outputs
    OBVIOUS
  <1>3. /\ k \in Nat /\ IsList(s) /\ IsList(t)
        /\ \A i \in DOMAIN s : IsReference(s[i])
        /\ \A i \in DOMAIN t : IsCoin(t[i])
    BY <1>1 DEF IsCore, KindOf
  <1>4. /\ l \in Nat /\ IsList(u) /\ IsList(v)
        /\ \A i \in DOMAIN u : IsReference(u[i])
        /\ \A i \in DOMAIN v : IsCoin(v[i])
    BY <1>2 DEF IsCore, KindOf
  <1>5. Reads(<<k>>, <<l>>, k, l)
    BY <1>3, <1>4, ReadsFields
  <1>6. PICK e : e = [i \in DOMAIN s |-> EncodeTransactionInput(s[i])]
    OBVIOUS
  <1>7. PICK f : f = [i \in DOMAIN u |-> EncodeTransactionInput(u[i])]
    OBVIOUS
  <1>8. IsEncoded(e, s) /\ IsEncoded(f, u)
    BY <1>3, <1>4, <1>6, <1>7, ReadsPairs DEF IsEncoded, Reads
  <1>9. \A i \in DOMAIN s \cap DOMAIN u : Reads(e[i], f[i], s[i], u[i])
    BY <1>3, <1>4, <1>6, <1>7, ReadsPairs
  <1>10. PICK a, b : /\ a = (<<k>> \o EncodeLen(s)) \o FlattenSeq(e)
                     /\ b = (<<l>> \o EncodeLen(u)) \o FlattenSeq(f)
    OBVIOUS
  <1>11. Reads(a, b, <<k, s>>, <<l, u>>)
    BY <1>3, <1>4, <1>5, <1>8, <1>9, <1>10, ReadsList
  <1>12. PICK g : g = [i \in DOMAIN t |-> EncodeOutput(t[i])]
    OBVIOUS
  <1>13. PICK h : h = [i \in DOMAIN v |-> EncodeOutput(v[i])]
    OBVIOUS
  <1>14. \A o, p : IsCoin(o) /\ IsCoin(p) => Reads(EncodeOutput(o), EncodeOutput(p), o, p)
    BY ReadsOutput
  <1>15. IsEncoded(g, t) /\ IsEncoded(h, v)
    BY <1>3, <1>4, <1>12, <1>13, <1>14 DEF IsEncoded, Reads
  <1>16. \A i \in DOMAIN t \cap DOMAIN v : Reads(g[i], h[i], t[i], v[i])
    BY <1>3, <1>4, <1>12, <1>13, <1>14
  <1>17. PICK m, n : /\ m = (a \o EncodeLen(t)) \o FlattenSeq(g)
                     /\ n = (b \o EncodeLen(v)) \o FlattenSeq(h)
    OBVIOUS
  <1>18. Reads(m, n, <<<<k, s>>, t>>, <<<<l, u>>, v>>)
    BY <1>3, <1>4, <1>11, <1>15, <1>16, <1>17, ReadsList
  <1>19. PICK x, y : x = TailOf(c) /\ y = TailOf(d)
    OBVIOUS
  <1>20. /\ x \in Symbols /\ y \in Symbols
         /\ <<<<k, s>>, t>> = <<<<l, u>>, v>> => Reads(x, y, c.kind, d.kind)
    BY <1>1, <1>2, <1>19, ReadsTail
  <1>21. Reads(m \o x, n \o y, <<<<<<k, s>>, t>>, c.kind>>, <<<<<<l, u>>, v>>, d.kind>>)
    BY <1>18, <1>20, ReadsJoined
  <1>22. s = u /\ t = v /\ c.kind = d.kind => c = d
    BY <1>1, <1>2 DEF IsCore
  <1>23. EncodeTxCore(c) = m \o x
    BY <1>1, <1>6, <1>10, <1>12, <1>17, <1>19 DEF EncodeTxCore, Concat, KindOf, TailOf
  <1>24. EncodeTxCore(d) = n \o y
    BY <1>2, <1>7, <1>10, <1>13, <1>17, <1>19 DEF EncodeTxCore, Concat, KindOf, TailOf
  <1>25. QED BY <1>21, <1>22, <1>23, <1>24 DEF Reads

\* A script: the number of its opcodes, then each with its operands.
IsCode(op) ==
    \/ \E o \in {"CheckSig", "CheckTimeLock", "CheckRelativeTimeLock", "CheckHashLock", "Nop"} :
          op = [op |-> o]
    \/ \E k, n \in Nat : op = [op |-> "CheckMultiSig", threshold |-> k, total |-> n]
    \/ \E d \in Symbols : op = [op |-> "PushBytes", data |-> d]
IsCodes(s) == IsList(s) /\ \A i \in DOMAIN s : IsCode(s[i])

CodeTag(op) == CASE op.op = "CheckSig"              -> 0
                 [] op.op = "CheckMultiSig"         -> 1
                 [] op.op = "CheckTimeLock"         -> 2
                 [] op.op = "CheckRelativeTimeLock" -> 3
                 [] op.op = "CheckHashLock"         -> 4
                 [] op.op = "PushBytes"             -> 5
                 [] op.op = "Nop"                   -> 6
Operands(op) == CASE op.op = "CheckMultiSig" -> <<op.threshold, op.total>>
                  [] op.op = "PushBytes"     -> EncodeLen(op.data) \o op.data
                  [] OTHER                   -> << >>

LEMMA CodeParts ==
    ASSUME NEW op, IsCode(op)
    PROVE  /\ CodeTag(op) \in Nat /\ Operands(op) \in Symbols
           /\ EncodeOp(op) = <<CodeTag(op)>> \o Operands(op)
  <1>1. ASSUME NEW o \in {"CheckSig", "CheckTimeLock", "CheckRelativeTimeLock", "CheckHashLock",
                          "Nop"}, op = [op |-> o]
        PROVE  /\ CodeTag(op) \in Nat /\ Operands(op) \in Symbols
               /\ EncodeOp(op) = <<CodeTag(op)>> \o Operands(op)
    <2>1. PICK k : k = CodeTag(op)
      OBVIOUS
    <2>2. k \in Nat
      BY <1>1, <2>1 DEF CodeTag
    <2>3. Operands(op) = << >> /\ << >> \in Symbols
      BY <1>1 DEF Operands, Symbols
    <2>4. EncodeOp(op) = <<k>>
      BY <1>1, <2>1 DEF EncodeOp, CodeTag
    <2>5. <<k>> \o << >> = <<k>>
      BY <2>2
    <2>6. QED BY <2>1, <2>2, <2>3, <2>4, <2>5
  <1>2. ASSUME NEW k \in Nat, NEW n \in Nat,
               op = [op |-> "CheckMultiSig", threshold |-> k, total |-> n]
        PROVE  /\ CodeTag(op) \in Nat /\ Operands(op) \in Symbols
               /\ EncodeOp(op) = <<CodeTag(op)>> \o Operands(op)
    <2>1. CodeTag(op) = 1 /\ Operands(op) = <<k, n>> /\ EncodeOp(op) = <<1, k, n>>
      BY <1>2 DEF CodeTag, Operands, EncodeOp
    <2>2. <<k, n>> \in Symbols /\ <<1, k, n>> = <<1>> \o <<k, n>>
      BY DEF Symbols
    <2>3. QED BY <2>1, <2>2
  <1>3. ASSUME NEW d \in Symbols, op = [op |-> "PushBytes", data |-> d]
        PROVE  /\ CodeTag(op) \in Nat /\ Operands(op) \in Symbols
               /\ EncodeOp(op) = <<CodeTag(op)>> \o Operands(op)
    <2>1. PICK a, b : a = <<5>> /\ b = EncodeLen(d)
      OBVIOUS
    <2>2. a \in Symbols /\ b \in Symbols
      BY <2>1 DEF Symbols, EncodeLen
    <2>3. CodeTag(op) = 5 /\ Operands(op) = b \o d /\ EncodeOp(op) = (a \o b) \o d
      BY <1>3, <2>1 DEF CodeTag, Operands, EncodeOp
    <2>4. (a \o b) \o d = a \o (b \o d)
      BY <2>2, JoinedTwice
    <2>5. b \o d \in Symbols
      BY <2>2, JoinedSymbols
    <2>6. QED BY <2>1, <2>3, <2>4, <2>5
  <1>4. QED BY <1>1, <1>2, <1>3 DEF IsCode

LEMMA ReadsOperands ==
    ASSUME NEW op, IsCode(op), NEW other, IsCode(other), CodeTag(op) = CodeTag(other)
    PROVE  Reads(Operands(op), Operands(other), op, other)
  <1>1. op.op = other.op
    BY DEF IsCode, CodeTag
  <1>2. ASSUME NEW o \in {"CheckSig", "CheckTimeLock", "CheckRelativeTimeLock", "CheckHashLock",
                          "Nop"}, op = [op |-> o]
        PROVE  Reads(Operands(op), Operands(other), op, other)
    <2>1. other = op
      BY <1>1, <1>2 DEF IsCode
    <2>2. Operands(op) = << >> /\ Operands(other) = << >> /\ << >> \in Symbols
      BY <1>2, <2>1 DEF Operands, Symbols
    <2>3. Separate(<< >>, << >>)
      BY <2>2, SameWidth
    <2>4. QED BY <2>1, <2>2, <2>3 DEF Reads
  <1>3. ASSUME NEW k \in Nat, NEW n \in Nat,
               op = [op |-> "CheckMultiSig", threshold |-> k, total |-> n]
        PROVE  Reads(Operands(op), Operands(other), op, other)
    <2>1. PICK l \in Nat, m \in Nat :
             other = [op |-> "CheckMultiSig", threshold |-> l, total |-> m]
      BY <1>1, <1>3 DEF IsCode
    <2>2. Operands(op) = <<k, n>> /\ Operands(other) = <<l, m>>
      BY <1>3, <2>1 DEF Operands
    <2>3. Reads(<<k, n>>, <<l, m>>, <<k, n>>, <<l, m>>)
      BY ReadsFields
    <2>4. <<k, n>> = <<l, m>> => op = other
      BY <1>3, <2>1
    <2>5. QED BY <2>2, <2>3, <2>4 DEF Reads
  <1>4. ASSUME NEW d \in Symbols, op = [op |-> "PushBytes", data |-> d]
        PROVE  Reads(Operands(op), Operands(other), op, other)
    <2>1. PICK e \in Symbols : other = [op |-> "PushBytes", data |-> e]
      BY <1>1, <1>4 DEF IsCode
    <2>2. PICK a, b : a = <<Len(d)>> /\ b = <<Len(e)>>
      OBVIOUS
    <2>3. Len(d) \in Nat /\ Len(e) \in Nat
      BY DEF Symbols
    <2>4. Reads(a, b, Len(d), Len(e))
      BY <2>2, <2>3, ReadsFields
    <2>5. Len(d) = Len(e) => Reads(d, e, d, e)
      BY SameWidth DEF Reads
    <2>6. Reads(a \o d, b \o e, <<Len(d), d>>, <<Len(e), e>>)
      BY <2>4, <2>5, ReadsJoined
    <2>7. <<Len(d), d>> = <<Len(e), e>> => op = other
      BY <1>4, <2>1
    <2>8. Operands(op) = a \o d
      BY <1>4, <2>2 DEF Operands, EncodeLen
    <2>9. Operands(other) = b \o e
      BY <2>1, <2>2 DEF Operands, EncodeLen
    <2>10. QED BY <2>6, <2>7, <2>8, <2>9 DEF Reads
  <1>5. QED BY <1>2, <1>3, <1>4 DEF IsCode

LEMMA ReadsOp ==
    ASSUME NEW op, IsCode(op), NEW other, IsCode(other)
    PROVE  Reads(EncodeOp(op), EncodeOp(other), op, other)
  <1>1. PICK k, a : k = CodeTag(op) /\ a = Operands(op)
    OBVIOUS
  <1>2. PICK l, b : l = CodeTag(other) /\ b = Operands(other)
    OBVIOUS
  <1>3. k \in Nat /\ a \in Symbols /\ EncodeOp(op) = <<k>> \o a
    BY <1>1, CodeParts
  <1>4. l \in Nat /\ b \in Symbols /\ EncodeOp(other) = <<l>> \o b
    BY <1>2, CodeParts
  <1>5. Reads(<<k>>, <<l>>, k, l)
    BY <1>3, <1>4, ReadsFields
  <1>6. k = l => Reads(a, b, op, other)
    BY <1>1, <1>2, ReadsOperands
  <1>7. Reads(<<k>> \o a, <<l>> \o b, <<k, op>>, <<l, other>>)
    BY <1>3, <1>4, <1>5, <1>6, ReadsJoined
  <1>8. QED BY <1>3, <1>4, <1>7 DEF Reads

LEMMA ReadsScript ==
    ASSUME NEW s, IsCodes(s), NEW t, IsCodes(t)
    PROVE  Reads(EncodeScript(s), EncodeScript(t), s, t)
  <1>1. PICK p : p = [i \in DOMAIN s |-> EncodeOp(s[i])]
    OBVIOUS
  <1>2. PICK q : q = [i \in DOMAIN t |-> EncodeOp(t[i])]
    OBVIOUS
  <1>3. \A o, u : IsCode(o) /\ IsCode(u) => Reads(EncodeOp(o), EncodeOp(u), o, u)
    BY ReadsOp
  <1>4. IsList(s) /\ IsList(t)
    BY DEF IsCodes
  <1>5. IsEncoded(p, s) /\ IsEncoded(q, t)
    BY <1>1, <1>2, <1>3 DEF IsCodes, IsEncoded, Reads
  <1>6. \A i \in DOMAIN s \cap DOMAIN t : Reads(p[i], q[i], s[i], t[i])
    BY <1>1, <1>2, <1>3 DEF IsCodes
  <1>7. << >> \in Symbols /\ Separate(<< >>, << >>)
    <2>1. << >> \in Symbols
      BY DEF Symbols
    <2>2. QED BY <2>1, SameWidth
  <1>8. Reads(<< >>, << >>, 0, 0)
    BY <1>7 DEF Reads
  <1>9. Reads((<< >> \o EncodeLen(s)) \o FlattenSeq(p), (<< >> \o EncodeLen(t)) \o FlattenSeq(q),
              <<0, s>>, <<0, t>>)
    BY <1>4, <1>5, <1>6, <1>8, ReadsList
  <1>10. << >> \o EncodeLen(s) = EncodeLen(s) /\ << >> \o EncodeLen(t) = EncodeLen(t)
    BY <1>4, ListDomain DEF EncodeLen
  <1>11. EncodeScript(s) = EncodeLen(s) \o FlattenSeq(p)
    BY <1>1 DEF EncodeScript, Concat
  <1>12. EncodeScript(t) = EncodeLen(t) \o FlattenSeq(q)
    BY <1>2 DEF EncodeScript, Concat
  <1>13. QED BY <1>9, <1>10, <1>11, <1>12 DEF Reads

\* What is signed for one input, and where an encoding starts another.
IsRequest(r) ==
    /\ r = [prev |-> r.prev, index |-> r.index, script_hash |-> r.script_hash,
            chain_id |-> r.chain_id, flags |-> r.flags]
    /\ IsCoin(r.prev) /\ r.index \in Nat /\ r.script_hash \in Nat
    /\ r.chain_id \in Nat /\ r.flags \in Nat

LEMMA StartsReads ==
    ASSUME NEW a, NEW b, NEW x, NEW y, Reads(a, b, x, y), Starts(a, b) PROVE x = y
  <1>1. /\ a \in Seq(Nat) /\ b \in Seq(Nat) /\ a \in Symbols /\ b \in Symbols
        /\ Separate(a, b) /\ (a = b => x = y)
    BY DEF Reads, Symbols
  <1>2. Len(a) \in Nat /\ Len(b) \in Nat /\ Len(a) <= Len(b) /\ SubSeq(b, 1, Len(a)) = a
    BY <1>1 DEF Starts
  <1>3. PICK v : v = SubSeq(b, Len(a) + 1, Len(b))
    OBVIOUS
  <1>4. v \in Seq(Nat) /\ Len(v) = Len(b) - Len(a)
    BY <1>1, <1>2, <1>3
  <1>5. a \o v = b
    <2>1. a \o v \in Seq(Nat) /\ Len(a \o v) = Len(b)
      BY <1>1, <1>2, <1>4
    <2>2. ASSUME NEW i \in 1..Len(b) PROVE (a \o v)[i] = b[i]
      <3>1. CASE i <= Len(a)
        <4>1. (a \o v)[i] = a[i]
          BY <1>1, <1>2, <1>4, <3>1
        <4>2. SubSeq(b, 1, Len(a))[i] = b[i]
          BY <1>1, <1>2, <3>1
        <4>3. QED BY <1>2, <4>1, <4>2
      <3>2. CASE ~(i <= Len(a))
        <4>1. (a \o v)[i] = v[i - Len(a)]
          BY <1>1, <1>2, <1>4, <3>2
        <4>2. v[i - Len(a)] = b[i]
          BY <1>1, <1>2, <1>3, <3>2
        <4>3. QED BY <4>1, <4>2
      <3>3. QED BY <3>1, <3>2
    <2>3. QED BY <1>1, <2>1, <2>2, SeqEqual
  <1>6. a \o v = b \o << >> /\ v \in Symbols /\ << >> \in Symbols
    BY <1>1, <1>4, <1>5 DEF Symbols
  <1>7. a = b
    BY <1>1, <1>6 DEF Separate
  <1>8. QED BY <1>1, <1>7

LEMMA ReadsPreimage ==
    ASSUME NEW c, IsCore(c), NEW r, IsRequest(r), NEW d, IsCore(d), NEW q, IsRequest(q),
           SighashPreimage(c, r) = SighashPreimage(d, q)
    PROVE  c = d /\ r = q
  <1>0. PICK t \in Nat : t = 1001
    OBVIOUS
  <1>1. PICK a, b : a = <<t, r.chain_id>> /\ b = <<t, q.chain_id>>
    OBVIOUS
  <1>2. Reads(a, b, a, b)
    BY <1>1, ReadsFields DEF IsRequest
  <1>3. PICK e, f : e = EncodeTxCore(c) /\ f = EncodeTxCore(d)
    OBVIOUS
  <1>4. Reads(e, f, c, d) /\ e \in Symbols /\ f \in Symbols
    <2>1. Reads(e, f, c, d)
      BY <1>3, ReadsCore
    <2>2. QED BY <2>1 DEF Reads
  <1>5. PICK g, h : g = a \o e /\ h = b \o f
    OBVIOUS
  <1>6. Reads(g, h, <<a, c>>, <<b, d>>)
    BY <1>2, <1>4, <1>5, ReadsJoined
  <1>7. PICK k, l : k = EncodeOutput(r.prev) /\ l = EncodeOutput(q.prev)
    OBVIOUS
  <1>8. Reads(k, l, r.prev, q.prev) /\ k \in Symbols /\ l \in Symbols
    <2>1. Reads(k, l, r.prev, q.prev)
      BY <1>7, ReadsOutput DEF IsRequest
    <2>2. QED BY <2>1 DEF Reads
  <1>9. PICK m, n : m = g \o k /\ n = h \o l
    OBVIOUS
  <1>10. Reads(m, n, <<<<a, c>>, r.prev>>, <<<<b, d>>, q.prev>>)
    BY <1>6, <1>8, <1>9, ReadsJoined
  <1>11. PICK u, v : /\ u = <<r.index, r.script_hash, r.flags>>
                     /\ v = <<q.index, q.script_hash, q.flags>>
    OBVIOUS
  <1>12. Reads(u, v, u, v) /\ u \in Symbols /\ v \in Symbols
    <2>1. Reads(u, v, u, v)
      BY <1>11, ReadsFields DEF IsRequest
    <2>2. QED BY <2>1 DEF Reads
  <1>13. Reads(m \o u, n \o v, <<<<<<a, c>>, r.prev>>, u>>, <<<<<<b, d>>, q.prev>>, v>>)
    BY <1>10, <1>12, ReadsJoined
  <1>14. m \o u = n \o v
    <2>1. SighashPreimage(c, r) = m \o u
      BY <1>0, <1>1, <1>3, <1>5, <1>7, <1>9, <1>11 DEF SighashPreimage
    <2>2. SighashPreimage(d, q) = n \o v
      BY <1>0, <1>1, <1>3, <1>5, <1>7, <1>9, <1>11 DEF SighashPreimage
    <2>3. QED BY <2>1, <2>2
  <1>15. a = b /\ c = d /\ r.prev = q.prev /\ u = v
    BY <1>13, <1>14 DEF Reads
  <1>16. r.chain_id = q.chain_id
    BY <1>1, <1>15
  <1>17. r.index = q.index /\ r.script_hash = q.script_hash /\ r.flags = q.flags
    BY <1>11, <1>15
  <1>18. QED BY <1>15, <1>16, <1>17 DEF IsRequest

LEMMA ReadsAssetId ==
    ASSUME NEW d, IsDefinition(d), NEW i \in Nat, NEW e, IsDefinition(e), NEW j \in Nat,
           AssetIdPreimage(d, i) = AssetIdPreimage(e, j)
    PROVE  d = e /\ i = j
  <1>0. PICK t \in Nat : t = 1000
    OBVIOUS
  <1>1. PICK a, b : a = <<t, i>> /\ b = <<t, j>>
    OBVIOUS
  <1>2. Reads(a, b, a, b)
    BY <1>1, ReadsFields
  <1>3. PICK k, l : k = EncodeAssetDefinition(d) /\ l = EncodeAssetDefinition(e)
    OBVIOUS
  <1>4. Reads(k, l, d, e) /\ k \in Symbols /\ l \in Symbols
    <2>1. Reads(k, l, d, e)
      BY <1>3, ReadsDefinition
    <2>2. QED BY <2>1 DEF Reads
  <1>5. Reads(a \o k, b \o l, <<a, d>>, <<b, e>>)
    BY <1>2, <1>4, ReadsJoined
  <1>6. a \o k = b \o l
    BY <1>0, <1>1, <1>3 DEF AssetIdPreimage
  <1>7. a = b /\ d = e
    BY <1>5, <1>6 DEF Reads
  <1>8. QED BY <1>1, <1>7

(***************************************************************************)
(* The bytes of encode_tx_core, of a script, of a signature hash and of an *)
(* asset identifier stand for one value each, however many inputs,         *)
(* outputs, assets and opcodes there are and whatever their fields hold:   *)
(* the identifiers of Types and ScriptEngine are as injective as the hash  *)
(* function.  The bytes of a core or a script do not start those of        *)
(* another either.  A signature hash names the whole transaction, the      *)
(* output that is spent, its index, its script and the chain.              *)
(***************************************************************************)
THEOREM BytesIdentify ==
    /\ \A c, d : IsCore(c) /\ IsCore(d) /\ Starts(EncodeTxCore(c), EncodeTxCore(d)) => c = d
    /\ \A s, t : IsCodes(s) /\ IsCodes(t) /\ Starts(EncodeScript(s), EncodeScript(t)) => s = t
    /\ \A c, d, r, q : IsCore(c) /\ IsCore(d) /\ IsRequest(r) /\ IsRequest(q)
          /\ SighashPreimage(c, r) = SighashPreimage(d, q) => c = d /\ r = q
    /\ \A d, e : \A i, j \in Nat : IsDefinition(d) /\ IsDefinition(e)
          /\ AssetIdPreimage(d, i) = AssetIdPreimage(e, j) => d = e /\ i = j
  <1>1. ASSUME NEW c, NEW d, IsCore(c), IsCore(d), Starts(EncodeTxCore(c), EncodeTxCore(d))
        PROVE  c = d
    BY <1>1, ReadsCore, StartsReads
  <1>2. ASSUME NEW s, NEW t, IsCodes(s), IsCodes(t), Starts(EncodeScript(s), EncodeScript(t))
        PROVE  s = t
    BY <1>2, ReadsScript, StartsReads
  <1>3. QED BY <1>1, <1>2, ReadsPreimage, ReadsAssetId

(***************************************************************************)
(* The composer of documents.  What it has composed so far is a value that *)
(* can be encoded, and so is every document it is compared with.           *)
(***************************************************************************)
CodecInv ==
    /\ IsCore(core) /\ IsCodes(ops)
    /\ core.kind # Transfer => core.kind.definition \in Definitions
    /\ request = None \/ \E r \in Requests : request = Some(r)

LEMMA UpToLists ==
    ASSUME NEW S, NEW n \in Nat, NEW s \in UpTo(S, n)
    PROVE  IsList(s) /\ \A i \in DOMAIN s : s[i] \in S
  <1>1. PICK k \in 0..n : s \in [1..k -> S]
    BY DEF UpTo
  <1>2. k \in Nat /\ s = [i \in 1..k |-> s[i]]
    BY <1>1
  <1>3. IsList(s)
    BY <1>2, ListFrom
  <1>4. QED BY <1>1, <1>3

LEMMA SequenceList ==
    ASSUME NEW A, NEW t \in Seq(A)
    PROVE  t = [i \in 1..Len(t) |-> t[i]] /\ DOMAIN t = 1..Len(t)
  OBVIOUS

GrowsBy(t, s, e) ==
    /\ IsList(t) /\ t[Len(t)] = e
    /\ \A i \in DOMAIN t : i = Len(t) \/ (i \in DOMAIN s /\ t[i] = s[i])

LEMMA ListGrows ==
    ASSUME NEW s, IsList(s), NEW e, NEW t, t = Append(s, e)
    PROVE  GrowsBy(t, s, e)
  <1>1. PICK n \in Nat : n = Len(s) /\ DOMAIN s = 1..n
    BY ListDomain
  <1>2. s \in Seq(ToSet(s) \union {e})
    <2>1. PICK A : A = ToSet(s)
      OBVIOUS
    <2>2. s \in Seq(A) /\ Len(s) = n
      BY <1>1, <2>1 DEF IsList
    <2>3. s \in Seq(A \union {e})
      BY <2>2
    <2>4. QED BY <2>1, <2>3
  <1>3. PICK A : A = ToSet(s) \union {e}
    OBVIOUS
  <1>4. s \in Seq(A) /\ e \in A
    BY <1>2, <1>3
  <1>5. /\ t \in Seq(A) /\ Len(t) = n + 1 /\ t[n + 1] = e
        /\ \A i \in 1..n : t[i] = s[i]
    BY <1>1, <1>4
  <1>6. t = [i \in 1..(n + 1) |-> t[i]] /\ DOMAIN t = 1..(n + 1)
    <2>1. PICK m \in Nat : m = n + 1 /\ Len(t) = m
      BY <1>5
    <2>2. t = [i \in 1..m |-> t[i]] /\ DOMAIN t = 1..m
      <3>1. t \in Seq(A) /\ Len(t) = m
        BY <1>5, <2>1
      <3>2. QED BY <3>1, SequenceList
    <2>3. QED BY <2>1, <2>2
  <1>7. IsList(t)
    BY <1>6, ListFrom
  <1>8. ASSUME NEW i \in DOMAIN t PROVE i = Len(t) \/ (i \in DOMAIN s /\ t[i] = s[i])
    <2>1. i = n + 1 \/ i \in 1..n
      BY <1>6
    <2>2. QED BY <1>1, <1>5, <2>1
  <1>9. QED BY <1>5, <1>7, <1>8 DEF GrowsBy

LEMMA BoundsAre ==
    /\ MaxInputs \in Nat /\ MaxOutputs \in Nat /\ MaxAssets \in Nat
    /\ MaxOps \in Nat /\ MaxData \in Nat
  BY CodecConstants

\* The documents of the instance can be encoded.
LEMMA OutputsAre ==
    ASSUME NEW o \in Outputs PROVE IsCoin(o)
  <1> DEFINE Listed == UpTo({AssetAmount(i, v) : i \in Hashes, v \in Amounts}, MaxAssets)
  <1>0. Outputs = {Output(x, s, h) : x \in Hashes, h \in Options(Hashes), s \in Listed}
    BY DEF Outputs
  <1>1. PICK x \in Hashes, h \in Options(Hashes), s \in Listed : o = Output(x, s, h)
    <2> HIDE DEF Listed
    <2>1. QED BY <1>0
  <1>2. x \in Nat
    BY CodecConstants
  <1>3. IsOption(h)
    BY CodecConstants DEF Options, IsOption, None, Some
  <1>4. IsList(s) /\ \A i \in DOMAIN s : s[i] \in {AssetAmount(j, v) : j \in Hashes, v \in Amounts}
    BY BoundsAre, UpToLists
  <1>5. \A i \in DOMAIN s : IsAsset(s[i])
    BY <1>4, CodecConstants DEF IsAsset, AssetAmount
  <1>6. o.owner_script_hash = x /\ o.assets = s /\ o.metadata_hash = h
    BY <1>1 DEF Output
  <1>7. QED BY <1>1, <1>2, <1>3, <1>4, <1>5, <1>6 DEF IsCoin

LEMMA InputsAre ==
    ASSUME NEW x \in Inputs PROVE IsReference(x)
  BY CodecConstants DEF Inputs, IsReference, TransactionInput

LEMMA DefinitionsAre ==
    ASSUME NEW d \in Definitions PROVE IsDefinition(d)
  <1>1. /\ d \in [issuer_script_hash : Nat, kind : AssetKinds, metadata_root : Nat,
                 max_supply : {d.max_supply}, decimals : Nat]
        /\ d.max_supply # None => /\ d.max_supply = Some(d.max_supply[1])
                                  /\ d.max_supply[1] \in Nat
    BY CodecConstants
  <1>2. IsOption(d.max_supply)
    BY <1>1 DEF IsOption
  <1>3. QED BY <1>1, <1>2 DEF IsDefinition

LEMMA OpsAre ==
    ASSUME NEW op \in EncodableOps PROVE IsCode(op)
  <1>1. ASSUME NEW d \in UpTo(0..6, MaxData) PROVE d \in Symbols
    <2>1. IsList(d) /\ \A i \in DOMAIN d : d[i] \in 0..6
      BY BoundsAre, UpToLists
    <2>2. PICK n \in Nat : n = Len(d) /\ DOMAIN d = 1..n
      BY <2>1, ListDomain
    <2>3. d = [i \in 1..n |-> d[i]]
      BY <2>1, <2>2 DEF IsList
    <2>4. \A i \in 1..n : d[i] \in Nat
      BY <2>1, <2>2
    <2>5. QED BY <2>3, <2>4 DEF Symbols
  <1>2. ASSUME NEW d \in UpTo(0..6, MaxData), op = [op |-> "PushBytes", data |-> d]
        PROVE  IsCode(op)
    BY <1>1, <1>2 DEF IsCode
  <1>3. ASSUME NEW k \in Amounts, NEW n \in Amounts,
               op = [op |-> "CheckMultiSig", threshold |-> k, total |-> n]
        PROVE  IsCode(op)
    <2>1. k \in Nat /\ n \in Nat
      BY CodecConstants
    <2>2. QED BY <1>3, <2>1 DEF IsCode
  <1>4. ASSUME NEW o \in {"CheckSig", "CheckTimeLock", "CheckRelativeTimeLock", "CheckHashLock",
                          "Nop"}, op = [op |-> o]
        PROVE  IsCode(op)
    BY <1>4 DEF IsCode
  <1>5. QED BY <1>2, <1>3, <1>4 DEF EncodableOps

LEMMA CoresAre ==
    ASSUME NEW c \in Cores PROVE IsCore(c)
  <1>1. PICK k \in TxKinds, i \in UpTo(Inputs, MaxInputs), o \in UpTo(Outputs, MaxOutputs) :
             c = [kind |-> k, inputs |-> i, outputs |-> o]
    BY DEF Cores
  <1>2. IsList(i) /\ \A j \in DOMAIN i : IsReference(i[j])
    <2>1. IsList(i) /\ \A j \in DOMAIN i : i[j] \in Inputs
      BY BoundsAre, UpToLists
    <2>2. QED BY <2>1, InputsAre
  <1>3. IsList(o) /\ \A j \in DOMAIN o : IsCoin(o[j])
    <2>1. IsList(o) /\ \A j \in DOMAIN o : o[j] \in Outputs
      BY BoundsAre, UpToLists
    <2>2. QED BY <2>1, OutputsAre
  <1>4. IsKind(k)
    <2>1. ASSUME NEW d \in Definitions, NEW v \in Amounts, k = CreateAsset(d, v) PROVE IsKind(k)
      <3>1. IsDefinition(d) /\ v \in Nat
        BY DefinitionsAre, CodecConstants
      <3>2. k.definition = d /\ k.initial_supply = v
        BY <2>1 DEF CreateAsset
      <3>3. QED BY <2>1, <3>1, <3>2 DEF IsKind
    <2>2. QED BY <2>1 DEF TxKinds, IsKind
  <1>5. c.kind = k /\ c.inputs = i /\ c.outputs = o
    BY <1>1
  <1>6. QED BY <1>1, <1>2, <1>3, <1>4, <1>5 DEF IsCore

LEMMA RequestsAre ==
    ASSUME NEW r \in Requests PROVE IsRequest(r)
  <1>1. /\ r.prev \in Outputs /\ r.index \in Amounts /\ r.script_hash \in Hashes
        /\ r.chain_id \in ChainIds /\ r.flags \in {0}
        /\ r = [prev |-> r.prev, index |-> r.index, script_hash |-> r.script_hash,
                chain_id |-> r.chain_id, flags |-> r.flags]
    BY DEF Requests
  <1>2. IsCoin(r.prev)
    BY <1>1, OutputsAre
  <1>3. QED BY <1>1, <1>2, CodecConstants DEF IsRequest

CodecSpec == CodecInit /\ [][CodecNext]_codecVars

LEMMA CodecInitInv == CodecInit => CodecInv
  <1> SUFFICES ASSUME CodecInit PROVE CodecInv
    OBVIOUS
  <1>1. core = EmptyCore /\ request = None /\ ops = << >>
    BY DEF CodecInit
  <1>2. IsList(<< >>) /\ DOMAIN << >> = {}
    <2>1. PICK e : e = << >>
      OBVIOUS
    <2>2. e = [i \in 1..0 |-> e[i]] /\ DOMAIN e = {}
      BY <2>1
    <2>3. IsList(e)
      BY <2>2, ListFrom
    <2>4. QED BY <2>1, <2>2, <2>3
  <1>3. core.kind = Transfer /\ core.inputs = << >> /\ core.outputs = << >>
    BY <1>1 DEF EmptyCore
  <1>4. IsCore(core)
    BY <1>1, <1>2, <1>3 DEF IsCore, IsKind, EmptyCore
  <1>5. IsCodes(ops)
    BY <1>1, <1>2 DEF IsCodes
  <1>6. QED BY <1>1, <1>3, <1>4, <1>5 DEF CodecInv

LEMMA CodecNextInv == CodecInv /\ [CodecNext]_codecVars => CodecInv'
  <1> SUFFICES ASSUME CodecInv, [CodecNext]_codecVars PROVE CodecInv'
    OBVIOUS
  <1>1. CASE UNCHANGED codecVars
    BY <1>1 DEF CodecInv, codecVars
  <1>2. CASE NewDocument
    BY <1>2 DEF NewDocument, CodecInv
  <1>3. CASE AddInput
    <2>1. PICK i \in Inputs : core' = [core EXCEPT !.inputs = Append(@, i)]
      BY <1>3 DEF AddInput
    <2>2. PICK s, t : s = core.inputs /\ t = Append(s, i)
      OBVIOUS
    <2>3. IsList(s) /\ \A j \in DOMAIN s : IsReference(s[j])
      BY <2>2 DEF CodecInv, IsCore
    <2>4. /\ IsList(t) /\ t[Len(t)] = i
          /\ \A j \in DOMAIN t : j = Len(t) \/ (j \in DOMAIN s /\ t[j] = s[j])
      <3>1. GrowsBy(t, s, i)
        BY <2>2, <2>3, ListGrows
      <3>2. QED BY <3>1 DEF GrowsBy
    <2>5. \A j \in DOMAIN t : IsReference(t[j])
      BY <2>3, <2>4, InputsAre
    <2>6. core' = [kind |-> core.kind, inputs |-> t, outputs |-> core.outputs]
      BY <2>1, <2>2 DEF CodecInv, IsCore
    <2>7. core'.kind = core.kind /\ core'.inputs = t /\ core'.outputs = core.outputs
      BY <2>6
    <2>8. IsCore(core')
      BY <2>4, <2>5, <2>6, <2>7 DEF CodecInv, IsCore
    <2>9. request' = request /\ ops' = ops
      BY <1>3 DEF AddInput
    <2>10. QED BY <2>7, <2>8, <2>9 DEF CodecInv
  <1>4. CASE AddOutput
    <2>1. PICK o \in Outputs : core' = [core EXCEPT !.outputs = Append(@, o)]
      BY <1>4 DEF AddOutput
    <2>2. PICK s, t : s = core.outputs /\ t = Append(s, o)
      OBVIOUS
    <2>3. IsList(s) /\ \A j \in DOMAIN s : IsCoin(s[j])
      BY <2>2 DEF CodecInv, IsCore
    <2>4. /\ IsList(t) /\ t[Len(t)] = o
          /\ \A j \in DOMAIN t : j = Len(t) \/ (j \in DOMAIN s /\ t[j] = s[j])
      <3>1. GrowsBy(t, s, o)
        BY <2>2, <2>3, ListGrows
      <3>2. QED BY <3>1 DEF GrowsBy
    <2>5. \A j \in DOMAIN t : IsCoin(t[j])
      BY <2>3, <2>4, OutputsAre
    <2>6. core' = [kind |-> core.kind, inputs |-> core.inputs, outputs |-> t]
      BY <2>1, <2>2 DEF CodecInv, IsCore
    <2>7. core'.kind = core.kind /\ core'.inputs = core.inputs /\ core'.outputs = t
      BY <2>6
    <2>8. IsCore(core')
      BY <2>4, <2>5, <2>6, <2>7 DEF CodecInv, IsCore
    <2>9. request' = request /\ ops' = ops
      BY <1>4 DEF AddOutput
    <2>10. QED BY <2>7, <2>8, <2>9 DEF CodecInv
  <1>5. CASE CreateAssetTransaction
    <2>1. PICK d \in Definitions, v \in Amounts :
             \/ core' = [core EXCEPT !.kind = CreateAsset(d, v)]
             \/ \E h, id \in Hashes : core' = CreateAssetCore(d, v, h, id)
      BY <1>5 DEF CreateAssetTransaction
    <2>2. PICK k : k = CreateAsset(d, v)
      OBVIOUS
    <2>3. k.definition = d /\ k.initial_supply = v
      BY <2>2 DEF CreateAsset
    <2>4. IsKind(k)
      <3>1. IsDefinition(d) /\ v \in Nat
        BY DefinitionsAre, CodecConstants
      <3>2. QED BY <2>2, <2>3, <3>1 DEF IsKind
    <2>5. ASSUME core' = [core EXCEPT !.kind = CreateAsset(d, v)]
          PROVE  IsCore(core') /\ core'.kind = k
      <3>1. core' = [kind |-> k, inputs |-> core.inputs, outputs |-> core.outputs]
        BY <2>2, <2>5 DEF CodecInv, IsCore
      <3>2. core'.kind = k /\ core'.inputs = core.inputs /\ core'.outputs = core.outputs
        BY <3>1
      <3>3. QED BY <2>4, <3>1, <3>2 DEF CodecInv, IsCore
    <2>6. ASSUME NEW h \in Hashes, NEW id \in Hashes, core' = CreateAssetCore(d, v, h, id)
          PROVE  IsCore(core') /\ core'.kind = k
      <3>1. PICK a, s, o, t, e : /\ a = AssetAmount(id, v) /\ s = <<a>> /\ o = Output(h, s, None)
                                 /\ t = <<o>> /\ e = << >>
        OBVIOUS
      <3>2. core' = [kind |-> k, inputs |-> e, outputs |-> t]
        BY <2>2, <2>6, <3>1 DEF CreateAssetCore
      <3>3. core'.kind = k /\ core'.inputs = e /\ core'.outputs = t
        BY <3>2
      <3>4. IsAsset(a)
        BY <3>1, CodecConstants DEF IsAsset, AssetAmount
      <3>5. s = [i \in 1..1 |-> s[i]] /\ t = [i \in 1..1 |-> t[i]] /\ e = [i \in 1..0 |-> e[i]]
        BY <3>1
      <3>6. /\ IsList(s) /\ DOMAIN s = 1..1 /\ IsList(t) /\ DOMAIN t = 1..1
            /\ IsList(e) /\ DOMAIN e = {}
        <4>1. IsList(s) /\ DOMAIN s = 1..1
          BY <3>5, ListFrom
        <4>2. IsList(t) /\ DOMAIN t = 1..1
          BY <3>5, ListFrom
        <4>3. IsList(e) /\ DOMAIN e = 1..0
          BY <3>5, ListFrom
        <4>4. 1..0 = {}
          OBVIOUS
        <4>5. QED BY <4>1, <4>2, <4>3, <4>4
      <3>7. \A i \in DOMAIN s : IsAsset(s[i])
        BY <3>1, <3>4, <3>6
      <3>8. o.owner_script_hash = h /\ o.assets = s /\ o.metadata_hash = None
        BY <3>1 DEF Output
      <3>9. IsCoin(o)
        BY <3>1, <3>6, <3>7, <3>8, CodecConstants DEF IsCoin, IsOption
      <3>10. \A i \in DOMAIN t : IsCoin(t[i])
        BY <3>1, <3>6, <3>9
      <3>11. QED BY <2>4, <3>2, <3>3, <3>6, <3>10 DEF IsCore
    <2>7. IsCore(core') /\ core'.kind = k
      BY <2>1, <2>5, <2>6
    <2>8. request' = request /\ ops' = ops
      BY <1>5 DEF CreateAssetTransaction
    <2>9. QED BY <2>3, <2>7, <2>8 DEF CodecInv
  <1>6. CASE RequestSignature
    BY <1>6 DEF RequestSignature, CodecInv
  <1>7. CASE AddOp
    <2>1. PICK o \in EncodableOps : ops' = Append(ops, o)
      BY <1>7 DEF AddOp
    <2>2. IsList(ops) /\ \A j \in DOMAIN ops : IsCode(ops[j])
      BY DEF CodecInv, IsCodes
    <2>3. PICK t : t = ops'
      OBVIOUS
    <2>4. /\ IsList(t) /\ t[Len(t)] = o
          /\ \A j \in DOMAIN t : j = Len(t) \/ (j \in DOMAIN ops /\ t[j] = ops[j])
      <3>1. GrowsBy(t, ops, o)
        BY <2>1, <2>2, <2>3, ListGrows
      <3>2. QED BY <3>1 DEF GrowsBy
    <2>5. \A j \in DOMAIN t : IsCode(t[j])
      BY <2>2, <2>4, OpsAre
    <2>6. IsCodes(ops')
      BY <2>3, <2>4, <2>5 DEF IsCodes
    <2>7. core' = core /\ request' = request
      BY <1>7 DEF AddOp
    <2>8. QED BY <2>6, <2>7 DEF CodecInv
  <1>8. QED BY <1>1, <1>2, <1>3, <1>4, <1>5, <1>6, <1>7 DEF CodecNext

(***************************************************************************)
(* Readable, whatever the wallet composes: encode_tx_core and              *)
(* Script::consensus_encode tell their values apart and where they end.    *)
(***************************************************************************)
THEOREM ReadableHolds == CodecSpec => []Readable
  <1>1. CodecInv => Readable
    <2> SUFFICES ASSUME CodecInv PROVE Readable
      OBVIOUS
    <2>1. ASSUME NEW c \in Cores, Starts(EncodeTxCore(core), CoreEncodings[c]) PROVE c = core
      <3>1. CoreEncodings[c] = EncodeTxCore(c)
        BY DEF CoreEncodings
      <3>2. Reads(EncodeTxCore(core), EncodeTxCore(c), core, c)
        BY CoresAre, ReadsCore DEF CodecInv
      <3>3. QED BY <2>1, <3>1, <3>2, StartsReads
    <2>2. ASSUME NEW s \in UpTo(EncodableOps, MaxOps),
                 Starts(EncodeScript(ops), ScriptEncodings[s])
          PROVE  s = ops
      <3>1. ScriptEncodings[s] = EncodeScript(s)
        BY DEF ScriptEncodings
      <3>2. IsCodes(s)
        <4>1. IsList(s) /\ \A i \in DOMAIN s : s[i] \in EncodableOps
          BY BoundsAre, UpToLists
        <4>2. QED BY <4>1, OpsAre DEF IsCodes
      <3>3. Reads(EncodeScript(ops), EncodeScript(s), ops, s)
        BY <3>2, ReadsScript DEF CodecInv
      <3>4. QED BY <2>2, <3>1, <3>3, StartsReads
    <2>3. QED BY <2>1, <2>2 DEF Readable
  <1>2. QED BY <1>1, CodecInitInv, CodecNextInv, PTL DEF CodecSpec

(***************************************************************************)
(* OneMeaning, whatever the wallet composes: no two inputs that            *)
(* sighash_for_input and no two definitions that asset_id_from_definition  *)
(* are called with have the same pre-image.                                *)
(***************************************************************************)
THEOREM OneMeaningHolds == CodecSpec => []OneMeaning
  <1>1. CodecInv => OneMeaning
    <2> SUFFICES ASSUME CodecInv PROVE OneMeaning
      OBVIOUS
    <2>1. ASSUME request # None, NEW r \in Requests,
                 SighashPreimage(core, r) = SighashPreimage(core, request[1])
          PROVE  r = request[1]
      <3>1. PICK q \in Requests : request = Some(q)
        BY <2>1 DEF CodecInv
      <3>2. request[1] = q
        BY <3>1 DEF Some
      <3>3. IsRequest(q) /\ IsRequest(r) /\ IsCore(core)
        BY RequestsAre DEF CodecInv
      <3>4. QED BY <2>1, <3>2, <3>3, ReadsPreimage
    <2>2. ASSUME core.kind # Transfer, NEW d \in Definitions,
                 NEW i \in ChainIds, NEW j \in ChainIds,
                 AssetIdPreimage(core.kind.definition, i) = AssetIdPreimage(d, j)
          PROVE  d = core.kind.definition /\ i = j
      <3>1. PICK e \in Definitions : e = core.kind.definition
        BY <2>2 DEF CodecInv
      <3>2. IsDefinition(d) /\ IsDefinition(e) /\ i \in Nat /\ j \in Nat
        BY DefinitionsAre, CodecConstants
      <3>3. QED BY <2>2, <3>1, <3>2, ReadsAssetId
    <2>3. QED BY <2>1, <2>2 DEF OneMeaning
  <1>2. QED BY <1>1, CodecInitInv, CodecNextInv, PTL DEF CodecSpec
=============================================================================
