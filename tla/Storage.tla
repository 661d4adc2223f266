------------------------------ MODULE Storage ------------------------------
(***************************************************************************)
(* The chain state file: the snapshot format, write_file_atomically step   *)
(* by step, and a machine that may fail any step, lose the process or lose *)
(* power.  (Replica takes a save for one step; the history and the key     *)
(* file are written in the same way.)                                      *)
(*                                                                         *)
(* A file has entries; the first `written' of them have been written, and  *)
(* the first `synced' of those survive a loss of power, later ones may or  *)
(* may not.  The same holds for a rename until the directory is synced.    *)
(***************************************************************************)
EXTENDS Types, SequencesExt

CONSTANTS
    Ledgers,      \* the ledgers a process saves, in this order
    MaxFaults     \* bound: failing operations, crashes, losses of power

\* A ledger has finitely many unspent outputs and assets.
IsChainState(ledger) ==
    /\ ledger = [utxos |-> ledger.utxos, assets |-> ledger.assets]
    /\ ledger.utxos = [k \in DOMAIN ledger.utxos |-> ledger.utxos[k]]
    /\ ledger.assets = [k \in DOMAIN ledger.assets |-> ledger.assets[k]]
    /\ IsFiniteSet(DOMAIN ledger.utxos) /\ IsFiniteSet(DOMAIN ledger.assets)
    /\ \A k \in DOMAIN ledger.utxos : k \in [tx_id : Nat, index : Nat]
    /\ \A a \in DOMAIN ledger.assets : a \in Nat

ASSUME StorageConstants ==
    /\ MaxFaults \in Nat
    /\ Len(Ledgers) \in Nat
    /\ \A n \in 1..Len(Ledgers) : IsChainState(Ledgers[n])

(***************************************************************************)
(* The snapshot: UTXOs and assets as lists sorted by their keys.  A key of *)
(* a UTXO is a transaction identifier and an index, here two numbers.      *)
(***************************************************************************)
Before(k, l) == k.tx_id < l.tx_id \/ (k.tx_id = l.tx_id /\ k.index < l.index)

Sorted(keys, Less(_, _)) ==
    CHOOSE s \in [1..Cardinality(keys) -> keys] :
        \A i, j \in DOMAIN s : i < j => Less(s[i], s[j])

ToSnapshot(ledger) ==
    LET utxos == Sorted(DOMAIN ledger.utxos, Before)
        assets == Sorted(DOMAIN ledger.assets, LAMBDA a, b : a < b)
    IN  [i \in DOMAIN utxos |-> [kind |-> "utxo", key |-> utxos[i],
                                 value |-> ledger.utxos[utxos[i]]]]
        \o [i \in DOMAIN assets |-> [kind |-> "asset", key |-> assets[i],
                                     value |-> ledger.assets[assets[i]]]]

\* None when two entries have the same key.
IntoChainState(snapshot) ==
    LET of(kind) == {i \in DOMAIN snapshot : snapshot[i].kind = kind}
        map(kind) == [k \in {snapshot[i].key : i \in of(kind)} |->
                        snapshot[CHOOSE i \in of(kind) : snapshot[i].key = k].value]
    IN  IF \E i, j \in DOMAIN snapshot :
              /\ i # j /\ snapshot[i].kind = snapshot[j].kind
              /\ snapshot[i].key = snapshot[j].key
        THEN None
        ELSE Some([utxos |-> map("utxo"), assets |-> map("asset")])

-----------------------------------------------------------------------------
VARIABLES
    pc,        \* the step of write_file_atomically, "idle" or "down"
    saving,    \* which ledger is being saved, or was saved last
    acked,     \* the last one whose save returned Ok (0 at first)
    temp,      \* the file under the temporary name, an Option
    file,      \* the file under the path, an Option
    onDisk,    \* what the synced directory has under the path, an Option
    loaded,    \* what the last start read: a ledger, None if there is no file
               \* (of = 0) or it cannot be read (of is the ledger it was saved for)
    faults

files == <<temp, file, onDisk>>
storageVars == <<pc, saving, acked, loaded, files, faults>>

\* A new file for ledger n: a header line and an entry each, none written yet.
NewFile(n) == [of |-> n, written |-> 0, synced |-> 0]
Length(f) == Len(ToSnapshot(Ledgers[f.of])) + 1
Whole(f) == f.written = Length(f)

\* What load_chain_state makes of a file: None when it is cut off.
Parse(f) == IF Whole(f) THEN IntoChainState(ToSnapshot(Ledgers[f.of])) ELSE None

Nothing == [of |-> 0, ledger |-> None]

StorageInit ==
    /\ pc = "down" /\ saving = 0 /\ acked = 0
    /\ temp = None /\ file = None /\ onDisk = None
    /\ loaded = Nothing /\ faults = 0

Fault == faults < MaxFaults /\ faults' = faults + 1

Load ==
    /\ pc = "down"
    /\ pc' = "idle"
    /\ loaded' = IF file = None THEN Nothing
                 ELSE [of |-> file[1].of, ledger |-> Parse(file[1])]
    /\ UNCHANGED <<saving, acked, files, faults>>

Save ==
    /\ pc = "idle" /\ saving < Len(Ledgers)
    /\ saving' = saving + 1
    /\ pc' = "create"
    /\ UNCHANGED <<acked, loaded, files, faults>>

\* File::create truncates what an earlier save left under the name.
Create ==
    /\ pc = "create" /\ pc' = "write"
    /\ temp' = Some(NewFile(saving))
    /\ UNCHANGED <<saving, acked, loaded, file, onDisk, faults>>

Write ==
    /\ pc = "write"
    /\ temp' = [temp EXCEPT ![1].written = @ + 1]
    /\ pc' = IF Whole(temp'[1]) THEN "sync" ELSE "write"
    /\ UNCHANGED <<saving, acked, loaded, file, onDisk, faults>>

\* Mutant: the file is closed without a sync.
MutSyncAll(f) == f

SyncAll(f) == [f EXCEPT !.synced = f.written]

Sync ==
    /\ pc = "sync" /\ pc' = "rename"
    /\ temp' = Some(SyncAll(temp[1]))
    /\ UNCHANGED <<saving, acked, loaded, file, onDisk, faults>>

Rename ==
    /\ pc = "rename" /\ pc' = "sync dir"
    /\ file' = temp /\ temp' = None
    /\ UNCHANGED <<saving, acked, loaded, onDisk, faults>>

\* Mutant: Ok without a sync of the directory.
MutSyncParentDir == UNCHANGED onDisk

SyncParentDir == onDisk' = file

\* The path names a directory.  (The parent of a bare file name is the empty
\* path, which cannot be opened: every save of such a path ends in Fails.)
Saved ==
    /\ pc = "sync dir"
    /\ SyncParentDir
    /\ pc' = "idle" /\ acked' = saving
    /\ UNCHANGED <<saving, loaded, temp, file, faults>>

\* A step returns an error, and so does the save.
Fails ==
    /\ pc \notin {"down", "idle"}
    /\ Fault
    /\ pc' = "idle"
    /\ UNCHANGED <<saving, acked, loaded, files>>

\* The process dies; the operating system keeps what it wrote.
Crash ==
    /\ pc # "down" /\ Fault
    /\ pc' = "down"
    /\ UNCHANGED <<saving, acked, loaded, files>>

\* What is not synced may be lost: the rename, and the end of the file.
LosePower ==
    /\ Fault
    /\ pc' = "down"
    /\ \E survivor \in {file, onDisk} :
          \E cut \in IF survivor = None THEN {0}
                     ELSE survivor[1].synced..survivor[1].written :
             LET left == IF survivor = None THEN None
                         ELSE Some([survivor[1] EXCEPT !.written = cut, !.synced = cut])
             IN  file' = left /\ onDisk' = left
    /\ temp' = None
    /\ UNCHANGED <<saving, acked, loaded>>

StorageNext ==
    \/ Load \/ Save \/ Create \/ Write \/ Sync \/ Rename \/ Saved
    \/ Fails \/ Crash \/ LosePower

StorageSpec == StorageInit /\ [][StorageNext]_storageVars

-----------------------------------------------------------------------------
\* Wherever a save was interrupted, a start finds no file, or one that reads as
\* a ledger that some save was given: never a part of one or one it cannot read
\* (write_file_atomically syncs the file before it renames it, and the snapshot
\* keeps the outputs of one transaction and the assets apart).
ReadsBack == loaded.of > 0 => loaded.ledger = Some(Ledgers[loaded.of])

\* Once a save has returned Ok, no crash and no loss of power brings an older
\* ledger back, not even in the middle of later saves.
SavedSurvives == acked > 0 => /\ file # None /\ file[1].of >= acked
                              /\ onDisk # None /\ onDisk[1].of >= acked
=============================================================================
