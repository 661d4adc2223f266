--------------------------- MODULE ReplicaProofs ---------------------------
(***************************************************************************)
(* Proofs about Replica, for any set of nodes, keys, validator lists,      *)
(* transactions and clock readings.                                        *)
(*                                                                         *)
(* The argument for Agreement: the validator list and the height determine *)
(* the proposer of a block, the proposer's key determines the node that    *)
(* made it, and every block that left that node is still in the node's own *)
(* chain at its height.  So two nodes with the same list both hold what    *)
(* the proposer holds.  The hashes play no part.                           *)
(*                                                                         *)
(* A node accepts its own files because they record a run: every block in  *)
(* them was made or validated on the chain that the blocks before it       *)
(* replay to (FilesInv).                                                   *)
(*                                                                         *)
(* The log that ReplicatedLog speaks of is the longest history of the      *)
(* cluster; only the node whose turn it is makes it longer.                *)
(*                                                                         *)
(* No transaction is committed twice because a header names the header     *)
(* before it: a block from the wire fits a chain only if its proposer made *)
(* it on that very chain, and the proposer chose transactions that were    *)
(* new there (MempoolInv).                                                 *)
(***************************************************************************)
EXTENDS ReplicaLog, LedgerProofs

-----------------------------------------------------------------------------
(***************************************************************************)
(* The inductive invariant.                                                *)
(***************************************************************************)
\* A block that node n may have at height h: it is for that height, by the
\* proposer n's validator list asks for, and n got it from the wire or made it.
SoundAt(b, n, h) ==
    /\ b.header.height = h
    /\ b.proposer_public_key \in Key
    /\ Validators[n] # << >> =>
          b.proposer_public_key = ExpectedProposer(Validators[n], h)
    /\ b \in wire \/ OwnerOf[b.proposer_public_key] = n

HistorySound ==
    \A n \in Node :
        /\ \A h \in DOMAIN blocks[n] : SoundAt(blocks[n][h], n, h)
        /\ \A h \in DOMAIN diskBlocks[n] : SoundAt(diskBlocks[n][h], n, h)

\* t is s, or s with one more element at its end.
AtMostOneMore(s, t) ==
    /\ Len(t) \in {Len(s), Len(s) + 1}
    /\ \A h \in DOMAIN s : t[h] = s[h]

DiskHoldsChain == \A n \in Node : AtMostOneMore(blocks[n], diskBlocks[n])

HeightIsLength ==
    \A n \in Node : phase[n] = "up" => chain[n].height = Len(blocks[n])

KeysAreOwn == \A n \in Node : OwnerOf[key[n]] = n

\* A published block is in the chain of the node that made it, at its height.
WireOwned ==
    \A b \in wire :
        /\ b.proposer_public_key \in Key
        /\ b.header.height \in DOMAIN blocks[OwnerOf[b.proposer_public_key]]
        /\ blocks[OwnerOf[b.proposer_public_key]][b.header.height] = b

IndInv ==
    /\ TypeOK
    /\ HistorySound
    /\ DiskHoldsChain
    /\ HeightIsLength
    /\ KeysAreOwn
    /\ WireOwned

-----------------------------------------------------------------------------
(***************************************************************************)
(* Sequences.                                                              *)
(***************************************************************************)
\* The empty history is a sequence.
LEMMA EmptyIsSeq == IsSeq(<< >>) /\ Len(<< >>) = 0 /\ DOMAIN << >> = {}
BY DEF IsSeq

\* The positions of a history are 1 to its length.
LEMMA SeqDomain ==
    ASSUME NEW s, IsSeq(s)
    PROVE  Len(s) \in Nat /\ DOMAIN s = 1..Len(s)
BY DEF IsSeq

\* What appending a block to a history (next_blocks.push) does.
LEMMA AppendFacts ==
    ASSUME NEW s, NEW e, IsSeq(s)
    PROVE  /\ IsSeq(Append(s, e))
           /\ Len(Append(s, e)) = Len(s) + 1
           /\ DOMAIN Append(s, e) = 1..(Len(s) + 1)
           /\ \A i \in 1..Len(s) : Append(s, e)[i] = s[i]
           /\ Append(s, e)[Len(s) + 1] = e
<1> DEFINE S == {s[i] : i \in DOMAIN s} \cup {e}
           t == Append(s, e)
<1>1. s \in Seq({s[i] : i \in DOMAIN s})
  BY DEF IsSeq
<1>2. s \in Seq(S) /\ e \in S
  BY <1>1
<1> HIDE DEF S
<1>3. /\ t \in Seq(S)
      /\ Len(t) = Len(s) + 1
      /\ DOMAIN t = 1..(Len(s) + 1)
      /\ \A i \in 1..Len(s) : t[i] = s[i]
      /\ t[Len(s) + 1] = e
  BY <1>2
<1> HIDE DEF t
<1>4. t \in Seq({t[i] : i \in DOMAIN t})
  BY <1>3
<1> QED
  BY <1>3, <1>4 DEF IsSeq, t

\* A history extended by at most one block is extended at its end.
LEMMA OneMoreIsPrefix ==
    ASSUME NEW s, NEW t, IsSeq(s), IsSeq(t), AtMostOneMore(s, t)
    PROVE  IsPrefix(s, t)
<1>1. /\ Len(s) \in Nat /\ Len(t) \in Nat /\ Len(s) <= Len(t)
      /\ DOMAIN s = 1..Len(s) /\ DOMAIN t = 1..Len(t)
  BY SeqDomain DEF AtMostOneMore
<1>2. \A i \in 1..Len(s) : s[i] = t[i]
  BY <1>1 DEF AtMostOneMore
<1>3. SubSeq(s, 1, Len(s)) = [i \in 1..Len(s) |-> s[i]]
  BY <1>1 DEF IsSeq
<1>4. SubSeq(t, 1, Len(s)) = [i \in 1..Len(s) |-> t[i]]
  BY <1>1 DEF IsSeq
<1> QED
  BY <1>1, <1>2, <1>3, <1>4 DEF IsPrefix

-----------------------------------------------------------------------------
(***************************************************************************)
(* What the proofs need of the code's functions.                           *)
(***************************************************************************)
\* A valid block is for the next height and, when there is a validator list, by
\* the proposer the list asks for (validate_replayed_block).
LEMMA ValidBlock ==
    ASSUME NEW c, NEW b, NEW vs, ValidateReplayedBlock(c, b, vs)
    PROVE  b.header.height = c.height + 1 /\ ProposerIsExpected(b, vs)
BY DEF ValidateReplayedBlock

\* Applying a block sets the height to the block's and keeps the chain's identity
\* (ChainState::apply_block).
LEMMA AppliedHeight ==
    ASSUME NEW c, NEW b
    PROVE  ApplyBlock(c, b).height = b.header.height /\ ApplyBlock(c, b).chain_id = c.chain_id
BY DEF ApplyBlock

\* The chain a process starts from has height zero and the configured identity
\* (default_chain_state_with_id).
LEMMA DefaultHeight ==
    ASSUME NEW i
    PROVE  DefaultChainState(i).height = 0 /\ DefaultChainState(i).chain_id = i
BY DEF DefaultChainState

\* A proposed block carries the proposer's own key (propose_block).
LEMMA ProposedBy ==
    ASSUME NEW c, NEW txs, NEW k, NEW now
    PROVE  ProposeBlock(c, txs, k, now).proposer_public_key = k
BY DEF ProposeBlock

-----------------------------------------------------------------------------
\* The initial state satisfies the invariant.
LEMMA InitInv == ASSUME Init PROVE IndInv
<1>1. TypeOK
  BY EmptyIsSeq, DefaultHeight DEF Init, TypeOK
<1>2. HistorySound /\ DiskHoldsChain /\ HeightIsLength /\ KeysAreOwn /\ WireOwned
  BY EmptyIsSeq DEF Init, HistorySound, DiskHoldsChain, AtMostOneMore,
                    HeightIsLength, KeysAreOwn, WireOwned
<1> QED
  BY <1>1, <1>2 DEF IndInv

(***************************************************************************)
(* apply_block on a block that came from the wire or that the node made:   *)
(* the case behind Produce and ReceiveBlock.                               *)
(***************************************************************************)
\* The block fits at the end of the node's history.
LEMMA NextBlockSound ==
    ASSUME IndInv, NEW n \in Node, NEW b, phase[n] = "up",
           b.proposer_public_key \in Key,
           b \in wire \/ OwnerOf[b.proposer_public_key] = n,
           ValidateReplayedBlock(chain[n], b, EngineValidators(n))
    PROVE  /\ b.header.height = Len(blocks[n]) + 1
           /\ SoundAt(b, n, Len(blocks[n]) + 1)
<1>1. b.header.height = Len(blocks[n]) + 1
  BY ValidBlock DEF IndInv, HeightIsLength
<1>2. ProposerIsExpected(b, EngineValidators(n))
  BY ValidBlock
<1>3. ASSUME Validators[n] # << >>
      PROVE  b.proposer_public_key = ExpectedProposer(Validators[n], b.header.height)
  BY <1>2, <1>3 DEF ProposerIsExpected, EngineValidators, EffectiveValidators
<1> QED
  BY <1>1, <1>3 DEF SoundAt

\* Applying such a block preserves the invariant, whether the files were saved
\* and the block adopted, or a save failed.
LEMMA ApplyPreserves ==
    ASSUME IndInv, NEW n \in Node, NEW b, phase[n] = "up",
           b.proposer_public_key \in Key,
           b \in wire \/ OwnerOf[b.proposer_public_key] = n,
           NodeApplyBlock(n, b)
    PROVE  IndInv'
<1> DEFINE nc == ApplyBlock(chain[n], b)
           nb == Append(blocks[n], b)
<1>1. /\ ValidateReplayedBlock(chain[n], b, EngineValidators(n))
      /\ Adopt(n, nc, nb) \/ SaveFails(n, nc, nb)
      /\ phase' = phase /\ key' = key /\ wire' = wire
  BY DEF NodeApplyBlock, HistoryWith
<1>2. b.header.height = Len(blocks[n]) + 1 /\ SoundAt(b, n, Len(blocks[n]) + 1)
  BY <1>1, NextBlockSound
<1>3. IsSeq(blocks[n]) /\ Len(blocks[n]) \in Nat /\ DOMAIN blocks[n] = 1..Len(blocks[n])
  BY SeqDomain DEF IndInv, TypeOK
<1>4. /\ IsSeq(nb)
      /\ Len(nb) = Len(blocks[n]) + 1
      /\ DOMAIN nb = 1..(Len(blocks[n]) + 1)
      /\ \A i \in 1..Len(blocks[n]) : nb[i] = blocks[n][i]
      /\ nb[Len(blocks[n]) + 1] = b
  BY <1>3, AppendFacts
<1>5. nc.height = Len(blocks[n]) + 1 /\ nc.chain_id = ChainIdOf[n]
  BY <1>2, AppliedHeight DEF IndInv, TypeOK
<1> HIDE DEF nc, nb
<1>6. \A h \in DOMAIN nb : SoundAt(nb[h], n, h)
  <2> TAKE h \in DOMAIN nb
  <2>1. CASE h = Len(blocks[n]) + 1
    BY <2>1, <1>2, <1>4
  <2>2. CASE h # Len(blocks[n]) + 1
    <3>1. h \in DOMAIN blocks[n] /\ nb[h] = blocks[n][h]
      BY <2>2, <1>3, <1>4
    <3> QED
      BY <3>1 DEF IndInv, HistorySound
  <2> QED
    BY <2>1, <2>2
<1>7. AtMostOneMore(blocks[n], nb)
  BY <1>3, <1>4 DEF AtMostOneMore
<1>8. diskBlocks' = [diskBlocks EXCEPT ![n] = nb]
  BY <1>1 DEF Adopt, SaveFails
<1>9. \A m \in Node : \A e, h : SoundAt(e, m, h) => SoundAt(e, m, h)'
  BY <1>1 DEF SoundAt
<1>10. CASE Adopt(n, nc, nb)
  <2>1. /\ chain' = [chain EXCEPT ![n] = nc]
        /\ blocks' = [blocks EXCEPT ![n] = nb]
        /\ DOMAIN pending' = DOMAIN pending
        /\ DOMAIN diskChain' = DOMAIN diskChain
    BY <1>10 DEF Adopt
  <2>2. TypeOK'
    BY <1>1, <1>3, <1>4, <1>5, <1>8, <2>1 DEF IndInv, TypeOK
  <2>3. HistorySound'
    BY <1>6, <1>8, <1>9, <2>1 DEF IndInv, TypeOK, HistorySound
  <2>4. DiskHoldsChain'
    BY <1>4, <1>8, <2>1 DEF IndInv, TypeOK, DiskHoldsChain, AtMostOneMore
  <2>5. HeightIsLength'
    BY <1>1, <1>4, <1>5, <2>1 DEF IndInv, TypeOK, HeightIsLength
  <2>6. KeysAreOwn'
    BY <1>1 DEF IndInv, KeysAreOwn
  <2>7. \A m \in Node : \A h \in DOMAIN blocks[m] :
            h \in DOMAIN blocks'[m] /\ blocks'[m][h] = blocks[m][h]
    BY <1>3, <1>4, <2>1 DEF IndInv, TypeOK
  <2>8. WireOwned'
    BY <1>1, <2>7, ReplicaConstants DEF IndInv, WireOwned
  <2> QED
    BY <2>2, <2>3, <2>4, <2>5, <2>6, <2>8 DEF IndInv
<1>11. CASE SaveFails(n, nc, nb)
  <2>1. chain' = chain /\ blocks' = blocks /\ pending' = pending
        /\ DOMAIN diskChain' = DOMAIN diskChain
    BY <1>11 DEF SaveFails
  <2>2. TypeOK'
    BY <1>1, <1>4, <1>8, <2>1 DEF IndInv, TypeOK
  <2>3. HistorySound'
    BY <1>6, <1>8, <1>9, <2>1 DEF IndInv, TypeOK, HistorySound
  <2>4. DiskHoldsChain'
    BY <1>7, <1>8, <2>1 DEF IndInv, TypeOK, DiskHoldsChain
  <2>5. HeightIsLength' /\ KeysAreOwn' /\ WireOwned'
    BY <1>1, <2>1 DEF IndInv, HeightIsLength, KeysAreOwn, WireOwned
  <2> QED
    BY <2>2, <2>3, <2>4, <2>5 DEF IndInv
<1> QED
  BY <1>1, <1>10, <1>11

\* Every step preserves the invariant.
LEMMA NextInv == ASSUME IndInv, [Next]_vars PROVE IndInv'
<1> USE DEF vars, memory, disk
<1>1. ASSUME NEW n \in Node, NEW tx \in Txs, AcceptTransaction(n, tx)
      PROVE  IndInv'
  <2>1. /\ DOMAIN pending' = DOMAIN pending
        /\ UNCHANGED <<phase, key, chain, blocks, diskBlocks, diskChain, wire>>
    BY <1>1 DEF AcceptTransaction
  <2> QED
    BY <2>1 DEF IndInv, TypeOK, HistorySound, SoundAt, DiskHoldsChain,
                HeightIsLength, KeysAreOwn, WireOwned
<1>2. ASSUME NEW n \in Node, NEW now \in Clock, Produce(n, now)
      PROVE  IndInv'
  <2> DEFINE b == ProposeBlock(chain[n], pending[n], key[n], now)
  <2>1. phase[n] = "up" /\ NodeApplyBlock(n, b)
    BY <1>2 DEF Produce
  <2>2. b.proposer_public_key = key[n]
    BY ProposedBy
  <2>3. b.proposer_public_key \in Key /\ OwnerOf[b.proposer_public_key] = n
    BY <2>2 DEF IndInv, TypeOK, KeysAreOwn
  <2> HIDE DEF b
  <2> QED
    BY <2>1, <2>3, ApplyPreserves
<1>3. ASSUME NEW n \in Node, NEW b \in wire, ReceiveBlock(n, b)
      PROVE  IndInv'
  <2>1. phase[n] = "up" /\ NodeApplyBlock(n, b)
    BY <1>3 DEF ReceiveBlock
  <2>2. b.proposer_public_key \in Key
    BY DEF IndInv, WireOwned
  <2> QED
    BY <2>1, <2>2, ApplyPreserves
<1>4. ASSUME NEW n \in Node, NEW h \in DOMAIN blocks[n], SendBlock(n, h)
      PROVE  IndInv'
  <2>1. /\ wire' = wire \cup {blocks[n][h]}
        /\ UNCHANGED <<phase, key, chain, blocks, pending, diskBlocks, diskChain>>
    BY <1>4 DEF SendBlock
  <2>2. SoundAt(blocks[n][h], n, h)
    BY DEF IndInv, HistorySound
  <2>3. TypeOK' /\ DiskHoldsChain' /\ HeightIsLength' /\ KeysAreOwn'
    BY <2>1 DEF IndInv, TypeOK, DiskHoldsChain, HeightIsLength, KeysAreOwn
  <2>4. HistorySound'
    BY <2>1 DEF IndInv, HistorySound, SoundAt
  <2>5. WireOwned'
    <3>1. CASE blocks[n][h] \in wire
      BY <3>1, <2>1 DEF IndInv, WireOwned
    <3>2. CASE OwnerOf[blocks[n][h].proposer_public_key] = n
      BY <3>2, <2>1, <2>2 DEF IndInv, WireOwned, SoundAt
    <3> QED
      BY <3>1, <3>2, <2>2 DEF SoundAt
  <2> QED
    BY <2>3, <2>4, <2>5 DEF IndInv
<1>5. ASSUME NEW n \in Node, Crash(n) \/ RepairFails(n)
      PROVE  IndInv'
  <2>1. /\ phase' = [phase EXCEPT ![n] = "down"]
        /\ chain' = [chain EXCEPT ![n] = DefaultChainState(ChainIdOf[n])]
        /\ DOMAIN pending' = DOMAIN pending
        /\ DOMAIN diskChain' = DOMAIN diskChain
        /\ UNCHANGED <<key, blocks, diskBlocks, wire>>
    BY <1>5 DEF Crash, RepairFails
  <2>2. TypeOK'
    BY <2>1, DefaultHeight DEF IndInv, TypeOK
  <2>3. HeightIsLength'
    BY <2>1 DEF IndInv, TypeOK, HeightIsLength
  <2> QED
    BY <2>1, <2>2, <2>3 DEF IndInv, HistorySound, SoundAt, DiskHoldsChain,
                            KeysAreOwn, WireOwned
<1>6. ASSUME NEW n \in Node, Start(n)
      PROVE  IndInv'
  <2>1. PICK k : /\ k \in IF n \in KeyFile THEN {key[n]} ELSE KeysOf(n)
                 /\ key' = [key EXCEPT ![n] = k]
    BY <1>6 DEF Start
  <2>2. k \in Key /\ OwnerOf[k] = n
    BY <2>1 DEF IndInv, TypeOK, KeysAreOwn, KeysOf
  <2>3. /\ phase' = [phase EXCEPT ![n] = "replaying"]
        /\ UNCHANGED <<chain, blocks, pending, diskBlocks, diskChain, wire>>
    BY <1>6 DEF Start
  <2>4. TypeOK' /\ KeysAreOwn' /\ HeightIsLength'
    BY <2>1, <2>2, <2>3 DEF IndInv, TypeOK, KeysAreOwn, HeightIsLength
  <2> QED
    BY <2>3, <2>4 DEF IndInv, HistorySound, SoundAt, DiskHoldsChain, WireOwned
<1>7. ASSUME NEW n \in Node, Replay(n)
      PROVE  IndInv'
  <2> DEFINE b == diskBlocks[n][chain[n].height + 1]
  <2>1. /\ phase[n] = "replaying" /\ phase'[n] # "up"
        /\ \/ phase' = phase
           \/ phase' = [phase EXCEPT ![n] = "refused"]
        /\ UNCHANGED <<key, blocks, pending, diskBlocks, diskChain, wire>>
    BY <1>7 DEF Replay, IndInv, TypeOK
  <2>2. \/ chain' = chain
        \/ /\ ValidateReplayedBlock(chain[n], b, Validators[n])
           /\ chain' = [chain EXCEPT ![n] = ApplyBlock(chain[n], b)]
    BY <1>7 DEF Replay, ReplayValidators
  <2> HIDE DEF b
  <2>3. /\ DOMAIN chain' = Node
        /\ \A m \in Node : chain'[m].height \in Nat /\ chain'[m].chain_id = ChainIdOf[m]
    <3>1. ASSUME ValidateReplayedBlock(chain[n], b, Validators[n])
          PROVE  /\ ApplyBlock(chain[n], b).height \in Nat
                 /\ ApplyBlock(chain[n], b).chain_id = ChainIdOf[n]
      BY <3>1, ValidBlock, AppliedHeight DEF IndInv, TypeOK
    <3> QED
      BY <2>2, <3>1 DEF IndInv, TypeOK
  <2>4. TypeOK'
    BY <2>1, <2>3 DEF IndInv, TypeOK
  <2>5. HeightIsLength'
    BY <2>1, <2>2 DEF IndInv, TypeOK, HeightIsLength
  <2> QED
    BY <2>1, <2>4, <2>5 DEF IndInv, HistorySound, SoundAt, DiskHoldsChain,
                            KeysAreOwn, WireOwned
<1>8. ASSUME NEW n \in Node, FinishStart(n)
      PROVE  IndInv'
  <2>1. UNCHANGED <<key, chain, pending, diskBlocks, wire>>
        /\ DOMAIN diskChain' = DOMAIN diskChain
    BY <1>8 DEF FinishStart
  <2>2. CASE WrongChainId(n)
    <3>1. phase' = [phase EXCEPT ![n] = "refused"] /\ blocks' = blocks
      BY <1>8, <2>2 DEF FinishStart
    <3>2. TypeOK' /\ HeightIsLength'
      BY <2>1, <3>1 DEF IndInv, TypeOK, HeightIsLength
    <3> QED
      BY <2>1, <3>1, <3>2 DEF IndInv, HistorySound, SoundAt, DiskHoldsChain,
                              KeysAreOwn, WireOwned
  <2>3. CASE ~WrongChainId(n)
    <3>1. /\ phase' = [phase EXCEPT ![n] = "up"]
          /\ blocks' = [blocks EXCEPT ![n] = diskBlocks[n]]
          /\ chain[n].height = Len(diskBlocks[n])
      BY <1>8, <2>3 DEF FinishStart
    <3>2. TypeOK' /\ HeightIsLength' /\ KeysAreOwn'
      BY <2>1, <3>1 DEF IndInv, TypeOK, HeightIsLength, KeysAreOwn
    <3>3. HistorySound'
      BY <2>1, <3>1 DEF IndInv, TypeOK, HistorySound, SoundAt
    <3>4. DiskHoldsChain'
      BY <2>1, <3>1 DEF IndInv, TypeOK, DiskHoldsChain, AtMostOneMore
    <3>5. \A m \in Node : \A h \in DOMAIN blocks[m] :
              h \in DOMAIN blocks'[m] /\ blocks'[m][h] = blocks[m][h]
      <4>1. \A h \in DOMAIN blocks[n] :
                h \in DOMAIN diskBlocks[n] /\ diskBlocks[n][h] = blocks[n][h]
        BY SeqDomain DEF IndInv, TypeOK, DiskHoldsChain, AtMostOneMore
      <4> QED
        BY <3>1, <4>1 DEF IndInv, TypeOK
    <3>6. WireOwned'
      BY <2>1, <3>5, ReplicaConstants DEF IndInv, WireOwned
    <3> QED
      BY <3>2, <3>3, <3>4, <3>6 DEF IndInv
  <2> QED
    BY <2>2, <2>3
<1>9. ASSUME UNCHANGED vars
      PROVE  IndInv'
  BY <1>9 DEF IndInv, TypeOK, HistorySound, SoundAt, DiskHoldsChain,
              HeightIsLength, KeysAreOwn, WireOwned
<1> QED
  BY <1>1, <1>2, <1>3, <1>4, <1>5, <1>6, <1>7, <1>8, <1>9 DEF Next

-----------------------------------------------------------------------------
\* The invariant implies that nodes with the same validator list agree.
LEMMA InvAgreement == ASSUME IndInv PROVE Agreement
<1> SUFFICES ASSUME NEW m \in Node, NEW n \in Node,
                    Validators[m] = Validators[n], Validators[n] # << >>,
                    NEW h \in DOMAIN blocks[m] \cap DOMAIN blocks[n]
             PROVE  blocks[m][h] = blocks[n][h]
  BY DEF Agreement
<1> DEFINE k == ExpectedProposer(Validators[n], h)
<1>1. SoundAt(blocks[m][h], m, h) /\ SoundAt(blocks[n][h], n, h)
  BY DEF IndInv, HistorySound
<1>2. /\ blocks[m][h].proposer_public_key = k /\ blocks[m][h].header.height = h
      /\ blocks[n][h].proposer_public_key = k /\ blocks[n][h].header.height = h
  BY <1>1 DEF SoundAt
<1>3. blocks[m][h] = blocks[OwnerOf[k]][h]
  BY <1>1, <1>2 DEF SoundAt, IndInv, WireOwned
<1>4. blocks[n][h] = blocks[OwnerOf[k]][h]
  BY <1>1, <1>2 DEF SoundAt, IndInv, WireOwned
<1> QED
  BY <1>3, <1>4

\* The invariant implies that published blocks are on their proposer's disk.
LEMMA InvPublished == ASSUME IndInv PROVE PublishedIsDurable
<1> SUFFICES ASSUME NEW b \in wire
             PROVE  LET p == OwnerOf[b.proposer_public_key]
                    IN  /\ b.header.height \in DOMAIN diskBlocks[p]
                        /\ diskBlocks[p][b.header.height] = b
  BY DEF PublishedIsDurable
<1> DEFINE p == OwnerOf[b.proposer_public_key]
<1>1. p \in Node /\ b.header.height \in DOMAIN blocks[p] /\ blocks[p][b.header.height] = b
  BY ReplicaConstants DEF IndInv, WireOwned
<1>2. AtMostOneMore(blocks[p], diskBlocks[p]) /\ IsSeq(blocks[p]) /\ IsSeq(diskBlocks[p])
  BY <1>1 DEF IndInv, TypeOK, DiskHoldsChain
<1> HIDE DEF p
<1>3. DOMAIN blocks[p] \subseteq DOMAIN diskBlocks[p]
  BY <1>2, SeqDomain DEF AtMostOneMore
<1> QED
  BY <1>1, <1>2, <1>3 DEF AtMostOneMore, p

\* A step leaves a node's chain as it is or adds one block at its end.
LEMMA StepAppends ==
    ASSUME IndInv, IndInv', [Next]_vars, NEW n \in Node
    PROVE  IsPrefix(blocks[n], blocks'[n])
<1> USE DEF vars, memory, disk
<1>1. IsSeq(blocks[n]) /\ IsSeq(blocks'[n]) /\ Len(blocks[n]) \in Nat
      /\ DOMAIN blocks[n] = 1..Len(blocks[n]) /\ DOMAIN blocks = Node
  BY SeqDomain DEF IndInv, TypeOK
<1>2. \/ blocks' = blocks
      \/ \E m \in Node : \E b : blocks' = [blocks EXCEPT ![m] = Append(blocks[m], b)]
      \/ \E m \in Node : blocks' = [blocks EXCEPT ![m] = diskBlocks[m]]
  <2>1. ASSUME NEW m \in Node, NEW b, NodeApplyBlock(m, b)
        PROVE  \/ blocks' = blocks
               \/ blocks' = [blocks EXCEPT ![m] = Append(blocks[m], b)]
    BY <2>1 DEF NodeApplyBlock, HistoryWith, Adopt, SaveFails
  <2>2. ASSUME NEW m \in Node, NEW now \in Clock, Produce(m, now)
        PROVE  \E b : NodeApplyBlock(m, b)
    BY <2>2 DEF Produce
  <2>3. ASSUME NEW m \in Node, NEW b \in wire, ReceiveBlock(m, b)
        PROVE  NodeApplyBlock(m, b)
    BY <2>3 DEF ReceiveBlock
  <2>4. ASSUME NEW m \in Node, FinishStart(m)
        PROVE  blocks' = blocks \/ blocks' = [blocks EXCEPT ![m] = diskBlocks[m]]
    BY <2>4 DEF FinishStart
  <2>5. ASSUME NEW m \in Node,
               \/ \E tx \in Txs : AcceptTransaction(m, tx)
               \/ \E h \in DOMAIN blocks[m] : SendBlock(m, h)
               \/ Crash(m) \/ Start(m) \/ Replay(m) \/ RepairFails(m)
        PROVE  blocks' = blocks
    BY <2>5 DEF AcceptTransaction, SendBlock, Crash, Start, Replay, RepairFails
  <2> QED
    BY <2>1, <2>2, <2>3, <2>4, <2>5 DEF Next
<1>3. \/ blocks'[n] = blocks[n]
      \/ \E b : blocks'[n] = Append(blocks[n], b)
      \/ blocks'[n] = diskBlocks[n]
  BY <1>1, <1>2
<1>4. AtMostOneMore(blocks[n], blocks'[n])
  <2>1. CASE blocks'[n] = blocks[n]
    BY <2>1, <1>1 DEF AtMostOneMore
  <2>2. ASSUME NEW b, blocks'[n] = Append(blocks[n], b)
        PROVE  AtMostOneMore(blocks[n], blocks'[n])
    BY <2>2, <1>1, AppendFacts DEF AtMostOneMore
  <2>3. CASE blocks'[n] = diskBlocks[n]
    BY <2>3 DEF IndInv, DiskHoldsChain
  <2> QED
    BY <1>3, <2>1, <2>2, <2>3
<1> QED
  BY <1>1, <1>4, OneMoreIsPrefix

-----------------------------------------------------------------------------
\* The inductive invariant holds of every reachable state.
THEOREM Invariance == Spec => []IndInv
<1>1. Init => IndInv
  BY InitInv
<1>2. IndInv /\ [Next]_vars => IndInv'
  BY NextInv
<1> QED
  BY <1>1, <1>2, PTL DEF Spec

\* The variables keep their types.
THEOREM TypeCorrect == Spec => []TypeOK
<1>1. IndInv => TypeOK
  BY DEF IndInv
<1> QED
  BY <1>1, Invariance, PTL

\* Nodes configured with the same validators never disagree on a block, for any
\* number of nodes, crashes, failed saves and deliveries.
THEOREM AgreementHolds == Spec => []Agreement
<1>1. IndInv => Agreement
  BY InvAgreement
<1> QED
  BY <1>1, Invariance, PTL

\* A published block is in its proposer's history file.
THEOREM PublishedHolds == Spec => []PublishedIsDurable
<1>1. IndInv => PublishedIsDurable
  BY InvPublished
<1> QED
  BY <1>1, Invariance, PTL

\* No step, crash or restart takes a block away from a node's chain.
THEOREM AppendOnlyHolds == Spec => AppendOnly
<1>1. IndInv /\ IndInv' /\ [Next]_vars
        => [\A n \in Node : IsPrefix(blocks[n], blocks'[n])]_blocks
  BY StepAppends
<1> QED
  BY <1>1, Invariance, PTL DEF Spec, AppendOnly

-----------------------------------------------------------------------------
(***************************************************************************)
(* The files a node wrote are files it starts from.  What start-up will    *)
(* compute is stated as the existence of a run: the chain states the       *)
(* replay goes through.  The blocks of a history were validated one by one *)
(* when they were applied, against the state that the replay of the blocks *)
(* before them leads to again.                                             *)
(***************************************************************************)
\* run[h] is the chain state after h blocks of the history of node n, and each
\* block passes the checks of rebuild_chain_state_from_blocks there.
IsReplay(run, n, history) ==
    /\ run[0] = DefaultChainState(ChainIdOf[n])
    /\ \A h \in 1..Len(history) :
          /\ ValidateReplayedBlock(run[h - 1], history[h], Validators[n])
          /\ run[h] = ApplyBlock(run[h - 1], history[h])

\* The chain state in memory is the one of the run.
Follows(run, n) ==
    /\ phase[n] = "up" => chain[n] = run[Len(blocks[n])]
    /\ phase[n] = "replaying" =>
          /\ chain[n].height <= Len(diskBlocks[n])
          /\ chain[n] = run[chain[n].height]
    /\ phase[n] = "down" => chain[n] = DefaultChainState(ChainIdOf[n])

Replayable ==
    \A n \in Node : \E run : IsReplay(run, n, diskBlocks[n]) /\ Follows(run, n)

\* A chain state of node n, with the state root of its ledger.
StateWith(ledger, height, tip, timestamp, id) ==
    [ledger |-> ledger, height |-> height, tip_hash |-> tip,
     state_root |-> StateRoot(ledger), last_timestamp |-> timestamp, chain_id |-> id]

WellFormed(c, n) ==
    c = StateWith(c.ledger, c.height, c.tip_hash, c.last_timestamp, ChainIdOf[n])

ChainsWellFormed == \A n \in Node : WellFormed(chain[n], n)

SnapshotsWellFormed ==
    \A n \in Node : \/ diskChain[n] = None
                    \/ \E c : diskChain[n] = Some(c) /\ WellFormed(c, n)

FilesInv ==
    /\ NeverRefused
    /\ Replayable
    /\ ChainsWellFormed
    /\ SnapshotsWellFormed
    /\ SnapshotRepaired

\* The initial chain state and the result of a block are well formed.
LEMMA StatesWellFormed ==
    ASSUME NEW n \in Node
    PROVE  /\ WellFormed(DefaultChainState(ChainIdOf[n]), n)
           /\ \A c, b : c.chain_id = ChainIdOf[n] => WellFormed(ApplyBlock(c, b), n)
BY DEF WellFormed, StateWith, DefaultChainState, ApplyBlock

\* A block that passes with a list passes with no list: a node without
\* validators checks new blocks against its own key and stored ones against none.
LEMMA PassesReplay ==
    ASSUME NEW n, NEW c, NEW b, ValidateReplayedBlock(c, b, EngineValidators(n))
    PROVE  ValidateReplayedBlock(c, b, Validators[n])
<1>1. CASE Validators[n] = << >>
  BY <1>1 DEF ValidateReplayedBlock, ProposerIsExpected
<1>2. CASE Validators[n] # << >>
  BY <1>2 DEF EngineValidators, EffectiveValidators
<1> QED
  BY <1>1, <1>2

\* One more valid block extends the run of a history.
LEMMA ReplayExtends ==
    ASSUME NEW n \in Node, NEW run, NEW s, NEW b, IsSeq(s), IsReplay(run, n, s),
           ValidateReplayedBlock(run[Len(s)], b, Validators[n])
    PROVE  \E r : /\ IsReplay(r, n, Append(s, b))
                  /\ \A h \in 0..Len(s) : r[h] = run[h]
                  /\ r[Len(s) + 1] = ApplyBlock(run[Len(s)], b)
<1> DEFINE last == ApplyBlock(run[Len(s)], b)
           r == [h \in 0..(Len(s) + 1) |-> IF h = Len(s) + 1 THEN last ELSE run[h]]
           t == Append(s, b)
<1>1. Len(s) \in Nat /\ DOMAIN s = 1..Len(s)
  BY SeqDomain
<1>2. /\ Len(t) = Len(s) + 1
      /\ \A i \in 1..Len(s) : t[i] = s[i]
      /\ t[Len(s) + 1] = b
  BY AppendFacts
<1>3. /\ r[0] = run[0]
      /\ \A h \in 0..Len(s) : r[h] = run[h]
      /\ r[Len(s) + 1] = last
  BY <1>1
<1> HIDE DEF r, t, last
<1>4. ASSUME NEW h \in 1..Len(t)
      PROVE  /\ ValidateReplayedBlock(r[h - 1], t[h], Validators[n])
             /\ r[h] = ApplyBlock(r[h - 1], t[h])
  <2>1. CASE h = Len(s) + 1
    <3>1. h - 1 = Len(s) /\ r[h - 1] = run[Len(s)] /\ t[h] = b
      BY <2>1, <1>1, <1>2, <1>3
    <3> QED
      BY <3>1, <2>1, <1>3 DEF last
  <2>2. CASE h # Len(s) + 1
    <3>1. h \in 1..Len(s) /\ h \in 0..Len(s) /\ h - 1 \in 0..Len(s)
      BY <2>2, <1>1, <1>2
    <3>2. t[h] = s[h] /\ r[h] = run[h] /\ r[h - 1] = run[h - 1]
      BY <3>1, <1>2, <1>3
    <3> QED
      BY <3>1, <3>2 DEF IsReplay
  <2> QED
    BY <2>1, <2>2
<1>5. IsReplay(r, n, t)
  BY <1>3, <1>4 DEF IsReplay
<1>6. IsReplay(r, n, Append(s, b))
  BY <1>5 DEF t
<1> QED
  BY <1>3, <1>6 DEF last

\* A run of a history is one of each of its beginnings.
LEMMA ReplayOfPrefix ==
    ASSUME NEW n \in Node, NEW run, NEW s, NEW t, IsSeq(s), IsSeq(t),
           AtMostOneMore(s, t), IsReplay(run, n, t)
    PROVE  IsReplay(run, n, s)
<1>1. /\ Len(s) \in Nat /\ Len(t) \in Nat /\ Len(s) <= Len(t)
      /\ DOMAIN s = 1..Len(s)
  BY SeqDomain DEF AtMostOneMore
<1>2. \A h \in 1..Len(s) : h \in 1..Len(t) /\ t[h] = s[h]
  BY <1>1 DEF AtMostOneMore
<1> QED
  BY <1>1, <1>2 DEF IsReplay

\* Ledgers with the same state root are the same.
LEMMA RootOfOne ==
    ASSUME NEW a, NEW b, StateRoot(a) = StateRoot(b)
    PROVE  a = b
<1>1. StateRoot(a)[2] = StateRoot(b)[2]
  OBVIOUS
<1> QED
  BY <1>1 DEF StateRoot, Blake3

\* When what start-up compares agrees, the snapshot is the rebuilt chain: the
\* state root stands for the ledger (StateDiffers).
LEMMA SameSnapshot ==
    ASSUME NEW n \in Node, NEW c, diskChain[n] = Some(c),
           WellFormed(c, n), WellFormed(chain[n], n), ~StateDiffers(n)
    PROVE  c = chain[n]
<1>1. diskChain[n] # None /\ diskChain[n][1] = c
  BY DEF Some, None
<1>2. /\ c.height = chain[n].height /\ c.tip_hash = chain[n].tip_hash
      /\ c.state_root = chain[n].state_root /\ c.last_timestamp = chain[n].last_timestamp
  BY <1>1 DEF StateDiffers
<1>3. c.state_root = StateRoot(c.ledger) /\ chain[n].state_root = StateRoot(chain[n].ledger)
  BY DEF WellFormed, StateWith
<1>4. c.ledger = chain[n].ledger
  <2>1. StateRoot(c.ledger) = StateRoot(chain[n].ledger)
    BY <1>2, <1>3
  <2> QED
    BY <2>1, RootOfOne
<1> DEFINE d == chain[n]
<1>5. /\ c = StateWith(c.ledger, c.height, c.tip_hash, c.last_timestamp, ChainIdOf[n])
      /\ d = StateWith(d.ledger, d.height, d.tip_hash, d.last_timestamp, ChainIdOf[n])
  BY DEF WellFormed
<1>6. /\ c.height = d.height /\ c.tip_hash = d.tip_hash
      /\ c.last_timestamp = d.last_timestamp /\ c.ledger = d.ledger
  BY <1>2, <1>4
<1> HIDE DEF d
<1>7. StateWith(c.ledger, c.height, c.tip_hash, c.last_timestamp, ChainIdOf[n])
        = StateWith(d.ledger, d.height, d.tip_hash, d.last_timestamp, ChainIdOf[n])
  BY <1>6, Zenon
<1>8. c = d
  BY <1>5, <1>7, Zenon
<1> QED
  BY <1>8 DEF d

\* Before the first start there are no files.
LEMMA InitFiles == ASSUME Init PROVE FilesInv
<1>1. NeverRefused /\ SnapshotRepaired
  BY DEF Init, NeverRefused, SnapshotRepaired
<1>2. ChainsWellFormed /\ SnapshotsWellFormed
  BY StatesWellFormed DEF Init, ChainsWellFormed, SnapshotsWellFormed
<1>3. ASSUME NEW n \in Node
      PROVE  \E run : IsReplay(run, n, diskBlocks[n]) /\ Follows(run, n)
  <2> DEFINE run == [h \in {0} |-> DefaultChainState(ChainIdOf[n])]
  <2>1. run[0] = DefaultChainState(ChainIdOf[n])
    OBVIOUS
  <2> HIDE DEF run
  <2>2. diskBlocks[n] = << >> /\ phase[n] = "down"
        /\ chain[n] = DefaultChainState(ChainIdOf[n])
    BY DEF Init
  <2>3. IsReplay(run, n, diskBlocks[n])
    BY <2>1, <2>2, EmptyIsSeq DEF IsReplay
  <2>4. Follows(run, n)
    BY <2>1, <2>2 DEF Follows
  <2> QED
    BY <2>3, <2>4
<1> QED
  BY <1>1, <1>2, <1>3 DEF FilesInv, Replayable

\* Applying a block leaves files the node starts from, whether both were saved
\* and the block adopted, or a save failed.
LEMMA ApplyFiles ==
    ASSUME IndInv, IndInv', FilesInv, NEW n \in Node, NEW b, phase[n] = "up",
           NodeApplyBlock(n, b)
    PROVE  FilesInv'
<1> DEFINE nc == ApplyBlock(chain[n], b)
           nb == Append(blocks[n], b)
<1>1. /\ ValidateReplayedBlock(chain[n], b, EngineValidators(n))
      /\ Adopt(n, nc, nb) \/ SaveFails(n, nc, nb)
      /\ phase' = phase /\ key' = key
  BY DEF NodeApplyBlock, HistoryWith
<1>2. /\ IsSeq(blocks[n]) /\ IsSeq(diskBlocks[n])
      /\ AtMostOneMore(blocks[n], diskBlocks[n])
      /\ Len(blocks[n]) \in Nat
  BY SeqDomain DEF IndInv, TypeOK, DiskHoldsChain
<1>3. PICK run : IsReplay(run, n, diskBlocks[n]) /\ Follows(run, n)
  BY DEF FilesInv, Replayable
<1>4. IsReplay(run, n, blocks[n]) /\ chain[n] = run[Len(blocks[n])]
  BY <1>2, <1>3, ReplayOfPrefix DEF Follows
<1>5. PICK r : /\ IsReplay(r, n, nb)
               /\ \A h \in 0..Len(blocks[n]) : r[h] = run[h]
               /\ r[Len(blocks[n]) + 1] = nc
  <2>1. ValidateReplayedBlock(run[Len(blocks[n])], b, Validators[n])
    BY <1>1, <1>4, PassesReplay
  <2> QED
    BY <2>1, <1>2, <1>4, ReplayExtends
<1>6. WellFormed(nc, n)
  BY StatesWellFormed DEF IndInv, TypeOK
<1>7. Len(nb) = Len(blocks[n]) + 1 /\ nb # blocks[n]
  BY <1>2, AppendFacts
<1>8. r[Len(blocks[n])] = chain[n]
  BY <1>2, <1>4, <1>5
<1>9. DOMAIN chain = Node /\ DOMAIN blocks = Node /\ DOMAIN diskBlocks = Node
      /\ DOMAIN diskChain = Node
  BY DEF IndInv, TypeOK
<1>10. NeverRefused'
  BY <1>1 DEF FilesInv, NeverRefused
<1> HIDE DEF nc, nb
<1>11. /\ diskBlocks' = [diskBlocks EXCEPT ![n] = nb]
       /\ \E d \in {diskChain[n], Some(nc)} : diskChain' = [diskChain EXCEPT ![n] = d]
  BY <1>1, <1>9 DEF Adopt, SaveFails
<1>12. SnapshotsWellFormed'
  BY <1>6, <1>9, <1>11 DEF FilesInv, SnapshotsWellFormed
<1>13. CASE Adopt(n, nc, nb)
  <2>1. /\ chain' = [chain EXCEPT ![n] = nc] /\ blocks' = [blocks EXCEPT ![n] = nb]
        /\ diskChain' = [diskChain EXCEPT ![n] = Some(nc)]
    BY <1>13 DEF Adopt
  <2>2. ChainsWellFormed'
    BY <1>6, <1>9, <2>1 DEF FilesInv, ChainsWellFormed
  <2>3. ASSUME NEW m \in Node
        PROVE  \E s : IsReplay(s, m, diskBlocks'[m]) /\ Follows(s, m)'
    <3>1. CASE m = n
      <4>1. IsReplay(r, n, diskBlocks'[n])
        BY <1>5, <1>9, <1>11
      <4>2. chain'[n] = nc /\ blocks'[n] = nb /\ phase'[n] = "up"
        BY <1>1, <1>9, <2>1
      <4>3. Follows(r, n)'
        BY <4>2, <1>5, <1>7 DEF Follows
      <4> QED
        BY <3>1, <4>1, <4>3
    <3>2. CASE m # n
      <4>1. PICK s : IsReplay(s, m, diskBlocks[m]) /\ Follows(s, m)
        BY DEF FilesInv, Replayable
      <4>2. /\ diskBlocks'[m] = diskBlocks[m] /\ chain'[m] = chain[m]
            /\ blocks'[m] = blocks[m] /\ phase'[m] = phase[m]
        BY <3>2, <1>1, <1>9, <1>11, <2>1
      <4>3. Follows(s, m)'
        BY <4>1, <4>2 DEF Follows
      <4> QED
        BY <4>1, <4>2, <4>3
    <3> QED
      BY <3>1, <3>2
  <2>4. Replayable'
    BY <2>3 DEF Replayable, IsReplay
  <2>5. SnapshotRepaired'
    BY <1>1, <1>9, <1>11, <2>1 DEF FilesInv, SnapshotRepaired
  <2> QED
    BY <1>10, <1>12, <2>2, <2>4, <2>5 DEF FilesInv
<1>14. CASE SaveFails(n, nc, nb)
  <2>1. chain' = chain /\ blocks' = blocks
    BY <1>14 DEF SaveFails
  <2>2. ChainsWellFormed'
    BY <2>1 DEF FilesInv, ChainsWellFormed
  <2>3. ASSUME NEW m \in Node
        PROVE  \E s : IsReplay(s, m, diskBlocks'[m]) /\ Follows(s, m)'
    <3>1. CASE m = n
      <4>1. IsReplay(r, n, diskBlocks'[n])
        BY <1>5, <1>9, <1>11
      <4>2. Follows(r, n)'
        BY <1>1, <1>8, <2>1 DEF Follows
      <4> QED
        BY <3>1, <4>1, <4>2
    <3>2. CASE m # n
      <4>1. PICK s : IsReplay(s, m, diskBlocks[m]) /\ Follows(s, m)
        BY DEF FilesInv, Replayable
      <4>2. diskBlocks'[m] = diskBlocks[m]
        BY <3>2, <1>9, <1>11
      <4>3. Follows(s, m)'
        BY <4>1, <4>2, <1>1, <2>1 DEF Follows
      <4> QED
        BY <4>1, <4>2, <4>3
    <3> QED
      BY <3>1, <3>2
  <2>4. Replayable'
    BY <2>3 DEF Replayable, IsReplay
  <2>5. SnapshotRepaired'
    <3>1. ASSUME NEW m \in Node, phase'[m] = "up", diskBlocks'[m] = blocks'[m]
          PROVE  \/ diskChain'[m] = Some(chain'[m])
                 \/ diskChain'[m] = None /\ blocks'[m] = << >>
      <4>1. m # n
        BY <3>1, <1>7, <1>9, <1>11, <2>1
      <4>2. diskBlocks'[m] = diskBlocks[m] /\ diskChain'[m] = diskChain[m]
        BY <4>1, <1>9, <1>11
      <4> QED
        BY <3>1, <4>2, <1>1, <2>1 DEF FilesInv, SnapshotRepaired
    <3> QED
      BY <3>1 DEF SnapshotRepaired
  <2> QED
    BY <1>10, <1>12, <2>2, <2>4, <2>5 DEF FilesInv
<1> QED
  BY <1>1, <1>13, <1>14

\* The steps of start-up, and the steps that touch no file.
LEMMA NextFiles == ASSUME IndInv, IndInv', FilesInv, [Next]_vars PROVE FilesInv'
<1> USE DEF vars, memory, disk
<1>0. DOMAIN chain = Node /\ DOMAIN blocks = Node /\ DOMAIN diskBlocks = Node
      /\ DOMAIN diskChain = Node /\ DOMAIN phase = Node
  BY DEF IndInv, TypeOK
<1>1. ASSUME \/ \E n \in Node, tx \in Txs : AcceptTransaction(n, tx)
             \/ \E n \in Node : \E h \in DOMAIN blocks[n] : SendBlock(n, h)
             \/ UNCHANGED vars
      PROVE  FilesInv'
  <2>1. UNCHANGED <<phase, chain, blocks, diskBlocks, diskChain>>
    BY <1>1 DEF AcceptTransaction, SendBlock
  <2>2. Replayable'
    BY <2>1 DEF FilesInv, Replayable, IsReplay, Follows
  <2> QED
    BY <2>1, <2>2 DEF FilesInv, NeverRefused, ChainsWellFormed, SnapshotsWellFormed,
                      SnapshotRepaired
<1>2. ASSUME NEW n \in Node, NEW now \in Clock, Produce(n, now)
      PROVE  FilesInv'
  <2>1. PICK b : phase[n] = "up" /\ NodeApplyBlock(n, b)
    BY <1>2 DEF Produce
  <2> QED
    BY <2>1, ApplyFiles
<1>3. ASSUME NEW n \in Node, NEW b \in wire, ReceiveBlock(n, b)
      PROVE  FilesInv'
  BY <1>3, ApplyFiles DEF ReceiveBlock
<1>5. ASSUME NEW n \in Node, Crash(n) \/ RepairFails(n)
      PROVE  FilesInv'
  <2>1. /\ phase' = [phase EXCEPT ![n] = "down"]
        /\ chain' = [chain EXCEPT ![n] = DefaultChainState(ChainIdOf[n])]
        /\ blocks' = blocks /\ diskBlocks' = diskBlocks
        /\ \/ diskChain' = diskChain
           \/ \E d \in {diskChain[n], Some(chain[n])} :
                 diskChain' = [diskChain EXCEPT ![n] = d]
    BY <1>5, <1>0 DEF Crash, RepairFails
  <2>2. NeverRefused' /\ SnapshotRepaired'
    BY <2>1, <1>0 DEF FilesInv, NeverRefused, SnapshotRepaired
  <2>3. ChainsWellFormed'
    BY <2>1, <1>0, StatesWellFormed DEF FilesInv, ChainsWellFormed
  <2>4. SnapshotsWellFormed'
    BY <2>1, <1>0 DEF FilesInv, SnapshotsWellFormed, ChainsWellFormed
  <2>5. ASSUME NEW m \in Node, NEW s, Follows(s, m)
        PROVE  Follows(s, m)'
    BY <2>1, <2>5, <1>0 DEF Follows
  <2>6. Replayable'
    BY <2>1, <2>5 DEF FilesInv, Replayable, IsReplay
  <2> QED
    BY <2>2, <2>3, <2>4, <2>6 DEF FilesInv
<1>6. ASSUME NEW n \in Node, Start(n)
      PROVE  FilesInv'
  <2>1. /\ phase[n] = "down" /\ phase' = [phase EXCEPT ![n] = "replaying"]
        /\ UNCHANGED <<chain, blocks, diskBlocks, diskChain>>
    BY <1>6 DEF Start
  <2>2. NeverRefused' /\ SnapshotRepaired' /\ ChainsWellFormed' /\ SnapshotsWellFormed'
    BY <2>1, <1>0 DEF FilesInv, NeverRefused, SnapshotRepaired, ChainsWellFormed,
                      SnapshotsWellFormed
  <2>3. ASSUME NEW m \in Node, NEW s, IsReplay(s, m, diskBlocks[m]), Follows(s, m)
        PROVE  Follows(s, m)'
    <3>1. CASE m = n
      <4>1. chain[n] = DefaultChainState(ChainIdOf[n]) /\ chain[n] = s[0]
        BY <3>1, <2>1, <2>3 DEF Follows, IsReplay
      <4>2. chain[n].height = 0
        BY <4>1, DefaultHeight
      <4>3. 0 <= Len(diskBlocks[n])
        BY SeqDomain DEF IndInv, TypeOK
      <4>4. phase'[n] = "replaying"
        BY <2>1, <1>0
      <4> QED
        BY <3>1, <4>1, <4>2, <4>3, <4>4, <2>1 DEF Follows
    <3>2. CASE m # n
      <4>1. phase'[m] = phase[m]
        BY <3>2, <2>1, <1>0
      <4> QED
        BY <4>1, <2>1, <2>3 DEF Follows
    <3> QED
      BY <3>1, <3>2
  <2>4. Replayable'
    BY <2>1, <2>3 DEF FilesInv, Replayable, IsReplay
  <2> QED
    BY <2>2, <2>4 DEF FilesInv
<1>7. ASSUME NEW n \in Node, Replay(n)
      PROVE  FilesInv'
  <2> DEFINE h == chain[n].height + 1
             b == diskBlocks[n][h]
  <2>1. PICK run : IsReplay(run, n, diskBlocks[n]) /\ Follows(run, n)
    BY DEF FilesInv, Replayable
  <2>2. /\ phase[n] = "replaying" /\ chain[n].height < Len(diskBlocks[n])
        /\ chain[n].height \in Nat /\ Len(diskBlocks[n]) \in Nat
    BY <1>7, SeqDomain DEF Replay, IndInv, TypeOK
  <2>3. chain[n] = run[h - 1] /\ h \in 1..Len(diskBlocks[n])
    BY <2>1, <2>2 DEF Follows
  <2>4. /\ ValidateReplayedBlock(chain[n], b, Validators[n])
        /\ run[h] = ApplyBlock(chain[n], b)
    BY <2>1, <2>3 DEF IsReplay
  <2>5. /\ chain' = [chain EXCEPT ![n] = ApplyBlock(chain[n], b)]
        /\ UNCHANGED <<phase, blocks, diskBlocks, diskChain>>
    BY <1>7, <2>4 DEF Replay, ReplayValidators
  <2>6. ApplyBlock(chain[n], b).height = h /\ WellFormed(ApplyBlock(chain[n], b), n)
    BY <2>4, ValidBlock, AppliedHeight, StatesWellFormed DEF IndInv, TypeOK
  <2> HIDE DEF b
  <2>7. NeverRefused' /\ SnapshotsWellFormed'
    BY <2>5 DEF FilesInv, NeverRefused, SnapshotsWellFormed
  <2>8. SnapshotRepaired'
    BY <2>2, <2>5, <1>0 DEF FilesInv, SnapshotRepaired
  <2>9. ChainsWellFormed'
    BY <2>5, <2>6, <1>0 DEF FilesInv, ChainsWellFormed
  <2>10. Follows(run, n)'
    <3>1. /\ phase'[n] = "replaying" /\ chain'[n] = run[h] /\ chain'[n].height = h
          /\ diskBlocks'[n] = diskBlocks[n] /\ h <= Len(diskBlocks[n])
      BY <2>2, <2>3, <2>4, <2>5, <2>6, <1>0
    <3> QED
      BY <3>1 DEF Follows
  <2>11. ASSUME NEW m \in Node, m # n, NEW s, Follows(s, m)
         PROVE  Follows(s, m)'
    BY <2>5, <2>11, <1>0 DEF Follows
  <2>12. Replayable'
    BY <2>1, <2>5, <2>10, <2>11 DEF FilesInv, Replayable, IsReplay
  <2> QED
    BY <2>7, <2>8, <2>9, <2>12 DEF FilesInv
<1>8. ASSUME NEW n \in Node, FinishStart(n)
      PROVE  FilesInv'
  <2>1. \/ diskChain[n] = None
        \/ \E c : diskChain[n] = Some(c) /\ WellFormed(c, n)
    BY DEF FilesInv, SnapshotsWellFormed
  <2>2. ~WrongChainId(n)
    BY <2>1 DEF WrongChainId, WellFormed, StateWith, Some, None
  <2>3. /\ phase[n] = "replaying" /\ phase' = [phase EXCEPT ![n] = "up"]
        /\ blocks' = [blocks EXCEPT ![n] = diskBlocks[n]]
        /\ diskChain' = [diskChain EXCEPT ![n] = Repaired(n)]
        /\ chain[n].height = Len(diskBlocks[n])
        /\ chain' = chain /\ diskBlocks' = diskBlocks
    BY <1>8, <2>2 DEF FinishStart
  <2>4. NeverRefused' /\ ChainsWellFormed'
    BY <2>3, <1>0 DEF FilesInv, NeverRefused, ChainsWellFormed
  <2>5. \/ Repaired(n) = Some(chain[n])
        \/ Repaired(n) = None /\ diskChain[n] = None /\ diskBlocks[n] = << >>
    <3>1. CASE StateDiffers(n)
      BY <3>1 DEF Repaired
    <3>2. CASE ~StateDiffers(n) /\ diskChain[n] = None
      BY <3>2 DEF Repaired, StateDiffers
    <3>3. CASE ~StateDiffers(n) /\ diskChain[n] # None
      <4>1. PICK c : diskChain[n] = Some(c) /\ WellFormed(c, n)
        BY <2>1, <3>3
      <4>2. c = chain[n]
        BY <4>1, <3>3, SameSnapshot DEF FilesInv, ChainsWellFormed
      <4> QED
        BY <4>1, <4>2, <3>3 DEF Repaired
    <3> QED
      BY <3>1, <3>2, <3>3
  <2>6. SnapshotsWellFormed'
    BY <2>3, <2>5, <1>0 DEF FilesInv, SnapshotsWellFormed, ChainsWellFormed
  <2>7. SnapshotRepaired'
    BY <2>3, <2>5, <1>0 DEF FilesInv, SnapshotRepaired
  <2>8. ASSUME NEW m \in Node, NEW s, Follows(s, m)
        PROVE  Follows(s, m)'
    <3>1. CASE m = n
      <4>1. /\ phase'[n] = "up" /\ blocks'[n] = diskBlocks[n] /\ chain'[n] = chain[n]
        BY <2>3, <1>0
      <4>2. chain[n] = s[Len(diskBlocks[n])]
        BY <2>3, <2>8, <3>1 DEF Follows
      <4> QED
        BY <3>1, <4>1, <4>2 DEF Follows
    <3>2. CASE m # n
      BY <2>3, <2>8, <3>2, <1>0 DEF Follows
    <3> QED
      BY <3>1, <3>2
  <2>9. Replayable'
    BY <2>3, <2>8 DEF FilesInv, Replayable, IsReplay
  <2> QED
    BY <2>4, <2>6, <2>7, <2>9 DEF FilesInv
<1> QED
  BY <1>1, <1>2, <1>3, <1>5, <1>6, <1>7, <1>8 DEF Next

\* The files of every node are files it can start from, in every reachable state.
THEOREM FilesInvariance == Spec => []FilesInv
<1>1. Init => FilesInv
  BY InitFiles
<1>2. IndInv /\ IndInv' /\ FilesInv /\ [Next]_vars => FilesInv'
  BY NextFiles
<1> QED
  BY <1>1, <1>2, Invariance, PTL DEF Spec

\* No node ever refuses its own files, wherever it died or failed to save.
THEOREM NeverRefusedHolds == Spec => []NeverRefused
<1>1. FilesInv => NeverRefused
  BY DEF FilesInv
<1> QED
  BY <1>1, FilesInvariance, PTL

\* A running node whose history file is its chain has that chain's snapshot.
THEOREM SnapshotRepairedHolds == Spec => []SnapshotRepaired
<1>1. FilesInv => SnapshotRepaired
  BY DEF FilesInv
<1> QED
  BY <1>1, FilesInvariance, PTL

-----------------------------------------------------------------------------
(***************************************************************************)
(* The nodes of a cluster implement one replicated log.  A block is new to *)
(* a node because the node made it, and then the node is the writer of the *)
(* slot and nobody in the cluster is ahead of it; or because it came from  *)
(* the wire, and then its writer holds it already.                         *)
(***************************************************************************)
\* The owners of the listed keys run with the list themselves.
ListShared == \A i \in DOMAIN List : OwnerOf[List[i]] \in Cluster

\* Node w holds a longest history f[w] of the cluster.
IsLongest(f, w) == w \in Cluster /\ \A n \in Cluster : Len(f[n]) <= Len(f[w])

HasLongest == \E w \in Cluster : IsLongest(blocks, w)

\* The histories of the cluster, given as f, are sequences that agree wherever
\* they overlap.
OneLog(f) ==
    /\ \A n \in Cluster : IsSeq(f[n])
    /\ \A m, n \in Cluster : \A h \in DOMAIN f[m] \cap DOMAIN f[n] : f[m][h] = f[n][h]

LongestOf(f) ==
    LET histories == {f[n] : n \in Cluster}
    IN  CHOOSE s \in histories : \A t \in histories : Len(t) <= Len(s)

\* Sequences of the same length with the same elements are equal.
LEMMA SameSeq ==
    ASSUME NEW s, NEW t, IsSeq(s), IsSeq(t), Len(s) = Len(t),
           \A h \in 1..Len(s) : s[h] = t[h]
    PROVE  s = t
<1> DEFINE S == {s[i] : i \in DOMAIN s}
<1>1. s \in Seq(S) /\ DOMAIN s = 1..Len(s) /\ DOMAIN t = 1..Len(s)
  BY SeqDomain DEF IsSeq
<1>2. \A i \in DOMAIN t : t[i] \in S
  BY <1>1
<1>3. t \in Seq({t[i] : i \in DOMAIN t})
  BY DEF IsSeq
<1>4. t \in Seq(S)
  BY <1>2, <1>3
<1> HIDE DEF S
<1> QED
  BY <1>1, <1>4

\* A longest history of the cluster is the log.
LEMMA LongestIsLog ==
    ASSUME NEW f, NEW w, OneLog(f), IsLongest(f, w)
    PROVE  LongestOf(f) = f[w]
<1> DEFINE histories == {f[n] : n \in Cluster}
           l == LongestOf(f)
<1>1. f[w] \in histories /\ \A t \in histories : Len(t) <= Len(f[w])
  BY DEF IsLongest
<1>2. l \in histories /\ \A t \in histories : Len(t) <= Len(l)
  BY <1>1 DEF LongestOf
<1>3. PICK n \in Cluster : l = f[n]
  BY <1>2
<1>4. /\ IsSeq(f[n]) /\ IsSeq(f[w])
      /\ DOMAIN f[n] = 1..Len(f[n]) /\ DOMAIN f[w] = 1..Len(f[w])
      /\ Len(f[n]) \in Nat /\ Len(f[w]) \in Nat
  BY SeqDomain DEF OneLog, IsLongest
<1>5. Len(f[n]) = Len(f[w])
  BY <1>1, <1>2, <1>3, <1>4
<1>6. \A h \in 1..Len(f[n]) : f[n][h] = f[w][h]
  BY <1>4, <1>5 DEF OneLog, IsLongest
<1>7. f[n] = f[w]
  BY <1>4, <1>5, <1>6, SameSeq
<1> QED
  BY <1>3, <1>7

\* The invariant makes the histories of a cluster one log.
LEMMA ClusterOneLog == ASSUME IndInv PROVE OneLog(blocks)
<1>1. Agreement
  BY InvAgreement
<1>2. \A n \in Cluster : n \in Node /\ Validators[n] = List
  BY DEF Cluster
<1> QED
  BY <1>1, <1>2, ListAssumption DEF OneLog, Agreement, IndInv, TypeOK

\* A step extends the history of at most one node, by one block.
LEMMA StepBlocks ==
    ASSUME IndInv, [Next]_vars
    PROVE  \/ blocks' = blocks
           \/ /\ wire' = wire
              /\ \E n \in Node : \E t : /\ blocks' = [blocks EXCEPT ![n] = t]
                                        /\ AtMostOneMore(blocks[n], t)
<1> USE DEF vars, memory, disk
<1>0. \A n \in Node : IsSeq(blocks[n]) /\ Len(blocks[n]) \in Nat
                      /\ DOMAIN blocks[n] = 1..Len(blocks[n])
  BY SeqDomain DEF IndInv, TypeOK
<1>1. ASSUME NEW n \in Node, NEW b, NodeApplyBlock(n, b)
      PROVE  \/ blocks' = blocks
             \/ /\ wire' = wire
                /\ \E t : /\ blocks' = [blocks EXCEPT ![n] = t]
                          /\ AtMostOneMore(blocks[n], t)
  <2>1. AtMostOneMore(blocks[n], Append(blocks[n], b))
    BY <1>0, AppendFacts DEF AtMostOneMore
  <2> QED
    BY <1>1, <2>1 DEF NodeApplyBlock, HistoryWith, Adopt, SaveFails
<1>2. ASSUME NEW n \in Node, NEW now \in Clock, Produce(n, now)
      PROVE  \E b : NodeApplyBlock(n, b)
  BY <1>2 DEF Produce
<1>3. ASSUME NEW n \in Node, NEW b \in wire, ReceiveBlock(n, b)
      PROVE  NodeApplyBlock(n, b)
  BY <1>3 DEF ReceiveBlock
<1>4. ASSUME NEW n \in Node, FinishStart(n)
      PROVE  \/ blocks' = blocks
             \/ wire' = wire /\ blocks' = [blocks EXCEPT ![n] = diskBlocks[n]]
  BY <1>4 DEF FinishStart
<1>5. ASSUME NEW n \in Node,
             \/ \E tx \in Txs : AcceptTransaction(n, tx)
             \/ \E h \in DOMAIN blocks[n] : SendBlock(n, h)
             \/ Crash(n) \/ Start(n) \/ Replay(n) \/ RepairFails(n)
      PROVE  blocks' = blocks
  BY <1>5 DEF AcceptTransaction, SendBlock, Crash, Start, Replay, RepairFails
<1>6. \A n \in Node : AtMostOneMore(blocks[n], diskBlocks[n])
  BY DEF IndInv, DiskHoldsChain
<1> QED
  BY <1>1, <1>2, <1>3, <1>4, <1>5, <1>6 DEF Next

\* The key whose turn it is is a key of the list.
LEMMA TurnIsListed ==
    ASSUME NEW h \in Nat, h > 0
    PROVE  \E i \in DOMAIN List : ExpectedProposer(List, h) = List[i]
<1>1. PICK g : g = h - 1
  OBVIOUS
<1>2. PICK l : l = Len(List)
  OBVIOUS
<1>3. g \in Nat /\ l \in Nat /\ l > 0 /\ DOMAIN List = 1..l
  BY <1>1, <1>2, ListAssumption
<1>4. g % l \in 0..(l - 1)
  BY <1>3
<1>5. (g % l) + 1 \in 1..l
  BY <1>3, <1>4
<1> QED
  BY <1>1, <1>2, <1>3, <1>5 DEF ExpectedProposer

\* A node about to hold a block it made itself for the next slot is the writer
\* of that slot, and nobody in the cluster is ahead of it.
LEMMA WriterIsLongest ==
    ASSUME IndInv, NEW n \in Cluster,
           OwnerOf[ExpectedProposer(List, Len(blocks[n]) + 1)] = n
    PROVE  IsLongest(blocks, n)
<1> DEFINE H == Len(blocks[n]) + 1
<1>1. n \in Node /\ Validators[n] = List /\ List # << >>
  BY ListAssumption DEF Cluster
<1>2. /\ Len(blocks[n]) \in Nat /\ DOMAIN blocks[n] = 1..Len(blocks[n])
      /\ H \notin DOMAIN blocks[n] /\ H \in Nat /\ H > 0
  BY <1>1, SeqDomain DEF IndInv, TypeOK
<1>3. ASSUME NEW m \in Cluster, ~(Len(blocks[m]) <= Len(blocks[n]))
      PROVE  FALSE
  <2>1. m \in Node /\ Validators[m] = List
    BY DEF Cluster
  <2>2. Len(blocks[m]) \in Nat /\ DOMAIN blocks[m] = 1..Len(blocks[m])
    BY <2>1, SeqDomain DEF IndInv, TypeOK
  <2>3. H \in DOMAIN blocks[m]
    BY <1>2, <1>3, <2>2
  <2>4. SoundAt(blocks[m][H], m, H)
    BY <2>1, <2>3 DEF IndInv, HistorySound
  <2>5. /\ OwnerOf[blocks[m][H].proposer_public_key] = n
        /\ blocks[m][H].header.height = H
    BY <1>1, <2>1, <2>4 DEF SoundAt
  <2>6. CASE blocks[m][H] \in wire
    BY <1>2, <2>5, <2>6 DEF IndInv, WireOwned
  <2>7. CASE m = n
    BY <1>2, <1>3, <2>7
  <2> QED
    BY <2>4, <2>5, <2>6, <2>7 DEF SoundAt
<1> QED
  BY <1>3 DEF IsLongest

\* What a step that extends the history of one node of the cluster is: the
\* writer of the slot extends the log, or somebody else learns the next block.
LEMMA StepOfCluster ==
    ASSUME ListShared, IndInv, IndInv', HasLongest, wire' = wire,
           NEW n \in Cluster, NEW t, blocks' = [blocks EXCEPT ![n] = t],
           AtMostOneMore(blocks[n], t), Len(t) = Len(blocks[n]) + 1
    PROVE  \/ /\ OwnerOf[ExpectedProposer(List, Len(blocks[n]) + 1)] = n
              /\ IsLongest(blocks, n) /\ IsLongest(blocks', n)
           \/ \E w \in Cluster : /\ IsLongest(blocks, w) /\ IsLongest(blocks', w)
                                 /\ w # n /\ Len(t) <= Len(blocks[w])
                                 /\ t = SubSeq(blocks[w], 1, Len(t))
<1>0. PICK H : H = Len(blocks[n]) + 1
  OBVIOUS
<1> DEFINE p == ExpectedProposer(List, H)
           q == OwnerOf[p]
<1>1. n \in Node /\ Validators[n] = List /\ List # << >> /\ Cluster \subseteq Node
  BY ListAssumption DEF Cluster
<1>2. /\ DOMAIN blocks = Node
      /\ \A m \in Node : IsSeq(blocks[m]) /\ IsSeq(blocks'[m])
  BY DEF IndInv, TypeOK
<1>3. \A m \in Node : /\ Len(blocks[m]) \in Nat /\ DOMAIN blocks[m] = 1..Len(blocks[m])
                      /\ Len(blocks'[m]) \in Nat
                      /\ DOMAIN blocks'[m] = 1..Len(blocks'[m])
  BY <1>2, SeqDomain
<1>4. /\ blocks'[n] = t /\ Len(t) = H /\ H \in Nat /\ H > 0 /\ H \in DOMAIN t
      /\ \A m \in Node \ {n} : blocks'[m] = blocks[m]
  BY <1>0, <1>1, <1>2, <1>3
<1>5. SoundAt(t[H], n, H)'
  BY <1>1, <1>4 DEF IndInv, HistorySound
<1>6. /\ t[H].header.height = H /\ t[H].proposer_public_key = p
      /\ t[H] \in wire \/ q = n
  BY <1>1, <1>5 DEF SoundAt
<1> HIDE DEF p, q
<1>7. CASE q = n
  <2>1. IsLongest(blocks, n)
    BY <1>0, <1>7, WriterIsLongest DEF q, p
  <2>2. IsLongest(blocks', n)
    BY <2>1, <1>1, <1>3, <1>4 DEF IsLongest
  <2> QED
    BY <2>1, <2>2, <1>0, <1>7 DEF q, p
<1>8. CASE q # n
  <2>1. q \in Cluster
    BY <1>4, TurnIsListed DEF ListShared, q, p
  <2>2. H \in DOMAIN blocks[q] /\ blocks[q][H] = t[H]
    BY <1>6, <1>8 DEF IndInv, WireOwned, q
  <2>3. PICK w \in Cluster : IsLongest(blocks, w)
    BY DEF HasLongest
  <2>4. Len(blocks[q]) >= H /\ Len(blocks[w]) >= H /\ w # n
    BY <2>1, <2>2, <2>3, <1>1, <1>3, <1>4 DEF IsLongest
  <2>5. IsLongest(blocks', w)
    BY <2>3, <2>4, <1>1, <1>3, <1>4 DEF IsLongest
  <2>6. IsSeq(t) /\ IsSeq(blocks[w]) /\ w \in Node /\ Len(blocks[w]) \in Nat
    BY <1>1, <1>2, <1>4
  <2>7. \A h \in 1..H : t[h] = blocks[w][h]
    <3>1. OneLog(blocks)
      BY ClusterOneLog
    <3>2. ASSUME NEW h \in 1..H
          PROVE  t[h] = blocks[w][h]
      <4>1. h \in DOMAIN blocks[w]
        BY <2>4, <2>6, <1>3, <1>4
      <4>2. CASE h = H
        BY <4>1, <4>2, <2>1, <2>2, <3>1 DEF OneLog
      <4>3. CASE h # H
        <5>1. h \in DOMAIN blocks[n] /\ t[h] = blocks[n][h]
          BY <4>3, <1>0, <1>1, <1>3 DEF AtMostOneMore
        <5> QED
          BY <5>1, <4>1, <3>1 DEF OneLog
      <4> QED
        BY <4>2, <4>3
    <3> QED
      BY <3>2
  <2>8. t = SubSeq(blocks[w], 1, H)
    <3> DEFINE s == SubSeq(blocks[w], 1, H)
    <3>1. s = [i \in 1..H |-> blocks[w][i]] /\ Len(s) = H
      BY <2>4, <2>6, <1>4 DEF IsSeq
    <3>2. s = [i \in 1..H |-> t[i]]
      BY <3>1, <2>7
    <3>3. t = [i \in 1..H |-> t[i]]
      BY <2>6, <1>4 DEF IsSeq
    <3> QED
      BY <3>2, <3>3
  <2> QED
    BY <2>3, <2>4, <2>5, <2>8, <1>4
<1> QED
  BY <1>7, <1>8

\* The initial histories are those of the empty log.
LEMMA InitLog ==
    ASSUME ListShared, Init
    PROVE  Abstract!Init /\ HasLongest
<1>1. \A n \in Cluster : n \in Node /\ blocks[n] = << >>
  BY DEF Init, Cluster
<1>2. PICK w : w \in Cluster
  BY TurnIsListed DEF ListShared
<1>3. IsLongest(blocks, w)
  BY <1>1, <1>2, EmptyIsSeq DEF IsLongest
<1>4. OneLog(blocks)
  BY <1>1, EmptyIsSeq DEF OneLog
<1>5. LongestOf(blocks) = << >>
  BY <1>1, <1>2, <1>3, <1>4, LongestIsLog
<1>6. LongestHeld = << >>
  BY <1>5 DEF LongestHeld, LongestOf
<1> QED
  BY <1>1, <1>2, <1>3, <1>6 DEF Abstract!Init, HasLongest

\* Every step is a step of the log, or leaves it and what the members hold of it
\* as they are.
LEMMA StepLog ==
    ASSUME ListShared, IndInv, IndInv', OneLog(blocks), OneLog(blocks)', HasLongest,
           [Next]_vars
    PROVE  /\ HasLongest'
           /\ [Abstract!Next]_<<LongestHeld, [n \in Cluster |-> blocks[n]]>>
<1> DEFINE held == [n \in Cluster |-> blocks[n]]
<1>1. Cluster \subseteq Node /\ DOMAIN blocks = Node
  BY DEF Cluster, IndInv, TypeOK
<1>2. OneLog(blocks')
  BY DEF OneLog
<1>3. LongestHeld = LongestOf(blocks) /\ LongestHeld' = LongestOf(blocks')
  BY DEF LongestHeld, LongestOf
<1>5. ASSUME \A n \in Cluster : blocks'[n] = blocks[n]
      PROVE  HasLongest' /\ LongestHeld' = LongestHeld /\ held' = held
  <2>1. HasLongest' 
    BY <1>5 DEF HasLongest, IsLongest
  <2>2. {blocks'[n] : n \in Cluster} = {blocks[n] : n \in Cluster}
    BY <1>5
  <2>3. held' = held
    BY <1>5
  <2> QED
    BY <2>1, <2>2, <2>3 DEF LongestHeld
<1>6. ASSUME NEW n \in Cluster, NEW t, wire' = wire, blocks' = [blocks EXCEPT ![n] = t],
             AtMostOneMore(blocks[n], t), Len(t) = Len(blocks[n]) + 1
      PROVE  HasLongest' /\ Abstract!Next
  <2>1. /\ held[n] = blocks[n] /\ held' = [held EXCEPT ![n] = t] /\ blocks'[n] = t
        /\ \A w \in Cluster : w # n => blocks'[w] = blocks[w]
    BY <1>1, <1>6
  <2>2. CASE /\ OwnerOf[ExpectedProposer(List, Len(blocks[n]) + 1)] = n
             /\ IsLongest(blocks, n) /\ IsLongest(blocks', n)
    <3>1. LongestHeld = blocks[n] /\ LongestHeld' = t
      BY <1>2, <1>3, <2>1, <2>2, LongestIsLog
    <3>2. Abstract!IsPrefix(blocks[n], t)
      <4>1. IsPrefix(blocks[n], t)
        BY <1>1, <1>6, <2>1, OneMoreIsPrefix DEF IndInv, TypeOK
      <4> QED
        BY <4>1 DEF IsPrefix, Abstract!IsPrefix
    <3>3. Abstract!Write(n)
      BY <1>6, <2>1, <2>2, <3>1, <3>2 DEF Abstract!Write
    <3> QED
      BY <2>2, <3>3 DEF Abstract!Next, HasLongest
  <2>3. ASSUME NEW w \in Cluster, IsLongest(blocks, w), IsLongest(blocks', w), w # n,
               Len(t) <= Len(blocks[w]), t = SubSeq(blocks[w], 1, Len(t))
        PROVE  HasLongest' /\ Abstract!Next
    <3>1. LongestHeld = blocks[w] /\ LongestHeld' = blocks[w]
      BY <1>2, <1>3, <2>1, <2>3, LongestIsLog
    <3>0. PICK k : k = Len(t)
      OBVIOUS
    <3>2. /\ k \in (Len(held[n]) + 1)..Len(LongestHeld)
          /\ held' = [held EXCEPT ![n] = SubSeq(LongestHeld, 1, k)]
      <4>1. Len(blocks[n]) \in Nat /\ Len(blocks[w]) \in Nat
        BY <1>1, SeqDomain DEF IndInv, TypeOK
      <4>2. k = Len(blocks[n]) + 1 /\ k <= Len(blocks[w])
        BY <1>6, <2>3, <3>0
      <4>3. t = SubSeq(LongestHeld, 1, k)
        BY <2>3, <3>0, <3>1
      <4>4. k \in (Len(held[n]) + 1)..Len(LongestHeld)
        BY <4>1, <4>2, <2>1, <3>1
      <4> HIDE DEF held
      <4> QED
        BY <2>1, <4>3, <4>4
    <3>3. Abstract!Learn(n)
      BY <3>1, <3>2 DEF Abstract!Learn
    <3> QED
      BY <2>3, <3>3 DEF Abstract!Next, HasLongest
  <2> QED
    BY <1>6, <2>2, <2>3, StepOfCluster
<1>7. ASSUME NEW n \in Node, NEW t, wire' = wire, blocks' = [blocks EXCEPT ![n] = t],
             AtMostOneMore(blocks[n], t)
      PROVE  /\ HasLongest'
             /\ Abstract!Next \/ (LongestHeld' = LongestHeld /\ held' = held)
  <2>1. CASE n \notin Cluster
    BY <1>1, <1>5, <1>7, <2>1
  <2>2. CASE n \in Cluster /\ Len(t) = Len(blocks[n]) + 1
    BY <1>6, <1>7, <2>2
  <2>3. CASE Len(t) = Len(blocks[n])
    <3>1. IsSeq(blocks[n]) /\ IsSeq(blocks'[n]) /\ blocks'[n] = t
      BY <1>1, <1>7 DEF IndInv, TypeOK
    <3>2. t = blocks[n]
      BY <1>7, <2>3, <3>1, SeqDomain, SameSeq DEF AtMostOneMore
    <3>3. \A m \in Cluster : blocks'[m] = blocks[m]
      BY <1>1, <1>7, <3>2
    <3> QED
      BY <1>5, <3>3
  <2> QED
    BY <1>7, <2>1, <2>2, <2>3 DEF AtMostOneMore
<1> QED
  BY <1>5, <1>7, StepBlocks

\* When the listed keys belong to nodes that run with the list, the cluster
\* implements one replicated log with one writer per slot.
THEOREM ImplementsLogHolds == ASSUME ListShared PROVE Spec => ImplementsLog
<1>1. Init => Abstract!Init /\ HasLongest
  BY InitLog
<1>2. IndInv => OneLog(blocks)
  BY ClusterOneLog
<1>3. IndInv /\ IndInv' /\ OneLog(blocks) /\ OneLog(blocks)' /\ HasLongest /\ [Next]_vars
        => /\ HasLongest'
           /\ [Abstract!Next]_<<LongestHeld, [n \in Cluster |-> blocks[n]]>>
  BY StepLog
<1> QED
  BY <1>1, <1>2, <1>3, Invariance, PTL DEF Spec, ImplementsLog, Abstract!Spec

-----------------------------------------------------------------------------
(***************************************************************************)
(* No transaction is committed twice, and the mempool can always be        *)
(* produced from.  A producer puts into a block only what is not in its    *)
(* own chain; whoever accepts the block has, by the parent hash and the    *)
(* transaction roots, the same identifiers below it as the producer.       *)
(***************************************************************************)
DistinctIds(txs) ==
    \A i, j \in DOMAIN txs : TxId(txs[i]) = TxId(txs[j]) => i = j

IdsOnce(history) ==
    \A g, h \in DOMAIN history :
        \A i \in DOMAIN history[g].transactions, j \in DOMAIN history[h].transactions :
            TxId(history[g].transactions[i]) = TxId(history[h].transactions[j])
                => g = h /\ i = j

MempoolInv ==
    \A n \in Node :
        /\ IsSeq(pending[n]) /\ DistinctIds(pending[n])
        /\ phase[n] # "up" => pending[n] = << >>
        /\ IsLedger(chain[n].ledger)
        /\ IdsOnce(diskBlocks[n])
        /\ \A h \in DOMAIN diskBlocks[n] : IsSeq(diskBlocks[n][h].transactions)

\* The tip of the first k blocks of a history.
TipOf(history, k) == IF k = 0 THEN GenesisTip ELSE Blake3("header", history[k].header)

\* Each block names the one before it and its own transactions.
Linked(history) ==
    \A h \in DOMAIN history :
        /\ history[h].header.parent_hash = TipOf(history, h - 1)
        /\ history[h].header.tx_root = ComputeTxRoot(history[h].transactions)

\* A history that can be replayed is linked, and the replay ends at its tip.
LEMMA ReplayLinked ==
    ASSUME NEW run, NEW n, NEW history, IsSeq(history), IsReplay(run, n, history)
    PROVE  /\ Linked(history)
           /\ \A k \in 0..Len(history) : run[k].tip_hash = TipOf(history, k)
<1>1. Len(history) \in Nat /\ DOMAIN history = 1..Len(history)
  BY SeqDomain
<1>2. run[0].tip_hash = GenesisTip
  BY DEF IsReplay, DefaultChainState
<1>3. \A k \in 1..Len(history) : run[k].tip_hash = Blake3("header", history[k].header)
  <2>1. \A c, b : ApplyBlock(c, b).tip_hash = Blake3("header", b.header)
    BY DEF ApplyBlock
  <2>2. \A k \in 1..Len(history) : run[k] = ApplyBlock(run[k - 1], history[k])
    BY DEF IsReplay
  <2> QED
    BY <2>1, <2>2
<1>4. \A k \in 0..Len(history) : run[k].tip_hash = TipOf(history, k)
  BY <1>1, <1>2, <1>3 DEF TipOf
<1>5. \A h \in 1..Len(history) :
          /\ history[h].header.parent_hash = run[h - 1].tip_hash
          /\ history[h].header.tx_root = ComputeTxRoot(history[h].transactions)
  BY DEF IsReplay, ValidateReplayedBlock
<1>6. \A h \in 1..Len(history) : h - 1 \in 0..Len(history)
  BY <1>1
<1> QED
  BY <1>1, <1>4, <1>5, <1>6 DEF Linked

\* Linked histories with the same tip have the same headers below it.
LEMMA SameBelow ==
    ASSUME NEW s, NEW t, IsSeq(s), IsSeq(t), Linked(s), Linked(t), NEW H \in Nat,
           H <= Len(s), H <= Len(t), TipOf(s, H) = TipOf(t, H)
    PROVE  \A g \in 1..H : s[g].header = t[g].header
<1> DEFINE S == {k \in Nat : k <= H => TipOf(s, H - k) = TipOf(t, H - k)}
<1>0. /\ Len(s) \in Nat /\ DOMAIN s = 1..Len(s)
      /\ Len(t) \in Nat /\ DOMAIN t = 1..Len(t)
  BY SeqDomain
<1>1. ASSUME NEW g \in 1..H, TipOf(s, g) = TipOf(t, g)
      PROVE  s[g].header = t[g].header
  <2>1. Blake3("header", s[g].header)[2] = Blake3("header", t[g].header)[2]
    BY <1>1 DEF TipOf
  <2> QED
    BY <2>1 DEF Blake3
<1>2. 0 \in S
  OBVIOUS
<1>3. ASSUME NEW k \in S
      PROVE  k + 1 \in S
  <2>1. SUFFICES ASSUME k + 1 <= H PROVE TipOf(s, H - (k + 1)) = TipOf(t, H - (k + 1))
    OBVIOUS
  <2>2. PICK g : g = H - k
    OBVIOUS
  <2>3. /\ g \in 1..H /\ g \in DOMAIN s /\ g \in DOMAIN t /\ H - (k + 1) = g - 1
        /\ TipOf(s, g) = TipOf(t, g)
    BY <2>1, <2>2, <1>0
  <2>4. s[g].header = t[g].header
    BY <2>3, <1>1
  <2>5. TipOf(s, g - 1) = TipOf(t, g - 1)
    BY <2>3, <2>4 DEF Linked
  <2> QED
    BY <2>3, <2>5
<1> HIDE DEF S
<1>4. S \in SUBSET Nat
  BY DEF S
<1>5. S = Nat
  BY <1>2, <1>3, <1>4, NatSet
<1>6. ASSUME NEW g \in 1..H
      PROVE  TipOf(s, g) = TipOf(t, g)
  <2>1. H - g \in Nat /\ H - g <= H /\ H - (H - g) = g
    OBVIOUS
  <2>2. H - g \in S
    BY <2>1, <1>5
  <2> QED
    BY <2>1, <2>2 DEF S
<1> QED
  BY <1>1, <1>6

\* Blocks with the same transaction root have the same identifiers in the same
\* order.
LEMMA SameIds ==
    ASSUME NEW a, NEW b, ComputeTxRoot(a) = ComputeTxRoot(b)
    PROVE  DOMAIN a = DOMAIN b /\ \A i \in DOMAIN a : TxId(a[i]) = TxId(b[i])
<1> DEFINE f == [i \in DOMAIN a |-> TxId(a[i])]
           g == [i \in DOMAIN b |-> TxId(b[i])]
<1>1. ComputeTxRoot(a)[2] = f /\ ComputeTxRoot(b)[2] = g
  BY DEF ComputeTxRoot, Blake3
<1>2. f = g
  BY <1>1
<1>3. DOMAIN f = DOMAIN a /\ DOMAIN g = DOMAIN b
  OBVIOUS
<1>4. \A i \in DOMAIN a : f[i] = TxId(a[i])
  OBVIOUS
<1>5. \A i \in DOMAIN b : g[i] = TxId(b[i])
  OBVIOUS
<1> HIDE DEF f, g
<1> QED
  BY <1>2, <1>3, <1>4, <1>5

\* What a block must be to be added to a history.
Fresh(b, history) ==
    /\ IsSeq(b.transactions) /\ DistinctIds(b.transactions)
    /\ \A h \in DOMAIN history :
          \A i \in DOMAIN b.transactions, j \in DOMAIN history[h].transactions :
              TxId(b.transactions[i]) # TxId(history[h].transactions[j])

\* A history without repetitions has none after a fresh block.
LEMMA FreshExtends ==
    ASSUME NEW s, IsSeq(s), NEW b, Fresh(b, s), IdsOnce(s),
           \A h \in DOMAIN s : IsSeq(s[h].transactions)
    PROVE  /\ IdsOnce(Append(s, b))
           /\ \A h \in DOMAIN Append(s, b) : IsSeq(Append(s, b)[h].transactions)
<1> DEFINE t == Append(s, b)
           H == Len(s) + 1
<1>1. Len(s) \in Nat /\ DOMAIN s = 1..Len(s) /\ DOMAIN t = 1..H
      /\ t[H] = b /\ \A h \in DOMAIN s : t[h] = s[h]
  BY SeqDomain, AppendFacts
<1> HIDE DEF t
<1>2. \A h \in DOMAIN t : h = H \/ h \in DOMAIN s
  BY <1>1
<1>3. \A h \in DOMAIN t : IsSeq(t[h].transactions)
  BY <1>1, <1>2 DEF Fresh
<1>4. ASSUME NEW g \in DOMAIN t, NEW h \in DOMAIN t,
             NEW i \in DOMAIN t[g].transactions, NEW j \in DOMAIN t[h].transactions,
             TxId(t[g].transactions[i]) = TxId(t[h].transactions[j])
      PROVE  g = h /\ i = j
  <2> HIDE DEF H
  <2>1. CASE g = H /\ h = H
    BY <1>1, <1>4, <2>1 DEF Fresh, DistinctIds
  <2>2. CASE g = H /\ h \in DOMAIN s
    BY <1>1, <1>4, <2>2 DEF Fresh
  <2>3. CASE g \in DOMAIN s /\ h = H
    BY <1>1, <1>4, <2>3 DEF Fresh
  <2>4. CASE g \in DOMAIN s /\ h \in DOMAIN s
    BY <1>1, <1>4, <2>4 DEF IdsOnce
  <2> QED
    BY <1>2, <2>1, <2>2, <2>3, <2>4
<1>5. IdsOnce(t)
  BY <1>4 DEF IdsOnce
<1> QED
  BY <1>3, <1>5 DEF t

\* A block from the wire that fits on a node's chain is fresh there: its maker has
\* the same identifiers below it.
LEMMA WireIsFresh ==
    ASSUME IndInv, FilesInv, MempoolInv, NEW n \in Node, phase[n] = "up", NEW b \in wire,
           ValidateReplayedBlock(chain[n], b, EngineValidators(n))
    PROVE  Fresh(b, blocks[n])
<1> DEFINE q == OwnerOf[b.proposer_public_key]
           H == Len(blocks[n])
<1>1. /\ q \in Node /\ b.header.height \in DOMAIN blocks[q]
      /\ blocks[q][b.header.height] = b
  BY ReplicaConstants DEF IndInv, WireOwned
<1>2. b.header.height = H + 1 /\ b.header.parent_hash = chain[n].tip_hash
  BY DEF ValidateReplayedBlock, IndInv, HeightIsLength
<1> HIDE DEF q
<1>3. \A m \in Node : /\ IsSeq(blocks[m]) /\ IsSeq(diskBlocks[m])
                      /\ AtMostOneMore(blocks[m], diskBlocks[m])
                      /\ Len(blocks[m]) \in Nat /\ DOMAIN blocks[m] = 1..Len(blocks[m])
                      /\ DOMAIN blocks[m] \subseteq DOMAIN diskBlocks[m]
                      /\ \A h \in DOMAIN blocks[m] : diskBlocks[m][h] = blocks[m][h]
  BY SeqDomain DEF IndInv, TypeOK, DiskHoldsChain, AtMostOneMore
<1>4. Linked(blocks[n]) /\ chain[n].tip_hash = TipOf(blocks[n], H)
  <2>1. PICK run : IsReplay(run, n, diskBlocks[n]) /\ Follows(run, n)
    BY DEF FilesInv, Replayable
  <2>2. IsReplay(run, n, blocks[n]) /\ chain[n] = run[H]
    BY <2>1, <1>3, ReplayOfPrefix DEF Follows
  <2> QED
    BY <2>2, <1>3, ReplayLinked
<1>5. Linked(blocks[q])
  <2>1. PICK run : IsReplay(run, q, diskBlocks[q])
    BY <1>1 DEF FilesInv, Replayable
  <2>2. IsReplay(run, q, blocks[q])
    BY <2>1, <1>1, <1>3, ReplayOfPrefix
  <2> QED
    BY <2>2, <1>1, <1>3, ReplayLinked
<1>6. H \in Nat /\ H + 1 \in DOMAIN blocks[q] /\ H <= Len(blocks[q])
  BY <1>1, <1>2, <1>3
<1>7. TipOf(blocks[q], H) = TipOf(blocks[n], H)
  <2>1. b.header.parent_hash = TipOf(blocks[q], (H + 1) - 1) /\ (H + 1) - 1 = H
    BY <1>1, <1>2, <1>5, <1>6 DEF Linked
  <2> QED
    BY <2>1, <1>2, <1>4
<1> HIDE DEF H
<1>8. \A g \in 1..H : blocks[q][g].header = blocks[n][g].header
  <2>1. IsSeq(blocks[q]) /\ IsSeq(blocks[n]) /\ H <= Len(blocks[n])
    BY <1>1, <1>3 DEF H
  <2> QED
    BY <2>1, <1>4, <1>5, <1>6, <1>7, SameBelow
<1>9. ASSUME NEW g \in DOMAIN blocks[n]
      PROVE  /\ g \in DOMAIN blocks[q] /\ g # H + 1
             /\ DOMAIN blocks[q][g].transactions = DOMAIN blocks[n][g].transactions
             /\ \A i \in DOMAIN blocks[n][g].transactions :
                   TxId(blocks[q][g].transactions[i]) = TxId(blocks[n][g].transactions[i])
  <2>1. g \in 1..H /\ g \in DOMAIN blocks[q] /\ g # H + 1
    BY <1>1, <1>3, <1>6 DEF H
  <2>2. ComputeTxRoot(blocks[q][g].transactions) = ComputeTxRoot(blocks[n][g].transactions)
    BY <2>1, <1>4, <1>5, <1>8 DEF Linked
  <2> QED
    BY <2>1, <2>2, SameIds
<1>10. IdsOnce(blocks[q]) /\ IsSeq(b.transactions)
  BY <1>1, <1>3 DEF MempoolInv, IdsOnce
<1>11. blocks[q][H + 1] = b
  BY <1>1, <1>2 DEF H
<1>12. DistinctIds(b.transactions)
  BY <1>6, <1>10, <1>11 DEF IdsOnce, DistinctIds
<1>13. ASSUME NEW h \in DOMAIN blocks[n], NEW i \in DOMAIN b.transactions,
              NEW j \in DOMAIN blocks[n][h].transactions
       PROVE  TxId(b.transactions[i]) # TxId(blocks[n][h].transactions[j])
  BY <1>6, <1>9, <1>10, <1>11 DEF IdsOnce
<1> QED
  BY <1>10, <1>12, <1>13 DEF Fresh

\* The block a node makes is fresh on its own chain.
LEMMA OwnIsFresh ==
    ASSUME MempoolInv, MempoolReady, NEW n \in Node, phase[n] = "up", NEW now
    PROVE  Fresh(ProposeBlock(chain[n], pending[n], key[n], now), blocks[n])
<1>1. ProposeBlock(chain[n], pending[n], key[n], now).transactions = pending[n]
  BY DEF ProposeBlock
<1>2. PendingIds(pending[n]) \cap CommittedIds(blocks[n]) = {}
  BY DEF MempoolReady
<1>3. ASSUME NEW h \in DOMAIN blocks[n], NEW i \in DOMAIN pending[n],
             NEW j \in DOMAIN blocks[n][h].transactions
      PROVE  TxId(pending[n][i]) # TxId(blocks[n][h].transactions[j])
  <2>1. TxId(pending[n][i]) \in PendingIds(pending[n])
    BY DEF PendingIds
  <2>2. TxId(blocks[n][h].transactions[j]) \in CommittedIds(blocks[n])
    BY DEF CommittedIds
  <2> QED
    BY <2>1, <2>2, <1>2
<1> QED
  BY <1>1, <1>3 DEF Fresh, MempoolInv

-----------------------------------------------------------------------------
(***************************************************************************)
(* What reconcile_pending_transactions leaves.                             *)
(***************************************************************************)
ReconcileLoop(c, history) == KeepLoop(CommittedIds(history), c.height + 1, c.chain_id)
ReconcileBase(c) == [ledger |-> c.ledger, kept |-> << >>]

\* Reconcile is its loop's value after the last transaction.
LEMMA ReconcileIsLoop ==
    ASSUME NEW c, NEW history, NEW txs, NEW n \in Nat, DOMAIN txs = 1..n
    PROVE  \E g : /\ Computes(g, ReconcileLoop(c, history), ReconcileBase(c), txs, n)
                  /\ Reconcile(c, history, txs) = g[1..n].kept
<1> DEFINE base == ReconcileBase(c)
           loop == ReconcileLoop(c, history)
           Next1(acc, tx) == KeepNext(acc, tx, CommittedIds(history), c.height + 1, c.chain_id)
           Body(g) == [s \in SUBSET (1..n) |->
                          IF s = {} THEN base
                          ELSE Next1(g[s \ {Max(s)}], txs[Max(s)])]
           it == CHOOSE g : g = Body(g)
<1>1. PICK f : Computes(f, loop, base, txs, n)
  BY LoopExists
<1>2. \A acc, x : Turn(loop, acc, x) = Next1(acc, x)
  BY DEF Turn, ReconcileLoop, KeepLoop
<1> HIDE DEF loop
<1>3. f = Body(f)
  <2> HIDE DEF Next1
  <2> QED
    BY <1>1, <1>2 DEF Computes
<1>4. it = Body(it)
  BY <1>3
<1>5. Reconcile(c, history, txs) = it[1..n].kept
  BY DEF Reconcile, FoldLeft, MapThenFoldSet, KeepNext, ReconcileBase
<1> HIDE DEF it, Next1
<1>6. Computes(it, loop, base, txs, n)
  <2>1. it = [s \in SUBSET (1..n) |-> it[s]]
    BY <1>4
  <2>2. it[{}] = base
    BY <1>4
  <2>3. \A s \in SUBSET (1..n) : s # {} => it[s] = Next1(it[s \ {Max(s)}], txs[Max(s)])
    BY <1>4
  <2>4. \A s \in SUBSET (1..n) :
            s # {} => it[s] = Turn(loop, it[s \ {Max(s)}], txs[Max(s)])
    BY <2>3, <1>2
  <2> HIDE DEF base
  <2> QED
    BY <2>1, <2>2, <2>4 DEF Computes
<1> QED
  BY <1>5, <1>6 DEF loop

\* The transactions kept after some of them: new, with different identifiers,
\* applicable one after the other; the scratch ledger is what they leave, with
\* perhaps more assets.
KeptWell(acc, c, history, ids) ==
    LET r == ApplyTransactions(c.ledger, acc.kept, c.height + 1, c.chain_id)
    IN  /\ IsSeq(acc.kept) /\ DistinctIds(acc.kept)
        /\ PendingIds(acc.kept) \subseteq ids \ CommittedIds(history)
        /\ r.result = "ok"
        /\ FewerAssets(r.ledger, acc.ledger)

\* One turn keeps that.
LEMMA KeepTurn ==
    ASSUME NEW acc, NEW c, NEW history, NEW ids, KeptWell(acc, c, history, ids),
           NEW tx, TxId(tx) \notin ids
    PROVE  KeptWell(KeepNext(acc, tx, CommittedIds(history), c.height + 1, c.chain_id),
                    c, history, ids \cup {TxId(tx)})
<1> DEFINE h == c.height + 1
           next == KeepNext(acc, tx, CommittedIds(history), h, c.chain_id)
           r == ApplyTransactions(c.ledger, acc.kept, h, c.chain_id)
           applied == ApplyTransaction(acc.ledger, tx, h, c.chain_id)
<1>1. /\ IsSeq(acc.kept) /\ DistinctIds(acc.kept)
      /\ PendingIds(acc.kept) \subseteq ids \ CommittedIds(history)
      /\ r.result = "ok" /\ FewerAssets(r.ledger, acc.ledger)
  BY DEF KeptWell
<1>2. CASE TxId(tx) \in CommittedIds(history)
  <2>1. next = acc
    BY <1>2 DEF KeepNext
  <2> QED
    BY <2>1, <1>1 DEF KeptWell
<1>3. CASE TxId(tx) \notin CommittedIds(history) /\ applied.result # "ok"
  <2>1. next = [ledger |-> applied.ledger, kept |-> acc.kept]
    BY <1>3 DEF KeepNext
  <2>2. next.ledger = applied.ledger /\ next.kept = acc.kept
    BY <2>1
  <2>3. FewerAssets(r.ledger, applied.ledger)
    <3>1. /\ IsLedger(acc.ledger) /\ IsLedger(r.ledger) /\ r.ledger.utxos = acc.ledger.utxos
          /\ DOMAIN r.ledger.assets \subseteq DOMAIN acc.ledger.assets
      BY <1>1 DEF FewerAssets
    <3>2. /\ IsLedger(applied.ledger) /\ applied.ledger.utxos = acc.ledger.utxos
          /\ DOMAIN acc.ledger.assets \subseteq DOMAIN applied.ledger.assets
      BY <3>1, <1>3, ApplyShape
    <3> HIDE DEF r, applied
    <3> QED
      BY <3>1, <3>2 DEF FewerAssets
  <2> HIDE DEF next
  <2>4. KeptWell(next, c, history, ids \cup {TxId(tx)})
    BY <2>2, <2>3, <1>1 DEF KeptWell
  <2> QED
    BY <2>4 DEF next
<1>4. CASE TxId(tx) \notin CommittedIds(history) /\ applied.result = "ok"
  <2>1. next = [ledger |-> applied.ledger, kept |-> Append(acc.kept, tx)]
    BY <1>4 DEF KeepNext
  <2>2. next.ledger = applied.ledger /\ next.kept = Append(acc.kept, tx)
    BY <2>1
  <2> DEFINE kept == Append(acc.kept, tx)
             after == ApplyTransaction(r.ledger, tx, h, c.chain_id)
  <2>3. after.result = "ok" /\ FewerAssets(after.ledger, applied.ledger)
    BY <1>1, <1>4, ResidueIsHarmless
  <2>4. ApplyTransactions(c.ledger, kept, h, c.chain_id) = after
    <3>1. ApplyTransactions(c.ledger, kept, h, c.chain_id) = ApplyNext(r, tx, h, c.chain_id)
      BY <1>1, ApplyLast DEF IsSeq
    <3> QED
      BY <3>1, <1>1 DEF ApplyNext
  <2>5. /\ IsSeq(kept) /\ Len(acc.kept) \in Nat /\ DOMAIN acc.kept = 1..Len(acc.kept)
        /\ DOMAIN kept = 1..(Len(acc.kept) + 1)
        /\ \A i \in DOMAIN acc.kept : kept[i] = acc.kept[i]
        /\ kept[Len(acc.kept) + 1] = tx
    BY <1>1, AppendFacts, SeqDomain
  <2> HIDE DEF kept, after, next
  <2>6. \A i \in DOMAIN kept : i = Len(acc.kept) + 1 \/ i \in DOMAIN acc.kept
    BY <2>5
  <2>7. \A i \in DOMAIN acc.kept : TxId(acc.kept[i]) \in ids \ CommittedIds(history)
    BY <1>1 DEF PendingIds
  <2>8. DistinctIds(kept)
    BY <1>1, <2>5, <2>6, <2>7 DEF DistinctIds
  <2>9. PendingIds(kept) \subseteq (ids \cup {TxId(tx)}) \ CommittedIds(history)
    BY <1>4, <2>5, <2>6, <2>7 DEF PendingIds
  <2>10. KeptWell(next, c, history, ids \cup {TxId(tx)})
    BY <2>2, <2>3, <2>4, <2>5, <2>8, <2>9 DEF KeptWell, kept
  <2> QED
    BY <2>10 DEF next
<1> QED
  BY <1>2, <1>3, <1>4

\* What is left is new, has different identifiers, and applies one after the other
\* at the next height.
LEMMA ReconcileKeeps ==
    ASSUME NEW c, NEW history, NEW txs, IsSeq(txs), DistinctIds(txs), IsLedger(c.ledger)
    PROVE  LET kept == Reconcile(c, history, txs)
           IN  /\ IsSeq(kept) /\ DistinctIds(kept)
               /\ PendingIds(kept) \cap CommittedIds(history) = {}
               /\ Simulate(c, kept, c.height + 1).result = "ok"
<1> DEFINE n == Len(txs)
           base == ReconcileBase(c)
           loop == ReconcileLoop(c, history)
           Ids(k) == {TxId(txs[i]) : i \in 1..k}
<1>1. n \in Nat /\ DOMAIN txs = 1..n
  BY SeqDomain
<1> HIDE DEF n
<1>2. PICK g : Computes(g, loop, base, txs, n) /\ Reconcile(c, history, txs) = g[1..n].kept
  BY <1>1, ReconcileIsLoop
<1>3. Runs(g, loop, base, txs, n)
  BY <1>1, <1>2, LoopTurn
<1>4. \A acc, x : Turn(loop, acc, x)
                    = KeepNext(acc, x, CommittedIds(history), c.height + 1, c.chain_id)
  BY DEF Turn, ReconcileLoop, KeepLoop
<1> HIDE DEF loop
<1> DEFINE S == {k \in Nat : k <= n => KeptWell(g[1..k], c, history, Ids(k))}
<1>5. 0 \in S
  <2>1. g[1..0].kept = << >> /\ g[1..0].ledger = c.ledger
    BY <1>3 DEF Runs, ReconcileBase
  <2>2. ApplyTransactions(c.ledger, << >>, c.height + 1, c.chain_id)
          = [result |-> "ok", ledger |-> c.ledger]
    BY ApplyNone
  <2>3. FewerAssets(c.ledger, c.ledger)
    BY DEF FewerAssets
  <2>4. DistinctIds(<< >>) /\ PendingIds(<< >>) = {} /\ IsSeq(<< >>)
    BY EmptyIsSeq DEF DistinctIds, PendingIds
  <2>5. KeptWell(g[1..0], c, history, Ids(0))
    BY <2>1, <2>2, <2>3, <2>4 DEF KeptWell
  <2> QED
    BY <2>5
<1>6. ASSUME NEW k \in S
      PROVE  k + 1 \in S
  <2>1. SUFFICES ASSUME k + 1 <= n PROVE KeptWell(g[1..(k + 1)], c, history, Ids(k + 1))
    OBVIOUS
  <2>2. k \in Nat /\ KeptWell(g[1..k], c, history, Ids(k)) /\ k + 1 \in 1..n
        /\ (k + 1) - 1 = k
    BY <1>1, <2>1
  <2>3. g[1..(k + 1)]
          = KeepNext(g[1..k], txs[k + 1], CommittedIds(history), c.height + 1, c.chain_id)
    BY <1>3, <1>4, <2>2 DEF Runs
  <2>4. TxId(txs[k + 1]) \notin Ids(k)
    <3>1. ASSUME NEW i \in 1..k PROVE TxId(txs[i]) # TxId(txs[k + 1])
      <4>1. i \in DOMAIN txs /\ k + 1 \in DOMAIN txs /\ i # k + 1
        BY <1>1, <2>2
      <4> QED
        BY <4>1 DEF DistinctIds
    <3> QED
      BY <3>1
  <2>5. Ids(k + 1) = Ids(k) \cup {TxId(txs[k + 1])}
    <3>1. 1..(k + 1) = (1..k) \cup {k + 1}
      BY <2>2
    <3> QED
      BY <3>1
  <2> HIDE DEF Ids
  <2> QED
    BY <2>2, <2>3, <2>4, <2>5, KeepTurn
<1> HIDE DEF S
<1>7. S \in SUBSET Nat
  BY DEF S
<1>8. S = Nat
  BY <1>5, <1>6, <1>7, NatSet
<1>9. KeptWell(g[1..n], c, history, Ids(n))
  <2> HIDE DEF Ids
  <2> QED
    BY <1>1, <1>8 DEF S
<1> HIDE DEF Ids
<1>10. PICK kept : kept = g[1..n].kept
  OBVIOUS
<1>11. /\ IsSeq(kept) /\ DistinctIds(kept)
       /\ PendingIds(kept) \subseteq Ids(n) \ CommittedIds(history)
       /\ ApplyTransactions(c.ledger, kept, c.height + 1, c.chain_id).result = "ok"
  BY <1>9, <1>10 DEF KeptWell
<1> QED
  BY <1>2, <1>10, <1>11 DEF Simulate

\* A block's transactions leave a ledger.
LEMMA ApplyKeepsLedger ==
    ASSUME NEW l, IsLedger(l), NEW txs, IsSeq(txs), NEW height, NEW id
    PROVE  IsLedger(ApplyTransactions(l, txs, height, id).ledger)
<1> DEFINE n == Len(txs)
           base == [result |-> "ok", ledger |-> l]
           loop == ApplyLoop(height, id)
<1>1. n \in Nat /\ DOMAIN txs = 1..n
  BY SeqDomain
<1> HIDE DEF n
<1>2. PICK g : Computes(g, loop, base, txs, n)
               /\ ApplyTransactions(l, txs, height, id) = g[1..n]
  BY <1>1, ApplyIsLoop
<1>3. Runs(g, loop, base, txs, n)
  BY <1>1, <1>2, LoopTurn
<1>4. \A acc, x : Turn(loop, acc, x) = ApplyNext(acc, x, height, id)
  BY DEF Turn, ApplyLoop
<1> HIDE DEF loop
<1> DEFINE S == {k \in Nat : k <= n => IsLedger(g[1..k].ledger)}
<1>5. 0 \in S
  BY <1>3 DEF Runs
<1>6. ASSUME NEW k \in S
      PROVE  k + 1 \in S
  <2>1. SUFFICES ASSUME k + 1 <= n PROVE IsLedger(g[1..(k + 1)].ledger)
    OBVIOUS
  <2>2. IsLedger(g[1..k].ledger) /\ k + 1 \in 1..n /\ (k + 1) - 1 = k
    BY <1>1, <2>1
  <2>3. g[1..(k + 1)] = ApplyNext(g[1..k], txs[k + 1], height, id)
    BY <1>3, <1>4, <2>2 DEF Runs
  <2>4. IsLedger(ApplyTransaction(g[1..k].ledger, txs[k + 1], height, id).ledger)
    BY <2>2, ApplyShape
  <2> QED
    BY <2>2, <2>3, <2>4 DEF ApplyNext
<1> HIDE DEF S
<1>7. S \in SUBSET Nat
  BY DEF S
<1>8. S = Nat
  BY <1>5, <1>6, <1>7, NatSet
<1> QED
  BY <1>1, <1>2, <1>8 DEF S

-----------------------------------------------------------------------------
\* Nothing is pending before the first start.
LEMMA InitMempool == ASSUME Init PROVE MempoolInv /\ MempoolReady
<1>1. IsLedger(EmptyLedger)
  BY DEF IsLedger, EmptyLedger
<1>2. \A n \in Node : chain[n].ledger = EmptyLedger /\ phase[n] = "down"
                      /\ pending[n] = << >> /\ diskBlocks[n] = << >>
  BY DEF Init, DefaultChainState
<1> QED
  BY <1>1, <1>2, EmptyIsSeq DEF MempoolInv, MempoolReady, DistinctIds, IdsOnce

\* Applying a fresh block keeps the histories free of repetitions and the mempool
\* ready, whether the block is adopted or a save fails.
LEMMA ApplyMempool ==
    ASSUME IndInv, MempoolInv, MempoolReady, NEW n \in Node, NEW b, phase[n] = "up",
           Fresh(b, blocks[n]), NodeApplyBlock(n, b)
    PROVE  MempoolInv' /\ MempoolReady'
<1> DEFINE nc == ApplyBlock(chain[n], b)
           nb == Append(blocks[n], b)
<1>1. /\ Adopt(n, nc, nb) \/ SaveFails(n, nc, nb)
      /\ phase' = phase
  BY DEF NodeApplyBlock, HistoryWith
<1>2. /\ IsSeq(blocks[n]) /\ AtMostOneMore(blocks[n], diskBlocks[n])
      /\ IsSeq(diskBlocks[n])
      /\ DOMAIN pending = Node /\ DOMAIN chain = Node /\ DOMAIN blocks = Node
      /\ DOMAIN diskBlocks = Node
  BY DEF IndInv, TypeOK, DiskHoldsChain
<1>3. DOMAIN blocks[n] \subseteq DOMAIN diskBlocks[n]
      /\ \A h \in DOMAIN blocks[n] : diskBlocks[n][h] = blocks[n][h]
  BY <1>2, SeqDomain DEF AtMostOneMore
<1>4. /\ IdsOnce(nb) /\ \A h \in DOMAIN nb : IsSeq(nb[h].transactions)
  <2>1. IdsOnce(blocks[n]) /\ \A h \in DOMAIN blocks[n] : IsSeq(blocks[n][h].transactions)
    BY <1>3 DEF MempoolInv, IdsOnce
  <2> QED
    BY <2>1, <1>2, FreshExtends
<1>5. IsLedger(nc.ledger)
  <2>1. nc.ledger = ApplyTransactions(chain[n].ledger, b.transactions, b.header.height,
                                      chain[n].chain_id).ledger
    BY DEF ApplyBlock
  <2>2. IsLedger(chain[n].ledger) /\ IsSeq(b.transactions)
    BY DEF MempoolInv, Fresh
  <2> QED
    BY <2>1, <2>2, ApplyKeepsLedger
<1> HIDE DEF nc, nb
<1>6. diskBlocks' = [diskBlocks EXCEPT ![n] = nb]
  BY <1>1 DEF Adopt, SaveFails
<1>7. ASSUME NEW m \in Node
      PROVE  /\ IdsOnce(diskBlocks'[m])
             /\ \A h \in DOMAIN diskBlocks'[m] : IsSeq(diskBlocks'[m][h].transactions)
  BY <1>2, <1>4, <1>6 DEF MempoolInv
<1>8. CASE Adopt(n, nc, nb)
  <2> DEFINE kept == Reconcile(nc, nb, pending[n])
  <2>1. /\ chain' = [chain EXCEPT ![n] = nc] /\ blocks' = [blocks EXCEPT ![n] = nb]
        /\ pending' = [pending EXCEPT ![n] = kept]
    BY <1>8 DEF Adopt
  <2>2. /\ IsSeq(kept) /\ DistinctIds(kept)
        /\ PendingIds(kept) \cap CommittedIds(nb) = {}
        /\ Simulate(nc, kept, nc.height + 1).result = "ok"
    BY <1>5, ReconcileKeeps DEF MempoolInv
  <2> HIDE DEF kept
  <2>3. /\ chain'[n] = nc /\ blocks'[n] = nb /\ pending'[n] = kept
        /\ \A m \in Node : m # n => /\ chain'[m] = chain[m] /\ blocks'[m] = blocks[m]
                                    /\ pending'[m] = pending[m]
    BY <1>2, <2>1
  <2>4. MempoolInv'
    <3>1. ASSUME NEW m \in Node
          PROVE  /\ IsSeq(pending'[m]) /\ DistinctIds(pending'[m])
                 /\ phase'[m] # "up" => pending'[m] = << >>
                 /\ IsLedger(chain'[m].ledger)
      <4>1. CASE m = n
        BY <4>1, <1>1, <1>5, <2>2, <2>3
      <4>2. CASE m # n
        BY <4>2, <1>1, <2>3 DEF MempoolInv
      <4> QED
        BY <4>1, <4>2
    <3> QED
      BY <3>1, <1>7 DEF MempoolInv
  <2>5. MempoolReady'
    <3>1. ASSUME NEW m \in Node, phase'[m] = "up"
          PROVE  /\ Simulate(chain'[m], pending'[m], chain'[m].height + 1).result = "ok"
                 /\ PendingIds(pending'[m]) \cap CommittedIds(blocks'[m]) = {}
      <4>1. CASE m = n
        BY <4>1, <2>2, <2>3
      <4>2. CASE m # n
        BY <4>2, <3>1, <1>1, <2>3 DEF MempoolReady
      <4> QED
        BY <4>1, <4>2
    <3> QED
      BY <3>1 DEF MempoolReady
  <2> QED
    BY <2>4, <2>5
<1>9. CASE SaveFails(n, nc, nb)
  <2>1. chain' = chain /\ blocks' = blocks /\ pending' = pending
    BY <1>9 DEF SaveFails
  <2> QED
    BY <1>1, <1>7, <2>1 DEF MempoolInv, MempoolReady
<1> QED
  BY <1>1, <1>8, <1>9

\* Every step keeps the mempools ready.
LEMMA NextMempool ==
    ASSUME IndInv, FilesInv, MempoolInv, MempoolReady, [Next]_vars
    PROVE  MempoolInv' /\ MempoolReady'
<1> USE DEF vars, memory, disk
<1>0. DOMAIN pending = Node /\ DOMAIN chain = Node /\ DOMAIN blocks = Node
      /\ DOMAIN phase = Node
  BY DEF IndInv, TypeOK
<1>1. ASSUME NEW n \in Node, NEW tx \in Txs, AcceptTransaction(n, tx)
      PROVE  MempoolInv' /\ MempoolReady'
  <2> DEFINE txs == Append(pending[n], tx)
  <2>1. /\ pending' = [pending EXCEPT ![n] = txs]
        /\ UNCHANGED <<phase, chain, blocks, diskBlocks>>
        /\ phase[n] = "up"
        /\ TxId(tx) \notin CommittedIds(blocks[n]) \cup PendingIds(pending[n])
        /\ Simulate(chain[n], txs, chain[n].height + 1).result = "ok"
    BY <1>1 DEF AcceptTransaction
  <2>2. IsSeq(pending[n]) /\ DistinctIds(pending[n])
        /\ PendingIds(pending[n]) \cap CommittedIds(blocks[n]) = {}
    BY <2>1 DEF MempoolInv, MempoolReady
  <2>3. /\ IsSeq(txs) /\ Len(pending[n]) \in Nat /\ DOMAIN pending[n] = 1..Len(pending[n])
        /\ DOMAIN txs = 1..(Len(pending[n]) + 1)
        /\ \A i \in DOMAIN pending[n] : txs[i] = pending[n][i]
        /\ txs[Len(pending[n]) + 1] = tx
    BY <2>2, SeqDomain, AppendFacts
  <2> HIDE DEF txs
  <2>4. \A i \in DOMAIN txs : i = Len(pending[n]) + 1 \/ i \in DOMAIN pending[n]
    BY <2>3
  <2>5. \A i \in DOMAIN pending[n] : TxId(pending[n][i]) \in PendingIds(pending[n])
    BY DEF PendingIds
  <2>6. DistinctIds(txs)
    BY <2>1, <2>2, <2>3, <2>4, <2>5 DEF DistinctIds
  <2>7. PendingIds(txs) \cap CommittedIds(blocks[n]) = {}
    <3>1. ASSUME NEW x \in PendingIds(txs)
          PROVE  x \notin CommittedIds(blocks[n])
      <4>1. PICK i \in DOMAIN txs : x = TxId(txs[i])
        BY DEF PendingIds
      <4> QED
        BY <4>1, <2>1, <2>2, <2>3, <2>4, <2>5
    <3> QED
      BY <3>1
  <2>8. pending'[n] = txs /\ \A m \in Node : m # n => pending'[m] = pending[m]
    BY <1>0, <2>1
  <2>9. MempoolInv'
    BY <2>1, <2>3, <2>6, <2>8 DEF MempoolInv
  <2>10. MempoolReady'
    BY <2>1, <2>7, <2>8 DEF MempoolReady
  <2> QED
    BY <2>9, <2>10
<1>2. ASSUME NEW n \in Node, NEW now \in Clock, Produce(n, now)
      PROVE  MempoolInv' /\ MempoolReady'
  <2> DEFINE b == ProposeBlock(chain[n], pending[n], key[n], now)
  <2>1. phase[n] = "up" /\ NodeApplyBlock(n, b)
    BY <1>2 DEF Produce
  <2>2. Fresh(b, blocks[n])
    BY <2>1, OwnIsFresh
  <2> HIDE DEF b
  <2> QED
    BY <2>1, <2>2, ApplyMempool
<1>3. ASSUME NEW n \in Node, NEW b \in wire, ReceiveBlock(n, b)
      PROVE  MempoolInv' /\ MempoolReady'
  <2>1. phase[n] = "up" /\ NodeApplyBlock(n, b)
        /\ ValidateReplayedBlock(chain[n], b, EngineValidators(n))
    BY <1>3 DEF ReceiveBlock, NodeApplyBlock
  <2>2. Fresh(b, blocks[n])
    BY <2>1, WireIsFresh
  <2> QED
    BY <2>1, <2>2, ApplyMempool
<1>4. ASSUME \/ \E n \in Node : \E h \in DOMAIN blocks[n] : SendBlock(n, h)
             \/ UNCHANGED vars
      PROVE  MempoolInv' /\ MempoolReady'
  <2>1. UNCHANGED <<phase, chain, blocks, pending, diskBlocks>>
    BY <1>4 DEF SendBlock
  <2> QED
    BY <2>1 DEF MempoolInv, MempoolReady
<1>5. ASSUME NEW n \in Node, Crash(n) \/ RepairFails(n) \/ Start(n)
      PROVE  MempoolInv' /\ MempoolReady'
  <2>1. /\ \/ phase' = [phase EXCEPT ![n] = "down"]
           \/ phase' = [phase EXCEPT ![n] = "replaying"]
        /\ \/ chain' = [chain EXCEPT ![n] = DefaultChainState(ChainIdOf[n])]
           \/ chain' = chain
        /\ \/ pending' = [pending EXCEPT ![n] = << >>]
           \/ pending' = pending /\ phase[n] # "up"
        /\ blocks' = blocks /\ diskBlocks' = diskBlocks
    BY <1>5 DEF Crash, RepairFails, Start
  <2>2. /\ phase'[n] # "up" /\ pending'[n] = << >>
        /\ \A m \in Node : m # n => phase'[m] = phase[m] /\ pending'[m] = pending[m]
                                    /\ chain'[m] = chain[m]
    BY <1>0, <2>1 DEF MempoolInv
  <2>3. IsLedger(chain'[n].ledger)
    <3>1. DefaultChainState(ChainIdOf[n]).ledger = EmptyLedger /\ IsLedger(EmptyLedger)
      BY DEF DefaultChainState, IsLedger, EmptyLedger
    <3> QED
      BY <3>1, <1>0, <2>1 DEF MempoolInv
  <2>4. MempoolInv'
    BY <2>1, <2>2, <2>3, EmptyIsSeq DEF MempoolInv, DistinctIds
  <2>5. MempoolReady'
    BY <2>1, <2>2 DEF MempoolReady
  <2> QED
    BY <2>4, <2>5
<1>6. ASSUME NEW n \in Node, Replay(n)
      PROVE  MempoolInv' /\ MempoolReady'
  <2> DEFINE b == diskBlocks[n][chain[n].height + 1]
             nc == ApplyBlock(chain[n], b)
  <2>1. /\ phase[n] = "replaying" /\ phase'[n] # "up"
        /\ \A m \in Node : m # n => phase'[m] = phase[m]
        /\ chain' = chain \/ chain' = [chain EXCEPT ![n] = nc]
        /\ UNCHANGED <<blocks, pending, diskBlocks>>
        /\ chain[n].height < Len(diskBlocks[n])
    BY <1>0, <1>6 DEF Replay
  <2>2. IsLedger(nc.ledger)
    <3>1. chain[n].height \in Nat /\ IsSeq(diskBlocks[n])
      BY DEF IndInv, TypeOK
    <3>2. chain[n].height + 1 \in DOMAIN diskBlocks[n]
      BY <3>1, <2>1, SeqDomain
    <3>3. IsSeq(b.transactions) /\ IsLedger(chain[n].ledger)
      BY <3>2 DEF MempoolInv
    <3> HIDE DEF b
    <3>4. nc.ledger = ApplyTransactions(chain[n].ledger, b.transactions, b.header.height,
                                        chain[n].chain_id).ledger
      BY DEF ApplyBlock
    <3> QED
      BY <3>3, <3>4, ApplyKeepsLedger
  <2> HIDE DEF nc
  <2>3. \A m \in Node : IsLedger(chain'[m].ledger)
    BY <1>0, <2>1, <2>2 DEF MempoolInv
  <2>4. \A m \in Node : m # n => chain'[m] = chain[m]
    BY <1>0, <2>1
  <2>5. MempoolInv'
    BY <2>1, <2>3 DEF MempoolInv
  <2>6. MempoolReady'
    BY <2>1, <2>4 DEF MempoolReady
  <2> QED
    BY <2>5, <2>6
<1>7. ASSUME NEW n \in Node, FinishStart(n)
      PROVE  MempoolInv' /\ MempoolReady'
  <2>1. /\ phase[n] = "replaying" /\ UNCHANGED <<chain, pending, diskBlocks>>
        /\ \A m \in Node : m # n => phase'[m] = phase[m] /\ blocks'[m] = blocks[m]
    BY <1>0, <1>7 DEF FinishStart
  <2>2. pending[n] = << >>
    BY <2>1 DEF MempoolInv
  <2>3. MempoolInv'
    BY <2>1, <2>2 DEF MempoolInv
  <2>4. /\ Simulate(chain[n], << >>, chain[n].height + 1).result = "ok"
        /\ PendingIds(<< >>) = {}
    BY ApplyNone DEF Simulate, PendingIds
  <2>5. MempoolReady'
    BY <2>1, <2>2, <2>4 DEF MempoolReady
  <2> QED
    BY <2>3, <2>5
<1> QED
  BY <1>1, <1>2, <1>3, <1>4, <1>5, <1>6, <1>7 DEF Next

\* A history file without repetitions has a chain without repetitions.
LEMMA InvOnce == ASSUME IndInv, MempoolInv PROVE CommittedOnce
<1>1. ASSUME NEW n \in Node PROVE IdsOnce(blocks[n])
  <2>1. IsSeq(blocks[n]) /\ IsSeq(diskBlocks[n]) /\ AtMostOneMore(blocks[n], diskBlocks[n])
    BY DEF IndInv, TypeOK, DiskHoldsChain
  <2>2. DOMAIN blocks[n] \subseteq DOMAIN diskBlocks[n]
        /\ \A h \in DOMAIN blocks[n] : diskBlocks[n][h] = blocks[n][h]
    BY <2>1, SeqDomain DEF AtMostOneMore
  <2> QED
    BY <2>2 DEF MempoolInv, IdsOnce
<1> QED
  BY <1>1 DEF CommittedOnce, IdsOnce

\* Histories never repeat a transaction and mempools are always ready.
THEOREM MempoolInvariance == Spec => [](MempoolInv /\ MempoolReady)
<1>1. Init => MempoolInv /\ MempoolReady
  BY InitMempool
<1>2. IndInv /\ FilesInv /\ (MempoolInv /\ MempoolReady) /\ [Next]_vars
        => (MempoolInv /\ MempoolReady)'
  BY NextMempool
<1> QED
  BY <1>1, <1>2, Invariance, FilesInvariance, PTL DEF Spec

\* Production is never stuck on a stale mempool, for any transactions: not even
\* when a rejected one left an asset on the scratch ledger.
THEOREM MempoolReadyHolds == Spec => []MempoolReady
BY MempoolInvariance, PTL

\* No transaction is committed twice on a chain, although neither the ledger nor
\* block validation looks for it.
THEOREM CommittedOnceHolds == Spec => []CommittedOnce
<1>1. IndInv /\ MempoolInv => CommittedOnce
  BY InvOnce
<1> QED
  BY <1>1, Invariance, MempoolInvariance, PTL
=============================================================================
