--------------------------- MODULE OneShotProofs ---------------------------
(***************************************************************************)
(* run --once only ever stores blocks of its own chain, for any peers,     *)
(* whatever chains they are on and however they grow, stop and fail.       *)
(***************************************************************************)
EXTENDS OneShot, TLAPS

(***************************************************************************)
(* OwnChainOnly is not inductive: a block is only fetched from a peer      *)
(* whose node info has been compared before.  Vetted says that this is so  *)
(* wherever the process is in its requests.                                *)
(***************************************************************************)
Vetted == pc \in {"tip", "block"} => ChainOf[Source] = OwnChain

OneShotInv ==
    /\ blocks \in Seq([chain : {OwnChain}, height : Nat])
    /\ OwnChainOnly
    /\ Vetted

\* Appending the next block of the own chain keeps the history's properties
\* (FetchBlock and Produce of run --once).
LEMMA AppendOwn ==
    ASSUME OneShotInv,
           blocks' = Append(blocks, Block(OwnChain, Len(blocks) + 1))
    PROVE  /\ blocks' \in Seq([chain : {OwnChain}, height : Nat])
           /\ OwnChainOnly'
  <1>1. Block(OwnChain, Len(blocks) + 1) \in [chain : {OwnChain}, height : Nat]
    BY DEF OneShotInv, Block
  <1>2. blocks' \in Seq([chain : {OwnChain}, height : Nat])
    BY <1>1 DEF OneShotInv
  <1>3. ASSUME NEW h \in DOMAIN blocks'
        PROVE  blocks'[h] = Block(OwnChain, h)
    <2>1. Len(blocks) \in Nat /\ DOMAIN blocks = 1..Len(blocks)
      BY DEF OneShotInv
    <2>2. h \in 1..(Len(blocks) + 1)
      BY <1>3, <2>1, <1>1 DEF OneShotInv
    <2>3. CASE h = Len(blocks) + 1
      BY <2>3, <1>1 DEF OneShotInv
    <2>4. CASE h \in 1..Len(blocks)
      <3>1. blocks'[h] = blocks[h]
        BY <2>4, <2>1, <1>1 DEF OneShotInv
      <3>2. QED BY <3>1, <2>4, <2>1 DEF OneShotInv, OwnChainOnly
    <2>5. QED BY <2>1, <2>2, <2>3, <2>4
  <1>4. QED BY <1>2, <1>3 DEF OwnChainOnly

\* After an error or a finished peer, the next request is for node info.
LEMMA NextPeerVets ==
    ASSUME NextPeer PROVE Vetted'
  BY DEF NextPeer, Vetted

\* The history of a one-shot node consists of blocks of its own chain, at their
\* heights: sync_from_peer_http's check of node info keeps every other out.
THEOREM OwnChainHolds == Spec => []OwnChainOnly
  <1>1. Init => OneShotInv
    BY DEF Init, OneShotInv, OwnChainOnly, Vetted
  <1>2. OneShotInv /\ [Next]_vars => OneShotInv'
    <2> SUFFICES ASSUME OneShotInv, [Next]_vars PROVE OneShotInv'
      OBVIOUS
    <2>1. ASSUME UNCHANGED blocks
          PROVE  /\ blocks' \in Seq([chain : {OwnChain}, height : Nat])
                 /\ OwnChainOnly'
      BY <2>1 DEF OneShotInv, OwnChainOnly
    <2>2. ASSUME UNCHANGED <<pc, at>> PROVE Vetted'
      BY <2>2 DEF OneShotInv, Vetted, Source
    <2>3. ASSUME NEW p \in Peer, PeerGrows(p) PROVE OneShotInv'
      BY <2>1, <2>2, <2>3 DEF PeerGrows, OneShotInv
    <2>4. ASSUME NEW p \in Peer, PeerStarts(p) PROVE OneShotInv'
      BY <2>1, <2>2, <2>4 DEF PeerStarts, OneShotInv
    <2>5. ASSUME NEW p \in Peer, PeerStops(p) PROVE OneShotInv'
      BY <2>1, <2>2, <2>5 DEF PeerStops, OneShotInv
    <2>6. CASE Start
      BY <2>1, <2>6 DEF Start, OneShotInv, Vetted
    <2>7. CASE Fails
      BY <2>1, <2>7, NextPeerVets DEF Fails, AfterError, OneShotInv
    <2>8. CASE NodeInfo
      <3>1. Vetted'
        <4>1. CASE Compatible(Source)
          BY <4>1, <2>8 DEF NodeInfo, Compatible, Vetted, Source
        <4>2. CASE ~Compatible(Source)
          BY <4>2, <2>8, NextPeerVets DEF NodeInfo, AfterError
        <4>3. QED BY <4>1, <4>2
      <3>2. QED BY <3>1, <2>1, <2>8 DEF NodeInfo, OneShotInv
    <2>9. CASE Tip
      BY <2>1, <2>9 DEF Tip, OneShotInv, Vetted, Source
    <2>10. CASE PeerDone
      BY <2>1, <2>10, NextPeerVets DEF PeerDone, OneShotInv
    <2>11. CASE FetchBlock
      <3>1. ChainOf[Source] = OwnChain
        BY <2>11 DEF FetchBlock, OneShotInv, Vetted
      <3>2. CASE blocks' = Append(blocks, Block(OwnChain, Len(blocks) + 1))
                 /\ UNCHANGED <<pc, at>>
        BY <3>2, <2>2, AppendOwn DEF OneShotInv
      <3>3. CASE AfterError /\ UNCHANGED blocks
        BY <3>3, <2>1, NextPeerVets DEF AfterError, OneShotInv
      <3>4. QED BY <3>1, <3>2, <3>3, <2>11 DEF FetchBlock
    <2>12. CASE Produce
      <3>1. Vetted'
        BY <2>12 DEF Produce, Vetted
      <3>2. QED BY <3>1, <2>1, <2>12, AppendOwn DEF Produce, OneShotInv
    <2>13. CASE UNCHANGED vars
      BY <2>1, <2>2, <2>13 DEF vars, OneShotInv
    <2>14. QED
      BY <2>3, <2>4, <2>5, <2>6, <2>7, <2>8, <2>9, <2>10, <2>11, <2>12, <2>13
      DEF Next, Step
  <1>3. OneShotInv => OwnChainOnly
    BY DEF OneShotInv
  <1>4. QED BY <1>1, <1>2, <1>3, PTL DEF Spec
=============================================================================
