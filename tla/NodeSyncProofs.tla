--------------------------- MODULE NodeSyncProofs ---------------------------
(***************************************************************************)
(* What a node believes of its peers' chains is never more than they have, *)
(* blocks and transactions stay in their network, and a network has one    *)
(* chain: for any number of nodes, losses and restarts.                    *)
(***************************************************************************)
EXTENDS NodeSync, TLAPS

(***************************************************************************)
(* AsksForExisting is not inductive: a request follows a tip, which        *)
(* followed a frame.  Along the way nothing overtakes the peer's chain,    *)
(* because chains, which survive restarts, only grow.                      *)
(***************************************************************************)
FrameOK(f) ==
    /\ f.src \in Node /\ f.dst \in Node
    /\ f.type = "TipResponse" => f.height \in Nat /\ f.height <= Height(f.src)
    /\ f.type = "BlockRequest" => f.height \in Nat /\ f.height <= Height(f.dst)
    /\ f.type = "SubmitBlock" => f.block \in AnyBlock
    /\ f.type = "BlockResponse" => f.block = << >> \/ f.block[1] \in AnyBlock
    /\ f.type = "TransactionResponse" => (f.found => f.tx \in Tx)

ChainOK == chain \in [Node -> Seq(AnyBlock)] /\ pool \in [Node -> SUBSET Tx]

TipsOK ==
    /\ tips \in [Node -> [Node -> Nat]]
    /\ \A n, m \in Node : tips[n][m] <= Height(m)

SyncInv ==
    /\ ChainOK
    /\ known \in [Node -> SUBSET Node]
    /\ TipsOK
    /\ \A f \in net : FrameOK(f)

Grows == \A n \in Node : Height(n) \in Nat /\ Height(n)' \in Nat /\ Height(n) <= Height(n)'

-----------------------------------------------------------------------------
(***************************************************************************)
(* Steps that leave the chains alone, that append a block, and what a      *)
(* growing chain preserves.                                                *)
(***************************************************************************)
\* No chain shrinks when none changes.
LEMMA SameChain ==
    ASSUME ChainOK, UNCHANGED chain PROVE Grows
  BY DEF ChainOK, Grows, Height

\* No chain shrinks when a block is appended to one.
LEMMA AppendGrows ==
    ASSUME ChainOK, NEW n \in Node, NEW b \in AnyBlock,
           chain' = [chain EXCEPT ![n] = Append(@, b)]
    PROVE  chain' \in [Node -> Seq(AnyBlock)] /\ Grows
  <1>1. chain[n] \in Seq(AnyBlock)
    BY DEF ChainOK
  <1>2. /\ Append(chain[n], b) \in Seq(AnyBlock)
        /\ Len(chain[n]) \in Nat
        /\ Len(Append(chain[n], b)) = Len(chain[n]) + 1
    BY <1>1
  <1>3. chain' \in [Node -> Seq(AnyBlock)]
    BY <1>2 DEF ChainOK
  <1>4. ASSUME NEW k \in Node
        PROVE  Height(k) \in Nat /\ Height(k)' \in Nat /\ Height(k) <= Height(k)'
    <2>1. CASE k = n
      BY <2>1, <1>2 DEF ChainOK, Height
    <2>2. CASE k # n
      BY <2>2 DEF ChainOK, Height
    <2>3. QED BY <2>1, <2>2
  <1>5. QED BY <1>3, <1>4 DEF Grows

\* What a frame says of a chain stays true while chains grow.
LEMMA FrameStaysOK ==
    ASSUME Grows, NEW f, FrameOK(f) PROVE FrameOK(f)'
  BY DEF Grows, FrameOK

\* A recorded tip stays within the peer's chain while chains grow.
LEMMA TipsStayOK ==
    ASSUME TipsOK, Grows, UNCHANGED tips PROVE TipsOK'
  BY DEF TipsOK, Grows

\* The frames under way are fine after a step that sends fine ones.
LEMMA NetOK ==
    ASSUME SyncInv, Grows, NEW out, net' \subseteq net \cup out,
           \A f \in out : FrameOK(f)'
    PROVE  (\A f \in net : FrameOK(f))'
  BY FrameStaysOK DEF SyncInv

\* A step that changes no chain, pool or tip and sends fine frames.
LEMMA Quiet ==
    ASSUME SyncInv, UNCHANGED <<chain, pool, tips>>,
           known' \in [Node -> SUBSET Node],
           NEW out, net' \subseteq net \cup out, \A f \in out : FrameOK(f)
    PROVE  SyncInv'
  <1>1. Grows
    BY SameChain DEF SyncInv
  <1>2. \A f \in out : FrameOK(f)'
    BY <1>1, FrameStaysOK
  <1>3. (\A f \in net : FrameOK(f))'
    BY <1>1, <1>2, NetOK
  <1>4. TipsOK'
    BY <1>1, TipsStayOK DEF SyncInv
  <1>5. ChainOK'
    BY DEF SyncInv, ChainOK
  <1>6. QED BY <1>3, <1>4, <1>5 DEF SyncInv

\* The same for a step that sends none.
LEMMA Silent ==
    ASSUME SyncInv, UNCHANGED <<chain, pool, tips>>,
           known' \in [Node -> SUBSET Node], net' \subseteq net
    PROVE  SyncInv'
  <1> DEFINE out == net
  <1>1. net' \subseteq net \cup out /\ \A f \in out : FrameOK(f)
    BY DEF SyncInv
  <1> HIDE DEF out
  <1>2. QED BY <1>1, Quiet

\* Frames that say nothing of chains.
Plain == Types \ {"TipResponse", "BlockRequest", "SubmitBlock", "BlockResponse",
                  "TransactionResponse"}

\* Frames of the other types are fine between any two nodes.
LEMMA PlainOK ==
    ASSUME NEW n \in Node, NEW m \in Node, NEW type \in Plain, NEW tx
    PROVE  FrameOK(Frame(type, n, m)) /\ FrameOK(TxFrame(type, n, m, tx))
  BY DEF Plain, Types, Frame, TxFrame, FrameOK

\* The frames of a probe (ensure_compatible_peer) are fine.
LEMMA ProbeOK ==
    ASSUME NEW n \in Node, NEW m \in Node
    PROVE  \A f \in ProbeFrames(n, m) : FrameOK(f)
  <1>1. "PresenceAnnounce" \in Plain /\ "NodeInfo" \in Plain
    BY DEF Plain, Types
  <1>2. FrameOK(Frame("PresenceAnnounce", n, m)) /\ FrameOK(Frame("NodeInfo", n, m))
    BY <1>1, PlainOK
  <1>3. QED BY <1>2 DEF ProbeFrames, NodeInfoFrame

\* The announcements of a transaction are fine.
LEMMA AnnouncementsOK ==
    ASSUME NEW n \in Node, NEW tx
    PROVE  \A f \in Announcements(n, tx) : FrameOK(f)
  <1>1. "TransactionAnnounce" \in Plain
    BY DEF Plain, Types
  <1>2. Bootstrap[n] \subseteq Node
    BY NodeSyncConstants
  <1>3. QED BY <1>1, <1>2, PlainOK DEF Announcements

-----------------------------------------------------------------------------
\* Presence, tip requests and the ends of the intervals.
LEMMA TimersPreserve ==
    ASSUME SyncInv, NEW n \in Node,
           \/ AnnouncePresence(n) \/ RequestTips(n)
           \/ \E m \in Node : ProbeIntervalEnds(n, m) \/ AnswerIntervalEnds(n, m)
    PROVE  SyncInv'
  <1>1. "PresenceAnnounce" \in Plain /\ "TipRequest" \in Plain
    BY DEF Plain, Types
  <1>2. CASE AnnouncePresence(n)
    <2> DEFINE out == {Frame("PresenceAnnounce", n, m) : m \in Bootstrap[n]}
    <2>1. \A f \in out : FrameOK(f)
      <3>1. Bootstrap[n] \subseteq Node
        BY NodeSyncConstants
      <3>2. QED BY <3>1, <1>1, PlainOK
    <2>2. /\ UNCHANGED <<chain, pool, tips>> /\ known' \in [Node -> SUBSET Node]
          /\ net' \subseteq net \cup out
      BY <1>2 DEF AnnouncePresence, book, sync, SyncInv
    <2> HIDE DEF out
    <2>3. QED BY <2>1, <2>2, Quiet
  <1>3. CASE RequestTips(n)
    <2> DEFINE out == {Frame("TipRequest", n, m) : m \in known[n]}
    <2>1. \A f \in out : FrameOK(f)
      BY <1>1, PlainOK DEF SyncInv
    <2>2. /\ UNCHANGED <<chain, pool, tips>> /\ known' \in [Node -> SUBSET Node]
          /\ net' \subseteq net \cup out
      BY <1>3 DEF RequestTips, book, sync, SyncInv
    <2> HIDE DEF out
    <2>3. QED BY <2>1, <2>2, Quiet
  <1>4. CASE \E m \in Node : ProbeIntervalEnds(n, m) \/ AnswerIntervalEnds(n, m)
    <2>1. /\ UNCHANGED <<chain, pool, tips>> /\ known' \in [Node -> SUBSET Node]
          /\ net' \subseteq net
      BY <1>4 DEF ProbeIntervalEnds, AnswerIntervalEnds, book, sync, SyncInv
    <2>2. QED BY <2>1, Silent
  <1>5. QED BY <1>2, <1>3, <1>4

\* A produced block is appended and sent to the known peers (produce_now).
LEMMA ProducePreserves ==
    ASSUME SyncInv, NEW n \in Node, Produce(n) PROVE SyncInv'
  <1> DEFINE block == Block(n, pool[n])
             out == {BlockFrame("SubmitBlock", n, m, Height(n) + 1, block) :
                        m \in IF Sendable(block) THEN known[n] ELSE {}}
  <1>1. block \in AnyBlock
    BY DEF Block, AnyBlock, SyncInv, ChainOK
  <1>2. /\ chain' = [chain EXCEPT ![n] = Append(@, block)]
        /\ pool' = [pool EXCEPT ![n] = {}]
        /\ net' = net \cup out
        /\ UNCHANGED <<known, tips>>
    BY DEF Produce, book, sync
  <1>4. \A f \in out : FrameOK(f)'
    <2>1. known[n] \subseteq Node
      BY DEF SyncInv
    <2> SUFFICES ASSUME NEW f \in out PROVE FrameOK(f)'
      OBVIOUS
    <2>2. PICK m \in Node : f = BlockFrame("SubmitBlock", n, m, Height(n) + 1, block)
      BY <2>1
    <2> HIDE DEF block
    <2>3. QED BY <1>1, <2>2 DEF BlockFrame, FrameOK
  <1> HIDE DEF block, out
  <1>5. chain' \in [Node -> Seq(AnyBlock)] /\ Grows
    BY <1>1, <1>2, AppendGrows DEF SyncInv
  <1>6. ChainOK'
    BY <1>2, <1>5 DEF ChainOK, SyncInv
  <1>7. TipsOK'
    BY <1>2, <1>5, TipsStayOK DEF SyncInv
  <1>8. (\A f \in net : FrameOK(f))'
    BY <1>2, <1>4, <1>5, NetOK
  <1>9. QED BY <1>2, <1>6, <1>7, <1>8 DEF SyncInv

-----------------------------------------------------------------------------
(***************************************************************************)
(* The handlers that change neither a chain nor a tip.                     *)
(***************************************************************************)
\* Presence, node info, and frames of unknown peers.
LEMMA DiscoveryPreserves ==
    ASSUME SyncInv, NEW f \in net,
           OnPresenceAnnounce(f) \/ OnNodeInfo(f) \/ OnUnknownPeer(f)
    PROVE  SyncInv'
  <1>1. f.src \in Node /\ f.dst \in Node
    BY DEF SyncInv, FrameOK
  <1>2. "NodeInfo" \in Plain /\ "TransactionRequest" \in Plain
    BY DEF Plain, Types
  <1>3. CASE OnPresenceAnnounce(f)
    <2> DEFINE out == {Frame("NodeInfo", f.dst, f.src)}
    <2>1. \A g \in out : FrameOK(g)
      BY <1>1, <1>2, PlainOK
    <2>2. /\ UNCHANGED <<chain, pool, tips>> /\ known' \in [Node -> SUBSET Node]
          /\ net' \subseteq net \cup out
      BY <1>3 DEF OnPresenceAnnounce, NodeInfoFrame, Reply, book, sync, SyncInv
    <2> HIDE DEF out
    <2>3. QED BY <2>1, <2>2, Quiet
  <1>4. CASE OnNodeInfo(f)
    <2> DEFINE missing == {tx \in waiting[f.dst][f.src] : ~HasTransaction(f.dst, tx)}
               out == {TxFrame("TransactionRequest", f.dst, f.src, tx) : tx \in missing}
    <2>1. \A g \in out : FrameOK(g)
      BY <1>1, <1>2, PlainOK
    <2>2. UNCHANGED <<chain, pool, tips>>
      BY <1>4 DEF OnNodeInfo, sync
    <2>3. \/ known' = [known EXCEPT ![f.dst] = @ \ {f.src}]
          \/ known' = [known EXCEPT ![f.dst] = @ \cup {f.src}]
      BY <1>4 DEF OnNodeInfo
    <2>4. known' \in [Node -> SUBSET Node]
      BY <1>1, <2>3 DEF SyncInv
    <2>5. net' \subseteq net \cup out
      BY <1>4 DEF OnNodeInfo, Reply
    <2> HIDE DEF out
    <2>6. QED BY <2>1, <2>2, <2>4, <2>5, Quiet
  <1>5. CASE OnUnknownPeer(f)
    <2> DEFINE out == ProbeFrames(f.dst, f.src)
    <2>1. \A g \in out : FrameOK(g)
      BY <1>1, ProbeOK
    <2>2. /\ UNCHANGED <<chain, pool, tips>> /\ known' \in [Node -> SUBSET Node]
          /\ net' \subseteq net \cup out
      BY <1>5 DEF OnUnknownPeer, Reply, book, sync, SyncInv
    <2> HIDE DEF out
    <2>3. QED BY <2>1, <2>2, Quiet
  <1>6. QED BY <1>3, <1>4, <1>5

\* A node answers with its tip, and with a block of its chain or none.
LEMMA ServingPreserves ==
    ASSUME SyncInv, NEW f \in net, OnTipRequest(f) \/ OnBlockRequest(f)
    PROVE  SyncInv'
  <1>1. f.src \in Node /\ f.dst \in Node
    BY DEF SyncInv, FrameOK
  <1>2. chain[f.dst] \in Seq(AnyBlock) /\ Height(f.dst) \in Nat
    BY <1>1 DEF SyncInv, ChainOK, Height
  <1>3. CASE OnTipRequest(f)
    <2> DEFINE out == {HeightFrame("TipResponse", f.dst, f.src, Height(f.dst))}
    <2>1. \A g \in out : FrameOK(g)
      BY <1>1, <1>2 DEF HeightFrame, FrameOK
    <2>2. /\ UNCHANGED <<chain, pool, tips>> /\ known' \in [Node -> SUBSET Node]
          /\ net' \subseteq net \cup out
      BY <1>3 DEF OnTipRequest, Reply, book, sync, SyncInv
    <2> HIDE DEF out
    <2>3. QED BY <2>1, <2>2, Quiet
  <1>4. CASE OnBlockRequest(f)
    <2> DEFINE block == IF f.height \in DOMAIN chain[f.dst]
                        THEN <<chain[f.dst][f.height]>> ELSE << >>
               out == {BlockFrame("BlockResponse", f.dst, f.src, f.height, block)}
    <2>1. block = << >> \/ block[1] \in AnyBlock
      <3>1. CASE f.height \in DOMAIN chain[f.dst]
        <4>1. chain[f.dst][f.height] \in AnyBlock
          BY <3>1, <1>2
        <4>2. block = <<chain[f.dst][f.height]>>
          BY <3>1
        <4> HIDE DEF block
        <4>3. QED BY <4>1, <4>2
      <3>2. CASE f.height \notin DOMAIN chain[f.dst]
        BY <3>2
      <3>3. QED BY <3>1, <3>2
    <2>2. /\ UNCHANGED <<chain, pool, tips>> /\ known' \in [Node -> SUBSET Node]
          /\ net' \subseteq net \cup out
      BY <1>4 DEF OnBlockRequest, Reply, book, sync, SyncInv
    <2> HIDE DEF block
    <2>3. \A g \in out : FrameOK(g)
      BY <1>1, <2>1 DEF BlockFrame, FrameOK
    <2> HIDE DEF out
    <2>4. QED BY <2>2, <2>3, Quiet
  <1>5. QED BY <1>3, <1>4

-----------------------------------------------------------------------------
(***************************************************************************)
(* The handlers that change a tip or a chain.                              *)
(***************************************************************************)
\* A request on a tip the peer has is for a block the peer has.
LEMMA RequestsOK ==
    ASSUME NEW n \in Node, NEW m \in Node, NEW flying, NEW local \in Nat,
           NEW tip \in Nat, Height(m) \in Nat, tip <= Height(m)
    PROVE  \A g \in Requests(n, m, flying, local, tip) : FrameOK(g)
  <1> SUFFICES ASSUME NEW g \in Requests(n, m, flying, local, tip) PROVE FrameOK(g)
    OBVIOUS
  <1>1. PICK h \in Fetch(flying, local, tip) : g = HeightFrame("BlockRequest", n, m, h)
    BY DEF Requests
  <1>2. h = local + 1 /\ local < tip
    BY DEF Fetch
  <1>3. QED BY <1>1, <1>2 DEF HeightFrame, FrameOK

\* Appending the block that fits, or nothing, keeps the chains well formed.
LEMMA ApplyGrows ==
    ASSUME SyncInv, NEW n \in Node, NEW h, NEW b \in AnyBlock, Apply(n, h, b)
    PROVE  ChainOK' /\ Grows
  <1>1. pool' \in [Node -> SUBSET Tx]
    BY DEF Apply, SyncInv, ChainOK
  <1>2. CASE Fits(n, h)
    <2>1. chain' = [chain EXCEPT ![n] = Append(@, b)]
      BY <1>2 DEF Apply
    <2>2. QED BY <1>1, <2>1, AppendGrows DEF ChainOK, SyncInv
  <1>3. CASE ~Fits(n, h)
    <2>1. UNCHANGED chain
      BY <1>3 DEF Apply, SyncInv, ChainOK
    <2>2. QED BY <1>1, <2>1, SameChain DEF ChainOK, SyncInv
  <1>4. QED BY <1>2, <1>3

\* A reported tip is recorded, and the next missing block requested.
LEMMA TipResponsePreserves ==
    ASSUME SyncInv, NEW f \in net, OnTipResponse(f) PROVE SyncInv'
  <1> DEFINE n == f.dst
             m == f.src
             out == Requests(n, m, inFlight[n][m], Height(n), f.height)
  <1>1. /\ n \in Node /\ m \in Node
        /\ f.height \in Nat /\ f.height <= Height(m)
    BY DEF SyncInv, FrameOK, OnTipResponse, FromKnown
  <1>2. \A k \in Node : Height(k) \in Nat
    BY DEF SyncInv, ChainOK, Height
  <1>3. /\ tips' = [tips EXCEPT ![n][m] = f.height]
        /\ net' \subseteq net \cup out
        /\ UNCHANGED <<chain, pool, known>>
    BY DEF OnTipResponse, Reply, book
  <1>4. \A g \in out : FrameOK(g)
    BY <1>1, <1>2, RequestsOK
  <1> HIDE DEF n, m, out
  <1>5. Grows
    BY <1>3, SameChain DEF SyncInv
  <1>6. \A g \in out : FrameOK(g)'
    BY <1>4, <1>5, FrameStaysOK
  <1>7. (\A g \in net : FrameOK(g))'
    BY <1>3, <1>5, <1>6, NetOK
  <1>8. TipsOK'
    BY <1>1, <1>2, <1>3 DEF TipsOK, SyncInv, Height
  <1>9. QED BY <1>3, <1>7, <1>8 DEF SyncInv, ChainOK

\* A block that arrives is appended or refused, and the next one requested on
\* the recorded tip.
LEMMA BlockResponsePreserves ==
    ASSUME SyncInv, NEW f \in net, OnBlockResponse(f) PROVE SyncInv'
  <1> DEFINE n == f.dst
             m == f.src
             local == IF f.block # << >> /\ Fits(n, f.height) THEN Height(n) + 1
                                                              ELSE Height(n)
             tip == IF f.block # << >> /\ f.height <= local THEN tips[n][m] ELSE 0
             out == Requests(n, m, 0, local, tip)
  <1>1. /\ n \in Node /\ m \in Node
        /\ f.block = << >> \/ f.block[1] \in AnyBlock
    BY DEF SyncInv, FrameOK, OnBlockResponse, FromKnown
  <1>2. \A k \in Node : Height(k) \in Nat
    BY DEF SyncInv, ChainOK, Height
  <1>3. /\ net' \subseteq net \cup out
        /\ UNCHANGED <<known, tips>>
    BY DEF OnBlockResponse, Reply, book
  <1>4. ChainOK' /\ Grows
    <2>1. CASE f.block = << >>
      <3>1. UNCHANGED <<chain, pool>>
        BY <2>1 DEF OnBlockResponse
      <3>2. QED BY <3>1, SameChain DEF SyncInv, ChainOK
    <2>2. CASE f.block # << >>
      <3>1. Apply(n, f.height, f.block[1])
        BY <2>2 DEF OnBlockResponse
      <3>2. f.block[1] \in AnyBlock
        BY <1>1, <2>2
      <3>3. QED BY <1>1, <3>1, <3>2, ApplyGrows
    <2>3. QED BY <2>1, <2>2
  <1>5. local \in Nat
    BY <1>1, <1>2
  <1>6. tip \in Nat /\ tip <= Height(m)
    <2>1. tips[n][m] \in Nat /\ tips[n][m] <= Height(m)
      BY <1>1 DEF SyncInv, TipsOK
    <2>2. tip = tips[n][m] \/ tip = 0
      OBVIOUS
    <2> HIDE DEF tip, n, m
    <2>3. QED BY <2>1, <2>2, <1>1, <1>2
  <1> HIDE DEF n, m, local, tip
  <1>7. \A g \in out : FrameOK(g)
    BY <1>1, <1>2, <1>5, <1>6, RequestsOK
  <1> HIDE DEF out
  <1>8. \A g \in out : FrameOK(g)'
    BY <1>4, <1>7, FrameStaysOK
  <1>9. (\A g \in net : FrameOK(g))'
    BY <1>3, <1>4, <1>8, NetOK
  <1>10. TipsOK'
    BY <1>3, <1>4, TipsStayOK DEF SyncInv
  <1>11. QED BY <1>3, <1>4, <1>9, <1>10 DEF SyncInv

\* A block that a peer sent unasked is appended or refused.
LEMMA SubmitBlockPreserves ==
    ASSUME SyncInv, NEW f \in net, OnSubmitBlock(f) PROVE SyncInv'
  <1>1. f.dst \in Node /\ f.block \in AnyBlock
    BY DEF SyncInv, FrameOK, OnSubmitBlock, FromKnown
  <1>2. /\ Apply(f.dst, f.height, f.block)
        /\ net' \subseteq net
        /\ UNCHANGED <<known, tips>>
    BY DEF OnSubmitBlock, Reply, book, sync
  <1>3. ChainOK' /\ Grows
    BY <1>1, <1>2, ApplyGrows
  <1>4. (\A g \in net : FrameOK(g))'
    BY <1>2, <1>3, FrameStaysOK DEF SyncInv
  <1>5. TipsOK'
    BY <1>2, <1>3, TipsStayOK DEF SyncInv
  <1>6. QED BY <1>2, <1>3, <1>4, <1>5 DEF SyncInv

-----------------------------------------------------------------------------
(***************************************************************************)
(* Transactions and faults.                                                *)
(***************************************************************************)
\* Frames about transactions, and more pending ones, say nothing of chains.
LEMMA PoolGrows ==
    ASSUME SyncInv, UNCHANGED <<chain, known, tips>>,
           pool' \in [Node -> SUBSET Tx],
           NEW out, net' \subseteq net \cup out, \A f \in out : FrameOK(f)
    PROVE  SyncInv'
  <1>1. Grows
    BY SameChain DEF SyncInv
  <1>2. \A f \in out : FrameOK(f)'
    BY <1>1, FrameStaysOK
  <1>3. (\A f \in net : FrameOK(f))'
    BY <1>1, <1>2, NetOK
  <1>4. TipsOK'
    BY <1>1, TipsStayOK DEF SyncInv
  <1>5. ChainOK'
    BY DEF SyncInv, ChainOK
  <1>6. QED BY <1>3, <1>4, <1>5 DEF SyncInv

\* A submitted transaction becomes pending and may be announced.
LEMMA SubmitTransactionPreserves ==
    ASSUME SyncInv, NEW n \in Node, NEW tx \in Tx, SubmitTransaction(n, tx)
    PROVE  SyncInv'
  <1> DEFINE out == Announcements(n, tx)
  <1>1. \A g \in out : FrameOK(g)
    BY AnnouncementsOK
  <1>2. /\ UNCHANGED <<chain, known, tips>>
        /\ net' \subseteq net \cup out
        /\ pool' \in [Node -> SUBSET Tx]
    BY DEF SubmitTransaction, book, sync, SyncInv, ChainOK
  <1> HIDE DEF out
  <1>3. QED BY <1>1, <1>2, PoolGrows

\* Announcements, requests and bodies of transactions.
LEMMA GossipPreserves ==
    ASSUME SyncInv, NEW f \in net,
           \/ OnTransactionAnnounce(f) \/ OnTransactionRequest(f)
           \/ OnTransactionResponse(f)
    PROVE  SyncInv'
  <1>1. f.src \in Node /\ f.dst \in Node
    BY DEF SyncInv, FrameOK
  <1>2. CASE OnTransactionAnnounce(f)
    <2> DEFINE request == {TxFrame("TransactionRequest", f.dst, f.src, f.tx)}
               probe == ProbeFrames(f.dst, f.src)
               out == request \cup probe
    <2>1. \A g \in probe : FrameOK(g)
      BY <1>1, ProbeOK
    <2>2. \A g \in request : FrameOK(g)
      <3>1. "TransactionRequest" \in Plain
        BY DEF Plain, Types
      <3>2. QED BY <1>1, <3>1, PlainOK
    <2>3. /\ UNCHANGED <<chain, pool, tips>> /\ known' \in [Node -> SUBSET Node]
          /\ \/ net' = (net \ {f}) \cup {}
             \/ net' = (net \ {f}) \cup request
             \/ net' = (net \ {f}) \cup probe
      BY <1>2 DEF OnTransactionAnnounce, Reply, book, sync, SyncInv
    <2> HIDE DEF request, probe
    <2>4. net' \subseteq net \cup out /\ \A g \in out : FrameOK(g)
      BY <2>1, <2>2, <2>3
    <2> HIDE DEF out
    <2>5. QED BY <2>3, <2>4, Quiet
  <1>3. CASE OnTransactionRequest(f)
    <2> DEFINE out == {TxBodyFrame(f.dst, f.src, f.tx, Serves(f.dst, f.tx))}
    <2>1. Serves(f.dst, f.tx) => f.tx \in Tx
      BY <1>1 DEF Serves, SyncInv, ChainOK
    <2>2. \A g \in out : FrameOK(g)
      BY <1>1, <2>1 DEF TxBodyFrame, FrameOK
    <2>3. /\ UNCHANGED <<chain, pool, tips>> /\ known' \in [Node -> SUBSET Node]
          /\ net' \subseteq net \cup out
      BY <1>3 DEF OnTransactionRequest, Reply, book, sync, SyncInv
    <2> HIDE DEF out
    <2>4. QED BY <2>2, <2>3, Quiet
  <1>4. CASE OnTransactionResponse(f)
    <2> DEFINE out == Announcements(f.dst, f.tx)
    <2>1. \A g \in out : FrameOK(g)
      BY <1>1, AnnouncementsOK
    <2>2. UNCHANGED <<chain, known, tips>> /\ net' \subseteq net \cup out
      BY <1>4 DEF OnTransactionResponse, Reply, book, sync
    <2>3. f.found => f.tx \in Tx
      BY <1>4 DEF OnTransactionResponse, FromKnown, SyncInv, FrameOK
    <2>4. pool' \in [Node -> SUBSET Tx]
      BY <1>1, <1>4, <2>3 DEF OnTransactionResponse, SyncInv, ChainOK
    <2> HIDE DEF out
    <2>5. QED BY <2>1, <2>2, <2>4, PoolGrows
  <1>5. QED BY <1>2, <1>3, <1>4

\* A restart forgets the tips but keeps the chain; a lost frame is only lost.
LEMMA FaultsPreserve ==
    ASSUME SyncInv, (\E n \in Node : Restart(n)) \/ (\E f \in net : Lose(f))
    PROVE  SyncInv'
  <1>1. CASE \E n \in Node : Restart(n)
    <2>1. PICK n \in Node : Restart(n)
      BY <1>1
    <2>2. /\ UNCHANGED chain
          /\ pool' = [pool EXCEPT ![n] = {}]
          /\ known' = [known EXCEPT ![n] = {}]
          /\ tips' = [tips EXCEPT ![n] = [m \in Node |-> 0]]
          /\ net' \subseteq net
      BY <2>1 DEF Restart
    <2>3. Grows
      BY <2>2, SameChain DEF SyncInv
    <2>4. (\A g \in net : FrameOK(g))'
      BY <2>2, <2>3, FrameStaysOK DEF SyncInv
    <2>5. TipsOK'
      BY <2>2, <2>3 DEF TipsOK, SyncInv, Grows
    <2>6. ChainOK' /\ known' \in [Node -> SUBSET Node]
      BY <2>2 DEF ChainOK, SyncInv
    <2>7. QED BY <2>4, <2>5, <2>6 DEF SyncInv
  <1>2. CASE \E f \in net : Lose(f)
    <2>1. /\ UNCHANGED <<chain, pool, tips>> /\ known' \in [Node -> SUBSET Node]
          /\ net' \subseteq net
      BY <1>2 DEF Lose, book, sync, SyncInv
    <2>2. QED BY <2>1, Silent
  <1>3. QED BY <1>1, <1>2

-----------------------------------------------------------------------------
\* Tips and frames never exceed the chains they are about.
THEOREM SyncInvariant == Spec => []SyncInv
  <1>1. Init => SyncInv
    BY NodeSyncConstants
    DEF Init, SyncInv, ChainOK, TipsOK, Height
  <1>2. SyncInv /\ [Next]_vars => SyncInv'
    <2> SUFFICES ASSUME SyncInv, [Next]_vars PROVE SyncInv'
      OBVIOUS
    <2>1. CASE UNCHANGED vars
      <3>1. /\ UNCHANGED <<chain, pool, tips>> /\ known' \in [Node -> SUBSET Node]
            /\ net' \subseteq net
        BY <2>1 DEF vars, book, sync, SyncInv
      <3>2. QED BY <3>1, Silent
    <2>2. CASE \E n \in Node :
                  \/ AnnouncePresence(n) \/ RequestTips(n)
                  \/ \E m \in Node : ProbeIntervalEnds(n, m) \/ AnswerIntervalEnds(n, m)
      BY <2>2, TimersPreserve
    <2>3. CASE \E n \in Node : Produce(n)
      BY <2>3, ProducePreserves
    <2>4. CASE \E n \in Node : \E tx \in Tx : SubmitTransaction(n, tx)
      BY <2>4, SubmitTransactionPreserves
    <2>5. CASE (\E n \in Node : Restart(n)) \/ (\E f \in net : Lose(f))
      BY <2>5, FaultsPreserve
    <2>6. CASE \E f \in net : Receive(f)
      <3>1. PICK f \in net : Receive(f)
        BY <2>6
      <3>2. QED
        BY <3>1, DiscoveryPreserves, ServingPreserves, TipResponsePreserves,
           BlockResponsePreserves, SubmitBlockPreserves, GossipPreserves
        DEF Receive
    <2>7. QED BY <2>1, <2>2, <2>3, <2>4, <2>5, <2>6 DEF Next
  <1>3. QED BY <1>1, <1>2, PTL DEF Spec

\* A block request always names a block the peer has, for any number of nodes,
\* any initial chains and any number of losses and restarts: so handle_block_request
\* never answers a node of this cluster with "no block".
THEOREM AsksForExistingHolds == Spec => []AsksForExisting
  <1>1. SyncInv => AsksForExisting
    BY DEF SyncInv, FrameOK, AsksForExisting
  <1>2. QED BY <1>1, SyncInvariant, PTL
-----------------------------------------------------------------------------
(***************************************************************************)
(* One chain per network.  A block is where it came from: a frame with a   *)
(* block carries the block its sender has at that height, and a node reads *)
(* such frames of its own network only.  So a chain grows by a block made  *)
(* here in turn, or by the block that another node of the network has at   *)
(* the same height.  What keeps two chains from parting is that whoever    *)
(* may make the block at a height has it as soon as anyone has (Made).     *)
(***************************************************************************)
At(n, h, b) == h \in DOMAIN chain[n] /\ chain[n][h] = b

Carries(f) ==
    /\ f.type = "SubmitBlock" => At(f.src, f.height, f.block)
    /\ f.type = "BlockResponse" => f.block = << >> \/ At(f.src, f.height, f.block[1])

Vetted == \A n \in Node : known[n] \subseteq Network(n)

Agreed(c) ==
    \A n \in Node : \A m \in Network(n) :
        \A h \in DOMAIN c[n] \cap DOMAIN c[m] : c[n][h] = c[m][h]

Made(c) ==
    \A n \in Node : \A m \in Network(n) :
        \A h \in DOMAIN c[n] : m \in Proposers(h) => h \in DOMAIN c[m]

CarryInv == Vetted /\ \A f \in net : Carries(f)

\* Every chain keeps the blocks it has.
Keeps == \A n, h, b : n \in Node /\ At(n, h, b) => At(n, h, b)'

\* Node n makes a block in its turn; node n takes over the block of node m.
Makes(n) ==
    /\ n \in Proposers(Height(n) + 1)
    /\ chain' = [chain EXCEPT ![n] = Append(@, Block(n, pool[n]))]

Copies(n, m) ==
    /\ m \in Network(n) /\ Height(n) + 1 \in DOMAIN chain[m]
    /\ chain' = [chain EXCEPT ![n] = Append(@, chain[m][Height(n) + 1])]

\* The blocks after an append are the blocks before and the new one.
LEMMA AppendAt ==
    ASSUME ChainOK, NEW n \in Node, NEW b,
           chain' = [chain EXCEPT ![n] = Append(@, b)]
    PROVE  /\ \A k \in Node : k # n => chain'[k] = chain[k]
           /\ Height(n) \in Nat
           /\ DOMAIN chain[n] = 1..Height(n)
           /\ DOMAIN chain'[n] = 1..(Height(n) + 1)
           /\ \A h \in DOMAIN chain[n] : chain'[n][h] = chain[n][h]
           /\ chain'[n][Height(n) + 1] = b
  <1>1. chain[n] \in Seq(AnyBlock)
    BY DEF ChainOK
  <1>2. chain'[n] = Append(chain[n], b)
    BY DEF ChainOK
  <1>3. \A k \in Node : k # n => chain'[k] = chain[k]
    BY DEF ChainOK
  <1>4. QED BY <1>1, <1>2, <1>3 DEF Height

\* An append keeps every block.
LEMMA AppendKeeps ==
    ASSUME ChainOK, NEW n \in Node, NEW b,
           chain' = [chain EXCEPT ![n] = Append(@, b)]
    PROVE  Keeps
  <1> SUFFICES ASSUME NEW k \in Node, NEW h, NEW c, At(k, h, c) PROVE At(k, h, c)'
    BY DEF Keeps
  <1>1. CASE k # n
    BY <1>1, AppendAt DEF At
  <1>2. CASE k = n
    BY <1>2, AppendAt DEF At
  <1>3. QED BY <1>1, <1>2

\* What a frame carries is still its sender's block while chains keep theirs.
LEMMA CarriesStays ==
    ASSUME Keeps, NEW f, f.src \in Node, Carries(f) PROVE Carries(f)'
  BY DEF Keeps, Carries

\* An applied block is the sender's, or nothing is appended (apply_remote_block).
LEMMA ApplyCopies ==
    ASSUME SyncInv, NEW n \in Node, NEW m \in Network(n), NEW h, NEW b,
           At(m, h, b), Apply(n, h, b)
    PROVE  UNCHANGED chain \/ Copies(n, m)
  <1>1. CASE Fits(n, h)
    BY <1>1 DEF Apply, Fits, Copies, At
  <1>2. CASE ~Fits(n, h)
    BY <1>2 DEF Apply, SyncInv, ChainOK
  <1>3. QED BY <1>1, <1>2

\* Every step of the service leaves the chains alone, makes a block or copies one.
LEMMA ChainStep ==
    ASSUME SyncInv, CarryInv, [Next]_vars
    PROVE  UNCHANGED chain \/ \E n \in Node : Makes(n) \/ \E m \in Node : Copies(n, m)
  <1>1. CASE UNCHANGED vars
    BY <1>1 DEF vars
  <1>2. CASE \E n \in Node :
                \/ AnnouncePresence(n) \/ RequestTips(n) \/ Restart(n)
                \/ \E tx \in Tx : SubmitTransaction(n, tx)
                \/ \E m \in Node : ProbeIntervalEnds(n, m) \/ AnswerIntervalEnds(n, m)
    BY <1>2 DEF AnnouncePresence, RequestTips, Restart, SubmitTransaction,
                ProbeIntervalEnds, AnswerIntervalEnds
  <1>3. CASE \E n \in Node : Produce(n)
    BY <1>3 DEF Produce, Makes
  <1>4. CASE \E f \in net : Lose(f)
    BY <1>4 DEF Lose
  <1>5. CASE \E f \in net : OnBlockResponse(f) \/ OnSubmitBlock(f)
    <2>1. PICK f \in net : OnBlockResponse(f) \/ OnSubmitBlock(f)
      BY <1>5
    <2>2. f.src \in Node /\ f.dst \in Node
      BY DEF SyncInv, FrameOK
    <2>3. f.src \in Network(f.dst)
      BY <2>1, <2>2 DEF OnBlockResponse, OnSubmitBlock, FromKnown, CarryInv, Vetted
    <2>4. CASE OnSubmitBlock(f)
      <3>1. At(f.src, f.height, f.block) /\ Apply(f.dst, f.height, f.block)
        BY <2>4 DEF OnSubmitBlock, FromKnown, CarryInv, Carries
      <3>2. QED BY <2>2, <2>3, <3>1, ApplyCopies
    <2>5. CASE OnBlockResponse(f) /\ f.block # << >>
      <3>1. At(f.src, f.height, f.block[1]) /\ Apply(f.dst, f.height, f.block[1])
        BY <2>5 DEF OnBlockResponse, FromKnown, CarryInv, Carries
      <3>2. QED BY <2>2, <2>3, <3>1, ApplyCopies
    <2>6. CASE OnBlockResponse(f) /\ f.block = << >>
      BY <2>6 DEF OnBlockResponse
    <2>7. QED BY <2>1, <2>4, <2>5, <2>6
  <1>6. CASE \E f \in net :
                \/ OnPresenceAnnounce(f) \/ OnNodeInfo(f) \/ OnUnknownPeer(f)
                \/ OnTipRequest(f) \/ OnTipResponse(f) \/ OnBlockRequest(f)
                \/ OnTransactionAnnounce(f) \/ OnTransactionRequest(f)
                \/ OnTransactionResponse(f)
    BY <1>6 DEF OnPresenceAnnounce, OnNodeInfo, OnUnknownPeer, OnTipRequest,
                OnTipResponse, OnBlockRequest, OnTransactionAnnounce,
                OnTransactionRequest, OnTransactionResponse
  <1>7. QED BY <1>1, <1>2, <1>3, <1>4, <1>5, <1>6 DEF Next, Receive

\* Every step keeps the blocks of every chain.
LEMMA StepKeeps ==
    ASSUME SyncInv, CarryInv, [Next]_vars PROVE Keeps
  <1>1. CASE UNCHANGED chain
    BY <1>1 DEF Keeps, At
  <1>2. CASE \E n \in Node : Makes(n)
    BY <1>2, AppendKeeps DEF Makes, SyncInv
  <1>3. CASE \E n, m \in Node : Copies(n, m)
    BY <1>3, AppendKeeps DEF Copies, SyncInv
  <1>4. QED BY <1>1, <1>2, <1>3, ChainStep

-----------------------------------------------------------------------------
\* A peer becomes known only when its chain id is the node's own
\* (ensure_node_info_compatible); a restart forgets everybody.
LEMMA VettedStep ==
    ASSUME SyncInv, Vetted, [Next]_vars PROVE Vetted'
  <1>1. CASE UNCHANGED known
    BY <1>1 DEF Vetted
  <1>2. CASE \E n \in Node : Restart(n)
    BY <1>2 DEF Restart, Vetted, SyncInv
  <1>3. CASE \E f \in net : OnNodeInfo(f)
    <2>1. PICK f \in net : OnNodeInfo(f)
      BY <1>3
    <2>2. f.src \in Node /\ f.dst \in Node
      BY DEF SyncInv, FrameOK
    <2>3. CASE known' = [known EXCEPT ![f.dst] = @ \ {f.src}]
      BY <2>2, <2>3 DEF Vetted, SyncInv
    <2>4. CASE Compatible(f.dst, f.src) /\ known' = [known EXCEPT ![f.dst] = @ \cup {f.src}]
      <3>1. f.src \in Network(f.dst)
        BY <2>2, <2>4 DEF Compatible, Network
      <3>2. QED BY <2>2, <2>4, <3>1 DEF Vetted, SyncInv
    <2>5. QED BY <2>1, <2>3, <2>4 DEF OnNodeInfo
  <1>4. UNCHANGED known \/ (\E n \in Node : Restart(n)) \/ (\E f \in net : OnNodeInfo(f))
    BY DEF Next, Receive, AnnouncePresence, RequestTips, Produce, SubmitTransaction,
           ProbeIntervalEnds, AnswerIntervalEnds, Lose, OnPresenceAnnounce,
           OnUnknownPeer, OnTipRequest, OnTipResponse, OnBlockRequest,
           OnBlockResponse, OnSubmitBlock, OnTransactionAnnounce,
           OnTransactionRequest, OnTransactionResponse, vars, book
  <1>5. QED BY <1>1, <1>2, <1>3, <1>4

\* Frames of the other types carry no block.
Blockless(out) == \A f \in out : f.type # "SubmitBlock" /\ f.type # "BlockResponse"

\* The requests, probes and announcements carry no block.
LEMMA NoBlocks ==
    ASSUME NEW n, NEW m, NEW tx, NEW a, NEW b, NEW c
    PROVE  /\ Blockless(ProbeFrames(n, m)) /\ Blockless({NodeInfoFrame(n, m)})
           /\ Blockless(Announcements(n, tx)) /\ Blockless(Requests(n, m, a, b, c))
           /\ Blockless({TxFrame("TransactionRequest", n, m, tx)})
           /\ Blockless({TxFrame("TransactionRequest", n, m, t) : t \in a})
           /\ Blockless({TxBodyFrame(n, m, tx, a)})
           /\ Blockless({HeightFrame("TipResponse", n, m, a)})
           /\ Blockless({Frame("PresenceAnnounce", n, k) : k \in a})
           /\ Blockless({Frame("TipRequest", n, k) : k \in a})
           /\ Blockless({})
  <1>1. Blockless(ProbeFrames(n, m)) /\ Blockless({NodeInfoFrame(n, m)})
    BY DEF Blockless, ProbeFrames, NodeInfoFrame, Frame
  <1>2. Blockless(Announcements(n, tx))
    BY DEF Blockless, Announcements, TxFrame
  <1>3. Blockless(Requests(n, m, a, b, c))
    BY DEF Blockless, Requests, HeightFrame
  <1>4. /\ Blockless({TxFrame("TransactionRequest", n, m, tx)})
        /\ Blockless({TxFrame("TransactionRequest", n, m, t) : t \in a})
    BY DEF Blockless, TxFrame
  <1>5. Blockless({TxBodyFrame(n, m, tx, a)})
    BY DEF Blockless, TxBodyFrame
  <1>6. Blockless({HeightFrame("TipResponse", n, m, a)})
    BY DEF Blockless, HeightFrame
  <1>7. /\ Blockless({Frame("PresenceAnnounce", n, k) : k \in a})
        /\ Blockless({Frame("TipRequest", n, k) : k \in a})
        /\ Blockless({})
    BY DEF Blockless, Frame
  <1>8. QED BY <1>1, <1>2, <1>3, <1>4, <1>5, <1>6, <1>7

\* A step that sends frames without blocks, or with blocks of the sender.
LEMMA CarryNet ==
    ASSUME SyncInv, \A f \in net : Carries(f), Keeps,
           NEW out, net' \subseteq net \cup out, \A f \in out : Carries(f)'
    PROVE  (\A f \in net : Carries(f))'
  <1>1. \A f \in net : f.src \in Node
    BY DEF SyncInv, FrameOK
  <1>2. QED BY <1>1, CarriesStays

\* The same when there is no block at all.
LEMMA CarryNone ==
    ASSUME SyncInv, \A f \in net : Carries(f), Keeps,
           NEW out, net' \subseteq net \cup out, Blockless(out)
    PROVE  (\A f \in net : Carries(f))'
  <1>1. \A f \in out : Carries(f)'
    BY DEF Blockless, Carries
  <1>2. QED BY <1>1, CarryNet

\* Every frame with a block keeps carrying its sender's block at that height.
LEMMA CarryStep ==
    ASSUME SyncInv, CarryInv, [Next]_vars PROVE CarryInv'
  <1>1. Keeps
    BY StepKeeps
  <1>2. Vetted'
    BY VettedStep DEF CarryInv
  <1>3. \A f \in net : Carries(f)
    BY DEF CarryInv
  <1>a. \A f \in net : f.src \in Node /\ f.dst \in Node
    BY DEF SyncInv, FrameOK
  <1> SUFFICES (\A f \in net : Carries(f))'
    BY <1>2 DEF CarryInv
  <1> HIDE DEF CarryInv
  <1>4. CASE net' \subseteq net
    <2>1. net' \subseteq net \cup {} /\ Blockless({})
      BY <1>4 DEF Blockless
    <2>2. QED BY <1>1, <1>3, <2>1, CarryNone
  <1>5. CASE \E out : net' \subseteq net \cup out /\ Blockless(out)
    BY <1>1, <1>3, <1>5, CarryNone
  <1>6. ASSUME NEW n \in Node, Produce(n) PROVE (\A f \in net : Carries(f))'
    <2> DEFINE block == Block(n, pool[n])
               out == {BlockFrame("SubmitBlock", n, m, Height(n) + 1, block) :
                          m \in IF Sendable(block) THEN known[n] ELSE {}}
    <2>1. net' \subseteq net \cup out
      BY <1>6 DEF Produce
    <2>2. chain' = [chain EXCEPT ![n] = Append(@, block)]
      BY <1>6 DEF Produce
    <2>3. PICK h : h = Height(n) + 1
      OBVIOUS
    <2>4. PICK b : b = block
      OBVIOUS
    <2> HIDE DEF block
    <2>5. At(n, h, b)'
      <3>1. ChainOK
        BY DEF SyncInv
      <3>2. /\ Height(n) \in Nat /\ DOMAIN chain'[n] = 1..(Height(n) + 1)
            /\ chain'[n][Height(n) + 1] = block
        BY <2>2, <3>1, AppendAt
      <3>3. QED BY <2>3, <2>4, <3>2 DEF At
    <2>6. \A f \in out : Carries(f)'
      <3> SUFFICES ASSUME NEW f \in out PROVE Carries(f)'
        OBVIOUS
      <3>1. \E m : f = BlockFrame("SubmitBlock", n, m, h, b)
        BY <2>3, <2>4
      <3>2. f.type = "SubmitBlock" /\ f.src = n /\ f.height = h /\ f.block = b
        BY <3>1 DEF BlockFrame
      <3> HIDE DEF out
      <3>3. QED BY <2>5, <3>2 DEF Carries
    <2> HIDE DEF out
    <2>7. QED BY <1>1, <1>3, <2>1, <2>6, CarryNet
  <1>7. ASSUME NEW g \in net, OnBlockRequest(g) PROVE (\A f \in net : Carries(f))'
    <2> DEFINE block == IF g.height \in DOMAIN chain[g.dst]
                        THEN <<chain[g.dst][g.height]>> ELSE << >>
               r == BlockFrame("BlockResponse", g.dst, g.src, g.height, block)
    <2>1. net' \subseteq net \cup {r}
      BY <1>7 DEF OnBlockRequest, Reply
    <2>2. r.type = "BlockResponse" /\ r.src = g.dst /\ r.height = g.height /\ r.block = block
      BY DEF BlockFrame
    <2>3. block = << >> \/ At(g.dst, g.height, block[1])
      BY DEF At
    <2>4. UNCHANGED chain
      BY <1>7 DEF OnBlockRequest
    <2> HIDE DEF r, block
    <2>5. Carries(r)
      BY <2>2, <2>3 DEF Carries
    <2>6. r.src \in Node
      BY <1>a, <2>2
    <2>7. PICK s : s = r
      OBVIOUS
    <2>8. Carries(s)'
      BY <1>1, <2>5, <2>6, <2>7, CarriesStays
    <2>9. PICK out : out = {s}
      OBVIOUS
    <2>10. net' \subseteq net \cup out /\ \A f \in out : Carries(f)'
      BY <2>1, <2>7, <2>8, <2>9
    <2>11. QED BY <1>1, <1>3, <2>10, CarryNet
  <1>8. CASE \E n \in Node : \/ AnnouncePresence(n) \/ RequestTips(n) \/ Restart(n)
                             \/ \E tx \in Tx : SubmitTransaction(n, tx)
                             \/ \E m \in Node : ProbeIntervalEnds(n, m) \/ AnswerIntervalEnds(n, m)
    <2>1. PICK n \in Node : \/ AnnouncePresence(n) \/ RequestTips(n) \/ Restart(n)
                            \/ \E tx \in Tx : SubmitTransaction(n, tx)
                            \/ \E m \in Node : ProbeIntervalEnds(n, m) \/ AnswerIntervalEnds(n, m)
      BY <1>8
    <2>2. CASE AnnouncePresence(n)
      BY <1>5, <2>2, NoBlocks DEF AnnouncePresence
    <2>3. CASE RequestTips(n)
      BY <1>5, <2>3, NoBlocks DEF RequestTips
    <2>4. CASE Restart(n)
      BY <1>4, <2>4 DEF Restart
    <2>5. CASE \E tx \in Tx : SubmitTransaction(n, tx)
      BY <1>4, <1>5, <2>5, NoBlocks DEF SubmitTransaction
    <2>6. CASE \E m \in Node : ProbeIntervalEnds(n, m) \/ AnswerIntervalEnds(n, m)
      BY <1>4, <2>6 DEF ProbeIntervalEnds, AnswerIntervalEnds
    <2>7. QED BY <2>1, <2>2, <2>3, <2>4, <2>5, <2>6
  <1>9. CASE UNCHANGED vars \/ \E f \in net : Lose(f) \/ OnSubmitBlock(f)
    BY <1>4, <1>9 DEF vars, Lose, OnSubmitBlock, Reply
  <1>10. ASSUME NEW f \in net,
                \/ OnPresenceAnnounce(f) \/ OnNodeInfo(f) \/ OnUnknownPeer(f)
                \/ OnTipRequest(f) \/ OnTipResponse(f) \/ OnBlockResponse(f)
                \/ OnTransactionAnnounce(f) \/ OnTransactionRequest(f)
                \/ OnTransactionResponse(f)
         PROVE  \E out : net' \subseteq net \cup out /\ Blockless(out)
    <2>1. CASE OnPresenceAnnounce(f) \/ OnUnknownPeer(f)
      BY <2>1, NoBlocks DEF OnPresenceAnnounce, OnUnknownPeer, Reply
    <2>2. CASE OnNodeInfo(f)
      BY <2>2, NoBlocks DEF OnNodeInfo, Reply
    <2>3. CASE OnTipRequest(f) \/ OnTipResponse(f) \/ OnBlockResponse(f)
      BY <2>3, NoBlocks DEF OnTipRequest, OnTipResponse, OnBlockResponse, Reply
    <2>4. CASE OnTransactionAnnounce(f)
      BY <2>4, NoBlocks DEF OnTransactionAnnounce, Reply
    <2>5. CASE OnTransactionRequest(f) \/ OnTransactionResponse(f)
      BY <2>5, NoBlocks DEF OnTransactionRequest, OnTransactionResponse, Reply
    <2>6. QED BY <1>10, <2>1, <2>2, <2>3, <2>4, <2>5
  <1>11. QED BY <1>5, <1>6, <1>7, <1>8, <1>9, <1>10 DEF Next, Receive

-----------------------------------------------------------------------------
\* Copying keeps chains in agreement: the block is already in the network.
LEMMA CopyKeepsOneChain ==
    ASSUME SyncInv, Agreed(chain), Made(chain),
           NEW n \in Node, NEW m \in Node, Copies(n, m)
    PROVE  Agreed(chain') /\ Made(chain')
  <1> DEFINE t == Height(n) + 1
  <1>1. /\ \A k \in Node : k # n => chain'[k] = chain[k]
        /\ Height(n) \in Nat /\ DOMAIN chain[n] = 1..Height(n)
        /\ DOMAIN chain'[n] = 1..(Height(n) + 1)
        /\ \A h \in DOMAIN chain[n] : chain'[n][h] = chain[n][h]
        /\ chain'[n][Height(n) + 1] = chain[m][Height(n) + 1]
    <2>1. ChainOK /\ chain' = [chain EXCEPT ![n] = Append(@, chain[m][Height(n) + 1])]
      BY DEF SyncInv, Copies
    <2>2. QED BY <2>1, AppendAt
  <1>2. m \in Network(n) /\ t \in DOMAIN chain[m]
    BY DEF Copies
  <1>3. \A k \in Node : \A h \in DOMAIN chain'[k] :
           \/ h \in DOMAIN chain[k] /\ chain'[k][h] = chain[k][h]
           \/ k = n /\ h = t /\ h \notin DOMAIN chain[k]
              /\ h \in DOMAIN chain[m] /\ chain'[k][h] = chain[m][h]
    BY <1>1, <1>2
  <1>4. \A k \in Node : \A h \in DOMAIN chain'[k] :
           \E j \in Network(k) : h \in DOMAIN chain[j] /\ chain'[k][h] = chain[j][h]
    BY <1>2, <1>3 DEF Network
  <1>5. \A k \in Node : DOMAIN chain[k] \subseteq DOMAIN chain'[k]
    BY <1>1
  <1> HIDE DEF t
  <1>6. Agreed(chain')
    <2> SUFFICES ASSUME NEW k \in Node, NEW j \in Network(k),
                        NEW h \in DOMAIN chain'[k] \cap DOMAIN chain'[j]
                 PROVE  chain'[k][h] = chain'[j][h]
      BY DEF Agreed
    <2>1. PICK a \in Network(k) : h \in DOMAIN chain[a] /\ chain'[k][h] = chain[a][h]
      BY <1>4
    <2>2. PICK b \in Network(j) : h \in DOMAIN chain[b] /\ chain'[j][h] = chain[b][h]
      BY <1>4 DEF Network
    <2>3. a \in Node /\ b \in Network(a)
      BY DEF Network
    <2>4. QED BY <2>1, <2>2, <2>3 DEF Agreed
  <1>7. Made(chain')
    <2> SUFFICES ASSUME NEW k \in Node, NEW j \in Network(k), NEW h \in DOMAIN chain'[k],
                        j \in Proposers(h)
                 PROVE  h \in DOMAIN chain'[j]
      BY DEF Made
    <2>1. PICK a \in Network(k) : h \in DOMAIN chain[a]
      BY <1>4
    <2>2. a \in Node /\ j \in Node /\ j \in Network(a)
      BY DEF Network
    <2>3. QED BY <1>5, <2>1, <2>2 DEF Made
  <1>8. QED BY <1>6, <1>7

\* Making a block keeps them in agreement: in the proposer's turn nobody of the
\* network has a block there yet.
LEMMA MakeKeepsOneChain ==
    ASSUME SyncInv, Agreed(chain), Made(chain), NEW n \in Node, Makes(n)
    PROVE  Agreed(chain') /\ Made(chain')
  <1> DEFINE t == Height(n) + 1
  <1>1. /\ \A k \in Node : k # n => chain'[k] = chain[k]
        /\ Height(n) \in Nat /\ DOMAIN chain[n] = 1..Height(n)
        /\ DOMAIN chain'[n] = 1..(Height(n) + 1)
        /\ \A h \in DOMAIN chain[n] : chain'[n][h] = chain[n][h]
    <2>1. ChainOK /\ chain' = [chain EXCEPT ![n] = Append(@, Block(n, pool[n]))]
      BY DEF SyncInv, Makes
    <2>2. QED BY <2>1, AppendAt
  <1>2. \A k \in Network(n) : t \notin DOMAIN chain[k]
    <2> SUFFICES ASSUME NEW k \in Network(n), t \in DOMAIN chain[k] PROVE FALSE
      OBVIOUS
    <2>1. k \in Node /\ n \in Network(k) /\ n \in Proposers(t)
      BY DEF Network, Makes
    <2>2. t \in DOMAIN chain[n]
      BY <2>1 DEF Made
    <2>3. QED BY <1>1, <2>2
  <1>3. \A k \in Node : \A h \in DOMAIN chain'[k] :
           \/ h \in DOMAIN chain[k] /\ chain'[k][h] = chain[k][h]
           \/ k = n /\ h = t
    BY <1>1
  <1>4. \A k \in Node : DOMAIN chain[k] \subseteq DOMAIN chain'[k]
    BY <1>1
  <1>5. t \in DOMAIN chain'[n]
    BY <1>1
  <1>6. \A j : j \in Proposers(t) => j = n
    BY DEF Makes, Proposers
  <1> HIDE DEF t
  <1>7. Agreed(chain')
    <2> SUFFICES ASSUME NEW k \in Node, NEW j \in Network(k),
                        NEW h \in DOMAIN chain'[k] \cap DOMAIN chain'[j]
                 PROVE  chain'[k][h] = chain'[j][h]
      BY DEF Agreed
    <2>1. j \in Node /\ k \in Network(j)
      BY DEF Network
    <2>2. CASE h \in DOMAIN chain[k] /\ h \in DOMAIN chain[j]
      <3>1. chain[k][h] = chain[j][h]
        BY <2>2 DEF Agreed
      <3>2. CASE k = j
        BY <3>2
      <3>3. chain'[k][h] = chain[k][h]
        BY <1>1, <2>2
      <3>4. chain'[j][h] = chain[j][h]
        BY <1>1, <2>1, <2>2
      <3>5. QED BY <3>1, <3>3, <3>4
    <2>3. CASE k = n /\ h = t
      BY <1>2, <1>3, <2>1, <2>3
    <2>4. CASE j = n /\ h = t
      BY <1>2, <1>3, <2>1, <2>4
    <2>5. QED BY <1>3, <2>1, <2>2, <2>3, <2>4
  <1>8. Made(chain')
    <2> SUFFICES ASSUME NEW k \in Node, NEW j \in Network(k), NEW h \in DOMAIN chain'[k],
                        j \in Proposers(h)
                 PROVE  h \in DOMAIN chain'[j]
      BY DEF Made
    <2>1. j \in Node
      BY DEF Network
    <2>2. CASE h \in DOMAIN chain[k]
      BY <1>4, <2>1, <2>2 DEF Made
    <2>3. CASE k = n /\ h = t
      BY <1>5, <1>6, <2>3
    <2>4. QED BY <1>3, <2>2, <2>3
  <1>9. QED BY <1>7, <1>8

\* The sources a chain of node n may take its transactions from.
Own(n) == Tx \cup UNION {Committed(Stored[m]) : m \in Network(n)}

Pure(c) == \A n \in Node : \A h \in DOMAIN c[n] : c[n][h].transactions \subseteq Own(n)

\* Neither making nor copying a block lets in what belongs to another network.
LEMMA StepPure ==
    ASSUME SyncInv, CarryInv, Pure(chain), [Next]_vars PROVE Pure(chain')
  <1>1. CASE UNCHANGED chain
    BY <1>1
  <1>2. ASSUME NEW n \in Node, Makes(n) PROVE Pure(chain')
    <2>1. Block(n, pool[n]).transactions \subseteq Own(n)
      BY DEF Block, Own, SyncInv, ChainOK
    <2>2. ChainOK /\ chain' = [chain EXCEPT ![n] = Append(@, Block(n, pool[n]))]
      BY <1>2 DEF SyncInv, Makes
    <2>3. QED BY <2>1, <2>2, AppendAt DEF Pure
  <1>3. ASSUME NEW n \in Node, NEW m \in Node, Copies(n, m) PROVE Pure(chain')
    <2>1. m \in Network(n) /\ Height(n) + 1 \in DOMAIN chain[m]
      BY <1>3 DEF Copies
    <2>2. Own(m) = Own(n)
      <3>1. Network(m) = Network(n)
        BY <2>1 DEF Network
      <3>2. QED BY <3>1 DEF Own
    <2>3. chain[m][Height(n) + 1].transactions \subseteq Own(n)
      BY <2>1, <2>2 DEF Pure
    <2>4. ChainOK /\ chain' = [chain EXCEPT ![n] = Append(@, chain[m][Height(n) + 1])]
      BY <1>3 DEF SyncInv, Copies
    <2>5. QED BY <2>3, <2>4, AppendAt DEF Pure
  <1>4. QED BY <1>1, <1>2, <1>3, ChainStep

-----------------------------------------------------------------------------
\* A frame with a block always carries its sender's block at that height, and
\* only nodes of one network know each other, for any chains on disk, losses and
\* restarts.
THEOREM CarryInvariant == Spec => []CarryInv
  <1>1. Init => CarryInv
    BY DEF Init, CarryInv, Vetted
  <1>2. SyncInv /\ CarryInv /\ [Next]_vars => CarryInv'
    BY CarryStep
  <1>3. QED BY <1>1, <1>2, SyncInvariant, PTL DEF Spec

\* Transactions that only nodes of another network committed never reach a chain
\* of this one, whatever the networks have on disk and whichever wire versions
\* the nodes speak.
THEOREM QuarantineHolds == Spec => []Quarantine
  <1>1. Init => Pure(chain)
    <2> SUFFICES ASSUME Init, NEW n \in Node, NEW h \in DOMAIN chain[n]
                 PROVE  chain[n][h].transactions \subseteq Own(n)
      BY DEF Pure
    <2>1. n \in Network(n) /\ chain[n] = Stored[n]
      BY DEF Init, Network
    <2>2. chain[n][h].transactions \subseteq Committed(Stored[n])
      BY <2>1 DEF Committed
    <2>3. QED BY <2>1, <2>2 DEF Own
  <1>2. SyncInv /\ CarryInv /\ Pure(chain) /\ [Next]_vars => Pure(chain)'
    BY StepPure
  <1>3. Pure(chain) => Quarantine
    BY DEF Pure, Quarantine, Committed, Own
  <1>4. QED BY <1>1, <1>2, <1>3, SyncInvariant, CarryInvariant, PTL DEF Spec

(***************************************************************************)
(* What the theorem about the chains needs of the disks the nodes start    *)
(* with: nodes of one network agree where their chains overlap, and the    *)
(* proposer of a block that is on any of these disks has it too.  That is  *)
(* what Replica establishes for processes that keep their data directory:  *)
(* a block is saved by its proposer before it is sent.                     *)
(***************************************************************************)
DisksAgree == Agreed(Stored) /\ Made(Stored)

\* Chains that agree wherever both have a block are one a prefix of the other.
LEMMA AgreeingIsPrefix ==
    ASSUME NEW S, NEW s \in Seq(S), NEW t \in Seq(S), Len(s) <= Len(t),
           \A h \in DOMAIN s \cap DOMAIN t : s[h] = t[h]
    PROVE  IsPrefix(s, t)
  <1>1. Len(s) \in Nat /\ Len(t) \in Nat /\ DOMAIN s = 1..Len(s) /\ DOMAIN t = 1..Len(t)
    OBVIOUS
  <1>2. /\ SubSeq(s, 1, Len(s)) = [i \in 1..Len(s) |-> s[i]]
        /\ SubSeq(t, 1, Len(s)) = [i \in 1..Len(s) |-> t[i]]
    BY <1>1
  <1>3. \A i \in 1..Len(s) : s[i] = t[i]
    BY <1>1
  <1>4. QED BY <1>2, <1>3 DEF IsPrefix

\* The chains of any two nodes of a cluster are one a prefix of the other, for
\* any number of nodes and networks, blocks, losses and restarts, when the chains
\* on disk are.
THEOREM ConsistentHolds == ASSUME DisksAgree PROVE Spec => []Consistent
  <1> DEFINE OneChain == Agreed(chain) /\ Made(chain)
  <1>1. Init => OneChain
    BY DEF Init, DisksAgree
  <1>2. SyncInv /\ CarryInv /\ OneChain /\ [Next]_vars => OneChain'
    <2> SUFFICES ASSUME SyncInv, CarryInv, Agreed(chain), Made(chain), [Next]_vars
                 PROVE  Agreed(chain') /\ Made(chain')
      OBVIOUS
    <2>1. CASE UNCHANGED chain
      BY <2>1
    <2>2. QED BY <2>1, ChainStep, CopyKeepsOneChain, MakeKeepsOneChain
  <1>3. SyncInv /\ OneChain => Consistent
    <2> SUFFICES ASSUME SyncInv, Agreed(chain), NEW n \in Node, NEW m \in Peers(n)
                 PROVE  IsPrefix(chain[n], chain[m]) \/ IsPrefix(chain[m], chain[n])
      BY DEF Consistent
    <2>1. m \in Node /\ m \in Network(n) /\ n \in Network(m)
      BY DEF Peers, Compatible, Network
    <2>2. chain[n] \in Seq(AnyBlock) /\ chain[m] \in Seq(AnyBlock)
      BY <2>1 DEF SyncInv, ChainOK
    <2>3. /\ \A h \in DOMAIN chain[n] \cap DOMAIN chain[m] : chain[n][h] = chain[m][h]
          /\ \A h \in DOMAIN chain[m] \cap DOMAIN chain[n] : chain[m][h] = chain[n][h]
      BY <2>1 DEF Agreed
    <2>4. Len(chain[n]) <= Len(chain[m]) \/ Len(chain[m]) <= Len(chain[n])
      BY <2>2
    <2>5. QED BY <2>2, <2>3, <2>4, AgreeingIsPrefix
  <1> HIDE DEF OneChain
  <1>4. QED BY <1>1, <1>2, <1>3, SyncInvariant, CarryInvariant, PTL DEF Spec
=============================================================================
