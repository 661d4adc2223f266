------------------------- MODULE NodeThreadsProofs -------------------------
(***************************************************************************)
(* No interleaving of the two threads of a node makes it wait for a block  *)
(* it has not requested, whatever HTTP clients post.                       *)
(***************************************************************************)
EXTENDS NodeThreads, TLAPS

(***************************************************************************)
(* RequestUnderWay is not inductive: the HTTP thread moves the height, so  *)
(* an entry that was of no interest can become the next one.  Whatever the *)
(* height is, an entry of in_flight_blocks has its request or its answer   *)
(* under way, because the entry is cleared in the step that takes the      *)
(* answer from the socket.                                                 *)
(***************************************************************************)
Frames == {TipFrame, BadFrame} \cup {BlockFrame(h) : h \in Nat}

UnderWay(h) == h \in asked \/ \E i \in DOMAIN queue : queue[i] = BlockFrame(h)

ThreadsInv ==
    /\ height \in Nat /\ inFlight \in Nat /\ asked \subseteq Nat
    /\ queue \in Seq(Frames)
    /\ loop.pc = "request" => loop.next \in Nat
    /\ inFlight = 0 \/ UnderWay(inFlight)

\* A frame that arrives leaves the frames before it in the socket.
LEMMA ArrivalKeeps ==
    ASSUME queue \in Seq(Frames), NEW f \in Frames, queue' = Append(queue, f)
    PROVE  /\ queue' \in Seq(Frames)
           /\ \A g : (\E i \in DOMAIN queue : queue[i] = g)
                        => (\E i \in DOMAIN queue' : queue'[i] = g)
           /\ \E i \in DOMAIN queue' : queue'[i] = f
  <1>1. /\ queue' \in Seq(Frames)
        /\ Len(queue) \in Nat
        /\ DOMAIN queue = 1..Len(queue)
        /\ DOMAIN queue' = 1..(Len(queue) + 1)
        /\ \A i \in 1..Len(queue) : queue'[i] = queue[i]
        /\ queue'[Len(queue) + 1] = f
    OBVIOUS
  <1>2. \A i \in DOMAIN queue : i \in DOMAIN queue'
    BY <1>1
  <1>3. Len(queue) + 1 \in DOMAIN queue'
    BY <1>1
  <1>4. QED BY <1>1, <1>2, <1>3

\* Taking the first frame leaves every other one in the socket.
LEMMA TakingKeeps ==
    ASSUME queue \in Seq(Frames), queue # << >>, queue' = Tail(queue)
    PROVE  /\ Head(queue) \in Frames
           /\ queue' \in Seq(Frames)
           /\ \A g : (\E i \in DOMAIN queue : queue[i] = g) /\ g # Head(queue)
                        => (\E i \in DOMAIN queue' : queue'[i] = g)
  <1>1. /\ Head(queue) = queue[1] /\ Head(queue) \in Frames
        /\ queue' \in Seq(Frames)
        /\ Len(queue) \in Nat /\ Len(queue) > 0
        /\ DOMAIN queue = 1..Len(queue)
        /\ DOMAIN queue' = 1..(Len(queue) - 1)
        /\ \A i \in 1..(Len(queue) - 1) : queue'[i] = queue[i + 1]
    OBVIOUS
  <1>2. ASSUME NEW g, NEW i \in DOMAIN queue, queue[i] = g, g # Head(queue)
        PROVE  \E j \in DOMAIN queue' : queue'[j] = g
    <2>1. i # 1 /\ i \in 1..Len(queue)
      BY <1>1, <1>2
    <2>2. i - 1 \in 1..(Len(queue) - 1) /\ (i - 1) + 1 = i
      BY <1>1, <2>1
    <2>3. queue'[i - 1] = g
      BY <1>1, <1>2, <2>2
    <2>4. QED BY <1>1, <2>2, <2>3
  <1>3. QED BY <1>1, <1>2

\* The frames that arrive.
LEMMA ArrivalsPreserve ==
    ASSUME ThreadsInv, SyncTimer \/ BadFrameArrives \/ \E h \in asked : PeerAnswers(h)
    PROVE  ThreadsInv'
  <1>1. /\ UNCHANGED <<height, inFlight, loop>>
    BY DEF SyncTimer, BadFrameArrives, PeerAnswers, chainVars
  <1>2. CASE SyncTimer \/ BadFrameArrives
    <2>1. PICK f \in Frames : queue' = Append(queue, f) /\ UNCHANGED asked
      BY <1>2 DEF SyncTimer, BadFrameArrives, Frames
    <2>2. QED BY <1>1, <2>1, ArrivalKeeps DEF ThreadsInv, UnderWay
  <1>3. CASE \E h \in asked : PeerAnswers(h)
    <2>1. PICK h \in asked : asked' = asked \ {h} /\ queue' = Append(queue, BlockFrame(h))
      BY <1>3 DEF PeerAnswers
    <2>2. BlockFrame(h) \in Frames
      BY <2>1 DEF ThreadsInv, Frames
    <2>3. QED BY <1>1, <2>1, <2>2, ArrivalKeeps DEF ThreadsInv, UnderWay
  <1>4. QED BY <1>2, <1>3

\* The event loop takes a frame from the socket.
LEMMA NextFramePreserves ==
    ASSUME ThreadsInv, NextFrame PROVE ThreadsInv'
  <1> DEFINE f == Head(queue)
  <1>1. queue # << >> /\ queue' = Tail(queue) /\ UNCHANGED <<height, asked>>
    BY DEF NextFrame
  <1>2. queue \in Seq(Frames)
    BY DEF ThreadsInv
  <1>3. loop'.pc # "request"
    BY DEF NextFrame, AfterError, At
  <1>4. inFlight' = 0 \/ (inFlight' = inFlight /\ f.type # "BlockResponse")
    BY DEF NextFrame
  <1>5. \A h : BlockFrame(h).type = "BlockResponse"
    BY DEF BlockFrame
  <1>6. inFlight' = 0 \/ UnderWay(inFlight)'
    BY <1>1, <1>2, <1>4, <1>5, TakingKeeps DEF ThreadsInv, UnderWay
  <1>7. QED BY <1>1, <1>2, <1>3, <1>4, <1>6, TakingKeeps DEF ThreadsInv

\* The other steps of the event loop: only Request writes the entry, with the
\* request that it names.
LEMMA LoopPreserves ==
    ASSUME ThreadsInv,
           \/ Check \/ Apply \/ FollowUp \/ ReadHeight \/ Request
           \/ LoopStops \/ LoopFails \/ ProduceTimer
    PROVE  ThreadsInv'
  <1>1. UNCHANGED queue
    BY DEF Check, Apply, FollowUp, ReadHeight, Request, LoopStops, LoopFails,
           ProduceTimer, netVars
  <1>2. CASE Request
    <2>1. /\ loop.next \in Nat /\ loop'.pc # "request" /\ UNCHANGED height
          /\ \/ UNCHANGED <<inFlight, asked>>
             \/ inFlight' = loop.next /\ asked' = asked \cup {loop.next}
      BY <1>2 DEF Request, ThreadsInv, At
    <2>2. QED BY <1>1, <2>1 DEF ThreadsInv, UnderWay
  <1>3. CASE \/ Check \/ Apply \/ FollowUp \/ ReadHeight
             \/ LoopStops \/ LoopFails \/ ProduceTimer
    <2>1. UNCHANGED <<inFlight, asked>>
      BY <1>3 DEF Check, Apply, FollowUp, ReadHeight, LoopStops, LoopFails,
                  ProduceTimer, netVars, chainVars
    <2>2. height' \in Nat
      BY <1>3 DEF ThreadsInv, Check, Apply, FollowUp, ReadHeight, LoopStops,
                  LoopFails, ProduceTimer, chainVars
    <2>3. loop'.pc = "request" => loop'.next \in Nat
      <3>1. CASE Check
        BY <3>1 DEF Check, At
      <3>2. CASE Apply \/ FollowUp \/ LoopStops \/ LoopFails
        BY <3>2 DEF Apply, FollowUp, LoopStops, LoopFails, At
      <3>3. CASE ReadHeight
        BY <3>3 DEF ReadHeight, At, ThreadsInv
      <3>4. CASE ProduceTimer
        BY <3>4 DEF ProduceTimer, ThreadsInv
      <3>5. QED BY <1>3, <3>1, <3>2, <3>3, <3>4
    <2>4. QED BY <1>1, <2>1, <2>2, <2>3 DEF ThreadsInv, UnderWay
  <1>4. QED BY <1>2, <1>3

\* The HTTP thread, which moves the height, and the end of the process.
LEMMA HttpPreserves ==
    ASSUME ThreadsInv,
           \/ (\E r \in requests : HttpReceive(r)) \/ HttpApply \/ HttpBodyFails
           \/ HttpEnds \/ HttpFails \/ Signal \/ Join
    PROVE  ThreadsInv'
  <1>1. UNCHANGED <<inFlight, loop, queue, asked>>
    BY DEF HttpReceive, HttpApply, HttpBodyFails, HttpEnds, HttpFails, Signal, Join,
           netVars, chainVars
  <1>2. height' \in Nat
    BY DEF HttpReceive, HttpApply, HttpBodyFails, HttpEnds, HttpFails, Signal, Join,
           chainVars, ThreadsInv
  <1>3. QED BY <1>1, <1>2 DEF ThreadsInv, UnderWay

\* When the node considers the next block requested, the request or its answer
\* is under way, for any height of the peer and any posted blocks.
THEOREM RequestUnderWayHolds == Spec => []RequestUnderWay
  <1>1. Init => ThreadsInv
    BY DEF Init, ThreadsInv, At
  <1>2. ThreadsInv /\ [Next]_vars => ThreadsInv'
    <2> SUFFICES ASSUME ThreadsInv, [Next]_vars PROVE ThreadsInv'
      OBVIOUS
    <2>1. CASE UNCHANGED vars
      BY <2>1 DEF vars, chainVars, netVars, ThreadsInv, UnderWay
    <2>2. CASE Next
      BY <2>2, ArrivalsPreserve, NextFramePreserves, LoopPreserves, HttpPreserves
      DEF Next, LoopStep
    <2>3. QED BY <2>1, <2>2
  <1>3. ThreadsInv => RequestUnderWay
    BY DEF ThreadsInv, RequestUnderWay, UnderWay
  <1>4. QED BY <1>1, <1>2, <1>3, PTL DEF Spec
=============================================================================
