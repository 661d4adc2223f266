---------------------------- MODULE NodeThreads ----------------------------
(***************************************************************************)
(* The two threads of a running node and the runtime mutex between them.   *)
(* The event loop (run_network_core) drains UDP frames and fires timers;   *)
(* the HTTP thread answers requests.  A handler of the event loop takes    *)
(* the lock several times and uses what it read under one lock after that  *)
(* lock is released; the HTTP thread keeps the lock while it reads a       *)
(* request body, for as long as the client takes.                          *)
(*                                                                         *)
(* A lock section without a wait in it is one step, taken while the lock   *)
(* is free.  Only the event loop uses the sync_state mutex, so it orders   *)
(* nothing and is left out.  The chain is its height (see Replica and      *)
(* NodeSync); one peer, which has a longer chain, answers every request.   *)
(***************************************************************************)
EXTENDS Naturals, Sequences

CONSTANTS
    Tip,        \* the height of the peer
    Posts,      \* heights of the blocks that HTTP clients post, each once
    Bad         \* how many frames arrive whose handler returns an error

ASSUME NodeThreadsConstants == Tip \in Nat /\ Posts \subseteq 1..Tip /\ Bad \in Nat

VARIABLES
    height,     \* NodeRuntime.chain.height
    tipSeen,    \* peer_tip_heights of the peer (0 when absent)
    inFlight,   \* in_flight_blocks of the peer (0 when absent)
    loop,       \* where the event loop is, and the values its handler holds
    queue,      \* frames in the UDP socket
    asked,      \* block requests on their way to the peer
    http,       \* where the HTTP thread is
    requests,   \* HTTP requests that have not been received
    bad,        \* failing frames still to come
    shutdown,   \* shutdown_requested (and the event loop told to stop)
    exited      \* the process has ended

chainVars == <<height, tipSeen, inFlight>>
netVars == <<queue, asked, bad>>
vars == <<chainVars, loop, netVars, http, requests, shutdown, exited>>

At(pc) == [pc |-> pc]
TipFrame == [type |-> "TipResponse"]
BlockFrame(h) == [type |-> "BlockResponse", height |-> h]
BadFrame == [type |-> "bad"]

Posted(h) == [kind |-> "post", height |-> h]
Get == [kind |-> "get"]

Init ==
    /\ height = 0 /\ tipSeen = 0 /\ inFlight = 0
    /\ loop = At("poll")
    /\ queue = << >> /\ asked = {} /\ bad = Bad
    /\ http = At("recv")
    /\ requests = {Get} \cup {Posted(h) : h \in Posts}
    /\ shutdown = FALSE /\ exited = FALSE

\* The runtime mutex: handle_request runs with it held.
LockFree == http.pc # "body"

-----------------------------------------------------------------------------
(***************************************************************************)
(* The network: the sync timer asks for the tip and the peer answers; the  *)
(* peer answers block requests; other frames come from elsewhere.          *)
(***************************************************************************)
SyncTimer ==
    /\ loop.pc = "poll" /\ ~shutdown
    /\ \A i \in DOMAIN queue : queue[i] # TipFrame
    /\ queue' = Append(queue, TipFrame)
    /\ UNCHANGED <<chainVars, loop, asked, bad, http, requests, shutdown, exited>>

PeerAnswers(h) ==
    /\ asked' = asked \ {h}
    /\ queue' = Append(queue, BlockFrame(h))
    /\ UNCHANGED <<chainVars, loop, bad, http, requests, shutdown, exited>>

BadFrameArrives ==
    /\ bad > 0
    /\ bad' = bad - 1
    /\ queue' = Append(queue, BadFrame)
    /\ UNCHANGED <<chainVars, loop, asked, http, requests, shutdown, exited>>

-----------------------------------------------------------------------------
(***************************************************************************)
(* The event loop.  drain_frames handles frame after frame and returns     *)
(* when the socket is empty or a handler fails; the socket is reported     *)
(* again while it holds frames (poll).                                     *)
(***************************************************************************)
\* Mutant: the error ends the service.
MutAfterError == At("stopped")

AfterError == At("poll")

NextFrame ==
    /\ loop.pc = "poll" /\ queue # << >> /\ ~shutdown
    /\ queue' = Tail(queue)
    /\ LET f == Head(queue)
       IN  \/ /\ f.type = "bad"
              /\ loop' = AfterError
              /\ UNCHANGED <<tipSeen, inFlight>>
           \/ /\ f.type = "TipResponse"
              /\ tipSeen' = Tip
              /\ loop' = [pc |-> "height", remote |-> Tip]
              /\ UNCHANGED inFlight
           \/ /\ f.type = "BlockResponse"
              /\ inFlight' = 0
              /\ loop' = [pc |-> "check", block |-> f.height]
              /\ UNCHANGED tipSeen
    /\ UNCHANGED <<height, asked, bad, http, requests, shutdown, exited>>

\* handle_block_response: height <= current_height().
Check ==
    /\ loop.pc = "check" /\ LockFree
    /\ loop' = IF loop.block <= height THEN At("followUp")
                                       ELSE [loop EXCEPT !.pc = "apply"]
    /\ UNCHANGED <<chainVars, netVars, http, requests, shutdown, exited>>

\* apply_remote_block: the chain may have moved since Check.
Apply ==
    /\ loop.pc = "apply" /\ LockFree
    /\ \/ /\ loop.block = height + 1
          /\ height' = height + 1
          /\ loop' = At("followUp")
       \/ /\ loop.block # height + 1
          /\ loop' = At("poll")
          /\ UNCHANGED height
    /\ UNCHANGED <<tipSeen, inFlight, netVars, http, requests, shutdown, exited>>

FollowUp ==
    /\ loop.pc = "followUp"
    /\ loop' = [pc |-> "height", remote |-> tipSeen]
    /\ UNCHANGED <<chainVars, netVars, http, requests, shutdown, exited>>

\* request_next_missing_block: the height is read here ...
ReadHeight ==
    /\ loop.pc = "height" /\ LockFree
    /\ loop' = IF loop.remote <= height THEN At("poll")
                                        ELSE [pc |-> "request", next |-> height + 1]
    /\ UNCHANGED <<chainVars, netVars, http, requests, shutdown, exited>>

\* ... and used here.
\* Mutant: the next height is marked without a look at what is requested.
MutRequest ==
    /\ loop.pc = "request"
    /\ loop' = At("poll")
    /\ \/ inFlight = loop.next /\ UNCHANGED <<inFlight, asked>>
       \/ inFlight # loop.next /\ inFlight' = height + 1 /\ asked' = asked \cup {loop.next}
    /\ UNCHANGED <<height, tipSeen, queue, bad, http, requests, shutdown, exited>>

Request ==
    /\ loop.pc = "request"
    /\ loop' = At("poll")
    /\ \/ inFlight = loop.next /\ UNCHANGED <<inFlight, asked>>
       \/ inFlight # loop.next /\ inFlight' = loop.next /\ asked' = asked \cup {loop.next}
    /\ UNCHANGED <<height, tipSeen, queue, bad, http, requests, shutdown, exited>>

\* The production timer: this node's turn is the block after the peer's last.
ProduceTimer ==
    /\ loop.pc = "poll" /\ ~shutdown /\ LockFree
    /\ height = Tip
    /\ height' = height + 1
    /\ UNCHANGED <<tipSeen, inFlight, loop, netVars, http, requests, shutdown, exited>>

LoopStops ==
    /\ loop.pc = "poll" /\ shutdown
    /\ loop' = At("stopped")
    /\ UNCHANGED <<chainVars, netVars, http, requests, shutdown, exited>>

\* run_until_stopped returns an error; run_node sets the flag and joins.
LoopFails ==
    /\ loop.pc = "poll" /\ ~shutdown
    /\ loop' = At("stopped")
    /\ shutdown' = TRUE
    /\ UNCHANGED <<chainVars, netVars, http, requests, exited>>

LoopStep ==
    NextFrame \/ Check \/ Apply \/ FollowUp \/ ReadHeight \/ Request \/ LoopStops

-----------------------------------------------------------------------------
(***************************************************************************)
(* The HTTP thread.  recv_timeout returns at least every 100 ms, so the    *)
(* flag is looked at again even when no request comes.                     *)
(***************************************************************************)
\* Mutant: the flag is not looked at.
MutServeOn == TRUE

ServeOn == ~shutdown

HttpReceive(r) ==
    /\ http.pc = "recv" /\ ServeOn
    /\ requests' = requests \ {r}
    /\ http' = IF r.kind = "post" THEN [pc |-> "body", block |-> r.height] ELSE At("recv")
    /\ UNCHANGED <<chainVars, loop, netVars, shutdown, exited>>

\* The body is complete: apply_block, respond, release the lock.
HttpApply ==
    /\ http.pc = "body"
    /\ http' = At("recv")
    /\ height' = IF http.block = height + 1 THEN height + 1 ELSE height
    /\ UNCHANGED <<tipSeen, inFlight, loop, netVars, requests, shutdown, exited>>

\* The client closes the connection before the body is complete.
HttpBodyFails ==
    /\ http.pc = "body"
    /\ http' = At("recv")
    /\ UNCHANGED <<chainVars, loop, netVars, requests, shutdown, exited>>

HttpEnds ==
    /\ http.pc = "recv" /\ ~ServeOn
    /\ http' = At("ended")
    /\ UNCHANGED <<chainVars, loop, netVars, requests, shutdown, exited>>

\* The server reports an error and its thread ends; the event loop goes on.
HttpFails ==
    /\ http.pc = "recv"
    /\ http' = At("ended")
    /\ UNCHANGED <<chainVars, loop, netVars, requests, shutdown, exited>>

-----------------------------------------------------------------------------
\* The ctrl-c handler, and run_node after the event loop has returned.
Signal ==
    /\ ~shutdown
    /\ shutdown' = TRUE
    /\ UNCHANGED <<chainVars, loop, netVars, http, requests, exited>>

Join ==
    /\ loop.pc = "stopped" /\ http.pc = "ended" /\ ~exited
    /\ exited' = TRUE
    /\ UNCHANGED <<chainVars, loop, netVars, http, requests, shutdown>>

Next ==
    \/ SyncTimer
    \/ \E h \in asked : PeerAnswers(h)
    \/ BadFrameArrives
    \/ LoopStep
    \/ ProduceTimer
    \/ \E r \in requests : HttpReceive(r)
    \/ HttpApply
    \/ HttpBodyFails
    \/ HttpEnds
    \/ HttpFails
    \/ LoopFails
    \/ Signal
    \/ Join

(***************************************************************************)
(* Both threads run, a timer that is due fires the next time the event     *)
(* loop polls, and the peer answers.  Nothing is assumed of HTTP clients:  *)
(* a body may never be complete.                                           *)
(***************************************************************************)
Fairness ==
    /\ SF_vars(SyncTimer) /\ SF_vars(ProduceTimer)
    /\ WF_vars(\E h \in asked : PeerAnswers(h))
    /\ WF_vars(LoopStep)
    /\ WF_vars(HttpEnds) /\ WF_vars(Join)

Spec == Init /\ [][Next]_vars /\ Fairness

-----------------------------------------------------------------------------
\* A client that never completes its body.
StuckClient == <>[](http.pc = "body")

\* When the node considers the next block requested, the request is on its way,
\* or its answer is in the socket or being handled: a height read before the
\* HTTP thread moved the chain never blocks a request that is still needed
\* (request_next_missing_block).
RequestUnderWay ==
    inFlight = height + 1 =>
        \/ inFlight \in asked
        \/ \E i \in DOMAIN queue : queue[i] = BlockFrame(inFlight)

\* Whatever HTTP clients post between two lock sections of a handler, and
\* whatever frames fail, the node fetches what it lacks and takes its turn,
\* unless it is shut down or a client holds the lock for ever.
TakesItsTurn == StuckClient \/ <>(height > Tip \/ shutdown)

\* A shutdown completes, unless a client holds the lock for ever.
ShutdownCompletes == StuckClient \/ (shutdown ~> exited)
=============================================================================
