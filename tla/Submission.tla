----------------------------- MODULE Submission -----------------------------
(***************************************************************************)
(* Submitting a transaction over UDP: qcoin-node submit-tx on one side,    *)
(* handle_submitted_transaction on the other, frames that are lost,        *)
(* repeated and late in between, and a node that restarts and forgets its  *)
(* mempool.  Whoever runs submit-tx (the outbox of the EAB documents) runs *)
(* it again until it is told that the transaction is committed.            *)
(*                                                                         *)
(* Transactions do not conflict with each other: the anchor transactions   *)
(* of those documents have no inputs.                                      *)
(***************************************************************************)
EXTENDS Naturals

CONSTANTS
    Txs,
    Invalid,      \* the transactions that no ledger accepts
    Ports,        \* the ports a bind to port 0 may give
    MaxFaults     \* bound: losses, repetitions, early timeouts and restarts

ASSUME SubmissionConstants == Invalid \subseteq Txs /\ Ports # {} /\ MaxFaults \in Nat

VARIABLES
    outbox,      \* the transactions to submit
    client,      \* the run of submit-tx: idle, or waiting on a port
    report,      \* the response that was last printed, or None
    requests,    \* SubmitTransaction frames on their way
    answers,     \* SubmitTransactionResponse frames on their way
    pending, committed,    \* the node's mempool and chain
    epoch,       \* how often the node has restarted
    faults

node == <<pending, committed, epoch>>
vars == <<outbox, client, report, requests, answers, node, faults>>

None == [status |-> "none"]
Idle == [pc |-> "idle"]

Init ==
    /\ outbox = Txs /\ client = Idle /\ report = None
    /\ requests = {} /\ answers = {}
    /\ pending = {} /\ committed = {} /\ epoch = 0 /\ faults = 0

Fault == faults < MaxFaults /\ faults' = faults + 1

-----------------------------------------------------------------------------
(***************************************************************************)
(* submit_transaction_via_udp: bind, send once, wait.                      *)
(***************************************************************************)
SubmitTx(tx) ==
    /\ client = Idle /\ tx \in outbox
    /\ \E port \in Ports :
          /\ client' = [pc |-> "waiting", tx |-> tx, port |-> port]
          /\ requests' = requests \union {[tx |-> tx, port |-> port]}
    /\ UNCHANGED <<outbox, report, answers, node, faults>>

\* The first response from the target is printed, whatever it answers: with a
\* port that an earlier run had, it may be the late answer to that run.  Final
\* answers take the transaction they name from the outbox.
ReceiveAnswer(a) ==
    /\ client # Idle /\ client.port = a.port
    /\ client' = Idle
    /\ report' = a
    /\ outbox' = IF a.status \in {"already committed", "invalid"}
                 THEN outbox \ {a.tx} ELSE outbox
    /\ answers' = answers \ {a}
    /\ UNCHANGED <<requests, node, faults>>

\* Nobody listens on the port.
DropAnswer(a) ==
    /\ client # Idle => client.port # a.port
    /\ answers' = answers \ {a}
    /\ UNCHANGED <<outbox, client, report, requests, node, faults>>

\* recv_from times out: nothing for this port is on its way, or it is late.
UnderWay == \E f \in requests \union answers : f.port = client.port

TimeOut ==
    /\ client # Idle
    /\ \/ ~UnderWay /\ UNCHANGED faults
       \/ UnderWay /\ Fault
    /\ client' = Idle
    /\ UNCHANGED <<outbox, report, requests, answers, node>>

-----------------------------------------------------------------------------
(***************************************************************************)
(* The node.                                                               *)
(***************************************************************************)
\* Mutants: the answer is given before the ledger is asked; the chain is not
\* looked at.
MutStatus(tx) == IF tx \in committed THEN "already committed" ELSE "accepted"
MutStatusForgets(tx) == IF tx \in Invalid THEN "invalid" ELSE "accepted"

Status(tx) ==
    IF tx \in committed THEN "already committed"
    ELSE IF tx \in Invalid THEN "invalid"
    ELSE "accepted"    \* new, or already pending

HandleSubmit(r) ==
    /\ requests' = requests \ {r}
    /\ pending' = IF r.tx \in Invalid \/ Status(r.tx) # "accepted"
                  THEN pending ELSE pending \union {r.tx}
    /\ \/ answers' = answers \union {[tx |-> r.tx, port |-> r.port,
                                      status |-> Status(r.tx), epoch |-> epoch]}
          /\ UNCHANGED faults
       \/ UNCHANGED answers /\ Fault       \* send_wire fails
    /\ UNCHANGED <<outbox, client, report, committed, epoch>>

Produce ==
    /\ pending # {}
    /\ committed' = committed \union pending
    /\ pending' = {}
    /\ UNCHANGED <<outbox, client, report, requests, answers, epoch, faults>>

\* The mempool and the frames in the socket are gone; the chain stays.
Restart ==
    /\ Fault
    /\ pending' = {} /\ requests' = {} /\ epoch' = epoch + 1
    /\ UNCHANGED <<outbox, client, report, answers, committed>>

Lose ==
    /\ Fault
    /\ \/ \E r \in requests : requests' = requests \ {r} /\ UNCHANGED answers
       \/ \E a \in answers : answers' = answers \ {a} /\ UNCHANGED requests
    /\ UNCHANGED <<outbox, client, report, node>>

\* A request or an answer that has been sent arrives once more.
Repeat ==
    /\ Fault
    /\ \/ /\ client # Idle
          /\ requests' = requests \union {[tx |-> client.tx, port |-> client.port]}
          /\ UNCHANGED answers
       \/ /\ report # None
          /\ answers' = answers \union {report}
          /\ UNCHANGED requests
    /\ UNCHANGED <<outbox, client, report, node>>

Next ==
    \/ \E tx \in Txs : SubmitTx(tx)
    \/ \E a \in answers : ReceiveAnswer(a) \/ DropAnswer(a)
    \/ TimeOut
    \/ \E r \in requests : HandleSubmit(r)
    \/ Produce \/ Restart \/ Lose \/ Repeat

(***************************************************************************)
(* The outbox goes through its transactions again and again, a run of      *)
(* submit-tx ends, the node handles what arrives and produces.  Faults are *)
(* finitely many.                                                          *)
(***************************************************************************)
Fairness ==
    /\ \A tx \in Txs : SF_vars(SubmitTx(tx))
    /\ WF_vars(\E a \in answers : ReceiveAnswer(a))
    /\ WF_vars(TimeOut)
    /\ WF_vars(\E r \in requests : HandleSubmit(r))
    /\ WF_vars(Produce)

Spec == Init /\ [][Next]_vars /\ Fairness

-----------------------------------------------------------------------------
\* What was printed is true of the transaction it names, however late it is: a
\* transaction said to be committed is in the chain, one said to be accepted is
\* in the mempool or the chain unless the node has restarted since, and one
\* said to be invalid never gets in (accept_transaction decides and admits
\* under one lock, before the answer is sent).
ToldTheTruth ==
    CASE report.status = "accepted" ->
            report.epoch = epoch => report.tx \in pending \union committed
      [] report.status = "already committed" -> report.tx \in committed
      [] report.status = "invalid" -> report.tx \notin pending \union committed
      [] OTHER -> TRUE

\* Submitting again until the answer is final gets every valid transaction
\* committed and lets the submitter know, though answers are lost and the node
\* forgets its mempool: a second submission of a committed transaction is told
\* apart from a new one.
KnownToBeCommitted ==
    \A tx \in Txs \ Invalid : <>(tx \in committed /\ tx \notin outbox)
=============================================================================
