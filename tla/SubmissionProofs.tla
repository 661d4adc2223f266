-------------------------- MODULE SubmissionProofs --------------------------
(***************************************************************************)
(* The answers of submit-tx are true however late they are read, and the   *)
(* outbox gives up no valid transaction before it is in the chain: for any *)
(* transactions, ports and number of faults.                               *)
(***************************************************************************)
EXTENDS Submission, TLAPS

(***************************************************************************)
(* ToldTheTruth is not inductive: what is printed was an answer under way  *)
(* first, and answers are overtaken by blocks and restarts.  An answer     *)
(* stays true because the chain only grows, because what leaves the        *)
(* mempool without a restart enters the chain, and because an invalid      *)
(* transaction never gets in.  An answer of an earlier life of the node    *)
(* has a smaller epoch and promises nothing of the mempool.                *)
(***************************************************************************)
Truthful(a) ==
    /\ a.status = "accepted" =>
          /\ a.epoch \in Nat /\ a.epoch <= epoch
          /\ a.epoch = epoch => a.tx \in pending \union committed
    /\ a.status = "already committed" => a.tx \in committed
    /\ a.status = "invalid" => a.tx \in Invalid

AnswersInv ==
    /\ epoch \in Nat
    /\ (pending \union committed) \intersect Invalid = {}
    /\ \A a \in answers : Truthful(a)
    /\ Truthful(report)

\* What the node has promised stays true from step to step.
LEMMA TrueStays ==
    ASSUME AnswersInv, NEW a, Truthful(a),
           committed \subseteq committed',
           \/ epoch' = epoch + 1
           \/ epoch' = epoch /\ pending \union committed \subseteq pending' \union committed'
    PROVE  Truthful(a)'
  <1>1. epoch \in Nat
    BY DEF AnswersInv
  <1>2. CASE epoch' = epoch + 1
    <2>1. a.status = "accepted" => a.epoch \in Nat /\ a.epoch <= epoch' /\ a.epoch # epoch'
      BY <1>1, <1>2 DEF Truthful
    <2>2. QED BY <2>1 DEF Truthful
  <1>3. CASE epoch' = epoch /\ pending \union committed \subseteq pending' \union committed'
    BY <1>3 DEF Truthful
  <1>4. QED BY <1>2, <1>3

\* Every step keeps the chain, and the mempool or the epoch.
LEMMA NodeStep ==
    ASSUME AnswersInv, [Next]_vars
    PROVE  /\ committed \subseteq committed'
           /\ epoch' \in Nat
           /\ \/ epoch' = epoch + 1
              \/ epoch' = epoch /\ pending \union committed \subseteq pending' \union committed'
           /\ (pending' \union committed') \intersect Invalid = {}
  <1>1. CASE UNCHANGED node
    BY <1>1 DEF node, AnswersInv
  <1>2. CASE \E r \in requests : HandleSubmit(r)
    BY <1>2 DEF HandleSubmit, AnswersInv
  <1>3. CASE Produce
    BY <1>3 DEF Produce, AnswersInv
  <1>4. CASE Restart
    BY <1>4 DEF Restart, AnswersInv
  <1>5. UNCHANGED node \/ (\E r \in requests : HandleSubmit(r)) \/ Produce \/ Restart
    BY DEF Next, vars, SubmitTx, ReceiveAnswer, DropAnswer, TimeOut, Lose, Repeat
  <1>6. QED BY <1>1, <1>2, <1>3, <1>4, <1>5

\* The answer of handle_submitted_transaction is true when it is sent.
LEMMA AnswerIsTrue ==
    ASSUME AnswersInv, NEW r \in requests, HandleSubmit(r),
           NEW a, a = [tx |-> r.tx, port |-> r.port, status |-> Status(r.tx), epoch |-> epoch]
    PROVE  Truthful(a)'
  <1>1. a.tx = r.tx /\ a.status = Status(r.tx) /\ a.epoch = epoch
    OBVIOUS
  <1>2. epoch' = epoch /\ committed' = committed /\ epoch \in Nat
    BY DEF HandleSubmit, AnswersInv
  <1>3. CASE r.tx \in committed
    BY <1>1, <1>2, <1>3 DEF Status, Truthful
  <1>4. CASE r.tx \notin committed /\ r.tx \in Invalid
    BY <1>1, <1>2, <1>4 DEF Status, Truthful
  <1>5. CASE r.tx \notin committed /\ r.tx \notin Invalid
    <2>1. Status(r.tx) = "accepted"
      BY <1>5 DEF Status
    <2>2. r.tx \in pending'
      BY <1>5, <2>1 DEF HandleSubmit
    <2>3. QED BY <1>1, <1>2, <2>1, <2>2 DEF Truthful
  <1>6. QED BY <1>3, <1>4, <1>5

\* Answers under way, and the one that was printed, stay true.
LEMMA AnswersStep ==
    ASSUME AnswersInv, [Next]_vars PROVE AnswersInv'
  <1>1. \A a : Truthful(a) => Truthful(a)'
    BY NodeStep, TrueStays
  <1>2. \A a \in answers : Truthful(a)'
    BY <1>1 DEF AnswersInv
  <1>3. Truthful(report) /\ epoch' \in Nat /\ (pending' \union committed') \intersect Invalid = {}
    BY NodeStep DEF AnswersInv
  <1>4. CASE answers' \subseteq answers /\ UNCHANGED report
    BY <1>1, <1>2, <1>3, <1>4 DEF AnswersInv, Truthful
  <1>5. ASSUME NEW a \in answers, ReceiveAnswer(a) PROVE AnswersInv'
    <2>1. report' = a /\ answers' \subseteq answers
      BY <1>5 DEF ReceiveAnswer
    <2>2. QED BY <1>2, <1>3, <2>1 DEF AnswersInv, Truthful
  <1>6. ASSUME NEW r \in requests, HandleSubmit(r) PROVE AnswersInv'
    <2>1. PICK a : a = [tx |-> r.tx, port |-> r.port, status |-> Status(r.tx), epoch |-> epoch]
      OBVIOUS
    <2>2. Truthful(a)'
      BY <1>6, <2>1, AnswerIsTrue
    <2>3. answers' \subseteq answers \union {a} /\ UNCHANGED report
      BY <1>6, <2>1 DEF HandleSubmit
    <2>4. QED BY <1>1, <1>2, <1>3, <2>2, <2>3 DEF AnswersInv, Truthful
  <1>7. CASE Repeat
    <2>1. answers' \subseteq answers \union {report} /\ UNCHANGED report
      BY <1>7 DEF Repeat
    <2>2. QED BY <1>1, <1>2, <1>3, <2>1 DEF AnswersInv, Truthful
  <1>8. \/ answers' \subseteq answers /\ UNCHANGED report
        \/ \E a \in answers : ReceiveAnswer(a)
        \/ \E r \in requests : HandleSubmit(r)
        \/ Repeat
    BY DEF Next, vars, SubmitTx, DropAnswer, TimeOut, Produce, Restart, Lose
  <1>9. QED BY <1>4, <1>5, <1>6, <1>7, <1>8

-----------------------------------------------------------------------------
\* Answers are true while they are under way and when they are printed.
THEOREM AnswersInvariance == Spec => []AnswersInv
  <1>1. Init => AnswersInv
    BY DEF Init, AnswersInv, Truthful, None
  <1>2. AnswersInv /\ [Next]_vars => AnswersInv'
    BY AnswersStep
  <1>3. QED BY <1>1, <1>2, PTL DEF Spec

\* What submit-tx prints is true of the transaction it names, however late the
\* answer is, whatever was lost or repeated and however often the node restarted.
THEOREM ToldTheTruthHolds == Spec => []ToldTheTruth
  <1>1. AnswersInv => ToldTheTruth
    BY DEF AnswersInv, Truthful, ToldTheTruth
  <1>2. QED BY <1>1, AnswersInvariance, PTL

\* A valid transaction leaves the outbox only when it is in the chain.
NotForgotten == \A tx \in Txs \ Invalid : tx \in outbox \union committed

\* Running submit-tx again until the answer is final drops no valid transaction:
\* not on a late answer, nor on one that belongs to another run with the same port.
THEOREM OutboxKeeps == Spec => []NotForgotten
  <1>1. Init => NotForgotten
    BY DEF Init, NotForgotten
  <1>2. AnswersInv /\ NotForgotten /\ [Next]_vars => NotForgotten'
    <2> SUFFICES ASSUME AnswersInv, NotForgotten, [Next]_vars PROVE NotForgotten'
      OBVIOUS
    <2>1. committed \subseteq committed'
      BY NodeStep
    <2>2. CASE UNCHANGED outbox
      BY <2>1, <2>2 DEF NotForgotten
    <2>3. ASSUME NEW a \in answers, ReceiveAnswer(a) PROVE NotForgotten'
      <3>1. Truthful(a)
        BY DEF AnswersInv
      <3>2. \/ outbox' = outbox
            \/ a.status \in {"already committed", "invalid"} /\ outbox' = outbox \ {a.tx}
        BY <2>3 DEF ReceiveAnswer
      <3>3. QED BY <2>1, <3>1, <3>2 DEF Truthful, NotForgotten
    <2>4. UNCHANGED outbox \/ \E a \in answers : ReceiveAnswer(a)
      BY DEF Next, vars, SubmitTx, DropAnswer, TimeOut, HandleSubmit, Produce, Restart,
             Lose, Repeat
    <2>5. QED BY <2>2, <2>3, <2>4
  <1>3. QED BY <1>1, <1>2, AnswersInvariance, PTL DEF Spec
=============================================================================
