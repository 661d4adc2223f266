---------------------------- MODULE ScriptEngine ----------------------------
(***************************************************************************)
(* DeterministicScriptEngine of qcoin-script: one pass over the opcodes    *)
(* with a stack and a gas meter; the first failing opcode ends the run.    *)
(*                                                                         *)
(* A stack item is a byte string in the code.  Here it is a record whose   *)
(* field t says what the bytes decode to: "u64" (8 bytes), "hash" (32      *)
(* bytes), "key", "sig", or "bytes" (anything else, len bytes long).       *)
(***************************************************************************)
EXTENDS Types, SequencesExt

CONSTANTS
    MaxGas,          \* ScriptEngineConfig: DEFAULT_MAX_GAS
    MaxStackItems,   \* DEFAULT_MAX_STACK_ITEMS
    MaxPushBytes,    \* DEFAULT_MAX_PUSH_BYTES
    MaxScriptLen,    \* DEFAULT_MAX_SCRIPT_LEN
    BaseCost, SigCost, HashCost,   \* the constants of gas_cost
    KeyBytes, SigBytes,            \* lengths of encoded keys and signatures
    HeightMod                      \* heights are u64: arithmetic is modulo this

ASSUME ScriptConstants ==
    /\ {MaxGas, MaxStackItems, MaxPushBytes, MaxScriptLen} \subseteq Nat
    /\ {BaseCost, SigCost, HashCost, KeyBytes, SigBytes} \subseteq Nat
    /\ HeightMod \in Nat \ {0}

(***************************************************************************)
(* Stack items and opcodes.                                                *)
(***************************************************************************)
U64(v)        == [t |-> "u64", v |-> v]
HashItem(d)   == [t |-> "hash", v |-> d]
KeyItem(k)    == [t |-> "key", v |-> k]
SigItem(k, m) == [t |-> "sig", v |-> k, over |-> m]
Bytes(n)      == [t |-> "bytes", v |-> n]

ItemLen(item) ==
    CASE item.t = "u64"  -> 8
      [] item.t = "hash" -> 32
      [] item.t = "key"  -> KeyBytes
      [] item.t = "sig"  -> SigBytes
      [] OTHER           -> item.v

PushBytes(item)      == [op |-> "PushBytes", item |-> item]
Nop                  == [op |-> "Nop"]
CheckSig             == [op |-> "CheckSig"]
CheckMultiSig(th, n) == [op |-> "CheckMultiSig", threshold |-> th, total |-> n]
CheckTimeLock        == [op |-> "CheckTimeLock"]
CheckRelativeTimeLock == [op |-> "CheckRelativeTimeLock"]
CheckHashLock        == [op |-> "CheckHashLock"]

ScriptHash(script) == Blake3("script", script)

GasCost(op) ==
    CASE op.op = "Nop"       -> 1
      [] op.op = "PushBytes" -> BaseCost + ItemLen(op.item)
      [] op.op = "CheckSig"  -> SigCost
      [] op.op = "CheckMultiSig" ->
            SigCost * (IF op.threshold > 1 THEN op.threshold ELSE 1)
      [] op.op \in {"CheckTimeLock", "CheckRelativeTimeLock"} -> BaseCost
      [] op.op = "CheckHashLock" -> HashCost

\* External: signature verification by the registered scheme.  Only the
\* holder of a key makes a signature that verifies under it.
Verify(key, message, sig) == sig.v = key.v /\ sig.over = message

(***************************************************************************)
(* The run so far: "ok" or the ScriptError, the stack (top last) and the   *)
(* gas that is left.                                                       *)
(***************************************************************************)
Running(stack, gas) == [result |-> "ok", stack |-> stack, gas |-> gas]
Fail(st, error) == [st EXCEPT !.result = error]

\* A mutant: one item too many fits.
MutPush(st, item) ==
    IF Len(st.stack) > MaxStackItems THEN Fail(st, "StackOverflow")
    ELSE [st EXCEPT !.stack = Append(@, item)]

Push(st, item) ==
    IF Len(st.stack) >= MaxStackItems THEN Fail(st, "StackOverflow")
    ELSE [st EXCEPT !.stack = Append(@, item)]

\* The i-th item that pop() returns, and the stack after n pops.
Popped(st, i) == st.stack[Len(st.stack) + 1 - i]
Drop(st, n) == [st EXCEPT !.stack = SubSeq(@, 1, Len(@) - n)]

\* A mutant: the key and the signature stay on the stack.
MutEvalCheckSig(st, ctx) ==
    IF Len(st.stack) < 2 THEN Fail(st, "StackUnderflow")
    ELSE IF /\ Popped(st, 1).t = "sig"
            /\ Popped(st, 2).t = "key"
            /\ Verify(Popped(st, 2), ctx.sighash, Popped(st, 1))
         THEN st
         ELSE Fail(st, "Evaluation")

EvalCheckSig(st, ctx) ==
    IF Len(st.stack) < 2 THEN Fail(st, "StackUnderflow")
    ELSE IF /\ Popped(st, 1).t = "sig"
            /\ Popped(st, 2).t = "key"
            /\ Verify(Popped(st, 2), ctx.sighash, Popped(st, 1))
         THEN Drop(st, 2)
         ELSE Fail(st, "Evaluation")

(***************************************************************************)
(* CheckMultiSig pops threshold signatures, then total keys, decoding each *)
(* as it is popped; signature i is verified against key i, so it is the    *)
(* keys nearest the top of the stack that have to have signed.             *)
(***************************************************************************)
EvalCheckMultiSig(st, op, ctx) ==
    LET th == op.threshold
        wanted(i) == IF i <= th THEN "sig" ELSE "key"
        bad == {i \in 1..(th + op.total) :
                   i > Len(st.stack) \/ Popped(st, i).t # wanted(i)}
        first == CHOOSE i \in bad : \A j \in bad : i <= j
    IN  IF th = 0 \/ op.total = 0 \/ th > op.total THEN Fail(st, "Evaluation")
        ELSE IF bad # {}
             THEN Fail(st, IF first > Len(st.stack) THEN "StackUnderflow"
                                                    ELSE "Evaluation")
        ELSE IF \E i \in 1..th :
                   ~Verify(Popped(st, th + i), ctx.sighash, Popped(st, i))
             THEN Fail(st, "Evaluation")
        ELSE Drop(st, th + op.total)

\* A mutant: the lock counts from the start of the chain.
MutEvalHeightLock(st, start, now) ==
    IF st.stack = << >> THEN Fail(st, "StackUnderflow")
    ELSE IF Popped(st, 1).t = "u64" /\ now >= Popped(st, 1).v
         THEN Drop(st, 1)
         ELSE Fail(st, "Evaluation")

\* A lock that pops one u64 and opens that many blocks after height start (0 for
\* an absolute lock); the sum is a u64.
EvalHeightLock(st, start, now) ==
    IF st.stack = << >> THEN Fail(st, "StackUnderflow")
    ELSE IF Popped(st, 1).t = "u64" /\ now >= (start + Popped(st, 1).v) % HeightMod
         THEN Drop(st, 1)
         ELSE Fail(st, "Evaluation")

EvalCheckHashLock(st) ==
    IF Len(st.stack) < 2 THEN Fail(st, "StackUnderflow")
    ELSE IF /\ Popped(st, 2).t = "hash"
            /\ Popped(st, 2).v = Blake3("bytes", Popped(st, 1))
         THEN Drop(st, 2)
         ELSE Fail(st, "Evaluation")

(***************************************************************************)
(* One opcode: its gas is charged first.                                   *)
(***************************************************************************)
EvalOp(st, op, ctx) ==
    LET cost == GasCost(op)
        paid == [st EXCEPT !.gas = @ - cost]
    IN  CASE st.result # "ok" -> st
          [] st.result = "ok" /\ op.op = "PushBytes"
                /\ ItemLen(op.item) > MaxPushBytes -> Fail(st, "Evaluation")
          [] OTHER ->
             IF cost > st.gas THEN Fail(st, "OutOfGas") ELSE
             CASE op.op = "PushBytes" -> Push(paid, op.item)
               [] op.op = "Nop" -> paid
               [] op.op = "CheckSig" -> EvalCheckSig(paid, ctx)
               [] op.op = "CheckMultiSig" -> EvalCheckMultiSig(paid, op, ctx)
               [] op.op = "CheckTimeLock" ->
                    EvalHeightLock(paid, 0, ctx.current_height)
               [] op.op = "CheckRelativeTimeLock" ->
                    EvalHeightLock(paid, ctx.created_height, ctx.current_height)
               [] op.op = "CheckHashLock" -> EvalCheckHashLock(paid)

(***************************************************************************)
(* ctx: the sighash of the input being spent, the height its output was    *)
(* created at and the height of the block.  The run succeeds when no       *)
(* opcode fails; what is left on the stack does not matter.                *)
(***************************************************************************)
Eval(script, ctx) ==
    IF Len(script) > MaxScriptLen
    THEN Fail(Running(<< >>, MaxGas), "ScriptTooLarge")
    ELSE FoldLeft(LAMBDA st, op : EvalOp(st, op, ctx),
                  Running(<< >>, MaxGas), script)
=============================================================================
