--------------------------- MODULE ScriptMachine ---------------------------
(***************************************************************************)
(* The script engine on its own: every script over a set of opcodes is     *)
(* composed opcode by opcode and evaluated for each of a set of inputs.    *)
(* Scripts grow until the engine rejects them for every input.             *)
(***************************************************************************)
EXTENDS ScriptEngine

CONSTANTS
    Ops,         \* the opcodes
    Contexts     \* the inputs: sighash, created_height, current_height

VARIABLE script

Verdict(ctx) == Eval(script, ctx)
Passes(ctx) == Verdict(ctx).result = "ok"

ScriptInit == script = << >>

Extend(op) ==
    /\ \E ctx \in Contexts : Passes(ctx)
    /\ script' = Append(script, op)

ScriptNext == \E op \in Ops : Extend(op)

-----------------------------------------------------------------------------
Positions(P(_)) == {i \in DOMAIN script : P(script[i])}
IsPush(op) == op.op = "PushBytes"
IsCheckSig(op) == op.op = "CheckSig"
IsLock(op) == op.op \in {"CheckTimeLock", "CheckRelativeTimeLock"}
IsHashLock(op) == op.op = "CheckHashLock"
IsMultiSig(op) == op.op = "CheckMultiSig"
IsKey(item) == item.t = "key"

PushedBefore(i, P(_)) == {j \in Positions(IsPush) : j < i /\ P(script[j].item)}

\* Signature checks before position i, counting each signature they need.
SignaturesNeeded(i) ==
    Cardinality({j \in Positions(IsCheckSig) : j <= i})
    + MapThenSumSet(LAMBDA j : script[j].threshold, {j \in Positions(IsMultiSig) : j <= i})

(***************************************************************************)
(* A script that passes holds, for every signature its checks ask for, a   *)
(* signature of its own over this input: no signature counts twice, none   *)
(* for another input counts, and every one is by a key the script lists.   *)
(***************************************************************************)
SignedForThisInput ==
    \A ctx \in Contexts : Passes(ctx) =>
        \A i \in DOMAIN script :
            LET keys == {script[j].item.v : j \in PushedBefore(i, IsKey)}
            IN  Cardinality(PushedBefore(i, LAMBDA x : /\ x.t = "sig"
                                                       /\ x.over = ctx.sighash
                                                       /\ x.v \in keys))
                >= SignaturesNeeded(i)

(***************************************************************************)
(* A script that passes has revealed a pre-image for every hash lock, and  *)
(* every height lock found a height on the stack that has been reached;    *)
(* counted as integers, not modulo the width of a height.                  *)
(***************************************************************************)
Reached(v, op, ctx) ==
    ctx.current_height >= v + (IF op.op = "CheckTimeLock" THEN 0 ELSE ctx.created_height)
LocksOpened ==
    \A ctx \in Contexts : Passes(ctx) =>
        /\ \A i \in Positions(IsHashLock) :
              \E j, k \in PushedBefore(i, LAMBDA x : TRUE) :
                 /\ j < k /\ script[j].item.t = "hash"
                 /\ script[j].item.v = Blake3("bytes", script[k].item)
        /\ \A i \in Positions(IsLock) :
              \E j \in PushedBefore(i, LAMBDA x : x.t = "u64") :
                 Reached(script[j].item.v, script[i], ctx)

(***************************************************************************)
(* The limits bound the work of an accepted script: the gas it used is the *)
(* price of every opcode and at most the budget, what it has pushed and    *)
(* not consumed fits the stack, no push and no script is too long.         *)
(***************************************************************************)
Consumed(i) ==
    CASE script[i].op \in {"CheckSig", "CheckHashLock"} -> 2
      [] script[i].op = "CheckMultiSig" -> script[i].threshold + script[i].total
      [] IsLock(script[i]) -> 1
      [] OTHER -> 0
WithinLimits ==
    \A ctx \in Contexts : Passes(ctx) =>
        /\ MapThenSumSet(LAMBDA i : GasCost(script[i]), DOMAIN script)
              = MaxGas - Verdict(ctx).gas
        /\ Verdict(ctx).gas >= 0
        /\ Cardinality(Positions(IsPush)) - MapThenSumSet(Consumed, DOMAIN script)
              = Len(Verdict(ctx).stack)
        /\ Len(Verdict(ctx).stack) <= MaxStackItems
        /\ \A i \in Positions(IsPush) : ItemLen(script[i].item) <= MaxPushBytes
        /\ Len(script) <= MaxScriptLen
=============================================================================
