---------------------------- MODULE LedgerProofs ----------------------------
(***************************************************************************)
(* Facts about the functions of Ledger: what a loop over transactions      *)
(* computes, and how apply_transaction depends on the ledger.              *)
(***************************************************************************)
EXTENDS Ledger, NaturalsInduction, WellFoundedInduction, TLAPS

-----------------------------------------------------------------------------
(***************************************************************************)
(* Natural numbers and finite sets of them.                                *)
(***************************************************************************)
\* A non-empty set of naturals has a least element.
LEMMA NatLeast ==
    ASSUME NEW T \in SUBSET Nat, T # {}
    PROVE  \E m \in T : \A k \in T : m <= k
<1> DEFINE R == OpToRel(<, Nat)
<1>1. IsWellFoundedOn(R, Nat)
  BY NatLessThanWellFounded
<1>2. \A x, y \in Nat : x < y => <<x, y>> \in R
  BY DEF OpToRel
<1> HIDE DEF R
<1>3. PICK m \in T : \A y \in T : ~(<<y, m>> \in R)
  BY <1>1, WFMin
<1>4. \A k \in T : k \in Nat /\ ~(k < m)
  BY <1>2, <1>3
<1> QED
  BY <1>3, <1>4

\* Induction: a set that has zero and every successor has every natural.
LEMMA NatSet ==
    ASSUME NEW S \in SUBSET Nat, 0 \in S, \A n \in S : n + 1 \in S
    PROVE  S = Nat
<1> SUFFICES ASSUME Nat \ S # {} PROVE FALSE
  OBVIOUS
<1>1. PICK m \in Nat \ S : \A k \in Nat \ S : m <= k
  BY NatLeast
<1>2. m # 0 /\ m - 1 \in S
  BY <1>1
<1> QED
  BY <1>1, <1>2

\* The greatest of some of the positions 1 to k.
LEMMA MaxOfPositions ==
    ASSUME NEW k \in Nat, NEW s \in SUBSET (1..k), s # {}
    PROVE  Max(s) \in s /\ \A x \in s : x <= Max(s)
<1> DEFINE T == {k - x : x \in s}
<1>0. \A x \in s : x \in Nat /\ x <= k /\ k - x \in Nat /\ k - x \in T
  OBVIOUS
<1>1. T \in SUBSET Nat /\ T # {}
  BY <1>0
<1>2. PICK m \in T : \A j \in T : m <= j
  BY <1>1, NatLeast
<1>3. PICK x \in s : m = k - x
  BY <1>2
<1>4. \A y \in s : x >= y
  <2> TAKE y \in s
  <2>1. k - x <= k - y /\ x \in Nat /\ y \in Nat
    BY <1>0, <1>2, <1>3
  <2> HIDE DEF T
  <2> QED
    BY <2>1
<1>5. Max(s) \in s /\ \A y \in s : Max(s) >= y
  BY <1>4 DEF Max
<1> QED
  BY <1>5

\* Of the positions 1 to k + 1, the last one is the greatest of those that have it.
LEMMA MaxIsLast ==
    ASSUME NEW k \in Nat, NEW s \in SUBSET (1..(k + 1)), k + 1 \in s
    PROVE  Max(s) = k + 1
<1>1. k + 1 \in Nat
  OBVIOUS
<1>2. Max(s) \in s /\ \A x \in s : x <= Max(s)
  BY <1>1, MaxOfPositions
<1>3. Max(s) \in 1..(k + 1) /\ k + 1 <= Max(s)
  BY <1>2
<1> QED
  BY <1>3

-----------------------------------------------------------------------------
(***************************************************************************)
(* The loops over transactions.  FoldLeft takes the loop's body as an      *)
(* operator; here a loop is a tuple that Turn interprets, so that what     *)
(* holds of every loop is stated once.                                     *)
(***************************************************************************)
\* One turn of ApplyTransactions.
ApplyNext(acc, tx, height, chainId) ==
    IF acc.result = "ok" THEN ApplyTransaction(acc.ledger, tx, height, chainId) ELSE acc

\* One turn of Reconcile.
KeepNext(acc, tx, committed, height, chainId) ==
    IF TxId(tx) \in committed THEN acc
    ELSE LET applied == ApplyTransaction(acc.ledger, tx, height, chainId)
         IN  [ledger |-> applied.ledger,
              kept   |-> IF applied.result = "ok" THEN Append(acc.kept, tx)
                                                  ELSE acc.kept]

\* One turn of Totals for an asset, of the sum that does not wrap, of OutputAssets
\* and of InputAssets.
TotalNext(acc, x, assetId) ==
    IF x.asset_id = assetId THEN (acc + x.amount) % AmountMod ELSE acc
HeldNext(acc, x, assetId) ==
    IF x.asset_id = assetId THEN acc + x.amount ELSE acc
OutputNext(acc, output) == acc \o output.assets
InputNext(acc, key, utxos) == acc \o utxos[key].output.assets

ApplyLoop(height, chainId) == <<"apply", {}, height, chainId>>
KeepLoop(committed, height, chainId) == <<"keep", committed, height, chainId>>
TotalLoop(assetId) == <<"total", assetId>>
HeldLoop(assetId) == <<"held", assetId>>
OutputLoop == <<"output">>
InputLoop(utxos) == <<"input", utxos>>
ScriptLoop(ctx) == <<"script", ctx>>    \* of Eval, whose turn is EvalOp

Turn(loop, acc, x) ==
    CASE loop[1] = "apply"  -> ApplyNext(acc, x, loop[3], loop[4])
      [] loop[1] = "keep"   -> KeepNext(acc, x, loop[2], loop[3], loop[4])
      [] loop[1] = "total"  -> TotalNext(acc, x, loop[2])
      [] loop[1] = "held"   -> HeldNext(acc, x, loop[2])
      [] loop[1] = "output" -> OutputNext(acc, x)
      [] loop[1] = "input"  -> InputNext(acc, x, loop[2])
      [] loop[1] = "script" -> EvalOp(acc, x, loop[2])

\* g[s] is what the loop computes on the elements of seq at the positions s, which
\* are among the first k.
Computes(g, loop, base, seq, k) ==
    /\ g = [s \in SUBSET (1..k) |-> g[s]]
    /\ g[{}] = base
    /\ \A s \in SUBSET (1..k) :
          s # {} => g[s] = Turn(loop, g[s \ {Max(s)}], seq[Max(s)])

\* The recursion of FoldLeft has a solution.
LEMMA LoopExists ==
    ASSUME NEW loop, NEW base, NEW seq, NEW n \in Nat
    PROVE  \E g : Computes(g, loop, base, seq, n)
<1> DEFINE S == {k \in Nat : \E g : Computes(g, loop, base, seq, k)}
<1>1. 0 \in S
  <2> DEFINE g == [s \in SUBSET (1..0) |-> base]
  <2>1. SUBSET (1..0) = {{}}
    OBVIOUS
  <2>2. Computes(g, loop, base, seq, 0)
    BY <2>1 DEF Computes
  <2> QED
    BY <2>2
<1>2. ASSUME NEW k \in S
      PROVE  k + 1 \in S
  <2>1. PICK f : Computes(f, loop, base, seq, k)
    OBVIOUS
  <2> DEFINE g == [s \in SUBSET (1..(k + 1)) |->
                      IF k + 1 \in s THEN Turn(loop, f[s \ {k + 1}], seq[k + 1])
                                     ELSE f[s]]
  <2>2. \A s \in SUBSET (1..(k + 1)) :
            /\ k + 1 \in s => g[s] = Turn(loop, f[s \ {k + 1}], seq[k + 1])
            /\ k + 1 \notin s => g[s] = f[s]
    OBVIOUS
  <2>3. g = [s \in SUBSET (1..(k + 1)) |-> g[s]]
    OBVIOUS
  <2> HIDE DEF g
  <2>4. {} \in SUBSET (1..(k + 1)) /\ k + 1 \notin {} /\ g[{}] = base
    BY <2>1, <2>2 DEF Computes
  <2>5. ASSUME NEW s \in SUBSET (1..(k + 1)), s # {}
        PROVE  g[s] = Turn(loop, g[s \ {Max(s)}], seq[Max(s)])
    <3>1. CASE k + 1 \in s
      <4>1. Max(s) = k + 1
        BY <3>1, MaxIsLast
      <4>2. g[s \ {k + 1}] = f[s \ {k + 1}]
        BY <2>2
      <4> QED
        BY <3>1, <4>1, <4>2, <2>2
    <3>2. CASE k + 1 \notin s
      <4>1. s \in SUBSET (1..k)
        BY <3>2
      <4>2. g[s] = f[s] /\ g[s \ {Max(s)}] = f[s \ {Max(s)}]
        BY <3>2, <2>2
      <4> QED
        BY <4>1, <4>2, <2>1, <2>5 DEF Computes
    <3> QED
      BY <3>1, <3>2
  <2>6. Computes(g, loop, base, seq, k + 1)
    BY <2>3, <2>4, <2>5 DEF Computes
  <2> QED
    BY <2>6
<1> HIDE DEF S
<1>3. S \in SUBSET Nat
  BY DEF S
<1>4. S = Nat
  BY <1>1, <1>2, <1>3, NatSet
<1> QED
  BY <1>4 DEF S

\* The values after k = 0, 1, ..., n elements: each is one turn from the last.
Runs(g, loop, base, seq, n) ==
    /\ g[1..0] = base
    /\ \A k \in 1..n : g[1..k] = Turn(loop, g[1..(k - 1)], seq[k])

\* The value after k elements determines the value after k + 1.
LEMMA LoopTurn ==
    ASSUME NEW loop, NEW base, NEW seq, NEW n \in Nat, NEW g,
           Computes(g, loop, base, seq, n)
    PROVE  Runs(g, loop, base, seq, n)
<1>1. g[1..0] = base
  <2>1. 1..0 = {}
    OBVIOUS
  <2> QED
    BY <2>1 DEF Computes
<1>2. ASSUME NEW k \in 1..n
      PROVE  g[1..k] = Turn(loop, g[1..(k - 1)], seq[k])
  <2>1. k - 1 \in Nat /\ 1..k \in SUBSET (1..n) /\ 1..k # {}
    OBVIOUS
  <2>2. Max(1..k) = k
    <3>1. PICK j \in Nat : k = j + 1
      BY <2>1
    <3> QED
      BY <3>1, MaxIsLast
  <2>3. (1..k) \ {k} = 1..(k - 1)
    OBVIOUS
  <2> QED
    BY <2>1, <2>2, <2>3 DEF Computes
<1> QED
  BY <1>1, <1>2 DEF Runs

\* ApplyTransactions is the loop's value after the last transaction.
LEMMA ApplyIsLoop ==
    ASSUME NEW l, NEW txs, NEW height, NEW id, NEW n \in Nat, DOMAIN txs = 1..n
    PROVE  \E g : /\ Computes(g, ApplyLoop(height, id), [result |-> "ok", ledger |-> l], txs, n)
                  /\ ApplyTransactions(l, txs, height, id) = g[1..n]
<1> DEFINE base == [result |-> "ok", ledger |-> l]
           Body(g) == [s \in SUBSET (1..n) |->
                          IF s = {} THEN base
                          ELSE ApplyNext(g[s \ {Max(s)}], txs[Max(s)], height, id)]
           it == CHOOSE g : g = Body(g)
<1>1. PICK f : Computes(f, ApplyLoop(height, id), base, txs, n)
  BY LoopExists
<1>2. \A acc, x : Turn(ApplyLoop(height, id), acc, x) = ApplyNext(acc, x, height, id)
  BY DEF Turn, ApplyLoop
<1>3. f = Body(f)
  BY <1>1, <1>2 DEF Computes
<1>4. it = Body(it)
  BY <1>3
<1>5. ApplyTransactions(l, txs, height, id) = it[1..n]
  BY DEF ApplyTransactions, FoldLeft, MapThenFoldSet, ApplyNext
<1> HIDE DEF it
<1>6. Computes(it, ApplyLoop(height, id), base, txs, n)
  <2>1. it = [s \in SUBSET (1..n) |-> it[s]]
    BY <1>4
  <2>2. it[{}] = base
    BY <1>4
  <2>3. \A s \in SUBSET (1..n) : s # {} =>
            it[s] = ApplyNext(it[s \ {Max(s)}], txs[Max(s)], height, id)
    BY <1>4
  <2> QED
    BY <2>1, <2>2, <2>3, <1>2 DEF Computes
<1> QED
  BY <1>5, <1>6

\* The total of an asset in a list of amounts.
TotalOf(assetId, amounts) ==
    FoldLeft(LAMBDA sum, x : IF x.asset_id = assetId THEN (sum + x.amount) % AmountMod
                                                     ELSE sum,
             0, amounts)

\* The total of an asset is the loop's value after the last amount.
LEMMA TotalIsLoop ==
    ASSUME NEW assetId, NEW amounts, NEW n \in Nat, DOMAIN amounts = 1..n
    PROVE  \E g : /\ Computes(g, TotalLoop(assetId), 0, amounts, n)
                  /\ TotalOf(assetId, amounts) = g[1..n]
<1>0. PICK base, seq : base = 0 /\ seq = amounts
  OBVIOUS
<1> DEFINE Body(g) == [s \in SUBSET (1..n) |->
                          IF s = {} THEN base ELSE TotalNext(g[s \ {Max(s)}], seq[Max(s)], assetId)]
           it == CHOOSE g : g = Body(g)
<1>1. PICK f : Computes(f, TotalLoop(assetId), base, seq, n)
  BY LoopExists
<1>2. \A acc, x : Turn(TotalLoop(assetId), acc, x) = TotalNext(acc, x, assetId)
  BY DEF Turn, TotalLoop
<1>3. f = Body(f)
  BY <1>1, <1>2 DEF Computes
<1>4. it = Body(it)
  BY <1>3
<1>5. TotalOf(assetId, amounts) = it[1..n]
  BY <1>0 DEF TotalOf, TotalNext, FoldLeft, MapThenFoldSet
<1> HIDE DEF it
<1>6. Computes(it, TotalLoop(assetId), base, seq, n)
  <2>1. it = [s \in SUBSET (1..n) |-> it[s]]
    BY <1>4
  <2>2. it[{}] = base
    BY <1>4
  <2>3. \A s \in SUBSET (1..n) : s # {} => it[s] = TotalNext(it[s \ {Max(s)}], seq[Max(s)], assetId)
    BY <1>4
  <2>4. \A s \in SUBSET (1..n) : s # {} =>
            it[s] = Turn(TotalLoop(assetId), it[s \ {Max(s)}], seq[Max(s)])
    BY <2>3, <1>2
  <2> QED
    BY <2>1, <2>2, <2>4 DEF Computes
<1> QED
  BY <1>0, <1>5, <1>6

\* The same as a mathematical sum.
HeldOf(assetId, amounts) ==
    FoldLeft(LAMBDA sum, x : IF x.asset_id = assetId THEN sum + x.amount ELSE sum,
             0, amounts)

\* The sum of an asset is the loop's value after the last amount.
LEMMA HeldIsLoop ==
    ASSUME NEW assetId, NEW amounts, NEW n \in Nat, DOMAIN amounts = 1..n
    PROVE  \E g : /\ Computes(g, HeldLoop(assetId), 0, amounts, n)
                  /\ HeldOf(assetId, amounts) = g[1..n]
<1>0. PICK base, seq : base = 0 /\ seq = amounts
  OBVIOUS
<1> DEFINE Body(g) == [s \in SUBSET (1..n) |->
                          IF s = {} THEN base ELSE HeldNext(g[s \ {Max(s)}], seq[Max(s)], assetId)]
           it == CHOOSE g : g = Body(g)
<1>1. PICK f : Computes(f, HeldLoop(assetId), base, seq, n)
  BY LoopExists
<1>2. \A acc, x : Turn(HeldLoop(assetId), acc, x) = HeldNext(acc, x, assetId)
  BY DEF Turn, HeldLoop
<1>3. f = Body(f)
  BY <1>1, <1>2 DEF Computes
<1>4. it = Body(it)
  BY <1>3
<1>5. HeldOf(assetId, amounts) = it[1..n]
  BY <1>0 DEF HeldOf, HeldNext, FoldLeft, MapThenFoldSet
<1> HIDE DEF it
<1>6. Computes(it, HeldLoop(assetId), base, seq, n)
  <2>1. it = [s \in SUBSET (1..n) |-> it[s]]
    BY <1>4
  <2>2. it[{}] = base
    BY <1>4
  <2>3. \A s \in SUBSET (1..n) : s # {} => it[s] = HeldNext(it[s \ {Max(s)}], seq[Max(s)], assetId)
    BY <1>4
  <2>4. \A s \in SUBSET (1..n) : s # {} =>
            it[s] = Turn(HeldLoop(assetId), it[s \ {Max(s)}], seq[Max(s)])
    BY <2>3, <1>2
  <2> QED
    BY <2>1, <2>2, <2>4 DEF Computes
<1> QED
  BY <1>0, <1>5, <1>6

\* So are the assets of the outputs of a transaction,
LEMMA OutputsIsLoop ==
    ASSUME NEW tx, NEW n \in Nat, DOMAIN tx.core.outputs = 1..n
    PROVE  \E g : /\ Computes(g, OutputLoop, << >>, tx.core.outputs, n)
                  /\ OutputAssets(tx) = g[1..n]
<1>0. PICK base, seq : base = << >> /\ seq = tx.core.outputs
  OBVIOUS
<1> DEFINE Body(g) == [s \in SUBSET (1..n) |->
                          IF s = {} THEN base ELSE OutputNext(g[s \ {Max(s)}], seq[Max(s)])]
           it == CHOOSE g : g = Body(g)
<1>1. PICK f : Computes(f, OutputLoop, base, seq, n)
  BY LoopExists
<1>2. \A acc, x : Turn(OutputLoop, acc, x) = OutputNext(acc, x)
  BY DEF Turn, OutputLoop
<1>3. f = Body(f)
  BY <1>1, <1>2 DEF Computes
<1>4. it = Body(it)
  BY <1>3
<1>5. OutputAssets(tx) = it[1..n]
  BY <1>0 DEF OutputAssets, OutputNext, FoldLeft, MapThenFoldSet
<1> HIDE DEF it
<1>6. Computes(it, OutputLoop, base, seq, n)
  <2>1. it = [s \in SUBSET (1..n) |-> it[s]]
    BY <1>4
  <2>2. it[{}] = base
    BY <1>4
  <2>3. \A s \in SUBSET (1..n) : s # {} => it[s] = OutputNext(it[s \ {Max(s)}], seq[Max(s)])
    BY <1>4
  <2>4. \A s \in SUBSET (1..n) : s # {} =>
            it[s] = Turn(OutputLoop, it[s \ {Max(s)}], seq[Max(s)])
    BY <2>3, <1>2
  <2> QED
    BY <2>1, <2>2, <2>4 DEF Computes
<1> QED
  BY <1>0, <1>5, <1>6

\* the assets of its inputs,
LEMMA InputsIsLoop ==
    ASSUME NEW l, NEW tx, NEW n \in Nat, DOMAIN tx.core.inputs = 1..n
    PROVE  \E g : /\ Computes(g, InputLoop(l.utxos), << >>, tx.core.inputs, n)
                  /\ InputAssets(l, tx) = g[1..n]
<1>0. PICK base, seq : base = << >> /\ seq = tx.core.inputs
  OBVIOUS
<1> DEFINE Body(g) == [s \in SUBSET (1..n) |->
                          IF s = {} THEN base ELSE InputNext(g[s \ {Max(s)}], seq[Max(s)], l.utxos)]
           it == CHOOSE g : g = Body(g)
<1>1. PICK f : Computes(f, InputLoop(l.utxos), base, seq, n)
  BY LoopExists
<1>2. \A acc, x : Turn(InputLoop(l.utxos), acc, x) = InputNext(acc, x, l.utxos)
  BY DEF Turn, InputLoop
<1>3. f = Body(f)
  BY <1>1, <1>2 DEF Computes
<1>4. it = Body(it)
  BY <1>3
<1>5. InputAssets(l, tx) = it[1..n]
  BY <1>0 DEF InputAssets, InputNext, FoldLeft, MapThenFoldSet
<1> HIDE DEF it
<1>6. Computes(it, InputLoop(l.utxos), base, seq, n)
  <2>1. it = [s \in SUBSET (1..n) |-> it[s]]
    BY <1>4
  <2>2. it[{}] = base
    BY <1>4
  <2>3. \A s \in SUBSET (1..n) : s # {} => it[s] = InputNext(it[s \ {Max(s)}], seq[Max(s)], l.utxos)
    BY <1>4
  <2>4. \A s \in SUBSET (1..n) : s # {} =>
            it[s] = Turn(InputLoop(l.utxos), it[s \ {Max(s)}], seq[Max(s)])
    BY <2>3, <1>2
  <2> QED
    BY <2>1, <2>2, <2>4 DEF Computes
<1> QED
  BY <1>0, <1>5, <1>6

\* and the state of the script engine after the last opcode.
LEMMA EvalIsLoop ==
    ASSUME NEW ctx, NEW script, ~(Len(script) > MaxScriptLen), NEW n \in Nat, DOMAIN script = 1..n
    PROVE  \E g : /\ Computes(g, ScriptLoop(ctx), Running(<< >>, MaxGas), script, n)
                  /\ Eval(script, ctx) = g[1..n]
<1>0. PICK base, seq : base = Running(<< >>, MaxGas) /\ seq = script
  OBVIOUS
<1> DEFINE Body(g) == [s \in SUBSET (1..n) |->
                          IF s = {} THEN base ELSE EvalOp(g[s \ {Max(s)}], seq[Max(s)], ctx)]
           it == CHOOSE g : g = Body(g)
<1>1. PICK f : Computes(f, ScriptLoop(ctx), base, seq, n)
  BY LoopExists
<1>2. \A acc, x : Turn(ScriptLoop(ctx), acc, x) = EvalOp(acc, x, ctx)
  BY DEF Turn, ScriptLoop
<1>3. f = Body(f)
  BY <1>1, <1>2 DEF Computes
<1>4. it = Body(it)
  BY <1>3
<1>5. Eval(script, ctx) = it[1..n]
  BY <1>0 DEF Eval, FoldLeft, MapThenFoldSet
<1> HIDE DEF it
<1>6. Computes(it, ScriptLoop(ctx), base, seq, n)
  <2>1. it = [s \in SUBSET (1..n) |-> it[s]]
    BY <1>4
  <2>2. it[{}] = base
    BY <1>4
  <2>3. \A s \in SUBSET (1..n) : s # {} => it[s] = EvalOp(it[s \ {Max(s)}], seq[Max(s)], ctx)
    BY <1>4
  <2>4. \A s \in SUBSET (1..n) : s # {} =>
            it[s] = Turn(ScriptLoop(ctx), it[s \ {Max(s)}], seq[Max(s)])
    BY <2>3, <1>2
  <2> QED
    BY <2>1, <2>2, <2>4 DEF Computes
<1> QED
  BY <1>0, <1>5, <1>6

\* Loops over sequences with the same beginning agree there.
LEMMA LoopsAgree ==
    ASSUME NEW loop, NEW base, NEW s, NEW t, NEW m \in Nat, NEW n \in Nat, NEW f, NEW g,
           Computes(f, loop, base, s, m), Computes(g, loop, base, t, n),
           m <= n, \A i \in 1..m : s[i] = t[i]
    PROVE  f[1..m] = g[1..m]
<1> DEFINE S == {k \in Nat : k <= m => f[1..k] = g[1..k]}
<1>0. Runs(f, loop, base, s, m) /\ Runs(g, loop, base, t, n)
  BY LoopTurn
<1>1. 0 \in S
  BY <1>0 DEF Runs
<1>2. ASSUME NEW k \in S
      PROVE  k + 1 \in S
  <2>1. SUFFICES ASSUME k + 1 <= m PROVE f[1..(k + 1)] = g[1..(k + 1)]
    OBVIOUS
  <2>2. k + 1 \in 1..m /\ k + 1 \in 1..n /\ (k + 1) - 1 = k /\ f[1..k] = g[1..k]
    BY <2>1
  <2>3. /\ f[1..(k + 1)] = Turn(loop, f[1..k], s[k + 1])
        /\ g[1..(k + 1)] = Turn(loop, g[1..k], t[k + 1])
    BY <1>0, <2>2 DEF Runs
  <2> QED
    BY <2>2, <2>3
<1> HIDE DEF S
<1>3. S \in SUBSET Nat
  BY DEF S
<1>4. S = Nat
  BY <1>1, <1>2, <1>3, NatSet
<1> QED
  BY <1>4 DEF S

\* No transaction leaves the ledger as it is.
LEMMA ApplyNone ==
    ASSUME NEW l, NEW height, NEW id
    PROVE  ApplyTransactions(l, << >>, height, id) = [result |-> "ok", ledger |-> l]
<1>1. DOMAIN << >> = 1..0
  OBVIOUS
<1>2. PICK g : /\ Computes(g, ApplyLoop(height, id), [result |-> "ok", ledger |-> l], << >>, 0)
               /\ ApplyTransactions(l, << >>, height, id) = g[1..0]
  BY <1>1, ApplyIsLoop
<1>3. Runs(g, ApplyLoop(height, id), [result |-> "ok", ledger |-> l], << >>, 0)
  BY <1>2, LoopTurn
<1> QED
  BY <1>2, <1>3 DEF Runs

\* The last transaction is applied to what the ones before it leave.
LEMMA ApplyLast ==
    ASSUME NEW l, NEW height, NEW id, NEW S, NEW txs \in Seq(S), NEW tx
    PROVE  ApplyTransactions(l, Append(txs, tx), height, id)
             = ApplyNext(ApplyTransactions(l, txs, height, id), tx, height, id)
<1> DEFINE base == [result |-> "ok", ledger |-> l]
           loop == ApplyLoop(height, id)
           all == Append(txs, tx)
           n == Len(txs)
<1>1. /\ n \in Nat /\ n + 1 \in Nat /\ DOMAIN txs = 1..n /\ DOMAIN all = 1..(n + 1)
      /\ all[n + 1] = tx /\ \A i \in 1..n : txs[i] = all[i]
  <2>1. txs \in Seq(S \cup {tx}) /\ tx \in S \cup {tx}
    OBVIOUS
  <2> QED
    BY <2>1
<1> HIDE DEF base, all, n
<1>2. PICK f : /\ Computes(f, loop, base, txs, n)
               /\ ApplyTransactions(l, txs, height, id) = f[1..n]
  BY <1>1, ApplyIsLoop DEF base
<1>3. PICK g : /\ Computes(g, loop, base, all, n + 1)
               /\ ApplyTransactions(l, all, height, id) = g[1..(n + 1)]
  BY <1>1, ApplyIsLoop DEF base
<1> HIDE DEF loop
<1>4. f[1..n] = g[1..n]
  <2>1. n <= n + 1
    BY <1>1
  <2> QED
    BY <2>1, <1>1, <1>2, <1>3, LoopsAgree
<1>5. g[1..(n + 1)] = Turn(loop, g[1..n], tx)
  <2>1. Runs(g, loop, base, all, n + 1)
    BY <1>1, <1>3, LoopTurn
  <2>2. n + 1 \in 1..(n + 1) /\ (n + 1) - 1 = n
    BY <1>1
  <2> QED
    BY <2>1, <2>2, <1>1 DEF Runs
<1>6. Turn(loop, g[1..n], tx) = ApplyNext(g[1..n], tx, height, id)
  BY DEF Turn, loop, ApplyLoop
<1> QED
  BY <1>2, <1>3, <1>4, <1>5, <1>6 DEF all

-----------------------------------------------------------------------------
(***************************************************************************)
(* apply_transaction looks at the registered assets only to refuse to      *)
(* create one of them again.                                               *)
(***************************************************************************)
IsLedger(l) == l = [utxos |-> l.utxos, assets |-> l.assets]

InputAssetsOf(utxos, tx) ==
    FoldLeft(LAMBDA all, key : all \o utxos[key].output.assets, << >>, tx.core.inputs)

\* The checks on the inputs, and their assets, depend on the outputs alone.
LEMMA SameUtxos ==
    ASSUME NEW l, NEW m, l.utxos = m.utxos, NEW tx, NEW height, NEW id
    PROVE  /\ CheckInputs(l, tx, height, id) = CheckInputs(m, tx, height, id)
           /\ InputAssets(l, tx) = InputAssets(m, tx)
           /\ \A a : IssuerAuthorized(l, tx, a) <=> IssuerAuthorized(m, tx, a)
<1>1. \A i : ScriptCtx(l, tx, i, height, id) = ScriptCtx(m, tx, i, height, id)
  BY DEF ScriptCtx
<1>2. \A i : CheckInput(l, tx, i, height, id) = CheckInput(m, tx, i, height, id)
  BY <1>1 DEF CheckInput
<1>3. CheckInputs(l, tx, height, id) = CheckInputs(m, tx, height, id)
  <2> DEFINE badL == {i \in DOMAIN tx.core.inputs : CheckInput(l, tx, i, height, id) # "ok"}
             badM == {i \in DOMAIN tx.core.inputs : CheckInput(m, tx, i, height, id) # "ok"}
             firstL == CHOOSE i \in badL : \A j \in badL : i <= j
             firstM == CHOOSE i \in badM : \A j \in badM : i <= j
  <2>1. badL = badM
    BY <1>2
  <2>2. firstL = firstM
    BY <2>1
  <2>3. /\ CheckInputs(l, tx, height, id)
             = IF badL = {} THEN "ok" ELSE CheckInput(l, tx, firstL, height, id)
        /\ CheckInputs(m, tx, height, id)
             = IF badM = {} THEN "ok" ELSE CheckInput(m, tx, firstM, height, id)
    BY DEF CheckInputs
  <2> HIDE DEF badL, badM, firstL, firstM
  <2> QED
    BY <1>2, <2>1, <2>2, <2>3
<1>4. InputAssets(l, tx) = InputAssets(m, tx)
  <2>1. InputAssets(l, tx) = InputAssetsOf(l.utxos, tx)
    BY DEF InputAssets, InputAssetsOf
  <2>2. InputAssets(m, tx) = InputAssetsOf(m.utxos, tx)
    BY DEF InputAssets, InputAssetsOf
  <2> QED
    BY <2>1, <2>2
<1>5. \A a : IssuerAuthorized(l, tx, a) <=> IssuerAuthorized(m, tx, a)
  BY DEF IssuerAuthorized
<1> QED
  BY <1>3, <1>4, <1>5

\* What a transaction needs to be applied.
AssetIdOf(tx, id) == DeriveAssetId(tx.core.kind.definition, id)

Conserved(l, tx, id) ==
    LET a == AssetIdOf(tx, id)
        i == Totals(InputAssets(l, tx))
        o == Totals(OutputAssets(tx))
    IN  IF IsCreate(tx) THEN Conserves(Without(i, a), Without(o, a)) ELSE Conserves(i, o)

MintAllowed(l, tx, id) ==
    CheckMint(l, tx, AssetIdOf(tx, id), Totals(InputAssets(l, tx)),
              Totals(OutputAssets(tx))) = "ok"

Applicable(l, tx, height, id) ==
    /\ IsCreate(tx) => CheckNewAsset(l, tx, id) = "ok"
    /\ CheckInputs(l, tx, height, id) = "ok"
    /\ IsCreate(tx) => MintAllowed(l, tx, id)
    /\ Conserved(l, tx, id)

\* A transaction that cannot be applied leaves the outputs alone; one that can
\* spends and creates.  Either may register the asset it creates, and nothing
\* else.
LEMMA ApplyShape ==
    ASSUME NEW l, IsLedger(l), NEW tx, NEW height, NEW id
    PROVE  LET r == ApplyTransaction(l, tx, height, id)
           IN  /\ IsLedger(r.ledger)
               /\ r.result = "ok" <=> Applicable(l, tx, height, id)
               /\ r.ledger.utxos = IF r.result = "ok" THEN SpendAndCreate(l.utxos, tx, height)
                                                      ELSE l.utxos
               /\ DOMAIN l.assets \subseteq DOMAIN r.ledger.assets
               /\ r.result = "ok" =>
                     DOMAIN r.ledger.assets
                       = DOMAIN l.assets \cup (IF IsCreate(tx) THEN {AssetIdOf(tx, id)} ELSE {})
<1> DEFINE a == AssetIdOf(tx, id)
           newAsset == IF IsCreate(tx) THEN CheckNewAsset(l, tx, id) ELSE "ok"
           inputs == CheckInputs(l, tx, height, id)
           inTotals == Totals(InputAssets(l, tx))
           outTotals == Totals(OutputAssets(tx))
           mint == IF IsCreate(tx) THEN CheckMint(l, tx, a, inTotals, outTotals) ELSE "ok"
           assets == IF IsCreate(tx)
                     THEN [b \in DOMAIN l.assets \cup {a} |->
                              IF b = a THEN tx.core.kind.definition ELSE l.assets[b]]
                     ELSE l.assets
           conserves == Conserved(l, tx, id)
           r == ApplyTransaction(l, tx, height, id)
<1>1. r = IF newAsset # "ok" THEN [result |-> newAsset, ledger |-> l]
          ELSE IF inputs # "ok" THEN [result |-> inputs, ledger |-> l]
          ELSE IF mint # "ok" THEN [result |-> mint, ledger |-> l]
          ELSE IF ~conserves
               THEN [result |-> "AssetConservationViolation",
                     ledger |-> [utxos |-> l.utxos, assets |-> assets]]
          ELSE [result |-> "ok",
                ledger |-> [utxos |-> SpendAndCreate(l.utxos, tx, height), assets |-> assets]]
  <2> DEFINE registered == IF IsCreate(tx)
                           THEN [l EXCEPT !.assets =
                                   [b \in DOMAIN @ \cup {a} |->
                                       IF b = a THEN tx.core.kind.definition ELSE @[b]]]
                           ELSE l
             spent == [registered EXCEPT !.utxos = SpendAndCreate(@, tx, height)]
  <2>1. r = IF newAsset # "ok" THEN [result |-> newAsset, ledger |-> l]
            ELSE IF inputs # "ok" THEN [result |-> inputs, ledger |-> l]
            ELSE IF mint # "ok" THEN [result |-> mint, ledger |-> l]
            ELSE IF ~conserves
                 THEN [result |-> "AssetConservationViolation", ledger |-> registered]
            ELSE [result |-> "ok", ledger |-> spent]
    BY DEF ApplyTransaction, Conserved, AssetIdOf
  <2>2. PICK u, d : l = [utxos |-> u, assets |-> d]
    BY DEF IsLedger
  <2>3. registered = [utxos |-> l.utxos, assets |-> assets]
    BY <2>2
  <2>4. spent = [utxos |-> SpendAndCreate(l.utxos, tx, height), assets |-> assets]
    <3> HIDE DEF registered, assets
    <3> QED
      BY <2>3
  <2> HIDE DEF registered, spent, newAsset, inputs, mint, conserves, assets, r
  <2> QED
    BY <2>1, <2>3, <2>4
<1>2. Applicable(l, tx, height, id)
        <=> newAsset = "ok" /\ inputs = "ok" /\ mint = "ok" /\ conserves
  BY DEF Applicable, MintAllowed
<1>3. /\ DOMAIN l.assets \subseteq DOMAIN assets
      /\ DOMAIN assets = DOMAIN l.assets \cup (IF IsCreate(tx) THEN {a} ELSE {})
  OBVIOUS
<1> HIDE DEF newAsset, inputs, mint, conserves, assets, r
<1>4. /\ IsLedger(r.ledger)
      /\ r.result = "ok" <=> Applicable(l, tx, height, id)
      /\ r.ledger.utxos = IF r.result = "ok" THEN SpendAndCreate(l.utxos, tx, height)
                                             ELSE l.utxos
      /\ DOMAIN l.assets \subseteq DOMAIN r.ledger.assets
      /\ r.result = "ok" => DOMAIN r.ledger.assets = DOMAIN assets
  BY <1>1, <1>2, <1>3 DEF IsLedger
<1> QED
  BY <1>3, <1>4 DEF r

\* m is l without some of its registered assets.
FewerAssets(m, l) ==
    IsLedger(m) /\ IsLedger(l) /\ m.utxos = l.utxos /\ DOMAIN m.assets \subseteq DOMAIN l.assets

\* An asset that a rejected transaction left behind never makes another
\* transaction apply: without it, what applied still applies, with the same
\* outputs.
LEMMA ResidueIsHarmless ==
    ASSUME NEW l, NEW m, FewerAssets(m, l), NEW tx, NEW height, NEW id,
           ApplyTransaction(l, tx, height, id).result = "ok"
    PROVE  /\ ApplyTransaction(m, tx, height, id).result = "ok"
           /\ FewerAssets(ApplyTransaction(m, tx, height, id).ledger,
                          ApplyTransaction(l, tx, height, id).ledger)
<1>1. IsLedger(l) /\ IsLedger(m) /\ m.utxos = l.utxos
      /\ DOMAIN m.assets \subseteq DOMAIN l.assets
  BY DEF FewerAssets
<1>2. Applicable(l, tx, height, id)
  BY <1>1, ApplyShape
<1>3. /\ CheckInputs(l, tx, height, id) = CheckInputs(m, tx, height, id)
      /\ InputAssets(l, tx) = InputAssets(m, tx)
      /\ \A a : IssuerAuthorized(l, tx, a) <=> IssuerAuthorized(m, tx, a)
  BY <1>1, SameUtxos
<1>4. CheckNewAsset(l, tx, id) = "ok" => CheckNewAsset(m, tx, id) = "ok"
  BY <1>1 DEF CheckNewAsset
<1>5. MintAllowed(l, tx, id) <=> MintAllowed(m, tx, id)
  BY <1>3 DEF MintAllowed, CheckMint
<1>6. Conserved(l, tx, id) <=> Conserved(m, tx, id)
  BY <1>3 DEF Conserved
<1>7. Applicable(m, tx, height, id)
  BY <1>2, <1>3, <1>4, <1>5, <1>6 DEF Applicable
<1> DEFINE p == ApplyTransaction(l, tx, height, id)
           q == ApplyTransaction(m, tx, height, id)
           new == IF IsCreate(tx) THEN {AssetIdOf(tx, id)} ELSE {}
<1>8. /\ IsLedger(p.ledger) /\ p.ledger.utxos = SpendAndCreate(l.utxos, tx, height)
      /\ DOMAIN p.ledger.assets = DOMAIN l.assets \cup new
  BY <1>1, ApplyShape
<1>9. /\ q.result = "ok"
      /\ IsLedger(q.ledger) /\ q.ledger.utxos = SpendAndCreate(m.utxos, tx, height)
      /\ DOMAIN q.ledger.assets = DOMAIN m.assets \cup new
  BY <1>1, <1>7, ApplyShape
<1> HIDE DEF p, q, new
<1>10. FewerAssets(q.ledger, p.ledger)
  BY <1>1, <1>8, <1>9 DEF FewerAssets
<1> QED
  BY <1>9, <1>10 DEF p, q

-----------------------------------------------------------------------------
(***************************************************************************)
(* Lists, and what the loops make of them.                                 *)
(***************************************************************************)
IsList(s) == s \in Seq(ToSet(s))

\* A list has positions one to its length.
LEMMA ListDomain ==
    ASSUME NEW s, IsList(s)
    PROVE  Len(s) \in Nat /\ DOMAIN s = 1..Len(s)
  BY DEF IsList

\* Whatever has such positions is a list.
LEMMA ListFrom ==
    ASSUME NEW n \in Nat, NEW s, s = [i \in 1..n |-> s[i]]
    PROVE  IsList(s) /\ Len(s) = n /\ DOMAIN s = 1..n
  <1>1. \A i \in 1..n : s[i] \in ToSet(s)
    BY DEF ToSet
  <1>2. s \in [1..n -> ToSet(s)]
    BY <1>1
  <1>3. s \in Seq(ToSet(s)) /\ Len(s) = n /\ DOMAIN s = 1..n
    BY <1>2
  <1>4. QED BY <1>3 DEF IsList

\* The concatenation of two lists is a list of the elements of both.
LEMMA ConcatLists ==
    ASSUME NEW s, NEW t, IsList(s), IsList(t)
    PROVE  IsList(s \o t) /\ ToSet(s \o t) = ToSet(s) \union ToSet(t)
  <1> DEFINE S == ToSet(s) \union ToSet(t)
  <1>1. s \in Seq(ToSet(s)) /\ t \in Seq(ToSet(t))
    BY DEF IsList
  <1>2. s \in Seq(S) /\ t \in Seq(S)
    <2>1. ToSet(s) \subseteq S /\ ToSet(t) \subseteq S
      OBVIOUS
    <2> HIDE DEF S
    <2>2. QED BY <1>1, <2>1
  <1>3. /\ Len(s) \in Nat /\ Len(t) \in Nat
        /\ DOMAIN s = 1..Len(s) /\ DOMAIN t = 1..Len(t)
        /\ DOMAIN (s \o t) = 1..(Len(s) + Len(t))
        /\ \A i \in 1..(Len(s) + Len(t)) :
              (s \o t)[i] = IF i <= Len(s) THEN s[i] ELSE t[i - Len(s)]
    BY <1>2
  <1>4. IsList(s \o t)
    <2>1. Len(s) + Len(t) \in Nat
      BY <1>3
    <2>2. s \o t \in Seq(S) /\ Len(s \o t) = Len(s) + Len(t)
      BY <1>2
    <2>3. PICK r : r = s \o t
      OBVIOUS
    <2>4. PICK n \in Nat : n = Len(s) + Len(t)
      BY <2>1
    <2>5. r \in Seq(S) /\ Len(r) = n
      BY <2>2, <2>3, <2>4
    <2> HIDE DEF S
    <2>6. r = [i \in 1..n |-> r[i]]
      BY <2>5
    <2>7. QED BY <2>3, <2>6, ListFrom
  <1>5. ToSet(s \o t) \subseteq S
    <2> SUFFICES ASSUME NEW i \in 1..(Len(s) + Len(t)) PROVE (s \o t)[i] \in S
      BY <1>3 DEF ToSet
    <2>1. CASE i <= Len(s)
      <3>1. i \in DOMAIN s /\ (s \o t)[i] = s[i]
        BY <1>3, <2>1
      <3>2. QED BY <3>1 DEF ToSet
    <2>2. CASE ~(i <= Len(s))
      <3>1. i - Len(s) \in DOMAIN t /\ (s \o t)[i] = t[i - Len(s)]
        BY <1>3, <2>2
      <3>2. QED BY <3>1 DEF ToSet
    <2>3. QED BY <2>1, <2>2
  <1>6. S \subseteq ToSet(s \o t)
    <2>1. ASSUME NEW i \in DOMAIN s PROVE s[i] \in ToSet(s \o t)
      <3>1. i \in DOMAIN (s \o t) /\ (s \o t)[i] = s[i]
        BY <1>3
      <3>2. QED BY <3>1 DEF ToSet
    <2>2. ASSUME NEW i \in DOMAIN t PROVE t[i] \in ToSet(s \o t)
      <3>1. /\ i + Len(s) \in DOMAIN (s \o t) /\ (s \o t)[i + Len(s)] = t[i]
        <4>1. i + Len(s) \in 1..(Len(s) + Len(t)) /\ ~(i + Len(s) <= Len(s))
              /\ (i + Len(s)) - Len(s) = i
          BY <1>3
        <4>2. QED BY <1>3, <4>1
      <3>2. QED BY <3>1 DEF ToSet
    <2>3. QED BY <2>1, <2>2 DEF ToSet
  <1>7. QED BY <1>4, <1>5, <1>6


\* The turns of a loop join the first n items, which are lists.
JoinsItems(loop, seq, items, n) ==
    \A i \in 1..n : IsList(items[i]) /\ \A acc : Turn(loop, acc, seq[i]) = acc \o items[i]

\* A list of the elements of the first n items.
AllOf(list, items, n) ==
    /\ IsList(list)
    /\ \A x : x \in ToSet(list) <=> \E i \in 1..n : x \in ToSet(items[i])

\* A loop that joins lists returns a list of all their elements.
LEMMA JoinLoop ==
    ASSUME NEW loop, NEW seq, NEW n \in Nat, NEW base, base = << >>,
           NEW g, Computes(g, loop, base, seq, n), NEW items,
           JoinsItems(loop, seq, items, n)
    PROVE  AllOf(g[1..n], items, n)
<1>1. Runs(g, loop, base, seq, n)
  BY LoopTurn
<1> DEFINE Joined(k) == /\ IsList(g[1..k])
                        /\ \A x : x \in ToSet(g[1..k]) <=> \E i \in 1..k : x \in ToSet(items[i])
           S == {k \in Nat : k <= n => Joined(k)}
<1>2. 0 \in S
  <2>1. g[1..0] = << >>
    BY <1>1 DEF Runs
  <2>2. IsList(<< >>) /\ ToSet(<< >>) = {} /\ 1..0 = {}
    BY DEF IsList, ToSet
  <2>3. Joined(0)
    BY <2>1, <2>2
  <2> HIDE DEF Joined
  <2> QED
    BY <2>3
<1>3. ASSUME NEW k \in S PROVE k + 1 \in S
  <2>1. k \in Nat
    OBVIOUS
  <2> SUFFICES ASSUME k + 1 <= n PROVE Joined(k + 1)
    OBVIOUS
  <2>2. k + 1 \in 1..n /\ (k + 1) - 1 = k /\ k <= n
    BY <2>1
  <2>3. Joined(k)
    BY <2>2
  <2>4. g[1..(k + 1)] = Turn(loop, g[1..k], seq[k + 1])
    BY <1>1, <2>2 DEF Runs
  <2>5. g[1..(k + 1)] = g[1..k] \o items[k + 1] /\ IsList(items[k + 1])
    BY <2>2, <2>4 DEF JoinsItems
  <2>6. /\ IsList(g[1..(k + 1)])
        /\ ToSet(g[1..(k + 1)]) = ToSet(g[1..k]) \union ToSet(items[k + 1])
    BY <2>3, <2>5, ConcatLists
  <2>7. \A i : i \in 1..(k + 1) <=> i \in 1..k \/ i = k + 1
    BY <2>1
  <2> QED
    BY <2>3, <2>6, <2>7
<1>4. S \in SUBSET Nat
  OBVIOUS
<1> HIDE DEF S
<1>5. S = Nat
  BY <1>2, <1>3, <1>4, NatSet
<1>6. n \in S
  BY <1>5
<1> HIDE DEF Joined
<1>7. Joined(n)
  BY <1>6 DEF S
<1> QED
  BY <1>7 DEF Joined, AllOf

\* The assets of a transaction's outputs, in one list.
LEMMA OutputsJoined ==
    ASSUME NEW tx, IsList(tx.core.outputs),
           \A i \in DOMAIN tx.core.outputs : IsList(tx.core.outputs[i].assets)
    PROVE  /\ IsList(OutputAssets(tx))
           /\ \A x : x \in ToSet(OutputAssets(tx)) <=>
                 \E i \in DOMAIN tx.core.outputs : x \in ToSet(tx.core.outputs[i].assets)
<1>1. PICK n \in Nat : DOMAIN tx.core.outputs = 1..n
  BY ListDomain
<1>2. PICK g : /\ Computes(g, OutputLoop, << >>, tx.core.outputs, n)
               /\ OutputAssets(tx) = g[1..n]
  BY <1>1, OutputsIsLoop
<1>3. PICK items : items = [i \in 1..n |-> tx.core.outputs[i].assets]
  OBVIOUS
<1>4. \A i \in 1..n : items[i] = tx.core.outputs[i].assets
  BY <1>3
<1>5. \A acc, x : Turn(OutputLoop, acc, x) = acc \o x.assets
  BY DEF Turn, OutputLoop, OutputNext
<1>6. JoinsItems(OutputLoop, tx.core.outputs, items, n)
  BY <1>1, <1>4, <1>5 DEF JoinsItems
<1>7. /\ IsList(g[1..n])
      /\ \A x : x \in ToSet(g[1..n]) <=> \E i \in 1..n : x \in ToSet(items[i])
  <2>1. PICK base : base = << >>
    OBVIOUS
  <2>2. Computes(g, OutputLoop, base, tx.core.outputs, n)
    BY <1>2, <2>1
  <2>3. AllOf(g[1..n], items, n)
    BY <1>6, <2>1, <2>2, JoinLoop
  <2> QED
    BY <2>3 DEF AllOf
<1> QED
  BY <1>1, <1>2, <1>4, <1>7

\* The assets of its inputs, in one list.
LEMMA InputsJoined ==
    ASSUME NEW l, NEW tx, IsList(tx.core.inputs),
           \A i \in DOMAIN tx.core.inputs : IsList(l.utxos[tx.core.inputs[i]].output.assets)
    PROVE  /\ IsList(InputAssets(l, tx))
           /\ \A x : x \in ToSet(InputAssets(l, tx)) <=>
                 \E i \in DOMAIN tx.core.inputs :
                    x \in ToSet(l.utxos[tx.core.inputs[i]].output.assets)
<1>1. PICK n \in Nat : DOMAIN tx.core.inputs = 1..n
  BY ListDomain
<1>2. PICK g : /\ Computes(g, InputLoop(l.utxos), << >>, tx.core.inputs, n)
               /\ InputAssets(l, tx) = g[1..n]
  BY <1>1, InputsIsLoop
<1>3. PICK items : items = [i \in 1..n |-> l.utxos[tx.core.inputs[i]].output.assets]
  OBVIOUS
<1>4. \A i \in 1..n : items[i] = l.utxos[tx.core.inputs[i]].output.assets
  BY <1>3
<1>5. \A acc, x : Turn(InputLoop(l.utxos), acc, x) = acc \o l.utxos[x].output.assets
  BY DEF Turn, InputLoop, InputNext
<1>6. JoinsItems(InputLoop(l.utxos), tx.core.inputs, items, n)
  <2> SUFFICES ASSUME NEW i \in 1..n
               PROVE  /\ IsList(items[i])
                      /\ \A acc : Turn(InputLoop(l.utxos), acc, tx.core.inputs[i])
                                    = acc \o items[i]
    BY DEF JoinsItems
  <2>1. PICK key : key = tx.core.inputs[i]
    OBVIOUS
  <2>2. items[i] = l.utxos[key].output.assets /\ IsList(items[i])
    BY <1>1, <1>4, <2>1
  <2>3. \A acc : Turn(InputLoop(l.utxos), acc, key) = acc \o l.utxos[key].output.assets
    BY <1>5
  <2> QED
    BY <2>1, <2>2, <2>3
<1>7. /\ IsList(g[1..n])
      /\ \A x : x \in ToSet(g[1..n]) <=> \E i \in 1..n : x \in ToSet(items[i])
  <2>1. PICK base : base = << >>
    OBVIOUS
  <2>2. Computes(g, InputLoop(l.utxos), base, tx.core.inputs, n)
    BY <1>2, <2>1
  <2>3. AllOf(g[1..n], items, n)
    BY <1>6, <2>1, <2>2, JoinLoop
  <2> QED
    BY <2>3 DEF AllOf
<1> QED
  BY <1>1, <1>2, <1>4, <1>7

\* Without a positive amount of an asset its total is zero.
LEMMA TotalOfNone ==
    ASSUME NEW a, NEW amounts, IsList(amounts),
           \A x \in ToSet(amounts) : x.asset_id = a => x.amount = 0
    PROVE  TotalOf(a, amounts) = 0
<1>1. PICK n \in Nat : DOMAIN amounts = 1..n
  BY ListDomain
<1>2. PICK g : Computes(g, TotalLoop(a), 0, amounts, n) /\ TotalOf(a, amounts) = g[1..n]
  BY <1>1, TotalIsLoop
<1>3. Runs(g, TotalLoop(a), 0, amounts, n)
  BY <1>2, LoopTurn
<1> DEFINE S == {k \in Nat : k <= n => g[1..k] = 0}
<1>4. 0 \in S
  BY <1>3 DEF Runs
<1>5. ASSUME NEW k \in S PROVE k + 1 \in S
  <2> SUFFICES ASSUME k + 1 <= n PROVE g[1..(k + 1)] = 0
    OBVIOUS
  <2>1. k + 1 \in 1..n /\ (k + 1) - 1 = k /\ g[1..k] = 0
    OBVIOUS
  <2>2. g[1..(k + 1)] = Turn(TotalLoop(a), 0, amounts[k + 1])
    BY <1>3, <2>1 DEF Runs
  <2>3. PICK x : x = amounts[k + 1]
    OBVIOUS
  <2>4. Turn(TotalLoop(a), 0, x) = IF x.asset_id = a THEN (0 + x.amount) % AmountMod ELSE 0
    BY DEF Turn, TotalLoop, TotalNext
  <2>5. x \in ToSet(amounts)
    BY <1>1, <2>1, <2>3 DEF ToSet
  <2>6. (0 + 0) % AmountMod = 0
    BY AmountModAssumption
  <2> QED
    BY <2>2, <2>3, <2>4, <2>5, <2>6
<1>6. S \in SUBSET Nat
  OBVIOUS
<1> HIDE DEF S
<1>7. S = Nat
  BY <1>4, <1>5, <1>6, NatSet
<1>8. n \in S
  BY <1>7
<1> QED
  BY <1>2, <1>8 DEF S

\* The totals of the assets that occur.
LEMMA TotalsAre ==
    ASSUME NEW amounts
    PROVE  /\ \A a : a \in DOMAIN Totals(amounts) <=> \E x \in ToSet(amounts) : x.asset_id = a
           /\ \A a \in DOMAIN Totals(amounts) : Totals(amounts)[a] = TotalOf(a, amounts)
<1> DEFINE ids == {amounts[i].asset_id : i \in DOMAIN amounts}
<1>1. Totals(amounts) = [a \in ids |-> TotalOf(a, amounts)]
  BY DEF Totals, TotalOf
<1>2. \A a : a \in ids <=> \E x \in ToSet(amounts) : x.asset_id = a
  BY DEF ToSet
<1> HIDE DEF ids
<1> QED
  BY <1>1, <1>2

\* When the inputs pass, each of them passes.
LEMMA InputsPass ==
    ASSUME NEW l, NEW tx, IsList(tx.core.inputs), NEW height, NEW id,
           CheckInputs(l, tx, height, id) = "ok"
    PROVE  \A i \in DOMAIN tx.core.inputs : CheckInput(l, tx, i, height, id) = "ok"
<1> DEFINE bad == {i \in DOMAIN tx.core.inputs : CheckInput(l, tx, i, height, id) # "ok"}
           first == CHOOSE i \in bad : \A j \in bad : i <= j
<1> SUFFICES ASSUME bad # {} PROVE FALSE
  OBVIOUS
<1>1. PICK n \in Nat : DOMAIN tx.core.inputs = 1..n
  BY ListDomain
<1>2. bad \in SUBSET Nat
  BY <1>1
<1>3. \E i \in bad : \A j \in bad : i <= j
  BY <1>2, NatLeast
<1>4. first \in bad
  BY <1>3
<1>5. CheckInputs(l, tx, height, id) = CheckInput(l, tx, first, height, id)
  BY DEF CheckInputs
<1> HIDE DEF first
<1> QED
  BY <1>4, <1>5

(***************************************************************************)
(* Where value comes from.                                                 *)
(***************************************************************************)
IsOutput(output) == IsList(output.assets) /\ \A x \in ToSet(output.assets) : x.amount \in Nat

IsTransaction(tx) ==
    /\ IsList(tx.core.inputs) /\ IsList(tx.core.outputs)
    /\ \A i \in DOMAIN tx.core.outputs : IsOutput(tx.core.outputs[i])
    /\ IsCreate(tx) => LET max == tx.core.kind.definition.max_supply
                       IN  max # None => max[1] \in Nat

Positive(output) == \E x \in ToSet(output.assets) : x.amount > 0

\* No positive amounts of an asset in the outputs add up to zero: their sum is not a
\* multiple of the integer's range.
NothingVanishes(tx) ==
    \A i \in DOMAIN tx.core.outputs : \A x \in ToSet(tx.core.outputs[i].assets) :
        x.amount > 0 => TotalOf(x.asset_id, OutputAssets(tx)) # 0

\* A transaction that creates no asset has no value in its outputs unless it has
\* value in its inputs.
LEMMA ValueHasSource ==
    ASSUME NEW l, NEW tx, IsTransaction(tx), NothingVanishes(tx), ~IsCreate(tx),
           NEW id, Conserved(l, tx, id),
           \A i \in DOMAIN tx.core.inputs : IsOutput(l.utxos[tx.core.inputs[i]].output),
           NEW i \in DOMAIN tx.core.outputs, Positive(tx.core.outputs[i])
    PROVE  \E k \in DOMAIN tx.core.inputs : Positive(l.utxos[tx.core.inputs[k]].output)
<1>1. PICK x \in ToSet(tx.core.outputs[i].assets) : x.amount > 0
  BY DEF Positive
<1>2. PICK a : a = x.asset_id
  OBVIOUS
<1>3. PICK ins, outs : ins = InputAssets(l, tx) /\ outs = OutputAssets(tx)
  OBVIOUS
<1>4. x \in ToSet(outs)
  BY <1>3, OutputsJoined DEF IsTransaction, IsOutput
<1>5. TotalOf(a, outs) # 0
  BY <1>1, <1>2, <1>3 DEF NothingVanishes
<1>6. a \in DOMAIN Totals(outs) /\ Totals(outs)[a] # 0
  BY <1>2, <1>4, <1>5, TotalsAre
<1>7. Conserves(Totals(ins), Totals(outs))
  BY <1>3 DEF Conserved
<1>8. a \in DOMAIN Totals(ins) /\ Totals(ins)[a] # 0
  BY <1>6, <1>7 DEF Conserves, Total
<1>9. TotalOf(a, ins) # 0
  BY <1>8, TotalsAre
<1>10. /\ IsList(ins)
       /\ \A y : y \in ToSet(ins) <=>
             \E k \in DOMAIN tx.core.inputs : y \in ToSet(l.utxos[tx.core.inputs[k]].output.assets)
  BY <1>3, InputsJoined DEF IsTransaction, IsOutput
<1>11. PICK y \in ToSet(ins) : y.asset_id = a /\ y.amount # 0
  BY <1>9, <1>10, TotalOfNone
<1>12. PICK k \in DOMAIN tx.core.inputs : y \in ToSet(l.utxos[tx.core.inputs[k]].output.assets)
  BY <1>10
<1>13. y.amount > 0
  BY <1>11, <1>12 DEF IsOutput
<1> QED
  BY <1>12, <1>13 DEF Positive
=============================================================================
