--------------------------- MODULE ProcessProofs ---------------------------
(***************************************************************************)
(* Proofs about a node's process: what its files survive (Storage) and     *)
(* what it starts with (Startup).                                          *)
(*                                                                         *)
(* Storage.  A snapshot is written entry by entry in the order of the      *)
(* sorted keys.  Sorting a finite set gives every member one rank, so the  *)
(* file holds every entry once and reads back as the ledger it was made    *)
(* of.  The inductive invariant says of the file in place, and of a file   *)
(* that is still being written, which ledger they were made of.            *)
(*                                                                         *)
(* Startup.  The invariant says that every process is what run_node makes  *)
(* of one of its node's command lines; the properties are then facts about *)
(* run_node's list helpers: what they keep, and that it is each thing once.*)
(***************************************************************************)
EXTENDS Startup, Storage, FiniteSetTheorems, NaturalsInduction, WellFoundedInduction, TLAPS

\* A non-empty set of naturals has a least element.
LEMMA NatLeast ==
    ASSUME NEW T \in SUBSET Nat, T # {}
    PROVE  \E m \in T : \A k \in T : m <= k
<1> DEFINE R == OpToRel(<, Nat)
<1>1. IsWellFoundedOn(R, Nat)
  BY NatLessThanWellFounded
<1>2. \A x, y \in Nat : x < y => <<x, y>> \in R
  BY DEF OpToRel
<1> HIDE DEF R
<1>3. PICK m \in T : \A y \in T : ~(<<y, m>> \in R)
  BY <1>1, WFMin
<1>4. \A k \in T : k \in Nat /\ ~(k < m)
  BY <1>2, <1>3
<1> QED
  BY <1>3, <1>4

\* Induction: a set that has zero and every successor has every natural.
LEMMA NatSet ==
    ASSUME NEW S \in SUBSET Nat, 0 \in S, \A n \in S : n + 1 \in S
    PROVE  S = Nat
<1> SUFFICES ASSUME Nat \ S # {} PROVE FALSE
  OBVIOUS
<1>1. PICK m \in Nat \ S : \A k \in Nat \ S : m <= k
  BY NatLeast
<1>2. m # 0 /\ m - 1 \in S
  BY <1>1
<1> QED
  BY <1>1, <1>2


-----------------------------------------------------------------------------
(***************************************************************************)
(* Ranks.  A finite set with a strict total order, given as a set of       *)
(* pairs: every position up to its size is the rank of one of its members. *)
(***************************************************************************)
StrictOrder(R, K) ==
    /\ \A a, b \in K : <<a, b>> \in R => a # b /\ <<b, a>> \notin R
    /\ \A a, b, c \in K : <<a, b>> \in R /\ <<b, c>> \in R => <<a, c>> \in R
    /\ \A a, b \in K : a # b => <<a, b>> \in R \/ <<b, a>> \in R

Below(R, K, a) == {b \in K : b = a \/ <<b, a>> \in R}

\* A member ranks between one and the size, and above those before it.
LEMMA RankBounds ==
    ASSUME NEW K, IsFiniteSet(K), NEW R, StrictOrder(R, K)
    PROVE  /\ \A a \in K : Cardinality(Below(R, K, a)) \in 1..Cardinality(K)
           /\ \A a, b \in K : <<a, b>> \in R =>
                 Cardinality(Below(R, K, a)) < Cardinality(Below(R, K, b))
  <1>0. Cardinality(K) \in Nat
    BY FS_CardinalityType
  <1>1. ASSUME NEW a \in K
        PROVE  /\ IsFiniteSet(Below(R, K, a))
               /\ Cardinality(Below(R, K, a)) \in 1..Cardinality(K)
    <2>1. Below(R, K, a) \in SUBSET K /\ a \in Below(R, K, a)
      BY DEF Below
    <2>2. IsFiniteSet(Below(R, K, a)) /\ Cardinality(Below(R, K, a)) <= Cardinality(K)
      BY <2>1, FS_Subset
    <2>3. Cardinality(Below(R, K, a)) \in Nat /\ Cardinality(Below(R, K, a)) # 0
      BY <2>1, <2>2, FS_CardinalityType, FS_EmptySet
    <2>4. QED BY <1>0, <2>2, <2>3
  <1>2. ASSUME NEW a \in K, NEW b \in K, <<a, b>> \in R
        PROVE  Cardinality(Below(R, K, a)) < Cardinality(Below(R, K, b))
    <2>1. Below(R, K, a) \in SUBSET Below(R, K, b)
      BY <1>2 DEF Below, StrictOrder
    <2>2. b \in Below(R, K, b) /\ b \notin Below(R, K, a)
      BY <1>2 DEF Below, StrictOrder
    <2>3. /\ Cardinality(Below(R, K, a)) <= Cardinality(Below(R, K, b))
          /\ Cardinality(Below(R, K, b)) # Cardinality(Below(R, K, a))
      BY <1>1, <2>1, <2>2, FS_Subset
    <2>4. Cardinality(Below(R, K, a)) \in Nat /\ Cardinality(Below(R, K, b)) \in Nat
      BY <1>1
    <2>5. QED BY <2>3, <2>4
  <1>3. QED BY <1>1, <1>2

\* Every position is somebody's rank.
LEMMA RankOnto ==
    ASSUME NEW K, IsFiniteSet(K), NEW R, StrictOrder(R, K)
    PROVE  \A i \in 1..Cardinality(K) : \E a \in K : Cardinality(Below(R, K, a)) = i
  <1> TAKE i \in 1..Cardinality(K)
  <1> DEFINE N == Cardinality(K)
             f == [a \in K |-> Cardinality(Below(R, K, a))]
  <1>1. N \in Nat
    BY FS_CardinalityType
  <1>2. f \in [K -> 1..N]
    BY RankBounds
  <1>3. \A a, b \in K : f[a] = f[b] => a = b
    <2> SUFFICES ASSUME NEW a \in K, NEW b \in K, f[a] = f[b], a # b PROVE FALSE
      OBVIOUS
    <2>1. f[a] \in Nat /\ f[b] \in Nat
      BY <1>1, <1>2
    <2>2. f[a] < f[b] \/ f[b] < f[a]
      BY RankBounds DEF StrictOrder
    <2>3. QED BY <2>1, <2>2
  <1>4. f \in Injection(K, 1..N)
    BY <1>2, <1>3 DEF Injection, IsInjective
  <1>5. IsFiniteSet(1..N) /\ Cardinality(1..N) = N
    BY <1>1, FS_Interval
  <1>6. f \in Surjection(K, 1..N)
    <2> HIDE DEF f
    <2>1. QED BY <1>4, <1>5, FS_Injection
  <1>7. PICK a \in K : f[a] = i
    BY <1>6 DEF Surjection
  <1>8. QED BY <1>7

\* A finite set can be sorted, and a sorted list of it has every member once.
LEMMA SortedExists ==
    ASSUME NEW K, IsFiniteSet(K), NEW R, StrictOrder(R, K)
    PROVE  \E s \in [1..Cardinality(K) -> K] :
              \A i, j \in DOMAIN s : i < j => <<s[i], s[j]>> \in R
  <1> DEFINE N == Cardinality(K)
             s == [i \in 1..N |-> CHOOSE a \in K : Cardinality(Below(R, K, a)) = i]
  <1>0. N \in Nat
    BY FS_CardinalityType
  <1>1. \A i \in 1..N : s[i] \in K /\ Cardinality(Below(R, K, s[i])) = i
    BY RankOnto
  <1>2. s \in [1..N -> K]
    BY <1>1
  <1>3. ASSUME NEW i \in 1..N, NEW j \in 1..N, i < j PROVE <<s[i], s[j]>> \in R
    <2>1. s[i] # s[j] /\ s[i] \in K /\ s[j] \in K
      BY <1>0, <1>1, <1>3
    <2>2. CASE <<s[j], s[i]>> \in R
      <3>1. Cardinality(Below(R, K, s[j])) < Cardinality(Below(R, K, s[i]))
        BY <2>1, <2>2, RankBounds
      <3> HIDE DEF s
      <3>2. QED BY <1>0, <1>1, <1>3, <3>1
    <2>3. QED BY <2>1, <2>2 DEF StrictOrder
  <1> HIDE DEF s
  <1>4. QED BY <1>2, <1>3

\* A list in strict order of as many members as the set has is the whole set.
LEMMA SortedIsWhole ==
    ASSUME NEW K, IsFiniteSet(K), NEW R, StrictOrder(R, K),
           NEW s \in [1..Cardinality(K) -> K],
           \A i, j \in DOMAIN s : i < j => <<s[i], s[j]>> \in R
    PROVE  /\ \A i, j \in DOMAIN s : s[i] = s[j] => i = j
           /\ \A a \in K : \E i \in DOMAIN s : s[i] = a
           /\ DOMAIN s = 1..Cardinality(K) /\ Cardinality(K) \in Nat
  <1> DEFINE N == Cardinality(K)
  <1>0. N \in Nat /\ DOMAIN s = 1..N
    BY FS_CardinalityType
  <1>1. \A i, j \in 1..N : s[i] = s[j] => i = j
    <2> SUFFICES ASSUME NEW i \in 1..N, NEW j \in 1..N, s[i] = s[j], i # j PROVE FALSE
      OBVIOUS
    <2>1. i < j \/ j < i
      BY <1>0
    <2>2. <<s[i], s[j]>> \in R \/ <<s[j], s[i]>> \in R
      BY <1>0, <2>1
    <2>3. s[i] \in K /\ s[j] \in K
      BY <1>0
    <2>4. QED BY <2>2, <2>3 DEF StrictOrder
  <1>2. s \in Injection(1..N, K)
    BY <1>0, <1>1 DEF Injection, IsInjective
  <1>3. Cardinality(1..N) = N
    BY <1>0, FS_Interval
  <1>4. s \in Surjection(1..N, K)
    BY <1>2, <1>3, FS_Injection
  <1>5. \A a \in K : \E i \in 1..N : s[i] = a
    BY <1>4 DEF Surjection
  <1>6. QED BY <1>0, <1>1, <1>5

-----------------------------------------------------------------------------
(***************************************************************************)
(* The snapshot reads back as the ledger it was made of.                   *)
(***************************************************************************)
UtxoEntry(ledger, k) == [kind |-> "utxo", key |-> k, value |-> ledger.utxos[k]]
AssetEntry(ledger, a) == [kind |-> "asset", key |-> a, value |-> ledger.assets[a]]

\* A list that enumerates a set, each member once.
Enumerates(s, n, K) ==
    /\ n \in Nat /\ s \in [1..n -> K]
    /\ \A i, j \in 1..n : s[i] = s[j] => i = j
    /\ \A a \in K : \E i \in 1..n : s[i] = a

\* The keys of the outputs are sorted by transaction and index.
LEMMA SortedUtxos ==
    ASSUME NEW K, IsFiniteSet(K), \A k \in K : k \in [tx_id : Nat, index : Nat]
    PROVE  Enumerates(Sorted(K, Before), Cardinality(K), K)
  <1> DEFINE R == {p \in K \X K : Before(p[1], p[2])}
             s == Sorted(K, Before)
  <1>1. \A a, b \in K : <<a, b>> \in R <=> Before(a, b)
    OBVIOUS
  <1>2. StrictOrder(R, K)
    <2> HIDE DEF R
    <2>1. \A a, b \in K : <<a, b>> \in R => a # b /\ <<b, a>> \notin R
      BY <1>1 DEF Before
    <2>2. \A a, b, c \in K : <<a, b>> \in R /\ <<b, c>> \in R => <<a, c>> \in R
      BY <1>1 DEF Before
    <2>3. \A a, b \in K : a # b => <<a, b>> \in R \/ <<b, a>> \in R
      BY <1>1 DEF Before
    <2>4. QED BY <2>1, <2>2, <2>3 DEF StrictOrder
  <1> HIDE DEF R
  <1>3. \E t \in [1..Cardinality(K) -> K] : \A i, j \in DOMAIN t : i < j => Before(t[i], t[j])
    <2>1. PICK t \in [1..Cardinality(K) -> K] :
             \A i, j \in DOMAIN t : i < j => <<t[i], t[j]>> \in R
      BY <1>2, SortedExists
    <2>2. \A i \in DOMAIN t : t[i] \in K
      OBVIOUS
    <2>3. \A i, j \in DOMAIN t : i < j => Before(t[i], t[j])
      BY <1>1, <2>1, <2>2
    <2>4. QED BY <2>3
  <1>4. s \in [1..Cardinality(K) -> K] /\ \A i, j \in DOMAIN s : i < j => Before(s[i], s[j])
    BY <1>3 DEF Sorted
  <1> HIDE DEF s
  <1>5. \A i, j \in DOMAIN s : i < j => <<s[i], s[j]>> \in R
    BY <1>1, <1>4
  <1>6. /\ \A i, j \in DOMAIN s : s[i] = s[j] => i = j
        /\ \A a \in K : \E i \in DOMAIN s : s[i] = a
        /\ DOMAIN s = 1..Cardinality(K) /\ Cardinality(K) \in Nat
    BY <1>2, <1>4, <1>5, SortedIsWhole
  <1>7. Enumerates(s, Cardinality(K), K)
    BY <1>4, <1>6 DEF Enumerates
  <1>8. QED BY <1>7 DEF s

\* The assets are sorted by their identifiers.
LEMMA SortedAssets ==
    ASSUME NEW K, IsFiniteSet(K), \A k \in K : k \in Nat
    PROVE  Enumerates(Sorted(K, LAMBDA a, b : a < b), Cardinality(K), K)
  <1> DEFINE R == {p \in K \X K : p[1] < p[2]}
             s == Sorted(K, LAMBDA a, b : a < b)
  <1>1. \A a, b \in K : <<a, b>> \in R <=> a < b
    OBVIOUS
  <1>2. StrictOrder(R, K)
    <2> HIDE DEF R
    <2>1. QED BY <1>1 DEF StrictOrder
  <1> HIDE DEF R
  <1>3. \E t \in [1..Cardinality(K) -> K] : \A i, j \in DOMAIN t : i < j => t[i] < t[j]
    <2>1. PICK t \in [1..Cardinality(K) -> K] :
             \A i, j \in DOMAIN t : i < j => <<t[i], t[j]>> \in R
      BY <1>2, SortedExists
    <2>2. \A i \in DOMAIN t : t[i] \in K
      OBVIOUS
    <2>3. \A i, j \in DOMAIN t : i < j => t[i] < t[j]
      BY <1>1, <2>1, <2>2
    <2>4. QED BY <2>3
  <1>4. s \in [1..Cardinality(K) -> K] /\ \A i, j \in DOMAIN s : i < j => s[i] < s[j]
    BY <1>3 DEF Sorted
  <1> HIDE DEF s
  <1>5. \A i, j \in DOMAIN s : i < j => <<s[i], s[j]>> \in R
    BY <1>1, <1>4
  <1>6. /\ \A i, j \in DOMAIN s : s[i] = s[j] => i = j
        /\ \A a \in K : \E i \in DOMAIN s : s[i] = a
        /\ DOMAIN s = 1..Cardinality(K) /\ Cardinality(K) \in Nat
    BY <1>2, <1>4, <1>5, SortedIsWhole
  <1>7. Enumerates(s, Cardinality(K), K)
    BY <1>4, <1>6 DEF Enumerates
  <1>8. QED BY <1>7 DEF s

\* The entries of a snapshot: the outputs first, then the assets.
LEMMA SnapshotEntries ==
    ASSUME NEW l, IsChainState(l)
    PROVE  \E u, v : \E n, m \in Nat :
              /\ Enumerates(u, n, DOMAIN l.utxos) /\ Enumerates(v, m, DOMAIN l.assets)
              /\ DOMAIN ToSnapshot(l) = 1..(n + m)
              /\ Len(ToSnapshot(l)) = n + m
              /\ \A i \in 1..n : ToSnapshot(l)[i] = UtxoEntry(l, u[i])
              /\ \A i \in 1..m : ToSnapshot(l)[n + i] = AssetEntry(l, v[i])
  <1> DEFINE u == Sorted(DOMAIN l.utxos, Before)
             v == Sorted(DOMAIN l.assets, LAMBDA a, b : a < b)
             A == [i \in DOMAIN u |-> UtxoEntry(l, u[i])]
             B == [i \in DOMAIN v |-> AssetEntry(l, v[i])]
  <1>1. PICK n : Enumerates(u, n, DOMAIN l.utxos)
    BY SortedUtxos DEF IsChainState
  <1>2. PICK m : Enumerates(v, m, DOMAIN l.assets)
    BY SortedAssets DEF IsChainState
  <1>3. ToSnapshot(l) = A \o B
    BY DEF ToSnapshot, UtxoEntry, AssetEntry
  <1> HIDE DEF u, v
  <1>4. n \in Nat /\ m \in Nat /\ DOMAIN u = 1..n /\ DOMAIN v = 1..m
    BY <1>1, <1>2 DEF Enumerates
  <1>5. PICK S : \A i \in 1..n : UtxoEntry(l, u[i]) \in S
    <2>1. \A i \in 1..n : UtxoEntry(l, u[i]) \in {UtxoEntry(l, u[j]) : j \in 1..n}
      OBVIOUS
    <2>2. QED BY <2>1
  <1>6. PICK T : \A i \in 1..m : AssetEntry(l, v[i]) \in T
    <2>1. \A i \in 1..m : AssetEntry(l, v[i]) \in {AssetEntry(l, v[j]) : j \in 1..m}
      OBVIOUS
    <2>2. QED BY <2>1
  <1>7. A \in Seq(S \union T) /\ Len(A) = n /\ \A i \in 1..n : A[i] = UtxoEntry(l, u[i])
    BY <1>4, <1>5
  <1>8. B \in Seq(S \union T) /\ Len(B) = m /\ \A i \in 1..m : B[i] = AssetEntry(l, v[i])
    BY <1>4, <1>6
  <1> HIDE DEF A, B
  <1>9. /\ DOMAIN (A \o B) = 1..(n + m) /\ Len(A \o B) = n + m
        /\ \A i \in 1..n : (A \o B)[i] = A[i]
        /\ \A i \in 1..m : (A \o B)[n + i] = B[i]
    BY <1>4, <1>7, <1>8
  <1>10. QED BY <1>1, <1>2, <1>3, <1>4, <1>7, <1>8, <1>9

\* Reading a snapshot back gives the ledger: no two entries of a kind have the
\* same key, and every output and asset is there (from_snapshot, into_chain_state).
LEMMA SnapshotReadsBack ==
    ASSUME NEW l, IsChainState(l)
    PROVE  IntoChainState(ToSnapshot(l)) = Some(l)
  <1>1. PICK u, v : \E n, m \in Nat :
              /\ Enumerates(u, n, DOMAIN l.utxos) /\ Enumerates(v, m, DOMAIN l.assets)
              /\ DOMAIN ToSnapshot(l) = 1..(n + m)
              /\ Len(ToSnapshot(l)) = n + m
              /\ \A i \in 1..n : ToSnapshot(l)[i] = UtxoEntry(l, u[i])
              /\ \A i \in 1..m : ToSnapshot(l)[n + i] = AssetEntry(l, v[i])
    BY SnapshotEntries
  <1>2. PICK n \in Nat, m \in Nat :
              /\ Enumerates(u, n, DOMAIN l.utxos) /\ Enumerates(v, m, DOMAIN l.assets)
              /\ DOMAIN ToSnapshot(l) = 1..(n + m)
              /\ \A i \in 1..n : ToSnapshot(l)[i] = UtxoEntry(l, u[i])
              /\ \A i \in 1..m : ToSnapshot(l)[n + i] = AssetEntry(l, v[i])
    BY <1>1
  <1>3. PICK s : s = ToSnapshot(l)
    OBVIOUS
  <1> DEFINE of(kind) == {i \in DOMAIN s : s[i].kind = kind}
             map(kind) == [k \in {s[i].key : i \in of(kind)} |->
                             s[CHOOSE i \in of(kind) : s[i].key = k].value]
  <1>4. /\ DOMAIN s = 1..(n + m)
        /\ \A i \in 1..n : s[i].kind = "utxo" /\ s[i].key = u[i] /\ s[i].value = l.utxos[u[i]]
        /\ \A i \in 1..m : /\ s[n + i].kind = "asset" /\ s[n + i].key = v[i]
                           /\ s[n + i].value = l.assets[v[i]]
    <2>1. ASSUME NEW i \in 1..n
          PROVE  s[i].kind = "utxo" /\ s[i].key = u[i] /\ s[i].value = l.utxos[u[i]]
      <3>1. s[i] = UtxoEntry(l, u[i])
        BY <1>2, <1>3
      <3>2. QED BY <3>1 DEF UtxoEntry
    <2>2. ASSUME NEW i \in 1..m
          PROVE  /\ s[n + i].kind = "asset" /\ s[n + i].key = v[i]
                 /\ s[n + i].value = l.assets[v[i]]
      <3>1. s[n + i] = AssetEntry(l, v[i])
        BY <1>2, <1>3
      <3>2. QED BY <3>1 DEF AssetEntry
    <2>3. QED BY <1>2, <1>3, <2>1, <2>2
  <1>5. of("utxo") = 1..n
    <2>1. ASSUME NEW i \in 1..(n + m) PROVE s[i].kind = "utxo" <=> i \in 1..n
      <3>1. CASE i \in 1..n
        BY <1>4, <3>1
      <3>2. CASE i \notin 1..n
        <4>1. i - n \in 1..m /\ i = n + (i - n)
          BY <3>2
        <4>2. s[i].kind = "asset"
          BY <1>4, <4>1
        <4>3. QED BY <3>2, <4>2
      <3>3. QED BY <3>1, <3>2
    <2>2. QED BY <1>4, <2>1
  <1>6. of("asset") = {n + i : i \in 1..m}
    <2>1. ASSUME NEW i \in 1..(n + m)
          PROVE  s[i].kind = "asset" <=> \E j \in 1..m : i = n + j
      <3>1. CASE i \in 1..n
        BY <1>4, <3>1
      <3>2. CASE i \notin 1..n
        <4>1. i - n \in 1..m /\ i = n + (i - n)
          BY <3>2
        <4>2. QED BY <1>4, <4>1
      <3>3. QED BY <3>1, <3>2
    <2>2. \A j \in 1..m : n + j \in 1..(n + m)
      OBVIOUS
    <2>3. of("asset") \subseteq {n + i : i \in 1..m}
      <3> SUFFICES ASSUME NEW i \in of("asset") PROVE i \in {n + j : j \in 1..m}
        OBVIOUS
      <3>1. \E j \in 1..m : i = n + j
        BY <1>4, <2>1
      <3>2. QED BY <3>1
    <2>4. {n + i : i \in 1..m} \subseteq of("asset")
      <3> SUFFICES ASSUME NEW i \in 1..m PROVE n + i \in of("asset")
        OBVIOUS
      <3>1. n + i \in DOMAIN s /\ s[n + i].kind = "asset"
        BY <1>4, <2>2
      <3>2. QED BY <3>1
    <2>5. QED BY <2>3, <2>4
  <1>7. \A i, j \in DOMAIN s :
           s[i].kind = s[j].kind /\ s[i].key = s[j].key => i = j
    <2> SUFFICES ASSUME NEW i \in DOMAIN s, NEW j \in DOMAIN s,
                        s[i].kind = s[j].kind, s[i].key = s[j].key
                 PROVE  i = j
      OBVIOUS
    <2>1. i \in 1..n \/ \E a \in 1..m : i = n + a
      <3>1. i \in 1..n \/ (i - n \in 1..m /\ i = n + (i - n))
        BY <1>4
      <3>2. QED BY <3>1
    <2>2. CASE i \in 1..n
      <3>1. j \in of("utxo")
        BY <1>4, <2>2
      <3>2. j \in 1..n
        BY <1>5, <3>1
      <3>3. QED BY <1>2, <1>4, <2>2, <3>2 DEF Enumerates
    <2>3. CASE \E a \in 1..m : i = n + a
      <3>1. PICK a \in 1..m : i = n + a
        BY <2>3
      <3>2. j \in of("asset")
        BY <1>4, <3>1
      <3>3. PICK b \in 1..m : j = n + b
        BY <1>6, <3>2
      <3>4. v[a] = v[b]
        BY <1>4, <3>1, <3>3
      <3>5. a = b
        BY <1>2, <3>4 DEF Enumerates
      <3>6. QED BY <3>1, <3>3, <3>5
    <2>4. QED BY <2>1, <2>2, <2>3
  <1>a. /\ \A i \in 1..n : u[i] \in DOMAIN l.utxos
        /\ \A k \in DOMAIN l.utxos : \E i \in 1..n : u[i] = k
        /\ \A i \in 1..m : v[i] \in DOMAIN l.assets
        /\ \A k \in DOMAIN l.assets : \E i \in 1..m : v[i] = k
    BY <1>2 DEF Enumerates
  <1>b. ASSUME NEW k \in DOMAIN l.utxos PROVE \E i \in 1..n : s[i].key = k
    <2>1. PICK i \in 1..n : u[i] = k
      BY <1>a
    <2>2. s[i].key = k
      BY <1>4, <2>1
    <2>3. QED BY <2>2
  <1>c. ASSUME NEW k \in DOMAIN l.assets PROVE \E i \in 1..m : s[n + i].key = k
    <2>1. PICK i \in 1..m : v[i] = k
      BY <1>a
    <2>2. s[n + i].key = k
      BY <1>4, <2>1
    <2>3. QED BY <2>2
  <1>8. map("utxo") = l.utxos
    <2>1. {s[i].key : i \in of("utxo")} = DOMAIN l.utxos
      <3>1. \A i \in 1..n : s[i].key \in DOMAIN l.utxos
        BY <1>4, <1>a
      <3>2. \A k \in DOMAIN l.utxos : \E i \in 1..n : s[i].key = k
        BY <1>b
      <3>3. QED BY <1>5, <3>1, <3>2
    <2>2. ASSUME NEW k \in DOMAIN l.utxos
          PROVE  s[CHOOSE i \in of("utxo") : s[i].key = k].value = l.utxos[k]
      <3>1. \E i \in 1..n : s[i].key = k
        BY <1>b
      <3>2. PICK c : c = CHOOSE i \in of("utxo") : s[i].key = k
        OBVIOUS
      <3>3. c \in 1..n /\ s[c].key = k
        BY <1>5, <3>1, <3>2
      <3>4. s[c].value = l.utxos[k]
        BY <1>4, <3>3
      <3>5. QED BY <3>2, <3>4
    <2>3. l.utxos = [k \in DOMAIN l.utxos |-> l.utxos[k]]
      BY DEF IsChainState
    <2>4. map("utxo") = [k \in DOMAIN l.utxos |-> l.utxos[k]]
      BY <2>1, <2>2
    <2>5. QED BY <2>3, <2>4
  <1>9. map("asset") = l.assets
    <2>1. {s[i].key : i \in of("asset")} = DOMAIN l.assets
      <3>1. \A i \in 1..m : s[n + i].key \in DOMAIN l.assets
        BY <1>4, <1>a
      <3>2. \A k \in DOMAIN l.assets : \E i \in 1..m : s[n + i].key = k
        BY <1>c
      <3>3. QED BY <1>6, <3>1, <3>2
    <2>2. ASSUME NEW k \in DOMAIN l.assets
          PROVE  s[CHOOSE i \in of("asset") : s[i].key = k].value = l.assets[k]
      <3>1. \E i \in 1..m : s[n + i].key = k
        BY <1>c
      <3>2. PICK c : c = CHOOSE i \in of("asset") : s[i].key = k
        OBVIOUS
      <3>3. c \in of("asset") /\ s[c].key = k
        BY <1>6, <3>1, <3>2
      <3>4. PICK i \in 1..m : c = n + i
        BY <1>6, <3>3
      <3>5. s[n + i].key = v[i] /\ s[n + i].value = l.assets[v[i]]
        BY <1>4
      <3>6. s[c].value = l.assets[k]
        BY <3>3, <3>4, <3>5
      <3>7. QED BY <3>2, <3>6
    <2>3. l.assets = [k \in DOMAIN l.assets |-> l.assets[k]]
      BY DEF IsChainState
    <2>4. map("asset") = [k \in DOMAIN l.assets |-> l.assets[k]]
      BY <2>1, <2>2
    <2>5. QED BY <2>3, <2>4
  <1>10. IntoChainState(s) = Some([utxos |-> map("utxo"), assets |-> map("asset")])
    BY <1>7 DEF IntoChainState
  <1>11. QED BY <1>3, <1>8, <1>9, <1>10 DEF IsChainState

-----------------------------------------------------------------------------
(***************************************************************************)
(* The saves.  A file takes the path only when all of it has been written  *)
(* and synced, so what is under the path, synced directory or not, is      *)
(* always whole; and it is never older than the last save that returned    *)
(* Ok, because that one synced the directory before it returned.           *)
(***************************************************************************)
Size(n) == Len(ToSnapshot(Ledgers[n])) + 1
File(n, w, s) == [of |-> n, written |-> w, synced |-> s]
Done(n) == File(n, Size(n), Size(n))

\* What may be under the path: nothing, or a whole file of an earlier save.
Good(o) == o = None \/ \E k \in 1..saving : o = Some(Done(k))

NotOlder(o) == o # None /\ o[1].of >= acked

StorageInv ==
    /\ saving \in Nat /\ saving <= Len(Ledgers) /\ acked \in 0..saving
    /\ pc \notin {"down", "idle"} => saving >= 1
    /\ Good(file) /\ Good(onDisk)
    /\ acked > 0 => NotOlder(file) /\ NotOlder(onDisk)
    /\ pc = "write" => \E w \in Nat : w < Size(saving) /\ temp = Some(File(saving, w, 0))
    /\ pc = "sync" => temp = Some(File(saving, Size(saving), 0))
    /\ pc = "rename" => temp = Some(Done(saving))
    /\ pc = "sync dir" => file = Some(Done(saving))
    /\ ReadsBack

\* A file has at least its header line.
LEMMA SizeType ==
    ASSUME NEW n \in 1..Len(Ledgers) PROVE Size(n) \in Nat /\ Size(n) >= 1
  <1>1. IsChainState(Ledgers[n])
    BY StorageConstants
  <1>2. Len(ToSnapshot(Ledgers[n])) \in Nat
    BY <1>1, SnapshotEntries
  <1>3. QED BY <1>2 DEF Size

\* The fields of a file.
LEMMA FileFields ==
    ASSUME NEW n, NEW w, NEW s
    PROVE  /\ File(n, w, s).of = n /\ File(n, w, s).written = w /\ File(n, w, s).synced = s
           /\ Length(File(n, w, s)) = Size(n)
           /\ Whole(File(n, w, s)) <=> w = Size(n)
  <1>1. File(n, w, s).of = n /\ File(n, w, s).written = w /\ File(n, w, s).synced = s
    BY DEF File
  <1>2. Length(File(n, w, s)) = Size(n)
    BY <1>1 DEF Length, Size
  <1>3. Whole(File(n, w, s)) <=> w = Size(n)
    BY <1>1, <1>2 DEF Whole
  <1>4. QED BY <1>1, <1>2, <1>3

\* A whole file has its size.
LEMMA DoneFields ==
    ASSUME NEW n
    PROVE  /\ Done(n).of = n /\ Done(n).written = Size(n) /\ Done(n).synced = Size(n)
           /\ Whole(Done(n))
  BY FileFields DEF Done

\* An Option that is there.
LEMMA SomeIsThere ==
    ASSUME NEW x PROVE Some(x)[1] = x /\ Some(x) # None
  BY DEF Some, None

\* One more entry is written.
LEMMA OneMore ==
    ASSUME NEW n, NEW w \in Nat, NEW s
    PROVE  [Some(File(n, w, s)) EXCEPT ![1].written = @ + 1] = Some(File(n, w + 1, s))
  BY DEF File, Some

\* A file is synced; a file that was synced is cut nowhere.
LEMMA Cut ==
    ASSUME NEW n
    PROVE  /\ SyncAll(File(n, Size(n), 0)) = Done(n)
           /\ [Done(n) EXCEPT !.written = Size(n), !.synced = Size(n)] = Done(n)
  <1>1. \A w : SyncAll(File(n, w, 0)) = File(n, w, w)
    BY DEF SyncAll, File
  <1>2. PICK z : z = Size(n)
    OBVIOUS
  <1>3. [File(n, z, z) EXCEPT !.written = z, !.synced = z] = File(n, z, z)
    <2> DEFINE r == [of |-> n, written |-> z, synced |-> z]
    <2>1. [r EXCEPT !.written = z] = r
      OBVIOUS
    <2>2. [r EXCEPT !.synced = z] = r
      OBVIOUS
    <2>3. [[r EXCEPT !.written = z] EXCEPT !.synced = z] = r
      BY <2>1, <2>2
    <2>4. QED BY <2>3 DEF File
  <1>4. QED BY <1>1, <1>2, <1>3 DEF Done

\* A file that is good stays good while later saves start.
LEMMA GoodStays ==
    ASSUME NEW o, Good(o), saving \in Nat, saving' \in Nat, saving <= saving' PROVE Good(o)'
  BY DEF Good

\* A whole file reads as the ledger it was saved for.
LEMMA WholeReadsBack ==
    ASSUME NEW n \in 1..Len(Ledgers) PROVE Parse(Done(n)) = Some(Ledgers[n])
  <1>1. IsChainState(Ledgers[n])
    BY StorageConstants
  <1>2. Size(n) \in Nat
    BY SizeType
  <1>3. Whole(Done(n)) /\ Done(n).of = n
    BY DoneFields
  <1>4. QED BY <1>1, <1>3, SnapshotReadsBack DEF Parse

\* Only ledgers there are are saved.
LEMMA SavingBound ==
    ASSUME StorageInv
    PROVE  saving \in Nat /\ Len(Ledgers) \in Nat /\ 1..saving \subseteq 1..Len(Ledgers)
  <1>1. Len(Ledgers) \in Nat
    BY StorageConstants
  <1>2. saving \in Nat /\ saving <= Len(Ledgers)
    BY DEF StorageInv
  <1>3. QED BY <1>1, <1>2

\* A start reads nothing, or a whole file.
LEMMA LoadPreserves ==
    ASSUME StorageInv, Load PROVE StorageInv'
  <1>1. UNCHANGED <<saving, acked, temp, file, onDisk>> /\ pc' = "idle"
    BY DEF Load, files
  <1>2. ReadsBack'
    <2>1. CASE file = None
      <3>1. loaded' = Nothing
        BY <2>1 DEF Load
      <3>2. QED BY <3>1 DEF ReadsBack, Nothing
    <2>2. CASE file # None
      <3>1. PICK k \in 1..saving : file = Some(Done(k))
        BY <2>2 DEF StorageInv, Good
      <3>2. k \in 1..Len(Ledgers)
        BY SavingBound
      <3>4. file[1] = Done(k) /\ file[1].of = k
        BY <3>1, SomeIsThere, DoneFields
      <3>5. loaded' = [of |-> k, ledger |-> Parse(Done(k))]
        BY <2>2, <3>4 DEF Load
      <3>6. QED BY <3>2, <3>5, WholeReadsBack DEF ReadsBack
    <2>3. QED BY <2>1, <2>2
  <1>3. QED BY <1>1, <1>2 DEF StorageInv, Good, NotOlder

\* The steps of write_file_atomically before the rename leave the path alone.
LEMMA WritingPreserves ==
    ASSUME StorageInv, Save \/ Create \/ Write \/ Sync PROVE StorageInv'
  <1>1. /\ UNCHANGED <<acked, loaded, file, onDisk>>
        /\ saving' \in Nat /\ saving <= saving' /\ saving' <= Len(Ledgers) /\ saving' >= 1
    <2>1. saving \in Nat /\ Len(Ledgers) \in Nat /\ saving <= Len(Ledgers)
      BY SavingBound DEF StorageInv
    <2>2. UNCHANGED <<acked, loaded, file, onDisk>>
      BY DEF Save, Create, Write, Sync, files
    <2>3. \/ saving < Len(Ledgers) /\ saving' = saving + 1
          \/ saving' = saving /\ saving >= 1
      BY DEF Save, Create, Write, Sync, StorageInv
    <2>4. QED BY <2>1, <2>2, <2>3
  <1>2. saving \in Nat /\ acked \in 0..saving
    BY DEF StorageInv
  <1>3. Good(file)' /\ Good(onDisk)'
    BY <1>1, <1>2, GoodStays DEF StorageInv, Good
  <1>4. acked' \in 0..saving'
    BY <1>1, <1>2
  <1>5. ReadsBack' /\ (acked' > 0 => NotOlder(file)' /\ NotOlder(onDisk)')
    BY <1>1 DEF StorageInv, ReadsBack, NotOlder
  <1>6. Size(saving') \in Nat /\ Size(saving') >= 1
    BY <1>1, SizeType, StorageConstants
  <1>7. CASE Save
    <2>1. pc' = "create"
      BY <1>7 DEF Save
    <2>2. QED BY <1>1, <1>3, <1>4, <1>5, <2>1 DEF StorageInv
  <1>8. CASE Create
    <2>1. pc' = "write" /\ saving' = saving /\ temp' = Some(File(saving, 0, 0))
      BY <1>8 DEF Create, NewFile, File
    <2>2. \E w \in Nat : w < Size(saving') /\ temp' = Some(File(saving', w, 0))
      BY <1>6, <2>1
    <2>3. (pc = "write" => \E w \in Nat : w < Size(saving) /\ temp = Some(File(saving, w, 0)))'
      BY <2>2 DEF Size
    <2>4. QED BY <1>1, <1>3, <1>4, <1>5, <2>1, <2>3 DEF StorageInv
  <1>9. CASE Write
    <2>1. PICK w \in Nat : w < Size(saving) /\ temp = Some(File(saving, w, 0))
      BY <1>9 DEF Write, StorageInv
    <2>2. saving' = saving
      BY <1>9 DEF Write
    <2>3. temp' = Some(File(saving, w + 1, 0)) /\ temp'[1] = File(saving, w + 1, 0)
      <3>1. temp' = [temp EXCEPT ![1].written = @ + 1]
        BY <1>9 DEF Write
      <3>2. PICK k : k = saving
        OBVIOUS
      <3>3. [Some(File(k, w, 0)) EXCEPT ![1].written = @ + 1] = Some(File(k, w + 1, 0))
        BY OneMore
      <3>4. temp' = Some(File(saving, w + 1, 0))
        BY <2>1, <3>1, <3>2, <3>3
      <3>5. QED BY <3>4, SomeIsThere
    <2>4. Whole(temp'[1]) <=> w + 1 = Size(saving)
      BY <2>3, FileFields
    <2>5. CASE w + 1 = Size(saving)
      <3>1. pc' = "sync" /\ temp' = Some(File(saving', Size(saving'), 0))
        BY <1>9, <2>2, <2>3, <2>4, <2>5 DEF Write
      <3>2. (pc = "sync" => temp = Some(File(saving, Size(saving), 0)))'
        BY <3>1 DEF Size
      <3>3. QED BY <1>1, <1>3, <1>4, <1>5, <3>1, <3>2 DEF StorageInv
    <2>6. CASE w + 1 # Size(saving)
      <3>1. pc' = "write"
        BY <1>9, <2>4, <2>6 DEF Write
      <3>2. w + 1 \in Nat /\ w + 1 < Size(saving)
        BY <1>6, <2>1, <2>2, <2>6
      <3>3. \E z \in Nat : z < Size(saving') /\ temp' = Some(File(saving', z, 0))
        BY <2>2, <2>3, <3>2
      <3>4. (pc = "write" => \E z \in Nat : z < Size(saving) /\ temp = Some(File(saving, z, 0)))'
        BY <3>3 DEF Size
      <3>5. QED BY <1>1, <1>3, <1>4, <1>5, <3>1, <3>4 DEF StorageInv
    <2>7. QED BY <2>5, <2>6
  <1>10. CASE Sync
    <2>1. pc = "sync" /\ pc' = "rename" /\ saving' = saving
      BY <1>10 DEF Sync
    <2>2. temp = Some(File(saving, Size(saving), 0)) /\ Size(saving) \in Nat
      BY <1>6, <2>1 DEF StorageInv
    <2>3. temp' = Some(Done(saving))
      BY <1>10, <2>2, Cut, SomeIsThere DEF Sync
    <2>4. (pc = "rename" => temp = Some(Done(saving)))'
      BY <2>1, <2>3 DEF Done, Size
    <2>5. QED BY <1>1, <1>3, <1>4, <1>5, <2>1, <2>4 DEF StorageInv
  <1>11. QED BY <1>7, <1>8, <1>9, <1>10

\* The rename puts a whole file under the path; the directory is synced before
\* the save returns Ok.
LEMMA RenamingPreserves ==
    ASSUME StorageInv, Rename \/ Saved PROVE StorageInv'
  <1>1. UNCHANGED <<saving, loaded>> /\ saving \in Nat /\ acked \in 0..saving
    BY DEF Rename, Saved, StorageInv
  <1>2. saving \in 1..saving /\ saving <= Len(Ledgers) /\ saving >= 1
    <2>1. pc = "rename" \/ pc = "sync dir"
      BY DEF Rename, Saved
    <2>2. saving >= 1 /\ saving <= Len(Ledgers)
      BY <2>1 DEF StorageInv
    <2>3. QED BY <1>1, <2>2
  <1>4. Some(Done(saving)) # None /\ Some(Done(saving))[1].of = saving
    BY SomeIsThere, DoneFields
  <1>5. ReadsBack'
    BY <1>1 DEF ReadsBack, StorageInv
  <1>6. saving \in 1..saving
    BY <1>2
  <1>7. CASE Rename
    <2>1. /\ UNCHANGED <<acked, onDisk>> /\ pc' = "sync dir"
          /\ file' = Some(Done(saving))
      BY <1>7 DEF Rename, StorageInv
    <2>2. Good(file)' /\ Good(onDisk)'
      <3>1. \E k \in 1..saving : file' = Some(Done(k))
        BY <1>6, <2>1
      <3>2. Good(file)'
        BY <1>1, <3>1 DEF Good, Done, Size
      <3>3. Good(onDisk)'
        BY <1>1, <2>1 DEF Good, StorageInv, Done, Size
      <3>4. QED BY <3>2, <3>3
    <2>3. acked' > 0 => NotOlder(file)' /\ NotOlder(onDisk)'
      <3>1. file'[1].of = saving /\ file' # None
        BY <1>4, <2>1
      <3>2. acked > 0 => NotOlder(onDisk)
        BY DEF StorageInv
      <3>3. saving >= acked
        BY <1>1
      <3>4. QED BY <1>1, <2>1, <3>1, <3>2, <3>3 DEF NotOlder
    <2>4. (pc = "sync dir" => file = Some(Done(saving)))'
      BY <1>1, <2>1 DEF Done, Size
    <2>5. QED BY <1>1, <1>2, <1>5, <2>1, <2>2, <2>3, <2>4 DEF StorageInv
  <1>8. CASE Saved
    <2>1. /\ UNCHANGED file /\ pc' = "idle" /\ acked' = saving
          /\ file = Some(Done(saving)) /\ onDisk' = file
      BY <1>8 DEF Saved, SyncParentDir, StorageInv
    <2>2. Good(file)' /\ Good(onDisk)'
      BY <1>1, <2>1 DEF Good, StorageInv, Done, Size
    <2>3. NotOlder(file)' /\ NotOlder(onDisk)'
      <3>1. file'[1].of = saving /\ file' # None /\ onDisk' = file'
        BY <1>4, <2>1
      <3>2. QED BY <1>1, <2>1, <3>1 DEF NotOlder
    <2>4. QED BY <1>1, <1>2, <1>5, <2>1, <2>2, <2>3 DEF StorageInv
  <1>9. QED BY <1>7, <1>8

\* An error, a dead process, a loss of power: nothing under the path is cut,
\* because all of it was synced.
LEMMA StorageFaultsPreserve ==
    ASSUME StorageInv, Fails \/ Crash \/ LosePower PROVE StorageInv'
  <1>1. UNCHANGED <<saving, acked, loaded>> /\ pc' \in {"down", "idle"}
    BY DEF Fails, Crash, LosePower
  <1>2. ReadsBack'
    BY <1>1 DEF ReadsBack, StorageInv
  <1>3. /\ file' \in {file, onDisk} /\ onDisk' \in {file, onDisk}
    <2>1. CASE Fails \/ Crash
      BY <2>1 DEF Fails, Crash, files
    <2>2. CASE LosePower
      <3>1. PICK o \in {file, onDisk} :
              \E cut \in IF o = None THEN {0} ELSE o[1].synced..o[1].written :
                 LET left == IF o = None THEN None
                             ELSE Some([o[1] EXCEPT !.written = cut, !.synced = cut])
                 IN  file' = left /\ onDisk' = left
        BY <2>2 DEF LosePower
      <3>2. CASE o = None
        BY <3>1, <3>2
      <3>3. CASE o # None
        <4>1. PICK k \in 1..saving : o = Some(Done(k))
          BY <3>3 DEF StorageInv, Good
        <4>2. k \in 1..Len(Ledgers)
          BY SavingBound
        <4>3. Size(k) \in Nat
          BY <4>2, SizeType
        <4>4. o[1] = Done(k) /\ o[1].synced = Size(k) /\ o[1].written = Size(k)
          BY <4>1, SomeIsThere, DoneFields
        <4>5. PICK cut \in Size(k)..Size(k) :
                 file' = Some([o[1] EXCEPT !.written = cut, !.synced = cut]) /\ onDisk' = file'
          BY <3>1, <3>3, <4>4
        <4>6. cut = Size(k)
          BY <4>3, <4>5
        <4>7. file' = Some(Done(k))
          BY <4>4, <4>5, <4>6, Cut
        <4>8. QED BY <4>1, <4>5, <4>7
      <3>4. QED BY <3>2, <3>3
    <2>3. QED BY <2>1, <2>2
  <1>4. Good(file)' /\ Good(onDisk)'
    BY <1>1, <1>3 DEF Good, StorageInv, Done, Size
  <1>5. acked' > 0 => NotOlder(file)' /\ NotOlder(onDisk)'
    BY <1>1, <1>3 DEF NotOlder, StorageInv
  <1>6. QED BY <1>1, <1>2, <1>4, <1>5 DEF StorageInv

\* The files under the path are whole and not older than what was acknowledged.
THEOREM StorageInvariance == StorageSpec => []StorageInv
  <1>1. StorageInit => StorageInv
    BY StorageConstants DEF StorageInit, StorageInv, Good, None, Nothing, ReadsBack
  <1>2. StorageInv /\ [StorageNext]_storageVars => StorageInv'
    <2> SUFFICES ASSUME StorageInv, [StorageNext]_storageVars PROVE StorageInv'
      OBVIOUS
    <2>1. CASE UNCHANGED storageVars
      BY <2>1 DEF storageVars, files, StorageInv, Good, NotOlder, ReadsBack
    <2>2. CASE StorageNext
      BY <2>2, LoadPreserves, WritingPreserves, RenamingPreserves, StorageFaultsPreserve
      DEF StorageNext
    <2>3. QED BY <2>1, <2>2
  <1>3. QED BY <1>1, <1>2, PTL DEF StorageSpec

\* Wherever a save is interrupted, a start finds no file or reads a ledger that
\* some save was given: for any ledgers and any number of errors, crashes and
\* losses of power.
THEOREM ReadsBackHolds == StorageSpec => []ReadsBack
  <1>1. StorageInv => ReadsBack
    BY DEF StorageInv
  <1>2. QED BY <1>1, StorageInvariance, PTL

\* Once a save has returned Ok, no crash and no loss of power brings an older
\* ledger back.
THEOREM SavedSurvivesHolds == StorageSpec => []SavedSurvives
  <1>1. StorageInv => SavedSurvives
    BY DEF StorageInv, SavedSurvives, NotOlder
  <1>2. QED BY <1>1, StorageInvariance, PTL

-----------------------------------------------------------------------------
(***************************************************************************)
(* Lists: what Kept, Unique and FlattenSeq return.                         *)
(***************************************************************************)
\* A list has positions one to its length.
LEMMA ListDomain ==
    ASSUME NEW s, IsList(s)
    PROVE  Len(s) \in Nat /\ DOMAIN s = 1..Len(s)
  BY DEF IsList

\* Whatever has such positions is a list.
LEMMA ListFrom ==
    ASSUME NEW n \in Nat, NEW s, s = [i \in 1..n |-> s[i]]
    PROVE  IsList(s) /\ Len(s) = n /\ DOMAIN s = 1..n
  <1>1. \A i \in 1..n : s[i] \in ToSet(s)
    BY DEF ToSet
  <1>2. s \in [1..n -> ToSet(s)]
    BY <1>1
  <1>3. s \in Seq(ToSet(s)) /\ Len(s) = n /\ DOMAIN s = 1..n
    BY <1>2
  <1>4. QED BY <1>3 DEF IsList

\* The concatenation of two lists is a list of the elements of both.
LEMMA ConcatLists ==
    ASSUME NEW s, NEW t, IsList(s), IsList(t)
    PROVE  IsList(s \o t) /\ ToSet(s \o t) = ToSet(s) \union ToSet(t)
  <1> DEFINE S == ToSet(s) \union ToSet(t)
  <1>1. s \in Seq(ToSet(s)) /\ t \in Seq(ToSet(t))
    BY DEF IsList
  <1>2. s \in Seq(S) /\ t \in Seq(S)
    <2>1. ToSet(s) \subseteq S /\ ToSet(t) \subseteq S
      OBVIOUS
    <2> HIDE DEF S
    <2>2. QED BY <1>1, <2>1
  <1>3. /\ Len(s) \in Nat /\ Len(t) \in Nat
        /\ DOMAIN s = 1..Len(s) /\ DOMAIN t = 1..Len(t)
        /\ DOMAIN (s \o t) = 1..(Len(s) + Len(t))
        /\ \A i \in 1..(Len(s) + Len(t)) :
              (s \o t)[i] = IF i <= Len(s) THEN s[i] ELSE t[i - Len(s)]
    BY <1>2
  <1>4. IsList(s \o t)
    <2>1. Len(s) + Len(t) \in Nat
      BY <1>3
    <2>2. s \o t \in Seq(S) /\ Len(s \o t) = Len(s) + Len(t)
      BY <1>2
    <2>3. PICK r : r = s \o t
      OBVIOUS
    <2>4. PICK n \in Nat : n = Len(s) + Len(t)
      BY <2>1
    <2>5. r \in Seq(S) /\ Len(r) = n
      BY <2>2, <2>3, <2>4
    <2> HIDE DEF S
    <2>6. r = [i \in 1..n |-> r[i]]
      BY <2>5
    <2>7. QED BY <2>3, <2>6, ListFrom
  <1>5. ToSet(s \o t) \subseteq S
    <2> SUFFICES ASSUME NEW i \in 1..(Len(s) + Len(t)) PROVE (s \o t)[i] \in S
      BY <1>3 DEF ToSet
    <2>1. CASE i <= Len(s)
      <3>1. i \in DOMAIN s /\ (s \o t)[i] = s[i]
        BY <1>3, <2>1
      <3>2. QED BY <3>1 DEF ToSet
    <2>2. CASE ~(i <= Len(s))
      <3>1. i - Len(s) \in DOMAIN t /\ (s \o t)[i] = t[i - Len(s)]
        BY <1>3, <2>2
      <3>2. QED BY <3>1 DEF ToSet
    <2>3. QED BY <2>1, <2>2
  <1>6. S \subseteq ToSet(s \o t)
    <2>1. ASSUME NEW i \in DOMAIN s PROVE s[i] \in ToSet(s \o t)
      <3>1. i \in DOMAIN (s \o t) /\ (s \o t)[i] = s[i]
        BY <1>3
      <3>2. QED BY <3>1 DEF ToSet
    <2>2. ASSUME NEW i \in DOMAIN t PROVE t[i] \in ToSet(s \o t)
      <3>1. /\ i + Len(s) \in DOMAIN (s \o t) /\ (s \o t)[i + Len(s)] = t[i]
        <4>1. i + Len(s) \in 1..(Len(s) + Len(t)) /\ ~(i + Len(s) <= Len(s))
              /\ (i + Len(s)) - Len(s) = i
          BY <1>3
        <4>2. QED BY <1>3, <4>1
      <3>2. QED BY <3>1 DEF ToSet
    <2>3. QED BY <2>1, <2>2 DEF ToSet
  <1>7. QED BY <1>4, <1>5, <1>6

\* Kept takes every one of the positions once.
LEMMA KeptIs ==
    ASSUME NEW s, NEW which, IsFiniteSet(which), \A i \in which : i \in Nat
    PROVE  \E p, m :
              /\ Enumerates(p, m, which)
              /\ Kept(s, which) = [k \in 1..m |-> s[p[k]]]
  <1> DEFINE m == Cardinality(which)
             R == {q \in which \X which : q[1] < q[2]}
             p == [k \in 1..m |->
                     CHOOSE i \in which : Cardinality({j \in which : j <= i}) = k]
  <1>2. m \in Nat
    BY FS_CardinalityType
  <1>3. \A a, b \in which : <<a, b>> \in R <=> a < b
    OBVIOUS
  <1> HIDE DEF R
  <1>5. StrictOrder(R, which)
    BY <1>3 DEF StrictOrder
  <1>6. \A i \in which : Below(R, which, i) = {j \in which : j <= i}
    <2> TAKE i \in which
    <2>1. \A j \in which : (j = i \/ <<j, i>> \in R) <=> j <= i
      BY <1>3
    <2>2. QED BY <2>1 DEF Below
  <1>7. \A k \in 1..m : \E i \in which : Cardinality({j \in which : j <= i}) = k
    <2>1. \A k \in 1..m : \E i \in which : Cardinality(Below(R, which, i)) = k
      <3> HIDE DEF p
      <3>1. QED BY <1>5, RankOnto
    <2>2. QED BY <1>6, <2>1
  <1>8. \A k \in 1..m : p[k] \in which /\ Cardinality({j \in which : j <= p[k]}) = k
    BY <1>7
  <1>9. p \in [1..m -> which]
    BY <1>8
  <1>10. \A k, l \in 1..m : p[k] = p[l] => k = l
    BY <1>8
  <1>11. \A i \in which : \E k \in 1..m : p[k] = i
    <2> TAKE i \in which
    <2>1. PICK k \in 1..m : Cardinality(Below(R, which, i)) = k
      BY <1>5, RankBounds
    <2>2. p[k] \in which /\ Cardinality(Below(R, which, p[k])) = k
      BY <1>6, <1>8
    <2> HIDE DEF p
    <2>3. p[k] = i
      <3>1. CASE <<p[k], i>> \in R
        BY <1>2, <1>5, <2>1, <2>2, <3>1, RankBounds
      <3>2. CASE <<i, p[k]>> \in R
        BY <1>2, <1>5, <2>1, <2>2, <3>2, RankBounds
      <3>3. QED BY <1>5, <2>2, <3>1, <3>2 DEF StrictOrder
    <2>4. QED BY <2>3
  <1>12. Kept(s, which) = [k \in 1..m |-> s[p[k]]]
    BY DEF Kept
  <1> HIDE DEF p, m
  <1>13. Enumerates(p, m, which)
    BY <1>2, <1>9, <1>10, <1>11 DEF Enumerates
  <1>14. QED BY <1>12, <1>13

\* Positions of a list are finitely many.
LEMMA PositionsFinite ==
    ASSUME NEW s, IsList(s), NEW which, which \subseteq DOMAIN s
    PROVE  IsFiniteSet(which) /\ \A i \in which : i \in Nat
  <1>1. Len(s) \in Nat /\ DOMAIN s = 1..Len(s)
    BY ListDomain
  <1>2. IsFiniteSet(1..Len(s))
    BY <1>1, FS_Interval
  <1>3. QED BY <1>1, <1>2, FS_Subset

\* Kept returns a list of exactly the elements at these positions.
LEMMA KeptList ==
    ASSUME NEW s, IsList(s), NEW which, which \subseteq DOMAIN s
    PROVE  IsList(Kept(s, which)) /\ ToSet(Kept(s, which)) = {s[i] : i \in which}
  <1>2. PICK p, m : Enumerates(p, m, which) /\ Kept(s, which) = [k \in 1..m |-> s[p[k]]]
    <2>1. IsFiniteSet(which) /\ \A i \in which : i \in Nat
      BY PositionsFinite
    <2>2. PICK w : w = which
      OBVIOUS
    <2>3. IsFiniteSet(w) /\ \A i \in w : i \in Nat
      BY <2>1, <2>2
    <2>4. \E p, m : Enumerates(p, m, w) /\ Kept(s, w) = [k \in 1..m |-> s[p[k]]]
      BY <2>3, KeptIs
    <2>5. QED BY <2>2, <2>4
  <1>3. PICK t : t = Kept(s, which)
    OBVIOUS
  <1>4. /\ m \in Nat /\ t = [k \in 1..m |-> t[k]] /\ DOMAIN t = 1..m
        /\ \A k \in 1..m : t[k] = s[p[k]] /\ p[k] \in which
        /\ \A i \in which : \E k \in 1..m : p[k] = i
    BY <1>2, <1>3 DEF Enumerates
  <1>5. IsList(t)
    BY <1>4, ListFrom
  <1>6. ToSet(t) \subseteq {s[i] : i \in which}
    BY <1>4 DEF ToSet
  <1>7. {s[i] : i \in which} \subseteq ToSet(t)
    <2> SUFFICES ASSUME NEW i \in which PROVE s[i] \in ToSet(t)
      OBVIOUS
    <2>1. PICK k \in 1..m : p[k] = i
      BY <1>4
    <2>2. t[k] = s[i] /\ k \in DOMAIN t
      BY <1>4, <2>1
    <2>3. QED BY <2>2 DEF ToSet
  <1>8. QED BY <1>3, <1>5, <1>6, <1>7

\* Unique returns a list of the same elements, each once.
LEMMA UniqueList ==
    ASSUME NEW s, IsList(s)
    PROVE  /\ IsList(Unique(s)) /\ ToSet(Unique(s)) = ToSet(s)
           /\ \A i, j \in DOMAIN Unique(s) : Unique(s)[i] = Unique(s)[j] => i = j
  <1> DEFINE firsts == {i \in DOMAIN s : \A j \in 1..(i - 1) : s[j] # s[i]}
  <1>1. Len(s) \in Nat /\ DOMAIN s = 1..Len(s)
    BY ListDomain
  <1>2. firsts \subseteq DOMAIN s
    BY <1>1
  <1>3. Unique(s) = Kept(s, firsts)
    BY DEF Unique
  <1>4. \A i \in DOMAIN s : \E k \in firsts : s[k] = s[i]
    <2> TAKE i \in DOMAIN s
    <2> DEFINE same == {k \in DOMAIN s : s[k] = s[i]}
    <2>1. same \in SUBSET Nat /\ same # {}
      BY <1>1
    <2>2. PICK k \in same : \A l \in same : k <= l
      BY <2>1, NatLeast
    <2>3. \A j \in 1..(k - 1) : s[j] # s[k]
      <3> SUFFICES ASSUME NEW j \in 1..(k - 1), s[j] = s[k] PROVE FALSE
        OBVIOUS
      <3>1. k \in 1..Len(s) /\ s[k] = s[i]
        BY <1>1, <2>2
      <3>2. j \in 1..Len(s) /\ j < k
        BY <1>1, <3>1
      <3>3. j \in same
        BY <1>1, <3>1, <3>2
      <3>4. k <= j
        BY <2>2, <3>3
      <3>5. QED BY <1>1, <3>1, <3>2, <3>4
    <2>4. k \in firsts /\ s[k] = s[i]
      BY <2>2, <2>3
    <2>5. QED BY <2>4
  <1>5. \A i, j \in firsts : s[i] = s[j] => i = j
    <2> SUFFICES ASSUME NEW i \in firsts, NEW j \in firsts, s[i] = s[j], i < j PROVE FALSE
      BY <1>1
    <2>1. i \in 1..(j - 1)
      BY <1>1
    <2>2. QED BY <2>1
  <1> HIDE DEF firsts
  <1>6. PICK p, m : Enumerates(p, m, firsts) /\ Kept(s, firsts) = [k \in 1..m |-> s[p[k]]]
    <2>1. IsFiniteSet(firsts) /\ \A i \in firsts : i \in Nat
      BY <1>2, PositionsFinite
    <2>2. QED BY <2>1, KeptIs
  <1>7. PICK t : t = Unique(s)
    OBVIOUS
  <1>8. /\ DOMAIN t = 1..m
        /\ \A k \in 1..m : t[k] = s[p[k]] /\ p[k] \in firsts
        /\ \A k, l \in 1..m : p[k] = p[l] => k = l
    BY <1>3, <1>6, <1>7 DEF Enumerates
  <1>9. \A i, j \in DOMAIN t : t[i] = t[j] => i = j
    BY <1>5, <1>8
  <1>10. IsList(t) /\ ToSet(t) = {s[i] : i \in firsts}
    BY <1>2, <1>3, <1>7, KeptList
  <1>11. ToSet(t) = ToSet(s)
    <2>1. {s[i] : i \in firsts} \subseteq ToSet(s)
      BY <1>2 DEF ToSet
    <2>2. ToSet(s) \subseteq {s[i] : i \in firsts}
      BY <1>4 DEF ToSet
    <2>3. QED BY <1>10, <2>1, <2>2
  <1>12. QED BY <1>7, <1>9, <1>10, <1>11

\* Joining the first lists one after the other (FlattenSeq).
Joins(f, lists, n) ==
    f = [i \in 1..n |-> IF i = 1 THEN lists[i] ELSE f[i - 1] \o lists[i]]

\* The recursion of FlattenSeq has a solution.
LEMMA JoinExists ==
    ASSUME NEW lists, NEW n \in Nat PROVE \E f : Joins(f, lists, n)
  <1> DEFINE S == {k \in Nat : \E f : Joins(f, lists, k)}
  <1>1. 0 \in S
    <2>1. Joins([i \in 1..0 |-> lists[i]], lists, 0)
      BY DEF Joins
    <2>2. QED BY <2>1
  <1>2. ASSUME NEW k \in S PROVE k + 1 \in S
    <2>1. PICK f : Joins(f, lists, k)
      OBVIOUS
    <2> DEFINE g == [i \in 1..(k + 1) |->
                        IF i <= k THEN f[i]
                        ELSE IF i = 1 THEN lists[i] ELSE f[i - 1] \o lists[i]]
    <2>2. \A i \in 1..k : f[i] = IF i = 1 THEN lists[i] ELSE f[i - 1] \o lists[i]
      BY <2>1 DEF Joins
    <2>3. ASSUME NEW i \in 1..(k + 1)
          PROVE  g[i] = IF i = 1 THEN lists[i] ELSE g[i - 1] \o lists[i]
      <3>1. CASE i = 1
        <4>1. CASE i <= k
          BY <2>2, <3>1, <4>1
        <4>2. CASE ~(i <= k)
          BY <3>1, <4>2
        <4>3. QED BY <4>1, <4>2
      <3>2. CASE i # 1
        <4>1. i - 1 \in 1..k /\ i - 1 \in 1..(k + 1) /\ i - 1 <= k
          BY <3>2
        <4>2. g[i - 1] = f[i - 1]
          BY <4>1
        <4>3. g[i] = f[i - 1] \o lists[i]
          <5>1. CASE i <= k
            <6>1. i \in 1..k /\ g[i] = f[i]
              BY <5>1
            <6> HIDE DEF g
            <6>2. QED BY <2>2, <3>2, <6>1
          <5>2. CASE ~(i <= k)
            BY <3>2, <5>2
          <5>3. QED BY <5>1, <5>2
        <4>4. QED BY <3>2, <4>2, <4>3
      <3>3. QED BY <3>1, <3>2
    <2>4. g = [i \in 1..(k + 1) |-> g[i]]
      OBVIOUS
    <2> HIDE DEF g
    <2>5. Joins(g, lists, k + 1)
      BY <2>3, <2>4 DEF Joins
    <2>6. QED BY <2>5
  <1>3. S \in SUBSET Nat
    OBVIOUS
  <1> HIDE DEF S
  <1>4. S = Nat
    BY <1>1, <1>2, <1>3, NatSet
  <1>5. QED BY <1>4 DEF S

\* FlattenSeq returns a list of the elements of all lists.
LEMMA FlattenList ==
    ASSUME NEW lists, IsList(lists), \A i \in DOMAIN lists : IsList(lists[i])
    PROVE  /\ IsList(FlattenSeq(lists))
           /\ \A x : x \in ToSet(FlattenSeq(lists)) <=> \E i \in DOMAIN lists : x \in ToSet(lists[i])
  <1> DEFINE n == Len(lists)
  <1>1. n \in Nat /\ DOMAIN lists = 1..n
    BY ListDomain
  <1>2. CASE n = 0
    <2>1. FlattenSeq(lists) = lists
      BY <1>2 DEF FlattenSeq
    <2>2. DOMAIN lists = {}
      BY <1>1, <1>2
    <2>3. ToSet(lists) = {}
      BY <2>2 DEF ToSet
    <2>4. QED BY <2>1, <2>2, <2>3
  <1>3. CASE n # 0
    <2> DEFINE f == CHOOSE g : Joins(g, lists, n)
    <2>1. FlattenSeq(lists) = f[n]
      BY <1>3 DEF FlattenSeq, Joins
    <2>2. Joins(f, lists, n)
      BY <1>1, JoinExists
    <2> HIDE DEF f
    <2>3. \A i \in 1..n : f[i] = IF i = 1 THEN lists[i] ELSE f[i - 1] \o lists[i]
      BY <2>2 DEF Joins
    <2> DEFINE Good1(k) == /\ IsList(f[k])
                           /\ \A x : x \in ToSet(f[k]) <=> \E i \in 1..k : x \in ToSet(lists[i])
               S == {k \in Nat : k + 1 <= n => Good1(k + 1)}
    <2>4. 0 \in S
      <3>1. 1 \in 1..n /\ f[1] = lists[1] /\ IsList(lists[1])
        BY <1>1, <1>3, <2>3
      <3>2. \A i \in 1..1 : i = 1
        OBVIOUS
      <3>3. Good1(1)
        BY <3>1, <3>2
      <3> HIDE DEF Good1
      <3>4. QED BY <3>3
    <2>5. ASSUME NEW k \in S PROVE k + 1 \in S
      <3>0. k \in Nat
        OBVIOUS
      <3> SUFFICES ASSUME (k + 1) + 1 <= n PROVE Good1((k + 1) + 1)
        OBVIOUS
      <3> DEFINE m == k + 1
      <3>1. m \in Nat /\ m + 1 \in 1..n /\ m + 1 # 1 /\ (m + 1) - 1 = m /\ m <= n
        BY <1>1, <3>0
      <3>2. Good1(m)
        BY <3>1
      <3>3. f[m + 1] = f[m] \o lists[m + 1]
        BY <2>3, <3>1
      <3>4. IsList(f[m]) /\ IsList(lists[m + 1])
        BY <1>1, <3>1, <3>2
      <3>5. /\ IsList(f[m + 1])
            /\ ToSet(f[m + 1]) = ToSet(f[m]) \union ToSet(lists[m + 1])
        BY <3>3, <3>4, ConcatLists
      <3>6. \A i : i \in 1..(m + 1) <=> i \in 1..m \/ i = m + 1
        BY <3>1
      <3> HIDE DEF m
      <3>7. Good1(m + 1)
        BY <3>2, <3>5, <3>6
      <3> HIDE DEF Good1
      <3>8. QED BY <3>7 DEF m
    <2>6. S \in SUBSET Nat
      OBVIOUS
    <2> HIDE DEF S
    <2>7. S = Nat
      BY <2>4, <2>5, <2>6, NatSet
    <2>8. Good1(n)
      <3>1. n - 1 \in Nat /\ (n - 1) + 1 = n
        BY <1>1, <1>3
      <3>2. n - 1 \in S
        BY <2>7, <3>1
      <3> HIDE DEF Good1
      <3>3. (n - 1) + 1 <= n => Good1((n - 1) + 1)
        BY <3>2 DEF S
      <3>4. QED BY <1>1, <3>1, <3>3
    <2>9. QED BY <1>1, <2>1, <2>8
  <1>4. QED BY <1>2, <1>3

-----------------------------------------------------------------------------
(***************************************************************************)
(* The start of a node.  A process is what run_node makes of some command  *)
(* line of its node, some key and some answer of the operating system, and *)
(* with a key file the key is the one in the file.                         *)
(***************************************************************************)
StartupInv ==
    /\ keyFile = [n \in Node |-> keyFile[n]]
    /\ process = [n \in Node |-> process[n]]
    /\ \A n \in Node : keyFile[n] # None => keyFile[n] = Some(keyFile[n][1])
    /\ \A n \in Node : process[n] # None =>
          \E a \in Args[n], ifaddrs \in Interfaces[n] : \E key :
             /\ Starts(ifaddrs, a)
             /\ process[n] = Some(Process(ifaddrs, a, key))
             /\ a.keypair => keyFile[n] = Some(key)

\* The parts of a process.
LEMMA ProcessParts ==
    ASSUME NEW ifaddrs, NEW a, NEW key, NEW p, p = Process(ifaddrs, a, key)
    PROVE  LET bind == a.listen.addr
               multicast == ResolveMulticast(ifaddrs, a)[1]
               peers == ResolvePeerAddrs(Peers(a), bind)
           IN  /\ p.args = a /\ p.key = key /\ p.chain_id = ChainId(a)
               /\ p.validators = ParseValidators(ValidatorHexes(a))
               /\ p.engine = EngineValidators(a, key)
               /\ p.produce = ResolveProduceMode(a, key)
               /\ p.multicast = multicast
               /\ p.targets = DiscoveryTargets(bind, peers, multicast)
               /\ p.families = BindFamilies(bind, peers, multicast)
  BY DEF Process

\* A key file that is there stays as it is.
LEMMA OutcomeFile ==
    ASSUME NEW n, NEW a, NEW o \in KeypairOutcomes(n, a), keyFile[n] # None
    PROVE  o.file = keyFile[n]
  BY DEF KeypairOutcomes

\* A key that a start goes on with is the one in the key file, if it has one.
LEMMA OutcomeKey ==
    ASSUME NEW n, NEW a, NEW o \in KeypairOutcomes(n, a), o.key # None, a.keypair,
           keyFile[n] # None => keyFile[n] = Some(keyFile[n][1])
    PROVE  o.file = Some(o.key[1])
  <1>1. CASE keyFile[n] # None
    <2>1. o = [key |-> LoadKeypair(keyFile[n][1], a.scheme), file |-> keyFile[n]]
      BY <1>1 DEF KeypairOutcomes
    <2>2. o.key = Some(keyFile[n][1])
      BY <2>1 DEF LoadKeypair
    <2>3. QED BY <1>1, <2>1, <2>2, SomeIsThere
  <1>2. CASE keyFile[n] = None
    <2>1. o \in CreateKeypair(n, a.scheme)
      BY <1>2 DEF KeypairOutcomes
    <2>2. QED BY <2>1 DEF CreateKeypair, Some, None
  <1>3. QED BY <1>1, <1>2

\* A file that a start leaves is an Option.
LEMMA OutcomeOption ==
    ASSUME NEW n, NEW a, NEW o \in KeypairOutcomes(n, a), o.file # None,
           keyFile[n] # None => keyFile[n] = Some(keyFile[n][1])
    PROVE  o.file = Some(o.file[1])
  <1>1. CASE o.file = keyFile[n]
    BY <1>1
  <1>2. CASE o \in CreateKeypair(n, a.scheme)
    <2>1. o.file = Some(NewKey(n, a.scheme))
      BY <1>2 DEF CreateKeypair
    <2>2. QED BY <2>1, SomeIsThere
  <1>3. QED BY <1>1, <1>2 DEF KeypairOutcomes

\* A start changes its own node only, and goes on with a fitting key.
LEMMA RunNodePreserves ==
    ASSUME StartupInv, NEW n \in Node, NEW a \in Args[n], RunNode(n, a) PROVE StartupInv'
  <1>1. PICK o \in KeypairOutcomes(n, a), ifaddrs \in Interfaces[n] :
           /\ keyFile' = [keyFile EXCEPT ![n] = o.file]
           /\ process' = IF o.key # None /\ Starts(ifaddrs, a)
                         THEN [process EXCEPT ![n] = Some(Process(ifaddrs, a, o.key[1]))]
                         ELSE process
    BY DEF RunNode
  <1>2. /\ keyFile' = [k \in Node |-> keyFile'[k]] /\ process' = [k \in Node |-> process'[k]]
        /\ keyFile'[n] = o.file
        /\ \A k \in Node : k # n => keyFile'[k] = keyFile[k] /\ process'[k] = process[k]
    BY <1>1 DEF StartupInv
  <1>3. keyFile[n] # None => keyFile[n] = Some(keyFile[n][1])
    BY DEF StartupInv
  <1>4. \A k \in Node : keyFile'[k] # None => keyFile'[k] = Some(keyFile'[k][1])
    <2> SUFFICES ASSUME NEW k \in Node, keyFile'[k] # None
                 PROVE  keyFile'[k] = Some(keyFile'[k][1])
      OBVIOUS
    <2>1. CASE k # n
      BY <1>2, <2>1 DEF StartupInv
    <2>2. CASE k = n
      <3>1. o.file # None
        BY <1>2, <2>2
      <3>2. o.file = Some(o.file[1])
        BY <1>3, <3>1, OutcomeOption
      <3>3. QED BY <1>2, <2>2, <3>2
    <2>3. QED BY <2>1, <2>2
  <1>5. process[n] = None
    BY DEF RunNode
  <1>6. \A k \in Node : process'[k] # None =>
          \E b \in Args[k], i \in Interfaces[k] : \E key :
             /\ Starts(i, b)
             /\ process'[k] = Some(Process(i, b, key))
             /\ b.keypair => keyFile'[k] = Some(key)
    <2> SUFFICES ASSUME NEW k \in Node, process'[k] # None
                 PROVE  \E b \in Args[k], i \in Interfaces[k] : \E key :
                           /\ Starts(i, b)
                           /\ process'[k] = Some(Process(i, b, key))
                           /\ b.keypair => keyFile'[k] = Some(key)
      OBVIOUS
    <2>1. CASE k # n
      BY <1>2, <2>1 DEF StartupInv
    <2>2. CASE k = n
      <3>1. o.key # None /\ Starts(ifaddrs, a)
        BY <1>1, <1>5, <2>2
      <3>2. process'[n] = Some(Process(ifaddrs, a, o.key[1]))
        BY <1>1, <3>1 DEF StartupInv
      <3>3. a.keypair => o.file = Some(o.key[1])
        BY <1>3, <3>1, OutcomeKey
      <3>4. QED BY <1>2, <2>2, <3>1, <3>2, <3>3
    <2>3. QED BY <2>1, <2>2
  <1>7. QED BY <1>2, <1>4, <1>6 DEF StartupInv

\* A process that ends leaves its key file.
LEMMA ExitPreserves ==
    ASSUME StartupInv, NEW n \in Node, Exit(n) PROVE StartupInv'
  <1>1. /\ UNCHANGED keyFile /\ process' = [k \in Node |-> process'[k]]
        /\ \A k \in Node : process'[k] = None \/ process'[k] = process[k]
    BY DEF Exit, StartupInv
  <1>2. QED BY <1>1 DEF StartupInv

\* Every process came out of a start that run_node completed.
THEOREM StartupInvariance == StartupSpec => []StartupInv
  <1>1. StartupInit => StartupInv
    BY DEF StartupInit, StartupInv, None
  <1>2. StartupInv /\ [StartupNext]_startupVars => StartupInv'
    <2> SUFFICES ASSUME StartupInv, [StartupNext]_startupVars PROVE StartupInv'
      OBVIOUS
    <2>1. CASE UNCHANGED startupVars
      BY <2>1 DEF startupVars, StartupInv
    <2>2. CASE StartupNext
      BY <2>2, RunNodePreserves, ExitPreserves DEF StartupNext
    <2>3. QED BY <2>1, <2>2
  <1>3. QED BY <1>1, <1>2, PTL DEF StartupSpec

\* A node with a key file has one identity for ever, whatever fails in between.
THEOREM OneIdentityHolds == StartupSpec => OneIdentity
  <1> DEFINE A == \A n \in Node :
          /\ keyFile[n] # None => keyFile'[n] = keyFile[n]
          /\ process'[n] # None /\ process'[n][1].args.keypair
             => keyFile'[n] = Some(process'[n][1].key)
  <1>1. StartupInv /\ StartupInv' /\ [StartupNext]_startupVars => [A]_startupVars
    <2> SUFFICES ASSUME StartupInv, StartupInv', StartupNext PROVE A
      OBVIOUS
    <2>1. ASSUME NEW n \in Node, keyFile[n] # None PROVE keyFile'[n] = keyFile[n]
      <3>1. CASE UNCHANGED keyFile
        BY <3>1
      <3>2. ASSUME NEW k \in Node, NEW a \in Args[k], RunNode(k, a)
            PROVE  keyFile'[n] = keyFile[n]
        <4>1. PICK o \in KeypairOutcomes(k, a) : keyFile' = [keyFile EXCEPT ![k] = o.file]
          BY <3>2 DEF RunNode
        <4>2. CASE k = n
          BY <2>1, <4>1, <4>2, OutcomeFile DEF StartupInv
        <4>3. CASE k # n
          BY <4>1, <4>3 DEF StartupInv
        <4>4. QED BY <4>2, <4>3
      <3>3. QED BY <3>1, <3>2 DEF StartupNext, Exit
    <2>2. ASSUME NEW n \in Node, process'[n] # None, process'[n][1].args.keypair
          PROVE  keyFile'[n] = Some(process'[n][1].key)
      <3>1. PICK a, ifaddrs, key :
               /\ process'[n] = Some(Process(ifaddrs, a, key))
               /\ a.keypair => keyFile'[n] = Some(key)
        BY <2>2 DEF StartupInv
      <3>2. process'[n][1] = Process(ifaddrs, a, key)
        BY <3>1, SomeIsThere
      <3>3. process'[n][1].args = a /\ process'[n][1].key = key
        BY <3>2, ProcessParts
      <3>4. QED BY <2>2, <3>1, <3>3
    <2>3. QED BY <2>1, <2>2
  <1> HIDE DEF A
  <1>2. StartupSpec => [][A]_startupVars
    BY <1>1, StartupInvariance, PTL DEF StartupSpec
  <1>3. QED BY <1>2 DEF OneIdentity, A

-----------------------------------------------------------------------------
(***************************************************************************)
(* Rules and validators.                                                   *)
(***************************************************************************)
\* What the start of a running process was.
LEMMA RunningStart ==
    ASSUME StartupInv, NEW n \in Running
    PROVE  /\ n \in Node
           /\ \E a \in Args[n], ifaddrs \in Interfaces[n] : \E key :
                 Starts(ifaddrs, a) /\ process[n][1] = Process(ifaddrs, a, key)
  <1>1. n \in Node /\ process[n] # None
    BY DEF Running
  <1>2. PICK a, ifaddrs, key :
           a \in Args[n] /\ ifaddrs \in Interfaces[n] /\ Starts(ifaddrs, a) /\ process[n] = Some(Process(ifaddrs, a, key))
    BY <1>1 DEF StartupInv
  <1>3. process[n][1] = Process(ifaddrs, a, key)
    BY <1>2, SomeIsThere
  <1>4. QED BY <1>1, <1>2, <1>3

\* With a manifest the validators and the chain id are the manifest's.
LEMMA ManifestRules ==
    ASSUME NEW a, NEW b, a.manifest # None, a.manifest = b.manifest
    PROVE  ValidatorHexes(a) = ValidatorHexes(b) /\ ChainId(a) = ChainId(b)
  BY DEF ValidatorHexes, ChainId, OfOption

\* A manifest gives its nodes one chain id and one list of validators.
THEOREM SameRulesHolds == StartupSpec => []SameRules
  <1>1. StartupInv => SameRules
    <2> SUFFICES ASSUME StartupInv, NEW m \in Running, NEW n \in Running, SameManifest(m, n)
                 PROVE  /\ process[m][1].chain_id = process[n][1].chain_id
                        /\ process[m][1].validators = process[n][1].validators
      BY DEF SameRules
    <2>1. PICK a, i, ka : process[m][1] = Process(i, a, ka)
      BY RunningStart
    <2>2. PICK b, j, kb : process[n][1] = Process(j, b, kb)
      BY RunningStart
    <2>3. /\ process[m][1].args = a /\ process[m][1].chain_id = ChainId(a)
          /\ process[m][1].validators = ParseValidators(ValidatorHexes(a))
      BY <2>1, ProcessParts
    <2>4. /\ process[n][1].args = b /\ process[n][1].chain_id = ChainId(b)
          /\ process[n][1].validators = ParseValidators(ValidatorHexes(b))
      BY <2>2, ProcessParts
    <2>5. a.manifest # None /\ a.manifest = b.manifest
      BY <2>3, <2>4 DEF SameManifest
    <2>6. ValidatorHexes(a) = ValidatorHexes(b) /\ ChainId(a) = ChainId(b)
      BY <2>5, ManifestRules
    <2>7. QED BY <2>3, <2>4, <2>6
  <1>2. QED BY <1>1, StartupInvariance, PTL

\* Who produces by default under a manifest proposes under its validators.
LEMMA DefaultEngine ==
    ASSUME NEW a, NEW key, a.manifest # None, a.produce = None, ResolveProduceMode(a, key)
    PROVE  EngineValidators(a, key) = ParseValidators(ValidatorHexes(a))
  <1>1. ToHex(key) \in ToSet(ValidatorHexes(a))
    BY DEF ResolveProduceMode, NodeIsValidator
  <1>2. ToSet(<< >>) = {}
    BY DEF ToSet
  <1>3. ValidatorHexes(a) # << >>
    BY <1>1, <1>2
  <1>4. QED BY <1>3 DEF EngineValidators

\* Nodes of one manifest that produce by default extend one chain.
THEOREM NoRivalChainsHolds == StartupSpec => []NoRivalChains
  <1>1. StartupInv => NoRivalChains
    <2> SUFFICES ASSUME StartupInv, NEW m \in Running, NEW n \in Running, SameManifest(m, n),
                        \A k \in {m, n} : ByDefault(k) /\ process[k][1].produce
                 PROVE  process[m][1].engine = process[n][1].engine
      BY DEF NoRivalChains
    <2>1. PICK a, i, ka : process[m][1] = Process(i, a, ka)
      BY RunningStart
    <2>2. PICK b, j, kb : process[n][1] = Process(j, b, kb)
      BY RunningStart
    <2>3. /\ process[m][1].args = a /\ process[m][1].engine = EngineValidators(a, ka)
          /\ process[m][1].produce = ResolveProduceMode(a, ka)
      BY <2>1, ProcessParts
    <2>4. /\ process[n][1].args = b /\ process[n][1].engine = EngineValidators(b, kb)
          /\ process[n][1].produce = ResolveProduceMode(b, kb)
      BY <2>2, ProcessParts
    <2>5. a.manifest # None /\ a.manifest = b.manifest
      BY <2>3, <2>4 DEF SameManifest
    <2>6. a.produce = None /\ ResolveProduceMode(a, ka)
      BY <2>3 DEF ByDefault
    <2>7. b.produce = None /\ ResolveProduceMode(b, kb)
      BY <2>4 DEF ByDefault
    <2>8. ValidatorHexes(a) = ValidatorHexes(b)
      BY <2>5, ManifestRules
    <2>9. EngineValidators(a, ka) = ParseValidators(ValidatorHexes(a))
      BY <2>5, <2>6, DefaultEngine
    <2>10. EngineValidators(b, kb) = ParseValidators(ValidatorHexes(b))
      BY <2>5, <2>7, DefaultEngine
    <2>11. QED BY <2>3, <2>4, <2>8, <2>9, <2>10
  <1>2. QED BY <1>1, StartupInvariance, PTL

\* The list the validators of a command line are taken from.
Listed(a) ==
    IF a.manifest # None THEN a.manifest[1].validators
    ELSE OfOption(a.network, << >>, ValidatorsIn) \o a.validators

\* The empty list is one.
LEMMA NoList == IsList(<< >>) /\ ToSet(<< >>) = {}
  BY DEF IsList, ToSet

\* The validators of a command line are listed in a list.
LEMMA ListedIsList ==
    ASSUME NEW n \in Node, NEW a \in Args[n] PROVE IsList(Listed(a))
  <1>1. /\ IsList(a.validators)
        /\ a.manifest # None => IsList(a.manifest[1].validators)
        /\ a.network # None => IsList(a.network[1].validators)
    BY StartupConstants DEF Lists
  <1>2. IsList(OfOption(a.network, << >>, ValidatorsIn))
    BY <1>1, NoList DEF OfOption, ValidatorsIn
  <1>3. QED BY <1>1, <1>2, ConcatLists DEF Listed

\* What normalize_hex_strings returns: the plain spelling of every key that is
\* listed, each key once.
LEMMA NormalizedHex ==
    ASSUME NEW s, IsList(s)
    PROVE  LET hexes == NormalizeHexStrings(s)
           IN  /\ IsList(hexes)
               /\ \A h \in ToSet(Nonblank(s)) : ToHex(h.key) \in ToSet(hexes)
               /\ \A i \in DOMAIN hexes : \E key : hexes[i] = ToHex(key)
               /\ \A i, j \in DOMAIN hexes : hexes[i] = hexes[j] => i = j
  <1>1. PICK t : t = Nonblank(s)
    OBVIOUS
  <1>2. IsList(t)
    <2> DEFINE which == {i \in DOMAIN s : s[i].spelling # Blank}
    <2>1. which \subseteq DOMAIN s
      OBVIOUS
    <2>2. t = Kept(s, which)
      BY <1>1 DEF Nonblank
    <2> HIDE DEF which
    <2>3. QED BY <2>1, <2>2, KeptList
  <1>3. PICK u : u = [i \in DOMAIN t |-> ToHex(t[i].key)]
    OBVIOUS
  <1>4. Len(t) \in Nat /\ DOMAIN t = 1..Len(t)
    BY <1>2, ListDomain
  <1>5. u = [i \in 1..Len(t) |-> u[i]] /\ DOMAIN u = 1..Len(t)
    BY <1>3, <1>4
  <1>6. IsList(u)
    BY <1>4, <1>5, ListFrom
  <1>7. PICK hexes : hexes = NormalizeHexStrings(s)
    OBVIOUS
  <1>8. hexes = Unique(u)
    BY <1>1, <1>3, <1>7 DEF NormalizeHexStrings
  <1>9. /\ IsList(hexes) /\ ToSet(hexes) = ToSet(u)
        /\ \A i, j \in DOMAIN hexes : hexes[i] = hexes[j] => i = j
    BY <1>6, <1>8, UniqueList
  <1>10. ASSUME NEW h \in ToSet(t) PROVE ToHex(h.key) \in ToSet(hexes)
    <2>1. PICK i \in DOMAIN t : t[i] = h
      BY DEF ToSet
    <2>2. i \in DOMAIN u /\ u[i] = ToHex(h.key)
      BY <1>3, <2>1
    <2>3. u[i] \in ToSet(u)
      BY <2>2 DEF ToSet
    <2>4. QED BY <1>9, <2>2, <2>3
  <1>11. ASSUME NEW i \in DOMAIN hexes PROVE \E key : hexes[i] = ToHex(key)
    <2>1. hexes[i] \in ToSet(u)
      BY <1>9 DEF ToSet
    <2>2. PICK k \in DOMAIN u : u[k] = hexes[i]
      BY <2>1 DEF ToSet
    <2>3. u[k] = ToHex(t[k].key)
      BY <1>3, <2>2
    <2>4. QED BY <2>2, <2>3
  <1>12. QED BY <1>1, <1>7, <1>9, <1>10, <1>11

\* The plain spelling of a key spells that key.
LEMMA HexSpells == \A key : ToHex(key).key = key
  BY DEF ToHex, Hex

\* Every validator has one turn, and who is listed produces by default.
THEOREM ListedProduceHolds == StartupSpec => []ListedProduce
  <1>1. StartupInv => ListedProduce
    <2> SUFFICES ASSUME StartupInv, NEW n \in Running, NEW p, p = process[n][1]
                 PROVE  /\ \A i, j \in DOMAIN p.engine : p.engine[i] = p.engine[j] => i = j
                        /\ p.args.produce = None /\ p.key \in ListedBy(p) => p.produce
      BY DEF ListedProduce, ByDefault
    <2>1. PICK a, ifaddrs, key : n \in Node /\ a \in Args[n] /\ p = Process(ifaddrs, a, key)
      BY RunningStart
    <2>2. /\ p.args = a /\ p.key = key /\ p.engine = EngineValidators(a, key)
          /\ p.produce = ResolveProduceMode(a, key)
      BY <2>1, ProcessParts
    <2>3. PICK hexes : hexes = ValidatorHexes(a)
      OBVIOUS
    <2>4. hexes = NormalizeHexStrings(Listed(a))
      BY <2>3 DEF ValidatorHexes, Listed
    <2>5. IsList(Listed(a))
      BY <2>1, ListedIsList
    <2>6. /\ \A h \in ToSet(Nonblank(Listed(a))) : ToHex(h.key) \in ToSet(hexes)
          /\ \A i \in DOMAIN hexes : \E k : hexes[i] = ToHex(k)
          /\ \A i, j \in DOMAIN hexes : hexes[i] = hexes[j] => i = j
      BY <2>4, <2>5, NormalizedHex
    <2>7. ASSUME NEW i \in DOMAIN p.engine, NEW j \in DOMAIN p.engine, p.engine[i] = p.engine[j]
          PROVE  i = j
      <3>1. CASE hexes = << >>
        <4>1. p.engine = <<key>>
          BY <2>2, <2>3, <3>1 DEF EngineValidators
        <4>2. QED BY <4>1, <2>7
      <3>2. CASE hexes # << >>
        <4>1. p.engine = [k \in DOMAIN hexes |-> hexes[k].key]
          BY <2>2, <2>3, <3>2 DEF EngineValidators, ParseValidators
        <4>2. i \in DOMAIN hexes /\ j \in DOMAIN hexes /\ hexes[i].key = hexes[j].key
          BY <2>7, <4>1
        <4>3. PICK k, l : hexes[i] = ToHex(k) /\ hexes[j] = ToHex(l)
          BY <2>6, <4>2
        <4>4. k = l
          BY <4>2, <4>3, HexSpells
        <4>5. QED BY <2>6, <4>2, <4>3, <4>4
      <3>3. QED BY <3>1, <3>2
    <2>8. ASSUME p.args.produce = None, p.key \in ListedBy(p) PROVE p.produce
      <3>1. PICK h \in ToSet(Nonblank(Listed(a))) : h.key = key
        BY <2>2, <2>8 DEF ListedBy, Listed
      <3>2. ToHex(key) \in ToSet(hexes)
        BY <2>6, <3>1
      <3>3. QED BY <2>2, <2>3, <2>8, <3>2 DEF ResolveProduceMode, NodeIsValidator
    <2>9. QED BY <2>7, <2>8
  <1>2. QED BY <1>1, StartupInvariance, PTL

-----------------------------------------------------------------------------
(***************************************************************************)
(* Groups and sockets.                                                     *)
(***************************************************************************)
\* A list that is not empty has an element, and the other way round.
LEMMA ListHas ==
    ASSUME NEW s, IsList(s) PROVE s # << >> <=> ToSet(s) # {}
  <1>1. Len(s) \in Nat /\ DOMAIN s = 1..Len(s) /\ s \in Seq(ToSet(s))
    BY ListDomain DEF IsList
  <1>2. ASSUME s # << >> PROVE ToSet(s) # {}
    <2>1. Len(s) # 0
      BY <1>1, <1>2
    <2>2. 1 \in DOMAIN s
      BY <1>1, <2>1
    <2>3. QED BY <2>2 DEF ToSet
  <1>3. QED BY <1>2, NoList

\* Some elements of a list, in order.
LEMMA FilterList ==
    ASSUME NEW s, IsList(s), NEW which, which \subseteq DOMAIN s
    PROVE  IsList(Kept(s, which)) /\ ToSet(Kept(s, which)) \subseteq ToSet(s)
  <1>1. PICK w : w = which
    OBVIOUS
  <1>2. w \subseteq DOMAIN s
    BY <1>1
  <1>3. IsList(Kept(s, w)) /\ ToSet(Kept(s, w)) = {s[i] : i \in w}
    BY <1>2, KeptList
  <1>4. {s[i] : i \in w} \subseteq ToSet(s)
    BY <1>2 DEF ToSet
  <1>5. QED BY <1>1, <1>3, <1>4

\* A list mapped position by position is a list.
LEMMA MapList ==
    ASSUME NEW s, IsList(s), NEW t, t = [i \in DOMAIN s |-> t[i]]
    PROVE  IsList(t) /\ DOMAIN t = DOMAIN s
  <1>1. Len(s) \in Nat /\ DOMAIN s = 1..Len(s)
    BY ListDomain
  <1>2. t = [i \in 1..Len(s) |-> t[i]]
    BY <1>1
  <1>3. QED BY <1>1, <1>2, ListFrom

\* The interfaces chosen among some candidates: at least one.
LEMMA PreferredList ==
    ASSUME NEW c, IsList(c), c # << >>
    PROVE  IsList(Preferred(c)) /\ ToSet(Preferred(c)) # {}
  <1> DEFINE which == {i \in DOMAIN c : ~c[i].loopback}
  <1>1. PICK outer : outer = Kept(c, which)
    OBVIOUS
  <1>2. IsList(outer)
    BY <1>1, FilterList
  <1>3. PICK chosen : chosen = IF outer # << >> THEN outer ELSE c
    OBVIOUS
  <1>4. IsList(chosen) /\ chosen # << >>
    BY <1>2, <1>3
  <1>5. PICK t : t = [i \in DOMAIN chosen |-> chosen[i].index]
    OBVIOUS
  <1>6. Preferred(c) = Unique(t)
    BY <1>1, <1>3, <1>5 DEF Preferred
  <1>7. IsList(t) /\ DOMAIN t = DOMAIN chosen
    BY <1>4, <1>5, MapList
  <1>8. ToSet(chosen) # {}
    BY <1>4, ListHas
  <1>9. ToSet(t) # {}
    BY <1>7, <1>8 DEF ToSet
  <1>10. QED BY <1>6, <1>7, <1>9, UniqueList

\* Interfaces that are found are a list of at least one.
LEMMA FoundList ==
    ASSUME NEW ifaddrs, NEW bind, ifaddrs # None => IsList(ifaddrs[1]),
           NEW found, found = ResolveInterfaces(ifaddrs, bind), found # None
    PROVE  IsList(found[1]) /\ ToSet(found[1]) # {}
  <1>1. CASE bind.ip.family = 6 /\ bind.scope # 0
    <2>1. found = Some(<<bind.scope>>)
      BY <1>1 DEF ResolveInterfaces
    <2>2. found[1] = <<bind.scope>>
      BY <2>1, SomeIsThere
    <2>3. IsList(<<bind.scope>>) /\ ToSet(<<bind.scope>>) # {}
      BY DEF IsList, ToSet
    <2>4. QED BY <2>2, <2>3
  <1>2. CASE ~(bind.ip.family = 6 /\ bind.scope # 0)
    <2>1. ifaddrs # None
      BY <1>2 DEF ResolveInterfaces
    <2>2. PICK all : all = Candidates(ifaddrs)
      OBVIOUS
    <2>3. IsList(all)
      <3> DEFINE usable(c) == c.up /\ c.multicast /\ c.index # 0
                 which == {i \in DOMAIN ifaddrs[1] : usable(ifaddrs[1][i])}
      <3>1. all = Kept(ifaddrs[1], which)
        BY <2>2 DEF Candidates
      <3>2. which \subseteq DOMAIN ifaddrs[1]
        OBVIOUS
      <3> HIDE DEF which
      <3>3. QED BY <2>1, <3>1, <3>2, FilterList
    <2> DEFINE ownAt == {i \in DOMAIN all : all[i].ip = bind.ip}
               v6At == {i \in DOMAIN all : all[i].ip.family = 6}
    <2>4. ownAt \subseteq DOMAIN all /\ v6At \subseteq DOMAIN all
      OBVIOUS
    <2>5. \/ Kept(all, ownAt) # << >> /\ found = Some(Preferred(Kept(all, ownAt)))
          \/ Kept(all, v6At) # << >> /\ found = Some(Preferred(Kept(all, v6At)))
      BY <1>2, <2>1, <2>2 DEF ResolveInterfaces
    <2> HIDE DEF ownAt, v6At
    <2>6. PICK which : /\ which \subseteq DOMAIN all /\ Kept(all, which) # << >>
                       /\ found = Some(Preferred(Kept(all, which)))
      BY <2>4, <2>5
    <2>7. IsList(Kept(all, which))
      BY <2>3, <2>6, FilterList
    <2>8. found[1] = Preferred(Kept(all, which))
      BY <2>6, SomeIsThere
    <2>9. QED BY <2>6, <2>7, <2>8, PreferredList
  <1>3. QED BY <1>1, <1>2

\* The groups of a list of memberships.
GroupsOf(s) == {s[i].group : i \in DOMAIN s}

\* The same, by its elements.
LEMMA GroupsBySet ==
    ASSUME NEW s PROVE GroupsOf(s) = {e.group : e \in ToSet(s)}
  BY DEF GroupsOf, ToSet

\* Expanding the groups of a configuration gives a list, and unless the missing
\* ones are skipped, memberships in all of its groups and in no other.
LEMMA ExpandList ==
    ASSUME NEW ifaddrs, NEW bind, ifaddrs # None => IsList(ifaddrs[1]),
           NEW v4, IsList(v4), NEW v6, IsList(v6), NEW best,
           NEW x, x = ExpandMulticast(ifaddrs, bind, v4, v6, best), x # None
    PROVE  /\ IsList(x[1])
           /\ ~best => GroupsOf(x[1]) = GroupsOf(v4) \union GroupsOf(v6)
  <1>1. PICK found : found = ResolveInterfaces(ifaddrs, bind)
    OBVIOUS
  <1>2. found # None => IsList(found[1]) /\ ToSet(found[1]) # {}
    BY <1>1, FoundList
  <1> DEFINE interfaces(e) == IF e.interface # None THEN <<e.interface[1]>>
                              ELSE IF found # None THEN found[1] ELSE << >>
             joined(e) == [i \in DOMAIN interfaces(e) |-> V6(e.group, interfaces(e)[i])]
             A == [i \in DOMAIN v4 |-> V4(v4[i].group, v4[i].interface)]
             J == [i \in DOMAIN v6 |-> joined(v6[i])]
  <1>3. /\ x = Some(A \o Unique(FlattenSeq(J)))
        /\ ~best => found # None \/ \A i \in DOMAIN v6 : v6[i].interface # None
    BY <1>1 DEF ExpandMulticast
  <1>4. IsList(A) /\ DOMAIN A = DOMAIN v4
    <2> DEFINE t == A
    <2>1. t = [i \in DOMAIN v4 |-> t[i]]
      OBVIOUS
    <2> HIDE DEF A
    <2>2. QED BY <2>1, MapList
  <1>5. GroupsOf(A) = GroupsOf(v4)
    <2>1. \A i \in DOMAIN v4 : A[i].group = v4[i].group
      BY DEF V4
    <2> HIDE DEF A
    <2>2. QED BY <1>4, <2>1 DEF GroupsOf
  <1>6. ASSUME NEW i \in DOMAIN v6
        PROVE  /\ IsList(joined(v6[i]))
               /\ \A y \in ToSet(joined(v6[i])) : y.group = v6[i].group
               /\ ~best => ToSet(joined(v6[i])) # {}
    <2>1. PICK e : e = v6[i]
      OBVIOUS
    <2>2. PICK l : l = interfaces(e)
      OBVIOUS
    <2>3. IsList(l) /\ (~best => ToSet(l) # {})
      <3>1. CASE e.interface # None
        <4>1. l = <<e.interface[1]>>
          BY <2>2, <3>1
        <4>2. QED BY <4>1 DEF IsList, ToSet
      <3>2. CASE e.interface = None
        <4>1. CASE found # None
          BY <1>2, <2>2, <3>2, <4>1
        <4>2. CASE found = None
          BY <1>3, <2>1, <2>2, <3>2, <4>2, NoList
        <4>3. QED BY <4>1, <4>2
      <3>3. QED BY <3>1, <3>2
    <2>4. PICK t : t = joined(e)
      OBVIOUS
    <2>5. t = [k \in DOMAIN l |-> V6(e.group, l[k])]
      BY <2>2, <2>4
    <2>6. IsList(t) /\ DOMAIN t = DOMAIN l
      BY <2>3, <2>5, MapList
    <2>7. \A k \in DOMAIN l : t[k].group = e.group
      BY <2>5 DEF V6
    <2>8. \A y \in ToSet(t) : y.group = e.group
      BY <2>6, <2>7 DEF ToSet
    <2>9. ~best => ToSet(t) # {}
      BY <2>3, <2>6 DEF ToSet
    <2>10. QED BY <2>1, <2>4, <2>6, <2>8, <2>9
  <1>7. /\ DOMAIN J = DOMAIN v6
        /\ \A i \in DOMAIN v6 : /\ IsList(J[i])
                                /\ \A y \in ToSet(J[i]) : y.group = v6[i].group
                                /\ ~best => ToSet(J[i]) # {}
    <2> HIDE DEF joined
    <2>1. QED BY <1>6
  <1>8. IsList(J)
    <2>1. J = [i \in DOMAIN v6 |-> J[i]]
      OBVIOUS
    <2> HIDE DEF J
    <2>2. QED BY <2>1, MapList
  <1> HIDE DEF A, J
  <1>9. PICK f : f = FlattenSeq(J)
    OBVIOUS
  <1>10. /\ IsList(f)
         /\ \A y : y \in ToSet(f) <=> \E i \in DOMAIN v6 : y \in ToSet(J[i])
    BY <1>7, <1>8, <1>9, FlattenList
  <1>11. IsList(Unique(f)) /\ ToSet(Unique(f)) = ToSet(f)
    BY <1>10, UniqueList
  <1>12. PICK r : r = A \o Unique(f)
    OBVIOUS
  <1>13. IsList(r) /\ ToSet(r) = ToSet(A) \union ToSet(f)
    BY <1>4, <1>11, <1>12, ConcatLists
  <1>14. x[1] = r
    BY <1>3, <1>9, <1>12, SomeIsThere
  <1>15. ASSUME ~best PROVE GroupsOf(r) = GroupsOf(v4) \union GroupsOf(v6)
    <2>1. {y.group : y \in ToSet(f)} = GroupsOf(v6)
      <3>1. ASSUME NEW y \in ToSet(f) PROVE y.group \in GroupsOf(v6)
        <4>1. PICK i \in DOMAIN v6 : y \in ToSet(J[i])
          BY <1>10
        <4>2. y.group = v6[i].group
          BY <1>7, <4>1
        <4>3. QED BY <4>2 DEF GroupsOf
      <3>2. ASSUME NEW i \in DOMAIN v6 PROVE \E y \in ToSet(f) : v6[i].group = y.group
        <4>1. PICK y : y \in ToSet(J[i])
          BY <1>7, <1>15
        <4>2. y \in ToSet(f) /\ y.group = v6[i].group
          BY <1>7, <1>10, <4>1
        <4>3. QED BY <4>2
      <3>3. QED BY <3>1, <3>2 DEF GroupsOf
    <2>2. {y.group : y \in ToSet(A)} = GroupsOf(v4)
      BY <1>5, GroupsBySet
    <2>3. GroupsOf(r) = {y.group : y \in ToSet(r)}
      BY GroupsBySet
    <2>4. QED BY <1>13, <2>1, <2>2, <2>3
  <1>16. QED BY <1>13, <1>14, <1>15

\* The configuration that is joined is one of the two files, as it lists groups.
LEMMA ExplicitLists ==
    ASSUME NEW n \in Node, NEW a \in Args[n], ExplicitMulticast(a) # None
    PROVE  IsList(ExplicitMulticast(a)[1].v4) /\ IsList(ExplicitMulticast(a)[1].v6)
  <1>1. /\ a.manifest # None => IsList(a.manifest[1].v4) /\ IsList(a.manifest[1].v6)
        /\ a.network # None => IsList(a.network[1].v4) /\ IsList(a.network[1].v6)
    BY StartupConstants DEF Lists
  <1>2. \/ ExplicitMulticast(a) = a.network /\ a.network # None
        \/ ExplicitMulticast(a) = a.manifest /\ a.manifest # None
    BY DEF ExplicitMulticast
  <1>3. QED BY <1>1, <1>2

\* The memberships of a start: a list, and those its configuration asks for.
LEMMA ResolvedMulticast ==
    ASSUME NEW n \in Node, NEW a \in Args[n], NEW ifaddrs \in Interfaces[n],
           NEW x, x = ResolveMulticast(ifaddrs, a), x # None
    PROVE  /\ IsList(x[1])
           /\ ExplicitMulticast(a) # None =>
                 GroupsOf(x[1]) = GroupsOf(ExplicitMulticast(a)[1].v4)
                                  \union GroupsOf(ExplicitMulticast(a)[1].v6)
  <1>1. ifaddrs # None => IsList(ifaddrs[1])
    BY StartupConstants
  <1>2. CASE ExplicitMulticast(a) # None
    <2>1. x = ExpandMulticast(ifaddrs, a.listen.addr, ExplicitMulticast(a)[1].v4,
                              ExplicitMulticast(a)[1].v6, FALSE)
      BY <1>2 DEF ResolveMulticast
    <2>2. IsList(ExplicitMulticast(a)[1].v4) /\ IsList(ExplicitMulticast(a)[1].v6)
      BY <1>2, ExplicitLists
    <2>3. PICK v4, v6 : v4 = ExplicitMulticast(a)[1].v4 /\ v6 = ExplicitMulticast(a)[1].v6
      OBVIOUS
    <2>4. PICK best : best = FALSE
      OBVIOUS
    <2>5. IsList(x[1]) /\ GroupsOf(x[1]) = GroupsOf(v4) \union GroupsOf(v6)
      <3>1. x = ExpandMulticast(ifaddrs, a.listen.addr, v4, v6, best) /\ IsList(v4) /\ IsList(v6)
        BY <2>1, <2>2, <2>3, <2>4
      <3>2. IsList(x[1]) /\ (~best => GroupsOf(x[1]) = GroupsOf(v4) \union GroupsOf(v6))
        BY <1>1, <3>1, ExpandList
      <3>3. QED BY <2>4, <3>2
    <2>6. QED BY <2>3, <2>5
  <1>3. CASE ExplicitMulticast(a) = None /\ DefaultDisabled(a)
    <2>1. x = Some(<< >>)
      BY <1>3 DEF ResolveMulticast
    <2>2. x[1] = << >>
      BY <2>1, SomeIsThere
    <2>3. QED BY <1>3, <2>2, NoList
  <1>4. CASE ExplicitMulticast(a) = None /\ ~DefaultDisabled(a)
    <2>1. PICK v6 : v6 = <<[group |-> DefaultGroup, interface |-> None]>>
      OBVIOUS
    <2>2. x = ExpandMulticast(ifaddrs, a.listen.addr, << >>, v6, TRUE)
      BY <1>4, <2>1 DEF ResolveMulticast
    <2>3. IsList(v6)
      BY <2>1 DEF IsList, ToSet
    <2>4. IsList(x[1])
      BY <1>1, <2>2, <2>3, NoList, ExpandList
    <2>5. QED BY <1>4, <2>4
  <1>5. QED BY <1>2, <1>3, <1>4

\* The peers of a command line are a list.
LEMMA PeersList ==
    ASSUME NEW n \in Node, NEW a \in Args[n] PROVE IsList(Peers(a))
  <1>1. IsList(a.peers) /\ (a.network # None => IsList(a.network[1].peers))
    BY StartupConstants
  <1>2. IsList(OfOption(a.network, << >>, PeersIn))
    BY <1>1, NoList DEF OfOption, PeersIn
  <1>3. PICK all : all = Unique(OfOption(a.network, << >>, PeersIn) \o a.peers)
    OBVIOUS
  <1>4. IsList(all)
    BY <1>1, <1>2, <1>3, ConcatLists, UniqueList
  <1> DEFINE which == {i \in DOMAIN all : ~SamePeerEndpoint(all[i], a)}
  <1>5. Peers(a) = Kept(all, which)
    BY <1>3 DEF Peers
  <1>6. which \subseteq DOMAIN all
    OBVIOUS
  <1> HIDE DEF which
  <1>7. QED BY <1>4, <1>5, <1>6, FilterList

\* So are the addresses they resolve to.
LEMMA PeerAddrsList ==
    ASSUME NEW peers, IsList(peers), NEW bind PROVE IsList(ResolvePeerAddrs(peers, bind))
  <1>1. PICK t : t = [i \in DOMAIN peers |-> peers[i].addr]
    OBVIOUS
  <1>2. IsList(t)
    BY <1>1, MapList
  <1>3. PICK all : all = Unique(t)
    OBVIOUS
  <1>4. IsList(all)
    BY <1>2, <1>3, UniqueList
  <1> DEFINE which == {i \in DOMAIN all : all[i] # bind}
  <1>5. ResolvePeerAddrs(peers, bind) = Kept(all, which)
    BY <1>1, <1>3 DEF ResolvePeerAddrs
  <1>6. which \subseteq DOMAIN all
    OBVIOUS
  <1> HIDE DEF which
  <1>7. QED BY <1>4, <1>5, <1>6, FilterList

\* Every discovery target has a socket of its family.
LEMMA TargetsHaveSockets ==
    ASSUME NEW bind, NEW peers, IsList(peers), NEW multicast, IsList(multicast)
    PROVE  \A i \in DOMAIN DiscoveryTargets(bind, peers, multicast) :
              DiscoveryTargets(bind, peers, multicast)[i].ip.family
                 \in BindFamilies(bind, peers, multicast)
  <1>1. PICK g : g = MulticastTargets(bind, multicast)
    OBVIOUS
  <1>2. /\ g = [i \in DOMAIN multicast |-> g[i]]
        /\ \A i \in DOMAIN multicast : g[i].ip.family = multicast[i].family
    BY <1>1 DEF MulticastTargets
  <1>3. IsList(g) /\ DOMAIN g = DOMAIN multicast
    BY <1>2, MapList
  <1>4. PICK t : t = Unique(peers \o g)
    OBVIOUS
  <1>5. IsList(peers \o g) /\ ToSet(peers \o g) = ToSet(peers) \union ToSet(g)
    BY <1>3, ConcatLists
  <1>6. ToSet(t) = ToSet(peers) \union ToSet(g)
    BY <1>4, <1>5, UniqueList
  <1>7. t = DiscoveryTargets(bind, peers, multicast)
    BY <1>1, <1>4 DEF DiscoveryTargets
  <1>8. \A y \in ToSet(peers) \union ToSet(g) :
           y.ip.family \in BindFamilies(bind, peers, multicast)
    BY <1>2, <1>3 DEF ToSet, BindFamilies
  <1>9. \A i \in DOMAIN t : t[i].ip.family \in BindFamilies(bind, peers, multicast)
    BY <1>6, <1>8 DEF ToSet
  <1>10. QED BY <1>7, <1>9

\* A running process has joined every group its configuration lists, and has a
\* socket for every discovery target.
THEOREM ReachableHolds == StartupSpec => []Reachable
  <1>1. StartupInv => Reachable
    <2> SUFFICES ASSUME StartupInv, NEW n \in Running, NEW p, p = process[n][1]
                 PROVE  /\ ExplicitMulticast(p.args) # None =>
                              Groups(ExplicitMulticast(p.args)[1])
                                 = {p.multicast[i].group : i \in DOMAIN p.multicast}
                        /\ \A i \in DOMAIN p.targets : p.targets[i].ip.family \in p.families
      BY DEF Reachable
    <2>1. PICK a, ifaddrs, key :
             /\ n \in Node /\ a \in Args[n] /\ ifaddrs \in Interfaces[n]
             /\ Starts(ifaddrs, a) /\ p = Process(ifaddrs, a, key)
      BY RunningStart
    <2>2. PICK multicast : multicast = ResolveMulticast(ifaddrs, a)[1]
      OBVIOUS
    <2>3. PICK peers : peers = ResolvePeerAddrs(Peers(a), a.listen.addr)
      OBVIOUS
    <2>4. /\ p.args = a /\ p.multicast = multicast
          /\ p.targets = DiscoveryTargets(a.listen.addr, peers, multicast)
          /\ p.families = BindFamilies(a.listen.addr, peers, multicast)
      BY <2>1, <2>2, <2>3, ProcessParts
    <2>5. /\ IsList(multicast)
          /\ ExplicitMulticast(a) # None =>
                GroupsOf(multicast) = GroupsOf(ExplicitMulticast(a)[1].v4)
                                      \union GroupsOf(ExplicitMulticast(a)[1].v6)
      BY <2>1, <2>2, ResolvedMulticast DEF Starts
    <2>6. IsList(peers)
      BY <2>1, <2>3, PeersList, PeerAddrsList
    <2>7. \A i \in DOMAIN p.targets : p.targets[i].ip.family \in p.families
      BY <2>4, <2>5, <2>6, TargetsHaveSockets
    <2>8. Groups(ExplicitMulticast(a)[1]) = GroupsOf(ExplicitMulticast(a)[1].v4)
                                            \union GroupsOf(ExplicitMulticast(a)[1].v6)
      BY DEF Groups, GroupsOf
    <2>9. GroupsOf(multicast) = {p.multicast[i].group : i \in DOMAIN p.multicast}
      BY <2>4 DEF GroupsOf
    <2>10. QED BY <2>4, <2>5, <2>7, <2>8, <2>9
  <1>2. QED BY <1>1, StartupInvariance, PTL

=============================================================================
