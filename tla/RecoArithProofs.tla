---------------------------- MODULE RecoArithProofs ----------------------------
(***************************************************************************)
(* Lemmas about the arithmetic shared by simulateHPA and the configuration *)
(* search (RecoArith), for every value of the constants: the types of the  *)
(* replica computations, and the recursive functions of the module        *)
(* characterised by their defining equations, so that the proofs about    *)
(* the loops can use them.                                                 *)
(***************************************************************************)
EXTENDS RecoArith, SequenceTheorems, WellFoundedInduction, TLAPS

\* The least element of a nonempty set of naturals (from the well-foundedness
\* of <): the step that turns "some index is wrong" into "a first index is".
LEMMA LeastIndex ==
  ASSUME NEW S \in SUBSET Nat, S # {}
  PROVE  \E k \in S : \A j \in S : k <= j
<1>1. \E x \in S : \A y \in S : ~(<<y, x>> \in OpToRel(<, Nat))
  BY NatLessThanWellFounded, WFMin
<1>2. PICK k \in S : \A y \in S : ~(<<y, k>> \in OpToRel(<, Nat))
  BY <1>1
<1>3. \A j \in S : ~(j < k)
  BY <1>2 DEF OpToRel
<1>. QED
  BY <1>3

USE SimulatorAssumption

\* A series is a finite sequence of demand values.
LEMMA SeriesIsSeq == Series \subseteq Seq(DemandValues)
<1> SUFFICES ASSUME NEW d \in Series PROVE d \in Seq(DemandValues)
  OBVIOUS
<1>1. PICK n \in 0..NPoints : d \in [1..n -> DemandValues]
  BY DEF Series
<1>2. n \in Nat
  OBVIOUS
<1>. QED
  BY <1>1, <1>2, SeqDef

\* A series is a sequence of naturals.
LEMMA SeriesIsNatSeq == Series \subseteq Seq(Nat)
<1> SUFFICES ASSUME NEW d \in Series PROVE d \in Seq(Nat)
  OBVIOUS
<1>1. PICK n \in 0..NPoints : d \in [1..n -> DemandValues]
  BY DEF Series
<1>2. d \in [1..n -> Nat]
  BY <1>1
<1>. QED
  BY <1>2, SeqDef

\* The replicas a demand value needs, at a target whose inflation is valid,
\* are a natural number, and so are the clamped resources.
LEMMA RequiredReplicasNat ==
  ASSUME NEW v \in Nat, NEW t \in Nat, EffectiveTarget(t) \in 1..100
  PROVE  /\ RequiredReplicas(v, t) \in Nat
         /\ \A lo \in 1..MaxReplicas :
              /\ Clamp(RequiredReplicas(v, t), lo) * PerPodResources \in Nat
              /\ lo * PerPodResources <= Clamp(RequiredReplicas(v, t), lo) * PerPodResources
<1>1. EffectiveTarget(t) * PerPodResources \in Nat \ {0}
  OBVIOUS
<1>2. RequiredReplicas(v, t) \in Nat
  BY <1>1 DEF RequiredReplicas, CeilDiv
<1>. QED
  BY <1>2 DEF Clamp, MinOf, MaxOf

\* The entries of a timer list carry natural firing times and deltas.
LEMMA TimerFields ==
  ASSUME NEW q \in Seq(Timer)
  PROVE  /\ Len(q) \in Nat
         /\ \A k \in 1..Len(q) : q[k].at \in Nat /\ q[k].delta \in Nat
<1>1. Len(q) \in Nat
  BY LenProperties
<1>2. \A k \in 1..Len(q) : q[k] \in Timer
  BY ElementOfSeq
<1>. QED
  BY <1>1, <1>2 DEF Timer

-----------------------------------------------------------------------------
(* The sum of the pending upscales.  PendingSum is a recursive function    *)
(* s[k] of the prefix length k; the provers cannot unfold it, so the       *)
(* lemmas below show once, by taking a least wrong index, that exactly    *)
(* one function satisfies its equation, and derive from that how the sum  *)
(* changes when the loop appends a timer or consumes the head.             *)

\* f satisfies the equation that defines the prefix sums of q's deltas.
SumFcn(q, f) == f = [k \in 0..Len(q) |-> IF k = 0 THEN 0 ELSE f[k - 1] + q[k].delta]

\* At most one function satisfies the prefix-sum equation.
LEMMA SumFcnUnique ==
  ASSUME NEW q \in Seq(Timer), NEW f, NEW g, SumFcn(q, f), SumFcn(q, g)
  PROVE  f = g
<1>1. SUFFICES \A k \in 0..Len(q) : f[k] = g[k]
  BY DEF SumFcn
<1>. DEFINE D == {k \in 0..Len(q) : f[k] # g[k]}
<1>2. SUFFICES ASSUME D # {} PROVE FALSE
  OBVIOUS
<1>0. Len(q) \in Nat
  BY TimerFields
<1>3. PICK k \in D : \A j \in D : k <= j
  <2>1. D \in SUBSET Nat
    BY <1>0
  <2>. QED
    BY <1>2, <2>1, LeastIndex
<1>4. CASE k = 0
  BY <1>3, <1>4 DEF SumFcn
<1>5. CASE k # 0
  <2>1. k - 1 \in 0..Len(q) /\ k - 1 \notin D
    BY <1>3, <1>5
  <2>2. f[k - 1] = g[k - 1]
    BY <2>1
  <2>3. f[k] = f[k - 1] + q[k].delta /\ g[k] = g[k - 1] + q[k].delta
    BY <1>3, <1>5 DEF SumFcn
  <2>. QED
    BY <2>2, <2>3, <1>3
<1>. QED
  BY <1>4, <1>5

\* Some function into Nat satisfies it, built one prefix longer at a time.
LEMMA SumFcnExists ==
  ASSUME NEW q \in Seq(Timer)
  PROVE  \E f \in [0..Len(q) -> Nat] : SumFcn(q, f)
<1>0. Len(q) \in Nat /\ \A k \in 1..Len(q) : q[k].delta \in Nat
  BY TimerFields
<1>. DEFINE Ok(n, g) == \A k \in 0..n : g[k] = IF k = 0 THEN 0 ELSE g[k - 1] + q[k].delta
            Bad == {n \in 0..Len(q) : ~\E g \in [0..n -> Nat] : Ok(n, g)}
<1>1. Bad = {}
  <2>1. SUFFICES ASSUME Bad # {} PROVE FALSE
    OBVIOUS
  <2>2. PICK n \in Bad : \A j \in Bad : n <= j
    <3>1. Bad \in SUBSET Nat
      BY <1>0
    <3>. QED
      BY <2>1, <3>1, LeastIndex
  <2>3. CASE n = 0
    <3>1. [k \in 0..0 |-> 0] \in [0..0 -> Nat] /\ Ok(0, [k \in 0..0 |-> 0])
      OBVIOUS
    <3>. QED
      BY <2>2, <2>3, <3>1
  <2>4. CASE n # 0
    <3>0. n \in 1..Len(q)
      BY <2>2, <2>4, <1>0
    <3>1. n - 1 \in 0..Len(q) /\ n - 1 \notin Bad
      <4>1. n - 1 \in 0..Len(q) /\ ~(n <= n - 1)
        BY <3>0, <1>0
      <4>. QED
        BY <4>1, <2>2
    <3>2. PICK g \in [0..n - 1 -> Nat] : Ok(n - 1, g)
      BY <3>1
    <3>. DEFINE G == [k \in 0..n |-> IF k < n THEN g[k] ELSE g[n - 1] + q[n].delta]
    <3>3. G \in [0..n -> Nat]
      BY <3>2, <2>2, <2>4, <1>0
    <3>4. Ok(n, G)
      BY <3>2, <2>2, <2>4, <1>0
    <3>. QED
      BY <3>3, <3>4, <2>2
  <2>. QED
    BY <2>3, <2>4
<1>2. PICK g \in [0..Len(q) -> Nat] : Ok(Len(q), g)
  <2>1. Len(q) \in 0..Len(q)
    BY <1>0
  <2>. QED
    BY <1>1, <2>1, Zenon
<1>3. SumFcn(q, g)
  BY <1>2 DEF SumFcn
<1>. QED
  BY <1>2, <1>3

\* Hence PendingSum is the last prefix sum of any solution, a natural.
LEMMA PendingSumIs ==
  ASSUME NEW q \in Seq(Timer), NEW f, SumFcn(q, f)
  PROVE  /\ PendingSum(q) = f[Len(q)]
         /\ PendingSum(q) \in Nat
<1>1. PICK g \in [0..Len(q) -> Nat] : SumFcn(q, g)
  BY SumFcnExists
<1>2. f = g
  BY <1>1, SumFcnUnique
<1>3. Len(q) \in Nat
  BY LenProperties
<1>4. SumFcn(q, CHOOSE s : SumFcn(q, s))
  BY <1>1
<1>5. (CHOOSE s : SumFcn(q, s)) = g
  BY <1>1, <1>4, SumFcnUnique
<1>6. PendingSum(q) = g[Len(q)]
  BY <1>5 DEF PendingSum, SumFcn
<1>7. g[Len(q)] \in Nat
  BY <1>1, <1>3
<1>. QED
  BY <1>2, <1>6, <1>7

\* The sum of a timer list is a natural.
LEMMA PendingSumNat ==
  ASSUME NEW q \in Seq(Timer)
  PROVE  PendingSum(q) \in Nat
<1>1. PICK g \in [0..Len(q) -> Nat] : SumFcn(q, g)
  BY SumFcnExists
<1>. QED
  BY <1>1, PendingSumIs

\* No timer pending, nothing requested.
LEMMA PendingSumEmpty == PendingSum(<<>>) = 0
<1>1. <<>> \in Seq(Timer) /\ Len(<<>>) = 0
  BY EmptySeq
<1>2. SumFcn(<<>>, [k \in 0..0 |-> 0])
  BY <1>1 DEF SumFcn
<1>. QED
  BY <1>1, <1>2, PendingSumIs

\* An upscale appended to the list adds its delta to the sum.
LEMMA PendingSumAppend ==
  ASSUME NEW q \in Seq(Timer), NEW x \in Timer
  PROVE  PendingSum(Append(q, x)) = PendingSum(q) + x.delta
<1>0. Len(q) \in Nat /\ \A k \in 1..Len(q) : q[k].delta \in Nat
  BY TimerFields
<1>1. PICK f \in [0..Len(q) -> Nat] : SumFcn(q, f)
  BY SumFcnExists
<1>. DEFINE F == [k \in 0..Len(q) + 1 |-> IF k <= Len(q) THEN f[k] ELSE f[Len(q)] + x.delta]
<1>2. /\ Append(q, x) \in Seq(Timer)
      /\ Len(Append(q, x)) = Len(q) + 1
      /\ \A k \in 1..Len(q) : Append(q, x)[k] = q[k]
      /\ Append(q, x)[Len(q) + 1] = x
  BY AppendProperties
<1>3. SumFcn(Append(q, x), F)
  <2>1. \A k \in 0..Len(q) : f[k] = IF k = 0 THEN 0 ELSE f[k - 1] + q[k].delta
    BY <1>1 DEF SumFcn
  <2>2. \A k \in 0..Len(q) + 1 :
          F[k] = IF k = 0 THEN 0 ELSE F[k - 1] + Append(q, x)[k].delta
    BY <2>1, <1>0, <1>2
  <2>. QED
    BY <2>2, <1>2 DEF SumFcn
<1>4. PendingSum(q) = f[Len(q)]
  BY <1>1, PendingSumIs
<1>5. PendingSum(Append(q, x)) = F[Len(q) + 1]
  BY <1>2, <1>3, PendingSumIs
<1>. QED
  BY <1>0, <1>4, <1>5

\* Consuming the head removes its delta from the sum.
LEMMA PendingSumTail ==
  ASSUME NEW q \in Seq(Timer), q # <<>>
  PROVE  PendingSum(Tail(q)) = PendingSum(q) - Head(q).delta
<1>0. Len(q) \in Nat \ {0} /\ \A k \in 1..Len(q) : q[k].delta \in Nat
  BY TimerFields, EmptySeq
<1>1. PICK f \in [0..Len(q) -> Nat] : SumFcn(q, f)
  BY SumFcnExists
<1>. DEFINE T == [k \in 0..Len(q) - 1 |-> f[k + 1] - q[1].delta]
<1>2. /\ Tail(q) \in Seq(Timer)
      /\ Len(Tail(q)) = Len(q) - 1
      /\ \A k \in 1..Len(q) - 1 : Tail(q)[k] = q[k + 1]
      /\ Head(q) = q[1]
  BY <1>0, HeadTailProperties
<1>3. SumFcn(Tail(q), T)
  <2>1. \A k \in 0..Len(q) : f[k] = IF k = 0 THEN 0 ELSE f[k - 1] + q[k].delta
    BY <1>1 DEF SumFcn
  <2>2. \A k \in 0..Len(q) - 1 :
          T[k] = IF k = 0 THEN 0 ELSE T[k - 1] + Tail(q)[k].delta
    <3>. TAKE k \in 0..Len(q) - 1
    <3>1. f[k + 1] = f[k] + q[k + 1].delta /\ f[k] \in Nat /\ q[k + 1].delta \in Nat
      BY <2>1, <1>0, <1>1
    <3>2. CASE k = 0
      <4>1. f[0] = 0
        BY <2>1, <1>0
      <4>. QED
        BY <3>1, <3>2, <4>1
    <3>3. CASE k # 0
      <4>1. f[k] = f[k - 1 + 1] /\ k - 1 \in 0..Len(q) - 1
        BY <3>3, <1>0
      <4>2. T[k - 1] = f[k] - q[1].delta
        BY <4>1
      <4>3. Tail(q)[k] = q[k + 1] /\ q[1].delta \in Nat
        BY <3>3, <1>0, <1>2
      <4>. QED
        BY <3>1, <3>3, <4>2, <4>3
    <3>. QED
      BY <3>2, <3>3
  <2>. QED
    BY <2>2, <1>2 DEF SumFcn
<1>4. PendingSum(q) = f[Len(q)]
  BY <1>1, PendingSumIs
<1>5. PendingSum(Tail(q)) = T[Len(q) - 1]
  BY <1>2, <1>3, PendingSumIs
<1>. QED
  BY <1>0, <1>2, <1>4, <1>5

\* The clamped resources never exceed the cap of the workload.
LEMMA ClampBelowCap ==
  ASSUME NEW r \in Nat, NEW lo \in 1..MaxReplicas
  PROVE  Clamp(r, lo) * PerPodResources <= MaxReplicas * PerPodResources
<1>1. Clamp(r, lo) \in 0..MaxReplicas
  BY DEF Clamp, MinOf, MaxOf
<1>. QED
  BY <1>1


-----------------------------------------------------------------------------
(* The drain count.  DueCount(q, k) is the last value of a recursive       *)
(* function c on the prefix lengths of q; as for the pending sum, exactly  *)
(* one function satisfies its equation, and its values are prefix lengths. *)

\* c satisfies the equation that defines the drain count of q at time k.
DueFcn(q, k, c) ==
  c = [n \in 0..Len(q) |->
         IF n = 0 THEN 0
         ELSE IF c[n - 1] = n - 1 /\ k >= q[n].at THEN n ELSE c[n - 1]]

\* At most one function satisfies the drain-count equation.
LEMMA DueFcnUnique ==
  ASSUME NEW q \in Seq(Timer), NEW k, NEW f, NEW g, DueFcn(q, k, f), DueFcn(q, k, g)
  PROVE  f = g
<1>0. Len(q) \in Nat
  BY TimerFields
<1>1. SUFFICES \A n \in 0..Len(q) : f[n] = g[n]
  BY DEF DueFcn
<1>. DEFINE D == {n \in 0..Len(q) : f[n] # g[n]}
<1>2. SUFFICES ASSUME D # {} PROVE FALSE
  OBVIOUS
<1>3. PICK n \in D : \A j \in D : n <= j
  <2>1. D \in SUBSET Nat
    BY <1>0
  <2>. QED
    BY <1>2, <2>1, LeastIndex
<1>4. CASE n = 0
  BY <1>3, <1>4 DEF DueFcn
<1>5. CASE n # 0
  <2>1. n - 1 \in 0..Len(q) /\ n - 1 \notin D
    BY <1>0, <1>3, <1>5
  <2>2. f[n - 1] = g[n - 1]
    BY <2>1
  <2>3. /\ f[n] = IF f[n - 1] = n - 1 /\ k >= q[n].at THEN n ELSE f[n - 1]
        /\ g[n] = IF g[n - 1] = n - 1 /\ k >= q[n].at THEN n ELSE g[n - 1]
    BY <1>0, <1>3, <1>5 DEF DueFcn
  <2>. QED
    BY <2>2, <2>3, <1>3
<1>. QED
  BY <1>4, <1>5

\* Some function into the prefix lengths satisfies it.
LEMMA DueFcnExists ==
  ASSUME NEW q \in Seq(Timer), NEW k
  PROVE  \E f \in [0..Len(q) -> 0..Len(q)] : DueFcn(q, k, f)
<1>0. Len(q) \in Nat
  BY TimerFields
<1>. DEFINE Ok(n, g) == \A j \in 0..n :
                          g[j] = IF j = 0 THEN 0
                                 ELSE IF g[j - 1] = j - 1 /\ k >= q[j].at THEN j ELSE g[j - 1]
            Bad == {n \in 0..Len(q) : ~\E g \in [0..n -> 0..n] : Ok(n, g)}
<1>1. Bad = {}
  <2>1. SUFFICES ASSUME Bad # {} PROVE FALSE
    OBVIOUS
  <2>2. PICK n \in Bad : \A j \in Bad : n <= j
    <3>1. Bad \in SUBSET Nat
      BY <1>0
    <3>. QED
      BY <2>1, <3>1, LeastIndex
  <2>3. CASE n = 0
    <3>1. [j \in 0..0 |-> 0] \in [0..0 -> 0..0] /\ Ok(0, [j \in 0..0 |-> 0])
      OBVIOUS
    <3>. QED
      BY <2>2, <2>3, <3>1
  <2>4. CASE n # 0
    <3>0. n \in 1..Len(q)
      BY <2>2, <2>4, <1>0
    <3>1. n - 1 \in 0..Len(q) /\ n - 1 \notin Bad
      <4>1. n - 1 \in 0..Len(q) /\ ~(n <= n - 1)
        BY <3>0, <1>0
      <4>. QED
        BY <4>1, <2>2
    <3>2. PICK g \in [0..n - 1 -> 0..n - 1] : Ok(n - 1, g)
      BY <3>1
    <3>. DEFINE G == [j \in 0..n |->
                       IF j < n THEN g[j]
                       ELSE IF g[n - 1] = n - 1 /\ k >= q[n].at THEN n ELSE g[n - 1]]
    <3>3. G \in [0..n -> 0..n]
      BY <3>0, <3>2
    <3>4. Ok(n, G)
      BY <3>0, <3>2
    <3>. QED
      BY <3>3, <3>4, <2>2
  <2>. QED
    BY <2>3, <2>4
<1>2. PICK g \in [0..Len(q) -> 0..Len(q)] : Ok(Len(q), g)
  <2>1. Len(q) \in 0..Len(q)
    BY <1>0
  <2>. QED
    BY <1>1, <2>1, Zenon
<1>. QED
  BY <1>2 DEF DueFcn

\* The drain consumes at most the whole list.
LEMMA DueCountRange ==
  ASSUME NEW q \in Seq(Timer), NEW k
  PROVE  DueCount(q, k) \in 0..Len(q)
<1>1. PICK g \in [0..Len(q) -> 0..Len(q)] : DueFcn(q, k, g)
  BY DueFcnExists
<1>2. (CHOOSE c : DueFcn(q, k, c)) = g
  BY <1>1, DueFcnUnique
<1>3. DueCount(q, k) = g[Len(q)]
  BY <1>2 DEF DueCount, DueFcn
<1>4. Len(q) \in Nat
  BY TimerFields
<1>. QED
  BY <1>1, <1>3, <1>4


\* The drain count is the length of the prefix of due timers that ends at
\* the first timer not yet due (or at the end of the list).
LEMMA DueCountIs ==
  ASSUME NEW q \in Seq(Timer), NEW k \in Nat, NEW j \in 0..Len(q),
         \A l \in 1..j : q[l].at <= k,
         j = Len(q) \/ q[j + 1].at > k
  PROVE  DueCount(q, k) = j
<1>0. Len(q) \in Nat /\ \A l \in 1..Len(q) : q[l].at \in Nat
  BY TimerFields
<1>. DEFINE F == [n \in 0..Len(q) |-> IF n <= j THEN n ELSE j]
<1>1. DueFcn(q, k, F)
  <2>1. \A n \in 0..Len(q) :
          F[n] = IF n = 0 THEN 0
                 ELSE IF F[n - 1] = n - 1 /\ k >= q[n].at THEN n ELSE F[n - 1]
    <3>. TAKE n \in 0..Len(q)
    <3>1. CASE n = 0
      BY <3>1
    <3>2. CASE n \in 1..j
      BY <3>2, <1>0
    <3>3. CASE n = j + 1
      <4>1. q[j + 1].at > k
        BY <3>3, <1>0
      <4>. QED
        BY <3>3, <4>1, <1>0
    <3>4. CASE n > j + 1
      BY <3>4, <1>0
    <3>. QED
      BY <3>1, <3>2, <3>3, <3>4, <1>0
  <2>. QED
    BY <2>1 DEF DueFcn
<1>2. (CHOOSE c : DueFcn(q, k, c)) = F
  BY <1>1, DueFcnUnique
<1>3. DueCount(q, k) = F[Len(q)]
  BY <1>2 DEF DueCount, DueFcn
<1>. QED
  BY <1>0, <1>3

-----------------------------------------------------------------------------
(* simulateHPA as a function.  One turn of the loop body keeps the state   *)
(* of the simulation well typed; the per-point states st of Simulate are   *)
(* the unique solution of their equation, so the supply and the observed   *)
(* floor it returns are a series of naturals and a natural.               *)

\* The state of the simulation after a point.
StRec == [ready : Nat, timers : Seq(Timer), calcMin : Nat, out : Seq(Nat)]

\* A slice of a timer list is a timer list.
LEMMA TimerSlice ==
  ASSUME NEW q \in Seq(Timer), NEW a \in Int, NEW b \in Int,
         1 <= a, b <= Len(q)
  PROVE  SubSeq(q, a, b) \in Seq(Timer)
<1>1. \A j \in a..b : q[j] \in Timer
  BY ElementOfSeq
<1>. QED
  BY <1>1, SubSeqProperties

\* The drain loop consumes a timer list from the front: the consumed prefix
\* grows by the head of the rest, which loses it.
LEMMA SliceStep ==
  ASSUME NEW q \in Seq(Timer), NEW j \in Nat, j < Len(q)
  PROVE  /\ SubSeq(q, 1, j + 1) = Append(SubSeq(q, 1, j), q[j + 1])
         /\ SubSeq(q, j + 1, Len(q)) # <<>>
         /\ Head(SubSeq(q, j + 1, Len(q))) = q[j + 1]
         /\ Tail(SubSeq(q, j + 1, Len(q))) = SubSeq(q, j + 2, Len(q))
<1>0. Len(q) \in Nat /\ q[j + 1] \in Timer
  BY LenProperties, ElementOfSeq
<1>1. SubSeq(q, 1, j + 1) = SubSeq(q, 1, j) \o <<q[j + 1]>>
  BY <1>0, SubSeqRecursiveSecond
<1>2. SubSeq(q, 1, j) \in Seq(Timer)
  BY <1>0, TimerSlice
<1>3. SubSeq(q, 1, j) \o <<q[j + 1]>> = Append(SubSeq(q, 1, j), q[j + 1])
  BY <1>0, <1>2, AppendIsConcat
<1>4. Len(SubSeq(q, j + 1, Len(q))) = Len(q) - j
  BY <1>0, SubSeqProperties, ElementOfSeq
<1>5. /\ Head(SubSeq(q, j + 1, Len(q))) = q[j + 1]
      /\ Tail(SubSeq(q, j + 1, Len(q))) = SubSeq(q, j + 1 + 1, Len(q))
  BY <1>0, HeadTailOfSubSeq
<1>. QED
  BY <1>0, <1>1, <1>3, <1>4, <1>5

\* The slices at the two ends of a timer list.
LEMMA SliceEnds ==
  ASSUME NEW q \in Seq(Timer)
  PROVE  /\ SubSeq(q, 1, 0) = <<>>
         /\ SubSeq(q, 1, Len(q)) = q
         /\ SubSeq(q, Len(q) + 1, Len(q)) = <<>>
<1>0. Len(q) \in Nat
  BY LenProperties
<1>. QED
  BY <1>0, SubSeqEmpty, SubSeqFull

\* The rest of the list is empty only when the whole list is consumed.
LEMMA SliceEmpty ==
  ASSUME NEW q \in Seq(Timer), NEW j \in 0..Len(q), SubSeq(q, j + 1, Len(q)) = <<>>
  PROVE  j = Len(q)
<1>0. Len(q) \in Nat
  BY LenProperties
<1>1. Len(SubSeq(q, j + 1, Len(q))) = IF j + 1 <= Len(q) THEN Len(q) - j ELSE 0
  BY <1>0, SubSeqProperties, ElementOfSeq
<1>2. Len(SubSeq(q, j + 1, Len(q))) = 0
  BY EmptySeq
<1>. QED
  BY <1>0, <1>1, <1>2

\* One turn of the loop body for point k keeps the simulation state typed.
LEMMA SimStepType ==
  ASSUME NEW st \in StRec, NEW d \in Seq(Nat), NEW k \in 1..Len(d),
         NEW t \in Nat, EffectiveTarget(t) \in 1..100, NEW mr \in 1..MaxReplicas
  PROVE  SimStep(st, d, k, t, mr) \in StRec
<1>. DEFINE due    == DueCount(st.timers, k)
            rdy    == st.ready + PendingSum(SubSeq(st.timers, 1, due))
            q      == SubSeq(st.timers, due + 1, Len(st.timers))
            r      == RequiredReplicas(d[k], t)
            newRes == Clamp(r, mr) * PerPodResources
            delta  == newRes - rdy - PendingSum(q)
            rdy2   == IF newRes > rdy THEN rdy ELSE newRes
            tms    == IF ~(newRes > rdy) THEN <<>>
                      ELSE IF delta > 0 THEN Append(q, [at |-> k + ACL, delta |-> delta])
                      ELSE q
<1>0. st.ready \in Nat /\ st.timers \in Seq(Timer) /\ st.calcMin \in Nat /\ st.out \in Seq(Nat)
  BY DEF StRec
<1>1. due \in 0..Len(st.timers) /\ Len(st.timers) \in Nat
  BY <1>0, DueCountRange, TimerFields
<1>2. SubSeq(st.timers, 1, due) \in Seq(Timer) /\ q \in Seq(Timer)
  BY <1>0, <1>1, TimerSlice
<1>3. rdy \in Nat /\ PendingSum(q) \in Nat
  <2>1. PendingSum(SubSeq(st.timers, 1, due)) \in Nat
    BY <1>2, PendingSumNat
  <2>2. PendingSum(q) \in Nat
    BY <1>2, PendingSumNat
  <2>. QED
    BY <1>0, <2>1, <2>2
<1>4. d[k] \in Nat
  BY ElementOfSeq
<1>5. r \in Nat /\ newRes \in Nat
  BY <1>4, RequiredReplicasNat
<1>6. rdy2 \in Nat
  BY <1>3, <1>5
<1>7. tms \in Seq(Timer)
  <2>1. delta > 0 => [at |-> k + ACL, delta |-> delta] \in Timer
    BY <1>3, <1>5 DEF Timer
  <2>. QED
    BY <1>2, <2>1, AppendProperties, EmptySeq
<1>8. MinOf(st.calcMin, r) \in Nat /\ Append(st.out, rdy2) \in Seq(Nat)
  BY <1>0, <1>5, <1>6, AppendProperties DEF MinOf
<1>9. SimStep(st, d, k, t, mr) =
        [ready |-> rdy2, timers |-> tms, calcMin |-> MinOf(st.calcMin, r),
         out |-> Append(st.out, rdy2)]
  BY DEF SimStep
<1>10. [ready |-> rdy2, timers |-> tms, calcMin |-> MinOf(st.calcMin, r),
        out |-> Append(st.out, rdy2)] \in StRec
  BY <1>6, <1>7, <1>8 DEF StRec
<1>. QED
  BY <1>9, <1>10


\* The loop body for point k once the due timers are drained: rdy is the
\* drained readyResources and q the rest of the timer list.
StepFrom(st, d, k, t, mr, rdy, q) ==
  LET r      == RequiredReplicas(d[k], t)
      newRes == Clamp(r, mr) * PerPodResources
      delta  == newRes - rdy - PendingSum(q)
      rdy2   == IF newRes > rdy THEN rdy ELSE newRes
  IN  [ready   |-> rdy2,
       timers  |-> IF ~(newRes > rdy) THEN <<>>
                   ELSE IF delta > 0 THEN Append(q, [at |-> k + ACL, delta |-> delta])
                   ELSE q,
       calcMin |-> MinOf(st.calcMin, r),
       out     |-> Append(st.out, rdy2)]

\* SimStep drains the due prefix of the timer list, then takes that body.
LEMMA SimStepIsStepFrom ==
  ASSUME NEW st, NEW d, NEW k, NEW t, NEW mr
  PROVE  SimStep(st, d, k, t, mr) =
           StepFrom(st, d, k, t, mr,
                    st.ready + PendingSum(SubSeq(st.timers, 1, DueCount(st.timers, k))),
                    SubSeq(st.timers, DueCount(st.timers, k) + 1, Len(st.timers)))
BY DEF SimStep, StepFrom

\* The state after the first point, which bootstraps readyResources.
SimInit(d, t, mr) ==
  [ready   |-> Clamp(RequiredReplicas(d[1], t), mr) * PerPodResources,
   timers  |-> <<>>,
   calcMin |-> RequiredReplicas(d[1], t),
   out     |-> <<Clamp(RequiredReplicas(d[1], t), mr) * PerPodResources>>]

\* f satisfies the equation that defines the per-point states of Simulate.
StFcn(d, t, mr, f) ==
  f = [k \in 1..Len(d) |-> IF k = 1 THEN SimInit(d, t, mr) ELSE SimStep(f[k - 1], d, k, t, mr)]

\* At most one function satisfies the per-point equation.
LEMMA StFcnUnique ==
  ASSUME NEW d \in Seq(Nat), NEW t, NEW mr, NEW f, NEW g,
         StFcn(d, t, mr, f), StFcn(d, t, mr, g)
  PROVE  f = g
<1>0. Len(d) \in Nat
  BY LenProperties
<1>1. SUFFICES \A k \in 1..Len(d) : f[k] = g[k]
  BY DEF StFcn
<1>. DEFINE D == {k \in 1..Len(d) : f[k] # g[k]}
<1>2. SUFFICES ASSUME D # {} PROVE FALSE
  OBVIOUS
<1>3. PICK k \in D : \A j \in D : k <= j
  <2>1. D \in SUBSET Nat
    BY <1>0
  <2>. QED
    BY <1>2, <2>1, LeastIndex
<1>4. CASE k = 1
  BY <1>3, <1>4 DEF StFcn
<1>5. CASE k # 1
  <2>1. k - 1 \in 1..Len(d) /\ k - 1 \notin D
    BY <1>0, <1>3, <1>5
  <2>2. f[k - 1] = g[k - 1]
    BY <2>1
  <2>3. f[k] = SimStep(f[k - 1], d, k, t, mr) /\ g[k] = SimStep(g[k - 1], d, k, t, mr)
    BY <1>0, <1>3, <1>5 DEF StFcn
  <2>. QED
    BY <2>2, <2>3, <1>3
<1>. QED
  BY <1>4, <1>5

\* Some function into the typed states satisfies it, for a valid target.
LEMMA StFcnExists ==
  ASSUME NEW d \in Seq(Nat), Len(d) > 0,
         NEW t \in Nat, EffectiveTarget(t) \in 1..100, NEW mr \in 1..MaxReplicas
  PROVE  \E f \in [1..Len(d) -> StRec] : StFcn(d, t, mr, f)
<1>0. Len(d) \in Nat
  BY LenProperties
<1>. DEFINE Ok(n, g) == \A j \in 1..n :
                          g[j] = IF j = 1 THEN SimInit(d, t, mr) ELSE SimStep(g[j - 1], d, j, t, mr)
            Bad == {n \in 1..Len(d) : ~\E g \in [1..n -> StRec] : Ok(n, g)}
<1>1. SimInit(d, t, mr) \in StRec
  <2>1. d[1] \in Nat
    BY ElementOfSeq
  <2>2. /\ RequiredReplicas(d[1], t) \in Nat
        /\ Clamp(RequiredReplicas(d[1], t), mr) * PerPodResources \in Nat
    BY <2>1, RequiredReplicasNat
  <2>. QED
    BY <2>2, EmptySeq DEF SimInit, StRec
<1>2. Bad = {}
  <2>1. SUFFICES ASSUME Bad # {} PROVE FALSE
    OBVIOUS
  <2>2. PICK n \in Bad : \A j \in Bad : n <= j
    <3>1. Bad \in SUBSET Nat
      BY <1>0
    <3>. QED
      BY <2>1, <3>1, LeastIndex
  <2>3. CASE n = 1
    <3>1. [j \in 1..1 |-> SimInit(d, t, mr)] \in [1..1 -> StRec]
      BY <1>1
    <3>2. Ok(1, [j \in 1..1 |-> SimInit(d, t, mr)])
      OBVIOUS
    <3>. QED
      BY <2>2, <2>3, <3>1, <3>2
  <2>4. CASE n # 1
    <3>0. n \in 2..Len(d)
      BY <2>2, <2>4, <1>0
    <3>1. n - 1 \in 1..Len(d) /\ n - 1 \notin Bad
      <4>1. n - 1 \in 1..Len(d) /\ ~(n <= n - 1)
        BY <3>0, <1>0
      <4>. QED
        BY <4>1, <2>2
    <3>2. PICK g \in [1..n - 1 -> StRec] : Ok(n - 1, g)
      BY <3>1
    <3>. DEFINE G == [j \in 1..n |-> IF j < n THEN g[j] ELSE SimStep(g[n - 1], d, n, t, mr)]
    <3>3. SimStep(g[n - 1], d, n, t, mr) \in StRec
      <4>1. g[n - 1] \in StRec /\ n \in 1..Len(d)
        BY <3>0, <3>2
      <4>. QED
        BY <4>1, SimStepType
    <3>4. G \in [1..n -> StRec]
      BY <3>0, <3>2, <3>3
    <3>5. Ok(n, G)
      BY <3>0, <3>2
    <3>. QED
      BY <3>4, <3>5, <2>2
  <2>. QED
    BY <2>3, <2>4
<1>3. PICK g \in [1..Len(d) -> StRec] : Ok(Len(d), g)
  <2>1. Len(d) \in 1..Len(d)
    BY <1>0
  <2>. QED
    BY <1>2, <2>1, Zenon
<1>. QED
  BY <1>3 DEF StFcn

\* simulateHPA returns a series of naturals and a natural floor whenever
\* it does not fail.
LEMMA SimulateType ==
  ASSUME NEW d \in Seq(Nat), NEW t \in Nat, NEW mr \in 1..MaxReplicas,
         ~Simulate(d, t, mr).err
  PROVE  /\ Simulate(d, t, mr).supply \in Seq(Nat)
         /\ Simulate(d, t, mr).calcMin \in Nat
<1>1. CASE Len(d) = 0
  <2>1. Simulate(d, t, mr) = [supply |-> <<>>, calcMin |-> 0, err |-> FALSE]
    BY <1>1 DEF Simulate
  <2>. QED
    BY <2>1, EmptySeq
<1>2. CASE Len(d) # 0
  <2>1. EffectiveTarget(t) \in 1..100 /\ Len(d) > 0
    <3>1. Len(d) \in Nat
      BY LenProperties
    <3>. QED
      BY <1>2, <3>1 DEF Simulate
  <2>2. PICK g \in [1..Len(d) -> StRec] : StFcn(d, t, mr, g)
    BY <2>1, StFcnExists
  <2>3. (CHOOSE st : StFcn(d, t, mr, st)) = g
    BY <2>2, StFcnUnique
  <2>4. /\ Simulate(d, t, mr).supply = g[Len(d)].out
        /\ Simulate(d, t, mr).calcMin = g[Len(d)].calcMin
    BY <1>2, <2>1, <2>3 DEF Simulate, StFcn, SimInit
  <2>5. g[Len(d)] \in StRec
    BY <2>1, <2>2
  <2>. QED
    BY <2>4, <2>5 DEF StRec
<1>. QED
  BY <1>1, <1>2


\* The per-point states of simulateHPA on (d, t, mr).
SimStates(d, t, mr) == CHOOSE st : StFcn(d, t, mr, st)

\* For a nonempty series and a valid target they solve the equation, are
\* typed, and simulateHPA returns the last of them.
LEMMA SimStatesFacts ==
  ASSUME NEW d \in Seq(Nat), Len(d) > 0,
         NEW t \in Nat, EffectiveTarget(t) \in 1..100, NEW mr \in 1..MaxReplicas
  PROVE  /\ SimStates(d, t, mr) \in [1..Len(d) -> StRec]
         /\ SimStates(d, t, mr)[1] = SimInit(d, t, mr)
         /\ \A k \in 2..Len(d) :
              SimStates(d, t, mr)[k] = SimStep(SimStates(d, t, mr)[k - 1], d, k, t, mr)
         /\ ~Simulate(d, t, mr).err
         /\ Simulate(d, t, mr).supply = SimStates(d, t, mr)[Len(d)].out
         /\ Simulate(d, t, mr).calcMin = SimStates(d, t, mr)[Len(d)].calcMin
<1>0. Len(d) \in Nat
  BY LenProperties
<1>1. PICK g \in [1..Len(d) -> StRec] : StFcn(d, t, mr, g)
  BY StFcnExists
<1>2. SimStates(d, t, mr) = g
  BY <1>1, StFcnUnique DEF SimStates
<1>3. g[1] = SimInit(d, t, mr)
  <2>1. 1 \in 1..Len(d)
    BY <1>0
  <2>. QED
    BY <1>1, <2>1 DEF StFcn
<1>5. \A k \in 2..Len(d) : g[k] = SimStep(g[k - 1], d, k, t, mr)
  <2>. TAKE k \in 2..Len(d)
  <2>1. k \in 1..Len(d) /\ k # 1
    BY <1>0
  <2>. QED
    BY <1>1, <2>1 DEF StFcn
<1>4. /\ ~Simulate(d, t, mr).err
      /\ Simulate(d, t, mr).supply = g[Len(d)].out
      /\ Simulate(d, t, mr).calcMin = g[Len(d)].calcMin
  <2>1. (CHOOSE st : StFcn(d, t, mr, st)) = g
    BY <1>2 DEF SimStates
  <2>2. Len(d) # 0
    BY <1>0
  <2>. QED
    BY <2>1, <2>2 DEF Simulate, StFcn, SimInit
<1>. QED
  BY <1>1, <1>2, <1>3, <1>4, <1>5

-----------------------------------------------------------------------------
(* The savings of a simulated series: the sum s of calculateSavings is the *)
(* unique solution of its equation, an integer.                            *)

\* f satisfies the equation that defines the prefix savings of rs.
SavFcn(rs, f) ==
  f = [k \in 0..Len(rs) |-> IF k = 0 THEN 0 ELSE f[k - 1] + (MaxReplicas * PerPodResources - rs[k])]

\* At most one function satisfies the savings equation.
LEMMA SavFcnUnique ==
  ASSUME NEW rs \in Seq(Nat), NEW f, NEW g, SavFcn(rs, f), SavFcn(rs, g)
  PROVE  f = g
<1>0. Len(rs) \in Nat
  BY LenProperties
<1>1. SUFFICES \A k \in 0..Len(rs) : f[k] = g[k]
  BY DEF SavFcn
<1>. DEFINE D == {k \in 0..Len(rs) : f[k] # g[k]}
<1>2. SUFFICES ASSUME D # {} PROVE FALSE
  OBVIOUS
<1>3. PICK k \in D : \A j \in D : k <= j
  <2>1. D \in SUBSET Nat
    BY <1>0
  <2>. QED
    BY <1>2, <2>1, LeastIndex
<1>4. CASE k = 0
  BY <1>3, <1>4 DEF SavFcn
<1>5. CASE k # 0
  <2>1. k - 1 \in 0..Len(rs) /\ k - 1 \notin D
    BY <1>0, <1>3, <1>5
  <2>2. f[k - 1] = g[k - 1]
    BY <2>1
  <2>3. /\ f[k] = f[k - 1] + (MaxReplicas * PerPodResources - rs[k])
        /\ g[k] = g[k - 1] + (MaxReplicas * PerPodResources - rs[k])
    BY <1>0, <1>3, <1>5 DEF SavFcn
  <2>. QED
    BY <2>2, <2>3, <1>3
<1>. QED
  BY <1>4, <1>5

\* Some function into the integers satisfies it.
LEMMA SavFcnExists ==
  ASSUME NEW rs \in Seq(Nat)
  PROVE  \E f \in [0..Len(rs) -> Int] : SavFcn(rs, f)
<1>0. Len(rs) \in Nat /\ \A k \in 1..Len(rs) : rs[k] \in Nat
  BY LenProperties, ElementOfSeq
<1>. DEFINE cap == MaxReplicas * PerPodResources
            Ok(n, g) == \A j \in 0..n : g[j] = IF j = 0 THEN 0 ELSE g[j - 1] + (cap - rs[j])
            Bad == {n \in 0..Len(rs) : ~\E g \in [0..n -> Int] : Ok(n, g)}
<1>1. Bad = {}
  <2>1. SUFFICES ASSUME Bad # {} PROVE FALSE
    OBVIOUS
  <2>2. PICK n \in Bad : \A j \in Bad : n <= j
    <3>1. Bad \in SUBSET Nat
      BY <1>0
    <3>. QED
      BY <2>1, <3>1, LeastIndex
  <2>3. CASE n = 0
    <3>1. [j \in 0..0 |-> 0] \in [0..0 -> Int] /\ Ok(0, [j \in 0..0 |-> 0])
      OBVIOUS
    <3>. QED
      BY <2>2, <2>3, <3>1
  <2>4. CASE n # 0
    <3>0. n \in 1..Len(rs)
      BY <2>2, <2>4, <1>0
    <3>1. n - 1 \in 0..Len(rs) /\ n - 1 \notin Bad
      <4>1. n - 1 \in 0..Len(rs) /\ ~(n <= n - 1)
        BY <3>0, <1>0
      <4>. QED
        BY <4>1, <2>2
    <3>2. PICK g \in [0..n - 1 -> Int] : Ok(n - 1, g)
      BY <3>1
    <3>. DEFINE G == [j \in 0..n |-> IF j < n THEN g[j] ELSE g[n - 1] + (cap - rs[n])]
    <3>3. G \in [0..n -> Int]
      BY <3>0, <3>2, <1>0
    <3>4. Ok(n, G)
      BY <3>0, <3>2
    <3>. QED
      BY <3>3, <3>4, <2>2
  <2>. QED
    BY <2>3, <2>4
<1>2. PICK g \in [0..Len(rs) -> Int] : Ok(Len(rs), g)
  <2>1. Len(rs) \in 0..Len(rs)
    BY <1>0
  <2>. QED
    BY <1>1, <2>1, Zenon
<1>. QED
  BY <1>2 DEF SavFcn

\* The savings of a series of ready resources are an integer.
LEMMA SavingsInt ==
  ASSUME NEW rs \in Seq(Nat)
  PROVE  Savings(rs) \in Int
<1>1. PICK g \in [0..Len(rs) -> Int] : SavFcn(rs, g)
  BY SavFcnExists
<1>2. (CHOOSE s : SavFcn(rs, s)) = g
  BY <1>1, SavFcnUnique
<1>3. Savings(rs) = g[Len(rs)]
  BY <1>2 DEF Savings, SavFcn
<1>4. Len(rs) \in Nat
  BY LenProperties
<1>. QED
  BY <1>1, <1>3, <1>4

=============================================================================
