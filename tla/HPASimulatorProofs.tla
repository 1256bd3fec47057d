------------------------- MODULE HPASimulatorProofs -------------------------
(***************************************************************************)
(* Proofs about the simulateHPA loop (HPASimulator), for every value of    *)
(* the constants: the variables keep their types, the timer list stays     *)
(* ordered by firing time, and hence no due upscale is left in the list    *)
(* when the scaling decision for a point is taken.                         *)
(***************************************************************************)
EXTENDS HPASimulator, RecoArithProofs

USE SimulatorAssumption, TargetsAssumption

\* The inductive invariant: the types, the order of the timer list, and
\* what the program counter says about the loop.
IInv ==
  /\ TypeOK
  /\ TimersOrdered
  /\ demand \in Seq(DemandValues)
  /\ pc = "start" => timers = <<>>
  /\ pc = "loop" => /\ EffectiveTarget(target) \in 1..100
                    /\ i >= 2

LEMMA InitIInv == Init => IInv
<1> SUFFICES ASSUME Init PROVE IInv
  OBVIOUS
<1>1. demand \in Seq(DemandValues)
  BY SeriesIsSeq DEF Init
<1>. QED
  BY <1>1 DEF Init, IInv, TypeOK, TimersOrdered

\* The steps that leave the loop's data alone: the call's end and its
\* argument checks.
LEMMA FrameIInv ==
  ASSUME IInv,
         UNCHANGED <<demand, target, minReplicas, i, ready, timers, calcMin, simulated>>,
         pc' \in {"done", "error"}
  PROVE  IInv'
BY DEF IInv, TypeOK, TimersOrdered

LEMMA NextIInv == IInv /\ [Next]_vars => IInv'
<1> SUFFICES ASSUME IInv, [Next]_vars PROVE IInv'
  OBVIOUS
<1>0. /\ demand \in Series /\ demand \in Seq(DemandValues)
      /\ target \in Targets /\ target \in Nat
      /\ minReplicas \in 1..MaxReplicas
      /\ i \in Nat \ {0} /\ ready \in Nat /\ calcMin \in Nat
      /\ timers \in Seq(Timer) /\ simulated \in Seq(Nat)
  BY DEF IInv, TypeOK
<1>1. CASE Start
  <2>1. CASE Len(demand) = 0 \/ EffectiveTarget(target) \notin 1..100
    BY <1>1, <2>1, FrameIInv DEF Start
  <2>2. CASE Len(demand) > 0 /\ EffectiveTarget(target) \in 1..100
    <3>. DEFINE r == RequiredReplicas(demand[1], target)
    <3>1. /\ ready' = Clamp(r, minReplicas) * PerPodResources
          /\ calcMin' = r
          /\ simulated' = <<ready'>>
          /\ i' = 2 /\ pc' = "loop"
          /\ UNCHANGED <<demand, target, minReplicas, timers>>
      BY <1>1, <2>2 DEF Start
    <3>2. demand[1] \in Nat
      <4>1. 1 \in 1..Len(demand)
        BY <1>0, <2>2, LenProperties
      <4>. QED
        BY <1>0, <4>1, ElementOfSeq
    <3>3. r \in Nat /\ ready' \in Nat
      BY <1>0, <2>2, <3>1, <3>2, RequiredReplicasNat
    <3>4. timers' = <<>>
      BY <1>1, <3>1 DEF IInv, Start
    <3>. QED
      BY <1>0, <2>2, <3>1, <3>3, <3>4 DEF IInv, TypeOK, TimersOrdered
  <2>. QED
    BY <2>1, <2>2
<1>2. CASE ConsumeTimer
  <2>1. timers /= <<>> /\ i >= Head(timers).at
    BY <1>2 DEF ConsumeTimer, HeadDue
  <2>2. /\ ready' = ready + Head(timers).delta
        /\ timers' = Tail(timers)
        /\ UNCHANGED <<demand, target, minReplicas, pc, i, calcMin, simulated>>
    BY <1>2 DEF ConsumeTimer
  <2>3. /\ Head(timers) \in Timer
        /\ Tail(timers) \in Seq(Timer)
        /\ Len(Tail(timers)) = Len(timers) - 1
        /\ \A k \in 1..Len(Tail(timers)) : Tail(timers)[k] = timers[k + 1]
    BY <1>0, <2>1, HeadTailProperties
  <2>4. ready' \in Nat
    BY <1>0, <2>2, <2>3 DEF Timer
  <2>5. TimersOrdered'
    <3>1. TimersOrdered
      BY DEF IInv
    <3>2. /\ Len(timers) \in Nat
          /\ \A k \in 1..Len(timers) : timers[k].at \in Nat
      BY <1>0, TimerFields
    <3>3. \A j, k \in 1..Len(timers') : j < k => timers'[j].at < timers'[k].at
      <4>1. SUFFICES ASSUME NEW j \in 1..Len(timers'), NEW k \in 1..Len(timers'),
                            j < k
                     PROVE  timers'[j].at < timers'[k].at
        OBVIOUS
      <4>5. Len(timers') = Len(timers) - 1
        BY <2>2, <2>3
      <4>6. j \in 1..Len(timers) - 1 /\ k \in 1..Len(timers) - 1 /\ j < k
        BY <4>1, <4>5
      <4>2. j + 1 \in 1..Len(timers) /\ k + 1 \in 1..Len(timers) /\ j + 1 < k + 1
        BY <3>2, <4>6
      <4>3. timers'[j] = timers[j + 1] /\ timers'[k] = timers[k + 1]
        BY <2>2, <2>3
      <4>4. timers[j + 1].at < timers[k + 1].at
        BY <3>1, <4>2 DEF TimersOrdered
      <4>. QED
        BY <4>3, <4>4
    <3>4. \A k \in 1..Len(timers') : timers'[k].at <= i' - 1 + ACL
      BY <2>2, <2>3, <3>1, <3>2 DEF TimersOrdered
    <3>. QED
      BY <3>3, <3>4 DEF TimersOrdered
  <2>. QED
    BY <1>0, <2>2, <2>3, <2>4, <2>5 DEF IInv, TypeOK
<1>3. CASE Scale
  <2>. DEFINE r      == RequiredReplicas(demand[i], target)
              newRes == Clamp(r, minReplicas) * PerPodResources
              delta  == newRes - ready - PendingSum(timers)
              tm     == [at |-> i + ACL, delta |-> delta]
  <2>1. /\ pc = "loop" /\ i <= Len(demand) /\ ~HeadDue
        /\ calcMin' = MinOf(calcMin, r)
        /\ IF newRes > ready
             THEN /\ timers' = IF delta > 0 THEN Append(timers, tm) ELSE timers
                  /\ ready' = ready
             ELSE /\ ready' = newRes
                  /\ timers' = <<>>
        /\ simulated' = Append(simulated, ready')
        /\ i' = i + 1
        /\ UNCHANGED <<demand, target, minReplicas, pc>>
    BY <1>3 DEF Scale
  <2>2. EffectiveTarget(target) \in 1..100 /\ i >= 2
    BY <2>1 DEF IInv
  <2>9. demand[i] \in Nat
    <3>1. i \in 1..Len(demand)
      BY <1>0, <2>1
    <3>. QED
      BY <1>0, <3>1, ElementOfSeq
  <2>3. r \in Nat /\ newRes \in Nat
    BY <1>0, <2>2, <2>9, RequiredReplicasNat
  <2>4. delta \in Int
    BY <1>0, <2>3, PendingSumNat
  <2>5. delta > 0 => tm \in Timer
    BY <1>0, <2>4, SimulatorAssumption DEF Timer
  <2>6. ready' \in Nat /\ timers' \in Seq(Timer) /\ calcMin' \in Nat
    <3>1. calcMin' \in Nat
      BY <1>0, <2>1, <2>3 DEF MinOf
    <3>2. CASE newRes > ready /\ delta > 0
      <4>1. timers' = Append(timers, tm) /\ ready' = ready
        BY <2>1, <3>2
      <4>. QED
        BY <1>0, <2>5, <3>1, <3>2, <4>1, AppendProperties
    <3>3. CASE newRes > ready /\ ~(delta > 0)
      <4>1. timers' = timers /\ ready' = ready
        BY <2>1, <3>3
      <4>. QED
        BY <1>0, <3>1, <4>1
    <3>4. CASE ~(newRes > ready)
      <4>1. timers' = <<>> /\ ready' = newRes
        BY <2>1, <3>4
      <4>. QED
        BY <2>3, <3>1, <4>1, EmptySeq
    <3>. QED
      BY <3>1, <3>2, <3>3, <3>4
  <2>7. simulated' \in Seq(Nat)
    BY <1>0, <2>1, <2>6, AppendProperties
  <2>8. TimersOrdered'
    <3>1. CASE newRes > ready /\ delta > 0
      <4>1. timers' = Append(timers, tm)
        BY <2>1, <3>1
      <4>2. /\ Len(timers') = Len(timers) + 1
            /\ \A k \in 1..Len(timers) : timers'[k] = timers[k]
            /\ timers'[Len(timers) + 1] = tm
        BY <1>0, <2>5, <3>1, <4>1, AppendProperties
      <4>0. /\ Len(timers) \in Nat
            /\ \A k \in 1..Len(timers) : timers[k].at \in Nat
        BY <1>0, TimerFields
      <4>3. \A k \in 1..Len(timers) : timers[k].at <= i - 1 + ACL
        BY DEF IInv, TimersOrdered
      <4>4. \A j, k \in 1..Len(timers) : j < k => timers[j].at < timers[k].at
        BY DEF IInv, TimersOrdered
      <4>7. tm.at = i + ACL /\ i' = i + 1
        BY <2>1
      <4>5. \A k \in 1..Len(timers') : timers'[k].at <= i' - 1 + ACL
        <5> SUFFICES ASSUME NEW k \in 1..Len(timers') PROVE timers'[k].at <= i' - 1 + ACL
          OBVIOUS
        <5>1. CASE k <= Len(timers)
          <6>1. k \in 1..Len(timers)
            BY <4>0, <4>2, <5>1
          <6>2. timers'[k].at = timers[k].at /\ timers[k].at <= i - 1 + ACL
            BY <4>2, <4>3, <6>1
          <6>3. timers[k].at \in Nat /\ i \in Nat /\ ACL \in Nat /\ i' - 1 = i
            BY <1>0, <4>0, <4>7, <6>1
          <6>. QED
            BY <6>2, <6>3
        <5>2. CASE k = Len(timers) + 1
          BY <1>0, <4>0, <4>2, <4>7, <5>2
        <5>. QED
          BY <4>0, <4>2, <5>1, <5>2
      <4>6. \A j, k \in 1..Len(timers') : j < k => timers'[j].at < timers'[k].at
        <5> SUFFICES ASSUME NEW j \in 1..Len(timers'), NEW k \in 1..Len(timers'), j < k
                     PROVE timers'[j].at < timers'[k].at
          OBVIOUS
        <5>1. CASE k <= Len(timers)
          BY <4>0, <4>2, <4>4, <5>1
        <5>2. CASE k = Len(timers) + 1
          <6>1. j \in 1..Len(timers)
            BY <4>0, <4>2, <5>2
          <6>2. timers'[j].at = timers[j].at /\ timers[j].at <= i - 1 + ACL
            BY <4>2, <4>3, <6>1
          <6>3. timers'[k].at = i + ACL
            BY <4>2, <4>7, <5>2
          <6>. QED
            BY <1>0, <4>0, <6>1, <6>2, <6>3
        <5>. QED
          BY <4>0, <4>2, <5>1, <5>2
      <4>. QED
        BY <4>5, <4>6 DEF TimersOrdered
    <3>2. CASE newRes > ready /\ ~(delta > 0)
      <4>1. timers' = timers /\ i' = i + 1
        BY <2>1, <3>2
      <4>2. \A k \in 1..Len(timers) : timers[k].at \in Nat
        BY <1>0, TimerFields
      <4>3. TimersOrdered
        BY DEF IInv
      <4>. QED
        BY <1>0, <4>1, <4>2, <4>3 DEF TimersOrdered
    <3>3. CASE ~(newRes > ready)
      BY <2>1, <3>3 DEF TimersOrdered
    <3>. QED
      BY <3>1, <3>2, <3>3
  <2>. QED
    BY <1>0, <2>1, <2>2, <2>6, <2>7, <2>8 DEF IInv, TypeOK
<1>4. CASE Finish
  BY <1>4, FrameIInv DEF Finish
<1>5. CASE UNCHANGED vars
  BY <1>5 DEF vars, IInv, TypeOK, TimersOrdered
<1>. QED
  BY <1>1, <1>2, <1>3, <1>4, <1>5 DEF Next

\* Type correctness of the simulator loop.
THEOREM TypeCorrect == Spec => []TypeOK
<1>1. IInv => TypeOK
  BY DEF IInv
<1>. QED
  BY <1>1, InitIInv, NextIInv, PTL DEF Spec

\* The timer list is ordered by firing time at every step of every call:
\* the drain, which only looks at the head, consumes every due timer.
THEOREM TimersStayOrdered == Spec => []TimersOrdered
<1>1. IInv => TimersOrdered
  BY DEF IInv
<1>. QED
  BY <1>1, InitIInv, NextIInv, PTL DEF Spec

\* When the loop scales for a point, no upscale due at that point is still
\* waiting in the timer list (the action property NoOverdueTimer).
THEOREM NoOverdueTimerHolds == Spec => NoOverdueTimer
<1>1. IInv /\ [Next]_vars => [Scale => \A k \in 1..Len(timers) : timers[k].at > i]_vars
  <2> SUFFICES ASSUME IInv, Scale, NEW k \in 1..Len(timers) PROVE timers[k].at > i
    OBVIOUS
  <2>2. timers \in Seq(Timer) /\ i \in Nat
    BY DEF IInv, TypeOK
  <2>0. timers /= <<>>
    BY <2>2, EmptySeq
  <2>3. Head(timers) = timers[1] /\ 1 \in 1..Len(timers)
    BY <2>0, <2>2, EmptySeq, LenProperties
  <2>7. Head(timers).at \in Nat
    BY <2>2, <2>3, TimerFields
  <2>1. i < Head(timers).at
    <3>1. ~(i >= Head(timers).at)
      BY <2>0 DEF Scale, HeadDue
    <3>. QED
      BY <2>2, <2>7, <3>1
  <2>6. TimersOrdered
    BY DEF IInv
  <2>4. k = 1 \/ timers[1].at < timers[k].at
    BY <2>3, <2>6 DEF TimersOrdered
  <2>5. timers[1].at \in Nat /\ timers[k].at \in Nat
    BY <2>2, <2>3, TimerFields
  <2>8. timers[1].at > i
    BY <2>1, <2>3
  <2>. QED
    BY <2>2, <2>4, <2>5, <2>8
<1>. QED
  BY <1>1, InitIInv, NextIInv, PTL DEF Spec, NoOverdueTimer


-----------------------------------------------------------------------------
(* Supply bounds.  SupplyBounded is inductive on top of IInv: the floor     *)
(* holds because readyResources only grows by consuming a timer or is set  *)
(* to a clamped value, and the cap holds because an upscale appends exactly *)
(* what is missing between readyResources plus the pending sum and the new  *)
(* clamped target, and consuming a timer moves its delta from the pending   *)
(* sum into readyResources.                                                 *)

LEMMA NextSupplyBounded ==
  IInv /\ SupplyBounded /\ [Next]_vars => SupplyBounded'
<1> SUFFICES ASSUME IInv, SupplyBounded, [Next]_vars PROVE SupplyBounded'
  OBVIOUS
<1>0. /\ demand \in Seq(DemandValues) /\ target \in Nat
      /\ minReplicas \in 1..MaxReplicas
      /\ i \in Nat \ {0} /\ ready \in Nat
      /\ timers \in Seq(Timer)
      /\ PendingSum(timers) \in Nat
  BY PendingSumNat DEF IInv, TypeOK
<1>1. CASE Start
  <2>1. CASE Len(demand) = 0 \/ EffectiveTarget(target) \notin 1..100
    <3>1. pc' # "loop"
      BY <1>1, <2>1 DEF Start
    <3>. QED
      BY <3>1 DEF SupplyBounded
  <2>2. CASE Len(demand) > 0 /\ EffectiveTarget(target) \in 1..100
    <3>. DEFINE r == RequiredReplicas(demand[1], target)
    <3>1. /\ ready' = Clamp(r, minReplicas) * PerPodResources
          /\ timers' = timers /\ minReplicas' = minReplicas
      BY <1>1, <2>2 DEF Start
    <3>2. demand[1] \in Nat
      <4>1. 1 \in 1..Len(demand)
        BY <1>0, <2>2, LenProperties
      <4>. QED
        BY <1>0, <4>1, ElementOfSeq
    <3>3. /\ r \in Nat
          /\ minReplicas * PerPodResources <= ready'
      BY <1>0, <2>2, <3>1, <3>2, RequiredReplicasNat
    <3>4. ready' <= MaxReplicas * PerPodResources
      BY <1>0, <3>1, <3>3, ClampBelowCap
    <3>5. PendingSum(timers') = 0
      BY <1>1, <3>1, PendingSumEmpty DEF IInv, Start
    <3>. QED
      BY <3>1, <3>3, <3>4, <3>5 DEF SupplyBounded
  <2>. QED
    BY <2>1, <2>2
<1>2. CASE ConsumeTimer
  <2>1. timers /= <<>> /\ pc = "loop"
    BY <1>2 DEF ConsumeTimer, HeadDue
  <2>2. /\ ready' = ready + Head(timers).delta
        /\ timers' = Tail(timers)
        /\ pc' = pc /\ minReplicas' = minReplicas
    BY <1>2 DEF ConsumeTimer
  <2>3. Head(timers).delta \in Nat
    <3>1. Head(timers) \in Timer
      BY <1>0, <2>1, HeadTailProperties
    <3>. QED
      BY <3>1 DEF Timer
  <2>4. PendingSum(timers') = PendingSum(timers) - Head(timers).delta
    BY <1>0, <2>1, <2>2, PendingSumTail
  <2>5. /\ minReplicas * PerPodResources <= ready
        /\ ready + PendingSum(timers) <= MaxReplicas * PerPodResources
    BY <2>1 DEF SupplyBounded
  <2>. QED
    BY <1>0, <2>2, <2>3, <2>4, <2>5 DEF SupplyBounded
<1>3. CASE Scale
  <2>. DEFINE r      == RequiredReplicas(demand[i], target)
              newRes == Clamp(r, minReplicas) * PerPodResources
              delta  == newRes - ready - PendingSum(timers)
              tm     == [at |-> i + ACL, delta |-> delta]
  <2>1. /\ pc = "loop" /\ i <= Len(demand)
        /\ IF newRes > ready
             THEN /\ timers' = IF delta > 0 THEN Append(timers, tm) ELSE timers
                  /\ ready' = ready
             ELSE /\ ready' = newRes
                  /\ timers' = <<>>
        /\ pc' = pc /\ minReplicas' = minReplicas
    BY <1>3 DEF Scale
  <2>2. demand[i] \in Nat /\ EffectiveTarget(target) \in 1..100
    <3>1. i \in 1..Len(demand)
      BY <1>0, <2>1
    <3>. QED
      BY <1>0, <2>1, <3>1, ElementOfSeq DEF IInv
  <2>3. /\ r \in Nat
        /\ newRes \in Nat
        /\ minReplicas * PerPodResources <= newRes
    BY <1>0, <2>2, RequiredReplicasNat
  <2>4. newRes <= MaxReplicas * PerPodResources
    BY <1>0, <2>3, ClampBelowCap
  <2>5. /\ minReplicas * PerPodResources <= ready
        /\ ready + PendingSum(timers) <= MaxReplicas * PerPodResources
    BY <2>1 DEF SupplyBounded
  <2>6. CASE newRes > ready /\ delta > 0
    <3>1. timers' = Append(timers, tm) /\ ready' = ready
      BY <2>1, <2>6
    <3>2. tm \in Timer
      BY <1>0, <2>3, <2>6 DEF Timer
    <3>3. PendingSum(timers') = PendingSum(timers) + delta
      BY <1>0, <3>1, <3>2, PendingSumAppend
    <3>. QED
      BY <1>0, <2>1, <2>3, <2>4, <2>5, <3>1, <3>3 DEF SupplyBounded
  <2>7. CASE newRes > ready /\ ~(delta > 0)
    <3>1. timers' = timers /\ ready' = ready
      BY <2>1, <2>7
    <3>. QED
      BY <2>1, <2>5, <3>1 DEF SupplyBounded
  <2>8. CASE ~(newRes > ready)
    <3>1. timers' = <<>> /\ ready' = newRes
      BY <2>1, <2>8
    <3>2. PendingSum(timers') = 0
      BY <3>1, PendingSumEmpty
    <3>. QED
      BY <2>1, <2>3, <2>4, <3>1, <3>2 DEF SupplyBounded
  <2>. QED
    BY <2>6, <2>7, <2>8
<1>4. CASE Finish
  BY <1>4 DEF Finish, SupplyBounded
<1>5. CASE UNCHANGED vars
  BY <1>5 DEF vars, SupplyBounded
<1>. QED
  BY <1>1, <1>2, <1>3, <1>4, <1>5 DEF Next

\* readyResources stays between the replica floor and, together with the
\* upscales already requested, the replica cap, at every point of the loop
\* (the invariant SupplyBounded): simulateHPA never requests capacity beyond
\* maxReplicas, however the timers and the scale-downs interleave.
THEOREM SupplyStaysBounded == Spec => []SupplyBounded
<1>1. Init => SupplyBounded
  BY DEF Init, SupplyBounded
<1>. QED
  BY <1>1, InitIInv, NextIInv, NextSupplyBounded, PTL DEF Spec


-----------------------------------------------------------------------------
(* The loop computes Simulate.  While the loop is at point i, its state is *)
(* the state Simulate reaches after point i - 1, except that a prefix j of *)
(* that state's timer list, all due at i, has already been drained into   *)
(* readyResources.  When no timer is left due, the drained prefix is       *)
(* DueCount's, so Scale takes exactly Simulate's step; when the loop       *)
(* ends, what it returns is Simulate's last state.                         *)

\* The per-point states of Simulate on the call's arguments.
Sts == SimStates(demand, target, minReplicas)

\* A loop at point ii of series d, with readyResources rdy and timer list
\* tms, is the simulation state S with its first j timers drained at ii.
Drained(S, j, d, ii, rdy, tms) ==
  /\ \A l \in 1..j : S.timers[l].at <= ii
  /\ ii > Len(d) => j = 0
  /\ rdy = S.ready + PendingSum(SubSeq(S.timers, 1, j))
  /\ tms = SubSeq(S.timers, j + 1, Len(S.timers))

\* A loop state agrees with the per-point states St: it is St's state
\* after point ii - 1, partly drained.
AgreesAt(St, d, ii, rdy, tms, sim, cm) ==
  /\ Len(d) >= 1 /\ ii \in 2..Len(d) + 1
  /\ sim = St[ii - 1].out /\ cm = St[ii - 1].calcMin
  /\ \E j \in 0..Len(St[ii - 1].timers) : Drained(St[ii - 1], j, d, ii, rdy, tms)

\* Inside the loop, the state is Simulate's after point i - 1, partly drained.
LoopAgrees == AgreesAt(Sts, demand, i, ready, timers, simulated, calcMin)

\* The part of the inductive invariant that relates the loop to Simulate.
Agree ==
  /\ pc = "start" => simulated = <<>> /\ calcMin = 0
  /\ pc = "loop" => LoopAgrees
  /\ SimulateAgrees

LEMMA InitAgree == Init => Agree
BY DEF Init, Agree, SimulateAgrees

\* The facts about Sts once the call has passed its argument checks.
LEMMA StsFacts ==
  ASSUME TypeOK, Len(demand) >= 1, EffectiveTarget(target) \in 1..100
  PROVE  /\ Sts \in [1..Len(demand) -> StRec]
         /\ Sts[1] = SimInit(demand, target, minReplicas)
         /\ \A k \in 2..Len(demand) :
              Sts[k] = SimStep(Sts[k - 1], demand, k, target, minReplicas)
         /\ ~Simulate(demand, target, minReplicas).err
         /\ Simulate(demand, target, minReplicas).supply = Sts[Len(demand)].out
         /\ Simulate(demand, target, minReplicas).calcMin = Sts[Len(demand)].calcMin
<1>1. /\ demand \in Seq(Nat) /\ target \in Nat /\ minReplicas \in 1..MaxReplicas
  BY SeriesIsNatSeq DEF TypeOK
<1>2. Len(demand) > 0
  BY <1>1, LenProperties
<1>. QED
  BY <1>1, <1>2, SimStatesFacts DEF Sts

LEMMA NextAgree == IInv /\ Agree /\ [Next]_vars => Agree'
<1> SUFFICES ASSUME IInv, Agree, [Next]_vars PROVE Agree'
  OBVIOUS
<1>0. /\ TypeOK
      /\ demand \in Seq(Nat) /\ target \in Nat /\ minReplicas \in 1..MaxReplicas
      /\ i \in Nat \ {0} /\ ready \in Nat /\ timers \in Seq(Timer)
      /\ Len(demand) \in Nat
  BY SeriesIsNatSeq, LenProperties DEF IInv, TypeOK
<1>u. UNCHANGED <<demand, target, minReplicas>>
  BY DEF Next, Start, ConsumeTimer, Scale, Finish, vars
<1>f. /\ Sts' = Sts
      /\ Simulate(demand', target', minReplicas') = Simulate(demand, target, minReplicas)
  BY <1>u DEF Sts
\* A new loop state agreeing with Sts is LoopAgrees'.
<1>g. AgreesAt(Sts, demand, i', ready', timers', simulated', calcMin') => LoopAgrees'
  BY <1>u, <1>f DEF LoopAgrees
<1>1. CASE Start
  <2>0. /\ pc = "start" /\ timers = <<>> /\ simulated = <<>> /\ calcMin = 0
        /\ timers' = timers
    BY <1>1 DEF Start, IInv, Agree
  <2>1. CASE Len(demand) = 0
    <3>1. pc' = "done" /\ simulated' = <<>> /\ calcMin' = 0
      BY <1>1, <2>0, <2>1 DEF Start
    <3>2. Simulate(demand, target, minReplicas) = [supply |-> <<>>, calcMin |-> 0, err |-> FALSE]
      BY <2>1 DEF Simulate
    <3>3. /\ Simulate(demand', target', minReplicas').err = FALSE
          /\ Simulate(demand', target', minReplicas').supply = simulated'
          /\ Simulate(demand', target', minReplicas').calcMin = calcMin'
      BY <1>f, <3>1, <3>2
    <3>. QED
      BY <3>1, <3>3 DEF Agree, SimulateAgrees
  <2>2. CASE Len(demand) > 0 /\ EffectiveTarget(target) \notin 1..100
    <3>1. pc' = "error"
      BY <1>1, <2>2 DEF Start
    <3>2. Simulate(demand, target, minReplicas).err
      BY <2>2 DEF Simulate
    <3>3. Simulate(demand', target', minReplicas').err = TRUE
      BY <1>f, <3>2
    <3>. QED
      BY <3>1, <3>3 DEF Agree, SimulateAgrees
  <2>3. CASE Len(demand) > 0 /\ EffectiveTarget(target) \in 1..100
    <3>. DEFINE r == RequiredReplicas(demand[1], target)
    <3>1. /\ ready' = Clamp(r, minReplicas) * PerPodResources
          /\ calcMin' = r
          /\ simulated' = <<ready'>>
          /\ i' = 2 /\ pc' = "loop"
      BY <1>1, <2>3 DEF Start
    <3>2. Sts[1] = SimInit(demand, target, minReplicas)
      BY <1>0, <2>3, StsFacts
    <3>3. /\ Sts[1].out = simulated'
          /\ Sts[1].calcMin = calcMin'
          /\ Sts[1].ready = ready'
          /\ Sts[1].timers = <<>>
      BY <3>1, <3>2 DEF SimInit
    <3>4. /\ SubSeq(<<>>, 1, 0) = <<>> /\ Len(<<>>) = 0
          /\ PendingSum(<<>>) = 0 /\ ready' \in Nat
      BY <1>0, <3>1, <3>3, EmptySeq, SubSeqEmpty, PendingSumEmpty, NextIInv DEF IInv, TypeOK
    <3>5. Drained(Sts[1], 0, demand, i', ready', timers')
      <4>1. ready' = Sts[1].ready + PendingSum(SubSeq(Sts[1].timers, 1, 0))
        <5>1. PendingSum(SubSeq(Sts[1].timers, 1, 0)) = 0
          BY <3>3, <3>4
        <5>. QED
          BY <3>3, <3>4, <5>1
      <4>2. timers' = SubSeq(Sts[1].timers, 0 + 1, Len(Sts[1].timers))
        BY <2>0, <3>3, <3>4
      <4>. QED
        BY <4>1, <4>2 DEF Drained
    <3>6. AgreesAt(Sts, demand, i', ready', timers', simulated', calcMin')
      BY <1>0, <2>3, <3>1, <3>3, <3>4, <3>5 DEF AgreesAt
    <3>. QED
      BY <1>g, <3>1, <3>6 DEF Agree, SimulateAgrees
  <2>. QED
    BY <1>0, <2>1, <2>2, <2>3
<1>2. CASE ConsumeTimer
  <2>1. /\ pc = "loop" /\ i <= Len(demand)
        /\ timers /= <<>> /\ i >= Head(timers).at
        /\ ready' = ready + Head(timers).delta
        /\ timers' = Tail(timers)
        /\ UNCHANGED <<pc, i, calcMin, simulated>>
    BY <1>2 DEF ConsumeTimer, HeadDue
  <2>. DEFINE S == Sts[i - 1]
  <2>2. /\ Len(demand) >= 1 /\ i \in 2..Len(demand) + 1
        /\ simulated = S.out /\ calcMin = S.calcMin
        /\ \E j \in 0..Len(S.timers) : Drained(S, j, demand, i, ready, timers)
    BY <2>1 DEF Agree, LoopAgrees, AgreesAt
  <2>3. S \in StRec
    <3>1. EffectiveTarget(target) \in 1..100 /\ i - 1 \in 1..Len(demand)
      BY <1>0, <2>1, <2>2 DEF IInv
    <3>. QED
      BY <1>0, <2>2, <3>1, StsFacts
  <2>4. /\ S.timers \in Seq(Timer) /\ S.ready \in Nat /\ Len(S.timers) \in Nat
    BY <2>3, LenProperties DEF StRec
  <2>5. PICK j \in 0..Len(S.timers) : Drained(S, j, demand, i, ready, timers)
    BY <2>2
  <2>6. j < Len(S.timers)
    <3>1. SUFFICES ASSUME j = Len(S.timers) PROVE FALSE
      BY <2>4
    <3>2. timers = SubSeq(S.timers, Len(S.timers) + 1, Len(S.timers))
      BY <2>5, <3>1 DEF Drained
    <3>. QED
      BY <2>1, <2>4, <3>2, SliceEnds
  <2>11. j \in Nat /\ j + 1 \in 1..Len(S.timers)
    BY <2>4, <2>6
  <2>7. /\ SubSeq(S.timers, 1, j + 1) = Append(SubSeq(S.timers, 1, j), S.timers[j + 1])
        /\ Head(timers) = S.timers[j + 1]
        /\ Tail(timers) = SubSeq(S.timers, j + 2, Len(S.timers))
    <3>1. timers = SubSeq(S.timers, j + 1, Len(S.timers))
      BY <2>5 DEF Drained
    <3>2. /\ SubSeq(S.timers, 1, j + 1) = Append(SubSeq(S.timers, 1, j), S.timers[j + 1])
          /\ Head(SubSeq(S.timers, j + 1, Len(S.timers))) = S.timers[j + 1]
          /\ Tail(SubSeq(S.timers, j + 1, Len(S.timers))) = SubSeq(S.timers, j + 2, Len(S.timers))
      BY <2>4, <2>6, <2>11, SliceStep
    <3>. QED
      BY <3>1, <3>2
  <2>8. PendingSum(SubSeq(S.timers, 1, j + 1))
          = PendingSum(SubSeq(S.timers, 1, j)) + S.timers[j + 1].delta
    <3>1. SubSeq(S.timers, 1, j) \in Seq(Timer) /\ S.timers[j + 1] \in Timer
      BY <2>4, <2>6, TimerSlice, ElementOfSeq
    <3>. QED
      BY <2>7, <3>1, PendingSumAppend
  <2>9. Drained(S, j + 1, demand, i, ready', timers')
    <3>1. \A l \in 1..j + 1 : S.timers[l].at <= i
      <4>1. \A l \in 1..j : S.timers[l].at <= i
        BY <2>5 DEF Drained
      <4>2. S.timers[j + 1].at <= i
        BY <2>1, <2>7
      <4>. QED
        BY <2>11, <4>1, <4>2
    <3>2. ready' = S.ready + PendingSum(SubSeq(S.timers, 1, j + 1))
      <4>1. SubSeq(S.timers, 1, j) \in Seq(Timer)
        BY <2>4, <2>11, TimerSlice
      <4>2. PendingSum(SubSeq(S.timers, 1, j)) \in Nat
        BY <4>1, PendingSumNat
      <4>3. S.timers[j + 1].delta \in Nat
        BY <2>4, <2>11, TimerFields
      <4>4. ready = S.ready + PendingSum(SubSeq(S.timers, 1, j))
        BY <2>5 DEF Drained
      <4>5. ready' = ready + S.timers[j + 1].delta
        BY <2>1, <2>7
      <4>. QED
        BY <2>4, <2>8, <4>2, <4>3, <4>4, <4>5
    <3>3. timers' = SubSeq(S.timers, (j + 1) + 1, Len(S.timers))
      BY <2>1, <2>7
    <3>4. ~(i > Len(demand))
      BY <2>1, <1>0
    <3>. QED
      BY <3>1, <3>2, <3>3, <3>4 DEF Drained
  <2>10. AgreesAt(Sts, demand, i', ready', timers', simulated', calcMin')
    <3>1. j + 1 \in 0..Len(S.timers)
      BY <2>4, <2>6
    <3>. QED
      BY <2>1, <2>2, <2>9, <3>1 DEF AgreesAt
  <2>. QED
    BY <1>g, <2>1, <2>10 DEF Agree, SimulateAgrees
<1>3. CASE Scale
  <2>. DEFINE r      == RequiredReplicas(demand[i], target)
              newRes == Clamp(r, minReplicas) * PerPodResources
              delta  == newRes - ready - PendingSum(timers)
              tm     == [at |-> i + ACL, delta |-> delta]
              rdy2   == IF newRes > ready THEN ready ELSE newRes
              tms    == IF ~(newRes > ready) THEN <<>>
                        ELSE IF delta > 0 THEN Append(timers, tm) ELSE timers
              S      == Sts[i - 1]
  <2>1. /\ pc = "loop" /\ i <= Len(demand) /\ ~HeadDue
        /\ calcMin' = MinOf(calcMin, r)
        /\ ready' = rdy2 /\ timers' = tms
        /\ simulated' = Append(simulated, ready')
        /\ i' = i + 1 /\ pc' = pc
    BY <1>3 DEF Scale
  <2>2. /\ Len(demand) >= 1 /\ i \in 2..Len(demand) + 1
        /\ simulated = S.out /\ calcMin = S.calcMin
        /\ \E j \in 0..Len(S.timers) : Drained(S, j, demand, i, ready, timers)
    BY <2>1 DEF Agree, LoopAgrees, AgreesAt
  <2>3. /\ Sts \in [1..Len(demand) -> StRec]
        /\ Sts[i] = SimStep(S, demand, i, target, minReplicas)
    <3>1. EffectiveTarget(target) \in 1..100 /\ i \in 2..Len(demand)
      BY <1>0, <2>1, <2>2 DEF IInv
    <3>. QED
      BY <1>0, <2>2, <3>1, StsFacts
  <2>4. /\ S \in StRec /\ Sts[i] \in StRec
        /\ S.timers \in Seq(Timer) /\ Len(S.timers) \in Nat
    <3>1. i - 1 \in 1..Len(demand) /\ i \in 1..Len(demand)
      BY <1>0, <2>1, <2>2
    <3>. QED
      BY <2>3, <3>1, LenProperties DEF StRec
  <2>5. PICK j \in 0..Len(S.timers) : Drained(S, j, demand, i, ready, timers)
    BY <2>2
  <2>6. DueCount(S.timers, i) = j
    <3>1. \A l \in 1..j : S.timers[l].at <= i
      BY <2>5 DEF Drained
    <3>2. j = Len(S.timers) \/ S.timers[j + 1].at > i
      <4>1. SUFFICES ASSUME j # Len(S.timers) PROVE S.timers[j + 1].at > i
        OBVIOUS
      <4>2. j \in Nat /\ j < Len(S.timers)
        BY <2>4, <4>1
      <4>3. timers = SubSeq(S.timers, j + 1, Len(S.timers))
        BY <2>5 DEF Drained
      <4>4. timers # <<>> /\ Head(timers) = S.timers[j + 1]
        BY <2>4, <4>2, <4>3, SliceStep
      <4>5. ~(i >= Head(timers).at)
        BY <2>1, <4>4 DEF HeadDue
      <4>6. S.timers[j + 1].at \in Nat
        BY <2>4, <4>2, TimerFields
      <4>. QED
        BY <1>0, <4>4, <4>5, <4>6
    <3>. QED
      BY <1>0, <2>4, <3>1, <3>2, DueCountIs
  <2>7. /\ ready = S.ready + PendingSum(SubSeq(S.timers, 1, DueCount(S.timers, i)))
        /\ timers = SubSeq(S.timers, DueCount(S.timers, i) + 1, Len(S.timers))
    BY <2>5, <2>6 DEF Drained
  <2>8. /\ Sts[i].ready = rdy2
        /\ Sts[i].timers = tms
        /\ Sts[i].calcMin = MinOf(S.calcMin, r)
        /\ Sts[i].out = Append(S.out, rdy2)
    <3>1. Sts[i] = StepFrom(S, demand, i, target, minReplicas, ready, timers)
      BY <2>3, <2>7, SimStepIsStepFrom
    <3>. QED
      BY <3>1 DEF StepFrom
  <2>9. /\ Sts[i].ready \in Nat /\ Sts[i].timers \in Seq(Timer)
    BY <2>4 DEF StRec
  <2>10. Drained(Sts[i], 0, demand, i', ready', timers')
    <3>1. /\ SubSeq(Sts[i].timers, 1, 0) = <<>>
          /\ SubSeq(Sts[i].timers, 1, Len(Sts[i].timers)) = Sts[i].timers
      BY <2>9, SliceEnds
    <3>2. PendingSum(SubSeq(Sts[i].timers, 1, 0)) = 0
      BY <3>1, PendingSumEmpty
    <3>3. ready' = Sts[i].ready + PendingSum(SubSeq(Sts[i].timers, 1, 0))
      BY <2>1, <2>8, <2>9, <3>2
    <3>4. timers' = SubSeq(Sts[i].timers, 0 + 1, Len(Sts[i].timers))
      BY <2>1, <2>8, <3>1
    <3>. QED
      BY <3>3, <3>4 DEF Drained
  <2>11. AgreesAt(Sts, demand, i', ready', timers', simulated', calcMin')
    <3>1. i' \in 2..Len(demand) + 1 /\ i' - 1 = i
      BY <1>0, <2>1, <2>2
    <3>2. simulated' = Sts[i].out /\ calcMin' = Sts[i].calcMin
      BY <2>1, <2>2, <2>8
    <3>3. 0 \in 0..Len(Sts[i].timers)
      BY <2>9, LenProperties
    <3>. QED
      BY <2>2, <2>10, <3>1, <3>2, <3>3 DEF AgreesAt
  <2>. QED
    BY <1>g, <2>1, <2>11 DEF Agree, SimulateAgrees
<1>4. CASE Finish
  <2>1. /\ pc = "loop" /\ i > Len(demand) /\ pc' = "done"
        /\ UNCHANGED <<i, ready, timers, calcMin, simulated>>
    BY <1>4 DEF Finish
  <2>2. /\ Len(demand) >= 1 /\ i \in 2..Len(demand) + 1
        /\ simulated = Sts[i - 1].out /\ calcMin = Sts[i - 1].calcMin
    BY <2>1 DEF Agree, LoopAgrees, AgreesAt
  <2>3. i - 1 = Len(demand)
    BY <1>0, <2>1, <2>2
  <2>4. /\ ~Simulate(demand, target, minReplicas).err
        /\ Simulate(demand, target, minReplicas).supply = Sts[Len(demand)].out
        /\ Simulate(demand, target, minReplicas).calcMin = Sts[Len(demand)].calcMin
    <3>1. EffectiveTarget(target) \in 1..100
      BY <2>1 DEF IInv
    <3>. QED
      BY <1>0, <2>2, <3>1, StsFacts
  <2>5. /\ Simulate(demand', target', minReplicas').err = FALSE
        /\ Simulate(demand', target', minReplicas').supply = simulated'
        /\ Simulate(demand', target', minReplicas').calcMin = calcMin'
    BY <1>f, <2>1, <2>2, <2>3, <2>4
  <2>. QED
    BY <2>1, <2>5 DEF Agree, SimulateAgrees
<1>5. CASE UNCHANGED vars
  <2>1. UNCHANGED <<pc, i, ready, timers, calcMin, simulated>>
    BY <1>5 DEF vars
  <2>2. LoopAgrees' = LoopAgrees
    BY <1>u, <1>f, <2>1 DEF LoopAgrees
  <2>. QED
    BY <1>f, <2>1, <2>2 DEF Agree, SimulateAgrees
<1>. QED
  BY <1>1, <1>2, <1>3, <1>4, <1>5 DEF Next


\* The loop of simulateHPA returns what Simulate, the function the
\* configuration search calls, returns (the invariant SimulateAgrees): the
\* same error, the same ready resources per point and the same observed
\* floor, for every series, target, floor, lag and cap.  The drain-then-
\* scale turns of the loop, one timer at a time, compute exactly Simulate's
\* per-point step.
THEOREM SimulateAgreesHolds == Spec => []SimulateAgrees
<1>1. Agree => SimulateAgrees
  BY DEF Agree
<1>. QED
  BY <1>1, InitIInv, InitAgree, NextIInv, NextAgree, PTL DEF Spec

=============================================================================
