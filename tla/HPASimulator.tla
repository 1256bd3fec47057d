---------------------------- MODULE HPASimulator ----------------------------
(***************************************************************************)
(* The HPA simulator of the CPU-utilization recommender:                   *)
(* CpuUtilizationBasedRecommender.simulateHPA (src/pkg/reco/reco.go).      *)
(*                                                                         *)
(* One call replays a demand series under a candidate target utilization   *)
(* and a replica floor.  Upscales become ready only after the autoscaling  *)
(* cycle lag (ACL): they wait in a FIFO timer list whose head is consumed  *)
(* when its firing time is reached; a downscale is immediate and drops the *)
(* pending upscales.                                                       *)
(* Data abstraction: see RecoArith.                                      *)
(***************************************************************************)
EXTENDS RecoArith

CONSTANT Targets    \* candidate target utilizations (percent) tried

ASSUME TargetsAssumption == Targets \subseteq Nat \ {0}

VARIABLES
  demand,       \* the dataPoints argument
  target,       \* the targetUtilization argument, before inflation
  minReplicas,  \* the minReplicas argument
  pc,           \* "start", "loop", "done" or "error"
  i,            \* position of the data point the loop is at
  ready,        \* readyResources
  timers,       \* readyResourcesTimerList: << [at, delta], ... >>
  calcMin,      \* calculatedMinReplicas
  simulated     \* simulatedDataPoints, as readyResources per point

vars == <<demand, target, minReplicas, pc, i, ready, timers, calcMin, simulated>>

-----------------------------------------------------------------------------
(* The call: its arguments are any series, target and floor.               *)
Init ==
  /\ demand \in Series
  /\ target \in Targets
  /\ minReplicas \in 1..MaxReplicas
  /\ pc = "start"
  /\ i = 1
  /\ ready = 0
  /\ timers = <<>>
  /\ calcMin = 0
  /\ simulated = <<>>

\* Inflate the target, reject an empty series or an invalid target, and
\* bootstrap readyResources from the first point.
Start ==
  /\ pc = "start"
  /\ LET eff == EffectiveTarget(target) IN
     \/ /\ Len(demand) = 0
        /\ pc' = "done"
        /\ UNCHANGED <<i, ready, calcMin, simulated>>
     \/ /\ Len(demand) > 0
        /\ eff \notin 1..100
        /\ pc' = "error"
        /\ UNCHANGED <<i, ready, calcMin, simulated>>
     \/ /\ Len(demand) > 0
        /\ eff \in 1..100
        /\ LET r == RequiredReplicas(demand[1], target) IN
           /\ ready' = Clamp(r, minReplicas) * PerPodResources
           /\ calcMin' = r
           /\ simulated' = <<ready'>>
        /\ i' = 2
        /\ pc' = "loop"
  /\ UNCHANGED <<demand, target, minReplicas, timers>>

\* Mutant: the drain written with the comparison the wrong way round
\* (dp.Timestamp.After instead of !dp.Timestamp.Before).
HeadDueStrict == IF timers = <<>> THEN FALSE ELSE i > Head(timers).at

\* The loop condition of the drain: the head of the timer list is due at the
\* current point (!dp.Timestamp.Before(readyResourcesTimerList[0].Timestamp)).
HeadDue == IF timers = <<>> THEN FALSE ELSE i >= Head(timers).at

\* One turn of the loop that consumes the timers due at the current point.
ConsumeTimer ==
  /\ pc = "loop"
  /\ i <= Len(demand)
  /\ HeadDue
  /\ ready' = ready + Head(timers).delta
  /\ timers' = Tail(timers)
  /\ UNCHANGED <<demand, target, minReplicas, pc, i, calcMin, simulated>>

\* Mutant: the upscale delta computed without subtracting what is already
\* waiting in the timer list.
ScaleIgnoringPending ==
  /\ pc = "loop"
  /\ i <= Len(demand)
  /\ ~HeadDue
  /\ LET r      == RequiredReplicas(demand[i], target)
         newRes == Clamp(r, minReplicas) * PerPodResources
     IN  /\ calcMin' = MinOf(calcMin, r)
         /\ IF newRes > ready
              THEN /\ timers' = Append(timers, [at |-> i + ACL, delta |-> newRes - ready])
                   /\ ready' = ready
              ELSE /\ ready' = newRes
                   /\ timers' = <<>>
  /\ simulated' = Append(simulated, ready')
  /\ i' = i + 1
  /\ UNCHANGED <<demand, target, minReplicas, pc>>

\* The rest of the loop body for the current point, once no timer is due:
\* scale up behind the lag, or scale down at once, and emit the supply.
Scale ==
  /\ pc = "loop"
  /\ i <= Len(demand)
  /\ ~HeadDue
  /\ LET r        == RequiredReplicas(demand[i], target)
         newRes   == Clamp(r, minReplicas) * PerPodResources
         delta    == newRes - ready - PendingSum(timers)
     IN  /\ calcMin' = MinOf(calcMin, r)
         /\ IF newRes > ready
              THEN /\ timers' = IF delta > 0
                                  THEN Append(timers, [at |-> i + ACL, delta |-> delta])
                                  ELSE timers
                   /\ ready' = ready
              ELSE /\ ready' = newRes
                   /\ timers' = <<>>
  /\ simulated' = Append(simulated, ready')
  /\ i' = i + 1
  /\ UNCHANGED <<demand, target, minReplicas, pc>>

\* The loop has passed the last point: the call returns.
Finish ==
  /\ pc = "loop"
  /\ i > Len(demand)
  /\ pc' = "done"
  /\ UNCHANGED <<demand, target, minReplicas, i, ready, timers, calcMin, simulated>>

Next == Start \/ ConsumeTimer \/ Scale \/ Finish

Spec == Init /\ [][Next]_vars

-----------------------------------------------------------------------------
(* Properties.                                                             *)

TypeOK ==
  /\ demand \in Series
  /\ target \in Targets
  /\ minReplicas \in 1..MaxReplicas
  /\ pc \in {"start", "loop", "done", "error"}
  /\ i \in Nat \ {0}
  /\ ready \in Nat
  /\ timers \in Seq(Timer)
  /\ calcMin \in Nat
  /\ simulated \in Seq(Nat)

\* The timer list is ordered by firing time, and a timer waits at most the
\* lag: the loop's drain only inspects the head, which is right only if
\* no timer behind the head is due before it.
TimersOrdered ==
  /\ \A j, k \in 1..Len(timers) : j < k => timers[j].at < timers[k].at
  /\ \A k \in 1..Len(timers) : timers[k].at <= i - 1 + ACL

\* When the scaling decision for a point is taken, every upscale due at
\* that point's timestamp has been added to readyResources (no ready
\* capacity is left waiting in the timer list past its time).
NoOverdueTimer ==
  [][Scale => \A k \in 1..Len(timers) : timers[k].at > i]_vars

\* readyResources never drops below the replica floor, and the capacity
\* ready plus the capacity already requested never exceeds the replica cap:
\* an upscale requests only what is not already waiting in the list.
SupplyBounded ==
  pc = "loop" =>
    /\ minReplicas * PerPodResources <= ready
    /\ ready + PendingSum(timers) <= MaxReplicas * PerPodResources

\* The loop, step by step, returns what the simulation as a single function
\* returns: the callers' view of simulateHPA is the code's loop.
SimulateAgrees ==
  pc \in {"done", "error"} =>
    LET res == Simulate(demand, target, minReplicas)
    IN  /\ res.err = (pc = "error")
        /\ pc = "done" => res.supply = simulated /\ res.calcMin = calcMin

=============================================================================
