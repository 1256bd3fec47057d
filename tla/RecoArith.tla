------------------------------ MODULE RecoArith ------------------------------
(***************************************************************************)
(* The parameters of the CPU-utilization recommender shared by the         *)
(* simulator and the configuration search (src/pkg/reco/reco.go), and the  *)
(* arithmetic of simulateHPA, hasNoBreachOccurred and calculateSavings.    *)
(*                                                                         *)
(* Data abstraction.  The series lies on a grid of one metric step, so the *)
(* data point at position k has timestamp k and the lag is a whole number  *)
(* of steps (a timer fires at the first grid point not before it).  CPU    *)
(* quantities are integers in a unit in which the per-pod limit is a whole *)
(* number; the float ceilings of the code are then exact ceilings of       *)
(* rationals.  The emitted supply is readyResources * redLineUtil; the     *)
(* model records readyResources and applies the red line where supply is   *)
(* compared with demand (HasNoBreachOccurred).                             *)
(***************************************************************************)
EXTENDS Integers, Sequences

CONSTANTS
  NPoints,          \* longest demand series considered
  DemandValues,     \* CPU values a data point may carry
  PerPodResources,  \* sum of container CPU limits of one pod
  MaxReplicas,      \* replica cap of the workload
  ACL,              \* autoscaling cycle lag, in metric steps
  RedLineNum,       \* redLineUtil = RedLineNum / RedLineDen
  RedLineDen

ASSUME SimulatorAssumption ==
  /\ NPoints \in Nat
  /\ DemandValues \subseteq Nat
  /\ PerPodResources \in Nat \ {0}
  /\ MaxReplicas \in Nat \ {0}
  /\ ACL \in Nat
  /\ RedLineNum \in Nat \ {0}
  /\ RedLineDen \in Nat \ {0}

-----------------------------------------------------------------------------
(* Helpers translated from the arithmetic of simulateHPA.                  *)

MinOf(a, b) == IF a <= b THEN a ELSE b
MaxOf(a, b) == IF a >= b THEN a ELSE b

\* Mutant: a hand-written ceiling that is one short on exact quotients.
CeilDivShort(x, y) == (x - 1) \div y + 1 - 1

\* math.Ceil(x / y) for naturals x and positive y.
CeilDiv(x, y) == (x + y - 1) \div y

\* targetUtilization = int(math.Floor(float64(targetUtilization) * 1.1))
EffectiveTarget(t) == (t * 11) \div 10

\* math.Ceil((100 * v) / float64(targetUtilization) / perPodResources):
\* the replicas demand v needs at the inflated target, unclamped.
RequiredReplicas(v, t) == CeilDiv(100 * v, EffectiveTarget(t) * PerPodResources)

\* math.Min(maxReplicas, math.Max(minReplicas, r))
Clamp(r, lo) == MinOf(MaxReplicas, MaxOf(lo, r))

\* Sum of the deltas of the upscales still waiting in the timer list.
PendingSum(q) ==
  LET s[k \in 0..Len(q)] == IF k = 0 THEN 0 ELSE s[k - 1] + q[k].delta
  IN  s[Len(q)]

\* hasNoBreachOccurred: no demand point exceeds the red-lined supply.
HasNoBreachOccurred(original, readySeq) ==
  \A k \in 1..Len(original) :
    original[k] * RedLineDen <= readySeq[k] * RedLineNum

Timer == [at : Nat, delta : Nat \ {0}]

Series == UNION {[1..n -> DemandValues] : n \in 0..NPoints}

\* calculateSavings, up to the positive factor 100 / (Len * cap): the sum
\* over the points of the capacity the simulated HPA leaves unused against
\* a workload pinned at maxReplicas (dp.Value / redLineUtil = readyResources).
\* All series compared by the search have the length of the input, so the
\* comparisons of the code (>=, == 0.0) are those of this sum.
Savings(readySeq) ==
  LET cap == MaxReplicas * PerPodResources
      s[k \in 0..Len(readySeq)] == IF k = 0 THEN 0 ELSE s[k - 1] + (cap - readySeq[k])
  IN  s[Len(readySeq)]

-----------------------------------------------------------------------------
(* simulateHPA as a function of its arguments, for the callers that use it *)
(* as one step (the configuration search).  HPASimulator models the same   *)
(* lines as a state machine and checks that the two agree.                 *)

\* Number of timers at the head of q that the drain loop consumes at
\* timestamp k: it stops at the first head that is not yet due.
DueCount(q, k) ==
  LET c[n \in 0..Len(q)] ==
        IF n = 0 THEN 0
        ELSE IF c[n - 1] = n - 1 /\ k >= q[n].at THEN n ELSE c[n - 1]
  IN  c[Len(q)]

\* One turn of the loop body for data point k of series d.
SimStep(st, d, k, t, mr) ==
  LET due    == DueCount(st.timers, k)
      rdy    == st.ready + PendingSum(SubSeq(st.timers, 1, due))
      q      == SubSeq(st.timers, due + 1, Len(st.timers))
      r      == RequiredReplicas(d[k], t)
      newRes == Clamp(r, mr) * PerPodResources
      delta  == newRes - rdy - PendingSum(q)
      up     == newRes > rdy
      rdy2   == IF up THEN rdy ELSE newRes
  IN  [ready   |-> rdy2,
       timers  |-> IF ~up THEN <<>>
                   ELSE IF delta > 0 THEN Append(q, [at |-> k + ACL, delta |-> delta])
                   ELSE q,
       calcMin |-> MinOf(st.calcMin, r),
       out     |-> Append(st.out, rdy2)]

\* simulateHPA(d, acl, t, perPodResources, MaxReplicas, mr), mr being the
\* minReplicas argument: the ready
\* resources per point, calculatedMinReplicas, and whether it failed.
Simulate(d, t, mr) ==
  LET r0 == RequiredReplicas(d[1], t)
      st[k \in 1..Len(d)] ==
        IF k = 1
          THEN [ready   |-> Clamp(r0, mr) * PerPodResources, timers |-> <<>>,
                calcMin |-> r0, out |-> <<Clamp(r0, mr) * PerPodResources>>]
          ELSE SimStep(st[k - 1], d, k, t, mr)
  IN  IF Len(d) = 0 THEN [supply |-> <<>>, calcMin |-> 0, err |-> FALSE]
      ELSE IF EffectiveTarget(t) \notin 1..100
        THEN [supply |-> <<>>, calcMin |-> 0, err |-> TRUE]
      ELSE [supply |-> st[Len(d)].out, calcMin |-> st[Len(d)].calcMin, err |-> FALSE]

=============================================================================
