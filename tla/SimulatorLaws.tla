---------------------------- MODULE SimulatorLaws ----------------------------
(***************************************************************************)
(* Laws the spec states of simulateHPA (src/pkg/reco/reco.go), checked on  *)
(* the function Simulate of RecoArith over every bounded input: a series,  *)
(* a floor and two targets are chosen, and nothing else happens.           *)
(***************************************************************************)
EXTENDS RecoArith

CONSTANT Targets    \* candidate target utilizations (percent), positive

VARIABLES demand, t1, t2, minReplicas

vars == <<demand, t1, t2, minReplicas>>

Init ==
  /\ demand \in Series
  /\ t1 \in Targets
  /\ t2 \in Targets
  /\ minReplicas \in 1..MaxReplicas

Spec == Init /\ [][FALSE]_vars

\* Monotone safety (spec, testable properties): a lower target never gives
\* less supply at any point than a higher one.  The binary search of the
\* configuration search relies on it.
MonotoneSafety ==
  LET s1 == Simulate(demand, t1, minReplicas)
      s2 == Simulate(demand, t2, minReplicas)
  IN  t1 < t2 /\ ~s1.err /\ ~s2.err =>
        \A k \in 1..Len(demand) : s1.supply[k] >= s2.supply[k]

=============================================================================
