---------------------------- MODULE SearchContract ----------------------------
(***************************************************************************)
(* What findOptimalHPAConfigurations (src/pkg/reco/reco.go) promises its   *)
(* caller, Recommend, as one atomic decision (spec 4.2): for a series and  *)
(* a target range it either returns a floor and a target of the range     *)
(* whose own simulation never lets demand exceed the red-lined supply, or  *)
(* unableToRecommendError, or the simulator's error, which only a target   *)
(* of the range that the simulator rejects can cause.                      *)
(*                                                                         *)
(* OptimalSearch, the loop of the code, is shown to implement this         *)
(* specification under a refinement mapping (OptimalSearch's              *)
(* SearchContractRefined).                                                 *)
(***************************************************************************)
EXTENDS RecoArith

CONSTANTS
  TargetRanges   \* the pairs <<minTarget, maxTarget>> the recommender may be built with

VARIABLES
  demand,      \* the series searched
  minTarget,   \* the target range
  maxTarget,
  status,      \* "searching", "found", "unable" or "error"
  best         \* the returned floor and target; zero until found

vars == <<demand, minTarget, maxTarget, status, best>>

NoConfig == [min |-> 0, target |-> 0]

\* A configuration is safe for the series when its own simulation succeeds
\* and never breaches demand.
Safe(d, t, f) ==
  LET sim == Simulate(d, t, f)
  IN  ~sim.err /\ HasNoBreachOccurred(d, sim.supply)

Init ==
  /\ demand \in Series
  /\ \E r \in TargetRanges : minTarget = r[1] /\ maxTarget = r[2]
  /\ status = "searching"
  /\ best = NoConfig

\* The search returns a safe configuration of the range.
Found ==
  /\ status = "searching"
  /\ \E t \in minTarget..maxTarget, f \in 1..MaxReplicas :
       /\ best' = [min |-> f, target |-> t]
       /\ Safe(demand, t, f)
  /\ status' = "found"
  /\ UNCHANGED <<demand, minTarget, maxTarget>>

\* The search finds nothing it is allowed to return.
Unable ==
  /\ status = "searching"
  /\ status' = "unable"
  /\ UNCHANGED <<demand, minTarget, maxTarget, best>>

\* The simulator rejects a target of the range.
Failed ==
  /\ status = "searching"
  /\ \E t \in minTarget..maxTarget : Simulate(demand, t, 1).err
  /\ status' = "error"
  /\ UNCHANGED <<demand, minTarget, maxTarget, best>>

Next == Found \/ Unable \/ Failed

Spec == Init /\ [][Next]_vars

=============================================================================
