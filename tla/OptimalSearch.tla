---------------------------- MODULE OptimalSearch ----------------------------
(***************************************************************************)
(* The search for the HPA configuration of the CPU-utilization recommender: *)
(* CpuUtilizationBasedRecommender.findOptimalHPAConfigurations             *)
(* (src/pkg/reco/reco.go).                                                  *)
(*                                                                         *)
(* For each replica floor m = 1..maxReplicas, a binary search over the     *)
(* target range looks for the highest target whose simulation never       *)
(* breaches demand; a floor's result is kept when it saves at least as     *)
(* much as the best so far.  Each probe calls simulateHPA, taken here as   *)
(* the function Simulate of RecoArith (HPASimulator checks that it is the  *)
(* code's loop).                                                           *)
(***************************************************************************)
EXTENDS RecoArith

CONSTANTS
  TargetRanges   \* the pairs <<minTarget, maxTarget>> the recommender may be built with

ASSUME SearchAssumption ==
  TargetRanges \subseteq (Nat \ {0}) \X (Nat \ {0})

VARIABLES
  demand,       \* the dataPoints argument
  minTarget,    \* the minTarget argument
  maxTarget,    \* the maxTarget argument
  pc,           \* "outer", "search", "found", "unable" or "error"
  m,            \* minReplicas, the floor the outer loop is at
  low, high,    \* the bounds of the binary search
  simList,      \* simulatedHPAList: the supply of the last probe
  calcMin,      \* calculatedMin: the floor observed by the last probe
  optTarget,    \* optimalTargetThreshold
  optMin,       \* optimalMin
  savings       \* the best savings so far

vars == <<demand, minTarget, maxTarget, pc, m, low, high, simList, calcMin,
          optTarget, optMin, savings>>

-----------------------------------------------------------------------------
Init ==
  /\ demand \in Series
  /\ \E r \in TargetRanges : minTarget = r[1] /\ maxTarget = r[2]
  /\ pc = "outer"
  /\ m = 1
  /\ low = 0
  /\ high = 0
  /\ simList = <<>>
  /\ calcMin = 0
  /\ optTarget = 0
  /\ optMin = 0
  /\ savings = 0

\* Mutant: the outer loop runs one floor too far (<= maxReplicas + 1).
StartFloorPastCap ==
  /\ pc = "outer"
  /\ m <= MaxReplicas + 1
  /\ pc' = "search"
  /\ low' = minTarget
  /\ high' = maxTarget
  /\ calcMin' = 0
  /\ simList' = <<>>
  /\ UNCHANGED <<demand, minTarget, maxTarget, m, optTarget, optMin, savings>>

\* Head of the outer loop for floor m: reset the binary search.
StartFloor ==
  /\ pc = "outer"
  /\ m <= MaxReplicas
  /\ pc' = "search"
  /\ low' = minTarget
  /\ high' = maxTarget
  /\ calcMin' = 0
  /\ simList' = <<>>
  /\ UNCHANGED <<demand, minTarget, maxTarget, m, optTarget, optMin, savings>>

\* One probe of the binary search: simulate the middle target and move the
\* bound; an invalid target aborts the search with the simulator's error.
Probe ==
  /\ pc = "search"
  /\ low <= high
  /\ LET mid == low + (high - low) \div 2
         res == Simulate(demand, mid, m)
     IN  IF res.err
           THEN /\ pc' = "error"
                /\ UNCHANGED <<low, high, simList, calcMin>>
           ELSE /\ simList' = res.supply
                /\ calcMin' = res.calcMin
                /\ IF HasNoBreachOccurred(demand, res.supply)
                     THEN low' = mid + 1 /\ high' = high
                     ELSE high' = mid - 1 /\ low' = low
                /\ pc' = pc
  /\ UNCHANGED <<demand, minTarget, maxTarget, m, optTarget, optMin, savings>>

\* Mutant: the floor's result taken from the search's lower bound.
JudgeWithLow ==
  /\ pc = "search"
  /\ low > high
  /\ IF /\ low >= minTarget
        /\ calcMin <= m
        /\ Len(simList) > 0
        /\ Savings(simList) >= savings
       THEN /\ optMin' = m
            /\ optTarget' = low
            /\ savings' = Savings(simList)
       ELSE UNCHANGED <<optTarget, optMin, savings>>
  /\ m' = m + 1
  /\ pc' = "outer"
  /\ UNCHANGED <<demand, minTarget, maxTarget, low, high, simList, calcMin>>

\* End of the binary search for floor m: keep (m, high) when high is a
\* valid target, the observed floor is reachable and the last simulation
\* saves at least as much as the best so far; go to the next floor.
Judge ==
  /\ pc = "search"
  /\ low > high
  /\ IF /\ high >= minTarget
        /\ calcMin <= m
        /\ Len(simList) > 0
        /\ Savings(simList) >= savings
       THEN /\ optMin' = m
            /\ optTarget' = high
            /\ savings' = Savings(simList)
       ELSE UNCHANGED <<optTarget, optMin, savings>>
  /\ m' = m + 1
  /\ pc' = "outer"
  /\ UNCHANGED <<demand, minTarget, maxTarget, low, high, simList, calcMin>>

\* All floors tried: fail with unableToRecommendError, or return the best.
Conclude ==
  /\ pc = "outer"
  /\ m > MaxReplicas
  /\ pc' = IF optTarget < minTarget \/ savings = 0 THEN "unable" ELSE "found"
  /\ UNCHANGED <<demand, minTarget, maxTarget, m, low, high, simList, calcMin,
                 optTarget, optMin, savings>>

Next == StartFloor \/ Probe \/ Judge \/ Conclude

Spec == Init /\ [][Next]_vars

-----------------------------------------------------------------------------
(* Properties.                                                             *)

TypeOK ==
  /\ demand \in Series
  /\ <<minTarget, maxTarget>> \in TargetRanges
  /\ pc \in {"outer", "search", "found", "unable", "error"}
  /\ m \in 1..MaxReplicas + 1
  /\ low \in Int /\ high \in Int
  /\ simList \in Seq(Nat)
  /\ calcMin \in Nat
  /\ optTarget \in Int /\ optMin \in 0..MaxReplicas
  /\ savings \in Nat

\* The refinement mapping: while the loops run, the search has not decided;
\* once concluded its status is the abstract one and, when found, the
\* returned floor and target are the abstract result.
Contract == INSTANCE SearchContract WITH
  status <- IF pc \in {"outer", "search"} THEN "searching" ELSE pc,
  best   <- IF pc = "found" THEN [min |-> optMin, target |-> optTarget]
            ELSE [min |-> 0, target |-> 0]

\* The search implements its contract (spec 4.2): every step of the loops
\* is invisible to the caller except the last, which returns a floor and a
\* target of the range that never breach demand under their own simulation,
\* or unableToRecommendError, or the simulator's error for a target it
\* rejects.
SearchContractRefined == Contract!Spec

\* The candidate kept is scored on its own simulation: the best savings are
\* those of simulating the recorded (target, floor) (spec 4.2: "score each
\* candidate by savings").
BestScoredOnItsOwn ==
  pc \in {"outer", "found"} /\ optMin > 0 =>
    savings = Savings(Simulate(demand, optTarget, optMin).supply)

=============================================================================
