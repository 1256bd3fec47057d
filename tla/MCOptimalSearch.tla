--------------------------- MODULE MCOptimalSearch ---------------------------
(***************************************************************************)
(* Model-checking instance of OptimalSearch: series of up to 3 points over *)
(* four demand levels, a per-pod limit of 20 units, a cap of 3 replicas, a *)
(* lag of 1 step.  The target ranges are the deployed one (20..80), whose  *)
(* searches take several probes, and one reaching past 90 percent, where   *)
(* the inflated target leaves 1..100 and the simulator fails.              *)
(***************************************************************************)
EXTENDS OptimalSearch

MCNPoints == 3
MCDemandValues == {5, 20, 45, 60}
MCTargetRanges == {<<20, 80>>, <<85, 100>>}

=============================================================================
