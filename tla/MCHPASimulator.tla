--------------------------- MODULE MCHPASimulator ---------------------------
(***************************************************************************)
(* Model-checking instance of HPASimulator: series of up to 5 points, a    *)
(* per-pod limit of 20 units, a cap of 4 replicas and a lag of 2 steps, so *)
(* that upscales overlap in the timer list, expire, and are dropped by a   *)
(* downscale.  Demand values reach beyond the capacity of the cap.         *)
(***************************************************************************)
EXTENDS HPASimulator

MCNPoints == 5
MCDemandValues == {0, 15, 40, 70}
MCTargets == {30, 60, 95}

=============================================================================
