--------------------------- MODULE MCSimulatorLaws ---------------------------
(***************************************************************************)
(* Series of up to 4 points over three demand levels, a per-pod limit of   *)
(* 20 units, a cap of 6 replicas and a lag of 2 steps: enough for a spike  *)
(* to be waiting in the timer list of one target while the other target    *)
(* has dropped it by a downscale.                                          *)
(***************************************************************************)
EXTENDS SimulatorLaws

MCNPoints == 4
MCDemandValues == {23, 27, 90}
MCTargets == {50, 60}

=============================================================================
