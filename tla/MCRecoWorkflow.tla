--------------------------- MODULE MCRecoWorkflow ---------------------------
(***************************************************************************)
(* Two iterators (the default and the aging iterator of the operator); a   *)
(* catalog of two no-op policies followed by two policies that cut the     *)
(* floor; recommendations with every floor up to a cap of 5 and a target   *)
(* below and above the no-op targets; minRequiredReplicas left unset (so   *)
(* the default 3) or set to 2.                                             *)
(* The risk indices are "1", "2", "9" and "10": the last two are ordered   *)
(* differently as numbers and as strings.                                  *)
(***************************************************************************)
EXTENDS RecoWorkflow

CONSTANTS i1, i2

MCIterators == {i1, i2}

MCCatalog ==
  << [name |-> "safest",   risk |-> <<1>>, cut |-> 100, target |-> 40],
     [name |-> "no-op-60", risk |-> <<2>>, cut |-> 100, target |-> 60],
     [name |-> "cut-50",   risk |-> <<9>>, cut |-> 50,  target |-> 60],
     [name |-> "cut-75",   risk |-> <<1, 0>>, cut |-> 75,  target |-> 70] >>

MCRecoConfigs ==
  {c \in [min : 1..5, max : 1..5, target : {30, 50}] : c.min <= c.max}

MCMinReplicaInputs == {0, 2}

=============================================================================
