---------------------------- MODULE MCAgingPolicy ----------------------------
(* The aging iterator over a catalog of five policies with an Age of four *)
(* ticks.                                                                  *)
EXTENDS AgingPolicy

MCCatalog == <<"safest", "p2", "p3", "p4", "aggressive">>
MCEmptyName == ""
=============================================================================
