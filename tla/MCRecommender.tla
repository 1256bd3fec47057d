---------------------------- MODULE MCRecommender ----------------------------
(* Recommender on a small instance: a cap of 0 or 3 replicas, a target     *)
(* range whose top inflates past 100, two transformers, and series on      *)
(* either side of a 60% sufficiency threshold.                              *)
EXTENDS Recommender

MCMaxPodsValues == {0, 3}
MCSeriesLengths == {5, 10}
=============================================================================
