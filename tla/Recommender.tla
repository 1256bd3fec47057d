----------------------------- MODULE Recommender -----------------------------
(***************************************************************************)
(* One call of CpuUtilizationBasedRecommender.Recommend                    *)
(* (src/pkg/reco/reco.go): scrape the series, find the workload's replica  *)
(* cap (getMaxPods), apply the data sufficiency gate, run the metrics      *)
(* transformers in order, fetch the cycle lag and the per-pod CPU limits,  *)
(* and run the configuration search.                                       *)
(*                                                                         *)
(* The collaborators (scraper, object clients, KEDA list, transformers)    *)
(* are outside the code; what each answers for this call is chosen when   *)
(* the call starts (env).  The search is represented by the outcomes       *)
(* findOptimalHPAConfigurations can return for the cap it is given: a     *)
(* floor in 1..cap with a target in the range, unableToRecommendError,     *)
(* or the simulator's error when a target of the range inflates past 100  *)
(* (OptimalSearch models the search itself).                              *)
(***************************************************************************)
EXTENDS Integers, FiniteSets

CONSTANTS
  MinTarget, MaxTarget,  \* c.minTarget, c.maxTarget
  MaxPodsValues,         \* replica counts the object clients may report
  SeriesLengths,         \* numbers of data points the scraper may return
  NTransformers,         \* len(c.metricsTransformer)
  WindowSecs, StepSecs,  \* c.metricWindow, c.metricStep, in seconds
  Threshold              \* c.metricsPercentageThreshold

ASSUME RecommenderAssumption ==
  /\ MinTarget \in Nat \ {0} /\ MaxTarget \in Nat /\ MinTarget <= MaxTarget
  /\ MaxPodsValues \subseteq Nat /\ SeriesLengths \subseteq Nat
  /\ NTransformers \in Nat
  /\ WindowSecs \in Nat /\ StepSecs \in Nat \ {0} /\ WindowSecs >= StepSecs
  /\ Threshold \in 0..100

\* What the collaborators answer during this call.
Env ==
  [scrapeOk     : BOOLEAN,                      \* GetAverageCPUUtilizationByWorkload
   nPoints      : SeriesLengths,
   kindKnown    : BOOLEAN,                      \* clientsRegistry.GetObjectClient
   annotation   : [ok : BOOLEAN, val : MaxPodsValues],  \* GetMaxReplicaFromAnnotation
   scaledObject : [res : {"listError", "notFound", "noMax", "max"},
                   val : MaxPodsValues],        \* List of ScaledObjects
   replicaCount : [ok : BOOLEAN, val : MaxPodsValues],  \* GetReplicaCount
   transformOk  : [1..NTransformers -> BOOLEAN],
   aclOk        : BOOLEAN,                      \* GetACLByWorkload
   limitsOk     : BOOLEAN]                      \* GetContainerResourceLimits

\* targetUtilization = int(math.Floor(float64(t) * 1.1)), as in simulateHPA.
Inflated(t) == (t * 11) \div 10

\* What findOptimalHPAConfigurations may return for replica cap maxR: with
\* no floor to try (maxR = 0) the loop is skipped and the search is unable.
SearchOutcomes(maxR) ==
  {[res |-> "found", min |-> m, target |-> t] :
      m \in 1..maxR, t \in MinTarget..MaxTarget}
  \cup {[res |-> "unable", min |-> 0, target |-> 0]}
  \cup (IF maxR > 0 /\ \E t \in MinTarget..MaxTarget : Inflated(t) \notin 1..100
          THEN {[res |-> "error", min |-> 0, target |-> 0]} ELSE {})

VARIABLES
  env,        \* the collaborators' answers
  pc,         \* "start", "maxPods", "gate", "transform", "limits", "search",
              \* "done" or "error"
  k,          \* index of the next transformer
  maxPods,    \* workloadMaxReplicas
  searchOut,  \* what the search returned
  result      \* the HPAConfiguration returned

vars == <<env, pc, k, maxPods, searchOut, result>>

NoResult == [min |-> 0, max |-> 0, target |-> 0]

\* Mutant: the no-op floor one below the cap.
NoOpOneBelow(maxR) == [min |-> maxR - 1, max |-> maxR, target |-> MinTarget]

\* The no-operation configuration: floor and cap at the workload's cap.
NoOp(maxR) == [min |-> maxR, max |-> maxR, target |-> MinTarget]

-----------------------------------------------------------------------------
\* Mutant: the ScaledObject consulted before the annotation.
GetMaxPodsScaledObjectFirst(e) ==
  IF ~e.kindKnown THEN [ok |-> FALSE, val |-> 0]
  ELSE IF e.scaledObject.res = "listError" THEN [ok |-> FALSE, val |-> 0]
  ELSE IF e.scaledObject.res = "max" THEN [ok |-> TRUE, val |-> e.scaledObject.val]
  ELSE IF e.annotation.ok THEN e.annotation
  ELSE e.replicaCount

\* getMaxPods, its early returns in order: an unknown kind fails; the
\* annotation wins; else a KEDA ScaledObject with maxReplicaCount (a
\* NotFound list is no error); else the current replica count.
GetMaxPods(e) ==
  IF ~e.kindKnown THEN [ok |-> FALSE, val |-> 0]
  ELSE IF e.annotation.ok THEN e.annotation
  ELSE IF e.scaledObject.res = "listError" THEN [ok |-> FALSE, val |-> 0]
  ELSE IF e.scaledObject.res = "max" THEN [ok |-> TRUE, val |-> e.scaledObject.val]
  ELSE e.replicaCount

\* isMetricsAboveThreshold: the share of the expected points, truncated to
\* an integer percentage, reaches the threshold.
IsMetricsAboveThreshold(n) ==
  LET total == WindowSecs \div StepSecs
  IN  (n * 100) \div total >= Threshold

Init ==
  /\ env \in Env
  /\ pc = "start"
  /\ k = 1
  /\ maxPods = 0
  /\ searchOut = [res |-> "none", min |-> 0, target |-> 0]
  /\ result = NoResult

Fail == pc' = "error" /\ UNCHANGED result

\* The scraper call; its error is returned.
Scrape ==
  /\ pc = "start"
  /\ IF env.scrapeOk THEN pc' = "maxPods" ELSE Fail
  /\ UNCHANGED <<env, k, maxPods, searchOut, result>>

\* getMaxPods, and its error.
FetchMaxPods ==
  /\ pc = "maxPods"
  /\ LET r == GetMaxPods(env)
     IN  IF r.ok THEN pc' = "gate" /\ maxPods' = r.val
         ELSE Fail /\ UNCHANGED maxPods
  /\ UNCHANGED <<env, k, searchOut, result>>

\* The data sufficiency gate: too few points return the no-op configuration.
Gate ==
  /\ pc = "gate"
  /\ IF IsMetricsAboveThreshold(env.nPoints)
       THEN pc' = "transform" /\ UNCHANGED result
       ELSE pc' = "done" /\ result' = NoOp(maxPods)
  /\ UNCHANGED <<env, k, maxPods, searchOut>>

\* One metrics transformer, in list order; its error is returned.
Transform ==
  /\ pc = "transform"
  /\ k <= NTransformers
  /\ IF env.transformOk[k] THEN k' = k + 1 /\ UNCHANGED pc ELSE Fail /\ UNCHANGED k
  /\ UNCHANGED <<env, maxPods, searchOut, result>>

\* After the transformers: the cycle lag, and its error.
FetchACL ==
  /\ pc = "transform"
  /\ k > NTransformers
  /\ IF env.aclOk THEN pc' = "limits" ELSE Fail
  /\ UNCHANGED <<env, k, maxPods, searchOut, result>>

\* getContainerCPULimitsSum: the object client (already found by getMaxPods)
\* and the limits, each of which may fail.
FetchLimits ==
  /\ pc = "limits"
  /\ IF env.kindKnown /\ env.limitsOk THEN pc' = "search" ELSE Fail
  /\ UNCHANGED <<env, k, maxPods, searchOut, result>>

\* The search: unableToRecommendError degrades to the no-op configuration,
\* any other error is returned, a result becomes the recommendation.
Search ==
  /\ pc = "search"
  /\ \E o \in SearchOutcomes(maxPods) :
       /\ searchOut' = o
       /\ CASE o.res = "found" ->
                 pc' = "done" /\ result' = [min |-> o.min, max |-> maxPods, target |-> o.target]
            [] o.res = "unable" -> pc' = "done" /\ result' = NoOp(maxPods)
            [] OTHER -> Fail
  /\ UNCHANGED <<env, k, maxPods>>

Next == Scrape \/ FetchMaxPods \/ Gate \/ Transform \/ FetchACL \/ FetchLimits \/ Search

Spec == Init /\ [][Next]_vars

-----------------------------------------------------------------------------
(* Properties.                                                             *)

TypeOK ==
  /\ env \in Env
  /\ pc \in {"start", "maxPods", "gate", "transform", "limits", "search",
             "done", "error"}
  /\ k \in 1..NTransformers + 1
  /\ maxPods \in MaxPodsValues \cup {0}
  /\ searchOut \in SearchOutcomes(maxPods) \cup {[res |-> "none", min |-> 0, target |-> 0]}
  /\ result \in [min : Nat, max : Nat, target : Nat]

\* The replica cap of spec 4.3: (a) the max-pods annotation, even when a
\* ScaledObject exists; else (b) the ScaledObject's maxReplicaCount; else
\* (c) the replica count.  An unknown kind or a failing call is an error.
SpecMaxPods ==
  IF ~env.kindKnown THEN [ok |-> FALSE, val |-> 0]
  ELSE IF env.annotation.ok THEN env.annotation
  ELSE IF env.scaledObject.res = "listError" THEN [ok |-> FALSE, val |-> 0]
  ELSE IF env.scaledObject.res = "max"
         THEN [ok |-> TRUE, val |-> env.scaledObject.val]
  ELSE env.replicaCount

\* What spec 4.3 and 7 say one call returns, from the collaborators'
\* answers alone: a collaborator failure surfaces as an error, too few data
\* points or an unable search give the no-op configuration (even when a
\* later step would have failed), and otherwise the search's result.
SpecOutcome ==
  LET cap     == SpecMaxPods.val
      failed  == [ok |-> FALSE, cfg |-> NoResult]
      Ret(c)  == [ok |-> TRUE, cfg |-> c]
  IN  IF ~env.scrapeOk \/ ~SpecMaxPods.ok THEN failed
      ELSE IF (env.nPoints * 100) \div (WindowSecs \div StepSecs) < Threshold
        THEN Ret(NoOp(cap))
      ELSE IF \/ \E j \in 1..NTransformers : ~env.transformOk[j]
              \/ ~env.aclOk \/ ~env.kindKnown \/ ~env.limitsOk
              \/ searchOut.res = "error"
        THEN failed
      ELSE IF searchOut.res = "unable" THEN Ret(NoOp(cap))
      ELSE Ret([min |-> searchOut.min, max |-> cap, target |-> searchOut.target])

\* Recommend returns what the spec says, whatever the collaborators answer:
\* the steps run in the order of spec 4.3 and no error is swallowed.
RecommendAsSpecified ==
  /\ pc = "error" => ~SpecOutcome.ok
  /\ pc = "done" => SpecOutcome = [ok |-> TRUE, cfg |-> result]

\* Spec 3: an HPAConfiguration has 1 <= min <= max.
ConfigWellFormed ==
  pc = "done" => 1 <= result.min /\ result.min <= result.max

=============================================================================
