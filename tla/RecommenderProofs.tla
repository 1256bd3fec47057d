-------------------------- MODULE RecommenderProofs --------------------------
(***************************************************************************)
(* Proofs about one call of CpuUtilizationBasedRecommender.Recommend       *)
(* (Recommender): for every target range, cap, threshold and number of    *)
(* transformers, and whatever the collaborators answer, the call is well   *)
(* typed and returns what spec 4.3 and 7 say.                              *)
(*                                                                         *)
(* RecommendAsSpecified speaks only of the final states.  It is not        *)
(* inductive: a step that fails late (a transformer, the cycle lag, the    *)
(* limits) returns an error only because every earlier step succeeded and  *)
(* the data sufficiency gate let the call through.  Progress records, for  *)
(* each stage of the call, the answers the earlier stages have consumed.   *)
(***************************************************************************)
EXTENDS Recommender, TLAPS

USE RecommenderAssumption

\* The searchOut of a call that has not run the search.
NoSearch == [res |-> "none", min |-> 0, target |-> 0]

\* What the stages already passed have established about env.
Progress ==
  /\ pc \in {"start", "maxPods", "gate"} => k = 1
  /\ pc \in {"maxPods", "gate", "transform", "limits", "search"} => env.scrapeOk
  /\ pc \in {"gate", "transform", "limits", "search"} =>
       SpecMaxPods.ok /\ maxPods = SpecMaxPods.val
  /\ pc \in {"transform", "limits", "search"} => IsMetricsAboveThreshold(env.nPoints)
  /\ pc = "transform" => \A j \in 1..k - 1 : env.transformOk[j]
  /\ pc \in {"limits", "search"} =>
       (\A j \in 1..NTransformers : env.transformOk[j]) /\ env.aclOk
  /\ pc = "search" => env.kindKnown /\ env.limitsOk
  /\ pc \notin {"done", "error"} => searchOut = NoSearch

RInv == TypeOK /\ Progress /\ RecommendAsSpecified

\* getMaxPods follows spec 4.3's order of sources, and a cap it reports
\* is one the object clients or the ScaledObject gave.
LEMMA MaxPodsAsSpecified ==
  env \in Env =>
    /\ GetMaxPods(env) = SpecMaxPods
    /\ GetMaxPods(env).ok => GetMaxPods(env).val \in MaxPodsValues
BY DEF GetMaxPods, SpecMaxPods, Env

LEMMA InitRInv == Init => RInv
BY DEF Init, RInv, TypeOK, Progress, RecommendAsSpecified, NoSearch, NoResult

\* No step changes the collaborators' answers, so the spec's reading of
\* them is the same after every step.
LEMMA EnvFrozen ==
  [Next]_vars => env' = env /\ SpecMaxPods' = SpecMaxPods
<1>1. [Next]_vars => env' = env
  BY DEF Next, vars, Scrape, FetchMaxPods, Gate, Transform, FetchACL,
         FetchLimits, Search
<1>. QED
  BY <1>1 DEF SpecMaxPods

\* What decides the outcome spec 4.3 gives: an early failure, the data
\* sufficiency gate, a late failure.
SpecFailedEarly == ~env.scrapeOk \/ ~SpecMaxPods.ok
SpecFailedLate ==
  \/ \E j \in 1..NTransformers : ~env.transformOk[j]
  \/ ~env.aclOk \/ ~env.kindKnown \/ ~env.limitsOk
  \/ searchOut.res = "error"

\* The outcome spec 4.3 gives in each of those cases.
OutcomeCases ==
  /\ SpecFailedEarly => ~SpecOutcome.ok
  /\ ~SpecFailedEarly /\ ~IsMetricsAboveThreshold(env.nPoints) =>
       SpecOutcome = [ok |-> TRUE, cfg |-> NoOp(SpecMaxPods.val)]
  /\ ~SpecFailedEarly /\ IsMetricsAboveThreshold(env.nPoints) /\ SpecFailedLate =>
       ~SpecOutcome.ok
  /\ ~SpecFailedEarly /\ IsMetricsAboveThreshold(env.nPoints) /\ ~SpecFailedLate =>
       SpecOutcome =
         IF searchOut.res = "unable"
           THEN [ok |-> TRUE, cfg |-> NoOp(SpecMaxPods.val)]
           ELSE [ok |-> TRUE, cfg |-> [min |-> searchOut.min, max |-> SpecMaxPods.val,
                                       target |-> searchOut.target]]

LEMMA NextRInv == RInv /\ [Next]_vars => RInv'
<1> SUFFICES ASSUME RInv, [Next]_vars PROVE RInv'
  OBVIOUS
<1>0. /\ TypeOK /\ Progress /\ RecommendAsSpecified
      /\ env' = env /\ SpecMaxPods' = SpecMaxPods
  BY EnvFrozen DEF RInv
<1>e. env \in Env /\ k \in 1..NTransformers + 1 /\ maxPods \in Nat
  BY <1>0 DEF TypeOK
\* The outcome after a step that leaves env alone, by the same cases.
<1>s. OutcomeCases'
  <2>0. (env'.nPoints * 100) \div (WindowSecs \div StepSecs) \in Int
    <3>1. env'.nPoints \in Nat
      BY <1>0, <1>e DEF Env
    <3>2. WindowSecs \div StepSecs \in Nat \ {0}
      OBVIOUS
    <3>. QED
      BY <3>1, <3>2
  <2>1. SpecFailedEarly' => ~SpecOutcome'.ok
    BY DEF SpecOutcome, SpecFailedEarly
  <2>2. ~SpecFailedEarly' /\ ~IsMetricsAboveThreshold(env'.nPoints) =>
          SpecOutcome' = [ok |-> TRUE, cfg |-> NoOp(SpecMaxPods'.val)]
    BY <2>0 DEF SpecOutcome, SpecFailedEarly, IsMetricsAboveThreshold
  <2>3. ~SpecFailedEarly' /\ IsMetricsAboveThreshold(env'.nPoints) /\ SpecFailedLate' =>
          ~SpecOutcome'.ok
    BY <2>0 DEF SpecOutcome, SpecFailedEarly, SpecFailedLate, IsMetricsAboveThreshold
  <2>4. ~SpecFailedEarly' /\ IsMetricsAboveThreshold(env'.nPoints) /\ ~SpecFailedLate' =>
          SpecOutcome' =
            IF searchOut'.res = "unable"
              THEN [ok |-> TRUE, cfg |-> NoOp(SpecMaxPods'.val)]
              ELSE [ok |-> TRUE, cfg |-> [min |-> searchOut'.min, max |-> SpecMaxPods'.val,
                                          target |-> searchOut'.target]]
    BY <2>0 DEF SpecOutcome, SpecFailedEarly, SpecFailedLate, IsMetricsAboveThreshold
  <2>. QED
    BY <2>1, <2>2, <2>3, <2>4 DEF OutcomeCases
<1>1. CASE Scrape
  <2>1. CASE env.scrapeOk
    BY <1>0, <1>1, <2>1 DEF Scrape, RInv, TypeOK, Progress, RecommendAsSpecified
  <2>2. CASE ~env.scrapeOk
    <3>1. pc' = "error" /\ UNCHANGED <<k, maxPods, searchOut, result>>
      BY <1>1, <2>2 DEF Scrape, Fail
    <3>2. SpecFailedEarly'
      BY <1>0, <2>2 DEF SpecFailedEarly
    <3>. QED
      BY <1>0, <1>s, <3>1, <3>2 DEF OutcomeCases, RInv, TypeOK, Progress, RecommendAsSpecified
  <2>. QED
    BY <2>1, <2>2
<1>2. CASE FetchMaxPods
  <2>0. pc = "maxPods" /\ UNCHANGED <<k, searchOut, result>>
    BY <1>2 DEF FetchMaxPods
  <2>1. GetMaxPods(env) = SpecMaxPods
        /\ (GetMaxPods(env).ok => GetMaxPods(env).val \in MaxPodsValues)
    BY <1>e, MaxPodsAsSpecified
  <2>2. CASE SpecMaxPods.ok
    <3>1. pc' = "gate" /\ maxPods' = SpecMaxPods.val /\ maxPods' \in MaxPodsValues
      BY <1>2, <2>1, <2>2 DEF FetchMaxPods
    <3>. QED
      BY <1>0, <2>0, <2>2, <3>1 DEF RInv, TypeOK, Progress, RecommendAsSpecified, NoSearch,
                                     SearchOutcomes
  <2>3. CASE ~SpecMaxPods.ok
    <3>1. pc' = "error" /\ UNCHANGED maxPods
      BY <1>2, <2>1, <2>3 DEF FetchMaxPods, Fail
    <3>2. SpecFailedEarly'
      BY <1>0, <2>3 DEF SpecFailedEarly
    <3>. QED
      BY <1>0, <1>s, <2>0, <3>1, <3>2 DEF OutcomeCases, RInv, TypeOK, Progress, RecommendAsSpecified
  <2>. QED
    BY <2>2, <2>3
<1>3. CASE Gate
  <2>0. /\ pc = "gate" /\ UNCHANGED <<k, maxPods, searchOut>>
        /\ env.scrapeOk /\ SpecMaxPods.ok /\ maxPods = SpecMaxPods.val /\ k = 1
    BY <1>0, <1>3 DEF Gate, Progress
  <2>1. CASE IsMetricsAboveThreshold(env.nPoints)
    <3>1. pc' = "transform" /\ UNCHANGED result
      BY <1>3, <2>1 DEF Gate
    <3>. QED
      BY <1>0, <2>0, <2>1, <3>1 DEF RInv, TypeOK, Progress, RecommendAsSpecified
  <2>2. CASE ~IsMetricsAboveThreshold(env.nPoints)
    <3>1. pc' = "done" /\ result' = NoOp(maxPods)
      BY <1>3, <2>2 DEF Gate
    <3>2. SpecOutcome' = [ok |-> TRUE, cfg |-> NoOp(maxPods)]
      BY <1>0, <1>s, <2>0, <2>2 DEF OutcomeCases, SpecFailedEarly
    <3>3. NoOp(maxPods) \in [min : Nat, max : Nat, target : Nat]
      BY <1>e DEF NoOp
    <3>. QED
      BY <1>0, <2>0, <3>1, <3>2, <3>3 DEF RInv, TypeOK, Progress, RecommendAsSpecified
  <2>. QED
    BY <2>1, <2>2
<1>4. CASE Transform
  <2>0. /\ pc = "transform" /\ k \in 1..NTransformers
        /\ UNCHANGED <<maxPods, searchOut, result>>
        /\ env.scrapeOk /\ SpecMaxPods.ok /\ maxPods = SpecMaxPods.val
        /\ IsMetricsAboveThreshold(env.nPoints)
        /\ \A j \in 1..k - 1 : env.transformOk[j]
    BY <1>0, <1>e, <1>4 DEF Transform, Progress
  <2>2. CASE env.transformOk[k]
    <3>1. k' = k + 1 /\ pc' = "transform"
      BY <1>4, <2>2 DEF Transform
    <3>2. \A j \in 1..k' - 1 : env'.transformOk[j]
      BY <1>0, <2>0, <2>2, <3>1
    <3>. QED
      BY <1>0, <2>0, <3>1, <3>2 DEF RInv, TypeOK, Progress, RecommendAsSpecified
  <2>3. CASE ~env.transformOk[k]
    <3>1. pc' = "error" /\ k' = k
      BY <1>4, <2>3 DEF Transform, Fail
    <3>2. ~SpecFailedEarly' /\ IsMetricsAboveThreshold(env'.nPoints) /\ SpecFailedLate'
      BY <1>0, <2>0, <2>3 DEF SpecFailedEarly, SpecFailedLate
    <3>. QED
      BY <1>0, <1>s, <2>0, <3>1, <3>2 DEF OutcomeCases, RInv, TypeOK, Progress, RecommendAsSpecified
  <2>. QED
    BY <2>2, <2>3
<1>5. CASE FetchACL
  <2>0. /\ pc = "transform" /\ k > NTransformers
        /\ UNCHANGED <<k, maxPods, searchOut, result>>
        /\ env.scrapeOk /\ SpecMaxPods.ok /\ maxPods = SpecMaxPods.val
        /\ IsMetricsAboveThreshold(env.nPoints)
    BY <1>0, <1>5 DEF FetchACL, Progress
  <2>1. \A j \in 1..NTransformers : env.transformOk[j]
    BY <1>0, <1>e, <2>0 DEF Progress
  <2>2. CASE env.aclOk
    BY <1>0, <1>5, <2>0, <2>1, <2>2 DEF FetchACL, RInv, TypeOK, Progress,
                                        RecommendAsSpecified
  <2>3. CASE ~env.aclOk
    <3>1. pc' = "error"
      BY <1>5, <2>3 DEF FetchACL, Fail
    <3>2. ~SpecFailedEarly' /\ IsMetricsAboveThreshold(env'.nPoints) /\ SpecFailedLate'
      BY <1>0, <2>0, <2>3 DEF SpecFailedEarly, SpecFailedLate
    <3>. QED
      BY <1>0, <1>s, <2>0, <3>1, <3>2 DEF OutcomeCases, RInv, TypeOK, Progress, RecommendAsSpecified
  <2>. QED
    BY <2>2, <2>3
<1>6. CASE FetchLimits
  <2>0. /\ pc = "limits" /\ UNCHANGED <<k, maxPods, searchOut, result>>
        /\ env.scrapeOk /\ SpecMaxPods.ok /\ maxPods = SpecMaxPods.val
        /\ IsMetricsAboveThreshold(env.nPoints)
        /\ (\A j \in 1..NTransformers : env.transformOk[j]) /\ env.aclOk
    BY <1>0, <1>6 DEF FetchLimits, Progress
  <2>2. CASE env.kindKnown /\ env.limitsOk
    BY <1>0, <1>6, <2>0, <2>2 DEF FetchLimits, RInv, TypeOK, Progress,
                                  RecommendAsSpecified
  <2>3. CASE ~(env.kindKnown /\ env.limitsOk)
    <3>1. pc' = "error"
      BY <1>6, <2>3 DEF FetchLimits, Fail
    <3>2. ~SpecFailedEarly' /\ IsMetricsAboveThreshold(env'.nPoints) /\ SpecFailedLate'
      BY <1>0, <2>0, <2>3 DEF SpecFailedEarly, SpecFailedLate
    <3>. QED
      BY <1>0, <1>s, <2>0, <3>1, <3>2 DEF OutcomeCases, RInv, TypeOK, Progress, RecommendAsSpecified
  <2>. QED
    BY <2>2, <2>3
<1>7. CASE Search
  <2>0. /\ pc = "search" /\ UNCHANGED <<k, maxPods>>
        /\ env.scrapeOk /\ SpecMaxPods.ok /\ maxPods = SpecMaxPods.val
        /\ IsMetricsAboveThreshold(env.nPoints)
        /\ (\A j \in 1..NTransformers : env.transformOk[j]) /\ env.aclOk
        /\ env.kindKnown /\ env.limitsOk
    BY <1>0, <1>7 DEF Search, Progress
  <2>1. PICK o \in SearchOutcomes(maxPods) :
          /\ searchOut' = o
          /\ CASE o.res = "found" ->
                    pc' = "done" /\ result' = [min |-> o.min, max |-> maxPods, target |-> o.target]
               [] o.res = "unable" -> pc' = "done" /\ result' = NoOp(maxPods)
               [] OTHER -> Fail
    BY <1>7 DEF Search
  <2>2. ~SpecFailedEarly' /\ IsMetricsAboveThreshold(env'.nPoints)
    BY <1>0, <2>0 DEF SpecFailedEarly
  <2>3. TypeOK'
    <3>1. CASE o.res = "found"
      <4>1. o.min \in Nat /\ o.target \in Nat
        BY <3>1 DEF SearchOutcomes
      <4>. QED
        BY <1>0, <1>e, <2>0, <2>1, <3>1, <4>1 DEF TypeOK
    <3>2. CASE o.res # "found"
      BY <1>0, <1>e, <2>0, <2>1, <3>2 DEF TypeOK, NoOp, Fail
    <3>. QED
      BY <3>1, <3>2
  <2>4. CASE o.res = "found"
    <3>1. pc' = "done" /\ result' = [min |-> o.min, max |-> maxPods, target |-> o.target]
      BY <2>1, <2>4
    <3>2. ~SpecFailedLate'
      BY <1>0, <2>0, <2>1, <2>4 DEF SpecFailedLate
    <3>. QED
      BY <1>0, <1>s, <2>0, <2>1, <2>2, <2>3, <2>4, <3>1, <3>2
         DEF OutcomeCases, RInv, Progress, RecommendAsSpecified
  <2>5. CASE o.res = "unable"
    <3>1. pc' = "done" /\ result' = NoOp(maxPods)
      BY <2>1, <2>5
    <3>2. ~SpecFailedLate'
      BY <1>0, <2>0, <2>1, <2>5 DEF SpecFailedLate
    <3>. QED
      BY <1>0, <1>s, <2>0, <2>1, <2>2, <2>3, <2>5, <3>1, <3>2
         DEF OutcomeCases, RInv, Progress, RecommendAsSpecified
  <2>6. CASE o.res \notin {"found", "unable"}
    <3>1. pc' = "error"
      BY <2>1, <2>6 DEF Fail
    <3>2. o.res = "error"
      BY <2>1, <2>6 DEF SearchOutcomes
    <3>3. SpecFailedLate'
      BY <2>1, <3>2 DEF SpecFailedLate
    <3>. QED
      BY <1>0, <1>s, <2>2, <2>3, <3>1, <3>3 DEF OutcomeCases, RInv, Progress, RecommendAsSpecified
  <2>. QED
    BY <2>4, <2>5, <2>6
<1>8. CASE UNCHANGED vars
  BY <1>0, <1>8 DEF vars, RInv, TypeOK, Progress, RecommendAsSpecified, SpecOutcome
<1>. QED
  BY <1>1, <1>2, <1>3, <1>4, <1>5, <1>6, <1>7, <1>8 DEF Next

\* Every state of a Recommend call is well typed: the cap comes from the
\* collaborators, the transformer index stays in range, and the result is
\* a configuration of naturals.
THEOREM TypeCorrect == Spec => []TypeOK
BY InitRInv, NextRInv, PTL DEF Spec, RInv

\* Whatever the scraper, the object clients, the KEDA list, the
\* transformers and the search answer, Recommend returns an error exactly
\* where spec 4.3 and 7 say, and otherwise the configuration they say: the
\* steps run in the spec's order and no error is swallowed.
THEOREM RecommendMeetsSpec == Spec => []RecommendAsSpecified
BY InitRInv, NextRInv, PTL DEF Spec, RInv

====
