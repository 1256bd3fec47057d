---------------------------- MODULE RecoWorkflow ----------------------------
(***************************************************************************)
(* The recommendation workflow (src/pkg/reco/workflow.go): the builder    *)
(* that assembles a RecommendationWorkflowImpl, then one call of Execute.  *)
(*                                                                         *)
(* The builder takes a recommender (the first non-nil one wins), policy    *)
(* iterators (the first one of each name wins), minRequiredReplicas and a  *)
(* policy store, in any order and any number of times, and Build refuses   *)
(* only a workflow with neither recommender nor iterator.  One call asks the recommender for a target configuration, raises its    *)
(* floor to minRequiredReplicas, runs every policy iterator of the         *)
(* workflow's map in Go's unspecified map order, folds their policies into *)
(* the safest one, and decides between the recommendation and the policy.  *)
(*                                                                         *)
(* The recommender and the iterators are collaborators: what each returns  *)
(* for this workload is chosen among small sets when the call starts (an   *)
(* iterator answers the same whatever the order it is called in).  A       *)
(* policy's riskIndex is a string of decimal digits, kept as the sequence  *)
(* of its digits, and compared as Go compares strings, byte by byte.  The  *)
(* policy store (not in the repository) sorts the catalog by ascending     *)
(* risk, read as a number (spec 3).                                        *)
(***************************************************************************)
EXTENDS Integers, Sequences

CONSTANTS
  Iterators,            \* names of the policy iterators in the map
  Catalog,              \* GetSortedPolicies: the policies by ascending risk
  RecoConfigs,          \* configurations the recommender may return
  MinReplicaInputs,     \* the values passed to WithMinRequiredReplicas
  NoPolicy,             \* a nil *Policy
  PIError,              \* an iterator returning an error
  RecoError             \* the recommender returning an error

Config == [min : Nat, max : Nat, target : Nat]
PolicyRec == [name : STRING, risk : Seq(0..9), cut : 0..100, target : Nat]
Policies == {Catalog[k] : k \in 1..Len(Catalog)}

\* The number a riskIndex string denotes.
RiskValue(s) ==
  LET v[k \in 0..Len(s)] == IF k = 0 THEN 0 ELSE 10 * v[k - 1] + s[k]
  IN  v[Len(s)]

\* Go's s1 <= s2 on strings: s1 is a prefix of s2, or at the first byte
\* where they differ s1's is smaller.
GoStringLE(s1, s2) ==
  \/ Len(s1) <= Len(s2) /\ s1 = SubSeq(s2, 1, Len(s1))
  \/ \E k \in 1..Len(s1) :
       /\ k <= Len(s2)
       /\ SubSeq(s1, 1, k - 1) = SubSeq(s2, 1, k - 1)
       /\ s1[k] < s2[k]

ASSUME WorkflowAssumption ==
  /\ Catalog \in Seq(PolicyRec)
  /\ \A k \in 1..Len(Catalog) - 1 :
       RiskValue(Catalog[k].risk) < RiskValue(Catalog[k + 1].risk)
  /\ RecoConfigs \subseteq {c \in Config : c.min <= c.max}
  /\ MinReplicaInputs \subseteq Int
  /\ NoPolicy \notin PolicyRec /\ PIError \notin PolicyRec /\ NoPolicy # PIError
  /\ RecoError \notin Config

\* Go's string order is a total order; the proofs use it on the catalog's
\* risk indices, where TLC checks it.
ASSUME RiskOrderAssumption ==
  \A p, q, r \in Policies :
    /\ GoStringLE(p.risk, q.risk) \/ GoStringLE(q.risk, p.risk)
    /\ GoStringLE(p.risk, q.risk) /\ GoStringLE(q.risk, r.risk) =>
         GoStringLE(p.risk, r.risk)

\* PolicyFromCR(&v1alpha1.Policy{}): the policy of a zero-valued CR.
EmptyPolicy == [name |-> "", risk |-> <<>>, cut |-> 0, target |-> 0]

VARIABLES
  hasRecommender,  \* b.recommender != nil
  registered,      \* the names in b.policyIterators (nil map when empty)
  hasStore,        \* b.policyStore != nil
  minRequiredReplicas,  \* b.minRequiredReplicas
  piOut,           \* what NextPolicy of each iterator returns for this workload
  pc,              \* "build", "builderror", "start", "iterate", "done",
                   \* "error", or "panic" (a nil store dereferenced)
  recoConfig,      \* targetRecoConfig
  visited,         \* the iterators the range loop has run
  nextPolicy,      \* the safest policy so far
  nextConfig,      \* first result: the configuration to apply
  applied          \* third result: the policy credited with it

vars == <<hasRecommender, registered, hasStore, minRequiredReplicas, piOut,
          pc, recoConfig, visited, nextPolicy, nextConfig, applied>>

builderVars == <<hasRecommender, registered, hasStore, minRequiredReplicas>>

-----------------------------------------------------------------------------
(* The helpers of Execute.                                                 *)

\* Mutant: the floor raised only when the cap exceeds minRequiredReplicas.
TransformStrict(c, minReq) ==
  IF c.max > minReq /\ c.min < minReq THEN [c EXCEPT !.min = minReq] ELSE c

\* transformTargetRecoConfig: raise the floor to minRequiredReplicas when the
\* cap allows it.
TransformTargetRecoConfig(c, minReq) ==
  IF c.max >= minReq /\ c.min < minReq THEN [c EXCEPT !.min = minReq] ELSE c

\* Mutant: the comparison of riskIndex the wrong way round.
PickRiskierPolicy(p1, p2) ==
  CASE p1 = NoPolicy -> p2
    [] p2 = NoPolicy -> p1
    [] OTHER -> IF GoStringLE(p2.risk, p1.risk) THEN p1 ELSE p2

\* pickSafestPolicy: nil is the identity, otherwise the lower riskIndex in
\* Go's string order, the first argument on a tie.
PickSafestPolicy(p1, p2) ==
  CASE p1 = NoPolicy -> p2
    [] p2 = NoPolicy -> p1
    [] OTHER -> IF GoStringLE(p1.risk, p2.risk) THEN p1 ELSE p2

\* shouldApplyReco: the recommendation wins only over a no-op policy
\* (cut 100) whose target is above the recommendation's.
ShouldApplyReco(c, p) ==
  \/ p = NoPolicy
  \/ p.cut = 100 /\ c.target < p.target

\* Mutant: the percentage cut taken of the cap instead of the range.
CutOfCap(p, c) ==
  [min |-> c.max - (p.cut * c.max) \div 100, max |-> c.max, target |-> p.target]

\* createRecoConfigFromPolicy: the Go expression
\* Max - int(math.Ceil(float64(cut*(Max-Min)/100))) divides in integers
\* first, so the ceiling applies to an already truncated quotient.
CreateRecoConfigFromPolicy(p, c) ==
  [min |-> c.max - (p.cut * (c.max - c.min)) \div 100,
   max |-> c.max,
   target |-> p.target]

\* findClosestSafePolicy: the last no-op policy of the sorted list whose
\* target does not exceed the recommendation's, or the zero-valued policy.
FindClosestSafePolicy(c, list) ==
  LET ok == {k \in 1..Len(list) : list[k].cut = 100 /\ list[k].target <= c.target}
  IN  IF ok = {} THEN EmptyPolicy
      ELSE list[CHOOSE k \in ok : \A j \in ok : j <= k]

-----------------------------------------------------------------------------
(* The builder: NewRecommendationWorkflowBuilder and its With* methods.    *)
(* piOut is what the kept iterator of each name answers in the call that   *)
(* follows.                                                                *)

Init ==
  /\ hasRecommender = FALSE
  /\ registered = {}
  /\ hasStore = FALSE
  /\ minRequiredReplicas = 0
  /\ piOut \in [Iterators -> Policies \cup {NoPolicy, PIError}]
  /\ pc = "build"
  /\ recoConfig = RecoError
  /\ visited = {}
  /\ nextPolicy = NoPolicy
  /\ nextConfig = RecoError
  /\ applied = NoPolicy

\* A nil recommender leaves the field nil; a second one is ignored.
WithRecommender ==
  /\ pc = "build"
  /\ \E r \in BOOLEAN : hasRecommender' = (hasRecommender \/ r)
  /\ UNCHANGED <<registered, hasStore, minRequiredReplicas, piOut, pc,
                 recoConfig, visited, nextPolicy, nextConfig, applied>>

\* An iterator whose name is already in the map is dropped.
WithPolicyIterator(n) ==
  /\ pc = "build"
  /\ registered' = registered \cup {n}
  /\ UNCHANGED <<hasRecommender, hasStore, minRequiredReplicas, piOut, pc,
                 recoConfig, visited, nextPolicy, nextConfig, applied>>

WithMinRequiredReplicas(m) ==
  /\ pc = "build"
  /\ minRequiredReplicas' = m
  /\ UNCHANGED <<hasRecommender, registered, hasStore, piOut, pc,
                 recoConfig, visited, nextPolicy, nextConfig, applied>>

WithPolicyStore(s) ==
  /\ pc = "build"
  /\ hasStore' = s
  /\ UNCHANGED <<hasRecommender, registered, minRequiredReplicas, piOut, pc,
                 recoConfig, visited, nextPolicy, nextConfig, applied>>

Build ==
  /\ pc = "build"
  /\ IF ~hasRecommender /\ registered = {}
       THEN /\ pc' = "builderror"
            /\ UNCHANGED minRequiredReplicas
       ELSE /\ pc' = "start"
            /\ minRequiredReplicas' =
                 IF minRequiredReplicas = 0 THEN 3 ELSE minRequiredReplicas
  /\ UNCHANGED <<hasRecommender, registered, hasStore, piOut, recoConfig,
                 visited, nextPolicy, nextConfig, applied>>

-----------------------------------------------------------------------------
(* Execute.                                                                *)

Recommend ==
  /\ pc = "start"
  /\ \/ /\ ~hasRecommender
        /\ pc' = "error"
        /\ UNCHANGED recoConfig
     \/ /\ hasRecommender    \* Recommend returned an error
        /\ pc' = "error"
        /\ UNCHANGED recoConfig
     \/ /\ hasRecommender
        /\ \E c \in RecoConfigs :
             recoConfig' = TransformTargetRecoConfig(c, minRequiredReplicas)
        /\ pc' = "iterate"
  /\ UNCHANGED <<builderVars, piOut, visited, nextPolicy, nextConfig, applied>>

RunPolicyIteratorIgnoringError(it) ==
  /\ pc = "iterate"
  /\ it \notin visited
  /\ visited' = visited \cup {it}
  /\ \/ /\ piOut[it] = NoPolicy
        /\ UNCHANGED <<pc, nextPolicy>>
     \/ /\ piOut[it] /= NoPolicy
        /\ nextPolicy' = PickSafestPolicy(nextPolicy, piOut[it])
        /\ UNCHANGED pc
  /\ UNCHANGED <<builderVars, piOut, recoConfig, nextConfig, applied>>

RunPolicyIterator(it) ==
  /\ pc = "iterate"
  /\ it \notin visited
  /\ visited' = visited \cup {it}
  /\ \/ /\ piOut[it] = PIError
        /\ pc' = "error"
        /\ UNCHANGED nextPolicy
     \/ /\ piOut[it] = NoPolicy
        /\ UNCHANGED <<pc, nextPolicy>>
     \/ /\ piOut[it] \in Policies
        /\ nextPolicy' = PickSafestPolicy(nextPolicy, piOut[it])
        /\ UNCHANGED pc
  /\ UNCHANGED <<builderVars, piOut, recoConfig, nextConfig, applied>>

\* With no store, rw.policyStore.GetSortedPolicies() calls a method of a
\* nil interface: the goroutine panics.
GenerateNextRecoConfig ==
  /\ pc = "iterate"
  /\ visited = registered
  /\ IF ShouldApplyReco(recoConfig, nextPolicy)
       THEN IF hasStore
              THEN /\ nextConfig' = recoConfig
                   /\ \/ applied' = FindClosestSafePolicy(recoConfig, Catalog)
                      \/ applied' = NoPolicy
                   /\ pc' = "done"
              ELSE /\ pc' = "panic"
                   /\ UNCHANGED <<nextConfig, applied>>
       ELSE /\ nextConfig' = CreateRecoConfigFromPolicy(nextPolicy, recoConfig)
            /\ applied' = nextPolicy
            /\ pc' = "done"
  /\ UNCHANGED <<builderVars, piOut, recoConfig, visited, nextPolicy>>

Next ==
  \/ WithRecommender
  \/ \E n \in Iterators : WithPolicyIterator(n)
  \/ \E m \in MinReplicaInputs : WithMinRequiredReplicas(m)
  \/ \E s \in BOOLEAN : WithPolicyStore(s)
  \/ Build
  \/ Recommend
  \/ \E it \in registered : RunPolicyIterator(it)
  \/ GenerateNextRecoConfig

Spec == Init /\ [][Next]_vars

-----------------------------------------------------------------------------
(* Properties.                                                             *)

TypeOK ==
  /\ hasRecommender \in BOOLEAN
  /\ registered \subseteq Iterators
  /\ hasStore \in BOOLEAN
  /\ minRequiredReplicas \in MinReplicaInputs \cup {0, 3}
  /\ piOut \in [Iterators -> Policies \cup {NoPolicy, PIError}]
  /\ pc \in {"build", "builderror", "start", "iterate", "done", "error", "panic"}
  /\ recoConfig \in Config \cup {RecoError}
  /\ visited \subseteq registered
  /\ nextPolicy \in Policies \cup {NoPolicy}
  /\ nextConfig \in Config \cup {RecoError}
  /\ applied \in Policies \cup {NoPolicy, EmptyPolicy}

\* The policies the iterators proposed.
Proposed == {piOut[it] : it \in registered} \cap Policies

\* The merge does not depend on the map's iteration order (spec 5): when
\* the call succeeds, the policy is the proposed one whose riskIndex is
\* least in the order pickSafestPolicy compares them by, or nil when no
\* iterator proposed one.
SafestPolicyChosen ==
  pc = "done" =>
    IF Proposed = {} THEN nextPolicy = NoPolicy
    ELSE /\ nextPolicy \in Proposed
         /\ \A p \in Proposed : GoStringLE(nextPolicy.risk, p.risk)

\* Spec 3 and 4.5: the merged policy is the proposed one with the smallest
\* riskIndex, lower meaning safer, in the catalog's order of ascending risk.
SafestInCatalogOrder ==
  pc = "done" /\ Proposed # {} =>
    \A p \in Proposed : RiskValue(nextPolicy.risk) <= RiskValue(p.risk)

\* Floor promotion (spec, testable properties), end to end: whatever wins,
\* a configuration whose cap reaches minRequiredReplicas is returned with a
\* floor of at least minRequiredReplicas.
FloorPromotion ==
  pc = "done" /\ nextConfig.max >= minRequiredReplicas =>
    nextConfig.min >= minRequiredReplicas

\* A policy only cuts within the recommendation: the configuration applied
\* keeps the recommended cap and a floor between the recommended floor and
\* the cap.
ConfigWithinReco ==
  pc = "done" =>
    /\ nextConfig.max = recoConfig.max
    /\ recoConfig.min <= nextConfig.min
    /\ nextConfig.min <= nextConfig.max

\* Spec 4.5, deriveFromPolicy: min = max - ceil(cut * (max - min) / 100).
DerivedMinAsSpecified ==
  pc = "done" /\ ~ShouldApplyReco(recoConfig, nextPolicy) =>
    nextConfig.min =
      recoConfig.max - (nextPolicy.cut * (recoConfig.max - recoConfig.min) + 99) \div 100

=============================================================================
