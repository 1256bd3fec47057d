-------------------------- MODULE RecoWorkflowProofs --------------------------
(***************************************************************************)
(* Proof that the merge of the policy iterators' answers in Execute        *)
(* (RecoWorkflow) does not depend on the order Go's map iteration visits   *)
(* them: for every set of iterators, every catalog and every answer, a     *)
(* successful call ends with the proposed policy of least riskIndex.       *)
(*                                                                         *)
(* The argument is the loop invariant of the range loop: after any set of  *)
(* iterators has run, nextPolicy is the least of the policies they         *)
(* proposed, or nil if they proposed none.  It rests only on Go's string   *)
(* order being total and transitive on the catalog (RiskOrderAssumption).  *)
(*                                                                         *)
(* The second part proves the workflow well typed and the shape of the     *)
(* configuration it returns: the promoted floor survives the merge, and a  *)
(* policy's cut stays within the recommendation.  The inductive invariant  *)
(* ConfigInv records what transformTargetRecoConfig established at         *)
(* "iterate", which generateNextRecoConfig then relies on.                 *)
(***************************************************************************)
EXTENDS RecoWorkflow, SequenceTheorems, WellFoundedInduction, TLAPS

\* A percentage of a non-negative width stays within that width.
LEMMA CutWithinWidth ==
  ASSUME NEW pct \in 0..100, NEW w \in Nat
  PROVE  (pct * w) \div 100 \in 0..w
<1>1. pct * w \in Nat
  OBVIOUS
<1>2. pct * w <= 100 * w
  <2>1. (100 - pct) * w \in Nat
    OBVIOUS
  <2>. QED
    BY <2>1
<1>. QED
  BY <1>1, <1>2

\* A non-empty set of indices has a greatest element: the one whose
\* distance to the bound is least, < being well-founded on Nat.
LEMMA GreatestIndex ==
  ASSUME NEW n \in Nat, NEW S \in SUBSET (1..n), S # {}
  PROVE  \E k \in S : \A j \in S : j <= k
<1>. DEFINE T == {n - k : k \in S}
<1>1. T \subseteq Nat
  OBVIOUS
<1>0. T # {}
  OBVIOUS
<1>2. \E x \in T : \A y \in T : ~(<<y, x>> \in OpToRel(<, Nat))
  BY <1>0, <1>1, NatLessThanWellFounded, WFMin
<1>3. PICK k \in S : \A j \in S : ~(<<n - j, n - k>> \in OpToRel(<, Nat))
  BY <1>2
<1>4. \A j \in S : ~(n - j < n - k)
  <2>. TAKE j \in S
  <2>1. n - j \in Nat /\ n - k \in Nat
    OBVIOUS
  <2>2. <<n - j, n - k>> \in Nat \X Nat
    BY <2>1
  <2>. QED
    BY <1>3, <2>2 DEF OpToRel
<1>. QED
  BY <1>4

USE WorkflowAssumption, RiskOrderAssumption

\* The policies proposed by a set of iterators.
ProposedBy(V) == {piOut[it] : it \in V} \cap Policies

\* The fold of pickSafestPolicy over the iterators in V.
IsSafestOf(V) ==
  IF ProposedBy(V) = {} THEN nextPolicy = NoPolicy
  ELSE /\ nextPolicy \in ProposedBy(V)
       /\ \A p \in ProposedBy(V) : GoStringLE(nextPolicy.risk, p.risk)

\* The loop invariant, with what the proof needs of the other variables.
MergeInv ==
  /\ piOut \in [Iterators -> Policies \cup {NoPolicy, PIError}]
  /\ registered \subseteq Iterators
  /\ visited \subseteq registered
  /\ pc \in {"build", "builderror", "start", "iterate", "done", "error", "panic"}
  /\ pc \in {"build", "start"} => visited = {} /\ nextPolicy = NoPolicy
  /\ pc \in {"iterate", "done"} => IsSafestOf(visited)
  /\ pc = "done" => visited = registered

\* A nil policy, an error and a catalog policy are told apart.
LEMMA PoliciesAreRecords == NoPolicy \notin Policies /\ PIError \notin Policies
<1>1. \A k \in 1..Len(Catalog) : Catalog[k] \in PolicyRec
  BY ElementOfSeq
<1>. QED
  BY <1>1 DEF Policies

\* Folding in one more proposed policy keeps the least one.
LEMMA FoldStep ==
  ASSUME NEW V, NEW it, NEW q \in Policies,
         piOut[it] = q,
         IsSafestOf(V)
  PROVE  LET n == PickSafestPolicy(nextPolicy, q)
         IN  /\ n \in ProposedBy(V \cup {it})
             /\ \A p \in ProposedBy(V \cup {it}) : GoStringLE(n.risk, p.risk)
<1>. DEFINE n == PickSafestPolicy(nextPolicy, q)
<1>0. q # NoPolicy /\ GoStringLE(q.risk, q.risk)
  BY PoliciesAreRecords
<1>1. ProposedBy(V \cup {it}) = ProposedBy(V) \cup {q}
  BY DEF ProposedBy
<1>2. CASE ProposedBy(V) = {}
  <2>1. nextPolicy = NoPolicy
    BY <1>2 DEF IsSafestOf
  <2>2. n = q
    BY <1>0, <2>1 DEF PickSafestPolicy
  <2>. QED
    BY <1>0, <1>1, <1>2, <2>2
<1>3. CASE ProposedBy(V) # {}
  <2>1. /\ nextPolicy \in ProposedBy(V)
        /\ \A p \in ProposedBy(V) : GoStringLE(nextPolicy.risk, p.risk)
    BY <1>3 DEF IsSafestOf
  <2>2. nextPolicy \in Policies /\ nextPolicy # NoPolicy
    BY <2>1, PoliciesAreRecords DEF ProposedBy
  <2>3. CASE GoStringLE(nextPolicy.risk, q.risk)
    <3>1. n = nextPolicy
      BY <1>0, <2>2, <2>3 DEF PickSafestPolicy
    <3>. QED
      BY <1>1, <2>1, <2>3, <3>1
  <2>4. CASE ~GoStringLE(nextPolicy.risk, q.risk)
    <3>1. n = q
      BY <1>0, <2>2, <2>4 DEF PickSafestPolicy
    <3>2. GoStringLE(q.risk, nextPolicy.risk)
      BY <2>2, <2>4
    <3>3. \A p \in ProposedBy(V) : GoStringLE(q.risk, p.risk)
      BY <2>1, <2>2, <3>2 DEF ProposedBy
    <3>. QED
      BY <1>0, <1>1, <3>1, <3>3
  <2>. QED
    BY <2>3, <2>4
<1>. QED
  BY <1>2, <1>3

LEMMA InitMergeInv == Init => MergeInv
BY DEF Init, MergeInv

LEMMA NextMergeInv == MergeInv /\ [Next]_vars => MergeInv'
<1> SUFFICES ASSUME MergeInv, [Next]_vars PROVE MergeInv'
  OBVIOUS
<1>5. CASE WithRecommender
  BY <1>5 DEF WithRecommender, MergeInv
<1>6. ASSUME NEW n \in Iterators, WithPolicyIterator(n) PROVE MergeInv'
  BY <1>6 DEF WithPolicyIterator, MergeInv
<1>7. ASSUME NEW m \in MinReplicaInputs, WithMinRequiredReplicas(m) PROVE MergeInv'
  BY <1>7 DEF WithMinRequiredReplicas, MergeInv
<1>8. ASSUME NEW b \in BOOLEAN, WithPolicyStore(b) PROVE MergeInv'
  BY <1>8 DEF WithPolicyStore, MergeInv
<1>9. CASE Build
  BY <1>9 DEF Build, MergeInv
<1>1. CASE Recommend
  BY <1>1 DEF Recommend, MergeInv, IsSafestOf, ProposedBy, builderVars
<1>2. ASSUME NEW it \in registered, RunPolicyIterator(it)
      PROVE  MergeInv'
  <2>1. pc = "iterate" /\ IsSafestOf(visited)
    BY <1>2 DEF RunPolicyIterator, MergeInv
  <2>2. /\ visited' = visited \cup {it}
        /\ UNCHANGED <<piOut, registered, recoConfig, nextConfig, applied>>
    BY <1>2 DEF RunPolicyIterator, builderVars
  <2>3. CASE piOut[it] = PIError
    <3>1. pc' = "error"
      BY <1>2, <2>3, PoliciesAreRecords DEF RunPolicyIterator
    <3>. QED
      BY <1>2, <2>2, <3>1 DEF MergeInv
  <2>4. CASE piOut[it] = NoPolicy
    <3>1. pc' = pc /\ nextPolicy' = nextPolicy
      BY <1>2, <2>4, PoliciesAreRecords DEF RunPolicyIterator
    <3>2. ProposedBy(visited \cup {it}) = ProposedBy(visited)
      BY <2>4, PoliciesAreRecords DEF ProposedBy
    <3>3. IsSafestOf(visited \cup {it})'
      BY <2>1, <2>2, <3>1, <3>2 DEF IsSafestOf, ProposedBy
    <3>. QED
      BY <1>2, <2>1, <2>2, <3>1, <3>3 DEF MergeInv
  <2>5. CASE piOut[it] \in Policies
    <3>1. pc' = pc /\ nextPolicy' = PickSafestPolicy(nextPolicy, piOut[it])
      BY <1>2, <2>5, PoliciesAreRecords DEF RunPolicyIterator
    <3>2. /\ nextPolicy' \in ProposedBy(visited \cup {it})
          /\ \A p \in ProposedBy(visited \cup {it}) : GoStringLE(nextPolicy'.risk, p.risk)
      BY <2>1, <2>5, <3>1, FoldStep
    <3>3. ProposedBy(visited \cup {it}) # {}
      BY <3>2
    <3>4. IsSafestOf(visited \cup {it})'
      BY <2>2, <3>2, <3>3 DEF IsSafestOf, ProposedBy
    <3>. QED
      BY <1>2, <2>1, <2>2, <3>1, <3>4 DEF MergeInv
  <2>. QED
    BY <1>2, <2>3, <2>4, <2>5 DEF MergeInv
<1>3. CASE GenerateNextRecoConfig
  <2>1. /\ pc = "iterate" /\ visited = registered
        /\ pc' \in {"done", "panic"}
        /\ UNCHANGED <<piOut, registered, visited, nextPolicy>>
    BY <1>3 DEF GenerateNextRecoConfig, builderVars
  <2>. QED
    BY <2>1 DEF MergeInv, IsSafestOf, ProposedBy
<1>4. CASE UNCHANGED vars
  BY <1>4 DEF vars, MergeInv, IsSafestOf, ProposedBy
<1>. QED
  BY <1>1, <1>2, <1>3, <1>4, <1>5, <1>6, <1>7, <1>8, <1>9 DEF Next

-----------------------------------------------------------------------------
(***************************************************************************)
(* The configuration Execute returns.  transformTargetRecoConfig raises    *)
(* the recommended floor before the iterators run, and the result is      *)
(* either that configuration or createRecoConfigFromPolicy's cut of it.   *)
(* FloorPromotion is not inductive on its own: it speaks of nextConfig     *)
(* only, and holds at "done" because the floor of recoConfig was promoted  *)
(* at "iterate" and a policy's cut never lowers a floor.  ConfigInv        *)
(* carries both facts from Recommend to GenerateNextRecoConfig.            *)
(***************************************************************************)

ConfigInv ==
  /\ pc \in {"iterate", "done"} =>
       /\ recoConfig \in Config
       /\ recoConfig.min <= recoConfig.max
       /\ recoConfig.max >= minRequiredReplicas =>
            recoConfig.min >= minRequiredReplicas
  /\ pc = "done" =>
       /\ nextConfig \in Config
       /\ nextConfig.max = recoConfig.max
       /\ recoConfig.min <= nextConfig.min
       /\ nextConfig.min <= nextConfig.max

WorkflowInv == TypeOK /\ ConfigInv

\* The catalog's entries are policy records.
LEMMA PoliciesInRec == Policies \subseteq PolicyRec
BY ElementOfSeq DEF Policies

\* transformTargetRecoConfig keeps a configuration well formed and its cap,
\* and leaves it with a floor of minReq whenever the cap reaches minReq.
LEMMA TransformPromotes ==
  ASSUME NEW c \in Config, c.min <= c.max, NEW r \in Int
  PROVE  LET t == TransformTargetRecoConfig(c, r)
         IN  /\ t \in Config
             /\ t.min <= t.max
             /\ t.max = c.max
             /\ t.max >= r => t.min >= r
BY DEF TransformTargetRecoConfig, Config

\* createRecoConfigFromPolicy keeps the cap and puts the floor between the
\* recommended floor and the cap.
LEMMA CutStaysWithin ==
  ASSUME NEW p \in Policies, NEW c \in Config, c.min <= c.max
  PROVE  LET n == CreateRecoConfigFromPolicy(p, c)
         IN  /\ n \in Config
             /\ n.max = c.max
             /\ c.min <= n.min
             /\ n.min <= n.max
<1>1. p.cut \in 0..100 /\ p.target \in Nat
  BY PoliciesInRec DEF PolicyRec
<1>3. c.max - c.min \in Nat
  BY DEF Config
<1>2. (p.cut * (c.max - c.min)) \div 100 \in 0..(c.max - c.min)
  BY <1>1, <1>3, CutWithinWidth
<1>. QED
  BY <1>1, <1>2 DEF CreateRecoConfigFromPolicy, Config

\* findClosestSafePolicy returns a catalog policy or the zero-valued one.
LEMMA ClosestSafeType ==
  ASSUME NEW c
  PROVE  FindClosestSafePolicy(c, Catalog) \in Policies \cup {EmptyPolicy}
<1>. DEFINE ok == {k \in 1..Len(Catalog) : Catalog[k].cut = 100 /\ Catalog[k].target <= c.target}
<1>1. Len(Catalog) \in Nat
  BY LenProperties
<1>2. CASE ok # {}
  <2>1. \E k \in ok : \A j \in ok : j <= k
    BY <1>1, <1>2, GreatestIndex
  <2>2. (CHOOSE k \in ok : \A j \in ok : j <= k) \in 1..Len(Catalog)
    BY <2>1
  <2>3. FindClosestSafePolicy(c, Catalog) = Catalog[CHOOSE k \in ok : \A j \in ok : j <= k]
    BY <1>2 DEF FindClosestSafePolicy
  <2>4. Catalog[CHOOSE k \in ok : \A j \in ok : j <= k] \in Policies
    BY <2>2 DEF Policies
  <2>. QED
    BY <2>3, <2>4
<1>. QED
  BY <1>2, Zenon DEF FindClosestSafePolicy

\* pickSafestPolicy returns one of its arguments.
LEMMA PickType ==
  ASSUME NEW a \in Policies \cup {NoPolicy}, NEW b \in Policies \cup {NoPolicy}
  PROVE  PickSafestPolicy(a, b) \in Policies \cup {NoPolicy}
BY DEF PickSafestPolicy

\* Whatever order Go's map iteration runs the iterators in, a successful
\* Execute merges their answers into the proposed policy of least riskIndex
\* (or nil when none proposed one).
THEOREM MergeOrderIndependent == Spec => []SafestPolicyChosen
<1>1. MergeInv => SafestPolicyChosen
  BY DEF MergeInv, IsSafestOf, ProposedBy, SafestPolicyChosen, Proposed
<1>. QED
  BY InitMergeInv, NextMergeInv, <1>1, PTL DEF Spec

LEMMA InitWorkflowInv == Init => WorkflowInv
BY DEF Init, WorkflowInv, TypeOK, ConfigInv

LEMMA NextWorkflowInv == WorkflowInv /\ [Next]_vars => WorkflowInv'
<1> SUFFICES ASSUME WorkflowInv, [Next]_vars PROVE WorkflowInv'
  OBVIOUS
<1>0. /\ TypeOK /\ ConfigInv
      /\ minRequiredReplicas \in Int
      /\ nextPolicy \in Policies \cup {NoPolicy}
  BY DEF WorkflowInv, TypeOK
<1>5. CASE WithRecommender
  BY <1>0, <1>5 DEF WithRecommender, WorkflowInv, TypeOK, ConfigInv
<1>6. ASSUME NEW n \in Iterators, WithPolicyIterator(n) PROVE WorkflowInv'
  BY <1>0, <1>6 DEF WithPolicyIterator, WorkflowInv, TypeOK, ConfigInv
<1>7. ASSUME NEW m \in MinReplicaInputs, WithMinRequiredReplicas(m) PROVE WorkflowInv'
  BY <1>0, <1>7 DEF WithMinRequiredReplicas, WorkflowInv, TypeOK, ConfigInv
<1>8. ASSUME NEW b \in BOOLEAN, WithPolicyStore(b) PROVE WorkflowInv'
  BY <1>0, <1>8 DEF WithPolicyStore, WorkflowInv, TypeOK, ConfigInv
<1>9. CASE Build
  BY <1>0, <1>9 DEF Build, WorkflowInv, TypeOK, ConfigInv
<1>1. CASE Recommend
  <2>0. pc = "start" /\ UNCHANGED <<builderVars, piOut, visited, nextPolicy,
                                    nextConfig, applied>>
    BY <1>1 DEF Recommend
  <2>1. CASE pc' = "error"
    <3>1. UNCHANGED recoConfig
      BY <1>1, <2>1 DEF Recommend
    <3>. QED
      BY <1>0, <2>0, <2>1, <3>1 DEF builderVars, WorkflowInv, TypeOK, ConfigInv
  <2>2. CASE pc' # "error"
    <3>1. PICK c \in RecoConfigs :
                 recoConfig' = TransformTargetRecoConfig(c, minRequiredReplicas)
      BY <1>1, <2>2 DEF Recommend
    <3>2. c \in Config /\ c.min <= c.max
      OBVIOUS
    <3>3. LET t == TransformTargetRecoConfig(c, minRequiredReplicas)
          IN  /\ t \in Config
              /\ t.min <= t.max
              /\ t.max >= minRequiredReplicas => t.min >= minRequiredReplicas
      BY <1>0, <3>2, TransformPromotes
    <3>4. pc' = "iterate"
      BY <1>1, <2>2 DEF Recommend
    <3>7. /\ hasRecommender' = hasRecommender /\ registered' = registered
          /\ hasStore' = hasStore /\ minRequiredReplicas' = minRequiredReplicas
          /\ piOut' = piOut /\ visited' = visited /\ nextPolicy' = nextPolicy
          /\ nextConfig' = nextConfig /\ applied' = applied
      BY <2>0 DEF builderVars
    <3>5. TypeOK'
      BY <1>0, <3>1, <3>3, <3>4, <3>7 DEF TypeOK
    <3>6. ConfigInv'
      BY <3>1, <3>3, <3>4, <3>7 DEF ConfigInv
    <3>. QED
      BY <3>5, <3>6 DEF WorkflowInv
  <2>. QED
    BY <2>1, <2>2
<1>2. ASSUME NEW it \in registered, RunPolicyIterator(it)
      PROVE  WorkflowInv'
  <2>1. /\ pc = "iterate" /\ pc' \in {"error", "iterate"}
        /\ visited' = visited \cup {it}
        /\ UNCHANGED <<builderVars, piOut, recoConfig, nextConfig, applied>>
    BY <1>2 DEF RunPolicyIterator
  <2>2. nextPolicy' \in Policies \cup {NoPolicy}
    <3>1. CASE piOut[it] \in Policies
      BY <1>0, <1>2, <3>1, PickType, PoliciesAreRecords DEF RunPolicyIterator
    <3>2. CASE piOut[it] \notin Policies
      BY <1>0, <1>2, <3>2 DEF RunPolicyIterator
    <3>. QED
      BY <3>1, <3>2
  <2>. QED
    BY <1>0, <2>1, <2>2 DEF builderVars, WorkflowInv, TypeOK, ConfigInv
<1>3. CASE GenerateNextRecoConfig
  <2>0. /\ pc = "iterate"
        /\ recoConfig \in Config /\ recoConfig.min <= recoConfig.max
        /\ UNCHANGED <<builderVars, piOut, recoConfig, visited, nextPolicy>>
    BY <1>0, <1>3 DEF GenerateNextRecoConfig, ConfigInv
  <2>1. CASE ShouldApplyReco(recoConfig, nextPolicy) /\ hasStore
    <3>a. /\ nextConfig' = recoConfig /\ pc' = "done"
          /\ applied' \in {FindClosestSafePolicy(recoConfig, Catalog), NoPolicy}
      BY <1>3, <2>1 DEF GenerateNextRecoConfig
    <3>f. nextConfig' = recoConfig /\ pc' = "done"
      BY <3>a
    <3>b. applied' \in Policies \cup {NoPolicy, EmptyPolicy}
      BY <3>a, ClosestSafeType
    <3>c. TypeOK'
      BY <1>0, <2>0, <3>a, <3>b DEF builderVars, WorkflowInv, TypeOK
    <3>d. recoConfig.max >= minRequiredReplicas => recoConfig.min >= minRequiredReplicas
      BY <1>0, <2>0 DEF ConfigInv
    <3>g. recoConfig' = recoConfig /\ minRequiredReplicas' = minRequiredReplicas
      BY <2>0 DEF builderVars
    <3>e. ConfigInv'
      BY <2>0, <3>f, <3>d, <3>g DEF ConfigInv, Config
    <3>. QED
      BY <3>c, <3>e DEF WorkflowInv
  <2>2. CASE ShouldApplyReco(recoConfig, nextPolicy) /\ ~hasStore
    <3>a. pc' = "panic" /\ UNCHANGED <<nextConfig, applied>>
      BY <1>3, <2>2 DEF GenerateNextRecoConfig
    <3>. QED
      BY <1>0, <2>0, <3>a DEF builderVars, WorkflowInv, TypeOK, ConfigInv
  <2>3. CASE ~ShouldApplyReco(recoConfig, nextPolicy)
    <3>a. /\ nextConfig' = CreateRecoConfigFromPolicy(nextPolicy, recoConfig)
          /\ applied' = nextPolicy /\ pc' = "done"
      BY <1>3, <2>3 DEF GenerateNextRecoConfig
    <3>b. nextPolicy \in Policies
      BY <1>0, <2>3 DEF ShouldApplyReco
    <3>c. LET n == CreateRecoConfigFromPolicy(nextPolicy, recoConfig)
          IN  /\ n \in Config
              /\ n.max = recoConfig.max
              /\ recoConfig.min <= n.min
              /\ n.min <= n.max
      BY <2>0, <3>b, CutStaysWithin
    <3>. QED
      BY <1>0, <2>0, <3>a, <3>b, <3>c DEF builderVars, WorkflowInv, TypeOK, ConfigInv
  <2>. QED
    BY <2>1, <2>2, <2>3
<1>4. CASE UNCHANGED vars
  BY <1>0, <1>4 DEF vars, WorkflowInv, TypeOK, ConfigInv
<1>. QED
  BY <1>1, <1>2, <1>3, <1>4, <1>5, <1>6, <1>7, <1>8, <1>9 DEF Next

\* Every state a workflow reaches, through the builder and Execute, is well
\* typed: in particular findClosestSafePolicy's CHOOSE always picks a
\* catalog index, and a policy's cut yields a configuration of naturals.
THEOREM TypeCorrect == Spec => []TypeOK
BY InitWorkflowInv, NextWorkflowInv, PTL DEF Spec, WorkflowInv

\* transformTargetRecoConfig's promotion survives the policy merge: a
\* returned configuration whose cap reaches minRequiredReplicas has a floor
\* of at least minRequiredReplicas, whichever of the recommendation and the
\* policy wins in generateNextRecoConfig.
THEOREM FloorPromoted == Spec => []FloorPromotion
<1>1. WorkflowInv => FloorPromotion
  <2> SUFFICES ASSUME WorkflowInv, pc = "done",
                      nextConfig.max >= minRequiredReplicas
               PROVE  nextConfig.min >= minRequiredReplicas
    BY DEF FloorPromotion
  <2>1. minRequiredReplicas \in Int
    BY DEF WorkflowInv, TypeOK
  <2>. QED
    BY <2>1 DEF WorkflowInv, ConfigInv, Config
<1>. QED
  BY <1>1, InitWorkflowInv, NextWorkflowInv, PTL DEF Spec

\* createRecoConfigFromPolicy only cuts within the recommendation: the
\* returned configuration keeps the recommended cap, and its floor lies
\* between the recommended floor and that cap.
THEOREM CutWithinRecommendation == Spec => []ConfigWithinReco
<1>1. WorkflowInv => ConfigWithinReco
  BY DEF WorkflowInv, ConfigInv, ConfigWithinReco
<1>. QED
  BY <1>1, InitWorkflowInv, NextWorkflowInv, PTL DEF Spec

=============================================================================
