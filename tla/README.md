# Formal model of ottoscalr's recommendation engine

This directory holds TLA+ models of the recommendation code in `src/pkg/reco/`,
TLC configurations that check them on small instances, a refinement of the
search to its contract, and TLAPS proofs of the main invariants of the
simulator, the aging iterator and the workflow's merge.

## The system

ottoscalr recommends an HPA configuration (floor `min`, cap `max`, CPU target)
for each workload. It has these parts:

- **The recommender.** `CpuUtilizationBasedRecommender.Recommend`
  (`reco.go` 88-157) does the following, in order:
  1. scrapes a CPU-utilization series;
  2. finds the replica cap with `getMaxPods` (annotation, then KEDA
     ScaledObject, then replica count);
  3. rejects a series with too few points and returns a no-op configuration;
  4. runs the metrics transformers;
  5. reads the cycle lag (ACL) and the per-pod CPU limits;
  6. calls `findOptimalHPAConfigurations`.
- **The search.** `findOptimalHPAConfigurations` (`reco.go` 246-294) tries
  every floor `1..maxReplicas`. For each floor it binary-searches the target
  range, and each probe calls the simulator. It keeps the candidate with the
  best savings.
- **The simulator.** `simulateHPA` (`reco.go` 171-235) replays the series
  against an HPA. Upscales take effect after the ACL, through a list of
  pending timers. Downscales are immediate and clear that list.
- **The policy iterators** (`policyiterators.go`).
  - The default iterator returns a fixed policy.
  - The aging iterator walks a workload from the safest policy of the catalog
    to riskier ones. It moves on once the current policy has been held for
    `Age`, judged from the `PolicyRecommendation` record.
- **The workflow builder.** `RecoWorkflowBuilder` (`workflow.go` 58-117)
  collects a recommender (the first non-nil one wins), policy iterators (the
  first one of each name wins), `minRequiredReplicas` and a policy store.
  `Build` refuses only a workflow with neither recommender nor iterator, and
  turns a `minRequiredReplicas` of 0 into 3.
- **The workflow.** `RecommendationWorkflowImpl.Execute` (`workflow.go`
  119-172) works as follows:
  1. It calls the recommender and raises the floor to `minRequiredReplicas`.
  2. It runs every iterator, in Go's unspecified map order, and keeps the
     safest policy.
  3. It either keeps the recommendation, crediting the closest no-op policy,
     or derives a configuration from the policy.

The recommender, the iterators, the policy store and the Kubernetes clients
interact only through these calls. Each module therefore models one part and
represents its collaborators by the answers they may give.

## Modules

| Module | Code | State and actions |
|---|---|---|
| `RecoArith` | `reco.go` 159-244, 296-306 | Pure operators (see below). |
| `HPASimulator` | `simulateHPA` | `pc`, `i`, `timers`, `ready`, `supply`, `calcMin` (see below). |
| `SimulatorLaws` | the spec's law of §8 | Enumerates pairs of simulations. |
| `OptimalSearch` | `findOptimalHPAConfigurations` | The loop variables of the code, with actions `StartFloor`, `Probe`, `Judge`, `Conclude`. |
| `SearchContract` | what the search promises (spec §4.2) | `status`, `best`; actions `Found`, `Unable`, `Failed`. |
| `Recommender` | `Recommend`, `getMaxPods`, `getContainerCPULimitsSum`, `isMetricsAboveThreshold` | One action per call (see below). |
| `RecoWorkflow` | the builder, `Execute` and its helpers | Builder actions `WithRecommender`, `WithPolicyIterator(n)`, `WithMinRequiredReplicas(m)`, `WithPolicyStore(s)`, `Build`; then `Recommend`, `RunPolicyIterator(it)`, `GenerateNextRecoConfig` (see below). |
| `AgingPolicy` | `AgingPolicyIterator.NextPolicy`, `isAgeBeyondExpiry` | Variables `record`, `cached`, `returned` (see below). |
| `RecoArithProofs` | | Lemmas about `RecoArith`'s recursive functions and `Simulate`. |
| `HPASimulatorProofs`, `AgingPolicyProofs`, `RecoWorkflowProofs`, `OptimalSearchProofs`, `RecommenderProofs` | | The TLAPS proofs. |
| `MC*` | | Small constants for TLC. |

Details of the larger modules:

- **`RecoArith`** holds pure operators:
  - the inflated target and the replica count as an exact integer ceiling;
  - the pending-upscale sum, `hasNoBreachOccurred` and `calculateSavings`;
  - `Simulate`, the whole simulator as one function.
- **`HPASimulator`**: `Start` is the validation and initialisation.
  `ConsumeTimer` drains one due timer. `Scale` covers the decision, the
  timer append or reset, and the emitted point. `Finish` ends the loop.
- **`Recommender`** has the actions `Scrape`, `FetchMaxPods`, `Gate`,
  `Transform`, `FetchACL`, `FetchLimits` and `Search`. Each has its error
  path. The collaborators' answers are one record `env` chosen initially.
  The search is represented by its possible outcomes. `GetMaxPods` is an
  `IF` chain in the order of the code's early returns. A `CASE` would not
  do: its guards overlap (an unknown kind with a valid annotation), and
  TLA+ leaves the arm chosen unspecified.
- **`RecoWorkflow`** starts in the builder (`pc = "build"`). The builder
  state is `hasRecommender`, `registered` (the names in the iterator map)
  `hasStore` and `minRequiredReplicas`. The answer of the kept iterator of
  each name, `piOut`, is chosen initially. `Execute` ranges over
  `registered` in any order. When the recommendation wins and no store was
  given, `rw.policyStore.GetSortedPolicies()` is a method call on a nil
  interface, and the call ends in `pc = "panic"`.
- **`AgingPolicy`** takes the policy store and persistence from the spec
  (`spec_modelled` in the map). Its actions are:
  - `Reconcile`: one `NextPolicy` call, and persisting its result;
  - `CacheSync`: the informer cache catching up;
  - `Tick`.

Data is abstracted to what the properties compare:
- Time is grid positions, or ticks since the last transition.
- CPU is integers.
- Policy names are strings of a short catalog. `AgingPolicy` names the
  zero-valued record's empty name by the constant `EmptyName`.
- A risk index is the sequence of its decimal digits. `GoStringLE` compares
  two as Go compares strings, byte by byte. `RiskValue` reads one as a
  number, which is the order the spec's catalog is sorted in.

## Runs

| Run | Expect | What it shows |
|---|---|---|
| `hpa_simulator` | pass | `TypeOK`; `SupplyBounded`: supply plus pending upscales stays within floor and cap; `NoOverdueTimer`: no due upscale is left when a decision is taken; `SimulateAgrees`: the loop computes `Simulate`. |
| `optimal_search` | pass | `SearchContractRefined`: the search loop implements `SearchContract` under a refinement mapping, so a returned configuration lies in the target range and never breaches demand under its own simulation. |
| `optimal_search_stale` | violation | `BestScoredOnItsOwn`. The kept candidate is credited with the savings of the last probe, not its own (`reco.go` 278-284). |
| `simulator_monotone` | violation | `MonotoneSafety`, the spec's claim that a lower target never supplies less. It fails because a downscale drops pending upscales (`reco.go` 226-227). |
| `workflow` | pass | Over every builder sequence: `SafestPolicyChosen` whatever the map order. `FloorPromotion` end to end, with the built `minRequiredReplicas`. `ConfigWithinReco`: a policy only cuts within the recommendation. |
| `workflow_safest_in_catalog_order` | violation | `SafestInCatalogOrder`. With risk indices "2" and "10", the merge keeps the riskier "10" policy, because the code compares indices as strings (`workflow.go` 212). |
| `workflow_derived_min` | violation | `DerivedMinAsSpecified`. The code floors the cut where the spec takes its ceiling (`workflow.go` 179). |
| `recommender` | pass | `RecommendAsSpecified`. For every combination of collaborator answers, the result is the spec's (§4.3, §7): priority of the cap sources, gate before transformers, errors propagated. |
| `recommender_wellformed` | violation | `ConfigWellFormed`. When `getMaxPods` reports a cap of 0 (in TLC's trace, a ScaledObject whose `maxReplicaCount` is 0), the no-op configuration is `{min 0, max 0}` (`reco.go` 117). |
| `aging_policy` | pass | With `client.Get` succeeding: `PolicyHeldForAge`: a step to a riskier policy only after `Age`, even with a stale cache and store errors. `AgingProgress`: every policy but the last is eventually left. `NeverRegresses`: when `client.Get` does not fail, a persisted policy is never replaced by a safer one. |
| `aging_regress` | violation | `NeverRegresses`. When `client.Get` fails, its ignored error resets a workload to the safest policy (`policyiterators.go` 62). |
| `aging_early` | violation | `PolicyHeldForAge`, with `client.Get` allowed to fail. After a failed read resets the workload to the safest policy, the next reconciliation reads the stale cached record, finds it expired and moves on at once: the safest policy is held for no time. |

Each property of a passing run has a mutant in `PROJECT.json`. A mutant is a
plausible bug in the modelled code that makes TLC report the property
violated.

## Bounds

| Model | Bounds |
|---|---|
| Simulator | Series of up to 5 points over 4 demand values; demand 0, 15, 40 and 70 at 20 units per pod, so the top value needs more than the cap of 4 replicas; an ACL of 2 grid steps; targets 30, 60 and 95, of which 95 inflates past 100. |
| Search | Series of up to 3 points, two target ranges. |
| Workflow | Two iterators, so both map orders occur; four catalog policies with no-op and cutting ones, with risk indices "1", "2", "9" and "10"; small recommendations; `minRequiredReplicas` unset or 2. |
| Aging | Five policies, `Age` 4. |

These bounds are enough for what the properties need:
- **Simulator:**
  - upscales overlap with pending timers;
  - downscales clear them;
  - floors, caps and the invalid-target error all occur.
- **Search:** the binary search makes several probes per floor.
- **Workflow:**
  - both map orders occur;
  - two risk indices ("9" and "10") are ordered differently as numbers and
    as strings;
  - the builder reaches every outcome: the error, no recommender, one
    iterator or two, the default floor of 3 and an explicit 2, a store or
    none.
- **Aging:**
  - the cache can lag by a transition;
  - the iterator reaches its sticky last policy.

## Fairness

The recommender, the search and the simulator are sequential calls. Their
specifications have no fairness and are checked only for safety.

`RecoWorkflow` has no fairness either. `Execute` is straight-line code with
one loop over a finite map, and nothing retries, so its termination says
nothing about the code and is not checked.

`AgingPolicy` assumes weak fairness of four things. The reasons are:
- **A reconcile whose calls succeed.** The controller requeues a workload
  periodically, and errors are transient.
- **The cache catching up.** The informer is eventually consistent.
- **Time advancing.** This is a fact of the world.

## Proofs (TLAPS)

`HPASimulatorProofs` proves the following for every value of the constants
allowed by `SimulatorAssumption` and `TargetsAssumption`:

- `TypeCorrect`: `Spec => []TypeOK`.
- `TimersStayOrdered`: `Spec => []TimersOrdered`. The timer list is sorted
  strictly by firing time, and no timer fires later than `i - 1 + ACL`.
- `NoOverdueTimerHolds`: `Spec => NoOverdueTimer`. The drain loop, which only
  looks at the head, has consumed every due upscale before a decision.
- `SupplyStaysBounded`: `Spec => []SupplyBounded`. The ready capacity stays
  at or above the floor, and ready plus pending capacity never exceeds the
  cap. The step lemma `NextSupplyBounded` rests on `ClampBelowCap` and on
  `PendingSumAppend` and `PendingSumTail`: appending the upscale adds exactly
  its delta, and draining the head moves its delta from pending to ready.
- `SimulateAgreesHolds`: `Spec => []SimulateAgrees`. The loop returns what
  `Simulate` computes. The inductive invariant `Agree` says that in the loop
  the emitted points and `calcMin` are those of the state `Sts[i - 1]` of
  `Simulate`'s own recursion (`SimStates`), and that the live `ready` and
  `timers` are that state after draining its first `j` due timers
  (`Drained`). `ConsumeTimer` raises `j` by one; `Scale` finishes the drain
  (`DueCountIs` says the recursion drains exactly those `j`) and takes the
  same step as the recursion (`SimStepIsStepFrom`).

None of these is inductive alone. The proofs use the inductive invariant
`IInv`, which conjoins:
- `TypeOK` and `TimersOrdered`;
- that the demand is a sequence of allowed values;
- that the timer list is empty before `Start`;
- that in the loop the effective target is valid and `i >= 2`.

`TimersOrdered` is what makes the head-only drain correct. Appending a timer
at `i + ACL` keeps the list sorted only because every queued timer fires
before it. That in turn needs the bound `at <= i - 1 + ACL`.

The proof has three lemmas:
- `InitIInv`;
- `NextIInv`, with one case per action and one sub-case per branch of
  `Scale`;
- a frame lemma for stuttering.

The properties follow by `PTL`.

`RecoArithProofs` holds the lemmas about the recursive functions of
`RecoArith` (`PendingSum`, `DueCount`, the state sequence of `Simulate`,
`Savings`). The library's induction theorems take an operator parameter,
which the installed provers cannot instantiate, so they are not used.
Instead each recursive function `f` is characterised by its defining
equation. Uniqueness comes from the least index where two solutions would
differ (`LeastIndex`, from `WFMin` and the well-foundedness of `<` on
`Nat`); existence from the least length with no solution, which one more
value extends. A lemma such as `PendingSumAppend` then exhibits an explicit
solution and concludes by uniqueness. The lemmas rest on the facts about sequences
in `SequenceTheorems` (`Append`, `Tail`, `Len`).

`AgingPolicyProofs` proves, for every catalog and every `Age` allowed by
`AgingAssumption`:
- `TypeCorrect`: `Spec => []TypeOK`, with or without `client.Get` failures.
- Three results under the hypothesis `~GetFails`:
  - `CacheLagHolds`: `Spec => []IInv`;
  - `PolicyHeldForAgeHolds`: `Spec => PolicyHeldForAge`;
  - `NeverRegressesWithoutGetErrors`: `Spec => NeverRegresses`.

The inductive invariant is `IInv == TypeOK /\ CacheLag`. `CacheLag` says the
informer cache lags the persisted record by at most one transition, and
always in one of two ways:
- the cache is empty while the record holds the safest policy;
- the cache holds the previous policy, and that policy has expired
  (`elapsed = Age`).

Both action properties need it. A reconcile reads the cache, so what it
writes is bounded by what the cache can hold. The lemmas on the catalog
(`IndexOfName`, `NextPolicyName`, `IndexRange`) show that
`GetNextPolicyByName` never moves back in the catalog. With `GetFails`, the
ignored error breaks `CacheLag`, and `aging_regress` shows the regression
that follows, `aging_early` the advance that skips `Age`.

`RecoWorkflowProofs` proves `MergeOrderIndependent`:
`Spec => []SafestPolicyChosen`. It holds for every set of iterators, every
catalog and every answer, assuming only `RiskOrderAssumption` (Go's string
order is total and transitive on the catalog's risk indices).

The inductive invariant `MergeInv` is the invariant of the range loop. For
the set `visited` of iterators run so far, `nextPolicy` is the least of the
policies they proposed, or nil if they proposed none. The lemma `FoldStep`
shows that `pickSafestPolicy` keeps that true when one more answer is folded
in. Folding in a policy uses totality (and reflexivity, its instance
`p = q`). Replacing the kept policy uses transitivity. Because the invariant
speaks of a set and not of an order, the result does not depend on the map
order.

`RecoWorkflowProofs` also proves three results about the configuration
`Execute` returns. They hold for every `minRequiredReplicas`, negative ones
included:
- `TypeCorrect`: `Spec => []TypeOK`;
- `FloorPromoted`: `Spec => []FloorPromotion`;
- `CutWithinRecommendation`: `Spec => []ConfigWithinReco`.

`FloorPromotion` speaks only of `nextConfig` at `"done"`, so it is not
inductive. The inductive invariant is `TypeOK /\ ConfigInv`:
- at `"iterate"` and `"done"`, `recoConfig` is well formed and promoted
  (its floor reaches `minRequiredReplicas` when its cap does), as
  `transformTargetRecoConfig` left it;
- at `"done"`, `nextConfig` keeps `recoConfig`'s cap, and its floor lies
  between `recoConfig`'s floor and that cap.

The lemmas are:
- `TransformPromotes`, about `transformTargetRecoConfig`;
- `CutStaysWithin`, about `createRecoConfigFromPolicy`. It rests on
  `CutWithinWidth`: `cut * w \div 100 \in 0..w` for `cut \in 0..100`.
- `ClosestSafeType`: `findClosestSafePolicy`'s `CHOOSE` picks an index of
  the catalog. It rests on `GreatestIndex`: a non-empty set of indices has a
  greatest element. That lemma comes from `WFMin` and the well-foundedness
  of `<` on `Nat`.

`RecommenderProofs` proves, for every instance allowed by
`RecommenderAssumption` and every answer of the collaborators:
- `TypeCorrect`: `Spec => []TypeOK`;
- `RecommendMeetsSpec`: `Spec => []RecommendAsSpecified`.

`RecommendAsSpecified` compares only the final state with `SpecOutcome`.
A late failure is an error in the spec only because every earlier step
succeeded and the gate let the call through. The invariant `Progress`
therefore records, for each value of `pc`, what the stages already passed
established about `env`:
- the scrape succeeded;
- `getMaxPods` returned the spec's cap (lemma `MaxPodsAsSpecified`);
- the gate passed;
- the first `k - 1` transformers succeeded;
- the cycle lag and the limits were fetched;
- the search has not run yet.

`SpecOutcome` is split by `SpecFailedEarly`, the gate and `SpecFailedLate`
into the four cases of `OutcomeCases`. Each step then only has to say which
case it enters.

`OptimalSearchProofs` proves `SearchRefinement`:
`Spec => SearchContractRefined`, for every series, target range and cap.
The inductive invariant `RInv` has two parts:
- **`SearchInv`** is the invariant of the binary search. `low` and `high`
  stay in the range. While a probe is pending, `low - 1` is either below
  the range or a target whose simulation at the current floor neither
  fails nor breaches.
- **`RecordInv`**: the recorded optimum, once set, is a floor of
  `1..MaxReplicas` and a target of the range with the same safety.

`Conclude` maps to the contract's `Found` only because of `RecordInv`, and
`RecordInv` is maintained only because `Judge` records `low - 1`, which
`SearchInv` makes safe. The lemmas are:
- `SimulateErrFloorFree`: the simulator's error depends only on the series
  and the target. A `Probe` error is therefore the contract's `Failed`,
  which probes floor 1.
- `ContractSimulate`: the instance's copy of `Simulate` equals the
  module's own.
- `InitRefined` and `StepRefined`: each step maps to a contract step or a
  stutter.

The proof never unfolds `Simulate`'s recursion: it only uses that a probe
and the contract call the same function.

`OptimalSearchProofs` also proves `TypeCorrect`: `Spec => []TypeOK`. It
uses `RInv` for the bounds of the binary search, and the lemmas
`SimulateType` and `SavingsInt` of `RecoArithProofs` for the types of
`simList`, `calcMin` and `savings`.
## Refinement

`OptimalSearch` implements `SearchContract`. The mapping is:
- `status` is `"searching"` while the loops run (`pc` is `"outer"` or
  `"search"`), and `pc` once they end;
- `best` is the returned floor and target once found, and zero otherwise.

The run `optimal_search` checks `SearchContractRefined == Contract!Spec` as
a property, and `OptimalSearchProofs.SearchRefinement` proves it for every
value of the constants. It shows four things:
- every step of the loop is a stutter of the contract, or its one decision;
- a `Found` returns a target of the range and a floor whose own simulation
  does not breach demand;
- `Failed` happens only on a target the simulator rejects;
- when the search returns, the contract allows it.

## Checked only by TLC

Some results are not proved and are checked only by TLC:
- **Liveness.** `AgingProgress` needs fairness and
  `ENABLED`, which the provers cannot handle.
- **Go's string order.** `RiskOrderAssumption` is an assumption of the
  proofs. TLC checks it on the instance's catalog.

Every safety invariant of a passing run is proved. The properties of the
violation runs are findings: TLC shows them false of the code, so there is
nothing to prove.

## Not modelled

- **`WithLogger`.** It only sets the logger.
- **Prometheus metrics and logging.** They only observe.
- **The superseded copies of the workflow.** These are
  `policyiterators.go` 120-265 and `src/unnamed/part_000`.
- **The registry test suite.**
- **Float arithmetic.** The model's arithmetic is exact, so these are listed
  as hazards without a property:
  - rounding of the data-point percentage;
  - savings ties;
  - `+Inf` when there are no CPU limits.

## Plan for later work

- Use `SearchContract` as the search of `Recommender`.
- Compose `RecoWorkflow` with `AgingPolicy`, so that the persisted policy
  feeds the workflow.
- Prove further facts about `Simulate` from `SimStatesFacts`, for example
  the restricted forms of the §8 law that do hold.
