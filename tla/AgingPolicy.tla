----------------------------- MODULE AgingPolicy -----------------------------
(***************************************************************************)
(* The aging policy iterator (AgingPolicyIterator.NextPolicy and           *)
(* isAgeBeyondExpiry, src/pkg/reco/policyiterators.go) driving one         *)
(* workload through the policy catalog over repeated reconciliations.      *)
(*                                                                         *)
(* Each reconciliation reads the workload's PolicyRecommendation record,   *)
(* asks the iterator for the next policy and persists it with a new        *)
(* transition time when it differs.  The policy store (GetSafestPolicy,    *)
(* GetPolicyByName, GetNextPolicyByName) and the persistence are not part  *)
(* of the repository's code; they follow the spec (4.4, 3): the catalog is *)
(* ordered by risk, the next policy after the last is the last.            *)
(*                                                                         *)
(* Time.  The code only compares now with transitionedAt + age, so the     *)
(* record keeps the time elapsed since its transition, saturated at Age.   *)
(*                                                                         *)
(* The client the iterator is built with reads through the manager's       *)
(* informer cache: client.Get may return an older version of the record.  *)
(***************************************************************************)
EXTENDS Integers, Sequences

CONSTANTS
  Catalog,   \* the policy names, safest first
  Age,       \* the iterator's Age, in ticks
  GetFails,  \* whether client.Get of the record may fail
  EmptyName  \* the policy name of a zero-valued record, ""

ASSUME AgingAssumption ==
  /\ Catalog \in Seq(STRING) /\ Len(Catalog) > 0
  /\ \A j, k \in 1..Len(Catalog) : j # k => Catalog[j] # Catalog[k]
  /\ \A k \in 1..Len(Catalog) : Catalog[k] # EmptyName
  /\ Age \in Nat \ {0}
  /\ GetFails \in BOOLEAN

Names == {Catalog[k] : k \in 1..Len(Catalog)}

\* Position of a policy in the catalog; 0 for the empty policy name.
Index(p) == IF p = EmptyName THEN 0 ELSE CHOOSE k \in 1..Len(Catalog) : Catalog[k] = p

Record == [policy : Names \cup {EmptyName}, elapsed : 0..Age]

\* The record read when client.Get fails: the zero-valued object.
ZeroRecord == [policy |-> EmptyName, elapsed |-> Age]

VARIABLES
  record,    \* the workload's PolicyRecommendation: policy, time since transition
  cached,    \* the version of it the informer cache holds
  returned   \* what the last NextPolicy call returned

vars == <<record, cached, returned>>

-----------------------------------------------------------------------------
(* The policy store, from the spec.                                        *)

GetSafestPolicy == Catalog[1]

GetPolicyByName(p) == p

\* Mutant: the catalog wraps around after the riskiest policy.
GetNextPolicyWrapping(p) ==
  IF Index(p) < Len(Catalog) THEN Catalog[Index(p) + 1] ELSE Catalog[1]

\* The next riskier policy; the riskiest one is its own successor.
GetNextPolicyByName(p) ==
  IF Index(p) < Len(Catalog) THEN Catalog[Index(p) + 1] ELSE p

-----------------------------------------------------------------------------
(* The iterator.                                                           *)

\* Mutant: expiry tested one tick early.
IsAgeBeyondExpiryEarly(pr) == pr.elapsed + 1 >= Age

\* Mutant: expiry tested with the comparison the wrong way (never true once
\* the elapsed time saturates).
IsAgeBeyondExpiryStrict(pr) == pr.elapsed > Age

\* isAgeBeyondExpiry: expired unless transitionedAt + age is after now.
IsAgeBeyondExpiry(pr) == pr.elapsed >= Age

\* Mutant: NextPolicy without the check for a record with no policy.
AgingNextPolicyUnchecked(pr) ==
  IF ~IsAgeBeyondExpiry(pr) THEN GetPolicyByName(pr.policy)
  ELSE GetNextPolicyByName(pr.policy)

\* NextPolicy on the record read: no policy yet gives the safest one, an
\* unexpired policy is kept, an expired one is followed by the next.
AgingNextPolicy(pr) ==
  IF pr.policy = EmptyName THEN GetSafestPolicy
  ELSE IF ~IsAgeBeyondExpiry(pr) THEN GetPolicyByName(pr.policy)
  ELSE GetNextPolicyByName(pr.policy)

\* The reconciler persists a changed policy with a new transition time.
Persist(rec, p) ==
  IF p = rec.policy THEN rec ELSE [policy |-> p, elapsed |-> 0]

-----------------------------------------------------------------------------
Init ==
  /\ record = [policy |-> EmptyName, elapsed |-> 0]
  /\ cached = record
  /\ returned = "none"

\* One reconciliation: client.Get's error is ignored (the zero record is
\* used); a store error makes NextPolicy, and the reconciliation, fail.
ReconcileWith(getOk, storeOk) ==
  LET pr == IF getOk THEN cached ELSE ZeroRecord
  IN  /\ IF storeOk
           THEN /\ returned' = AgingNextPolicy(pr)
                /\ record' = Persist(record, returned')
           ELSE /\ returned' = "error"
                /\ UNCHANGED record
      /\ UNCHANGED cached

Reconcile ==
  \E getOk \in IF GetFails THEN BOOLEAN ELSE {TRUE}, storeOk \in BOOLEAN :
    ReconcileWith(getOk, storeOk)

\* The informer cache catches up with the persisted record.
CacheSync ==
  /\ cached # record
  /\ cached' = record
  /\ UNCHANGED <<record, returned>>

\* Time passes; only the first Age ticks after a transition are observable.
Tick ==
  /\ record.elapsed < Age \/ cached.elapsed < Age
  /\ record' = [record EXCEPT !.elapsed = IF @ < Age THEN @ + 1 ELSE @]
  /\ cached' = [cached EXCEPT !.elapsed = IF @ < Age THEN @ + 1 ELSE @]
  /\ UNCHANGED returned

Next == Reconcile \/ CacheSync \/ Tick

\* The controller reconciles again and again, calls to the API server and
\* the store succeed again after failing, the cache catches up, and time
\* advances.
Fairness ==
  WF_vars(ReconcileWith(TRUE, TRUE)) /\ WF_vars(CacheSync) /\ WF_vars(Tick)

Spec == Init /\ [][Next]_vars /\ Fairness

-----------------------------------------------------------------------------
(* Properties.                                                             *)

TypeOK ==
  /\ record \in Record
  /\ cached \in Record
  /\ returned \in Names \cup {"none", "error"}

\* Spec 4.4: a workload moves to a riskier policy only after holding its
\* current one for the iterator's Age (isAgeBeyondExpiry against the
\* persisted time), even when the iterator reads a stale version of the
\* record.  Holds when client.Get succeeds (aging_policy); the aging_early
\* run shows a failed Get, whose error NextPolicy ignores, breaking it.
PolicyHeldForAge ==
  [][Index(record.policy) >= 1 /\ Index(record'.policy) > Index(record.policy)
       => record.elapsed >= Age]_vars

\* Every policy but the riskiest is eventually left: aging makes progress.
AgingProgress ==
  \A k \in 1..Len(Catalog) - 1 :
    record.policy = Catalog[k] ~> record.policy # Catalog[k]

\* Spec 4.4 and 7 (errors propagate, nothing is swallowed): once a policy is
\* recorded, a reconciliation never moves the workload back to a safer one.
NeverRegresses ==
  [][record.policy # EmptyName => Index(record'.policy) >= Index(record.policy)]_vars

=============================================================================
