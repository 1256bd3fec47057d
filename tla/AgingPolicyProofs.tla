--------------------------- MODULE AgingPolicyProofs ---------------------------
(***************************************************************************)
(* Proofs about the aging policy iterator over repeated reconciliations    *)
(* (AgingPolicy), for every catalog and every Age: the state keeps its     *)
(* type, and, when client.Get does not fail, the informer cache lags the   *)
(* record by at most one transition, so that a workload only moves to a   *)
(* riskier policy after holding its policy for Age and never moves back.   *)
(***************************************************************************)
EXTENDS AgingPolicy, TLAPS

USE AgingAssumption

\* The position of a catalog policy is the index it is stored at.
LEMMA IndexOfCatalog ==
  ASSUME NEW k \in 1..Len(Catalog)
  PROVE  Index(Catalog[k]) = k
<1>1. Catalog[k] # EmptyName
  BY DEF Names
<1>2. \A j \in 1..Len(Catalog) : Catalog[j] = Catalog[k] => j = k
  OBVIOUS
<1>. QED
  BY <1>1, <1>2 DEF Index

\* A policy of the catalog has a position in 1..Len(Catalog).
LEMMA IndexOfName ==
  ASSUME NEW p \in Names
  PROVE  /\ Index(p) \in 1..Len(Catalog)
         /\ Catalog[Index(p)] = p
<1>1. PICK k \in 1..Len(Catalog) : Catalog[k] = p
  BY DEF Names
<1>. QED
  BY <1>1, IndexOfCatalog

\* The store's next policy is a catalog policy at the same or the next
\* position.
LEMMA NextPolicyName ==
  ASSUME NEW p \in Names
  PROVE  /\ GetNextPolicyByName(p) \in Names
         /\ Index(GetNextPolicyByName(p)) >= Index(p)
<1>1. Index(p) \in 1..Len(Catalog) /\ Catalog[Index(p)] = p
  BY IndexOfName
<1>2. CASE Index(p) < Len(Catalog)
  <2>1. GetNextPolicyByName(p) = Catalog[Index(p) + 1]
    BY <1>2 DEF GetNextPolicyByName
  <2>2. Index(p) + 1 \in 1..Len(Catalog)
    BY <1>1, <1>2
  <2>3. Index(Catalog[Index(p) + 1]) = Index(p) + 1
    BY <2>2, IndexOfCatalog
  <2>4. Catalog[Index(p) + 1] \in Names
    BY <2>2 DEF Names
  <2>. QED
    BY <1>1, <2>1, <2>3, <2>4
<1>3. CASE ~(Index(p) < Len(Catalog))
  BY <1>1, <1>3 DEF GetNextPolicyByName
<1>. QED
  BY <1>2, <1>3

\* Every name a record may hold has a position in 0..Len(Catalog).
LEMMA IndexRange ==
  ASSUME NEW p \in Names \cup {EmptyName}
  PROVE  Index(p) \in 0..Len(Catalog)
<1>1. CASE p = EmptyName
  BY <1>1 DEF Index
<1>2. CASE p \in Names
  BY <1>2, IndexOfName
<1>. QED
  BY <1>1, <1>2

\* NextPolicy returns a catalog policy for every record read.
LEMMA NextPolicyType ==
  ASSUME NEW pr \in Record
  PROVE  AgingNextPolicy(pr) \in Names
<1>1. GetSafestPolicy \in Names
  BY DEF GetSafestPolicy, Names
<1>2. pr.policy # EmptyName => pr.policy \in Names
  BY DEF Record
<1>. QED
  BY <1>1, <1>2, NextPolicyName DEF AgingNextPolicy, GetPolicyByName

-----------------------------------------------------------------------------
(* Type correctness.                                                       *)

LEMMA InitTypeOK == Init => TypeOK
BY DEF Init, TypeOK, Record

LEMMA NextTypeOK == TypeOK /\ [Next]_vars => TypeOK'
<1> SUFFICES ASSUME TypeOK, [Next]_vars PROVE TypeOK'
  OBVIOUS
<1>1. ZeroRecord \in Record
  BY DEF ZeroRecord, Record
<1>2. ASSUME NEW getOk \in BOOLEAN, NEW storeOk \in BOOLEAN,
             ReconcileWith(getOk, storeOk)
      PROVE  TypeOK'
  <2>. DEFINE pr == IF getOk THEN cached ELSE ZeroRecord
  <2>1. pr \in Record
    BY <1>1 DEF TypeOK
  <2>2. AgingNextPolicy(pr) \in Names
    BY <2>1, NextPolicyType
  <2>3. \A p \in Names : Persist(record, p) \in Record
    BY DEF TypeOK, Persist, Record
  <2>. QED
    BY <1>2, <2>2, <2>3 DEF ReconcileWith, TypeOK
<1>3. CASE Reconcile
  BY <1>2, <1>3 DEF Reconcile
<1>4. CASE CacheSync
  BY <1>4 DEF CacheSync, TypeOK
<1>5. CASE Tick
  BY <1>5 DEF Tick, TypeOK, Record
<1>6. CASE UNCHANGED vars
  BY <1>6 DEF vars, TypeOK
<1>. QED
  BY <1>3, <1>4, <1>5, <1>6 DEF Next

\* Every state of every run is well typed.
THEOREM TypeCorrect == Spec => []TypeOK
BY InitTypeOK, NextTypeOK, PTL DEF Spec

-----------------------------------------------------------------------------
(* The cache lags the record by at most one transition.                    *)

\* The record and the version of it the cache holds: the same; or the cache
\* still holds the initial empty record while the safest policy has been
\* persisted; or the cache holds an expired policy whose successor has been
\* persisted.
CacheLag ==
  \/ cached = record
  \/ cached.policy = EmptyName /\ record.policy = GetSafestPolicy
  \/ /\ cached.policy \in Names
     /\ cached.elapsed = Age
     /\ record.policy = GetNextPolicyByName(cached.policy)

IInv == TypeOK /\ CacheLag

LEMMA InitIInv == Init => IInv
BY InitTypeOK DEF Init, IInv, CacheLag

\* Without a failing client.Get, a reconciliation changes the record only
\* when it reads the current record from the cache.
LEMMA ReconcileChanges ==
  ASSUME IInv, NEW storeOk \in BOOLEAN, ReconcileWith(TRUE, storeOk),
         record' # record
  PROVE  /\ cached = record
         /\ record' = [policy |-> AgingNextPolicy(record), elapsed |-> 0]
         /\ record.policy # AgingNextPolicy(record)
<1>1. storeOk /\ returned' = AgingNextPolicy(cached)
      /\ record' = Persist(record, AgingNextPolicy(cached))
  BY DEF ReconcileWith
<1>2. AgingNextPolicy(cached) # record.policy
  BY <1>1 DEF Persist
<1>3. ~(cached.policy = EmptyName /\ record.policy = GetSafestPolicy)
  BY <1>2 DEF AgingNextPolicy
<1>4. ~(cached.policy \in Names /\ cached.elapsed = Age
        /\ record.policy = GetNextPolicyByName(cached.policy))
  <2>1. SUFFICES ASSUME cached.policy \in Names, cached.elapsed = Age,
                        record.policy = GetNextPolicyByName(cached.policy)
                 PROVE  FALSE
    OBVIOUS
  <2>2. cached.policy # EmptyName /\ IsAgeBeyondExpiry(cached)
    BY <2>1, AgingAssumption DEF Names, IsAgeBeyondExpiry
  <2>. QED
    BY <1>2, <2>1, <2>2 DEF AgingNextPolicy
<1>5. cached = record
  BY <1>3, <1>4 DEF IInv, CacheLag
<1>. QED
  BY <1>1, <1>2, <1>5 DEF Persist

LEMMA NextIInv == ~GetFails /\ IInv /\ [Next]_vars => IInv'
<1> SUFFICES ASSUME ~GetFails, IInv, [Next]_vars PROVE IInv'
  OBVIOUS
<1>0. TypeOK'
  BY NextTypeOK DEF IInv
<1> SUFFICES CacheLag'
  BY <1>0 DEF IInv
<1>1. ASSUME NEW storeOk \in BOOLEAN, ReconcileWith(TRUE, storeOk)
      PROVE  CacheLag'
  <2>1. CASE record' = record
    BY <1>1, <2>1 DEF ReconcileWith, IInv, CacheLag
  <2>2. CASE record' # record
    <3>1. /\ cached = record
          /\ record' = [policy |-> AgingNextPolicy(record), elapsed |-> 0]
          /\ record.policy # AgingNextPolicy(record)
          /\ cached' = cached
      BY <1>1, <2>2, ReconcileChanges DEF ReconcileWith
    <3>2. CASE record.policy = EmptyName
      BY <3>1, <3>2 DEF AgingNextPolicy, CacheLag
    <3>3. CASE record.policy # EmptyName
      <4>1. record.policy \in Names /\ record.elapsed \in 0..Age
        BY <3>3 DEF IInv, TypeOK, Record
      <4>2. IsAgeBeyondExpiry(record)
        BY <3>1, <3>3 DEF AgingNextPolicy, GetPolicyByName
      <4>3. record.elapsed = Age
        BY <4>1, <4>2, AgingAssumption DEF IsAgeBeyondExpiry
      <4>. QED
        BY <3>1, <3>3, <4>1, <4>2, <4>3 DEF AgingNextPolicy, CacheLag
    <3>. QED
      BY <3>2, <3>3
  <2>. QED
    BY <2>1, <2>2
<1>2. CASE Reconcile
  BY <1>1, <1>2 DEF Reconcile
<1>3. CASE CacheSync
  BY <1>3 DEF CacheSync, CacheLag
<1>4. CASE Tick
  <2>1. /\ record'.policy = record.policy /\ cached'.policy = cached.policy
        /\ record'.elapsed = IF record.elapsed < Age THEN record.elapsed + 1 ELSE record.elapsed
        /\ cached'.elapsed = IF cached.elapsed < Age THEN cached.elapsed + 1 ELSE cached.elapsed
    BY <1>4 DEF Tick, IInv, TypeOK, Record
  <2>2. record' \in Record /\ cached' \in Record
    BY <1>0 DEF TypeOK
  <2>. QED
    BY <2>1, <2>2 DEF IInv, CacheLag, Record
<1>5. CASE UNCHANGED vars
  BY <1>5 DEF vars, IInv, CacheLag
<1>. QED
  BY <1>2, <1>3, <1>4, <1>5 DEF Next

\* With client.Get succeeding, the cache lags the record by at most one
\* transition in every state.
THEOREM CacheLagHolds == ASSUME ~GetFails PROVE Spec => []IInv
BY InitIInv, NextIInv, PTL DEF Spec

-----------------------------------------------------------------------------
(* How the persisted policy may change.                                    *)

\* A step that changes the persisted policy is a reconciliation that read
\* the current record: a record without policy gets the safest policy, a
\* policy only gives way to its successor, and only once it has expired.
LEMMA PolicyChange ==
  ASSUME ~GetFails, IInv, [Next]_vars, record'.policy # record.policy
  PROVE  /\ record'.policy = AgingNextPolicy(record)
         /\ record.policy # EmptyName =>
              /\ IsAgeBeyondExpiry(record)
              /\ record'.policy = GetNextPolicyByName(record.policy)
<1>1. PICK storeOk \in BOOLEAN : ReconcileWith(TRUE, storeOk)
  <2>1. ~CacheSync /\ ~Tick /\ ~UNCHANGED vars
    BY DEF CacheSync, Tick, vars, IInv, TypeOK, Record
  <2>. QED
    BY <2>1 DEF Next, Reconcile
<1>2. /\ cached = record
      /\ record' = [policy |-> AgingNextPolicy(record), elapsed |-> 0]
      /\ record.policy # AgingNextPolicy(record)
  BY <1>1, ReconcileChanges
<1>3. ASSUME record.policy # EmptyName
      PROVE  IsAgeBeyondExpiry(record)
  BY <1>2, <1>3 DEF AgingNextPolicy, GetPolicyByName
<1>. QED
  BY <1>2, <1>3 DEF AgingNextPolicy

\* The persisted policy only advances to a riskier one after it has been
\* held for Age (isAgeBeyondExpiry), however far the informer cache lags,
\* as long as client.Get does not fail.
THEOREM PolicyHeldForAgeHolds == ASSUME ~GetFails PROVE Spec => PolicyHeldForAge
<1>1. ~GetFails /\ IInv /\ [Next]_vars =>
        [Index(record.policy) >= 1 /\ Index(record'.policy) > Index(record.policy)
           => record.elapsed >= Age]_vars
  <2> SUFFICES ASSUME ~GetFails, IInv, [Next]_vars,
                      Index(record.policy) >= 1,
                      Index(record'.policy) > Index(record.policy)
               PROVE  record.elapsed >= Age
    OBVIOUS
  <2>0. Index(record.policy) \in Int
    BY IndexRange DEF IInv, TypeOK, Record
  <2>1. record'.policy # record.policy
    BY <2>0
  <2>2. record.policy # EmptyName
    BY DEF Index
  <2>. QED
    BY <2>1, <2>2, PolicyChange DEF IsAgeBeyondExpiry
<1>2. Spec => []IInv
  BY CacheLagHolds
<1>. QED
  BY <1>1, <1>2, PTL DEF PolicyHeldForAge, Spec

\* Once a policy is persisted, no reconciliation moves the workload back to
\* a safer policy, as long as client.Get does not fail (the run
\* aging_regress shows that a failing client.Get does).
THEOREM NeverRegressesWithoutGetErrors ==
  ASSUME ~GetFails PROVE Spec => NeverRegresses
<1>1. ~GetFails /\ IInv /\ [Next]_vars =>
        [record.policy # EmptyName => Index(record'.policy) >= Index(record.policy)]_vars
  <2> SUFFICES ASSUME ~GetFails, IInv, [Next]_vars, record.policy # EmptyName
               PROVE  Index(record'.policy) >= Index(record.policy)
    OBVIOUS
  <2>1. record.policy \in Names
    BY DEF IInv, TypeOK, Record
  <2>2. Index(record.policy) \in 1..Len(Catalog)
    BY <2>1, IndexOfName
  <2>3. CASE record'.policy = record.policy
    BY <2>2, <2>3
  <2>4. CASE record'.policy # record.policy
    <3>1. record'.policy = GetNextPolicyByName(record.policy)
      BY <2>4, PolicyChange
    <3>. QED
      BY <2>1, <3>1, NextPolicyName
  <2>. QED
    BY <2>3, <2>4
<1>2. Spec => []IInv
  BY CacheLagHolds
<1>. QED
  BY <1>1, <1>2, PTL DEF NeverRegresses, Spec

=============================================================================
