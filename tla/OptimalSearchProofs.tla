------------------------- MODULE OptimalSearchProofs -------------------------
(***************************************************************************)
(* Proof that the loops of findOptimalHPAConfigurations (OptimalSearch)     *)
(* implement what the search promises its caller (SearchContract), for     *)
(* every series, every target range and every cap.                         *)
(*                                                                         *)
(* The argument is the invariant of the binary search: the lower bound     *)
(* has either not moved from minTarget or sits just above a target whose   *)
(* simulation at the current floor was safe, and the bounds never cross    *)
(* by more than one.  When the search ends with high >= minTarget, high is *)
(* therefore that safe target, and Judge records a safe configuration.     *)
(***************************************************************************)
EXTENDS OptimalSearch, RecoArithProofs

USE SimulatorAssumption, SearchAssumption

\* The simulation of (t, f) over the series is safe (SearchContract's Safe).
SafeAt(d, t, f) ==
  /\ ~Simulate(d, t, f).err
  /\ HasNoBreachOccurred(d, Simulate(d, t, f).supply)

\* The invariant of the binary search for floor m.
SearchInv ==
  /\ minTarget <= low /\ high <= maxTarget
  /\ low <= high + 1 \/ low = minTarget
  /\ low # minTarget => SafeAt(demand, low - 1, m)

\* A recorded configuration is a safe one of the range.
RecordInv ==
  /\ optMin = 0 => savings = 0
  /\ optMin # 0 => /\ optMin \in 1..MaxReplicas
                   /\ optTarget \in minTarget..maxTarget
                   /\ SafeAt(demand, optTarget, optMin)

\* The inductive invariant of the refinement proof.
RInv ==
  /\ demand \in Series
  /\ <<minTarget, maxTarget>> \in TargetRanges
  /\ pc \in {"outer", "search", "found", "unable", "error"}
  /\ m \in 1..MaxReplicas + 1
  /\ low \in Int /\ high \in Int
  /\ optMin \in 0..MaxReplicas
  /\ optTarget \in Int
  /\ pc = "search" => m \in 1..MaxReplicas /\ SearchInv
  /\ RecordInv

-----------------------------------------------------------------------------
(* Lemmas.                                                                 *)

\* simulateHPA fails on an empty-free series exactly when the inflated
\* target leaves 1..100, whatever the floor: its error does not depend on
\* minReplicas.
LEMMA SimulateErrFloorFree ==
  ASSUME NEW d, NEW t, NEW f
  PROVE  Simulate(d, t, f).err = (Len(d) # 0 /\ EffectiveTarget(t) \notin 1..100)
BY DEF Simulate

\* The middle of the binary search lies between its bounds.
LEMMA MidInRange ==
  ASSUME NEW lo \in Int, NEW hi \in Int, lo <= hi
  PROVE  /\ lo + (hi - lo) \div 2 \in lo..hi
BY SMT

-----------------------------------------------------------------------------
(* The invariant.                                                          *)

LEMMA InitRInv == Init => RInv
BY DEF Init, RInv, RecordInv, SearchInv

LEMMA NextRInv == RInv /\ [Next]_vars => RInv'
<1> SUFFICES ASSUME RInv, [Next]_vars PROVE RInv'
  OBVIOUS
<1>0. /\ minTarget \in Nat \ {0} /\ maxTarget \in Nat \ {0}
      /\ MaxReplicas \in Nat \ {0}
  BY DEF RInv
<1>1. CASE StartFloor
  BY <1>0, <1>1 DEF StartFloor, RInv, SearchInv, RecordInv
<1>2. CASE Probe
  <2> DEFINE mid == low + (high - low) \div 2
             res == Simulate(demand, mid, m)
  <2>1. /\ pc = "search" /\ low <= high
        /\ m \in 1..MaxReplicas /\ SearchInv
        /\ UNCHANGED <<demand, minTarget, maxTarget, m, optTarget, optMin, savings>>
    BY <1>2 DEF Probe, RInv
  <2>2. mid \in low..high
    BY <2>1, MidInRange DEF RInv
  <2>3. RecordInv'
    BY <2>1 DEF RecordInv, RInv
  <2>4. CASE res.err
    <3>1. pc' = "error" /\ UNCHANGED <<low, high>>
      BY <1>2, <2>4 DEF Probe
    <3>. QED
      BY <2>1, <2>3, <3>1 DEF RInv
  <2>5. CASE ~res.err /\ HasNoBreachOccurred(demand, res.supply)
    <3>1. pc' = pc /\ low' = mid + 1 /\ high' = high
      BY <1>2, <2>5 DEF Probe
    <3>2. SafeAt(demand, low' - 1, m)
      <4>1. low' - 1 = mid
        BY <2>1, <2>2, <3>1 DEF RInv
      <4>. QED
        BY <2>5, <4>1 DEF SafeAt
    <3>3. SearchInv'
      BY <1>0, <2>1, <2>2, <3>1, <3>2 DEF SearchInv, RInv
    <3>. QED
      BY <2>1, <2>2, <2>3, <3>1, <3>3 DEF RInv
  <2>6. CASE ~res.err /\ ~HasNoBreachOccurred(demand, res.supply)
    <3>1. pc' = pc /\ high' = mid - 1 /\ low' = low
      BY <1>2, <2>6 DEF Probe
    <3>2. SearchInv'
      BY <1>0, <2>1, <2>2, <3>1 DEF SearchInv, RInv
    <3>. QED
      BY <2>1, <2>2, <2>3, <3>1, <3>2 DEF RInv
  <2>. QED
    BY <2>4, <2>5, <2>6
<1>3. CASE Judge
  <2>1. /\ pc = "search" /\ low > high
        /\ m \in 1..MaxReplicas /\ SearchInv
        /\ pc' = "outer" /\ m' = m + 1
        /\ UNCHANGED <<demand, minTarget, maxTarget, low, high>>
    BY <1>3 DEF Judge, RInv
  <2>2. CASE /\ high >= minTarget
             /\ calcMin <= m
             /\ Len(simList) > 0
             /\ Savings(simList) >= savings
    <3>1. optMin' = m /\ optTarget' = high
      BY <1>3, <2>2 DEF Judge
    <3>2. low = high + 1 /\ low # minTarget
      BY <1>0, <2>1, <2>2 DEF SearchInv, RInv
    <3>3. SafeAt(demand, high, m)
      <4>1. low - 1 = high
        BY <2>1, <3>2 DEF RInv
      <4>2. SafeAt(demand, low - 1, m)
        BY <2>1, <3>2 DEF SearchInv
      <4>. QED
        BY <4>1, <4>2
    <3>4. RecordInv'
      BY <1>0, <2>1, <2>2, <3>1, <3>3 DEF RecordInv, SearchInv, RInv
    <3>. QED
      BY <2>1, <3>1, <3>4 DEF RInv
  <2>3. CASE ~(/\ high >= minTarget
               /\ calcMin <= m
               /\ Len(simList) > 0
               /\ Savings(simList) >= savings)
    <3>1. UNCHANGED <<optTarget, optMin, savings>>
      BY <1>3, <2>3 DEF Judge
    <3>. QED
      BY <2>1, <3>1 DEF RInv, RecordInv
  <2>. QED
    BY <2>2, <2>3
<1>4. CASE Conclude
  BY <1>4 DEF Conclude, RInv, RecordInv, SearchInv
<1>5. CASE UNCHANGED vars
  BY <1>5 DEF vars, RInv, RecordInv, SearchInv
<1>. QED
  BY <1>1, <1>2, <1>3, <1>4, <1>5 DEF Next

-----------------------------------------------------------------------------
(* The refinement.                                                         *)

\* The contract's simulator is OptimalSearch's: the instance substitutes
\* nothing in RecoArith.
LEMMA ContractSimulate ==
  ASSUME NEW d, NEW t, NEW f
  PROVE  Contract!Simulate(d, t, f) = Simulate(d, t, f)
BY DEF Simulate, SimStep, DueCount, PendingSum, RequiredReplicas, Clamp, MinOf, MaxOf, CeilDiv, EffectiveTarget,
       Contract!Simulate, Contract!SimStep, Contract!DueCount, Contract!PendingSum, Contract!RequiredReplicas, Contract!Clamp, Contract!MinOf, Contract!MaxOf, Contract!CeilDiv, Contract!EffectiveTarget

\* Safe of the contract is SafeAt.
LEMMA SafeIsContractSafe ==
  ASSUME NEW d, NEW t, NEW f
  PROVE  SafeAt(d, t, f) <=> Contract!Safe(d, t, f)
BY ContractSimulate DEF SafeAt, Contract!Safe, HasNoBreachOccurred,
                        Contract!HasNoBreachOccurred

\* An initial state of the loops is an initial state of the contract.
LEMMA InitRefined == Init => Contract!Init
BY DEF Init, Contract!Init, Contract!NoConfig, Series, Contract!Series

\* Every step of the loops is a stutter of the contract or one of its
\* decisions.
LEMMA StepRefined == RInv /\ [Next]_vars => [Contract!Next]_Contract!vars
<1> SUFFICES ASSUME RInv, [Next]_vars PROVE [Contract!Next]_Contract!vars
  OBVIOUS
<1>0. /\ minTarget \in Nat \ {0} /\ maxTarget \in Nat \ {0}
      /\ MaxReplicas \in Nat \ {0}
  BY DEF RInv
<1>1. CASE StartFloor
  BY <1>1 DEF StartFloor, Contract!vars
<1>2. CASE Probe
  <2> DEFINE mid == low + (high - low) \div 2
             res == Simulate(demand, mid, m)
  <2>1. /\ pc = "search" /\ low <= high
        /\ m \in 1..MaxReplicas /\ SearchInv
        /\ UNCHANGED <<demand, minTarget, maxTarget, m, optTarget, optMin, savings>>
    BY <1>2 DEF Probe, RInv
  <2>2. CASE res.err
    <3>1. pc' = "error"
      BY <1>2, <2>2 DEF Probe
    <3>2. mid \in minTarget..maxTarget
      <4>1. mid \in low..high
        BY <2>1, MidInRange DEF RInv
      <4>. QED
        BY <1>0, <2>1, <4>1 DEF SearchInv, RInv
    <3>3. Contract!Simulate(demand, mid, 1).err
      BY <2>2, SimulateErrFloorFree, ContractSimulate
    <3>4. Contract!Failed
      BY <2>1, <3>1, <3>2, <3>3 DEF Contract!Failed
    <3>. QED
      BY <3>4 DEF Contract!Next
  <2>3. CASE ~res.err
    <3>1. pc' = pc
      BY <1>2, <2>3 DEF Probe
    <3>. QED
      BY <2>1, <3>1 DEF Contract!vars
  <2>. QED
    BY <2>2, <2>3
<1>3. CASE Judge
  BY <1>3 DEF Judge, Contract!vars
<1>4. CASE Conclude
  <2>1. /\ pc = "outer"
        /\ UNCHANGED <<demand, minTarget, maxTarget, optTarget, optMin, savings>>
    BY <1>4 DEF Conclude
  <2>2. CASE optTarget < minTarget \/ savings = 0
    <3>1. pc' = "unable"
      BY <1>4, <2>2 DEF Conclude
    <3>. QED
      BY <2>1, <3>1 DEF Contract!Next, Contract!Unable
  <2>3. CASE ~(optTarget < minTarget \/ savings = 0)
    <3>1. pc' = "found"
      BY <1>4, <2>3 DEF Conclude
    <3>2. /\ optMin \in 1..MaxReplicas
          /\ optTarget \in minTarget..maxTarget
          /\ SafeAt(demand, optTarget, optMin)
      BY <2>3 DEF RInv, RecordInv
    <3>3. Contract!Safe(demand, optTarget, optMin)
      BY <3>2, SafeIsContractSafe
    <3>4. Contract!Found
      BY <2>1, <3>1, <3>2, <3>3 DEF Contract!Found
    <3>. QED
      BY <3>4 DEF Contract!Next
  <2>. QED
    BY <2>2, <2>3
<1>5. CASE UNCHANGED vars
  BY <1>5 DEF vars, Contract!vars
<1>. QED
  BY <1>1, <1>2, <1>3, <1>4, <1>5 DEF Next

\* The search implements its contract: every behaviour of the loops of
\* findOptimalHPAConfigurations is a behaviour of SearchContract, so a
\* returned configuration is a floor of 1..maxReplicas and a target of the
\* range whose own simulation never breaches demand, and the simulator's
\* error is returned only for a target of the range that it rejects.
THEOREM SearchRefinement == Spec => SearchContractRefined
<1>1. Spec => []RInv
  BY InitRInv, NextRInv, PTL DEF Spec
<1>. QED
  BY <1>1, InitRefined, StepRefined, PTL DEF Spec, SearchContractRefined, Contract!Spec


-----------------------------------------------------------------------------
(* Types.  The search's results have the types the caller relies on: the  *)
(* supply and the floor of the last probe come from simulateHPA, which     *)
(* returns naturals for a positive target (SimulateType, in                *)
(* RecoArithProofs), and the best savings only move up from 0 to the       *)
(* savings of such a supply, an integer (SavingsInt).                      *)

LEMMA NextTypeOK == RInv /\ TypeOK /\ [Next]_vars => TypeOK'
<1> SUFFICES ASSUME RInv, TypeOK, [Next]_vars PROVE TypeOK'
  OBVIOUS
<1>0. /\ minTarget \in Nat \ {0} /\ maxTarget \in Nat \ {0}
      /\ demand \in Seq(Nat)
      /\ simList \in Seq(Nat) /\ savings \in Nat
  BY SeriesIsNatSeq DEF RInv, TypeOK
<1>1. CASE StartFloor
  BY <1>0, <1>1, EmptySeq DEF StartFloor, TypeOK
<1>2. CASE Probe
  <2> DEFINE mid == low + (high - low) \div 2
             res == Simulate(demand, mid, m)
  <2>1. /\ pc = "search" /\ low <= high
        /\ m \in 1..MaxReplicas /\ SearchInv
        /\ UNCHANGED <<demand, minTarget, maxTarget, m, optTarget, optMin, savings>>
    BY <1>2 DEF Probe, RInv
  <2>2. mid \in Nat
    <3>1. mid \in low..high
      BY <2>1, MidInRange DEF RInv
    <3>. QED
      BY <1>0, <2>1, <3>1 DEF SearchInv, RInv
  <2>3. CASE res.err
    <3>1. pc' = "error" /\ UNCHANGED <<low, high, simList, calcMin>>
      BY <1>2, <2>3 DEF Probe
    <3>. QED
      BY <2>1, <3>1 DEF TypeOK
  <2>4. CASE ~res.err
    <3>1. /\ simList' = res.supply /\ calcMin' = res.calcMin /\ pc' = pc
          /\ low' \in Int /\ high' \in Int
      BY <1>2, <2>1, <2>2, <2>4 DEF Probe, RInv
    <3>2. res.supply \in Seq(Nat) /\ res.calcMin \in Nat
      BY <1>0, <2>1, <2>2, <2>4, SimulateType
    <3>. QED
      BY <2>1, <3>1, <3>2 DEF TypeOK
  <2>. QED
    BY <2>3, <2>4
<1>3. CASE Judge
  <2>1. /\ pc = "search" /\ m \in 1..MaxReplicas
        /\ pc' = "outer" /\ m' = m + 1
        /\ UNCHANGED <<demand, minTarget, maxTarget, low, high, simList, calcMin>>
    BY <1>3 DEF Judge, RInv
  <2>2. CASE /\ high >= minTarget
             /\ calcMin <= m
             /\ Len(simList) > 0
             /\ Savings(simList) >= savings
    <3>1. optMin' = m /\ optTarget' = high /\ savings' = Savings(simList)
      BY <1>3, <2>2 DEF Judge
    <3>2. Savings(simList) \in Int
      BY <1>0, SavingsInt
    <3>3. savings' \in Nat
      BY <1>0, <2>2, <3>1, <3>2
    <3>. QED
      BY <2>1, <3>1, <3>3 DEF TypeOK, RInv
  <2>3. CASE ~(/\ high >= minTarget
               /\ calcMin <= m
               /\ Len(simList) > 0
               /\ Savings(simList) >= savings)
    <3>1. UNCHANGED <<optTarget, optMin, savings>>
      BY <1>3, <2>3 DEF Judge
    <3>. QED
      BY <2>1, <3>1 DEF TypeOK
  <2>. QED
    BY <2>2, <2>3
<1>4. CASE Conclude
  BY <1>4 DEF Conclude, TypeOK
<1>5. CASE UNCHANGED vars
  BY <1>5 DEF vars, TypeOK
<1>. QED
  BY <1>1, <1>2, <1>3, <1>4, <1>5 DEF Next

\* The variables of findOptimalHPAConfigurations keep their types at every
\* step (the invariant TypeOK): in particular the savings kept are a
\* natural and the supply of every probe a series of naturals, whatever
\* the series, the target range and the cap.
THEOREM TypeCorrect == Spec => []TypeOK
<1>1. Init => TypeOK
  BY EmptySeq DEF Init, TypeOK
<1>. QED
  BY <1>1, InitRInv, NextRInv, NextTypeOK, PTL DEF Spec

=============================================================================
