--------------------------- MODULE SchedulerProofs ---------------------------
(***************************************************************************)
(* Theorems about one call of schedule, for every snapshot: the loop ends  *)
(* with the plan the rules promise, and the plan is safe to reserve.  The  *)
(* argument: the candidates the loop has passed are exactly those ordered  *)
(* before the ones it has not, so what is selected when a candidate is     *)
(* considered is what the promise counts against it.                       *)
(***************************************************************************)
EXTENDS Scheduler, SchedulingRulesProofs

(* The loop passes candidates in the order of the sort key.                *)
PassedInOrder ==
  \A p \in Queue \ pending : \A q \in pending : Before(cand, waited, p, q)

(* An entry is made only for a candidate the loop has passed.              *)
EntriesAreForPassed ==
  DOMAIN reasons = Package /\ \A p \in pending : reasons[p] = {}

(* A recorded conflict is with an active reservation or with a selection   *)
(* ordered before the candidate it holds back.                             *)
ConflictsAreEarlier ==
  \A p \in Queue, q \in Package : <<"conflict", q>> \in reasons[p] =>
    q \in Active \/ (q \in selected /\ Before(cand, waited, q, p))

IInv ==
  /\ TypeOK
  /\ ReservedIsSound
  /\ UsageIsExact
  /\ PassedInOrder
  /\ GreedySoFar
  /\ EntriesAreForPassed
  /\ ConflictsAreEarlier
  /\ returned => pending = {}

LEMMA TypedState ==
  ASSUME TypeOK
  PROVE  /\ IsQueue(cand, waited, Queue)
         /\ Charged(cand, Active)
         /\ Charged(cand, Active \cup Queue)
         /\ Active \cap Queue = {}
  BY DEF TypeOK, Charged, IsQueue, Active, Queue, InStatus

(* A candidate has no reason to wait exactly when the rules admit it       *)
(* beside what the loop holds.                                             *)
LEMMA NoReasonIsAdmissible ==
  ASSUME TypeOK, UsageIsExact, NEW p \in Queue
  PROVE  ReasonsFor(p) = {} <=> Admissible(cand, current, Done, Active \cup selected, p)
<1>1. DependencyReasons(cand[p], Done) = {} <=> cand[p].deps \subseteq Done
  BY DEF DependencyReasons
<1>2. RevisionReasons(p, cand[p], current[p]) = {} <=> current[p] = cand[p].rev
  <2>1. cand[p].rev # NoRevision
    BY CandidateAssumption DEF TypeOK, IsCandidate, Queue, InStatus
  <2> QED
    BY <2>1 DEF RevisionReasons
<1>3. ConflictReasons(cand, p, Active \cup selected) = {} <=>
        \A h \in Active \cup selected : ~ClaimsConflict(cand[p].claims, cand[h].claims)
  BY DEF ConflictReasons
<1>4. QuotaReasons(cand[p], usage) = {} <=>
        \A d \in DOMAIN cand[p].costs :
          /\ d \in DOMAIN Limit
          /\ Usage(cand, Active \cup selected, d) + cand[p].costs[d] <= Limit[d]
  <2>1. DOMAIN cand[p].costs \subseteq Dimension
    BY CandidateAssumption DEF TypeOK, IsCandidate, Queue, InStatus
  <2>2. \A d \in DOMAIN cand[p].costs \cap DOMAIN Limit :
          /\ cand[p].costs[d] \in Nat /\ Limit[d] \in Nat
          /\ usage[d] \in Nat /\ usage[d] = Usage(cand, Active \cup selected, d)
    BY <2>1, CandidateAssumption, PolicyAssumption
       DEF TypeOK, IsCandidate, Queue, InStatus, UsageIsExact
  <2>3. QuotaReasons(cand[p], usage) = {} <=>
          /\ DOMAIN cand[p].costs \subseteq DOMAIN Limit
          /\ \A d \in DOMAIN cand[p].costs \cap DOMAIN Limit :
               ~(usage[d] + cand[p].costs[d] > Limit[d])
    BY DEF QuotaReasons
  <2>4. \A d \in DOMAIN cand[p].costs \cap DOMAIN Limit :
          ~(usage[d] + cand[p].costs[d] > Limit[d]) <=>
             Usage(cand, Active \cup selected, d) + cand[p].costs[d] <= Limit[d]
    <3>1. \A a, b, l \in Nat : ~(a + b > l) <=> a + b <= l
      OBVIOUS
    <3> QED
      BY <2>2, <3>1, Zenon
  <2> QED
    BY <2>3, <2>4
<1> QED
  BY <1>1, <1>2, <1>3, <1>4 DEF ReasonsFor, Admissible

LEMMA InitIInv == Init => IInv
<1> SUFFICES ASSUME Init PROVE IInv
  OBVIOUS
<1>1. \A d \in Dimension : Usage(cand, Active, d) \in Nat
  BY UnitsFinite DEF Init, Start, Charged, Active, InStatus
<1>2. TypeOK
  BY <1>1 DEF Init, Start, TypeOK, Queue
<1> QED
  BY <1>2 DEF IInv, Init, Start, UsageIsExact, PassedInOrder, GreedySoFar,
                   EntriesAreForPassed, ConflictsAreEarlier, Queue, InStatus

(* Passing the first pending candidate keeps the invariant, whether it is  *)
(* selected (it had no reason to wait) or deferred (it had one).           *)
LEMMA PassIInv ==
  ASSUME IInv, NEW p \in Package, First(p), pending' = pending \ {p},
         selected' = IF ReasonsFor(p) = {} THEN selected \cup {p} ELSE selected,
         usage' = [d \in Dimension |->
                     usage[d] + (IF ReasonsFor(p) = {} THEN Charge(cand[p], d) ELSE 0)],
         DOMAIN reasons' = Package,
         \A x \in Package : reasons'[x] = IF x = p THEN ReasonsFor(p) ELSE reasons[x],
         UNCHANGED <<cand, status, current, waited, returned>>
  PROVE  IInv'
<1>1. /\ TypeOK /\ p \in pending /\ p \in Queue /\ p \notin selected
      /\ cand[p] \in Shapes /\ selected \subseteq Queue
  BY DEF IInv, TypeOK, First, Queue, InStatus
<1>2. Queue' = Queue /\ Active' = Active /\ Done' = Done
  BY DEF Queue, Active, Done, InStatus
<1>3. TypeOK'
  <2>1. \A d \in Dimension : usage[d] \in Nat /\ Charge(cand[p], d) \in Nat
    BY <1>1, ChargeIsNat DEF TypeOK
  <2>2. usage' \in [Dimension -> Nat]
    BY <2>1
  <2> QED
    BY <1>1, <1>2, <2>2 DEF TypeOK
<1>4. UsageIsExact'
  <2> SUFFICES ASSUME NEW d \in Dimension
               PROVE  usage'[d] = Usage(cand, Active \cup selected', d)
    BY <1>2 DEF UsageIsExact
  <2>1. usage[d] = Usage(cand, Active \cup selected, d) /\ usage[d] \in Nat
    BY <1>1 DEF IInv, UsageIsExact, TypeOK
  <2>2. CASE ReasonsFor(p) = {}
    <3>1. p \notin Active \cup selected
      BY <1>1, TypedState
    <3>2. Charged(cand, (Active \cup selected) \cup {p})
      BY <1>1, TypedState DEF Charged
    <3>3. Usage(cand, (Active \cup selected) \cup {p}, d) =
            Usage(cand, Active \cup selected, d) + Charge(cand[p], d)
      BY <3>1, <3>2, UsageAdd
    <3>4. Active \cup selected' = (Active \cup selected) \cup {p}
      BY <2>2
    <3> QED
      BY <2>1, <2>2, <3>3, <3>4
  <2>3. CASE ReasonsFor(p) # {}
    BY <2>1, <2>3
  <2> QED
    BY <2>2, <2>3
<1>5. PassedInOrder'
  BY <1>2 DEF IInv, PassedInOrder, First
<1>6. GreedySoFar'
  <2>1. \A x \in Queue \ pending : Before(cand, waited, x, p)
    BY <1>1 DEF IInv, PassedInOrder
  <2>2. ~Before(cand, waited, p, p)
    BY <1>1, TypedState, BeforeIrreflexive
  <2>3. ASSUME NEW x \in Queue \ pending
        PROVE  x \in selected' <=>
                 Admissible(cand, current, Done,
                            Active \cup {q \in selected' : Before(cand, waited, q, x)}, x)
    <3>1. ~Before(cand, waited, p, x)
      <4>1. SUFFICES ASSUME Before(cand, waited, p, x) PROVE FALSE
        OBVIOUS
      <4>2. Before(cand, waited, p, p)
        BY <1>1, <2>1, <2>3, <4>1, TypedState, BeforeTransitive
      <4> QED
        BY <2>2, <4>2
    <3>2. {q \in selected' : Before(cand, waited, q, x)}
            = {q \in selected : Before(cand, waited, q, x)}
      BY <3>1
    <3>3. x \in selected' <=> x \in selected
      BY <1>1, <2>3
    <3> QED
      BY <2>3, <3>2, <3>3 DEF IInv, GreedySoFar
  <2>4. p \in selected' <=>
          Admissible(cand, current, Done,
                     Active \cup {q \in selected' : Before(cand, waited, q, p)}, p)
    <3>1. selected \subseteq Queue \ pending
      BY <1>1 DEF TypeOK
    <3>2. {q \in selected' : Before(cand, waited, q, p)} = selected
      BY <2>1, <2>2, <3>1
    <3>3. p \in selected' <=> ReasonsFor(p) = {}
      BY <1>1
    <3> QED
      BY <1>1, <3>2, <3>3, NoReasonIsAdmissible DEF IInv
  <2>5. \A x \in Queue \ pending' :
          x \in selected' <=>
            Admissible(cand, current, Done,
                       Active \cup {q \in selected' : Before(cand, waited, q, x)}, x)
    BY <2>3, <2>4
  <2> QED
    BY <1>2, <2>5, Zenon DEF GreedySoFar
<1>7. ConflictsAreEarlier'
  <2>1. ASSUME NEW q \in Package, <<"conflict", q>> \in ReasonsFor(p)
        PROVE  q \in Active \cup selected
    BY <2>1 DEF ReasonsFor, DependencyReasons, RevisionReasons, ConflictReasons, QuotaReasons
  <2>2. \A q \in selected : q \in selected' /\ Before(cand, waited, q, p)
    BY <1>1 DEF IInv, PassedInOrder, TypeOK
  <2> SUFFICES ASSUME NEW x \in Queue, NEW q \in Package, <<"conflict", q>> \in reasons'[x]
               PROVE  q \in Active \/ (q \in selected' /\ Before(cand, waited, q, x))
    BY <1>2 DEF ConflictsAreEarlier
  <2> x \in Package
    BY DEF Queue, InStatus
  <2>3. CASE x = p
    BY <2>1, <2>2, <2>3
  <2>4. CASE x # p
    BY <2>2, <2>4 DEF IInv, ConflictsAreEarlier
  <2> QED
    BY <2>3, <2>4
<1>8. EntriesAreForPassed'
  BY <1>1 DEF IInv, EntriesAreForPassed, TypeOK, Queue, InStatus
<1> QED
  BY <1>1, <1>2, <1>3, <1>4, <1>5, <1>6, <1>7, <1>8 DEF IInv, ReservedIsSound

LEMMA NextIInv == IInv /\ [Next]_vars => IInv'
<1> SUFFICES ASSUME IInv, [Next]_vars PROVE IInv'
  OBVIOUS
<1>1. ASSUME NEW p \in Package, Defer(p) PROVE IInv'
  <2>1. usage' = [d \in Dimension |-> usage[d] + 0]
    BY <1>1 DEF Defer, IInv, TypeOK
  <2>2. reasons' = [reasons EXCEPT ![p] = ReasonsFor(p)]
    BY <1>1 DEF Defer
  <2>3. /\ DOMAIN reasons' = Package
        /\ \A x \in Package : reasons'[x] = IF x = p THEN ReasonsFor(p) ELSE reasons[x]
    BY <2>2 DEF IInv, EntriesAreForPassed
  <2> QED
    BY <1>1, <2>1, <2>3, PassIInv DEF Defer
<1>2. ASSUME NEW p \in Package, Select(p) PROVE IInv'
  <2>1. /\ DOMAIN reasons' = Package
        /\ \A x \in Package : reasons'[x] = IF x = p THEN ReasonsFor(p) ELSE reasons[x]
    BY <1>2 DEF Select, IInv, EntriesAreForPassed, First
  <2> QED
    BY <1>2, <2>1, PassIInv DEF Select
<1>3. CASE ReturnPlan \/ UNCHANGED vars
  <2>1. /\ UNCHANGED <<cand, status, current, waited, pending, selected, reasons, usage>>
        /\ returned' \in BOOLEAN
        /\ returned' => pending = {}
    <3>1. CASE ReturnPlan
      BY <3>1 DEF ReturnPlan
    <3>2. CASE UNCHANGED vars
      BY <3>2 DEF vars, IInv, TypeOK
    <3> QED
      BY <1>3, <3>1, <3>2
  <2>2. Queue' = Queue /\ Active' = Active /\ Done' = Done
    BY <2>1 DEF Queue, Active, Done, InStatus
  <2>3. TypeOK'
    BY <2>1, <2>2 DEF IInv, TypeOK
  <2> QED
    BY <2>1, <2>2, <2>3 DEF IInv, ReservedIsSound, UsageIsExact, PassedInOrder, GreedySoFar,
                            EntriesAreForPassed, ConflictsAreEarlier
<1> QED
  BY <1>1, <1>2, <1>3 DEF Next

LEMMA IInvHolds == Spec => []IInv
  BY InitIInv, NextIInv, PTL DEF Spec

-----------------------------------------------------------------------------
(* Every variable of the loop keeps its type.                              *)
THEOREM TypeCorrect == Spec => []TypeOK
<1>1. IInv => TypeOK
  BY DEF IInv
<1> QED
  BY <1>1, IInvHolds, PTL

(* The running usage is always the usage of what the loop holds.           *)
THEOREM UsageExact == Spec => []UsageIsExact
<1>1. IInv => UsageIsExact
  BY DEF IInv
<1> QED
  BY <1>1, IInvHolds, PTL

(* What is passed over is passed over only for work ordered before it.     *)
THEOREM Greedy == Spec => []GreedySoFar
<1>1. IInv => GreedySoFar
  BY DEF IInv
<1> QED
  BY <1>1, IInvHolds, PTL

(* At every point the selections form a plan of the candidates passed.     *)
LEMMA SelectedIsPlan ==
  ASSUME IInv
  PROVE  IsPlan(cand, current, Done, waited, Active, Queue \ pending, selected)
  BY DEF IInv, TypeOK, GreedySoFar, IsPlan

(* The plan never makes reservations conflict or exceed a limit.           *)
THEOREM PlanSafe == Spec => []PlanIsSafe
<1>1. ASSUME IInv PROVE PlanIsSafe
  <2>1. /\ IsQueue(cand, waited, Queue \ pending)
        /\ Charged(cand, Active)
        /\ Active \cap (Queue \ pending) = {}
    BY <1>1, TypedState DEF IInv, IsQueue
  <2>2. Compatible(cand, Active) /\ WithinLimits(cand, Active)
    BY <1>1 DEF IInv, ReservedIsSound
  <2> QED
    BY <1>1, <2>1, <2>2, SelectedIsPlan, PlanIsCompatible, PlanIsWithinLimits DEF PlanIsSafe
<1> QED
  BY <1>1, IInvHolds, PTL

(* No deferred candidate would fit beside the returned plan.               *)
THEOREM PlanMaximal == Spec => []PlanIsMaximal
<1>1. ASSUME IInv PROVE PlanIsMaximal
  <2>1. returned => IsPlan(cand, current, Done, waited, Active, Queue, selected)
    BY <1>1, SelectedIsPlan DEF IInv
  <2> QED
    BY <1>1, <2>1, TypedState, PlanLeavesNoRoom DEF IInv, PlanIsMaximal
<1> QED
  BY <1>1, IInvHolds, PTL

(* Aging never lets other work hold up safety work: a selection that holds *)
(* back a safety_recovery candidate was ordered before it, and only        *)
(* safety_recovery work is.                                                *)
THEOREM SafetyFirst == Spec => []SafetyNotOutranked
<1>1. ASSUME IInv, NEW p \in Queue, NEW q \in selected,
             cand[p].class = 0, <<"conflict", q>> \in reasons[p]
      PROVE  cand[q].class = 0
  <2>1. /\ q \in Queue /\ q \in Package /\ q \notin Active
        /\ cand[q] \in Shapes /\ waited[q] \in Nat
    BY <1>1 DEF IInv, TypeOK, Queue, Active, InStatus
  <2>2. Before(cand, waited, q, p)
    BY <1>1, <2>1 DEF IInv, ConflictsAreEarlier
  <2>3. EffectivePriority(cand[p], waited[p]) = 0
    BY <1>1 DEF EffectivePriority
  <2>4. ASSUME cand[q].class # 0 PROVE EffectivePriority(cand[q], waited[q]) >= 1
    <3>1. cand[q].class - AgingBoost(waited[q]) \in Int
      <4>1. waited[q] \div AgingWindow \in Int
        BY <2>1, PolicyAssumption
      <4>2. AgingBoost(waited[q]) \in Int
        BY <4>1, PolicyAssumption DEF AgingBoost
      <4> QED
        BY <2>1, <4>2, CandidateAssumption DEF IsCandidate
    <3> HIDE DEF AgingBoost
    <3> QED
      BY <2>4, <3>1 DEF EffectivePriority
  <2>5. EffectivePriority(cand[q], waited[q]) \in Int
    BY <2>1, PriorityIsInt
  <2> QED
    BY <2>2, <2>3, <2>4, <2>5 DEF Before
<1>2. IInv => SafetyNotOutranked
  BY <1>1 DEF SafetyNotOutranked
<1> QED
  BY <1>2, IInvHolds, PTL

-----------------------------------------------------------------------------
(* The rules mean the same in the promise as in the loop.                  *)
LEMMA SamePlan ==
  ASSUME NEW c, NEW cur, NEW done, NEW w, NEW R, NEW Q, NEW S
  PROVE  Promise!IsPlan(c, cur, done, w, R, Q, S) <=> IsPlan(c, cur, done, w, R, Q, S)
<1>1. ASSUME NEW x, NEW y PROVE Promise!EffectivePriority(x, y) = EffectivePriority(x, y)
  BY DEF Promise!EffectivePriority, EffectivePriority, Promise!AgingBoost, AgingBoost
<1>2. ASSUME NEW p, NEW q PROVE Promise!Before(c, w, p, q) <=> Before(c, w, p, q)
  BY <1>1 DEF Promise!Before, Before
<1>3. ASSUME NEW H, NEW d PROVE Promise!Usage(c, H, d) = Usage(c, H, d)
  BY DEF Promise!Usage, Usage, Promise!Units, Units, Promise!Charge, Charge,
         Promise!Cardinality, Cardinality
<1>4. ASSUME NEW x, NEW y PROVE Promise!ClaimsConflict(x, y) <=> ClaimsConflict(x, y)
  BY DEF Promise!ClaimsConflict, ClaimsConflict
<1>5. ASSUME NEW H, NEW p
      PROVE  Promise!Admissible(c, cur, done, H, p) <=> Admissible(c, cur, done, H, p)
  BY <1>3, <1>4 DEF Promise!Admissible, Admissible
<1> QED
  BY <1>2, <1>5 DEF Promise!IsPlan, IsPlan

(* The loop implements the one-step promise: it starts where the promise   *)
(* starts, returning is the promised step, and everything else is invisible*)
(* to the caller.                                                          *)
THEOREM LoopImplementsPromise == Spec => ImplementsPromise
<1>1. Init => Promise!Init
  BY DEF Init, Start, Promise!Init, Promise!Snapshot, NoRevision, Promise!NoRevision
<1>2. ASSUME IInv, [Next]_vars PROVE [Promise!Return]_(Promise!vars)
  <2>1. ASSUME NEW p \in Package, Defer(p) \/ Select(p) PROVE UNCHANGED Promise!vars
    <3>1. ~returned
      BY <1>2, <2>1 DEF IInv, Defer, Select, First
    <3> QED
      BY <2>1, <3>1 DEF Defer, Select, Promise!vars
  <2>2. ASSUME ReturnPlan PROVE Promise!Return
    <3>1. IsPlan(cand, current, Done, waited, Active, Queue, selected)
      BY <1>2, <2>2, SelectedIsPlan DEF ReturnPlan
    <3>2. selected \in SUBSET Queue
      BY <1>2 DEF IInv, TypeOK
    <3> QED
      BY <2>2, <3>1, <3>2, SamePlan
         DEF ReturnPlan, Promise!Return, Promise!InStatus, InStatus, Queue, Active, Done
  <2>3. CASE UNCHANGED vars
    BY <2>3 DEF vars, Promise!vars
  <2> QED
    BY <1>2, <2>1, <2>2, <2>3 DEF Next
<1> QED
  BY <1>1, <1>2, IInvHolds, PTL DEF Spec, ImplementsPromise, Promise!Spec
=============================================================================
