------------------------- MODULE ReservationsProofs -------------------------
(***************************************************************************)
(* Theorems about Reservations, for any packages, planners, candidate      *)
(* library, policy and revisions.  The argument: a plan just made fits the *)
(* reservations it was made beside (SchedulingRulesProofs); it keeps       *)
(* fitting while the state revision does not change, because whatever      *)
(* changes the reservations or the queue changes the revision; and only a  *)
(* plan that still fits is committed.                                      *)
(***************************************************************************)
EXTENDS Reservations, SchedulingRulesProofs

(* A plan that carries the store's revision leaves no room: nothing queued *)
(* would fit beside it.                                                    *)
FreshPlansMaximal ==
  \A s \in fresh : \A q \in Queue \ plan[s] :
    ~Admissible(cand, current, Done, Active \cup plan[s], q)

(* The inductive invariant.                                                *)
IInv ==
  /\ TypeOK
  /\ ReservationsExclusive
  /\ QuotaRespected
  /\ FreshPlansFit
  /\ FreshPlansMaximal

(* Compressing the waiting times keeps them natural numbers.               *)
LEMMA CompressedType ==
  ASSUME NEW w \in [Package -> Nat]
  PROVE  Compressed(w) \in [Package -> Nat]
<1> SUFFICES ASSUME NEW p \in Package PROVE Compressed(w)[p] \in Nat
  BY DEF Compressed
<1> DEFINE R == {r \in Package : Horizon < w[r] /\ w[r] <= w[p]}
           T == {w[q] : q \in R}
           f == [q \in R |-> w[q]]
<1>1. IsFiniteSet(R)
  BY PackageAssumption, FS_Subset
<1>2. f \in Surjection(R, T)
  BY DEF Surjection
<1>3. Cardinality(T) \in Nat
  BY <1>1, <1>2, FS_Surjection, FS_CardinalityType
<1> HIDE DEF T
<1>4. Horizon + Cardinality(T) \in Nat
  BY <1>3, HorizonAssumption
<1> QED
  BY <1>4 DEF Compressed, T

(* In a state of the right type the reserved packages can be charged and   *)
(* the queue can be ordered.                                               *)
LEMMA TypedState ==
  ASSUME TypeOK
  PROVE  /\ Charged(cand, Active)
         /\ IsQueue(cand, waited, Queue)
         /\ Active \cap Queue = {}
  BY DEF TypeOK, Charged, IsQueue, Active, Queue, InStatus

(* A step that takes no package into the reserved ones, keeps the records  *)
(* of those that stay, and leaves no plan fresh.                           *)
LEMMA ReservationsShrink ==
  ASSUME IInv, Active' \subseteq Active, \A p \in Active' : cand[p] = cand'[p], fresh' = {}
  PROVE  ReservationsExclusive' /\ QuotaRespected' /\ FreshPlansFit' /\ FreshPlansMaximal'
<1>1. Charged(cand, Active)
  BY TypedState DEF IInv
<1>2. Compatible(cand', Active') /\ WithinLimits(cand', Active')
  BY <1>1, FewerReservations DEF IInv, ReservationsExclusive, QuotaRespected
<1> QED
  BY <1>2 DEF ReservationsExclusive, QuotaRespected, FreshPlansFit, FreshPlansMaximal

(* A step that changes only planners and waiting times, and makes no plan  *)
(* fresh that was not.                                                     *)
LEMMA StoreUnchanged ==
  ASSUME IInv, UNCHANGED <<cand, status, current>>, fresh' \subseteq fresh,
         \A s \in fresh' : plan'[s] = plan[s]
  PROVE  ReservationsExclusive' /\ QuotaRespected' /\ FreshPlansFit' /\ FreshPlansMaximal'
<1>1. Active' = Active /\ Queue' = Queue /\ Done' = Done
  BY DEF Active, Queue, Done, InStatus
<1> QED
  BY <1>1 DEF IInv, ReservationsExclusive, QuotaRespected, FreshPlansFit, FreshPlansMaximal

LEMMA InitIInv == Init => IInv
<1> SUFFICES ASSUME Init PROVE IInv
  OBVIOUS
<1>1. TypeOK
  BY DEF Init, TypeOK, Queue, Active, InStatus
<1>2. Active = {}
  BY DEF Init, Active, InStatus
<1>3. ASSUME NEW d \in DOMAIN Limit PROVE Usage(cand, {}, d) <= Limit[d]
  <2>1. Usage(cand, {}, d) = 0
    BY FS_EmptySet DEF Usage, Units
  <2> QED
    BY <1>3, <2>1, PolicyAssumption
<1>4. ReservationsExclusive /\ QuotaRespected
  BY <1>2, <1>3 DEF ReservationsExclusive, QuotaRespected, Compatible, WithinLimits
<1> QED
  BY <1>1, <1>4 DEF IInv, Init, FreshPlansFit, FreshPlansMaximal

LEMMA NextIInv == IInv /\ [Next]_vars => IInv'
<1> SUFFICES ASSUME IInv, [Next]_vars PROVE IInv'
  OBVIOUS
<1>0. TypeOK
  BY DEF IInv
<1>1. ASSUME NEW p \in Package, NEW c \in Shapes, Submit(p, c) PROVE IInv'
  <2>1. TypeOK'
    BY <1>0, <1>1 DEF TypeOK, Queue, Active, InStatus, Submit, NewStateRevision
  <2>2. Active' \subseteq Active /\ \A q \in Active' : cand[q] = cand'[q]
    BY <1>0, <1>1 DEF TypeOK, Active, InStatus, Submit
  <2> QED
    BY <1>1, <2>1, <2>2, ReservationsShrink DEF IInv, Submit, NewStateRevision
<1>2. ASSUME NEW p \in Package, NEW from, NEW to \in {"idle", "done"}, Leave(p, from, to)
      PROVE  IInv'
  <2>1. TypeOK'
    BY <1>0, <1>2 DEF TypeOK, Queue, Active, InStatus, Leave, NewStateRevision
  <2>2. Active' \subseteq Active /\ \A q \in Active' : cand[q] = cand'[q]
    BY <1>0, <1>2 DEF TypeOK, Active, InStatus, Leave
  <2> QED
    BY <1>2, <2>1, <2>2, ReservationsShrink DEF IInv, Leave, NewStateRevision
<1>3. ASSUME NEW p \in Package, Revise(p) PROVE IInv'
  <2>1. TypeOK'
    BY <1>0, <1>3 DEF TypeOK, Queue, Active, InStatus, Revise, NewStateRevision
  <2>2. Active' \subseteq Active /\ \A q \in Active' : cand[q] = cand'[q]
    BY <1>3 DEF Active, InStatus, Revise
  <2> QED
    BY <1>3, <2>1, <2>2, ReservationsShrink DEF IInv, Revise, NewStateRevision
<1>4. ASSUME Tick PROVE IInv'
  <2>1. Longer(waited) \in [Package -> Nat]
    BY <1>0 DEF Longer, TypeOK
  <2>2. waited' \in [Package -> Nat]
    BY <1>4, <2>1, CompressedType DEF Tick
  <2>3. TypeOK'
    BY <1>0, <1>4, <2>2 DEF TypeOK, Queue, Active, InStatus, Tick
  <2> QED
    BY <1>4, <2>3, StoreUnchanged DEF IInv, Tick
<1>5. ASSUME NEW s \in Planner, MakePlan(s) PROVE IInv'
  <2>1. TypeOK'
    BY <1>0, <1>5 DEF TypeOK, Queue, Active, InStatus, MakePlan
  <2>2. PICK S \in SUBSET Queue :
          /\ IsPlan(cand, current, Done, waited, Active, Queue, S)
          /\ plan' = [plan EXCEPT ![s] = S]
    BY <1>5 DEF MakePlan
  <2>3. /\ Compatible(cand, Active \cup S)
        /\ WithinLimits(cand, Active \cup S)
    BY <1>0, <2>2, TypedState, PlanIsCompatible, PlanIsWithinLimits
       DEF IInv, ReservationsExclusive, QuotaRespected
  <2>4. \A p \in S : cand[p].deps \subseteq Done /\ current[p] = cand[p].rev
    BY <2>2 DEF IsPlan, Admissible
  <2>5. Active' = Active /\ Queue' = Queue /\ Done' = Done /\ UNCHANGED <<cand, current>>
    BY <1>5 DEF MakePlan, Active, Queue, Done, InStatus
  <2>6. plan'[s] = S /\ \A t \in fresh' \ {s} : t \in fresh /\ plan'[t] = plan[t]
    BY <1>0, <1>5, <2>2 DEF TypeOK, MakePlan
  <2>7. FreshPlansFit'
    BY <2>2, <2>3, <2>4, <2>5, <2>6 DEF IInv, FreshPlansFit
  <2>8. \A q \in Queue \ S : ~Admissible(cand, current, Done, Active \cup S, q)
    BY <1>0, <2>2, TypedState, PlanLeavesNoRoom
  <2>9. FreshPlansMaximal'
    BY <2>5, <2>6, <2>8 DEF IInv, FreshPlansMaximal
  <2> QED
    BY <2>1, <2>5, <2>7, <2>9 DEF IInv, ReservationsExclusive, QuotaRespected
<1>6. ASSUME NEW s \in Planner, Commit(s) PROVE IInv'
  <2>1. plan[s] \subseteq Queue
    BY <1>6 DEF Commit, IInv, FreshPlansFit
  <2>2. TypeOK'
    BY <1>0, <1>6, <2>1 DEF TypeOK, Queue, Active, InStatus, Commit, Drop, NewStateRevision
  <2>3. Active' = Active \cup plan[s] /\ cand' = cand
    BY <1>0, <1>6, <2>1 DEF TypeOK, Queue, Active, InStatus, Commit
  <2>4. ReservationsExclusive' /\ QuotaRespected'
    BY <1>6, <2>3 DEF Commit, IInv, FreshPlansFit, ReservationsExclusive, QuotaRespected
  <2>5. CASE plan[s] = {}
    <3>1. status' = status
      BY <1>0, <1>6, <2>5 DEF TypeOK, Commit
    <3>2. fresh' \subseteq fresh /\ \A t \in fresh' : plan'[t] = plan[t]
      BY <1>0, <1>6, <2>5 DEF TypeOK, Commit, Drop
    <3> QED
      BY <1>6, <2>2, <3>1, <3>2, StoreUnchanged DEF IInv, Commit
  <2>6. CASE plan[s] # {}
    BY <1>6, <2>2, <2>4, <2>6
       DEF IInv, Commit, NewStateRevision, FreshPlansFit, FreshPlansMaximal
  <2> QED
    BY <2>5, <2>6
<1>7. ASSUME NEW s \in Planner, Reject(s) PROVE IInv'
  <2>1. TypeOK'
    BY <1>0, <1>7 DEF TypeOK, Queue, Active, InStatus, Reject, Drop
  <2>2. \A t \in fresh' : plan'[t] = plan[t]
    BY <1>0, <1>7 DEF TypeOK, Reject, Drop
  <2> QED
    BY <1>7, <2>1, <2>2, StoreUnchanged DEF IInv, Reject
<1>8. ASSUME NEW s \in Planner, Crash(s) PROVE IInv'
  <2>1. TypeOK'
    BY <1>0, <1>8 DEF TypeOK, Queue, Active, InStatus, Crash, Drop
  <2>2. \A t \in fresh' : plan'[t] = plan[t]
    BY <1>0, <1>8 DEF TypeOK, Crash, Drop
  <2> QED
    BY <1>8, <2>1, <2>2, StoreUnchanged DEF IInv, Crash
<1>9. CASE UNCHANGED vars
  <2>1. TypeOK'
    BY <1>0, <1>9 DEF TypeOK, Queue, Active, InStatus, vars
  <2> QED
    BY <1>9, <2>1, StoreUnchanged DEF IInv, vars
<1> QED
  BY <1>1, <1>2, <1>3, <1>4, <1>5, <1>6, <1>7, <1>8, <1>9
     DEF Next, Disturb, Plan, Withdraw, Complete, Release, Reopen

LEMMA IInvHolds == Spec => []IInv
  BY InitIInv, NextIInv, PTL DEF Spec

(* Every variable keeps its type; a queued or reserved package has a       *)
(* candidate record, and only a planner that holds a plan can be fresh.    *)
THEOREM TypeCorrect == Spec => []TypeOK
<1>1. IInv => TypeOK
  BY DEF IInv
<1> QED
  BY <1>1, IInvHolds, PTL

(* No two reservations ever conflict, whatever the planners do.            *)
THEOREM Exclusive == Spec => []ReservationsExclusive
<1>1. IInv => ReservationsExclusive
  BY DEF IInv
<1> QED
  BY <1>1, IInvHolds, PTL

(* The reservations never exceed a limit of the policy.                    *)
THEOREM QuotaKept == Spec => []QuotaRespected
<1>1. IInv => QuotaRespected
  BY DEF IInv
<1> QED
  BY <1>1, IInvHolds, PTL

(* A plan that carries the store's revision can be committed as it stands. *)
THEOREM FreshPlansSound == Spec => []FreshPlansFit
<1>1. IInv => FreshPlansFit
  BY DEF IInv
<1> QED
  BY <1>1, IInvHolds, PTL

(* A package becomes reserved only on its current revision and with its    *)
(* dependencies complete at the moment of the commit.                      *)
THEOREM CommitsCurrent == Spec => CommitIsCurrent
<1>1. ASSUME IInv, [Next]_vars, NEW p \in Package,
             status[p] = "queued", status'[p] = "reserved"
      PROVE  cand[p].deps \subseteq Done /\ current[p] = cand[p].rev
  <2>1. PICK s \in Planner : Commit(s)
    BY <1>1 DEF Next, vars, Disturb, Submit, Withdraw, Complete, Release, Reopen, Leave, Revise,
                Tick, Plan, MakePlan, Reject, Crash, IInv, TypeOK
  <2>2. p \in plan[s] /\ s \in fresh
    BY <1>1, <2>1 DEF Commit
  <2> QED
    BY <1>1, <2>2 DEF IInv, FreshPlansFit
<1>2. IInv /\ [Next]_vars =>
        [\A p \in Package : status[p] = "queued" /\ status'[p] = "reserved" =>
           cand[p].deps \subseteq Done /\ current[p] = cand[p].rev]_vars
  BY <1>1
<1> QED
  BY <1>2, IInvHolds, PTL DEF Spec, CommitIsCurrent
(* A commit leaves no capacity unused: a plan that is still fresh was made *)
(* from the queue and the reservations as they are at the commit.          *)
THEOREM CommitsMaximal == Spec => CommitIsMaximal
<1>1. ASSUME IInv, NEW s \in Planner, Commit(s), NEW q \in Queue'
      PROVE  ~Admissible(cand, current, Done, Active', q)
  <2>1. s \in fresh /\ plan[s] \subseteq Queue
    BY <1>1 DEF Commit, IInv, FreshPlansFit
  <2>2. Active' = Active \cup plan[s] /\ q \in Queue \ plan[s]
    BY <1>1, <2>1 DEF IInv, TypeOK, Commit, Active, Queue, InStatus
  <2> QED
    BY <1>1, <2>1, <2>2 DEF IInv, FreshPlansMaximal
<1>2. IInv /\ [Next]_vars =>
        [\A s \in Planner : Commit(s) =>
           \A q \in Queue' : ~Admissible(cand, current, Done, Active', q)]_vars
  BY <1>1
<1> QED
  BY <1>2, IInvHolds, PTL DEF Spec, CommitIsMaximal

=============================================================================
