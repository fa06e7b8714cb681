---------------------------- MODULE Reservations ----------------------------
(***************************************************************************)
(* The shared project state around schedule: the Project Lead submits      *)
(* candidates, planners compute plans outside the state transaction from a *)
(* snapshot of one state revision, and a plan's selections become          *)
(* reservations only if the state revision is still the plan's.            *)
(*                                                                         *)
(* The repository holds the plan computation; the store that commits a     *)
(* plan, and the Project Lead, are outside it and are modelled from the    *)
(* arguments schedule takes and the stateRevision it stamps on its plan.   *)
(* A state revision is an opaque token that is only ever compared for      *)
(* equality, so a planner's copy of it is modelled by whether it still     *)
(* equals the store's: the set fresh.  schedule is a synchronous function  *)
(* of its snapshot, so reading the snapshot and computing is one step; the *)
(* plan may then wait while the store changes.                             *)
(***************************************************************************)
EXTENDS SchedulingRules

CONSTANTS
  Planner,      \* control-plane processes that plan and commit
  NoCandidate,  \* the package has no candidate record
  Horizon       \* waiting time in seconds beyond which only order is kept

ASSUME HorizonAssumption == Horizon \in Nat /\ Horizon >= AgingWindow * MaxAgingBoost
ASSUME NullAssumption == NoCandidate \notin Shapes

VARIABLES
  cand,      \* candidate queued or holding the reservation, per package
  status,    \* "idle" | "queued" | "reserved" | "done"
  current,   \* current_revisions
  waited,    \* now - queuedAt of queued packages
  plan,      \* selected_work_packages of each planner's plan
  holding,   \* planners with a plan not yet committed or dropped
  fresh      \* planners whose plan carries the store's state revision

vars == <<cand, status, current, waited, plan, holding, fresh>>

InStatus(s) == {p \in Package : status[p] = s}
Queue == InStatus("queued")
Active == InStatus("reserved")
Done == InStatus("done")

Init ==
  /\ cand = [p \in Package |-> NoCandidate]
  /\ status = [p \in Package |-> "idle"]
  /\ current \in [Package -> Revision \cup {NoRevision}]
  /\ waited = [p \in Package |-> 0]
  /\ plan = [s \in Planner |-> {}]
  /\ holding = {}
  /\ fresh = {}

-----------------------------------------------------------------------------
(* The Project Lead and the project.  Each of these changes the state      *)
(* revision, so no outstanding plan is fresh afterwards.                   *)

NewStateRevision == fresh' = {}
SameStateRevision == fresh' = fresh

(* Mutation: the candidate is queued without a new state revision.         *)
SubmitUnnoticed(p, c) ==
  /\ status[p] = "idle"
  /\ cand' = [cand EXCEPT ![p] = c]
  /\ status' = [status EXCEPT ![p] = "queued"]
  /\ waited' = [waited EXCEPT ![p] = 0]
  /\ SameStateRevision
  /\ UNCHANGED <<current, plan, holding>>
Submit(p, c) ==
  /\ status[p] = "idle"
  /\ cand' = [cand EXCEPT ![p] = c]
  /\ status' = [status EXCEPT ![p] = "queued"]
  /\ waited' = [waited EXCEPT ![p] = 0]
  /\ NewStateRevision
  /\ UNCHANGED <<current, plan, holding>>

(* Leaving the queue or a reservation forgets the candidate record.        *)
Leave(p, from, to) ==
  /\ status[p] = from
  /\ cand' = [cand EXCEPT ![p] = NoCandidate]
  /\ status' = [status EXCEPT ![p] = to]
  /\ waited' = [waited EXCEPT ![p] = 0]
  /\ NewStateRevision
  /\ UNCHANGED <<current, plan, holding>>

Withdraw(p) == Leave(p, "queued", "idle")
Complete(p) == Leave(p, "reserved", "done")
Release(p)  == Leave(p, "reserved", "idle")   \* failed, expired or revoked
Reopen(p)   == Leave(p, "done", "idle")       \* later work under the same id

Revise(p) ==
  /\ \E r \in Revision : r > current[p] /\ current' = [current EXCEPT ![p] = r]
  /\ NewStateRevision
  /\ UNCHANGED <<cand, status, waited, plan, holding>>

-----------------------------------------------------------------------------
(* Time.  Waiting times at most Horizon are exact; above it aging no       *)
(* longer changes, and only which of two packages waited longer matters.   *)
Longer(w) == [p \in Package |-> IF status[p] = "queued" THEN w[p] + 1 ELSE 0]
Compressed(w) ==
  [p \in Package |->
     IF w[p] <= Horizon THEN w[p]
     ELSE Horizon + Cardinality({w[q] : q \in {r \in Package : Horizon < w[r] /\ w[r] <= w[p]}})]

Tick ==
  /\ waited' = Compressed(Longer(waited))
  /\ UNCHANGED <<cand, status, current, plan, holding, fresh>>

-----------------------------------------------------------------------------
(* A planner.                                                              *)

Drop(s) ==
  /\ plan' = [plan EXCEPT ![s] = {}]
  /\ holding' = holding \ {s}

(* Mutation: candidates are not tested against the tentative reservations  *)
(* of the same plan.                                                       *)
MakePlanIgnoringPlan(s) ==
  /\ s \notin holding
  /\ plan' = [plan EXCEPT ![s] =
                {p \in Queue : Admissible(cand, current, Done, Active, p)}]
  /\ holding' = holding \cup {s}
  /\ fresh' = fresh \cup {s}
  /\ UNCHANGED <<cand, status, current, waited>>
MakePlan(s) ==
  /\ s \notin holding
  /\ \E S \in SUBSET Queue :
       /\ IsPlan(cand, current, Done, waited, Active, Queue, S)
       /\ plan' = [plan EXCEPT ![s] = S]
  /\ holding' = holding \cup {s}
  /\ fresh' = fresh \cup {s}
  /\ UNCHANGED <<cand, status, current, waited>>

(* Mutation: the plan is forced through whatever has changed.              *)
CommitForced(s) ==
  /\ s \in holding
  /\ status' = [p \in Package |->
                  IF p \in plan[s] /\ status[p] = "queued" THEN "reserved" ELSE status[p]]
  /\ waited' = [p \in Package |-> IF p \in plan[s] THEN 0 ELSE waited[p]]
  /\ Drop(s)
  /\ IF plan[s] = {} THEN SameStateRevision ELSE NewStateRevision
  /\ UNCHANGED <<cand, current>>
Commit(s) ==
  /\ s \in holding
  /\ s \in fresh
  /\ status' = [p \in Package |-> IF p \in plan[s] THEN "reserved" ELSE status[p]]
  /\ waited' = [p \in Package |-> IF p \in plan[s] THEN 0 ELSE waited[p]]
  /\ Drop(s)
  /\ IF plan[s] = {} THEN fresh' = fresh \ {s} ELSE NewStateRevision
  /\ UNCHANGED <<cand, current>>

(* Mutation: the stale plan is kept and never recalculated.                *)
RejectKeepsPlan(s) ==
  /\ s \in holding
  /\ s \notin fresh
  /\ UNCHANGED vars
(* The plan is stale and is recalculated later.                            *)
Reject(s) ==
  /\ s \in holding
  /\ s \notin fresh
  /\ Drop(s)
  /\ UNCHANGED <<cand, status, current, waited, fresh>>

(* Mutation: the plan's revision outlives the plan.                        *)
CrashKeepsRevision(s) ==
  /\ s \in holding
  /\ Drop(s)
  /\ UNCHANGED <<cand, status, current, waited, fresh>>
(* A planner stops before it commits; its plan is lost with it.            *)
Crash(s) ==
  /\ s \in holding
  /\ Drop(s)
  /\ fresh' = fresh \ {s}
  /\ UNCHANGED <<cand, status, current, waited>>

-----------------------------------------------------------------------------
Disturb ==
  \E p \in Package :
    \/ \E c \in Shapes : Submit(p, c)
    \/ Withdraw(p)
    \/ Release(p)
    \/ Reopen(p)
    \/ Revise(p)

Plan == \E s \in Planner : MakePlan(s) \/ Commit(s) \/ Reject(s)

Next ==
  \/ Disturb
  \/ \E p \in Package : Complete(p)
  \/ Tick
  \/ Plan
  \/ \E s \in Planner : Crash(s)

Spec == Init /\ [][Next]_vars

(* A planner that can act does, and dispatched work ends.                  *)
Fairness ==
  /\ \A s \in Planner : WF_vars(MakePlan(s)) /\ WF_vars(Reject(s)) /\ WF_vars(Commit(s))
  /\ \A p \in Package : WF_vars(Complete(p))

FairSpec == Spec /\ Fairness

-----------------------------------------------------------------------------
TypeOK ==
  /\ status \in [Package -> {"idle", "queued", "reserved", "done"}]
  /\ cand \in [Package -> Shapes \cup {NoCandidate}]
  /\ \A p \in Queue \cup Active : cand[p] \in Shapes
  /\ current \in [Package -> Revision \cup {NoRevision}]
  /\ waited \in [Package -> Nat]
  /\ plan \in [Planner -> SUBSET Package]
  /\ holding \subseteq Planner
  /\ fresh \subseteq holding

(* "Silent overbooking is never allowed": whichever planners plan and      *)
(* commit in whichever order, no two reservations conflict.                *)
ReservationsExclusive == Compatible(cand, Active)

(* ... and the reservations stay within every limit.                       *)
QuotaRespected == WithinLimits(cand, Active)

(* A plan whose state revision still is the store's can be committed as it *)
(* stands: its packages wait on current revisions with their dependencies  *)
(* complete, and fit together with everything now reserved.                *)
FreshPlansFit ==
  \A s \in fresh :
    /\ plan[s] \subseteq Queue
    /\ \A p \in plan[s] : cand[p].deps \subseteq Done /\ current[p] = cand[p].rev
    /\ Compatible(cand, Active \cup plan[s])
    /\ WithinLimits(cand, Active \cup plan[s])

(* A package is reserved only on a revision that is current and with its   *)
(* dependencies complete at the moment of the commit, not of the plan.     *)
CommitIsCurrent ==
  [][\A p \in Package : status[p] = "queued" /\ status'[p] = "reserved" =>
       cand[p].deps \subseteq Done /\ current[p] = cand[p].rev]_vars

(* Capacity is not left unused by a commit: no queued package could be     *)
(* added to the reservations it makes, so a plan computed before a package *)
(* was submitted, released or completed is never committed.                *)
CommitIsMaximal ==
  [][\A s \in Planner : Commit(s) =>
       \A q \in Queue' : ~Admissible(cand, current, Done, Active', q)]_vars

(* A candidate that nothing but capacity can hold back.                    *)
Eligible(p) ==
  /\ status[p] = "queued"
  /\ Admissible(cand, current, Done, {}, p)

(* Once nothing new is submitted or disturbed, every eligible candidate    *)
(* gets its reservation.                                                   *)
QueueDrains ==
  <>[][~Disturb]_vars /\ <>[][\A s \in Planner : ~Crash(s)]_vars
    => \A p \in Package : []<>~Eligible(p)

(* "Bounded aging prevents starvation": an eligible candidate does not     *)
(* stay queued for ever, whatever else is submitted.                       *)
NoStarvation == \A p \in Package : Eligible(p) ~> ~Eligible(p)

=============================================================================
