----------------------------- MODULE Scheduler -----------------------------
(***************************************************************************)
(* One call of schedule (src/src/v3_aidlc/scheduler.py): the candidates    *)
(* are taken in the order of the sort key, each is deferred with every     *)
(* reason that holds or selected, and a selection consumes conflict        *)
(* domains and quota for the candidates after it.  The inputs are one      *)
(* snapshot of the project and do not change during the call.              *)
(***************************************************************************)
EXTENDS SchedulingRules

VARIABLES
  cand, status, current, waited,   \* the snapshot, as in SchedulePlan
  pending,    \* candidates the loop has not reached
  selected,   \* selected_reservations
  reasons,    \* reasons of the entries made so far; {} before an entry is made
  usage,      \* the running usage per dimension
  returned    \* the plan has been returned

input == <<cand, status, current, waited>>
vars == <<cand, status, current, waited, pending, selected, reasons, usage, returned>>

InStatus(s) == {p \in Package : status[p] = s}
Queue == InStatus("queued")
Active == InStatus("reserved")
Done == InStatus("done")

-----------------------------------------------------------------------------
(* Active reservations were made by earlier plans: they do not conflict    *)
(* and are within the limits.                                              *)
ReservedIsSound ==
  Compatible(cand, Active) /\ WithinLimits(cand, Active)

(* The call has validated its inputs and summed the active reservations.   *)
Start(Waits) ==
  /\ cand \in [Package -> Shapes]
  /\ status \in [Package -> {"idle", "queued", "reserved", "done"}]
  /\ current \in [Package -> Revision \cup {NoRevision}]
  /\ waited \in [Package -> Waits]
  /\ ReservedIsSound
  /\ pending = Queue
  /\ selected = {}
  /\ reasons = [p \in Package |-> {}]
  /\ usage = [d \in Dimension |-> Usage(cand, Active, d)]
  /\ returned = FALSE

Init == Start(Nat)

First(p) == p \in pending /\ \A q \in pending \ {p} : Before(cand, waited, p, q)

(* Mutation: selections of this call do not hold their domains.            *)
ReasonsForIgnoringPlan(p) ==
  DependencyReasons(cand[p], Done)
    \cup RevisionReasons(p, cand[p], current[p])
    \cup ConflictReasons(cand, p, Active)
    \cup QuotaReasons(cand[p], usage)
ReasonsFor(p) ==
  DependencyReasons(cand[p], Done)
    \cup RevisionReasons(p, cand[p], current[p])
    \cup ConflictReasons(cand, p, Active \cup selected)
    \cup QuotaReasons(cand[p], usage)

Defer(p) ==
  /\ First(p)
  /\ ReasonsFor(p) # {}
  /\ reasons' = [reasons EXCEPT ![p] = ReasonsFor(p)]
  /\ pending' = pending \ {p}
  /\ UNCHANGED <<cand, status, current, waited, selected, usage, returned>>

(* Mutation: the selected candidate stays in the list.                     *)
SelectRepeatedly(p) ==
  /\ First(p)
  /\ ReasonsFor(p) = {}
  /\ selected' = selected \cup {p}
  /\ usage' = [d \in Dimension |-> usage[d] + Charge(cand[p], d)]
  /\ UNCHANGED <<cand, status, current, waited, pending, reasons, returned>>
(* Mutation: the loop ends at the first selection.                        *)
SelectStopping(p) ==
  /\ First(p)
  /\ ReasonsFor(p) = {}
  /\ selected' = selected \cup {p}
  /\ pending' = {}
  /\ usage' = [d \in Dimension |-> usage[d] + Charge(cand[p], d)]
  /\ UNCHANGED <<cand, status, current, waited, reasons, returned>>
Select(p) ==
  /\ First(p)
  /\ ReasonsFor(p) = {}
  /\ selected' = selected \cup {p}
  /\ pending' = pending \ {p}
  /\ usage' = [d \in Dimension |-> usage[d] + Charge(cand[p], d)]
  /\ UNCHANGED <<cand, status, current, waited, reasons, returned>>

ReturnPlan ==
  /\ pending = {}
  /\ ~returned
  /\ returned' = TRUE
  /\ UNCHANGED <<cand, status, current, waited, pending, selected, reasons, usage>>

Next == (\E p \in Package : Defer(p) \/ Select(p)) \/ ReturnPlan

Spec == Init /\ [][Next]_vars

-----------------------------------------------------------------------------
TypeOK ==
  /\ cand \in [Package -> Shapes]
  /\ status \in [Package -> {"idle", "queued", "reserved", "done"}]
  /\ current \in [Package -> Revision \cup {NoRevision}]
  /\ waited \in [Package -> Nat]
  /\ pending \subseteq Queue
  /\ selected \subseteq Queue \ pending
  /\ usage \in [Dimension -> Nat]
  /\ returned \in BOOLEAN

(* The active reservations and the selections together never conflict and  *)
(* never exceed a limit: same-plan reservations consume domains and quota. *)
PlanIsSafe ==
  Compatible(cand, Active \cup selected) /\ WithinLimits(cand, Active \cup selected)

(* The usage the loop carries is the usage of what it holds: the counter   *)
(* that is added to on every selection never drifts from the reservations. *)
UsageIsExact == \A d \in Dimension : usage[d] = Usage(cand, Active \cup selected, d)

(* A candidate the loop has passed was deferred for want of capacity only  *)
(* if what is active or ordered before it leaves no room: work ordered     *)
(* later never displaces it.                                               *)
GreedySoFar ==
  \A p \in Queue \ pending :
    p \in selected <=>
      Admissible(cand, current, Done,
                 Active \cup {q \in selected : Before(cand, waited, q, p)}, p)

(* No deferred candidate would still fit beside the returned plan.         *)
PlanIsMaximal ==
  returned =>
    \A p \in Queue \ selected : ~Admissible(cand, current, Done, Active \cup selected, p)

(* Aging "cannot outrank mandatory safety and recovery": a selected        *)
(* package whose claims conflict with those of a deferred safety_recovery  *)
(* one is safety_recovery itself.                                          *)
SafetyNotOutranked ==
  \A p \in Queue : \A q \in selected :
    cand[p].class = 0 /\ <<"conflict", q>> \in reasons[p] => cand[q].class = 0

(* The loop implements the one-step promise.                               *)
Promise == INSTANCE SchedulePlan
             WITH planned <- returned, chosen <- IF returned THEN selected ELSE {}
ImplementsPromise == Promise!Spec

=============================================================================
