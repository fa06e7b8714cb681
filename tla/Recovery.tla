------------------------------ MODULE Recovery ------------------------------
(***************************************************************************)
(* Interrupted runs: dispatch and completion as execute records them       *)
(* (src/src/v3_aidlc/reference_orchestrator.py), and plan_recovery         *)
(* (src/src/v3_aidlc/recovery.py), which decides from the history, the     *)
(* leases and what is known of external effects what to do about each run. *)
(*                                                                         *)
(* Workers, leases, time and the Project Lead that carries a plan out are  *)
(* outside the repository.  A plan names the sequence it was verified      *)
(* through; it is carried out while nobody else has recorded an event      *)
(* since.  plan_recovery is a function of its arguments, so reading them   *)
(* and computing is one step, and the plan may then wait.                  *)
(*                                                                         *)
(* A run is a package and its attempt.  Run identifiers are distinct, and  *)
(* a run has one lease, so the refusals of plan_recovery for a run         *)
(* dispatched twice or leased twice do not arise.  What the history says   *)
(* of runs is the sets of those dispatched and completed.                  *)
(***************************************************************************)
EXTENDS Integers, FiniteSets

CONSTANTS
  Package,           \* work packages
  External,          \* those whose run declares externalSideEffectPossible
  MaxAttempts,       \* max_attempts
  RecordsEffectKey   \* the run.dispatched payload names an effectKey

ASSUME RecoveryAssumption ==
  /\ External \subseteq Package
  /\ MaxAttempts \in Nat \ {0}
  /\ RecordsEffectKey \in BOOLEAN

Attempt == 1..MaxAttempts + 1   \* one more than is ever allowed
Run == Package \X Attempt

VARIABLES
  phase,       \* per package: "queued" | "running" | "done" | "escalated"
  attempt,     \* per package, the attempt of its latest run
  dispatched,  \* runs with a run.dispatched event
  completed,   \* runs with a run.completed event
  lease,       \* per run: "none" | "active" | "released" | "expired" | "revoked"
  overdue,     \* runs whose lease is past its expiresAt
  worker,      \* per run: "none" | "working" | "acted" (effect made) | "gone"
  effects,     \* per package, how often its external effect happened
  observed,    \* effect_observations: "unknown" | "succeeded" | "absent"
  plan,        \* the steps of the plan in hand, as pairs of action and run
  fresh        \* nobody else has recorded an event since the plan was made

vars == <<phase, attempt, dispatched, completed, lease, overdue, worker,
          effects, observed, plan, fresh>>

Init ==
  /\ phase = [p \in Package |-> "queued"]
  /\ attempt = [p \in Package |-> 1]
  /\ dispatched = {}
  /\ completed = {}
  /\ lease = [r \in Run |-> "none"]
  /\ overdue = {}
  /\ worker = [r \in Run |-> "none"]
  /\ effects = [p \in Package |-> 0]
  /\ observed = [p \in Package |-> "unknown"]
  /\ plan = {}
  /\ fresh = FALSE

Latest(r) == r[2] = attempt[r[1]]
Busy(r) == worker[r] \in {"working", "acted"}
NewEvent == fresh' = FALSE

-----------------------------------------------------------------------------
(* A run.                                                                  *)

(* run.dispatched is recorded before the worker has the contract.          *)
Dispatch(p) ==
  /\ phase[p] = "queued"
  /\ phase' = [phase EXCEPT ![p] = "running"]
  /\ dispatched' = dispatched \cup {<<p, attempt[p]>>}
  /\ NewEvent
  /\ UNCHANGED <<attempt, completed, lease, overdue, worker, effects, observed, plan>>

(* The worker starts with its lease.  If the dispatching session stops     *)
(* before this the dispatch has no lease.                                  *)
Invoke(r) ==
  /\ r \in dispatched
  /\ lease[r] = "none"
  /\ lease' = [lease EXCEPT ![r] = "active"]
  /\ worker' = [worker EXCEPT ![r] = "working"]
  /\ NewEvent
  /\ UNCHANGED <<phase, attempt, dispatched, completed, overdue, effects, observed, plan>>

(* The effect that cannot be taken back.                                   *)
Effect(r) ==
  /\ r[1] \in External
  /\ worker[r] = "working"
  /\ worker' = [worker EXCEPT ![r] = "acted"]
  /\ effects' = [effects EXCEPT ![r[1]] = @ + 1]
  /\ UNCHANGED <<phase, attempt, dispatched, completed, lease, overdue, observed, plan, fresh>>

Heartbeat(r) ==
  /\ Busy(r)
  /\ lease[r] = "active"
  /\ overdue' = overdue \ {r}
  /\ NewEvent
  /\ UNCHANGED <<phase, attempt, dispatched, completed, lease, worker, effects, observed, plan>>

(* A worker returns, however late; execute records run.completed for any   *)
(* result, and the lease is released afterwards.                           *)
Complete(r) ==
  /\ Busy(r)
  /\ worker' = [worker EXCEPT ![r] = "gone"]
  /\ completed' = completed \cup {r}
  /\ phase' = [phase EXCEPT ![r[1]] = IF Latest(r) THEN "done" ELSE @]
  /\ NewEvent
  /\ UNCHANGED <<attempt, dispatched, lease, overdue, effects, observed, plan>>

Release(r) ==
  /\ r \in completed
  /\ lease[r] = "active"
  /\ lease' = [lease EXCEPT ![r] = "released"]
  /\ NewEvent
  /\ UNCHANGED <<phase, attempt, dispatched, completed, overdue, worker, effects, observed, plan>>

Stop(r) ==
  /\ Busy(r)
  /\ worker' = [worker EXCEPT ![r] = "gone"]
  /\ UNCHANGED <<phase, attempt, dispatched, completed, lease, overdue, effects, observed, plan, fresh>>

Expire(r) ==
  /\ lease[r] = "active"
  /\ r \notin overdue
  /\ overdue' = overdue \cup {r}
  /\ UNCHANGED <<phase, attempt, dispatched, completed, lease, worker, effects, observed, plan, fresh>>

-----------------------------------------------------------------------------
(* plan_recovery.                                                          *)

(* What effect_observations says under the effectKey of the dispatch.      *)
EffectStatus(r) == IF RecordsEffectKey THEN observed[r[1]] ELSE "unknown"

(* Mutation: an external effect is presumed not to have happened.          *)
ExpiredActionUnverified(r) ==
  CASE EffectStatus(r) = "succeeded" -> "reconcile_completed_run"
    [] EffectStatus(r) # "succeeded" ->
         IF r[2] >= MaxAttempts THEN "escalate_attempt_budget" ELSE "reclaim_and_requeue"
(* Mutation: observations of effects are not consulted.                    *)
ExpiredActionBlind(r) ==
  IF r[1] \in External THEN "verify_external_effect"
  ELSE IF r[2] >= MaxAttempts THEN "escalate_attempt_budget"
  ELSE "reclaim_and_requeue"
(* Mutation: the attempt budget is one too small.                          *)
ExpiredActionHasty(r) ==
  CASE EffectStatus(r) = "succeeded" -> "reconcile_completed_run"
    [] EffectStatus(r) # "succeeded" /\ r[1] \in External -> "verify_external_effect"
    [] EffectStatus(r) # "succeeded" /\ r[1] \notin External ->
         IF r[2] >= MaxAttempts - 1 THEN "escalate_attempt_budget" ELSE "reclaim_and_requeue"
(* An unfinished run whose active lease has expired.                       *)
ExpiredAction(r) ==
  IF EffectStatus(r) = "succeeded" THEN "reconcile_completed_run"
  ELSE IF r[1] \in External THEN "verify_external_effect"
  ELSE IF r[2] >= MaxAttempts THEN "escalate_attempt_budget"
  ELSE "reclaim_and_requeue"

(* Mutation: completion events are not consulted.                          *)
ActionForDeaf(r) ==
  CASE lease[r] # "active"                      -> "reconcile_orphan_run"
    [] lease[r] = "active" /\ r \notin overdue  -> "wait_for_lease"
    [] lease[r] = "active" /\ r \in overdue     -> ExpiredAction(r)
(* Mutation: the expiry of the lease is not consulted.                     *)
ActionForImpatient(r) ==
  CASE r \in completed /\ lease[r] = "active"    -> "reconcile_completed_run"
    [] r \in completed /\ lease[r] # "active"    -> "none"
    [] r \notin completed /\ lease[r] # "active" -> "reconcile_orphan_run"
    [] r \notin completed /\ lease[r] = "active" -> ExpiredAction(r)
(* Mutation: a dispatch without a lease is waited for.                     *)
ActionForPatient(r) ==
  CASE r \in completed /\ lease[r] = "active"    -> "reconcile_completed_run"
    [] r \in completed /\ lease[r] # "active"    -> "none"
    [] r \notin completed /\ (lease[r] = "none" \/ r \notin overdue) -> "wait_for_lease"
    [] OTHER                                     -> ExpiredAction(r)
(* The step for a dispatched run; "none" when there is nothing to do.      *)
ActionFor(r) ==
  CASE r \in completed /\ lease[r] = "active"    -> "reconcile_completed_run"
    [] r \in completed /\ lease[r] # "active"    -> "none"
    [] r \notin completed /\ lease[r] # "active" -> "reconcile_orphan_run"
    [] r \notin completed /\ lease[r] = "active" /\ r \notin overdue -> "wait_for_lease"
    [] r \notin completed /\ lease[r] = "active" /\ r \in overdue    -> ExpiredAction(r)

MakePlan ==
  /\ plan = {}
  /\ plan' = {<<ActionFor(r), r>> : r \in {x \in dispatched : ActionFor(x) # "none"}}
  /\ fresh' = TRUE
  /\ UNCHANGED <<phase, attempt, dispatched, completed, lease, overdue, worker, effects, observed>>

-----------------------------------------------------------------------------
(* The Project Lead carries the plan out step by step.                     *)

Settle(r, status) == IF Latest(r) THEN [phase EXCEPT ![r[1]] = status] ELSE phase

CarryOut(r, action) ==
  /\ fresh
  /\ <<action, r>> \in plan
  /\ plan' = plan \ {<<action, r>>}
  /\ UNCHANGED <<dispatched, overdue, worker, effects, fresh>>

Wait(r) ==
  /\ CarryOut(r, "wait_for_lease")
  /\ UNCHANGED <<phase, attempt, completed, lease, observed>>

Reclaim(r) ==
  /\ CarryOut(r, "reclaim_and_requeue")
  /\ lease' = [lease EXCEPT ![r] = "expired"]
  /\ attempt' = [attempt EXCEPT ![r[1]] = r[2] + 1]
  /\ phase' = Settle(r, "queued")
  /\ UNCHANGED <<completed, observed>>

(* The authoritative external system is asked under the effect's key.      *)
Verify(r) ==
  /\ CarryOut(r, "verify_external_effect")
  /\ observed' = [observed EXCEPT ![r[1]] = IF effects[r[1]] > 0 THEN "succeeded" ELSE "absent"]
  /\ UNCHANGED <<phase, attempt, completed, lease>>

Reconcile(r) ==
  /\ CarryOut(r, "reconcile_completed_run")
  /\ completed' = completed \cup {r}
  /\ lease' = [lease EXCEPT ![r] = "released"]
  /\ phase' = Settle(r, "done")
  /\ UNCHANGED <<attempt, observed>>

(* Neither an orphan nor an exhausted run is resumed without a decision.   *)
Orphan(r) ==
  /\ CarryOut(r, "reconcile_orphan_run")
  /\ lease' = [lease EXCEPT ![r] = IF @ = "none" THEN "revoked" ELSE @]
  /\ phase' = Settle(r, "escalated")
  /\ UNCHANGED <<attempt, completed, observed>>

Escalate(r) ==
  /\ CarryOut(r, "escalate_attempt_budget")
  /\ lease' = [lease EXCEPT ![r] = "revoked"]
  /\ phase' = Settle(r, "escalated")
  /\ UNCHANGED <<attempt, completed, observed>>

(* Events have been recorded since: the plan is made again.                *)
Discard ==
  /\ plan # {}
  /\ ~fresh
  /\ plan' = {}
  /\ UNCHANGED <<phase, attempt, dispatched, completed, lease, overdue, worker, effects, observed, fresh>>

Recover(r) == Wait(r) \/ Reclaim(r) \/ Verify(r) \/ Reconcile(r) \/ Orphan(r) \/ Escalate(r)

Next ==
  \/ \E p \in Package : Dispatch(p)
  \/ \E r \in Run : \/ Invoke(r) \/ Effect(r) \/ Heartbeat(r) \/ Complete(r)
                    \/ Release(r) \/ Stop(r) \/ Expire(r) \/ Recover(r)
  \/ MakePlan
  \/ Discard

Spec == Init /\ [][Next]_vars

(* Queued work is dispatched, time passes, plans are made and carried out. *)
(* Workers owe nothing: they may hang, stop or return at any time.         *)
Fairness ==
  /\ \A p \in Package : WF_vars(Dispatch(p))
  /\ \A r \in Run : WF_vars(Expire(r)) /\ WF_vars(Recover(r))
  /\ WF_vars(MakePlan)
  /\ WF_vars(Discard)

FairSpec == Spec /\ Fairness

-----------------------------------------------------------------------------
Action == {"wait_for_lease", "reclaim_and_requeue", "verify_external_effect",
           "reconcile_completed_run", "reconcile_orphan_run", "escalate_attempt_budget"}

TypeOK ==
  /\ phase \in [Package -> {"queued", "running", "done", "escalated"}]
  /\ attempt \in [Package -> Attempt]
  /\ dispatched \subseteq Run
  /\ completed \subseteq dispatched
  /\ lease \in [Run -> {"none", "active", "released", "expired", "revoked"}]
  /\ overdue \subseteq {r \in dispatched : lease[r] # "none"}
  /\ worker \in [Run -> {"none", "working", "acted", "gone"}]
  /\ effects \in [Package -> Nat]
  /\ observed \in [Package -> {"unknown", "succeeded", "absent"}]
  /\ plan \subseteq Action \X dispatched
  /\ fresh \in BOOLEAN

(* "Possible external effects are verified before any retry": whatever     *)
(* stops, hangs, returns late or is recovered, the effect of a package     *)
(* happens at most once.                                                   *)
EffectOnce == \A p \in Package : effects[p] <= 1

(* "Unexpired work is not duplicated": two runs of one package never work  *)
(* while both hold a lease that has not expired.                           *)
UnexpiredNotDuplicated ==
  \A p \in Package : \A i, j \in Attempt :
    i # j /\ Busy(<<p, i>>) /\ Busy(<<p, j>>) => {<<p, i>>, <<p, j>>} \cap overdue # {}

(* "Retried only within budget", and only while it has not completed: a    *)
(* completion recorded after the plan was made is not repeated.            *)
RetriesAreNeeded ==
  [][\A p \in Package : attempt'[p] # attempt[p] =>
       attempt'[p] <= MaxAttempts /\ <<p, attempt[p]>> \notin completed]_vars

(* "Retried ... within budget": a package whose run had a lease is put to a *)
(* decision only when its attempts are spent.                              *)
EscalationIsNeeded ==
  [][\A p \in Package : phase[p] # "escalated" /\ phase'[p] = "escalated" =>
       attempt[p] >= MaxAttempts \/ lease[<<p, attempt[p]>>] = "none"]_vars

(* "Confirmed external success is reconciled rather than repeated": no     *)
(* plan asks again about an effect that is known to have succeeded.  What  *)
(* execute dispatches does not satisfy this.                               *)
SuccessIsReconciled ==
  [][MakePlan => \A entry \in plan' :
       entry[1] = "verify_external_effect" => observed[entry[2][1]] # "succeeded"]_vars

WorkersFallSilent == <>[][\A r \in Run : ~Heartbeat(r)]_vars

(* Once no worker sends a heartbeat any more, every package is finished or *)
(* put to a decision; only one whose external effect never happens may     *)
(* stay blocked, to be verified again by every plan.                       *)
Unverified(p) == p \in External /\ effects[p] = 0
EveryRunSettles ==
  WorkersFallSilent =>
    \A p \in Package : <>(phase[p] \in {"done", "escalated"}) \/ []Unverified(p)

(* "Confirmed external success is reconciled rather than repeated": an     *)
(* effect that happened ends as a completed run, also when its worker never*)
(* reports it and when it was first looked for too early and found absent. *)
(* It takes dispatch payloads that name their effect.                      *)
EffectsAreReconciled ==
  WorkersFallSilent =>
    \A p \in External : effects[p] > 0 ~> phase[p] = "done"

=============================================================================
