--------------------------- MODULE RecoveryProofs ---------------------------
(***************************************************************************)
(* What an interruption leaves true: theorems about recovery planning, the *)
(* event history it reads (EventLog) and the canonical state it starts     *)
(* from (ProjectState).  The three have no name in common.                 *)
(*                                                                         *)
(* Recovery, for any packages, external packages and number of attempts,   *)
(* whether or not dispatches name an effect key.  A run is reclaimed only  *)
(* while the plan is fresh, so it still is the latest run of its package,  *)
(* unfinished, with a lease that was active and had expired; reclaiming    *)
(* ends that lease, and no heartbeat renews it.  A package with an         *)
(* external effect is never reclaimed, so it has one run, whose worker     *)
(* acts once.                                                              *)
(*                                                                         *)
(* EventLog, for any sessions, scripts and number of storage faults.  Only *)
(* histories that verify are stored; damage moves events about and alters  *)
(* contents, so each event of a damaged history is one that was written    *)
(* but for its content, and its digest gives the content away.             *)
(*                                                                         *)
(* ProjectState, for any bootstrap script, conversation and number of      *)
(* starts.  Statements only add rows at the end of a table, so the parts a *)
(* snapshot reads, each at its own time, are between the database it began *)
(* with and the one there is; and the rows with identifiers the Lead makes *)
(* are the Lead's.                                                         *)
(***************************************************************************)
EXTENDS Recovery, EventLog, ProjectState, FiniteSetTheorems, SequenceTheorems, TLAPS

(* Nothing works or is leased that was not dispatched.                     *)
LeasesDispatched ==
  \A r \in Run : /\ lease[r] # "none" => r \in dispatched
                 /\ worker[r] # "none" => lease[r] # "none"

(* Runs before the latest have lost their lease for good, having let it    *)
(* expire.                                                                 *)
OlderExpired ==
  \A r \in dispatched :
    /\ r[2] <= attempt[r[1]]
    /\ r[2] < attempt[r[1]] => r \in overdue /\ lease[r] \notin {"none", "active"}

(* An external package has one run, and its effect needs the worker of it. *)
ExternalOnce ==
  \A p \in Package :
    /\ p \in External => attempt[p] = 1
    /\ p \notin External => effects[p] = 0
    /\ effects[p] = 0 \/ (effects[p] = 1 /\ worker[<<p, 1>>] \in {"acted", "gone"})

(* A plan has one step for a run; one that reclaims is never of an external*)
(* package, and while the plan is fresh its grounds persist.               *)
PlanSound ==
  /\ \A s, t \in plan : s[2] = t[2] => s = t
  /\ \A r \in dispatched : <<"reclaim_and_requeue", r>> \in plan =>
       /\ r[1] \notin External
       /\ fresh => r \notin completed /\ lease[r] = "active" /\ r \in overdue /\ r[2] < MaxAttempts

(* The inductive invariant.                                                *)
IInv ==
  /\ TypeOK
  /\ LeasesDispatched
  /\ OlderExpired
  /\ ExternalOnce
  /\ PlanSound

(* Runs are pairs of a package and an attempt.                             *)
LEMMA RunPairs ==
  /\ \A r \in Run : r[1] \in Package /\ r[2] \in Attempt /\ r = <<r[1], r[2]>>
  /\ \A p \in Package : \A i \in Attempt :
       <<p, i>> \in Run /\ <<p, i>>[1] = p /\ <<p, i>>[2] = i
BY DEF Run

LEMMA Attempts == 1 \in Attempt /\ Attempt \subseteq Nat /\ MaxAttempts \in Nat
  BY RecoveryAssumption DEF Attempt

LEMMA InitIInv == Init => IInv
<1> SUFFICES ASSUME Init PROVE IInv
  OBVIOUS
<1>1. TypeOK
  BY Attempts DEF Init, TypeOK
<1>2. LeasesDispatched /\ OlderExpired /\ PlanSound
  BY DEF Init, LeasesDispatched, OlderExpired, PlanSound
<1>3. ExternalOnce
  BY DEF Init, ExternalOnce
<1> QED
  BY <1>1, <1>2, <1>3 DEF IInv

(* What a step of the plan in hand may rely on.                            *)
LEMMA StepsOfPlan ==
  ASSUME IInv, NEW r \in Run, NEW action, CarryOut(r, action)
  PROVE  /\ r \in dispatched
         /\ PlanSound' <=> \A s \in dispatched :
              <<"reclaim_and_requeue", s>> \in plan' =>
                 s \notin completed' /\ lease'[s] = "active" /\ s \in overdue' /\ s[2] < MaxAttempts
         /\ \A s \in dispatched : <<"reclaim_and_requeue", s>> \in plan' => s # r
         /\ plan' \subseteq Action \X dispatched'
<1>0. TypeOK /\ PlanSound
  BY DEF IInv
<1>1. <<action, r>> \in plan /\ plan' = plan \ {<<action, r>>} /\ dispatched' = dispatched
  BY DEF CarryOut
<1>2. r \in dispatched /\ plan' \subseteq Action \X dispatched'
  BY <1>0, <1>1 DEF TypeOK
<1>3. \A s \in dispatched : <<"reclaim_and_requeue", s>> \in plan' => s # r
  <2> SUFFICES ASSUME <<"reclaim_and_requeue", r>> \in plan' PROVE FALSE
    OBVIOUS
  <2>1. <<"reclaim_and_requeue", r>> = <<action, r>>
    BY <1>0, <1>1 DEF PlanSound
  <2> QED
    BY <1>1, <2>1
<1>4. /\ \A s, t \in plan' : s[2] = t[2] => s = t
      /\ \A s \in dispatched : <<"reclaim_and_requeue", s>> \in plan' => s[1] \notin External
      /\ fresh' /\ dispatched' = dispatched
  BY <1>0, <1>1 DEF PlanSound, CarryOut
<1> QED
  BY <1>2, <1>3, <1>4 DEF PlanSound

(* A step of the plan that does not reclaim: it may end the lease of its   *)
(* run, finish it and settle its package.                                  *)
LEMMA OtherStep ==
  ASSUME IInv, NEW r \in Run, NEW action, CarryOut(r, action), attempt' = attempt,
         NEW status \in {"active", "released", "expired", "revoked"},
         status = "active" => lease[r] = "active",
         lease' = [lease EXCEPT ![r] = status] \/ lease' = lease,
         completed' = completed \cup {r} \/ completed' = completed,
         phase' \in [Package -> {"queued", "running", "done", "escalated"}],
         observed' \in [Package -> {"unknown", "succeeded", "absent"}]
  PROVE  IInv'
<1>0. TypeOK /\ LeasesDispatched /\ OlderExpired /\ ExternalOnce /\ PlanSound
  BY DEF IInv
<1>1. /\ r \in dispatched /\ plan' \subseteq Action \X dispatched'
      /\ UNCHANGED <<dispatched, overdue, worker, effects, fresh>>
  BY StepsOfPlan DEF CarryOut
<1>2. \A s \in Run : lease'[s] = lease[s] \/ (s = r /\ lease'[s] = status)
  BY <1>0 DEF TypeOK
<1>3. TypeOK'
  <2>1. lease' \in [Run -> {"none", "active", "released", "expired", "revoked"}]
    BY <1>0 DEF TypeOK
  <2>2. overdue' \subseteq {s \in dispatched' : lease'[s] # "none"}
    BY <1>0, <1>1, <1>2 DEF TypeOK
  <2>3. completed' \subseteq dispatched'
    BY <1>0, <1>1 DEF TypeOK
  <2> QED
    BY <1>0, <1>1, <2>1, <2>2, <2>3 DEF TypeOK
<1>4. LeasesDispatched'
  BY <1>0, <1>1, <1>2 DEF LeasesDispatched
<1>5. OlderExpired'
  BY <1>0, <1>1, <1>2 DEF OlderExpired, TypeOK
<1>6. ExternalOnce'
  BY <1>0, <1>1 DEF ExternalOnce
<1>7. PlanSound'
  <2>1. ASSUME NEW s \in dispatched, <<"reclaim_and_requeue", s>> \in plan'
        PROVE  s \notin completed' /\ lease'[s] = "active" /\ s \in overdue' /\ s[2] < MaxAttempts
    <3>1. s # r /\ <<"reclaim_and_requeue", s>> \in plan /\ fresh /\ s \in Run
      BY <1>0, <2>1, StepsOfPlan DEF CarryOut, TypeOK
    <3> QED
      BY <1>0, <1>1, <1>2, <3>1 DEF PlanSound
  <2> QED
    BY <2>1, StepsOfPlan
<1> QED
  BY <1>3, <1>4, <1>5, <1>6, <1>7 DEF IInv

(* What a reclaimed run is.                                                *)
LEMMA ReclaimedIsLatest ==
  ASSUME IInv, NEW r \in Run, Reclaim(r)
  PROVE  /\ r \in dispatched \ completed /\ r \in overdue /\ lease[r] = "active"
         /\ Latest(r) /\ r[2] + 1 \in Attempt /\ r[2] + 1 <= MaxAttempts
         /\ r[1] \in Package \ External
<1>0. TypeOK /\ OlderExpired /\ PlanSound
  BY DEF IInv
<1>1. r \in dispatched /\ fresh /\ <<"reclaim_and_requeue", r>> \in plan
  BY StepsOfPlan DEF Reclaim, CarryOut
<1>2. /\ r \notin completed /\ r \in overdue /\ lease[r] = "active" /\ r[2] < MaxAttempts
      /\ r[1] \notin External
  BY <1>0, <1>1 DEF PlanSound
<1>3. r[1] \in Package /\ r[2] \in Attempt /\ attempt[r[1]] \in Attempt
  BY <1>0, RunPairs DEF TypeOK
<1>4. Latest(r)
  <2>1. r[2] <= attempt[r[1]] /\ ~(r[2] < attempt[r[1]])
    BY <1>0, <1>1, <1>2 DEF OlderExpired
  <2>2. r[2] \in Nat /\ attempt[r[1]] \in Nat
    BY <1>3, Attempts
  <2> QED
    BY <2>1, <2>2 DEF Latest
<1> QED
  BY <1>1, <1>2, <1>3, <1>4, Attempts DEF Attempt

LEMMA ReclaimStep ==
  ASSUME IInv, NEW r \in Run, Reclaim(r)
  PROVE  IInv'
<1>0. TypeOK /\ LeasesDispatched /\ OlderExpired /\ ExternalOnce /\ PlanSound
  BY DEF IInv
<1>1. /\ r \in dispatched /\ plan' \subseteq Action \X dispatched'
      /\ UNCHANGED <<dispatched, overdue, worker, effects, fresh, completed, observed>>
  BY StepsOfPlan DEF CarryOut, Reclaim
<1>2. /\ r \in overdue /\ lease[r] = "active" /\ r[2] = attempt[r[1]]
      /\ r[2] + 1 \in Attempt /\ r[2] \in Nat /\ r[1] \in Package \ External
  BY ReclaimedIsLatest, RunPairs, Attempts DEF Latest
<1>3. \A s \in Run : lease'[s] = IF s = r THEN "expired" ELSE lease[s]
  BY <1>0 DEF TypeOK, Reclaim
<1>4. \A p \in Package : attempt'[p] = IF p = r[1] THEN r[2] + 1 ELSE attempt[p]
  BY <1>0 DEF TypeOK, Reclaim
<1>5. TypeOK'
  <2>1. lease' \in [Run -> {"none", "active", "released", "expired", "revoked"}]
    BY <1>0 DEF TypeOK, Reclaim
  <2>2. attempt' \in [Package -> Attempt] /\ phase' \in [Package -> {"queued", "running", "done", "escalated"}]
    BY <1>0, <1>2 DEF TypeOK, Reclaim, Settle
  <2>3. overdue' \subseteq {s \in dispatched' : lease'[s] # "none"}
    BY <1>0, <1>1, <1>3 DEF TypeOK
  <2> QED
    BY <1>0, <1>1, <2>1, <2>2, <2>3 DEF TypeOK
<1>6. LeasesDispatched'
  BY <1>0, <1>1, <1>3 DEF LeasesDispatched
<1>7. OlderExpired'
  <2> SUFFICES ASSUME NEW s \in dispatched
               PROVE  /\ s[2] <= attempt'[s[1]]
                      /\ s[2] < attempt'[s[1]] => s \in overdue /\ lease'[s] \notin {"none", "active"}
    BY <1>1 DEF OlderExpired
  <2>1. s \in Run /\ s[1] \in Package /\ s[2] \in Nat /\ s = <<s[1], s[2]>> /\ r = <<r[1], r[2]>>
    BY <1>0, RunPairs, Attempts DEF TypeOK
  <2>2. s[2] <= attempt[s[1]] /\ (s[2] < attempt[s[1]] => s \in overdue /\ lease[s] \notin {"none", "active"})
    BY <1>0 DEF OlderExpired
  <2>3. attempt[s[1]] \in Nat
    BY <1>0, <2>1, Attempts DEF TypeOK
  <2> QED
    BY <1>2, <1>3, <1>4, <2>1, <2>2, <2>3
<1>8. ExternalOnce'
  BY <1>0, <1>1, <1>2, <1>4 DEF ExternalOnce
<1>9. PlanSound'
  <2>0. CarryOut(r, "reclaim_and_requeue")
    BY DEF Reclaim
  <2>1. ASSUME NEW s \in dispatched, <<"reclaim_and_requeue", s>> \in plan'
        PROVE  s \notin completed' /\ lease'[s] = "active" /\ s \in overdue' /\ s[2] < MaxAttempts
    <3>1. s # r /\ <<"reclaim_and_requeue", s>> \in plan /\ fresh /\ s \in Run
      BY <1>0, <2>0, <2>1, StepsOfPlan DEF CarryOut, TypeOK
    <3> QED
      BY <1>0, <1>1, <1>3, <3>1 DEF PlanSound
  <2> QED
    BY <2>0, <2>1, StepsOfPlan
<1> QED
  BY <1>5, <1>6, <1>7, <1>8, <1>9 DEF IInv

(* A step of one run that changes neither attempts nor plan.               *)
LEMMA RunStep ==
  ASSUME IInv, NEW r \in Run, r \in dispatched,
         UNCHANGED <<attempt, dispatched, observed, plan>>,
         phase' \in [Package -> {"queued", "running", "done", "escalated"}],
         completed' = completed \/ (completed' = completed \cup {r} /\ ~fresh'),
         NEW l \in {"active", "released", "expired", "revoked"}, NEW w \in {"working", "acted", "gone"},
         \/ lease' = lease /\ lease[r] # "none"
         \/ lease' = [lease EXCEPT ![r] = l] /\ lease[r] \in {"none", "active"} /\ ~fresh',
         \/ worker' = worker
         \/ worker' = [worker EXCEPT ![r] = w] /\ (w = "working" => worker[r] = "none"),
         effects' = effects,
         overdue' = overdue \/ overdue' = overdue \cup {r}
           \/ (overdue' = overdue \ {r} /\ lease[r] = "active" /\ ~fresh'),
         fresh' = fresh \/ fresh' = FALSE
  PROVE  IInv'
<1>0. TypeOK /\ LeasesDispatched /\ OlderExpired /\ ExternalOnce /\ PlanSound
  BY DEF IInv
<1>1. \A s \in Run : lease'[s] = lease[s] \/ (s = r /\ lease'[s] = l /\ lease[s] \in {"none", "active"})
  BY <1>0 DEF TypeOK
<1>2. \A s \in Run : worker'[s] = worker[s]
                       \/ (s = r /\ worker'[s] = w /\ (w = "working" => worker[s] = "none"))
  BY <1>0 DEF TypeOK
<1>3. lease'[r] # "none"
  BY <1>0 DEF TypeOK
<1>4. TypeOK'
  <2>1. lease' \in [Run -> {"none", "active", "released", "expired", "revoked"}]
    BY <1>0 DEF TypeOK
  <2>2. worker' \in [Run -> {"none", "working", "acted", "gone"}]
    BY <1>0 DEF TypeOK
  <2>3. overdue' \subseteq {s \in dispatched' : lease'[s] # "none"}
    BY <1>0, <1>1, <1>3 DEF TypeOK
  <2> QED
    BY <1>0, <2>1, <2>2, <2>3 DEF TypeOK
<1>5. LeasesDispatched'
  BY <1>0, <1>1, <1>2, <1>3 DEF LeasesDispatched
<1>6. OlderExpired'
  <2> SUFFICES ASSUME NEW s \in dispatched, s[2] < attempt[s[1]]
               PROVE  s \in overdue' /\ lease'[s] \notin {"none", "active"}
    BY <1>0 DEF OlderExpired
  <2>1. s \in overdue /\ lease[s] \notin {"none", "active"} /\ s \in Run
    BY <1>0 DEF OlderExpired, TypeOK
  <2> QED
    BY <1>1, <2>1
<1>7. ExternalOnce'
  <2>1. ASSUME NEW p \in Package, worker[<<p, 1>>] \in {"acted", "gone"}
        PROVE  worker'[<<p, 1>>] \in {"acted", "gone"}
    <3>1. <<p, 1>> \in Run
      BY RunPairs, Attempts
    <3> QED
      BY <1>2, <2>1, <3>1
  <2> QED
    BY <1>0, <2>1 DEF ExternalOnce
<1>8. PlanSound'
  <2>1. \A s \in dispatched : fresh' /\ <<"reclaim_and_requeue", s>> \in plan =>
          s \notin completed' /\ lease'[s] = "active" /\ s \in overdue' /\ s[2] < MaxAttempts
    BY <1>0 DEF PlanSound
  <2> QED
    BY <1>0, <2>1 DEF PlanSound
<1> QED
  BY <1>4, <1>5, <1>6, <1>7, <1>8 DEF IInv

(* The effect: the package has this one run, and its worker has not acted. *)
LEMMA EffectStep ==
  ASSUME IInv, NEW r \in Run, Effect(r)
  PROVE  IInv'
<1>0. TypeOK /\ LeasesDispatched /\ OlderExpired /\ ExternalOnce /\ PlanSound
  BY DEF IInv
<1>1. PICK p \in Package, i \in Attempt : r = <<p, i>> /\ r[1] = p /\ r[2] = i
  BY RunPairs
<1>2. p \in External /\ worker[r] = "working" /\ r \in dispatched
  BY <1>0, <1>1 DEF Effect, LeasesDispatched
<1>3. i = 1
  <2>1. attempt[p] = 1
    BY <1>0, <1>2 DEF ExternalOnce
  <2>2. i <= attempt[p]
    BY <1>0, <1>1, <1>2 DEF OlderExpired
  <2> QED
    BY <2>1, <2>2, Attempts DEF Attempt
<1>4. effects[p] = 0
  BY <1>0, <1>1, <1>2, <1>3 DEF ExternalOnce
<1>5. \A s \in Run : worker'[s] = IF s = r THEN "acted" ELSE worker[s]
  BY <1>0 DEF TypeOK, Effect
<1>6. \A q \in Package : effects'[q] = IF q = p THEN 1 ELSE effects[q]
  BY <1>0, <1>1, <1>4 DEF TypeOK, Effect
<1>7. TypeOK'
  <2>1. effects' \in [Package -> Nat] /\ worker' \in [Run -> {"none", "working", "acted", "gone"}]
    BY <1>0, <1>1, <1>4 DEF TypeOK, Effect
  <2> QED
    BY <1>0, <2>1 DEF TypeOK, Effect
<1>8. LeasesDispatched' /\ OlderExpired' /\ PlanSound'
  BY <1>0, <1>2, <1>5 DEF LeasesDispatched, OlderExpired, PlanSound, Effect
<1>9. ExternalOnce'
  <2> SUFFICES ASSUME NEW q \in Package
               PROVE  /\ q \in External => attempt[q] = 1
                      /\ q \notin External => effects'[q] = 0
                      /\ effects'[q] = 0 \/ (effects'[q] = 1 /\ worker'[<<q, 1>>] \in {"acted", "gone"})
    BY DEF ExternalOnce, Effect
  <2>1. <<q, 1>> \in Run
    BY RunPairs, Attempts
  <2>2. CASE q = p
    BY <1>0, <1>1, <1>2, <1>3, <1>5, <1>6, <2>2, <2>1 DEF ExternalOnce
  <2>3. CASE q # p
    <3>1. <<q, 1>> # r
      BY <1>1, <2>3
    <3> QED
      BY <1>0, <1>2, <1>5, <1>6, <2>1, <2>3, <3>1 DEF ExternalOnce
  <2> QED
    BY <2>2, <2>3
<1> QED
  BY <1>7, <1>8, <1>9 DEF IInv

(* A plan just made has one step for a run, and reclaims only what has the *)
(* grounds for it.                                                         *)
LEMMA PlanStep ==
  ASSUME IInv, MakePlan
  PROVE  IInv'
<1>0. TypeOK /\ LeasesDispatched /\ OlderExpired /\ ExternalOnce /\ PlanSound
  BY DEF IInv
<1>1. /\ plan' = {<<ActionFor(r), r>> : r \in {x \in dispatched : ActionFor(x) # "none"}}
      /\ fresh' = TRUE
      /\ UNCHANGED <<phase, attempt, dispatched, completed, lease, overdue, worker, effects, observed>>
  BY DEF MakePlan
<1>2. \A r \in dispatched : ActionFor(r) \in Action \cup {"none"}
  BY DEF ActionFor, ExpiredAction, Action
<1>3. TypeOK'
  BY <1>0, <1>1, <1>2 DEF TypeOK
<1>4. LeasesDispatched' /\ OlderExpired' /\ ExternalOnce'
  BY <1>0, <1>1 DEF LeasesDispatched, OlderExpired, ExternalOnce
<1>5. ASSUME NEW r \in dispatched, ActionFor(r) = "reclaim_and_requeue"
      PROVE  /\ r[1] \notin External
             /\ r \notin completed /\ lease[r] = "active" /\ r \in overdue /\ r[2] < MaxAttempts
  <2>1. r \notin completed /\ lease[r] = "active" /\ r \in overdue
        /\ ExpiredAction(r) = "reclaim_and_requeue"
    BY <1>5 DEF ActionFor
  <2>2. r[2] \in Nat /\ MaxAttempts \in Nat
    BY <1>0, RunPairs, Attempts DEF TypeOK
  <2> QED
    BY <2>1, <2>2 DEF ExpiredAction
<1>6. \A r \in dispatched : <<"reclaim_and_requeue", r>> \in plan' => ActionFor(r) = "reclaim_and_requeue"
  BY <1>1
<1>7. \A s, t \in plan' : s[2] = t[2] => s = t
  BY <1>1
<1>8. PlanSound'
  BY <1>1, <1>5, <1>6, <1>7 DEF PlanSound
<1> QED
  BY <1>3, <1>4, <1>8 DEF IInv

LEMMA NextIInv == IInv /\ [Next]_vars => IInv'
<1> SUFFICES ASSUME IInv, [Next]_vars PROVE IInv'
  OBVIOUS
<1>0. TypeOK /\ LeasesDispatched /\ OlderExpired /\ ExternalOnce /\ PlanSound
  BY DEF IInv
<1>1. ASSUME NEW p \in Package, Dispatch(p) PROVE IInv'
  <2> DEFINE r == <<p, attempt[p]>>
  <2>1. r \in Run /\ r[1] = p /\ r[2] = attempt[p] /\ attempt[p] \in Nat
    BY <1>0, RunPairs, Attempts DEF TypeOK
  <2>2. dispatched' = dispatched \cup {r}
    BY <1>1 DEF Dispatch
  <2> HIDE DEF r
  <2>3. TypeOK'
    BY <1>0, <1>1, <2>1, <2>2 DEF TypeOK, Dispatch, NewEvent
  <2>4. LeasesDispatched' /\ ExternalOnce'
    BY <1>0, <1>1, <2>2 DEF LeasesDispatched, ExternalOnce, Dispatch
  <2>5. OlderExpired'
    BY <1>0, <1>1, <2>1, <2>2 DEF OlderExpired, Dispatch
  <2>6. PlanSound'
    BY <1>0, <1>1 DEF PlanSound, TypeOK, Dispatch, NewEvent
  <2> QED
    BY <2>3, <2>4, <2>5, <2>6 DEF IInv
<1>2. ASSUME NEW r \in Run, Invoke(r) PROVE IInv'
  <2>1. worker[r] = "none" /\ phase' \in [Package -> {"queued", "running", "done", "escalated"}]
    BY <1>0, <1>2 DEF LeasesDispatched, Invoke, TypeOK
  <2> QED
    BY <1>2, <2>1, RunStep DEF Invoke, NewEvent
<1>3. ASSUME NEW r \in Run, Effect(r) PROVE IInv'
  BY <1>3, EffectStep
<1>4. ASSUME NEW r \in Run, Heartbeat(r) PROVE IInv'
  <2>1. r \in dispatched /\ phase' \in [Package -> {"queued", "running", "done", "escalated"}]
    BY <1>0, <1>4 DEF LeasesDispatched, Heartbeat, TypeOK
  <2> QED
    BY <1>4, <2>1, RunStep DEF Heartbeat, NewEvent
<1>5. ASSUME NEW r \in Run, Complete(r) PROVE IInv'
  <2>1. r \in dispatched /\ lease[r] # "none"
    BY <1>0, <1>5 DEF LeasesDispatched, Complete, Busy
  <2>2. phase' \in [Package -> {"queued", "running", "done", "escalated"}]
    BY <1>0, <1>5, RunPairs DEF Complete, TypeOK
  <2> QED
    BY <1>5, <2>1, <2>2, RunStep DEF Complete, NewEvent
<1>6. ASSUME NEW r \in Run, Release(r) PROVE IInv'
  <2>1. r \in dispatched /\ phase' \in [Package -> {"queued", "running", "done", "escalated"}]
    BY <1>0, <1>6 DEF Release, TypeOK
  <2> QED
    BY <1>6, <2>1, RunStep DEF Release, NewEvent
<1>7. ASSUME NEW r \in Run, Stop(r) PROVE IInv'
  <2>1. r \in dispatched /\ lease[r] # "none" /\ phase' \in [Package -> {"queued", "running", "done", "escalated"}]
    BY <1>0, <1>7 DEF LeasesDispatched, Stop, Busy, TypeOK
  <2> QED
    BY <1>7, <2>1, RunStep DEF Stop
<1>8. ASSUME NEW r \in Run, Expire(r) PROVE IInv'
  <2>1. r \in dispatched /\ phase' \in [Package -> {"queued", "running", "done", "escalated"}]
    BY <1>0, <1>8 DEF LeasesDispatched, Expire, TypeOK
  <2> QED
    BY <1>8, <2>1, RunStep DEF Expire
<1>9. ASSUME NEW r \in Run, Recover(r) PROVE IInv'
  <2>1. \A status : Settle(r, status) = phase \/ Settle(r, status) = [phase EXCEPT ![r[1]] = status]
    BY DEF Settle
  <2>2. Settle(r, "done") \in [Package -> {"queued", "running", "done", "escalated"}]
        /\ Settle(r, "escalated") \in [Package -> {"queued", "running", "done", "escalated"}]
    BY <1>0, <2>1 DEF TypeOK
  <2>3. /\ phase \in [Package -> {"queued", "running", "done", "escalated"}]
        /\ observed \in [Package -> {"unknown", "succeeded", "absent"}]
    BY <1>0 DEF TypeOK
  <2>4. CASE Wait(r)
    BY <2>3, <2>4, OtherStep DEF Wait
  <2>5. CASE Reclaim(r)
    BY <2>5, ReclaimStep
  <2>6. CASE Verify(r)
    <3>1. observed' \in [Package -> {"unknown", "succeeded", "absent"}]
      BY <2>3, <2>6 DEF Verify
    <3> QED
      BY <2>3, <2>6, <3>1, OtherStep DEF Verify
  <2>7. CASE Reconcile(r)
    BY <2>2, <2>3, <2>7, OtherStep DEF Reconcile
  <2>8. CASE Orphan(r)
    <3>1. lease' = [lease EXCEPT ![r] = "revoked"] \/ lease' = lease
      BY <1>0, <2>8 DEF Orphan, TypeOK
    <3> QED
      BY <2>2, <2>3, <2>8, <3>1, OtherStep DEF Orphan
  <2>9. CASE Escalate(r)
    BY <2>2, <2>3, <2>9, OtherStep DEF Escalate
  <2> QED
    BY <1>9, <2>4, <2>5, <2>6, <2>7, <2>8, <2>9 DEF Recover
<1>10. CASE MakePlan
  BY <1>10, PlanStep
<1>11. CASE Discard
  <2>1. TypeOK'
    BY <1>0, <1>11 DEF TypeOK, Discard
  <2> QED
    BY <1>0, <1>11, <2>1
       DEF IInv, LeasesDispatched, OlderExpired, ExternalOnce, PlanSound, Discard
<1>12. CASE UNCHANGED vars
  BY <1>12 DEF vars, IInv, TypeOK, LeasesDispatched, OlderExpired, ExternalOnce, PlanSound
<1> QED
  BY <1>1, <1>2, <1>3, <1>4, <1>5, <1>6, <1>7, <1>8, <1>9, <1>10, <1>11, <1>12 DEF Next

LEMMA IInvHolds == Spec => []IInv
  BY InitIInv, NextIInv, PTL DEF Spec

-----------------------------------------------------------------------------
(* Every variable keeps its type; only a dispatched run is completed, is   *)
(* overdue or has a step in a plan.                                        *)
THEOREM TypeCorrect == Spec => []TypeOK
<1>1. IInv => TypeOK
  BY DEF IInv
<1> QED
  BY <1>1, IInvHolds, PTL

(* The external effect of a package happens at most once, whatever stops,  *)
(* hangs, returns late or is recovered by plan_recovery.                   *)
THEOREM EffectAtMostOnce == Spec => []EffectOnce
<1>1. IInv => EffectOnce
  <2> SUFFICES ASSUME IInv, NEW p \in Package PROVE effects[p] <= 1
    BY DEF EffectOnce
  <2>1. effects[p] = 0 \/ effects[p] = 1
    BY DEF IInv, ExternalOnce
  <2> QED
    BY <2>1
<1> QED
  BY <1>1, IInvHolds, PTL

(* Two runs of a package never work while both leases are in time.         *)
THEOREM UnexpiredNeverDuplicated == Spec => []UnexpiredNotDuplicated
<1>1. IInv => UnexpiredNotDuplicated
  <2> SUFFICES ASSUME IInv, NEW p \in Package, NEW i \in Attempt, NEW j \in Attempt,
                      i < j, Busy(<<p, i>>), Busy(<<p, j>>)
               PROVE  <<p, i>> \in overdue
    BY Attempts DEF UnexpiredNotDuplicated
  <2>1. <<p, i>> \in dispatched /\ <<p, j>> \in dispatched
    BY RunPairs DEF IInv, LeasesDispatched, Busy
  <2>2. j <= attempt[p] /\ attempt[p] \in Nat
    BY <2>1, RunPairs, Attempts DEF IInv, OlderExpired, TypeOK
  <2>3. i < attempt[p]
    BY <2>2, Attempts
  <2> QED
    BY <2>1, <2>3, RunPairs DEF IInv, OlderExpired
<1> QED
  BY <1>1, IInvHolds, PTL

(* Another attempt is started within the budget of attempts, and only if   *)
(* no completion of the one before is recorded.                            *)
THEOREM RetriesAlwaysNeeded == Spec => RetriesAreNeeded
<1>1. IInv /\ [Next]_vars =>
        [\A p \in Package : attempt'[p] # attempt[p] =>
           attempt'[p] <= MaxAttempts /\ <<p, attempt[p]>> \notin completed]_vars
  <2> SUFFICES ASSUME IInv, Next, NEW p \in Package, attempt'[p] # attempt[p]
               PROVE  attempt'[p] <= MaxAttempts /\ <<p, attempt[p]>> \notin completed
    BY DEF vars
  <2>1. PICK r \in Run : Reclaim(r)
    BY DEF Next, Dispatch, Invoke, Effect, Heartbeat, Complete, Release, Stop, Expire, MakePlan,
           Discard, Recover, Wait, Verify, Reconcile, Orphan, Escalate
  <2>2. r[1] = p /\ attempt'[p] = r[2] + 1
    BY <2>1 DEF Reclaim, IInv, TypeOK
  <2>3. r = <<p, attempt[p]>>
    BY <2>1, <2>2, ReclaimedIsLatest, RunPairs DEF Latest
  <2> QED
    BY <2>1, <2>2, <2>3, ReclaimedIsLatest
<1> QED
  BY <1>1, IInvHolds, PTL DEF Spec, RetriesAreNeeded

-----------------------------------------------------------------------------
(* Sequences of whatever they contain; one that continues another.         *)
IsSequence(h) == h \in Seq({h[i] : i \in DOMAIN h})
Extends(h, g) == Len(g) <= Len(h) /\ \A i \in 1..Len(g) : h[i] = g[i]

LEMMA SequenceOver ==
  ASSUME NEW S, NEW h \in Seq(S) PROVE IsSequence(h)
<1>1. Len(h) \in Nat /\ DOMAIN h = 1..Len(h) /\ h \in [1..Len(h) -> S]
  BY LenProperties
<1>2. h \in [1..Len(h) -> {h[i] : i \in DOMAIN h}]
  BY <1>1
<1> QED
  BY <1>1, <1>2, SeqDef DEF IsSequence

LEMMA SequenceIndices ==
  ASSUME NEW h, IsSequence(h) PROVE Len(h) \in Nat /\ DOMAIN h = 1..Len(h)
  BY LenProperties DEF IsSequence

LEMMA EmptySequence == IsSequence(<<>>) /\ Len(<<>>) = 0 /\ DOMAIN <<>> = {}
<1>1. \A S : <<>> \in Seq(S)
  BY EmptySeq
<1> QED
  BY <1>1 DEF IsSequence

LEMMA AppendSequence ==
  ASSUME NEW h, IsSequence(h), NEW e
  PROVE  /\ IsSequence(Append(h, e))
         /\ Len(Append(h, e)) = Len(h) + 1
         /\ DOMAIN Append(h, e) = 1..Len(h) + 1
         /\ \A i \in 1..Len(h) : Append(h, e)[i] = h[i]
         /\ Append(h, e)[Len(h) + 1] = e
         /\ Extends(Append(h, e), h)
<1> DEFINE T == {h[i] : i \in DOMAIN h} \cup {e}
<1>1. h \in Seq(T) /\ e \in T
  BY SeqMonotonic DEF IsSequence
<1> HIDE DEF T
<1>2. /\ Append(h, e) \in Seq(T)
      /\ Len(Append(h, e)) = Len(h) + 1
      /\ \A i \in 1..Len(h) : Append(h, e)[i] = h[i]
      /\ Append(h, e)[Len(h) + 1] = e
  BY <1>1, AppendProperties
<1>3. IsSequence(Append(h, e))
  BY <1>2, SequenceOver
<1>4. Len(h) \in Nat /\ DOMAIN Append(h, e) = 1..Len(Append(h, e))
  BY <1>3, SequenceIndices
<1>5. Extends(Append(h, e), h)
  BY <1>2, <1>4 DEF Extends
<1> QED
  BY <1>2, <1>3, <1>4, <1>5

LEMMA ExtendsReflexive ==
  ASSUME NEW h, IsSequence(h) PROVE Extends(h, h)
  BY SequenceIndices DEF Extends

LEMMA ExtendsTransitive ==
  ASSUME NEW f, NEW g, NEW h, IsSequence(f), IsSequence(g), IsSequence(h),
         Extends(h, g), Extends(g, f)
  PROVE  Extends(h, f)
<1>1. Len(f) \in Nat /\ Len(g) \in Nat /\ Len(h) \in Nat
  BY SequenceIndices
<1> QED
  BY <1>1 DEF Extends

(* The library's prefix relation: subsequences are compared.               *)
LEMMA ExtendsIsPrefix ==
  ASSUME NEW g, NEW h, IsSequence(g), IsSequence(h), Extends(h, g)
  PROVE  Len(g) <= Len(h) /\ SubSeq(g, 1, Len(g)) = SubSeq(h, 1, Len(g))
<1> DEFINE T == {g[i] : i \in DOMAIN g}
           n == Len(g)
           a == SubSeq(g, 1, n)
           b == SubSeq(h, 1, n)
<1>1. n \in Nat /\ DOMAIN g = 1..n
  BY SequenceIndices
<1>2. \A i \in 1..n : g[i] \in T /\ h[i] \in T /\ h[i] = g[i]
  BY <1>1 DEF Extends
<1> HIDE DEF T, n
<1>3. a \in Seq(T) /\ Len(a) = n /\ \A i \in 1..n : a[i] = g[i]
  BY <1>1, <1>2, SubSeqProperties
<1>4. b \in Seq(T) /\ Len(b) = n /\ \A i \in 1..n : b[i] = h[i]
  BY <1>1, <1>2, SubSeqProperties
<1>5. \A i \in 1..Len(a) : a[i] = b[i]
  BY <1>2, <1>3, <1>4
<1> HIDE DEF a, b
<1>6. a = b
  BY <1>3, <1>4, <1>5, SeqEqual
<1> QED
  BY <1>6 DEF Extends, a, b, n

-----------------------------------------------------------------------------
(* The event history.                                                      *)

(* An event has eight fields and no other.  Two events are alike when      *)
(* nothing but their content can differ.                                   *)
IsEvent(e) ==
  e = [id |-> e.id, key |-> e.key, project |-> e.project, cause |-> e.cause,
       content |-> e.content, sequence |-> e.sequence, previous |-> e.previous,
       hash |-> e.hash]
Alike(e, f) ==
  /\ e.id = f.id /\ e.key = f.key /\ e.project = f.project /\ e.cause = f.cause
  /\ e.sequence = f.sequence /\ e.previous = f.previous /\ e.hash = f.hash

IsHistory(h) == IsSequence(h) /\ \A i \in DOMAIN h : IsEvent(h[i])

PerSession(f) == f = [s \in Session |-> f[s]]
Holding(h, draft) == \E i \in DOMAIN h : DraftOf(h[i]) = draft

(* What a session with a given script has: it extends in memory the        *)
(* history it loaded, which then verifies if the loaded one did, and holds *)
(* every draft it was answered for; only a refused session has a refusal,  *)
(* and not of a draft its history holds.                                   *)
Held(script, loaded, held, n, status, answered) ==
  /\ IsHistory(loaded) /\ IsHistory(held) /\ Extends(held, loaded)
  /\ n \in 0..Len(script)
  /\ answered \in Seq({"appended", "existing", "refused"})
  /\ Verifies(loaded) => Verifies(held)
  /\ status = "open" =>
       /\ Len(answered) = n
       /\ n > 0 => Verifies(held)
       /\ \A i \in 1..n : Holding(held, script[i])
  /\ \A i \in DOMAIN answered : answered[i] = "refused" =>
       status = "halted" /\ (Verifies(loaded) => ~Holding(held, script[i]))

(* The inductive invariant: only histories that verify are stored; what is *)
(* stored is made of events of the last one, whose content alone may be    *)
(* altered; without damage it is that one and holds what was acknowledged. *)
LogInv ==
  /\ IsHistory(stored) /\ IsHistory(written) /\ Verifies(written)
  /\ \A i \in DOMAIN stored : \E j \in DOMAIN written : Alike(stored[i], written[j])
  /\ faults \in Nat
  /\ faults = 0 => stored = written /\ \A d \in acked : Holding(stored, d)
  /\ PerSession(base) /\ PerSession(local) /\ PerSession(step)
  /\ PerSession(state) /\ PerSession(answers)
  /\ \A s \in Session : Held(Script[s], base[s], local[s], step[s], state[s], answers[s])

LEMMA HistoryOver ==
  ASSUME NEW S, NEW h \in Seq(S), \A x \in S : IsEvent(x)
  PROVE  IsHistory(h)
<1>1. \A i \in DOMAIN h : h[i] \in S
  BY LenProperties
<1> QED
  BY <1>1, SequenceOver DEF IsHistory

LEMMA HistoryIndices ==
  ASSUME NEW h, IsHistory(h)
  PROVE  /\ Len(h) \in Nat /\ DOMAIN h = 1..Len(h)
         /\ \A i \in 1..Len(h) : IsEvent(h[i])
  BY SequenceIndices DEF IsHistory

LEMMA EmptyHistory == IsHistory(<<>>) /\ Verifies(<<>>)
  BY EmptySequence DEF IsHistory, Verifies

LEMMA AppendHistory ==
  ASSUME NEW h, IsHistory(h), NEW e, IsEvent(e)
  PROVE  IsHistory(Append(h, e))
<1>1. /\ IsSequence(Append(h, e)) /\ DOMAIN Append(h, e) = 1..Len(h) + 1 /\ Len(h) \in Nat
      /\ \A i \in 1..Len(h) : Append(h, e)[i] = h[i]
      /\ Append(h, e)[Len(h) + 1] = e
  BY AppendSequence, HistoryIndices DEF IsHistory
<1>2. ASSUME NEW i \in 1..Len(h) + 1 PROVE IsEvent(Append(h, e)[i])
  <2>1. CASE i = Len(h) + 1
    BY <1>1, <2>1
  <2>2. CASE i \in 1..Len(h)
    BY <1>1, <2>2, HistoryIndices
  <2> QED
    BY <1>1, <2>1, <2>2
<1> QED
  BY <1>1, <1>2 DEF IsHistory

(* An alteration leaves an event whole, and all but its content.           *)
LEMMA AlteredEvent ==
  ASSUME NEW e, IsEvent(e), NEW f \in Altered(e)
  PROVE  IsEvent(f) /\ Alike(f, e)
<1>1. PICK c : f = [e EXCEPT !.content = c]
  BY DEF Altered
<1>2. e = [id |-> e.id, key |-> e.key, project |-> e.project, cause |-> e.cause,
           content |-> e.content, sequence |-> e.sequence, previous |-> e.previous,
           hash |-> e.hash]
  BY DEF IsEvent
<1>3. f = [id |-> e.id, key |-> e.key, project |-> e.project, cause |-> e.cause,
           content |-> c, sequence |-> e.sequence, previous |-> e.previous,
           hash |-> e.hash]
  BY <1>1, <1>2
<1>4. /\ f.id = e.id /\ f.key = e.key /\ f.project = e.project /\ f.cause = e.cause
      /\ f.content = c /\ f.sequence = e.sequence /\ f.previous = e.previous
      /\ f.hash = e.hash
  BY <1>3
<1> QED
  BY <1>3, <1>4 DEF IsEvent, Alike

(* A sequence over the events of a history and their alterations is one    *)
(* the history's events can be found in.                                   *)
Variants(h) == {h[i] : i \in DOMAIN h} \cup UNION {Altered(h[i]) : i \in DOMAIN h}

LEMMA OverVariants ==
  ASSUME NEW h, IsHistory(h), NEW g \in Seq(Variants(h))
  PROVE  IsHistory(g) /\ \A i \in DOMAIN g : \E j \in DOMAIN h : Alike(g[i], h[j])
<1>1. ASSUME NEW x \in Variants(h) PROVE IsEvent(x) /\ \E j \in DOMAIN h : Alike(x, h[j])
  <2>1. CASE x \in {h[i] : i \in DOMAIN h}
    BY <2>1 DEF IsHistory, Alike
  <2>2. CASE x \in UNION {Altered(h[i]) : i \in DOMAIN h}
    <3>1. PICK j \in DOMAIN h : x \in Altered(h[j])
      BY <2>2
    <3>2. IsEvent(h[j])
      BY DEF IsHistory
    <3> QED
      BY <3>1, <3>2, AlteredEvent
  <2> QED
    BY <2>1, <2>2 DEF Variants
<1>2. IsHistory(g)
  BY <1>1, HistoryOver
<1>3. \A i \in DOMAIN g : g[i] \in Variants(h)
  BY LenProperties
<1> QED
  BY <1>1, <1>2, <1>3

LEMMA DamagedIsTraced ==
  ASSUME NEW h, IsHistory(h), NEW g \in Damaged(h)
  PROVE  IsHistory(g) /\ \A i \in DOMAIN g : \E j \in DOMAIN h : Alike(g[i], h[j])
<1>1. /\ Len(h) \in Nat /\ DOMAIN h = 1..Len(h)
      /\ \A i \in 1..Len(h) : IsEvent(h[i])
  BY HistoryIndices
<1>2. \A i \in 1..Len(h) : h[i] \in Variants(h) /\ Altered(h[i]) \subseteq Variants(h)
  BY <1>1 DEF Variants
<1>3. h \in Seq(Variants(h))
  BY SeqMonotonic DEF IsHistory, IsSequence, Variants
<1>4. \A m, n \in Int : 1 <= m /\ n <= Len(h) => SubSeq(h, m, n) \in Seq(Variants(h))
  <2> SUFFICES ASSUME NEW m \in Int, NEW n \in Int, 1 <= m, n <= Len(h)
               PROVE  SubSeq(h, m, n) \in Seq(Variants(h))
    OBVIOUS
  <2>1. \A i \in m..n : h[i] \in Variants(h)
    BY <1>1, <1>2
  <2> QED
    BY <2>1, SubSeqProperties
<1>5. CASE g \in {RemoveAt(h, i) : i \in DOMAIN h}
  <2>1. PICK i \in 1..Len(h) : g = SubSeq(h, 1, i - 1) \o SubSeq(h, i + 1, Len(h))
    BY <1>1, <1>5 DEF RemoveAt
  <2>2. SubSeq(h, 1, i - 1) \in Seq(Variants(h)) /\ SubSeq(h, i + 1, Len(h)) \in Seq(Variants(h))
    BY <1>1, <1>4
  <2>3. g \in Seq(Variants(h))
    BY <2>1, <2>2, ConcatProperties
  <2> QED
    BY <2>3, OverVariants
<1>6. CASE g \in {InsertAt(h, i, h[i]) : i \in DOMAIN h}
  <2>1. PICK i \in 1..Len(h) : g = SubSeq(h, 1, i - 1) \o <<h[i]>> \o SubSeq(h, i, Len(h))
    BY <1>1, <1>6 DEF InsertAt
  <2>2. SubSeq(h, 1, i - 1) \in Seq(Variants(h)) /\ SubSeq(h, i, Len(h)) \in Seq(Variants(h))
    BY <1>1, <1>4
  <2>3. <<h[i]>> \in Seq(Variants(h))
    <3>1. h[i] \in Variants(h)
      BY <1>2
    <3> QED
      BY <3>1
  <2>4. SubSeq(h, 1, i - 1) \o <<h[i]>> \in Seq(Variants(h))
    BY <2>2, <2>3, ConcatProperties
  <2>5. g \in Seq(Variants(h))
    BY <2>1, <2>2, <2>4, ConcatProperties
  <2> QED
    BY <2>5, OverVariants
<1>7. CASE g \in {[h EXCEPT ![i] = h[j], ![j] = h[i]] : i, j \in DOMAIN h}
  <2>1. PICK i \in 1..Len(h), j \in 1..Len(h) : g = [h EXCEPT ![i] = h[j], ![j] = h[i]]
    BY <1>1, <1>7
  <2>2. h[i] \in Variants(h) /\ h[j] \in Variants(h)
    BY <1>2
  <2>3. h \in [1..Len(h) -> Variants(h)]
    BY <1>3, LenProperties
  <2>4. g \in [1..Len(h) -> Variants(h)]
    BY <2>1, <2>2, <2>3
  <2>5. g \in Seq(Variants(h))
    BY <1>1, <2>4, SeqDef
  <2> QED
    BY <2>5, OverVariants
<1>8. CASE g \in UNION {{[h EXCEPT ![i] = e] : e \in Altered(h[i])} : i \in DOMAIN h}
  <2>1. PICK i \in 1..Len(h) : \E e \in Altered(h[i]) : g = [h EXCEPT ![i] = e]
    BY <1>1, <1>8
  <2>2. PICK e \in Altered(h[i]) : g = [h EXCEPT ![i] = e]
    BY <2>1
  <2>3. e \in Variants(h)
    BY <1>2
  <2>4. g \in Seq(Variants(h))
    BY <1>3, <2>2, <2>3, ExceptSeq
  <2> QED
    BY <2>4, OverVariants
<1> QED
  BY <1>5, <1>6, <1>7, <1>8 DEF Damaged

(* Without damage to contents, two events that verify under one digest are *)
(* one event: what the digest covers is all of it.                         *)
LEMMA DigestDetermines ==
  ASSUME NEW e, NEW f, IsEvent(e), IsEvent(f), e.hash = f.hash,
         e.hash = Digest(Body(e)), f.hash = Digest(Body(f))
  PROVE  e = f
<1>1. Body(e) = Body(f)
  <2>1. \A x : Digest(x).sha256 = x
    BY DEF Digest
  <2>2. Digest(Body(e)) = Digest(Body(f))
    OBVIOUS
  <2> QED
    BY <2>1, <2>2
<1>2. e.sequence = f.sequence /\ e.previous = f.previous /\ DraftOf(e) = DraftOf(f)
  BY <1>1 DEF Body
<1>3. /\ e.id = f.id /\ e.key = f.key /\ e.project = f.project
      /\ e.cause = f.cause /\ e.content = f.content
  BY <1>2 DEF DraftOf
<1> QED
  BY <1>2, <1>3 DEF IsEvent

(* The sealed event is whole and is its draft's.                           *)
LEMMA SealedEvent ==
  ASSUME NEW h, NEW d, DraftOf(d) = d
  PROVE  IsEvent(Sealed(h, d)) /\ DraftOf(Sealed(h, d)) = d
<1>1. IsEvent(Sealed(h, d))
  BY DEF IsEvent, Sealed
<1>2. DraftOf(Sealed(h, d)) = DraftOf(d)
  BY DEF DraftOf, Sealed
<1> QED
  BY <1>1, <1>2

(* The three answers of append_event.                                      *)
LEMMA AppendCases ==
  ASSUME NEW h, NEW d
  PROVE  \/ /\ AppendOutcome(h, d) = "refused" /\ AppendEvent(h, d) = h
            /\ Verifies(h) => ~Holding(h, d)
         \/ /\ AppendOutcome(h, d) = "existing" /\ AppendEvent(h, d) = h
            /\ Verifies(h) /\ Holding(h, d)
         \/ /\ AppendOutcome(h, d) = "appended"
            /\ AppendEvent(h, d) = Append(h, Sealed(h, d))
            /\ Verifies(Append(h, Sealed(h, d)))
<1>1. \A i \in DOMAIN h : DraftOf(h[i]) = d => i \in Recorded(h, d)
  BY DEF DraftOf, Recorded
<1>2. Recorded(h, d) \subseteq DOMAIN h
  BY DEF Recorded
<1>3. CASE ~Verifies(h)
  BY <1>3 DEF AppendOutcome, AppendEvent
<1>4. CASE Verifies(h) /\ Recorded(h, d) # {}
  <2>1. CASE Holding(h, d)
    <3>1. \E i \in Recorded(h, d) : DraftOf(h[i]) = d
      BY <1>1, <2>1 DEF Holding
    <3>2. AppendOutcome(h, d) = "existing"
      BY <1>4, <3>1 DEF AppendOutcome
    <3> QED
      BY <1>4, <2>1, <3>2 DEF AppendEvent
  <2>2. CASE ~Holding(h, d)
    <3>1. ~\E i \in Recorded(h, d) : DraftOf(h[i]) = d
      BY <1>2, <2>2 DEF Holding
    <3>2. AppendOutcome(h, d) = "refused"
      BY <1>4, <3>1 DEF AppendOutcome
    <3> QED
      BY <2>2, <3>2 DEF AppendEvent
  <2> QED
    BY <2>1, <2>2
<1>5. CASE Verifies(h) /\ Recorded(h, d) = {}
  <2>1. ~Holding(h, d)
    BY <1>1, <1>5 DEF Holding
  <2>2. AppendOutcome(h, d) =
          IF Verifies(Append(h, Sealed(h, d))) THEN "appended" ELSE "refused"
    BY <1>5 DEF AppendOutcome
  <2> QED
    BY <2>1, <2>2 DEF AppendEvent
<1> QED
  BY <1>3, <1>4, <1>5

(* What is held stays held by an extension.                                *)
LEMMA StillHeld ==
  ASSUME NEW h, NEW g, IsHistory(h), IsHistory(g), Extends(h, g), NEW d, Holding(g, d)
  PROVE  Holding(h, d)
<1>1. PICK i \in DOMAIN g : DraftOf(g[i]) = d
  BY DEF Holding
<1>2. i \in 1..Len(g) /\ Len(g) \in Nat /\ Len(h) \in Nat /\ DOMAIN h = 1..Len(h)
  BY HistoryIndices
<1>3. i \in DOMAIN h /\ h[i] = g[i]
  BY <1>2 DEF Extends
<1> QED
  BY <1>1, <1>3 DEF Holding

(* A session that has just loaded a history.                               *)
LEMMA HeldAfterLoad ==
  ASSUME NEW script, Len(script) \in Nat, NEW h, IsHistory(h), NEW status
  PROVE  Held(script, h, h, 0, status, <<>>)
<1>1. Extends(h, h)
  BY ExtendsReflexive DEF IsHistory
<1>2. <<>> \in Seq({"appended", "existing", "refused"}) /\ Len(<<>>) = 0 /\ DOMAIN <<>> = {}
  BY EmptySeq, EmptySequence
<1> QED
  BY <1>1, <1>2 DEF Held

(* A session whose work is stored, in conflict or lost.                    *)
LEMMA HeldAfterStop ==
  ASSUME NEW script, NEW b, NEW h, NEW n, NEW a, NEW status,
         Held(script, b, h, n, "open", a), status # "open"
  PROVE  Held(script, b, h, n, status, a)
  BY DEF Held

(* A session that has recorded its next draft, or was refused it.          *)
LEMMA HeldAfterRecord ==
  ASSUME NEW D, \A d \in D : DraftOf(d) = d, NEW script \in Seq(D),
         NEW b, NEW h, NEW n, NEW a,
         Held(script, b, h, n, "open", a), n # Len(script),
         NEW outcome, outcome = AppendOutcome(h, script[n + 1])
  PROVE  Held(script, b, AppendEvent(h, script[n + 1]),
              IF outcome = "refused" THEN n ELSE n + 1,
              IF outcome = "refused" THEN "halted" ELSE "open", Append(a, outcome))
<1> DEFINE answer == {"appended", "existing", "refused"}
<1>1. /\ Len(script) \in Nat /\ n \in Nat /\ n + 1 \in 1..Len(script)
      /\ script[n + 1] \in D
  BY LenProperties DEF Held
<1>2. PICK d : d = script[n + 1] /\ DraftOf(d) = d
  BY <1>1
<1>3. IsHistory(b) /\ IsHistory(h) /\ Extends(h, b) /\ (Verifies(b) => Verifies(h))
  BY DEF Held
<1>4. /\ a \in Seq(answer) /\ Len(a) = n /\ DOMAIN a = 1..n
      /\ \A i \in 1..n : a[i] # "refused" /\ Holding(h, script[i])
  <2>1. a \in Seq(answer) /\ Len(a) = n
    BY DEF Held
  <2>2. DOMAIN a = 1..n
    BY <2>1, LenProperties
  <2> QED
    BY <2>1, <2>2 DEF Held
<1>5. outcome \in answer
  BY <1>2, AppendCases
<1>6. /\ Append(a, outcome) \in Seq(answer) /\ Len(Append(a, outcome)) = n + 1
      /\ DOMAIN Append(a, outcome) = 1..n + 1
      /\ \A i \in 1..n : Append(a, outcome)[i] = a[i]
      /\ Append(a, outcome)[n + 1] = outcome
  <2>1. /\ Append(a, outcome) \in Seq(answer) /\ Len(Append(a, outcome)) = Len(a) + 1
        /\ \A i \in 1..Len(a) : Append(a, outcome)[i] = a[i]
        /\ Append(a, outcome)[Len(a) + 1] = outcome
    BY <1>4, <1>5, AppendProperties
  <2>2. DOMAIN Append(a, outcome) = 1..Len(Append(a, outcome))
    BY <2>1, LenProperties
  <2> QED
    BY <1>4, <2>1, <2>2
<1>7. CASE outcome = "refused"
  <2>1. AppendEvent(h, d) = h /\ (Verifies(h) => ~Holding(h, d))
    BY <1>2, <1>7, AppendCases
  <2>2. n \in 0..Len(script)
    BY <1>1
  <2>3. ASSUME NEW i \in DOMAIN Append(a, outcome), Append(a, outcome)[i] = "refused"
        PROVE  Verifies(b) => ~Holding(h, script[i])
    <3>1. i = n + 1
      BY <1>1, <1>4, <1>6, <2>3
    <3> QED
      BY <1>2, <1>3, <2>1, <3>1
  <2> QED
    BY <1>2, <1>3, <1>6, <1>7, <2>1, <2>2, <2>3 DEF Held
<1>8. CASE outcome # "refused"
  <2> DEFINE g == AppendEvent(h, d)
  <2>1. IsHistory(g) /\ Extends(g, h) /\ Verifies(g) /\ Holding(g, d)
    <3>1. CASE outcome = "existing"
      <4>1. g = h /\ Verifies(h) /\ Holding(h, d)
        BY <1>2, <3>1, AppendCases
      <4> QED
        BY <1>3, <4>1, ExtendsReflexive DEF IsHistory
    <3>2. CASE outcome = "appended"
      <4>1. PICK e : e = Sealed(h, d)
        OBVIOUS
      <4>2. g = Append(h, e) /\ Verifies(g)
        BY <1>2, <3>2, <4>1, AppendCases
      <4>3. IsEvent(e) /\ DraftOf(e) = d
        BY <1>2, <4>1, SealedEvent
      <4>4. IsHistory(Append(h, e))
        BY <1>3, <4>3, AppendHistory
      <4>5. /\ Extends(Append(h, e), h) /\ Append(h, e)[Len(h) + 1] = e
            /\ DOMAIN Append(h, e) = 1..Len(h) + 1 /\ Len(h) \in Nat
        BY <1>3, AppendSequence, SequenceIndices DEF IsHistory
      <4>6. Len(h) + 1 \in DOMAIN Append(h, e)
        BY <4>5
      <4>7. Holding(Append(h, e), d)
        BY <4>3, <4>5, <4>6 DEF Holding
      <4> QED
        BY <4>2, <4>4, <4>5, <4>7
    <3> QED
      BY <1>5, <1>8, <3>1, <3>2
  <2> HIDE DEF g
  <2>2. Extends(g, b)
    BY <1>3, <2>1, ExtendsTransitive DEF IsHistory
  <2>3. ASSUME NEW i \in 1..n + 1 PROVE Holding(g, script[i])
    <3>1. CASE i = n + 1
      BY <1>2, <2>1, <3>1
    <3>2. CASE i \in 1..n
      BY <1>3, <1>4, <2>1, <3>2, StillHeld
    <3> QED
      BY <1>1, <3>1, <3>2
  <2>4. n + 1 \in 0..Len(script)
    BY <1>1
  <2>5. \A i \in DOMAIN Append(a, outcome) : Append(a, outcome)[i] # "refused"
    BY <1>1, <1>4, <1>6, <1>8
  <2>6. Held(script, b, g, n + 1, "open", Append(a, outcome))
    BY <1>3, <1>6, <2>1, <2>2, <2>3, <2>4, <2>5 DEF Held
  <2> QED
    BY <1>2, <1>8, <2>6 DEF g
<1> QED
  BY <1>7, <1>8

(* What the actions work on: drafts, in scripts that are not empty.        *)
LEMMA Scripts ==
  ASSUME ScriptsAreDrafts, NEW s \in Session
  PROVE  /\ Script[s] \in Seq(Drafts) /\ \A d \in Drafts : DraftOf(d) = d
         /\ Len(Script[s]) \in Nat \ {0} /\ DOMAIN Script[s] = 1..Len(Script[s])
<1>1. Script[s] \in Seq(Drafts) /\ Script[s] # <<>>
  BY DEF ScriptsAreDrafts
<1>2. Len(Script[s]) \in Nat \ {0}
  BY <1>1, EmptySeq
<1> QED
  BY <1>1, <1>2, LenProperties DEF ScriptsAreDrafts

LEMMA InitLogInv ==
  ASSUME ScriptsAreDrafts, LogInit PROVE LogInv
<1>1. /\ stored = <<>> /\ written = <<>> /\ acked = {} /\ faults = 0
      /\ PerSession(base) /\ PerSession(local) /\ PerSession(step)
      /\ PerSession(state) /\ PerSession(answers)
      /\ \A s \in Session : /\ base[s] = <<>> /\ local[s] = <<>> /\ step[s] = 0
                            /\ answers[s] = <<>>
  BY DEF LogInit, PerSession
<1>2. ASSUME NEW s \in Session
      PROVE  Held(Script[s], base[s], local[s], step[s], state[s], answers[s])
  <2>1. Held(Script[s], <<>>, <<>>, 0, state[s], <<>>)
    BY Scripts, EmptyHistory, HeldAfterLoad
  <2> QED
    BY <1>1, <2>1
<1>3. \A i \in DOMAIN stored : \E j \in DOMAIN written : Alike(stored[i], written[j])
  BY <1>1, EmptySequence
<1> QED
  BY <1>1, <1>2, <1>3, EmptyHistory DEF LogInv

(* A step of one session leaves the others what they had.                  *)
OnlyMoves(s) ==
  /\ PerSession(base') /\ PerSession(local') /\ PerSession(step')
  /\ PerSession(state') /\ PerSession(answers')
  /\ \A t \in Session \ {s} :
       /\ base'[t] = base[t] /\ local'[t] = local[t] /\ step'[t] = step[t]
       /\ state'[t] = state[t] /\ answers'[t] = answers[t]

LEMMA SessionStep ==
  ASSUME LogInv, NEW s \in Session, OnlyMoves(s),
         Held(Script[s], base'[s], local'[s], step'[s], state'[s], answers'[s]),
         UNCHANGED <<stored, written, acked, faults>>
  PROVE  LogInv'
<1>1. ASSUME NEW t \in Session
      PROVE  Held(Script[t], base'[t], local'[t], step'[t], state'[t], answers'[t])
  BY DEF LogInv, OnlyMoves
<1>2. /\ IsHistory(stored') /\ IsHistory(written') /\ Verifies(written')
      /\ \A i \in DOMAIN stored' : \E j \in DOMAIN written' : Alike(stored'[i], written'[j])
      /\ faults' \in Nat
      /\ faults' = 0 => stored' = written' /\ \A d \in acked' : Holding(stored', d)
  BY DEF LogInv
<1> QED
  BY <1>1, <1>2 DEF LogInv, OnlyMoves

LEMMA NextLogInv ==
  ASSUME ScriptsAreDrafts, LogInv, [LogNext]_logVars
  PROVE  LogInv'
<1>1. /\ PerSession(base) /\ PerSession(local) /\ PerSession(step)
      /\ PerSession(state) /\ PerSession(answers)
  BY DEF LogInv
<1>2. ASSUME NEW s \in Session, Load(s) PROVE LogInv'
  <2>1. OnlyMoves(s) /\ base'[s] = stored /\ local'[s] = stored /\ step'[s] = 0 /\ answers'[s] = <<>>
    BY <1>1, <1>2 DEF Load, OnlyMoves, PerSession
  <2>2. Held(Script[s], stored, stored, 0, state'[s], <<>>)
    BY Scripts, HeldAfterLoad DEF LogInv
  <2>3. UNCHANGED <<stored, written, acked, faults>>
    BY <1>2 DEF Load
  <2> QED
    BY <2>1, <2>2, <2>3, SessionStep
<1>3. ASSUME NEW s \in Session, Record(s) PROVE LogInv'
  <2>1. PICK n, a, h, d, outcome :
          /\ n = step[s] /\ a = answers[s] /\ h = local[s] /\ d = Script[s][n + 1]
          /\ outcome = AppendOutcome(h, d)
    OBVIOUS
  <2>2. state[s] = "open" /\ n # Len(Script[s]) /\ base' = base
        /\ UNCHANGED <<stored, written, acked, faults>>
    BY <1>3, <2>1 DEF Record, Finished
  <2>3. Held(Script[s], base[s], h, n, "open", a)
    BY <2>1, <2>2 DEF LogInv
  <2>4. Held(Script[s], base[s], AppendEvent(h, d),
             IF outcome = "refused" THEN n ELSE n + 1,
             IF outcome = "refused" THEN "halted" ELSE "open", Append(a, outcome))
    <3>1. PICK script : script = Script[s]
      OBVIOUS
    <3> QED
      BY <2>1, <2>2, <2>3, <3>1, Scripts, HeldAfterRecord
  <2>5. /\ local' = [local EXCEPT ![s] = AppendEvent(h, d)]
        /\ answers' = [answers EXCEPT ![s] = Append(a, outcome)]
        /\ IF outcome = "refused"
           THEN state' = [state EXCEPT ![s] = "halted"] /\ step' = step
           ELSE step' = [step EXCEPT ![s] = n + 1] /\ state' = state
    BY <1>1, <1>3, <2>1 DEF Record, PerSession
  <2>6. OnlyMoves(s)
    BY <1>1, <2>2, <2>5 DEF OnlyMoves, PerSession
  <2>7. /\ base'[s] = base[s] /\ local'[s] = AppendEvent(h, d)
        /\ answers'[s] = Append(a, outcome)
        /\ step'[s] = IF outcome = "refused" THEN n ELSE n + 1
        /\ state'[s] = IF outcome = "refused" THEN "halted" ELSE "open"
    BY <1>1, <2>1, <2>2, <2>5 DEF PerSession
  <2> QED
    BY <2>2, <2>4, <2>6, <2>7, SessionStep
<1>4. ASSUME NEW s \in Session, NEW status \in {"idle", "done"}, state[s] = "open",
             state' = [state EXCEPT ![s] = status],
             UNCHANGED <<base, local, step, answers>>
      PROVE  OnlyMoves(s) /\ Held(Script[s], base'[s], local'[s], step'[s], state'[s], answers'[s])
  <2>1. Held(Script[s], base[s], local[s], step[s], "open", answers[s])
    BY <1>4 DEF LogInv
  <2>2. Held(Script[s], base[s], local[s], step[s], status, answers[s])
    BY <2>1, HeldAfterStop
  <2>3. state'[s] = status /\ OnlyMoves(s)
    BY <1>1, <1>4 DEF OnlyMoves, PerSession
  <2> QED
    BY <1>4, <2>2, <2>3
<1>5. ASSUME NEW s \in Session, Conflict(s) PROVE LogInv'
  BY <1>4, <1>5, SessionStep DEF Conflict
<1>6. ASSUME NEW s \in Session, Crash(s) PROVE LogInv'
  BY <1>4, <1>6, SessionStep DEF Crash
<1>7. ASSUME NEW s \in Session, NEW known \in BOOLEAN, Store(s, known) PROVE LogInv'
  <2>1. /\ state[s] = "open" /\ step[s] = Len(Script[s]) /\ stored = base[s]
        /\ stored' = local[s] /\ written' = local[s] /\ faults' = faults
        /\ UNCHANGED <<base, local, step, answers>>
    BY <1>7 DEF Store, Finished
  <2>2. \E status \in {"idle", "done"} : state' = [state EXCEPT ![s] = status]
    BY <1>7 DEF Store
  <2>3. OnlyMoves(s) /\ Held(Script[s], base'[s], local'[s], step'[s], state'[s], answers'[s])
    BY <1>4, <2>1, <2>2
  <2>4. Held(Script[s], base[s], local[s], step[s], "open", answers[s])
    BY <2>1 DEF LogInv
  <2>5. /\ IsHistory(base[s]) /\ IsHistory(local[s]) /\ Extends(local[s], base[s])
        /\ Verifies(local[s])
        /\ \A i \in 1..Len(Script[s]) : Holding(local[s], Script[s][i])
    BY <2>1, <2>4, Scripts DEF Held
  <2>6. \A i \in DOMAIN stored' : \E j \in DOMAIN written' : Alike(stored'[i], written'[j])
    BY <2>1 DEF Alike
  <2>7. ASSUME faults' = 0, NEW d \in acked' PROVE Holding(stored', d)
    <3>1. CASE d \in acked
      <4>1. Holding(base[s], d)
        BY <2>1, <2>7, <3>1 DEF LogInv
      <4> QED
        BY <2>1, <2>5, <4>1, StillHeld
    <3>2. CASE d \in {Script[s][i] : i \in DOMAIN Script[s]}
      BY <2>1, <2>5, <3>2, Scripts
    <3> QED
      BY <1>7, <3>1, <3>2 DEF Store
  <2>8. \A t \in Session : Held(Script[t], base'[t], local'[t], step'[t], state'[t], answers'[t])
    BY <2>3 DEF LogInv, OnlyMoves
  <2>9. faults' \in Nat
    BY <2>1 DEF LogInv
  <2> QED
    BY <2>1, <2>3, <2>5, <2>6, <2>7, <2>8, <2>9 DEF LogInv, OnlyMoves
<1>8. ASSUME Fault PROVE LogInv'
  <2>1. /\ stored' \in Damaged(stored) /\ faults' = faults + 1
        /\ UNCHANGED <<written, base, local, step, state, answers, acked>>
    BY <1>8 DEF Fault
  <2>2. IsHistory(stored') /\ \A i \in DOMAIN stored' : \E k \in DOMAIN stored : Alike(stored'[i], stored[k])
    BY <2>1, DamagedIsTraced DEF LogInv
  <2>3. \A i \in DOMAIN stored' : \E j \in DOMAIN written' : Alike(stored'[i], written'[j])
    <3> SUFFICES ASSUME NEW i \in DOMAIN stored'
                 PROVE  \E j \in DOMAIN written : Alike(stored'[i], written[j])
      BY <2>1
    <3>1. PICK k \in DOMAIN stored : Alike(stored'[i], stored[k])
      BY <2>2
    <3>2. PICK j \in DOMAIN written : Alike(stored[k], written[j])
      BY DEF LogInv
    <3> QED
      BY <3>1, <3>2 DEF Alike
  <2>4. faults' \in Nat /\ faults' # 0
    BY <2>1 DEF LogInv
  <2> QED
    BY <2>1, <2>2, <2>3, <2>4 DEF LogInv
<1>9. CASE UNCHANGED logVars
  BY <1>9 DEF LogInv, logVars
<1> QED
  BY <1>2, <1>3, <1>5, <1>6, <1>7, <1>8, <1>9 DEF LogNext

LEMMA LogInvHolds == LogSpec => []LogInv
<1>1. LogInit => LogInv
  BY ScriptAssumption, InitLogInv
<1>2. LogInv /\ [LogNext]_logVars => LogInv'
  BY ScriptAssumption, NextLogInv
<1> QED
  BY <1>1, <1>2, PTL DEF LogSpec

(* Every session is in one of its states and at one of its drafts, and     *)
(* holds what it loaded, however much it added.                            *)
THEOREM LogTypeCorrect == LogSpec => []LogTypeOK
<1> DEFINE Typed == /\ state \in [Session -> {"idle", "open", "halted", "done"}]
                    /\ faults \in 0..MaxFaults
<1>1. LogInit => Typed
  BY ScriptAssumption DEF LogInit
<1>2. Typed /\ [LogNext]_logVars => Typed'
  <2> SUFFICES ASSUME Typed, [LogNext]_logVars PROVE Typed'
    OBVIOUS
  <2>1. ASSUME NEW s \in Session, Load(s) PROVE Typed'
    BY <2>1 DEF Load
  <2>2. ASSUME NEW s \in Session, Record(s) PROVE Typed'
    BY <2>2 DEF Record
  <2>3. ASSUME NEW s \in Session, Conflict(s) PROVE Typed'
    BY <2>3 DEF Conflict
  <2>4. ASSUME NEW s \in Session, Crash(s) PROVE Typed'
    BY <2>4 DEF Crash
  <2>5. ASSUME NEW s \in Session, NEW known \in BOOLEAN, Store(s, known) PROVE Typed'
    BY <2>5 DEF Store
  <2>6. CASE Fault
    BY <2>6, ScriptAssumption DEF Fault
  <2>7. CASE UNCHANGED logVars
    BY <2>7 DEF logVars
  <2> QED
    BY <2>1, <2>2, <2>3, <2>4, <2>5, <2>6, <2>7 DEF LogNext
<1>3. LogInv /\ Typed => LogTypeOK
  <2> SUFFICES ASSUME LogInv, Typed, NEW s \in Session
               PROVE  /\ step[s] \in 0..Len(Script[s])
                      /\ IsPrefix(base[s], local[s])
                      /\ answers[s] \in Seq({"appended", "existing", "refused"})
    BY DEF LogTypeOK
  <2>1. Held(Script[s], base[s], local[s], step[s], state[s], answers[s])
    BY DEF LogInv
  <2>2. IsSequence(base[s]) /\ IsSequence(local[s]) /\ Extends(local[s], base[s])
    BY <2>1 DEF Held, IsHistory
  <2>3. IsPrefix(base[s], local[s])
    BY <2>2, ExtendsIsPrefix DEF IsPrefix
  <2> QED
    BY <2>1, <2>3 DEF Held
<1> HIDE DEF Typed
<1> QED
  BY <1>1, <1>2, <1>3, LogInvHolds, PTL DEF LogSpec

(* Whatever the store has done to it, a stored history that still verifies *)
(* is what was written, or the beginning of it, with any number of         *)
(* sessions, drafts and faults.                                            *)
THEOREM HistoryAlwaysTrue == LogSpec => []HistoryIsTrue
<1>1. LogInv => HistoryIsTrue
  <2> SUFFICES ASSUME LogInv, Verifies(stored) PROVE IsPrefix(stored, written)
    BY DEF HistoryIsTrue
  <2>1. /\ Len(stored) \in Nat /\ DOMAIN stored = 1..Len(stored)
        /\ \A i \in 1..Len(stored) : IsEvent(stored[i])
        /\ Len(written) \in Nat /\ DOMAIN written = 1..Len(written)
        /\ \A i \in 1..Len(written) : IsEvent(written[i])
    BY HistoryIndices DEF LogInv
  <2>2. ASSUME NEW i \in 1..Len(stored)
        PROVE  i <= Len(written) /\ stored[i] = written[i]
    <3>1. PICK j \in 1..Len(written) : Alike(stored[i], written[j])
      BY <2>1 DEF LogInv
    <3>2. stored[i].sequence = i /\ stored[i].hash = Digest(Body(stored[i]))
      BY <2>1 DEF Verifies
    <3>3. written[j].sequence = j /\ written[j].hash = Digest(Body(written[j]))
      BY <2>1 DEF Verifies, LogInv
    <3>4. i = j
      BY <3>1, <3>2, <3>3 DEF Alike
    <3>5. stored[i] = written[j]
      BY <2>1, <3>1, <3>2, <3>3, DigestDetermines DEF Alike
    <3> QED
      BY <2>1, <3>4, <3>5
  <2>3. Len(stored) <= Len(written)
    <3>1. CASE Len(stored) = 0
      BY <2>1, <3>1
    <3>2. CASE Len(stored) # 0
      BY <2>1, <2>2, <3>2
    <3> QED
      BY <3>1, <3>2
  <2>4. Extends(written, stored)
    BY <2>2, <2>3 DEF Extends
  <2> QED
    BY <2>4, ExtendsIsPrefix DEF IsPrefix, LogInv, IsHistory
<1> QED
  BY <1>1, LogInvHolds, PTL

(* An author is not refused for having already recorded what it asks for:  *)
(* append_event answers an identical retry with the event it made.         *)
THEOREM RetryAlwaysAnswered == LogSpec => []RetryIsAnswered
<1>1. LogInv => RetryIsAnswered
  <2> SUFFICES ASSUME LogInv, NEW s \in Session, NEW i \in DOMAIN answers[s],
                      answers[s][i] = "refused", Verifies(base[s])
               PROVE  \A j \in DOMAIN local[s] : DraftOf(local[s][j]) # Script[s][i]
    BY DEF RetryIsAnswered
  <2>1. Held(Script[s], base[s], local[s], step[s], state[s], answers[s])
    BY DEF LogInv
  <2>2. ~Holding(local[s], Script[s][i])
    BY <2>1 DEF Held
  <2> QED
    BY <2>2 DEF Holding
<1> QED
  BY <1>1, LogInvHolds, PTL

(* While the store is intact, a draft its author was told is recorded is   *)
(* in the history once, with the data the author gave.                     *)
THEOREM AcknowledgedAlwaysRecorded == LogSpec => []AcknowledgedIsRecorded
<1>1. LogInv => AcknowledgedIsRecorded
  <2> SUFFICES ASSUME LogInv, faults = 0, NEW d \in acked
               PROVE  Cardinality({i \in DOMAIN stored : DraftOf(stored[i]) = d}) = 1
    BY DEF AcknowledgedIsRecorded, Intact
  <2>1. PICK i \in DOMAIN stored : DraftOf(stored[i]) = d
    BY DEF LogInv, Holding
  <2>2. Verifies(stored) /\ Len(stored) \in Nat /\ DOMAIN stored = 1..Len(stored)
    BY HistoryIndices DEF LogInv
  <2>3. ASSUME NEW j \in DOMAIN stored, DraftOf(stored[j]) = d PROVE j = i
    <3>1. stored[i].id = stored[j].id
      BY <2>1, <2>3 DEF DraftOf
    <3>2. \A m, n \in 1..Len(stored) : m < n => stored[m].id # stored[n].id
      BY <2>2 DEF Verifies
    <3> QED
      BY <2>2, <3>1, <3>2
  <2>4. {j \in DOMAIN stored : DraftOf(stored[j]) = d} = {i}
    BY <2>1, <2>3
  <2> QED
    BY <2>4, FS_Singleton
<1> QED
  BY <1>1, LogInvHolds, PTL

-----------------------------------------------------------------------------
(* The canonical state.                                                    *)

(* The parts of the database; how one is later than another.               *)
PartSet == {"project", "entities", "relationships", "decisions", "events"}
Whole(d) ==
  /\ d = [x \in PartSet |-> d[x]]
  /\ \A t \in Tables : IsSequence(d[t])
Grown(part, later, earlier) ==
  /\ part \in Tables =>
       IsSequence(later) /\ IsSequence(earlier) /\ Extends(later, earlier)
  /\ part = "entities" => DOMAIN earlier \subseteq DOMAIN later

(* The parts a reader has read at each step, in the order of the SELECTs.  *)
ReadSoFar(now, parts) ==
  IF now = "read"
  THEN parts \in {{"project"}, {"project", "entities"},
                  {"project", "entities", "relationships"},
                  {"project", "entities", "relationships", "decisions"}}
  ELSE parts = PartSet

(* What a reader has is between what it began with and what there is.      *)
Between(d, now, read, first) ==
  now \in {"read", "open", "write"} =>
    /\ ReadSoFar(now, DOMAIN read)
    /\ \A x \in PartSet : Grown(x, d[x], first[x])
    /\ \A x \in DOMAIN read : Grown(x, read[x], first[x]) /\ Grown(x, d[x], read[x])

PerProcess(f) == f = [p \in Process |-> f[p]]

(* The inductive invariant of snapshots.                                   *)
SnapshotInv ==
  /\ Whole(db)
  /\ PerProcess(at) /\ PerProcess(seen) /\ PerProcess(begun)
  /\ \A p \in Process : Between(db, at[p], seen[p], begun[p])
  /\ file \in {None, Empty} \/ \A x \in PartSet : Grown(x, db[x], file[x])

(* Message n of a conversation hands on what the user said before it.      *)
Submitted(talk, n) ==
  \E m \in 1..n-1 :
    /\ talk[m].kind = "user_decision"
    /\ talk[m].conversation = talk[n].conversation
    /\ talk[m].payload.verbatimResponse = talk[n].payload.verbatimResponse

(* The rows recorded for message n.                                        *)
DecisionHeld(rows, talk, n) ==
  \E d \in DOMAIN rows : /\ rows[d].id = DecisionId(n)
                         /\ rows[d].data = talk[n].payload.verbatimResponse
EventHeld(rows, n) ==
  \E e \in DOMAIN rows : rows[e].id = EventId(n) /\ rows[e].data = DecisionId(n)

(* A receipt answers an earlier submission, and names its rows.            *)
Answers(talk, d, n) ==
  \E k \in 1..n-1 :
    /\ talk[k].kind = "decision_submission"
    /\ talk[k].conversation = talk[n].conversation
    /\ talk[n].payload.decisionId = DecisionId(k)
    /\ talk[n].payload.eventIds = {EventId(k)}
    /\ DecisionHeld(d.decisions, talk, k) /\ EventHeld(d.events, k)

(* The rows with the Lead's identifiers are the Lead's.                    *)
RowsAreTrue(d, talk) ==
  \A n \in 1..MaxMessages :
    /\ \A i \in DOMAIN d.decisions : d.decisions[i].id = DecisionId(n) =>
         n <= Len(talk) /\ d.decisions[i].data = talk[n].payload.verbatimResponse
    /\ \A i \in DOMAIN d.events : d.events[i].id = EventId(n) =>
         d.events[i].data = DecisionId(n)

TalkIsSound(talk, d) ==
  /\ IsSequence(talk) /\ Len(talk) <= MaxMessages
  /\ \A n \in 1..Len(talk) :
       /\ talk[n].kind = "decision_submission" => Submitted(talk, n)
       /\ talk[n].kind = "decision_recorded" => Answers(talk, d, n)

LeadIsSound(l, talk, d) ==
  l # None =>
    /\ l = [submission |-> l.submission, writes |-> l.writes]
    /\ l.submission \in 1..Len(talk) /\ talk[l.submission].kind = "decision_submission"
    /\ l.writes \in 0..2
    /\ l.writes >= 1 => DecisionHeld(d.decisions, talk, l.submission)
    /\ l.writes = 2 => EventHeld(d.events, l.submission)

(* The inductive invariant of receipts.                                    *)
ReceiptInv ==
  /\ Whole(db)
  /\ line \in 1..Len(Statements)
  /\ TalkIsSound(said, db)
  /\ LeadIsSound(lead, said, db)
  /\ RowsAreTrue(db, said)

LEMMA TheTables ==
  /\ Tables = {"relationships", "decisions", "events"}
  /\ Tables \subseteq PartSet
  BY DEF Tables, PartSet

LEMMA GrownReflexive ==
  ASSUME NEW d, Whole(d), NEW x PROVE Grown(x, d[x], d[x])
  BY ExtendsReflexive DEF Grown, Whole

LEMMA GrownTransitive ==
  ASSUME NEW x, NEW f, NEW g, NEW h, Grown(x, h, g), Grown(x, g, f)
  PROVE  Grown(x, h, f)
  BY ExtendsTransitive DEF Grown

HasId(rows, id) == \E i \in DOMAIN rows : rows[i].id = id

(* INSERT OR IGNORE: the rows stay, the new one is at the end, and there   *)
(* is a row of its identifier.                                             *)
LEMMA Inserted ==
  ASSUME NEW rows, IsSequence(rows), NEW row, NEW new, new = InsertOrIgnore(rows, row)
  PROVE  /\ IsSequence(new) /\ Extends(new, rows)
         /\ \A i \in DOMAIN new : new[i] = row \/ (i \in DOMAIN rows /\ new[i] = rows[i])
         /\ HasId(new, row.id)
<1>1. Len(rows) \in Nat /\ DOMAIN rows = 1..Len(rows)
  BY SequenceIndices
<1>2. CASE \E n \in DOMAIN rows : rows[n].id = row.id
  <2>1. new = rows
    BY <1>2 DEF InsertOrIgnore
  <2>2. Extends(new, rows)
    BY <2>1, ExtendsReflexive
  <2>3. HasId(new, row.id)
    BY <1>2, <2>1 DEF HasId
  <2> QED
    BY <2>1, <2>2, <2>3
<1>3. CASE ~\E n \in DOMAIN rows : rows[n].id = row.id
  <2>1. new = Append(rows, row)
    BY <1>3 DEF InsertOrIgnore
  <2>2. /\ IsSequence(new) /\ Extends(new, rows) /\ DOMAIN new = 1..Len(rows) + 1
        /\ \A i \in 1..Len(rows) : new[i] = rows[i]
        /\ new[Len(rows) + 1] = row
    BY <2>1, AppendSequence
  <2>3. Len(rows) + 1 \in DOMAIN new
    BY <1>1, <2>2
  <2>4. \A i \in DOMAIN new : new[i] = row \/ (i \in DOMAIN rows /\ new[i] = rows[i])
    BY <1>1, <2>2
  <2>5. HasId(new, row.id)
    BY <2>2, <2>3 DEF HasId
  <2> QED
    BY <2>2, <2>4, <2>5
<1> QED
  BY <1>2, <1>3

(* A statement changes one part.                                           *)
RowOf(s) == [id |-> s.id, data |-> s.data]

LEMMA Executed ==
  ASSUME NEW d, Whole(d), NEW s
  PROVE  LET new == Execute(d, s) IN
         /\ new = [x \in PartSet |-> new[x]]
         /\ \A t \in Tables : new[t] = IF s.table = t
                                             THEN InsertOrIgnore(d[t], RowOf(s))
                                             ELSE d[t]
         /\ DOMAIN d["entities"] \subseteq DOMAIN new["entities"]
<1> DEFINE new == Execute(d, s)
<1>0. /\ d = [x \in PartSet |-> d[x]]
      /\ "project" \in PartSet /\ "entities" \in PartSet
      /\ \A t \in Tables : t \in PartSet /\ t \notin {"schema", "project", "entities"}
  BY TheTables DEF Whole, PartSet
<1>1. CASE s.table = "schema"
  <2>1. new = d \/ new = [d EXCEPT !["project"] = NoProject]
    BY <1>1 DEF Execute, Schema
  <2> QED
    BY <1>0, <1>1, <2>1
<1>2. CASE s.table = "project"
  <2>1. new = [d EXCEPT !["project"] = s.data]
    BY <1>2 DEF Execute, Schema
  <2> QED
    BY <1>0, <1>2, <2>1
<1>3. CASE s.table = "entities"
  <2>1. PICK all : all = [id \in DOMAIN d["entities"] \cup {s.id} |->
                           IF id = s.id THEN s.data ELSE d["entities"][id]]
    OBVIOUS
  <2>2. new = [d EXCEPT !["entities"] = all]
    BY <1>3, <2>1 DEF Execute, Schema
  <2>3. DOMAIN d["entities"] \subseteq DOMAIN all
    BY <2>1
  <2> QED
    BY <1>0, <1>3, <2>2, <2>3
<1>4. CASE s.table \notin {"schema", "project", "entities"}
  <2>1. new = [d EXCEPT ![s.table] = InsertOrIgnore(d[s.table], RowOf(s))]
    BY <1>4 DEF Execute, Schema, RowOf
  <2> QED
    BY <1>0, <1>4, <2>1
<1> QED
  BY <1>1, <1>2, <1>3, <1>4

LEMMA ExecutedGrows ==
  ASSUME NEW d, Whole(d), NEW s
  PROVE  /\ Whole(Execute(d, s))
         /\ \A x \in PartSet : Grown(x, Execute(d, s)[x], d[x])
<1> DEFINE new == Execute(d, s)
<1>1. /\ new = [x \in PartSet |-> new[x]]
      /\ \A t \in Tables : new[t] = IF s.table = t
                                          THEN InsertOrIgnore(d[t], RowOf(s))
                                          ELSE d[t]
      /\ DOMAIN d["entities"] \subseteq DOMAIN new["entities"]
  BY Executed
<1> HIDE DEF new
<1>2. ASSUME NEW t \in Tables
      PROVE  IsSequence(d[t]) /\ IsSequence(new[t]) /\ Extends(new[t], d[t])
  <2>1. IsSequence(d[t])
    BY DEF Whole
  <2>2. IsSequence(InsertOrIgnore(d[t], RowOf(s)))
        /\ Extends(InsertOrIgnore(d[t], RowOf(s)), d[t])
    BY <2>1, Inserted
  <2> QED
    BY <1>1, <2>1, <2>2, ExtendsReflexive
<1>3. Whole(new)
  BY <1>1, <1>2 DEF Whole
<1>4. \A x \in PartSet : Grown(x, new[x], d[x])
  BY <1>1, <1>2 DEF Grown
<1> QED
  BY <1>3, <1>4 DEF new

(* Before anything was done the database has all its parts, and no rows.   *)
LEMMA BlankIsWhole ==
  Whole(Blank) /\ \A t \in Tables : Blank[t] = <<>>
<1>1. \A t \in Tables : Blank[t] = <<>>
  BY TheTables DEF Blank
<1>2. Blank = [x \in PartSet |-> Blank[x]]
  BY DEF Blank, PartSet
<1> QED
  BY <1>1, <1>2, EmptySequence DEF Whole

-----------------------------------------------------------------------------
LEMMA BetweenGrows ==
  ASSUME NEW d, NEW new, \A x \in PartSet : Grown(x, new[x], d[x]),
         NEW s, NEW read, NEW first, Between(d, s, read, first)
  PROVE  Between(new, s, read, first)
<1> SUFFICES ASSUME s \in {"read", "open", "write"} PROVE Between(new, s, read, first)
  BY DEF Between
<1>1. DOMAIN read \subseteq PartSet
  BY DEF Between, ReadSoFar, PartSet
<1>2. \A x \in PartSet : Grown(x, new[x], first[x])
  BY GrownTransitive DEF Between
<1>3. \A x \in DOMAIN read : Grown(x, new[x], read[x])
  BY <1>1, GrownTransitive DEF Between
<1> QED
  BY <1>2, <1>3 DEF Between

(* A step that writes to the database, or does not touch it, and moves no  *)
(* reader; and a step of one reader.                                       *)
LEMMA WriterStep ==
  ASSUME SnapshotInv, Whole(db'), \A x \in PartSet : Grown(x, db'[x], db[x]),
         UNCHANGED <<file, seen, begun>>, PerProcess(at'),
         \A p \in Process : at'[p] = at[p] \/ at'[p] \notin {"read", "open", "write"}
  PROVE  SnapshotInv'
<1>1. ASSUME NEW p \in Process PROVE Between(db', at'[p], seen'[p], begun'[p])
  <2>1. Between(db', at[p], seen[p], begun[p])
    BY BetweenGrows DEF SnapshotInv
  <2> QED
    BY <2>1 DEF Between
<1>2. file' \in {None, Empty} \/ \A x \in PartSet : Grown(x, db'[x], file'[x])
  BY GrownTransitive DEF SnapshotInv
<1> QED
  BY <1>1, <1>2 DEF SnapshotInv, PerProcess

LEMMA ReaderStep ==
  ASSUME SnapshotInv, NEW p \in Process, db' = db,
         PerProcess(at'), PerProcess(seen'), PerProcess(begun'),
         \A q \in Process \ {p} :
           at'[q] = at[q] /\ seen'[q] = seen[q] /\ begun'[q] = begun[q],
         Between(db, at'[p], seen'[p], begun'[p]),
         file' \in {None, Empty} \/ \A x \in PartSet : Grown(x, db[x], file'[x])
  PROVE  SnapshotInv'
<1>1. ASSUME NEW q \in Process PROVE Between(db', at'[q], seen'[q], begun'[q])
  BY DEF SnapshotInv
<1> QED
  BY <1>1 DEF SnapshotInv

(* Reading the next part.                                                  *)
LEMMA SizeOf ==
  /\ Cardinality({"project"}) = 1
  /\ Cardinality({"project", "entities"}) = 2
  /\ Cardinality({"project", "entities", "relationships"}) = 3
  /\ Cardinality({"project", "entities", "relationships", "decisions"}) = 4
<1> DEFINE A == {"project"}
           B == A \cup {"entities"}
           C == B \cup {"relationships"}
           D == C \cup {"decisions"}
<1>1. IsFiniteSet(A) /\ Cardinality(A) = 1
  BY FS_Singleton
<1>2. IsFiniteSet(B) /\ Cardinality(B) = 2
  BY <1>1, FS_AddElement
<1>3. IsFiniteSet(C) /\ Cardinality(C) = 3
  BY <1>2, FS_AddElement
<1>4. IsFiniteSet(D) /\ Cardinality(D) = 4
  BY <1>3, FS_AddElement
<1>5. /\ B = {"project", "entities"} /\ C = {"project", "entities", "relationships"}
      /\ D = {"project", "entities", "relationships", "decisions"}
  OBVIOUS
<1> QED
  BY <1>1, <1>2, <1>3, <1>4, <1>5

LEMMA BetweenRead ==
  ASSUME NEW d, Whole(d), NEW read, NEW first, Between(d, "read", read, first),
         NEW n, n = Cardinality(DOMAIN read) + 1,
         NEW part, part = Parts[n],
         NEW more, more = [x \in DOMAIN read \cup {part} |-> IF x = part THEN d[part] ELSE read[x]]
  PROVE  Between(d, IF n = Len(Parts) THEN "open" ELSE "read", more, first)
<1>1. ReadSoFar("read", DOMAIN read)
  BY DEF Between
<1>2. Parts = <<"project", "entities", "relationships", "decisions", "events">>
      /\ Len(Parts) = 5
  BY DEF Parts
<1>3. /\ part \in PartSet
      /\ n \in 2..5
      /\ ReadSoFar(IF n = 5 THEN "open" ELSE "read", DOMAIN read \cup {part})
  <2>1. CASE DOMAIN read = {"project"}
    <3>1. n = 2 /\ part = "entities"
      BY <1>2, <2>1, SizeOf
    <3> QED
      BY <2>1, <3>1 DEF PartSet, ReadSoFar
  <2>2. CASE DOMAIN read = {"project", "entities"}
    <3>1. n = 3 /\ part = "relationships"
      BY <1>2, <2>2, SizeOf
    <3> QED
      BY <2>2, <3>1 DEF PartSet, ReadSoFar
  <2>3. CASE DOMAIN read = {"project", "entities", "relationships"}
    <3>1. n = 4 /\ part = "decisions"
      BY <1>2, <2>3, SizeOf
    <3> QED
      BY <2>3, <3>1 DEF PartSet, ReadSoFar
  <2>4. CASE DOMAIN read = {"project", "entities", "relationships", "decisions"}
    <3>1. n = 5 /\ part = "events"
      BY <1>2, <2>4, SizeOf
    <3> QED
      BY <2>4, <3>1 DEF PartSet, ReadSoFar
  <2> QED
    BY <1>1, <2>1, <2>2, <2>3, <2>4 DEF ReadSoFar
<1>4. DOMAIN more = DOMAIN read \cup {part}
  OBVIOUS
<1>5. ASSUME NEW x \in DOMAIN more PROVE Grown(x, more[x], first[x]) /\ Grown(x, d[x], more[x])
  <2>1. CASE x = part
    <3>1. more[x] = d[x] /\ x \in PartSet
      BY <1>3, <2>1
    <3> QED
      BY <3>1, GrownReflexive DEF Between
  <2>2. CASE x # part
    <3>1. more[x] = read[x] /\ x \in DOMAIN read
      BY <1>4, <2>2
    <3> QED
      BY <3>1 DEF Between
  <2> QED
    BY <2>1, <2>2
<1> QED
  BY <1>2, <1>3, <1>4, <1>5 DEF Between

LEMMA InitSnapshotInv == StateInit => SnapshotInv
<1> SUFFICES ASSUME StateInit PROVE SnapshotInv
  OBVIOUS
<1>1. /\ db = Blank /\ file = None
      /\ PerProcess(at) /\ PerProcess(seen) /\ PerProcess(begun)
      /\ \A p \in Process : at[p] = "idle"
  BY DEF StateInit, PerProcess
<1> QED
  BY <1>1, BlankIsWhole DEF SnapshotInv, Between

LEMMA NextSnapshotInv == SnapshotInv /\ [StateNext]_stateVars => SnapshotInv'
<1> SUFFICES ASSUME SnapshotInv, [StateNext]_stateVars PROVE SnapshotInv'
  OBVIOUS
<1>1. /\ Whole(db) /\ PerProcess(at) /\ PerProcess(seen) /\ PerProcess(begun)
      /\ \A p \in Process : Between(db, at[p], seen[p], begun[p])
      /\ file \in {None, Empty} \/ \A x \in PartSet : Grown(x, db[x], file[x])
  BY DEF SnapshotInv
<1>2. ASSUME db' = db, UNCHANGED <<file, seen, begun>>, PerProcess(at'),
             \A p \in Process : at'[p] = at[p] \/ at'[p] \notin {"read", "open", "write"}
      PROVE  SnapshotInv'
  <2>1. Whole(db') /\ \A x \in PartSet : Grown(x, db'[x], db[x])
    BY <1>1, <1>2, GrownReflexive
  <2> QED
    BY <1>2, <2>1, WriterStep
<1>kept. ASSUME db' = db, UNCHANGED <<file, at, seen, begun>> PROVE SnapshotInv'
  BY <1>1, <1>2, <1>kept
<1>moved. ASSUME db' = db, UNCHANGED <<file, seen, begun>>, NEW p \in Process,
                 NEW s \in {"idle", "run", "write binding", "begin"}, at' = [at EXCEPT ![p] = s]
          PROVE  SnapshotInv'
  <2>1. /\ PerProcess(at')
        /\ \A q \in Process : at'[q] = at[q] \/ at'[q] \notin {"read", "open", "write"}
    BY <1>1, <1>moved DEF PerProcess
  <2> QED
    BY <1>2, <1>moved, <2>1
<1>3. ASSUME NEW s, db' = Execute(db, s), UNCHANGED <<file, seen, begun>>,
             at' = at \/ at' = [at EXCEPT !["bootstrap"] = "open binding"]
      PROVE  SnapshotInv'
  <2>1. /\ PerProcess(at')
        /\ \A p \in Process : at'[p] = at[p] \/ at'[p] \notin {"read", "open", "write"}
    BY <1>1, <1>3 DEF PerProcess
  <2>2. Whole(db') /\ \A x \in PartSet : Grown(x, db'[x], db[x])
    BY <1>1, <1>3, ExecutedGrows
  <2> QED
    BY <1>3, <2>1, <2>2, WriterStep
<1>4. "bootstrap" \in Process /\ "snapshot" \in Process
  BY DEF Process
<1>5. CASE Start
  <2>1. /\ db' = db /\ UNCHANGED <<file, seen, begun>>
        /\ at' = [at EXCEPT !["bootstrap"] = "run"]
    BY <1>5 DEF Start, Goes
  <2> QED
    BY <1>moved, <1>4, <2>1
<1>6. CASE RunStatement
  <2>1. /\ db' = Execute(db, Statements[line]) /\ UNCHANGED <<file, seen, begun>>
        /\ at' = at \/ at' = [at EXCEPT !["bootstrap"] = "open binding"]
    BY <1>6 DEF RunStatement, Goes
  <2> QED
    BY <1>3, <2>1
<1>7. CASE Bind
  <2>1. /\ db' = db /\ UNCHANGED <<file, seen, begun>>
        /\ \E s \in {"write binding", "begin"} : at' = [at EXCEPT !["bootstrap"] = s]
    BY <1>7 DEF Bind, Goes
  <2> QED
    BY <1>moved, <1>4, <2>1
<1>8. CASE StartSnapshot
  <2>1. /\ db' = db /\ UNCHANGED <<file, seen, begun>>
        /\ at' = [at EXCEPT !["snapshot"] = "begin"]
    BY <1>8 DEF StartSnapshot, Goes
  <2> QED
    BY <1>moved, <1>4, <2>1
<1>9. ASSUME NEW p \in Process, Begin(p) PROVE SnapshotInv'
  <2>1. CASE at' = [at EXCEPT ![p] = "idle"] /\ seen' = seen /\ begun' = begun
    <3>1. db' = db /\ file' = file
      BY <1>9 DEF Begin
    <3> QED
      BY <1>moved, <2>1, <3>1
  <2>2. CASE /\ at' = [at EXCEPT ![p] = "read"]
             /\ seen' = [seen EXCEPT ![p] = [project |-> db.project]]
             /\ begun' = [begun EXCEPT ![p] = db]
    <3>1. /\ PerProcess(at') /\ PerProcess(seen') /\ PerProcess(begun')
          /\ \A q \in Process \ {p} :
               at'[q] = at[q] /\ seen'[q] = seen[q] /\ begun'[q] = begun[q]
          /\ at'[p] = "read" /\ seen'[p] = [project |-> db.project] /\ begun'[p] = db
      BY <1>1, <2>2 DEF PerProcess
    <3>2. DOMAIN [project |-> db.project] = {"project"}
      OBVIOUS
    <3>3. \A x, l, e : x = "project" => Grown(x, l, e)
      BY TheTables DEF Grown
    <3>4. Between(db, "read", [project |-> db.project], db)
      BY <1>1, <3>2, <3>3, GrownReflexive DEF Between, ReadSoFar
    <3>5. db' = db /\ file' = file
      BY <1>9 DEF Begin
    <3>6. Between(db, at'[p], seen'[p], begun'[p])
      BY <3>1, <3>4
    <3> QED
      BY <1>1, <3>1, <3>5, <3>6, ReaderStep
  <2> QED
    BY <1>9, <2>1, <2>2 DEF Begin, Goes
<1>10. ASSUME NEW p \in Process, Read(p) PROVE SnapshotInv'
  <2>1. PICK n, part, more :
          /\ n = Cardinality(DOMAIN seen[p]) + 1
          /\ part = Parts[n]
          /\ more = [x \in DOMAIN seen[p] \cup {part} |-> IF x = part THEN db[part] ELSE seen[p][x]]
    OBVIOUS
  <2>2. /\ at[p] = "read" /\ db' = db /\ file' = file /\ begun' = begun
        /\ seen' = [seen EXCEPT ![p] = more]
        /\ at' = [at EXCEPT ![p] = IF n = Len(Parts) THEN "open" ELSE "read"]
    BY <1>1, <1>10, <2>1 DEF Read, Goes, PerProcess
  <2>3. /\ PerProcess(at') /\ PerProcess(seen') /\ PerProcess(begun')
        /\ \A q \in Process \ {p} :
             at'[q] = at[q] /\ seen'[q] = seen[q] /\ begun'[q] = begun[q]
        /\ at'[p] = IF n = Len(Parts) THEN "open" ELSE "read"
        /\ seen'[p] = more /\ begun'[p] = begun[p]
    BY <1>1, <2>2 DEF PerProcess
  <2>4. Between(db, "read", seen[p], begun[p])
    BY <1>1, <2>2
  <2>5. Between(db, IF n = Len(Parts) THEN "open" ELSE "read", more, begun[p])
    <3>1. PICK read, first : read = seen[p] /\ first = begun[p]
      OBVIOUS
    <3> QED
      BY <1>1, <2>1, <2>4, <3>1, BetweenRead
  <2>6. Between(db, at'[p], seen'[p], begun'[p])
    BY <2>3, <2>5
  <2> QED
    BY <1>1, <2>2, <2>3, <2>6, ReaderStep
<1>11. ASSUME NEW p \in Process, Open(p) PROVE SnapshotInv'
  <2>1. /\ at[p] = "open" /\ db' = db /\ file' = Empty /\ seen' = seen /\ begun' = begun
        /\ at' = [at EXCEPT ![p] = "write"]
    BY <1>11 DEF Open, Goes
  <2>2. /\ PerProcess(at') /\ at'[p] = "write"
        /\ \A q \in Process \ {p} : at'[q] = at[q]
    BY <1>1, <2>1 DEF PerProcess
  <2>3. Between(db, "open", seen[p], begun[p])
    BY <1>1, <2>1
  <2>4. Between(db, at'[p], seen'[p], begun'[p])
    BY <2>1, <2>2, <2>3 DEF Between, ReadSoFar
  <2> QED
    BY <1>1, <2>1, <2>2, <2>4, ReaderStep
<1>12. ASSUME NEW p \in Process, db' = db, at' = [at EXCEPT ![p] = "idle"],
              seen' = [seen EXCEPT ![p] = <<>>], begun' = [begun EXCEPT ![p] = None],
              file' \in {None, Empty} \/ \A x \in PartSet : Grown(x, db[x], file'[x])
       PROVE  SnapshotInv'
  <2>1. /\ PerProcess(at') /\ PerProcess(seen') /\ PerProcess(begun') /\ at'[p] = "idle"
        /\ \A q \in Process \ {p} :
             at'[q] = at[q] /\ seen'[q] = seen[q] /\ begun'[q] = begun[q]
    BY <1>1, <1>12 DEF PerProcess
  <2>2. Between(db, at'[p], seen'[p], begun'[p])
    BY <2>1 DEF Between
  <2> QED
    BY <1>12, <2>1, <2>2, ReaderStep
<1>13. ASSUME NEW p \in Process, Write(p) PROVE SnapshotInv'
  <2>1. /\ at[p] = "write" /\ db' = db /\ file' = seen[p] /\ at' = [at EXCEPT ![p] = "idle"]
        /\ seen' = [seen EXCEPT ![p] = <<>>] /\ begun' = [begun EXCEPT ![p] = None]
    BY <1>13 DEF Write, Goes
  <2>2. Between(db, "write", seen[p], begun[p])
    BY <1>1, <2>1
  <2>3. \A x \in PartSet : Grown(x, db[x], file'[x])
    BY <2>1, <2>2 DEF Between, ReadSoFar
  <2> QED
    BY <1>12, <2>1, <2>3
<1>14. ASSUME NEW p \in Process, Kill(p) PROVE SnapshotInv'
  <2>1. /\ db' = db /\ file' = file /\ at' = [at EXCEPT ![p] = "idle"]
        /\ seen' = [seen EXCEPT ![p] = <<>>] /\ begun' = [begun EXCEPT ![p] = None]
    BY <1>14 DEF Kill, Goes
  <2> QED
    BY <1>1, <1>12, <2>1
<1>15. ASSUME NEW m \in Messages, NEW c \in 0..MaxMessages, Say(m, c) PROVE SnapshotInv'
  BY <1>kept, <1>15 DEF Say
<1>16. ASSUME NEW n \in DOMAIN said, Consider(n) PROVE SnapshotInv'
  BY <1>kept, <1>16 DEF Consider
<1>17. CASE Recording
  <2>1. /\ UNCHANGED <<file, seen, begun>> /\ at' = at
        /\ \E s : db' = Execute(db, s)
    BY <1>17 DEF Recording
  <2> QED
    BY <1>3, <2>1
<1>18. CASE Confirm
  BY <1>kept, <1>18 DEF Confirm
<1>19. CASE Forget
  BY <1>kept, <1>19 DEF Forget
<1>20. CASE UNCHANGED stateVars
  BY <1>kept, <1>20 DEF stateVars
<1> QED
  BY <1>5, <1>6, <1>7, <1>8, <1>9, <1>10, <1>11, <1>13, <1>14, <1>15, <1>16, <1>17, <1>18,
     <1>19, <1>20 DEF StateNext

LEMMA SnapshotInvHolds == StateSpec => []SnapshotInv
  BY InitSnapshotInv, NextSnapshotInv, PTL DEF StateSpec

(* No identifier has two rows in a table.                                  *)
Unique(rows) == \A i, j \in DOMAIN rows : rows[i].id = rows[j].id => i = j

LEMMA InsertedOnce ==
  ASSUME NEW rows, IsSequence(rows), Unique(rows), NEW row
  PROVE  Unique(InsertOrIgnore(rows, row))
<1>1. Len(rows) \in Nat /\ DOMAIN rows = 1..Len(rows)
  BY SequenceIndices
<1>2. CASE \E n \in DOMAIN rows : rows[n].id = row.id
  BY <1>2 DEF InsertOrIgnore
<1>3. CASE ~\E n \in DOMAIN rows : rows[n].id = row.id
  <2> DEFINE new == Append(rows, row)
  <2>1. /\ DOMAIN new = 1..Len(rows) + 1
        /\ \A i \in 1..Len(rows) : new[i] = rows[i]
        /\ new[Len(rows) + 1] = row
    BY AppendSequence
  <2> HIDE DEF new
  <2>2. \A i \in 1..Len(rows) : new[i].id # new[Len(rows) + 1].id
    BY <1>1, <1>3, <2>1
  <2>3. Unique(new)
    BY <1>1, <2>1, <2>2 DEF Unique
  <2> QED
    BY <1>3, <2>3 DEF InsertOrIgnore, new
<1> QED
  BY <1>2, <1>3

(* Where processes and bootstrap are; the tables.                          *)
Steps == {"idle", "run", "open binding", "write binding", "begin", "read", "open", "write"}
Places ==
  /\ binding \in {None, Empty, "written"} /\ starts \in 0..MaxStarts
  /\ at \in [Process -> Steps] /\ line \in 1..Len(Statements)
Singly == Whole(db) /\ \A t \in Tables : Unique(db[t])

LEMMA NextPlaces == ScriptIsSound /\ MaxStarts \in Nat /\ Places /\ [StateNext]_stateVars => Places'
<1> SUFFICES ASSUME ScriptIsSound, MaxStarts \in Nat, Places, [StateNext]_stateVars PROVE Places'
  OBVIOUS
<1>0. "bootstrap" \in Process /\ "snapshot" \in Process
  BY DEF Process
<1>moved. ASSUME NEW p \in Process, NEW s \in Steps, Goes(p, s), UNCHANGED <<binding, starts, line>>
          PROVE  Places'
  BY <1>moved DEF Places, Goes
<1>kept. ASSUME UNCHANGED <<binding, starts, at, line>> PROVE Places'
  BY <1>kept DEF Places
<1>1. CASE Start
  <2>1. binding' = binding /\ starts' = starts + 1 /\ starts < MaxStarts /\ line' = 1
    BY <1>1 DEF Start
  <2>2. starts' \in 0..MaxStarts
    BY <2>1 DEF Places
  <2>3. line' \in 1..Len(Statements)
    BY <2>1 DEF ScriptIsSound
  <2>4. at' = [at EXCEPT !["bootstrap"] = "run"]
    BY <1>1 DEF Start, Goes
  <2>5. at' \in [Process -> Steps]
    BY <1>0, <2>4 DEF Places, Steps
  <2> QED
    BY <2>1, <2>2, <2>3, <2>5 DEF Places
<1>2. CASE RunStatement
  <2>1. UNCHANGED <<binding, starts>> /\ line \in 1..Len(Statements) /\ Len(Statements) \in Nat
    BY <1>2 DEF RunStatement, Places, ScriptIsSound
  <2>2. CASE line = Len(Statements)
    BY <1>0, <1>2, <1>moved, <2>1, <2>2 DEF RunStatement, Steps
  <2>3. CASE line # Len(Statements)
    <3>1. line' = line + 1 /\ at' = at
      BY <1>2, <2>3 DEF RunStatement
    <3>2. line' \in 1..Len(Statements)
      BY <2>1, <2>3, <3>1
    <3> QED
      BY <2>1, <3>1, <3>2 DEF Places
  <2> QED
    BY <2>2, <2>3
<1>3. CASE Bind
  <2>1. PICK s \in {"write binding", "begin"} :
          Goes("bootstrap", s) /\ UNCHANGED <<starts, line>> /\ binding' \in {Empty, "written"}
    BY <1>3 DEF Bind
  <2>2. at' \in [Process -> Steps]
    BY <1>0, <2>1 DEF Goes, Places, Steps
  <2> QED
    BY <2>1, <2>2 DEF Places
<1>4. CASE StartSnapshot
  BY <1>0, <1>4, <1>moved DEF StartSnapshot, Steps
<1>5. ASSUME NEW p \in Process, Begin(p) PROVE Places'
  BY <1>5, <1>moved DEF Begin, Steps
<1>6. ASSUME NEW p \in Process, Read(p) PROVE Places'
  <2>1. \E s \in {"open", "read"} : Goes(p, s)
    BY <1>6 DEF Read
  <2> QED
    BY <1>6, <1>moved, <2>1 DEF Read, Steps
<1>7. ASSUME NEW p \in Process, Open(p) PROVE Places'
  BY <1>7, <1>moved DEF Open, Steps
<1>8. ASSUME NEW p \in Process, Write(p) PROVE Places'
  BY <1>8, <1>moved DEF Write, Steps
<1>9. ASSUME NEW p \in Process, Kill(p) PROVE Places'
  BY <1>9, <1>moved DEF Kill, Steps
<1>10. ASSUME NEW m \in Messages, NEW c \in 0..MaxMessages, Say(m, c) PROVE Places'
  BY <1>10, <1>kept DEF Say
<1>11. ASSUME NEW n \in DOMAIN said, Consider(n) PROVE Places'
  BY <1>11, <1>kept DEF Consider
<1>12. CASE Recording
  BY <1>12, <1>kept DEF Recording
<1>13. CASE Confirm
  BY <1>13, <1>kept DEF Confirm
<1>14. CASE Forget
  BY <1>14, <1>kept DEF Forget
<1>15. CASE UNCHANGED stateVars
  BY <1>15, <1>kept DEF stateVars
<1> QED
  BY <1>1, <1>2, <1>3, <1>4, <1>5, <1>6, <1>7, <1>8, <1>9, <1>10, <1>11, <1>12, <1>13, <1>14,
     <1>15 DEF StateNext

LEMMA NextSingly == Singly /\ [StateNext]_stateVars => Singly'
<1> SUFFICES ASSUME Singly, [StateNext]_stateVars PROVE Singly'
  OBVIOUS
<1>1. db' = db \/ \E s : db' = Execute(db, s)
  BY DEF StateNext, stateVars, Start, RunStatement, Bind, StartSnapshot, Begin, Read, Open, Write,
         Kill, Say, Consider, Recording, Confirm, Forget
<1>2. ASSUME NEW s, db' = Execute(db, s) PROVE Singly'
  <2>1. Whole(db')
    BY <1>2, ExecutedGrows DEF Singly
  <2>2. ASSUME NEW t \in Tables PROVE Unique(db'[t])
    <3>1. db'[t] = IF s.table = t THEN InsertOrIgnore(db[t], RowOf(s)) ELSE db[t]
      BY <1>2, Executed DEF Singly
    <3> QED
      BY <3>1, InsertedOnce DEF Singly, Whole
  <2> QED
    BY <2>1, <2>2 DEF Singly
<1> QED
  BY <1>1, <1>2 DEF Singly

(* Processes are at one of their steps and bootstrap at one of its         *)
(* statements, and no identifier has two rows, whoever inserts.            *)
THEOREM StateTypeCorrect == StateSpec => []StateTypeOK
<1>1. ScriptIsSound /\ MaxStarts \in Nat
  BY BootstrapAssumption
<1>2. StateInit => Places
  BY <1>1 DEF StateInit, Places, Steps, ScriptIsSound
<1>3. StateInit => Singly
  <2>1. \A t \in Tables : Blank[t] = <<>>
    BY BlankIsWhole
  <2> QED
    BY <2>1, BlankIsWhole, EmptySequence DEF StateInit, Singly, Unique
<1>4. Places /\ [StateNext]_stateVars => Places'
  BY <1>1, NextPlaces
<1>5. Places /\ Singly => StateTypeOK
  <2> SUFFICES ASSUME Places, Singly, NEW t \in Tables
               PROVE  IsInjective([n \in DOMAIN db[t] |-> db[t][n].id])
    BY DEF StateTypeOK, Places, Steps
  <2> QED
    BY DEF Singly, Unique, IsInjective
<1> QED
  BY <1>2, <1>3, <1>4, <1>5, NextSingly, PTL DEF StateSpec

(* A snapshot about to be written holds what was committed before it       *)
(* began, and neither it nor the file holds what was not, however many     *)
(* statements were run while it was read.  Bootstrap's own snapshot and    *)
(* the snapshot command are the two that read and write.                   *)
THEOREM SnapshotAlwaysPast == StateSpec => []SnapshotIsPast
<1>1. ASSUME NEW later, NEW earlier, \A x \in PartSet : Grown(x, later[x], earlier[x])
      PROVE  Holds(later, earlier)
  <2>1. ASSUME NEW t \in Tables
        PROVE  IsSequence(later[t]) /\ IsSequence(earlier[t]) /\ Extends(later[t], earlier[t])
    BY <1>1, TheTables DEF Grown
  <2>2. \A t \in Tables : IsPrefix(earlier[t], later[t])
    BY <2>1, ExtendsIsPrefix DEF IsPrefix
  <2>3. \A i \in DOMAIN earlier["decisions"] :
          i \in DOMAIN later["decisions"] /\ earlier["decisions"][i] = later["decisions"][i]
    <3>1. "decisions" \in Tables
      BY TheTables
    <3> QED
      BY <2>1, <3>1, SequenceIndices DEF Extends
  <2>4. Range(earlier["decisions"]) \subseteq Range(later["decisions"])
    BY <2>3 DEF Range
  <2>5. DOMAIN earlier["entities"] \subseteq DOMAIN later["entities"]
    BY <1>1 DEF Grown, PartSet
  <2> QED
    BY <2>2, <2>4, <2>5 DEF Holds
<1>2. SnapshotInv => SnapshotIsPast
  <2> SUFFICES ASSUME SnapshotInv PROVE SnapshotIsPast
    OBVIOUS
  <2>1. ASSUME NEW p \in Process, at[p] \in {"open", "write"}
        PROVE  Holds(seen[p], begun[p]) /\ Holds(db, seen[p])
    <3>1. \A x \in PartSet : Grown(x, seen[p][x], begun[p][x]) /\ Grown(x, db[x], seen[p][x])
      BY <2>1 DEF SnapshotInv, Between, ReadSoFar
    <3> QED
      BY <1>1, <3>1
  <2>2. ASSUME file \notin {None, Empty} PROVE Holds(db, file)
    BY <1>1, <2>2 DEF SnapshotInv
  <2> QED
    BY <2>1, <2>2 DEF SnapshotIsPast
<1> QED
  BY <1>2, SnapshotInvHolds, PTL

-----------------------------------------------------------------------------
LEMMA IdsAreOwn ==
  /\ \A m, n : DecisionId(m) = DecisionId(n) => m = n
  /\ \A m, n : EventId(m) = EventId(n) => m = n
  BY DEF DecisionId, EventId

(* Rows stay where they are, and messages too.                             *)
LEMMA RowsStay ==
  ASSUME NEW rows, NEW new, IsSequence(rows), IsSequence(new), Extends(new, rows),
         NEW talk, NEW n
  PROVE  /\ DecisionHeld(rows, talk, n) => DecisionHeld(new, talk, n)
         /\ EventHeld(rows, n) => EventHeld(new, n)
<1>1. \A i \in DOMAIN rows : i \in DOMAIN new /\ new[i] = rows[i]
  BY SequenceIndices DEF Extends
<1> QED
  BY <1>1 DEF DecisionHeld, EventHeld

LEMMA HeldRowsStand ==
  ASSUME NEW d, NEW new, Whole(d), Whole(new), \A x \in PartSet : Grown(x, new[x], d[x]),
         NEW talk
  PROVE  /\ \A n : DecisionHeld(d.decisions, talk, n) => DecisionHeld(new.decisions, talk, n)
         /\ \A n : EventHeld(d.events, n) => EventHeld(new.events, n)
         /\ TalkIsSound(talk, d) => TalkIsSound(talk, new)
<1>1. /\ IsSequence(d["decisions"]) /\ IsSequence(new["decisions"])
      /\ Extends(new["decisions"], d["decisions"])
      /\ IsSequence(d["events"]) /\ IsSequence(new["events"])
      /\ Extends(new["events"], d["events"])
  BY TheTables DEF Whole, Grown
<1>2. \A n : DecisionHeld(d.decisions, talk, n) => DecisionHeld(new.decisions, talk, n)
  BY <1>1, RowsStay
<1>3. \A n : EventHeld(d.events, n) => EventHeld(new.events, n)
  BY <1>1, RowsStay
<1>4. \A n : Answers(talk, d, n) => Answers(talk, new, n)
  BY <1>2, <1>3 DEF Answers
<1> QED
  BY <1>2, <1>3, <1>4 DEF TalkIsSound

(* A statement that uses none of the Lead's identifiers leaves its rows    *)
(* as they are; the Lead's own statements write what they should.          *)
LEMMA ForeignRows ==
  ASSUME NEW d, Whole(d), NEW talk, RowsAreTrue(d, talk), NEW s,
         s.table \in {"decisions", "events"} =>
           \A n \in 1..MaxMessages : s.id \notin {DecisionId(n), EventId(n)}
  PROVE  RowsAreTrue(Execute(d, s), talk)
<1> DEFINE new == Execute(d, s)
<1>1. ASSUME NEW t \in {"decisions", "events"}, NEW i \in DOMAIN new[t]
      PROVE  \/ s.table = t /\ new[t][i].id = s.id
             \/ i \in DOMAIN d[t] /\ new[t][i] = d[t][i]
  <2>1. t \in Tables /\ IsSequence(d[t])
    BY TheTables DEF Whole
  <2>2. new[t] = IF s.table = t THEN InsertOrIgnore(d[t], RowOf(s)) ELSE d[t]
    BY <2>1, Executed
  <2>3. RowOf(s).id = s.id
    BY DEF RowOf
  <2>4. PICK old, cur, row : old = d[t] /\ cur = new[t] /\ row = RowOf(s)
    OBVIOUS
  <2>5. CASE s.table = t
    <3>1. IsSequence(old) /\ cur = InsertOrIgnore(old, row)
      BY <2>1, <2>2, <2>4, <2>5
    <3>2. \A n \in DOMAIN cur : cur[n] = row \/ (n \in DOMAIN old /\ cur[n] = old[n])
      BY <3>1, Inserted
    <3> QED
      BY <2>3, <2>4, <2>5, <3>2
  <2> QED
    BY <2>2, <2>5
<1> HIDE DEF new
<1>2. ASSUME NEW n \in 1..MaxMessages, NEW i \in DOMAIN new["decisions"],
             new["decisions"][i].id = DecisionId(n)
      PROVE  n <= Len(talk) /\ new["decisions"][i].data = talk[n].payload.verbatimResponse
  <2>1. i \in DOMAIN d["decisions"] /\ new["decisions"][i] = d["decisions"][i]
    BY <1>1, <1>2
  <2> QED
    BY <1>2, <2>1 DEF RowsAreTrue
<1>3. ASSUME NEW n \in 1..MaxMessages, NEW i \in DOMAIN new["events"],
             new["events"][i].id = EventId(n)
      PROVE  new["events"][i].data = DecisionId(n)
  <2>1. i \in DOMAIN d["events"] /\ new["events"][i] = d["events"][i]
    BY <1>1, <1>3
  <2> QED
    BY <1>3, <2>1 DEF RowsAreTrue
<1> QED
  BY <1>2, <1>3 DEF RowsAreTrue, new

LEMMA LeadsDecision ==
  ASSUME NEW d, Whole(d), NEW talk, RowsAreTrue(d, talk), Len(talk) \in Nat,
         Len(talk) <= MaxMessages, MaxMessages \in Nat, NEW k \in 1..Len(talk), NEW s,
         s = Statement("decisions", DecisionId(k), talk[k].payload.verbatimResponse)
  PROVE  /\ RowsAreTrue(Execute(d, s), talk)
         /\ DecisionHeld(Execute(d, s).decisions, talk, k)
<1>1. /\ s.table = "decisions" /\ s.id = DecisionId(k)
      /\ s.data = talk[k].payload.verbatimResponse
  BY DEF Statement
<1>2. PICK row : row = RowOf(s)
  OBVIOUS
<1>3. row.id = DecisionId(k) /\ row.data = talk[k].payload.verbatimResponse
  BY <1>1, <1>2 DEF RowOf
<1>4. PICK new : new = Execute(d, s)
  OBVIOUS
<1>5. /\ new["decisions"] = InsertOrIgnore(d["decisions"], row)
      /\ new["events"] = d["events"]
  BY <1>1, <1>2, <1>4, TheTables, Executed
<1>6. IsSequence(d["decisions"])
  BY TheTables DEF Whole
<1>7. /\ \A i \in DOMAIN new["decisions"] :
           \/ new["decisions"][i] = row
           \/ i \in DOMAIN d["decisions"] /\ new["decisions"][i] = d["decisions"][i]
      /\ \E i \in DOMAIN new["decisions"] : new["decisions"][i].id = row.id
  <2>1. PICK old, cur : old = d["decisions"] /\ cur = new["decisions"]
    OBVIOUS
  <2>2. IsSequence(old) /\ cur = InsertOrIgnore(old, row)
    BY <1>5, <1>6, <2>1
  <2>3. \A i \in DOMAIN cur : cur[i] = row \/ (i \in DOMAIN old /\ cur[i] = old[i])
    BY <2>2, Inserted
  <2>4. HasId(cur, row.id)
    BY <2>2, Inserted
  <2> QED
    BY <2>1, <2>3, <2>4 DEF HasId
<1>8. k \in 1..MaxMessages /\ k <= Len(talk)
  OBVIOUS
<1>9. ASSUME NEW n \in 1..MaxMessages, NEW i \in DOMAIN new["decisions"],
             new["decisions"][i].id = DecisionId(n)
      PROVE  n <= Len(talk) /\ new["decisions"][i].data = talk[n].payload.verbatimResponse
  <2>1. CASE new["decisions"][i] = row
    <3>1. n = k
      BY <1>3, <1>9, <2>1, IdsAreOwn
    <3> QED
      BY <1>3, <1>8, <2>1, <3>1
  <2>2. CASE i \in DOMAIN d["decisions"] /\ new["decisions"][i] = d["decisions"][i]
    BY <1>9, <2>2 DEF RowsAreTrue
  <2> QED
    BY <1>7, <2>1, <2>2
<1>10. RowsAreTrue(new, talk)
  BY <1>5, <1>9 DEF RowsAreTrue
<1>11. DecisionHeld(new["decisions"], talk, k)
  BY <1>3, <1>7, <1>8, <1>9 DEF DecisionHeld
<1> QED
  BY <1>4, <1>10, <1>11

LEMMA LeadsEvent ==
  ASSUME NEW d, Whole(d), NEW talk, RowsAreTrue(d, talk), NEW k \in 1..MaxMessages, NEW s,
         s = Statement("events", EventId(k), DecisionId(k))
  PROVE  RowsAreTrue(Execute(d, s), talk) /\ EventHeld(Execute(d, s).events, k)
<1>1. s.table = "events" /\ s.id = EventId(k) /\ s.data = DecisionId(k)
  BY DEF Statement
<1>2. PICK row : row = RowOf(s)
  OBVIOUS
<1>3. row.id = EventId(k) /\ row.data = DecisionId(k)
  BY <1>1, <1>2 DEF RowOf
<1>4. PICK new : new = Execute(d, s)
  OBVIOUS
<1>5. /\ new["events"] = InsertOrIgnore(d["events"], row)
      /\ new["decisions"] = d["decisions"]
  BY <1>1, <1>2, <1>4, TheTables, Executed
<1>6. IsSequence(d["events"])
  BY TheTables DEF Whole
<1>7. /\ \A i \in DOMAIN new["events"] :
           \/ new["events"][i] = row
           \/ i \in DOMAIN d["events"] /\ new["events"][i] = d["events"][i]
      /\ \E i \in DOMAIN new["events"] : new["events"][i].id = row.id
  <2>1. PICK old, cur : old = d["events"] /\ cur = new["events"]
    OBVIOUS
  <2>2. IsSequence(old) /\ cur = InsertOrIgnore(old, row)
    BY <1>5, <1>6, <2>1
  <2>3. \A i \in DOMAIN cur : cur[i] = row \/ (i \in DOMAIN old /\ cur[i] = old[i])
    BY <2>2, Inserted
  <2>4. HasId(cur, row.id)
    BY <2>2, Inserted
  <2> QED
    BY <2>1, <2>3, <2>4 DEF HasId
<1>8. ASSUME NEW n \in 1..MaxMessages, NEW i \in DOMAIN new["events"],
             new["events"][i].id = EventId(n)
      PROVE  new["events"][i].data = DecisionId(n)
  <2>1. CASE new["events"][i] = row
    <3>1. n = k
      BY <1>3, <1>8, <2>1, IdsAreOwn
    <3> QED
      BY <1>3, <2>1, <3>1
  <2>2. CASE i \in DOMAIN d["events"] /\ new["events"][i] = d["events"][i]
    BY <1>8, <2>2 DEF RowsAreTrue
  <2> QED
    BY <1>7, <2>1, <2>2
<1>9. RowsAreTrue(new, talk)
  BY <1>5, <1>8 DEF RowsAreTrue
<1>10. EventHeld(new["events"], k)
  BY <1>3, <1>7, <1>8 DEF EventHeld
<1> QED
  BY <1>4, <1>9, <1>10

-----------------------------------------------------------------------------
(* A message the gateway passes.                                           *)
LEMMA RelayedDecision ==
  ASSUME NEW source, NEW relay, Gateway!ValidRelay(source, relay),
         relay.kind = "decision_submission"
  PROVE  /\ source.kind = "user_decision" /\ source.conversation = relay.conversation
         /\ source.payload.verbatimResponse = relay.payload.verbatimResponse
<1>1. source.kind = "user_decision"
  BY DEF Gateway!ValidRelay, Gateway!RelayOf
<1>2. Gateway!RequiredFields("user_decision") = {"selectedOption", "verbatimResponse"}
  BY DEF Gateway!RequiredFields
<1>3. "verbatimResponse" \in DOMAIN source.payload
  BY <1>1, <1>2 DEF Gateway!ValidRelay, Gateway!ValidEnvelope
<1>4. "verbatimResponse" \in Gateway!Verbatim
  BY DEF Gateway!Verbatim
<1> QED
  BY <1>1, <1>3, <1>4 DEF Gateway!ValidRelay

LEMMA SubmissionIsRelayed ==
  ASSUME NEW e, Gateway!ValidEnvelope(e), e.kind = "decision_submission"
  PROVE  e.sender = "liaison"
<1>1. /\ "decision_submission" \notin Gateway!FromUser
      /\ "decision_submission" \notin Gateway!FromLead
      /\ "decision_submission" \in Gateway!Proposals
      /\ "decision_submission" \notin Gateway!UserDirected
  <2>1. /\ "decision_submission" \notin Gateway!FromUser
        /\ "decision_submission" \notin Gateway!FromLead
        /\ "user_decision" \in Gateway!FromUser
    BY DEF Gateway!FromUser, Gateway!FromLead
  <2>2. Gateway!RelayOf["user_decision"] = "decision_submission"
    BY DEF Gateway!RelayOf
  <2>3. \A k \in Gateway!FromLead \cap DOMAIN Gateway!RelayOf :
          Gateway!RelayOf[k] # "decision_submission"
    BY DEF Gateway!FromLead, Gateway!RelayOf
  <2> QED
    BY <2>1, <2>2, <2>3 DEF Gateway!Proposals, Gateway!UserDirected
<1>2. Gateway!Direction("decision_submission") = <<"liaison", "project_lead">>
  BY <1>1 DEF Gateway!Direction
<1>3. <<e.sender, e.recipient>> = <<"liaison", "project_lead">>
  BY <1>2 DEF Gateway!ValidEnvelope
<1> QED
  BY <1>3

(* Saying one more thing changes nothing that was said.                    *)
LEMMA TalkGoesOn ==
  ASSUME NEW talk, NEW d, TalkIsSound(talk, d), NEW e, NEW new, new = Append(talk, e),
         Len(talk) < MaxMessages, MaxMessages \in Nat,
         e.kind = "decision_submission" =>
           \E m \in 1..Len(talk) :
             /\ talk[m].kind = "user_decision" /\ talk[m].conversation = e.conversation
             /\ talk[m].payload.verbatimResponse = e.payload.verbatimResponse,
         e.kind = "decision_recorded" =>
           \E k \in 1..Len(talk) :
             /\ talk[k].kind = "decision_submission" /\ talk[k].conversation = e.conversation
             /\ e.payload.decisionId = DecisionId(k)
             /\ e.payload.eventIds = {EventId(k)}
             /\ DecisionHeld(d.decisions, talk, k) /\ EventHeld(d.events, k)
  PROVE  /\ TalkIsSound(new, d)
         /\ RowsAreTrue(d, talk) => RowsAreTrue(d, new)
         /\ \A l : LeadIsSound(l, talk, d) => LeadIsSound(l, new, d)
<1>1. /\ IsSequence(new) /\ Len(new) = Len(talk) + 1 /\ Len(talk) \in Nat
      /\ \A i \in 1..Len(talk) : new[i] = talk[i]
      /\ new[Len(talk) + 1] = e
  BY AppendSequence, SequenceIndices DEF TalkIsSound
<1>2. \A n \in 1..Len(talk) : DecisionHeld(d.decisions, talk, n) => DecisionHeld(d.decisions, new, n)
  BY <1>1 DEF DecisionHeld
<1>3. ASSUME NEW n \in 1..Len(new), new[n].kind = "decision_submission" PROVE Submitted(new, n)
  <2>1. CASE n \in 1..Len(talk)
    <3>1. Submitted(talk, n)
      BY <1>1, <1>3, <2>1 DEF TalkIsSound
    <3> QED
      BY <1>1, <2>1, <3>1 DEF Submitted
  <2>2. CASE n = Len(talk) + 1
    <3>1. PICK m \in 1..Len(talk) :
             /\ talk[m].kind = "user_decision" /\ talk[m].conversation = e.conversation
             /\ talk[m].payload.verbatimResponse = e.payload.verbatimResponse
      BY <1>1, <1>3, <2>2
    <3> QED
      BY <1>1, <2>2, <3>1 DEF Submitted
  <2> QED
    BY <1>1, <2>1, <2>2
<1>4. ASSUME NEW n \in 1..Len(new), new[n].kind = "decision_recorded" PROVE Answers(new, d, n)
  <2>1. CASE n \in 1..Len(talk)
    <3>1. PICK k \in 1..n-1 :
            /\ talk[k].kind = "decision_submission"
            /\ talk[k].conversation = talk[n].conversation
            /\ talk[n].payload.decisionId = DecisionId(k)
            /\ talk[n].payload.eventIds = {EventId(k)}
            /\ DecisionHeld(d.decisions, talk, k) /\ EventHeld(d.events, k)
      BY <1>1, <1>4, <2>1 DEF TalkIsSound, Answers
    <3>2. k \in 1..Len(talk) /\ new[k] = talk[k] /\ new[n] = talk[n]
      BY <1>1, <2>1
    <3>3. DecisionHeld(d.decisions, new, k)
      BY <1>2, <3>1, <3>2
    <3> QED
      BY <3>1, <3>2, <3>3 DEF Answers
  <2>2. CASE n = Len(talk) + 1
    <3>1. PICK k \in 1..Len(talk) :
             /\ talk[k].kind = "decision_submission" /\ talk[k].conversation = e.conversation
             /\ e.payload.decisionId = DecisionId(k)
             /\ e.payload.eventIds = {EventId(k)}
             /\ DecisionHeld(d.decisions, talk, k) /\ EventHeld(d.events, k)
      BY <1>1, <1>4, <2>2
    <3>2. k \in 1..n-1 /\ new[k] = talk[k] /\ new[n] = e
      BY <1>1, <2>2
    <3>3. DecisionHeld(d.decisions, new, k)
      BY <1>2, <3>1
    <3> QED
      BY <3>1, <3>2, <3>3 DEF Answers
  <2> QED
    BY <1>1, <2>1, <2>2
<1>5. TalkIsSound(new, d)
  BY <1>1, <1>3, <1>4 DEF TalkIsSound
<1>6. ASSUME RowsAreTrue(d, talk) PROVE RowsAreTrue(d, new)
  <2>1. ASSUME NEW n \in 1..MaxMessages, NEW i \in DOMAIN d.decisions,
               d.decisions[i].id = DecisionId(n)
        PROVE  n <= Len(new) /\ d.decisions[i].data = new[n].payload.verbatimResponse
    <3>1. n <= Len(talk) /\ d.decisions[i].data = talk[n].payload.verbatimResponse
      BY <1>6, <2>1 DEF RowsAreTrue
    <3>2. n \in 1..Len(talk) /\ n <= Len(new)
      BY <1>1, <3>1
    <3> QED
      BY <1>1, <3>1, <3>2
  <2> QED
    BY <1>6, <2>1 DEF RowsAreTrue
<1>7. ASSUME NEW l, LeadIsSound(l, talk, d), l # None PROVE LeadIsSound(l, new, d)
  <2>1. l.submission \in 1..Len(talk) /\ l.submission \in 1..Len(new)
    BY <1>1, <1>7 DEF LeadIsSound
  <2>2. new[l.submission] = talk[l.submission]
    BY <1>1, <2>1
  <2>3. l.writes >= 1 => DecisionHeld(d.decisions, new, l.submission)
    BY <1>2, <1>7, <2>1 DEF LeadIsSound
  <2> QED
    BY <1>7, <2>1, <2>2, <2>3 DEF LeadIsSound
<1>8. \A l : LeadIsSound(l, talk, d) => LeadIsSound(l, new, d)
  <2>1. \A l : l = None => LeadIsSound(l, new, d)
    BY DEF LeadIsSound
  <2> QED
    BY <1>7, <2>1
<1> QED
  BY <1>5, <1>6, <1>8

LEMMA InitReceiptInv ==
  ASSUME ScriptIsSound, MaxMessages \in Nat, StateInit PROVE ReceiptInv
<1>1. /\ db = Blank /\ line = 1 /\ said = <<>> /\ lead = None
  BY DEF StateInit
<1>2. 1 \in 1..Len(Statements)
  BY DEF ScriptIsSound
<1>3. Blank["decisions"] = <<>> /\ Blank["events"] = <<>>
  BY TheTables, BlankIsWhole
<1>4. RowsAreTrue(Blank, <<>>)
  BY <1>3, EmptySequence DEF RowsAreTrue
<1>5. TalkIsSound(<<>>, Blank)
  BY EmptySequence DEF TalkIsSound
<1> QED
  BY <1>1, <1>2, <1>4, <1>5, BlankIsWhole DEF ReceiptInv, LeadIsSound

LEMMA NextReceiptInv ==
  ASSUME ScriptIsSound, MaxMessages \in Nat, ReceiptInv, [StateNext]_stateVars
  PROVE  ReceiptInv'
<1>1. /\ Whole(db) /\ line \in 1..Len(Statements) /\ TalkIsSound(said, db)
      /\ LeadIsSound(lead, said, db) /\ RowsAreTrue(db, said)
  BY DEF ReceiptInv
<1>2. Len(said) \in Nat /\ Len(said) <= MaxMessages /\ DOMAIN said = 1..Len(said)
  BY <1>1, SequenceIndices DEF TalkIsSound
<1>3. ASSUME UNCHANGED <<db, said, lead>>, line' \in 1..Len(Statements) PROVE ReceiptInv'
  BY <1>1, <1>3 DEF ReceiptInv
<1>4. ASSUME UNCHANGED <<db, said, lead, line>> PROVE ReceiptInv'
  BY <1>1, <1>4 DEF ReceiptInv
<1>5. CASE Start
  <2>1. UNCHANGED <<db, said, lead>> /\ line' = 1
    BY <1>5 DEF Start
  <2>2. 1 \in 1..Len(Statements)
    BY DEF ScriptIsSound
  <2> QED
    BY <1>3, <2>1, <2>2
<1>6. CASE RunStatement
  <2>1. PICK s, new : s = Statements[line] /\ new = Execute(db, s)
    OBVIOUS
  <2>2. db' = new /\ said' = said /\ lead' = lead
    BY <1>6, <2>1 DEF RunStatement
  <2>3. line' \in 1..Len(Statements)
    <3>1. line' = line \/ (line # Len(Statements) /\ line' = line + 1)
      BY <1>6 DEF RunStatement
    <3>2. Len(Statements) \in Nat
      BY DEF ScriptIsSound
    <3> QED
      BY <1>1, <3>1, <3>2
  <2>4. s.table \in {"decisions", "events"} =>
           \A n \in 1..MaxMessages : s.id \notin {DecisionId(n), EventId(n)}
    BY <1>1, <2>1 DEF ScriptIsSound, OwnIdentifiers
  <2>5. RowsAreTrue(new, said)
    <3>1. PICK d, talk : d = db /\ talk = said
      OBVIOUS
    <3> QED
      BY <1>1, <2>1, <2>4, <3>1, ForeignRows
  <2>6. Whole(new) /\ \A x \in PartSet : Grown(x, new[x], db[x])
    BY <1>1, <2>1, ExecutedGrows
  <2>7. /\ \A n : DecisionHeld(db.decisions, said, n) => DecisionHeld(new.decisions, said, n)
        /\ \A n : EventHeld(db.events, n) => EventHeld(new.events, n)
        /\ TalkIsSound(said, new)
    BY <1>1, <2>6, HeldRowsStand
  <2>8. LeadIsSound(lead, said, new)
    BY <1>1, <2>7 DEF LeadIsSound
  <2> QED
    BY <2>2, <2>3, <2>5, <2>6, <2>7, <2>8 DEF ReceiptInv
<1>7. CASE Bind
  BY <1>4, <1>7 DEF Bind
<1>8. CASE StartSnapshot
  BY <1>4, <1>8 DEF StartSnapshot
<1>9. ASSUME NEW p \in Process,
             Begin(p) \/ Read(p) \/ Open(p) \/ Write(p) \/ Kill(p)
      PROVE  ReceiptInv'
  BY <1>4, <1>9 DEF Begin, Read, Open, Write, Kill
<1>10. ASSUME NEW m \in Messages, NEW c \in 0..MaxMessages, Say(m, c) PROVE ReceiptInv'
  <2>1. PICK e : e = [id |-> Len(said) + 1, correlation |-> c, kind |-> m.kind,
                      conversation |-> m.conversation, sender |-> m.sender,
                      recipient |-> m.recipient, payload |-> m.payload]
    OBVIOUS
  <2>2. /\ Len(said) < MaxMessages /\ m.kind # "decision_recorded"
        /\ Gateway!ValidTranscript(Append(said, e))
        /\ e.sender = "liaison" => \E n \in DOMAIN said : Gateway!ValidRelay(said[n], e)
        /\ said' = Append(said, e) /\ UNCHANGED <<db, line, lead>>
    BY <1>10, <2>1 DEF Say
  <2>3. e.kind # "decision_recorded"
    BY <2>1, <2>2
  <2>4. Gateway!ValidEnvelope(e)
    <3>1. Len(said) + 1 \in DOMAIN Append(said, e) /\ Append(said, e)[Len(said) + 1] = e
      BY <1>1, <1>2, AppendSequence DEF TalkIsSound
    <3> QED
      BY <2>2, <3>1 DEF Gateway!ValidTranscript
  <2>5. e.kind = "decision_submission" =>
           \E k \in 1..Len(said) :
             /\ said[k].kind = "user_decision" /\ said[k].conversation = e.conversation
             /\ said[k].payload.verbatimResponse = e.payload.verbatimResponse
    <3> SUFFICES ASSUME e.kind = "decision_submission"
                 PROVE  \E k \in 1..Len(said) :
                          /\ said[k].kind = "user_decision" /\ said[k].conversation = e.conversation
                          /\ said[k].payload.verbatimResponse = e.payload.verbatimResponse
      OBVIOUS
    <3>1. e.sender = "liaison"
      BY <2>4, SubmissionIsRelayed
    <3>2. PICK k \in DOMAIN said : Gateway!ValidRelay(said[k], e)
      BY <2>2, <3>1
    <3> QED
      BY <1>2, <3>2, RelayedDecision
  <2>6. /\ TalkIsSound(said', db) /\ RowsAreTrue(db, said') /\ LeadIsSound(lead, said', db)
    <3>1. PICK talk, d, new : talk = said /\ d = db /\ new = said'
      OBVIOUS
    <3>2. /\ TalkIsSound(new, d)
          /\ RowsAreTrue(d, talk) => RowsAreTrue(d, new)
          /\ \A l : LeadIsSound(l, talk, d) => LeadIsSound(l, new, d)
      BY <1>1, <2>2, <2>3, <2>5, <3>1, TalkGoesOn
    <3> QED
      BY <1>1, <3>1, <3>2
  <2> QED
    BY <1>1, <2>2, <2>6 DEF ReceiptInv
<1>11. ASSUME NEW n \in DOMAIN said, Consider(n) PROVE ReceiptInv'
  <2>1. /\ said[n].kind = "decision_submission" /\ lead' = [submission |-> n, writes |-> 0]
        /\ UNCHANGED <<db, said, line>>
    BY <1>11 DEF Consider
  <2>2. LeadIsSound([submission |-> n, writes |-> 0], said, db)
    BY <1>2, <2>1 DEF LeadIsSound
  <2> QED
    BY <1>1, <2>1, <2>2 DEF ReceiptInv
<1>12. CASE Recording
  <2>1. PICK k, w : k = lead.submission /\ w = lead.writes
    OBVIOUS
  <2>2. /\ lead # None /\ w < 2
        /\ lead' = [lead EXCEPT !.writes = w + 1] /\ UNCHANGED <<said, line>>
        /\ db' = Execute(db, IF w = 0 THEN DecisionOf(k) ELSE EventOf(k))
    BY <1>12, <2>1 DEF Recording
  <2>3. /\ lead = [submission |-> k, writes |-> w] /\ k \in 1..Len(said) /\ w \in 0..2
        /\ said[k].kind = "decision_submission"
        /\ w >= 1 => DecisionHeld(db.decisions, said, k)
    BY <1>1, <2>1, <2>2 DEF LeadIsSound
  <2>4. lead' = [submission |-> k, writes |-> w + 1]
    BY <2>2, <2>3
  <2>5. PICK s : s = IF w = 0 THEN DecisionOf(k) ELSE EventOf(k)
    OBVIOUS
  <2>6. PICK new : new = Execute(db, s)
    OBVIOUS
  <2>7. Whole(new) /\ \A x \in PartSet : Grown(x, new[x], db[x])
    BY <1>1, <2>6, ExecutedGrows
  <2>8. /\ \A n : DecisionHeld(db.decisions, said, n) => DecisionHeld(new.decisions, said, n)
        /\ TalkIsSound(said, new)
    BY <1>1, <2>7, HeldRowsStand
  <2>9. PICK d, talk : d = db /\ talk = said
    OBVIOUS
  <2>10. CASE w = 0
    <3>1. s = Statement("decisions", DecisionId(k), said[k].payload.verbatimResponse)
      BY <2>5, <2>10 DEF DecisionOf
    <3>2. RowsAreTrue(new, said) /\ DecisionHeld(new.decisions, said, k)
      BY <1>1, <1>2, <2>3, <2>6, <2>9, <3>1, LeadsDecision
    <3>3. LeadIsSound([submission |-> k, writes |-> w + 1], said, new)
      BY <2>3, <2>10, <3>2 DEF LeadIsSound
    <3> QED
      BY <1>1, <2>2, <2>4, <2>5, <2>6, <2>7, <2>8, <3>2, <3>3 DEF ReceiptInv
  <2>11. CASE w = 1
    <3>1. s = Statement("events", EventId(k), DecisionId(k))
      BY <2>5, <2>11 DEF EventOf
    <3>2. k \in 1..MaxMessages
      BY <1>2, <2>3
    <3>3. RowsAreTrue(new, said) /\ EventHeld(new.events, k)
      BY <1>1, <2>6, <2>9, <3>1, <3>2, LeadsEvent
    <3>4. DecisionHeld(new.decisions, said, k)
      BY <2>3, <2>8, <2>11
    <3>5. LeadIsSound([submission |-> k, writes |-> w + 1], said, new)
      BY <2>3, <2>11, <3>3, <3>4 DEF LeadIsSound
    <3> QED
      BY <1>1, <2>2, <2>4, <2>5, <2>6, <2>7, <2>8, <3>3, <3>5 DEF ReceiptInv
  <2> QED
    BY <2>2, <2>3, <2>10, <2>11
<1>13. CASE Confirm
  <2>1. PICK k : k = lead.submission
    OBVIOUS
  <2>2. /\ lead # None /\ lead.writes = 2 /\ Len(said) < MaxMessages
    BY <1>13 DEF Confirm
  <2>3. PICK e : e = [id |-> Len(said) + 1, correlation |-> k, kind |-> "decision_recorded",
                      conversation |-> said[k].conversation,
                      sender |-> "project_lead", recipient |-> "liaison",
                      payload |-> [decisionId |-> DecisionOf(k).id,
                                   eventIds |-> {EventOf(k).id}]]
    OBVIOUS
  <2>4. said' = Append(said, e) /\ lead' = None /\ UNCHANGED <<db, line>>
    BY <1>13, <2>1, <2>3 DEF Confirm
  <2>5. /\ e.kind = "decision_recorded" /\ e.conversation = said[k].conversation
        /\ e.payload.decisionId = DecisionId(k)
        /\ e.payload.eventIds = {EventId(k)}
    BY <2>3 DEF DecisionOf, EventOf, Statement
  <2>6. /\ k \in 1..Len(said) /\ said[k].kind = "decision_submission"
        /\ DecisionHeld(db.decisions, said, k) /\ EventHeld(db.events, k)
    BY <1>1, <2>1, <2>2 DEF LeadIsSound
  <2>7. /\ TalkIsSound(said', db) /\ RowsAreTrue(db, said')
    <3>1. PICK talk, d, new : talk = said /\ d = db /\ new = said'
      OBVIOUS
    <3>2. /\ TalkIsSound(new, d)
          /\ RowsAreTrue(d, talk) => RowsAreTrue(d, new)
      BY <1>1, <2>2, <2>4, <2>5, <2>6, <3>1, TalkGoesOn
    <3> QED
      BY <1>1, <3>1, <3>2
  <2> QED
    BY <1>1, <2>4, <2>7 DEF ReceiptInv, LeadIsSound
<1>14. CASE Forget
  <2>1. lead' = None /\ UNCHANGED <<db, said, line>>
    BY <1>14 DEF Forget
  <2> QED
    BY <1>1, <2>1 DEF ReceiptInv, LeadIsSound
<1>15. CASE UNCHANGED stateVars
  BY <1>4, <1>15 DEF stateVars
<1> QED
  BY <1>5, <1>6, <1>7, <1>8, <1>9, <1>10, <1>11, <1>12, <1>13, <1>14, <1>15 DEF StateNext

LEMMA ReceiptInvHolds == StateSpec => []ReceiptInv
<1>1. ScriptIsSound /\ MaxMessages \in Nat
  BY BootstrapAssumption
<1>2. StateInit => ReceiptInv
  BY <1>1, InitReceiptInv
<1>3. ReceiptInv /\ [StateNext]_stateVars => ReceiptInv'
  BY <1>1, NextReceiptInv
<1> QED
  BY <1>2, <1>3, PTL DEF StateSpec

(* A receipt confirms what was recorded: the decision it names is in the   *)
(* database in the words the user said before it in that conversation, and *)
(* so is its event, whatever was stopped, begun again or rerun.            *)
THEOREM ReceiptAlwaysTrue == StateSpec => []ReceiptIsTrue
<1>1. ReceiptInv => ReceiptIsTrue
  <2> SUFFICES ASSUME ReceiptInv, NEW n \in DOMAIN said, said[n].kind = "decision_recorded"
               PROVE  \E m \in 1..n-1, d \in DOMAIN db.decisions :
                        /\ said[m].kind = "user_decision"
                        /\ said[m].conversation = said[n].conversation
                        /\ db.decisions[d].id = said[n].payload.decisionId
                        /\ db.decisions[d].data = said[m].payload.verbatimResponse
                        /\ \A i \in said[n].payload.eventIds :
                             \E e \in DOMAIN db.events :
                               db.events[e].id = i /\ db.events[e].data = db.decisions[d].id
    BY DEF ReceiptIsTrue
  <2>1. TalkIsSound(said, db)
    BY DEF ReceiptInv
  <2>2. DOMAIN said = 1..Len(said) /\ Len(said) \in Nat
    BY <2>1, SequenceIndices DEF TalkIsSound
  <2>3. PICK k \in 1..n-1 :
          /\ said[k].kind = "decision_submission"
          /\ said[k].conversation = said[n].conversation
          /\ said[n].payload.decisionId = DecisionId(k)
          /\ said[n].payload.eventIds = {EventId(k)}
          /\ DecisionHeld(db.decisions, said, k) /\ EventHeld(db.events, k)
    BY <2>1, <2>2 DEF TalkIsSound, Answers
  <2>4. PICK m \in 1..k-1 :
          /\ said[m].kind = "user_decision"
          /\ said[m].conversation = said[k].conversation
          /\ said[m].payload.verbatimResponse = said[k].payload.verbatimResponse
    <3>1. k \in 1..Len(said)
      BY <2>2, <2>3
    <3>2. Submitted(said, k)
      BY <2>1, <2>3, <3>1 DEF TalkIsSound
    <3> QED
      BY <3>2 DEF Submitted
  <2>5. PICK d \in DOMAIN db.decisions :
          /\ db.decisions[d].id = DecisionId(k)
          /\ db.decisions[d].data = said[k].payload.verbatimResponse
    BY <2>3 DEF DecisionHeld
  <2>6. PICK e \in DOMAIN db.events :
          db.events[e].id = EventId(k) /\ db.events[e].data = DecisionId(k)
    BY <2>3 DEF EventHeld
  <2>7. m \in 1..n-1
    BY <2>2, <2>3, <2>4
  <2> QED
    BY <2>3, <2>4, <2>5, <2>6, <2>7
<1> QED
  BY <1>1, ReceiptInvHolds, PTL

=============================================================================
