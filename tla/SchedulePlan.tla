---------------------------- MODULE SchedulePlan ----------------------------
(***************************************************************************)
(* What schedule (src/src/v3_aidlc/scheduler.py) promises: from one        *)
(* snapshot of the project it returns, in one step, the one plan the rules *)
(* allow.  The loop of Scheduler implements this.                          *)
(***************************************************************************)
EXTENDS SchedulingRules

VARIABLES
  cand,      \* the candidate submitted, or holding the reservation, per package
  status,    \* "idle" | "queued" | "reserved" | "done"
  current,   \* current_revisions
  waited,    \* now - queuedAt
  planned,   \* the call has returned
  chosen     \* selected_work_packages of the returned plan

vars == <<cand, status, current, waited, planned, chosen>>

InStatus(s) == {p \in Package : status[p] = s}

Snapshot ==
  /\ cand \in [Package -> Shapes]
  /\ status \in [Package -> {"idle", "queued", "reserved", "done"}]
  /\ current \in [Package -> Revision \cup {NoRevision}]
  /\ waited \in [Package -> Nat]

Init == Snapshot /\ planned = FALSE /\ chosen = {}

Return ==
  /\ ~planned
  /\ planned' = TRUE
  /\ chosen' \in SUBSET InStatus("queued")
  /\ IsPlan(cand, current, InStatus("done"), waited, InStatus("reserved"),
            InStatus("queued"), chosen')
  /\ UNCHANGED <<cand, status, current, waited>>

Spec == Init /\ [][Return]_vars

=============================================================================
