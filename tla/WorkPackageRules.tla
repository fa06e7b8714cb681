-------------------------- MODULE WorkPackageRules --------------------------
(* The statuses of a work package and the transitions packages/domain      *)
(* allows between them.                                                    *)

Status == {"proposed", "planned", "eligible", "leased", "running", "evidence_pending",
           "verifying", "reviewing", "repair_required", "replan_required",
           "decision_required", "blocked", "accepted", "closed", "cancelled", "superseded"}

(* WORK_PACKAGE_TRANSITIONS.                                               *)
Abandoned == {"cancelled", "superseded"}
Setback == {"repair_required", "replan_required", "blocked"}
Allowed(s) ==
  CASE s = "proposed"          -> {"planned"} \cup Abandoned
    [] s = "planned"           -> {"eligible", "blocked"} \cup Abandoned
    [] s = "eligible"          -> {"leased", "blocked"} \cup Abandoned
    [] s = "leased"            -> {"running", "eligible", "blocked", "cancelled"}
    [] s = "running"           -> {"evidence_pending", "verifying", "decision_required"} \cup Setback
    [] s = "evidence_pending"  -> {"verifying"} \cup Setback
    [] s = "verifying"         -> {"reviewing", "decision_required"} \cup Setback
    [] s = "reviewing"         -> {"accepted", "decision_required"} \cup Setback
    [] s = "repair_required"   -> {"eligible"} \cup Abandoned
    [] s = "replan_required"   -> {"planned"} \cup Abandoned
    [] s = "decision_required" -> {"planned", "eligible"} \cup Abandoned
    [] s = "blocked"           -> {"planned", "eligible"} \cup Abandoned
    [] s = "accepted"          -> {"closed"}
    [] s \in {"closed"} \cup Abandoned -> {}

=============================================================================
