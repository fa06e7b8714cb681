----------------------------- MODULE ModeRules -----------------------------
(***************************************************************************)
(* src/src/v3_aidlc/lifecycle_contracts.py: which modes a route activates  *)
(* in a stage, and the controls they bring.                                *)
(*                                                                         *)
(*   mode   [stages, controls, budget, postures]                           *)
(*   rule   [mode, requirement, whenAll]                                   *)
(*   route  [posture (the default), postures, controls, stages], stages a  *)
(*          function from stage identifiers to sets of rules               *)
(***************************************************************************)
EXTENDS Naturals, FiniteSets

Stages == {"discovery", "definition", "design", "implementation",
           "validation", "release", "operation", "retirement"}
Postures == {"explore", "fast", "balanced", "assured", "emergency"}
Requirements == {"required", "conditional", "optional"}
DefaultPosture == "default"    \* the caller names no posture

ValidMode(mode) ==
  /\ mode.stages # {} /\ mode.stages \subseteq Stages
  /\ mode.budget >= 1
  /\ "balanced" \in mode.postures /\ mode.postures \subseteq Postures

ValidModeRule(rule, stage, library) ==
  /\ rule.mode \in DOMAIN library
  /\ ValidMode(library[rule.mode])
  /\ stage \in library[rule.mode].stages
  /\ rule.requirement \in Requirements
  /\ rule.whenAll # {} <=> rule.requirement = "conditional"
  /\ \A predicate \in rule.whenAll : predicate.values # {}

ValidRoute(route, library) ==
  /\ route.postures \subseteq Postures
  /\ route.posture \in route.postures
  /\ DOMAIN route.stages # {} /\ DOMAIN route.stages \subseteq Stages
  /\ \A stage \in DOMAIN route.stages :
       LET rules == route.stages[stage] IN
       /\ rules # {}
       /\ Cardinality({r.mode : r \in rules}) = Cardinality(rules)
       /\ \A r \in rules : ValidModeRule(r, stage, library)

Matches(predicate, facts) ==
  /\ predicate.fact \in DOMAIN facts
  /\ facts[predicate.fact] \in predicate.values

(* select_modes returns without raising.                                   *)
Selectable(route, library, stage, posture, optional) ==
  /\ ValidRoute(route, library)
  /\ posture \in route.postures \cup {DefaultPosture}
  /\ stage \in DOMAIN route.stages
  /\ optional \subseteq {r.mode : r \in {x \in route.stages[stage] : x.requirement = "optional"}}

Selected(route, stage, facts, optional) ==
  {r.mode : r \in {x \in route.stages[stage] :
     \/ x.requirement = "required"
     \/ x.requirement = "conditional" /\ \A m \in x.whenAll : Matches(m, facts)
     \/ x.requirement = "optional" /\ x.mode \in optional}}

=============================================================================
