------------------------- MODULE AuthorizationRules -------------------------
(***************************************************************************)
(* src/src/v3_aidlc/authorization.py: what a set of policies decides about *)
(* a piece of work, given the facts known about it.                        *)
(*                                                                         *)
(*   facts      function from fact names to values; an amount is a natural *)
(*   predicate  [fact, values]: equals is a set of one value, in any other *)
(*   budget     [fact, maximum]; a fact that is not a number counts as     *)
(*              missing, as both leave the budget unproved                 *)
(*   rule       [id, decision, whenAll, budgets, onExceeded]               *)
(*   policy     [id, scope, default, rules]                                *)
(***************************************************************************)
EXTENDS Naturals, FiniteSets

Scope == {"organization", "project", "route", "workstream", "mode", "target"}

(* AuthorizationDecision and DECISION_STRICTNESS, most permissive first.   *)
Strictness == [auto_proceed |-> 0, auto_proceed_and_record |-> 1,
               auto_proceed_within_budget |-> 2, user_decision_required |-> 3,
               blocked |-> 4]
Decision == DOMAIN Strictness
Budgeted == "auto_proceed_within_budget"
Escalated == "user_decision_required"

(* The decisions execute and a runner accept without asking.               *)
Auto == {"auto_proceed", "auto_proceed_and_record", Budgeted}

Strictest(decisions) ==
  CHOOSE d \in decisions : \A e \in decisions : Strictness[e] <= Strictness[d]

(* validate_policy and _validate_predicate return without raising.         *)
ValidPredicate(predicate) == predicate.values # {}
ValidRule(rule) ==
  /\ rule.decision \in Decision
  /\ rule.whenAll # {}
  /\ \A predicate \in rule.whenAll : ValidPredicate(predicate)
  /\ rule.budgets # {} <=> rule.decision = Budgeted
  /\ rule.budgets # {} => rule.onExceeded = Escalated
ValidPolicy(policy) ==
  /\ policy.scope \in Scope
  /\ policy.default \in Decision
  /\ policy.rules # {}
  /\ \A r \in policy.rules : ValidRule(r)
  /\ Cardinality({r.id : r \in policy.rules}) = Cardinality(policy.rules)

Matches(predicate, facts) ==
  /\ predicate.fact \in DOMAIN facts
  /\ facts[predicate.fact] \in predicate.values

(* Mutation: a budget whose fact is unknown is taken to be met.            *)
WithinBudgetIfKnown(rule, facts) ==
  \A b \in rule.budgets : b.fact \in DOMAIN facts => facts[b.fact] <= b.maximum
(* _evaluate_budget: a fact that is missing is not within any budget.      *)
WithinBudget(rule, facts) ==
  \A b \in rule.budgets : b.fact \in DOMAIN facts /\ facts[b.fact] <= b.maximum

(* The decision a matching rule contributes.                               *)
Applied(rule, facts) ==
  IF rule.decision = Budgeted /\ ~WithinBudget(rule, facts) THEN Escalated ELSE rule.decision

Matched(policies, facts) ==
  UNION {{r \in policy.rules : \A m \in r.whenAll : Matches(m, facts)} : policy \in policies}

(* evaluate_authorization: the strictest matching rule of any policy, and  *)
(* the strictest default only if nothing matches anywhere.                 *)
Evaluable(policies) == policies # {} /\ \A policy \in policies : ValidPolicy(policy)
Evaluate(policies, facts) ==
  IF Matched(policies, facts) = {}
  THEN Strictest({policy.default : policy \in policies})
  ELSE Strictest({Applied(r, facts) : r \in Matched(policies, facts)})

=============================================================================
