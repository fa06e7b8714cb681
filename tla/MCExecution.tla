---------------------------- MODULE MCExecution ----------------------------
(* Two packages, two runners, and the scenarios that tell the rules apart. *)
EXTENDS Execution, TLC

MCLimit == [tokens |-> 2]
MCShapes == {[claims |-> [main |-> "write"], costs |-> [tokens |-> 1], deps |-> {},
              rev |-> 1, class |-> 6, userPriority |-> 0],
             [claims |-> [docs |-> "read"], costs |-> [tokens |-> 1], deps |-> {},
              rev |-> 1, class |-> 1, userPriority |-> 0]}
Writes == CHOOSE c \in MCShapes : c.class = 6
Reads == CHOOSE c \in MCShapes : c.class = 1
Snapshot(one, two, held, second) ==
  [cand |-> 1 :> one @@ 2 :> two @@ 3 :> Writes, held |-> held, done |-> {},
   revisions |-> 1 :> 1 @@ 2 :> second @@ 3 :> 1]
(* Both may run, they conflict, the project is busy, the second is unknown. *)
MCSnapshots == {Snapshot(Writes, Reads, {}, 1), Snapshot(Writes, Writes, {}, 1),
                Snapshot(Writes, Reads, {3}, 1), Snapshot(Reads, Reads, {}, NoRevision)}

Is(fact, value) == [fact |-> fact, values |-> {value}]
MCActivationFacts == {{}, {"multiStep"}, {"multiStep", "createsDurableArtifact"}}

(* Authorization: a forbidden action, one for the user, one within budget. *)
PolicyRule(id, action, decision, maximum) ==
  [id |-> id, decision |-> decision, whenAll |-> {Is("action", action)},
   budgets |-> {[fact |-> "cost", maximum |-> m] : m \in maximum},
   onExceeded |-> "user_decision_required"]
Policy(scope, rules) ==
  [id |-> scope, scope |-> scope, default |-> "user_decision_required", rules |-> rules]
Organization == Policy("organization", {PolicyRule(1, "delete", "blocked", {}),
                                        PolicyRule(2, "publish", "user_decision_required", {})})
OfProject == Policy("project", {PolicyRule(2, "test", "auto_proceed_within_budget", {10}),
                                PolicyRule(3, "publish", "auto_proceed_and_record", {})})
Permissive ==
  [Policy("route", {[PolicyRule(1, "test", "blocked", {}) EXCEPT !.whenAll =
             {[fact |-> "action", values |-> {"test", "publish", "delete"}]}]})
   EXCEPT !.default = "auto_proceed_and_record"]
Unbudgeted == Policy("project", {PolicyRule(1, "test", "auto_proceed_within_budget", {})})
MCWorkFacts == {[action |-> "test", cost |-> 10],
                [action |-> "test", cost |-> 11], [action |-> "test"],
                [action |-> "publish"], [action |-> "delete"], [action |-> "unheard-of"]}

(* One stage with a required, a conditional and an optional mode.          *)
MCMode == [stages |-> {"implementation"}, controls |-> {}, budget |-> 1, postures |-> {"balanced"}]
Library == [build |-> MCMode, audit |-> MCMode, docs |-> MCMode]
ModeRule(mode, requirement, whenAll) ==
  [mode |-> mode, requirement |-> requirement, whenAll |-> whenAll]
Route == [posture |-> "balanced", postures |-> {"balanced", "assured"}, controls |-> {},
          stages |-> [implementation |->
            {ModeRule("build", "required", {}), ModeRule("docs", "optional", {}),
             ModeRule("audit", "conditional", {Is("risk", "high")})}]]
Setting(risk, posture, optional, policies) ==
  [route |-> Route, library |-> Library, stage |-> "implementation", facts |-> [risk |-> risk],
   posture |-> posture, optional |-> optional, policies |-> policies]
MCSettings == {Setting("low", "default", {}, {Organization, OfProject}),
               Setting("high", "assured", {"docs"}, {Organization, OfProject}),
               Setting("low", "fast", {}, {Organization}),
               Setting("low", "default", {"audit"}, {Organization}),
               Setting("low", "default", {}, {Organization, Unbudgeted}),
               Setting("low", "default", {}, {Permissive}),
               Setting("low", "default", {}, {Permissive, Organization})}

(* Context: a budget met exactly, a grant for one run, a contradiction, an *)
(* item of a mode, an expired one, one for another role, one unlabelled.   *)
MCRecipe == [role |-> "implementer", allowed |-> {"requirement", "decision", "finding"},
             required |-> {"requirement"},
             sources |-> {"project_policy", "user_instruction", "verified_evidence"},
             sensitivity |-> "confidential", priority |-> <<"requirement", "decision", "finding">>,
             maxItems |-> 2, maxBytes |-> 10]
Item(id, kind, source, claim, bytes) ==
  [id |-> id, kind |-> kind, source |-> source, sensitivity |-> "internal",
   integrity |-> "verified", form |-> "content", project |-> "p", claim |-> claim,
   payload |-> id, created |-> id, expires |-> 0, entities |-> {}, stages |-> {}, modes |-> {},
   roles |-> {}, tags |-> {"task"}, always |-> FALSE, bytes |-> bytes]
Needed == Item(1, "requirement", "user_instruction", "goal", 4)
Exact == Item(2, "decision", "verified_evidence", "how", 6)
Large == Item(3, "decision", "project_policy", "limits", 7)
Input(items, grants) ==
  [role |-> "implementer", entities |-> {}, tags |-> {"task"}, items |-> items, grants |-> grants]
ForFirst == [project |-> "p", role |-> "implementer", runs |-> {1}, items |-> {2},
             authority |-> "user_decision", expires |-> 10]
MCContext == [
  plain    |-> Input({Needed, Item(5, "requirement", "project_policy", "goal", 4), Exact,
                      Item(4, "finding", "verified_evidence", "seen", 5)}, {}),
  tight    |-> Input({[Needed EXCEPT !.always = TRUE], Large,
                      [Exact EXCEPT !.modes = {"audit"}]}, {}),
  granted  |-> Input({Needed, [Exact EXCEPT !.sensitivity = "confidential"]}, {ForFirst}),
  torn     |-> Input({Needed, Item(5, "requirement", "user_instruction", "goal", 3)}, {}),
  bare     |-> Input({Exact}, {}),
  past     |-> Input({Needed, [Exact EXCEPT !.expires = 1], [Large EXCEPT !.roles = {"reviewer"}]}, {}),
  unlabelled |-> Input({Needed, [Exact EXCEPT !.kind = "assumption"]}, {})]

(* Runs: one more than the small runner takes, effects, a retry, a tool    *)
(* nobody has.                                                             *)
Only(tools) == [capability |-> {}, modality |-> {}, tool |-> tools, host |-> {}]
MCProfiles == {[adapter |-> 1, status |-> "available", roles |-> {"implementer"},
                offers |-> Only({"shell"}), context |-> 6, output |-> 10, clearance |-> "confidential",
                structured |-> FALSE, effects |-> FALSE, idempotent |-> FALSE],
               [adapter |-> 2, status |-> "available", roles |-> {"implementer"},
                offers |-> Only({"shell", "git"}), context |-> 100, output |-> 10,
                clearance |-> "restricted", structured |-> TRUE, effects |-> TRUE,
                idempotent |-> TRUE]}
Request(tools, effects, attempt) ==
  [role |-> "implementer", needs |-> Only(tools), context |-> 1, output |-> 5,
   sensitivity |-> "internal", structured |-> FALSE, effects |-> effects, attempt |-> attempt,
   criteria |-> {"done"}]
MCRequests == {Request({"shell"}, FALSE, 1), Request({"git"}, TRUE, 2), Request({"gpu"}, FALSE, 1)}

Raw(ended, satisfied, evidence, effects) ==
  [started |-> 1, finished |-> 2, status |-> ended, satisfied |-> satisfied,
   evidence |-> evidence, effects |-> effects]
MCRaws == {Raw("completed", {"done"}, {"e"}, {}), Raw("completed", {}, {"e"}, {}),
           Raw("completed", {"done"}, {"e"}, {"succeeded"}), Raw("failed", {}, {}, {})}

(* Acceptance at time 10 of revision 1.                                    *)
Evidence(id, revision, collected) ==
  [id |-> id, kind |-> "test_result", subject |-> "w", revision |-> revision, collected |-> collected]
Check(independent) ==
  [version |-> 1, kinds |-> {"test_result"}, minimum |-> 1, maxAge |-> 5, independent |-> independent]
Result(check, found, evaluator) ==
  [check |-> check, version |-> 1, status |-> found, subject |-> "w", revision |-> 1,
   evaluated |-> 9, evaluator |-> evaluator, producer |-> "makers", evidence |-> <<"e1">>]
Waiver(expires) ==
  [gate |-> "g", check |-> "tests", subject |-> "w", revision |-> 1, authority |-> "owner",
   expires |-> expires]
GateRule(check, requirement, whenAll, waivable) ==
  [check |-> check, requirement |-> requirement, whenAll |-> whenAll, waivable |-> waivable,
   hard |-> ~waivable]
Acceptance(results, evidence, facts, exceptions) ==
  [gate |-> [id |-> "g", authorities |-> {"owner"},
             rules |-> {GateRule("tests", "required", {}, TRUE),
                        GateRule("review", "conditional", {Is("risk", "high")}, FALSE)}],
   library |-> [tests |-> Check(FALSE), review |-> Check(TRUE)],
   results |-> results, evidence |-> evidence, facts |-> facts, subject |-> "w", revision |-> 1,
   evaluated |-> 10, exceptions |-> exceptions]
Low == [risk |-> "low"]
High == [risk |-> "high"]
Fresh == {Evidence("e1", 1, 4)}
Tests(found) == Result("tests", found, "makers")
MCAcceptances == {
  Acceptance({Tests("passed")}, Fresh, Low, {}),
  Acceptance({Tests("failed")}, Fresh, Low, {Waiver(9)}),
  Acceptance({Tests("inconclusive")}, Fresh, Low, {Waiver(10)}),
  Acceptance({}, Fresh, Low, {Waiver(10)}),
  Acceptance({Tests("passed")}, {Evidence("e1", 1, 3)}, Low, {}),
  Acceptance({Tests("passed")}, {Evidence("e1", 2, 4)}, Low, {}),
  Acceptance({Tests("inconclusive")}, Fresh, High, {Waiver(10)}),
  Acceptance({Tests("passed"), Result("review", "passed", "makers")}, Fresh, High, {}),
  Acceptance({Tests("passed"), Result("review", "passed", "others")}, Fresh, High, {}),
  Acceptance({Tests("passed"), Result("review", "failed", "others")}, Fresh, High, {Waiver(10)}),
  Acceptance({[Tests("passed") EXCEPT !.version = 2]}, Fresh, Low, {}),
  Acceptance({[Tests("passed") EXCEPT !.evaluated = 11]}, Fresh, Low, {})}

Completion(base, digest) == [group |-> "g", base |-> base, digest |-> digest]
MCCompletions == {Completion(1, "h"), Completion(0, "h")}
Combined(found, check, revision) ==
  [status |-> found, checks |-> [smoke |-> check], evidence |-> {"i"}, revision |-> revision]
Integration(members, result) ==
  [members |-> members, target |-> 1, checks |-> <<"smoke">>, result |-> result]
MCIntegrations == {Integration({1, 2}, Combined("passed", "passed", 2)),
                   Integration({1}, Combined("passed", "passed", 2)),
                   Integration({1, 2}, Combined("failed", "failed", 0)),
                   Integration({1, 2}, Combined("passed", "failed", 2))}
=============================================================================
