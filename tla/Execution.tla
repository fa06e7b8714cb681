----------------------------- MODULE Execution -----------------------------
(***************************************************************************)
(* ReferenceOrchestrator.execute: one execution takes a scenario through   *)
(* activation, mode selection, authorization, context, negotiation,        *)
(* scheduling, dispatch, acceptance and integration, one action per call   *)
(* it makes into a contract, and returns a trace or raises.                *)
(*                                                                         *)
(* A scenario is data: each part of it is chosen by the action that first  *)
(* reads it, which is the same as having chosen it at the start because no *)
(* part is read twice.  The packages are considered in the order of their  *)
(* identifiers; each run request names its own package, and a run of its   *)
(* own.  Runners are outside the repository: they may return anything.     *)
(***************************************************************************)
EXTENDS SchedulingRules, Sequences

CONSTANTS
  None,             \* an optional part that is absent
  Work,             \* the packages of the scenario
  Project,          \* its projectId
  Now,              \* its clock
  ActivationFacts,  \* sets of activation facts
  Settings,         \* [route, library, stage, facts, posture, optional, policies]
  WorkFacts,        \* authorization facts of a package
  Recipe,           \* the context recipe
  Context,          \* function from names to [role, entities, tags, items, grants]
  Requests,         \* run requests, before execute completes them
  Profiles,         \* the profiles of the registered runners
  Raws,             \* what a runner may return
  Snapshots,        \* what schedule is given: [cand, held, done, revisions]
  Acceptances,      \* the arguments of evaluate_gate
  Completions,      \* integrationCompletion of a package: [group, base, digest]
  Integrations      \* [members, target, checks, result]

Events == INSTANCE EventRules WITH NoCause <- 0, Malformed <- {}
Gateway == INSTANCE GatewayRules
Mode == INSTANCE ModeRules
Authorization == INSTANCE AuthorizationRules
Compiler == INSTANCE ContextRules
Adapter == INSTANCE AdapterRules
Gate == INSTANCE GateRules
Batch == INSTANCE BatchRules

ASSUME ScenarioAssumption == Work \subseteq Package /\ Work # {}
ASSUME NoneAssumption == None \notin Batch!TerminalIntegration \cup {"blocked"}

(* The amounts of an acceptance are integers, and the evidence a result    *)
(* names is a list: _parse_time and the validators of evidence_gates.py    *)
(* refuse anything else.                                                   *)
ASSUME AcceptanceAssumption ==
  \A given \in Acceptances :
    /\ given.evaluated \in Int
    /\ \A e \in given.evidence : e.collected \in Int
    /\ \A w \in given.exceptions : w.expires \in Int
    /\ \A c \in DOMAIN given.library :
         given.library[c].minimum \in Int /\ given.library[c].maxAge \in Int
    /\ \A x \in given.results :
         x.evaluated \in Int /\ x.evidence \in Seq({x.evidence[n] : n \in DOMAIN x.evidence})

(* Sizes, times and identifiers are integers; what a run needs is of the   *)
(* four dimensions.  ReferenceOrchestrator and select_adapter both refuse  *)
(* two runners of one name ("duplicate adapterId").                        *)
ASSUME ContextAssumption ==
  /\ Recipe.maxItems \in Int /\ Recipe.maxBytes \in Int /\ DOMAIN Recipe.priority \subseteq Int
  /\ \A name \in DOMAIN Context :
       /\ IsFiniteSet(Context[name].items)
       /\ \A i \in Context[name].items : {i.id, i.created} \subseteq Int /\ i.bytes \in Nat
ASSUME RunnerAssumption ==
  /\ \A r \in Requests : /\ DOMAIN r.needs \subseteq Adapter!Dimensions
                          /\ r.output \in Int
  /\ IsFiniteSet(Profiles)
  /\ \A x \in Profiles : {x.adapter, x.context, x.output} \subseteq Int
  /\ \A x, y \in Profiles : x.adapter = y.adapter => x = y

VARIABLES
  phase,        \* the call execute is about to make, or "returned" | "raised"
  setting,      \* [modes, stage, policies], or None
  todo,         \* the packages the current loop has yet to take, in order
  current,      \* what the current iteration has computed so far
  prepared,     \* function from prepared packages to [facts, context, request, runner]
  traces,       \* function from packages to their WorkTrace
  flags,        \* those of "block", "decision", "failure", "waiting" that are set
  plan,         \* selected packages, or None
  completions,  \* completions ready for integration
  integration,  \* integration_status
  batch,        \* [asked, made]: the integration asked for and its batch, or None
  events,       \* what was recorded, oldest first
  status,       \* "open", then the status of the trace, or "raised"
  earned        \* packages whose acceptance data proves their subject (never read)

vars == <<phase, setting, todo, current, prepared, traces, flags, plan,
          completions, integration, batch, events, status, earned>>

(* A set of packages as the list it is given as.                           *)
Listed(S) ==
  [n \in 1..Cardinality(S) |-> CHOOSE p \in S : Cardinality({q \in S : q <= p}) = n]
With(f, p, x) == [q \in DOMAIN f \cup {p} |-> IF q = p THEN x ELSE f[q]]

(* record: what is appended, and the draft _event_draft makes of the n-th  *)
(* event; about is the package it concerns, or Overall.                    *)
Overall == -1
Event(type, about, outcome) == [type |-> type, about |-> about, outcome |-> outcome]
Record(type, about, outcome) == events' = Append(events, Event(type, about, outcome))
(* Mutation: an event names itself as its cause.                           *)
DraftSelfCaused(n, e) ==
  [id |-> n, key |-> <<n, e.type>>, project |-> Project, cause |-> n, content |-> e]
Draft(n, e) ==
  [id |-> n, key |-> <<n, e.type>>, project |-> Project, cause |-> n - 1, content |-> e]
Chain(recorded) ==
  LET history[n \in 0..Len(recorded)] ==
        IF n = 0 THEN <<>> ELSE Events!AppendEvent(history[n-1], Draft(n, recorded[n]))
  IN  history[Len(recorded)]

Trace(authorization) ==
  [authorization |-> authorization, manifest |-> None, adapter |-> None,
   schedule |-> "not_eligible", run |-> None, gate |-> None]

Init ==
  /\ phase = "start" /\ setting = None /\ todo = <<>> /\ current = None
  /\ prepared = <<>> /\ traces = <<>> /\ flags = {} /\ plan = None
  /\ completions = {} /\ integration = None /\ batch = None /\ events = <<>>
  /\ status = "open" /\ earned = {}

(* An exception that execute does not catch: what it recorded is lost to   *)
(* the caller, what it did is not.                                         *)
Raise ==
  /\ phase' = "raised" /\ status' = "raised"
  /\ UNCHANGED <<setting, todo, current, prepared, traces, flags, plan,
                 completions, integration, batch, events, earned>>

-----------------------------------------------------------------------------
(* Activation and mode selection.                                          *)

StayConversational(facts) ==
  /\ phase = "start"
  /\ Gateway!Activation(facts) = "stay_conversational"
  /\ phase' = "returned" /\ status' = "not_managed"
  /\ UNCHANGED <<setting, todo, current, prepared, traces, flags, plan,
                 completions, integration, batch, events, earned>>

Start(facts, s) ==
  /\ phase = "start"
  /\ Gateway!Activation(facts) # "stay_conversational"
  /\ IF Mode!Selectable(s.route, s.library, s.stage, s.posture, s.optional)
     THEN LET modes == Mode!Selected(s.route, s.stage, s.facts, s.optional) IN
          /\ setting' = [modes |-> modes, stage |-> s.stage, policies |-> s.policies]
          /\ Record("orchestration.started", Overall, modes)
          /\ phase' = "authorize" /\ todo' = Listed(Work)
          /\ UNCHANGED <<current, prepared, traces, flags, plan, completions,
                         integration, batch, status, earned>>
     ELSE Raise

-----------------------------------------------------------------------------
(* Preparation of the first package of todo.                               *)

(* The package goes no further; the loop takes the next one.               *)
Drop(p, trace, flag) ==
  /\ traces' = With(traces, p, trace)
  /\ flags' = flags \cup flag
  /\ todo' = Tail(todo) /\ current' = None /\ phase' = "authorize"

Authorize(facts) ==
  /\ phase = "authorize" /\ todo # <<>>
  /\ LET p == Head(todo)
         decision == Authorization!Evaluate(setting.policies, facts)
     IN  IF Authorization!Evaluable(setting.policies)
         THEN /\ Record("authorization.evaluated", p, decision)
              /\ IF decision \in Authorization!Auto
                 THEN /\ current' = [facts |-> facts, authorization |-> decision]
                      /\ phase' = "compile"
                      /\ UNCHANGED <<todo, traces, flags>>
                 ELSE Drop(p, Trace(decision),
                           {IF decision = "blocked" THEN "block" ELSE "decision"})
              /\ UNCHANGED <<setting, prepared, plan, completions, integration, batch, status, earned>>
         ELSE Raise

RunOf(p, c) ==
  [id |-> p, project |-> Project, role |-> c.role, entities |-> c.entities,
   tags |-> c.tags, modes |-> setting.modes, stage |-> setting.stage]

Compile(name) ==
  /\ phase = "compile"
  /\ LET p == Head(todo)
         c == Context[name]
         manifest == Compiler!Manifest(Recipe, RunOf(p, c), c.items, c.grants, Now)
     IN  IF ~Compiler!Compiles(Recipe, RunOf(p, c), c.items, c.grants, Now)
         THEN /\ Drop(p, Trace(current.authorization), {"block"})
              /\ Record("context.rejected", p, None)
         ELSE /\ current' = [facts |-> current.facts, authorization |-> current.authorization,
                             context |-> name, manifest |-> manifest]
              /\ phase' = "negotiate"
              /\ UNCHANGED <<todo, traces, flags, events>>
  /\ UNCHANGED <<setting, prepared, plan, completions, integration, batch, status, earned>>

(* The request execute completes: which context it carries, of what size,  *)
(* and under which authorization is not the caller's to say.               *)
OfSize(r, p, size) ==
  [run |-> p, package |-> p, project |-> Project, role |-> r.role, needs |-> r.needs,
   context |-> size, output |-> r.output, sensitivity |-> r.sensitivity,
   structured |-> r.structured, effects |-> r.effects, attempt |-> r.attempt,
   criteria |-> r.criteria,
   manifest |-> current.manifest, authorization |-> current.authorization]
(* Mutation: the size the caller declared is kept.                         *)
FilledAsDeclared(r, p) == OfSize(r, p, r.context)
Filled(r, p) ==
  LET bytes == Compiler!Bytes(current.manifest)
  IN  OfSize(r, p, IF bytes < 1 THEN 1 ELSE bytes)

Negotiate(r) ==
  /\ phase = "negotiate"
  /\ LET p == Head(todo)
         request == Filled(r, p)
         runner == Adapter!Preferred(request, Profiles)
         trace == [Trace(current.authorization) EXCEPT !.manifest = "compiled"]
     IN  IF Adapter!NoneAccepts(request, Profiles)
         THEN /\ Drop(p, trace, {"block"})
              /\ Record("capability.rejected", p, None)
              /\ UNCHANGED prepared
         ELSE /\ Drop(p, [trace EXCEPT !.adapter = runner.adapter, !.schedule = "pending"], {})
              /\ Record("capability.negotiated", p, runner.adapter)
              /\ prepared' = With(prepared, p, [facts |-> current.facts,
                                                context |-> current.context, request |-> request, runner |-> runner])
  /\ UNCHANGED <<setting, plan, completions, integration, batch, status, earned>>

-----------------------------------------------------------------------------
(* Scheduling.  The loop of schedule is in Scheduler; here its promise     *)
(* says what is selected from what it is given.                            *)

NothingPrepared ==
  /\ phase = "authorize" /\ todo = <<>> /\ DOMAIN prepared = {}
  /\ phase' = "integrate"
  /\ UNCHANGED <<setting, todo, current, prepared, traces, flags, plan, completions,
                 integration, batch, events, status, earned>>

Plan(at) ==
  /\ phase = "authorize" /\ todo = <<>> /\ DOMAIN prepared # {}
  /\ \E S \in SUBSET DOMAIN prepared :
       /\ IsPlan(at.cand, at.revisions, at.done, [p \in Package |-> 0], at.held,
                 DOMAIN prepared, S)
       /\ plan' = S
       /\ Record("schedule.planned", Overall, S)
  /\ phase' = "dispatch" /\ todo' = Listed(DOMAIN prepared)
  /\ UNCHANGED <<setting, current, prepared, traces, flags, completions,
                 integration, batch, status, earned>>

(* schedule refuses a candidate, a reservation or the policy.              *)
PlanFails == phase = "authorize" /\ todo = <<>> /\ DOMAIN prepared # {} /\ Raise

-----------------------------------------------------------------------------
(* The prepared packages, one after the other.                             *)

NextPackage == todo' = Tail(todo) /\ current' = None /\ phase' = "dispatch"

Defer ==
  /\ phase = "dispatch" /\ todo # <<>> /\ Head(todo) \notin plan
  /\ flags' = flags \cup {"waiting"}
  /\ traces' = [traces EXCEPT ![Head(todo)].schedule = "deferred"]
  /\ NextPackage
  /\ UNCHANGED <<setting, prepared, plan, completions, integration, batch, events, status, earned>>

Dispatch ==
  /\ phase = "dispatch" /\ todo # <<>> /\ Head(todo) \in plan
  /\ LET p == Head(todo)
         dispatch == Adapter!Dispatch(prepared[p].request, prepared[p].runner)
     IN  /\ Adapter!Accepts(prepared[p].request, prepared[p].runner)
         /\ Record("run.dispatched", p, prepared[p].request.effects)
         /\ current' = [dispatch |-> dispatch]
  /\ phase' = "invoke"
  /\ UNCHANGED <<setting, todo, prepared, traces, flags, plan, completions,
                 integration, batch, status, earned>>

(* The runner answers, or raises; an answer that is not acceptable raises. *)
Invoke(raw) ==
  /\ phase = "invoke"
  /\ IF Adapter!Acceptable(raw, current.dispatch)
     THEN /\ Record("run.completed", Head(todo), raw.status)
          /\ current' = [status |-> raw.status, evidence |-> raw.evidence]
          /\ traces' = [traces EXCEPT ![Head(todo)].schedule = "selected",
                                      ![Head(todo)].run = raw.status]
          /\ phase' = "accept"
          /\ UNCHANGED <<setting, todo, prepared, flags, plan, completions,
                         integration, batch, status, earned>>
     ELSE Raise
InvokeFails == phase = "invoke" /\ Raise

(* A completed run without an acceptance, and one that did not complete.   *)
Reject ==
  /\ phase = "accept"
  /\ flags' = flags \cup {"failure"}
  /\ NextPackage
  /\ UNCHANGED <<setting, prepared, traces, plan, completions, integration, batch,
                 events, status, earned>>

(* The acceptance data prove that this revision of the subject passed, or  *)
(* that somebody entitled to has accepted that it did not.                 *)
Proven(given) ==
  \A r \in Gate!Required(given) : \E x \in given.results :
    LET check == given.library[r.check]
        proof == {e \in given.evidence :
                    /\ e.subject = given.subject /\ e.revision = given.revision
                    /\ e.kind \in check.kinds
                    /\ e.collected <= x.evaluated /\ x.evaluated <= e.collected + check.maxAge}
    IN  /\ x.check = r.check /\ x.version = check.version
        /\ x.subject = given.subject /\ x.revision = given.revision
        /\ x.evaluated <= given.evaluated
        /\ check.independent => x.evaluator # x.producer
        /\ {x.evidence[n] : n \in DOMAIN x.evidence} \subseteq {e.id : e \in proof}
        /\ Cardinality({x.evidence[n] : n \in DOMAIN x.evidence}) >= check.minimum
        /\ \/ x.status = "passed"
           \/ \E w \in given.exceptions :
                /\ r.waivable /\ ~r.hard /\ w.check = r.check /\ w.gate = given.gate.id
                /\ w.authority \in given.gate.authorities
                /\ w.subject = given.subject /\ w.revision = given.revision
                /\ w.expires >= given.evaluated

Accept(given, completion) ==
  /\ phase = "accept" /\ current.status = "completed"
  /\ LET p == Head(todo)
         outcome == Gate!Outcome(given)
         ready == outcome \in Gate!Promotable /\ completion # None
     IN  IF Gate!Evaluable(given)
         THEN /\ Record("gate.evaluated", p, outcome)
              /\ traces' = [traces EXCEPT ![p].gate = outcome]
              /\ flags' = flags \cup (IF outcome \in Gate!Promotable THEN {} ELSE {"failure"})
              /\ completions' = completions \cup
                   (IF ready THEN {[project |-> Project, package |-> p, group |-> completion.group,
                                    base |-> completion.base, digest |-> completion.digest,
                                    evidence |-> current.evidence]} ELSE {})
              /\ earned' = IF Proven(given) THEN earned \cup {p} ELSE earned
              /\ NextPackage
              /\ UNCHANGED <<setting, prepared, plan, integration, batch, status>>
         ELSE Raise

-----------------------------------------------------------------------------
(* Integration of what was accepted.                                       *)

Dispatched == phase = "dispatch" /\ todo = <<>>

NoIntegration ==
  /\ Dispatched \/ phase = "integrate"
  /\ phase' = "finish"
  /\ UNCHANGED <<setting, todo, current, prepared, traces, flags, plan, completions,
                 integration, batch, events, status, earned>>

(* The expected members are not the ones that are ready.                   *)
Blocked(i) == i.members # {c.package : c \in completions}

Integrate(i) ==
  /\ Dispatched \/ phase = "integrate"
  /\ LET made == Batch!Batch(completions, i)
         outcome == IF Blocked(i) THEN "blocked" ELSE i.result.status
     IN  IF Blocked(i) \/ (Batch!Combinable(completions, i) /\ Batch!ValidResult(i.result, made))
         THEN /\ integration' = outcome
              /\ batch' = IF Blocked(i) THEN None ELSE [asked |-> i, made |-> made]
              /\ flags' = flags \cup (IF outcome = "passed" THEN {} ELSE {"failure"})
              /\ Record(IF Blocked(i) THEN "integration.blocked" ELSE "integration.evaluated",
                        Overall, outcome)
              /\ phase' = "finish"
              /\ UNCHANGED <<setting, todo, current, prepared, traces, plan, completions,
                             status, earned>>
         ELSE Raise

-----------------------------------------------------------------------------
(* The status, and the trace.                                              *)

(* Mutation: what waits hides what failed.                                 *)
StatusWaitingFirst ==
  CASE "block" \in flags -> "blocked"
    [] "decision" \in flags /\ "block" \notin flags -> "decision_required"
    [] "waiting" \in flags /\ flags \cap {"block", "decision"} = {} -> "waiting"
    [] flags = {"failure"} -> "failed"
    [] flags = {} -> "completed"
Status ==
  CASE "block" \in flags -> "blocked"
    [] "decision" \in flags /\ "block" \notin flags -> "decision_required"
    [] "failure" \in flags /\ flags \cap {"block", "decision"} = {} -> "failed"
    [] flags = {"waiting"} -> "waiting"
    [] flags = {} -> "completed"

(* validate_trace returns without raising.                                 *)
ValidTrace(recorded) ==
  /\ Len(Chain(recorded)) = Len(recorded)
  /\ Events!Verifies(Chain(recorded))
  /\ plan # None => plan = {p \in DOMAIN traces : traces[p].schedule = "selected"}
  /\ integration = "passed" => batch # None

Finish ==
  /\ phase = "finish"
  /\ Record("orchestration.completed", Overall, Status)
  /\ status' = Status
  /\ phase' = IF ValidTrace(events') THEN "returned" ELSE "refused"
  /\ UNCHANGED <<setting, todo, current, prepared, traces, flags, plan, completions,
                 integration, batch, earned>>

Next ==
  \/ \E facts \in ActivationFacts :
       StayConversational(facts) \/ \E s \in Settings : Start(facts, s)
  \/ \E facts \in WorkFacts : Authorize(facts)
  \/ \E name \in DOMAIN Context : Compile(name)
  \/ \E r \in Requests : Negotiate(r)
  \/ NothingPrepared
  \/ PlanFails \/ \E at \in Snapshots : Plan(at)
  \/ Defer \/ Dispatch \/ InvokeFails \/ Reject
  \/ \E raw \in Raws : Invoke(raw)
  \/ \E given \in Acceptances, c \in Completions \cup {None} : Accept(given, c)
  \/ NoIntegration \/ \E i \in Integrations : Integrate(i)
  \/ Finish

Spec == Init /\ [][Next]_vars

-----------------------------------------------------------------------------
Flags == {"block", "decision", "failure", "waiting"}
IsTrace(t) ==
  t = [authorization |-> t.authorization, manifest |-> t.manifest, adapter |-> t.adapter,
       schedule |-> t.schedule, run |-> t.run, gate |-> t.gate]
EventsAbout(recorded) ==
  /\ recorded \in Seq({recorded[n] : n \in DOMAIN recorded})
  /\ \A n \in DOMAIN recorded : recorded[n].about \in Work \cup {Overall}
TypeOK ==
  /\ phase \in {"start", "authorize", "compile", "negotiate", "dispatch", "invoke", "accept",
                "integrate", "finish", "returned", "refused", "raised"}
  /\ todo \in Seq(Work)
  /\ DOMAIN prepared \subseteq DOMAIN traces /\ DOMAIN traces \subseteq Work
  /\ \A p \in DOMAIN traces : IsTrace(traces[p])
  /\ flags \subseteq Flags
  /\ plan = None \/ plan \subseteq DOMAIN prepared
  /\ \A c \in completions : c.package \in DOMAIN prepared
  /\ EventsAbout(events)

(* "All selected work and required combined checks passed": a completed    *)
(* execution has left nothing out, and each of its packages was run to     *)
(* completion and is proved by its acceptance data.                        *)
CompletedIsEarned ==
  status = "completed" =>
    /\ \A p \in Work : traces[p].run = "completed" /\ p \in earned
    /\ integration \in {None, "passed"}

(* "The strictest matching rule wins": every rule of every policy that     *)
(* speaks of a prepared package lets it proceed, and a budget it proceeds  *)
(* within is known to be met; where none speaks, every default lets it.    *)
PreparedIsAuthorized ==
  \A p \in DOMAIN prepared :
    LET facts == prepared[p].facts
        speaks(r) == \A m \in r.whenAll : m.fact \in DOMAIN facts /\ facts[m.fact] \in m.values
        rules == UNION {policy.rules : policy \in setting.policies}
    IN  /\ \/ \E r \in rules : speaks(r)
           \/ \A policy \in setting.policies :
                policy.default \notin {"user_decision_required", "blocked"}
        /\ \A r \in rules : speaks(r) =>
             /\ r.decision \notin {"user_decision_required", "blocked"}
             /\ \A b \in r.budgets : b.fact \in DOMAIN facts /\ facts[b.fact] <= b.maximum

(* A passed integration combined exactly the packages it was asked for,    *)
(* each of them proved, and all of them built on the target.               *)
IntegrationIsEarned ==
  integration = "passed" =>
    /\ {m.package : m \in batch.made.members} = batch.asked.members
    /\ batch.asked.members \subseteq earned
    /\ \A c \in completions : c.base = batch.asked.target /\ traces[c.package].run = "completed"
    /\ \A c \in batch.made.checks : batch.asked.result.checks[c] = "passed"

(* A run is handed to a runner that can carry out exactly what is asked,   *)
(* with the context that was compiled for it and no other.                 *)
DispatchIsFit ==
  phase = "invoke" =>
    LET p == Head(todo)
        request == current.dispatch.request
    IN  /\ request.authorization = traces[p].authorization
        /\ request.authorization \in {"auto_proceed", "auto_proceed_and_record",
                                     "auto_proceed_within_budget"}
        /\ current.dispatch.profile = Adapter!Digest(prepared[p].runner)
        /\ prepared[p].runner.context >= Compiler!Bytes(request.manifest)
        /\ UNION {request.needs[d] : d \in DOMAIN request.needs} \subseteq
             UNION {prepared[p].runner.offers[d] : d \in DOMAIN request.needs}

(* What a manifest holds was allowed to this run: by the recipe, by its    *)
(* own scope and expiry, and by a grant when it is not for everyone.  It   *)
(* fits the budget, no claim is made twice, and an item that alone makes   *)
(* its claim and was left out would not have fitted in the end either.     *)
Allowed(i, p, c) ==
  /\ i.project = Project /\ i.kind \in Recipe.allowed /\ i.source \in Recipe.sources
  /\ Compiler!Sensitivity[i.sensitivity] <= Compiler!Sensitivity[Recipe.sensitivity]
  /\ i.expires = Compiler!Never \/ i.expires >= Now
  /\ i.modes # {} => i.modes \cap setting.modes # {}
  /\ i.entities # {} => i.entities \cap c.entities # {}
  /\ i.stages # {} => setting.stage \in i.stages
  /\ i.roles # {} => c.role \in i.roles
  /\ i.sensitivity \in {"confidential", "restricted", "secret"} =>
       \E g \in c.grants : /\ g.project = Project /\ g.role = c.role /\ p \in g.runs
                           /\ i.id \in g.items /\ g.expires >= Now
ManifestIsSound ==
  \A p \in DOMAIN prepared :
    LET manifest == prepared[p].request.manifest
        chosen == {manifest[n] : n \in DOMAIN manifest}
        c == Context[prepared[p].context]
        outdone == {i \in c.items : \E j \in c.items : j.claim = i.claim /\ j # i}
    IN  /\ \A i \in chosen : Allowed(i, p, c)
        /\ \A i, j \in chosen : i.claim = j.claim => i = j
        /\ Recipe.required \subseteq {i.kind : i \in chosen}
        /\ Compiler!Bytes(manifest) <= Recipe.maxBytes /\ Len(manifest) <= Recipe.maxItems
        /\ \A i \in c.items \ (chosen \cup outdone) :
             Compiler!Eligible(i, Recipe, RunOf(p, c), c.grants, Now) =>
               \/ Len(manifest) = Recipe.maxItems
               \/ Compiler!Bytes(manifest) + i.bytes > Recipe.maxBytes

(* The trace execute builds is one validate_trace accepts, whatever the    *)
(* scenario: the check never turns what was done into an exception.        *)
TraceIsValid == phase # "refused"

(* How far the recorded events say a package came.                         *)
RecordedFor(recorded, p, type) ==
  {e \in {recorded[n] : n \in DOMAIN recorded} : e.about = p /\ e.type = type}
Said(recorded, p, type) == {e.outcome : e \in RecordedFor(recorded, p, type)}
Planned(recorded) == UNION Said(recorded, Overall, "schedule.planned")
StageOf(recorded, p) ==
  LET seen(type) == RecordedFor(recorded, p, type) # {}
      gates == Said(recorded, p, "gate.evaluated")
      decisions == Said(recorded, p, "authorization.evaluated")
  IN  IF gates # {} /\ gates \subseteq Gate!Promotable THEN "accepted"
      ELSE IF seen("run.completed") THEN "returned"
      ELSE IF seen("run.dispatched") THEN "dispatched"
      ELSE IF p \in Planned(recorded) THEN "scheduled"
      ELSE IF seen("capability.negotiated") THEN "equipped"
      ELSE IF seen("context.rejected") \/ seen("capability.rejected") THEN "refused"
      ELSE IF decisions = {} THEN "proposed"
      ELSE IF decisions \subseteq Authorization!Auto THEN "authorized" ELSE "refused"

(* The recorded events tell the journey of ARCH-11: no control omitted, no *)
(* package taken further than its controls allow, no status they do not    *)
(* warrant.                                                                *)
Promise == INSTANCE Journey WITH stage <- [p \in Work |-> StageOf(events, p)], verdict <- status
ImplementsJourney == Promise!Spec

=============================================================================
