# A TLA+ model of v3-aidlc

v3-aidlc runs software delivery with agents.  It is two programs in one
repository: a Python control plane (`src/src/v3_aidlc`) that plans work, records
a canonical event history and recovers interrupted runs, and a TypeScript
delivery stack (`src/packages`, `src/apps`, `src/prisma`) that keeps work
packages in PostgreSQL and drives one package from implementation to acceptance.
This directory models the parts of both that decide something over several
steps or several actors, checks them with TLC on small instances, and proves
the safety of most of them with TLAPS for every value of the constants.

Paths below are relative to the repository's own checkout, `src/`.

## Running it

    tlc -config MCScheduler.cfg MCScheduler       # any run: cfg and its module
    tlapm SchedulerProofs.tla                     # any of the eight proof modules

`PROJECT.json` lists the runs, the lines each definition is translated from, the
mutations each property is tested against, the hazards and the theorems.

## The system

| Component | Where | State it keeps | Operations | What makes it correct | Here |
|---|---|---|---|---|---|
| Scheduler | `scheduler.py` 137-351 | none; one call walks the candidates of a snapshot | `schedule` | a plan never double-books a domain or overruns a quota, leaves no room unused, is the plan the rules determine | modelled, proved |
| Shared reservations | arguments and `stateRevision` of `schedule` | queue, reservations, revisions, outstanding plans | submit, withdraw, plan, commit, reject, complete, release, revise | racing planners never overbook; a stale plan is not committed; the queue drains | modelled, proved |
| Integration batch | `scheduler.py` 341-482 | none | build and validate a batch and its result | a batch holds accepted, compatible work on one base | modelled |
| Event history | `recovery.py` 86-203, `reference_orchestrator.py` 240-275 | a hash-chained sequence of events | `append_event`, `verify_event_chain`, `record` | retries are answered, never repeated; damage is noticed; what was acknowledged stays | modelled |
| Recovery planning | `recovery.py` 326-480 | leases, effect observations, attempts | `plan_recovery` | an external effect happens once; retries stay within budget; every run settles | modelled, proved |
| Findings and learning | `recovery.py` 206-325 | none | validation | a closed finding has evidence | not modelled |
| Reference orchestrator | `reference_orchestrator.py` 199-655 | the trace of one execution | `execute`, `validate_trace` | no control is skipped, no status hides a refusal, nothing passes unproved | modelled, proved |
| Agent adapters | `agent_adapters.py` | none | negotiate, select, build dispatch, normalise results | a runner gets only what it can carry out and is authorised; a result is accepted only for its dispatch | modelled |
| Authorization | `authorization.py` | none | `evaluate_authorization` | the strictest rule wins; an unknown budget is not met | modelled, proved |
| Context compiler | `context_compiler.py` | none | `compile_context` | only what the run may see, within budget, one voice per claim | modelled |
| Evidence and gates (Python) | `evidence_gates.py` | none | freshness, exceptions, `evaluate_gate` | no gate passes on stale, foreign or missing evidence | modelled |
| Lifecycle contracts | `lifecycle_contracts.py` | none | `select_modes` | required and matching modes are active, optional ones by choice | modelled |
| State kernel, bootstrap | `state_kernel.py`, `bootstrap.py`, `snapshot.py` | SQLite rows, two files | upserts, bootstrap, snapshot | an interrupted bootstrap run again gives the same state; a snapshot shows the past | partly |
| Gateway | `conversational_gateway.py` | a transcript | activate, relay | the user's words reach the Lead unchanged; only the Lead confirms | partly |
| Security, operations, runtime configuration, execution model | files of those names | none | evaluations over records | total, fail closed | not modelled |
| Work package lifecycle | `packages/domain` | status and version of a package | `transition` | only the moves of the table | modelled |
| Durable store | `packages/database`, `prisma/schema.prisma` | rows and events in PostgreSQL | `transitionWorkPackage`, evidence, gates, quotas, decisions, proposals | events explain rows under concurrency and retries | partly: transitions, decisions, revocations, quotas, all proved |
| Delivery loop | `packages/orchestration` | state of one run | `run` | acceptance needs fresh evidence of the accepted revision; repairs are bounded | modelled, proved |
| Verification | `packages/verification` | none | `run`, `evaluateGate` | evidence is about the revision it names | modelled with the loop |
| Governance | `packages/governance`, `packages/database` | decision requests, decisions, delegations, in maps and in PostgreSQL | ask, decide, delegate, revoke | a request is decided once and for good; a revocation stands | modelled, proved |
| Organizations | `packages/organizations`, `packages/database` | teams, memberships, quotas | authorize, consume | a quota is never overbooked; roles grant only in their scope | partly: quotas, proved |
| Workspaces, GitHub | `packages/workspace`, `packages/github` | worktrees, proposals, pull requests, CI evidence | collect, publish, collect CI, gate | what is published is what was reviewed | planned |
| Providers | `packages/providers` | none | selection by capability | deterministic, fails closed | planned |
| Context, repository, analytics, dashboard, evaluations, configuration, applications | `packages/*`, `apps/*` | none or read-only | input, output, rendering | | not modelled |

How they interact.  The Project Lead (an agent, outside the repository) submits
candidates; `schedule` computes a plan from a snapshot and stamps it with the
state revision; a store outside the repository commits it if the revision is
still current.  `execute` takes scheduled work through authorization, context,
dispatch, evidence and gate, recording every step with `append_event`; after an
interruption `plan_recovery` reads the recorded history with the leases and says
what may be retried.  The TypeScript loop is a second consumer of the same ideas:
it calls ports (implementer, checks, reviewer, store) and records states through
a store that is either a map in memory or PostgreSQL.  The user talks to a
liaison, who hands messages on to the Project Lead through the gateway; what the
Lead records goes to a SQLite database, which bootstrap fills and snapshots show.

Hard behaviours: planners and callers that race on what they read earlier;
sessions that stop between an action and its record, or lose an answer and
submit again; workers that return after their lease has expired; effects outside
that cannot be taken back; ports that raise in the middle of an attempt; budgets
counted across retries; controls that are each right and must not be
combined in the wrong order; a bootstrap and a snapshot that interleave with
whoever else writes.  `PROJECT.json` lists them one by one as hazards, with
the properties that cover them or the reason none does yet.

## The modules

**Scheduling.**  `SchedulingRules` holds the pure rules: `ClaimsConflict`,
`EffectivePriority` (aging), `Before` (the sort key), the four kinds of deferral
reason, and `IsPlan`, the set a greedy walk must select, written without a walk.
`Scheduler` is the loop of `schedule`: `Defer` and `Select` take the first
pending candidate, `ReturnPlan` returns.  `usage`, `selected` and `reasons` are
the loop's variables.  The entries the code returns are these two sets.
`SchedulePlan` is the abstract specification: one step from a snapshot to the
plan `IsPlan` allows.  `Scheduler` implements it under the mapping
`chosen <- IF returned THEN selected ELSE {}`.
Identifiers are naturals, which order as the code orders strings; a claim's
resource is its domain.

**Shared reservations.**  `Reservations` puts `IsPlan` between planners and the
Project Lead.  `MakePlan` reads a snapshot and computes in one step (the code is
a synchronous function), then the plan waits; `Commit` needs the plan's state
revision to be the store's still, `Reject` drops it otherwise, `Crash` loses it.
The store's state revision is an opaque token only compared for equality, so it
is represented by `fresh`, the planners whose copy still equals it.  Store and
Project Lead are external: they are modelled from the arguments `schedule`
validates and the revision it returns.  Waiting times are exact up to `Horizon`,
where aging no longer changes, and only ordered beyond it (`Compressed`).

**Execution.**  `Execution` is `ReferenceOrchestrator.execute`, one action per call it
makes into a contract: `Start` (activation and `select_modes`), then for each
package `Authorize`, `Compile` and `Negotiate`, then `Plan`, then for each
prepared package `Defer`, or `Dispatch`, `Invoke` and `Accept` or `Reject`, then
`Integrate` and `Finish`.  `phase` is the call about to be made, `todo` what is
left of the loop, `current` the local variables of one iteration; `prepared`,
`traces`, `plan`, `completions` and `events` are the variables of those names, and
`flags` the four booleans from which the status is made.  Every exception that
`execute` catches is a branch of its action; every one it does not catch is
`Raise`.  The contracts are pure and have a module each: `ModeRules`,
`AuthorizationRules`, `ContextRules`, `AdapterRules`, `GateRules`, `BatchRules`, and
`Activation` of `GatewayRules`; `SchedulingRules!IsPlan` stands for `schedule`, which
`Scheduler` shows it does, and `EventRules` for the history.  A scenario is chosen
piece by piece where it is first read; the Project Lead who wrote it and
the runners are external.  Run requests name their own package and a run of its
own, as the conformance scenarios do; `execute` does not compare them.  Lists
the code walks in an order that cannot matter are sets.  `earned`, which no action
reads, is computed from the acceptance data by a definition of its own
(`Proven`) rather than by `GateRules`, and `PreparedIsAuthorized`,
`ManifestIsSound` and `DispatchIsFit` likewise say what they claim without the
rule modules where those decide it.
`Journey` is the abstract specification, ARCH-11's journey of a package: proposed,
authorized, equipped, scheduled, dispatched, returned, accepted, or refused on
the way.  `Execution` implements it with the stages read off the events it recorded,
so that a skipped control, an event in the wrong order and a status the
packages do not warrant all show.

**Project state.**  `StateRules` is the SQLite database and what each statement of
`StateKernel` does to it.  `ProjectState` is bootstrap, a statement at a time and
stopped anywhere, up to `MaxStarts` times; snapshots, whose five reads are
separate and whose file is emptied before it is written; and the conversation:
`Say` adds a message only if `validate_transcript` and, for the liaison,
`validate_relay` pass it, the Lead records a submission with `record_decision` and
`append_event` (`Recording`), answers with a receipt (`Confirm`), and may be stopped
between any two of these (`Forget`) and start again.  That the Lead makes its
identifiers from the message it answers is an assumption about it: with
`INSERT OR IGNORE` it is what makes a retry harmless, and the kernel enforces nothing.

**Event history.**  `EventRules` has `Valid` (`validate_event`), `Verifies`
(`verify_event_chain`) and `AppendOutcome`/`AppendEvent` (`append_event`).  Digests
are injective tags.  `EventLog` is sessions that load the history, `Record` their
drafts (the `record` of `execute`), and `Store` the result.  A session that stops
after storing does not know it has stored, and submits the same drafts again.
The store, external, accepts a history only on top of the one it was loaded from.
`Damage` alters, loses, repeats or moves a stored event.

**Recovery.**  `Recovery` has dispatch and completion as `execute` records them,
workers with leases (external), and `plan_recovery`: `ExpiredAction` and
`ActionFor` are its decision, `MakePlan` its application to every dispatched run.
The plan's steps are carried out one by one while nobody has recorded an event
since; `Discard` makes an outdated plan again.  `RecordsEffectKey` says whether the
dispatch payload names the key under which effects are observed: `plan_recovery`
reads it from there, `execute` does not write it.  So run `recovery`, where it is
TRUE, checks the planner on the payloads it expects, and `recovery_payload`, where
it is FALSE, on those `execute` writes: an effect is still not repeated, which is
proved for both, but one whose worker never reports it is verified for ever.

**Work packages.**  `WorkPackageRules` is the transition table of
`packages/domain`; `WorkPackageLife` is what it promises, a status that moves along
the table with a record of each move.  `WorkPackageStore` is
`transitionWorkPackage`: a transaction per call, `Read`, `Update` (guarded by
version and by the row lock another transaction may hold) and `Commit`, whose
event insert a duplicate identifier refuses, taking the update with it.  Callers
stop, lose the answer and ask again under the same identifier.  It implements
`WorkPackageLife`, the moves being read off the recorded events.

**Delivery.**  `Delivery` is `ProjectLeadOrchestrator.run`, one action between
consecutive awaits, with `RunCheck` (`VerificationEngine.run`) and `GateOutcome`
(`evaluateGate`).  Any port may raise between any two awaits (`Raise`); the caller
may run the package again (`Again`).  Agents, commands and reviewers are external:
an execution reports a new revision or one the package had before, a command ends
in any way, a reviewer answers anything.  The directory the checks run in is left
out: `run` does not tell the agent of it and compares nothing with it, so the
loop's evidence is about the revision it names and no more.  That a review's
evidence names the package it was made for is left out as well: `evaluateGate`
does not look.

**Governance.**  `Governance` is what is promised: one answer to a request, the
words of the first revocation, no more use of a quota than its maximum.
`GovernanceStore` is the durable side in `packages/database`: `recordHumanDecision`
is `Insert`, which the unique keys of `HumanDecision` refuse or hold up, and
`Resolve`, its other two writes and the commit; `revokeStandingDelegation` is
`Revoke` and `Withdraw`; `consumeOrganizationQuota` is `ReadQuota`, the guarded `Take`
and `Spend`.  `Begin` chooses any call at any time, so a caller that lost an answer
asks again.  It implements `Governance`.  `DecisionService` is the service in memory
that the API serves; each of its methods is one step.  It does not keep what
`Governance` promises, since decisions are kept under identifiers it does not check.

## What the runs check

Each passing run was explored completely; counts are distinct states.

| Run | Instance | Shows |
|---|---|---|
| `scheduler` (925k) | every snapshot of 3 packages: 5 shapes, 2 domains, a limited and an unknown dimension, waiting times 0 and 9, two revisions or none | the plan is safe, maximal, keeps safety work first, and is the promised one |
| `reservations` (74k) | 2 packages, 2 planners, 4 shapes: reader and writer of a domain, whole-quota work, work depending on package 1 | no overbooking by racing planners; commits are current and maximal; the queue drains |
| `starvation` (violation) | one normal and one critical-path shape in one domain, a single planner, no stale plans | the documented freedom from starvation does not hold |
| `event_log` (79k) | 3 sessions: one causal chain of three events, one reusing a key for other data, one of another project; one storage fault | the history is never continued from damage; retries are answered with the event they made; acknowledged events stay; on an undamaged history every session is recorded in the end, or stopped because it contradicts one that is |
| `recovery` (60k) | a local and an external package, 2 attempts | one effect per package, no duplicated unexpired work, retries within budget and needed, no decision asked for while attempts are left; once heartbeats cease every run settles, unless its effect never happens, and, as keys are recorded here, every effect that happened is reconciled |
| `recovery_payload` (violation) | one external package, dispatch payload as `execute` writes it | success is not reconciled |
| `work_package_store` (26k) | 2 callers, 2 packages, 2 event identifiers, versions up to 3 | events explain rows; an identifier moves once; the lifecycle is implemented; calls end |
| `delivery` (54k) | one package, one check, one repair, three executions over several runs | acceptance is verified; budget is exactly used; runs end |
| `governance_store` (590k) | 2 callers, 2 requests, 2 decision identifiers, a delegation and two projects, a quota of 3 consumed by 1, 2 or 4 | requests, decisions, delegations and events agree whoever stops; the store implements what governance promises |
| `decision_service` (violation) | 2 requests, an identifier and none | an answered request is pending again |
| `execution` (159k) | 2 packages (a third holds a reservation in some snapshots), 2 runners, 7 settings of route and policies, 6 sets of facts, 7 contexts, 3 requests, 4 answers, 12 acceptances, 4 integrations | completed means accepted on proof; prepared work is authorised by every rule; dispatches fit; manifests disclose only what is allowed and use the budget; a passed integration is current; the trace is valid; the journey is implemented |
| `project_state` (2.9M) | 2 bootstraps of a script with a statement for each table and two writes of the Lead, 1 snapshot at a time beside it, a conversation of 3 messages, one of a kind | an interrupted bootstrap converges; receipts are true; snapshots show the past |

Why the bounds are enough.  Scheduling conflicts are pairwise and quota needs one
candidate more than fits, so three packages show every combination of two that
exclude each other with one ordered before, between or after them; the proofs
remove the bound.  Two planners are the least that race, and a third meets the
same test of the state revision.  Three sessions give a retry, a contradicting
session and a foreign one at once.  Two attempts are the least with a retry that
may itself fail and exhaust the budget.  Two callers of two packages give a
conflict on one row, independence on two, and reuse of an identifier across
packages; version 3 gives a package two moves, so that the second must start
where the first ended.  One repair and three executions give a first attempt, a
repair, exhaustion of the budget and a run that starts over.
Two callers are enough to race for one request, one delegation or one quota, of
which 3 has room for either of two amounts of 2 but not for both.
The scenarios of `MCExecution` put a value on each side of every test the rules
make: a cost at the maximum, above it and absent; an item that fills the budget
exactly and one that exceeds it, one that has expired, one of another role; evidence at its greatest age and a second
older; an exception at its expiry and after; a result after the gate; a
base that is the target and one that is not; a request larger than the first
runner.  Two packages suffice for what accumulates over packages (flags,
completions, members).  In `MCProjectState` two starts give one interrupted run and
one that completes it, and a statement per table each kind of upsert; a decision,
its submission and its receipt are the three messages of one exchange.
The named bounds are `MaxStarts`, `MaxReaders`, `MaxMessages`, `MaxOfKind`, `Horizon`, `MaxFaults`, `MaxAttempts` (the code's own),
`MaxVersion`, `MaxRepair` (the code's own) and `MaxExecutions`.

Deadlock is checked where something must always be possible (reservations,
recovery, the governance store, the conversation and the processes of `ProjectState`); the other systems come to an end (a plan is returned, sessions are done,
identifiers are used up, the package is closed, an execution has returned).

Fairness.  Planners act when they can and dispatched work ends (`Reservations`):
`QueueDrains` also assumes, in its own statement, that disturbances and planner
crashes cease.  Sessions go on, and one that keeps starting again in the end stores
and learns of it (`EventLog`, strong fairness on an acknowledged store, since
conflicts and crashes disable it repeatedly), while the stored
history is undamaged; `EventuallyRecorded` assumes that no more crashes come.  In `Recovery` dispatch, the passing
of time, planning and carrying out are fair; workers owe nothing, and
`EveryRunSettles` and `EffectsAreReconciled` assume, in their own statements, that
heartbeats cease.  In `WorkPackageStore` a waiting
update is strongly fair because PostgreSQL grants a row lock to its waiters in
turn.  In `Delivery` every port answers.

## Disagreements between the code and what is said of it

* `starvation`: aging does not prevent starvation, since a larger user priority
  is compared before waiting time inside a class and aged work never leaves
  the class of critical-path work upwards.
* `recovery_payload`: `plan_recovery` looks an effect up under the `effectKey` of
  the dispatch payload, and the payload `execute` records has none.
* `decision_service`: the in-memory service keeps a decision under the identifier
  the caller gives, and the API sends an empty one for a caller that gives none;
  the second decision under it replaces the first, whose request is asked again.

Nine more were met while translating and need no run, since the lines themselves show
them; the definitions follow the code:

* The delivery loop records `running` after `eligible` and after `repair_required`,
  moves the domain table (and so the durable store) refuses.
* Evidence identifiers depend on check and output only, and are a primary key: the
  durable store refuses the evidence of a second attempt that ends the same way.
* The checks run in `repositoryPath` and are stamped with the revision the agent
  reports; the agent is not told of the directory, and nothing compares the two.
* A message may be correlated to itself, and to a message of another
  conversation (`validate_transcript`, against ARCH-05).
* Ambiguous project identity starts managed work instead of a clarification.
* After a runner was invoked, an unacceptable result, unusable acceptance data and
  a stale integration member raise, and the recorded events are lost with the call
  (against ARCH-11: "produce a trace rather than disappearing as exceptions").
* The subject and revision of an acceptance are compared with nothing the run
  produced, so `CompletedIsEarned` speaks of the subject the data name.
* Bootstrap run again sets statuses back to those of its script (ARCH-14 calls
  startup idempotent; what holds is that no row is doubled or lost).
* A snapshot may miss what was committed after it began, and an older one may
  replace a newer file (ARCH-02: "includes the latest committed event").

## What is proved

For every value of the constants that satisfies the named assumptions; none asks
for more than the code's own validation or the parameters' meaning.
`PackageAssumption`: finitely many packages named by naturals.
`PolicyAssumption`, `CandidateAssumption`: what `validate_policy` and
`validate_candidate` accept.  `HorizonAssumption`, `NullAssumption`, `NoneAssumption`: a
horizon, and values that stand for absence and are no others.  `StoreAssumption`,
`GovernanceAssumption`, `RecoveryAssumption`, `DeliveryAssumption`: the targets are
statuses, amounts, budgets and bounds are numbers.  `ScenarioAssumption`: some of the
packages are the work.  `AcceptanceAssumption`: the fields of acceptance data
the rules compare are numbers or sets, as the validated JSON has them.
`ContextAssumption`, `RunnerAssumption`: sizes, times and identifiers are numbers,
contexts and registered runners are finite, and no two runners have one name,
which `ReferenceOrchestrator` refuses.  `ScriptAssumption` of `EventLog`
(`ScriptsAreDrafts`): a session has something to record, and a draft is the five
fields `append_event` takes.  `BootstrapAssumption` (`ScriptIsSound`): bootstrap
creates the schema and then the project, as it does, and the Lead makes its
identifiers apart from those bootstrap uses; a statement of bootstrap under an
identifier of the Lead's would take its place.

| Module | Theorems (property) | What its invariant adds |
|---|---|---|
| `SchedulingRulesProofs` | lemmas on the rules | |
| `SchedulerProofs` | `PlanSafe`, `PlanMaximal`, `SafetyFirst` (`SafetyNotOutranked`), `LoopImplementsPromise`, `Greedy`, `UsageExact` | `UsageIsExact`, `PassedInOrder`, `GreedySoFar`, `EntriesAreForPassed`, `ConflictsAreEarlier` |
| `ReservationsProofs` | `Exclusive`, `QuotaKept`, `FreshPlansSound`, `CommitsCurrent`, `CommitsMaximal` | `FreshPlansFit`, `FreshPlansMaximal` |
| `WorkPackageStoreProofs` | `EventsAlwaysExplainRow`, `AlwaysAppliedOnce`, `ImplementsLifecycle` | `RowHistory`, `CallsAreSound` |
| `GovernanceStoreProofs` | `RecordsAlwaysAgree`, `GovernanceImplemented` | `DecisionsUnique`, `EventsAgree`, `InsertedHeld`, `RevokedHeld`, `QuotaHeld` |
| `RecoveryProofs`, on `Recovery` | `EffectAtMostOnce`, `UnexpiredNeverDuplicated`, `RetriesAlwaysNeeded` | `LeasesDispatched`, `OlderExpired`, `ExternalOnce`, `PlanSound` |
| `RecoveryProofs`, on `EventLog` | `LogTypeCorrect`, `HistoryAlwaysTrue`, `RetryAlwaysAnswered`, `AcknowledgedAlwaysRecorded` | `LogInv` |
| `RecoveryProofs`, on `ProjectState` | `StateTypeCorrect`, `SnapshotAlwaysPast`, `ReceiptAlwaysTrue` | `Singly`, `SnapshotInv`, `ReceiptInv` |
| `DeliveryProofs` | `AcceptedAlwaysVerified`, `BudgetAlwaysUsed` | `EvidenceIsCurrent`, `PromotedIsVerified`, `AttemptsCounted` |
| `ExecutionProofs` | `CompletedEarned`, `PreparedAuthorized`, `IntegrationEarned`, `JourneyImplemented`, `DispatchFit`, `ManifestSound`, `TraceAlwaysValid` | `LoopsCover`, `GrantedOnly`, `LeavesShow`, `EndsOnce`, `EventsTell`, `DataInv` |

Each module that proves invariants also proves the types of the components it
extends, and each inductive invariant was checked by TLC before it was proved, on
the instance of the run or a smaller one.

*Scheduling rules.*  `Before` is a strict total order on a
queue; a non-empty part of the queue has a last member (`LastExists`, by
cardinality); usage is monotone and adds up (`UsageMonotone`, `UsageAdd`).  From
these, a set that satisfies `IsPlan` is compatible and within limits together
with what was reserved (`PlanIsCompatible`, `PlanIsWithinLimits`): of two
conflicting members the later one would have had a reason to wait, and the last
member that uses an exhausted dimension would have been deferred by its quota.
It leaves no room either (`PlanLeavesNoRoom`).

*Scheduler.*  `PlanIsSafe` alone is not inductive: a `Select` preserves it only because
the counter is exact.  Here it follows, as `GreedySoFar` makes the selection so far
the plan `IsPlan` determines for the candidates passed so far.  At the return that
is the plan for the whole queue, which gives `PlanMaximal` and `LoopImplementsPromise`.
`SafetyFirst` needs that a conflict with the plan names an earlier candidate
(`ConflictsAreEarlier`), which aging cannot lift above the class of safety work.

*Reservations.*  A plan whose state revision is still current fits together with
everything now reserved (`FreshPlansFit`), and leaves nothing out that would fit
(`FreshPlansMaximal`).  Every action that changes what a plan depends on empties
`fresh`, so the invariant is preserved for the reason the code has the revision.
The two theorems on commits are action properties of the same invariant.

*Durable store.*  A caller checks a transition against a status it read before, which
only its version guards.  `CallsAreSound` is why that is enough: versions only grow,
so a caller that still finds the version it read also finds the status it read,
and between update and commit it holds the row alone.  `RowHistory` says of
the events without counting what `EventsExplainRow` says with `Cardinality`: one event for each
version, each from where the one before ended.  In `GovernanceStore` the same role is
played by what an open transaction holds: the keys of its decision
(`InsertedHeld`), the row of its delegation (`RevokedHeld`), the quota (`QuotaHeld`).
Both stores implement their abstract specification step by step: a commit is one
abstract step, everything else a stutter.

*Recovery.*  `EffectOnce` rests on `ExternalOnce`: a package with an external effect is
never reclaimed, so it has one run, whose worker acts once.  `PlanSound` carries what the plan
saw to the moment a step is carried out, as long as the plan is fresh; `OlderExpired`
orders the attempts of a package: all but the latest are overdue and no longer leased.

*Event history.*  Sessions only store a history that verifies, on top of the one they
loaded, so `written` always verifies (`LogInv`).  Damage moves events about
and alters contents: every event of a stored history is still one that was
written, but for its content (`Alike`), and where the digest agrees the content
does too.  A history that verifies therefore agrees with `written` event by
event, each fixed by the one before; that is `HistoryAlwaysTrue`.  The other two
follow from what a session holds (`Held`): while it is open the drafts it has been
through are in its history, and one that was refused is not, unless the history it
loaded did not verify.

*Canonical state.*  The statements of the kernel only change rows in place or add
them at the end of a table, so whatever a snapshot reads of a part is between
what that part was when the snapshot began and what it is now (`Between`,
`Grown`), and stays so as others write; `SnapshotAlwaysPast` needs no assumption on the script.  It covers
both processes that take snapshots, bootstrap and the snapshot command, which
overtake each other at the file; the run makes one snapshot at a time.
`ReceiptInv` carries three things together: the conversation is one the gateway
lets through, so that each submission hands on earlier words of the user and each
receipt answers an earlier submission (`TalkIsSound`); the Lead has recorded what it
is about to confirm (`LeadIsSound`); and a row under an identifier the Lead makes
has the contents of the message it was made from (`RowsAreTrue`).  The last is why
`INSERT OR IGNORE` is harmless when the Lead starts over: a row it does not
insert is the row it wanted.

*Delivery.*  Results and review in hand belong to the latest execution
(`EvidenceIsCurrent`), so a gate that passes stands on them (`PromotedIsVerified`); the loop's
counter lags one behind the executions from execution to repair
(`AttemptsCounted`).

*Execution.*  Every package is either still in the list of the loop that runs or has
left it in one of the ways `execute` knows (`LoopsCover`), and each way leaves a flag that keeps the
status from being `completed`, or everything a completed package must have
(`LeavesShow`).  `GrantedOnly` keeps what the policies said of a package's facts until it is dispatched.
`JourneyImplemented` needs `EventsTell` besides: what the recorded events say of each package,
phase by phase and for each position in the loop, is what the control state says;
the stage the refinement mapping reads off the events then moves as `Journey` allows,
for one package in a step of a loop and for all of them when the plan is recorded.
`StrictestProceeds` and `PromotableIsProven` are the two lemmas about the rules: work that the
strictest decision lets proceed is stopped by no rule, default or budget, and
acceptance data the gates pass prove their package in the words of `Proven`.
`EveryRankTaken` says that a finite set is listed in any order on it without gaps,
which a loop over packages in a fixed order rests on.

*Data of an execution.*  `DispatchFit`, `ManifestSound` and `TraceAlwaysValid` rest on
`DataInv`: what is prepared is the manifest compiled for that package and a request of
its size (`PreparedShow`), what is dispatched is made of that and accepted by the chosen runner
(`DispatchShows`), traces say "selected" of the planned packages whose run has returned
(`ScheduleShows`), and a passed integration has a batch (`BatchShows`).  The rest
is about what the rules compute.  `Bytes`, `Rendered` and the chain of
events fill a table from one place to the next; `TableExists` says that there
is such a table and `InductionTo`, from the well-foundedness of `<` on the
naturals, what holds along it.  So `RenderedFills`: the list
keeps both budgets and leaves out only what does not fit; `InOrderLists` and
`RanksOfKeys`: sorting by the four keys lists every item; `PreferredAccepts`: the
preferred runner is one that accepts; `ChainVerifies`: any recorded list, appended
draft by draft, verifies.  `TraceAlwaysValid` has one hypothesis of its own, that
`None` is not a batch.

Only model-checked, and why:

* Everything temporal under fairness (`QueueDrains`, `EventuallyRecorded`, `EveryRunSettles`,
  `EffectsAreReconciled`, `CallsEnd`, `RunsEnd`): liveness and `ENABLED` are out of the prover's reach.
* `EscalationIsNeeded`: its invariant would have to follow an ended lease to what
  ended it, and the run shows it for the two attempts of the code's smallest budget
  with a retry.
* `BootstrapConverges`: what it compares the database with is a fold over the whole
  script, and what a fold computes is induction over data.
* The rules as algorithms: that `SortKey` or `Digest` mean what Python's `sort` and
  canonical JSON do is translation, and is not stated in TLA+.

The type invariants of modules other than `Scheduler` and `Reservations` are stated for
the proofs; no run lists them.  `EventLog` and `ProjectState` give their `Init`, `Next`,
`Spec` and `TypeOK` a prefix, because `RecoveryProofs` extends both beside `Recovery`.

## Not modelled, and why

Wording of errors, formatting, layout of documents and rendering carry no
state.  Readers of a checkout (`packages/context`, `packages/repository`) and summaries of
rows (`analytics`, `dashboard`, `evaluations`) change nothing.  Applications are
transport over the packages.  SHA-256 is taken to be injective.  Validation of
records is modelled where another step depends on it, by what it accepts: that
a field is there and is a string is left to the shape of the records.

`security.py`, `operations.py`, `execution_model.py`, `runtime_config.py` and the
findings of `recovery.py` are validators and evaluations of one record at a time
that nothing in the runtime calls and that keep nothing between calls.
`validate_protocol` compares a file with the code.  The digest of a snapshot
(`databaseSha256`) is read back by nobody, and under SQLite's write-ahead log
it covers the main file only; neither is modelled.  Status changes of entities
by the Lead are left out of `ProjectState`, because bootstrap overwrites them (see above).

## Plan

In this order; the most important behaviour first.

1. `Publication`: worktree session, proposal, pull request, CI evidence and gate,
   with failing steps and retries.  To state: what is published is what was
   reviewed; the gate judges the latest result of a check.
2. `Delivery` over the durable store: the loop composed with `WorkPackageStore`,
   evidence and gate rows under their unique keys.

Proofs to follow come with these modules: that the composition implements both
`Delivery` and `WorkPackageLife`.
