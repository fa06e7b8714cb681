------------------------------ MODULE Delivery ------------------------------
(***************************************************************************)
(* ProjectLeadOrchestrator.run of packages/orchestration with the checks   *)
(* and the gate of packages/verification: implement, verify, review,       *)
(* repair within a budget, accept and close.  Several runs, each of its    *)
(* own work package, advance concurrently; every await is a point where    *)
(* others run and where the port may raise, which ends the run and leaves  *)
(* what was recorded; the caller may then run the package again.           *)
(*                                                                         *)
(* Agents, commands and reviewers are outside the repository: an agent     *)
(* reports a revision, a command ends one way or another, a reviewer       *)
(* answers anything.  run hands repositoryPath to the checks alone and     *)
(* never compares what is there with the revision the agent reported, so   *)
(* the directory is left out.                                              *)
(* The store is InMemoryLifecycleStore, which keeps whatever it is given.  *)
(***************************************************************************)
EXTENDS Integers, FiniteSets, WorkPackageRules

CONSTANTS
  Lead,           \* runs, and with them their work packages
  Check,          \* the checks of every run
  Builders,       \* independence group of the implementers
  Reviewers,      \* independence groups reviewers come from
  MaxRepair,      \* maxRepairAttempts
  MaxExecutions   \* executions per package considered, over all its runs

ASSUME DeliveryAssumption ==
  /\ MaxRepair \in Nat /\ MaxExecutions \in Nat /\ MaxExecutions > MaxRepair

VARIABLES
  at,          \* where each run is: the last await it has passed
  recorded,    \* the state last recorded for the package
  attempt,     \* the loop counter
  executions,  \* executions of the package so far
  begun,       \* executions of the package when its latest run began
  revision,    \* latestRevision: the execution that first reported it
  results,     \* results of the attempt, per check
  review,      \* the ReviewResult of the attempt
  gate,        \* outcome of the attempt's gate
  evidence     \* evidence records in the store

vars == <<at, recorded, attempt, executions, begun, revision, results, review, gate,
          evidence>>

NoResult == [status |-> "none", revision |-> 0, execution |-> 0]
NoReview == [approved |-> FALSE, asserts |-> FALSE, revision |-> 0, group |-> Builders,
             execution |-> 0]
NoResults == [k \in Check |-> NoResult]

Init ==
  /\ at = [l \in Lead |-> "idle"]
  /\ recorded = [l \in Lead |-> "planned"]
  /\ attempt = [l \in Lead |-> 0]
  /\ executions = [l \in Lead |-> 0]
  /\ begun = [l \in Lead |-> 0]
  /\ revision = [l \in Lead |-> 0]
  /\ results = [l \in Lead |-> NoResults]
  /\ review = [l \in Lead |-> NoReview]
  /\ gate = [l \in Lead |-> "none"]
  /\ evidence = {}

-----------------------------------------------------------------------------
(* store.transition, then on to the next await.                            *)
Transition(l, from, state, to) ==
  /\ at[l] = from
  /\ recorded' = [recorded EXCEPT ![l] = state]
  /\ at' = [at EXCEPT ![l] = to]
PassTo(l, from, to) ==
  /\ at[l] = from
  /\ at' = [at EXCEPT ![l] = to]
  /\ UNCHANGED recorded

attemptVars == <<revision, results, review, gate>>

Begin(l) ==
  /\ Transition(l, "idle", "eligible", "starting")
  /\ attempt' = [attempt EXCEPT ![l] = 0]
  /\ gate' = [gate EXCEPT ![l] = "none"]
  /\ begun' = [begun EXCEPT ![l] = executions[l]]
  /\ UNCHANGED <<executions, revision, results, review, evidence>>

(* Mutation: the results of earlier attempts are kept.                     *)
StartAttemptKeeping(l) ==
  /\ Transition(l, "starting", "running", "executing")
  /\ UNCHANGED <<attempt, executions, begun, attemptVars, evidence>>
StartAttempt(l) ==
  /\ Transition(l, "starting", "running", "executing")
  /\ results' = [results EXCEPT ![l] = NoResults]
  /\ UNCHANGED <<attempt, executions, begun, revision, review, gate, evidence>>

(* The agent reports a revision: a new one, or one it reported before.     *)
Execute(l) ==
  /\ executions[l] < MaxExecutions
  /\ PassTo(l, "executing", "executed")
  /\ executions' = [executions EXCEPT ![l] = @ + 1]
  /\ \E rev \in 1..executions[l] + 1 : revision' = [revision EXCEPT ![l] = rev]
  /\ UNCHANGED <<attempt, begun, results, review, gate, evidence>>

StartVerifying(l) ==
  /\ Transition(l, "executed", "verifying", "verifying")
  /\ UNCHANGED <<attempt, executions, begun, attemptVars, evidence>>

(* The identifier of a check's evidence: the check and the digest of the   *)
(* output, which tells apart how the command ended.                        *)
EvidenceId(k, status) == <<k, status>>

Collected(l, k) ==
  \E e \in evidence : e.id[1] = k /\ e.subject = l /\ e.execution = executions[l]

(* VerificationEngine.run, stamped with the revision the caller names, and *)
(* recordEvidence.  results.find takes the first result of a check.        *)
RunCheck(l, k) ==
  /\ at[l] = "verifying"
  /\ ~Collected(l, k)
  /\ \E status \in {"passed", "failed", "error"} :
       /\ evidence' = evidence \cup {[id |-> EvidenceId(k, status), subject |-> l,
                                      execution |-> executions[l]]}
       /\ results' = [results EXCEPT ![l][k] =
            IF @ # NoResult THEN @
            ELSE [status |-> status, revision |-> revision[l], execution |-> executions[l]]]
  /\ UNCHANGED <<at, recorded, attempt, executions, begun, revision, review, gate>>

StartReviewing(l) ==
  /\ \A k \in Check : Collected(l, k)
  /\ Transition(l, "verifying", "reviewing", "reviewing")
  /\ UNCHANGED <<attempt, executions, begun, attemptVars, evidence>>

(* The reviewer's answer; its evidence, under an identifier of its own,    *)
(* may be about an earlier revision.                                       *)
Review(l) ==
  /\ PassTo(l, "reviewing", "reviewed")
  /\ \E approved, asserts \in BOOLEAN, group \in Reviewers, rev \in {revision[l], revision[l] - 1} :
       review' = [review EXCEPT ![l] =
         [approved |-> approved, asserts |-> asserts, revision |-> rev, group |-> group,
          execution |-> executions[l]]]
  /\ evidence' = evidence \cup {[id |-> <<"review", l, executions[l]>>, subject |-> l,
                                 execution |-> executions[l]]}
  /\ UNCHANGED <<attempt, executions, begun, revision, results, gate>>

-----------------------------------------------------------------------------
(* evaluateGate.                                                           *)
Failed(l) == (\E k \in Check : results[l][k].status = "failed") \/ ~review[l].asserts

(* Mutation: a check that could not run is no reason against promotion.    *)
DoubtsLenient(l) ==
  \/ \E k \in Check : results[l][k].status = "none"
  \/ review[l].revision # revision[l]
  \/ review[l].group = Builders
(* Reasons: no result, stale evidence, a check that could not be run, a    *)
(* stale review, a reviewer of the implementers' group.                    *)
Doubts(l) ==
  \/ \E k \in Check : \/ results[l][k].status \in {"none", "error"}
                      \/ results[l][k].revision # revision[l]
  \/ review[l].revision # revision[l]
  \/ review[l].group = Builders

GateOutcome(l) ==
  CASE Failed(l)                -> "failed"
    [] ~Failed(l) /\ Doubts(l)  -> "inconclusive"
    [] ~Failed(l) /\ ~Doubts(l) -> "passed"

RecordGate(l) ==
  /\ PassTo(l, "reviewed", "gated")
  /\ gate' = [gate EXCEPT ![l] = GateOutcome(l)]
  /\ UNCHANGED <<attempt, executions, begun, revision, results, review, evidence>>

Promotable(l) == gate[l] = "passed" /\ review[l].approved

Accept(l) ==
  /\ Promotable(l)
  /\ Transition(l, "gated", "accepted", "accepted")
  /\ UNCHANGED <<attempt, executions, begun, attemptVars, evidence>>

Close(l) ==
  /\ Transition(l, "accepted", "closed", "closed")
  /\ UNCHANGED <<attempt, executions, begun, attemptVars, evidence>>

(* Mutation: the attempt is not counted.                                   *)
RepairUncounted(l) ==
  /\ ~Promotable(l)
  /\ attempt[l] < MaxRepair
  /\ Transition(l, "gated", "repair_required", "starting")
  /\ UNCHANGED <<attempt, executions, begun, attemptVars, evidence>>
(* Mutation: one repair more than the budget.                              *)
RepairOnceMore(l) ==
  /\ ~Promotable(l)
  /\ attempt[l] <= MaxRepair
  /\ Transition(l, "gated", "repair_required", "starting")
  /\ attempt' = [attempt EXCEPT ![l] = @ + 1]
  /\ UNCHANGED <<executions, begun, attemptVars, evidence>>
Repair(l) ==
  /\ ~Promotable(l)
  /\ attempt[l] < MaxRepair
  /\ Transition(l, "gated", "repair_required", "starting")
  /\ attempt' = [attempt EXCEPT ![l] = @ + 1]
  /\ UNCHANGED <<executions, begun, attemptVars, evidence>>

Block(l) ==
  /\ ~Promotable(l)
  /\ attempt[l] = MaxRepair
  /\ Transition(l, "gated", "blocked", "blocked")
  /\ UNCHANGED <<attempt, executions, begun, attemptVars, evidence>>

Ended(l) == at[l] \in {"idle", "closed", "blocked", "raised"}

(* A port raises; the exception leaves run.                                *)
Raise(l) ==
  /\ ~Ended(l)
  /\ at' = [at EXCEPT ![l] = "raised"]
  /\ UNCHANGED <<recorded, attempt, executions, begun, attemptVars, evidence>>

(* The caller runs the package again.                                      *)
Again(l) ==
  /\ at[l] \in {"raised", "blocked"}
  /\ executions[l] + MaxRepair < MaxExecutions
  /\ at' = [at EXCEPT ![l] = "idle"]
  /\ UNCHANGED <<recorded, attempt, executions, begun, attemptVars, evidence>>

Advance(l) ==
  \/ StartAttempt(l) \/ Execute(l) \/ StartVerifying(l)
  \/ \E k \in Check : RunCheck(l, k)
  \/ StartReviewing(l) \/ Review(l) \/ RecordGate(l)
  \/ Accept(l) \/ Close(l) \/ Repair(l) \/ Block(l)

Next == \E l \in Lead : Begin(l) \/ Advance(l) \/ Raise(l) \/ Again(l)

Spec == Init /\ [][Next]_vars

(* Every port answers in the end.                                          *)
FairSpec == Spec /\ \A l \in Lead : WF_vars(Advance(l))

-----------------------------------------------------------------------------
Result == [status : {"none", "passed", "failed", "error"}, revision : Nat, execution : Nat]
ReviewResult == [approved : BOOLEAN, asserts : BOOLEAN, revision : Int,
                 group : Reviewers \cup {Builders}, execution : Nat]
Place == {"idle", "starting", "executing", "executed", "verifying", "reviewing", "reviewed",
          "gated", "accepted", "closed", "blocked", "raised"}

TypeOK ==
  /\ at \in [Lead -> Place]
  /\ recorded \in [Lead -> Status]
  /\ attempt \in [Lead -> 0..MaxRepair]
  /\ executions \in [Lead -> 0..MaxExecutions]
  /\ begun \in [Lead -> Nat]
  /\ revision \in [Lead -> Nat]
  /\ results \in [Lead -> [Check -> Result]]
  /\ review \in [Lead -> ReviewResult]
  /\ gate \in [Lead -> {"none", "passed", "failed", "inconclusive"}]
  /\ \A l \in Lead : revision[l] <= executions[l]
  /\ \A e \in evidence : e.subject \in Lead /\ e.execution \in Nat

(* "Close only with evidence tied to the current revision": an accepted    *)
(* package has, from its latest execution on, every check passed and the   *)
(* approval of a reviewer outside the implementers' group, all about the   *)
(* revision that is accepted.  A repair repeats both.                      *)
AcceptedIsVerified ==
  \A l \in Lead : recorded[l] \in {"accepted", "closed"} =>
    /\ \A k \in Check : results[l][k] =
         [status |-> "passed", revision |-> revision[l], execution |-> executions[l]]
    /\ review[l].approved /\ review[l].asserts
    /\ review[l].revision = revision[l]
    /\ review[l].group # Builders
    /\ review[l].execution = executions[l]

(* "The work blocks after the declared repair budget is exhausted": no run *)
(* executes more often than its budget allows, and one that blocks the     *)
(* package has used all of it.                                             *)
BudgetIsUsed ==
  \A l \in Lead :
    /\ executions[l] - begun[l] <= MaxRepair + 1
    /\ recorded[l] = "blocked" => executions[l] - begun[l] = MaxRepair + 1

(* A run that is started ends.                                             *)
RunsEnd == \A l \in Lead : ~Ended(l) ~> Ended(l)

=============================================================================
