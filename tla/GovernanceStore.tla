-------------------------- MODULE GovernanceStore --------------------------
(***************************************************************************)
(* The durable side of human governance and of organization quotas in      *)
(* packages/database: recordHumanDecision, revokeStandingDelegation and    *)
(* consumeOrganizationQuota, called concurrently, each a transaction that  *)
(* may be refused by a constraint, find its row taken, or be rolled back   *)
(* because the caller stops.  A caller that lost the answer asks again.    *)
(*                                                                         *)
(* PostgreSQL is outside the repository and assumed as in WorkPackageStore;*)
(* an insert also waits for an open transaction that has inserted the same *)
(* unique key.                                                             *)
(***************************************************************************)
EXTENDS Integers, FiniteSets

CONSTANTS
  Caller,
  Request,      \* decision requests
  Delegation,   \* standing delegations
  Project,
  DecisionId,   \* identifiers callers give their decisions
  Word,         \* what people may answer or say
  Amount,       \* of the quota, asked for in one call; zero only counts versions
  Maximum,      \* of the quota, as setOrganizationQuota created it
  Null,         \* a delegation in force
  NoRow         \* a delegation that was not recorded

DelegationRow == [project : Project, words : Word \cup {Null}]

ASSUME GovernanceAssumption ==
  /\ Maximum \in Nat
  /\ Amount \subseteq Nat \ {0}
  /\ Null \notin Word
  /\ NoRow \notin DelegationRow

VARIABLES
  requests,      \* status of each request
  decisions,     \* committed rows of HumanDecision
  delegations,   \* of each delegation, its project and its words of revocation
  quota,         \* the row of OrganizationQuota
  events,        \* committed lifecycle events
  call           \* each caller's transaction

vars == <<requests, decisions, delegations, quota, events, call>>

NoCall == [at |-> "idle"]

Init ==
  /\ requests = [r \in Request |-> "absent"]
  /\ decisions = {}
  /\ delegations = [d \in Delegation |-> NoRow]
  /\ quota = [used |-> 0, version |-> 1]
  /\ events = {}
  /\ call = [c \in Caller |-> NoCall]

At(c, where) == call[c].at = where
End(c) == call' = [call EXCEPT ![c] = NoCall]
InForce(d) == delegations[d] # NoRow /\ delegations[d].words = Null

-----------------------------------------------------------------------------
(* recordDecisionRequest and recordStandingDelegation: one insert each.    *)
Ask(r) ==
  /\ requests[r] = "absent"
  /\ requests' = [requests EXCEPT ![r] = "pending"]
  /\ UNCHANGED <<decisions, delegations, quota, events, call>>

Grant(d, p) ==
  /\ delegations[d] = NoRow
  /\ delegations' = [delegations EXCEPT ![d] = [project |-> p, words |-> Null]]
  /\ UNCHANGED <<requests, decisions, quota, events, call>>

Begin(c, wanted) ==
  /\ At(c, "idle")
  /\ call' = [call EXCEPT ![c] = wanted]
  /\ UNCHANGED <<requests, decisions, delegations, quota, events>>

(* Mutation: one request may have several decisions.                       *)
SameKeyById(d, e) == d.id = e.id
(* The primary key and the unique request of HumanDecision.                *)
SameKey(d, e) == d.id = e.id \/ d.request = e.request

DecisionOf(c) == [id |-> call[c].id, request |-> call[c].request, words |-> call[c].words]
Inserted == {DecisionOf(c) : c \in {b \in Caller : At(b, "inserted")}}

(* humanDecision.create: the request must exist, and the keys be free.     *)
(* What is answered is not looked at; submitDecision does that.            *)
Insert(c) ==
  /\ At(c, "decide")
  /\ \A d \in Inserted : ~SameKey(d, DecisionOf(c))
  /\ IF /\ requests[call[c].request] # "absent"
        /\ \A d \in decisions : ~SameKey(d, DecisionOf(c))
     THEN call' = [call EXCEPT ![c].at = "inserted"]
     ELSE End(c)
  /\ UNCHANGED <<requests, decisions, delegations, quota, events>>

(* decisionRequest.update, lifecycleEvent.create and the commit.           *)
Resolve(c) ==
  /\ At(c, "inserted")
  /\ decisions' = decisions \cup {DecisionOf(c)}
  /\ requests' = [requests EXCEPT ![call[c].request] = "resolved"]
  /\ events' = events \cup {<<"recorded", call[c].id>>}
  /\ End(c)
  /\ UNCHANGED <<delegations, quota>>

(* standingDelegation.updateMany where the delegation is of this project   *)
(* and in force; it waits for another revocation and then sees its result. *)
Revoke(c) ==
  /\ At(c, "revoke")
  /\ LET d == call[c].delegation IN
     /\ \A b \in Caller : At(b, "revoked") => call[b].delegation # d
     /\ IF InForce(d) /\ delegations[d].project = call[c].project
        THEN call' = [call EXCEPT ![c].at = "revoked"]
        ELSE End(c)
  /\ UNCHANGED <<requests, decisions, delegations, quota, events>>

Withdraw(c) ==
  /\ At(c, "revoked")
  /\ delegations' = [delegations EXCEPT ![call[c].delegation].words = call[c].words]
  /\ events' = events \cup {<<"revoked", call[c].delegation>>}
  /\ End(c)
  /\ UNCHANGED <<requests, decisions, quota>>

(* organizationQuota.findUniqueOrThrow and the test of the maximum.        *)
ReadQuota(c) ==
  /\ At(c, "consume")
  /\ IF quota.used + call[c].amount <= Maximum
     THEN call' = [call EXCEPT ![c] = [at |-> "read", amount |-> @.amount, seen |-> quota]]
     ELSE End(c)
  /\ UNCHANGED <<requests, decisions, delegations, quota, events>>

(* Mutation: the row is updated whatever it has become.                    *)
TakeBlindly(c) ==
  /\ At(c, "read")
  /\ \A b \in Caller : ~At(b, "taken")
  /\ call' = [call EXCEPT ![c].at = "taken"]
  /\ UNCHANGED <<requests, decisions, delegations, quota, events>>
(* organizationQuota.updateMany where version and use are those read.      *)
Take(c) ==
  /\ At(c, "read")
  /\ \A b \in Caller : ~At(b, "taken")
  /\ IF quota = call[c].seen
     THEN call' = [call EXCEPT ![c].at = "taken"]
     ELSE End(c)
  /\ UNCHANGED <<requests, decisions, delegations, quota, events>>

Spend(c) ==
  /\ At(c, "taken")
  /\ quota' = [used |-> quota.used + call[c].amount, version |-> quota.version + 1]
  /\ End(c)
  /\ UNCHANGED <<requests, decisions, delegations, events>>

(* The caller stops before its transaction ends, which is rolled back.     *)
Abort(c) ==
  /\ ~At(c, "idle")
  /\ End(c)
  /\ UNCHANGED <<requests, decisions, delegations, quota, events>>

Wanted ==
  [at : {"decide"}, id : DecisionId, request : Request, words : Word]
    \cup [at : {"revoke"}, delegation : Delegation, project : Project, words : Word]
    \cup [at : {"consume"}, amount : Amount]

Next ==
  \/ \E r \in Request : Ask(r)
  \/ \E d \in Delegation, p \in Project : Grant(d, p)
  \/ \E c \in Caller :
       \/ \E wanted \in Wanted : Begin(c, wanted)
       \/ Insert(c) \/ Resolve(c)
       \/ Revoke(c) \/ Withdraw(c)
       \/ ReadQuota(c) \/ Take(c) \/ Spend(c)
       \/ Abort(c)

Spec == Init /\ [][Next]_vars

-----------------------------------------------------------------------------
Quota == [used : Nat, version : Nat]
Decision == [id : DecisionId, request : Request, words : Word]
CallRecord ==
  {NoCall} \cup Wanted
    \cup [at : {"inserted"}, id : DecisionId, request : Request, words : Word]
    \cup [at : {"revoked"}, delegation : Delegation, project : Project, words : Word]
    \cup [at : {"read", "taken"}, amount : Amount, seen : Quota]

TypeOK ==
  /\ requests \in [Request -> {"absent", "pending", "resolved"}]
  /\ decisions \subseteq Decision
  /\ delegations \in [Delegation -> DelegationRow \cup {NoRow}]
  /\ quota \in Quota
  /\ events \subseteq ({"recorded"} \X DecisionId) \cup ({"revoked"} \X Delegation)
  /\ call \in [Caller -> CallRecord]

(* Request, decision and event of a choice, and delegation and event of a  *)
(* revocation, tell the same story at all times, whoever stopped where: a  *)
(* request is resolved exactly if it has a decision, and every event has   *)
(* the one row it speaks of.                                               *)
RecordsAgree ==
  /\ \A r \in Request : Cardinality({d \in decisions : d.request = r})
                          = IF requests[r] = "resolved" THEN 1 ELSE 0
  /\ events = {<<"recorded", d.id>> : d \in decisions}
                \cup {<<"revoked", d>> : d \in {e \in Delegation : delegations[e] # NoRow
                                                                    /\ ~InForce(e)}}
  /\ \A d, e \in decisions : d.id = e.id => d = e

(* Racing and repeated calls keep what governance promises: one answer to  *)
(* a request for good, the words of the first revocation, no quota         *)
(* overbooked.                                                             *)
AnswerTo(r) ==
  IF \E d \in decisions : d.request = r
  THEN (CHOOSE d \in decisions : d.request = r).words ELSE Null
RevocationOf(d) == IF delegations[d] = NoRow THEN Null ELSE delegations[d].words
Promise == INSTANCE Governance WITH
  answer <- [r \in Request |-> AnswerTo(r)],
  revocation <- [d \in Delegation |-> RevocationOf(d)],
  used <- quota.used
ImplementsGovernance == Promise!Spec

=============================================================================
