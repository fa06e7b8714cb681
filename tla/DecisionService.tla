-------------------------- MODULE DecisionService --------------------------
(***************************************************************************)
(* InMemoryDecisionService of packages/governance, which the API serves:   *)
(* requests, decisions and delegations in maps.  No method awaits anything *)
(* before it has returned, so each is one step.  A call that throws leaves *)
(* the maps as they are and is not an action.                              *)
(***************************************************************************)
EXTENDS TLC

CONSTANTS
  Request,      \* identifiers of requests, a request being one for good
  Delegation,
  Identifier,   \* of decisions; the API sends "" for a caller that names none
  Option,
  Word,         \* what people may say
  Blank,        \* words that are empty once trimmed
  ProjectOf,    \* of each request and delegation
  Offered,      \* the options of each request
  Null          \* a delegation in force

Project == {ProjectOf[x] : x \in Request \cup Delegation}

VARIABLES
  requests,
  decisions,     \* a decision for each identifier in use
  delegations    \* the words of revocation of each delegation

vars == <<requests, decisions, delegations>>

Init ==
  /\ requests = {}
  /\ decisions = <<>>
  /\ delegations = <<>>

Resolved(r) == \E i \in DOMAIN decisions : decisions[i].request = r

(* listPending                                                             *)
Pending(p) == {r \in requests : ProjectOf[r] = p /\ ~Resolved(r)}

AddRequest(r) ==
  /\ requests' = requests \cup {r}
  /\ UNCHANGED <<decisions, delegations>>

(* Whatever was kept under the delegation's identifier is replaced.        *)
AddDelegation(d) ==
  /\ delegations' = (d :> Null) @@ delegations
  /\ UNCHANGED <<requests, decisions>>

(* submitDecision                                                          *)
Submits(r, p, o, w) == p = ProjectOf[r] /\ o \in Offered[r] /\ w # Blank

Decide(i, r, p, o, w) ==
  /\ r \in requests
  /\ ~Resolved(r)
  /\ Submits(r, p, o, w)
  /\ decisions' = (i :> [request |-> r, option |-> o, words |-> w]) @@ decisions
  /\ UNCHANGED <<requests, delegations>>

(* revokeDelegation                                                        *)
Revokes(d, w) == delegations[d] = Null /\ w # Blank

Revoke(d, p, w) ==
  /\ d \in DOMAIN delegations
  /\ p = ProjectOf[d]
  /\ Revokes(d, w)
  /\ delegations' = [delegations EXCEPT ![d] = w]
  /\ UNCHANGED <<requests, decisions>>

Next ==
  \/ \E r \in Request : AddRequest(r)
  \/ \E d \in Delegation : AddDelegation(d)
  \/ \E i \in Identifier, r \in Request, p \in Project, o \in Option, w \in Word :
       Decide(i, r, p, o, w)
  \/ \E d \in Delegation, p \in Project, w \in Word : Revoke(d, p, w)

Spec == Init /\ [][Next]_vars

-----------------------------------------------------------------------------
(* A request the user has answered is never again one that waits for an    *)
(* answer ("Decision request is already resolved").                        *)
AnswersStand ==
  [][\A p \in Project : Pending(p)' \cap requests \subseteq Pending(p)]_vars

=============================================================================
