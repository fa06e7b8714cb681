---------------------------- MODULE GatewayRules ----------------------------
(***************************************************************************)
(* src/src/v3_aidlc/conversational_gateway.py: when a conversation becomes *)
(* managed work, and which messages the gateway passes.                    *)
(*                                                                         *)
(*   envelope  [id, conversation, kind, sender, recipient, correlation,    *)
(*              payload]; correlation NoMessage when it has none           *)
(*   payload   function from the names of its fields to their values;      *)
(*             options a sequence of option identifiers, a text "plain" or *)
(*             what is wrong with it                                       *)
(* Activation facts are given as the set of those that hold.               *)
(***************************************************************************)
EXTENDS Naturals, Sequences

(* decide_activation.                                                      *)
Activation(facts) ==
  CASE "projectIdentityAmbiguous" \in facts -> "clarify_project_identity"
    [] "projectIdentityAmbiguous" \notin facts /\ "existingProjectRef" \in facts ->
         "attach_existing_project"
    [] OTHER ->
         IF \/ facts \cap {"explicitFrameworkRequest", "needsPersistentState",
                           "needsOrchestration", "hasExternalSideEffects"} # {}
            \/ {"multiStep", "createsDurableArtifact"} \subseteq facts
         THEN "start_managed_intake" ELSE "stay_conversational"

-----------------------------------------------------------------------------
(* Message kinds, by direction.                                            *)
NoMessage == 0
BadOption == "without label or tradeoff"

FromUser == {"user_request", "user_clarification", "user_decision", "correction",
             "delegation", "revocation"}
FromLead == {"clarification_needed", "progress", "decision_needed", "decision_recorded",
             "blocked", "completed"}
RelayOf ==
  [user_request |-> "intake_proposal", clarification_needed |-> "clarification_request",
   user_clarification |-> "clarification_submission", progress |-> "progress_update",
   decision_needed |-> "decision_request", user_decision |-> "decision_submission",
   blocked |-> "blocked_notice", completed |-> "completion_report",
   correction |-> "correction_submission", delegation |-> "delegation_proposal",
   revocation |-> "revocation_submission"]
Proposals == {RelayOf[k] : k \in FromUser}
UserDirected == {RelayOf[k] : k \in FromLead \cap DOMAIN RelayOf}
Kinds == FromUser \cup FromLead \cup Proposals \cup UserDirected

Direction(kind) ==
  CASE kind \in FromUser     -> <<"user", "liaison">>
    [] kind \in FromLead     -> <<"project_lead", "liaison">>
    [] kind \in Proposals    -> <<"liaison", "project_lead">>
    [] kind \in UserDirected -> <<"liaison", "user">>

Verbatim == {"verbatimRequest", "verbatimResponse", "verbatimCorrection",
             "verbatimDelegation", "verbatimRevocation"}
RequiredFields(kind) ==
  CASE kind = "user_request" -> {"verbatimRequest"}
    [] kind = "intake_proposal" ->
         {"verbatimRequest", "requestedOutcome", "constraints", "assumptions"}
    [] kind = "clarification_needed" -> {"question", "reason"}
    [] kind \in {"user_clarification", "clarification_submission"} -> {"answer"}
    [] kind = "progress" -> {"summary", "completed", "next"}
    [] kind = "decision_needed" -> {"question", "options", "impact"}
    [] kind \in {"user_decision", "decision_submission"} -> {"selectedOption", "verbatimResponse"}
    [] kind = "decision_recorded" -> {"decisionId", "eventIds"}
    [] kind = "blocked" -> {"reason", "affectedWork", "canContinue"}
    [] kind = "completed" -> {"outcome", "evidence", "remainingWork"}
    [] kind \in {"correction", "correction_submission"} -> {"verbatimCorrection"}
    [] kind = "delegation" -> {"verbatimDelegation"}
    [] kind = "delegation_proposal" -> {"verbatimDelegation", "normalizedScope"}
    [] kind \in {"revocation", "revocation_submission"} -> {"verbatimRevocation"}
    [] OTHER -> {}

(* validate_user_message: every text is there, and free of internal        *)
(* identifiers and jargon; a decision offers two to four whole options.    *)
Texts == {"headline", "explanation", "impact", "actionNeeded"}
ValidUserMessage(payload, kind) ==
  /\ Texts \subseteq DOMAIN payload
  /\ \A t \in Texts : payload[t] = "plain"
  /\ kind = "decision_request" =>
       /\ "options" \in DOMAIN payload /\ Len(payload.options) \in 2..4
       /\ \A n \in DOMAIN payload.options : payload.options[n] # BadOption
       /\ "recommendationSupported" \in DOMAIN payload => "recommendation" \in DOMAIN payload

(* validate_envelope, validate_relay and validate_transcript return        *)
(* without raising.                                                        *)
Canonical == {"eventIds", "decisionId", "recorded", "canonicalStatus"}
ValidEnvelope(e) ==
  /\ e.kind \in Kinds /\ <<e.sender, e.recipient>> = Direction(e.kind)
  /\ RequiredFields(e.kind) \subseteq DOMAIN e.payload
  /\ e.kind \in Proposals => Canonical \cap DOMAIN e.payload = {}
  /\ e.kind \in UserDirected => ValidUserMessage(e.payload, e.kind)

(* Mutation: the user's words may be put differently.                      *)
ValidRelayReworded(source, relay) ==
  /\ ValidEnvelope(source) /\ ValidEnvelope(relay)
  /\ source.kind \in DOMAIN RelayOf /\ relay.kind = RelayOf[source.kind]
  /\ relay.correlation = source.id /\ relay.conversation = source.conversation
ValidRelay(source, relay) ==
  /\ ValidEnvelope(source) /\ ValidEnvelope(relay)
  /\ source.kind \in DOMAIN RelayOf /\ relay.kind = RelayOf[source.kind]
  /\ relay.correlation = source.id /\ relay.conversation = source.conversation
  /\ source.kind = "decision_needed" => relay.payload.options = source.payload.options
  /\ \A v \in Verbatim \cap DOMAIN source.payload :
       v \in DOMAIN relay.payload /\ relay.payload[v] = source.payload[v]

(* A message may be correlated to itself: its identifier has been seen by  *)
(* the time its correlation is looked up.                                  *)
ValidTranscript(said) ==
  \A n \in DOMAIN said :
    LET seen == {said[m].id : m \in 1..n-1} IN
    /\ ValidEnvelope(said[n])
    /\ said[n].id \notin seen
    /\ said[n].correlation = NoMessage \/ said[n].correlation \in seen \cup {said[n].id}

=============================================================================
