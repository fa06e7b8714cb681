----------------------------- MODULE EventRules -----------------------------
(***************************************************************************)
(* The canonical event history of src/src/v3_aidlc/recovery.py: what a     *)
(* verified chain is, and what appending a draft to it answers.            *)
(*                                                                         *)
(* A draft is what its author knows of an event:                           *)
(*   id, key   eventId and idempotencyKey                                  *)
(*   project   projectId                                                   *)
(*   cause     causationId, or NoCause                                     *)
(*   content   every other field (type, aggregate, actor, times, payload)  *)
(* A stored event adds its sequence and two digests.  SHA-256 is taken to  *)
(* be injective, so the digest of a value is the value under a tag: equal  *)
(* digests mean equal content, of this event and of all before it.         *)
(***************************************************************************)
EXTENDS Integers, Sequences

CONSTANTS
  NoCause,     \* the draft has no causationId
  Malformed    \* contents validate_event refuses (missing field, occurred after recorded)

Digest(x) == [sha256 |-> x]
ZeroHash == Digest(<<>>)

DraftOf(e) == [id |-> e.id, key |-> e.key, project |-> e.project,
               cause |-> e.cause, content |-> e.content]
Body(e) == [sequence |-> e.sequence, draft |-> DraftOf(e), previous |-> e.previous]

(* The event append_event makes of a draft at the end of a history.        *)
Sealed(history, draft) ==
  LET n == Len(history)
      previous == IF n = 0 THEN ZeroHash ELSE history[n].hash
      body == [sequence |-> n + 1, draft |-> draft, previous |-> previous]
  IN  [id |-> draft.id, key |-> draft.key, project |-> draft.project,
       cause |-> draft.cause, content |-> draft.content,
       sequence |-> n + 1, previous |-> previous, hash |-> Digest(body)]

(* validate_event returns without raising.                                 *)
Valid(e) == e.content \notin Malformed

(* Mutation: the content digest is not recomputed.                         *)
VerifiesUnhashed(events) ==
  \A i \in DOMAIN events :
    LET e == events[i] IN
    /\ Valid(e)
    /\ e.sequence = i
    /\ e.project = events[1].project
    /\ \A j \in 1..i-1 : events[j].id # e.id /\ events[j].key # e.key
    /\ e.previous = IF i = 1 THEN ZeroHash ELSE events[i-1].hash
    /\ e.cause = NoCause \/ \E j \in 1..i-1 : events[j].id = e.cause
(* verify_event_chain returns without raising.                             *)
Verifies(events) ==
  \A i \in DOMAIN events :
    LET e == events[i] IN
    /\ Valid(e)
    /\ e.sequence = i
    /\ e.project = events[1].project
    /\ \A j \in 1..i-1 : events[j].id # e.id /\ events[j].key # e.key
    /\ e.previous = IF i = 1 THEN ZeroHash ELSE events[i-1].hash
    /\ e.hash = Digest(Body(e))
    /\ e.cause = NoCause \/ \E j \in 1..i-1 : events[j].id = e.cause

(* The event already recorded under the draft's idempotency key.           *)
Recorded(history, draft) == {i \in DOMAIN history : history[i].key = draft.key}

(* Mutation: every draft is appended.                                      *)
AppendOutcomeAlways(history, draft) ==
  IF Verifies(history) /\ Verifies(Append(history, Sealed(history, draft)))
  THEN "appended" ELSE "refused"
(* Mutation: an idempotency key answers for any data.                      *)
AppendOutcomeByKey(history, draft) ==
  CASE ~Verifies(history) -> "refused"
    [] Verifies(history) /\ Recorded(history, draft) # {} -> "existing"
    [] OTHER ->
         IF Verifies(Append(history, Sealed(history, draft))) THEN "appended" ELSE "refused"
(* append_event: "existing" returns the event recorded for an identical    *)
(* retry, "appended" the new one; "refused" raises.                        *)
AppendOutcome(history, draft) ==
  CASE ~Verifies(history) -> "refused"
    [] Verifies(history) /\ Recorded(history, draft) # {} ->
         IF \E i \in Recorded(history, draft) : DraftOf(history[i]) = draft
         THEN "existing" ELSE "refused"
    [] OTHER ->
         IF Verifies(Append(history, Sealed(history, draft))) THEN "appended" ELSE "refused"

AppendEvent(history, draft) ==
  IF AppendOutcome(history, draft) = "appended"
  THEN Append(history, Sealed(history, draft))
  ELSE history

=============================================================================
