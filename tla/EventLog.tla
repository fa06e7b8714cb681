------------------------------ MODULE EventLog ------------------------------
(***************************************************************************)
(* Sessions record events through append_event in a shared durable         *)
(* history.  A session loads the history, appends its drafts in memory, as *)
(* record in reference_orchestrator.py does, and stores the result; it     *)
(* may stop at any point and a later attempt submits the same drafts       *)
(* again, because it cannot know which were stored.                        *)
(*                                                                         *)
(* The repository computes the histories; the store is outside it.  It is  *)
(* taken to accept a history only while the one that was loaded is still   *)
(* the stored one ("one project sequence"), and it may damage what it      *)
(* holds, which verify_event_chain is there to notice.                     *)
(***************************************************************************)
EXTENDS EventRules, FiniteSets, SequencesExt

CONSTANTS
  Session,      \* authors of events
  Script,       \* Script[s]: the drafts session s wants recorded, in order
  MaxFaults     \* storage faults considered

(* A session has something to record, and a draft is its five fields.      *)
Drafts == UNION {Range(Script[s]) : s \in Session}
ScriptsAreDrafts ==
  /\ DOMAIN Script = Session
  /\ \A s \in Session : Script[s] \in Seq(Drafts) \ {<<>>}
  /\ \A d \in Drafts : DraftOf(d) = d

ASSUME ScriptAssumption == ScriptsAreDrafts /\ MaxFaults \in Nat

VARIABLES
  stored,    \* the durable history
  written,   \* the history of the last successful store
  base,      \* per session, the history it loaded
  local,     \* per session, the history it holds in memory
  step,      \* per session, the drafts of its script it has been answered for
  state,     \* per session: "idle" | "open" | "halted" (refused) | "done"
  answers,   \* per session, the answer to each draft, in order
  acked,     \* drafts whose event the author knows to be stored
  faults     \* storage faults so far

logVars == <<stored, written, base, local, step, state, answers, acked, faults>>

LogInit ==
  /\ stored = <<>>
  /\ written = <<>>
  /\ base = [s \in Session |-> <<>>]
  /\ local = [s \in Session |-> <<>>]
  /\ step = [s \in Session |-> 0]
  /\ state = [s \in Session |-> "idle"]
  /\ answers = [s \in Session |-> <<>>]
  /\ acked = {}
  /\ faults = 0

Finished(s) == step[s] = Len(Script[s])

-----------------------------------------------------------------------------
(* A session starts from what is stored, with its first draft.             *)
Load(s) ==
  /\ state[s] = "idle"
  /\ state' = [state EXCEPT ![s] = "open"]
  /\ base' = [base EXCEPT ![s] = stored]
  /\ local' = [local EXCEPT ![s] = stored]
  /\ step' = [step EXCEPT ![s] = 0]
  /\ answers' = [answers EXCEPT ![s] = <<>>]
  /\ UNCHANGED <<stored, written, acked, faults>>

(* record of execute: append the next draft; a refusal raises and ends the *)
(* session without storing anything.                                       *)
Record(s) ==
  /\ state[s] = "open"
  /\ ~Finished(s)
  /\ LET draft == Script[s][step[s] + 1]
         outcome == AppendOutcome(local[s], draft)
     IN  /\ local' = [local EXCEPT ![s] = AppendEvent(local[s], draft)]
         /\ answers' = [answers EXCEPT ![s] = Append(@, outcome)]
         /\ IF outcome = "refused"
            THEN /\ state' = [state EXCEPT ![s] = "halted"]
                 /\ step' = step
            ELSE /\ step' = [step EXCEPT ![s] = @ + 1]
                 /\ state' = state
  /\ UNCHANGED <<stored, written, base, acked, faults>>

(* The session stores its history and learns that its drafts are recorded. *)
(* A session that stops between the two has stored without knowing it.     *)
Store(s, known) ==
  /\ state[s] = "open"
  /\ Finished(s)
  /\ stored = base[s]
  /\ stored' = local[s]
  /\ written' = local[s]
  /\ IF known
     THEN /\ state' = [state EXCEPT ![s] = "done"]
          /\ acked' = acked \cup {Script[s][i] : i \in DOMAIN Script[s]}
     ELSE /\ state' = [state EXCEPT ![s] = "idle"]
          /\ acked' = acked
  /\ UNCHANGED <<base, local, step, answers, faults>>

(* The stored history has moved on: the session starts again.              *)
Conflict(s) ==
  /\ state[s] = "open"
  /\ Finished(s)
  /\ stored # base[s]
  /\ state' = [state EXCEPT ![s] = "idle"]
  /\ UNCHANGED <<stored, written, base, local, step, answers, acked, faults>>

(* The session stops; what it held in memory is lost.                      *)
Crash(s) ==
  /\ state[s] = "open"
  /\ state' = [state EXCEPT ![s] = "idle"]
  /\ UNCHANGED <<stored, written, base, local, step, answers, acked, faults>>

-----------------------------------------------------------------------------
(* What can happen to a stored history: an event lost, repeated, moved or  *)
(* altered, the tail lost.                                                 *)
Contents == {d.content : d \in Drafts}
Altered(e) == {[e EXCEPT !.content = c] : c \in (Contents \cup Malformed) \ {e.content}}

Damaged(h) ==
       {RemoveAt(h, i) : i \in DOMAIN h}
  \cup {InsertAt(h, i, h[i]) : i \in DOMAIN h}
  \cup {[h EXCEPT ![i] = h[j], ![j] = h[i]] : i, j \in DOMAIN h}
  \cup UNION {{[h EXCEPT ![i] = e] : e \in Altered(h[i])} : i \in DOMAIN h}

Fault ==
  /\ faults < MaxFaults
  /\ faults' = faults + 1
  /\ stored' \in Damaged(stored)
  /\ UNCHANGED <<written, base, local, step, state, answers, acked>>

LogNext ==
  \/ \E s \in Session : \/ Load(s) \/ Record(s) \/ Conflict(s) \/ Crash(s)
                        \/ \E known \in BOOLEAN : Store(s, known)
  \/ Fault

LogSpec == LogInit /\ [][LogNext]_logVars

(* While the history is intact, a session that can act does, and the       *)
(* answer to a store that can be made again and again is not lost every    *)
(* time.                                                                   *)
Intact == faults = 0
LogFairness ==
  \A s \in Session :
    /\ WF_logVars(Intact /\ (Load(s) \/ Record(s) \/ Conflict(s)))
    /\ SF_logVars(Intact /\ Store(s, TRUE))

LogFairSpec == LogSpec /\ LogFairness

-----------------------------------------------------------------------------
LogTypeOK ==
  /\ state \in [Session -> {"idle", "open", "halted", "done"}]
  /\ \A s \in Session : step[s] \in 0..Len(Script[s])
  /\ \A s \in Session : IsPrefix(base[s], local[s])
  /\ \A s \in Session : answers[s] \in Seq({"appended", "existing", "refused"})
  /\ faults \in 0..MaxFaults

(* "Broken history stops normal execution": whatever the store has done to *)
(* it, a history that still verifies is what was written, or the beginning *)
(* of it.                                                                  *)
HistoryIsTrue == Verifies(stored) => IsPrefix(stored, written)

(* "Retrying the exact same append returns the existing event": an author  *)
(* is not refused for having already recorded what it asks for.            *)
RetryIsAnswered ==
  \A s \in Session : \A i \in DOMAIN answers[s] :
    answers[s][i] = "refused" /\ Verifies(base[s]) =>
      \A j \in DOMAIN local[s] : DraftOf(local[s][j]) # Script[s][i]

(* An acknowledged draft is recorded with the data its author gave, once:  *)
(* an idempotency key never changes its meaning.                           *)
AcknowledgedIsRecorded ==
  Intact =>
    \A d \in acked : Cardinality({i \in DOMAIN stored : DraftOf(stored[i]) = d}) = 1

(* Two drafts no history can hold: of two projects, or one key with two    *)
(* meanings.                                                               *)
Contradict(s, t) ==
  \E d \in Range(Script[s]), e \in Range(Script[t]) :
    d.project # e.project \/ (d.key = e.key /\ d # e)

(* Every session is recorded in the end, however often one lost the race   *)
(* to store or the answer to it, once no session is stopped any more; only *)
(* one that contradicts a session that is recorded may be refused.         *)
EventuallyRecorded ==
  []Intact /\ <>[][\A s \in Session : ~Crash(s)]_logVars =>
    \A s \in Session :
      <>(\/ state[s] = "done"
         \/ state[s] = "halted" /\ \E t \in Session : Contradict(s, t) /\ state[t] = "done")

=============================================================================
