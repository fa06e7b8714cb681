---------------------------- MODULE ProjectState ----------------------------
(***************************************************************************)
(* The canonical state of one project and those who touch it: bootstrap,   *)
(* which may be stopped and run again; v3_aidlc.snapshot, which may run at *)
(* any time; and the Project Lead, who records what the user decides and   *)
(* what the gateway relays.  The user, the liaison and the Lead are        *)
(* outside the repository: they may say anything the gateway passes, and   *)
(* the Lead records a decision as ARCH-05 asks, under an identifier made   *)
(* from the message it answers, and starts again when it was stopped.      *)
(*                                                                         *)
(* Every statement is a transaction of its own.  The reads of a snapshot   *)
(* are not one transaction, and its file is emptied before it is written.  *)
(***************************************************************************)
EXTENDS StateRules, Naturals, FiniteSets

CONSTANTS
  None, Empty,  \* no file; a file that was opened and not written
  Statements,       \* the statements of bootstrap, in order
  MaxStarts,    \* times bootstrap is started
  MaxReaders,   \* snapshots being made at once
  Messages,     \* what can be said: envelopes but for id and correlation
  MaxMessages,  \* length of the conversation
  MaxOfKind     \* messages of one kind in it

Gateway == INSTANCE GatewayRules

(* Bootstrap's decisions and events have identifiers of their own: the     *)
(* Lead makes those of what it records from the messages it answers.       *)
DecisionId(n) == <<"decision", n>>
EventId(n) == <<"event", n>>
OwnIdentifiers ==
  \A i \in 1..Len(Statements) : Statements[i].table \in {"decisions", "events"} =>
    \A n \in 1..MaxMessages : Statements[i].id \notin {DecisionId(n), EventId(n)}
ScriptIsSound ==
  /\ Len(Statements) \in Nat \ {0, 1}
  /\ Statements[1].table = Schema /\ Statements[2].table = "project"
  /\ OwnIdentifiers

ASSUME BootstrapAssumption ==
  /\ ScriptIsSound
  /\ MaxStarts \in Nat /\ MaxReaders \in Nat /\ {MaxMessages, MaxOfKind} \subseteq Nat

VARIABLES
  db,        \* state.db
  binding,   \* project-binding.json: None | Empty | "written"
  file,      \* project-state.json: None | Empty | a snapshot
  at,        \* per process, the step it is about to take, or "idle"
  seen,      \* per process, the parts its snapshot has read
  begun,     \* per process, the database when its snapshot began (never read)
  starts,    \* bootstraps started
  line,      \* the statement bootstrap is about to run
  said,      \* the conversation
  lead       \* the submission being recorded and the writes made for it, or None

stateVars == <<db, binding, file, at, seen, begun, starts, line, said, lead>>

Process == {"bootstrap", "snapshot"}

StateInit ==
  /\ db = Blank /\ binding = None /\ file = None
  /\ at = [p \in Process |-> "idle"]
  /\ seen = [p \in Process |-> <<>>] /\ begun = [p \in Process |-> None]
  /\ starts = 0 /\ line = 1 /\ said = <<>> /\ lead = None

Goes(p, step) == at' = [at EXCEPT ![p] = step]

-----------------------------------------------------------------------------
(* bootstrap.                                                              *)
Start ==
  /\ at["bootstrap"] = "idle" /\ starts < MaxStarts
  /\ starts' = starts + 1
  /\ Goes("bootstrap", "run") /\ line' = 1
  /\ UNCHANGED <<db, binding, file, seen, begun, said, lead>>

(* The next statement.  After the last, the binding file is opened.        *)
RunStatement ==
  /\ at["bootstrap"] = "run"
  /\ Executable(db, Statements[line])
  /\ db' = Execute(db, Statements[line])
  /\ IF line = Len(Statements)
     THEN Goes("bootstrap", "open binding") /\ UNCHANGED line
     ELSE line' = line + 1 /\ UNCHANGED at
  /\ UNCHANGED <<binding, file, seen, begun, starts, said, lead>>

Bind ==
  \/ /\ at["bootstrap"] = "open binding"
     /\ binding' = Empty /\ Goes("bootstrap", "write binding")
     /\ UNCHANGED <<db, file, seen, begun, starts, line, said, lead>>
  \/ /\ at["bootstrap"] = "write binding"
     /\ binding' = "written" /\ Goes("bootstrap", "begin")
     /\ UNCHANGED <<db, file, seen, begun, starts, line, said, lead>>

-----------------------------------------------------------------------------
(* write_snapshot, by bootstrap at its end and by v3_aidlc.snapshot.       *)
StartSnapshot ==
  /\ at["snapshot"] = "idle"
  /\ Goes("snapshot", "begin")
  /\ UNCHANGED <<db, binding, file, seen, begun, starts, line, said, lead>>

(* The first SELECT: a project that is not known raises.                   *)
Begin(p) ==
  /\ at[p] = "begin"
  /\ Cardinality({q \in Process : at[q] \in {"read", "open", "write"}}) < MaxReaders
  /\ IF db.project \in {NoSchema, NoProject}
     THEN Goes(p, "idle") /\ UNCHANGED <<seen, begun>>
     ELSE /\ Goes(p, "read")
          /\ seen' = [seen EXCEPT ![p] = [project |-> db.project]]
          /\ begun' = [begun EXCEPT ![p] = db]
  /\ UNCHANGED <<db, binding, file, starts, line, said, lead>>

Read(p) ==
  /\ at[p] = "read"
  /\ LET n == Cardinality(DOMAIN seen[p]) + 1
         part == Parts[n]
     IN  /\ seen' = [seen EXCEPT ![p] = [x \in DOMAIN @ \cup {part} |->
                                           IF x = part THEN db[part] ELSE @[x]]]
         /\ Goes(p, IF n = Len(Parts) THEN "open" ELSE "read")
  /\ UNCHANGED <<db, binding, file, begun, starts, line, said, lead>>

Open(p) ==
  /\ at[p] = "open"
  /\ file' = Empty /\ Goes(p, "write")
  /\ UNCHANGED <<db, binding, seen, begun, starts, line, said, lead>>

Write(p) ==
  /\ at[p] = "write"
  /\ file' = seen[p]
  /\ Goes(p, "idle")
  /\ seen' = [seen EXCEPT ![p] = <<>>] /\ begun' = [begun EXCEPT ![p] = None]
  /\ UNCHANGED <<db, binding, starts, line, said, lead>>

(* A process is stopped; what it had committed or written stays.           *)
Kill(p) ==
  /\ at[p] # "idle"
  /\ Goes(p, "idle")
  /\ seen' = [seen EXCEPT ![p] = <<>>] /\ begun' = [begun EXCEPT ![p] = None]
  /\ UNCHANGED <<db, binding, file, starts, line, said, lead>>

-----------------------------------------------------------------------------
(* The conversation: the gateway passes a message that keeps the           *)
(* transcript valid; what the liaison hands on must be the relay of a      *)
(* message it received.  A receipt is the Lead's own, see Confirm.         *)
Say(m, correlation) ==
  /\ Len(said) < MaxMessages
  /\ m.kind # "decision_recorded"
  /\ Cardinality({n \in DOMAIN said : said[n].kind = m.kind}) < MaxOfKind
  /\ m.sender # "liaison" => correlation = Gateway!NoMessage
  /\ LET e == [id |-> Len(said) + 1, correlation |-> correlation, kind |-> m.kind,
                conversation |-> m.conversation, sender |-> m.sender,
                recipient |-> m.recipient, payload |-> m.payload] IN
     /\ Gateway!ValidTranscript(Append(said, e))
     /\ e.sender = "liaison" => \E n \in DOMAIN said : Gateway!ValidRelay(said[n], e)
     /\ said' = Append(said, e)
  /\ UNCHANGED <<db, binding, file, at, seen, begun, starts, line, lead>>

(* The Lead takes up a submission: record_decision, then append_event,     *)
(* then the receipt that names them.                                       *)
Ready == db.project \notin {NoSchema, NoProject}
Consider(n) ==
  /\ lead = None /\ Ready /\ said[n].kind = "decision_submission"
  /\ lead' = [submission |-> n, writes |-> 0]
  /\ UNCHANGED <<db, binding, file, at, seen, begun, starts, line, said>>

DecisionOf(n) == Statement("decisions", DecisionId(n), said[n].payload.verbatimResponse)
EventOf(n) == Statement("events", EventId(n), DecisionId(n))
Recording ==
  /\ lead # None /\ lead.writes < 2
  /\ LET n == lead.submission IN
     db' = Execute(db, IF lead.writes = 0 THEN DecisionOf(n) ELSE EventOf(n))
  /\ lead' = [lead EXCEPT !.writes = @ + 1]
  /\ UNCHANGED <<binding, file, at, seen, begun, starts, line, said>>

Confirm ==
  /\ lead # None /\ lead.writes = 2 /\ Len(said) < MaxMessages
  /\ LET n == lead.submission
         receipt == [id |-> Len(said) + 1, correlation |-> n, kind |-> "decision_recorded",
                     conversation |-> said[n].conversation,
                     sender |-> "project_lead", recipient |-> "liaison",
                     payload |-> [decisionId |-> DecisionOf(n).id, eventIds |-> {EventOf(n).id}]]
     IN  /\ Gateway!ValidTranscript(Append(said, receipt))
         /\ said' = Append(said, receipt)
  /\ lead' = None
  /\ UNCHANGED <<db, binding, file, at, seen, begun, starts, line>>

(* The Lead is stopped and knows nothing of what it was recording.         *)
Forget ==
  /\ lead # None
  /\ lead' = None
  /\ UNCHANGED <<db, binding, file, at, seen, begun, starts, line, said>>

StateNext ==
  \/ Start \/ RunStatement \/ Bind \/ StartSnapshot
  \/ \E p \in Process : Begin(p) \/ Read(p) \/ Open(p) \/ Write(p) \/ Kill(p)
  \/ \E m \in Messages, c \in 0..MaxMessages : Say(m, c)
  \/ \E n \in DOMAIN said : Consider(n)
  \/ Recording \/ Confirm \/ Forget

StateSpec == StateInit /\ [][StateNext]_stateVars

-----------------------------------------------------------------------------
RowsOf(rows, ids) == SelectSeq(rows, LAMBDA r : r.id \in ids)
Tables == {"relationships", "decisions", "events"}

StateTypeOK ==
  /\ binding \in {None, Empty, "written"} /\ starts \in 0..MaxStarts
  /\ \A p \in Process :
       at[p] \in {"idle", "run", "open binding", "write binding", "begin", "read", "open", "write"}
  /\ line \in 1..Len(Statements)
  /\ \A t \in Tables : IsInjective([n \in DOMAIN db[t] |-> db[t][n].id])

(* "Startup is idempotent": when bootstrap has come to its binding file,   *)
(* however often it was stopped on the way and whoever wrote in between,   *)
(* the database holds what one undisturbed run leaves, once and in order.  *)
OneRun == FoldLeft(Execute, Blank, Statements)
BootstrapConverges ==
  binding # None =>
    /\ db.project = OneRun.project
    /\ DOMAIN OneRun.entities \subseteq DOMAIN db.entities
    /\ \A t \in Tables : RowsOf(db[t], {OneRun[t][n].id : n \in DOMAIN OneRun[t]}) = OneRun[t]

(* "A Project Lead receipt confirms what was actually recorded": the       *)
(* decision is there, in words the user said in that conversation, and so  *)
(* is its event, after every crash, retry and rerun.                       *)
ReceiptIsTrue ==
  \A n \in DOMAIN said : said[n].kind = "decision_recorded" =>
    \E m \in 1..n-1, d \in DOMAIN db.decisions :
      /\ said[m].kind = "user_decision"
      /\ said[m].conversation = said[n].conversation
      /\ db.decisions[d].id = said[n].payload.decisionId
      /\ db.decisions[d].data = said[m].payload.verbatimResponse
      /\ \A i \in said[n].payload.eventIds :
           \E e \in DOMAIN db.events : db.events[e].id = i /\ db.events[e].data = db.decisions[d].id

(* A snapshot that is about to be written holds all that was committed     *)
(* before it began, and like the file it replaces nothing that was not     *)
(* committed and no row out of its place, whatever was written while it    *)
(* was read.  Decisions have no place: they are read back in the order of  *)
(* the times their statements were made at.                                *)
Holds(later, earlier) ==
  /\ \A t \in Tables \ {"decisions"} : IsPrefix(earlier[t], later[t])
  /\ Range(earlier.decisions) \subseteq Range(later.decisions)
  /\ DOMAIN earlier.entities \subseteq DOMAIN later.entities
SnapshotIsPast ==
  /\ \A p \in Process : at[p] \in {"open", "write"} =>
       Holds(seen[p], begun[p]) /\ Holds(db, seen[p])
  /\ file \notin {None, Empty} => Holds(db, file)

=============================================================================
