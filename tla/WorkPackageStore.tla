-------------------------- MODULE WorkPackageStore --------------------------
(***************************************************************************)
(* transitionWorkPackage of packages/database: callers that move work      *)
(* packages concurrently, each in a transaction that reads the package,    *)
(* checks the transition, updates the row if its version is still the one  *)
(* read, and inserts the lifecycle event.  A caller may stop or lose the   *)
(* answer, and then ask again with the same event identifier.              *)
(*                                                                         *)
(* PostgreSQL is outside the repository.  Its default isolation is assumed:*)
(* a statement sees what is committed, an update holds the row until the   *)
(* transaction ends and evaluates its condition on the committed row, and  *)
(* the unique indexes of prisma/schema.prisma are checked by the insert.   *)
(***************************************************************************)
EXTENDS Integers, Sequences, FiniteSets, WorkPackageRules

CONSTANTS
  Package,
  Caller,
  EventId,      \* identifiers callers give their transitions
  Target,       \* the statuses callers ask for
  MaxVersion    \* versions considered

NoCall == [at |-> "idle"]

ASSUME StoreAssumption == Target \subseteq Status /\ MaxVersion \in Nat

VARIABLES
  status, version,   \* the committed row of each package
  events,            \* committed lifecycle events of transitions
  call               \* each caller's transaction

vars == <<status, version, events, call>>

(* create inserts every package as planned, at version 1.                  *)
Init ==
  /\ status = [p \in Package |-> "planned"]
  /\ version = [p \in Package |-> 1]
  /\ events = {}
  /\ call = [c \in Caller |-> NoCall]

EventOf(c) == [id |-> call[c].id, package |-> call[c].package, version |-> call[c].version + 1,
               from |-> call[c].from, to |-> call[c].to]
Duplicate(e) == \E f \in events : f.id = e.id \/ (f.package = e.package /\ f.version = e.version)
WriteRow(e) ==
  /\ status' = [status EXCEPT ![e.package] = e.to]
  /\ version' = [version EXCEPT ![e.package] = e.version]

At(c, where) == call[c].at = where
Locked(p) == \E c \in Caller : At(c, "updated") /\ call[c].package = p
End(c) == call' = [call EXCEPT ![c] = NoCall]

-----------------------------------------------------------------------------
Call(c, p, to, id) ==
  /\ At(c, "idle")
  /\ call' = [call EXCEPT ![c] = [at |-> "called", package |-> p, to |-> to, id |-> id]]
  /\ UNCHANGED <<status, version, events>>

(* Mutation: the transition is not checked.                                *)
ReadUnchecked(c) ==
  /\ At(c, "called")
  /\ LET p == call[c].package
     IN  call' = [call EXCEPT ![c] = [at |-> "read", package |-> p, to |-> @.to, id |-> @.id,
                                      from |-> status[p], version |-> version[p]]]
  /\ UNCHANGED <<status, version, events>>
(* findUniqueOrThrow and assertWorkPackageTransition, which throws.        *)
Read(c) ==
  /\ At(c, "called")
  /\ LET p == call[c].package
     IN  IF call[c].to \in Allowed(status[p])
         THEN call' = [call EXCEPT ![c] = [at |-> "read", package |-> p, to |-> @.to, id |-> @.id,
                                           from |-> status[p], version |-> version[p]]]
         ELSE End(c)
  /\ UNCHANGED <<status, version, events>>

(* updateMany where the version is the one read; no row throws.            *)
Update(c) ==
  /\ At(c, "read")
  /\ ~Locked(call[c].package)
  /\ IF version[call[c].package] = call[c].version
     THEN call' = [call EXCEPT ![c].at = "updated"]
     ELSE End(c)
  /\ UNCHANGED <<status, version, events>>

(* Mutation: the event is inserted under any identifier.                   *)
CommitAnyId(c) ==
  /\ At(c, "updated")
  /\ events' = events \cup {EventOf(c)}
  /\ WriteRow(EventOf(c))
  /\ End(c)
(* Mutation: the row and the event are not in one transaction.             *)
CommitRowFirst(c) ==
  /\ At(c, "updated")
  /\ events' = IF Duplicate(EventOf(c)) THEN events ELSE events \cup {EventOf(c)}
  /\ WriteRow(EventOf(c))
  /\ End(c)
(* Mutation: a refused insert leaves the transaction open.                 *)
CommitUnlessDuplicate(c) ==
  /\ At(c, "updated")
  /\ ~Duplicate(EventOf(c))
  /\ events' = events \cup {EventOf(c)}
  /\ WriteRow(EventOf(c))
  /\ End(c)
(* lifecycleEvent.create and the end of the transaction: a duplicate       *)
(* identifier or version of the package rolls everything back.             *)
Commit(c) ==
  /\ At(c, "updated")
  /\ IF Duplicate(EventOf(c))
     THEN UNCHANGED <<status, version, events>>
     ELSE events' = events \cup {EventOf(c)} /\ WriteRow(EventOf(c))
  /\ End(c)

(* The caller stops before the transaction ends, which rolls it back.      *)
Abort(c) ==
  /\ ~At(c, "idle")
  /\ End(c)
  /\ UNCHANGED <<status, version, events>>

Next ==
  \E c \in Caller :
    \/ \E p \in Package, to \in Target, id \in EventId :
         version[p] < MaxVersion /\ Call(c, p, to, id)
    \/ Read(c) \/ Update(c) \/ Commit(c) \/ Abort(c)

Spec == Init /\ [][Next]_vars

(* Transactions go on, and PostgreSQL grants a row to those that wait for  *)
(* it in turn.                                                             *)
FairSpec ==
  Spec /\ \A c \in Caller : WF_vars(Read(c)) /\ SF_vars(Update(c)) /\ WF_vars(Commit(c))

-----------------------------------------------------------------------------
Event == [id : EventId, package : Package, version : Nat, from : Status, to : Status]
CallRecord ==
  {NoCall}
    \cup [at : {"called"}, package : Package, to : Target, id : EventId]
    \cup [at : {"read", "updated"}, package : Package, to : Target, id : EventId,
          from : Status, version : Nat \ {0}]
TypeOK ==
  /\ status \in [Package -> Status]
  /\ version \in [Package -> Nat \ {0}]
  /\ events \subseteq Event
  /\ call \in [Caller -> CallRecord]

EventsOf(p) == {e \in events : e.package = p}

(* The events of a package account for its row: one for each version after *)
(* the first, each starting where the one before ended, the last one       *)
(* ending in the row's status.  No concurrent move is lost or recorded     *)
(* without having happened.                                                *)
EventsExplainRow ==
  \A p \in Package :
    /\ \A v \in 2..version[p] : Cardinality({e \in EventsOf(p) : e.version = v}) = 1
    /\ Cardinality(EventsOf(p)) = version[p] - 1
    /\ \A e \in EventsOf(p) :
         /\ e.from = IF e.version = 2 THEN "planned"
                     ELSE (CHOOSE f \in EventsOf(p) : f.version = e.version - 1).to
         /\ e.version = version[p] => e.to = status[p]

(* Asking again after a lost answer does not move a package twice, nor     *)
(* another package: an event identifier stands for one transition.         *)
AppliedOnce == \A e, f \in events : e.id = f.id => e = f

(* Row and events together are the lifecycle as promised: every committed  *)
(* transaction is one allowed move.                                        *)
MovesOf(p) ==
  [i \in 1..version[p] - 1 |-> (CHOOSE e \in EventsOf(p) : e.version = i + 1).to]
Promise == INSTANCE WorkPackageLife WITH moves <- [p \in Package |-> MovesOf(p)]
ImplementsLife == Promise!Spec

(* Callers wait on each other's rows, never for ever.                      *)
CallsEnd == \A c \in Caller : ~At(c, "idle") ~> At(c, "idle")

=============================================================================
