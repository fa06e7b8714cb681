----------------------- MODULE WorkPackageStoreProofs -----------------------
(***************************************************************************)
(* Theorems about WorkPackageStore, for any packages, callers, event       *)
(* identifiers and targets.  The argument: versions only grow, so a caller *)
(* that still finds the version it read also finds the status it read, and *)
(* the transition it checked is the one it makes; the row lock lets one    *)
(* caller at a time stand between its update and its commit; and the event *)
(* is inserted, or refused, together with the row.                         *)
(***************************************************************************)
EXTENDS WorkPackageStore, FiniteSetTheorems, SequenceTheorems, TLAPS

(* The events of a package, without counting: one for every version after  *)
(* the first, each from where the one before ended, the last one in the    *)
(* row.                                                                    *)
RowHistory ==
  \A p \in Package :
    /\ version[p] = 1 => status[p] = "planned"
    /\ \A v \in 2..version[p] : \E e \in EventsOf(p) : e.version = v
    /\ \A e \in EventsOf(p) :
         /\ e.version \in 2..version[p]
         /\ e.version = 2 => e.from = "planned"
         /\ e.version = version[p] => e.to = status[p]
         /\ \A f \in EventsOf(p) : /\ f.version = e.version => f = e
                                   /\ f.version + 1 = e.version => e.from = f.to

(* What a transaction has read is never newer than the row, is the row if  *)
(* the version is, and allows the move; from the update on it is the row,  *)
(* which the caller holds alone.                                           *)
CallsAreSound ==
  \A c \in Caller :
    At(c, "read") \/ At(c, "updated") =>
      LET p == call[c].package
      IN  /\ call[c].to \in Allowed(call[c].from)
          /\ call[c].version <= version[p]
          /\ call[c].version = version[p] => call[c].from = status[p]
          /\ At(c, "updated") =>
               /\ call[c].version = version[p]
               /\ \A d \in Caller : At(d, "updated") /\ call[d].package = p => d = c

(* The inductive invariant.                                                *)
IInv ==
  /\ TypeOK
  /\ RowHistory
  /\ AppliedOnce
  /\ CallsAreSound

LEMMA InitIInv == Init => IInv
<1> SUFFICES ASSUME Init PROVE IInv
  OBVIOUS
<1>1. TypeOK
  BY DEF Init, TypeOK, CallRecord, Status
<1>2. CallsAreSound
  BY DEF Init, CallsAreSound, At, NoCall
<1>3. RowHistory /\ AppliedOnce
  BY DEF Init, RowHistory, AppliedOnce, EventsOf
<1> QED
  BY <1>1, <1>2, <1>3 DEF IInv

(* A caller's own step keeps the rows and their history: what is left to   *)
(* show is that the caller's new record is sound.                          *)
LEMMA CallerStep ==
  ASSUME IInv, UNCHANGED <<status, version, events>>, TypeOK', CallsAreSound'
  PROVE  IInv'
<1>1. RowHistory' /\ AppliedOnce'
  BY DEF IInv, RowHistory, AppliedOnce, EventsOf
<1> QED
  BY <1>1 DEF IInv

(* Ending a transaction keeps every other one as it is.                    *)
LEMMA EndStep ==
  ASSUME IInv, NEW c \in Caller, End(c), UNCHANGED <<status, version, events>>
  PROVE  IInv'
<1>1. call' \in [Caller -> CallRecord]
  BY DEF IInv, TypeOK, End, CallRecord
<1>2. TypeOK'
  BY <1>1 DEF IInv, TypeOK
<1>3. \A d \in Caller : call'[d] = IF d = c THEN NoCall ELSE call[d]
  BY DEF IInv, TypeOK, End
<1>4. CallsAreSound'
  BY <1>3 DEF IInv, CallsAreSound, At, NoCall
<1> QED
  BY <1>2, <1>4, CallerStep

(* A commit whose event is new extends the history by one event.           *)
LEMMA CommitStep ==
  ASSUME IInv, NEW c \in Caller, At(c, "updated"), ~Duplicate(EventOf(c)),
         events' = events \cup {EventOf(c)}, WriteRow(EventOf(c)), End(c)
  PROVE  IInv'
<1> DEFINE e == EventOf(c)
           q == call[c].package
<1>0. TypeOK /\ RowHistory /\ AppliedOnce /\ CallsAreSound
  BY DEF IInv
<1>1. /\ call[c] \in [at : {"read", "updated"}, package : Package, to : Target, id : EventId,
                      from : Status, version : Nat \ {0}]
      /\ q \in Package
  BY <1>0 DEF TypeOK, CallRecord, NoCall, At
<1>2. /\ e \in Event
      /\ e.package = q /\ e.id = call[c].id /\ e.to = call[c].to
      /\ e.version = version[q] + 1
      /\ e.from = status[q]
  BY <1>0, <1>1, StoreAssumption DEF EventOf, Event, CallsAreSound, At
<1> HIDE DEF e, q
<1>3. /\ \A p \in Package : version'[p] = IF p = q THEN version[q] + 1 ELSE version[p]
      /\ \A p \in Package : status'[p] = IF p = q THEN e.to ELSE status[p]
  BY <1>0, <1>1, <1>2 DEF TypeOK, WriteRow, e
<1>4. \A d \in Caller : call'[d] = IF d = c THEN NoCall ELSE call[d]
  BY <1>0 DEF TypeOK, End
<1>5. events' = events \cup {e}
  BY DEF e
<1>6. TypeOK'
  <2>1. call' \in [Caller -> CallRecord]
    BY <1>0 DEF TypeOK, End, CallRecord
  <2>2. version' \in [Package -> Nat \ {0}] /\ status' \in [Package -> Status]
    BY <1>0, <1>1, <1>2, e \in Event DEF TypeOK, WriteRow, Event, e
  <2> QED
    BY <1>0, <1>2, <1>5, <2>1, <2>2 DEF TypeOK
<1>7. AppliedOnce'
  BY <1>0, <1>2, <1>5 DEF AppliedOnce, Duplicate, e
<1>8. CallsAreSound'
  <2> SUFFICES ASSUME NEW d \in Caller, (At(d, "read") \/ At(d, "updated"))'
               PROVE  LET p == call'[d].package
                      IN  /\ call'[d].to \in Allowed(call'[d].from)
                          /\ call'[d].version <= version'[p]
                          /\ call'[d].version = version'[p] => call'[d].from = status'[p]
                          /\ At(d, "updated")' =>
                               /\ call'[d].version = version'[p]
                               /\ \A b \in Caller :
                                    At(b, "updated")' /\ call'[b].package = p => b = d
    BY DEF CallsAreSound
  <2>1. d # c /\ call'[d] = call[d] /\ (At(d, "read") \/ At(d, "updated"))
    BY <1>4 DEF At, NoCall
  <2>2. call[d].package \in Package /\ call[d].version \in Nat
    BY <1>0, <2>1 DEF TypeOK, CallRecord, NoCall, At
  <2>3. At(d, "updated") => call[d].package # q
    BY <1>0, <2>1 DEF CallsAreSound, q
  <2>4. \A b \in Caller : At(b, "updated")' => At(b, "updated") /\ call'[b] = call[b]
    BY <1>4 DEF At, NoCall
  <2>5. version[q] \in Nat
    BY <1>0, <1>1 DEF TypeOK
  <2> QED
    BY <1>0, <1>3, <2>1, <2>2, <2>3, <2>4, <2>5 DEF CallsAreSound, At
<1>9. RowHistory'
  <2> SUFFICES ASSUME NEW p \in Package
               PROVE  /\ version'[p] = 1 => status'[p] = "planned"
                      /\ \A v \in 2..version'[p] : \E f \in EventsOf(p)' : f.version = v
                      /\ \A f \in EventsOf(p)' :
                           /\ f.version \in 2..version'[p]
                           /\ f.version = 2 => f.from = "planned"
                           /\ f.version = version'[p] => f.to = status'[p]
                           /\ \A g \in EventsOf(p)' : /\ g.version = f.version => g = f
                                                      /\ g.version + 1 = f.version => f.from = g.to
    BY DEF RowHistory
  <2>1. CASE p # q
    <3>1. EventsOf(p)' = EventsOf(p)
      BY <1>2, <1>5, <2>1 DEF EventsOf
    <3> QED
      BY <1>0, <1>3, <2>1, <3>1 DEF RowHistory
  <2>2. CASE p = q
    <3>1. EventsOf(p)' = EventsOf(p) \cup {e}
      BY <1>2, <1>5, <2>2 DEF EventsOf
    <3>2. version[p] \in Nat \ {0} /\ version'[p] = version[p] + 1 /\ status'[p] = e.to
      BY <1>0, <1>3, <2>2 DEF TypeOK
    <3>3. \A f \in EventsOf(p) : f.version \in 2..version[p]
      BY <1>0 DEF RowHistory
    <3>4. \A f \in EventsOf(p) : f.version + 1 = e.version => e.from = f.to
      BY <1>0, <1>2, <2>2, <3>2, <3>3 DEF RowHistory
    <3>5. e.version = 2 => e.from = "planned"
      BY <1>0, <1>2, <2>2, <3>2 DEF RowHistory
    <3>6. \A v \in 2..version'[p] : \E f \in EventsOf(p)' : f.version = v
      BY <1>0, <1>2, <2>2, <3>1, <3>2 DEF RowHistory
    <3> QED
      BY <1>0, <1>2, <2>2, <3>1, <3>2, <3>3, <3>4, <3>5, <3>6 DEF RowHistory
  <2> QED
    BY <2>1, <2>2
<1> QED
  BY <1>6, <1>7, <1>8, <1>9 DEF IInv

LEMMA NextIInv == IInv /\ [Next]_vars => IInv'
<1> SUFFICES ASSUME IInv, [Next]_vars PROVE IInv'
  OBVIOUS
<1>0. TypeOK /\ CallsAreSound
  BY DEF IInv
<1>1. ASSUME NEW c \in Caller, NEW p \in Package, NEW to \in Target, NEW id \in EventId,
             Call(c, p, to, id)
      PROVE  IInv'
  <2>1. TypeOK'
    BY <1>0, <1>1 DEF TypeOK, CallRecord, Call
  <2>2. \A d \in Caller : d # c => call'[d] = call[d]
    BY <1>0, <1>1 DEF TypeOK, Call
  <2>3. call'[c].at = "called"
    BY <1>0, <1>1 DEF TypeOK, Call
  <2>4. CallsAreSound'
    BY <1>0, <1>1, <2>2, <2>3 DEF CallsAreSound, At, Call
  <2> QED
    BY <1>1, <2>1, <2>4, CallerStep DEF Call
<1>2. ASSUME NEW c \in Caller, Read(c) PROVE IInv'
  <2>1. CASE call[c].to \in Allowed(status[call[c].package])
    <3> DEFINE p == call[c].package
               r == [at |-> "read", package |-> p, to |-> call[c].to, id |-> call[c].id,
                     from |-> status[p], version |-> version[p]]
    <3>1. call[c] \in [at : {"called"}, package : Package, to : Target, id : EventId]
      BY <1>0, <1>2 DEF TypeOK, CallRecord, NoCall, Read, At
    <3>2. p \in Package /\ version[p] \in Nat \ {0} /\ status[p] \in Status
      BY <1>0, <3>1 DEF TypeOK
    <3>3. call' = [call EXCEPT ![c] = r]
      BY <1>2, <2>1 DEF Read
    <3>4. r \in CallRecord
      BY <3>1, <3>2 DEF CallRecord
    <3>5. TypeOK'
      BY <1>0, <1>2, <3>3, <3>4 DEF TypeOK, Read
    <3>6. \A d \in Caller : call'[d] = IF d = c THEN r ELSE call[d]
      BY <1>0, <3>3 DEF TypeOK
    <3>7. CallsAreSound'
      BY <1>0, <1>2, <2>1, <3>2, <3>6 DEF CallsAreSound, At, Read
    <3> QED
      BY <1>2, <3>5, <3>7, CallerStep DEF Read
  <2>2. CASE call[c].to \notin Allowed(status[call[c].package])
    BY <1>2, <2>2, EndStep DEF Read
  <2> QED
    BY <2>1, <2>2
<1>3. ASSUME NEW c \in Caller, Update(c) PROVE IInv'
  <2>1. CASE version[call[c].package] = call[c].version
    <3> DEFINE r == [call[c] EXCEPT !.at = "updated"]
    <3>1. call[c] \in [at : {"read", "updated"}, package : Package, to : Target, id : EventId,
                       from : Status, version : Nat \ {0}]
      BY <1>0, <1>3 DEF TypeOK, CallRecord, NoCall, Update, At
    <3>2. /\ r \in CallRecord
          /\ r.at = "updated" /\ r.package = call[c].package /\ r.to = call[c].to
          /\ r.from = call[c].from /\ r.version = call[c].version
      BY <3>1 DEF CallRecord
    <3>3. call' = [call EXCEPT ![c] = r]
      BY <1>3, <2>1 DEF Update
    <3> HIDE DEF r
    <3>4. \A d \in Caller : call'[d] = IF d = c THEN r ELSE call[d]
      BY <1>0, <3>3 DEF TypeOK
    <3>5. TypeOK'
      BY <1>0, <1>3, <3>2, <3>3 DEF TypeOK, Update
    <3>6. CallsAreSound'
      BY <1>0, <1>3, <2>1, <3>2, <3>4 DEF CallsAreSound, At, Update, Locked
    <3> QED
      BY <1>3, <3>5, <3>6, CallerStep DEF Update
  <2>2. CASE version[call[c].package] # call[c].version
    BY <1>3, <2>2, EndStep DEF Update
  <2> QED
    BY <2>1, <2>2
<1>4. ASSUME NEW c \in Caller, Commit(c) PROVE IInv'
  BY <1>4, CommitStep, EndStep DEF Commit
<1>5. ASSUME NEW c \in Caller, Abort(c) PROVE IInv'
  BY <1>5, EndStep DEF Abort
<1>6. CASE UNCHANGED vars
  BY <1>6 DEF vars, IInv, TypeOK, RowHistory, EventsOf, AppliedOnce, CallsAreSound, At
<1> QED
  BY <1>1, <1>2, <1>3, <1>4, <1>5, <1>6 DEF Next

LEMMA IInvHolds == Spec => []IInv
  BY InitIInv, NextIInv, PTL DEF Spec

(* A package has as many events as versions after the first, and each is   *)
(* the only one of its version.                                            *)
LEMMA HistoryExplains == IInv => EventsExplainRow
<1> SUFFICES ASSUME IInv, NEW p \in Package
             PROVE  /\ \A v \in 2..version[p] : Cardinality({e \in EventsOf(p) : e.version = v}) = 1
                    /\ Cardinality(EventsOf(p)) = version[p] - 1
                    /\ \A e \in EventsOf(p) :
                         /\ e.from = IF e.version = 2 THEN "planned"
                                     ELSE (CHOOSE f \in EventsOf(p) : f.version = e.version - 1).to
                         /\ e.version = version[p] => e.to = status[p]
  BY DEF EventsExplainRow
<1> DEFINE n == version[p] - 1
           h == [i \in 1..n |-> CHOOSE e \in EventsOf(p) : e.version = i + 1]
<1>0. RowHistory /\ version[p] \in Nat \ {0} /\ \A e \in EventsOf(p) : e.version \in Nat
  BY DEF IInv, TypeOK, EventsOf, Event
<1>1. ASSUME NEW v \in 2..version[p]
      PROVE  Cardinality({e \in EventsOf(p) : e.version = v}) = 1
  <2>1. PICK e \in EventsOf(p) : e.version = v
    BY <1>0 DEF RowHistory
  <2>2. {f \in EventsOf(p) : f.version = v} = {e}
    BY <1>0, <2>1 DEF RowHistory
  <2> QED
    BY <2>2, FS_Singleton
<1>2. \A i \in 1..n : h[i] \in EventsOf(p) /\ h[i].version = i + 1
  <2> SUFFICES ASSUME NEW i \in 1..n PROVE h[i] \in EventsOf(p) /\ h[i].version = i + 1
    OBVIOUS
  <2>1. \E e \in EventsOf(p) : e.version = i + 1
    BY <1>0 DEF RowHistory
  <2> QED
    BY <2>1
<1>3. Cardinality(EventsOf(p)) = n
  <2>1. \A e \in EventsOf(p) : e.version - 1 \in 1..n /\ h[e.version - 1] = e
    BY <1>0, <1>2 DEF RowHistory
  <2>2. h \in Bijection(1..n, EventsOf(p))
    <3>1. h \in [1..n -> EventsOf(p)]
      BY <1>2
    <3> HIDE DEF h
    <3>2. IsInjective(h)
      BY <1>0, <1>2, <3>1 DEF IsInjective
    <3> QED
      BY <2>1, <3>1, <3>2 DEF Bijection, Injection, Surjection
  <2>3. IsFiniteSet(1..n) /\ Cardinality(1..n) = n
    <3>1. 1 \in Int /\ n \in Int /\ (1 > n => n = 0)
      BY <1>0
    <3> HIDE DEF n
    <3> QED
      BY <3>1, FS_Interval
  <2> QED
    BY <2>2, <2>3, FS_Bijection DEF ExistsBijection
<1>4. ASSUME NEW e \in EventsOf(p), e.version # 2
      PROVE  e.from = (CHOOSE f \in EventsOf(p) : f.version = e.version - 1).to
  <2>1. e.version - 1 \in 2..version[p]
    BY <1>0, <1>4 DEF RowHistory
  <2>2. \E f \in EventsOf(p) : f.version = e.version - 1
    BY <1>0, <2>1 DEF RowHistory
  <2> QED
    BY <1>0, <2>2 DEF RowHistory
<1> QED
  BY <1>0, <1>1, <1>3, <1>4 DEF RowHistory

(* Rows, versions, events and transactions keep their types.               *)
THEOREM TypeCorrect == Spec => []TypeOK
<1>1. IInv => TypeOK
  BY DEF IInv
<1> QED
  BY <1>1, IInvHolds, PTL

(* The committed events account for every row, whatever callers interleave,*)
(* stop or ask again: transitionWorkPackage loses no move and records none *)
(* that did not happen.                                                    *)
THEOREM EventsAlwaysExplainRow == Spec => []EventsExplainRow
  BY IInvHolds, HistoryExplains, PTL

(* An event identifier is used up by one transition of one package, so a   *)
(* caller that asks again does not move it twice.                          *)
THEOREM AlwaysAppliedOnce == Spec => []AppliedOnce
<1>1. IInv => AppliedOnce
  BY DEF IInv
<1> QED
  BY <1>1, IInvHolds, PTL

-----------------------------------------------------------------------------
(* The moves that the events of a package tell.                            *)
MovesTold ==
  \A p \in Package :
    /\ MovesOf(p) \in Seq(Status)
    /\ Len(MovesOf(p)) = version[p] - 1
    /\ \A i \in 1..version[p] - 1 :
         \E e \in EventsOf(p) : e.version = i + 1 /\ MovesOf(p)[i] = e.to

LEMMA HistoryTellsMoves == IInv => MovesTold
<1> SUFFICES ASSUME IInv, NEW p \in Package
             PROVE  /\ MovesOf(p) \in Seq(Status)
                    /\ Len(MovesOf(p)) = version[p] - 1
                    /\ \A i \in 1..version[p] - 1 :
                         \E e \in EventsOf(p) : e.version = i + 1 /\ MovesOf(p)[i] = e.to
  BY DEF MovesTold
<1>0. RowHistory /\ version[p] \in Nat \ {0} /\ EventsOf(p) \subseteq Event
  BY DEF IInv, TypeOK, EventsOf
<1>1. ASSUME NEW i \in 1..version[p] - 1
      PROVE  \E e \in EventsOf(p) : e.version = i + 1 /\ MovesOf(p)[i] = e.to
  <2>1. \E e \in EventsOf(p) : e.version = i + 1
    BY <1>0 DEF RowHistory
  <2> QED
    BY <2>1 DEF MovesOf
<1>2. MovesOf(p) \in [1..version[p] - 1 -> Status]
  BY <1>0, <1>1 DEF MovesOf, Event
<1>3. version[p] - 1 \in Nat
  BY <1>0
<1>4. MovesOf(p) \in Seq(Status) /\ Len(MovesOf(p)) = version[p] - 1
  BY <1>2, <1>3
<1> QED
  BY <1>1, <1>4

(* The promise and the code share one table of transitions.                *)
LEMMA SameTable ==
  /\ Promise!Status = Status
  /\ \A s \in Status : Promise!Allowed(s) = Allowed(s)
BY DEF Status, Promise!Status, Allowed, Promise!Allowed, Abandoned, Promise!Abandoned,
       Setback, Promise!Setback

(* A commit whose event is new is the move it tells.                       *)
LEMMA CommitMoves ==
  ASSUME IInv, IInv', MovesTold, MovesTold',
         NEW c \in Caller, NEW e, e = EventOf(c),
         At(c, "updated"), events' = events \cup {e}, WriteRow(e)
  PROVE  e.package \in Package /\ e.to \in Status /\ Promise!Move(e.package, e.to)
<1>0. TypeOK /\ RowHistory /\ CallsAreSound /\ RowHistory' /\ TypeOK'
  BY DEF IInv
<1>1. e.package \in Package /\ e.to \in Status
  BY <1>0, StoreAssumption DEF EventOf, TypeOK, CallRecord, NoCall, At
<1>2. e.to \in Allowed(status[e.package]) /\ e.version = version[e.package] + 1
  BY <1>0 DEF EventOf, CallsAreSound
<1>3. PICK q \in Package, to \in Status : q = e.package /\ to = e.to
  BY <1>1
<1>4. status' = [status EXCEPT ![q] = to] /\ version' = [version EXCEPT ![q] = version[q] + 1]
  BY <1>2, <1>3 DEF WriteRow
<1>5. ASSUME NEW p \in Package, p # q PROVE MovesOf(p)' = MovesOf(p)
  <2>1. EventsOf(p)' = EventsOf(p) /\ version'[p] = version[p]
    BY <1>0, <1>3, <1>4, <1>5 DEF EventsOf, TypeOK
  <2> QED
    BY <2>1 DEF MovesOf
<1>6. MovesOf(q)' = Append(MovesOf(q), to)
  <2> DEFINE m == MovesOf(q)
             m2 == MovesOf(q)'
  <2>1. /\ m \in Seq(Status) /\ Len(m) = version[q] - 1
        /\ \A i \in 1..version[q] - 1 : \E f \in EventsOf(q) : f.version = i + 1 /\ m[i] = f.to
    BY DEF MovesTold
  <2>2. /\ m2 \in Seq(Status) /\ Len(m2) = version'[q] - 1
        /\ \A i \in 1..version'[q] - 1 :
             \E f \in EventsOf(q)' : f.version = i + 1 /\ m2[i] = f.to
    BY DEF MovesTold
  <2>3. version[q] \in Nat \ {0} /\ version'[q] = version[q] + 1
    BY <1>0, <1>4 DEF TypeOK
  <2>4. e \in EventsOf(q)' /\ EventsOf(q) \subseteq EventsOf(q)'
    BY <1>3 DEF EventsOf
  <2>5. \A f, g \in EventsOf(q)' : f.version = g.version => f = g
    BY <1>0 DEF RowHistory
  <2> HIDE DEF m, m2
  <2>6. ASSUME NEW i \in 1..version[q] - 1 PROVE m2[i] = m[i]
    <3>1. PICK f \in EventsOf(q) : f.version = i + 1 /\ m[i] = f.to
      BY <2>1
    <3>2. PICK g \in EventsOf(q)' : g.version = i + 1 /\ m2[i] = g.to
      BY <2>2, <2>3
    <3> QED
      BY <2>4, <2>5, <3>1, <3>2
  <2>7. m2[version[q]] = to
    <3>1. PICK f \in EventsOf(q)' : f.version = version[q] + 1 /\ m2[version[q]] = f.to
      BY <2>2, <2>3
    <3> QED
      BY <1>2, <1>3, <2>4, <2>5, <3>1
  <2>8. /\ Append(m, to) \in Seq(Status) /\ Len(Append(m, to)) = Len(m) + 1
        /\ \A i \in 1..Len(m) : Append(m, to)[i] = m[i]
        /\ Append(m, to)[Len(m) + 1] = to
    BY <2>1, AppendProperties
  <2>9. m2 = Append(m, to)
    <3>1. /\ Len(m2) = Len(Append(m, to))
          /\ \A i \in 1..Len(m2) : m2[i] = Append(m, to)[i]
      BY <2>1, <2>2, <2>3, <2>6, <2>7, <2>8
    <3> QED
      BY <2>2, <2>8, <3>1, SeqEqual
  <2> QED
    BY <2>9 DEF m, m2
<1>7. [p \in Package |-> MovesOf(p)]' =
        [[p \in Package |-> MovesOf(p)] EXCEPT ![q] = Append(@, to)]
  <2> DEFINE Old(p) == MovesOf(p)
             New(p) == MovesOf(p)'
  <2>1. \A p \in Package : New(p) = IF p = q THEN Append(Old(q), to) ELSE Old(p)
    BY <1>5, <1>6
  <2> HIDE DEF Old, New
  <2>2. [p \in Package |-> New(p)] = [[p \in Package |-> Old(p)] EXCEPT ![q] = Append(@, to)]
    BY <2>1
  <2> QED
    BY <2>2 DEF Old, New
<1>8. to \in Promise!Allowed(status[q])
  BY <1>0, <1>2, <1>3, SameTable DEF TypeOK
<1> QED
  BY <1>1, <1>3, <1>4, <1>7, <1>8 DEF Promise!Move

(* The transactions of transitionWorkPackage implement the lifecycle of    *)
(* packages/domain: every commit is one allowed move of one package, and   *)
(* nothing else changes a row.                                             *)
THEOREM ImplementsLifecycle == Spec => ImplementsLife
<1>1. Init => Promise!Init
  <2> SUFFICES ASSUME Init, NEW p \in Package PROVE MovesOf(p) = <<>>
    BY DEF Init, Promise!Init
  <2>1. Len(MovesOf(p)) = 0 /\ MovesOf(p) \in Seq(Status)
    BY InitIInv, HistoryTellsMoves DEF Init, MovesTold
  <2> QED
    BY <2>1, EmptySeq
<1>2. IInv /\ IInv' /\ MovesTold /\ MovesTold' /\ [Next]_vars
        => [Promise!Next]_(Promise!lifeVars)
  <2> SUFFICES ASSUME IInv, IInv', MovesTold, MovesTold', [Next]_vars
               PROVE  Promise!Next \/ UNCHANGED Promise!lifeVars
    OBVIOUS
  <2>1. CASE UNCHANGED <<status, version, events>>
    BY <2>1 DEF Promise!lifeVars, MovesOf, EventsOf
  <2>2. ASSUME NEW c \in Caller, Commit(c), ~Duplicate(EventOf(c)) PROVE Promise!Next
    <3>1. PICK e : e = EventOf(c)
      OBVIOUS
    <3>2. e.package \in Package /\ e.to \in Status /\ Promise!Move(e.package, e.to)
      BY <2>2, <3>1, CommitMoves DEF Commit
    <3> QED
      BY <3>2, SameTable DEF Promise!Next
  <2> QED
    BY <2>1, <2>2 DEF Next, Call, Read, Update, Commit, Abort, vars
<1> QED
  BY <1>1, <1>2, IInvHolds, HistoryTellsMoves, PTL DEF Spec, ImplementsLife, Promise!Spec

=============================================================================
