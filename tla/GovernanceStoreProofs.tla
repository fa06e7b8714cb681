------------------------ MODULE GovernanceStoreProofs ------------------------
(***************************************************************************)
(* Theorems about GovernanceStore, for any callers, requests, delegations, *)
(* words, amounts and maximum.  The argument: between its first statement  *)
(* and its commit a transaction holds what it needs against every other    *)
(* one (the keys of its decision, the row of its delegation, the row of    *)
(* the quota), so what it found is still so when it commits.               *)
(***************************************************************************)
EXTENDS GovernanceStore, FiniteSetTheorems, TLAPS

(* A request is resolved exactly if it has a decision, and keys are unique.*)
DecisionsUnique ==
  /\ \A r \in Request : requests[r] = "resolved" <=> \E d \in decisions : d.request = r
  /\ \A d, e \in decisions : SameKey(d, e) => d = e

(* Every event has its row and every row its event.                        *)
EventsAgree ==
  events = {<<"recorded", d.id>> : d \in decisions}
             \cup {<<"revoked", d>> : d \in {e \in Delegation : delegations[e] # NoRow
                                                                 /\ ~InForce(e)}}

(* What open transactions hold.                                            *)
InsertedHeld ==
  \A c \in Caller : At(c, "inserted") =>
    /\ requests[call[c].request] # "absent"
    /\ \A d \in decisions : ~SameKey(d, DecisionOf(c))
    /\ \A b \in Caller : At(b, "inserted") /\ SameKey(DecisionOf(b), DecisionOf(c)) => b = c
RevokedHeld ==
  \A c \in Caller : At(c, "revoked") =>
    /\ InForce(call[c].delegation)
    /\ \A b \in Caller : At(b, "revoked") /\ call[b].delegation = call[c].delegation => b = c
QuotaHeld ==
  \A c \in Caller :
    /\ At(c, "read") \/ At(c, "taken") => call[c].seen.used + call[c].amount <= Maximum
    /\ At(c, "taken") => /\ call[c].seen = quota
                         /\ \A b \in Caller : At(b, "taken") => b = c

(* The inductive invariant.                                                *)
IInv ==
  /\ TypeOK
  /\ DecisionsUnique
  /\ EventsAgree
  /\ InsertedHeld
  /\ RevokedHeld
  /\ QuotaHeld

LEMMA InitIInv == Init => IInv
<1> SUFFICES ASSUME Init PROVE IInv
  OBVIOUS
<1>1. TypeOK
  BY DEF Init, TypeOK, CallRecord, Quota
<1>2. InsertedHeld /\ RevokedHeld /\ QuotaHeld
  BY DEF Init, InsertedHeld, RevokedHeld, QuotaHeld, At, NoCall
<1>3. DecisionsUnique /\ EventsAgree
  BY DEF Init, DecisionsUnique, EventsAgree
<1> QED
  BY <1>1, <1>2, <1>3 DEF IInv

(* In a state of the right type every caller's record is of the kind its   *)
(* position says.                                                          *)
LEMMA CallKinds ==
  ASSUME TypeOK, NEW c \in Caller
  PROVE  /\ At(c, "idle") => call[c] = NoCall
         /\ At(c, "decide") => call[c] \in [at : {"decide"}, id : DecisionId, request : Request,
                                            words : Word]
         /\ At(c, "inserted") => call[c] \in [at : {"inserted"}, id : DecisionId,
                                              request : Request, words : Word]
         /\ At(c, "revoke") => call[c] \in [at : {"revoke"}, delegation : Delegation,
                                            project : Project, words : Word]
         /\ At(c, "revoked") => call[c] \in [at : {"revoked"}, delegation : Delegation,
                                             project : Project, words : Word]
         /\ At(c, "consume") => call[c] \in [at : {"consume"}, amount : Amount]
         /\ At(c, "read") => call[c] \in [at : {"read", "taken"}, amount : Amount, seen : Quota]
         /\ At(c, "taken") => call[c] \in [at : {"read", "taken"}, amount : Amount, seen : Quota]
<1>1. call[c] \in CallRecord
  BY DEF TypeOK
<1> QED
  BY <1>1 DEF CallRecord, Wanted, NoCall, At

(* A step of one caller that leaves the rows alone: its new record is all  *)
(* there is to look at.                                                    *)
LEMMA CallerStep ==
  ASSUME IInv, UNCHANGED <<requests, decisions, delegations, quota, events>>,
         NEW c \in Caller, NEW r \in CallRecord, call' = [call EXCEPT ![c] = r],
         r.at = "inserted" => /\ requests[r.request] # "absent"
                              /\ \A d \in decisions \cup Inserted : ~SameKey(d, r),
         r.at = "revoked" =>
           InForce(r.delegation) /\ \A b \in Caller : At(b, "revoked") => call[b].delegation # r.delegation,
         r.at \in {"read", "taken"} => r.seen.used + r.amount <= Maximum,
         r.at = "taken" => r.seen = quota /\ \A b \in Caller : ~At(b, "taken")
  PROVE  IInv'
<1>0. TypeOK /\ DecisionsUnique /\ EventsAgree /\ InsertedHeld /\ RevokedHeld /\ QuotaHeld
  BY DEF IInv
<1>1. \A b \in Caller : call'[b] = IF b = c THEN r ELSE call[b]
  BY <1>0 DEF TypeOK
<1>2. TypeOK'
  BY <1>0 DEF TypeOK, DelegationRow
<1>3. DecisionsUnique' /\ EventsAgree'
  BY <1>0 DEF DecisionsUnique, EventsAgree, InForce
<1>4. InsertedHeld'
  <2>1. ASSUME NEW b \in Caller, b # c, At(b, "inserted"), r.at = "inserted"
        PROVE  ~SameKey(DecisionOf(b), r)
    BY <2>1 DEF Inserted
  <2> QED
    BY <1>0, <1>1, <2>1 DEF InsertedHeld, At, DecisionOf, SameKey
<1>5. RevokedHeld'
  BY <1>0, <1>1 DEF RevokedHeld, At, InForce
<1>6. QuotaHeld'
  BY <1>0, <1>1 DEF QuotaHeld, At
<1> QED
  BY <1>2, <1>3, <1>4, <1>5, <1>6 DEF IInv

(* Ending a transaction without a word.                                    *)
LEMMA EndStep ==
  ASSUME IInv, NEW c \in Caller, End(c),
         UNCHANGED <<requests, decisions, delegations, quota, events>>
  PROVE  IInv'
<1>1. NoCall \in CallRecord /\ NoCall.at = "idle"
  BY DEF CallRecord, NoCall
<1> QED
  BY <1>1, CallerStep DEF End

(* The commit of a decision: nobody else holds its keys.                   *)
LEMMA ResolveStep ==
  ASSUME IInv, NEW c \in Caller, Resolve(c)
  PROVE  IInv'
<1> DEFINE q == call[c].request
<1>0. TypeOK /\ DecisionsUnique /\ EventsAgree /\ InsertedHeld /\ RevokedHeld /\ QuotaHeld
  BY DEF IInv
<1>1. /\ call[c] \in [at : {"inserted"}, id : DecisionId, request : Request, words : Word]
      /\ q \in Request
  BY <1>0, CallKinds DEF Resolve
<1>2. PICK e \in Decision : e = DecisionOf(c)
  BY <1>1 DEF Decision, DecisionOf
<1>3. e.request = q /\ e.id = call[c].id /\ \A d \in decisions : ~SameKey(d, e)
  BY <1>0, <1>2 DEF DecisionOf, InsertedHeld, Resolve
<1>4. /\ decisions' = decisions \cup {e}
      /\ requests' = [requests EXCEPT ![q] = "resolved"]
      /\ events' = events \cup {<<"recorded", e.id>>}
      /\ UNCHANGED <<delegations, quota>>
  BY <1>2, <1>3 DEF Resolve
<1>5. \A b \in Caller : call'[b] = IF b = c THEN NoCall ELSE call[b]
  BY <1>0 DEF TypeOK, Resolve, End
<1>6. TypeOK'
  <2>1. call' \in [Caller -> CallRecord]
    BY <1>0 DEF TypeOK, Resolve, End, CallRecord
  <2> QED
    BY <1>0, <1>1, <1>2, <1>4, <2>1 DEF TypeOK, Decision
<1>7. DecisionsUnique'
  <2>1. \A d, f \in decisions' : SameKey(d, f) => d = f
    BY <1>0, <1>3, <1>4 DEF DecisionsUnique, SameKey
  <2>2. \A r \in Request : requests'[r] = "resolved" <=> \E d \in decisions' : d.request = r
    BY <1>0, <1>3, <1>4 DEF DecisionsUnique, TypeOK
  <2> QED
    BY <2>1, <2>2 DEF DecisionsUnique
<1>8. EventsAgree'
  BY <1>0, <1>4 DEF EventsAgree, InForce
<1>9. InsertedHeld'
  <2> SUFFICES ASSUME NEW b \in Caller, At(b, "inserted")'
               PROVE  /\ requests'[call'[b].request] # "absent"
                      /\ \A d \in decisions' : ~SameKey(d, DecisionOf(b)')
                      /\ \A a \in Caller :
                           At(a, "inserted")' /\ SameKey(DecisionOf(a)', DecisionOf(b)') => a = b
    BY DEF InsertedHeld
  <2>1. \A a \in Caller : At(a, "inserted")' =>
          a # c /\ At(a, "inserted") /\ call'[a] = call[a] /\ DecisionOf(a)' = DecisionOf(a)
    BY <1>5 DEF At, NoCall, DecisionOf
  <2>2. call[b].request \in Request
    BY <1>0, <2>1, CallKinds
  <2>3. requests'[call[b].request] # "absent"
    BY <1>0, <1>4, <2>1, <2>2 DEF InsertedHeld, TypeOK
  <2>4. ~SameKey(e, DecisionOf(b))
    BY <1>0, <1>2, <2>1 DEF InsertedHeld, Resolve
  <2> QED
    BY <1>0, <1>4, <2>1, <2>3, <2>4 DEF InsertedHeld
<1>10. RevokedHeld' /\ QuotaHeld'
  BY <1>0, <1>4, <1>5 DEF RevokedHeld, QuotaHeld, At, NoCall, InForce
<1> QED
  BY <1>6, <1>7, <1>8, <1>9, <1>10 DEF IInv

(* The commit of a revocation: nobody else holds the delegation.           *)
LEMMA WithdrawStep ==
  ASSUME IInv, NEW c \in Caller, Withdraw(c)
  PROVE  IInv'
<1>0. TypeOK /\ DecisionsUnique /\ EventsAgree /\ InsertedHeld /\ RevokedHeld /\ QuotaHeld
  BY DEF IInv
<1>1. call[c] \in [at : {"revoked"}, delegation : Delegation, project : Project, words : Word]
  BY <1>0, CallKinds DEF Withdraw
<1>2. PICK d \in Delegation, w \in Word : d = call[c].delegation /\ w = call[c].words
  BY <1>1
<1>3. delegations[d] \in DelegationRow /\ delegations[d].words = Null
  BY <1>0, <1>2 DEF TypeOK, RevokedHeld, InForce, Withdraw
<1> DEFINE row == [delegations[d] EXCEPT !.words = w]
<1>4. row \in DelegationRow /\ row.words = w
  BY <1>3 DEF DelegationRow
<1> HIDE DEF row
<1>5. /\ \A e \in Delegation : delegations'[e] = IF e = d THEN row ELSE delegations[e]
      /\ delegations' \in [Delegation -> DelegationRow \cup {NoRow}]
      /\ events' = events \cup {<<"revoked", d>>}
      /\ UNCHANGED <<requests, decisions, quota>>
  BY <1>0, <1>2, <1>4 DEF TypeOK, Withdraw, row
<1>6. \A b \in Caller : call'[b] = IF b = c THEN NoCall ELSE call[b]
  BY <1>0 DEF TypeOK, Withdraw, End
<1>7. TypeOK'
  <2>1. call' \in [Caller -> CallRecord]
    BY <1>0 DEF TypeOK, Withdraw, End, CallRecord
  <2> QED
    BY <1>0, <1>5, <2>1 DEF TypeOK
<1>8. DecisionsUnique' /\ InsertedHeld' /\ QuotaHeld'
  <2>1. \A b \in Caller : At(b, "inserted")' => At(b, "inserted") /\ DecisionOf(b)' = DecisionOf(b)
                                                /\ call'[b] = call[b]
    BY <1>6 DEF At, NoCall, DecisionOf
  <2>2. DecisionsUnique' /\ InsertedHeld'
    BY <1>0, <1>5, <2>1 DEF DecisionsUnique, InsertedHeld
  <2>3. QuotaHeld'
    BY <1>0, <1>5, <1>6 DEF QuotaHeld, At, NoCall
  <2> QED
    BY <2>2, <2>3
<1>9. EventsAgree'
  <2>1. row # NoRow /\ row.words # Null
    BY <1>2, <1>4, GovernanceAssumption
  <2>2. \A e \in Delegation : (delegations'[e] # NoRow /\ ~InForce(e)') <=>
                              e = d \/ (delegations[e] # NoRow /\ ~InForce(e))
    BY <1>5, <2>1 DEF InForce
  <2> QED
    BY <1>0, <1>5, <2>2 DEF EventsAgree
<1>10. RevokedHeld'
  <2>1. \A b \in Caller : At(b, "revoked")' =>
          b # c /\ At(b, "revoked") /\ call'[b] = call[b]
    BY <1>6 DEF At, NoCall
  <2>2. \A b \in Caller : b # c /\ At(b, "revoked") => call[b].delegation # d
    BY <1>0, <1>2 DEF RevokedHeld, Withdraw
  <2>3. \A e \in Delegation : e # d => (InForce(e)' <=> InForce(e))
    BY <1>5 DEF InForce
  <2>4. \A b \in Caller : At(b, "revoked") => call[b].delegation \in Delegation
    BY <1>0, CallKinds
  <2> QED
    BY <1>0, <2>1, <2>2, <2>3, <2>4 DEF RevokedHeld
<1> QED
  BY <1>7, <1>8, <1>9, <1>10 DEF IInv

(* The commit of a consumption: nobody else holds the quota.               *)
LEMMA SpendStep ==
  ASSUME IInv, NEW c \in Caller, Spend(c)
  PROVE  IInv'
<1>0. TypeOK /\ DecisionsUnique /\ EventsAgree /\ InsertedHeld /\ RevokedHeld /\ QuotaHeld
  BY DEF IInv
<1>1. call[c].amount \in Nat
  BY <1>0, CallKinds, GovernanceAssumption DEF Spend
<1>2. \A b \in Caller : call'[b] = IF b = c THEN NoCall ELSE call[b]
  BY <1>0 DEF TypeOK, Spend, End
<1>3. TypeOK'
  <2>1. call' \in [Caller -> CallRecord]
    BY <1>0 DEF TypeOK, Spend, End, CallRecord
  <2>2. quota' \in Quota
    BY <1>0, <1>1 DEF TypeOK, Quota, Spend
  <2> QED
    BY <1>0, <2>1, <2>2 DEF TypeOK, Spend
<1>4. DecisionsUnique' /\ EventsAgree' /\ InsertedHeld' /\ RevokedHeld'
  <2>1. \A b \in Caller : At(b, "inserted")' => At(b, "inserted") /\ DecisionOf(b)' = DecisionOf(b)
                                                /\ call'[b] = call[b]
    BY <1>2 DEF At, NoCall, DecisionOf
  <2>2. DecisionsUnique' /\ EventsAgree' /\ InsertedHeld'
    BY <1>0, <2>1 DEF Spend, DecisionsUnique, EventsAgree, InForce, InsertedHeld
  <2>3. RevokedHeld'
    BY <1>0, <1>2 DEF Spend, RevokedHeld, InForce, At, NoCall
  <2> QED
    BY <2>2, <2>3
<1>5. QuotaHeld'
  BY <1>0, <1>2 DEF Spend, QuotaHeld, At, NoCall
<1> QED
  BY <1>3, <1>4, <1>5 DEF IInv

LEMMA NextIInv == IInv /\ [Next]_vars => IInv'
<1> SUFFICES ASSUME IInv, [Next]_vars PROVE IInv'
  OBVIOUS
<1>0. TypeOK /\ DecisionsUnique /\ EventsAgree /\ InsertedHeld /\ RevokedHeld /\ QuotaHeld
  BY DEF IInv
<1>1. ASSUME NEW r \in Request, Ask(r) PROVE IInv'
  <2>1. \A q \in Request : requests'[q] = IF q = r THEN "pending" ELSE requests[q]
    BY <1>0, <1>1 DEF TypeOK, Ask
  <2>2. TypeOK'
    BY <1>0, <1>1 DEF TypeOK, Ask
  <2>3. DecisionsUnique' /\ EventsAgree'
    BY <1>0, <1>1, <2>1 DEF DecisionsUnique, EventsAgree, InForce, Ask
  <2>4. \A c \in Caller : At(c, "inserted") => call[c].request \in Request
    BY <1>0, CallKinds
  <2>5. InsertedHeld' /\ RevokedHeld' /\ QuotaHeld'
    BY <1>0, <1>1, <2>1, <2>4 DEF InsertedHeld, RevokedHeld, QuotaHeld, InForce, At, DecisionOf, Ask
  <2> QED
    BY <2>2, <2>3, <2>5 DEF IInv
<1>2. ASSUME NEW d \in Delegation, NEW p \in Project, Grant(d, p) PROVE IInv'
  <2> DEFINE row == [project |-> p, words |-> Null]
  <2>1. row \in DelegationRow /\ row.words = Null
    BY DEF DelegationRow
  <2> HIDE DEF row
  <2>2. \A e \in Delegation : delegations'[e] = IF e = d THEN row ELSE delegations[e]
    BY <1>0, <1>2, <2>1 DEF TypeOK, Grant, row
  <2>3. TypeOK'
    BY <1>0, <1>2, <2>1 DEF TypeOK, Grant, row
  <2>4. DecisionsUnique' /\ InsertedHeld' /\ QuotaHeld'
    BY <1>0, <1>2 DEF DecisionsUnique, InsertedHeld, QuotaHeld, At, DecisionOf, Grant
  <2>5. row # NoRow
    BY <2>1, GovernanceAssumption
  <2>6. EventsAgree'
    BY <1>0, <1>2, <2>1, <2>2, <2>5 DEF EventsAgree, InForce, Grant
  <2>7. \A c \in Caller : At(c, "revoked") => call[c].delegation \in Delegation
    BY <1>0, CallKinds
  <2>8. RevokedHeld'
    BY <1>0, <1>2, <2>1, <2>2, <2>5, <2>7 DEF RevokedHeld, InForce, At, Grant
  <2> QED
    BY <2>3, <2>4, <2>6, <2>8 DEF IInv
<1>3. ASSUME NEW c \in Caller, NEW wanted \in Wanted, Begin(c, wanted) PROVE IInv'
  <2>1. wanted \in CallRecord /\ wanted.at \in {"decide", "revoke", "consume"}
    BY DEF CallRecord, Wanted
  <2> QED
    BY <1>3, <2>1, CallerStep DEF Begin
<1>4. ASSUME NEW c \in Caller, Insert(c) PROVE IInv'
  <2>1. CASE call' = [call EXCEPT ![c].at = "inserted"] /\ requests[call[c].request] # "absent"
             /\ \A d \in decisions : ~SameKey(d, DecisionOf(c))
    <3>1. call[c] \in [at : {"decide"}, id : DecisionId, request : Request, words : Word]
      BY <1>0, <1>4, CallKinds DEF Insert
    <3> DEFINE r == [call[c] EXCEPT !.at = "inserted"]
    <3>2. /\ r \in CallRecord
          /\ r.at = "inserted" /\ r.request = call[c].request
          /\ r.id = call[c].id /\ r.words = call[c].words
      BY <3>1 DEF CallRecord
    <3>3. call' = [call EXCEPT ![c] = r]
      BY <2>1
    <3> HIDE DEF r
    <3>4. \A d : SameKey(d, DecisionOf(c)) <=> SameKey(d, r)
      BY <3>2 DEF DecisionOf, SameKey
    <3>5. \A d \in decisions \cup Inserted : ~SameKey(d, r)
      BY <1>4, <2>1, <3>4 DEF Insert
    <3>6. UNCHANGED <<requests, decisions, delegations, quota, events>>
      BY <1>4 DEF Insert
    <3>7. /\ requests[r.request] # "absent"
          /\ r.at # "revoked" /\ r.at # "taken" /\ r.at \notin {"read", "taken"}
      BY <2>1, <3>2
    <3>8. r \in CallRecord
      BY <3>2
    <3> QED
      BY <3>3, <3>5, <3>6, <3>7, <3>8, CallerStep
  <2>2. CASE End(c)
    BY <1>4, <2>2, EndStep DEF Insert
  <2> QED
    BY <1>4, <2>1, <2>2 DEF Insert
<1>5. ASSUME NEW c \in Caller, Resolve(c) PROVE IInv'
  BY <1>5, ResolveStep
<1>6. ASSUME NEW c \in Caller, Revoke(c) PROVE IInv'
  <2>1. CASE call' = [call EXCEPT ![c].at = "revoked"] /\ InForce(call[c].delegation)
    <3>1. call[c] \in [at : {"revoke"}, delegation : Delegation, project : Project, words : Word]
      BY <1>0, <1>6, CallKinds DEF Revoke
    <3> DEFINE r == [call[c] EXCEPT !.at = "revoked"]
    <3>2. /\ r \in CallRecord
          /\ r.at = "revoked" /\ r.delegation = call[c].delegation
      BY <3>1 DEF CallRecord
    <3>3. call' = [call EXCEPT ![c] = r]
      BY <2>1
    <3> HIDE DEF r
    <3>4. \A b \in Caller : At(b, "revoked") => call[b].delegation # r.delegation
      BY <1>6, <3>2 DEF Revoke
    <3>5. UNCHANGED <<requests, decisions, delegations, quota, events>>
      BY <1>6 DEF Revoke
    <3> QED
      BY <2>1, <3>2, <3>3, <3>4, <3>5, CallerStep
  <2>2. CASE End(c)
    BY <1>6, <2>2, EndStep DEF Revoke
  <2> QED
    BY <1>6, <2>1, <2>2 DEF Revoke
<1>7. ASSUME NEW c \in Caller, Withdraw(c) PROVE IInv'
  BY <1>7, WithdrawStep
<1>8. ASSUME NEW c \in Caller, ReadQuota(c) PROVE IInv'
  <2>1. CASE quota.used + call[c].amount <= Maximum
    <3>1. call[c] \in [at : {"consume"}, amount : Amount]
      BY <1>0, <1>8, CallKinds DEF ReadQuota
    <3> DEFINE r == [at |-> "read", amount |-> call[c].amount, seen |-> quota]
    <3>2. r \in CallRecord /\ r.at = "read" /\ r.amount = call[c].amount /\ r.seen = quota
      BY <1>0, <3>1 DEF CallRecord, TypeOK
    <3>3. call' = [call EXCEPT ![c] = r]
      BY <1>8, <2>1 DEF ReadQuota
    <3> HIDE DEF r
    <3> QED
      BY <1>8, <2>1, <3>2, <3>3, CallerStep DEF ReadQuota
  <2>2. CASE ~(quota.used + call[c].amount <= Maximum)
    BY <1>8, <2>2, EndStep DEF ReadQuota
  <2> QED
    BY <2>1, <2>2
<1>9. ASSUME NEW c \in Caller, Take(c) PROVE IInv'
  <2>1. CASE quota = call[c].seen
    <3>1. call[c] \in [at : {"read", "taken"}, amount : Amount, seen : Quota]
      BY <1>0, <1>9, CallKinds DEF Take
    <3> DEFINE r == [call[c] EXCEPT !.at = "taken"]
    <3>2. /\ r \in CallRecord
          /\ r.at = "taken" /\ r.amount = call[c].amount
          /\ r.seen = call[c].seen
      BY <3>1 DEF CallRecord
    <3>3. call' = [call EXCEPT ![c] = r]
      BY <1>9, <2>1 DEF Take
    <3> HIDE DEF r
    <3>4. r.seen.used + r.amount <= Maximum
      BY <1>0, <1>9, <3>2 DEF QuotaHeld, Take
    <3> QED
      BY <1>9, <2>1, <3>2, <3>3, <3>4, CallerStep DEF Take
  <2>2. CASE quota # call[c].seen
    BY <1>9, <2>2, EndStep DEF Take
  <2> QED
    BY <2>1, <2>2
<1>10. ASSUME NEW c \in Caller, Spend(c) PROVE IInv'
  BY <1>10, SpendStep
<1>11. ASSUME NEW c \in Caller, Abort(c) PROVE IInv'
  BY <1>11, EndStep DEF Abort
<1>12. CASE UNCHANGED vars
  BY <1>0, <1>12 DEF vars, IInv, TypeOK, DecisionsUnique, EventsAgree, InForce, InsertedHeld,
                     RevokedHeld, QuotaHeld, At, DecisionOf
<1> QED
  BY <1>1, <1>2, <1>3, <1>4, <1>5, <1>6, <1>7, <1>8, <1>9, <1>10, <1>11, <1>12 DEF Next

LEMMA IInvHolds == Spec => []IInv
  BY InitIInv, NextIInv, PTL DEF Spec

-----------------------------------------------------------------------------
(* Unique keys, counted.                                                   *)
LEMMA HeldRecordsAgree == IInv => RecordsAgree
<1> SUFFICES ASSUME IInv PROVE RecordsAgree
  OBVIOUS
<1>0. DecisionsUnique /\ EventsAgree
  BY DEF IInv
<1>1. ASSUME NEW r \in Request
      PROVE  Cardinality({d \in decisions : d.request = r}) = IF requests[r] = "resolved" THEN 1 ELSE 0
  <2>1. CASE requests[r] = "resolved"
    <3>1. PICK d \in decisions : d.request = r
      BY <1>0, <2>1 DEF DecisionsUnique
    <3>2. {e \in decisions : e.request = r} = {d}
      BY <1>0, <3>1 DEF DecisionsUnique, SameKey
    <3> QED
      BY <2>1, <3>2, FS_Singleton
  <2>2. CASE requests[r] # "resolved"
    <3>1. {d \in decisions : d.request = r} = {}
      BY <1>0, <2>2 DEF DecisionsUnique
    <3> QED
      BY <2>2, <3>1, FS_EmptySet
  <2> QED
    BY <2>1, <2>2
<1> QED
  BY <1>0, <1>1 DEF RecordsAgree, EventsAgree, DecisionsUnique, SameKey

(* Rows, events and transactions keep their types.                         *)
THEOREM TypeCorrect == Spec => []TypeOK
<1>1. IInv => TypeOK
  BY DEF IInv
<1> QED
  BY <1>1, IInvHolds, PTL

(* Requests, decisions, delegations and events of recordHumanDecision and  *)
(* revokeStandingDelegation agree in every state, whoever stops where.     *)
THEOREM RecordsAlwaysAgree == Spec => []RecordsAgree
  BY IInvHolds, HeldRecordsAgree, PTL

-----------------------------------------------------------------------------
(* A request without a decision is unanswered, one with a decision has its *)
(* words for answer.                                                       *)
LEMMA AnswersRead ==
  ASSUME IInv
  PROVE  \A r \in Request :
           /\ (\A d \in decisions : d.request # r) => AnswerTo(r) = Null
           /\ \A d \in decisions : d.request = r => AnswerTo(r) = d.words
BY DEF IInv, DecisionsUnique, SameKey, AnswerTo

(* The abstract state: what a step must be shown to leave or to change.    *)
Answers == [r \in Request |-> AnswerTo(r)]
Revocations == [d \in Delegation |-> RevocationOf(d)]

(* The commit of a decision answers its request.                           *)
LEMMA ResolveDecides ==
  ASSUME IInv, NEW c \in Caller, Resolve(c),
         NEW q, NEW w, q = call[c].request, w = call[c].words,
         \A r \in Request : \A d \in decisions' : d.request = r => AnswerTo(r)' = d.words,
         \A r \in Request : (\A d \in decisions' : d.request # r) => AnswerTo(r)' = Null
  PROVE  q \in Request /\ w \in Word /\ Promise!Decide(q, w)
<1>0. TypeOK /\ InsertedHeld
  BY DEF IInv
<1>1. q \in Request /\ w \in Word
  BY <1>0, CallKinds DEF Resolve
<1>2. PICK e : e = DecisionOf(c)
  OBVIOUS
<1>3. /\ e.request = q /\ e.words = w /\ decisions' = decisions \cup {e}
      /\ \A d \in decisions : d.request # q
  BY <1>0, <1>2 DEF DecisionOf, InsertedHeld, SameKey, Resolve
<1>4. AnswerTo(q) = Null
  BY <1>1, <1>3, AnswersRead
<1>5. \A r \in Request : AnswerTo(r)' = IF r = q THEN w ELSE AnswerTo(r)
  <2>1. ASSUME NEW r \in Request, r # q PROVE AnswerTo(r)' = AnswerTo(r)
    <3>1. CASE \E d \in decisions : d.request = r
      BY <1>3, <2>1, <3>1, AnswersRead
    <3>2. CASE \A d \in decisions : d.request # r
      BY <1>3, <2>1, <3>2, AnswersRead
    <3> QED
      BY <3>1, <3>2
  <2> QED
    BY <1>1, <1>3, <2>1
<1>6. Answers[q] = Null /\ Answers' = [Answers EXCEPT ![q] = w]
  BY <1>1, <1>4, <1>5 DEF Answers
<1>7. Revocations' = Revocations /\ quota' = quota
  BY DEF Revocations, RevocationOf, Resolve
<1> QED
  BY <1>1, <1>6, <1>7 DEF Promise!Decide, Answers, Revocations

(* The commit of a revocation revokes its delegation, for the first time.  *)
LEMMA WithdrawRevokes ==
  ASSUME IInv, NEW c \in Caller, Withdraw(c),
         NEW d, NEW w, d = call[c].delegation, w = call[c].words
  PROVE  d \in Delegation /\ w \in Word /\ Promise!Revoke(d, w)
<1>0. TypeOK /\ RevokedHeld
  BY DEF IInv
<1>1. d \in Delegation /\ w \in Word
  BY <1>0, CallKinds DEF Withdraw
<1>2. delegations[d] \in DelegationRow /\ delegations[d].words = Null
  BY <1>0, <1>1 DEF TypeOK, RevokedHeld, InForce, Withdraw
<1> DEFINE row == [delegations[d] EXCEPT !.words = w]
<1>3. row \in DelegationRow /\ row.words = w
  BY <1>1, <1>2 DEF DelegationRow
<1>4. delegations' = [delegations EXCEPT ![d] = row]
  BY DEF Withdraw
<1> HIDE DEF row
<1>5. row # NoRow
  BY <1>3, GovernanceAssumption
<1>6. \A e \in Delegation : RevocationOf(e)' = IF e = d THEN w ELSE RevocationOf(e)
  BY <1>0, <1>1, <1>3, <1>4, <1>5 DEF TypeOK, RevocationOf
<1>7. RevocationOf(d) = Null
  BY <1>2 DEF RevocationOf
<1>8. Revocations[d] = Null /\ Revocations' = [Revocations EXCEPT ![d] = w]
  BY <1>1, <1>6, <1>7 DEF Revocations
<1>9. Answers' = Answers /\ quota' = quota
  BY DEF Answers, AnswerTo, Withdraw
<1> QED
  BY <1>1, <1>8, <1>9 DEF Promise!Revoke, Answers, Revocations

(* The commit of a consumption stays within the maximum.                   *)
LEMMA SpendConsumes ==
  ASSUME IInv, NEW c \in Caller, Spend(c), NEW n, n = call[c].amount
  PROVE  n \in 1..Maximum /\ Promise!Consume(n)
<1>0. TypeOK /\ QuotaHeld
  BY DEF IInv
<1>1. n \in Nat \ {0} /\ quota.used \in Nat /\ Maximum \in Nat
  BY <1>0, CallKinds, GovernanceAssumption DEF Spend, TypeOK, Quota
<1>2. quota.used + n <= Maximum
  BY <1>0 DEF QuotaHeld, Spend
<1>3. quota'.used = quota.used + n
  BY DEF Spend
<1>4. Answers' = Answers /\ Revocations' = Revocations
  BY DEF Answers, AnswerTo, Revocations, RevocationOf, Spend
<1> QED
  BY <1>1, <1>2, <1>3, <1>4 DEF Promise!Consume, Answers, Revocations

(* The transactions of packages/database implement what governance         *)
(* promises: every commit is one answer, one revocation or one consumption,*)
(* and an answer, a revocation or the maximum is never overridden.         *)
THEOREM GovernanceImplemented == Spec => ImplementsGovernance
<1> DEFINE Answered == \A r \in Request :
                         /\ (\A d \in decisions : d.request # r) => AnswerTo(r) = Null
                         /\ \A d \in decisions : d.request = r => AnswerTo(r) = d.words
<1>1. Init => Promise!Init
  BY DEF Init, Promise!Init, AnswerTo, RevocationOf
<1>2. IInv => Answered
  BY AnswersRead
<1>3. IInv /\ Answered' /\ [Next]_vars => [Promise!Next]_(Promise!vars)
  <2> SUFFICES ASSUME IInv, Answered', [Next]_vars
               PROVE  Promise!Next \/ UNCHANGED Promise!vars
    OBVIOUS
  <2>1. CASE UNCHANGED <<decisions, delegations, quota>>
    BY <2>1 DEF Promise!vars, AnswerTo, RevocationOf
  <2>2. ASSUME NEW c \in Caller, Resolve(c) PROVE Promise!Next
    <3>1. PICK q, w : q = call[c].request /\ w = call[c].words
      OBVIOUS
    <3>2. q \in Request /\ w \in Word /\ Promise!Decide(q, w)
      BY <2>2, <3>1, ResolveDecides
    <3> QED
      BY <3>2 DEF Promise!Next
  <2>3. ASSUME NEW c \in Caller, Withdraw(c) PROVE Promise!Next
    <3>1. PICK d, w : d = call[c].delegation /\ w = call[c].words
      OBVIOUS
    <3>2. d \in Delegation /\ w \in Word /\ Promise!Revoke(d, w)
      BY <2>3, <3>1, WithdrawRevokes
    <3> QED
      BY <3>2 DEF Promise!Next
  <2>4. ASSUME NEW c \in Caller, Spend(c) PROVE Promise!Next
    <3>1. PICK n : n = call[c].amount
      OBVIOUS
    <3>2. n \in 1..Maximum /\ Promise!Consume(n)
      BY <2>4, <3>1, SpendConsumes
    <3> QED
      BY <3>2 DEF Promise!Next
  <2>5. ASSUME NEW d \in Delegation, NEW p \in Project, Grant(d, p) PROVE UNCHANGED Promise!vars
    <3>1. \A e \in Delegation : RevocationOf(e)' = RevocationOf(e)
      BY <2>5 DEF IInv, TypeOK, Grant, RevocationOf
    <3>2. Revocations' = Revocations
      BY <3>1 DEF Revocations
    <3>3. Answers' = Answers /\ quota' = quota
      BY <2>5 DEF Answers, AnswerTo, Grant
    <3> QED
      BY <3>2, <3>3 DEF Promise!vars, Answers, Revocations
  <2> QED
    BY <2>1, <2>2, <2>3, <2>4, <2>5
       DEF Next, Ask, Begin, Insert, Revoke, ReadQuota, Take, Abort, vars
<1> QED
  BY <1>1, <1>2, <1>3, IInvHolds, PTL DEF Spec, ImplementsGovernance, Promise!Spec

=============================================================================
