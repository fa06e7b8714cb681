--------------------------- MODULE DeliveryProofs ---------------------------
(***************************************************************************)
(* Theorems about Delivery, for any runs, checks, reviewers                *)
(* and budgets.  The argument: results are cleared when an attempt starts  *)
(* and are only collected after its execution, so what the gate passes is  *)
(* of that execution; nothing executes between the gate and acceptance;    *)
(* and the loop counter lags one behind the executions of the run from     *)
(* execution to repair.                                                    *)
(***************************************************************************)
EXTENDS Delivery, TLAPS

(* What AcceptedIsVerified asks of a package.                              *)
Verified(l) ==
  /\ \A k \in Check : /\ results[l][k].status = "passed"
                      /\ results[l][k].revision = revision[l]
                      /\ results[l][k].execution = executions[l]
  /\ review[l].approved /\ review[l].asserts
  /\ review[l].revision = revision[l]
  /\ review[l].group # Builders
  /\ review[l].execution = executions[l]

(* Results and review in hand are those of the latest execution.           *)
EvidenceIsCurrent ==
  \A l \in Lead :
    /\ at[l] \in {"executing", "executed"} => results[l] = NoResults
    /\ at[l] \in {"verifying", "reviewing", "reviewed"} =>
         \A k \in Check : results[l][k].status # "none" =>
           results[l][k].revision = revision[l] /\ results[l][k].execution = executions[l]
    /\ at[l] = "reviewed" => review[l].execution = executions[l]

(* A gate that passed a package the reviewer approved, and what was        *)
(* recorded from it, stand on that evidence.                               *)
PromotedIsVerified ==
  \A l \in Lead :
    /\ at[l] = "gated" /\ Promotable(l) => Verified(l)
    /\ recorded[l] \in {"accepted", "closed"} =>
         at[l] \in {"accepted", "closed", "raised", "idle"} /\ Verified(l)
    /\ at[l] = "accepted" => recorded[l] = "accepted"

(* The loop counter against the executions of the latest run.              *)
AttemptsCounted ==
  \A l \in Lead :
    /\ executions[l] - begun[l] <= MaxRepair + 1
    /\ at[l] \in {"starting", "executing"} => executions[l] - begun[l] = attempt[l]
    /\ at[l] \in {"executed", "verifying", "reviewing", "reviewed", "gated"} =>
         executions[l] - begun[l] = attempt[l] + 1
    /\ recorded[l] = "blocked" => /\ at[l] \in {"blocked", "idle"}
                                  /\ executions[l] - begun[l] = MaxRepair + 1

(* The inductive invariant.                                                *)
IInv ==
  /\ TypeOK
  /\ EvidenceIsCurrent
  /\ PromotedIsVerified
  /\ AttemptsCounted

LEMMA Bounds ==
  /\ MaxRepair \in Nat /\ MaxExecutions \in Nat
  /\ 0..MaxRepair \subseteq Nat /\ 0..MaxExecutions \subseteq Nat
BY DeliveryAssumption

LEMMA InitIInv == Init => IInv
<1> SUFFICES ASSUME Init PROVE IInv
  OBVIOUS
<1>1. NoResults \in [Check -> Result] /\ NoReview \in ReviewResult
  BY DEF NoResults, NoResult, Result, NoReview, ReviewResult
<1>2. TypeOK
  BY <1>1, Bounds DEF Init, TypeOK, Place, Status
<1>3. EvidenceIsCurrent
  BY DEF Init, EvidenceIsCurrent
<1>4. PromotedIsVerified
  BY DEF Init, PromotedIsVerified
<1>5. AttemptsCounted
  BY Bounds DEF Init, AttemptsCounted
<1> QED
  BY <1>2, <1>3, <1>4, <1>5 DEF IInv

(* A step of one run that changes neither its evidence nor its executions: *)
(* where it goes, what it records and how it counts is all there is to     *)
(* look at.                                                                *)
LEMMA LoopStep ==
  ASSUME IInv, NEW l \in Lead,
         at' \in [Lead -> Place], recorded' \in [Lead -> Status], attempt' \in [Lead -> 0..MaxRepair],
         \A m \in Lead : m # l => at'[m] = at[m] /\ recorded'[m] = recorded[m] /\ attempt'[m] = attempt[m],
         UNCHANGED <<executions, begun, revision, results, review, gate, evidence>>,
         at'[l] \in {"executing", "executed"} => results[l] = NoResults,
         at'[l] \in {"verifying", "reviewing"} =>
           \A k \in Check : results[l][k].status # "none" =>
             results[l][k].revision = revision[l] /\ results[l][k].execution = executions[l],
         at'[l] \notin {"reviewed", "gated"},
         recorded'[l] \in {"accepted", "closed"} =>
           at'[l] \in {"accepted", "closed", "raised", "idle"} /\ Verified(l),
         at'[l] = "accepted" => recorded'[l] = "accepted",
         at'[l] \in {"starting", "executing"} => executions[l] - begun[l] = attempt'[l],
         at'[l] \in {"executed", "verifying", "reviewing"} => executions[l] - begun[l] = attempt'[l] + 1,
         recorded'[l] = "blocked" => /\ at'[l] \in {"blocked", "idle"}
                                     /\ executions[l] - begun[l] = MaxRepair + 1
  PROVE  IInv'
<1>0. TypeOK /\ EvidenceIsCurrent /\ PromotedIsVerified /\ AttemptsCounted
  BY DEF IInv
<1>1. TypeOK'
  BY <1>0 DEF TypeOK
<1>2. EvidenceIsCurrent'
  BY <1>0 DEF EvidenceIsCurrent
<1>3. \A m \in Lead : Verified(m)' <=> Verified(m)
  BY DEF Verified
<1>4. PromotedIsVerified'
  BY <1>0, <1>3 DEF PromotedIsVerified, Promotable
<1>5. AttemptsCounted'
  BY <1>0 DEF AttemptsCounted
<1> QED
  BY <1>1, <1>2, <1>4, <1>5 DEF IInv

(* A run begins with its package's history of executions, and no verdict.  *)
LEMMA BeginStep ==
  ASSUME IInv, NEW l \in Lead, Begin(l)
  PROVE  IInv'
<1>0. TypeOK /\ EvidenceIsCurrent /\ PromotedIsVerified /\ AttemptsCounted
  BY DEF IInv
<1>1. \A m \in Lead : /\ at'[m] = IF m = l THEN "starting" ELSE at[m]
                      /\ recorded'[m] = IF m = l THEN "eligible" ELSE recorded[m]
                      /\ attempt'[m] = IF m = l THEN 0 ELSE attempt[m]
                      /\ begun'[m] = IF m = l THEN executions[l] ELSE begun[m]
                      /\ gate'[m] = IF m = l THEN "none" ELSE gate[m]
  BY <1>0 DEF TypeOK, Begin, Transition
<1>2. UNCHANGED <<executions, revision, results, review, evidence>>
  BY DEF Begin
<1>3. executions[l] \in Nat
  BY <1>0, Bounds DEF TypeOK
<1>4. TypeOK'
  <2>1. /\ at' \in [Lead -> Place] /\ recorded' \in [Lead -> Status]
        /\ attempt' \in [Lead -> 0..MaxRepair] /\ begun' \in [Lead -> Nat]
        /\ gate' \in [Lead -> {"none", "passed", "failed", "inconclusive"}]
    BY <1>0, <1>3, Bounds DEF TypeOK, Begin, Transition, Place, Status
  <2> QED
    BY <1>0, <1>2, <2>1 DEF TypeOK
<1>5. EvidenceIsCurrent'
  BY <1>0, <1>1, <1>2 DEF EvidenceIsCurrent
<1>6. \A m \in Lead : Verified(m)' <=> Verified(m)
  BY <1>2 DEF Verified
<1>7. PromotedIsVerified'
  BY <1>0, <1>1, <1>2, <1>6 DEF PromotedIsVerified, Promotable
<1>8. AttemptsCounted'
  BY <1>0, <1>1, <1>2, <1>3, Bounds DEF AttemptsCounted
<1> QED
  BY <1>4, <1>5, <1>7, <1>8 DEF IInv

(* An attempt starts without results.                                      *)
LEMMA StartStep ==
  ASSUME IInv, NEW l \in Lead, StartAttempt(l)
  PROVE  IInv'
<1>0. TypeOK /\ EvidenceIsCurrent /\ PromotedIsVerified /\ AttemptsCounted
  BY DEF IInv
<1>1. \A m \in Lead : /\ at'[m] = IF m = l THEN "executing" ELSE at[m]
                      /\ recorded'[m] = IF m = l THEN "running" ELSE recorded[m]
                      /\ results'[m] = IF m = l THEN NoResults ELSE results[m]
  BY <1>0 DEF TypeOK, StartAttempt, Transition
<1>2. UNCHANGED <<attempt, executions, begun, revision, review, gate, evidence>>
  BY DEF StartAttempt
<1>3. TypeOK'
  <2>1. NoResults \in [Check -> Result]
    BY DEF NoResults, NoResult, Result
  <2>2. /\ at' \in [Lead -> Place] /\ recorded' \in [Lead -> Status]
        /\ results' \in [Lead -> [Check -> Result]]
    BY <1>0, <2>1 DEF TypeOK, StartAttempt, Transition, Place, Status
  <2> QED
    BY <1>0, <1>2, <2>2 DEF TypeOK
<1>4. EvidenceIsCurrent'
  BY <1>0, <1>1, <1>2 DEF EvidenceIsCurrent
<1>5. \A m \in Lead : m # l => (Verified(m)' <=> Verified(m))
  BY <1>1, <1>2 DEF Verified
<1>6. PromotedIsVerified'
  BY <1>0, <1>1, <1>2, <1>5 DEF PromotedIsVerified, Promotable
<1>7. AttemptsCounted'
  BY <1>0, <1>1, <1>2 DEF AttemptsCounted, StartAttempt, Transition
<1> QED
  BY <1>3, <1>4, <1>6, <1>7 DEF IInv

(* An execution: one more for the package, before any result.              *)
LEMMA ExecuteStep ==
  ASSUME IInv, NEW l \in Lead, Execute(l)
  PROVE  IInv'
<1> DEFINE n == executions[l] + 1
<1>0. TypeOK /\ EvidenceIsCurrent /\ PromotedIsVerified /\ AttemptsCounted
  BY DEF IInv
<1>1. n \in 0..MaxExecutions /\ n \in Nat
  BY <1>0, Bounds DEF TypeOK, Execute
<1>2. /\ at[l] = "executing" /\ at' = [at EXCEPT ![l] = "executed"]
      /\ executions' = [executions EXCEPT ![l] = n]
      /\ UNCHANGED <<recorded, attempt, begun, results, review, gate, evidence>>
  BY DEF Execute, PassTo
<1>3. PICK rev \in 1..n : revision' = [revision EXCEPT ![l] = rev]
  BY DEF Execute
<1>4. /\ revision' \in [Lead -> Nat]
      /\ \A m \in Lead : revision'[m] = IF m = l THEN rev ELSE revision[m]
  BY <1>0, <1>1, <1>3 DEF TypeOK
<1>5. \A m \in Lead : /\ at'[m] = IF m = l THEN "executed" ELSE at[m]
                      /\ executions'[m] = IF m = l THEN n ELSE executions[m]
  BY <1>0, <1>2 DEF TypeOK
<1>6. TypeOK'
  <2>1. at' \in [Lead -> Place] /\ executions' \in [Lead -> 0..MaxExecutions]
    BY <1>0, <1>1, <1>2 DEF TypeOK, Place
  <2>2. ASSUME NEW m \in Lead PROVE revision'[m] <= executions'[m]
    BY <1>0, <1>1, <1>3, <1>4, <1>5 DEF TypeOK
  <2> QED
    BY <1>0, <1>2, <1>4, <2>1, <2>2 DEF TypeOK
<1> HIDE DEF n
<1>7. EvidenceIsCurrent'
  <2>1. results[l] = NoResults
    BY <1>0, <1>2 DEF EvidenceIsCurrent
  <2> QED
    BY <1>0, <1>2, <1>4, <1>5, <2>1 DEF EvidenceIsCurrent
<1>8. \A m \in Lead : m # l => (Verified(m)' <=> Verified(m))
  BY <1>2, <1>4, <1>5 DEF Verified
<1>9. recorded[l] \notin {"accepted", "closed", "blocked"}
  BY <1>0, <1>2 DEF PromotedIsVerified, AttemptsCounted
<1>10. PromotedIsVerified'
  BY <1>0, <1>2, <1>5, <1>8, <1>9 DEF PromotedIsVerified, Promotable
<1>11. AttemptsCounted'
  <2>1. n - begun[l] = attempt[l] + 1 /\ n - begun[l] <= MaxRepair + 1
    BY <1>0, <1>2, Bounds DEF AttemptsCounted, TypeOK, n
  <2> QED
    BY <1>0, <1>2, <1>5, <1>9, <2>1 DEF AttemptsCounted
<1> QED
  BY <1>6, <1>7, <1>10, <1>11 DEF IInv

(* A check of the attempt, stamped with its revision.                      *)
LEMMA CheckStep ==
  ASSUME IInv, NEW l \in Lead, NEW k \in Check, RunCheck(l, k)
  PROVE  IInv'
<1>0. TypeOK /\ EvidenceIsCurrent /\ PromotedIsVerified /\ AttemptsCounted
  BY DEF IInv
<1>1. /\ at[l] = "verifying"
      /\ UNCHANGED <<at, recorded, attempt, executions, begun, revision, review, gate>>
  BY DEF RunCheck
<1>2. revision[l] \in Nat /\ executions[l] \in Nat
  BY <1>0, Bounds DEF TypeOK
<1>3. PICK status \in {"passed", "failed", "error"} :
        /\ evidence' = evidence \cup {[id |-> EvidenceId(k, status), subject |-> l,
                                       execution |-> executions[l]]}
        /\ results' = [results EXCEPT ![l][k] =
             IF @ # NoResult THEN @
             ELSE [status |-> status, revision |-> revision[l], execution |-> executions[l]]]
  BY DEF RunCheck
<1> DEFINE new == [status |-> status, revision |-> revision[l], execution |-> executions[l]]
<1>4. new \in Result /\ new.revision = revision[l] /\ new.execution = executions[l]
  BY <1>2, <1>3 DEF Result
<1>5. results' = [results EXCEPT ![l] = [results[l] EXCEPT ![k] =
                    IF results[l][k] # NoResult THEN results[l][k] ELSE new]]
  BY <1>0, <1>3 DEF TypeOK
<1> HIDE DEF new
<1>6. \A m \in Lead : \A j \in Check :
        results'[m][j] = results[m][j] \/ (m = l /\ results'[m][j] = new)
  BY <1>0, <1>5 DEF TypeOK
<1>7. results' \in [Lead -> [Check -> Result]]
  BY <1>0, <1>4, <1>5 DEF TypeOK
<1>8. TypeOK'
  <2>1. \A e \in evidence' : e.subject \in Lead /\ e.execution \in Nat
    BY <1>0, <1>2, <1>3 DEF TypeOK
  <2> QED
    BY <1>0, <1>1, <1>7, <2>1 DEF TypeOK
<1>9. EvidenceIsCurrent'
  <2>1. \A m \in Lead : m # l => results'[m] = results[m]
    BY <1>0, <1>5 DEF TypeOK
  <2> QED
    BY <1>0, <1>1, <1>4, <1>6, <2>1 DEF EvidenceIsCurrent
<1>10. \A m \in Lead : m # l => (Verified(m)' <=> Verified(m))
  BY <1>1, <1>6 DEF Verified
<1>11. PromotedIsVerified'
  BY <1>0, <1>1, <1>10 DEF PromotedIsVerified, Promotable
<1>12. AttemptsCounted'
  BY <1>0, <1>1 DEF AttemptsCounted
<1> QED
  BY <1>8, <1>9, <1>11, <1>12 DEF IInv

(* The reviewer answers about the execution under review.                  *)
LEMMA ReviewStep ==
  ASSUME IInv, NEW l \in Lead, Review(l)
  PROVE  IInv'
<1>0. TypeOK /\ EvidenceIsCurrent /\ PromotedIsVerified /\ AttemptsCounted
  BY DEF IInv
<1>1. /\ at[l] = "reviewing" /\ at' = [at EXCEPT ![l] = "reviewed"]
      /\ UNCHANGED <<recorded, attempt, executions, begun, revision, results, gate>>
  BY DEF Review, PassTo
<1>2. executions[l] \in Nat /\ revision[l] \in Nat
  BY <1>0, Bounds DEF TypeOK
<1>3. PICK r \in ReviewResult : review' = [review EXCEPT ![l] = r] /\ r.execution = executions[l]
  <2>1. PICK approved \in BOOLEAN, asserts \in BOOLEAN, group \in Reviewers,
             rev \in {revision[l], revision[l] - 1} :
          review' = [review EXCEPT ![l] =
            [approved |-> approved, asserts |-> asserts, revision |-> rev, group |-> group,
             execution |-> executions[l]]]
    BY DEF Review
  <2> DEFINE r == [approved |-> approved, asserts |-> asserts, revision |-> rev, group |-> group,
                   execution |-> executions[l]]
  <2>2. r \in ReviewResult /\ r.execution = executions[l]
    BY <1>2, <2>1 DEF ReviewResult
  <2> QED
    BY <2>1, <2>2
<1>4. \A m \in Lead : /\ at'[m] = IF m = l THEN "reviewed" ELSE at[m]
                      /\ review'[m] = IF m = l THEN r ELSE review[m]
  BY <1>0, <1>1, <1>3 DEF TypeOK
<1>5. TypeOK'
  <2>1. at' \in [Lead -> Place] /\ review' \in [Lead -> ReviewResult]
    BY <1>0, <1>1, <1>3 DEF TypeOK, Place
  <2>2. \A e \in evidence' : e.subject \in Lead /\ e.execution \in Nat
    BY <1>0, <1>2 DEF TypeOK, Review
  <2> QED
    BY <1>0, <1>1, <2>1, <2>2 DEF TypeOK
<1>6. EvidenceIsCurrent'
  BY <1>0, <1>1, <1>3, <1>4 DEF EvidenceIsCurrent
<1>7. \A m \in Lead : m # l => (Verified(m)' <=> Verified(m))
  BY <1>1, <1>4 DEF Verified
<1>8. PromotedIsVerified'
  BY <1>0, <1>1, <1>4, <1>7 DEF PromotedIsVerified, Promotable
<1>9. AttemptsCounted'
  BY <1>0, <1>1, <1>4 DEF AttemptsCounted
<1> QED
  BY <1>5, <1>6, <1>8, <1>9 DEF IInv

(* The gate passes only what is verified.                                  *)
LEMMA GateStep ==
  ASSUME IInv, NEW l \in Lead, RecordGate(l)
  PROVE  IInv'
<1>0. TypeOK /\ EvidenceIsCurrent /\ PromotedIsVerified /\ AttemptsCounted
  BY DEF IInv
<1>1. /\ at[l] = "reviewed" /\ at' = [at EXCEPT ![l] = "gated"]
      /\ gate' = [gate EXCEPT ![l] = GateOutcome(l)]
      /\ UNCHANGED <<recorded, attempt, executions, begun, revision, results, review, evidence>>
  BY DEF RecordGate, PassTo
<1>2. GateOutcome(l) \in {"passed", "failed", "inconclusive"}
  BY DEF GateOutcome
<1>3. ASSUME GateOutcome(l) = "passed", review[l].approved PROVE Verified(l)
  <2>1. ~Failed(l) /\ ~Doubts(l)
    BY <1>3 DEF GateOutcome
  <2>2. ASSUME NEW k \in Check
        PROVE  /\ results[l][k].status = "passed"
               /\ results[l][k].revision = revision[l]
               /\ results[l][k].execution = executions[l]
    <3>1. results[l][k].status \in {"none", "passed", "failed", "error"}
      BY <1>0 DEF TypeOK, Result
    <3>2. results[l][k].status = "passed"
      BY <2>1, <3>1 DEF Failed, Doubts
    <3> QED
      BY <1>0, <1>1, <3>2 DEF EvidenceIsCurrent
  <2> QED
    BY <1>0, <1>1, <1>3, <2>1, <2>2 DEF Verified, Failed, Doubts, EvidenceIsCurrent
<1>4. \A m \in Lead : /\ at'[m] = IF m = l THEN "gated" ELSE at[m]
                      /\ gate'[m] = IF m = l THEN GateOutcome(l) ELSE gate[m]
  BY <1>0, <1>1 DEF TypeOK
<1>5. TypeOK'
  <2>1. at' \in [Lead -> Place] /\ gate' \in [Lead -> {"none", "passed", "failed", "inconclusive"}]
    BY <1>0, <1>1, <1>2 DEF TypeOK, Place
  <2> QED
    BY <1>0, <1>1, <2>1 DEF TypeOK
<1>6. EvidenceIsCurrent'
  BY <1>0, <1>1, <1>4 DEF EvidenceIsCurrent
<1>7. \A m \in Lead : Verified(m)' <=> Verified(m)
  BY <1>1 DEF Verified
<1>8. PromotedIsVerified'
  BY <1>0, <1>1, <1>3, <1>4, <1>7 DEF PromotedIsVerified, Promotable
<1>9. AttemptsCounted'
  BY <1>0, <1>1, <1>4 DEF AttemptsCounted
<1> QED
  BY <1>5, <1>6, <1>8, <1>9 DEF IInv

LEMMA NextIInv == IInv /\ [Next]_vars => IInv'
<1> SUFFICES ASSUME IInv, [Next]_vars PROVE IInv'
  OBVIOUS
<1>0. TypeOK /\ EvidenceIsCurrent /\ PromotedIsVerified /\ AttemptsCounted
  BY DEF IInv
<1>1. ASSUME NEW l \in Lead, Begin(l) \/ Advance(l) \/ Raise(l) \/ Again(l) PROVE IInv'
  <2>0. attempt[l] \in 0..MaxRepair /\ MaxRepair \in Nat
    BY <1>0, Bounds DEF TypeOK
  <2>1. CASE Begin(l)
    BY <2>1, BeginStep
  <2>2. CASE StartAttempt(l)
    BY <2>2, StartStep
  <2>3. CASE Execute(l)
    BY <2>3, ExecuteStep
  <2>4. CASE StartVerifying(l)
    <3>1. at[l] = "executed" /\ results[l] = NoResults
      BY <1>0, <2>4 DEF EvidenceIsCurrent, StartVerifying, Transition
    <3>2. \A k \in Check : results[l][k].status = "none"
      BY <3>1 DEF NoResults, NoResult
    <3>3. executions[l] - begun[l] = attempt[l] + 1
      BY <1>0, <3>1 DEF AttemptsCounted
    <3>4. /\ at' \in [Lead -> Place] /\ recorded' \in [Lead -> Status]
          /\ attempt' \in [Lead -> 0..MaxRepair]
          /\ at'[l] = "verifying" /\ recorded'[l] = "verifying" /\ attempt'[l] = attempt[l]
          /\ \A m \in Lead : m # l =>
               at'[m] = at[m] /\ recorded'[m] = recorded[m] /\ attempt'[m] = attempt[m]
      BY <1>0, <2>0, <2>4 DEF TypeOK, Place, Status, StartVerifying, Transition
    <3>5. UNCHANGED <<executions, begun, revision, results, review, gate, evidence>>
      BY <2>4 DEF StartVerifying, attemptVars
    <3> QED
      BY <3>1, <3>2, <3>3, <3>4, <3>5, LoopStep
  <2>5. ASSUME NEW k \in Check, RunCheck(l, k) PROVE IInv'
    BY <2>5, CheckStep
  <2>6. CASE StartReviewing(l)
    <3>1. at[l] = "verifying"
      BY <2>6 DEF StartReviewing, Transition
    <3>2. \A k \in Check : results[l][k].status # "none" =>
            results[l][k].revision = revision[l] /\ results[l][k].execution = executions[l]
      BY <1>0, <3>1 DEF EvidenceIsCurrent
    <3>3. executions[l] - begun[l] = attempt[l] + 1
      BY <1>0, <3>1 DEF AttemptsCounted
    <3>4. /\ at' \in [Lead -> Place] /\ recorded' \in [Lead -> Status]
          /\ attempt' \in [Lead -> 0..MaxRepair]
          /\ at'[l] = "reviewing" /\ recorded'[l] = "reviewing" /\ attempt'[l] = attempt[l]
          /\ \A m \in Lead : m # l =>
               at'[m] = at[m] /\ recorded'[m] = recorded[m] /\ attempt'[m] = attempt[m]
      BY <1>0, <2>0, <2>6 DEF TypeOK, Place, Status, StartReviewing, Transition
    <3>5. UNCHANGED <<executions, begun, revision, results, review, gate, evidence>>
      BY <2>6 DEF StartReviewing, attemptVars
    <3> QED
      BY <3>1, <3>2, <3>3, <3>4, <3>5, LoopStep
  <2>7. CASE Review(l)
    BY <2>7, ReviewStep
  <2>8. CASE RecordGate(l)
    BY <2>8, GateStep
  <2>9. CASE Accept(l)
    <3>1. Verified(l)
      BY <1>0, <2>9 DEF PromotedIsVerified, Accept, Transition
    <3>2. /\ at' \in [Lead -> Place] /\ recorded' \in [Lead -> Status]
          /\ attempt' \in [Lead -> 0..MaxRepair]
          /\ at'[l] = "accepted" /\ recorded'[l] = "accepted" /\ attempt'[l] = attempt[l]
          /\ \A m \in Lead : m # l =>
               at'[m] = at[m] /\ recorded'[m] = recorded[m] /\ attempt'[m] = attempt[m]
      BY <1>0, <2>0, <2>9 DEF TypeOK, Place, Status, Accept, Transition
    <3>3. UNCHANGED <<executions, begun, revision, results, review, gate, evidence>>
      BY <2>9 DEF Accept, attemptVars
    <3> QED
      BY <3>1, <3>2, <3>3, LoopStep
  <2>10. CASE Close(l)
    <3>1. Verified(l)
      BY <1>0, <2>10 DEF PromotedIsVerified, Close, Transition
    <3>2. /\ at' \in [Lead -> Place] /\ recorded' \in [Lead -> Status]
          /\ attempt' \in [Lead -> 0..MaxRepair]
          /\ at'[l] = "closed" /\ recorded'[l] = "closed" /\ attempt'[l] = attempt[l]
          /\ \A m \in Lead : m # l =>
               at'[m] = at[m] /\ recorded'[m] = recorded[m] /\ attempt'[m] = attempt[m]
      BY <1>0, <2>0, <2>10 DEF TypeOK, Place, Status, Close, Transition
    <3>3. UNCHANGED <<executions, begun, revision, results, review, gate, evidence>>
      BY <2>10 DEF Close, attemptVars
    <3> QED
      BY <3>1, <3>2, <3>3, LoopStep
  <2>11. CASE Repair(l)
    <3>1. executions[l] - begun[l] = attempt[l] + 1
      BY <1>0, <2>11 DEF AttemptsCounted, Repair, Transition
    <3>2. /\ at' \in [Lead -> Place] /\ recorded' \in [Lead -> Status]
          /\ attempt' \in [Lead -> 0..MaxRepair]
          /\ at'[l] = "starting" /\ recorded'[l] = "repair_required" /\ attempt'[l] = attempt[l] + 1
          /\ \A m \in Lead : m # l =>
               at'[m] = at[m] /\ recorded'[m] = recorded[m] /\ attempt'[m] = attempt[m]
      BY <1>0, <2>0, <2>11 DEF TypeOK, Place, Status, Repair, Transition
    <3>3. UNCHANGED <<executions, begun, revision, results, review, gate, evidence>>
      BY <2>11 DEF Repair, attemptVars
    <3> QED
      BY <3>1, <3>2, <3>3, LoopStep
  <2>12. CASE Block(l)
    <3>1. executions[l] - begun[l] = MaxRepair + 1
      BY <1>0, <2>12 DEF AttemptsCounted, Block, Transition
    <3>2. /\ at' \in [Lead -> Place] /\ recorded' \in [Lead -> Status]
          /\ attempt' \in [Lead -> 0..MaxRepair]
          /\ at'[l] = "blocked" /\ recorded'[l] = "blocked" /\ attempt'[l] = attempt[l]
          /\ \A m \in Lead : m # l =>
               at'[m] = at[m] /\ recorded'[m] = recorded[m] /\ attempt'[m] = attempt[m]
      BY <1>0, <2>0, <2>12 DEF TypeOK, Place, Status, Block, Transition
    <3>3. UNCHANGED <<executions, begun, revision, results, review, gate, evidence>>
      BY <2>12 DEF Block, attemptVars
    <3> QED
      BY <3>1, <3>2, <3>3, LoopStep
  <2>13. CASE Raise(l)
    <3>1. at[l] \notin {"idle", "blocked"}
      BY <2>13 DEF Raise, Ended
    <3>2. /\ recorded[l] \in {"accepted", "closed"} => Verified(l)
          /\ recorded[l] # "blocked"
      BY <1>0, <3>1 DEF PromotedIsVerified, AttemptsCounted
    <3>3. /\ at' \in [Lead -> Place] /\ recorded' \in [Lead -> Status]
          /\ attempt' \in [Lead -> 0..MaxRepair]
          /\ at'[l] = "raised" /\ recorded'[l] = recorded[l] /\ attempt'[l] = attempt[l]
          /\ \A m \in Lead : m # l =>
               at'[m] = at[m] /\ recorded'[m] = recorded[m] /\ attempt'[m] = attempt[m]
      BY <1>0, <2>0, <2>13 DEF TypeOK, Place, Status, Raise
    <3>4. UNCHANGED <<executions, begun, revision, results, review, gate, evidence>>
      BY <2>13 DEF Raise, attemptVars
    <3> QED
      BY <3>1, <3>2, <3>3, <3>4, LoopStep
  <2>14. CASE Again(l)
    <3>1. /\ recorded[l] \in {"accepted", "closed"} => Verified(l)
          /\ recorded[l] = "blocked" => executions[l] - begun[l] = MaxRepair + 1
      BY <1>0 DEF PromotedIsVerified, AttemptsCounted
    <3>2. /\ at' \in [Lead -> Place] /\ recorded' \in [Lead -> Status]
          /\ attempt' \in [Lead -> 0..MaxRepair]
          /\ at'[l] = "idle" /\ recorded'[l] = recorded[l] /\ attempt'[l] = attempt[l]
          /\ \A m \in Lead : m # l =>
               at'[m] = at[m] /\ recorded'[m] = recorded[m] /\ attempt'[m] = attempt[m]
      BY <1>0, <2>0, <2>14 DEF TypeOK, Place, Status, Again
    <3>3. UNCHANGED <<executions, begun, revision, results, review, gate, evidence>>
      BY <2>14 DEF Again, attemptVars
    <3> QED
      BY <3>1, <3>2, <3>3, LoopStep
  <2> QED
    BY <1>1, <2>1, <2>2, <2>3, <2>4, <2>5, <2>6, <2>7, <2>8, <2>9, <2>10, <2>11, <2>12, <2>13, <2>14
       DEF Advance
<1>2. CASE UNCHANGED vars
  <2>1. TypeOK' /\ EvidenceIsCurrent' /\ AttemptsCounted'
    BY <1>0, <1>2 DEF vars, TypeOK, EvidenceIsCurrent, AttemptsCounted
  <2>2. PromotedIsVerified'
    BY <1>0, <1>2 DEF vars, PromotedIsVerified, Promotable, Verified
  <2> QED
    BY <2>1, <2>2 DEF IInv
<1> QED
  BY <1>1, <1>2 DEF Next

LEMMA IInvHolds == Spec => []IInv
  BY InitIInv, NextIInv, PTL DEF Spec

-----------------------------------------------------------------------------
(* Every variable keeps its type, and a package's latest revision is never *)
(* ahead of its executions.                                                *)
THEOREM TypeCorrect == Spec => []TypeOK
<1>1. IInv => TypeOK
  BY DEF IInv
<1> QED
  BY <1>1, IInvHolds, PTL

(* What ProjectLeadOrchestrator.run accepts or closes has every check      *)
(* passed and an independent approval, all of the latest execution and     *)
(* about the accepted revision, after any repairs, failures and reruns.    *)
THEOREM AcceptedAlwaysVerified == Spec => []AcceptedIsVerified
<1>1. IInv => AcceptedIsVerified
  <2> SUFFICES ASSUME IInv, NEW l \in Lead, recorded[l] \in {"accepted", "closed"}
               PROVE  /\ \A k \in Check : results[l][k] =
                           [status |-> "passed", revision |-> revision[l], execution |-> executions[l]]
                      /\ review[l].approved /\ review[l].asserts
                      /\ review[l].revision = revision[l]
                      /\ review[l].group # Builders
                      /\ review[l].execution = executions[l]
    BY DEF AcceptedIsVerified
  <2>1. Verified(l)
    BY DEF IInv, PromotedIsVerified
  <2>2. ASSUME NEW k \in Check
        PROVE  results[l][k] = [status |-> "passed", revision |-> revision[l], execution |-> executions[l]]
    <3>1. results[l][k] \in Result
      BY DEF IInv, TypeOK
    <3> QED
      BY <2>1, <3>1 DEF Verified, Result
  <2> QED
    BY <2>1, <2>2 DEF Verified
<1> QED
  BY <1>1, IInvHolds, PTL

(* A run executes once and then once per repair, never beyond its budget,  *)
(* and blocks a package only when the budget is spent.                     *)
THEOREM BudgetAlwaysUsed == Spec => []BudgetIsUsed
<1>1. IInv => BudgetIsUsed
  BY DEF IInv, AttemptsCounted, BudgetIsUsed
<1> QED
  BY <1>1, IInvHolds, PTL

=============================================================================
