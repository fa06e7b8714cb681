----------------------------- MODULE Governance -----------------------------
(***************************************************************************)
(* What governance promises (milestones 7 and 11): what a person has       *)
(* answered to a request stays what was answered, authority that was       *)
(* revoked stays revoked in the words of its first revocation, and an      *)
(* organization never uses more of a quota than its maximum.               *)
(***************************************************************************)
EXTENDS Integers

CONSTANTS
  Request,      \* decision requests
  Delegation,   \* standing delegations
  Word,         \* what people may answer or say
  Maximum,      \* of the quota
  Null          \* nothing said yet

VARIABLES
  answer,       \* per request
  revocation,   \* per delegation
  used          \* of the quota

vars == <<answer, revocation, used>>

Init ==
  /\ answer = [r \in Request |-> Null]
  /\ revocation = [d \in Delegation |-> Null]
  /\ used = 0

Decide(r, w) ==
  /\ answer[r] = Null
  /\ answer' = [answer EXCEPT ![r] = w]
  /\ UNCHANGED <<revocation, used>>

Revoke(d, w) ==
  /\ revocation[d] = Null
  /\ revocation' = [revocation EXCEPT ![d] = w]
  /\ UNCHANGED <<answer, used>>

Consume(n) ==
  /\ used + n <= Maximum
  /\ used' = used + n
  /\ UNCHANGED <<answer, revocation>>

Next ==
  \/ \E r \in Request, w \in Word : Decide(r, w)
  \/ \E d \in Delegation, w \in Word : Revoke(d, w)
  \/ \E n \in 1..Maximum : Consume(n)

Spec == Init /\ [][Next]_vars

=============================================================================
