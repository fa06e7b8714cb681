-------------------------- MODULE WorkPackageLife --------------------------
(***************************************************************************)
(* What the lifecycle of work packages promises (packages/domain): a       *)
(* package starts planned and only ever moves along the table of allowed   *)
(* transitions, one recorded transition at a time.                         *)
(***************************************************************************)
EXTENDS Sequences, WorkPackageRules

CONSTANT Package

VARIABLES
  status,   \* per package
  moves     \* per package, the statuses it has moved to, in order

lifeVars == <<status, moves>>

Init ==
  /\ status = [p \in Package |-> "planned"]
  /\ moves = [p \in Package |-> <<>>]

Move(p, to) ==
  /\ to \in Allowed(status[p])
  /\ status' = [status EXCEPT ![p] = to]
  /\ moves' = [moves EXCEPT ![p] = Append(@, to)]

Next == \E p \in Package : \E to \in Status : Move(p, to)

Spec == Init /\ [][Next]_lifeVars

=============================================================================
