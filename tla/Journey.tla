------------------------------ MODULE Journey ------------------------------
(***************************************************************************)
(* What an execution promises of the work it is given (ARCH-11): a package *)
(* passes the controls one after the other, "no later phase repairs an     *)
(* omitted earlier control", a package that is refused goes no further,    *)
(* nothing is dispatched before every package is considered, and the       *)
(* status that is returned says where the packages came to.                *)
(***************************************************************************)
EXTENDS Naturals

CONSTANT Work     \* the packages of one execution

VARIABLES
  stage,     \* per package, the last control it has passed
  verdict    \* "open" until the execution returns or raises

vars == <<stage, verdict>>

Considered == {"equipped", "refused"}
Successor == [proposed |-> "authorized", authorized |-> "equipped",
              scheduled |-> "dispatched", dispatched |-> "returned", returned |-> "accepted"]

Init == stage = [p \in Work |-> "proposed"] /\ verdict = "open"

Advance(p) ==
  /\ stage[p] \in DOMAIN Successor
  /\ stage' = [stage EXCEPT ![p] = Successor[@]]

Refuse(p) ==
  /\ stage[p] \in {"proposed", "authorized"}
  /\ stage' = [stage EXCEPT ![p] = "refused"]

Schedule(S) ==
  /\ \A p \in Work : stage[p] \in Considered
  /\ \A p \in S : stage[p] = "equipped"
  /\ stage' = [p \in Work |-> IF p \in S THEN "scheduled" ELSE stage[p]]

(* The states of the packages a status may be returned for.                *)
Warrants(v) ==
  LET at(stages) == \A p \in Work : stage[p] \in stages IN
  CASE v = "not_managed" -> at({"proposed"})
    [] v = "completed"   -> at({"accepted"})
    [] v = "waiting"     -> at({"accepted", "equipped"}) /\ ~at({"accepted"})
    [] v = "failed"      -> at({"accepted", "equipped", "returned"})
    [] v \in {"blocked", "decision_required"} ->
         at({"accepted", "equipped", "returned", "refused"}) /\ \E p \in Work : stage[p] = "refused"
    [] v = "raised"      -> TRUE

Close(v) ==
  /\ Warrants(v)
  /\ verdict' = v
  /\ UNCHANGED stage

Next ==
  /\ verdict = "open"
  /\ \/ \E p \in Work : (Advance(p) \/ Refuse(p)) /\ UNCHANGED verdict
     \/ \E S \in SUBSET Work : Schedule(S) /\ UNCHANGED verdict
     \/ \E v \in {"not_managed", "completed", "waiting", "failed", "blocked",
                  "decision_required", "raised"} : Close(v)

Spec == Init /\ [][Next]_vars

=============================================================================
