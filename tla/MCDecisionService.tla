-------------------------- MODULE MCDecisionService --------------------------
(* An instance of DecisionService for TLC: two requests of one project and *)
(* a delegation of another.                                                *)
EXTENDS DecisionService

MCProjectOf == ("r1" :> "p1") @@ ("r2" :> "p1") @@ ("d1" :> "p2")
MCOffered == [r \in {"r1", "r2"} |-> {"release", "stop"}]
=============================================================================
