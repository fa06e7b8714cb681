----------------------------- MODULE MCEventLog -----------------------------
(* Instances of EventLog for TLC.                                          *)
EXTENDS EventLog, TLC

Draft(id, key, cause, content) ==
  [id |-> id, key |-> key, project |-> "p", cause |-> cause, content |-> content]
Foreign(d) == [d EXCEPT !.project = "q"]

(* A session of three events, the third caused by the second; one that     *)
(* uses a key of the first again with other data; one of another project.  *)
MCScript == "s1" :> <<Draft("e1", "k1", NoCause, "started"),
                      Draft("e2", "k2", "e1", "dispatched"),
                      Draft("e3", "k3", "e2", "completed")>>
         @@ "s2" :> <<Draft("f1", "j1", NoCause, "started"),
                      Draft("f2", "k2", "f1", "completed")>>
         @@ "s3" :> <<Foreign(Draft("g1", "l1", NoCause, "started"))>>
=============================================================================
