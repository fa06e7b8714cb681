--------------------------- MODULE MCReservations ---------------------------
(* Instances of Reservations for TLC.                                      *)
EXTENDS Reservations

Shape(claims, costs, deps, rev, class, priority) ==
  [claims |-> claims, costs |-> costs, deps |-> deps, rev |-> rev,
   class |-> class, userPriority |-> priority]

OnA(access) == [d \in {"a"} |-> access]
Runs(n) == [d \in {"runs"} |-> n]
MCLimit == [d \in {"runs"} |-> 2]

(* A reader and a writer of one domain, a package that needs the whole     *)
(* quota, and one that waits for package 1.                                *)
MCShapes == {
  Shape(OnA("read"), Runs(1), {}, 1, 0, 0),
  Shape(OnA("write"), Runs(1), {}, 1, 2, 0),
  Shape([d \in {"b"} |-> "read"], Runs(2), {}, 1, 1, 0),
  Shape([d \in {"b"} |-> "read"], Runs(1), {1}, 1, 3, 0) }

(* Two kinds of work that exclude each other: a normal package and a       *)
(* critical-path one the user ranks higher.                                *)
MCShapesRanked == {
  Shape(OnA("write"), Runs(1), {}, 1, 6, 0),
  Shape(OnA("write"), Runs(1), {}, 1, 1, 1) }

(* The Project Lead submits no work while a plan is outstanding, and never *)
(* withdraws or revises: no plan ever becomes stale.                       *)
Quiet == holding = {}
CalmNext ==
  \/ Quiet /\ \E p \in Package : (\E c \in Shapes : Submit(p, c)) \/ Reopen(p) \/ Complete(p)
  \/ Tick
  \/ Plan
CalmSpec ==
  /\ Init /\ [][CalmNext]_vars
  /\ WF_vars(Tick)
  /\ \A s \in Planner : WF_vars(MakePlan(s)) /\ WF_vars(Commit(s))
  /\ \A p \in Package : SF_vars(Quiet /\ Complete(p))
=============================================================================
