---------------------------- MODULE MCScheduler ----------------------------
(* Instances of Scheduler for TLC: three packages over two conflict        *)
(* domains, a limited quota dimension and one without a limit, every       *)
(* combination of candidate shapes, status, revision and waiting time.     *)
EXTENDS Scheduler

CONSTANTS Waits   \* waiting times, in seconds, the snapshot is drawn from

Shape(claims, costs, deps, class, priority) ==
  [claims |-> claims, costs |-> costs, deps |-> deps, rev |-> 1,
   class |-> class, userPriority |-> priority]

MCLimit == [d \in {"runs"} |-> 2]
OnA(access) == [d \in {"a"} |-> access]
(* Readers and an exclusive holder of one domain, a writer of both that    *)
(* depends on package 1, and work that names a dimension without a limit.  *)
MCShapes == {
  Shape(OnA("read"), [d \in {"runs"} |-> 1], {}, 2, 0),
  Shape(OnA("read"), [d \in {"runs"} |-> 2], {}, 0, 0),
  Shape(OnA("exclusive"), [d \in {"runs"} |-> 1], {}, 1, 1),
  Shape([d \in {"a", "b"} |-> "write"], [d \in {"runs"} |-> 1], {1}, 6, 2),
  Shape([d \in {"b"} |-> "read"], [d \in {"runs", "gpu"} |-> 1], {}, 2, 0) }

(* Packages that are neither queued nor reserved have no say in the call:  *)
(* one shape stands for all.                                               *)
MCInit ==
  /\ Start(Waits)
  /\ \A p \in Package : status[p] \in {"idle", "done"} =>
       cand[p] = CHOOSE c \in Shapes : TRUE
MCSpec == MCInit /\ [][Next]_vars
=============================================================================
