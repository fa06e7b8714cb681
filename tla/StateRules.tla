----------------------------- MODULE StateRules -----------------------------
(***************************************************************************)
(* The canonical database of src/src/v3_aidlc/state_kernel.py, and what    *)
(* each statement of StateKernel does to it.                               *)
(*                                                                         *)
(*   db  [project, entities, relationships, decisions, events]             *)
(*       project NoSchema, NoProject, or its status; entities a function   *)
(*       from identifiers to statuses; the others sequences of rows        *)
(*       [id, data] in the order of their insertion, by which those of     *)
(*       relationships and events are read back.  A relationship is its    *)
(*       own identifier.                                                   *)
(*   statement  [table, id, data]                                          *)
(***************************************************************************)
EXTENDS Sequences, SequencesExt

NoSchema == "no schema"
NoProject == "no project"
Blank == [project |-> NoSchema, entities |-> <<>>, relationships |-> <<>>,
          decisions |-> <<>>, events |-> <<>>]

Schema == "schema"
Statement(table, id, data) == [table |-> table, id |-> id, data |-> data]

(* Mutation: INSERT OR REPLACE, which inserts the row again, at the end.   *)
InsertOrReplace(rows, row) == Append(SelectSeq(rows, LAMBDA r : r.id # row.id), row)
(* Mutation: nothing makes the identifier unique.                          *)
InsertAlways(rows, row) == Append(rows, row)
(* INSERT OR IGNORE under a UNIQUE identifier: the first row stays.        *)
InsertOrIgnore(rows, row) ==
  IF \E n \in DOMAIN rows : rows[n].id = row.id THEN rows ELSE Append(rows, row)

(* The statement runs: its tables exist, and its project if it refers to   *)
(* one (OR IGNORE does not excuse a foreign key).                          *)
Executable(db, s) ==
  CASE s.table = Schema    -> TRUE
    [] s.table = "project" -> db.project # NoSchema
    [] OTHER               -> db.project \notin {NoSchema, NoProject}

Execute(db, s) ==
  CASE s.table = Schema ->
         IF db.project = NoSchema THEN [db EXCEPT !.project = NoProject] ELSE db
    [] s.table = "project" -> [db EXCEPT !.project = s.data]
    [] s.table = "entities" ->
         [db EXCEPT !.entities =
            [id \in DOMAIN @ \cup {s.id} |-> IF id = s.id THEN s.data ELSE @[id]]]
    [] OTHER -> [db EXCEPT ![s.table] = InsertOrIgnore(@, [id |-> s.id, data |-> s.data])]

(* The parts of a snapshot, in the order of the SELECTs that read them.    *)
Parts == <<"project", "entities", "relationships", "decisions", "events">>

=============================================================================
