--------------------------- MODULE MCProjectState ---------------------------
(* One statement of bootstrap for each table and two events; a decision    *)
(* asked for, made and handed on, in the user's words or in others.        *)
EXTENDS ProjectState

MCStatements ==
  <<Statement(Schema, None, None), Statement("project", None, "active"),
    Statement("entities", "package", "in_progress"),
    Statement("relationships", <<"package", "belongs-to", "bolt">>, None),
    Statement("decisions", <<"decision", 0>>, "founding"),
    Statement("events", <<"event", 0>>, "created")>>

Message(kind, sender, recipient, payload) ==
  [conversation |-> "c", kind |-> kind, sender |-> sender, recipient |-> recipient,
   payload |-> payload]
Chosen(words) == [selectedOption |-> "a", verbatimResponse |-> words]
MCMessages ==
  {Message("user_decision", "user", "liaison", Chosen("yes"))}
  \cup {Message("decision_submission", "liaison", "project_lead", Chosen(w)) : w \in {"yes", "no"}}
=============================================================================
