---------------------------- MODULE MCAgentLoop ----------------------------
(* Small instances of AgentLoop for TLC. *)
EXTENDS AgentLoop

Plain ==
    [node |-> NoNode, tag |-> "form", classes |-> <<>>, href |-> FALSE,
     text |-> "", inside |-> FALSE,
     attr |-> [k \in {"id", "name", "data-testid", "role"} |-> Absent]]

Named(name) == [[Plain EXCEPT !.tag = "input"] EXCEPT !.attr["name"] = name]

\* A form, a field in it, fields that are not, two links and a button.
AllShapes ==
    {Plain,
     [Named("user") EXCEPT !.inside = TRUE],
     Named("user "),
     [Plain EXCEPT !.tag = "a", !.href = TRUE, !.text = "go", !.classes = <<"x">>],
     [Plain EXCEPT !.tag = "a", !.text = "go on", !.attr["id"] = "x"],
     [Plain EXCEPT !.tag = "button", !.text = "go on", !.classes = <<"y", "x">>]}

NewLink ==
    {[Plain EXCEPT !.tag = "a", !.href = TRUE, !.text = "go", !.attr["id"] = "y"]}

Values == {"user", "user ", "x", "y"}

ReadBack == [v \in Values |-> IF v = "user " THEN "user" ELSE v]

Containing == [t \in {"go", "go on"} |-> {"go on"} \cup {t}]
============================================================================
