------------------------------ MODULE MCIssues ------------------------------
(* Issues on small instances. *)
EXTENDS Issues

CONSTANTS a, b

Was(title, state, ids) ==
    [title |-> title, state |-> state, release |-> 0, ids |-> ids, told |-> {},
     answered |-> IF state = "OPEN" THEN {} ELSE ids]

\* No issue yet; or an old closed issue, a newer one that was answered, and an issue of one
\* finding as they once were opened.
MCHistory == {<<>>, <<Was(1, "CLOSED", {a, b}), Was(0, "OPEN", {a}), Was(1, "CLOSED", {a})>>}
=============================================================================
