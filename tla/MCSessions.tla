----------------------------- MODULE MCSessions -----------------------------
(* A small instance of Sessions: one instance of the extension with two    *)
(* sessions, and a panel that chooses another project or switches tracing  *)
(* off.                                                                    *)
EXTENDS Sessions

CONSTANTS e1, s1, s2, p1, p2, p3, panel

MCInstance == [s \in SessionIds |-> e1]

MCSession == [p \in Prompts |-> IF p = p2 THEN s2 ELSE s1]

MCAsks == [r \in Refreshes |-> [instance |-> e1, values |-> {1, 2}]]
=============================================================================
