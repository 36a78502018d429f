------------------------------ MODULE RootSlot ------------------------------
(***************************************************************************)
(* What one session promises about the root observations of its prompts:   *)
(* each prompt opens at most one root, at most one root of the session is  *)
(* open at a time, and a root that ended stays ended.                      *)
(***************************************************************************)
CONSTANTS
  Prompts,  (* the prompts of one session    *)
  NoPrompt  (* no root is open; no prompt    *)

VARIABLES
  current,  (* the prompt whose root is open, or NoPrompt *)
  past      (* the prompts whose root has ended           *)

vars == <<current, past>>

Init == current = NoPrompt /\ past = {}

Open(p) ==
  /\ current = NoPrompt
  /\ p \notin past
  /\ current' = p
  /\ UNCHANGED past

End ==
  /\ current # NoPrompt
  /\ current' = NoPrompt
  /\ past' = past \cup {current}

Next == End \/ \E p \in Prompts : Open(p)

Spec == Init /\ [][Next]_vars
=============================================================================
