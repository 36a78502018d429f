------------------------- MODULE MCPromptLifecycle -------------------------
(* A small instance of PromptLifecycle.                                    *)
EXTENDS PromptLifecycle, TLC

CONSTANTS a1, a2, b1, run1, settled, refresh, shutdown

(* a1 and a2 announce the same prompt, b1 another one. *)
MCEvent == [h \in Handlers |->
  CASE h \in {a1, a2, b1} -> "before_agent_start"
    [] h = run1           -> "agent_start"
    [] h = settled        -> "agent_settled"
    [] h = refresh        -> "session_start"
    [] h = shutdown       -> "session_shutdown"]

MCSignature == [h \in Handlers |->
  CASE h \in {a1, a2} -> "a"
    [] h = b1         -> "b"
    [] OTHER          -> "unannounced"]

(* Nothing tells a1 and a2 apart. *)
MCSymmetry == Permutations({a1, a2})
=============================================================================
