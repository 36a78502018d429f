-------------------------- MODULE MCRuntimeRegistry --------------------------
(* A small instance of RuntimeRegistry: a prompt and a score of it under   *)
(* one configuration, a prompt under another one, and the three operations *)
(* that empty a runtime.                                                   *)
EXTENDS RuntimeRegistry

CONSTANTS trace1, score1, trace2, flush, reconfigure, shutdown

MCOperation == [c \in Calls |->
  CASE c \in {trace1, trace2} -> "trace"
    [] c = score1             -> "score"
    [] c = flush              -> "flush"
    [] c = reconfigure        -> "reconfigure"
    [] c = shutdown           -> "shutdown"]

MCKey == [c \in Calls |-> IF c = trace2 THEN "new" ELSE "old"]

MCTraceOf == [c \in Calls |-> IF c = score1 THEN trace1 ELSE c]
=============================================================================
