----------------------------- MODULE PromptScope -----------------------------
(***************************************************************************)
(* What the handlers of turns, generations and tools share while one       *)
(* traced prompt is open: the spans under its root, the requests for the   *)
(* runtime (getRuntime answers them in the order in which they were made,  *)
(* see RuntimeRegistry), and how far finalizePrompt has come.              *)
(***************************************************************************)
EXTENDS Naturals, Sequences

CONSTANTS
  Turns,        (* turn indexes                                            *)
  Generations,  (* names for the provider requests of the prompt           *)
  Tools,        (* tool call ids                                           *)
  Prompt,       (* the prompt, as one who asks for the runtime             *)
  MaxSwitches,  (* bound: how often the configuration changes              *)
  None

Children == Turns \cup Generations \cup Tools

ASSUME ScopeAssumption ==
  /\ Turns \cap Generations = {} /\ Turns \cap Tools = {}
  /\ Generations \cap Tools = {}
  /\ Prompt \notin Children /\ None \notin Children
  /\ MaxSwitches \in Nat

VARIABLES
  stage,      (* how far finalizePrompt has come                           *)
  line,       (* who waits for the runtime                                 *)
  start,      (* start[c]: the promise of c's span                         *)
  span,       (* span[c]: the observation of c; "twice" if ended again     *)
  finish,     (* finish[c]: finishPromise of a generation or a tool        *)
  ended,      (* whose flag "ended" (of a tool: "spanEnded") is set        *)
  abandoned,  (* who is ended without an end event or result of its own    *)
  switched    (* how often tracing was switched off or on                  *)

scopeVars == <<stage, line, start, span, finish, ended, abandoned>>

Stages == {"open", "tools", "turns", "scores", "done"}

ScopeTypeOK ==
  /\ stage \in Stages
  /\ line \in Seq(Children \cup {Prompt})
  /\ start \in [Children -> {"none", "asked", "settled"}]
  /\ span \in [Children -> {"none", "open", "ended", "twice"}]
  /\ finish \in [Generations \cup Tools -> {"none", "waiting", "unasked", "scoring", "done"}]
  /\ ended \subseteq Children
  /\ abandoned \subseteq Children

ScopeInit ==
  /\ stage = "open"
  /\ line = <<>>
  /\ start = [c \in Children |-> "none"]
  /\ span = [c \in Children |-> "none"]
  /\ finish = [c \in Generations \cup Tools |-> "none"]
  /\ ended = {}
  /\ abandoned = {}

(* canTrace of the configuration that getConfig returns.  The prompt began *)
(* with tracing on.                                                        *)
Traces == switched % 2 = 0

(* The cached configuration is resolved again, for an event of any session *)
(* of the extension, from a file or settings that have changed.            *)
SwitchTracing ==
  /\ switched < MaxSwitches
  /\ switched' = switched + 1

(* prompt.finalizing is not set. *)
Live == stage = "open"

(* The answer that c waits for has come, or c never asked. *)
Started(c) == start[c] # "asked"

Ask(c) ==
  /\ line' = Append(line, c)
  /\ start' = [start EXCEPT ![c] = "asked"]

(* The span's promise is made once, and joined by later events. *)
EnsureAsked(c) == IF start[c] = "none" THEN Ask(c) ELSE UNCHANGED <<line, start>>

Answered(c) == line # <<>> /\ Head(line) = c /\ line' = Tail(line)

(* The runtime answers, or fails; the span is opened if it is still wanted. *)
StartSettles(c, wanted) ==
  /\ start[c] = "asked" /\ Answered(c)
  /\ start' = [start EXCEPT ![c] = "settled"]
  /\ \/ wanted /\ span' = [span EXCEPT ![c] = "open"]
     \/ UNCHANGED span

(* span?.end(): nothing for a span that was never opened. *)
EndSpan(c) ==
  span' = [span EXCEPT ![c] = IF @ = "none" THEN "none"
                              ELSE IF @ = "open" THEN "ended" ELSE "twice"]
=============================================================================
