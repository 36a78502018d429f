-------------------------- MODULE ToolObservations --------------------------
(***************************************************************************)
(* src/tool-lifecycle.ts: the tool calls of a prompt.  A tool's span ends  *)
(* with tool_execution_end, or with the prompt.                            *)
(***************************************************************************)
EXTENDS PromptScope

VARIABLES
  activeTools,  (* the keys of the map activeTools                         *)
  resultSeen,   (* the tools whose tool_result came                        *)
  awaitedTool   (* the tool that abandon waits for                         *)

toolVars == <<activeTools, resultSeen, awaitedTool>>

ToolTypeOK ==
  /\ activeTools \subseteq Tools
  /\ resultSeen \subseteq Tools
  /\ awaitedTool \in Tools \cup {None}

ToolInit ==
  /\ activeTools = {}
  /\ resultSeen = {}
  /\ awaitedTool = None

(* tool_call, tool_execution_start and tool_execution_update *)
ToolEvent(t) ==
  /\ Live
  /\ activeTools' = activeTools \cup {t}
  /\ IF Traces /\ t \notin ended THEN EnsureAsked(t) ELSE UNCHANGED <<line, start>>
  /\ UNCHANGED <<stage, span, finish, ended, abandoned, resultSeen, awaitedTool>>

ToolResult(t) ==
  /\ Live
  /\ activeTools' = activeTools \cup {t}
  /\ resultSeen' = resultSeen \cup {t}
  /\ UNCHANGED <<scopeVars, awaitedTool>>

(* finishTool, up to its first await.  It asks for a span even to end it;  *)
(* without tracing it does not wait for one either.                        *)
FinishTool(t) ==
  IF Traces
  THEN finish' = [finish EXCEPT ![t] = "waiting"] /\ EnsureAsked(t)
  ELSE finish' = [finish EXCEPT ![t] = "unasked"] /\ UNCHANGED <<line, start>>

ToolExecutionEnd(t) ==
  /\ Live /\ finish[t] = "none"
  /\ activeTools' = activeTools \cup {t}
  /\ FinishTool(t)
  /\ UNCHANGED <<stage, span, ended, abandoned, resultSeen, awaitedTool>>

ToolSpanStarts(t) ==
  /\ StartSettles(t, t \in activeTools \ ended)
  /\ UNCHANGED <<stage, finish, ended, abandoned, toolVars>>

ToolFinishDue(t) == finish[t] = "unasked" \/ (finish[t] = "waiting" /\ Started(t))

(* The span ends; the score of a failed tool, if there is a span, waits for*)
(* the runtime again.  A tool that had to be given up has failed.          *)
ToolFinishes(t) ==
  /\ ToolFinishDue(t)
  /\ ended' = ended \cup {t}
  /\ EndSpan(t)
  /\ \/ /\ span[t] # "none"
        /\ finish' = [finish EXCEPT ![t] = "scoring"] /\ line' = Append(line, t)
     \/ /\ t \notin abandoned \/ span[t] = "none"
        /\ finish' = [finish EXCEPT ![t] = "done"] /\ UNCHANGED line
  /\ UNCHANGED <<stage, start, abandoned, toolVars>>

ToolScored(t) ==
  /\ finish[t] = "scoring" /\ Answered(t)
  /\ finish' = [finish EXCEPT ![t] = "done"]
  /\ UNCHANGED <<stage, start, span, ended, abandoned, toolVars>>

-----------------------------------------------------------------------------
(* abandon                                                                 *)

UnfinishedTools == {t \in activeTools : finish[t] # "done"}

ToolVisited == awaitedTool # None => finish[awaitedTool] = "done"

(* hasToolCompletion *)
HasCompletion(t) == finish[t] # "none" \/ t \in resultSeen

(* The end that abandon gives to a tool: its result, or a failure. *)
EndUnfinished(t) ==
  IF finish[t] # "none" THEN UNCHANGED <<finish, line, start, abandoned>>
  ELSE /\ FinishTool(t)
       /\ abandoned' = IF HasCompletion(t) THEN abandoned ELSE abandoned \cup {t}

(* The next tool is awaited; one that nobody ends is ended here. *)
AbandonTool ==
  \E t \in UnfinishedTools :
    /\ awaitedTool' = t
    /\ EndUnfinished(t)
    /\ UNCHANGED <<span, ended, resultSeen, activeTools>>
=============================================================================
