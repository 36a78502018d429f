------------------------ MODULE ObservationLifecycle ------------------------
(***************************************************************************)
(* The observations of one traced prompt, from its first turn to the end   *)
(* of its root: the handlers of turns, generations and tools, and the part *)
(* of finalizePrompt (src/agent-lifecycle.ts) that ends what they left     *)
(* open.                                                                   *)
(*                                                                         *)
(* Events are macrotasks: they come when no promise continuation is due.   *)
(* The runtime may answer at any time, and the continuations that are due  *)
(* together run in any order.                                              *)
(***************************************************************************)
EXTENDS TurnObservations, ToolObservations

VARIABLES
  given,         (* the boundary gave a reason for the abandonment         *)
  saysAbandoned, (* the constant abandoned of finalizePrompt               *)
  left           (* the turns finalizePrompt has still to visit            *)

finalVars == <<given, saysAbandoned, left>>
promptVars == <<scopeVars, turnVars, toolVars, finalVars>>
vars == <<promptVars, switched>>

TypeOK ==
  /\ ScopeTypeOK /\ TurnTypeOK /\ ToolTypeOK
  /\ given \in BOOLEAN /\ saysAbandoned \in BOOLEAN
  /\ left \in Seq(Turns)
  /\ switched \in 0..MaxSwitches

Init ==
  /\ ScopeInit /\ TurnInit /\ ToolInit
  /\ given = FALSE /\ saysAbandoned = FALSE
  /\ left = <<>>
  /\ switched = 0

-----------------------------------------------------------------------------
(* finalizePrompt                                                          *)

HadPendingWork == \/ \E t \in activeTools : ~HasCompletion(t)
                  \/ \E t \in Elements(activeTurns) : t \notin ended

(* The loop over the turns reaches ts, up to its next await. *)
VisitTurns(ts, marks, cut) ==
  /\ stage' = "turns" /\ left' = ts
  /\ IF ts # <<>> THEN VisitTurn(Prompt, Head(ts), marks, cut)
     ELSE /\ ended' = ended \cup marks
          /\ abandoned' = abandoned \cup cut
          /\ LeaveLoop(Prompt)
          /\ UNCHANGED finish

Finalize(r) ==
  /\ Live
  /\ given' = r
  /\ saysAbandoned' = (r \/ blamed \/ HadPendingWork)
  /\ IF activeTools = {}
     THEN /\ VisitTurns(activeTurns, {}, {})
          /\ UNCHANGED <<line, start, toolVars>>
     ELSE /\ stage' = "tools" /\ left' = <<>>
          /\ IF UnfinishedTools # {} THEN AbandonTool
             ELSE UNCHANGED <<line, start, span, finish, ended, abandoned, toolVars>>
          /\ UNCHANGED visiting
  /\ UNCHANGED <<span, activeTurns, completed, messageEnded, order, turnOf, failing,
                 closing, blamed>>

(* A turn_end that can go on to a further generation does so before the    *)
(* finalizer gets there: it was the first to wait for the same generation, *)
(* or waits for one whose answer came at least three microtasks before.    *)
TurnEndsFirst == \A t \in Turns : ~GoesOn(t)

FinalizerToolsDue == stage = "tools" /\ ToolVisited /\ TurnEndsFirst

FinalizerTools ==
  /\ FinalizerToolsDue
  /\ IF UnfinishedTools # {}
     THEN AbandonTool /\ UNCHANGED <<stage, left, visiting>>
     ELSE /\ activeTools' = {} /\ resultSeen' = {} /\ awaitedTool' = None
          /\ VisitTurns(activeTurns, {}, {})
          /\ UNCHANGED <<line, start, span>>
  /\ UNCHANGED <<activeTurns, completed, messageEnded, order, turnOf, failing,
                 closing, blamed, given, saysAbandoned>>

FinalizerTurnDue ==
  /\ stage = "turns" /\ left # <<>> /\ Visited(Prompt)
  /\ TurnEndsFirst
  /\ Unfinished(Head(left)) # {} \/ Started(Head(left))

(* The turns from the next one on that is still in the map. *)
NextTurns ==
  LET rest == Tail(left)
      k == SelectInSeq(rest, LAMBDA u : u \in Elements(activeTurns)) IN
  IF k = 0 THEN <<>> ELSE SubSeq(rest, k, Len(rest))

(* slip: a turn that has ended, but not closed, is ended once more *)
LeaveTurnEvery(t) ==
  /\ VisitTurns(NextTurns, {t}, {t} \ ended)
  /\ EndSpan(t)
  /\ order' = [order EXCEPT ![t] = <<>>]

(* A turn whose turn_end came is left to it; another one ends here. *)
LeaveTurn(t) ==
  IF t \in ended THEN VisitTurns(NextTurns, {}, {}) /\ UNCHANGED <<span, order>>
  ELSE /\ VisitTurns(NextTurns, {t}, {t})
       /\ EndSpan(t)
       /\ order' = [order EXCEPT ![t] = <<>>]

FinalizerTurn ==
  /\ FinalizerTurnDue
  /\ IF Unfinished(Head(left)) # {}
     THEN /\ Abandon(Prompt, Head(left), {}, {})
          /\ UNCHANGED <<stage, left, span, order>>
     ELSE LeaveTurn(Head(left))
  /\ UNCHANGED <<line, start, activeTurns, completed, messageEnded, turnOf, failing,
                 closing, blamed, toolVars, given, saysAbandoned>>

FinalizerScoresDue == stage = "turns" /\ left = <<>>

(* The maps are cleared.  The scores ask for the runtime.  There are none, *)
(* and the root ends at once, if the configuration that the boundary       *)
(* brought does not trace: the cached one, or an older one that a start or *)
(* a refresh has kept while it waited.                                     *)
FinalizerScores ==
  /\ FinalizerScoresDue
  /\ activeTurns' = <<>> /\ completed' = {} /\ messageEnded' = {}
  /\ \/ stage' = "scores" /\ line' = Append(line, Prompt)
     \/ switched > 0 /\ stage' = "done" /\ UNCHANGED line
  /\ UNCHANGED <<start, span, finish, ended, abandoned, order, turnOf,
                 failing, closing, visiting, blamed, toolVars, finalVars>>

(* The scores are sent or given up; the root ends in the same step. *)
RootEnds ==
  /\ stage = "scores" /\ Answered(Prompt)
  /\ stage' = "done"
  /\ UNCHANGED <<start, span, finish, ended, abandoned, turnVars, toolVars, finalVars>>

-----------------------------------------------------------------------------

(* The runtime answers every three microtasks at most; by then the ends of *)
(* generations and tools that the answer before made due are through.      *)
EndsThrough ==
  /\ \A g \in Generations : ~FailureDue(g) /\ ~FinishDue(g)
  /\ \A t \in Tools : ~ToolFinishDue(t)

Quiet ==
  /\ EndsThrough
  /\ \A t \in Turns : ~TurnEndDue(t)
  /\ ~FinalizerToolsDue /\ ~FinalizerTurnDue /\ ~FinalizerScoresDue

TurnEvent ==
  /\ \/ \E t \in Turns : TurnStart(t) \/ TurnEndUntracked(t) \/ TurnEnd(t)
     \/ \E t \in Turns, g \in Generations :
          \/ BeforeProviderRequest(t, g) \/ MessageEvent(t, g)
          \/ MessageFails(t, g) \/ MessageEnd(t, g)
  /\ UNCHANGED <<toolVars, finalVars>>

ToolsEvent ==
  /\ \E t \in Tools : ToolEvent(t) \/ ToolResult(t) \/ ToolExecutionEnd(t)
  /\ UNCHANGED <<turnVars, finalVars>>

(* The runtime answers whoever is first in line. *)
RuntimeAnswers ==
  \/ /\ \/ \E t \in Turns : TurnSpanStarts(t)
        \/ \E g \in Generations : GenerationStarts(g)
     /\ UNCHANGED <<toolVars, finalVars>>
  \/ /\ \E t \in Tools : ToolSpanStarts(t) \/ ToolScored(t)
     /\ UNCHANGED <<turnVars, finalVars>>
  \/ RootEnds

Continuation ==
  \/ /\ \/ \E g \in Generations : FailureResumes(g) \/ GenerationFinishes(g)
        \/ \E t \in Turns : TurnEndContinues(t)
     /\ UNCHANGED <<toolVars, finalVars>>
  \/ /\ \E t \in Tools : ToolFinishes(t)
     /\ UNCHANGED <<turnVars, finalVars>>
  \/ FinalizerTools \/ FinalizerTurn \/ FinalizerScores

(* Nothing is left to happen: the names for requests may be used up. *)
Settled == stage = "done" /\ line = <<>> /\ Quiet /\ UNCHANGED vars

(* A turn_end is under way. *)
Closing == \E t \in Turns : closing[t] \in {"abandoning", "starting"}

(* A change that comes when no handler of the prompt will read the         *)
(* configuration any more makes no difference, and is left out.            *)
ConfigChange ==
  /\ Quiet /\ (stage \in {"open", "tools"} \/ Closing)
  /\ SwitchTracing
  /\ UNCHANGED promptVars

PromptStep ==
  \/ Quiet /\ (TurnEvent \/ ToolsEvent \/ \E r \in BOOLEAN : Finalize(r))
  \/ EndsThrough /\ RuntimeAnswers
  \/ Continuation

Next ==
  \/ PromptStep /\ UNCHANGED switched
  \/ ConfigChange
  \/ Settled

Spec == Init /\ [][Next]_vars

-----------------------------------------------------------------------------

(* Every observation is ended once: never twice, whoever gets to it - its  *)
(* own event, the end of its turn, or the finalization of its prompt - and *)
(* when the root has ended and no turn_end is under way, none is left open,*)
(* but turns that turn_end has forgotten, after tracing was switched off.  *)
EndedOnce ==
  /\ \A c \in Children : span[c] # "twice"
  /\ stage = "done" /\ ~Closing =>
       \A c \in Children : span[c] = "open" =>
                             c \in Turns /\ closing[c] = "done" /\ switched > 0

(* A turn's span ends after those of its generations.                      *)
TurnsCloseOver ==
  \A g \in Generations : span[g] = "open" => turnOf[g] = None \/ span[turnOf[g]] # "ended"

(* A generation whose answer is on its way is never abandoned: an end that *)
(* was under way stays the end it reports.                                 *)
AnswersKept ==
  [][\A g \in Generations : finish[g] # "none" => (g \in abandoned' <=> g \in abandoned)]_vars

(* The root reports an abandonment exactly when something was abandoned or *)
(* the boundary gave a reason, although the prompt decides what it reports *)
(* before it has visited anything.                                         *)
AbandonmentReported ==
  stage \in {"scores", "done"} => (saysAbandoned <=> given \/ abandoned # {})

(* docs/architecture.md:37: settlement "closes unfinished child            *)
(* observations before the parent".  The code does otherwise: a turn_end   *)
(* that finds tracing switched off forgets its turn without ending the     *)
(* span (see CloseTurn), and a finalization does not wait for the turn_end *)
(* of a turn that is marked as ended (see LeaveTurn).                      *)
ChildrenFirst == stage = "done" => \A c \in Children : span[c] # "open"

(* No handler waits for another one in a circle: once every request for    *)
(* the runtime is answered and no continuation is due, the finalization,   *)
(* every turn_end and every end of a generation or a tool are through.     *)
NobodyLeftWaiting ==
  line = <<>> /\ Quiet =>
    /\ stage \in {"open", "done"} /\ ~Closing
    /\ \A c \in Generations \cup Tools : finish[c] \in {"none", "done"}

-----------------------------------------------------------------------------
(* The abstract promise of ObservationTree.                                *)
RootState == IF stage # "done" THEN "open" ELSE IF saysAbandoned THEN "cut" ELSE "clean"

Tree == INSTANCE ObservationTree WITH
          Requests <- Generations, NoParent <- None,
          root <- RootState, state <- span, parent <- turnOf, lost <- abandoned

(* The observations of a prompt form a tree: whichever handler, abandonment*)
(* or late answer of the runtime gets to one of them, it is opened once    *)
(* under an open parent, ended once, and a turn only after its requests    *)
(* (src/turn-lifecycle.ts, generation-lifecycle.ts, tool-lifecycle.ts).    *)
FormsTree == Tree!Spec
=============================================================================
