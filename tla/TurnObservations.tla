-------------------------- MODULE TurnObservations --------------------------
(***************************************************************************)
(* src/turn-lifecycle.ts and src/generation-lifecycle.ts: the turns of a   *)
(* prompt and the provider requests ("generations") of each turn.          *)
(*                                                                         *)
(* Handlers that only wait for a span and then update it have no step      *)
(* after the wait.  The events carry no request keys and no turn indexes,  *)
(* as those of the supported Pi do not, so they go to the latest turn; and *)
(* the events of a turn come before its turn_end.                          *)
(***************************************************************************)
EXTENDS PromptScope, SequencesExt

VARIABLES
  activeTurns,   (* the map activeTurns, in the order of insertion         *)
  completed,     (* completedTurnIndexes                                   *)
  messageEnded,  (* the active turns whose assistant message has ended     *)
  order,         (* order[t]: generations and generationOrder of turn t    *)
  turnOf,        (* turnOf[g]: the turn of generation g                    *)
  failing,       (* generations whose error is reported after their start  *)
  closing,       (* closing[t]: the await that turnEnd has reached         *)
  visiting,      (* visiting[x]: the generation that x's abandonTurn awaits*)
  blamed         (* prompt.abandonmentReason is set                        *)

turnVars == <<activeTurns, completed, messageEnded, order, turnOf, failing,
              closing, visiting, blamed>>

Elements(s) == {s[i] : i \in DOMAIN s}

TurnTypeOK ==
  /\ activeTurns \in Seq(Turns) /\ IsInjective(activeTurns)
  /\ completed \subseteq Turns
  /\ messageEnded \subseteq Turns
  /\ order \in [Turns -> Seq(Generations)]
  /\ turnOf \in [Generations -> Turns \cup {None}]
  /\ failing \subseteq Generations
  /\ closing \in [Turns -> {"none", "abandoning", "starting", "done"}]
  /\ visiting \in [Turns \cup {Prompt} -> Generations \cup {None}]
  /\ blamed \in BOOLEAN

TurnInit ==
  /\ activeTurns = <<>>
  /\ completed = {}
  /\ messageEnded = {}
  /\ order = [t \in Turns |-> <<>>]
  /\ turnOf = [g \in Generations |-> None]
  /\ failing = {}
  /\ closing = [t \in Turns |-> "none"]
  /\ visiting = [x \in Turns \cup {Prompt} |-> None]
  /\ blamed = FALSE

-----------------------------------------------------------------------------
(* Turns begin                                                             *)

(* slip: a turn_start is not recognised as a repetition *)
TurnStartRepeated(t) ==
  /\ Live /\ t \notin completed
  /\ activeTurns' = Append(activeTurns, t)
  /\ IF Traces THEN Ask(t) ELSE UNCHANGED <<line, start>>
  /\ UNCHANGED <<stage, span, finish, ended, abandoned, completed, messageEnded,
                 order, turnOf, failing, closing, visiting, blamed>>

TurnStart(t) ==
  /\ Live /\ t \notin completed \cup Elements(activeTurns)
  /\ activeTurns' = Append(activeTurns, t)
  /\ IF Traces THEN Ask(t) ELSE UNCHANGED <<line, start>>
  /\ UNCHANGED <<stage, span, finish, ended, abandoned, completed, messageEnded,
                 order, turnOf, failing, closing, visiting, blamed>>

TurnSpanStarts(t) ==
  /\ StartSettles(t, Live /\ t \in Elements(activeTurns) \ ended)
  /\ UNCHANGED <<stage, finish, ended, abandoned, turnVars>>

-----------------------------------------------------------------------------
(* Generations                                                             *)

(* Events of the latest turn, which has not seen its turn_end. *)
Observed(t) ==
  /\ Live /\ activeTurns # <<>>
  /\ t = activeTurns[Len(activeTurns)] /\ t \notin ended

InFlight(t) == {i \in DOMAIN order[t] : order[t][i] \notin ended
                                        /\ finish[order[t][i]] = "none"}
Answers(t)  == {i \in DOMAIN order[t] : order[t][i] \in ended}

NewGeneration(t, g) ==
  /\ turnOf[g] = None
  /\ turnOf' = [turnOf EXCEPT ![g] = t]
  /\ order' = [order EXCEPT ![t] = Append(@, g)]

(* A request that repeats one in flight is that request again; another one *)
(* is new.  Without tracing requests are not tracked.                      *)
BeforeProviderRequest(t, g) ==
  /\ Observed(t) /\ Traces /\ NewGeneration(t, g)
  /\ UNCHANGED <<scopeVars, activeTurns, completed, messageEnded, failing,
                 closing, visiting, blamed>>

(* A message belongs to the newest request in flight, or to one that is    *)
(* answered already; without either it opens a generation of its own.      *)
Correlate(t, g) ==
  \/ /\ InFlight(t) # {} /\ g = order[t][Max(InFlight(t))]
     /\ UNCHANGED <<turnOf, order>>
  \/ /\ InFlight(t) = {} /\ Answers(t) = {}
     /\ NewGeneration(t, g)

(* after_provider_response, message_start and message_update *)
MessageEvent(t, g) ==
  /\ Observed(t) /\ Traces /\ Correlate(t, g) /\ EnsureAsked(g)
  /\ UNCHANGED <<stage, span, finish, ended, abandoned, activeTurns, completed,
                 messageEnded, failing, closing, visiting, blamed>>

(* message_update with an error: its end follows the generation's start. *)
MessageFails(t, g) ==
  /\ Observed(t) /\ Traces /\ Correlate(t, g) /\ EnsureAsked(g)
  /\ failing' = failing \cup {g}
  /\ UNCHANGED <<stage, span, finish, ended, abandoned, activeTurns, completed,
                 messageEnded, closing, visiting, blamed>>

MessageEnd(t, g) ==
  /\ Observed(t) /\ t \notin messageEnded
  /\ messageEnded' = messageEnded \cup {t}
  /\ \/ /\ Traces /\ Correlate(t, g) /\ EnsureAsked(g)
        /\ finish' = [finish EXCEPT ![g] = "waiting"]
     \/ /\ ~Traces \/ (InFlight(t) = {} /\ Answers(t) # {})
        /\ UNCHANGED <<line, start, finish, order, turnOf>>
  /\ UNCHANGED <<stage, span, ended, abandoned, activeTurns, completed, failing,
                 closing, visiting, blamed>>

GenerationStarts(g) ==
  /\ StartSettles(g, g \notin ended /\ turnOf[g] \in Elements(activeTurns))
  /\ UNCHANGED <<stage, finish, ended, abandoned, turnVars>>

Unfinished(t) == {g \in Elements(order[t]) : g \notin ended /\ finish[g] # "done"}

FirstUnfinished(t) ==
  order[t][SelectInSeq(order[t], LAMBDA g : g \in Unfinished(t))]

(* x waits for nothing that a generation still has to do. *)
Visited(x) == visiting[x] # None => finish[visiting[x]] = "done"

(* t's turn_end can go on to a further generation.                         *)
GoesOn(t) == closing[t] = "abandoning" /\ Unfinished(t) # {} /\ Visited(t)

(* A turn_end gets to the generation before: it waits for an older one,    *)
(* whose answer came at least three microtasks before this one's.          *)
FailureDue(g) == g \in failing /\ Started(g) /\ ~GoesOn(turnOf[g])

FailureResumes(g) ==
  /\ FailureDue(g)
  /\ failing' = failing \ {g}
  /\ finish' = [finish EXCEPT ![g] = IF @ = "none" THEN "waiting" ELSE @]
  /\ UNCHANGED <<stage, line, start, span, ended, abandoned, activeTurns, completed,
                 messageEnded, order, turnOf, closing, visiting, blamed>>

(* slip: a request that was never observed to start is waited for *)
FinishDueStarted(g) == finish[g] = "waiting" /\ start[g] = "settled"

FinishDue(g) == finish[g] = "waiting" /\ Started(g)

(* The end of finishGeneration, or of abandonTurn's finish. *)
GenerationFinishes(g) ==
  /\ FinishDue(g)
  /\ finish' = [finish EXCEPT ![g] = "done"]
  /\ IF g \in abandoned \/ (g \notin ended /\ span[g] # "none")
     THEN EndSpan(g) /\ ended' = ended \cup {g}
     ELSE UNCHANGED <<span, ended>>
  /\ UNCHANGED <<stage, line, start, abandoned, turnVars>>

-----------------------------------------------------------------------------
(* abandonTurn, called by turnEnd (x is the turn) and by finalizePrompt    *)

(* slip: an answer that is on its way is not awaited *)
AbandonRudely(x, t, marks, cut) ==
  LET g == FirstUnfinished(t) IN
  /\ visiting' = [visiting EXCEPT ![x] = g]
  /\ finish' = [finish EXCEPT ![g] = "waiting"]
  /\ ended' = ended \cup marks \cup {g}
  /\ abandoned' = abandoned \cup cut \cup {g}

(* The next generation of t is awaited, and abandoned if nobody ends it.   *)
(* marks and cut are what the caller ended and abandoned before.           *)
Abandon(x, t, marks, cut) ==
  LET g == FirstUnfinished(t) IN
  /\ visiting' = [visiting EXCEPT ![x] = g]
  /\ IF finish[g] = "none"
     THEN /\ finish' = [finish EXCEPT ![g] = "waiting"]
          /\ ended' = ended \cup marks \cup {g}
          /\ abandoned' = abandoned \cup cut \cup {g}
     ELSE /\ ended' = ended \cup marks
          /\ abandoned' = abandoned \cup cut
          /\ UNCHANGED finish

(* x leaves the loop of abandonTurn. *)
LeaveLoop(x) == visiting' = [visiting EXCEPT ![x] = None]

(* The part of abandonTurn before its first await. *)
VisitTurn(x, t, marks, cut) ==
  IF Unfinished(t) # {} THEN Abandon(x, t, marks, cut)
  ELSE /\ ended' = ended \cup marks
       /\ abandoned' = abandoned \cup cut
       /\ LeaveLoop(x)
       /\ UNCHANGED finish

-----------------------------------------------------------------------------
(* Turns end                                                               *)

(* A turn that was never tracked. *)
TurnEndUntracked(t) ==
  /\ Live /\ t \notin completed \cup Elements(activeTurns)
  /\ completed' = completed \cup {t}
  /\ UNCHANGED <<scopeVars, activeTurns, messageEnded, order, turnOf, failing,
                 closing, visiting, blamed>>

(* slip: the prompt does not learn that a generation was abandoned *)
BlameNobody(t) == UNCHANGED blamed

Blame(t) == blamed' = (blamed \/ InFlight(t) # {})

TurnEnd(t) ==
  /\ Live /\ t \in Elements(activeTurns) \ ended
  /\ completed' = completed \cup {t}
  /\ Blame(t)
  /\ closing' = [closing EXCEPT ![t] = "abandoning"]
  /\ VisitTurn(t, t, {t}, {})
  /\ UNCHANGED <<stage, line, start, span, activeTurns, messageEnded, order, turnOf,
                 failing>>

(* The turn's span ends, if the configuration traces by now, and the turn  *)
(* is forgotten.                                                           *)
CloseTurn(t) ==
  /\ IF Traces THEN EndSpan(t) ELSE UNCHANGED span
  /\ closing' = [closing EXCEPT ![t] = "done"]
  /\ order' = [order EXCEPT ![t] = <<>>]
  /\ activeTurns' = RemoveFirst(activeTurns, t)
  /\ messageEnded' = messageEnded \ {t}
  /\ LeaveLoop(t)
  /\ UNCHANGED <<finish, ended, abandoned>>

AwaitSpan(t) ==
  /\ closing' = [closing EXCEPT ![t] = "starting"]
  /\ LeaveLoop(t)
  /\ UNCHANGED <<span, finish, ended, abandoned, activeTurns, order, messageEnded>>

TurnEndDue(t) == \/ closing[t] = "abandoning" /\ Visited(t)
                 \/ closing[t] = "starting" /\ Started(t)

(* slip: the turn ends without its generations *)
TurnEndHurries(t) ==
  /\ TurnEndDue(t)
  /\ IF Started(t) THEN CloseTurn(t) ELSE closing[t] = "abandoning" /\ AwaitSpan(t)
  /\ UNCHANGED <<stage, line, start, completed, turnOf, failing, blamed>>

(* Three awaits lie between the last generation and the end of the span;   *)
(* by then the ends that were due are through.                             *)
EndsPassed(t) ==
  closing[t] = "abandoning" => \A g \in Elements(order[t]) : ~FinishDue(g)

TurnEndContinues(t) ==
  /\ TurnEndDue(t)
  /\ IF closing[t] = "abandoning" /\ Unfinished(t) # {}
     THEN /\ Abandon(t, t, {}, {})
          /\ UNCHANGED <<closing, span, activeTurns, order, messageEnded>>
     ELSE /\ EndsPassed(t)
          /\ IF Started(t) THEN CloseTurn(t) ELSE AwaitSpan(t)
  /\ UNCHANGED <<stage, line, start, completed,  turnOf, failing, blamed>>
=============================================================================
