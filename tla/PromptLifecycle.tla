-------------------------- MODULE PromptLifecycle --------------------------
(***************************************************************************)
(* One session's prompts: src/agent-lifecycle.ts with the session events   *)
(* of src/index.ts that finalize a prompt.  A handler is an async function *)
(* that runs up to its next await in one step, so handlers of concurrent   *)
(* events interleave at their awaits and nowhere else.                     *)
(*                                                                         *)
(* A continuation whose promise has settled runs before the event loop     *)
(* takes the next answer of a child process.  Quiet says that no such      *)
(* continuation is left, and guards the answer of git.  An answer of       *)
(* getRuntime may come at any time: getRuntime settles without I/O unless  *)
(* a flush holds the runtime.  Those who wait for one start resume in the  *)
(* order in which they came, before any later event and before the next    *)
(* step of a finalization.                                                 *)
(*                                                                         *)
(* Events for which the configuration keeps no record at all (tracing and  *)
(* raw traces off, or an unpersisted session that is skipped) return at    *)
(* once and are left out.  Turns, generations and tools appear only as     *)
(* work that a finalization may have to abandon.                           *)
(***************************************************************************)
EXTENDS Naturals, FiniteSets

CONSTANTS
  Handlers,    (* the handler calls of one session                         *)
  Event,       (* Event[h]: the event h handles                            *)
  Signature,   (* Signature[h]: what a before_agent_start announces        *)
  Tracing,     (* handlers whose configuration traces, not only records    *)
  OtherLease,  (* does another session hold a lease on the runtime?        *)
  None         (* no prompt, no pending start, nothing awaited             *)

Events == {"before_agent_start", "agent_start", "agent_settled",
           "session_start", "session_shutdown"}

(* session_start also stands for a configuration refresh, which finalizes  *)
(* the prompt of the session in the same way.                              *)
ASSUME PromptAssumption ==
  /\ Event \in [Handlers -> Events]
  /\ Tracing \subseteq Handlers
  /\ OtherLease \in BOOLEAN
  /\ None \notin Handlers
  /\ \A h \in Handlers : Signature[h] # None

(* A handler call creates at most one prompt, which is named after it.     *)
Prompts == {h \in Handlers : Event[h] \in {"before_agent_start", "agent_start"}}

VARIABLES
  (* the session state *)
  promptState,     (* the session's prompt                                 *)
  startPromise,    (* the handler whose start is pending                   *)
  startSignature,  (* what the pending start announces                     *)
  registered,      (* does the session owner still hold the session?       *)
  lastFinalized,   (* the trace that /langfuse-score would target          *)
  (* the prompts *)
  finalization,    (* finalization[p]: how far p's finalization is         *)
  spanPromise,     (* spanPromise[p]: agent_start's wait for p's span      *)
  root,            (* root[p]: p's root observation                        *)
  scores,          (* scores[p]: how often p's scores were sent            *)
  (* the handlers *)
  pc,              (* pc[h]: the await that h has reached                  *)
  awaits,          (* awaits[h]: the start or the prompt that h waits for  *)
  sameStart,       (* sameStart[h]: does the awaited start announce the same? *)
  ahead,           (* ahead[h]: who waited for a start before h did        *)
  (* what the raw trace shows *)
  sessionEnded,    (* was session_end recorded?                            *)
  publishedLate,   (* prompts published after session_end                  *)
  recordedLate     (* prompts whose start was recorded after session_end   *)

sessionVars == <<promptState, startPromise, startSignature, registered,
                 lastFinalized>>
promptVars  == <<finalization, spanPromise, root, scores>>
handlerVars == <<pc, awaits, sameStart, ahead>>
rawVars     == <<sessionEnded, publishedLate, recordedLate>>
vars        == <<sessionVars, promptVars, handlerVars, rawVars>>

(* The awaits of a start: for the finalization of the prompt it replaces,  *)
(* for one tick when there is none, for git, and for the runtime.          *)
Starting == {"replacing", "publishing", "source", "runtime"}

(* The awaits for one start or one prompt. *)
Awaiting == {"queued", "pending", "replacing", "opening", "joining", "flushing"}

PCs == Starting \cup
       {"idle", "queued", "pending", "tail", "opening", "joining",
        "flushing", "closing", "done"}

TypeOK ==
  /\ promptState \in Prompts \cup {None}
  /\ startPromise \in Prompts \cup {None}
  /\ startSignature = IF startPromise = None THEN None ELSE Signature[startPromise]
  /\ registered \in BOOLEAN
  /\ lastFinalized \in Prompts \cup {None}
  /\ finalization \in [Prompts -> {"none", "abandoning", "scoring", "ended"}]
  /\ spanPromise \in [Prompts -> {"none", "pending", "done"}]
  /\ root \in [Prompts -> {"none", "open", "ended"}]
  /\ scores \in [Prompts -> Nat]
  /\ pc \in [Handlers -> PCs]
  /\ awaits \in [Handlers -> Prompts \cup {None}]
  /\ sameStart \in [Handlers -> BOOLEAN]
  /\ ahead \in [Handlers -> SUBSET Handlers]
  /\ \A h \in Handlers :
       /\ pc[h] \in Awaiting => awaits[h] # None
       /\ pc[h] \in Starting \cup {"queued", "pending"} => h \in Prompts
  /\ sessionEnded \in BOOLEAN
  /\ publishedLate \subseteq Prompts
  /\ recordedLate \subseteq Prompts

Init ==
  /\ promptState = None
  /\ startPromise = None
  /\ startSignature = None
  /\ registered = TRUE
  /\ lastFinalized = None
  /\ finalization = [p \in Prompts |-> "none"]
  /\ spanPromise = [p \in Prompts |-> "none"]
  /\ root = [p \in Prompts |-> "none"]
  /\ scores = [p \in Prompts |-> 0]
  /\ pc = [h \in Handlers |-> "idle"]
  /\ awaits = [h \in Handlers |-> None]
  /\ sameStart = [h \in Handlers |-> FALSE]
  /\ ahead = [h \in Handlers |-> {}]
  /\ sessionEnded = FALSE
  /\ publishedLate = {}
  /\ recordedLate = {}

-----------------------------------------------------------------------------
(* Awaits                                                                  *)

Finalizing(p) == finalization[p] # "none"
Finalized(p)  == finalization[p] = "ended"
StartOver(s)  == pc[s] \notin Starting

(* The start h waits for is over: its continuation is due. *)
Waiting == {h \in Handlers : pc[h] \in {"queued", "pending"}}
Due     == {h \in Waiting : StartOver(awaits[h])}

Ready(h) ==
  \/ pc[h] \in {"publishing", "tail"}
  \/ h \in Due
  \/ pc[h] \in {"replacing", "joining"} /\ Finalized(awaits[h])
  \/ pc[h] = "opening" /\ spanPromise[awaits[h]] = "done"

Quiet ==
  /\ \A h \in Handlers : ~Ready(h)
  /\ \A p \in Prompts : finalization[p] = "scoring" => root[p] # "none"

Goto(h, label, target) ==
  /\ pc' = [pc EXCEPT ![h] = label]
  /\ awaits' = [awaits EXCEPT ![h] = target]
  /\ UNCHANGED ahead

(* h waits for start s, behind those who wait already. *)
WaitFor(h, label, s) ==
  /\ pc' = [pc EXCEPT ![h] = label]
  /\ awaits' = [awaits EXCEPT ![h] = s]
  /\ ahead' = [i \in Handlers |-> IF i = h THEN Waiting \ {h} ELSE ahead[i] \ {h}]

(* h is the first of those whose continuations are due. *)
FirstDue(h) == h \in Due /\ ahead[h] \cap Due = {}

-----------------------------------------------------------------------------
(* finalizePrompt                                                          *)

(* The first caller begins the finalization and runs it up to its first    *)
(* await; later ones wait for the same promise.  Without tools and turns   *)
(* to abandon and without a span to wait for, the trace is updated at once. *)
Join(p) ==
  IF Finalizing(p)
  THEN UNCHANGED finalization
  ELSE \E phase \in {"abandoning", "scoring"} :
         /\ spanPromise[p] # "none" => phase = "abandoning"
         /\ finalization' = [finalization EXCEPT ![p] = phase]

(* Tools and turns are abandoned and the prompt span is settled: the trace *)
(* is updated, and the scores wait for the runtime.                        *)
Abandoned(p) ==
  /\ finalization[p] = "abandoning" /\ Due = {}
  /\ spanPromise[p] # "pending"
  /\ finalization' = [finalization EXCEPT ![p] = "scoring"]
  /\ UNCHANGED <<sessionVars, spanPromise, root, scores, handlerVars, rawVars>>

(* slip: the session forgets the prompt, and its root stays open *)
RootEndedNever(p) == root' = root

RootEnded(p) ==
  root' = [root EXCEPT ![p] = IF @ = "open" THEN "ended" ELSE @]

(* The runtime took the scores of a traced prompt, or getRuntime failed,   *)
(* or tracing is off by now.                                               *)
RecordPromptScores(p) ==
  \/ UNCHANGED scores
  \/ root[p] # "none" /\ scores' = [scores EXCEPT ![p] = @ + 1]

(* The target of explicit feedback: the last finalized prompt with a trace. *)
RememberFinalizedTrace(p) ==
  lastFinalized' = IF root[p] # "none" THEN p ELSE lastFinalized

(* slip: every caller runs a finalization of its own, and the first to end *)
(* leaves the others behind                                                *)
EndPromptEach(p) ==
  /\ finalization[p] = "scoring" /\ Due = {}
  /\ RecordPromptScores(p)
  /\ RootEnded(p)
  /\ finalization' = [finalization EXCEPT ![p] =
       IF \E h, i \in Handlers : h # i /\ awaits[h] = p /\ awaits[i] = p
       THEN "scoring" ELSE "ended"]
  /\ UNCHANGED <<promptState, lastFinalized, startPromise, startSignature,
                 registered, spanPromise, handlerVars, rawVars>>

(* The scores are on their way: the root ends, and the session forgets the *)
(* prompt.                                                                 *)
EndPrompt(p) ==
  /\ finalization[p] = "scoring" /\ Due = {}
  /\ RecordPromptScores(p)
  /\ RootEnded(p)
  /\ finalization' = [finalization EXCEPT ![p] = "ended"]
  /\ IF promptState = p
     THEN promptState' = None /\ RememberFinalizedTrace(p)
     ELSE UNCHANGED <<promptState, lastFinalized>>
  /\ UNCHANGED <<startPromise, startSignature, registered, spanPromise,
                 handlerVars, rawVars>>

-----------------------------------------------------------------------------
(* before_agent_start                                                      *)

OwnsPrompt(h) ==
  /\ promptState # None
  /\ ~Finalizing(promptState)
  /\ Event[promptState] = "before_agent_start"
  /\ Signature[promptState] = Signature[h]

(* The pending start is h's from now on; the prompt it replaces is         *)
(* finalized first.                                                        *)
Claim(h) ==
  /\ startPromise' = h
  /\ startSignature' = Signature[h]
  /\ IF promptState = None
     THEN Goto(h, "publishing", None) /\ UNCHANGED finalization
     ELSE Goto(h, "replacing", promptState) /\ Join(promptState)
  /\ UNCHANGED sameStart

(* slip: waits for a start without looking whether one is pending *)
ContendAlways(h) ==
  /\ WaitFor(h, "queued", startPromise)
  /\ sameStart' = [sameStart EXCEPT ![h] = startSignature = Signature[h]]
  /\ UNCHANGED <<startPromise, startSignature, finalization>>

(* Waits while any start is pending: the loop of beforeAgentStart. *)
Contend(h) ==
  IF startPromise # None
  THEN /\ WaitFor(h, "queued", startPromise)
       /\ sameStart' = [sameStart EXCEPT ![h] = startSignature = Signature[h]]
       /\ UNCHANGED <<startPromise, startSignature, finalization>>
  ELSE Claim(h)

Return(h) ==
  /\ Goto(h, "done", None)
  /\ UNCHANGED <<startPromise, startSignature, finalization, sameStart>>

BeforeAgentStart(h) ==
  /\ pc[h] = "idle" /\ Event[h] = "before_agent_start" /\ registered /\ Due = {}
  /\ IF OwnsPrompt(h) THEN Return(h) ELSE Contend(h)
  /\ UNCHANGED <<promptState, registered, lastFinalized, spanPromise, root,
                 scores, rawVars>>

(* slip: does not look again at what the session holds after the wait *)
ResumeBlindly(h) ==
  /\ pc[h] = "queued" /\ FirstDue(h)
  /\ Contend(h)
  /\ UNCHANGED <<promptState, registered, lastFinalized, spanPromise, root,
                 scores, rawVars>>

Resume(h) ==
  /\ pc[h] = "queued" /\ FirstDue(h)
  /\ IF sameStart[h] \/ OwnsPrompt(h) THEN Return(h) ELSE Contend(h)
  /\ UNCHANGED <<promptState, registered, lastFinalized, spanPromise, root,
                 scores, rawVars>>

(* The new prompt is the session's before git answers. *)
PublishPrompt(h) ==
  /\ promptState' = h
  /\ publishedLate' = IF sessionEnded THEN publishedLate \cup {h} ELSE publishedLate
  /\ Goto(h, "source", None)
  /\ UNCHANGED <<registered, lastFinalized, finalization, spanPromise, root,
                 scores, sameStart, sessionEnded, recordedLate>>

Publish(h) ==
  /\ \/ pc[h] = "publishing"
     \/ pc[h] = "replacing" /\ Finalized(awaits[h])
  /\ PublishPrompt(h)
  /\ UNCHANGED <<startPromise, startSignature>>

(* slip: the pending start is forgotten only by the next start *)
EndStartKept(h) ==
  /\ Goto(h, IF Event[h] = "agent_start" THEN "tail" ELSE "done", None)
  /\ UNCHANGED <<startPromise, startSignature>>

(* The start is over, and forgets the pending start if that is its own. *)
EndStart(h) ==
  /\ Goto(h, IF Event[h] = "agent_start" THEN "tail" ELSE "done", None)
  /\ startPromise' = IF startPromise = h THEN None ELSE startPromise
  /\ startSignature' = IF startPromise = h THEN None ELSE startSignature

(* slip: only a prompt that was replaced stops the start *)
StopsReplaced(h) == promptState # h

(* A prompt that is finalizing by the time git answers is not started. *)
Stops(h) == promptState # h \/ Finalizing(h)

SourceAnswers(h) ==
  /\ pc[h] = "source" /\ Quiet
  /\ IF Stops(h)
     THEN EndStart(h) /\ UNCHANGED recordedLate
     ELSE /\ recordedLate' = IF sessionEnded THEN recordedLate \cup {h} ELSE recordedLate
          /\ IF h \in Tracing
             THEN Goto(h, "runtime", None) /\ UNCHANGED <<startPromise, startSignature>>
             ELSE EndStart(h)
  /\ UNCHANGED <<promptState, registered, lastFinalized, promptVars, sameStart,
                 sessionEnded, publishedLate>>

OpensRootAlways(h) == TRUE \* slip: whatever the session holds by now

OpensRoot(h) == promptState = h

(* getRuntime answers: the root observation is created, unless the prompt  *)
(* was replaced or getRuntime failed.                                      *)
RuntimeAnswers(h) ==
  /\ pc[h] = "runtime"
  /\ \/ OpensRoot(h) /\ root' = [root EXCEPT ![h] = "open"]
     \/ UNCHANGED root
  /\ EndStart(h)
  /\ UNCHANGED <<promptState, registered, lastFinalized, finalization,
                 spanPromise, scores, sameStart, rawVars>>

-----------------------------------------------------------------------------
(* agent_start                                                             *)

(* A run that no event announced: its prompt is published at once. *)
StartUnannounced(h) ==
  /\ PublishPrompt(h)
  /\ startPromise' = h
  /\ startSignature' = Signature[h]

(* The rest of agent_start: waits for the prompt span if there is a trace. *)
Tail(h) ==
  /\ IF \/ promptState = None
        \/ Finalizing(promptState)
        \/ h \notin Tracing
        \/ root[promptState] = "none"
     THEN Goto(h, "done", None) /\ UNCHANGED spanPromise
     ELSE /\ Goto(h, "opening", promptState)
          /\ spanPromise' = [spanPromise EXCEPT ![promptState] =
                               IF @ = "none" THEN "pending" ELSE @]
  /\ UNCHANGED <<sessionVars, finalization, root, scores, sameStart, rawVars>>

AgentStart(h) ==
  /\ pc[h] = "idle" /\ Event[h] = "agent_start" /\ registered /\ Due = {}
  /\ \/ promptState # None /\ Tail(h)
     \/ /\ promptState = None /\ startPromise # None
        /\ WaitFor(h, "pending", startPromise)
        /\ UNCHANGED <<sessionVars, promptVars, sameStart, rawVars>>
     \/ promptState = None /\ startPromise = None /\ StartUnannounced(h)

(* The awaited start is over.  The pending start is not read again. *)
PendingOver(h) ==
  /\ pc[h] = "pending" /\ FirstDue(h)
  /\ \/ /\ promptState # None
        /\ Goto(h, "tail", None)
        /\ UNCHANGED <<sessionVars, promptVars, sameStart, rawVars>>
     \/ promptState = None /\ StartUnannounced(h)

RunTail(h) == pc[h] = "tail" /\ Tail(h)

(* getRuntime answers.  The span was created with the trace, so there is   *)
(* nothing to do.                                                          *)
SpanAnswers(p) ==
  /\ spanPromise[p] = "pending"
  /\ spanPromise' = [spanPromise EXCEPT ![p] = "done"]
  /\ UNCHANGED <<sessionVars, finalization, root, scores, handlerVars, rawVars>>

Opened(h) ==
  /\ pc[h] = "opening" /\ spanPromise[awaits[h]] = "done"
  /\ Goto(h, "done", None)
  /\ UNCHANGED <<sessionVars, promptVars, sameStart, rawVars>>

-----------------------------------------------------------------------------
(* The boundaries: agent_settled, session_start and session_shutdown       *)

(* A settled run finalizes its prompt unless that has begun; session_start *)
(* and a configuration refresh join it.                                    *)
Boundary(h) ==
  /\ pc[h] = "idle" /\ Event[h] \in {"agent_settled", "session_start"}
  /\ registered /\ Due = {}
  /\ IF promptState = None \/ (Event[h] = "agent_settled" /\ Finalizing(promptState))
     THEN Goto(h, "done", None) /\ UNCHANGED finalization
     ELSE Goto(h, "joining", promptState) /\ Join(promptState)
  /\ UNCHANGED <<sessionVars, spanPromise, root, scores, sameStart, rawVars>>

(* session_end is recorded before the finalization begins.  A second event *)
(* shares the first one's promise.                                         *)
Shutdown(h) ==
  /\ pc[h] = "idle" /\ Event[h] = "session_shutdown"
  /\ registered /\ ~sessionEnded /\ Due = {}
  /\ sessionEnded' = TRUE
  /\ IF promptState = None
     THEN /\ Goto(h, "closing", None)
          /\ registered' = FALSE
          /\ UNCHANGED finalization
     ELSE /\ Goto(h, "joining", promptState)
          /\ Join(promptState)
          /\ UNCHANGED registered
  /\ UNCHANGED <<promptState, startPromise, startSignature, lastFinalized,
                 spanPromise, root, scores, sameStart, publishedLate, recordedLate>>

(* The finalization is over: the shutdown waits for the delivery too. *)
Joined(h) ==
  /\ pc[h] = "joining" /\ Finalized(awaits[h])
  /\ IF Event[h] = "session_shutdown"
     THEN Goto(h, "flushing", awaits[h])
     ELSE Goto(h, "done", None)
  /\ UNCHANGED <<sessionVars, promptVars, sameStart, rawVars>>

(* Everything is flushed: the owner forgets the session. *)
Flushed(h) ==
  /\ pc[h] = "flushing"
  /\ registered' = FALSE
  /\ Goto(h, "closing", None)
  /\ UNCHANGED <<promptState, startPromise, startSignature, lastFinalized,
                 promptVars, sameStart, rawVars>>

(* The last session closes the runtime, which ends the roots still open. *)
ClientClosed(h) ==
  /\ pc[h] = "closing"
  /\ root' = [p \in Prompts |-> IF root[p] = "open" /\ ~OtherLease
                                THEN "ended" ELSE root[p]]
  /\ Goto(h, "done", None)
  /\ UNCHANGED <<sessionVars, finalization, spanPromise, scores, sameStart, rawVars>>

-----------------------------------------------------------------------------
(* A continuation or an answer that handler h waits for. *)
Continue(h) ==
  \/ Resume(h)
  \/ Publish(h)
  \/ SourceAnswers(h)
  \/ RuntimeAnswers(h)
  \/ PendingOver(h)
  \/ RunTail(h)
  \/ Opened(h)
  \/ Joined(h)
  \/ Flushed(h)
  \/ ClientClosed(h)

Finalize(p) == Abandoned(p) \/ EndPrompt(p) \/ SpanAnswers(p)

(* Every handler returned, or its event comes after the session is gone. *)
Terminated ==
  /\ \A h \in Handlers : pc[h] = "done" \/ (pc[h] = "idle" /\ sessionEnded)
  /\ UNCHANGED vars

Next ==
  \/ \E h \in Handlers \cap Prompts : BeforeAgentStart(h) \/ AgentStart(h)
  \/ \E h \in Handlers : Boundary(h) \/ Shutdown(h) \/ Continue(h)
  \/ \E p \in Prompts : Finalize(p)
  \/ Terminated

(* Answers come: git's child processes end, getRuntime and the exporter's  *)
(* flush are bounded, and continuations run.  Events need not come.        *)
Fairness ==
  /\ \A h \in Handlers : WF_vars(Continue(h))
  /\ \A p \in Prompts : WF_vars(Abandoned(p)) /\ WF_vars(EndPrompt(p))
                                              /\ WF_vars(SpanAnswers(p))

SafeSpec == Init /\ [][Next]_vars
Spec     == SafeSpec /\ Fairness

-----------------------------------------------------------------------------
(* Properties                                                              *)

(* An open root belongs to the session's prompt, which a later boundary    *)
(* will finalize: no root is left open behind a replaced, cleared or       *)
(* overwritten prompt.                                                     *)
OpenRootOwned == \A p \in Prompts : root[p] = "open" => promptState = p

(* However many boundaries finalize a prompt at once, its scores are sent  *)
(* once, and never for a prompt without a trace.                           *)
ScoredOnce ==
  \A p \in Prompts : scores[p] <= 1 /\ (scores[p] > 0 => root[p] = "ended")

(* A pending start is one that is still running: later starts never wait   *)
(* for one that is over.                                                   *)
PendingStartRuns == startPromise # None => pc[startPromise] \in Starting

(* The trace that explicit feedback targets is a finalized one, never that *)
(* of the running prompt.                                                  *)
FeedbackTargetEnded ==
  lastFinalized # None => /\ root[lastFinalized] = "ended"
                          /\ promptState # lastFinalized

(* The start of a prompt that the session held when session_end was        *)
(* recorded is not recorded after it.                                      *)
NoRecordAfterEnd == recordedLate \subseteq publishedLate

(* A start waits for the end of the prompt that it replaces. *)
Replacing(h) == pc[h] = "replacing" /\ ~Finalized(awaits[h])

(* An event that announces what the session's prompt announces already is  *)
(* not a reason to end that prompt, however long ago the event came in and *)
(* whatever starts it has waited for: a start waits for the end of such a  *)
(* prompt only while a boundary, which has it finalized, waits as well.    *)
ReplacedForAReason ==
  \A h \in Handlers :
    /\ Replacing(h)
    /\ Event[awaits[h]] = "before_agent_start"
    /\ Signature[awaits[h]] = Signature[h]
    => \E i \in Handlers : pc[i] = "joining" /\ awaits[i] = awaits[h]

(* Every handler that was called has returned.  Starts, waiters and        *)
(* boundaries wait for each other's promises, but never in a circle: it    *)
(* becomes true again and again.                                           *)
Returned == \A h \in Handlers : pc[h] \in {"idle", "done"}

(* A start in progress is the only one: "Concurrent agent_start deliveries *)
(* await the pending start instead of opening a second prompt"             *)
(* (startUnannouncedPrompt).  The code does otherwise: see PendingOver.    *)
OneStart ==
  \A h, i \in Handlers : pc[h] \in Starting /\ pc[i] \in Starting => h = i

(* After the session's shutdown no root observation is open: "The          *)
(* extension closes unfinished prompt [...] observations during agent      *)
(* finalization and session shutdown" (docs/troubleshooting.md).  The code *)
(* does otherwise: a start that had not published its prompt goes on.      *)
NothingOpenAfterShutdown ==
  (\E h \in Handlers : Event[h] = "session_shutdown" /\ pc[h] = "done") =>
    \A p \in Prompts : root[p] # "open"

-----------------------------------------------------------------------------
(* Strengthenings that make the safety properties inductive.               *)

(* The places of a handler that has published no prompt. *)
Unpublished == {"idle", "queued", "pending", "replacing", "publishing"}

(* A prompt whose start is not over has no root, and one that was never    *)
(* published is never finalized.                                           *)
FreshPrompts ==
  \A p \in Prompts :
    /\ pc[p] \in Unpublished \cup Starting => root[p] = "none"
    /\ pc[p] \in Unpublished => finalization[p] = "none"

(* The session's prompt was published, and its finalization is not over. *)
PromptSound ==
  promptState # None => /\ pc[promptState] \notin Unpublished
                        /\ ~Finalized(promptState)

(* A start about to publish finds no prompt, or one that cannot proceed    *)
(* before it has; no other start may claim before then.                    *)
ToPublish(h) ==
  \/ pc[h] = "publishing"
  \/ pc[h] = "replacing" /\ Finalized(awaits[h])

PublishSound ==
  \A h \in Handlers : ToPublish(h) =>
    /\ promptState # None => pc[promptState] = "source"
    /\ startPromise # None
    /\ pc[startPromise] # "runtime"

(* A start that waits for the prompt it replaces is the pending one, and   *)
(* the only one that is about to publish.                                  *)
ReplaceSound ==
  \A h \in Handlers : Replacing(h) =>
    /\ startPromise = h
    /\ promptState = awaits[h]
    /\ Finalizing(awaits[h])
    /\ \A i \in Handlers : ~ToPublish(i)

(* Once session_end is recorded, the prompt is on its way out or new. *)
EndSound ==
  sessionEnded /\ promptState # None =>
    Finalizing(promptState) \/ promptState \in publishedLate

ScoresSound ==
  \A p \in Prompts :
    scores[p] <= 1 /\ (scores[p] > 0 => root[p] = "ended" /\ Finalized(p))

IInv ==
  /\ TypeOK /\ FreshPrompts /\ PromptSound /\ PublishSound /\ ReplaceSound
  /\ OpenRootOwned /\ PendingStartRuns /\ FeedbackTargetEnded /\ ScoresSound
  /\ EndSound /\ NoRecordAfterEnd

(* Somebody waits for every finalization: who began it, or joined it. *)
FinalizationJoined ==
  \A p \in Prompts : Finalizing(p) /\ ~Finalized(p) =>
    \E h \in Handlers : pc[h] \in {"joining", "replacing"} /\ awaits[h] = p

-----------------------------------------------------------------------------
(* The abstract promise of RootSlot.                                       *)
OpenRoot == IF \E p \in Prompts : root[p] = "open"
            THEN CHOOSE p \in Prompts : root[p] = "open"
            ELSE None

Slot == INSTANCE RootSlot WITH
          Prompts <- Prompts, NoPrompt <- None,
          current <- OpenRoot, past <- {p \in Prompts : root[p] = "ended"}

(* The session's roots take turns, and each is opened once. *)
RootsTakeTurns == Slot!Spec
=============================================================================
