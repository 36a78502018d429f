----------------------- MODULE PromptLifecycleProofs -----------------------
(***************************************************************************)
(* Theorems about PromptLifecycle, for any handlers, signatures and        *)
(* configurations.  Every step of the module is of one of nine kinds       *)
(* (StepCases); most steps are Calm, and change nothing that the           *)
(* invariants relate.  IInv is preserved by each kind.                     *)
(***************************************************************************)
EXTENDS PromptLifecycle, TLAPS

-----------------------------------------------------------------------------
(* Type correctness                                                        *)

(* A start or a wait is entered by the handler of a prompt only. *)
LEMMA GotoType ==
  ASSUME TypeOK, NEW h \in Handlers, NEW label \in PCs, NEW target \in Prompts \cup {None},
         Goto(h, label, target),
         label \in Awaiting => target # None,
         label \in Starting \cup {"queued", "pending"} => h \in Prompts
  PROVE  /\ pc' \in [Handlers -> PCs]
         /\ awaits' \in [Handlers -> Prompts \cup {None}]
         /\ ahead' \in [Handlers -> SUBSET Handlers]
         /\ \A i \in Handlers :
              /\ pc'[i] \in Awaiting => awaits'[i] # None
              /\ pc'[i] \in Starting \cup {"queued", "pending"} => i \in Prompts
BY DEF TypeOK, Goto

LEMMA WaitForType ==
  ASSUME TypeOK, NEW h \in Prompts, NEW label \in {"queued", "pending"},
         NEW s \in Prompts, WaitFor(h, label, s)
  PROVE  /\ pc' \in [Handlers -> PCs]
         /\ awaits' \in [Handlers -> Prompts \cup {None}]
         /\ ahead' \in [Handlers -> SUBSET Handlers]
         /\ \A i \in Handlers :
              /\ pc'[i] \in Awaiting => awaits'[i] # None
              /\ pc'[i] \in Starting \cup {"queued", "pending"} => i \in Prompts
<1>1. h \in Handlers /\ s # None
  BY PromptAssumption DEF Prompts
<1>2. ahead' \in [Handlers -> SUBSET Handlers]
  BY <1>1 DEF TypeOK, WaitFor, Waiting
<1>. QED
  BY <1>1, <1>2 DEF TypeOK, WaitFor, PCs

LEMMA JoinType ==
  ASSUME TypeOK, NEW p \in Prompts, Join(p)
  PROVE  finalization' \in [Prompts -> {"none", "abandoning", "scoring", "ended"}]
BY DEF TypeOK, Join

(* What a start does when it is its turn, and what it leaves alone. *)
LEMMA ContendType ==
  ASSUME TypeOK, NEW h \in Prompts,
         Contend(h) \/ Return(h),
         UNCHANGED <<promptState, registered, lastFinalized, spanPromise, root,
                     scores, rawVars>>
  PROVE  TypeOK'
<1>1. h \in Handlers /\ None \notin Prompts
  BY PromptAssumption DEF Prompts
<1>2. CASE Return(h)
  <2>1. "done" \in PCs \ (Awaiting \cup Starting \cup {"queued", "pending"})
    BY DEF PCs, Awaiting, Starting
  <2>. QED
    BY <1>1, <1>2, <2>1, GotoType DEF Return, TypeOK, rawVars
<1>3. CASE Contend(h) /\ startPromise # None
  <2>1. startPromise \in Prompts
    BY <1>3 DEF TypeOK
  <2>2. WaitFor(h, "queued", startPromise)
    BY <1>3 DEF Contend
  <2>3. /\ sameStart' \in [Handlers -> BOOLEAN]
        /\ UNCHANGED <<startPromise, startSignature, finalization>>
    BY <1>1, <1>3 DEF Contend, TypeOK
  <2>. QED
    BY <2>1, <2>2, <2>3, WaitForType DEF TypeOK, rawVars
<1>4. CASE Contend(h) /\ startPromise = None
  <2>1. Claim(h)
    BY <1>4 DEF Contend
  <2>2. {"publishing", "replacing"} \subseteq PCs /\ "publishing" \notin Awaiting
    BY DEF PCs, Starting, Awaiting
  <2>3. finalization' \in [Prompts -> {"none", "abandoning", "scoring", "ended"}]
    BY <2>1, JoinType DEF Claim, TypeOK
  <2>4. /\ pc' \in [Handlers -> PCs]
        /\ awaits' \in [Handlers -> Prompts \cup {None}]
        /\ ahead' \in [Handlers -> SUBSET Handlers]
        /\ \A i \in Handlers :
             /\ pc'[i] \in Awaiting => awaits'[i] # None
             /\ pc'[i] \in Starting \cup {"queued", "pending"} => i \in Prompts
    <3>1. CASE promptState = None
      BY <1>1, <2>1, <2>2, <3>1, GotoType DEF Claim
    <3>2. CASE promptState # None
      <4>1. promptState \in Prompts
        BY <3>2 DEF TypeOK
      <4>. QED
        BY <1>1, <2>1, <2>2, <3>2, <4>1, GotoType DEF Claim
    <3>. QED
      BY <3>1, <3>2
  <2>5. startPromise' = h /\ startSignature' = Signature[h] /\ sameStart' = sameStart
    BY <2>1 DEF Claim
  <2>. QED
    BY <1>1, <2>3, <2>4, <2>5 DEF TypeOK, rawVars
<1>. QED
  BY <1>2, <1>3, <1>4

LEMMA EndStartType ==
  ASSUME TypeOK, NEW h \in Prompts, EndStart(h)
  PROVE  /\ pc' \in [Handlers -> PCs]
         /\ awaits' \in [Handlers -> Prompts \cup {None}]
         /\ ahead' \in [Handlers -> SUBSET Handlers]
         /\ \A i \in Handlers :
              /\ pc'[i] \in Awaiting => awaits'[i] # None
              /\ pc'[i] \in Starting \cup {"queued", "pending"} => i \in Prompts
         /\ startPromise' \in Prompts \cup {None}
         /\ startSignature' = IF startPromise' = None THEN None
                               ELSE Signature[startPromise']
<1>1. h \in Handlers
  BY DEF Prompts
<1>2. {"tail", "done"} \subseteq PCs \ (Awaiting \cup Starting \cup {"queued", "pending"})
  BY DEF PCs, Awaiting, Starting
<1>. QED
  BY <1>1, <1>2, GotoType DEF EndStart, TypeOK

LEMMA UnannouncedType ==
  ASSUME TypeOK, NEW h \in Prompts, StartUnannounced(h)
  PROVE  TypeOK'
<1>1. h \in Handlers /\ None \notin Prompts
  BY PromptAssumption DEF Prompts
<1>2. "source" \in PCs \ Awaiting
  BY DEF PCs, Awaiting, Starting
<1>. QED
  BY <1>1, <1>2, GotoType DEF StartUnannounced, PublishPrompt, TypeOK

LEMMA TailType ==
  ASSUME TypeOK, NEW h \in Handlers, Tail(h)
  PROVE  TypeOK'
<1>1. {"done", "opening"} \subseteq PCs \ (Starting \cup {"queued", "pending"})
      /\ "done" \notin Awaiting
  BY DEF PCs, Awaiting, Starting
<1>2. CASE Goto(h, "done", None) /\ UNCHANGED spanPromise
  BY <1>1, <1>2, GotoType DEF Tail, TypeOK, sessionVars, rawVars
<1>3. CASE ~(Goto(h, "done", None) /\ UNCHANGED spanPromise)
  <2>1. /\ promptState \in Prompts /\ promptState # None
        /\ Goto(h, "opening", promptState)
        /\ spanPromise' \in [Prompts -> {"none", "pending", "done"}]
    BY <1>3 DEF Tail, TypeOK
  <2>. QED
    BY <1>1, <2>1, GotoType DEF Tail, TypeOK, sessionVars, rawVars
<1>. QED
  BY <1>2, <1>3

(* Every step of one handler and every step of a finalization. *)
LEMMA TypeStep ==
  ASSUME TypeOK, [Next]_vars
  PROVE  TypeOK'
<1>. USE PromptAssumption
<1>a. None \notin Prompts /\ Prompts \subseteq Handlers
  BY DEF Prompts
<1>b. {"tail", "done", "closing", "source", "runtime"} \subseteq PCs \ Awaiting
      /\ {"joining", "flushing"} \subseteq PCs
      /\ {"tail", "done", "closing", "joining", "flushing"}
            \cap (Starting \cup {"queued", "pending"}) = {}
  BY DEF PCs, Awaiting, Starting
<1>1. ASSUME NEW h \in Handlers \cap Prompts, BeforeAgentStart(h)
      PROVE  TypeOK'
  BY <1>1, ContendType DEF BeforeAgentStart
<1>2. ASSUME NEW h \in Handlers \cap Prompts, AgentStart(h)
      PROVE  TypeOK'
  <2>1. CASE Tail(h)
    BY <2>1, TailType
  <2>2. CASE StartUnannounced(h) /\ UNCHANGED sameStart
    BY <2>2, UnannouncedType
  <2>3. CASE /\ startPromise # None /\ WaitFor(h, "pending", startPromise)
             /\ UNCHANGED <<sessionVars, promptVars, sameStart, rawVars>>
    <3>1. startPromise \in Prompts
      BY <2>3 DEF TypeOK
    <3>. QED
      BY <2>3, <3>1, WaitForType DEF TypeOK, sessionVars, promptVars, rawVars
  <2>. QED
    BY <1>2, <2>1, <2>2, <2>3, UnannouncedType DEF AgentStart
<1>3. ASSUME NEW h \in Handlers, Boundary(h)
      PROVE  TypeOK'
  <2>1. CASE Goto(h, "done", None) /\ UNCHANGED finalization
    BY <1>b, <1>3, <2>1, GotoType DEF Boundary, TypeOK, sessionVars, rawVars
  <2>2. CASE promptState # None /\ Goto(h, "joining", promptState) /\ Join(promptState)
    <3>1. promptState \in Prompts
      BY <2>2 DEF TypeOK
    <3>. QED
      BY <1>b, <1>3, <2>2, <3>1, GotoType, JoinType DEF Boundary, TypeOK, sessionVars, rawVars
  <2>. QED
    BY <1>3, <2>1, <2>2 DEF Boundary
<1>4. ASSUME NEW h \in Handlers, Shutdown(h)
      PROVE  TypeOK'
  <2>1. CASE promptState = None
    BY <1>b, <1>4, <2>1, GotoType DEF Shutdown, TypeOK
  <2>2. CASE promptState # None
    <3>1. promptState \in Prompts
      BY <2>2 DEF TypeOK
    <3>. QED
      BY <1>b, <1>4, <2>2, <3>1, GotoType, JoinType DEF Shutdown, TypeOK
  <2>. QED
    BY <2>1, <2>2
<1>5. ASSUME NEW h \in Handlers, Resume(h)
      PROVE  TypeOK'
  <2>1. h \in Prompts
    BY <1>5 DEF Resume, TypeOK
  <2>. QED
    BY <1>5, <2>1, ContendType DEF Resume
<1>6. ASSUME NEW h \in Handlers, Publish(h)
      PROVE  TypeOK'
  <2>1. h \in Prompts
    BY <1>6 DEF Publish, TypeOK, Starting
  <2>2. Goto(h, "source", None)
    BY <1>6 DEF Publish, PublishPrompt
  <2>. QED
    BY <1>a, <1>b, <1>6, <2>1, <2>2, GotoType DEF Publish, PublishPrompt, TypeOK
<1>7. ASSUME NEW h \in Handlers, SourceAnswers(h)
      PROVE  TypeOK'
  <2>1. h \in Prompts
    BY <1>7 DEF SourceAnswers, TypeOK, Starting
  <2>2. CASE EndStart(h)
    BY <1>7, <2>1, <2>2, EndStartType DEF SourceAnswers, TypeOK, promptVars
  <2>3. CASE Goto(h, "runtime", None) /\ UNCHANGED <<startPromise, startSignature>>
    BY <1>b, <1>7, <2>1, <2>3, GotoType DEF SourceAnswers, TypeOK, promptVars
  <2>. QED
    BY <1>7, <2>2, <2>3 DEF SourceAnswers
<1>8. ASSUME NEW h \in Handlers, RuntimeAnswers(h)
      PROVE  TypeOK'
  <2>1. h \in Prompts
    BY <1>8 DEF RuntimeAnswers, TypeOK, Starting
  <2>2. root' \in [Prompts -> {"none", "open", "ended"}]
    BY <1>8, <2>1 DEF RuntimeAnswers, TypeOK
  <2>. QED
    BY <1>8, <2>1, <2>2, EndStartType DEF RuntimeAnswers, TypeOK, rawVars
<1>9. ASSUME NEW h \in Handlers, PendingOver(h)
      PROVE  TypeOK'
  <2>1. h \in Prompts
    BY <1>9 DEF PendingOver, TypeOK
  <2>2. CASE StartUnannounced(h)
    BY <2>1, <2>2, UnannouncedType
  <2>3. CASE Goto(h, "tail", None) /\ UNCHANGED <<sessionVars, promptVars, sameStart, rawVars>>
    BY <1>b, <2>3, GotoType DEF TypeOK, sessionVars, promptVars, rawVars
  <2>. QED
    BY <1>9, <2>2, <2>3 DEF PendingOver
<1>10. ASSUME NEW h \in Handlers, RunTail(h)
       PROVE  TypeOK'
  BY <1>10, TailType DEF RunTail
<1>11. ASSUME NEW h \in Handlers, Opened(h)
       PROVE  TypeOK'
  BY <1>b, <1>11, GotoType DEF Opened, TypeOK, sessionVars, promptVars, rawVars
<1>12. ASSUME NEW h \in Handlers, Joined(h)
       PROVE  TypeOK'
  <2>1. awaits[h] \in Prompts \cup {None} /\ awaits[h] # None
    BY <1>12 DEF Joined, TypeOK, Awaiting
  <2>. QED
    BY <1>b, <1>12, <2>1, GotoType DEF Joined, TypeOK, sessionVars, promptVars, rawVars
<1>13. ASSUME NEW h \in Handlers, Flushed(h)
       PROVE  TypeOK'
  BY <1>b, <1>13, GotoType DEF Flushed, TypeOK, promptVars, rawVars
<1>14. ASSUME NEW h \in Handlers, ClientClosed(h)
       PROVE  TypeOK'
  <2>1. root' \in [Prompts -> {"none", "open", "ended"}]
    BY <1>14 DEF ClientClosed, TypeOK
  <2>. QED
    BY <1>b, <1>14, <2>1, GotoType DEF ClientClosed, TypeOK, sessionVars, rawVars
<1>15. ASSUME NEW p \in Prompts, Abandoned(p) \/ SpanAnswers(p)
       PROVE  TypeOK'
  BY <1>15 DEF Abandoned, SpanAnswers, TypeOK, sessionVars, handlerVars, rawVars
<1>16. ASSUME NEW p \in Prompts, EndPrompt(p)
       PROVE  TypeOK'
  <2>1. scores' \in [Prompts -> Nat]
    BY <1>16 DEF EndPrompt, RecordPromptScores, TypeOK
  <2>2. root' \in [Prompts -> {"none", "open", "ended"}]
    BY <1>16 DEF EndPrompt, RootEnded, TypeOK
  <2>3. promptState' \in Prompts \cup {None} /\ lastFinalized' \in Prompts \cup {None}
    BY <1>16 DEF EndPrompt, RememberFinalizedTrace, TypeOK
  <2>. QED
    BY <1>16, <2>1, <2>2, <2>3 DEF EndPrompt, TypeOK, handlerVars, rawVars
<1>17. CASE UNCHANGED vars
  BY <1>17 DEF TypeOK, vars, sessionVars, promptVars, handlerVars, rawVars
<1>. QED
  BY <1>1, <1>2, <1>3, <1>4, <1>5, <1>6, <1>7, <1>8, <1>9, <1>10, <1>11, <1>12,
     <1>13, <1>14, <1>15, <1>16, <1>17 DEF Next, Continue, Finalize, Terminated

LEMMA TypeInit == Init => TypeOK
<1>. SUFFICES ASSUME Init PROVE TypeOK
  OBVIOUS
<1>1. "idle" \in PCs \ (Awaiting \cup Starting \cup {"queued", "pending"})
  BY DEF PCs, Awaiting, Starting
<1>2. pc \in [Handlers -> PCs] /\ ahead \in [Handlers -> SUBSET Handlers]
  BY <1>1 DEF Init
<1>3. \A h \in Handlers :
        /\ pc[h] \in Awaiting => awaits[h] # None
        /\ pc[h] \in Starting \cup {"queued", "pending"} => h \in Prompts
  BY <1>1 DEF Init
<1>. QED
  BY <1>2, <1>3 DEF Init, TypeOK

(* Every variable keeps its type; a handler that waits waits for something, *)
(* and only the handler of a prompt is ever in a start.                     *)
THEOREM TypeCorrect == SafeSpec => []TypeOK
<1>1. Init => TypeOK
  BY TypeInit
<1>2. TypeOK /\ [Next]_vars => TypeOK'
  BY TypeStep
<1>. QED
  BY <1>1, <1>2, PTL DEF SafeSpec

-----------------------------------------------------------------------------
(* The kinds of steps                                                      *)

(* No prompt, start, root or score comes or goes: a handler that is in no  *)
(* start moves on, or the finalization of a prompt begins or proceeds.     *)
Calm ==
  /\ UNCHANGED <<promptState, startPromise, lastFinalized, root, scores,
                 publishedLate, recordedLate>>
  /\ \A h \in Handlers :
       <<pc[h], awaits[h]>>' # <<pc[h], awaits[h]>> =>
         /\ pc[h] \notin Starting /\ pc'[h] \notin Starting
         /\ pc'[h] \in Unpublished => pc[h] \in Unpublished
  /\ \A p \in Prompts :
       finalization'[p] # finalization[p] =>
         /\ p = promptState \/ Finalizing(p)
         /\ ~Finalized(p) /\ finalization'[p] \in {"abandoning", "scoring"}

(* h claims the start of its prompt. *)
Claims(h) ==
  /\ pc[h] \in {"idle", "queued"} /\ startPromise = None
  /\ Claim(h)
  /\ UNCHANGED <<promptState, registered, lastFinalized, spanPromise, root,
                 scores, rawVars>>

(* h starts a prompt that no event announced. *)
Unannounced(h) ==
  /\ pc[h] \in {"idle", "pending"} /\ promptState = None
  /\ StartUnannounced(h)

Transition ==
  \/ Calm /\ (sessionEnded' = sessionEnded \/ \E h \in Handlers : Shutdown(h))
  \/ \E h \in Prompts : \/ Claims(h) \/ Unannounced(h) \/ Publish(h)
                         \/ SourceAnswers(h) \/ RuntimeAnswers(h)
  \/ \E h \in Handlers : ClientClosed(h)
  \/ \E p \in Prompts : EndPrompt(p)

LEMMA ContendCases ==
  ASSUME TypeOK, NEW h \in Prompts, pc[h] \in {"idle", "queued"},
         Contend(h) \/ Return(h),
         UNCHANGED <<promptState, registered, lastFinalized, spanPromise, root,
                     scores, rawVars>>
  PROVE  Claims(h) \/ (Calm /\ sessionEnded' = sessionEnded)
<1>1. h \in Handlers
  BY DEF Prompts
<1>2. CASE Return(h)
  BY <1>1, <1>2 DEF Return, Goto, Calm, TypeOK, Starting, Unpublished, rawVars
<1>3. CASE Contend(h) /\ startPromise # None
  BY <1>1, <1>3 DEF Contend, WaitFor, Calm, TypeOK, Starting, Unpublished, rawVars
<1>4. CASE Contend(h) /\ startPromise = None
  BY <1>4 DEF Contend, Claims
<1>. QED
  BY <1>2, <1>3, <1>4

LEMMA TailCalm ==
  ASSUME TypeOK, NEW h \in Handlers, pc[h] \in {"idle", "tail"}, Tail(h)
  PROVE  Calm /\ sessionEnded' = sessionEnded
BY DEF Tail, Goto, Calm, TypeOK, Starting, Unpublished, sessionVars, rawVars

(* Every step is of one of these kinds. *)
LEMMA StepCases ==
  ASSUME TypeOK, [Next]_vars
  PROVE  Transition
<1>. USE DEF Transition
<1>a. Prompts \subseteq Handlers
  BY DEF Prompts
<1>1. ASSUME NEW h \in Handlers \cap Prompts, BeforeAgentStart(h)
      PROVE  Transition
  BY <1>1, ContendCases DEF BeforeAgentStart
<1>2. ASSUME NEW h \in Handlers \cap Prompts, AgentStart(h)
      PROVE  Transition
  <2>1. CASE Tail(h)
    BY <1>2, <2>1, TailCalm DEF AgentStart
  <2>2. CASE promptState = None /\ StartUnannounced(h)
    BY <1>2, <2>2 DEF AgentStart, Unannounced
  <2>3. CASE /\ WaitFor(h, "pending", startPromise)
             /\ UNCHANGED <<sessionVars, promptVars, sameStart, rawVars>>
    BY <1>2, <2>3 DEF AgentStart, WaitFor, Calm, TypeOK, Starting, Unpublished,
                      sessionVars, promptVars, rawVars
  <2>. QED
    BY <1>2, <2>1, <2>2, <2>3 DEF AgentStart
<1>3. ASSUME NEW h \in Handlers, Boundary(h)
      PROVE  Transition
  <2>1. \A p \in Prompts : finalization'[p] # finalization[p] =>
          /\ p = promptState
          /\ ~Finalized(p) /\ finalization'[p] \in {"abandoning", "scoring"}
    BY <1>3 DEF Boundary, Join, Finalizing, Finalized, TypeOK
  <2>. QED
    BY <1>3, <2>1 DEF Boundary, Goto, Calm, TypeOK, Starting, Unpublished, sessionVars, rawVars
<1>4. ASSUME NEW h \in Handlers, Shutdown(h)
      PROVE  Transition
  <2>1. \A p \in Prompts : finalization'[p] # finalization[p] =>
          /\ p = promptState
          /\ ~Finalized(p) /\ finalization'[p] \in {"abandoning", "scoring"}
    BY <1>4 DEF Shutdown, Join, Finalizing, Finalized, TypeOK
  <2>. QED
    BY <1>4, <2>1 DEF Shutdown, Goto, Calm, TypeOK, Starting, Unpublished
<1>5. ASSUME NEW h \in Handlers, Resume(h)
      PROVE  Transition
  <2>1. h \in Prompts
    BY <1>5 DEF Resume, TypeOK
  <2>. QED
    BY <1>5, <2>1, ContendCases DEF Resume
<1>6. ASSUME NEW h \in Handlers, Publish(h) \/ SourceAnswers(h) \/ RuntimeAnswers(h)
      PROVE  Transition
  <2>1. h \in Prompts
    BY <1>6 DEF Publish, SourceAnswers, RuntimeAnswers, TypeOK, Starting
  <2>. QED
    BY <1>6, <2>1
<1>7. ASSUME NEW h \in Handlers, PendingOver(h)
      PROVE  Transition
  <2>1. h \in Prompts
    BY <1>7 DEF PendingOver, TypeOK
  <2>2. CASE promptState = None /\ StartUnannounced(h)
    BY <1>7, <2>1, <2>2 DEF PendingOver, Unannounced
  <2>3. CASE Goto(h, "tail", None) /\ UNCHANGED <<sessionVars, promptVars, sameStart, rawVars>>
    BY <1>7, <2>3 DEF PendingOver, Goto, Calm, TypeOK, Starting, Unpublished,
                      sessionVars, promptVars, rawVars
  <2>. QED
    BY <1>7, <2>2, <2>3 DEF PendingOver
<1>8. ASSUME NEW h \in Handlers, RunTail(h)
      PROVE  Transition
  BY <1>8, TailCalm DEF RunTail
<1>9. ASSUME NEW h \in Handlers, Opened(h) \/ Joined(h)
      PROVE  Transition
  BY <1>9 DEF Opened, Joined, Goto, Calm, TypeOK, Starting, Unpublished,
              sessionVars, promptVars, rawVars
<1>10. ASSUME NEW h \in Handlers, Flushed(h)
       PROVE  Transition
  BY <1>10 DEF Flushed, Goto, Calm, TypeOK, Starting, Unpublished, promptVars, rawVars
<1>11. ASSUME NEW p \in Prompts, Abandoned(p) \/ SpanAnswers(p)
       PROVE  Transition
  BY <1>11 DEF Abandoned, SpanAnswers, Calm, Finalizing, Finalized, TypeOK,
               sessionVars, handlerVars, rawVars
<1>12. CASE UNCHANGED vars
  BY <1>12 DEF Calm, vars, sessionVars, promptVars, handlerVars, rawVars
<1>. QED
  BY <1>1, <1>2, <1>3, <1>4, <1>5, <1>6, <1>7, <1>8, <1>9, <1>10, <1>11, <1>12
     DEF Next, Continue, Finalize, Terminated

-----------------------------------------------------------------------------
(* IInv is inductive                                                       *)

(* What IInv says beyond the types. *)
Relations ==
  /\ FreshPrompts /\ PromptSound /\ PublishSound /\ ReplaceSound
  /\ OpenRootOwned /\ PendingStartRuns /\ FeedbackTargetEnded /\ ScoresSound
  /\ EndSound /\ NoRecordAfterEnd

LEMMA NamesApart == None \notin Handlers /\ None \notin Prompts /\ Prompts \subseteq Handlers
BY PromptAssumption DEF Prompts

(* A calm step leaves every start, every prompt and every root where it is. *)
LEMMA CalmStep ==
  ASSUME IInv, TypeOK', Calm,
         sessionEnded' = sessionEnded \/ \E h \in Handlers : Shutdown(h)
  PROVE  Relations'
<1>. USE NamesApart
<1>1. \A h \in Handlers : pc[h] \in Starting \/ pc'[h] \in Starting =>
        pc'[h] = pc[h] /\ awaits'[h] = awaits[h]
  BY DEF Calm
<1>2. \A p \in Prompts : /\ Finalized(p)' <=> Finalized(p)
                         /\ Finalizing(p) => Finalizing(p)'
  BY DEF Calm, Finalized, Finalizing, IInv, TypeOK
<1>3. \A h \in Handlers : pc[h] = "replacing" => awaits[h] \in Prompts
  BY DEF IInv, TypeOK, Awaiting
<1>4. \A h \in Handlers : (ToPublish(h)' <=> ToPublish(h)) /\ (Replacing(h)' <=> Replacing(h))
  BY <1>1, <1>2, <1>3 DEF ToPublish, Replacing, Starting, Finalized
<1>5. FreshPrompts'
  BY <1>1 DEF IInv, FreshPrompts, PromptSound, Calm, Unpublished, Finalizing
<1>6. PromptSound'
  BY <1>2 DEF IInv, PromptSound, Calm, TypeOK
<1>7. PublishSound'
  BY <1>1, <1>4 DEF IInv, PublishSound, Calm, TypeOK, Starting, PendingStartRuns
<1>8. ReplaceSound'
  BY <1>1, <1>2, <1>3, <1>4 DEF IInv, ReplaceSound, Calm, Replacing, Starting
<1>9. OpenRootOwned' /\ FeedbackTargetEnded' /\ NoRecordAfterEnd'
  BY DEF IInv, OpenRootOwned, FeedbackTargetEnded, NoRecordAfterEnd, Calm
<1>10. PendingStartRuns'
  BY <1>1 DEF IInv, PendingStartRuns, Calm, TypeOK
<1>11. ScoresSound'
  BY <1>2 DEF IInv, ScoresSound, Calm
<1>12. EndSound'
  <2>1. CASE sessionEnded' = sessionEnded
    BY <1>2, <2>1 DEF IInv, EndSound, Calm, TypeOK
  <2>2. ASSUME NEW h \in Handlers, Shutdown(h), promptState # None
        PROVE  Finalizing(promptState)'
    BY <2>2 DEF Shutdown, Join, Finalizing, IInv, TypeOK
  <2>. QED
    BY <2>1, <2>2 DEF EndSound, Calm
<1>. QED
  BY <1>5, <1>6, <1>7, <1>8, <1>9, <1>10, <1>11, <1>12 DEF Relations

(* Only a start that finds no other pending claims.  It publishes at once, *)
(* or holds the pending start until the prompt it replaces is finalized.   *)
LEMMA ClaimStep ==
  ASSUME IInv, TypeOK', NEW h \in Prompts, Claims(h)
  PROVE  Relations'
<1>. USE NamesApart
<1>1. \A i \in Handlers : ~ToPublish(i) /\ ~Replacing(i)
  BY DEF Claims, IInv, PublishSound, ReplaceSound
<1>2. /\ \A i \in Handlers \ {h} : pc'[i] = pc[i] /\ awaits'[i] = awaits[i]
      /\ startPromise' = h
      /\ UNCHANGED <<promptState, lastFinalized, root, scores,
                     sessionEnded, publishedLate, recordedLate>>
  BY DEF Claims, Claim, Goto, IInv, TypeOK, rawVars
<1>3. \A p \in Prompts : finalization'[p] # finalization[p] =>
        p = promptState /\ ~Finalized(p) /\ finalization'[p] \in {"abandoning", "scoring"}
  BY DEF Claims, Claim, Join, Finalizing, Finalized, IInv, TypeOK
<1>4. \/ promptState = None /\ pc'[h] = "publishing"
      \/ /\ promptState # None /\ pc'[h] = "replacing" /\ awaits'[h] = promptState
         /\ Finalizing(promptState)' /\ ~Finalized(promptState)'
  <2>1. CASE promptState = None
    BY <2>1 DEF Claims, Claim, Goto, IInv, TypeOK
  <2>2. CASE promptState # None
    BY <2>2 DEF Claims, Claim, Goto, Join, Finalizing, Finalized, IInv, TypeOK, PromptSound
  <2>. QED
    BY <2>1, <2>2
<1>5. \A i \in Handlers \ {h} : ~ToPublish(i)' /\ ~Replacing(i)'
  <2>1. \A i \in Handlers : pc[i] \notin {"publishing", "replacing"}
    BY <1>1 DEF ToPublish, Replacing
  <2>. QED
    BY <1>2, <2>1 DEF ToPublish, Replacing
<1>6. FreshPrompts'
  BY <1>2, <1>3 DEF Claims, IInv, FreshPrompts, PromptSound, Unpublished
<1>7. PromptSound'
  BY <1>2, <1>3, <1>4 DEF Claims, IInv, PromptSound, FreshPrompts, Finalized, Unpublished, TypeOK
<1>8. PublishSound'
  BY <1>2, <1>4, <1>5 DEF PublishSound, ToPublish
<1>9. ReplaceSound'
  BY <1>2, <1>4, <1>5 DEF ReplaceSound, Replacing, ToPublish
<1>10. OpenRootOwned' /\ FeedbackTargetEnded' /\ NoRecordAfterEnd'
  BY <1>2 DEF IInv, OpenRootOwned, FeedbackTargetEnded, NoRecordAfterEnd
<1>11. PendingStartRuns'
  BY <1>2, <1>4 DEF PendingStartRuns, Starting
<1>12. ScoresSound'
  BY <1>2, <1>3 DEF IInv, ScoresSound, Finalized
<1>13. EndSound'
  BY <1>2, <1>3 DEF IInv, EndSound, Finalizing, TypeOK
<1>. QED
  BY <1>6, <1>7, <1>8, <1>9, <1>10, <1>11, <1>12, <1>13 DEF Relations

(* A start that publishes ends no prompt's root: the prompt it overwrites, *)
(* if any, still waits for git and has none.                               *)
LEMMA PublishStep ==
  ASSUME IInv, TypeOK', NEW h \in Prompts, Publish(h)
  PROVE  Relations'
<1>. USE NamesApart
<1>1. ToPublish(h) /\ pc[h] \in {"publishing", "replacing"}
  BY DEF Publish, ToPublish
<1>2. /\ \A i \in Handlers \ {h} : pc'[i] = pc[i] /\ awaits'[i] = awaits[i]
      /\ pc'[h] = "source" /\ promptState' = h
      /\ UNCHANGED <<startPromise, lastFinalized, finalization, root, scores,
                     sessionEnded, recordedLate>>
      /\ publishedLate' = IF sessionEnded THEN publishedLate \cup {h} ELSE publishedLate
  BY DEF Publish, PublishPrompt, Goto, IInv, TypeOK
<1>3. \A i \in Handlers : ~Replacing(i)
  BY <1>1 DEF IInv, ReplaceSound
<1>4. \A i \in Handlers : ~Replacing(i)' /\ (ToPublish(i)' => ToPublish(i))
  BY <1>2, <1>3 DEF Replacing, ToPublish, Finalized
<1>5. root[h] = "none" /\ finalization[h] = "none"
  BY <1>1 DEF IInv, FreshPrompts, Unpublished
<1>6. \A p \in Prompts : root[p] # "open"
  BY <1>1 DEF IInv, OpenRootOwned, PublishSound, FreshPrompts, Starting
<1>7. FreshPrompts'
  BY <1>1, <1>2 DEF IInv, FreshPrompts, Unpublished, Starting
<1>8. PromptSound'
  BY <1>2, <1>5 DEF PromptSound, Finalized, Unpublished
<1>9. PublishSound'
  BY <1>1, <1>2, <1>4 DEF IInv, PublishSound, TypeOK
<1>10. ReplaceSound'
  BY <1>4 DEF ReplaceSound
<1>11. OpenRootOwned'
  BY <1>2, <1>6 DEF OpenRootOwned
<1>12. PendingStartRuns'
  BY <1>2 DEF IInv, PendingStartRuns, Starting, TypeOK
<1>13. FeedbackTargetEnded'
  BY <1>2, <1>5 DEF IInv, FeedbackTargetEnded
<1>14. ScoresSound'
  BY <1>2 DEF IInv, ScoresSound, Finalized
<1>15. EndSound' /\ NoRecordAfterEnd'
  BY <1>2 DEF IInv, EndSound, NoRecordAfterEnd
<1>. QED
  BY <1>7, <1>8, <1>9, <1>10, <1>11, <1>12, <1>13, <1>14, <1>15 DEF Relations

(* A prompt nobody announced is published when there is none. *)
LEMMA UnannouncedStep ==
  ASSUME IInv, TypeOK', NEW h \in Prompts, Unannounced(h)
  PROVE  Relations'
<1>. USE NamesApart
<1>1. pc[h] \in {"idle", "pending"} /\ promptState = None
  BY DEF Unannounced
<1>2. /\ \A i \in Handlers \ {h} : pc'[i] = pc[i] /\ awaits'[i] = awaits[i]
      /\ pc'[h] = "source" /\ promptState' = h /\ startPromise' = h
      /\ UNCHANGED <<lastFinalized, finalization, root, scores, sessionEnded, recordedLate>>
      /\ publishedLate' = IF sessionEnded THEN publishedLate \cup {h} ELSE publishedLate
  BY DEF Unannounced, StartUnannounced, PublishPrompt, Goto, IInv, TypeOK
<1>3. \A i \in Handlers : ~Replacing(i)
  BY <1>1 DEF IInv, ReplaceSound, Replacing, TypeOK, Awaiting
<1>4. \A i \in Handlers : ~Replacing(i)' /\ (ToPublish(i)' => ToPublish(i))
  BY <1>2, <1>3 DEF Replacing, ToPublish, Finalized
<1>5. root[h] = "none" /\ finalization[h] = "none"
  BY <1>1 DEF IInv, FreshPrompts, Unpublished
<1>6. FreshPrompts'
  BY <1>1, <1>2 DEF IInv, FreshPrompts, Unpublished, Starting
<1>7. PromptSound'
  BY <1>2, <1>5 DEF PromptSound, Finalized, Unpublished
<1>8. PublishSound' /\ ReplaceSound' /\ PendingStartRuns'
  BY <1>2, <1>4 DEF PublishSound, ReplaceSound, PendingStartRuns, Starting
<1>9. OpenRootOwned'
  BY <1>1, <1>2 DEF IInv, OpenRootOwned
<1>10. FeedbackTargetEnded'
  BY <1>2, <1>5 DEF IInv, FeedbackTargetEnded
<1>11. ScoresSound'
  BY <1>2 DEF IInv, ScoresSound, Finalized
<1>12. EndSound' /\ NoRecordAfterEnd'
  BY <1>2 DEF IInv, EndSound, NoRecordAfterEnd
<1>. QED
  BY <1>6, <1>7, <1>8, <1>9, <1>10, <1>11, <1>12 DEF Relations

(* While git answers nobody is about to publish. *)
LEMMA SourceStep ==
  ASSUME IInv, TypeOK', NEW h \in Prompts, SourceAnswers(h)
  PROVE  Relations'
<1>. USE NamesApart
<1>1. pc[h] = "source" /\ \A i \in Handlers : ~ToPublish(i)
  BY DEF SourceAnswers, Quiet, Ready, ToPublish
<1>2. /\ \A i \in Handlers \ {h} : pc'[i] = pc[i] /\ awaits'[i] = awaits[i]
      /\ pc'[h] \in {"runtime", "tail", "done"}
      /\ startPromise' = IF pc'[h] # "runtime" /\ startPromise = h THEN None ELSE startPromise
      /\ UNCHANGED <<promptState, lastFinalized, finalization, root, scores,
                     sessionEnded, publishedLate>>
  BY <1>1 DEF SourceAnswers, EndStart, Goto, IInv, TypeOK, promptVars
<1>3. \A i \in Handlers : ~ToPublish(i)' /\ (Replacing(i)' => Replacing(i) /\ i # h)
  BY <1>1, <1>2 DEF Replacing, ToPublish, Finalized
<1>4. FreshPrompts' /\ PromptSound'
  BY <1>1, <1>2 DEF IInv, FreshPrompts, PromptSound, Finalized, Unpublished, Starting, TypeOK
<1>5. PublishSound'
  BY <1>3 DEF PublishSound
<1>6. ReplaceSound'
  BY <1>1, <1>2, <1>3 DEF IInv, ReplaceSound, Finalizing, TypeOK
<1>7. OpenRootOwned' /\ FeedbackTargetEnded' /\ ScoresSound' /\ EndSound'
  BY <1>2 DEF IInv, OpenRootOwned, FeedbackTargetEnded, ScoresSound, EndSound,
              Finalized, Finalizing
<1>8. PendingStartRuns'
  BY <1>2 DEF IInv, PendingStartRuns, Starting, TypeOK
<1>9. NoRecordAfterEnd'
  BY <1>2 DEF SourceAnswers, Stops, IInv, NoRecordAfterEnd, EndSound
<1>. QED
  BY <1>4, <1>5, <1>6, <1>7, <1>8, <1>9 DEF Relations

(* A start opens the root of the session's prompt only, and the start that *)
(* is pending while another is about to publish does not wait for the      *)
(* runtime.                                                                *)
LEMMA RuntimeStep ==
  ASSUME IInv, TypeOK', NEW h \in Prompts, RuntimeAnswers(h)
  PROVE  Relations'
<1>. USE NamesApart
<1>1. pc[h] = "runtime" /\ root[h] = "none"
  BY DEF RuntimeAnswers, IInv, FreshPrompts, Starting
<1>2. /\ \A i \in Handlers \ {h} : pc'[i] = pc[i] /\ awaits'[i] = awaits[i]
      /\ pc'[h] \in {"tail", "done"}
      /\ startPromise' = IF startPromise = h THEN None ELSE startPromise
      /\ UNCHANGED <<promptState, lastFinalized, finalization, scores,
                     sessionEnded, publishedLate, recordedLate>>
  BY DEF RuntimeAnswers, EndStart, Goto, IInv, TypeOK, rawVars
<1>3. root' = root \/ (promptState = h /\ root' = [root EXCEPT ![h] = "open"])
  BY DEF RuntimeAnswers, OpensRoot
<1>4. \A i \in Handlers : /\ Replacing(i)' => Replacing(i) /\ i # h
                          /\ ToPublish(i)' => ToPublish(i) /\ i # h
  BY <1>1, <1>2 DEF Replacing, ToPublish, Finalized
<1>5. FreshPrompts'
  BY <1>1, <1>2, <1>3 DEF IInv, FreshPrompts, Unpublished, Starting, TypeOK
<1>6. PromptSound'
  BY <1>1, <1>2 DEF IInv, PromptSound, Finalized, Unpublished, TypeOK
<1>7. PublishSound'
  BY <1>1, <1>2, <1>4 DEF IInv, PublishSound, TypeOK
<1>8. ReplaceSound'
  BY <1>1, <1>2, <1>4 DEF IInv, ReplaceSound, Finalizing, TypeOK
<1>9. OpenRootOwned' /\ FeedbackTargetEnded'
  BY <1>2, <1>3 DEF IInv, OpenRootOwned, FeedbackTargetEnded, TypeOK
<1>10. ScoresSound'
  BY <1>1, <1>2, <1>3 DEF IInv, ScoresSound, Finalized, TypeOK
<1>11. PendingStartRuns'
  BY <1>2 DEF IInv, PendingStartRuns, TypeOK
<1>12. EndSound' /\ NoRecordAfterEnd'
  BY <1>2 DEF IInv, EndSound, NoRecordAfterEnd, Finalizing
<1>. QED
  BY <1>5, <1>6, <1>7, <1>8, <1>9, <1>10, <1>11, <1>12 DEF Relations

(* The finalization of a prompt ends its root, and lets the start that     *)
(* replaces it publish.                                                    *)
LEMMA EndPromptStep ==
  ASSUME IInv, TypeOK', NEW p \in Prompts, EndPrompt(p)
  PROVE  Relations'
<1>. USE NamesApart
<1>1. /\ finalization[p] = "scoring"
      /\ finalization' = [finalization EXCEPT ![p] = "ended"]
      /\ root' = [root EXCEPT ![p] = IF @ = "open" THEN "ended" ELSE @]
      /\ UNCHANGED <<pc, awaits, startPromise, sessionEnded, publishedLate, recordedLate>>
  BY DEF EndPrompt, RootEnded, handlerVars, rawVars
<1>2. IF promptState = p
      THEN promptState' = None /\ lastFinalized' = IF root[p] # "none" THEN p ELSE lastFinalized
      ELSE UNCHANGED <<promptState, lastFinalized>>
  BY DEF EndPrompt, RememberFinalizedTrace
<1>3. \A i \in Handlers : /\ Replacing(i)' => Replacing(i) /\ awaits[i] # p
                          /\ ToPublish(i)' => \/ ToPublish(i)
                                              \/ Replacing(i) /\ awaits[i] = p
  BY <1>1 DEF Replacing, ToPublish, Finalized, IInv, TypeOK, Awaiting
<1>4. FreshPrompts'
  BY <1>1 DEF IInv, FreshPrompts, TypeOK
<1>5. PromptSound'
  BY <1>1, <1>2 DEF IInv, PromptSound, Finalized, TypeOK
<1>6. PublishSound'
  BY <1>1, <1>2, <1>3 DEF IInv, PublishSound, ReplaceSound, Replacing
<1>7. ReplaceSound'
  BY <1>1, <1>2, <1>3 DEF IInv, ReplaceSound, Finalizing, TypeOK
<1>8. OpenRootOwned'
  BY <1>1, <1>2 DEF IInv, OpenRootOwned, TypeOK
<1>9. PendingStartRuns'
  BY <1>1 DEF IInv, PendingStartRuns
<1>10. FeedbackTargetEnded'
  BY <1>1, <1>2 DEF IInv, FeedbackTargetEnded, OpenRootOwned, TypeOK
<1>11. ScoresSound'
  <2>1. scores[p] = 0
    BY <1>1 DEF IInv, ScoresSound, Finalized, TypeOK
  <2>. QED
    BY <1>1, <2>1 DEF EndPrompt, RecordPromptScores, IInv, ScoresSound, Finalized, TypeOK
<1>12. EndSound' /\ NoRecordAfterEnd'
  BY <1>1, <1>2 DEF IInv, EndSound, NoRecordAfterEnd, Finalizing, TypeOK
<1>. QED
  BY <1>4, <1>5, <1>6, <1>7, <1>8, <1>9, <1>10, <1>11, <1>12 DEF Relations

(* Closing the client ends roots, and changes nothing else. *)
LEMMA ClientClosedStep ==
  ASSUME IInv, TypeOK', NEW h \in Handlers, ClientClosed(h)
  PROVE  Relations'
<1>. USE NamesApart
<1>1. /\ \A i \in Handlers : pc'[i] # pc[i] \/ awaits'[i] # awaits[i] =>
           pc[i] = "closing" /\ pc'[i] = "done"
      /\ \A p \in Prompts : root'[p] # root[p] => root[p] = "open" /\ root'[p] = "ended"
      /\ UNCHANGED <<promptState, startPromise, lastFinalized, finalization, scores,
                     sessionEnded, publishedLate, recordedLate>>
  BY DEF ClientClosed, Goto, IInv, TypeOK, sessionVars, rawVars
<1>2. \A i \in Handlers : (Replacing(i)' => Replacing(i)) /\ (ToPublish(i)' => ToPublish(i))
  BY <1>1 DEF Replacing, ToPublish, Finalized
<1>3. FreshPrompts' /\ PromptSound'
  BY <1>1 DEF IInv, FreshPrompts, PromptSound, Finalized, Unpublished, Starting, TypeOK
<1>4. PublishSound'
  BY <1>1, <1>2 DEF IInv, PublishSound, TypeOK
<1>5. ReplaceSound'
  BY <1>1, <1>2 DEF IInv, ReplaceSound, Replacing, Finalizing, TypeOK
<1>6. OpenRootOwned' /\ FeedbackTargetEnded' /\ ScoresSound'
  BY <1>1 DEF IInv, OpenRootOwned, FeedbackTargetEnded, ScoresSound, Finalized, TypeOK
<1>7. PendingStartRuns' /\ EndSound' /\ NoRecordAfterEnd'
  BY <1>1 DEF IInv, PendingStartRuns, EndSound, NoRecordAfterEnd, Finalizing, Starting, TypeOK
<1>. QED
  BY <1>3, <1>4, <1>5, <1>6, <1>7 DEF Relations

LEMMA InitIInv == Init => IInv
<1>. SUFFICES ASSUME Init PROVE IInv
  OBVIOUS
<1>1. TypeOK
  BY TypeInit
<1>2. \A h \in Handlers : ~ToPublish(h) /\ ~Replacing(h)
  BY DEF Init, ToPublish, Replacing
<1>3. FreshPrompts
  BY NamesApart DEF Init, FreshPrompts
<1>4. PublishSound /\ ReplaceSound
  BY <1>2 DEF PublishSound, ReplaceSound
<1>. QED
  BY <1>1, <1>3, <1>4 DEF Init, IInv, PromptSound, OpenRootOwned, PendingStartRuns,
     FeedbackTargetEnded, ScoresSound, EndSound, NoRecordAfterEnd

LEMMA IInvStep == IInv /\ [Next]_vars => IInv'
<1>. SUFFICES ASSUME IInv, [Next]_vars PROVE IInv'
  OBVIOUS
<1>1. TypeOK' /\ Transition
  BY TypeStep, StepCases DEF IInv
<1>2. Relations'
  BY <1>1, CalmStep, ClaimStep, UnannouncedStep, PublishStep, SourceStep,
     RuntimeStep, ClientClosedStep, EndPromptStep DEF Transition
<1>. QED
  BY <1>1, <1>2 DEF IInv, Relations

(* The invariant that the safety theorems rest on. *)
THEOREM Invariance == SafeSpec => []IInv
  BY InitIInv, IInvStep, PTL DEF SafeSpec

-----------------------------------------------------------------------------
(* Safety                                                                  *)

(* Whatever starts, boundaries and answers interleave, an open root        *)
(* belongs to the session's prompt, so a later boundary finds and ends it. *)
THEOREM RootsOwned == SafeSpec => []OpenRootOwned
<1>1. IInv => OpenRootOwned
  BY DEF IInv
<1>. QED
  BY Invariance, <1>1, PTL

(* A prompt's scores are sent at most once, and only of an ended trace,    *)
(* however many boundaries join its finalization.                          *)
THEOREM ScoresOnce == SafeSpec => []ScoredOnce
<1>1. IInv => ScoredOnce
  BY DEF IInv, ScoresSound, ScoredOnce
<1>. QED
  BY Invariance, <1>1, PTL

(* The pending start that later starts wait for is one that still runs. *)
THEOREM PendingStartsRun == SafeSpec => []PendingStartRuns
<1>1. IInv => PendingStartRuns
  BY DEF IInv
<1>. QED
  BY Invariance, <1>1, PTL

(* Explicit feedback never targets the trace of a running prompt. *)
THEOREM FeedbackTargets == SafeSpec => []FeedbackTargetEnded
<1>1. IInv => FeedbackTargetEnded
  BY DEF IInv
<1>. QED
  BY Invariance, <1>1, PTL

(* The raw trace shows no start of a prompt that the session held at its   *)
(* end after session_end.                                                  *)
THEOREM NoLateRecord == SafeSpec => []NoRecordAfterEnd
<1>1. IInv => NoRecordAfterEnd
  BY DEF IInv
<1>. QED
  BY Invariance, <1>1, PTL

(* Nobody stops waiting for a finalization that is not over, and one that  *)
(* begins has a boundary waiting for it.                                   *)
WaitsKept ==
  /\ \A h \in Handlers : pc[h] \in {"joining", "replacing"} /\ ~Finalized(awaits[h]) =>
       pc'[h] = pc[h] /\ awaits'[h] = awaits[h]
  /\ \A h \in Handlers : pc'[h] = "replacing" =>
       pc[h] = "replacing" /\ awaits'[h] = awaits[h]
  /\ \A p \in Prompts : Finalizing(p)' /\ ~Finalizing(p) =>
       \E h \in Handlers : pc'[h] = "joining" /\ awaits'[h] = p
  /\ \A p \in Prompts : Finalized(p) => Finalized(p)'

(* A claim looks at the session's prompt after the last wait. *)
LEMMA ContendWaits ==
  ASSUME TypeOK, NEW h \in Prompts, pc[h] \in {"idle", "queued"},
         UNCHANGED <<promptState, registered, lastFinalized, spanPromise, root,
                     scores, rawVars>>,
         Return(h) \/ (~OwnsPrompt(h) /\ Contend(h))
  PROVE  WaitsKept \/ (Claims(h) /\ ~OwnsPrompt(h))
<1>1. h \in Handlers
  BY DEF Prompts
<1>2. CASE Return(h)
  BY <1>1, <1>2 DEF Return, Goto, WaitsKept, TypeOK, Finalizing, Finalized
<1>3. CASE Contend(h) /\ startPromise # None
  BY <1>1, <1>3 DEF Contend, WaitFor, WaitsKept, TypeOK, Finalizing, Finalized
<1>4. CASE Contend(h) /\ startPromise = None /\ ~OwnsPrompt(h)
  BY <1>4 DEF Contend, Claims
<1>. QED
  BY <1>2, <1>3, <1>4

LEMMA TailWaits ==
  ASSUME TypeOK, NEW h \in Handlers, pc[h] \in {"idle", "tail"}, Tail(h)
  PROVE  WaitsKept
BY DEF Tail, Goto, WaitsKept, TypeOK, Finalizing, Finalized

LEMMA UnannouncedWaits ==
  ASSUME TypeOK, NEW h \in Handlers, pc[h] \in {"idle", "pending"}, StartUnannounced(h)
  PROVE  WaitsKept
BY DEF StartUnannounced, PublishPrompt, Goto, WaitsKept, TypeOK, Finalizing, Finalized

(* A boundary waits for what it begins. *)
LEMMA BoundaryWaits ==
  ASSUME TypeOK, NEW h \in Handlers, pc[h] = "idle",
         \/ Goto(h, "done", None) /\ UNCHANGED finalization
         \/ Goto(h, "closing", None) /\ UNCHANGED finalization
         \/ /\ promptState # None
            /\ Goto(h, "joining", promptState) /\ Join(promptState)
  PROVE  WaitsKept
<1>1. CASE \/ Goto(h, "done", None) /\ UNCHANGED finalization
           \/ Goto(h, "closing", None) /\ UNCHANGED finalization
  BY <1>1 DEF Goto, WaitsKept, TypeOK, Finalizing, Finalized
<1>2. CASE /\ promptState # None
           /\ Goto(h, "joining", promptState) /\ Join(promptState)
  <2>1. /\ pc'[h] = "joining" /\ awaits'[h] = promptState
        /\ \A i \in Handlers \ {h} : pc'[i] = pc[i] /\ awaits'[i] = awaits[i]
    BY <1>2 DEF Goto, TypeOK
  <2>2. \A p \in Prompts : finalization'[p] # finalization[p] =>
          p = promptState /\ ~Finalizing(p)
    BY <1>2 DEF Join, TypeOK
  <2>. QED
    BY <2>1, <2>2 DEF WaitsKept, Finalizing, Finalized
<1>. QED
  BY <1>1, <1>2

LEMMA WaitCases ==
  ASSUME TypeOK, [Next]_vars
  PROVE  WaitsKept \/ \E h \in Prompts : Claims(h) /\ ~OwnsPrompt(h)
<1>. USE NamesApart
<1>1. ASSUME NEW h \in Handlers \cap Prompts, BeforeAgentStart(h)
      PROVE  WaitsKept \/ (Claims(h) /\ ~OwnsPrompt(h))
  BY <1>1, ContendWaits DEF BeforeAgentStart
<1>2. ASSUME NEW h \in Handlers, Resume(h)
      PROVE  h \in Prompts /\ (WaitsKept \/ (Claims(h) /\ ~OwnsPrompt(h)))
  <2>1. h \in Prompts
    BY <1>2 DEF Resume, TypeOK
  <2>. QED
    BY <1>2, <2>1, ContendWaits DEF Resume
<1>3. ASSUME NEW h \in Handlers, AgentStart(h)
      PROVE  WaitsKept
  <2>1. CASE WaitFor(h, "pending", startPromise) /\ UNCHANGED promptVars
    BY <1>3, <2>1 DEF AgentStart, WaitFor, WaitsKept, TypeOK, Finalizing, Finalized, promptVars
  <2>. QED
    BY <1>3, <2>1, TailWaits, UnannouncedWaits DEF AgentStart
<1>4. ASSUME NEW h \in Handlers, Boundary(h) \/ Shutdown(h)
      PROVE  WaitsKept
  BY <1>4, BoundaryWaits DEF Boundary, Shutdown
<1>5. ASSUME NEW h \in Handlers, Publish(h)
      PROVE  WaitsKept
  BY <1>5 DEF Publish, PublishPrompt, Goto, WaitsKept, TypeOK, Finalizing, Finalized
<1>6. ASSUME NEW h \in Handlers, SourceAnswers(h) \/ RuntimeAnswers(h)
      PROVE  WaitsKept
  BY <1>6 DEF SourceAnswers, RuntimeAnswers, EndStart, Goto, WaitsKept, TypeOK,
              Finalizing, Finalized, promptVars
<1>7. ASSUME NEW h \in Handlers, PendingOver(h)
      PROVE  WaitsKept
  <2>1. CASE Goto(h, "tail", None) /\ UNCHANGED promptVars
    BY <1>7, <2>1 DEF PendingOver, Goto, WaitsKept, TypeOK, Finalizing, Finalized, promptVars
  <2>. QED
    BY <1>7, <2>1, UnannouncedWaits DEF PendingOver
<1>8. ASSUME NEW h \in Handlers, RunTail(h)
      PROVE  WaitsKept
  BY <1>8, TailWaits DEF RunTail
<1>9. ASSUME NEW h \in Handlers, Opened(h) \/ Joined(h) \/ Flushed(h) \/ ClientClosed(h)
      PROVE  WaitsKept
  BY <1>9 DEF Opened, Joined, Flushed, ClientClosed, Goto, WaitsKept, TypeOK,
              Finalizing, Finalized, promptVars
<1>10. ASSUME NEW p \in Prompts, Finalize(p)
       PROVE  WaitsKept
  BY <1>10 DEF Finalize, Abandoned, EndPrompt, SpanAnswers, WaitsKept, TypeOK,
               Finalizing, Finalized, handlerVars
<1>11. CASE UNCHANGED vars
  BY <1>11 DEF WaitsKept, Finalizing, Finalized, vars, promptVars, handlerVars
<1>. QED
  BY <1>1, <1>2, <1>3, <1>4, <1>5, <1>6, <1>7, <1>8, <1>9, <1>10, <1>11
     DEF Next, Continue, Terminated

(* A start whose event announces what the session's prompt announces finds *)
(* that prompt finalizing when it claims.  No start waits for the prompt   *)
(* then, since none is pending; so a boundary does, and it waits on.       *)
LEMMA ReasonStep ==
  ASSUME IInv, FinalizationJoined, ReplacedForAReason, [Next]_vars
  PROVE  FinalizationJoined' /\ ReplacedForAReason'
<1>. USE NamesApart
<1>1. \A h \in Handlers : pc[h] \in {"joining", "replacing"} => awaits[h] \in Prompts
  BY DEF IInv, TypeOK, Awaiting
<1>2. ASSUME WaitsKept
      PROVE  FinalizationJoined' /\ ReplacedForAReason'
  <2>1. FinalizationJoined'
    BY <1>2 DEF FinalizationJoined, WaitsKept
  <2>2. ASSUME NEW h \in Handlers, Replacing(h)',
               Event[awaits'[h]] = "before_agent_start",
               Signature[awaits'[h]] = Signature[h]
        PROVE  \E i \in Handlers : pc'[i] = "joining" /\ awaits'[i] = awaits'[h]
    <3>1. Replacing(h) /\ awaits'[h] = awaits[h]
      BY <1>1, <1>2, <2>2 DEF Replacing, WaitsKept, Finalized
    <3>2. PICK i \in Handlers : pc[i] = "joining" /\ awaits[i] = awaits[h]
      BY <2>2, <3>1 DEF ReplacedForAReason
    <3>. QED
      BY <1>2, <3>1, <3>2 DEF WaitsKept, Replacing
  <2>. QED
    BY <2>1, <2>2 DEF ReplacedForAReason
<1>3. ASSUME NEW h \in Prompts, Claims(h), ~OwnsPrompt(h)
      PROVE  FinalizationJoined' /\ ReplacedForAReason'
  <2>1. /\ \A i \in Handlers \ {h} : pc'[i] = pc[i] /\ awaits'[i] = awaits[i]
        /\ pc[h] \in {"idle", "queued"}
    BY <1>3 DEF Claims, Claim, Goto, IInv, TypeOK
  <2>2. \A i \in Handlers : ~Replacing(i)
    BY <1>3 DEF Claims, IInv, ReplaceSound
  <2>3. \A p \in Prompts : (Finalized(p)' <=> Finalized(p))
                           /\ (Finalizing(p)' /\ ~Finalizing(p) => p = promptState)
    BY <1>3 DEF Claims, Claim, Join, Finalizing, Finalized, IInv, TypeOK
  <2>4. promptState # None => pc'[h] = "replacing" /\ awaits'[h] = promptState
    BY <1>3 DEF Claims, Claim, Goto, IInv, TypeOK
  <2>5. promptState = None => pc'[h] = "publishing"
    BY <1>3 DEF Claims, Claim, Goto, IInv, TypeOK
  <2>6. FinalizationJoined'
    BY <2>1, <2>3, <2>4 DEF FinalizationJoined, IInv, TypeOK
  <2>7. ASSUME NEW i \in Handlers, Replacing(i)'
        PROVE  i = h
    BY <1>1, <2>1, <2>2, <2>3, <2>7 DEF Replacing, Finalized
  <2>8. ASSUME Replacing(h)',
               Event[awaits'[h]] = "before_agent_start",
               Signature[awaits'[h]] = Signature[h]
        PROVE  \E i \in Handlers : pc'[i] = "joining" /\ awaits'[i] = awaits'[h]
    <3>1. promptState \in Prompts /\ awaits'[h] = promptState
      BY <2>4, <2>5, <2>8 DEF Replacing, IInv, TypeOK
    <3>2. Finalizing(promptState) /\ ~Finalized(promptState)
      BY <1>3, <2>8, <3>1 DEF OwnsPrompt, IInv, PromptSound
    <3>3. PICK i \in Handlers : /\ pc[i] \in {"joining", "replacing"}
                                /\ awaits[i] = promptState
      BY <3>1, <3>2 DEF FinalizationJoined
    <3>4. pc[i] = "joining" /\ i # h
      BY <2>1, <2>2, <3>2, <3>3 DEF Replacing
    <3>. QED
      BY <2>1, <3>1, <3>3, <3>4
  <2>. QED
    BY <2>6, <2>7, <2>8 DEF ReplacedForAReason
<1>. QED
  BY <1>2, <1>3, WaitCases DEF IInv

(* A start waits for the end of a prompt that announces the same only if a *)
(* boundary that finalizes this prompt waits with it: an event delivered   *)
(* twice cuts no prompt short.                                             *)
THEOREM ReplacedRightly == SafeSpec => []ReplacedForAReason
<1>1. Init => FinalizationJoined /\ ReplacedForAReason
  BY NamesApart DEF Init, FinalizationJoined, ReplacedForAReason, Finalizing, Replacing
<1>2. IInv /\ FinalizationJoined /\ ReplacedForAReason /\ [Next]_vars =>
        FinalizationJoined' /\ ReplacedForAReason'
  BY ReasonStep
<1>. QED
  BY Invariance, <1>1, <1>2, PTL DEF SafeSpec

-----------------------------------------------------------------------------
(* The session's roots implement RootSlot                                 *)

EndedRoots == {p \in Prompts : root[p] = "ended"}

LEMMA NoRootOpen ==
  ASSUME \A p \in Prompts : root[p] # "open"
  PROVE  OpenRoot = None
BY DEF OpenRoot

LEMMA OneRootOpen ==
  ASSUME OpenRootOwned, NEW p \in Prompts, root[p] = "open"
  PROVE  OpenRoot = p
<1>1. \A q \in Prompts : root[q] = "open" <=> q = p
  BY DEF OpenRootOwned
<1>. QED
  BY <1>1 DEF OpenRoot

(* A step that ends the open roots, if there are any, ends the slot's. *)
LEMMA RootsEnd ==
  ASSUME IInv, IInv', NEW S \in SUBSET Prompts,
         root' = [p \in Prompts |-> IF p \in S /\ root[p] = "open" THEN "ended" ELSE root[p]]
  PROVE  [Slot!Next]_Slot!vars
<1>. USE NamesApart
<1>1. CASE \E p \in S : root[p] = "open"
  <2>1. PICK p \in S : root[p] = "open"
    BY <1>1
  <2>2. \A q \in Prompts : root[q] = "open" <=> q = p
    BY <2>1 DEF IInv, OpenRootOwned
  <2>3. OpenRoot = p
    BY <2>1, OneRootOpen DEF IInv
  <2>4. OpenRoot' = None
    <3>1. \A q \in Prompts : root'[q] # "open"
      BY <2>1, <2>2
    <3>. QED
      BY <3>1 DEF OpenRoot
  <2>5. EndedRoots' = EndedRoots \cup {p}
    BY <2>1, <2>2 DEF EndedRoots
  <2>6. Slot!End
    BY <2>1, <2>3, <2>4, <2>5 DEF Slot!End, EndedRoots
  <2>. QED
    BY <2>6 DEF Slot!Next
<1>2. CASE \A p \in S : root[p] # "open"
  <2>1. root' = root
    BY <1>2 DEF IInv, TypeOK
  <2>. QED
    BY <2>1 DEF Slot!vars, OpenRoot
<1>. QED
  BY <1>1, <1>2

LEMMA RootOpens ==
  ASSUME IInv, IInv', NEW h \in Prompts, RuntimeAnswers(h)
  PROVE  [Slot!Next]_Slot!vars
<1>. USE NamesApart
<1>1. CASE root' = root
  BY <1>1 DEF Slot!vars, OpenRoot
<1>2. CASE root' # root
  <2>1. /\ promptState = h /\ root' = [root EXCEPT ![h] = "open"]
        /\ root[h] = "none" /\ h \in DOMAIN root
    BY <1>2 DEF RuntimeAnswers, OpensRoot, IInv, TypeOK, FreshPrompts, Starting
  <2>2. OpenRoot = None
    BY <2>1, NoRootOpen DEF IInv, OpenRootOwned
  <2>3. OpenRoot' = h
    <3>1. \A q \in Prompts : root'[q] = "open" <=> q = h
      BY <2>1 DEF IInv, OpenRootOwned, TypeOK
    <3>. QED
      BY <3>1 DEF OpenRoot
  <2>4. EndedRoots' = EndedRoots /\ h \notin EndedRoots
    BY <2>1 DEF EndedRoots, IInv, TypeOK
  <2>5. Slot!Open(h)
    BY <2>2, <2>3, <2>4 DEF Slot!Open, EndedRoots
  <2>. QED
    BY <2>5 DEF Slot!Next
<1>. QED
  BY <1>1, <1>2

LEMMA SlotStep ==
  ASSUME IInv, IInv', [Next]_vars
  PROVE  [Slot!Next]_Slot!vars
<1>1. Transition
  BY StepCases DEF IInv
<1>2. ASSUME root' = root
      PROVE  [Slot!Next]_Slot!vars
  BY <1>2 DEF Slot!vars, OpenRoot
<1>3. ASSUME NEW h \in Prompts,
             Claims(h) \/ Unannounced(h) \/ Publish(h) \/ SourceAnswers(h)
      PROVE  root' = root
  BY <1>3 DEF Claims, Unannounced, StartUnannounced, Publish, PublishPrompt,
              SourceAnswers, promptVars
<1>4. ASSUME NEW h \in Handlers, ClientClosed(h)
      PROVE  [Slot!Next]_Slot!vars
  <2>1. CASE OtherLease
    BY <1>4, <1>2, <2>1 DEF ClientClosed, IInv, TypeOK
  <2>2. CASE ~OtherLease
    <3>1. root' = [p \in Prompts |-> IF p \in Prompts /\ root[p] = "open"
                                     THEN "ended" ELSE root[p]]
      BY <1>4, <2>2 DEF ClientClosed
    <3>. QED
      BY <3>1, RootsEnd
  <2>. QED
    BY <2>1, <2>2
<1>5. ASSUME NEW p \in Prompts, EndPrompt(p)
      PROVE  [Slot!Next]_Slot!vars
  <2>1. root' = [q \in Prompts |-> IF q \in {p} /\ root[q] = "open"
                                   THEN "ended" ELSE root[q]]
    BY <1>5 DEF EndPrompt, RootEnded, IInv, TypeOK
  <2>. QED
    BY <2>1, RootsEnd
<1>. QED
  BY <1>1, <1>2, <1>3, <1>4, <1>5, RootOpens DEF Transition, Calm

(* The prompts of a session implement RootSlot: their roots take turns,    *)
(* and each is opened at most once and never again after its end.          *)
THEOREM ImplementsSlot == SafeSpec => RootsTakeTurns
<1>1. Init => Slot!Init
  <2>1. ASSUME Init PROVE OpenRoot = None /\ EndedRoots = {}
    BY <2>1, NoRootOpen DEF Init, EndedRoots
  <2>. QED
    BY <2>1 DEF Slot!Init, EndedRoots
<1>2. IInv /\ IInv' /\ [Next]_vars => [Slot!Next]_Slot!vars
  BY SlotStep
<1>. QED
  BY <1>1, <1>2, Invariance, PTL DEF SafeSpec, RootsTakeTurns, Slot!Spec
=============================================================================
