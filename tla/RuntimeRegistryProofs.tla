----------------------- MODULE RuntimeRegistryProofs -----------------------
(***************************************************************************)
(* Theorems about RuntimeRegistry, for any calls, configurations and       *)
(* traces.  The line lemmas say what Call, Await and Release do to the     *)
(* turns; every other step of the proof knows the line only through them.  *)
(***************************************************************************)
EXTENDS RuntimeRegistry, TLAPS

-----------------------------------------------------------------------------
(* The line                                                                *)

AtWork(c) == Turn(c) \/ pc[c] \in Working

(* The transition whose turn it is works alone, and all others wait for it. *)
LEMMA Alone ==
  ASSUME TypeOK, LineOrdered, NEW c \in Calls, AtWork(c)
  PROVE  /\ previous[c] = {} /\ c \in InLine
         /\ \A d \in Calls : d # c => pc[d] \notin Working
         /\ \A d \in InLine : d # c => c \in previous[d]
<1>1. previous[c] = {} /\ c \in InLine
  BY DEF AtWork, Turn, LineOrdered, InLine
<1>2. \A d \in InLine : d # c => c \in previous[d]
  BY <1>1 DEF LineOrdered
<1>3. ASSUME NEW d \in Calls, d # c, pc[d] \in Working PROVE FALSE
  BY <1>2, <1>3 DEF LineOrdered, InLine
<1>. QED
  BY <1>1, <1>2, <1>3

(* Nothing is drained when a transition's turn comes. *)
LEMMA NothingDrains ==
  ASSUME TypeOK, LineOrdered, NEW c \in Calls, Turn(c)
  PROVE  draining = None
<1>1. pc[c] \notin Working
  BY DEF Turn, Working
<1>2. \A d \in Calls : pc[d] \notin Working
  BY <1>1, Alone DEF AtWork
<1>. QED
  BY <1>2 DEF TypeOK

LEMMA CallLine ==
  ASSUME TypeOK, LineOrdered, NEW c \in Calls, Call(c)
  PROVE  /\ pc' \in [Calls -> PCs]
         /\ previous' \in [Calls -> SUBSET InLine']
         /\ LineOrdered'
         /\ \A d \in Calls : pc'[d] \in Working <=> pc[d] \in Working
         /\ pc'[c] = "queued" /\ \A d \in Calls : d # c => pc'[d] = pc[d]
<1>1. pc[c] = "idle" /\ c \notin InLine
  BY DEF Call, InLine, Working
<1>2. pc' = [pc EXCEPT ![c] = "queued"] /\ pc' \in [Calls -> PCs]
  BY DEF Call, TypeOK, PCs
<1>3. InLine' = InLine \cup {c}
  BY <1>2 DEF InLine, TypeOK
<1>4. previous' = [previous EXCEPT ![c] = InLine]
  BY DEF Call
<1>5. previous' \in [Calls -> SUBSET InLine']
  BY <1>3, <1>4 DEF TypeOK
<1>6. \A d \in Calls : pc'[d] \in Working <=> pc[d] \in Working
  BY <1>1, <1>2 DEF Working, TypeOK
<1>7. \A d \in Calls : d # c => pc'[d] = pc[d] /\ previous'[d] = previous[d]
  BY <1>2, <1>4 DEF TypeOK
<1>8. ASSUME NEW d \in InLine', NEW e \in InLine', d # e
      PROVE  d \in previous'[e] \/ e \in previous'[d]
  <2>1. CASE d = c
    <3>1. previous'[d] = InLine /\ e \in InLine
      BY <2>1, <1>3, <1>4, <1>8 DEF TypeOK
    <3>. QED
      BY <3>1
  <2>2. CASE e = c
    <3>1. previous'[e] = InLine /\ d \in InLine
      BY <2>2, <1>3, <1>4, <1>8 DEF TypeOK
    <3>. QED
      BY <3>1
  <2>3. CASE d # c /\ e # c
    <3>1. d \in InLine /\ e \in InLine
      BY <2>3, <1>3
    <3>. QED
      BY <2>3, <3>1, <1>7, <1>8 DEF LineOrdered, InLine
  <2>. QED
    BY <2>1, <2>2, <2>3
<1>9. ASSUME NEW d \in Calls, pc'[d] \in Working PROVE previous'[d] = {}
  <2>1. d # c /\ pc[d] \in Working
    BY <1>1, <1>6, <1>9 DEF Working
  <2>. QED
    BY <2>1, <1>7 DEF LineOrdered
<1>10. LineOrdered'
  BY <1>8, <1>9 DEF LineOrdered
<1>. QED
  BY <1>2, <1>5, <1>6, <1>7, <1>10 DEF TypeOK

LEMMA AwaitLine ==
  ASSUME TypeOK, LineOrdered, NEW c \in Calls, NEW label \in Working,
         AtWork(c), Await(c, label)
  PROVE  /\ pc' \in [Calls -> PCs]
         /\ previous' \in [Calls -> SUBSET InLine']
         /\ LineOrdered'
         /\ pc'[c] = label
         /\ \A d \in Calls : d # c => pc'[d] = pc[d] /\ pc'[d] \notin Working
<1>1. /\ pc' = [pc EXCEPT ![c] = label] /\ previous' = previous
      /\ pc' \in [Calls -> PCs]
  BY DEF Await, TypeOK, PCs
<1>2. InLine' = InLine
  BY <1>1, Alone DEF InLine, TypeOK
<1>3. \A d \in Calls : d # c => pc'[d] = pc[d] /\ pc'[d] \notin Working
  BY <1>1, Alone DEF TypeOK
<1>4. \A d \in Calls : pc'[d] \in Working => previous'[d] = {}
  BY <1>1, <1>3, Alone
<1>5. LineOrdered'
  BY <1>1, <1>2, <1>4 DEF LineOrdered
<1>. QED
  BY <1>1, <1>2, <1>3, <1>5 DEF TypeOK

LEMMA ReleaseLine ==
  ASSUME TypeOK, LineOrdered, NEW c \in Calls, NEW result \in {"done", "rejected"},
         AtWork(c), Release(c, result)
  PROVE  /\ pc' \in [Calls -> PCs]
         /\ previous' \in [Calls -> SUBSET InLine']
         /\ LineOrdered'
         /\ pc'[c] = result
         /\ \A d \in Calls : d # c => pc'[d] = pc[d]
         /\ \A d \in Calls : pc'[d] \notin Working
<1>1. /\ pc' = [pc EXCEPT ![c] = result] /\ pc' \in [Calls -> PCs]
      /\ previous' = [d \in Calls |-> previous[d] \ {c}]
  BY DEF Release, TypeOK, PCs
<1>2. InLine' = InLine \ {c}
  BY <1>1 DEF InLine, TypeOK, Working
<1>3. previous' \in [Calls -> SUBSET InLine']
  BY <1>1, <1>2 DEF TypeOK
<1>4. \A d \in Calls : pc'[d] \notin Working
  BY <1>1, Alone DEF TypeOK, Working
<1>5. \A d, e \in InLine' : d # e => d \in previous'[e] \/ e \in previous'[d]
  BY <1>1, <1>2 DEF LineOrdered, InLine
<1>6. LineOrdered'
  BY <1>4, <1>5 DEF LineOrdered
<1>. QED
  BY <1>1, <1>3, <1>4, <1>6 DEF TypeOK

-----------------------------------------------------------------------------
(* Transitions that return                                                 *)

(* What a caller records when getRuntime answers. *)
LEMMA AnswerRecords ==
  ASSUME TypeOK, NEW c \in Calls, NEW r \in Calls, Operation[c] \in Gets,
         Answer(c, r, r)
  PROVE  /\ status' \in [Calls -> {"none", "open", "ended", "settled", "lost"}]
         /\ home' \in [Calls -> Calls \cup {None}]
         /\ sink' \in [Calls -> Calls \cup {None}]
         /\ \A o \in Calls : o # c => /\ status'[o] = status[o]
                                      /\ home'[o] = home[o]
                                      /\ sink'[o] = sink[o]
         /\ \/ status'[c] = status[c] /\ home'[c] = home[c] /\ sink'[c] = sink[c]
            \/ /\ home'[c] = r /\ sink'[c] = r
               /\ status'[c] = IF c \in Scores THEN "ended" ELSE "open"
<1>1. CASE CreateTrace(c, r, r)
  BY <1>1 DEF CreateTrace, Record, TypeOK, Scores
<1>2. CASE CreateObservation(c, r, r)
  BY <1>2 DEF CreateObservation, Record, TypeOK, Scores, recordVars
<1>3. CASE SendScore(c, r)
  BY <1>3 DEF SendScore, Record, TypeOK, Scores
<1>. QED
  BY <1>1, <1>2, <1>3 DEF Answer

(* getRuntime answers with r, the only runtime that is not gone. *)
LEMMA Answered ==
  ASSUME IInv, NEW c \in Calls, NEW r \in Calls, AtWork(c),
         Operation[c] \in Gets, Key[r] = Key[c], Answer(c, r, r),
         runtime' = r, provider' = r, draining' = None,
         awaited' \subseteq Calls, owed' = owed,
         life' \in [Calls -> {"none", "live", "closing", "gone"}],
         life'[r] = "live",
         \A s \in Calls : /\ life'[s] \in {"live", "closing"} => s = r
                          /\ life'[s] # "none" => s = c \/ pc[s] = "done",
         \A o \in Unsettled : home[o] = r,
         \A o \in Traces : status[o] = "open" => home[o] = r
  PROVE  IInv'
<1>. USE RegistryAssumption DEF IInv
<1>1. Release(c, "done")
  BY DEF Answer
<1>2. /\ pc' \in [Calls -> PCs] /\ previous' \in [Calls -> SUBSET InLine']
      /\ LineOrdered' /\ pc'[c] = "done"
      /\ \A d \in Calls : d # c => pc'[d] = pc[d]
      /\ \A d \in Calls : pc'[d] \notin Working
  BY <1>1, ReleaseLine
<1>3. /\ status' \in [Calls -> {"none", "open", "ended", "settled", "lost"}]
      /\ home' \in [Calls -> Calls \cup {None}]
      /\ sink' \in [Calls -> Calls \cup {None}]
      /\ \A o \in Calls : o # c => /\ status'[o] = status[o]
                                   /\ home'[o] = home[o]
                                   /\ sink'[o] = sink[o]
      /\ \/ status'[c] = status[c] /\ home'[c] = home[c] /\ sink'[c] = sink[c]
         \/ /\ home'[c] = r /\ sink'[c] = r
            /\ status'[c] = IF c \in Scores THEN "ended" ELSE "open"
  BY AnswerRecords
<1>4. status[c] = "none" /\ c \notin Unsettled
  <2>1. pc[c] # "done"
    BY DEF AtWork, Turn, Working
  <2>. QED
    BY <2>1 DEF RecordSound, TypeOK, Unsettled
<1>5. TypeOK'
  <2>1. c \in Scores \/ c \in Spans
    BY DEF Scores, Spans, Gets
  <2>2. ASSUME NEW d \in Calls
        PROVE  /\ status'[d] # "none" => Operation[d] \in Gets /\ home'[d] # None
               /\ status'[d] = "open" => d \in Spans
    <3>1. CASE d = c
      BY <3>1, <2>1, <1>3, <1>4
    <3>2. CASE d # c
      BY <3>2, <1>3 DEF TypeOK
    <3>. QED
      BY <3>1, <3>2
  <2>. QED
    BY <1>2, <1>3, <2>2 DEF TypeOK
<1>6. RuntimeSound'
  <2>1. \A s \in Calls : life'[s] # "none" => pc'[s] = "done"
    BY <1>2
  <2>2. \A s \in Calls : life'[s] \in {"live", "closing"} => s \in {runtime', draining'}
    OBVIOUS
  <2>. QED
    BY <1>2, <2>1, <2>2 DEF RuntimeSound
<1>7. RecordSound' /\ RightProject' /\ RootsNeverLost'
  <2>1. ASSUME NEW d \in Calls
        PROVE  /\ status'[d] # "none" => /\ pc'[d] = "done"
                                         /\ home'[d] \in Calls
                                         /\ Key[home'[d]] = Key[d]
                                         /\ sink'[d] = home'[d]
               /\ status'[d] = "ended" => home'[d] = r
               /\ d \in Traces => /\ status'[d] = "open" => home'[d] = r
                                  /\ status'[d] # "lost"
    <3>1. CASE d = c
      BY <3>1, <1>2, <1>3, <1>4
    <3>2. CASE d # c
      BY <3>2, <1>2, <1>3 DEF RecordSound, RightProject, RootsNeverLost, Unsettled
    <3>. QED
      BY <3>1, <3>2
  <2>2. r # None /\ Traces' = Traces /\ \A d \in Traces : d \in Calls
    BY DEF Traces
  <2>3. RecordSound'
    BY <2>1, <2>2 DEF RecordSound
  <2>4. RightProject'
    BY <2>1 DEF RightProject
  <2>5. RootsNeverLost'
    BY <2>1, <2>2 DEF RootsNeverLost
  <2>. QED
    BY <2>3, <2>4, <2>5
<1>8. ScoresAwaited'
  BY <1>2 DEF ScoresAwaited, Working
<1>9. OwedAwaited'
  <2>1. \A d \in Calls : c \notin owed[d]
    BY <1>4 DEF OwedAwaited
  <2>2. \A d \in Calls : owed[d] \cap Unsettled' = owed[d] \cap Unsettled
    BY <1>3, <2>1 DEF Unsettled, TypeOK
  <2>3. Operation[c] \notin {"flush", "shutdown"}
    BY DEF Gets
  <2>4. \A d \in Calls : \A o \in owed[d] : status'[o] \in {"ended", "settled"}
    BY <1>3, <2>1 DEF OwedAwaited, TypeOK
  <2>5. \A d \in Calls : pc'[d] = "done" /\ Operation[d] \in {"flush", "shutdown"}
                          => owed[d] \cap Unsettled' = {}
    BY <1>2, <2>2, <2>3 DEF OwedAwaited
  <2>6. \A d \in Calls : pc'[d] \notin {"draining", "settling", "disposing", "closing"}
    BY <1>2 DEF Working
  <2>. QED
    BY <2>4, <2>5, <2>6 DEF OwedAwaited
<1>. QED
  BY <1>2, <1>5, <1>6, <1>7, <1>8, <1>9

(* A transition returns and leaves at most the runtime that is handed out. *)
LEMMA Released ==
  ASSUME IInv, NEW c \in Calls, NEW result \in {"done", "rejected"}, AtWork(c),
         Release(c, result), UNCHANGED <<recordVars, owed>>,
         runtime' = runtime, draining' = None,
         provider' \in Calls \cup {None}, runtime # None => provider' = provider,
         awaited' \subseteq Calls,
         life' \in [Calls -> {"none", "live", "closing", "gone"}],
         runtime # None => life'[runtime] = "live",
         \A s \in Calls : /\ life'[s] \in {"live", "closing"} => s = runtime
                          /\ life'[s] # "none" => pc[s] = "done",
         \A o \in Unsettled : home[o] = runtime,
         result = "done" /\ Operation[c] \in {"flush", "shutdown"}
            => owed[c] \cap Unsettled = {}
  PROVE  IInv'
<1>. USE RegistryAssumption DEF IInv
<1>1. /\ pc' \in [Calls -> PCs] /\ previous' \in [Calls -> SUBSET InLine']
      /\ LineOrdered' /\ pc'[c] = result
      /\ \A d \in Calls : d # c => pc'[d] = pc[d]
      /\ \A d \in Calls : pc'[d] \notin Working
  BY ReleaseLine
<1>2. UNCHANGED <<status, home, sink>> /\ owed' = owed /\ Unsettled' = Unsettled
  BY DEF recordVars, Unsettled
<1>3. \A d \in Calls : pc[d] = "done" => pc'[d] = "done"
  <2>1. pc[c] # "done"
    BY DEF AtWork, Turn, Working
  <2>. QED
    BY <2>1, <1>1
<1>4. TypeOK'
  BY <1>1, <1>2 DEF TypeOK
<1>5. RuntimeSound'
  <2>1. \A s \in Calls : life'[s] # "none" => pc'[s] = "done"
    BY <1>3
  <2>2. \A s \in Calls : life'[s] \in {"live", "closing"} => s \in {runtime', draining'}
    OBVIOUS
  <2>3. runtime' # None => life'[runtime'] = "live" /\ provider' = runtime'
    BY DEF RuntimeSound
  <2>. QED
    BY <1>1, <2>1, <2>2, <2>3 DEF RuntimeSound
<1>6. RecordSound' /\ RightProject' /\ RootsNeverLost'
  <2>1. \A o \in Unsettled : home[o] # None
    BY DEF TypeOK, Unsettled
  <2>. QED
    BY <1>2, <1>3, <2>1 DEF RecordSound, RightProject, RootsNeverLost, Unsettled
<1>7. ScoresAwaited'
  BY <1>1 DEF ScoresAwaited, Working
<1>8. OwedAwaited'
  BY <1>1, <1>2 DEF OwedAwaited, Working
<1>. QED
  BY <1>1, <1>4, <1>5, <1>6, <1>7, <1>8

-----------------------------------------------------------------------------
(* Calls, ends of observations and answers of the server                   *)

LEMMA CallStep == ASSUME IInv, NEW c \in Calls, Call(c) PROVE IInv'
<1>. USE RegistryAssumption DEF IInv
<1>1. /\ pc' \in [Calls -> PCs] /\ previous' \in [Calls -> SUBSET InLine']
      /\ LineOrdered'
      /\ \A d \in Calls : pc'[d] \in Working <=> pc[d] \in Working
      /\ pc'[c] = "queued" /\ \A d \in Calls : d # c => pc'[d] = pc[d]
  BY CallLine
<1>2. /\ UNCHANGED <<runtime, provider, draining, awaited, life, status, home, sink>>
      /\ owed' = [owed EXCEPT ![c] = Unsettled] /\ pc[c] = "idle"
      /\ Unsettled' = Unsettled
  BY DEF Call, runtimeVars, recordVars, Unsettled
<1>3. TypeOK'
  <2>1. Unsettled \in SUBSET Calls
    BY DEF Unsettled
  <2>. QED
    BY <1>1, <1>2, <2>1 DEF TypeOK
<1>4. \A d \in Calls : /\ pc[d] = "done" => pc'[d] = "done"
                       /\ pc'[d] \in Working \cup {"done"} => pc'[d] = pc[d]
  BY <1>1, <1>2 DEF Working
<1>5. RuntimeSound'
  BY <1>1, <1>2, <1>4 DEF RuntimeSound
<1>6. RecordSound' /\ RightProject' /\ RootsNeverLost'
  BY <1>2, <1>4 DEF RecordSound, RightProject, RootsNeverLost
<1>7. ScoresAwaited'
  BY <1>2, <1>4 DEF ScoresAwaited, Working, PendingScores
<1>8. OwedAwaited'
  <2>1. \A d \in Calls : d # c => owed'[d] = owed[d] /\ pc'[d] = pc[d]
    BY <1>1, <1>2 DEF TypeOK
  <2>2. owed'[c] = Unsettled
    BY <1>2 DEF TypeOK
  <2>. QED
    BY <1>1, <1>2, <2>1, <2>2 DEF OwedAwaited, Unsettled
<1>. QED
  BY <1>1, <1>3, <1>5, <1>6, <1>7, <1>8

(* A root ends in the runtime that is handed out, and is not lost. *)
LEMMA EndObservationStep ==
  ASSUME IInv, NEW c \in Calls, EndObservation(c) PROVE IInv'
<1>. USE RegistryAssumption DEF IInv
<1>1. /\ UNCHANGED <<pc, previous, runtime, provider, draining, awaited, life,
                     home, sink, owed>>
      /\ c \in Spans /\ status[c] = "open"
  BY DEF EndObservation, lineVars, runtimeVars
<1>2. /\ status'[c] = IF life[sink[c]] = "live" THEN "ended" ELSE "lost"
      /\ \A o \in Calls : o # c => status'[o] = status[o]
      /\ status' \in [Calls -> {"none", "open", "ended", "settled", "lost"}]
  BY DEF EndObservation, TypeOK
<1>3. home[c] \in Calls /\ sink[c] = home[c] /\ home[c] # None
  BY <1>1 DEF RightProject
<1>4. status'[c] = "ended" => home[c] \in {runtime, draining} \ {None}
  BY <1>2, <1>3 DEF RuntimeSound
<1>5. c \in Traces => status'[c] # "lost"
  BY <1>1, <1>2, <1>3 DEF RootsNeverLost, RuntimeSound
<1>6. TypeOK'
  <2>1. ASSUME NEW d \in Calls
        PROVE  /\ status'[d] # "none" => Operation[d] \in Gets /\ home'[d] # None
               /\ status'[d] = "open" => d \in Spans
    BY <1>1, <1>2, <1>3 DEF TypeOK
  <2>2. InLine' = InLine
    BY <1>1 DEF InLine
  <2>. QED
    BY <1>1, <1>2, <2>1, <2>2 DEF TypeOK
<1>7. LineOrdered' /\ RuntimeSound'
  BY <1>1 DEF LineOrdered, RuntimeSound, InLine
<1>8. RecordSound' /\ RightProject'
  BY <1>1, <1>2, <1>4 DEF RecordSound, RightProject
<1>9. RootsNeverLost'
  <2>1. \A d \in Calls : status'[d] = "open" => status[d] = "open"
    BY <1>1, <1>2
  <2>2. \A d \in Traces : d \in Calls
    BY DEF Traces
  <2>. QED
    BY <1>1, <1>2, <1>5, <2>1, <2>2 DEF RootsNeverLost, Traces
<1>10. Scores \cap Unsettled' = Scores \cap Unsettled
  BY <1>1, <1>2 DEF Unsettled, Scores, Spans
<1>11. ScoresAwaited'
  BY <1>1, <1>10 DEF ScoresAwaited, PendingScores
<1>12. OwedAwaited'
  <2>1. \A d \in Calls : c \notin owed[d]
    BY <1>1 DEF OwedAwaited
  <2>2. \A d \in Calls : owed[d] \cap Unsettled' = owed[d] \cap Unsettled
    BY <1>2, <2>1 DEF Unsettled, TypeOK
  <2>3. \A d \in Calls : \A o \in owed[d] : status'[o] = status[o]
    BY <1>2, <2>1 DEF TypeOK
  <2>4. \A d \in Calls : owed[d] \cap Unsettled' \cap Spans = owed[d] \cap Unsettled \cap Spans
    BY <2>2
  <2>. QED
    BY <1>1, <2>2, <2>3, <2>4 DEF OwedAwaited
<1>. QED
  BY <1>6, <1>7, <1>8, <1>9, <1>11, <1>12

LEMMA SettleStep == ASSUME IInv, NEW c \in Calls, Settle(c) PROVE IInv'
<1>. USE RegistryAssumption DEF IInv
<1>1. /\ UNCHANGED <<pc, previous, runtime, provider, draining, awaited, life,
                     home, sink, owed>>
      /\ status[c] = "ended"
  BY DEF Settle, lineVars, runtimeVars
<1>2. /\ status'[c] = "settled"
      /\ \A o \in Calls : o # c => status'[o] = status[o]
      /\ status' \in [Calls -> {"none", "open", "ended", "settled", "lost"}]
  BY DEF Settle, TypeOK
<1>3. TypeOK'
  <2>1. ASSUME NEW d \in Calls
        PROVE  /\ status'[d] # "none" => Operation[d] \in Gets /\ home'[d] # None
               /\ status'[d] = "open" => d \in Spans
    BY <1>1, <1>2 DEF TypeOK
  <2>2. InLine' = InLine
    BY <1>1 DEF InLine
  <2>. QED
    BY <1>1, <1>2, <2>1, <2>2 DEF TypeOK
<1>4. LineOrdered' /\ RuntimeSound'
  BY <1>1 DEF LineOrdered, RuntimeSound, InLine
<1>5. RecordSound' /\ RightProject'
  BY <1>1, <1>2 DEF RecordSound, RightProject
<1>6. RootsNeverLost'
  <2>1. \A d \in Traces : d \in Calls
    BY DEF Traces
  <2>. QED
    BY <1>1, <1>2, <2>1 DEF RootsNeverLost, Traces
<1>7. Unsettled' = Unsettled \ {c}
  BY <1>1, <1>2 DEF Unsettled
<1>8. ScoresAwaited'
  BY <1>1, <1>7 DEF ScoresAwaited, PendingScores
<1>9. OwedAwaited'
  <2>1. \A d \in Calls : \A o \in owed[d] : status'[o] \in {"ended", "settled"}
    BY <1>2 DEF OwedAwaited, TypeOK
  <2>. QED
    BY <1>1, <1>7, <2>1 DEF OwedAwaited
<1>. QED
  BY <1>3, <1>4, <1>5, <1>6, <1>8, <1>9

-----------------------------------------------------------------------------
(* Transitions that wait                                                   *)

(* What is unsettled when a transition's turn comes belongs to the runtime *)
(* that is handed out, and so do the open roots.                           *)
LEMMA AtTurn ==
  ASSUME IInv, NEW c \in Calls, Turn(c)
  PROVE  /\ draining = None /\ \A d \in Calls : pc[d] \notin Working
         /\ \A o \in Unsettled : home[o] = runtime /\ sink[o] = runtime /\ runtime # None
         /\ \A r \in Calls : life[r] \in {"live", "closing"} => r = runtime
<1>. USE RegistryAssumption DEF IInv
<1>1. draining = None
  BY NothingDrains
<1>2. \A d \in Calls : pc[d] \notin Working
  BY <1>1 DEF TypeOK
<1>3. \A o \in Unsettled : home[o] = runtime /\ sink[o] = runtime /\ runtime # None
  BY <1>1 DEF RecordSound, RightProject, Unsettled
<1>. QED
  BY <1>1, <1>2, <1>3 DEF RuntimeSound

LEMMA FlushBegins ==
  ASSUME IInv, NEW c \in Calls, Turn(c), Operation[c] = "flush", runtime # None,
         FlushRuntime(c), owed' = owed
  PROVE  IInv'
<1>. USE RegistryAssumption DEF IInv
<1>1. /\ UNCHANGED <<runtime, provider, life, status, home, sink, owed>>
      /\ draining' = runtime /\ awaited' = UnsentSpans(runtime)
      /\ Await(c, "draining") /\ Unsettled' = Unsettled
  BY DEF FlushRuntime, DrainSpans, recordVars, Unsettled
<1>2. /\ pc' \in [Calls -> PCs] /\ previous' \in [Calls -> SUBSET InLine']
      /\ LineOrdered' /\ pc'[c] = "draining"
      /\ \A d \in Calls : d # c => pc'[d] = pc[d] /\ pc'[d] \notin Working
  BY <1>1, AwaitLine DEF Working, AtWork
<1>3. pc[c] = "queued"
  BY DEF Turn
<1>4. \A d \in Calls : pc[d] = "done" => pc'[d] = "done"
  BY <1>2, <1>3
<1>5. TypeOK'
  <2>1. awaited' \subseteq Calls /\ pc'[c] \in Working
    BY <1>1, <1>2 DEF UnsentSpans, Spans, Working
  <2>. QED
    BY <1>1, <1>2, <2>1 DEF TypeOK
<1>6. RuntimeSound'
  BY <1>1, <1>2, <1>4, AtTurn DEF RuntimeSound
<1>7. RecordSound' /\ RightProject' /\ RootsNeverLost'
  BY <1>1, <1>4, AtTurn DEF RecordSound, RightProject, RootsNeverLost, Unsettled
<1>8. ScoresAwaited'
  BY <1>2 DEF ScoresAwaited, Working
<1>9. OwedAwaited'
  <2>1. owed[c] \cap Unsettled \cap Spans \subseteq UnsentSpans(runtime)
    BY AtTurn DEF UnsentSpans
  <2>2. ASSUME NEW d \in Calls, d # c
        PROVE  /\ pc'[d] \notin {"draining", "settling", "disposing", "closing"}
               /\ pc'[d] = "done" => pc[d] = "done"
    BY <1>2, <2>2 DEF Working
  <2>3. pc'[c] \notin {"settling", "disposing", "closing", "done"}
    BY <1>2
  <2>. QED
    BY <1>1, <2>1, <2>2, <2>3 DEF OwedAwaited
<1>. QED
  BY <1>2, <1>5, <1>6, <1>7, <1>8, <1>9

LEMMA ShutdownBegins ==
  ASSUME IInv, NEW c \in Calls, Turn(c), Operation[c] # "flush", runtime # None,
         ShutdownRuntime(c), owed' = owed
  PROVE  IInv'
<1>. USE RegistryAssumption DEF IInv
<1>1. /\ UNCHANGED <<provider, life, home, sink, owed>> /\ runtime' = None
      /\ draining' = runtime
      /\ awaited' = UnsentSpans(runtime) \cup (Traces \cap Open(runtime))
      /\ Await(c, "draining")
      /\ status' = [o \in Calls |-> IF o \in Traces \cap Open(runtime)
                                    THEN "ended" ELSE status[o]]
  BY DEF ShutdownRuntime, DrainSpans, FinalizeOpenTraces
<1>2. /\ pc' \in [Calls -> PCs] /\ previous' \in [Calls -> SUBSET InLine']
      /\ LineOrdered' /\ pc'[c] = "draining"
      /\ \A d \in Calls : d # c => pc'[d] = pc[d] /\ pc'[d] \notin Working
  BY <1>1, AwaitLine DEF Working, AtWork
<1>3. \A d \in Calls : pc[d] = "done" => pc'[d] = "done"
  BY <1>2 DEF Turn
<1>4. \A o \in Calls :
        /\ o \in Traces \cap Open(runtime) =>
             /\ status'[o] = "ended" /\ status[o] = "open" /\ home[o] = runtime
        /\ o \notin Traces \cap Open(runtime) => status'[o] = status[o]
  BY <1>1 DEF Open
<1>5. \A o \in Unsettled' : o \in Unsettled \/ o \in Traces \cap Open(runtime)
  BY <1>4 DEF Unsettled
<1>6. TypeOK'
  <2>1. awaited' \subseteq Calls /\ pc'[c] \in Working
    BY <1>1, <1>2 DEF UnsentSpans, Spans, Working, Traces
  <2>2. status' \in [Calls -> {"none", "open", "ended", "settled", "lost"}]
    BY <1>1 DEF TypeOK
  <2>3. ASSUME NEW d \in Calls
        PROVE  /\ status'[d] # "none" => Operation[d] \in Gets /\ home'[d] # None
               /\ status'[d] = "open" => d \in Spans
    BY <1>1, <1>4 DEF TypeOK
  <2>. QED
    BY <1>1, <1>2, <2>1, <2>2, <2>3 DEF TypeOK
<1>7. RuntimeSound'
  BY <1>1, <1>2, <1>3, AtTurn DEF RuntimeSound
<1>8. RecordSound' /\ RightProject'
  BY <1>1, <1>3, <1>4, AtTurn DEF RecordSound, RightProject, Unsettled
<1>9. RootsNeverLost'
  <2>1. ASSUME NEW o \in Traces PROVE status'[o] \notin {"open", "lost"}
    <3>1. o \in Calls /\ o \in Spans
      BY DEF Traces, Spans
    <3>2. status[o] = "open" => o \in Open(runtime)
      BY <3>1 DEF Open, RootsNeverLost
    <3>. QED
      BY <3>1, <3>2, <1>4 DEF RootsNeverLost
  <2>. QED
    BY <2>1 DEF RootsNeverLost, Traces
<1>10. ScoresAwaited'
  BY <1>2 DEF ScoresAwaited, Working
<1>11. OwedAwaited'
  <2>1. \A d \in Calls : \A o \in owed[d] : o \notin Open(runtime) /\ status'[o] = status[o]
    BY <1>4 DEF OwedAwaited, Open, TypeOK
  <2>2. \A d \in Calls : owed[d] \cap Unsettled' \subseteq owed[d] \cap Unsettled
    BY <1>5, <2>1
  <2>3. owed[c] \cap Unsettled' \cap Spans \subseteq awaited'
    BY <1>1, <2>2, AtTurn DEF UnsentSpans
  <2>4. ASSUME NEW d \in Calls, d # c
        PROVE  /\ pc'[d] \notin {"draining", "settling", "disposing", "closing"}
               /\ pc'[d] = "done" => pc[d] = "done"
    BY <1>2, <2>4 DEF Working
  <2>5. pc'[c] \notin {"settling", "disposing", "closing", "done"}
    BY <1>2
  <2>6. \A d \in Calls : \A o \in owed[d] : status'[o] \in {"ended", "settled"}
    BY <2>1 DEF OwedAwaited
  <2>. QED
    BY <1>1, <2>2, <2>3, <2>4, <2>5, <2>6 DEF OwedAwaited
<1>. QED
  BY <1>2, <1>6, <1>7, <1>8, <1>9, <1>10, <1>11

(* What the transition at work knows. *)
LEMMA AtWorkKnows ==
  ASSUME IInv, NEW c \in Calls, pc[c] \in Working
  PROVE  /\ draining \in Calls /\ AtWork(c)
         /\ \A d \in Calls : d # c => pc[d] \notin Working
         /\ \A o \in Unsettled : home[o] = draining /\ sink[o] = draining
         /\ \A r \in Calls : life[r] \in {"live", "closing"} => r = draining
         /\ Unsettled \subseteq Scores \cup Spans
<1>. USE RegistryAssumption DEF IInv
<1>1. draining \in Calls /\ AtWork(c)
  BY DEF TypeOK, AtWork
<1>2. runtime = draining \/ runtime = None
  BY DEF RuntimeSound
<1>3. \A o \in Unsettled : home[o] = draining /\ sink[o] = draining
  BY <1>2 DEF RecordSound, RightProject, Unsettled
<1>4. Unsettled \subseteq Scores \cup Spans
  BY DEF TypeOK, Unsettled, Scores, Spans, Gets
<1>. QED
  BY <1>1, <1>2, <1>3, <1>4, Alone DEF RuntimeSound

LEMMA SpansDrainedStep ==
  ASSUME IInv, NEW c \in Calls, SpansDrained(c) PROVE IInv'
<1>. USE RegistryAssumption DEF IInv
<1>1. /\ UNCHANGED <<runtime, provider, draining, life, status, home, sink, owed>>
      /\ pc[c] = "draining" /\ awaited \cap Unsettled = {}
      /\ awaited' = PendingScores(draining) /\ Await(c, "settling")
      /\ Unsettled' = Unsettled
  BY DEF SpansDrained, recordVars, Unsettled
<1>2. pc[c] \in Working /\ "settling" \in Working
  BY <1>1 DEF Working
<1>3. /\ pc' \in [Calls -> PCs] /\ previous' \in [Calls -> SUBSET InLine']
      /\ LineOrdered' /\ pc'[c] = "settling"
      /\ \A d \in Calls : d # c => pc'[d] = pc[d] /\ pc'[d] \notin Working
  BY <1>1, <1>2, AwaitLine DEF AtWork
<1>4. \A d \in Calls : pc[d] = "done" => pc'[d] = "done"
  BY <1>1, <1>3
<1>5. TypeOK'
  <2>1. awaited' \subseteq Calls
    BY <1>1 DEF PendingScores, Scores
  <2>2. draining' # None
    BY <1>1, <1>2, AtWorkKnows
  <2>. QED
    BY <1>1, <1>2, <1>3, <2>1, <2>2 DEF TypeOK
<1>6. RuntimeSound'
  BY <1>1, <1>2, <1>3, <1>4 DEF RuntimeSound
<1>7. RecordSound' /\ RightProject' /\ RootsNeverLost'
  BY <1>1, <1>4 DEF RecordSound, RightProject, RootsNeverLost
<1>8. ScoresAwaited'
  BY <1>1, <1>3 DEF ScoresAwaited, Working, PendingScores
<1>9. OwedAwaited'
  <2>1. Operation[c] \in {"flush", "shutdown"} =>
          owed[c] \cap Unsettled \subseteq PendingScores(draining)
    BY <1>1, <1>2, AtWorkKnows DEF OwedAwaited, PendingScores
  <2>2. ASSUME NEW d \in Calls, d # c
        PROVE  /\ pc'[d] \notin {"draining", "settling", "disposing", "closing"}
               /\ pc'[d] = "done" => pc[d] = "done"
    BY <1>3, <2>2 DEF Working
  <2>. QED
    BY <1>1, <1>3, <2>1, <2>2 DEF OwedAwaited
<1>. QED
  BY <1>3, <1>5, <1>6, <1>7, <1>8, <1>9

LEMMA ScoresSettledStep ==
  ASSUME IInv, NEW c \in Calls, ScoresSettled(c) PROVE IInv'
<1>. USE RegistryAssumption DEF IInv
<1>1. /\ UNCHANGED <<runtime, provider, life, status, home, sink, owed>>
      /\ UNCHANGED recordVars
      /\ pc[c] = "settling" /\ awaited \cap Unsettled = {}
      /\ awaited' = {} /\ Unsettled' = Unsettled
      /\ IF Operation[c] = "flush"
         THEN draining' = None /\ Release(c, "done")
         ELSE Await(c, "disposing") /\ UNCHANGED draining
  BY DEF ScoresSettled, recordVars, Unsettled
<1>2. pc[c] \in Working /\ "disposing" \in Working
  BY <1>1 DEF Working
<1>3. Operation[c] \in {"flush", "shutdown"} => owed[c] \cap Unsettled = {}
  BY <1>1 DEF OwedAwaited
<1>4. PendingScores(draining) = {}
  BY <1>1 DEF ScoresAwaited, PendingScores
<1>5. CASE Operation[c] = "flush"
  <2>1. /\ runtime = draining /\ runtime # None /\ life[runtime] = "live"
        /\ provider' = provider /\ draining' = None /\ Release(c, "done")
    BY <1>1, <1>2, <1>5, AtWorkKnows DEF RuntimeSound
  <2>2. \A s \in Calls : /\ life'[s] \in {"live", "closing"} => s = runtime
                         /\ life'[s] # "none" => pc[s] = "done"
    BY <1>1, <1>2, <2>1, AtWorkKnows DEF RuntimeSound
  <2>3. \A o \in Unsettled : home[o] = runtime
    BY <1>2, <2>1, AtWorkKnows
  <2>4. /\ provider' \in Calls \cup {None} /\ awaited' \subseteq Calls
        /\ life' \in [Calls -> {"none", "live", "closing", "gone"}]
        /\ life'[runtime] = "live" /\ AtWork(c)
    BY <1>1, <1>2, <2>1, AtWorkKnows DEF TypeOK
  <2>. QED
    BY <1>1, <1>3, <2>1, <2>2, <2>3, <2>4, Released
<1>6. CASE Operation[c] # "flush"
  <2>1. Await(c, "disposing") /\ draining' = draining
    BY <1>1, <1>6
  <2>2. /\ pc' \in [Calls -> PCs] /\ previous' \in [Calls -> SUBSET InLine']
        /\ LineOrdered' /\ pc'[c] = "disposing"
        /\ \A d \in Calls : d # c => pc'[d] = pc[d] /\ pc'[d] \notin Working
    BY <1>2, <2>1, AwaitLine DEF AtWork
  <2>3. \A d \in Calls : pc[d] = "done" => pc'[d] = "done"
    BY <1>1, <2>2
  <2>4. TypeOK'
    <3>1. draining' # None
      BY <2>1, <1>2, AtWorkKnows
    <3>. QED
      BY <1>1, <1>2, <2>1, <2>2, <3>1 DEF TypeOK
  <2>5. RuntimeSound'
    BY <1>1, <1>2, <1>6, <2>1, <2>2, <2>3 DEF RuntimeSound
  <2>6. RecordSound' /\ RightProject' /\ RootsNeverLost'
    BY <1>1, <2>1, <2>3 DEF RecordSound, RightProject, RootsNeverLost
  <2>7. ScoresAwaited'
    BY <1>1, <1>4, <2>1, <2>2 DEF ScoresAwaited, Working, PendingScores
  <2>8. OwedAwaited'
    <3>1. ASSUME NEW d \in Calls, d # c
          PROVE  /\ pc'[d] \notin {"draining", "settling", "disposing", "closing"}
                 /\ pc'[d] = "done" => pc[d] = "done"
      BY <2>2, <3>1 DEF Working
    <3>. QED
      BY <1>1, <1>3, <2>2, <3>1 DEF OwedAwaited
  <2>. QED
    BY <2>2, <2>4, <2>5, <2>6, <2>7, <2>8
<1>. QED
  BY <1>5, <1>6

LEMMA ClientDisposedStep ==
  ASSUME IInv, NEW c \in Calls, ClientDisposed(c) PROVE IInv'
<1>. USE RegistryAssumption DEF IInv
<1>1. /\ UNCHANGED <<runtime, provider, draining, awaited, status, home, sink, owed>>
      /\ pc[c] = "disposing" /\ life' = [life EXCEPT ![draining] = "closing"]
      /\ Await(c, "closing") /\ Unsettled' = Unsettled
  BY DEF ClientDisposed, recordVars, Unsettled
<1>2. pc[c] \in Working /\ "closing" \in Working
  BY <1>1 DEF Working
<1>3. /\ pc' \in [Calls -> PCs] /\ previous' \in [Calls -> SUBSET InLine']
      /\ LineOrdered' /\ pc'[c] = "closing"
      /\ \A d \in Calls : d # c => pc'[d] = pc[d] /\ pc'[d] \notin Working
  BY <1>1, <1>2, AwaitLine DEF AtWork
<1>4. \A d \in Calls : pc[d] = "done" => pc'[d] = "done"
  BY <1>1, <1>3
<1>5. /\ draining \in Calls /\ runtime = None /\ Operation[c] # "flush"
      /\ life[draining] = "live"
  BY <1>1, <1>2, AtWorkKnows DEF RuntimeSound
<1>6. /\ life' \in [Calls -> {"none", "live", "closing", "gone"}]
      /\ life'[draining] = "closing" /\ \A r \in Calls : r # draining => life'[r] = life[r]
  BY <1>1, <1>5 DEF TypeOK
<1>7. TypeOK'
  BY <1>1, <1>2, <1>3, <1>5, <1>6 DEF TypeOK
<1>8. RuntimeSound'
  BY <1>1, <1>2, <1>3, <1>4, <1>5, <1>6 DEF RuntimeSound
<1>9. RecordSound' /\ RightProject' /\ RootsNeverLost'
  BY <1>1, <1>4 DEF RecordSound, RightProject, RootsNeverLost
<1>10. ScoresAwaited'
  BY <1>1, <1>3 DEF ScoresAwaited, Working, PendingScores
<1>11. OwedAwaited'
  <2>1. ASSUME NEW d \in Calls, d # c
        PROVE  /\ pc'[d] \notin {"draining", "settling", "disposing", "closing"}
               /\ pc'[d] = "done" => pc[d] = "done"
    BY <1>3, <2>1 DEF Working
  <2>. QED
    BY <1>1, <1>3, <2>1 DEF OwedAwaited
<1>. QED
  BY <1>3, <1>7, <1>8, <1>9, <1>10, <1>11

(* Nothing is left of a runtime whose exporter has drained. *)
LEMMA ProviderDisposedStep ==
  ASSUME IInv, NEW c \in Calls, ProviderDisposed(c) PROVE IInv'
<1>. USE RegistryAssumption DEF IInv
<1>1. pc[c] = "closing" /\ UnsentSpans(draining) = {} /\ draining' = None
      /\ awaited' = awaited /\ owed' = owed
  BY DEF ProviderDisposed
<1>2. pc[c] \in Working
  BY <1>1 DEF Working
<1>3. /\ draining \in Calls /\ runtime = None /\ c # draining /\ AtWork(c)
      /\ life[c] = "none" /\ life[draining] = "closing"
  <2>1. draining \in Calls /\ runtime = None /\ life[draining] = "closing" /\ AtWork(c)
    BY <1>1, <1>2, AtWorkKnows DEF RuntimeSound
  <2>2. life[c] = "none"
    BY <1>1 DEF RuntimeSound
  <2>. QED
    BY <2>1, <2>2
<1>4. Unsettled = {}
  <2>1. PendingScores(draining) = {}
    BY <1>1 DEF ScoresAwaited
  <2>2. \A o \in Unsettled : o \in PendingScores(draining) \cup UnsentSpans(draining)
    BY <1>2, AtWorkKnows DEF PendingScores, UnsentSpans
  <2>. QED
    BY <1>1, <2>1, <2>2
<1>5. \A o \in Traces : status[o] # "open"
  BY <1>3 DEF RootsNeverLost, TypeOK, Traces
<1>6. \A r \in Calls : /\ life[r] \in {"live", "closing"} => r = draining
                       /\ life[r] # "none" => pc[r] = "done"
  BY <1>2, AtWorkKnows DEF RuntimeSound
<1>7. CASE /\ Operation[c] \in Gets /\ runtime' = c /\ provider' = c /\ Answer(c, c, c)
           /\ life' = [life EXCEPT ![draining] = "gone", ![c] = "live"]
  <2>1. /\ life' \in [Calls -> {"none", "live", "closing", "gone"}]
        /\ life'[c] = "live" /\ life'[draining] = "gone"
        /\ \A s \in Calls : s # c /\ s # draining => life'[s] = life[s]
    BY <1>3, <1>7 DEF TypeOK
  <2>2. \A s \in Calls : /\ life'[s] \in {"live", "closing"} => s = c
                         /\ life'[s] # "none" => s = c \/ pc[s] = "done"
    BY <1>3, <1>6, <2>1
  <2>3. awaited' \subseteq Calls
    BY <1>1 DEF TypeOK
  <2>. QED
    BY <1>1, <1>3, <1>4, <1>5, <1>7, <2>1, <2>2, <2>3, Answered
<1>8. ASSUME NEW result \in {"done", "rejected"}, Release(c, result),
             runtime' = None, provider' \in {None, c}, UNCHANGED recordVars,
             life' = [life EXCEPT ![draining] = "gone"]
      PROVE  IInv'
  <2>1. /\ life' \in [Calls -> {"none", "live", "closing", "gone"}]
        /\ life'[draining] = "gone"
        /\ \A s \in Calls : s # draining => life'[s] = life[s]
    BY <1>3, <1>8 DEF TypeOK
  <2>2. \A s \in Calls : /\ life'[s] \in {"live", "closing"} => s = runtime
                         /\ life'[s] # "none" => pc[s] = "done"
    BY <1>3, <1>6, <2>1
  <2>3. awaited' \subseteq Calls /\ UNCHANGED <<recordVars, owed>>
    BY <1>1, <1>8 DEF TypeOK
  <2>. QED
    BY <1>1, <1>3, <1>4, <1>8, <2>1, <2>2, <2>3, Released
<1>9. CASE Operation[c] \in Gets /\ ~(runtime' = c)
  <2>1. /\ runtime' = None /\ provider' \in {None, c} /\ UNCHANGED recordVars
        /\ Release(c, "rejected")
    BY <1>1, <1>9 DEF ProviderDisposed, CreateRuntime, Reject
  <2>2. life' = [life EXCEPT ![draining] = "gone"]
    <3>1. life' = [life EXCEPT ![draining] = "gone", ![c] = @]
      BY <1>9, <1>1 DEF ProviderDisposed
    <3>. QED
      BY <3>1, <1>3 DEF TypeOK
  <2>. QED
    BY <1>8, <2>1, <2>2
<1>10. CASE Operation[c] \in Gets /\ runtime' = c
  <2>1. c # None
    OBVIOUS
  <2>2. provider' = c /\ Answer(c, c, c)
    BY <1>10, <2>1 DEF ProviderDisposed, CreateRuntime
  <2>3. life' = [life EXCEPT ![draining] = "gone", ![c] = "live"]
    BY <1>10 DEF ProviderDisposed
  <2>. QED
    BY <1>7, <1>10, <2>2, <2>3
<1>11. CASE Operation[c] \notin Gets
  BY <1>3, <1>8, <1>11 DEF ProviderDisposed
<1>. QED
  BY <1>9, <1>10, <1>11

(* A transition that finds nothing to do, or that is refused. *)
LEMMA ReturnsAtOnce ==
  ASSUME IInv, NEW c \in Calls, NEW result \in {"done", "rejected"}, Turn(c),
         Release(c, result), UNCHANGED <<runtimeVars, recordVars, owed>>,
         result = "done" /\ Operation[c] \in {"flush", "shutdown"} => runtime = None
  PROVE  IInv'
<1>. USE RegistryAssumption DEF IInv
<1>1. /\ draining' = None /\ runtime' = runtime /\ provider' = provider
      /\ awaited' = awaited /\ life' = life /\ AtWork(c)
  BY AtTurn DEF runtimeVars, AtWork
<1>2. /\ \A o \in Unsettled : home[o] = runtime
      /\ runtime = None => Unsettled = {}
  BY AtTurn
<1>3. \A s \in Calls : /\ life[s] \in {"live", "closing"} => s = runtime
                       /\ life[s] # "none" => pc[s] = "done"
  BY AtTurn DEF RuntimeSound
<1>4. /\ provider' \in Calls \cup {None} /\ awaited' \subseteq Calls
      /\ life' \in [Calls -> {"none", "live", "closing", "gone"}]
      /\ runtime # None => life'[runtime] = "live"
  BY <1>1 DEF TypeOK, RuntimeSound
<1>5. UNCHANGED <<recordVars, owed>>
  OBVIOUS
<1>. QED
  BY <1>1, <1>2, <1>3, <1>4, <1>5, Released

LEMMA GetRuntimeStep ==
  ASSUME IInv, NEW c \in Calls, GetRuntime(c) PROVE IInv'
<1>. USE RegistryAssumption DEF IInv
<1>1. Turn(c) /\ Operation[c] \in Gets /\ AtWork(c) /\ owed' = owed
  BY DEF GetRuntime, AtWork
<1>2. /\ draining = None
      /\ \A o \in Unsettled : home[o] = runtime
      /\ runtime = None => Unsettled = {}
      /\ \A o \in Traces : status[o] = "open" => home[o] = runtime
      /\ \A s \in Calls : /\ life[s] \in {"live", "closing"} => s = runtime
                          /\ life[s] # "none" => pc[s] = "done"
  BY <1>1, AtTurn DEF RootsNeverLost, RuntimeSound
<1>3. Operation[c] \notin {"flush", "shutdown"}
  BY <1>1 DEF Gets
<1>4. CASE Serves(runtime, c) /\ Answer(c, runtime, provider) /\ UNCHANGED runtimeVars
  <2>1. runtime \in Calls /\ Key[runtime] = Key[c] /\ provider = runtime
        /\ life[runtime] = "live"
    BY <1>4 DEF Serves, RuntimeSound, TypeOK
  <2>2. /\ runtime' = runtime /\ provider' = runtime /\ draining' = None
        /\ awaited' = awaited /\ life' = life
    BY <1>2, <1>4, <2>1 DEF runtimeVars
  <2>3. awaited' \subseteq Calls
        /\ life' \in [Calls -> {"none", "live", "closing", "gone"}]
    BY <2>2 DEF TypeOK
  <2>. QED
    BY <1>1, <1>2, <1>4, <2>1, <2>2, <2>3, Answered
<1>5. CASE /\ runtime = None /\ CreateRuntime(c, provider)
           /\ life' = [life EXCEPT ![c] = IF runtime' = c THEN "live" ELSE @]
           /\ UNCHANGED <<draining, awaited>>
  <2>1. awaited' \subseteq Calls /\ c # None
        /\ life' \in [Calls -> {"none", "live", "closing", "gone"}]
    BY <1>5 DEF TypeOK
  <2>2. CASE runtime' = c /\ provider' = c /\ Answer(c, c, c)
    <3>1. /\ life'[c] = "live" /\ \A s \in Calls : s # c => life'[s] = life[s]
      BY <1>5, <2>2 DEF TypeOK
    <3>2. \A s \in Calls : /\ life'[s] \in {"live", "closing"} => s = c
                           /\ life'[s] # "none" => s = c \/ pc[s] = "done"
      BY <1>2, <1>5, <2>1, <3>1
    <3>3. \A o \in Unsettled : home[o] = c
      BY <1>2, <1>5
    <3>4. \A o \in Traces : status[o] = "open" => home[o] = c
      BY <1>2, <1>5 DEF TypeOK, Traces
    <3>. QED
      BY <1>1, <1>2, <1>5, <2>1, <2>2, <3>1, <3>2, <3>3, <3>4, Answered
  <2>3. CASE /\ runtime' = None /\ provider' \in {provider, c} /\ UNCHANGED recordVars
             /\ Reject(c)
    <3>1. life' = life
      BY <1>5, <2>1, <2>3 DEF TypeOK
    <3>2. Release(c, "rejected") /\ UNCHANGED <<recordVars, owed>>
      BY <1>1, <2>3 DEF Reject
    <3>. QED
      BY <1>1, <1>2, <1>5, <2>1, <2>3, <3>1, <3>2, Released DEF TypeOK
  <2>. QED
    BY <1>5, <2>2, <2>3 DEF CreateRuntime
<1>6. CASE Reject(c) /\ UNCHANGED <<runtimeVars, recordVars>>
  <2>1. Release(c, "rejected") /\ UNCHANGED <<runtimeVars, recordVars, owed>>
    BY <1>1, <1>6 DEF Reject
  <2>. QED
    BY <1>1, <2>1, ReturnsAtOnce
<1>7. CASE runtime # None /\ ShutdownRuntime(c)
  BY <1>1, <1>7, ShutdownBegins DEF Gets
<1>. QED
  BY <1>4, <1>5, <1>6, <1>7 DEF GetRuntime

LEMMA TransitionStep ==
  ASSUME IInv, NEW c \in Calls, Transition(c) PROVE IInv'
<1>1. CASE FlushClient(c)
  <2>1. CASE runtime = None
    BY <1>1, <2>1, ReturnsAtOnce DEF FlushClient
  <2>2. CASE runtime # None
    BY <1>1, <2>2, FlushBegins DEF FlushClient
  <2>. QED
    BY <2>1, <2>2
<1>2. CASE ReconfigureRuntime(c)
  <2>1. CASE runtime = None \/ Busy(runtime)
    BY <1>2, <2>1, ReturnsAtOnce DEF ReconfigureRuntime
  <2>2. CASE ~(runtime = None \/ Busy(runtime))
    BY <1>2, <2>2, ShutdownBegins DEF ReconfigureRuntime
  <2>. QED
    BY <2>1, <2>2
<1>3. CASE ShutdownClient(c)
  <2>1. CASE runtime = None
    BY <1>3, <2>1, ReturnsAtOnce DEF ShutdownClient
  <2>2. CASE runtime # None
    BY <1>3, <2>2, ShutdownBegins DEF ShutdownClient
  <2>. QED
    BY <2>1, <2>2
<1>. QED
  BY <1>1, <1>2, <1>3, GetRuntimeStep, SpansDrainedStep, ScoresSettledStep,
     ClientDisposedStep, ProviderDisposedStep DEF Transition

-----------------------------------------------------------------------------
(* Theorems                                                                *)

LEMMA InitIInv == Init => IInv
  BY RegistryAssumption DEF Init, IInv, TypeOK, LineOrdered, RuntimeSound, RecordSound,
     RightProject, RootsNeverLost, ScoresAwaited, OwedAwaited, InLine, Working, PCs,
     Traces

LEMMA NextIInv == IInv /\ [Next]_vars => IInv'
<1>1. ASSUME IInv, UNCHANGED vars PROVE IInv'
  BY <1>1 DEF vars, lineVars, runtimeVars, recordVars, IInv, TypeOK, LineOrdered,
     RuntimeSound, RecordSound, RightProject, RootsNeverLost, ScoresAwaited,
     OwedAwaited, InLine, PendingScores, Unsettled
<1>2. ASSUME IInv, Next PROVE IInv'
  BY <1>1, <1>2, CallStep, EndObservationStep, SettleStep, TransitionStep
     DEF Next, Terminated
<1>. QED
  BY <1>1, <1>2

(* Every reachable state satisfies the inductive invariant. *)
THEOREM Invariance == SafeSpec => []IInv
  BY InitIInv, NextIInv, PTL DEF SafeSpec

(* The variables keep their types: the transition at work is the one that  *)
(* drains a runtime, and every transition waits for ones that are in line. *)
THEOREM TypeCorrect == SafeSpec => []TypeOK
<1>1. IInv => TypeOK
  BY DEF IInv
<1>. QED
  BY <1>1, Invariance, PTL

(* At most one runtime is not disposed, and the global provider is that of *)
(* the runtime handed out (getRuntime, shutdownRuntime).                   *)
THEOREM OneRuntime == SafeSpec => []OneLiveRuntime
<1>1. ASSUME IInv PROVE OneLiveRuntime
  <2>. USE RegistryAssumption
  <2>1. TypeOK /\ RuntimeSound
    BY <1>1 DEF IInv
  <2>2. ASSUME NEW r \in Calls, NEW s \in Calls,
               {life[r], life[s]} \subseteq {"live", "closing"}
        PROVE  r = s
    <3>1. r \in {runtime, draining} /\ s \in {runtime, draining}
      BY <2>1, <2>2 DEF RuntimeSound
    <3>2. runtime = None \/ draining = None \/ runtime = draining
      BY <2>1 DEF TypeOK, RuntimeSound
    <3>. QED
      BY <3>1, <3>2
  <2>. QED
    BY <2>1, <2>2 DEF OneLiveRuntime, RuntimeSound
<1>. QED
  BY <1>1, Invariance, PTL

(* Traces, children and scores go to the project of the configuration that *)
(* their caller passed to getRuntime.                                      *)
THEOREM RecordsHome == SafeSpec => []RightProject
<1>1. IInv => RightProject
  BY DEF IInv
<1>. QED
  BY <1>1, Invariance, PTL

(* No root is left open in a replaced runtime, and its end reaches the     *)
(* exporter before the exporter's shutdown (finalizeOpenTraces).           *)
THEOREM RootsSafe == SafeSpec => []RootsNeverLost
<1>1. IInv => RootsNeverLost
  BY DEF IInv
<1>. QED
  BY <1>1, Invariance, PTL

(* A flush or a shutdown that returned has settled what was ended or sent  *)
(* before its call (flushRuntime).                                         *)
THEOREM FlushesCover == SafeSpec => []FlushCovers
<1>1. IInv => FlushCovers
  BY DEF IInv, OwedAwaited, FlushCovers
<1>. QED
  BY <1>1, Invariance, PTL

(* A change of configuration never closes a runtime in use: only           *)
(* shutdownClient does (getRuntime, reconfigureRuntime).                   *)
THEOREM ShutdownAloneCuts == SafeSpec => OnlyShutdownCuts
<1>1. ASSUME IInv, [Next]_vars, NEW r \in Calls, NEW o \in Calls,
             runtime = r, runtime' = None, o \in Open(r)
      PROVE  \E c \in Calls : Operation[c] = "shutdown" /\ pc[c] = "queued"
                              /\ pc'[c] = "draining"
  <2>. USE RegistryAssumption
  <2>1. TypeOK /\ RuntimeSound /\ LineOrdered
    BY <1>1 DEF IInv
  <2>2. runtime' # runtime
    BY <1>1
  <2>3. PICK c \in Calls : Transition(c)
    BY <1>1, <2>2 DEF Next, vars, runtimeVars, Call, EndObservation, Settle, Terminated
  <2>4. CASE ShutdownClient(c)
    <3>1. Turn(c) /\ Operation[c] = "shutdown" /\ Await(c, "draining")
      BY <1>1, <2>2, <2>4 DEF ShutdownClient, ShutdownRuntime, DrainSpans, runtimeVars
    <3>. QED
      BY <2>1, <3>1 DEF Turn, Await, TypeOK
  <2>5. CASE GetRuntime(c)
    <3>1. runtime # None /\ Busy(runtime)
      BY <1>1 DEF Busy
    <3>2. UNCHANGED runtimeVars
      BY <2>5, <3>1 DEF GetRuntime
    <3>. QED
      BY <2>2, <3>2 DEF runtimeVars
  <2>6. CASE ReconfigureRuntime(c)
    <3>1. Busy(runtime)
      BY <1>1 DEF Busy
    <3>. QED
      BY <2>2, <2>6, <3>1 DEF ReconfigureRuntime, runtimeVars
  <2>7. CASE FlushClient(c) \/ SpansDrained(c) \/ ScoresSettled(c) \/ ClientDisposed(c)
    BY <2>2, <2>7 DEF FlushClient, FlushRuntime, SpansDrained, ScoresSettled,
       ClientDisposed, runtimeVars
  <2>8. CASE ProviderDisposed(c)
    <3>1. pc[c] \in Working /\ Operation[c] # "flush"
      BY <2>1, <2>8 DEF ProviderDisposed, RuntimeSound, Working
    <3>2. runtime = None
      BY <2>1, <3>1 DEF RuntimeSound
    <3>. QED
      BY <1>1, <3>2
  <2>. QED
    BY <2>3, <2>4, <2>5, <2>6, <2>7, <2>8 DEF Transition
<1>2. ASSUME IInv, [Next]_vars
      PROVE  [\A r, o \in Calls :
               (runtime = r /\ runtime' = None /\ o \in Open(r)) =>
                 \E c \in Calls : Operation[c] = "shutdown" /\ pc[c] = "queued"
                                  /\ pc'[c] = "draining"]_vars
  BY <1>1, <1>2
<1>. QED
  BY <1>2, Invariance, PTL DEF SafeSpec, OnlyShutdownCuts
=============================================================================
