------------------------- MODULE OtlpExporterProofs -------------------------
(***************************************************************************)
(* Proofs about OtlpExporter, for every set of calls, every number of      *)
(* slots, every window limit and every number of concurrent flushes.       *)
(***************************************************************************)
EXTENDS OtlpExporter, FiniteSetTheorems, TLAPS

-----------------------------------------------------------------------------
(* Runs, slots and the start of a batch                                    *)

(* The promises of inFlight are one more than the slots. *)
LEMMA RunsFinite ==
  IsFiniteSet(Runs) /\ Cardinality(Runs) = MAX_CONCURRENT_EXPORTS + 1
  BY FS_Interval, ExporterAssumption DEF Runs

(* A free slot always finds a promise of its own (startQueued). *)
LEMMA FreshRun ==
  ASSUME NEW busy \in SUBSET Runs, HasFreeSlot(busy)
  PROVE  /\ NewRun(busy) \in Runs
         /\ NewRun(busy) \notin busy
         /\ Cardinality(busy \cup {NewRun(busy)}) = Cardinality(busy) + 1
         /\ Cardinality(busy) \in Nat
<1>1. IsFiniteSet(busy) /\ Cardinality(busy) \in Nat
  BY RunsFinite, FS_Subset, FS_CardinalityType
<1>2. busy # Runs
  BY RunsFinite, <1>1, ExporterAssumption DEF HasFreeSlot
<1>3. \E r \in Runs : r \notin busy
  BY <1>2
<1>4. NewRun(busy) \in Runs /\ NewRun(busy) \notin busy
  BY <1>3 DEF NewRun
<1>5. Cardinality(busy \cup {NewRun(busy)}) = Cardinality(busy) + 1
  BY <1>1, <1>4, FS_AddElement
<1>6. QED
  BY <1>1, <1>4, <1>5

LEMMA SettledIsBatch == SettledBatch \in Batch
  BY DEF SettledBatch, Batch, Phases

(* Delivering results keeps the history typed. *)
LEMMA DeliverType ==
  ASSUME TypeOK, NEW calls, NEW result \in Outcomes, Deliver(calls, result)
  PROVE  deliveries' \in [Exports -> Nat] /\ outcome' \in [Exports -> Outcomes]
  BY DEF TypeOK, Deliver

LEMMA RunBatchType ==
  ASSUME TypeOK, NEW r \in Runs, NEW calls \in SUBSET Exports,
         RunBatch(r, calls)
  PROVE  /\ batch' \in [Runs -> Batch]
         /\ deliveries' \in [Exports -> Nat]
         /\ outcome' \in [Exports -> Outcomes]
<1>1. CASE /\ batch' = [batch EXCEPT ![r] = PlanThrew(calls)]
           /\ UNCHANGED <<deliveries, outcome>>
  <2>1. PlanThrew(calls) \in Batch
    BY DEF PlanThrew, Batch, Phases
  <2>2. QED
    BY <1>1, <2>1 DEF TypeOK
<1>2. CASE AllOversized(r, calls)
  <2>1. deliveries' \in [Exports -> Nat] /\ outcome' \in [Exports -> Outcomes]
    BY <1>2, DeliverType DEF AllOversized, Outcomes
  <2>2. QED
    BY <1>2, <2>1, SettledIsBatch DEF AllOversized, TypeOK
<1>3. CASE \E oversized \in SUBSET calls \ {calls} :
             \E body \in SUBSET (calls \ oversized) \ {{}} :
               /\ batch' = [batch EXCEPT ![r] = FirstRequest(calls, body, oversized)]
               /\ UNCHANGED <<deliveries, outcome>>
  <2>1. PICK oversized \in SUBSET calls \ {calls} :
          \E body \in SUBSET (calls \ oversized) \ {{}} :
            /\ batch' = [batch EXCEPT ![r] = FirstRequest(calls, body, oversized)]
            /\ UNCHANGED <<deliveries, outcome>>
    BY <1>3
  <2>. PICK body \in SUBSET (calls \ oversized) \ {{}} :
            /\ batch' = [batch EXCEPT ![r] = FirstRequest(calls, body, oversized)]
            /\ UNCHANGED <<deliveries, outcome>>
    BY <2>1
  <2>2. FirstRequest(calls, body, oversized) \in Batch
    BY DEF FirstRequest, Batch, Phases
  <2>3. QED
    BY <2>2 DEF TypeOK
<1>4. QED
  BY <1>1, <1>2, <1>3 DEF RunBatch

(* Whoever calls startQueued, the exporter's variables stay typed. *)
LEMMA StartQueuedType ==
  ASSUME TypeOK, NEW q \in SUBSET Exports, NEW count \in Nat,
         NEW requested \in BOOLEAN, NEW busy \in SUBSET Runs,
         StartQueued(q, count, requested, busy)
  PROVE  /\ queue' \subseteq Exports
         /\ queuedSpanCount' \in Nat
         /\ dispatchRequested' \in BOOLEAN
         /\ inFlight' \subseteq Runs
         /\ batch' \in [Runs -> Batch]
         /\ deliveries' \in [Exports -> Nat]
         /\ outcome' \in [Exports -> Outcomes]
<1>1. CASE requested /\ q # {} /\ HasFreeSlot(busy)
  <2>1. NewRun(busy) \in Runs
    BY <1>1, FreshRun
  <2>2. RunBatch(NewRun(busy), q)
    BY <1>1 DEF StartQueued
  <2>3. /\ batch' \in [Runs -> Batch]
        /\ deliveries' \in [Exports -> Nat]
        /\ outcome' \in [Exports -> Outcomes]
    BY <2>1, <2>2, RunBatchType
  <2>4. /\ queue' = {} /\ queuedSpanCount' = 0 /\ dispatchRequested' = FALSE
        /\ inFlight' = busy \cup {NewRun(busy)}
    BY <1>1 DEF StartQueued
  <2>5. QED
    BY <2>1, <2>3, <2>4
<1>2. CASE ~(requested /\ q # {} /\ HasFreeSlot(busy))
  BY <1>2 DEF StartQueued, TypeOK
<1>3. QED
  BY <1>1, <1>2

LEMMA SendQueuedType ==
  ASSUME TypeOK, NEW q \in SUBSET Exports, NEW count \in Nat,
         SendQueued(q, count)
  PROVE  /\ queue' \subseteq Exports
         /\ queuedSpanCount' \in Nat
         /\ lingerTimer' \in BOOLEAN
         /\ dispatchRequested' \in BOOLEAN
         /\ inFlight' \subseteq Runs
         /\ batch' \in [Runs -> Batch]
         /\ deliveries' \in [Exports -> Nat]
         /\ outcome' \in [Exports -> Outcomes]
<1>1. StartQueued(q, count, dispatchRequested \/ q # {}, inFlight)
  BY DEF SendQueued
<1>2. inFlight \in SUBSET Runs /\ (dispatchRequested \/ q # {}) \in BOOLEAN
  BY DEF TypeOK
<1>3. lingerTimer' \in BOOLEAN
  BY DEF SendQueued
<1>4. QED
  BY <1>1, <1>2, <1>3, StartQueuedType

LEMMA ConcludeType ==
  ASSUME TypeOK, NEW r \in Runs, NEW b \in Batch, NEW ok \in BOOLEAN,
         Conclude(r, b, ok)
  PROVE  batch' \in [Runs -> Batch]
<1>. DEFINE left == b.unsent \ b.body
            next == [b EXCEPT !.unsent = left, !.failed = Fail(b, ok)]
<1>1. left \subseteq Exports
  BY DEF Batch
<1>2. next \in Batch
  BY DEF Batch, Fail
<1>3. CASE batch' = [batch EXCEPT ![r] =
                       [next EXCEPT !.unsent = {}, !.body = {},
                                    !.phase = "concluded",
                                    !.failed = @ \/ left # {}]]
  <2>1. [next EXCEPT !.unsent = {}, !.body = {}, !.phase = "concluded",
                     !.failed = @ \/ left # {}] \in Batch
    BY <1>2 DEF Batch, Phases
  <2>2. QED
    BY <1>3, <2>1 DEF TypeOK
<1>4. ASSUME NEW body \in SUBSET left \ {{}},
             batch' = [batch EXCEPT ![r] =
                         [next EXCEPT !.body = body, !.phase = "sending"]]
      PROVE  batch' \in [Runs -> Batch]
  <2>1. body \subseteq Exports
    BY <1>1 DEF Batch
  <2>2. [next EXCEPT !.body = body, !.phase = "sending"] \in Batch
    BY <1>2, <2>1 DEF Batch, Phases
  <2>3. QED
    BY <1>4, <2>2 DEF TypeOK
<1>5. QED
  BY <1>3, <1>4 DEF Conclude

-----------------------------------------------------------------------------
(* Type correctness                                                        *)

(* The steps of a run that send, wait or conclude a request. *)
RequestStep(r) ==
  \/ Accepted(r) \/ Terminal(r) \/ ResponseTooLarge(r) \/ Retryable(r)
  \/ DeadlineFires(r) \/ Aborted(r) \/ WaitEnds(r)

LEMMA RequestStepType ==
  ASSUME TypeOK, NEW r \in Runs, RequestStep(r)
  PROVE  /\ batch' \in [Runs -> Batch]
         /\ stored \subseteq stored' /\ stored' \subseteq Exports
         /\ requestUnchanged
<1>1. batch[r] \in Batch /\ batch[r].body \subseteq Exports
  BY DEF TypeOK, Batch
<1>2. ASSUME NEW phase \in Phases, batch' = [batch EXCEPT ![r].phase = phase]
      PROVE  batch' \in [Runs -> Batch]
  <2>1. [batch[r] EXCEPT !.phase = phase] \in Batch
    BY <1>1 DEF Batch
  <2>2. QED
    BY <1>2, <2>1 DEF TypeOK
<1>3. CASE Accepted(r)
  <2>1. Conclude(r, batch[r], TRUE)
    BY <1>3 DEF Accepted
  <2>2. batch' \in [Runs -> Batch]
    BY <1>1, <2>1, ConcludeType
  <2>3. QED
    BY <1>1, <1>3, <2>2 DEF Accepted, TypeOK
<1>4. CASE Terminal(r)
  <2>1. Conclude(r, batch[r], FALSE)
    BY <1>4 DEF Terminal
  <2>2. batch' \in [Runs -> Batch]
    BY <1>1, <2>1, ConcludeType
  <2>3. QED
    BY <1>1, <1>4, <2>2 DEF Terminal, TypeOK
<1>5. CASE Retryable(r)
  <2>1. CASE batch' = [batch EXCEPT ![r].phase = "waiting"]
    BY <1>1, <1>2, <1>5, <2>1 DEF Retryable, TypeOK, Phases
  <2>2. CASE Conclude(r, batch[r], FALSE)
    <3>1. batch' \in [Runs -> Batch]
      BY <1>1, <2>2, ConcludeType
    <3>2. QED
      BY <1>1, <1>5, <3>1 DEF Retryable, TypeOK
  <2>3. QED
    BY <1>5, <2>1, <2>2 DEF Retryable
<1>6. CASE DeadlineFires(r)
  <2>1. [batch[r] EXCEPT !.expired = TRUE, !.aborted = TRUE] \in Batch
    BY <1>1 DEF Batch
  <2>2. QED
    BY <1>6, <2>1 DEF DeadlineFires, TypeOK
<1>7. CASE Aborted(r)
  <2>1. Conclude(r, batch[r], FALSE)
    BY <1>7 DEF Aborted
  <2>2. batch' \in [Runs -> Batch]
    BY <1>1, <2>1, ConcludeType
  <2>3. QED
    BY <1>1, <1>7, <2>2 DEF Aborted, TypeOK
<1>8. CASE WaitEnds(r)
  <2>1. CASE batch' = [batch EXCEPT ![r].phase = "sending"]
    BY <1>2, <1>8, <2>1 DEF WaitEnds, TypeOK, Phases
  <2>2. CASE Conclude(r, batch[r], FALSE)
    <3>1. batch' \in [Runs -> Batch]
      BY <1>1, <2>2, ConcludeType
    <3>2. QED
      BY <1>8, <3>1 DEF WaitEnds, TypeOK
  <2>3. QED
    BY <1>8, <2>1, <2>2 DEF WaitEnds
<1>9. CASE ResponseTooLarge(r)
  <2>. DEFINE b == [batch[r] EXCEPT !.aborted = TRUE]
  <2>1. b \in Batch
    BY <1>1 DEF Batch
  <2>2. batch' \in [Runs -> Batch]
    BY <1>9, <2>1, ConcludeType DEF ResponseTooLarge
  <2>3. QED
    BY <1>1, <1>9, <2>2 DEF ResponseTooLarge, TypeOK
<1>10. QED
  BY <1>3, <1>4, <1>5, <1>6, <1>7, <1>8, <1>9 DEF RequestStep

(* Every hold is a flush that has begun: taking and releasing one moves    *)
(* the count with the set.                                                 *)
LEMMA HoldingType == IsFiniteSet(Holding) /\ Cardinality(Holding) \in Nat
  BY FS_Subset, FS_CardinalityType, ExporterAssumption DEF Holding

LEMMA HoldTaken ==
  ASSUME TypeOK, HoldsBalanced, NEW f \in Flushes, FlushBegins(f)
  PROVE  immediateHolds' \in Nat /\ HoldsBalanced'
<1>1. f \notin Holding /\ Holding' = Holding \cup {f}
  BY DEF Holding, FlushBegins, TypeOK, Drainers
<1>2. Cardinality(Holding') = Cardinality(Holding) + 1
  BY <1>1, HoldingType, FS_AddElement
<1>3. QED
  BY <1>2, HoldingType DEF HoldsBalanced, FlushBegins

(* A pass of drain by a flush or by the shutdown. *)
LEMMA HoldReleased ==
  ASSUME TypeOK, HoldsBalanced, NEW f \in Drainers,
         f \in Flushes => pc[f] \in {"handover", "draining"},
         DrainPass(f), ReleaseHold(f)
  PROVE  immediateHolds' \in Nat /\ HoldsBalanced'
<1>1. pc' = [pc EXCEPT ![f] = IF inFlight' = {} THEN "done" ELSE "draining"]
  BY DEF DrainPass
<1>2. CASE f \in Flushes /\ pc'[f] = "done"
  <2>1. f \in Holding /\ Holding' = Holding \ {f}
    BY <1>1, <1>2 DEF Holding, TypeOK, Drainers
  <2>2. Cardinality(Holding') = Cardinality(Holding) - 1
    BY <2>1, HoldingType, FS_RemoveElement
  <2>3. Cardinality(Holding') \in Nat
    <3>1. IsFiniteSet(Holding')
      BY <2>1, HoldingType, FS_RemoveElement
    <3>2. QED
      BY <3>1, FS_CardinalityType
  <2>4. immediateHolds' = immediateHolds - 1
    BY <1>2 DEF ReleaseHold
  <2>5. QED
    BY <2>2, <2>3, <2>4 DEF HoldsBalanced
<1>3. CASE ~(f \in Flushes /\ pc'[f] = "done")
  <2>1. Holding' = Holding
    BY <1>1, <1>3 DEF Holding, TypeOK, Drainers
  <2>2. immediateHolds' = immediateHolds
    BY <1>3 DEF ReleaseHold
  <2>3. QED
    BY <2>1, <2>2 DEF HoldsBalanced, TypeOK
<1>4. QED
  BY <1>2, <1>3

(* A step that leaves every pc alone leaves the holds alone too. *)
LEMMA HoldsUnchanged ==
  ASSUME TypeOK, HoldsBalanced, UNCHANGED <<immediateHolds, pc>>
  PROVE  immediateHolds' \in Nat /\ HoldsBalanced'
  BY DEF TypeOK, HoldsBalanced, Holding

LEMMA DrainPassType ==
  ASSUME TypeOK, NEW f \in Drainers, DrainPass(f)
  PROVE  /\ queue' \subseteq Exports
         /\ queuedSpanCount' \in Nat
         /\ lingerTimer' \in BOOLEAN
         /\ dispatchRequested' \in BOOLEAN
         /\ inFlight' \subseteq Runs
         /\ batch' \in [Runs -> Batch]
         /\ deliveries' \in [Exports -> Nat]
         /\ outcome' \in [Exports -> Outcomes]
         /\ pc' \in [Drainers -> {"idle", "handover", "draining", "done"}]
         /\ awaits' \in [Drainers -> SUBSET Runs]
<1>1. SendQueued(queue, queuedSpanCount)
  BY DEF DrainPass
<1>2. queue \in SUBSET Exports /\ queuedSpanCount \in Nat
  BY DEF TypeOK
<1>3. inFlight' \in SUBSET Runs
  BY <1>1, <1>2, SendQueuedType
<1>4. /\ pc' \in [Drainers -> {"idle", "handover", "draining", "done"}]
      /\ awaits' \in [Drainers -> SUBSET Runs]
  BY <1>3 DEF DrainPass, TypeOK
<1>5. QED
  BY <1>1, <1>2, <1>4, SendQueuedType

LEMMA TypeStep ==
  ASSUME TypeOK, HoldsBalanced, [Next]_vars
  PROVE  TypeOK' /\ HoldsBalanced'
<1>1. ASSUME NEW e \in Exports, SpanEnds(e)
      PROVE  TypeOK' /\ HoldsBalanced'
  BY <1>1, HoldsUnchanged DEF SpanEnds, exporterVars, seenVars, TypeOK
<1>2. ASSUME NEW e \in Exports, Export(e)
      PROVE  TypeOK' /\ HoldsBalanced'
  <2>. /\ queue \cup {e} \in SUBSET Exports
       /\ queuedSpanCount + SpanCount[e] \in Nat
    BY ExporterAssumption DEF TypeOK
  <2>1. /\ span' \in [Exports -> {"open", "ended", "exported"}]
        /\ UNCHANGED <<pc, awaits, covers, stored>>
    <3>1. span' = [span EXCEPT ![e] = "exported"]
      BY <1>2 DEF Export
    <3>2. QED
      BY <1>2, <3>1 DEF Export, TypeOK
  <2>2. CASE ExportRefused(e)
    <3>1. deliveries' \in [Exports -> Nat] /\ outcome' \in [Exports -> Outcomes]
      BY <2>2, DeliverType DEF ExportRefused, Outcomes
    <3>2. QED
      BY <2>1, <2>2, <3>1, HoldsUnchanged DEF ExportRefused, exporterVars, TypeOK
  <2>3. CASE ExportEmpty(e)
    <3>1. deliveries' \in [Exports -> Nat] /\ outcome' \in [Exports -> Outcomes]
      BY <2>3, DeliverType DEF ExportEmpty, Outcomes
    <3>2. QED
      BY <2>1, <2>3, <3>1, HoldsUnchanged DEF ExportEmpty, exporterVars, TypeOK
  <2>4. CASE ExportSent(e)
    <3>1. SendQueued(queue \cup {e}, queuedSpanCount + SpanCount[e])
      BY <2>4 DEF ExportSent
    <3>2. UNCHANGED <<immediateHolds, shutDown>>
      BY <2>4 DEF ExportSent
    <3>3. immediateHolds' \in Nat /\ HoldsBalanced'
      BY <2>1, <3>2, HoldsUnchanged
    <3>4. QED
      BY <2>1, <3>1, <3>2, <3>3, SendQueuedType DEF TypeOK
  <2>5. CASE ExportLingers(e)
    BY <2>1, <2>5, HoldsUnchanged DEF ExportLingers, TypeOK
  <2>6. QED
    BY <1>2, <2>2, <2>3, <2>4, <2>5 DEF Export
<1>3. CASE LingerFires
  <2>1. /\ SendQueued(queue, queuedSpanCount)
        /\ UNCHANGED <<immediateHolds, shutDown, callerVars, stored>>
    BY <1>3 DEF LingerFires
  <2>2. queue \in SUBSET Exports /\ queuedSpanCount \in Nat
    BY DEF TypeOK
  <2>3. immediateHolds' \in Nat /\ HoldsBalanced'
    BY <2>1, HoldsUnchanged DEF callerVars
  <2>4. QED
    BY <2>1, <2>2, <2>3, SendQueuedType DEF callerVars, TypeOK
<1>4. ASSUME NEW r \in Runs, RequestStep(r)
      PROVE  TypeOK' /\ HoldsBalanced'
  BY <1>4, RequestStepType, HoldsUnchanged DEF requestUnchanged, callerVars, TypeOK
<1>5. ASSUME NEW r \in Runs, DeliverBatch(r)
      PROVE  TypeOK' /\ HoldsBalanced'
  <2>1. deliveries' \in [Exports -> Nat] /\ outcome' \in [Exports -> Outcomes]
    BY <1>5, DeliverType DEF DeliverBatch, Outcomes
  <2>2. batch' \in [Runs -> Batch]
    BY <1>5, SettledIsBatch DEF DeliverBatch, TypeOK
  <2>3. QED
    BY <1>5, <2>1, <2>2, HoldsUnchanged DEF DeliverBatch, callerVars, TypeOK
<1>6. ASSUME NEW r \in Runs, ReleaseSlot(r)
      PROVE  TypeOK' /\ HoldsBalanced'
  <2>1. /\ StartQueued(queue, queuedSpanCount, dispatchRequested, inFlight \ {r})
        /\ awaits' = [f \in Drainers |-> awaits[f] \ {r}]
        /\ UNCHANGED <<lingerTimer, immediateHolds, shutDown, span, pc, covers,
                       stored>>
    BY <1>6 DEF ReleaseSlot
  <2>2. /\ queue \in SUBSET Exports /\ queuedSpanCount \in Nat
        /\ dispatchRequested \in BOOLEAN /\ inFlight \ {r} \in SUBSET Runs
    BY DEF TypeOK
  <2>3. awaits' \in [Drainers -> SUBSET Runs]
    BY <2>1 DEF TypeOK
  <2>4. immediateHolds' \in Nat /\ HoldsBalanced'
    BY <2>1, HoldsUnchanged
  <2>5. /\ queue' \subseteq Exports
        /\ queuedSpanCount' \in Nat
        /\ dispatchRequested' \in BOOLEAN
        /\ inFlight' \subseteq Runs
        /\ batch' \in [Runs -> Batch]
        /\ deliveries' \in [Exports -> Nat]
        /\ outcome' \in [Exports -> Outcomes]
    BY <2>1, <2>2, StartQueuedType
  <2>6. QED
    BY <2>1, <2>3, <2>4, <2>5 DEF TypeOK
<1>7. ASSUME NEW f \in Flushes, FlushBegins(f)
      PROVE  TypeOK' /\ HoldsBalanced'
  <2>1. SendQueued(queue, queuedSpanCount)
    BY <1>7 DEF FlushBegins
  <2>2. queue \in SUBSET Exports /\ queuedSpanCount \in Nat
    BY DEF TypeOK
  <2>3. /\ pc' = [pc EXCEPT ![f] = "handover"]
        /\ covers' = [covers EXCEPT ![f] = {e \in Exports : Undelivered(e)}]
        /\ UNCHANGED <<shutDown, span, awaits, stored>>
    BY <1>7 DEF FlushBegins
  <2>. /\ pc' \in [Drainers -> {"idle", "handover", "draining", "done"}]
       /\ covers' \in [Drainers -> SUBSET Exports]
    BY <2>3 DEF TypeOK
  <2>4. immediateHolds' \in Nat /\ HoldsBalanced'
    BY <1>7, HoldTaken
  <2>5. QED
    BY <2>1, <2>2, <2>3, <2>4, SendQueuedType DEF TypeOK
<1>8. ASSUME NEW f \in Drainers,
             f \in Flushes => pc[f] \in {"handover", "draining"},
             DrainPass(f), ReleaseHold(f),
             UNCHANGED <<shutDown, span, covers, stored>>
      PROVE  TypeOK' /\ HoldsBalanced'
  BY <1>8, DrainPassType, HoldReleased DEF TypeOK
<1>9. ASSUME NEW f \in Flushes, FlushHandsOver(f)
      PROVE  TypeOK' /\ HoldsBalanced'
  BY <1>8, <1>9 DEF FlushHandsOver, Drainers
<1>10. ASSUME NEW f \in Drainers, DrainAgain(f)
       PROVE  TypeOK' /\ HoldsBalanced'
  BY <1>8, <1>10 DEF DrainAgain
<1>11. CASE Shutdown
  <2>1. Closer \in Drainers /\ DrainPass(Closer)
    BY <1>11 DEF Shutdown, Drainers
  <2>2. /\ shutDown' \in BOOLEAN
        /\ covers' \in [Drainers -> SUBSET Exports]
        /\ UNCHANGED <<immediateHolds, span, stored>>
    BY <1>11 DEF Shutdown, TypeOK
  <2>3. Holding' = Holding
    BY <2>1, ExporterAssumption DEF DrainPass, Holding, TypeOK, Drainers
  <2>4. immediateHolds' \in Nat /\ HoldsBalanced'
    BY <2>2, <2>3 DEF HoldsBalanced, TypeOK
  <2>5. QED
    BY <2>1, <2>2, <2>4, DrainPassType DEF TypeOK
<1>12. CASE UNCHANGED vars
  BY <1>12, HoldsUnchanged
  DEF vars, exporterVars, callerVars, seenVars, TypeOK
<1>13. QED
  BY <1>1, <1>2, <1>3, <1>4, <1>5, <1>6, <1>7, <1>9, <1>10, <1>11, <1>12
  DEF Next, RunStep, RequestStep, Terminated

LEMMA InitType == Init => TypeOK /\ HoldsBalanced
<1>. SUFFICES ASSUME Init PROVE TypeOK /\ HoldsBalanced
  OBVIOUS
<1>1. TypeOK
  BY SettledIsBatch DEF Init, TypeOK, Outcomes
<1>2. Holding = {}
  BY DEF Init, Holding, Drainers
<1>3. QED
  BY <1>1, <1>2, FS_EmptySet DEF Init, HoldsBalanced

(* The exporter's variables keep their types, and the count of holds never *)
(* goes below zero: each hold is released once, by the flush that took it. *)
THEOREM TypeCorrect == SafeSpec => [](TypeOK /\ HoldsBalanced)
<1>1. (TypeOK /\ HoldsBalanced) /\ [Next]_vars => (TypeOK /\ HoldsBalanced)'
  BY TypeStep
<1>2. QED
  BY InitType, <1>1, PTL DEF SafeSpec

-----------------------------------------------------------------------------
(* Slots and wake-ups                                                      *)

LEMMA CardinalityOfRuns ==
  ASSUME NEW busy \in SUBSET Runs
  PROVE  IsFiniteSet(busy) /\ Cardinality(busy) \in Nat
  BY RunsFinite, FS_Subset, FS_CardinalityType

(* startQueued fills at most the last slot, and leaves requested work      *)
(* behind only when there was none.                                        *)
LEMMA StartQueuedSlots ==
  ASSUME NEW q, NEW count, NEW requested \in BOOLEAN,
         NEW busy \in SUBSET Runs,
         Cardinality(busy) <= MAX_CONCURRENT_EXPORTS,
         requested => q # {},
         StartQueued(q, count, requested, busy)
  PROVE  /\ SlotBound' /\ NoStrandedWork'
         /\ queue' # {} => /\ queue' = q
                          /\ dispatchRequested' = requested
                          /\ queuedSpanCount' = count
<1>1. CASE requested /\ q # {} /\ HasFreeSlot(busy)
  <2>1. /\ queue' = {} /\ dispatchRequested' = FALSE
        /\ inFlight' = busy \cup {NewRun(busy)}
    BY <1>1 DEF StartQueued
  <2>2. Cardinality(inFlight') = Cardinality(busy) + 1
    BY <1>1, <2>1, FreshRun
  <2>3. QED
    BY <1>1, <2>1, <2>2, CardinalityOfRuns, ExporterAssumption
    DEF HasFreeSlot, SlotBound, NoStrandedWork
<1>2. CASE ~(requested /\ q # {} /\ HasFreeSlot(busy))
  <2>1. /\ queue' = q /\ dispatchRequested' = requested
        /\ queuedSpanCount' = count /\ inFlight' = busy
    BY <1>2 DEF StartQueued
  <2>2. requested => Cardinality(busy) = MAX_CONCURRENT_EXPORTS
    BY <1>2, CardinalityOfRuns, ExporterAssumption DEF HasFreeSlot
  <2>3. QED
    BY <2>1, <2>2 DEF SlotBound, NoStrandedWork
<1>3. QED
  BY <1>1, <1>2

(* After sendQueued no queued call depends on the timer. *)
LEMMA SendQueuedSlots ==
  ASSUME TypeOK, SlotsSound, NEW q, NEW count, SendQueued(q, count),
         queue # {} => q # {}
  PROVE  SlotsSound'
<1>1. StartQueued(q, count, dispatchRequested \/ q # {}, inFlight)
  BY DEF SendQueued
<1>2. /\ (dispatchRequested \/ q # {}) \in BOOLEAN
      /\ inFlight \in SUBSET Runs
      /\ Cardinality(inFlight) <= MAX_CONCURRENT_EXPORTS
      /\ (dispatchRequested \/ q # {}) => q # {}
  BY DEF TypeOK, SlotsSound, SlotBound, NoStrandedWork
<1>3. /\ SlotBound' /\ NoStrandedWork'
      /\ queue' # {} => queue' = q /\ dispatchRequested' = (dispatchRequested \/ q # {})
  BY <1>1, <1>2, StartQueuedSlots
<1>4. QED
  BY <1>3 DEF SlotsSound, QueueHasWakeUp

LEMMA SlotsUnchanged ==
  ASSUME SlotsSound,
         UNCHANGED <<queue, queuedSpanCount, lingerTimer, dispatchRequested,
                     immediateHolds, inFlight>>
  PROVE  SlotsSound'
  BY DEF SlotsSound, SlotBound, NoStrandedWork, QueueHasWakeUp

LEMMA SlotsStep ==
  ASSUME TypeOK, SlotsSound, [Next]_vars
  PROVE  SlotsSound'
<1>1. ASSUME NEW e \in Exports, SpanEnds(e)
      PROVE  SlotsSound'
  BY <1>1, SlotsUnchanged DEF SpanEnds, exporterVars
<1>2. ASSUME NEW e \in Exports, Export(e)
      PROVE  SlotsSound'
  <2>1. CASE ExportRefused(e) \/ ExportEmpty(e)
    BY <2>1, SlotsUnchanged DEF ExportRefused, ExportEmpty, exporterVars
  <2>2. CASE ExportSent(e)
    BY <2>2, SendQueuedSlots DEF ExportSent
  <2>3. CASE ExportLingers(e)
    <3>1. /\ lingerTimer' = TRUE
          /\ UNCHANGED <<dispatchRequested, immediateHolds, inFlight>>
          /\ queue' = queue \cup {e}
          /\ queuedSpanCount' = queuedSpanCount + SpanCount[e]
      BY <2>3 DEF ExportLingers
    <3>2. immediateHolds = 0 /\ queuedSpanCount' < MAX_LINGERING_SPANS
      BY <2>3, <3>1, ExporterAssumption DEF ExportLingers, LeavesNow, TypeOK
    <3>3. QED
      BY <3>1, <3>2 DEF SlotsSound, SlotBound, NoStrandedWork, QueueHasWakeUp
  <2>4. QED
    BY <1>2, <2>1, <2>2, <2>3 DEF Export
<1>3. CASE LingerFires
  BY <1>3, SendQueuedSlots DEF LingerFires
<1>4. ASSUME NEW r \in Runs, RequestStep(r)
      PROVE  SlotsSound'
  BY <1>4, RequestStepType, SlotsUnchanged DEF requestUnchanged
<1>5. ASSUME NEW r \in Runs, DeliverBatch(r)
      PROVE  SlotsSound'
  BY <1>5, SlotsUnchanged DEF DeliverBatch
<1>6. ASSUME NEW r \in Runs, ReleaseSlot(r)
      PROVE  SlotsSound'
  <2>1. /\ StartQueued(queue, queuedSpanCount, dispatchRequested, inFlight \ {r})
        /\ UNCHANGED <<lingerTimer, immediateHolds>>
    BY <1>6 DEF ReleaseSlot
  <2>2. Cardinality(inFlight \ {r}) <= MAX_CONCURRENT_EXPORTS
    <3>1. inFlight \in SUBSET Runs /\ inFlight \ {r} \in SUBSET inFlight
      BY DEF TypeOK
    <3>2. Cardinality(inFlight \ {r}) <= Cardinality(inFlight)
      BY <3>1, CardinalityOfRuns, FS_Subset
    <3>3. Cardinality(inFlight \ {r}) \in Nat /\ Cardinality(inFlight) \in Nat
      BY <3>1, CardinalityOfRuns
    <3>4. QED
      BY <3>2, <3>3, ExporterAssumption DEF SlotsSound, SlotBound
  <2>3. /\ dispatchRequested \in BOOLEAN /\ inFlight \ {r} \in SUBSET Runs
        /\ dispatchRequested => queue # {}
    BY DEF TypeOK, SlotsSound, NoStrandedWork
  <2>4. /\ SlotBound' /\ NoStrandedWork'
        /\ queue' # {} => /\ queue' = queue
                         /\ dispatchRequested' = dispatchRequested
                         /\ queuedSpanCount' = queuedSpanCount
    BY <2>1, <2>2, <2>3, StartQueuedSlots
  <2>5. QED
    BY <2>1, <2>4 DEF SlotsSound, QueueHasWakeUp
<1>7. ASSUME NEW f \in Flushes, FlushBegins(f)
      PROVE  SlotsSound'
  BY <1>7, SendQueuedSlots DEF FlushBegins
<1>8. ASSUME NEW f \in Drainers, DrainPass(f)
      PROVE  SlotsSound'
  BY <1>8, SendQueuedSlots DEF DrainPass
<1>9. CASE UNCHANGED vars
  BY <1>9, SlotsUnchanged DEF vars, exporterVars
<1>10. QED
  BY <1>1, <1>2, <1>3, <1>4, <1>5, <1>6, <1>7, <1>8, <1>9
  DEF Next, RunStep, RequestStep, FlushHandsOver, DrainAgain, Shutdown,
      Terminated, Drainers

(* For any number of slots and flushes: the slots are never exceeded, and  *)
(* requested work waits for nothing but a full set of slots.  A queued     *)
(* call that nobody requested has an armed timer, and that only while no   *)
(* flush holds the window open and the window is under its limit.          *)
THEOREM SlotsAndWakeUps == SafeSpec => []SlotsSound
<1>1. Init => SlotsSound
  BY FS_EmptySet, ExporterAssumption
  DEF Init, SlotsSound, SlotBound, NoStrandedWork, QueueHasWakeUp
<1>2. TypeOK /\ SlotsSound /\ [Next]_vars => SlotsSound'
  BY SlotsStep
<1>3. SafeSpec => []TypeOK
  BY TypeCorrect, PTL
<1>4. QED
  BY <1>1, <1>2, <1>3, PTL DEF SafeSpec

-----------------------------------------------------------------------------
(* Where every call is                                                     *)

(* The start of a batch moves the queue's calls into the run, or settles   *)
(* them; nobody else's calls move.                                         *)
LEMMA StartQueuedOwns ==
  ASSUME TypeOK, NEW q \in SUBSET Exports, NEW count,
         NEW requested \in BOOLEAN, NEW busy \in SUBSET Runs,
         Owns(q, busy, span'),
         StartQueued(q, count, requested, busy)
  PROVE  Ownership'
<1>1. CASE ~(requested /\ q # {} /\ HasFreeSlot(busy))
  BY <1>1 DEF StartQueued, Ownership, Owns
<1>2. CASE requested /\ q # {} /\ HasFreeSlot(busy)
  <2>. DEFINE r == NewRun(busy)
  <2>1. r \in Runs /\ r \notin busy
    BY <1>2, FreshRun
  <2>2. queue' = {} /\ inFlight' = busy \cup {r} /\ RunBatch(r, q)
    BY <1>2 DEF StartQueued
  <2>. HIDE DEF r
  <2>3. ASSUME batch' = [batch EXCEPT ![r] = batch'[r]], batch'[r].spans = q,
               UNCHANGED <<deliveries, outcome>>
        PROVE  Ownership'
    <3>1. \A s \in busy : batch'[s].spans = batch[s].spans
      BY <2>1, <2>3 DEF TypeOK
    <3>2. QED
      BY <2>1, <2>2, <2>3, <3>1 DEF Ownership, Owns
  <2>4. CASE /\ batch' = [batch EXCEPT ![r] = PlanThrew(q)]
             /\ UNCHANGED <<deliveries, outcome>>
    <3>1. batch'[r] = PlanThrew(q) /\ PlanThrew(q).spans = q
      BY <2>1, <2>4 DEF TypeOK, PlanThrew
    <3>2. QED
      BY <2>3, <2>4, <3>1
  <2>5. CASE AllOversized(r, q)
    <3>1. /\ \A s \in busy : batch'[s].spans = batch[s].spans
          /\ batch'[r].spans = {}
      BY <2>1, <2>5 DEF AllOversized, TypeOK, SettledBatch
    <3>2. \A e \in Exports :
            /\ deliveries'[e] = IF e \in q THEN deliveries[e] + 1 ELSE deliveries[e]
            /\ outcome'[e] = IF e \in q THEN "failed" ELSE outcome[e]
      BY <2>5 DEF AllOversized, Deliver
    <3>3. QED
      BY <2>1, <2>2, <3>1, <3>2 DEF Ownership, Owns
  <2>6. ASSUME NEW oversized \in SUBSET q, NEW body,
               batch' = [batch EXCEPT ![r] = FirstRequest(q, body, oversized)],
               UNCHANGED <<deliveries, outcome>>
        PROVE  Ownership'
    <3>1. /\ batch'[r] = FirstRequest(q, body, oversized)
          /\ FirstRequest(q, body, oversized).spans = q
      BY <2>1, <2>6 DEF TypeOK, FirstRequest
    <3>2. QED
      BY <2>3, <2>6, <3>1
  <2>7. QED
    BY <2>2, <2>4, <2>5, <2>6 DEF RunBatch
<1>3. QED
  BY <1>1, <1>2

LEMMA SendQueuedOwns ==
  ASSUME TypeOK, NEW q \in SUBSET Exports, NEW count,
         Owns(q, inFlight, span'), SendQueued(q, count)
  PROVE  Ownership'
<1>1. StartQueued(q, count, dispatchRequested \/ q # {}, inFlight)
  BY DEF SendQueued
<1>2. (dispatchRequested \/ q # {}) \in BOOLEAN /\ inFlight \in SUBSET Runs
  BY DEF TypeOK
<1>3. QED
  BY <1>1, <1>2, StartQueuedOwns

(* A request step changes what a run still has to send, never what it owes *)
(* its callers, and keeps its account of what is stored.                   *)
LEMMA ConcludeSound ==
  ASSUME TypeOK, RunsSound, NEW r \in Runs, NEW ok \in BOOLEAN,
         NEW b \in Batch, RunSound(b), b.spans = batch[r].spans,
         Conclude(r, b, ok), stored \subseteq stored',
         ok => b.body \subseteq stored'
  PROVE  RunsSound' /\ \A s \in Runs : batch'[s].spans = batch[s].spans
<1>. DEFINE left == b.unsent \ b.body
            next == [b EXCEPT !.unsent = left, !.failed = Fail(b, ok)]
            last == [next EXCEPT !.unsent = {}, !.body = {},
                                 !.phase = "concluded",
                                 !.failed = @ \/ left # {}]
<1>1. b \in Batch
  OBVIOUS
<1>2. ~Fail(b, ok) => b.spans \ left \subseteq stored'
  BY DEF Fail, RunSound
<1>3. \A s \in Runs \ {r} : batch[s] = batch'[s] => RunSound(batch[s])'
  BY DEF RunsSound, RunSound
<1>4. CASE batch' = [batch EXCEPT ![r] = last]
  <2>1. batch'[r] = last /\ \A s \in Runs \ {r} : batch'[s] = batch[s]
    BY <1>4 DEF TypeOK
  <2>2. /\ last.spans = b.spans /\ last.unsent = {} /\ last.body = {}
        /\ last.phase = "concluded"
        /\ last.failed = (Fail(b, ok) \/ left # {})
    BY <1>1 DEF Batch
  <2>3. RunSound(batch[r])'
    BY <1>2, <2>1, <2>2 DEF RunSound
  <2>4. QED
    BY <1>3, <2>1, <2>2, <2>3 DEF RunsSound
<1>5. ASSUME NEW body \in SUBSET left,
             batch' = [batch EXCEPT ![r] =
                         [next EXCEPT !.body = body, !.phase = "sending"]]
      PROVE  RunsSound' /\ \A s \in Runs : batch'[s].spans = batch[s].spans
  <2>. DEFINE more == [next EXCEPT !.body = body, !.phase = "sending"]
  <2>1. batch'[r] = more /\ \A s \in Runs \ {r} : batch'[s] = batch[s]
    BY <1>5 DEF TypeOK
  <2>2. /\ more.spans = b.spans /\ more.unsent = left /\ more.body = body
        /\ more.phase = "sending" /\ more.failed = Fail(b, ok)
    BY <1>1 DEF Batch
  <2>3. RunSound(batch[r])'
    BY <1>2, <2>1, <2>2 DEF RunSound
  <2>4. QED
    BY <1>3, <2>1, <2>2, <2>3 DEF RunsSound
<1>6. QED
  BY <1>4, <1>5 DEF Conclude

(* A step that only moves a run between sending and waiting, or lets its   *)
(* deadline pass.                                                          *)
LEMMA PhaseSound ==
  ASSUME TypeOK, RunsSound, NEW r \in Runs, stored \subseteq stored',
         \/ batch' = [batch EXCEPT ![r].phase = "waiting"]
         \/ batch' = [batch EXCEPT ![r].phase = "sending"]
         \/ batch' = [batch EXCEPT ![r].expired = TRUE, ![r].aborted = TRUE]
  PROVE  RunsSound' /\ \A s \in Runs : batch'[s].spans = batch[s].spans
<1>1. batch[r] \in Batch /\ RunSound(batch[r])
  BY DEF TypeOK, RunsSound
<1>2. \A s \in Runs \ {r} : batch'[s] = batch[s]
  BY DEF TypeOK
<1>3. /\ batch'[r].spans = batch[r].spans /\ batch'[r].unsent = batch[r].unsent
      /\ batch'[r].body = batch[r].body /\ batch'[r].failed = batch[r].failed
      /\ batch'[r].phase \in {batch[r].phase, "waiting", "sending"}
  BY <1>1 DEF TypeOK, Batch
<1>4. RunSound(batch[r])'
  BY <1>1, <1>3 DEF RunSound
<1>5. \A s \in Runs \ {r} : RunSound(batch[s])'
  BY <1>2 DEF RunsSound, RunSound
<1>6. QED
  BY <1>2, <1>3, <1>4, <1>5 DEF RunsSound

LEMMA RequestStepSound ==
  ASSUME TypeOK, RunsSound, NEW r \in Runs, RequestStep(r)
  PROVE  RunsSound' /\ \A s \in Runs : batch'[s].spans = batch[s].spans
<1>1. /\ stored \subseteq stored'
      /\ batch[r] \in Batch /\ RunSound(batch[r])
  BY RequestStepType DEF TypeOK, RunsSound
<1>2. CASE Accepted(r)
  <2>1. batch[r].body \subseteq stored' /\ Conclude(r, batch[r], TRUE)
    BY <1>2 DEF Accepted
  <2>2. QED
    BY <1>1, <2>1, ConcludeSound
<1>3. CASE Conclude(r, batch[r], FALSE)
  BY <1>1, <1>3, ConcludeSound
<1>4. CASE \/ batch' = [batch EXCEPT ![r].phase = "waiting"]
           \/ batch' = [batch EXCEPT ![r].phase = "sending"]
           \/ batch' = [batch EXCEPT ![r].expired = TRUE, ![r].aborted = TRUE]
  BY <1>1, <1>4, PhaseSound
<1>5. CASE ResponseTooLarge(r)
  <2>. DEFINE b == [batch[r] EXCEPT !.aborted = TRUE]
  <2>1. b \in Batch /\ b.spans = batch[r].spans /\ RunSound(b)
    BY <1>1 DEF Batch, RunSound
  <2>2. Conclude(r, b, FALSE)
    BY <1>5 DEF ResponseTooLarge
  <2>3. QED
    BY <1>1, <2>1, <2>2, ConcludeSound
<1>6. QED
  BY <1>2, <1>3, <1>4, <1>5
  DEF RequestStep, Terminal, Retryable, DeadlineFires, Aborted, WaitEnds

(* A batch starts with nothing stored and everything still to send.        *)
LEMMA StartQueuedSound ==
  ASSUME TypeOK, RunsSound, NEW q \in SUBSET Exports, NEW count,
         NEW requested, NEW busy \in SUBSET Runs, stored' = stored,
         StartQueued(q, count, requested, busy)
  PROVE  RunsSound'
<1>1. CASE ~(requested /\ q # {} /\ HasFreeSlot(busy))
  BY <1>1 DEF StartQueued, RunsSound, RunSound
<1>2. CASE requested /\ q # {} /\ HasFreeSlot(busy)
  <2>. DEFINE r == NewRun(busy)
  <2>1. r \in Runs /\ RunBatch(r, q)
    BY <1>2, FreshRun DEF StartQueued
  <2>. HIDE DEF r
  <2>2. ASSUME NEW b, batch' = [batch EXCEPT ![r] = b],
               b.body \subseteq b.unsent,
               b.phase = "settled" => b.spans = {},
               b.phase = "concluded" => b.unsent = {},
               ~b.failed => b.spans \ b.unsent \subseteq stored
        PROVE  RunsSound'
    <3>1. batch'[r] = b /\ \A s \in Runs \ {r} : batch'[s] = batch[s]
      BY <2>1, <2>2 DEF TypeOK
    <3>2. QED
      BY <2>2, <3>1 DEF RunsSound, RunSound
  <2>3. CASE batch' = [batch EXCEPT ![r] = PlanThrew(q)]
    BY <2>2, <2>3 DEF PlanThrew
  <2>4. CASE AllOversized(r, q)
    BY <2>2, <2>4 DEF AllOversized, SettledBatch
  <2>5. ASSUME NEW oversized \in SUBSET q, NEW body \in SUBSET (q \ oversized),
               batch' = [batch EXCEPT ![r] = FirstRequest(q, body, oversized)]
        PROVE  RunsSound'
    <3>. DEFINE b == FirstRequest(q, body, oversized)
    <3>1. /\ b.spans = q /\ b.unsent = q \ oversized /\ b.body = body
          /\ b.phase = "sending" /\ b.failed = (oversized # {})
      BY DEF FirstRequest
    <3>. HIDE DEF b
    <3>2. ~b.failed => b.spans \ b.unsent \subseteq stored
      BY <3>1
    <3>3. QED
      BY <2>2, <2>5, <3>1, <3>2 DEF b
  <2>6. QED
    BY <2>1, <2>3, <2>4, <2>5 DEF RunBatch
<1>3. QED
  BY <1>1, <1>2

(* Callbacks run, and never un-run; the start of a batch reports only      *)
(* failures.                                                               *)
LEMMA StartQueuedDelivers ==
  ASSUME TypeOK, NEW q \in SUBSET Exports, NEW count, NEW requested, NEW busy,
         StartQueued(q, count, requested, busy)
  PROVE  \A e \in Exports :
           /\ deliveries'[e] >= deliveries[e]
           /\ outcome'[e] = outcome[e] \/ outcome'[e] = "failed"
<1>1. CASE UNCHANGED <<deliveries, outcome>>
  BY <1>1 DEF TypeOK
<1>2. CASE \E r : AllOversized(r, q)
  BY <1>2 DEF AllOversized, Deliver, TypeOK
<1>3. QED
  BY <1>1, <1>2 DEF StartQueued, RunBatch

LEMMA OwnershipStep ==
  ASSUME TypeOK, RunsSound, Ownership, [Next]_vars
  PROVE  Ownership'
<1>. USE DEF Ownership
<1>1. ASSUME NEW e \in Exports, SpanEnds(e)
      PROVE  Ownership'
  BY <1>1 DEF SpanEnds, exporterVars, seenVars, Owns, TypeOK
<1>2. ASSUME NEW e \in Exports, Export(e)
      PROVE  Ownership'
  <2>1. /\ span[e] = "ended" /\ span'[e] = "exported"
        /\ \A x \in Exports \ {e} : span'[x] = span[x]
    BY <1>2 DEF Export, TypeOK
  <2>2. /\ deliveries[e] = 0 /\ outcome[e] = "none" /\ e \notin queue
        /\ \A r \in inFlight : e \notin batch[r].spans
    BY <2>1 DEF Owns
  <2>3. CASE ExportRefused(e) \/ ExportEmpty(e)
    <3>1. UNCHANGED <<queue, inFlight, batch>>
      BY <2>3 DEF ExportRefused, ExportEmpty, exporterVars
    <3>2. PICK result \in {"dropped", "success"} : Deliver({e}, result)
      BY <2>3 DEF ExportRefused, ExportEmpty
    <3>3. /\ deliveries'[e] = 1 /\ outcome'[e] # "none"
          /\ \A x \in Exports \ {e} :
               deliveries'[x] = deliveries[x] /\ outcome'[x] = outcome[x]
      BY <2>2, <3>2 DEF Deliver
    <3>4. QED
      BY <2>1, <2>2, <3>1, <3>3 DEF Owns
  <2>4. Owns(queue \cup {e}, inFlight, span')
    BY <2>1, <2>2 DEF Owns
  <2>5. CASE ExportSent(e)
    <3>1. queue \cup {e} \in SUBSET Exports
      BY DEF TypeOK
    <3>2. QED
      BY <2>4, <2>5, <3>1, SendQueuedOwns DEF ExportSent
  <2>6. CASE ExportLingers(e)
    BY <2>4, <2>6 DEF ExportLingers, Owns
  <2>7. QED
    BY <1>2, <2>3, <2>5, <2>6 DEF Export
<1>3. ASSUME SendQueued(queue, queuedSpanCount), UNCHANGED span
      PROVE  Ownership'
  <2>1. Owns(queue, inFlight, span') /\ queue \in SUBSET Exports
    BY <1>3 DEF TypeOK
  <2>2. QED
    BY <1>3, <2>1, SendQueuedOwns
<1>4. ASSUME NEW r \in Runs, RequestStep(r)
      PROVE  Ownership'
  <2>1. /\ UNCHANGED <<queue, inFlight, span, deliveries, outcome>>
        /\ \A s \in inFlight : batch'[s].spans = batch[s].spans
    BY <1>4, RequestStepType, RequestStepSound DEF requestUnchanged, callerVars, TypeOK
  <2>2. QED
    BY <2>1 DEF Owns
<1>5. ASSUME NEW r \in Runs, DeliverBatch(r)
      PROVE  Ownership'
  <2>1. /\ UNCHANGED <<queue, inFlight, span>>
        /\ r \in inFlight /\ batch'[r].spans = {}
        /\ \A s \in Runs \ {r} : batch'[s] = batch[s]
    BY <1>5 DEF DeliverBatch, callerVars, SettledBatch, TypeOK
  <2>2. \A e \in Exports :
          IF e \in batch[r].spans
          THEN deliveries'[e] = deliveries[e] + 1 /\ outcome'[e] # "none"
          ELSE deliveries'[e] = deliveries[e] /\ outcome'[e] = outcome[e]
    BY <1>5 DEF DeliverBatch, Deliver
  <2>3. inFlight \subseteq Runs
    BY DEF TypeOK
  <2>4. QED
    BY <2>1, <2>2, <2>3 DEF Owns
<1>6. ASSUME NEW r \in Runs, ReleaseSlot(r)
      PROVE  Ownership'
  <2>1. /\ r \in inFlight /\ batch[r].phase = "settled" /\ span' = span
        /\ StartQueued(queue, queuedSpanCount, dispatchRequested, inFlight \ {r})
    BY <1>6 DEF ReleaseSlot
  <2>2. batch[r].spans = {}
    BY <2>1 DEF RunsSound, RunSound
  <2>3. Owns(queue, inFlight \ {r}, span')
    BY <2>1, <2>2 DEF Owns
  <2>4. /\ queue \in SUBSET Exports /\ dispatchRequested \in BOOLEAN
        /\ inFlight \ {r} \in SUBSET Runs
    BY DEF TypeOK
  <2>5. QED
    BY <2>1, <2>3, <2>4, StartQueuedOwns
<1>7. CASE UNCHANGED vars
  BY <1>7 DEF vars, exporterVars, callerVars, seenVars, Owns
<1>8. QED
  BY <1>1, <1>2, <1>3, <1>4, <1>5, <1>6, <1>7
  DEF Next, RunStep, RequestStep, LingerFires, FlushBegins, FlushHandsOver,
      DrainAgain, Shutdown, DrainPass, Terminated, callerVars

(* The combined invariant of runs and of what was reported. *)
LEMMA StoredStep ==
  ASSUME TypeOK, RunsSound, SuccessMeansStored, [Next]_vars
  PROVE  RunsSound' /\ SuccessMeansStored'
<1>1. ASSUME UNCHANGED <<batch, outcome, stored>>
      PROVE  RunsSound' /\ SuccessMeansStored'
  BY <1>1 DEF RunsSound, RunSound, SuccessMeansStored
<1>2. ASSUME NEW q \in SUBSET Exports, NEW count, NEW requested,
             NEW busy \in SUBSET Runs, stored' = stored,
             StartQueued(q, count, requested, busy)
      PROVE  RunsSound' /\ SuccessMeansStored'
  <2>1. \A e \in Exports : outcome'[e] = outcome[e] \/ outcome'[e] = "failed"
    BY <1>2, StartQueuedDelivers
  <2>2. SuccessMeansStored'
    BY <1>2, <2>1 DEF SuccessMeansStored
  <2>3. QED
    BY <1>2, <2>2, StartQueuedSound
<1>3. queue \in SUBSET Exports /\ inFlight \in SUBSET Runs
  BY DEF TypeOK
<1>4. ASSUME NEW q \in SUBSET Exports, NEW count, SendQueued(q, count),
             stored' = stored
      PROVE  RunsSound' /\ SuccessMeansStored'
  BY <1>2, <1>3, <1>4 DEF SendQueued
<1>5. ASSUME NEW e \in Exports, Export(e)
      PROVE  RunsSound' /\ SuccessMeansStored'
  <2>1. stored' = stored
    BY <1>5 DEF Export
  <2>2. CASE ExportRefused(e) \/ ExportEmpty(e)
    <3>1. /\ batch' = batch
          /\ \A x \in Exports :
               outcome'[x] = "success" => outcome[x] = "success" \/ SpanCount[x] = 0
      BY <2>2 DEF ExportRefused, ExportEmpty, Deliver, exporterVars
    <3>2. QED
      BY <2>1, <3>1 DEF RunsSound, RunSound, SuccessMeansStored
  <2>3. CASE ExportSent(e)
    <3>1. queue \cup {e} \in SUBSET Exports
      BY DEF TypeOK
    <3>2. QED
      BY <1>4, <2>1, <2>3, <3>1 DEF ExportSent
  <2>4. CASE ExportLingers(e)
    BY <1>1, <2>1, <2>4 DEF ExportLingers
  <2>5. QED
    BY <1>5, <2>2, <2>3, <2>4 DEF Export
<1>6. ASSUME NEW r \in Runs, RequestStep(r)
      PROVE  RunsSound' /\ SuccessMeansStored'
  <2>1. outcome' = outcome /\ stored \subseteq stored'
    BY <1>6, RequestStepType DEF requestUnchanged
  <2>2. QED
    BY <1>6, <2>1, RequestStepSound DEF SuccessMeansStored
<1>7. ASSUME NEW r \in Runs, DeliverBatch(r)
      PROVE  RunsSound' /\ SuccessMeansStored'
  <2>1. /\ batch[r].phase = "concluded" /\ stored' = stored
        /\ batch'[r] = SettledBatch
        /\ \A s \in Runs \ {r} : batch'[s] = batch[s]
    BY <1>7 DEF DeliverBatch, TypeOK
  <2>2. RunsSound'
    BY <2>1 DEF RunsSound, RunSound, SettledBatch
  <2>3. \A e \in Exports :
          outcome'[e] = "success" =>
            \/ outcome[e] = "success"
            \/ e \in batch[r].spans /\ ~batch[r].failed
    BY <1>7 DEF DeliverBatch, Deliver
  <2>4. ~batch[r].failed => batch[r].spans \subseteq stored
    BY <2>1 DEF RunsSound, RunSound
  <2>5. QED
    BY <2>1, <2>2, <2>3, <2>4 DEF SuccessMeansStored
<1>8. ASSUME NEW r \in Runs, ReleaseSlot(r)
      PROVE  RunsSound' /\ SuccessMeansStored'
  <2>1. /\ StartQueued(queue, queuedSpanCount, dispatchRequested, inFlight \ {r})
        /\ stored' = stored
    BY <1>8 DEF ReleaseSlot
  <2>2. inFlight \ {r} \in SUBSET Runs
    BY <1>3
  <2>3. QED
    BY <1>2, <1>3, <2>1, <2>2
<1>9. CASE UNCHANGED vars
  BY <1>1, <1>9 DEF vars, exporterVars, seenVars
<1>10. ASSUME NEW e \in Exports, SpanEnds(e)
       PROVE  RunsSound' /\ SuccessMeansStored'
  BY <1>1, <1>10 DEF SpanEnds, exporterVars, seenVars
<1>11. QED
  BY <1>3, <1>4, <1>5, <1>6, <1>7, <1>8, <1>9, <1>10
  DEF Next, RunStep, RequestStep, LingerFires, FlushBegins, FlushHandsOver,
      DrainAgain, Shutdown, DrainPass, Terminated

-----------------------------------------------------------------------------
(* Flush and shutdown                                                      *)

(* A callback that ran has run for ever. *)
LEMMA DeliveriesGrow ==
  ASSUME TypeOK, [Next]_vars
  PROVE  \A e \in Exports : deliveries'[e] >= deliveries[e]
<1>1. ASSUME NEW calls, NEW result, Deliver(calls, result)
      PROVE  \A e \in Exports : deliveries'[e] >= deliveries[e]
  BY <1>1 DEF Deliver, TypeOK
<1>2. ASSUME NEW q \in SUBSET Exports, NEW count, NEW requested, NEW busy,
             StartQueued(q, count, requested, busy)
      PROVE  \A e \in Exports : deliveries'[e] >= deliveries[e]
  BY <1>2, StartQueuedDelivers
<1>3. queue \in SUBSET Exports /\ \A e \in Exports : queue \cup {e} \in SUBSET Exports
  BY DEF TypeOK
<1>4. CASE UNCHANGED deliveries
  BY <1>4 DEF TypeOK
<1>5. ASSUME NEW q \in SUBSET Exports, NEW count, SendQueued(q, count)
      PROVE  \A e \in Exports : deliveries'[e] >= deliveries[e]
  BY <1>2, <1>5 DEF SendQueued
<1>6. ASSUME NEW e \in Exports, Export(e)
      PROVE  \A x \in Exports : deliveries'[x] >= deliveries[x]
  BY <1>1, <1>3, <1>4, <1>5, <1>6
  DEF Export, ExportRefused, ExportEmpty, ExportSent, ExportLingers
<1>7. ASSUME NEW r \in Runs, RequestStep(r)
      PROVE  \A e \in Exports : deliveries'[e] >= deliveries[e]
  BY <1>4, <1>7, RequestStepType DEF requestUnchanged
<1>8. ASSUME NEW r \in Runs, DeliverBatch(r) \/ ReleaseSlot(r)
      PROVE  \A e \in Exports : deliveries'[e] >= deliveries[e]
  BY <1>1, <1>2, <1>3, <1>8 DEF DeliverBatch, ReleaseSlot
<1>9. CASE \/ LingerFires
           \/ \E f \in Flushes : FlushBegins(f) \/ FlushHandsOver(f)
           \/ \E f \in Drainers : DrainAgain(f)
           \/ Shutdown
  BY <1>3, <1>5, <1>9
  DEF LingerFires, FlushBegins, FlushHandsOver, DrainAgain, Shutdown, DrainPass
<1>10. CASE UNCHANGED vars \/ \E e \in Exports : SpanEnds(e)
  BY <1>4, <1>10 DEF vars, SpanEnds, seenVars
<1>11. QED
  BY <1>6, <1>7, <1>8, <1>9, <1>10 DEF Next, RunStep, RequestStep, Terminated

(* A pass of drain that returns leaves the exporter empty. *)
LEMMA DrainReturnsEmpty ==
  ASSUME TypeOK, SlotsSound, NEW f \in Drainers, DrainPass(f), pc'[f] = "done"
  PROVE  queue' = {} /\ inFlight' = {}
<1>1. inFlight' = {}
  BY DEF DrainPass, TypeOK
<1>2. SlotsSound'
  BY SendQueuedSlots DEF DrainPass
<1>3. queue' # {} => dispatchRequested'
  <2>1. StartQueued(queue, queuedSpanCount, dispatchRequested \/ queue # {}, inFlight)
    BY DEF DrainPass, SendQueued
  <2>2. QED
    BY <2>1 DEF StartQueued
<1>4. QED
  BY <1>1, <1>2, <1>3, FS_EmptySet, ExporterAssumption
  DEF SlotsSound, NoStrandedWork

(* Once shut down and drained, the exporter stays empty: export() refuses, *)
(* and no timer, flush or drain finds anything to start.                   *)
LEMMA StaysEmpty ==
  ASSUME TypeOK, shutDown, queue = {}, inFlight = {}, [Next]_vars
  PROVE  queue' = {} /\ inFlight' = {}
<1>1. ASSUME NEW count, SendQueued(queue, count)
      PROVE  queue' = {} /\ inFlight' = {}
  BY <1>1 DEF SendQueued, StartQueued
<1>2. ASSUME NEW e \in Exports, Export(e)
      PROVE  queue' = {} /\ inFlight' = {}
  BY <1>2 DEF Export, ExportRefused, ExportEmpty, ExportSent, ExportLingers,
              Refuses, exporterVars
<1>3. ASSUME NEW r \in Runs, RunStep(r)
      PROVE  FALSE
  BY <1>3 DEF RunStep, Accepted, Terminal, ResponseTooLarge, Retryable,
              DeadlineFires, Aborted, WaitEnds, DeliverBatch, ReleaseSlot
<1>4. CASE UNCHANGED vars \/ \E e \in Exports : SpanEnds(e)
  BY <1>4 DEF vars, SpanEnds, exporterVars
<1>5. QED
  BY <1>1, <1>2, <1>3, <1>4
  DEF Next, LingerFires, FlushBegins, FlushHandsOver, DrainAgain, Shutdown,
      DrainPass, Terminated

LEMMA DrainsStep ==
  ASSUME TypeOK, SlotsSound, DrainsSound, [Next]_vars, TypeOK', Ownership'
  PROVE  DrainsSound'
<1>1. \A e \in Exports : deliveries[e] > 0 => deliveries'[e] > 0
  BY DeliveriesGrow DEF TypeOK
<1>. /\ Closer \in Drainers /\ Closer \notin Flushes /\ Flushes \subseteq Drainers
     /\ \A f \in Drainers : covers[f] \subseteq Exports
  BY ExporterAssumption DEF TypeOK, Drainers
<1>2. pc[Closer] = "done" => queue' = {} /\ inFlight' = {}
  BY StaysEmpty DEF DrainsSound, FlushCovers
<1>3. ASSUME UNCHANGED <<pc, covers, shutDown>>,
             \A e \in Exports : span[e] = "exported" => span'[e] = "exported"
      PROVE  DrainsSound'
  BY <1>1, <1>2, <1>3 DEF DrainsSound, FlushCovers
<1>4. ASSUME NEW e \in Exports, SpanEnds(e) \/ Export(e)
      PROVE  DrainsSound'
  <2>1. UNCHANGED <<pc, covers, shutDown>>
    BY <1>4 DEF SpanEnds, Export, ExportRefused, ExportEmpty, ExportSent,
                ExportLingers, exporterVars
  <2>2. \A x \in Exports : span[x] = "exported" => span'[x] = "exported"
    BY <1>4 DEF SpanEnds, Export, TypeOK
  <2>3. QED
    BY <1>3, <2>1, <2>2
<1>5. ASSUME NEW r \in Runs, RunStep(r)
      PROVE  DrainsSound'
  <2>1. UNCHANGED <<pc, covers, shutDown, span>>
    BY <1>5, RequestStepType
    DEF RunStep, RequestStep, requestUnchanged, DeliverBatch, ReleaseSlot, callerVars
  <2>2. QED
    BY <1>3, <2>1
<1>6. CASE LingerFires
  BY <1>3, <1>6 DEF LingerFires, callerVars
<1>7. ASSUME NEW f \in Flushes, FlushBegins(f)
      PROVE  DrainsSound'
  <2>1. /\ pc' = [pc EXCEPT ![f] = "handover"]
        /\ covers' = [covers EXCEPT ![f] = {e \in Exports : Undelivered(e)}]
        /\ UNCHANGED <<shutDown, span>>
    BY <1>7 DEF FlushBegins
  <2>2. /\ pc'[f] = "handover"
        /\ \A g \in Drainers \ {f} : pc'[g] = pc[g] /\ covers'[g] = covers[g]
    BY <2>1 DEF TypeOK
  <2>3. QED
    BY <1>1, <1>2, <2>1, <2>2 DEF DrainsSound, FlushCovers
<1>8. ASSUME NEW f \in Flushes, DrainPass(f), UNCHANGED <<shutDown, span, covers>>,
             \A e \in covers[f] : deliveries[e] > 0
      PROVE  DrainsSound'
  <2>1. \A g \in Drainers \ {f} : pc'[g] = pc[g]
    BY <1>8 DEF DrainPass, TypeOK
  <2>2. QED
    BY <1>1, <1>2, <1>8, <2>1 DEF DrainsSound, FlushCovers
<1>9. ASSUME NEW f \in Flushes, FlushHandsOver(f)
      PROVE  DrainsSound'
  BY <1>8, <1>9 DEF FlushHandsOver
<1>10. ASSUME NEW f \in Flushes, DrainAgain(f)
       PROVE  DrainsSound'
  BY <1>8, <1>10 DEF DrainAgain, DrainsSound
<1>11. ASSUME DrainPass(Closer), shutDown', span' = span,
              \A f \in Drainers \ {Closer} : covers'[f] = covers[f],
              \A e \in covers'[Closer] : e \in Exports /\ span[e] = "exported"
       PROVE  DrainsSound'
  <2>1. \A g \in Drainers \ {Closer} : pc'[g] = pc[g]
    BY <1>11 DEF DrainPass, TypeOK
  <2>2. pc'[Closer] = "done" => queue' = {} /\ inFlight' = {}
    BY <1>11, DrainReturnsEmpty
  <2>3. pc'[Closer] = "done" => \A e \in covers'[Closer] : deliveries'[e] > 0
    BY <1>11, <2>2 DEF Ownership, Owns
  <2>4. pc'[Closer] # "idle"
    BY <1>11 DEF DrainPass, TypeOK
  <2>5. QED
    BY <1>1, <1>11, <2>1, <2>2, <2>3, <2>4 DEF DrainsSound, FlushCovers
<1>12. CASE DrainAgain(Closer)
  BY <1>11, <1>12 DEF DrainAgain, DrainsSound
<1>13. CASE Shutdown
  <2>1. /\ covers' = [covers EXCEPT ![Closer] =
                        {e \in Exports : span[e] = "exported" /\ deliveries[e] = 0}]
        /\ DrainPass(Closer) /\ shutDown' /\ span' = span
    BY <1>13 DEF Shutdown
  <2>2. /\ covers'[Closer] =
             {e \in Exports : span[e] = "exported" /\ deliveries[e] = 0}
        /\ \A f \in Drainers \ {Closer} : covers'[f] = covers[f]
    BY <2>1 DEF TypeOK
  <2>3. QED
    BY <1>11, <2>1, <2>2
<1>14. CASE UNCHANGED vars
  BY <1>3, <1>14 DEF vars, exporterVars, callerVars
<1>15. QED
  BY <1>4, <1>5, <1>6, <1>7, <1>9, <1>10, <1>12, <1>13, <1>14
  DEF Next, Terminated, Drainers

-----------------------------------------------------------------------------
(* The inductive invariant and what follows from it                        *)

LEMMA Initially == Init => IInv
<1>. SUFFICES ASSUME Init PROVE IInv
  OBVIOUS
<1>1. TypeOK /\ HoldsBalanced
  BY InitType
<1>2. SlotsSound
  BY FS_EmptySet, ExporterAssumption
  DEF Init, SlotsSound, SlotBound, NoStrandedWork, QueueHasWakeUp
<1>3. Ownership
  BY DEF Init, Ownership, Owns
<1>4. RunsSound /\ SuccessMeansStored
  BY DEF Init, RunsSound, RunSound, SettledBatch, SuccessMeansStored
<1>5. DrainsSound
  BY ExporterAssumption DEF Init, DrainsSound, FlushCovers, Drainers
<1>6. QED
  BY <1>1, <1>2, <1>3, <1>4, <1>5 DEF IInv

LEMMA Inductive == IInv /\ [Next]_vars => IInv'
<1>. SUFFICES ASSUME IInv, [Next]_vars PROVE IInv'
  OBVIOUS
<1>1. TypeOK' /\ HoldsBalanced'
  BY TypeStep DEF IInv
<1>2. SlotsSound'
  BY SlotsStep DEF IInv
<1>3. Ownership'
  BY OwnershipStep DEF IInv
<1>4. RunsSound' /\ SuccessMeansStored'
  BY StoredStep DEF IInv
<1>5. DrainsSound'
  BY <1>1, <1>3, DrainsStep DEF IInv
<1>6. QED
  BY <1>1, <1>2, <1>3, <1>4, <1>5 DEF IInv

(* What holds in every state of the exporter. *)
THEOREM Invariance == SafeSpec => []IInv
  BY Initially, Inductive, PTL DEF SafeSpec

(* For any number of calls: every exported call is queued, in one run, or  *)
(* has had its callback once - never two of these, never none.             *)
THEOREM DeliveredExactlyOnce == SafeSpec => []ExactlyOnce
<1>1. IInv => ExactlyOnce
  <2>. SUFFICES ASSUME IInv, NEW e \in Exports
                PROVE  IF span[e] = "exported"
                       THEN \/ e \in queue /\ Holders(e) = {} /\ deliveries[e] = 0
                            \/ /\ e \notin queue /\ deliveries[e] = 0
                               /\ \E r \in Runs : Holders(e) = {r}
                            \/ e \notin queue /\ Holders(e) = {} /\ deliveries[e] = 1
                       ELSE e \notin queue /\ Holders(e) = {} /\ deliveries[e] = 0
    BY DEF ExactlyOnce
  <2>1. Owns(queue, inFlight, span) /\ inFlight \subseteq Runs
    BY DEF IInv, Ownership, TypeOK
  <2>2. CASE \E r \in inFlight : e \in batch[r].spans
    <3>1. PICK r \in inFlight : e \in batch[r].spans
      BY <2>2
    <3>2. Holders(e) = {r}
      BY <2>1, <3>1 DEF Owns, Holders
    <3>3. QED
      BY <2>1, <3>1, <3>2 DEF Owns
  <2>3. CASE ~\E r \in inFlight : e \in batch[r].spans
    <3>1. Holders(e) = {}
      BY <2>3 DEF Holders
    <3>2. QED
      BY <2>1, <2>3, <3>1 DEF Owns
  <2>4. QED
    BY <2>2, <2>3
<1>2. QED
  BY <1>1, Invariance, PTL

(* However a batch was cut into requests and whichever were retried, cut   *)
(* off or refused, only stored calls are reported as exported.             *)
THEOREM ReportedIsStored == SafeSpec => []SuccessMeansStored
<1>1. IInv => SuccessMeansStored
  BY DEF IInv
<1>2. QED
  BY <1>1, Invariance, PTL

(* A flush or shutdown that returned left nothing behind, and after the    *)
(* shutdown returned the exporter is empty for ever.                       *)
THEOREM FlushesCover == SafeSpec => []FlushCovers
<1>1. IInv => FlushCovers
  BY DEF IInv, DrainsSound
<1>2. QED
  BY <1>1, Invariance, PTL

-----------------------------------------------------------------------------
(* The exporter implements SpanDelivery                                    *)

(* The callbacks a step runs: those of S, all with the same result. *)
Settles(S, result) ==
  outcome' = [e \in Exports |-> IF e \in S THEN result ELSE outcome[e]]

LEMMA NothingSettles ==
  ASSUME TypeOK, outcome' = outcome
  PROVE  Settles({}, "failed")
  BY DEF TypeOK, Settles

LEMMA StartQueuedSettles ==
  ASSUME TypeOK, NEW q \in SUBSET Exports, NEW count, NEW requested, NEW busy,
         StartQueued(q, count, requested, busy)
  PROVE  \E S \in SUBSET q : Settles(S, "failed")
<1>1. CASE outcome' = outcome
  BY <1>1, NothingSettles
<1>2. CASE \E r : AllOversized(r, q)
  <2>1. Settles(q, "failed")
    BY <1>2 DEF AllOversized, Deliver, Settles
  <2>2. QED
    BY <2>1
<1>3. QED
  BY <1>1, <1>2 DEF StartQueued, RunBatch

LEMMA QueueIsOwed ==
  ASSUME TypeOK, Ownership
  PROVE  /\ queue \subseteq Exports
         /\ \A e \in queue : span[e] = "exported" /\ outcome[e] = "none"
  BY DEF TypeOK, Ownership, Owns

(* A step that settles owed calls and accepts none is abstract Settle. *)
LEMMA SettleStep ==
  ASSUME TypeOK, NEW S \in SUBSET Exports, NEW result \in {"success", "failed"},
         \A e \in S : span[e] = "exported" /\ outcome[e] = "none",
         Settles(S, result), span' = span
  PROVE  /\ S \subseteq Delivery!Owed
         /\ Fate' = Delivery!SettledIn(S, result)
         /\ shutDown' = shutDown => Delivery!Next
<1>1. S \subseteq Delivery!Owed
  BY DEF Delivery!Owed, Fate
<1>2. Fate' = Delivery!SettledIn(S, result)
  BY DEF Fate, Delivery!SettledIn, Settles
<1>3. shutDown' = shutDown => Delivery!Settle(S, result)
  BY <1>1, <1>2 DEF Delivery!Settle
<1>4. QED
  BY <1>1, <1>2, <1>3 DEF Delivery!Next, Delivery!Results

LEMMA StartStep ==
  ASSUME TypeOK, Ownership, NEW count, NEW requested, NEW busy,
         StartQueued(queue, count, requested, busy), span' = span,
         shutDown' = shutDown
  PROVE  Delivery!Next
<1>1. PICK S \in SUBSET queue : Settles(S, "failed")
  BY StartQueuedSettles DEF TypeOK
<1>2. \A e \in S : e \in Exports /\ span[e] = "exported" /\ outcome[e] = "none"
  BY QueueIsOwed
<1>3. S \in SUBSET Exports
  BY <1>2
<1>4. QED
  BY <1>1, <1>2, <1>3, SettleStep

(* A call is accepted; S may already include it. *)
LEMMA AcceptStep ==
  ASSUME TypeOK, Ownership, NEW e \in Exports, span[e] = "ended",
         span' = [span EXCEPT ![e] = "exported"],
         ~shutDown, shutDown' = shutDown,
         NEW S \in SUBSET (queue \cup {e}), NEW result \in {"success", "failed"},
         Settles(S, result)
  PROVE  Delivery!Next
<1>1. outcome[e] = "none" /\ Fate[e] = "open"
  BY DEF Ownership, Owns, Fate
<1>2. S \subseteq Delivery!Owed \cup {e}
  BY QueueIsOwed DEF Delivery!Owed, Fate
<1>3. Fate' = [Delivery!SettledIn(S, result) EXCEPT
                 ![e] = IF e \in S THEN result ELSE "owed"]
  <2>. DEFINE G == [Delivery!SettledIn(S, result) EXCEPT
                      ![e] = IF e \in S THEN result ELSE "owed"]
  <2>1. /\ G = [x \in Exports |-> G[x]]
        /\ G[e] = IF e \in S THEN result ELSE "owed"
        /\ \A x \in Exports \ {e} : G[x] = IF x \in S THEN result ELSE Fate[x]
    BY DEF Delivery!SettledIn
  <2>2. \A x \in Exports \ {e} : span'[x] = span[x]
    BY DEF TypeOK
  <2>3. Fate'[e] = G[e]
    BY <1>1, <2>1 DEF Fate, Settles, TypeOK
  <2>4. \A x \in Exports \ {e} : Fate'[x] = G[x]
    BY <2>1, <2>2 DEF Fate, Settles, TypeOK
  <2>5. Fate' = [x \in Exports |-> Fate'[x]]
    BY DEF Fate
  <2>. HIDE DEF G
  <2>6. Fate' = G
    BY <2>1, <2>3, <2>4, <2>5
  <2>7. QED
    BY <2>6 DEF G
<1>4. Delivery!Accept(e, S, result)
  BY <1>1, <1>2, <1>3 DEF Delivery!Accept
<1>5. S \in SUBSET Exports
  BY QueueIsOwed
<1>6. QED
  BY <1>4, <1>5 DEF Delivery!Next, Delivery!Results

LEMMA RefinementStep ==
  ASSUME IInv, [Next]_vars
  PROVE  [Delivery!Next]_(Delivery!vars)
<1>. TypeOK /\ Ownership
  BY DEF IInv
<1>1. ASSUME NEW e \in Exports, SpanEnds(e)
      PROVE  UNCHANGED Delivery!vars
  BY <1>1 DEF SpanEnds, exporterVars, seenVars, Delivery!vars, Fate, TypeOK
<1>2. ASSUME NEW e \in Exports, Export(e)
      PROVE  Delivery!Next
  <2>1. span[e] = "ended" /\ span' = [span EXCEPT ![e] = "exported"]
    BY <1>2 DEF Export
  <2>2. CASE ExportRefused(e)
    <3>1. /\ shutDown /\ shutDown' = shutDown
          /\ outcome' = [x \in Exports |-> IF x \in {e} THEN "dropped" ELSE outcome[x]]
      BY <2>2 DEF ExportRefused, Refuses, Deliver, exporterVars
    <3>2. Fate[e] = "open"
      BY <2>1 DEF Ownership, Owns, Fate
    <3>3. Fate' = [Fate EXCEPT ![e] = "dropped"]
      BY <2>1, <3>1 DEF Fate, TypeOK
    <3>4. Delivery!Refuse(e)
      BY <3>1, <3>2, <3>3 DEF Delivery!Refuse
    <3>5. QED
      BY <3>4 DEF Delivery!Next, Delivery!Results
  <2>3. CASE ExportEmpty(e)
    <3>1. /\ ~shutDown /\ shutDown' = shutDown /\ Settles({e}, "success")
          /\ {e} \in SUBSET (queue \cup {e})
      BY <2>3 DEF ExportEmpty, Refuses, Deliver, exporterVars, Settles
    <3>2. QED
      BY <2>1, <3>1, AcceptStep
  <2>4. CASE ExportSent(e)
    <3>1. /\ ~shutDown /\ shutDown' = shutDown
          /\ queue \cup {e} \in SUBSET Exports
          /\ StartQueued(queue \cup {e}, queuedSpanCount + SpanCount[e],
                         dispatchRequested \/ queue \cup {e} # {}, inFlight)
      BY <2>4 DEF ExportSent, Refuses, SendQueued, TypeOK
    <3>2. PICK S \in SUBSET (queue \cup {e}) : Settles(S, "failed")
      BY <3>1, StartQueuedSettles
    <3>3. QED
      BY <2>1, <3>1, <3>2, AcceptStep
  <2>5. CASE ExportLingers(e)
    <3>1. /\ ~shutDown /\ shutDown' = shutDown /\ Settles({}, "failed")
          /\ {} \in SUBSET (queue \cup {e})
      BY <2>5, NothingSettles DEF ExportLingers, Refuses
    <3>2. QED
      BY <2>1, <3>1, AcceptStep
  <2>6. QED
    BY <1>2, <2>2, <2>3, <2>4, <2>5 DEF Export
<1>3. ASSUME NEW count, SendQueued(queue, count), UNCHANGED <<span, shutDown>>
      PROVE  Delivery!Next
  BY <1>3, StartStep DEF SendQueued
<1>4. ASSUME NEW r \in Runs, RequestStep(r)
      PROVE  UNCHANGED Delivery!vars
  BY <1>4, RequestStepType DEF requestUnchanged, callerVars, Delivery!vars, Fate
<1>5. ASSUME NEW r \in Runs, DeliverBatch(r)
      PROVE  Delivery!Next
  <2>1. /\ r \in inFlight /\ span' = span /\ shutDown' = shutDown
        /\ \E result \in {"success", "failed"} : Settles(batch[r].spans, result)
    BY <1>5 DEF DeliverBatch, Deliver, Settles, callerVars
  <2>2. batch[r].spans \in SUBSET Exports
    BY DEF TypeOK, Batch
  <2>3. \A e \in batch[r].spans : span[e] = "exported" /\ outcome[e] = "none"
    BY <2>1, <2>2 DEF Ownership, Owns
  <2>4. QED
    BY <2>1, <2>2, <2>3, SettleStep
<1>6. ASSUME NEW r \in Runs, ReleaseSlot(r)
      PROVE  Delivery!Next
  BY <1>6, StartStep DEF ReleaseSlot
<1>7. CASE Shutdown
  <2>1. /\ span' = span /\ shutDown' = TRUE
        /\ StartQueued(queue, queuedSpanCount, dispatchRequested \/ queue # {}, inFlight)
    BY <1>7 DEF Shutdown, DrainPass, SendQueued
  <2>2. ~shutDown
    BY <1>7 DEF Shutdown, IInv, DrainsSound
  <2>3. PICK S \in SUBSET queue : Settles(S, "failed")
    BY <2>1, StartQueuedSettles DEF TypeOK
  <2>4. \A e \in S : e \in Exports /\ span[e] = "exported" /\ outcome[e] = "none"
    BY <2>3, QueueIsOwed
  <2>5. S \in SUBSET Exports
    BY <2>4
  <2>6. S \subseteq Delivery!Owed /\ Fate' = Delivery!SettledIn(S, "failed")
    BY <2>1, <2>3, <2>4, <2>5, SettleStep
  <2>7. Delivery!Close(S, "failed")
    BY <2>1, <2>2, <2>6 DEF Delivery!Close
  <2>8. QED
    BY <2>5, <2>7 DEF Delivery!Next, Delivery!Results
<1>8. CASE UNCHANGED vars
  BY <1>8 DEF vars, exporterVars, callerVars, seenVars, Delivery!vars, Fate
<1>9. QED
  BY <1>1, <1>2, <1>3, <1>4, <1>5, <1>6, <1>7, <1>8
  DEF Next, RunStep, RequestStep, LingerFires, FlushBegins, FlushHandsOver,
      DrainAgain, DrainPass, Terminated, callerVars

(* The exporter implements its abstract promise: each of its steps settles *)
(* owed calls with one result, accepts one call, refuses one after the     *)
(* shutdown, closes, or changes nothing a caller can see.                  *)
THEOREM Implements == SafeSpec => Delivery!SafeSpec
<1>1. Init => Delivery!Init
  BY DEF Init, Delivery!Init, Fate
<1>2. IInv /\ [Next]_vars => [Delivery!Next]_(Delivery!vars)
  BY RefinementStep
<1>3. QED
  BY <1>1, <1>2, Invariance, PTL DEF SafeSpec, Delivery!SafeSpec
=============================================================================
