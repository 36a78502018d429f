---------------------------- MODULE OtlpExporter ----------------------------
(***************************************************************************)
(* The span exporter of src/otlp-export.ts as the Langfuse client uses it: *)
(* a queue of export() calls that wait for a linger window or a free       *)
(* request slot, the requests in flight with their retries and their one   *)
(* total deadline, the flush that holds the window open, and shutdown.     *)
(*                                                                         *)
(* The span processor between the program and the exporter is external:    *)
(* it hands every ended span to export() some time after the span ended,   *)
(* and its forceFlush waits for the callbacks of the spans it owes before  *)
(* it calls the exporter's forceFlush (src/langfuse-client.ts, 909-924).   *)
(*                                                                         *)
(* A definition marked "slip" is a wrong form of the definition after it.  *)
(* No specification uses it; it is what a plausible bug there would look   *)
(* like, and the README says which property notices it.                    *)
(***************************************************************************)
EXTENDS Integers, FiniteSets

CONSTANTS
  Exports,                 (* the export() calls of one runtime            *)
  SpanCount,               (* SpanCount[e]: how many spans the call carries *)
  DispatchExports,         (* calls that carry a dispatch span             *)
  lingerMs,                (* the linger window; 0 switches it off         *)
  MAX_CONCURRENT_EXPORTS,  (* request slots                                *)
  MAX_LINGERING_SPANS,     (* lingering spans past this count leave at once *)
  Flushes,                 (* calls of flushRuntime                        *)
  Closer                   (* the one call of shutdown                     *)

ASSUME ExporterAssumption ==
  /\ SpanCount \in [Exports -> Nat]
  /\ DispatchExports \subseteq Exports
  /\ lingerMs \in Nat
  /\ MAX_CONCURRENT_EXPORTS \in Nat \ {0}
  /\ MAX_LINGERING_SPANS \in Nat \ {0}
  /\ IsFiniteSet(Flushes)
  /\ Closer \notin Flushes

Drainers == Flushes \cup {Closer}

(* Promises of inFlight.  One more than the slots, so that the bound on    *)
(* the slots is a property of the code and not of this set.                *)
Runs == 1 .. MAX_CONCURRENT_EXPORTS + 1

VARIABLES
  (* the exporter's own state *)
  queue,              (* calls accepted and not yet taken by a run         *)
  queuedSpanCount,    (* spans in the queue, as the code counts them       *)
  lingerTimer,        (* is the linger timer armed?                        *)
  dispatchRequested,  (* should the queue leave as soon as a slot is free? *)
  immediateHolds,     (* open sendImmediately() holds                      *)
  inFlight,           (* the runs that occupy a slot                       *)
  shutDown,           (* has shutdown been called?                         *)
  batch,              (* batch[r]: what run r is doing                     *)
  (* the callers *)
  span,               (* span[e]: "open", "ended" or "exported"            *)
  pc,                 (* pc[f]: where a flush or the shutdown is           *)
  awaits,             (* awaits[f]: runs its allSettled still waits for    *)
  covers,             (* covers[f]: calls owed a callback when f began     *)
  (* what the outside has seen *)
  deliveries,         (* deliveries[e]: how often e's callback ran         *)
  outcome,            (* outcome[e]: the last result delivered for e       *)
  stored              (* calls whose spans the server has stored           *)

exporterVars == <<queue, queuedSpanCount, lingerTimer, dispatchRequested,
                  immediateHolds, inFlight, shutDown, batch>>
callerVars   == <<span, pc, awaits, covers>>
seenVars     == <<deliveries, outcome, stored>>
vars         == <<exporterVars, callerVars, seenVars>>

Outcomes == {"none", "success", "failed", "dropped"}
Phases   == {"sending", "waiting", "concluded", "settled"}

(* spans: the calls of the batch.  unsent: those whose request has not     *)
(* concluded.  body: those in the current request.  failed: has a request  *)
(* failed or a span been left out?  expired: has the deadline timer fired? *)
(* aborted: has the controller of the run's fetches been aborted?          *)
Batch == [spans : SUBSET Exports, unsent : SUBSET Exports,
          body : SUBSET Exports, phase : Phases,
          failed : BOOLEAN, expired : BOOLEAN, aborted : BOOLEAN]

SettledBatch ==
  [spans |-> {}, unsent |-> {}, body |-> {}, phase |-> "settled",
   failed |-> FALSE, expired |-> FALSE, aborted |-> FALSE]

TypeOK ==
  /\ queue \subseteq Exports
  /\ queuedSpanCount \in Nat
  /\ lingerTimer \in BOOLEAN
  /\ dispatchRequested \in BOOLEAN
  /\ immediateHolds \in Nat
  /\ inFlight \subseteq Runs
  /\ shutDown \in BOOLEAN
  /\ batch \in [Runs -> Batch]
  /\ span \in [Exports -> {"open", "ended", "exported"}]
  /\ pc \in [Drainers -> {"idle", "handover", "draining", "done"}]
  /\ awaits \in [Drainers -> SUBSET Runs]
  /\ covers \in [Drainers -> SUBSET Exports]
  /\ deliveries \in [Exports -> Nat]
  /\ outcome \in [Exports -> Outcomes]
  /\ stored \subseteq Exports

Init ==
  /\ queue = {}
  /\ queuedSpanCount = 0
  /\ lingerTimer = FALSE
  /\ dispatchRequested = FALSE
  /\ immediateHolds = 0
  /\ inFlight = {}
  /\ shutDown = FALSE
  /\ batch = [r \in Runs |-> SettledBatch]
  /\ span = [e \in Exports |-> "open"]
  /\ pc = [f \in Drainers |-> "idle"]
  /\ awaits = [f \in Drainers |-> {}]
  /\ covers = [f \in Drainers |-> {}]
  /\ deliveries = [e \in Exports |-> 0]
  /\ outcome = [e \in Exports |-> "none"]
  /\ stored = {}

-----------------------------------------------------------------------------
(* Delivering results                                                      *)

(* Every callback of a batch receives the same result. *)
Deliver(calls, result) ==
  /\ deliveries' = [e \in Exports |->
                      IF e \in calls THEN deliveries[e] + 1 ELSE deliveries[e]]
  /\ outcome' = [e \in Exports |-> IF e \in calls THEN result ELSE outcome[e]]

-----------------------------------------------------------------------------
(* Starting a run: runBatch up to its first await                          *)

FirstRequest(calls, body, oversized) ==
  [spans |-> calls, unsent |-> calls \ oversized, body |-> body,
   phase |-> "sending", failed |-> oversized # {}, expired |-> FALSE,
   aborted |-> FALSE]

(* Planning threw: runBatch's catch delivers a failure after an await. *)
PlanThrew(calls) ==
  [spans |-> calls, unsent |-> {}, body |-> {},
   phase |-> "concluded", failed |-> TRUE, expired |-> FALSE,
   aborted |-> FALSE]

(* slip: the result is delivered here and by the catch as well *)
AllOversizedTwice(r, calls) ==
  /\ batch' = [batch EXCEPT ![r] = PlanThrew(calls)]
  /\ Deliver(calls, "failed")

(* Every span is oversized: nothing to send, and no await before the       *)
(* callbacks run.                                                          *)
AllOversized(r, calls) ==
  /\ batch' = [batch EXCEPT ![r] = SettledBatch]
  /\ Deliver(calls, "failed")

RunBatch(r, calls) ==
  \/ /\ batch' = [batch EXCEPT ![r] = PlanThrew(calls)]
     /\ UNCHANGED <<deliveries, outcome>>
  \/ AllOversized(r, calls)
  \/ \E oversized \in SUBSET calls \ {calls} :
       \E body \in SUBSET (calls \ oversized) \ {{}} :
         /\ batch' = [batch EXCEPT ![r] = FirstRequest(calls, body, oversized)]
         /\ UNCHANGED <<deliveries, outcome>>

HasFreeSlot(busy) == Cardinality(busy) < MAX_CONCURRENT_EXPORTS

NewRun(busy) == CHOOSE r \in Runs : r \notin busy

(* startQueued, given the queue, the request flag and the runs in flight   *)
(* as its caller leaves them: takes the whole queue as one batch.          *)
StartQueued(q, count, requested, busy) ==
  IF requested /\ q # {} /\ HasFreeSlot(busy)
  THEN /\ dispatchRequested' = FALSE
       /\ queuedSpanCount' = 0
       /\ queue' = {}
       /\ inFlight' = busy \cup {NewRun(busy)}
       /\ RunBatch(NewRun(busy), q)
  ELSE /\ dispatchRequested' = requested
       /\ queuedSpanCount' = count
       /\ queue' = q
       /\ inFlight' = busy
       /\ UNCHANGED <<batch, deliveries, outcome>>

(* Ends the window; a queue that finds no slot stays requested. *)
SendQueued(q, count) ==
  /\ lingerTimer' = FALSE
  /\ StartQueued(q, count, dispatchRequested \/ q # {}, inFlight)

-----------------------------------------------------------------------------
(* The program and the span processor                                      *)

(* A span ends; the processor owes its export from now on. *)
SpanEnds(e) ==
  /\ span[e] = "open"
  /\ span' = [span EXCEPT ![e] = "ended"]
  /\ UNCHANGED <<exporterVars, pc, awaits, covers, seenVars>>

(* slip: a held window is ignored *)
LeavesNowUnheld(e, count) ==
  \/ lingerMs = 0
  \/ count >= MAX_LINGERING_SPANS
  \/ e \in DispatchExports

LeavesNow(e, count) ==
  \/ lingerMs = 0
  \/ immediateHolds > 0
  \/ count >= MAX_LINGERING_SPANS
  \/ e \in DispatchExports

RefusesNever == FALSE \* slip

Refuses == shutDown

(* export() after shutdown: the callback fails at once. *)
ExportRefused(e) ==
  /\ Refuses
  /\ Deliver({e}, "dropped")
  /\ UNCHANGED <<exporterVars>>

ExportEmpty(e) ==
  /\ ~Refuses
  /\ SpanCount[e] = 0
  /\ Deliver({e}, "success")
  /\ UNCHANGED <<exporterVars>>

ExportSent(e) ==
  /\ ~Refuses
  /\ SpanCount[e] > 0
  /\ LeavesNow(e, queuedSpanCount + SpanCount[e])
  /\ SendQueued(queue \cup {e}, queuedSpanCount + SpanCount[e])
  /\ UNCHANGED <<immediateHolds, shutDown>>

(* The call joins the window; the first one arms the timer. *)
ExportLingers(e) ==
  /\ ~Refuses
  /\ SpanCount[e] > 0
  /\ ~LeavesNow(e, queuedSpanCount + SpanCount[e])
  /\ queue' = queue \cup {e}
  /\ queuedSpanCount' = queuedSpanCount + SpanCount[e]
  /\ lingerTimer' = TRUE
  /\ UNCHANGED <<dispatchRequested, immediateHolds, inFlight, shutDown, batch,
                 deliveries, outcome>>

Export(e) ==
  /\ span[e] = "ended"
  /\ span' = [span EXCEPT ![e] = "exported"]
  /\ \/ ExportRefused(e)
     \/ ExportEmpty(e)
     \/ ExportSent(e)
     \/ ExportLingers(e)
  /\ UNCHANGED <<pc, awaits, covers, stored>>

LingerFires ==
  /\ lingerTimer
  /\ SendQueued(queue, queuedSpanCount)
  /\ UNCHANGED <<immediateHolds, shutDown, callerVars, stored>>

-----------------------------------------------------------------------------
(* One request of a run: sendRequestWithRetry and sendAttempt              *)

FailLastOnly(b, ok) == ~ok \* slip

Fail(b, ok) == b.failed \/ ~ok

(* The current request of b concluded: the next one starts, unless none is *)
(* left or the deadline passed, which fails every request still to be sent. *)
Conclude(r, b, ok) ==
  LET left == b.unsent \ b.body
      next == [b EXCEPT !.unsent = left, !.failed = Fail(b, ok)]
  IN  \/ /\ left = {} \/ b.expired
         /\ batch' = [batch EXCEPT ![r] =
                        [next EXCEPT !.unsent = {}, !.body = {},
                                     !.phase = "concluded",
                                     !.failed = @ \/ left # {}]]
      \/ /\ left # {} /\ ~b.expired
         /\ \E body \in SUBSET left \ {{}} :
              batch' = [batch EXCEPT ![r] =
                          [next EXCEPT !.body = body, !.phase = "sending"]]

requestUnchanged ==
  UNCHANGED <<queue, queuedSpanCount, lingerTimer, dispatchRequested,
              immediateHolds, inFlight, shutDown, callerVars, deliveries,
              outcome>>

Accepted(r) ==
  /\ r \in inFlight /\ batch[r].phase = "sending" /\ ~batch[r].aborted
  /\ stored' = stored \cup batch[r].body
  /\ Conclude(r, batch[r], TRUE)
  /\ requestUnchanged

(* A terminal answer: another status, or a partial or malformed 200.  The  *)
(* server may have kept any of it.                                         *)
Terminal(r) ==
  /\ r \in inFlight /\ batch[r].phase = "sending" /\ ~batch[r].aborted
  /\ \E kept \in SUBSET batch[r].body : stored' = stored \cup kept
  /\ Conclude(r, batch[r], FALSE)
  /\ requestUnchanged

(* A response over the read limit fails its request, and aborts the        *)
(* controller that the run's later requests share.                         *)
ResponseTooLarge(r) ==
  /\ r \in inFlight /\ batch[r].phase = "sending" /\ ~batch[r].aborted
  /\ \E kept \in SUBSET batch[r].body : stored' = stored \cup kept
  /\ Conclude(r, [batch[r] EXCEPT !.aborted = TRUE], FALSE)
  /\ requestUnchanged

(* 429, 502, 503, 504 or a transport error, which may hide a stored body.  *)
(* Whether the wait fits the time left is a choice: time is not modelled.  *)
Retryable(r) ==
  /\ r \in inFlight /\ batch[r].phase = "sending" /\ ~batch[r].aborted
  /\ \E kept \in SUBSET batch[r].body : stored' = stored \cup kept
  /\ \/ batch' = [batch EXCEPT ![r].phase = "waiting"]
     \/ Conclude(r, batch[r], FALSE)
  /\ requestUnchanged

(* The deadline timer aborts the request or the wait of its own run.  In a *)
(* run that is already aborted it makes no difference.                     *)
DeadlineFires(r) ==
  /\ r \in inFlight /\ batch[r].phase \in {"sending", "waiting"}
  /\ ~batch[r].aborted
  /\ batch' = [batch EXCEPT ![r].expired = TRUE, ![r].aborted = TRUE]
  /\ UNCHANGED stored
  /\ requestUnchanged

(* The aborted fetch rejects, and the request counts as timed out.  If the *)
(* deadline cut it short the server may have stored the body; a fetch that *)
(* finds its controller aborted sends nothing.                             *)
Aborted(r) ==
  /\ r \in inFlight /\ batch[r].phase = "sending" /\ batch[r].aborted
  /\ \E kept \in SUBSET batch[r].body :
       /\ ~batch[r].expired => kept = {}
       /\ stored' = stored \cup kept
  /\ Conclude(r, batch[r], FALSE)
  /\ requestUnchanged

(* The wait ends, by its own timer or by the abort: the loop starts again  *)
(* with the deadline check.                                                *)
WaitEnds(r) ==
  /\ r \in inFlight /\ batch[r].phase = "waiting"
  /\ \/ /\ ~batch[r].expired
        /\ batch' = [batch EXCEPT ![r].phase = "sending"]
     \/ /\ batch[r].expired
        /\ Conclude(r, batch[r], FALSE)
  /\ UNCHANGED stored
  /\ requestUnchanged

(* Every request concluded: the callbacks run.  The slot is still taken. *)
DeliverBatch(r) ==
  /\ r \in inFlight /\ batch[r].phase = "concluded"
  /\ Deliver(batch[r].spans, IF batch[r].failed THEN "failed" ELSE "success")
  /\ batch' = [batch EXCEPT ![r] = SettledBatch]
  /\ UNCHANGED <<queue, queuedSpanCount, lingerTimer, dispatchRequested,
                 immediateHolds, inFlight, shutDown, callerVars, stored>>

(* slip: the slot is freed, and nothing starts the next batch *)
ReleaseSlotOnly(r) ==
  /\ r \in inFlight /\ batch[r].phase = "settled"
  /\ inFlight' = inFlight \ {r}
  /\ awaits' = [f \in Drainers |-> awaits[f] \ {r}]
  /\ UNCHANGED <<queue, queuedSpanCount, lingerTimer, dispatchRequested,
                 immediateHolds, shutDown, batch, span, pc, covers, seenVars>>

(* The run's finally: the slot is free, the next batch starts, and only    *)
(* then does the promise settle for those who wait on it.                  *)
ReleaseSlot(r) ==
  /\ r \in inFlight /\ batch[r].phase = "settled"
  /\ StartQueued(queue, queuedSpanCount, dispatchRequested, inFlight \ {r})
  /\ awaits' = [f \in Drainers |-> awaits[f] \ {r}]
  /\ UNCHANGED <<lingerTimer, immediateHolds, shutDown, span, pc, covers,
                 stored>>

-----------------------------------------------------------------------------
(* Flush and shutdown                                                      *)

(* slip: waits once for the runs in flight, and returns *)
DrainPassOnce(f) ==
  /\ SendQueued(queue, queuedSpanCount)
  /\ pc' = [pc EXCEPT ![f] = IF pc[f] = "draining" \/ inFlight' = {}
                             THEN "done" ELSE "draining"]
  /\ awaits' = [awaits EXCEPT ![f] = IF pc'[f] = "done" THEN {} ELSE inFlight']

(* One pass of drain: returns if nothing is in flight after sendQueued,    *)
(* else waits for the runs in flight now.                                  *)
DrainPass(f) ==
  /\ SendQueued(queue, queuedSpanCount)
  /\ pc' = [pc EXCEPT ![f] = IF inFlight' = {} THEN "done" ELSE "draining"]
  /\ awaits' = [awaits EXCEPT ![f] = inFlight']

(* slip: a release that is not idempotent, called twice *)
ReleaseHoldTwice(f) ==
  immediateHolds' = IF f \in Flushes /\ pc'[f] = "done"
                    THEN immediateHolds - 2 ELSE immediateHolds

(* The hold ends with the flush that took it. *)
ReleaseHold(f) ==
  immediateHolds' = IF f \in Flushes /\ pc'[f] = "done"
                    THEN immediateHolds - 1 ELSE immediateHolds

Undelivered(e) == span[e] # "open" /\ deliveries[e] = 0

(* flushRuntime: take the hold, then processor.forceFlush. *)
FlushBegins(f) ==
  /\ pc[f] = "idle"
  /\ immediateHolds' = immediateHolds + 1
  /\ SendQueued(queue, queuedSpanCount)
  /\ pc' = [pc EXCEPT ![f] = "handover"]
  /\ covers' = [covers EXCEPT ![f] = {e \in Exports : Undelivered(e)}]
  /\ UNCHANGED <<shutDown, span, awaits, stored>>

(* The processor has every callback it waited for and calls drain. *)
FlushHandsOver(f) ==
  /\ pc[f] = "handover"
  /\ \A e \in covers[f] : deliveries[e] > 0
  /\ DrainPass(f)
  /\ ReleaseHold(f)
  /\ UNCHANGED <<shutDown, span, covers, stored>>

DrainAgain(f) ==
  /\ pc[f] = "draining"
  /\ awaits[f] = {}
  /\ DrainPass(f)
  /\ ReleaseHold(f)
  /\ UNCHANGED <<shutDown, span, covers, stored>>

Shutdown ==
  /\ pc[Closer] = "idle"
  /\ shutDown' = TRUE
  /\ DrainPass(Closer)
  /\ covers' = [covers EXCEPT ![Closer] =
                  {e \in Exports : span[e] = "exported" /\ deliveries[e] = 0}]
  /\ UNCHANGED <<immediateHolds, span, stored>>

-----------------------------------------------------------------------------
(* The request and delivery steps of run r. *)
RunStep(r) ==
  \/ Accepted(r)
  \/ Terminal(r)
  \/ ResponseTooLarge(r)
  \/ Retryable(r)
  \/ DeadlineFires(r)
  \/ Aborted(r)
  \/ WaitEnds(r)
  \/ DeliverBatch(r)
  \/ ReleaseSlot(r)

(* The runtime is gone: every span settled, every flush and the shutdown   *)
(* returned.  The only state in which nothing is left to do.               *)
Terminated ==
  /\ \A e \in Exports : deliveries[e] > 0
  /\ \A f \in Drainers : pc[f] = "done"
  /\ UNCHANGED vars

Next ==
  \/ \E e \in Exports : SpanEnds(e) \/ Export(e)
  \/ LingerFires
  \/ \E r \in Runs : RunStep(r)
  \/ \E f \in Flushes : FlushBegins(f) \/ FlushHandsOver(f)
  \/ \E f \in Drainers : DrainAgain(f)
  \/ Shutdown
  \/ Terminated

(* What the event loop owes: ended spans are handed over, the deadline     *)
(* timer of a run fires, an aborted fetch rejects, waits end, callbacks    *)
(* and continuations run.  A server need not answer, a flush need not be   *)
(* called, and the linger timer is unref'd: the process may end first.     *)
Fairness ==
  /\ \A e \in Exports : WF_vars(Export(e))
  /\ \A r \in Runs : /\ WF_vars(DeadlineFires(r))
                     /\ WF_vars(Aborted(r))
                     /\ WF_vars(WaitEnds(r))
                     /\ WF_vars(DeliverBatch(r))
                     /\ WF_vars(ReleaseSlot(r))
  /\ \A f \in Flushes : WF_vars(FlushHandsOver(f))
  /\ \A f \in Drainers : WF_vars(DrainAgain(f))

SafeSpec == Init /\ [][Next]_vars
Spec     == SafeSpec /\ Fairness

-----------------------------------------------------------------------------
(* Properties                                                              *)

(* At most MAX_CONCURRENT_EXPORTS requests run at once, whichever of       *)
(* export, the timer, a flush or a released slot starts the next one.      *)
SlotBound == Cardinality(inFlight) <= MAX_CONCURRENT_EXPORTS

(* Queued work that was asked to leave is only ever held back by full      *)
(* slots: "a waiter on inFlight never observes a gap while requested work  *)
(* remains" (startQueued).                                                 *)
NoStrandedWork ==
  dispatchRequested => /\ queue # {}
                       /\ Cardinality(inFlight) = MAX_CONCURRENT_EXPORTS

(* No queued call is left without something that will make it leave: an    *)
(* armed timer, or a request that the next free slot serves.  While a      *)
(* flush holds the window open, or the window is over its limit, the timer *)
(* does not count.                                                         *)
QueueHasWakeUp ==
  queue # {} =>
    \/ dispatchRequested
    \/ /\ lingerTimer
       /\ immediateHolds = 0
       /\ queuedSpanCount < MAX_LINGERING_SPANS

(* The slots are respected, and none of them, nor a wake-up, is ever       *)
(* missed: no order of dispatches, timers, holds and released slots leaves *)
(* queued work waiting for nothing.                                        *)
SlotsSound == SlotBound /\ NoStrandedWork /\ QueueHasWakeUp

(* Every exported call is in exactly one place - the queue, one unfinished *)
(* run, or delivered once - through batching, retries and shutdown.        *)
Holders(e) == {r \in inFlight : e \in batch[r].spans}

ExactlyOnce ==
  \A e \in Exports :
    IF span[e] = "exported"
    THEN \/ e \in queue /\ Holders(e) = {} /\ deliveries[e] = 0
         \/ e \notin queue /\ deliveries[e] = 0 /\ \E r \in Runs : Holders(e) = {r}
         \/ e \notin queue /\ Holders(e) = {} /\ deliveries[e] = 1
    ELSE e \notin queue /\ Holders(e) = {} /\ deliveries[e] = 0

(* A call reported as exported is stored, however its batch was split into *)
(* requests and whichever of them were retried.                            *)
SuccessMeansStored ==
  \A e \in Exports :
    outcome[e] = "success" => e \in stored \/ SpanCount[e] = 0

(* A flush or shutdown that returned left no call behind that was owed a   *)
(* callback when it began; and after shutdown returned nothing is queued   *)
(* or in flight, ever.                                                     *)
FlushCovers ==
  /\ \A f \in Drainers :
       pc[f] = "done" => \A e \in covers[f] : deliveries[e] > 0
  /\ pc[Closer] = "done" => queue = {} /\ inFlight = {}

(* Only the deadline cuts a request short: "The only abort source is this  *)
(* export's deadline timer" (sendRequestWithRetry, line 245).  The code    *)
(* does otherwise: see ResponseTooLarge.                                   *)
OnlyDeadlineAborts ==
  \A r \in Runs :
    batch[r].phase = "sending" /\ batch[r].aborted => batch[r].expired

(* Every flush and the shutdown return, though no server answers and the   *)
(* linger timer never fires.                                               *)
DrainsEnd == \A f \in Drainers : pc[f] # "idle" ~> pc[f] = "done"

(* Every ended span gets a result, flushed or not, provided the process    *)
(* lives long enough for an armed linger timer to fire.                    *)
EverySpanSettles ==
  []<>(~lingerTimer) =>
    \A e \in Exports : span[e] = "ended" ~> deliveries[e] > 0

(* Nobody waits for ever: neither the callers of a flush or the shutdown,  *)
(* nor the callback of an ended span.                                      *)
EverythingSettles == DrainsEnd /\ EverySpanSettles

-----------------------------------------------------------------------------
(* Strengthenings that make the safety properties inductive.               *)

(* One hold per flush that has begun and not returned. *)
Holding       == {f \in Flushes : pc[f] \in {"handover", "draining"}}
HoldsBalanced == immediateHolds = Cardinality(Holding)

(* Where the calls of q, of the runs in busy and of the past are, given    *)
(* the processor's view sp of them.                                        *)
Owns(q, busy, sp) ==
  \A e \in Exports :
    /\ e \in q => sp[e] = "exported" /\ deliveries[e] = 0
    /\ \A r \in busy : e \in batch[r].spans =>
                          sp[e] = "exported" /\ deliveries[e] = 0 /\ e \notin q
    /\ \A r, s \in busy : e \in batch[r].spans /\ e \in batch[s].spans => r = s
    /\ sp[e] = "exported" /\ deliveries[e] = 0 =>
         e \in q \/ \E r \in busy : e \in batch[r].spans
    /\ sp[e] # "exported" => deliveries[e] = 0
    /\ deliveries[e] \in {0, 1}
    /\ outcome[e] = "none" <=> deliveries[e] = 0

Ownership == Owns(queue, inFlight, span)

(* A run that has not failed has stored what it no longer has to send. *)
RunSound(b) ==
  /\ b.body \subseteq b.unsent
  /\ b.phase = "settled" => b.spans = {}
  /\ b.phase = "concluded" => b.unsent = {}
  /\ ~b.failed => b.spans \ b.unsent \subseteq stored

RunsSound == \A r \in Runs : RunSound(batch[r])

DrainsSound ==
  /\ FlushCovers
  /\ \A f \in Flushes : pc[f] = "draining" => \A e \in covers[f] : deliveries[e] > 0
  /\ pc[Closer] # "idle" <=> shutDown
  /\ \A e \in covers[Closer] : span[e] = "exported"

IInv == /\ TypeOK /\ HoldsBalanced /\ SlotsSound /\ Ownership
        /\ RunsSound /\ SuccessMeansStored /\ DrainsSound

-----------------------------------------------------------------------------
(* The abstract promise, SpanDelivery: a call is open until it is handed   *)
(* to export(), owed until its callback runs, then has its result.         *)
Fate == [e \in Exports |->
           IF outcome[e] # "none" THEN outcome[e]
           ELSE IF span[e] = "exported" THEN "owed" ELSE "open"]

Delivery == INSTANCE SpanDelivery WITH fate <- Fate, closed <- shutDown

(* The exporter keeps the promise: one result per call, one result per     *)
(* batch, refusals only after shutdown, nothing owed for ever after it.    *)
KeepsDeliveryPromise == Delivery!Spec
=============================================================================
