--------------------------- MODULE RuntimeRegistry ---------------------------
(***************************************************************************)
(* The process-wide runtime of src/langfuse-client.ts: one exporter, one   *)
(* score client and one global tracer provider, bound to a configuration   *)
(* key.  Every operation that uses or replaces the runtime is a            *)
(* transition, and transitions take turns in the order of their calls.     *)
(*                                                                         *)
(* An action is what runs between two awaits.  A caller of getRuntime uses *)
(* the answer at once, before the next transition starts: it opens a root  *)
(* observation, opens a child of one, or sends a score.  What it creates   *)
(* is named after the call, and so is a runtime that the call creates.     *)
(* Observations end at any time, whatever happened to their runtime.       *)
(*                                                                         *)
(* The exporter appears by its promise (SpanDelivery): an ended span       *)
(* settles, and one that ends after the exporter's shutdown is refused.    *)
(***************************************************************************)
CONSTANTS
  Calls,      (* the calls of the operations                               *)
  Operation,  (* Operation[c]: what c calls, and uses the runtime for      *)
  Key,        (* Key[c]: runtimeKey of the configuration that c passes     *)
  TraceOf,    (* TraceOf[c]: the call that opened the trace of c           *)
  None        (* no runtime, no tracer provider                            *)

Gets       == {"trace", "child", "score"}
Operations == Gets \cup {"flush", "reconfigure", "shutdown"}

ASSUME RegistryAssumption ==
  /\ Operation \in [Calls -> Operations]
  /\ TraceOf \in [Calls -> Calls]
  /\ \A c \in Calls : Operation[c] = "trace" => TraceOf[c] = c
  /\ None \notin Calls

VARIABLES
  pc,        (* pc[c]: the await that c has reached                        *)
  previous,  (* previous[c]: the transitions that c waits for              *)
  runtime,   (* the runtime that getRuntime hands out                      *)
  provider,  (* the global tracer provider, named after its runtime        *)
  draining,  (* the runtime that a flush or a shutdown works on            *)
  awaited,   (* the spans or scores whose delivery that work waits for     *)
  life,      (* life[r]: how far the life of runtime r is                  *)
  status,    (* status[c]: the observation or the score of c               *)
  home,      (* home[c]: the runtime that it is registered with            *)
  sink,      (* sink[c]: the runtime that exports it                       *)
  owed       (* owed[c]: what was not settled when c was called            *)

lineVars    == <<pc, previous>>
runtimeVars == <<runtime, provider, draining, awaited, life>>
recordVars  == <<status, home, sink>>
vars        == <<lineVars, runtimeVars, recordVars, owed>>

(* The awaits of a transition: for the processor's flush, for the scores,  *)
(* for the score client's shutdown and for that of the tracer provider.    *)
Working == {"draining", "settling", "disposing", "closing"}
PCs     == Working \cup {"idle", "queued", "done", "rejected"}

InLine == {c \in Calls : pc[c] \in Working \cup {"queued"}}

Traces == {c \in Calls : Operation[c] = "trace"}
Spans  == {c \in Calls : Operation[c] \in {"trace", "child"}}
Scores == {c \in Calls : Operation[c] = "score"}

TypeOK ==
  /\ pc \in [Calls -> PCs]
  /\ previous \in [Calls -> SUBSET InLine]
  /\ runtime \in Calls \cup {None}
  /\ provider \in Calls \cup {None}
  /\ draining \in Calls \cup {None}
  /\ draining # None <=> \E c \in Calls : pc[c] \in Working
  /\ awaited \subseteq Calls
  /\ life \in [Calls -> {"none", "live", "closing", "gone"}]
  /\ status \in [Calls -> {"none", "open", "ended", "settled", "lost"}]
  /\ home \in [Calls -> Calls \cup {None}]
  /\ sink \in [Calls -> Calls \cup {None}]
  /\ \A c \in Calls :
       /\ status[c] # "none" => Operation[c] \in Gets /\ home[c] # None
       /\ status[c] = "open" => c \in Spans
  /\ owed \in [Calls -> SUBSET Calls]

Init ==
  /\ pc = [c \in Calls |-> "idle"]
  /\ previous = [c \in Calls |-> {}]
  /\ runtime = None
  /\ provider = None
  /\ draining = None
  /\ awaited = {}
  /\ life = [c \in Calls |-> "none"]
  /\ status = [c \in Calls |-> "none"]
  /\ home = [c \in Calls |-> None]
  /\ sink = [c \in Calls |-> None]
  /\ owed = [c \in Calls |-> {}]

-----------------------------------------------------------------------------
(* What a runtime keeps                                                    *)

(* Its open observations: the maps traces and observations. *)
Open(r) == {c \in Spans : home[c] = r /\ status[c] = "open"}

(* What has ended and is not settled: spans that the exporter owes, and    *)
(* the scores in pendingScores.                                            *)
Unsettled        == {c \in Calls : status[c] = "ended"}
UnsentSpans(r)   == {c \in Spans \cap Unsettled : sink[c] = r}
PendingScores(r) == {c \in Scores \cap Unsettled : home[c] = r}

-----------------------------------------------------------------------------
(* Transitions take turns                                                  *)

(* slip: a call does not wait for a runtime that is handed out no more *)
TurnUnqueued(c) == pc[c] = "queued" /\ (runtime = None \/ previous[c] = {})

Turn(c) == pc[c] = "queued" /\ previous[c] = {}

Call(c) ==
  /\ pc[c] = "idle"
  /\ pc' = [pc EXCEPT ![c] = "queued"]
  /\ previous' = [previous EXCEPT ![c] = InLine]
  /\ owed' = [owed EXCEPT ![c] = Unsettled]
  /\ UNCHANGED <<runtimeVars, recordVars>>

(* slip: the gate stays closed *)
ReleaseHeld(c, result) ==
  /\ pc' = [pc EXCEPT ![c] = result]
  /\ UNCHANGED previous

(* The operation is over, with a result or an error: the gate opens. *)
Release(c, result) ==
  /\ pc' = [pc EXCEPT ![c] = result]
  /\ previous' = [d \in Calls |-> previous[d] \ {c}]

(* slip: a call that is refused takes another turn *)
RejectLater(c) ==
  /\ pc' = [pc EXCEPT ![c] = "queued"]
  /\ previous' = [d \in Calls |-> IF d = c THEN InLine \ {c} ELSE previous[d] \ {c}]

Reject(c) == Release(c, "rejected")

Await(c, label) ==
  /\ pc' = [pc EXCEPT ![c] = label]
  /\ UNCHANGED previous

-----------------------------------------------------------------------------
(* The runtime's uses                                                      *)

Record(c, state, r, p) ==
  /\ status' = [status EXCEPT ![c] = state]
  /\ home' = [home EXCEPT ![c] = r]
  /\ sink' = [sink EXCEPT ![c] = p]

(* A root is a span of the global provider p. *)
CreateTrace(c, r, p) == Operation[c] = "trace" /\ Record(c, "open", r, p)

(* A child needs its parent: an open observation of its trace, or the root. *)
CreateObservation(c, r, p) ==
  /\ Operation[c] = "child"
  /\ \/ /\ \E o \in Open(r) : TraceOf[o] = TraceOf[c]
        /\ Record(c, "open", r, p)
     \/ TraceOf[c] \notin Open(r) /\ UNCHANGED recordVars

(* A score goes through the runtime's own client. *)
SendScore(c, r) == Operation[c] = "score" /\ Record(c, "ended", r, r)

(* getRuntime answers with runtime r, while p is the global provider. *)
Answer(c, r, p) ==
  /\ CreateTrace(c, r, p) \/ CreateObservation(c, r, p) \/ SendScore(c, r)
  /\ Release(c, "done")

(* The caller gets a runtime of its own configuration, unless its creation *)
(* fails, before or after it has replaced p as the global provider.        *)
CreateRuntime(c, p) ==
  \/ /\ runtime' = c
     /\ provider' = c
     /\ Answer(c, c, c)
  \/ /\ runtime' = None
     /\ provider' \in {p, c}
     /\ UNCHANGED recordVars
     /\ Reject(c)

(* The owner ends its observation.  A span whose exporter was shut down is *)
(* lost; the end of a root that a shutdown ended changes nothing.          *)
EndObservation(c) ==
  /\ c \in Spans /\ status[c] = "open"
  /\ status' = [status EXCEPT ![c] =
                  IF life[sink[c]] = "live" THEN "ended" ELSE "lost"]
  /\ UNCHANGED <<lineVars, runtimeVars, home, sink, owed>>

(* The exporter's callback, or the end of the score's request. *)
Settle(c) ==
  /\ status[c] = "ended"
  /\ status' = [status EXCEPT ![c] = "settled"]
  /\ UNCHANGED <<lineVars, runtimeVars, home, sink, owed>>

-----------------------------------------------------------------------------
(* flushRuntime and shutdownRuntime                                        *)

(* The processor is asked to flush: it waits for the spans it has seen. *)
DrainSpans(c, r) ==
  /\ draining' = r
  /\ Await(c, "draining")

FlushRuntime(c) ==
  /\ DrainSpans(c, runtime)
  /\ awaited' = UnsentSpans(runtime)
  /\ UNCHANGED <<runtime, provider, life, recordVars>>

(* slip: the roots stay open *)
KeepOpenTraces(r) == status' = status

FinalizeOpenTraces(r) ==
  status' = [c \in Calls |-> IF c \in Traces \cap Open(r) THEN "ended" ELSE status[c]]

(* The runtime is handed out no more, its open roots end, and it drains. *)
ShutdownRuntime(c) ==
  /\ runtime' = None
  /\ FinalizeOpenTraces(runtime)
  /\ DrainSpans(c, runtime)
  /\ awaited' = UnsentSpans(runtime) \cup (Traces \cap Open(runtime))
  /\ UNCHANGED <<provider, life, home, sink>>

(* slip: the scores are not awaited *)
SpansDrainedOnly(c) ==
  /\ pc[c] = "draining" /\ awaited \cap Unsettled = {}
  /\ awaited' = {}
  /\ Await(c, "settling")
  /\ UNCHANGED <<runtime, provider, draining, life, recordVars, owed>>

SpansDrained(c) ==
  /\ pc[c] = "draining" /\ awaited \cap Unsettled = {}
  /\ awaited' = PendingScores(draining)
  /\ Await(c, "settling")
  /\ UNCHANGED <<runtime, provider, draining, life, recordVars, owed>>

ScoresSettled(c) ==
  /\ pc[c] = "settling" /\ awaited \cap Unsettled = {}
  /\ awaited' = {}
  /\ IF Operation[c] = "flush"
     THEN draining' = None /\ Release(c, "done")
     ELSE Await(c, "disposing") /\ UNCHANGED draining
  /\ UNCHANGED <<runtime, provider, life, recordVars, owed>>

(* The score client is shut down.  Its queue is empty. *)
ClientDisposed(c) ==
  /\ pc[c] = "disposing"
  /\ life' = [life EXCEPT ![draining] = "closing"]
  /\ Await(c, "closing")
  /\ UNCHANGED <<runtime, provider, draining, awaited, recordVars, owed>>

(* The exporter's shutdown drains what it has accepted.  getRuntime goes   *)
(* on to create its own runtime.                                           *)
ProviderDisposed(c) ==
  /\ pc[c] = "closing" /\ UnsentSpans(draining) = {}
  /\ draining' = None
  /\ IF Operation[c] \in Gets
     THEN /\ CreateRuntime(c, None)
          /\ life' = [life EXCEPT ![draining] = "gone",
                                  ![c] = IF runtime' = c THEN "live" ELSE @]
     ELSE /\ provider' = None
          /\ Release(c, "done")
          /\ life' = [life EXCEPT ![draining] = "gone"]
          /\ UNCHANGED <<runtime, recordVars>>
  /\ UNCHANGED <<awaited, owed>>

-----------------------------------------------------------------------------
(* The operations                                                          *)

Busy(r) == Open(r) # {}

(* slip: whatever the runtime's configuration is *)
ServesAny(r, c) == r # None

Serves(r, c) == r # None /\ Key[r] = Key[c]

GetRuntime(c) ==
  /\ Turn(c) /\ Operation[c] \in Gets
  /\ \/ /\ Serves(runtime, c)
        /\ Answer(c, runtime, provider)
        /\ UNCHANGED runtimeVars
     \/ /\ runtime = None
        /\ CreateRuntime(c, provider)
        /\ life' = [life EXCEPT ![c] = IF runtime' = c THEN "live" ELSE @]
        /\ UNCHANGED <<draining, awaited>>
     \/ /\ runtime # None /\ ~Serves(runtime, c) /\ Busy(runtime)
        /\ Reject(c)
        /\ UNCHANGED <<runtimeVars, recordVars>>
     \/ /\ runtime # None /\ ~Serves(runtime, c) /\ ~Busy(runtime)
        /\ ShutdownRuntime(c)
  /\ UNCHANGED owed

FlushClient(c) ==
  /\ Turn(c) /\ Operation[c] = "flush"
  /\ IF runtime = None
     THEN Release(c, "done") /\ UNCHANGED <<runtimeVars, recordVars>>
     ELSE FlushRuntime(c)
  /\ UNCHANGED owed

(* slip: a runtime in use is retired as well *)
ReconfigureBusy(c) ==
  /\ Turn(c) /\ Operation[c] = "reconfigure"
  /\ IF runtime = None
     THEN Release(c, "done") /\ UNCHANGED <<runtimeVars, recordVars>>
     ELSE ShutdownRuntime(c)
  /\ UNCHANGED owed

ReconfigureRuntime(c) ==
  /\ Turn(c) /\ Operation[c] = "reconfigure"
  /\ IF runtime = None \/ Busy(runtime)
     THEN Release(c, "done") /\ UNCHANGED <<runtimeVars, recordVars>>
     ELSE ShutdownRuntime(c)
  /\ UNCHANGED owed

ShutdownClient(c) ==
  /\ Turn(c) /\ Operation[c] = "shutdown"
  /\ IF runtime = None
     THEN Release(c, "done") /\ UNCHANGED <<runtimeVars, recordVars>>
     ELSE ShutdownRuntime(c)
  /\ UNCHANGED owed

-----------------------------------------------------------------------------
Transition(c) ==
  \/ GetRuntime(c)
  \/ FlushClient(c)
  \/ ReconfigureRuntime(c)
  \/ ShutdownClient(c)
  \/ SpansDrained(c)
  \/ ScoresSettled(c)
  \/ ClientDisposed(c)
  \/ ProviderDisposed(c)

(* Every call has returned, and nothing is on its way. *)
Terminated ==
  /\ \A c \in Calls : pc[c] \in {"done", "rejected"}
  /\ Unsettled = {}
  /\ UNCHANGED vars

Next ==
  \/ \E c \in Calls : Call(c) \/ Transition(c) \/ EndObservation(c) \/ Settle(c)
  \/ Terminated

(* Continuations run, requests end at their deadline.  Nobody has to call  *)
(* an operation or to end an observation.                                  *)
Fairness == \A c \in Calls : WF_vars(Transition(c)) /\ WF_vars(Settle(c))

SafeSpec == Init /\ [][Next]_vars
Spec     == SafeSpec /\ Fairness

-----------------------------------------------------------------------------
(* Properties                                                              *)

(* A runtime is created only when the one before it has delivered its      *)
(* spans and disposed its exporter, so two configurations are never live   *)
(* at once; and the global provider is that of the runtime handed out.     *)
OneLiveRuntime ==
  /\ \A r, s \in Calls : {life[r], life[s]} \subseteq {"live", "closing"} => r = s
  /\ runtime # None => provider = runtime

(* What a caller records goes to the project of the configuration that it  *)
(* passed, and a child goes where its trace went.                          *)
RightProject ==
  \A c \in Calls : status[c] # "none" =>
    /\ home[c] \in Calls /\ Key[home[c]] = Key[c]
    /\ sink[c] = home[c]

(* A root observation is open only in the runtime that is handed out: no   *)
(* replacement or shutdown leaves it behind in a runtime that is gone, and *)
(* its end is never lost.                                                  *)
RootsNeverLost ==
  \A c \in Traces : /\ status[c] = "open" => home[c] = runtime
                    /\ status[c] # "lost"

(* A flush or a shutdown that has returned leaves nothing unsettled that   *)
(* had ended or was sent before its call, in whatever runtime.             *)
FlushCovers ==
  \A c \in Calls :
    (pc[c] = "done" /\ Operation[c] \in {"flush", "shutdown"}) =>
       owed[c] \cap Unsettled = {}

(* Only shutdownClient closes a runtime in which an observation is still   *)
(* open: "its open prompts must finish before this configuration can be    *)
(* applied" (getRuntime).                                                  *)
OnlyShutdownCuts ==
  [][\A r, o \in Calls :
       (runtime = r /\ runtime' = None /\ o \in Open(r)) =>
         \E c \in Calls : Operation[c] = "shutdown" /\ pc[c] = "queued"
                          /\ pc'[c] = "draining"]_vars

(* Every operation that was called has returned: again and again, whether  *)
(* the ones before it succeed or fail.                                     *)
Returned == \A c \in Calls : pc[c] \in {"idle", "done", "rejected"}

-----------------------------------------------------------------------------
(* The inductive invariant                                                 *)

(* Of two transitions in line one waits for the other, and the one at work *)
(* waits for none.                                                         *)
LineOrdered ==
  /\ \A c, d \in InLine : c # d => c \in previous[d] \/ d \in previous[c]
  /\ \A c \in Calls : pc[c] \in Working => previous[c] = {}

(* The runtimes that are not gone are the one handed out and the one that  *)
(* the transition at work drains.                                          *)
RuntimeSound ==
  /\ \A r \in Calls : /\ life[r] \in {"live", "closing"} => r \in {runtime, draining}
                      /\ life[r] # "none" => pc[r] = "done"
  /\ runtime # None => life[runtime] = "live" /\ provider = runtime
  /\ \A c \in Calls : pc[c] \in Working =>
       /\ runtime = IF Operation[c] = "flush" THEN draining ELSE None
       /\ Operation[c] = "flush" => pc[c] \in {"draining", "settling"}
       /\ life[draining] = IF pc[c] = "closing" THEN "closing" ELSE "live"

(* A record belongs to a caller that was answered, and what is unsettled   *)
(* belongs to a runtime that is not gone.                                  *)
RecordSound ==
  \A c \in Calls :
    /\ status[c] # "none" => pc[c] = "done"
    /\ status[c] = "ended" => home[c] \in {runtime, draining} \ {None}

(* Once a runtime is to be disposed, its scores are settled. *)
ScoresAwaited ==
  \A c \in Calls :
    /\ pc[c] = "settling" => PendingScores(draining) \subseteq awaited
    /\ pc[c] \in {"disposing", "closing"} => PendingScores(draining) = {}

(* What a flush or a shutdown has to wait for, at each of its awaits. *)
OwedAwaited ==
  \A c \in Calls :
    /\ \A o \in owed[c] : status[o] \in {"ended", "settled"}
    /\ Operation[c] \in {"flush", "shutdown"} =>
         /\ pc[c] = "draining" => owed[c] \cap Unsettled \cap Spans \subseteq awaited
         /\ pc[c] = "settling" => owed[c] \cap Unsettled \subseteq awaited
         /\ pc[c] \in {"disposing", "closing", "done"} => owed[c] \cap Unsettled = {}

IInv == /\ TypeOK /\ LineOrdered /\ RuntimeSound
        /\ RecordSound /\ RightProject /\ RootsNeverLost
        /\ ScoresAwaited /\ OwedAwaited
=============================================================================
