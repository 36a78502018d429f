# A verification project for pi-langfuse

pi-langfuse is a Pi extension that turns the agent's events (prompts, turns,
model requests, tool calls) into Langfuse traces, and delivers them over OTLP.
It runs in one Node.js process beside the agent. Everything it does happens in
event handlers that await git, timers, the network and each other, so what can
go wrong is mostly a matter of interleaving: two handlers that wait for one
promise, a value read before an await and used after it, a shutdown in the
middle of a start, a flush that overtakes a span.

This directory holds TLA+ modules translated from `src/*.ts`, the TLC
configurations that check them on small instances, and TLAPS proofs of their
safety for every instance. Paths below are relative to the repository.

## The system: inventory

| Part | State | Operations | Talks to | What is hard | What makes it correct |
|---|---|---|---|---|---|
| OTLP exporter, `src/otlp-export.ts` | queue, span count, linger timer, dispatch flag, holds, runs in flight, shutdown flag; per run a deadline and an abort controller | `export`, `sendImmediately`, `forceFlush`, `shutdown`, timer | span processor (callbacks), HTTP server | slots freed and taken around awaits, retries against one deadline, flush against late spans | each call settles once; success means stored; work never strands; flush covers what came before it |
| Langfuse runtime, `src/langfuse-client.ts` | one process-wide runtime, its open traces and observations, pending scores, a transition promise | `getRuntime`, trace/span/generation/score wrappers, `flushClient`, `reconfigureRuntime`, `shutdownClient` | exporter, lifecycles | transitions queue while handlers hold an older runtime | no root left open, nothing sent to the wrong project, flush waits for scores |
| Prompt lifecycle, `src/agent-lifecycle.ts` | per session: the prompt, the pending start and its signature, the last finalized trace; per prompt: finalization promise, span promise, root | `beforeAgentStart`, `agentStart`, `agentEnd`, `agentSettled`, `finalizePrompt` | runtime, git metadata, turns and tools | starts that wait for starts, finalization that several boundaries join | one root at a time, each ended once, scores once |
| Turn lifecycle, `src/turn-lifecycle.ts` | turns by index, their span promise | `turnStart`, `turnEnd`, abandonment | prompt, generations | end before the span exists | children end before their parent |
| Generation lifecycle, `src/generation-lifecycle.ts` | ordered requests of a turn | provider request and response, message events, abandonment | turn, runtime | events matched by order | usage counted once, one observation per request |
| Tool lifecycle, `src/tool-lifecycle.ts`, ask flows, `src/ask-wait.ts` | tools by call id, ask flows by flow id | call, start, update, result, end, abandon, ask events | prompt, turn | result and end in either order, an ask that belongs to no live prompt | each tool counted once, waiting time attributed once |
| Session ownership, `src/session-state.ts`, `src/index.ts` | sessions by key, a lease each, cached configuration | session events, refresh, commands | all lifecycles | the last session closes what a new one needs | a lease keeps the runtime alive |
| Raw trace, `src/raw-trace.ts` | a queue of records and a scheduled flush | append, drain | files | order against a synchronous drain | no record lost or reordered |
| Diagnostics, `src/diagnostics-log.ts`, `src/runtime-diagnostics.ts` | a log file, a gate of recent causes | append with rotation, notify | files, UI | rotation that fails half way | bounded log, one notice per cause and window |
| Identity salt, `src/identity-salt.ts` | a file and a lock file shared by processes | load or create | file system | crash with the lock held, two creators | one salt for all |
| Configuration, `src/config.ts`, `src/settings.ts` | files, environment, command overrides | resolve, load, save | sessions | a cached value that another session's event clears | one configuration per prompt |
| Export and training export, `src/export.ts`, `src/training-export.ts` | files in a staging place | scan, convert, publish | external scanner | failure between steps, options that contradict each other | only scanned files are approved, no sample without proof and consent |
| Local stack, `src/local-autostart.ts`, `src/local-init.ts` | a once flag; generated files | start, init | docker | - | started once |
| Payload policy, redaction, `src/payload-policy.ts`, `src/redaction.ts`, `src/telemetry-helpers.ts`, `src/capture-policy.ts`, `src/identity.ts` | none | shaping of records and bodies | everyone | fields nested in messages of many providers, one node budget for all | nothing excluded gets out, the declared provenance is true |

`PROJECT.json` lists the components with their status and every hazard with
the line where it bites and the property that covers it, or why none does.

Which module stands for which part:

| Part | Modules |
|---|---|
| OTLP exporter | `OtlpExporter`, abstract `SpanDelivery`, `OtlpExporterProofs` |
| Prompt lifecycle | `PromptLifecycle`, abstract `RootSlot`, `PromptLifecycleProofs` |
| Langfuse runtime | `RuntimeRegistry`, `RuntimeRegistryProofs` |
| Turns, generations, tools | `PromptScope`, `TurnObservations`, `ToolObservations`, composed in `ObservationLifecycle`, abstract `ObservationTree`, `ObservationLifecycleProofs` |
| Sessions, configuration, shared client | `Sessions`, which composes prompts, leases and the line of transitions, `SessionsProofs` |
| Ask flows | `AskFlows` |
| Identity salt | `IdentitySalt`, `IdentitySaltProofs` |
| Raw trace, diagnostics | `RawTraceWriter`, `DiagnosticsLog` |
| Export, training conversion | `ExportPipeline`, `TrainingConversion` |
| Payload policy, capture policy | `PayloadShaping` |
| Ask flows, raw trace, diagnostics, export and training conversion side by side | `Components`, `ComponentProofs` |

`SequenceLemmas` states what the operators of the library modules that the
models use return (`RemoveAt`, `RemoveFirst`, `SelectInSeq`, `Min`, `Max`), and
gives induction and recursion the form that the provers can use.

## What is modelled

### OtlpExporter (with SpanDelivery)

`OtlpExporter` is `src/otlp-export.ts` as the client uses it. One variable per
variable of `createOtlpExporter` (`queue`, `queuedSpanCount`, `lingerTimer`,
`dispatchRequested`, `immediateHolds`, `inFlight`, `shutDown`), and `batch[r]`
for what a running `runBatch` holds in its local variables. An action is the
code between two awaits: `Export` is all of `export()`, with the synchronous
start of a run when a slot is free; `Accepted`, `Terminal`, `Retryable`,
`ResponseTooLarge` and `Aborted` are the ways a request concludes;
`DeliverBatch` runs the callbacks, `ReleaseSlot` is the `finally` that frees
the slot and starts the next batch; `FlushBegins`, `DrainPass`, `DrainAgain`
and `FlushHandsOver` are `flushRuntime` and `drain()`.

Abstractions. A request body is the set of calls it carries, and any split of
a batch into bodies and oversized calls may happen. Time is not modelled:
whether a retry still fits, and when the deadline fires, are choices. A server
may store the spans of a request whose answer is lost. Callbacks and the error
sink do not throw, as the program's do not. The span processor is external: it
hands each ended span to `export()` some time later, and its `forceFlush`
waits for the callbacks it is owed.

`SpanDelivery` is what the exporter promises its callers, without queue, slots
or requests: accepted calls settle once, calls after the shutdown are refused
at once. `KeepsDeliveryPromise` is the refinement.

### PromptLifecycle (with RootSlot)

`PromptLifecycle` is one session of `src/agent-lifecycle.ts` with the events of
`src/index.ts` that end prompts. A handler call is a process whose `pc` is the
await it has reached, and a step runs it to its next await. The session's
fields have the code's names; a pending start is named by the handler that
runs it, and so is a prompt, since a handler creates at most one.

| `pc` | The await in the code |
|---|---|
| `queued` | `await state.promptStartPromise` in `beforeAgentStart` |
| `pending` | `await pendingStart` in `startUnannouncedPrompt` |
| `replacing`, `publishing` | `await finalizePrompt(...)` at the head of a start, with and without a prompt to replace |
| `source`, `runtime` | `collectSourceMetadata` and `getRuntime` in a start |
| `tail`, `opening` | after `startUnannouncedPrompt`, and `promptSpanStartPromise`, in `agentStart` |
| `joining`, `flushing` | `finalizationPromise` and `finalizationFlushPromise` in `finalizePrompt` |
| `closing` | `shutdownClient` in `session_shutdown` |

Concurrency. JavaScript runs a handler to its next await without a break, so
nothing interleaves elsewhere. Continuations of settled promises run before the
event loop takes the next I/O event; the module keeps the two orders that the
code depends on. Those who wait for one start resume in the order they came
and before any new event (`ahead`, `FirstDue`), and git's answer, which is an
I/O event, comes when no continuation is due (`Quiet`). Answers of `getRuntime`
may come at any time, because it settles without I/O unless a flush is under
way. Other continuations interleave freely, which allows more than the code does.

Abstractions. Configurations that keep no record at all return early and are
left out. `Signature` compares announcements. A finalization may or may not
have turns and tools to abandon. `getRuntime` may fail; then no root is opened,
or no score is sent. Metadata of traces, and `agent_end`, which only sets the
failure that the metadata reports, are left out.

`RootSlot` is the promise about root observations alone: at most one is open in
a session, and each prompt opens at most one and never again after its end.

### RuntimeRegistry

`RuntimeRegistry` is the process-wide runtime of `src/langfuse-client.ts`.
`getRuntime`, `flushClient`, `reconfigureRuntime` and `shutdownClient` are
calls of `withRuntimeTransition`; a call is a process whose `pc` is `queued`
(it awaits the transitions before it, `previous`) or one of the awaits of a
drain:

| `pc` | The await in the code |
|---|---|
| `draining` | `processor.forceFlush()` in `flushRuntime` |
| `settling` | `Promise.all(rt.pendingScores)` in `flushRuntime` |
| `disposing` | `scoreClient.shutdown()` in `shutdownRuntime` |
| `closing` | `tracerProvider.shutdown()` in `shutdownRuntime` |

`previous` is the set of transitions ahead: the code's chain of promises
resolves when they have all been released. `runtime` is the module variable of
the code, `provider` the global tracer provider, `draining` the runtime that
the transition at work flushes or shuts down. A runtime is named after the call
that created it, and so are the root, child or score that the caller of a
`getRuntime` makes with the answer; `home` is the runtime whose maps hold it,
`sink` the one whose processor or client delivers it. They can differ, because
roots are created by the global provider and scores by the runtime's client:
that they agree is a property (`RightProject`).

Abstractions. The answer and the use of it are one step, because a caller's
continuation runs before the next transition begins. The key of a call's
configuration is a constant. A runtime's creation may fail, before or after the
global provider is set. The exporter appears by what `SpanDelivery` promises:
an ended span settles, one that ends after the exporter's shutdown is lost. The
wrapper that presents the root as the span `agent.prompt`, the contents of
traces and the attempts of `sendScore` (which always ends, by its deadline) are
left out.

### ObservationLifecycle (PromptScope, TurnObservations, ToolObservations, ObservationTree)

The observations under the root of one traced prompt. `PromptScope` holds what
all of them share: the promise of each span (`start`), the span itself, the
flags, and the line of those who wait for `getRuntime`. `TurnObservations` is
`src/turn-lifecycle.ts` and `src/generation-lifecycle.ts`, `ToolObservations`
is `src/tool-lifecycle.ts`, and `ObservationLifecycle` adds the part of
`finalizePrompt` that ends what is open and composes the three.

| Variable | In the code |
|---|---|
| `stage` | the await of `finalizePrompt`: in `abandonTools`, in the loop over the turns, in the scores |
| `closing[t]` | the await of `turnEnd`: in `abandonTurnGenerations`, or `spanStartPromise` |
| `visiting[x]`, `awaitedTool` | the `finishPromise` that a run of `abandonTurn`, or `abandon`, waits for |
| `finish[c]` | `finishPromise`, from its creation over its awaits to its end |
| `failing` | a `messageUpdate` with an error that waits for the generation's start |
| `order`, `activeTurns`, `completed`, `activeTools` | the maps and sets of these names |
| `resultSeen` | the tools whose `tool_result` came |
| `switched` | how often the cached configuration has turned tracing off or on |
| `blamed`, `saysAbandoned` | `prompt.abandonmentReason`, and the local `abandoned` of `finalizePrompt` |

Concurrency. Events come when no continuation is due (`Quiet`); handlers may
overlap, since nothing obliges Pi to wait for one before it sends the next
event. `getRuntime` answers in the order of the calls, three microtasks apart
(the gate of one transition, the `then` that adopts it, the `await` of the
next). By then the ends that the answer before made due are through
(`EndsThrough`), and a `turn_end` that can go on to a further generation
(`GoesOn`) does so before an error that waited for that generation's start is
reported (`FailureDue`), and before the finalization, which began to wait
later, gets there (`TurnEndsFirst`). When a `turn_end` has ended its last
generation, the ends of the others that were due are through before it closes
the turn (`EndsPassed`): it comes back through three awaits
(`src/turn-lifecycle.ts:136`, `164` and `165`). A finalization that goes on with
the next turn takes the next one that is still in the map (`NextTurns`), as the
iterator of a JavaScript map does. Other continuations run in any order.

Abstractions. Events carry no request keys and no turn indexes, as those of the
supported Pi do not, so they belong to the latest turn; the events of a turn
come before its `turn_end`. Handlers that only update an observation after an
await have no step there. Outputs, usage, and failures other than a tool's are
left out.

The prompt begins with tracing on. After that the configuration is whatever the
instance has cached, which an event of this or another session may replace
(`ConfigChange`; `src/index.ts:817`), and each handler asks `canTrace` (`Traces`) where the code
does: at its start, and `turn_end` once more after its awaits
(`src/turn-lifecycle.ts:166`, `183`). A turn whose span such a `turn_end` did not
end is forgotten, and its span stays open; `EndedOnce` says that this is the only
way in which an observation is left open, and the run `observation_order` shows
it happening. `finalizePrompt` uses the configuration its caller passes, which
may be older than the cached one: `FinalizerScores` allows either outcome once
the configuration has changed, which is more than the code does. The key of the
configuration, which decides what `getRuntime` answers, is in `RuntimeRegistry`
and `Sessions`; here an answer may fail whenever it comes.

`ObservationTree` is what a reader of the trace may rely on, without handlers,
promises and maps: an observation is opened once, below what has not ended, and
ended once; a turn ends after its requests; a root that says nothing was given up
is right, then and later. It leaves open when the root ends, since the code lets
a turn end after it (see Findings).

### Sessions

`Sessions` is the process: `src/index.ts`, `src/session-state.ts`, and what they
do with prompts and the client. Several instances of the extension may live in
it, each with the sessions it is told of and a cached configuration; `leases`
is the set that all of them share.

| Variable | In the code |
|---|---|
| `settings[i]`, `cachedConfig[i]`, `file` | what the panel chose, `cachedConfig`, and the contents of the file as a version |
| `states[i]`, `leases` | `SessionStateOwner`'s map in its order, `activeSessionLeases` |
| `promptState`, `pendingStart` | the fields of a session's state |
| `start[p]`, `final[p]` | the await that the start, or the finalization, of p has reached |
| `refresh[r]` | the rest of the walk of `refreshConfig`, and the finalization it awaits |
| `line` | the transitions that are not over, first come first served |
| `runtime`, `open`, `cut` | the runtime's configuration, the roots open in it, the roots that a shutdown of the client ended |

A configuration is the pair of settings and file version that `resolveConfig`
saw: two are equal if and only if they were resolved from the same inputs. A
transition is one step here, since nothing else reads the runtime while it
works; what happens inside is `RuntimeRegistry`. A prompt has the awaits of
`PromptLifecycle` at which another session can get its turn, and one event that
records a child (`PromptEvent`). Continuations run before the next event
(`Ready`). Only open roots count as use of the runtime here; that open children
count too is in `RuntimeRegistry`, and would only add refusals here.

Assumption: a session ends when no start of it waits to publish its prompt. What
happens otherwise is the finding of `prompt_shutdown`. The cached configuration
may come from another session's event or be older than the file
(`src/index.ts:455`, `src/index.ts:821`); `RecordsHome` says what this cannot
break, `session_scores` what it does.

### AskFlows

The events of pi-ask come on a bus that knows no sessions. `AskFlows` models how
`src/tool-lifecycle.ts` attributes them, and how `src/ask-wait.ts` makes the
waiting time of a prompt of what was recorded. `askFlows` and `ambiguous` are
the fields of a prompt, `Candidates` and `Owners` are `resolveAskFlowOwner`;
`opened` and `closed` are the truth that the code never sees. Events may be late,
repeated, out of order and without a valid time. Assumption (`InTime`): when a
prompt has ended and an event of its dialog comes after that, no other prompt
runs a tool call with the same id; the code could not tell them apart.

### IdentitySalt

A process is one call of `loadOrCreateIdentitySalt`; a Pi that starts again is
another process. `pc` is the next file operation, each of which may fail, and a
process may be killed at any of them. The user may edit other keys of the
document, and removes a lock by hand when no process is at work, as the error
message asks. Not modelled is an edit while a process replaces the document:
nothing in the code could keep it. What the code does not promise and the module
shows: a token that cannot be written leaves an empty lock behind (as a killed
process leaves its lock), and every later creation waits and fails until
somebody removes it.

### RawTraceWriter and DiagnosticsLog

`RawTraceWriter` has the queue, the microtask of the flush, and the synchronous
drain of a shutdown; any record of a flush may fail. `DiagnosticsLog` has the
files as inodes with the lines they hold, so that a process that has a file open
while another one renames it writes into the older generation. Each of
`openSync`, `fstatSync`, `renameSync` and the writes is a step of one of several
processes and may fail. `raced` is set when two processes meet at a rotation:
the second one then replaces a full older generation by a nearly empty one, and
`NewestKept` is claimed without it. The notification gate is in the same module:
`shownAt` is its map, `lastShown` what really was shown. The clock is assumed not
to go back.

### ExportPipeline and TrainingConversion

`ExportPipeline` follows one call of `exportRedactedData` from its command line,
token by token as `parseArgs` reads it, over refusals, derivatives, samples and
the scan to the report. The last of several formats counts, and only that one is
judged, at the end of `parseArgs`; of several consents the last one counts too,
so a denial holds unless a consent follows it. `world` is what the export meets: the destination, the
configured consent, a collision of names, a salt. Anything may throw
(`Interrupted`): then there is no report, and an export that was stopped between
`ConvertTrainingSamples` and the scan leaves review records that nobody scanned.
The properties speak of a finished export, and of refusals and consent always.

`TrainingConversion` is the pure part of `src/training-export.ts`. A behaviour
writes a raw trace line by line and a context item by item; what the code would
make of them is evaluated in each state, which is the way TLC enumerates the
bounded inputs of a function. `Examples`, `Rejections` and `Consumed` are what
`convertRawTrace` returns, `Turns` is `normalizeContext`, `Convertible` and the
three formats are the assertions and conversions after it. The loops of the code
over items and turns are functions of the place they have come to: `Contexts[n]`
is what the first `n` items make, `Pairings[n]` what the first `n` turns leave
unanswered, `Grouped[n]` the messages they are sent as. A run of blocks between
two tool results is one value, as the code joins their texts to one turn.

### PayloadShaping

The pure functions of `src/payload-policy.ts` and `src/capture-policy.ts`, checked
in the same way: a behaviour builds the body of a trace, an observation or a raw
record from fields and provider messages, under every capture policy and payload
limit. A text carries what it really is (`of`), which no operator of the code
reads; `NothingExcludedGetsOut` compares it with what the policy captures.
`ShapeRecord` carries the node budget from field to field as the code's shared
state does, and `Actual`, `Unbounded` and `Reference` are the three runs of
`provenanceRuns`. The functions recurse through nested values, so the module
declares RECURSIVE operators and no theorem is about it. Redaction (patterns over
characters), binary values and the summaries that `telemetry-helpers.ts` builds
are left out; so is a reference that occurs twice, which the code replaces by
"[Circular]". What the module makes visible and the code leaves so: the list
content of a message whose role the code does not know (as "developer") is
captured as metadata, its string content as provider input.

### Slips

Some definitions are preceded by one marked "slip": a wrong form of it that a
plausible bug in that line of code would give. No specification uses it. Each
says which property notices the bug:

| Definition | Slip | Noticed by |
|---|---|---|
| `ReleaseSlot` | frees the slot without starting the next batch | `SlotsSound` |
| `LeavesNow` | ignores the hold of a flush | `EverythingSettles` |
| `AllOversized` | delivers, and throws to the catch | `ExactlyOnce` |
| `Fail` | only the last request counts | `SuccessMeansStored` |
| `DrainPass` | waits once | `FlushCovers` |
| `ReleaseHold` | not idempotent | `TypeOK` |
| `Refuses` | accepts after the shutdown | `KeepsDeliveryPromise` |
| `Contend` | waits when nothing is pending | `TypeOK` |
| `OpensRoot` | does not look at the session after `getRuntime` | `OpenRootOwned`, `RootsTakeTurns` |
| `EndPrompt` | every caller finalizes, instead of joining the first | `ScoredOnce` |
| `EndStart` | the pending start is kept | `PendingStartRuns` |
| `RootEnded` | the root stays open | `FeedbackTargetEnded` |
| `Stops` | a finalizing prompt still starts | `NoRecordAfterEnd` |
| `Resume` | does not look at the session after the wait | `ReplacedForAReason` |
| `Release` | the gate stays closed | `TypeOK` |
| `Reject` | a refused call takes another turn | `EverythingReturns` |
| `Turn` | a call does not wait while no runtime is handed out | `OneLiveRuntime` |
| `Serves` | any runtime serves any configuration | `RightProject` |
| `FinalizeOpenTraces` | the roots stay open | `RootsNeverLost` |
| `SpansDrained` | the scores are not awaited | `FlushCovers` |
| `ReconfigureRuntime` | retires a runtime in use | `OnlyShutdownCuts` |
| `TurnStart` | a repeated turn_start starts the turn again | `TypeOK` |
| `LeaveTurn` | the finalization ends a turn whose turn_end has begun | `EndedOnce` |
| `TurnEndContinues` | the turn ends after one generation | `FormsTree` |
| `Blame` | the prompt does not learn of the abandonment | `AbandonmentReported` |
| `FinishDue` | waits for a start that nobody asked for | `NobodyLeftWaiting` |
| `Abandon` | an end under way is replaced by an abandonment | `AnswersKept` |
| `GetOrCreate` (`Sessions`) | a known session has no lease of its own | `TypeOK` |
| `ClosesClient` | any session's shutdown closes the client | `ClientFollowsLeases` |
| `Serves` (`Sessions`) | a runtime in use is replaced like an idle one | `RecordsHome` |
| `WithPrompt` | the walk stops at a prompt that is being finalized | `RefreshSettles` |
| `EndStart` (`Sessions`) | the pending start is kept when its prompt is gone | `HandlersReturn` |
| `UnderLock` | the document read before the lock is used | `SaltSafe` |
| `Ambiguous` | a retried request does not make its turn ambiguous | `TrainingRight` |
| `ApplyToken` | an option is taken as the value of the option before it | `ExportHonest` |
| `Classified` | a tool block belongs to the message that holds it | `ShapingRight` |
| `Owners` | one of several candidates is chosen | `WaitingAttributed` |
| `FlushQueue` | a failing record ends the flush | `RecordsKept` |
| `Fails` | a failure leaves the file open | `ComponentsTypeOK` |

## What the runs check

| Run | Instance | Shows |
|---|---|---|
| `otlp_exporter` | 4 calls (1 to 3 spans, one with a dispatch span), 2 slots, window of 2 spans, one flush, the shutdown; 3.4 million states | the safety of the exporter |
| `otlp_exporter_live` | 3 calls, 1 slot, one flush, the shutdown; 260 thousand states | every drain ends and every ended span settles (`EverythingSettles`), refinement of `SpanDelivery` |
| `otlp_abort_source` | as above | violation: see Findings |
| `prompt_lifecycle` | 2 equal announcements, another one, an unannounced run, a settle, a refresh and a shutdown; 1.9 million states | the safety of a session's prompts, refinement of `RootSlot` |
| `runtime_registry` | a prompt and its score under one key, a prompt under another key, a flush, a reconfiguration, a shutdown; 1 million states | the safety of the registry |
| `observations` | 2 turns, 2 requests, a tool, tracing switched off once; 6.8 million states | the safety of the observations under a root, that nobody waits in a circle, refinement of `ObservationTree` |
| `sessions` | 2 sessions of one instance, 3 prompts (2 of one session), a settings panel that chooses another project or switches tracing off, an edit of the file; 2.8 million states | the shared client, where things are recorded, what a refresh settles; every handler returns |
| `components` | one part at a time: the salt with 3 processes, the conversion of 4 lines and 4 items, the export with 3 pieces of command line, bodies of 2 fields or messages, 3 dialogs of 2 prompts, 4 raw records, 6 log entries of 2 processes, 4 causes; 1.1 million states | the safety of these parts; and `EverythingReturns`: the salt's calls, the handlers of a session (2 announcements, one not traced, an unannounced run, a refresh, a shutdown) and the calls of the registry (a prompt, a child of it, a score under another key, a flush, a reconfiguration) all return |
| `observation_order`, `prompt_starts`, `prompt_shutdown`, `session_scores` | a turn, a request, a tool; 4 and 3 handlers; as `sessions` | violations: see Findings |

Why the bounds are enough. In the exporter two slots are the smallest number
with a difference between "a slot is free" and "all are", and four calls fill
both slots, with one call waiting for a slot and one arriving in addition; a
window of two spans is reached, passed, and not reached. In the liveness run
one slot makes a queue behind a busy slot unavoidable. For prompts, two equal
announcements and a different one make every case of `beforeAgentStart` occur
behind a pending start, each with a third waiter, and three boundaries can
meet at one finalization. In the registry two keys make every case of
`getRuntime` occur: served, refused, replaced and created, with
each of the operations that empty a runtime. A child, which keeps its runtime in
use after its root has ended, is in `components` only: with it the safety run
would have tens of millions of states, and the theorems cover it.
For observations, two requests in
a turn are the smallest number of which one can be answered and one abandoned,
and two turns make one end while the other is open; tools do not interact with
each other. One change of the configuration (`MaxSwitches`) puts every await of
every handler between a decision to trace and the next one. Two sessions are the fewest of which one can
end while the other one lives, two prompts of one of them the fewest of which
one replaces the other during a walk of the refresh; one instance suffices for
what the sessions share with each other, since instances share only the leases
and the client, as sessions of one instance do too. Three salt processes are a
holder, one that waits, and one that comes after a death. Two lines make a pair
and four separate it, repeat it and break it on either side; two records of
messages suffice for a budget that ends within the second. Nothing in the
system of observations repeats, so a finalization returns if it
never gets stuck, which `NobodyLeftWaiting` and the absence of deadlock show
without an assumption of fairness. Symmetry (equal calls, equal announcements) is used
only where no temporal property of liveness is checked. The theorems do
not depend on any of these bounds.

Fairness. `Fairness` in `OtlpExporter`: timers fire, requests end or their
deadline does, callbacks and continuations run, the processor hands over the
spans it owes; nothing obliges a span to end or a flush to begin. In
`PromptLifecycle`: git's processes end, `getRuntime` and a flush are bounded by
the exporter's deadline, continuations run; events need not come. In `Sessions`: continuations run and transitions end; the host need not send
anything. In `IdentitySalt`: a process goes on, and its wait for the lock
expires. In
`RuntimeRegistry`: a transition whose await is over goes on, and an ended span
or a sent score settles by its deadline; nobody has to call an operation or to
end an observation. All of it is weak fairness per process, which an event loop
gives.

Deadlock is checked in the runs of the exporter, prompts, registry and
observations: a state without a step is one in which every
handler has returned (`Terminated`). `sessions` and `components` may really
stop, when all events have come; there `HandlersReturn` and `EverythingReturns`
say that nothing is stuck.

## What is proved

Every safety property that a run checks is a theorem, for all values of the
constants that satisfy the named assumptions, except `ShapingRight`.

| Module | Theorems | Assumption |
|---|---|---|
| `OtlpExporterProofs` | `TypeOK`, `SlotsSound`, `ExactlyOnce`, `SuccessMeansStored`, `FlushCovers`, refinement of `SpanDelivery` (safety) | `ExporterAssumption` |
| `PromptLifecycleProofs` | `TypeOK`, `OpenRootOwned`, `ScoredOnce`, `PendingStartRuns`, `FeedbackTargetEnded`, `NoRecordAfterEnd`, `ReplacedForAReason`, refinement of `RootSlot` | `PromptAssumption` |
| `RuntimeRegistryProofs` | `TypeOK`, `OneLiveRuntime`, `RightProject`, `RootsNeverLost`, `FlushCovers`, `OnlyShutdownCuts` | `RegistryAssumption` |
| `ObservationLifecycleProofs` | `TypeOK`, `EndedOnce`, `TurnsCloseOver`, `AbandonmentReported`, `NobodyLeftWaiting`, `AnswersKept`, refinement of `ObservationTree` | `ScopeAssumption` |
| `SessionsProofs` | `TypeOK`, `ClientFollowsLeases`, `RecordsHome`, `RefreshSettles`, and `LineAwaited` of the line of transitions | `SessionsAssumption` |
| `IdentitySaltProofs` | `SaltSafe` | `SaltAssumption` |
| `ComponentProofs` | `ComponentsTypeOK`, `RecordsKept`, `WaitingAttributed`, `ExportHonest`, `TrainingRight` | `AskAssumption`, `DiagnosticsAssumption`, `ExportAssumption`, `TrainingAssumption` |
| `SequenceLemmas` | none; lemmas for the others | none |

The assumptions only say what the constants are: finite sets, disjoint kinds of
names, limits that are numbers, and a value for "nothing" that is none of the
others. In `ExportAssumption` a sample belongs to one raw trace, which is how the
code names it. `TrainingAssumption` lists the types of lines that the conversion
tells apart, and says that the calls of an item and its blocks are sequences.

The exporter. `TypeCorrect` comes first and needs that the holds are balanced
(`HoldsBalanced`). `SlotsAndWakeUps` needs nothing else. The invariant `IInv`
adds `Ownership` (an accepted call is in the queue, in one run, or settled,
which is what "exactly once" rests on), `RunsSound` (what a run has not sent
and not failed is stored) and `DrainsSound` (once the processor has nothing
left, a drain that returns leaves nothing owed). `Implements` shows that each
step is a step of `SpanDelivery` or a stutter.

Prompts. `StepCases` says that a step is one of nine kinds, most of them
`Calm`. `IInv` is preserved by each kind. Its core is about the start that is
going to publish its prompt: it finds no prompt, or one that waits for git and
has no root (`PublishSound`), because a start that waits for a finalization
holds the pending start (`ReplaceSound`) and git's answer comes only when no
start is about to publish. So publishing never overwrites a prompt with an
open root (`OpenRootOwned`), although it may overwrite a prompt: two starts
can run at once (see Findings), and the theorems say what still holds then.
From `IInv` follow `RootsOwned`, `ScoresOnce`, `PendingStartsRun`,
`FeedbackTargets` and `NoLateRecord`, and `ImplementsSlot`, the refinement of
`RootSlot`. `ReplacedRightly` needs one more fact, that somebody waits for every
finalization (`FinalizationJoined`): a start that claims and finds its own prompt
finds it finalizing; no start is pending then, so whoever waits for it is a
boundary, and boundaries wait to the end.

The registry. Everything rests on the line of transitions (`LineOrdered`): of
two calls in line one waits for the other, and the one at work waits for none,
so at most one is at work. Hence the only runtimes that are not gone are the one
handed out and the one being drained, and they are different only if none is
handed out (`RuntimeSound`); `OneRuntime` follows, and with it that the global
provider is the provider of the runtime that an answer uses (`RecordsHome`).
For `FlushesCover` the invariant carries what a flush owes through its two
awaits: the unsettled spans before the first, the scores before the second
(`OwedAwaited`), where a replacement by `getRuntime` in between has to have
waited for the scores of the runtime it disposed (`ScoresAwaited`).
`ShutdownAloneCuts` is a property of steps.

Observations. `IInv` says of each kind of actor where it can be, and what the
others may rely on. `LineRight`: who waits for the runtime is in the line, once.
`SpansRight`, `RequestsRight` and `OrdersRight`: which combinations of span,
promise and flags a turn, a request and a tool pass through. `TurnsTracked`,
`TurnsKnown` and `ToolsTracked`: whoever still has to end something finds it in
a map; the exception is a turn that its `turn_end` has forgotten, and it leaves a
span open only if tracing was switched off (`LeaksRight`). `AwaitedRight`: whom a handler waits for has begun to end. For each kind
a lemma lists what a step can do to one member of it (`RequestMove`,
`TurnMove`, `ToolMove` and their like), and the parts follow from those lists instead of
from the actions. Two arguments are not local. A request whose message failed
and that a `turn_end` has marked must still be met by that `turn_end` before its
failure can be reported; `AskedInOrder` (requests in flight ask for the runtime
in the order of their turn) gives that, and `BlameRight` then gives that the
prompt has been blamed by the time somebody reads it. And the finalization
decides what the root says before it abandons anything: `SaysRight` is an
equivalence between what it says and what has been abandoned or is `Pending`,
that is, will be. `NobodyLeftWaiting` follows from `AwaitedRight` and
`LineRight`: a wait ends at an end under way or at the head of the line.
`ImplementsTree` uses that a step moves at most one span (`TreeMoves`), which
opens only when the observation is still tracked, so that its turn and the root
are not over (`RequestSpan`, `TurnSpan`, `ToolSpan`), and that `TurnsCloseOver`
and `AbandonmentReported` hold after the step.

Sessions. `LineAwaited` ties each transition in the line to the one handler that
waits for it, which is what makes an answer arrive where it belongs. A close of
the client is asked for only without leases, and then no start can come before
it in the line and open a root (`ClosesAlone`), for a start keeps its session's
lease until it has published (`Unpublished`); so nothing is cut. Without leases
the runtime is gone or a close stands in the line behind everything that could
still record (`RuntimeLeased`). An open root is held by its session
(`OpenHeld`), hence nobody replaces the runtime under it (`RecordsHome`).
`RefreshWalks` divides what a refresh found into what is over, what it awaits,
and what is still ahead in the list of sessions; when the list is empty, all is
over.

The parts of `Components`. Raw trace: the queue after the file is what has been
appended without what was reported, in order, and a flush is scheduled whenever
the queue holds something. Diagnostics: the lines of a file plus the processes
that write into it without having looked at its size are bounded; while no two
processes met at a rotation, at most one is in it, and the two files hold a
suffix of what was logged; the memory of the gate has every cause shown
within the window. Ask flows: a dialog that is open in a live prompt is in a tool
call of that prompt, so if there is one candidate, it is the owner; `WaitIs`
shows that what `unionDurationMs` adds up flow by flow is the number of instants
at which some dialog was open. Export: `LastConsent` says what the options hold
after each token, from which `DenialHonoured` follows for every command line;
`Planned`, `Judged`, `Tallied` and `Reported` say what is known after each
phase, and the counts of samples are sizes of disjoint sets
(`SumIsCardinality`). `TypesInv` adds what `ComponentsTypeOK` asks for and the
other parts do not say, as that there is at most one flush per record.

The training conversion changes no state but its inputs, so its theorem is about
functions. Which pairs are samples follows from the order of the lines in a
segment: the answer is the next record, it names the same turn, and nobody else
in the segment does (`SamplesProven`); hence no answer belongs to two requests,
and each record is in a sample or a rejection (`RecordsAccounted`). For the
conversations, `ContextsUnroll`, `PairingsUnroll` and `GroupedUnroll` give the
three loops step by step. A refused turn stays refused, so an accepted context
was accepted after each of its turns (`AcceptedThroughout`), and a call whose
id was seen before would have been refused (`IdsUnique`). `GroupKeeps` carries
one invariant of two loops (`SoFarRight`): every message but the last has what
belongs beside it, and what the last one still waits for are the pending calls.
When nothing is pending any more, the answers are the calls, each once, hence as
many (`SameCallsSameLength`).

Where a fact about a recursive function or a fold over a sequence is needed for
every input, the induction is over a set: the set of the lengths, or of the
sequences, that have the property holds all of them (`InductionUpTo`,
`InductionOnSequences`), shown by taking the least one that it does not hold.
`TypedUpTo` is the case that is needed most: what keeps its type at each step has
it at the end.

The salt. The lock passes from its owner to nobody and from nobody to the next
(`LockSound`), so one process at a time has the document; what it has read is
still there when it replaces it, and has no salt (`ReadSound`), because the user
does not edit meanwhile; so a salt that a call has returned is never replaced
(`ResultSound`). `OneSalt` is `SaltSafe`, which includes the types, for any number
of processes, edits and documents.

Only model-checked: `ShapingRight`, since `PayloadShaping` declares RECURSIVE
operators (it recurs through nested values), which the provers cannot expand,
and what such a recursion makes of every nested value could only be shown by
induction over the values; and liveness
(`EverythingSettles`, `HandlersReturn`, `EverythingReturns`, the fairness part of
`KeepsDeliveryPromise`), which TLAPS cannot prove with these backends.

## Findings

- `otlp_abort_source`, `OnlyDeadlineAborts`: `src/otlp-export.ts:245` says that
  only the deadline aborts an export. A response over the read limit
  aborts the shared controller too (line 554); the bodies after it are
  not sent and are reported as timed out.
- `prompt_starts`, `OneStart`: `src/agent-lifecycle.ts:566` says that an
  agent_start never opens a second prompt beside a pending start. It reads the
  pending start once (line 573); when its wait ends with no prompt, it does not
  see the start that another waiter has claimed.
- `prompt_shutdown`, `NothingOpenAfterShutdown`: `docs/troubleshooting.md:39`
  says that a shutdown closes unfinished prompts. A start that has not
  published its prompt when the session shuts down publishes it afterwards, in
  a session that nobody holds, and its root is never ended.
- `observation_order`, `ChildrenFirst`: `docs/architecture.md:37` says that
  unfinished children are closed before the parent, and
  `docs/troubleshooting.md:39` that unfinished turns are closed. A `turn_end`
  ends the turn's span only if the configuration traces when its awaits are over
  (line 183 of `src/turn-lifecycle.ts`), and forgets the turn in any case. If an
  event of another session has brought a configuration without tracing, nobody
  ends the span: the finalization finds no turn, ends the root, and the open
  span keeps the runtime in use, so that later configurations are refused until
  a shutdown (line 998 of `src/langfuse-client.ts`). Without any change of the
  configuration (`MaxSwitches = 0`) the property fails too, but the span is
  ended, late: a `turn_end` that abandons a generation waits for its start and
  has marked both as ended. A finalization that comes meanwhile skips both (line
  272 of `src/agent-lifecycle.ts`), asks for the runtime, and ends the root one
  continuation after the answer, while the turn's span ends when `turn_end` has
  come back through three calls.
- `session_scores`, `ScoresSent`: `docs/architecture.md:37` says that a
  configuration refresh updates a prompt's health metrics. When the new
  configuration names another project, the finalization asks for a runtime of
  the new one (`src/agent-lifecycle.ts:213`) while the prompt's root is open in
  the old one; it is refused, and the prompt ends without its scores.

## Plan

Done, in this order: the exporter and its abstraction, the prompts of a session
and theirs, the runtime, the observations under a root, the sessions over the
shared client, the parts with a state of their own (`components`), and the
theorems about all of them, the abstract tree of the observations and the
theorems about the parts included. Left: the counting of usage, and the contents
of traces that the handlers copy.

## Not modelled

- `src/redaction.ts`, `src/telemetry-helpers.ts`, `src/raw-request-summary.ts`,
  `src/operator-telemetry.ts` and `src/identity.ts`: functions over the characters
  of strings (patterns, summaries, hashes). What they get wrong is in the
  patterns, which a model would have to leave out.
- What `src/config.ts` and `src/settings.ts` resolve a configuration to: one pass over
  files and environment variables without interleaving. (The settings panel
  saves its file without a lock, and a file it cannot read counts as empty.)
- `src/local-init.ts` and `src/local-autostart.ts`: a directory written once, and
  a command run once behind a flag; `src/package-version.ts` reads a file.
- The packing of spans into bodies by bytes (`src/otlp-export.ts:527`): the plan is
  any plan in the model.
- Exceptions of the calls inside a finalization (`src/agent-lifecycle.ts:267`): the
  calls handle their own errors.
- `agent_end`, model selection, compaction, tree navigation, `/langfuse-score`
  and everything else that only changes the contents of a trace.
