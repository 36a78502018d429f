----------------------------- MODULE Components -----------------------------
(***************************************************************************)
(* The parts of the extension that share no state with the others: whose   *)
(* waiting time a dialog is, the raw trace, the diagnostics, an export, and *)
(* its conversion of raw traces.  They run side by side, in any            *)
(* interleaving.                                                           *)
(***************************************************************************)
EXTENDS Integers, Sequences, FiniteSets

CONSTANT Missing  \* no file, no value

-----------------------------------------------------------------------------
(* The dialogs of the live prompts (src/tool-lifecycle.ts, src/ask-wait.ts) *)
CONSTANTS AskPrompts, Dialogs, OwnerOf, FlowOf, MaxTime
VARIABLES life, tools, askFlows, ambiguous, opened, closed, now

askVars == <<life, tools, askFlows, ambiguous, opened, closed, now>>

Ask == INSTANCE AskFlows WITH Prompts <- AskPrompts

(* A flow's id is a number here, for the order in which the code meets the *)
(* flows of a prompt.                                                      *)
ASSUME AskAssumption ==
  /\ IsFiniteSet(AskPrompts) /\ IsFiniteSet(Dialogs)
  /\ OwnerOf \in [Dialogs -> AskPrompts] /\ FlowOf \in [Dialogs -> Int]
  /\ MaxTime \in Nat

-----------------------------------------------------------------------------
(* The raw trace of a session (src/raw-trace.ts)                           *)
CONSTANT Records
VARIABLES appended, writeQueue, flushScheduled, microtasks, written, reported

rawVars == <<appended, writeQueue, flushScheduled, microtasks, written, reported>>

RawTrace == INSTANCE RawTraceWriter

-----------------------------------------------------------------------------
(* The diagnostics log and its notifications (src/diagnostics-log.ts)      *)
CONSTANTS Writers, MaxLines, MaxEntries, Causes, Window, PruneAt, MaxClock
VARIABLES path, older, files, fd, step, entries, logged, raced,
          clock, shownAt, lastShown

diagVars == <<path, older, files, fd, step, entries, logged, raced,
              clock, shownAt, lastShown>>

Diagnostics == INSTANCE DiagnosticsLog WITH None <- Missing

ASSUME DiagnosticsAssumption ==
  /\ IsFiniteSet(Writers)
  /\ MaxLines \in Nat \ {0} /\ MaxEntries \in Nat
  /\ Window \in Nat \ {0} /\ PruneAt \in Nat /\ MaxClock \in Nat
  /\ Missing \notin Nat

-----------------------------------------------------------------------------
(* An export of session files and raw traces (src/export.ts)               *)
CONSTANTS Arguments, MaxArguments, Sources, Raw, Leaky, Samples, DirtySamples
VARIABLES phase, args, opts, world, disk, status, scan, tally

exportVars == <<phase, args, opts, world, disk, status, scan, tally>>

Export == INSTANCE ExportPipeline WITH None <- Missing

Tokens == UNION {{a[i] : i \in DOMAIN a} : a \in Arguments}

(* Samples are named by their place in their raw trace.                    *)
ASSUME ExportAssumption ==
  /\ IsFiniteSet(Sources) /\ Raw \subseteq Sources
  /\ Arguments \subseteq Seq(Tokens) /\ Missing \notin Tokens \cup Export!Recognized
  /\ \A s \in Raw : IsFiniteSet(Samples[s])
  /\ \A s, t \in Raw : s # t => Samples[s] \cap Samples[t] = {}

-----------------------------------------------------------------------------
(* The conversion of a raw trace into samples (src/training-export.ts)     *)
CONSTANTS TraceLines, ContextItems, MaxTraceLines, MaxContextItems, NoTurn, TextRun
VARIABLES lines, items

trainingVars == <<lines, items>>

Training == INSTANCE TrainingConversion WITH
  Lines <- TraceLines, Items <- ContextItems, Text <- TextRun,
  MaxLines <- MaxTraceLines, MaxItems <- MaxContextItems

CallIds ==
  UNION {Training!Range(i.calls) \cup Training!Range(i.blocks) : i \in ContextItems}

ASSUME TrainingAssumption ==
  /\ \A l \in TraceLines :
       l.type \in {"request", "response", "boundary", "malformed", "other"}
  /\ \A i \in ContextItems : i.calls \in Seq(CallIds) /\ i.blocks \in Seq(CallIds)

-----------------------------------------------------------------------------
PartsInit == Ask!Init /\ RawTrace!Init /\ Diagnostics!Init /\ Export!Init /\ Training!Init

PartsNext ==
  \/ Ask!Next         /\ UNCHANGED <<rawVars, diagVars, exportVars, trainingVars>>
  \/ RawTrace!Next    /\ UNCHANGED <<askVars, diagVars, exportVars, trainingVars>>
  \/ Diagnostics!Next /\ UNCHANGED <<askVars, rawVars, exportVars, trainingVars>>
  \/ Export!Next      /\ UNCHANGED <<askVars, rawVars, diagVars, trainingVars>>
  \/ Training!Next    /\ UNCHANGED <<askVars, rawVars, diagVars, exportVars>>

partsVars == <<askVars, rawVars, diagVars, exportVars, trainingVars>>

PartsSpec == PartsInit /\ [][PartsNext]_partsVars

-----------------------------------------------------------------------------
(* Properties                                                              *)

(* Every part's variables have their types.                                *)
ComponentsTypeOK ==
  /\ Ask!TypeOK /\ RawTrace!TypeOK /\ Diagnostics!TypeOK
  /\ Export!TypeOK /\ Training!TypeOK

(* The time a prompt waits for answers is that of its own dialogs, and is  *)
(* counted once (src/tool-lifecycle.ts, src/ask-wait.ts).                  *)
WaitingAttributed == Ask!WaitingAttributed

(* Raw records are written in order and none is lost but by a failure that *)
(* is reported; the diagnostics keep the newest (src/raw-trace.ts,         *)
(* src/diagnostics-log.ts).                                                *)
RecordsKept == RawTrace!RecordsInOrder /\ Diagnostics!DiagnosticsKept

(* An export publishes only what was scanned and consented to, whatever    *)
(* the command line and whatever fails (src/export.ts).                    *)
ExportHonest == Export!ExportHonest

(* Whatever a raw trace holds, and in whatever order, the samples made of  *)
(* it are proven and whole (src/training-export.ts).                       *)
TrainingRight == Training!TrainingRight
=============================================================================
