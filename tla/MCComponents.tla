---------------------------- MODULE MCComponents ----------------------------
(***************************************************************************)
(* The components that share no state with the others, side by side: a     *)
(* behaviour is of one of them, its part, and the others stand still.  The *)
(* identity salt and the parts of Components are the module's own, the     *)
(* other ones are instances.                                               *)
(***************************************************************************)
EXTENDS IdentitySalt, Components, SequencesExt

VARIABLE part

Parts == {"salt", "prompt", "registry", "training", "export", "ask", "raw",
          "log", "gate", "shaping"}

CONSTANTS q1, q2, q3

MCDocuments == {Doc("absent", None, 0), Doc("malformed", None, 0),
                Doc("object", "bad", 0), Doc("object", "given", 0)}

-----------------------------------------------------------------------------
(* Starts, boundaries and waits of one session, in full in                 *)
(* MCPromptLifecycle: here they must return.                               *)
VARIABLES promptState, startPromise, startSignature, registered, lastFinalized,
          finalization, spanPromise, root, scores, promptPc, awaits, sameStart,
          ahead, sessionEnded, publishedLate, recordedLate

promptVars ==
  <<promptState, startPromise, startSignature, registered, lastFinalized,
    finalization, spanPromise, root, scores, promptPc, awaits, sameStart, ahead,
    sessionEnded, publishedLate, recordedLate>>

MCHandlers == {"a", "b", "run", "refresh", "shutdown"}

Prompt == INSTANCE PromptLifecycle WITH
  pc         <- promptPc,
  Handlers   <- MCHandlers,
  Event      <- [h \in MCHandlers |->
    CASE h \in {"a", "b"} -> "before_agent_start"
      [] h = "run"        -> "agent_start"
      [] h = "refresh"    -> "session_start"
      [] h = "shutdown"   -> "session_shutdown"],
  Signature  <- [h \in MCHandlers |-> h],
  Tracing    <- MCHandlers \ {"a"},
  OtherLease <- FALSE

-----------------------------------------------------------------------------
(* The operations of the runtime registry, in full in MCRuntimeRegistry:   *)
(* here they must return, with a child that keeps a runtime in use and a   *)
(* score under a configuration that it does not serve.                     *)
VARIABLES callPc, previous, runtime, provider, draining, awaited, runtimeLife,
          recordStatus, home, sink, owed

registryVars == <<callPc, previous, runtime, provider, draining, awaited,
                  runtimeLife, recordStatus, home, sink, owed>>

MCCalls == {"trace1", "child1", "score1", "flush", "reconfigure"}

Registry == INSTANCE RuntimeRegistry WITH
  pc        <- callPc,
  life      <- runtimeLife,
  status    <- recordStatus,
  Calls     <- MCCalls,
  Operation <- [c \in MCCalls |-> CASE c = "trace1" -> "trace"
                                    [] c = "child1" -> "child"
                                    [] c = "score1" -> "score"
                                    [] OTHER        -> c],
  Key       <- [c \in MCCalls |-> IF c = "score1" THEN "new" ELSE "old"],
  TraceOf   <- [c \in MCCalls |-> IF c \in {"child1", "score1"} THEN "trace1" ELSE c]

-----------------------------------------------------------------------------
(* Every raw trace of up to four lines and every context of up to four     *)
(* items, of these lines and items.                                        *)
Line(type, turn, trace, complete) ==
  [type |-> type, turn |-> turn, trace |-> trace, complete |-> complete]

Item(kind, calls, blocks) == [kind |-> kind, calls |-> calls, blocks |-> blocks]

MCTraceLines ==
  {Line("request", 1, "a", TRUE), Line("request", 2, "a", TRUE),
   Line("request", 0, "a", TRUE), Line("response", 1, "a", TRUE),
   Line("response", 1, "b", TRUE), Line("response", 2, "a", FALSE),
   Line("boundary", 0, "a", TRUE), Line("malformed", 0, "a", TRUE),
   Line("other", 1, "a", TRUE)}

MCContextItems ==
  {Item("user", <<>>, <<0>>), Item("user", <<>>, <<1, 0>>),
   Item("assistant", <<>>, <<>>), Item("assistant", <<1>>, <<>>),
   Item("assistant", <<1, 2>>, <<>>), Item("function_call", <<2>>, <<>>),
   Item("tool", <<>>, <<1>>), Item("tool", <<>>, <<2>>),
   Item("system", <<>>, <<>>)}

-----------------------------------------------------------------------------
(* Every command line of up to three of these pieces; a session file and   *)
(* two raw traces, the second one with a secret that redaction misses.     *)
MCArguments ==
  {<<"--format", "chat">>, <<"--license">>, <<"--consent", "denied">>,
   <<"--consent", "granted">>, <<"--consent", "unknown">>, <<"--sessions-only">>, <<"--raw-only">>,
   <<"--no-trufflehog">>, <<"--trufflehog">>, <<"--require-trufflehog">>}
MCSamples == [s \in {"raw1", "raw2"} |-> IF s = "raw1" THEN {"x", "y"} ELSE {"z"}]

-----------------------------------------------------------------------------
(* Two sessions; the first one's prompt opens two dialogs, the second      *)
(* one's a dialog whose flow has the id of the first.                      *)
MCOwnerOf == [d \in {1, 2, 3} |-> IF d = 3 THEN "q" ELSE "p"]
MCFlowOf  == [d \in {1, 2, 3} |-> IF d = 3 THEN 1 ELSE d]

-----------------------------------------------------------------------------
(* The raw trace has four records; two processes write six diagnostics     *)
(* into files of two lines; four causes meet a gate that prunes at two.    *)

-----------------------------------------------------------------------------
(* Messages of every provider that the code knows, with texts of two       *)
(* characters; seven captures and as many limits.                          *)
VARIABLES name, capture, limits, fields, messages

shapingVars == <<name, capture, limits, fields, messages>>

MCLimit(field, n) ==
  [limit \in {"string", "tool", "items", "keys", "depth", "nodes"} |->
     IF limit = field THEN n ELSE 99]

MCText(of)             == [kind |-> "text", is |-> "", size |-> 2, of |-> of]
MCList(elements)       == [kind |-> "list", items |-> elements]
MCObject(role, fs)     == [kind |-> "object", role |-> role, members |-> fs]
MCField(key, value)    == [key |-> key, value |-> value]
MCType(is)             == MCField("type", [MCText("none") EXCEPT !.is = is, !.size = 1])
MCMessage(role, value) == MCObject(role, <<MCField("content", value)>>)
MCBlock(fs)            == MCObject("", fs)

MCMessages ==
  {MCMessage("user", MCText("prompt")),
   MCMessage("user", MCList(<<
     MCBlock(<<MCType("text"), MCField("text", MCText("prompt"))>>),
     MCBlock(<<MCType("tool_result"), MCField("toolCallId", MCText("none")),
               MCField("content", MCText("toolOutput"))>>)>>)),
   MCMessage("assistant", MCList(<<
     MCBlock(<<MCField("text", MCText("assistantOutput"))>>),
     MCBlock(<<MCType("tool_use"), MCField("input", MCText("toolInput"))>>),
     MCBlock(<<MCType("redacted_thinking"), MCField("data", MCText("opaque"))>>),
     MCBlock(<<MCField("functionCall", MCBlock(<<MCField("args", MCText("toolInput"))>>))>>),
     MCBlock(<<MCField("functionResponse",
                       MCBlock(<<MCField("response", MCText("toolOutput"))>>))>>),
     MCBlock(<<MCField("thought", [MCText("opaque") EXCEPT !.is = "true"]),
               MCField("text", MCText("opaque"))>>)>>)),
   MCObject("assistant", <<MCField("content", MCText("assistantOutput")),
                           MCField("tool_calls", MCList(<<MCText("toolInput")>>)),
                           MCField("textSignature", MCText("opaque"))>>),
   MCObject("toolResult", <<MCField("content", MCText("toolOutput")),
                            MCField("details", MCBlock(<<MCField("d", MCText("toolOutput"))>>))>>),
   MCMessage("system", MCText("systemPrompt")),
   MCObject("system", <<MCField("sections", MCList(<<MCText("systemPrompt")>>))>>),
   MCObject("bashExecution", <<MCField("command", MCText("toolInput")),
                               MCField("output", MCText("toolOutput"))>>),
   MCBlock(<<MCType("reasoning"), MCField("summary", MCText("assistantOutput")),
             MCField("encrypted_content", MCText("opaque"))>>),
   MCBlock(<<MCType("function_call"), MCField("arguments", MCText("toolInput"))>>),
   MCBlock(<<MCType("function_call_output"), MCField("output", MCText("toolOutput"))>>),
   MCMessage("developer", MCText("providerInput")),
   MCMessage("developer", MCList(<<
     MCBlock(<<MCType("text"), MCField("text", MCText("metadata"))>>)>>))}

MCEntries ==
  [n \in {"provider_request", "assistant_output", "llm-response", "tool", "trace"} |->
   CASE n = "provider_request" ->
          {MCField("systemPrompt", MCText("systemPrompt")),
           MCField("payloadSummary", MCText("providerInput")),
           MCField("usage", MCText("none"))}
     [] n = "assistant_output" ->
          {MCField("text", MCText("assistantOutput")),
           MCField("thinking", MCText("assistantOutput")),
           MCField("toolCalls", MCList(<<MCBlock(<<MCField("name", MCText("toolInput")),
                                                   MCField("arguments", MCText("toolInput"))>>)>>)),
           MCField("usage", MCText("none"))}
     [] n = "llm-response" ->
          {MCField("output", MCBlock(<<MCField("text", MCText("assistantOutput")),
                                       MCField("tool_calls", MCText("toolInput")),
                                       MCField("other", MCText("assistantOutput"))>>)),
           MCField("metadata", MCBlock(<<MCField("systemPrompt", MCText("systemPrompt")),
                                         MCField("turn", MCText("metadata"))>>))}
     [] n = "tool" ->
          {MCField("input", MCText("toolInput")), MCField("output", MCText("toolOutput")),
           MCField("metadata", MCBlock(<<MCField("argsSummary", MCText("toolInput"))>>))}
     [] n = "trace" ->
          {MCField("input", MCText("prompt")), MCField("output", MCText("assistantOutput")),
           MCField("tags", MCText("metadata"))}]

MCCapture(policy, override) == [policy |-> policy, override |-> override]

MCCaptures ==
  {MCCapture(p, <<>>) : p \in {"metadata-only", "prompts-only", "conversations", "full-debug"}}
  \cup {MCCapture("full-debug", [f \in {"prompt"} |-> FALSE]),
        MCCapture("full-debug", [f \in {"toolOutput", "metadata"} |-> FALSE]),
        MCCapture("metadata-only", [f \in {"toolInput"} |-> TRUE])}

MCLimits ==
  {MCLimit("none", 99), MCLimit("nodes", 4), MCLimit("string", 1), MCLimit("depth", 1),
   MCLimit("keys", 1), MCLimit("items", 1), [MCLimit("tool", 1) EXCEPT !["items"] = 2]}

Shaping == INSTANCE PayloadShaping WITH
  entries   <- fields,
  Names     <- DOMAIN MCEntries,
  Captures  <- MCCaptures,
  Limits    <- MCLimits,
  Entries   <- MCEntries,
  Messages  <- MCMessages,
  MaxParts  <- 2,
  Unlimited <- 99

-----------------------------------------------------------------------------
(* Only the salt and the shaping begin in more than one way: the salt      *)
(* stands still after calls that failed, the shaping with nothing.         *)
SaltRests ==
  /\ doc = Doc("absent", None, 0) /\ lock = None
  /\ temp = [p \in Processes |-> None] /\ seen = [p \in Processes |-> None]
  /\ pc = [p \in Processes |-> "done"] /\ result = [p \in Processes |-> "failed"]

ShapingRests ==
  /\ name = "trace" /\ capture = MCCapture("metadata-only", <<>>)
  /\ limits = MCLimit("none", 99) /\ fields = <<>> /\ messages = <<>>

ComponentsInit ==
  /\ part \in Parts
  /\ IF part = "salt" THEN Init ELSE SaltRests
  /\ IF part = "shaping" THEN Shaping!Init ELSE ShapingRests
  /\ Prompt!Init /\ Registry!Init /\ Training!Init /\ Export!Init /\ Ask!Init
  /\ RawTrace!Init /\ Diagnostics!Init

SaltSteps ==
  /\ part = "salt" /\ Next
  /\ UNCHANGED <<part, promptVars, registryVars, trainingVars, exportVars, askVars,
                 rawVars, diagVars, shapingVars>>

PromptSteps ==
  /\ part = "prompt" /\ Prompt!Next
  /\ UNCHANGED <<part, saltVars, registryVars, trainingVars, exportVars, askVars,
                 rawVars, diagVars, shapingVars>>

RegistrySteps ==
  /\ part = "registry" /\ Registry!Next
  /\ UNCHANGED <<part, saltVars, promptVars, trainingVars, exportVars, askVars,
                 rawVars, diagVars, shapingVars>>

TrainingSteps ==
  /\ part = "training" /\ Training!Next
  /\ UNCHANGED <<part, saltVars, promptVars, registryVars, exportVars, askVars,
                 rawVars, diagVars, shapingVars>>

ExportSteps ==
  /\ part = "export" /\ Export!Next
  /\ UNCHANGED <<part, saltVars, promptVars, registryVars, trainingVars, askVars,
                 rawVars, diagVars, shapingVars>>

AskSteps ==
  /\ part = "ask" /\ Ask!Next
  /\ UNCHANGED <<part, saltVars, promptVars, registryVars, trainingVars, exportVars,
                 rawVars, diagVars, shapingVars>>

RawSteps ==
  /\ part = "raw" /\ RawTrace!Next
  /\ UNCHANGED <<part, saltVars, promptVars, registryVars, trainingVars, exportVars,
                 askVars, diagVars, shapingVars>>

DiagnosticsSteps ==
  /\ \/ part = "log"  /\ Diagnostics!LogStep
     \/ part = "gate" /\ Diagnostics!GateStep
  /\ UNCHANGED <<part, saltVars, promptVars, registryVars, trainingVars, exportVars,
                 askVars, rawVars, shapingVars>>

ShapingSteps ==
  /\ part = "shaping" /\ Shaping!Next
  /\ UNCHANGED <<part, saltVars, promptVars, registryVars, trainingVars, exportVars,
                 askVars, rawVars, diagVars>>

ComponentsNext ==
  \/ SaltSteps
  \/ PromptSteps
  \/ RegistrySteps
  \/ TrainingSteps
  \/ ExportSteps
  \/ AskSteps
  \/ RawSteps
  \/ DiagnosticsSteps
  \/ ShapingSteps

componentVars == <<part, saltVars, promptVars, registryVars, trainingVars, exportVars,
                   askVars, rawVars, diagVars, shapingVars>>

(* A component that stands still has nothing fair to do.                   *)
ComponentsSpec ==
  /\ ComponentsInit /\ [][ComponentsNext]_componentVars
  /\ Fairness /\ Prompt!Fairness /\ Registry!Fairness

-----------------------------------------------------------------------------
(* Properties; SaltSafe, ComponentsTypeOK, WaitingAttributed, RecordsKept, *)
(* ExportHonest and TrainingRight are those of the modules that this one   *)
(* extends.                                                                *)

(* What leaves a record is captured, within its limits and declared as     *)
(* what it is (src/payload-policy.ts).                                     *)
ShapingRight == part = "shaping" => Shaping!TypeOK /\ Shaping!ShapingRight

(* Whoever waits for another one's promise or lock ends: the handlers of a *)
(* session, the operations of the runtime registry and the creation of the *)
(* identity salt.                                                          *)
EverythingReturns == []<>(Prompt!Returned /\ Registry!Returned /\ Returned)
=============================================================================
