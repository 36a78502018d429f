--------------------------- MODULE PayloadShaping ---------------------------
(***************************************************************************)
(* What src/payload-policy.ts lets out of a record: the capture policy     *)
(* drops fields, the payload limits cut them, and the record of a provider *)
(* request or an assistant output says of each field whether it is         *)
(* complete.  A value is a text, a list or an object; a text also carries  *)
(* what it really is ("of"), which the code never sees.                    *)
(***************************************************************************)
EXTENDS Naturals, Sequences, SequencesExt, Folds

CONSTANTS Names,       \* the bodies and raw record types that are shaped
          Captures,    \* the capture configurations
          Limits,      \* the payload limits
          Entries,     \* Entries[n]: the fields that a body n may have
          Messages,    \* the provider messages
          MaxParts,    \* bound on the fields and messages of a body
          Unlimited    \* above every count

VARIABLES name, capture, limits, entries, messages

shapeVars == <<name, capture, limits, entries, messages>>

-----------------------------------------------------------------------------
(* Values                                                                  *)

Undefined == [kind |-> "undefined"]

Text(is, size, of)    == [kind |-> "text", is |-> is, size |-> size, of |-> of]
List(items)           == [kind |-> "list", items |-> items]
Object(role, members) == [kind |-> "object", role |-> role, members |-> members]
Entry(key, value)     == [key |-> key, value |-> value]

Has(o, key) == \E i \in DOMAIN o.members : o.members[i].key = key

TypeOf(o) ==
  IF Has(o, "type")
  THEN o.members[CHOOSE i \in DOMAIN o.members : o.members[i].key = "type"].value.is
  ELSE ""

Prefix(s, n) == IF Len(s) <= n THEN s ELSE SubSeq(s, 1, n)

(* The texts in a value, in order.                                         *)
RECURSIVE Texts(_)
Texts(v) ==
  CASE v.kind = "text"   -> <<v>>
    [] v.kind = "list"   -> FlattenSeq([i \in DOMAIN v.items |-> Texts(v.items[i])])
    [] v.kind = "object" -> FlattenSeq([i \in DOMAIN v.members |-> Texts(v.members[i].value)])
    [] OTHER             -> <<>>

-----------------------------------------------------------------------------
(* Shaping keeps one count of nodes for the whole record: each operator    *)
(* takes the count and returns a value with the new one.                   *)

Shaped(value, nodes) == [value |-> value, nodes |-> nodes]
Dropped(nodes)       == Shaped(Undefined, nodes)

Collected(acc, r) ==
  Shaped(IF r.value = Undefined THEN acc.value ELSE Append(acc.value, r.value), r.nodes)

(* What Shape makes of some things one after the other, without those it   *)
(* drops, until there are atMost.                                          *)
Collect(Shape(_, _), things, atMost, nodes) ==
  FoldLeft(LAMBDA acc, x : IF Len(acc.value) >= atMost THEN acc
                           ELSE Collected(acc, Shape(x, acc.nodes)),
           Shaped(<<>>, nodes), things)

AsList(c)         == Shaped(List(c.value), c.nodes)
AsObject(role, c) == Shaped(Object(role, c.value), c.nodes)

(* A member whose value is shaped; dropped with its value.                 *)
Member(key, r) == IF r.value = Undefined THEN r ELSE Shaped(Entry(key, r.value), r.nodes)

-----------------------------------------------------------------------------
(* The capture policy: capture is the policy and its overrides; a run is   *)
(* forced or not, under some limits.                                       *)

Fields == {"prompt", "systemPrompt", "providerInput", "assistantOutput",
           "toolInput", "toolOutput", "metadata"}

PolicyFields(policy) ==
  CASE policy = "metadata-only" -> {"metadata"}
    [] policy = "prompts-only"  -> {"prompt", "systemPrompt", "metadata"}
    [] policy = "conversations" -> Fields \ {"toolInput", "toolOutput"}
    [] policy = "full-debug"    -> Fields

IsCaptureEnabled(field) ==
  IF field \in DOMAIN capture.override THEN capture.override[field]
  ELSE field \in PolicyFields(capture.policy)

Captured(run, field) == run.force \/ IsCaptureEnabled(field)

MaxCharsFor(run, field) ==
  IF field \in {"toolInput", "toolOutput"} THEN run.limits.tool ELSE run.limits.string

OpaqueReplaySignatureKeys == {"thoughtSignature", "textSignature", "thinkingSignature"}

(* The traversal of sanitizeForTelemetry and of boundValue, which alone    *)
(* drops the opaque signatures.                                            *)
RECURSIVE Bound(_, _, _, _, _, _)
Bound(run, field, signatures, v, depth, nodes) ==
  LET Inner(x, n) == Bound(run, field, signatures, x, depth + 1, n) IN
  CASE nodes >= run.limits.nodes \/ v = Undefined -> Dropped(nodes)
    [] v.kind = "text" ->
         LET most == MaxCharsFor(run, field) IN
         Shaped([v EXCEPT !.size = IF @ > most THEN most ELSE @], nodes + 1)
    [] v.kind # "text" /\ depth >= run.limits.depth ->
         Shaped(Text("[TRUNCATED:depth]", 0, "none"), nodes + 1)
    [] v.kind = "list" /\ depth < run.limits.depth ->
         AsList(Collect(Inner, Prefix(v.items, run.limits.items), Unlimited, nodes + 1))
    [] v.kind = "object" /\ depth < run.limits.depth ->
         AsObject(v.role,
           Collect(LAMBDA e, n : IF e.key \in OpaqueReplaySignatureKeys /\ ~signatures
                                 THEN Dropped(n) ELSE Member(e.key, Inner(e.value, n)),
                   Prefix(v.members, run.limits.keys), Unlimited, nodes + 1))

(* shapeValueWithState: the sanitizer counts from zero, the bound goes on. *)
ShapeValue(run, field, v, nodes) ==
  IF ~Captured(run, field) THEN Dropped(nodes)
  ELSE Bound(run, field, FALSE, Bound(run, field, TRUE, v, 0, 0).value, 0, nodes)

ShapeValueForKey(run, key, field, v, nodes) ==
  IF key \in OpaqueReplaySignatureKeys THEN Dropped(nodes)
  ELSE ShapeValue(run, field, v, nodes)

-----------------------------------------------------------------------------
(* Provider messages                                                       *)

StructuralKeys == {"type", "name", "id", "usage", "messageCount", "toolCallId", "model"}
MessageStructuralKeys == StructuralKeys \cup {"toolName", "errorMessage", "exitCode"}

ContentField(role) ==
  CASE role = "system"                -> "systemPrompt"
    [] role = "user"                  -> "prompt"
    [] role \in {"assistant", "model"} -> "assistantOutput"
    [] role \in {"tool", "tool_result", "toolResult"} -> "toolOutput"
    [] OTHER                          -> "providerInput"

WrapperDataField(role, key) ==
  CASE role \in {"tool", "tool_result", "toolResult"} -> "toolOutput"
    [] role = "bashExecution" -> IF key = "command" THEN "toolInput" ELSE "toolOutput"
    [] role \in {"system", "user", "assistant", "model", "custom",
                 "branchSummary", "compactionSummary"} -> ContentField(role)
    [] OTHER -> "metadata"

MessageField(role, key) ==
  CASE key \in {"content", "parts"}         -> ContentField(role)
    [] key = "sections"                     -> IF role = "system" THEN "systemPrompt"
                                                                  ELSE "metadata"
    [] key \in {"tool_calls", "arguments"}  -> "toolInput"
    [] key \in MessageStructuralKeys        -> "metadata"
    [] OTHER                                -> WrapperDataField(role, key)

(* The items of the Responses interface have a type and no role.           *)
ResponsesItemField(itemType, key) ==
  CASE itemType = "reasoning" /\ key = "summary" -> "assistantOutput"
    [] itemType = "reasoning" /\ key \in {"content", "encrypted_content"} -> "exclude"
    [] itemType \in {"function_call", "custom_tool_call"}
         /\ key \in {"arguments", "input"} -> "toolInput"
    [] itemType \in {"function_call_output", "custom_tool_call_output"}
         /\ key = "output" -> "toolOutput"
    [] OTHER -> "by role"

EntryField(m, key) ==
  LET item == IF m.role = "" THEN ResponsesItemField(TypeOf(m), key) ELSE "by role" IN
  IF item = "by role" THEN MessageField(m.role, key) ELSE item

ToolUse(b)    == TypeOf(b) \in {"tool_use", "toolCall"}
ToolResult(b) == TypeOf(b) = "tool_result"
Encrypted(b)  == TypeOf(b) = "redacted_thinking"
GooglePart(b) == \E e \in ToSet(b.members) :
                   e.key \in {"functionCall", "functionResponse"} /\ e.value.kind = "object"

(* slip: a tool block in a message's content belongs to the message *)
ClassifiedNone(b) == FALSE

Classified(b) == ToolUse(b) \/ ToolResult(b) \/ Encrypted(b) \/ GooglePart(b)

BlockField(b, key) ==
  CASE ToolUse(b) /\ key \in {"arguments", "input"} -> "toolInput"
    [] ToolResult(b) /\ key = "content"             -> "toolOutput"
    [] OTHER                                        -> "metadata"

(* functionCall.args is tool input, functionResponse.response tool output. *)
PartField(part, key) ==
  CASE part = "functionCall" /\ key = "args"         -> "toolInput"
    [] part = "functionResponse" /\ key = "response" -> "toolOutput"
    [] OTHER                                         -> "metadata"

ShapePart(run, part, data, nodes) ==
  IF nodes >= run.limits.nodes THEN Dropped(nodes)
  ELSE AsObject("",
         Collect(LAMBDA e, n : Member(e.key,
                   ShapeValueForKey(run, e.key, PartField(part, e.key), e.value, n)),
                 data.members, run.limits.keys, nodes + 1))

ShapeBlock(run, field, b, nodes) ==
  CASE nodes >= run.limits.nodes -> Dropped(nodes)
    [] nodes < run.limits.nodes /\ ~Classified(b) ->
         IF Has(b, "thought") THEN Dropped(nodes + 1)
         ELSE ShapeValue(run, field, b, nodes + 1)
    [] OTHER -> AsObject("",
         Collect(LAMBDA e, n :
                   IF Encrypted(b) /\ e.key = "data" THEN Dropped(n)
                   ELSE IF GooglePart(b) /\ e.key \in {"functionCall", "functionResponse"}
                   THEN Member(e.key, ShapePart(run, e.key, e.value, n))
                   ELSE Member(e.key,
                     ShapeValueForKey(run, e.key, BlockField(b, e.key), e.value, n)),
                 b.members, run.limits.keys, nodes + 1))

ShapeBlocks(run, field, blocks, nodes) ==
  AsList(Collect(LAMBDA b, n : IF b.kind = "object" THEN ShapeBlock(run, field, b, n)
                                                    ELSE ShapeValue(run, field, b, n),
                 Prefix(blocks, run.limits.items), Unlimited, nodes))

RoleContent == {"prompt", "systemPrompt", "assistantOutput", "toolOutput"}

(* What decides whether anything of the provider's input is captured.      *)
ProviderInputOpen(run) ==
  \E f \in RoleContent \cup {"providerInput"} : Captured(run, f)

(* shapeProviderInputValue, shapeProviderMessage and shapeMessageEntry     *)
RECURSIVE ShapeProviderInput(_, _, _)
ShapeProviderInput(run, v, nodes) ==
  LET MessageEntry(m, e, n) ==
        LET field == EntryField(m, e.key) IN
        CASE field = "exclude"       -> Dropped(n)
          [] field = "providerInput" -> ShapeProviderInput(run, e.value, n)
          [] field \in RoleContent /\ e.value.kind = "list" ->
               IF Captured(run, field) THEN ShapeBlocks(run, field, e.value.items, n)
                                       ELSE Dropped(n)
          [] OTHER -> ShapeValueForKey(run, e.key, field, e.value, n)
      Message(m, n) ==
        IF n >= run.limits.nodes THEN Dropped(n)
        ELSE AsObject(m.role,
               Collect(LAMBDA e, k : Member(e.key, MessageEntry(m, e, k)),
                       m.members, run.limits.keys, n + 1))
      OneItem(x, n) == IF x.kind = "object" THEN Message(x, n)
                                            ELSE ShapeValue(run, "providerInput", x, n)
  IN CASE ~ProviderInputOpen(run) -> Dropped(nodes)
       [] ProviderInputOpen(run) /\ v.kind = "list" ->
            AsList(Collect(OneItem, Prefix(v.items, run.limits.items), Unlimited, nodes))
       [] ProviderInputOpen(run) /\ v.kind = "object" /\ Has(v, "messages") ->
            AsObject("", Collect(LAMBDA e, n : Member(e.key,
                IF e.key = "messages" THEN ShapeProviderInput(run, e.value, n)
                ELSE ShapeValueForKey(run, e.key, "providerInput", e.value, n)),
              v.members, run.limits.keys, nodes))
       [] OTHER -> ShapeValue(run, "providerInput", v, nodes)

-----------------------------------------------------------------------------
(* Bodies and raw records                                                  *)

PresentOrForced(run, c) ==
  IF c.value = <<>> /\ ~run.force THEN Dropped(c.nodes) ELSE AsObject("", c)

MetadataField(key) ==
  CASE key = "systemPrompt"                           -> "systemPrompt"
    [] key \in {"providerPayload", "payloadSummary"}  -> "providerInput"
    [] key \in {"argsSummary", "inputSummary"}        -> "toolInput"
    [] key = "thinking"                               -> "assistantOutput"
    [] key \in {"contentSummary", "resultSummary"}    -> "toolOutput"
    [] OTHER                                          -> "metadata"

ShapeMetadata(run, v, nodes) ==
  IF v.kind # "object" THEN ShapeValue(run, "metadata", v, nodes)
  ELSE PresentOrForced(run,
         Collect(LAMBDA e, n : Member(e.key,
                   ShapeValueForKey(run, e.key, MetadataField(e.key), e.value, n)),
                 v.members, run.limits.keys, nodes))

AssistantOutputField(key) ==
  CASE key \in {"text", "thinking"} -> "assistantOutput"
    [] key = "tool_calls"           -> "toolInput"
    [] OTHER                        -> "not shaped"

IsAssistantOutput(v) ==
  v.kind = "object" /\ \E k \in {"text", "thinking", "tool_calls"} : Has(v, k)

(* The keys that an assistant's output has, and no other ones.             *)
ShapeAssistantOutput(run, v, nodes) ==
  PresentOrForced(run,
    Collect(LAMBDA e, n : Member(e.key,
              ShapeValueForKey(run, e.key, AssistantOutputField(e.key), e.value, n)),
            SelectSeq(v.members, LAMBDA e : AssistantOutputField(e.key) # "not shaped"),
            Unlimited, nodes))

ShapeFieldValue(run, key, field, v, nodes) ==
  CASE field = "metadata" -> ShapeMetadata(run, v, nodes)
    [] field = "assistantOutput" /\ IsAssistantOutput(v) -> ShapeAssistantOutput(run, v, nodes)
    [] field = "providerInput" -> ShapeProviderInput(run, v, nodes)
    [] OTHER -> ShapeValueForKey(run, key, field, v, nodes)

TraceField(key) ==
  CASE key = "input"            -> "prompt"
    [] key = "output"           -> "assistantOutput"
    [] key \in StructuralKeys   -> "structural"
    [] OTHER                    -> "metadata"

ObservationField(n, key) ==
  CASE key = "input" /\ n = "tool"                            -> "toolInput"
    [] key = "input" /\ n \in {"llm-response", "agent.turn"}  -> "providerInput"
    [] key = "input" /\ n = "agent.prompt"                    -> "prompt"
    [] key = "output" -> IF n = "tool" THEN "toolOutput" ELSE "assistantOutput"
    [] key \in StructuralKeys                                 -> "structural"
    [] OTHER                                                  -> "metadata"

ToolRecords == {"tool_call", "tool_execution_start", "tool_execution_end"}

RawField(n, key) ==
  CASE key = "toolCalls" -> IF n = "assistant_output" THEN "toolInput" ELSE "structural"
    [] key \in StructuralKeys                         -> "structural"
    [] key \in {"args", "input", "argsSummary"}       ->
         IF n \in ToolRecords THEN "toolInput" ELSE "providerInput"
    [] key = "prompt"                                 -> "prompt"
    [] key = "systemPrompt"                           -> "systemPrompt"
    [] key \in {"messages", "messagesSummary", "payloadSummary"} -> "providerInput"
    [] key = "inputSummary"                           -> "toolInput"
    [] key \in {"text", "thinking"}                   -> "assistantOutput"
    [] key \in {"contentSummary", "resultSummary"}    -> "toolOutput"
    [] OTHER                                          -> "metadata"

RawRecords == {"provider_request", "assistant_output"} \cup ToolRecords

FieldForKey(n, key) ==
  CASE n = "trace"         -> TraceField(key)
    [] n \in RawRecords    -> RawField(n, key)
    [] OTHER               -> ObservationField(n, key)

(* shapeRecordEntry: r is what becomes of the field of e.  A structural     *)
(* field is only sanitized, and counts for no limit; the other ones share  *)
(* the nodes and the keys.                                                 *)
RecordEntry(run, acc, e, r) ==
  LET structural == FieldForKey(name, e.key) = "structural"
      full       == acc.nodes >= run.limits.nodes \/ acc.keys >= run.limits.keys IN
  CASE structural          -> [acc EXCEPT !.out = Append(@, e)]
    [] ~structural /\ full -> acc
    [] ~structural /\ ~full /\ r.value = Undefined -> [acc EXCEPT !.nodes = r.nodes]
    [] OTHER -> [out   |-> Append(acc.out, Entry(e.key, r.value)),
                 nodes |-> r.nodes, keys |-> acc.keys + 1]

ShapeRecord(run, body) ==
  FoldLeft(LAMBDA acc, e : RecordEntry(run, acc, e,
             ShapeFieldValue(run, e.key, FieldForKey(name, e.key), e.value, acc.nodes)),
           [out |-> <<>>, nodes |-> 0, keys |-> 0],
           SelectSeq(body, LAMBDA e : e.key \notin OpaqueReplaySignatureKeys)).out

-----------------------------------------------------------------------------
(* Capture provenance                                                      *)

UnlimitedLimits == [string |-> Unlimited, tool |-> Unlimited, depth |-> Unlimited,
                    items |-> Unlimited, keys |-> Unlimited, nodes |-> Unlimited]

MessagesKey == IF name = "provider_request" THEN "messages" ELSE "input"

Body == IF messages = <<>> THEN entries
        ELSE Append(entries, Entry(MessagesKey, List(messages)))

Actual    == ShapeRecord([force |-> FALSE, limits |-> limits], Body)
Unbounded == ShapeRecord([force |-> FALSE, limits |-> UnlimitedLimits], Body)

Reference == ShapeRecord([force |-> TRUE, limits |-> UnlimitedLimits], Body)

ValueAt(record, key) ==
  LET at == {i \in DOMAIN record : record[i].key = key} IN
  IF at = {} THEN Undefined ELSE record[CHOOSE i \in at : TRUE].value

ContentKeys == {Body[i].key : i \in
  {j \in DOMAIN Body : FieldForKey(name, Body[j].key) \notin {"structural", "metadata"}}}

(* fieldDegradation, with the three records it compares                    *)
FieldDegradation(key, actual, unbounded, reference) ==
  CASE ValueAt(actual, key) = ValueAt(reference, key)    -> "verified"
    [] ValueAt(unbounded, key) = ValueAt(reference, key) -> "budget-truncated"
    [] OTHER                                             -> "policy-omitted"

-----------------------------------------------------------------------------

Init == /\ name \in Names /\ capture \in Captures /\ limits \in Limits
        /\ entries = <<>> /\ messages = <<>>

AddEntry ==
  /\ Len(entries) + Len(messages) < MaxParts
  /\ \E e \in Entries[name] : /\ \A i \in DOMAIN entries : entries[i].key # e.key
                              /\ entries' = Append(entries, e)
  /\ UNCHANGED <<name, capture, limits, messages>>

AddMessage ==
  /\ name \in {"provider_request", "llm-response"} /\ Len(entries) + Len(messages) < MaxParts
  /\ \E m \in Messages : messages' = Append(messages, m)
  /\ UNCHANGED <<name, capture, limits, entries>>

Next == AddEntry \/ AddMessage

-----------------------------------------------------------------------------
(* Properties                                                              *)

TypeOK ==
  /\ name \in Names /\ capture \in Captures /\ limits \in Limits
  /\ entries \in Seq(Entries[name]) /\ messages \in Seq(Messages)

(* However deep a text sits in a body, it gets out only if its own field   *)
(* is captured; and what is opaque never gets out, not even of the run     *)
(* that the provenance is measured against.                                *)
NothingExcludedGetsOut(actual, reference) ==
  /\ \A i \in DOMAIN actual : \A t \in ToSet(Texts(actual[i].value)) :
       t.of # "none" => t.of \in Fields /\ IsCaptureEnabled(t.of)
  /\ \A i \in DOMAIN reference :
       \A t \in ToSet(Texts(reference[i].value)) : t.of # "opaque"

(* The fields of a body share its limits, however they are nested.         *)
WithinLimits(actual) ==
  LET content == SelectSeq(actual, LAMBDA e : FieldForKey(name, e.key) # "structural")
      texts   == FlattenSeq([i \in DOMAIN content |-> Texts(content[i].value)]) IN
  /\ Len(texts) <= limits.nodes /\ Len(content) <= limits.keys
  /\ \A t \in ToSet(texts) :
       t.size <= (IF t.of \in {"toolInput", "toolOutput"} THEN limits.tool ELSE limits.string)

(* A field that a record declares verified is complete, and no other one   *)
(* is: every text of the source is in it, whole and in order, but for      *)
(* those never captured.  A budget is blamed only for what the policy let  *)
(* through.                                                                *)
ProvenanceTrue(actual, unbounded, reference) ==
  name \in {"provider_request", "assistant_output"} =>
    \A key \in ContentKeys :
      LET source  == SelectSeq(Texts(ValueAt(Body, key)), LAMBDA t : t.of # "opaque")
          verdict == FieldDegradation(key, actual, unbounded, reference) IN
      /\ verdict = "verified" <=> Texts(ValueAt(actual, key)) = source
      /\ verdict = "budget-truncated" =>
           \A t \in ToSet(source) : t.of # "none" => IsCaptureEnabled(t.of)

AllRight(actual, unbounded, reference) ==
  /\ NothingExcludedGetsOut(actual, reference)
  /\ WithinLimits(actual)
  /\ ProvenanceTrue(actual, unbounded, reference)

(* What the three properties above say of the body as it is shaped.        *)
ShapingRight == AllRight(Actual, Unbounded, Reference)
=============================================================================
