------------------------- MODULE TrainingConversion -------------------------
(***************************************************************************)
(* The conversion of src/training-export.ts: which records of a raw trace  *)
(* are samples, and which messages make a sample's conversation.  A raw    *)
(* trace is written line by line and a provider context item by item; what *)
(* the conversion makes of them is computed in every state.                *)
(*                                                                         *)
(* A line is [type, turn, trace, complete]: "complete" stands for all that *)
(* assertCompleteRequest and assertCompleteResponse ask of one record.  An *)
(* item of a context is [kind, calls, blocks]: the ids of the calls it     *)
(* makes, and its content, where a block is the id of the call it answers  *)
(* or Text, a run of other blocks.  Tool names are left out.               *)
(***************************************************************************)
EXTENDS Naturals, Sequences, SequencesExt

CONSTANTS Lines,     \* the lines a raw trace is written from
          Items,     \* the items a provider context is built from
          MaxLines,  \* bound on the length of a raw trace
          MaxItems,  \* bound on the length of a context
          NoTurn,    \* a record without a turn index
          Text       \* the blocks between two tool results

VARIABLES lines, items

convVars == <<lines, items>>

Init == lines = <<>> /\ items = <<>>

WriteLine == /\ Len(lines) < MaxLines /\ items = <<>>
             /\ \E l \in Lines : lines' = Append(lines, l)
             /\ UNCHANGED items

AddItem == /\ Len(items) < MaxItems /\ lines = <<>>
           /\ \E i \in Items : items' = Append(items, i)
           /\ UNCHANGED lines

Next == WriteLine \/ AddItem

-----------------------------------------------------------------------------
(* Sample selection: parseSegments, pairRequest, convertSegment            *)

(* A line that cannot be read ends the segment, as a boundary does.        *)
EndsSegment(l) == l.type \in {"boundary", "malformed"}

LineNumbers == DOMAIN lines
SameSegment(i, j) ==
  \A k \in LineNumbers : i <= k /\ k <= j => ~EndsSegment(lines[k])

Requests  == {i \in LineNumbers : lines[i].type = "request"}
Responses == {i \in LineNumbers : lines[i].type = "response"}
OfSegment(S, i) == {j \in S : SameSegment(i, j) /\ SameSegment(j, i)}
OfTurn(S, i)    == {j \in OfSegment(S, i) : lines[j].turn = lines[i].turn}

(* slip: only answers can make a turn ambiguous *)
AmbiguousAnswers(i) == \E j, k \in OfTurn(Responses, i) : j # k

Ambiguous(i) == \/ AmbiguousAnswers(i)
                \/ OfTurn(Requests, i) # {i}

(* The next request or answer of the segment, if there is one.             *)
NextRecord(i) == {j \in OfSegment(Requests \cup Responses, i) :
               /\ i < j
               /\ \A k \in OfSegment(Requests \cup Responses, i) : i < k => j <= k}

Answered(i) == {j \in NextRecord(i) : lines[j].type = "response" /\ lines[j].turn = lines[i].turn}

(* What becomes of request i.                                              *)
Pairing(i) ==
  CASE lines[i].turn = NoTurn                      -> "missing-turn-index"
    [] lines[i].turn # NoTurn /\ Ambiguous(i)      -> "ambiguous-turn"
    [] lines[i].turn # NoTurn /\ ~Ambiguous(i)
                              /\ Answered(i) = {}  -> "no-matching-response"
    [] OTHER                                       -> "paired"

(* The answers that a request uses up, converted or not.                   *)
Consumed(i) ==
  CASE Pairing(i) = "paired"         -> Answered(i)
    [] Pairing(i) = "ambiguous-turn" -> OfTurn(Responses, i)
    [] OTHER                         -> {}

(* buildExample: both halves complete, and of one trace.                   *)
Builds(i, j) == /\ lines[j].complete
                /\ lines[i].complete
                /\ lines[i].trace = lines[j].trace

Examples == {e \in Requests \X Responses :
               /\ Pairing(e[1]) = "paired" /\ e[2] \in Answered(e[1])
               /\ Builds(e[1], e[2])}

(* Each rejection is counted once, under the line it names.                *)
Rejections ==
  {i \in LineNumbers :
     \/ lines[i].type = "malformed"
     \/ i \in Requests /\ \A j \in Responses : <<i, j>> \notin Examples
     \/ i \in Responses /\ \A r \in Requests : i \notin Consumed(r)}

-----------------------------------------------------------------------------
(* Context normalization: normalizeItem folds the items into turns         *)

Turn(role, calls) == [role |-> role, calls |-> calls]

(* A context is refused with its first reason, and then stays refused.     *)
Refuse(ctx) == [ctx EXCEPT !.ok = FALSE]

PushTurns(ctx, turns) == [ctx EXCEPT !.turns = @ \o turns]

(* A Responses function_call joins the assistant step before it.           *)
AddCall(ctx, calls) ==
  LET n == Len(ctx.turns) IN
  IF n > 0 /\ ctx.turns[n].role = "assistant"
  THEN [ctx EXCEPT !.turns[n].calls = @ \o calls]
  ELSE PushTurns(ctx, <<Turn("assistant", calls)>>)

(* Anthropic carries results inside user messages: they and the text       *)
(* between them are turns of their own, in source order.                   *)
BlockTurns(blocks) ==
  [k \in DOMAIN blocks |->
     IF blocks[k] = Text THEN Turn("user", <<>>) ELSE Turn("tool", <<blocks[k]>>)]

(* A system message may only come first.  Reasoning is left out; anything  *)
(* unknown, incomplete or empty refuses the sample.                        *)
NormalizeItem(item, ctx) ==
  CASE item.kind = "system" ->
         IF ctx.items = 0 THEN ctx ELSE Refuse(ctx)
    [] item.kind \in {"user", "tool"} -> PushTurns(ctx, BlockTurns(item.blocks))
    [] item.kind = "assistant" -> PushTurns(ctx, <<Turn("assistant", item.calls)>>)
    [] item.kind = "function_call" -> AddCall(ctx, item.calls)
    [] item.kind = "reasoning" -> ctx
    [] OTHER                   -> Refuse(ctx)

EmptyContext == [ok |-> TRUE, turns |-> <<>>, items |-> 0]

(* What the first n items make.                                            *)
Contexts ==
  LET ctx[n \in 0..Len(items)] ==
        IF n = 0 THEN EmptyContext
        ELSE [NormalizeItem(items[n], ctx[n - 1]) EXCEPT !.items = @ + 1]
  IN ctx

Normalized == Contexts[Len(items)]

Turns == Normalized.turns

-----------------------------------------------------------------------------
(* validateToolPairing folds the turns into calls seen and calls pending   *)

AnswerCall(s, id) ==
  [s EXCEPT !.ok = @ /\ id \in s.pending, !.pending = @ \ {id}]

OpenCalls(s, calls) ==
  [s EXCEPT !.ok      = @ /\ ToSet(calls) \cap s.seen = {} /\ IsInjective(calls),
            !.pending = @ \cup ToSet(calls),
            !.seen    = @ \cup ToSet(calls)]

(* Every turn but a result needs the calls before it answered.             *)
PairTurn(s, turn) ==
  IF turn.role = "tool"
  THEN AnswerCall(s, turn.calls[1])
  ELSE OpenCalls([s EXCEPT !.ok = @ /\ s.pending = {}], turn.calls)

NothingCalled == [ok |-> TRUE, pending |-> {}, seen |-> {}]

(* What the first n turns leave.                                           *)
Pairings ==
  LET s[n \in 0..Len(Turns)] ==
        IF n = 0 THEN NothingCalled ELSE PairTurn(s[n - 1], Turns[n])
  IN s

Paired == LET end == Pairings[Len(Turns)] IN end.ok /\ end.pending = {}

(* assertAnswerableEnd *)
AnswerableEnd ==
  /\ Turns # <<>>
  /\ Last(Turns).role # "assistant"
  /\ \E k \in DOMAIN Turns : Turns[k].role = "user"

Convertible == Normalized.ok /\ Paired /\ AnswerableEnd

-----------------------------------------------------------------------------
(* Target formats                                                          *)

(* groupToolResults: consecutive results share one message, whose calls    *)
(* are the ones it answers.                                                *)
GroupTurn(msgs, turn) ==
  LET n == Len(msgs) IN
  CASE turn.role # "tool"                              -> Append(msgs, turn)
    [] turn.role = "tool" /\ n > 0 /\ msgs[n].role = "tool" ->
         [msgs EXCEPT ![n].calls = @ \o turn.calls]
    [] OTHER                                           -> Append(msgs, turn)

(* What the first n turns are sent as.                                     *)
Grouped ==
  LET msgs[n \in 0..Len(Turns)] ==
        IF n = 0 THEN <<>> ELSE GroupTurn(msgs[n - 1], Turns[n])
  IN msgs

AnthropicMessages == Grouped[Len(Turns)]

(* Results travel in user messages, and a user opens the conversation.     *)
ToAnthropic == Convertible /\ AnthropicMessages[1].role # "assistant"

(* shareGptTurn: text only, and human and gpt alternate.                   *)
ToShareGpt ==
  /\ Convertible
  /\ \A k \in DOMAIN Turns :
       /\ Turns[k].role # "tool" /\ Turns[k].calls = <<>>
       /\ Turns[k].role # (IF k = 1 THEN "assistant" ELSE Turns[k - 1].role)

-----------------------------------------------------------------------------
(* Properties                                                              *)

TypeOK == lines \in Seq(Lines) /\ items \in Seq(Items)

(* A sample is a request and an answer that nothing separates: no other    *)
(* request or answer, no boundary, no unreadable record; both name one     *)
(* turn that nobody else in their segment names.                           *)
SamplesAreProven ==
  \A e \in Examples :
    LET between == {k \in LineNumbers : e[1] < k /\ k < e[2]} IN
    /\ e[1] < e[2] /\ lines[e[1]].turn = lines[e[2]].turn
    /\ \A k \in between : lines[k].type = "other"
    /\ \A k \in Requests \cup Responses :
         lines[k].turn = lines[e[1]].turn /\ k \notin {e[1], e[2]}
           => \E b \in LineNumbers :
                /\ lines[b].type \in {"boundary", "malformed"}
                /\ (k < b /\ b < e[1]) \/ (e[2] < b /\ b < k)

(* No record is used twice, and none disappears: each request ends as one  *)
(* sample or one rejection, each unreadable line as a rejection, each      *)
(* answer in a sample, as a rejection, or with the request that used it.   *)
EveryRecordAccounted ==
  /\ \A e, f \in Examples : e # f => e[1] # f[1] /\ e[2] # f[2]
  /\ \A i \in Requests : (\E j \in Responses : <<i, j>> \in Examples) # (i \in Rejections)
  /\ \A j \in Responses :
       \/ \E i \in Requests : <<i, j>> \in Examples
       \/ j \in Rejections
       \/ \E i \in Requests : i \in Rejections /\ j \in Consumed(i)

(* In an accepted conversation each step's calls are answered right after  *)
(* it, all of them, once each and nothing else: the one message of results *)
(* that Anthropic requires behind a message with calls.                    *)
ResultsFollowCalls ==
  ToAnthropic =>
    \A k \in DOMAIN AnthropicMessages :
      LET msg == AnthropicMessages[k] IN
      /\ msg.role = "tool" =>
           /\ k > 1 /\ AnthropicMessages[k - 1].role = "assistant"
           /\ ToSet(msg.calls) = ToSet(AnthropicMessages[k - 1].calls)
           /\ Len(msg.calls) = Len(AnthropicMessages[k - 1].calls)
      /\ msg.role = "assistant" /\ msg.calls # <<>> =>
           k < Len(AnthropicMessages) /\ AnthropicMessages[k + 1].role = "tool"

(* A call id names one call in the whole conversation.                     *)
CallIdsUnique ==
  Convertible =>
    \A j, k \in DOMAIN Turns :
      /\ Turns[j].role = "assistant" /\ Turns[k].role = "assistant" /\ j # k
      => ToSet(Turns[j].calls) \cap ToSet(Turns[k].calls) = {}

(* ShareGPT's turns are human and gpt in turn, from a human question to    *)
(* the human turn that the final answer responds to.                       *)
HumanAndGptAlternate ==
  ToShareGpt =>
    /\ Len(Turns) % 2 = 1
    /\ \A k \in DOMAIN Turns :
         Turns[k].role = (IF k % 2 = 1 THEN "user" ELSE "assistant")

(* The conversion is right: which records become samples, and what the     *)
(* samples of each format are like.                                        *)
TrainingRight ==
  /\ SamplesAreProven /\ EveryRecordAccounted
  /\ ResultsFollowCalls /\ CallIdsUnique /\ HumanAndGptAlternate
=============================================================================
