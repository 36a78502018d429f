------------------------------ MODULE AskFlows ------------------------------
(***************************************************************************)
(* Whose waiting time is it?  pi-ask announces that a dialog opened or     *)
(* closed on a bus without sessions, with the id of the dialog's flow and  *)
(* of the tool call that asks.  src/tool-lifecycle.ts attributes such an   *)
(* event to the one live prompt it can belong to, or to nobody;            *)
(* src/ask-wait.ts turns what a prompt has recorded into its waiting time. *)
(* A tool flow and its tool call have one id here, as in pi-ask.           *)
(***************************************************************************)
EXTENDS Integers, FiniteSets, FiniteSetsExt

CONSTANTS Prompts,   \* one prompt of each session
          Dialogs,   \* the dialogs that tools open
          OwnerOf,   \* the prompt whose tool opens a dialog
          FlowOf,    \* its flow id, which several dialogs may share
          MaxTime    \* bound on the clock

VARIABLES life,      \* of a prompt: not begun, live, or over
          tools,     \* its active tool calls
          askFlows,  \* the flows it holds, with their recorded times
          ambiguous, \* its ambiguousAskFlowIds
          opened, closed,  \* when a dialog really opened and closed
          now

askVars == <<life, tools, askFlows, ambiguous, opened, closed, now>>

Flows   == {FlowOf[d] : d \in Dialogs}
Unknown == -1
Times   == Unknown..MaxTime
NotHeld == [held |-> FALSE, startedAt |-> Unknown, completedAt |-> Unknown]

Init ==
  /\ life = [p \in Prompts |-> "none"]
  /\ tools = [p \in Prompts |-> {}]
  /\ askFlows = [p \in Prompts |-> [f \in Flows |-> NotHeld]]
  /\ ambiguous = [p \in Prompts |-> {}]
  /\ opened = [d \in Dialogs |-> Unknown]
  /\ closed = [d \in Dialogs |-> Unknown]
  /\ now = 0

-----------------------------------------------------------------------------
(* Attribution                                                             *)

(* livePrompts: those that are not being finalized                         *)
Live == {p \in Prompts : life[p] = "live"}

(* Who holds the flow, has met it as ambiguous, or runs its tool call.     *)
Candidates(f) ==
  {p \in Live : askFlows[p][f].held \/ f \in ambiguous[p] \/ f \in tools[p]}

(* slip: among several candidates, one is as good as the other *)
OwnersAny(f) == Candidates(f)

Owners(f) ==
  IF Cardinality(Candidates(f)) = 1 /\ \A p \in Live : f \notin ambiguous[p]
  THEN Candidates(f) ELSE {}

(* applyAskStarted and applyAskCompleted.  The first valid time of a kind  *)
(* stays.                                                                  *)
FirstTime(recorded, t) == IF recorded = Unknown THEN t ELSE recorded

WithTime(flow, kind, t) ==
  [flow EXCEPT ![kind] = FirstTime(flow[kind], t), !.held = TRUE]

(* recordAskEvent                                                          *)
RecordAskEvent(f, kind, t) ==
  IF Owners(f) = {}
  THEN /\ ambiguous' = [p \in Prompts |->
            IF p \in Candidates(f) THEN ambiguous[p] \cup {f} ELSE ambiguous[p]]
       /\ UNCHANGED askFlows
  ELSE /\ \E p \in Owners(f) :
            askFlows' = [askFlows EXCEPT ![p][f] = WithTime(askFlows[p][f], kind, t)]
       /\ UNCHANGED ambiguous

-----------------------------------------------------------------------------
(* Prompts, tools and dialogs                                              *)

PromptBegins(p) ==
  /\ life[p] = "none"
  /\ life' = [life EXCEPT ![p] = "live"]
  /\ UNCHANGED <<tools, askFlows, ambiguous, opened, closed, now>>

(* Its finalization begins, and abandons the tools.                        *)
PromptEnds(p) ==
  /\ life[p] = "live"
  /\ life' = [life EXCEPT ![p] = "over"]
  /\ tools' = [tools EXCEPT ![p] = {}]
  /\ UNCHANGED <<askFlows, ambiguous, opened, closed, now>>

(* A tool that ends stays in the map until its prompt ends.                *)
ToolCall(d) ==
  LET p == OwnerOf[d] IN
  /\ life[p] = "live"
  /\ tools' = [tools EXCEPT ![p] = @ \cup {FlowOf[d]}]
  /\ UNCHANGED <<life, askFlows, ambiguous, opened, closed, now>>

DialogOpens(d) ==
  /\ opened[d] = Unknown /\ FlowOf[d] \in tools[OwnerOf[d]]
  /\ opened' = [opened EXCEPT ![d] = now]
  /\ UNCHANGED <<life, tools, askFlows, ambiguous, closed, now>>

DialogCloses(d) ==
  /\ opened[d] # Unknown /\ closed[d] = Unknown
  /\ closed' = [closed EXCEPT ![d] = now]
  /\ UNCHANGED <<life, tools, askFlows, ambiguous, opened, now>>

Tick ==
  /\ now < MaxTime /\ now' = now + 1
  /\ UNCHANGED <<life, tools, askFlows, ambiguous, opened, closed>>

(* A prompt may be over when its dialog's event comes, but then no other   *)
(* prompt runs a tool call with the same id: that event would be its own.  *)
InTime(d) == \/ life[OwnerOf[d]] = "live"
             \/ Candidates(FlowOf[d]) = {}

(* Events come late, in any order and more than once.  One without a valid *)
(* time leaves it unknown.                                                 *)
AskStarted(d) ==
  /\ opened[d] # Unknown /\ InTime(d)
  /\ \E t \in {opened[d], Unknown} : RecordAskEvent(FlowOf[d], "startedAt", t)
  /\ UNCHANGED <<life, tools, opened, closed, now>>

AskCompleted(d) ==
  /\ closed[d] # Unknown /\ InTime(d)
  /\ \E t \in {closed[d], Unknown} : RecordAskEvent(FlowOf[d], "completedAt", t)
  /\ UNCHANGED <<life, tools, opened, closed, now>>

Next ==
  \/ \E p \in Prompts : PromptBegins(p) \/ PromptEnds(p)
  \/ \E d \in Dialogs : \/ ToolCall(d) \/ DialogOpens(d) \/ DialogCloses(d)
                        \/ AskStarted(d) \/ AskCompleted(d)
  \/ Tick

-----------------------------------------------------------------------------
(* summarizeAskWait                                                        *)

Held(p) == {f \in Flows : askFlows[p][f].held}

Measured(flow) == /\ flow.startedAt # Unknown
                  /\ flow.completedAt >= flow.startedAt

AskWaitStatus(p) ==
  CASE ambiguous[p] # {}                                  -> "ambiguous"
    [] ambiguous[p] = {} /\ \A f \in Held(p) : Measured(askFlows[p][f]) -> "measured"
    [] OTHER                                              -> "incomplete"

(* unionDurationMs: the intervals by their starts, each counted from where *)
(* the ones before it end.  Before(p, f) are those intervals.              *)
Before(p, f) ==
  {g \in Held(p) : LET a == askFlows[p][g].startedAt
                       b == askFlows[p][f].startedAt IN a < b \/ (a = b /\ g < f)}

UnionDuration(p) ==
  FoldSet(LAMBDA f, total :
            LET flow == askFlows[p][f]
                from == Max({flow.startedAt} \cup {askFlows[p][g].completedAt : g \in Before(p, f)})
            IN total + (IF flow.completedAt > from THEN flow.completedAt - from ELSE 0),
          0, Held(p))

-----------------------------------------------------------------------------
(* Properties                                                              *)

TypeOK ==
  /\ life \in [Prompts -> {"none", "live", "over"}]
  /\ tools \in [Prompts -> SUBSET Flows] /\ ambiguous \in [Prompts -> SUBSET Flows]
  /\ askFlows \in [Prompts -> [Flows -> [held : BOOLEAN, startedAt : Times, completedAt : Times]]]
  /\ opened \in [Dialogs -> Times] /\ closed \in [Dialogs -> Times] /\ now \in 0..MaxTime

(* A prompt records the times of its own dialogs only, also when another   *)
(* session runs a tool call with the same id at the same time.             *)
OwnDialogsOnly ==
  \A p \in Prompts, f \in Flows :
    LET own  == {d \in Dialogs : OwnerOf[d] = p /\ FlowOf[d] = f}
        flow == askFlows[p][f] IN
    /\ flow.startedAt \in {Unknown} \cup {opened[d] : d \in own}
    /\ flow.completedAt \in {Unknown} \cup {closed[d] : d \in own}

(* A measured wait is the time at which at least one of the prompt's       *)
(* dialogs was open: overlapping dialogs count once.                       *)
WaitIsTimeOpen ==
  \A p \in Prompts :
    AskWaitStatus(p) = "measured" =>
      UnionDuration(p) =
        Cardinality({t \in 0..MaxTime :
          \E f \in Held(p) : /\ askFlows[p][f].startedAt <= t
                             /\ t < askFlows[p][f].completedAt})

(* What a prompt reports as waiting is its own and is counted once.        *)
WaitingAttributed == OwnDialogsOnly /\ WaitIsTimeOpen
=============================================================================
