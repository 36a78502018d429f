--------------------------- MODULE SessionsProofs ---------------------------
(***************************************************************************)
(* Theorems about Sessions, for any instances, sessions, prompts, refreshes *)
(* and settings.                                                           *)
(***************************************************************************)
EXTENDS Sessions, SequenceLemmas

-----------------------------------------------------------------------------
(* The inductive invariant                                                 *)

Records == {"start", "child", "score"}
Closes  == {"refresh close", "session close"}

(* Whoever has got so far knows its configuration.                         *)
Configured ==
  /\ \A p \in Prompts : start[p] # "none" => config[p] # None
  /\ \A p \in Prompts : final[p] \in {"children", "scoring"} => finalConfig[p] # None
  /\ \A r \in Refreshes : refresh[r].at = "joined" =>
       refresh[r].awaits # None /\ refresh[r].config # None

(* A start that has not published its prompt has left no trace of it, and  *)
(* keeps its session alive.                                                *)
Unpublished == \A p \in Prompts :
  /\ start[p] \in {"none", "waiting", "replacing"} =>
       final[p] = "no" /\ child[p] = None /\ score[p] = None
  /\ start[p] \in {"waiting", "replacing"} =>
       Session[p] \in leases /\ shutdown[Session[p]] = "no"

(* The prompt that a session holds is one of its own, published and not    *)
(* over, and the session has its lease.                                    *)
PromptHeld == \A s \in SessionIds : promptState[s] # None =>
  /\ Session[promptState[s]] = s
  /\ start[promptState[s]] \in {"source", "runtime", "over"}
  /\ final[promptState[s]] # "over"
  /\ s \in leases
  /\ shutdown[s] \in {"no", "finalizing"}

(* A root is open only while its session holds the prompt.                 *)
OpenHeld == \A p \in open : promptState[Session[p]] = p

(* Every transition in the line is the one that its owner waits for.       *)
Awaited(t) ==
  CASE t.op = "start" -> start[t.by] = "runtime" /\ t.config = config[t.by]
    [] t.op = "child" -> /\ t.by \in open /\ t.by \in asked
                         /\ final[t.by] \in {"no", "children"}
    [] t.op = "score" -> t.by \in open /\ final[t.by] = "scoring"
    [] t.op = "refresh flush" -> refresh[t.by].at = "flushing"
    [] t.op = "reconfigure"   -> refresh[t.by].at = "reconfiguring"
    [] t.op = "refresh close" -> refresh[t.by].at = "closing"
    [] t.op = "session flush" -> shutdown[t.by] = "flushing"
    [] t.op = "session close" -> shutdown[t.by] = "closing"

LineAwaited ==
  /\ \A k \in DOMAIN line : Awaited(line[k])
  /\ \A j, k \in DOMAIN line :
       line[j].op = line[k].op /\ line[j].by = line[k].by => j = k

(* The close of the client meets no open root, and none is opened by what  *)
(* comes before it.                                                        *)
ClosesAlone == \A k \in DOMAIN line : line[k].op \in Closes =>
  /\ open = {}
  /\ \A j \in 1..(k - 1) : line[j].op = "start" =>
       promptState[Session[line[j].by]] # line[j].by

(* Without leases the runtime is closed, or a close is in the line behind  *)
(* everything that may still open it.                                      *)
RuntimeLeased == leases = {} =>
  \/ runtime = None /\ \A k \in DOMAIN line : line[k].op \notin Records
  \/ \E j \in DOMAIN line : /\ line[j].op \in Closes
                            /\ \A k \in j..Len(line) : line[k].op \notin Records

NothingCut == cut = {}

(* What a refresh found when it began is over, awaited, or still ahead.    *)
RefreshWalks == \A r \in Refreshes : refresh[r].at = "joined" =>
  \A p \in refresh[r].before :
    \/ final[p] = "over"
    \/ p = refresh[r].awaits
    \/ promptState[Session[p]] = p /\ Contains(refresh[r].left, Session[p])

IInv ==
  /\ TypeOK
  /\ Configured
  /\ Unpublished
  /\ PromptHeld
  /\ OpenHeld
  /\ LineAwaited
  /\ ClosesAlone
  /\ RuntimeLeased
  /\ NothingCut
  /\ RefreshWalks
  /\ RecordsHome
  /\ RefreshSettles

-----------------------------------------------------------------------------
(* The line                                                                *)

LEMMA LineShape ==
  ASSUME line \in Seq(Transitions), NEW k \in DOMAIN line
  PROVE  /\ line[k] \in Transitions
         /\ line[k].op \in Records => line[k].by \in Prompts /\ line[k].config \in Config
         /\ line[k].op \in {"refresh flush", "reconfigure", "refresh close"}
              => line[k].by \in Refreshes
         /\ line[k].op \in {"session flush", "session close"} => line[k].by \in SessionIds
<1>1. line[k] \in Transitions
  OBVIOUS
<1>. QED
  BY <1>1 DEF Transitions, Records

(* The first transition leaves the line.                                   *)
LEMMA Popped ==
  ASSUME line \in Seq(Transitions), line # <<>>, line' = Tail(line)
  PROVE  /\ line' \in Seq(Transitions)
         /\ 1 \in DOMAIN line /\ Head(line) = line[1]
         /\ Len(line') = Len(line) - 1
         /\ \A k \in DOMAIN line' : k + 1 \in DOMAIN line /\ line'[k] = line[k + 1]
<1>1. PICK T : T = Transitions
  OBVIOUS
<1>2. line \in Seq(T)
  BY <1>1
<1>3. line' \in Seq(T) /\ Len(line') = Len(line) - 1 /\ Len(line) > 0
  BY <1>2
<1>. QED
  BY <1>1, <1>2, <1>3

(* A transition joins the line.                                            *)
LEMMA Appended ==
  ASSUME line \in Seq(Transitions), NEW t \in Transitions, line' = Append(line, t)
  PROVE  /\ line' \in Seq(Transitions)
         /\ Len(line') = Len(line) + 1
         /\ \A k \in DOMAIN line : k \in DOMAIN line' /\ line'[k] = line[k]
         /\ line'[Len(line')] = t /\ Len(line') \in DOMAIN line'
OBVIOUS

(* The first transition leaves the line, and its successor joins it.       *)
LEMMA Replaced ==
  ASSUME line \in Seq(Transitions), line # <<>>, NEW t \in Transitions,
         line' = Append(Tail(line), t)
  PROVE  /\ line' \in Seq(Transitions)
         /\ 1 \in DOMAIN line /\ Head(line) = line[1]
         /\ Len(line') = Len(line)
         /\ \A k \in 1..(Len(line) - 1) : k + 1 \in DOMAIN line /\ line'[k] = line[k + 1]
         /\ line'[Len(line')] = t
OBVIOUS

-----------------------------------------------------------------------------
(* Sessions and their leases                                               *)

OwnersOK ==
  /\ states \in [Instances -> Seq(SessionIds)]
  /\ \A i \in Instances :
       states[i] \in Seq({s \in SessionIds : Instance[s] = i}) /\ IsInjective(states[i])
  /\ leases = {s \in SessionIds : Contains(states[Instance[s]], s)}

(* A replaced list of one instance is all that changes.                    *)
LEMMA OwnersReplaced ==
  ASSUME OwnersOK, NEW i \in Instances, NEW list, states' = [states EXCEPT ![i] = list],
         list \in Seq({s \in SessionIds : Instance[s] = i}), IsInjective(list),
         leases' = {s \in SessionIds :
                      IF Instance[s] = i THEN Contains(list, s) ELSE s \in leases}
  PROVE  OwnersOK'
<1>1. list \in Seq(SessionIds)
  <2>1. {s \in SessionIds : Instance[s] = i} \subseteq SessionIds
    OBVIOUS
  <2>. QED
    BY <2>1
<1>2. states' \in [Instances -> Seq(SessionIds)]
  BY <1>1 DEF OwnersOK
<1>3. \A j \in Instances : states'[j] = IF j = i THEN list ELSE states[j]
  BY DEF OwnersOK
<1>4. \A j \in Instances :
        states'[j] \in Seq({s \in SessionIds : Instance[s] = j}) /\ IsInjective(states'[j])
  BY <1>3 DEF OwnersOK
<1>5. leases' = {s \in SessionIds : Contains(states'[Instance[s]], s)}
  <2>1. \A s \in SessionIds : Instance[s] \in Instances
    BY SessionsAssumption
  <2>2. \A s \in SessionIds :
          Contains(states'[Instance[s]], s) <=> s \in leases'
    BY <2>1, <1>3 DEF OwnersOK
  <2>3. leases' \subseteq SessionIds
    OBVIOUS
  <2>. QED
    BY <2>2, <2>3
<1>. QED
  BY <1>2, <1>4, <1>5 DEF OwnersOK

(* getOrCreateState gives a session its state and its lease.               *)
LEMMA Created ==
  ASSUME OwnersOK, NEW s \in SessionIds, GetOrCreate(s)
  PROVE  OwnersOK' /\ leases' = leases \cup {s}
<1>. DEFINE i == Instance[s]
            own == {t \in SessionIds : Instance[t] = i}
            old == states[i]
            list == IF Contains(old, s) THEN old ELSE Append(old, s)
<1>1. i \in Instances /\ s \in own
  BY SessionsAssumption
<1>2. old \in Seq(own) /\ IsInjective(old)
  BY <1>1 DEF OwnersOK
<1>3. states' = [states EXCEPT ![i] = list] /\ leases' = leases \cup {s}
  BY <1>1 DEF GetOrCreate, OwnersOK
<1>4. /\ list \in Seq(own) /\ IsInjective(list)
      /\ \A t \in SessionIds : Contains(list, t) <=> Contains(old, t) \/ t = s
  <2>. HIDE DEF own, old
  <2>. QED
    BY <1>1, <1>2 DEF Contains, IsInjective
<1>5. \A t \in SessionIds : Instance[t] = i => (Contains(old, t) <=> t \in leases)
  BY DEF OwnersOK
<1>6. leases' = {t \in SessionIds :
                   IF Instance[t] = i THEN Contains(list, t) ELSE t \in leases}
  <2>1. leases' \subseteq SessionIds
    BY <1>3 DEF OwnersOK
  <2>2. \A t \in SessionIds :
          t \in leases' <=> IF Instance[t] = i THEN Contains(list, t) ELSE t \in leases
    BY <1>3, <1>4, <1>5
  <2>. HIDE DEF list
  <2>. QED
    BY <2>1, <2>2
<1>. HIDE DEF list
<1>. QED
  BY <1>1, <1>3, <1>4, <1>6, OwnersReplaced

(* deleteState takes both away again.                                      *)
LEMMA Deleted ==
  ASSUME OwnersOK, NEW s \in SessionIds, DeleteState(s)
  PROVE  OwnersOK' /\ leases' = leases \ {s}
<1>. DEFINE i == Instance[s]
            own == {t \in SessionIds : Instance[t] = i}
            old == states[i]
            list == RemoveFirst(old, s)
<1>1. i \in Instances
  BY SessionsAssumption
<1>2. old \in Seq(own) /\ IsInjective(old)
  BY <1>1 DEF OwnersOK
<1>3. states' = [states EXCEPT ![i] = list] /\ leases' = leases \ {s}
  BY <1>1 DEF DeleteState, OwnersOK
<1>4. /\ list \in Seq(own) /\ IsInjective(list)
      /\ \A t : Contains(list, t) <=> Contains(old, t) /\ t # s
  <2>. HIDE DEF own, old
  <2>. QED
    BY <1>2, RemoveFirstFacts
<1>5. \A t \in SessionIds : Instance[t] = i => (Contains(old, t) <=> t \in leases)
  BY DEF OwnersOK
<1>6. leases' = {t \in SessionIds :
                   IF Instance[t] = i THEN Contains(list, t) ELSE t \in leases}
  <2>1. leases' \subseteq SessionIds
    BY <1>3 DEF OwnersOK
  <2>2. \A t \in SessionIds :
          t \in leases' <=> IF Instance[t] = i THEN Contains(list, t) ELSE t \in leases
    BY <1>3, <1>4, <1>5
  <2>. HIDE DEF list
  <2>. QED
    BY <2>1, <2>2
<1>. HIDE DEF list
<1>. QED
  BY <1>1, <1>3, <1>4, <1>6, OwnersReplaced

-----------------------------------------------------------------------------
(* The walk of a refresh                                                   *)

(* WithPrompt finds the first session that holds a prompt.                 *)
LEMMA WithPromptFinds ==
  ASSUME NEW left \in Seq(SessionIds)
  PROVE  LET k == WithPrompt(left) IN
         \/ k = 0 /\ \A j \in DOMAIN left : promptState[left[j]] = None
         \/ /\ k \in DOMAIN left /\ promptState[left[k]] # None
            /\ \A j \in 1..(k - 1) : promptState[left[j]] = None
<1>. DEFINE I == {j \in 1..Len(left) : promptState[left[j]] # None}
<1>1. CASE I = {}
  BY <1>1 DEF WithPrompt, SelectInSeq
<1>2. CASE I # {}
  <2>1. I \in SUBSET Nat
    OBVIOUS
  <2>2. PICK k \in I : k = Min(I) /\ \A j \in I : k <= j
    BY <1>2, <2>1, MinIs
  <2>3. WithPrompt(left) = k
    BY <1>2, <2>2 DEF WithPrompt, SelectInSeq
  <2>4. \A j \in 1..(k - 1) : promptState[left[j]] = None
    BY <2>2
  <2>. QED
    BY <2>2, <2>3, <2>4
<1>. QED
  BY <1>1, <1>2

-----------------------------------------------------------------------------
(* Type correctness                                                        *)

EventTypes ==
  /\ settings \in [Instances -> Nat]
  /\ cachedConfig \in [Instances -> Config \cup {None}]
  /\ file \in 0..MaxFile
  /\ shutdown \in [SessionIds -> {"no", "finalizing", "flushing", "closing", "done"}]
  /\ promptState \in [SessionIds -> Prompts \cup {None}]
  /\ pendingStart \in [SessionIds -> Prompts \cup {None}]
  /\ start \in [Prompts ->
       {"none", "waiting", "replacing", "source", "runtime", "over"}]
  /\ config \in [Prompts -> Config \cup {None}]

RecordTypes ==
  /\ asked \subseteq Prompts
  /\ child \in [Prompts -> Config \cup {None}]
  /\ final \in [Prompts -> {"no", "children", "scoring", "over"}]
  /\ finalConfig \in [Prompts -> Config \cup {None}]
  /\ score \in [Prompts -> Config \cup {None}]
  /\ runtime \in Config \cup {None}
  /\ open \subseteq Prompts
  /\ cut \subseteq Prompts

RefreshStages == {"idle", "joined", "flushing", "reconfiguring", "closing", "done"}

RefreshState ==
  [at : RefreshStages, left : Seq(SessionIds), awaits : Prompts \cup {None},
   before : SUBSET Prompts, config : Config \cup {None}]

RefreshTypes == refresh \in [Refreshes -> RefreshState]

LEMMA Types ==
  TypeOK <=> OwnersOK /\ EventTypes /\ RecordTypes /\ RefreshTypes /\ line \in Seq(Transitions)
BY DEF TypeOK, OwnersOK, EventTypes, RecordTypes, RefreshTypes,
       RefreshState, RefreshStages

LEMMA ConfigsResolve ==
  ASSUME TypeOK, NEW i \in Instances
  PROVE  Resolve(i) \in Config /\ CurrentConfig(i) \in Config
BY DEF TypeOK, Resolve, CurrentConfig, Config

(* What the owner of each kind of transition asks for.                     *)
LEMMA TransitionTypes ==
  /\ \A p \in Prompts, c \in Config, op \in Records :
       [op |-> op, by |-> p, config |-> c] \in Transitions
  /\ \A r \in Refreshes, op \in {"refresh flush", "reconfigure", "refresh close"} :
       [op |-> op, by |-> r] \in Transitions
  /\ \A s \in SessionIds, op \in {"session flush", "session close"} :
       [op |-> op, by |-> s] \in Transitions
BY DEF Transitions, Records

(* Whose the first transition is.                                          *)
LEMMA HeadShape ==
  ASSUME TypeOK, line # <<>>
  PROVE  /\ Head(line) = line[1] /\ 1 \in DOMAIN line
         /\ Head(line).op \in Records =>
              Head(line).by \in Prompts /\ Head(line).config \in Config
         /\ Head(line).op \in {"refresh flush", "reconfigure", "refresh close"}
              => Head(line).by \in Refreshes
         /\ Head(line).op \in {"session flush", "session close"}
              => Head(line).by \in SessionIds
<1>1. line \in Seq(Transitions)
  BY DEF TypeOK
<1>2. 1 \in DOMAIN line /\ Head(line) = line[1]
  BY <1>1
<1>. QED
  BY <1>1, <1>2, LineShape

LEMMA TypeInit == Init => TypeOK
<1>. SUFFICES ASSUME Init PROVE TypeOK
  OBVIOUS
<1>1. OwnersOK
  BY SessionsAssumption DEF Init, OwnersOK, Contains, IsInjective
<1>2. EventTypes /\ RecordTypes /\ RefreshTypes
  BY SessionsAssumption DEF Init, EventTypes, RecordTypes, RefreshTypes,
     RefreshState, RefreshStages
<1>. QED
  BY <1>1, <1>2, Types DEF Init

(* The actions that leave the owners of sessions alone.                    *)
LEMMA EventTypesKept ==
  ASSUME IInv, [Next]_vars
  PROVE  EventTypes'
<1>. USE SessionsAssumption DEF EventTypes
<1>0. TypeOK /\ EventTypes /\ Configured
  BY Types DEF IInv
<1>1. CASE FileEdited
  BY <1>0, <1>1 DEF FileEdited, configVars, promptVars
<1>2. ASSUME NEW s \in SessionIds, SessionStart(s) PROVE EventTypes'
  BY <1>0, <1>2, ConfigsResolve DEF SessionStart, Cache, promptVars, clientVars
<1>3. ASSUME NEW s \in SessionIds, SessionShutdown(s) PROVE EventTypes'
  BY <1>0, <1>3, ConfigsResolve DEF SessionShutdown, Cache, Forget, promptVars, clientVars
<1>4. ASSUME NEW p \in Prompts, BeforeAgentStart(p) PROVE EventTypes'
  BY <1>0, <1>4, ConfigsResolve DEF BeforeAgentStart, Cache, Claim, clientVars
<1>5. ASSUME NEW p \in Prompts, PromptEvent(p) PROVE EventTypes'
  BY <1>0, <1>5, ConfigsResolve DEF PromptEvent, Cache
<1>6. ASSUME NEW p \in Prompts, AgentSettled(p) PROVE EventTypes'
  BY <1>0, <1>6, ConfigsResolve DEF AgentSettled, Cache, promptVars
<1>7. ASSUME NEW r \in Refreshes, RefreshConfig(r) PROVE EventTypes'
  BY <1>0, <1>7 DEF RefreshConfig, Cache, promptVars, Config
<1>8. ASSUME NEW p \in Prompts, PromptContinues(p) PROVE EventTypes'
  BY <1>0, <1>8 DEF PromptContinues, ClaimAfterWait, Claim, Publish, ScoresDue, EndPrompt,
                    configVars
<1>9. ASSUME NEW r \in Refreshes, Joined(r) PROVE EventTypes'
  BY <1>0, <1>9 DEF Joined, configVars, promptVars
<1>10. ASSUME NEW s \in SessionIds, SessionFlushDue(s) PROVE EventTypes'
  BY <1>0, <1>10 DEF SessionFlushDue, configVars, promptVars
<1>11. ASSUME NEW p \in Prompts, SourceAnswers(p) PROVE EventTypes'
  BY <1>0, <1>11 DEF SourceAnswers, EndStart, configVars
<1>12. CASE StartAnswered \/ ChildAnswered \/ ScoreAnswered
  <2>1. Head(line).by \in Prompts
    BY <1>0, <1>12, HeadShape DEF StartAnswered, ChildAnswered, ScoreAnswered, First, Records
  <2>. QED
    BY <1>0, <1>12, <2>1 DEF StartAnswered, ChildAnswered, ScoreAnswered, EndStart, EndPrompt,
                        configVars
<1>13. CASE RefreshFlushed \/ Reconfigured \/ RefreshClosed
  BY <1>0, <1>13 DEF RefreshFlushed, Reconfigured, RefreshClosed, configVars, promptVars
<1>14. CASE SessionFlushed \/ SessionClosed
  <2>1. Head(line).by \in SessionIds
    BY <1>0, <1>14, HeadShape DEF SessionFlushed, SessionClosed, First
  <2>. QED
    BY <1>0, <1>14, <2>1 DEF SessionFlushed, SessionClosed, configVars, promptVars
<1>15. CASE UNCHANGED vars
  BY <1>0, <1>15 DEF vars, configVars, promptVars
<1>. QED
  BY <1>1, <1>2, <1>3, <1>4, <1>5, <1>6, <1>7, <1>8, <1>9, <1>10, <1>11, <1>12, <1>13,
     <1>14, <1>15
     DEF Next, Continues, Host, Answered

(* The two outcomes of a walk.                                             *)
WalkEnds(r, before) ==
  /\ refresh' = [refresh EXCEPT ![r] =
       [at |-> "flushing", left |-> <<>>, awaits |-> None, before |-> before,
        config |-> None]]
  /\ Enqueue([op |-> "refresh flush", by |-> r])
  /\ UNCHANGED finalVars

WalkStops(r, rest, before, c, p) ==
  /\ refresh' = [refresh EXCEPT ![r] =
       [at |-> "joined", left |-> rest, awaits |-> p, before |-> before, config |-> c]]
  /\ BeginFinalization(p, c)
  /\ UNCHANGED line

(* A walk passes the sessions without a prompt, and stops at a held prompt. *)
LEMMA WalkSteps ==
  ASSUME TypeOK, PromptHeld, NEW r \in Refreshes, NEW left \in Seq(SessionIds), NEW before,
         NEW c, Walk(r, left, before, c)
  PROVE  \/ /\ WalkEnds(r, before)
            /\ \A j \in DOMAIN left : promptState[left[j]] = None
         \/ \E p \in Prompts, rest \in Seq(SessionIds) :
              /\ WalkStops(r, rest, before, c, p)
              /\ promptState[Session[p]] = p
              /\ \A s \in SessionIds : Contains(left, s) =>
                   promptState[s] \in {None, p} \/ Contains(rest, s)
<1>. DEFINE k == WithPrompt(left)
<1>1. CASE k = 0
  <2>1. WalkEnds(r, before)
    BY <1>1 DEF Walk, WalkEnds
  <2>2. \A j \in DOMAIN left : promptState[left[j]] = None
    BY <1>1, WithPromptFinds
  <2>. QED
    BY <2>1, <2>2
<1>2. CASE k # 0
  <2>1. /\ k \in DOMAIN left /\ promptState[left[k]] # None
        /\ \A j \in 1..(k - 1) : promptState[left[j]] = None
    BY <1>2, WithPromptFinds
  <2>2. PICK p : p = promptState[left[k]]
    OBVIOUS
  <2>3. PICK rest : rest = SubSeq(left, k + 1, Len(left))
    OBVIOUS
  <2>4. WalkStops(r, rest, before, c, p)
    BY <1>2, <2>2, <2>3 DEF Walk, WalkStops
  <2>. HIDE DEF k
  <2>5. left[k] \in SessionIds
    BY <2>1
  <2>6. p \in Prompts /\ promptState[Session[p]] = p
    BY <2>1, <2>2, <2>5 DEF TypeOK, PromptHeld
  <2>7. /\ rest \in Seq(SessionIds) /\ Len(rest) = Len(left) - k
        /\ \A j \in 1..Len(rest) : rest[j] = left[k + j]
    BY <2>1, <2>3
  <2>8. ASSUME NEW s \in SessionIds, NEW j \in 1..Len(left), left[j] = s
        PROVE  promptState[s] \in {None, p} \/ Contains(rest, s)
    <3>1. CASE j <= k
      BY <3>1, <2>1, <2>2, <2>8
    <3>2. CASE j > k
      <4>1. j - k \in 1..Len(rest) /\ rest[j - k] = s
        BY <3>2, <2>1, <2>7, <2>8
      <4>. QED
        BY <4>1 DEF Contains
    <3>. QED
      BY <3>1, <3>2, <2>1
  <2>. QED
    BY <2>4, <2>6, <2>7, <2>8 DEF Contains
<1>. QED
  BY <1>1, <1>2

LEMMA RefreshRecords ==
  ASSUME RefreshTypes, NEW r \in Refreshes
  PROVE  /\ \A at \in RefreshStages, rest \in Seq(SessionIds), p \in Prompts \cup {None},
              before \in SUBSET Prompts, c \in Config \cup {None} :
                [refresh EXCEPT ![r] = [at |-> at, left |-> rest, awaits |-> p,
                                        before |-> before, config |-> c]]
                  \in [Refreshes -> RefreshState]
         /\ \A at \in RefreshStages :
              [refresh EXCEPT ![r].at = at] \in [Refreshes -> RefreshState]
         /\ [refresh EXCEPT ![r].at = "done", ![r].before = {}]
              \in [Refreshes -> RefreshState]
<1>1. refresh[r] \in RefreshState
  BY DEF RefreshTypes
<1>2. \A new \in RefreshState : [refresh EXCEPT ![r] = new] \in [Refreshes -> RefreshState]
  BY DEF RefreshTypes
<1>3. ASSUME NEW at \in RefreshStages
      PROVE  [refresh EXCEPT ![r].at = at] \in [Refreshes -> RefreshState]
  <2>1. [refresh[r] EXCEPT !.at = at] \in RefreshState
    BY <1>1 DEF RefreshState
  <2>2. [refresh EXCEPT ![r].at = at] = [refresh EXCEPT ![r] = [refresh[r] EXCEPT !.at = at]]
    BY DEF RefreshTypes
  <2>. QED
    BY <1>2, <2>1, <2>2
<1>4. [refresh EXCEPT ![r].at = "done", ![r].before = {}] \in [Refreshes -> RefreshState]
  <2>. DEFINE new == [refresh[r] EXCEPT !.at = "done", !.before = {}]
  <2>1. new \in RefreshState
    BY <1>1 DEF RefreshState, RefreshStages
  <2>2. [refresh EXCEPT ![r].at = "done", ![r].before = {}] = [refresh EXCEPT ![r] = new]
    BY DEF RefreshTypes
  <2>. QED
    BY <1>2, <2>1, <2>2
<1>. QED
  BY <1>2, <1>3, <1>4 DEF RefreshState

(* A refresh walks over sessions, with a configuration of its own.         *)
LEMMA Walking ==
  ASSUME TypeOK, Configured, NEW r \in Refreshes, RefreshConfig(r) \/ Joined(r)
  PROVE  \E left \in Seq(SessionIds), before \in SUBSET Prompts, c \in Config :
           Walk(r, left, before, c)
<1>1. CASE RefreshConfig(r)
  <2>. DEFINE i == Asks[r].instance
              before == {p \in Prompts : Instance[Session[p]] = i /\ promptState[Session[p]] = p}
  <2>1. i \in Instances /\ Asks[r].values \subseteq Nat
    BY SessionsAssumption
  <2>2. states[i] \in Seq(SessionIds) /\ file \in 0..MaxFile
    BY <2>1 DEF TypeOK
  <2>3. PICK value \in Nat : Walk(r, states[i], before, [settings |-> value, file |-> file])
    BY <1>1, <2>1 DEF RefreshConfig
  <2>4. [settings |-> value, file |-> file] \in Config /\ before \in SUBSET Prompts
    BY <2>2 DEF Config
  <2>. HIDE DEF i, before
  <2>. QED
    BY <2>2, <2>3, <2>4
<1>2. CASE Joined(r)
  <2>1. refresh[r] \in RefreshState
    BY Types DEF RefreshTypes
  <2>2. /\ refresh[r].left \in Seq(SessionIds) /\ refresh[r].before \in SUBSET Prompts
        /\ refresh[r].config \in Config
    BY <1>2, <2>1 DEF RefreshState, Configured, Joined
  <2>3. Walk(r, refresh[r].left, refresh[r].before, refresh[r].config)
    BY <1>2 DEF Joined
  <2>. QED
    BY <2>2, <2>3
<1>. QED
  BY <1>1, <1>2

LEMMA WalkTypes ==
  ASSUME TypeOK, PromptHeld, NEW r \in Refreshes, NEW left \in Seq(SessionIds),
         NEW before \in SUBSET Prompts, NEW c \in Config, Walk(r, left, before, c)
  PROVE  RefreshTypes'
<1>1. RefreshTypes
  BY Types
<1>2. CASE WalkEnds(r, before)
  <2>1. "flushing" \in RefreshStages /\ <<>> \in Seq(SessionIds)
    BY DEF RefreshStages
  <2>. QED
    BY <1>1, <1>2, <2>1, RefreshRecords DEF RefreshTypes, WalkEnds
<1>3. ASSUME NEW p \in Prompts, NEW rest \in Seq(SessionIds), WalkStops(r, rest, before, c, p)
      PROVE  RefreshTypes'
  <2>1. "joined" \in RefreshStages
    BY DEF RefreshStages
  <2>. QED
    BY <1>1, <1>3, <2>1, RefreshRecords DEF RefreshTypes, WalkStops
<1>. QED
  BY <1>2, <1>3, WalkSteps

LEMMA RefreshTypesKept ==
  ASSUME IInv, [Next]_vars
  PROVE  RefreshTypes'
<1>0. TypeOK /\ RefreshTypes /\ Configured /\ PromptHeld
  BY Types DEF IInv
<1>1. ASSUME NEW r \in Refreshes, RefreshConfig(r) \/ Joined(r) PROVE RefreshTypes'
  BY <1>0, <1>1, Walking, WalkTypes
<1>3. CASE RefreshFlushed \/ Reconfigured \/ RefreshClosed
  <2>1. PICK r \in Refreshes : r = Head(line).by
    BY <1>0, <1>3, HeadShape DEF RefreshFlushed, Reconfigured, RefreshClosed, First
  <2>2. \/ refresh' = [refresh EXCEPT ![r].at = "reconfiguring"]
        \/ refresh' = [refresh EXCEPT ![r].at = "closing"]
        \/ refresh' = [refresh EXCEPT ![r].at = "done", ![r].before = {}]
    BY <1>3, <2>1 DEF RefreshFlushed, Reconfigured, RefreshClosed
  <2>3. "reconfiguring" \in RefreshStages /\ "closing" \in RefreshStages
    BY DEF RefreshStages
  <2>4. /\ [refresh EXCEPT ![r].at = "reconfiguring"] \in [Refreshes -> RefreshState]
        /\ [refresh EXCEPT ![r].at = "closing"] \in [Refreshes -> RefreshState]
        /\ [refresh EXCEPT ![r].at = "done", ![r].before = {}] \in [Refreshes -> RefreshState]
    BY <1>0, <2>3, RefreshRecords
  <2>. QED
    BY <2>2, <2>4 DEF RefreshTypes
<1>4. CASE UNCHANGED refresh
  BY <1>0, <1>4 DEF RefreshTypes
<1>. QED
  BY <1>1, <1>3, <1>4
     DEF Next, Continues, Host, Answered, PromptContinues, FileEdited, SessionStart,
         SessionShutdown, BeforeAgentStart, PromptEvent, AgentSettled, ClaimAfterWait,
         Publish, ScoresDue, SessionFlushDue, SourceAnswers, StartAnswered, ChildAnswered,
         ScoreAnswered, SessionFlushed, SessionClosed, vars

LEMMA LineTypesKept ==
  ASSUME IInv, [Next]_vars
  PROVE  line' \in Seq(Transitions)
<1>. USE SessionsAssumption
<1>0. TypeOK /\ Configured /\ PromptHeld /\ line \in Seq(Transitions)
  BY DEF IInv, TypeOK
<1>1. ASSUME NEW t \in Transitions, Enqueue(t) PROVE line' \in Seq(Transitions)
  BY <1>0, <1>1, Appended DEF Enqueue
<1>2. CASE line # <<>> /\ Rest
  BY <1>0, <1>2, Popped DEF Rest
<1>3. ASSUME NEW t \in Transitions, line # <<>>, line' = Append(Tail(line), t)
      PROVE  line' \in Seq(Transitions)
  BY <1>0, <1>3, Replaced
<1>4. CASE UNCHANGED line
  BY <1>0, <1>4
<1>5. ASSUME NEW r \in Refreshes, RefreshConfig(r) \/ Joined(r)
      PROVE  line' \in Seq(Transitions)
  <2>1. PICK left \in Seq(SessionIds), before \in SUBSET Prompts, c \in Config :
          Walk(r, left, before, c)
    BY <1>0, <1>5, Walking
  <2>. QED
    BY <1>0, <1>1, <1>4, <2>1, WalkSteps, TransitionTypes DEF WalkEnds, WalkStops
<1>7. ASSUME NEW s \in SessionIds, SessionShutdown(s) \/ SessionFlushDue(s)
      PROVE  line' \in Seq(Transitions)
  BY <1>1, <1>4, <1>7, TransitionTypes DEF SessionShutdown, Forget, SessionFlushDue
<1>8. ASSUME NEW p \in Prompts, PromptEvent(p) PROVE line' \in Seq(Transitions)
  BY <1>0, <1>1, <1>4, <1>8, TransitionTypes, ConfigsResolve
     DEF PromptEvent, EventConfig, Records
<1>9. ASSUME NEW p \in Prompts, ScoresDue(p) PROVE line' \in Seq(Transitions)
  <2>1. finalConfig[p] \in Config
    BY <1>0, <1>9 DEF ScoresDue, Configured, TypeOK
  <2>. QED
    BY <1>1, <1>4, <1>9, <2>1, TransitionTypes DEF ScoresDue, Records
<1>10. ASSUME NEW p \in Prompts, SourceAnswers(p) PROVE line' \in Seq(Transitions)
  <2>1. config[p] \in Config
    BY <1>0, <1>10 DEF SourceAnswers, Configured, TypeOK
  <2>. QED
    BY <1>1, <1>4, <1>10, <2>1, TransitionTypes DEF SourceAnswers, Records
<1>11. CASE RefreshFlushed \/ Reconfigured \/ SessionFlushed
  <2>1. /\ First("refresh flush") \/ First("reconfigure") => Head(line).by \in Refreshes
        /\ First("session flush") => Head(line).by \in SessionIds
    BY <1>0, HeadShape DEF First
  <2>. QED
    BY <1>2, <1>3, <1>11, <2>1, TransitionTypes
       DEF RefreshFlushed, Reconfigured, SessionFlushed, First
<1>. QED
  BY <1>2, <1>4, <1>5, <1>7, <1>8, <1>9, <1>10, <1>11
     DEF Next, Continues, Host, Answered, PromptContinues, FileEdited, SessionStart,
         BeforeAgentStart, AgentSettled, ClaimAfterWait,
         Publish, StartAnswered, ChildAnswered,
         ScoreAnswered, RefreshClosed, SessionClosed, First, vars

LEMMA OwnersKept ==
  ASSUME IInv, [Next]_vars
  PROVE  OwnersOK'
<1>0. TypeOK /\ OwnersOK
  BY Types DEF IInv
<1>1. ASSUME NEW s \in SessionIds, GetOrCreate(s) \/ DeleteState(s) PROVE OwnersOK'
  BY <1>0, <1>1, Created, Deleted
<1>2. CASE UNCHANGED ownerVars
  BY <1>0, <1>2 DEF ownerVars, OwnersOK
<1>3. ASSUME NEW p \in Prompts, BeforeAgentStart(p) PROVE OwnersOK'
  <2>1. Session[p] \in SessionIds
    BY SessionsAssumption
  <2>. QED
    BY <1>1, <1>3, <2>1 DEF BeforeAgentStart
<1>4. CASE SessionFlushed
  <2>1. Head(line).by \in SessionIds
    BY <1>0, <1>4, HeadShape DEF SessionFlushed, First
  <2>. QED
    BY <1>1, <1>4, <2>1 DEF SessionFlushed
<1>. QED
  BY <1>1, <1>2, <1>3, <1>4
     DEF Next, Continues, Host, Answered, PromptContinues, FileEdited, SessionStart,
         SessionShutdown, Forget, PromptEvent, AgentSettled, RefreshConfig, Joined,
         ClaimAfterWait, Publish, ScoresDue, SessionFlushDue, SourceAnswers,
         StartAnswered, ChildAnswered, ScoreAnswered, RefreshFlushed, Reconfigured,
         RefreshClosed, SessionClosed, vars

(* A finalization begins for a prompt that a session holds.                *)
LEMMA BeginTypes ==
  ASSUME RecordTypes, NEW p \in Prompts, NEW c \in Config, BeginFinalization(p, c)
  PROVE  /\ final' \in [Prompts -> {"no", "children", "scoring", "over"}]
         /\ finalConfig' \in [Prompts -> Config \cup {None}]
         /\ score' \in [Prompts -> Config \cup {None}]
BY DEF BeginFinalization, RecordTypes, finalVars

LEMMA FinalizeTypes ==
  ASSUME TypeOK, NEW s \in SessionIds, NEW c \in Config, FinalizePrompt(s, c)
  PROVE  /\ final' \in [Prompts -> {"no", "children", "scoring", "over"}]
         /\ finalConfig' \in [Prompts -> Config \cup {None}]
         /\ score' \in [Prompts -> Config \cup {None}]
<1>1. RecordTypes /\ promptState[s] \in Prompts \cup {None}
  BY Types DEF TypeOK
<1>2. CASE promptState[s] = None
  BY <1>1, <1>2 DEF FinalizePrompt, finalVars, RecordTypes
<1>. QED
  BY <1>1, <1>2, BeginTypes DEF FinalizePrompt

LEMMA RecordTypesKept ==
  ASSUME IInv, [Next]_vars
  PROVE  RecordTypes'
<1>0. TypeOK /\ RecordTypes /\ Configured /\ PromptHeld
  BY Types DEF IInv
<1>. USE DEF RecordTypes
<1>1. CASE FileEdited
  BY <1>0, <1>1 DEF FileEdited, promptVars, eventVars, finalVars, clientVars
<1>2. ASSUME NEW s \in SessionIds, SessionStart(s) \/ SessionShutdown(s) PROVE RecordTypes'
  <2>1. Instance[s] \in Instances
    BY SessionsAssumption
  <2>2. PICK c \in Config : FinalizePrompt(s, c)
    BY <1>0, <1>2, <2>1, ConfigsResolve DEF SessionStart, SessionShutdown
  <2>. HIDE DEF RecordTypes
  <2>3. UNCHANGED <<promptVars, clientVars>>
    BY <1>2 DEF SessionStart, SessionShutdown
  <2>4. /\ final' \in [Prompts -> {"no", "children", "scoring", "over"}]
        /\ finalConfig' \in [Prompts -> Config \cup {None}]
        /\ score' \in [Prompts -> Config \cup {None}]
    BY <1>0, <2>2, FinalizeTypes
  <2>. QED
    BY <1>0, <2>3, <2>4 DEF RecordTypes, promptVars, eventVars, clientVars
<1>3. ASSUME NEW p \in Prompts, BeforeAgentStart(p) \/ ClaimAfterWait(p) PROVE RecordTypes'
  <2>1. Session[p] \in SessionIds /\ Instance[Session[p]] \in Instances
    BY SessionsAssumption
  <2>2. \/ UNCHANGED finalVars
        \/ \E c \in Config : FinalizePrompt(Session[p], c)
    <3>1. CASE BeforeAgentStart(p)
      BY <1>0, <3>1, <2>1, ConfigsResolve DEF BeforeAgentStart, Claim
    <3>2. CASE ClaimAfterWait(p)
      <4>1. config[p] \in Config
        BY <1>0, <3>2 DEF ClaimAfterWait, Configured, TypeOK
      <4>. QED
        BY <3>2, <4>1 DEF ClaimAfterWait, Claim
    <3>. QED
      BY <1>3, <3>1, <3>2
  <2>3. UNCHANGED <<eventVars, clientVars>>
    BY <1>3 DEF BeforeAgentStart, ClaimAfterWait
  <2>. HIDE DEF RecordTypes
  <2>4. /\ final' \in [Prompts -> {"no", "children", "scoring", "over"}]
        /\ finalConfig' \in [Prompts -> Config \cup {None}]
        /\ score' \in [Prompts -> Config \cup {None}]
    BY <1>0, <2>1, <2>2, FinalizeTypes DEF finalVars, RecordTypes
  <2>. QED
    BY <1>0, <2>3, <2>4 DEF RecordTypes, eventVars, clientVars
<1>4. ASSUME NEW p \in Prompts, PromptEvent(p) PROVE RecordTypes'
  BY <1>0, <1>4 DEF PromptEvent, finalVars, clientVars
<1>5. ASSUME NEW p \in Prompts, AgentSettled(p) PROVE RecordTypes'
  <2>1. Instance[Session[p]] \in Instances
    BY SessionsAssumption
  <2>. QED
    BY <1>0, <1>5, <2>1, ConfigsResolve, BeginTypes
       DEF AgentSettled, promptVars, eventVars, clientVars
<1>6. ASSUME NEW r \in Refreshes, RefreshConfig(r) \/ Joined(r) PROVE RecordTypes'
  <2>. HIDE DEF RecordTypes
  <2>1. PICK left \in Seq(SessionIds), before \in SUBSET Prompts, c \in Config :
          Walk(r, left, before, c)
    BY <1>0, <1>6, Walking
  <2>2. \/ UNCHANGED finalVars
        \/ \E p \in Prompts : BeginFinalization(p, c)
    BY <1>0, <2>1, WalkSteps DEF WalkEnds, WalkStops
  <2>3. UNCHANGED <<promptVars, clientVars>>
    BY <1>6 DEF RefreshConfig, Joined
  <2>4. /\ final' \in [Prompts -> {"no", "children", "scoring", "over"}]
        /\ finalConfig' \in [Prompts -> Config \cup {None}]
        /\ score' \in [Prompts -> Config \cup {None}]
    BY <1>0, <2>1, <2>2, BeginTypes DEF finalVars, RecordTypes
  <2>. QED
    BY <1>0, <2>3, <2>4 DEF RecordTypes, promptVars, eventVars, clientVars
<1>7. ASSUME NEW p \in Prompts, Publish(p) \/ SourceAnswers(p) PROVE RecordTypes'
  BY <1>0, <1>7 DEF Publish, SourceAnswers, eventVars, finalVars, clientVars
<1>8. ASSUME NEW p \in Prompts, ScoresDue(p) PROVE RecordTypes'
  BY <1>0, <1>8 DEF ScoresDue, EndPrompt, eventVars
<1>9. ASSUME NEW s \in SessionIds, SessionFlushDue(s) PROVE RecordTypes'
  BY <1>0, <1>9 DEF SessionFlushDue, promptVars, eventVars, finalVars, clientVars
<1>10. CASE StartAnswered \/ ChildAnswered \/ ScoreAnswered
  <2>1. Head(line).by \in Prompts /\ Head(line).config \in Config
    BY <1>0, <1>10, HeadShape DEF StartAnswered, ChildAnswered, ScoreAnswered, First, Records
  <2>. QED
    BY <1>0, <1>10, <2>1
       DEF StartAnswered, ChildAnswered, ScoreAnswered, EndPrompt, eventVars, finalVars
<1>11. CASE RefreshFlushed \/ Reconfigured \/ SessionFlushed
  BY <1>0, <1>11
     DEF RefreshFlushed, Reconfigured, SessionFlushed, promptVars, eventVars, finalVars,
         clientVars
<1>12. CASE RefreshClosed \/ SessionClosed
  BY <1>0, <1>12
     DEF RefreshClosed, SessionClosed, ShutdownClient, promptVars, eventVars, finalVars
<1>13. CASE UNCHANGED vars
  BY <1>0, <1>13 DEF vars, promptVars, eventVars, finalVars, clientVars
<1>. QED
  BY <1>1, <1>2, <1>3, <1>4, <1>5, <1>6, <1>7, <1>8, <1>9, <1>10, <1>11, <1>12, <1>13
     DEF Next, Continues, Host, Answered, PromptContinues

(* Every step keeps the types.                                             *)
LEMMA TypeStep ==
  ASSUME IInv, [Next]_vars
  PROVE  TypeOK'
<1>1. OwnersOK' /\ EventTypes' /\ RecordTypes' /\ RefreshTypes' /\ line' \in Seq(Transitions)
  BY OwnersKept, EventTypesKept, RecordTypesKept, RefreshTypesKept, LineTypesKept
<1>. QED
  BY <1>1 DEF TypeOK, OwnersOK, EventTypes, RecordTypes, RefreshTypes, RefreshState,
              RefreshStages

-----------------------------------------------------------------------------
(* What a step may do to a prompt and to a session                         *)

FinalKept(p) == final'[p] = final[p] /\ finalConfig'[p] = finalConfig[p]

FinalBegins(p) ==
  /\ final[p] = "no" /\ final'[p] = "children" /\ finalConfig'[p] \in Config
  /\ promptState[Session[p]] = p

ScoresAsked(p) ==
  /\ final[p] = "children" /\ final'[p] = "scoring" /\ finalConfig'[p] = finalConfig[p]
  /\ ChildrenClosed(p) /\ p \in open

PromptEnds(p) ==
  /\ final[p] \in {"children", "scoring"} /\ final'[p] = "over"
  /\ open' = open \ {p} /\ promptState'[Session[p]] # p
  /\ final[p] = "children" => ChildrenClosed(p) /\ UNCHANGED line
  /\ final[p] = "scoring" => ScoreAnswered /\ Head(line).by = p

FinalMove(p) == FinalKept(p) \/ FinalBegins(p) \/ ScoresAsked(p) \/ PromptEnds(p)

LEMMA BeginMoves ==
  ASSUME TypeOK, NEW q \in Prompts, NEW c \in Config, BeginFinalization(q, c),
         promptState[Session[q]] = q, NEW p \in Prompts
  PROVE  FinalMove(p)
<1>1. /\ final \in [Prompts -> {"no", "children", "scoring", "over"}]
      /\ finalConfig \in [Prompts -> Config \cup {None}]
  BY DEF TypeOK
<1>. QED
  BY <1>1 DEF BeginFinalization, finalVars, Finalizing, FinalMove, FinalKept, FinalBegins

LEMMA FinalizeMoves ==
  ASSUME TypeOK, PromptHeld, NEW s \in SessionIds, NEW c \in Config, FinalizePrompt(s, c),
         NEW p \in Prompts
  PROVE  FinalMove(p)
<1>1. CASE promptState[s] = None
  BY <1>1 DEF FinalizePrompt, finalVars, FinalMove, FinalKept
<1>2. CASE promptState[s] # None
  <2>1. promptState[s] \in Prompts /\ Session[promptState[s]] = s
    BY <1>2 DEF TypeOK, PromptHeld
  <2>. QED
    BY <1>2, <2>1, BeginMoves DEF FinalizePrompt
<1>. QED
  BY <1>1, <1>2

(* A finalization begins at the prompt of its session and goes its way.    *)
LEMMA FinalMoves ==
  ASSUME IInv, [Next]_vars, NEW p \in Prompts
  PROVE  FinalMove(p)
<1>0. TypeOK /\ Configured /\ PromptHeld /\ LineAwaited /\ cut = {}
  BY DEF IInv, NothingCut
<1>00. /\ final \in [Prompts -> {"no", "children", "scoring", "over"}]
       /\ finalConfig \in [Prompts -> Config \cup {None}]
       /\ promptState \in [SessionIds -> Prompts \cup {None}]
       /\ Session \in [Prompts -> SessionIds] /\ None \notin Prompts
  BY <1>0, SessionsAssumption DEF TypeOK
<1>1. ASSUME NEW s \in SessionIds, SessionStart(s) \/ SessionShutdown(s) PROVE FinalMove(p)
  <2>1. Instance[s] \in Instances
    BY SessionsAssumption
  <2>2. PICK c \in Config : FinalizePrompt(s, c)
    BY <1>0, <1>1, <2>1, ConfigsResolve DEF SessionStart, SessionShutdown
  <2>. QED
    BY <1>0, <2>2, FinalizeMoves
<1>2. ASSUME NEW q \in Prompts, BeforeAgentStart(q) \/ ClaimAfterWait(q) PROVE FinalMove(p)
  <2>1. Session[q] \in SessionIds /\ Instance[Session[q]] \in Instances
    BY SessionsAssumption
  <2>2. \/ UNCHANGED finalVars
        \/ \E c \in Config : FinalizePrompt(Session[q], c)
    <3>1. CASE BeforeAgentStart(q)
      BY <1>0, <3>1, <2>1, ConfigsResolve DEF BeforeAgentStart, Claim
    <3>2. CASE ClaimAfterWait(q)
      <4>1. config[q] \in Config
        BY <1>0, <3>2 DEF ClaimAfterWait, Configured, TypeOK
      <4>. QED
        BY <3>2, <4>1 DEF ClaimAfterWait, Claim
    <3>. QED
      BY <1>2, <3>1, <3>2
  <2>. QED
    BY <1>0, <2>1, <2>2, FinalizeMoves DEF finalVars, FinalMove, FinalKept
<1>3. ASSUME NEW q \in Prompts, AgentSettled(q) PROVE FinalMove(p)
  <2>1. Instance[Session[q]] \in Instances
    BY SessionsAssumption
  <2>. QED
    BY <1>0, <1>3, <2>1, ConfigsResolve, BeginMoves DEF AgentSettled
<1>4. ASSUME NEW r \in Refreshes, RefreshConfig(r) \/ Joined(r) PROVE FinalMove(p)
  <2>1. PICK left \in Seq(SessionIds), before \in SUBSET Prompts, c \in Config :
          Walk(r, left, before, c)
    BY <1>0, <1>4, Walking
  <2>2. \/ UNCHANGED finalVars
        \/ \E q \in Prompts : BeginFinalization(q, c) /\ promptState[Session[q]] = q
    <3>1. \/ WalkEnds(r, before)
          \/ \E q \in Prompts, rest \in Seq(SessionIds) :
               WalkStops(r, rest, before, c, q) /\ promptState[Session[q]] = q
      BY <1>0, <2>1, WalkSteps
    <3>. QED
      BY <3>1 DEF WalkEnds, WalkStops
  <2>. QED
    BY <1>0, <2>2, BeginMoves DEF finalVars, FinalMove, FinalKept
<1>5. ASSUME NEW q \in Prompts, ScoresDue(q) PROVE FinalMove(p)
  <2>1. CASE q # p
    BY <1>00, <1>5, <2>1 DEF ScoresDue, EndPrompt, FinalMove, FinalKept
  <2>2. CASE q = p
    BY <1>0, <1>00, <1>5, <2>2
       DEF ScoresDue, EndPrompt, FinalMove, ScoresAsked, PromptEnds
  <2>. QED
    BY <2>1, <2>2
<1>6. CASE ScoreAnswered
  <2>1. PICK q \in Prompts : q = Head(line).by
    BY <1>0, <1>6, HeadShape DEF ScoreAnswered, First, Records
  <2>2. final[q] = "scoring"
    BY <1>0, <1>6, <2>1, HeadShape DEF ScoreAnswered, First, LineAwaited, Awaited
  <2>3. EndPrompt(q)
    BY <1>6, <2>1 DEF ScoreAnswered
  <2>4. CASE q # p
    BY <1>00, <2>3, <2>4 DEF EndPrompt, FinalMove, FinalKept
  <2>5. CASE q = p
    BY <1>00, <1>6, <2>1, <2>2, <2>3, <2>5 DEF EndPrompt, FinalMove, PromptEnds
  <2>. QED
    BY <2>4, <2>5
<1>7. CASE UNCHANGED finalVars
  BY <1>7 DEF finalVars, FinalMove, FinalKept
<1>. QED
  BY <1>1, <1>2, <1>3, <1>4, <1>5, <1>6, <1>7
     DEF Next, Continues, Host, Answered, PromptContinues, FileEdited, PromptEvent, Publish,
         SessionFlushDue, SourceAnswers, StartAnswered, ChildAnswered, RefreshFlushed,
         Reconfigured, RefreshClosed, SessionFlushed, SessionClosed, vars
StartKept(p) == start'[p] = start[p] /\ config'[p] = config[p]

(* before_agent_start; the prompt is published only by a start.            *)
StartBegins(p) ==
  /\ start[p] = "none" /\ start'[p] # "none" /\ config'[p] \in Config
  /\ start'[p] \in {"waiting", "replacing"} =>
       Session[p] \in leases' /\ shutdown[Session[p]] = "no" /\ UNCHANGED shutdown
  /\ start'[p] # "runtime"

StartGoesOn(p) ==
  /\ config'[p] = config[p]
  /\ \/ start[p] = "waiting" /\ start'[p] \in {"replacing", "source"}
     \/ start[p] = "replacing" /\ start'[p] = "source"
     \/ start[p] = "source" /\ start'[p] = "runtime"
        /\ Enqueue([op |-> "start", by |-> p, config |-> config[p]])
     \/ start[p] = "source" /\ start'[p] = "over"
     \/ start[p] = "runtime" /\ start'[p] = "over"
        /\ StartAnswered /\ Head(line).by = p

StartMove(p) == StartKept(p) \/ StartBegins(p) \/ StartGoesOn(p)

(* A start goes its way, and keeps the configuration that it began with.   *)
LEMMA StartMoves ==
  ASSUME IInv, [Next]_vars, NEW p \in Prompts
  PROVE  StartMove(p)
<1>0. TypeOK /\ LineAwaited
  BY DEF IInv
<1>1. /\ start \in [Prompts ->
           {"none", "waiting", "replacing", "source", "runtime", "over"}]
      /\ config \in [Prompts -> Config \cup {None}]
      /\ Session \in [Prompts -> SessionIds]
      /\ \A q \in Prompts : Resolve(Instance[Session[q]]) \in Config
  BY <1>0, SessionsAssumption, ConfigsResolve DEF TypeOK
<1>2. ASSUME NEW q \in Prompts, BeforeAgentStart(q) PROVE StartMove(p)
  BY <1>1, <1>2 DEF BeforeAgentStart, GetOrCreate, Claim, StartMove, StartKept, StartBegins
<1>3. ASSUME NEW q \in Prompts, ClaimAfterWait(q) \/ Publish(q) PROVE StartMove(p)
  BY <1>1, <1>3 DEF ClaimAfterWait, Claim, Publish, StartMove, StartKept, StartGoesOn
<1>4. ASSUME NEW q \in Prompts, SourceAnswers(q) PROVE StartMove(p)
  BY <1>1, <1>4 DEF SourceAnswers, EndStart, StartMove, StartKept, StartGoesOn
<1>5. CASE StartAnswered
  <2>1. PICK q \in Prompts : q = Head(line).by
    BY <1>0, <1>5, HeadShape DEF StartAnswered, First, Records
  <2>2. start[q] = "runtime"
    BY <1>0, <1>5, <2>1, HeadShape DEF StartAnswered, First, LineAwaited, Awaited
  <2>. QED
    BY <1>1, <1>5, <2>1, <2>2
       DEF StartAnswered, EndStart, StartMove, StartKept, StartGoesOn
<1>6. CASE UNCHANGED <<start, config>>
  BY <1>6 DEF StartMove, StartKept
<1>. QED
  BY <1>2, <1>3, <1>4, <1>5, <1>6
     DEF Next, Continues, Host, Answered, PromptContinues, FileEdited, SessionStart,
         SessionShutdown, PromptEvent, AgentSettled, RefreshConfig, Joined, ScoresDue,
         SessionFlushDue, ChildAnswered, ScoreAnswered, RefreshFlushed, Reconfigured,
         RefreshClosed, SessionFlushed, SessionClosed, promptVars, vars

(* The prompt of a session is released at its end, and replaced never.     *)
PromptMove(s) ==
  \/ promptState'[s] = promptState[s]
  \/ promptState'[s] = None /\ final'[promptState[s]] = "over"
  \/ /\ promptState[s] = None /\ promptState'[s] \in Prompts
     /\ Session[promptState'[s]] = s
     /\ start[promptState'[s]] \in {"none", "waiting", "replacing"}
     /\ start'[promptState'[s]] = "source"
     /\ s \in leases' /\ shutdown[s] = "no" /\ UNCHANGED shutdown
     /\ UNCHANGED finalVars

LEMMA PromptMoves ==
  ASSUME IInv, [Next]_vars, NEW s \in SessionIds
  PROVE  PromptMove(s)
<1>0. TypeOK /\ LineAwaited /\ Unpublished /\ PromptHeld
  BY DEF IInv
<1>1. /\ promptState \in [SessionIds -> Prompts \cup {None}]
      /\ final \in [Prompts -> {"no", "children", "scoring", "over"}]
      /\ start \in [Prompts ->
           {"none", "waiting", "replacing", "source", "runtime", "over"}]
      /\ Session \in [Prompts -> SessionIds] /\ None \notin Prompts
  BY <1>0, SessionsAssumption DEF TypeOK
<1>2. ASSUME NEW p \in Prompts, BeforeAgentStart(p) PROVE PromptMove(s)
  BY <1>1, <1>2
     DEF BeforeAgentStart, GetOrCreate, Claim, FinalizePrompt, PromptMove
<1>3. ASSUME NEW p \in Prompts, ClaimAfterWait(p) \/ Publish(p) PROVE PromptMove(s)
  BY <1>0, <1>1, <1>3
     DEF ClaimAfterWait, Claim, Publish, FinalizePrompt, PromptMove, ownerVars, Unpublished
<1>4. ASSUME NEW p \in Prompts, EndPrompt(p) PROVE PromptMove(s)
  BY <1>1, <1>4 DEF EndPrompt, PromptMove
<1>5. CASE ScoreAnswered
  BY <1>0, <1>4, <1>5, HeadShape DEF ScoreAnswered, First, Records
<1>6. ASSUME NEW p \in Prompts, ScoresDue(p) PROVE PromptMove(s)
  BY <1>4, <1>6 DEF ScoresDue, PromptMove
<1>7. CASE UNCHANGED promptState
  BY <1>7 DEF PromptMove
<1>. QED
  BY <1>2, <1>3, <1>5, <1>6, <1>7
     DEF Next, Continues, Host, Answered, PromptContinues, FileEdited, SessionStart,
         SessionShutdown, PromptEvent, AgentSettled, RefreshConfig, Joined,
         SessionFlushDue, SourceAnswers, StartAnswered, ChildAnswered, RefreshFlushed,
         Reconfigured, RefreshClosed, SessionFlushed, SessionClosed, promptVars, vars

(* A session loses its lease when no prompt is left in it, and nobody can  *)
(* start one in it afterwards.                                             *)
SessionMove(s) ==
  /\ s \in leases /\ s \notin leases' =>
       /\ promptState[s] = None /\ UNCHANGED promptVars
       /\ \A p \in Prompts : Session[p] = s => start[p] \notin {"waiting", "replacing"}
  /\ \/ shutdown'[s] = shutdown[s]
     \/ shutdown[s] = "no" /\ UNCHANGED promptVars
        /\ (promptState[s] # None => shutdown'[s] = "finalizing")
        /\ \A p \in Prompts : Session[p] = s => start[p] \notin {"waiting", "replacing"}
     \/ shutdown[s] = "finalizing" /\ promptState[s] = None /\ UNCHANGED promptVars
     \/ shutdown[s] = "flushing" /\ SessionFlushed /\ Head(line).by = s
        /\ UNCHANGED promptVars
     \/ shutdown[s] = "closing" /\ SessionClosed /\ Head(line).by = s
        /\ UNCHANGED promptVars

LEMMA SessionMoves ==
  ASSUME IInv, [Next]_vars, NEW s \in SessionIds
  PROVE  SessionMove(s)
<1>0. TypeOK /\ LineAwaited /\ Unpublished /\ PromptHeld
  BY DEF IInv
<1>1. shutdown \in [SessionIds -> {"no", "finalizing", "flushing", "closing", "done"}]
  BY <1>0 DEF TypeOK
<1>2. ASSUME NEW t \in SessionIds, SessionShutdown(t) PROVE SessionMove(s)
  BY <1>1, <1>2 DEF SessionShutdown, Forget, DeleteState, SessionMove, ownerVars
<1>3. ASSUME NEW t \in SessionIds, SessionFlushDue(t) PROVE SessionMove(s)
  BY <1>1, <1>3 DEF SessionFlushDue, SessionMove, ownerVars
<1>4. CASE SessionFlushed \/ SessionClosed
  <2>1. PICK t \in SessionIds : t = Head(line).by
    BY <1>0, <1>4, HeadShape DEF SessionFlushed, SessionClosed, First
  <2>2. /\ SessionFlushed => shutdown[t] = "flushing"
        /\ SessionClosed => shutdown[t] = "closing"
    BY <1>0, <2>1, HeadShape DEF SessionFlushed, SessionClosed, First, LineAwaited, Awaited
  <2>3. \A p \in Prompts :
          shutdown[t] = "flushing" /\ Session[p] = t => start[p] \notin {"waiting", "replacing"}
    BY <1>0 DEF Unpublished
  <2>4. shutdown[t] = "flushing" => promptState[t] = None
    BY <1>0 DEF PromptHeld
  <2>. QED
    BY <1>1, <1>4, <2>1, <2>2, <2>3, <2>4
       DEF SessionFlushed, SessionClosed, DeleteState, SessionMove, ownerVars
<1>5. CASE shutdown' = shutdown /\ leases \subseteq leases'
  BY <1>5 DEF SessionMove
<1>. QED
  BY <1>2, <1>3, <1>4, <1>5
     DEF Next, Continues, Host, Answered, PromptContinues, FileEdited, SessionStart,
         GetOrCreate, BeforeAgentStart, ClaimAfterWait, Publish, ScoresDue, PromptEvent,
         AgentSettled, RefreshConfig, Joined, SourceAnswers, StartAnswered, ChildAnswered,
         ScoreAnswered, RefreshFlushed, Reconfigured, RefreshClosed, ownerVars, vars

(* What a refresh has found is over, or it is held by a session on the way. *)
Ahead(left, before) == \A p \in before :
  final[p] = "over" \/ (promptState[Session[p]] = p /\ Contains(left, Session[p]))

RefreshStopsAt(r) ==
  /\ refresh'[r].at = "joined"
  /\ refresh'[r].awaits \in Prompts /\ refresh'[r].config \in Config
  /\ UNCHANGED promptState
  /\ \A p \in refresh'[r].before :
       \/ final[p] = "over"
       \/ p = refresh'[r].awaits
       \/ promptState[Session[p]] = p /\ Contains(refresh'[r].left, Session[p])

RefreshWalked(r) ==
  /\ refresh[r].at \in {"idle", "joined"} /\ refresh'[r].at = "flushing"
  /\ \A p \in refresh'[r].before : final[p] = "over"

RefreshWaits(r) ==
  /\ refresh'[r].before = refresh[r].before
  /\ \/ refresh[r].at = "flushing" /\ refresh'[r].at = "reconfiguring"
        /\ RefreshFlushed /\ Head(line).by = r
     \/ refresh[r].at = "reconfiguring" /\ refresh'[r].at = "closing"
        /\ Reconfigured /\ Head(line).by = r

RefreshReturns(r) ==
  /\ refresh'[r].at = "done"
  /\ \/ refresh[r].at = "reconfiguring" /\ Reconfigured /\ Head(line).by = r
     \/ refresh[r].at = "closing" /\ RefreshClosed /\ Head(line).by = r

RefreshMove(r) ==
  \/ refresh'[r] = refresh[r]
  \/ refresh[r].at \in {"idle", "joined"} /\ RefreshStopsAt(r)
  \/ RefreshWalked(r)
  \/ RefreshWaits(r)
  \/ RefreshReturns(r)

LEMMA WalkMoves ==
  ASSUME TypeOK, PromptHeld, UNCHANGED promptState, NEW q \in Refreshes,
         refresh[q].at \in {"idle", "joined"},
         NEW left \in Seq(SessionIds), NEW before \in SUBSET Prompts, NEW c \in Config,
         Walk(q, left, before, c), Ahead(left, before), NEW r \in Refreshes
  PROVE  RefreshMove(r)
<1>1. refresh \in [Refreshes -> RefreshState]
  BY Types DEF RefreshTypes
<1>2. ASSUME NEW p \in before PROVE Session[p] \in SessionIds /\ p \in Prompts
  BY SessionsAssumption
<1>3. CASE WalkEnds(q, before) /\ \A j \in DOMAIN left : promptState[left[j]] = None
  <2>1. \A p \in before : final[p] = "over"
    BY <1>2, <1>3, SessionsAssumption DEF Ahead, Contains
  <2>. QED
    BY <1>1, <1>3, <2>1 DEF WalkEnds, RefreshMove, RefreshWalked
<1>4. ASSUME NEW p \in Prompts, NEW rest \in Seq(SessionIds), WalkStops(q, rest, before, c, p),
             \A s \in SessionIds : Contains(left, s) =>
               promptState[s] \in {None, p} \/ Contains(rest, s)
      PROVE  RefreshMove(r)
  <2>1. CASE r # q
    BY <1>1, <1>4, <2>1 DEF WalkStops, RefreshMove
  <2>2. CASE r = q
    <3>1. /\ refresh'[r].at = "joined" /\ refresh'[r].awaits = p /\ refresh'[r].config = c
          /\ refresh'[r].left = rest /\ refresh'[r].before = before
      BY <1>1, <1>4, <2>2 DEF WalkStops
    <3>2. \A u \in before :
            \/ final[u] = "over" \/ u = p
            \/ promptState[Session[u]] = u /\ Contains(rest, Session[u])
      BY <1>2, <1>4, SessionsAssumption DEF Ahead
    <3>. QED
      BY <3>1, <3>2, <2>2 DEF RefreshMove, RefreshStopsAt
  <2>. QED
    BY <2>1, <2>2
<1>. QED
  BY <1>3, <1>4, WalkSteps

(* A refresh walks on, waits for what it has asked for, or returns.        *)
LEMMA RefreshMoves ==
  ASSUME IInv, [Next]_vars, NEW r \in Refreshes
  PROVE  RefreshMove(r)
<1>0. TypeOK /\ Configured /\ PromptHeld /\ LineAwaited /\ RefreshWalks
  BY DEF IInv
<1>1. refresh \in [Refreshes -> RefreshState]
  BY <1>0, Types DEF RefreshTypes
<1>2. ASSUME NEW q \in Refreshes, RefreshConfig(q) PROVE RefreshMove(r)
  <2>. DEFINE i == Asks[q].instance
              before == {p \in Prompts : Instance[Session[p]] = i /\ promptState[Session[p]] = p}
  <2>1. i \in Instances /\ Asks[q].values \subseteq Nat
    BY SessionsAssumption
  <2>2. states[i] \in Seq(SessionIds) /\ file \in 0..MaxFile
    BY <1>0, <2>1 DEF TypeOK
  <2>3. PICK value \in Nat : Walk(q, states[i], before, [settings |-> value, file |-> file])
    BY <1>2, <2>1 DEF RefreshConfig
  <2>4. [settings |-> value, file |-> file] \in Config /\ before \in SUBSET Prompts
    BY <2>2 DEF Config
  <2>5. Ahead(states[i], before)
    <3>1. ASSUME NEW p \in before PROVE Contains(states[i], Session[p])
      <4>1. Session[p] \in SessionIds /\ Instance[Session[p]] = i
        BY SessionsAssumption
      <4>2. Session[p] \in leases
        BY <1>0, <4>1, SessionsAssumption DEF PromptHeld
      <4>. QED
        BY <1>0, <4>1, <4>2 DEF TypeOK
    <3>. QED
      BY <3>1 DEF Ahead
  <2>6. refresh[q].at = "idle" /\ UNCHANGED promptState
    BY <1>2 DEF RefreshConfig, promptVars
  <2>. HIDE DEF i, before
  <2>. QED
    BY <1>0, <2>2, <2>3, <2>4, <2>5, <2>6, WalkMoves
<1>3. ASSUME NEW q \in Refreshes, Joined(q) PROVE RefreshMove(r)
  <2>1. refresh[q].at = "joined" /\ final[refresh[q].awaits] = "over" /\ UNCHANGED promptState
    BY <1>3 DEF Joined, promptVars
  <2>2. /\ refresh[q].left \in Seq(SessionIds) /\ refresh[q].before \in SUBSET Prompts
        /\ refresh[q].config \in Config
    BY <1>0, <1>1, <2>1 DEF RefreshState, Configured
  <2>3. Ahead(refresh[q].left, refresh[q].before)
    BY <1>0, <2>1 DEF RefreshWalks, Ahead
  <2>4. Walk(q, refresh[q].left, refresh[q].before, refresh[q].config)
    BY <1>3 DEF Joined
  <2>. QED
    BY <1>0, <2>1, <2>2, <2>3, <2>4, WalkMoves
<1>4. CASE RefreshFlushed \/ Reconfigured \/ RefreshClosed
  <2>1. PICK q \in Refreshes : q = Head(line).by
    BY <1>0, <1>4, HeadShape DEF RefreshFlushed, Reconfigured, RefreshClosed, First
  <2>2. /\ RefreshFlushed => refresh[q].at = "flushing"
        /\ Reconfigured => refresh[q].at = "reconfiguring"
        /\ RefreshClosed => refresh[q].at = "closing"
    BY <1>0, <2>1, HeadShape
       DEF RefreshFlushed, Reconfigured, RefreshClosed, First, LineAwaited, Awaited
  <2>3. CASE RefreshFlushed
    <3>1. refresh' = [refresh EXCEPT ![q].at = "reconfiguring"]
      BY <2>1, <2>3 DEF RefreshFlushed
    <3>. QED
      BY <1>1, <2>1, <2>2, <2>3, <3>1 DEF RefreshMove, RefreshWaits, RefreshState
  <2>4. CASE Reconfigured
    <3>1. \/ refresh' = [refresh EXCEPT ![q].at = "closing"]
          \/ refresh' = [refresh EXCEPT ![q].at = "done", ![q].before = {}]
      BY <2>1, <2>4 DEF Reconfigured
    <3>2. CASE r # q
      BY <1>1, <3>1, <3>2 DEF RefreshMove
    <3>3. CASE r = q /\ refresh' = [refresh EXCEPT ![q].at = "closing"]
      <4>1. refresh'[r].at = "closing" /\ refresh'[r].before = refresh[r].before
        BY <1>1, <3>3 DEF RefreshState
      <4>. QED
        BY <2>1, <2>2, <2>4, <3>1, <3>3, <4>1 DEF RefreshMove, RefreshWaits
    <3>4. CASE r = q /\ refresh' = [refresh EXCEPT ![q].at = "done", ![q].before = {}]
      <4>1. refresh'[r].at = "done"
        BY <1>1, <3>4 DEF RefreshState
      <4>. QED
        BY <2>1, <2>2, <2>4, <3>1, <3>4, <4>1 DEF RefreshMove, RefreshReturns
    <3>. QED
      BY <3>1, <3>2, <3>3, <3>4
  <2>5. CASE RefreshClosed
    <3>1. refresh' = [refresh EXCEPT ![q].at = "done", ![q].before = {}]
      BY <2>1, <2>5 DEF RefreshClosed
    <3>. QED
      BY <1>1, <2>1, <2>2, <2>5, <3>1 DEF RefreshMove, RefreshReturns, RefreshState
  <2>. QED
    BY <1>4, <2>3, <2>4, <2>5
<1>5. CASE UNCHANGED refresh
  BY <1>5 DEF RefreshMove
<1>. QED
  BY <1>2, <1>3, <1>4, <1>5
     DEF Next, Continues, Host, Answered, PromptContinues, FileEdited, SessionStart,
         SessionShutdown, BeforeAgentStart, PromptEvent, AgentSettled, ClaimAfterWait,
         Publish, ScoresDue, SessionFlushDue, SourceAnswers, StartAnswered, ChildAnswered,
         ScoreAnswered, SessionFlushed, SessionClosed, vars

-----------------------------------------------------------------------------
(* Prompts and refreshes                                                   *)

LEMMA ConfiguredStep == ASSUME IInv, [Next]_vars PROVE Configured'
<1>0. TypeOK /\ Configured /\ TypeOK' /\ None \notin Prompts \cup Config
  BY TypeStep, SessionsAssumption DEF IInv
<1>1. ASSUME NEW p \in Prompts, start'[p] # "none" PROVE config'[p] # None
  <2>1. StartMove(p)
    BY StartMoves
  <2>2. CASE StartKept(p)
    BY <1>0, <1>1, <2>2 DEF StartKept, Configured
  <2>3. CASE StartBegins(p)
    BY <1>0, <1>1, <2>3 DEF StartBegins, Configured
  <2>4. CASE StartGoesOn(p)
    BY <1>0, <1>1, <2>4 DEF StartGoesOn, Configured
  <2>. QED
    BY <2>1, <2>2, <2>3, <2>4 DEF StartMove
<1>2. ASSUME NEW p \in Prompts, final'[p] \in {"children", "scoring"}
      PROVE  finalConfig'[p] # None
  BY <1>0, <1>2, FinalMoves
     DEF FinalMove, FinalKept, FinalBegins, ScoresAsked, PromptEnds, Configured
<1>3. ASSUME NEW r \in Refreshes, refresh'[r].at = "joined"
      PROVE  refresh'[r].awaits # None /\ refresh'[r].config # None
  BY <1>0, <1>3, RefreshMoves
     DEF RefreshMove, RefreshStopsAt, RefreshWalked, RefreshWaits, RefreshReturns, Configured
<1>. QED
  BY <1>1, <1>2, <1>3 DEF Configured

LEMMA RefreshWalksStep == ASSUME IInv, [Next]_vars PROVE RefreshWalks' /\ RefreshSettles'
<1>0. TypeOK /\ RefreshWalks /\ RefreshSettles /\ refresh \in [Refreshes -> RefreshState]
  BY Types DEF IInv, RefreshTypes
<1>1. \A p \in Prompts : final[p] = "over" => final'[p] = "over"
  BY FinalMoves DEF FinalMove, FinalKept, FinalBegins, ScoresAsked, PromptEnds
<1>2. ASSUME NEW p \in Prompts, promptState[Session[p]] = p
      PROVE  promptState'[Session[p]] = p \/ final'[p] = "over"
  <2>1. Session[p] \in SessionIds /\ None \notin Prompts
    BY SessionsAssumption
  <2>. QED
    BY <1>2, <2>1, PromptMoves DEF PromptMove
<1>3. ASSUME NEW r \in Refreshes, refresh'[r].at = "joined", NEW p \in refresh'[r].before
      PROVE  \/ final'[p] = "over"
             \/ p = refresh'[r].awaits
             \/ promptState'[Session[p]] = p /\ Contains(refresh'[r].left, Session[p])
  <2>1. p \in Prompts
    BY TypeStep DEF TypeOK
  <2>2. \/ final[p] = "over"
        \/ p = refresh'[r].awaits
        \/ promptState[Session[p]] = p /\ Contains(refresh'[r].left, Session[p])
    <3>1. CASE refresh'[r] = refresh[r]
      BY <1>0, <1>3, <3>1 DEF RefreshWalks
    <3>2. CASE RefreshStopsAt(r)
      BY <1>3, <3>2 DEF RefreshStopsAt
    <3>. QED
      BY <1>3, <3>1, <3>2, RefreshMoves
         DEF RefreshMove, RefreshWalked, RefreshWaits, RefreshReturns
  <2>. QED
    BY <1>1, <1>2, <2>1, <2>2
<1>4. ASSUME NEW r \in Refreshes, NEW p \in refresh'[r].before,
             refresh'[r].at \in {"flushing", "reconfiguring", "closing"}
      PROVE  final'[p] = "over"
  <2>1. p \in Prompts
    BY TypeStep DEF TypeOK
  <2>2. final[p] = "over"
    BY <1>0, <1>4, RefreshMoves
       DEF RefreshMove, RefreshStopsAt, RefreshWalked, RefreshWaits, RefreshReturns,
           RefreshSettles
  <2>. QED
    BY <1>1, <2>1, <2>2
<1>. QED
  BY <1>3, <1>4 DEF RefreshWalks, RefreshSettles

(* A prompt is published with its session leased, and over when released.  *)
LEMMA PromptHeldStep == ASSUME IInv, [Next]_vars PROVE PromptHeld'
<1>0. /\ TypeOK /\ TypeOK' /\ PromptHeld /\ Unpublished
      /\ Session \in [Prompts -> SessionIds] /\ None \notin Prompts
  BY TypeStep, SessionsAssumption DEF IInv
<1>. SUFFICES ASSUME NEW s \in SessionIds, promptState'[s] # None
              PROVE  /\ Session[promptState'[s]] = s
                     /\ start'[promptState'[s]] \in {"source", "runtime", "over"}
                     /\ final'[promptState'[s]] # "over"
                     /\ s \in leases'
                     /\ shutdown'[s] \in {"no", "finalizing"}
  BY DEF PromptHeld
<1>1. PICK p \in Prompts : p = promptState'[s]
  BY <1>0 DEF TypeOK
<1>2. CASE promptState[s] = p
  <2>1. /\ Session[p] = s /\ start[p] \in {"source", "runtime", "over"}
        /\ final[p] # "over" /\ s \in leases /\ shutdown[s] \in {"no", "finalizing"}
    BY <1>0, <1>2 DEF PromptHeld
  <2>2. start'[p] \in {"source", "runtime", "over"}
    BY <2>1, StartMoves DEF StartMove, StartKept, StartBegins, StartGoesOn
  <2>3. final'[p] # "over"
    BY <1>1, <2>1, FinalMoves DEF FinalMove, FinalKept, FinalBegins, ScoresAsked, PromptEnds
  <2>4. s \in leases' /\ shutdown'[s] \in {"no", "finalizing"}
    BY <1>0, <1>2, <2>1, SessionMoves DEF SessionMove
  <2>. QED
    BY <1>1, <2>1, <2>2, <2>3, <2>4
<1>3. CASE promptState[s] # p
  <2>1. /\ Session[p] = s /\ start[p] \in {"none", "waiting", "replacing"}
        /\ start'[p] = "source" /\ s \in leases' /\ shutdown'[s] = "no"
        /\ final'[p] = final[p]
    BY <1>0, <1>1, <1>3, PromptMoves DEF PromptMove, finalVars
  <2>2. final[p] = "no"
    BY <1>0, <2>1 DEF Unpublished
  <2>. QED
    BY <1>1, <2>1, <2>2
<1>. QED
  BY <1>2, <1>3

(* Only answers change what is recorded.                                   *)
LEMMA RecordMoves ==
  ASSUME IInv, [Next]_vars
  PROVE  /\ UNCHANGED child \/ ChildAnswered
         /\ UNCHANGED score \/ ScoreAnswered
<1>1. UNCHANGED child \/ ChildAnswered
  BY DEF Next, Continues, Host, Answered, PromptContinues, FileEdited, SessionStart,
         SessionShutdown, BeforeAgentStart, PromptEvent, AgentSettled, RefreshConfig, Joined,
         ClaimAfterWait, Publish, ScoresDue, SessionFlushDue, SourceAnswers, StartAnswered,
         ScoreAnswered, RefreshFlushed, Reconfigured, RefreshClosed,
         SessionFlushed, SessionClosed, promptVars, eventVars, vars
<1>2. \A p, c : BeginFinalization(p, c) => UNCHANGED score
  BY DEF BeginFinalization, finalVars
<1>3. \A s, c : FinalizePrompt(s, c) => UNCHANGED score
  BY <1>2 DEF FinalizePrompt, finalVars
<1>4. \A r, left, before, c : Walk(r, left, before, c) => UNCHANGED score
  BY <1>2 DEF Walk, finalVars
<1>5. ASSUME NEW p \in Prompts, BeforeAgentStart(p) \/ ClaimAfterWait(p) PROVE UNCHANGED score
  BY <1>3, <1>5 DEF BeforeAgentStart, ClaimAfterWait, Claim, finalVars
<1>6. UNCHANGED score \/ ScoreAnswered
  BY <1>2, <1>3, <1>4, <1>5
     DEF Next, Continues, Host, Answered, PromptContinues, FileEdited, SessionStart,
         SessionShutdown, PromptEvent, AgentSettled, RefreshConfig, Joined,
         Publish, ScoresDue, SessionFlushDue, SourceAnswers, StartAnswered,
         ChildAnswered, RefreshFlushed, Reconfigured, RefreshClosed,
         SessionFlushed, SessionClosed, finalVars, vars
<1>. QED
  BY <1>1, <1>6

LEMMA UnpublishedStep == ASSUME IInv, [Next]_vars PROVE Unpublished'
<1>0. /\ TypeOK /\ TypeOK' /\ PromptHeld /\ Unpublished /\ OpenHeld /\ LineAwaited
      /\ Session \in [Prompts -> SessionIds] /\ None \notin Prompts
  BY TypeStep, SessionsAssumption DEF IInv
<1>1. ASSUME NEW p \in Prompts, start'[p] \in {"none", "waiting", "replacing"}
      PROVE  /\ start[p] \in {"none", "waiting", "replacing"}
             /\ promptState[Session[p]] # p
  <2>1. start[p] \in {"none", "waiting", "replacing"}
    BY <1>1, StartMoves DEF StartMove, StartKept, StartBegins, StartGoesOn
  <2>. QED
    BY <1>0, <2>1 DEF PromptHeld
<1>2. ASSUME NEW p \in Prompts, start'[p] \in {"none", "waiting", "replacing"}
      PROVE  final'[p] = "no"
  <2>1. final[p] = "no"
    BY <1>0, <1>1, <1>2 DEF Unpublished
  <2>. QED
    BY <1>1, <1>2, <2>1, FinalMoves
       DEF FinalMove, FinalKept, FinalBegins, ScoresAsked, PromptEnds
<1>3. ASSUME NEW p \in Prompts, start'[p] \in {"none", "waiting", "replacing"}
      PROVE  child'[p] = None /\ score'[p] = None
  <2>1. child[p] = None /\ score[p] = None /\ p \notin open
    BY <1>0, <1>1, <1>3 DEF Unpublished, OpenHeld
  <2>2. First("child") \/ First("score") => Head(line).by # p
    BY <1>0, <2>1, HeadShape DEF First, LineAwaited, Awaited
  <2>3. child'[p] = child[p] \/ (First("child") /\ Head(line).by = p)
    BY <1>0, RecordMoves DEF ChildAnswered, TypeOK
  <2>4. score'[p] = score[p] \/ (First("score") /\ Head(line).by = p)
    BY <1>0, RecordMoves DEF ScoreAnswered, TypeOK
  <2>. QED
    BY <2>1, <2>2, <2>3, <2>4
<1>4. ASSUME NEW p \in Prompts, start'[p] \in {"waiting", "replacing"}
      PROVE  Session[p] \in leases' /\ shutdown'[Session[p]] = "no"
  <2>1. CASE start[p] = "none"
    BY <1>0, <1>4, <2>1, StartMoves
       DEF StartMove, StartKept, StartBegins, StartGoesOn
  <2>2. CASE start[p] # "none"
    <3>1. Session[p] \in leases /\ shutdown[Session[p]] = "no"
           /\ start[p] \in {"waiting", "replacing"}
      BY <1>0, <1>1, <1>4, <2>2 DEF Unpublished
    <3>. QED
      BY <1>0, <3>1, SessionMoves DEF SessionMove
  <2>. QED
    BY <2>1, <2>2
<1>. QED
  BY <1>2, <1>3, <1>4 DEF Unpublished

-----------------------------------------------------------------------------
(* The client and the line                                                 *)

(* A root is opened by the answer to its start, and ends with its prompt.  *)
LEMMA OpenMoves ==
  ASSUME IInv, [Next]_vars
  PROVE  /\ \A p \in open' \ open :
              /\ StartAnswered /\ Head(line).by = p /\ Head(line).config = config[p]
              /\ promptState[Session[p]] = p /\ UNCHANGED promptState
              /\ Serves(config[p]) /\ runtime' = config[p]
         /\ \A p \in open \ open' : p \in Prompts /\ final'[p] = "over"
         /\ cut' = {}
<1>0. /\ TypeOK /\ LineAwaited /\ ClosesAlone /\ cut = {} /\ open \subseteq Prompts
      /\ final \in [Prompts -> {"no", "children", "scoring", "over"}]
  BY DEF IInv, NothingCut, TypeOK
<1>1. CASE StartAnswered
  <2>1. Head(line).config = config[Head(line).by]
    BY <1>0, <1>1, HeadShape DEF StartAnswered, First, LineAwaited, Awaited
  <2>. QED
    BY <1>0, <1>1, <2>1 DEF StartAnswered
<1>2. CASE ScoreAnswered
  BY <1>0, <1>2, HeadShape DEF ScoreAnswered, EndPrompt, First, Records
<1>3. ASSUME NEW p \in Prompts, ScoresDue(p)
      PROVE  open' \subseteq open /\ cut' = {} /\ \A q \in open \ open' : final'[q] = "over"
  BY <1>0, <1>3 DEF ScoresDue, EndPrompt
<1>4. CASE RefreshClosed \/ SessionClosed
  <2>1. open = {}
    BY <1>0, <1>4, HeadShape
       DEF RefreshClosed, SessionClosed, First, ClosesAlone, Closes
  <2>. QED
    BY <1>0, <1>4, <2>1 DEF RefreshClosed, SessionClosed, ShutdownClient
<1>5. CASE open' = open /\ cut' = cut
  BY <1>0, <1>5
<1>. QED
  BY <1>0, <1>1, <1>2, <1>3, <1>4, <1>5
     DEF Next, Continues, Host, Answered, PromptContinues, FileEdited, SessionStart,
         SessionShutdown, BeforeAgentStart, PromptEvent, AgentSettled, RefreshConfig, Joined,
         ClaimAfterWait, Publish, SessionFlushDue, SourceAnswers, ChildAnswered,
         RefreshFlushed, Reconfigured, SessionFlushed, clientVars, vars

(* The runtime changes when a request is served, and ends unused.          *)
LEMMA RuntimeMoves ==
  ASSUME IInv, [Next]_vars
  PROVE  \/ UNCHANGED runtime
         \/ /\ StartAnswered \/ ChildAnswered \/ ScoreAnswered
            /\ Serves(Head(line).config) /\ runtime' = Head(line).config
         \/ open = {} /\ open' = {} /\ runtime' = None
<1>0. ClosesAlone /\ TypeOK
  BY DEF IInv
<1>1. CASE RefreshClosed \/ SessionClosed
  BY <1>1, <1>0, HeadShape
     DEF RefreshClosed, SessionClosed, ShutdownClient, First, ClosesAlone, Closes
<1>2. CASE StartAnswered \/ ChildAnswered \/ ScoreAnswered
  BY <1>2 DEF StartAnswered, ChildAnswered, ScoreAnswered
<1>3. CASE Reconfigured
  BY <1>3 DEF Reconfigured
<1>4. CASE UNCHANGED runtime
  BY <1>4
<1>. QED
  BY <1>1, <1>2, <1>3, <1>4
     DEF Next, Continues, Host, Answered, PromptContinues, FileEdited, SessionStart,
         SessionShutdown, BeforeAgentStart, PromptEvent, AgentSettled, RefreshConfig, Joined,
         ClaimAfterWait, Publish, ScoresDue, SessionFlushDue, SourceAnswers,
         RefreshFlushed, SessionFlushed, clientVars, vars

LEMMA OpenHeldStep == ASSUME IInv, [Next]_vars PROVE OpenHeld'
<1>0. /\ TypeOK /\ OpenHeld /\ PromptHeld /\ open \subseteq Prompts
      /\ Session \in [Prompts -> SessionIds] /\ None \notin Prompts
  BY SessionsAssumption DEF IInv, TypeOK
<1>1. ASSUME NEW p \in open' PROVE promptState'[Session[p]] = p
  <2>1. CASE p \notin open
    BY <2>1, OpenMoves
  <2>2. CASE p \in open
    <3>1. p \in Prompts /\ Session[p] \in SessionIds /\ promptState[Session[p]] = p
          /\ final[p] # "over"
      BY <1>0, <2>2 DEF OpenHeld, PromptHeld
    <3>2. final'[p] # "over"
      BY <3>1, FinalMoves DEF FinalMove, FinalKept, FinalBegins, ScoresAsked, PromptEnds
    <3>. QED
      BY <1>0, <3>1, <3>2, PromptMoves DEF PromptMove
  <2>. QED
    BY <2>1, <2>2
<1>. QED
  BY <1>1 DEF OpenHeld

(* A runtime in use serves no other configuration, so nothing goes astray. *)
LEMMA RecordsHomeStep == ASSUME IInv, [Next]_vars PROVE RecordsHome'
<1>0. /\ TypeOK /\ TypeOK' /\ RecordsHome /\ OpenHeld /\ PromptHeld /\ LineAwaited
      /\ Configured /\ Unpublished /\ open \subseteq Prompts
      /\ Session \in [Prompts -> SessionIds] /\ None \notin Prompts
  BY TypeStep, SessionsAssumption DEF IInv, TypeOK
<1>1. ASSUME NEW p \in Prompts PROVE start[p] = "none" \/ config'[p] = config[p]
  BY StartMoves DEF StartMove, StartKept, StartBegins, StartGoesOn
<1>2. ASSUME NEW p \in open
      PROVE  p \in Prompts /\ start[p] # "none" /\ runtime = config[p] /\ config[p] # None
  BY <1>0 DEF OpenHeld, PromptHeld, RecordsHome, Configured
<1>3. ASSUME NEW p \in Prompts, p \in open' PROVE runtime' = config'[p]
  <2>1. CASE p \notin open
    <3>1. runtime' = config[p] /\ promptState[Session[p]] = p
      BY <1>3, <2>1, OpenMoves
    <3>2. start[p] # "none"
      BY <1>0, <3>1 DEF PromptHeld
    <3>. QED
      BY <1>1, <3>1, <3>2
  <2>2. CASE p \in open
    <3>1. runtime' = runtime
      BY <1>2, <1>3, <2>2, RuntimeMoves DEF Serves
    <3>. QED
      BY <1>1, <1>2, <2>2, <3>1
  <2>. QED
    BY <2>1, <2>2
<1>4. ASSUME NEW p \in open, NEW c, Serves(c) PROVE c = config'[p]
  BY <1>1, <1>2, <1>4 DEF Serves
<1>5. ASSUME NEW p \in Prompts, child'[p] # None PROVE child'[p] = config'[p]
  <2>1. CASE child'[p] = child[p]
    <3>1. child[p] = config[p] /\ start[p] # "none"
      BY <1>0, <1>5, <2>1 DEF RecordsHome, Unpublished
    <3>. QED
      BY <1>1, <2>1, <3>1
  <2>2. CASE child'[p] # child[p]
    <3>1. ChildAnswered
      BY <2>2, RecordMoves
    <3>2. Head(line).by = p /\ Serves(Head(line).config) /\ child'[p] = Head(line).config
      BY <1>0, <1>5, <2>2, <3>1 DEF ChildAnswered, TypeOK
    <3>3. p \in open
      BY <1>0, <3>1, <3>2, HeadShape DEF ChildAnswered, First, LineAwaited, Awaited
    <3>. QED
      BY <1>4, <3>2, <3>3
  <2>. QED
    BY <2>1, <2>2
<1>6. ASSUME NEW p \in Prompts, score'[p] # None PROVE score'[p] = config'[p]
  <2>1. CASE score'[p] = score[p]
    <3>1. score[p] = config[p] /\ start[p] # "none"
      BY <1>0, <1>6, <2>1 DEF RecordsHome, Unpublished
    <3>. QED
      BY <1>1, <2>1, <3>1
  <2>2. CASE score'[p] # score[p]
    <3>1. ScoreAnswered
      BY <2>2, RecordMoves
    <3>2. Head(line).by = p /\ Serves(Head(line).config) /\ score'[p] = Head(line).config
      BY <1>0, <1>6, <2>2, <3>1 DEF ScoreAnswered, TypeOK
    <3>3. p \in open
      BY <1>0, <3>1, <3>2, HeadShape DEF ScoreAnswered, First, LineAwaited, Awaited
    <3>. QED
      BY <1>4, <3>2, <3>3
  <2>. QED
    BY <2>1, <2>2
<1>. QED
  BY <1>3, <1>5, <1>6 DEF RecordsHome

(* A transition that a step adds is awaited, and the only one of its kind. *)
Fresh(t) ==
  /\ t \in Transitions
  /\ Awaited(t)'
  /\ \A k \in DOMAIN line : line[k].op = t.op => line[k].by # t.by
  /\ t.op \in Closes => leases' = {}
  /\ t.op \in Records => leases' # {}

LineMove ==
  /\ ~Answered => UNCHANGED line \/ \E t : Fresh(t) /\ line' = Append(line, t)
  /\ Answered => /\ line # <<>>
                 /\ \/ line' = Tail(line)
                    \/ \E t : Fresh(t) /\ line' = Append(Tail(line), t)

LEMMA WalkLine ==
  ASSUME IInv, [Next]_vars, NEW r \in Refreshes, RefreshConfig(r) \/ Joined(r)
  PROVE  UNCHANGED line \/ \E t : Fresh(t) /\ line' = Append(line, t)
<1>0. TypeOK /\ Configured /\ PromptHeld /\ LineAwaited /\ refresh \in [Refreshes -> RefreshState]
  BY Types DEF IInv, RefreshTypes
<1>1. PICK left \in Seq(SessionIds), before \in SUBSET Prompts, c \in Config :
        Walk(r, left, before, c)
  BY <1>0, Walking
<1>2. CASE WalkEnds(r, before)
  <2>. DEFINE t == [op |-> "refresh flush", by |-> r]
  <2>1. line' = Append(line, t) /\ refresh'[r].at = "flushing" /\ t \in Transitions
    BY <1>0, <1>2, TransitionTypes DEF WalkEnds, Enqueue
  <2>2. refresh[r].at \in {"idle", "joined"}
    BY DEF RefreshConfig, Joined
  <2>3. \A k \in DOMAIN line : line[k].op = t.op => line[k].by # t.by
    BY <1>0, <2>2 DEF LineAwaited, Awaited
  <2>4. Awaited(t)'
    BY <2>1 DEF Awaited
  <2>. QED
    BY <2>1, <2>3, <2>4 DEF Fresh, Closes, Records
<1>3. CASE UNCHANGED line
  BY <1>3
<1>. QED
  BY <1>0, <1>1, <1>2, <1>3, WalkSteps DEF WalkStops

LEMMA AnsweredLine ==
  ASSUME IInv, Answered
  PROVE  /\ line # <<>>
         /\ \/ line' = Tail(line)
            \/ \E t : Fresh(t) /\ line' = Append(Tail(line), t)
<1>0. /\ TypeOK /\ LineAwaited /\ refresh \in [Refreshes -> RefreshState]
      /\ shutdown \in [SessionIds -> {"no", "finalizing", "flushing", "closing", "done"}]
  BY Types DEF IInv, RefreshTypes, EventTypes
<1>1. CASE RefreshFlushed
  <2>1. PICK r \in Refreshes : r = Head(line).by
    BY <1>0, <1>1, HeadShape DEF RefreshFlushed, First
  <2>2. refresh[r].at = "flushing" /\ line # <<>>
    BY <1>0, <1>1, <2>1, HeadShape DEF RefreshFlushed, First, LineAwaited, Awaited
  <2>. DEFINE t == [op |-> "reconfigure", by |-> r]
  <2>3. line' = Append(Tail(line), t) /\ refresh' = [refresh EXCEPT ![r].at = "reconfiguring"]
    BY <1>1, <2>1 DEF RefreshFlushed
  <2>4. refresh'[r].at = "reconfiguring"
    BY <1>0, <2>3 DEF RefreshState
  <2>5. \A k \in DOMAIN line : line[k].op = t.op => line[k].by # t.by
    BY <1>0, <2>2 DEF LineAwaited, Awaited
  <2>6. Awaited(t)' /\ t \in Transitions
    BY <2>4, TransitionTypes DEF Awaited
  <2>. QED
    BY <2>2, <2>3, <2>5, <2>6 DEF Fresh, Closes, Records
<1>2. CASE Reconfigured /\ leases = {}
  <2>1. PICK r \in Refreshes : r = Head(line).by
    BY <1>0, <1>2, HeadShape DEF Reconfigured, First
  <2>2. refresh[r].at = "reconfiguring" /\ line # <<>>
    BY <1>0, <1>2, <2>1, HeadShape DEF Reconfigured, First, LineAwaited, Awaited
  <2>. DEFINE t == [op |-> "refresh close", by |-> r]
  <2>3. /\ line' = Append(Tail(line), t) /\ refresh' = [refresh EXCEPT ![r].at = "closing"]
        /\ leases' = {}
    BY <1>2, <2>1 DEF Reconfigured, ownerVars
  <2>4. refresh'[r].at = "closing"
    BY <1>0, <2>3 DEF RefreshState
  <2>5. \A k \in DOMAIN line : line[k].op = t.op => line[k].by # t.by
    BY <1>0, <2>2 DEF LineAwaited, Awaited
  <2>6. Awaited(t)' /\ t \in Transitions
    BY <2>4, TransitionTypes DEF Awaited
  <2>. QED
    BY <2>2, <2>3, <2>5, <2>6 DEF Fresh, Closes, Records
<1>3. CASE SessionFlushed /\ leases' = {}
  <2>1. PICK s \in SessionIds : s = Head(line).by
    BY <1>0, <1>3, HeadShape DEF SessionFlushed, First
  <2>2. shutdown[s] = "flushing" /\ line # <<>>
    BY <1>0, <1>3, <2>1, HeadShape DEF SessionFlushed, First, LineAwaited, Awaited
  <2>. DEFINE t == [op |-> "session close", by |-> s]
  <2>3. line' = Append(Tail(line), t) /\ shutdown'[s] = "closing"
    BY <1>0, <1>3, <2>1 DEF SessionFlushed, ClosesClient
  <2>4. \A k \in DOMAIN line : line[k].op = t.op => line[k].by # t.by
    BY <1>0, <2>2 DEF LineAwaited, Awaited
  <2>5. Awaited(t)' /\ t \in Transitions
    BY <2>3, TransitionTypes DEF Awaited
  <2>. QED
    BY <1>3, <2>2, <2>3, <2>4, <2>5 DEF Fresh, Closes, Records
<1>4. CASE line # <<>> /\ Rest
  BY <1>4 DEF Rest
<1>. QED
  BY <1>1, <1>2, <1>3, <1>4
     DEF Answered, StartAnswered, ChildAnswered, ScoreAnswered, Reconfigured, RefreshClosed,
         SessionFlushed, SessionClosed, First, ClosesClient

(* A step answers the first transition, or adds a fresh one, or both.      *)
LEMMA LineMoves ==
  ASSUME IInv, [Next]_vars
  PROVE  LineMove
<1>0. /\ TypeOK /\ TypeOK' /\ LineAwaited /\ Configured /\ PromptHeld /\ OpenHeld /\ cut = {}
      /\ open \subseteq Prompts
      /\ shutdown \in [SessionIds -> {"no", "finalizing", "flushing", "closing", "done"}]
      /\ Session \in [Prompts -> SessionIds] /\ None \notin Prompts
  BY TypeStep, SessionsAssumption DEF IInv, NothingCut, TypeOK
<1>. DEFINE Moved == UNCHANGED line \/ \E t : Fresh(t) /\ line' = Append(line, t)
<1>1. ASSUME NEW s \in SessionIds, SessionShutdown(s) PROVE Moved
  <2>. DEFINE t == [op |-> "session close", by |-> s]
  <2>1. CASE UNCHANGED line
    BY <2>1
  <2>2. CASE ~UNCHANGED line
    <3>1. line' = Append(line, t) /\ shutdown' = [shutdown EXCEPT ![s] = "closing"]
          /\ leases' = {} /\ shutdown[s] = "no"
      BY <1>1, <2>2 DEF SessionShutdown, Forget, Enqueue, ClosesClient
    <3>2. \A k \in DOMAIN line : line[k].op = t.op => line[k].by # t.by
      BY <1>0, <3>1 DEF LineAwaited, Awaited
    <3>3. Awaited(t)' /\ t \in Transitions
      BY <1>0, <3>1, TransitionTypes DEF Awaited
    <3>. QED
      BY <3>1, <3>2, <3>3 DEF Fresh, Closes, Records
  <2>. QED
    BY <2>1, <2>2
<1>2. ASSUME NEW s \in SessionIds, SessionFlushDue(s) PROVE Moved
  <2>. DEFINE t == [op |-> "session flush", by |-> s]
  <2>1. line' = Append(line, t) /\ shutdown' = [shutdown EXCEPT ![s] = "flushing"]
        /\ shutdown[s] = "finalizing"
    BY <1>2 DEF SessionFlushDue, Enqueue
  <2>2. \A k \in DOMAIN line : line[k].op = t.op => line[k].by # t.by
    BY <1>0, <2>1 DEF LineAwaited, Awaited
  <2>3. Awaited(t)' /\ t \in Transitions
    BY <1>0, <2>1, TransitionTypes DEF Awaited
  <2>. QED
    BY <2>1, <2>2, <2>3 DEF Fresh, Closes, Records
<1>3. ASSUME NEW p \in Prompts, PromptEvent(p), ~UNCHANGED line PROVE Moved
  <2>0. PICK t : t = [op |-> "child", by |-> p, config |-> EventConfig(p)]
    OBVIOUS
  <2>1. /\ line' = Append(line, t) /\ p \in open /\ p \notin asked /\ asked' = asked \cup {p}
        /\ UNCHANGED <<open, final, leases>> /\ final[p] = "no"
    BY <1>3, <2>0 DEF PromptEvent, Enqueue, Finalizing, clientVars, finalVars, ownerVars
  <2>2. \A k \in DOMAIN line : line[k].op = t.op => line[k].by # t.by
    BY <1>0, <2>0, <2>1 DEF LineAwaited, Awaited
  <2>3. EventConfig(p) \in Config
    BY <1>0, SessionsAssumption, ConfigsResolve DEF EventConfig
  <2>4. Awaited(t)' /\ t \in Transitions
    BY <2>0, <2>1, <2>3, TransitionTypes DEF Awaited, Records
  <2>5. leases' # {}
    BY <1>0, <2>1 DEF OpenHeld, PromptHeld
  <2>7. t.op \notin Closes
    BY <2>0 DEF Closes
  <2>8. Fresh(t)
    BY <2>0, <2>2, <2>4, <2>5, <2>7 DEF Fresh
  <2>. QED
    BY <2>1, <2>8
<1>4. ASSUME NEW p \in Prompts, ScoresDue(p), ~UNCHANGED line PROVE Moved
  <2>0. PICK t : t = [op |-> "score", by |-> p, config |-> finalConfig[p]]
    OBVIOUS
  <2>1. /\ line' = Append(line, t) /\ p \in open /\ UNCHANGED <<open, leases>>
        /\ final[p] = "children" /\ final' = [final EXCEPT ![p] = "scoring"]
    BY <1>0, <1>4, <2>0 DEF ScoresDue, Enqueue, ownerVars
  <2>2. \A k \in DOMAIN line : line[k].op = t.op => line[k].by # t.by
    BY <1>0, <2>0, <2>1 DEF LineAwaited, Awaited
  <2>3. finalConfig[p] \in Config
    BY <1>0, <2>1 DEF Configured, TypeOK
  <2>4. final'[p] = "scoring"
    BY <1>0, <2>1 DEF TypeOK
  <2>5. Awaited(t)' /\ t \in Transitions
    BY <2>0, <2>1, <2>3, <2>4, TransitionTypes DEF Awaited, Records
  <2>6. leases' # {}
    BY <1>0, <2>1 DEF OpenHeld, PromptHeld
  <2>7. t.op \notin Closes
    BY <2>0 DEF Closes
  <2>8. Fresh(t)
    BY <2>0, <2>2, <2>5, <2>6, <2>7 DEF Fresh
  <2>. QED
    BY <2>1, <2>8
<1>5. ASSUME NEW p \in Prompts, SourceAnswers(p), ~UNCHANGED line PROVE Moved
  <2>0. PICK t : t = [op |-> "start", by |-> p, config |-> config[p]]
    OBVIOUS
  <2>1. /\ line' = Append(line, t) /\ UNCHANGED <<config, leases>>
        /\ start[p] = "source" /\ start' = [start EXCEPT ![p] = "runtime"]
        /\ promptState[Session[p]] = p
    BY <1>5, <2>0 DEF SourceAnswers, Enqueue, ownerVars
  <2>2. \A k \in DOMAIN line : line[k].op = t.op => line[k].by # t.by
    BY <1>0, <2>0, <2>1 DEF LineAwaited, Awaited
  <2>3. config[p] \in Config
    BY <1>0, <2>1 DEF Configured, TypeOK
  <2>4. start'[p] = "runtime"
    BY <1>0, <2>1 DEF TypeOK
  <2>5. Awaited(t)' /\ t \in Transitions
    BY <2>0, <2>1, <2>3, <2>4, TransitionTypes DEF Awaited, Records
  <2>6. leases' # {}
    BY <1>0, <2>1 DEF PromptHeld
  <2>7. t.op \notin Closes
    BY <2>0 DEF Closes
  <2>8. Fresh(t)
    BY <2>0, <2>2, <2>5, <2>6, <2>7 DEF Fresh
  <2>. QED
    BY <2>1, <2>8
<1>6. ASSUME NEW r \in Refreshes, RefreshConfig(r) \/ Joined(r) PROVE Moved
  BY <1>6, WalkLine
<1>7. CASE Answered
  BY <1>7, AnsweredLine DEF LineMove
<1>8. ASSUME ~Answered PROVE Moved
  <2>. HIDE DEF Moved
  <2>1. UNCHANGED line => Moved
    BY DEF Moved
  <2>. QED
    BY <1>1, <1>2, <1>3, <1>4, <1>5, <1>6, <1>8, <2>1
       DEF Next, Continues, Host, PromptContinues, FileEdited, SessionStart,
           BeforeAgentStart, AgentSettled, ClaimAfterWait, Publish, vars
<1>. QED
  BY <1>7, <1>8 DEF LineMove

(* Whoever is not answered in a step is awaited after it.                  *)
LEMMA AwaitedKept ==
  ASSUME IInv, [Next]_vars, NEW k \in DOMAIN line, NEW t, t = line[k]
  PROVE  Awaited(t)' \/ (Answered /\ k = 1)
<1>0. /\ TypeOK /\ LineAwaited /\ line \in Seq(Transitions) /\ Awaited(t)
      /\ open \subseteq Prompts /\ asked \subseteq Prompts
  BY DEF IInv, LineAwaited, TypeOK, Awaited
<1>2. /\ t \in Transitions
      /\ t.op \in Records => t.by \in Prompts /\ t.config \in Config
      /\ t.op \in {"refresh flush", "reconfigure", "refresh close"} => t.by \in Refreshes
      /\ t.op \in {"session flush", "session close"} => t.by \in SessionIds
  BY <1>0, LineShape
<1>3. t.op \in Records \cup {"refresh flush", "reconfigure", "refresh close",
                             "session flush", "session close"}
  BY <1>2 DEF Transitions, Records
<1>4. ASSUME Answered, Head(line).op = t.op, Head(line).by = t.by PROVE k = 1
  <2>1. line # <<>>
    BY <1>0
  <2>. QED
    BY <1>0, <1>4, <2>1, HeadShape DEF LineAwaited
<1>5. CASE t.op = "start"
  <2>1. start[t.by] = "runtime" /\ t.config = config[t.by] /\ t.by \in Prompts
    BY <1>0, <1>2, <1>5 DEF Awaited, Records
  <2>2. \/ start'[t.by] = "runtime" /\ config'[t.by] = config[t.by]
        \/ StartAnswered /\ Head(line).by = t.by
    BY <2>1, StartMoves DEF StartMove, StartKept, StartBegins, StartGoesOn
  <2>3. StartAnswered => Answered /\ Head(line).op = "start"
    BY DEF Answered, StartAnswered, First
  <2>4. start'[t.by] = "runtime" /\ config'[t.by] = config[t.by] => Awaited(t)'
    BY <1>5, <2>1 DEF Awaited
  <2>. QED
    BY <1>4, <1>5, <2>2, <2>3, <2>4
<1>6. CASE t.op \in {"child", "score"}
  <2>1. t.by \in open /\ t.by \in Prompts
    BY <1>0, <1>2, <1>6 DEF Awaited, Records
  <2>2. t.op = "child" => /\ final[t.by] \in {"no", "children"} /\ t.by \in asked
                          /\ ~ChildrenClosed(t.by)
    BY <1>0 DEF Awaited, ChildrenClosed
  <2>3. t.op = "score" => final[t.by] = "scoring"
    BY <1>0 DEF Awaited
  <2>4. t.op = "child" => final'[t.by] \in {"no", "children"}
    BY <2>1, <2>2, FinalMoves
       DEF FinalMove, FinalKept, FinalBegins, ScoresAsked, PromptEnds
  <2>5. t.op = "score" => \/ final'[t.by] = "scoring"
                          \/ ScoreAnswered /\ Head(line).by = t.by
    BY <2>1, <2>3, FinalMoves
       DEF FinalMove, FinalKept, FinalBegins, ScoresAsked, PromptEnds
  <2>6. final'[t.by] # "over" => t.by \in open'
    BY <2>1, OpenMoves
  <2>7. asked \subseteq asked'
    BY DEF Next, Continues, Host, Answered, PromptContinues, FileEdited, SessionStart,
         SessionShutdown, BeforeAgentStart, PromptEvent, AgentSettled, RefreshConfig, Joined,
         ClaimAfterWait, Publish, ScoresDue, SessionFlushDue, SourceAnswers, StartAnswered,
         ChildAnswered, ScoreAnswered, RefreshFlushed, Reconfigured, RefreshClosed,
         SessionFlushed, SessionClosed, promptVars, eventVars, vars
  <2>8. ScoreAnswered => Answered /\ Head(line).op = "score"
    BY DEF Answered, ScoreAnswered, First
  <2>9. t.op = "child" => Awaited(t)'
    BY <2>2, <2>4, <2>6, <2>7 DEF Awaited
  <2>10. t.op = "score" /\ final'[t.by] = "scoring" => Awaited(t)'
    BY <2>6 DEF Awaited
  <2>. QED
    BY <1>4, <1>6, <2>5, <2>8, <2>9, <2>10
<1>7. CASE t.op \in {"refresh flush", "reconfigure", "refresh close"}
  <2>1. /\ t.by \in Refreshes
        /\ t.op = "refresh flush" => refresh[t.by].at = "flushing"
        /\ t.op = "reconfigure" => refresh[t.by].at = "reconfiguring"
        /\ t.op = "refresh close" => refresh[t.by].at = "closing"
    BY <1>0, <1>2, <1>7 DEF Awaited
  <2>2. \/ refresh'[t.by] = refresh[t.by]
        \/ refresh[t.by].at = "flushing" /\ RefreshFlushed /\ Head(line).by = t.by
        \/ refresh[t.by].at = "reconfiguring" /\ Reconfigured /\ Head(line).by = t.by
        \/ refresh[t.by].at = "closing" /\ RefreshClosed /\ Head(line).by = t.by
    BY <1>7, <2>1, RefreshMoves
       DEF RefreshMove, RefreshStopsAt, RefreshWalked, RefreshWaits, RefreshReturns
  <2>3. /\ RefreshFlushed => Answered /\ Head(line).op = "refresh flush"
        /\ Reconfigured => Answered /\ Head(line).op = "reconfigure"
        /\ RefreshClosed => Answered /\ Head(line).op = "refresh close"
    BY DEF Answered, RefreshFlushed, Reconfigured, RefreshClosed, First
  <2>4. refresh'[t.by] = refresh[t.by] => Awaited(t)'
    BY <1>7, <2>1 DEF Awaited
  <2>. QED
    BY <1>4, <1>7, <2>1, <2>2, <2>3, <2>4
<1>8. CASE t.op \in {"session flush", "session close"}
  <2>1. /\ t.by \in SessionIds
        /\ t.op = "session flush" => shutdown[t.by] = "flushing"
        /\ t.op = "session close" => shutdown[t.by] = "closing"
    BY <1>0, <1>2, <1>8 DEF Awaited
  <2>2. \/ shutdown'[t.by] = shutdown[t.by]
        \/ shutdown[t.by] = "flushing" /\ SessionFlushed /\ Head(line).by = t.by
        \/ shutdown[t.by] = "closing" /\ SessionClosed /\ Head(line).by = t.by
    BY <1>8, <2>1, SessionMoves DEF SessionMove
  <2>3. /\ SessionFlushed => Answered /\ Head(line).op = "session flush"
        /\ SessionClosed => Answered /\ Head(line).op = "session close"
    BY DEF Answered, SessionFlushed, SessionClosed, First
  <2>4. shutdown'[t.by] = shutdown[t.by] => Awaited(t)'
    BY <1>8, <2>1 DEF Awaited
  <2>. QED
    BY <1>4, <1>8, <2>1, <2>2, <2>3, <2>4
<1>. QED
  BY <1>3, <1>5, <1>6, <1>7, <1>8 DEF Records

(* How far the places of the line have moved up in a step; what stays in  *)
(* the line, and what has been added last.                                 *)
Shift == IF Answered THEN 1 ELSE 0

Stays(k, t) == k + Shift \in DOMAIN line /\ t = line[k + Shift] /\ Awaited(t)'
Added(k, t) == Fresh(t) /\ k = Len(line') /\ k + Shift = Len(line) + 1

(* Every place of the line after a step stays or is added.                 *)
LEMMA LineAfter ==
  ASSUME IInv, [Next]_vars, NEW k \in DOMAIN line', NEW t, t = line'[k]
  PROVE  Stays(k, t) \/ Added(k, t)
<1>0. line \in Seq(Transitions) /\ line' \in Seq(Transitions) /\ LineMove
  BY TypeStep, LineMoves DEF IInv, TypeOK
<1>1. ASSUME ~Answered PROVE Stays(k, t) \/ Added(k, t)
  <2>1. k \in DOMAIN line /\ line'[k] = line[k] => Stays(k, t)
    BY <1>0, <1>1, AwaitedKept DEF Shift, Stays
  <2>2. ASSUME NEW u, Fresh(u), line' = Append(line, u)
        PROVE  Stays(k, t) \/ Added(k, t)
    <3>1. u \in Transitions
      BY <2>2 DEF Fresh
    <3>2. CASE k \in DOMAIN line
      BY <1>0, <2>1, <2>2, <3>1, <3>2, Appended
    <3>3. CASE k \notin DOMAIN line
      <4>1. k = Len(line) + 1 /\ line'[k] = u /\ k = Len(line')
        BY <1>0, <2>2, <3>1, <3>3
      <4>2. t = u
        BY <4>1
      <4>. QED
        BY <1>1, <2>2, <4>1, <4>2 DEF Shift, Added
    <3>. QED
      BY <3>2, <3>3
  <2>. QED
    BY <1>0, <1>1, <2>1, <2>2 DEF LineMove
<1>2. ASSUME Answered PROVE Stays(k, t) \/ Added(k, t)
  <2>1. line # <<>>
    BY <1>0, <1>2 DEF LineMove
  <2>2. k + 1 \in DOMAIN line /\ line'[k] = line[k + 1] => Stays(k, t)
    <3>1. k \in Nat /\ k # 0
      BY <1>0
    <3>. QED
      BY <1>0, <1>2, <3>1, AwaitedKept DEF Shift, Stays
  <2>3. CASE line' = Tail(line)
    BY <1>0, <2>1, <2>2, <2>3, Popped
  <2>4. ASSUME NEW u, Fresh(u), line' = Append(Tail(line), u)
        PROVE  Stays(k, t) \/ Added(k, t)
    <3>1. u \in Transitions
      BY <2>4 DEF Fresh
    <3>2. /\ Len(line') = Len(line) /\ line'[Len(line')] = u /\ k \in 1..Len(line)
          /\ \A j \in 1..(Len(line) - 1) : j + 1 \in DOMAIN line /\ line'[j] = line[j + 1]
      BY <1>0, <2>1, <2>4, <3>1, Replaced
    <3>3. CASE k < Len(line)
      BY <1>0, <2>2, <3>2, <3>3
    <3>4. CASE k = Len(line)
      <4>1. t = u
        BY <3>2, <3>4
      <4>. QED
        BY <1>0, <1>2, <2>4, <3>2, <3>4, <4>1 DEF Shift, Added
    <3>. QED
      BY <1>0, <3>2, <3>3, <3>4
  <2>. QED
    BY <1>0, <1>2, <2>3, <2>4 DEF LineMove
<1>. QED
  BY <1>1, <1>2

LEMMA LineAwaitedStep == ASSUME IInv, [Next]_vars PROVE LineAwaited'
<1>0. LineAwaited /\ line \in Seq(Transitions) /\ line' \in Seq(Transitions)
  BY TypeStep DEF IInv, TypeOK
<1>1. ASSUME NEW k \in DOMAIN line' PROVE Awaited(line[k])'
  <2>1. PICK t : t = line'[k]
    OBVIOUS
  <2>2. Awaited(t)'
    BY <2>1, LineAfter DEF Stays, Added, Fresh
  <2>. QED
    BY <2>1, <2>2 DEF Awaited
<1>2. ASSUME NEW j \in DOMAIN line', NEW k \in DOMAIN line', j # k,
             line'[j].op = line'[k].op, line'[j].by = line'[k].by
      PROVE  FALSE
  <2>1. Shift \in {0, 1} /\ j \in Nat /\ k \in Nat
    BY <1>0 DEF Shift
  <2>2. PICK t, u : t = line'[j] /\ u = line'[k]
    OBVIOUS
  <2>3. (Stays(j, t) \/ Added(j, t)) /\ (Stays(k, u) \/ Added(k, u))
    BY <2>2, LineAfter
  <2>4. CASE Stays(j, t) /\ Stays(k, u)
    <3>1. j + Shift = k + Shift
      BY <1>0, <1>2, <2>2, <2>4 DEF LineAwaited, Stays
    <3>. QED
      BY <1>2, <2>1, <3>1
  <2>5. CASE Stays(j, t) /\ Added(k, u)
    BY <1>2, <2>2, <2>5 DEF Stays, Added, Fresh
  <2>6. CASE Added(j, t) /\ Stays(k, u)
    BY <1>2, <2>2, <2>6 DEF Stays, Added, Fresh
  <2>7. CASE Added(j, t) /\ Added(k, u)
    BY <1>2, <2>1, <2>7 DEF Added
  <2>. QED
    BY <2>3, <2>4, <2>5, <2>6, <2>7
<1>. QED
  BY <1>1, <1>2 DEF LineAwaited

-----------------------------------------------------------------------------
(* Leases, closes and the runtime                                          *)

(* Without leases no session holds a prompt and no root is open, and a     *)
(* start that waits for its runtime publishes nothing any more.            *)
LEMMA ClosesAloneStep == ASSUME IInv, [Next]_vars PROVE ClosesAlone'
<1>0. /\ TypeOK /\ TypeOK' /\ PromptHeld' /\ OpenHeld' /\ LineAwaited /\ ClosesAlone
      /\ line \in Seq(Transitions) /\ line' \in Seq(Transitions) /\ open' \subseteq Prompts
      /\ Session \in [Prompts -> SessionIds] /\ None \notin Prompts
  BY TypeStep, PromptHeldStep, OpenHeldStep, SessionsAssumption DEF IInv, TypeOK
<1>. SUFFICES ASSUME NEW k \in DOMAIN line', line'[k].op \in Closes
              PROVE  /\ open' = {}
                     /\ \A j \in 1..(k - 1) : line'[j].op = "start" =>
                          promptState'[Session[line'[j].by]] # line'[j].by
  BY DEF ClosesAlone
<1>1. PICK t : t = line'[k]
  OBVIOUS
<1>2. ASSUME NEW j \in 1..(k - 1) PROVE j \in DOMAIN line' /\ j < Len(line')
  BY <1>0
<1>3. ASSUME NEW j \in 1..(k - 1), line'[j].op = "start" PROVE line'[j].by \in Prompts
  <2>1. PICK u : u = line'[j]
    OBVIOUS
  <2>2. u \in Transitions /\ u.op = "start"
    BY <1>0, <1>2, <1>3, <2>1
  <2>. QED
    BY <2>1, <2>2 DEF Transitions
<1>4. CASE Added(k, t)
  <2>1. leases' = {}
    BY <1>1, <1>4 DEF Added, Fresh
  <2>2. \A s \in SessionIds : promptState'[s] = None
    BY <1>0, <2>1 DEF PromptHeld
  <2>3. open' = {}
    BY <1>0, <2>2 DEF OpenHeld
  <2>. QED
    BY <1>0, <1>3, <2>2, <2>3
<1>5. CASE Stays(k, t)
  <2>1. /\ open = {} /\ k + Shift \in DOMAIN line /\ Shift \in {0, 1} /\ k \in Nat \ {0}
        /\ \A j \in 1..(k + Shift - 1) : line[j].op = "start" =>
             promptState[Session[line[j].by]] # line[j].by
    BY <1>0, <1>1, <1>5 DEF Stays, ClosesAlone, Shift
  <2>2. open' = {}
    <3>1. ASSUME NEW p \in open' PROVE FALSE
      <4>1. StartAnswered /\ Head(line).by = p /\ promptState[Session[p]] = p
        BY <2>1, OpenMoves
      <4>2. Shift = 1 /\ line # <<>> /\ line[1].op = "start" /\ line[1].by = p
        BY <1>0, <4>1, HeadShape DEF Shift, Answered, StartAnswered, First
      <4>. QED
        BY <2>1, <4>1, <4>2
    <3>. QED
      BY <3>1
  <2>3. ASSUME NEW j \in 1..(k - 1), line'[j].op = "start"
        PROVE  promptState'[Session[line'[j].by]] # line'[j].by
    <3>1. PICK u : u = line'[j]
      OBVIOUS
    <3>2. Stays(j, u)
      BY <1>2, <3>1, LineAfter DEF Added
    <3>3. /\ u.op = "start" /\ u.by \in Prompts /\ Session[u.by] \in SessionIds
          /\ start[u.by] = "runtime"
      BY <1>0, <1>3, <2>3, <3>1, <3>2 DEF Stays, LineAwaited, Awaited
    <3>4. promptState[Session[u.by]] # u.by
      BY <2>1, <3>2, <3>3 DEF Stays
    <3>5. promptState'[Session[u.by]] # u.by
      BY <1>0, <3>3, <3>4, PromptMoves DEF PromptMove
    <3>. QED
      BY <3>1, <3>5
  <2>. QED
    BY <2>2, <2>3
<1>. QED
  BY <1>1, <1>4, <1>5, LineAfter

(* Whoever gives up the last lease asks for the close of the client.       *)
LEMMA LastLease ==
  ASSUME IInv, [Next]_vars, leases # {}, leases' = {}
  PROVE  Len(line') \in DOMAIN line' /\ line'[Len(line')].op \in Closes
<1>0. line \in Seq(Transitions)
  BY DEF IInv, TypeOK
<1>1. ASSUME NEW s \in SessionIds, SessionShutdown(s)
      PROVE  Len(line') \in DOMAIN line' /\ line'[Len(line')].op \in Closes
  <2>. DEFINE t == [op |-> "session close", by |-> s]
  <2>1. line' = Append(line, t)
    BY <1>1 DEF SessionShutdown, Forget, ClosesClient, Enqueue, ownerVars
  <2>2. t \in Transitions /\ t.op \in Closes
    BY TransitionTypes DEF Closes
  <2>. HIDE DEF t
  <2>. QED
    BY <1>0, <2>1, <2>2, Appended
<1>2. CASE SessionFlushed
  <2>1. PICK s \in SessionIds : s = Head(line).by
    BY <1>0, <1>2, HeadShape DEF SessionFlushed, First, IInv
  <2>. DEFINE t == [op |-> "session close", by |-> s]
  <2>2. line' = Append(Tail(line), t) /\ line # <<>>
    BY <1>2, <2>1 DEF SessionFlushed, ClosesClient, First
  <2>3. t \in Transitions /\ t.op \in Closes
    BY TransitionTypes DEF Closes
  <2>. HIDE DEF t
  <2>4. /\ line' \in Seq(Transitions) /\ Len(line') = Len(line) /\ 1 \in DOMAIN line
        /\ line'[Len(line')] = t
    BY <1>0, <2>2, <2>3, Replaced
  <2>. QED
    BY <1>0, <2>3, <2>4
<1>3. ASSUME NEW s \in SessionIds, GetOrCreate(s) PROVE FALSE
  BY <1>3 DEF GetOrCreate
<1>. QED
  BY <1>1, <1>2, <1>3, SessionsAssumption
     DEF Next, Continues, Host, Answered, PromptContinues, FileEdited, SessionStart,
         BeforeAgentStart, PromptEvent, AgentSettled, RefreshConfig, Joined,
         ClaimAfterWait, Publish, ScoresDue, SessionFlushDue, SourceAnswers, StartAnswered,
         ChildAnswered, ScoreAnswered, RefreshFlushed, Reconfigured, RefreshClosed,
         SessionClosed, ownerVars, vars

(* The close that the last lease asks for stays behind what may still open *)
(* the runtime, and nothing joins the line behind it that could.           *)
LEMMA RuntimeLeasedStep == ASSUME IInv, [Next]_vars PROVE RuntimeLeased'
<1>0. /\ TypeOK /\ RuntimeLeased /\ LineMove /\ Shift \in {0, 1}
      /\ line \in Seq(Transitions) /\ line' \in Seq(Transitions)
  BY TypeStep, LineMoves DEF IInv, TypeOK, Shift
<1>. SUFFICES ASSUME leases' = {}
              PROVE  \/ runtime' = None /\ \A k \in DOMAIN line' : line'[k].op \notin Records
                     \/ \E j \in DOMAIN line' :
                          /\ line'[j].op \in Closes
                          /\ \A k \in j..Len(line') : line'[k].op \notin Records
  BY DEF RuntimeLeased
<1>1. ASSUME NEW k \in DOMAIN line'
      PROVE  \/ line'[k].op \notin Records
             \/ k + Shift \in DOMAIN line /\ line'[k] = line[k + Shift]
  BY LineAfter DEF Stays, Added, Fresh
<1>2. CASE leases # {}
  <2>1. Len(line') \in DOMAIN line' /\ line'[Len(line')].op \in Closes
    BY <1>2, LastLease
  <2>2. \A k \in Len(line')..Len(line') : line'[k].op \notin Records
    <3>1. PICK n \in Nat : n = Len(line')
      BY <1>0
    <3>2. \A k \in n..n : k = n
      OBVIOUS
    <3>. QED
      BY <2>1, <3>1, <3>2 DEF Closes, Records
  <2>. QED
    BY <2>1, <2>2
<1>3. CASE leases = {} /\ runtime = None /\ \A k \in DOMAIN line : line[k].op \notin Records
  <2>1. \A k \in DOMAIN line' : line'[k].op \notin Records
    BY <1>1, <1>3
  <2>2. ~(StartAnswered \/ ChildAnswered \/ ScoreAnswered)
    BY <1>0, <1>3, HeadShape
       DEF StartAnswered, ChildAnswered, ScoreAnswered, First, Records, IInv
  <2>. QED
    BY <1>3, <2>1, <2>2, RuntimeMoves
<1>4. ASSUME NEW j \in DOMAIN line, line[j].op \in Closes,
             \A k \in j..Len(line) : line[k].op \notin Records
      PROVE  \/ runtime' = None /\ \A k \in DOMAIN line' : line'[k].op \notin Records
             \/ \E i \in DOMAIN line' :
                  /\ line'[i].op \in Closes
                  /\ \A k \in i..Len(line') : line'[k].op \notin Records
  <2>1. j \in 1..Len(line) /\ Len(line) \in Nat /\ Len(line') \in Nat
    BY <1>0
  <2>2. CASE j = 1 /\ Answered
    <3>1. Head(line).op \in Closes
      <4>1. line # <<>>
        BY <2>1
      <4>. QED
        BY <1>0, <1>4, <2>2, <4>1, HeadShape
    <3>2. RefreshClosed \/ SessionClosed
      BY <2>2, <3>1
         DEF Answered, Closes, StartAnswered, ChildAnswered, ScoreAnswered, RefreshFlushed,
             Reconfigured, SessionFlushed, First
    <3>3. runtime' = None
      BY <3>2 DEF RefreshClosed, SessionClosed, ShutdownClient
    <3>4. \A k \in DOMAIN line' : line'[k].op \notin Records
      BY <1>0, <1>1, <1>4, <2>1, <2>2
    <3>. QED
      BY <3>3, <3>4
  <2>3. CASE ~(j = 1 /\ Answered)
    <3>. DEFINE i == j - Shift
    <3>1. i \in 1..Len(line) /\ Len(line') + Shift >= Len(line)
      <4>1. ASSUME Answered PROVE Len(line') + 1 >= Len(line)
        BY <1>0, <2>1, <4>1, Popped, Replaced DEF LineMove, Fresh
      <4>2. ASSUME ~Answered PROVE Len(line') >= Len(line)
        BY <1>0, <2>1, <4>2, Appended DEF LineMove, Fresh
      <4>. QED
        BY <2>1, <2>3, <4>1, <4>2 DEF Shift
    <3>2. i \in DOMAIN line' /\ i + Shift = j
      BY <1>0, <2>1, <3>1
    <3>3. line'[i] = line[j]
      BY <1>0, <2>1, <3>2, LineAfter DEF Stays, Added
    <3>4. ASSUME NEW k \in i..Len(line') PROVE line'[k].op \notin Records
      <4>1. k \in DOMAIN line' /\ k + Shift >= j
        BY <1>0, <2>1, <3>1, <3>2
      <4>. QED
        BY <1>0, <1>1, <1>4, <2>1, <4>1
    <3>. QED
      BY <1>4, <3>2, <3>3, <3>4
  <2>. QED
    BY <2>2, <2>3
<1>. QED
  BY <1>0, <1>2, <1>3, <1>4 DEF RuntimeLeased

-----------------------------------------------------------------------------
(* The invariant                                                           *)

LEMMA IInvInit == Init => IInv
<1>. SUFFICES ASSUME Init PROVE IInv
  OBVIOUS
<1>1. TypeOK
  BY TypeInit
<1>2. Configured /\ Unpublished /\ PromptHeld /\ OpenHeld /\ NothingCut
  BY SessionsAssumption
     DEF Init, Configured, Unpublished, PromptHeld, OpenHeld, NothingCut
<1>3. LineAwaited /\ ClosesAlone /\ RuntimeLeased
  BY DEF Init, LineAwaited, ClosesAlone, RuntimeLeased
<1>4. RefreshWalks /\ RecordsHome /\ RefreshSettles
  BY DEF Init, RefreshWalks, RecordsHome, RefreshSettles
<1>. QED
  BY <1>1, <1>2, <1>3, <1>4 DEF IInv

LEMMA IInvStep == IInv /\ [Next]_vars => IInv'
<1>. SUFFICES ASSUME IInv, [Next]_vars PROVE IInv'
  OBVIOUS
<1>1. TypeOK' /\ Configured' /\ Unpublished' /\ PromptHeld' /\ OpenHeld'
  BY TypeStep, ConfiguredStep, UnpublishedStep, PromptHeldStep, OpenHeldStep
<1>2. LineAwaited' /\ ClosesAlone' /\ RuntimeLeased'
  BY LineAwaitedStep, ClosesAloneStep, RuntimeLeasedStep
<1>3. NothingCut'
  BY OpenMoves DEF NothingCut
<1>4. RefreshWalks' /\ RefreshSettles' /\ RecordsHome'
  BY RefreshWalksStep, RecordsHomeStep
<1>. QED
  BY <1>1, <1>2, <1>3, <1>4 DEF IInv

(* The conjunction on which the theorems rest holds in every reachable     *)
(* state.                                                                  *)
THEOREM Invariance == Spec => []IInv
<1>. QED
  BY IInvInit, IInvStep, PTL DEF Spec

(* In every reachable state the variables have their types, the lists of   *)
(* session states hold each session once and under its own instance, and   *)
(* the leases are the sessions with a state (src/session-state.ts).        *)
THEOREM TypeCorrect == Spec => []TypeOK
<1>1. IInv => TypeOK
  BY DEF IInv
<1>. QED
  BY <1>1, Invariance, PTL

(* A close of the client ends no root at all, let alone one of a session   *)
(* that has its lease; and when all is quiet and no lease is left, no      *)
(* runtime stays behind, whichever handler gave up the last lease.         *)
THEOREM ClientIsClosedWithTheLastLease == Spec => []ClientFollowsLeases
<1>1. IInv => ClientFollowsLeases
  BY DEF IInv, NothingCut, RuntimeLeased, ClientFollowsLeases, Quiet
<1>. QED
  BY <1>1, Invariance, PTL

(* The children and the scores of a prompt are recorded under the          *)
(* configuration of its start or not at all, and an open root lives in the *)
(* runtime of that configuration.                                          *)
THEOREM RecordsStayHome == Spec => []RecordsHome
<1>1. IInv => RecordsHome
  BY DEF IInv
<1>. QED
  BY <1>1, Invariance, PTL

(* A refresh whose walk is over has seen the end of every prompt that it   *)
(* found, however the sessions changed during the walk.                    *)
THEOREM RefreshesSettle == Spec => []RefreshSettles
<1>1. IInv => RefreshSettles
  BY DEF IInv
<1>. QED
  BY <1>1, Invariance, PTL

(* Every transition in the line of the runtime is the one that its owner   *)
(* waits for, and no owner waits for two.                                  *)
THEOREM TransitionsAreAwaited == Spec => []LineAwaited
<1>1. IInv => LineAwaited
  BY DEF IInv
<1>. QED
  BY <1>1, Invariance, PTL
=============================================================================
