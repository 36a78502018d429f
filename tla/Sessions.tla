------------------------------ MODULE Sessions ------------------------------
(***************************************************************************)
(* The extension's process: src/index.ts and src/session-state.ts.         *)
(* Every instance of the extension owns sessions and a cached              *)
(* configuration; all of them share one runtime and the set of leases that *)
(* keeps it alive.  Configuration refreshes walk over the sessions of an   *)
(* instance while prompts start, record and settle, and while sessions     *)
(* come and go.                                                            *)
(*                                                                         *)
(* A prompt and its finalization are those of PromptLifecycle, reduced to  *)
(* the awaits at which other sessions get their turn, and the line of      *)
(* transitions is that of RuntimeRegistry: a transition is one step here,  *)
(* since nothing else reads the runtime while it works.                    *)
(***************************************************************************)
EXTENDS Integers, Sequences, SequencesExt

CONSTANTS
  Instances,   (* the instances of the extension in the process            *)
  SessionIds,  (* the sessions that may live in the process                *)
  Instance,    (* Instance[s]: the instance that is told of session s      *)
  Prompts,     (* the announced prompts                                    *)
  Session,     (* Session[p]: the session of prompt p                      *)
  Eventful,    (* bound: the prompts of which an event is recorded         *)
  Refreshes,   (* the configuration refreshes                              *)
  Asks,        (* the instance of Asks[r], and the settings it may bring   *)
  Off,         (* the settings under which nothing is traced               *)
  MaxFile,     (* bound: edits of the configuration file                   *)
  None

Config == [settings : Nat, file : 0..MaxFile]

ASSUME SessionsAssumption ==
  /\ Instance \in [SessionIds -> Instances]
  /\ Session \in [Prompts -> SessionIds]
  /\ Eventful \subseteq Prompts
  /\ Asks \in [Refreshes -> [instance : Instances, values : SUBSET (Nat \ {0})]]
  /\ Off \subseteq Nat
  /\ MaxFile \in Nat
  /\ None \notin Prompts \cup Config

VARIABLES
  settings,       (* settings[i]: the settings in force                    *)
  cachedConfig,   (* cachedConfig[i]: the resolved configuration           *)
  file,           (* the contents of the configuration file                *)
  states,         (* states[i]: the session states of i, oldest first      *)
  leases,         (* the sessions whose lease is active                    *)
  shutdown,       (* shutdown[s]: the await that its shutdown has reached  *)
  promptState,    (* promptState[s]: the prompt that s holds               *)
  pendingStart,   (* pendingStart[s]: the start in promptStartPromise      *)
  start,          (* start[p]: the await that the start of p has reached   *)
  config,         (* config[p]: the configuration of that start            *)
  asked,          (* the prompts of which an event asked for the runtime   *)
  child,          (* child[p]: where what that event records went          *)
  final,          (* final[p]: how far the finalization of p is            *)
  finalConfig,    (* finalConfig[p]: its configuration                     *)
  score,          (* score[p]: where the health scores of p went           *)
  refresh,        (* refresh[r]: how far r is; before: what it found       *)
  line,           (* the transitions that are not over                     *)
  runtime,        (* the configuration of the runtime in use               *)
  open,           (* the prompts whose root is open in that runtime        *)
  cut             (* the prompts whose root a shutdown of the client ended *)

configVars  == <<settings, cachedConfig>>
ownerVars   == <<states, leases>>
eventVars   == <<asked, child>>
promptVars  == <<promptState, pendingStart, start, config, eventVars>>
finalVars   == <<final, finalConfig, score>>
clientVars  == <<runtime, open, cut>>
vars == <<configVars, file, ownerVars, shutdown, promptVars, finalVars, refresh,
          line, clientVars>>

Transitions ==
  [op : {"start", "child", "score"}, by : Prompts, config : Config]
    \cup [op : {"refresh flush", "reconfigure", "refresh close"}, by : Refreshes]
    \cup [op : {"session flush", "session close"}, by : SessionIds]

TypeOK ==
  /\ settings \in [Instances -> Nat]
  /\ cachedConfig \in [Instances -> Config \cup {None}]
  /\ file \in 0..MaxFile
  /\ states \in [Instances -> Seq(SessionIds)]
  /\ \A i \in Instances :
       states[i] \in Seq({s \in SessionIds : Instance[s] = i}) /\ IsInjective(states[i])
  /\ leases = {s \in SessionIds : Contains(states[Instance[s]], s)}
  /\ shutdown \in [SessionIds -> {"no", "finalizing", "flushing", "closing", "done"}]
  /\ promptState \in [SessionIds -> Prompts \cup {None}]
  /\ pendingStart \in [SessionIds -> Prompts \cup {None}]
  /\ start \in [Prompts ->
       {"none", "waiting", "replacing", "source", "runtime", "over"}]
  /\ config \in [Prompts -> Config \cup {None}]
  /\ asked \subseteq Prompts
  /\ child \in [Prompts -> Config \cup {None}]
  /\ final \in [Prompts -> {"no", "children", "scoring", "over"}]
  /\ finalConfig \in [Prompts -> Config \cup {None}]
  /\ score \in [Prompts -> Config \cup {None}]
  /\ refresh \in [Refreshes ->
       [at : {"idle", "joined", "flushing", "reconfiguring", "closing", "done"},
        left : Seq(SessionIds), awaits : Prompts \cup {None},
        before : SUBSET Prompts, config : Config \cup {None}]]
  /\ line \in Seq(Transitions)
  /\ runtime \in Config \cup {None}
  /\ open \subseteq Prompts
  /\ cut \subseteq Prompts

Init ==
  /\ settings = [i \in Instances |-> 0]
  /\ cachedConfig = [i \in Instances |-> None]
  /\ file = 0
  /\ states = [i \in Instances |-> <<>>]
  /\ leases = {}
  /\ shutdown = [s \in SessionIds |-> "no"]
  /\ promptState = [s \in SessionIds |-> None]
  /\ pendingStart = [s \in SessionIds |-> None]
  /\ start = [p \in Prompts |-> "none"]
  /\ config = [p \in Prompts |-> None]
  /\ asked = {}
  /\ child = [p \in Prompts |-> None]
  /\ final = [p \in Prompts |-> "no"]
  /\ finalConfig = [p \in Prompts |-> None]
  /\ score = [p \in Prompts |-> None]
  /\ refresh = [r \in Refreshes |->
       [at |-> "idle", left |-> <<>>, awaits |-> None, before |-> {}, config |-> None]]
  /\ line = <<>>
  /\ runtime = None
  /\ open = {}
  /\ cut = {}

-----------------------------------------------------------------------------
(* Configuration and leases                                                *)

CanTrace(c) == c.settings \notin Off

Resolve(i) == [settings |-> settings[i], file |-> file]

CurrentConfig(i) == IF cachedConfig[i] = None THEN Resolve(i) ELSE cachedConfig[i]

Cache(i, c) == cachedConfig' = [cachedConfig EXCEPT ![i] = c]

(* An edit of the configuration file raises no event. *)
FileEdited ==
  /\ file < MaxFile
  /\ file' = file + 1
  /\ UNCHANGED <<configVars, ownerVars, shutdown, promptVars, finalVars, refresh,
                 line, clientVars>>

(* slip: a session that is known already has no lease of its own *)
GetOrCreateLoose(s) ==
  /\ states' = [states EXCEPT ![Instance[s]] =
       IF Contains(@, s) THEN @ ELSE Append(@, s)]
  /\ leases' = IF states[Instance[s]] = <<>> THEN leases \cup {s} ELSE leases

GetOrCreate(s) ==
  /\ states' = [states EXCEPT ![Instance[s]] =
       IF Contains(@, s) THEN @ ELSE Append(@, s)]
  /\ leases' = leases \cup {s}

DeleteState(s) ==
  /\ states' = [states EXCEPT ![Instance[s]] = RemoveFirst(@, s)]
  /\ leases' = leases \ {s}

Enqueue(transition) == line' = Append(line, transition)

-----------------------------------------------------------------------------
(* Finalization of a prompt                                                *)

Finalizing(p) == final[p] # "no"

(* finalizePrompt begins the finalization of p, or joins it. *)
BeginFinalization(p, c) ==
  IF Finalizing(p) THEN UNCHANGED finalVars
  ELSE /\ final' = [final EXCEPT ![p] = "children"]
       /\ finalConfig' = [finalConfig EXCEPT ![p] = c]
       /\ UNCHANGED score

FinalizePrompt(s, c) ==
  IF promptState[s] = None THEN UNCHANGED finalVars
                           ELSE BeginFinalization(promptState[s], c)

EndPrompt(p) ==
  /\ final' = [final EXCEPT ![p] = "over"]
  /\ finalConfig' = [finalConfig EXCEPT ![p] = None]
  /\ open' = open \ {p}
  /\ promptState' = [promptState EXCEPT ![Session[p]] = IF @ = p THEN None ELSE @]

(* Closing the children waits for the starts of those still under way. *)
ChildrenClosed(p) == \A k \in DOMAIN line : line[k].op = "child" => line[k].by # p

(* The children are closed: a traced prompt asks for the runtime to send   *)
(* its scores, under the configuration of the finalization.                *)
ScoresDue(p) ==
  /\ final[p] = "children"
  /\ ChildrenClosed(p)
  /\ IF p \in open \cup cut /\ CanTrace(finalConfig[p])
     THEN /\ final' = [final EXCEPT ![p] = "scoring"]
          /\ Enqueue([op |-> "score", by |-> p, config |-> finalConfig[p]])
          /\ UNCHANGED <<finalConfig, promptState, open>>
     ELSE EndPrompt(p) /\ UNCHANGED line
  /\ UNCHANGED <<configVars, file, ownerVars, shutdown, pendingStart, start, config,
                 eventVars, score, refresh, runtime, cut>>

-----------------------------------------------------------------------------
(* Events of a session                                                     *)

SessionStart(s) ==
  /\ shutdown[s] = "no"
  /\ GetOrCreate(s)
  /\ Cache(Instance[s], Resolve(Instance[s]))
  /\ FinalizePrompt(s, Resolve(Instance[s]))
  /\ UNCHANGED <<settings, file, shutdown, promptVars, refresh,
                 line, clientVars>>

(* The claim of a start: it replaces the prompt that the session holds. *)
Claim(p, c) ==
  LET s == Session[p] IN
  /\ pendingStart' = [pendingStart EXCEPT ![s] = p]
  /\ IF promptState[s] = None
     THEN /\ start' = [start EXCEPT ![p] = "source"]
          /\ promptState' = [promptState EXCEPT ![s] = p]
     ELSE /\ start' = [start EXCEPT ![p] = "replacing"]
          /\ UNCHANGED promptState
  /\ FinalizePrompt(s, c)

BeforeAgentStart(p) ==
  LET s == Session[p]
      c == Resolve(Instance[s]) IN
  /\ start[p] = "none"
  /\ shutdown[s] = "no"
  /\ GetOrCreate(s)
  /\ Cache(Instance[s], c)
  /\ config' = [config EXCEPT ![p] = c]
  /\ CASE ~CanTrace(c) ->
            /\ start' = [start EXCEPT ![p] = "over"]
            /\ UNCHANGED <<pendingStart, promptState, finalVars>>
       [] CanTrace(c) /\ pendingStart[s] # None ->
            /\ start' = [start EXCEPT ![p] = "waiting"]
            /\ UNCHANGED <<pendingStart, promptState, finalVars>>
       [] OTHER -> Claim(p, c)
  /\ UNCHANGED <<settings, file, shutdown, eventVars, refresh, line,
                 clientVars>>

ClaimAfterWait(p) ==
  /\ start[p] = "waiting"
  /\ pendingStart[Session[p]] = None
  /\ Claim(p, config[p])
  /\ UNCHANGED <<configVars, file, ownerVars, shutdown, config, eventVars, refresh, line,
                 clientVars>>

Publish(p) ==
  /\ start[p] = "replacing"
  /\ promptState[Session[p]] = None
  /\ start' = [start EXCEPT ![p] = "source"]
  /\ promptState' = [promptState EXCEPT ![Session[p]] = p]
  /\ UNCHANGED <<configVars, file, ownerVars, shutdown, pendingStart, config, eventVars,
                 finalVars, refresh, line, clientVars>>

(* slip: the pending start is forgotten only when the prompt still lives *)
EndStartKept(p) ==
  /\ start' = [start EXCEPT ![p] = "over"]
  /\ pendingStart' = [pendingStart EXCEPT ![Session[p]] =
       IF @ = p /\ promptState[Session[p]] = p THEN None ELSE @]

EndStart(p) ==
  /\ start' = [start EXCEPT ![p] = "over"]
  /\ pendingStart' = [pendingStart EXCEPT ![Session[p]] = IF @ = p THEN None ELSE @]

SourceAnswers(p) ==
  /\ start[p] = "source"
  /\ IF promptState[Session[p]] # p \/ Finalizing(p)
     THEN EndStart(p) /\ UNCHANGED line
     ELSE /\ start' = [start EXCEPT ![p] = "runtime"]
          /\ Enqueue([op |-> "start", by |-> p, config |-> config[p]])
          /\ UNCHANGED pendingStart
  /\ UNCHANGED <<configVars, file, ownerVars, shutdown, promptState, config, eventVars,
                 finalVars, refresh, clientVars>>

(* Events of a running prompt record under the configuration of the        *)
(* instance, which events of its other sessions may have resolved anew.    *)
EventConfig(p) == CurrentConfig(Instance[Session[p]])

PromptEvent(p) ==
  LET c == EventConfig(p) IN
  /\ promptState[Session[p]] = p
  /\ ~Finalizing(p)
  /\ p \in open
  /\ p \in Eventful \ asked
  /\ asked' = asked \cup {p}
  /\ Cache(Instance[Session[p]], CurrentConfig(Instance[Session[p]]))
  /\ IF CanTrace(c)
     THEN Enqueue([op |-> "child", by |-> p, config |-> c])
     ELSE UNCHANGED line
  /\ UNCHANGED <<settings, file, ownerVars, shutdown, promptState,
                 pendingStart, start, config, child, finalVars, refresh, clientVars>>

AgentSettled(p) ==
  /\ promptState[Session[p]] = p
  /\ ~Finalizing(p)
  /\ start[p] = "over"
  /\ BeginFinalization(p, CurrentConfig(Instance[Session[p]]))
  /\ Cache(Instance[Session[p]], CurrentConfig(Instance[Session[p]]))
  /\ UNCHANGED <<settings, file, ownerVars, shutdown, promptVars,
                 refresh, line, clientVars>>

-----------------------------------------------------------------------------
(* Configuration refreshes                                                 *)

(* Settings come from the settings panel or from a command; either way the *)
(* refresh is called with the new ones in force.                           *)

(* slip: the walk stops at a prompt that somebody else finalizes already *)
WithPromptLive(left) ==
  LET s == SelectInSeq(left, LAMBDA t : promptState[t] # None) IN
  IF s # 0 /\ Finalizing(promptState[left[s]]) THEN 0 ELSE s

(* The first session on the way that holds a prompt. *)
WithPrompt(left) == SelectInSeq(left, LAMBDA t : promptState[t] # None)

(* The walk goes over the sessions that the instance had when it began. It *)
(* finalizes the prompt of each, or joins its finalization; after the last *)
(* one it waits for a flush.                                               *)
Walk(r, left, before, c) ==
  LET k == WithPrompt(left) IN
  IF k = 0
  THEN /\ refresh' = [refresh EXCEPT ![r] =
            [at |-> "flushing", left |-> <<>>, awaits |-> None, before |-> before,
             config |-> None]]
       /\ Enqueue([op |-> "refresh flush", by |-> r])
       /\ UNCHANGED finalVars
  ELSE /\ refresh' = [refresh EXCEPT ![r] =
            [at |-> "joined", left |-> SubSeq(left, k + 1, Len(left)),
             awaits |-> promptState[left[k]], before |-> before, config |-> c]]
       /\ BeginFinalization(promptState[left[k]], c)
       /\ UNCHANGED line

RefreshConfig(r) ==
  LET i == Asks[r].instance IN
  /\ refresh[r].at = "idle"
  /\ \E value \in Asks[r].values :
       LET c == [settings |-> value, file |-> file] IN
       /\ settings' = [settings EXCEPT ![i] = value]
       /\ Cache(i, c)
       /\ Walk(r, states[i],
               {p \in Prompts : Instance[Session[p]] = i /\ promptState[Session[p]] = p}, c)
  /\ UNCHANGED <<file, ownerVars, shutdown, promptVars, clientVars>>

Joined(r) ==
  /\ refresh[r].at = "joined"
  /\ final[refresh[r].awaits] = "over"
  /\ Walk(r, refresh[r].left, refresh[r].before, refresh[r].config)
  /\ UNCHANGED <<configVars, file, ownerVars, shutdown, promptVars, clientVars>>

-----------------------------------------------------------------------------
(* Shutdown of a session                                                   *)

(* slip: the client is closed with any session *)
ClosesClientAlways == TRUE

ClosesClient == leases' = {}

(* The session is forgotten; the last one of the process closes the client. *)
Forget(s) ==
  /\ DeleteState(s)
  /\ IF ClosesClient
     THEN /\ shutdown' = [shutdown EXCEPT ![s] = "closing"]
          /\ Enqueue([op |-> "session close", by |-> s])
     ELSE /\ shutdown' = [shutdown EXCEPT ![s] = "done"]
          /\ UNCHANGED line

(* Assumption: no start of the session waits unpublished; PromptLifecycle  *)
(* shows what happens to one that does.                                    *)
SessionShutdown(s) ==
  /\ shutdown[s] = "no"
  /\ s \in leases
  /\ \A p \in Prompts : Session[p] = s => start[p] \notin {"waiting", "replacing"}
  /\ Cache(Instance[s], CurrentConfig(Instance[s]))
  /\ FinalizePrompt(s, CurrentConfig(Instance[s]))
  /\ IF promptState[s] = None
     THEN Forget(s)
     ELSE /\ shutdown' = [shutdown EXCEPT ![s] = "finalizing"]
          /\ UNCHANGED <<ownerVars, line>>
  /\ UNCHANGED <<settings, file, promptVars, refresh, clientVars>>

SessionFlushDue(s) ==
  /\ shutdown[s] = "finalizing"
  /\ promptState[s] = None
  /\ shutdown' = [shutdown EXCEPT ![s] = "flushing"]
  /\ Enqueue([op |-> "session flush", by |-> s])
  /\ UNCHANGED <<configVars, file, ownerVars, promptVars, finalVars, refresh,
                 clientVars>>

-----------------------------------------------------------------------------
(* The line of transitions                                                 *)

First(op) == line # <<>> /\ Head(line).op = op

Rest == line' = Tail(line)

(* slip: a runtime in use is replaced like an idle one *)
ServesAlways(c) == TRUE

(* getRuntime answers a request unless it meets another runtime in use. *)
Serves(c) == runtime \in {None, c} \/ open = {}

StartAnswered ==
  LET p == Head(line).by
      c == Head(line).config IN
  /\ First("start")
  /\ Rest
  /\ runtime' = IF Serves(c) THEN c ELSE runtime
  /\ open' = IF Serves(c) /\ promptState[Session[p]] = p THEN open \cup {p} ELSE open
  /\ EndStart(p)
  /\ UNCHANGED <<configVars, file, ownerVars, shutdown, promptState, config, eventVars,
                 finalVars, refresh, cut>>

ChildAnswered ==
  LET p == Head(line).by
      c == Head(line).config IN
  /\ First("child")
  /\ Rest
  /\ runtime' = IF Serves(c) THEN c ELSE runtime
  /\ child' = [child EXCEPT ![p] = IF Serves(c) THEN c ELSE None]
  /\ UNCHANGED <<configVars, file, ownerVars, shutdown, promptState, pendingStart,
                 start, config, asked, finalVars, refresh, open, cut>>

ScoreAnswered ==
  LET p == Head(line).by
      c == Head(line).config IN
  /\ First("score")
  /\ Rest
  /\ runtime' = IF Serves(c) THEN c ELSE runtime
  /\ score' = [score EXCEPT ![p] = IF Serves(c) THEN c ELSE None]
  /\ EndPrompt(p)
  /\ UNCHANGED <<configVars, file, ownerVars, shutdown, pendingStart, start, config,
                 eventVars, refresh, cut>>

RefreshFlushed ==
  LET r == Head(line).by IN
  /\ First("refresh flush")
  /\ line' = Append(Tail(line), [op |-> "reconfigure", by |-> r])
  /\ refresh' = [refresh EXCEPT ![r].at = "reconfiguring"]
  /\ UNCHANGED <<configVars, file, ownerVars, shutdown, promptVars, finalVars,
                 clientVars>>

(* A runtime in use outlives the reconfiguration. *)
Reconfigured ==
  LET r == Head(line).by IN
  /\ First("reconfigure")
  /\ runtime' = IF open = {} THEN None ELSE runtime
  /\ IF leases = {}
     THEN /\ line' = Append(Tail(line), [op |-> "refresh close", by |-> r])
          /\ refresh' = [refresh EXCEPT ![r].at = "closing"]
     ELSE /\ Rest
          /\ refresh' = [refresh EXCEPT ![r].at = "done", ![r].before = {}]
  /\ UNCHANGED <<configVars, file, ownerVars, shutdown, promptVars, finalVars, open,
                 cut>>

ShutdownClient ==
  /\ runtime' = None
  /\ open' = {}
  /\ cut' = cut \cup open

RefreshClosed ==
  /\ First("refresh close")
  /\ Rest
  /\ ShutdownClient
  /\ refresh' = [refresh EXCEPT ![Head(line).by].at = "done", ![Head(line).by].before = {}]
  /\ UNCHANGED <<configVars, file, ownerVars, shutdown, promptVars, finalVars>>

SessionFlushed ==
  /\ First("session flush")
  /\ DeleteState(Head(line).by)
  /\ IF ClosesClient
     THEN /\ shutdown' = [shutdown EXCEPT ![Head(line).by] = "closing"]
          /\ line' = Append(Tail(line), [op |-> "session close", by |-> Head(line).by])
     ELSE /\ shutdown' = [shutdown EXCEPT ![Head(line).by] = "done"]
          /\ Rest
  /\ UNCHANGED <<configVars, file, promptVars, finalVars, refresh, clientVars>>

SessionClosed ==
  /\ First("session close")
  /\ Rest
  /\ ShutdownClient
  /\ shutdown' = [shutdown EXCEPT ![Head(line).by] = "done"]
  /\ UNCHANGED <<configVars, file, ownerVars, promptVars, finalVars, refresh>>

-----------------------------------------------------------------------------
Answered == StartAnswered \/ ChildAnswered \/ ScoreAnswered \/ RefreshFlushed
              \/ Reconfigured \/ RefreshClosed \/ SessionFlushed \/ SessionClosed

PromptContinues(p)  == ClaimAfterWait(p) \/ Publish(p) \/ ScoresDue(p)
Continues == \/ \E p \in Prompts : PromptContinues(p)
             \/ \E r \in Refreshes : Joined(r)
             \/ \E s \in SessionIds : SessionFlushDue(s)

(* Some continuation is left to run. *)
Ready ==
  \/ \E p \in Prompts :
       \/ start[p] = "waiting" /\ pendingStart[Session[p]] = None
       \/ start[p] = "replacing" /\ promptState[Session[p]] = None
       \/ final[p] = "children" /\ ChildrenClosed(p)
  \/ \E r \in Refreshes : refresh[r].at = "joined" /\ final[refresh[r].awaits] = "over"
  \/ \E s \in SessionIds : shutdown[s] = "finalizing" /\ promptState[s] = None

Host == \/ FileEdited
        \/ \E s \in SessionIds : SessionStart(s) \/ SessionShutdown(s)
        \/ \E p \in Prompts : BeforeAgentStart(p) \/ PromptEvent(p) \/ AgentSettled(p)
        \/ \E r \in Refreshes : RefreshConfig(r)

(* Continuations run before the event loop takes the next event or answer. *)
Next == \/ Continues
        \/ ~Ready /\ Host
        \/ ~Ready /\ Answered
        \/ ~Ready /\ \E p \in Prompts : SourceAnswers(p)

(* The process runs on: every continuation of a promise runs, and every    *)
(* transition ends, because the exporter's deadline bounds it.  The host's *)
(* events, edits and commands may come or not.                             *)
Fairness ==
  /\ WF_vars(Continues)
  /\ WF_vars(~Ready /\ Answered)
  /\ \A p \in Prompts : WF_vars(~Ready /\ SourceAnswers(p))

Spec == Init /\ [][Next]_vars /\ Fairness

-----------------------------------------------------------------------------
(* Properties                                                              *)

(* The shared runtime is closed with the last session of the process and   *)
(* not before: a shutdown of the client ends no root of a session that has *)
(* its lease, whichever instance closed it, and when nothing is under way  *)
(* and no lease is left, no runtime stays behind                           *)
(* (src/index.ts:517, src/index.ts:915).                                   *)
Quiet ==
  /\ line = <<>>
  /\ \A p \in Prompts : start[p] \in {"none", "over"} /\ final[p] \in {"no", "over"}
  /\ \A r \in Refreshes : refresh[r].at \in {"idle", "done"}
  /\ \A s \in SessionIds : shutdown[s] \in {"no", "done"}

ClientFollowsLeases ==
  /\ \A p \in cut : Session[p] \notin leases
  /\ Quiet /\ leases = {} => runtime = None

(* What belongs to a prompt goes where its root went, whatever became of   *)
(* the cached configuration meanwhile: its children and its scores are     *)
(* recorded under the configuration of its start, or refused.              *)
RecordsHome == \A p \in Prompts :
  /\ p \in open => runtime = config[p]
  /\ child[p] # None => child[p] = config[p]
  /\ score[p] # None => score[p] = config[p]

(* A refresh that has visited every session leaves no prompt behind that   *)
(* it found when it began, whoever finalizes it and whatever sessions come *)
(* and go during the walk (src/index.ts:507).                              *)
RefreshSettles == \A r \in Refreshes :
  refresh[r].at \in {"flushing", "reconfiguring", "closing"}
    => \A p \in refresh[r].before : final[p] = "over"

(* Prompts, refreshes and shutdowns wait for each other, and for one line  *)
(* of transitions; again and again all that have begun have ended.         *)
HandlersReturn == []<>Quiet

(* A prompt that a refresh finalizes gets its health scores like any other *)
(* one: the scores of a traced prompt are sent before it ends, unless      *)
(* tracing has been switched off.                                          *)
Traced == open \cup cut

ScoresSent == [][\A p \in Traced :
  final[p] # "over" /\ final'[p] = "over" /\ CanTrace(finalConfig[p])
    => score'[p] # None]_vars
=============================================================================
