--------------------- MODULE ObservationLifecycleProofs ---------------------
(***************************************************************************)
(* Theorems about ObservationLifecycle, for any turns, requests and tools. *)
(***************************************************************************)
EXTENDS ObservationLifecycle, SequenceLemmas

-----------------------------------------------------------------------------
(* The inductive invariant                                                 *)

(* Who waits for an answer of the runtime.                                 *)
Waits(c) == IF c = Prompt THEN stage = "scores"
            ELSE start[c] = "asked" \/ (c \in Tools /\ finish[c] = "scoring")

(* The line holds those who wait for the runtime, each once.               *)
LineRight ==
  /\ \A k \in DOMAIN line : Waits(line[k])
  /\ \A j, k \in DOMAIN line : line[j] = line[k] => j = k
  /\ \A c \in Children \cup {Prompt} : Waits(c) => c \in Elements(line)

Ending(t) == closing[t] \in {"abandoning", "starting"}

(* A span is opened by an answer and ended by its own end.                 *)
SpansRight ==
  /\ \A c \in Children : span[c] # "twice" /\ (span[c] # "none" => start[c] = "settled")
  /\ \A t \in Turns :
       /\ closing[t] # "none" => t \in ended
       /\ span[t] = "ended" => t \in ended /\ ~Ending(t) /\ order[t] = <<>>
  /\ \A g \in Generations : span[g] = "ended" => finish[g] = "done"
  /\ \A k \in Tools : span[k] = "ended" => finish[k] \in {"scoring", "done"}

(* A request goes its way from the event that opens it to its end.         *)
RequestsRight == \A g \in Generations :
  /\ turnOf[g] = None =>
       start[g] = "none" /\ finish[g] = "none" /\ g \notin ended \cup abandoned \cup failing
  /\ finish[g] \notin {"scoring", "unasked"}
  /\ finish[g] = "done" => start[g] # "asked" /\ span[g] # "open"
  /\ g \in ended => finish[g] # "none"
  /\ g \in ended /\ finish[g] = "waiting" => g \in abandoned
  /\ g \in abandoned => g \in ended
  /\ g \in failing => start[g] # "none"

(* A turn lists its requests until it is over, and they with it.           *)
OrdersRight ==
  /\ \A t \in Turns : /\ IsInjective(order[t])
                      /\ \A i \in DOMAIN order[t] : turnOf[order[t][i]] = t
  /\ \A g \in Generations : turnOf[g] # None =>
       \/ g \in Elements(order[turnOf[g]])
       \/ span[g] # "open" /\ (g \in ended \/ finish[g] = "done")
  /\ \A t \in Turns : closing[t] = "starting" =>
       Unfinished(t) = {} /\ \A i \in DOMAIN order[t] : span[order[t][i]] # "open"

(* A turn's span is left open only where tracing was switched off.         *)
LeaksRight == \A t \in Turns : closing[t] = "done" /\ span[t] = "open" => switched > 0

(* Whoever has still to end a turn knows of it.                            *)
TurnsTracked == \A t \in Turns : order[t] # <<>> \/ (span[t] = "open" /\ closing[t] # "done") =>
  /\ stage \in {"open", "tools", "turns"} => t \in Elements(activeTurns)
  /\ \/ Ending(t)
     \/ t \notin ended /\ stage \in {"open", "tools"}
     \/ t \notin ended /\ stage = "turns" /\ t \in Elements(left)

(* While events come, a turn that has begun is tracked or completed; while *)
(* turns are visited, one that is forgotten has ended.                     *)
TurnsKnown ==
  /\ stage = "open" => \A t \in Turns :
       /\ t \in ended => t \in completed
       /\ start[t] # "none" => t \in completed \cup Elements(activeTurns)
  /\ stage = "turns" => Elements(left) \subseteq Elements(activeTurns) \cup ended

(* A tool is tracked until the prompt has ended it.                        *)
ToolsTracked == \A k \in Tools :
  /\ span[k] = "open" => k \in activeTools /\ finish[k] \in {"none", "waiting", "unasked"}
  /\ finish[k] \in {"scoring", "done"} => k \in ended
  /\ finish[k] = "scoring" => start[k] = "settled"
  /\ stage \in {"turns", "scores", "done"} => activeTools = {}

(* Whom a handler waits for has begun to end.                              *)
AwaitedRight ==
  /\ \A x \in Turns \cup {Prompt} : visiting[x] # None => finish[visiting[x]] # "none"
  /\ awaitedTool # None => finish[awaitedTool] # "none"
  /\ stage \in {"open", "tools"} => visiting[Prompt] = None
  /\ \A t \in Turns : visiting[t] # None => closing[t] = "abandoning"
  /\ \A t \in Turns : closing[t] = "abandoning" /\ visiting[t] # None =>
       \E m \in DOMAIN order[t] : /\ order[t][m] = visiting[t]
                                  /\ \A j \in 1..(m - 1) : order[t][j] \notin Unfinished(t)
  /\ \A g \in Generations : g \in abandoned /\ finish[g] = "waiting" =>
       \/ visiting[Prompt] = g
       \/ closing[turnOf[g]] = "abandoning" /\ visiting[turnOf[g]] = g

(* Requests in flight ask for the runtime after those before them.         *)
AskedInOrder == \A t \in Turns : \A i, j \in DOMAIN order[t] :
  i < j /\ j \in InFlight(t) /\ start[order[t][i]] = "asked" =>
    \/ start[order[t][j]] = "none"
    \/ \E m, n \in DOMAIN line : m < n /\ line[m] = order[t][i] /\ line[n] = order[t][j]

(* A turn_end will come to a request in flight, for it has found one.      *)
WillAbandon(t) == \E i \in InFlight(t) :
  /\ \A j \in 1..(i - 1) : j \notin InFlight(t)
  /\ order[t][i] \in failing /\ start[order[t][i]] = "settled" =>
       Visited(t) /\ \A j \in 1..(i - 1) : order[t][j] \notin Unfinished(t)

BlameRight ==
  /\ blamed => abandoned # {} \/ \E t \in Turns : closing[t] = "abandoning" /\ WillAbandon(t)
  /\ \A t \in Turns : closing[t] = "abandoning" /\ InFlight(t) # {} => blamed
  /\ stage = "open" /\ abandoned # {} => blamed

(* The finalizer leaves nothing unfinished behind.                         *)
PassedRight ==
  /\ stage = "turns" => \A t \in Turns : t \notin Elements(left) => Unfinished(t) = {}
  /\ stage \in {"scores", "done"} => \A t \in Turns : Unfinished(t) = {}

PendingTools == {k \in activeTools : ~HasCompletion(k)}
PendingTurns == IF stage = "turns" THEN Elements(left) \ ended
                                   ELSE Elements(activeTurns) \ ended

Pending == \/ stage = "tools" /\ PendingTools # {}
           \/ stage \in {"tools", "turns"} /\ PendingTurns # {}

(* What the root will say is what will have happened.                      *)
SaysRight == stage # "open" =>
  (saysAbandoned <=> given \/ blamed \/ abandoned # {} \/ Pending)

IInv ==
  /\ TypeOK
  /\ LineRight
  /\ SpansRight
  /\ RequestsRight
  /\ OrdersRight
  /\ LeaksRight
  /\ TurnsTracked
  /\ TurnsKnown
  /\ ToolsTracked
  /\ AwaitedRight
  /\ AskedInOrder
  /\ BlameRight
  /\ PassedRight
  /\ SaysRight

-----------------------------------------------------------------------------
(* Sets, sequences and types                                               *)

LEMMA Kinds ==
  /\ Turns \subseteq Children /\ Generations \subseteq Children /\ Tools \subseteq Children
  /\ \A c \in Children : c \in Turns \/ c \in Generations \/ c \in Tools
  /\ \A t \in Turns : t \notin Generations /\ t \notin Tools /\ t # Prompt /\ t # None
  /\ \A g \in Generations : g \notin Turns /\ g \notin Tools /\ g # Prompt /\ g # None
  /\ \A k \in Tools : k \notin Turns /\ k \notin Generations /\ k # Prompt /\ k # None
BY ScopeAssumption DEF Children

(* The first of the turn's requests that are not over.                     *)
FirstOf(t, g) == \E m \in DOMAIN order[t] :
  /\ order[t][m] = g /\ g \in Unfinished(t)
  /\ \A j \in 1..(m - 1) : order[t][j] \notin Unfinished(t)

LEMMA FirstIs ==
  ASSUME NEW t \in Turns, order[t] \in Seq(Generations), Unfinished(t) # {}
  PROVE  FirstUnfinished(t) \in Generations /\ FirstOf(t, FirstUnfinished(t))
<1>1. PICK m : m = FirstIn(order[t], Unfinished(t))
  OBVIOUS
<1>2. \E j \in 1..Len(order[t]) : order[t][j] \in Unfinished(t)
  BY DEF Unfinished, Elements
<1>3. /\ m \in 1..Len(order[t]) /\ order[t][m] \in Unfinished(t)
      /\ \A j \in 1..(m - 1) : order[t][j] \notin Unfinished(t)
  BY <1>1, <1>2, FirstInIs
<1>4. FirstUnfinished(t) = order[t][m]
  BY <1>1 DEF FirstUnfinished, FirstIn
<1>5. m \in DOMAIN order[t] /\ order[t][m] \in Generations
  BY <1>3
<1>. QED
  BY <1>3, <1>4, <1>5 DEF FirstOf

(* The rest of the walk: from the next turn on that is in the map.         *)
LEMMA NextIs ==
  ASSUME left \in Seq(Turns), left # <<>>
  PROVE  /\ NextTurns \in Seq(Turns)
         /\ Elements(NextTurns) \subseteq Elements(left)
         /\ \A t \in Elements(left) : t # Head(left) /\ t \in Elements(activeTurns)
              => t \in Elements(NextTurns)
<1>1. PICK rest : rest = Tail(left)
  OBVIOUS
<1>2. /\ rest \in Seq(Turns) /\ Len(rest) = Len(left) - 1 /\ Len(rest) \in Nat
      /\ \A j \in 1..Len(rest) : rest[j] = left[j + 1]
      /\ Head(left) = left[1]
  BY <1>1
<1>3. ASSUME NEW t \in Elements(left), t # Head(left)
      PROVE  \E j \in 1..Len(rest) : rest[j] = t
  <2>1. PICK i \in 1..Len(left) : left[i] = t
    BY DEF Elements
  <2>2. i # 1 /\ i - 1 \in 1..Len(rest) /\ rest[i - 1] = t
    BY <1>2, <1>3, <2>1
  <2>. QED
    BY <2>2
<1>4. \A j \in 1..Len(rest) : rest[j] \in Elements(left)
  BY <1>2 DEF Elements
<1>5. PICK m : m = FirstIn(rest, Elements(activeTurns))
  OBVIOUS
<1>6. \/ m = 0 /\ \A j \in 1..Len(rest) : rest[j] \notin Elements(activeTurns)
      \/ /\ m \in 1..Len(rest)
         /\ \A j \in 1..(m - 1) : rest[j] \notin Elements(activeTurns)
  BY <1>2, <1>5, FirstInIs
<1>7. NextTurns = IF m = 0 THEN <<>> ELSE SubSeq(rest, m, Len(rest))
  BY <1>1, <1>5 DEF NextTurns, FirstIn
<1>8. CASE m = 0
  <2>1. NextTurns = <<>> /\ Elements(<<>>) = {}
    BY <1>7, <1>8 DEF Elements
  <2>2. \A t \in Elements(left) : t # Head(left) => t \notin Elements(activeTurns)
    BY <1>3, <1>6, <1>8
  <2>. QED
    BY <2>1, <2>2
<1>9. CASE m # 0
  <2>1. PICK next : next = NextTurns
    OBVIOUS
  <2>2. m \in 1..Len(rest)
    BY <1>6, <1>9
  <2>3. /\ next \in Seq(Turns) /\ Len(next) = Len(rest) - m + 1
        /\ \A j \in 1..Len(next) : next[j] = rest[m + j - 1]
    BY <1>2, <1>7, <1>9, <2>1, <2>2
  <2>4. ASSUME NEW j \in 1..Len(next) PROVE next[j] \in Elements(left)
    <3>1. m + j - 1 \in 1..Len(rest) /\ next[j] = rest[m + j - 1]
      BY <1>2, <2>2, <2>3
    <3>. QED
      BY <1>4, <3>1
  <2>5. ASSUME NEW j \in 1..Len(rest), rest[j] \in Elements(activeTurns)
        PROVE  rest[j] \in Elements(next)
    <3>1. j >= m
      BY <1>2, <1>6, <2>2, <2>5
    <3>2. j - m + 1 \in 1..Len(next) /\ next[j - m + 1] = rest[j]
      BY <1>2, <2>2, <2>3, <3>1
    <3>. QED
      BY <2>3, <3>2 DEF Elements
  <2>6. Elements(next) \subseteq Elements(left)
    BY <2>3, <2>4 DEF Elements
  <2>. QED
    BY <1>3, <2>1, <2>3, <2>5, <2>6
<1>. QED
  BY <1>8, <1>9

(* The types, unfolded for the proofs.                                     *)
LEMMA Types ==
  ASSUME TypeOK
  PROVE  /\ stage \in Stages /\ line \in Seq(Children \cup {Prompt})
         /\ start \in [Children -> {"none", "asked", "settled"}]
         /\ span \in [Children -> {"none", "open", "ended", "twice"}]
         /\ finish \in [Generations \cup Tools -> {"none", "waiting", "unasked", "scoring", "done"}]
         /\ ended \subseteq Children /\ abandoned \subseteq Children
         /\ activeTurns \in Seq(Turns) /\ IsInjective(activeTurns)
         /\ order \in [Turns -> Seq(Generations)]
         /\ turnOf \in [Generations -> Turns \cup {None}]
         /\ closing \in [Turns -> {"none", "abandoning", "starting", "done"}]
         /\ visiting \in [Turns \cup {Prompt} -> Generations \cup {None}]
         /\ activeTools \subseteq Tools /\ awaitedTool \in Tools \cup {None}
         /\ resultSeen \subseteq Tools
         /\ left \in Seq(Turns) /\ failing \subseteq Generations
BY DEF TypeOK, ScopeTypeOK, TurnTypeOK, ToolTypeOK

(* What abandonTurn does until its next await.                             *)
Passes(x, marks, cut) ==
  /\ ended' = ended \cup marks /\ abandoned' = abandoned \cup cut
  /\ visiting' = [visiting EXCEPT ![x] = None] /\ finish' = finish

Reaches(x, t, g, marks, cut) ==
  /\ g \in Generations /\ FirstOf(t, g)
  /\ visiting' = [visiting EXCEPT ![x] = g]
  /\ \/ /\ finish[g] = "none" /\ finish' = [finish EXCEPT ![g] = "waiting"]
        /\ ended' = ended \cup marks \cup {g} /\ abandoned' = abandoned \cup cut \cup {g}
     \/ /\ finish[g] # "none" /\ finish' = finish
        /\ ended' = ended \cup marks /\ abandoned' = abandoned \cup cut

LEMMA Abandoning ==
  ASSUME TypeOK, NEW x, NEW t \in Turns, NEW marks, NEW cut,
         Unfinished(t) # {}, Abandon(x, t, marks, cut)
  PROVE  \E g \in Generations : Reaches(x, t, g, marks, cut)
<1>1. order[t] \in Seq(Generations)
  BY Types
<1>2. PICK g \in Generations : g = FirstUnfinished(t) /\ FirstOf(t, g)
  BY <1>1, FirstIs
<1>3. /\ visiting' = [visiting EXCEPT ![x] = g]
      /\ IF finish[g] = "none"
         THEN /\ finish' = [finish EXCEPT ![g] = "waiting"]
              /\ ended' = ended \cup marks \cup {g}
              /\ abandoned' = abandoned \cup cut \cup {g}
         ELSE /\ ended' = ended \cup marks
              /\ abandoned' = abandoned \cup cut
              /\ UNCHANGED finish
  BY <1>2 DEF Abandon
<1>4. Reaches(x, t, g, marks, cut)
  BY <1>2, <1>3 DEF Reaches
<1>. QED
  BY <1>4

LEMMA Visiting ==
  ASSUME TypeOK, NEW x, NEW t \in Turns, NEW marks, NEW cut, VisitTurn(x, t, marks, cut)
  PROVE  \/ Unfinished(t) = {} /\ Passes(x, marks, cut)
         \/ \E g \in Generations : Reaches(x, t, g, marks, cut)
BY Abandoning DEF VisitTurn, LeaveLoop, Passes

LEMMA VisitingTurns ==
  ASSUME TypeOK, NEW ts \in Seq(Turns), NEW marks, NEW cut, VisitTurns(ts, marks, cut)
  PROVE  /\ stage' = "turns" /\ left' = ts
         /\ \/ Passes(Prompt, marks, cut) /\ (ts # <<>> => Unfinished(Head(ts)) = {})
            \/ ts # <<>> /\ \E g \in Generations : Reaches(Prompt, Head(ts), g, marks, cut)
<1>1. ts # <<>> => Head(ts) \in Turns
  OBVIOUS
<1>2. CASE ts = <<>>
  BY <1>2 DEF VisitTurns, LeaveLoop, Passes
<1>3. CASE ts # <<>>
  BY <1>1, <1>3, Visiting DEF VisitTurns
<1>. QED
  BY <1>2, <1>3

LEMMA ReachTypes ==
  ASSUME TypeOK, NEW x \in Turns \cup {Prompt}, NEW t, NEW g, NEW marks \in SUBSET Turns,
         NEW cut \in SUBSET Turns, Passes(x, marks, cut) \/ Reaches(x, t, g, marks, cut)
  PROVE  /\ finish' \in [Generations \cup Tools -> {"none", "waiting", "unasked", "scoring", "done"}]
         /\ ended' \subseteq Children /\ abandoned' \subseteq Children
         /\ visiting' \in [Turns \cup {Prompt} -> Generations \cup {None}]
<1>1. /\ marks \subseteq Children /\ cut \subseteq Children
      /\ ended \subseteq Children /\ abandoned \subseteq Children
  BY Types, Kinds
<1>2. CASE Passes(x, marks, cut)
  BY <1>1, <1>2, Types DEF Passes
<1>3. CASE Reaches(x, t, g, marks, cut)
  <2>1. g \in Generations /\ g \in Children
    BY <1>3, Kinds DEF Reaches
  <2>2. visiting' \in [Turns \cup {Prompt} -> Generations \cup {None}]
    BY <1>3, <2>1, Types DEF Reaches
  <2>3. CASE finish[g] = "none"
    <3>1. /\ finish' = [finish EXCEPT ![g] = "waiting"]
          /\ ended' = ended \cup marks \cup {g} /\ abandoned' = abandoned \cup cut \cup {g}
      BY <1>3, <2>3 DEF Reaches
    <3>2. ended' \subseteq Children /\ abandoned' \subseteq Children
      BY <1>1, <2>1, <3>1
    <3>. QED
      BY <2>1, <2>2, <3>1, <3>2, Types
  <2>4. CASE finish[g] # "none"
    BY <1>1, <1>3, <2>1, <2>2, <2>4, Types DEF Reaches
  <2>. QED
    BY <2>3, <2>4
<1>. QED
  BY <1>2, <1>3

-----------------------------------------------------------------------------
(* The steps of the finalizer                                              *)

(* The prompt ends a tool, or waits for one.                               *)
ToolReached(k) ==
  /\ k \in UnfinishedTools /\ awaitedTool' = k
  /\ EndUnfinished(k)
  /\ UNCHANGED <<span, ended, resultSeen, activeTools, visiting>>

(* Another turn is visited, or none is left.                               *)
TurnReached(ts, marks, cut) ==
  /\ stage' = "turns" /\ left' = ts
  /\ \/ Passes(Prompt, marks, cut) /\ (ts # <<>> => Unfinished(Head(ts)) = {})
     \/ ts # <<>> /\ \E g \in Generations : Reaches(Prompt, Head(ts), g, marks, cut)

toolRest == <<line, start, span, resultSeen, awaitedTool>>

LEMMA FinalizeSteps ==
  ASSUME TypeOK, NEW r, Finalize(r)
  PROVE  \/ /\ TurnReached(activeTurns, {}, {}) /\ activeTools = {}
            /\ UNCHANGED <<toolRest, activeTools>>
         \/ /\ stage' = "tools" /\ left' = <<>>
            /\ \/ \E k \in Tools : ToolReached(k)
               \/ /\ UnfinishedTools = {}
                  /\ UNCHANGED <<toolRest, activeTools, visiting, finish, ended, abandoned>>
<1>1. activeTurns \in Seq(Turns) /\ UnfinishedTools \subseteq Tools
  BY Types DEF UnfinishedTools
<1>2. CASE activeTools = {}
  BY <1>1, <1>2, VisitingTurns DEF Finalize, TurnReached, toolVars, toolRest
<1>3. CASE activeTools # {}
  BY <1>1, <1>3 DEF Finalize, AbandonTool, ToolReached, toolVars, toolRest
<1>. QED
  BY <1>2, <1>3

LEMMA FinalizerToolsSteps ==
  ASSUME TypeOK, FinalizerTools
  PROVE  \/ /\ UnfinishedTools = {} /\ activeTools' = {} /\ TurnReached(activeTurns, {}, {})
            /\ UNCHANGED <<line, start, span>> /\ resultSeen' = {} /\ awaitedTool' = None
         \/ (\E k \in Tools : ToolReached(k)) /\ UNCHANGED <<stage, left>>
<1>1. activeTurns \in Seq(Turns) /\ UnfinishedTools \subseteq Tools
  BY Types DEF UnfinishedTools
<1>2. CASE UnfinishedTools = {}
  BY <1>1, <1>2, VisitingTurns DEF FinalizerTools, TurnReached
<1>3. CASE UnfinishedTools # {}
  BY <1>1, <1>3 DEF FinalizerTools, AbandonTool, ToolReached
<1>. QED
  BY <1>2, <1>3

LEMMA FinalizerTurnSteps ==
  ASSUME TypeOK, FinalizerTurn, NEW t, t = Head(left)
  PROVE  /\ t \in Turns
         /\ \/ /\ \E g \in Generations : Reaches(Prompt, t, g, {}, {})
               /\ UNCHANGED <<stage, left, span, order>>
            \/ /\ Unfinished(t) = {} /\ Started(t) /\ t \in ended
               /\ TurnReached(NextTurns, {}, {}) /\ UNCHANGED <<span, order>>
            \/ /\ Unfinished(t) = {} /\ Started(t) /\ t \notin ended
               /\ TurnReached(NextTurns, {t}, {t})
               /\ EndSpan(t) /\ order' = [order EXCEPT ![t] = <<>>]
<1>1. /\ left \in Seq(Turns) /\ left # <<>>
      /\ Unfinished(t) # {} \/ Started(t)
  BY Types DEF FinalizerTurn, FinalizerTurnDue
<1>2. t \in Turns /\ NextTurns \in Seq(Turns)
  BY <1>1, NextIs
<1>3. CASE Unfinished(t) # {}
  BY <1>2, <1>3, Abandoning DEF FinalizerTurn
<1>4. CASE Unfinished(t) = {} /\ t \in ended
  BY <1>1, <1>2, <1>4, VisitingTurns DEF FinalizerTurn, LeaveTurn, TurnReached
<1>5. CASE Unfinished(t) = {} /\ t \notin ended
  BY <1>1, <1>2, <1>5, VisitingTurns DEF FinalizerTurn, LeaveTurn, TurnReached
<1>. QED
  BY <1>2, <1>3, <1>4, <1>5

-----------------------------------------------------------------------------
(* The types are kept                                                      *)

(* A message goes to a request in flight, or to a new one.                 *)
JoinsRequest(t, g) ==
  /\ \E i \in InFlight(t) : order[t][i] = g /\ \A j \in InFlight(t) : j <= i
  /\ g \notin ended /\ finish[g] = "none"
  /\ UNCHANGED <<turnOf, order>>

LEMMA Correlated ==
  ASSUME TypeOK, NEW t \in Turns, NEW g \in Generations, Correlate(t, g)
  PROVE  JoinsRequest(t, g) \/ (InFlight(t) = {} /\ Answers(t) = {} /\ NewGeneration(t, g))
<1>1. CASE InFlight(t) # {} /\ g = order[t][Max(InFlight(t))] /\ UNCHANGED <<turnOf, order>>
  <2>1. order[t] \in Seq(Generations)
    BY Types
  <2>2. Len(order[t]) \in Nat /\ InFlight(t) \subseteq 1..Len(order[t])
    BY <2>1 DEF InFlight
  <2>3. PICK i \in InFlight(t) : i = Max(InFlight(t)) /\ \A j \in InFlight(t) : j <= i
    BY <1>1, <2>2, MaxIs
  <2>4. order[t][i] = g
    BY <1>1, <2>3
  <2>. QED
    BY <1>1, <2>3, <2>4 DEF JoinsRequest, InFlight
<1>. QED
  BY <1>1 DEF Correlate

LEMMA NewTypes ==
  ASSUME TypeOK, NEW t \in Turns, NEW g \in Generations,
         NewGeneration(t, g) \/ UNCHANGED <<turnOf, order>>
  PROVE  /\ order' \in [Turns -> Seq(Generations)]
         /\ turnOf' \in [Generations -> Turns \cup {None}]
<1>1. /\ order \in [Turns -> Seq(Generations)] /\ order[t] \in Seq(Generations)
      /\ turnOf \in [Generations -> Turns \cup {None}]
  BY Types
<1>2. Append(order[t], g) \in Seq(Generations)
  BY <1>1
<1>. QED
  BY <1>1, <1>2 DEF NewGeneration

LEMMA AskTypes ==
  ASSUME TypeOK, NEW c \in Children, Ask(c) \/ EnsureAsked(c) \/ UNCHANGED <<line, start>>
  PROVE  /\ line' \in Seq(Children \cup {Prompt})
         /\ start' \in [Children -> {"none", "asked", "settled"}]
<1>. DEFINE S == Children \cup {Prompt}
<1>1. line \in Seq(S) /\ c \in S /\ start \in [Children -> {"none", "asked", "settled"}]
  BY Types
<1>. HIDE DEF S
<1>2. Append(line, c) \in Seq(S)
  BY <1>1
<1>3. line' \in Seq(S)
  BY <1>1, <1>2 DEF Ask, EnsureAsked
<1>4. start' \in [Children -> {"none", "asked", "settled"}]
  BY <1>1 DEF Ask, EnsureAsked
<1>. QED
  BY <1>3, <1>4 DEF S

LEMMA SettleTypes ==
  ASSUME TypeOK, NEW c \in Children, NEW wanted, StartSettles(c, wanted)
  PROVE  /\ line' \in Seq(Children \cup {Prompt})
         /\ start' \in [Children -> {"none", "asked", "settled"}]
         /\ span' \in [Children -> {"none", "open", "ended", "twice"}]
<1>. DEFINE S == Children \cup {Prompt}
<1>1. line \in Seq(S) /\ start \in [Children -> {"none", "asked", "settled"}]
  BY Types
<1>2. line' \in Seq(S)
  <2>. HIDE DEF S
  <2>. QED
    BY <1>1 DEF StartSettles, Answered
<1>3. start' \in [Children -> {"none", "asked", "settled"}]
  BY <1>1 DEF StartSettles
<1>4. span' \in [Children -> {"none", "open", "ended", "twice"}]
  BY Types DEF StartSettles
<1>. QED
  BY <1>2, <1>3, <1>4

LEMMA EndSpanTypes ==
  ASSUME TypeOK, NEW c \in Children, EndSpan(c)
  PROVE  span' \in [Children -> {"none", "open", "ended", "twice"}]
<1>1. span \in [Children -> {"none", "open", "ended", "twice"}]
  BY Types
<1>. QED
  BY <1>1 DEF EndSpan

LEMMA VisitTypes ==
  ASSUME TypeOK, NEW x \in Turns \cup {Prompt}, NEW t \in Turns, NEW marks \in SUBSET Turns,
         NEW cut \in SUBSET Turns,
         VisitTurn(x, t, marks, cut) \/ (Unfinished(t) # {} /\ Abandon(x, t, marks, cut))
  PROVE  /\ finish' \in [Generations \cup Tools -> {"none", "waiting", "unasked", "scoring", "done"}]
         /\ ended' \subseteq Children /\ abandoned' \subseteq Children
         /\ visiting' \in [Turns \cup {Prompt} -> Generations \cup {None}]
<1>1. Passes(x, marks, cut) \/ \E g \in Generations : Reaches(x, t, g, marks, cut)
  BY Visiting, Abandoning
<1>. QED
  BY <1>1, ReachTypes

LEMMA TypeInit == Init => TypeOK
<1>. SUFFICES ASSUME Init PROVE TypeOK
  OBVIOUS
<1>1. ScopeTypeOK
  BY DEF Init, ScopeInit, ScopeTypeOK, Stages
<1>2. activeTurns \in Seq(Turns) /\ IsInjective(activeTurns)
  BY DEF Init, TurnInit, IsInjective
<1>3. TurnTypeOK
  <2>1. <<>> \in Seq(Generations)
    OBVIOUS
  <2>2. order \in [Turns -> Seq(Generations)]
    BY <2>1 DEF Init, TurnInit
  <2>. QED
    BY <1>2, <2>2 DEF Init, TurnInit, TurnTypeOK
<1>4. ToolTypeOK
  BY DEF Init, ToolInit, ToolTypeOK
<1>5. given \in BOOLEAN /\ saysAbandoned \in BOOLEAN /\ left \in Seq(Turns)
  <2>1. given \in BOOLEAN /\ saysAbandoned \in BOOLEAN
    BY Zenon DEF Init
  <2>2. left = <<>>
    BY Zenon DEF Init
  <2>. QED
    BY <2>1, <2>2
<1>6. switched \in 0..MaxSwitches
  BY ScopeAssumption DEF Init
<1>. QED
  BY <1>1, <1>3, <1>4, <1>5, <1>6 DEF TypeOK

(* The steps that events, answers and continuations are, one by one.       *)
EventStep ==
  \/ \E t \in Turns : TurnStart(t) \/ TurnEndUntracked(t) \/ (Quiet /\ TurnEnd(t))
  \/ \E t \in Turns, g \in Generations :
       \/ BeforeProviderRequest(t, g) \/ MessageEvent(t, g)
       \/ MessageFails(t, g) \/ MessageEnd(t, g)
  \/ \E t \in Turns : TurnSpanStarts(t) \/ TurnEndContinues(t)
  \/ \E g \in Generations :
       (EndsThrough /\ GenerationStarts(g)) \/ FailureResumes(g) \/ GenerationFinishes(g)

ToolStep == \E k \in Tools :
  \/ ToolEvent(k) \/ ToolSpanStarts(k) \/ ToolScored(k) \/ ToolFinishes(k)
  \/ ToolResult(k) \/ ToolExecutionEnd(k)

FinalStep == \/ \E r \in BOOLEAN : Finalize(r)
             \/ FinalizerTools \/ FinalizerTurn \/ FinalizerScores \/ RootEnds

LEMMA Steps ==
  ASSUME [Next]_vars
  PROVE  \/ UNCHANGED promptVars
         \/ EventStep /\ UNCHANGED <<toolVars, finalVars>>
         \/ ToolStep /\ UNCHANGED <<turnVars, finalVars>>
         \/ FinalStep
<1>1. CASE Quiet /\ (TurnEvent \/ ToolsEvent \/ \E r \in BOOLEAN : Finalize(r))
  BY <1>1, Zenon DEF TurnEvent, ToolsEvent, EventStep, ToolStep, FinalStep
<1>2. CASE EndsThrough /\ RuntimeAnswers
  BY <1>2, Zenon DEF RuntimeAnswers, EventStep, ToolStep, FinalStep
<1>3. CASE Continuation
  BY <1>3, Zenon DEF Continuation, EventStep, ToolStep, FinalStep
<1>. QED
  BY <1>1, <1>2, <1>3, Zenon DEF Next, PromptStep, ConfigChange, Settled, vars

(* The configuration changes on its own, at most MaxSwitches times.        *)
LEMMA SwitchStep ==
  ASSUME TypeOK, [Next]_vars
  PROVE  switched' \in 0..MaxSwitches /\ switched <= switched'
<1>1. switched \in 0..MaxSwitches /\ MaxSwitches \in Nat
  BY ScopeAssumption DEF TypeOK
<1>2. switched' = switched \/ (switched < MaxSwitches /\ switched' = switched + 1)
  BY Zenon DEF Next, ConfigChange, SwitchTracing, Settled, vars
<1>. QED
  BY <1>1, <1>2

LEMMA EventTypes ==
  ASSUME TypeOK, switched' \in 0..MaxSwitches, EventStep, UNCHANGED <<toolVars, finalVars>>
  PROVE  TypeOK'
<1>. USE DEF TypeOK, ScopeTypeOK, TurnTypeOK, ToolTypeOK, toolVars, finalVars
<1>0. /\ \A t \in Turns : t \in Children /\ {t} \in SUBSET Turns /\ t \in Turns \cup {Prompt}
      /\ \A g \in Generations : g \in Children
      /\ {} \in SUBSET Turns
  BY Kinds
<1>1. ASSUME NEW t \in Turns, TurnStart(t) PROVE TypeOK'
  <2>1. /\ Append(activeTurns, t) \in Seq(Turns)
        /\ IsInjective(Append(activeTurns, t))
    BY <1>1 DEF TurnStart, Elements, IsInjective
  <2>. QED
    BY <1>0, <1>1, <2>1, AskTypes DEF TurnStart
<1>2. ASSUME NEW t \in Turns, TurnEndUntracked(t) PROVE TypeOK'
  BY <1>2 DEF TurnEndUntracked, scopeVars
<1>3. ASSUME NEW t \in Turns, TurnEnd(t) PROVE TypeOK'
  <2>1. /\ finish' \in [Generations \cup Tools -> {"none", "waiting", "unasked", "scoring", "done"}]
        /\ ended' \subseteq Children /\ abandoned' \subseteq Children
        /\ visiting' \in [Turns \cup {Prompt} -> Generations \cup {None}]
    <3>1. VisitTurn(t, t, {t}, {})
      BY <1>3 DEF TurnEnd
    <3>. HIDE DEF TypeOK
    <3>. QED
      BY <1>0, <3>1, VisitTypes
  <2>2. blamed' \in BOOLEAN
    BY <1>3, Zenon DEF TurnEnd, Blame
  <2>3. closing' \in [Turns -> {"none", "abandoning", "starting", "done"}]
    BY <1>3 DEF TurnEnd
  <2>4. /\ completed' \subseteq Turns
        /\ UNCHANGED <<stage, line, start, span, activeTurns, messageEnded, order, turnOf, failing>>
    BY <1>3 DEF TurnEnd
  <2>5. ScopeTypeOK' /\ ToolTypeOK'
    BY <2>1, <2>4
  <2>6. TurnTypeOK'
    BY <2>1, <2>2, <2>3, <2>4
  <2>7. given' \in BOOLEAN /\ saysAbandoned' \in BOOLEAN /\ left' \in Seq(Turns)
    OBVIOUS
  <2>. HIDE DEF ScopeTypeOK, TurnTypeOK, ToolTypeOK
  <2>. QED
    BY <2>5, <2>6, <2>7, Zenon
<1>4. ASSUME NEW t \in Turns, NEW g \in Generations, BeforeProviderRequest(t, g) PROVE TypeOK'
  BY <1>4, NewTypes DEF BeforeProviderRequest, scopeVars
<1>5. ASSUME NEW t \in Turns, NEW g \in Generations, MessageEvent(t, g) PROVE TypeOK'
  BY <1>0, <1>5, Correlated, NewTypes, AskTypes DEF MessageEvent, JoinsRequest
<1>6. ASSUME NEW t \in Turns, NEW g \in Generations, MessageFails(t, g) PROVE TypeOK'
  BY <1>0, <1>6, Correlated, NewTypes, AskTypes DEF MessageFails, JoinsRequest
<1>7. ASSUME NEW t \in Turns, NEW g \in Generations, MessageEnd(t, g) PROVE TypeOK'
  <2>1. /\ NewGeneration(t, g) \/ UNCHANGED <<turnOf, order>>
        /\ EnsureAsked(g) \/ UNCHANGED <<line, start>>
        /\ finish' = finish \/ finish' = [finish EXCEPT ![g] = "waiting"]
    BY <1>7, Correlated DEF MessageEnd, JoinsRequest
  <2>. QED
    BY <1>0, <1>7, <2>1, NewTypes, AskTypes DEF MessageEnd
<1>8. ASSUME NEW t \in Turns, TurnSpanStarts(t) PROVE TypeOK'
  BY <1>0, <1>8, SettleTypes DEF TurnSpanStarts, turnVars
<1>9. ASSUME NEW t \in Turns, TurnEndContinues(t) PROVE TypeOK'
  <2>1. CASE /\ Unfinished(t) # {} /\ Abandon(t, t, {}, {})
             /\ UNCHANGED <<closing, span, activeTurns, order, messageEnded>>
    <3>1. /\ finish' \in [Generations \cup Tools -> {"none", "waiting", "unasked", "scoring", "done"}]
          /\ ended' \subseteq Children /\ abandoned' \subseteq Children
          /\ visiting' \in [Turns \cup {Prompt} -> Generations \cup {None}]
      <4>. HIDE DEF TypeOK
      <4>. QED
        BY <1>0, <2>1, VisitTypes
    <3>. QED
      BY <1>9, <2>1, <3>1 DEF TurnEndContinues
  <2>2. CASE CloseTurn(t)
    <3>1. /\ RemoveFirst(activeTurns, t) \in Seq(Turns)
          /\ IsInjective(RemoveFirst(activeTurns, t))
      BY RemoveFirstFacts
    <3>2. span' \in [Children -> {"none", "open", "ended", "twice"}]
      BY <1>0, <2>2, EndSpanTypes DEF CloseTurn
    <3>. QED
      BY <1>9, <2>2, <3>1, <3>2 DEF TurnEndContinues, CloseTurn, LeaveLoop
  <2>3. CASE AwaitSpan(t)
    BY <1>9, <2>3 DEF TurnEndContinues, AwaitSpan, LeaveLoop
  <2>. QED
    BY <1>9, <2>1, <2>2, <2>3 DEF TurnEndContinues
<1>10. ASSUME NEW g \in Generations, GenerationStarts(g) PROVE TypeOK'
  BY <1>0, <1>10, SettleTypes DEF GenerationStarts, turnVars
<1>11. ASSUME NEW g \in Generations, FailureResumes(g) PROVE TypeOK'
  BY <1>11 DEF FailureResumes
<1>12. ASSUME NEW g \in Generations, GenerationFinishes(g) PROVE TypeOK'
  BY <1>0, <1>12, EndSpanTypes DEF GenerationFinishes, turnVars
<1>. QED
  BY <1>1, <1>2, <1>3, <1>4, <1>5, <1>6, <1>7, <1>8, <1>9, <1>10, <1>11, <1>12 DEF EventStep

LEMMA ToolTypes ==
  ASSUME TypeOK, switched' \in 0..MaxSwitches, ToolStep, UNCHANGED <<turnVars, finalVars>>
  PROVE  TypeOK'
<1>. USE DEF TypeOK, ScopeTypeOK, TurnTypeOK, ToolTypeOK, turnVars, finalVars
<1>0. \A k \in Tools : k \in Children
  BY Kinds
<1>1. ASSUME NEW k \in Tools, ToolEvent(k) PROVE TypeOK'
  BY <1>0, <1>1, AskTypes DEF ToolEvent
<1>2. ASSUME NEW k \in Tools, ToolResult(k) PROVE TypeOK'
  BY <1>2 DEF ToolResult, scopeVars
<1>3. ASSUME NEW k \in Tools, ToolExecutionEnd(k) PROVE TypeOK'
  BY <1>0, <1>3, AskTypes DEF ToolExecutionEnd, FinishTool
<1>4. ASSUME NEW k \in Tools, ToolSpanStarts(k) PROVE TypeOK'
  BY <1>0, <1>4, SettleTypes DEF ToolSpanStarts, toolVars
<1>5. ASSUME NEW k \in Tools, ToolScored(k) PROVE TypeOK'
  <2>1. PICK S : S = Children \cup {Prompt}
    OBVIOUS
  <2>2. line' \in Seq(S)
    BY <1>5, <2>1 DEF ToolScored, Answered
  <2>. QED
    BY <1>5, <2>1, <2>2 DEF ToolScored, toolVars
<1>6. ASSUME NEW k \in Tools, ToolFinishes(k) PROVE TypeOK'
  <2>1. PICK S : S = Children \cup {Prompt}
    OBVIOUS
  <2>2. line' \in Seq(S)
    <3>1. k \in S /\ line \in Seq(S)
      BY <1>0, <2>1
    <3>2. Append(line, k) \in Seq(S)
      BY <3>1
    <3>. QED
      BY <1>6, <3>1, <3>2 DEF ToolFinishes
  <2>3. span' \in [Children -> {"none", "open", "ended", "twice"}]
    BY <1>0, <1>6, EndSpanTypes DEF ToolFinishes
  <2>4. /\ finish' \in [Generations \cup Tools -> {"none", "waiting", "unasked", "scoring", "done"}]
        /\ ended' \subseteq Children
    BY <1>0, <1>6 DEF ToolFinishes
  <2>5. UNCHANGED <<stage, start, abandoned, toolVars>>
    BY <1>6 DEF ToolFinishes
  <2>. QED
    BY <2>1, <2>2, <2>3, <2>4, <2>5 DEF toolVars
<1>. QED
  BY <1>1, <1>2, <1>3, <1>4, <1>5, <1>6 DEF ToolStep

(* What a step of the finalizer may touch keeps its type.                  *)
LEMMA ToolReachedTypes ==
  ASSUME TypeOK, NEW k \in Tools, ToolReached(k)
  PROVE  /\ line' \in Seq(Children \cup {Prompt})
         /\ start' \in [Children -> {"none", "asked", "settled"}]
         /\ finish' \in [Generations \cup Tools -> {"none", "waiting", "unasked", "scoring", "done"}]
         /\ abandoned' \subseteq Children
         /\ awaitedTool' \in Tools \cup {None}
<1>1. k \in Children
  BY Kinds
<1>2. CASE finish[k] # "none"
  BY <1>2, Types DEF ToolReached, EndUnfinished
<1>3. CASE finish[k] = "none"
  <2>1. /\ \E f \in {"waiting", "unasked"} : finish' = [finish EXCEPT ![k] = f]
        /\ EnsureAsked(k) \/ UNCHANGED <<line, start>>
        /\ abandoned' = abandoned \/ abandoned' = abandoned \cup {k}
    BY <1>3 DEF ToolReached, EndUnfinished, FinishTool
  <2>2. awaitedTool' = k
    BY DEF ToolReached
  <2>. QED
    BY <1>1, <2>1, <2>2, AskTypes, Types
<1>. QED
  BY <1>2, <1>3

LEMMA TurnReachedTypes ==
  ASSUME TypeOK, NEW ts \in Seq(Turns), NEW marks \in SUBSET Turns, NEW cut \in SUBSET Turns,
         TurnReached(ts, marks, cut)
  PROVE  /\ stage' \in Stages /\ left' \in Seq(Turns)
         /\ finish' \in [Generations \cup Tools -> {"none", "waiting", "unasked", "scoring", "done"}]
         /\ ended' \subseteq Children /\ abandoned' \subseteq Children
         /\ visiting' \in [Turns \cup {Prompt} -> Generations \cup {None}]
<1>1. Prompt \in Turns \cup {Prompt} /\ stage' \in Stages /\ left' \in Seq(Turns)
  BY DEF TurnReached, Stages
<1>2. Passes(Prompt, marks, cut) \/ \E g \in Generations : Reaches(Prompt, Head(ts), g, marks, cut)
  BY DEF TurnReached
<1>. QED
  BY <1>1, <1>2, ReachTypes

LEMMA FinalTypes ==
  ASSUME TypeOK, switched' \in 0..MaxSwitches, FinalStep
  PROVE  TypeOK'
<1>0. {} \in SUBSET Turns /\ Prompt \in Children \cup {Prompt} /\ activeTurns \in Seq(Turns)
  BY Types
<1>1. ASSUME NEW r \in BOOLEAN, Finalize(r) PROVE TypeOK'
  <2>1. given' \in BOOLEAN /\ saysAbandoned' \in BOOLEAN
    BY <1>1, Zenon DEF Finalize
  <2>2. UNCHANGED <<span, activeTurns, completed, messageEnded, order, turnOf, failing,
                    closing, blamed>>
    BY <1>1 DEF Finalize
  <2>3. CASE TurnReached(activeTurns, {}, {}) /\ UNCHANGED <<toolRest, activeTools>>
    BY <1>0, <2>1, <2>2, <2>3, TurnReachedTypes
       DEF TypeOK, ScopeTypeOK, TurnTypeOK, ToolTypeOK, toolRest
  <2>4. CASE /\ stage' = "tools" /\ left' = <<>>
             /\ UNCHANGED <<toolRest, activeTools, visiting, finish, ended, abandoned>>
    BY <2>1, <2>2, <2>4 DEF TypeOK, ScopeTypeOK, TurnTypeOK, ToolTypeOK, toolRest, Stages
  <2>5. ASSUME NEW k \in Tools, stage' = "tools", left' = <<>>, ToolReached(k) PROVE TypeOK'
    <3>1. left' \in Seq(Turns) /\ stage' \in Stages
      BY <2>5 DEF Stages
    <3>2. UNCHANGED <<span, ended, resultSeen, activeTools, visiting>>
      BY <2>5 DEF ToolReached
    <3>. QED
      BY <2>1, <2>2, <2>5, <3>1, <3>2, ToolReachedTypes
         DEF TypeOK, ScopeTypeOK, TurnTypeOK, ToolTypeOK
  <2>. QED
    BY <1>1, <2>3, <2>4, <2>5, FinalizeSteps
<1>2. CASE FinalizerTools
  <2>1. UNCHANGED <<activeTurns, completed, messageEnded, order, turnOf, failing,
                    closing, blamed, given, saysAbandoned>>
    BY <1>2 DEF FinalizerTools
  <2>2. CASE /\ activeTools' = {} /\ TurnReached(activeTurns, {}, {})
             /\ UNCHANGED <<line, start, span>> /\ resultSeen' = {} /\ awaitedTool' = None
    BY <1>0, <2>1, <2>2, TurnReachedTypes
       DEF TypeOK, ScopeTypeOK, TurnTypeOK, ToolTypeOK
  <2>3. ASSUME NEW k \in Tools, ToolReached(k), UNCHANGED <<stage, left>> PROVE TypeOK'
    BY <2>1, <2>3, ToolReachedTypes
       DEF TypeOK, ScopeTypeOK, TurnTypeOK, ToolTypeOK, ToolReached
  <2>. QED
    BY <1>2, <2>2, <2>3, FinalizerToolsSteps
<1>3. CASE FinalizerTurn
  <2>1. UNCHANGED <<line, start, activeTurns, completed, messageEnded, turnOf, failing,
                    closing, blamed, toolVars, given, saysAbandoned>>
    BY <1>3 DEF FinalizerTurn
  <2>2. PICK t : t = Head(left)
    OBVIOUS
  <2>3. t \in Turns /\ t \in Children /\ NextTurns \in Seq(Turns)
    BY <1>3, <2>2, FinalizerTurnSteps, NextIs, Types, Kinds DEF FinalizerTurn, FinalizerTurnDue
  <2>4. ASSUME NEW g \in Generations, Reaches(Prompt, t, g, {}, {}),
               UNCHANGED <<stage, left, span, order>>
        PROVE  TypeOK'
    BY <1>0, <2>1, <2>4, ReachTypes
       DEF TypeOK, ScopeTypeOK, TurnTypeOK, ToolTypeOK, toolVars
  <2>5. CASE TurnReached(NextTurns, {}, {}) /\ UNCHANGED <<span, order>>
    BY <1>0, <2>1, <2>3, <2>5, TurnReachedTypes
       DEF TypeOK, ScopeTypeOK, TurnTypeOK, ToolTypeOK, toolVars
  <2>6. CASE /\ TurnReached(NextTurns, {t}, {t})
             /\ EndSpan(t) /\ order' = [order EXCEPT ![t] = <<>>]
    <3>1. order' \in [Turns -> Seq(Generations)]
      BY <2>3, <2>6, Types
    <3>2. {t} \in SUBSET Turns
      BY <2>3
    <3>3. span' \in [Children -> {"none", "open", "ended", "twice"}]
      BY <2>3, <2>6, EndSpanTypes
    <3>. QED
      BY <2>1, <2>3, <2>6, <3>1, <3>2, <3>3, TurnReachedTypes
         DEF TypeOK, ScopeTypeOK, TurnTypeOK, ToolTypeOK, toolVars
  <2>. QED
    BY <1>3, <2>2, <2>4, <2>5, <2>6, FinalizerTurnSteps
<1>4. CASE FinalizerScores
  <2>1. PICK S : S = Children \cup {Prompt}
    OBVIOUS
  <2>2. line' \in Seq(S)
    <3>1. line \in Seq(S) /\ Prompt \in S
      BY <1>0, <2>1, Types
    <3>2. Append(line, Prompt) \in Seq(S)
      BY <3>1
    <3>. QED
      BY <1>4, <3>1, <3>2 DEF FinalizerScores
  <2>3. activeTurns' \in Seq(Turns) /\ IsInjective(activeTurns') /\ stage' \in Stages
    BY <1>4 DEF FinalizerScores, IsInjective, Stages
  <2>. QED
    BY <1>4, <2>1, <2>2, <2>3
       DEF TypeOK, ScopeTypeOK, TurnTypeOK, ToolTypeOK, FinalizerScores, toolVars, finalVars
<1>5. CASE RootEnds
  <2>1. PICK S : S = Children \cup {Prompt}
    OBVIOUS
  <2>2. line' \in Seq(S) /\ stage' \in Stages
    BY <1>5, <2>1, Types DEF RootEnds, Answered, Stages
  <2>. QED
    BY <1>5, <2>1, <2>2
       DEF TypeOK, ScopeTypeOK, TurnTypeOK, ToolTypeOK, RootEnds, turnVars, toolVars, finalVars
<1>. QED
  BY <1>1, <1>2, <1>3, <1>4, <1>5 DEF FinalStep

LEMMA TypeStep ==
  ASSUME TypeOK, [Next]_vars
  PROVE  TypeOK'
<1>0. switched' \in 0..MaxSwitches
  BY SwitchStep
<1>1. CASE UNCHANGED promptVars
  BY <1>0, <1>1 DEF TypeOK, ScopeTypeOK, TurnTypeOK, ToolTypeOK, promptVars, scopeVars, turnVars,
                    toolVars, finalVars
<1>. QED
  BY <1>0, <1>1, Steps, EventTypes, ToolTypes, FinalTypes

-----------------------------------------------------------------------------
(* What a step does to one request                                         *)

RequestKept(g) ==
  /\ start'[g] = start[g] /\ span'[g] = span[g] /\ finish'[g] = finish[g]
  /\ turnOf'[g] = turnOf[g]
  /\ g \in ended' <=> g \in ended
  /\ g \in abandoned' <=> g \in abandoned
  /\ g \in failing' <=> g \in failing

(* No later request of the turn is in flight.                              *)
Newest(t, g) == \E i \in DOMAIN order'[t] :
  order'[t][i] = g /\ \A j \in InFlight(t)' : j <= i

RequestSeen(g) == \E t \in Turns :
  /\ Observed(t) /\ turnOf[g] \in {None, t} /\ turnOf'[g] = t /\ g \in Elements(order'[t])
  /\ g \notin ended /\ g \notin ended' /\ finish[g] = "none" /\ finish'[g] \in {"none", "waiting"}
  /\ span'[g] = span[g]
  /\ g \in abandoned' <=> g \in abandoned
  /\ g \in failing => g \in failing'
  /\ \/ start'[g] = start[g]
     \/ start[g] = "none" /\ start'[g] = "asked" /\ Newest(t, g) /\ line' = Append(line, g)
  /\ finish'[g] = "waiting" \/ (g \in failing' /\ g \notin failing) => start'[g] # "none"

RequestStarts(g) ==
  /\ EndsThrough /\ Answered(g)
  /\ start[g] = "asked" /\ start'[g] = "settled"
  /\ \/ span'[g] = "open" /\ g \notin ended /\ turnOf[g] \in Elements(activeTurns)
     \/ span'[g] = span[g]
  /\ finish'[g] = finish[g] /\ turnOf'[g] = turnOf[g]
  /\ g \in ended' <=> g \in ended
  /\ g \in abandoned' <=> g \in abandoned
  /\ g \in failing' <=> g \in failing

RequestFails(g) ==
  /\ FailureDue(g)
  /\ g \in failing /\ g \notin failing'
  /\ finish'[g] = IF finish[g] = "none" THEN "waiting" ELSE finish[g]
  /\ start'[g] = start[g] /\ span'[g] = span[g] /\ turnOf'[g] = turnOf[g]
  /\ g \in ended' <=> g \in ended
  /\ g \in abandoned' <=> g \in abandoned

RequestEnds(g) ==
  /\ finish[g] = "waiting" /\ start[g] # "asked" /\ finish'[g] = "done"
  /\ \/ /\ g \in abandoned \/ (g \notin ended /\ span[g] # "none")
        /\ g \in ended'
        /\ span'[g] = IF span[g] = "none" THEN "none"
                      ELSE IF span[g] = "open" THEN "ended" ELSE "twice"
     \/ /\ g \notin abandoned /\ (g \in ended \/ span[g] = "none")
        /\ span'[g] = span[g] /\ (g \in ended' <=> g \in ended)
  /\ start'[g] = start[g] /\ turnOf'[g] = turnOf[g]
  /\ g \in abandoned' <=> g \in abandoned
  /\ g \in failing' <=> g \in failing

(* The prompt or the request's turn, whose turn_end came, ends it.         *)
RequestAbandoned(g) ==
  /\ g \notin ended /\ finish[g] = "none" /\ finish'[g] = "waiting"
  /\ g \in ended' /\ g \in abandoned'
  /\ turnOf[g] \in Turns /\ turnOf'[g] = turnOf[g]
  /\ \/ visiting'[Prompt] = g
     \/ visiting'[turnOf[g]] = g /\ closing'[turnOf[g]] = "abandoning"
  /\ start'[g] = start[g] /\ span'[g] = span[g]
  /\ g \in failing' <=> g \in failing

LEMMA AskEffect ==
  ASSUME TypeOK, NEW c \in Children, EnsureAsked(c)
  PROVE  /\ start' = [start EXCEPT ![c] = IF @ = "none" THEN "asked" ELSE @]
         /\ \/ start[c] # "none" /\ line' = line
            \/ start[c] = "none" /\ line' = Append(line, c)
<1>1. start \in [Children -> {"none", "asked", "settled"}]
  BY Types
<1>2. CASE start[c] = "none"
  BY <1>1, <1>2 DEF EnsureAsked, Ask
<1>3. CASE start[c] # "none"
  BY <1>1, <1>3 DEF EnsureAsked
<1>. QED
  BY <1>2, <1>3

(* A message is seen by the request it goes to.                            *)
LEMMA MessageSeen ==
  ASSUME IInv, NEW t \in Turns, NEW h \in Generations, Observed(t), Correlate(t, h),
         EnsureAsked(h), UNCHANGED <<span, ended, abandoned>>,
         \/ finish' = finish /\ (failing' = failing \/ failing' = failing \cup {h})
         \/ finish' = [finish EXCEPT ![h] = "waiting"] /\ failing' = failing,
         NEW g \in Generations
  PROVE  RequestKept(g) \/ RequestSeen(g)
<1>0. /\ TypeOK /\ RequestsRight /\ OrdersRight /\ h \in Children /\ g \in Children
      /\ finish \in [Generations \cup Tools -> {"none", "waiting", "unasked", "scoring", "done"}]
      /\ start \in [Children -> {"none", "asked", "settled"}]
      /\ turnOf \in [Generations -> Turns \cup {None}]
      /\ order \in [Turns -> Seq(Generations)]
  BY Types, Kinds DEF IInv
<1>1. start' = [start EXCEPT ![h] = IF @ = "none" THEN "asked" ELSE @]
  BY <1>0, AskEffect
<1>2. JoinsRequest(t, h) \/ (InFlight(t) = {} /\ Answers(t) = {} /\ NewGeneration(t, h))
  BY <1>0, Correlated
<1>3. CASE g # h
  <2>1. turnOf'[g] = turnOf[g]
    BY <1>0, <1>2, <1>3 DEF JoinsRequest, NewGeneration
  <2>. QED
    BY <1>0, <1>1, <1>3, <2>1 DEF RequestKept
<1>4. CASE g = h /\ JoinsRequest(t, h)
  <2>1. PICK i \in InFlight(t) : order[t][i] = h /\ \A j \in InFlight(t) : j <= i
    BY <1>4 DEF JoinsRequest
  <2>2. order' = order /\ turnOf' = turnOf /\ h \notin ended /\ finish[h] = "none"
    BY <1>4 DEF JoinsRequest
  <2>3. i \in DOMAIN order[t] /\ turnOf[h] = t /\ h \in Elements(order'[t])
    BY <1>0, <2>1, <2>2 DEF OrdersRight, InFlight, Elements
  <2>4. \A j \in InFlight(t)' : j \in InFlight(t)
    BY <1>0, <2>2 DEF InFlight
  <2>5. Newest(t, h)
    BY <2>1, <2>2, <2>3, <2>4 DEF Newest
  <2>6. \/ start[h] # "none" /\ line' = line
        \/ start[h] = "none" /\ line' = Append(line, h)
    BY <1>0, AskEffect
  <2>. QED
    BY <1>0, <1>1, <1>4, <2>2, <2>3, <2>5, <2>6 DEF RequestSeen
<1>5. CASE g = h /\ InFlight(t) = {} /\ NewGeneration(t, h)
  <2>1. /\ turnOf[h] = None /\ turnOf'[h] = t /\ order'[t] = Append(order[t], h)
        /\ start[h] = "none" /\ finish[h] = "none" /\ h \notin ended \cup abandoned \cup failing
    BY <1>0, <1>5 DEF NewGeneration, RequestsRight
  <2>2. PICK n \in Nat : n = Len(order[t]) /\ DOMAIN order[t] = 1..n
    BY <1>0
  <2>3. /\ DOMAIN order'[t] = 1..(n + 1) /\ order'[t][n + 1] = h
        /\ \A j \in 1..n : order'[t][j] = order[t][j]
    BY <1>0, <2>1, <2>2
  <2>4. \A j \in 1..n : j \notin InFlight(t)'
    BY <1>0, <1>5, <2>2, <2>3 DEF InFlight
  <2>5. \A j \in InFlight(t)' : j <= n + 1
    BY <2>3 DEF InFlight
  <2>6. Newest(t, h) /\ h \in Elements(order'[t])
    BY <2>2, <2>3, <2>5 DEF Newest, Elements
  <2>7. line' = Append(line, h)
    BY <1>0, <2>1, AskEffect
  <2>. QED
    BY <1>0, <1>1, <1>5, <2>1, <2>6, <2>7 DEF RequestSeen
<1>. QED
  BY <1>2, <1>3, <1>4, <1>5

(* A visit abandons the request, or leaves it as it is.                    *)
LEMMA RequestVisited ==
  ASSUME IInv, NEW x \in Turns \cup {Prompt}, NEW t \in Turns, NEW h \in Generations,
         NEW marks \in SUBSET Turns, NEW cut \in SUBSET Turns,
         Reaches(x, t, h, marks, cut) \/ Passes(x, marks, cut),
         x = Prompt \/ (x = t /\ closing'[t] = "abandoning"),
         UNCHANGED <<start, turnOf, failing>>,
         NEW g \in Generations, span'[g] = span[g]
  PROVE  RequestKept(g) \/ RequestAbandoned(g)
<1>0. /\ g \notin marks /\ g \notin cut /\ TypeOK /\ OrdersRight
      /\ finish \in [Generations \cup Tools -> {"none", "waiting", "unasked", "scoring", "done"}]
      /\ visiting \in [Turns \cup {Prompt} -> Generations \cup {None}]
  BY Types, Kinds DEF IInv
<1>1. CASE Passes(x, marks, cut)
  BY <1>0, <1>1 DEF Passes, RequestKept
<1>2. CASE Reaches(x, t, h, marks, cut) /\ (g # h \/ finish[h] # "none")
  BY <1>0, <1>2 DEF Reaches, RequestKept
<1>3. CASE Reaches(x, t, h, marks, cut) /\ g = h /\ finish[h] = "none"
  <2>1. g \in Unfinished(t) /\ turnOf[g] = t /\ g \notin ended
    BY <1>0, <1>3 DEF Reaches, FirstOf, Unfinished, OrdersRight
  <2>2. visiting'[x] = g
    BY <1>0, <1>3 DEF Reaches
  <2>. QED
    BY <1>0, <1>3, <2>1, <2>2 DEF Reaches, RequestAbandoned
<1>. QED
  BY <1>1, <1>2, <1>3

LEMMA RequestEvent ==
  ASSUME IInv, EventStep, NEW g \in Generations
  PROVE  RequestKept(g) \/ RequestSeen(g) \/ RequestStarts(g) \/ RequestFails(g)
           \/ RequestEnds(g) \/ RequestAbandoned(g)
<1>0. /\ TypeOK /\ RequestsRight /\ g \in Children
      /\ start \in [Children -> {"none", "asked", "settled"}]
      /\ span \in [Children -> {"none", "open", "ended", "twice"}]
      /\ finish \in [Generations \cup Tools -> {"none", "waiting", "unasked", "scoring", "done"}]
      /\ turnOf \in [Generations -> Turns \cup {None}]
      /\ order \in [Turns -> Seq(Generations)]
      /\ \A t \in Turns : t # g /\ t \in Turns \cup {Prompt}
  BY Types, Kinds DEF IInv
<1>1. ASSUME NEW t \in Turns, TurnStart(t) PROVE RequestKept(g)
  BY <1>0, <1>1 DEF TurnStart, Ask, RequestKept
<1>2. ASSUME NEW t \in Turns, TurnEndUntracked(t) PROVE RequestKept(g)
  BY <1>2 DEF TurnEndUntracked, scopeVars, RequestKept
<1>3. ASSUME NEW t \in Turns, TurnEnd(t) PROVE RequestKept(g) \/ RequestAbandoned(g)
  <2>1. /\ UNCHANGED <<start, turnOf, failing>> /\ span'[g] = span[g]
        /\ closing'[t] = "abandoning" /\ VisitTurn(t, t, {t}, {})
    BY <1>3, Types DEF TurnEnd, IInv
  <2>2. Passes(t, {t}, {}) \/ \E h \in Generations : Reaches(t, t, h, {t}, {})
    BY <1>0, <2>1, Visiting
  <2>3. {t} \in SUBSET Turns /\ {} \in SUBSET Turns
    OBVIOUS
  <2>. QED
    BY <1>0, <2>1, <2>2, <2>3, RequestVisited
<1>4. ASSUME NEW t \in Turns, NEW h \in Generations, BeforeProviderRequest(t, h)
      PROVE  RequestKept(g) \/ RequestSeen(g)
  <2>1. CASE g # h
    BY <1>0, <1>4, <2>1 DEF BeforeProviderRequest, NewGeneration, scopeVars, RequestKept
  <2>2. CASE g = h
    <3>1. /\ turnOf[g] = None /\ finish[g] = "none" /\ g \notin ended
      BY <1>0, <1>4, <2>2 DEF BeforeProviderRequest, NewGeneration, RequestsRight
    <3>2. /\ order'[t] = Append(order[t], g) /\ turnOf'[g] = t
      BY <1>0, <1>4, <2>2 DEF BeforeProviderRequest, NewGeneration
    <3>3. g \in Elements(order'[t])
      <4>1. PICK n \in Nat : n = Len(order[t])
        BY <1>0
      <4>2. DOMAIN order'[t] = 1..(n + 1) /\ order'[t][n + 1] = g
        BY <1>0, <3>2, <4>1
      <4>. QED
        BY <4>2 DEF Elements
    <3>. QED
      BY <1>0, <1>4, <2>2, <3>1, <3>2, <3>3 DEF BeforeProviderRequest, scopeVars, RequestSeen
  <2>. QED
    BY <2>1, <2>2
<1>5. ASSUME NEW t \in Turns, NEW h \in Generations, MessageEvent(t, h)
      PROVE  RequestKept(g) \/ RequestSeen(g)
  BY <1>5, MessageSeen DEF MessageEvent
<1>6. ASSUME NEW t \in Turns, NEW h \in Generations, MessageFails(t, h)
      PROVE  RequestKept(g) \/ RequestSeen(g)
  BY <1>6, MessageSeen DEF MessageFails
<1>7. ASSUME NEW t \in Turns, NEW h \in Generations, MessageEnd(t, h)
      PROVE  RequestKept(g) \/ RequestSeen(g)
  <2>1. CASE Correlate(t, h) /\ EnsureAsked(h) /\ finish' = [finish EXCEPT ![h] = "waiting"]
    BY <1>7, <2>1, MessageSeen DEF MessageEnd
  <2>2. CASE UNCHANGED <<line, start, finish, order, turnOf>>
    BY <1>7, <2>2 DEF MessageEnd, RequestKept
  <2>. QED
    BY <1>7, <2>1, <2>2 DEF MessageEnd
<1>8. ASSUME NEW t \in Turns, TurnSpanStarts(t) PROVE RequestKept(g)
  BY <1>0, <1>8 DEF TurnSpanStarts, StartSettles, turnVars, RequestKept
<1>9. ASSUME NEW t \in Turns, TurnEndContinues(t) PROVE RequestKept(g) \/ RequestAbandoned(g)
  <2>1. CASE /\ closing[t] = "abandoning" /\ Unfinished(t) # {} /\ Abandon(t, t, {}, {})
             /\ UNCHANGED <<closing, span, activeTurns, order, messageEnded>>
    <3>1. \E h \in Generations : Reaches(t, t, h, {}, {})
      BY <1>0, <2>1, Abandoning
    <3>2. {} \in SUBSET Turns /\ UNCHANGED <<start, turnOf, failing>>
      BY <1>9 DEF TurnEndContinues
    <3>. QED
      BY <1>0, <2>1, <3>1, <3>2, RequestVisited
  <2>2. CASE CloseTurn(t)
    BY <1>0, <1>9, <2>2 DEF TurnEndContinues, CloseTurn, EndSpan, RequestKept
  <2>3. CASE AwaitSpan(t)
    BY <1>9, <2>3 DEF TurnEndContinues, AwaitSpan, RequestKept
  <2>. QED
    BY <1>9, <2>1, <2>2, <2>3 DEF TurnEndContinues
<1>10. ASSUME NEW h \in Generations, GenerationStarts(h), EndsThrough
       PROVE  RequestKept(g) \/ RequestStarts(g)
  <2>0. h \in Children
    BY Kinds
  <2>1. CASE g # h
    BY <1>0, <1>10, <2>0, <2>1 DEF GenerationStarts, StartSettles, turnVars, RequestKept
  <2>2. CASE g = h
    BY <1>0, <1>10, <2>0, <2>2 DEF GenerationStarts, StartSettles, turnVars, RequestStarts
  <2>. QED
    BY <2>1, <2>2
<1>11. ASSUME NEW h \in Generations, FailureResumes(h) PROVE RequestKept(g) \/ RequestFails(g)
  <2>1. CASE g # h
    BY <1>0, <1>11, <2>1 DEF FailureResumes, RequestKept
  <2>2. CASE g = h
    BY <1>0, <1>11, <2>2 DEF FailureResumes, RequestFails, FailureDue
  <2>. QED
    BY <2>1, <2>2
<1>12. ASSUME NEW h \in Generations, GenerationFinishes(h) PROVE RequestKept(g) \/ RequestEnds(g)
  <2>0. h \in Children
    BY Kinds
  <2>1. CASE g # h
    BY <1>0, <1>12, <2>0, <2>1 DEF GenerationFinishes, EndSpan, turnVars, RequestKept
  <2>2. CASE g = h
    BY <1>0, <1>12, <2>0, <2>2
       DEF GenerationFinishes, FinishDue, Started, EndSpan, turnVars, RequestEnds
  <2>. QED
    BY <2>1, <2>2
<1>. QED
  BY <1>1, <1>2, <1>3, <1>4, <1>5, <1>6, <1>7, <1>8, <1>9, <1>10, <1>11, <1>12 DEF EventStep

LEMMA RequestTool ==
  ASSUME IInv, ToolStep, UNCHANGED <<turnVars, finalVars>>, NEW g \in Generations
  PROVE  RequestKept(g)
<1>0. /\ g \in Children
      /\ start \in [Children -> {"none", "asked", "settled"}]
      /\ span \in [Children -> {"none", "open", "ended", "twice"}]
      /\ finish \in [Generations \cup Tools -> {"none", "waiting", "unasked", "scoring", "done"}]
      /\ \A k \in Tools : k # g /\ k \in Children
  BY Types, Kinds DEF IInv
<1>. USE DEF turnVars, RequestKept
<1>1. ASSUME NEW k \in Tools, ToolEvent(k) PROVE RequestKept(g)
  BY <1>0, <1>1 DEF ToolEvent, EnsureAsked, Ask
<1>2. ASSUME NEW k \in Tools, ToolResult(k) PROVE RequestKept(g)
  BY <1>2 DEF ToolResult, scopeVars
<1>3. ASSUME NEW k \in Tools, ToolExecutionEnd(k) PROVE RequestKept(g)
  BY <1>0, <1>3 DEF ToolExecutionEnd, FinishTool, EnsureAsked, Ask
<1>4. ASSUME NEW k \in Tools, ToolSpanStarts(k) PROVE RequestKept(g)
  BY <1>0, <1>4 DEF ToolSpanStarts, StartSettles
<1>5. ASSUME NEW k \in Tools, ToolScored(k) PROVE RequestKept(g)
  BY <1>0, <1>5 DEF ToolScored
<1>6. ASSUME NEW k \in Tools, ToolFinishes(k) PROVE RequestKept(g)
  BY <1>0, <1>6 DEF ToolFinishes, EndSpan
<1>. QED
  BY <1>1, <1>2, <1>3, <1>4, <1>5, <1>6 DEF ToolStep

LEMMA RequestFinal ==
  ASSUME IInv, FinalStep, NEW g \in Generations
  PROVE  RequestKept(g) \/ RequestAbandoned(g)
<1>0. /\ g \in Children /\ TypeOK /\ activeTurns \in Seq(Turns) /\ left \in Seq(Turns)
      /\ start \in [Children -> {"none", "asked", "settled"}]
      /\ span \in [Children -> {"none", "open", "ended", "twice"}]
      /\ finish \in [Generations \cup Tools -> {"none", "waiting", "unasked", "scoring", "done"}]
      /\ \A c \in Turns \cup Tools : c # g /\ c \in Children
      /\ {} \in SUBSET Turns /\ Prompt \in Turns \cup {Prompt}
  BY Types, Kinds DEF IInv
<1>1. ASSUME NEW k \in Tools, ToolReached(k), UNCHANGED <<turnOf, failing>> PROVE RequestKept(g)
  BY <1>0, <1>1 DEF ToolReached, EndUnfinished, FinishTool, EnsureAsked, Ask, RequestKept
<1>2. ASSUME NEW ts \in Seq(Turns), NEW marks \in SUBSET Turns, NEW cut \in SUBSET Turns,
             TurnReached(ts, marks, cut), UNCHANGED <<start, turnOf, failing>>,
             span'[g] = span[g]
      PROVE  RequestKept(g) \/ RequestAbandoned(g)
  <2>1. CASE Passes(Prompt, marks, cut)
    BY <1>0, <1>2, <2>1 DEF Passes, RequestKept
  <2>2. ASSUME NEW h \in Generations, ts # <<>>, Reaches(Prompt, Head(ts), h, marks, cut)
        PROVE  RequestKept(g) \/ RequestAbandoned(g)
    <3>1. PICK t \in Turns : t = Head(ts)
      BY <2>2
    <3>. QED
      BY <1>0, <1>2, <2>2, <3>1, RequestVisited
  <2>. QED
    BY <1>2, <2>1, <2>2 DEF TurnReached
<1>3. ASSUME NEW r, Finalize(r) PROVE RequestKept(g) \/ RequestAbandoned(g)
  <2>1. UNCHANGED <<span, turnOf, failing>>
    BY <1>3 DEF Finalize
  <2>2. CASE TurnReached(activeTurns, {}, {}) /\ UNCHANGED <<toolRest, activeTools>>
    BY <1>0, <1>2, <2>1, <2>2 DEF toolRest
  <2>3. CASE UNCHANGED <<toolRest, activeTools, visiting, finish, ended, abandoned>>
    BY <2>1, <2>3 DEF toolRest, RequestKept
  <2>. QED
    BY <1>0, <1>1, <1>3, <2>1, <2>2, <2>3, FinalizeSteps
<1>4. CASE FinalizerTools
  <2>1. UNCHANGED <<turnOf, failing>>
    BY <1>4 DEF FinalizerTools
  <2>2. CASE TurnReached(activeTurns, {}, {}) /\ UNCHANGED <<line, start, span>>
    BY <1>0, <1>2, <2>1, <2>2 DEF toolRest
  <2>. QED
    BY <1>0, <1>1, <1>4, <2>1, <2>2, FinalizerToolsSteps
<1>5. CASE FinalizerTurn
  <2>1. UNCHANGED <<start, turnOf, failing, closing>>
    BY <1>5 DEF FinalizerTurn
  <2>2. PICK t : t = Head(left)
    OBVIOUS
  <2>3. t \in Turns /\ NextTurns \in Seq(Turns) /\ {t} \in SUBSET Turns
    BY <1>0, <1>5, <2>2, FinalizerTurnSteps, NextIs DEF FinalizerTurn, FinalizerTurnDue
  <2>4. ASSUME NEW h \in Generations, Reaches(Prompt, t, h, {}, {}), span' = span
        PROVE  RequestKept(g) \/ RequestAbandoned(g)
    BY <1>0, <2>1, <2>3, <2>4, RequestVisited
  <2>5. CASE TurnReached(NextTurns, {}, {}) /\ span' = span
    BY <1>0, <1>2, <2>1, <2>3, <2>5
  <2>6. CASE TurnReached(NextTurns, {t}, {t}) /\ EndSpan(t)
    BY <1>0, <1>2, <2>1, <2>3, <2>6 DEF EndSpan
  <2>. QED
    BY <1>0, <1>5, <2>2, <2>4, <2>5, <2>6, FinalizerTurnSteps
<1>6. CASE FinalizerScores
  BY <1>6 DEF FinalizerScores, RequestKept
<1>7. CASE RootEnds
  BY <1>7 DEF RootEnds, turnVars, RequestKept
<1>. QED
  BY <1>3, <1>4, <1>5, <1>6, <1>7 DEF FinalStep

LEMMA RequestMove ==
  ASSUME IInv, [Next]_vars, NEW g \in Generations
  PROVE  RequestKept(g) \/ RequestSeen(g) \/ RequestStarts(g) \/ RequestFails(g)
           \/ RequestEnds(g) \/ RequestAbandoned(g)
<1>1. CASE UNCHANGED promptVars
  BY <1>1 DEF promptVars, scopeVars, turnVars, RequestKept
<1>. QED
  BY <1>1, Steps, RequestEvent, RequestTool, RequestFinal

-----------------------------------------------------------------------------
(* What a step does to one turn                                            *)

MapKept(t) ==
  stage' \notin {"scores", "done"} =>
    /\ t \in Elements(activeTurns') <=> t \in Elements(activeTurns)
    /\ t \in completed => t \in completed'

ListsNew(t) == \E g \in Generations :
  Observed(t) /\ turnOf[g] = None /\ turnOf'[g] = t /\ order'[t] = Append(order[t], g)

SpanClosed(t) == span'[t] = IF span[t] = "none" THEN "none"
                            ELSE IF span[t] = "open" THEN "ended" ELSE "twice"

TurnKept(t) ==
  /\ start'[t] = start[t] /\ span'[t] = span[t] /\ closing'[t] = closing[t]
  /\ t \in ended' <=> t \in ended
  /\ order'[t] = order[t] \/ ListsNew(t)
  /\ MapKept(t)

TurnBegins(t) ==
  /\ Live /\ t \notin completed /\ t \notin Elements(activeTurns)
  /\ start'[t] = start[t] \/ (start'[t] = "asked" /\ line' = Append(line, t))
  /\ t \in Elements(activeTurns')
  /\ span'[t] = span[t] /\ closing'[t] = closing[t] /\ order'[t] = order[t]
  /\ t \in ended' <=> t \in ended

TurnStarts(t) ==
  /\ Answered(t) /\ start[t] = "asked" /\ start'[t] = "settled"
  /\ \/ span'[t] = "open" /\ Live /\ t \in Elements(activeTurns) /\ t \notin ended
     \/ span'[t] = span[t]
  /\ closing'[t] = closing[t] /\ order'[t] = order[t]
  /\ t \in ended' <=> t \in ended
  /\ MapKept(t)

TurnComesToEnd(t) ==
  /\ TurnEnd(t) /\ Live /\ t \in Elements(activeTurns) /\ t \notin ended
  /\ t \in ended' /\ t \in completed' /\ closing'[t] = "abandoning"
  /\ start'[t] = start[t] /\ span'[t] = span[t] /\ order'[t] = order[t]
  /\ MapKept(t)

TurnAwaits(t) ==
  /\ closing[t] = "abandoning" /\ Visited(t) /\ Unfinished(t) = {} /\ EndsPassed(t)
  /\ closing'[t] = "starting" /\ visiting'[t] = None
  /\ start'[t] = start[t] /\ span'[t] = span[t] /\ order'[t] = order[t]
  /\ t \in ended' <=> t \in ended
  /\ MapKept(t)

TurnCloses(t) ==
  /\ TurnEndDue(t) /\ EndsPassed(t)
  /\ closing[t] = "abandoning" => Unfinished(t) = {}
  /\ closing'[t] = "done" /\ order'[t] = <<>> /\ visiting'[t] = None
  /\ SpanClosed(t) \/ (span'[t] = span[t] /\ switched > 0)
  /\ t \notin Elements(activeTurns') /\ completed' = completed
  /\ start'[t] = start[t]
  /\ t \in ended' <=> t \in ended

TurnLeft(t) ==
  /\ stage = "turns" /\ left # <<>> /\ t = Head(left) /\ Visited(Prompt)
  /\ t \notin ended /\ Unfinished(t) = {}
  /\ t \in ended' /\ t \in abandoned' /\ order'[t] = <<>> /\ SpanClosed(t)
  /\ start'[t] = start[t] /\ closing'[t] = closing[t]
  /\ MapKept(t)

LEMMA Removed ==
  ASSUME TypeOK, NEW t
  PROVE  \A u : u \in Elements(RemoveFirst(activeTurns, t)) <=> u \in Elements(activeTurns) /\ u # t
<1>1. activeTurns \in Seq(Turns) /\ IsInjective(activeTurns)
  BY Types
<1>2. PICK s : s = RemoveFirst(activeTurns, t)
  OBVIOUS
<1>3. s \in Seq(Turns) /\ \A x : Contains(s, x) <=> Contains(activeTurns, x) /\ x # t
  BY <1>1, <1>2, RemoveFirstFacts
<1>4. \A q \in Seq(Turns) : \A x : x \in Elements(q) <=> Contains(q, x)
  BY DEF Elements, Contains
<1>. QED
  BY <1>1, <1>2, <1>3, <1>4

LEMMA TurnListed ==
  ASSUME TypeOK, NEW t \in Turns, NEW g \in Generations, Observed(t),
         NewGeneration(t, g) \/ UNCHANGED <<turnOf, order>>, NEW u \in Turns
  PROVE  order'[u] = order[u] \/ ListsNew(u)
BY Types DEF NewGeneration, ListsNew

LEMMA TurnEvents ==
  ASSUME IInv, EventStep, UNCHANGED <<toolVars, finalVars>>, NEW t \in Turns
  PROVE  TurnKept(t) \/ TurnBegins(t) \/ TurnStarts(t) \/ TurnComesToEnd(t) \/ TurnAwaits(t)
           \/ TurnCloses(t)
<1>0. /\ TypeOK /\ t \in Children
      /\ start \in [Children -> {"none", "asked", "settled"}]
      /\ span \in [Children -> {"none", "open", "ended", "twice"}]
      /\ order \in [Turns -> Seq(Generations)]
      /\ closing \in [Turns -> {"none", "abandoning", "starting", "done"}]
      /\ activeTurns \in Seq(Turns)
      /\ visiting \in [Turns \cup {Prompt} -> Generations \cup {None}]
      /\ \A u \in Turns : u \in Children
      /\ \A g \in Generations : g # t /\ g \in Children
  BY Types, Kinds DEF IInv
<1>1. ASSUME NEW u \in Turns, TurnStart(u) PROVE TurnKept(t) \/ TurnBegins(t)
  <2>1. t \in Elements(activeTurns') <=> t \in Elements(activeTurns) \/ t = u
    <3>1. PICK n \in Nat : n = Len(activeTurns)
      BY <1>0
    <3>2. /\ DOMAIN activeTurns' = 1..(n + 1) /\ DOMAIN activeTurns = 1..n
          /\ activeTurns'[n + 1] = u /\ \A i \in 1..n : activeTurns'[i] = activeTurns[i]
      BY <1>0, <1>1, <3>1 DEF TurnStart
    <3>. QED
      BY <3>2 DEF Elements
  <2>2. CASE t = u
    BY <1>0, <1>1, <2>1, <2>2 DEF TurnStart, Ask, TurnBegins
  <2>3. CASE t # u
    BY <1>0, <1>1, <2>1, <2>3 DEF TurnStart, Ask, TurnKept, MapKept
  <2>. QED
    BY <2>2, <2>3
<1>2. ASSUME NEW u \in Turns, TurnEndUntracked(u) PROVE TurnKept(t)
  BY <1>0, <1>2 DEF TurnEndUntracked, scopeVars, TurnKept, MapKept
<1>3. ASSUME NEW u \in Turns, TurnEnd(u) PROVE TurnKept(t) \/ TurnComesToEnd(t)
  <2>1. /\ Live /\ u \in Elements(activeTurns) \ ended /\ completed' = completed \cup {u}
        /\ closing' = [closing EXCEPT ![u] = "abandoning"]
        /\ UNCHANGED <<start, span, activeTurns, order>>
    BY <1>3 DEF TurnEnd
  <2>2. t \in ended' <=> t \in ended \/ t = u
    <3>1. VisitTurn(u, u, {u}, {})
      BY <1>3 DEF TurnEnd
    <3>2. Passes(u, {u}, {}) \/ \E g \in Generations : Reaches(u, u, g, {u}, {})
      BY <1>0, <3>1, Visiting
    <3>. QED
      BY <1>0, <3>2 DEF Passes, Reaches
  <2>3. CASE t = u
    BY <1>0, <1>3, <2>1, <2>2, <2>3 DEF TurnComesToEnd, MapKept
  <2>4. CASE t # u
    BY <1>0, <2>1, <2>2, <2>4 DEF TurnKept, MapKept
  <2>. QED
    BY <2>3, <2>4
<1>4. ASSUME NEW u \in Turns, NEW g \in Generations,
             \/ BeforeProviderRequest(u, g) \/ MessageEvent(u, g)
             \/ MessageFails(u, g) \/ MessageEnd(u, g)
      PROVE  TurnKept(t)
  <2>1. Observed(u) /\ (NewGeneration(u, g) \/ UNCHANGED <<turnOf, order>>)
    BY <1>0, <1>4, Correlated
       DEF BeforeProviderRequest, MessageEvent, MessageFails, MessageEnd, JoinsRequest
  <2>2. order'[t] = order[t] \/ ListsNew(t)
    BY <1>0, <2>1, TurnListed
  <2>3. /\ UNCHANGED <<span, ended, activeTurns, completed, closing>>
        /\ EnsureAsked(g) \/ UNCHANGED start
    BY <1>4 DEF BeforeProviderRequest, MessageEvent, MessageFails, MessageEnd, scopeVars
  <2>4. start'[t] = start[t]
    BY <1>0, <2>3, AskEffect
  <2>. QED
    BY <2>2, <2>3, <2>4 DEF TurnKept, MapKept
<1>5. ASSUME NEW u \in Turns, TurnSpanStarts(u) PROVE TurnKept(t) \/ TurnStarts(t)
  <2>1. CASE t = u
    BY <1>0, <1>5, <2>1 DEF TurnSpanStarts, StartSettles, turnVars, TurnStarts, MapKept
  <2>2. CASE t # u
    BY <1>0, <1>5, <2>2 DEF TurnSpanStarts, StartSettles, turnVars, TurnKept, MapKept
  <2>. QED
    BY <2>1, <2>2
<1>6. ASSUME NEW u \in Turns, TurnEndContinues(u)
      PROVE  TurnKept(t) \/ TurnAwaits(t) \/ TurnCloses(t)
  <2>1. /\ UNCHANGED <<stage, start, completed>> /\ TurnEndDue(u)
    BY <1>6 DEF TurnEndContinues
  <2>2. CASE /\ Unfinished(u) # {} /\ Abandon(u, u, {}, {})
             /\ UNCHANGED <<closing, span, activeTurns, order, messageEnded>>
    <3>1. \E g \in Generations : Reaches(u, u, g, {}, {})
      BY <1>0, <2>2, Abandoning
    <3>. QED
      BY <1>0, <2>1, <2>2, <3>1 DEF Reaches, TurnKept, MapKept
  <2>3. CASE CloseTurn(u) /\ EndsPassed(u) /\ ~(closing[u] = "abandoning" /\ Unfinished(u) # {})
    <3>1. t \in Elements(activeTurns') <=> t \in Elements(activeTurns) /\ t # u
      BY <1>0, <2>3, Removed DEF CloseTurn
    <3>2. CASE t = u
      <4>1. SpanClosed(t) \/ (span'[t] = span[t] /\ ~Traces)
        BY <1>0, <2>3, <3>2 DEF CloseTurn, EndSpan, SpanClosed
      <4>2. ~Traces => switched > 0
        <5>1. switched \in 0..MaxSwitches /\ MaxSwitches \in Nat
          BY <1>0, ScopeAssumption DEF TypeOK
        <5>2. switched = 0 => Traces
          BY DEF Traces
        <5>. QED
          BY <5>1, <5>2
      <4>. QED
        BY <1>0, <2>1, <2>3, <3>1, <3>2, <4>1, <4>2 DEF CloseTurn, LeaveLoop, TurnCloses
    <3>3. CASE t # u
      BY <1>0, <2>1, <2>3, <3>1, <3>3 DEF CloseTurn, EndSpan, TurnKept, MapKept
    <3>. QED
      BY <3>2, <3>3
  <2>4. CASE AwaitSpan(u) /\ EndsPassed(u) /\ ~Started(u)
             /\ ~(closing[u] = "abandoning" /\ Unfinished(u) # {})
    <3>1. closing[u] = "abandoning" /\ Visited(u)
      BY <2>1, <2>4 DEF TurnEndDue
    <3>2. CASE t = u
      BY <1>0, <2>1, <2>4, <3>1, <3>2 DEF AwaitSpan, LeaveLoop, TurnAwaits, MapKept
    <3>3. CASE t # u
      BY <1>0, <2>1, <2>4, <3>3 DEF AwaitSpan, TurnKept, MapKept
    <3>. QED
      BY <3>2, <3>3
  <2>. QED
    BY <1>6, <2>2, <2>3, <2>4 DEF TurnEndContinues
<1>7. ASSUME NEW g \in Generations, GenerationStarts(g) PROVE TurnKept(t)
  BY <1>0, <1>7 DEF GenerationStarts, StartSettles, turnVars, TurnKept, MapKept
<1>8. ASSUME NEW g \in Generations, FailureResumes(g) PROVE TurnKept(t)
  BY <1>0, <1>8 DEF FailureResumes, TurnKept, MapKept
<1>9. ASSUME NEW g \in Generations, GenerationFinishes(g) PROVE TurnKept(t)
  BY <1>0, <1>9 DEF GenerationFinishes, EndSpan, turnVars, TurnKept, MapKept
<1>. QED
  BY <1>1, <1>2, <1>3, <1>4, <1>5, <1>6, <1>7, <1>8, <1>9 DEF EventStep

LEMMA TurnTool ==
  ASSUME IInv, ToolStep, UNCHANGED <<turnVars, finalVars>>, NEW t \in Turns
  PROVE  TurnKept(t)
<1>0. /\ t \in Children
      /\ start \in [Children -> {"none", "asked", "settled"}]
      /\ span \in [Children -> {"none", "open", "ended", "twice"}]
      /\ \A k \in Tools : k # t /\ k \in Children
  BY Types, Kinds DEF IInv
<1>. USE DEF turnVars, TurnKept, MapKept
<1>1. ASSUME NEW k \in Tools, ToolEvent(k) PROVE TurnKept(t)
  BY <1>0, <1>1 DEF ToolEvent, EnsureAsked, Ask
<1>2. ASSUME NEW k \in Tools, ToolResult(k) PROVE TurnKept(t)
  BY <1>2 DEF ToolResult, scopeVars
<1>3. ASSUME NEW k \in Tools, ToolExecutionEnd(k) PROVE TurnKept(t)
  BY <1>0, <1>3 DEF ToolExecutionEnd, FinishTool, EnsureAsked, Ask
<1>4. ASSUME NEW k \in Tools, ToolSpanStarts(k) PROVE TurnKept(t)
  BY <1>0, <1>4 DEF ToolSpanStarts, StartSettles
<1>5. ASSUME NEW k \in Tools, ToolScored(k) PROVE TurnKept(t)
  BY <1>0, <1>5 DEF ToolScored
<1>6. ASSUME NEW k \in Tools, ToolFinishes(k) PROVE TurnKept(t)
  BY <1>0, <1>6 DEF ToolFinishes, EndSpan
<1>. QED
  BY <1>1, <1>2, <1>3, <1>4, <1>5, <1>6 DEF ToolStep

LEMMA TurnFinal ==
  ASSUME IInv, FinalStep, NEW t \in Turns
  PROVE  TurnKept(t) \/ TurnLeft(t)
<1>0. /\ t \in Children /\ TypeOK
      /\ start \in [Children -> {"none", "asked", "settled"}]
      /\ span \in [Children -> {"none", "open", "ended", "twice"}]
      /\ order \in [Turns -> Seq(Generations)]
      /\ \A u \in Turns : u \in Children
      /\ \A c \in Generations \cup Tools : c # t
  BY Types, Kinds DEF IInv
<1>1. ASSUME NEW k \in Tools, ToolReached(k),
             UNCHANGED <<activeTurns, completed, order, closing>>
      PROVE  TurnKept(t)
  <2>1. start'[t] = start[t]
    BY <1>0, <1>1 DEF ToolReached, EndUnfinished, FinishTool, EnsureAsked, Ask
  <2>. QED
    BY <1>1, <2>1 DEF ToolReached, TurnKept, MapKept
<1>2. ASSUME NEW ts, NEW marks, NEW cut, TurnReached(ts, marks, cut)
      PROVE  t \in ended' <=> t \in ended \cup marks
  BY <1>0, <1>2 DEF TurnReached, Passes, Reaches
<1>3. ASSUME NEW r, Finalize(r) PROVE TurnKept(t)
  <2>1. UNCHANGED <<span, activeTurns, completed, order, closing>>
    BY <1>3 DEF Finalize
  <2>2. CASE TurnReached(activeTurns, {}, {}) /\ UNCHANGED <<toolRest, activeTools>>
    BY <1>2, <2>1, <2>2 DEF toolRest, TurnKept, MapKept
  <2>3. CASE UNCHANGED <<toolRest, activeTools, visiting, finish, ended, abandoned>>
    BY <2>1, <2>3 DEF toolRest, TurnKept, MapKept
  <2>. QED
    BY <1>0, <1>1, <1>3, <2>1, <2>2, <2>3, FinalizeSteps
<1>4. CASE FinalizerTools
  <2>1. UNCHANGED <<activeTurns, completed, order, closing>>
    BY <1>4 DEF FinalizerTools
  <2>2. CASE TurnReached(activeTurns, {}, {}) /\ UNCHANGED <<line, start, span>>
    BY <1>2, <2>1, <2>2 DEF toolRest, TurnKept, MapKept
  <2>. QED
    BY <1>0, <1>1, <1>4, <2>1, <2>2, FinalizerToolsSteps
<1>5. CASE FinalizerTurn
  <2>1. UNCHANGED <<start, activeTurns, completed, closing>>
    BY <1>5 DEF FinalizerTurn
  <2>2. PICK u : u = Head(left)
    OBVIOUS
  <2>3. u \in Turns /\ stage = "turns" /\ left # <<>> /\ Visited(Prompt)
    BY <1>0, <1>5, <2>2, FinalizerTurnSteps DEF FinalizerTurn, FinalizerTurnDue
  <2>4. ASSUME NEW h \in Generations, Reaches(Prompt, u, h, {}, {}),
               UNCHANGED <<stage, left, span, order>>
        PROVE  TurnKept(t)
    BY <1>0, <2>1, <2>4 DEF Reaches, TurnKept, MapKept
  <2>5. CASE TurnReached(NextTurns, {}, {}) /\ UNCHANGED <<span, order>>
    BY <1>2, <2>1, <2>5 DEF TurnKept, MapKept
  <2>6. CASE /\ Unfinished(u) = {} /\ u \notin ended
             /\ TurnReached(NextTurns, {u}, {u})
             /\ EndSpan(u) /\ order' = [order EXCEPT ![u] = <<>>]
    <3>1. t \in ended' <=> t \in ended \cup {u}
      BY <1>2, <2>6
    <3>2. CASE t = u
      <4>1. t \in abandoned'
        BY <2>6, <3>2 DEF TurnReached, Passes, Reaches
      <4>. QED
        BY <1>0, <2>1, <2>2, <2>3, <2>6, <3>1, <3>2, <4>1
           DEF EndSpan, TurnLeft, SpanClosed, MapKept
    <3>3. CASE t # u
      BY <1>0, <2>1, <2>3, <2>6, <3>1, <3>3 DEF EndSpan, TurnKept, MapKept
    <3>. QED
      BY <3>2, <3>3
  <2>. QED
    BY <1>0, <1>5, <2>2, <2>4, <2>5, <2>6, FinalizerTurnSteps
<1>6. CASE FinalizerScores
  BY <1>6 DEF FinalizerScores, TurnKept, MapKept
<1>7. CASE RootEnds
  BY <1>7 DEF RootEnds, turnVars, TurnKept, MapKept
<1>. QED
  BY <1>3, <1>4, <1>5, <1>6, <1>7 DEF FinalStep

LEMMA TurnMove ==
  ASSUME IInv, [Next]_vars, NEW t \in Turns
  PROVE  TurnKept(t) \/ TurnBegins(t) \/ TurnStarts(t) \/ TurnComesToEnd(t) \/ TurnAwaits(t)
           \/ TurnCloses(t) \/ TurnLeft(t)
<1>1. CASE UNCHANGED promptVars
  BY <1>1 DEF promptVars, scopeVars, turnVars, TurnKept, MapKept
<1>. QED
  BY <1>1, Steps, TurnEvents, TurnTool, TurnFinal

-----------------------------------------------------------------------------
(* What a step does to one tool                                            *)

ToolsLeft == UnfinishedTools = {} /\ activeTools' = {} /\ stage' = "turns"

ToolKept(k) ==
  /\ start'[k] = start[k] /\ span'[k] = span[k] /\ finish'[k] = finish[k]
  /\ k \in ended' <=> k \in ended
  /\ (k \in activeTools' <=> k \in activeTools) \/ ToolsLeft

(* An event, or the prompt, gets to the tool.                              *)
ToolSeen(k) ==
  /\ k \in activeTools' /\ stage' \in {"open", "tools"}
  /\ \/ start'[k] = start[k]
     \/ /\ start[k] = "none" /\ start'[k] = "asked"
        /\ k \notin ended \/ finish[k] = "none"
  /\ finish'[k] = finish[k] \/ (finish[k] = "none" /\ finish'[k] \in {"waiting", "unasked"})
  /\ span'[k] = span[k]
  /\ k \in ended' <=> k \in ended

ToolStarts(k) ==
  /\ start[k] = "asked" /\ start'[k] = "settled"
  /\ \/ span'[k] = "open" /\ k \in activeTools /\ k \notin ended
     \/ span'[k] = span[k]
  /\ finish'[k] = finish[k]
  /\ k \in ended' <=> k \in ended
  /\ k \in activeTools' <=> k \in activeTools

ToolScoreSent(k) ==
  /\ finish[k] = "scoring" /\ finish'[k] = "done"
  /\ start'[k] = start[k] /\ span'[k] = span[k]
  /\ k \in ended' <=> k \in ended
  /\ k \in activeTools' <=> k \in activeTools

ToolEnds(k) ==
  /\ finish[k] \in {"waiting", "unasked"}
  /\ finish'[k] = "done" \/ (finish'[k] = "scoring" /\ span[k] # "none")
  /\ start'[k] = start[k] /\ SpanClosed(k)
  /\ k \in ended'
  /\ k \in activeTools' <=> k \in activeTools

LEMMA ToolEvents ==
  ASSUME IInv, EventStep, UNCHANGED <<toolVars, finalVars>>, NEW k \in Tools
  PROVE  ToolKept(k)
<1>0. /\ TypeOK /\ k \in Children
      /\ start \in [Children -> {"none", "asked", "settled"}]
      /\ span \in [Children -> {"none", "open", "ended", "twice"}]
      /\ finish \in [Generations \cup Tools -> {"none", "waiting", "unasked", "scoring", "done"}]
      /\ \A u \in Turns : u # k /\ u \in Children
      /\ \A g \in Generations : g # k /\ g \in Children
  BY Types, Kinds DEF IInv
<1>. USE DEF toolVars, ToolKept
<1>1. ASSUME NEW u \in Turns, TurnStart(u) PROVE ToolKept(k)
  BY <1>0, <1>1 DEF TurnStart, Ask
<1>2. ASSUME NEW u \in Turns, TurnEndUntracked(u) PROVE ToolKept(k)
  BY <1>0, <1>2 DEF TurnEndUntracked, scopeVars
<1>3. ASSUME NEW u \in Turns, NEW marks \in SUBSET Turns, NEW g \in Generations,
             Reaches(u, u, g, marks, {}) \/ Passes(u, marks, {}), UNCHANGED <<start, span>>
      PROVE  ToolKept(k)
  BY <1>0, <1>3 DEF Reaches, Passes
<1>4. ASSUME NEW u \in Turns, TurnEnd(u) PROVE ToolKept(k)
  <2>1. VisitTurn(u, u, {u}, {}) /\ UNCHANGED <<start, span>> /\ {u} \in SUBSET Turns
    BY <1>4 DEF TurnEnd
  <2>2. Passes(u, {u}, {}) \/ \E g \in Generations : Reaches(u, u, g, {u}, {})
    BY <1>0, <2>1, Visiting
  <2>3. CASE Passes(u, {u}, {})
    BY <1>0, <2>1, <2>3 DEF Passes
  <2>. QED
    BY <1>3, <2>1, <2>2, <2>3
<1>5. ASSUME NEW u \in Turns, NEW g \in Generations,
             \/ BeforeProviderRequest(u, g) \/ MessageEvent(u, g)
             \/ MessageFails(u, g) \/ MessageEnd(u, g)
      PROVE  ToolKept(k)
  <2>1. /\ UNCHANGED <<span, ended>>
        /\ EnsureAsked(g) \/ UNCHANGED start
        /\ finish' = finish \/ finish' = [finish EXCEPT ![g] = "waiting"]
    BY <1>5 DEF BeforeProviderRequest, MessageEvent, MessageFails, MessageEnd, scopeVars
  <2>. QED
    BY <1>0, <2>1, AskEffect
<1>6. ASSUME NEW u \in Turns, TurnSpanStarts(u) PROVE ToolKept(k)
  BY <1>0, <1>6 DEF TurnSpanStarts, StartSettles
<1>7. ASSUME NEW u \in Turns, TurnEndContinues(u) PROVE ToolKept(k)
  <2>1. start' = start
    BY <1>7 DEF TurnEndContinues
  <2>2. CASE Unfinished(u) # {} /\ Abandon(u, u, {}, {}) /\ UNCHANGED span
    <3>1. \E g \in Generations : Reaches(u, u, g, {}, {})
      BY <1>0, <2>2, Abandoning
    <3>2. {} \in SUBSET Turns
      OBVIOUS
    <3>. QED
      BY <1>3, <2>1, <2>2, <3>1, <3>2
  <2>3. CASE CloseTurn(u) \/ AwaitSpan(u)
    BY <1>0, <2>1, <2>3 DEF CloseTurn, EndSpan, AwaitSpan
  <2>. QED
    BY <1>7, <2>2, <2>3 DEF TurnEndContinues
<1>8. ASSUME NEW g \in Generations, GenerationStarts(g) PROVE ToolKept(k)
  BY <1>0, <1>8 DEF GenerationStarts, StartSettles
<1>9. ASSUME NEW g \in Generations, FailureResumes(g) PROVE ToolKept(k)
  BY <1>0, <1>9 DEF FailureResumes
<1>10. ASSUME NEW g \in Generations, GenerationFinishes(g) PROVE ToolKept(k)
  BY <1>0, <1>10 DEF GenerationFinishes, EndSpan
<1>. QED
  BY <1>1, <1>2, <1>4, <1>5, <1>6, <1>7, <1>8, <1>9, <1>10 DEF EventStep

LEMMA ToolTool ==
  ASSUME IInv, ToolStep, UNCHANGED <<turnVars, finalVars>>, NEW k \in Tools
  PROVE  ToolKept(k) \/ ToolSeen(k) \/ ToolStarts(k) \/ ToolScoreSent(k) \/ ToolEnds(k)
<1>0. /\ TypeOK /\ k \in Children
      /\ start \in [Children -> {"none", "asked", "settled"}]
      /\ span \in [Children -> {"none", "open", "ended", "twice"}]
      /\ finish \in [Generations \cup Tools -> {"none", "waiting", "unasked", "scoring", "done"}]
      /\ \A u \in Tools : u \in Children
  BY Types, Kinds DEF IInv
<1>1. ASSUME NEW u \in Tools, ToolEvent(u) PROVE ToolKept(k) \/ ToolSeen(k)
  <2>1. /\ stage' = "open" /\ UNCHANGED <<span, finish, ended>>
        /\ activeTools' = activeTools \cup {u}
        /\ start' = start \/ (u \notin ended /\ EnsureAsked(u))
    BY <1>1 DEF ToolEvent, Live
  <2>2. CASE k = u
    BY <1>0, <2>1, <2>2, AskEffect DEF ToolSeen
  <2>3. CASE k # u
    BY <1>0, <2>1, <2>3, AskEffect DEF ToolKept
  <2>. QED
    BY <2>2, <2>3
<1>2. ASSUME NEW u \in Tools, ToolResult(u)
      PROVE  ToolKept(k) \/ ToolSeen(k)
  BY <1>2 DEF ToolResult, scopeVars, Live, ToolSeen, ToolKept
<1>3. ASSUME NEW u \in Tools, ToolExecutionEnd(u)
      PROVE  ToolKept(k) \/ ToolSeen(k)
  <2>1. /\ stage' = "open" /\ UNCHANGED <<span, ended>> /\ finish[u] = "none"
        /\ activeTools' = activeTools \cup {u}
        /\ EnsureAsked(u) \/ UNCHANGED start
        /\ \E f \in {"waiting", "unasked"} : finish' = [finish EXCEPT ![u] = f]
    BY <1>3 DEF ToolExecutionEnd, FinishTool, Live
  <2>2. CASE k = u
    BY <1>0, <2>1, <2>2, AskEffect DEF ToolSeen
  <2>3. CASE k # u
    BY <1>0, <2>1, <2>3, AskEffect DEF ToolKept
  <2>. QED
    BY <2>2, <2>3
<1>4. ASSUME NEW u \in Tools, ToolSpanStarts(u) PROVE ToolKept(k) \/ ToolStarts(k)
  <2>2. CASE k = u
    BY <1>0, <1>4, <2>2 DEF ToolSpanStarts, StartSettles, toolVars, ToolStarts
  <2>3. CASE k # u
    BY <1>0, <1>4, <2>3 DEF ToolSpanStarts, StartSettles, toolVars, ToolKept
  <2>. QED
    BY <2>2, <2>3
<1>5. ASSUME NEW u \in Tools, ToolScored(u) PROVE ToolKept(k) \/ ToolScoreSent(k)
  BY <1>0, <1>5 DEF ToolScored, toolVars, ToolKept, ToolScoreSent
<1>6. ASSUME NEW u \in Tools, ToolFinishes(u) PROVE ToolKept(k) \/ ToolEnds(k)
  <2>2. CASE k = u
    BY <1>0, <1>6, <2>2
       DEF ToolFinishes, ToolFinishDue, Started, EndSpan, SpanClosed, toolVars, ToolEnds
  <2>3. CASE k # u
    BY <1>0, <1>6, <2>3 DEF ToolFinishes, EndSpan, toolVars, ToolKept
  <2>. QED
    BY <2>2, <2>3
<1>. QED
  BY <1>1, <1>2, <1>3, <1>4, <1>5, <1>6 DEF ToolStep

LEMMA ToolFinal ==
  ASSUME IInv, FinalStep, NEW k \in Tools
  PROVE  ToolKept(k) \/ ToolSeen(k)
<1>0. /\ TypeOK /\ k \in Children
      /\ start \in [Children -> {"none", "asked", "settled"}]
      /\ span \in [Children -> {"none", "open", "ended", "twice"}]
      /\ finish \in [Generations \cup Tools -> {"none", "waiting", "unasked", "scoring", "done"}]
      /\ \A u \in Tools : u \in Children
      /\ \A u \in Turns : u # k
      /\ \A g \in Generations : g # k
  BY Types, Kinds DEF IInv
<1>1. ASSUME NEW u \in Tools, ToolReached(u), stage' = "tools" PROVE ToolKept(k) \/ ToolSeen(k)
  <2>1. /\ u \in activeTools' /\ UNCHANGED <<span, ended, activeTools>>
        /\ \/ UNCHANGED <<finish, start>>
           \/ /\ finish[u] = "none"
              /\ \E f \in {"waiting", "unasked"} : finish' = [finish EXCEPT ![u] = f]
              /\ EnsureAsked(u) \/ UNCHANGED start
    BY <1>1 DEF ToolReached, EndUnfinished, FinishTool, UnfinishedTools
  <2>2. CASE k = u
    BY <1>0, <1>1, <2>1, <2>2, AskEffect DEF ToolSeen
  <2>3. CASE k # u
    BY <1>0, <2>1, <2>3, AskEffect DEF ToolKept
  <2>. QED
    BY <2>2, <2>3
<1>2. ASSUME NEW ts, NEW marks \in SUBSET Turns, NEW cut, TurnReached(ts, marks, cut)
      PROVE  /\ finish'[k] = finish[k]
             /\ k \in ended' <=> k \in ended
  BY <1>0, <1>2 DEF TurnReached, Passes, Reaches
<1>3. {} \in SUBSET Turns
  OBVIOUS
<1>4. ASSUME NEW r, Finalize(r) PROVE ToolKept(k) \/ ToolSeen(k)
  <2>1. UNCHANGED span
    BY <1>4 DEF Finalize
  <2>2. CASE TurnReached(activeTurns, {}, {}) /\ UNCHANGED <<toolRest, activeTools>>
    BY <1>2, <1>3, <2>1, <2>2 DEF toolRest, ToolKept
  <2>3. CASE UNCHANGED <<toolRest, activeTools, visiting, finish, ended, abandoned>>
    BY <2>1, <2>3 DEF toolRest, ToolKept
  <2>. QED
    BY <1>0, <1>1, <1>4, <2>2, <2>3, FinalizeSteps
<1>5. CASE FinalizerTools
  <2>1. stage = "tools"
    BY <1>5 DEF FinalizerTools, FinalizerToolsDue
  <2>2. CASE /\ UnfinishedTools = {} /\ activeTools' = {} /\ TurnReached(activeTurns, {}, {})
             /\ UNCHANGED <<line, start, span>>
    <3>1. ToolsLeft
      BY <2>2 DEF ToolsLeft, TurnReached
    <3>. QED
      BY <1>2, <1>3, <2>2, <3>1 DEF ToolKept
  <2>. QED
    BY <1>0, <1>1, <1>5, <2>1, <2>2, FinalizerToolsSteps
<1>6. CASE FinalizerTurn
  <2>1. UNCHANGED <<start, activeTools>>
    BY <1>6 DEF FinalizerTurn, toolVars
  <2>2. PICK u : u = Head(left)
    OBVIOUS
  <2>3. u \in Turns
    BY <1>0, <1>6, <2>2, FinalizerTurnSteps
  <2>4. ASSUME NEW h \in Generations, Reaches(Prompt, u, h, {}, {}), UNCHANGED span
        PROVE  ToolKept(k)
    BY <1>0, <2>1, <2>4 DEF Reaches, ToolKept
  <2>5. CASE TurnReached(NextTurns, {}, {}) /\ UNCHANGED span
    BY <1>2, <1>3, <2>1, <2>5 DEF ToolKept
  <2>6. CASE TurnReached(NextTurns, {u}, {u}) /\ EndSpan(u)
    BY <1>0, <1>2, <2>1, <2>3, <2>6 DEF EndSpan, ToolKept
  <2>. QED
    BY <1>0, <1>6, <2>2, <2>4, <2>5, <2>6, FinalizerTurnSteps
<1>7. CASE FinalizerScores
  BY <1>7 DEF FinalizerScores, toolVars, ToolKept
<1>8. CASE RootEnds
  BY <1>8 DEF RootEnds, toolVars, ToolKept
<1>. QED
  BY <1>4, <1>5, <1>6, <1>7, <1>8 DEF FinalStep

LEMMA ToolMove ==
  ASSUME IInv, [Next]_vars, NEW k \in Tools
  PROVE  ToolKept(k) \/ ToolSeen(k) \/ ToolStarts(k) \/ ToolScoreSent(k) \/ ToolEnds(k)
<1>1. CASE UNCHANGED promptVars
  BY <1>1 DEF promptVars, scopeVars, toolVars, ToolKept
<1>. QED
  BY <1>1, Steps, ToolEvents, ToolTool, ToolFinal

-----------------------------------------------------------------------------
(* What a step does to the finalization                                    *)

StageKept ==
  /\ stage' = stage /\ left' = left
  /\ stage # "open" => activeTools' = activeTools

FinalizingStarts ==
  /\ stage = "open" /\ activeTurns' = activeTurns
  /\ \/ stage' = "tools" /\ left' = <<>>
     \/ stage' = "turns" /\ left' = activeTurns /\ activeTools' = {}

TurnsFollow ==
  /\ stage = "tools" /\ stage' = "turns" /\ activeTurns' = activeTurns
  /\ left' = activeTurns /\ activeTools' = {}

NextTurnFollows ==
  /\ stage = "turns" /\ stage' = "turns" /\ left # <<>> /\ left' = NextTurns
  /\ activeTurns' = activeTurns /\ activeTools' = activeTools
  /\ Head(left) \in Turns /\ Unfinished(Head(left)) = {}
  /\ Head(left) \in ended'
  /\ Head(left) \in ended \/ Head(left) \in abandoned'

ScoresFollow ==
  /\ stage = "turns" /\ stage' \in {"scores", "done"} /\ left = <<>> /\ left' = left
  /\ activeTools' = activeTools

RootFollows ==
  /\ stage = "scores" /\ stage' = "done" /\ left' = left
  /\ activeTools' = activeTools

LEMMA StageFinal ==
  ASSUME IInv, FinalStep
  PROVE  StageKept \/ FinalizingStarts \/ TurnsFollow \/ NextTurnFollows \/ ScoresFollow
           \/ RootFollows
<1>0. TypeOK
  BY DEF IInv
<1>1. ASSUME NEW r, Finalize(r) PROVE FinalizingStarts
  BY <1>0, <1>1, FinalizeSteps DEF Finalize, Live, TurnReached, FinalizingStarts
<1>2. CASE FinalizerTools
  BY <1>0, <1>2, FinalizerToolsSteps
     DEF FinalizerTools, FinalizerToolsDue, ToolReached, TurnReached, TurnsFollow, StageKept
<1>3. CASE FinalizerTurn
  <2>1. PICK u : u = Head(left)
    OBVIOUS
  <2>2. /\ stage = "turns" /\ left # <<>> /\ activeTurns' = activeTurns
        /\ activeTools' = activeTools
    BY <1>3 DEF FinalizerTurn, FinalizerTurnDue, toolVars
  <2>3. ASSUME NEW ts, NEW marks, NEW cut, TurnReached(ts, marks, cut)
        PROVE  ended \cup marks \subseteq ended' /\ abandoned \cup cut \subseteq abandoned'
    BY <2>3 DEF TurnReached, Passes, Reaches
  <2>4. CASE Unfinished(u) = {} /\ u \in ended /\ TurnReached(NextTurns, {}, {})
    <3>1. u \in ended'
      BY <2>3, <2>4
    <3>. QED
      BY <1>0, <1>3, <2>1, <2>2, <2>4, <3>1, FinalizerTurnSteps DEF TurnReached, NextTurnFollows
  <2>5. CASE Unfinished(u) = {} /\ TurnReached(NextTurns, {u}, {u})
    <3>1. u \in ended' /\ u \in abandoned'
      BY <2>3, <2>5
    <3>. QED
      BY <1>0, <1>3, <2>1, <2>2, <2>5, <3>1, FinalizerTurnSteps DEF TurnReached, NextTurnFollows
  <2>. QED
    BY <1>0, <1>3, <2>1, <2>2, <2>4, <2>5, FinalizerTurnSteps DEF StageKept
<1>4. CASE FinalizerScores
  BY <1>4 DEF FinalizerScores, FinalizerScoresDue, toolVars, finalVars, ScoresFollow
<1>5. CASE RootEnds
  BY <1>5 DEF RootEnds, toolVars, finalVars, RootFollows
<1>. QED
  BY <1>1, <1>2, <1>3, <1>4, <1>5 DEF FinalStep

LEMMA StageMove ==
  ASSUME IInv, [Next]_vars
  PROVE  StageKept \/ FinalizingStarts \/ TurnsFollow \/ NextTurnFollows \/ ScoresFollow
           \/ RootFollows
<1>1. CASE UNCHANGED promptVars
  BY <1>1 DEF promptVars, scopeVars, toolVars, finalVars, StageKept
<1>2. CASE EventStep /\ UNCHANGED <<toolVars, finalVars>>
  <2>1. stage' = stage
    BY <1>2 DEF EventStep, TurnStart, TurnEndUntracked, TurnEnd, BeforeProviderRequest,
       MessageEvent, MessageFails, MessageEnd, TurnSpanStarts, TurnEndContinues,
       GenerationStarts, FailureResumes, GenerationFinishes, scopeVars
  <2>. QED
    BY <1>2, <2>1 DEF toolVars, finalVars, StageKept
<1>3. CASE ToolStep /\ UNCHANGED <<turnVars, finalVars>>
  <2>1. stage' = stage /\ (stage = "open" \/ activeTools' = activeTools)
    BY <1>3 DEF ToolStep, ToolEvent, ToolResult, ToolExecutionEnd, ToolSpanStarts, ToolScored,
       ToolFinishes, Live, scopeVars, toolVars
  <2>. QED
    BY <1>3, <2>1 DEF finalVars, StageKept
<1>. QED
  BY <1>1, <1>2, <1>3, Steps, StageFinal

-----------------------------------------------------------------------------
(* What a step does to whom handlers wait for                              *)

VisitKept ==
  \/ visiting' = visiting
  \/ \E x \in Turns \cup {Prompt} : visiting' = [visiting EXCEPT ![x] = None] /\ Visited(x)

VisitMoves == \E x \in Turns \cup {Prompt}, t \in Turns, g \in Generations :
  /\ FirstOf(t, g) /\ visiting' = [visiting EXCEPT ![x] = g]
  /\ finish'[g] = IF finish[g] = "none" THEN "waiting" ELSE finish[g]
  /\ \/ /\ x = t /\ closing'[t] = "abandoning" /\ order' = order
        /\ (t \notin ended /\ stage = "open") \/ (closing[t] = "abandoning" /\ Visited(t))
     \/ /\ x = Prompt /\ stage' = "turns"
        /\ stage = "turns" => Visited(Prompt)

LEMMA VisitTo ==
  ASSUME TypeOK, NEW x \in Turns \cup {Prompt}, NEW t \in Turns, NEW g \in Generations,
         NEW marks, NEW cut, Reaches(x, t, g, marks, cut),
         \/ /\ x = t /\ closing'[t] = "abandoning" /\ order' = order
            /\ (t \notin ended /\ stage = "open") \/ (closing[t] = "abandoning" /\ Visited(t))
         \/ /\ x = Prompt /\ stage' = "turns"
            /\ stage = "turns" => Visited(Prompt)
  PROVE  VisitMoves
<1>1. finish'[g] = IF finish[g] = "none" THEN "waiting" ELSE finish[g]
  BY Types DEF Reaches
<1>. QED
  BY <1>1 DEF Reaches, VisitMoves

LEMMA VisitMove ==
  ASSUME IInv, [Next]_vars
  PROVE  VisitKept \/ VisitMoves
<1>0. /\ TypeOK /\ activeTurns \in Seq(Turns) /\ Prompt \in Turns \cup {Prompt}
      /\ \A t \in Turns : t \in Turns \cup {Prompt}
      /\ \A t \in Turns : closing[t] # "abandoning" => Visited(t)
      /\ stage \in {"open", "tools"} => Visited(Prompt)
  BY Types DEF IInv, AwaitedRight, Visited
<1>1. CASE UNCHANGED promptVars
  BY <1>1 DEF promptVars, turnVars, VisitKept
<1>2. CASE EventStep
  <2>1. ASSUME NEW t \in Turns, TurnEnd(t) PROVE VisitKept \/ VisitMoves
    <3>1. /\ closing'[t] = "abandoning" /\ order' = order /\ t \notin ended /\ stage = "open"
          /\ VisitTurn(t, t, {t}, {})
      BY <2>1, Types, <1>0 DEF TurnEnd, Live
    <3>2. Visited(t)
      BY <1>0, <3>1 DEF IInv, SpansRight
    <3>3. CASE Passes(t, {t}, {})
      BY <1>0, <3>2, <3>3 DEF Passes, VisitKept
    <3>4. Passes(t, {t}, {}) \/ \E g \in Generations : Reaches(t, t, g, {t}, {})
      BY <1>0, <3>1, Visiting, Zenon
    <3>5. ASSUME NEW g \in Generations, Reaches(t, t, g, {t}, {})
          PROVE  VisitMoves
      BY <1>0, <3>1, <3>5, VisitTo
    <3>. QED
      BY <3>3, <3>4, <3>5
  <2>2. ASSUME NEW t \in Turns, TurnEndContinues(t) PROVE VisitKept \/ VisitMoves
    <3>1. CASE /\ closing[t] = "abandoning" /\ Unfinished(t) # {} /\ Abandon(t, t, {}, {})
               /\ UNCHANGED <<closing, order>>
      <4>1. Visited(t)
        BY <2>2, <3>1 DEF TurnEndContinues, TurnEndDue
      <4>. QED
        BY <1>0, <3>1, <4>1, Abandoning, VisitTo
    <3>2. CASE CloseTurn(t) \/ AwaitSpan(t)
      <4>1. Visited(t) /\ visiting' = [visiting EXCEPT ![t] = None]
        BY <1>0, <2>2, <3>2 DEF TurnEndContinues, TurnEndDue, CloseTurn, AwaitSpan, LeaveLoop
      <4>. QED
        BY <1>0, <4>1 DEF VisitKept
    <3>. QED
      BY <2>2, <3>1, <3>2 DEF TurnEndContinues
  <2>3. CASE \/ \E t \in Turns : TurnStart(t) \/ TurnEndUntracked(t) \/ TurnSpanStarts(t)
             \/ \E t \in Turns, g \in Generations :
                  \/ BeforeProviderRequest(t, g) \/ MessageEvent(t, g)
                  \/ MessageFails(t, g) \/ MessageEnd(t, g)
             \/ \E g \in Generations :
                  GenerationStarts(g) \/ FailureResumes(g) \/ GenerationFinishes(g)
    BY <2>3 DEF TurnStart, TurnEndUntracked, TurnSpanStarts, BeforeProviderRequest, MessageEvent,
       MessageFails, MessageEnd, GenerationStarts, FailureResumes, GenerationFinishes, turnVars,
       VisitKept
  <2>. QED
    BY <1>2, <2>1, <2>2, <2>3 DEF EventStep
<1>3. CASE UNCHANGED turnVars
  BY <1>3 DEF turnVars, VisitKept
<1>4. ASSUME NEW ts \in Seq(Turns), NEW marks, NEW cut, TurnReached(ts, marks, cut),
             Visited(Prompt)
      PROVE  VisitKept \/ VisitMoves
  <2>1. CASE Passes(Prompt, marks, cut)
    BY <1>0, <1>4, <2>1 DEF Passes, VisitKept
  <2>2. ASSUME NEW h \in Generations, ts # <<>>, Reaches(Prompt, Head(ts), h, marks, cut)
        PROVE  VisitKept \/ VisitMoves
    <3>1. PICK t \in Turns : t = Head(ts)
      BY <2>2
    <3>2. Prompt \in Turns \cup {Prompt} /\ stage' = "turns"
      BY <1>4 DEF TurnReached
    <3>. QED
      BY <1>0, <1>4, <2>2, <3>1, <3>2, VisitTo
  <2>. QED
    BY <1>4, <2>1, <2>2 DEF TurnReached
<1>5. CASE FinalStep
  <2>1. ASSUME NEW r, Finalize(r) PROVE VisitKept \/ VisitMoves
    <3>1. Visited(Prompt)
      BY <1>0, <2>1 DEF Finalize, Live
    <3>. QED
      BY <1>0, <1>4, <2>1, <3>1, FinalizeSteps DEF ToolReached, VisitKept
  <2>2. CASE FinalizerTools
    <3>1. Visited(Prompt)
      BY <1>0, <2>2 DEF FinalizerTools, FinalizerToolsDue
    <3>. QED
      BY <1>0, <1>4, <2>2, <3>1, FinalizerToolsSteps DEF ToolReached, VisitKept
  <2>3. CASE FinalizerTurn
    <3>1. PICK t : t = Head(left)
      OBVIOUS
    <3>2. stage = "turns" /\ Visited(Prompt) /\ left # <<>> /\ left \in Seq(Turns)
      BY <1>0, <2>3, Types DEF FinalizerTurn, FinalizerTurnDue
    <3>3. t \in Turns /\ NextTurns \in Seq(Turns) /\ Prompt \in Turns \cup {Prompt}
      BY <3>1, <3>2, NextIs
    <3>4. CASE (\E h \in Generations : Reaches(Prompt, t, h, {}, {})) /\ stage' = stage
      BY <1>0, <3>2, <3>3, <3>4, VisitTo
    <3>. QED
      BY <1>0, <1>4, <2>3, <3>1, <3>2, <3>3, <3>4, FinalizerTurnSteps
  <2>4. CASE FinalizerScores \/ RootEnds
    BY <2>4 DEF FinalizerScores, RootEnds, turnVars, VisitKept
  <2>. QED
    BY <1>5, <2>1, <2>2, <2>3, <2>4 DEF FinalStep
<1>. QED
  BY <1>1, <1>2, <1>3, <1>5, Steps

-----------------------------------------------------------------------------
(* What a step does to the line                                            *)

Waiters == Children \cup {Prompt}

OthersWait(c) == \A d \in Waiters : d # c => (Waits(d)' <=> Waits(d))

LineKept == line' = line /\ \A d \in Waiters : Waits(d)' <=> Waits(d)

LineJoined == \E c \in Waiters :
  line' = Append(line, c) /\ ~Waits(c) /\ Waits(c)' /\ OthersWait(c)

LineLeft == \E c \in Waiters : Answered(c) /\ ~Waits(c)' /\ OthersWait(c)

ScoresKept ==
  /\ stage' = "scores" <=> stage = "scores"
  /\ \A k \in Tools : finish'[k] = "scoring" <=> finish[k] = "scoring"

LEMMA LineSame ==
  ASSUME UNCHANGED <<line, start>>, ScoresKept
  PROVE  LineKept
BY DEF LineKept, Waits, ScoresKept

LEMMA LineAsked ==
  ASSUME TypeOK, NEW c \in Children, EnsureAsked(c), ScoresKept,
         c \in Tools /\ start[c] = "none" => finish[c] # "scoring"
  PROVE  LineKept \/ LineJoined
<1>1. /\ start' = [start EXCEPT ![c] = IF @ = "none" THEN "asked" ELSE @]
      /\ \/ start[c] # "none" /\ line' = line
         \/ start[c] = "none" /\ line' = Append(line, c)
  BY AskEffect
<1>2. start \in [Children -> {"none", "asked", "settled"}] /\ c # Prompt /\ c \in Waiters
  BY Types, Kinds, ScopeAssumption DEF Waiters
<1>3. CASE start[c] # "none"
  BY <1>1, <1>2, <1>3, LineSame
<1>4. CASE start[c] = "none"
  <2>1. ~Waits(c) /\ Waits(c)'
    BY <1>1, <1>2, <1>4 DEF Waits
  <2>2. OthersWait(c)
    BY <1>1, <1>2 DEF OthersWait, Waits, Waiters, ScoresKept
  <2>. QED
    BY <1>1, <1>2, <1>4, <2>1, <2>2 DEF LineJoined
<1>. QED
  BY <1>3, <1>4

LEMMA LineSettles ==
  ASSUME TypeOK, ToolsTracked, NEW c \in Children, NEW wanted, StartSettles(c, wanted),
         UNCHANGED <<stage, finish>>
  PROVE  LineLeft
<1>1. start \in [Children -> {"none", "asked", "settled"}] /\ c # Prompt /\ c \in Waiters
  BY Types, Kinds, ScopeAssumption DEF Waiters
<1>2. start[c] = "asked" /\ start' = [start EXCEPT ![c] = "settled"] /\ Answered(c)
  BY DEF StartSettles
<1>3. ~Waits(c)'
  BY <1>1, <1>2 DEF Waits, ToolsTracked
<1>4. OthersWait(c)
  BY <1>1, <1>2 DEF OthersWait, Waits, Waiters
<1>. QED
  BY <1>1, <1>2, <1>3, <1>4 DEF LineLeft

LEMMA LineEvent ==
  ASSUME IInv, EventStep, UNCHANGED <<toolVars, finalVars>>
  PROVE  LineKept \/ LineJoined \/ LineLeft
<1>0. TypeOK /\ TurnsKnown /\ ToolsTracked
  BY DEF IInv
<1>1. ScoresKept
  <2>1. stage' = stage
    BY DEF EventStep, TurnStart, TurnEndUntracked, TurnEnd, BeforeProviderRequest,
       MessageEvent, MessageFails, MessageEnd, TurnSpanStarts, TurnEndContinues,
       GenerationStarts, FailureResumes, GenerationFinishes, scopeVars
  <2>2. \A k \in Tools : ToolKept(k)
    BY ToolEvents
  <2>. QED
    BY <2>1, <2>2 DEF ToolKept, ScoresKept
<1>2. ASSUME NEW t \in Turns, TurnStart(t) PROVE LineKept \/ LineJoined
  <2>1. /\ start[t] = "none" /\ t \in Children /\ t \notin Tools
        /\ EnsureAsked(t) \/ UNCHANGED <<line, start>>
    <3>1. start \in [Children -> {"none", "asked", "settled"}] /\ t \in Children /\ t \notin Tools
      BY <1>0, Types, Kinds
    <3>2. start[t] = "none"
      BY <1>0, <1>2, <3>1 DEF TurnStart, TurnsKnown, Live
    <3>. QED
      BY <1>2, <3>1, <3>2 DEF TurnStart, EnsureAsked
  <2>. QED
    BY <1>0, <1>1, <2>1, LineAsked, LineSame
<1>3. ASSUME NEW t \in Turns, NEW g \in Generations,
             MessageEvent(t, g) \/ MessageFails(t, g) \/ MessageEnd(t, g)
      PROVE  LineKept \/ LineJoined
  <2>1. g \in Children /\ g \notin Tools
    BY Kinds
  <2>2. EnsureAsked(g) \/ UNCHANGED <<line, start>>
    BY <1>3 DEF MessageEvent, MessageFails, MessageEnd
  <2>. QED
    BY <1>0, <1>1, <2>1, <2>2, LineAsked, LineSame
<1>4. ASSUME NEW t \in Turns, TurnSpanStarts(t) PROVE LineLeft
  BY <1>0, <1>4, Kinds, LineSettles DEF TurnSpanStarts
<1>5. ASSUME NEW g \in Generations, GenerationStarts(g) PROVE LineLeft
  BY <1>0, <1>5, Kinds, LineSettles DEF GenerationStarts
<1>6. CASE UNCHANGED <<line, start>>
  BY <1>1, <1>6, LineSame
<1>7. ASSUME NEW t \in Turns, \/ TurnEndUntracked(t) \/ TurnEnd(t) \/ TurnEndContinues(t)
      PROVE  UNCHANGED <<line, start>>
  BY <1>7 DEF TurnEndUntracked, TurnEnd, TurnEndContinues, scopeVars
<1>8. ASSUME NEW t \in Turns, NEW g \in Generations,
             BeforeProviderRequest(t, g) \/ FailureResumes(g) \/ GenerationFinishes(g)
      PROVE  UNCHANGED <<line, start>>
  BY <1>8 DEF BeforeProviderRequest, FailureResumes, GenerationFinishes, scopeVars
<1>9. ASSUME NEW g \in Generations, FailureResumes(g) \/ GenerationFinishes(g)
      PROVE  UNCHANGED <<line, start>>
  BY <1>9 DEF FailureResumes, GenerationFinishes
<1>. QED
  BY <1>2, <1>3, <1>4, <1>5, <1>6, <1>7, <1>8, <1>9 DEF EventStep

LEMMA LineTool ==
  ASSUME IInv, ToolStep, UNCHANGED <<turnVars, finalVars>>
  PROVE  LineKept \/ LineJoined \/ LineLeft
<1>0. /\ TypeOK /\ ToolsTracked /\ SpansRight
      /\ finish \in [Generations \cup Tools -> {"none", "waiting", "unasked", "scoring", "done"}]
      /\ \A k \in Tools : k \in Children /\ k \in Waiters /\ k # Prompt
  BY Types, Kinds DEF IInv, Waiters
<1>1. ASSUME NEW k \in Tools, ToolEvent(k) PROVE LineKept \/ LineJoined
  <2>1. ScoresKept /\ (UNCHANGED <<line, start>> \/ (k \notin ended /\ EnsureAsked(k)))
    BY <1>1 DEF ToolEvent, ScoresKept
  <2>. QED
    BY <1>0, <2>1, LineSame, LineAsked DEF ToolsTracked
<1>2. ASSUME NEW k \in Tools, ToolResult(k) PROVE LineKept
  BY <1>2, LineSame DEF ToolResult, scopeVars, ScoresKept
<1>3. ASSUME NEW k \in Tools, ToolExecutionEnd(k)
      PROVE  LineKept \/ LineJoined
  <2>1. ScoresKept /\ finish[k] = "none" /\ (EnsureAsked(k) \/ UNCHANGED <<line, start>>)
    BY <1>0, <1>3 DEF ToolExecutionEnd, FinishTool, ScoresKept
  <2>. QED
    BY <1>0, <2>1, LineAsked, LineSame
<1>4. ASSUME NEW k \in Tools, ToolSpanStarts(k) PROVE LineLeft
  BY <1>0, <1>4, LineSettles DEF ToolSpanStarts
<1>5. ASSUME NEW k \in Tools, ToolScored(k) PROVE LineLeft
  <2>1. /\ finish[k] = "scoring" /\ Answered(k) /\ finish' = [finish EXCEPT ![k] = "done"]
        /\ UNCHANGED <<stage, start>>
    BY <1>5 DEF ToolScored
  <2>2. ~Waits(k)'
    BY <1>0, <2>1 DEF Waits, ToolsTracked
  <2>3. OthersWait(k)
    BY <1>0, <2>1 DEF OthersWait, Waits
  <2>. QED
    BY <1>0, <2>1, <2>2, <2>3 DEF LineLeft
<1>6. ASSUME NEW k \in Tools, ToolFinishes(k) PROVE LineKept \/ LineJoined
  <2>1. /\ finish[k] \in {"waiting", "unasked"} /\ UNCHANGED <<stage, start>>
        /\ \/ /\ span[k] # "none"
              /\ finish' = [finish EXCEPT ![k] = "scoring"] /\ line' = Append(line, k)
           \/ finish' = [finish EXCEPT ![k] = "done"] /\ UNCHANGED line
    BY <1>6 DEF ToolFinishes, ToolFinishDue
  <2>2. CASE /\ span[k] # "none"
             /\ finish' = [finish EXCEPT ![k] = "scoring"] /\ line' = Append(line, k)
    <3>0. start[k] = "settled"
      BY <1>0, <2>2 DEF SpansRight
    <3>1. ~Waits(k) /\ Waits(k)' /\ OthersWait(k)
      BY <1>0, <2>1, <2>2, <3>0 DEF OthersWait, Waits
    <3>. QED
      BY <1>0, <2>2, <3>1 DEF LineJoined
  <2>3. CASE finish' = [finish EXCEPT ![k] = "done"] /\ UNCHANGED line
    BY <1>0, <2>1, <2>3, LineSame DEF ScoresKept
  <2>. QED
    BY <2>1, <2>2, <2>3
<1>. QED
  BY <1>1, <1>2, <1>3, <1>4, <1>5, <1>6 DEF ToolStep

LEMMA LineFinal ==
  ASSUME IInv, FinalStep
  PROVE  LineKept \/ LineJoined \/ LineLeft
<1>0. /\ TypeOK /\ Prompt \in Waiters
      /\ finish \in [Generations \cup Tools -> {"none", "waiting", "unasked", "scoring", "done"}]
      /\ \A k \in Tools : k \in Children
      /\ \A c \in Children : c # Prompt
  BY Types, Kinds, ScopeAssumption DEF IInv, Waiters
<1>1. \A k \in Tools : finish'[k] = "scoring" <=> finish[k] = "scoring"
  <2>1. \A k \in Tools : ToolKept(k) \/ ToolSeen(k)
    BY ToolFinal
  <2>. QED
    BY <2>1 DEF ToolKept, ToolSeen
<1>2. ASSUME NEW k \in Tools, ToolReached(k), stage # "scores", stage' # "scores"
      PROVE  LineKept \/ LineJoined
  <2>1. UNCHANGED <<line, start>> \/ (EnsureAsked(k) /\ finish[k] = "none")
    BY <1>2 DEF ToolReached, EndUnfinished, FinishTool
  <2>2. ScoresKept
    BY <1>1, <1>2 DEF ScoresKept
  <2>. QED
    BY <1>0, <2>1, <2>2, LineSame, LineAsked
<1>3. ASSUME NEW r, Finalize(r) PROVE LineKept \/ LineJoined
  <2>1. stage # "scores" /\ stage' # "scores"
    BY <1>0, <1>3, FinalizeSteps DEF Finalize, Live, TurnReached
  <2>2. UNCHANGED <<line, start>> => LineKept
    BY <1>1, <2>1, LineSame DEF ScoresKept
  <2>. QED
    BY <1>0, <1>2, <1>3, <2>1, <2>2, FinalizeSteps DEF toolRest
<1>4. CASE FinalizerTools
  <2>1. stage # "scores" /\ stage' # "scores"
    BY <1>0, <1>4, FinalizerToolsSteps DEF FinalizerTools, FinalizerToolsDue, TurnReached
  <2>2. UNCHANGED <<line, start>> => LineKept
    BY <1>1, <2>1, LineSame DEF ScoresKept
  <2>. QED
    BY <1>0, <1>2, <1>4, <2>1, <2>2, FinalizerToolsSteps DEF toolRest
<1>5. CASE FinalizerTurn
  <2>1. stage = "turns" /\ UNCHANGED <<line, start>>
    BY <1>5 DEF FinalizerTurn, FinalizerTurnDue
  <2>2. PICK t : t = Head(left)
    OBVIOUS
  <2>3. stage' = "turns"
    BY <1>0, <1>5, <2>1, <2>2, FinalizerTurnSteps DEF TurnReached
  <2>. QED
    BY <1>1, <2>1, <2>3, LineSame DEF ScoresKept
<1>6. CASE FinalizerScores
  <2>1. /\ stage = "turns" /\ UNCHANGED <<start, finish>>
        /\ \/ stage' = "scores" /\ line' = Append(line, Prompt)
           \/ stage' = "done" /\ line' = line
    BY <1>6 DEF FinalizerScores, FinalizerScoresDue
  <2>2. CASE stage' = "scores" /\ line' = Append(line, Prompt)
    <3>1. ~Waits(Prompt) /\ Waits(Prompt)' /\ OthersWait(Prompt)
      BY <2>1, <2>2 DEF Waits, OthersWait
    <3>. QED
      BY <1>0, <2>2, <3>1 DEF LineJoined
  <2>3. CASE stage' = "done" /\ line' = line
    BY <1>1, <2>1, <2>3, LineSame DEF ScoresKept
  <2>. QED
    BY <2>1, <2>2, <2>3
<1>7. CASE RootEnds
  <2>1. Answered(Prompt) /\ stage = "scores" /\ stage' = "done" /\ UNCHANGED <<start, finish>>
    BY <1>7 DEF RootEnds
  <2>2. ~Waits(Prompt)' /\ OthersWait(Prompt)
    BY <2>1 DEF Waits, OthersWait
  <2>. QED
    BY <1>0, <2>1, <2>2 DEF LineLeft
<1>. QED
  BY <1>3, <1>4, <1>5, <1>6, <1>7 DEF FinalStep

LEMMA LineMove ==
  ASSUME IInv, [Next]_vars
  PROVE  LineKept \/ LineJoined \/ LineLeft
<1>1. CASE UNCHANGED promptVars
  BY <1>1, LineSame DEF promptVars, scopeVars, ScoresKept
<1>. QED
  BY <1>1, Steps, LineEvent, LineTool, LineFinal

-----------------------------------------------------------------------------
(* The invariant is kept                                                   *)

LEMMA LineStep ==
  ASSUME IInv, [Next]_vars
  PROVE  LineRight'
<1>. DEFINE S == Children \cup {Prompt}
<1>0. /\ line \in Seq(S) /\ Waiters = S
      /\ \A k \in DOMAIN line : \A c \in S : c = line[k] => Waits(c)
      /\ \A j, k \in DOMAIN line : line[j] = line[k] => j = k
      /\ \A c \in S : Waits(c) => c \in Elements(line)
  BY Types DEF IInv, LineRight, Waiters, Waits
<1>1. line' \in Seq(S)
  BY TypeStep, Types DEF IInv, TypeOK, ScopeTypeOK
<1>. HIDE DEF S
<1>2. SUFFICES /\ \A k \in DOMAIN line' : \A c \in S : c = line'[k] => Waits(c)'
               /\ \A j, k \in DOMAIN line' : line'[j] = line'[k] => j = k
               /\ \A c \in S : Waits(c)' => c \in Elements(line')
  <2>1. \A k \in DOMAIN line' : line'[k] \in S
    BY <1>1
  <2>. QED
    BY <2>1 DEF LineRight, Waits, S
<1>3. CASE LineKept
  BY <1>0, <1>3 DEF LineKept
<1>4. CASE LineJoined
  <2>1. PICK c \in S : line' = Append(line, c) /\ ~Waits(c) /\ Waits(c)' /\ OthersWait(c)
    BY <1>0, <1>4 DEF LineJoined
  <2>2. PICK n \in Nat : n = Len(line)
    BY <1>0
  <2>3. /\ DOMAIN line = 1..n /\ DOMAIN line' = 1..(n + 1) /\ line'[n + 1] = c
        /\ \A i \in 1..n : line'[i] = line[i] /\ line[i] # c
    BY <1>0, <2>1, <2>2
  <2>. QED
    BY <1>0, <2>1, <2>3 DEF OthersWait, Elements
<1>5. CASE LineLeft
  <2>1. PICK c \in S : Answered(c) /\ ~Waits(c)' /\ OthersWait(c)
    BY <1>0, <1>5 DEF LineLeft
  <2>2. PICK n \in Nat : n = Len(line) /\ n > 0
    BY <1>0, <2>1 DEF Answered
  <2>3. /\ DOMAIN line = 1..n /\ DOMAIN line' = 1..(n - 1) /\ line[1] = c
        /\ \A i \in 1..(n - 1) : line'[i] = line[i + 1] /\ i + 1 \in 1..n
    BY <1>0, <2>1, <2>2 DEF Answered
  <2>4. \A i \in 2..n : line[i] # c /\ i - 1 \in 1..(n - 1) /\ line'[i - 1] = line[i]
    BY <1>0, <2>3
  <2>5. \A k \in 1..(n - 1) : \A d \in S : d = line'[k] => Waits(d)'
    <3>1. ASSUME NEW k \in 1..(n - 1), NEW d \in S, d = line'[k] PROVE Waits(d)'
      <4>1. k + 1 \in 1..n /\ line[k + 1] = d
        BY <2>3, <3>1
      <4>2. 1 \in 1..n /\ k + 1 # 1
        BY <2>2, <3>1
      <4>3. d # c
        BY <1>0, <2>3, <4>1, <4>2
      <4>4. Waits(d)
        BY <1>0, <2>3, <3>1, <4>1
      <4>5. Waits(d)' <=> Waits(d)
        BY <1>0, <2>1, <3>1, <4>3 DEF OthersWait
      <4>. QED
        BY <4>4, <4>5
    <3>. QED
      BY <3>1
  <2>6. ASSUME NEW d \in S, Waits(d)' PROVE d \in Elements(line')
    <3>1. d # c /\ d \in Elements(line)
      BY <1>0, <2>1, <2>6 DEF OthersWait
    <3>2. PICK i \in 1..n : line[i] = d
      BY <2>3, <3>1 DEF Elements
    <3>3. i \in 2..n
      BY <2>3, <3>1, <3>2
    <3>. QED
      BY <2>3, <2>4, <3>2, <3>3 DEF Elements
  <2>7. ASSUME NEW j \in 1..(n - 1), NEW k \in 1..(n - 1), line'[j] = line'[k] PROVE j = k
    <3>1. /\ j + 1 \in 1..n /\ k + 1 \in 1..n
          /\ line'[j] = line[j + 1] /\ line'[k] = line[k + 1]
      BY <2>3
    <3>2. j + 1 = k + 1
      BY <1>0, <2>3, <2>7, <3>1
    <3>. QED
      BY <3>2
  <2>. QED
    BY <2>3, <2>5, <2>6, <2>7
<1>. QED
  BY <1>3, <1>4, <1>5, LineMove

(* No request goes back on what has happened to it.                        *)
LEMMA RequestGrows ==
  ASSUME IInv, [Next]_vars, NEW g \in Generations
  PROVE  /\ g \in ended => g \in ended'
         /\ finish[g] # "none" => finish'[g] # "none"
         /\ finish[g] = "done" => finish'[g] = "done"
BY RequestMove DEF RequestKept, RequestSeen, RequestStarts, RequestFails, RequestEnds,
   RequestAbandoned

(* A turn in whose list nothing is added has no more unfinished requests.  *)
LEMMA UnfinishedShrinks ==
  ASSUME IInv, [Next]_vars, NEW t \in Turns, order'[t] = order[t]
  PROVE  /\ Unfinished(t)' \subseteq Unfinished(t)
         /\ InFlight(t)' \subseteq InFlight(t)
<1>1. order[t] \in Seq(Generations)
  BY Types DEF IInv
<1>2. \A i \in DOMAIN order[t] : order[t][i] \in Generations
  BY <1>1
<1>3. \A g \in Elements(order[t]) : g \in Generations
  BY <1>2 DEF Elements
<1>4. Elements(order[t])' = Elements(order[t])
  BY DEF Elements
<1>5. \A g \in Unfinished(t)' : g \in Unfinished(t)
  BY <1>3, <1>4, RequestGrows DEF Unfinished
<1>6. \A i \in InFlight(t)' : i \in InFlight(t)
  BY <1>2, RequestGrows DEF InFlight
<1>. QED
  BY <1>5, <1>6

LEMMA NothingListed ==
  ASSUME NEW t, order'[t] = <<>>
  PROVE  Unfinished(t)' = {} /\ InFlight(t)' = {} /\ Elements(order'[t]) = {}
<1>1. DOMAIN order'[t] = {}
  OBVIOUS
<1>. QED
  BY <1>1 DEF Unfinished, InFlight, Elements

LEMMA SpansStep ==
  ASSUME IInv, [Next]_vars
  PROVE  SpansRight'
<1>0. /\ SpansRight /\ RequestsRight /\ ToolsTracked /\ TypeOK
      /\ closing \in [Turns -> {"none", "abandoning", "starting", "done"}]
  BY Types DEF IInv
<1>1. ASSUME NEW g \in Generations
      PROVE  /\ span'[g] # "twice" /\ (span'[g] # "none" => start'[g] = "settled")
             /\ span'[g] = "ended" => finish'[g] = "done"
  <2>1. /\ span[g] # "twice" /\ (span[g] # "none" => start[g] = "settled")
        /\ span[g] = "ended" => finish[g] = "done"
        /\ span[g] \in {"none", "open", "ended", "twice"}
    BY <1>0, Types, Kinds DEF SpansRight
  <2>. QED
    BY <2>1, RequestMove DEF RequestKept, RequestSeen, RequestStarts, RequestFails, RequestEnds,
       RequestAbandoned
<1>2. ASSUME NEW k \in Tools
      PROVE  /\ span'[k] # "twice" /\ (span'[k] # "none" => start'[k] = "settled")
             /\ span'[k] = "ended" => finish'[k] \in {"scoring", "done"}
  <2>1. /\ span[k] # "twice" /\ (span[k] # "none" => start[k] = "settled")
        /\ span[k] = "ended" => finish[k] \in {"scoring", "done"}
        /\ span[k] \in {"none", "open", "ended", "twice"}
    BY <1>0, Types, Kinds DEF SpansRight
  <2>. QED
    BY <2>1, ToolMove DEF ToolKept, ToolSeen, ToolStarts, ToolScoreSent, ToolEnds, SpanClosed
<1>3. ASSUME NEW t \in Turns
      PROVE  /\ span'[t] # "twice" /\ (span'[t] # "none" => start'[t] = "settled")
             /\ closing'[t] # "none" => t \in ended'
             /\ span'[t] = "ended" => t \in ended' /\ ~Ending(t)' /\ order'[t] = <<>>
  <2>1. /\ span[t] # "twice" /\ (span[t] # "none" => start[t] = "settled")
        /\ closing[t] # "none" => t \in ended
        /\ span[t] = "ended" => t \in ended /\ ~Ending(t) /\ order[t] = <<>>
        /\ span[t] \in {"none", "open", "ended", "twice"}
        /\ closing[t] \in {"none", "abandoning", "starting", "done"}
    BY <1>0, Types, Kinds DEF SpansRight
  <2>2. CASE TurnKept(t)
    BY <2>1, <2>2 DEF TurnKept, ListsNew, Observed, Ending
  <2>3. CASE TurnBegins(t)
    <3>1. start[t] = "none"
      <4>1. start \in [Children -> {"none", "asked", "settled"}] /\ t \in Children
        BY <1>0, Types, Kinds
      <4>. QED
        BY <2>3, <4>1 DEF IInv, TurnsKnown, TurnBegins, Live
    <3>. QED
      BY <2>1, <2>3, <3>1 DEF TurnBegins, Ending
  <2>4. CASE TurnStarts(t)
    BY <2>1, <2>4 DEF TurnStarts, Ending
  <2>5. CASE TurnComesToEnd(t)
    BY <2>1, <2>5 DEF TurnComesToEnd, Ending
  <2>6. CASE TurnAwaits(t)
    BY <2>1, <2>6 DEF TurnAwaits, Ending
  <2>7. CASE TurnCloses(t)
    BY <2>1, <2>7 DEF TurnCloses, SpanClosed, TurnEndDue, Ending
  <2>8. CASE TurnLeft(t)
    BY <1>0, <2>1, <2>8 DEF TurnLeft, SpanClosed, Ending
  <2>. QED
    BY <2>2, <2>3, <2>4, <2>5, <2>6, <2>7, <2>8, TurnMove
<1>. QED
  BY <1>1, <1>2, <1>3, Kinds DEF SpansRight

(* Only an end without tracing leaves a turn's span open.                  *)
LEMMA LeaksStep ==
  ASSUME IInv, [Next]_vars
  PROVE  LeaksRight'
<1>. SUFFICES ASSUME NEW t \in Turns, closing'[t] = "done", span'[t] = "open"
     PROVE  switched' > 0
  BY DEF LeaksRight
<1>1. /\ closing[t] = "done" => t \in ended
      /\ closing[t] = "done" /\ span[t] = "open" => switched > 0
      /\ span[t] \in {"none", "open", "ended", "twice"}
  BY Types, Kinds DEF IInv, SpansRight, LeaksRight
<1>2. switched > 0
  BY <1>1, TurnMove DEF TurnKept, TurnBegins, TurnStarts, TurnComesToEnd, TurnAwaits, TurnCloses,
     TurnLeft, SpanClosed
<1>3. switched \in 0..MaxSwitches /\ switched' \in 0..MaxSwitches /\ MaxSwitches \in Nat
      /\ switched <= switched'
  BY SwitchStep, ScopeAssumption DEF IInv, TypeOK
<1>. QED
  BY <1>2, <1>3

LEMMA RequestsStep ==
  ASSUME IInv, [Next]_vars
  PROVE  RequestsRight'
<1>. SUFFICES ASSUME NEW g \in Generations
     PROVE  /\ turnOf'[g] = None => /\ start'[g] = "none" /\ finish'[g] = "none"
                                    /\ g \notin ended' \cup abandoned' \cup failing'
            /\ finish'[g] \notin {"scoring", "unasked"}
            /\ finish'[g] = "done" => start'[g] # "asked" /\ span'[g] # "open"
            /\ g \in ended' => finish'[g] # "none"
            /\ g \in ended' /\ finish'[g] = "waiting" => g \in abandoned'
            /\ g \in abandoned' => g \in ended'
            /\ g \in failing' => start'[g] # "none"
  BY DEF RequestsRight
<1>1. /\ turnOf[g] = None => /\ start[g] = "none" /\ finish[g] = "none"
                             /\ g \notin ended \cup abandoned \cup failing
      /\ finish[g] \notin {"scoring", "unasked"}
      /\ finish[g] = "done" => start[g] # "asked" /\ span[g] # "open"
      /\ g \in ended => finish[g] # "none"
      /\ g \in ended /\ finish[g] = "waiting" => g \in abandoned
      /\ g \in abandoned => g \in ended
      /\ g \in failing => start[g] # "none"
      /\ span[g] # "twice"
      /\ \A t \in Turns : t # None
  BY Kinds DEF IInv, RequestsRight, SpansRight
<1>2. CASE RequestKept(g)
  BY <1>1, <1>2 DEF RequestKept
<1>3. CASE RequestSeen(g)
  BY <1>1, <1>3 DEF RequestSeen
<1>4. CASE RequestStarts(g)
  BY <1>1, <1>4 DEF RequestStarts
<1>5. CASE RequestFails(g)
  BY <1>1, <1>5 DEF RequestFails
<1>6. CASE RequestEnds(g)
  <2>1. span[g] \in {"none", "open", "ended"}
    BY <1>1, Types, Kinds DEF IInv
  <2>. QED
    BY <1>1, <1>6, <2>1 DEF RequestEnds
<1>7. CASE RequestAbandoned(g)
  BY <1>1, <1>7 DEF RequestAbandoned
<1>. QED
  BY <1>2, <1>3, <1>4, <1>5, <1>6, <1>7, RequestMove

LEMMA ToolsStep ==
  ASSUME IInv, [Next]_vars
  PROVE  ToolsTracked'
<1>. SUFFICES ASSUME NEW k \in Tools
     PROVE  /\ span'[k] = "open" =>
                  k \in activeTools' /\ finish'[k] \in {"none", "waiting", "unasked"}
            /\ finish'[k] \in {"scoring", "done"} => k \in ended'
            /\ finish'[k] = "scoring" => start'[k] = "settled"
            /\ stage' \in {"turns", "scores", "done"} => activeTools' = {}
  BY DEF ToolsTracked
<1>1. /\ span[k] = "open" => k \in activeTools /\ finish[k] \in {"none", "waiting", "unasked"}
      /\ finish[k] \in {"scoring", "done"} => k \in ended
      /\ finish[k] = "scoring" => start[k] = "settled"
      /\ stage \in {"turns", "scores", "done"} => activeTools = {}
      /\ span[k] # "none" => start[k] = "settled"
      /\ span[k] # "twice" /\ finish[k] \in {"none", "waiting", "unasked", "scoring", "done"}
      /\ span[k] = "ended" => finish[k] \in {"scoring", "done"}
  BY Types, Kinds DEF IInv, ToolsTracked, SpansRight
<1>2. stage' \in {"turns", "scores", "done"} => activeTools' = {}
  BY <1>1, StageMove, Types
     DEF IInv, Stages, StageKept, FinalizingStarts, TurnsFollow, NextTurnFollows,
     ScoresFollow, RootFollows
<1>3. CASE ToolKept(k)
  BY <1>1, <1>2, <1>3 DEF ToolKept, ToolsLeft, UnfinishedTools
<1>4. CASE ToolSeen(k)
  BY <1>1, <1>2, <1>4 DEF ToolSeen
<1>5. CASE ToolStarts(k)
  BY <1>1, <1>2, <1>5 DEF ToolStarts
<1>6. CASE ToolScoreSent(k)
  BY <1>1, <1>2, <1>6 DEF ToolScoreSent
<1>7. CASE ToolEnds(k)
  BY <1>1, <1>2, <1>7 DEF ToolEnds, SpanClosed
<1>. QED
  BY <1>3, <1>4, <1>5, <1>6, <1>7, ToolMove

(* When a turn closes or is left, its requests are over.                   *)
LEMMA OverWhenLeft ==
  ASSUME IInv, NEW t \in Turns, NEW g \in Generations, g \in Elements(order[t]),
         TurnCloses(t) \/ TurnLeft(t) \/ TurnAwaits(t)
  PROVE  span[g] # "open" /\ (g \in ended \/ finish[g] = "done")
<1>0. /\ SpansRight /\ RequestsRight /\ OrdersRight /\ AwaitedRight
      /\ span[g] # "none" => start[g] = "settled"
      /\ turnOf[g] = t /\ g # None
      /\ finish[g] \in {"none", "waiting", "unasked", "scoring", "done"}
      /\ closing[t] \in {"none", "abandoning", "starting", "done"}
  BY Types, Kinds DEF IInv, SpansRight, OrdersRight, Elements
<1>1. Unfinished(t) = {}
  <2>1. CASE TurnCloses(t)
    BY <1>0, <2>1 DEF TurnCloses, TurnEndDue, OrdersRight
  <2>2. CASE TurnLeft(t) \/ TurnAwaits(t)
    BY <2>2 DEF TurnLeft, TurnAwaits
  <2>. QED
    BY <2>1, <2>2
<1>2. g \in ended \/ finish[g] = "done"
  BY <1>1 DEF Unfinished
<1>3. span[g] # "open"
  <2>1. CASE finish[g] = "done"
    BY <1>0, <2>1 DEF RequestsRight
  <2>2. CASE finish[g] # "done"
    <3>1. g \in ended /\ finish[g] = "waiting" /\ g \in abandoned
      BY <1>0, <1>2, <2>2 DEF RequestsRight
    <3>2. CASE TurnLeft(t)
      BY <1>0, <2>2, <3>1, <3>2 DEF TurnLeft, AwaitedRight, SpansRight, Visited
    <3>3. CASE TurnAwaits(t) \/ (TurnCloses(t) /\ closing[t] = "abandoning")
      <4>1. EndsPassed(t) /\ closing[t] = "abandoning"
        BY <3>3 DEF TurnAwaits, TurnCloses
      <4>2. start[g] = "asked"
        BY <3>1, <4>1 DEF EndsPassed, FinishDue, Started
      <4>. QED
        BY <1>0, <4>2
    <3>4. CASE TurnCloses(t) /\ closing[t] # "abandoning"
      BY <1>0, <3>4 DEF TurnCloses, TurnEndDue, OrdersRight, Elements
    <3>. QED
      BY <3>2, <3>3, <3>4
  <2>. QED
    BY <2>1, <2>2
<1>. QED
  BY <1>2, <1>3

(* How the list of a turn changes.                                         *)
LEMMA OrderMove ==
  ASSUME IInv, [Next]_vars, NEW t \in Turns
  PROVE  order'[t] = order[t] \/ ListsNew(t)
           \/ (order'[t] = <<>> /\ (TurnCloses(t) \/ TurnLeft(t)))
BY TurnMove DEF TurnKept, TurnBegins, TurnStarts, TurnComesToEnd, TurnAwaits, TurnCloses, TurnLeft

(* What has been over stays over.                                          *)
LEMMA OverStays ==
  ASSUME IInv, [Next]_vars, NEW g \in Generations, turnOf[g] # None,
         span[g] # "open", g \in ended \/ finish[g] = "done"
  PROVE  span'[g] # "open" /\ (g \in ended' \/ finish'[g] = "done")
<1>1. finish[g] = "done" => start[g] # "asked"
  BY DEF IInv, RequestsRight
<1>. QED
  BY <1>1, RequestMove DEF RequestKept, RequestSeen, RequestStarts, RequestFails, RequestEnds,
     RequestAbandoned

LEMMA TurnOfStays ==
  ASSUME IInv, [Next]_vars, NEW g \in Generations
  PROVE  /\ turnOf[g] # None => turnOf'[g] = turnOf[g]
         /\ turnOf[g] = None /\ turnOf'[g] # None =>
              turnOf'[g] \in Turns /\ g \in Elements(order'[turnOf'[g]])
BY RequestMove DEF RequestKept, RequestSeen, RequestStarts, RequestFails, RequestEnds,
   RequestAbandoned

LEMMA OrdersStep ==
  ASSUME IInv, [Next]_vars
  PROVE  OrdersRight'
<1>0. /\ OrdersRight /\ SpansRight /\ RequestsRight /\ order \in [Turns -> Seq(Generations)]
      /\ turnOf \in [Generations -> Turns \cup {None}]
      /\ \A t \in Turns : t # None
  BY Types, Kinds DEF IInv
<1>1. ASSUME NEW t \in Turns
      PROVE  /\ IsInjective(order'[t])
             /\ \A i \in DOMAIN order'[t] : turnOf'[order'[t][i]] = t
  <2>1. /\ order[t] \in Seq(Generations) /\ IsInjective(order[t])
        /\ \A i \in DOMAIN order[t] : /\ turnOf[order[t][i]] = t /\ order[t][i] \in Generations
                                      /\ turnOf'[order[t][i]] = t
    BY <1>0, TurnOfStays DEF OrdersRight
  <2>2. CASE order'[t] = order[t]
    BY <2>1, <2>2
  <2>3. CASE ListsNew(t)
    <3>1. PICK g \in Generations :
            turnOf[g] = None /\ turnOf'[g] = t /\ order'[t] = Append(order[t], g)
      BY <2>3 DEF ListsNew
    <3>2. PICK n \in Nat : n = Len(order[t]) /\ DOMAIN order[t] = 1..n
      BY <2>1
    <3>3. /\ DOMAIN order'[t] = 1..(n + 1) /\ order'[t][n + 1] = g
          /\ \A i \in 1..n : order'[t][i] = order[t][i] /\ order[t][i] # g
      BY <1>0, <2>1, <3>1, <3>2
    <3>. QED
      BY <2>1, <3>1, <3>2, <3>3 DEF IsInjective
  <2>4. CASE order'[t] = <<>>
    <3>1. DOMAIN order'[t] = {}
      BY <2>4
    <3>. QED
      BY <3>1 DEF IsInjective
  <2>. QED
    BY <2>2, <2>3, <2>4, OrderMove
<1>2. ASSUME NEW g \in Generations, turnOf'[g] # None
      PROVE  \/ g \in Elements(order'[turnOf'[g]])
             \/ span'[g] # "open" /\ (g \in ended' \/ finish'[g] = "done")
  <2>1. CASE turnOf[g] = None
    BY <1>2, <2>1, TurnOfStays
  <2>2. CASE turnOf[g] # None
    <3>1. PICK t \in Turns : t = turnOf[g] /\ t = turnOf'[g]
      BY <1>0, <2>2, TurnOfStays
    <3>2. CASE span[g] # "open" /\ (g \in ended \/ finish[g] = "done")
      BY <2>2, <3>2, OverStays
    <3>3. CASE g \in Elements(order[t])
      <4>1. order[t] \in Seq(Generations)
        BY <1>0
      <4>2. CASE order'[t] = order[t]
        BY <3>1, <3>3, <4>2
      <4>3. CASE ListsNew(t)
        <5>1. \A i \in DOMAIN order[t] : i \in DOMAIN order'[t] /\ order'[t][i] = order[t][i]
          BY <4>1, <4>3 DEF ListsNew
        <5>. QED
          BY <3>1, <3>3, <5>1 DEF Elements
      <4>4. CASE TurnCloses(t) \/ TurnLeft(t)
        BY <2>2, <3>3, <4>4, OverWhenLeft, OverStays
      <4>. QED
        BY <4>2, <4>3, <4>4, OrderMove
    <3>. QED
      BY <1>0, <2>2, <3>1, <3>2, <3>3 DEF OrdersRight
  <2>. QED
    BY <2>1, <2>2
<1>3. ASSUME NEW t \in Turns, closing'[t] = "starting"
      PROVE  Unfinished(t)' = {} /\ \A i \in DOMAIN order'[t] : span'[order'[t][i]] # "open"
  <2>1. order[t] \in Seq(Generations)
    BY <1>0
  <2>2. \A i \in DOMAIN order[t] : /\ order[t][i] \in Generations /\ turnOf[order[t][i]] # None
                                   /\ order[t][i] \in Elements(order[t])
    BY <1>0, <2>1 DEF OrdersRight, Elements
  <2>3. CASE TurnAwaits(t)
    <3>1. order'[t] = order[t] /\ Unfinished(t) = {}
      BY <2>3 DEF TurnAwaits
    <3>2. Unfinished(t)' = {}
      BY <3>1, UnfinishedShrinks
    <3>3. \A i \in DOMAIN order[t] : span'[order[t][i]] # "open"
      BY <2>2, <2>3, OverWhenLeft, OverStays
    <3>. QED
      BY <3>1, <3>2, <3>3
  <2>4. CASE closing[t] = "starting" /\ order'[t] = order[t]
    <3>1. Unfinished(t) = {} /\ \A i \in DOMAIN order[t] : span[order[t][i]] # "open"
      BY <1>0, <2>4 DEF OrdersRight
    <3>2. Unfinished(t)' = {}
      BY <2>4, <3>1, UnfinishedShrinks
    <3>3. \A i \in DOMAIN order[t] : order[t][i] \in ended \/ finish[order[t][i]] = "done"
      BY <2>2, <3>1 DEF Unfinished
    <3>4. \A i \in DOMAIN order[t] : span'[order[t][i]] # "open"
      BY <2>2, <3>1, <3>3, OverStays
    <3>. QED
      BY <2>4, <3>2, <3>4
  <2>5. CASE TurnKept(t) \/ TurnBegins(t) \/ TurnStarts(t)
    <3>1. closing[t] = "starting"
      BY <1>3, <2>5 DEF TurnKept, TurnBegins, TurnStarts
    <3>2. t \in ended
      BY <1>0, <3>1 DEF SpansRight
    <3>3. order'[t] = order[t]
      BY <2>5, <3>2 DEF TurnKept, ListsNew, Observed, TurnBegins, TurnStarts
    <3>. QED
      BY <2>4, <3>1, <3>3
  <2>6. CASE TurnComesToEnd(t) \/ TurnCloses(t)
    BY <1>3, <2>6 DEF TurnComesToEnd, TurnCloses
  <2>7. CASE TurnLeft(t)
    BY <1>0, <1>3, <2>7 DEF TurnLeft, SpansRight
  <2>. QED
    BY <2>3, <2>5, <2>6, <2>7, TurnMove
<1>. QED
  BY <1>1, <1>2, <1>3 DEF OrdersRight

LEMMA TrackedStep ==
  ASSUME IInv, [Next]_vars
  PROVE  TurnsTracked'
<1>. SUFFICES ASSUME NEW t \in Turns,
                     order'[t] # <<>> \/ (span'[t] = "open" /\ closing'[t] # "done")
     PROVE  /\ stage' \in {"open", "tools", "turns"} => t \in Elements(activeTurns')
            /\ \/ Ending(t)'
               \/ t \notin ended' /\ stage' \in {"open", "tools"}
               \/ t \notin ended' /\ stage' = "turns" /\ t \in Elements(left')
  BY DEF TurnsTracked
<1>0. /\ TurnsTracked /\ TurnsKnown /\ SpansRight /\ stage \in Stages
      /\ left \in Seq(Turns)
      /\ span[t] # "none" => start[t] = "settled"
      /\ span[t] \in {"none", "open", "ended", "twice"}
      /\ start[t] \in {"none", "asked", "settled"}
  BY Types, Kinds DEF IInv, SpansRight
<1>1. CASE TurnBegins(t)
  <2>1. stage = "open" /\ t \notin ended'
    BY <1>0, <1>1 DEF TurnBegins, Live, TurnsKnown
  <2>2. start[t] = "none" /\ span[t] # "open"
    BY <1>0, <1>1, <2>1 DEF TurnBegins, TurnsKnown
  <2>3. order[t] # <<>>
    BY <1>1, <2>2 DEF TurnBegins
  <2>. QED
    BY <1>0, <1>1, <2>3 DEF TurnBegins, TurnsTracked, Live
<1>2. CASE TurnCloses(t) \/ TurnLeft(t)
  <2>1. (span'[t] # "open" \/ closing'[t] = "done") /\ order'[t] = <<>>
    BY <1>0, <1>2 DEF TurnCloses, TurnLeft, SpanClosed, SpansRight
  <2>. QED
    BY <2>1
(* Its list, its span and its place in the map are there already.         *)
<1>3. CASE TurnKept(t) \/ TurnStarts(t) \/ TurnComesToEnd(t) \/ TurnAwaits(t)
  <2>1. \/ order[t] # <<>> \/ (span[t] = "open" /\ closing[t] # "done")
        \/ Live /\ t \in Elements(activeTurns) /\ t \notin ended
    <3>1. CASE ListsNew(t)
      BY <3>1 DEF ListsNew, Observed, Elements
    <3>2. CASE /\ TurnStarts(t) /\ span'[t] = "open" /\ Live
               /\ t \in Elements(activeTurns) /\ t \notin ended
      BY <3>2
    <3>. QED
      BY <1>3, <3>1, <3>2 DEF TurnKept, TurnStarts, TurnComesToEnd, TurnAwaits
  <2>2. /\ stage \in {"open", "tools", "turns"} => t \in Elements(activeTurns)
        /\ \/ Ending(t)
           \/ t \notin ended /\ stage \in {"open", "tools"}
           \/ t \notin ended /\ stage = "turns" /\ t \in Elements(left)
    BY <1>0, <2>1 DEF TurnsTracked, Live
  <2>3. MapKept(t) /\ (Ending(t) => Ending(t)')
    BY <1>3 DEF TurnKept, TurnStarts, TurnComesToEnd, TurnAwaits, Ending
  <2>4. t \notin ended => t \notin ended' \/ Ending(t)'
    BY <1>3 DEF TurnKept, TurnStarts, TurnComesToEnd, TurnAwaits, Ending
  <2>5. CASE StageKept
    BY <2>2, <2>3, <2>4, <2>5 DEF StageKept, MapKept
  <2>6. CASE FinalizingStarts \/ TurnsFollow
    BY <2>2, <2>3, <2>4, <2>6 DEF FinalizingStarts, TurnsFollow
  <2>7. CASE NextTurnFollows
    <3>1. \A u \in Elements(left) : u # Head(left) /\ u \in Elements(activeTurns)
            => u \in Elements(NextTurns)
      BY <1>0, <2>7, NextIs DEF NextTurnFollows
    <3>2. CASE t \in Elements(left) /\ t # Head(left)
      BY <2>2, <2>3, <2>4, <2>7, <3>1, <3>2 DEF NextTurnFollows
    <3>3. CASE t = Head(left) /\ ~Ending(t)'
      BY <2>2, <2>3, <2>4, <2>7, <3>3 DEF NextTurnFollows
    <3>. QED
      BY <2>2, <2>3, <2>4, <2>7, <3>2, <3>3 DEF NextTurnFollows
  <2>8. CASE ScoresFollow
    <3>1. Elements(left) = {}
      BY <2>8 DEF ScoresFollow, Elements
    <3>. QED
      BY <2>2, <2>3, <2>8, <3>1 DEF ScoresFollow
  <2>9. CASE RootFollows
    BY <2>2, <2>3, <2>9 DEF RootFollows
  <2>. QED
    BY <2>5, <2>6, <2>7, <2>8, <2>9, StageMove
<1>. QED
  BY <1>1, <1>2, <1>3, TurnMove

LEMMA KnownStep ==
  ASSUME IInv, [Next]_vars
  PROVE  TurnsKnown'
<1>0. TurnsKnown /\ SpansRight /\ stage \in Stages /\ left \in Seq(Turns)
  BY Types DEF IInv
<1>1. ASSUME NEW t \in Turns, t \in ended PROVE t \in ended'
  BY <1>1, TurnMove DEF TurnKept, TurnBegins, TurnStarts, TurnComesToEnd, TurnAwaits, TurnCloses,
     TurnLeft
<1>2. ASSUME NEW t \in Turns, TurnCloses(t) PROVE t \in ended
  BY <1>0, <1>2 DEF TurnCloses, TurnEndDue, SpansRight
<1>3. ASSUME stage' = "open", NEW t \in Turns
      PROVE  /\ t \in ended' => t \in completed'
             /\ start'[t] # "none" => t \in completed' \cup Elements(activeTurns')
  <2>1. stage = "open"
    BY <1>3, StageMove DEF StageKept, FinalizingStarts, TurnsFollow, NextTurnFollows, ScoresFollow,
       RootFollows
  <2>2. /\ t \in ended => t \in completed
        /\ start[t] # "none" => t \in completed \cup Elements(activeTurns)
    BY <1>0, <2>1 DEF TurnsKnown
  <2>3. CASE TurnKept(t) \/ TurnStarts(t) \/ TurnComesToEnd(t) \/ TurnAwaits(t)
    BY <1>3, <2>2, <2>3 DEF TurnKept, TurnStarts, TurnComesToEnd, TurnAwaits, MapKept
  <2>4. CASE TurnBegins(t)
    BY <2>2, <2>4 DEF TurnBegins
  <2>5. CASE TurnCloses(t)
    BY <1>2, <2>2, <2>5 DEF TurnCloses
  <2>6. CASE TurnLeft(t)
    BY <2>1, <2>6 DEF TurnLeft
  <2>. QED
    BY <2>3, <2>4, <2>5, <2>6, TurnMove
<1>4. ASSUME stage' = "turns", NEW t \in Elements(left')
      PROVE  t \in Elements(activeTurns') \cup ended'
  <2>1. CASE FinalizingStarts \/ TurnsFollow
    BY <1>4, <2>1 DEF FinalizingStarts, TurnsFollow
  <2>2. CASE StageKept \/ NextTurnFollows
    <3>1. t \in Elements(left) /\ stage = "turns"
      BY <1>0, <1>4, <2>2, NextIs DEF StageKept, NextTurnFollows
    <3>2. t \in Turns /\ t \in Elements(activeTurns) \cup ended
      BY <1>0, <3>1 DEF TurnsKnown, Elements
    <3>3. t \in ended => t \in ended'
      BY <1>1, <3>2
    <3>4. TurnCloses(t) => t \in ended'
      BY <1>1, <1>2, <3>2
    <3>. QED
      BY <1>4, <3>2, <3>3, <3>4, TurnMove
         DEF TurnKept, TurnBegins, TurnStarts, TurnComesToEnd, TurnAwaits, TurnLeft, MapKept
  <2>3. CASE ScoresFollow \/ RootFollows
    BY <1>4, <2>3 DEF ScoresFollow, RootFollows
  <2>. QED
    BY <2>1, <2>2, <2>3, StageMove
<1>5. stage' = "open" => \A t \in Turns :
        /\ t \in ended' => t \in completed'
        /\ start'[t] # "none" => t \in completed' \cup Elements(activeTurns')
  BY <1>3
<1>6. stage' = "turns" => Elements(left') \subseteq Elements(activeTurns') \cup ended'
  BY <1>4
<1>. QED
  BY <1>5, <1>6 DEF TurnsKnown, Elements

LEMMA PassedStep ==
  ASSUME IInv, [Next]_vars
  PROVE  PassedRight'
<1>0. /\ PassedRight /\ TurnsTracked /\ TurnsKnown /\ stage \in Stages /\ left \in Seq(Turns)
  BY Types DEF IInv
(* Only events add requests, and turns are not forgotten with unfinished ones. *)
<1>1. ASSUME NEW t \in Turns, stage # "open", Unfinished(t) = {} PROVE Unfinished(t)' = {}
  <2>1. order'[t] = order[t] \/ order'[t] = <<>>
    BY <1>1, OrderMove DEF ListsNew, Observed, Live
  <2>. QED
    BY <1>1, <2>1, UnfinishedShrinks, NothingListed
<1>2. ASSUME NEW t \in Turns, stage \in {"open", "tools", "turns"}, t \notin Elements(activeTurns)
      PROVE  Unfinished(t) = {}
  <2>1. order[t] = <<>>
    BY <1>0, <1>2 DEF TurnsTracked
  <2>2. Elements(order[t]) = {}
    BY <2>1 DEF Elements
  <2>. QED
    BY <2>2 DEF Unfinished
<1>3. ASSUME stage' = "turns", NEW t \in Turns, t \notin Elements(left') PROVE Unfinished(t)' = {}
  <2>1. CASE FinalizingStarts \/ TurnsFollow
    <3>1. t \notin Elements(activeTurns) /\ stage \in {"open", "tools"}
      BY <1>3, <2>1 DEF FinalizingStarts, TurnsFollow
    <3>2. Unfinished(t) = {} /\ order[t] = <<>>
      BY <1>0, <1>2, <3>1 DEF TurnsTracked
    <3>3. order'[t] = order[t] \/ order'[t] = <<>>
      <4>1. ~ListsNew(t)
        BY <3>1 DEF ListsNew, Observed, Elements
      <4>. QED
        BY <4>1, OrderMove
    <3>. QED
      BY <3>2, <3>3, NothingListed
  <2>2. CASE StageKept
    <3>1. t \notin Elements(left) /\ stage = "turns"
      BY <1>3, <2>2 DEF StageKept
    <3>. QED
      BY <1>0, <1>1, <3>1 DEF PassedRight
  <2>3. CASE NextTurnFollows
    <3>1. stage = "turns" /\ left # <<>> /\ t \notin Elements(NextTurns)
      BY <1>3, <2>3 DEF NextTurnFollows
    <3>2. t \in Elements(left) => t = Head(left) \/ t \notin Elements(activeTurns)
      BY <1>0, <3>1, NextIs
    <3>3. Unfinished(t) = {}
      BY <1>0, <1>2, <2>3, <3>1, <3>2 DEF PassedRight, NextTurnFollows
    <3>. QED
      BY <1>1, <3>1, <3>3
  <2>4. CASE ScoresFollow \/ RootFollows
    BY <1>3, <2>4 DEF ScoresFollow, RootFollows
  <2>. QED
    BY <2>1, <2>2, <2>3, <2>4, StageMove
<1>4. ASSUME stage' \in {"scores", "done"}, NEW t \in Turns PROVE Unfinished(t)' = {}
  <2>1. CASE ScoresFollow
    <3>1. t \notin Elements(left) /\ stage = "turns"
      BY <2>1 DEF ScoresFollow, Elements
    <3>. QED
      BY <1>0, <1>1, <3>1 DEF PassedRight
  <2>2. CASE stage \in {"scores", "done"}
    BY <1>0, <1>1, <2>2 DEF PassedRight
  <2>. QED
    BY <1>4, <2>1, <2>2, StageMove
       DEF StageKept, FinalizingStarts, TurnsFollow, NextTurnFollows, RootFollows
<1>5. stage' = "turns" => \A t \in Turns : t \notin Elements(left') => Unfinished(t)' = {}
  BY <1>3
<1>6. stage' \in {"scores", "done"} => \A t \in Turns : Unfinished(t)' = {}
  BY <1>4
<1>. QED
  BY <1>5, <1>6 DEF PassedRight, Elements

LEMMA AwaitedStep ==
  ASSUME IInv, [Next]_vars
  PROVE  AwaitedRight'
<1>0. /\ AwaitedRight /\ SpansRight /\ OrdersRight /\ RequestsRight /\ stage \in Stages
      /\ visiting \in [Turns \cup {Prompt} -> Generations \cup {None}]
      /\ order \in [Turns -> Seq(Generations)]
      /\ turnOf \in [Generations -> Turns \cup {None}]
      /\ Prompt \notin Turns /\ None \notin Generations /\ None \notin Tools
      /\ \A t \in Turns : t # Prompt /\ t # None
  BY Types, Kinds, ScopeAssumption DEF IInv, Children
<1>0a. ASSUME NEW x \in Turns \cup {Prompt}, VisitKept, visiting'[x] # None
       PROVE  visiting'[x] = visiting[x]
  BY <1>0, <1>0a DEF VisitKept
<1>1. ASSUME NEW x \in Turns \cup {Prompt}, visiting'[x] # None
      PROVE  finish'[visiting'[x]] # "none"
  <2>1. CASE visiting'[x] = visiting[x]
    BY <1>0, <1>1, <2>1, RequestGrows DEF AwaitedRight
  <2>2. ASSUME NEW g \in Generations, visiting'[x] = g,
               finish'[g] = IF finish[g] = "none" THEN "waiting" ELSE finish[g]
        PROVE  finish'[visiting'[x]] # "none"
    BY <2>2
  <2>. QED
    BY <1>0, <1>0a, <1>1, <2>1, <2>2, VisitMove DEF VisitMoves
<1>2. awaitedTool' # None => finish'[awaitedTool'] # "none"
  <2>1. \A k \in Tools : finish[k] # "none" => finish'[k] # "none"
    BY ToolMove DEF ToolKept, ToolSeen, ToolStarts, ToolScoreSent, ToolEnds
  <2>2. ASSUME NEW k \in Tools, ToolReached(k) PROVE awaitedTool' = k /\ finish'[k] # "none"
    <3>1. finish \in [Generations \cup Tools -> {"none", "waiting", "unasked", "scoring", "done"}]
      BY Types DEF IInv
    <3>. QED
      BY <2>2, <3>1 DEF ToolReached, EndUnfinished, FinishTool
  <2>3. awaitedTool' \in {awaitedTool, None} \/ \E k \in Tools : ToolReached(k)
    <3>1. CASE FinalStep
      <4>1. ASSUME NEW r, Finalize(r)
            PROVE awaitedTool' \in {awaitedTool, None} \/ \E k \in Tools : ToolReached(k)
        BY <4>1, FinalizeSteps DEF IInv, toolRest
      <4>2. CASE FinalizerTools
        BY <4>2, FinalizerToolsSteps DEF IInv, toolRest
      <4>3. CASE FinalizerTurn \/ FinalizerScores \/ RootEnds
        BY <4>3 DEF FinalizerTurn, FinalizerScores, RootEnds, toolVars
      <4>. QED
        BY <3>1, <4>1, <4>2, <4>3 DEF FinalStep
    <3>2. CASE ToolStep
      BY <3>2 DEF ToolStep, ToolEvent, ToolResult, ToolExecutionEnd, ToolSpanStarts, ToolScored,
         ToolFinishes, toolVars
    <3>. QED
      BY <3>1, <3>2, Steps DEF toolVars, promptVars
  <2>4. awaitedTool \in Tools \cup {None}
    BY Types DEF IInv
  <2>. QED
    BY <1>0, <2>1, <2>2, <2>3, <2>4 DEF AwaitedRight
<1>3. stage' \in {"open", "tools"} => visiting'[Prompt] = None
  <2>1. stage' \in {"open", "tools"} => stage \in {"open", "tools"}
    BY StageMove
       DEF StageKept, FinalizingStarts, TurnsFollow, NextTurnFollows, ScoresFollow, RootFollows
  <2>. QED
    BY <1>0, <2>1, VisitMove DEF VisitKept, VisitMoves, AwaitedRight
<1>4. ASSUME NEW t \in Turns, visiting'[t] # None PROVE closing'[t] = "abandoning"
  <2>1. closing[t] = "abandoning" => closing'[t] = "abandoning"
    BY <1>4, TurnMove DEF TurnKept, TurnBegins, TurnStarts, TurnComesToEnd, TurnAwaits, TurnCloses,
       TurnLeft
  <2>2. CASE visiting'[t] = visiting[t]
    BY <1>0, <1>4, <2>1, <2>2 DEF AwaitedRight
  <2>3. CASE visiting'[t] # visiting[t]
    BY <1>0, <1>0a, <1>4, <2>3, VisitMove DEF VisitMoves
  <2>. QED
    BY <2>2, <2>3
<1>5. ASSUME NEW t \in Turns, closing'[t] = "abandoning", visiting'[t] # None
      PROVE  \E m \in DOMAIN order'[t] : /\ order'[t][m] = visiting'[t]
                                         /\ \A j \in 1..(m - 1) : order'[t][j] \notin Unfinished(t)'
  <2>1. CASE VisitMoves /\ visiting'[t] # visiting[t]
    <3>1. PICK g \in Generations : /\ FirstOf(t, g) /\ visiting'[t] = g /\ order' = order
      BY <1>0, <2>1 DEF VisitMoves
    <3>2. Unfinished(t)' \subseteq Unfinished(t)
      BY <3>1, UnfinishedShrinks
    <3>. QED
      BY <3>1, <3>2 DEF FirstOf
  <2>2. CASE visiting'[t] = visiting[t]
    <3>1. closing[t] = "abandoning" /\ t \in ended
      BY <1>0, <1>5, <2>2 DEF AwaitedRight, SpansRight
    <3>2. closing[t] = "abandoning" /\ order'[t] = order[t]
      BY <1>5, <3>1, TurnMove
         DEF TurnKept, ListsNew, Observed, TurnBegins, TurnStarts, TurnComesToEnd, TurnAwaits,
             TurnCloses, TurnLeft
    <3>3. Unfinished(t)' \subseteq Unfinished(t)
      BY <3>2, UnfinishedShrinks
    <3>. QED
      BY <1>0, <1>5, <2>2, <3>2, <3>3 DEF AwaitedRight
  <2>. QED
    BY <1>0a, <1>5, <2>1, <2>2, VisitMove
<1>6. ASSUME NEW g \in Generations, g \in abandoned', finish'[g] = "waiting"
      PROVE  \/ visiting'[Prompt] = g
             \/ closing'[turnOf'[g]] = "abandoning" /\ visiting'[turnOf'[g]] = g
  <2>1. CASE RequestAbandoned(g)
    BY <2>1 DEF RequestAbandoned
  <2>2. CASE ~RequestAbandoned(g)
    <3>1. g \in abandoned /\ finish[g] = "waiting" /\ turnOf'[g] = turnOf[g]
      BY <1>0, <1>6, <2>2, RequestMove
         DEF RequestKept, RequestSeen, RequestStarts, RequestFails, RequestEnds, RequestsRight
    <3>2. CASE visiting[Prompt] = g
      <4>1. ~Visited(Prompt) /\ stage \notin {"open", "tools"}
        BY <1>0, <3>1, <3>2 DEF Visited, AwaitedRight
      <4>2. stage' = "turns" => stage = "turns"
        BY <4>1, StageMove
           DEF StageKept, FinalizingStarts, TurnsFollow, NextTurnFollows, ScoresFollow, RootFollows
      <4>3. visiting'[Prompt] = visiting[Prompt]
        BY <1>0, <4>1, <4>2, VisitMove DEF VisitKept, VisitMoves
      <4>. QED
        BY <3>2, <4>3
    <3>3. CASE closing[turnOf[g]] = "abandoning" /\ visiting[turnOf[g]] = g
      <4>1. PICK t \in Turns : t = turnOf[g]
        BY <1>0, <3>1 DEF RequestsRight
      <4>2. ~Visited(t) /\ t \in ended
        BY <1>0, <3>1, <3>3, <4>1 DEF Visited, SpansRight
      <4>3. visiting'[t] = visiting[t]
        BY <1>0, <4>2, VisitMove DEF VisitKept, VisitMoves
      <4>4. closing'[t] = closing[t]
        BY <3>3, <4>1, <4>2, TurnMove
           DEF TurnKept, TurnBegins, TurnStarts, TurnComesToEnd, TurnAwaits, TurnCloses,
               TurnEndDue, TurnLeft
      <4>. QED
        BY <3>1, <3>3, <4>1, <4>3, <4>4
    <3>. QED
      BY <1>0, <3>1, <3>2, <3>3 DEF AwaitedRight
  <2>. QED
    BY <2>1, <2>2
<1>. QED
  BY <1>1, <1>2, <1>3, <1>4, <1>5, <1>6 DEF AwaitedRight

(* How the request for a span of a request changes.                        *)
LEMMA StartMoves ==
  ASSUME IInv, [Next]_vars, NEW g \in Generations
  PROVE  \/ start'[g] = start[g]
         \/ start[g] = "asked" /\ start'[g] = "settled"
         \/ /\ start[g] = "none" /\ start'[g] = "asked" /\ line' = Append(line, g)
            /\ \E t \in Turns : turnOf'[g] = t /\ Newest(t, g)
BY RequestMove DEF RequestKept, RequestSeen, RequestStarts, RequestFails, RequestEnds,
   RequestAbandoned

(* Two that wait in the line keep their order as long as the first waits.  *)
LEMMA LineOrdered ==
  ASSUME IInv, [Next]_vars, NEW g \in Generations, NEW h, NEW m \in DOMAIN line,
         NEW n \in DOMAIN line, m < n, line[m] = g, line[n] = h, start'[g] = "asked"
  PROVE  \E p, q \in DOMAIN line' : p < q /\ line'[p] = g /\ line'[q] = h
<1>. DEFINE S == Children \cup {Prompt}
<1>0. line \in Seq(S) /\ g # Prompt /\ g \in Waiters
  BY Types, Kinds DEF IInv, Waiters
<1>. HIDE DEF S
<1>1. CASE LineKept
  BY <1>1 DEF LineKept
<1>2. CASE LineJoined
  <2>1. PICK c : line' = Append(line, c)
    BY <1>2 DEF LineJoined
  <2>2. \A k \in DOMAIN line : k \in DOMAIN line' /\ line'[k] = line[k]
    BY <1>0, <2>1
  <2>. QED
    BY <2>2
<1>3. CASE LineLeft
  <2>1. PICK c \in Waiters : Answered(c) /\ ~Waits(c)'
    BY <1>3 DEF LineLeft
  <2>2. PICK l \in Nat : l = Len(line) /\ l > 0
    BY <1>0, <2>1 DEF Answered
  <2>3. /\ DOMAIN line = 1..l /\ DOMAIN line' = 1..(l - 1) /\ line[1] = c
        /\ \A k \in 1..(l - 1) : line'[k] = line[k + 1]
    BY <1>0, <2>1, <2>2 DEF Answered
  <2>4. c # g
    BY <1>0, <2>1 DEF Waits
  <2>5. m # 1
    BY <2>3, <2>4
  <2>6. /\ m - 1 \in 1..(l - 1) /\ n - 1 \in 1..(l - 1) /\ m - 1 < n - 1
        /\ (m - 1) + 1 = m /\ (n - 1) + 1 = n
    BY <2>2, <2>3, <2>5
  <2>7. line'[m - 1] = g /\ line'[n - 1] = h
    BY <2>3, <2>6
  <2>. QED
    BY <2>3, <2>6, <2>7
<1>. QED
  BY <1>1, <1>2, <1>3, LineMove

LEMMA AskedStep ==
  ASSUME IInv, [Next]_vars
  PROVE  AskedInOrder'
<1>. SUFFICES ASSUME NEW t \in Turns, NEW i \in DOMAIN order'[t], NEW j \in DOMAIN order'[t],
                     i < j, j \in InFlight(t)', start'[order'[t][i]] = "asked"
     PROVE  \/ start'[order'[t][j]] = "none"
            \/ \E m, n \in DOMAIN line' :
                 m < n /\ line'[m] = order'[t][i] /\ line'[n] = order'[t][j]
  BY DEF AskedInOrder
<1>0. /\ AskedInOrder /\ LineRight /\ RequestsRight /\ order[t] \in Seq(Generations)
      /\ start \in [Children -> {"none", "asked", "settled"}]
      /\ OrdersRight' /\ TypeOK'
  BY Types, OrdersStep, TypeStep DEF IInv
<1>1. /\ order'[t] \in Seq(Generations) /\ IsInjective(order'[t])
      /\ \A k \in DOMAIN order'[t] : turnOf'[order'[t][k]] = t
  BY <1>0 DEF TypeOK, TurnTypeOK, OrdersRight
<1>2. PICK g \in Generations : g = order'[t][i]
  BY <1>1
<1>3. PICK h \in Generations : h = order'[t][j]
  BY <1>1
<1>4. turnOf'[g] = t /\ i \in Nat /\ j \in Nat /\ g \in Children /\ h \in Children
  BY <1>1, <1>2, <1>3, Kinds
<1>5. start[g] = "asked"
  <2>1. ASSUME Newest(t, g) PROVE FALSE
    <3>1. PICK k \in DOMAIN order'[t] : order'[t][k] = g /\ \A l \in InFlight(t)' : l <= k
      BY <2>1 DEF Newest
    <3>2. k = i
      BY <1>1, <1>2, <3>1 DEF IsInjective
    <3>. QED
      BY <1>4, <3>1, <3>2
  <2>. QED
    BY <1>2, <1>4, <2>1, StartMoves
<1>6. \/ start[h] = "none"
      \/ \E m, n \in DOMAIN line : m < n /\ line[m] = g /\ line[n] = h
  <2>1. CASE order'[t] = order[t]
    <3>1. j \in InFlight(t)
      BY <2>1, UnfinishedShrinks
    <3>. QED
      BY <1>0, <1>2, <1>3, <1>5, <2>1, <3>1 DEF AskedInOrder
  <2>2. CASE ListsNew(t)
    <3>1. PICK f \in Generations : turnOf[f] = None /\ order'[t] = Append(order[t], f)
      BY <2>2 DEF ListsNew
    <3>2. PICK l \in Nat : l = Len(order[t]) /\ DOMAIN order[t] = 1..l
      BY <1>0
    <3>3. /\ DOMAIN order'[t] = 1..(l + 1) /\ order'[t][l + 1] = f
          /\ \A k \in 1..l : order'[t][k] = order[t][k]
      BY <1>0, <3>1, <3>2
    <3>4. CASE j = l + 1
      BY <1>0, <1>3, <3>1, <3>3, <3>4 DEF RequestsRight
    <3>5. CASE j # l + 1
      <4>1. i \in DOMAIN order[t] /\ j \in DOMAIN order[t] /\ order[t][i] = g /\ order[t][j] = h
        BY <1>2, <1>3, <3>2, <3>3, <3>5
      <4>2. j \in InFlight(t)
        <5>1. h \notin ended' /\ finish'[h] = "none"
          BY <1>3 DEF InFlight
        <5>. QED
          BY <4>1, <5>1, RequestGrows DEF InFlight
      <4>. QED
        BY <1>0, <1>5, <4>1, <4>2 DEF AskedInOrder
    <3>. QED
      BY <3>4, <3>5
  <2>3. CASE order'[t] = <<>>
    BY <2>3
  <2>. QED
    BY <2>1, <2>2, <2>3, OrderMove
<1>7. CASE start'[h] = start[h] \/ start[h] # "none"
  <2>1. CASE start[h] = "none"
    BY <1>3, <1>7, <2>1
  <2>2. CASE \E m, n \in DOMAIN line : m < n /\ line[m] = g /\ line[n] = h
    BY <1>2, <1>3, <2>2, LineOrdered
  <2>. QED
    BY <1>6, <2>1, <2>2
<1>8. CASE line' = Append(line, h)
  <2>. DEFINE S == Children \cup {Prompt}
  <2>1. line \in Seq(S)
    BY Types DEF IInv
  <2>. HIDE DEF S
  <2>2. g \in Elements(line)
    BY <1>0, <1>4, <1>5, Kinds DEF LineRight, Waits
  <2>3. PICK l \in Nat : l = Len(line) /\ DOMAIN line = 1..l
    BY <2>1
  <2>4. PICK m \in 1..l : line[m] = g
    BY <2>2, <2>3 DEF Elements
  <2>5. /\ DOMAIN line' = 1..(l + 1) /\ line'[l + 1] = h /\ line'[m] = g
    BY <1>8, <2>1, <2>3, <2>4
  <2>6. m \in 1..(l + 1) /\ l + 1 \in 1..(l + 1) /\ m < l + 1
    BY <2>4
  <2>. QED
    BY <1>2, <1>3, <2>5, <2>6
<1>. QED
  BY <1>7, <1>8, StartMoves

(* The first in line asked before every other request.                     *)
LEMMA FirstInLine ==
  ASSUME IInv, NEW t \in Turns, NEW i \in InFlight(t), NEW j \in DOMAIN order[t], j < i,
         NEW g, g = order[t][i], Answered(g), start[g] = "asked"
  PROVE  start[order[t][j]] # "asked"
<1>1. i \in DOMAIN order[t]
  BY DEF InFlight
<1>2. SUFFICES ASSUME start[order[t][j]] = "asked" PROVE FALSE
  OBVIOUS
<1>3. PICK m \in DOMAIN line, n \in DOMAIN line : m < n /\ line[n] = g
  BY <1>1, <1>2 DEF IInv, AskedInOrder
<1>. DEFINE S == Children \cup {Prompt}
<1>4. line \in Seq(S)
  BY Types DEF IInv
<1>. HIDE DEF S
<1>5. 1 \in DOMAIN line /\ line[1] = g
  BY <1>4 DEF Answered
<1>6. n = 1
  BY <1>3, <1>5 DEF IInv, LineRight
<1>7. m \in Nat /\ m >= 1
  BY <1>4
<1>. QED
  BY <1>3, <1>6, <1>7

(* An unfinished request that is not in flight and has begun to end still  *)
(* asks when the runtime answers.                                          *)
LEMMA StillAsked ==
  ASSUME IInv, EndsThrough, NEW h \in Generations, finish[h] # "none", finish[h] # "done"
  PROVE  start[h] = "asked"
<1>1. finish[h] = "waiting"
  BY Types DEF IInv, RequestsRight
<1>. QED
  BY <1>1 DEF EndsThrough, FinishDue, Started

LEMMA WillAbandonStays ==
  ASSUME IInv, [Next]_vars, NEW t \in Turns, closing[t] = "abandoning", WillAbandon(t)
  PROVE  abandoned' # {} \/ (closing'[t] = "abandoning" /\ WillAbandon(t)')
<1>0. /\ t \in ended /\ order[t] \in Seq(Generations)
      /\ turnOf \in [Generations -> Turns \cup {None}]
      /\ RequestsRight /\ OrdersRight /\ AwaitedRight
      /\ visiting \in [Turns \cup {Prompt} -> Generations \cup {None}]
      /\ t # None /\ t # Prompt
  BY Types, Kinds DEF IInv, SpansRight
<1>1. PICK i \in InFlight(t) :
        /\ \A j \in 1..(i - 1) : j \notin InFlight(t)
        /\ order[t][i] \in failing /\ start[order[t][i]] = "settled" =>
             Visited(t) /\ \A j \in 1..(i - 1) : order[t][j] \notin Unfinished(t)
  BY DEF WillAbandon
<1>2. i \in DOMAIN order[t] /\ i \in Nat /\ \A j \in 1..(i - 1) : j \in DOMAIN order[t] /\ j < i
  BY <1>0 DEF InFlight
<1>3. PICK g \in Generations : g = order[t][i]
  BY <1>0, <1>2
<1>4. /\ g \notin ended /\ finish[g] = "none" /\ g \in Unfinished(t) /\ turnOf[g] = t
      /\ IsInjective(order[t])
  BY <1>0, <1>1, <1>2, <1>3 DEF InFlight, Unfinished, Elements, OrdersRight
<1>5. closing'[t] = "abandoning" /\ order'[t] = order[t]
  BY <1>0, <1>4, TurnMove
     DEF TurnKept, ListsNew, Observed, TurnBegins, TurnStarts, TurnComesToEnd, TurnAwaits,
         TurnCloses, TurnLeft
<1>6. Unfinished(t)' \subseteq Unfinished(t) /\ InFlight(t)' \subseteq InFlight(t)
  BY <1>5, UnfinishedShrinks
<1>7. CASE RequestAbandoned(g)
  BY <1>7 DEF RequestAbandoned
<1>8. CASE RequestSeen(g) \/ RequestEnds(g)
  BY <1>0, <1>4, <1>8 DEF RequestSeen, Observed, RequestEnds
<1>9. CASE RequestFails(g)
  <2>1. g \in failing /\ start[g] # "asked" /\ ~GoesOn(t)
    BY <1>4, <1>9 DEF RequestFails, FailureDue, Started
  <2>2. start[g] = "settled"
    BY <1>0, <2>1, Types, Kinds DEF IInv, RequestsRight
  <2>. QED
    BY <1>1, <1>3, <1>4, <2>1, <2>2 DEF GoesOn
<1>10. CASE RequestKept(g) \/ RequestStarts(g)
  <2>1. /\ g \notin ended' /\ finish'[g] = "none"
        /\ g \in failing' => g \in failing
    BY <1>4, <1>10 DEF RequestKept, RequestStarts
  <2>2. i \in InFlight(t)'
    BY <1>2, <1>3, <1>5, <2>1 DEF InFlight
  <2>3. ASSUME g \in failing', start'[g] = "settled"
        PROVE  Visited(t) /\ \A j \in 1..(i - 1) : order[t][j] \notin Unfinished(t)
    <3>1. CASE start[g] = "settled"
      BY <1>1, <1>3, <2>1, <2>3, <3>1
    <3>2. CASE RequestStarts(g)
      <4>1. EndsThrough /\ Answered(g) /\ start[g] = "asked"
        BY <3>2 DEF RequestStarts
      <4>2. \A j \in DOMAIN order[t] : j < i => start[order[t][j]] # "asked"
        BY <1>3, <4>1, FirstInLine
      <4>3. ASSUME NEW j \in 1..(i - 1) PROVE order[t][j] \notin Unfinished(t)
        <5>1. PICK h \in Generations : h = order[t][j] /\ start[h] # "asked"
          BY <1>0, <1>2, <4>2
        <5>2. h \notin ended => finish[h] # "none"
          BY <1>1, <1>2, <5>1 DEF InFlight
        <5>. QED
          BY <4>1, <5>1, <5>2, StillAsked DEF Unfinished
      <4>4. ASSUME visiting[t] # None PROVE finish[visiting[t]] = "done"
        <5>1. PICK m \in DOMAIN order[t] :
                 /\ order[t][m] = visiting[t]
                 /\ \A j \in 1..(m - 1) : order[t][j] \notin Unfinished(t)
          BY <1>0, <4>4 DEF AwaitedRight
        <5>2. PICK v \in Generations : v = visiting[t] /\ v = order[t][m] /\ finish[v] # "none"
          BY <1>0, <4>4, <5>1 DEF AwaitedRight
        <5>3. m <= i
          BY <1>0, <1>2, <1>3, <1>4, <5>1
        <5>4. m # i
          BY <1>3, <1>4, <5>2
        <5>5. m < i
          BY <1>0, <1>2, <5>3, <5>4
        <5>6. start[v] # "asked"
          BY <4>2, <5>2, <5>5
        <5>. QED
          BY <4>1, <5>2, <5>6, StillAsked
      <4>. QED
        BY <4>3, <4>4 DEF Visited
    <3>. QED
      BY <1>10, <2>3, <3>1, <3>2 DEF RequestKept
  <2>4. ASSUME g \in failing', start'[g] = "settled"
        PROVE  Visited(t)' /\ \A j \in 1..(i - 1) : order'[t][j] \notin Unfinished(t)'
    <3>1. visiting'[t] = visiting[t] \/ visiting'[t] = None
      <4>1. ASSUME NEW f \in Generations, FirstOf(t, f), finish'[f] # "none" PROVE FALSE
        <5>1. PICK m \in DOMAIN order[t] :
                /\ order[t][m] = f /\ f \in Unfinished(t)
                /\ \A j \in 1..(m - 1) : order[t][j] \notin Unfinished(t)
          BY <4>1 DEF FirstOf
        <5>2. m \in Nat /\ m >= 1
          BY <1>0
        <5>3. ~(i < m) /\ ~(m < i)
          BY <1>0, <1>2, <1>3, <1>4, <2>3, <2>4, <5>1, <5>2
        <5>4. m = i
          BY <1>2, <5>2, <5>3
        <5>. QED
          BY <1>3, <2>1, <4>1, <5>1, <5>4
      <4>2. ASSUME NEW f \in Generations,
                   finish'[f] = IF finish[f] = "none" THEN "waiting" ELSE finish[f]
            PROVE  finish'[f] # "none"
        BY <4>2
      <4>. QED
        BY <1>0, <4>1, <4>2, VisitMove DEF VisitKept, VisitMoves
    <3>2. Visited(t)'
      BY <1>0, <2>3, <2>4, <3>1, RequestGrows DEF Visited
    <3>. QED
      BY <1>5, <1>6, <2>3, <2>4, <3>2
  <2>. QED
    BY <1>1, <1>3, <1>5, <1>6, <2>2, <2>4 DEF WillAbandon
<1>. QED
  BY <1>7, <1>8, <1>9, <1>10, RequestMove

-----------------------------------------------------------------------------
(* Who is abandoned, and whom the prompt blames                            *)

(* A turn_end that finds requests in flight, or has still some before it.  *)
FindsInFlight(t) == InFlight(t) # {} /\ (closing[t] = "abandoning" \/ TurnEnd(t))

(* Only what a visit reaches is abandoned, besides what the caller ends.   *)
LEMMA VisitCuts ==
  ASSUME TypeOK, NEW x, NEW t \in Turns, NEW marks, VisitTurn(x, t, marks, {})
                   \/ (Unfinished(t) # {} /\ Abandon(x, t, marks, {}))
  PROVE  /\ abandoned \subseteq abandoned'
         /\ abandoned' = abandoned \/ InFlight(t) # {}
<1>1. CASE Passes(x, marks, {})
  BY <1>1 DEF Passes
<1>2. ASSUME NEW g \in Generations, Reaches(x, t, g, marks, {})
      PROVE  abandoned \subseteq abandoned' /\ (abandoned' = abandoned \/ InFlight(t) # {})
  <2>1. PICK m \in DOMAIN order[t] : order[t][m] = g /\ g \in Unfinished(t)
    BY <1>2 DEF Reaches, FirstOf
  <2>2. CASE finish[g] = "none"
    <3>1. m \in InFlight(t)
      BY <2>1, <2>2 DEF Unfinished, InFlight
    <3>. QED
      BY <1>2, <3>1 DEF Reaches
  <2>. QED
    BY <1>2, <2>2 DEF Reaches
<1>. QED
  BY <1>1, <1>2, Visiting, Abandoning

LEMMA AbandonedEvent ==
  ASSUME IInv, EventStep
  PROVE  /\ abandoned \subseteq abandoned'
         /\ abandoned' = abandoned \/ \E t \in Turns : FindsInFlight(t)
         /\ blamed' = blamed \/ \E t \in Turns : Quiet /\ TurnEnd(t)
         /\ blamed => blamed'
         /\ \A t \in Turns : FindsInFlight(t) /\ closing[t] # "abandoning" => TurnEnd(t)
<1>0. TypeOK
  BY DEF IInv
<1>1. ASSUME NEW t \in Turns, TurnStart(t) \/ TurnEndUntracked(t) \/ TurnSpanStarts(t)
      PROVE  UNCHANGED <<abandoned, blamed>>
  BY <1>1 DEF TurnStart, TurnEndUntracked, TurnSpanStarts, scopeVars, turnVars
<1>2. ASSUME NEW t \in Turns, NEW g \in Generations,
             \/ BeforeProviderRequest(t, g) \/ MessageEvent(t, g)
             \/ MessageFails(t, g) \/ MessageEnd(t, g)
      PROVE  UNCHANGED <<abandoned, blamed>>
  BY <1>2 DEF BeforeProviderRequest, MessageEvent, MessageFails, MessageEnd, scopeVars
<1>3. ASSUME NEW g \in Generations,
             GenerationStarts(g) \/ FailureResumes(g) \/ GenerationFinishes(g)
      PROVE  UNCHANGED <<abandoned, blamed>>
  BY <1>3 DEF GenerationStarts, FailureResumes, GenerationFinishes, turnVars
<1>4. ASSUME NEW t \in Turns, TurnEnd(t)
      PROVE  /\ abandoned \subseteq abandoned'
             /\ abandoned' = abandoned \/ FindsInFlight(t)
             /\ blamed => blamed'
  <2>1. VisitTurn(t, t, {t}, {}) /\ Blame(t)
    BY <1>4 DEF TurnEnd
  <2>2. abandoned \subseteq abandoned' /\ (abandoned' = abandoned \/ InFlight(t) # {})
    BY <1>0, <2>1, VisitCuts
  <2>. QED
    BY <1>4, <2>1, <2>2 DEF FindsInFlight, Blame
<1>5. ASSUME NEW t \in Turns, TurnEndContinues(t)
      PROVE  /\ abandoned \subseteq abandoned'
             /\ abandoned' = abandoned \/ FindsInFlight(t)
             /\ blamed' = blamed
  <2>1. CASE closing[t] = "abandoning" /\ Unfinished(t) # {}
    <3>1. Abandon(t, t, {}, {}) /\ blamed' = blamed
      BY <1>5, <2>1 DEF TurnEndContinues
    <3>2. abandoned \subseteq abandoned' /\ (abandoned' = abandoned \/ InFlight(t) # {})
      BY <1>0, <2>1, <3>1, VisitCuts
    <3>. QED
      BY <2>1, <3>1, <3>2 DEF FindsInFlight
  <2>2. CASE ~(closing[t] = "abandoning" /\ Unfinished(t) # {})
    BY <1>5, <2>2 DEF TurnEndContinues, CloseTurn, AwaitSpan
  <2>. QED
    BY <2>1, <2>2
<1>6. \A t \in Turns : FindsInFlight(t) /\ closing[t] # "abandoning" => TurnEnd(t)
  BY DEF FindsInFlight
<1>. QED
  BY <1>1, <1>2, <1>3, <1>4, <1>5, <1>6 DEF EventStep

LEMMA AbandonedTool ==
  ASSUME ToolStep
  PROVE  UNCHANGED <<stage, abandoned>>
BY DEF ToolStep, ToolEvent, ToolSpanStarts, ToolScored, ToolFinishes, ToolResult,
       ToolExecutionEnd, toolVars, scopeVars

LEMMA AbandonedFinal ==
  ASSUME IInv, FinalStep
  PROVE  abandoned \subseteq abandoned' /\ stage' # "open" /\ blamed' = blamed
<1>0. TypeOK
  BY DEF IInv
<1>1. ASSUME NEW k \in Tools, ToolReached(k) PROVE abandoned \subseteq abandoned'
  BY <1>1 DEF ToolReached, EndUnfinished
<1>2. ASSUME NEW ts, NEW marks, NEW cut, TurnReached(ts, marks, cut)
      PROVE  abandoned \subseteq abandoned' /\ stage' = "turns"
  BY <1>2 DEF TurnReached, Passes, Reaches
<1>3. ASSUME NEW r, Finalize(r)
      PROVE  abandoned \subseteq abandoned' /\ stage' # "open" /\ blamed' = blamed
  <2>1. blamed' = blamed
    BY <1>3 DEF Finalize
  <2>. QED
    BY <1>0, <1>1, <1>2, <1>3, <2>1, FinalizeSteps
<1>4. CASE FinalizerTools
  <2>1. blamed' = blamed /\ stage = "tools"
    BY <1>4 DEF FinalizerTools, FinalizerToolsDue
  <2>. QED
    BY <1>0, <1>1, <1>2, <1>4, <2>1, FinalizerToolsSteps
<1>5. CASE FinalizerTurn
  <2>1. blamed' = blamed /\ stage = "turns"
    BY <1>5 DEF FinalizerTurn, FinalizerTurnDue
  <2>2. PICK t : t = Head(left)
    OBVIOUS
  <2>3. ASSUME NEW g, Reaches(Prompt, t, g, {}, {}) PROVE abandoned \subseteq abandoned'
    BY <2>3 DEF Reaches
  <2>. QED
    BY <1>0, <1>2, <1>5, <2>1, <2>2, <2>3, FinalizerTurnSteps
<1>6. CASE FinalizerScores \/ RootEnds
  BY <1>6 DEF FinalizerScores, RootEnds, turnVars
<1>. QED
  BY <1>3, <1>4, <1>5, <1>6 DEF FinalStep

(* Nobody is un-abandoned, and a blame stays.                              *)
LEMMA AbandonedGrows ==
  ASSUME IInv, [Next]_vars
  PROVE  /\ abandoned \subseteq abandoned'
         /\ blamed => blamed'
         /\ blamed' = blamed \/ \E t \in Turns : Quiet /\ TurnEnd(t)
<1>1. CASE UNCHANGED promptVars
  BY <1>1 DEF promptVars, scopeVars, turnVars
<1>2. CASE ToolStep /\ UNCHANGED <<turnVars, finalVars>>
  BY <1>2, AbandonedTool DEF turnVars
<1>. QED
  BY <1>1, <1>2, Steps, AbandonedEvent, AbandonedFinal

(* A turn_end that finds requests in flight abandons the first of them, or *)
(* comes to it once the ends before it are through.                        *)
LEMMA TurnEndAbandons ==
  ASSUME IInv, [Next]_vars, NEW t \in Turns, Quiet, TurnEnd(t), InFlight(t) # {}
  PROVE  abandoned' # {} \/ (closing'[t] = "abandoning" /\ WillAbandon(t)')
<1>0. /\ TypeOK /\ RequestsRight /\ OrdersRight /\ SpansRight
      /\ order[t] \in Seq(Generations) /\ t \in Turns \cup {Prompt}
      /\ closing \in [Turns -> {"none", "abandoning", "starting", "done"}]
  BY Types DEF IInv
<1>1. /\ t \notin ended /\ closing'[t] = "abandoning" /\ order' = order /\ start' = start
      /\ failing' = failing /\ VisitTurn(t, t, {t}, {})
  BY <1>0 DEF TurnEnd
<1>2. PICK l \in InFlight(t) : TRUE
  OBVIOUS
<1>3. /\ InFlight(t) \subseteq Nat /\ InFlight(t) \subseteq DOMAIN order[t]
      /\ Unfinished(t) # {}
  BY <1>0, <1>2 DEF InFlight, Unfinished, Elements
<1>4. PICK f \in Generations : Reaches(t, t, f, {t}, {})
  BY <1>0, <1>1, <1>3, Abandoning DEF VisitTurn
<1>5. CASE finish[f] = "none"
  BY <1>4, <1>5 DEF Reaches
<1>6. CASE finish[f] # "none"
  <2>1. PICK i \in InFlight(t) : \A j \in InFlight(t) : i <= j
    BY <1>2, <1>3, MinIs
  <2>2. i \in DOMAIN order[t] /\ i \in Nat
    BY <1>3
  <2>3. PICK g \in Generations : g = order[t][i]
    BY <1>0, <2>2
  <2>4. g \notin ended /\ finish[g] = "none" /\ turnOf[g] = t
    BY <1>0, <2>1, <2>2, <2>3 DEF InFlight, OrdersRight
  <2>5. finish' = finish /\ ended' = ended \cup {t}
    BY <1>4, <1>6 DEF Reaches
  <2>6. InFlight(t)' = InFlight(t)
    <3>1. \A h \in Generations : h \in ended' <=> h \in ended
      BY <2>5, Kinds
    <3>. QED
      BY <1>0, <1>1, <2>5, <3>1 DEF InFlight
  <2>7. i \in InFlight(t)' /\ \A j \in 1..(i - 1) : j \notin InFlight(t)'
    BY <2>1, <2>2, <2>6
  <2>8. ~(g \in failing /\ start[g] = "settled")
    <3>1. closing[t] = "none"
      BY <1>0, <1>1 DEF SpansRight
    <3>2. ~FailureDue(g) /\ ~GoesOn(t)
      BY <3>1 DEF Quiet, EndsThrough, GoesOn
    <3>. QED
      BY <2>4, <3>2 DEF FailureDue, Started
  <2>9. ~(order'[t][i] \in failing' /\ start'[order'[t][i]] = "settled")
    BY <1>1, <2>3, <2>8
  <2>. QED
    BY <1>1, <2>7, <2>9 DEF WillAbandon
<1>. QED
  BY <1>5, <1>6

LEMMA BlameStep ==
  ASSUME IInv, [Next]_vars
  PROVE  BlameRight'
<1>0. BlameRight /\ SpansRight /\ abandoned \subseteq abandoned' /\ (blamed => blamed')
  BY AbandonedGrows DEF IInv
<1>1. ASSUME blamed'
      PROVE  abandoned' # {} \/ \E t \in Turns : closing'[t] = "abandoning" /\ WillAbandon(t)'
  <2>1. CASE blamed
    BY <1>0, <2>1, WillAbandonStays DEF BlameRight
  <2>2. ASSUME NEW t \in Turns, Quiet, TurnEnd(t), ~blamed
        PROVE  abandoned' # {} \/ (closing'[t] = "abandoning" /\ WillAbandon(t)')
    <3>1. InFlight(t) # {}
      BY <1>1, <2>2 DEF TurnEnd, Blame
    <3>. QED
      BY <2>2, <3>1, TurnEndAbandons
  <2>. QED
    BY <1>1, <2>1, <2>2, AbandonedGrows
<1>2. ASSUME NEW t \in Turns, closing'[t] = "abandoning", InFlight(t)' # {} PROVE blamed'
  <2>1. CASE order'[t] = order[t]
    <3>1. InFlight(t) # {}
      BY <1>2, <2>1, UnfinishedShrinks
    <3>2. CASE closing[t] = "abandoning"
      BY <1>0, <3>1, <3>2 DEF BlameRight
    <3>3. CASE TurnEnd(t)
      BY <3>1, <3>3 DEF TurnEnd, Blame
    <3>. QED
      BY <1>2, <3>2, <3>3, TurnMove
         DEF TurnKept, TurnBegins, TurnStarts, TurnComesToEnd, TurnAwaits, TurnCloses, TurnLeft
  <2>2. CASE ListsNew(t)
    <3>1. t \notin ended
      BY <2>2 DEF ListsNew, Observed
    <3>2. closing[t] = "none"
      BY <1>0, <3>1 DEF SpansRight
    <3>3. CASE TurnComesToEnd(t)
      <4>1. order'[t] = order[t]
        BY <3>3 DEF TurnComesToEnd
      <4>. QED
        BY <2>1, <4>1
    <3>. QED
      BY <1>2, <3>2, <3>3, TurnMove
         DEF TurnKept, TurnBegins, TurnStarts, TurnAwaits, TurnCloses, TurnLeft
  <2>3. CASE order'[t] = <<>>
    BY <1>2, <2>3, NothingListed
  <2>. QED
    BY <2>1, <2>2, <2>3, OrderMove
<1>3. ASSUME stage' = "open", abandoned' # {} PROVE blamed'
  <2>1. stage = "open"
    BY <1>3, StageMove
       DEF StageKept, FinalizingStarts, TurnsFollow, NextTurnFollows, ScoresFollow, RootFollows
  <2>2. CASE abandoned' = abandoned
    BY <1>0, <1>3, <2>1, <2>2 DEF BlameRight
  <2>3. ASSUME NEW t \in Turns, FindsInFlight(t),
               FindsInFlight(t) /\ closing[t] # "abandoning" => TurnEnd(t)
        PROVE  blamed'
    <3>1. CASE closing[t] = "abandoning"
      BY <1>0, <2>3, <3>1 DEF BlameRight, FindsInFlight
    <3>2. CASE TurnEnd(t)
      BY <2>3, <3>2 DEF FindsInFlight, TurnEnd, Blame
    <3>. QED
      BY <2>3, <3>1, <3>2
  <2>4. CASE UNCHANGED promptVars
    BY <2>2, <2>4 DEF promptVars, scopeVars
  <2>. QED
    BY <1>3, <2>2, <2>3, <2>4, Steps, AbandonedEvent, AbandonedTool, AbandonedFinal
<1>. QED
  BY <1>1, <1>2, <1>3 DEF BlameRight

-----------------------------------------------------------------------------
(* What the root says stays what will have happened                        *)

(* A request that a visit abandons is pending with its turn, or the turn's *)
(* turn_end has blamed the prompt for it.                                  *)
LEMMA ReachSays ==
  ASSUME IInv, stage \in {"open", "tools", "turns"},
         NEW x, NEW t \in Turns, NEW g \in Generations, Reaches(x, t, g, {}, {})
  PROVE  /\ \A u \in Turns : u \in ended' <=> u \in ended
         /\ abandoned \subseteq abandoned'
         /\ abandoned' # {} => abandoned # {} \/ blamed \/ PendingTurns # {}
<1>0. TurnsTracked /\ OrdersRight /\ BlameRight
  BY DEF IInv
<1>1. ended' \subseteq ended \cup {g} /\ ended \subseteq ended' /\ abandoned \subseteq abandoned'
  BY DEF Reaches
<1>2. \A u \in Turns : u \in ended' <=> u \in ended
  BY <1>1, Kinds
<1>3. ASSUME finish[g] = "none" PROVE blamed \/ PendingTurns # {}
  <2>1. PICK m \in DOMAIN order[t] : order[t][m] = g /\ g \in Unfinished(t)
    BY DEF Reaches, FirstOf
  <2>2. m \in InFlight(t) /\ order[t] # <<>>
    BY <1>3, <2>1 DEF Unfinished, InFlight
  <2>3. CASE Ending(t)
    <3>1. closing[t] # "starting"
      BY <1>0, <2>1 DEF OrdersRight
    <3>. QED
      BY <1>0, <2>2, <2>3, <3>1 DEF Ending, BlameRight
  <2>4. CASE t \notin ended /\ stage \in {"open", "tools"}
    BY <1>0, <2>2, <2>4 DEF TurnsTracked, PendingTurns
  <2>5. CASE t \notin ended /\ stage = "turns" /\ t \in Elements(left)
    BY <2>5 DEF PendingTurns
  <2>. QED
    BY <1>0, <2>2, <2>3, <2>4, <2>5 DEF TurnsTracked
<1>4. finish[g] # "none" => abandoned' = abandoned
  BY DEF Reaches
<1>. QED
  BY <1>1, <1>2, <1>3, <1>4

LEMMA TurnReachedSays ==
  ASSUME IInv, stage \in {"open", "tools", "turns"}, NEW ts \in Seq(Turns),
         TurnReached(ts, {}, {})
  PROVE  /\ stage' = "turns" /\ left' = ts
         /\ \A u \in Turns : u \in ended' <=> u \in ended
         /\ abandoned \subseteq abandoned'
         /\ abandoned' # {} => abandoned # {} \/ blamed \/ PendingTurns # {}
<1>1. stage' = "turns" /\ left' = ts
  BY DEF TurnReached
<1>2. CASE Passes(Prompt, {}, {})
  BY <1>1, <1>2 DEF Passes
<1>3. ASSUME ts # <<>>, NEW g \in Generations, Reaches(Prompt, Head(ts), g, {}, {})
      PROVE  /\ \A u \in Turns : u \in ended' <=> u \in ended
             /\ abandoned \subseteq abandoned'
             /\ abandoned' # {} => abandoned # {} \/ blamed \/ PendingTurns # {}
  <2>1. PICK t \in Turns : t = Head(ts)
    BY <1>3
  <2>. QED
    BY <1>3, <2>1, ReachSays
<1>. QED
  BY <1>1, <1>2, <1>3 DEF TurnReached

LEMMA ToolReachedSays ==
  ASSUME IInv, NEW k \in Tools, ToolReached(k)
  PROVE  /\ ended' = ended
         /\ abandoned' # {} \/ PendingTools' # {} <=> abandoned # {} \/ PendingTools # {}
<1>0. finish \in [Generations \cup Tools -> {"none", "waiting", "unasked", "scoring", "done"}]
      /\ activeTools \subseteq Tools
  BY Types DEF IInv
<1>1. /\ k \in activeTools /\ activeTools' = activeTools /\ resultSeen' = resultSeen /\ ended' = ended
  BY DEF ToolReached, UnfinishedTools
<1>2. CASE finish[k] # "none"
  BY <1>1, <1>2 DEF ToolReached, EndUnfinished, PendingTools, HasCompletion
<1>3. CASE finish[k] = "none" /\ HasCompletion(k)
  <2>1. /\ \E f \in {"waiting", "unasked"} : finish' = [finish EXCEPT ![k] = f]
        /\ abandoned' = abandoned
    BY <1>3 DEF ToolReached, EndUnfinished, FinishTool
  <2>2. \A j \in Tools : HasCompletion(j)' <=> HasCompletion(j)
    BY <1>0, <1>1, <1>3, <2>1 DEF HasCompletion
  <2>3. PendingTools' = PendingTools
    BY <1>0, <1>1, <2>2 DEF PendingTools
  <2>. QED
    BY <1>1, <2>1, <2>3
<1>4. CASE finish[k] = "none" /\ ~HasCompletion(k)
  <2>1. abandoned' = abandoned \cup {k}
    BY <1>4 DEF ToolReached, EndUnfinished
  <2>2. k \in PendingTools
    BY <1>1, <1>4 DEF PendingTools
  <2>. QED
    BY <1>1, <2>1, <2>2
<1>. QED
  BY <1>2, <1>3, <1>4

LEMMA SaysEvent ==
  ASSUME IInv, EventStep, UNCHANGED <<toolVars, finalVars>>, stage' # "open", TypeOK'
  PROVE  SaysRight'
<1>0. /\ SaysRight /\ BlameRight /\ SpansRight /\ activeTurns \in Seq(Turns)
      /\ left \in Seq(Turns) /\ activeTurns' \in Seq(Turns) /\ activeTools \subseteq Tools
  BY Types DEF IInv, TypeOK, TurnTypeOK
<1>1. stage' = stage /\ left' = left /\ given' = given /\ saysAbandoned' = saysAbandoned
  BY Zenon
     DEF EventStep, TurnStart, TurnEndUntracked, TurnEnd, BeforeProviderRequest, MessageEvent,
         MessageFails, MessageEnd, TurnSpanStarts, TurnEndContinues, GenerationStarts,
         FailureResumes, GenerationFinishes, scopeVars, finalVars
<1>2. \A t \in Turns : ~TurnEnd(t)
  BY <1>1 DEF TurnEnd, Live
<1>3. blamed' = blamed /\ abandoned \subseteq abandoned'
      /\ (abandoned' = abandoned \/ blamed)
  BY <1>0, <1>2, AbandonedEvent DEF FindsInFlight, BlameRight
<1>4. PendingTools' = PendingTools
  <2>1. activeTools' = activeTools /\ resultSeen' = resultSeen
    BY DEF toolVars
  <2>2. \A k \in Tools : finish'[k] = finish[k]
    BY ToolEvents DEF ToolKept
  <2>. QED
    BY <1>0, <2>1, <2>2 DEF PendingTools, HasCompletion
<1>5. ASSUME stage \in {"tools", "turns"} PROVE PendingTurns' = PendingTurns
  <2>1. ASSUME NEW t \in Turns
        PROVE  /\ t \in ended' <=> t \in ended
               /\ t \notin ended => (t \in Elements(activeTurns') <=> t \in Elements(activeTurns))
    <3>1. ~TurnBegins(t) /\ ~TurnComesToEnd(t) /\ stage' \notin {"scores", "done"}
      BY <1>1, <1>2, <1>5 DEF TurnBegins, TurnComesToEnd, Live
    <3>2. CASE TurnCloses(t)
      <4>1. closing[t] # "none"
        BY <3>2 DEF TurnCloses, TurnEndDue
      <4>. QED
        BY <1>0, <3>2, <4>1 DEF TurnCloses, SpansRight
    <3>. QED
      BY <3>1, <3>2, TurnEvents DEF TurnKept, TurnStarts, TurnAwaits, MapKept
  <2>2. Elements(activeTurns) \subseteq Turns /\ Elements(activeTurns') \subseteq Turns
        /\ Elements(left) \subseteq Turns
    BY <1>0 DEF Elements
  <2>. QED
    BY <1>1, <2>1, <2>2 DEF PendingTurns
<1>6. Pending' <=> Pending
  BY <1>1, <1>4, <1>5 DEF Pending
<1>. QED
  BY <1>0, <1>1, <1>3, <1>6 DEF SaysRight

LEMMA SaysTool ==
  ASSUME IInv, ToolStep, UNCHANGED <<turnVars, finalVars>>, stage' # "open"
  PROVE  SaysRight'
<1>0. /\ SaysRight /\ activeTurns \in Seq(Turns)
      /\ left \in Seq(Turns) /\ activeTools \subseteq Tools
      /\ finish \in [Generations \cup Tools -> {"none", "waiting", "unasked", "scoring", "done"}]
  BY Types DEF IInv
<1>1. /\ stage' = stage /\ left' = left /\ given' = given /\ saysAbandoned' = saysAbandoned
      /\ blamed' = blamed /\ abandoned' = abandoned /\ activeTurns' = activeTurns
  BY AbandonedTool DEF finalVars, turnVars
<1>2. PICK k \in Tools : ToolSpanStarts(k) \/ ToolScored(k) \/ ToolFinishes(k)
  BY <1>1 DEF ToolStep, ToolEvent, ToolResult, ToolExecutionEnd, Live
<1>3. /\ activeTools' = activeTools /\ resultSeen' = resultSeen
      /\ \A j \in Tools : finish'[j] # "none" <=> finish[j] # "none"
  BY <1>0, <1>2 DEF ToolSpanStarts, ToolScored, ToolFinishes, ToolFinishDue, toolVars
<1>4. PendingTools' = PendingTools
  BY <1>0, <1>3 DEF PendingTools, HasCompletion
<1>5. \A t \in Turns : t \in ended' <=> t \in ended
  BY TurnTool DEF TurnKept
<1>6. Elements(activeTurns) \subseteq Turns /\ Elements(left) \subseteq Turns
  BY <1>0 DEF Elements
<1>7. PendingTurns' = PendingTurns
  BY <1>1, <1>5, <1>6 DEF PendingTurns
<1>. QED
  BY <1>0, <1>1, <1>4, <1>7 DEF SaysRight, Pending

LEMMA SaysFinalize ==
  ASSUME IInv, NEW r, Finalize(r)
  PROVE  SaysRight'
<1>0. /\ TypeOK /\ BlameRight /\ activeTurns \in Seq(Turns) /\ activeTools \subseteq Tools
  BY Types DEF IInv
<1>1. /\ stage = "open" /\ given' = r /\ saysAbandoned' = (r \/ blamed \/ HadPendingWork)
      /\ blamed' = blamed /\ activeTurns' = activeTurns
  BY DEF Finalize, Live
<1>2. /\ HadPendingWork <=> PendingTools # {} \/ PendingTurns # {}
      /\ PendingTurns = Elements(activeTurns) \ ended
      /\ abandoned # {} => blamed
  BY <1>0, <1>1 DEF HadPendingWork, PendingTools, PendingTurns, BlameRight
<1>3. Elements(activeTurns) \subseteq Turns
  BY <1>0 DEF Elements
<1>4. CASE TurnReached(activeTurns, {}, {}) /\ activeTools = {}
  <2>1. /\ stage' = "turns" /\ left' = activeTurns
        /\ \A u \in Turns : u \in ended' <=> u \in ended
        /\ abandoned \subseteq abandoned'
        /\ abandoned' # {} => abandoned # {} \/ blamed \/ PendingTurns # {}
    BY <1>0, <1>1, <1>4, TurnReachedSays
  <2>2. PendingTurns' = PendingTurns
    BY <1>2, <1>3, <2>1 DEF PendingTurns
  <2>3. PendingTools = {}
    BY <1>4 DEF PendingTools
  <2>4. saysAbandoned' <=> r \/ blamed \/ PendingTurns # {}
    BY <1>1, <1>2, <2>3
  <2>5. Pending' <=> PendingTurns # {}
    BY <2>1, <2>2 DEF Pending
  <2>. QED
    BY <1>1, <1>2, <2>1, <2>4, <2>5 DEF SaysRight
<1>5. ASSUME stage' = "tools", ended' = ended,
             abandoned' # {} \/ PendingTools' # {} <=> abandoned # {} \/ PendingTools # {}
      PROVE  SaysRight'
  <2>1. PendingTurns' = PendingTurns
    BY <1>1, <1>2, <1>5 DEF PendingTurns
  <2>2. Pending' <=> PendingTools' # {} \/ PendingTurns # {}
    BY <1>5, <2>1 DEF Pending
  <2>3. saysAbandoned' <=> r \/ blamed \/ PendingTools # {} \/ PendingTurns # {}
    BY <1>1, <1>2
  <2>. QED
    BY <1>1, <1>2, <1>5, <2>2, <2>3 DEF SaysRight
<1>6. ASSUME NEW k \in Tools, ToolReached(k), stage' = "tools" PROVE SaysRight'
  BY <1>5, <1>6, ToolReachedSays
<1>7. ASSUME UNCHANGED <<toolRest, activeTools, visiting, finish, ended, abandoned>>,
             stage' = "tools"
      PROVE  SaysRight'
  <2>1. PendingTools' = PendingTools
    BY <1>7 DEF PendingTools, HasCompletion, toolRest
  <2>. QED
    BY <1>5, <1>7, <2>1
<1>. QED
  BY <1>0, <1>4, <1>6, <1>7, FinalizeSteps

LEMMA SaysFinalizerTools ==
  ASSUME IInv, FinalizerTools
  PROVE  SaysRight'
<1>0. /\ TypeOK /\ SaysRight /\ activeTurns \in Seq(Turns) /\ activeTools \subseteq Tools
  BY Types DEF IInv
<1>1. /\ stage = "tools" /\ given' = given /\ saysAbandoned' = saysAbandoned
      /\ blamed' = blamed /\ activeTurns' = activeTurns
  BY DEF FinalizerTools, FinalizerToolsDue
<1>2. saysAbandoned <=>
        given \/ blamed \/ abandoned # {} \/ PendingTools # {} \/ PendingTurns # {}
  BY <1>0, <1>1 DEF SaysRight, Pending
<1>3. PendingTurns = Elements(activeTurns) \ ended /\ Elements(activeTurns) \subseteq Turns
  BY <1>0, <1>1 DEF PendingTurns, Elements
<1>4. CASE UnfinishedTools = {} /\ TurnReached(activeTurns, {}, {})
  <2>1. /\ stage' = "turns" /\ left' = activeTurns
        /\ \A u \in Turns : u \in ended' <=> u \in ended
        /\ abandoned \subseteq abandoned'
        /\ abandoned' # {} => abandoned # {} \/ blamed \/ PendingTurns # {}
    BY <1>0, <1>1, <1>4, TurnReachedSays
  <2>2. PendingTurns' = PendingTurns
    BY <1>3, <2>1 DEF PendingTurns
  <2>3. PendingTools = {}
    BY <1>4 DEF PendingTools, UnfinishedTools, HasCompletion
  <2>4. Pending' <=> PendingTurns # {}
    BY <2>1, <2>2 DEF Pending
  <2>. QED
    BY <1>1, <1>2, <2>1, <2>3, <2>4 DEF SaysRight
<1>5. ASSUME NEW k \in Tools, ToolReached(k), stage' = stage PROVE SaysRight'
  <2>1. /\ ended' = ended
        /\ abandoned' # {} \/ PendingTools' # {} <=> abandoned # {} \/ PendingTools # {}
    BY <1>5, ToolReachedSays
  <2>2. PendingTurns' = PendingTurns
    BY <1>1, <1>5, <2>1 DEF PendingTurns
  <2>3. Pending' <=> PendingTools' # {} \/ PendingTurns # {}
    BY <1>1, <1>5, <2>2 DEF Pending
  <2>. QED
    BY <1>1, <1>2, <2>1, <2>3 DEF SaysRight
<1>. QED
  BY <1>0, <1>4, <1>5, FinalizerToolsSteps

LEMMA SaysFinalizerTurn ==
  ASSUME IInv, FinalizerTurn
  PROVE  SaysRight'
<1>0. /\ TypeOK /\ SaysRight /\ TurnsKnown /\ left \in Seq(Turns)
  BY Types DEF IInv
<1>1. /\ stage = "turns" /\ left # <<>> /\ given' = given /\ saysAbandoned' = saysAbandoned
      /\ blamed' = blamed
  BY DEF FinalizerTurn, FinalizerTurnDue
<1>2. saysAbandoned <=> given \/ blamed \/ abandoned # {} \/ PendingTurns # {}
  BY <1>0, <1>1 DEF SaysRight, Pending
<1>3. PendingTurns = Elements(left) \ ended /\ Elements(left) \subseteq Turns
  BY <1>0, <1>1 DEF PendingTurns, Elements
<1>4. PICK t : t = Head(left)
  OBVIOUS
<1>5. t \in Elements(left)
  BY <1>0, <1>1, <1>4 DEF Elements
<1>6. PICK next \in Seq(Turns) :
        /\ next = NextTurns /\ Elements(next) \subseteq Elements(left)
        /\ \A u \in Elements(left) : u # Head(left) /\ u \in Elements(activeTurns)
             => u \in Elements(next)
  BY <1>0, <1>1, NextIs
<1>7. CASE stage' = "turns" /\ PendingTurns' = PendingTurns /\ abandoned \subseteq abandoned'
           /\ (abandoned' # {} => abandoned # {} \/ blamed \/ PendingTurns # {})
  <2>1. Pending' <=> PendingTurns # {}
    BY <1>7 DEF Pending
  <2>. QED
    BY <1>1, <1>2, <1>7, <2>1 DEF SaysRight
<1>8. ASSUME NEW g \in Generations, t \in Turns, Reaches(Prompt, t, g, {}, {}),
             UNCHANGED <<stage, left>>
      PROVE  SaysRight'
  <2>1. /\ \A u \in Turns : u \in ended' <=> u \in ended
        /\ abandoned \subseteq abandoned'
        /\ abandoned' # {} => abandoned # {} \/ blamed \/ PendingTurns # {}
    BY <1>1, <1>8, ReachSays
  <2>2. PendingTurns' = PendingTurns
    BY <1>1, <1>3, <1>8, <2>1 DEF PendingTurns
  <2>. QED
    BY <1>1, <1>7, <1>8, <2>1, <2>2
<1>9. CASE t \in ended /\ TurnReached(NextTurns, {}, {})
  <2>1. /\ stage' = "turns" /\ left' = next
        /\ \A u \in Turns : u \in ended' <=> u \in ended
        /\ abandoned \subseteq abandoned'
        /\ abandoned' # {} => abandoned # {} \/ blamed \/ PendingTurns # {}
    BY <1>1, <1>6, <1>9, TurnReachedSays
  <2>2. ASSUME NEW u \in PendingTurns PROVE u \in Elements(next)
    <3>1. u \in Elements(left) /\ u \notin ended /\ u # Head(left)
      BY <1>3, <1>4, <1>9
    <3>2. u \in Elements(activeTurns)
      BY <1>0, <1>1, <3>1 DEF TurnsKnown
    <3>. QED
      BY <1>6, <3>1, <3>2
  <2>3. PendingTurns' = PendingTurns
    BY <1>3, <1>6, <2>1, <2>2 DEF PendingTurns
  <2>. QED
    BY <1>7, <2>1, <2>3
<1>10. CASE t \notin ended /\ TurnReached(NextTurns, {t}, {t})
  <2>1. t \in abandoned'
    BY <1>10 DEF TurnReached, Passes, Reaches
  <2>2. t \in PendingTurns
    BY <1>3, <1>5, <1>10
  <2>. QED
    BY <1>1, <1>2, <2>1, <2>2 DEF SaysRight
<1>. QED
  BY <1>0, <1>4, <1>8, <1>9, <1>10, FinalizerTurnSteps

LEMMA SaysStep ==
  ASSUME IInv, [Next]_vars
  PROVE  SaysRight'
<1>0. SaysRight
  BY DEF IInv
<1>1. CASE UNCHANGED promptVars
  BY <1>0, <1>1
     DEF SaysRight, Pending, PendingTools, PendingTurns, HasCompletion, promptVars, scopeVars,
         turnVars, toolVars, finalVars
<1>2. CASE stage' = "open"
  BY <1>2 DEF SaysRight
<1>3. CASE FinalizerScores
  <2>1. ~Pending /\ ~Pending' /\ stage # "open"
    BY <1>3 DEF FinalizerScores, FinalizerScoresDue, Pending, PendingTurns, Elements
  <2>. QED
    BY <1>0, <1>3, <2>1 DEF FinalizerScores, SaysRight, finalVars
<1>4. CASE RootEnds
  <2>1. ~Pending /\ ~Pending' /\ stage # "open"
    BY <1>4 DEF RootEnds, Pending
  <2>. QED
    BY <1>0, <1>4, <2>1 DEF RootEnds, SaysRight, turnVars, finalVars
<1>5. CASE FinalStep
  BY <1>3, <1>4, <1>5, SaysFinalize, SaysFinalizerTools, SaysFinalizerTurn DEF FinalStep
<1>6. TypeOK'
  BY TypeStep DEF IInv
<1>. QED
  BY <1>1, <1>2, <1>5, <1>6, Steps, SaysEvent, SaysTool

-----------------------------------------------------------------------------
(* The invariant holds                                                     *)

LEMMA IInvInit ==
  ASSUME Init
  PROVE  IInv
<1>1. TypeOK
  BY TypeInit
<1>2. /\ stage = "open" /\ line = <<>> /\ ended = {} /\ abandoned = {}
      /\ \A c \in Children : start[c] = "none" /\ span[c] = "none"
      /\ \A c \in Generations \cup Tools : finish[c] = "none"
  BY DEF Init, ScopeInit
<1>3. /\ activeTurns = <<>> /\ blamed = FALSE /\ failing = {} /\ activeTools = {}
      /\ awaitedTool = None
      /\ \A t \in Turns : order[t] = <<>> /\ closing[t] = "none"
      /\ \A x \in Turns \cup {Prompt} : visiting[x] = None
      /\ \A g \in Generations : turnOf[g] = None
  BY DEF Init, TurnInit, ToolInit
<1>4. \A c \in Children \cup {Prompt} : ~Waits(c)
  BY <1>2, Kinds DEF Waits
<1>5. LineRight
  BY <1>2, <1>4 DEF LineRight
<1>6. SpansRight
  BY <1>2, <1>3, Kinds DEF SpansRight
<1>7. RequestsRight
  BY <1>2, <1>3, Kinds DEF RequestsRight
<1>8. OrdersRight
  BY <1>3 DEF OrdersRight, IsInjective
<1>9. TurnsTracked
  BY <1>2, <1>3, Kinds DEF TurnsTracked
<1>9a. LeaksRight
  BY <1>2, Kinds DEF LeaksRight
<1>10. TurnsKnown
  BY <1>2, Kinds DEF TurnsKnown
<1>11. ToolsTracked
  BY <1>2, Kinds DEF ToolsTracked
<1>12. AwaitedRight
  BY <1>2, <1>3 DEF AwaitedRight
<1>13. AskedInOrder
  BY <1>3 DEF AskedInOrder
<1>14. BlameRight
  BY <1>2, <1>3 DEF BlameRight
<1>15. PassedRight /\ SaysRight
  BY <1>2 DEF PassedRight, SaysRight
<1>. QED
  BY <1>1, <1>5, <1>6, <1>7, <1>8, <1>9, <1>9a, <1>10, <1>11, <1>12, <1>13, <1>14, <1>15
     DEF IInv

LEMMA IInvStep ==
  ASSUME IInv, [Next]_vars
  PROVE  IInv'
<1>1. TypeOK'
  BY TypeStep DEF IInv
<1>. QED
  BY <1>1, LineStep, SpansStep, RequestsStep, OrdersStep, LeaksStep, TrackedStep, KnownStep, ToolsStep,
     AwaitedStep, AskedStep, BlameStep, PassedStep, SaysStep
     DEF IInv

(* The conjunction on which the theorems rest holds in every reachable     *)
(* state.                                                                  *)
THEOREM Invariance == Spec => []IInv
<1>1. Init => IInv
  BY IInvInit
<1>2. IInv /\ [Next]_vars => IInv'
  BY IInvStep
<1>. QED
  BY <1>1, <1>2, PTL DEF Spec

-----------------------------------------------------------------------------
(* The theorems                                                            *)

(* Every variable keeps its type: the maps, the promises and the flags of  *)
(* a traced prompt never hold what the handlers do not put there.          *)
THEOREM TypeCorrect == Spec => []TypeOK
<1>1. IInv => TypeOK
  BY DEF IInv
<1>. QED
  BY <1>1, Invariance, PTL

(* Every observation is ended once, by its own event, the end of its turn  *)
(* or the finalization of its prompt.  When the root has ended and no      *)
(* turn_end is under way, none is open but turns whose turn_end was through*)
(* - and forgot them - after the configuration had changed.                *)
THEOREM ObservationsEndOnce == Spec => []EndedOnce
<1>1. IInv => EndedOnce
  <2>1. SUFFICES ASSUME IInv PROVE EndedOnce
    OBVIOUS
  <2>2. SpansRight /\ RequestsRight /\ OrdersRight /\ LeaksRight /\ TurnsTracked /\ ToolsTracked
        /\ turnOf \in [Generations -> Turns \cup {None}]
    BY <2>1, Types DEF IInv
  <2>3. ASSUME stage = "done", ~Closing, NEW c \in Children, span[c] = "open"
        PROVE  c \in Turns /\ closing[c] = "done" /\ switched > 0
    <3>1. \A t \in Turns : order[t] = <<>> /\ (span[t] = "open" => closing[t] = "done")
      BY <2>2, <2>3 DEF TurnsTracked, Ending, Closing
    <3>2. CASE c \in Generations
      <4>1. start[c] = "settled"
        BY <2>2, <2>3 DEF SpansRight
      <4>2. turnOf[c] # None
        BY <2>2, <3>2, <4>1 DEF RequestsRight
      <4>3. turnOf[c] \in Turns /\ c \in Elements(order[turnOf[c]])
        BY <2>2, <2>3, <3>2, <4>2 DEF OrdersRight
      <4>. QED
        BY <3>1, <4>3 DEF Elements
    <3>3. CASE c \in Tools
      BY <2>2, <2>3, <3>3 DEF ToolsTracked
    <3>4. CASE c \in Turns
      BY <2>2, <2>3, <3>1, <3>4 DEF LeaksRight
    <3>. QED
      BY <3>2, <3>3, <3>4, Kinds
  <2>. QED
    BY <2>2, <2>3 DEF SpansRight, EndedOnce
<1>. QED
  BY <1>1, Invariance, PTL

(* A turn that has ended lists no requests, and one that is open would be  *)
(* listed.                                                                 *)
LEMMA ClosesOver == IInv => TurnsCloseOver
<1>1. SUFFICES ASSUME IInv, NEW g \in Generations, span[g] = "open", turnOf[g] # None,
                      span[turnOf[g]] = "ended"
               PROVE  FALSE
  BY DEF TurnsCloseOver
<1>2. turnOf[g] \in Turns /\ SpansRight /\ OrdersRight
  BY <1>1, Types DEF IInv
<1>3. order[turnOf[g]] = <<>> /\ g \in Elements(order[turnOf[g]])
  BY <1>1, <1>2 DEF SpansRight, OrdersRight
<1>. QED
  BY <1>3 DEF Elements

(* A turn's span ends after those of its requests, whoever ends it.        *)
THEOREM TurnsEndLast == Spec => []TurnsCloseOver
BY ClosesOver, Invariance, PTL

(* When all is visited, nothing is pending that the root was to report.    *)
LEMMA Reports == IInv => AbandonmentReported
<1>1. SUFFICES ASSUME IInv, stage \in {"scores", "done"}
               PROVE  saysAbandoned <=> given \/ abandoned # {}
  BY DEF AbandonmentReported
<1>2. SaysRight /\ BlameRight /\ PassedRight
  BY <1>1 DEF IInv
<1>3. saysAbandoned <=> given \/ blamed \/ abandoned # {}
  BY <1>1, <1>2 DEF SaysRight, Pending
<1>4. \A t \in Turns : ~WillAbandon(t)
  <2>1. ASSUME NEW t \in Turns, NEW i \in InFlight(t) PROVE FALSE
    <3>1. order[t][i] \in Unfinished(t)
      BY <2>1 DEF InFlight, Unfinished, Elements
    <3>. QED
      BY <1>1, <1>2, <3>1 DEF PassedRight
  <2>. QED
    BY <2>1 DEF WillAbandon
<1>. QED
  BY <1>2, <1>3, <1>4 DEF BlameRight

(* The root says that something was abandoned exactly when something was,  *)
(* or the boundary gave a reason, although it decides so beforehand.       *)
THEOREM AbandonmentIsReported == Spec => []AbandonmentReported
BY Reports, Invariance, PTL

(* The finalization, the ends of turns and the ends of requests and tools  *)
(* never wait for one another in a circle.                                 *)
THEOREM NobodyWaitsInACircle == Spec => []NobodyLeftWaiting
<1>1. IInv => NobodyLeftWaiting
  <2>1. SUFFICES ASSUME IInv, line = <<>>, Quiet
                 PROVE  /\ stage \in {"open", "done"} /\ ~Closing
                        /\ \A c \in Generations \cup Tools : finish[c] \in {"none", "done"}
    BY DEF NobodyLeftWaiting
  <2>2. /\ LineRight /\ RequestsRight /\ AwaitedRight /\ stage \in Stages
        /\ finish \in [Generations \cup Tools -> {"none", "waiting", "unasked", "scoring", "done"}]
        /\ visiting \in [Turns \cup {Prompt} -> Generations \cup {None}]
        /\ awaitedTool \in Tools \cup {None} /\ left \in Seq(Turns)
    BY <2>1, Types DEF IInv
  <2>3. \A c \in Children \cup {Prompt} : ~Waits(c)
    BY <2>1, <2>2 DEF LineRight, Elements
  <2>4. /\ stage # "scores" /\ \A c \in Children : start[c] # "asked"
        /\ \A k \in Tools : finish[k] # "scoring"
    BY <2>3, Kinds DEF Waits
  <2>5. EndsThrough /\ \A t \in Turns : ~TurnEndDue(t)
    BY <2>1 DEF Quiet
  <2>6. ASSUME NEW c \in Generations \cup Tools PROVE finish[c] \in {"none", "done"}
    <3>1. finish[c] # "waiting"
      BY <2>4, <2>5, Kinds DEF EndsThrough, FinishDue, ToolFinishDue, Started
    <3>2. finish[c] \notin {"scoring", "unasked"}
      BY <2>2, <2>4, <2>5 DEF RequestsRight, EndsThrough, ToolFinishDue
    <3>. QED
      BY <2>2, <3>1, <3>2
  <2>7. \A x \in Turns \cup {Prompt} : Visited(x)
    BY <2>2, <2>6 DEF AwaitedRight, Visited
  <2>8. \A t \in Turns : closing[t] \notin {"abandoning", "starting"}
    BY <2>4, <2>5, <2>7, Kinds DEF TurnEndDue, Started
  <2>9. TurnEndsFirst
    BY <2>8 DEF TurnEndsFirst, GoesOn
  <2>10. stage # "tools"
    <3>1. ToolVisited
      BY <2>2, <2>6 DEF AwaitedRight, ToolVisited
    <3>. QED
      BY <2>1, <2>9, <3>1 DEF Quiet, FinalizerToolsDue
  <2>11. stage # "turns"
    <3>1. CASE left = <<>>
      BY <2>1, <3>1 DEF Quiet, FinalizerScoresDue
    <3>2. CASE left # <<>>
      <4>1. PICK t \in Turns : t = Head(left)
        BY <2>2, <3>2
      <4>2. Started(Head(left))
        BY <2>4, <4>1, Kinds DEF Started
      <4>. QED
        BY <2>1, <2>7, <2>9, <3>2, <4>2 DEF Quiet, FinalizerTurnDue
    <3>. QED
      BY <3>1, <3>2
  <2>. QED
    BY <2>2, <2>4, <2>6, <2>8, <2>10, <2>11 DEF Closing, Stages
<1>. QED
  BY <1>1, Invariance, PTL

(* A request whose answer is on its way is never abandoned: no step adds   *)
(* it to the abandoned ones, or takes one away.                            *)
THEOREM AnswersAreKept == Spec => AnswersKept
<1>1. IInv /\ [Next]_vars =>
        [\A g \in Generations : finish[g] # "none" => (g \in abandoned' <=> g \in abandoned)]_vars
  BY RequestMove
     DEF RequestKept, RequestSeen, RequestStarts, RequestFails, RequestEnds, RequestAbandoned
<1>. QED
  BY <1>1, Invariance, PTL DEF Spec, AnswersKept

-----------------------------------------------------------------------------
(* The observations form a tree                                            *)

(* At most one span moves, and then nothing else does that the tree shows. *)
OneSpanMoves == \E c \in Children :
  /\ span' = [span EXCEPT ![c] = span'[c]]
  /\ turnOf' = turnOf /\ stage' = stage

(* A request gets its turn, or all keep theirs.                            *)
OneAdopted == \E t \in Turns, g \in Generations :
  /\ Observed(t) /\ turnOf[g] = None /\ turnOf' = [turnOf EXCEPT ![g] = t]
  /\ span' = span /\ stage' = stage

TreeStands == span' = span /\ turnOf' = turnOf

(* An answer opens the span of the one that it is for, and an end ends one.*)
LEMMA OneMoves ==
  ASSUME TypeOK, NEW c \in Children,
         EndSpan(c) \/ span' = [span EXCEPT ![c] = "open"]
  PROVE  span' = span \/ span' = [span EXCEPT ![c] = span'[c]]
<1>1. span \in [Children -> {"none", "open", "ended", "twice"}]
  BY Types
<1>. QED
  BY <1>1 DEF EndSpan

(* Events, answers and continuations of turns and requests.                *)
LEMMA TreeEvent ==
  ASSUME IInv, EventStep, UNCHANGED <<toolVars, finalVars>>
  PROVE  TreeStands \/ OneAdopted \/ OneSpanMoves
<1>0. TypeOK
  BY DEF IInv
<1>1. ASSUME NEW t \in Turns, TurnStart(t) \/ TurnEndUntracked(t) \/ (Quiet /\ TurnEnd(t))
      PROVE  TreeStands
  BY <1>1 DEF TurnStart, TurnEndUntracked, TurnEnd, scopeVars, TreeStands
<1>2. ASSUME NEW t \in Turns, NEW g \in Generations,
             \/ BeforeProviderRequest(t, g) \/ MessageEvent(t, g)
             \/ MessageFails(t, g) \/ MessageEnd(t, g)
      PROVE  TreeStands \/ OneAdopted
  <2>1. /\ Observed(t) /\ span' = span /\ stage' = stage
        /\ NewGeneration(t, g) \/ turnOf' = turnOf
    BY <1>2 DEF BeforeProviderRequest, MessageEvent, MessageFails, MessageEnd, Correlate,
       scopeVars
  <2>. QED
    BY <2>1 DEF NewGeneration, TreeStands, OneAdopted
<1>3. ASSUME NEW t \in Turns, TurnSpanStarts(t)
      PROVE  TreeStands \/ OneSpanMoves
  <2>1. /\ t \in Children /\ stage' = stage /\ turnOf' = turnOf
        /\ span' = span \/ span' = [span EXCEPT ![t] = "open"]
    BY <1>3, Kinds DEF TurnSpanStarts, StartSettles, turnVars
  <2>. QED
    BY <1>0, <2>1, OneMoves DEF TreeStands, OneSpanMoves
<1>4. ASSUME NEW t \in Turns, TurnEndContinues(t)
      PROVE  TreeStands \/ OneSpanMoves
  <2>1. t \in Children /\ stage' = stage /\ turnOf' = turnOf
    BY <1>4, Kinds DEF TurnEndContinues
  <2>2. span' = span \/ EndSpan(t)
    BY <1>4 DEF TurnEndContinues, CloseTurn, AwaitSpan
  <2>. QED
    BY <1>0, <2>1, <2>2, OneMoves DEF TreeStands, OneSpanMoves
<1>5. ASSUME NEW g \in Generations,
             \/ EndsThrough /\ GenerationStarts(g)
             \/ FailureResumes(g) \/ GenerationFinishes(g)
      PROVE  TreeStands \/ OneSpanMoves
  <2>1. g \in Children /\ stage' = stage /\ turnOf' = turnOf
    BY <1>5, Kinds DEF GenerationStarts, FailureResumes, GenerationFinishes, turnVars
  <2>2. span' = span \/ EndSpan(g) \/ span' = [span EXCEPT ![g] = "open"]
    BY <1>5 DEF GenerationStarts, FailureResumes, GenerationFinishes, StartSettles
  <2>. QED
    BY <1>0, <2>1, <2>2, OneMoves DEF TreeStands, OneSpanMoves
<1>. QED
  BY <1>1, <1>2, <1>3, <1>4, <1>5 DEF EventStep

(* Those of tools.                                                         *)
LEMMA TreeTool ==
  ASSUME IInv, ToolStep, UNCHANGED <<turnVars, finalVars>>
  PROVE  TreeStands \/ OneSpanMoves
<1>0. TypeOK /\ turnOf' = turnOf
  BY DEF IInv, turnVars
<1>1. PICK k \in Tools :
        \/ ToolEvent(k) \/ ToolSpanStarts(k) \/ ToolScored(k) \/ ToolFinishes(k)
        \/ ToolResult(k) \/ ToolExecutionEnd(k)
  BY DEF ToolStep
<1>2. k \in Children /\ stage' = stage
  BY <1>1, Kinds DEF ToolEvent, ToolSpanStarts, ToolScored, ToolFinishes, ToolResult,
     ToolExecutionEnd, scopeVars
<1>3. span' = span \/ EndSpan(k) \/ span' = [span EXCEPT ![k] = "open"]
  BY <1>1 DEF ToolEvent, ToolSpanStarts, ToolScored, ToolFinishes, ToolResult,
     ToolExecutionEnd, StartSettles, scopeVars
<1>. QED
  BY <1>0, <1>2, <1>3, OneMoves DEF TreeStands, OneSpanMoves

(* Those of the finalization, which ends a turn that it leaves.            *)
LEMMA TreeFinal ==
  ASSUME IInv, FinalStep
  PROVE  TreeStands \/ OneSpanMoves
<1>0. TypeOK
  BY DEF IInv
<1>1. ASSUME NEW r \in BOOLEAN, Finalize(r) PROVE TreeStands
  BY <1>1 DEF Finalize, TreeStands
<1>2. CASE FinalizerTools
  BY <1>2 DEF FinalizerTools, AbandonTool, TreeStands
<1>3. CASE FinalizerTurn
  <2>1. PICK t : t = Head(left)
    OBVIOUS
  <2>2. t \in Children /\ turnOf' = turnOf /\ stage = "turns"
    BY <1>0, <1>3, <2>1, FinalizerTurnSteps, Kinds DEF FinalizerTurn, FinalizerTurnDue
  <2>3. UNCHANGED span \/ (EndSpan(t) /\ stage' = "turns")
    BY <1>0, <1>3, <2>1, FinalizerTurnSteps DEF TurnReached
  <2>. QED
    BY <1>0, <2>2, <2>3, OneMoves DEF TreeStands, OneSpanMoves
<1>4. CASE FinalizerScores
  BY <1>4 DEF FinalizerScores, TreeStands
<1>5. CASE RootEnds
  BY <1>5 DEF RootEnds, turnVars, TreeStands
<1>. QED
  BY <1>1, <1>2, <1>3, <1>4, <1>5 DEF FinalStep

(* All of them.                                                            *)
LEMMA TreeMoves ==
  ASSUME IInv, [Next]_vars
  PROVE  TreeStands \/ OneAdopted \/ OneSpanMoves
<1>1. CASE UNCHANGED promptVars
  BY <1>1 DEF promptVars, scopeVars, turnVars, TreeStands
<1>. QED
  BY <1>1, Steps, TreeEvent, TreeTool, TreeFinal

(* A span moves from none to open, below what is open, or to its end.      *)
SpanOpens(c) ==
  /\ span[c] = "none" /\ span'[c] = "open" /\ stage # "done"
  /\ c \in Generations => turnOf[c] \in Turns

SpanEnds(c) == span[c] = "open" /\ span'[c] = "ended"

(* A request asks while its turn lists it, so the root has not ended.      *)
LEMMA RequestSpan ==
  ASSUME IInv, IInv', [Next]_vars, NEW g \in Generations
  PROVE  span'[g] = span[g] \/ SpanOpens(g) \/ SpanEnds(g)
<1>0. /\ SpansRight /\ RequestsRight /\ OrdersRight /\ PassedRight
      /\ span[g] \in {"none", "open", "ended", "twice"} /\ span[g] # "twice"
      /\ span'[g] # "twice" /\ (span[g] # "none" => start[g] = "settled")
      /\ turnOf[g] \in Turns \cup {None}
  BY Types, Kinds DEF IInv, SpansRight
<1>1. CASE RequestStarts(g) /\ span'[g] = "open" /\ g \notin ended
  <2>1. span[g] = "none" /\ start[g] = "asked"
    BY <1>0, <1>1 DEF RequestStarts
  <2>2. turnOf[g] # None /\ finish[g] # "done"
    BY <1>0, <2>1 DEF RequestsRight
  <2>3. turnOf[g] \in Turns /\ g \in Elements(order[turnOf[g]])
    BY <1>0, <1>1, <2>2 DEF OrdersRight
  <2>4. g \in Unfinished(turnOf[g])
    BY <1>1, <2>2, <2>3 DEF Unfinished
  <2>. QED
    BY <1>0, <1>1, <2>1, <2>3, <2>4 DEF PassedRight, SpanOpens
<1>2. CASE RequestEnds(g)
  BY <1>0, <1>2 DEF RequestEnds, SpanEnds
<1>. QED
  BY <1>1, <1>2, RequestMove DEF RequestKept, RequestSeen, RequestStarts, RequestFails,
     RequestAbandoned

(* A turn's span opens while events come.                                  *)
LEMMA TurnSpan ==
  ASSUME IInv, IInv', [Next]_vars, NEW t \in Turns
  PROVE  span'[t] = span[t] \/ SpanOpens(t) \/ SpanEnds(t)
<1>0. /\ span[t] \in {"none", "open", "ended", "twice"} /\ span[t] # "twice"
      /\ span'[t] # "twice" /\ (span[t] # "none" => start[t] = "settled")
      /\ t \notin Generations
  BY Types, Kinds DEF IInv, SpansRight
<1>1. CASE TurnStarts(t)
  BY <1>0, <1>1 DEF TurnStarts, Live, SpanOpens
<1>2. CASE TurnCloses(t) \/ TurnLeft(t)
  BY <1>0, <1>2 DEF TurnCloses, TurnLeft, SpanClosed, SpanEnds
<1>. QED
  BY <1>1, <1>2, TurnMove DEF TurnKept, TurnBegins, TurnComesToEnd, TurnAwaits

(* A tool's span opens while the prompt has not forgotten its tools.       *)
LEMMA ToolSpan ==
  ASSUME IInv, IInv', [Next]_vars, NEW k \in Tools
  PROVE  span'[k] = span[k] \/ SpanOpens(k) \/ SpanEnds(k)
<1>0. /\ span[k] \in {"none", "open", "ended", "twice"} /\ span[k] # "twice"
      /\ span'[k] # "twice" /\ (span[k] # "none" => start[k] = "settled")
      /\ stage = "done" => activeTools = {}
      /\ k \notin Generations
  BY Types, Kinds DEF IInv, SpansRight, ToolsTracked
<1>1. CASE ToolStarts(k)
  BY <1>0, <1>1 DEF ToolStarts, SpanOpens
<1>2. CASE ToolEnds(k)
  BY <1>0, <1>2 DEF ToolEnds, SpanClosed, SpanEnds
<1>. QED
  BY <1>1, <1>2, ToolMove DEF ToolKept, ToolSeen, ToolScoreSent

(* The root ends once, as what it has decided to say.                      *)
LEMMA RootMoves ==
  ASSUME IInv, [Next]_vars
  PROVE  /\ stage' = stage => RootState' = RootState
         /\ \/ RootState' = RootState
            \/ RootState = "open" /\ RootState' \in {"clean", "cut"}
<1>1. stage = "done" => saysAbandoned' = saysAbandoned
  <2>1. CASE UNCHANGED promptVars
    BY <2>1 DEF promptVars, finalVars
  <2>2. CASE FinalStep
    BY <2>2 DEF FinalStep, Finalize, Live, FinalizerTools, FinalizerTurn, FinalizerScores,
       RootEnds, finalVars
  <2>. QED
    BY <2>1, <2>2, Steps DEF finalVars
<1>2. stage = "done" => stage' = "done"
  BY StageMove DEF StageKept, FinalizingStarts, TurnsFollow, NextTurnFollows, ScoresFollow,
     RootFollows
<1>. QED
  BY <1>1, <1>2 DEF RootState

(* Each step is one of the tree's, or shows nothing of it.                 *)
LEMMA TreeStep ==
  ASSUME IInv, IInv', TurnsCloseOver', AbandonmentReported', [Next]_vars
  PROVE  [Tree!Next]_Tree!vars
<1>1. Tree!Loses
  <2>1. abandoned \subseteq abandoned'
    BY AbandonedGrows
  <2>2. RootState' = "clean" => abandoned' = {}
    BY DEF RootState, AbandonmentReported
  <2>. QED
    BY <2>1, <2>2 DEF Tree!Loses
<1>2. CASE TreeStands
  <2>1. Tree!EndRoot \/ UNCHANGED <<RootState, span, turnOf>>
    BY <1>2, RootMoves DEF TreeStands, Tree!EndRoot
  <2>. QED
    BY <1>1, <2>1 DEF Tree!Next
<1>3. CASE OneAdopted
  <2>1. PICK t \in Turns, g \in Generations :
          /\ Observed(t) /\ turnOf[g] = None /\ turnOf' = [turnOf EXCEPT ![g] = t]
          /\ span' = span /\ stage' = stage
    BY <1>3 DEF OneAdopted
  <2>2. stage = "open" /\ t \notin ended /\ span[t] # "ended"
    BY <2>1 DEF Observed, Live, IInv, SpansRight
  <2>3. RootState = "open" /\ RootState' = RootState
    BY <2>1, <2>2, RootMoves DEF RootState
  <2>4. Tree!Adopt(g, t)
    BY <2>1, <2>2, <2>3 DEF Tree!Adopt
  <2>. QED
    BY <1>1, <2>4 DEF Tree!Next
<1>4. CASE OneSpanMoves /\ span' # span
  <2>1. PICK c \in Children :
          /\ span' = [span EXCEPT ![c] = span'[c]]
          /\ turnOf' = turnOf /\ stage' = stage
    BY <1>4 DEF OneSpanMoves
  <2>2. /\ span'[c] # span[c] /\ RootState' = RootState
        /\ span \in [Children -> {"none", "open", "ended", "twice"}]
    <3>1. span \in [Children -> {"none", "open", "ended", "twice"}]
      BY Types DEF IInv
    <3>2. span'[c] # span[c]
      BY <1>4, <2>1, <3>1
    <3>3. RootState' = RootState
      BY <2>1, RootMoves
    <3>. QED
      BY <3>1, <3>2, <3>3
  <2>3. c \in Tree!Observations
    BY <2>1 DEF Tree!Observations, Children
  <2>4. SpanOpens(c) \/ SpanEnds(c)
    BY <2>2, RequestSpan, TurnSpan, ToolSpan DEF Children
  <2>5. CASE SpanOpens(c)
    <3>1. RootState = "open"
      BY <2>5 DEF SpanOpens, RootState
    <3>2. ASSUME c \in Generations
          PROVE  turnOf[c] # None /\ span[turnOf[c]] # "ended"
      <4>1. turnOf[c] \in Turns /\ turnOf[c] # None /\ turnOf[c] # c /\ turnOf[c] \in Children
        BY <2>5, <3>2, Kinds DEF SpanOpens
      <4>2. span'[turnOf[c]] = span[turnOf[c]] /\ span'[c] = "open"
        BY <2>1, <2>2, <2>5, <4>1 DEF SpanOpens
      <4>. QED
        BY <2>1, <3>2, <4>1, <4>2 DEF TurnsCloseOver
    <3>3. Tree!Open(c)
      BY <2>1, <2>2, <2>5, <3>1, <3>2 DEF SpanOpens, Tree!Open
    <3>. QED
      BY <1>1, <2>3, <3>3 DEF Tree!Next
  <2>6. CASE SpanEnds(c)
    <3>1. ASSUME c \in Turns, NEW g \in Generations, turnOf[g] = c
          PROVE  span[g] # "open"
      <4>1. g # c /\ g \in Children /\ c # None
        BY <3>1, Kinds
      <4>2. span'[g] = span[g] /\ span'[c] = "ended"
        BY <2>1, <2>2, <2>6, <4>1 DEF SpanEnds
      <4>. QED
        BY <2>1, <3>1, <4>1, <4>2 DEF TurnsCloseOver
    <3>2. Tree!End(c)
      BY <2>1, <2>2, <2>6, <3>1 DEF SpanEnds, Tree!End
    <3>. QED
      BY <1>1, <2>3, <3>2 DEF Tree!Next
  <2>. QED
    BY <2>4, <2>5, <2>6
<1>5. CASE OneSpanMoves /\ span' = span
  BY <1>2, <1>5 DEF OneSpanMoves, TreeStands
<1>. QED
  BY <1>2, <1>3, <1>4, <1>5, TreeMoves

(* The observations of a prompt form a tree, whatever its handlers, its    *)
(* abandonments and the late answers of the runtime interleave: each is    *)
(* opened once below what is open and ended once, a turn after its         *)
(* requests, and a root that says nothing was given up is right.           *)
THEOREM ImplementsTree == Spec => FormsTree
<1>1. Init => Tree!Init
  <2>. SUFFICES ASSUME Init PROVE Tree!Init
    OBVIOUS
  <2>1. RootState = "open" /\ abandoned = {}
    BY DEF Init, ScopeInit, RootState
  <2>2. Children = Tree!Observations
    BY DEF Children, Tree!Observations
  <2>. QED
    BY <2>1, <2>2 DEF Init, ScopeInit, TurnInit, Tree!Init
<1>2. /\ IInv /\ IInv' /\ TurnsCloseOver' /\ AbandonmentReported' /\ [Next]_vars
      => [Tree!Next]_Tree!vars
  BY TreeStep
<1>. QED
  BY <1>1, <1>2, Invariance, TurnsEndLast, AbandonmentIsReported, PTL
  DEF Spec, FormsTree, Tree!Spec
=============================================================================
