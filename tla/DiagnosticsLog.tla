--------------------------- MODULE DiagnosticsLog ---------------------------
(***************************************************************************)
(* The diagnostics log of src/diagnostics-log.ts and the gate before the   *)
(* notifications.  Pi processes append to one file; a full file becomes    *)
(* the older generation, and a new one begins.  Each file operation is a   *)
(* step and may fail.  A file's size is its number of lines.               *)
(***************************************************************************)
EXTENDS Naturals, Sequences, SequencesExt, FiniteSets

CONSTANTS Writers,    \* the processes
          MaxLines,   \* DIAGNOSTICS_LOG_MAX_BYTES
          MaxEntries, \* bound on the diagnostics
          Causes,     \* what diagnostics are about
          Window,     \* windowMs of the gate
          PruneAt,    \* NOTIFICATION_GATE_PRUNE_AT
          MaxClock,   \* bound on the clock
          None

VARIABLES path, older,  \* the files <path> and <path>.1: None, or an inode
          files,        \* what each inode holds
          fd,           \* the inode that a process has open
          step,         \* the file operation it has to do next
          entries,      \* diagnostics so far; a line is its number
          logged,       \* those written, in order
          raced         \* two processes have been rotating at once

VARIABLES clock, shownAt, \* the gate's memory: a function of some causes
          lastShown       \* when each cause was really shown

logVars  == <<path, older, files, fd, step, entries, logged, raced>>
gateVars == <<clock, shownAt, lastShown>>
diagVars == <<path, older, files, fd, step, entries, logged, raced,
              clock, shownAt, lastShown>>

LogInit ==
  /\ path = None /\ older = None /\ files = <<>>
  /\ fd = [w \in Writers |-> None]
  /\ step = [w \in Writers |-> "idle"]
  /\ entries = 0 /\ logged = <<>> /\ raced = FALSE

GateInit == clock = 0 /\ shownAt = << >> /\ lastShown = [c \in Causes |-> None]

Init == LogInit /\ GateInit

-----------------------------------------------------------------------------
(* appendDiagnostic                                                        *)

Goto(w, label) == step' = [step EXCEPT ![w] = label]

(* openForAppend: the file at the path, or a new one.                      *)
OpenForAppend(w) ==
  IF path # None
  THEN fd' = [fd EXCEPT ![w] = path] /\ UNCHANGED <<path, files>>
  ELSE /\ files' = Append(files, <<>>)
       /\ path' = Len(files')
       /\ fd' = [fd EXCEPT ![w] = path']

(* slip: a failure leaves the file open *)
FailsOpen(w) ==
  /\ Goto(w, "idle")
  /\ UNCHANGED <<path, older, files, fd, entries, logged, raced>>

(* The diagnostic is lost, and its log error is shown in the status.       *)
Fails(w) ==
  /\ Goto(w, "idle")
  /\ fd' = [fd EXCEPT ![w] = None]
  /\ UNCHANGED <<path, older, files, entries, logged, raced>>

Open(w) ==
  /\ step[w] = "idle" /\ entries < MaxEntries
  /\ entries' = entries + 1
  /\ OpenForAppend(w) /\ Goto(w, "sizing")
  /\ UNCHANGED <<older, logged, raced>>

Full(lines) == Len(lines) + 1 > MaxLines

Size(w) ==
  /\ step[w] = "sizing"
  /\ IF Full(files[fd[w]])
     THEN /\ fd' = [fd EXCEPT ![w] = None] /\ Goto(w, "renaming")
          /\ raced' = (raced \/ \E v \in Writers \ {w} : step[v] # "idle")
     ELSE Goto(w, "writing") /\ UNCHANGED <<fd, raced>>
  /\ UNCHANGED <<path, older, files, entries, logged>>

(* Another process may have renamed the file already, or begun a new one.  *)
Rename(w) ==
  /\ step[w] = "renaming" /\ path # None
  /\ older' = path /\ path' = None
  /\ Goto(w, "reopening")
  /\ raced' = (raced \/ \E v \in Writers \ {w} : step[v] # "idle")
  /\ UNCHANGED <<files, fd, entries, logged>>

Reopen(w) ==
  /\ step[w] = "reopening"
  /\ OpenForAppend(w) /\ Goto(w, "writing")
  /\ UNCHANGED <<older, entries, logged, raced>>

(* The line goes to the end of whatever file is open, and it is closed.    *)
Write(w) ==
  /\ step[w] = "writing"
  /\ files' = [files EXCEPT ![fd[w]] = Append(@, entries)]
  /\ logged' = Append(logged, entries)
  /\ fd' = [fd EXCEPT ![w] = None] /\ Goto(w, "idle")
  /\ UNCHANGED <<path, older, entries, raced>>

AppendDiagnostic(w) ==
  \/ Open(w)
  \/ Size(w)
  \/ Rename(w)
  \/ Reopen(w)
  \/ Write(w)
  \/ step[w] # "idle" /\ Fails(w)

-----------------------------------------------------------------------------
(* createNotificationGate                                                  *)

Remembered == {c \in DOMAIN shownAt : clock - shownAt[c] < Window}

Suppressed(c) == c \in DOMAIN shownAt /\ clock - shownAt[c] < Window

ShowDiagnostic(c) ==
  /\ ~Suppressed(c)
  /\ LET kept == IF Cardinality(DOMAIN shownAt) >= PruneAt
                 THEN Remembered ELSE DOMAIN shownAt IN
     shownAt' = [d \in kept \cup {c} |-> IF d = c THEN clock ELSE shownAt[d]]
  /\ lastShown' = [lastShown EXCEPT ![c] = clock]
  /\ UNCHANGED <<clock, logVars>>

Tick ==
  /\ clock < MaxClock /\ clock' = clock + 1
  /\ UNCHANGED <<shownAt, lastShown, logVars>>

LogStep  == (\E w \in Writers : AppendDiagnostic(w)) /\ UNCHANGED gateVars
GateStep == (\E c \in Causes : ShowDiagnostic(c)) \/ Tick

Next == LogStep \/ GateStep

-----------------------------------------------------------------------------
(* Properties                                                              *)

TypeOK ==
  /\ {path, older} \ {None} \subseteq DOMAIN files
  /\ \A w \in Writers : /\ fd[w] \in {None} \cup DOMAIN files
                        /\ fd[w] # None <=> step[w] \in {"sizing", "writing"}
  /\ entries \in 0..MaxEntries /\ raced \in BOOLEAN
  /\ DOMAIN shownAt \subseteq Causes

(* However many processes write and rotate at once, a file outgrows the    *)
(* limit by no more than a line of each other process.                     *)
LogBounded ==
  \A f \in DOMAIN files : Len(files[f]) < MaxLines + Cardinality(Writers)

(* Unless two processes met at a rotation, the two files hold the newest   *)
(* diagnostics, as many as fill one file, in the order of their writing,   *)
(* whatever step of a rotation failed.                                     *)
Lines(f) == IF f = None THEN <<>> ELSE files[f]

NewestKept ==
  ~raced => LET kept == Lines(older) \o Lines(path)
                n    == Len(logged) IN
            /\ kept = SubSeq(logged, n - Len(kept) + 1, n)
            /\ Len(kept) >= (IF n < MaxLines THEN n ELSE MaxLines)

(* A cause is shown once per window: the gate never forgets one whose      *)
(* window still runs, however it is pruned.                                *)
ShownOncePerWindow ==
  \A c \in Causes :
    lastShown[c] # None /\ clock - lastShown[c] < Window => Suppressed(c)

(* The gate stays small: past the limit, at the moment of the last         *)
(* showing, it remembered only causes whose window was still running.      *)
GateStaysSmall ==
  Cardinality(DOMAIN shownAt) > PruneAt =>
    \A c, latest \in DOMAIN shownAt : shownAt[latest] - shownAt[c] < Window

(* DiagnosticsKept: the log and the gate keep what they promise.           *)
DiagnosticsKept ==
  LogBounded /\ NewestKept /\ ShownOncePerWindow /\ GateStaysSmall
=============================================================================
