--------------------------- MODULE RawTraceWriter ---------------------------
(***************************************************************************)
(* The raw trace writer of src/raw-trace.ts: records are queued and        *)
(* written on the next microtask, or at once when a shutdown drains the    *)
(* queue.  All records are of one file.  JavaScript runs a flush without   *)
(* a break, so a flush is one step, in which any record may fail.          *)
(***************************************************************************)
EXTENDS Naturals, Sequences, SequencesExt

CONSTANTS Records

VARIABLES appended,       \* the records handed to appendRawTrace, in order
          writeQueue,
          flushScheduled,
          microtasks,     \* flushes that wait for the current task to end
          written,        \* the records in the file
          reported        \* the records lost with a runtime error

rawVars == <<appended, writeQueue, flushScheduled, microtasks, written, reported>>

Init ==
  /\ appended = <<>> /\ writeQueue = <<>> /\ written = <<>> /\ reported = {}
  /\ flushScheduled = FALSE /\ microtasks = 0

(* scheduleFlush *)
ScheduleFlush ==
  /\ flushScheduled' = TRUE
  /\ microtasks' = IF flushScheduled THEN microtasks ELSE microtasks + 1

(* appendRawTrace.  A directory that cannot be prepared, or must not be    *)
(* written through, costs the record; records that the configuration does  *)
(* not keep never come here.                                               *)
AppendRawTrace(r) ==
  /\ r \notin ToSet(appended)
  /\ appended' = Append(appended, r)
  /\ \/ /\ writeQueue' = Append(writeQueue, r)
        /\ ScheduleFlush
        /\ UNCHANGED reported
     \/ /\ reported' = reported \cup {r}
        /\ UNCHANGED <<writeQueue, flushScheduled, microtasks>>
  /\ UNCHANGED written

(* What is left of a queue when the failing records are taken out of it,   *)
(* in the order of the queue.                                              *)
Without(failing, queue) ==
  LET kept[n \in 0..Len(queue)] ==
        IF n = 0 THEN <<>>
        ELSE IF queue[n] \in failing THEN kept[n - 1]
                                     ELSE Append(kept[n - 1], queue[n])
  IN kept[Len(queue)]

(* slip: the first failure ends the flush, and the rest is dropped *)
FlushUntilFailure(failing) ==
  /\ written' = IF failing = {} THEN written \o writeQueue ELSE written
  /\ reported' = reported \cup failing
  /\ writeQueue' = <<>>

(* flushQueuedRecords: a record that cannot be shaped within the passes    *)
(* allowed, or not be written, is reported, and the next one is tried.     *)
FlushQueue(failing) ==
  /\ written' = written \o Without(failing, writeQueue)
  /\ reported' = reported \cup failing
  /\ writeQueue' = <<>>

Microtask ==
  /\ microtasks > 0
  /\ microtasks' = microtasks - 1
  /\ flushScheduled' = FALSE
  /\ \E failing \in SUBSET ToSet(writeQueue) : FlushQueue(failing)
  /\ UNCHANGED appended

(* drainRawTraceQueue.  A microtask that is under way finds nothing then.  *)
DrainRawTraceQueue ==
  /\ flushScheduled' = FALSE
  /\ \E failing \in SUBSET ToSet(writeQueue) : FlushQueue(failing)
  /\ UNCHANGED <<appended, microtasks>>

Next ==
  \/ \E r \in Records : AppendRawTrace(r)
  \/ Microtask
  \/ DrainRawTraceQueue

-----------------------------------------------------------------------------
TypeOK ==
  /\ {appended, writeQueue, written} \subseteq Seq(Records)
  /\ reported \subseteq Records
  /\ flushScheduled \in BOOLEAN /\ microtasks \in 0..Len(appended)

(* The file holds records in the order of their events, whichever flush    *)
(* wrote them; a record is in the queue, in the file, or reported as lost; *)
(* and while one is in the queue, a flush is on its way.                   *)
RecordsInOrder ==
  /\ written \o writeQueue = Without(reported, appended)
  /\ writeQueue # <<>> => microtasks > 0
=============================================================================
