---------------------------- MODULE IdentitySalt ----------------------------
(***************************************************************************)
(* The identity salt of src/identity-salt.ts: Pi processes that share one  *)
(* config document create the salt in it at most once, under a lock file   *)
(* that nobody but its owner removes.                                      *)
(*                                                                         *)
(* A process is one call of loadOrCreateIdentitySalt; a restarted Pi is    *)
(* another process.  Each file operation is a step, any may fail, and a    *)
(* process may be killed between two of them.  The salt that p mints is p, *)
(* and so is p's lock token: both are random.                              *)
(***************************************************************************)
EXTENDS Naturals

CONSTANTS Processes,   \* calls of loadOrCreateIdentitySalt
          Documents,   \* what the config document may be at the start
          MaxEdits,    \* bound on the edits of the user
          None

VARIABLES doc,      \* the config document: [kind, salt, edits]
          lock,     \* the lock file: None, or [token |-> ...]
          temp,     \* p's temporary file: None, or what it holds
          pc,       \* the file operation that p has to do next
          seen,     \* the document as p last read it
          result    \* what p's call returned: a salt, or "failed"

saltVars == <<doc, lock, temp, pc, seen, result>>

(* A document: a JSON object, a file that is no JSON object, or no file at *)
(* all; a temporary file may be half written.  "edits" counts the user's   *)
(* edits of the other keys.                                                *)
Doc(kind, salt, edits) == [kind |-> kind, salt |-> salt, edits |-> edits]
Salts   == Processes \cup {"given"}
DocSet  == [kind : {"absent", "malformed", "object", "partial"},
            salt : Salts \cup {None, "bad"}, edits : 0..MaxEdits]
Ended   == {"done", "dead"}

(* The values of different kinds are different, and no document is half    *)
(* written at the start.                                                   *)
ASSUME SaltAssumption ==
  /\ MaxEdits \in Nat
  /\ Documents \subseteq {d \in DocSet : d.kind # "partial"}
  /\ Processes \cap {"given", "bad", "failed", None} = {}
  /\ None \notin {"given", "bad", "failed"}
  /\ None \notin DocSet \cup [token : Processes \cup {None}]

(* From the first read to the end: a Pi that is at work on the salt.       *)
Working == {"locking", "token", "reread", "opening", "filling", "renaming",
            "cleanup", "checking", "unlinking"}
(* What p has read under the lock must still be so when p replaces it.     *)
Writing == {"opening", "filling", "renaming"}

Init ==
  /\ doc \in Documents
  /\ lock = None
  /\ temp = [p \in Processes |-> None]
  /\ pc = [p \in Processes |-> "reading"]
  /\ seen = [p \in Processes |-> None]
  /\ result = [p \in Processes |-> None]

Goto(p, label) == pc' = [pc EXCEPT ![p] = label]
Outcome(p, r)  == result' = [result EXCEPT ![p] = r]

(* The call throws, and resolveIdentity fails closed.                      *)
Throws(p) == Goto(p, "done") /\ Outcome(p, "failed")

-----------------------------------------------------------------------------
(* readConfigDocument and validSaltFrom: a malformed document or salt is   *)
(* an error, never rewritten.                                              *)
Unusable(d) == d.kind = "malformed" \/ d.salt = "bad"
Salted(d)   == d.salt \in Salts

ReadDocument(p) ==
  /\ pc[p] = "reading"
  /\ seen' = [seen EXCEPT ![p] = doc]
  /\ \/ Throws(p)
     \/ ~Unusable(doc) /\ Salted(doc) /\ Goto(p, "done") /\ Outcome(p, doc.salt)
     \/ ~Unusable(doc) /\ ~Salted(doc) /\ Goto(p, "locking") /\ UNCHANGED result
  /\ UNCHANGED <<doc, lock, temp>>

(* acquireLock: an exclusive create, or a poll while another one holds it. *)
CreateLock(p) ==
  /\ pc[p] = "locking"
  /\ \/ Throws(p) /\ UNCHANGED lock
     \/ lock = None /\ lock' = [token |-> None] /\ Goto(p, "token") /\ UNCHANGED result
  /\ UNCHANGED <<doc, temp, seen>>

(* The wait is bounded; a lock that is still there is left alone.          *)
WaitExpires(p) ==
  /\ pc[p] = "locking" /\ lock # None
  /\ Throws(p)
  /\ UNCHANGED <<doc, lock, temp, seen>>

(* A token that cannot be written leaves the empty lock file behind.       *)
WriteToken(p) ==
  /\ pc[p] = "token"
  /\ \/ Throws(p) /\ UNCHANGED lock
     \/ lock' = [token |-> p] /\ Goto(p, "reread") /\ UNCHANGED result
  /\ UNCHANGED <<doc, temp, seen>>

(* slip: what was read before the lock is good enough *)
UnderLockStale(p) == seen[p]

(* The document is read again under the lock.                              *)
UnderLock(p) == doc

RereadDocument(p) ==
  /\ pc[p] = "reread"
  /\ LET locked == UnderLock(p) IN
     /\ seen' = [seen EXCEPT ![p] = locked]
     /\ \/ Outcome(p, "failed") /\ Goto(p, "checking")
        \/ /\ ~Unusable(locked) /\ Salted(locked)
           /\ Outcome(p, locked.salt) /\ Goto(p, "checking")
        \/ /\ ~Unusable(locked) /\ ~Salted(locked)
           /\ Goto(p, "opening") /\ UNCHANGED result
  /\ UNCHANGED <<doc, lock, temp>>

(* writeAtomically: a failure at any step removes the temporary file.      *)
OpenTemporary(p) ==
  /\ pc[p] = "opening"
  /\ \/ Goto(p, "cleanup") /\ UNCHANGED temp
     \/ temp' = [temp EXCEPT ![p] = Doc("partial", None, 0)] /\ Goto(p, "filling")
  /\ UNCHANGED <<doc, lock, seen, result>>

(* Write, fsync and close.  Every key that was read is kept.               *)
FillTemporary(p) ==
  /\ pc[p] = "filling"
  /\ \/ Goto(p, "cleanup") /\ UNCHANGED temp
     \/ /\ temp' = [temp EXCEPT ![p] = Doc("object", p, seen[p].edits)]
        /\ Goto(p, "renaming")
  /\ UNCHANGED <<doc, lock, seen, result>>

Publish(p) ==
  /\ pc[p] = "renaming"
  /\ \/ Goto(p, "cleanup") /\ UNCHANGED <<doc, temp, result>>
     \/ /\ doc' = temp[p]
        /\ temp' = [temp EXCEPT ![p] = None]
        /\ Outcome(p, p) /\ Goto(p, "checking")
  /\ UNCHANGED <<lock, seen>>

(* removeTemporary, which may fail too.                                    *)
RemoveTemporary(p) ==
  /\ pc[p] = "cleanup"
  /\ \/ temp' = [temp EXCEPT ![p] = None]
     \/ UNCHANGED temp
  /\ Outcome(p, "failed") /\ Goto(p, "checking")
  /\ UNCHANGED <<doc, lock, seen>>

OwnsLock(p) == lock = [token |-> p]

(* releaseLock: read the token, then remove the file.  It runs in a        *)
(* finally block, so that its own failure replaces what was returned.      *)
CheckToken(p) ==
  /\ pc[p] = "checking"
  /\ \/ Throws(p)
     \/ OwnsLock(p) /\ Goto(p, "unlinking") /\ UNCHANGED result
     \/ ~OwnsLock(p) /\ Goto(p, "done") /\ UNCHANGED result
  /\ UNCHANGED <<doc, lock, temp, seen>>

Unlink(p) ==
  /\ pc[p] = "unlinking"
  /\ \/ Throws(p) /\ UNCHANGED lock
     \/ lock # None /\ lock' = None /\ Goto(p, "done") /\ UNCHANGED result
  /\ UNCHANGED <<doc, temp, seen>>

Step(p) ==
  \/ ReadDocument(p)
  \/ CreateLock(p)
  \/ WaitExpires(p)
  \/ WriteToken(p)
  \/ RereadDocument(p)
  \/ OpenTemporary(p)
  \/ FillTemporary(p)
  \/ Publish(p)
  \/ RemoveTemporary(p)
  \/ CheckToken(p)
  \/ Unlink(p)

-----------------------------------------------------------------------------
(* The surroundings                                                        *)

Killed(p) ==
  /\ pc[p] \in Working
  /\ Goto(p, "dead")
  /\ UNCHANGED <<doc, lock, temp, seen, result>>

(* The user edits other keys, or repairs the document, but not while a     *)
(* process replaces it: nothing could keep that edit.                      *)
Edit ==
  /\ doc.edits < MaxEdits
  /\ \A p \in Processes : pc[p] \notin Writing
  /\ doc' = Doc("object", IF doc.salt = "bad" THEN None ELSE doc.salt, doc.edits + 1)
  /\ UNCHANGED <<lock, temp, pc, seen, result>>

(* The user removes a lock by hand after checking, as the error message    *)
(* asks, that no process is running.                                       *)
RemoveStaleLock ==
  /\ lock # None
  /\ \A p \in Processes : pc[p] \notin Working
  /\ lock' = None
  /\ UNCHANGED <<doc, temp, pc, seen, result>>

Next ==
  \/ \E p \in Processes : Step(p) \/ Killed(p)
  \/ Edit
  \/ RemoveStaleLock

Fairness == \A p \in Processes : WF_saltVars(Step(p))

Spec == Init /\ [][Next]_saltVars

-----------------------------------------------------------------------------
(* Properties                                                              *)

TypeOK ==
  /\ doc \in DocSet /\ doc.kind # "partial"
  /\ lock \in {None} \cup [token : Processes \cup {None}]
  /\ temp \in [Processes -> {None} \cup DocSet]
  /\ pc \in [Processes -> {"reading"} \cup Working \cup Ended]
  /\ seen \in [Processes -> {None} \cup DocSet]
  /\ result \in [Processes -> Salts \cup {None, "failed"}]

(* Every call that returns a salt returns the one salt of the document,    *)
(* which is never replaced: with two creators, with one killed at any      *)
(* point, and with a lock left behind.                                     *)
SaltAgreed == \A p \in Processes : result[p] \in Salts => doc.salt = result[p]

(* A process between its token and its release owns the lock alone.        *)
OneHolder ==
  \A p, q \in Processes :
    {pc[p], pc[q]} \subseteq {"reread", "opening", "filling", "renaming"} => p = q

(* Creating the salt loses no edit of the document's other keys: what was  *)
(* read under the lock is still current when it is replaced.               *)
EditsKept ==
  \A p \in Processes : pc[p] \in Writing => seen[p].edits = doc.edits

(* A call that created the salt leaves neither its lock nor its temporary  *)
(* file behind; a failed one may, and says so.                             *)
NothingLeftBehind ==
  \A p \in Processes :
    pc[p] = "done" /\ result[p] \in Salts => temp[p] = None /\ lock # [token |-> p]

(* The salt is safe: whole whenever the document can be read, agreed on,   *)
(* written under a lock of one owner, next to the edits of the user, and   *)
(* without leftovers.                                                      *)
SaltSafe == TypeOK /\ SaltAgreed /\ OneHolder /\ EditsKept /\ NothingLeftBehind

(* Every call has ended: in the end so, also when the process that holds   *)
(* the lock has died.                                                      *)
Returned == \A p \in Processes : pc[p] \in Ended
=============================================================================
