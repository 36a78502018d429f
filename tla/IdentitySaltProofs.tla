------------------------- MODULE IdentitySaltProofs -------------------------
(***************************************************************************)
(* Theorems about IdentitySalt, for any processes, documents and number of *)
(* edits.  The invariant has a part about the lock and one about what its  *)
(* holder has read and written.                                            *)
(***************************************************************************)
EXTENDS IdentitySalt, TLAPS

Before  == {"reading", "locking", "token"}
Holding == {"reread", "opening", "filling", "renaming", "cleanup", "checking",
            "unlinking"}

(* Between the writing of its token and the end of its release a process   *)
(* owns the lock; before, the lock is not its own; and a lock without a    *)
(* token is at most one process's, about to write it.                      *)
LockSound ==
  /\ \A p \in Processes : pc[p] \in Holding => OwnsLock(p)
  /\ \A p \in Processes : pc[p] \in Before => ~OwnsLock(p)
  /\ \A p \in Processes : pc[p] = "token" => lock = [token |-> None]
  /\ \A p, q \in Processes : pc[p] = "token" /\ pc[q] = "token" => p = q

(* What a process that replaces the document has read is still there, and  *)
(* has no salt.                                                            *)
ReadSound ==
  \A p \in Processes : pc[p] \in Writing => seen[p] = doc /\ doc.salt \notin Salts

(* The temporary file is there from its opening to its renaming, with the  *)
(* salt of its process at the end; and no result comes before that.        *)
TempSound ==
  /\ \A p \in Processes : pc[p] \in Before \cup {"reread", "opening"} => temp[p] = None
  /\ \A p \in Processes : pc[p] = "renaming" => temp[p] = Doc("object", p, seen[p].edits)
  /\ \A p \in Processes : pc[p] \in Before \cup Writing \cup {"reread", "cleanup"} => result[p] = None

ResultSound ==
  \A p \in Processes : result[p] \in Salts => temp[p] = None /\ doc.salt = result[p]

IInv == TypeOK /\ LockSound /\ ReadSound /\ TempSound /\ ResultSound /\ NothingLeftBehind

-----------------------------------------------------------------------------

(* Documents of the three fields are documents. *)
LEMMA DocType ==
  ASSUME NEW kind, NEW salt, NEW edits
  PROVE  /\ Doc(kind, salt, edits).kind = kind
         /\ Doc(kind, salt, edits).salt = salt
         /\ Doc(kind, salt, edits).edits = edits
         /\ kind \in {"absent", "malformed", "object", "partial"}
              /\ salt \in Salts \cup {None, "bad"} /\ edits \in 0..MaxEdits
            => Doc(kind, salt, edits) \in DocSet
BY DEF Doc, DocSet

(* No lock is None, and a token tells whose it is. *)
LEMMA Locks ==
  ASSUME NEW t \in Processes \cup {None}
  PROVE  /\ [token |-> t] # None
         /\ \A u : [token |-> t] = [token |-> u] <=> t = u
<1>1. [token |-> t] \in [token : Processes \cup {None}]
  OBVIOUS
<1>2. [token |-> t] # None
  BY <1>1, SaltAssumption
<1>3. ASSUME NEW u PROVE [token |-> t] = [token |-> u] <=> t = u
  <2>1. [token |-> t].token = t /\ [token |-> u].token = u
    OBVIOUS
  <2>. QED
    BY <2>1
<1>. QED
  BY <1>2, <1>3

LEMMA InitIInv == Init => IInv
<1>. SUFFICES ASSUME Init PROVE IInv
  OBVIOUS
<1>1. TypeOK
  BY SaltAssumption DEF Init, TypeOK
<1>2. \A p \in Processes : pc[p] = "reading" /\ temp[p] = None /\ result[p] = None
  BY DEF Init
<1>3. \A p \in Processes : ~OwnsLock(p)
  BY Locks DEF Init, OwnsLock
<1>4. \A p \in Processes : result[p] \notin Salts
  BY <1>2, SaltAssumption DEF Salts
<1>. QED
  BY <1>1, <1>2, <1>3, <1>4 DEF IInv, LockSound, ReadSound, TempSound, ResultSound,
     NothingLeftBehind, Before, Holding, Writing

(* Every file operation of p goes on from where p is, and to nowhere else. *)
LEMMA StepTypeOK ==
  ASSUME IInv, NEW p \in Processes, Step(p)
  PROVE  TypeOK'
<1>. USE SaltAssumption DEF IInv, TypeOK, Goto, Outcome, Throws, Working, Ended, Salts
<1>1. CASE ReadDocument(p)
  BY <1>1 DEF ReadDocument, Salted
<1>2. CASE CreateLock(p)
  BY <1>2 DEF CreateLock
<1>3. CASE WaitExpires(p)
  BY <1>3 DEF WaitExpires
<1>4. CASE WriteToken(p)
  BY <1>4 DEF WriteToken
<1>5. CASE RereadDocument(p)
  BY <1>5 DEF RereadDocument, UnderLock, Salted
<1>6. CASE OpenTemporary(p)
  <2>1. Doc("partial", None, 0) \in DocSet
    BY DocType
  <2>. QED
    BY <1>6, <2>1 DEF OpenTemporary
<1>7. CASE FillTemporary(p)
  <2>1. seen[p] = doc
    BY <1>7 DEF FillTemporary, ReadSound, Writing
  <2>2. seen[p].edits \in 0..MaxEdits
    BY <2>1 DEF DocSet
  <2>3. Doc("object", p, seen[p].edits) \in DocSet
    BY <2>2, DocType
  <2>. QED
    BY <1>7, <2>3 DEF FillTemporary
<1>8. CASE Publish(p)
  <2>1. temp[p] = Doc("object", p, seen[p].edits) /\ temp[p] # None
    BY <1>8 DEF Publish, TempSound, Doc, DocSet, ReadSound, Writing
  <2>2. temp[p] \in DocSet /\ temp[p].kind # "partial"
    BY <2>1, DocType
  <2>. QED
    BY <1>8, <2>2 DEF Publish
<1>9. CASE RemoveTemporary(p)
  BY <1>9 DEF RemoveTemporary
<1>10. CASE CheckToken(p)
  BY <1>10 DEF CheckToken
<1>11. CASE Unlink(p)
  BY <1>11 DEF Unlink
<1>. QED
  BY <1>1, <1>2, <1>3, <1>4, <1>5, <1>6, <1>7, <1>8, <1>9, <1>10, <1>11 DEF Step

(* What a step of p leaves alone: the rows of the other processes. *)
LEMMA StepFrame ==
  ASSUME IInv, NEW p \in Processes, Step(p), NEW q \in Processes, q # p
  PROVE  pc'[q] = pc[q] /\ temp'[q] = temp[q] /\ seen'[q] = seen[q]
           /\ result'[q] = result[q]
BY DEF IInv, TypeOK, Step, Goto, Outcome, Throws, ReadDocument, CreateLock, WaitExpires,
   WriteToken, RereadDocument, OpenTemporary, FillTemporary, Publish, RemoveTemporary,
   CheckToken, Unlink

(* The lock passes from one owner to no one, and from no one to the next:  *)
(* only who finds no lock creates one, and only its owner removes it.      *)
LEMMA StepLockSound ==
  ASSUME IInv, NEW p \in Processes, Step(p)
  PROVE  LockSound'
<1>0. pc' = [pc EXCEPT ![p] = pc'[p]] /\ pc \in [Processes -> {"reading"} \cup Working \cup Ended]
  BY DEF IInv, TypeOK, Step, Goto, Throws, ReadDocument, CreateLock, WaitExpires,
     WriteToken, RereadDocument, OpenTemporary, FillTemporary, Publish, RemoveTemporary,
     CheckToken, Unlink
<1>. USE <1>0 DEF IInv, LockSound, OwnsLock, Before, Holding
<1>1. CASE CreateLock(p) /\ lock # lock'
  <2>1. lock = None /\ lock' = [token |-> None] /\ pc'[p] = "token"
    BY <1>1 DEF CreateLock, Goto, Throws
  <2>2. \A q \in Processes : pc[q] \notin Holding /\ pc[q] # "token"
    BY <2>1, Locks
  <2>3. \A q \in Processes : lock' # [token |-> q]
    BY <2>1, Locks, SaltAssumption
  <2>. QED
    BY <2>1, <2>2, <2>3
<1>2. CASE WriteToken(p) /\ lock # lock'
  <2>1. lock = [token |-> None] /\ lock' = [token |-> p] /\ pc[p] = "token" /\ pc'[p] = "reread"
    BY <1>2 DEF WriteToken, Goto, Throws
  <2>2. \A q \in Processes : pc[q] \notin Holding
    BY <2>1, Locks, SaltAssumption
  <2>3. \A q \in Processes : q # p => lock' # [token |-> q] /\ pc[q] # "token"
    BY <2>1, Locks
  <2>. QED
    BY <2>1, <2>2, <2>3
<1>3. CASE Unlink(p) /\ lock # lock'
  <2>1. lock = [token |-> p] /\ lock' = None /\ pc'[p] = "done"
    BY <1>3 DEF Unlink, Goto, Throws
  <2>2. \A q \in Processes : q # p => pc[q] \notin Holding /\ pc[q] # "token"
    BY <2>1, Locks, SaltAssumption
  <2>. QED
    BY <2>1, <2>2, Locks
<1>4. CASE lock' = lock
  <2>1. \/ pc'[p] \in Holding /\ pc[p] \in Holding
        \/ pc'[p] = "locking" /\ pc[p] = "reading"
        \/ pc'[p] \in Ended
        \/ lock' # lock
    BY Locks DEF Step, Goto, Throws, Ended, ReadDocument, CreateLock, WaitExpires,
       WriteToken, RereadDocument, OpenTemporary, FillTemporary, Publish, RemoveTemporary,
       CheckToken, Unlink
  <2>. QED
    BY <1>4, <2>1 DEF Ended
<1>. QED
  BY <1>1, <1>2, <1>3, <1>4 DEF Step, ReadDocument, WaitExpires, RereadDocument,
     OpenTemporary, FillTemporary, Publish, RemoveTemporary, CheckToken

(* Who owns the lock is alone with the document. *)
LEMMA Alone ==
  ASSUME LockSound, NEW p \in Processes, NEW q \in Processes,
         pc[p] \in Holding, pc[q] \in Holding
  PROVE  p = q
BY Locks DEF LockSound, OwnsLock

(* What p does to the document, to its own row, and what it finds there. *)
LEMMA StepDocSound ==
  ASSUME IInv, NEW p \in Processes, Step(p)
  PROVE  ReadSound' /\ TempSound' /\ ResultSound' /\ NothingLeftBehind'
<1>. USE SaltAssumption DEF IInv
<1>1. /\ pc'[p] \in Writing => seen'[p] = doc' /\ doc'.salt \notin Salts
      /\ pc'[p] \in Before \cup {"reread", "opening"} => temp'[p] = None
      /\ pc'[p] = "renaming" => temp'[p] = Doc("object", p, seen'[p].edits)
      /\ pc'[p] \in Before \cup Writing \cup {"reread", "cleanup"} => result'[p] = None
      /\ result'[p] \in Salts => temp'[p] = None /\ doc'.salt = result'[p]
      /\ pc'[p] = "done" /\ result'[p] \in Salts => lock' # [token |-> p]
  <2>. USE DEF TypeOK, Goto, Outcome, Throws, Salts, ReadSound, TempSound, ResultSound,
               LockSound, NothingLeftBehind, Writing, Before, Holding, OwnsLock
  <2>1. CASE ReadDocument(p)
    BY <2>1 DEF ReadDocument, Salted
  <2>2. CASE CreateLock(p)
    BY <2>2 DEF CreateLock
  <2>3. CASE WaitExpires(p)
    BY <2>3 DEF WaitExpires
  <2>4. CASE WriteToken(p)
    BY <2>4 DEF WriteToken
  <2>5. CASE RereadDocument(p)
    BY <2>5 DEF RereadDocument, UnderLock, Salted
  <2>6. CASE OpenTemporary(p)
    BY <2>6 DEF OpenTemporary
  <2>7. CASE FillTemporary(p)
    BY <2>7 DEF FillTemporary
  <2>8. CASE Publish(p)
    BY <2>8, DocType DEF Publish
  <2>9. CASE RemoveTemporary(p)
    BY <2>9 DEF RemoveTemporary
  <2>10. CASE CheckToken(p)
    BY <2>10 DEF CheckToken
  <2>11. CASE Unlink(p)
    BY <2>11, Locks DEF Unlink
  <2>. QED
    BY <2>1, <2>2, <2>3, <2>4, <2>5, <2>6, <2>7, <2>8, <2>9, <2>10, <2>11 DEF Step
<1>2. ASSUME NEW q \in Processes, q # p
      PROVE  /\ pc[q] \in Writing => doc' = doc
             /\ result[q] \in Salts => doc' = doc
             /\ lock' = [token |-> q] => lock = [token |-> q]
  <2>1. CASE Publish(p)
    <3>1. pc[p] \in Writing /\ pc[p] \in Holding /\ lock' = lock
      BY <2>1 DEF Publish, Writing, Holding
    <3>2. pc[q] \notin Writing
      BY <3>1, <1>2, Alone DEF Writing, Holding
    <3>3. result[q] \notin Salts
      BY <3>1 DEF ReadSound, ResultSound
    <3>. QED
      BY <3>1, <3>2, <3>3
  <2>2. CASE ~Publish(p)
    <3>1. doc' = doc
      BY <2>2 DEF Step, ReadDocument, CreateLock, WaitExpires, WriteToken, RereadDocument,
         OpenTemporary, FillTemporary, RemoveTemporary, CheckToken, Unlink
    <3>2. lock' \in {lock, None, [token |-> None], [token |-> p]}
      BY <2>2 DEF Step, ReadDocument, CreateLock, WaitExpires, WriteToken, RereadDocument,
         OpenTemporary, FillTemporary, RemoveTemporary, CheckToken, Unlink
    <3>. QED
      BY <3>1, <3>2, <1>2, Locks
  <2>. QED
    BY <2>1, <2>2
<1>3. ASSUME NEW q \in Processes, q # p
      PROVE  pc'[q] = pc[q] /\ temp'[q] = temp[q] /\ seen'[q] = seen[q]
               /\ result'[q] = result[q]
  BY <1>3, StepFrame
<1>4. ReadSound'
  BY <1>1, <1>2, <1>3 DEF ReadSound
<1>5. TempSound'
  BY <1>1, <1>3 DEF TempSound
<1>6. ResultSound'
  BY <1>1, <1>2, <1>3 DEF ResultSound
<1>7. NothingLeftBehind'
  BY <1>1, <1>2, <1>3, <1>6 DEF NothingLeftBehind, ResultSound
<1>. QED
  BY <1>4, <1>5, <1>6, <1>7

(* A killed process stays as it is; the user touches neither the salt nor  *)
(* the document that a process replaces, nor the lock of one that runs.    *)
LEMMA SurroundingsIInv ==
  ASSUME IInv,
         (\E p \in Processes : Killed(p)) \/ Edit \/ RemoveStaleLock
  PROVE  IInv'
<1>. USE SaltAssumption DEF IInv
<1>1. ASSUME NEW p \in Processes, Killed(p) PROVE IInv'
  <2>1. /\ pc' = [pc EXCEPT ![p] = "dead"]
        /\ doc' = doc /\ lock' = lock /\ temp' = temp /\ seen' = seen /\ result' = result
    BY <1>1 DEF Killed, Goto
  <2>2. TypeOK'
    BY <2>1 DEF TypeOK, Ended
  <2>3. \A q \in Processes : pc'[q] = pc[q] \/ pc'[q] = "dead"
    BY <2>1 DEF TypeOK
  <2>. QED
    BY <2>1, <2>2, <2>3 DEF LockSound, ReadSound, TempSound, ResultSound, NothingLeftBehind,
       OwnsLock, Before, Holding, Writing
<1>2. CASE Edit
  <2>. DEFINE salt == IF doc.salt = "bad" THEN None ELSE doc.salt
  <2>1. /\ doc' = Doc("object", salt, doc.edits + 1) /\ doc.edits < MaxEdits
        /\ \A p \in Processes : pc[p] \notin Writing
        /\ lock' = lock /\ temp' = temp /\ pc' = pc /\ seen' = seen /\ result' = result
    BY <1>2 DEF Edit
  <2>2. doc \in DocSet /\ doc.edits \in 0..MaxEdits /\ salt \in Salts \cup {None, "bad"}
    BY DEF TypeOK, DocSet
  <2>3. doc' \in DocSet /\ doc'.kind = "object" /\ doc'.salt = salt
    BY <2>1, <2>2, DocType
  <2>4. TypeOK'
    BY <2>1, <2>3 DEF TypeOK
  <2>5. \A p \in Processes : result[p] \in Salts => doc.salt = result[p] /\ salt = doc.salt
    BY DEF ResultSound, Salts
  <2>. QED
    BY <2>1, <2>3, <2>4, <2>5 DEF LockSound, ReadSound, TempSound, ResultSound,
       NothingLeftBehind, OwnsLock, Before, Holding, Writing
<1>3. CASE RemoveStaleLock
  <2>1. /\ lock' = None /\ \A p \in Processes : pc[p] \notin Working
        /\ doc' = doc /\ temp' = temp /\ pc' = pc /\ seen' = seen /\ result' = result
    BY <1>3 DEF RemoveStaleLock
  <2>2. TypeOK'
    BY <2>1 DEF TypeOK
  <2>3. LockSound'
    BY <2>1, Locks DEF LockSound, OwnsLock, Before, Holding, Working
  <2>. QED
    BY <2>1, <2>2, <2>3, Locks DEF ReadSound, TempSound, ResultSound, NothingLeftBehind
<1>. QED
  BY <1>1, <1>2, <1>3

LEMMA StutterIInv ==
  ASSUME IInv, UNCHANGED saltVars
  PROVE  IInv'
BY DEF IInv, saltVars, TypeOK, LockSound, ReadSound, TempSound, ResultSound,
   NothingLeftBehind, OwnsLock

LEMMA NextIInv == IInv /\ [Next]_saltVars => IInv'
<1>. SUFFICES ASSUME IInv, [Next]_saltVars PROVE IInv'
  OBVIOUS
<1>1. ASSUME NEW p \in Processes, Step(p) PROVE IInv'
  BY <1>1, StepTypeOK, StepLockSound, StepDocSound DEF IInv
<1>. QED
  BY <1>1, SurroundingsIInv, StutterIInv DEF Next

LEMMA IInvSafe == IInv => SaltSafe
<1>. SUFFICES ASSUME IInv PROVE SaltSafe
  OBVIOUS
<1>1. SaltAgreed
  BY DEF IInv, ResultSound, SaltAgreed
<1>2. OneHolder
  BY Alone DEF IInv, OneHolder, Holding
<1>3. EditsKept
  BY DEF IInv, ReadSound, EditsKept
<1>. QED
  BY <1>1, <1>2, <1>3 DEF IInv, SaltSafe

(* The conjunction IInv on which the two theorems below rest is an         *)
(* invariant.                                                              *)
THEOREM Invariant == Spec => []IInv
BY InitIInv, NextIInv, PTL DEF Spec

(* Every variable keeps its type.                                          *)
THEOREM TypeCorrect == Spec => []TypeOK
<1>1. IInv => TypeOK
  BY DEF IInv
<1>. QED
  BY <1>1, Invariant, PTL

(* All calls of loadOrCreateIdentitySalt that return a salt return the     *)
(* same one, one process at a time is in the critical section, and the     *)
(* user's edits are kept (identity-salt.ts:219-253).                       *)
THEOREM OneSalt == Spec => []SaltSafe
BY Invariant, IInvSafe, PTL
=============================================================================
