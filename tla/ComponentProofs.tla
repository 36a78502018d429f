-------------------------- MODULE ComponentProofs --------------------------
(***************************************************************************)
(* Proofs about the parts in Components, for every value of the constants. *)
(***************************************************************************)
EXTENDS Components, SequenceLemmas, SequenceTheorems

-----------------------------------------------------------------------------
(* The raw trace                                                           *)

Without(F, q) == RawTrace!Without(F, q)

(* What is kept of a queue, record by record.                              *)
KeepsOf(k, q, F, S) ==
  /\ k \in [0..Len(q) -> Seq(S)] /\ k[0] = <<>>
  /\ \A n \in 1..Len(q) :
       k[n] = IF q[n] \in F THEN k[n - 1] ELSE Append(k[n - 1], q[n])

(* What a flush keeps, computed record by record as its loop does: the     *)
(* records of q that do not fail.                                          *)
LEMMA KeptSteps ==
  ASSUME NEW S, NEW q \in Seq(S), NEW F
  PROVE  \E k : KeepsOf(k, q, F, S) /\ Without(F, q) = k[Len(q)]
<1>. DEFINE N       == Len(q)
            G(n, v) == IF q[n] \in F THEN v ELSE Append(v, q[n])
            Body(k) == [n \in 0..N |-> IF n = 0 THEN <<>> ELSE G(n, k[n - 1])]
<1>1. N \in Nat /\ <<>> \in Seq(S) /\ \A n \in 1..N, v \in Seq(S) : G(n, v) \in Seq(S)
  OBVIOUS
<1>2. PICK k : k = CHOOSE h : h = Body(h)
  OBVIOUS
<1>3. Without(F, q) = k[N]
  BY <1>2 DEF Without, RawTrace!Without
<1>4. SUFFICES /\ k \in [0..N -> Seq(S)] /\ k[0] = <<>>
               /\ \A n \in 1..N : k[n] = G(n, k[n - 1])
  BY <1>3 DEF KeepsOf
<1>. HIDE DEF N, G
<1>5. PICK f \in [0..N -> Seq(S)] : f[0] = <<>> /\ \A n \in 1..N : f[n] = G(n, f[n - 1])
  <2>1. PICK g : g = [x \in (1..N) \X Seq(S) |-> G(x[1], x[2])]
    OBVIOUS
  <2>2. g \in [(1..N) \X Seq(S) -> Seq(S)] /\ \A n \in 1..N, v \in Seq(S) : g[<<n, v>>] = G(n, v)
    BY <1>1, <2>1
  <2>3. PICK f : Unrolls(f, N, Seq(S), <<>>, g)
    <3>1. IsStep(g, N, Seq(S))
      BY <2>2 DEF IsStep
    <3>. QED
      BY <1>1, <3>1, RecursionUpTo
  <2>4. f \in [0..N -> Seq(S)] /\ \A n \in 1..N : f[n - 1] \in Seq(S)
    BY <1>1, <2>3 DEF Unrolls
  <2>. QED
    BY <2>2, <2>3, <2>4 DEF Unrolls
<1>6. f = Body(f)
  BY <1>1, <1>5
<1>7. k = Body(k)
  <2>. HIDE DEF Body
  <2>. QED
    BY <1>2, <1>6
<1>8. k[0] = <<>> /\ \A n \in 1..N : k[n] = G(n, k[n - 1])
  <2>1. k[0] = <<>>
    BY <1>1, <1>7
  <2>2. ASSUME NEW n \in 1..N PROVE k[n] = G(n, k[n - 1])
    <3>1. n \in 0..N /\ n # 0
      BY <1>1
    <3>. QED
      BY <1>7, <3>1
  <2>. QED
    BY <2>1, <2>2
<1>9. \A n \in 0..N : k[n] = f[n]
  <2>. DEFINE I == {n \in 0..N : k[n] = f[n]}
  <2>1. 0 \in I
    BY <1>1, <1>5, <1>8
  <2>2. ASSUME NEW n \in 1..N, n - 1 \in I PROVE n \in I
    BY <2>2, <1>5, <1>8
  <2>. HIDE DEF I
  <2>3. 0..N \subseteq I
    BY <1>1, <2>1, <2>2, InductionUpTo
  <2>. QED
    BY <2>3 DEF I
<1>10. k \in [0..N -> Seq(S)]
  <2>1. k = [n \in 0..N |-> k[n]]
    BY <1>7
  <2>. QED
    BY <1>5, <1>9, <2>1
<1>. QED
  BY <1>8, <1>10

(* It begins with nothing and grows with the queue.                        *)
LEMMA WithoutNothing == \A F : Without(F, <<>>) = <<>>
<1>1. ASSUME NEW F PROVE Without(F, <<>>) = <<>>
  <2>1. PICK q : q = <<>>
    OBVIOUS
  <2>2. q \in Seq(Nat) /\ Len(q) = 0
    BY <2>1
  <2>3. PICK k : KeepsOf(k, q, F, Nat) /\ Without(F, q) = k[Len(q)]
    BY <2>2, KeptSteps
  <2>. QED
    BY <2>1, <2>2, <2>3 DEF KeepsOf
<1>. QED
  BY <1>1

GrowsBy(t, q, e) == t = Append(q, e)

(* One more queued record: the flush keeps it unless it fails.             *)
LEMMA WithoutNext ==
  ASSUME NEW S, NEW F, NEW q \in Seq(S), NEW e \in S, NEW t, GrowsBy(t, q, e)
  PROVE  /\ Without(F, q) \in Seq(S)
         /\ e \in F => Without(F, t) = Without(F, q)
         /\ e \notin F => Without(F, t) = Append(Without(F, q), e)
<1>1. /\ t \in Seq(S) /\ Len(t) = Len(q) + 1 /\ t[Len(t)] = e
      /\ \A n \in 1..Len(q) : t[n] = q[n]
  BY DEF GrowsBy
<1>2. PICK k : KeepsOf(k, q, F, S) /\ Without(F, q) = k[Len(q)]
  BY KeptSteps
<1>3. PICK h : KeepsOf(h, t, F, S) /\ Without(F, t) = h[Len(t)]
  BY <1>1, KeptSteps
<1>4. Len(q) \in Nat
  OBVIOUS
<1>5. h[Len(q)] = k[Len(q)]
  <2>. DEFINE I == {n \in 0..Len(q) : h[n] = k[n]}
  <2>1. 0 \in I
    BY <1>2, <1>3, <1>4 DEF KeepsOf
  <2>2. ASSUME NEW n \in 1..Len(q), n - 1 \in I PROVE n \in I
    <3>1. n \in 1..Len(t) /\ t[n] = q[n] /\ h[n - 1] = k[n - 1]
      BY <1>1, <1>4, <2>2
    <3>. QED
      BY <3>1, <1>2, <1>3 DEF KeepsOf
  <2>. HIDE DEF I
  <2>3. 0..Len(q) \subseteq I
    BY <1>4, <2>1, <2>2, InductionUpTo
  <2>. QED
    BY <1>4, <2>3 DEF I
<1>6. h[Len(t)] = IF e \in F THEN h[Len(q)] ELSE Append(h[Len(q)], e)
  <2>1. Len(t) \in 1..Len(t) /\ Len(t) - 1 = Len(q)
    BY <1>1, <1>4
  <2>. QED
    BY <2>1, <1>1, <1>3 DEF KeepsOf
<1>7. k[Len(q)] \in Seq(S)
  BY <1>2, <1>4 DEF KeepsOf
<1>. QED
  BY <1>2, <1>3, <1>5, <1>6, <1>7

(* The elements of a sequence that grows.                                  *)
LEMMA ToSetAppended ==
  /\ ToSet(<<>>) = {}
  /\ \A S : \A q \in Seq(S), e \in S : ToSet(Append(q, e)) = ToSet(q) \cup {e}
  /\ \A S : \A p, q \in Seq(S) : ToSet(p \o q) = ToSet(p) \cup ToSet(q)
<1>1. ToSet(<<>>) = {}
  BY DEF ToSet
<1>2. ASSUME NEW S, NEW q \in Seq(S), NEW e \in S
      PROVE  ToSet(Append(q, e)) = ToSet(q) \cup {e}
  <2>1. PICK t : t = Append(q, e)
    OBVIOUS
  <2>2. DOMAIN t = 1..(Len(q) + 1) /\ DOMAIN q = 1..Len(q) /\ Len(q) \in Nat
    BY <2>1
  <2>3. t[Len(q) + 1] = e /\ \A i \in 1..Len(q) : t[i] = q[i]
    BY <2>1
  <2>. QED
    BY <2>1, <2>2, <2>3 DEF ToSet
<1>3. ASSUME NEW S, NEW p \in Seq(S), NEW q \in Seq(S)
      PROVE  ToSet(p \o q) = ToSet(p) \cup ToSet(q)
  <2>1. PICK t : t = p \o q
    OBVIOUS
  <2>2. /\ DOMAIN t = 1..(Len(p) + Len(q)) /\ DOMAIN q = 1..Len(q)
        /\ DOMAIN p = 1..Len(p) /\ Len(q) \in Nat /\ Len(p) \in Nat
    BY <2>1
  <2>3. /\ \A i \in 1..Len(p) : t[i] = p[i]
        /\ \A i \in 1..Len(q) : t[Len(p) + i] = q[i]
    BY <2>1
  <2>4. \A i \in DOMAIN t : t[i] \in ToSet(p) \cup ToSet(q)
    <3>1. ASSUME NEW i \in DOMAIN t, i > Len(p) PROVE t[i] \in ToSet(q)
      <4>1. i - Len(p) \in 1..Len(q) /\ t[i] = q[i - Len(p)]
        BY <3>1, <2>2, <2>3
      <4>. QED
        BY <4>1, <2>2 DEF ToSet
    <3>2. ASSUME NEW i \in DOMAIN t, i <= Len(p) PROVE t[i] \in ToSet(p)
      BY <3>2, <2>2, <2>3 DEF ToSet
    <3>. QED
      BY <2>2, <3>1, <3>2
  <2>5. \A i \in DOMAIN p : p[i] \in ToSet(t)
    BY <2>2, <2>3 DEF ToSet
  <2>6. \A i \in DOMAIN q : q[i] \in ToSet(t)
    <3>1. \A i \in DOMAIN q : Len(p) + i \in DOMAIN t
      BY <2>2
    <3>. QED
      BY <3>1, <2>2, <2>3 DEF ToSet
  <2>7. ToSet(t) = ToSet(p) \cup ToSet(q)
    BY <2>4, <2>5, <2>6 DEF ToSet
  <2>. QED
    BY <2>1, <2>7
<1>. QED
  BY <1>1, <1>2, <1>3

(* The elements that are kept.                                             *)
LEMMA WithoutElements ==
  ASSUME NEW S, NEW F, NEW q \in Seq(S)
  PROVE  /\ Without(F, q) \in Seq(S)
         /\ ToSet(Without(F, q)) = ToSet(q) \ F
         /\ ToSet(q) \cap F = {} => Without(F, q) = q
<1>. DEFINE Right(t) == /\ Without(F, t) \in Seq(S)
                        /\ ToSet(Without(F, t)) = ToSet(t) \ F
                        /\ ToSet(t) \cap F = {} => Without(F, t) = t
            I == {t \in Seq(S) : Right(t)}
<1>1. <<>> \in I
  <2>1. PICK u : u = <<>>
    OBVIOUS
  <2>2. u \in Seq(S) /\ Without(F, u) = u /\ ToSet(u) = {}
    BY <2>1, WithoutNothing, ToSetAppended
  <2>. QED
    BY <2>1, <2>2
<1>2. ASSUME NEW t \in Seq(S), NEW e \in S, t \in I PROVE Append(t, e) \in I
  <2>1. PICK u : u = Append(t, e)
    OBVIOUS
  <2>2. GrowsBy(u, t, e)
    BY <2>1 DEF GrowsBy
  <2>3. u \in Seq(S) /\ ToSet(u) = ToSet(t) \cup {e}
    BY <2>1, ToSetAppended
  <2>4. /\ Without(F, t) \in Seq(S)
        /\ e \in F => Without(F, u) = Without(F, t)
        /\ e \notin F => Without(F, u) = Append(Without(F, t), e)
    BY <2>2, WithoutNext
  <2>5. CASE e \in F
    <3>1. Right(u)
      BY <1>2, <2>3, <2>4, <2>5
    <3>. QED
      BY <2>1, <2>3, <3>1
  <2>6. CASE e \notin F
    <3>1. PICK v : v = Append(Without(F, t), e)
      OBVIOUS
    <3>2. v \in Seq(S) /\ ToSet(v) = ToSet(Without(F, t)) \cup {e}
      BY <2>4, <3>1, ToSetAppended
    <3>3. ToSet(u) \cap F = {} => v = u
      BY <1>2, <2>1, <2>3, <3>1
    <3>4. Right(u)
      BY <1>2, <2>3, <2>4, <2>6, <3>1, <3>2, <3>3
    <3>. QED
      BY <2>1, <2>3, <3>4
  <2>. QED
    BY <2>5, <2>6
<1>. HIDE DEF I
<1>3. q \in I
  BY <1>1, <1>2, InductionOnSequences
<1>. QED
  BY <1>3 DEF I

(* Two queues, one after the other, and two sets taken out of one queue.   *)
JoinOf(t, p, q) == t = p \o q

(* The records of two queues, one after the other.                         *)
LEMMA ToSetJoined ==
  ASSUME NEW S, NEW p \in Seq(S), NEW q \in Seq(S), NEW j, JoinOf(j, p, q)
  PROVE  j \in Seq(S) /\ ToSet(j) = ToSet(p) \cup ToSet(q)
  BY ToSetAppended DEF JoinOf

(* A flush of two queues, one after the other, keeps what a flush of each  *)
(* keeps.                                                                  *)
LEMMA WithoutJoined ==
  ASSUME NEW S, NEW F, NEW p \in Seq(S), NEW q \in Seq(S), NEW j, JoinOf(j, p, q)
  PROVE  Without(F, j) = Without(F, p) \o Without(F, q)
<1>. DEFINE I == {t \in Seq(S) : Without(F, p \o t) = Without(F, p) \o Without(F, t)}
<1>1. <<>> \in I
  <2>1. p \o <<>> = p /\ Without(F, <<>>) = <<>> /\ Without(F, p) \in Seq(S)
    BY WithoutNothing, WithoutElements
  <2>2. Without(F, p) \o <<>> = Without(F, p)
    BY <2>1
  <2>. QED
    BY <2>1, <2>2
<1>2. ASSUME NEW t \in Seq(S), NEW e \in S, t \in I PROVE Append(t, e) \in I
  <2>1. PICK u, v, w : u = Append(t, e) /\ v = p \o t /\ w = Append(v, e)
    OBVIOUS
  <2>2. GrowsBy(u, t, e) /\ GrowsBy(w, v, e)
    BY <2>1 DEF GrowsBy
  <2>3. u \in Seq(S) /\ v \in Seq(S) /\ p \o u = w
    BY <2>1
  <2>4. /\ Without(F, t) \in Seq(S)
        /\ e \in F => Without(F, u) = Without(F, t)
        /\ e \notin F => Without(F, u) = Append(Without(F, t), e)
    BY <2>2, WithoutNext
  <2>5. /\ e \in F => Without(F, w) = Without(F, v)
        /\ e \notin F => Without(F, w) = Append(Without(F, v), e)
    BY <2>2, <2>3, WithoutNext
  <2>6. Without(F, p) \in Seq(S) /\ Without(F, v) = Without(F, p) \o Without(F, t)
    BY <1>2, <2>1, WithoutElements
  <2>7. Without(F, p) \o Append(Without(F, t), e) = Append(Without(F, p) \o Without(F, t), e)
    BY <2>4, <2>6
  <2>8. Without(F, p \o u) = Without(F, p) \o Without(F, u)
    BY <2>3, <2>4, <2>5, <2>6, <2>7
  <2>. QED
    BY <2>1, <2>3, <2>8
<1>. HIDE DEF I
<1>3. q \in I
  BY <1>1, <1>2, InductionOnSequences
<1>. QED
  BY <1>3 DEF I, JoinOf

(* Records that fail in one flush or in the next are gone after both.      *)
LEMMA WithoutBoth ==
  ASSUME NEW S, NEW F, NEW G, NEW q \in Seq(S)
  PROVE  Without(F \cup G, q) = Without(G, Without(F, q))
<1>. DEFINE I == {t \in Seq(S) : Without(F \cup G, t) = Without(G, Without(F, t))}
<1>1. <<>> \in I
  BY WithoutNothing
<1>2. ASSUME NEW t \in Seq(S), NEW e \in S, t \in I PROVE Append(t, e) \in I
  <2>1. PICK u, v, w : u = Append(t, e) /\ v = Without(F, t) /\ w = Append(v, e)
    OBVIOUS
  <2>2. GrowsBy(u, t, e) /\ GrowsBy(w, v, e)
    BY <2>1 DEF GrowsBy
  <2>3. u \in Seq(S) /\ v \in Seq(S)
    BY <2>1, WithoutElements
  <2>4. /\ e \in F => Without(F, u) = v
        /\ e \notin F => Without(F, u) = w
    BY <2>2, <2>1, WithoutNext
  <2>5. /\ e \in F \cup G => Without(F \cup G, u) = Without(F \cup G, t)
        /\ e \notin F \cup G => Without(F \cup G, u) = Append(Without(F \cup G, t), e)
    BY <2>2, WithoutNext
  <2>6. /\ e \in G => Without(G, w) = Without(G, v)
        /\ e \notin G => Without(G, w) = Append(Without(G, v), e)
    BY <2>2, <2>3, WithoutNext
  <2>7. Without(F \cup G, t) = Without(G, v)
    BY <1>2, <2>1
  <2>8. Without(F \cup G, u) = Without(G, Without(F, u))
    BY <2>4, <2>5, <2>6, <2>7
  <2>. QED
    BY <2>1, <2>3, <2>8
<1>. HIDE DEF I
<1>3. q \in I
  BY <1>1, <1>2, InductionOnSequences
<1>. QED
  BY <1>3 DEF I

(* The queue and the file hold different records, all of them appended;    *)
(* what is reported was appended; and a queue that holds something is      *)
(* going to be flushed.                                                    *)
RawInv ==
  /\ appended \in Seq(Records) /\ writeQueue \in Seq(Records) /\ written \in Seq(Records)
  /\ microtasks \in Nat /\ flushScheduled \in BOOLEAN
  /\ ToSet(written) \cup ToSet(writeQueue) \cup reported \subseteq ToSet(appended)
  /\ ToSet(written) \cap ToSet(writeQueue) = {}
  /\ written \o writeQueue = Without(reported, appended)
  /\ writeQueue # <<>> => flushScheduled
  /\ flushScheduled => microtasks > 0

(* The invariant of the raw trace holds at the start.                      *)
LEMMA RawBegins == RawTrace!Init => RawInv
<1>. SUFFICES ASSUME RawTrace!Init PROVE RawInv
  OBVIOUS
<1>1. Without({}, <<>>) = <<>> /\ ToSet(<<>>) = {}
  BY WithoutNothing, ToSetAppended
<1>2. <<>> \in Seq(Records) /\ <<>> \o <<>> = <<>>
  OBVIOUS
<1>. QED
  BY <1>1, <1>2 DEF RawTrace!Init, RawInv

(* A flush takes the failing records out of the queue, and no others.      *)
LEMMA FlushKeeps ==
  ASSUME RawInv, NEW failing \in SUBSET ToSet(writeQueue), RawTrace!FlushQueue(failing),
         appended' = appended, microtasks' \in Nat, flushScheduled' = FALSE
  PROVE  RawInv'
<1>. USE DEF RawInv
<1>1. PICK kept : kept = Without(failing, writeQueue)
  OBVIOUS
<1>2. /\ written' = written \o kept /\ writeQueue' = <<>>
      /\ reported' = reported \cup failing
  BY <1>1 DEF RawTrace!FlushQueue, Without
<1>3. kept \in Seq(Records) /\ ToSet(kept) = ToSet(writeQueue) \ failing
  BY <1>1, WithoutElements
<1>4. written' \in Seq(Records) /\ ToSet(written') = ToSet(written) \cup ToSet(kept)
  BY <1>2, <1>3, ToSetAppended
<1>5. writeQueue' \in Seq(Records) /\ ToSet(writeQueue') = {} /\ written' \o writeQueue' = written'
  BY <1>2, <1>4, ToSetAppended
<1>6. written' = Without(reported', appended')
  <2>1. PICK t : JoinOf(t, written, writeQueue)
    BY DEF JoinOf
  <2>2. Without(reported', appended) = Without(failing, t)
    BY <1>2, <2>1, WithoutBoth DEF JoinOf
  <2>3. Without(failing, t) = Without(failing, written) \o kept
    <3>1. Without(failing, t) = Without(failing, written) \o Without(failing, writeQueue)
      <4>1. written \in Seq(Records) /\ writeQueue \in Seq(Records)
        OBVIOUS
      <4>. HIDE DEF RawInv
      <4>. QED
        BY <4>1, <2>1, WithoutJoined
    <3>. QED
      BY <1>1, <3>1
  <2>4. Without(failing, written) = written
    BY WithoutElements
  <2>. QED
    BY <1>2, <2>2, <2>3, <2>4
<1>7. ToSet(written') \cup ToSet(writeQueue') \cup reported' \subseteq ToSet(appended')
  BY <1>2, <1>3, <1>4, <1>5
<1>8. ToSet(written') \cap ToSet(writeQueue') = {}
  BY <1>5
<1>. QED
  BY <1>2, <1>4, <1>5, <1>6, <1>7, <1>8

(* An appended record waits at the end of the queue, and a flush is        *)
(* scheduled for it.                                                       *)
LEMMA AppendKeeps ==
  ASSUME RawInv, NEW r \in Records, RawTrace!AppendRawTrace(r)
  PROVE  RawInv'
<1>. USE DEF RawInv
<1>1. r \notin ToSet(appended) /\ appended' = Append(appended, r) /\ written' = written
  BY DEF RawTrace!AppendRawTrace, RawTrace!ToSet, ToSet
<1>2. GrowsBy(appended', appended, r)
  BY <1>1 DEF GrowsBy
<1>3. appended' \in Seq(Records) /\ ToSet(appended') = ToSet(appended) \cup {r}
  BY <1>1, ToSetAppended
<1>4. CASE /\ writeQueue' = Append(writeQueue, r) /\ RawTrace!ScheduleFlush
           /\ reported' = reported
  <2>1. /\ flushScheduled' = TRUE /\ microtasks' \in Nat /\ microtasks' > 0
    BY <1>4 DEF RawTrace!ScheduleFlush
  <2>2. writeQueue' \in Seq(Records) /\ ToSet(writeQueue') = ToSet(writeQueue) \cup {r}
    BY <1>4, ToSetAppended
  <2>3. Without(reported, appended') = Append(Without(reported, appended), r)
    BY <1>1, <1>2, WithoutNext
  <2>4. written \o Append(writeQueue, r) = Append(written \o writeQueue, r)
    OBVIOUS
  <2>5. written' \o writeQueue' = Without(reported', appended')
    BY <1>1, <1>4, <2>3, <2>4
  <2>6. ToSet(written') \cap ToSet(writeQueue') = {}
    BY <1>1, <2>2
  <2>. QED
    BY <1>1, <1>3, <1>4, <2>1, <2>2, <2>5, <2>6
<1>5. CASE /\ reported' = reported \cup {r}
           /\ UNCHANGED <<writeQueue, flushScheduled, microtasks>>
  <2>1. Without(reported', appended') = Without(reported', appended)
    BY <1>2, <1>5, WithoutNext
  <2>2. Without(reported', appended) = Without({r}, written \o writeQueue)
    BY <1>5, WithoutBoth
  <2>3. PICK t : t = written \o writeQueue /\ JoinOf(t, written, writeQueue)
    BY DEF JoinOf
  <2>4. t \in Seq(Records) /\ ToSet(t) \cap {r} = {}
    BY <1>1, <2>3, ToSetJoined
  <2>5. Without({r}, t) = t
    BY <2>4, WithoutElements
  <2>. QED
    BY <1>1, <1>3, <1>5, <2>1, <2>2, <2>3, <2>5
<1>. QED
  BY <1>4, <1>5 DEF RawTrace!AppendRawTrace

(* Every step of the raw trace keeps its invariant.                        *)
LEMMA RawGoesOn == RawInv /\ [RawTrace!Next]_rawVars => RawInv'
<1>. SUFFICES ASSUME RawInv, [RawTrace!Next]_rawVars PROVE RawInv'
  OBVIOUS
<1>1. ASSUME NEW r \in Records, RawTrace!AppendRawTrace(r) PROVE RawInv'
  BY <1>1, AppendKeeps
<1>2. CASE RawTrace!Microtask
  <2>1. PICK failing \in SUBSET ToSet(writeQueue) : RawTrace!FlushQueue(failing)
    BY <1>2 DEF RawTrace!Microtask, RawTrace!ToSet, ToSet
  <2>2. appended' = appended /\ microtasks' \in Nat /\ flushScheduled' = FALSE
    BY <1>2 DEF RawTrace!Microtask, RawInv
  <2>. QED
    BY <2>1, <2>2, FlushKeeps
<1>3. CASE RawTrace!DrainRawTraceQueue
  <2>1. PICK failing \in SUBSET ToSet(writeQueue) : RawTrace!FlushQueue(failing)
    BY <1>3 DEF RawTrace!DrainRawTraceQueue, RawTrace!ToSet, ToSet
  <2>2. appended' = appended /\ microtasks' \in Nat /\ flushScheduled' = FALSE
    BY <1>3 DEF RawTrace!DrainRawTraceQueue, RawInv
  <2>. QED
    BY <2>1, <2>2, FlushKeeps
<1>4. CASE UNCHANGED rawVars
  BY <1>4 DEF RawInv, rawVars
<1>. QED
  BY <1>1, <1>2, <1>3, <1>4 DEF RawTrace!Next

(* The invariant says that the file and the queue hold the records         *)
(* appended, without those reported, in their order.                       *)
LEMMA RawInOrder == RawInv => RawTrace!RecordsInOrder
  BY DEF RawInv, RawTrace!RecordsInOrder, Without

-----------------------------------------------------------------------------
(* The diagnostics log                                                     *)

Steps == {"idle", "sizing", "renaming", "reopening", "writing"}

LogTyped ==
  /\ files \in Seq(Seq(Nat)) /\ logged \in Seq(Nat)
  /\ path \in {Missing} \cup DOMAIN files /\ older \in {Missing} \cup DOMAIN files
  /\ path # Missing => path # older
  /\ fd \in [Writers -> {Missing} \cup DOMAIN files]
  /\ step \in [Writers -> Steps]
  /\ \A w \in Writers : fd[w] # Missing <=> step[w] \in {"sizing", "writing"}
  /\ entries \in Nat /\ raced \in BOOLEAN

(* Who may still put a line into a file, whatever its size: those past the *)
(* check, and those that come back from a rotation and find it at the      *)
(* path.                                                                   *)
Unchecked(f) == {w \in Writers : \/ fd[w] = f /\ step[w] = "writing"
                                 \/ path = f /\ step[w] = "reopening"}

FilesBounded ==
  \A f \in DOMAIN files :
    Len(files[f]) + Cardinality(Unchecked(f)) < MaxLines + Cardinality(Writers)

(* While no two processes have met at a rotation, all write to the file at *)
(* the path, and one that rotates is alone and has found it full.          *)
Rotation ==
  /\ \A w \in Writers : step[w] \in {"sizing", "writing"} => fd[w] = path
  /\ \A w \in Writers : step[w] = "renaming" =>
       /\ path # Missing => Len(files[path]) >= MaxLines
       /\ path # Missing
       /\ \A v \in Writers \ {w} : step[v] \in {"idle", "sizing"}

(* The two files are what was logged last.                                 *)
Newest(front, old, new) ==
  /\ front \in Seq(Nat) /\ old \in Seq(Nat) /\ new \in Seq(Nat)
  /\ logged = front \o (old \o new)
  /\ Len(old) + Len(new) >= MaxLines \/ front = <<>>

NewestThere ==
  \E front : Newest(front, Diagnostics!Lines(older), Diagnostics!Lines(path))

LogInv == LogTyped /\ FilesBounded /\ (~raced => Rotation /\ NewestThere)

(* The invariant of the log holds at the start.                            *)
LEMMA LogBegins == Diagnostics!LogInit => LogInv
<1>. SUFFICES ASSUME Diagnostics!LogInit PROVE LogInv
  OBVIOUS
<1>. USE DEF Diagnostics!LogInit
<1>1. LogTyped
  <2>1. files \in Seq(Seq(Nat)) /\ logged \in Seq(Nat)
    OBVIOUS
  <2>. QED
    BY <2>1 DEF LogTyped, Steps
<1>2. FilesBounded
  <2>1. DOMAIN files = {}
    OBVIOUS
  <2>. QED
    BY <2>1 DEF FilesBounded
<1>3. Rotation
  BY DEF Rotation
<1>4. NewestThere
  <2>1. Newest(<<>>, <<>>, <<>>)
    BY DEF Newest
  <2>. QED
    BY <2>1 DEF NewestThere, Diagnostics!Lines
<1>. QED
  BY <1>1, <1>2, <1>3, <1>4 DEF LogInv

(* What opening the file at the path comes to.                             *)
Opens(w) ==
  \/ /\ path # Missing /\ path' = path /\ files' = files
     /\ fd' = [fd EXCEPT ![w] = path]
  \/ /\ path = Missing /\ files' = Append(files, <<>>)
     /\ path' = Len(files) + 1 /\ fd' = [fd EXCEPT ![w] = path']

(* openForAppend creates the file if there is none, and opens the one at   *)
(* the path.                                                               *)
LEMMA OpensWhat ==
  ASSUME LogTyped, NEW w \in Writers, Diagnostics!OpenForAppend(w)
  PROVE  Opens(w)
  BY DEF LogTyped, Opens, Diagnostics!OpenForAppend

(* Opening a file keeps the types of the log, and changes no line of a     *)
(* file.                                                                   *)
LEMMA OpenedTyped ==
  ASSUME LogTyped, NEW w \in Writers, Opens(w), Missing \notin Nat, older' = older
  PROVE  /\ files' \in Seq(Seq(Nat))
         /\ path' \in {Missing} \cup DOMAIN files' /\ older' \in {Missing} \cup DOMAIN files'
         /\ path' # Missing /\ path' # older'
         /\ fd' \in [Writers -> {Missing} \cup DOMAIN files']
         /\ fd' = [fd EXCEPT ![w] = path']
<1>1. CASE path # Missing /\ path' = path /\ files' = files /\ fd' = [fd EXCEPT ![w] = path]
  BY <1>1 DEF LogTyped
<1>2. CASE /\ path = Missing /\ files' = Append(files, <<>>)
           /\ path' = Len(files) + 1 /\ fd' = [fd EXCEPT ![w] = path']
  <2>1. files' \in Seq(Seq(Nat))
    <3>1. files \in Seq(Seq(Nat)) /\ <<>> \in Seq(Nat)
      BY DEF LogTyped
    <3>. QED
      BY <3>1, <1>2
  <2>2. /\ DOMAIN files = 1..Len(files) /\ Len(files) \in Nat
        /\ DOMAIN files' = 1..(Len(files) + 1)
    BY <1>2 DEF LogTyped
  <2>3. path' \in DOMAIN files' /\ path' \notin DOMAIN files /\ path' \in Nat
    BY <1>2, <2>2
  <2>4. DOMAIN files \subseteq DOMAIN files'
    BY <2>2
  <2>. QED
    BY <1>2, <2>1, <2>3, <2>4 DEF LogTyped
<1>. QED
  BY <1>1, <1>2 DEF Opens

(* Every step of a process keeps the types of the log.                     *)
LEMMA TypedGoesOn ==
  ASSUME LogTyped, NEW w \in Writers, Diagnostics!AppendDiagnostic(w)
  PROVE  LogTyped'
<1>. USE DEF LogTyped, Steps, Diagnostics!Goto
<1>1. Missing \notin Nat
  BY DiagnosticsAssumption
<1>2. CASE Diagnostics!Open(w)
  <2>1. Opens(w) /\ step' = [step EXCEPT ![w] = "sizing"]
    BY <1>2, OpensWhat DEF Diagnostics!Open
  <2>2. entries' \in Nat /\ UNCHANGED <<older, logged, raced>>
    BY <1>2 DEF Diagnostics!Open
  <2>. QED
    BY <1>1, <2>1, <2>2, OpenedTyped
<1>3. CASE Diagnostics!Size(w)
  BY <1>1, <1>3 DEF Diagnostics!Size
<1>4. CASE Diagnostics!Rename(w)
  BY <1>1, <1>4 DEF Diagnostics!Rename
<1>5. CASE Diagnostics!Reopen(w)
  <2>1. Opens(w) /\ step' = [step EXCEPT ![w] = "writing"]
    BY <1>5, OpensWhat DEF Diagnostics!Reopen
  <2>2. UNCHANGED <<older, entries, logged, raced>>
    BY <1>5 DEF Diagnostics!Reopen
  <2>. QED
    BY <1>1, <2>1, <2>2, OpenedTyped
<1>6. CASE Diagnostics!Write(w)
  BY <1>1, <1>6 DEF Diagnostics!Write
<1>7. CASE Diagnostics!Fails(w)
  BY <1>1, <1>7 DEF Diagnostics!Fails
<1>. QED
  BY <1>2, <1>3, <1>4, <1>5, <1>6, <1>7 DEF Diagnostics!AppendDiagnostic

(* The processes that write unchecked are never more than there are        *)
(* processes.                                                              *)
LEMMA UncheckedFinite ==
  /\ Cardinality(Writers) \in Nat
  /\ \A S \in SUBSET Writers : IsFiniteSet(S) /\ Cardinality(S) \in 0..Cardinality(Writers)
  BY DiagnosticsAssumption, FS_Subset, FS_CardinalityType

(* A file keeps within its bound when it and the processes that will write *)
(* to it unchecked do not become more.                                     *)
LEMMA FileBounded ==
  ASSUME LogTyped, FilesBounded, NEW f \in DOMAIN files,
         files'[f] = files[f], Unchecked(f)' \subseteq Unchecked(f)
  PROVE  Len(files'[f]) + Cardinality(Unchecked(f)') < MaxLines + Cardinality(Writers)
<1>1. Cardinality(Unchecked(f)') <= Cardinality(Unchecked(f))
  BY UncheckedFinite, FS_Subset DEF Unchecked
<1>2. Cardinality(Unchecked(f)') \in Nat /\ Cardinality(Unchecked(f)) \in Nat
  BY UncheckedFinite DEF Unchecked
<1>3. Len(files[f]) \in Nat
  BY DEF LogTyped
<1>4. Len(files[f]) + Cardinality(Unchecked(f)) < MaxLines + Cardinality(Writers)
  BY DEF FilesBounded
<1>. QED
  BY <1>1, <1>2, <1>3, <1>4, UncheckedFinite, DiagnosticsAssumption

(* Every step of a process keeps the bound of every file.                  *)
LEMMA BoundGoesOn ==
  ASSUME LogTyped, FilesBounded, NEW w \in Writers, Diagnostics!AppendDiagnostic(w)
  PROVE  FilesBounded'
<1>. USE DEF Diagnostics!Goto
<1>. DEFINE Bound(f) == Len(files'[f]) + Cardinality(Unchecked(f)')
                          < MaxLines + Cardinality(Writers)
<1>1. /\ Missing \notin Nat /\ MaxLines \in Nat \ {0}
      /\ DOMAIN files = 1..Len(files) /\ Len(files) \in Nat
      /\ \A f \in DOMAIN files : files[f] \in Seq(Nat) /\ Len(files[f]) \in Nat
      /\ step \in [Writers -> Steps] /\ fd \in [Writers -> {Missing} \cup DOMAIN files]
  BY DiagnosticsAssumption DEF LogTyped
<1>2. SUFFICES ASSUME NEW f \in DOMAIN files' PROVE Bound(f)
  BY DEF FilesBounded
<1>3. ASSUME files'[f] = <<>> PROVE Bound(f)
  <2>1. Cardinality(Unchecked(f)') \in 0..Cardinality(Writers) /\ Cardinality(Writers) \in Nat
    BY UncheckedFinite DEF Unchecked
  <2>. QED
    BY <1>1, <1>3, <2>1
<1>4. ASSUME f \in DOMAIN files, files'[f] = files[f], Unchecked(f)' \subseteq Unchecked(f)
      PROVE  Bound(f)
  BY <1>4, FileBounded
<1>5. ASSUME Opens(w), f \in DOMAIN files
      PROVE  /\ files'[f] = files[f]
             /\ path' = f => path = f
             /\ \A v \in Writers \ {w} : fd'[v] = fd[v]
  BY <1>1, <1>5 DEF Opens
<1>6. ASSUME Opens(w), f \notin DOMAIN files PROVE files'[f] = <<>>
  BY <1>1, <1>2, <1>6 DEF Opens
<1>7. CASE Diagnostics!Open(w)
  <2>1. Opens(w) /\ step' = [step EXCEPT ![w] = "sizing"]
    BY <1>7, OpensWhat DEF Diagnostics!Open
  <2>2. ASSUME f \in DOMAIN files PROVE Unchecked(f)' \subseteq Unchecked(f)
    BY <1>1, <1>5, <2>1, <2>2 DEF Unchecked
  <2>. QED
    BY <1>3, <1>4, <1>5, <1>6, <2>1, <2>2, Zenon
<1>8. CASE Diagnostics!Size(w)
  <2>1. files' = files /\ path' = path /\ f \in DOMAIN files
    BY <1>2, <1>8 DEF Diagnostics!Size
  <2>2. CASE fd[w] = f /\ step' = [step EXCEPT ![w] = "writing"]
    <3>1. Len(files[f]) + 1 <= MaxLines
      BY <1>1, <1>8, <2>1, <2>2 DEF Diagnostics!Size, Diagnostics!Full
    <3>2. Cardinality(Unchecked(f)') \in 0..Cardinality(Writers) /\ Cardinality(Writers) \in Nat
      BY UncheckedFinite DEF Unchecked
    <3>. QED
      BY <1>1, <2>1, <3>1, <3>2
  <2>3. CASE ~(fd[w] = f /\ step' = [step EXCEPT ![w] = "writing"])
    <3>1. Unchecked(f)' \subseteq Unchecked(f)
      BY <1>1, <1>8, <2>1, <2>3 DEF Unchecked, Diagnostics!Size
    <3>. QED
      BY <1>4, <2>1, <3>1
  <2>. QED
    BY <2>2, <2>3
<1>9. CASE Diagnostics!Rename(w)
  <2>1. /\ files' = files /\ path' = Missing /\ fd' = fd /\ f \in DOMAIN files
        /\ step' = [step EXCEPT ![w] = "reopening"]
    BY <1>2, <1>9 DEF Diagnostics!Rename
  <2>2. Unchecked(f)' \subseteq Unchecked(f)
    BY <1>1, <2>1 DEF Unchecked
  <2>. QED
    BY <1>4, <2>1, <2>2
<1>10. CASE Diagnostics!Reopen(w)
  <2>1. Opens(w) /\ step' = [step EXCEPT ![w] = "writing"] /\ step[w] = "reopening"
    BY <1>10, OpensWhat DEF Diagnostics!Reopen
  <2>2. ASSUME f \in DOMAIN files PROVE Unchecked(f)' \subseteq Unchecked(f)
    BY <1>1, <1>5, <2>1, <2>2 DEF Unchecked, Opens
  <2>. QED
    BY <1>3, <1>4, <1>5, <1>6, <2>1, <2>2, Zenon
<1>11. CASE Diagnostics!Write(w)
  <2>1. /\ step[w] = "writing" /\ path' = path /\ fd' = [fd EXCEPT ![w] = Missing]
        /\ step' = [step EXCEPT ![w] = "idle"]
        /\ files' = [files EXCEPT ![fd[w]] = Append(@, entries)]
        /\ f \in DOMAIN files
    BY <1>2, <1>11 DEF Diagnostics!Write
  <2>2. Unchecked(f)' = Unchecked(f) \ {w}
    BY <1>1, <2>1 DEF Unchecked, LogTyped
  <2>3. CASE fd[w] # f
    <3>1. files'[f] = files[f]
      BY <2>1, <2>3
    <3>. QED
      BY <1>4, <2>1, <2>2, <3>1
  <2>4. CASE fd[w] = f
    <3>1. Len(files'[f]) = Len(files[f]) + 1
      BY <1>1, <2>1, <2>4 DEF LogTyped
    <3>2. w \in Unchecked(f)
      BY <2>1, <2>4 DEF Unchecked
    <3>3. IsFiniteSet(Unchecked(f)) /\ Cardinality(Unchecked(f)) \in Nat
      BY UncheckedFinite DEF Unchecked
    <3>4. Cardinality(Unchecked(f)') = Cardinality(Unchecked(f)) - 1
      BY <2>2, <3>2, <3>3, FS_RemoveElement
    <3>5. Len(files[f]) + Cardinality(Unchecked(f)) < MaxLines + Cardinality(Writers)
      BY <2>1 DEF FilesBounded
    <3>. QED
      BY <1>1, <2>1, <3>1, <3>3, <3>4, <3>5, UncheckedFinite
  <2>. QED
    BY <2>3, <2>4
<1>12. CASE Diagnostics!Fails(w)
  <2>1. files' = files /\ path' = path /\ f \in DOMAIN files
    BY <1>2, <1>12 DEF Diagnostics!Fails
  <2>2. Unchecked(f)' \subseteq Unchecked(f)
    BY <1>1, <1>12, <2>1 DEF Unchecked, Diagnostics!Fails
  <2>. QED
    BY <1>4, <2>1, <2>2
<1>. QED
  BY <1>7, <1>8, <1>9, <1>10, <1>11, <1>12 DEF Diagnostics!AppendDiagnostic

(* Every step of a process keeps what holds of a rotation while no two     *)
(* have met.                                                               *)
LEMMA RotationGoesOn ==
  ASSUME LogInv, NEW w \in Writers, Diagnostics!AppendDiagnostic(w), ~raced'
  PROVE  Rotation'
<1>. USE DEF Diagnostics!Goto
<1>1. /\ Missing \notin Nat /\ MaxLines \in Nat
      /\ DOMAIN files = 1..Len(files) /\ Len(files) \in Nat
      /\ \A f \in DOMAIN files : files[f] \in Seq(Nat) /\ Len(files[f]) \in Nat
      /\ step \in [Writers -> Steps] /\ fd \in [Writers -> {Missing} \cup DOMAIN files]
      /\ path \in {Missing} \cup DOMAIN files
      /\ \A v \in Writers : fd[v] # Missing <=> step[v] \in {"sizing", "writing"}
  BY DiagnosticsAssumption DEF LogInv, LogTyped
<1>2. ~raced /\ Rotation
  <2>1. raced \in BOOLEAN
    BY DEF LogInv, LogTyped
  <2>2. raced => raced'
    BY <2>1 DEF Diagnostics!AppendDiagnostic, Diagnostics!Open, Diagnostics!Size,
      Diagnostics!Rename, Diagnostics!Reopen, Diagnostics!Write, Diagnostics!Fails
  <2>. QED
    BY <2>2 DEF LogInv
<1>3. ASSUME NEW label \in {"sizing", "writing"}, Opens(w), step[w] \in {"idle", "reopening"},
             step' = [step EXCEPT ![w] = label],
             \A v \in Writers \ {w} : step[v] = "renaming" => label = "sizing"
      PROVE  Rotation'
  <2>1. CASE path = Missing
    <3>1. \A v \in Writers : step[v] \notin {"sizing", "writing", "renaming"}
      BY <1>1, <1>2, <2>1 DEF Rotation
    <3>2. /\ \A v \in Writers \ {w} : step'[v] = step[v]
          /\ step'[w] = label /\ fd'[w] = path'
      BY <1>1, <1>3, <2>1 DEF Opens
    <3>. QED
      BY <3>1, <3>2 DEF Rotation
  <2>2. CASE path # Missing
    <3>1. /\ \A v \in Writers \ {w} : step'[v] = step[v] /\ fd'[v] = fd[v]
          /\ step'[w] = label /\ fd'[w] = path' /\ path' = path /\ files' = files
      BY <1>1, <1>3, <2>2 DEF Opens
    <3>2. \A v \in Writers \ {w} : step[v] = "renaming" => step'[w] = "sizing"
      BY <1>3, <3>1
    <3>. QED
      BY <1>2, <1>3, <3>1, <3>2 DEF Rotation
  <2>. QED
    BY <2>1, <2>2
<1>4. CASE Diagnostics!Open(w)
  <2>1. Opens(w) /\ step' = [step EXCEPT ![w] = "sizing"] /\ step[w] = "idle"
    BY <1>4, OpensWhat DEF Diagnostics!Open, LogInv
  <2>. QED
    BY <1>3, <2>1
<1>5. CASE Diagnostics!Size(w)
  <2>1. /\ step[w] = "sizing" /\ fd[w] = path /\ path # Missing
        /\ path' = path /\ files' = files
    BY <1>1, <1>2, <1>5 DEF Rotation, Diagnostics!Size
  <2>2. CASE Diagnostics!Full(files[fd[w]])
    <3>1. /\ fd' = [fd EXCEPT ![w] = Missing] /\ step' = [step EXCEPT ![w] = "renaming"]
          /\ \A v \in Writers \ {w} : step[v] = "idle"
      BY <1>5, <2>2 DEF Diagnostics!Size
    <3>2. Len(files[path]) >= MaxLines
      BY <1>1, <2>1, <2>2 DEF Diagnostics!Full
    <3>3. \A v \in Writers \ {w} : step'[v] = "idle"
      BY <1>1, <3>1
    <3>4. step'[w] = "renaming"
      BY <1>1, <3>1
    <3>. QED
      BY <2>1, <3>2, <3>3, <3>4 DEF Rotation
  <2>3. CASE ~Diagnostics!Full(files[fd[w]])
    <3>1. fd' = fd /\ step' = [step EXCEPT ![w] = "writing"]
      BY <1>5, <2>3 DEF Diagnostics!Size
    <3>2. ~(Len(files[path]) >= MaxLines)
      BY <1>1, <2>1, <2>3 DEF Diagnostics!Full
    <3>3. \A v \in Writers : step[v] # "renaming"
      BY <1>2, <2>1, <3>2 DEF Rotation
    <3>. QED
      BY <1>1, <1>2, <2>1, <3>1, <3>3 DEF Rotation
  <2>. QED
    BY <2>2, <2>3
<1>6. CASE Diagnostics!Rename(w)
  <2>1. /\ step' = [step EXCEPT ![w] = "reopening"]
        /\ \A v \in Writers \ {w} : step[v] = "idle"
    BY <1>6 DEF Diagnostics!Rename
  <2>. QED
    BY <1>1, <2>1 DEF Rotation
<1>7. CASE Diagnostics!Reopen(w)
  <2>1. Opens(w) /\ step' = [step EXCEPT ![w] = "writing"] /\ step[w] = "reopening"
    BY <1>7, OpensWhat DEF Diagnostics!Reopen, LogInv
  <2>2. \A v \in Writers \ {w} : step[v] # "renaming"
    BY <1>2, <2>1 DEF Rotation
  <2>. QED
    BY <1>3, <2>1, <2>2
<1>8. CASE Diagnostics!Write(w)
  <2>1. /\ step[w] = "writing" /\ path' = path /\ fd' = [fd EXCEPT ![w] = Missing]
        /\ step' = [step EXCEPT ![w] = "idle"]
    BY <1>8 DEF Diagnostics!Write
  <2>2. \A v \in Writers : step[v] # "renaming"
    BY <1>2, <2>1 DEF Rotation
  <2>. QED
    BY <1>1, <1>2, <2>1, <2>2 DEF Rotation
<1>9. CASE Diagnostics!Fails(w)
  <2>1. /\ path' = path /\ files' = files /\ fd' = [fd EXCEPT ![w] = Missing]
        /\ step' = [step EXCEPT ![w] = "idle"]
    BY <1>9 DEF Diagnostics!Fails
  <2>. QED
    BY <1>1, <1>2, <2>1 DEF Rotation
<1>. QED
  BY <1>4, <1>5, <1>6, <1>7, <1>8, <1>9 DEF Diagnostics!AppendDiagnostic

(* A line goes to the end, and what is left when a file goes is the end.   *)
LEMMA GrownJoin ==
  ASSUME NEW S, NEW p \in Seq(S), NEW q \in Seq(S), NEW e \in S,
         NEW j, JoinOf(j, p, q), NEW t, GrowsBy(t, q, e), NEW u, GrowsBy(u, j, e)
  PROVE  t \in Seq(S) /\ Len(t) = Len(q) + 1 /\ j \in Seq(S) /\ JoinOf(u, p, t)
<1>1. p \o Append(q, e) = Append(p \o q, e)
  OBVIOUS
<1>. QED
  BY <1>1 DEF JoinOf, GrowsBy

(* The oldest file goes, and the current one takes its place.              *)
LEMMA FileGone ==
  ASSUME NEW p \in Seq(Nat), NEW q \in Seq(Nat), NEW r \in Seq(Nat)
  PROVE  p \o (q \o r) = (p \o q) \o (r \o <<>>)
<1>1. (p \o q) \o r = p \o (q \o r)
  BY ConcatAssociative, SMTT(30)
<1>2. r \o <<>> = r
  BY ConcatEmptySeq
<1>. QED
  BY ONLY <1>1, <1>2

(* Every step of a process keeps the newest entries in the two files while *)
(* no two rotations have met.                                              *)
LEMMA NewestGoesOn ==
  ASSUME LogInv, NEW w \in Writers, Diagnostics!AppendDiagnostic(w), ~raced'
  PROVE  NewestThere'
<1>. USE DEF Diagnostics!Lines
<1>1. /\ Missing \notin Nat /\ MaxLines \in Nat \ {0} /\ entries \in Nat
      /\ DOMAIN files = 1..Len(files) /\ Len(files) \in Nat
      /\ \A f \in DOMAIN files : files[f] \in Seq(Nat) /\ Len(files[f]) \in Nat
      /\ path \in {Missing} \cup DOMAIN files /\ older \in {Missing} \cup DOMAIN files
      /\ path # Missing => path # older
  BY DiagnosticsAssumption DEF LogInv, LogTyped
<1>2. ~raced /\ Rotation /\ NewestThere
  <2>1. raced \in BOOLEAN
    BY DEF LogInv, LogTyped
  <2>2. raced => raced'
    BY <2>1 DEF Diagnostics!AppendDiagnostic, Diagnostics!Open, Diagnostics!Size,
      Diagnostics!Rename, Diagnostics!Reopen, Diagnostics!Write, Diagnostics!Fails
  <2>. QED
    BY <2>2 DEF LogInv
<1>3. PICK old, new : old = Diagnostics!Lines(older) /\ new = Diagnostics!Lines(path)
  OBVIOUS
<1>4. PICK front : Newest(front, old, new)
  BY <1>2, <1>3 DEF NewestThere
<1>5. ASSUME logged' = logged, Diagnostics!Lines(older)' = old, Diagnostics!Lines(path)' = new
      PROVE  NewestThere'
  <2>1. Newest(front, old, new)'
    BY <1>4, <1>5 DEF Newest
  <2>. QED
    BY <1>5, <2>1 DEF NewestThere
<1>6. ASSUME Opens(w), older' = older, logged' = logged PROVE NewestThere'
  <2>1. Diagnostics!Lines(older)' = old /\ Diagnostics!Lines(path)' = new
    BY <1>1, <1>3, <1>6 DEF Opens
  <2>. QED
    BY <1>5, <1>6, <2>1
<1>7. CASE Diagnostics!Open(w)
  BY <1>6, <1>7, OpensWhat DEF Diagnostics!Open, LogInv
<1>8. CASE Diagnostics!Size(w)
  BY <1>3, <1>5, <1>8 DEF Diagnostics!Size
<1>9. CASE Diagnostics!Rename(w)
  <2>1. /\ older' = path /\ path' = Missing /\ files' = files /\ logged' = logged
        /\ path # Missing /\ Len(files[path]) >= MaxLines
    BY <1>2, <1>9 DEF Diagnostics!Rename, Rotation
  <2>2. Diagnostics!Lines(older)' = new /\ Diagnostics!Lines(path)' = <<>> /\ Len(new) >= MaxLines
    BY <1>3, <2>1
  <2>3. logged = (front \o old) \o (new \o <<>>)
    BY <1>4, FileGone DEF Newest
  <2>4. Newest(front \o old, new, <<>>)'
    BY <1>1, <1>4, <2>1, <2>2, <2>3 DEF Newest
  <2>. QED
    BY <2>2, <2>4 DEF NewestThere
<1>10. CASE Diagnostics!Reopen(w)
  BY <1>6, <1>10, OpensWhat DEF Diagnostics!Reopen, LogInv
<1>11. CASE Diagnostics!Write(w)
  <2>1. /\ path' = path /\ older' = older /\ logged' = Append(logged, entries)
        /\ files' = [files EXCEPT ![path] = Append(files[path], entries)]
        /\ path # Missing
    BY <1>1, <1>2, <1>11 DEF Diagnostics!Write, Rotation, LogInv, LogTyped
  <2>2. PICK more, e : e = entries /\ more = Append(new, e) /\ GrowsBy(more, new, e)
    BY DEF GrowsBy
  <2>3. Diagnostics!Lines(older)' = old /\ Diagnostics!Lines(path)' = more
    BY <1>1, <1>3, <2>1, <2>2
  <2>4. Newest(front, old, more)'
    <3>1. /\ front \in Seq(Nat) /\ old \in Seq(Nat) /\ new \in Seq(Nat)
          /\ logged = front \o (old \o new)
          /\ Len(old) + Len(new) >= MaxLines \/ front = <<>>
      BY <1>4 DEF Newest
    <3>2. PICK kept, keptMore, all :
            /\ JoinOf(kept, old, new) /\ GrowsBy(keptMore, kept, e) /\ GrowsBy(all, logged, e)
      BY DEF JoinOf, GrowsBy
    <3>3. e \in Nat /\ JoinOf(logged, front, kept)
      BY <1>1, <2>2, <3>1, <3>2 DEF JoinOf
    <3>4. /\ more \in Seq(Nat) /\ Len(more) = Len(new) + 1 /\ kept \in Seq(Nat)
          /\ JoinOf(keptMore, old, more)
      <4>. HIDE DEF LogInv
      <4>1. old \in Seq(Nat) /\ new \in Seq(Nat) /\ GrowsBy(more, new, e)
        BY <2>2, <3>1
      <4>. QED
        BY <3>2, <3>3, <4>1, GrownJoin
    <3>5. JoinOf(all, front, keptMore)
      <4>1. front \in Seq(Nat)
        BY <3>1
      <4>. QED
        BY <3>2, <3>3, <3>4, <4>1, GrownJoin
    <3>6. Len(old) + Len(more) >= MaxLines \/ front = <<>>
      BY <1>1, <3>1, <3>4
    <3>. QED
      BY <2>1, <2>2, <3>1, <3>2, <3>6, <3>4, <3>5 DEF Newest, JoinOf, GrowsBy
  <2>. QED
    BY <2>3, <2>4 DEF NewestThere
<1>12. CASE Diagnostics!Fails(w)
  BY <1>3, <1>5, <1>12 DEF Diagnostics!Fails
<1>. QED
  BY <1>7, <1>8, <1>9, <1>10, <1>11, <1>12 DEF Diagnostics!AppendDiagnostic

(* Every step keeps the invariant of the log.                              *)
LEMMA LogGoesOn ==
  LogInv /\ ((\E w \in Writers : Diagnostics!AppendDiagnostic(w))
             \/ UNCHANGED Diagnostics!logVars) => LogInv'
<1>1. ASSUME LogInv, NEW w \in Writers, Diagnostics!AppendDiagnostic(w) PROVE LogInv'
  BY <1>1, TypedGoesOn, BoundGoesOn, RotationGoesOn, NewestGoesOn DEF LogInv
<1>2. ASSUME LogInv, UNCHANGED Diagnostics!logVars PROVE LogInv'
  <2>1. UNCHANGED <<path, older, files, fd, step, entries, logged, raced>>
    BY <1>2 DEF Diagnostics!logVars
  <2>. QED
    <3>1. LogTyped'
      BY <1>2, <2>1 DEF LogInv, LogTyped
    <3>2. FilesBounded'
      <4>1. \A f : Unchecked(f)' = Unchecked(f)
        BY <2>1 DEF Unchecked
      <4>. QED
        BY <1>2, <2>1, <4>1 DEF LogInv, FilesBounded
    <3>3. ~raced => Rotation'
      BY <1>2, <2>1 DEF LogInv, Rotation
    <3>4. ~raced => NewestThere'
      BY <1>2, <2>1 DEF LogInv, NewestThere, Newest, Diagnostics!Lines
    <3>. QED
      BY <2>1, <3>1, <3>2, <3>3, <3>4 DEF LogInv
<1>. QED
  BY <1>1, <1>2

(* The end of a sequence, by its length.                                   *)
LEMMA SuffixIs ==
  ASSUME NEW p \in Seq(Nat), NEW q \in Seq(Nat), NEW t, t = p \o q
  PROVE  q = SubSeq(t, Len(t) - Len(q) + 1, Len(t))
<1>1. t \in Seq(Nat) /\ Len(t) = Len(p) + Len(q) /\ Len(p) \in Nat /\ Len(q) \in Nat
  OBVIOUS
<1>2. ASSUME NEW i \in 1..Len(q) PROVE t[Len(p) + i] = q[i]
  <2>1. /\ Len(p) + i \in 1..(Len(p) + Len(q)) /\ ~(Len(p) + i <= Len(p))
        /\ (Len(p) + i) - Len(p) = i
    BY <1>1
  <2>. QED
    BY <2>1, ConcatProperties
<1>3. PICK m, n \in Nat : m = Len(p) + 1 /\ n = Len(t)
  BY <1>1
<1>4. PICK u : u = SubSeq(t, m, n)
  OBVIOUS
<1>5. u \in Seq(Nat) /\ Len(u) = Len(q) /\ \A i \in 1..Len(q) : u[i] = t[Len(p) + i]
  <2>1. PICK k, l \in Nat : k = Len(p) /\ l = Len(q)
    BY <1>1
  <2>2. m = k + 1 /\ n = k + l /\ Len(t) = n
    BY <1>1, <1>3, <2>1
  <2>3. u \in Seq(Nat) /\ Len(u) = l
    BY <1>1, <1>4, <2>2
  <2>4. \A i \in 1..l : u[i] = t[k + i]
    BY <1>1, <1>4, <2>2
  <2>. QED
    BY <2>1, <2>3, <2>4
<1>6. u = q
  <2>1. \A i \in 1..Len(q) : u[i] = q[i]
    BY <1>2, <1>5
  <2>2. /\ DOMAIN u = 1..Len(q) /\ DOMAIN q = 1..Len(q)
        /\ u = [i \in DOMAIN u |-> u[i]] /\ q = [i \in DOMAIN q |-> q[i]]
    BY <1>5
  <2>. QED
    BY <2>1, <2>2
<1>7. Len(t) - Len(q) + 1 = m
  BY <1>1, <1>3
<1>. QED
  BY <1>3, <1>4, <1>6, <1>7

(* The instance's cardinality is the library's.                            *)
LEMMA SameCardinality == \A S : Diagnostics!Cardinality(S) = Cardinality(S)
  BY DEF Diagnostics!Cardinality, Cardinality

(* The invariant gives what the log promises: files within their bound,    *)
(* and the newest entries kept.                                            *)
LEMMA LogKept == LogInv => Diagnostics!LogBounded /\ Diagnostics!NewestKept
<1>. SUFFICES ASSUME LogInv PROVE Diagnostics!LogBounded /\ Diagnostics!NewestKept
  OBVIOUS
<1>1. MaxLines \in Nat \ {0}
  BY DiagnosticsAssumption
<1>2. ASSUME NEW f \in DOMAIN files PROVE Len(files[f]) < MaxLines + Cardinality(Writers)
  <2>1. Len(files[f]) \in Nat /\ Cardinality(Unchecked(f)) \in Nat
    BY UncheckedFinite DEF Unchecked, LogInv, LogTyped
  <2>2. Len(files[f]) + Cardinality(Unchecked(f)) < MaxLines + Cardinality(Writers)
    BY DEF LogInv, FilesBounded
  <2>. QED
    BY <1>1, <2>1, <2>2, UncheckedFinite
<1>3. ASSUME ~raced PROVE
      LET kept == Diagnostics!Lines(older) \o Diagnostics!Lines(path)
          n    == Len(logged) IN
      /\ kept = SubSeq(logged, n - Len(kept) + 1, n)
      /\ Len(kept) >= (IF n < MaxLines THEN n ELSE MaxLines)
  <2>1. PICK old, new, front : /\ old = Diagnostics!Lines(older)
                               /\ new = Diagnostics!Lines(path)
                               /\ Newest(front, old, new)
    BY <1>3 DEF LogInv, NewestThere
  <2>2. PICK kept : kept = old \o new
    OBVIOUS
  <2>3. /\ kept \in Seq(Nat) /\ Len(kept) = Len(old) + Len(new) /\ Len(kept) \in Nat
        /\ front \in Seq(Nat) /\ logged = front \o kept
    BY <2>1, <2>2 DEF Newest
  <2>4. kept = SubSeq(logged, Len(logged) - Len(kept) + 1, Len(logged))
    BY <2>3, SuffixIs
  <2>5. Len(logged) = Len(front) + Len(kept) /\ Len(front) \in Nat
    BY <2>3
  <2>6. Len(kept) >= (IF Len(logged) < MaxLines THEN Len(logged) ELSE MaxLines)
    <3>1. CASE Len(old) + Len(new) >= MaxLines
      BY <1>1, <3>1, <2>3, <2>5
    <3>2. CASE front = <<>>
      <4>1. Len(logged) = Len(kept)
        BY <3>2, <2>3, <2>5
      <4>. QED
        BY <1>1, <4>1, <2>3
    <3>. QED
      BY <3>1, <3>2, <2>1 DEF Newest
  <2>. QED
    BY <2>1, <2>2, <2>4, <2>6
<1>. QED
  BY <1>2, <1>3, SameCardinality DEF Diagnostics!NewestKept, Diagnostics!LogBounded

(* The gate remembers when a cause was last shown, as long as it matters.  *)
GateInv ==
  /\ clock \in Nat
  /\ lastShown \in [Causes -> {Missing} \cup (0..clock)]
  /\ DOMAIN shownAt \subseteq Causes /\ IsFiniteSet(DOMAIN shownAt)
  /\ \A c \in DOMAIN shownAt : shownAt[c] \in 0..clock /\ lastShown[c] = shownAt[c]
  /\ \A c \in Causes :
       lastShown[c] # Missing /\ clock - lastShown[c] < Window => c \in DOMAIN shownAt
  /\ Cardinality(DOMAIN shownAt) > PruneAt =>
       \A c, latest \in DOMAIN shownAt : shownAt[latest] - shownAt[c] < Window

(* The invariant of the gate holds at the start.                           *)
LEMMA GateBegins == Diagnostics!GateInit => GateInv
<1>. SUFFICES ASSUME Diagnostics!GateInit PROVE GateInv
  OBVIOUS
<1>1. DOMAIN shownAt = {} /\ clock = 0 /\ lastShown = [c \in Causes |-> Missing]
  BY DEF Diagnostics!GateInit
<1>2. IsFiniteSet({}) /\ Cardinality({}) = 0
  BY FS_EmptySet
<1>. QED
  BY <1>1, <1>2, DiagnosticsAssumption DEF GateInv

(* A notice remembers its cause, and the pruning before it forgets only    *)
(* causes whose window is over.                                            *)
LEMMA ShowKeeps ==
  ASSUME GateInv, NEW c \in Causes, Diagnostics!ShowDiagnostic(c)
  PROVE  GateInv'
<1>. DEFINE kept == IF Cardinality(DOMAIN shownAt) >= PruneAt
                    THEN Diagnostics!Remembered ELSE DOMAIN shownAt
<1>1. /\ shownAt' = [d \in kept \cup {c} |-> IF d = c THEN clock ELSE shownAt[d]]
      /\ lastShown' = [lastShown EXCEPT ![c] = clock] /\ clock' = clock
  BY SameCardinality DEF Diagnostics!ShowDiagnostic
<1>2. /\ kept \subseteq DOMAIN shownAt
      /\ \A d \in DOMAIN shownAt : clock - shownAt[d] < Window => d \in kept
      /\ Cardinality(DOMAIN shownAt) >= PruneAt =>
           \A d \in kept : clock - shownAt[d] < Window
  BY DEF Diagnostics!Remembered
<1>. HIDE DEF kept
<1>3. /\ clock \in Nat /\ lastShown \in [Causes -> {Missing} \cup (0..clock)]
      /\ DOMAIN shownAt \subseteq Causes /\ IsFiniteSet(DOMAIN shownAt)
      /\ \A d \in DOMAIN shownAt : shownAt[d] \in 0..clock /\ lastShown[d] = shownAt[d]
      /\ \A d \in Causes :
           lastShown[d] # Missing /\ clock - lastShown[d] < Window => d \in DOMAIN shownAt
      /\ Window \in Nat \ {0} /\ PruneAt \in Nat /\ Missing \notin Nat
  BY DiagnosticsAssumption DEF GateInv
<1>4. /\ DOMAIN shownAt' = kept \cup {c} /\ shownAt'[c] = clock
      /\ \A d \in kept : d # c => shownAt'[d] = shownAt[d]
  BY <1>1
<1>5. lastShown' \in [Causes -> {Missing} \cup (0..clock)]
  BY <1>1, <1>3
<1>6. \A d \in DOMAIN shownAt' : shownAt'[d] \in 0..clock /\ lastShown'[d] = shownAt'[d]
  BY <1>1, <1>2, <1>3, <1>4
<1>7. IsFiniteSet(kept) /\ Cardinality(kept) <= Cardinality(DOMAIN shownAt)
      /\ Cardinality(kept) \in Nat /\ Cardinality(DOMAIN shownAt) \in Nat
  BY <1>2, <1>3, FS_Subset, FS_CardinalityType
<1>8. /\ IsFiniteSet(kept \cup {c})
      /\ Cardinality(kept \cup {c}) \in {Cardinality(kept), Cardinality(kept) + 1}
  BY <1>7, FS_AddElement
<1>9. ASSUME NEW d \in Causes, lastShown'[d] # Missing, clock - lastShown'[d] < Window
      PROVE  d \in DOMAIN shownAt'
  <2>1. CASE d = c
    BY <1>4, <2>1
  <2>2. CASE d # c
    <3>1. lastShown'[d] = lastShown[d]
      BY <1>1, <2>2
    <3>2. d \in DOMAIN shownAt /\ shownAt[d] = lastShown[d]
      BY <1>3, <1>9, <3>1
    <3>3. d \in kept
      BY <1>2, <1>9, <3>1, <3>2
    <3>. QED
      BY <1>4, <3>3
  <2>. QED
    BY <2>1, <2>2
<1>10. ASSUME Cardinality(DOMAIN shownAt') > PruneAt,
              NEW d \in DOMAIN shownAt', NEW latest \in DOMAIN shownAt'
       PROVE  shownAt'[latest] - shownAt'[d] < Window
  <2>1. Cardinality(DOMAIN shownAt) >= PruneAt
    BY <1>3, <1>4, <1>7, <1>8, <1>10
  <2>2. clock - shownAt'[d] < Window
    <3>1. CASE d = c
      BY <1>3, <1>4, <3>1
    <3>2. CASE d # c
      BY <1>2, <1>4, <2>1, <3>2
    <3>. QED
      BY <3>1, <3>2
  <2>3. shownAt'[latest] \in 0..clock /\ shownAt'[d] \in 0..clock
    BY <1>6
  <2>. QED
    BY <1>3, <2>2, <2>3
<1>11. DOMAIN shownAt' \subseteq Causes
  BY <1>2, <1>3, <1>4
<1>. QED
  BY <1>1, <1>3, <1>4, <1>5, <1>6, <1>8, <1>9, <1>10, <1>11 DEF GateInv

(* Every step keeps the invariant of the gate.                             *)
LEMMA GateGoesOn ==
  GateInv /\ (Diagnostics!GateStep \/ UNCHANGED Diagnostics!gateVars) => GateInv'
<1>1. ASSUME GateInv, NEW c \in Causes, Diagnostics!ShowDiagnostic(c) PROVE GateInv'
  BY <1>1, ShowKeeps
<1>2. ASSUME GateInv, Diagnostics!Tick PROVE GateInv'
  <2>1. clock' = clock + 1 /\ shownAt' = shownAt /\ lastShown' = lastShown
    BY <1>2 DEF Diagnostics!Tick
  <2>2. 0..clock \subseteq 0..clock' /\ clock' \in Nat
    BY <1>2, <2>1 DEF GateInv
  <2>3. lastShown' \in [Causes -> {Missing} \cup (0..clock')]
    BY <1>2, <2>1, <2>2 DEF GateInv
  <2>4. ASSUME NEW c \in Causes, lastShown[c] # Missing, clock' - lastShown[c] < Window
        PROVE  c \in DOMAIN shownAt
    <3>1. clock - lastShown[c] < Window
      <4>1. lastShown[c] \in 0..clock /\ clock \in Nat /\ Window \in Nat
        BY <1>2, <2>4, DiagnosticsAssumption DEF GateInv
      <4>. QED
        BY <2>1, <2>4, <4>1
    <3>. QED
      BY <1>2, <2>4, <3>1 DEF GateInv
  <2>. QED
    BY <1>2, <2>1, <2>2, <2>3, <2>4 DEF GateInv
<1>3. ASSUME GateInv, UNCHANGED Diagnostics!gateVars PROVE GateInv'
  BY <1>3 DEF GateInv, Diagnostics!gateVars
<1>. QED
  BY <1>1, <1>2, <1>3 DEF Diagnostics!GateStep

(* The invariant gives what the gate promises: a cause once per window,    *)
(* and a small memory.                                                     *)
LEMMA GateKept == GateInv => Diagnostics!ShownOncePerWindow /\ Diagnostics!GateStaysSmall
<1>. SUFFICES ASSUME GateInv PROVE Diagnostics!ShownOncePerWindow /\ Diagnostics!GateStaysSmall
  OBVIOUS
<1>1. Diagnostics!ShownOncePerWindow
  <2>1. ASSUME NEW c \in Causes, lastShown[c] # Missing, clock - lastShown[c] < Window
        PROVE  c \in DOMAIN shownAt /\ clock - shownAt[c] < Window
    BY <2>1 DEF GateInv
  <2>. QED
    BY <2>1 DEF Diagnostics!ShownOncePerWindow, Diagnostics!Suppressed
<1>2. Diagnostics!GateStaysSmall
  BY SameCardinality DEF GateInv, Diagnostics!GateStaysSmall
<1>. QED
  BY <1>1, <1>2

DiagnosticsInv == LogInv /\ GateInv

(* Log and gate together, at the start.                                    *)
LEMMA DiagnosticsBegins == Diagnostics!Init => DiagnosticsInv
  BY LogBegins, GateBegins DEF Diagnostics!Init, DiagnosticsInv

(* Log and gate together, step by step.                                    *)
LEMMA DiagnosticsGoesOn == DiagnosticsInv /\ [Diagnostics!Next]_diagVars => DiagnosticsInv'
<1>. SUFFICES ASSUME DiagnosticsInv, [Diagnostics!Next]_diagVars PROVE DiagnosticsInv'
  OBVIOUS
<1>1. CASE Diagnostics!LogStep
  BY <1>1, LogGoesOn, GateGoesOn DEF Diagnostics!LogStep, DiagnosticsInv
<1>2. CASE Diagnostics!GateStep
  <2>1. UNCHANGED Diagnostics!logVars
    BY <1>2 DEF Diagnostics!GateStep, Diagnostics!ShowDiagnostic, Diagnostics!Tick
  <2>. QED
    BY <1>2, <2>1, LogGoesOn, GateGoesOn DEF DiagnosticsInv
<1>3. CASE UNCHANGED diagVars
  <2>1. UNCHANGED Diagnostics!logVars /\ UNCHANGED Diagnostics!gateVars
    BY <1>3 DEF diagVars, Diagnostics!logVars, Diagnostics!gateVars
  <2>. QED
    BY <2>1, LogGoesOn, GateGoesOn DEF DiagnosticsInv
<1>. QED
  BY <1>1, <1>2, <1>3 DEF Diagnostics!Next

(* Log and gate together keep what diagnostics promise.                    *)
LEMMA DiagnosticsPromise == DiagnosticsInv => Diagnostics!DiagnosticsKept
  BY LogKept, GateKept DEF DiagnosticsInv, Diagnostics!DiagnosticsKept

-----------------------------------------------------------------------------
(* The waiting time of a prompt                                            *)

(* A prompt runs tool calls while it is live, a dialog opens in one, and a *)
(* dialog that closes was open.                                            *)
AskHistory ==
  /\ \A p \in AskPrompts : tools[p] # {} => life[p] = "live"
  /\ \A d \in Dialogs : opened[d] # Ask!Unknown =>
       /\ life[OwnerOf[d]] # "none"
       /\ life[OwnerOf[d]] = "live" => FlowOf[d] \in tools[OwnerOf[d]]
  /\ \A d \in Dialogs : closed[d] # Ask!Unknown => opened[d] # Ask!Unknown

AskInv == Ask!TypeOK /\ AskHistory /\ Ask!OwnDialogsOnly

(* The invariant of the ask flows holds at the start.                      *)
LEMMA AskBegins == Ask!Init => AskInv
<1>. SUFFICES ASSUME Ask!Init PROVE AskInv
  OBVIOUS
<1>1. /\ life = [p \in AskPrompts |-> "none"] /\ tools = [p \in AskPrompts |-> {}]
      /\ askFlows = [p \in AskPrompts |-> [f \in Ask!Flows |-> Ask!NotHeld]]
      /\ ambiguous = [p \in AskPrompts |-> {}]
      /\ opened = [d \in Dialogs |-> -1] /\ closed = [d \in Dialogs |-> -1] /\ now = 0
  BY DEF Ask!Init, Ask!Unknown
<1>2. Ask!NotHeld \in [held : BOOLEAN, startedAt : Ask!Times, completedAt : Ask!Times]
  BY AskAssumption DEF Ask!NotHeld, Ask!Times, Ask!Unknown
<1>3. Ask!TypeOK
  BY <1>1, <1>2, AskAssumption DEF Ask!TypeOK, Ask!Times, Ask!Unknown
<1>4. AskHistory
  BY <1>1 DEF AskHistory, Ask!Unknown
<1>5. \A p \in AskPrompts, f \in Ask!Flows :
        askFlows[p][f].startedAt = -1 /\ askFlows[p][f].completedAt = -1
  BY <1>1 DEF Ask!NotHeld, Ask!Unknown
<1>6. Ask!OwnDialogsOnly
  BY <1>5 DEF Ask!OwnDialogsOnly, Ask!Unknown
<1>. QED
  BY <1>3, <1>4, <1>6 DEF AskInv

(* The cardinality that AskFlows speaks of is the library's.               *)
LEMMA SameCardinalityInAsk == \A S : Ask!Cardinality(S) = Cardinality(S)
  BY DEF Ask!Cardinality, Cardinality

(* An event in time comes to the prompt that owns the dialog, or to none.  *)
LEMMA OwnerIs ==
  ASSUME AskInv, NEW d \in Dialogs, opened[d] # Ask!Unknown, Ask!InTime(d)
  PROVE  Ask!Owners(FlowOf[d]) \in {{}, {OwnerOf[d]}}
<1>. DEFINE f == FlowOf[d]
            C == Ask!Candidates(f)
<1>1. SUFFICES ASSUME Cardinality(C) = 1, Ask!Owners(f) = C PROVE C = {OwnerOf[d]}
  BY SameCardinalityInAsk DEF Ask!Owners
<1>2. PICK x : C = {x}
  <2>1. IsFiniteSet(C)
    BY AskAssumption, FS_Subset DEF Ask!Candidates, Ask!Live
  <2>. QED
    BY <1>1, <2>1, FS_Singleton
<1>3. life[OwnerOf[d]] = "live"
  BY <1>2 DEF Ask!InTime
<1>4. OwnerOf[d] \in C
  BY <1>3, AskAssumption DEF AskInv, AskHistory, Ask!Candidates, Ask!Live
<1>. QED
  BY <1>2, <1>4

(* What such an event comes to.                                            *)
FlowRecords == [held : BOOLEAN, startedAt : Ask!Times, completedAt : Ask!Times]

Entry(n, r, kind, t) ==
  /\ n \in FlowRecords
  /\ n.startedAt \in {r.startedAt, IF kind = "startedAt" THEN t ELSE r.startedAt}
  /\ n.completedAt \in {r.completedAt, IF kind = "completedAt" THEN t ELSE r.completedAt}

Recorded(d, kind, t) ==
  \/ askFlows' = askFlows /\ ambiguous' \in [AskPrompts -> SUBSET Ask!Flows]
  \/ /\ ambiguous' = ambiguous
     /\ \E n : /\ Entry(n, askFlows[OwnerOf[d]][FlowOf[d]], kind, t)
               /\ askFlows' = [askFlows EXCEPT ![OwnerOf[d]][FlowOf[d]] = n]

(* An event in time is recorded at its dialog's owner, or nowhere.         *)
LEMMA EventRecorded ==
  ASSUME AskInv, NEW d \in Dialogs, NEW kind \in {"startedAt", "completedAt"},
         NEW t \in Ask!Times, opened[d] # Ask!Unknown, Ask!InTime(d),
         Ask!RecordAskEvent(FlowOf[d], kind, t)
  PROVE  Recorded(d, kind, t)
<1>. DEFINE f == FlowOf[d]
            p == OwnerOf[d]
<1>1. f \in Ask!Flows /\ p \in AskPrompts
  BY AskAssumption DEF Ask!Flows
<1>2. CASE Ask!Owners(f) = {}
  <2>1. /\ ambiguous' = [q \in AskPrompts |->
                IF q \in Ask!Candidates(f) THEN ambiguous[q] \cup {f} ELSE ambiguous[q]]
        /\ askFlows' = askFlows
    BY <1>2 DEF Ask!RecordAskEvent
  <2>. QED
    BY <1>1, <2>1 DEF AskInv, Ask!TypeOK, Recorded
<1>3. CASE Ask!Owners(f) = {p}
  <2>1. PICK r, n : r = askFlows[p][f] /\ n = Ask!WithTime(r, kind, t)
    OBVIOUS
  <2>2. askFlows' = [askFlows EXCEPT ![p][f] = n] /\ ambiguous' = ambiguous
    BY <1>3, <2>1 DEF Ask!RecordAskEvent
  <2>3. r \in FlowRecords
    BY <1>1, <2>1 DEF AskInv, Ask!TypeOK, FlowRecords
  <2>4. PICK u : u = Ask!FirstTime(r[kind], t)
    OBVIOUS
  <2>5. u \in {r[kind], t} /\ r[kind] \in Ask!Times
    BY <2>3, <2>4 DEF FlowRecords, Ask!FirstTime
  <2>6. n = [r EXCEPT ![kind] = u, !.held = TRUE]
    BY <2>1, <2>4 DEF Ask!WithTime
  <2>7. Entry(n, r, kind, t)
    BY <2>3, <2>5, <2>6 DEF Entry, FlowRecords
  <2>. QED
    BY <2>1, <2>2, <2>7 DEF Recorded
<1>. QED
  BY <1>2, <1>3, OwnerIs

(* One entry replaced: the ask flows keep their type.                      *)
LEMMA FlowsTyped ==
  ASSUME Ask!TypeOK, NEW p \in AskPrompts, NEW f \in Ask!Flows, NEW n \in FlowRecords,
         askFlows' = [askFlows EXCEPT ![p][f] = n]
  PROVE  /\ askFlows' \in [AskPrompts -> [Ask!Flows -> FlowRecords]]
         /\ \A q \in AskPrompts, g \in Ask!Flows :
              askFlows'[q][g] = IF q = p /\ g = f THEN n ELSE askFlows[q][g]
  BY DEF Ask!TypeOK, FlowRecords

(* An event with the dialog's own time, or without one, keeps the flows    *)
(* right.                                                                  *)
LEMMA EventKeeps ==
  ASSUME AskInv, NEW d \in Dialogs, NEW kind \in {"startedAt", "completedAt"},
         NEW t \in {Ask!Unknown, IF kind = "startedAt" THEN opened[d] ELSE closed[d]},
         Recorded(d, kind, t), UNCHANGED <<life, tools, opened, closed, now>>
  PROVE  AskInv'
<1>1. AskHistory'
  BY DEF AskInv, AskHistory
<1>2. CASE askFlows' = askFlows /\ ambiguous' \in [AskPrompts -> SUBSET Ask!Flows]
  BY <1>1, <1>2 DEF AskInv, Ask!TypeOK, Ask!OwnDialogsOnly
<1>3. ASSUME NEW n, Entry(n, askFlows[OwnerOf[d]][FlowOf[d]], kind, t), ambiguous' = ambiguous,
             askFlows' = [askFlows EXCEPT ![OwnerOf[d]][FlowOf[d]] = n]
      PROVE  AskInv'
  <2>1. FlowOf[d] \in Ask!Flows /\ OwnerOf[d] \in AskPrompts
    BY AskAssumption DEF Ask!Flows
  <2>2. /\ askFlows' \in [AskPrompts -> [Ask!Flows -> FlowRecords]]
        /\ \A q \in AskPrompts, g \in Ask!Flows :
             askFlows'[q][g] = IF q = OwnerOf[d] /\ g = FlowOf[d] THEN n ELSE askFlows[q][g]
    <3>1. Ask!TypeOK /\ n \in FlowRecords
      BY <1>3 DEF AskInv, Entry
    <3>. QED
      BY <1>3, <2>1, <3>1, FlowsTyped
  <2>3. Ask!TypeOK'
    BY <1>3, <2>2 DEF AskInv, Ask!TypeOK, FlowRecords
  <2>4. ASSUME NEW q \in AskPrompts, NEW g \in Ask!Flows
        PROVE  LET own == {e \in Dialogs : OwnerOf[e] = q /\ FlowOf[e] = g} IN
               /\ askFlows'[q][g].startedAt \in {Ask!Unknown} \cup {opened[e] : e \in own}
               /\ askFlows'[q][g].completedAt \in {Ask!Unknown} \cup {closed[e] : e \in own}
    <3>. DEFINE own == {e \in Dialogs : OwnerOf[e] = q /\ FlowOf[e] = g}
    <3>1. /\ askFlows[q][g].startedAt \in {Ask!Unknown} \cup {opened[e] : e \in own}
          /\ askFlows[q][g].completedAt \in {Ask!Unknown} \cup {closed[e] : e \in own}
      BY DEF AskInv, Ask!OwnDialogsOnly
    <3>2. CASE ~(q = OwnerOf[d] /\ g = FlowOf[d])
      BY <2>2, <3>1, <3>2
    <3>3. CASE q = OwnerOf[d] /\ g = FlowOf[d]
      <4>1. d \in own /\ askFlows'[q][g] = n
        BY <2>2, <3>3
      <4>2. n.startedAt \in {Ask!Unknown} \cup {opened[e] : e \in own}
        BY <1>3, <3>1, <3>3, <4>1 DEF Entry
      <4>3. n.completedAt \in {Ask!Unknown} \cup {closed[e] : e \in own}
        BY <1>3, <3>1, <3>3, <4>1 DEF Entry
      <4>. QED
        BY <4>1, <4>2, <4>3
    <3>. QED
      BY <3>2, <3>3
  <2>5. Ask!OwnDialogsOnly'
    BY <2>4 DEF Ask!OwnDialogsOnly
  <2>. QED
    BY <1>1, <2>3, <2>5 DEF AskInv
<1>. QED
  BY <1>2, <1>3 DEF Recorded

(* Every step of the ask flows keeps their invariant.                      *)
LEMMA AskGoesOn == AskInv /\ [Ask!Next]_askVars => AskInv'
<1>. SUFFICES ASSUME AskInv, [Ask!Next]_askVars PROVE AskInv'
  OBVIOUS
<1>. USE DEF AskInv
<1>1. OwnerOf \in [Dialogs -> AskPrompts] /\ MaxTime \in Nat
  BY AskAssumption
<1>2. ASSUME NEW p \in AskPrompts, Ask!PromptBegins(p) PROVE AskInv'
  <2>1. Ask!TypeOK' /\ Ask!OwnDialogsOnly'
    BY <1>2 DEF Ask!PromptBegins, Ask!TypeOK, Ask!OwnDialogsOnly
  <2>2. AskHistory'
    BY <1>1, <1>2 DEF Ask!PromptBegins, Ask!TypeOK, AskHistory
  <2>. QED
    BY <2>1, <2>2
<1>3. ASSUME NEW p \in AskPrompts, Ask!PromptEnds(p) PROVE AskInv'
  <2>1. Ask!TypeOK' /\ Ask!OwnDialogsOnly'
    BY <1>3 DEF Ask!PromptEnds, Ask!TypeOK, Ask!OwnDialogsOnly
  <2>2. AskHistory'
    BY <1>1, <1>3 DEF Ask!PromptEnds, Ask!TypeOK, AskHistory
  <2>. QED
    BY <2>1, <2>2
<1>4. ASSUME NEW d \in Dialogs, Ask!ToolCall(d) PROVE AskInv'
  <2>1. Ask!TypeOK' /\ Ask!OwnDialogsOnly'
    <3>1. FlowOf[d] \in Ask!Flows /\ OwnerOf[d] \in AskPrompts
      BY <1>1 DEF Ask!Flows
    <3>. QED
      BY <1>4, <3>1 DEF Ask!ToolCall, Ask!TypeOK, Ask!OwnDialogsOnly
  <2>2. AskHistory'
    BY <1>1, <1>4 DEF Ask!ToolCall, Ask!TypeOK, AskHistory
  <2>. QED
    BY <2>1, <2>2
<1>5. ASSUME NEW d \in Dialogs, Ask!DialogOpens(d) PROVE AskInv'
  <2>1. /\ opened' = [opened EXCEPT ![d] = now] /\ opened[d] = Ask!Unknown
        /\ UNCHANGED <<life, tools, askFlows, ambiguous, closed, now>>
        /\ FlowOf[d] \in tools[OwnerOf[d]]
    BY <1>5 DEF Ask!DialogOpens
  <2>2. Ask!TypeOK'
    BY <1>1, <2>1 DEF Ask!TypeOK, Ask!Times, Ask!Unknown
  <2>3. AskHistory'
    BY <1>1, <2>1 DEF Ask!TypeOK, AskHistory
  <2>4. \A e \in Dialogs : opened[e] \in {Ask!Unknown, opened'[e]}
    BY <2>1 DEF Ask!TypeOK
  <2>5. Ask!OwnDialogsOnly'
    BY <2>1, <2>4 DEF Ask!OwnDialogsOnly
  <2>. QED
    BY <2>2, <2>3, <2>5
<1>6. ASSUME NEW d \in Dialogs, Ask!DialogCloses(d) PROVE AskInv'
  <2>1. /\ closed' = [closed EXCEPT ![d] = now] /\ closed[d] = Ask!Unknown
        /\ UNCHANGED <<life, tools, askFlows, ambiguous, opened, now>>
        /\ opened[d] # Ask!Unknown
    BY <1>6 DEF Ask!DialogCloses
  <2>2. Ask!TypeOK'
    BY <1>1, <2>1 DEF Ask!TypeOK, Ask!Times, Ask!Unknown
  <2>3. AskHistory'
    BY <1>1, <2>1 DEF Ask!TypeOK, AskHistory
  <2>4. \A e \in Dialogs : closed[e] \in {Ask!Unknown, closed'[e]}
    BY <2>1 DEF Ask!TypeOK
  <2>5. Ask!OwnDialogsOnly'
    BY <2>1, <2>4 DEF Ask!OwnDialogsOnly
  <2>. QED
    BY <2>2, <2>3, <2>5
<1>7. ASSUME NEW d \in Dialogs, Ask!AskStarted(d) PROVE AskInv'
  <2>1. PICK t \in {opened[d], Ask!Unknown} : Ask!RecordAskEvent(FlowOf[d], "startedAt", t)
    BY <1>7 DEF Ask!AskStarted
  <2>2. t \in Ask!Times
    BY <1>1 DEF Ask!TypeOK, Ask!Times, Ask!Unknown
  <2>3. Recorded(d, "startedAt", t)
    BY <1>7, <2>1, <2>2, EventRecorded DEF Ask!AskStarted
  <2>. QED
    BY <1>7, <2>1, <2>3, EventKeeps DEF Ask!AskStarted
<1>8. ASSUME NEW d \in Dialogs, Ask!AskCompleted(d) PROVE AskInv'
  <2>1. PICK t \in {closed[d], Ask!Unknown} : Ask!RecordAskEvent(FlowOf[d], "completedAt", t)
    BY <1>8 DEF Ask!AskCompleted
  <2>2. t \in Ask!Times
    BY <1>1 DEF Ask!TypeOK, Ask!Times, Ask!Unknown
  <2>3. opened[d] # Ask!Unknown /\ Ask!InTime(d)
    BY <1>8 DEF Ask!AskCompleted, AskHistory
  <2>4. Recorded(d, "completedAt", t)
    BY <2>1, <2>2, <2>3, EventRecorded
  <2>. QED
    BY <1>8, <2>1, <2>4, EventKeeps DEF Ask!AskCompleted
<1>9. CASE Ask!Tick
  <2>1. now' \in 0..MaxTime /\ UNCHANGED <<life, tools, askFlows, ambiguous, opened, closed>>
    BY <1>1, <1>9 DEF Ask!Tick, Ask!TypeOK
  <2>. QED
    BY <2>1 DEF Ask!TypeOK, AskHistory, Ask!OwnDialogsOnly
<1>10. CASE UNCHANGED askVars
  BY <1>10 DEF askVars, Ask!TypeOK, AskHistory, Ask!OwnDialogsOnly
<1>. QED
  BY <1>2, <1>3, <1>4, <1>5, <1>6, <1>7, <1>8, <1>9, <1>10 DEF Ask!Next

(* A sum over a finite set, one element at a time.                         *)
SumsUp(h, H, G) ==
  /\ h[{}] = 0
  /\ \A s \in (SUBSET H) \ {{}} : \E x \in s : h[s] = h[s \ {x}] + G[x]

(* The sum of the sizes of disjoint sets is the size of their union.       *)
LEMMA SumIsCardinality ==
  ASSUME NEW H, IsFiniteSet(H), NEW seg, NEW G, NEW h, SumsUp(h, H, G),
         \A f \in H : IsFiniteSet(seg[f]) /\ Cardinality(seg[f]) = G[f],
         \A f, g \in H : f # g => seg[f] \cap seg[g] = {}
  PROVE  h[H] = Cardinality(UNION {seg[f] : f \in H})
<1>. DEFINE All(s) == UNION {seg[f] : f \in s}
            Right(s) == IsFiniteSet(All(s)) /\ h[s] = Cardinality(All(s))
            N == Cardinality(H)
            I == {n \in 0..N : \A s \in SUBSET H : Cardinality(s) = n => Right(s)}
<1>1. N \in Nat /\ \A s \in SUBSET H : IsFiniteSet(s) /\ Cardinality(s) \in 0..N
  BY FS_CardinalityType, FS_Subset
<1>2. 0 \in I
  <2>1. ASSUME NEW s \in SUBSET H, Cardinality(s) = 0 PROVE Right(s)
    <3>1. s = {} /\ All(s) = {}
      BY <1>1, <2>1, FS_EmptySet
    <3>2. h[s] = 0
      BY <3>1 DEF SumsUp
    <3>. QED
      BY <3>1, <3>2, FS_EmptySet
  <2>. QED
    BY <1>1, <2>1
<1>3. ASSUME NEW n \in 1..N, n - 1 \in I PROVE n \in I
  <2>1. ASSUME NEW s \in SUBSET H, Cardinality(s) = n PROVE Right(s)
    <3>1. s # {}
      BY <2>1, FS_EmptySet
    <3>2. PICK x \in s : h[s] = h[s \ {x}] + G[x]
      BY <3>1 DEF SumsUp
    <3>3. PICK rest : rest = s \ {x}
      OBVIOUS
    <3>4. rest \in SUBSET H /\ Cardinality(rest) = n - 1
      BY <1>1, <2>1, <3>2, <3>3, FS_RemoveElement
    <3>5. Right(rest)
      BY <1>3, <3>4
    <3>6. All(s) = All(rest) \cup seg[x]
      BY <3>2, <3>3
    <3>7. All(rest) \cap seg[x] = {}
      BY <3>2, <3>3, <3>4
    <3>8. IsFiniteSet(seg[x]) /\ Cardinality(seg[x]) = G[x]
      BY <3>2
    <3>. HIDE DEF All
    <3>9. /\ IsFiniteSet(All(rest) \cup seg[x])
          /\ Cardinality(All(rest) \cup seg[x])
               = Cardinality(All(rest)) + Cardinality(seg[x]) - Cardinality({})
      BY <3>5, <3>7, <3>8, FS_Union
    <3>10. Cardinality({}) = 0 /\ Cardinality(All(rest)) \in Nat /\ Cardinality(seg[x]) \in Nat
      BY <3>5, <3>8, FS_EmptySet, FS_CardinalityType
    <3>. QED
      BY <3>2, <3>3, <3>5, <3>6, <3>8, <3>9, <3>10
  <2>. QED
    BY <2>1
<1>. HIDE DEF I
<1>4. N \in I
  BY <1>1, <1>2, <1>3, InductionUpTo
<1>. QED
  BY <1>4 DEF I

(* What unionDurationMs adds up, flow by flow.                             *)
From(p, f) == Ask!Max({askFlows[p][f].startedAt}
                        \cup {askFlows[p][g].completedAt : g \in Ask!Before(p, f)})

Gain(p, f) == IF askFlows[p][f].completedAt > From(p, f)
              THEN askFlows[p][f].completedAt - From(p, f) ELSE 0

(* The waiting time that the code adds up flow by flow is the sum of what  *)
(* each flow adds.                                                         *)
LEMMA DurationSums ==
  ASSUME NEW p \in AskPrompts, NEW H, H = Ask!Held(p), IsFiniteSet(H), NEW G \in [H -> Nat],
         \A f \in H : G[f] = Gain(p, f)
  PROVE  \E h : SumsUp(h, H, G) /\ Ask!UnionDuration(p) = h[H]
<1>. DEFINE Body(k) == [s \in SUBSET H |->
                          IF s = {} THEN 0
                          ELSE k[s \ {CHOOSE x \in s : TRUE}] + Gain(p, CHOOSE x \in s : TRUE)]
<1>1. PICK k : k = CHOOSE h : h = Body(h)
  OBVIOUS
<1>2. Ask!UnionDuration(p) = k[H]
  BY <1>1 DEF Ask!UnionDuration, Ask!FoldSet, Ask!MapThenFoldSet, Gain, From
<1>3. PICK c : c = [s \in SUBSET H |-> CHOOSE x \in s : TRUE]
  OBVIOUS
<1>4. Takes(c, H) /\ \A s \in SUBSET H : c[s] = CHOOSE x \in s : TRUE
  BY <1>3 DEF Takes
<1>5. PICK g : g = [e \in H \X Nat |-> e[2] + G[e[1]]]
  OBVIOUS
<1>6. IsFold(g, H, Nat) /\ \A f \in H, v \in Nat : g[<<f, v>>] = v + G[f]
  BY <1>5 DEF IsFold
<1>7. PICK h : FoldsUp(h, H, Nat, 0, c, g)
  BY <1>4, <1>6, RecursionOnSubsets
<1>8. ASSUME NEW s \in (SUBSET H) \ {{}}, NEW x, x = c[s]
      PROVE  x \in s /\ h[s] = h[s \ {x}] + G[x]
  <2>1. x \in s /\ x \in H
    BY <1>4, <1>8 DEF Takes
  <2>2. h[s] = g[<<x, h[s \ {x}]>>] /\ h[s \ {x}] \in Nat
    BY <1>7, <1>8, <2>1 DEF FoldsUp
  <2>. QED
    BY <1>6, <2>1, <2>2
<1>9. h = Body(h)
  <2>1. h = [s \in SUBSET H |-> h[s]] /\ h[{}] = 0
    BY <1>7 DEF FoldsUp
  <2>2. ASSUME NEW s \in SUBSET H
        PROVE  h[s] = IF s = {} THEN 0
                      ELSE h[s \ {CHOOSE x \in s : TRUE}] + Gain(p, CHOOSE x \in s : TRUE)
    <3>1. CASE s = {}
      BY <2>1, <3>1
    <3>2. CASE s # {}
      <4>1. PICK x : x = CHOOSE y \in s : TRUE
        OBVIOUS
      <4>2. h[s] = h[s \ {x}] + Gain(p, x)
        <5>1. x \in H /\ x = c[s]
          BY <1>4, <3>2, <4>1
        <5>2. s \in (SUBSET H) \ {{}}
          BY <3>2
        <5>3. h[s] = h[s \ {x}] + G[x]
          BY <1>8, <5>1, <5>2
        <5>. QED
          BY <5>1, <5>3
      <4>. QED
        BY <3>2, <4>1, <4>2
    <3>. QED
      BY <3>1, <3>2
  <2>. QED
    BY <2>1, <2>2
<1>10. k = Body(k)
  <2>. HIDE DEF Body
  <2>. QED
    BY <1>1, <1>9
<1>11. SumsUp(k, H, G)
  <2>1. k[{}] = 0
    BY <1>10
  <2>2. ASSUME NEW s \in (SUBSET H) \ {{}} PROVE \E x \in s : k[s] = k[s \ {x}] + G[x]
    <3>1. PICK x \in s : x = CHOOSE y \in s : TRUE
      OBVIOUS
    <3>2. k[s] = k[s \ {x}] + Gain(p, x)
      BY <1>10, <3>1
    <3>. QED
      BY <3>1, <3>2
  <2>. QED
    BY <2>1, <2>2 DEF SumsUp
<1>. QED
  BY <1>2, <1>11

(* The part of a flow's interval that none before it covers.               *)
Segment(p, f) == {t \in 0..MaxTime : From(p, f) <= t /\ t < askFlows[p][f].completedAt}

MeasuredFlows(p) ==
  \A f \in Ask!Held(p) : Ask!Measured(askFlows[p][f])

(* Measured flows have both times.                                         *)
LEMMA FlowTimes ==
  ASSUME Ask!TypeOK, NEW p \in AskPrompts, MeasuredFlows(p), NEW f \in Ask!Held(p)
  PROVE  /\ askFlows[p][f].startedAt \in 0..MaxTime
         /\ askFlows[p][f].completedAt \in 0..MaxTime
         /\ f \in Ask!Flows /\ f \in Int
<1>1. f \in Ask!Flows /\ f \in Int
  BY AskAssumption DEF Ask!Held, Ask!Flows
<1>2. /\ askFlows[p][f].startedAt \in -1..MaxTime /\ askFlows[p][f].startedAt # -1
      /\ askFlows[p][f].completedAt \in -1..MaxTime
      /\ askFlows[p][f].completedAt >= askFlows[p][f].startedAt
  BY <1>1 DEF Ask!TypeOK, Ask!Times, Ask!Unknown, MeasuredFlows, Ask!Measured
<1>. QED
  BY <1>1, <1>2, AskAssumption

(* An interval is counted from where the intervals before it end.          *)
LEMMA FromIs ==
  ASSUME Ask!TypeOK, NEW p \in AskPrompts, MeasuredFlows(p), NEW f \in Ask!Held(p)
  PROVE  /\ From(p, f) \in 0..MaxTime
         /\ From(p, f) >= askFlows[p][f].startedAt
         /\ \A g \in Ask!Before(p, f) : From(p, f) >= askFlows[p][g].completedAt
         /\ \/ From(p, f) = askFlows[p][f].startedAt
            \/ \E g \in Ask!Before(p, f) : From(p, f) = askFlows[p][g].completedAt
<1>. DEFINE T == {askFlows[p][f].startedAt}
                   \cup {askFlows[p][g].completedAt : g \in Ask!Before(p, f)}
<1>1. \A g \in Ask!Before(p, f) : g \in Ask!Held(p)
  BY DEF Ask!Before
<1>2. T \in SUBSET (0..MaxTime) /\ T # {}
  BY <1>1, FlowTimes
<1>3. Max(T) \in T /\ \A t \in T : t <= Max(T)
  BY <1>2, AskAssumption, GreatestIs
<1>4. From(p, f) = Max(T)
  BY DEF From, Ask!Max, Max
<1>. QED
  BY <1>2, <1>3, <1>4

(* What a flow adds is the number of moments of its segment.               *)
LEMMA GainIsSize ==
  ASSUME Ask!TypeOK, NEW p \in AskPrompts, MeasuredFlows(p), NEW f \in Ask!Held(p)
  PROVE  /\ Gain(p, f) \in Nat /\ IsFiniteSet(Segment(p, f))
         /\ Cardinality(Segment(p, f)) = Gain(p, f)
<1>1. PICK a, b : a = From(p, f) /\ b = askFlows[p][f].completedAt
  OBVIOUS
<1>2. a \in 0..MaxTime /\ b \in 0..MaxTime /\ MaxTime \in Nat
  BY <1>1, FromIs, FlowTimes, AskAssumption
<1>3. Segment(p, f) = a..(b - 1)
  BY <1>1, <1>2 DEF Segment
<1>4. IsFiniteSet(a..(b - 1)) /\ Cardinality(a..(b - 1)) = IF a > b - 1 THEN 0 ELSE b - 1 - a + 1
  <2>1. a \in Int /\ b - 1 \in Int
    BY <1>2
  <2>. QED
    BY <2>1, FS_Interval
<1>5. Gain(p, f) = IF b > a THEN b - a ELSE 0
  BY <1>1 DEF Gain
<1>. QED
  BY <1>2, <1>3, <1>4, <1>5

(* The order of the intervals.                                             *)
LEMMA BeforeOrders ==
  ASSUME Ask!TypeOK, NEW p \in AskPrompts, MeasuredFlows(p)
  PROVE  /\ \A f, g \in Ask!Held(p) : f # g => f \in Ask!Before(p, g) \/ g \in Ask!Before(p, f)
         /\ \A f, g \in Ask!Held(p) : g \in Ask!Before(p, f) =>
              /\ askFlows[p][g].startedAt <= askFlows[p][f].startedAt
              /\ Ask!Before(p, g) \subseteq Ask!Before(p, f) /\ g \notin Ask!Before(p, g)
<1>1. \A f \in Ask!Held(p) : f \in Int /\ askFlows[p][f].startedAt \in Int
  BY FlowTimes
<1>. QED
  BY <1>1 DEF Ask!Before

(* No moment is counted twice: the segments of two flows do not meet.      *)
LEMMA SegmentsDisjoint ==
  ASSUME Ask!TypeOK, NEW p \in AskPrompts, MeasuredFlows(p),
         NEW f \in Ask!Held(p), NEW g \in Ask!Held(p), f # g
  PROVE  Segment(p, f) \cap Segment(p, g) = {}
<1>1. ASSUME NEW a \in Ask!Held(p), NEW b \in Ask!Held(p), a \in Ask!Before(p, b)
      PROVE  Segment(p, a) \cap Segment(p, b) = {}
  <2>1. From(p, b) >= askFlows[p][a].completedAt /\ From(p, b) \in Int
        /\ askFlows[p][a].completedAt \in Int
    BY <1>1, FromIs, FlowTimes
  <2>. QED
    BY <2>1 DEF Segment
<1>. QED
  BY <1>1, BeforeOrders

(* A moment at which a dialog is open is counted with the first flow that  *)
(* is open then.                                                           *)
LEMMA SegmentsCover ==
  ASSUME Ask!TypeOK, NEW p \in AskPrompts, MeasuredFlows(p), IsFiniteSet(Ask!Held(p)),
         NEW t \in 0..MaxTime
  PROVE  (\E f \in Ask!Held(p) : t \in Segment(p, f))
         <=> \E f \in Ask!Held(p) : /\ askFlows[p][f].startedAt <= t
                                    /\ t < askFlows[p][f].completedAt
<1>. DEFINE Open(f) == askFlows[p][f].startedAt <= t /\ t < askFlows[p][f].completedAt
<1>1. ASSUME NEW f \in Ask!Held(p), t \in Segment(p, f) PROVE Open(f)
  <2>1. From(p, f) >= askFlows[p][f].startedAt /\ From(p, f) \in Int
        /\ askFlows[p][f].startedAt \in Int
    BY FromIs, FlowTimes
  <2>. QED
    BY <1>1, <2>1 DEF Segment
<1>2. ASSUME NEW e \in Ask!Held(p), Open(e) PROVE \E f \in Ask!Held(p) : t \in Segment(p, f)
  <2>. DEFINE C == {f \in Ask!Held(p) : Open(f)}
              J == {Cardinality(Ask!Before(p, f)) : f \in C}
  <2>1. \A f \in Ask!Held(p) : /\ IsFiniteSet(Ask!Before(p, f))
                               /\ Cardinality(Ask!Before(p, f)) \in Nat
    BY FS_Subset, FS_CardinalityType DEF Ask!Before
  <2>2. J \in SUBSET Nat /\ J # {}
    BY <1>2, <2>1
  <2>3. PICK m \in J : \A j \in J : m <= j
    BY <2>2, MinIs
  <2>4. PICK f \in C : m = Cardinality(Ask!Before(p, f))
    OBVIOUS
  <2>5. ASSUME NEW g \in Ask!Before(p, f) PROVE ~(t < askFlows[p][g].completedAt)
    <3>1. SUFFICES ASSUME t < askFlows[p][g].completedAt PROVE FALSE
      OBVIOUS
    <3>2. g \in Ask!Held(p)
      BY DEF Ask!Before
    <3>3. /\ askFlows[p][g].startedAt <= askFlows[p][f].startedAt
          /\ Ask!Before(p, g) \subseteq Ask!Before(p, f) /\ g \notin Ask!Before(p, g)
      BY <2>5, <3>2, BeforeOrders
    <3>4. askFlows[p][g].startedAt \in Int /\ askFlows[p][f].startedAt \in Int
      BY <3>2, FlowTimes
    <3>5. g \in C
      BY <2>4, <3>1, <3>2, <3>3, <3>4
    <3>6. Cardinality(Ask!Before(p, g)) <= m /\ Cardinality(Ask!Before(p, g)) # m
      BY <2>1, <2>4, <2>5, <3>3, FS_Subset
    <3>7. Cardinality(Ask!Before(p, g)) >= m /\ m \in Nat
      BY <2>2, <2>3, <3>5
    <3>. QED
      BY <2>1, <3>2, <3>6, <3>7
  <2>6. From(p, f) <= t
    <3>1. \/ From(p, f) = askFlows[p][f].startedAt
          \/ \E g \in Ask!Before(p, f) : From(p, f) = askFlows[p][g].completedAt
      BY FromIs
    <3>2. From(p, f) \in Int
      BY FromIs
    <3>. QED
      BY <2>4, <2>5, <3>1, <3>2
  <2>7. t \in Segment(p, f)
    BY <2>4, <2>6 DEF Segment
  <2>. QED
    BY <2>7
<1>. QED
  BY <1>1, <1>2

(* The waiting time of a prompt is the number of moments at which one of   *)
(* its dialogs was open (unionDurationMs of ask-wait.ts).                  *)
LEMMA WaitIs == Ask!TypeOK => Ask!WaitIsTimeOpen
<1>. SUFFICES ASSUME Ask!TypeOK, NEW p \in AskPrompts, Ask!AskWaitStatus(p) = "measured"
              PROVE  Ask!UnionDuration(p) =
                       Cardinality({t \in 0..MaxTime :
                         \E f \in Ask!Held(p) : /\ askFlows[p][f].startedAt <= t
                                                /\ t < askFlows[p][f].completedAt})
  BY SameCardinalityInAsk DEF Ask!WaitIsTimeOpen
<1>1. MeasuredFlows(p)
  BY DEF Ask!AskWaitStatus, MeasuredFlows
<1>2. PICK H : H = Ask!Held(p)
  OBVIOUS
<1>3. IsFiniteSet(H)
  <2>1. Ask!Flows = {FlowOf[d] : d \in Dialogs}
    BY DEF Ask!Flows
  <2>2. IsFiniteSet(Ask!Flows)
    <3>1. FlowOf \in Surjection(Dialogs, Ask!Flows)
      BY <2>1, AskAssumption DEF Surjection
    <3>. QED
      BY <3>1, AskAssumption, FS_Surjection
  <2>. QED
    BY <1>2, <2>2, FS_Subset DEF Ask!Held
<1>4. PICK G, seg : G = [f \in H |-> Gain(p, f)] /\ seg = [f \in H |-> Segment(p, f)]
  OBVIOUS
<1>5. /\ G \in [H -> Nat] /\ \A f \in H : G[f] = Gain(p, f) /\ seg[f] = Segment(p, f)
      /\ \A f \in H : IsFiniteSet(seg[f]) /\ Cardinality(seg[f]) = G[f]
  BY <1>1, <1>2, <1>4, GainIsSize
<1>6. PICK h : SumsUp(h, H, G) /\ Ask!UnionDuration(p) = h[H]
  BY <1>2, <1>3, <1>5, DurationSums
<1>7. \A f, g \in H : f # g => seg[f] \cap seg[g] = {}
  BY <1>1, <1>2, <1>5, SegmentsDisjoint
<1>8. h[H] = Cardinality(UNION {seg[f] : f \in H})
  BY <1>3, <1>5, <1>6, <1>7, SumIsCardinality
<1>9. UNION {seg[f] : f \in H} =
        {t \in 0..MaxTime : \E f \in H : /\ askFlows[p][f].startedAt <= t
                                         /\ t < askFlows[p][f].completedAt}
  <2>1. \A t : t \in UNION {seg[f] : f \in H} <=> \E f \in H : t \in Segment(p, f)
    BY <1>5
  <2>2. \A f \in H : Segment(p, f) \subseteq 0..MaxTime
    BY DEF Segment
  <2>3. \A t \in 0..MaxTime : (\E f \in H : t \in Segment(p, f))
          <=> \E f \in H : /\ askFlows[p][f].startedAt <= t
                           /\ t < askFlows[p][f].completedAt
    BY <1>1, <1>2, <1>3, SegmentsCover
  <2>. QED
    BY <2>1, <2>2, <2>3
<1>. QED
  BY <1>2, <1>6, <1>8, <1>9

-----------------------------------------------------------------------------
(* An export                                                               *)

Phases == {"arguments", "plan", "refused", "copy", "scan", "finish", "report",
           "done", "interrupted"}
Idle   == {"arguments", "plan", "refused"}

Value   == Tokens \cup {Missing}
Options == [expects : Export!ValueOptions \cup {Missing}, error : BOOLEAN,
            format : Value, consent : Value, sessions : BOOLEAN, raw : BOOLEAN,
            trufflehog : BOOLEAN, required : BOOLEAN]

ExportTyped ==
  /\ phase \in Phases
  /\ args \in Seq(Seq(Tokens)) /\ opts \in Options
  /\ DOMAIN disk = {"derivatives", "records", "report"}
  /\ DOMAIN tally = {"dirty", "dropped"}

(* Nothing is written before the command line and what it meets are known  *)
(* and have been accepted.                                                 *)
Planned ==
  /\ phase # "arguments" =>
       opts = Export!ParseArgs(Export!FlattenSeq(args)) /\ world \in Export!Worlds
  /\ phase \in Idle => /\ disk = Export!Empty /\ status = <<>>
                       /\ tally.dirty = 0 /\ tally.dropped = 0
  /\ phase \notin Idle => /\ ~Export!DestinationProblem
                          /\ Export!Training => ~Export!TrainingProblem

(* The derivatives and their status, before and after the external scan.   *)
BuiltInVerdict == \A s \in Export!Copied :
  status[s] = IF s \in Leaky THEN "rejected" ELSE "approved"

Scanned ==
  \/ opts.trufflehog /\ \E end \in Export!ScannerEnds : scan = Export!RunTrufflehog(end)
  \/ ~opts.trufflehog /\ scan = Export!SkippedTrufflehog

Judged ==
  /\ Export!Copied \subseteq Export!Inputs /\ disk.derivatives = Export!Copied
  /\ phase \in {"scan", "finish", "report", "done"} => Export!Copied = Export!Inputs
  /\ phase \in {"copy", "scan"} => BuiltInVerdict
  /\ phase \in {"finish", "report", "done"} =>
       /\ Scanned
       /\ IF opts.trufflehog /\ Export!ScanRejectsFiles(scan)
          THEN \A s \in Export!Copied : status[s] = "rejected" ELSE BuiltInVerdict

(* The review records, and the count of those that are left out.           *)
CleanTraces == (Export!Inputs \cap Raw) \ Leaky
Found       == UNION {Samples[s] : s \in CleanTraces}

Tallied ==
  /\ phase = "copy" => disk.records = {} /\ tally.dirty = 0 /\ tally.dropped = 0
  /\ phase \in {"scan", "finish"} =>
       /\ Export!Training => /\ disk.records = Found \ DirtySamples
                             /\ tally.dirty = Cardinality(Found \cap DirtySamples)
       /\ tally.dropped = 0
  /\ phase \in {"report", "done"} /\ Export!Training =>
       /\ tally.dirty = Cardinality(Found \cap DirtySamples)
       /\ IF Export!ScanSucceeded(scan)
          THEN disk.records = Found \ DirtySamples /\ tally.dropped = 0
          ELSE /\ disk.records = {}
               /\ tally.dropped = Cardinality(Found \ DirtySamples)
  /\ disk.records # {} => Export!Training

Reported == phase = "done" =>
  LET r == disk.report IN
  /\ r.status = Export!ExportStatus
  /\ r.approved = {s \in Export!Copied : status[s] = "approved"}
  /\ r.rejected = Export!Copied \ r.approved
  /\ r.accepted = Cardinality(disk.records)
  /\ r.dropped  = tally.dirty + tally.dropped

ExportInv == ExportTyped /\ Planned /\ Judged /\ Tallied /\ Reported

(* Options stay options with each token.                                   *)
LEMMA ApplyTyped ==
  ASSUME NEW o \in Options, NEW t \in Tokens
  PROVE  Export!ApplyToken(o, t) \in Options
<1>. USE DEF Options, Value, Export!ValueOptions
<1>1. ASSUME NEW x \in Options PROVE Export!ApplyFlag(x, t) \in Options
  BY <1>1 DEF Export!ApplyFlag
<1>2. ASSUME o.expects # Missing PROVE Export!ApplyValue(o, t) \in Options
  <2>1. o.expects \in {"--format", "--license", "--consent"}
    BY <1>2
  <2>2. CASE o.expects = "--format"
    BY <2>2 DEF Export!ApplyValue
  <2>3. CASE o.expects = "--consent"
    BY <2>3 DEF Export!ApplyValue
  <2>4. CASE o.expects = "--license"
    BY <2>4 DEF Export!ApplyValue
  <2>. QED
    BY <2>1, <2>2, <2>3, <2>4
<1>3. [o EXCEPT !.expects = Missing, !.error = TRUE] \in Options
  OBVIOUS
<1>4. CASE o.expects # Missing /\ t \notin Export!Recognized
  BY <1>2, <1>4 DEF Export!ApplyToken
<1>5. CASE o.expects # Missing /\ t \in Export!Recognized
  BY <1>1, <1>3, <1>5 DEF Export!ApplyToken
<1>6. CASE o.expects = Missing
  BY <1>1, <1>6 DEF Export!ApplyToken
<1>. QED
  BY <1>4, <1>5, <1>6

(* What a token does to the value that is missing, and to the consent.     *)
LEMMA ApplySays ==
  ASSUME NEW o \in Options, NEW t \in Tokens, NEW n, n = Export!ApplyToken(o, t), ~n.error
  PROVE  /\ ~o.error
         /\ \/ /\ o.expects = Missing /\ n.consent = o.consent
               /\ n.expects = IF t \in Export!ValueOptions THEN t ELSE Missing
            \/ /\ o.expects # Missing /\ t \notin Export!Recognized
               /\ n.expects = Missing
               /\ n.consent = IF o.expects = "--consent" THEN t ELSE o.consent
<1>. USE DEF Options, Export!ValueOptions
<1>1. ASSUME NEW x \in Options, x.expects = Missing
      PROVE  LET f == Export!ApplyFlag(x, t) IN
             /\ f.error = x.error /\ f.consent = x.consent
             /\ f.expects = IF t \in Export!ValueOptions THEN t ELSE Missing
  BY <1>1 DEF Export!ApplyFlag
<1>2. CASE o.expects # Missing /\ t \notin Export!Recognized
  <2>1. n = Export!ApplyValue(o, t)
    BY <1>2 DEF Export!ApplyToken
  <2>2. CASE o.expects = "--format"
    BY <1>2, <2>1, <2>2 DEF Export!ApplyValue
  <2>3. CASE o.expects = "--consent"
    BY <1>2, <2>1, <2>3 DEF Export!ApplyValue
  <2>4. CASE o.expects = "--license"
    BY <1>2, <2>1, <2>4 DEF Export!ApplyValue
  <2>. QED
    BY <1>2, <2>2, <2>3, <2>4
<1>3. CASE o.expects # Missing /\ t \in Export!Recognized
  <2>1. PICK x : x = [o EXCEPT !.expects = Missing, !.error = TRUE]
    OBVIOUS
  <2>2. x \in Options /\ x.expects = Missing /\ x.error
    BY <2>1
  <2>3. n = Export!ApplyFlag(x, t)
    BY <1>3, <2>1 DEF Export!ApplyToken
  <2>. QED
    BY <1>1, <2>2, <2>3
<1>4. CASE o.expects = Missing
  BY <1>1, <1>4 DEF Export!ApplyToken
<1>. QED
  BY <1>2, <1>3, <1>4

(* The parse, token by token.                                              *)
ParsesAs(k, q) ==
  /\ k \in [0..Len(q) -> Options] /\ k[0] = Export!Defaults
  /\ \A n \in 1..Len(q) : k[n] = Export!ApplyToken(k[n - 1], q[n])

(* ParseArgs is the last of the options that its loop goes through.        *)
LEMMA ParseSteps ==
  ASSUME NEW q \in Seq(Tokens)
  PROVE  \E k, o : /\ ParsesAs(k, q) /\ o = k[Len(q)]
                   /\ Export!ParseArgs(q) =
                        [o EXCEPT !.error = o.error \/ o.expects # Missing
                                              \/ o.format \notin {Missing, "chat"}]
<1>. DEFINE N       == Len(q)
            G(n, v) == Export!ApplyToken(v, q[n])
            Body(k) == [n \in 0..N |-> IF n = 0 THEN Export!Defaults ELSE G(n, k[n - 1])]
<1>1. N \in Nat /\ \A n \in 1..N, v \in Options : G(n, v) \in Options
  <2>1. ASSUME NEW n \in 1..N, NEW v \in Options PROVE G(n, v) \in Options
    <3>1. q[n] \in Tokens
      OBVIOUS
    <3>. QED
      BY <3>1, ApplyTyped
  <2>. QED
    BY <2>1
<1>2. Export!Defaults \in Options
  BY DEF Export!Defaults, Options, Value
<1>3. PICK k : k = CHOOSE h : h = Body(h)
  OBVIOUS
<1>4. PICK o : o = k[N]
  OBVIOUS
<1>5. Export!ParseArgs(q) = [o EXCEPT !.error = o.error \/ o.expects # Missing
                                                 \/ o.format \notin {Missing, "chat"}]
  BY <1>3, <1>4 DEF Export!ParseArgs
<1>6. SUFFICES /\ k \in [0..N -> Options] /\ k[0] = Export!Defaults
               /\ \A n \in 1..N : k[n] = G(n, k[n - 1])
  BY <1>4, <1>5 DEF ParsesAs
<1>. HIDE DEF N, G
<1>7. PICK f \in [0..N -> Options] :
        f[0] = Export!Defaults /\ \A n \in 1..N : f[n] = G(n, f[n - 1])
  <2>1. PICK g : g = [x \in (1..N) \X Options |-> G(x[1], x[2])]
    OBVIOUS
  <2>2. g \in [(1..N) \X Options -> Options] /\ \A n \in 1..N, v \in Options : g[<<n, v>>] = G(n, v)
    BY <1>1, <2>1
  <2>3. PICK f : Unrolls(f, N, Options, Export!Defaults, g)
    <3>1. IsStep(g, N, Options)
      BY <2>2 DEF IsStep
    <3>. QED
      BY <1>1, <1>2, <3>1, RecursionUpTo
  <2>4. f \in [0..N -> Options] /\ \A n \in 1..N : f[n - 1] \in Options
    BY <1>1, <2>3 DEF Unrolls
  <2>. QED
    BY <2>2, <2>3, <2>4 DEF Unrolls
<1>8. f = Body(f)
  BY <1>1, <1>7
<1>9. k = Body(k)
  <2>. HIDE DEF Body
  <2>. QED
    BY <1>3, <1>8
<1>10. k[0] = Export!Defaults /\ \A n \in 1..N : k[n] = G(n, k[n - 1])
  BY <1>1, <1>9
<1>11. k \in [0..N -> Options]
  <2>. DEFINE I == {n \in 0..N : k[n] \in Options}
  <2>1. 0 \in I
    BY <1>1, <1>2, <1>10
  <2>2. ASSUME NEW n \in 1..N, n - 1 \in I PROVE n \in I
    BY <1>1, <1>10, <2>2
  <2>. HIDE DEF I
  <2>3. 0..N \subseteq I
    BY <1>1, <2>1, <2>2, InductionUpTo
  <2>. QED
    BY <1>9, <2>3 DEF I
<1>. QED
  BY <1>10, <1>11

(* The consent that is parsed is the last one that is declared.            *)
LastConsent(q, n, c) ==
  \/ c = Missing /\ \A j \in 1..n : q[j] # "--consent"
  \/ \E j \in 1..n : /\ j < Len(q) /\ q[j] = "--consent" /\ c = q[j + 1]
                     /\ \A i \in (j + 1)..n : q[i] # "--consent"

(* The parsed consent is the last one declared, wherever options swallow   *)
(* no values.                                                              *)
LEMMA ConsentIs ==
  ASSUME NEW q \in Seq(Tokens), NEW o, o = Export!ParseArgs(q), ~o.error
  PROVE  LastConsent(q, Len(q), o.consent)
<1>1. PICK k, l : /\ ParsesAs(k, q) /\ l = k[Len(q)]
                  /\ o = [l EXCEPT !.error = l.error \/ l.expects # Missing
                                               \/ l.format \notin {Missing, "chat"}]
  BY ParseSteps
<1>. DEFINE N == Len(q)
<1>2. N \in Nat /\ k \in [0..N -> Options] /\ k[0] = Export!Defaults
      /\ \A n \in 1..N : k[n] = Export!ApplyToken(k[n - 1], q[n]) /\ q[n] \in Tokens
  BY <1>1 DEF ParsesAs
<1>3. l \in Options /\ ~l.error /\ l.expects = Missing /\ o.consent = l.consent
  <2>1. l \in Options
    BY <1>1, <1>2
  <2>2. o.error = (l.error \/ l.expects # Missing \/ l.format \notin {Missing, "chat"})
        /\ o.consent = l.consent
    BY <1>1, <2>1 DEF Options
  <2>. QED
    BY <2>1, <2>2
<1>. DEFINE Says(n) == ~k[n].error =>
              /\ n > 0 => (k[n].expects = "--consent" <=> q[n] = "--consent")
              /\ n = 0 => k[n].expects # "--consent"
              /\ LastConsent(q, n - 1, k[n].consent)
            I == {n \in 0..N : Says(n)}
<1>4. Missing # "--consent"
  BY ExportAssumption DEF Export!Recognized, Export!ValueOptions
<1>5. 0 \in I
  BY <1>2, <1>4 DEF Export!Defaults, LastConsent
<1>6. ASSUME NEW n \in 1..N, n - 1 \in I PROVE n \in I
  <2>1. SUFFICES ASSUME ~k[n].error PROVE Says(n)
    OBVIOUS
  <2>2. PICK x : x = k[n - 1]
    OBVIOUS
  <2>3. PICK y : y = k[n]
    OBVIOUS
  <2>4. x \in Options /\ y = Export!ApplyToken(x, q[n]) /\ q[n] \in Tokens /\ ~y.error
    BY <1>2, <2>1, <2>2, <2>3
  <2>5. /\ ~x.error
        /\ \/ /\ x.expects = Missing /\ y.consent = x.consent
              /\ y.expects = IF q[n] \in Export!ValueOptions THEN q[n] ELSE Missing
           \/ /\ x.expects # Missing /\ q[n] \notin Export!Recognized
              /\ y.expects = Missing
              /\ y.consent = IF x.expects = "--consent" THEN q[n] ELSE x.consent
    BY <2>4, ApplySays
  <2>6. /\ n - 1 > 0 => (x.expects = "--consent" <=> q[n - 1] = "--consent")
        /\ n - 1 = 0 => x.expects # "--consent"
        /\ LastConsent(q, n - 2, x.consent)
    BY <1>6, <2>2, <2>5
  <2>7. y.expects = "--consent" <=> q[n] = "--consent"
    BY <1>4, <2>5 DEF Export!ValueOptions, Export!Recognized
  <2>8. LastConsent(q, n - 1, y.consent)
    <3>1. CASE x.expects # "--consent"
      <4>1. y.consent = x.consent
        BY <2>5, <3>1
      <4>2. n - 1 > 0 => q[n - 1] # "--consent"
        BY <2>6, <3>1
      <4>3. CASE x.consent = Missing /\ \A j \in 1..(n - 2) : q[j] # "--consent"
        BY <1>2, <4>1, <4>2, <4>3 DEF LastConsent
      <4>4. ASSUME NEW j \in 1..(n - 2), j < Len(q), q[j] = "--consent", x.consent = q[j + 1],
                   \A i \in (j + 1)..(n - 2) : q[i] # "--consent"
            PROVE  LastConsent(q, n - 1, y.consent)
        <5>1. j \in 1..(n - 1) /\ \A i \in (j + 1)..(n - 1) : q[i] # "--consent"
          BY <1>2, <4>2, <4>4
        <5>. QED
          BY <4>1, <4>4, <5>1 DEF LastConsent
      <4>. QED
        BY <2>6, <4>3, <4>4 DEF LastConsent
    <3>2. CASE x.expects = "--consent"
      <4>1. n - 1 \in 1..(n - 1) /\ n - 1 < Len(q) /\ q[n - 1] = "--consent"
        BY <1>2, <2>6, <3>2
      <4>2. y.consent = q[(n - 1) + 1]
        BY <1>4, <2>5, <3>2
      <4>3. \A i \in ((n - 1) + 1)..(n - 1) : q[i] # "--consent"
        BY <1>2
      <4>. QED
        BY <4>1, <4>2, <4>3 DEF LastConsent
    <3>. QED
      BY <3>1, <3>2
  <2>. QED
    BY <2>3, <2>7, <2>8
<1>. HIDE DEF I, Says
<1>7. Says(N)
  <2>1. 0..N \subseteq I
    BY <1>2, <1>5, <1>6, InductionUpTo
  <2>. QED
    BY <1>2, <2>1 DEF I
<1>8. /\ N > 0 => q[N] # "--consent"
      /\ LastConsent(q, N - 1, o.consent)
  BY <1>1, <1>3, <1>4, <1>7 DEF Says
<1>9. CASE o.consent = Missing /\ \A j \in 1..(N - 1) : q[j] # "--consent"
  BY <1>2, <1>8, <1>9 DEF LastConsent
<1>10. ASSUME NEW j \in 1..(N - 1), q[j] = "--consent", o.consent = q[j + 1],
              \A i \in (j + 1)..(N - 1) : q[i] # "--consent"
       PROVE  LastConsent(q, N, o.consent)
  <2>1. j \in 1..N /\ j < Len(q) /\ \A i \in (j + 1)..N : q[i] # "--consent"
    BY <1>2, <1>8, <1>10
  <2>. QED
    BY <1>10, <2>1 DEF LastConsent
<1>. QED
  BY <1>8, <1>9, <1>10 DEF LastConsent

(* A command line parses to options.                                       *)
LEMMA ParseTyped ==
  ASSUME NEW q \in Seq(Tokens)
  PROVE  Export!ParseArgs(q) \in Options
<1>1. PICK k, o : /\ ParsesAs(k, q) /\ o = k[Len(q)]
                  /\ Export!ParseArgs(q) =
                       [o EXCEPT !.error = o.error \/ o.expects # Missing
                                             \/ o.format \notin {Missing, "chat"}]
  BY ParseSteps
<1>2. o \in Options
  BY <1>1 DEF ParsesAs
<1>3. (o.error \/ o.expects # Missing \/ o.format \notin {Missing, "chat"}) \in BOOLEAN
  OBVIOUS
<1>. QED
  BY <1>1, <1>2, <1>3 DEF Options

(* The cardinality that ExportPipeline speaks of is the library's.         *)
LEMMA SameCardinalityInExport == \A S : Export!Cardinality(S) = Cardinality(S)
  BY DEF Export!Cardinality, Cardinality

(* The pieces of a command line, one after the other.                      *)
LEMMA FlattenTyped ==
  ASSUME NEW s \in Seq(Seq(Tokens))
  PROVE  Export!FlattenSeq(s) \in Seq(Tokens)
<1>. DEFINE N       == Len(s)
            G(i, v) == IF i = 1 THEN s[i] ELSE v \o s[i]
            Body(h) == [i \in 1..N |-> G(i, h[i - 1])]
<1>1. N \in Nat /\ \A i \in 1..N : s[i] \in Seq(Tokens)
  OBVIOUS
<1>2. CASE N = 0
  <2>1. s = <<>>
    BY <1>2
  <2>. QED
    BY <1>2, <2>1 DEF Export!FlattenSeq
<1>3. CASE N # 0
  <2>1. PICK k : k = CHOOSE h : h = Body(h)
    OBVIOUS
  <2>2. Export!FlattenSeq(s) = k[N]
    BY <1>3, <2>1 DEF Export!FlattenSeq
  <2>3. PICK g : g = [x \in (1..N) \X Seq(Tokens) |-> G(x[1], x[2])]
    OBVIOUS
  <2>4. /\ g \in [(1..N) \X Seq(Tokens) -> Seq(Tokens)]
        /\ \A i \in 1..N, v \in Seq(Tokens) : g[<<i, v>>] = G(i, v)
    <3>1. ASSUME NEW i \in 1..N, NEW v \in Seq(Tokens) PROVE G(i, v) \in Seq(Tokens)
      BY <1>1
    <3>. HIDE DEF G
    <3>. QED
      BY <2>3, <3>1
  <2>. HIDE DEF G
  <2>5. PICK f : Unrolls(f, N, Seq(Tokens), <<>>, g)
    <3>1. IsStep(g, N, Seq(Tokens)) /\ <<>> \in Seq(Tokens)
      BY <2>4 DEF IsStep
    <3>. QED
      BY <1>1, <3>1, RecursionUpTo
  <2>6. f \in [0..N -> Seq(Tokens)] /\ \A i \in 1..N : f[i] = G(i, f[i - 1])
    <3>1. f \in [0..N -> Seq(Tokens)] /\ \A i \in 1..N : f[i - 1] \in Seq(Tokens)
      <4>. DEFINE T == Seq(Tokens)
      <4>1. Unrolls(f, N, T, <<>>, g)
        BY <2>5
      <4>. HIDE DEF T, N
      <4>2. f \in [0..N -> T] /\ \A i \in 1..N : f[i - 1] \in T
        BY <1>1, <4>1 DEF Unrolls
      <4>. QED
        BY <4>2 DEF T, N
    <3>. QED
      BY <2>4, <2>5, <3>1 DEF Unrolls
  <2>7. PICK h : h = [i \in 1..N |-> f[i]]
    OBVIOUS
  <2>8. \A i \in 1..N : G(i, h[i - 1]) = G(i, f[i - 1])
    BY <1>1, <2>7 DEF G
  <2>9. h = Body(h)
    BY <2>6, <2>7, <2>8
  <2>10. k = Body(k)
    <3>. HIDE DEF Body
    <3>. QED
      BY <2>1, <2>9
  <2>11. \A i \in 1..N : k[i] = G(i, k[i - 1])
    BY <2>10
  <2>. DEFINE I == {i \in 0..N : i # 0 => k[i] \in Seq(Tokens)}
  <2>12. 0 \in I
    BY <1>1
  <2>13. ASSUME NEW i \in 1..N, i - 1 \in I PROVE i \in I
    <3>1. k[i] = G(i, k[i - 1])
      BY <2>11
    <3>2. CASE i = 1
      BY <1>1, <3>1, <3>2 DEF G
    <3>3. CASE i # 1
      <4>1. k[i - 1] \in Seq(Tokens)
        BY <2>13, <3>3
      <4>2. k[i] = k[i - 1] \o s[i] /\ s[i] \in Seq(Tokens)
        BY <1>1, <3>1, <3>3 DEF G
      <4>3. k[i] \in Seq(Tokens)
        BY <4>1, <4>2
      <4>. QED
        BY <1>1, <4>3
    <3>. QED
      BY <3>2, <3>3
  <2>. HIDE DEF I
  <2>14. 0..N \subseteq I
    BY <1>1, <2>12, <2>13, InductionUpTo
  <2>. QED
    BY <1>1, <1>3, <2>2, <2>14 DEF I
<1>. QED
  BY <1>2, <1>3

(* An accepted command line that denies consent, or meets a configuration  *)
(* that does, lifts the denial.                                            *)
LEMMA DenialLifted == ExportInv => Export!DenialHonoured
<1>. SUFFICES ASSUME ExportInv, disk.records # {} PROVE Export!DenialHonoured
  BY DEF Export!DenialHonoured
<1>1. Export!Training /\ args \in Seq(Seq(Tokens)) /\ phase \notin Idle
  <2>1. phase \in Idle => disk.records = {}
    BY DEF ExportInv, Planned, Export!Empty
  <2>. QED
    BY <2>1 DEF ExportInv, ExportTyped, Tallied
<1>2. /\ ~opts.error /\ Export!Consent \in {"unknown", "granted"}
      /\ opts = Export!ParseArgs(Export!FlattenSeq(args))
  BY <1>1 DEF ExportInv, Planned, Idle, Export!DestinationProblem, Export!TrainingProblem
<1>3. PICK q : q = Export!FlattenSeq(args)
  OBVIOUS
<1>4. q \in Seq(Tokens)
  BY <1>1, <1>3, FlattenTyped
<1>5. LastConsent(q, Len(q), opts.consent)
  BY <1>2, <1>3, <1>4, ConsentIs
<1>. DEFINE Declares(k, c) == k < Len(q) /\ q[k] = "--consent" /\ q[k + 1] = c
            LiftedFrom(k)  == \E j \in k..Len(q) : Declares(j, "granted") \/ Declares(j, "unknown")
<1>6. Len(q) \in Nat /\ DOMAIN q = 1..Len(q)
  BY <1>4
<1>7. /\ world.consent = "denied" => LiftedFrom(1)
      /\ \A k \in DOMAIN q : Declares(k, "denied") => LiftedFrom(k)
  <2>1. CASE opts.consent = Missing /\ \A j \in 1..Len(q) : q[j] # "--consent"
    BY <1>2, <1>6, <2>1 DEF Export!Consent
  <2>2. ASSUME NEW j \in 1..Len(q), j < Len(q), q[j] = "--consent", opts.consent = q[j + 1],
               \A i \in (j + 1)..Len(q) : q[i] # "--consent"
        PROVE  /\ LiftedFrom(1)
               /\ \A k \in DOMAIN q : Declares(k, "denied") => LiftedFrom(k)
    <3>1. q[j + 1] \in Tokens /\ Missing \notin Tokens
      BY <1>4, <1>6, <2>2, ExportAssumption
    <3>2. Declares(j, "granted") \/ Declares(j, "unknown")
      BY <1>2, <2>2, <3>1 DEF Export!Consent
    <3>3. ASSUME NEW k \in DOMAIN q, q[k] = "--consent" PROVE j \in k..Len(q)
      BY <1>6, <2>2, <3>3
    <3>. QED
      BY <1>6, <3>2, <3>3
  <2>. QED
    BY <1>5, <2>1, <2>2 DEF LastConsent
<1>. QED
  BY <1>3, <1>7 DEF Export!DenialHonoured

(* The invariant of the export holds at the start.                         *)
LEMMA ExportBegins == Export!Init => ExportInv
<1>. SUFFICES ASSUME Export!Init PROVE ExportInv
  OBVIOUS
<1>. USE DEF Export!Init
<1>1. ExportTyped
  BY DEF ExportTyped, Phases, Options, Value, Export!Defaults, Export!Empty
<1>2. Planned
  BY DEF Planned, Idle
<1>3. Judged
  <2>1. Export!Copied = {}
    BY DEF Export!Copied
  <2>. QED
    BY <2>1 DEF Judged, Export!Empty
<1>4. Tallied
  BY DEF Tallied, Export!Empty
<1>5. Reported
  BY DEF Reported
<1>. QED
  BY <1>1, <1>2, <1>3, <1>4, <1>5 DEF ExportInv

(* What is known of an export that has been planned stays as it is.        *)
PlanStays ==
  /\ UNCHANGED <<args, opts, world>>
  /\ Export!Inputs' = Export!Inputs /\ CleanTraces' = CleanTraces /\ Found' = Found
  /\ (Export!Training <=> Export!Training')
  /\ (Export!DestinationProblem <=> Export!DestinationProblem')
  /\ (Export!TrainingProblem <=> Export!TrainingProblem')
  /\ \A end : Export!RunTrufflehog(end)' = Export!RunTrufflehog(end)

(* In particular by a step that touches neither the options nor the       *)
(* files.                                                                  *)
LEMMA PlanKept == UNCHANGED <<args, opts, world>> => PlanStays
<1>. SUFFICES ASSUME UNCHANGED <<args, opts, world>> PROVE PlanStays
  OBVIOUS
<1>1. Export!Inputs' = Export!Inputs /\ (Export!Training <=> Export!Training')
  BY DEF Export!Inputs, Export!Training
<1>2. CleanTraces' = CleanTraces /\ Found' = Found
  BY <1>1 DEF CleanTraces, Found
<1>3. /\ (Export!DestinationProblem <=> Export!DestinationProblem')
      /\ (Export!TrainingProblem <=> Export!TrainingProblem')
  BY DEF Export!DestinationProblem, Export!TrainingProblem, Export!Consent
<1>4. ASSUME NEW end PROVE Export!RunTrufflehog(end)' = Export!RunTrufflehog(end)
  BY DEF Export!RunTrufflehog, Export!Training
<1>. QED
  BY <1>1, <1>2, <1>3, <1>4 DEF PlanStays

(* Before the export begins.                                               *)
LEMMA PlanningKeeps ==
  ASSUME ExportInv, Export!Argument \/ Export!Parse \/ Export!Refuse \/ Export!Accept
  PROVE  ExportInv'
<1>. USE DEF ExportInv, Phases, Idle
<1>1. /\ phase \in {"arguments", "plan"} /\ phase' \in Phases /\ status' = status
      /\ disk' = disk /\ tally' = tally /\ scan' = scan
      /\ disk = Export!Empty /\ status = <<>> /\ tally.dirty = 0 /\ tally.dropped = 0
  BY DEF Export!Argument, Export!Parse, Export!Refuse, Export!Accept, Planned
<1>2. Export!Copied = {} /\ Export!Copied' = {}
  BY <1>1 DEF Export!Copied
<1>3. phase' \in {"arguments", "plan", "refused", "copy"}
  BY <1>1 DEF Export!Argument, Export!Parse, Export!Refuse, Export!Accept
<1>4. ExportTyped'
  <2>1. args' \in Seq(Seq(Tokens))
    <3>1. CASE Export!Argument
      <4>1. PICK a \in Arguments : args' = Append(args, a)
        BY <3>1 DEF Export!Argument
      <4>2. a \in Seq(Tokens) /\ args \in Seq(Seq(Tokens))
        BY <4>1, ExportAssumption DEF ExportTyped
      <4>. QED
        BY <4>1, <4>2
    <3>2. CASE args' = args
      BY <3>2 DEF ExportTyped
    <3>. QED
      BY <3>1, <3>2 DEF Export!Parse, Export!Refuse, Export!Accept
  <2>2. opts' \in Options
    <3>1. CASE Export!Parse
      <4>1. PICK q : q = Export!FlattenSeq(args)
        OBVIOUS
      <4>2. q \in Seq(Tokens)
        BY <4>1, FlattenTyped DEF ExportTyped
      <4>. QED
        BY <3>1, <4>1, <4>2, ParseTyped DEF Export!Parse
    <3>2. CASE opts' = opts
      BY <3>2 DEF ExportTyped
    <3>. QED
      BY <3>1, <3>2 DEF Export!Argument, Export!Refuse, Export!Accept
  <2>. QED
    BY <1>1, <2>1, <2>2 DEF ExportTyped
<1>5. Planned'
  <2>1. CASE Export!Argument
    BY <1>1, <2>1 DEF Planned, Export!Argument
  <2>2. CASE Export!Parse
    BY <1>1, <2>2 DEF Planned, Export!Parse
  <2>3. CASE Export!Refuse \/ Export!Accept
    <3>1. PlanStays
      BY <2>3, PlanKept DEF Export!Refuse, Export!Accept
    <3>2. phase' # "arguments" =>
            opts = Export!ParseArgs(Export!FlattenSeq(args)) /\ world \in Export!Worlds
      BY <2>3 DEF Planned, Export!Refuse, Export!Accept
    <3>3. phase' \notin Idle => ~Export!DestinationProblem
                                /\ (Export!Training => ~Export!TrainingProblem)
      BY <2>3 DEF Export!Refuse, Export!Accept
    <3>. QED
      BY <1>1, <3>1, <3>2, <3>3 DEF Planned, PlanStays
  <2>. QED
    BY <2>1, <2>2, <2>3
<1>6. Judged'
  BY <1>1, <1>2, <1>3 DEF Judged, BuiltInVerdict, Export!Empty
<1>7. Tallied' /\ Reported'
  BY <1>1, <1>3 DEF Tallied, Reported, Export!Empty
<1>. QED
  BY <1>4, <1>5, <1>6, <1>7

(* A derivative is written and judged by the built-in scan                 *)
(* (copyRedactedFile).                                                     *)
LEMMA CopyKeeps == ASSUME ExportInv, Export!CopyFile PROVE ExportInv'
<1>. USE DEF ExportInv
<1>1. /\ phase = "copy" /\ phase' = "copy" /\ scan' = scan /\ tally' = tally
      /\ UNCHANGED <<args, opts, world>>
  BY DEF Export!CopyFile
<1>2. PlanStays
  BY <1>1, PlanKept
<1>3. PICK s \in Export!Inputs \ Export!Copied :
        /\ status' = [t \in Export!Copied \cup {s} |->
                        IF t # s THEN status[t]
                        ELSE IF s \in Leaky THEN "rejected" ELSE "approved"]
        /\ disk' = [disk EXCEPT !.derivatives = @ \cup {s}]
  BY DEF Export!CopyFile
<1>4. /\ DOMAIN disk' = {"derivatives", "records", "report"}
      /\ disk'.derivatives = disk.derivatives \cup {s} /\ disk'.records = disk.records
  BY <1>3 DEF ExportTyped
<1>5. /\ Export!Copied' = Export!Copied \cup {s}
      /\ \A t \in Export!Copied' : status'[t] = IF t # s THEN status[t]
                                  ELSE IF s \in Leaky THEN "rejected" ELSE "approved"
  BY <1>3 DEF Export!Copied
<1>6. ExportTyped'
  BY <1>1, <1>4 DEF ExportTyped
<1>7. Planned'
  BY <1>1, <1>2 DEF Planned, Idle, PlanStays
<1>8. Judged'
  <2>1. BuiltInVerdict'
    BY <1>1, <1>5 DEF Judged, BuiltInVerdict
  <2>2. Export!Copied' \subseteq Export!Inputs' /\ disk'.derivatives = Export!Copied'
    BY <1>2, <1>3, <1>4, <1>5 DEF Judged, PlanStays
  <2>. QED
    BY <1>1, <2>1, <2>2 DEF Judged
<1>9. Tallied' /\ Reported'
  BY <1>1, <1>2, <1>4 DEF Tallied, Reported, PlanStays
<1>. QED
  BY <1>6, <1>7, <1>8, <1>9

(* The samples of the traces that pass become review records               *)
(* (convertTrainingSamples).                                               *)
LEMMA ConvertKeeps == ASSUME ExportInv, Export!ConvertTrainingSamples PROVE ExportInv'
<1>. USE DEF ExportInv
<1>1. /\ phase = "copy" /\ phase' = "scan" /\ scan' = scan /\ status' = status
      /\ Export!Copied = Export!Inputs /\ UNCHANGED <<args, opts, world>>
      /\ Export!Copied' = Export!Copied
  BY DEF Export!ConvertTrainingSamples, Export!Copied
<1>2. PlanStays
  BY <1>1, PlanKept
<1>3. Export!Converted = Found
  <2>1. {s \in Export!Copied \cap Raw : status[s] = "approved"} = CleanTraces
    BY <1>1 DEF Judged, BuiltInVerdict, CleanTraces
  <2>. QED
    BY <2>1 DEF Export!Converted, Found
<1>4. /\ DOMAIN disk' = {"derivatives", "records", "report"} /\ DOMAIN tally' = {"dirty", "dropped"}
      /\ disk'.derivatives = disk.derivatives /\ tally'.dropped = tally.dropped
      /\ IF Export!Training
         THEN /\ disk'.records = Found \ DirtySamples
              /\ tally'.dirty = Cardinality(Found \cap DirtySamples)
         ELSE disk' = disk /\ tally' = tally
  <2>1. CASE Export!Training
    <3>1. /\ disk' = [disk EXCEPT !.records = Found \ DirtySamples]
          /\ tally' = [tally EXCEPT !.dirty = Cardinality(Found \cap DirtySamples)]
      BY <1>3, <2>1, SameCardinalityInExport DEF Export!ConvertTrainingSamples
    <3>. QED
      BY <2>1, <3>1 DEF ExportTyped
  <2>2. CASE ~Export!Training
    BY <2>2 DEF ExportTyped, Export!ConvertTrainingSamples
  <2>. QED
    BY <2>1, <2>2
<1>5. ExportTyped'
  BY <1>1, <1>4 DEF ExportTyped, Phases
<1>6. Planned'
  BY <1>1, <1>2 DEF Planned, Idle, PlanStays
<1>7. Judged'
  BY <1>1, <1>2, <1>4 DEF Judged, BuiltInVerdict, PlanStays
<1>8. Tallied' /\ Reported'
  BY <1>1, <1>2, <1>4 DEF Tallied, Reported, PlanStays
<1>. QED
  BY <1>5, <1>6, <1>7, <1>8

(* The external scan, and what it rejects (scanExport).                    *)
LEMMA ScanKeeps == ASSUME ExportInv, Export!ScanExport PROVE ExportInv'
<1>. USE DEF ExportInv
<1>1. /\ phase = "scan" /\ phase' = "finish" /\ disk' = disk /\ tally' = tally
      /\ UNCHANGED <<args, opts, world>>
  BY DEF Export!ScanExport
<1>2. PlanStays
  BY <1>1, PlanKept
<1>3. Scanned'
  BY <1>1, <1>2 DEF Export!ScanExport, Scanned, PlanStays, Export!ScannerEnds,
                    Export!SkippedTrufflehog
<1>4. IF opts.trufflehog /\ Export!ScanRejectsFiles(scan')
      THEN status' = [s \in Export!Copied |-> "rejected"] ELSE status' = status
  BY DEF Export!ScanExport
<1>5. /\ Export!Copied' = Export!Copied
      /\ IF opts.trufflehog /\ Export!ScanRejectsFiles(scan')
         THEN \A s \in Export!Copied' : status'[s] = "rejected" ELSE status' = status
  BY <1>4 DEF Export!Copied
<1>6. Export!ScanRejectsFiles(scan)' <=> Export!ScanRejectsFiles(scan')
  BY DEF Export!ScanRejectsFiles
<1>7. ExportTyped'
  BY <1>1 DEF ExportTyped, Phases
<1>8. Planned'
  BY <1>1, <1>2 DEF Planned, Idle, PlanStays
<1>9. Judged'
  BY <1>1, <1>2, <1>3, <1>5, <1>6 DEF Judged, BuiltInVerdict, PlanStays
<1>10. Tallied' /\ Reported'
  BY <1>1, <1>2 DEF Tallied, Reported, PlanStays
<1>. QED
  BY <1>7, <1>8, <1>9, <1>10

(* Without a clean scan the review records go (finishTraining).            *)
LEMMA FinishKeeps == ASSUME ExportInv, Export!FinishTraining PROVE ExportInv'
<1>. USE DEF ExportInv
<1>1. /\ phase = "finish" /\ phase' = "report" /\ scan' = scan /\ status' = status
      /\ UNCHANGED <<args, opts, world>> /\ Export!Copied' = Export!Copied
  BY DEF Export!FinishTraining, Export!Copied
<1>2. PlanStays
  BY <1>1, PlanKept
<1>3. /\ DOMAIN disk' = {"derivatives", "records", "report"} /\ DOMAIN tally' = {"dirty", "dropped"}
      /\ disk'.derivatives = disk.derivatives /\ tally'.dirty = tally.dirty
      /\ IF Export!Training /\ ~Export!ScanSucceeded(scan)
         THEN disk'.records = {} /\ tally'.dropped = Cardinality(disk.records)
         ELSE disk' = disk /\ tally' = tally
  <2>1. CASE Export!Training /\ ~Export!ScanSucceeded(scan)
    <3>1. /\ disk' = [disk EXCEPT !.records = {}]
          /\ tally' = [tally EXCEPT !.dropped = Cardinality(disk.records)]
      BY <2>1, SameCardinalityInExport DEF Export!FinishTraining
    <3>. QED
      BY <2>1, <3>1 DEF ExportTyped
  <2>2. CASE ~(Export!Training /\ ~Export!ScanSucceeded(scan))
    BY <2>2 DEF ExportTyped, Export!FinishTraining
  <2>. QED
    BY <2>1, <2>2
<1>4. Scanned' /\ (Export!ScanRejectsFiles(scan)' <=> Export!ScanRejectsFiles(scan))
      /\ (Export!ScanSucceeded(scan)' <=> Export!ScanSucceeded(scan))
  BY <1>1, <1>2 DEF Judged, Scanned, PlanStays, Export!ScanRejectsFiles, Export!ScanSucceeded,
                    Export!SkippedTrufflehog
<1>5. ExportTyped'
  BY <1>1, <1>3 DEF ExportTyped, Phases
<1>6. Planned'
  BY <1>1, <1>2 DEF Planned, Idle, PlanStays
<1>7. Judged'
  BY <1>1, <1>2, <1>3, <1>4 DEF Judged, BuiltInVerdict, PlanStays
<1>8. Tallied' /\ Reported'
  BY <1>1, <1>2, <1>3, <1>4 DEF Tallied, Reported, PlanStays
<1>. QED
  BY <1>5, <1>6, <1>7, <1>8

(* The report is written (assembleReport, writeReviewFiles).               *)
LEMMA ReportKeeps == ASSUME ExportInv, Export!Report PROVE ExportInv'
<1>. USE DEF ExportInv
<1>1. /\ phase = "report" /\ phase' = "done" /\ scan' = scan /\ status' = status /\ tally' = tally
      /\ UNCHANGED <<args, opts, world>> /\ Export!Copied' = Export!Copied
  BY DEF Export!Report, Export!Copied
<1>2. PlanStays
  BY <1>1, PlanKept
<1>3. PICK a, r : /\ a = {s \in Export!Copied : status[s] = "approved"}
                  /\ r = [status |-> Export!ExportStatus, approved |-> a,
                          rejected |-> Export!Copied \ a,
                          accepted |-> Cardinality(disk.records),
                          dropped |-> tally.dirty + tally.dropped]
  OBVIOUS
<1>4. disk' = [disk EXCEPT !.report = r]
  BY <1>3, SameCardinalityInExport DEF Export!Report
<1>5. /\ DOMAIN disk' = {"derivatives", "records", "report"} /\ disk'.report = r
      /\ disk'.derivatives = disk.derivatives /\ disk'.records = disk.records
  BY <1>4 DEF ExportTyped
<1>6. Scanned' /\ (Export!ScanRejectsFiles(scan)' <=> Export!ScanRejectsFiles(scan))
      /\ (Export!ScanSucceeded(scan)' <=> Export!ScanSucceeded(scan))
      /\ Export!ExportStatus' = Export!ExportStatus
  BY <1>1, <1>2 DEF Judged, Scanned, PlanStays, Export!ScanRejectsFiles, Export!ScanSucceeded,
                    Export!SkippedTrufflehog, Export!ExportStatus
<1>7. ExportTyped'
  BY <1>1, <1>5 DEF ExportTyped, Phases
<1>8. Planned'
  BY <1>1, <1>2 DEF Planned, Idle, PlanStays
<1>9. Judged'
  BY <1>1, <1>2, <1>5, <1>6 DEF Judged, BuiltInVerdict, PlanStays
<1>10. Tallied'
  BY <1>1, <1>2, <1>5, <1>6 DEF Tallied, PlanStays
<1>11. Reported'
  BY <1>1, <1>2, <1>3, <1>5, <1>6 DEF Reported
<1>. QED
  BY <1>7, <1>8, <1>9, <1>10, <1>11

(* An interruption, and a step of another part.                            *)
LEMMA RestKeeps == ASSUME ExportInv, Export!Interrupted \/ UNCHANGED exportVars PROVE ExportInv'
<1>. USE DEF ExportInv
<1>1. /\ UNCHANGED <<args, opts, world, disk, status, scan, tally>>
      /\ Export!Copied' = Export!Copied
      /\ \/ phase' = phase
         \/ phase \notin Idle /\ phase' = "interrupted"
  BY DEF Export!Interrupted, exportVars, Export!Copied, Idle
<1>2. PlanStays
  BY <1>1, PlanKept
<1>3. (Scanned' <=> Scanned) /\ (Export!ScanRejectsFiles(scan)' <=> Export!ScanRejectsFiles(scan))
      /\ (Export!ScanSucceeded(scan)' <=> Export!ScanSucceeded(scan))
      /\ Export!ExportStatus' = Export!ExportStatus
  BY <1>1, <1>2 DEF Scanned, PlanStays, Export!ScanRejectsFiles, Export!ScanSucceeded,
                    Export!SkippedTrufflehog, Export!ExportStatus
<1>4. ExportTyped' /\ Planned'
  BY <1>1, <1>2 DEF ExportTyped, Phases, Planned, Idle, PlanStays
<1>5. Judged'
  BY <1>1, <1>2, <1>3 DEF Judged, BuiltInVerdict, PlanStays, Idle
<1>6. Tallied' /\ Reported'
  BY <1>1, <1>2, <1>3 DEF Tallied, Reported, PlanStays, Idle
<1>. QED
  BY <1>4, <1>5, <1>6

(* Every step of the export keeps its invariant.                           *)
LEMMA ExportGoesOn == ExportInv /\ [Export!Next]_exportVars => ExportInv'
BY PlanningKeeps, CopyKeeps, ConvertKeeps, ScanKeeps, FinishKeeps, ReportKeeps, RestKeeps
   DEF Export!Next

(* What the end of the external scan was, by its report.                   *)
LEMMA ScanEnds ==
  ASSUME Scanned
  PROVE  /\ Export!ScanSucceeded(scan) =>
              scan = Export!RunTrufflehog("clean") /\ opts.trufflehog
              /\ ~Export!ScanRejectsFiles(scan)
         /\ opts.trufflehog /\ ~Export!ScanRejectsFiles(scan) =>
              \/ scan = Export!RunTrufflehog("clean")
              \/ /\ scan = Export!RunTrufflehog("missing")
                 /\ ~opts.required /\ ~Export!Training
<1>1. ASSUME NEW end \in Export!ScannerEnds, scan = Export!RunTrufflehog(end)
      PROVE  /\ Export!ScanSucceeded(scan) => end = "clean" /\ ~Export!ScanRejectsFiles(scan)
             /\ ~Export!ScanRejectsFiles(scan) =>
                  end = "clean" \/ (end = "missing" /\ ~opts.required /\ ~Export!Training)
  <2>1. /\ scan.enabled = TRUE /\ scan.available = (end # "missing")
        /\ scan.required = (opts.required \/ Export!Training)
        /\ scan.findings = (end \in {"finds", "finds and fails"})
        /\ scan.warning = (end \notin {"clean", "finds"})
    BY <1>1 DEF Export!RunTrufflehog
  <2>2. end \in {"missing", "clean", "finds", "fails", "finds and fails"}
    BY DEF Export!ScannerEnds
  <2>. QED
    BY <2>1, <2>2 DEF Export!ScanSucceeded, Export!ScanRejectsFiles
<1>2. scan = Export!SkippedTrufflehog => ~Export!ScanSucceeded(scan)
  BY DEF Export!SkippedTrufflehog, Export!ScanSucceeded
<1>. QED
  BY <1>1, <1>2 DEF Scanned

(* A finished export approves what no scan has found anything in.          *)
LEMMA FileStatusIs ==
  ASSUME ExportInv, phase = "done"
  PROVE  \A s \in Export!Copied :
           /\ status[s] \in {"approved", "rejected"}
           /\ status[s] = "approved" <=>
                s \notin Leaky /\ ~(opts.trufflehog /\ Export!ScanRejectsFiles(scan))
  BY DEF ExportInv, Judged, BuiltInVerdict

(* The invariant gives: only what was scanned is approved.                 *)
LEMMA ApprovedScanned == ExportInv => Export!OnlyScannedApproved
<1>. SUFFICES ASSUME ExportInv, phase = "done" PROVE Export!OnlyScannedApproved
  BY DEF Export!OnlyScannedApproved, Export!Finished
<1>1. Scanned /\ disk.derivatives = Export!Copied
  BY DEF ExportInv, Judged
<1>2. PICK r : r = disk.report
  OBVIOUS
<1>3. /\ r.status = Export!ExportStatus
      /\ r.approved = {s \in Export!Copied : status[s] = "approved"}
      /\ r.rejected = Export!Copied \ r.approved
  BY <1>2 DEF ExportInv, Reported
<1>4. r.approved \cap Leaky = {}
  BY <1>3, FileStatusIs
<1>5. opts.trufflehog /\ r.approved # {} =>
        \/ scan = Export!RunTrufflehog("clean")
        \/ scan = Export!RunTrufflehog("missing") /\ ~opts.required /\ ~Export!Training
  <2>1. opts.trufflehog /\ r.approved # {} => ~Export!ScanRejectsFiles(scan)
    BY <1>3, FileStatusIs
  <2>. QED
    BY <1>1, <2>1, ScanEnds
<1>6. r.status = "approved" => r.rejected = {}
  <2>1. r.status = "approved" => \A s \in Export!Copied : status[s] # "rejected"
    BY <1>3 DEF Export!ExportStatus
  <2>. QED
    BY <2>1, <1>3, FileStatusIs
<1>. QED
  BY <1>1, <1>2, <1>3, <1>4, <1>5, <1>6 DEF Export!OnlyScannedApproved

(* The samples in the traces that pass, counted file by file.              *)
LEMMA SamplesSum ==
  ASSUME NEW H \in SUBSET Raw
  PROVE  LET all == UNION {Samples[s] : s \in H} IN
         /\ IsFiniteSet(all)
         /\ Export!FoldSet(LAMBDA s, n : n + Cardinality(Samples[s]), 0, H) = Cardinality(all)
<1>. DEFINE Body(k) == [s \in SUBSET H |->
              IF s = {} THEN 0
              ELSE k[s \ {CHOOSE x \in s : TRUE}] + Cardinality(Samples[CHOOSE x \in s : TRUE])]
<1>1. PICK k : k = CHOOSE h : h = Body(h)
  OBVIOUS
<1>2. Export!FoldSet(LAMBDA s, n : n + Cardinality(Samples[s]), 0, H) = k[H]
  BY <1>1 DEF Export!FoldSet, Export!MapThenFoldSet
<1>3. IsFiniteSet(H)
  <2>1. IsFiniteSet(Sources) /\ H \in SUBSET Sources
    BY ExportAssumption
  <2>. QED
    BY <2>1, FS_Subset
<1>4. PICK G : G = [f \in H |-> Cardinality(Samples[f])]
  OBVIOUS
<1>5. G \in [H -> Nat] /\ \A f \in H : G[f] = Cardinality(Samples[f])
  BY <1>4, ExportAssumption, FS_CardinalityType
<1>6. PICK c : c = [s \in SUBSET H |-> CHOOSE x \in s : TRUE]
  OBVIOUS
<1>7. Takes(c, H) /\ \A s \in SUBSET H : c[s] = CHOOSE x \in s : TRUE
  BY <1>6 DEF Takes
<1>8. PICK g : g = [e \in H \X Nat |-> e[2] + G[e[1]]]
  OBVIOUS
<1>9. IsFold(g, H, Nat) /\ \A f \in H, v \in Nat : g[<<f, v>>] = v + G[f]
  BY <1>5, <1>8 DEF IsFold
<1>10. PICK h : FoldsUp(h, H, Nat, 0, c, g)
  BY <1>3, <1>7, <1>9, RecursionOnSubsets
<1>11. ASSUME NEW s \in (SUBSET H) \ {{}}, NEW x, x = c[s]
       PROVE  x \in s /\ h[s] = h[s \ {x}] + G[x]
  <2>1. x \in s /\ x \in H
    BY <1>7, <1>11 DEF Takes
  <2>2. h[s] = g[<<x, h[s \ {x}]>>] /\ h[s \ {x}] \in Nat
    BY <1>10, <1>11, <2>1 DEF FoldsUp
  <2>. QED
    BY <1>9, <2>1, <2>2
<1>12. h = Body(h)
  <2>1. h = [s \in SUBSET H |-> h[s]] /\ h[{}] = 0
    BY <1>10 DEF FoldsUp
  <2>2. ASSUME NEW s \in SUBSET H
        PROVE  h[s] = IF s = {} THEN 0
                      ELSE h[s \ {CHOOSE x \in s : TRUE}]
                             + Cardinality(Samples[CHOOSE x \in s : TRUE])
    <3>1. CASE s = {}
      BY <2>1, <3>1
    <3>2. CASE s # {}
      <4>1. PICK x : x = CHOOSE y \in s : TRUE
        OBVIOUS
      <4>2. h[s] = h[s \ {x}] + Cardinality(Samples[x])
        <5>1. x \in H /\ x = c[s]
          BY <1>7, <3>2, <4>1
        <5>2. h[s] = h[s \ {x}] + G[x]
          BY <1>11, <3>2, <5>1
        <5>. QED
          BY <1>5, <5>1, <5>2
      <4>. QED
        BY <3>2, <4>1, <4>2
    <3>. QED
      BY <3>1, <3>2
  <2>. QED
    BY <2>1, <2>2
<1>13. k = Body(k)
  <2>. HIDE DEF Body
  <2>. QED
    BY <1>1, <1>12
<1>14. SumsUp(k, H, G)
  <2>1. k[{}] = 0
    BY <1>13
  <2>2. ASSUME NEW s \in (SUBSET H) \ {{}} PROVE \E x \in s : k[s] = k[s \ {x}] + G[x]
    <3>1. PICK x \in s : x = CHOOSE y \in s : TRUE
      OBVIOUS
    <3>2. k[s] = k[s \ {x}] + Cardinality(Samples[x])
      BY <1>13, <3>1
    <3>. QED
      BY <1>5, <3>1, <3>2
  <2>. QED
    BY <2>1, <2>2 DEF SumsUp
<1>15. /\ \A f \in H : IsFiniteSet(Samples[f]) /\ Cardinality(Samples[f]) = G[f]
       /\ \A e, f \in H : e # f => Samples[e] \cap Samples[f] = {}
  BY <1>5, ExportAssumption
<1>16. PICK seg : seg = Samples
  OBVIOUS
<1>17. LET all == UNION {seg[s] : s \in H} IN IsFiniteSet(all) /\ k[H] = Cardinality(all)
  <2>1. k[H] = Cardinality(UNION {seg[s] : s \in H})
    BY <1>3, <1>14, <1>15, <1>16, SumIsCardinality
  <2>2. IsFiniteSet(UNION {seg[s] : s \in H})
    <3>1. PICK T, f : T = {seg[s] : s \in H} /\ f = [s \in H |-> seg[s]]
      OBVIOUS
    <3>2. f \in Surjection(H, T)
      BY <3>1 DEF Surjection
    <3>3. IsFiniteSet(T) /\ \A t \in T : IsFiniteSet(t)
      BY <1>3, <1>15, <1>16, <3>1, <3>2, FS_Surjection
    <3>. QED
      BY <3>1, <3>3, FS_UNION
  <2>. QED
    BY <2>1, <2>2
<1>. QED
  BY <1>2, <1>16, <1>17

(* The invariant gives: review records survive only a clean scan, and      *)
(* every sample is counted.                                                *)
LEMMA RecordsScanned == ExportInv => Export!RecordsAfterScan
<1>. SUFFICES ASSUME ExportInv, phase = "done" PROVE Export!RecordsAfterScan
  BY DEF Export!RecordsAfterScan, Export!Finished
<1>1. Scanned /\ Export!Copied = Export!Inputs
  BY DEF ExportInv, Judged
<1>2. PICK r : r = disk.report
  OBVIOUS
<1>3. /\ r.approved = {s \in Export!Copied : status[s] = "approved"}
      /\ r.accepted = Cardinality(disk.records)
      /\ r.dropped  = tally.dirty + tally.dropped
  BY <1>2 DEF ExportInv, Reported
<1>4. /\ Export!Training =>
           /\ tally.dirty = Cardinality(Found \cap DirtySamples)
           /\ IF Export!ScanSucceeded(scan)
              THEN disk.records = Found \ DirtySamples /\ tally.dropped = 0
              ELSE disk.records = {} /\ tally.dropped = Cardinality(Found \ DirtySamples)
      /\ disk.records # {} => Export!Training
  BY DEF ExportInv, Tallied
<1>5. disk.records # {} => /\ Export!Training /\ disk.records = Found \ DirtySamples
                           /\ scan = Export!RunTrufflehog("clean")
                           /\ ~Export!ScanRejectsFiles(scan)
  BY <1>1, <1>4, ScanEnds
<1>6. ASSUME NEW s \in Raw, Samples[s] \cap disk.records # {} PROVE s \in r.approved
  <2>1. PICK x : x \in Samples[s] /\ x \in Found
    BY <1>5, <1>6
  <2>2. PICK t \in CleanTraces : x \in Samples[t]
    BY <2>1 DEF Found
  <2>3. t = s
    BY <2>1, <2>2, ExportAssumption DEF CleanTraces
  <2>. QED
    BY <1>1, <1>3, <1>5, <1>6, <2>2, <2>3, FileStatusIs DEF CleanTraces
<1>7. Export!Training => r.accepted + r.dropped = Cardinality(Found)
  <2>1. IsFiniteSet(Found)
    BY SamplesSum DEF Found, CleanTraces
  <2>2. PICK clean, dirty : clean = Found \ DirtySamples /\ dirty = Found \cap DirtySamples
    OBVIOUS
  <2>3. clean \cup dirty = Found /\ clean \cap dirty = {}
    BY <2>2
  <2>4. /\ IsFiniteSet(clean) /\ IsFiniteSet(dirty)
        /\ Cardinality(clean) \in Nat /\ Cardinality(dirty) \in Nat
    BY <2>1, <2>2, FS_Subset, FS_CardinalityType
  <2>5. Cardinality({}) = 0
    BY FS_EmptySet
  <2>6. Cardinality(Found) = Cardinality(clean) + Cardinality(dirty)
    <3>1. Cardinality(clean \cup dirty)
            = Cardinality(clean) + Cardinality(dirty) - Cardinality(clean \cap dirty)
      BY <2>4, FS_Union
    <3>2. clean \cup dirty = Found
      BY <2>3
    <3>3. Cardinality(clean \cup dirty) = Cardinality(Found)
      BY ONLY <3>2
    <3>4. clean \cap dirty = {}
      BY <2>3
    <3>5. Cardinality(clean \cap dirty) = Cardinality({})
      BY ONLY <3>4
    <3>. QED
      BY <2>4, <2>5, <3>1, <3>3, <3>5
  <2>7. CASE Export!Training /\ Export!ScanSucceeded(scan)
    <3>1. disk.records = clean /\ tally.dropped = 0 /\ tally.dirty = Cardinality(dirty)
      BY <1>4, <2>2, <2>7
    <3>. QED
      BY <1>3, <2>4, <2>6, <3>1
  <2>8. CASE Export!Training /\ ~Export!ScanSucceeded(scan)
    <3>1. disk.records = {} /\ tally.dropped = Cardinality(clean)
          /\ tally.dirty = Cardinality(dirty)
      BY <1>4, <2>2, <2>8
    <3>. QED
      BY <1>3, <2>4, <2>5, <2>6, <3>1
  <2>. QED
    BY <2>7, <2>8
<1>8. Export!FoldSet(LAMBDA s, n : n + Cardinality(Samples[s]), 0, CleanTraces) = Cardinality(Found)
  BY SamplesSum DEF Found, CleanTraces
<1>9. Export!FoldSet(LAMBDA s, n : n + Export!Cardinality(Samples[s]), 0,
                     (Export!Inputs \cap Raw) \ Leaky) = Cardinality(Found)
  BY <1>8 DEF CleanTraces, Export!Cardinality, Cardinality
<1>. QED
  BY <1>2, <1>4, <1>5, <1>6, <1>7, <1>9 DEF Export!RecordsAfterScan

(* The invariant gives: a refused export has written nothing.              *)
LEMMA NothingWritten == ExportInv => Export!RefusalsWriteNothing
  BY DEF ExportInv, Planned, Idle, Export!RefusalsWriteNothing, Export!DestinationProblem

(* Together they are what the export promises.                             *)
LEMMA ExportPromise == ExportInv => Export!ExportHonest
  BY DenialLifted, ApprovedScanned, RecordsScanned, NothingWritten DEF Export!ExportHonest

-----------------------------------------------------------------------------
(* The conversion of a raw trace.  What it makes of one is computed anew   *)
(* in every state, so the properties follow from the types alone.          *)

TrainingInv == Training!TypeOK

(* A trace and a context only grow, and by their lines and items.          *)
LEMMA TrainingBegins == Training!Init => TrainingInv
BY DEF Training!Init, TrainingInv, Training!TypeOK

(* ... and each of them has the form of a line or an item.                 *)
LEMMA TrainingGoesOn == TrainingInv /\ [Training!Next]_trainingVars => TrainingInv'
<1>. SUFFICES ASSUME TrainingInv, [Training!Next]_trainingVars PROVE TrainingInv'
  OBVIOUS
<1>. USE DEF TrainingInv, Training!TypeOK
<1>1. CASE Training!WriteLine
  BY <1>1 DEF Training!WriteLine
<1>2. CASE Training!AddItem
  BY <1>2 DEF Training!AddItem
<1>3. CASE UNCHANGED trainingVars
  BY <1>3 DEF trainingVars
<1>. QED
  BY <1>1, <1>2, <1>3 DEF Training!Next

LineTypes == {"request", "response", "boundary", "malformed", "other"}

(* A line is of one of the types that the assumption lists.                *)
LEMMA LinesTyped ==
  ASSUME TrainingInv
  PROVE  /\ Len(lines) \in Nat /\ Training!LineNumbers = 1..Len(lines)
         /\ \A k \in 1..Len(lines) : lines[k].type \in LineTypes
<1>1. lines \in Seq(TraceLines)
  BY DEF TrainingInv, Training!TypeOK
<1>2. ASSUME NEW k \in 1..Len(lines) PROVE lines[k] \in TraceLines
  BY <1>1
<1>. QED
  BY <1>1, <1>2, TrainingAssumption DEF LineTypes, Training!LineNumbers

(* Nothing ends the segment between two lines.                             *)
Unbroken(i, j) ==
  \A k \in 1..Len(lines) : i <= k /\ k <= j => lines[k].type \notin {"boundary", "malformed"}

(* Of two lines, in any order, one is in the segment of the other exactly  *)
(* when nothing ends it between them.                                      *)
LEMMA SegmentIs ==
  ASSUME TrainingInv, NEW S, NEW i \in 1..Len(lines), NEW j \in 1..Len(lines), i <= j
  PROVE  /\ j \in Training!OfSegment(S, i) <=> j \in S /\ Unbroken(i, j)
         /\ i \in Training!OfSegment(S, j) <=> i \in S /\ Unbroken(i, j)
<1>1. Unbroken(i, j) <=> Training!SameSegment(i, j)
  BY LinesTyped DEF Unbroken, Training!SameSegment, Training!EndsSegment
<1>2. Unbroken(i, j) => Training!SameSegment(j, i)
  BY LinesTyped DEF Unbroken, Training!SameSegment, Training!EndsSegment
<1>. QED
  BY <1>1, <1>2 DEF Training!OfSegment

Conversational == Training!Requests \cup Training!Responses

(* A request and the answer that follows it in its segment, with nothing   *)
(* of the conversation between them.                                       *)
Follows(i, j) ==
  /\ i \in 1..Len(lines) /\ j \in 1..Len(lines) /\ i < j /\ Unbroken(i, j)
  /\ j \in Training!Responses /\ lines[j].turn = lines[i].turn
  /\ \A k \in Conversational : ~(i < k /\ k < j)

(* The requests and answers are the lines of these two types.              *)
LEMMA RecordsAre ==
  ASSUME TrainingInv
  PROVE  /\ Conversational \subseteq 1..Len(lines)
         /\ \A k \in 1..Len(lines) :
              k \in Conversational <=> lines[k].type \in {"request", "response"}
BY LinesTyped DEF Conversational, Training!Requests, Training!Responses

(* The answer that a request is paired with follows it.                    *)
LEMMA AnsweredIs ==
  ASSUME TrainingInv, NEW i \in Training!Requests, NEW j \in Training!Answered(i)
  PROVE  Follows(i, j)
<1>1. /\ j \in Training!OfSegment(Conversational, i) /\ i < j
      /\ \A k \in Training!OfSegment(Conversational, i) : i < k => j <= k
      /\ lines[j].type = "response" /\ lines[j].turn = lines[i].turn
  BY DEF Training!Answered, Training!NextRecord, Conversational
<1>2. i \in 1..Len(lines) /\ j \in 1..Len(lines) /\ j \in Training!Responses
  BY <1>1, RecordsAre DEF Conversational, Training!OfSegment, Training!Requests, Training!Responses
<1>3. Unbroken(i, j)
  BY <1>1, <1>2, SegmentIs
<1>4. ASSUME NEW k \in Conversational, i < k, k < j PROVE FALSE
  <2>1. k \in 1..Len(lines) /\ Unbroken(i, k)
    BY <1>2, <1>3, <1>4, RecordsAre DEF Unbroken
  <2>2. k \in Training!OfSegment(Conversational, i)
    BY <1>2, <1>4, <2>1, SegmentIs
  <2>. QED
    BY <1>1, <1>2, <1>4, <2>1, <2>2
<1>. QED
  BY <1>1, <1>2, <1>3, <1>4 DEF Follows

(* No two answers follow one request, and no two requests have one answer  *)
(* that follows them.                                                      *)
LEMMA FollowsOnce ==
  ASSUME TrainingInv, NEW i \in Training!Requests, NEW h \in Training!Requests,
         NEW j \in Training!Responses, NEW k \in Training!Responses,
         Follows(i, j), Follows(h, k)
  PROVE  i = h <=> j = k
<1>1. {i, h, j, k} \subseteq Conversational /\ {i, h, j, k} \subseteq Nat
  BY LinesTyped DEF Follows, Conversational
<1>. QED
  BY <1>1 DEF Follows

(* A paired request shares its turn with no other request of its segment,  *)
(* and its answer with no other answer.                                    *)
LEMMA PairedAlone ==
  ASSUME TrainingInv, NEW i \in Training!Requests, Training!Pairing(i) = "paired",
         NEW j \in Training!Answered(i), NEW k \in Conversational,
         k \in Training!OfSegment(Conversational, i), lines[k].turn = lines[i].turn
  PROVE  k \in {i, j}
<1>1. ~Training!Ambiguous(i)
  BY Zenon DEF Training!Pairing
<1>2. Training!OfTurn(Training!Requests, i) = {i}
      /\ ~\E l, m \in Training!OfTurn(Training!Responses, i) : l # m
  BY <1>1 DEF Training!Ambiguous, Training!AmbiguousAnswers
<1>3. j \in Training!OfTurn(Training!Responses, i)
  BY DEF Training!Answered, Training!NextRecord, Training!OfTurn, Training!OfSegment,
         Training!Responses, Training!Requests
<1>4. CASE k \in Training!Requests
  <2>1. k \in Training!OfTurn(Training!Requests, i)
    BY <1>4 DEF Training!OfTurn, Training!OfSegment
  <2>. QED
    BY <1>2, <2>1
<1>5. CASE k \in Training!Responses
  <2>1. k \in Training!OfTurn(Training!Responses, i)
    BY <1>5 DEF Training!OfTurn, Training!OfSegment
  <2>. QED
    BY <1>2, <1>3, <2>1
<1>. QED
  BY <1>4, <1>5 DEF Conversational

(* What an example is.                                                     *)
LEMMA ExampleIs ==
  ASSUME TrainingInv, NEW e \in Training!Examples
  PROVE  /\ e[1] \in Training!Requests /\ e[2] \in Training!Responses
         /\ e = <<e[1], e[2]>> /\ Training!Pairing(e[1]) = "paired"
         /\ e[2] \in Training!Answered(e[1]) /\ Follows(e[1], e[2])
<1>1. /\ e \in Training!Requests \X Training!Responses
      /\ Training!Pairing(e[1]) = "paired" /\ e[2] \in Training!Answered(e[1])
  BY DEF Training!Examples
<1>. QED
  BY <1>1, AnsweredIs

(* The samples are proven by the segment that they stand in.               *)
LEMMA SamplesProven == TrainingInv => Training!SamplesAreProven
<1>. SUFFICES ASSUME TrainingInv, NEW e \in Training!Examples
              PROVE  LET between == {k \in Training!LineNumbers : e[1] < k /\ k < e[2]} IN
                     /\ e[1] < e[2] /\ lines[e[1]].turn = lines[e[2]].turn
                     /\ \A k \in between : lines[k].type = "other"
                     /\ \A k \in Conversational :
                          lines[k].turn = lines[e[1]].turn /\ k \notin {e[1], e[2]}
                            => \E b \in Training!LineNumbers :
                                 /\ lines[b].type \in {"boundary", "malformed"}
                                 /\ (k < b /\ b < e[1]) \/ (e[2] < b /\ b < k)
  BY DEF Training!SamplesAreProven, Conversational
<1>1. PICK i : i = e[1]
  OBVIOUS
<1>2. PICK j : j = e[2]
  OBVIOUS
<1>3. /\ i \in Training!Requests /\ j \in Training!Responses
      /\ Training!Pairing(i) = "paired" /\ j \in Training!Answered(i) /\ Follows(i, j)
  BY <1>1, <1>2, ExampleIs
<1>4. /\ i \in 1..Len(lines) /\ j \in 1..Len(lines) /\ i < j
      /\ i \in Conversational /\ j \in Conversational
  BY <1>3 DEF Follows, Conversational
<1>5. ASSUME NEW k \in 1..Len(lines), i < k, k < j PROVE lines[k].type = "other"
  <2>1. k \notin Conversational
    BY <1>3, <1>5 DEF Follows
  <2>2. lines[k].type \notin {"request", "response", "boundary", "malformed"}
    BY <1>3, <1>4, <1>5, <2>1, RecordsAre, LinesTyped DEF Follows, Unbroken
  <2>. QED
    BY <2>2, LinesTyped DEF LineTypes
<1>6. ASSUME NEW k \in Conversational, lines[k].turn = lines[i].turn, k \notin {i, j},
             \A b \in 1..Len(lines) :
               lines[b].type \in {"boundary", "malformed"}
                 => ~(k < b /\ b < i) /\ ~(j < b /\ b < k)
      PROVE  FALSE
  <2>1. /\ k \in 1..Len(lines) /\ Len(lines) \in Nat
        /\ \A l \in {i, j, k} : lines[l].type \notin {"boundary", "malformed"}
    BY <1>4, RecordsAre, LinesTyped
  <2>2. CASE k < i
    <3>1. Unbroken(k, i)
      BY <1>4, <1>6, <2>1, <2>2 DEF Unbroken
    <3>2. k \in Training!OfSegment(Conversational, i)
      BY <1>4, <2>1, <2>2, <3>1, SegmentIs
    <3>. QED
      BY <1>3, <1>6, <3>2, PairedAlone
  <2>3. CASE j < k
    <3>1. Unbroken(i, k)
      BY <1>3, <1>4, <1>6, <2>1, <2>3 DEF Unbroken, Follows
    <3>2. k \in Training!OfSegment(Conversational, i)
      BY <1>4, <2>1, <2>3, <3>1, SegmentIs
    <3>. QED
      BY <1>3, <1>6, <3>2, PairedAlone
  <2>4. ~(i < k /\ k < j)
    BY <1>3 DEF Follows
  <2>. QED
    BY <1>4, <1>6, <2>1, <2>2, <2>3, <2>4
<1>7. lines[i].turn = lines[j].turn
  BY <1>3 DEF Follows
<1>8. Training!LineNumbers = 1..Len(lines)
  BY LinesTyped
<1>. QED
  BY <1>1, <1>2, <1>4, <1>5, <1>6, <1>7, <1>8

(* A request that is paired but makes no example has used up its answer,   *)
(* and that answer only.                                                   *)
LEMMA ConsumedIs ==
  ASSUME TrainingInv, NEW r \in Training!Requests, NEW j \in Training!Consumed(r),
         NEW k \in Training!Responses, <<r, k>> \in Training!Examples
  PROVE  j = k
<1>1. PICK e : e = <<r, k>>
  OBVIOUS
<1>2. Training!Pairing(r) = "paired" /\ k \in Training!Answered(r) /\ Follows(r, k)
  BY <1>1, ExampleIs
<1>3. j \in Training!Answered(r)
  BY <1>2, Zenon DEF Training!Consumed
<1>4. Follows(r, j)
  BY <1>3, AnsweredIs
<1>5. j \in Training!Responses
  BY <1>4 DEF Follows
<1>. QED
  BY <1>2, <1>4, <1>5, FollowsOnce

(* No record is used twice, and none disappears.                           *)
LEMMA RecordsAccounted == TrainingInv => Training!EveryRecordAccounted
<1>. SUFFICES ASSUME TrainingInv PROVE Training!EveryRecordAccounted
  OBVIOUS
<1>. DEFINE Ex  == Training!Examples
            Req == Training!Requests
            Res == Training!Responses
<1>1. ASSUME NEW e \in Ex, NEW f \in Ex, e # f PROVE e[1] # f[1] /\ e[2] # f[2]
  <2>1. /\ e[1] \in Req /\ e[2] \in Res /\ f[1] \in Req /\ f[2] \in Res
        /\ e = <<e[1], e[2]>> /\ f = <<f[1], f[2]>>
        /\ Follows(e[1], e[2]) /\ Follows(f[1], f[2])
    BY ExampleIs
  <2>2. e[1] = f[1] <=> e[2] = f[2]
    BY <2>1, FollowsOnce
  <2>3. e[1] # f[1] \/ e[2] # f[2]
    BY <1>1, <2>1
  <2>. QED
    BY <2>2, <2>3
<1>2. ASSUME NEW i \in Req
      PROVE  (\E j \in Res : <<i, j>> \in Ex) # (i \in Training!Rejections)
  <2>1. i \in Training!LineNumbers /\ i \notin Res /\ lines[i].type # "malformed"
    BY DEF Training!Requests, Training!Responses
  <2>2. i \in Training!Rejections <=> \A j \in Res : <<i, j>> \notin Ex
    <3>. HIDE DEF Ex
    <3>. QED
      BY <2>1 DEF Training!Rejections, Ex
  <2>. QED
    BY <2>2
<1>3. ASSUME NEW j \in Res, j \notin Training!Rejections,
             \A i \in Req : <<i, j>> \notin Ex
      PROVE  \E i \in Req : i \in Training!Rejections /\ j \in Training!Consumed(i)
  <2>1. j \in Training!LineNumbers
    BY DEF Training!Responses
  <2>2. PICK r \in Req : j \in Training!Consumed(r)
    BY <1>3, <2>1 DEF Training!Rejections
  <2>3. \A k \in Res : <<r, k>> \notin Ex
    BY <1>3, <2>2, ConsumedIs
  <2>4. r \in Training!Rejections
    BY <2>3 DEF Training!Rejections, Training!Requests
  <2>. QED
    BY <2>2, <2>4
<1>. HIDE DEF Ex, Req, Res
<1>4. \A j \in Res : \/ \E i \in Req : <<i, j>> \in Ex
                     \/ j \in Training!Rejections
                     \/ \E i \in Req : i \in Training!Rejections /\ j \in Training!Consumed(i)
  BY <1>3
<1>. QED
  BY <1>1, <1>2, <1>4 DEF Training!EveryRecordAccounted, Ex, Req, Res

-----------------------------------------------------------------------------
(* The conversion of a context: the turns that its items make.             *)

TurnSet == {t \in [role : {"user", "assistant", "tool"}, calls : Seq(CallIds)] :
              /\ t.role = "tool" => Len(t.calls) = 1
              /\ t.role = "user" => t.calls = <<>>}

Context == [ok : BOOLEAN, turns : Seq(TurnSet), items : Nat]

(* The blocks of a message make turns.                                     *)
LEMMA BlocksTyped ==
  ASSUME NEW b \in Seq(CallIds)
  PROVE  Training!BlockTurns(b) \in Seq(TurnSet)
<1>1. ASSUME NEW k \in 1..Len(b)
      PROVE  (IF b[k] = TextRun THEN Training!Turn("user", <<>>)
                                ELSE Training!Turn("tool", <<b[k]>>)) \in TurnSet
  <2>1. b[k] \in CallIds
    OBVIOUS
  <2>. QED
    BY <2>1 DEF Training!Turn, TurnSet
<1>2. Len(b) \in Nat /\ DOMAIN b = 1..Len(b)
  OBVIOUS
<1>3. PICK n : n = Len(b)
  OBVIOUS
<1>4. Training!BlockTurns(b) \in [1..n -> TurnSet]
  <2>. HIDE DEF TurnSet
  <2>. QED
    BY <1>1, <1>2, <1>3 DEF Training!BlockTurns
<1>. QED
  BY <1>2, <1>3, <1>4

(* More turns make a context.                                              *)
LEMMA PushedTyped ==
  ASSUME NEW c \in Context, NEW t \in Seq(TurnSet)
  PROVE  Training!PushTurns(c, t) \in Context
<1>. USE DEF Context
<1>. HIDE DEF TurnSet
<1>1. c.turns \o t \in Seq(TurnSet)
  BY ConcatProperties
<1>. QED
  BY <1>1 DEF Training!PushTurns

(* A call joins the assistant turn before it or makes one.                 *)
LEMMA CallTyped ==
  ASSUME NEW c \in Context, NEW calls \in Seq(CallIds)
  PROVE  Training!AddCall(c, calls) \in Context
<1>1. PICK n : n = Len(c.turns)
  OBVIOUS
<1>2. c.turns \in Seq(TurnSet) /\ n \in Nat
  BY <1>1 DEF Context
<1>3. CASE n > 0 /\ c.turns[n].role = "assistant"
  <2>1. PICK t \in TurnSet : t = c.turns[n]
    BY <1>1, <1>2, <1>3
  <2>2. t.calls \o calls \in Seq(CallIds)
    BY ConcatProperties DEF TurnSet
  <2>3. PICK u : u = [t EXCEPT !.calls = t.calls \o calls]
    OBVIOUS
  <2>4. u \in TurnSet
    BY <1>3, <2>1, <2>2, <2>3 DEF TurnSet
  <2>5. [c.turns EXCEPT ![n] = u] \in Seq(TurnSet)
    BY <1>1, <1>2, <1>3, <2>4
  <2>6. Training!AddCall(c, calls) = [c EXCEPT !.turns = [c.turns EXCEPT ![n] = u]]
    BY <1>1, <1>3, <2>1, <2>3 DEF Training!AddCall, Context
  <2>. QED
    BY <2>5, <2>6 DEF Context
<1>4. CASE ~(n > 0 /\ c.turns[n].role = "assistant")
  <2>1. Training!AddCall(c, calls)
          = Training!PushTurns(c, <<Training!Turn("assistant", calls)>>)
    BY <1>1, <1>4 DEF Training!AddCall
  <2>2. Training!Turn("assistant", calls) \in TurnSet
    BY DEF Training!Turn, TurnSet
  <2>3. <<Training!Turn("assistant", calls)>> \in Seq(TurnSet)
    BY <2>2
  <2>. QED
    BY <2>1, <2>3, PushedTyped
<1>. QED
  BY <1>3, <1>4

(* An item makes a context of the one before it.                           *)
LEMMA ItemTyped ==
  ASSUME NEW c \in Context, NEW item \in ContextItems
  PROVE  [Training!NormalizeItem(item, c) EXCEPT !.items = @ + 1] \in Context
<1>1. item.calls \in Seq(CallIds) /\ item.blocks \in Seq(CallIds)
  BY TrainingAssumption
<1>2. c \in Context /\ Training!Refuse(c) \in Context
  BY DEF Training!Refuse, Context
<1>3. Training!PushTurns(c, Training!BlockTurns(item.blocks)) \in Context
  BY <1>1, BlocksTyped, PushedTyped
<1>4. Training!PushTurns(c, <<Training!Turn("assistant", item.calls)>>) \in Context
  <2>1. Training!Turn("assistant", item.calls) \in TurnSet
    BY <1>1 DEF Training!Turn, TurnSet
  <2>2. <<Training!Turn("assistant", item.calls)>> \in Seq(TurnSet)
    BY <2>1
  <2>. QED
    BY <2>2, PushedTyped
<1>5. Training!AddCall(c, item.calls) \in Context
  BY <1>1, CallTyped
<1>6. PICK d : d = Training!NormalizeItem(item, c)
  OBVIOUS
<1>7. d \in Context
  <2>. HIDE DEF Context
  <2>. QED
    BY <1>2, <1>3, <1>4, <1>5, <1>6 DEF Training!NormalizeItem
<1>. QED
  BY <1>6, <1>7 DEF Context

(* The contexts that the items make one after the other.                   *)
LEMMA ContextsUnroll ==
  ASSUME TrainingInv
  PROVE  LET k == Training!Contexts
             N == Len(items) IN
         /\ N \in Nat /\ k[0] = Training!EmptyContext
         /\ \A n \in 1..N : k[n] = [Training!NormalizeItem(items[n], k[n - 1]) EXCEPT !.items = @ + 1]
         /\ \A n \in 0..N : k[n] \in Context
<1>. DEFINE N       == Len(items)
            G(n, v) == [Training!NormalizeItem(items[n], v) EXCEPT !.items = @ + 1]
            Body(h) == [n \in 0..N |-> IF n = 0 THEN Training!EmptyContext ELSE G(n, h[n - 1])]
<1>1. N \in Nat /\ \A n \in 1..N, v \in Context : G(n, v) \in Context
  <2>1. items \in Seq(ContextItems)
    BY DEF TrainingInv, Training!TypeOK
  <2>2. ASSUME NEW n \in 1..N, NEW v \in Context PROVE G(n, v) \in Context
    <3>1. items[n] \in ContextItems
      BY <2>1
    <3>. QED
      BY <3>1, ItemTyped
  <2>. QED
    BY <2>1, <2>2
<1>2. Training!EmptyContext \in Context
  BY DEF Training!EmptyContext, Context
<1>3. PICK k : k = Training!Contexts
  OBVIOUS
<1>4. k = CHOOSE h : h = Body(h)
  BY <1>3 DEF Training!Contexts
<1>5. SUFFICES /\ k[0] = Training!EmptyContext
               /\ \A n \in 1..N : k[n] = G(n, k[n - 1])
               /\ \A n \in 0..N : k[n] \in Context
  BY <1>1, <1>3
<1>. HIDE DEF N, G
<1>6. PICK f \in [0..N -> Context] :
        f[0] = Training!EmptyContext /\ \A n \in 1..N : f[n] = G(n, f[n - 1])
  <2>1. PICK g : g = [x \in (1..N) \X Context |-> G(x[1], x[2])]
    OBVIOUS
  <2>. HIDE DEF Context
  <2>2. /\ g \in [(1..N) \X Context -> Context]
        /\ \A n \in 1..N, v \in Context : g[<<n, v>>] = G(n, v)
    BY <1>1, <2>1
  <2>3. PICK f : Unrolls(f, N, Context, Training!EmptyContext, g)
    <3>1. IsStep(g, N, Context)
      BY <2>2 DEF IsStep
    <3>. QED
      BY <1>1, <1>2, <3>1, RecursionUpTo
  <2>4. f \in [0..N -> Context] /\ \A n \in 1..N : f[n - 1] \in Context
    BY <1>1, <2>3 DEF Unrolls
  <2>. QED
    BY <2>2, <2>3, <2>4 DEF Unrolls
<1>7. f = Body(f)
  BY <1>1, <1>6
<1>8. k = Body(k)
  <2>. HIDE DEF Body
  <2>. QED
    BY <1>4, <1>7
<1>9. k[0] = Training!EmptyContext /\ \A n \in 1..N : k[n] = G(n, k[n - 1])
  BY <1>1, <1>8
<1>. QED
  BY <1>1, <1>2, <1>9, TypedUpTo

(* The turns of a context are turns.                                       *)
LEMMA TurnsTyped ==
  ASSUME TrainingInv
  PROVE  /\ Training!Turns \in Seq(TurnSet) /\ Training!Normalized.ok \in BOOLEAN
         /\ Len(Training!Turns) \in Nat
         /\ \A k \in 1..Len(Training!Turns) : Training!Turns[k] \in TurnSet
<1>. HIDE DEF TurnSet
<1>1. Training!Normalized \in Context
  BY ContextsUnroll DEF Training!Normalized
<1>2. Training!Turns \in Seq(TurnSet) /\ Training!Normalized.ok \in BOOLEAN
  BY <1>1 DEF Context, Training!Turns
<1>3. PICK t : t = Training!Turns
  OBVIOUS
<1>4. t \in Seq(TurnSet) => Len(t) \in Nat /\ \A k \in 1..Len(t) : t[k] \in TurnSet
  OBVIOUS
<1>. QED
  BY <1>2, <1>3, <1>4

-----------------------------------------------------------------------------
(* Every call of an accepted context is answered.                          *)

PairingState == [ok : BOOLEAN, pending : SUBSET CallIds, seen : SUBSET CallIds]

(* The calls of a turn, in the words of this module's lemmas.              *)
LEMMA CallsAre ==
  ASSUME NEW q \in Seq(CallIds)
  PROVE  /\ Training!ToSet(q) = ToSet(q) /\ Training!IsInjective(q) = IsInjective(q)
         /\ ToSet(q) \subseteq CallIds /\ (ToSet(q) = {} <=> q = <<>>)
         /\ Len(q) = 1 => ToSet(q) = {q[1]} /\ q[1] \in CallIds
<1>1. Training!ToSet(q) = ToSet(q) /\ Training!IsInjective(q) = IsInjective(q)
  BY DEF Training!ToSet, ToSet, Training!IsInjective, IsInjective
<1>2. ToSet(q) = {q[i] : i \in 1..Len(q)}
  BY DEF ToSet
<1>3. ToSet(q) \subseteq CallIds
  BY <1>2
<1>4. ToSet(q) = {} <=> q = <<>>
  <2>1. Len(q) \in Nat /\ (Len(q) = 0 <=> q = <<>>)
    OBVIOUS
  <2>2. Len(q) > 0 => q[1] \in ToSet(q)
    BY <1>2
  <2>3. Len(q) = 0 => ToSet(q) = {}
    BY <1>2
  <2>. QED
    BY <2>1, <2>2, <2>3
<1>5. Len(q) = 1 => ToSet(q) = {q[1]} /\ q[1] \in CallIds
  BY <1>2
<1>. QED
  BY <1>1, <1>3, <1>4, <1>5

(* What a turn does to the calls seen and pending.                         *)
LEMMA PairTurnIs ==
  ASSUME NEW s \in PairingState, NEW t \in TurnSet
  PROVE  LET u == Training!PairTurn(s, t) IN
         /\ u \in PairingState
         /\ u.ok => s.ok
         /\ u.ok /\ t.role = "tool" =>
              /\ t.calls[1] \in s.pending
              /\ u.seen = s.seen /\ u.pending = s.pending \ {t.calls[1]}
         /\ u.ok /\ t.role # "tool" =>
              /\ s.pending = {} /\ IsInjective(t.calls) /\ ToSet(t.calls) \cap s.seen = {}
              /\ u.pending = ToSet(t.calls) /\ u.seen = s.seen \cup ToSet(t.calls)
<1>. DEFINE q == t.calls
<1>1. /\ q \in Seq(CallIds) /\ (t.role = "tool" => Len(q) = 1)
      /\ s.ok \in BOOLEAN /\ s.pending \subseteq CallIds /\ s.seen \subseteq CallIds
  BY DEF TurnSet, PairingState
<1>2. /\ Training!ToSet(q) = ToSet(q) /\ Training!IsInjective(q) = IsInjective(q)
      /\ ToSet(q) \subseteq CallIds
      /\ t.role = "tool" => q[1] \in CallIds
  BY <1>1, CallsAre
<1>3. PICK u : u = Training!PairTurn(s, t)
  OBVIOUS
<1>4. CASE t.role = "tool"
  <2>1. PICK o \in BOOLEAN : o = (s.ok /\ q[1] \in s.pending)
    OBVIOUS
  <2>2. u = [ok |-> o, pending |-> s.pending \ {q[1]}, seen |-> s.seen]
    BY <1>3, <1>4, <2>1 DEF Training!PairTurn, Training!AnswerCall, PairingState
  <2>3. u.ok = o /\ u.pending = s.pending \ {q[1]} /\ u.seen = s.seen
    BY <2>2
  <2>4. u \in PairingState
    BY <1>1, <2>1, <2>2 DEF PairingState
  <2>. QED
    BY <1>3, <1>4, <2>1, <2>3, <2>4
<1>5. CASE t.role # "tool"
  <2>1. PICK o \in BOOLEAN :
          o = (s.ok /\ s.pending = {} /\ ToSet(q) \cap s.seen = {} /\ IsInjective(q))
    BY DEF IsInjective
  <2>2. u = [ok |-> o, pending |-> s.pending \cup ToSet(q), seen |-> s.seen \cup ToSet(q)]
    BY <1>2, <1>3, <1>5, <2>1 DEF Training!PairTurn, Training!OpenCalls, PairingState
  <2>3. u.ok = o /\ u.pending = s.pending \cup ToSet(q) /\ u.seen = s.seen \cup ToSet(q)
    BY <2>2
  <2>4. u \in PairingState
    BY <1>1, <1>2, <2>1, <2>2 DEF PairingState
  <2>5. s.pending = {} => s.pending \cup ToSet(q) = ToSet(q)
    OBVIOUS
  <2>. QED
    BY <1>3, <1>5, <2>1, <2>3, <2>4, <2>5
<1>. QED
  BY <1>4, <1>5

(* The calls seen and pending after each turn.                             *)
LEMMA PairingsUnroll ==
  ASSUME TrainingInv
  PROVE  LET k == Training!Pairings
             N == Len(Training!Turns) IN
         /\ N \in Nat /\ k[0] = Training!NothingCalled
         /\ \A n \in 1..N : k[n] = Training!PairTurn(k[n - 1], Training!Turns[n])
         /\ \A n \in 0..N : k[n] \in PairingState
<1>. DEFINE N       == Len(Training!Turns)
            G(n, v) == Training!PairTurn(v, Training!Turns[n])
            Body(h) == [n \in 0..N |-> IF n = 0 THEN Training!NothingCalled ELSE G(n, h[n - 1])]
<1>1. N \in Nat /\ \A n \in 1..N, v \in PairingState : G(n, v) \in PairingState
  <2>1. ASSUME NEW n \in 1..N, NEW v \in PairingState PROVE G(n, v) \in PairingState
    <3>1. Training!Turns[n] \in TurnSet
      BY TurnsTyped
    <3>. QED
      BY <3>1, PairTurnIs
  <2>. QED
    BY <2>1, TurnsTyped
<1>2. Training!NothingCalled \in PairingState
  BY DEF Training!NothingCalled, PairingState
<1>3. PICK k : k = Training!Pairings
  OBVIOUS
<1>4. k = CHOOSE h : h = Body(h)
  BY <1>3 DEF Training!Pairings
<1>5. SUFFICES /\ k[0] = Training!NothingCalled
               /\ \A n \in 1..N : k[n] = G(n, k[n - 1])
               /\ \A n \in 0..N : k[n] \in PairingState
  BY <1>1, <1>3
<1>. HIDE DEF N, G
<1>6. PICK f \in [0..N -> PairingState] :
        f[0] = Training!NothingCalled /\ \A n \in 1..N : f[n] = G(n, f[n - 1])
  <2>1. PICK g : g = [x \in (1..N) \X PairingState |-> G(x[1], x[2])]
    OBVIOUS
  <2>. HIDE DEF PairingState
  <2>2. /\ g \in [(1..N) \X PairingState -> PairingState]
        /\ \A n \in 1..N, v \in PairingState : g[<<n, v>>] = G(n, v)
    BY <1>1, <2>1
  <2>3. PICK f : Unrolls(f, N, PairingState, Training!NothingCalled, g)
    <3>1. IsStep(g, N, PairingState)
      BY <2>2 DEF IsStep
    <3>. QED
      BY <1>1, <1>2, <3>1, RecursionUpTo
  <2>4. f \in [0..N -> PairingState] /\ \A n \in 1..N : f[n - 1] \in PairingState
    BY <1>1, <2>3 DEF Unrolls
  <2>. QED
    BY <2>2, <2>3, <2>4 DEF Unrolls
<1>7. f = Body(f)
  BY <1>1, <1>6
<1>8. k = Body(k)
  <2>. HIDE DEF Body
  <2>. QED
    BY <1>4, <1>7
<1>9. k[0] = Training!NothingCalled /\ \A n \in 1..N : k[n] = G(n, k[n - 1])
  BY <1>1, <1>8
<1>. QED
  BY <1>1, <1>2, <1>9, TypedUpTo

(* What is accepted in the end was accepted after each turn.               *)
LEMMA AcceptedThroughout ==
  ASSUME TrainingInv, Training!Paired
  PROVE  \A n \in 0..Len(Training!Turns) : Training!Pairings[n].ok
<1>. DEFINE N == Len(Training!Turns)
            I == {m \in 0..N : Training!Pairings[N - m].ok}
<1>1. /\ N \in Nat /\ \A n \in 1..N : Training!Turns[n] \in TurnSet
      /\ \A n \in 1..N : Training!Pairings[n]
                          = Training!PairTurn(Training!Pairings[n - 1], Training!Turns[n])
      /\ \A n \in 0..N : Training!Pairings[n] \in PairingState
  BY PairingsUnroll, TurnsTyped
<1>. HIDE DEF N
<1>2. 0 \in I
  BY <1>1 DEF Training!Paired, N
<1>3. ASSUME NEW m \in 1..N, m - 1 \in I PROVE m \in I
  <2>1. PICK n \in 1..N : n = N - (m - 1)
    BY <1>1
  <2>2. n - 1 \in 0..N /\ n - 1 = N - m
    BY <1>1, <2>1
  <2>3. Training!Pairings[n].ok => Training!Pairings[n - 1].ok
    <3>1. PICK s \in PairingState : s = Training!Pairings[n - 1]
      BY <1>1, <2>2
    <3>2. PICK t \in TurnSet : t = Training!Turns[n]
      BY <1>1
    <3>3. Training!Pairings[n] = Training!PairTurn(s, t)
      BY <1>1, <3>1, <3>2
    <3>. QED
      BY <3>1, <3>3, PairTurnIs
  <2>. QED
    BY <1>3, <2>1, <2>2, <2>3
<1>. HIDE DEF I
<1>4. 0..N \subseteq I
  BY <1>1, <1>2, <1>3, InductionUpTo
<1>5. ASSUME NEW n \in 0..N PROVE Training!Pairings[n].ok
  <2>1. N - n \in 0..N /\ N - (N - n) = n
    BY <1>1
  <2>2. N - n \in I
    BY <1>4, <2>1
  <2>. QED
    BY <2>1, <2>2 DEF I
<1>. QED
  BY <1>5 DEF N

(* The ids of a conversation's calls are distinct, since each turn's are   *)
(* not among those seen before.                                            *)
LEMMA IdsUnique == TrainingInv => Training!CallIdsUnique
<1>. SUFFICES ASSUME TrainingInv, Training!Convertible,
                     NEW j \in DOMAIN Training!Turns, NEW k \in DOMAIN Training!Turns,
                     Training!Turns[j].role = "assistant",
                     Training!Turns[k].role = "assistant", j # k
              PROVE  Training!ToSet(Training!Turns[j].calls)
                       \cap Training!ToSet(Training!Turns[k].calls) = {}
  BY DEF Training!CallIdsUnique
<1>. DEFINE t(n) == Training!Turns[n]
            s(n) == Training!Pairings[n]
            N    == Len(Training!Turns)
            C(n) == ToSet(t(n).calls)
<1>1. /\ N \in Nat /\ DOMAIN Training!Turns = 1..N
      /\ \A n \in 1..N : t(n) \in TurnSet /\ t(n).calls \in Seq(CallIds)
  BY TurnsTyped DEF TurnSet
<1>2. ASSUME NEW n \in 1..N
      PROVE  /\ s(n - 1).seen \subseteq s(n).seen
             /\ t(n).role # "tool" => C(n) \subseteq s(n).seen /\ C(n) \cap s(n - 1).seen = {}
  <2>1. n - 1 \in 0..N /\ n \in 0..N
    BY <1>1
  <2>2. s(n - 1) \in PairingState /\ s(n) = Training!PairTurn(s(n - 1), t(n)) /\ s(n).ok
    BY <2>1, PairingsUnroll, AcceptedThroughout DEF Training!Convertible
  <2>. QED
    BY <1>1, <2>2, PairTurnIs
<1>. HIDE DEF N, C, s, t
<1>3. ASSUME NEW i \in 1..N, NEW m \in 1..N, i < m,
             t(i).role = "assistant", t(m).role = "assistant"
      PROVE  C(i) \cap C(m) = {}
  <2>. DEFINE I == {n \in 0..N : n >= i => C(i) \subseteq s(n).seen}
  <2>1. 0 \in I
    BY <1>1
  <2>2. ASSUME NEW n \in 1..N, n - 1 \in I PROVE n \in I
    <3>1. CASE n = i
      BY <1>2, <1>3, <3>1
    <3>2. CASE n > i
      <4>1. C(i) \subseteq s(n - 1).seen
        BY <1>1, <2>2, <3>2
      <4>. QED
        BY <1>1, <1>2, <4>1
    <3>3. CASE n < i
      BY <1>1, <3>3
    <3>. QED
      BY <1>1, <3>1, <3>2, <3>3
  <2>. HIDE DEF I
  <2>3. 0..N \subseteq I
    BY <1>1, <2>1, <2>2, InductionUpTo
  <2>4. m - 1 \in 0..N /\ m - 1 >= i
    BY <1>1, <1>3
  <2>5. C(i) \subseteq s(m - 1).seen
    BY <2>3, <2>4 DEF I
  <2>6. C(m) \cap s(m - 1).seen = {}
    BY <1>2, <1>3
  <2>. QED
    BY <2>5, <2>6
<1>4. C(j) \cap C(k) = {}
  <2>1. j \in 1..N /\ k \in 1..N /\ t(j).role = "assistant" /\ t(k).role = "assistant"
    BY <1>1 DEF t
  <2>2. CASE j < k
    BY <1>3, <2>1, <2>2
  <2>3. CASE k < j
    <3>1. C(k) \cap C(j) = {}
      BY <1>3, <2>1, <2>3
    <3>. QED
      BY <3>1
  <2>. QED
    BY <1>1, <2>1, <2>2, <2>3
<1>5. \A n \in {j, k} : Training!ToSet(Training!Turns[n].calls) = C(n)
  BY <1>1, CallsAre DEF C, t
<1>. QED
  BY <1>4, <1>5

-----------------------------------------------------------------------------
(* Each message with calls is followed by that of their results.           *)

Message == [role : {"user", "assistant", "tool"}, calls : Seq(CallIds)]

Messages == Seq(Message)

(* Lists of the same calls, each once, are equally long.                   *)
LEMMA SameCallsSameLength ==
  ASSUME NEW S, NEW p \in Seq(S), NEW q \in Seq(S),
         IsInjective(p), IsInjective(q), ToSet(p) = ToSet(q)
  PROVE  Len(p) = Len(q)
<1>1. ASSUME NEW r \in Seq(S), IsInjective(r)
      PROVE  Len(r) \in Nat /\ Cardinality(ToSet(r)) = Len(r)
  <2>1. Len(r) \in Nat /\ DOMAIN r = 1..Len(r)
    OBVIOUS
  <2>2. r \in Bijection(1..Len(r), ToSet(r))
    <3>1. r \in [1..Len(r) -> ToSet(r)] /\ \A x \in ToSet(r) : \E i \in 1..Len(r) : r[i] = x
      BY <2>1 DEF ToSet
    <3>2. \A i, j \in 1..Len(r) : r[i] = r[j] => i = j
      BY <1>1, <2>1 DEF IsInjective
    <3>. QED
      BY <3>1, <3>2 DEF Bijection, Injection, Surjection, IsInjective
  <2>3. ExistsBijection(1..Len(r), ToSet(r))
    BY <2>2 DEF ExistsBijection
  <2>. QED
    BY <2>1, <2>3, FS_CountingElements
<1>2. Cardinality(ToSet(p)) = Len(p) /\ Cardinality(ToSet(q)) = Len(q)
  BY <1>1
<1>. QED
  BY <1>2

(* A turn is a result that joins the message of results before it.         *)
Joins(m, t) == t.role = "tool" /\ Len(m) > 0 /\ m[Len(m)].role = "tool"

GroupsTo(m, t, g) ==
  /\ g \in Seq(Message) /\ Len(g) \in Nat /\ Len(m) \in Nat
  /\ Joins(m, t) =>
       /\ Len(g) = Len(m) /\ \A k \in 1..(Len(m) - 1) : g[k] = m[k]
       /\ g[Len(m)].role = "tool" /\ g[Len(m)].calls = m[Len(m)].calls \o t.calls
  /\ ~Joins(m, t) =>
       /\ Len(g) = Len(m) + 1 /\ \A k \in 1..Len(m) : g[k] = m[k]
       /\ g[Len(m) + 1] = t

(* A result joins the message of results before it; any other turn, and    *)
(* the first result, make a message.                                       *)
LEMMA GroupTurnIs ==
  ASSUME NEW m \in Seq(Message), NEW t \in TurnSet
  PROVE  GroupsTo(m, t, Training!GroupTurn(m, t))
<1>0. PICK g : g = Training!GroupTurn(m, t)
  OBVIOUS
<1>1. PICK n \in Nat : n = Len(m)
  OBVIOUS
<1>2. t \in Message
  BY DEF TurnSet, Message
<1>3. CASE Joins(m, t)
  <2>1. n \in 1..Len(m) /\ m[n] \in Message /\ m[n].role = "tool"
    BY <1>1, <1>3 DEF Joins
  <2>2. PICK u : u = [m[n] EXCEPT !.calls = m[n].calls \o t.calls]
    OBVIOUS
  <2>3. m[n].calls \o t.calls \in Seq(CallIds)
    BY <1>2, <2>1, ConcatProperties DEF Message
  <2>4. u \in Message /\ u.role = "tool" /\ u.calls = m[n].calls \o t.calls
    BY <2>1, <2>2, <2>3 DEF Message
  <2>5. g = [m EXCEPT ![n] = u]
    BY <1>0, <1>1, <1>3, <2>1, <2>2 DEF Training!GroupTurn, Joins, Message
  <2>. HIDE DEF Message
  <2>6. g \in Seq(Message) /\ Len(g) = Len(m) /\ Len(m) \in Nat
    BY <1>1, <2>1, <2>4, <2>5
  <2>7. g[Len(m)] = u /\ \A k \in 1..(Len(m) - 1) : g[k] = m[k]
    BY <1>1, <2>1, <2>5
  <2>8. g[Len(m)].role = "tool" /\ g[Len(m)].calls = m[Len(m)].calls \o t.calls
    BY <1>1, <2>4, <2>7, Zenon
  <2>. QED
    BY <1>0, <1>3, <2>6, <2>7, <2>8, Zenon DEF GroupsTo
<1>4. CASE ~Joins(m, t)
  <2>1. g = Append(m, t)
    BY <1>0, <1>1, <1>4 DEF Training!GroupTurn, Joins
  <2>. HIDE DEF Message
  <2>2. g \in Seq(Message) /\ Len(g) = Len(m) + 1 /\ Len(m) \in Nat /\ Len(g) \in Nat
    BY <1>1, <1>2, <2>1
  <2>3. g[Len(m) + 1] = t /\ \A k \in 1..Len(m) : g[k] = m[k]
    BY <1>1, <2>1
  <2>. QED
    BY <1>0, <1>4, <2>2, <2>3, Zenon DEF GroupsTo
<1>. QED
  BY <1>3, <1>4

(* The messages after each turn.                                           *)
LEMMA GroupedUnroll ==
  ASSUME TrainingInv
  PROVE  LET k == Training!Grouped
             N == Len(Training!Turns) IN
         /\ N \in Nat /\ k[0] = <<>>
         /\ \A n \in 1..N : k[n] = Training!GroupTurn(k[n - 1], Training!Turns[n])
         /\ \A n \in 0..N : k[n] \in Messages
<1>. DEFINE N       == Len(Training!Turns)
            G(n, v) == Training!GroupTurn(v, Training!Turns[n])
            Body(h) == [n \in 0..N |-> IF n = 0 THEN <<>> ELSE G(n, h[n - 1])]
<1>1. N \in Nat /\ \A n \in 1..N, v \in Messages : G(n, v) \in Messages
  <2>1. ASSUME NEW n \in 1..N, NEW v \in Messages PROVE G(n, v) \in Messages
    <3>1. Training!Turns[n] \in TurnSet
      BY TurnsTyped
    <3>. QED
      BY <3>1, GroupTurnIs DEF Messages, GroupsTo
  <2>. QED
    BY <2>1, TurnsTyped
<1>2. <<>> \in Messages
  BY DEF Messages
<1>3. PICK k : k = Training!Grouped
  OBVIOUS
<1>4. k = CHOOSE h : h = Body(h)
  BY <1>3 DEF Training!Grouped
<1>5. SUFFICES /\ k[0] = <<>>
               /\ \A n \in 1..N : k[n] = G(n, k[n - 1])
               /\ \A n \in 0..N : k[n] \in Messages
  BY <1>1, <1>3
<1>. HIDE DEF N, G
<1>6. PICK f \in [0..N -> Messages] :
        f[0] = <<>> /\ \A n \in 1..N : f[n] = G(n, f[n - 1])
  <2>1. PICK g : g = [x \in (1..N) \X Messages |-> G(x[1], x[2])]
    OBVIOUS
  <2>. HIDE DEF Messages
  <2>2. /\ g \in [(1..N) \X Messages -> Messages]
        /\ \A n \in 1..N, v \in Messages : g[<<n, v>>] = G(n, v)
    BY <1>1, <2>1
  <2>3. PICK f : Unrolls(f, N, Messages, <<>>, g)
    <3>1. IsStep(g, N, Messages)
      BY <2>2 DEF IsStep
    <3>. QED
      BY <1>1, <1>2, <3>1, RecursionUpTo
  <2>4. f \in [0..N -> Messages] /\ \A n \in 1..N : f[n - 1] \in Messages
    BY <1>1, <2>3 DEF Unrolls
  <2>. QED
    BY <2>2, <2>3, <2>4 DEF Unrolls
<1>7. f = Body(f)
  BY <1>1, <1>6
<1>8. k = Body(k)
  <2>. HIDE DEF Body
  <2>. QED
    BY <1>4, <1>7
<1>9. k[0] = <<>> /\ \A n \in 1..N : k[n] = G(n, k[n - 1])
  BY <1>1, <1>8
<1>. QED
  BY <1>1, <1>2, <1>9, TypedUpTo

(* What is right about message k of m: results answer the calls before     *)
(* them, all and once, and calls have their results behind them.           *)
AnswersAll(m, k) ==
  m[k].role = "tool" =>
    /\ k > 1 /\ m[k - 1].role = "assistant"
    /\ ToSet(m[k].calls) = ToSet(m[k - 1].calls)
    /\ Len(m[k].calls) = Len(m[k - 1].calls)

IsAnswered(m, k) ==
  m[k].role = "assistant" /\ m[k].calls # <<>> => k < Len(m) /\ m[k + 1].role = "tool"

Fits(m, k) == AnswersAll(m, k) /\ IsAnswered(m, k)

(* What is known of the last message: which of its calls are pending.      *)
HalfDone(m, pending) ==
  LET n == Len(m) IN
  /\ n = 0 => pending = {}
  /\ n > 0 =>
       /\ m[n].role = "user" => pending = {}
       /\ m[n].role = "assistant" => pending = ToSet(m[n].calls) /\ IsInjective(m[n].calls)
       /\ m[n].role = "tool" =>
            /\ n > 1 /\ m[n - 1].role = "assistant"
            /\ ToSet(m[n].calls) \cup pending = ToSet(m[n - 1].calls)
            /\ ToSet(m[n].calls) \cap pending = {}
            /\ IsInjective(m[n].calls) /\ IsInjective(m[n - 1].calls)

(* When no call is pending, the last message fits as well.                 *)
LEMMA NothingPending ==
  ASSUME NEW m \in Seq(Message), HalfDone(m, {}), Len(m) > 0
  PROVE  Fits(m, Len(m))
<1>0. PICK n \in Nat : n = Len(m)
  OBVIOUS
<1>1. m[n] \in Message /\ (n > 1 => m[n - 1] \in Message)
  BY <1>0
<1>2. m[n].calls \in Seq(CallIds) /\ (n > 1 => m[n - 1].calls \in Seq(CallIds))
  BY <1>1 DEF Message
<1>3. ASSUME m[n].role = "tool" PROVE AnswersAll(m, n)
  <2>1. /\ n > 1 /\ m[n - 1].role = "assistant"
        /\ ToSet(m[n].calls) = ToSet(m[n - 1].calls)
        /\ IsInjective(m[n].calls) /\ IsInjective(m[n - 1].calls)
    BY <1>0, <1>3 DEF HalfDone
  <2>2. Len(m[n].calls) = Len(m[n - 1].calls)
    BY <1>2, <2>1, SameCallsSameLength
  <2>. QED
    BY <2>1, <2>2 DEF AnswersAll
<1>4. ASSUME m[n].role = "assistant" PROVE m[n].calls = <<>>
  <2>1. ToSet(m[n].calls) = {}
    BY <1>0, <1>4 DEF HalfDone
  <2>. QED
    BY <1>2, <2>1, CallsAre
<1>. QED
  BY <1>0, <1>3, <1>4 DEF Fits, AnswersAll, IsAnswered

(* A message answers one more call.                                        *)
LEMMA OneMoreCall ==
  ASSUME NEW p \in Seq(CallIds), NEW q \in Seq(CallIds), Len(q) = 1,
         IsInjective(p), q[1] \notin ToSet(p)
  PROVE  /\ ToSet(p \o q) = ToSet(p) \cup {q[1]} /\ IsInjective(p \o q)
         /\ p \o q \in Seq(CallIds)
<1>1. PICK n \in Nat : n = Len(p)
  OBVIOUS
<1>2. PICK r : r = p \o q
  OBVIOUS
<1>3. /\ r \in Seq(CallIds) /\ Len(r) = n + 1 /\ DOMAIN r = 1..(n + 1)
      /\ r[n + 1] = q[1] /\ \A i \in 1..n : r[i] = p[i]
  <2>1. /\ r \in Seq(CallIds) /\ Len(r) = n + 1
        /\ \A i \in 1..(n + 1) : r[i] = IF i <= n THEN p[i] ELSE q[i - n]
    <3>1. /\ p \o q \in Seq(CallIds) /\ Len(p \o q) = Len(p) + Len(q)
          /\ \A i \in 1..(Len(p) + Len(q)) :
               (p \o q)[i] = IF i <= Len(p) THEN p[i] ELSE q[i - Len(p)]
      BY ConcatProperties, Zenon
    <3>. QED
      BY <1>1, <1>2, <3>1, Zenon
  <2>. QED
    BY <1>1, <2>1
<1>4. \A i \in 1..n : p[i] \in ToSet(p)
  BY <1>1 DEF ToSet
<1>5. DOMAIN p = 1..n
  BY <1>1
<1>6. ToSet(r) = ToSet(p) \cup {q[1]}
  <2>1. ASSUME NEW x \in ToSet(r) PROVE x \in ToSet(p) \cup {q[1]}
    BY <1>3, <1>4 DEF ToSet
  <2>2. ASSUME NEW x \in ToSet(p) PROVE x \in ToSet(r)
    <3>1. PICK i \in 1..n : p[i] = x
      BY <1>5 DEF ToSet
    <3>2. i \in DOMAIN r /\ r[i] = x
      BY <1>3, <3>1
    <3>. QED
      BY <3>2 DEF ToSet
  <2>3. n + 1 \in DOMAIN r
    BY <1>3
  <2>4. q[1] \in ToSet(r)
    BY <1>3, <2>3 DEF ToSet
  <2>. QED
    BY <2>1, <2>2, <2>4
<1>7. \A i, j \in 1..n : p[i] = p[j] => i = j
  BY <1>5 DEF IsInjective
<1>8. \A i \in 1..n : r[i] # r[n + 1]
  BY <1>3, <1>4
<1>9. \A i, j \in 1..(n + 1) : r[i] = r[j] => i = j
  <2>1. ASSUME NEW i \in 1..(n + 1), NEW j \in 1..(n + 1), r[i] = r[j] PROVE i = j
    <3>1. CASE i \in 1..n /\ j \in 1..n
      BY <1>3, <1>7, <2>1, <3>1
    <3>2. CASE i = n + 1 \/ j = n + 1
      BY <1>8, <2>1, <3>2
    <3>. QED
      BY <3>1, <3>2
  <2>. QED
    BY <2>1
<1>. QED
  BY <1>2, <1>3, <1>6, <1>9 DEF IsInjective

(* What is known of the messages of the turns so far: all but the last     *)
(* have what belongs beside them, and the last waits for the pending calls.*)
SoFarRight(m, pending) ==
  HalfDone(m, pending) /\ \A k \in 1..(Len(m) - 1) : Fits(m, k)

(* What a message is depends only on its neighbours.                       *)
LEMMA FitsThere ==
  ASSUME NEW m \in Messages, NEW g \in Messages, NEW k \in Nat \ {0},
         k < Len(m), k < Len(g), Fits(m, k), g[k] = m[k], g[k + 1].role = m[k + 1].role,
         k > 1 => g[k - 1] = m[k - 1]
  PROVE  Fits(g, k)
BY DEF Fits, AnswersAll, IsAnswered

(* A turn that the pairing accepts keeps the messages so far right.        *)
LEMMA GroupKeeps ==
  ASSUME NEW m \in Messages, NEW s \in PairingState, NEW t \in TurnSet,
         NEW u, u = Training!PairTurn(s, t), u.ok, SoFarRight(m, s.pending),
         NEW g, g = Training!GroupTurn(m, t)
  PROVE  SoFarRight(g, u.pending)
<1>. DEFINE n == Len(m)
<1>0. GroupsTo(m, t, g)
  BY GroupTurnIs DEF Messages
<1>1. g \in Messages /\ Len(g) \in Nat /\ n \in Nat
  BY <1>0 DEF Messages, GroupsTo
<1>2. /\ t.calls \in Seq(CallIds) /\ t.role \in {"user", "assistant", "tool"}
      /\ t.role = "tool" => Len(t.calls) = 1 /\ ToSet(t.calls) = {t.calls[1]}
      /\ t.role = "user" => t.calls = <<>>
  <2>1. t.calls \in Seq(CallIds)
    BY DEF TurnSet
  <2>. QED
    BY <2>1, CallsAre DEF TurnSet
<1>3. /\ HalfDone(m, s.pending)
      /\ \A k \in 1..(n - 1) : Fits(m, k)
  BY DEF SoFarRight
<1>4. \A k \in 1..n : m[k] \in Message /\ m[k].calls \in Seq(CallIds)
  <2>1. ASSUME NEW k \in 1..n PROVE m[k] \in Message
    BY DEF Messages
  <2>. QED
    BY <2>1 DEF Message
<1>. HIDE DEF n
<1>5. CASE t.role # "tool"
  <2>1. /\ Len(g) = n + 1 /\ g[n + 1] = t /\ \A k \in 1..n : g[k] = m[k]
    <3>1. ~Joins(m, t)
      BY <1>5 DEF Joins
    <3>. QED
      BY <1>0, <3>1, Zenon DEF GroupsTo, n
  <2>2. s.pending = {} /\ IsInjective(t.calls) /\ u.pending = ToSet(t.calls)
    BY <1>5, PairTurnIs
  <2>3. HalfDone(g, u.pending)
    <3>1. t.role = "user" => u.pending = {}
      BY <1>2, <2>2, CallsAre
    <3>. QED
      BY <1>1, <1>2, <1>5, <2>1, <2>2, <3>1 DEF HalfDone
  <2>4. ASSUME NEW k \in 1..n, k < n PROVE Fits(g, k)
    <3>1. k \in 1..(n - 1) /\ k + 1 \in 1..n /\ (k > 1 => k - 1 \in 1..n) /\ k < Len(g)
      BY <1>1, <2>1, <2>4
    <3>. QED
      BY <1>1, <1>3, <2>1, <2>4, <3>1, FitsThere DEF n
  <2>5. ASSUME n > 0 PROVE Fits(g, n)
    <3>1. Fits(m, n)
      BY <1>3, <2>2, <2>5, NothingPending DEF n, Messages
    <3>2. m[n].role = "assistant" => m[n].calls = <<>>
      BY <1>1, <3>1 DEF Fits, IsAnswered, n
    <3>3. n \in 1..n /\ (n > 1 => n - 1 \in 1..n)
      BY <1>1, <2>5
    <3>4. g[n] = m[n] /\ (n > 1 => g[n - 1] = m[n - 1])
      BY <2>1, <3>3
    <3>. QED
      BY <3>1, <3>2, <3>4 DEF Fits, AnswersAll, IsAnswered
  <2>. QED
    BY <1>1, <2>1, <2>3, <2>4, <2>5 DEF SoFarRight
<1>6. CASE t.role = "tool"
  <2>1. PICK id : id = t.calls[1]
    OBVIOUS
  <2>2. id \in s.pending /\ u.pending = s.pending \ {id} /\ ToSet(t.calls) = {id}
    BY <1>2, <1>6, <2>1, PairTurnIs
  <2>3. n > 0 /\ n \in 1..n /\ m[n].role \in {"assistant", "tool"}
    BY <1>1, <1>3, <1>4, <2>2 DEF HalfDone, Message, n
  <2>4. CASE m[n].role = "tool"
    <3>1. Joins(m, t)
      BY <1>6, <2>3, <2>4 DEF Joins, n
    <3>2. /\ Len(g) = n /\ \A k \in 1..(n - 1) : g[k] = m[k]
          /\ g[n].role = "tool" /\ g[n].calls = m[n].calls \o t.calls
      BY <1>0, <3>1, Zenon DEF GroupsTo, n
    <3>3. /\ n > 1 /\ m[n - 1].role = "assistant"
          /\ ToSet(m[n].calls) \cup s.pending = ToSet(m[n - 1].calls)
          /\ ToSet(m[n].calls) \cap s.pending = {}
          /\ IsInjective(m[n].calls) /\ IsInjective(m[n - 1].calls)
      BY <1>3, <2>3, <2>4 DEF HalfDone, n
    <3>4. ToSet(g[n].calls) = ToSet(m[n].calls) \cup {id} /\ IsInjective(g[n].calls)
      <4>1. id \notin ToSet(m[n].calls)
        BY <2>2, <3>3
      <4>. QED
        BY <1>2, <1>4, <1>6, <2>1, <2>3, <3>2, <3>3, <4>1, OneMoreCall
    <3>5. g[n - 1] = m[n - 1]
      BY <1>1, <3>2, <3>3
    <3>6. ToSet(g[n].calls) \cup u.pending = ToSet(g[n - 1].calls)
          /\ ToSet(g[n].calls) \cap u.pending = {}
      BY <2>2, <3>3, <3>4, <3>5
    <3>7. HalfDone(g, u.pending)
      BY <1>1, <3>2, <3>3, <3>4, <3>5, <3>6 DEF HalfDone
    <3>8. ASSUME NEW k \in 1..(n - 1) PROVE Fits(g, k)
      <4>1. k + 1 \in 1..n /\ (k > 1 => k - 1 \in 1..(n - 1)) /\ k < n /\ k \in Nat \ {0}
        BY <1>1
      <4>2. g[k + 1].role = m[k + 1].role
        BY <1>1, <2>4, <3>2, <4>1
      <4>. QED
        BY <1>1, <1>3, <3>2, <4>1, <4>2, FitsThere DEF n
    <3>. QED
      BY <3>2, <3>7, <3>8 DEF SoFarRight
  <2>5. CASE m[n].role = "assistant"
    <3>1. ~Joins(m, t)
      BY <2>5 DEF Joins, n
    <3>2. /\ Len(g) = n + 1 /\ g[n + 1] = t /\ \A k \in 1..n : g[k] = m[k]
      BY <1>0, <3>1, Zenon DEF GroupsTo, n
    <3>3. s.pending = ToSet(m[n].calls) /\ IsInjective(m[n].calls)
      BY <1>3, <2>3, <2>5 DEF HalfDone, n
    <3>4. IsInjective(t.calls)
      BY <1>2, <1>6 DEF IsInjective
    <3>5. ToSet(t.calls) \cup u.pending = ToSet(m[n].calls)
          /\ ToSet(t.calls) \cap u.pending = {}
      BY <2>2, <3>3
    <3>6. HalfDone(g, u.pending)
      BY <1>1, <1>6, <2>3, <2>5, <3>2, <3>3, <3>4, <3>5 DEF HalfDone
    <3>7. ASSUME NEW k \in 1..n, k < n PROVE Fits(g, k)
      <4>1. k \in 1..(n - 1) /\ k + 1 \in 1..n /\ (k > 1 => k - 1 \in 1..n) /\ k < Len(g)
        BY <1>1, <3>2, <3>7
      <4>. QED
        BY <1>1, <1>3, <3>2, <3>7, <4>1, FitsThere DEF n
    <3>8. Fits(g, n)
      BY <1>1, <1>6, <2>3, <2>5, <3>2 DEF Fits, AnswersAll, IsAnswered
    <3>. QED
      BY <1>1, <3>2, <3>6, <3>7, <3>8 DEF SoFarRight
  <2>. QED
    BY <2>3, <2>4, <2>5
<1>. QED
  BY <1>5, <1>6

(* Each prefix of an accepted conversation is so far right.                *)
LEMMA PrefixesRight ==
  ASSUME TrainingInv, Training!Paired
  PROVE  \A n \in 0..Len(Training!Turns) :
           SoFarRight(Training!Grouped[n], Training!Pairings[n].pending)
<1>. DEFINE N == Len(Training!Turns)
            I == {n \in 0..N : SoFarRight(Training!Grouped[n], Training!Pairings[n].pending)}
<1>1. 0 \in I
  <2>1. Training!Grouped[0] = <<>> /\ Training!Pairings[0].pending = {} /\ N \in Nat
    BY GroupedUnroll, PairingsUnroll DEF Training!NothingCalled
  <2>2. SoFarRight(<<>>, {})
    BY DEF SoFarRight, HalfDone
  <2>3. SoFarRight(Training!Grouped[0], Training!Pairings[0].pending)
    BY <2>1, <2>2, Zenon
  <2>4. 0 \in 0..N
    BY <2>1
  <2>. QED
    BY <2>3, <2>4, Zenon
<1>2. ASSUME NEW n \in 1..N, n - 1 \in I PROVE n \in I
  <2>1. n - 1 \in 0..N /\ n \in 0..N
    BY TurnsTyped
  <2>2. PICK m \in Messages : m = Training!Grouped[n - 1]
    BY <2>1, GroupedUnroll
  <2>3. PICK s \in PairingState : s = Training!Pairings[n - 1]
    BY <2>1, PairingsUnroll
  <2>4. PICK t \in TurnSet : t = Training!Turns[n]
    BY TurnsTyped
  <2>5. PICK u : u = Training!Pairings[n] /\ u = Training!PairTurn(s, t) /\ u.ok
    BY <2>1, <2>3, <2>4, PairingsUnroll, AcceptedThroughout
  <2>6. PICK g : g = Training!Grouped[n] /\ g = Training!GroupTurn(m, t)
    BY <2>1, <2>2, <2>4, GroupedUnroll
  <2>7. SoFarRight(m, s.pending)
    BY <1>2, <2>2, <2>3
  <2>8. SoFarRight(g, u.pending)
    BY <2>5, <2>6, <2>7, GroupKeeps
  <2>. QED
    BY <2>1, <2>5, <2>6, <2>8
<1>. HIDE DEF I
<1>3. 0..N \subseteq I
  BY <1>1, <1>2, TurnsTyped, InductionUpTo
<1>. QED
  BY <1>3 DEF I

(* Every message of the result fits.                                       *)
LEMMA ResultsFollow == TrainingInv => Training!ResultsFollowCalls
<1>. SUFFICES ASSUME TrainingInv, Training!ToAnthropic PROVE Training!ResultsFollowCalls
  BY DEF Training!ResultsFollowCalls
<1>1. Training!Paired
  BY DEF Training!ToAnthropic, Training!Convertible
<1>2. PICK N \in Nat : N = Len(Training!Turns)
  BY TurnsTyped
<1>3. Training!Pairings[N].pending = {}
  BY <1>1, <1>2 DEF Training!Paired
<1>4. PICK m \in Messages : m = Training!Grouped[N]
  BY <1>2, GroupedUnroll
<1>5. SoFarRight(m, {})
  <2>1. SoFarRight(Training!Grouped[N], Training!Pairings[N].pending)
    BY <1>1, <1>2, PrefixesRight
  <2>. QED
    BY <1>3, <1>4, <2>1, Zenon
<1>6. m \in Seq(Message) /\ Len(m) \in Nat /\ DOMAIN m = 1..Len(m)
  BY DEF Messages
<1>7. ASSUME NEW k \in 1..Len(m) PROVE Fits(m, k)
  <2>1. CASE k = Len(m)
    BY <1>5, <1>6, <2>1, NothingPending DEF SoFarRight
  <2>2. CASE k # Len(m)
    <3>1. PICK n \in Nat : n = Len(m)
      BY <1>6
    <3>2. k \in 1..(n - 1)
      BY <2>2, <3>1
    <3>. QED
      BY <1>5, <3>1, <3>2, Zenon DEF SoFarRight
  <2>. QED
    BY <2>1, <2>2
<1>8. ASSUME NEW k \in 1..Len(m), m[k].role = "tool"
      PROVE  /\ k > 1 /\ m[k - 1].role = "assistant"
             /\ Training!ToSet(m[k].calls) = Training!ToSet(m[k - 1].calls)
             /\ Len(m[k].calls) = Len(m[k - 1].calls)
  <2>1. AnswersAll(m, k)
    BY <1>7 DEF Fits
  <2>2. k - 1 \in 1..Len(m)
    BY <1>6, <1>8, <2>1 DEF AnswersAll
  <2>3. m[k] \in Message /\ m[k - 1] \in Message
    BY <1>6, <2>2
  <2>4. m[k].calls \in Seq(CallIds) /\ m[k - 1].calls \in Seq(CallIds)
    BY <2>3 DEF Message
  <2>. QED
    BY <1>8, <2>1, <2>4, CallsAre DEF AnswersAll
<1>9. ASSUME NEW k \in 1..Len(m), m[k].role = "assistant", m[k].calls # <<>>
      PROVE  k < Len(m) /\ m[k + 1].role = "tool"
  BY <1>7, <1>9 DEF Fits, IsAnswered
<1>10. Training!AnthropicMessages = m
  BY <1>2, <1>4 DEF Training!AnthropicMessages
<1>. QED
  BY <1>6, <1>8, <1>9, <1>10 DEF Training!ResultsFollowCalls

(* Turns that are neither of one role twice nor begin with the assistant   *)
(* are of the user at the odd places, and the last place is odd.           *)
LEMMA HumanAndGpt == TrainingInv => Training!HumanAndGptAlternate
<1>. SUFFICES ASSUME TrainingInv, Training!ToShareGpt PROVE Training!HumanAndGptAlternate
  BY DEF Training!HumanAndGptAlternate
<1>. DEFINE t(k) == Training!Turns[k]
            Says(k) == IF k % 2 = 1 THEN "user" ELSE "assistant"
<1>1. PICK N \in Nat : N = Len(Training!Turns) /\ DOMAIN Training!Turns = 1..N
  BY TurnsTyped
<1>2. \A k \in 1..N : /\ t(k).role \in {"user", "assistant"}
                      /\ t(k).role # (IF k = 1 THEN "assistant" ELSE t(k - 1).role)
  BY <1>1, TurnsTyped DEF Training!ToShareGpt, TurnSet
<1>3. N > 0 /\ t(N).role # "assistant"
  BY <1>1, TurnsTyped DEF Training!ToShareGpt, Training!Convertible, Training!AnswerableEnd,
                          Training!Last
<1>. HIDE DEF t
<1>. DEFINE I == {n \in 0..N : n > 0 => t(n).role = Says(n)}
<1>4. 0 \in I
  OBVIOUS
<1>5. ASSUME NEW n \in 1..N, n - 1 \in I PROVE n \in I
  <2>1. CASE n = 1
    BY <1>2, <2>1
  <2>2. CASE n > 1
    <3>1. n % 2 \in {0, 1} /\ (n - 1) % 2 = 1 - (n % 2)
      BY <2>2
    <3>2. t(n - 1).role = Says(n - 1)
      BY <1>5, <2>2
    <3>. QED
      BY <1>2, <2>2, <3>1, <3>2
  <2>. QED
    BY <2>1, <2>2
<1>. HIDE DEF I
<1>6. 0..N \subseteq I
  BY <1>4, <1>5, InductionUpTo
<1>7. \A k \in 1..N : t(k).role = Says(k)
  BY <1>6 DEF I
<1>8. N % 2 = 1
  <2>1. N \in 1..N /\ N % 2 \in {0, 1}
    BY <1>3
  <2>. QED
    BY <1>3, <1>7, <2>1
<1>. QED
  BY <1>1, <1>7, <1>8 DEF Training!HumanAndGptAlternate, t

-----------------------------------------------------------------------------
(* What the type invariant asks for, and the invariants above do not say.  *)

TypesInv ==
  /\ microtasks <= Len(appended) /\ entries <= MaxEntries
  /\ disk.records \subseteq UNION {Samples[s] : s \in Raw}
  /\ \A s \in Export!Copied : status[s] \in {"approved", "rejected"}

(* It holds at the start.                                                  *)
LEMMA TypesBegin == PartsInit => TypesInv
<1>. SUFFICES ASSUME PartsInit PROVE TypesInv
  OBVIOUS
<1>1. microtasks = 0 /\ appended = <<>> /\ entries = 0 /\ MaxEntries \in Nat
  BY DiagnosticsAssumption
  DEF PartsInit, RawTrace!Init, Diagnostics!Init, Diagnostics!LogInit
<1>2. disk.records = {} /\ status = <<>>
  BY DEF PartsInit, Export!Init, Export!Empty
<1>. QED
  BY <1>1, <1>2 DEF TypesInv, Export!Copied

(* A flush is scheduled for a record, at most one for each.                *)
LEMMA FlushesFew ==
  ASSUME RawInv, microtasks <= Len(appended), [RawTrace!Next]_rawVars
  PROVE  (microtasks <= Len(appended))'
<1>1. microtasks \in Nat /\ appended \in Seq(Records) /\ Len(appended) \in Nat
  BY DEF RawInv
<1>2. ASSUME NEW r \in Records, RawTrace!AppendRawTrace(r)
      PROVE  (microtasks <= Len(appended))'
  <2>1. Len(appended') = Len(appended) + 1
    BY <1>1, <1>2 DEF RawTrace!AppendRawTrace
  <2>2. microtasks' = microtasks \/ microtasks' = microtasks + 1
    BY <1>2 DEF RawTrace!AppendRawTrace, RawTrace!ScheduleFlush
  <2>. QED
    BY <1>1, <2>1, <2>2
<1>3. CASE RawTrace!Microtask
  BY <1>1, <1>3 DEF RawTrace!Microtask
<1>4. CASE RawTrace!DrainRawTraceQueue \/ UNCHANGED rawVars
  BY <1>4 DEF RawTrace!DrainRawTraceQueue, rawVars
<1>. QED
  BY <1>2, <1>3, <1>4 DEF RawTrace!Next

(* Diagnostics are counted as they begin, up to the bound.                 *)
LEMMA EntriesFew ==
  ASSUME LogInv, entries <= MaxEntries, [Diagnostics!Next]_diagVars
  PROVE  (entries <= MaxEntries)'
<1>1. entries \in Nat /\ MaxEntries \in Nat
  BY DiagnosticsAssumption DEF LogInv, LogTyped
<1>2. ASSUME NEW w \in Writers, Diagnostics!AppendDiagnostic(w)
      PROVE  entries' = entries \/ (entries < MaxEntries /\ entries' = entries + 1)
  BY <1>2 DEF Diagnostics!AppendDiagnostic, Diagnostics!Open, Diagnostics!Size,
              Diagnostics!Rename, Diagnostics!Reopen, Diagnostics!Write, Diagnostics!Fails
<1>3. CASE Diagnostics!GateStep \/ UNCHANGED diagVars
  BY <1>3 DEF Diagnostics!GateStep, Diagnostics!ShowDiagnostic, Diagnostics!Tick,
              Diagnostics!logVars, diagVars
<1>. QED
  BY <1>1, <1>2, <1>3 DEF Diagnostics!Next, Diagnostics!LogStep

(* The derivatives have verdicts, and the records come of raw traces.      *)
LEMMA VerdictsAndRecords ==
  ASSUME ExportInv, [Export!Next]_exportVars,
         disk.records \subseteq UNION {Samples[s] : s \in Raw},
         \A s \in Export!Copied : status[s] \in {"approved", "rejected"}
  PROVE  /\ disk'.records \subseteq UNION {Samples[s] : s \in Raw}
         /\ \A s \in Export!Copied' : status'[s] \in {"approved", "rejected"}
<1>. DEFINE All == UNION {Samples[s] : s \in Raw}
<1>0. DOMAIN disk = {"derivatives", "records", "report"}
  BY DEF ExportInv, ExportTyped
<1>1. Export!Converted \subseteq All
  BY DEF Export!Converted
<1>2. CASE UNCHANGED <<disk, status>>
  BY <1>2 DEF Export!Copied
<1>3. CASE Export!CopyFile
  <2>1. disk'.records = disk.records
    BY <1>0, <1>3 DEF Export!CopyFile
  <2>. QED
    BY <1>3, <2>1 DEF Export!CopyFile, Export!Copied
<1>4. CASE Export!ConvertTrainingSamples
  <2>1. disk'.records \subseteq All
    BY <1>0, <1>1, <1>4 DEF Export!ConvertTrainingSamples
  <2>. QED
    BY <1>4, <2>1 DEF Export!ConvertTrainingSamples, Export!Copied
<1>5. CASE Export!ScanExport
  <2>1. status' = status \/ status' = [s \in Export!Copied |-> "rejected"]
    BY <1>5, Zenon DEF Export!ScanExport
  <2>2. \A s \in Export!Copied' : status'[s] \in {"approved", "rejected"}
    BY <2>1 DEF Export!Copied
  <2>. QED
    BY <1>5, <2>2 DEF Export!ScanExport
<1>6. CASE Export!FinishTraining
  <2>1. disk'.records \subseteq All
    BY <1>0, <1>6 DEF Export!FinishTraining
  <2>. QED
    BY <1>6, <2>1 DEF Export!FinishTraining, Export!Copied
<1>7. CASE Export!Report
  <2>1. disk'.records = disk.records
    BY <1>0, <1>7 DEF Export!Report
  <2>. QED
    BY <1>7, <2>1 DEF Export!Report, Export!Copied
<1>8. CASE Export!Argument \/ Export!Parse \/ Export!Refuse \/ Export!Accept \/ Export!Interrupted
           \/ UNCHANGED exportVars
  <2>1. UNCHANGED <<disk, status>>
    BY <1>8 DEF Export!Argument, Export!Parse, Export!Refuse, Export!Accept,
                Export!Interrupted, exportVars
  <2>. QED
    BY <1>2, <2>1
<1>. QED
  BY <1>3, <1>4, <1>5, <1>6, <1>7, <1>8 DEF Export!Next

(* Together they are the type invariant.                                   *)
LEMMA TypesAre ==
  AskInv /\ RawInv /\ DiagnosticsInv /\ ExportInv /\ TrainingInv /\ TypesInv
    => ComponentsTypeOK
<1>. SUFFICES ASSUME AskInv, RawInv, DiagnosticsInv, ExportInv, TrainingInv, TypesInv
              PROVE  ComponentsTypeOK
  OBVIOUS
<1>1. RawTrace!TypeOK
  <2>1. reported \subseteq Records
    <3>1. reported \subseteq ToSet(appended) /\ appended \in Seq(Records)
      BY DEF RawInv
    <3>2. ToSet(appended) \subseteq Records
      BY <3>1 DEF ToSet
    <3>. QED
      BY <3>1, <3>2
  <2>2. microtasks \in 0..Len(appended)
    BY DEF RawInv, TypesInv
  <2>. QED
    BY <2>1, <2>2 DEF RawInv, RawTrace!TypeOK
<1>2. Diagnostics!TypeOK
  <2>1. entries \in 0..MaxEntries
    BY DiagnosticsAssumption DEF DiagnosticsInv, LogInv, LogTyped, TypesInv
  <2>. QED
    BY <2>1 DEF DiagnosticsInv, LogInv, LogTyped, GateInv, Diagnostics!TypeOK
<1>3. Export!TypeOK
  <2>1. Export!Copied \subseteq Sources /\ disk.derivatives = Export!Copied
    <3>1. Export!Copied \subseteq Export!Inputs /\ disk.derivatives = Export!Copied
      BY DEF ExportInv, Judged
    <3>. QED
      BY <3>1 DEF Export!Inputs
  <2>. QED
    BY <2>1 DEF ExportInv, ExportTyped, Phases, TypesInv, Export!TypeOK
<1>. QED
  BY <1>1, <1>2, <1>3 DEF AskInv, TrainingInv, ComponentsTypeOK

-----------------------------------------------------------------------------
(* Together                                                                *)
PartsInv ==
  AskInv /\ RawInv /\ DiagnosticsInv /\ ExportInv /\ TrainingInv /\ TypesInv

(* The conjunction PartsInv on which the theorems below rest is an         *)
(* invariant of the parts, whatever their steps interleave (raw-trace.ts,  *)
(* diagnostics-log.ts, tool-lifecycle.ts, export.ts, training-export.ts).  *)
THEOREM Invariance == PartsSpec => []PartsInv
<1>1. PartsInit => PartsInv
  BY AskBegins, RawBegins, DiagnosticsBegins, ExportBegins, TrainingBegins, TypesBegin
  DEF PartsInit, PartsInv
<1>2. PartsInv /\ [PartsNext]_partsVars => PartsInv'
  <2>. SUFFICES ASSUME PartsInv, [PartsNext]_partsVars PROVE PartsInv'
    OBVIOUS
  <2>1. [Ask!Next]_askVars /\ [RawTrace!Next]_rawVars /\ [Diagnostics!Next]_diagVars
        /\ [Export!Next]_exportVars /\ [Training!Next]_trainingVars
    BY DEF PartsNext, partsVars
  <2>2. AskInv' /\ RawInv' /\ DiagnosticsInv' /\ ExportInv' /\ TrainingInv'
    BY <2>1, AskGoesOn, RawGoesOn, DiagnosticsGoesOn, ExportGoesOn, TrainingGoesOn DEF PartsInv
  <2>3. /\ (microtasks <= Len(appended))' /\ (entries <= MaxEntries)'
        /\ disk'.records \subseteq UNION {Samples[s] : s \in Raw}
        /\ \A s \in Export!Copied' : status'[s] \in {"approved", "rejected"}
    BY <2>1, FlushesFew, EntriesFew, VerdictsAndRecords DEF PartsInv, DiagnosticsInv, TypesInv
  <2>. QED
    BY <2>2, <2>3 DEF PartsInv, TypesInv
<1>. QED
  BY <1>1, <1>2, PTL DEF PartsSpec

(* Every part's variables have their types.                                *)
THEOREM TypeCorrect == PartsSpec => []ComponentsTypeOK
<1>1. PartsInv => ComponentsTypeOK
  BY TypesAre DEF PartsInv
<1>. QED
  BY <1>1, Invariance, PTL

(* Raw records are written in order and none is lost but by a failure that *)
(* is reported; the log and the gate keep what they promise                *)
(* (src/raw-trace.ts, src/diagnostics-log.ts).                             *)
THEOREM NothingIsLostSilently == PartsSpec => []RecordsKept
<1>1. PartsInv => RecordsKept
  BY RawInOrder, DiagnosticsPromise DEF PartsInv, RecordsKept
<1>. QED
  BY <1>1, Invariance, PTL

(* The time a prompt waits for answers is that of its own dialogs, and is  *)
(* counted once (src/tool-lifecycle.ts, src/ask-wait.ts).                  *)
THEOREM WaitsAreItsOwn == PartsSpec => []WaitingAttributed
<1>1. PartsInv => WaitingAttributed
  BY WaitIs DEF PartsInv, AskInv, WaitingAttributed, Ask!WaitingAttributed
<1>. QED
  BY <1>1, Invariance, PTL

(* An export publishes only what was scanned and consented to, whatever    *)
(* the command line and whatever fails (src/export.ts).                    *)
THEOREM ExportsAreHonest == PartsSpec => []ExportHonest
<1>1. PartsInv => ExportHonest
  BY ExportPromise DEF PartsInv, ExportHonest
<1>. QED
  BY <1>1, Invariance, PTL

(* Whatever a raw trace holds, and in whatever order, the samples made of  *)
(* it are proven and whole (src/training-export.ts).                       *)
THEOREM SamplesAreRight == PartsSpec => []TrainingRight
<1>1. PartsInv => TrainingRight
  BY SamplesProven, RecordsAccounted, ResultsFollow, IdsUnique, HumanAndGpt
  DEF PartsInv, TrainingRight, Training!TrainingRight
<1>. QED
  BY <1>1, Invariance, PTL
=============================================================================
