--------------------------- MODULE SequenceLemmas ---------------------------
(***************************************************************************)
(* What the operators of SequencesExt and FiniteSetsExt that the models    *)
(* use return, for the proofs: the library states no theorem about them.   *)
(* And induction and recursion in a form that needs no operator as a       *)
(* parameter: a property is the set of those that have it, and what a      *)
(* recursion does with the value before is a function.                     *)
(***************************************************************************)
EXTENDS Integers, Sequences, SequencesExt, FiniteSetTheorems, TLAPS

(* The order of which the library's Min takes the least element.           *)
LEMMA Less == \A x, y \in Nat : <<x, y>> \in OpToRel(<, Nat) <=> x < y
  BY DEF OpToRel

(* A nonempty set of natural numbers has its minimum.                      *)
LEMMA MinIs ==
  ASSUME NEW I \in SUBSET Nat, I # {}
  PROVE  Min(I) \in I /\ \A j \in I : Min(I) <= j
<1>1. PICK x \in I : \A y \in I : ~(<<y, x>> \in OpToRel(<, Nat))
  BY NatLessThanWellFounded, WFMin
<1>2. x \in Nat /\ \A y \in I : y \in Nat
  OBVIOUS
<1>3. \A y \in I : ~(y < x)
  BY <1>1, <1>2, Less, Zenon
<1>4. \A y \in I : x <= y
  BY <1>2, <1>3
<1>. QED
  BY <1>4 DEF Min

(* RemoveAt closes the gap that it leaves.                                 *)
LEMMA RemoveAtFacts ==
  ASSUME NEW S, NEW s \in Seq(S), NEW k \in 1..Len(s)
  PROVE  LET t == RemoveAt(s, k) IN
         /\ t \in Seq(S) /\ Len(t) = Len(s) - 1
         /\ \A i \in 1..Len(t) : t[i] = IF i < k THEN s[i] ELSE s[i+1]
<1>1. PICK front : front = SubSeq(s, 1, k - 1)
  OBVIOUS
<1>2. PICK back : back = SubSeq(s, k + 1, Len(s))
  OBVIOUS
<1>3. /\ front \in Seq(S) /\ Len(front) = k - 1
      /\ \A i \in 1..(k - 1) : front[i] = s[i]
  BY <1>1
<1>4. /\ back \in Seq(S) /\ Len(back) = Len(s) - k
      /\ \A i \in 1..(Len(s) - k) : back[i] = s[k + i]
  BY <1>2
<1>5. PICK t : t = front \o back
  OBVIOUS
<1>6. t \in Seq(S) /\ Len(t) = Len(s) - 1
  BY <1>3, <1>4, <1>5
<1>7. ASSUME NEW i \in 1..Len(t) PROVE t[i] = IF i < k THEN s[i] ELSE s[i+1]
  <2>1. CASE i < k
    BY <2>1, <1>3, <1>4, <1>5, <1>6
  <2>2. CASE i >= k
    <3>1. t[i] = back[i - (k - 1)]
      BY <2>2, <1>3, <1>4, <1>5, <1>6
    <3>. QED
      BY <3>1, <2>2, <1>4, <1>6
  <2>. QED
    BY <2>1, <2>2
<1>. QED
  BY <1>1, <1>2, <1>5, <1>6, <1>7 DEF RemoveAt

(* Without repetitions, RemoveFirst removes the element, and nothing else. *)
LEMMA RemoveFirstFacts ==
  ASSUME NEW S, NEW s \in Seq(S), NEW e, IsInjective(s)
  PROVE  /\ RemoveFirst(s, e) \in Seq(S)
         /\ IsInjective(RemoveFirst(s, e))
         /\ \A x : Contains(RemoveFirst(s, e), x) <=> Contains(s, x) /\ x # e
<1>1. CASE ~Contains(s, e)
  BY <1>1 DEF RemoveFirst, Contains
<1>2. CASE Contains(s, e)
  <2>1. PICK k \in 1..Len(s) : s[k] = e /\ RemoveFirst(s, e) = RemoveAt(s, k)
    <3> DEFINE I == {i \in 1..Len(s) : s[i] = e}
    <3>1. I \in SUBSET Nat /\ I # {}
      BY <1>2 DEF Contains
    <3>2. Min(I) \in I
      BY <3>1, MinIs
    <3>3. RemoveFirst(s, e) = RemoveAt(s, Min(I))
      BY <3>1 DEF RemoveFirst, SelectInSeq
    <3>. QED
      BY <3>2, <3>3
  <2>2. PICK t : t = RemoveFirst(s, e)
    OBVIOUS
  <2>3. /\ t \in Seq(S) /\ Len(t) = Len(s) - 1
        /\ \A i \in 1..Len(t) : t[i] = IF i < k THEN s[i] ELSE s[i+1]
    BY <2>1, <2>2, RemoveAtFacts
  <2>4. IsInjective(t)
    BY <2>3, SMTT(30) DEF IsInjective
  <2>5. ASSUME NEW x PROVE Contains(t, x) <=> Contains(s, x) /\ x # e
    <3>1. ASSUME NEW i \in 1..Len(t), t[i] = x PROVE Contains(s, x) /\ x # e
      BY <3>1, <2>1, <2>3, SMTT(30) DEF Contains, IsInjective
    <3>2. ASSUME NEW i \in 1..Len(s), s[i] = x, x # e PROVE Contains(t, x)
      <4>1. CASE i < k
        BY <4>1, <3>2, <2>1, <2>3 DEF Contains
      <4>2. CASE i > k
        <5>1. i - 1 \in 1..Len(t) /\ t[i - 1] = x
          BY <4>2, <3>2, <2>1, <2>3
        <5>. QED
          BY <5>1 DEF Contains
      <4>. QED
        BY <4>1, <4>2, <3>2, <2>1
    <3>. QED
      BY <3>1, <3>2 DEF Contains
  <2>. QED
    BY <2>2, <2>3, <2>4, <2>5
<1>. QED
  BY <1>1, <1>2

(* The place of the first element of s that is in P, or 0.                 *)
FirstIn(s, P) == SelectInSeq(s, LAMBDA x : x \in P)

(* It is there, and none before it is.                                     *)
LEMMA FirstInIs ==
  ASSUME NEW S, NEW s \in Seq(S), NEW P
  PROVE  LET k == FirstIn(s, P) IN
         \/ k = 0 /\ \A j \in 1..Len(s) : s[j] \notin P
         \/ /\ k \in 1..Len(s) /\ s[k] \in P
            /\ \A j \in 1..(k - 1) : s[j] \notin P
<1>. DEFINE I == {j \in 1..Len(s) : s[j] \in P}
<1>1. CASE I = {}
  BY <1>1 DEF FirstIn, SelectInSeq
<1>2. CASE I # {}
  <2>1. I \in SUBSET Nat
    OBVIOUS
  <2>2. PICK k \in I : k = Min(I) /\ \A j \in I : k <= j
    BY <1>2, <2>1, MinIs
  <2>3. FirstIn(s, P) = k
    BY <1>2, <2>2 DEF FirstIn, SelectInSeq
  <2>4. \A j \in 1..(k - 1) : s[j] \notin P
    BY <2>2
  <2>. QED
    BY <2>2, <2>3, <2>4
<1>. QED
  BY <1>1, <1>2

(* A nonempty and bounded set of natural numbers has its maximum, and so a *)
(* set of places has its last one.                                         *)
LEMMA GreatestIs ==
  ASSUME NEW n \in Nat, NEW I \in SUBSET (0..n), I # {}
  PROVE  Max(I) \in I /\ \A j \in I : j <= Max(I)
<1>. DEFINE J == {n - i : i \in I}
<1>1. J \in SUBSET Nat /\ J # {}
  <2>1. \A i \in I : n - i \in Nat
    OBVIOUS
  <2>2. \A j \in J : j \in Nat
    BY <2>1
  <2>3. \E i \in I : n - i \in J
    OBVIOUS
  <2>. QED
    BY <2>2, <2>3
<1>2. PICK m \in J : \A j \in J : m <= j
  BY <1>1, MinIs
<1>3. PICK x \in I : m = n - x
  OBVIOUS
<1>4. ASSUME NEW y \in I PROVE x >= y
  <2>1. n - x <= n - y
    BY <1>2, <1>3
  <2>. QED
    BY <2>1
<1>5. Max(I) = CHOOSE y \in I : \A z \in I : y >= z
  BY DEF Max
<1>6. Max(I) \in I /\ \A z \in I : Max(I) >= z
  BY <1>4, <1>5, Zenon
<1>. QED
  BY <1>6

LEMMA MaxIs ==
  ASSUME NEW n \in Nat, NEW I \in SUBSET (1..n), I # {}
  PROVE  Max(I) \in I /\ \A j \in I : j <= Max(I)
<1>1. I \in SUBSET (0..n)
  OBVIOUS
<1>. QED
  BY <1>1, GreatestIs

-----------------------------------------------------------------------------
(* Induction, with the set of the numbers that have the property.          *)
LEMMA InductionUpTo ==
  ASSUME NEW N \in Nat, NEW I,
         0 \in I, \A n \in 1..N : n - 1 \in I => n \in I
  PROVE  0..N \subseteq I
<1>. DEFINE J == {n \in 0..N : n \notin I}
<1>1. SUFFICES ASSUME J # {} PROVE FALSE
  BY <1>1
<1>2. J \in SUBSET Nat
  OBVIOUS
<1>3. PICK m \in J : \A j \in J : m <= j
  BY <1>1, <1>2, MinIs
<1>4. m \in 1..N /\ m - 1 \in 0..N /\ m - 1 \notin J
  BY <1>3
<1>. QED
  BY <1>3, <1>4

(* What keeps the type at each number keeps it up to the last one.         *)
LEMMA TypedUpTo ==
  ASSUME NEW N \in Nat, NEW S, NEW k, k[0] \in S,
         \A n \in 1..N : k[n - 1] \in S => k[n] \in S
  PROVE  \A n \in 0..N : k[n] \in S
<1>. DEFINE I == {n \in 0..N : k[n] \in S}
<1>1. 0 \in I
  OBVIOUS
<1>2. ASSUME NEW n \in 1..N, n - 1 \in I PROVE n \in I
  BY <1>2
<1>. HIDE DEF I
<1>3. 0..N \subseteq I
  BY <1>1, <1>2, InductionUpTo
<1>. QED
  BY <1>3 DEF I

(* A function may be defined by recursion on its argument: a is its value  *)
(* at 0, and g says how each other value comes of the one before.          *)
IsStep(g, N, S) == g \in [(1..N) \X S -> S]

Unrolls(f, N, S, a, g) ==
  f \in [0..N -> S] /\ f[0] = a /\ \A n \in 1..N : f[n] = g[<<n, f[n - 1]>>]

(* A function defined in this way unrolls.                                 *)
LEMMA RecursionUpTo ==
  ASSUME NEW N \in Nat, NEW S, NEW a \in S, NEW g, IsStep(g, N, S)
  PROVE  \E f : Unrolls(f, N, S, a, g)
<1>. USE DEF IsStep
<1>. DEFINE Good(f, m) == /\ f \in [0..m -> S] /\ f[0] = a
                          /\ \A n \in 1..m : f[n] = g[<<n, f[n - 1]>>]
            I == {m \in 0..N : \E f : Good(f, m)}
<1>1. 0 \in I
  <2>1. PICK f : f = [n \in 0..0 |-> a]
    OBVIOUS
  <2>2. Good(f, 0)
    BY <2>1
  <2>. HIDE DEF Good
  <2>. QED
    BY <2>2
<1>2. ASSUME NEW m \in 1..N, m - 1 \in I PROVE m \in I
  <2>1. PICK f : Good(f, m - 1)
    BY <1>2
  <2>2. PICK h : h = [n \in 0..m |-> IF n = m THEN g[<<m, f[m - 1]>>] ELSE f[n]]
    OBVIOUS
  <2>3. g[<<m, f[m - 1]>>] \in S
    BY <2>1
  <2>4. h \in [0..m -> S] /\ h[0] = a
    BY <2>1, <2>2, <2>3
  <2>5. ASSUME NEW n \in 1..m PROVE h[n] = g[<<n, h[n - 1]>>]
    <3>1. h[n - 1] = f[n - 1]
      BY <2>2
    <3>2. CASE n = m
      BY <3>1, <3>2, <2>2
    <3>3. CASE n # m
      <4>1. n \in 1..(m - 1) /\ h[n] = f[n]
        BY <3>3, <2>2
      <4>. QED
        BY <4>1, <3>1, <2>1
    <3>. QED
      BY <3>2, <3>3
  <2>6. Good(h, m)
    BY <2>4, <2>5
  <2>. HIDE DEF Good
  <2>. QED
    BY <2>6
<1>. HIDE DEF I
<1>3. N \in I
  BY <1>1, <1>2, InductionUpTo
<1>4. PICK f : Good(f, N)
  BY <1>3 DEF I
<1>. QED
  BY <1>4 DEF Unrolls

(* The same for a fold over a finite set: c says which element a subset is *)
(* without at the next step, and g how its value comes of the rest's.      *)
Takes(c, S)      == \A s \in (SUBSET S) \ {{}} : c[s] \in s
IsFold(g, S, V)  == g \in [S \X V -> V]

FoldsUp(f, S, V, base, c, g) ==
  /\ f \in [SUBSET S -> V]
  /\ f = [s \in SUBSET S |-> IF s = {} THEN base ELSE g[<<c[s], f[s \ {c[s]}]>>]]

(* Such a fold unrolls.                                                    *)
LEMMA RecursionOnSubsets ==
  ASSUME NEW S, IsFiniteSet(S), NEW V, NEW base \in V, NEW c, NEW g,
         IsFold(g, S, V), Takes(c, S)
  PROVE  \E f : FoldsUp(f, S, V, base, c, g)
<1>. USE DEF IsFold, Takes
<1>. DEFINE Up(m)      == {s \in SUBSET S : Cardinality(s) <= m}
            Value(f, s) == IF s = {} THEN base ELSE g[<<c[s], f[s \ {c[s]}]>>]
            Good(f, m) == f \in [Up(m) -> V] /\ \A s \in Up(m) : f[s] = Value(f, s)
            N == Cardinality(S)
            I == {m \in 0..N : \E f : Good(f, m)}
<1>1. N \in Nat /\ \A s \in SUBSET S : IsFiniteSet(s) /\ Cardinality(s) \in 0..N
  BY FS_CardinalityType, FS_Subset
<1>2. \A s \in SUBSET S : Cardinality(s) = 0 <=> s = {}
  BY <1>1, FS_EmptySet
<1>3. \A s \in (SUBSET S) \ {{}} :
        s \ {c[s]} \in SUBSET S /\ Cardinality(s \ {c[s]}) = Cardinality(s) - 1
  BY <1>1, FS_RemoveElement
<1>4. 0 \in I
  <2>1. PICK f : f = [s \in Up(0) |-> base]
    OBVIOUS
  <2>2. \A s \in Up(0) : s = {}
    BY <1>1, <1>2
  <2>3. Good(f, 0)
    BY <2>1, <2>2
  <2>. HIDE DEF Good
  <2>. QED
    BY <2>3, <1>1
<1>5. ASSUME NEW m \in 1..N, m - 1 \in I PROVE m \in I
  <2>1. PICK f : Good(f, m - 1)
    BY <1>5
  <2>2. PICK h : h = [s \in Up(m) |-> Value(f, s)]
    OBVIOUS
  <2>3. \A s \in Up(m) : s # {} => c[s] \in S /\ s \ {c[s]} \in Up(m - 1)
    BY <1>1, <1>3
  <2>4. h \in [Up(m) -> V]
    <3>1. ASSUME NEW s \in Up(m) PROVE Value(f, s) \in V
      <4>1. CASE s = {}
        BY <4>1
      <4>2. CASE s # {}
        <5>1. f[s \ {c[s]}] \in V /\ c[s] \in S
          BY <4>2, <2>1, <2>3
        <5>. QED
          BY <5>1, <4>2
      <4>. QED
        BY <4>1, <4>2
    <3>. HIDE DEF Value
    <3>. QED
      BY <3>1, <2>2
  <2>5. \A s \in Up(m - 1) : s \in Up(m) /\ h[s] = f[s]
    <3>1. \A s \in Up(m - 1) : s \in Up(m)
      BY <1>1
    <3>. HIDE DEF Value, Up
    <3>. QED
      BY <3>1, <2>1, <2>2
  <2>6. ASSUME NEW s \in Up(m) PROVE h[s] = Value(h, s)
    <3>1. CASE s = {}
      BY <3>1, <2>2
    <3>2. CASE s # {}
      <4>1. h[s \ {c[s]}] = f[s \ {c[s]}]
        BY <3>2, <2>3, <2>5
      <4>. QED
        BY <4>1, <3>2, <2>2
    <3>. QED
      BY <3>1, <3>2
  <2>7. Good(h, m)
    BY <2>4, <2>6
  <2>. HIDE DEF Good
  <2>. QED
    BY <2>7
<1>. HIDE DEF I
<1>6. N \in I
  BY <1>1, <1>4, <1>5, InductionUpTo
<1>7. PICK f : Good(f, N)
  BY <1>6 DEF I
<1>8. Up(N) = SUBSET S
  BY <1>1
<1>9. f \in [SUBSET S -> V]
  BY <1>7, <1>8
<1>10. f = [s \in SUBSET S |-> Value(f, s)]
  <2>. HIDE DEF Value, Up
  <2>. QED
    BY <1>7, <1>8, <1>9
<1>. QED
  BY <1>9, <1>10 DEF FoldsUp

(* A sequence ends with its last element.                                  *)
LEMMA LastAppended ==
  ASSUME NEW S, NEW s \in Seq(S), s # <<>>
  PROVE  LET front == SubSeq(s, 1, Len(s) - 1) IN
         /\ front \in Seq(S) /\ Len(front) = Len(s) - 1
         /\ s[Len(s)] \in S /\ s = Append(front, s[Len(s)])
<1>1. Len(s) \in Nat \ {0} /\ s[Len(s)] \in S
  OBVIOUS
<1>2. PICK front : front = SubSeq(s, 1, Len(s) - 1)
  OBVIOUS
<1>3. /\ front \in Seq(S) /\ Len(front) = Len(s) - 1
      /\ \A i \in 1..(Len(s) - 1) : front[i] = s[i]
  <2>1. PICK n \in 0..Len(s) : n = Len(s) - 1
    <3>1. Len(s) - 1 \in 0..Len(s)
      BY ONLY <1>1
    <3>. QED
      BY ONLY <3>1
  <2>2. front = SubSeq(s, 1, n)
    BY <1>2, <2>1
  <2>3. /\ front \in Seq(S) /\ Len(front) = n
        /\ \A i \in 1..n : front[i] = s[i]
    BY <2>1, <2>2
  <2>. QED
    BY <2>1, <2>3
<1>4. PICK t : t = Append(front, s[Len(s)])
  OBVIOUS
<1>5. t \in Seq(S) /\ Len(t) = Len(s) /\ \A i \in 1..Len(s) : t[i] = s[i]
  BY <1>1, <1>3, <1>4
<1>6. t = s
  BY <1>5
<1>. QED
  BY <1>1, <1>2, <1>3, <1>4, <1>6

(* Induction over sequences, by their last element.                        *)
LEMMA InductionOnSequences ==
  ASSUME NEW S, NEW I,
         <<>> \in I, \A s \in Seq(S), e \in S : s \in I => Append(s, e) \in I
  PROVE  Seq(S) \subseteq I
<1>. DEFINE J == {Len(s) : s \in {t \in Seq(S) : t \notin I}}
<1>1. SUFFICES ASSUME J # {} PROVE FALSE
  BY <1>1
<1>2. J \in SUBSET Nat
  OBVIOUS
<1>3. PICK m \in J : \A j \in J : m <= j
  BY <1>1, <1>2, MinIs
<1>4. PICK s \in Seq(S) : s \notin I /\ Len(s) = m
  OBVIOUS
<1>5. PICK front : front = SubSeq(s, 1, Len(s) - 1)
  OBVIOUS
<1>6. /\ front \in Seq(S) /\ Len(front) = m - 1
      /\ s[Len(s)] \in S /\ s = Append(front, s[Len(s)])
  BY <1>4, <1>5, LastAppended
<1>7. front \in I
  <2>1. SUFFICES ASSUME front \notin I PROVE FALSE
    BY <2>1
  <2>2. m - 1 \in J
    BY <2>1, <1>6
  <2>. QED
    BY <2>2, <1>2, <1>3
<1>. QED
  BY <1>4, <1>6, <1>7
=============================================================================
