---------------------------- MODULE SpanDelivery ----------------------------
(***************************************************************************)
(* What the exporter promises the caller of export(), without its queue,   *)
(* its slots or its requests: every call it accepts is settled exactly     *)
(* once, several calls may settle together with one result, and a call     *)
(* made after the exporter closed is refused at once.                      *)
(***************************************************************************)
CONSTANT Exports

VARIABLES
  fate,    (* fate[e]: "open", "owed", or the result delivered for e       *)
  closed   (* has the exporter been shut down?                             *)

vars == <<fate, closed>>

Results == {"success", "failed"}

Owed == {e \in Exports : fate[e] = "owed"}

TypeOK ==
  /\ fate \in [Exports -> {"open", "owed", "dropped"} \cup Results]
  /\ closed \in BOOLEAN

Init ==
  /\ fate = [e \in Exports |-> "open"]
  /\ closed = FALSE

(* The calls in S settle with one result; nobody else's fate changes. *)
SettledIn(S, result) == [e \in Exports |-> IF e \in S THEN result ELSE fate[e]]

(* A call is accepted.  It may settle before export() returns, alone or    *)
(* with others that were owed.                                             *)
Accept(e, S, result) ==
  /\ ~closed
  /\ fate[e] = "open"
  /\ S \subseteq Owed \cup {e}
  /\ fate' = [SettledIn(S, result) EXCEPT ![e] = IF e \in S THEN result ELSE "owed"]
  /\ UNCHANGED closed

Refuse(e) ==
  /\ closed
  /\ fate[e] = "open"
  /\ fate' = [fate EXCEPT ![e] = "dropped"]
  /\ UNCHANGED closed

Settle(S, result) ==
  /\ S \subseteq Owed
  /\ fate' = SettledIn(S, result)
  /\ UNCHANGED closed

Close(S, result) ==
  /\ ~closed
  /\ closed' = TRUE
  /\ S \subseteq Owed
  /\ fate' = SettledIn(S, result)

Next ==
  \E result \in Results :
    \/ \E e \in Exports, S \in SUBSET Exports : Accept(e, S, result)
    \/ \E e \in Exports : Refuse(e)
    \/ \E S \in SUBSET Exports : Settle(S, result) \/ Close(S, result)

(* Once closed, what is still owed is not owed for ever. *)
SettlesClosed(e) ==
  /\ closed
  /\ \E S \in SUBSET Exports, result \in Results : e \in S /\ Settle(S, result)

SafeSpec == Init /\ [][Next]_vars
Spec     == SafeSpec /\ \A e \in Exports : WF_vars(SettlesClosed(e))
=============================================================================
