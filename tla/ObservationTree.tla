--------------------------- MODULE ObservationTree ---------------------------
(***************************************************************************)
(* What the observations of one prompt promise to who reads its trace: a   *)
(* tree.  An observation is opened once and ended once, in no order but    *)
(* that nothing is opened below what has ended, and a turn does not end    *)
(* before its requests.  Observations may be given up; a root that ended   *)
(* as clean says that none was, and none is given up after that.           *)
(***************************************************************************)
CONSTANTS
  Turns,     (* children of the root                          *)
  Requests,  (* children of a turn                            *)
  Tools,     (* children of the root                          *)
  NoParent   (* the request is not known yet                  *)

Observations == Turns \cup Requests \cup Tools

VARIABLES
  root,      (* "open"; or how it ended, "clean" or "cut"     *)
  state,     (* state[o]: "none", "open" or "ended"           *)
  parent,    (* parent[r]: the turn of a request              *)
  lost       (* the observations that were given up           *)

vars == <<root, state, parent, lost>>

Init ==
  /\ root = "open"
  /\ state = [o \in Observations |-> "none"]
  /\ parent = [r \in Requests |-> NoParent]
  /\ lost = {}

Adopt(r, t) ==
  /\ root = "open" /\ state[t] # "ended"
  /\ parent[r] = NoParent
  /\ parent' = [parent EXCEPT ![r] = t]
  /\ UNCHANGED <<root, state>>

Open(o) ==
  /\ root = "open"
  /\ o \in Requests => parent[o] # NoParent /\ state[parent[o]] # "ended"
  /\ state[o] = "none"
  /\ state' = [state EXCEPT ![o] = "open"]
  /\ UNCHANGED <<root, parent>>

End(o) ==
  /\ state[o] = "open"
  /\ o \in Turns => \A r \in Requests : parent[r] = o => state[r] # "open"
  /\ state' = [state EXCEPT ![o] = "ended"]
  /\ UNCHANGED <<root, parent>>

EndRoot ==
  /\ root = "open"
  /\ root' \in {"clean", "cut"}
  /\ UNCHANGED <<state, parent>>

(* Any step may give something up, unless the root has said otherwise.     *)
Loses == lost \subseteq lost' /\ (root' = "clean" => lost' = {})

Next ==
  /\ Loses
  /\ \/ \E r \in Requests, t \in Turns : Adopt(r, t)
     \/ \E o \in Observations : Open(o) \/ End(o)
     \/ EndRoot
     \/ UNCHANGED <<root, state, parent>>

Spec == Init /\ [][Next]_vars
=============================================================================
