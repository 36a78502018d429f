--------------------------- MODULE MCOtlpExporter ---------------------------
(* A small instance of OtlpExporter.                                       *)
EXTENDS OtlpExporter, TLC

CONSTANTS e1, e2, e3, e4

(* e2 carries a dispatch span; e4, where present, is an empty call. *)
MCSpanCount == [e \in Exports |-> IF e = e4 THEN 0 ELSE 1]
MCDispatch  == Exports \cap {e2}
(* e1 and e3 carry one ordinary span each: nothing tells them apart. *)
MCSymmetry == Permutations({e1, e3})
=============================================================================
