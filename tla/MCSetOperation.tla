--------------------------- MODULE MCSetOperation ---------------------------
(* Small instances of SetOperation. *)
EXTENDS SetOperation, TLC

\* Callers are interchangeable, and so are values.
Symmetry == Permutations(Callers) \cup Permutations(Values)
=============================================================================
