----------------------------- MODULE MCConnect -----------------------------
(* Small instances of Connect. *)
EXTENDS Connect, TLC

\* Backends and callers are interchangeable; used by the safety runs only.
Symmetry == Permutations(Backends) \cup Permutations(Callers)
=============================================================================
