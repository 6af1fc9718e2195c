---------------------------- MODULE MCOAuthToken ---------------------------
(* Small instances of OAuthToken. *)
EXTENDS OAuthToken, TLC

\* Requests are interchangeable.
Symmetry == Permutations(Callers)
=============================================================================
