--------------------------- MODULE MCLocalClient ---------------------------
(* Small instances of LocalClient. *)
EXTENDS LocalClient, TLC

CONSTANTS op, vitals

Poll(a, raw, force) == [op |-> "poll", api |-> a, raw |-> raw, force |-> force]
Post(a) == [op |-> "post", api |-> a, raw |-> FALSE, force |-> FALSE]

\* One endpoint that is written and read in both representations.
ConfigRequests ==
  {Post(op), Poll(op, TRUE, FALSE), Poll(op, FALSE, TRUE)}

\* Every kind of call, by a caller that has the client to itself.
AloneRequests ==
  {Post(op), Poll(op, FALSE, FALSE), Poll(op, TRUE, FALSE), Poll(op, TRUE, TRUE),
   Poll(vitals, FALSE, FALSE), Poll(vitals, TRUE, TRUE)}

\* Callers and sessions are interchangeable; used by the safety runs only.
Symmetry == Permutations(Callers) \cup Permutations(Sessions)
=============================================================================
