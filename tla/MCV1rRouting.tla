---------------------------- MODULE MCV1rRouting ----------------------------
(* Small instances of V1rRouting. *)
EXTENDS V1rRouting
=============================================================================
