--------------------------- MODULE MCProxyServing ---------------------------
(* Small instances of ProxyServing. *)
EXTENDS ProxyServing

CONSTANTS aggregates, soe
=============================================================================
