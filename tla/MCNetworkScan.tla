---------------------------- MODULE MCNetworkScan ----------------------------
(* NetworkScan for TLC: the values of the constants are those of its cfg.   *)
EXTENDS NetworkScan
=============================================================================
