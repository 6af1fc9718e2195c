--------------------------- MODULE ActiveBackend ---------------------------
(***************************************************************************)
(* What the facade promises about its backend (the comments of Powerwall,  *)
(* New, Connect and Close): at most one backend is live, Mode names it,    *)
(* and a Connect that fails changes nothing while there is one.            *)
(***************************************************************************)
EXTENDS Naturals

VARIABLES
  configured,  \* the mode New chose
  reach,       \* the kinds of backend Connect may end up with
  live,        \* the kind of the live backend, or "none"
  mode         \* what Mode() returns

vars == <<configured, reach, live, mode>>

Modes == {"Local", "TEDAPI", "V1r", "FleetAPI", "Cloud", "Unknown"}
Kinds == {"Local", "Hybrid", "TEDAPI", "V1r", "FleetAPI", "Cloud"}

ModeOf(kind) == IF kind = "Hybrid" THEN "Local" ELSE kind

Init ==
  /\ configured \in {"Local", "FleetAPI", "Cloud", "Unknown"}
  /\ reach \in SUBSET Kinds
  /\ live = "none"
  /\ mode = configured

ConnectSucceeds ==
  /\ live' \in reach
  /\ mode' = ModeOf(live')
  /\ UNCHANGED <<configured, reach>>

\* Without a live backend, Mode falls back to the configured mode.
ConnectFails ==
  /\ live = "none"
  /\ mode' = configured
  /\ UNCHANGED <<configured, reach, live>>

Close ==
  /\ live' = "none"
  /\ UNCHANGED <<configured, reach, mode>>

Next == ConnectSucceeds \/ ConnectFails \/ Close

Spec == Init /\ [][Next]_vars
=============================================================================
