------------------------------ MODULE Connect ------------------------------
(***************************************************************************)
(* The facade's connection state, powerwall/connect.go and powerwall.go:   *)
(* Connect with its failover and retry loops, Close, and the calls that    *)
(* use a backend under the read lock.                                      *)
(*                                                                         *)
(* Connect and Close hold Powerwall.mu for writing from beginning to end,  *)
(* so at most one of them runs and pc is the lock as well: "free" means    *)
(* nobody holds it for writing.  One attempt at one mode is one step.      *)
(*                                                                         *)
(* The flags cloudmode, fleetapiFlag and tedapiFlag are written and        *)
(* restored along with mode but nothing reads them; they are left out.     *)
(***************************************************************************)
EXTENDS Naturals

CONSTANTS
  Backends,   \* backend objects
  NoBackend,  \* nil
  Callers,    \* goroutines that use the facade
  MaxRounds   \* bound on the rounds of the retry loop of one Connect

ASSUME ConnectAssumption ==
  /\ NoBackend \notin Backends
  /\ MaxRounds \in Nat

Modes == {"Local", "TEDAPI", "V1r", "FleetAPI", "Cloud", "Unknown"}
Kinds == {"Local", "Hybrid", "TEDAPI", "V1r", "FleetAPI", "Cloud"}
Slots == {"local", "tedapi", "cloud", "fleetapi"}
SubModes == {"Off", "Full", "Hybrid", "V1r"}

maxConnectRetries == 3

VARIABLES
  config,        \* what New decided; never changes
  p,             \* the fields of Powerwall a snapshot holds
  prev,          \* the snapshot Connect took
  kind,          \* [Backends -> Kinds], or "closed"
  pc,            \* where the goroutine that holds the lock for writing is
  retry,         \* Connect's argument
  attempt,       \* Connect's counter
  rounds,        \* history: rounds of three attempts already spent
  connectError,  \* the mode whose failure was noted first, or ""
  inUse          \* [Callers -> backend used under the read lock, or nil]

vars == <<config, p, prev, kind, pc, retry, attempt, rounds, connectError, inUse>>

Configs == [mode : {"Local", "FleetAPI", "Cloud", "Unknown"},
            local : {"Local", "TEDAPI", "V1r"}, hybrid : BOOLEAN, failover : BOOLEAN]

Fields == [client : Backends \cup {NoBackend},
           slot : [Slots -> Backends \cup {NoBackend}],
           mode : Modes, tedapiMode : SubModes]

Disconnected == [client |-> NoBackend, slot |-> [s \in Slots |-> NoBackend],
                 mode |-> config.mode, tedapiMode |-> "Off"]
-----------------------------------------------------------------------------
(***************************************************************************)
(* New chooses the mode from the configuration, which also settles what    *)
(* connectLocal will try: v1r with an RSA key, else pure TEDAPI without a  *)
(* customer password, else the LAN API, with a TEDAPI client on top if the *)
(* gateway password is known and the host is the gateway's own address.    *)
(***************************************************************************)
Init ==
  /\ config \in Configs
  /\ config.hybrid => config.local = "Local"
  /\ p = Disconnected
  /\ prev = Disconnected
  /\ kind = [b \in Backends |-> "closed"]
  /\ pc = "free"
  /\ retry = FALSE
  /\ attempt = 0
  /\ rounds = 0
  /\ connectError = ""
  /\ inUse = [c \in Callers |-> NoBackend]

NoReaders == \A c \in Callers : inUse[c] = NoBackend

\* Mutant: Post and the others do not hold the read lock while they run.
Lockable(w) == pc = "free"

\* The lock can be taken for writing (w) or for reading.
LockFree(w) == pc = "free" /\ (w => NoReaders)

\* Neither open nor in a slot: a backend object that can stand for a new one.
Unused(b) == kind[b] = "closed" /\ b # p.client /\ \A s \in Slots : b # p.slot[s]

\* Connect, up to its first attempt.  Backends bounds how many can be open.
ConnectBegin ==
  /\ LockFree(TRUE)
  /\ \E b \in Backends : Unused(b)
  /\ prev' = p
  /\ retry' \in BOOLEAN
  /\ attempt' = 0 /\ rounds' = 0
  /\ IF config.mode = "Unknown"
     THEN connectError' = "Unknown" /\ UNCHANGED <<p, pc>>
     ELSE /\ connectError' = ""
          /\ p' = [p EXCEPT !.mode = config.mode]
          /\ pc' = "trying"
  /\ UNCHANGED <<config, kind, inUse>>
-----------------------------------------------------------------------------
(***************************************************************************)
(* The attempts.  Each gives the facade's fields and the backends after a  *)
(* success with a new backend b.                                           *)
(***************************************************************************)
Installed(b, s) == [p EXCEPT !.client = b, !.slot[s] = b]

\* connectV1r and connectPureTEDAPI set the mode themselves.
TEDAPIInstalled(b, k) ==
  [Installed(b, "tedapi") EXCEPT !.mode = k,
                                 !.tedapiMode = IF k = "V1r" THEN "V1r" ELSE "Full"]

\* The LAN API: a TEDAPI client on top is noted, its absence is not.
LocalInstalled(b, k) ==
  [Installed(b, "local") EXCEPT !.tedapiMode = IF k = "Hybrid" THEN "Hybrid" ELSE @]

\* Mutant: the TEDAPI client is closed but its slot is kept.
RemoteInstalledKeepsSlot(b, s) ==
  [Installed(b, s) EXCEPT !.tedapiMode = "Off"]

\* Mutant: the sub-mode is left as it was.
RemoteInstalledKeepsSubMode(b, s) ==
  [Installed(b, s) EXCEPT !.slot["tedapi"] = NoBackend]

\* connectFleetAPI and connectCloud drop a TEDAPI client.
RemoteInstalled(b, s) ==
  [Installed(b, s) EXCEPT !.slot["tedapi"] = NoBackend, !.tedapiMode = "Off"]

Opened(b, k) == [kind EXCEPT ![b] = k]

OpenedAlone(b, k) ==
  [c \in Backends |-> IF c = b THEN k
                      ELSE IF c = p.slot["tedapi"] THEN "closed" ELSE kind[c]]

Connected ==
  /\ pc' = "free"
  /\ connectError' = ""
  /\ UNCHANGED <<config, prev, retry, attempt, rounds, inUse>>

IsLocalMode(m) == m \in {"Local", "TEDAPI", "V1r"}

TryLocalOk ==
  \E b \in Backends :
    /\ pc = "trying" /\ IsLocalMode(p.mode) /\ Unused(b)
    /\ \/ /\ config.local # "Local"
          /\ p' = TEDAPIInstalled(b, config.local)
          /\ kind' = Opened(b, config.local)
       \/ /\ config.local = "Local"
          /\ \E k \in IF config.hybrid THEN {"Local", "Hybrid"} ELSE {"Local"} :
               p' = LocalInstalled(b, k) /\ kind' = Opened(b, k)
    /\ Connected

TryRemoteOk ==
  \E b \in Backends :
    /\ pc = "trying" /\ p.mode \in {"FleetAPI", "Cloud"} /\ Unused(b)
    /\ p' = RemoteInstalled(b, IF p.mode = "Cloud" THEN "cloud" ELSE "fleetapi")
    /\ kind' = OpenedAlone(b, p.mode)
    /\ Connected
-----------------------------------------------------------------------------
(***************************************************************************)
(* A failed attempt, and what connectStrict and connectWithFailover do     *)
(* about it.  A backend that was tried has been closed again.  connectLocal*)
(* resets the TEDAPI sub-mode, but only after it tried the LAN API, and    *)
(* the pure TEDAPI connection cannot fail: it does not touch the network.  *)
(***************************************************************************)
nextFailoverMode(m) ==
  IF IsLocalMode(m) THEN "FleetAPI"
  ELSE IF m = "FleetAPI" THEN "Cloud"
  ELSE IF m = "Cloud" THEN "Local" ELSE "Unknown"

\* Mutant: a later failure hides the first one.
NoteLastError(m) == connectError' = m

NoteError(m) == connectError' = IF connectError = "" THEN m ELSE connectError

AfterFailure ==
  IF IsLocalMode(p.mode) /\ config.local = "Local" THEN [p EXCEPT !.tedapiMode = "Off"] ELSE p

\* Mutant: the client is put back without its mode and its TEDAPI slot.
RestoreClientOnly(q) ==
  IF prev.client # NoBackend
  THEN [q EXCEPT !.client = prev.client, !.slot["tedapi"] = NoBackend]
  ELSE [q EXCEPT !.mode = config.mode, !.tedapiMode = "Off"]

\* restoreFailedConnectState, restoreConfiguredState.
Restored(q) ==
  IF prev.client # NoBackend THEN prev
  ELSE [q EXCEPT !.mode = config.mode, !.tedapiMode = "Off"]

AttemptFails ==
  /\ pc = "trying"
  /\ IsLocalMode(p.mode) => config.local # "TEDAPI"
  /\ NoteError(IF IsLocalMode(p.mode) THEN "Local" ELSE p.mode)

StrictFails ==
  /\ AttemptFails /\ ~config.failover
  /\ IF retry
     THEN pc' = "waiting" /\ p' = AfterFailure
     ELSE pc' = "free" /\ p' = Restored(AfterFailure)
  /\ UNCHANGED <<config, prev, kind, retry, attempt, rounds, inUse>>

\* Mutants: the loop runs once more, and does not count.
LastAttemptLate(n) == n > maxConnectRetries
NotCounted(n) == n

LastAttempt(n) == n = maxConnectRetries
Counted(n) == n + 1

FailoverFails ==
  LET q == [AfterFailure EXCEPT !.mode = nextFailoverMode(p.mode)]
      n == Counted(attempt)
  IN
  /\ AttemptFails /\ config.failover
  /\ attempt' = n
  /\ \/ ~LastAttempt(n) /\ p' = q /\ UNCHANGED pc
     \/ LastAttempt(n) /\ retry /\ p' = q /\ pc' = "waiting"
     \/ LastAttempt(n) /\ ~retry /\ p' = Restored(q) /\ pc' = "free"
  /\ UNCHANGED <<config, prev, kind, retry, rounds, inUse>>

\* The wait between two rounds: it is over, or the context is cancelled.
WaitOver ==
  /\ pc = "waiting" /\ rounds < MaxRounds
  /\ pc' = "trying"
  /\ rounds' = rounds + 1
  /\ attempt' = 0
  /\ p' = [p EXCEPT !.mode = config.mode]
  /\ UNCHANGED <<config, prev, kind, retry, connectError, inUse>>

Cancelled ==
  /\ pc = "waiting"
  /\ pc' = "free"
  /\ p' = Restored(p)
  /\ UNCHANGED <<config, prev, kind, retry, attempt, rounds, connectError, inUse>>
-----------------------------------------------------------------------------
Held == {p.client} \cup {p.slot[s] : s \in Slots}

\* Powerwall.Close closes the client and every slot; the modes stay.
Close ==
  /\ LockFree(TRUE)
  /\ kind' = [b \in Backends |-> IF b \in Held THEN "closed" ELSE kind[b]]
  /\ p' = [p EXCEPT !.client = NoBackend, !.slot = [s \in Slots |-> NoBackend]]
  /\ UNCHANGED <<config, prev, pc, retry, attempt, rounds, connectError, inUse>>

(***************************************************************************)
(* Post and the grid, battery and raw calls use the client or a slot and   *)
(* keep the read lock until the backend has answered.                      *)
(***************************************************************************)
UseBegin(c) ==
  /\ LockFree(FALSE) /\ inUse[c] = NoBackend
  /\ \E b \in Held \ {NoBackend} : inUse' = [inUse EXCEPT ![c] = b]
  /\ UNCHANGED <<config, p, prev, kind, pc, retry, attempt, rounds, connectError>>

UseEnd(c) ==
  /\ inUse[c] # NoBackend
  /\ inUse' = [inUse EXCEPT ![c] = NoBackend]
  /\ UNCHANGED <<config, p, prev, kind, pc, retry, attempt, rounds, connectError>>
-----------------------------------------------------------------------------
ConnectStep ==
  TryLocalOk \/ TryRemoteOk \/ StrictFails \/ FailoverFails \/ WaitOver \/ Cancelled

Next ==
  \/ ConnectBegin \/ ConnectStep \/ Close
  \/ \E c \in Callers : UseBegin(c) \/ UseEnd(c)

Spec == Init /\ [][Next]_vars

\* The goroutine inside Connect keeps running: attempts and waits have timeouts.
FairSpec == Spec /\ WF_vars(ConnectStep)
-----------------------------------------------------------------------------
TypeOK ==
  /\ config \in Configs
  /\ p \in Fields /\ prev \in Fields
  /\ kind \in [Backends -> Kinds \cup {"closed"}]
  /\ pc \in {"free", "trying", "waiting"}
  /\ retry \in BOOLEAN
  /\ attempt \in 0..maxConnectRetries /\ rounds \in Nat
  /\ connectError \in Modes \cup {""}
  /\ inUse \in [Callers -> Backends \cup {NoBackend}]

(***************************************************************************)
(* No call runs on a backend that Connect or Close has closed: what a      *)
(* reader of the facade can lay hands on is open, and stays open while the *)
(* reader is at it.                                                        *)
(***************************************************************************)
InUseIsOpen == \A c \in Callers : inUse[c] # NoBackend => kind[inUse[c]] # "closed"

(***************************************************************************)
(* The TEDAPI calls look at the tedapi slot, not at the mode ("only a      *)
(* TEDAPI-based connection supports this", operations.go): with nobody in  *)
(* Connect, the slot is set exactly when that is the active client.        *)
(***************************************************************************)
TEDAPISlotIsActive ==
  pc = "free" /\ p.slot["tedapi"] # NoBackend
  => p.client = p.slot["tedapi"] /\ p.mode \in {"TEDAPI", "V1r"}

(***************************************************************************)
(* The TEDAPI sub-mode is that of the connection a reader finds, whatever  *)
(* failed on the way to it and whatever came before: none over the cloud.  *)
(* Only a plain LAN connection, and no connection, may show what an        *)
(* earlier one has left (connectLocal and Close do not touch it, although  *)
(* powerwall.go:166-169 promises TEDAPIOff).                               *)
(***************************************************************************)
SubModeOf(k) ==
  CASE k = "V1r" -> {"V1r"}
    [] k = "TEDAPI" -> {"Full"}
    [] k = "Hybrid" -> {"Hybrid"}
    [] k \in {"FleetAPI", "Cloud"} -> {"Off"}
    [] OTHER -> SubModes

SubModeFitsConnection ==
  pc = "free" /\ p.client # NoBackend => p.tedapiMode \in SubModeOf(kind[p.client])

(***************************************************************************)
(* ConnectError is the FIRST failure of the most recent Connect, or empty  *)
(* if it succeeded (powerwall.go:157-158): whatever the failover went      *)
(* through, it names the configured mode.                                  *)
(***************************************************************************)
ErrorNamesConfiguredMode ==
  pc = "free" /\ connectError # "" => connectError = config.mode

(***************************************************************************)
(* Connect is one atomic step of ActiveBackend: a reader sees the outcome, *)
(* never the modes tried on the way, and after a failure what it saw       *)
(* before.  While Connect holds the lock the abstract state is that of its *)
(* snapshot.                                                               *)
(***************************************************************************)
Visible == IF pc = "free" THEN p ELSE prev

LiveKind == IF Visible.client = NoBackend THEN "none" ELSE kind[Visible.client]

\* What Connect can end up with: without failover only the configured mode.
LocalKinds == {config.local} \cup (IF config.hybrid THEN {"Hybrid"} ELSE {})

Reach ==
  IF config.mode = "Unknown" THEN {}
  ELSE IF config.failover THEN LocalKinds \cup {"FleetAPI", "Cloud"}
  ELSE IF config.mode = "Local" THEN LocalKinds ELSE {config.mode}

Abstract == INSTANCE ActiveBackend
  WITH configured <- config.mode, reach <- Reach, live <- LiveKind, mode <- Visible.mode

ImplementsActiveBackend == Abstract!Spec

(***************************************************************************)
(* Connect comes to an end if it was not asked to retry.                   *)
(***************************************************************************)
ConnectReturns == pc = "trying" /\ ~retry ~> pc = "free"
-----------------------------------------------------------------------------
(***************************************************************************)
(* The inductive invariant.  With nobody in Connect the fields are settled:*)
(* whatever they hold is open, the mode is the client's and a TEDAPI slot  *)
(* is the client.  Inside Connect that is true of the snapshot, and the    *)
(* backends held are still those of the snapshot.                          *)
(***************************************************************************)
SlotKinds(s) ==
  CASE s = "local"    -> {"Local", "Hybrid"}
    [] s = "tedapi"   -> {"TEDAPI", "V1r"}
    [] s = "cloud"    -> {"Cloud"}
    [] s = "fleetapi" -> {"FleetAPI"}

Settled(q) ==
  /\ q.client # NoBackend =>
       kind[q.client] # "closed" /\ q.mode = Abstract!ModeOf(kind[q.client])
  /\ \A s \in Slots : q.slot[s] # NoBackend => kind[q.slot[s]] \in SlotKinds(s)
  /\ q.slot["tedapi"] # NoBackend =>
       q.client = q.slot["tedapi"] /\ config.local # "Local"

Idling ==
  /\ Settled(p)
  /\ connectError \in {"", config.mode}

Connecting ==
  /\ Settled(prev)
  /\ p.client = prev.client /\ p.slot = prev.slot
  /\ config.mode # "Unknown"
  /\ p.mode \in {"Local", "FleetAPI", "Cloud"}
  /\ ~config.failover => p.mode = config.mode
  /\ connectError \in {"", config.mode}
  /\ connectError = "" => pc = "trying" /\ p.mode = config.mode
  /\ pc = "trying" => attempt < maxConnectRetries
  /\ NoReaders

IInv ==
  /\ pc = "free" => Idling
  /\ pc # "free" => Connecting
  /\ config.hybrid => config.local = "Local"
  /\ InUseIsOpen

\* What SubModeFitsConnection needs beside it: inside Connect it is the snapshot's.
SubModeInv ==
  Visible.client # NoBackend => Visible.tedapiMode \in SubModeOf(kind[Visible.client])
=============================================================================
