---------------------------- MODULE FacadeProofs ----------------------------
(***************************************************************************)
(* Theorems about the facade: Connect, for every number of backends,       *)
(* callers and rounds, and, at the end, SetOperation, for every number of  *)
(* callers, values and switches of the backend.                            *)
(***************************************************************************)
EXTENDS Connect, TLAPS

\* The updates of the facade's fields keep them well typed.
LEMMA FieldsUpdates ==
  ASSUME NEW q \in Fields
  PROVE  /\ q.client \in Backends \cup {NoBackend} /\ q.mode \in Modes
         /\ q.slot \in [Slots -> Backends \cup {NoBackend}] /\ q.tedapiMode \in SubModes
         /\ \A m \in Modes : [q EXCEPT !.mode = m] \in Fields
         /\ \A m \in Modes, t \in SubModes :
              [q EXCEPT !.mode = m, !.tedapiMode = t] \in Fields
         /\ \A t \in SubModes : [q EXCEPT !.tedapiMode = t] \in Fields
         /\ \A b \in Backends \cup {NoBackend}, f \in [Slots -> Backends \cup {NoBackend}] :
              [q EXCEPT !.client = b, !.slot = f] \in Fields
BY DEF Fields

\* What a record update leaves alone.
LEMMA FieldsAfter ==
  ASSUME NEW q \in Fields
  PROVE  /\ \A m : /\ [q EXCEPT !.mode = m].client = q.client
                  /\ [q EXCEPT !.mode = m].slot = q.slot
                  /\ [q EXCEPT !.mode = m].mode = m
         /\ \A t : /\ [q EXCEPT !.tedapiMode = t].client = q.client
                  /\ [q EXCEPT !.tedapiMode = t].slot = q.slot
                  /\ [q EXCEPT !.tedapiMode = t].mode = q.mode
         /\ \A m, t : /\ [q EXCEPT !.mode = m, !.tedapiMode = t].client = q.client
                     /\ [q EXCEPT !.mode = m, !.tedapiMode = t].slot = q.slot
                     /\ [q EXCEPT !.mode = m, !.tedapiMode = t].mode = m
BY DEF Fields

LEMMA DisconnectedFields == ASSUME config \in Configs PROVE Disconnected \in Fields
BY DEF Disconnected, Fields, Configs, Modes, SubModes

LEMMA InitTypes == Init => TypeOK
<1> SUFFICES ASSUME Init PROVE TypeOK
  OBVIOUS
<1>1. config \in Configs /\ Disconnected \in Fields
  BY DisconnectedFields DEF Init
<1>2. p \in Fields /\ prev \in Fields
  BY <1>1 DEF Init
<1>3. /\ kind \in [Backends -> Kinds \cup {"closed"}]
      /\ inUse \in [Callers -> Backends \cup {NoBackend}]
      /\ pc \in {"free", "trying", "waiting"}
      /\ retry \in BOOLEAN
  BY DEF Init
<1>4. attempt = 0 /\ rounds = 0
  BY DEF Init
<1>5. attempt \in 0..maxConnectRetries /\ rounds \in Nat
  BY <1>4 DEF maxConnectRetries
<1>6. connectError \in Modes \cup {""}
  BY DEF Init
<1> QED BY <1>1, <1>2, <1>3, <1>5, <1>6 DEF TypeOK

\* The fields after a successful attempt.
LEMMA InstalledFields ==
  ASSUME p \in Fields, NEW b \in Backends, NEW s \in Slots
  PROVE  LET q == Installed(b, s) IN
         /\ q \in Fields
         /\ q.client = b /\ q.mode = p.mode /\ q.tedapiMode = p.tedapiMode
         /\ q.slot[s] = b
         /\ \A r \in Slots \ {s} : q.slot[r] = p.slot[r]
<1>1. /\ p.slot \in [Slots -> Backends \cup {NoBackend}]
      /\ DOMAIN p.slot = Slots
  BY DEF Fields
<1> DEFINE f == [p.slot EXCEPT ![s] = b]
<1>2. /\ f \in [Slots -> Backends \cup {NoBackend}]
      /\ f[s] = b /\ \A r \in Slots \ {s} : f[r] = p.slot[r]
  BY <1>1
<1>3. Installed(b, s) = [p EXCEPT !.client = b, !.slot = f]
  BY DEF Installed, Fields
<1> HIDE DEF f
<1>4. /\ [p EXCEPT !.client = b, !.slot = f] \in Fields
      /\ LET q == [p EXCEPT !.client = b, !.slot = f] IN
           q.client = b /\ q.mode = p.mode /\ q.tedapiMode = p.tedapiMode /\ q.slot = f
  BY <1>2 DEF Fields
<1> QED BY <1>2, <1>3, <1>4

LEMMA LocalFields ==
  ASSUME p \in Fields, NEW b \in Backends, NEW k \in {"Local", "Hybrid"}
  PROVE  LET q == LocalInstalled(b, k) IN
         /\ q \in Fields
         /\ q.client = b /\ q.mode = p.mode /\ q.slot["local"] = b
         /\ \A r \in Slots \ {"local"} : q.slot[r] = p.slot[r]
<1> DEFINE q == Installed(b, "local")
           t == IF k = "Hybrid" THEN "Hybrid" ELSE q.tedapiMode
<1>1. /\ q \in Fields /\ q.client = b /\ q.mode = p.mode /\ q.slot["local"] = b
      /\ \A r \in Slots \ {"local"} : q.slot[r] = p.slot[r]
  BY InstalledFields DEF Slots
<1>2. LocalInstalled(b, k) = [q EXCEPT !.tedapiMode = t]
  BY Zenon DEF LocalInstalled
<1>3. t \in SubModes
  BY <1>1, FieldsUpdates DEF SubModes
<1> HIDE DEF q, t
<1>4. LocalInstalled(b, k) \in Fields
  BY <1>1, <1>2, <1>3, FieldsUpdates
<1>5. /\ LocalInstalled(b, k).client = q.client /\ LocalInstalled(b, k).slot = q.slot
      /\ LocalInstalled(b, k).mode = q.mode
  BY <1>1, <1>2, <1>3 DEF Fields
<1> QED BY <1>1, <1>4, <1>5

LEMMA TEDAPIFields ==
  ASSUME p \in Fields, NEW b \in Backends, NEW k \in {"TEDAPI", "V1r"}
  PROVE  LET q == TEDAPIInstalled(b, k) IN
         /\ q \in Fields
         /\ q.client = b /\ q.mode = k /\ q.slot["tedapi"] = b
         /\ \A r \in Slots \ {"tedapi"} : q.slot[r] = p.slot[r]
<1> DEFINE q == Installed(b, "tedapi")
           t == IF k = "V1r" THEN "V1r" ELSE "Full"
<1>1. /\ q \in Fields /\ q.client = b /\ q.slot["tedapi"] = b
      /\ \A r \in Slots \ {"tedapi"} : q.slot[r] = p.slot[r]
  BY InstalledFields DEF Slots
<1>2. TEDAPIInstalled(b, k) = [q EXCEPT !.mode = k, !.tedapiMode = t]
  BY DEF TEDAPIInstalled
<1>3. t \in SubModes /\ k \in Modes
  BY DEF SubModes, Modes
<1> HIDE DEF q, t
<1>4. TEDAPIInstalled(b, k) \in Fields
  BY <1>1, <1>2, <1>3 DEF Fields
<1>5. /\ TEDAPIInstalled(b, k).client = q.client /\ TEDAPIInstalled(b, k).slot = q.slot
      /\ TEDAPIInstalled(b, k).mode = k
  BY <1>1, <1>2, <1>3 DEF Fields
<1> QED BY <1>1, <1>4, <1>5

LEMMA RemoteFields ==
  ASSUME p \in Fields, NEW b \in Backends, NEW s \in {"cloud", "fleetapi"}
  PROVE  LET q == RemoteInstalled(b, s) IN
         /\ q \in Fields
         /\ q.client = b /\ q.mode = p.mode /\ q.slot[s] = b
         /\ q.slot["tedapi"] = NoBackend
         /\ \A r \in Slots \ {s, "tedapi"} : q.slot[r] = p.slot[r]
<1> DEFINE q == Installed(b, s)
           f == [q.slot EXCEPT !["tedapi"] = NoBackend]
<1>1. /\ q \in Fields /\ q.client = b /\ q.mode = p.mode /\ q.slot[s] = b
      /\ \A r \in Slots \ {s} : q.slot[r] = p.slot[r]
  BY InstalledFields DEF Slots
<1>2. q.slot \in [Slots -> Backends \cup {NoBackend}]
  BY <1>1, FieldsUpdates
<1>3. /\ f \in [Slots -> Backends \cup {NoBackend}]
      /\ f["tedapi"] = NoBackend /\ \A r \in Slots \ {"tedapi"} : f[r] = q.slot[r]
  BY <1>2 DEF Slots
<1>4. RemoteInstalled(b, s) = [q EXCEPT !.slot = f, !.tedapiMode = "Off"]
  BY <1>1 DEF RemoteInstalled, Fields
<1> HIDE DEF q, f
<1>5. LET r == [q EXCEPT !.slot = f, !.tedapiMode = "Off"] IN
      r \in Fields /\ r.client = b /\ r.mode = p.mode /\ r.slot = f
  BY <1>1, <1>3 DEF Fields, SubModes
<1> QED BY <1>1, <1>3, <1>4, <1>5 DEF Slots
-----------------------------------------------------------------------------
\* The backends after a success: b is of kind k, the others stay or are closed.
LEMMA OpenedKinds ==
  ASSUME TypeOK, NEW b \in Backends, NEW k \in Kinds
  PROVE  /\ Opened(b, k) \in [Backends -> Kinds \cup {"closed"}]
         /\ Opened(b, k)[b] = k
         /\ \A c \in Backends \ {b} : Opened(b, k)[c] = kind[c]
         /\ OpenedAlone(b, k) \in [Backends -> Kinds \cup {"closed"}]
         /\ OpenedAlone(b, k)[b] = k
         /\ \A c \in Backends \ {b, p.slot["tedapi"]} : OpenedAlone(b, k)[c] = kind[c]
BY DEF TypeOK, Opened, OpenedAlone

\* What a record of failed attempts looks like: modes change, backends do not.
LEMMA AfterFailureFields ==
  ASSUME TypeOK
  PROVE  /\ AfterFailure \in Fields
         /\ AfterFailure.client = p.client /\ AfterFailure.slot = p.slot
         /\ AfterFailure.mode = p.mode
<1>1. p \in Fields
  BY DEF TypeOK
<1>2. CASE AfterFailure = p
  BY <1>1, <1>2
<1>3. CASE AfterFailure = [p EXCEPT !.tedapiMode = "Off"]
  BY <1>1, <1>3 DEF Fields, SubModes
<1> QED BY <1>2, <1>3 DEF AfterFailure

LEMMA RestoredFields ==
  ASSUME TypeOK, NEW q \in Fields
  PROVE  /\ Restored(q) \in Fields
         /\ prev.client # NoBackend => Restored(q) = prev
         /\ prev.client = NoBackend =>
              /\ Restored(q).client = q.client /\ Restored(q).slot = q.slot
              /\ Restored(q).mode = config.mode
<1>1. prev \in Fields /\ config.mode \in Modes
  BY DEF TypeOK, Configs, Modes
<1>2. CASE prev.client # NoBackend
  BY <1>1, <1>2 DEF Restored
<1>3. CASE prev.client = NoBackend
  <2>1. Restored(q) = [q EXCEPT !.mode = config.mode, !.tedapiMode = "Off"]
    BY <1>3 DEF Restored
  <2> QED BY <1>1, <1>3, <2>1 DEF Fields, SubModes
<1> QED BY <1>2, <1>3

\* The mode set at the beginning of a round, and by the failover.
LEMMA ModeFields ==
  ASSUME NEW q \in Fields, NEW m \in Modes
  PROVE  /\ [q EXCEPT !.mode = m] \in Fields
         /\ [q EXCEPT !.mode = m].client = q.client
         /\ [q EXCEPT !.mode = m].slot = q.slot
         /\ [q EXCEPT !.mode = m].mode = m
BY DEF Fields

LEMMA NextMode ==
  ASSUME NEW m \in {"Local", "FleetAPI", "Cloud"}
  PROVE  nextFailoverMode(m) \in {"Local", "FleetAPI", "Cloud"} /\ nextFailoverMode(m) \in Modes
BY DEF nextFailoverMode, IsLocalMode, Modes
-----------------------------------------------------------------------------
\* Any settled record whose backends keep their kinds stays settled.
LEMMA SettledSame ==
  ASSUME TypeOK, NEW q \in Fields, Settled(q), NEW r \in Fields,
         r.client = q.client, r.slot = q.slot,
         r.client # NoBackend => r.mode = q.mode
  PROVE  Settled(r)
BY DEF Settled

\* What the slots hold tells them apart.
LEMMA SlotKindsDiffer ==
  ASSUME NEW r \in Slots, r # "tedapi"
  PROVE  /\ SlotKinds(r) \cap SlotKinds("tedapi") = {}
         /\ "closed" \notin SlotKinds(r) /\ "closed" \notin SlotKinds("tedapi")
BY DEF SlotKinds, Slots

\* A new backend in slot s of the facade.
LEMMA SettledNew ==
  ASSUME TypeOK, Settled(prev), p.client = prev.client, p.slot = prev.slot,
         config' = config,
         NEW b \in Backends, Unused(b), NEW s \in Slots, NEW k \in SlotKinds(s),
         p' \in Fields, p'.client = b, p'.slot[s] = b, p'.mode = Abstract!ModeOf(k),
         \A r \in Slots \ {s, "tedapi"} : p'.slot[r] = p.slot[r],
         \/ s = "tedapi" /\ config.local # "Local"
         \/ s # "tedapi" /\ p'.slot["tedapi"] = NoBackend
         \/ s # "tedapi" /\ p'.slot["tedapi"] = p.slot["tedapi"] /\ config.local = "Local",
         kind'[b] = k,
         \A c \in Backends \ {b, p.slot["tedapi"]} : kind'[c] = kind[c]
  PROVE  Settled(p)'
<1>1. /\ p \in Fields /\ p.slot \in [Slots -> Backends \cup {NoBackend}]
      /\ p'.slot \in [Slots -> Backends \cup {NoBackend}] /\ "tedapi" \in Slots
  BY DEF TypeOK, Fields, Slots
<1>2. k # "closed" /\ (p'.client # NoBackend => kind'[p'.client] # "closed"
                         /\ p'.mode = Abstract!ModeOf(kind'[p'.client]))
  BY SlotKindsDiffer DEF Slots, SlotKinds
<1>3. ASSUME NEW r \in Slots, p'.slot[r] # NoBackend
      PROVE  kind'[p'.slot[r]] \in SlotKinds(r)
  <2>1. CASE r = s
    BY <2>1
  <2>2. CASE r # s /\ r # "tedapi"
    <3>1. p'.slot[r] = p.slot[r] /\ p.slot[r] \in Backends
      BY <1>1, <1>3, <2>2
    <3>2. kind[p.slot[r]] \in SlotKinds(r)
      BY <1>3, <3>1 DEF Settled
    <3>3. p.slot[r] # b
      BY DEF Unused
    <3>4. p.slot[r] # p.slot["tedapi"]
      BY <1>1, <1>3, <2>2, <3>1, <3>2, SlotKindsDiffer DEF Settled
    <3> QED BY <3>1, <3>2, <3>3, <3>4
  <2>3. CASE r # s /\ r = "tedapi"
    BY <1>3, <2>3 DEF Settled
  <2> QED BY <2>1, <2>2, <2>3
<1>4. p'.slot["tedapi"] # NoBackend =>
        p'.client = p'.slot["tedapi"] /\ config.local # "Local"
  BY DEF Settled
<1> QED BY <1>2, <1>3, <1>4 DEF Settled
-----------------------------------------------------------------------------
(***************************************************************************)
(* The steps, one lemma each: what they do to the types and to IInv.       *)
(***************************************************************************)
Good == TypeOK /\ IInv

LEMMA ConnectBeginInv == ASSUME Good, ConnectBegin PROVE Good'
<1>1. /\ pc = "free" /\ NoReaders /\ prev' = p /\ retry' \in BOOLEAN
      /\ attempt' = 0 /\ rounds' = 0 /\ config' = config /\ kind' = kind /\ inUse' = inUse
  BY DEF ConnectBegin, LockFree
<1>2. /\ p \in Fields /\ config \in Configs /\ config.mode \in Modes
      /\ config.mode # "Unknown" => config.mode \in {"Local", "FleetAPI", "Cloud"}
      /\ Settled(p) /\ InUseIsOpen
  BY <1>1 DEF Good, TypeOK, IInv, Idling, Configs, Modes
<1>3. 0 \in 0..maxConnectRetries /\ 0 < maxConnectRetries /\ 0 \in Nat
  BY DEF maxConnectRetries
<1>4. InUseIsOpen'
  BY <1>1, <1>2 DEF InUseIsOpen
<1>5. CASE config.mode = "Unknown"
  <2>1. p' = p /\ pc' = pc /\ connectError' = "Unknown"
    BY <1>5 DEF ConnectBegin
  <2>2. TypeOK'
    BY <1>1, <1>2, <1>3, <2>1 DEF Good, TypeOK, Modes
  <2>3. Settled(p)'
    BY <1>1, <1>2, <2>1 DEF Settled
  <2> QED BY <1>1, <1>4, <1>5, <2>1, <2>2, <2>3 DEF Good, IInv, Idling
<1>6. CASE config.mode # "Unknown"
  <2>1. p' = [p EXCEPT !.mode = config.mode] /\ pc' = "trying" /\ connectError' = ""
    BY <1>6 DEF ConnectBegin
  <2>2. p' \in Fields /\ p'.client = p.client /\ p'.slot = p.slot /\ p'.mode = config.mode
    BY <1>2, <2>1, ModeFields
  <2>3. TypeOK'
    BY <1>1, <1>2, <1>3, <2>1, <2>2 DEF Good, TypeOK, Modes
  <2>4. Settled(prev)'
    BY <1>1, <1>2 DEF Settled
  <2>5. Connecting'
    BY <1>1, <1>2, <1>3, <1>6, <2>1, <2>2, <2>4 DEF Connecting, NoReaders
  <2> QED BY <1>1, <1>4, <2>1, <2>3, <2>5 DEF Good, IInv
<1> QED BY <1>5, <1>6

\* What holds when an attempt begins.
LEMMA TryingFacts ==
  ASSUME Good, pc = "trying"
  PROVE  /\ TypeOK /\ Connecting /\ p \in Fields /\ prev \in Fields
         /\ Settled(prev) /\ p.client = prev.client /\ p.slot = prev.slot
         /\ p.mode \in {"Local", "FleetAPI", "Cloud"}
         /\ \A c \in Callers : inUse[c] = NoBackend
BY DEF Good, IInv, Connecting, TypeOK, NoReaders

\* A success that leaves the facade settled keeps everything else.
LEMMA ConnectedInv ==
  ASSUME Good, pc = "trying", Connected, p' \in Fields,
         kind' \in [Backends -> Kinds \cup {"closed"}], Settled(p)'
  PROVE  Good'
<1>1. /\ pc' = "free" /\ connectError' = "" /\ config' = config /\ prev' = prev
      /\ retry' = retry /\ attempt' = attempt /\ rounds' = rounds /\ inUse' = inUse
  BY DEF Connected
<1>2. TypeOK'
  BY <1>1 DEF Good, TypeOK
<1>3. InUseIsOpen'
  BY <1>1, TryingFacts DEF InUseIsOpen
<1> QED BY <1>1, <1>2, <1>3 DEF Good, IInv, Idling

LEMMA TryLocalOkInv == ASSUME Good, TryLocalOk PROVE Good'
<1>1. PICK b \in Backends :
        /\ pc = "trying" /\ IsLocalMode(p.mode) /\ Unused(b) /\ Connected
        /\ \/ /\ config.local # "Local"
              /\ p' = TEDAPIInstalled(b, config.local)
              /\ kind' = Opened(b, config.local)
           \/ /\ config.local = "Local"
              /\ \E k \in IF config.hybrid THEN {"Local", "Hybrid"} ELSE {"Local"} :
                   p' = LocalInstalled(b, k) /\ kind' = Opened(b, k)
  BY DEF TryLocalOk
<1>2. p.mode = "Local" /\ config' = config
  BY <1>1, TryingFacts DEF IsLocalMode, Connected
<1>3. CASE /\ config.local # "Local"
           /\ p' = TEDAPIInstalled(b, config.local)
           /\ kind' = Opened(b, config.local)
  <2>1. config.local \in {"TEDAPI", "V1r"} /\ config.local \in Kinds
    BY <1>3 DEF Good, TypeOK, Configs, Kinds
  <2>2. /\ config.local \in SlotKinds("tedapi")
        /\ config.local = Abstract!ModeOf(config.local) /\ "tedapi" \in Slots
    BY <2>1 DEF SlotKinds, Abstract!ModeOf, Slots
  <2>3. /\ p' \in Fields /\ p'.client = b /\ p'.mode = config.local
        /\ p'.slot["tedapi"] = b /\ \A r \in Slots \ {"tedapi"} : p'.slot[r] = p.slot[r]
    BY <1>1, <1>3, <2>1, TEDAPIFields, TryingFacts
  <2>4. /\ kind' \in [Backends -> Kinds \cup {"closed"}] /\ kind'[b] = config.local
        /\ \A c \in Backends \ {b} : kind'[c] = kind[c]
    BY <1>1, <1>3, <2>1, OpenedKinds, TryingFacts
  <2>5. Settled(p)'
    BY <1>1, <1>2, <1>3, <2>2, <2>3, <2>4, SettledNew, TryingFacts
  <2> QED BY <1>1, <2>3, <2>4, <2>5, ConnectedInv
<1>4. ASSUME config.local = "Local", NEW k \in {"Local", "Hybrid"},
             p' = LocalInstalled(b, k), kind' = Opened(b, k)
      PROVE  Good'
  <2>1. k \in SlotKinds("local") /\ "Local" = Abstract!ModeOf(k) /\ k \in Kinds
        /\ "local" \in Slots /\ "tedapi" \in Slots
    BY DEF SlotKinds, Abstract!ModeOf, Slots, Kinds
  <2>2. /\ p' \in Fields /\ p'.client = b /\ p'.mode = "Local"
        /\ p'.slot["local"] = b /\ \A r \in Slots \ {"local"} : p'.slot[r] = p.slot[r]
    BY <1>1, <1>2, <1>4, LocalFields, TryingFacts
  <2>3. /\ kind' \in [Backends -> Kinds \cup {"closed"}] /\ kind'[b] = k
        /\ \A c \in Backends \ {b} : kind'[c] = kind[c]
    BY <1>1, <1>4, <2>1, OpenedKinds, TryingFacts
  <2>4. p'.slot["tedapi"] = p.slot["tedapi"]
    BY <2>1, <2>2
  <2>5. Settled(p)'
    BY <1>1, <1>2, <1>4, <2>1, <2>2, <2>3, <2>4, SettledNew, TryingFacts
  <2> QED BY <1>1, <2>2, <2>3, <2>5, ConnectedInv
<1> QED BY <1>1, <1>3, <1>4

LEMMA TryRemoteOkInv == ASSUME Good, TryRemoteOk PROVE Good'
<1>1. PICK b \in Backends :
        /\ pc = "trying" /\ p.mode \in {"FleetAPI", "Cloud"} /\ Unused(b)
        /\ p' = RemoteInstalled(b, IF p.mode = "Cloud" THEN "cloud" ELSE "fleetapi")
        /\ kind' = OpenedAlone(b, p.mode)
        /\ Connected
  BY DEF TryRemoteOk
<1> DEFINE s == IF p.mode = "Cloud" THEN "cloud" ELSE "fleetapi"
<1>2. /\ s \in {"cloud", "fleetapi"} /\ s \in Slots /\ s # "tedapi" /\ "tedapi" \in Slots
      /\ p.mode \in SlotKinds(s) /\ p.mode = Abstract!ModeOf(p.mode) /\ p.mode \in Kinds
  BY <1>1 DEF SlotKinds, Abstract!ModeOf, Slots, Kinds
<1>3. p' = RemoteInstalled(b, s)
  BY <1>1
<1> HIDE DEF s
<1>4. /\ p' \in Fields /\ p'.client = b /\ p'.mode = p.mode /\ p'.slot[s] = b
      /\ p'.slot["tedapi"] = NoBackend
      /\ \A r \in Slots \ {s, "tedapi"} : p'.slot[r] = p.slot[r]
  BY <1>1, <1>2, <1>3, RemoteFields, TryingFacts
<1>5. /\ kind' \in [Backends -> Kinds \cup {"closed"}] /\ kind'[b] = p.mode
      /\ \A c \in Backends \ {b, p.slot["tedapi"]} : kind'[c] = kind[c]
  BY <1>1, <1>2, OpenedKinds, TryingFacts
<1>6. config' = config
  BY <1>1 DEF Connected
<1>7. Settled(p)'
  BY <1>1, <1>2, <1>4, <1>5, <1>6, SettledNew, TryingFacts
<1> QED BY <1>1, <1>4, <1>5, <1>7, ConnectedInv

\* What a failed attempt notes: the first one names the configured mode.
LEMMA NotedError ==
  ASSUME Good, AttemptFails
  PROVE  connectError' = config.mode /\ config.mode \in {"Local", "FleetAPI", "Cloud"}
<1>1. pc = "trying"
  BY DEF AttemptFails
<1>2. /\ connectError \in {"", config.mode} /\ config.mode # "Unknown"
      /\ connectError = "" => p.mode = config.mode
      /\ config.mode \in {"Local", "FleetAPI", "Cloud", "Unknown"}
  BY <1>1, TryingFacts DEF Connecting, TypeOK, Configs
<1> QED BY <1>2 DEF AttemptFails, NoteError, IsLocalMode

\* Connect gives up: the snapshot, or the configured mode, is restored.
LEMMA GivesUp ==
  ASSUME Good, pc # "free", NEW q \in Fields, q.client = p.client, q.slot = p.slot,
         p' = Restored(q), pc' = "free", connectError' = config.mode,
         attempt' \in 0..maxConnectRetries,
         UNCHANGED <<config, prev, kind, retry, rounds, inUse>>
  PROVE  Good'
<1>1. /\ TypeOK /\ Settled(prev) /\ p.client = prev.client /\ p.slot = prev.slot
      /\ InUseIsOpen /\ config.mode \in Modes \cup {""} /\ prev \in Fields
  BY DEF Good, IInv, Connecting, TypeOK, Configs, Modes
<1>2. /\ p' \in Fields /\ p'.client = prev.client /\ p'.slot = prev.slot
      /\ p'.client # NoBackend => p'.mode = prev.mode
  BY <1>1, RestoredFields
<1>3. Settled(p')
  BY <1>1, <1>2, SettledSame
<1>4. Settled(p)'
  BY <1>3 DEF Settled
<1>5. TypeOK'
  BY <1>1, <1>2 DEF TypeOK
<1>6. InUseIsOpen'
  BY <1>1 DEF InUseIsOpen
<1> QED BY <1>4, <1>5, <1>6 DEF Good, IInv, Idling

\* Connect goes on: what matters of the facade's fields is their mode.
LEMMA GoesOn ==
  ASSUME Good, pc # "free", pc' \in {"trying", "waiting"}, p' \in Fields,
         p'.client = p.client, p'.slot = p.slot,
         p'.mode \in {"Local", "FleetAPI", "Cloud"},
         ~config.failover => p'.mode = config.mode,
         connectError' \in {"", config.mode},
         connectError' = "" => pc' = "trying" /\ p'.mode = config.mode,
         attempt' \in 0..maxConnectRetries, rounds' \in Nat,
         pc' = "trying" => attempt' < maxConnectRetries,
         UNCHANGED <<config, prev, kind, retry, inUse>>
  PROVE  Good'
<1>1. /\ TypeOK /\ Settled(prev) /\ p.client = prev.client /\ p.slot = prev.slot
      /\ InUseIsOpen /\ config.mode \in Modes \cup {""} /\ config.mode # "Unknown" /\ NoReaders
  BY DEF Good, IInv, Connecting, TypeOK, Configs, Modes
<1>2. TypeOK'
  BY <1>1 DEF TypeOK
<1>3. InUseIsOpen' /\ Settled(prev)' /\ NoReaders'
  BY <1>1 DEF InUseIsOpen, Settled, NoReaders
<1>4. Connecting'
  BY <1>1, <1>3 DEF Connecting
<1> QED BY <1>2, <1>3, <1>4 DEF Good, IInv

LEMMA StrictFailsInv == ASSUME Good, StrictFails PROVE Good'
<1>1. /\ pc = "trying" /\ AttemptFails /\ ~config.failover
      /\ UNCHANGED <<config, prev, kind, retry, attempt, rounds, inUse>>
  BY DEF StrictFails, AttemptFails
<1>2. /\ TypeOK /\ AfterFailure \in Fields /\ AfterFailure.client = p.client
      /\ AfterFailure.slot = p.slot /\ AfterFailure.mode = p.mode
  BY <1>1, AfterFailureFields, TryingFacts
<1>3. attempt' \in 0..maxConnectRetries /\ rounds' \in Nat
  BY <1>1, <1>2 DEF TypeOK
<1>4. CASE retry
  <2>1. pc' = "waiting" /\ p' = AfterFailure
    BY <1>4 DEF StrictFails
  <2>2. p.mode = config.mode
    BY <1>1, TryingFacts DEF Connecting
  <2> QED BY <1>1, <1>2, <1>3, <2>1, <2>2, GoesOn, NotedError
<1>5. CASE ~retry
  <2>1. pc' = "free" /\ p' = Restored(AfterFailure)
    BY <1>5 DEF StrictFails
  <2> QED BY <1>1, <1>2, <1>3, <2>1, GivesUp, NotedError
<1> QED BY <1>4, <1>5

LEMMA FailoverFailsInv == ASSUME Good, FailoverFails PROVE Good'
<1> DEFINE q == [AfterFailure EXCEPT !.mode = nextFailoverMode(p.mode)]
           n == Counted(attempt)
<1>1. /\ pc = "trying" /\ AttemptFails /\ config.failover /\ attempt' = n
      /\ UNCHANGED <<config, prev, kind, retry, rounds, inUse>>
  BY DEF FailoverFails, AttemptFails
<1>2. /\ TypeOK /\ AfterFailure \in Fields /\ AfterFailure.client = p.client
      /\ AfterFailure.slot = p.slot
      /\ nextFailoverMode(p.mode) \in {"Local", "FleetAPI", "Cloud"}
      /\ nextFailoverMode(p.mode) \in Modes
  BY <1>1, AfterFailureFields, TryingFacts, NextMode
<1>3. /\ q \in Fields /\ q.client = p.client /\ q.slot = p.slot
      /\ q.mode \in {"Local", "FleetAPI", "Cloud"}
  BY <1>2, ModeFields
<1>4. /\ attempt' \in 0..maxConnectRetries /\ rounds' \in Nat
      /\ ~LastAttempt(n) => attempt' < maxConnectRetries
  <2>1. attempt \in 0..maxConnectRetries /\ attempt < maxConnectRetries /\ rounds' \in Nat
    BY <1>1, TryingFacts DEF Connecting, TypeOK
  <2> QED BY <1>1, <2>1 DEF Counted, LastAttempt, maxConnectRetries
<1>5. \/ ~LastAttempt(n) /\ p' = q /\ pc' = pc
      \/ p' = q /\ pc' = "waiting"
      \/ p' = Restored(q) /\ pc' = "free"
  BY DEF FailoverFails
<1> HIDE DEF q, n
<1>6. connectError' = config.mode /\ config.mode # ""
  BY <1>1, NotedError
<1>7. CASE ~LastAttempt(n) /\ p' = q /\ pc' = pc
  BY <1>1, <1>3, <1>4, <1>6, <1>7, GoesOn
<1>8. CASE p' = q /\ pc' = "waiting"
  BY <1>1, <1>3, <1>4, <1>6, <1>8, GoesOn
<1>9. CASE p' = Restored(q) /\ pc' = "free"
  BY <1>1, <1>3, <1>4, <1>6, <1>9, GivesUp
<1> QED BY <1>5, <1>7, <1>8, <1>9

\* While Connect waits something has been noted.
LEMMA WaitingFacts ==
  ASSUME Good, pc = "waiting"
  PROVE  /\ TypeOK /\ p \in Fields /\ connectError = config.mode
         /\ config.mode \in {"Local", "FleetAPI", "Cloud"} /\ config.mode \in Modes
         /\ attempt \in 0..maxConnectRetries /\ rounds \in Nat
BY DEF Good, IInv, Connecting, TypeOK, Configs, Modes

LEMMA WaitOverInv == ASSUME Good, WaitOver PROVE Good'
<1>1. /\ pc = "waiting" /\ pc' = "trying" /\ rounds' = rounds + 1 /\ attempt' = 0
      /\ p' = [p EXCEPT !.mode = config.mode] /\ connectError' = connectError
      /\ UNCHANGED <<config, prev, kind, retry, inUse>>
  BY DEF WaitOver
<1>2. /\ p' \in Fields /\ p'.client = p.client /\ p'.slot = p.slot
      /\ p'.mode = config.mode
  BY <1>1, WaitingFacts, ModeFields
<1>3. rounds' \in Nat /\ attempt' \in 0..maxConnectRetries /\ attempt' < maxConnectRetries
  BY <1>1, WaitingFacts DEF maxConnectRetries
<1> QED BY <1>1, <1>2, <1>3, WaitingFacts, GoesOn

LEMMA CancelledInv == ASSUME Good, Cancelled PROVE Good'
<1>1. /\ pc = "waiting" /\ pc' = "free" /\ p' = Restored(p)
      /\ connectError' = connectError /\ attempt' = attempt
      /\ UNCHANGED <<config, prev, kind, retry, rounds, inUse>>
  BY DEF Cancelled
<1> QED BY <1>1, WaitingFacts, GivesUp

LEMMA CloseInv == ASSUME Good, Close PROVE Good'
<1>1. /\ pc = "free" /\ NoReaders /\ pc' = pc
      /\ kind' = [b \in Backends |-> IF b \in Held THEN "closed" ELSE kind[b]]
      /\ p' = [p EXCEPT !.client = NoBackend, !.slot = [s \in Slots |-> NoBackend]]
      /\ UNCHANGED <<config, prev, retry, attempt, rounds, connectError, inUse>>
  BY DEF Close, LockFree
<1> DEFINE none == [s \in Slots |-> NoBackend]
<1>2. none \in [Slots -> Backends \cup {NoBackend}] /\ \A s \in Slots : none[s] = NoBackend
  OBVIOUS
<1>3. p' = [p EXCEPT !.client = NoBackend, !.slot = none]
  BY <1>1
<1> HIDE DEF none
<1>4. /\ p' \in Fields /\ p'.client = NoBackend
      /\ p'.slot = none
  <2>1. p \in Fields
    BY DEF Good, TypeOK
  <2> QED BY <1>2, <1>3, <2>1 DEF Fields
<1>5. kind' \in [Backends -> Kinds \cup {"closed"}]
  BY <1>1 DEF Good, TypeOK
<1>6. TypeOK'
  BY <1>1, <1>4, <1>5 DEF Good, TypeOK
<1>7. Settled(p)'
  BY <1>2, <1>4 DEF Settled, Slots
<1>8. InUseIsOpen'
  BY <1>1 DEF NoReaders, InUseIsOpen
<1> QED BY <1>1, <1>6, <1>7, <1>8 DEF Good, IInv, Idling

LEMMA UseBeginInv == ASSUME Good, NEW c \in Callers, UseBegin(c) PROVE Good'
<1>1. PICK b \in Held \ {NoBackend} : inUse' = [inUse EXCEPT ![c] = b]
  BY DEF UseBegin
<1>2. /\ pc = "free" /\ pc' = "free"
      /\ UNCHANGED <<config, p, prev, kind, pc, retry, attempt, rounds, connectError>>
  BY DEF UseBegin, LockFree
<1>3. Settled(p) /\ p \in Fields /\ InUseIsOpen /\ TypeOK
  BY <1>2 DEF Good, IInv, Idling, TypeOK
<1>4. b \in Backends /\ kind[b] # "closed"
  <2>1. CASE b = p.client
    BY <1>3, <2>1 DEF Settled, Fields
  <2>2. ASSUME NEW s \in Slots, b = p.slot[s] PROVE b \in Backends /\ kind[b] # "closed"
    BY <1>3, <2>2 DEF Settled, SlotKinds, Slots, Fields
  <2> QED BY <2>1, <2>2 DEF Held
<1>5. inUse' \in [Callers -> Backends \cup {NoBackend}]
  BY <1>1, <1>3, <1>4 DEF TypeOK
<1>6. TypeOK'
  BY <1>2, <1>3, <1>5 DEF TypeOK
<1>7. InUseIsOpen'
  BY <1>1, <1>2, <1>3, <1>4 DEF InUseIsOpen, TypeOK
<1>8. Settled(p)'
  BY <1>2, <1>3 DEF Settled
<1> QED BY <1>2, <1>6, <1>7, <1>8 DEF Good, IInv, Idling

LEMMA UseEndInv == ASSUME Good, NEW c \in Callers, UseEnd(c) PROVE Good'
<1>1. /\ inUse' = [inUse EXCEPT ![c] = NoBackend]
      /\ UNCHANGED <<config, p, prev, kind, pc, retry, attempt, rounds, connectError>>
  BY DEF UseEnd
<1>2. TypeOK' /\ InUseIsOpen'
  BY <1>1 DEF Good, IInv, TypeOK, InUseIsOpen
<1>3. (Settled(p) => Settled(p)') /\ (Settled(prev) => Settled(prev)')
  BY <1>1 DEF Settled
<1>4. NoReaders => NoReaders'
  BY <1>1 DEF NoReaders, Good, TypeOK
<1> QED BY <1>1, <1>2, <1>3, <1>4 DEF Good, IInv, Idling, Connecting

LEMMA StutterInv == ASSUME Good, UNCHANGED vars PROVE Good'
<1>1. /\ UNCHANGED <<config, p, prev, kind, pc>>
      /\ UNCHANGED <<retry, attempt, rounds, connectError, inUse>>
  BY DEF vars
<1>2. TypeOK' /\ InUseIsOpen'
  BY <1>1 DEF Good, IInv, TypeOK, InUseIsOpen
<1>3. (Settled(p) => Settled(p)') /\ (Settled(prev) => Settled(prev)')
  BY <1>1 DEF Settled
<1>4. NoReaders => NoReaders'
  BY <1>1 DEF NoReaders
<1> QED BY <1>1, <1>2, <1>3, <1>4 DEF Good, IInv, Idling, Connecting
-----------------------------------------------------------------------------
LEMMA InitGood == Init => Good
<1> SUFFICES ASSUME Init PROVE Good
  OBVIOUS
<1>1. /\ TypeOK /\ pc = "free" /\ p = Disconnected /\ connectError = ""
      /\ inUse = [c \in Callers |-> NoBackend]
      /\ config.hybrid => config.local = "Local"
  BY InitTypes DEF Init
<1>2. /\ p.client = NoBackend /\ \A s \in Slots : p.slot[s] = NoBackend
      /\ "tedapi" \in Slots
  BY <1>1 DEF Disconnected, Slots
<1>3. Settled(p)
  BY <1>2 DEF Settled
<1>4. InUseIsOpen
  BY <1>1 DEF InUseIsOpen
<1> QED BY <1>1, <1>3, <1>4 DEF Good, IInv, Idling

LEMMA NextGood == Good /\ [Next]_vars => Good'
<1> SUFFICES ASSUME Good, [Next]_vars PROVE Good'
  OBVIOUS
<1>1. CASE ConnectBegin
  BY <1>1, ConnectBeginInv
<1>2. CASE TryLocalOk
  BY <1>2, TryLocalOkInv
<1>3. CASE TryRemoteOk
  BY <1>3, TryRemoteOkInv
<1>4. CASE StrictFails
  BY <1>4, StrictFailsInv
<1>5. CASE FailoverFails
  BY <1>5, FailoverFailsInv
<1>6. CASE WaitOver
  BY <1>6, WaitOverInv
<1>7. CASE Cancelled
  BY <1>7, CancelledInv
<1>8. CASE Close
  BY <1>8, CloseInv
<1>9. ASSUME NEW c \in Callers, UseBegin(c) PROVE Good'
  BY <1>9, UseBeginInv
<1>10. ASSUME NEW c \in Callers, UseEnd(c) PROVE Good'
  BY <1>10, UseEndInv
<1>11. CASE UNCHANGED vars
  BY <1>11, StutterInv
<1> QED BY <1>1, <1>2, <1>3, <1>4, <1>5, <1>6, <1>7, <1>8, <1>9, <1>10, <1>11
        DEF Next, ConnectStep

\* The inductive invariant holds throughout.
THEOREM Inductive == Spec => [](TypeOK /\ IInv)
<1>1. Good => TypeOK /\ IInv
  BY DEF Good
<1> QED BY InitGood, NextGood, <1>1, PTL DEF Spec

\* Every reachable state of the facade is well typed (connect.go).
THEOREM TypeCorrect == Spec => []TypeOK
BY Inductive, PTL

\* No call runs on a backend Connect or Close has closed (connect.go:238, 443).
THEOREM BackendsInUseAreOpen == Spec => []InUseIsOpen
<1>1. TypeOK /\ IInv => InUseIsOpen
  BY DEF IInv
<1> QED BY <1>1, Inductive, PTL

\* The TEDAPI slot is set only while it is the active client (connect.go:235-281).
THEOREM TEDAPISlotsAreActive == Spec => []TEDAPISlotIsActive
<1>1. TypeOK /\ IInv => TEDAPISlotIsActive
  <2> SUFFICES ASSUME TypeOK, IInv, pc = "free", p.slot["tedapi"] # NoBackend
               PROVE  p.client = p.slot["tedapi"] /\ p.mode \in {"TEDAPI", "V1r"}
    BY DEF TEDAPISlotIsActive
  <2>1. Settled(p) /\ "tedapi" \in Slots
    BY DEF IInv, Idling, Slots
  <2>2. p.client = p.slot["tedapi"] /\ kind[p.client] \in SlotKinds("tedapi")
        /\ p.mode = Abstract!ModeOf(kind[p.client])
    BY <2>1 DEF Settled
  <2> QED BY <2>2 DEF SlotKinds, Abstract!ModeOf
<1> QED BY <1>1, Inductive, PTL

\* ConnectError names the configured mode, or nothing (connect.go:65-70).
THEOREM ErrorsNameConfiguredMode == Spec => []ErrorNamesConfiguredMode
<1>1. TypeOK /\ IInv => ErrorNamesConfiguredMode
  BY DEF IInv, Idling, ErrorNamesConfiguredMode
<1> QED BY <1>1, Inductive, PTL
-----------------------------------------------------------------------------
(***************************************************************************)
(* The TEDAPI sub-mode.  What a reader sees, or will see again if Connect  *)
(* fails, fits its client's kind: an attempt that fails may reset the      *)
(* sub-mode, but then either the snapshot is restored or there is no       *)
(* client.                                                                 *)
(***************************************************************************)
\* The sub-mode each successful attempt leaves.
LEMMA InstalledSubModes ==
  ASSUME p \in Fields, NEW b \in Backends
  PROVE  /\ \A k \in {"TEDAPI", "V1r"} :
              TEDAPIInstalled(b, k).tedapiMode = (IF k = "V1r" THEN "V1r" ELSE "Full")
         /\ LocalInstalled(b, "Local").tedapiMode \in SubModes
         /\ LocalInstalled(b, "Hybrid").tedapiMode = "Hybrid"
         /\ \A s \in {"cloud", "fleetapi"} : RemoteInstalled(b, s).tedapiMode = "Off"
<1>1. ASSUME NEW k \in {"TEDAPI", "V1r"}
      PROVE  TEDAPIInstalled(b, k).tedapiMode = (IF k = "V1r" THEN "V1r" ELSE "Full")
  <2> DEFINE q == Installed(b, "tedapi")
             t == IF k = "V1r" THEN "V1r" ELSE "Full"
  <2>1. q \in Fields
    BY InstalledFields DEF Slots
  <2>2. TEDAPIInstalled(b, k) = [q EXCEPT !.mode = k, !.tedapiMode = t]
    BY DEF TEDAPIInstalled
  <2> HIDE DEF q, t
  <2>3. TEDAPIInstalled(b, k).tedapiMode = t
    BY <2>1, <2>2 DEF Fields
  <2> QED BY <2>3 DEF t
<1>2. ASSUME NEW k \in {"Local", "Hybrid"}
      PROVE  /\ k = "Hybrid" => LocalInstalled(b, k).tedapiMode = "Hybrid"
             /\ LocalInstalled(b, k).tedapiMode \in SubModes
  <2> DEFINE q == Installed(b, "local")
             t == IF k = "Hybrid" THEN "Hybrid" ELSE q.tedapiMode
  <2>1. q \in Fields
    BY InstalledFields DEF Slots
  <2>2. LocalInstalled(b, k) = [q EXCEPT !.tedapiMode = t]
    BY Zenon DEF LocalInstalled
  <2>3. t \in SubModes /\ (k = "Hybrid" => t = "Hybrid")
    BY <2>1, FieldsUpdates DEF SubModes
  <2> HIDE DEF q, t
  <2>4. LocalInstalled(b, k).tedapiMode = t
    BY <2>1, <2>2 DEF Fields
  <2> QED BY <2>3, <2>4
<1>3. ASSUME NEW s \in {"cloud", "fleetapi"}
      PROVE  RemoteInstalled(b, s).tedapiMode = "Off"
  <2> DEFINE q == Installed(b, s)
             f == [q.slot EXCEPT !["tedapi"] = NoBackend]
  <2>1. q \in Fields
    BY InstalledFields DEF Slots
  <2>2. RemoteInstalled(b, s) = [q EXCEPT !.slot = f, !.tedapiMode = "Off"]
    BY <2>1 DEF RemoteInstalled, Fields
  <2> HIDE DEF q, f
  <2> QED BY <2>1, <2>2 DEF Fields
<1> QED BY <1>1, <1>2, <1>3

LEMMA ConnectedSubMode ==
  ASSUME Good, TryLocalOk \/ TryRemoteOk
  PROVE  SubModeInv'
<1>1. pc = "trying" /\ p \in Fields /\ pc' = "free"
  <2>1. pc = "trying" /\ pc' = "free"
    BY DEF TryLocalOk, TryRemoteOk, Connected
  <2> QED BY <2>1, TryingFacts
<1>2. TypeOK
  BY DEF Good
<1>3. SUFFICES p'.tedapiMode \in SubModeOf(kind'[p'.client])
  BY <1>1 DEF SubModeInv, Visible, SubModeOf
<1>4. ASSUME NEW b \in Backends, NEW k \in {"TEDAPI", "V1r"},
             p' = TEDAPIInstalled(b, k), kind' = Opened(b, k)
      PROVE  p'.tedapiMode \in SubModeOf(kind'[p'.client])
  <2>1. p'.client = b /\ kind'[b] = k
    BY <1>1, <1>2, <1>4, TEDAPIFields, OpenedKinds DEF Kinds
  <2>2. p'.tedapiMode = (IF k = "V1r" THEN "V1r" ELSE "Full")
    BY <1>1, <1>4, InstalledSubModes
  <2> QED BY <2>1, <2>2 DEF SubModeOf
<1>5. ASSUME NEW b \in Backends, NEW k \in {"Local", "Hybrid"},
             p' = LocalInstalled(b, k), kind' = Opened(b, k)
      PROVE  p'.tedapiMode \in SubModeOf(kind'[p'.client])
  <2>1. p'.client = b /\ kind'[b] = k
    BY <1>1, <1>2, <1>5, LocalFields, OpenedKinds DEF Kinds
  <2>2. /\ k = "Hybrid" => p'.tedapiMode = "Hybrid"
        /\ k = "Local" => p'.tedapiMode \in SubModes
    BY <1>1, <1>5, InstalledSubModes
  <2> QED BY <2>1, <2>2 DEF SubModeOf
<1>6. ASSUME NEW b \in Backends, NEW k \in {"FleetAPI", "Cloud"},
             NEW s \in {"cloud", "fleetapi"},
             p' = RemoteInstalled(b, s), kind' = OpenedAlone(b, k)
      PROVE  p'.tedapiMode \in SubModeOf(kind'[p'.client])
  <2>1. p'.client = b /\ kind'[b] = k
    BY <1>1, <1>2, <1>6, RemoteFields, OpenedKinds DEF Kinds
  <2>2. p'.tedapiMode = "Off"
    BY <1>1, <1>6, InstalledSubModes
  <2> QED BY <2>1, <2>2 DEF SubModeOf
<1>7. CASE TryLocalOk
  <2>1. config.local \in {"Local", "TEDAPI", "V1r"}
    BY <1>2 DEF TypeOK, Configs
  <2> QED BY <1>4, <1>5, <1>7, <2>1 DEF TryLocalOk
<1>8. CASE TryRemoteOk
  BY <1>6, <1>8 DEF TryRemoteOk
<1> QED BY <1>7, <1>8

\* A Connect that gives up shows its snapshot again, or no client.
LEMMA GaveUpSubMode ==
  ASSUME Good, SubModeInv, pc # "free", pc' = "free", NEW q \in Fields,
         q.client = p.client, p' = Restored(q), kind' = kind
  PROVE  SubModeInv'
<1>1. TypeOK /\ p.client = prev.client
  BY DEF Good, IInv, Connecting
<1>2. CASE prev.client # NoBackend
  BY <1>1, <1>2, RestoredFields DEF SubModeInv, Visible, SubModeOf
<1>3. CASE prev.client = NoBackend
  BY <1>1, <1>3, RestoredFields DEF SubModeInv, Visible
<1> QED BY <1>2, <1>3

\* A step inside Connect leaves the snapshot alone.
LEMMA StillInsideSubMode ==
  ASSUME SubModeInv, pc # "free", pc' # "free", prev' = prev, kind' = kind
  PROVE  SubModeInv'
BY DEF SubModeInv, Visible, SubModeOf

LEMMA NextSubMode == Good /\ SubModeInv /\ [Next]_vars => SubModeInv'
<1> SUFFICES ASSUME Good, SubModeInv, [Next]_vars PROVE SubModeInv'
  OBVIOUS
<1>1. CASE ConnectBegin
  <2>1. pc = "free" /\ prev' = p /\ kind' = kind /\ (pc' = "free" => p' = p)
    BY <1>1 DEF ConnectBegin, LockFree
  <2> QED BY <2>1 DEF SubModeInv, Visible, SubModeOf
<1>2. CASE TryLocalOk \/ TryRemoteOk
  BY <1>2, ConnectedSubMode
<1>3. CASE StrictFails
  <2>1. /\ pc = "trying" /\ prev' = prev /\ kind' = kind
        /\ (pc' = "free" /\ p' = Restored(AfterFailure)) \/ pc' = "waiting"
    BY <1>3 DEF StrictFails, AttemptFails
  <2>2. AfterFailure \in Fields /\ AfterFailure.client = p.client
    BY AfterFailureFields DEF Good
  <2> QED BY <2>1, <2>2, GaveUpSubMode, StillInsideSubMode
<1>4. CASE FailoverFails
  <2> DEFINE q == [AfterFailure EXCEPT !.mode = nextFailoverMode(p.mode)]
  <2>1. /\ pc = "trying" /\ prev' = prev /\ kind' = kind
        /\ (pc' = "free" /\ p' = Restored(q)) \/ pc' \in {"trying", "waiting"}
    BY <1>4 DEF FailoverFails, AttemptFails
  <2>2. q \in Fields /\ q.client = p.client
    <3>1. nextFailoverMode(p.mode) \in Modes
      BY <2>1, TryingFacts, NextMode
    <3> QED BY <3>1, AfterFailureFields, ModeFields DEF Good
  <2> HIDE DEF q
  <2> QED BY <2>1, <2>2, GaveUpSubMode, StillInsideSubMode
<1>5. CASE WaitOver
  BY <1>5, StillInsideSubMode DEF WaitOver
<1>6. CASE Cancelled
  BY <1>6, GaveUpSubMode, WaitingFacts DEF Cancelled
<1>7. CASE Close
  <2>1. pc' = "free" /\ p'.client = NoBackend
    <3>1. p \in Fields
      BY DEF Good, TypeOK
    <3> QED BY <1>7, <3>1 DEF Close, LockFree, Fields
  <2> QED BY <2>1 DEF SubModeInv, Visible
<1>8. ASSUME UNCHANGED <<p, prev, kind, pc>> PROVE SubModeInv'
  BY <1>8 DEF SubModeInv, Visible, SubModeOf
<1>9. ASSUME NEW c \in Callers, UseBegin(c) \/ UseEnd(c) PROVE SubModeInv'
  BY <1>8, <1>9 DEF UseBegin, UseEnd
<1>10. CASE UNCHANGED vars
  BY <1>8, <1>10 DEF vars
<1> QED BY <1>1, <1>2, <1>3, <1>4, <1>5, <1>6, <1>7, <1>9, <1>10 DEF Next, ConnectStep

\* The sub-mode a reader finds is that of its connection (connect.go:65-281, 443).
THEOREM SubModesFit == Spec => []SubModeFitsConnection
<1>1. Init => SubModeInv
  <2> SUFFICES ASSUME Init PROVE SubModeInv
    OBVIOUS
  <2>1. Visible.client = NoBackend
    BY DEF Init, Visible, Disconnected
  <2> QED BY <2>1 DEF SubModeInv
<1>2. TypeOK /\ IInv /\ SubModeInv /\ [Next]_vars => SubModeInv'
  BY NextSubMode DEF Good
<1>3. SubModeInv => SubModeFitsConnection
  BY DEF SubModeInv, SubModeFitsConnection, Visible
<1> QED BY <1>1, <1>2, <1>3, Inductive, PTL DEF Spec
-----------------------------------------------------------------------------
(***************************************************************************)
(* The refinement.  Only the step that ends a Connect, and Close, change   *)
(* what a reader sees.                                                     *)
(***************************************************************************)
LEMMA InitRefines == Init => Abstract!Init
<1> SUFFICES ASSUME Init PROVE Abstract!Init
  OBVIOUS
<1>1. /\ config.mode \in {"Local", "FleetAPI", "Cloud", "Unknown"}
      /\ config.local \in {"Local", "TEDAPI", "V1r"} /\ pc = "free" /\ p = Disconnected
  BY DEF Init, Configs
<1>2. LiveKind = "none" /\ Visible.mode = config.mode
  BY <1>1 DEF LiveKind, Visible, Disconnected
<1>3. Reach \in SUBSET Abstract!Kinds
  BY <1>1 DEF Reach, LocalKinds, Abstract!Kinds
<1> QED BY <1>1, <1>2, <1>3 DEF Abstract!Init

LEMMA UnseenRefines ==
  ASSUME config' = config, Visible' = Visible,
         Visible.client # NoBackend => kind'[Visible.client] = kind[Visible.client]
  PROVE  UNCHANGED Abstract!vars
<1>1. LiveKind' = LiveKind
  BY DEF LiveKind
<1>2. Reach' = Reach
  BY DEF Reach, LocalKinds
<1> QED BY <1>1, <1>2 DEF Abstract!vars

\* A success is a ConnectSucceeds with the kind of the new backend.
LEMMA SuccessRefines ==
  ASSUME Good, pc = "trying", Connected, NEW b \in Backends, NEW k \in Reach,
         p'.client = b, p'.mode = Abstract!ModeOf(k), kind'[b] = k,
         b # NoBackend
  PROVE  Abstract!ConnectSucceeds
<1>1. config' = config /\ pc' = "free"
  BY DEF Connected
<1>2. LiveKind' = k /\ Visible.mode' = Abstract!ModeOf(k)
  BY <1>1 DEF LiveKind, Visible
<1>3. Reach' = Reach
  BY <1>1 DEF Reach, LocalKinds
<1> QED BY <1>1, <1>2, <1>3 DEF Abstract!ConnectSucceeds, Abstract!ModeOf

\* The kinds an attempt can produce are those the configuration allows.
LEMMA ReachTried ==
  ASSUME Good, pc = "trying"
  PROVE  /\ p.mode \in {"FleetAPI", "Cloud"} => p.mode \in Reach
         /\ p.mode = "Local" => config.local \in Reach
         /\ p.mode = "Local" /\ config.hybrid => "Hybrid" \in Reach
<1>1. /\ config.mode # "Unknown"
      /\ ~config.failover => p.mode = config.mode
      /\ config.failover \in BOOLEAN /\ config.hybrid \in BOOLEAN
  BY TryingFacts DEF Connecting, TypeOK, Configs
<1>2. config.local \in LocalKinds /\ (config.hybrid => "Hybrid" \in LocalKinds)
  BY <1>1 DEF LocalKinds
<1>3. CASE config.failover
  BY <1>1, <1>2, <1>3 DEF Reach
<1>4. CASE ~config.failover
  BY <1>1, <1>2, <1>4 DEF Reach
<1> QED BY <1>1, <1>3, <1>4

LEMMA TryLocalRefines == ASSUME Good, TryLocalOk PROVE Abstract!ConnectSucceeds
<1>1. PICK b \in Backends :
        /\ pc = "trying" /\ IsLocalMode(p.mode) /\ Unused(b) /\ Connected
        /\ \/ /\ config.local # "Local"
              /\ p' = TEDAPIInstalled(b, config.local)
              /\ kind' = Opened(b, config.local)
           \/ /\ config.local = "Local"
              /\ \E k \in IF config.hybrid THEN {"Local", "Hybrid"} ELSE {"Local"} :
                   p' = LocalInstalled(b, k) /\ kind' = Opened(b, k)
  BY DEF TryLocalOk
<1>2. p.mode = "Local" /\ b # NoBackend
  BY <1>1, TryingFacts, ConnectAssumption DEF IsLocalMode, ConnectAssumption
<1>3. CASE /\ config.local # "Local"
           /\ p' = TEDAPIInstalled(b, config.local)
           /\ kind' = Opened(b, config.local)
  <2>1. config.local \in {"TEDAPI", "V1r"} /\ config.local \in Kinds
    BY <1>3 DEF Good, TypeOK, Configs, Kinds
  <2>2. p'.client = b /\ p'.mode = config.local
    BY <1>1, <1>3, <2>1, TEDAPIFields, TryingFacts
  <2>3. kind'[b] = config.local /\ config.local = Abstract!ModeOf(config.local)
    BY <1>1, <1>3, <2>1, OpenedKinds, TryingFacts DEF Abstract!ModeOf
  <2> QED BY <1>1, <1>2, <2>2, <2>3, ReachTried, SuccessRefines
<1>4. ASSUME config.local = "Local",
             NEW k \in IF config.hybrid THEN {"Local", "Hybrid"} ELSE {"Local"},
             p' = LocalInstalled(b, k), kind' = Opened(b, k)
      PROVE  Abstract!ConnectSucceeds
  <2>1. /\ k \in {"Local", "Hybrid"} /\ k \in Kinds /\ "Local" = Abstract!ModeOf(k)
        /\ k \in Reach
    BY <1>1, <1>2, <1>4, ReachTried DEF Kinds, Abstract!ModeOf
  <2>2. p'.client = b /\ p'.mode = "Local"
    BY <1>1, <1>2, <1>4, <2>1, LocalFields, TryingFacts
  <2>3. kind'[b] = k
    BY <1>1, <1>4, <2>1, OpenedKinds, TryingFacts
  <2> QED BY <1>1, <1>2, <2>1, <2>2, <2>3, SuccessRefines
<1> QED BY <1>1, <1>3, <1>4

LEMMA TryRemoteRefines == ASSUME Good, TryRemoteOk PROVE Abstract!ConnectSucceeds
<1>1. PICK b \in Backends :
        /\ pc = "trying" /\ p.mode \in {"FleetAPI", "Cloud"} /\ Unused(b)
        /\ p' = RemoteInstalled(b, IF p.mode = "Cloud" THEN "cloud" ELSE "fleetapi")
        /\ kind' = OpenedAlone(b, p.mode)
        /\ Connected
  BY DEF TryRemoteOk
<1> DEFINE s == IF p.mode = "Cloud" THEN "cloud" ELSE "fleetapi"
<1>2. s \in {"cloud", "fleetapi"} /\ p' = RemoteInstalled(b, s) /\ b # NoBackend
  BY <1>1, ConnectAssumption DEF ConnectAssumption
<1> HIDE DEF s
<1>3. p.mode \in Kinds /\ p.mode = Abstract!ModeOf(p.mode) /\ p.mode \in Reach
  BY <1>1, ReachTried DEF Kinds, Abstract!ModeOf
<1>4. p'.client = b /\ p'.mode = p.mode
  BY <1>1, <1>2, RemoteFields, TryingFacts
<1>5. kind'[b] = p.mode
  BY <1>1, <1>3, OpenedKinds, TryingFacts
<1> QED BY <1>1, <1>2, <1>3, <1>4, <1>5, SuccessRefines

\* Giving up restores the snapshot, or falls back to the configured mode.
LEMMA GivingUpRefines ==
  ASSUME Good, pc # "free", NEW q \in Fields, q.client = p.client, q.slot = p.slot,
         p' = Restored(q), pc' = "free", kind' = kind, config' = config
  PROVE  Abstract!ConnectFails \/ UNCHANGED Abstract!vars
<1>1. TypeOK /\ p.client = prev.client
  BY DEF Good, IInv, Connecting
<1>2. Visible = prev /\ Visible' = p'
  BY DEF Visible
<1>3. CASE prev.client # NoBackend
  <2>1. p' = prev
    BY <1>1, <1>3, RestoredFields
  <2> QED BY <1>2, <2>1, UnseenRefines
<1>4. CASE prev.client = NoBackend
  <2>1. p'.client = NoBackend /\ p'.mode = config.mode
    BY <1>1, <1>4, RestoredFields
  <2>2. LiveKind = "none" /\ LiveKind' = "none" /\ Visible.mode' = config.mode
    BY <1>2, <1>4, <2>1 DEF LiveKind
  <2>3. Reach' = Reach
    BY DEF Reach, LocalKinds
  <2> QED BY <2>2, <2>3 DEF Abstract!ConnectFails
<1> QED BY <1>3, <1>4

\* Inside Connect nothing is seen.
LEMMA InsideRefines ==
  ASSUME pc # "free", pc' # "free", prev' = prev, kind' = kind, config' = config
  PROVE  UNCHANGED Abstract!vars
<1>1. Visible' = Visible
  BY DEF Visible
<1> QED BY <1>1, UnseenRefines

LEMMA FailureRefines ==
  ASSUME Good, StrictFails \/ FailoverFails \/ WaitOver \/ Cancelled
  PROVE  Abstract!ConnectFails \/ UNCHANGED Abstract!vars
<1>1. CASE StrictFails
  <2>1. /\ pc = "trying" /\ prev' = prev /\ kind' = kind /\ config' = config
        /\ \/ pc' = "waiting"
           \/ pc' = "free" /\ p' = Restored(AfterFailure)
    BY <1>1 DEF StrictFails, AttemptFails
  <2>2. /\ AfterFailure \in Fields /\ AfterFailure.client = p.client
        /\ AfterFailure.slot = p.slot
    BY <2>1, AfterFailureFields, TryingFacts
  <2> QED BY <2>1, <2>2, InsideRefines, GivingUpRefines
<1>2. CASE FailoverFails
  <2> DEFINE q == [AfterFailure EXCEPT !.mode = nextFailoverMode(p.mode)]
  <2>1. /\ pc = "trying" /\ prev' = prev /\ kind' = kind /\ config' = config
        /\ \/ pc' = pc \/ pc' = "waiting"
           \/ pc' = "free" /\ p' = Restored(q)
    BY <1>2 DEF FailoverFails, AttemptFails
  <2>2. /\ AfterFailure \in Fields /\ AfterFailure.client = p.client
        /\ AfterFailure.slot = p.slot /\ nextFailoverMode(p.mode) \in Modes
    BY <2>1, AfterFailureFields, TryingFacts, NextMode
  <2>3. q \in Fields /\ q.client = p.client /\ q.slot = p.slot
    BY <2>2, ModeFields
  <2> HIDE DEF q
  <2> QED BY <2>1, <2>3, InsideRefines, GivingUpRefines
<1>3. CASE WaitOver
  BY <1>3, InsideRefines DEF WaitOver
<1>4. CASE Cancelled
  <2>1. /\ pc = "waiting" /\ pc' = "free" /\ p' = Restored(p) /\ kind' = kind
        /\ config' = config
    BY <1>4 DEF Cancelled
  <2> QED BY <2>1, WaitingFacts, GivingUpRefines
<1> QED BY <1>1, <1>2, <1>3, <1>4

LEMMA CloseRefines == ASSUME Good, Close PROVE Abstract!Close
<1>1. /\ pc = "free" /\ pc' = pc /\ config' = config
      /\ p' = [p EXCEPT !.client = NoBackend, !.slot = [s \in Slots |-> NoBackend]]
  BY DEF Close, LockFree
<1>2. p'.client = NoBackend /\ p'.mode = p.mode
  BY <1>1 DEF Good, TypeOK, Fields
<1>3. LiveKind' = "none" /\ Visible.mode' = Visible.mode
  BY <1>1, <1>2 DEF LiveKind, Visible
<1>4. Reach' = Reach
  BY <1>1 DEF Reach, LocalKinds
<1> QED BY <1>1, <1>3, <1>4 DEF Abstract!Close

LEMMA ConnectBeginRefines == ASSUME ConnectBegin PROVE UNCHANGED Abstract!vars
<1>1. /\ pc = "free" /\ prev' = p /\ kind' = kind /\ config' = config
      /\ p' = p \/ pc' = "trying"
      /\ pc' = pc => p' = p
  BY DEF ConnectBegin, LockFree
<1>2. Visible' = Visible
  BY <1>1 DEF Visible
<1> QED BY <1>1, <1>2, UnseenRefines

LEMMA StepRefines == Good /\ [Next]_vars => [Abstract!Next]_(Abstract!vars)
<1> SUFFICES ASSUME Good, [Next]_vars PROVE Abstract!Next \/ UNCHANGED Abstract!vars
  OBVIOUS
<1>1. CASE ConnectBegin
  BY <1>1, ConnectBeginRefines
<1>2. CASE TryLocalOk
  BY <1>2, TryLocalRefines DEF Abstract!Next
<1>3. CASE TryRemoteOk
  BY <1>3, TryRemoteRefines DEF Abstract!Next
<1>4. CASE StrictFails \/ FailoverFails \/ WaitOver \/ Cancelled
  BY <1>4, FailureRefines DEF Abstract!Next
<1>5. CASE Close
  BY <1>5, CloseRefines DEF Abstract!Next
<1>6. CASE \/ UNCHANGED vars
           \/ \E c \in Callers : UseBegin(c) \/ UseEnd(c)
  <2>1. config' = config /\ p' = p /\ prev' = prev /\ kind' = kind /\ pc' = pc
    BY <1>6 DEF UseBegin, UseEnd, vars
  <2>2. Visible' = Visible
    BY <2>1 DEF Visible
  <2> QED BY <2>1, <2>2, UnseenRefines
<1> QED BY <1>1, <1>2, <1>3, <1>4, <1>5, <1>6 DEF Next, ConnectStep

\* To its readers Connect is one atomic step (connect.go:398-435).
THEOREM Refinement == Spec => ImplementsActiveBackend
<1> QED BY InitRefines, InitGood, NextGood, StepRefines, PTL
        DEF Spec, ImplementsActiveBackend, Abstract!Spec
-----------------------------------------------------------------------------
(***************************************************************************)
(* SetOperation, with the callers of the facade and its own parameters and *)
(* variables.  What it assumes of the parameters is a hypothesis of the    *)
(* theorems, since INSTANCE does not bring it in as a fact.                *)
(***************************************************************************)
CONSTANTS Values, Reset, Default, None, MaxSwitch
VARIABLES conn, site, op, switches

SetOp == INSTANCE SetOperation

\* A call that begins, or that ends, is well typed.
LEMMA NewCall ==
  ASSUME SetOp!TypeOK, NEW ask \in [SetOp!Fields -> Values \cup {None}],
         NEW w \in {"idle", "read", "post", "done", "failed"},
         w = "read" => conn = "local"
  PROVE  /\ SetOp!Call(w, ask) \in SetOp!Op
         /\ SetOp!Call(w, ask).pc = w /\ SetOp!Call(w, ask).via = conn
         /\ SetOp!Call(w, ask).send = ask /\ SetOp!Call(w, ask).ask = ask
         /\ \A s \in SUBSET SetOp!Fields :
              LET e == [SetOp!Call(w, ask) EXCEPT !.accepted = s] IN
              e \in SetOp!Op /\ e.pc = w /\ e.via = conn /\ e.accepted = s
<1>1. ask \in [SetOp!Fields -> SetOp!Known \cup {None}]
  BY DEF SetOp!Known
<1>2. conn \in SetOp!Backends
  BY DEF SetOp!TypeOK
<1> QED BY <1>1, <1>2 DEF SetOp!Call, SetOp!Op

LEMMA NothingAsked == SetOp!Nothing \in [SetOp!Fields -> Values \cup {None}]
BY DEF SetOp!Nothing

\* The fields of one caller's SetOperation.
LEMMA OpFields ==
  ASSUME NEW e \in SetOp!Op
  PROVE  /\ e.ask \in [SetOp!Fields -> Values \cup {None}]
         /\ e.send \in [SetOp!Fields -> SetOp!Known \cup {None}]
         /\ e.err \in BOOLEAN /\ e.via \in SetOp!Backends
         /\ e.accepted \subseteq SetOp!Fields /\ e.moved \subseteq SetOp!Fields
BY DEF SetOp!Op

\* A command that takes the fields of new, for the caller c and for any other d.
LEMMA AppliedTypes ==
  ASSUME SetOp!TypeOK, NEW c \in Callers, NEW w \in {"postMode", "done", "failed"},
         NEW err \in BOOLEAN, NEW new, DOMAIN new \subseteq SetOp!Fields,
         \A f \in DOMAIN new : new[f] \in SetOp!Known,
         SetOp!Applied(c, w, err, new)
  PROVE  /\ SetOp!TypeOK'
         /\ \A f \in SetOp!Fields \ DOMAIN new : site'[f] = site[f]
         /\ \A f \in DOMAIN new : site'[f] = new[f]
         /\ op'[c].pc = w /\ op'[c].accepted = op[c].accepted \cup DOMAIN new
         /\ w = "postMode" =>
              op'[c].err = err /\ op'[c].send = op[c].send /\ op'[c].ask = op[c].ask
              /\ op'[c].via = op[c].via
         /\ \A d \in Callers \ {c} :
              \/ op'[d] = op[d] /\ ~(op[d].pc = "post" /\ op[d].via = "local")
              \/ /\ op[d].pc = "post" /\ op[d].via = "local"
                 /\ op'[d].pc = "post" /\ op'[d].via = "local"
                 /\ op'[d].ask = op[d].ask /\ op'[d].send = op[d].send
                 /\ op'[d].unread = op[d].unread
                 /\ op'[d].moved = op[d].moved \cup {f \in DOMAIN new : new[f] # site[f]}
<1> DEFINE taken == op[c].accepted \cup DOMAIN new
           changed == {f \in DOMAIN new : new[f] # site[f]}
           mine == IF w = "postMode"
                   THEN [op[c] EXCEPT !.pc = w, !.err = err, !.accepted = taken]
                   ELSE [SetOp!Call(w, SetOp!Nothing) EXCEPT !.accepted = taken]
<1>1. op \in [Callers -> SetOp!Op] /\ op[c] \in SetOp!Op
      /\ site \in [SetOp!Fields -> SetOp!Known]
  BY DEF SetOp!TypeOK
<1>2. taken \in SUBSET SetOp!Fields /\ changed \in SUBSET SetOp!Fields
  BY <1>1, OpFields
<1>3. op'[c] = mine
  BY <1>1 DEF SetOp!Applied
<1>4. mine \in SetOp!Op /\ mine.pc = w /\ mine.accepted = taken
      /\ (w = "postMode" => mine.err = err /\ mine.send = op[c].send
                            /\ mine.ask = op[c].ask /\ mine.via = op[c].via)
  <2> HIDE DEF taken
  <2>1. CASE w = "postMode"
    BY <2>1, <1>1, <1>2 DEF SetOp!Op
  <2>2. CASE w # "postMode"
    BY <2>2, <1>2, NewCall, NothingAsked
  <2> QED BY <2>1, <2>2
<1>5. ASSUME NEW d \in Callers \ {c}
      PROVE  /\ op'[d] \in SetOp!Op
             /\ \/ op'[d] = op[d] /\ ~(op[d].pc = "post" /\ op[d].via = "local")
                \/ /\ op[d].pc = "post" /\ op[d].via = "local"
                   /\ op'[d].pc = "post" /\ op'[d].via = "local"
                   /\ op'[d].ask = op[d].ask /\ op'[d].send = op[d].send
                   /\ op'[d].unread = op[d].unread
                   /\ op'[d].moved = op[d].moved \cup changed
  <2>1. op[d] \in SetOp!Op
    BY <1>1
  <2>2. op'[d] = IF op[d].pc = "post" /\ op[d].via = "local"
                 THEN [op[d] EXCEPT !.moved = op[d].moved \cup changed] ELSE op[d]
    BY <2>1 DEF SetOp!Applied
  <2> HIDE DEF changed
  <2> QED BY <2>1, <2>2, <1>2 DEF SetOp!Op
<1>6. DOMAIN op' = Callers /\ op' = [d \in Callers |-> op'[d]]
  BY DEF SetOp!Applied
<1>7. op' \in [Callers -> SetOp!Op]
  <2>1. \A d \in Callers : op'[d] \in SetOp!Op
    BY <1>3, <1>4, <1>5
  <2> QED BY <2>1, <1>6
<1>8. /\ site' \in [SetOp!Fields -> SetOp!Known]
      /\ \A f \in SetOp!Fields \ DOMAIN new : site'[f] = site[f]
      /\ \A f \in DOMAIN new : site'[f] = new[f]
  BY <1>1 DEF SetOp!Applied
<1>9. ASSUME NEW d \in Callers, op'[d].pc = "read" PROVE op'[d].via = "local"
  <2> HIDE DEF mine
  <2>1. CASE d = c
    BY <2>1, <1>3, <1>4, <1>9
  <2>2. CASE d # c
    BY <2>2, <1>5, <1>9 DEF SetOp!TypeOK
  <2> QED BY <2>1, <2>2
<1>10. SetOp!TypeOK'
  BY <1>7, <1>8, <1>9 DEF SetOp!TypeOK, SetOp!Applied
<1> HIDE DEF mine
<1> QED BY <1>3, <1>4, <1>5, <1>8, <1>10

\* Such a command leaves alone what the others have in hand.
LEMMA AppliedFits ==
  ASSUME SetOp!IInv, NEW c \in Callers, NEW w \in {"postMode", "done", "failed"},
         NEW err \in BOOLEAN, NEW new, DOMAIN new \subseteq SetOp!Fields,
         \A f \in DOMAIN new : new[f] \in SetOp!Known,
         SetOp!Applied(c, w, err, new),
         w = "postMode" => /\ conn = "remote" /\ op[c].pc = "post"
                           /\ ~err => SetOp!Given(op[c].send) \ {"mode"} \subseteq DOMAIN new
  PROVE  SetOp!IInv'
<1>1. SetOp!TypeOK /\ conn' = conn
  BY DEF SetOp!IInv, SetOp!Applied
<1>2. SetOp!Fits(op'[c], site', conn')
  BY <1>1, AppliedTypes DEF SetOp!Fits, SetOp!IInv
<1>3. ASSUME NEW d \in Callers \ {c} PROVE SetOp!Fits(op'[d], site', conn')
  <2> SetOp!Fits(op[d], site, conn)
    BY DEF SetOp!IInv
  <2>1. CASE op'[d] = op[d] /\ ~(op[d].pc = "post" /\ op[d].via = "local")
    BY <2>1, <1>1 DEF SetOp!Fits
  <2>2. CASE /\ op[d].pc = "post" /\ op[d].via = "local"
             /\ op'[d].pc = "post" /\ op'[d].via = "local"
             /\ op'[d].ask = op[d].ask /\ op'[d].send = op[d].send
             /\ op'[d].unread = op[d].unread
             /\ op'[d].moved = op[d].moved \cup {f \in DOMAIN new : new[f] # site[f]}
    <3>1. \A f \in SetOp!Fields : site'[f] = site[f] \/ f \in op'[d].moved
      BY <2>2, <1>1, AppliedTypes
    <3>2. SetOp!Backfilled(op[d], site)
      BY <2>2 DEF SetOp!Fits
    <3>3. SetOp!Backfilled(op'[d], site')
      BY <2>2, <3>1, <3>2 DEF SetOp!Backfilled
    <3> QED BY <2>2, <3>3 DEF SetOp!Fits
  <2> QED BY <2>1, <2>2, <1>1, AppliedTypes
<1>4. SetOp!TypeOK'
  BY <1>1, AppliedTypes
<1> QED BY <1>2, <1>3, <1>4 DEF SetOp!IInv

\* What PostLocal, the two commands and TEDAPI send.
LEMMA LocalPayload ==
  ASSUME SetOp!TypeOK, NEW c \in Callers
  PROVE  LET new == [f \in SetOp!Fields |->
                       IF op[c].send[f] = None THEN Reset ELSE op[c].send[f]] IN
         DOMAIN new = SetOp!Fields /\ \A f \in SetOp!Fields : new[f] \in SetOp!Known
<1>1. op[c].send \in [SetOp!Fields -> SetOp!Known \cup {None}]
  BY OpFields DEF SetOp!TypeOK
<1> QED BY <1>1 DEF SetOp!Known

LEMMA NothingSent == DOMAIN << >> = {}
OBVIOUS

LEMMA OutcomesOf ==
  ASSUME SetOp!TypeOK, NEW c \in Callers, NEW f \in SetOp!Fields,
         NEW o \in SetOp!Outcomes(c, f)
  PROVE  /\ o[1] \in BOOLEAN /\ DOMAIN o[2] \subseteq SetOp!Fields
         /\ DOMAIN o[2] \subseteq SetOp!Given(op[c].send) \cap {f}
         /\ \A g \in DOMAIN o[2] : o[2][g] \in SetOp!Known
         /\ ~o[1] => ~op[c].err /\ SetOp!Given(op[c].send) \cap {f} \subseteq DOMAIN o[2]
<1>1. op[c].send \in [SetOp!Fields -> SetOp!Known \cup {None}] /\ op[c].err \in BOOLEAN
  BY OpFields DEF SetOp!TypeOK
<1> DEFINE sent == {f} \cap SetOp!Given(op[c].send)
           whole == [g \in sent |-> op[c].send[g]]
<1>2. sent \subseteq SetOp!Fields /\ \A g \in sent : op[c].send[g] \in SetOp!Known
  BY <1>1 DEF SetOp!Given
<1>3. DOMAIN whole = sent /\ \A g \in sent : whole[g] = op[c].send[g]
  OBVIOUS
<1>4. o = <<op[c].err, whole>> \/ o = <<TRUE, whole>> \/ o = <<TRUE, << >>>>
  BY DEF SetOp!Outcomes
<1> HIDE DEF whole
<1>5. CASE o = <<op[c].err, whole>>
  <2>1. o[1] = op[c].err /\ o[2] = whole
    BY <1>5
  <2> QED BY <2>1, <1>1, <1>2, <1>3
<1>6. CASE o = <<TRUE, whole>>
  <2>1. o[1] = TRUE /\ o[2] = whole
    BY <1>6
  <2> QED BY <2>1, <1>2, <1>3
<1>7. CASE o = <<TRUE, << >>>>
  <2>1. o[1] = TRUE /\ o[2] = << >>
    BY <1>7
  <2> QED BY <2>1, NothingSent
<1> QED BY <1>4, <1>5, <1>6, <1>7
-----------------------------------------------------------------------------
\* One lemma per action.
LEMMA SetOpInit ==
  ASSUME SetOp!SetOperationAssumption, SetOp!Init
  PROVE  SetOp!IInv
<1>1. conn \in SetOp!Backends /\ switches \in 0..MaxSwitch /\ site \in [SetOp!Fields -> SetOp!Known]
  BY DEF SetOp!Init, SetOp!SetOperationAssumption, SetOp!Known
<1>2. \A c \in Callers : /\ op[c] \in SetOp!Op /\ op[c].pc = "idle"
  BY <1>1, NothingAsked DEF SetOp!Init, SetOp!Call, SetOp!Op, SetOp!Known
<1>3. op \in [Callers -> SetOp!Op]
  BY <1>2 DEF SetOp!Init
<1>4. SetOp!TypeOK
  BY <1>1, <1>2, <1>3 DEF SetOp!TypeOK
<1> QED BY <1>2, <1>4 DEF SetOp!IInv, SetOp!Fits

\* A step that only gives the caller c another record, e.
LEMMA OneRecord ==
  ASSUME SetOp!IInv, NEW c \in Callers, NEW e \in SetOp!Op,
         e.pc = "read" => e.via = "local", SetOp!Fits(e, site, conn),
         op' = [op EXCEPT ![c] = e], UNCHANGED <<conn, site, switches>>
  PROVE  SetOp!IInv'
<1>1. op \in [Callers -> SetOp!Op]
  BY DEF SetOp!IInv, SetOp!TypeOK
<1>2. op' \in [Callers -> SetOp!Op] /\ op'[c] = e /\ \A d \in Callers \ {c} : op'[d] = op[d]
  BY <1>1
<1>3. SetOp!TypeOK'
  BY <1>2 DEF SetOp!IInv, SetOp!TypeOK
<1>4. ASSUME NEW d \in Callers PROVE SetOp!Fits(op'[d], site', conn')
  <2>1. SetOp!Fits(op'[d], site, conn)
    BY <1>2 DEF SetOp!IInv
  <2>2. site' = site /\ conn' = conn
    OBVIOUS
  <2> QED BY <2>1, <2>2
<1> QED BY <1>3, <1>4 DEF SetOp!IInv

LEMMA SetOpBegin ==
  ASSUME SetOp!IInv, NEW c \in Callers, SetOp!Begin(c)
  PROVE  SetOp!IInv'
<1> PICK ask \in [SetOp!Fields -> Values \cup {None}] :
      op' = [op EXCEPT ![c] = SetOp!Call(IF SetOp!NeedsBackfill(ask) THEN "read" ELSE "post", ask)]
  BY DEF SetOp!Begin
<1> DEFINE w == IF SetOp!NeedsBackfill(ask) THEN "read" ELSE "post"
           e == SetOp!Call(w, ask)
<1>1. SetOp!TypeOK /\ w \in {"read", "post"} /\ (w = "read" => conn = "local")
  BY DEF SetOp!IInv, SetOp!NeedsBackfill
<1>2. w = "post" /\ conn = "local" => SetOp!Given(ask) \in {{}, SetOp!Fields}
  BY DEF SetOp!NeedsBackfill
<1> HIDE DEF w
<1>3. e \in SetOp!Op /\ e.pc = w /\ e.via = conn /\ e.send = ask /\ e.ask = ask
  BY <1>1, NewCall
<1> HIDE DEF e
<1>4. e.pc = "post" /\ e.via = "local" => SetOp!Backfilled(e, site)
  BY <1>2, <1>3 DEF SetOp!Backfilled
<1>5. SetOp!Fits(e, site, conn)
  BY <1>1, <1>3, <1>4 DEF SetOp!Fits
<1>6. op' = [op EXCEPT ![c] = e] /\ UNCHANGED <<conn, site, switches>>
  BY DEF SetOp!Begin, w, e
<1> QED BY <1>1, <1>3, <1>5, <1>6, OneRecord

LEMMA SetOpBackfill ==
  ASSUME SetOp!IInv, NEW c \in Callers, SetOp!Backfill(c)
  PROVE  SetOp!IInv'
<1>0. SetOp!TypeOK /\ op[c] \in SetOp!Op /\ op[c].pc = "read" /\ op[c].via = "local"
  BY DEF SetOp!IInv, SetOp!TypeOK, SetOp!Backfill
<1>1. CASE conn = "local" /\ op' = [op EXCEPT ![c] = SetOp!Call("failed", SetOp!Nothing)]
  <2> DEFINE e == SetOp!Call("failed", SetOp!Nothing)
  <2>1. e \in SetOp!Op /\ e.pc = "failed"
    BY <1>0, NewCall, NothingAsked
  <2>2. op' = [op EXCEPT ![c] = e]
    BY <1>1
  <2> HIDE DEF e
  <2>3. SetOp!Fits(e, site, conn)
    BY <2>1 DEF SetOp!Fits
  <2> QED BY <2>1, <2>2, <2>3, OneRecord DEF SetOp!Backfill
<1>2. ASSUME NEW ans \in SetOp!Answers, SetOp!Filled(c, ans) PROVE SetOp!IInv'
  <2>1. ans \in [SetOp!Fields -> SetOp!Known \cup {None}]
        /\ \A f \in SetOp!Fields : ans[f] \in {site[f], None, Default}
    BY <1>0 DEF SetOp!Answers, SetOp!TypeOK, SetOp!Known
  <2> DEFINE filled == [f \in SetOp!Fields |->
                          IF op[c].send[f] = None THEN ans[f] ELSE op[c].send[f]]
             missed == {f \in SetOp!Fields \ SetOp!Given(op[c].ask) : ans[f] \in {None, Default}}
             e == [op[c] EXCEPT !.pc = "post", !.send = filled, !.unread = missed]
  <2>2. filled \in [SetOp!Fields -> SetOp!Known \cup {None}] /\ missed \subseteq SetOp!Fields
    BY <1>0, <2>1, OpFields
  <2>3. op' = [op EXCEPT ![c] = e]
    BY <1>0, <1>2 DEF SetOp!Filled, SetOp!TypeOK, SetOp!Op
  <2>4. op[c].send = op[c].ask
    BY <1>0 DEF SetOp!IInv, SetOp!Fits
  <2>5. \A f \in SetOp!Fields \ SetOp!Given(op[c].ask) : filled[f] = ans[f]
    BY <2>4 DEF SetOp!Given
  <2> HIDE DEF filled, missed
  <2>6. /\ e \in SetOp!Op /\ e.pc = "post" /\ e.via = "local" /\ e.send = filled
        /\ e.ask = op[c].ask /\ e.unread = missed
    BY <1>0, <2>2 DEF SetOp!Op
  <2> HIDE DEF e
  <2>7. SetOp!Backfilled(e, site)
    BY <2>1, <2>5, <2>6 DEF SetOp!Backfilled, missed
  <2>8. SetOp!Fits(e, site, conn)
    BY <2>6, <2>7 DEF SetOp!Fits
  <2> QED BY <2>3, <2>6, <2>8, OneRecord DEF SetOp!Backfill
<1> QED BY <1>1, <1>2 DEF SetOp!Backfill

LEMMA SetOpPosts ==
  ASSUME SetOp!IInv, NEW c \in Callers,
         SetOp!PostLocal(c) \/ SetOp!PostReserve(c) \/ SetOp!PostMode(c) \/ SetOp!PostTEDAPI(c)
  PROVE  SetOp!IInv'
<1>0. SetOp!TypeOK
  BY DEF SetOp!IInv
<1>1. CASE SetOp!PostLocal(c)
  <2> DEFINE new == [f \in SetOp!Fields |->
                       IF op[c].send[f] = None THEN Reset ELSE op[c].send[f]]
  <2>1. PICK err \in BOOLEAN : \/ SetOp!Applied(c, SetOp!Ended(err), err, new)
                               \/ SetOp!Applied(c, SetOp!Ended(err), err, << >>)
    BY <1>1 DEF SetOp!PostLocal
  <2>2. SetOp!Ended(err) \in {"done", "failed"}
    BY DEF SetOp!Ended
  <2>3. DOMAIN new = SetOp!Fields /\ \A f \in SetOp!Fields : new[f] \in SetOp!Known
    BY <1>0, LocalPayload
  <2> HIDE DEF new
  <2>4. CASE SetOp!Applied(c, SetOp!Ended(err), err, new)
    BY <2>2, <2>3, <2>4, AppliedFits
  <2>5. CASE SetOp!Applied(c, SetOp!Ended(err), err, << >>)
    BY <2>2, <2>5, NothingSent, AppliedFits
  <2> QED BY <2>1, <2>4, <2>5
<1>2. CASE SetOp!PostReserve(c)
  <2>0. "level" \in SetOp!Fields /\ op[c].pc = "post" /\ conn = "remote"
    BY <1>2 DEF SetOp!Fields, SetOp!PostReserve
  <2>1. PICK o \in SetOp!Outcomes(c, "level") : SetOp!Applied(c, "postMode", o[1], o[2])
    BY <1>2 DEF SetOp!PostReserve
  <2>2. /\ o[1] \in BOOLEAN /\ DOMAIN o[2] \subseteq SetOp!Fields
        /\ \A g \in DOMAIN o[2] : o[2][g] \in SetOp!Known
        /\ ~o[1] => SetOp!Given(op[c].send) \cap {"level"} \subseteq DOMAIN o[2]
    BY <1>0, <2>0, OutcomesOf
  <2>3. ~o[1] => SetOp!Given(op[c].send) \ {"mode"} \subseteq DOMAIN o[2]
    BY <2>2 DEF SetOp!Given, SetOp!Fields
  <2> QED BY <2>0, <2>1, <2>2, <2>3, AppliedFits
<1>3. CASE SetOp!PostMode(c)
  <2>0. "mode" \in SetOp!Fields
    BY DEF SetOp!Fields
  <2>1. PICK o \in SetOp!Outcomes(c, "mode") : SetOp!Applied(c, SetOp!Ended(o[1]), o[1], o[2])
    BY <1>3 DEF SetOp!PostMode
  <2>2. SetOp!Ended(o[1]) \in {"done", "failed"}
    BY DEF SetOp!Ended
  <2>3. /\ o[1] \in BOOLEAN /\ DOMAIN o[2] \subseteq SetOp!Fields
        /\ \A g \in DOMAIN o[2] : o[2][g] \in SetOp!Known
    BY <1>0, <2>0, OutcomesOf
  <2> QED BY <2>1, <2>2, <2>3, AppliedFits
<1>4. CASE SetOp!PostTEDAPI(c)
  BY <1>4, NothingSent, AppliedFits DEF SetOp!PostTEDAPI
<1> QED BY <1>1, <1>2, <1>3, <1>4

LEMMA SetOpSwitch ==
  ASSUME SetOp!SetOperationAssumption, SetOp!IInv, SetOp!Switch
  PROVE  SetOp!IInv'
<1>1. conn' \in SetOp!Backends /\ switches' \in 0..MaxSwitch /\ op' = op /\ site' = site
  BY DEF SetOp!IInv, SetOp!TypeOK, SetOp!Switch, SetOp!SetOperationAssumption
<1>2. SetOp!TypeOK'
  BY <1>1 DEF SetOp!IInv, SetOp!TypeOK
<1>3. ASSUME NEW c \in Callers PROVE SetOp!Fits(op'[c], site', conn')
  <2>1. SetOp!Fits(op[c], site, conn) /\ op[c].pc # "postMode"
    BY DEF SetOp!IInv, SetOp!Switch
  <2> QED BY <1>1, <2>1 DEF SetOp!Fits
<1> QED BY <1>2, <1>3 DEF SetOp!IInv

LEMMA SetOpNext ==
  ASSUME SetOp!SetOperationAssumption, SetOp!IInv, [SetOp!Next]_(SetOp!vars)
  PROVE  SetOp!IInv'
<1>1. CASE UNCHANGED SetOp!vars
  BY <1>1 DEF SetOp!vars, SetOp!IInv, SetOp!TypeOK
<1> QED
  BY <1>1, SetOpBegin, SetOpBackfill, SetOpPosts, SetOpSwitch DEF SetOp!Next

LEMMA SetOpInvariance ==
  ASSUME SetOp!SetOperationAssumption PROVE SetOp!Spec => []SetOp!IInv
<1>1. SetOp!Init => SetOp!IInv
  BY SetOpInit
<1>2. SetOp!IInv /\ [SetOp!Next]_(SetOp!vars) => SetOp!IInv'
  BY SetOpNext
<1> QED BY <1>1, <1>2, PTL DEF SetOp!Spec

\* Only a caller's own commands take it on from where it sends them.
LEMMA SendersPost ==
  ASSUME SetOp!IInv, SetOp!Next, NEW c \in Callers, SetOp!Posts(c)
  PROVE  SetOp!PostLocal(c) \/ SetOp!PostReserve(c) \/ SetOp!PostMode(c) \/ SetOp!PostTEDAPI(c)
<1>0. SetOp!TypeOK /\ op \in [Callers -> SetOp!Op] /\ op' # op
      /\ op[c].pc \in {"post", "postMode"} /\ op'[c].pc # op[c].pc
  BY DEF SetOp!IInv, SetOp!TypeOK, SetOp!Posts
<1>1. PICK d \in Callers :
        \/ SetOp!Begin(d) \/ SetOp!Backfill(d) \/ SetOp!PostLocal(d)
        \/ SetOp!PostReserve(d) \/ SetOp!PostMode(d) \/ SetOp!PostTEDAPI(d)
  BY <1>0 DEF SetOp!Next, SetOp!Switch
<1>2. CASE d # c
  <2>1. ~SetOp!Begin(d) /\ ~SetOp!Backfill(d)
    BY <1>0, <1>2 DEF SetOp!Begin, SetOp!Backfill, SetOp!Filled
  <2>2. ASSUME NEW w \in {"postMode", "done", "failed"}, NEW err \in BOOLEAN, NEW new,
               DOMAIN new \subseteq SetOp!Fields,
               \A f \in DOMAIN new : new[f] \in SetOp!Known, SetOp!Applied(d, w, err, new)
        PROVE  FALSE
    BY <1>0, <1>2, <2>2, AppliedTypes
  <2>3. ~SetOp!PostLocal(d)
    <3>1. SUFFICES ASSUME SetOp!PostLocal(d) PROVE FALSE
      OBVIOUS
    <3> DEFINE new == [f \in SetOp!Fields |->
                         IF op[d].send[f] = None THEN Reset ELSE op[d].send[f]]
    <3>2. PICK err \in BOOLEAN : \/ SetOp!Applied(d, SetOp!Ended(err), err, new)
                                 \/ SetOp!Applied(d, SetOp!Ended(err), err, << >>)
      BY <3>1 DEF SetOp!PostLocal
    <3>3. SetOp!Ended(err) \in {"done", "failed"}
      BY DEF SetOp!Ended
    <3>4. DOMAIN new = SetOp!Fields /\ \A f \in SetOp!Fields : new[f] \in SetOp!Known
      BY <1>0, LocalPayload
    <3> HIDE DEF new
    <3> QED BY <3>2, <3>3, <3>4, <2>2, NothingSent
  <2>4. ~SetOp!PostReserve(d) /\ ~SetOp!PostMode(d)
    <3>1. ASSUME NEW f \in SetOp!Fields, NEW o \in SetOp!Outcomes(d, f),
                 NEW w \in {"postMode", SetOp!Ended(o[1])}, SetOp!Applied(d, w, o[1], o[2])
          PROVE  FALSE
      <4>1. /\ o[1] \in BOOLEAN /\ DOMAIN o[2] \subseteq SetOp!Fields
            /\ \A g \in DOMAIN o[2] : o[2][g] \in SetOp!Known
        BY <1>0, OutcomesOf
      <4>2. w \in {"postMode", "done", "failed"}
        BY DEF SetOp!Ended
      <4> QED BY <3>1, <4>1, <4>2, <2>2
    <3> QED BY <3>1 DEF SetOp!PostReserve, SetOp!PostMode, SetOp!Fields
  <2>5. ~SetOp!PostTEDAPI(d)
    BY <2>2, NothingSent DEF SetOp!PostTEDAPI
  <2> QED BY <1>1, <2>1, <2>3, <2>4, <2>5
<1>3. CASE d = c
  BY <1>0, <1>1, <1>3 DEF SetOp!Begin, SetOp!Backfill
<1> QED BY <1>2, <1>3

\* What a command of c does to a field that c was not asked to set.
LEMMA PostKeeps ==
  ASSUME SetOp!SetOperationAssumption, SetOp!IInv, NEW c \in Callers,
         SetOp!PostLocal(c) \/ SetOp!PostReserve(c) \/ SetOp!PostMode(c) \/ SetOp!PostTEDAPI(c),
         SetOp!Given(op[c].ask) # {}, op[c].via = conn,
         NEW f \in SetOp!Fields \ SetOp!Given(op[c].ask)
  PROVE  site'[f] = site[f] \/ f \in op[c].moved \/ f \in op[c].unread
<1>0. SetOp!TypeOK /\ SetOp!Fits(op[c], site, conn) /\ site[f] \in SetOp!Known
  BY DEF SetOp!IInv, SetOp!TypeOK
<1>1. ASSUME NEW w \in {"postMode", "done", "failed"}, NEW err \in BOOLEAN, NEW new,
             DOMAIN new \subseteq SetOp!Fields,
             \A g \in DOMAIN new : new[g] \in SetOp!Known, SetOp!Applied(c, w, err, new)
      PROVE  IF f \in DOMAIN new THEN site'[f] = new[f] ELSE site'[f] = site[f]
  BY <1>0, <1>1, AppliedTypes
<1>2. CASE SetOp!PostLocal(c)
  <2> DEFINE new == [g \in SetOp!Fields |->
                       IF op[c].send[g] = None THEN Reset ELSE op[c].send[g]]
  <2>1. PICK err \in BOOLEAN : \/ SetOp!Applied(c, SetOp!Ended(err), err, new)
                               \/ SetOp!Applied(c, SetOp!Ended(err), err, << >>)
    BY <1>2 DEF SetOp!PostLocal
  <2>2. SetOp!Ended(err) \in {"done", "failed"}
    BY DEF SetOp!Ended
  <2>3. DOMAIN new = SetOp!Fields /\ \A g \in SetOp!Fields : new[g] \in SetOp!Known
    BY <1>0, LocalPayload
  <2>4. op[c].send[f] # None => new[f] = op[c].send[f]
    OBVIOUS
  <2> HIDE DEF new
  <2>5. op[c].send[f] = site[f] \/ f \in op[c].moved \/ f \in op[c].unread
    BY <1>0, <1>2 DEF SetOp!PostLocal, SetOp!Fits, SetOp!Backfilled
  <2>6. site[f] # None
    BY <1>0 DEF SetOp!SetOperationAssumption, SetOp!Known
  <2>7. site'[f] = new[f] \/ site'[f] = site[f]
    BY <2>1, <2>2, <2>3, <1>1, NothingSent
  <2> QED BY <2>4, <2>5, <2>6, <2>7
<1>3. CASE SetOp!PostReserve(c) \/ SetOp!PostMode(c)
  <2>1. conn = "remote" /\ op[c].send = op[c].ask
    BY <1>0, <1>3 DEF SetOp!PostReserve, SetOp!PostMode, SetOp!Fits
  <2>2. PICK g \in SetOp!Fields, w \in {"postMode", "done", "failed"} :
          \E o \in SetOp!Outcomes(c, g) : SetOp!Applied(c, w, o[1], o[2])
    BY <1>3 DEF SetOp!PostReserve, SetOp!PostMode, SetOp!Fields, SetOp!Ended
  <2> PICK o \in SetOp!Outcomes(c, g) : SetOp!Applied(c, w, o[1], o[2])
    BY <2>2
  <2>3. /\ o[1] \in BOOLEAN /\ DOMAIN o[2] \subseteq SetOp!Fields
        /\ DOMAIN o[2] \subseteq SetOp!Given(op[c].send)
        /\ \A h \in DOMAIN o[2] : o[2][h] \in SetOp!Known
    BY <1>0, OutcomesOf
  <2> QED BY <2>1, <2>2, <2>3, <1>1
<1>4. CASE SetOp!PostTEDAPI(c)
  BY <1>1, <1>4, NothingSent DEF SetOp!PostTEDAPI
<1> QED BY <1>2, <1>3, <1>4

(***************************************************************************)
(* SetReserve and SetMode change the field they are not about only if it   *)
(* changed after the back-fill read it, the gateway left it out of that    *)
(* read, or the backend was switched under way (operations.go,             *)
(* backfillLocalOperation); and every variable has its type.               *)
(***************************************************************************)
THEOREM OtherFieldsAreKept ==
  ASSUME SetOp!SetOperationAssumption PROVE SetOp!Spec => SetOp!OtherFieldKept
<1> DEFINE A == /\ SetOp!TypeOK'
                /\ \A c \in Callers : SetOp!Posts(c) /\ SetOp!Given(op[c].ask) # {} =>
                     \A f \in SetOp!Fields \ SetOp!Given(op[c].ask) :
                       \/ site'[f] = site[f]
                       \/ f \in op[c].moved
                       \/ f \in op[c].unread
                       \/ op[c].via # conn
<1>1. SetOp!IInv /\ [SetOp!Next]_(SetOp!vars) => [A]_(SetOp!vars)
  <2> SUFFICES ASSUME SetOp!IInv, SetOp!Next PROVE A
    OBVIOUS
  <2>1. SetOp!TypeOK'
    BY SetOpNext DEF SetOp!IInv
  <2> QED BY <2>1, SendersPost, PostKeeps
<1> QED BY <1>1, SetOpInvariance, PTL DEF SetOp!Spec, SetOp!OtherFieldKept

(***************************************************************************)
(* Cloud and Fleet API report success only if they took every field of the *)
(* payload: the second command's success does not hide the first's failure *)
(* (cloud.go:745-749).                                                     *)
(***************************************************************************)
THEOREM RemoteSuccessesAreComplete ==
  ASSUME SetOp!SetOperationAssumption PROVE SetOp!Spec => SetOp!RemoteSuccessIsComplete
<1> DEFINE A == \A c \in Callers : op[c].pc = "postMode" /\ op'[c].pc = "done" =>
                  SetOp!Given(op[c].send) \subseteq op'[c].accepted
<1>1. SetOp!IInv /\ [SetOp!Next]_(SetOp!vars) => [A]_(SetOp!vars)
  <2> SUFFICES ASSUME SetOp!IInv, SetOp!Next, NEW c \in Callers,
                      op[c].pc = "postMode", op'[c].pc = "done"
               PROVE  SetOp!Given(op[c].send) \subseteq op'[c].accepted
    OBVIOUS
  <2>0. SetOp!TypeOK /\ SetOp!Fits(op[c], site, conn) /\ "mode" \in SetOp!Fields
    BY DEF SetOp!IInv, SetOp!Fields
  <2>1. SetOp!PostMode(c)
    BY SendersPost DEF SetOp!Posts, SetOp!PostLocal, SetOp!PostReserve, SetOp!PostTEDAPI
  <2>2. PICK o \in SetOp!Outcomes(c, "mode") : SetOp!Applied(c, SetOp!Ended(o[1]), o[1], o[2])
    BY <2>1 DEF SetOp!PostMode
  <2>3. /\ o[1] \in BOOLEAN /\ DOMAIN o[2] \subseteq SetOp!Fields
        /\ \A g \in DOMAIN o[2] : o[2][g] \in SetOp!Known
        /\ ~o[1] => ~op[c].err /\ SetOp!Given(op[c].send) \cap {"mode"} \subseteq DOMAIN o[2]
    BY <2>0, OutcomesOf
  <2>4. SetOp!Ended(o[1]) \in {"done", "failed"} /\ (SetOp!Ended(o[1]) = "done" => ~o[1])
    BY DEF SetOp!Ended
  <2>5. op'[c].pc = SetOp!Ended(o[1]) /\ op'[c].accepted = op[c].accepted \cup DOMAIN o[2]
    BY <2>0, <2>2, <2>3, <2>4, AppliedTypes
  <2>6. SetOp!Given(op[c].send) \ op[c].accepted \subseteq {"mode"}
    BY <2>0, <2>3, <2>4, <2>5 DEF SetOp!Fits
  <2> QED BY <2>3, <2>4, <2>5, <2>6
<1> QED BY <1>1, SetOpInvariance, PTL DEF SetOp!Spec, SetOp!RemoteSuccessIsComplete
=============================================================================
