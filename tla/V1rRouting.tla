----------------------------- MODULE V1rRouting -----------------------------
(***************************************************************************)
(* How the TEDAPI client routes its requests, powerwall/tedapi/tedapi.go,  *)
(* and what becomes of a signed command, v1r.go.                           *)
(*                                                                         *)
(* A signed request goes over the wired LAN or, if that has failed and it  *)
(* was asked for, over WiFi; a read may also fall back to the unsigned     *)
(* WiFi protocol ("legacy").  A write goes over WiFi only after a probe,   *)
(* good for a minute, whose request runs outside the lock.  The mutex is   *)
(* held for one step at a time.  The gateway holds at most one manual      *)
(* backup event, which must be cancelled before another is scheduled.      *)
(*                                                                         *)
(* Left out: the caches of config and power samples (a read that they      *)
(* answer changes nothing here), the din a transport keeps, tokens,        *)
(* signatures, the contents of commands, and clients without a v1r         *)
(* transport.  A WiFi transport has an address other than the gateway's.   *)
(***************************************************************************)
EXTENDS Naturals

CONSTANT Callers

VARIABLES
  config,     \* Client.failover, wifiV1rFallback, whether there is a wifiV1r
  lanFailed,  \* Client.lanFailed
  ready,      \* now is before Client.wifiV1rReadyUntil
  din,        \* Client.din is known
  event,      \* the gateway's manual backup event
  call,       \* [Callers -> each caller's request]
  probed,     \* history: the window was opened by a probe begun in this outage
  late        \* history: ... by a probe begun in an earlier one

vars == <<config, lanFailed, ready, din, event, call, probed, late>>

window == <<ready, probed, late>>
link == <<lanFailed, din>>

Configs == [failover : BOOLEAN, fallback : BOOLEAN, wifi : BOOLEAN]

(***************************************************************************)
(* must is whether the unsigned protocol is ruled out, retried whether the *)
(* command has been sent anew.  The rest is history: whether WiFi v1r has  *)
(* been called for since the call began (strict), the LAN was declared     *)
(* well during its probe (stale), how often its command was taken, and     *)
(* whether the event it scheduled has been ended since (undone).           *)
(***************************************************************************)
Reads == {"status", "config"}
Writes == {"dispatch", "schedule", "unschedule", "island"}
Call == [pc : {"idle", "look", "api", "ask", "choose", "probe", "probing", "din",
               "cancel", "send", "denied", "took", "connect", "cold"},
         kind : Reads \cup Writes \cup {"probe", "connect"},
         t : {"none", "lan", "wifi", "legacy"},
         must : BOOLEAN, retried : BOOLEAN,
         strict : BOOLEAN, stale : BOOLEAN, taken : 0..2, undone : BOOLEAN]

Idle == [pc |-> "idle", kind |-> "probe", t |-> "none", must |-> FALSE, retried |-> FALSE,
         strict |-> FALSE, stale |-> FALSE, taken |-> 0, undone |-> FALSE]

(***************************************************************************)
(* An event that has been cancelled to make room for another is "dropped"  *)
(* until that one is scheduled, and "lost" if that fails.                  *)
(***************************************************************************)
Events == {"none", "on", "dropped", "lost"}

Init ==
  /\ config \in Configs
  /\ lanFailed = FALSE /\ din = FALSE
  /\ ready = FALSE /\ probed = FALSE /\ late = FALSE
  /\ event = "none"
  /\ call = [c \in Callers |-> Idle]

At(c, pc) == call[c].pc = pc
Becomes(c, r) == call' = [call EXCEPT ![c] = r]
Goto(c, pc) == Becomes(c, [call[c] EXCEPT !.pc = pc])
GotoOver(c, pc, t) == Becomes(c, [call[c] EXCEPT !.pc = pc, !.t = t])
End(c) == Becomes(c, Idle)

\* wifiV1rRequestedLocked.
Requested == config.failover /\ lanFailed /\ config.fallback

\* Where a call of each kind begins.  A read that the cache answers changes nothing.
FirstStep(k) == CASE k \in Reads -> "look" [] k \in Writes -> "choose"
                  [] k = "probe" -> "probe" [] k = "connect" -> "connect"

Begin(c, k) ==
  /\ At(c, "idle")
  /\ Becomes(c, [Idle EXCEPT !.pc = FirstStep(k), !.kind = k,
                             !.strict = Requested /\ k \in Reads])
  /\ UNCHANGED <<config, event, link, window>>
-----------------------------------------------------------------------------
(***************************************************************************)
(* Reads: GetConfig and the GraphQL queries.                               *)
(***************************************************************************)
\* Mutant: only a query asks whether the unsigned protocol is ruled out.
MustForStatus(k) == k = "status" /\ lanFailed /\ config.fallback

Must(k) == config.fallback /\ (k = "status" => lanFailed)

Look(c) ==
  /\ At(c, "look")
  /\ LET must == Must(call[c].kind) IN
     Becomes(c, IF call[c].kind = "status" /\ ~must /\ ~din
                THEN [call[c] EXCEPT !.pc = "ask", !.t = "legacy"]
                ELSE [call[c] EXCEPT !.pc = "api", !.must = must])
  /\ UNCHANGED <<config, event, link, window>>

\* v1rReadTransport; the LAN may have failed, or recovered, since Look.
ReadTransport ==
  IF ~lanFailed THEN "lan" ELSE IF Requested /\ config.wifi THEN "wifi" ELSE "none"

ChooseRead(c) ==
  /\ At(c, "api")
  /\ IF ReadTransport # "none" THEN GotoOver(c, "ask", ReadTransport)
     ELSE IF call[c].must THEN End(c) ELSE GotoOver(c, "ask", "legacy")
  /\ UNCHANGED <<config, event, link, window>>

ReadOk(c) == At(c, "ask") /\ End(c) /\ UNCHANGED <<config, event, link, window>>

\* No answer, no din to ask with, or an error that a new login did not mend.
ReadFails(c) ==
  /\ At(c, "ask")
  /\ IF call[c].t # "legacy" /\ ~call[c].must THEN GotoOver(c, "ask", "legacy") ELSE End(c)
  /\ UNCHANGED <<config, event, link, window>>
-----------------------------------------------------------------------------
(***************************************************************************)
(* The transport of a write, and the probe.                                *)
(***************************************************************************)
Choose(c) ==
  /\ At(c, "choose")
  /\ IF ~lanFailed THEN GotoOver(c, "din", "lan")
     ELSE IF ~Requested \/ ~config.wifi THEN End(c)
     ELSE IF ready THEN GotoOver(c, "din", "wifi") ELSE Goto(c, "probe")
  /\ UNCHANGED <<config, event, link, window>>

\* WiFiV1rReady up to its request ...
ProbeBegins(c) ==
  /\ At(c, "probe")
  /\ ready' = FALSE /\ late' = FALSE /\ probed' = FALSE
  /\ IF Requested /\ config.wifi /\ din THEN Goto(c, "probing") ELSE End(c)
  /\ UNCHANGED <<config, event, link>>

\* ... and from its answer on.
ProbeEnds(c) ==
  /\ At(c, "probing")
  /\ \E ok \in BOOLEAN :
       /\ ready' = ok
       /\ late' = (ok /\ call[c].stale)
       /\ probed' = (ok /\ ~call[c].stale)
       /\ IF ok /\ call[c].kind \in Writes
          THEN Becomes(c, [call[c] EXCEPT !.pc = "din", !.t = "wifi", !.stale = FALSE])
          ELSE End(c)
  /\ UNCHANGED <<config, event, link>>

\* A minute has passed since the probe.
WindowCloses ==
  /\ ready
  /\ ready' = FALSE /\ probed' = FALSE /\ late' = FALSE
  /\ UNCHANGED <<config, event, link, call>>
-----------------------------------------------------------------------------
(***************************************************************************)
(* A signed command.                                                       *)
(***************************************************************************)
\* resolveDin; those about the event ask the transport alone.
ResolveDin(c) ==
  /\ At(c, "din")
  /\ \/ Goto(c, IF call[c].kind = "schedule" THEN "cancel" ELSE "send")
     \/ (~din \/ call[c].kind \in {"schedule", "unschedule"}) /\ End(c)
  /\ UNCHANGED <<config, event, link, window>>

\* The calls, when the event has been ended.
Undone(calls) ==
  [c \in Callers |-> [calls[c] EXCEPT !.undone = @ \/ (calls[c].pc = "took" /\ calls[c].kind = "schedule")]]

Cancelled == IF event = "on" THEN "dropped" ELSE event

\* Mutant: a schedule whose cancellation fails is given up.
CancelOrEnd(c) ==
  /\ At(c, "cancel")
  /\ \/ End(c) /\ event' \in {event, Cancelled}
     \/ event' = Cancelled /\ call' = Undone([call EXCEPT ![c].pc = "send"])
  /\ UNCHANGED <<config, link, window>>

\* ScheduleMaxBackup goes on whatever becomes of its cancellation.
CancelFirst(c) ==
  /\ At(c, "cancel")
  /\ \/ Goto(c, "send") /\ UNCHANGED event
     \/ event' = Cancelled /\ call' = Undone([call EXCEPT ![c].pc = "send"])
  /\ UNCHANGED <<config, link, window>>

\* The gateway takes the command, though not a schedule while an event is on.
Takes(c) == call[c].kind = "schedule" => event # "on"

EventAfter(k) == CASE k = "schedule" -> "on" [] k = "unschedule" -> "none" [] OTHER -> event

Took(r) == [r EXCEPT !.taken = @ + 1, !.pc = "took"]

\* The call ends without success; what a schedule has dropped is lost.
EventLost(k) == IF k = "schedule" /\ event = "dropped" THEN "lost" ELSE event

Fail(c) == End(c) /\ event' = EventLost(call[c].kind)

\* Mutant: a lost answer is taken for a denial.
TakenOrDenied(c) ==
  /\ At(c, "send") /\ Takes(c)
  /\ \E r \in {Took(call[c]), [Took(call[c]) EXCEPT !.pc = "denied"]} :
       call' = [IF call[c].kind = "unschedule" THEN Undone(call) ELSE call EXCEPT ![c] = r]
  /\ event' = EventAfter(call[c].kind)
  /\ UNCHANGED <<config, link, window>>

\* Its answer may be lost.
Taken(c) ==
  /\ At(c, "send") /\ Takes(c)
  /\ \E r \in {Took(call[c]), Idle} :
       call' = [IF call[c].kind = "unschedule" THEN Undone(call) ELSE call EXCEPT ![c] = r]
  /\ event' = EventAfter(call[c].kind)
  /\ UNCHANGED <<config, link, window>>

\* Or it is refused, or lost; nobody looks at the result of an island mode request.
Refused(c) ==
  /\ At(c, "send")
  /\ \/ call[c].kind = "island" /\ Goto(c, "took") /\ UNCHANGED event
     \/ Fail(c)
  /\ UNCHANGED <<config, link, window>>

\* Mutant: a command is sent anew as often as it is denied.
DeniedAgain(c) ==
  /\ At(c, "send")
  /\ Goto(c, "denied")
  /\ UNCHANGED <<config, event, link, window>>

Denied(c) ==
  /\ At(c, "send")
  /\ IF call[c].retried THEN Fail(c) ELSE Goto(c, "denied") /\ UNCHANGED event
  /\ UNCHANGED <<config, link, window>>

Relogin(c) ==
  /\ At(c, "denied")
  /\ \/ Becomes(c, [call[c] EXCEPT !.pc = "send", !.retried = TRUE]) /\ UNCHANGED event
     \/ Fail(c)
  /\ UNCHANGED <<config, link, window>>

Succeed(c) == At(c, "took") /\ End(c) /\ UNCHANGED <<config, event, link, window>>

\* The event has run its time.
EventEnds ==
  /\ event = "on" /\ event' = "none"
  /\ call' = Undone(call)
  /\ UNCHANGED <<config, link, window>>
-----------------------------------------------------------------------------
(***************************************************************************)
(* What declares the LAN failed or well: SetLANFailed and connectV1r.      *)
(***************************************************************************)
\* Mutant: the window stays open.
WindowKept == ready

WindowReset == FALSE

\* The calls, when the LAN is well: probes under way are of an earlier outage.
Outdated(calls) ==
  [c \in Callers |-> [calls[c] EXCEPT !.strict = FALSE, !.stale = @ \/ calls[c].pc = "probing"]]

Well(calls) ==
  /\ lanFailed' = FALSE
  /\ ready' = WindowReset /\ probed' = FALSE /\ late' = FALSE
  /\ call' = Outdated(calls)

SetLANFailed ==
  /\ \/ lanFailed' = TRUE /\ UNCHANGED <<window, call>>
     \/ Well(call)
  /\ UNCHANGED <<config, event, din>>

ConnectLAN(c) ==
  /\ At(c, "connect")
  /\ \/ din' = TRUE /\ Well([call EXCEPT ![c] = Idle])
     \/ /\ IF config.failover /\ config.fallback /\ config.wifi THEN Goto(c, "cold") ELSE End(c)
        /\ UNCHANGED <<link, window>>
  /\ UNCHANGED <<config, event>>

ConnectWiFi(c) ==
  /\ At(c, "cold")
  /\ \/ din' = TRUE /\ lanFailed' = TRUE
     \/ UNCHANGED link
  /\ End(c)
  /\ UNCHANGED <<config, event, window>>
-----------------------------------------------------------------------------
Step(c) ==
  \/ Look(c) \/ ChooseRead(c) \/ ReadOk(c) \/ ReadFails(c)
  \/ Choose(c) \/ ProbeBegins(c) \/ ProbeEnds(c)
  \/ ResolveDin(c) \/ CancelFirst(c) \/ Taken(c) \/ Refused(c) \/ Denied(c)
  \/ Relogin(c) \/ Succeed(c)
  \/ ConnectLAN(c) \/ ConnectWiFi(c)

Next ==
  \/ \E c \in Callers :
       Step(c) \/ \E k \in Reads \cup Writes \cup {"probe", "connect"} : Begin(c, k)
  \/ SetLANFailed \/ WindowCloses \/ EventEnds

Spec == Init /\ [][Next]_vars

\* Every request has a timeout; the rest is code that runs on.
FairSpec == Spec /\ \A c \in Callers : WF_vars(Step(c))
-----------------------------------------------------------------------------
TypeOK ==
  /\ config \in Configs
  /\ lanFailed \in BOOLEAN /\ din \in BOOLEAN
  /\ ready \in BOOLEAN /\ probed \in BOOLEAN /\ late \in BOOLEAN
  /\ event \in Events
  /\ call \in [Callers -> Call]
  /\ \A c \in Callers : At(c, "send") => call[c].t \in {"lan", "wifi"}

(***************************************************************************)
(* A write takes to WiFi only if a probe has succeeded in this outage of   *)
(* the LAN, within the minute, or a probe that was under way when the LAN  *)
(* recovered has opened the window since (the comment of SetLANFailed,     *)
(* tedapi.go:159-161, speaks of a probe in each outage).                   *)
(***************************************************************************)
WiFiWriteIsProbed ==
  [][\A c \in Callers : call[c].kind \in Writes /\ call[c].t # "wifi" /\ call'[c].t = "wifi" =>
       probed' \/ late']_vars

(***************************************************************************)
(* "strict signed WiFi-v1r fallback" (tedapi.go:151): while it is called   *)
(* for, from the beginning of a read on, nothing is sent unsigned.         *)
(***************************************************************************)
StrictIsSigned == TypeOK /\ \A c \in Callers : call[c].strict => call[c].t # "legacy"

(***************************************************************************)
(* A command is taken at most once, although it is signed and sent anew    *)
(* after a denial, and success means that it was taken, except of an       *)
(* island mode request.                                                    *)
(***************************************************************************)
SuccessIsTakenOnce ==
  \A c \in Callers :
    /\ call[c].taken <= 1
    /\ At(c, "took") /\ call[c].kind # "island" => call[c].taken = 1

(***************************************************************************)
(* A manual backup is given up only for another that is then asked for,    *)
(* although nobody looks at the cancellation's outcome; and one that was   *)
(* scheduled is in force, unless it ended or somebody else has cancelled   *)
(* it since.                                                               *)
(***************************************************************************)
EventIsReplaced ==
  /\ event = "dropped" =>
       \E c \in Callers : call[c].kind = "schedule" /\ call[c].pc \in {"send", "denied"}
  /\ \A c \in Callers :
       At(c, "took") /\ call[c].kind = "schedule" => event = "on" \/ call[c].undone

\* Every request returns, one that is denied whenever it is sent included.
RequestsReturn == \A c \in Callers : []<>At(c, "idle")
-----------------------------------------------------------------------------
(***************************************************************************)
(* The inductive invariant behind the safety properties: for each request  *)
(* e, given whether WiFi v1r is called for and the gateway's event, where  *)
(* a kind may be, what a strict read has decided, and what became of the   *)
(* command.                                                                *)
(***************************************************************************)
KindFits(e) ==
  /\ e.pc \in {"look", "api", "ask"} => e.kind \in Reads
  /\ e.pc \in {"choose", "din", "cancel", "send", "denied", "took"} => e.kind \in Writes
  /\ e.pc = "cancel" => e.kind = "schedule"
  /\ e.pc \in {"din", "cancel", "send", "denied"} => e.t \in {"lan", "wifi"}

StrictFits(e, requested) ==
  e.strict => /\ requested /\ e.pc \in {"look", "api", "ask"} /\ e.t # "legacy"
              /\ e.pc \in {"api", "ask"} => e.must

CommandFits(e, ev) ==
  /\ e.pc # "took" => e.taken = 0
  /\ e.pc = "took" => e.taken = 1 \/ (e.taken = 0 /\ e.kind = "island")
  /\ e.pc = "took" /\ e.kind = "schedule" => ev = "on" \/ e.undone

Fits(e, requested, ev) == KindFits(e) /\ StrictFits(e, requested) /\ CommandFits(e, ev)

\* The request that the event was dropped for.
Replaces(e) == e.kind = "schedule" /\ e.pc \in {"send", "denied"}

DroppedIsReplaced == event = "dropped" => \E c \in Callers : Replaces(call[c])

WindowIsProbed == ready => probed \/ late

IInv ==
  /\ TypeOK
  /\ \A c \in Callers : Fits(call[c], Requested, event)
  /\ DroppedIsReplaced /\ WindowIsProbed
=============================================================================
