---------------------------- MODULE ProxyServing ----------------------------
(***************************************************************************)
(* How the proxy answers a GET (proxy/server.go): the performance cache    *)
(* and the singleflight group of a route, the call of the backend with its *)
(* own singleflight group, the health it feeds, and the last known good    *)
(* value it falls back to.                                                 *)
(*                                                                         *)
(* A value is the number of changes the site had seen when the backend     *)
(* computed it.  The degradation cache has a TTL, but whoever reads it     *)
(* ignores whether it is over (server.go:280, 307, 325), so entries do not *)
(* expire here.                                                            *)
(*                                                                         *)
(* Left out: the statistics, the form of a value (an object, text, text    *)
(* marshalled a second time), the pages served from disk, the backends,    *)
(* and the routes whose generator calls the backend without safePWCall.    *)
(***************************************************************************)
EXTENDS Naturals

CONSTANTS
  Requests,   \* HTTP requests, each a goroutine of its own
  Endpoints,
  Routes,     \* those answered through cachedRouteHandler
  Threshold,  \* NetworkErrorRateLimit
  MaxVersion, \* bound on the changes of the site
  None        \* no value

ASSUME ProxyServingAssumption ==
  /\ Routes \subseteq Endpoints /\ Endpoints # {}
  /\ Threshold \in Nat \ {0} /\ MaxVersion \in Nat
  /\ None \notin Nat

VARIABLES
  config,    \* FailFastMode, GracefulDegradation, CacheExpire > 0
  site,      \* the site's version
  perf,      \* [Routes -> a version or None]: PerfCache
  degraded,  \* [Endpoints -> a version or None]: DegradedCache
  fails,     \* Health.ConsecutiveFailures, counted up to Threshold
  isDegraded,\* Health.IsDegraded
  req,       \* [Requests -> each request's progress]
  stored,    \* history: the newest version the route's cache has held
  run,       \* history: calls that failed since the last that did not, or Reset
  late       \* history: an outcome was recorded after a later call had ended

vars == <<config, site, perf, degraded, fails, isDegraded, req, stored, run, late>>

history == <<stored, run, late>>
caches == <<perf, degraded>>
health == <<fails, isDegraded>>

Configs == [failFast : BOOLEAN, graceful : BOOLEAN, cached : BOOLEAN]
Versions == 0..MaxVersion
Value == Versions \cup {None}

(***************************************************************************)
(* joined is whether the request shares the flight of its route.  known    *)
(* (the endpoint had a good value when the request arrived, and nobody has *)
(* reset the proxy since) and overtaken (another call has ended since this *)
(* one's) are history.                                                     *)
(***************************************************************************)
Steps == {"idle", "route", "joined", "fetch", "call", "backend", "waiting",
          "good", "bad", "store", "fall", "got"}
Req == [pc : Steps, ep : Endpoints, res : Value, known : BOOLEAN,
        overtaken : BOOLEAN]

Idle == [pc |-> "idle", ep |-> CHOOSE e \in Endpoints : TRUE, res |-> None,
         known |-> FALSE, overtaken |-> FALSE]

Init ==
  /\ config \in Configs
  /\ site = 0
  /\ perf = [e \in Routes |-> None] /\ degraded = [e \in Endpoints |-> None]
  /\ fails = 0 /\ isDegraded = FALSE
  /\ req = [r \in Requests |-> Idle]
  /\ stored = [e \in Routes |-> 0]
  /\ run = 0 /\ late = FALSE

At(r, pc) == req[r].pc = pc
Goto(r, pc) == req' = [req EXCEPT ![r].pc = pc, ![r].overtaken = FALSE]
Moved(r, pc, res) == [req[r] EXCEPT !.pc = pc, !.res = res, !.overtaken = FALSE]

\* The request is answered with res; known is left set if that broke KnownIsServed.
Answered(r, res) == [Idle EXCEPT !.known = req[r].known /\ res = None]
-----------------------------------------------------------------------------
(***************************************************************************)
(* cachedRouteHandler and fetchRoute.                                      *)
(***************************************************************************)
\* What the performance cache has; it is not looked at if nothing is to be cached.
Cached(e) == IF config.cached /\ e \in Routes THEN perf[e] ELSE None

\* A request the performance cache answers changes nothing.
Begin(r, e) ==
  /\ At(r, "idle")
  /\ Cached(e) = None
  /\ req' = [req EXCEPT ![r] = [Idle EXCEPT !.pc = IF e \in Routes THEN "route" ELSE "call",
                                            !.ep = e, !.known = degraded[e] # None]]
  /\ UNCHANGED <<config, site, caches, health, history>>

\* The requests inside the route's flight; at most one of them leads it.
Leads(q, e) == req[q].ep = e /\ e \in Routes /\ req[q].pc \notin {"idle", "route", "joined"}

\* Mutant: without the route's singleflight.
JoinNobody(r) ==
  /\ At(r, "route")
  /\ Goto(r, "fetch")
  /\ UNCHANGED <<config, site, caches, health, history>>

JoinRoute(r) ==
  /\ At(r, "route")
  /\ Goto(r, IF \E q \in Requests : Leads(q, req[r].ep) THEN "joined" ELSE "fetch")
  /\ UNCHANGED <<config, site, caches, health, history>>

\* Mutant: the requests that joined start anew.
DeliveredAgain(r, res) ==
  [q \in Requests |->
    IF q = r THEN Answered(q, res)
    ELSE IF At(q, "joined") /\ req[q].ep = req[r].ep THEN [req[q] EXCEPT !.pc = "route"]
    ELSE req[q]]

\* The flight r leads ends with res, for those that joined it too.
Delivered(r, res) ==
  [q \in Requests |->
    IF q = r \/ (At(q, "joined") /\ req[q].ep = req[r].ep)
    THEN Answered(q, res) ELSE req[q]]

Fetch(r) ==
  /\ At(r, "fetch")
  /\ req' = IF Cached(req[r].ep) # None THEN Delivered(r, Cached(req[r].ep))
            ELSE [req EXCEPT ![r].pc = "call"]
  /\ UNCHANGED <<config, site, caches, health, history>>
-----------------------------------------------------------------------------
(***************************************************************************)
(* safePWCall.                                                             *)
(***************************************************************************)
InFlight(e) == \E q \in Requests : At(q, "backend") /\ req[q].ep = e

\* safePWCall returns res: to a generator of a route, or for the request to be answered.
Returned(r, res) ==
  req' = [req EXCEPT ![r] =
    IF req[r].ep \in Routes THEN Moved(r, "got", res) ELSE Answered(r, res)]

\* While degraded a good value is served at once, and nobody asks the backend.
FailFast(r) ==
  LET v == degraded[req[r].ep] IN
  /\ At(r, "call")
  /\ config.failFast /\ isDegraded /\ v # None
  /\ Returned(r, v)
  /\ UNCHANGED <<config, site, caches, health, history>>

Enter(r) ==
  /\ At(r, "call")
  /\ ~(config.failFast /\ isDegraded /\ degraded[req[r].ep] # None)
  /\ Goto(r, IF InFlight(req[r].ep) THEN "waiting" ELSE "backend")
  /\ UNCHANGED <<config, site, caches, health, history>>

\* Those that have the outcome of an earlier call in hand are overtaken.
CallEnds(r, pc, res) ==
  req' = [q \in Requests |->
    IF q = r \/ (At(q, "waiting") /\ req[q].ep = req[r].ep)
    THEN Moved(q, pc, res)
    ELSE IF req[q].pc \in {"good", "bad"} THEN [req[q] EXCEPT !.overtaken = TRUE]
    ELSE req[q]]

CallSucceeds(r) ==
  /\ At(r, "backend")
  /\ CallEnds(r, "good", site)
  /\ run' = 0
  /\ UNCHANGED <<config, site, caches, health, stored, late>>

\* An error, no answer, or the context of the request that leads cancelled.
CallFails(r) ==
  /\ At(r, "backend")
  /\ CallEnds(r, "bad", None)
  /\ run' = IF run < Threshold THEN run + 1 ELSE run
  /\ UNCHANGED <<config, site, caches, health, stored, late>>

\* Mutant: a success leaves the flag to the next Reset.
RecordCountOnly(r) ==
  /\ At(r, "good")
  /\ fails' = 0 /\ UNCHANGED isDegraded
  /\ late' = req[r].overtaken
  /\ IF config.graceful THEN Goto(r, "store") ELSE Returned(r, req[r].res)
  /\ UNCHANGED <<config, site, caches, stored, run>>

\* Each request that shared the call records its outcome, in any order.
RecordSuccess(r) ==
  /\ At(r, "good")
  /\ fails' = 0 /\ isDegraded' = FALSE
  /\ late' = req[r].overtaken
  /\ IF config.graceful THEN Goto(r, "store") ELSE Returned(r, req[r].res)
  /\ UNCHANGED <<config, site, caches, stored, run>>

RecordFailure(r) ==
  /\ At(r, "bad")
  /\ fails' = IF fails < Threshold THEN fails + 1 ELSE fails
  /\ isDegraded' = (isDegraded \/ fails' >= Threshold)
  /\ late' = (late \/ req[r].overtaken)
  /\ Goto(r, "fall")
  /\ UNCHANGED <<config, site, caches, stored, run>>

\* DegradedCache.Set.
KeepGood(r) ==
  /\ At(r, "store")
  /\ degraded' = [degraded EXCEPT ![req[r].ep] = req[r].res]
  /\ Returned(r, req[r].res)
  /\ UNCHANGED <<config, site, perf, health, history>>

Known(e) == IF config.graceful THEN degraded[e] ELSE None

\* Mutant: only once the proxy is degraded.
FallBackWhenDegraded(r) ==
  /\ At(r, "fall")
  /\ Returned(r, IF isDegraded THEN Known(req[r].ep) ELSE None)
  /\ UNCHANGED <<config, site, caches, health, history>>

FallBack(r) ==
  /\ At(r, "fall")
  /\ Returned(r, Known(req[r].ep))
  /\ UNCHANGED <<config, site, caches, health, history>>
-----------------------------------------------------------------------------
\* fetchRoute stores what it was given, a good value from the past included ...
RespondRoute(r) ==
  LET e == req[r].ep IN
  /\ At(r, "got") /\ e \in Routes /\ req[r].res # None
  /\ IF config.cached
     THEN /\ perf' = [perf EXCEPT ![e] = req[r].res]
          /\ stored' = [stored EXCEPT ![e] = IF req[r].res > @ THEN req[r].res ELSE @]
     ELSE UNCHANGED <<perf, stored>>
  /\ req' = Delivered(r, req[r].res)
  /\ UNCHANGED <<config, site, degraded, health, run, late>>

\* ... or, having been given none, looks for one itself.
RespondNothing(r) ==
  /\ At(r, "got") /\ req[r].ep \in Routes /\ req[r].res = None
  /\ req' = Delivered(r, Known(req[r].ep))
  /\ UNCHANGED <<config, site, caches, health, history>>
-----------------------------------------------------------------------------
\* /health/reset: the health and the good values are cleared one after the other; a
\* step of a request in between is taken to have come after both.
Reset ==
  /\ fails' = 0 /\ isDegraded' = FALSE
  /\ degraded' = [e \in Endpoints |-> None]
  /\ run' = 0 /\ late' = FALSE
  /\ req' = [r \in Requests |->
       [req[r] EXCEPT !.known = FALSE, !.overtaken = @ \/ req[r].pc \in {"good", "bad"}]]
  /\ UNCHANGED <<config, site, perf, stored>>

\* CacheExpire seconds have passed.
PerfExpires(e) ==
  /\ perf[e] # None
  /\ perf' = [perf EXCEPT ![e] = None]
  /\ UNCHANGED <<config, site, degraded, health, req, history>>

SiteChanges ==
  /\ site < MaxVersion
  /\ site' = site + 1
  /\ UNCHANGED <<config, caches, health, req, history>>

Step(r) ==
  \/ JoinRoute(r) \/ Fetch(r) \/ FailFast(r) \/ Enter(r)
  \/ CallSucceeds(r) \/ CallFails(r) \/ RecordSuccess(r) \/ RecordFailure(r)
  \/ KeepGood(r) \/ FallBack(r)
  \/ RespondRoute(r) \/ RespondNothing(r)

Next ==
  \/ \E r \in Requests : Step(r) \/ \E e \in Endpoints : Begin(r, e)
  \/ Reset \/ SiteChanges \/ \E e \in Routes : PerfExpires(e)

Spec == Init /\ [][Next]_vars

\* A goroutine runs on, and the backend's timeout ends every call.
FairSpec == Spec /\ \A r \in Requests : WF_vars(Step(r))
-----------------------------------------------------------------------------
TypeOK ==
  /\ config \in Configs
  /\ site \in Versions
  /\ perf \in [Routes -> Value]
  /\ degraded \in [Endpoints -> Value]
  /\ fails \in 0..Threshold /\ isDegraded \in BOOLEAN
  /\ req \in [Requests -> Req]
  /\ stored \in [Routes -> Versions]
  /\ run \in 0..Threshold /\ late \in BOOLEAN

Quiet == \A r \in Requests : At(r, "idle")

(***************************************************************************)
(* What the health says is what the calls came to, although everyone that  *)
(* shared a call records it, in any order: with no request under way the   *)
(* proxy is degraded only if the last call failed, and it is after         *)
(* Threshold failed calls in a row, unless an outcome was recorded after a *)
(* later call had ended.                                                   *)
(***************************************************************************)
HealthFollowsCalls ==
  /\ TypeOK
  /\ Quiet /\ ~late /\ isDegraded => run > 0
  /\ Quiet /\ ~late /\ run >= Threshold => isDegraded

(***************************************************************************)
(* With graceful degradation a request is answered with a value if there   *)
(* was a good one when it arrived, whichever flight it joined and whatever *)
(* became of the call, unless somebody has reset the proxy since.          *)
(***************************************************************************)
KnownIsServed ==
  \A r \in Requests : At(r, "idle") => ~req[r].known

(***************************************************************************)
(* The performance cache of a route does not go back in time, though many  *)
(* requests miss it at once and it is also given what a failed call falls  *)
(* back to.                                                                *)
(***************************************************************************)
CacheGoesForward ==
  [][\A e \in Routes : perf'[e] \notin {perf[e], None} => perf'[e] >= stored[e]]_vars

(***************************************************************************)
(* Every request is answered, those that wait for another's call included, *)
(* be it in the route's flight or in the backend's.                        *)
(***************************************************************************)
RequestsReturn == \A r \in Requests : []<>At(r, "idle")
-----------------------------------------------------------------------------
(***************************************************************************)
(* The inductive invariant behind the properties.  A request has the       *)
(* outcome of a call in hand at "good" and "bad".                          *)
(***************************************************************************)
Good(r) == At(r, "good") /\ ~req[r].overtaken
Bad(r) == At(r, "bad") /\ ~req[r].overtaken
OldBad(r) == At(r, "bad") /\ req[r].overtaken

\* The outcome of the last call is in the hands of those that will record it.
OutcomesFit ==
  /\ \A r \in Requests : Good(r) => run = 0
  /\ \A r \in Requests : Bad(r) => run > 0

\* The flag that is set since a call that did not fail is about to be cleared ...
FlagIsCleared == ~late /\ run = 0 /\ isDegraded => \E r \in Requests : Good(r)

\* ... and the failures not counted yet are about to be, or come late.
FailuresAreCounted ==
  /\ fails >= Threshold => isDegraded
  /\ ~late => \/ isDegraded \/ run <= fails
              \/ \E r \in Requests : OldBad(r)
              \/ run <= fails + 1 /\ \E r \in Requests : Bad(r)

\* A good value is kept only with graceful degradation, none is newer than the site's,
\* and none that a request may fall back to is older than what the cache has held.
ValuesFit ==
  /\ \A e \in Endpoints : degraded[e] # None => config.graceful /\ degraded[e] <= site
  /\ \A e \in Routes : /\ stored[e] <= site
                       /\ degraded[e] # None => degraded[e] >= stored[e]

\* What is true of a request's record q: what it knew is kept until Reset, and what it
\* has got for a route is not older than what the cache has held, nor newer than what
\* the next request may fall back to.
Fits(q) ==
  /\ q.known => q.pc # "idle" /\ degraded[q.ep] # None
  /\ q.pc \in {"good", "store"} => q.res # None
  /\ q.pc = "store" => config.graceful
  /\ q.res # None => q.res <= site
  /\ q.ep \in Routes /\ q.pc \in {"good", "store", "got"} /\ q.res # None =>
       /\ q.res >= stored[q.ep]
       /\ q.pc = "got" /\ degraded[q.ep] # None => degraded[q.ep] >= q.res

OneLeads ==
  \A q, r \in Requests : \A e \in Routes : Leads(q, e) /\ Leads(r, e) => q = r

IInv ==
  /\ TypeOK /\ OutcomesFit /\ FlagIsCleared /\ FailuresAreCounted
  /\ ValuesFit /\ OneLeads /\ \A r \in Requests : Fits(req[r])
=============================================================================
