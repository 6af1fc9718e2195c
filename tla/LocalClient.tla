---------------------------- MODULE LocalClient ----------------------------
(***************************************************************************)
(* The LAN client of the gateway, powerwall/local/local.go, together with  *)
(* the response cache it reads through, pkgs/cache/cache.go.               *)
(*                                                                         *)
(* Callers run Client.Poll and Client.Post concurrently.  A call is cut    *)
(* where another caller can get in between: the cache lookup, the checks   *)
(* made just before the request leaves, the gateway serving the request,   *)
(* and the handling of the answer are steps of their own.  loginLocked and *)
(* Close run under Client.mu from beginning to end and are one step each.  *)
(*                                                                         *)
(* Payloads are abstracted to versions: ver[a] counts the writes the       *)
(* gateway has applied to endpoint a, and an answer carries the version it *)
(* was computed from.  The gateway itself is external.                     *)
(***************************************************************************)
EXTENDS Naturals

CONSTANTS
  Callers,    \* goroutines that use the client
  Apis,       \* the gateway's endpoints
  Vitals,     \* "/api/devices/vitals", an endpoint that is always raw
  Requests,   \* what callers may ask for
  Sessions,   \* credentials the gateway can hand out
  NoSession,  \* no credential
  MaxWrites   \* bound on the writes applied to one endpoint

Reps == {"raw", "parsed"}

Request == [op : {"poll", "post"}, api : Apis, raw : BOOLEAN, force : BOOLEAN]

ASSUME LocalClientAssumption ==
  /\ Vitals \in Apis
  /\ Requests \subseteq Request
  /\ NoSession \notin Sessions
  /\ MaxWrites \in Nat

VARIABLES
  cache,      \* [Keys -> Entry]: ResponseCache.cache
  cooldown,   \* ResponseCache.InCooldown
  vitalsAPI,  \* Client.vitalsAPI
  auth,       \* Client.authToken / authCookies
  closed,     \* Close has run
  live,       \* gateway: the credentials it accepts
  ver,        \* gateway: writes applied per endpoint
  lostWrite,  \* history: a write of the endpoint was applied, its answer lost
  call        \* [Callers -> Call]: the call each caller is running

vars == <<cache, cooldown, vitalsAPI, auth, closed, live, ver, lostWrite, call>>

clientState == <<cooldown, vitalsAPI, auth, closed>>
gatewayState == <<live, ver>>
-----------------------------------------------------------------------------
(***************************************************************************)
(* The response cache.  A key is an endpoint in one of its two keyspaces   *)
(* (RawKey(api) and the bare api); an entry is absent, negative or a value *)
(* with its representation, its version, and whether an invalidation of    *)
(* the endpoint happened between the answer and the store (history).       *)
(***************************************************************************)
Keys == Apis \X Reps

Entry == [kind : {"absent", "negative", "value"}, rep : Reps, ver : Nat,
          overtaken : BOOLEAN]

Absent == [kind |-> "absent", rep |-> "raw", ver |-> 0, overtaken |-> FALSE]
Negative == [Absent EXCEPT !.kind = "negative"]

Rep(raw) == IF raw THEN "raw" ELSE "parsed"

\* Mutant: only the bare key is deleted.
BareKeyOnly(api) == {<<api, "parsed">>}

\* ResponseCache.Invalidate: both keyspaces of the endpoint.
InvalidatedKeys(api) == {api} \X Reps

\* Client.setEndpointNegative: a negative result holds for both keyspaces.
NegativeKeys(api) == {api} \X Reps

Put(keys, entry) == [k \in Keys |-> IF k \in keys THEN entry ELSE cache[k]]
-----------------------------------------------------------------------------
(***************************************************************************)
(* Calls.                                                                  *)
(*   want, raw     the representation asked for, and the one used          *)
(*   recursive     this is the one retry after a new login                 *)
(*   cred          the credential put on the request                       *)
(*   status, got   the gateway's answer; rep, got: what Poll returns       *)
(*   out           the error, or "value", the call ends with               *)
(*   since         history: ver[api] when a forced call began              *)
(*   applied       history: how often the gateway applied the call's write *)
(*   overtaken     history: an Invalidate ran since the answer was computed*)
(***************************************************************************)
Steps == {"idle", "lookup", "guard", "sent", "answered", "relogin",
          "invalidate", "done"}
Statuses == {"none", "ok", "denied", "notfound", "toomany", "unavailable",
             "error", "lost"}
Outs == {"none", "value", "ErrNotFound", "ErrRateLimited", "ErrLogin",
         "ErrUnexpectedStatus", "ErrNet"}

Call == [pc : Steps, op : {"none", "poll", "post"}, api : Apis,
         want : BOOLEAN, raw : BOOLEAN, force : BOOLEAN, recursive : BOOLEAN,
         cred : Sessions \cup {NoSession}, status : Statuses, rep : Reps,
         got : Nat, out : Outs, since : Nat, applied : Nat,
         overtaken : BOOLEAN]

Idle == [pc |-> "idle", op |-> "none", api |-> Vitals, want |-> FALSE,
         raw |-> FALSE, force |-> FALSE, recursive |-> FALSE,
         cred |-> NoSession, status |-> "none", rep |-> "raw", got |-> 0,
         out |-> "none", since |-> 0, applied |-> 0, overtaken |-> FALSE]

At(c, pc, op) == call[c].pc = pc /\ call[c].op = op

\* Mutant: an error leaves a sentinel instead of an empty payload.
EndedWithSentinel(c, out) ==
  [call[c] EXCEPT !.pc = "done", !.out = out,
                  !.got = IF out = "value" THEN @ ELSE 0 - 1]

\* The call ends with out; of its frame only what the properties tell apart stays.
Ended(c, out) ==
  [call[c] EXCEPT !.pc = "done", !.out = out, !.raw = FALSE, !.recursive = FALSE,
                  !.overtaken = FALSE,
                  !.status = IF call[c].op = "post" THEN @ ELSE "none",
                  !.rep = IF out = "value" THEN @ ELSE "raw",
                  !.got = IF out = "value" THEN @ ELSE 0]

\* Where Poll and Post begin, and begin again.
FirstStep(op) == IF op = "poll" THEN "lookup" ELSE "guard"

\* The record of c's call becomes e.
Becomes(c, e) == call' = [call EXCEPT ![c] = e]

Goto(c, pc) == Becomes(c, [call[c] EXCEPT !.pc = pc])

Finish(c, out) == Becomes(c, Ended(c, out))

\* Mutant: the vitals are not forced into the raw keyspace.
RawAsAsked(api, raw) == raw

\* Poll decides on the raw keyspace before it computes the cache key.
EffectiveRaw(api, raw) == raw \/ api = Vitals

(***************************************************************************)
(* applyAuth reads the credential without Client.mu, so a request built    *)
(* while another goroutine is in loginLocked may carry a torn value; such  *)
(* a value is no session, which NoSession stands for.                      *)
(***************************************************************************)
ReadAuth(c) ==
  {auth} \cup (IF \E d \in Callers \ {c} : call[d].pc = "relogin"
               THEN {NoSession} ELSE {})
-----------------------------------------------------------------------------
(***************************************************************************)
(* Initially Authenticate has returned nil: either it logged in, or        *)
(* loadAuthCache found a credential on disk, which nothing has verified.   *)
(***************************************************************************)
Init ==
  /\ cache = [k \in Keys |-> Absent]
  /\ cooldown = FALSE
  /\ vitalsAPI = TRUE
  /\ auth \in Sessions
  /\ live \in {{}, {auth}}
  /\ closed = FALSE
  /\ ver = [a \in Apis |-> 0]
  /\ lostWrite = [a \in Apis |-> FALSE]
  /\ call = [c \in Callers |-> Idle]

NewCall(r) ==
  [Idle EXCEPT !.pc = FirstStep(r.op), !.op = r.op, !.api = r.api,
               !.want = r.raw, !.raw = EffectiveRaw(r.api, r.raw),
               !.force = r.force, !.since = IF r.force THEN ver[r.api] ELSE 0]

\* A caller enters Poll or Post.  Nothing calls a client that was closed.
Begin(c) ==
  /\ call[c].pc = "idle" /\ ~closed
  /\ \E r \in Requests : Becomes(c, NewCall(r))
  /\ UNCHANGED <<cache, lostWrite, clientState, gatewayState>>

\* Poll's cache lookup.
Lookup(c) ==
  LET entry == cache[<<call[c].api, Rep(call[c].raw)>>]
      hit   == ~call[c].force /\ entry.kind # "absent"
  IN
  /\ At(c, "lookup", "poll")
  /\ \/ /\ hit /\ entry.kind = "value"
        /\ Becomes(c, [Ended(c, "value") EXCEPT !.rep = entry.rep, !.got = entry.ver])
     \/ /\ hit /\ entry.kind = "negative"
        /\ Finish(c, "ErrNotFound")
     \/ ~hit /\ Goto(c, "guard")
  /\ UNCHANGED <<cache, lostWrite, clientState, gatewayState>>

\* The request leaves with the credential of this moment.
SendRequest(c) ==
  \E s \in ReadAuth(c) :
    Becomes(c, [call[c] EXCEPT !.pc = "sent", !.cred = s])

\* Poll's checks before the request leaves.
PollGuard(c) ==
  /\ At(c, "guard", "poll")
  /\ \/ cooldown /\ Finish(c, "ErrRateLimited")
     \/ /\ ~cooldown /\ call[c].api = Vitals /\ ~vitalsAPI
        /\ Finish(c, "ErrNotFound")
     \/ /\ ~cooldown /\ (call[c].api = Vitals => vitalsAPI)
        /\ SendRequest(c)
  /\ UNCHANGED <<cache, lostWrite, clientState, gatewayState>>

\* Post looks neither at the cooldown nor at the vitals flag.
PostGuard(c) ==
  /\ At(c, "guard", "post")
  /\ SendRequest(c)
  /\ UNCHANGED <<cache, lostWrite, clientState, gatewayState>>
-----------------------------------------------------------------------------
(***************************************************************************)
(* The gateway serves a request, or the network loses the request or its   *)
(* answer.  A dead credential is answered 401/403.                         *)
(***************************************************************************)
Answer(c, status) ==
  Becomes(c, [call[c] EXCEPT !.pc = "answered", !.status = status,
                             !.cred = NoSession, !.rep = Rep(call[c].raw),
                             !.got = IF At(c, "sent", "poll") /\ status = "ok"
                                     THEN ver[call[c].api] ELSE 0])

\* Post tells only a denial from the other statuses, which "error" stands for.
Unapplied(c) ==
  {"lost"} \cup (IF call[c].cred \notin live THEN {"denied"}
                ELSE IF call[c].op = "post" THEN {"error"}
                ELSE {"notfound", "toomany", "unavailable", "error"})

ServeUnapplied(c) ==
  /\ call[c].pc = "sent"
  /\ \E status \in Unapplied(c) :
       Answer(c, status)
  /\ UNCHANGED <<cache, lostWrite, clientState, gatewayState>>

ServeRead(c) ==
  /\ At(c, "sent", "poll") /\ call[c].cred \in live
  /\ Answer(c, "ok")
  /\ UNCHANGED <<cache, lostWrite, clientState, gatewayState>>

ServeWrite(c) ==
  LET a == call[c].api IN
  /\ At(c, "sent", "post") /\ call[c].cred \in live /\ ver[a] < MaxWrites
  /\ ver' = [ver EXCEPT ![a] = @ + 1]
  /\ \E status \in {"ok", "lost"} :
       /\ Becomes(c, [call[c] EXCEPT !.pc = "answered", !.status = status,
                                     !.cred = NoSession, !.applied = @ + 1])
       /\ lostWrite' = [lostWrite EXCEPT ![a] = @ \/ status = "lost"]
  /\ UNCHANGED <<cache, live, clientState>>

\* The gateway drops a credential.
SessionExpires(s) ==
  /\ s \in live
  /\ live' = live \ {s}
  /\ UNCHANGED <<cache, lostWrite, clientState, ver, call>>
-----------------------------------------------------------------------------
(***************************************************************************)
(* Client.handleHTTPStatus, for the Poll of caller c.                      *)
(***************************************************************************)
PollOk(c) ==
  LET k == <<call[c].api, Rep(call[c].raw)>>
      entry == [kind |-> "value", rep |-> call[c].rep, ver |-> call[c].got,
                overtaken |-> call[c].overtaken]
  IN
  /\ At(c, "answered", "poll") /\ call[c].status = "ok"
  /\ cache' = Put({k}, entry)
  /\ Finish(c, "value")
  /\ UNCHANGED <<lostWrite, clientState, gatewayState>>

PollNotFound(c) ==
  /\ At(c, "answered", "poll") /\ call[c].status = "notfound"
  /\ vitalsAPI' = (vitalsAPI /\ call[c].api # Vitals)
  /\ cache' = Put(NegativeKeys(call[c].api), Negative)
  /\ Finish(c, "ErrNotFound")
  /\ UNCHANGED <<cooldown, auth, closed, lostWrite, gatewayState>>

PollRateLimited(c) ==
  /\ At(c, "answered", "poll") /\ call[c].status \in {"toomany", "unavailable"}
  /\ cooldown' = TRUE
  /\ cache' = IF call[c].status = "unavailable"
              THEN Put(NegativeKeys(call[c].api), Negative) ELSE cache
  /\ Finish(c, "ErrRateLimited")
  /\ UNCHANGED <<vitalsAPI, auth, closed, lostWrite, gatewayState>>

PollFailed(c) ==
  /\ At(c, "answered", "poll") /\ call[c].status \in {"error", "lost"}
  /\ Finish(c, IF call[c].status = "lost" THEN "ErrNet" ELSE "ErrUnexpectedStatus")
  /\ UNCHANGED <<cache, lostWrite, clientState, gatewayState>>

PollDenied(c) ==
  /\ At(c, "answered", "poll") /\ call[c].status = "denied"
  /\ \/ /\ ~call[c].recursive
        /\ Goto(c, "relogin")
        /\ UNCHANGED cache
     \/ /\ call[c].recursive
        /\ cache' = Put(NegativeKeys(call[c].api), Negative)
        /\ Finish(c, "ErrLogin")
  /\ UNCHANGED <<lostWrite, clientState, gatewayState>>

\* Mutant: a Post whose answer was lost is sent again.
PostAnsweredRetriesLost(c) ==
  /\ At(c, "answered", "post")
  /\ \/ /\ call[c].status \in {"denied", "lost"} /\ ~call[c].recursive
        /\ Goto(c, "relogin")
     \/ /\ call[c].status \in {"denied", "lost"} => call[c].recursive
        /\ Goto(c, "invalidate")
  /\ UNCHANGED <<cache, lostWrite, clientState, gatewayState>>

(***************************************************************************)
(* Client.Post, once the answer is there: the first denial leads to a new  *)
(* login, a lost answer ends the call, and everything else - whatever the  *)
(* status - goes on to the invalidation.                                   *)
(***************************************************************************)
PostAnswered(c) ==
  /\ At(c, "answered", "post")
  /\ \/ /\ call[c].status = "lost"
        /\ Finish(c, "ErrNet")
     \/ /\ call[c].status = "denied" /\ ~call[c].recursive
        /\ Goto(c, "relogin")
     \/ /\ call[c].status # "lost"
        /\ call[c].status = "denied" => call[c].recursive
        /\ Goto(c, "invalidate")
  /\ UNCHANGED <<cache, lostWrite, clientState, gatewayState>>

PostInvalidate(c) ==
  LET a == call[c].api IN
  /\ At(c, "invalidate", "post")
  /\ cache' = Put(InvalidatedKeys(a), Absent)
  /\ call' = [d \in Callers |->
       CASE d = c -> Ended(c, "value")
         [] At(d, "answered", "poll") /\ call[d].api = a /\ call[d].status = "ok" ->
              [call[d] EXCEPT !.overtaken = TRUE]
         [] OTHER -> call[d]]
  /\ lostWrite' = [lostWrite EXCEPT ![a] = FALSE]
  /\ UNCHANGED <<clientState, gatewayState>>
-----------------------------------------------------------------------------
(***************************************************************************)
(* loginLocked, and the one retry.  Each of several callers that were      *)
(* denied logs in for itself.                                              *)
(***************************************************************************)
\* Mutants: the retry forgets that the read was forced, or that it is the retry.
RetryUnforced(c) ==
  [call[c] EXCEPT !.recursive = TRUE, !.status = "none", !.force = FALSE,
                  !.pc = FirstStep(call[c].op)]
RetryForever(c) ==
  [call[c] EXCEPT !.status = "none",
                  !.pc = FirstStep(call[c].op)]

Retry(c) == [call[c] EXCEPT !.recursive = TRUE, !.status = "none",
                            !.pc = FirstStep(call[c].op)]

LoginOk(c) ==
  /\ call[c].pc = "relogin"
  /\ \E s \in Sessions : live' = live \cup {s} /\ auth' = s
  /\ Becomes(c, Retry(c))
  /\ UNCHANGED <<cache, cooldown, vitalsAPI, closed, lostWrite, ver>>

LoginFails(c) ==
  /\ call[c].pc = "relogin"
  /\ \/ /\ call[c].op = "poll"
        /\ cache' = Put(NegativeKeys(call[c].api), Negative)
        /\ Finish(c, "ErrLogin")
     \/ /\ call[c].op = "post"
        /\ Goto(c, "invalidate")
        /\ UNCHANGED cache
  /\ UNCHANGED <<lostWrite, clientState, gatewayState>>

Return(c) ==
  /\ call[c].pc = "done"
  /\ Becomes(c, Idle)
  /\ UNCHANGED <<cache, lostWrite, clientState, gatewayState>>

(***************************************************************************)
(* Client.Close: log out (the request may get lost), forget the            *)
(* credential.  Powerwall.Close holds the write lock and Powerwall.Post    *)
(* the read lock across the call, so no Post is under way; a Poll may be.  *)
(***************************************************************************)
Close ==
  /\ ~closed /\ \A c \in Callers : call[c].op # "post"
  /\ live' \in {live, live \ {auth}}
  /\ auth' = NoSession
  /\ closed' = TRUE
  /\ UNCHANGED <<cache, cooldown, vitalsAPI, ver, lostWrite, call>>

\* Time passes: a cache entry or the cooldown expires.
EntryExpires(k) ==
  /\ cache[k] # Absent
  /\ cache' = Put({k}, Absent)
  /\ UNCHANGED <<lostWrite, clientState, gatewayState, call>>

CooldownEnds ==
  /\ cooldown
  /\ cooldown' = FALSE
  /\ UNCHANGED <<cache, vitalsAPI, auth, closed, lostWrite, gatewayState, call>>
-----------------------------------------------------------------------------
CallStep(c) ==
  \/ Lookup(c) \/ PollGuard(c) \/ PostGuard(c)
  \/ ServeUnapplied(c) \/ ServeRead(c) \/ ServeWrite(c)
  \/ PollOk(c) \/ PollNotFound(c) \/ PollRateLimited(c) \/ PollFailed(c)
  \/ PollDenied(c) \/ PostAnswered(c) \/ PostInvalidate(c)
  \/ LoginOk(c) \/ LoginFails(c) \/ Return(c)

Next ==
  \/ \E c \in Callers : Begin(c) \/ CallStep(c)
  \/ \E s \in Sessions : SessionExpires(s)
  \/ \E k \in Keys : EntryExpires(k)
  \/ CooldownEnds
  \/ Close

Spec == Init /\ [][Next]_vars

\* A caller inside the client keeps running: every request has a timeout.
Fairness == \A c \in Callers : WF_vars(CallStep(c))

FairSpec == Spec /\ Fairness
-----------------------------------------------------------------------------
TypeOK ==
  /\ cache \in [Keys -> Entry]
  /\ cooldown \in BOOLEAN
  /\ vitalsAPI \in BOOLEAN
  /\ auth \in Sessions \cup {NoSession}
  /\ closed \in BOOLEAN
  /\ live \subseteq Sessions
  /\ ver \in [Apis -> Nat]
  /\ lostWrite \in [Apis -> BOOLEAN]
  /\ call \in [Callers -> Call]

\* A write of endpoint a was applied and its Invalidate is still to come.
PendingWrite(e, a) ==
  /\ e.op = "post" /\ e.api = a
  /\ e.pc \in {"answered", "invalidate"} /\ e.status = "ok"

WritePending(a) == \E c \in Callers : PendingWrite(call[c], a)

(***************************************************************************)
(* Cache coherence as far as the code gives it: a cached value older than  *)
(* the gateway's state is there only because a write is about to           *)
(* invalidate it, because the answer to a write was lost, or because its   *)
(* read was already answered when the endpoint was invalidated.  In every  *)
(* other case Invalidate (cache.go:130-139) leaves no stale representation *)
(* behind, in neither keyspace.                                            *)
(***************************************************************************)
Excused(a, overtaken) == WritePending(a) \/ lostWrite[a] \/ overtaken

StaleHasACause ==
  \A a \in Apis, r \in Reps :
    /\ cache[<<a, r>>].kind = "value"
    /\ cache[<<a, r>>].ver < ver[a]
    => Excused(a, cache[<<a, r>>].overtaken)

(***************************************************************************)
(* A forced Poll never returns a state older than the one the gateway had  *)
(* when the call began, not even when it has to log in anew on the way     *)
(* (SetOperation's back-fill relies on that, operations.go:148-156).       *)
(***************************************************************************)
ForcedPollIsFresh ==
  \A c \in Callers :
    At(c, "done", "poll") /\ call[c].out = "value" => call[c].got >= call[c].since

(***************************************************************************)
(* Whoever asks for raw bytes gets raw bytes and whoever asks for a parsed *)
(* value gets one, through cache and retries; the vitals are always raw    *)
(* (the comment of Poll, local.go:386-398).                                *)
(***************************************************************************)
RepresentationMatches ==
  \A c \in Callers :
    At(c, "done", "poll") /\ call[c].out = "value"
    => call[c].rep = Rep(call[c].want \/ call[c].api = Vitals)

(***************************************************************************)
(* What Post tells its caller, after one or two attempts, and what became  *)
(* of the write: it is applied at most once; an error other than a lost    *)
(* answer means that it was not applied, and a body that it was, unless    *)
(* the gateway refused the request (with another status than 401 or 403,   *)
(* or with one of those again or no new session), whose answer Post        *)
(* returns as well (local.go:519).                                         *)
(***************************************************************************)
Told(e) ==
  /\ e.out = "value" => e.applied > 0 \/ e.status \in {"error", "denied"}
  /\ e.applied > 0 => e.out = "value" \/ e.status = "lost"

PostTellsWhatItDid ==
  \A c \in Callers : call[c].applied <= 1 /\ (At(c, "done", "post") => Told(call[c]))

(***************************************************************************)
(* Every call returns, even if the gateway denies each request and grants  *)
(* each login: a call logs in at most once.                                *)
(***************************************************************************)
CallsReturn == \A c \in Callers : []<>(call[c].pc = "idle")
-----------------------------------------------------------------------------
(***************************************************************************)
(* The inductive invariant behind the safety properties.  An answer        *)
(* on its way to the cache needs the same excuse as a cached value; what   *)
(* a call returns was settled when its record took its present form.       *)
(***************************************************************************)
ReadAnswered(e) == e.op = "poll" /\ e.pc = "answered" /\ e.status = "ok"
ReadReturned(e) == e.op = "poll" /\ e.pc = "done" /\ e.out = "value"

AnswerHasACause ==
  \A c \in Callers :
    ReadAnswered(call[c]) /\ call[c].got < ver[call[c].api]
    => Excused(call[c].api, call[c].overtaken)

CacheKeepsRep ==
  \A a \in Apis, r \in Reps :
    cache[<<a, r>>].kind = "value" => cache[<<a, r>>].rep = r

FreshCall(e) ==
  e.op = "poll" =>
    /\ ~e.force => e.since = 0
    /\ e.since <= ver[e.api]
    /\ ReadAnswered(e) \/ ReadReturned(e) => e.got >= e.since

RepCall(e) ==
  e.op = "poll" =>
    /\ e.pc \notin {"idle", "done"} => e.raw = EffectiveRaw(e.api, e.want)
    /\ ReadAnswered(e) => e.rep = Rep(e.raw)
    /\ ReadReturned(e) => e.rep = Rep(e.want \/ e.api = Vitals)

OnceCall(e) ==
  /\ e.applied <= 1
  /\ \/ e.op = "poll" \/ e.pc \in {"guard", "sent", "relogin"}
     \/ e.pc = "answered" /\ e.status \notin {"ok", "lost"}
     => e.applied = 0

CallInv == \A c \in Callers : FreshCall(call[c]) /\ RepCall(call[c]) /\ OnceCall(call[c])

IInv == StaleHasACause /\ AnswerHasACause /\ CacheKeepsRep /\ CallInv

(***************************************************************************)
(* What a Post knows on its way, inductive beside IInv.                    *)
(***************************************************************************)
PostCall(e) ==
  e.op = "post" =>
    /\ e.pc = "answered" => e.status \in {"ok", "denied", "error", "lost"}
    /\ e.pc = "relogin" => e.status = "denied"
    /\ e.pc = "invalidate" => e.status \in {"ok", "denied", "error"}
    /\ e.pc \in {"answered", "invalidate"} /\ e.status = "ok" => e.applied > 0
    /\ e.pc = "done" => Told(e)

PostInv == \A c \in Callers : PostCall(call[c])
=============================================================================
