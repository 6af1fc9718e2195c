-------------------------- MODULE ProxyServingProofs --------------------------
(***************************************************************************)
(* Theorems about ProxyServing, for every set of requests, endpoints and   *)
(* routes, every threshold and every number of changes of the site.        *)
(***************************************************************************)
EXTENDS ProxyServing, TLAPS

USE ProxyServingAssumption

(***************************************************************************)
(* The updates of a request's record.                                      *)
(***************************************************************************)
Is(e, pc, ep, res, known, overtaken) ==
  e.pc = pc /\ e.ep = ep /\ e.res = res /\ e.known = known /\ e.overtaken = overtaken

LEMMA ReqFields ==
  ASSUME NEW e \in Req
  PROVE  /\ e.pc \in Steps /\ e.ep \in Endpoints /\ e.res \in Value
         /\ e.known \in BOOLEAN /\ e.overtaken \in BOOLEAN
BY DEF Req

LEMMA IdleFields ==
  /\ Idle \in Req /\ Idle.ep \in Endpoints
  /\ Is(Idle, "idle", Idle.ep, None, FALSE, FALSE)
<1> DEFINE ep == CHOOSE e \in Endpoints : TRUE
<1>1. ep \in Endpoints
  OBVIOUS
<1>2. Idle = [pc |-> "idle", ep |-> ep, res |-> None, known |-> FALSE, overtaken |-> FALSE]
  BY DEF Idle
<1> HIDE DEF ep
<1> QED BY <1>1, <1>2 DEF Req, Steps, Value, Is

\* The record of one request becomes e.
Becomes(r, e) == req' = [req EXCEPT ![r] = e]

LEMMA GotoFields ==
  ASSUME req \in [Requests -> Req], NEW r \in Requests, NEW pc \in Steps, Goto(r, pc)
  PROVE  \E e \in Req : /\ Becomes(r, e)
                        /\ Is(e, pc, req[r].ep, req[r].res, req[r].known, FALSE)
<1> DEFINE e == [req[r] EXCEPT !.pc = pc, !.overtaken = FALSE]
<1>1. Becomes(r, e)
  BY DEF Goto, Becomes, Req
<1>2. e \in Req /\ Is(e, pc, req[r].ep, req[r].res, req[r].known, FALSE)
  BY DEF Req, Is
<1> HIDE DEF e
<1> QED BY <1>1, <1>2

LEMMA CalledFields ==
  ASSUME req \in [Requests -> Req], NEW r \in Requests, req' = [req EXCEPT ![r].pc = "call"]
  PROVE  \E e \in Req : /\ Becomes(r, e)
                        /\ Is(e, "call", req[r].ep, req[r].res, req[r].known, req[r].overtaken)
<1> DEFINE e == [req[r] EXCEPT !.pc = "call"]
<1>1. Becomes(r, e)
  BY DEF Becomes
<1>2. e \in Req /\ Is(e, "call", req[r].ep, req[r].res, req[r].known, req[r].overtaken)
  BY DEF Req, Is, Steps
<1> HIDE DEF e
<1> QED BY <1>1, <1>2

LEMMA MovedFields ==
  ASSUME req \in [Requests -> Req], NEW r \in Requests, NEW pc \in Steps, NEW res \in Value
  PROVE  /\ Moved(r, pc, res) \in Req
         /\ Is(Moved(r, pc, res), pc, req[r].ep, res, req[r].known, FALSE)
BY DEF Req, Is, Moved

LEMMA AnsweredFields ==
  ASSUME req \in [Requests -> Req], NEW r \in Requests, NEW res \in Value
  PROVE  /\ Answered(r, res) \in Req
         /\ Is(Answered(r, res), "idle", Idle.ep, None, req[r].known /\ res = None, FALSE)
<1> DEFINE b == (req[r].known /\ res = None)
<1>1. b \in BOOLEAN
  BY ReqFields
<1>2. Answered(r, res) = [Idle EXCEPT !.known = b]
  BY DEF Answered
<1> HIDE DEF b
<1>3. /\ [Idle EXCEPT !.known = b] \in Req
      /\ Is([Idle EXCEPT !.known = b], "idle", Idle.ep, None, b, FALSE)
  BY <1>1, IdleFields DEF Is, Req
<1> QED BY <1>2, <1>3 DEF b

LEMMA OvertakenFields ==
  ASSUME NEW q \in Req, NEW known \in BOOLEAN, NEW b \in BOOLEAN
  PROVE  /\ [q EXCEPT !.overtaken = TRUE] \in Req
         /\ Is([q EXCEPT !.overtaken = TRUE], q.pc, q.ep, q.res, q.known, TRUE)
         /\ [q EXCEPT !.known = FALSE, !.overtaken = b] \in Req
         /\ Is([q EXCEPT !.known = FALSE, !.overtaken = b], q.pc, q.ep, q.res, FALSE, b)
BY DEF Req, Is

LEMMA BegunFields ==
  ASSUME NEW pc \in Steps, NEW ep \in Endpoints, NEW b \in BOOLEAN
  PROVE  /\ [Idle EXCEPT !.pc = pc, !.ep = ep, !.known = b] \in Req
         /\ Is([Idle EXCEPT !.pc = pc, !.ep = ep, !.known = b], pc, ep, None, b, FALSE)
BY IdleFields DEF Is, Req

LEMMA ReturnedFields ==
  ASSUME req \in [Requests -> Req], NEW r \in Requests, NEW res \in Value, Returned(r, res)
  PROVE  \E e \in Req :
           /\ Becomes(r, e)
           /\ \/ /\ req[r].ep \in Routes
                 /\ Is(e, "got", req[r].ep, res, req[r].known, FALSE)
              \/ Is(e, "idle", Idle.ep, None, req[r].known /\ res = None, FALSE)
<1>1. CASE req[r].ep \in Routes
  <2>1. Becomes(r, Moved(r, "got", res))
    BY <1>1 DEF Returned, Becomes
  <2> QED BY <1>1, <2>1, MovedFields, "got" \in Steps DEF Steps
<1>2. CASE req[r].ep \notin Routes
  <2>1. Becomes(r, Answered(r, res))
    BY <1>2 DEF Returned, Becomes
  <2> QED BY <2>1, AnsweredFields
<1> QED BY <1>1, <1>2
-----------------------------------------------------------------------------
(***************************************************************************)
(* The invariant in the parts the steps disturb.                           *)
(***************************************************************************)
HealthInv ==
  /\ fails \in 0..Threshold /\ isDegraded \in BOOLEAN
  /\ run \in 0..Threshold /\ late \in BOOLEAN
  /\ OutcomesFit /\ FlagIsCleared /\ FailuresAreCounted

ValuesInv ==
  /\ config \in Configs /\ site \in Versions
  /\ perf \in [Routes -> Value] /\ degraded \in [Endpoints -> Value]
  /\ stored \in [Routes -> Versions]
  /\ ValuesFit

ReqInv ==
  /\ req \in [Requests -> Req]
  /\ OneLeads
  /\ \A r \in Requests : Fits(req[r])

Parts == HealthInv /\ ValuesInv /\ ReqInv

LEMMA InvParts == IInv <=> Parts
BY DEF IInv, TypeOK, Parts, HealthInv, ValuesInv, ReqInv

LEMMA ValuesNat == \A v \in Value : v # None => v \in Nat /\ v \in Versions
BY DEF Value, Versions

\* A request with record e leads the flight of route x.
Leading(e, x) == e.ep = x /\ e.pc \notin {"idle", "route", "joined"}

LEMMA LeadsIsLeading ==
  \A q \in Requests, x \in Routes : Leads(q, x) <=> Leading(req[q], x)
BY DEF Leads, Leading

\* Nothing that a record is measured by has changed.
LEMMA FitsKept ==
  ASSUME NEW e, Fits(e), UNCHANGED <<config, site, stored, degraded>>,
         req' \in [Requests -> Req], NEW r \in Requests, req'[r] = e
  PROVE  Fits(req[r])'
BY DEF Fits

LEMMA OneRequestFits ==
  ASSUME ReqInv, NEW r \in Requests, NEW e \in Req, Becomes(r, e), Fits(e),
         UNCHANGED <<config, site, stored, degraded>>,
         \A x \in Routes : Leading(e, x) => \/ Leading(req[r], x)
                                            \/ \A q \in Requests : ~Leads(q, x)
  PROVE  ReqInv'
<1>1. /\ req' \in [Requests -> Req] /\ req'[r] = e
      /\ \A q \in Requests : q # r => req'[q] = req[q]
  BY DEF ReqInv, Becomes
<1>2. \A q \in Requests : Fits(req[q])'
  <2>1. \A q \in Requests : Fits(req'[q])
    BY <1>1 DEF ReqInv
  <2> QED BY <1>1, <2>1, FitsKept
<1>3. OneLeads'
  <2> SUFFICES ASSUME NEW p \in Requests, NEW q \in Requests, NEW x \in Routes,
                      Leading(req'[p], x), Leading(req'[q], x)
               PROVE  p = q
    BY DEF OneLeads, Leads, Leading
  <2>1. \A a, b \in Requests : Leading(req[a], x) /\ Leading(req[b], x) => a = b
    BY LeadsIsLeading DEF ReqInv, OneLeads
  <2> QED BY <1>1, <2>1, LeadsIsLeading
<1> QED BY <1>1, <1>2, <1>3 DEF ReqInv

\* No request comes by an outcome or records one.
LEMMA SameOutcomes ==
  ASSUME HealthInv, UNCHANGED <<fails, isDegraded, run, late>>,
         \A q \in Requests : /\ Good(q)' <=> Good(q)
                             /\ Bad(q)' <=> Bad(q)
                             /\ OldBad(q)' <=> OldBad(q)
  PROVE  HealthInv'
<1>1. OutcomesFit' /\ FlagIsCleared'
  BY DEF HealthInv, OutcomesFit, FlagIsCleared
<1>2. FailuresAreCounted'
  BY DEF HealthInv, FailuresAreCounted
<1> QED BY <1>1, <1>2 DEF HealthInv

LEMMA OneIsElsewhere ==
  ASSUME HealthInv, UNCHANGED <<fails, isDegraded, run, late>>, ReqInv,
         NEW r \in Requests, NEW e \in Req, Becomes(r, e),
         req[r].pc \notin {"good", "bad"}, e.pc \notin {"good", "bad"}
  PROVE  HealthInv'
<1>1. req'[r] = e /\ \A q \in Requests : q # r => req'[q] = req[q]
  BY DEF ReqInv, Becomes
<1>2. \A q \in Requests : /\ Good(q)' <=> Good(q)
                          /\ Bad(q)' <=> Bad(q)
                          /\ OldBad(q)' <=> OldBad(q)
  BY <1>1 DEF Good, Bad, OldBad, At
<1> QED BY <1>2, SameOutcomes

LEMMA ValuesKept ==
  ValuesInv /\ UNCHANGED <<config, site, perf, degraded, stored>> => ValuesInv'
BY DEF ValuesInv, ValuesFit

\* A step that moves one request, elsewhere than between the outcomes.
LEMMA OneRequest ==
  ASSUME Parts, NEW r \in Requests, NEW e \in Req, Becomes(r, e), Fits(e),
         UNCHANGED <<config, site, caches, health, history>>,
         req[r].pc \notin {"good", "bad"}, e.pc \notin {"good", "bad"},
         \A x \in Routes : Leading(e, x) => \/ Leading(req[r], x)
                                            \/ \A q \in Requests : ~Leads(q, x)
  PROVE  Parts'
<1>1. ReqInv'
  BY OneRequestFits DEF Parts, history, caches
<1>2. HealthInv'
  BY OneIsElsewhere DEF Parts, health, history
<1>3. ValuesInv'
  BY ValuesKept DEF Parts, caches, history
<1> QED BY <1>1, <1>2, <1>3 DEF Parts
-----------------------------------------------------------------------------
(***************************************************************************)
(* The steps that leave the caches and the health alone.                   *)
(***************************************************************************)
LEMMA InvBegin ==
  ASSUME Parts, NEW r \in Requests, NEW x \in Endpoints, Begin(r, x)
  PROVE  Parts'
<1> DEFINE pc == IF x \in Routes THEN "route" ELSE "call"
           b == degraded[x] # None
           e == [Idle EXCEPT !.pc = pc, !.ep = x, !.known = b]
<1>1. pc \in Steps /\ b \in BOOLEAN
  BY DEF Steps
<1>2. e \in Req /\ Is(e, pc, x, None, b, FALSE)
  BY <1>1, BegunFields
<1>3. Becomes(r, e)
  BY DEF Begin, Becomes
<1> HIDE DEF e
<1>4. Fits(e)
  BY <1>2 DEF Fits, Is
<1>5. \A y \in Routes : ~Leading(e, y)
  BY <1>2 DEF Leading, Is
<1> QED BY <1>2, <1>3, <1>4, <1>5, OneRequest DEF Begin, At, Is

\* A request goes on to pc with what it has.
LEMMA GoneOn ==
  ASSUME Parts, NEW r \in Requests, NEW pc \in Steps \ {"idle", "good", "bad", "store", "got"},
         NEW e \in Req, Becomes(r, e), NEW b \in BOOLEAN,
         Is(e, pc, req[r].ep, req[r].res, req[r].known, b),
         req[r].pc \notin {"good", "bad"},
         UNCHANGED <<config, site, caches, health, history>>,
         \A x \in Routes : Leading(e, x) => \/ Leading(req[r], x)
                                            \/ \A q \in Requests : ~Leads(q, x)
  PROVE  Parts'
<1>1. Fits(e)
  BY DEF Fits, Is, Parts, ReqInv
<1>2. e.pc \notin {"good", "bad"}
  BY DEF Is
<1> QED BY <1>1, <1>2, OneRequest

LEMMA InvJoinRoute ==
  ASSUME Parts, NEW r \in Requests, JoinRoute(r)
  PROVE  Parts'
<1> DEFINE pc == IF \E q \in Requests : Leads(q, req[r].ep) THEN "joined" ELSE "fetch"
<1>1. pc \in Steps \ {"idle", "good", "bad", "store", "got"}
  BY DEF Steps
<1>2. Goto(r, pc) /\ UNCHANGED <<config, site, caches, health, history>>
  BY DEF JoinRoute
<1>3. PICK e \in Req : Becomes(r, e) /\ Is(e, pc, req[r].ep, req[r].res, req[r].known, FALSE)
  BY <1>1, <1>2, GotoFields DEF Parts, ReqInv
<1>4. \A x \in Routes : Leading(e, x) => \A q \in Requests : ~Leads(q, x)
  BY <1>3 DEF Leading, Is
<1>5. req[r].pc \notin {"good", "bad"}
  BY DEF JoinRoute, At
<1> HIDE DEF pc
<1> QED BY <1>1, <1>2, <1>3, <1>4, <1>5, GoneOn

LEMMA InvEnter ==
  ASSUME Parts, NEW r \in Requests, Enter(r)
  PROVE  Parts'
<1> DEFINE pc == IF InFlight(req[r].ep) THEN "waiting" ELSE "backend"
<1>1. pc \in Steps \ {"idle", "good", "bad", "store", "got"}
  BY DEF Steps
<1>2. Goto(r, pc) /\ UNCHANGED <<config, site, caches, health, history>>
  BY DEF Enter
<1>3. PICK e \in Req : Becomes(r, e) /\ Is(e, pc, req[r].ep, req[r].res, req[r].known, FALSE)
  BY <1>1, <1>2, GotoFields DEF Parts, ReqInv
<1>4. \A x \in Routes : Leading(e, x) => Leading(req[r], x)
  BY <1>3 DEF Leading, Is, Enter, At
<1>5. req[r].pc \notin {"good", "bad"}
  BY DEF Enter, At
<1> HIDE DEF pc
<1> QED BY <1>1, <1>2, <1>3, <1>4, <1>5, GoneOn

\* What safePWCall may return with res for request r.
Returnable(r, res) ==
  /\ res \in Value
  /\ req[r].known => res # None
  /\ res # None => res <= site
  /\ req[r].ep \in Routes /\ res # None =>
       /\ res >= stored[req[r].ep]
       /\ degraded[req[r].ep] # None => degraded[req[r].ep] >= res

LEMMA ReturnedFits ==
  ASSUME Parts, NEW r \in Requests, NEW res, Returned(r, res), Returnable(r, res),
         req[r].pc \notin {"idle", "route", "joined"}
  PROVE  \E e \in Req : /\ Becomes(r, e) /\ Fits(e) /\ e.pc \notin {"good", "bad"}
                        /\ \A x \in Routes : Leading(e, x) => Leading(req[r], x)
<1>1. req \in [Requests -> Req] /\ Fits(req[r])
  BY DEF Parts, ReqInv
<1>2. PICK e \in Req :
        /\ Becomes(r, e)
        /\ \/ /\ req[r].ep \in Routes
              /\ Is(e, "got", req[r].ep, res, req[r].known, FALSE)
           \/ Is(e, "idle", Idle.ep, None, req[r].known /\ res = None, FALSE)
  BY <1>1, ReturnedFields DEF Returnable
<1>3. CASE Is(e, "got", req[r].ep, res, req[r].known, FALSE) /\ req[r].ep \in Routes
  <2>1. Fits(e)
    BY <1>1, <1>3 DEF Returnable, Is, Fits
  <2>2. \A x \in Routes : Leading(e, x) => Leading(req[r], x)
    BY <1>3 DEF Is, Leading
  <2> QED BY <1>2, <1>3, <2>1, <2>2 DEF Is
<1>4. CASE Is(e, "idle", Idle.ep, None, req[r].known /\ res = None, FALSE)
  <2>1. Fits(e)
    BY <1>4 DEF Returnable, Is, Fits
  <2>2. \A x \in Routes : ~Leading(e, x)
    BY <1>4 DEF Is, Leading
  <2> QED BY <1>2, <1>4, <2>1, <2>2 DEF Is
<1> QED BY <1>2, <1>3, <1>4

LEMMA KeptIsReturnable ==
  ASSUME Parts, NEW r \in Requests, req[r].pc # "idle"
  PROVE  /\ Returnable(r, Known(req[r].ep))
         /\ degraded[req[r].ep] # None => Returnable(r, degraded[req[r].ep])
<1> DEFINE x == req[r].ep
<1>1. x \in Endpoints /\ degraded[x] \in Value /\ None \in Value
  BY ReqFields DEF Parts, ReqInv, ValuesInv, Value
<1>2. req[r].known => degraded[x] # None
  BY DEF Parts, ReqInv, Fits
<1>3. degraded[x] # None => config.graceful /\ degraded[x] <= site
  BY <1>1 DEF Parts, ValuesInv, ValuesFit
<1>4. x \in Routes /\ degraded[x] # None => degraded[x] >= stored[x]
  BY DEF Parts, ValuesInv, ValuesFit
<1>5. degraded[x] # None => degraded[x] >= degraded[x]
  BY <1>1, ValuesNat
<1>6. Known(x) = degraded[x]
  BY <1>3 DEF Known
<1> QED BY <1>1, <1>2, <1>3, <1>4, <1>5, <1>6 DEF Returnable

LEMMA InvFailFast ==
  ASSUME Parts, NEW r \in Requests, FailFast(r)
  PROVE  Parts'
<1>1. req[r].pc = "call" /\ Returnable(r, degraded[req[r].ep])
  BY KeptIsReturnable DEF FailFast, At
<1>2. PICK e \in Req : /\ Becomes(r, e) /\ Fits(e) /\ e.pc \notin {"good", "bad"}
                      /\ \A x \in Routes : Leading(e, x) => Leading(req[r], x)
  BY <1>1, ReturnedFits DEF FailFast
<1> QED BY <1>1, <1>2, OneRequest DEF FailFast

LEMMA InvFallBack ==
  ASSUME Parts, NEW r \in Requests, FallBack(r)
  PROVE  Parts'
<1>1. req[r].pc = "fall" /\ Returnable(r, Known(req[r].ep))
  BY KeptIsReturnable DEF FallBack, At
<1>2. PICK e \in Req : /\ Becomes(r, e) /\ Fits(e) /\ e.pc \notin {"good", "bad"}
                      /\ \A x \in Routes : Leading(e, x) => Leading(req[r], x)
  BY <1>1, ReturnedFits DEF FallBack
<1> QED BY <1>1, <1>2, OneRequest DEF FallBack
-----------------------------------------------------------------------------
(***************************************************************************)
(* A flight ends: its requests are answered.                               *)
(***************************************************************************)
\* Each request stays as it is or is answered, with a value if one was known.
Answers ==
  /\ req' \in [Requests -> Req]
  /\ \A q \in Requests :
       \/ req'[q] = req[q]
       \/ /\ req[q].pc \notin {"good", "bad"}
          /\ Is(req'[q], "idle", Idle.ep, None, FALSE, FALSE)

LEMMA DeliveredAnswers ==
  ASSUME Parts, NEW r \in Requests, NEW res \in Value, req' = Delivered(r, res),
         req[r].pc \notin {"good", "bad"},
         \A q \in Requests : q = r \/ (At(q, "joined") /\ req[q].ep = req[r].ep) =>
                             (req[q].known => res # None)
  PROVE  Answers /\ Is(req'[r], "idle", Idle.ep, None, FALSE, FALSE)
<1>1. req \in [Requests -> Req]
  BY DEF Parts, ReqInv
<1>2. \A q \in Requests : /\ Answered(q, res) \in Req
                          /\ (req[q].known => res # None) =>
                               Is(Answered(q, res), "idle", Idle.ep, None, FALSE, FALSE)
  BY <1>1, AnsweredFields, ReqFields DEF Is
<1>3. req' \in [Requests -> Req]
  BY <1>1, <1>2 DEF Delivered
<1>4. ASSUME NEW q \in Requests PROVE
        \/ req'[q] = req[q]
        \/ /\ req[q].pc \notin {"good", "bad"}
           /\ Is(req'[q], "idle", Idle.ep, None, FALSE, FALSE)
  <2>1. CASE q = r \/ (At(q, "joined") /\ req[q].ep = req[r].ep)
    <3>1. req'[q] = Answered(q, res)
      BY <2>1 DEF Delivered
    <3> QED BY <1>2, <2>1, <3>1 DEF At
  <2>2. CASE ~(q = r \/ (At(q, "joined") /\ req[q].ep = req[r].ep))
    BY <2>2 DEF Delivered
  <2> QED BY <2>1, <2>2
<1>5. req'[r] = Answered(r, res)
  BY DEF Delivered
<1> QED BY <1>2, <1>3, <1>4, <1>5 DEF Answers

LEMMA AnswersHealth ==
  ASSUME Parts, Answers, UNCHANGED <<fails, isDegraded, run, late>>
  PROVE  HealthInv'
<1>1. \A q \in Requests : /\ Good(q)' <=> Good(q)
                          /\ Bad(q)' <=> Bad(q)
                          /\ OldBad(q)' <=> OldBad(q)
  BY DEF Answers, Is, Good, Bad, OldBad, At
<1> QED BY <1>1, SameOutcomes DEF Parts

LEMMA AnswersLead ==
  ASSUME Parts, Answers
  PROVE  OneLeads'
<1>1. \A q \in Requests, x \in Routes : Leads(q, x)' => Leads(q, x)
  BY DEF Answers, Is, Leads
<1> QED BY <1>1 DEF OneLeads, Parts, ReqInv

LEMMA AnswersFit ==
  ASSUME Parts, Answers, UNCHANGED <<config, site, stored, degraded>>
  PROVE  ReqInv'
<1>1. \A q \in Requests : Fits(req'[q])
  <2>1. \A q \in Requests : Is(req'[q], "idle", Idle.ep, None, FALSE, FALSE) => Fits(req'[q])
    BY DEF Is, Fits
  <2> QED BY <2>1 DEF Parts, ReqInv, Answers
<1>2. \A q \in Requests : Fits(req[q])'
  BY <1>1, FitsKept DEF Answers
<1> QED BY <1>2, AnswersLead DEF ReqInv, Answers

\* What the cache of a route holds is a value.
LEMMA InvFetch ==
  ASSUME Parts, NEW r \in Requests, Fetch(r)
  PROVE  Parts'
<1>1. /\ req[r].pc = "fetch" /\ req \in [Requests -> Req]
      /\ UNCHANGED <<config, site, caches, health, history>>
  BY DEF Fetch, At, Parts, ReqInv
<1>2. CASE Cached(req[r].ep) # None /\ req' = Delivered(r, Cached(req[r].ep))
  <2>1. Cached(req[r].ep) \in Value
    BY DEF Cached, Parts, ValuesInv, Value
  <2>2. Answers
    BY <1>1, <1>2, <2>1, DeliveredAnswers
  <2>3. HealthInv' /\ ReqInv'
    BY <1>1, <2>2, AnswersHealth, AnswersFit DEF health, history, caches
  <2> QED BY <1>1, <2>3, ValuesKept DEF Parts, caches, history
<1>3. CASE req' = [req EXCEPT ![r].pc = "call"]
  <2>1. PICK e \in Req :
          /\ Becomes(r, e)
          /\ Is(e, "call", req[r].ep, req[r].res, req[r].known, req[r].overtaken)
    BY <1>1, <1>3, CalledFields
  <2>2. req[r].overtaken \in BOOLEAN
    BY <1>1, ReqFields
  <2>3. \A x \in Routes : Leading(e, x) => Leading(req[r], x)
    BY <1>1, <2>1 DEF Leading, Is
  <2> QED BY <1>1, <2>1, <2>2, <2>3, GoneOn DEF Steps
<1> QED BY <1>2, <1>3 DEF Fetch

LEMMA InvRespondNothing ==
  ASSUME Parts, NEW r \in Requests, RespondNothing(r)
  PROVE  Parts'
<1> DEFINE x == req[r].ep
<1>1. /\ req[r].pc = "got" /\ req \in [Requests -> Req] /\ x \in Endpoints
      /\ UNCHANGED <<config, site, caches, health, history>>
  BY ReqFields DEF RespondNothing, At, Parts, ReqInv
<1>2. Known(x) \in Value
  BY <1>1 DEF Known, Parts, ValuesInv, Value
<1>3. \A q \in Requests : req[q].ep = x /\ req[q].known => Known(x) # None
  BY <1>1 DEF Known, Parts, ReqInv, Fits, ValuesInv, ValuesFit
<1>4. Answers
  BY <1>1, <1>2, <1>3, DeliveredAnswers DEF RespondNothing
<1>5. HealthInv' /\ ReqInv'
  BY <1>1, <1>4, AnswersHealth, AnswersFit DEF health, history, caches
<1> QED BY <1>1, <1>5, ValuesKept DEF Parts, caches, history

\* The value a route's flight ends with is stored; it is the newest the cache has held.
LEMMA StoredGrows ==
  ASSUME Parts, NEW r \in Requests, RespondRoute(r)
  PROVE  /\ req[r].ep \in Routes /\ req[r].res \in Versions /\ req[r].pc = "got"
         /\ req[r].res >= stored[req[r].ep]
         /\ stored' \in [Routes -> Versions]
         /\ stored' # stored => stored' = [stored EXCEPT ![req[r].ep] = req[r].res]
         /\ perf' # perf => perf' = [perf EXCEPT ![req[r].ep] = req[r].res]
<1> DEFINE x == req[r].ep
           v == req[r].res
<1>1. x \in Routes /\ v \in Versions /\ v \in Nat /\ req[r].pc = "got"
  BY ReqFields, ValuesNat DEF RespondRoute, At, Parts, ReqInv
<1>2. v >= stored[x]
  BY <1>1 DEF RespondRoute, Parts, ReqInv, Fits
<1>3. stored[x] \in Nat /\ stored \in [Routes -> Versions]
  BY <1>1 DEF Parts, ValuesInv, Versions
<1>4. CASE config.cached
  <2>1. /\ perf' = [perf EXCEPT ![x] = v]
        /\ stored' = [stored EXCEPT ![x] = IF v > stored[x] THEN v ELSE stored[x]]
    BY <1>1, <1>3, <1>4 DEF RespondRoute
  <2>2. (IF v > stored[x] THEN v ELSE stored[x]) = v
    BY <1>1, <1>2, <1>3
  <2>3. stored' = [stored EXCEPT ![x] = v]
    BY <2>1, <2>2
  <2>4. stored' \in [Routes -> Versions]
    BY <1>1, <1>3, <2>3
  <2> QED BY <1>1, <1>2, <2>1, <2>3, <2>4
<1>5. CASE ~config.cached
  BY <1>1, <1>2, <1>3, <1>5 DEF RespondRoute
<1> QED BY <1>4, <1>5

LEMMA InvRespondRoute ==
  ASSUME Parts, NEW r \in Requests, RespondRoute(r)
  PROVE  Parts'
<1> DEFINE x == req[r].ep
           v == req[r].res
<1>1. /\ x \in Routes /\ x \in Endpoints /\ v \in Versions /\ v \in Nat
      /\ v \in Value /\ v # None /\ req[r].pc = "got"
  BY StoredGrows DEF RespondRoute, Versions, Value
<1>2. /\ UNCHANGED <<config, site, degraded, fails, isDegraded, run, late>>
      /\ req' = Delivered(r, v)
  BY DEF RespondRoute, health
<1>3. Answers /\ Is(req'[r], "idle", Idle.ep, None, FALSE, FALSE)
  BY <1>1, <1>2, DeliveredAnswers
<1>4. \A y \in Routes : stored'[y] = stored[y] \/ (y = x /\ stored'[y] = v)
  BY StoredGrows DEF Parts, ValuesInv
<1>5. ValuesInv'
  <2>1. perf' \in [Routes -> Value]
    BY <1>1, StoredGrows DEF Parts, ValuesInv
  <2>2. v <= site /\ (degraded[x] # None => degraded[x] >= v)
    BY <1>1 DEF Parts, ReqInv, Fits
  <2>3. ValuesFit'
    BY <1>2, <1>4, <2>2 DEF Parts, ValuesInv, ValuesFit
  <2> QED BY <1>2, <2>1, <2>3, StoredGrows DEF Parts, ValuesInv
<1>6. ASSUME NEW q \in Requests PROVE Fits(req[q])'
  <2>1. CASE Is(req'[q], "idle", Idle.ep, None, FALSE, FALSE)
    BY <2>1 DEF Is, Fits
  <2>2. CASE req'[q] = req[q] /\ q # r
    <3>1. req[q].pc \in {"good", "store", "got"} => req[q].ep # x
      BY <1>1, <2>2 DEF Parts, ReqInv, OneLeads, Leads
    <3>2. req[q].ep \in Routes /\ req[q].pc \in {"good", "store", "got"} =>
            stored'[req[q].ep] = stored[req[q].ep]
      BY <1>4, <3>1
    <3> QED BY <1>2, <2>2, <3>2 DEF Parts, ReqInv, Fits
  <2> QED BY <1>3, <2>1, <2>2 DEF Answers
<1>7. ReqInv'
  BY <1>3, <1>6, AnswersLead DEF ReqInv, Answers
<1> QED BY <1>2, <1>3, <1>5, <1>7, AnswersHealth DEF Parts
-----------------------------------------------------------------------------
(***************************************************************************)
(* A call ends: those that shared it have its outcome in hand, and those   *)
(* that have an earlier one are overtaken.                                 *)
(***************************************************************************)
Ended(pc, res) ==
  /\ req' \in [Requests -> Req]
  /\ \A q \in Requests :
       \/ /\ req[q].pc \in {"backend", "waiting"}
          /\ Is(req'[q], pc, req[q].ep, res, req[q].known, FALSE)
       \/ /\ req[q].pc \in {"good", "bad"}
          /\ Is(req'[q], req[q].pc, req[q].ep, req[q].res, req[q].known, TRUE)
       \/ /\ req[q].pc \notin {"good", "bad"}
          /\ req'[q] = req[q]

LEMMA CallEndsEnded ==
  ASSUME Parts, NEW r \in Requests, req[r].pc = "backend", NEW pc \in {"good", "bad"},
         NEW res \in Value, CallEnds(r, pc, res)
  PROVE  Ended(pc, res) /\ Is(req'[r], pc, req[r].ep, res, req[r].known, FALSE)
<1>1. req \in [Requests -> Req] /\ pc \in Steps
  BY DEF Parts, ReqInv, Steps
<1>2. \A q \in Requests : /\ Moved(q, pc, res) \in Req
                          /\ Is(Moved(q, pc, res), pc, req[q].ep, res, req[q].known, FALSE)
  BY <1>1, MovedFields
<1>3. \A q \in Requests :
        /\ [req[q] EXCEPT !.overtaken = TRUE] \in Req
        /\ Is([req[q] EXCEPT !.overtaken = TRUE],
              req[q].pc, req[q].ep, req[q].res, req[q].known, TRUE)
  BY <1>1, OvertakenFields
<1>4. ASSUME NEW q \in Requests PROVE
        /\ req'[q] \in Req
        /\ \/ /\ req[q].pc \in {"backend", "waiting"}
              /\ Is(req'[q], pc, req[q].ep, res, req[q].known, FALSE)
           \/ /\ req[q].pc \in {"good", "bad"}
              /\ Is(req'[q], req[q].pc, req[q].ep, req[q].res, req[q].known, TRUE)
           \/ /\ req[q].pc \notin {"good", "bad"}
              /\ req'[q] = req[q]
  <2>1. CASE q = r \/ (At(q, "waiting") /\ req[q].ep = req[r].ep)
    <3>1. req'[q] = Moved(q, pc, res)
      BY <2>1 DEF CallEnds
    <3> QED BY <1>2, <2>1, <3>1 DEF At
  <2>2. CASE ~(q = r \/ (At(q, "waiting") /\ req[q].ep = req[r].ep))
             /\ req[q].pc \in {"good", "bad"}
    <3>1. req'[q] = [req[q] EXCEPT !.overtaken = TRUE]
      BY <2>2 DEF CallEnds
    <3> QED BY <1>3, <2>2, <3>1
  <2>3. CASE ~(q = r \/ (At(q, "waiting") /\ req[q].ep = req[r].ep))
             /\ req[q].pc \notin {"good", "bad"}
    <3>1. req'[q] = req[q]
      BY <2>3 DEF CallEnds
    <3> QED BY <1>1, <2>3, <3>1
  <2> QED BY <2>1, <2>2, <2>3
<1>5. req' \in [Requests -> Req]
  <2>1. \E f : req' = [q \in Requests |-> f[q]]
    <3> DEFINE g == [q \in Requests |->
                      IF q = r \/ (At(q, "waiting") /\ req[q].ep = req[r].ep)
                      THEN Moved(q, pc, res)
                      ELSE IF req[q].pc \in {"good", "bad"}
                           THEN [req[q] EXCEPT !.overtaken = TRUE]
                           ELSE req[q]]
    <3>1. req' = g
      BY DEF CallEnds
    <3>2. g = [q \in Requests |-> g[q]]
      OBVIOUS
    <3> HIDE DEF g
    <3> QED BY <3>1, <3>2
  <2> QED BY <1>4, <2>1
<1>6. req'[r] = Moved(r, pc, res)
  BY DEF CallEnds
<1> QED BY <1>2, <1>4, <1>5, <1>6 DEF Ended

LEMMA EndedFits ==
  ASSUME Parts, NEW pc \in {"good", "bad"}, NEW res \in Value, Ended(pc, res),
         pc = "good" => res # None, res # None => pc = "good" /\ res = site,
         UNCHANGED <<config, site, stored, degraded>>
  PROVE  ReqInv'
<1>1. \A q \in Requests, x \in Routes : Leads(q, x)' => Leads(q, x)
  BY DEF Ended, Is, Leads
<1>2. OneLeads'
  BY <1>1 DEF OneLeads, Parts, ReqInv
<1>3. ASSUME NEW q \in Requests PROVE Fits(req[q])'
  <2>1. CASE Is(req'[q], pc, req[q].ep, res, req[q].known, FALSE)
             /\ req[q].pc \in {"backend", "waiting"}
    <3>1. site \in Nat /\ site <= site
      BY DEF Parts, ValuesInv, Versions
    <3>2. req[q].ep \in Routes => site >= stored[req[q].ep]
      BY <3>1 DEF Parts, ValuesInv, ValuesFit, Versions
    <3> QED BY <2>1, <3>1, <3>2 DEF Is, Fits, Parts, ReqInv
  <2>2. CASE Is(req'[q], req[q].pc, req[q].ep, req[q].res, req[q].known, TRUE)
    BY <2>2 DEF Is, Fits, Parts, ReqInv
  <2>3. CASE req'[q] = req[q]
    BY <2>3 DEF Fits, Parts, ReqInv
  <2> QED BY <2>1, <2>2, <2>3 DEF Ended
<1> QED BY <1>2, <1>3 DEF ReqInv, Ended

LEMMA InvCallSucceeds ==
  ASSUME Parts, NEW r \in Requests, CallSucceeds(r)
  PROVE  Parts'
<1>1. /\ req[r].pc = "backend" /\ run' = 0
      /\ UNCHANGED <<config, site, perf, degraded, fails, isDegraded, stored, late>>
  BY DEF CallSucceeds, At, caches, health
<1>2. site \in Value /\ site # None
  BY DEF Parts, ValuesInv, Value, Versions
<1>3. Ended("good", site) /\ Is(req'[r], "good", req[r].ep, site, req[r].known, FALSE)
  BY <1>1, <1>2, CallEndsEnded DEF CallSucceeds
<1>4. ReqInv'
  BY <1>1, <1>2, <1>3, EndedFits
<1>5. Good(r)' /\ \A q \in Requests : ~Bad(q)'
  BY <1>3 DEF Ended, Is, Good, Bad, At
<1>6. HealthInv'
  <2>1. OutcomesFit' /\ FlagIsCleared'
    BY <1>1, <1>5 DEF OutcomesFit, FlagIsCleared
  <2>2. run' \in 0..Threshold /\ run' <= fails'
    BY <1>1 DEF Parts, HealthInv
  <2>3. FailuresAreCounted'
    BY <1>1, <2>2 DEF FailuresAreCounted, Parts, HealthInv
  <2> QED BY <1>1, <2>1, <2>2, <2>3 DEF Parts, HealthInv
<1> QED BY <1>1, <1>4, <1>6, ValuesKept DEF Parts

LEMMA InvCallFails ==
  ASSUME Parts, NEW r \in Requests, CallFails(r)
  PROVE  Parts'
<1>1. /\ req[r].pc = "backend" /\ run' = IF run < Threshold THEN run + 1 ELSE run
      /\ UNCHANGED <<config, site, perf, degraded, fails, isDegraded, stored, late>>
  BY DEF CallFails, At, caches, health
<1>2. Ended("bad", None) /\ Is(req'[r], "bad", req[r].ep, None, req[r].known, FALSE)
  BY <1>1, CallEndsEnded DEF CallFails, Value
<1>3. ReqInv'
  BY <1>1, <1>2, EndedFits DEF Value
<1>4. /\ Bad(r)' /\ \A q \in Requests : ~Good(q)'
      /\ \A q \in Requests : Bad(q) \/ OldBad(q) => OldBad(q)'
  BY <1>2 DEF Ended, Is, Good, Bad, OldBad, At
<1>5. HealthInv'
  <2>1. run \in Nat /\ fails \in Nat /\ run' \in 0..Threshold /\ run' > 0 /\ run' <= run + 1
    BY <1>1 DEF Parts, HealthInv
  <2>2. OutcomesFit' /\ FlagIsCleared'
    BY <1>4, <2>1 DEF OutcomesFit, FlagIsCleared
  <2>3. run <= fails => run' <= fails' + 1
    BY <1>1, <2>1
  <2>4. FailuresAreCounted'
    BY <1>1, <1>4, <2>3 DEF FailuresAreCounted, Parts, HealthInv
  <2> QED BY <1>1, <2>1, <2>2, <2>4 DEF Parts, HealthInv
<1> QED BY <1>1, <1>3, <1>5, ValuesKept DEF Parts

(***************************************************************************)
(* An outcome is recorded.                                                 *)
(***************************************************************************)
\* A request that moves on with its outcome leaves the others theirs.
LEMMA OthersHold ==
  ASSUME Parts, NEW r \in Requests, NEW e \in Req, Becomes(r, e), e.pc \notin {"good", "bad"},
         NEW q \in Requests
  PROVE  /\ q # r => (Good(q)' <=> Good(q)) /\ (Bad(q)' <=> Bad(q)) /\ (OldBad(q)' <=> OldBad(q))
         /\ ~Good(r)' /\ ~Bad(r)' /\ ~OldBad(r)'
<1>1. req'[r] = e /\ (q # r => req'[q] = req[q])
  BY DEF Becomes, Parts, ReqInv
<1> QED BY <1>1 DEF Good, Bad, OldBad, At

LEMMA SuccessHealth ==
  ASSUME Parts, NEW r \in Requests, NEW e \in Req, Becomes(r, e), e.pc \notin {"good", "bad"},
         At(r, "good"), fails' = 0, isDegraded' = FALSE, late' = req[r].overtaken, run' = run
  PROVE  HealthInv'
<1>1. late' \in BOOLEAN /\ (~late' => Good(r))
  BY ReqFields DEF Parts, ReqInv, Good
<1>2. ~late' => run = 0
  BY <1>1 DEF Parts, HealthInv, OutcomesFit
<1>3. ASSUME NEW q \in Requests PROVE (Good(q)' => Good(q)) /\ (Bad(q)' => Bad(q))
  <2>1. CASE q = r
    BY <2>1, OthersHold
  <2>2. CASE q # r
    BY <2>2, OthersHold
  <2> QED BY <2>1, <2>2
<1>4. OutcomesFit' /\ FlagIsCleared'
  BY <1>3 DEF Parts, HealthInv, OutcomesFit, FlagIsCleared
<1>5. FailuresAreCounted'
  <2>1. ~(fails' >= Threshold) /\ (~late' => run' <= fails')
    BY <1>2
  <2> QED BY <2>1 DEF FailuresAreCounted
<1>6. fails' \in 0..Threshold /\ run' \in 0..Threshold
  BY DEF Parts, HealthInv
<1> QED BY <1>1, <1>4, <1>5, <1>6 DEF HealthInv

LEMMA InvRecordSuccess ==
  ASSUME Parts, NEW r \in Requests, RecordSuccess(r)
  PROVE  Parts'
<1> DEFINE x == req[r].ep
<1>1. /\ At(r, "good") /\ req[r].pc = "good" /\ req \in [Requests -> Req]
      /\ fails' = 0 /\ isDegraded' = FALSE /\ late' = req[r].overtaken
      /\ UNCHANGED <<config, site, perf, degraded, stored, run>>
  BY DEF RecordSuccess, At, caches, Parts, ReqInv
<1>2. \E e \in Req : /\ Becomes(r, e) /\ Fits(e) /\ e.pc \notin {"good", "bad"}
                     /\ \A y \in Routes : Leading(e, y) => Leading(req[r], y)
  <2>1. Fits(req[r])
    BY DEF Parts, ReqInv
  <2>2. CASE config.graceful
    <3>1. PICK e \in Req : /\ Becomes(r, e)
                          /\ Is(e, "store", req[r].ep, req[r].res, req[r].known, FALSE)
      BY <1>1, <2>2, GotoFields, "store" \in Steps DEF RecordSuccess, Steps
    <3>2. Fits(e)
      BY <1>1, <2>1, <2>2, <3>1 DEF Is, Fits
    <3>3. \A y \in Routes : Leading(e, y) => Leading(req[r], y)
      BY <1>1, <3>1 DEF Is, Leading
    <3> QED BY <3>1, <3>2, <3>3 DEF Is
  <2>3. CASE ~config.graceful
    <3>1. x \in Endpoints /\ req[r].res \in Value
      BY <1>1, ReqFields
    <3>2. degraded[x] = None
      BY <2>3, <3>1 DEF Parts, ValuesInv, ValuesFit
    <3>3. Returnable(r, req[r].res)
      BY <1>1, <2>1, <3>1, <3>2 DEF Fits, Returnable
    <3> QED BY <1>1, <2>3, <3>3, ReturnedFits DEF RecordSuccess
  <2> QED BY <2>2, <2>3
<1>3. PICK e \in Req : /\ Becomes(r, e) /\ Fits(e) /\ e.pc \notin {"good", "bad"}
                      /\ \A y \in Routes : Leading(e, y) => Leading(req[r], y)
  BY <1>2
<1>4. ReqInv'
  BY <1>1, <1>3, OneRequestFits DEF Parts
<1>5. HealthInv'
  BY <1>1, <1>3, SuccessHealth
<1> QED BY <1>1, <1>4, <1>5, ValuesKept DEF Parts

LEMMA FailureHealth ==
  ASSUME Parts, NEW r \in Requests, NEW e \in Req, Becomes(r, e), e.pc \notin {"good", "bad"},
         At(r, "bad"), fails' = IF fails < Threshold THEN fails + 1 ELSE fails,
         isDegraded' = (isDegraded \/ fails' >= Threshold),
         late' = (late \/ req[r].overtaken), run' = run
  PROVE  HealthInv'
<1>1. /\ late' \in BOOLEAN /\ isDegraded' \in BOOLEAN
      /\ ~late' => ~late /\ Bad(r) /\ ~OldBad(r)
  BY ReqFields DEF Parts, ReqInv, HealthInv, Bad, OldBad
<1>2. /\ fails \in Nat /\ run \in Nat /\ fails' \in 0..Threshold
      /\ fails' >= Threshold => isDegraded'
      /\ ~(fails' >= Threshold) => fails' = fails + 1
  <2>1. fails \in 0..Threshold /\ run \in 0..Threshold
    BY DEF Parts, HealthInv
  <2>2. fails' \in 0..Threshold /\ (~(fails' >= Threshold) => fails' = fails + 1)
    BY <2>1
  <2>3. fails' >= Threshold => isDegraded'
    BY Zenon
  <2> QED BY <2>1, <2>2, <2>3
<1>3. ASSUME NEW q \in Requests
      PROVE  /\ (Good(q)' => Good(q)) /\ (Bad(q)' => Bad(q))
             /\ q # r /\ OldBad(q) => OldBad(q)'
  <2>1. CASE q = r
    BY <2>1, OthersHold
  <2>2. CASE q # r
    BY <2>2, OthersHold
  <2> QED BY <2>1, <2>2
<1>4. OutcomesFit'
  BY <1>3 DEF Parts, HealthInv, OutcomesFit
<1>5. FlagIsCleared'
  <2>1. ~late' => run > 0
    BY <1>1 DEF Parts, HealthInv, OutcomesFit
  <2> QED BY <2>1 DEF FlagIsCleared
<1>6. FailuresAreCounted'
  <2> SUFFICES ASSUME ~late', ~isDegraded'
               PROVE  run' <= fails' \/ \E q \in Requests : OldBad(q)'
    BY <1>2 DEF FailuresAreCounted
  <2>1. ~late /\ ~OldBad(r) /\ fails' = fails + 1 /\ ~isDegraded
    BY <1>1, <1>2 DEF Parts, HealthInv
  <2>2. CASE \E q \in Requests : OldBad(q)
    BY <1>3, <2>1, <2>2
  <2>3. CASE ~\E q \in Requests : OldBad(q)
    <3>1. run <= fails + 1
      BY <1>2, <2>1, <2>3 DEF Parts, HealthInv, FailuresAreCounted
    <3> QED BY <2>1, <3>1
  <2> QED BY <2>2, <2>3
<1> QED BY <1>1, <1>2, <1>4, <1>5, <1>6 DEF Parts, HealthInv

LEMMA InvRecordFailure ==
  ASSUME Parts, NEW r \in Requests, RecordFailure(r)
  PROVE  Parts'
<1>1. /\ At(r, "bad") /\ req[r].pc = "bad" /\ req \in [Requests -> Req]
      /\ UNCHANGED <<config, site, perf, degraded, stored, run>>
  BY DEF RecordFailure, At, caches, Parts, ReqInv
<1>2. PICK e \in Req : /\ Becomes(r, e)
                      /\ Is(e, "fall", req[r].ep, req[r].res, req[r].known, FALSE)
  BY <1>1, GotoFields, "fall" \in Steps DEF RecordFailure, Steps
<1>3. Fits(e) /\ e.pc \notin {"good", "bad"}
  BY <1>1, <1>2 DEF Is, Fits, Parts, ReqInv
<1>4. \A y \in Routes : Leading(e, y) => Leading(req[r], y)
  BY <1>1, <1>2 DEF Is, Leading
<1>5. ReqInv'
  BY <1>1, <1>2, <1>3, <1>4, OneRequestFits DEF Parts
<1>6. HealthInv'
  BY <1>1, <1>2, <1>3, FailureHealth DEF RecordFailure
<1> QED BY <1>1, <1>5, <1>6, ValuesKept DEF Parts

\* DegradedCache.Set, by the only request that leads the route's flight.
LEMMA InvKeepGood ==
  ASSUME Parts, NEW r \in Requests, KeepGood(r)
  PROVE  Parts'
<1> DEFINE x == req[r].ep
           v == req[r].res
<1>1. /\ req \in [Requests -> Req] /\ Fits(req[r]) /\ req[r].pc = "store"
      /\ x \in Endpoints /\ v \in Value /\ v # None /\ v \in Nat
      /\ config.graceful /\ v <= site
      /\ x \in Routes => v >= stored[x]
  BY ReqFields, ValuesNat DEF KeepGood, At, Parts, ReqInv, Fits
<1>2. /\ UNCHANGED <<config, site, perf, stored, fails, isDegraded, run, late>>
      /\ degraded' = [degraded EXCEPT ![x] = v]
  BY DEF KeepGood, health, history
<1>3. /\ degraded' \in [Endpoints -> Value] /\ degraded'[x] = v
      /\ \A y \in Endpoints : y # x => degraded'[y] = degraded[y]
      /\ \A y \in Endpoints : degraded[y] # None => degraded'[y] # None
  BY <1>1, <1>2 DEF Parts, ValuesInv
<1>4. ValuesInv'
  <2>1. ValuesFit'
    BY <1>1, <1>2, <1>3 DEF Parts, ValuesInv, ValuesFit
  <2> QED BY <1>2, <1>3, <2>1 DEF Parts, ValuesInv
<1>5. PICK e \in Req :
        /\ Becomes(r, e)
        /\ \/ x \in Routes /\ Is(e, "got", x, v, req[r].known, FALSE)
           \/ Is(e, "idle", Idle.ep, None, req[r].known /\ v = None, FALSE)
  BY <1>1, ReturnedFields DEF KeepGood
<1>6. e.pc \notin {"good", "bad"} /\ req'[r] = e /\ req' \in [Requests -> Req]
  BY <1>1, <1>5 DEF Is, Becomes
<1>7. \A q \in Requests : q # r => req'[q] = req[q]
  BY <1>1, <1>5 DEF Becomes
<1>8. Fits(req[r])'
  <2>1. CASE x \in Routes /\ Is(e, "got", x, v, req[r].known, FALSE)
    <3>1. v >= v
      BY <1>1
    <3> QED BY <1>1, <1>2, <1>3, <1>6, <2>1, <3>1 DEF Is, Fits
  <2>2. CASE Is(e, "idle", Idle.ep, None, req[r].known /\ v = None, FALSE)
    BY <1>1, <1>6, <2>2 DEF Is, Fits
  <2> QED BY <1>5, <2>1, <2>2
<1>9. ASSUME NEW q \in Requests, q # r PROVE Fits(req[q])'
  <2>1. Fits(req[q]) /\ req[q].ep \in Endpoints
    BY <1>1, ReqFields DEF Parts, ReqInv
  <2>2. req[q].pc = "got" /\ req[q].ep \in Routes => req[q].ep # x
    BY <1>1, <1>9 DEF Parts, ReqInv, OneLeads, Leads
  <2>3. req[q].pc = "got" /\ req[q].ep \in Routes => degraded'[req[q].ep] = degraded[req[q].ep]
    BY <1>3, <2>1, <2>2
  <2> QED BY <1>2, <1>3, <1>7, <1>9, <2>1, <2>3 DEF Fits
<1>10. OneLeads'
  <2>1. \A q \in Requests, y \in Routes : Leads(q, y)' => Leads(q, y)
    <3> SUFFICES ASSUME NEW q \in Requests, NEW y \in Routes, Leads(q, y)' PROVE Leads(q, y)
      OBVIOUS
    <3>1. CASE q = r
      BY <1>1, <1>5, <1>6, <3>1 DEF Is, Leads
    <3>2. CASE q # r
      BY <1>7, <3>2 DEF Leads
    <3> QED BY <3>1, <3>2
  <2> QED BY <2>1 DEF OneLeads, Parts, ReqInv
<1>11. ReqInv'
  BY <1>6, <1>8, <1>9, <1>10 DEF ReqInv
<1>12. HealthInv'
  BY <1>1, <1>2, <1>5, <1>6, OneIsElsewhere DEF Parts
<1> QED BY <1>4, <1>11, <1>12 DEF Parts
-----------------------------------------------------------------------------
(***************************************************************************)
(* The steps of nobody's request.                                          *)
(***************************************************************************)
LEMMA InvReset == ASSUME Parts, Reset PROVE Parts'
<1>1. req \in [Requests -> Req]
  BY DEF Parts, ReqInv
<1> DEFINE new(q) == [req[q] EXCEPT !.known = FALSE,
                                    !.overtaken = @ \/ req[q].pc \in {"good", "bad"}]
<1>2. ASSUME NEW q \in Requests
      PROVE  /\ new(q) \in Req
             /\ Is(new(q), req[q].pc, req[q].ep, req[q].res, FALSE,
                   req[q].overtaken \/ req[q].pc \in {"good", "bad"})
  <2> DEFINE b == req[q].overtaken \/ req[q].pc \in {"good", "bad"}
  <2>1. new(q) = [req[q] EXCEPT !.known = FALSE, !.overtaken = b]
    BY <1>1 DEF Req
  <2>2. b \in BOOLEAN
    BY <1>1, ReqFields
  <2> HIDE DEF b, new
  <2>3. req[q] \in Req
    BY <1>1
  <2>4. /\ [req[q] EXCEPT !.known = FALSE, !.overtaken = b] \in Req
        /\ Is([req[q] EXCEPT !.known = FALSE, !.overtaken = b],
              req[q].pc, req[q].ep, req[q].res, FALSE, b)
    BY <2>2, <2>3, OvertakenFields
  <2> QED BY <2>1, <2>4 DEF b
<1>3. /\ req' = [q \in Requests |-> new(q)]
      /\ UNCHANGED <<config, site, perf, stored>>
      /\ fails' = 0 /\ isDegraded' = FALSE /\ run' = 0 /\ late' = FALSE
      /\ degraded' = [e \in Endpoints |-> None]
  BY DEF Reset
<1> HIDE DEF new
<1>4. /\ req' \in [Requests -> Req]
      /\ \A q \in Requests : Is(req'[q], req[q].pc, req[q].ep, req[q].res, FALSE,
                               req[q].overtaken \/ req[q].pc \in {"good", "bad"})
  BY <1>2, <1>3
<1>5. HealthInv'
  <2>1. \A q \in Requests : ~Good(q)' /\ ~Bad(q)'
    BY <1>4 DEF Is, Good, Bad, At
  <2>2. OutcomesFit' /\ FlagIsCleared'
    BY <1>3, <2>1 DEF OutcomesFit, FlagIsCleared
  <2>3. FailuresAreCounted'
    BY <1>3 DEF FailuresAreCounted
  <2>4. fails' \in 0..Threshold /\ run' \in 0..Threshold
    BY <1>3
  <2> QED BY <1>3, <2>2, <2>3, <2>4 DEF HealthInv
<1>6. ValuesInv'
  BY <1>3 DEF Parts, ValuesInv, ValuesFit, Value
<1>7. OneLeads'
  <2>1. \A q \in Requests, x \in Routes : Leads(q, x)' => Leads(q, x)
    BY <1>4 DEF Is, Leads
  <2> QED BY <2>1 DEF OneLeads, Parts, ReqInv
<1>8. \A q \in Requests : Fits(req[q])'
  <2> SUFFICES ASSUME NEW q \in Requests PROVE Fits(req[q])'
    OBVIOUS
  <2>1. req[q].ep \in Routes => degraded'[req[q].ep] = None
    BY <1>3
  <2> QED BY <1>3, <1>4, <2>1 DEF Is, Fits, Parts, ReqInv
<1> QED BY <1>4, <1>5, <1>6, <1>7, <1>8 DEF Parts, ReqInv

LEMMA SameReqs ==
  ASSUME Parts, UNCHANGED <<req, config, degraded, stored>>, site' \in Nat, site' >= site
  PROVE  ReqInv'
<1>1. OneLeads'
  BY DEF OneLeads, Leads, Parts, ReqInv
<1>2. ASSUME NEW q \in Requests PROVE Fits(req[q])'
  <2>1. req[q].res # None => req[q].res \in Nat /\ req[q].res <= site
    BY ReqFields, ValuesNat DEF Parts, ReqInv, Fits
  <2>2. site \in Nat
    BY DEF Parts, ValuesInv, Versions
  <2>3. req[q].res # None => req[q].res <= site'
    BY <2>1, <2>2
  <2> QED BY <2>3 DEF Fits, Parts, ReqInv
<1> QED BY <1>1, <1>2 DEF Parts, ReqInv

LEMMA SameHealth ==
  ASSUME Parts, UNCHANGED <<req, fails, isDegraded, run, late>>
  PROVE  HealthInv'
<1>1. \A q \in Requests : /\ Good(q)' <=> Good(q)
                          /\ Bad(q)' <=> Bad(q)
                          /\ OldBad(q)' <=> OldBad(q)
  BY DEF Good, Bad, OldBad, At
<1> QED BY <1>1, SameOutcomes DEF Parts

LEMMA InvPerfExpires == ASSUME Parts, NEW e \in Routes, PerfExpires(e) PROVE Parts'
<1>1. UNCHANGED <<config, site, degraded, req, fails, isDegraded, stored, run, late>>
  BY DEF PerfExpires, health, history
<1>2. site' \in Nat /\ site' >= site
  BY <1>1 DEF Parts, ValuesInv, Versions
<1>3. perf' \in [Routes -> Value]
  BY DEF PerfExpires, Parts, ValuesInv, Value
<1>4. ValuesInv'
  BY <1>1, <1>3 DEF Parts, ValuesInv, ValuesFit
<1> QED BY <1>1, <1>2, <1>4, SameReqs, SameHealth DEF Parts

LEMMA InvSiteChanges == ASSUME Parts, SiteChanges PROVE Parts'
<1>1. /\ UNCHANGED <<config, perf, degraded, req, fails, isDegraded, stored, run, late>>
      /\ site < MaxVersion /\ site' = site + 1
  BY DEF SiteChanges, health, history, caches
<1>2. site \in Nat /\ site' \in Nat /\ site' >= site /\ site' \in Versions
  BY <1>1 DEF Parts, ValuesInv, Versions
<1>3. ValuesFit'
  <2>1. \A y \in Routes : stored[y] \in Nat
    BY DEF Parts, ValuesInv, Versions
  <2>2. \A y \in Endpoints : degraded[y] # None => degraded[y] \in Nat
    BY ValuesNat DEF Parts, ValuesInv
  <2>3. \A y \in Endpoints : degraded[y] # None => config.graceful /\ degraded[y] <= site'
    BY <1>1, <1>2, <2>2 DEF Parts, ValuesInv, ValuesFit
  <2>4. \A y \in Routes : stored[y] <= site' /\ (degraded[y] # None => degraded[y] >= stored[y])
    BY <1>1, <1>2, <2>1 DEF Parts, ValuesInv, ValuesFit
  <2> QED BY <1>1, <2>3, <2>4 DEF ValuesFit
<1>4. ValuesInv'
  BY <1>1, <1>2, <1>3 DEF Parts, ValuesInv
<1> QED BY <1>1, <1>2, <1>4, SameReqs, SameHealth DEF Parts

LEMMA InvStutter == ASSUME Parts, UNCHANGED vars PROVE Parts'
<1>1. UNCHANGED <<config, site, perf, degraded, req, fails, isDegraded, stored, run, late>>
  BY DEF vars
<1>2. site' \in Nat /\ site' >= site
  BY <1>1 DEF Parts, ValuesInv, Versions
<1> QED BY <1>1, <1>2, ValuesKept, SameReqs, SameHealth DEF Parts

LEMMA InvInit == Init => Parts
<1> SUFFICES ASSUME Init PROVE Parts
  OBVIOUS
<1>1. /\ \A r \in Requests : req[r] = Idle /\ Idle \in Req
      /\ req \in [Requests -> Req]
  BY IdleFields DEF Init
<1>2. HealthInv
  <2>1. \A q \in Requests : ~Good(q) /\ ~Bad(q)
    BY <1>1, IdleFields DEF Is, Good, Bad, At
  <2>2. OutcomesFit /\ FlagIsCleared
    BY <2>1 DEF Init, OutcomesFit, FlagIsCleared
  <2>3. ~(fails >= Threshold) /\ run <= fails /\ fails \in 0..Threshold /\ run \in 0..Threshold
    BY DEF Init
  <2>4. FailuresAreCounted
    BY <2>3 DEF FailuresAreCounted
  <2> QED BY <2>2, <2>3, <2>4 DEF Init, HealthInv
<1>3. ValuesInv
  <2>1. 0 \in Versions /\ 0 <= 0 /\ None \in Value
    BY DEF Versions, Value
  <2>2. ValuesFit
    BY <2>1 DEF Init, ValuesFit
  <2> QED BY <2>1, <2>2 DEF Init, ValuesInv
<1>4. \A q \in Requests : Fits(req[q])
  BY <1>1, IdleFields DEF Is, Fits
<1>5. OneLeads
  BY <1>1, IdleFields DEF Is, OneLeads, Leads
<1> QED BY <1>1, <1>2, <1>3, <1>4, <1>5 DEF Parts, ReqInv

LEMMA InvNext == Parts /\ [Next]_vars => Parts'
<1> SUFFICES ASSUME Parts, [Next]_vars PROVE Parts'
  OBVIOUS
<1>1. ASSUME NEW r \in Requests, Step(r) PROVE Parts'
  BY <1>1, InvJoinRoute, InvFetch, InvFailFast, InvEnter, InvCallSucceeds, InvCallFails,
     InvRecordSuccess, InvRecordFailure, InvKeepGood, InvFallBack, InvRespondRoute,
     InvRespondNothing DEF Step
<1> QED
  BY <1>1, InvBegin, InvReset, InvSiteChanges, InvPerfExpires, InvStutter DEF Next

LEMMA Invariance == Spec => []Parts
BY InvInit, InvNext, PTL DEF Spec
-----------------------------------------------------------------------------
(***************************************************************************)
(* The health of the proxy is what the backend's calls came to, however    *)
(* many requests share a call and in whatever order they record it; and    *)
(* every variable has its type.                                            *)
(***************************************************************************)
THEOREM HealthIsThatOfCalls == Spec => []HealthFollowsCalls
<1>1. Parts => HealthFollowsCalls
  <2> SUFFICES ASSUME Parts PROVE HealthFollowsCalls
    OBVIOUS
  <2>1. TypeOK
    BY InvParts DEF IInv
  <2>2. Quiet => \A r \in Requests : ~Good(r) /\ ~Bad(r) /\ ~OldBad(r)
    BY DEF Quiet, Good, Bad, OldBad, At
  <2>3. run \in Nat /\ fails \in Nat /\ Threshold \in Nat
    BY <2>1 DEF TypeOK
  <2>4. Quiet /\ ~late /\ isDegraded => run > 0
    <3>1. Quiet /\ ~late /\ isDegraded => run # 0
      BY <2>2 DEF Parts, HealthInv, FlagIsCleared
    <3> QED BY <2>3, <3>1
  <2>5. Quiet /\ ~late /\ run >= Threshold => isDegraded
    <3>1. Quiet /\ ~late => isDegraded \/ run <= fails
      BY <2>2 DEF Parts, HealthInv, FailuresAreCounted
    <3>2. run >= Threshold /\ run <= fails => fails >= Threshold
      BY <2>3
    <3> QED BY <3>1, <3>2 DEF Parts, HealthInv, FailuresAreCounted
  <2> QED BY <2>1, <2>4, <2>5 DEF HealthFollowsCalls
<1> QED BY <1>1, Invariance, PTL

(***************************************************************************)
(* With graceful degradation whoever arrives when there is a good value is *)
(* answered with one, through both singleflight groups and whatever fails. *)
(***************************************************************************)
THEOREM KnownValuesAreServed == Spec => []KnownIsServed
<1>1. Parts => KnownIsServed
  BY DEF Parts, ReqInv, Fits, KnownIsServed, At
<1> QED BY <1>1, Invariance, PTL

(***************************************************************************)
(* The performance cache of a route never goes back in time.               *)
(***************************************************************************)
THEOREM CachesGoForward == Spec => CacheGoesForward
<1>1. Parts /\ [Next]_vars =>
        [\A e \in Routes : perf'[e] \notin {perf[e], None} => perf'[e] >= stored[e]]_vars
  <2> SUFFICES ASSUME Parts, Next, NEW e \in Routes, perf'[e] \notin {perf[e], None}
               PROVE  perf'[e] >= stored[e]
    OBVIOUS
  <2>1. PICK r \in Requests : RespondRoute(r)
    <3>1. \A x \in Routes : ~PerfExpires(x)
      BY DEF PerfExpires, Parts, ValuesInv
    <3>2. \A r \in Requests : Step(r) => RespondRoute(r)
      BY DEF Step, JoinRoute, Fetch, FailFast, Enter, CallSucceeds, CallFails, RecordSuccess,
             RecordFailure, KeepGood, FallBack, RespondNothing, caches
    <3> QED BY <3>1, <3>2 DEF Next, Begin, Reset, SiteChanges, caches
  <2>2. e = req[r].ep /\ perf'[e] = req[r].res
    BY <2>1, StoredGrows DEF Parts, ValuesInv
  <2> QED BY <2>1, <2>2, StoredGrows
<1> QED BY <1>1, Invariance, PTL DEF Spec, CacheGoesForward
=============================================================================
