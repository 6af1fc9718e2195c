-------------------------- MODULE FleetFetchProofs --------------------------
(***************************************************************************)
(* Theorems about FleetFetch, for every number of callers, versions of the *)
(* site and ticks of backoff.                                              *)
(***************************************************************************)
EXTENDS FleetFetch, TLAPS

Pcs == {"idle", "miss", "go", "lead", "wait", "send", "ok", "limited", "bad",
        "post", "written"}

\* The record of a call that is inside singleflight's function.
Leads(e) == e.kind = "read" /\ e.pc \in {"lead", "send"} \cup Answered

\* The record of a call that sends without another look at the backoff.
Sends(e) == e.pc = "send" \/ (e.pc = "go" /\ e.kind = "force")

(***************************************************************************)
(* What the records of calls look like after the updates the actions make. *)
(***************************************************************************)
LEMMA CallFields ==
  ASSUME NEW e \in Call
  PROVE  /\ e.pc \in Pcs /\ e.kind \in {"read", "force", "write"}
         /\ e.since \in Versions /\ e.got \in Versions \cup {Empty}
         /\ e.delay \in Delays /\ e.crossed \in BOOLEAN
BY DEF Call, Pcs

LEMMA LeadingLeads == Leading = {c \in Callers : Leads(call[c])}
BY DEF Leading, Leads

LEMMA Zero == FleetFetchAssumption => 0 \in Versions /\ 0 \in Delays
BY DEF FleetFetchAssumption, Versions, Delays

LEMMA StartedType ==
  ASSUME server \in Versions, NEW pc \in Pcs, NEW kind \in {"read", "force", "write"}
  PROVE  \E e \in Call : /\ e = Started(pc, kind) /\ e.pc = pc /\ e.kind = kind
                         /\ e.since = (IF kind = "force" THEN server ELSE 0)
                         /\ e.got = Empty
<1> DEFINE s == IF kind = "force" THEN server ELSE 0
           e == [pc |-> pc, kind |-> kind, since |-> s, got |-> Empty, delay |-> 0,
                 crossed |-> FALSE]
<1>1. s \in Versions /\ 0 \in Delays
  BY FleetFetchAssumption, Zero
<1>2. e = Started(pc, kind)
  BY DEF Started
<1> HIDE DEF s
<1>3. e \in Call
  BY <1>1 DEF Call, Pcs
<1> QED BY <1>2, <1>3 DEF s

LEMMA OverType ==
  ASSUME NEW r \in Call, NEW got \in Versions \cup {Empty}
  PROVE  /\ Over(r, got) \in Call
         /\ Over(r, got).pc = "idle"
         /\ Over(r, got).kind = (IF r.kind = "force" THEN "force" ELSE "read")
         /\ Over(r, got).since = r.since
         /\ r.kind = "force" => Over(r, got).got = got
<1> DEFINE k == IF r.kind = "force" THEN "force" ELSE "read"
           g == IF r.kind = "force" THEN got ELSE Empty
           e == [pc |-> "idle", kind |-> k, since |-> r.since, got |-> g, delay |-> 0,
                 crossed |-> FALSE]
<1>1. /\ k \in {"read", "force", "write"} /\ g \in Versions \cup {Empty}
      /\ 0 \in Delays /\ r.since \in Versions
  BY FleetFetchAssumption, Zero, CallFields
<1>2. e = Over(r, got)
  BY DEF Over
<1>3. r.kind = "force" => g = got
  OBVIOUS
<1>4. k = (IF r.kind = "force" THEN "force" ELSE "read")
  OBVIOUS
<1> HIDE DEF k, g
<1>5. e \in Call /\ e.pc = "idle" /\ e.kind = k /\ e.since = r.since /\ e.got = g
  BY <1>1 DEF Call
<1> QED BY <1>2, <1>3, <1>4, <1>5

\* A call moves on: only its pc changes, its record becomes e.
MovesTo(c, pc) == call' = [call EXCEPT ![c].pc = pc]

Becomes(c, pc, e) ==
  /\ call' = [call EXCEPT ![c] = e] /\ e.pc = pc
  /\ e.kind = call[c].kind /\ e.since = call[c].since
  /\ e.got = call[c].got /\ e.crossed = call[c].crossed

LEMMA Moved ==
  ASSUME call \in [Callers -> Call], NEW c \in Callers, NEW pc \in Pcs, MovesTo(c, pc)
  PROVE  \E e \in Call : Becomes(c, pc, e)
<1> DEFINE e == [call[c] EXCEPT !.pc = pc]
<1>1. call' = [call EXCEPT ![c] = e]
  BY DEF MovesTo
<1>2. /\ e \in Call /\ e.pc = pc /\ e.kind = call[c].kind /\ e.since = call[c].since
      /\ e.got = call[c].got /\ e.crossed = call[c].crossed
  BY DEF Call, Pcs
<1> HIDE DEF e
<1> QED BY <1>1, <1>2 DEF Becomes

\* A call is answered with a version, or refused and told for how long.
AnsweredBy(c, pc, n) == call' = [call EXCEPT ![c].pc = pc, ![c].got = n]

WrittenAs(c, n) == call' = [call EXCEPT ![c].got = n, ![c].pc = "written"]

RefusedFor(c, n) == call' = [call EXCEPT ![c].pc = "limited", ![c].delay = n]

BecomesWith(c, pc, n, e) ==
  /\ call' = [call EXCEPT ![c] = e] /\ e.pc = pc
  /\ e.kind = call[c].kind /\ e.since = call[c].since /\ e.got = n

LEMMA MovedWith ==
  ASSUME call \in [Callers -> Call], NEW c \in Callers, NEW n \in Versions
  PROVE  /\ AnsweredBy(c, "ok", n) => \E e \in Call : BecomesWith(c, "ok", n, e)
         /\ WrittenAs(c, n) => \E e \in Call : BecomesWith(c, "written", n, e)
<1>1. ASSUME NEW pc \in {"ok", "written"}, call' = [call EXCEPT ![c] = [call[c] EXCEPT !.pc = pc, !.got = n]]
      PROVE  \E e \in Call : BecomesWith(c, pc, n, e)
  <2> DEFINE e == [call[c] EXCEPT !.pc = pc, !.got = n]
  <2>1. call' = [call EXCEPT ![c] = e]
    BY <1>1
  <2>2. /\ e \in Call /\ e.pc = pc /\ e.kind = call[c].kind /\ e.since = call[c].since
        /\ e.got = n
    BY DEF Call
  <2> HIDE DEF e
  <2> QED BY <2>1, <2>2 DEF BecomesWith
<1>2. AnsweredBy(c, "ok", n)
        => call' = [call EXCEPT ![c] = [call[c] EXCEPT !.pc = "ok", !.got = n]]
  BY DEF AnsweredBy, Call
<1>3. WrittenAs(c, n)
        => call' = [call EXCEPT ![c] = [call[c] EXCEPT !.pc = "written", !.got = n]]
  BY DEF WrittenAs, Call
<1> QED BY <1>1, <1>2, <1>3

LEMMA MovedLimited ==
  ASSUME call \in [Callers -> Call], NEW c \in Callers, NEW n \in Delays, RefusedFor(c, n)
  PROVE  \E e \in Call : BecomesWith(c, "limited", call[c].got, e)
<1> DEFINE e == [call[c] EXCEPT !.pc = "limited", !.delay = n]
<1>1. call' = [call EXCEPT ![c] = e]
  BY DEF Call, RefusedFor
<1>2. /\ e \in Call /\ e.pc = "limited" /\ e.kind = call[c].kind /\ e.since = call[c].since
      /\ e.got = call[c].got
  BY DEF Call
<1> HIDE DEF e
<1> QED BY <1>1, <1>2 DEF BecomesWith
-----------------------------------------------------------------------------
(***************************************************************************)
(* The part of the invariant that is about the calls: their types, at most *)
(* one of them leads, one does if another waits, and each fits.            *)
(***************************************************************************)
CallsInv ==
  /\ call \in [Callers -> Call]
  /\ \A c \in Callers : call[c].pc = "wait" => \E d \in Callers : Leads(call[d])
  /\ \A c, d \in Callers : Leads(call[c]) /\ Leads(call[d]) => c = d
  /\ CallsFit

Parts ==
  /\ CallsInv
  /\ server \in Versions /\ written \in Versions /\ written <= server
  /\ cache \in Versions \cup {Empty} /\ backoff \in Delays
  /\ crossed \in BOOLEAN /\ past \subseteq Callers
  /\ StaleHasCrossed /\ PastCovers

LEMMA InvParts == IInv <=> Parts
<1>1. Leading # {} <=> \E d \in Callers : Leads(call[d])
  BY LeadingLeads
<1>2. (\A c, d \in Leading : c = d)
        <=> \A c, d \in Callers : Leads(call[c]) /\ Leads(call[d]) => c = d
  BY LeadingLeads
<1> QED BY <1>1, <1>2 DEF IInv, Parts, CallsInv, MissesCoalesce, TypeOK

\* One call's record becomes e, and the site does not go back.
LEMMA OneCall ==
  ASSUME CallsInv, NEW c \in Callers, NEW e \in Call,
         call' = [call EXCEPT ![c] = e],
         server \in Versions, server' \in Versions, server <= server',
         written' = written,
         KindFits(e), AnswerFits(e, server', written),
         Leads(call[c]) => Leads(e),
         Leads(e) => Leads(call[c]) \/ ~ \E d \in Callers : Leads(call[d]),
         e.pc = "wait" => \E d \in Callers : Leads(call[d])
  PROVE  CallsInv'
<1>1. /\ call' \in [Callers -> Call]
      /\ \A d \in Callers : call'[d] = IF d = c THEN e ELSE call[d]
  BY DEF CallsInv
<1>2. \A d \in Callers : Leads(call'[d]) <=> IF d = c THEN Leads(e) ELSE Leads(call[d])
  BY <1>1
<1>3. \A d \in Callers : call'[d].pc = "wait" => \E b \in Callers : Leads(call'[b])
  <2> SUFFICES ASSUME NEW d \in Callers, call'[d].pc = "wait"
               PROVE  \E b \in Callers : Leads(call'[b])
    OBVIOUS
  <2>1. PICK b \in Callers : Leads(call[b])
    BY <1>1 DEF CallsInv
  <2> QED BY <1>2, <2>1
<1>4. \A b, d \in Callers : Leads(call'[b]) /\ Leads(call'[d]) => b = d
  BY <1>2 DEF CallsInv
<1>5. \A d \in Callers : KindFits(call'[d]) /\ AnswerFits(call'[d], server', written')
  <2> SUFFICES ASSUME NEW d \in Callers
               PROVE  KindFits(call'[d]) /\ AnswerFits(call'[d], server', written)
    OBVIOUS
  <2>1. CASE d = c
    BY <1>1, <2>1
  <2>2. CASE d # c
    <3>1. call'[d] = call[d] /\ call[d] \in Call
      BY <1>1, <2>2 DEF CallsInv
    <3>2. KindFits(call[d]) /\ AnswerFits(call[d], server, written)
      BY DEF CallsInv, CallsFit
    <3>3. call[d].since \in Versions
      BY <3>1, CallFields
    <3>4. AnswerFits(call[d], server', written)
      BY <3>2, <3>3, FleetFetchAssumption DEF AnswerFits, Versions
    <3> QED BY <3>1, <3>2, <3>4
  <2> QED BY <2>1, <2>2
<1> QED
  <2>1. (\A d \in Callers : Leads(call[d]))' <=> \A d \in Callers : Leads(call'[d])
    BY DEF Leads
  <2> QED BY <1>1, <1>3, <1>4, <1>5 DEF CallsInv, CallsFit, Leads, KindFits, AnswerFits

\* A call ends, and those that wait for it with it.
LEMMA Delivery ==
  ASSUME CallsInv, NEW c \in Callers, NEW got \in Versions \cup {Empty},
         call' = Delivered(c, got),
         UNCHANGED <<server, written>>,
         call[c].kind = "read" => Leads(call[c]),
         call[c].pc # "wait",
         call[c].kind = "force" /\ got # Empty => got >= call[c].since
  PROVE  /\ CallsInv'
         /\ \A d \in Callers : Sends(call'[d]) => Sends(call[d])
<1> DEFINE Ends(d) == d = c \/ (call[c].kind = "read" /\ call[d].pc = "wait")
<1>0. \A d \in Callers : call[d] \in Call
  BY DEF CallsInv
<1>1. \A d \in Callers : call'[d] = IF Ends(d) THEN Over(call[d], got) ELSE call[d]
  BY DEF Delivered
<1>2. \A d \in Callers : /\ Over(call[d], got) \in Call
                         /\ Over(call[d], got).pc = "idle"
                         /\ ~ Leads(Over(call[d], got)) /\ ~ Sends(Over(call[d], got))
  BY <1>0, OverType DEF Leads, Sends, Answered
<1>3. call' \in [Callers -> Call]
  BY <1>0, <1>2 DEF Delivered
<1>4. \A d \in Callers : call'[d].pc = "wait" => \E b \in Callers : Leads(call'[b])
  <2> SUFFICES ASSUME NEW d \in Callers, call'[d].pc = "wait"
               PROVE  \E b \in Callers : Leads(call'[b])
    OBVIOUS
  <2>1. ~ Ends(d) /\ call[d].pc = "wait" /\ call[c].kind # "read"
    BY <1>1, <1>2
  <2>2. PICK b \in Callers : Leads(call[b])
    BY <2>1 DEF CallsInv
  <2>3. ~ Ends(b)
    BY <2>1, <2>2 DEF Leads
  <2> QED BY <1>1, <2>2, <2>3
<1>5. \A b, d \in Callers : Leads(call'[b]) /\ Leads(call'[d]) => b = d
  BY <1>1, <1>2 DEF CallsInv
<1>6. \A d \in Callers : KindFits(call'[d]) /\ AnswerFits(call'[d], server', written')
  <2> SUFFICES ASSUME NEW d \in Callers
               PROVE  KindFits(call'[d]) /\ AnswerFits(call'[d], server, written)
    OBVIOUS
  <2>0. KindFits(call[d]) /\ AnswerFits(call[d], server, written)
    BY DEF CallsInv, CallsFit
  <2>1. CASE Ends(d)
    <3>1. call'[d] = Over(call[d], got)
      BY <1>1, <2>1
    <3> DEFINE o == Over(call[d], got)
    <3>2. /\ o.pc = "idle" /\ o.kind = (IF call[d].kind = "force" THEN "force" ELSE "read")
          /\ o.since = call[d].since /\ (call[d].kind = "force" => o.got = got)
      BY <1>0, OverType
    <3> HIDE DEF o
    <3>3. call[d].kind = "force" => d = c
      BY <2>0, <2>1 DEF KindFits, Answered
    <3>4. KindFits(o)
      BY <3>2 DEF KindFits, Answered
    <3>5. AnswerFits(o, server, written)
      BY <2>0, <3>2, <3>3 DEF AnswerFits
    <3> QED BY <3>1, <3>4, <3>5 DEF o
  <2>2. CASE ~ Ends(d)
    BY <1>1, <2>0, <2>2
  <2> QED BY <2>1, <2>2
<1>7. \A d \in Callers : Sends(call'[d]) => Sends(call[d])
  BY <1>1, <1>2
<1> QED BY <1>3, <1>4, <1>5, <1>6, <1>7 DEF CallsInv, CallsFit, Leads, KindFits, AnswerFits
-----------------------------------------------------------------------------
(***************************************************************************)
(* The steps.  SendersCovered is what a step that leaves the window and    *)
(* past alone must not break.                                              *)
(***************************************************************************)
SendersCovered ==
  backoff > 0 => \A c \in Callers : Sends(call'[c]) => Sends(call[c])

LEMMA InvPartsNext == Parts' => IInv'
BY InvParts, PTL

LEMMA SameWindow ==
  ASSUME Parts, CallsInv', SendersCovered, UNCHANGED <<backoff, past>>,
         server' \in Versions, written' \in Versions, written' <= server',
         cache' \in Versions \cup {Empty}, crossed' \in BOOLEAN, StaleHasCrossed'
  PROVE  Parts'
<1>1. PastCovers'
  BY DEF Parts, PastCovers, SendersCovered, Sends
<1> QED BY <1>1 DEF Parts

LEMMA BeginStep == ASSUME Parts, NEW c \in Callers, Begin(c) PROVE Parts'
<1>1. PICK kind \in {"read", "force", "write"} :
        call' = [call EXCEPT ![c] =
          IF kind = "write" THEN Started("post", kind)
          ELSE IF kind = "read" /\ cache # Empty THEN Over(Started("idle", kind), cache)
          ELSE Started("miss", kind)]
  BY DEF Begin
<1>0. server \in Versions /\ cache \in Versions \cup {Empty}
  BY DEF Parts
<1>2. PICK e \in Call :
        /\ call' = [call EXCEPT ![c] = e]
        /\ e.pc \in {"idle", "miss", "post"}
        /\ e.kind = "write" <=> e.pc = "post"
        /\ e.kind = "force" => e.pc = "miss" /\ e.since = server
  <2>1. CASE kind = "write"
    <3>1. PICK r \in Call : r = Started("post", kind) /\ r.pc = "post" /\ r.kind = kind
      BY <1>0, StartedType DEF Pcs
    <3> QED BY <1>1, <2>1, <3>1
  <2>2. CASE kind = "read" /\ cache # Empty
    <3>1. PICK r \in Call : r = Started("idle", kind) /\ r.kind = kind
      BY <1>0, StartedType DEF Pcs
    <3>2. call' = [call EXCEPT ![c] = Over(r, cache)]
      BY <1>1, <2>2, <3>1
    <3>3. /\ Over(r, cache) \in Call /\ Over(r, cache).pc = "idle"
          /\ Over(r, cache).kind = "read"
      BY <1>0, <2>2, <3>1, OverType
    <3> QED BY <3>2, <3>3
  <2>3. CASE kind # "write" /\ ~(kind = "read" /\ cache # Empty)
    <3>1. PICK r \in Call : /\ r = Started("miss", kind) /\ r.pc = "miss" /\ r.kind = kind
                            /\ kind = "force" => r.since = server
      BY <1>0, StartedType DEF Pcs
    <3>2. call' = [call EXCEPT ![c] = r]
      BY <1>1, <2>3, <3>1
    <3> QED BY <2>3, <3>1, <3>2
  <2> QED BY <2>1, <2>2, <2>3
<1>3. KindFits(e) /\ ~ Leads(e) /\ ~ Sends(e)
  BY <1>2, CallFields DEF KindFits, Leads, Sends, Answered, Pcs
<1>31. AnswerFits(e, server, written)
  <2>1. e.kind = "force" => e.since <= server
    BY <1>0, <1>2, FleetFetchAssumption DEF Versions
  <2> QED BY <1>2, <2>1 DEF AnswerFits
<1>4. ~ Leads(call[c])
  BY DEF Begin, Leads, Answered
<1>5. CallsInv'
  <2>1. server <= server
    BY <1>0, FleetFetchAssumption DEF Versions
  <2> QED BY <1>0, <1>2, <1>3, <1>31, <1>4, <2>1, OneCall DEF Begin, Parts
<1>6. SendersCovered
  BY <1>2, <1>3 DEF SendersCovered, Parts, CallsInv
<1> QED BY <1>5, <1>6, SameWindow DEF Begin, Parts, StaleHasCrossed

\* A step that changes the record of one call and nothing else.
LEMMA OneCallStep ==
  ASSUME Parts, NEW c \in Callers, NEW e \in Call,
         call' = [call EXCEPT ![c] = e],
         UNCHANGED <<server, cache, backoff, written, crossed, past>>,
         KindFits(e), AnswerFits(e, server, written),
         Leads(call[c]) => Leads(e),
         Leads(e) => Leads(call[c]) \/ ~ \E d \in Callers : Leads(call[d]),
         e.pc = "wait" => \E d \in Callers : Leads(call[d]),
         Sends(e) /\ backoff > 0 => Sends(call[c])
  PROVE  Parts'
<1>1. server \in Versions /\ server <= server
  BY FleetFetchAssumption DEF Parts, Versions
<1>2. CallsInv'
  BY <1>1, OneCall DEF Parts
<1>3. SendersCovered
  BY DEF SendersCovered, Parts, CallsInv
<1> QED BY <1>2, <1>3, SameWindow DEF Parts, StaleHasCrossed

\* The calls that wait or fail keep what they have.
LEMMA GateStep == ASSUME Parts, NEW c \in Callers, Gate(c) PROVE Parts'
<1>0. /\ call \in [Callers -> Call] /\ KindFits(call[c])
      /\ AnswerFits(call[c], server, written) /\ call[c] \in Call
  BY DEF Parts, CallsInv, CallsFit
<1>1. call[c].pc = "miss" /\ UNCHANGED <<server, cache, backoff, written, crossed, past>>
  BY DEF Gate
<1>2. ~ Leads(call[c])
  BY <1>1 DEF Leads, Answered
<1>3. CASE backoff > 0
  <2> DEFINE e == Over(call[c], Empty)
  <2>1. call' = [call EXCEPT ![c] = e]
    BY <1>3 DEF Gate
  <2>2. /\ e \in Call /\ e.pc = "idle" /\ e.since = call[c].since
        /\ e.kind = (IF call[c].kind = "force" THEN "force" ELSE "read")
        /\ call[c].kind = "force" => e.got = Empty
    BY <1>0, OverType
  <2> HIDE DEF e
  <2>3. KindFits(e) /\ ~ Leads(e) /\ ~ Sends(e)
    BY <2>2 DEF KindFits, Leads, Sends, Answered
  <2>4. AnswerFits(e, server, written)
    BY <1>0, <2>2 DEF AnswerFits
  <2> QED BY <1>1, <1>2, <2>1, <2>2, <2>3, <2>4, OneCallStep
<1>4. CASE ~(backoff > 0)
  <2>1. MovesTo(c, "go")
    BY <1>4 DEF Gate, MovesTo
  <2>2. PICK e \in Call : Becomes(c, "go", e)
    BY <1>0, <2>1, Moved DEF Pcs
  <2>3. KindFits(e) /\ AnswerFits(e, server, written) /\ ~ Leads(e)
    BY <1>0, <1>1, <2>2 DEF Becomes, KindFits, AnswerFits, Leads, Answered
  <2> QED BY <1>1, <1>2, <1>4, <2>2, <2>3, OneCallStep DEF Becomes
<1> QED BY <1>3, <1>4

LEMMA EnterStep == ASSUME Parts, NEW c \in Callers, Enter(c) PROVE Parts'
<1>0. /\ call \in [Callers -> Call] /\ KindFits(call[c])
      /\ AnswerFits(call[c], server, written) /\ call[c] \in Call
  BY DEF Parts, CallsInv, CallsFit
<1>1. /\ call[c].pc = "go" /\ call' = [call EXCEPT ![c].pc = Enters(c)]
      /\ UNCHANGED <<server, cache, backoff, written, crossed, past>>
  BY DEF Enter
<1>2. /\ call[c].kind = "force" => Enters(c) = "send"
      /\ call[c].kind # "force" /\ Leading # {} => Enters(c) = "wait"
      /\ call[c].kind # "force" /\ Leading = {} => Enters(c) = "lead"
  BY DEF Enters
<1>3. Leading # {} <=> \E d \in Callers : Leads(call[d])
  BY LeadingLeads
<1>40. PICK e \in Call : Becomes(c, Enters(c), e)
  <2>1. Enters(c) \in Pcs
    BY <1>2 DEF Pcs
  <2> QED BY <1>0, <1>1, <2>1, Moved DEF MovesTo
<1>4. /\ call' = [call EXCEPT ![c] = e] /\ e.pc = Enters(c)
      /\ e.kind = call[c].kind /\ e.since = call[c].since
  BY <1>40 DEF Becomes
<1>5. ~ Leads(call[c])
  BY <1>1 DEF Leads, Answered
<1>6. KindFits(e) /\ AnswerFits(e, server, written)
  BY <1>0, <1>1, <1>2, <1>4, CallFields DEF KindFits, AnswerFits, Answered
<1>7. Leads(e) => ~ \E d \in Callers : Leads(call[d])
  BY <1>2, <1>3, <1>4 DEF Leads, Answered
<1>8. e.pc = "wait" => \E d \in Callers : Leads(call[d])
  BY <1>2, <1>3, <1>4
<1>9. Sends(e) => Sends(call[c])
  BY <1>1, <1>2, <1>4 DEF Sends
<1> QED BY <1>1, <1>4, <1>5, <1>6, <1>7, <1>8, <1>9, OneCallStep

\* A step that ends a call, and drops or keeps the window.
LEMMA DeliveryStep ==
  ASSUME Parts, NEW c \in Callers, NEW got \in Versions \cup {Empty},
         call' = Delivered(c, got),
         UNCHANGED <<server, cache, backoff, written, crossed, past>>,
         call[c].pc \in {"lead"} \cup Answered,
         call[c].kind = "force" /\ got # Empty => got >= call[c].since
  PROVE  Parts'
<1>1. call[c].kind = "read" => Leads(call[c])
  BY DEF Leads
<1>2. CallsInv' /\ SendersCovered
  BY <1>1, Delivery DEF Parts, SendersCovered, Answered
<1> QED BY <1>2, SameWindow DEF Parts, StaleHasCrossed

LEMMA RecheckStep == ASSUME Parts, NEW c \in Callers, Recheck(c) PROVE Parts'
<1>0. /\ call \in [Callers -> Call] /\ KindFits(call[c])
      /\ AnswerFits(call[c], server, written) /\ call[c] \in Call
  BY DEF Parts, CallsInv, CallsFit
<1>1. call[c].pc = "lead" /\ UNCHANGED <<server, cache, backoff, written, crossed, past>>
  BY DEF Recheck
<1>2. call[c].kind = "read" /\ Leads(call[c])
  BY <1>0, <1>1, CallFields DEF KindFits, Leads, Answered
<1>3. CASE cache # Empty
  BY <1>1, <1>2, <1>3, DeliveryStep DEF Recheck, Parts
<1>4. CASE cache = Empty /\ backoff > 0
  BY <1>1, <1>2, <1>4, DeliveryStep DEF Recheck
<1>5. CASE cache = Empty /\ ~(backoff > 0)
  <2>1. MovesTo(c, "send")
    BY <1>5 DEF Recheck, MovesTo
  <2>2. PICK e \in Call : Becomes(c, "send", e)
    BY <1>0, <2>1, Moved DEF Pcs
  <2>3. KindFits(e) /\ AnswerFits(e, server, written) /\ Leads(e)
    BY <1>2, <2>2 DEF Becomes, KindFits, AnswerFits, Leads, Answered
  <2> QED BY <1>1, <1>2, <1>5, <2>2, <2>3, OneCallStep DEF Becomes
<1> QED BY <1>3, <1>4, <1>5

LEMMA AnswerGetStep == ASSUME Parts, NEW c \in Callers, AnswerGet(c) PROVE Parts'
<1>0. /\ call \in [Callers -> Call] /\ KindFits(call[c]) /\ server \in Versions
      /\ AnswerFits(call[c], server, written) /\ call[c] \in Call
      /\ written \in Versions /\ written <= server
  BY DEF Parts, CallsInv, CallsFit
<1>1. call[c].pc = "send" /\ UNCHANGED <<server, cache, backoff, written, crossed, past>>
  BY DEF AnswerGet
<1>2. call[c].kind # "write" /\ (Leads(call[c]) <=> call[c].kind = "read")
  BY <1>0, <1>1 DEF KindFits, Leads
<1>3. CASE AnsweredBy(c, "ok", server)
  <2>1. PICK e \in Call : BecomesWith(c, "ok", server, e)
    BY <1>0, <1>3, MovedWith
  <2>2. KindFits(e) /\ (Leads(e) <=> e.kind = "read") /\ ~ Sends(e)
    BY <1>2, <2>1 DEF BecomesWith, KindFits, Leads, Sends, Answered
  <2>3. AnswerFits(e, server, written)
    BY <1>0, <1>2, <2>1, FleetFetchAssumption DEF BecomesWith, AnswerFits, Versions
  <2> QED BY <1>1, <1>2, <2>1, <2>2, <2>3, OneCallStep DEF BecomesWith
<1>4. CASE \E d \in Delays : RefusedFor(c, d)
  <2>1. PICK e \in Call : BecomesWith(c, "limited", call[c].got, e)
    BY <1>0, <1>4, MovedLimited
  <2>2. KindFits(e) /\ (Leads(e) <=> e.kind = "read") /\ ~ Sends(e)
    BY <1>2, <2>1 DEF BecomesWith, KindFits, Leads, Sends, Answered
  <2>3. AnswerFits(e, server, written)
    BY <1>0, <2>1 DEF BecomesWith, AnswerFits
  <2> QED BY <1>1, <1>2, <2>1, <2>2, <2>3, OneCallStep DEF BecomesWith
<1>5. CASE MovesTo(c, "bad")
  <2>1. PICK e \in Call : Becomes(c, "bad", e)
    BY <1>0, <1>5, Moved DEF Pcs
  <2>2. KindFits(e) /\ (Leads(e) <=> e.kind = "read") /\ ~ Sends(e)
    BY <1>2, <2>1 DEF Becomes, KindFits, Leads, Sends, Answered
  <2>3. AnswerFits(e, server, written)
    BY <1>0, <2>1 DEF Becomes, AnswerFits
  <2> QED BY <1>1, <1>2, <2>1, <2>2, <2>3, OneCallStep DEF Becomes
<1> QED BY <1>3, <1>4, <1>5 DEF AnswerGet, AnsweredBy, RefusedFor, MovesTo

LEMMA FailStep == ASSUME Parts, NEW c \in Callers, Fail(c) PROVE Parts'
BY DeliveryStep DEF Fail, Answered

\* The cache takes the answer; if a write has overtaken it, crossed says so.
LEMMA StoreStep == ASSUME Parts, NEW c \in Callers, Store(c) PROVE Parts'
<1>1. /\ AnswerFits(call[c], server, written) /\ call[c] \in Call /\ call[c].pc = "ok"
      /\ call[c].crossed \in BOOLEAN /\ KindFits(call[c])
  BY CallFields DEF Parts, CallsInv, CallsFit, Store
<1>2. call[c].got \in Versions
  BY <1>1 DEF AnswerFits
<1>3. CallsInv' /\ SendersCovered
  <2>1. call[c].kind = "read" => Leads(call[c])
    BY <1>1 DEF Leads, Answered
  <2>2. call[c].kind = "force" /\ call[c].got # Empty => call[c].got >= call[c].since
    BY <1>1 DEF AnswerFits
  <2> QED BY <1>1, <1>2, <2>1, <2>2, Delivery DEF Store, Parts, SendersCovered
<1>4. StaleHasCrossed'
  BY <1>1 DEF Store, StaleHasCrossed, AnswerFits
<1> QED BY <1>1, <1>2, <1>3, <1>4, SameWindow DEF Store, Parts

\* The window opens or grows; those that it finds beyond their last look are past.
LEMMA LimitedStep == ASSUME Parts, NEW c \in Callers, Limited(c) PROVE Parts'
<1>1. call[c].pc = "limited" /\ call[c] \in Call /\ call[c].delay \in Delays
  BY CallFields DEF Limited, Parts, CallsInv
<1>2. CallsInv' /\ \A d \in Callers : Sends(call'[d]) => Sends(call[d])
  <2>1. call[c].kind = "read" => Leads(call[c])
    BY <1>1 DEF Leads, Answered
  <2> QED BY <1>1, <2>1, Delivery DEF Limited, Parts
<1>3. backoff' \in Delays
  BY <1>1 DEF Limited, Extended, Parts
<1>4. past' \subseteq Callers
  BY DEF Limited, Parts
<1>5. PastCovers'
  <2>1. CASE backoff = 0 /\ backoff' > 0
    <3>1. \A d \in Callers : Sends(call[d]) => d \in past'
      BY <2>1 DEF Limited, Sends
    <3> QED BY <1>2, <3>1 DEF PastCovers, Sends
  <2>2. CASE backoff > 0
    <3>1. past' = past
      BY <2>2, FleetFetchAssumption DEF Limited, Parts, Delays
    <3> QED BY <1>2, <2>2, <3>1 DEF PastCovers, Sends, Parts
  <2>3. CASE ~(backoff' > 0)
    BY <2>3 DEF PastCovers
  <2>4. backoff = 0 \/ backoff > 0
    BY FleetFetchAssumption DEF Parts, Delays
  <2> QED BY <2>1, <2>2, <2>3, <2>4
<1> QED BY <1>2, <1>3, <1>4, <1>5 DEF Limited, Parts, StaleHasCrossed

LEMMA AnswerPostStep == ASSUME Parts, NEW c \in Callers, AnswerPost(c) PROVE Parts'
<1>0. /\ call \in [Callers -> Call] /\ KindFits(call[c]) /\ server \in Versions
      /\ AnswerFits(call[c], server, written) /\ call[c] \in Call
      /\ written \in Versions /\ written <= server
  BY DEF Parts, CallsInv, CallsFit
<1>1. call[c].pc = "post" /\ UNCHANGED <<cache, backoff, written, crossed, past>>
  BY DEF AnswerPost
<1>2. call[c].kind = "write" /\ ~ Leads(call[c])
  BY <1>0, <1>1, CallFields DEF KindFits, Leads, Answered
<1>3. ASSUME NEW e \in Call, call' = [call EXCEPT ![c] = e], e.kind = "write",
             \/ server' = server /\ e.pc \in {"limited", "bad"}
             \/ server < MaxVersion /\ server' = server + 1
                  /\ (e.pc = "bad" \/ (e.pc = "written" /\ e.got = server + 1))
      PROVE  Parts'
  <2>1. server' \in Versions /\ server <= server' /\ written <= server'
    BY <1>0, <1>3, FleetFetchAssumption DEF Versions
  <2>2. KindFits(e) /\ ~ Leads(e) /\ ~ Sends(e) /\ e.pc # "wait"
    BY <1>3 DEF KindFits, Leads, Sends, Answered
  <2>3. e.pc = "written" => e.got \in Versions /\ e.got <= server'
    BY <1>3, <2>1, FleetFetchAssumption DEF Versions
  <2>4. AnswerFits(e, server', written)
    BY <1>3, <2>3 DEF AnswerFits
  <2>5. CallsInv'
    BY <1>0, <1>1, <1>2, <1>3, <2>1, <2>2, <2>4, OneCall DEF Parts
  <2>6. SendersCovered
    BY <1>3, <2>2 DEF SendersCovered, Parts, CallsInv
  <2> QED BY <1>0, <1>1, <2>1, <2>5, <2>6, SameWindow DEF Parts, StaleHasCrossed
<1>4. CASE server < MaxVersion /\ server' = server + 1 /\ WrittenAs(c, server + 1)
  <2>1. server + 1 \in Versions
    BY <1>0, <1>4, FleetFetchAssumption DEF Versions
  <2>2. PICK e \in Call : BecomesWith(c, "written", server + 1, e)
    BY <1>0, <1>4, <2>1, MovedWith
  <2> QED BY <1>2, <1>3, <1>4, <2>2 DEF BecomesWith
<1>5. CASE /\ (server < MaxVersion /\ server' = server + 1) \/ server' = server
           /\ MovesTo(c, "bad")
  <2>1. PICK e \in Call : Becomes(c, "bad", e)
    BY <1>0, <1>5, Moved DEF Pcs
  <2> QED BY <1>2, <1>3, <1>5, <2>1 DEF Becomes
<1>6. CASE server' = server /\ \E d \in Delays : RefusedFor(c, d)
  <2>1. PICK e \in Call : BecomesWith(c, "limited", call[c].got, e)
    BY <1>0, <1>6, MovedLimited
  <2> QED BY <1>2, <1>3, <1>6, <2>1 DEF BecomesWith
<1> QED BY <1>4, <1>5, <1>6 DEF AnswerPost, WrittenAs, RefusedFor, MovesTo

\* A write drops the document and marks the answers on their way.
LEMMA WrittenStep == ASSUME Parts, NEW c \in Callers, Written(c) PROVE Parts'
<1> DEFINE Marked(d) == [call[d] EXCEPT !.crossed = TRUE]
<1>0. /\ \A d \in Callers : /\ call[d] \in Call /\ KindFits(call[d])
                            /\ AnswerFits(call[d], server, written)
      /\ server \in Versions /\ written \in Versions /\ written <= server
  BY DEF Parts, CallsInv, CallsFit
<1>1. /\ call[c].pc = "written" /\ UNCHANGED <<server, backoff, past>>
      /\ cache' = Empty /\ crossed' = FALSE
      /\ written' = IF call[c].got > written THEN call[c].got ELSE written
  BY DEF Written, Dropped
<1>2. call[c].got \in Versions /\ call[c].got <= server
  BY <1>0, <1>1 DEF AnswerFits
<1>3. written' \in Versions /\ written' <= server
  BY <1>0, <1>1, <1>2
<1>4. call' = [d \in Callers |-> IF d = c THEN Over(call[c], call[c].got)
                ELSE IF call[d].pc \in Answered THEN Marked(d) ELSE call[d]]
  BY DEF Written
<1>5. \A d \in Callers :
        /\ Marked(d) \in Call /\ Marked(d).pc = call[d].pc /\ Marked(d).kind = call[d].kind
        /\ Marked(d).since = call[d].since /\ Marked(d).got = call[d].got
        /\ Marked(d).crossed = TRUE
  BY <1>0 DEF Call
<1> HIDE DEF Marked
<1>6. call[c].kind = "write" /\ ~ Leads(call[c])
  BY <1>0, <1>1, CallFields DEF KindFits, Leads, Answered
<1> DEFINE o == Over(call[c], call[c].got)
<1>7. o \in Call /\ o.pc = "idle" /\ o.kind = "read" /\ ~ Leads(o) /\ ~ Sends(o)
  <2>1. o \in Call /\ o.pc = "idle" /\ o.kind = "read"
    BY <1>0, <1>2, <1>6, OverType
  <2> QED BY <2>1 DEF Leads, Sends, Answered
<1>70. o = Over(call[c], call[c].got)
  OBVIOUS
<1> HIDE DEF o
<1>8. call' \in [Callers -> Call]
  BY <1>0, <1>4, <1>5, <1>7, <1>70
<1>9. \A d \in Callers :
        /\ d = c => call'[d] = o
        /\ d # c /\ call[d].pc \in Answered => call'[d] = Marked(d)
        /\ d # c /\ call[d].pc \notin Answered => call'[d] = call[d]
  BY <1>4, <1>70
<1>10. \A d \in Callers : d # c => /\ call'[d].pc = call[d].pc /\ call'[d].kind = call[d].kind
                                  /\ call'[d].since = call[d].since
                                  /\ call'[d].got = call[d].got
  BY <1>5, <1>9
<1>11. \A d \in Callers : /\ Leads(call'[d]) <=> Leads(call[d])
                          /\ Sends(call'[d]) => Sends(call[d])
  BY <1>6, <1>7, <1>9, <1>10 DEF Leads, Sends
<1>12. \A d \in Callers : call'[d].pc = "wait" => \E b \in Callers : Leads(call'[b])
  BY <1>7, <1>9, <1>10, <1>11 DEF Parts, CallsInv
<1>13. \A b, d \in Callers : Leads(call'[b]) /\ Leads(call'[d]) => b = d
  BY <1>11 DEF Parts, CallsInv
<1>14. \A d \in Callers : KindFits(call'[d]) /\ AnswerFits(call'[d], server, written')
  <2> SUFFICES ASSUME NEW d \in Callers
               PROVE  KindFits(call'[d]) /\ AnswerFits(call'[d], server, written')
    OBVIOUS
  <2>1. CASE d = c
    BY <1>7, <1>9, <2>1 DEF KindFits, AnswerFits
  <2>2. CASE d # c
    <3>1. KindFits(call'[d])
      BY <1>0, <1>10, <2>2 DEF KindFits
    <3>2. call'[d].pc = "ok" => call'[d].crossed
      BY <1>5, <1>9, <1>10, <2>2 DEF Answered
    <3>3. AnswerFits(call'[d], server, written')
      BY <1>0, <1>10, <2>2, <3>2 DEF AnswerFits
    <3> QED BY <3>1, <3>3
  <2> QED BY <2>1, <2>2
<1>15. CallsInv'
  BY <1>1, <1>8, <1>12, <1>13, <1>14 DEF CallsInv, CallsFit, Leads, KindFits, AnswerFits
<1>16. SendersCovered
  BY <1>11 DEF SendersCovered
<1> QED BY <1>0, <1>1, <1>3, <1>15, <1>16, SameWindow DEF StaleHasCrossed

LEMMA ExpireStep == ASSUME Parts, Expire PROVE Parts'
BY DEF Expire, Parts, StaleHasCrossed, PastCovers, CallsInv, CallsFit, KindFits, AnswerFits,
       Leads

LEMMA TickStep == ASSUME Parts, Tick PROVE Parts'
<1>1. backoff' \in Delays /\ (backoff' > 0 => backoff > 0 /\ past' = past)
      /\ past' \subseteq Callers
  BY FleetFetchAssumption DEF Tick, Parts, Delays
<1>2. CallsInv' /\ StaleHasCrossed'
  BY DEF Tick, Parts, CallsInv, CallsFit, KindFits, AnswerFits, Leads, StaleHasCrossed
<1>3. PastCovers'
  BY <1>1 DEF Tick, PastCovers, Parts
<1> QED BY <1>1, <1>2, <1>3 DEF Tick, Parts

LEMMA IdleStep == ASSUME Parts, UNCHANGED vars PROVE Parts'
BY DEF vars, Parts, StaleHasCrossed, PastCovers, CallsInv, CallsFit, KindFits, AnswerFits,
       Leads
-----------------------------------------------------------------------------
LEMMA InvInit == ASSUME Init PROVE Parts
<1>0. 0 \in Versions /\ 0 \in Delays /\ 0 <= 0
  BY FleetFetchAssumption, Zero
<1>1. PICK r \in Call : r = Started("idle", "read") /\ r.kind = "read"
  BY <1>0, StartedType DEF Init, Pcs
<1>2. PICK o \in Call : o = Over(r, Empty) /\ o.pc = "idle" /\ o.kind = "read"
  BY <1>1, OverType
<1>3. \A c \in Callers : call[c] = o
  BY <1>1, <1>2 DEF Init
<1>4. KindFits(o) /\ AnswerFits(o, server, written) /\ ~ Leads(o)
  BY <1>2 DEF KindFits, AnswerFits, Leads, Answered
<1>5. CallsInv
  BY <1>1, <1>2, <1>3, <1>4 DEF Init, CallsInv, CallsFit
<1>6. StaleHasCrossed
  BY DEF Init, StaleHasCrossed
<1>7. PastCovers
  <2>1. ~(backoff > 0)
    BY DEF Init
  <2> QED BY <2>1 DEF PastCovers
<1>8. /\ server = 0 /\ written = 0 /\ cache = Empty /\ backoff = 0 /\ crossed = FALSE
      /\ past = {}
  BY DEF Init
<1> QED BY <1>0, <1>5, <1>6, <1>7, <1>8 DEF Parts

LEMMA InvNext == Parts /\ [Next]_vars => Parts'
<1> SUFFICES ASSUME Parts, [Next]_vars PROVE Parts'
  OBVIOUS
<1>1. CASE Expire
  BY <1>1, ExpireStep
<1>2. CASE Tick
  BY <1>2, TickStep
<1>3. ASSUME NEW c \in Callers, Begin(c) \/ Step(c) PROVE Parts'
  BY <1>3, BeginStep, GateStep, EnterStep, RecheckStep, AnswerGetStep, StoreStep, FailStep,
     LimitedStep, AnswerPostStep, WrittenStep DEF Step
<1>4. CASE UNCHANGED vars
  BY <1>4, IdleStep
<1> QED BY <1>1, <1>2, <1>3, <1>4 DEF Next

LEMMA Invariance == Spec => []Parts
<1>1. Init => Parts
  BY InvInit
<1>2. Parts /\ [Next]_vars => Parts'
  BY InvNext
<1> QED BY <1>1, <1>2, PTL DEF Spec

(***************************************************************************)
(* At most one unforced miss is inside singleflight at a time, however     *)
(* many callers miss (fleetapi.go:473-474), and the state is well typed.   *)
(***************************************************************************)
THEOREM OneRequestPerMiss == Spec => []MissesCoalesce
<1>1. Parts => MissesCoalesce
  BY InvParts DEF IInv
<1> QED BY <1>1, Invariance, PTL

(***************************************************************************)
(* A forced read never returns a document older than the moment it began.  *)
(***************************************************************************)
THEOREM ForcedReadIsFresh == Spec => []ForcedIsFresh
<1>1. Parts => ForcedIsFresh
  BY DEF Parts, CallsInv, CallsFit, AnswerFits, ForcedIsFresh
<1> QED BY <1>1, Invariance, PTL

(***************************************************************************)
(* Only an answer that was under way when a write dropped the document can *)
(* leave the cache older than that write.                                  *)
(***************************************************************************)
THEOREM StaleOnlyByCrossing == Spec => []StaleHasCrossed
<1>1. Parts => StaleHasCrossed
  BY DEF Parts
<1> QED BY <1>1, Invariance, PTL

(***************************************************************************)
(* While the client is backed off only the calls past their last look at   *)
(* the window send a GET, and only time shortens the window.               *)
(***************************************************************************)
THEOREM BackoffHolds == Spec => BackoffStopsReads
<1> DEFINE A == /\ backoff' >= backoff - 1
                /\ \A c \in Callers :
                     call[c].pc = "send" /\ call'[c].pc \in Answered /\ backoff > 0 => c \in past
<1>1. Parts /\ [Next]_vars => [A]_vars
  <2> SUFFICES ASSUME Parts, Next PROVE A
    OBVIOUS
  <2>0. backoff \in Nat
    BY FleetFetchAssumption DEF Parts, Delays
  <2>1. backoff' = backoff \/ backoff' = backoff - 1 \/ backoff' >= backoff
    <3>1. ASSUME NEW c \in Callers, Limited(c) PROVE backoff' >= backoff
      <4>1. call[c].delay \in Nat
        BY CallFields, FleetFetchAssumption DEF Parts, CallsInv, Delays
      <4> QED BY <2>0, <3>1, <4>1 DEF Limited, Extended
    <3> QED BY <3>1 DEF Next, Step, Expire, Tick, Begin, Gate, Enter, Recheck, AnswerGet,
                        Store, Fail, AnswerPost, Written
  <2>2. backoff' >= backoff - 1
    <3>1. Parts'
      BY InvNext
    <3>2. backoff' \in Nat
      BY <3>1, FleetFetchAssumption DEF Parts, Delays
    <3> QED BY <2>0, <2>1, <3>2
  <2>3. \A c \in Callers : call[c].pc = "send" /\ backoff > 0 => c \in past
    BY DEF Parts, PastCovers
  <2> QED BY <2>2, <2>3
<1> QED BY <1>1, Invariance, PTL DEF Spec, BackoffStopsReads
=============================================================================
