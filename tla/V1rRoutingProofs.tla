-------------------------- MODULE V1rRoutingProofs --------------------------
(***************************************************************************)
(* Theorems about V1rRouting, for every number of callers.                 *)
(***************************************************************************)
EXTENDS V1rRouting, TLAPS

Pcs == {"idle", "look", "api", "ask", "choose", "probe", "probing", "din",
        "cancel", "send", "denied", "took", "connect", "cold"}
Transports == {"none", "lan", "wifi", "legacy"}
AllKinds == Reads \cup Writes \cup {"probe", "connect"}

(***************************************************************************)
(* The updates of a request's record: they keep it well typed, and what    *)
(* they leave alone stays.                                                 *)
(***************************************************************************)
LEMMA CallFields ==
  ASSUME NEW e \in Call
  PROVE  /\ e.pc \in Pcs /\ e.kind \in AllKinds /\ e.t \in Transports
         /\ e.must \in BOOLEAN /\ e.retried \in BOOLEAN /\ e.strict \in BOOLEAN
         /\ e.stale \in BOOLEAN /\ e.taken \in 0..2 /\ e.undone \in BOOLEAN
BY DEF Call, Pcs, AllKinds, Transports

LEMMA IdleFields ==
  /\ Idle \in Call /\ Idle.pc = "idle" /\ Idle.kind = "probe" /\ Idle.t = "none"
  /\ Idle.strict = FALSE /\ Idle.taken = 0
BY DEF Idle, Call

\* What the invariant looks at.
Is(e, pc, kind, t, must) == e.pc = pc /\ e.kind = kind /\ e.t = t /\ e.must = must

\* What a step that moves a request on leaves alone.
Keeps(e, r) == e.strict = r.strict /\ e.undone = r.undone /\ e.taken = r.taken

LEMMA OneField ==
  ASSUME NEW r \in Call
  PROVE  /\ \A pc \in Pcs : [r EXCEPT !.pc = pc] \in Call
         /\ \A k \in AllKinds : [r EXCEPT !.kind = k] \in Call
         /\ \A t \in Transports : [r EXCEPT !.t = t] \in Call
         /\ \A b \in BOOLEAN : [r EXCEPT !.strict = b] \in Call
<1>1. \A pc \in Pcs : [r EXCEPT !.pc = pc] \in Call
  BY DEF Call, Pcs
<1>2. \A k \in AllKinds : [r EXCEPT !.kind = k] \in Call
  BY DEF Call, AllKinds
<1>3. \A t \in Transports : [r EXCEPT !.t = t] \in Call
  BY DEF Call, Transports
<1>4. \A b \in BOOLEAN : [r EXCEPT !.strict = b] \in Call
  BY DEF Call
<1> QED BY <1>1, <1>2, <1>3, <1>4

LEMMA MovedFields ==
  ASSUME NEW r \in Call, NEW pc \in Pcs
  PROVE  /\ [r EXCEPT !.pc = pc] \in Call
         /\ Is([r EXCEPT !.pc = pc], pc, r.kind, r.t, r.must)
         /\ Keeps([r EXCEPT !.pc = pc], r)
BY DEF Call, Pcs, Is, Keeps

LEMMA MovedOverFields ==
  ASSUME NEW r \in Call, NEW pc \in Pcs, NEW t \in Transports
  PROVE  /\ [r EXCEPT !.pc = pc, !.t = t] \in Call
         /\ Is([r EXCEPT !.pc = pc, !.t = t], pc, r.kind, t, r.must)
         /\ Keeps([r EXCEPT !.pc = pc, !.t = t], r)
<1>1. [r EXCEPT !.pc = pc, !.t = t] \in Call
  BY OneField
<1>2. /\ Is([r EXCEPT !.pc = pc, !.t = t], pc, r.kind, t, r.must)
      /\ Keeps([r EXCEPT !.pc = pc, !.t = t], r)
  BY DEF Call, Is, Keeps
<1> QED BY <1>1, <1>2

LEMMA ProbedFields ==
  ASSUME NEW r \in Call
  PROVE  LET e == [r EXCEPT !.pc = "din", !.t = "wifi", !.stale = FALSE] IN
         e \in Call /\ Is(e, "din", r.kind, "wifi", r.must) /\ Keeps(e, r)
BY DEF Call, Is, Keeps

LEMMA LookedFields ==
  ASSUME NEW r \in Call, NEW b \in BOOLEAN
  PROVE  /\ [r EXCEPT !.pc = "api", !.must = b] \in Call
         /\ Is([r EXCEPT !.pc = "api", !.must = b], "api", r.kind, r.t, b)
         /\ Keeps([r EXCEPT !.pc = "api", !.must = b], r)
BY DEF Call, Is, Keeps

LEMMA RetriedFields ==
  ASSUME NEW r \in Call
  PROVE  /\ [r EXCEPT !.pc = "send", !.retried = TRUE] \in Call
         /\ Is([r EXCEPT !.pc = "send", !.retried = TRUE], "send", r.kind, r.t, r.must)
         /\ Keeps([r EXCEPT !.pc = "send", !.retried = TRUE], r)
BY DEF Call, Is, Keeps

LEMMA UndoneFields ==
  ASSUME NEW r \in Call, NEW b \in BOOLEAN
  PROVE  /\ [r EXCEPT !.undone = b] \in Call
         /\ Is([r EXCEPT !.undone = b], r.pc, r.kind, r.t, r.must)
         /\ [r EXCEPT !.undone = b].strict = r.strict
         /\ [r EXCEPT !.undone = b].taken = r.taken
         /\ [r EXCEPT !.undone = b].undone = b
BY DEF Call, Is

LEMMA OutdatedFields ==
  ASSUME NEW r \in Call, NEW b \in BOOLEAN
  PROVE  /\ [r EXCEPT !.strict = FALSE, !.stale = b] \in Call
         /\ Is([r EXCEPT !.strict = FALSE, !.stale = b], r.pc, r.kind, r.t, r.must)
         /\ [r EXCEPT !.strict = FALSE, !.stale = b].strict = FALSE
         /\ [r EXCEPT !.strict = FALSE, !.stale = b].taken = r.taken
         /\ [r EXCEPT !.strict = FALSE, !.stale = b].undone = r.undone
BY DEF Call, Is

LEMMA TookFields ==
  ASSUME NEW r \in Call, r.taken = 0
  PROVE  /\ Took(r) \in Call /\ Is(Took(r), "took", r.kind, r.t, r.must)
         /\ Took(r).taken = 1 /\ Took(r).strict = r.strict /\ Took(r).undone = r.undone
<1>1. Took(r) = [r EXCEPT !.taken = 1, !.pc = "took"]
  BY DEF Took, Call
<1>2. 1 \in 0..2
  OBVIOUS
<1> DEFINE e == [r EXCEPT !.taken = 1, !.pc = "took"]
<1>3. e \in Call /\ Is(e, "took", r.kind, r.t, r.must)
  BY <1>2 DEF Call, Is
<1>4. e.taken = 1 /\ e.strict = r.strict /\ e.undone = r.undone
  BY DEF Call
<1> QED BY <1>1, <1>3, <1>4

LEMMA BegunFields ==
  ASSUME NEW k \in AllKinds, NEW b \in BOOLEAN, NEW pc \in Pcs
  PROVE  LET e == [Idle EXCEPT !.pc = pc, !.kind = k, !.strict = b] IN
         /\ e \in Call /\ Is(e, pc, k, "none", FALSE)
         /\ e.strict = b /\ e.taken = 0
<1> DEFINE e == [Idle EXCEPT !.pc = pc, !.kind = k, !.strict = b]
<1>1. e \in Call
  BY IdleFields, OneField
<1>2. Is(e, pc, k, "none", FALSE) /\ e.strict = b /\ e.taken = 0
  BY DEF Idle, Is
<1> QED BY <1>1, <1>2

LEMMA FirstStepOf ==
  ASSUME NEW k \in AllKinds
  PROVE  /\ k \in Reads => FirstStep(k) = "look"
         /\ k \in Writes => FirstStep(k) = "choose"
         /\ k = "probe" => FirstStep(k) = "probe"
         /\ k = "connect" => FirstStep(k) = "connect"
         /\ FirstStep(k) \in Pcs
BY DEF FirstStep, AllKinds, Reads, Writes, Pcs
-----------------------------------------------------------------------------
(***************************************************************************)
(* What all steps have in common.                                          *)
(***************************************************************************)
\* The rest of the state is well typed.
RestOK ==
  /\ config \in Configs /\ lanFailed \in BOOLEAN /\ din \in BOOLEAN
  /\ ready \in BOOLEAN /\ probed \in BOOLEAN /\ late \in BOOLEAN
  /\ event \in Events

LEMMA InvParts ==
  IInv <=> /\ RestOK /\ call \in [Callers -> Call]
           /\ \A c \in Callers : Fits(call[c], Requested, event)
           /\ DroppedIsReplaced /\ WindowIsProbed
BY DEF IInv, TypeOK, RestOK, Fits, KindFits, At

Parts ==
  /\ RestOK /\ call \in [Callers -> Call]
  /\ \A c \in Callers : Fits(call[c], Requested, event)
  /\ DroppedIsReplaced /\ WindowIsProbed

LEMMA RequestedNext ==
  ASSUME RestOK, config' = config, lanFailed' = lanFailed \/ lanFailed' = TRUE
  PROVE  Requested => Requested'
BY DEF Requested, RestOK, Configs

LEMMA RequestedSame ==
  ASSUME UNCHANGED <<config, lanFailed>>
  PROVE  Requested' = Requested
BY DEF Requested

\* More being called for does not disturb a request.
LEMMA FitsMore ==
  ASSUME NEW e, NEW q \in BOOLEAN, NEW r \in BOOLEAN, NEW ev, Fits(e, q, ev), q => r
  PROVE  Fits(e, r, ev)
BY DEF Fits, StrictFits

LEMMA RequestedBoolean == ASSUME RestOK PROVE Requested \in BOOLEAN
BY DEF RestOK, Requested, Configs

\* A step of one request that leaves event, LAN and configuration alone.
LEMMA OneRequest ==
  ASSUME Parts, NEW c \in Callers, NEW e \in Call, Becomes(c, e),
         UNCHANGED <<config, event, link>>,
         Fits(e, Requested, event),
         event = "dropped" /\ Replaces(call[c]) => Replaces(e),
         ready' \in BOOLEAN, probed' \in BOOLEAN, late' \in BOOLEAN, WindowIsProbed'
  PROVE  Parts'
<1>1. /\ call' \in [Callers -> Call]
      /\ \A d \in Callers : call'[d] = IF d = c THEN e ELSE call[d]
  BY DEF Parts, Becomes
<1>2. RestOK'
  BY DEF Parts, RestOK, link
<1>3. Requested' = Requested /\ event' = event
  BY RequestedSame DEF link
<1>4. \A d \in Callers : Fits(call'[d], Requested', event')
  BY <1>1, <1>3 DEF Parts
<1>5. event' = "dropped" => \E d \in Callers : Replaces(call'[d])
  <2> SUFFICES ASSUME event = "dropped" PROVE \E d \in Callers : Replaces(call'[d])
    BY <1>3
  <2>1. PICK d \in Callers : Replaces(call[d])
    BY DEF Parts, DroppedIsReplaced
  <2> QED BY <1>1, <2>1
<1> QED BY <1>1, <1>2, <1>4, <1>5
        DEF Parts, DroppedIsReplaced, Replaces, Fits, KindFits, StrictFits, CommandFits

\* ... and the window as well.
LEMMA OneRequestSameWindow ==
  ASSUME Parts, NEW c \in Callers, NEW e \in Call, Becomes(c, e),
         UNCHANGED <<config, event, link, window>>,
         Fits(e, Requested, event),
         event = "dropped" /\ Replaces(call[c]) => Replaces(e)
  PROVE  Parts'
<1>1. /\ ready' \in BOOLEAN /\ probed' \in BOOLEAN /\ late' \in BOOLEAN
      /\ WindowIsProbed'
  BY DEF Parts, RestOK, window, WindowIsProbed
<1> QED BY <1>1, OneRequest

LEMMA IdleFits == \A q, ev : Fits(Idle, q, ev) /\ ~ Replaces(Idle)
BY IdleFields DEF Fits, KindFits, StrictFits, CommandFits, Replaces

\* A request that ends while no event waits for it.
LEMMA Ends ==
  ASSUME Parts, NEW c \in Callers, End(c), UNCHANGED <<config, event, link, window>>,
         ~ Replaces(call[c])
  PROVE  Parts'
BY OneRequestSameWindow, IdleFields, IdleFits DEF End

\* What is known of a request.
LEMMA RequestFacts ==
  ASSUME Parts, NEW c \in Callers
  PROVE  /\ call[c] \in Call /\ KindFits(call[c]) /\ StrictFits(call[c], Requested)
         /\ CommandFits(call[c], event) /\ Requested \in BOOLEAN /\ RestOK
BY RequestedBoolean DEF Parts, Fits
-----------------------------------------------------------------------------
(***************************************************************************)
(* The steps, one lemma each.                                              *)
(***************************************************************************)
LEMMA BeginStep == ASSUME Parts, NEW c \in Callers, NEW k \in AllKinds, Begin(c, k) PROVE Parts'
<1> DEFINE b == Requested /\ k \in Reads
           w == FirstStep(k)
           e == [Idle EXCEPT !.pc = w, !.kind = k, !.strict = b]
<1>1. b \in BOOLEAN /\ w \in Pcs
  BY FirstStepOf
<1>3. Becomes(c, e) /\ At(c, "idle") /\ UNCHANGED <<config, event, link, window>>
  BY DEF Begin
<1> HIDE DEF b, w
<1>2. /\ e \in Call /\ Is(e, w, k, "none", FALSE) /\ e.strict = b /\ e.taken = 0
  BY <1>1, BegunFields
<1> HIDE DEF e
<1>4. e.strict => Requested /\ k \in Reads
  BY <1>2 DEF b
<1>5. Fits(e, Requested, event)
  BY <1>2, <1>4, FirstStepOf
     DEF w, Is, Fits, KindFits, StrictFits, CommandFits, AllKinds, Reads, Writes
<1>6. ~ Replaces(call[c])
  BY <1>3 DEF At, Replaces
<1> QED BY <1>2, <1>3, <1>5, <1>6, OneRequestSameWindow

LEMMA LookStep == ASSUME Parts, NEW c \in Callers, Look(c) PROVE Parts'
<1> DEFINE must == Must(call[c].kind)
<1>0. /\ call[c].pc = "look" /\ UNCHANGED <<config, event, link, window>> /\ RestOK
      /\ call[c] \in Call /\ KindFits(call[c]) /\ StrictFits(call[c], Requested)
      /\ CommandFits(call[c], event) /\ ~ Replaces(call[c])
  BY RequestFacts DEF Look, At, Replaces
<1>1. must \in BOOLEAN /\ (call[c].strict => must)
  BY <1>0 DEF Must, StrictFits, Requested, RestOK, Configs
<1>2. CASE call[c].kind = "status" /\ ~must /\ ~din
  <2> DEFINE e == [call[c] EXCEPT !.pc = "ask", !.t = "legacy"]
  <2>1. e \in Call /\ Is(e, "ask", call[c].kind, "legacy", call[c].must) /\ Keeps(e, call[c])
    BY <1>0, MovedOverFields DEF Pcs, Transports
  <2>2. Becomes(c, e)
    BY <1>2 DEF Look
  <2> HIDE DEF e
  <2>3. Fits(e, Requested, event)
    BY <1>0, <1>1, <1>2, <2>1 DEF Is, Keeps, Fits, KindFits, StrictFits, CommandFits
  <2> QED BY <1>0, <2>1, <2>2, <2>3, OneRequestSameWindow
<1>3. CASE ~(call[c].kind = "status" /\ ~must /\ ~din)
  <2> DEFINE e == [call[c] EXCEPT !.pc = "api", !.must = must]
  <2>1. e \in Call /\ Is(e, "api", call[c].kind, call[c].t, must) /\ Keeps(e, call[c])
    BY <1>0, <1>1, LookedFields
  <2>2. Becomes(c, e)
    BY <1>3 DEF Look
  <2> HIDE DEF e, must
  <2>3. Fits(e, Requested, event)
    BY <1>0, <1>1, <2>1 DEF Is, Keeps, Fits, KindFits, StrictFits, CommandFits
  <2> QED BY <1>0, <2>1, <2>2, <2>3, OneRequestSameWindow
<1> QED BY <1>2, <1>3

\* A request goes on over t, when that does not break what is promised.
LEMMA GoesOver ==
  ASSUME Parts, NEW c \in Callers, NEW pc \in Pcs, NEW t \in Transports,
         GotoOver(c, pc, t), UNCHANGED <<config, event, link, window>>,
         ~ Replaces(call[c]), call[c].pc # "took",
         \/ /\ pc = "ask" /\ call[c].kind \in Reads
            /\ call[c].strict => t # "legacy" /\ call[c].must
         \/ pc = "din" /\ call[c].kind \in Writes /\ t \in {"lan", "wifi"}
  PROVE  Parts'
<1> DEFINE e == [call[c] EXCEPT !.pc = pc, !.t = t]
<1>0. /\ call[c] \in Call /\ KindFits(call[c]) /\ StrictFits(call[c], Requested)
      /\ CommandFits(call[c], event)
  BY RequestFacts
<1>1. e \in Call /\ Is(e, pc, call[c].kind, t, call[c].must) /\ Keeps(e, call[c])
  BY <1>0, MovedOverFields
<1>2. Becomes(c, e)
  BY DEF GotoOver
<1> HIDE DEF e
<1>3. CASE /\ pc = "ask" /\ call[c].kind \in Reads
           /\ call[c].strict => t # "legacy" /\ call[c].must
  <2>1. Fits(e, Requested, event)
    BY <1>0, <1>1, <1>3 DEF Is, Keeps, Fits, KindFits, StrictFits, CommandFits
  <2> QED BY <1>1, <1>2, <2>1, OneRequestSameWindow
<1>4. CASE pc = "din" /\ call[c].kind \in Writes /\ t \in {"lan", "wifi"}
  <2>1. ~ call[c].strict
    BY <1>0, <1>4 DEF KindFits, StrictFits, Reads, Writes
  <2>2. Fits(e, Requested, event)
    BY <1>0, <1>1, <1>4, <2>1 DEF Is, Keeps, Fits, KindFits, StrictFits, CommandFits
  <2> QED BY <1>1, <1>2, <2>2, OneRequestSameWindow
<1> QED BY <1>3, <1>4

\* Beyond its reads a request is not strict, and before it ends not taken.
LEMMA NotStrict ==
  ASSUME Parts, NEW c \in Callers, call[c].pc \notin {"look", "api", "ask"}
  PROVE  call[c].strict = FALSE
BY RequestFacts, CallFields DEF StrictFits

\* A request that is not a read goes on where its kind may.
LEMMA Goes ==
  ASSUME Parts, NEW c \in Callers, NEW pc \in Pcs, Goto(c, pc),
         UNCHANGED <<config, event, link>>,
         ready' \in BOOLEAN, probed' \in BOOLEAN, late' \in BOOLEAN, WindowIsProbed',
         call[c].pc \notin {"look", "api", "ask", "took"}, pc \notin {"look", "api", "ask"},
         pc \in {"choose", "din", "cancel", "send", "denied", "took"} => call[c].kind \in Writes,
         pc = "cancel" => call[c].kind = "schedule",
         pc \in {"din", "cancel", "send", "denied"} => call[c].t \in {"lan", "wifi"},
         pc = "took" => call[c].kind = "island",
         Replaces(call[c]) => pc \in {"send", "denied"}
  PROVE  Parts'
<1> DEFINE e == [call[c] EXCEPT !.pc = pc]
<1>0. call[c] \in Call /\ CommandFits(call[c], event) /\ call[c].strict = FALSE
  BY RequestFacts, NotStrict
<1>1. e \in Call /\ Is(e, pc, call[c].kind, call[c].t, call[c].must) /\ Keeps(e, call[c])
  BY <1>0, MovedFields
<1>2. Becomes(c, e)
  BY DEF Goto
<1> HIDE DEF e
<1>3. Fits(e, Requested, event)
  BY <1>0, <1>1 DEF Is, Keeps, Fits, KindFits, StrictFits, CommandFits
<1>4. Replaces(call[c]) => Replaces(e)
  BY <1>1 DEF Replaces, Is
<1> QED BY <1>1, <1>2, <1>3, <1>4, OneRequest

LEMMA WindowSame ==
  ASSUME Parts, UNCHANGED window
  PROVE  /\ ready' \in BOOLEAN /\ probed' \in BOOLEAN /\ late' \in BOOLEAN
         /\ WindowIsProbed'
BY DEF Parts, RestOK, window, WindowIsProbed

LEMMA ChooseReadStep == ASSUME Parts, NEW c \in Callers, ChooseRead(c) PROVE Parts'
<1>0. /\ call[c].pc = "api" /\ UNCHANGED <<config, event, link, window>>
      /\ call[c].kind \in Reads /\ ~ Replaces(call[c])
      /\ call[c].strict => call[c].must
  BY RequestFacts DEF ChooseRead, At, KindFits, StrictFits, Replaces
<1>1. ReadTransport \in {"none", "lan", "wifi"}
  BY DEF ReadTransport
<1>2. CASE ReadTransport # "none"
  <2>1. GotoOver(c, "ask", ReadTransport)
    BY <1>2 DEF ChooseRead
  <2> QED BY <1>0, <1>1, <2>1, GoesOver DEF Pcs, Transports
<1>3. CASE ReadTransport = "none" /\ call[c].must
  BY <1>0, <1>3, Ends DEF ChooseRead
<1>4. CASE ReadTransport = "none" /\ ~ call[c].must
  <2>1. GotoOver(c, "ask", "legacy")
    BY <1>4 DEF ChooseRead
  <2> QED BY <1>0, <1>4, <2>1, GoesOver DEF Pcs, Transports
<1> QED BY <1>2, <1>3, <1>4

LEMMA ReadOkStep == ASSUME Parts, NEW c \in Callers, ReadOk(c) PROVE Parts'
BY Ends DEF ReadOk, At, Replaces

LEMMA ReadFailsStep == ASSUME Parts, NEW c \in Callers, ReadFails(c) PROVE Parts'
<1>0. /\ call[c].pc = "ask" /\ UNCHANGED <<config, event, link, window>>
      /\ call[c].kind \in Reads /\ ~ Replaces(call[c])
      /\ call[c].strict => call[c].must
  BY RequestFacts DEF ReadFails, At, KindFits, StrictFits, Replaces
<1>1. CASE call[c].t # "legacy" /\ ~ call[c].must
  <2>1. GotoOver(c, "ask", "legacy")
    BY <1>1 DEF ReadFails
  <2> QED BY <1>0, <1>1, <2>1, GoesOver DEF Pcs, Transports
<1>2. CASE ~(call[c].t # "legacy" /\ ~ call[c].must)
  BY <1>0, <1>2, Ends DEF ReadFails
<1> QED BY <1>1, <1>2

LEMMA ChooseStep == ASSUME Parts, NEW c \in Callers, Choose(c) PROVE Parts'
<1>0. /\ call[c].pc = "choose" /\ UNCHANGED <<config, event, link, window>>
      /\ call[c].kind \in Writes /\ ~ Replaces(call[c])
  BY RequestFacts DEF Choose, At, KindFits, Replaces
<1>1. \/ \E t \in {"lan", "wifi"} : GotoOver(c, "din", t)
      \/ End(c)
      \/ Goto(c, "probe")
  BY DEF Choose
<1>2. CASE \E t \in {"lan", "wifi"} : GotoOver(c, "din", t)
  BY <1>0, <1>2, GoesOver DEF Pcs, Transports
<1>3. CASE End(c)
  BY <1>0, <1>3, Ends
<1>4. CASE Goto(c, "probe")
  BY <1>0, <1>4, Goes, WindowSame DEF Pcs
<1> QED BY <1>1, <1>2, <1>3, <1>4

LEMMA ProbeBeginsStep == ASSUME Parts, NEW c \in Callers, ProbeBegins(c) PROVE Parts'
<1>0. /\ call[c].pc = "probe" /\ UNCHANGED <<config, event, link>> /\ ~ Replaces(call[c])
      /\ ready' = FALSE /\ probed' = FALSE /\ late' = FALSE
      /\ Goto(c, "probing") \/ End(c)
  BY DEF ProbeBegins, At, Replaces
<1>1. /\ ready' \in BOOLEAN /\ probed' \in BOOLEAN /\ late' \in BOOLEAN
      /\ WindowIsProbed'
  BY <1>0 DEF WindowIsProbed
<1>2. CASE Goto(c, "probing")
  BY <1>0, <1>1, <1>2, Goes DEF Pcs
<1>3. CASE End(c)
  BY <1>0, <1>1, <1>3, OneRequest, IdleFields, IdleFits DEF End
<1> QED BY <1>0, <1>2, <1>3

LEMMA ProbeEndsStep == ASSUME Parts, NEW c \in Callers, ProbeEnds(c) PROVE Parts'
<1>0. /\ call[c].pc = "probing" /\ UNCHANGED <<config, event, link>> /\ ~ Replaces(call[c])
  BY DEF ProbeEnds, At, Replaces
<1>1. PICK ok \in BOOLEAN :
        /\ ready' = ok /\ late' = (ok /\ call[c].stale) /\ probed' = (ok /\ ~call[c].stale)
        /\ IF ok /\ call[c].kind \in Writes
           THEN Becomes(c, [call[c] EXCEPT !.pc = "din", !.t = "wifi", !.stale = FALSE])
           ELSE End(c)
  BY DEF ProbeEnds
<1>2. call[c] \in Call /\ call[c].stale \in BOOLEAN /\ CommandFits(call[c], event)
      /\ call[c].strict = FALSE
  BY <1>0, RequestFacts, CallFields, NotStrict
<1>3. /\ ready' \in BOOLEAN /\ probed' \in BOOLEAN /\ late' \in BOOLEAN
      /\ WindowIsProbed'
  BY <1>1, <1>2 DEF WindowIsProbed
<1>4. CASE ok /\ call[c].kind \in Writes
  <2> DEFINE e == [call[c] EXCEPT !.pc = "din", !.t = "wifi", !.stale = FALSE]
  <2>1. e \in Call /\ Is(e, "din", call[c].kind, "wifi", call[c].must) /\ Keeps(e, call[c])
    BY <1>2, ProbedFields
  <2>2. Becomes(c, e)
    BY <1>1, <1>4
  <2> HIDE DEF e
  <2>3. Fits(e, Requested, event)
    BY <1>0, <1>2, <1>4, <2>1 DEF Is, Keeps, Fits, KindFits, StrictFits, CommandFits
  <2> QED BY <1>0, <1>3, <2>1, <2>2, <2>3, OneRequest
<1>5. CASE ~(ok /\ call[c].kind \in Writes)
  BY <1>0, <1>1, <1>3, <1>5, OneRequest, IdleFields, IdleFits DEF End
<1> QED BY <1>4, <1>5

LEMMA ResolveDinStep == ASSUME Parts, NEW c \in Callers, ResolveDin(c) PROVE Parts'
<1>0. /\ call[c].pc = "din" /\ UNCHANGED <<config, event, link, window>>
      /\ ~ Replaces(call[c]) /\ call[c].kind \in Writes /\ call[c].t \in {"lan", "wifi"}
  BY RequestFacts DEF ResolveDin, At, Replaces, KindFits
<1>1. \/ call[c].kind = "schedule" /\ Goto(c, "cancel")
      \/ Goto(c, "send")
      \/ End(c)
  BY DEF ResolveDin
<1>2. CASE call[c].kind = "schedule" /\ Goto(c, "cancel")
  BY <1>0, <1>2, Goes, WindowSame DEF Pcs
<1>3. CASE Goto(c, "send")
  BY <1>0, <1>3, Goes, WindowSame DEF Pcs
<1>4. CASE End(c)
  BY <1>0, <1>4, Ends
<1> QED BY <1>1, <1>2, <1>3, <1>4
-----------------------------------------------------------------------------
(***************************************************************************)
(* The steps that change the gateway's event.                              *)
(***************************************************************************)
LEMMA EventStep ==
  ASSUME Parts, UNCHANGED <<config, link, window>>,
         call' \in [Callers -> Call], event' \in Events,
         \A d \in Callers : Fits(call'[d], Requested, event'),
         event' = "dropped" => \E d \in Callers : Replaces(call'[d])
  PROVE  Parts'
<1>1. Requested' = Requested
  BY RequestedSame DEF link
<1>2. RestOK'
  BY DEF Parts, RestOK, link, window
<1>3. WindowIsProbed'
  BY WindowSame DEF Parts
<1> QED BY <1>1, <1>2, <1>3
        DEF Parts, DroppedIsReplaced, Replaces, Fits, KindFits, StrictFits, CommandFits

\* What the end of the event does to the requests: none depends on it any more.
LEMMA UndoneCalls ==
  ASSUME NEW calls \in [Callers -> Call]
  PROVE  /\ Undone(calls) \in [Callers -> Call]
         /\ \A d \in Callers :
              LET u == Undone(calls)[d] IN
              /\ Is(u, calls[d].pc, calls[d].kind, calls[d].t, calls[d].must)
              /\ u.strict = calls[d].strict /\ u.taken = calls[d].taken
              /\ calls[d].pc = "took" /\ calls[d].kind = "schedule" => u.undone
<1> DEFINE b(d) == calls[d].undone \/ (calls[d].pc = "took" /\ calls[d].kind = "schedule")
           u(d) == [calls[d] EXCEPT !.undone = b(d)]
<1>1. \A d \in Callers : b(d) \in BOOLEAN
  BY CallFields
<1>2. Undone(calls) = [d \in Callers |-> u(d)]
  BY DEF Undone
<1>3. \A d \in Callers : calls[d].pc = "took" /\ calls[d].kind = "schedule" => b(d)
  OBVIOUS
<1> HIDE DEF b
<1>4. \A d \in Callers : /\ u(d) \in Call
                         /\ Is(u(d), calls[d].pc, calls[d].kind, calls[d].t, calls[d].must)
                         /\ u(d).strict = calls[d].strict /\ u(d).taken = calls[d].taken
                         /\ u(d).undone = b(d)
  BY <1>1, UndoneFields
<1> HIDE DEF u
<1>5. \A d \in Callers : Undone(calls)[d] = u(d)
  BY <1>2
<1> QED BY <1>2, <1>3, <1>4, <1>5

LEMMA UndoneFits ==
  ASSUME NEW calls \in [Callers -> Call], NEW d \in Callers, NEW q, NEW v,
         KindFits(calls[d]), StrictFits(calls[d], q),
         calls[d].pc # "took" => calls[d].taken = 0,
         calls[d].pc = "took" =>
           calls[d].taken = 1 \/ (calls[d].taken = 0 /\ calls[d].kind = "island")
  PROVE  Fits(Undone(calls)[d], q, v)
<1> DEFINE u == Undone(calls)[d]
<1>1. /\ Is(u, calls[d].pc, calls[d].kind, calls[d].t, calls[d].must)
      /\ u.strict = calls[d].strict /\ u.taken = calls[d].taken
      /\ calls[d].pc = "took" /\ calls[d].kind = "schedule" => u.undone
  BY UndoneCalls
<1> HIDE DEF u
<1>2. KindFits(u) /\ StrictFits(u, q) /\ CommandFits(u, v)
  BY <1>1 DEF Is, KindFits, StrictFits, CommandFits
<1> QED BY <1>2 DEF Fits, u

\* A schedule that goes on to its command, having cancelled the event or not.
LEMMA CancelFirstStep == ASSUME Parts, NEW c \in Callers, CancelFirst(c) PROVE Parts'
<1>0. /\ call[c].pc = "cancel" /\ UNCHANGED <<config, link, window>> /\ ~ Replaces(call[c])
      /\ call[c].kind = "schedule" /\ call[c].t \in {"lan", "wifi"} /\ call[c] \in Call
      /\ CommandFits(call[c], event) /\ StrictFits(call[c], Requested)
      /\ call[c].kind \in Writes /\ event \in Events
  BY RequestFacts DEF CancelFirst, At, Replaces, KindFits, Writes, RestOK
<1>1. CASE Goto(c, "send") /\ UNCHANGED event
  BY <1>0, <1>1, Goes, WindowSame DEF Pcs
<1>2. CASE event' = Cancelled /\ call' = Undone([call EXCEPT ![c].pc = "send"])
  <2> DEFINE e == [call[c] EXCEPT !.pc = "send"]
             calls == [call EXCEPT ![c] = e]
  <2>1. e \in Call /\ Is(e, "send", call[c].kind, call[c].t, call[c].must)
        /\ Keeps(e, call[c])
    BY <1>0, MovedFields DEF Pcs
  <2>2. call' = Undone(calls)
    BY <1>2
  <2> HIDE DEF e
  <2>3. /\ calls \in [Callers -> Call]
        /\ \A d \in Callers : calls[d] = IF d = c THEN e ELSE call[d]
    BY <2>1 DEF Parts
  <2> HIDE DEF calls
  <2>4. KindFits(e) /\ StrictFits(e, Requested) /\ e.pc # "took" /\ e.taken = 0
    BY <1>0, <2>1, NotStrict DEF Is, Keeps, KindFits, StrictFits, CommandFits
  <2>5. \A d \in Callers : Fits(Undone(calls)[d], Requested, event')
    <3> SUFFICES ASSUME NEW d \in Callers PROVE Fits(Undone(calls)[d], Requested, event')
      OBVIOUS
    <3>1. CASE d = c
      BY <2>3, <2>4, <3>1, UndoneFits
    <3>2. CASE d # c
      <4>1. calls[d] = call[d]
        BY <2>3, <3>2
      <4> QED BY <2>3, <4>1, RequestFacts, UndoneFits DEF CommandFits
    <3> QED BY <3>1, <3>2
  <2>6. Replaces(Undone(calls)[c])
    BY <1>0, <2>1, <2>3, UndoneCalls DEF Is, Replaces
  <2>7. event' \in Events
    BY <1>0, <1>2 DEF Cancelled, Events
  <2>8. call' \in [Callers -> Call]
    BY <2>2, <2>3, UndoneCalls
  <2> QED BY <1>0, <2>2, <2>5, <2>6, <2>7, <2>8, EventStep
<1> QED BY <1>1, <1>2 DEF CancelFirst

\* A command that the gateway has taken.
LEMMA TakenStep == ASSUME Parts, NEW c \in Callers, Taken(c) PROVE Parts'
<1>0. /\ call[c].pc = "send" /\ UNCHANGED <<config, link, window>> /\ call[c].kind \in Writes
      /\ call[c] \in Call /\ call[c].taken = 0 /\ call[c].strict = FALSE
      /\ event \in Events /\ event' = EventAfter(call[c].kind)
      /\ call \in [Callers -> Call]
  BY RequestFacts, NotStrict DEF Taken, At, KindFits, CommandFits, RestOK, Parts
<1> DEFINE U == IF call[c].kind = "unschedule" THEN Undone(call) ELSE call
<1>1. PICK r \in {Took(call[c]), Idle} : call' = [U EXCEPT ![c] = r]
  BY DEF Taken
<1>2. U \in [Callers -> Call]
  BY <1>0, UndoneCalls
<1>3. r \in Call /\ Fits(r, Requested, event')
  <2>1. CASE r = Idle
    BY <2>1, IdleFields, IdleFits
  <2>2. CASE r = Took(call[c])
    <3>1. r \in Call /\ Is(r, "took", call[c].kind, call[c].t, call[c].must)
          /\ r.taken = 1 /\ r.strict = call[c].strict
      BY <1>0, <2>2, TookFields
    <3>2. call[c].kind = "schedule" => event' = "on"
      BY <1>0 DEF EventAfter
    <3> QED BY <1>0, <3>1, <3>2 DEF Is, Fits, KindFits, StrictFits, CommandFits
  <2> QED BY <2>1, <2>2
<1>4. \A d \in Callers : d # c => Fits(U[d], Requested, event')
  <2> SUFFICES ASSUME NEW d \in Callers, d # c PROVE Fits(U[d], Requested, event')
    OBVIOUS
  <2>1. KindFits(call[d]) /\ StrictFits(call[d], Requested) /\ CommandFits(call[d], event)
    BY RequestFacts
  <2>2. CASE call[c].kind = "unschedule"
    <3>1. U = Undone(call)
      BY <2>2
    <3>2. Fits(Undone(call)[d], Requested, event')
      BY <1>0, <2>1, UndoneFits DEF CommandFits
    <3> QED BY <3>1, <3>2
  <2>3. CASE call[c].kind # "unschedule"
    <3>1. U[d] = call[d] /\ (event' = "on" \/ event' = event)
      BY <1>0, <2>3 DEF EventAfter
    <3> QED BY <2>1, <3>1 DEF Fits, CommandFits
  <2> QED BY <2>2, <2>3
<1>5. event' \in Events
  BY <1>0 DEF EventAfter, Events
<1>6. event' = "dropped" => \E d \in Callers : d # c /\ Replaces(U[d])
  <2> SUFFICES ASSUME event' = "dropped" PROVE \E d \in Callers : d # c /\ Replaces(U[d])
    OBVIOUS
  <2>1. call[c].kind \notin {"schedule", "unschedule"} /\ event = "dropped"
    BY <1>0 DEF EventAfter
  <2>2. PICK d \in Callers : Replaces(call[d])
    BY <2>1 DEF Parts, DroppedIsReplaced
  <2>3. d # c /\ U[d] = call[d]
    BY <2>1, <2>2 DEF Replaces
  <2> QED BY <2>2, <2>3
<1> HIDE DEF U
<1>7. /\ call' \in [Callers -> Call]
      /\ \A d \in Callers : call'[d] = IF d = c THEN r ELSE U[d]
  BY <1>1, <1>2, <1>3
<1>8. \A d \in Callers : Fits(call'[d], Requested, event')
  BY <1>3, <1>4, <1>7
<1>9. event' = "dropped" => \E d \in Callers : Replaces(call'[d])
  BY <1>6, <1>7
<1> QED BY <1>0, <1>5, <1>7, <1>8, <1>9, EventStep

\* A command that has failed; an event dropped for it is lost.
LEMMA FailStep ==
  ASSUME Parts, NEW c \in Callers, Fail(c), UNCHANGED <<config, link, window>>
  PROVE  Parts'
<1>1. /\ call' = [call EXCEPT ![c] = Idle] /\ event' = EventLost(call[c].kind)
      /\ event \in Events /\ call \in [Callers -> Call]
  BY DEF Fail, End, Becomes, Parts, RestOK
<1>2. /\ call' \in [Callers -> Call] /\ event' \in Events
      /\ \A d \in Callers : call'[d] = IF d = c THEN Idle ELSE call[d]
  BY <1>1, IdleFields DEF EventLost, Events
<1>3. event' = event \/ (event = "dropped" /\ event' = "lost")
  BY <1>1 DEF EventLost
<1>4. \A d \in Callers : Fits(call'[d], Requested, event')
  <2> SUFFICES ASSUME NEW d \in Callers PROVE Fits(call'[d], Requested, event')
    OBVIOUS
  <2>1. Fits(call[d], Requested, event')
    BY <1>3 DEF Parts, Fits, CommandFits
  <2> QED BY <1>2, <2>1, IdleFits
<1>5. event' = "dropped" => \E d \in Callers : Replaces(call'[d])
  <2> SUFFICES ASSUME event' = "dropped" PROVE \E d \in Callers : Replaces(call'[d])
    OBVIOUS
  <2>1. event = "dropped" /\ call[c].kind # "schedule"
    BY <1>1 DEF EventLost
  <2>2. PICK d \in Callers : Replaces(call[d])
    BY <2>1 DEF Parts, DroppedIsReplaced
  <2> QED BY <1>2, <2>1, <2>2 DEF Replaces
<1> QED BY <1>2, <1>4, <1>5, EventStep

LEMMA RefusedStep == ASSUME Parts, NEW c \in Callers, Refused(c) PROVE Parts'
<1>0. call[c].pc = "send" /\ UNCHANGED <<config, link, window>> /\ call[c].kind \in Writes
  BY RequestFacts DEF Refused, At, KindFits
<1>1. CASE call[c].kind = "island" /\ Goto(c, "took") /\ UNCHANGED event
  <2>1. ~ Replaces(call[c])
    BY <1>1 DEF Replaces
  <2> QED BY <1>0, <1>1, <2>1, Goes, WindowSame DEF Pcs
<1>2. CASE Fail(c)
  BY <1>0, <1>2, FailStep
<1> QED BY <1>1, <1>2 DEF Refused

LEMMA DeniedStep == ASSUME Parts, NEW c \in Callers, Denied(c) PROVE Parts'
<1>0. /\ call[c].pc = "send" /\ UNCHANGED <<config, link, window>> /\ call[c].kind \in Writes
      /\ call[c].t \in {"lan", "wifi"}
  BY RequestFacts DEF Denied, At, KindFits
<1>1. CASE Goto(c, "denied") /\ UNCHANGED event
  BY <1>0, <1>1, Goes, WindowSame DEF Pcs
<1>2. CASE Fail(c)
  BY <1>0, <1>2, FailStep
<1> QED BY <1>1, <1>2 DEF Denied

LEMMA ReloginStep == ASSUME Parts, NEW c \in Callers, Relogin(c) PROVE Parts'
<1>0. /\ call[c].pc = "denied" /\ UNCHANGED <<config, link, window>> /\ call[c].kind \in Writes
      /\ call[c].t \in {"lan", "wifi"} /\ call[c] \in Call /\ call[c].strict = FALSE
      /\ call[c].taken = 0
  BY RequestFacts, NotStrict DEF Relogin, At, KindFits, CommandFits
<1>1. CASE /\ Becomes(c, [call[c] EXCEPT !.pc = "send", !.retried = TRUE])
           /\ UNCHANGED event
  <2> DEFINE e == [call[c] EXCEPT !.pc = "send", !.retried = TRUE]
  <2>1. e \in Call /\ Is(e, "send", call[c].kind, call[c].t, call[c].must) /\ Keeps(e, call[c])
    BY <1>0, RetriedFields
  <2>2. Becomes(c, e)
    BY <1>1
  <2> HIDE DEF e
  <2>3. Fits(e, Requested, event) /\ (Replaces(call[c]) => Replaces(e))
    BY <1>0, <2>1 DEF Is, Keeps, Fits, KindFits, StrictFits, CommandFits, Replaces
  <2> QED BY <1>0, <1>1, <2>1, <2>2, <2>3, OneRequestSameWindow
<1>2. CASE Fail(c)
  BY <1>0, <1>2, FailStep
<1> QED BY <1>1, <1>2 DEF Relogin

LEMMA SucceedStep == ASSUME Parts, NEW c \in Callers, Succeed(c) PROVE Parts'
BY Ends DEF Succeed, At, Replaces

\* The event ends by itself: no request depends on it any more.
LEMMA EventEndsStep == ASSUME Parts, EventEnds PROVE Parts'
<1>0. event' = "none" /\ call' = Undone(call) /\ UNCHANGED <<config, link, window>>
      /\ call \in [Callers -> Call]
  BY DEF EventEnds, Parts
<1>1. \A d \in Callers : Fits(Undone(call)[d], Requested, event')
  BY <1>0, RequestFacts, UndoneFits DEF CommandFits
<1> QED BY <1>0, <1>1, UndoneCalls, EventStep DEF Events
-----------------------------------------------------------------------------
(***************************************************************************)
(* The steps of time and of the LAN.                                       *)
(***************************************************************************)
LEMMA WindowClosesStep == ASSUME Parts, WindowCloses PROVE Parts'
<1>1. Requested' = Requested
  BY RequestedSame DEF WindowCloses, link
<1> QED BY <1>1 DEF WindowCloses, link, Parts, RestOK, WindowIsProbed, DroppedIsReplaced,
                    Replaces, Fits, KindFits, StrictFits, CommandFits

\* What the LAN's recovery does to the requests: none is strict any more.
LEMMA OutdatedCalls ==
  ASSUME NEW calls \in [Callers -> Call]
  PROVE  /\ Outdated(calls) \in [Callers -> Call]
         /\ \A d \in Callers :
              LET u == Outdated(calls)[d] IN
              /\ Is(u, calls[d].pc, calls[d].kind, calls[d].t, calls[d].must)
              /\ u.strict = FALSE /\ u.taken = calls[d].taken
              /\ u.undone = calls[d].undone
<1> DEFINE b(d) == calls[d].stale \/ calls[d].pc = "probing"
           u(d) == [calls[d] EXCEPT !.strict = FALSE, !.stale = b(d)]
<1>1. \A d \in Callers : b(d) \in BOOLEAN
  BY CallFields
<1>2. Outdated(calls) = [d \in Callers |-> u(d)]
  BY DEF Outdated
<1> HIDE DEF b
<1>3. \A d \in Callers : /\ u(d) \in Call
                         /\ Is(u(d), calls[d].pc, calls[d].kind, calls[d].t, calls[d].must)
                         /\ u(d).strict = FALSE /\ u(d).taken = calls[d].taken
                         /\ u(d).undone = calls[d].undone
  BY <1>1, OutdatedFields
<1> HIDE DEF u
<1>4. \A d \in Callers : Outdated(calls)[d] = u(d)
  BY <1>2
<1> QED BY <1>2, <1>3, <1>4

LEMMA OutdatedFits ==
  ASSUME NEW calls \in [Callers -> Call], NEW d \in Callers, NEW q, NEW v,
         KindFits(calls[d]), CommandFits(calls[d], v)
  PROVE  Fits(Outdated(calls)[d], q, v)
<1> DEFINE u == Outdated(calls)[d]
<1>1. /\ Is(u, calls[d].pc, calls[d].kind, calls[d].t, calls[d].must)
      /\ u.strict = FALSE /\ u.taken = calls[d].taken /\ u.undone = calls[d].undone
  BY OutdatedCalls
<1> HIDE DEF u
<1>2. KindFits(u) /\ StrictFits(u, q) /\ CommandFits(u, v)
  BY <1>1 DEF Is, KindFits, StrictFits, CommandFits
<1> QED BY <1>2 DEF Fits, u

\* The LAN is declared well, after the requests have become calls.
LEMMA WellStep ==
  ASSUME Parts, NEW calls \in [Callers -> Call],
         \A d \in Callers : calls[d] = call[d] \/ (calls[d] = Idle /\ ~ Replaces(call[d])),
         lanFailed' = FALSE, ready' = FALSE, probed' = FALSE, late' = FALSE,
         call' = Outdated(calls), din' \in BOOLEAN, UNCHANGED <<config, event>>
  PROVE  Parts'
<1>1. \A d \in Callers : KindFits(calls[d]) /\ CommandFits(calls[d], event)
  BY RequestFacts, IdleFits DEF Fits
<1>2. \A d \in Callers : Fits(Outdated(calls)[d], Requested', event')
  BY <1>1, OutdatedFits
<1>3. RestOK' /\ WindowIsProbed'
  BY DEF Parts, RestOK, WindowIsProbed
<1>4. event' = "dropped" => \E d \in Callers : Replaces(call'[d])
  <2> SUFFICES ASSUME event = "dropped" PROVE \E d \in Callers : Replaces(call'[d])
    OBVIOUS
  <2>1. PICK d \in Callers : Replaces(call[d])
    BY DEF Parts, DroppedIsReplaced
  <2>2. calls[d] = call[d]
    BY <2>1
  <2>3. Is(Outdated(calls)[d], calls[d].pc, calls[d].kind, calls[d].t, calls[d].must)
    BY OutdatedCalls
  <2>4. Replaces(Outdated(calls)[d])
    BY <2>1, <2>2, <2>3 DEF Is, Replaces
  <2> QED BY <2>4
<1>5. call' \in [Callers -> Call]
  BY OutdatedCalls
<1> QED BY <1>2, <1>3, <1>4, <1>5
        DEF Parts, DroppedIsReplaced, Replaces, Fits, KindFits, StrictFits, CommandFits

\* The LAN fails: more may be called for.
LEMMA LANFailsStep ==
  ASSUME Parts, lanFailed' = TRUE, din' \in BOOLEAN,
         UNCHANGED <<config, event, window>>,
         \E c \in Callers : \/ call' = [call EXCEPT ![c] = Idle] /\ ~Replaces(call[c])
                           \/ call' = call
  PROVE  Parts'
<1>1. Requested \in BOOLEAN /\ Requested' \in BOOLEAN /\ (Requested => Requested')
  BY RequestedBoolean, RequestedNext DEF Parts, RestOK, Requested, Configs
<1>2. /\ call' \in [Callers -> Call]
      /\ \A d \in Callers : call'[d] = call[d] \/ (call'[d] = Idle /\ ~ Replaces(call[d]))
  BY IdleFields DEF Parts
<1>3. \A d \in Callers : Fits(call'[d], Requested', event')
  <2> SUFFICES ASSUME NEW d \in Callers PROVE Fits(call'[d], Requested', event)
    OBVIOUS
  <2>1. Fits(call[d], Requested', event)
    BY <1>1 DEF Parts, Fits, StrictFits
  <2> QED BY <1>2, <2>1, IdleFits
<1>4. event' = "dropped" => \E d \in Callers : Replaces(call'[d])
  BY <1>2 DEF Parts, DroppedIsReplaced
<1>5. RestOK' /\ WindowIsProbed'
  BY WindowSame DEF Parts, RestOK
<1> QED BY <1>2, <1>3, <1>4, <1>5
        DEF Parts, DroppedIsReplaced, Replaces, Fits, KindFits, StrictFits, CommandFits

LEMMA SetLANFailedStep == ASSUME Parts, SetLANFailed PROVE Parts'
<1>0. UNCHANGED <<config, event, din>> /\ din \in BOOLEAN /\ call \in [Callers -> Call]
  BY DEF SetLANFailed, Parts, RestOK
<1>1. CASE lanFailed' = TRUE /\ UNCHANGED <<window, call>>
  <2>1. Requested \in BOOLEAN /\ Requested' \in BOOLEAN /\ (Requested => Requested')
    BY <1>0, <1>1, RequestedBoolean, RequestedNext DEF Parts, RestOK, Requested, Configs
  <2>2. \A d \in Callers : Fits(call[d], Requested', event)
    BY <2>1 DEF Parts, Fits, StrictFits
  <2>3. RestOK' /\ WindowIsProbed'
    BY <1>0, <1>1, WindowSame DEF Parts, RestOK
  <2> QED BY <1>0, <1>1, <2>2, <2>3
          DEF Parts, DroppedIsReplaced, Replaces, Fits, KindFits, StrictFits, CommandFits
<1>2. CASE Well(call)
  BY <1>0, <1>2, WellStep DEF Well, WindowReset
<1> QED BY <1>1, <1>2 DEF SetLANFailed

LEMMA ConnectLANStep == ASSUME Parts, NEW c \in Callers, ConnectLAN(c) PROVE Parts'
<1>0. /\ call[c].pc = "connect" /\ UNCHANGED <<config, event>> /\ ~ Replaces(call[c])
      /\ call \in [Callers -> Call]
  BY DEF ConnectLAN, At, Replaces, Parts
<1>1. CASE din' = TRUE /\ Well([call EXCEPT ![c] = Idle])
  <2> DEFINE calls == [call EXCEPT ![c] = Idle]
  <2>1. /\ calls \in [Callers -> Call]
        /\ \A d \in Callers : calls[d] = call[d] \/ (calls[d] = Idle /\ ~ Replaces(call[d]))
    BY <1>0, IdleFields
  <2>2. Well(calls)
    BY <1>1
  <2> HIDE DEF calls
  <2> QED BY <1>0, <1>1, <2>1, <2>2, WellStep DEF Well, WindowReset
<1>2. CASE Goto(c, "cold") /\ UNCHANGED <<link, window>>
  BY <1>0, <1>2, Goes, WindowSame DEF Pcs
<1>3. CASE End(c) /\ UNCHANGED <<link, window>>
  BY <1>0, <1>3, Ends
<1> QED BY <1>1, <1>2, <1>3 DEF ConnectLAN

LEMMA ConnectWiFiStep == ASSUME Parts, NEW c \in Callers, ConnectWiFi(c) PROVE Parts'
<1>0. /\ call[c].pc = "cold" /\ UNCHANGED <<config, event, window>> /\ ~ Replaces(call[c])
      /\ call' = [call EXCEPT ![c] = Idle]
  BY DEF ConnectWiFi, At, Replaces, End, Becomes
<1>1. CASE din' = TRUE /\ lanFailed' = TRUE
  BY <1>0, <1>1, LANFailsStep
<1>2. CASE UNCHANGED link
  BY <1>0, <1>2, Ends DEF End, Becomes
<1> QED BY <1>1, <1>2 DEF ConnectWiFi
-----------------------------------------------------------------------------
LEMMA InvInit == Init => Parts
<1> SUFFICES ASSUME Init PROVE Parts
  OBVIOUS
<1>1. RestOK /\ call \in [Callers -> Call]
  BY IdleFields DEF Init, RestOK, Events
<1>2. \A c \in Callers : Fits(call[c], Requested, event)
  BY IdleFits DEF Init
<1> QED BY <1>1, <1>2 DEF Init, Parts, DroppedIsReplaced, WindowIsProbed

LEMMA InvNext == Parts /\ [Next]_vars => Parts'
<1> SUFFICES ASSUME Parts, [Next]_vars PROVE Parts'
  OBVIOUS
<1>1. ASSUME NEW c \in Callers, Step(c) PROVE Parts'
  BY <1>1, LookStep, ChooseReadStep, ReadOkStep, ReadFailsStep, ChooseStep, ProbeBeginsStep,
     ProbeEndsStep, ResolveDinStep, CancelFirstStep, TakenStep, RefusedStep, DeniedStep,
     ReloginStep, SucceedStep, ConnectLANStep, ConnectWiFiStep DEF Step
<1>2. ASSUME NEW c \in Callers, NEW k \in AllKinds, Begin(c, k) PROVE Parts'
  BY <1>2, BeginStep
<1>3. CASE SetLANFailed \/ WindowCloses \/ EventEnds
  BY <1>3, SetLANFailedStep, WindowClosesStep, EventEndsStep
<1>4. CASE UNCHANGED vars
  <2>1. Requested' = Requested
    BY <1>4, RequestedSame DEF vars
  <2> QED BY <1>4, <2>1 DEF vars, Parts, RestOK, WindowIsProbed, DroppedIsReplaced,
                        Replaces, Fits, KindFits, StrictFits, CommandFits
<1> QED BY <1>1, <1>2, <1>3, <1>4 DEF Next, AllKinds

LEMMA Invariance == Spec => []Parts
BY InvInit, InvNext, PTL DEF Spec

(***************************************************************************)
(* While strict signed fallback is called for, from the beginning of a     *)
(* read on, nothing is sent unsigned (tedapi.go:151); and the state is     *)
(* well typed.                                                             *)
(***************************************************************************)
THEOREM StrictReadsAreSigned == Spec => []StrictIsSigned
<1>1. Parts => StrictIsSigned
  BY InvParts DEF Parts, IInv, StrictIsSigned, Fits, StrictFits
<1> QED BY <1>1, Invariance, PTL

(***************************************************************************)
(* A command is taken at most once, however often it is denied and signed  *)
(* anew, and success means that it was taken (v1r.go).                     *)
(***************************************************************************)
THEOREM CommandsAreTakenOnce == Spec => []SuccessIsTakenOnce
<1>1. Parts => SuccessIsTakenOnce
  <2> SUFFICES ASSUME Parts, NEW c \in Callers
               PROVE  /\ call[c].taken <= 1
                      /\ At(c, "took") /\ call[c].kind # "island" => call[c].taken = 1
    BY DEF SuccessIsTakenOnce
  <2>1. CommandFits(call[c], event)
    BY DEF Parts, Fits
  <2>2. call[c].taken = 0 \/ call[c].taken = 1
    BY <2>1 DEF CommandFits
  <2>3. call[c].taken <= 1
    BY <2>2
  <2>4. At(c, "took") /\ call[c].kind # "island" => call[c].taken = 1
    BY <2>1 DEF CommandFits, At
  <2> QED BY <2>3, <2>4
<1> QED BY <1>1, Invariance, PTL

(***************************************************************************)
(* A manual backup that is dropped has a schedule that replaces it, and    *)
(* one that was scheduled is in force or has been undone since.            *)
(***************************************************************************)
THEOREM EventsAreReplaced == Spec => []EventIsReplaced
<1>1. Parts => EventIsReplaced
  BY DEF Parts, EventIsReplaced, DroppedIsReplaced, Replaces, Fits, CommandFits, At
<1> QED BY <1>1, Invariance, PTL

-----------------------------------------------------------------------------
(***************************************************************************)
(* The transports.  Most steps put no request on WiFi.                     *)
(***************************************************************************)
NoneToWiFi == \A d \in Callers : call'[d].t = "wifi" => call[d].t = "wifi"

LEMMA OneNotToWiFi ==
  ASSUME Parts, NEW c \in Callers, NEW e, Becomes(c, e), e.t = "wifi" => call[c].t = "wifi"
  PROVE  NoneToWiFi
BY DEF Parts, Becomes, NoneToWiFi

LEMMA MovesNotToWiFi ==
  ASSUME Parts, NEW c \in Callers
  PROVE  /\ End(c) => NoneToWiFi
         /\ \A pc \in Pcs : Goto(c, pc) => NoneToWiFi
         /\ \A pc \in Pcs, t \in Transports \ {"wifi"} : GotoOver(c, pc, t) => NoneToWiFi
<1>0. call[c] \in Call
  BY DEF Parts
<1>1. End(c) => NoneToWiFi
  BY OneNotToWiFi, IdleFields DEF End
<1>2. ASSUME NEW pc \in Pcs, Goto(c, pc) PROVE NoneToWiFi
  <2>1. [call[c] EXCEPT !.pc = pc].t = call[c].t
    BY <1>0, MovedFields DEF Is
  <2> QED BY <1>2, <2>1, OneNotToWiFi DEF Goto
<1>3. ASSUME NEW pc \in Pcs, NEW t \in Transports \ {"wifi"}, GotoOver(c, pc, t)
      PROVE  NoneToWiFi
  <2> DEFINE e == [call[c] EXCEPT !.pc = pc, !.t = t]
  <2>1. Is(e, pc, call[c].kind, t, call[c].must)
    BY <1>0, MovedOverFields
  <2>2. Becomes(c, e)
    BY <1>3 DEF GotoOver
  <2> HIDE DEF e
  <2> QED BY <2>1, <2>2, OneNotToWiFi DEF Is
<1> QED BY <1>1, <1>2, <1>3

LEMMA UndoneNotToWiFi ==
  ASSUME Parts, NEW calls \in [Callers -> Call],
         \A d \in Callers : calls[d].t = "wifi" => call[d].t = "wifi",
         call' = Undone(calls) \/ call' = Outdated(calls)
  PROVE  NoneToWiFi
<1>1. \A d \in Callers : Undone(calls)[d].t = calls[d].t /\ Outdated(calls)[d].t = calls[d].t
  BY UndoneCalls, OutdatedCalls DEF Is
<1> QED BY <1>1 DEF NoneToWiFi

\* The steps of a request that put none on WiFi: all but its choices and the probe's end.
LEMMA OthersNotToWiFi ==
  ASSUME Parts, NEW c \in Callers,
         \/ Look(c) \/ ReadOk(c) \/ ReadFails(c) \/ ProbeBegins(c) \/ ResolveDin(c)
         \/ CancelFirst(c) \/ Taken(c) \/ Refused(c) \/ Denied(c) \/ Relogin(c) \/ Succeed(c)
         \/ ConnectLAN(c) \/ ConnectWiFi(c)
  PROVE  NoneToWiFi
<1>0. call[c] \in Call /\ call \in [Callers -> Call]
  BY DEF Parts
<1>1. CASE Look(c)
  <2> DEFINE must == Must(call[c].kind)
  <2>1. must \in BOOLEAN
    BY RequestFacts DEF Must, RestOK, Configs
  <2>2. \/ GotoOver(c, "ask", "legacy")
        \/ Becomes(c, [call[c] EXCEPT !.pc = "api", !.must = must])
    BY <1>1 DEF Look, GotoOver
  <2> HIDE DEF must
  <2>3. [call[c] EXCEPT !.pc = "api", !.must = must].t = call[c].t
    BY <1>0, <2>1, LookedFields DEF Is
  <2> QED BY <2>2, <2>3, OneNotToWiFi, MovesNotToWiFi DEF Pcs, Transports
<1>2. CASE ReadOk(c) \/ ReadFails(c) \/ ProbeBegins(c) \/ ResolveDin(c) \/ Succeed(c)
  <2>1. \/ End(c) \/ GotoOver(c, "ask", "legacy") \/ Goto(c, "probing")
        \/ Goto(c, "cancel") \/ Goto(c, "send")
    BY <1>2 DEF ReadOk, ReadFails, ProbeBegins, ResolveDin, Succeed
  <2> QED BY <2>1, MovesNotToWiFi DEF Pcs, Transports
<1>3. CASE Refused(c) \/ Denied(c) \/ ConnectWiFi(c)
  <2>1. End(c) \/ Goto(c, "took") \/ Goto(c, "denied")
    BY <1>3 DEF Refused, Denied, ConnectWiFi, Fail
  <2> QED BY <2>1, MovesNotToWiFi DEF Pcs
<1>4. CASE CancelFirst(c)
  <2>1. Goto(c, "send") \/ call' = Undone([call EXCEPT ![c].pc = "send"])
    BY <1>4 DEF CancelFirst
  <2>2. ASSUME call' = Undone([call EXCEPT ![c].pc = "send"]) PROVE NoneToWiFi
    <3> DEFINE e == [call[c] EXCEPT !.pc = "send"]
               calls == [call EXCEPT ![c] = e]
    <3>1. e \in Call /\ e.t = call[c].t
      BY <1>0, MovedFields DEF Pcs, Is
    <3>2. call' = Undone(calls)
      BY <2>2
    <3> HIDE DEF e
    <3>3. /\ calls \in [Callers -> Call]
          /\ \A d \in Callers : calls[d].t = "wifi" => call[d].t = "wifi"
      BY <1>0, <3>1
    <3> HIDE DEF calls
    <3> QED BY <3>2, <3>3, UndoneNotToWiFi
  <2> QED BY <2>1, <2>2, MovesNotToWiFi DEF Pcs
<1>5. CASE Taken(c)
  <2> DEFINE U == IF call[c].kind = "unschedule" THEN Undone(call) ELSE call
  <2>1. PICK r \in {Took(call[c]), Idle} : call' = [U EXCEPT ![c] = r]
    BY <1>5 DEF Taken
  <2>2. U \in [Callers -> Call] /\ \A d \in Callers : U[d].t = call[d].t
    BY <1>0, UndoneCalls DEF Is
  <2>3. r.t = "wifi" => call[c].t = "wifi"
    <3>1. call[c].taken = 0
      BY <1>5, RequestFacts DEF Taken, At, CommandFits
    <3> QED BY <1>0, <3>1, IdleFields, TookFields DEF Is
  <2> HIDE DEF U
  <2> QED BY <2>1, <2>2, <2>3 DEF NoneToWiFi
<1>6. CASE Relogin(c)
  <2>1. End(c) \/ Becomes(c, [call[c] EXCEPT !.pc = "send", !.retried = TRUE])
    BY <1>6 DEF Relogin, Fail
  <2>2. [call[c] EXCEPT !.pc = "send", !.retried = TRUE].t = call[c].t
    BY <1>0, RetriedFields DEF Is
  <2> QED BY <2>1, <2>2, OneNotToWiFi, MovesNotToWiFi
<1>7. CASE ConnectLAN(c)
  <2> DEFINE calls == [call EXCEPT ![c] = Idle]
  <2>1. Goto(c, "cold") \/ End(c) \/ call' = Outdated(calls)
    BY <1>7 DEF ConnectLAN, Well
  <2>2. /\ calls \in [Callers -> Call]
        /\ \A d \in Callers : calls[d].t = "wifi" => call[d].t = "wifi"
    BY <1>0, IdleFields
  <2> HIDE DEF calls
  <2> QED BY <2>1, <2>2, MovesNotToWiFi, UndoneNotToWiFi DEF Pcs
<1> QED BY <1>1, <1>2, <1>3, <1>4, <1>5, <1>6, <1>7

(***************************************************************************)
(* No write takes to WiFi but through a window that a probe has opened     *)
(* (tedapi.go:159-161).                                                    *)
(***************************************************************************)
THEOREM WiFiWritesAreProbed == Spec => WiFiWriteIsProbed
<1> DEFINE A == \A c \in Callers :
                  call[c].kind \in Writes /\ call[c].t # "wifi" /\ call'[c].t = "wifi" =>
                    probed' \/ late'
<1>1. Parts /\ [Next]_vars => [A]_vars
  <2> SUFFICES ASSUME Parts, Next PROVE A
    OBVIOUS
  <2>0. NoneToWiFi => A
    BY DEF NoneToWiFi
  <2>1. ASSUME NEW c \in Callers, Step(c) PROVE A
    <3>1. CASE ChooseRead(c)
      <4>1. call[c].kind \in Reads /\ call[c].kind \notin Writes
        BY <3>1, RequestFacts DEF ChooseRead, At, KindFits, Reads, Writes
      <4>2. \A d \in Callers : d # c => call'[d] = call[d]
        BY <3>1 DEF ChooseRead, GotoOver, End, Becomes, Parts
      <4> QED BY <4>1, <4>2
    <3>2. CASE Choose(c)
      <4>1. GotoOver(c, "din", "lan") \/ End(c) \/ Goto(c, "probe") \/ ready
        BY <3>2 DEF Choose
      <4>2. ready => probed' \/ late'
        BY <3>2 DEF Choose, window, Parts, WindowIsProbed
      <4> QED BY <2>0, <4>1, <4>2, MovesNotToWiFi DEF Pcs, Transports
    <3>3. CASE ProbeEnds(c)
      <4>1. call[c].stale \in BOOLEAN
        BY CallFields, RequestFacts
      <4>2. PICK ok \in BOOLEAN :
              /\ late' = (ok /\ call[c].stale) /\ probed' = (ok /\ ~call[c].stale)
              /\ ok \/ End(c)
        BY <3>3 DEF ProbeEnds
      <4> QED BY <2>0, <4>1, <4>2, MovesNotToWiFi
    <3> QED BY <2>0, <2>1, <3>1, <3>2, <3>3, OthersNotToWiFi DEF Step
  <2>2. ASSUME NEW c \in Callers, NEW k \in AllKinds, Begin(c, k) PROVE A
    <3> DEFINE b == Requested /\ k \in Reads
               e == [Idle EXCEPT !.pc = FirstStep(k), !.kind = k, !.strict = b]
    <3>0. b \in BOOLEAN
      OBVIOUS
    <3> HIDE DEF b
    <3>1. Is(e, FirstStep(k), k, "none", FALSE)
      BY <3>0, BegunFields, FirstStepOf
    <3>2. Becomes(c, e)
      BY <2>2 DEF Begin, b
    <3> HIDE DEF e
    <3> QED BY <2>0, <3>1, <3>2, OneNotToWiFi DEF Is
  <2>3. CASE SetLANFailed \/ WindowCloses \/ EventEnds
    <3>1. call' = call \/ call' = Undone(call) \/ call' = Outdated(call)
      BY <2>3 DEF SetLANFailed, Well, WindowCloses, EventEnds
    <3>2. call \in [Callers -> Call]
      BY DEF Parts
    <3> QED BY <2>0, <3>1, <3>2, UndoneNotToWiFi DEF NoneToWiFi
  <2> QED BY <2>1, <2>2, <2>3 DEF Next, AllKinds
<1> QED BY <1>1, Invariance, PTL DEF Spec, WiFiWriteIsProbed
=============================================================================
