------------------------- MODULE LocalClientProofs -------------------------
(***************************************************************************)
(* Theorems about LocalClient, for every number of callers, endpoints,     *)
(* sessions and writes.                                                    *)
(***************************************************************************)
EXTENDS LocalClient, TLAPS

USE LocalClientAssumption

LEMMA EntryTypes ==
  /\ Absent \in Entry
  /\ Negative \in Entry
BY DEF Absent, Negative, Entry, Reps

LEMMA RepType == \A raw : Rep(raw) \in Reps
BY DEF Rep, Reps

LEMMA PutType ==
  ASSUME cache \in [Keys -> Entry], NEW keys, NEW entry \in Entry
  PROVE  Put(keys, entry) \in [Keys -> Entry]
BY DEF Put

LEMMA IdleType == Idle \in Call
BY DEF Idle, Call, Steps, Statuses, Outs, Reps

\* Ending a call keeps its record well typed.
LEMMA EndedType ==
  ASSUME call \in [Callers -> Call], NEW c \in Callers, NEW out \in Outs
  PROVE  Ended(c, out) \in Call
<1> DEFINE e == call[c]
           st == IF e.op = "post" THEN e.status ELSE "none"
           rp == IF out = "value" THEN e.rep ELSE "raw"
           gt == IF out = "value" THEN e.got ELSE 0
<1>1. e \in Call
  OBVIOUS
<1>2. st \in Statuses /\ rp \in Reps /\ gt \in Nat
  BY <1>1 DEF Call, Statuses, Reps
<1>3. Ended(c, out) = [e EXCEPT !.pc = "done", !.out = out, !.raw = FALSE,
         !.recursive = FALSE, !.overtaken = FALSE, !.status = st, !.rep = rp, !.got = gt]
  BY DEF Ended
<1> HIDE DEF e, st, rp, gt
<1>4. [e EXCEPT !.pc = "done", !.out = out, !.raw = FALSE,
         !.recursive = FALSE, !.overtaken = FALSE, !.status = st, !.rep = rp, !.got = gt] \in Call
  BY <1>1, <1>2 DEF Call, Steps
<1> QED BY <1>3, <1>4

LEMMA EndedFields ==
  ASSUME NEW c \in Callers, NEW out, call[c] \in Call
  PROVE  LET q == Ended(c, out) IN
         /\ q.pc = "done" /\ q.op = call[c].op /\ q.api = call[c].api
         /\ q.want = call[c].want /\ q.force = call[c].force
         /\ q.since = call[c].since /\ q.applied = call[c].applied
         /\ out = "value" => q.rep = call[c].rep /\ q.got = call[c].got
<1> DEFINE e == call[c]
           st == IF e.op = "post" THEN e.status ELSE "none"
           rp == IF out = "value" THEN e.rep ELSE "raw"
           gt == IF out = "value" THEN e.got ELSE 0
           q == Ended(c, out)
<1>1. out = "value" => rp = e.rep /\ gt = e.got
  OBVIOUS
<1>2. q = [e EXCEPT !.pc = "done", !.out = out, !.raw = FALSE,
         !.recursive = FALSE, !.overtaken = FALSE, !.status = st, !.rep = rp, !.got = gt]
  BY DEF Ended
<1>3. e \in Call
  OBVIOUS
<1> HIDE DEF q, e, st, rp, gt
<1>4. DOMAIN e = {"pc", "op", "api", "want", "raw", "force", "recursive", "cred", "status",
                  "rep", "got", "out", "since", "applied", "overtaken"}
  BY <1>3 DEF Call
<1>5. q.pc = "done"
  BY <1>2, <1>4
<1>6. q.op = e.op /\ q.api = e.api
  BY <1>2, <1>4
<1>7. q.want = e.want /\ q.force = e.force
  BY <1>2, <1>4
<1>8. q.since = e.since /\ q.applied = e.applied
  BY <1>2, <1>4
<1>9. q.rep = rp /\ q.got = gt
  BY <1>2, <1>4
<1> QED BY <1>1, <1>5, <1>6, <1>7, <1>8, <1>9 DEF q, e

\* One field of a call's record.
LEMMA OneField ==
  ASSUME NEW e \in Call
  PROVE  /\ \A pc \in Steps : [e EXCEPT !.pc = pc] \in Call
         /\ \A o \in {"none", "poll", "post"} : [e EXCEPT !.op = o] \in Call
         /\ \A a \in Apis : [e EXCEPT !.api = a] \in Call
         /\ \A b \in BOOLEAN : [e EXCEPT !.want = b] \in Call
         /\ \A b \in BOOLEAN : [e EXCEPT !.raw = b] \in Call
         /\ \A b \in BOOLEAN : [e EXCEPT !.force = b] \in Call
         /\ \A b \in BOOLEAN : [e EXCEPT !.recursive = b] \in Call
         /\ \A b \in BOOLEAN : [e EXCEPT !.overtaken = b] \in Call
         /\ \A s \in Sessions \cup {NoSession} : [e EXCEPT !.cred = s] \in Call
         /\ \A st \in Statuses : [e EXCEPT !.status = st] \in Call
         /\ \A r \in Reps : [e EXCEPT !.rep = r] \in Call
         /\ \A n \in Nat : [e EXCEPT !.got = n] \in Call
         /\ \A n \in Nat : [e EXCEPT !.since = n] \in Call
         /\ \A n \in Nat : [e EXCEPT !.applied = n] \in Call
<1>1. \A pc \in Steps : [e EXCEPT !.pc = pc] \in Call
  BY DEF Call
<1>2. \A o \in {"none", "poll", "post"} : [e EXCEPT !.op = o] \in Call
  BY DEF Call
<1>3. \A a \in Apis : [e EXCEPT !.api = a] \in Call
  BY DEF Call
<1>4. \A b \in BOOLEAN : [e EXCEPT !.want = b] \in Call
  BY DEF Call
<1>5. \A b \in BOOLEAN : [e EXCEPT !.raw = b] \in Call
  BY DEF Call
<1>6. \A b \in BOOLEAN : [e EXCEPT !.force = b] \in Call
  BY DEF Call
<1>7. \A b \in BOOLEAN : [e EXCEPT !.recursive = b] \in Call
  BY DEF Call
<1>8. \A b \in BOOLEAN : [e EXCEPT !.overtaken = b] \in Call
  BY DEF Call
<1>9. \A s \in Sessions \cup {NoSession} : [e EXCEPT !.cred = s] \in Call
  BY DEF Call
<1>10. \A st \in Statuses : [e EXCEPT !.status = st] \in Call
  BY DEF Call
<1>11. \A r \in Reps : [e EXCEPT !.rep = r] \in Call
  BY DEF Call
<1>12. \A n \in Nat : [e EXCEPT !.got = n] \in Call
  BY DEF Call
<1>13. \A n \in Nat : [e EXCEPT !.since = n] \in Call
  BY DEF Call
<1>14. \A n \in Nat : [e EXCEPT !.applied = n] \in Call
  BY DEF Call
<1> QED
  BY <1>1, <1>2, <1>3, <1>4, <1>5, <1>6, <1>7, <1>8, <1>9, <1>10, <1>11, <1>12, <1>13, <1>14

\* Updates of a call's record that keep it well typed.
LEMMA CallUpdates ==
  ASSUME NEW e \in Call
  PROVE  /\ \A pc \in Steps : [e EXCEPT !.pc = pc] \in Call
         /\ \A pc \in Steps, s \in Sessions \cup {NoSession} :
              [e EXCEPT !.pc = pc, !.cred = s] \in Call
         /\ \A pc \in Steps, st \in Statuses, s \in Sessions \cup {NoSession},
               r \in Reps, n \in Nat :
              [e EXCEPT !.pc = pc, !.status = st, !.cred = s, !.rep = r, !.got = n] \in Call
         /\ \A pc \in Steps, st \in Statuses, s \in Sessions \cup {NoSession}, n \in Nat :
              [e EXCEPT !.pc = pc, !.status = st, !.cred = s, !.applied = n] \in Call
         /\ \A r \in Reps, n \in Nat : [e EXCEPT !.rep = r, !.got = n] \in Call
         /\ \A b \in BOOLEAN : [e EXCEPT !.overtaken = b] \in Call
         /\ \A pc \in Steps, st \in Statuses, b \in BOOLEAN :
              [e EXCEPT !.recursive = b, !.status = st, !.pc = pc] \in Call
BY OneField

LEMMA NewCallType == ASSUME TypeOK, NEW r \in Requests PROVE NewCall(r) \in Call
<1> DEFINE pc == FirstStep(r.op)
           o == r.op
           a == r.api
           w == r.raw
           raw == EffectiveRaw(r.api, r.raw)
           f == r.force
           since == IF r.force THEN ver[r.api] ELSE 0
<1>1. o \in {"poll", "post"} /\ a \in Apis /\ w \in BOOLEAN /\ f \in BOOLEAN
  BY DEF Request
<1>2. pc \in Steps /\ raw \in BOOLEAN /\ since \in Nat
  BY <1>1 DEF FirstStep, EffectiveRaw, Steps, TypeOK
<1>3. NewCall(r) = [Idle EXCEPT !.pc = pc, !.op = o, !.api = a,
                       !.want = w, !.raw = raw, !.force = f, !.since = since]
  BY DEF NewCall
<1> HIDE DEF pc, o, a, w, raw, f, since
<1>4. [Idle EXCEPT !.pc = pc, !.op = o, !.api = a] \in Call
  BY <1>1, <1>2, IdleType, OneField
<1>5. [Idle EXCEPT !.pc = pc, !.op = o, !.api = a, !.want = w, !.raw = raw] \in Call
  BY <1>1, <1>2, <1>4, OneField
<1> DEFINE q == [Idle EXCEPT !.pc = pc, !.op = o, !.api = a, !.want = w, !.raw = raw,
                            !.force = f]
<1>6. q \in Call
  BY <1>1, <1>5, OneField
<1>7. NewCall(r) = [q EXCEPT !.since = since]
  BY <1>3
<1> HIDE DEF q
<1>8. [q EXCEPT !.since = since] \in Call
  BY <1>2, <1>6, OneField
<1> QED BY <1>7, <1>8

LEMMA BecomesType ==
  ASSUME call \in [Callers -> Call], NEW c \in Callers, NEW e \in Call, Becomes(c, e)
  PROVE  call' \in [Callers -> Call]
BY DEF Becomes

LEMMA GotoType ==
  ASSUME call \in [Callers -> Call], NEW c \in Callers, NEW pc \in Steps, Goto(c, pc)
  PROVE  call' \in [Callers -> Call]
BY BecomesType, CallUpdates DEF Goto

LEMMA FinishType ==
  ASSUME call \in [Callers -> Call], NEW c \in Callers, NEW out \in Outs, Finish(c, out)
  PROVE  call' \in [Callers -> Call]
BY BecomesType, EndedType DEF Finish

LEMMA SendRequestType ==
  ASSUME TypeOK, NEW c \in Callers, SendRequest(c)
  PROVE  call' \in [Callers -> Call]
<1>1. "sent" \in Steps /\ call \in [Callers -> Call]
      /\ ReadAuth(c) \subseteq Sessions \cup {NoSession}
  BY DEF ReadAuth, TypeOK, Steps
<1>2. PICK s \in ReadAuth(c) : Becomes(c, [call[c] EXCEPT !.pc = "sent", !.cred = s])
  BY DEF SendRequest
<1>3. [call[c] EXCEPT !.pc = "sent", !.cred = s] \in Call
  BY <1>1, CallUpdates
<1> QED BY <1>1, <1>2, <1>3, BecomesType

LEMMA AnswerType ==
  ASSUME TypeOK, NEW c \in Callers, NEW st \in Statuses, Answer(c, st)
  PROVE  call' \in [Callers -> Call]
<1> DEFINE n == IF At(c, "sent", "poll") /\ st = "ok" THEN ver[call[c].api] ELSE 0
<1>1. call[c] \in Call
  BY DEF TypeOK
<1>2. n \in Nat
  BY <1>1 DEF TypeOK, Call
<1>3. Becomes(c, [call[c] EXCEPT !.pc = "answered", !.status = st, !.cred = NoSession,
                                 !.rep = Rep(call[c].raw), !.got = n])
  BY DEF Answer
<1> HIDE DEF n
<1> QED BY <1>1, <1>2, <1>3, BecomesType, CallUpdates, RepType DEF TypeOK, Steps

\* Type correctness of LocalClient: 16 kinds of steps of a call, and those of
\* time, gateway and Close.
LEMMA CallStepType ==
  ASSUME TypeOK, NEW c \in Callers, CallStep(c)
  PROVE  TypeOK'
<1> USE DEF TypeOK, clientState, gatewayState
<1>0. call[c] \in Call
  OBVIOUS
<1>1. CASE Lookup(c)
  <2> DEFINE entry == cache[<<call[c].api, Rep(call[c].raw)>>]
  <2>1. entry \in Entry
    BY <1>0, RepType DEF Call, Keys
  <2>2. [Ended(c, "value") EXCEPT !.rep = entry.rep, !.got = entry.ver] \in Call
    BY <2>1, EndedType, CallUpdates DEF Entry, Outs
  <2>3. call' \in [Callers -> Call]
    BY <1>1, <2>2, BecomesType, FinishType, GotoType DEF Lookup, Outs, Steps
  <2> QED BY <1>1, <2>3 DEF Lookup
<1>2. CASE PollGuard(c)
  <2>1. call' \in [Callers -> Call]
    BY <1>2, FinishType, SendRequestType DEF PollGuard, Outs
  <2> QED BY <1>2, <2>1 DEF PollGuard
<1>3. CASE PostGuard(c)
  BY <1>3, SendRequestType DEF PostGuard
<1>4. CASE ServeUnapplied(c)
  <2>1. PICK st \in Unapplied(c) : Answer(c, st)
    BY <1>4 DEF ServeUnapplied
  <2>2. st \in Statuses
    BY DEF Unapplied, Statuses
  <2> QED BY <1>4, <2>1, <2>2, AnswerType DEF ServeUnapplied
<1>5. CASE ServeRead(c)
  BY <1>5, AnswerType DEF ServeRead, Statuses
<1>6. CASE ServeWrite(c)
  <2>1. PICK st \in {"ok", "lost"} :
          Becomes(c, [call[c] EXCEPT !.pc = "answered", !.status = st,
                                     !.cred = NoSession, !.applied = @ + 1])
    BY <1>6 DEF ServeWrite
  <2>2. "answered" \in Steps /\ st \in Statuses /\ call[c].applied + 1 \in Nat
    BY <1>0 DEF Call, Steps, Statuses
  <2>3. call' \in [Callers -> Call]
    BY <1>0, <2>1, <2>2, BecomesType, CallUpdates
  <2>4. ver' \in [Apis -> Nat]
    <3>1. ver' = [ver EXCEPT ![call[c].api] = @ + 1]
      BY <1>6 DEF ServeWrite
    <3>2. \A a \in Apis : ver[a] + 1 \in Nat
      OBVIOUS
    <3> QED BY <3>1, <3>2, Zenon
  <2>5. lostWrite' \in [Apis -> BOOLEAN]
    BY <1>6, Zenon DEF ServeWrite
  <2> QED BY <1>6, <2>3, <2>4, <2>5 DEF ServeWrite
<1>7. CASE PollOk(c)
  <2>1. [kind |-> "value", rep |-> call[c].rep, ver |-> call[c].got,
         overtaken |-> call[c].overtaken] \in Entry
    BY <1>0 DEF Call, Entry
  <2> QED BY <1>7, <2>1, FinishType, PutType DEF PollOk, Outs
<1>8. CASE PollNotFound(c)
  BY <1>8, FinishType, PutType, EntryTypes DEF PollNotFound, Outs
<1>9. CASE PollRateLimited(c)
  BY <1>9, FinishType, PutType, EntryTypes DEF PollRateLimited, Outs
<1>10. CASE PollFailed(c)
  BY <1>10, FinishType DEF PollFailed, Outs
<1>11. CASE PollDenied(c)
  BY <1>11, FinishType, GotoType, PutType, EntryTypes DEF PollDenied, Outs, Steps
<1>12. CASE PostAnswered(c)
  BY <1>12, FinishType, GotoType DEF PostAnswered, Outs, Steps
<1>13. CASE PostInvalidate(c)
  <2>1. \A d \in Callers : [call[d] EXCEPT !.overtaken = TRUE] \in Call
    BY CallUpdates
  <2>2. Ended(c, "value") \in Call
    BY EndedType DEF Outs
  <2>3. call' \in [Callers -> Call]
    BY <1>13, <2>1, <2>2 DEF PostInvalidate
  <2> QED BY <1>13, <2>3, PutType, EntryTypes DEF PostInvalidate
<1>14. CASE LoginOk(c)
  <2>1. Retry(c) \in Call
    BY <1>0, CallUpdates DEF Retry, FirstStep, Steps, Statuses
  <2>2. call' \in [Callers -> Call]
    BY <1>14, <2>1, BecomesType DEF LoginOk
  <2> QED BY <1>14, <2>2 DEF LoginOk
<1>15. CASE LoginFails(c)
  BY <1>15, FinishType, GotoType, PutType, EntryTypes DEF LoginFails, Outs, Steps
<1>16. CASE Return(c)
  BY <1>16, IdleType, BecomesType DEF Return
<1> QED BY <1>1, <1>2, <1>3, <1>4, <1>5, <1>6, <1>7, <1>8, <1>9, <1>10, <1>11,
           <1>12, <1>13, <1>14, <1>15, <1>16 DEF CallStep

THEOREM TypeCorrect == Spec => []TypeOK
<1>1. Init => TypeOK
  <2> SUFFICES ASSUME Init PROVE TypeOK
    OBVIOUS
  <2>1. cache \in [Keys -> Entry] /\ call \in [Callers -> Call]
    BY EntryTypes, IdleType DEF Init
  <2>2. auth \in Sessions \cup {NoSession} /\ live \subseteq Sessions
    BY DEF Init
  <2>3. ver \in [Apis -> Nat] /\ lostWrite \in [Apis -> BOOLEAN]
    BY DEF Init
  <2> QED BY <2>1, <2>2, <2>3 DEF Init, TypeOK
<1>2. TypeOK /\ [Next]_vars => TypeOK'
  <2> SUFFICES ASSUME TypeOK, [Next]_vars PROVE TypeOK'
    OBVIOUS
  <2> USE DEF TypeOK, clientState, gatewayState
  <2>1. ASSUME NEW c \in Callers, Begin(c) PROVE TypeOK'
    BY <2>1, NewCallType, BecomesType DEF Begin
  <2>2. ASSUME NEW c \in Callers, CallStep(c) PROVE TypeOK'
    BY <2>2, CallStepType
  <2>3. ASSUME NEW s \in Sessions, SessionExpires(s) PROVE TypeOK'
    BY <2>3 DEF SessionExpires
  <2>4. ASSUME NEW k \in Keys, EntryExpires(k) PROVE TypeOK'
    BY <2>4, PutType, EntryTypes DEF EntryExpires
  <2>5. CASE CooldownEnds
    BY <2>5 DEF CooldownEnds
  <2>6. CASE Close
    BY <2>6 DEF Close
  <2>7. CASE UNCHANGED vars
    BY <2>7 DEF vars
  <2> QED BY <2>1, <2>2, <2>3, <2>4, <2>5, <2>6, <2>7 DEF Next
<1> QED BY <1>1, <1>2, PTL DEF Spec
-----------------------------------------------------------------------------
(***************************************************************************)
(* The inductive invariant.  First the steps that neither answer a read,   *)
(* nor store one, nor apply or complete a write: they replace the record   *)
(* of one call and may remove values from the cache.                       *)
(***************************************************************************)
GoodCall(e) == FreshCall(e) /\ RepCall(e) /\ OnceCall(e)

LEMMA CallInvStep ==
  ASSUME TypeOK, CallInv, NEW c \in Callers, NEW e \in Call, Becomes(c, e),
         \A a \in Apis : ver[a] <= ver'[a], ver' \in [Apis -> Nat], GoodCall(e)'
  PROVE  CallInv'
<1> SUFFICES ASSUME NEW d \in Callers PROVE GoodCall(call[d])'
  BY DEF CallInv, GoodCall
<1>1. CASE d = c
  <2>1. call'[d] = e
    BY <1>1 DEF Becomes, TypeOK
  <2> QED BY <2>1 DEF GoodCall, FreshCall, RepCall, OnceCall, ReadAnswered, ReadReturned
<1>2. CASE d # c
  <2>1. call'[d] = call[d]
    BY <1>2 DEF Becomes, TypeOK
  <2>2. FreshCall(call[d]) /\ RepCall(call[d]) /\ OnceCall(call[d]) /\ call[d] \in Call
    BY DEF CallInv, TypeOK
  <2>3. FreshCall(call[d])'
    BY <2>1, <2>2 DEF FreshCall, Call, TypeOK, ReadAnswered, ReadReturned
  <2>4. RepCall(call[d])' /\ OnceCall(call[d])'
    BY <2>1, <2>2 DEF RepCall, OnceCall, ReadAnswered, ReadReturned
  <2> QED BY <2>1, <2>3, <2>4 DEF GoodCall, FreshCall, RepCall, OnceCall,
             ReadAnswered, ReadReturned
<1> QED BY <1>1, <1>2

\* Nothing but values leaves the cache.
CacheShrinks == \A k \in Keys : cache'[k] = cache[k] \/ cache'[k].kind # "value"

LEMMA KeepPending ==
  ASSUME TypeOK, NEW c \in Callers, NEW e \in Call, Becomes(c, e), NEW a \in Apis,
         PendingWrite(call[c], a) => PendingWrite(e, a), WritePending(a)
  PROVE  WritePending(a)'
<1>1. PICK d \in Callers : PendingWrite(call[d], a)
  BY DEF WritePending
<1>2. PendingWrite(call'[d], a)
  BY <1>1 DEF Becomes, TypeOK
<1> QED BY <1>2 DEF WritePending, PendingWrite

\* Excuses only get more.
ExcusesKept == \A a \in Apis, b \in BOOLEAN : Excused(a, b) => Excused(a, b)'

LEMMA StaleKept ==
  ASSUME TypeOK, IInv, ver' = ver, CacheShrinks, ExcusesKept
  PROVE  StaleHasACause'
<1> SUFFICES ASSUME NEW a \in Apis, NEW r \in Reps,
                      cache'[<<a, r>>].kind = "value", cache'[<<a, r>>].ver < ver'[a]
               PROVE  Excused(a, cache[<<a, r>>].overtaken)'
  BY DEF StaleHasACause
<1>1. <<a, r>> \in Keys /\ cache'[<<a, r>>] = cache[<<a, r>>]
  BY DEF Keys, CacheShrinks
<1>2. Excused(a, cache[<<a, r>>].overtaken) /\ cache[<<a, r>>].overtaken \in BOOLEAN
  BY <1>1 DEF IInv, StaleHasACause, TypeOK, Entry
<1> QED BY <1>1, <1>2 DEF Excused, ExcusesKept

LEMMA QuietStep ==
  ASSUME TypeOK, IInv, NEW c \in Callers, NEW e \in Call, Becomes(c, e),
         ver' = ver, lostWrite' = lostWrite, CacheShrinks,
         \A a \in Apis : PendingWrite(call[c], a) => PendingWrite(e, a),
         ~ReadAnswered(e), GoodCall(e)
  PROVE  IInv'
<1>1. ExcusesKept
  BY KeepPending DEF Excused, ExcusesKept
<1>2. StaleHasACause'
  BY <1>1, StaleKept
<1>3. AnswerHasACause'
  <2> SUFFICES ASSUME NEW d \in Callers, ReadAnswered(call[d])',
                      call'[d].got < ver'[call'[d].api]
               PROVE  Excused(call[d].api, call[d].overtaken)'
    BY DEF AnswerHasACause, ReadAnswered
  <2>1. call'[d] = call[d]
    BY DEF Becomes, TypeOK
  <2>2. Excused(call[d].api, call[d].overtaken) /\ call[d] \in Call
    BY <2>1 DEF IInv, AnswerHasACause, TypeOK
  <2> QED BY <1>1, <2>1, <2>2 DEF Call, Excused, ExcusesKept
<1>4. CacheKeepsRep'
  BY DEF IInv, CacheKeepsRep, CacheShrinks, Keys
<1>5. CallInv'
  <2>1. GoodCall(e)'
    BY DEF GoodCall, FreshCall, RepCall, OnceCall, ReadAnswered, ReadReturned
  <2> QED BY <2>1, CallInvStep DEF IInv, TypeOK
<1> QED BY <1>2, <1>3, <1>4, <1>5 DEF IInv

\* A call that ends without a value it read, or goes on to a request or a login.
LEMMA EndedGood ==
  ASSUME TypeOK, IInv, NEW c \in Callers, NEW out \in Outs,
         call[c].op = "poll" => out # "value"
  PROVE  GoodCall(Ended(c, out)) /\ ~ReadAnswered(Ended(c, out))
<1>1. FreshCall(call[c]) /\ OnceCall(call[c]) /\ call[c] \in Call
  BY DEF IInv, CallInv, TypeOK
<1>2. /\ Ended(c, out).pc = "done" /\ Ended(c, out).op = call[c].op
      /\ Ended(c, out).out = out /\ Ended(c, out).api = call[c].api
      /\ Ended(c, out).force = call[c].force /\ Ended(c, out).since = call[c].since
      /\ Ended(c, out).applied = call[c].applied
  BY <1>1 DEF Ended, Call
<1> QED BY <1>1, <1>2 DEF GoodCall, FreshCall, RepCall, OnceCall, ReadAnswered,
           ReadReturned

LEMMA FinishQuiet ==
  ASSUME TypeOK, IInv, NEW c \in Callers, NEW out \in Outs, Finish(c, out),
         call[c].op = "poll" => out # "value",
         \A a \in Apis : ~PendingWrite(call[c], a),
         ver' = ver, lostWrite' = lostWrite, CacheShrinks
  PROVE  IInv'
BY EndedType, EndedGood, QuietStep DEF Finish, TypeOK

LEMMA GotoQuiet ==
  ASSUME TypeOK, IInv, NEW c \in Callers, NEW pc \in Steps \ {"idle", "answered", "done"},
         Goto(c, pc), call[c].pc \notin {"idle", "done"},
         pc \in {"guard", "sent", "relogin"} => call[c].applied = 0,
         \A a \in Apis : PendingWrite(call[c], a) => pc = "invalidate",
         ver' = ver, lostWrite' = lostWrite, CacheShrinks
  PROVE  IInv'
<1> DEFINE e == [call[c] EXCEPT !.pc = pc]
<1>1. call[c] \in Call /\ e \in Call
  BY CallUpdates DEF TypeOK
<1>2. FreshCall(call[c]) /\ RepCall(call[c]) /\ OnceCall(call[c])
  BY DEF IInv, CallInv
<1>3. GoodCall(e) /\ ~ReadAnswered(e)
  BY <1>1, <1>2 DEF GoodCall, FreshCall, RepCall, OnceCall, ReadAnswered, ReadReturned, Call
<1>4. \A a \in Apis : PendingWrite(call[c], a) => PendingWrite(e, a)
  BY <1>1 DEF PendingWrite, Call
<1> QED BY <1>1, <1>3, <1>4, QuietStep DEF Goto

LEMMA PutShrinks ==
  ASSUME TypeOK, NEW keys, NEW entry \in {Absent, Negative}, cache' = Put(keys, entry)
  PROVE  CacheShrinks
BY DEF CacheShrinks, Put, Absent, Negative

LEMMA SameCacheShrinks == ASSUME cache' = cache PROVE CacheShrinks
BY DEF CacheShrinks

LEMMA LookupInv ==
  ASSUME TypeOK, IInv, NEW c \in Callers, Lookup(c)
  PROVE  IInv'
<1> DEFINE entry == cache[<<call[c].api, Rep(call[c].raw)>>]
           e == [Ended(c, "value") EXCEPT !.rep = entry.rep, !.got = entry.ver]
<1>1. /\ call[c] \in Call /\ call[c].pc = "lookup" /\ call[c].op = "poll"
      /\ FreshCall(call[c]) /\ RepCall(call[c]) /\ OnceCall(call[c])
  BY DEF TypeOK, Lookup, At, IInv, CallInv
<1>2. ver' = ver /\ lostWrite' = lostWrite /\ cache' = cache /\ CacheShrinks
  BY SameCacheShrinks DEF Lookup, gatewayState
<1>3. call[c].applied = 0 /\ \A a \in Apis : ~PendingWrite(call[c], a)
  BY <1>1 DEF OnceCall, PendingWrite
<1>4. entry \in Entry
  BY <1>1, RepType DEF TypeOK, Call, Keys
<1>5. CASE Finish(c, "ErrNotFound")
  BY <1>2, <1>3, <1>5, FinishQuiet DEF Outs
<1>6. CASE Goto(c, "guard")
  BY <1>1, <1>2, <1>3, <1>6, GotoQuiet DEF Steps
<1>7. CASE ~call[c].force /\ entry.kind = "value" /\ Becomes(c, e)
  <2>1. e \in Call
    BY <1>4, EndedType, CallUpdates DEF Entry, Outs, TypeOK
  <2>2. entry.rep = Rep(call[c].raw)
    BY <1>1, <1>7, RepType DEF IInv, CacheKeepsRep, Call
  <2>3. /\ e.pc = "done" /\ e.op = "poll" /\ e.api = call[c].api /\ e.want = call[c].want
        /\ e.force = FALSE /\ e.rep = entry.rep /\ e.applied = 0
    BY <1>1, <1>3, <1>4, <1>7 DEF Ended, Call
  <2>4. call[c].raw = (call[c].want \/ call[c].api = Vitals)
    BY <1>1 DEF RepCall, EffectiveRaw
  <2>5. e.since = 0 /\ e.got \in Nat /\ ver[e.api] \in Nat
    BY <1>1, <1>3, <1>4, <1>7, <2>3 DEF Ended, Call, FreshCall, Entry, TypeOK
  <2>6. GoodCall(e) /\ ~ReadAnswered(e)
    BY <2>2, <2>3, <2>4, <2>5 DEF GoodCall, FreshCall, RepCall, OnceCall, ReadAnswered, ReadReturned
  <2> QED BY <1>2, <1>3, <1>7, <2>1, <2>6, QuietStep
<1> QED BY <1>5, <1>6, <1>7 DEF Lookup

LEMMA SendRequestInv ==
  ASSUME TypeOK, IInv, NEW c \in Callers, SendRequest(c), call[c].pc = "guard",
         ver' = ver, lostWrite' = lostWrite, cache' = cache
  PROVE  IInv'
<1>1. PICK s \in Sessions \cup {NoSession} :
        Becomes(c, [call[c] EXCEPT !.pc = "sent", !.cred = s])
  BY DEF SendRequest, ReadAuth, TypeOK
<1> DEFINE e == [call[c] EXCEPT !.pc = "sent", !.cred = s]
<1>2. call[c] \in Call /\ e \in Call
  BY CallUpdates DEF TypeOK, Steps
<1>3. FreshCall(call[c]) /\ RepCall(call[c]) /\ OnceCall(call[c])
  BY DEF IInv, CallInv
<1>4. GoodCall(e) /\ ~ReadAnswered(e) /\ \A a \in Apis : ~PendingWrite(call[c], a)
  BY <1>2, <1>3 DEF GoodCall, FreshCall, RepCall, OnceCall, ReadAnswered, ReadReturned,
     PendingWrite, Call
<1> QED BY <1>1, <1>2, <1>4, QuietStep, SameCacheShrinks

LEMMA GuardInv ==
  ASSUME TypeOK, IInv, NEW c \in Callers, PollGuard(c) \/ PostGuard(c)
  PROVE  IInv'
<1>1. ver' = ver /\ lostWrite' = lostWrite /\ cache' = cache /\ call[c].pc = "guard"
  BY DEF PollGuard, PostGuard, gatewayState, At
<1>2. \A a \in Apis : ~PendingWrite(call[c], a)
  BY <1>1 DEF PendingWrite
<1>3. ASSUME NEW out \in {"ErrRateLimited", "ErrNotFound"}, Finish(c, out) PROVE IInv'
  BY <1>1, <1>2, <1>3, FinishQuiet, SameCacheShrinks DEF Outs
<1> QED BY <1>1, <1>3, SendRequestInv DEF PollGuard, PostGuard

\* The record an answer leaves.
Answered(c, st, n) ==
  [call[c] EXCEPT !.pc = "answered", !.status = st, !.cred = NoSession,
                  !.rep = Rep(call[c].raw), !.got = n]

LEMMA AnsweredGood ==
  ASSUME TypeOK, IInv, NEW c \in Callers, call[c].pc = "sent",
         NEW st \in Statuses, NEW n \in Nat,
         call[c].op = "post" => st # "ok",
         st = "ok" => n = ver[call[c].api]
  PROVE  /\ Answered(c, st, n) \in Call
         /\ GoodCall(Answered(c, st, n))
         /\ \A a \in Apis : ~PendingWrite(call[c], a) /\ ~PendingWrite(Answered(c, st, n), a)
         /\ ReadAnswered(Answered(c, st, n)) <=> call[c].op = "poll" /\ st = "ok"
<1> DEFINE e == Answered(c, st, n)
<1>1. /\ call[c] \in Call /\ FreshCall(call[c]) /\ RepCall(call[c]) /\ OnceCall(call[c])
  BY DEF TypeOK, IInv, CallInv
<1>2. e \in Call
  BY <1>1, RepType, CallUpdates DEF Answered, Steps
<1>3. /\ e.pc = "answered" /\ e.status = st /\ e.rep = Rep(call[c].raw) /\ e.got = n
      /\ e.op = call[c].op /\ e.api = call[c].api /\ e.want = call[c].want
      /\ e.raw = call[c].raw /\ e.force = call[c].force /\ e.since = call[c].since
      /\ e.applied = call[c].applied
  BY <1>1 DEF Answered, Call
<1> HIDE DEF e
<1>4. FreshCall(e) /\ RepCall(e) /\ OnceCall(e)
  BY <1>1, <1>3 DEF FreshCall, RepCall, OnceCall, ReadAnswered, ReadReturned, Call
<1>5. \A a \in Apis : ~PendingWrite(call[c], a) /\ ~PendingWrite(e, a)
  BY <1>1, <1>3 DEF PendingWrite, Call
<1>6. ReadAnswered(e) <=> call[c].op = "poll" /\ st = "ok"
  BY <1>3 DEF ReadAnswered
<1> QED BY <1>2, <1>4, <1>5, <1>6 DEF e, GoodCall

LEMMA ServeUnappliedInv ==
  ASSUME TypeOK, IInv, NEW c \in Callers, ServeUnapplied(c)
  PROVE  IInv'
<1>1. PICK st \in Unapplied(c) : Answer(c, st)
  BY DEF ServeUnapplied
<1>2. st \in Statuses /\ st # "ok" /\ call[c].pc = "sent"
  BY DEF Unapplied, Statuses, ServeUnapplied
<1>3. Becomes(c, Answered(c, st, 0))
  BY <1>1, <1>2 DEF Answer, Answered
<1>4. /\ Answered(c, st, 0) \in Call /\ GoodCall(Answered(c, st, 0))
      /\ ~ReadAnswered(Answered(c, st, 0)) /\ \A a \in Apis : ~PendingWrite(call[c], a)
  BY <1>2, AnsweredGood
<1>5. ver' = ver /\ lostWrite' = lostWrite /\ CacheShrinks
  BY SameCacheShrinks DEF ServeUnapplied, gatewayState
<1> QED BY <1>3, <1>4, <1>5, QuietStep

\* The answer to a read, which is as new as the gateway's state.
LEMMA ReadAnsweredStep ==
  ASSUME TypeOK, IInv, NEW c \in Callers, NEW e \in Call, Becomes(c, e),
         ver' = ver, lostWrite' = lostWrite, cache' = cache,
         \A a \in Apis : ~PendingWrite(call[c], a),
         e.got = ver[e.api], GoodCall(e)
  PROVE  IInv'
<1>1. ExcusesKept
  BY KeepPending DEF Excused, ExcusesKept
<1>2. StaleHasACause'
  BY <1>1, StaleKept, SameCacheShrinks
<1>3. AnswerHasACause'
  <2> SUFFICES ASSUME NEW d \in Callers, ReadAnswered(call[d])',
                      call'[d].got < ver'[call'[d].api]
               PROVE  Excused(call[d].api, call[d].overtaken)'
    BY DEF AnswerHasACause, ReadAnswered
  <2>1. d # c
    BY DEF Becomes, TypeOK, Call
  <2>2. call'[d] = call[d]
    BY <2>1 DEF Becomes, TypeOK
  <2>3. ReadAnswered(call[d]) /\ call[d].got < ver[call[d].api]
    BY <2>2 DEF ReadAnswered
  <2>4. Excused(call[d].api, call[d].overtaken) /\ call[d] \in Call
    BY <2>3 DEF IInv, AnswerHasACause, TypeOK
  <2> QED BY <1>1, <2>2, <2>4 DEF Call, Excused, ExcusesKept
<1>4. CacheKeepsRep'
  BY DEF IInv, CacheKeepsRep
<1>5. CallInv'
  <2>1. GoodCall(e)'
    BY DEF GoodCall, FreshCall, RepCall, OnceCall, ReadAnswered, ReadReturned
  <2> QED BY <2>1, CallInvStep DEF IInv, TypeOK
<1> QED BY <1>2, <1>3, <1>4, <1>5 DEF IInv

LEMMA ServeReadInv ==
  ASSUME TypeOK, IInv, NEW c \in Callers, ServeRead(c)
  PROVE  IInv'
<1> DEFINE n == ver[call[c].api]
           e == Answered(c, "ok", n)
<1>1. /\ call[c] \in Call /\ call[c].pc = "sent" /\ call[c].op = "poll"
      /\ ver' = ver /\ lostWrite' = lostWrite /\ cache' = cache
  BY DEF TypeOK, ServeRead, At, gatewayState
<1>2. n \in Nat /\ "ok" \in Statuses
  BY <1>1 DEF TypeOK, Call, Statuses
<1>3. Becomes(c, e)
  BY <1>1 DEF ServeRead, Answer, Answered, At
<1>4. e \in Call /\ GoodCall(e) /\ \A a \in Apis : ~PendingWrite(call[c], a)
  BY <1>1, <1>2, AnsweredGood
<1>5. e.got = ver[e.api]
  BY <1>1 DEF Answered, Call
<1> HIDE DEF e
<1> QED BY <1>1, <1>3, <1>4, <1>5, ReadAnsweredStep

(***************************************************************************)
(* The gateway applies a write: whatever was read before is stale now, and *)
(* the write that is under way - or whose answer is lost - excuses it.     *)
(***************************************************************************)
LEMMA WriteAppliedStep ==
  ASSUME TypeOK, IInv, NEW c \in Callers, NEW e \in Call, Becomes(c, e), cache' = cache,
         NEW a \in Apis, ver' = [ver EXCEPT ![a] = @ + 1],
         \A b \in Apis : lostWrite[b] => lostWrite'[b],
         PendingWrite(e, a) \/ lostWrite'[a], e.op = "post", OnceCall(e),
         \A b \in Apis : ~PendingWrite(call[c], b)
  PROVE  IInv'
<1>1. ExcusesKept
  BY KeepPending DEF Excused, ExcusesKept
<1>2. WritePending(a)' \/ lostWrite'[a]
  <2>1. call'[c] = e
    BY DEF Becomes, TypeOK
  <2> QED BY <2>1 DEF WritePending, PendingWrite
<1>3. \A b \in BOOLEAN : Excused(a, b)'
  BY <1>2 DEF Excused
<1>4. \A b \in Apis : b # a => ver'[b] = ver[b]
  BY DEF TypeOK
<1>5. StaleHasACause'
  <2> SUFFICES ASSUME NEW b \in Apis, NEW r \in Reps,
                      cache'[<<b, r>>].kind = "value", cache'[<<b, r>>].ver < ver'[b]
               PROVE  Excused(b, cache[<<b, r>>].overtaken)'
    BY DEF StaleHasACause
  <2>1. cache[<<b, r>>] \in Entry
    BY DEF Keys, TypeOK
  <2>2. CASE b = a
    BY <1>3, <2>1, <2>2 DEF Entry, Excused
  <2>3. CASE b # a
    <3>1. Excused(b, cache[<<b, r>>].overtaken)
      BY <1>4, <2>3 DEF IInv, StaleHasACause
    <3> QED BY <1>1, <2>1, <3>1 DEF Entry, Excused, ExcusesKept
  <2> QED BY <2>2, <2>3
<1>6. AnswerHasACause'
  <2> SUFFICES ASSUME NEW d \in Callers, ReadAnswered(call[d])',
                      call'[d].got < ver'[call'[d].api]
               PROVE  Excused(call[d].api, call[d].overtaken)'
    BY DEF AnswerHasACause, ReadAnswered
  <2>1. d # c
    BY DEF Becomes, TypeOK, ReadAnswered
  <2>2. call'[d] = call[d] /\ call[d] \in Call
    BY <2>1 DEF Becomes, TypeOK
  <2>3. CASE call[d].api = a
    BY <1>3, <2>2, <2>3 DEF Call, Excused
  <2>4. CASE call[d].api # a
    <3>1. ReadAnswered(call[d]) /\ call[d].got < ver[call[d].api]
      BY <1>4, <2>2, <2>4 DEF ReadAnswered, Call
    <3>2. Excused(call[d].api, call[d].overtaken)
      BY <3>1 DEF IInv, AnswerHasACause
    <3> QED BY <1>1, <2>2, <3>2 DEF Call, Excused, ExcusesKept
  <2> QED BY <2>3, <2>4
<1>7. CacheKeepsRep'
  BY DEF IInv, CacheKeepsRep
<1>8. CallInv'
  <2>1. GoodCall(e)'
    BY DEF GoodCall, FreshCall, RepCall, OnceCall
  <2>2. ver' \in [Apis -> Nat] /\ \A b \in Apis : ver[b] <= ver'[b]
    BY DEF TypeOK
  <2> QED BY <2>1, <2>2, CallInvStep DEF IInv
<1> QED BY <1>5, <1>6, <1>7, <1>8 DEF IInv

LEMMA ServeWriteInv ==
  ASSUME TypeOK, IInv, NEW c \in Callers, ServeWrite(c)
  PROVE  IInv'
<1> DEFINE a == call[c].api
<1>1. /\ call[c] \in Call /\ OnceCall(call[c])
      /\ call[c].pc = "sent" /\ call[c].op = "post" /\ a \in Apis
  BY DEF TypeOK, ServeWrite, At, IInv, CallInv, Call
<1>2. PICK st \in {"ok", "lost"} :
        /\ Becomes(c, [call[c] EXCEPT !.pc = "answered", !.status = st,
                                      !.cred = NoSession, !.applied = @ + 1])
        /\ lostWrite' = [lostWrite EXCEPT ![a] = @ \/ st = "lost"]
  BY DEF ServeWrite
<1> DEFINE e == [call[c] EXCEPT !.pc = "answered", !.status = st,
                                !.cred = NoSession, !.applied = @ + 1]
<1>3. /\ "answered" \in Steps /\ st \in Statuses
      /\ call[c].applied = 0 /\ call[c].applied + 1 \in Nat
  BY <1>1 DEF Steps, Statuses, OnceCall
<1>4. e \in Call
  BY <1>1, <1>3, CallUpdates
<1>5. /\ e.op = "post" /\ e.api = a /\ e.pc = "answered" /\ e.status = st /\ e.applied = 1
  BY <1>1, <1>3 DEF Call
<1>6. Becomes(c, e)
  BY <1>2
<1> HIDE DEF e
<1>7. OnceCall(e) /\ \A b \in Apis : ~PendingWrite(call[c], b)
  BY <1>1, <1>2, <1>5 DEF OnceCall, PendingWrite
<1>8. /\ \A b \in Apis : lostWrite[b] => lostWrite'[b]
      /\ st = "lost" => lostWrite'[a]
  <2>1. lostWrite \in [Apis -> BOOLEAN]
    BY DEF TypeOK
  <2>2. \A b \in Apis : b # a => lostWrite'[b] = lostWrite[b]
    BY <1>2, <2>1
  <2>3. lostWrite'[a] = (lostWrite[a] \/ st = "lost")
    BY <1>1, <1>2, <2>1
  <2> QED BY <2>2, <2>3
<1>9. PendingWrite(e, a) \/ lostWrite'[a]
  BY <1>1, <1>2, <1>5, <1>8 DEF PendingWrite
<1>10. ver' = [ver EXCEPT ![a] = @ + 1] /\ cache' = cache
  BY DEF ServeWrite
<1> QED BY <1>1, <1>4, <1>5, <1>6, <1>7, <1>8, <1>9, <1>10, WriteAppliedStep

(***************************************************************************)
(* A read is stored: the excuse of the answer becomes that of the entry.   *)
(***************************************************************************)
LEMMA PollOkInv ==
  ASSUME TypeOK, IInv, NEW c \in Callers, PollOk(c)
  PROVE  IInv'
<1> DEFINE a == call[c].api
           k == <<a, Rep(call[c].raw)>>
           entry == [kind |-> "value", rep |-> call[c].rep, ver |-> call[c].got,
                     overtaken |-> call[c].overtaken]
           e == Ended(c, "value")
<1>1. /\ call[c] \in Call /\ ReadAnswered(call[c]) /\ a \in Apis
      /\ FreshCall(call[c]) /\ RepCall(call[c]) /\ OnceCall(call[c])
      /\ call[c].pc = "answered" /\ call[c].op = "poll"
  BY DEF TypeOK, PollOk, At, IInv, CallInv, Call, ReadAnswered
<1>2. /\ ver' = ver /\ lostWrite' = lostWrite /\ cache' = Put({k}, entry)
      /\ Becomes(c, e)
  BY DEF PollOk, gatewayState, Finish
<1>3. /\ e \in Call /\ e.pc = "done" /\ e.op = "poll" /\ e.api = a /\ e.want = call[c].want
      /\ e.force = call[c].force /\ e.since = call[c].since /\ e.rep = call[c].rep
      /\ e.got = call[c].got /\ e.applied = call[c].applied
  <2>1. e \in Call
    BY EndedType DEF Outs, TypeOK
  <2> QED BY <1>1, <2>1, EndedFields
<1>4. GoodCall(e) /\ \A b \in Apis : ~PendingWrite(call[c], b)
  <2>1. FreshCall(e)
    BY <1>1, <1>3 DEF FreshCall, ReadAnswered, ReadReturned
  <2>2. RepCall(e)
    BY <1>1, <1>3 DEF RepCall, ReadAnswered, ReadReturned, EffectiveRaw
  <2>3. OnceCall(e)
    BY <1>1, <1>3 DEF OnceCall
  <2> QED BY <1>1, <2>1, <2>2, <2>3 DEF GoodCall, PendingWrite
<1>5. ExcusesKept
  BY <1>2, <1>3, <1>4, KeepPending DEF Excused, ExcusesKept
<1>6. call[c].got < ver[a] => Excused(a, call[c].overtaken)
  BY <1>1 DEF IInv, AnswerHasACause
<1>7. \A j \in Keys : cache'[j] = IF j = k THEN entry ELSE cache[j]
  BY <1>2 DEF Put
<1>8. StaleHasACause'
  <2> SUFFICES ASSUME NEW b \in Apis, NEW r \in Reps,
                      cache'[<<b, r>>].kind = "value", cache'[<<b, r>>].ver < ver'[b]
               PROVE  Excused(b, cache[<<b, r>>].overtaken)'
    BY DEF StaleHasACause
  <2>1. <<b, r>> \in Keys
    BY DEF Keys
  <2>2. CASE <<b, r>> = k
    <3>1. b = a /\ cache'[<<b, r>>] = entry
      BY <1>7, <2>1, <2>2
    <3>2. Excused(a, call[c].overtaken) /\ call[c].overtaken \in BOOLEAN
      BY <1>1, <1>2, <1>6, <3>1 DEF Call
    <3> QED BY <1>1, <1>5, <3>1, <3>2 DEF Excused, ExcusesKept
  <2>3. CASE <<b, r>> # k
    <3>1. cache'[<<b, r>>] = cache[<<b, r>>]
      BY <1>7, <2>1, <2>3
    <3>2. Excused(b, cache[<<b, r>>].overtaken) /\ cache[<<b, r>>].overtaken \in BOOLEAN
      BY <1>2, <2>1, <3>1 DEF IInv, StaleHasACause, TypeOK, Entry
    <3> QED BY <1>5, <3>1, <3>2 DEF Excused, ExcusesKept
  <2> QED BY <2>2, <2>3
<1>9. AnswerHasACause'
  <2> SUFFICES ASSUME NEW d \in Callers, ReadAnswered(call[d])',
                      call'[d].got < ver'[call'[d].api]
               PROVE  Excused(call[d].api, call[d].overtaken)'
    BY DEF AnswerHasACause, ReadAnswered
  <2>1. d # c
    BY <1>2, <1>3 DEF Becomes, TypeOK, ReadAnswered
  <2>2. call'[d] = call[d]
    BY <1>2, <2>1 DEF Becomes, TypeOK
  <2>3. ReadAnswered(call[d]) /\ call[d].got < ver[call[d].api]
    BY <1>2, <2>2 DEF ReadAnswered
  <2>4. Excused(call[d].api, call[d].overtaken) /\ call[d] \in Call
    BY <2>3 DEF IInv, AnswerHasACause, TypeOK
  <2> QED BY <1>5, <2>2, <2>4 DEF Call, Excused, ExcusesKept
<1>10. CacheKeepsRep'
  <2>1. call[c].rep = Rep(call[c].raw)
    BY <1>1 DEF RepCall
  <2> QED BY <1>7, <2>1 DEF IInv, CacheKeepsRep, Keys
<1>11. CallInv'
  <2> HIDE DEF e
  <2>1. PICK f \in Call : f = e
    BY <1>3
  <2>2. GoodCall(f)'
    BY <1>2, <1>4, <2>1 DEF GoodCall, FreshCall, RepCall, OnceCall, ReadAnswered, ReadReturned
  <2> QED BY <1>2, <2>1, <2>2, CallInvStep DEF IInv, TypeOK
<1> QED BY <1>8, <1>9, <1>10, <1>11 DEF IInv

(***************************************************************************)
(* Poll and Post ending otherwise, and the retry.                          *)
(***************************************************************************)
LEMMA PollEndsInv ==
  ASSUME TypeOK, IInv, NEW c \in Callers,
         PollNotFound(c) \/ PollRateLimited(c) \/ PollFailed(c) \/ PollDenied(c)
  PROVE  IInv'
<1>1. /\ ver' = ver /\ lostWrite' = lostWrite /\ call[c].op = "poll"
      /\ call[c].pc = "answered" /\ call[c].applied = 0
  BY DEF PollNotFound, PollRateLimited, PollFailed, PollDenied, gatewayState, At,
     IInv, CallInv, OnceCall
<1>2. \A a \in Apis : ~PendingWrite(call[c], a)
  BY <1>1 DEF PendingWrite
<1>3. CacheShrinks
  BY PutShrinks, SameCacheShrinks
  DEF PollNotFound, PollRateLimited, PollFailed, PollDenied
<1>4. ASSUME NEW out \in Outs \ {"value"}, Finish(c, out) PROVE IInv'
  BY <1>1, <1>2, <1>3, <1>4, FinishQuiet
<1>5. CASE Goto(c, "relogin")
  BY <1>1, <1>2, <1>3, <1>5, GotoQuiet DEF Steps
<1> QED BY <1>4, <1>5 DEF PollNotFound, PollRateLimited, PollFailed, PollDenied, Outs

LEMMA PostAnsweredInv ==
  ASSUME TypeOK, IInv, NEW c \in Callers, PostAnswered(c)
  PROVE  IInv'
<1>1. /\ ver' = ver /\ lostWrite' = lostWrite /\ CacheShrinks
      /\ call[c].op = "post" /\ call[c].pc = "answered" /\ OnceCall(call[c])
  BY SameCacheShrinks DEF PostAnswered, gatewayState, At, IInv, CallInv
<1>2. CASE call[c].status = "lost" /\ Finish(c, "ErrNet")
  BY <1>1, <1>2, FinishQuiet DEF Outs, PendingWrite
<1>3. CASE call[c].status = "denied" /\ Goto(c, "relogin")
  BY <1>1, <1>3, GotoQuiet DEF Steps, PendingWrite, OnceCall
<1>4. CASE Goto(c, "invalidate")
  BY <1>1, <1>4, GotoQuiet DEF Steps
<1> QED BY <1>2, <1>3, <1>4 DEF PostAnswered

LEMMA LoginInv ==
  ASSUME TypeOK, IInv, NEW c \in Callers, LoginOk(c) \/ LoginFails(c)
  PROVE  IInv'
<1>1. /\ ver' = ver /\ lostWrite' = lostWrite /\ call[c].pc = "relogin" /\ CacheShrinks
      /\ call[c] \in Call /\ FreshCall(call[c]) /\ RepCall(call[c]) /\ OnceCall(call[c])
  BY PutShrinks, SameCacheShrinks DEF LoginOk, LoginFails, gatewayState, TypeOK, IInv, CallInv
<1>2. call[c].applied = 0 /\ \A a \in Apis : ~PendingWrite(call[c], a)
  BY <1>1 DEF OnceCall, PendingWrite
<1>3. CASE call[c].op = "poll" /\ Finish(c, "ErrLogin")
  BY <1>1, <1>2, <1>3, FinishQuiet DEF Outs
<1>4. CASE Goto(c, "invalidate")
  BY <1>1, <1>2, <1>4, GotoQuiet DEF Steps
<1>5. CASE Becomes(c, Retry(c))
  <2>1. Retry(c) \in Call
    BY <1>1, CallUpdates DEF Retry, FirstStep, Steps, Statuses
  <2>2. GoodCall(Retry(c)) /\ ~ReadAnswered(Retry(c))
    BY <1>1, <1>2 DEF Retry, FirstStep, GoodCall, FreshCall, RepCall, OnceCall,
       ReadAnswered, ReadReturned, Call
  <2> QED BY <1>1, <1>2, <1>5, <2>1, <2>2, QuietStep
<1> QED BY <1>3, <1>4, <1>5 DEF LoginOk, LoginFails

LEMMA IdleGood == GoodCall(Idle) /\ ~ReadAnswered(Idle)
BY DEF Idle, GoodCall, FreshCall, RepCall, OnceCall, ReadAnswered, ReadReturned

LEMMA ReturnInv ==
  ASSUME TypeOK, IInv, NEW c \in Callers, Return(c)
  PROVE  IInv'
<1>1. \A a \in Apis : ~PendingWrite(call[c], a)
  BY DEF Return, PendingWrite
<1> QED BY <1>1, IdleGood, IdleType, QuietStep, SameCacheShrinks DEF Return, gatewayState

LEMMA BeginInv ==
  ASSUME TypeOK, IInv, NEW c \in Callers, Begin(c)
  PROVE  IInv'
<1>1. PICK r \in Requests : Becomes(c, NewCall(r))
  BY DEF Begin
<1>2. /\ r.op \in {"poll", "post"} /\ r.api \in Apis
      /\ r.raw \in BOOLEAN /\ r.force \in BOOLEAN
  BY DEF Request
<1>3. /\ NewCall(r).pc = FirstStep(r.op) /\ NewCall(r).op = r.op
      /\ NewCall(r).api = r.api /\ NewCall(r).want = r.raw
      /\ NewCall(r).raw = EffectiveRaw(r.api, r.raw) /\ NewCall(r).force = r.force
      /\ NewCall(r).since = (IF r.force THEN ver[r.api] ELSE 0)
      /\ NewCall(r).applied = 0
  BY DEF NewCall, Idle
<1>4. ver[r.api] \in Nat
  BY <1>2 DEF TypeOK
<1>5. GoodCall(NewCall(r)) /\ ~ReadAnswered(NewCall(r))
  BY <1>2, <1>3, <1>4 DEF FirstStep, GoodCall, FreshCall, RepCall, OnceCall,
     ReadAnswered, ReadReturned
<1>6. \A a \in Apis : ~PendingWrite(call[c], a)
  BY DEF Begin, PendingWrite
<1> QED BY <1>1, <1>5, <1>6, NewCallType, QuietStep, SameCacheShrinks DEF Begin, gatewayState

(***************************************************************************)
(* The invalidation empties both keyspaces of the endpoint and leaves an   *)
(* excuse with every answer it overtakes; other endpoints are not touched. *)
(***************************************************************************)
LEMMA PostInvalidateInv ==
  ASSUME TypeOK, IInv, NEW c \in Callers, PostInvalidate(c)
  PROVE  IInv'
<1> DEFINE a == call[c].api
<1>1. /\ call[c] \in Call /\ a \in Apis /\ call[c].op = "post" /\ ver' = ver
      /\ call[c].pc = "invalidate"
  BY DEF TypeOK, PostInvalidate, At, gatewayState, Call
<1>2. \A k \in Keys : cache'[k] = IF k \in InvalidatedKeys(a) THEN Absent ELSE cache[k]
  BY DEF PostInvalidate, Put
<1>3. \A b \in Apis : b # a => lostWrite'[b] = lostWrite[b]
  BY <1>1 DEF PostInvalidate, TypeOK
<1>4. /\ call'[c] = Ended(c, "value")
      /\ \A d \in Callers \ {c} :
           call'[d] = IF ReadAnswered(call[d]) /\ call[d].api = a
                      THEN [call[d] EXCEPT !.overtaken = TRUE] ELSE call[d]
  BY DEF PostInvalidate, At, ReadAnswered
<1>5. ASSUME NEW b \in Apis, b # a, NEW o \in BOOLEAN, Excused(b, o)
      PROVE  Excused(b, o)'
  <2>1. ASSUME NEW d \in Callers, PendingWrite(call[d], b) PROVE WritePending(b)'
    <3>1. d # c /\ ~ReadAnswered(call[d])
      BY <1>5, <2>1 DEF PendingWrite, ReadAnswered
    <3>2. call'[d] = call[d]
      BY <1>4, <3>1
    <3> QED BY <2>1, <3>2 DEF WritePending, PendingWrite
  <2> QED BY <1>3, <1>5, <2>1 DEF Excused, WritePending
<1>6. StaleHasACause'
  <2> SUFFICES ASSUME NEW b \in Apis, NEW r \in Reps,
                      cache'[<<b, r>>].kind = "value", cache'[<<b, r>>].ver < ver'[b]
               PROVE  Excused(b, cache[<<b, r>>].overtaken)'
    BY DEF StaleHasACause
  <2>1. <<b, r>> \in Keys
    BY DEF Keys
  <2>2. <<b, r>> \notin InvalidatedKeys(a)
    BY <1>2, <2>1 DEF Absent
  <2>3. b # a /\ cache'[<<b, r>>] = cache[<<b, r>>]
    BY <1>2, <2>1, <2>2 DEF InvalidatedKeys
  <2>4. Excused(b, cache[<<b, r>>].overtaken) /\ cache[<<b, r>>].overtaken \in BOOLEAN
    BY <1>1, <2>1, <2>3 DEF IInv, StaleHasACause, TypeOK, Entry
  <2> QED BY <1>5, <2>3, <2>4 DEF Excused
<1>7. AnswerHasACause'
  <2> SUFFICES ASSUME NEW d \in Callers, ReadAnswered(call[d])',
                      call'[d].got < ver'[call'[d].api]
               PROVE  Excused(call[d].api, call[d].overtaken)'
    BY DEF AnswerHasACause, ReadAnswered
  <2>1. d # c
    BY <1>1, <1>4 DEF Ended, Call, ReadAnswered
  <2>2. call[d] \in Call
    BY DEF TypeOK
  <2>3. CASE ReadAnswered(call[d]) /\ call[d].api = a
    <3>1. call'[d].overtaken = TRUE
      BY <1>4, <2>1, <2>2, <2>3 DEF Call
    <3> QED BY <3>1 DEF Excused
  <2>4. CASE ~(ReadAnswered(call[d]) /\ call[d].api = a)
    <3>1. call'[d] = call[d]
      BY <1>4, <2>1, <2>4
    <3>2. ReadAnswered(call[d]) /\ call[d].got < ver[call[d].api] /\ call[d].api # a
      BY <1>1, <2>4, <3>1 DEF ReadAnswered
    <3>3. Excused(call[d].api, call[d].overtaken)
      BY <3>2 DEF IInv, AnswerHasACause
    <3> QED BY <1>5, <2>2, <3>1, <3>2, <3>3 DEF Call, Excused
  <2> QED BY <2>3, <2>4
<1>8. CacheKeepsRep'
  BY <1>2 DEF IInv, CacheKeepsRep, Keys, Absent
<1>9. CallInv'
  <2> SUFFICES ASSUME NEW d \in Callers PROVE GoodCall(call[d])'
    BY DEF CallInv, GoodCall
  <2>1. call[d] \in Call /\ FreshCall(call[d]) /\ RepCall(call[d]) /\ OnceCall(call[d])
    BY DEF IInv, CallInv, TypeOK
  <2>2. CASE d = c
    <3>1. GoodCall(Ended(c, "value"))
      BY <1>1, EndedGood DEF Outs
    <3>2. call'[d] = Ended(c, "value") /\ call[d].op = "post"
      BY <1>1, <1>4, <2>2
    <3>3. call'[d].op = "post"
      BY <2>1, <2>2, <3>2, EndedFields
    <3> QED BY <3>1, <3>2, <3>3 DEF GoodCall, FreshCall, RepCall, OnceCall
  <2>3. CASE d # c
    <3>1. /\ call'[d].op = call[d].op /\ call'[d].pc = call[d].pc
          /\ call'[d].status = call[d].status /\ call'[d].api = call[d].api
          /\ call'[d].force = call[d].force /\ call'[d].since = call[d].since
          /\ call'[d].got = call[d].got /\ call'[d].want = call[d].want
          /\ call'[d].raw = call[d].raw /\ call'[d].rep = call[d].rep
          /\ call'[d].out = call[d].out /\ call'[d].applied = call[d].applied
      <4>1. CASE ReadAnswered(call[d]) /\ call[d].api = a
        <5>1. call'[d] = [call[d] EXCEPT !.overtaken = TRUE]
          BY <1>4, <2>3, <4>1
        <5> QED BY <2>1, <5>1 DEF Call
      <4>2. CASE ~(ReadAnswered(call[d]) /\ call[d].api = a)
        BY <1>4, <2>3, <4>2
      <4> QED BY <4>1, <4>2
    <3> QED BY <1>1, <2>1, <3>1 DEF GoodCall, FreshCall, RepCall, OnceCall,
               ReadAnswered, ReadReturned
  <2> QED BY <2>2, <2>3
<1> QED BY <1>6, <1>7, <1>8, <1>9 DEF IInv

\* Steps of the environment: no call moves and no write is applied.
LEMMA EnvironmentInv ==
  ASSUME TypeOK, IInv, ver' = ver, lostWrite' = lostWrite, call' = call, CacheShrinks
  PROVE  IInv'
<1>1. ExcusesKept
  BY DEF ExcusesKept, Excused, WritePending, PendingWrite
<1>2. StaleHasACause'
  BY <1>1, StaleKept
<1>3. AnswerHasACause'
  BY DEF IInv, AnswerHasACause, ReadAnswered, Excused, WritePending, PendingWrite
<1>4. CacheKeepsRep'
  BY DEF IInv, CacheKeepsRep, CacheShrinks, Keys
<1>5. CallInv'
  BY DEF IInv, CallInv, FreshCall, RepCall, OnceCall, ReadAnswered, ReadReturned
<1> QED BY <1>2, <1>3, <1>4, <1>5 DEF IInv

LEMMA InitInv == Init => IInv
<1> SUFFICES ASSUME Init PROVE IInv
  OBVIOUS
<1>1. \A c \in Callers : call[c] = Idle
  BY DEF Init
<1>2. StaleHasACause /\ CacheKeepsRep
  BY DEF Init, StaleHasACause, CacheKeepsRep, Absent, Keys
<1>3. AnswerHasACause
  BY <1>1 DEF AnswerHasACause, ReadAnswered, Idle
<1>4. CallInv
  BY <1>1, IdleGood DEF CallInv, GoodCall
<1> QED BY <1>2, <1>3, <1>4 DEF IInv

LEMMA NextInv ==
  ASSUME TypeOK, IInv, [Next]_vars
  PROVE  IInv'
<1>1. ASSUME NEW c \in Callers, CallStep(c) PROVE IInv'
  BY <1>1, LookupInv, GuardInv, ServeUnappliedInv, ServeReadInv, ServeWriteInv, PollOkInv,
     PollEndsInv, PostAnsweredInv, PostInvalidateInv, LoginInv, ReturnInv DEF CallStep
<1>2. ASSUME NEW c \in Callers, Begin(c) PROVE IInv'
  BY <1>2, BeginInv
<1>3. ASSUME NEW s \in Sessions, SessionExpires(s) PROVE IInv'
  BY <1>3, EnvironmentInv, SameCacheShrinks DEF SessionExpires
<1>4. ASSUME NEW k \in Keys, EntryExpires(k) PROVE IInv'
  BY <1>4, EnvironmentInv, PutShrinks DEF EntryExpires, gatewayState
<1>5. CASE CooldownEnds \/ Close \/ UNCHANGED vars
  BY <1>5, EnvironmentInv, SameCacheShrinks DEF CooldownEnds, Close, vars, gatewayState
<1> QED BY <1>1, <1>2, <1>3, <1>4, <1>5 DEF Next

(***************************************************************************)
(* The inductive invariant holds, and with it the safety properties of     *)
(* LocalClient: cache coherence up to the named causes, freshness of       *)
(* forced reads, the representation asked for, one write per Post.         *)
(***************************************************************************)
THEOREM Inductive == Spec => []IInv
<1>1. Init => IInv
  BY InitInv
<1>2. TypeOK /\ IInv /\ [Next]_vars => IInv'
  BY NextInv
<1> QED BY <1>1, <1>2, TypeCorrect, PTL DEF Spec

\* A stale cached value always has one of the three causes (cache.go:126-139).
THEOREM StaleValuesHaveACause == Spec => []StaleHasACause
BY Inductive, PTL DEF IInv

\* A forced read is at least as new as its own beginning (local.go:399-474).
THEOREM ForcedPollsAreFresh == Spec => []ForcedPollIsFresh
<1>1. IInv => ForcedPollIsFresh
  BY DEF IInv, CallInv, FreshCall, ForcedPollIsFresh, ReadReturned, At
<1> QED BY <1>1, Inductive, PTL

\* Callers get the representation they asked for (local.go:386-398).
THEOREM RepresentationsMatch == Spec => []RepresentationMatches
<1>1. IInv => RepresentationMatches
  BY DEF IInv, CallInv, RepCall, RepresentationMatches, ReadReturned, At
<1> QED BY <1>1, Inductive, PTL

(***************************************************************************)
(* What Post tells its caller: the record of a Post is settled step by     *)
(* step, and no other call touches it.                                     *)
(***************************************************************************)
LEMMA PostInvStep ==
  ASSUME TypeOK, PostInv, NEW c \in Callers, NEW e, Becomes(c, e), PostCall(e)
  PROVE  PostInv'
<1> SUFFICES ASSUME NEW d \in Callers PROVE PostCall(call'[d])
  BY DEF PostInv, PostCall, Told
<1>1. call'[d] = IF d = c THEN e ELSE call[d]
  BY DEF Becomes, TypeOK
<1> QED BY <1>1 DEF PostInv

\* What is no Post does not become one by its own steps.
LEMMA OthersAreNoPosts ==
  ASSUME TypeOK, NEW c \in Callers, call[c].op # "post"
  PROVE  /\ \A pc : PostCall([call[c] EXCEPT !.pc = pc])
         /\ \A out : PostCall(Ended(c, out))
         /\ \A s : PostCall([call[c] EXCEPT !.pc = "sent", !.cred = s])
         /\ PostCall(Retry(c))
<1>1. call[c] \in Call
  BY DEF TypeOK
<1> QED BY <1>1 DEF PostCall, Ended, Retry, Call

LEMMA PostStepInv ==
  ASSUME TypeOK, IInv, PostInv, NEW c \in Callers, call[c].op = "post",
         \/ PostGuard(c) \/ ServeUnapplied(c) \/ ServeWrite(c) \/ PostAnswered(c)
         \/ LoginOk(c) \/ LoginFails(c)
  PROVE  PostInv'
<1>1. call[c] \in Call /\ PostCall(call[c]) /\ OnceCall(call[c])
  BY DEF TypeOK, PostInv, IInv, CallInv
<1>2. CASE PostGuard(c)
  <2>1. PICK s : Becomes(c, [call[c] EXCEPT !.pc = "sent", !.cred = s])
    BY <1>2 DEF PostGuard, SendRequest
  <2>2. PostCall([call[c] EXCEPT !.pc = "sent", !.cred = s])
    BY <1>1 DEF PostCall, Call
  <2> QED BY <2>1, <2>2, PostInvStep
<1>3. CASE ServeUnapplied(c)
  <2>1. PICK st \in {"lost", "denied", "error"} : Answer(c, st)
    BY <1>3 DEF ServeUnapplied, Unapplied
  <2> DEFINE e == [call[c] EXCEPT !.pc = "answered", !.status = st,
                             !.cred = NoSession, !.rep = Rep(call[c].raw),
                             !.got = IF At(c, "sent", "poll") /\ st = "ok"
                                     THEN ver[call[c].api] ELSE 0]
  <2>2. e.pc = "answered" /\ e.status = st
    BY <1>1 DEF Call
  <2>3. Becomes(c, e)
    BY <2>1 DEF Answer
  <2> HIDE DEF e
  <2>4. PostCall(e)
    BY <2>2 DEF PostCall
  <2> QED BY <2>3, <2>4, PostInvStep
<1>4. CASE ServeWrite(c)
  <2>1. PICK st \in {"ok", "lost"} :
          Becomes(c, [call[c] EXCEPT !.pc = "answered", !.status = st,
                                     !.cred = NoSession, !.applied = @ + 1])
    BY <1>4 DEF ServeWrite
  <2> DEFINE e == [call[c] EXCEPT !.pc = "answered", !.status = st,
                                  !.cred = NoSession, !.applied = @ + 1]
  <2>2. e.pc = "answered" /\ e.status = st /\ e.applied = call[c].applied + 1
        /\ call[c].applied \in Nat
    BY <1>1 DEF Call
  <2> HIDE DEF e
  <2>3. e.applied > 0
    BY <2>2
  <2>4. PostCall(e)
    BY <2>2, <2>3 DEF PostCall
  <2> QED BY <2>1, <2>4, PostInvStep DEF e
<1>5. CASE PostAnswered(c)
  <2>1. call[c].pc = "answered"
    BY <1>5 DEF PostAnswered, At
  <2>2. CASE call[c].status = "lost" /\ Finish(c, "ErrNet")
    <3>1. /\ Ended(c, "ErrNet").pc = "done" /\ Ended(c, "ErrNet").out = "ErrNet"
          /\ Ended(c, "ErrNet").status = "lost"
      BY <1>1, <2>2 DEF Ended, Call
    <3>2. PostCall(Ended(c, "ErrNet"))
      BY <3>1 DEF PostCall, Told
    <3> QED BY <2>2, <3>2, PostInvStep DEF Finish
  <2>3. CASE call[c].status = "denied" /\ Goto(c, "relogin")
    <3>1. PostCall([call[c] EXCEPT !.pc = "relogin"])
      BY <1>1, <2>3 DEF PostCall, Call
    <3> QED BY <2>3, <3>1, PostInvStep DEF Goto
  <2>4. CASE call[c].status # "lost" /\ Goto(c, "invalidate")
    <3>1. PostCall([call[c] EXCEPT !.pc = "invalidate"])
      BY <1>1, <2>1, <2>4 DEF PostCall, Call
    <3> QED BY <2>4, <3>1, PostInvStep DEF Goto
  <2> QED BY <1>5, <2>2, <2>3, <2>4 DEF PostAnswered
<1>6. CASE LoginOk(c)
  <2>1. Retry(c).pc = "guard"
    BY <1>1 DEF Retry, FirstStep, Call
  <2>2. PostCall(Retry(c))
    BY <2>1 DEF PostCall
  <2> QED BY <1>6, <2>2, PostInvStep DEF LoginOk
<1>7. CASE LoginFails(c)
  <2>1. call[c].status = "denied" /\ Goto(c, "invalidate")
    BY <1>1, <1>7 DEF LoginFails, PostCall
  <2>2. PostCall([call[c] EXCEPT !.pc = "invalidate"])
    BY <1>1, <2>1 DEF PostCall, Call
  <2> QED BY <2>1, <2>2, PostInvStep DEF Goto
<1> QED BY <1>2, <1>3, <1>4, <1>5, <1>6, <1>7

LEMMA OtherStepInv ==
  ASSUME TypeOK, PostInv, NEW c \in Callers, call[c].op # "post", CallStep(c)
  PROVE  PostInv'
<1>1. ASSUME NEW pc, Goto(c, pc) PROVE PostInv'
  BY <1>1, OthersAreNoPosts, PostInvStep DEF Goto
<1>2. ASSUME NEW out, Finish(c, out) PROVE PostInv'
  BY <1>2, OthersAreNoPosts, PostInvStep DEF Finish
<1>3. CASE Lookup(c)
  <2>1. ASSUME NEW rep, NEW got,
               Becomes(c, [Ended(c, "value") EXCEPT !.rep = rep, !.got = got])
        PROVE  PostInv'
    <3> DEFINE e == [Ended(c, "value") EXCEPT !.rep = rep, !.got = got]
    <3>1. e.op # "post"
      BY DEF Ended, TypeOK, Call
    <3>2. Becomes(c, e)
      BY <2>1
    <3> HIDE DEF e
    <3>3. PostCall(e)
      BY <3>1 DEF PostCall
    <3> QED BY <3>2, <3>3, PostInvStep
  <2> QED BY <1>1, <1>2, <1>3, <2>1 DEF Lookup
<1>4. CASE PollGuard(c)
  <2>1. ASSUME SendRequest(c) PROVE PostInv'
    BY <2>1, OthersAreNoPosts, PostInvStep DEF SendRequest
  <2> QED BY <1>2, <1>4, <2>1 DEF PollGuard
<1>5. CASE ServeUnapplied(c) \/ ServeRead(c)
  <2>1. PICK st : Answer(c, st)
    BY <1>5 DEF ServeUnapplied, ServeRead
  <2> DEFINE e == [call[c] EXCEPT !.pc = "answered", !.status = st,
                             !.cred = NoSession, !.rep = Rep(call[c].raw),
                             !.got = IF At(c, "sent", "poll") /\ st = "ok"
                                     THEN ver[call[c].api] ELSE 0]
  <2>2. e.op # "post"
    BY DEF TypeOK, Call
  <2>3. Becomes(c, e)
    BY <2>1 DEF Answer
  <2> HIDE DEF e
  <2>4. PostCall(e)
    BY <2>2 DEF PostCall
  <2> QED BY <2>3, <2>4, PostInvStep
<1>6. CASE \/ PollOk(c) \/ PollNotFound(c) \/ PollRateLimited(c) \/ PollFailed(c)
           \/ PollDenied(c)
  BY <1>1, <1>2, <1>6 DEF PollOk, PollNotFound, PollRateLimited, PollFailed, PollDenied
<1>7. CASE LoginOk(c) \/ LoginFails(c)
  <2>1. ASSUME Becomes(c, Retry(c)) PROVE PostInv'
    BY <2>1, OthersAreNoPosts, PostInvStep
  <2> QED BY <1>1, <1>2, <1>7, <2>1 DEF LoginOk, LoginFails
<1>8. CASE Return(c)
  <2>1. PostCall(Idle)
    BY DEF PostCall, Idle
  <2> QED BY <1>8, <2>1, PostInvStep DEF Return
<1> QED BY <1>3, <1>4, <1>5, <1>6, <1>7, <1>8
        DEF CallStep, PostGuard, ServeWrite, PostAnswered, PostInvalidate, At

\* The invalidation marks answers of polls; the Post that runs it ends.
LEMMA PostInvalidateTells ==
  ASSUME TypeOK, PostInv, NEW c \in Callers, PostInvalidate(c)
  PROVE  PostInv'
<1> SUFFICES ASSUME NEW d \in Callers PROVE PostCall(call'[d])
  BY DEF PostInv, PostCall, Told
<1>1. /\ call[c] \in Call /\ call[d] \in Call /\ PostCall(call[c]) /\ PostCall(call[d])
      /\ call[c].op = "post" /\ call[c].pc = "invalidate"
  BY DEF TypeOK, PostInv, PostInvalidate, At
<1>2. CASE d = c
  <2>1. call'[d] = Ended(c, "value")
    <3>1. call'[c] = Ended(c, "value")
      BY DEF PostInvalidate, At
    <3> QED BY <1>2, <3>1
  <2>2. /\ Ended(c, "value").out = "value" /\ Ended(c, "value").pc = "done"
        /\ Ended(c, "value").status = call[c].status
        /\ Ended(c, "value").applied = call[c].applied
    BY <1>1 DEF Ended, Call
  <2> QED BY <1>1, <2>1, <2>2 DEF PostCall, Told
<1>3. CASE d # c /\ call[d].op = "post"
  BY <1>1, <1>3 DEF PostInvalidate, At
<1>4. CASE d # c /\ call[d].op # "post"
  <2>1. call'[d].op = call[d].op
    BY <1>1, <1>4 DEF PostInvalidate, At, Call
  <2> QED BY <1>4, <2>1 DEF PostCall
<1> QED BY <1>2, <1>3, <1>4

LEMMA PostInvNext ==
  ASSUME TypeOK, IInv, PostInv, [Next]_vars
  PROVE  PostInv'
<1>1. ASSUME call' = call PROVE PostInv'
  BY <1>1 DEF PostInv, PostCall, Told
<1>2. ASSUME NEW c \in Callers, CallStep(c) PROVE PostInv'
  <2>1. CASE call[c].op # "post"
    BY <1>2, <2>1, OtherStepInv
  <2>2. CASE PostInvalidate(c)
    BY <2>2, PostInvalidateTells
  <2>3. CASE Return(c)
    <3>1. PostCall(Idle)
      BY DEF PostCall, Idle
    <3> QED BY <2>3, <3>1, PostInvStep DEF Return
  <2>4. CASE call[c].op = "post" /\ ~PostInvalidate(c) /\ ~Return(c)
    BY <1>2, <2>4, PostStepInv
    DEF CallStep, Lookup, PollGuard, ServeRead, PollOk, PollNotFound, PollRateLimited,
        PollFailed, PollDenied, At
  <2> QED BY <2>1, <2>2, <2>3, <2>4
<1>3. ASSUME NEW c \in Callers, Begin(c) PROVE PostInv'
  <2>1. PICK r \in Requests : Becomes(c, NewCall(r))
    BY <1>3 DEF Begin
  <2>2. r.op \in {"poll", "post"}
    BY DEF Request
  <2>3. NewCall(r).op = r.op /\ NewCall(r).pc = FirstStep(r.op)
    BY DEF NewCall, Idle
  <2>4. PostCall(NewCall(r))
    BY <2>2, <2>3 DEF PostCall, FirstStep
  <2> QED BY <2>1, <2>4, PostInvStep
<1> QED BY <1>1, <1>2, <1>3
        DEF Next, SessionExpires, EntryExpires, CooldownEnds, Close, vars

\* No Post is applied twice, and what it returns tells whether it was (local.go:502-537).
THEOREM PostsTellWhatTheyDid == Spec => []PostTellsWhatItDid
<1>1. Init => PostInv
  BY DEF Init, PostInv, PostCall, Idle
<1>2. TypeOK /\ IInv /\ PostInv /\ [Next]_vars => PostInv'
  BY PostInvNext
<1>3. IInv /\ PostInv => PostTellsWhatItDid
  BY DEF IInv, CallInv, OnceCall, PostInv, PostCall, PostTellsWhatItDid, At
<1> QED BY <1>1, <1>2, <1>3, Inductive, TypeCorrect, PTL DEF Spec
=============================================================================
