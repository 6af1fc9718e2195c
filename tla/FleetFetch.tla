----------------------------- MODULE FleetFetch -----------------------------
(***************************************************************************)
(* Reads and writes of the Fleet API client: one cached document of the    *)
(* site, concurrent misses that share one request (singleflight), forced   *)
(* reads that do not, writes that drop the document, and the backoff that  *)
(* a 429 to any of them starts for all.                                    *)
(*                                                                         *)
(* The document is the number of changes made to the site so far.  The     *)
(* keys of the client do not interact but for the backoff, so there is one *)
(* key; the two commands of an operation write are one (SetOperation).     *)
(***************************************************************************)
EXTENDS Naturals, FiniteSets

CONSTANTS
  Callers,
  MaxVersion,  \* bound on the changes of the site
  MaxDelay,    \* capRetryAfterSec, in ticks
  Empty        \* nothing cached, no answer

ASSUME FleetFetchAssumption ==
  MaxVersion \in Nat /\ MaxDelay \in Nat /\ Empty \notin Nat

Versions == 0..MaxVersion
Delays == 0..MaxDelay

VARIABLES
  server,   \* the site's version
  cache,    \* the cached version, or Empty
  backoff,  \* RateBackoffRemaining
  call,     \* [Callers -> each caller's fetchSiteJSON or postJSON]
  written,  \* history: the newest version whose write has dropped the cache
  crossed,  \* history: the cached answer was under way when a write ended
  past      \* history: the callers beyond the last test when the backoff began

vars == <<server, cache, backoff, call, written, crossed, past>>

(***************************************************************************)
(* got is the version the call was answered with, delay what a 429 asks    *)
(* for.  since, the site's version when a forced read began, and crossed   *)
(* are history.                                                            *)
(***************************************************************************)
Call == [pc : {"idle", "miss", "go", "lead", "wait", "send", "ok", "limited", "bad",
               "post", "written"},
         kind : {"read", "force", "write"}, since : Versions,
         got : Versions \cup {Empty}, delay : Delays, crossed : BOOLEAN]

Started(pc, kind) ==
  [pc |-> pc, kind |-> kind, since |-> IF kind = "force" THEN server ELSE 0,
   got |-> Empty, delay |-> 0, crossed |-> FALSE]

\* The call is over; what a forced read got stays for the properties.
Over(r, got) ==
  [pc |-> "idle", kind |-> IF r.kind = "force" THEN "force" ELSE "read", since |-> r.since,
   got |-> IF r.kind = "force" THEN got ELSE Empty, delay |-> 0, crossed |-> FALSE]

Answered == {"ok", "limited", "bad"}

\* The calls inside singleflight's function: at most the one that leads.
Leading == {c \in Callers : call[c].kind = "read"
                            /\ call[c].pc \in {"lead", "send"} \cup Answered}

Init ==
  /\ server = 0 /\ cache = Empty /\ backoff = 0
  /\ call = [c \in Callers |-> Over(Started("idle", "read"), Empty)]
  /\ written = 0 /\ crossed = FALSE /\ past = {}
-----------------------------------------------------------------------------
\* fetchSiteJSON up to the cache lookup, or postJSON.
Begin(c) ==
  /\ call[c].pc = "idle"
  /\ \E kind \in {"read", "force", "write"} :
       call' = [call EXCEPT ![c] =
         IF kind = "write" THEN Started("post", kind)
         ELSE IF kind = "read" /\ cache # Empty THEN Over(Started("idle", kind), cache)
         ELSE Started("miss", kind)]
  /\ UNCHANGED <<server, cache, backoff, written, crossed, past>>

\* The first look at the backoff window.
Gate(c) ==
  /\ call[c].pc = "miss"
  /\ call' = [call EXCEPT ![c] = IF backoff > 0 THEN Over(@, Empty)
                                 ELSE [@ EXCEPT !.pc = "go"]]
  /\ UNCHANGED <<server, cache, backoff, written, crossed, past>>

\* Mutant: a forced read shares the request under way as well.
EntersAll(c) ==
  IF Leading # {} THEN "wait" ELSE IF call[c].kind = "force" THEN "send" ELSE "lead"

\* Mutant: no read shares.
EntersAlone(c) == IF call[c].kind = "force" THEN "send" ELSE "lead"

Enters(c) ==
  IF call[c].kind = "force" THEN "send"
  ELSE IF Leading # {} THEN "wait" ELSE "lead"

\* A forced read goes on alone, another joins the request under way or leads.
Enter(c) ==
  /\ call[c].pc = "go"
  /\ call' = [call EXCEPT ![c].pc = Enters(c)]
  /\ UNCHANGED <<server, cache, backoff, written, crossed, past>>

\* Mutant: only the leader hears of the end.
DeliveredToLeader(c, got) == [call EXCEPT ![c] = Over(@, got)]

\* c ends with got; if it led, so do those that wait.
Delivered(c, got) ==
  [d \in Callers |->
     IF d = c \/ (call[c].kind = "read" /\ call[d].pc = "wait") THEN Over(call[d], got)
     ELSE call[d]]

\* Mutant: the leader does not look again.
RecheckNothing(c) ==
  /\ call[c].pc = "lead"
  /\ call' = [call EXCEPT ![c].pc = "send"]
  /\ UNCHANGED <<server, cache, backoff, written, crossed, past>>

\* The leader looks at the cache and the backoff again.
Recheck(c) ==
  /\ call[c].pc = "lead"
  /\ call' = IF cache # Empty THEN Delivered(c, cache)
             ELSE IF backoff > 0 THEN Delivered(c, Empty)
             ELSE [call EXCEPT ![c].pc = "send"]
  /\ UNCHANGED <<server, cache, backoff, written, crossed, past>>
-----------------------------------------------------------------------------
(***************************************************************************)
(* The API answers a GET: the document, a 429, or anything else, a lost    *)
(* answer and a cancelled request included.                                *)
(***************************************************************************)
AnswerGet(c) ==
  /\ call[c].pc = "send"
  /\ \/ call' = [call EXCEPT ![c].pc = "ok", ![c].got = server]
     \/ \E d \in Delays : call' = [call EXCEPT ![c].pc = "limited", ![c].delay = d]
     \/ call' = [call EXCEPT ![c].pc = "bad"]
  /\ UNCHANGED <<server, cache, backoff, written, crossed, past>>

\* doFetchSiteJSON stores the document.
Store(c) ==
  /\ call[c].pc = "ok"
  /\ cache' = call[c].got
  /\ crossed' = call[c].crossed
  /\ call' = Delivered(c, call[c].got)
  /\ UNCHANGED <<server, backoff, written, past>>

Fail(c) ==
  /\ call[c].pc = "bad"
  /\ call' = Delivered(c, Empty)
  /\ UNCHANGED <<server, cache, backoff, written, crossed, past>>

\* armBackoff never moves the end of the window forward.
Extended(d) == IF d > backoff THEN d ELSE backoff

Limited(c) ==
  /\ call[c].pc = "limited"
  /\ backoff' = Extended(call[c].delay)
  /\ past' = IF backoff = 0 /\ backoff' > 0
             THEN {d \in Callers : call[d].pc = "send"
                               \/ (call[d].pc = "go" /\ call[d].kind = "force")}
             ELSE past
  /\ call' = Delivered(c, Empty)
  /\ UNCHANGED <<server, cache, written, crossed>>

(***************************************************************************)
(* The API answers a POST, which does not look at the backoff: it takes    *)
(* the change, and its answer may be lost, or it does not, with a 429 or   *)
(* another status.                                                         *)
(***************************************************************************)
AnswerPost(c) ==
  /\ call[c].pc = "post"
  /\ \/ /\ server < MaxVersion
        /\ server' = server + 1
        /\ call' = [call EXCEPT ![c].got = server + 1, ![c].pc = "written"]
     \/ /\ server < MaxVersion
        /\ server' = server + 1
        /\ call' = [call EXCEPT ![c].pc = "bad"]
     \/ /\ \/ \E d \in Delays : call' = [call EXCEPT ![c].pc = "limited", ![c].delay = d]
           \/ call' = [call EXCEPT ![c].pc = "bad"]
        /\ UNCHANGED server
  /\ UNCHANGED <<cache, backoff, written, crossed, past>>

\* Mutant: the write leaves the cache alone.
Kept == cache

\* Invalidate drops the document, SITE_CONFIG.
Dropped == Empty

\* postAPIOperation after a command was taken.
Written(c) ==
  /\ call[c].pc = "written"
  /\ cache' = Dropped
  /\ written' = IF call[c].got > written THEN call[c].got ELSE written
  /\ crossed' = FALSE
  /\ call' = [d \in Callers |-> IF d = c THEN Over(call[c], call[c].got)
                ELSE IF call[d].pc \in Answered THEN [call[d] EXCEPT !.crossed = TRUE]
                ELSE call[d]]
  /\ UNCHANGED <<server, backoff, past>>

\* The document's TTL, less its jitter, is over.
Expire ==
  /\ cache # Empty
  /\ cache' = Empty /\ crossed' = FALSE
  /\ UNCHANGED <<server, backoff, call, written, past>>

Tick ==
  /\ backoff > 0
  /\ backoff' = backoff - 1
  /\ past' = IF backoff = 1 THEN {} ELSE past
  /\ UNCHANGED <<server, cache, call, written, crossed>>

Step(c) ==
  \/ Gate(c) \/ Enter(c) \/ Recheck(c) \/ AnswerGet(c) \/ Store(c) \/ Fail(c)
  \/ Limited(c) \/ AnswerPost(c) \/ Written(c)

Next ==
  \/ Expire \/ Tick
  \/ \E c \in Callers : Begin(c) \/ Step(c)

Spec == Init /\ [][Next]_vars

\* The client's timeout ends every request; the rest is code that runs on.
FairSpec == Spec /\ \A c \in Callers : WF_vars(Step(c))
-----------------------------------------------------------------------------
TypeOK ==
  /\ server \in Versions /\ written \in Versions
  /\ cache \in Versions \cup {Empty}
  /\ backoff \in Delays
  /\ call \in [Callers -> Call]
  /\ \A c \in Callers : call[c].pc = "wait" => Leading # {}
  /\ crossed \in BOOLEAN
  /\ past \subseteq Callers

(***************************************************************************)
(* fleetapi.go:473-474: "Concurrent cache misses for the same cacheKey     *)
(* coalesce into a single HTTP request when force is false".               *)
(***************************************************************************)
MissesCoalesce == TypeOK /\ \A c, d \in Leading : c = d

(***************************************************************************)
(* A forced read returns nothing older than its own beginning, though      *)
(* other reads share answers and fill the cache around it: GetReserveForced *)
(* confirms a write with it.                                               *)
(***************************************************************************)
ForcedIsFresh ==
  \A c \in Callers : call[c].kind = "force" /\ call[c].pc = "idle" /\ call[c].got # Empty =>
    call[c].got >= call[c].since

(***************************************************************************)
(* A document older than the last write is in the cache only if its answer *)
(* was under way when the write dropped the cache.                         *)
(***************************************************************************)
StaleHasCrossed == cache # Empty /\ cache < written => crossed

(***************************************************************************)
(* While the client is backed off only those send a GET that had made      *)
(* their last test of the window before it began, and nothing but time     *)
(* shortens the window: no 429 with a shorter Retry-After, nor a success.  *)
(***************************************************************************)
BackoffStopsReads ==
  [][/\ backoff' >= backoff - 1
     /\ \A c \in Callers : call[c].pc = "send" /\ call'[c].pc \in Answered /\ backoff > 0 =>
          c \in past]_vars

\* Every call ends, those that wait for another's request included.
CallsReturn == \A c \in Callers : []<>(call[c].pc = "idle")
-----------------------------------------------------------------------------
(***************************************************************************)
(* The inductive invariant behind the safety properties, for each call e:  *)
(* where it may be, and what an answer on its way is worth to a site of    *)
(* version s whose last write was w.                                       *)
(***************************************************************************)
KindFits(e) ==
  /\ e.kind = "force" => e.pc \in {"idle", "miss", "go", "send"} \cup Answered
  /\ e.kind = "write" => e.pc \in {"post", "written", "limited", "bad"}
  /\ e.kind = "read" => e.pc \notin {"post", "written"}

AnswerFits(e, s, w) ==
  /\ e.kind = "force" => e.since <= s
  /\ e.kind = "force" /\ e.pc \in {"idle", "ok"} /\ e.got # Empty => e.got >= e.since
  /\ e.pc \in {"ok", "written"} => e.got \in Versions /\ e.got <= s
  /\ e.pc = "ok" /\ e.got < w => e.crossed

CallsFit == \A c \in Callers : KindFits(call[c]) /\ AnswerFits(call[c], server, written)

\* Those that send while the window is open, or will without another look at it.
PastCovers ==
  backoff > 0 =>
    \A c \in Callers :
      call[c].pc = "send" \/ (call[c].pc = "go" /\ call[c].kind = "force") => c \in past

IInv == MissesCoalesce /\ CallsFit /\ StaleHasCrossed /\ PastCovers /\ written <= server
=============================================================================
