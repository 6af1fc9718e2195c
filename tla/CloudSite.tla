------------------------------ MODULE CloudSite ------------------------------
(***************************************************************************)
(* The cloud client's reads of its energy site, and how it moves to        *)
(* another site when the one it knows is gone: powerwall/cloud/cloud.go.   *)
(*                                                                         *)
(* A read builds its URL from Client.siteID without the lock, looks in the *)
(* cache, and stores its answer under a key without the site.  On a 404 it *)
(* asks, under the lock and at most once a minute, for the account's       *)
(* products; if there is exactly one and it is another, the client         *)
(* switches, saves the site's name and drops the cache, and the read is    *)
(* repeated.  A vehicle is a product too: the code takes its id for that   *)
(* of a site, and one beside the site keeps it from switching.             *)
(*                                                                         *)
(* A document is the site it describes.  Left out: the contents of         *)
(* documents, tokens, and writes, which no 404 makes recover.              *)
(***************************************************************************)
EXTENDS Naturals, FiniteSets

CONSTANTS
  Callers,
  Ids,         \* of the products an account may have
  Sites,       \* those of energy sites; the others are vehicles
  Keys,        \* of the cache, one per document: "SITE_DATA", "SITE_CONFIG"...
  Configured,  \* the site the client is started with, or None
  None,        \* no document, no site, no file, nobody
  Blank,       \* the content of a file that has been emptied; names no site
  MaxCrashes   \* bound on the restarts

ASSUME CloudSiteAssumption ==
  /\ Sites \subseteq Ids
  /\ None \notin Ids \cup {Blank} \cup Callers /\ Blank \notin Ids
  /\ Configured \in Ids \cup {None}
  /\ MaxCrashes \in Nat

Names == Ids \cup {Blank}

VARIABLES
  account,     \* the products of the account
  siteID,      \* Client.siteID
  file,        \* what the site file holds, or None
  recent,      \* the last recovery began less than a minute ago
  mu,          \* who holds Client.mu, or None
  cache,       \* [Keys -> the cached document, or None]
  call,        \* [Callers -> each caller's read]
  crossed,     \* history: the keys whose document has a URL from before the last switch
  crashes      \* history

vars == <<account, siteID, file, recent, mu, cache, call, crossed, crashes>>

names == <<siteID, file>>
lock == <<recent, mu>>
store == <<cache, crossed>>
env == <<account, crashes>>

(***************************************************************************)
(* site is the one in the URL; old (history): the URL was built for        *)
(* another site before the last switch.                                    *)
(***************************************************************************)
Call == [pc : {"idle", "look", "sent", "ok", "missing", "products", "save", "clear", "retry",
               "resent"},
         key : Keys \cup {None}, site : Names \cup {None}, old : BOOLEAN]

Idle == [pc |-> "idle", key |-> None, site |-> None, old |-> FALSE]

\* Authenticate takes a configured site, then the file's, then the first product.
Init ==
  /\ account \in SUBSET Ids
  /\ file \in Ids \cup {None}
  /\ siteID \in IF Configured # None THEN {Configured}
                ELSE IF file # None THEN {file} ELSE Ids
  /\ recent = FALSE /\ mu = None
  /\ cache = [k \in Keys |-> None] /\ crossed = {}
  /\ call = [c \in Callers |-> Idle]
  /\ crashes = 0

At(c, pc) == call[c].pc = pc
Goto(c, pc) == call' = [call EXCEPT ![c].pc = pc]
Return(c) == call' = [call EXCEPT ![c] = Idle]

\* The URL of a read is built before anything else.
Begin(c, k) ==
  /\ At(c, "idle")
  /\ call' = [call EXCEPT ![c].pc = "look", ![c].key = k, ![c].site = siteID]
  /\ UNCHANGED <<env, names, lock, store>>
-----------------------------------------------------------------------------
(***************************************************************************)
(* fetchSiteJSON.  A forced read, and one whose entry is past its TTL, is  *)
(* not served from the cache: either may be so of any read.                *)
(***************************************************************************)
Hit(c) ==
  /\ At(c, "look") /\ cache[call[c].key] # None
  /\ Return(c)
  /\ UNCHANGED <<env, names, lock, store>>

Send(c) ==
  /\ At(c, "look")
  /\ Goto(c, "sent")
  /\ UNCHANGED <<env, names, lock, store>>

Sent(c) == call[c].pc \in {"sent", "resent"}

Answer(c) ==
  /\ Sent(c) /\ call[c].site \in account \cap Sites
  /\ Goto(c, "ok")
  /\ UNCHANGED <<env, names, lock, store>>

\* A 404: the site is gone, is none, or has no such document.
NotFound(c) ==
  /\ At(c, "sent")
  /\ call' = [call EXCEPT ![c].pc = "missing", ![c].site = None, ![c].old = FALSE]
  /\ UNCHANGED <<env, names, lock, store>>

\* Any other error; a 404 of the repeated request.
Fails(c) ==
  /\ Sent(c)
  /\ Return(c)
  /\ UNCHANGED <<env, names, lock, store>>

Store(c) ==
  /\ At(c, "ok")
  /\ cache' = [cache EXCEPT ![call[c].key] = call[c].site]
  /\ crossed' = IF call[c].old THEN crossed \cup {call[c].key} ELSE crossed \ {call[c].key}
  /\ Return(c)
  /\ UNCHANGED <<env, names, lock>>
-----------------------------------------------------------------------------
(***************************************************************************)
(* recoverStaleSite.                                                       *)
(***************************************************************************)
Recover(c) ==
  /\ At(c, "missing") /\ mu = None
  /\ IF recent THEN Return(c) /\ UNCHANGED lock
     ELSE mu' = c /\ recent' = TRUE /\ Goto(c, "products")
  /\ UNCHANGED <<env, names, store>>

NoProducts(c) ==
  /\ At(c, "products")
  /\ mu' = None /\ Return(c)
  /\ UNCHANGED <<env, names, recent, store>>

\* findReplacementSite: the products to switch to, at most one.
Replacements(products) ==
  IF siteID \notin products /\ Cardinality(products) = 1 THEN products ELSE {}

Products(c) ==
  /\ At(c, "products")
  /\ IF Replacements(account) = {}
     THEN mu' = None /\ Return(c) /\ UNCHANGED siteID
     ELSE siteID' \in Replacements(account) /\ Goto(c, "save") /\ UNCHANGED mu
  /\ UNCHANGED <<env, file, recent, store>>

\* os.WriteFile, its errors ignored: it empties the file, then writes.
SaveFile(c) ==
  /\ At(c, "save")
  /\ file' \in {file, Blank, siteID}
  /\ Goto(c, "clear")
  /\ UNCHANGED <<env, siteID, lock, store>>

\* Mutant: the cache outlives the switch.
Kept == cache

Cleared == [k \in Keys |-> None]

\* Reads with the URL of the site before may be under way.
ClearCache(c) ==
  /\ At(c, "clear")
  /\ cache' = Cleared /\ crossed' = {}
  /\ mu' = None
  /\ call' = [d \in Callers |->
       IF d = c THEN [call[c] EXCEPT !.pc = "retry"]
       ELSE [call[d] EXCEPT !.old = @ \/ call[d].site \notin {siteID, None}]]
  /\ UNCHANGED <<env, names, recent>>

\* Mutant: the read starts over, and may recover again.
StartOver(c) == call' = [call EXCEPT ![c].pc = "look", ![c].site = siteID]

Repeat(c) == call' = [call EXCEPT ![c].pc = "resent", ![c].site = siteID]

Retry(c) ==
  /\ At(c, "retry")
  /\ Repeat(c)
  /\ UNCHANGED <<env, names, lock, store>>
-----------------------------------------------------------------------------
(***************************************************************************)
(* Time, the account, and restarts.                                        *)
(***************************************************************************)
\* Mutant: there is one recovery in the life of a client.
StillRecent == TRUE

NotRecent == FALSE

MinutePasses ==
  /\ recent
  /\ recent' = NotRecent
  /\ UNCHANGED <<env, names, mu, store, call>>

\* Products come and go one at a time.
AccountChanges ==
  /\ \E i \in Ids : account' = IF i \in account THEN account \ {i} ELSE account \cup {i}
  /\ UNCHANGED <<crashes, names, lock, store, call>>

\* Authenticate of the next process; findEnergySite takes the first product.
Restart ==
  /\ crashes < MaxCrashes /\ crashes' = crashes + 1
  /\ \/ Configured # None /\ siteID' = Configured /\ UNCHANGED file
     \/ Configured = None /\ file # None /\ siteID' = file /\ UNCHANGED file
     \/ /\ Configured = None /\ file = None
        /\ siteID' \in account /\ file' \in {None, Blank, siteID'}
  /\ recent' = FALSE /\ mu' = None
  /\ cache' = [k \in Keys |-> None] /\ crossed' = {}
  /\ call' = [c \in Callers |-> Idle]
  /\ UNCHANGED account

Step(c) ==
  \/ Hit(c) \/ Send(c) \/ Answer(c) \/ NotFound(c) \/ Fails(c) \/ Store(c)
  \/ Recover(c) \/ NoProducts(c) \/ Products(c) \/ SaveFile(c) \/ ClearCache(c) \/ Retry(c)

Next ==
  \/ \E c \in Callers : Step(c) \/ \E k \in Keys : Begin(c, k)
  \/ MinutePasses \/ AccountChanges \/ Restart

Spec == Init /\ [][Next]_vars

(***************************************************************************)
(* Requests time out, and sync.Mutex lets nobody starve: a caller that can *)
(* go on only while the lock is free does so in the end.                   *)
(***************************************************************************)
FairSpec == Spec /\ \A c \in Callers : SF_vars(Step(c))

(***************************************************************************)
(* Moreover time passes, somebody keeps asking past the cache, and Tesla   *)
(* now and then says what is gone and what there is.                       *)
(***************************************************************************)
PolledSpec ==
  /\ FairSpec
  /\ WF_vars(MinutePasses)
  /\ WF_vars(\E c \in Callers, k \in Keys : Begin(c, k))
  /\ SF_vars(\E c \in Callers : Send(c))
  /\ SF_vars(\E c \in Callers : NotFound(c))
  /\ SF_vars(\E c \in Callers : Products(c))
-----------------------------------------------------------------------------
TypeOK ==
  /\ account \subseteq Ids /\ siteID \in Names /\ file \in Names \cup {None}
  /\ recent \in BOOLEAN /\ mu \in Callers \cup {None}
  /\ cache \in [Keys -> Names \cup {None}] /\ crossed \subseteq Keys
  /\ call \in [Callers -> Call]
  /\ crashes \in 0..MaxCrashes
  /\ \A c \in Callers : call[c].pc \in {"products", "save", "clear"} <=> mu = c

\* A client that has switched has not yet dropped the cache.
Switching == \E c \in Callers : call[c].pc \in {"save", "clear"}

(***************************************************************************)
(* Once the cache has been dropped for a switch, a document of another     *)
(* site is in it only if the URL of its read had been built before.        *)
(***************************************************************************)
OldSiteHasCrossed ==
  TypeOK /\ \A k \in Keys : cache[k] \notin {None, siteID} => k \in crossed \/ Switching

\* Every read returns, those that wait for the lock of a recovery included.
ReadsReturn == \A c \in Callers : []<>At(c, "idle")

(***************************************************************************)
(* If the account comes to have one energy site and no other product for   *)
(* good, the client finds it, whatever the file holds after a crash.       *)
(***************************************************************************)
SiteIsFound ==
  <>[](account \subseteq Sites /\ Cardinality(account) = 1) => <>[](account = {siteID})
-----------------------------------------------------------------------------
(***************************************************************************)
(* The inductive invariant behind OldSiteHasCrossed: a read that is under  *)
(* way for another site knows that it is old, once the switch is over; a   *)
(* read that recovers has no site, and a read has a key.                   *)
(***************************************************************************)
Unsent == {"idle", "missing", "products", "save", "clear", "retry"}

CallsFit ==
  \A c \in Callers :
    /\ call[c].pc # "idle" => call[c].key \in Keys
    /\ call[c].pc \in Unsent => call[c].site = None
    /\ call[c].site \notin {None, siteID} => call[c].old \/ Switching

IInv == OldSiteHasCrossed /\ CallsFit
=============================================================================
