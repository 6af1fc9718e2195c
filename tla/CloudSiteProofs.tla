--------------------------- MODULE CloudSiteProofs ---------------------------
(***************************************************************************)
(* Theorems about CloudSite, for every number of callers, sites, documents *)
(* and restarts.                                                           *)
(***************************************************************************)
EXTENDS CloudSite, TLAPS

Pcs == {"idle", "look", "sent", "ok", "missing", "products", "save", "clear", "retry",
        "resent"}

\* The steps of a read at which it holds Client.mu.
Locked == {"products", "save", "clear"}

(***************************************************************************)
(* The updates of a read's record.                                         *)
(***************************************************************************)
LEMMA CallFields ==
  ASSUME NEW e \in Call
  PROVE  /\ e.pc \in Pcs /\ e.key \in Keys \cup {None} /\ e.site \in Names \cup {None}
         /\ e.old \in BOOLEAN
BY DEF Call, Pcs

LEMMA IdleFields == Idle \in Call /\ Idle.pc = "idle" /\ Idle.site = None
BY DEF Idle, Call

\* The record of one read becomes e.
Becomes(c, e) == call' = [call EXCEPT ![c] = e]

\* e is r, but for its pc.
Moved(e, r, pc) == e.pc = pc /\ e.site = r.site /\ e.old = r.old /\ e.key = r.key

LEMMA GotoFields ==
  ASSUME call \in [Callers -> Call], NEW c \in Callers, NEW pc \in Pcs, Goto(c, pc)
  PROVE  \E e \in Call : Becomes(c, e) /\ Moved(e, call[c], pc)
<1> DEFINE e == [call[c] EXCEPT !.pc = pc]
<1>1. Becomes(c, e)
  BY DEF Goto, Becomes
<1>2. e \in Call /\ Moved(e, call[c], pc)
  BY DEF Call, Pcs, Moved
<1> HIDE DEF e
<1> QED BY <1>1, <1>2

LEMMA RepeatedFields ==
  ASSUME call \in [Callers -> Call], siteID \in Names, NEW c \in Callers, Repeat(c)
  PROVE  \E e \in Call : /\ Becomes(c, e) /\ e.pc = "resent" /\ e.site = siteID
                         /\ e.key = call[c].key
<1> DEFINE e == [call[c] EXCEPT !.pc = "resent", !.site = siteID]
<1>1. Becomes(c, e)
  BY DEF Repeat, Becomes, Call
<1>2. e \in Call /\ e.pc = "resent" /\ e.site = siteID /\ e.key = call[c].key
  BY DEF Call
<1> HIDE DEF e
<1> QED BY <1>1, <1>2

LEMMA BegunFields ==
  ASSUME call \in [Callers -> Call], siteID \in Names, NEW c \in Callers, NEW k \in Keys,
         call' = [call EXCEPT ![c].pc = "look", ![c].key = k, ![c].site = siteID]
  PROVE  \E e \in Call : Becomes(c, e) /\ e.pc = "look" /\ e.site = siteID /\ e.key = k
<1> DEFINE e == [call[c] EXCEPT !.pc = "look", !.key = k, !.site = siteID]
<1>1. Becomes(c, e)
  BY DEF Becomes, Call
<1>2. e \in Call /\ e.pc = "look" /\ e.site = siteID /\ e.key = k
  BY DEF Call
<1> HIDE DEF e
<1> QED BY <1>1, <1>2

LEMMA MissingFields ==
  ASSUME call \in [Callers -> Call], NEW c \in Callers,
         call' = [call EXCEPT ![c].pc = "missing", ![c].site = None, ![c].old = FALSE]
  PROVE  \E e \in Call : Becomes(c, e) /\ e.pc = "missing" /\ e.site = None /\ e.key = call[c].key
<1> DEFINE e == [call[c] EXCEPT !.pc = "missing", !.site = None, !.old = FALSE]
<1>1. Becomes(c, e)
  BY DEF Becomes, Call
<1>2. e \in Call /\ e.pc = "missing" /\ e.site = None /\ e.key = call[c].key
  BY DEF Call
<1> HIDE DEF e
<1> QED BY <1>1, <1>2

LEMMA MarkedFields ==
  ASSUME NEW e \in Call, NEW b \in BOOLEAN
  PROVE  /\ [e EXCEPT !.old = b] \in Call
         /\ [e EXCEPT !.old = b].pc = e.pc /\ [e EXCEPT !.old = b].site = e.site
         /\ [e EXCEPT !.old = b].old = b /\ [e EXCEPT !.old = b].key = e.key
BY DEF Call

LEMMA RetryFields ==
  ASSUME NEW e \in Call
  PROVE  /\ [e EXCEPT !.pc = "retry"] \in Call /\ [e EXCEPT !.pc = "retry"].pc = "retry"
         /\ [e EXCEPT !.pc = "retry"].site = e.site /\ [e EXCEPT !.pc = "retry"].key = e.key
BY DEF Call
-----------------------------------------------------------------------------
(***************************************************************************)
(* The invariant in the parts the steps disturb.                           *)
(***************************************************************************)
RestOK ==
  /\ account \subseteq Ids /\ siteID \in Names /\ file \in Names \cup {None}
  /\ recent \in BOOLEAN /\ crashes \in 0..MaxCrashes

CallsInv ==
  /\ call \in [Callers -> Call] /\ mu \in Callers \cup {None}
  /\ \A c \in Callers : call[c].pc \in Locked <=> mu = c
  /\ CallsFit

CacheInv ==
  /\ cache \in [Keys -> Names \cup {None}] /\ crossed \subseteq Keys
  /\ \A k \in Keys : cache[k] \notin {None, siteID} => k \in crossed \/ Switching

Parts == RestOK /\ CallsInv /\ CacheInv

LEMMA InvParts == IInv <=> Parts
BY DEF IInv, OldSiteHasCrossed, TypeOK, Parts, RestOK, CallsInv, CacheInv, Locked

LEMMA SwitchingHolds == ASSUME Switching, CallsInv PROVE \E c \in Callers : mu = c
BY DEF Switching, CallsInv, Locked

\* The record of one read becomes e; the lock and the switch follow it.
LEMMA OneCall ==
  ASSUME CallsInv, NEW c \in Callers, NEW e \in Call, Becomes(c, e),
         siteID' = siteID,
         \/ mu' = mu /\ (e.pc \in Locked <=> call[c].pc \in Locked)
         \/ mu = None /\ mu' = c /\ e.pc \in Locked
         \/ mu' = None /\ call[c].pc \in Locked /\ e.pc \notin Locked,
         call[c].pc \in {"save", "clear"} => e.pc \in {"save", "clear"},
         e.pc # "idle" => e.key \in Keys, e.pc \in Unsent => e.site = None,
         e.site \notin {None, siteID} => e.old \/ Switching
  PROVE  CallsInv' /\ (Switching => Switching')
<1>1. /\ call' \in [Callers -> Call]
      /\ \A d \in Callers : call'[d] = IF d = c THEN e ELSE call[d]
  BY DEF CallsInv, Becomes
<1>2. mu' \in Callers \cup {None}
  BY DEF CallsInv
<1>3. Switching => Switching'
  BY <1>1 DEF Switching
<1>4. \A d \in Callers : call'[d].pc \in Locked <=> mu' = d
  BY <1>1, CloudSiteAssumption DEF CallsInv
<1>5. \A d \in Callers : /\ call'[d].pc # "idle" => call'[d].key \in Keys
                         /\ call'[d].pc \in Unsent => call'[d].site = None
                         /\ call'[d].site \notin {None, siteID} => call'[d].old \/ Switching
  BY <1>1 DEF CallsInv, CallsFit
<1> QED BY <1>1, <1>2, <1>3, <1>4, <1>5 DEF CallsInv, CallsFit

\* A step of one read that leaves the cache and the site alone.
LEMMA OneCallStep ==
  ASSUME Parts, CallsInv', Switching => Switching', UNCHANGED <<account, crashes, store, siteID>>,
         file' \in Names \cup {None}, recent' \in BOOLEAN
  PROVE  Parts'
<1>1. CacheInv'
  BY DEF Parts, CacheInv, store
<1>2. RestOK'
  BY DEF Parts, RestOK
<1> QED BY <1>1, <1>2 DEF Parts

LEMMA CallFacts ==
  ASSUME Parts, NEW c \in Callers
  PROVE  /\ call[c] \in Call /\ call \in [Callers -> Call] /\ siteID \in Names
         /\ call[c].pc # "idle" => call[c].key \in Keys
         /\ call[c].pc \in Unsent => call[c].site = None
         /\ call[c].site \notin {None, siteID} => call[c].old \/ Switching
         /\ call[c].pc \in Locked <=> mu = c
         /\ file \in Names \cup {None} /\ recent \in BOOLEAN
BY DEF Parts, CallsInv, CallsFit, RestOK
-----------------------------------------------------------------------------
(***************************************************************************)
(* The steps, one lemma each.                                              *)
(***************************************************************************)
\* A read that ends where it need not release the lock.
LEMMA ReturnStep ==
  ASSUME Parts, NEW c \in Callers, Return(c), call[c].pc \notin Locked,
         UNCHANGED <<env, names, lock, store>>
  PROVE  Parts'
<1>1. CallsInv' /\ (Switching => Switching')
  BY IdleFields, OneCall DEF Return, Becomes, Parts, Locked, names, lock
<1> QED BY <1>1, CallFacts, OneCallStep DEF env, names, lock

\* A read that moves on where the lock plays no part.
LEMMA GotoStep ==
  ASSUME Parts, NEW c \in Callers, NEW pc \in Pcs, Goto(c, pc), call[c].pc \notin Locked,
         pc \notin Locked, call[c].pc # "idle", pc \in Unsent => call[c].site = None,
         UNCHANGED <<env, names, lock, store>>
  PROVE  Parts'
<1>1. PICK e \in Call : Becomes(c, e) /\ Moved(e, call[c], pc)
  BY GotoFields, CallFacts
<1>2. CallsInv' /\ (Switching => Switching')
  BY <1>1, CallFacts, OneCall DEF Moved, Parts, Locked, names, lock
<1> QED BY <1>2, CallFacts, OneCallStep DEF env, names, lock

LEMMA BeginStep == ASSUME Parts, NEW c \in Callers, NEW k \in Keys, Begin(c, k) PROVE Parts'
<1>1. PICK e \in Call : Becomes(c, e) /\ e.pc = "look" /\ e.site = siteID /\ e.key = k
  BY BegunFields, CallFacts DEF Begin
<1>2. call[c].pc = "idle" /\ UNCHANGED <<env, names, lock, store>>
  BY DEF Begin, At
<1>3. CallsInv' /\ (Switching => Switching')
  BY <1>1, <1>2, OneCall DEF Parts, Locked, Unsent, names, lock
<1> QED BY <1>2, <1>3, CallFacts, OneCallStep DEF env, names, lock

LEMMA HitStep == ASSUME Parts, NEW c \in Callers, Hit(c) PROVE Parts'
BY ReturnStep DEF Hit, At, Locked

LEMMA SendStep == ASSUME Parts, NEW c \in Callers, Send(c) PROVE Parts'
BY GotoStep DEF Send, At, Locked, Unsent, Pcs

LEMMA AnswerStep == ASSUME Parts, NEW c \in Callers, Answer(c) PROVE Parts'
BY GotoStep DEF Answer, Sent, Locked, Unsent, Pcs

LEMMA NotFoundStep == ASSUME Parts, NEW c \in Callers, NotFound(c) PROVE Parts'
<1>1. PICK e \in Call : /\ Becomes(c, e) /\ e.pc = "missing" /\ e.site = None
                        /\ e.key = call[c].key
  BY MissingFields, CallFacts DEF NotFound
<1>2. call[c].pc = "sent" /\ call[c].key \in Keys /\ UNCHANGED <<env, names, lock, store>>
  BY CallFacts DEF NotFound, At
<1>3. CallsInv' /\ (Switching => Switching')
  BY <1>1, <1>2, OneCall DEF Parts, Locked, names, lock
<1> QED BY <1>2, <1>3, CallFacts, OneCallStep DEF env, names, lock

LEMMA FailsStep == ASSUME Parts, NEW c \in Callers, Fails(c) PROVE Parts'
BY ReturnStep DEF Fails, Sent, Locked

\* The cache takes the answer; one of another site is marked, or a switch is going on.
LEMMA StoreStep == ASSUME Parts, NEW c \in Callers, Store(c) PROVE Parts'
<1>1. /\ call[c].pc = "ok" /\ UNCHANGED <<env, names, lock>>
      /\ call' = [call EXCEPT ![c] = Idle]
      /\ cache' = [cache EXCEPT ![call[c].key] = call[c].site]
      /\ crossed' = IF call[c].old THEN crossed \cup {call[c].key}
                                   ELSE crossed \ {call[c].key}
  BY DEF Store, At, Return
<1>2. CallsInv' /\ (Switching => Switching')
  BY <1>1, IdleFields, OneCall DEF Becomes, Parts, Locked, names, lock
<1>3. call[c].site \in Names \cup {None} /\ call[c].key \in Keys
  BY <1>1, CallFacts, CallFields
<1>4. cache' \in [Keys -> Names \cup {None}]
  BY <1>1, <1>3 DEF Parts, CacheInv
<1>5. call[c].site \notin {None, siteID} => call[c].old \/ Switching
  BY CallFacts
<1>6. ASSUME NEW k \in Keys, cache'[k] \notin {None, siteID}
      PROVE  k \in crossed' \/ Switching
  <2>1. CASE k = call[c].key
    <3>1. cache'[k] = call[c].site
      BY <1>1, <2>1 DEF Parts, CacheInv
    <3> QED BY <1>1, <1>5, <1>6, <2>1, <3>1
  <2>2. CASE k # call[c].key
    <3>1. cache'[k] = cache[k]
      BY <1>1, <2>2 DEF Parts, CacheInv
    <3> QED BY <1>1, <1>6, <2>2, <3>1 DEF Parts, CacheInv
  <2> QED BY <2>1, <2>2
<1>7. crossed' \subseteq Keys
  BY <1>1, <1>3 DEF Parts, CacheInv
<1>8. CacheInv'
  BY <1>1, <1>2, <1>4, <1>6, <1>7 DEF CacheInv, names
<1> QED BY <1>1, <1>2, <1>8 DEF Parts, RestOK, env, names, lock

\* A read that asks for the lock, or may not: one recovered less than a minute ago.
LEMMA RecoverStep == ASSUME Parts, NEW c \in Callers, Recover(c) PROVE Parts'
<1>1. call[c].pc = "missing" /\ mu = None /\ UNCHANGED <<env, names, store>>
  BY DEF Recover, At
<1>2. CASE recent
  BY <1>1, <1>2, ReturnStep DEF Recover, Locked
<1>3. CASE ~recent
  <2>1. Goto(c, "products") /\ mu' = c /\ recent' = TRUE
    BY <1>3 DEF Recover
  <2>2. PICK e \in Call : Becomes(c, e) /\ Moved(e, call[c], "products")
    BY <2>1, GotoFields, CallFacts DEF Pcs
  <2>3. CallsInv' /\ (Switching => Switching')
    BY <1>1, <2>1, <2>2, CallFacts, OneCall DEF Moved, Parts, Locked, Unsent, names
  <2> QED BY <1>1, <2>1, <2>3, CallFacts, OneCallStep DEF env, names
<1> QED BY <1>2, <1>3

\* A recovery that ends without a switch releases the lock.
LEMMA GiveUpStep ==
  ASSUME Parts, NEW c \in Callers, call[c].pc = "products", mu' = None, Return(c),
         UNCHANGED <<env, names, recent, store>>
  PROVE  Parts'
<1>1. CallsInv' /\ (Switching => Switching')
  BY IdleFields, OneCall DEF Return, Becomes, Parts, Locked, names
<1> QED BY <1>1, CallFacts, OneCallStep DEF env, names

LEMMA NoProductsStep == ASSUME Parts, NEW c \in Callers, NoProducts(c) PROVE Parts'
BY GiveUpStep DEF NoProducts, At

\* The switch: whatever describes another site now is explained by the switch.
LEMMA ProductsStep == ASSUME Parts, NEW c \in Callers, Products(c) PROVE Parts'
<1>0. call[c].pc = "products" /\ UNCHANGED <<env, file, recent, store>> /\ mu = c
  BY CallFacts DEF Products, At, Locked
<1>1. CASE Replacements(account) = {}
  BY <1>0, <1>1, GiveUpStep DEF Products, names
<1>2. CASE Replacements(account) # {}
  <2>1. siteID' \in Replacements(account) /\ Goto(c, "save") /\ mu' = mu
    BY <1>2 DEF Products
  <2>2. siteID' \in Names
    BY <2>1 DEF Replacements, Parts, RestOK, Names
  <2>3. PICK e \in Call : Becomes(c, e) /\ Moved(e, call[c], "save")
    BY <2>1, GotoFields, CallFacts DEF Pcs
  <2>4. /\ call' \in [Callers -> Call]
        /\ \A d \in Callers : call'[d] = IF d = c THEN e ELSE call[d]
    BY <2>3, CallFacts DEF Becomes
  <2>5. Switching'
    BY <2>3, <2>4 DEF Switching, Moved
  <2>6. CallsInv'
    <3>1. \A d \in Callers : call'[d].pc \in Locked <=> mu' = d
      BY <1>0, <2>1, <2>3, <2>4 DEF Moved, Parts, CallsInv, Locked
    <3>2. \A d \in Callers : /\ call'[d].pc # "idle" => call'[d].key \in Keys
                             /\ call'[d].pc \in Unsent => call'[d].site = None
      BY <1>0, <2>3, <2>4, CallFacts DEF Moved, Unsent
    <3> QED BY <2>1, <2>4, <2>5, <3>1, <3>2 DEF Parts, CallsInv, CallsFit
  <2>7. CacheInv'
    BY <1>0, <2>5 DEF Parts, CacheInv, store
  <2> QED BY <1>0, <2>2, <2>6, <2>7 DEF Parts, RestOK, env
<1> QED BY <1>1, <1>2

LEMMA SaveFileStep == ASSUME Parts, NEW c \in Callers, SaveFile(c) PROVE Parts'
<1>1. call[c].pc = "save" /\ UNCHANGED <<env, siteID, lock, store>> /\ Goto(c, "clear")
  BY DEF SaveFile, At
<1>2. file' \in Names \cup {None}
  BY CallFacts DEF SaveFile, Names
<1>3. PICK e \in Call : Becomes(c, e) /\ Moved(e, call[c], "clear")
  BY <1>1, GotoFields, CallFacts DEF Pcs
<1>4. CallsInv' /\ (Switching => Switching')
  BY <1>1, <1>3, CallFacts, OneCall DEF Moved, Parts, Locked, Unsent, lock
<1> QED BY <1>1, <1>2, <1>4, CallFacts, OneCallStep DEF env, lock

\* The switch is over: the cache is empty, and what is under way is marked.
LEMMA ClearCacheStep == ASSUME Parts, NEW c \in Callers, ClearCache(c) PROVE Parts'
<1> DEFINE b(d) == call[d].old \/ call[d].site \notin {siteID, None}
           m(d) == [call[d] EXCEPT !.old = b(d)]
           r == [call[c] EXCEPT !.pc = "retry"]
<1>0. /\ call[c].pc = "clear" /\ UNCHANGED <<env, names, recent>> /\ mu = c /\ mu' = None
      /\ cache' = [k \in Keys |-> None] /\ crossed' = {}
      /\ call' = [d \in Callers |-> IF d = c THEN r ELSE m(d)]
  BY CallFacts DEF ClearCache, At, Locked, Cleared
<1>1. \A d \in Callers : b(d) \in BOOLEAN /\ (call[d].site \notin {None, siteID} => b(d))
  BY CallFacts, CallFields
<1> HIDE DEF b
<1>2. \A d \in Callers : /\ m(d) \in Call /\ m(d).pc = call[d].pc /\ m(d).key = call[d].key
                         /\ m(d).site = call[d].site /\ m(d).old = b(d)
  BY <1>1, CallFacts, MarkedFields
<1>3. r \in Call /\ r.pc = "retry" /\ r.site = call[c].site /\ r.key = call[c].key
  BY CallFacts, RetryFields
<1> HIDE DEF m, r
<1>4. /\ call' \in [Callers -> Call]
      /\ \A d \in Callers : call'[d] = IF d = c THEN r ELSE m(d)
  BY <1>0, <1>2, <1>3
<1>5. \A d \in Callers : d # c => call[d].pc \notin Locked
  BY <1>0, CallFacts
<1>6. \A d \in Callers : call'[d].pc \in Locked <=> mu' = d
  BY <1>0, <1>2, <1>3, <1>4, <1>5, CloudSiteAssumption DEF Locked
<1>7. \A d \in Callers : /\ call'[d].pc # "idle" => call'[d].key \in Keys
                         /\ call'[d].pc \in Unsent => call'[d].site = None
                         /\ call'[d].site \notin {None, siteID} => call'[d].old
  <2> SUFFICES ASSUME NEW d \in Callers
               PROVE  /\ call'[d].pc # "idle" => call'[d].key \in Keys
                      /\ call'[d].pc \in Unsent => call'[d].site = None
                      /\ call'[d].site \notin {None, siteID} => call'[d].old
    OBVIOUS
  <2>1. CASE d = c
    <3>1. call[c].site = None /\ call[c].key \in Keys
      BY <1>0, CallFacts DEF Unsent
    <3> QED BY <1>3, <1>4, <2>1, <3>1
  <2>2. CASE d # c
    BY <1>1, <1>2, <1>4, <2>2, CallFacts
  <2> QED BY <2>1, <2>2
<1>8. CallsInv'
  BY <1>0, <1>4, <1>6, <1>7 DEF CallsInv, CallsFit, names
<1>9. CacheInv'
  BY <1>0 DEF CacheInv
<1> QED BY <1>0, <1>8, <1>9 DEF Parts, RestOK, env, names

LEMMA RetryStep == ASSUME Parts, NEW c \in Callers, Retry(c) PROVE Parts'
<1>1. call[c].pc = "retry" /\ Repeat(c) /\ UNCHANGED <<env, names, lock, store>>
  BY DEF Retry, At
<1>2. PICK e \in Call : /\ Becomes(c, e) /\ e.pc = "resent" /\ e.site = siteID
                        /\ e.key = call[c].key
  BY <1>1, RepeatedFields, CallFacts
<1>3. CallsInv' /\ (Switching => Switching')
  BY <1>1, <1>2, CallFacts, OneCall DEF Parts, Locked, Unsent, names, lock
<1> QED BY <1>1, <1>3, CallFacts, OneCallStep DEF env, names, lock

LEMMA OthersStep == ASSUME Parts, MinutePasses \/ AccountChanges PROVE Parts'
<1>1. /\ UNCHANGED <<crashes, names, mu, store, call>> /\ recent' \in BOOLEAN
      /\ account' \subseteq Ids
  BY DEF MinutePasses, AccountChanges, NotRecent, Parts, RestOK, env, lock
<1>2. CallsInv' /\ CacheInv'
  BY <1>1 DEF Parts, CallsInv, CallsFit, CacheInv, Switching, names, store
<1> QED BY <1>1, <1>2 DEF Parts, RestOK, names

\* Nothing under way.
LEMMA Fresh ==
  ASSUME call = [c \in Callers |-> Idle], mu = None, cache = [k \in Keys |-> None],
         crossed = {}
  PROVE  CallsInv /\ CacheInv
BY IdleFields, CloudSiteAssumption DEF CallsInv, CallsFit, CacheInv, Locked

LEMMA FreshNext ==
  ASSUME call' = [c \in Callers |-> Idle], mu' = None, cache' = [k \in Keys |-> None],
         crossed' = {}
  PROVE  CallsInv' /\ CacheInv'
BY IdleFields, CloudSiteAssumption DEF CallsInv, CallsFit, CacheInv, Locked

LEMMA RestartStep == ASSUME Parts, Restart PROVE Parts'
<1>1. crashes' \in 0..MaxCrashes
  BY CloudSiteAssumption DEF Restart, Parts, RestOK
<1>2. siteID' \in Names /\ file' \in Names \cup {None}
  BY CloudSiteAssumption DEF Restart, Parts, RestOK, Names
<1> QED BY <1>1, <1>2, FreshNext DEF Restart, Parts, RestOK
-----------------------------------------------------------------------------
LEMMA InvInit == Init => Parts
<1> SUFFICES ASSUME Init PROVE Parts
  OBVIOUS
<1>1. siteID \in Names /\ file \in Names \cup {None} /\ account \subseteq Ids
  BY CloudSiteAssumption DEF Init, Names
<1>2. 0 \in 0..MaxCrashes
  BY CloudSiteAssumption
<1> QED BY <1>1, <1>2, Fresh DEF Init, Parts, RestOK

LEMMA InvNext == Parts /\ [Next]_vars => Parts'
<1> SUFFICES ASSUME Parts, [Next]_vars PROVE Parts'
  OBVIOUS
<1>1. ASSUME NEW c \in Callers, Step(c) PROVE Parts'
  BY <1>1, HitStep, SendStep, AnswerStep, NotFoundStep, FailsStep, StoreStep, RecoverStep,
     NoProductsStep, ProductsStep, SaveFileStep, ClearCacheStep, RetryStep DEF Step
<1>2. ASSUME NEW c \in Callers, NEW k \in Keys, Begin(c, k) PROVE Parts'
  BY <1>2, BeginStep
<1>3. CASE MinutePasses \/ AccountChanges \/ Restart
  BY <1>3, OthersStep, RestartStep
<1>4. CASE UNCHANGED vars
  BY <1>4 DEF vars, Parts, RestOK, CallsInv, CallsFit, CacheInv, Switching
<1> QED BY <1>1, <1>2, <1>3, <1>4 DEF Next

(***************************************************************************)
(* Once a switch is over, a document of another site is in the cache only  *)
(* if the URL of its read had been built before (cloud.go, recoverStaleSite *)
(* and fetchSiteJSON); and the lock is held by exactly the read that recovers. *)
(***************************************************************************)
THEOREM OldSitesHaveCrossed == Spec => []OldSiteHasCrossed
<1>1. Parts => OldSiteHasCrossed
  BY InvParts DEF IInv
<1> QED BY <1>1, InvInit, InvNext, PTL DEF Spec
=============================================================================
