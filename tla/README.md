# A TLA+ model of gopowerwall

gopowerwall talks to a Tesla Energy Gateway over four transports and serves the
result to a dashboard.  This directory holds TLA+ modules of the parts of it in
which order, concurrency and failure matter, the TLC configurations that check
them on small instances, and proofs, checked by TLAPS, of the results that matter
most.

To check a run: `tlc -config <file>.cfg <MC module>`; to check the proofs of a
component: `tlapm <module>.tla` with one of the eight modules of the last column of
the table under "The modules".  `PROJECT.json` lists
the runs, the lines of the source every definition stands for, and, for every
property, a mutated definition that breaks it.

## The system

| Component | Source | State | Operations |
|---|---|---|---|
| Facade | `powerwall/powerwall.go`, `connect.go`, `poll.go`, `raw.go` | the active client, one slot per backend, the mode, the TEDAPI sub-mode, the first connect error, all under one `RWMutex` | `New`, `Connect`, `Close`, `Poll*`, `Post`, the raw getters |
| Operations | `powerwall/operations.go` | none of its own | `SetReserve`, `SetMode`, `SetOperation`, the grid settings, the battery commands |
| LAN client | `powerwall/local/local.go` | session credential, vitals flag, response cache | `Authenticate`, `Poll`, `Post`, `Close` |
| Response cache | `pkgs/cache/cache.go` | entries with a TTL in two keyspaces (raw and parsed), a cooldown | `Get`, `Set`, `SetNegative`, `Invalidate`, `SetCooldown` |
| TEDAPI client | `powerwall/tedapi/` | wired and WiFi transports, LAN-failed flag, readiness window, din, uptime anchor | `Connect`, the config and status reads, the signed v1r commands |
| Cloud client | `powerwall/cloud/cloud.go` | auth file, site, cache, time of the last recovery | `Authenticate`, the site reads, stale-site recovery, the writes |
| Fleet API client | `powerwall/fleetapi/fleetapi.go` | auth file, rate-limit backoff, cache, a singleflight group | `Authenticate`, the site reads, the writes |
| OAuth client | `pkgs/oauthclient/oauthclient.go`, `pkgs/atomicfile` | the token, the last token notified, the auth file | `Token`, `MergeToken`, `Write` |
| Proxy | `proxy/` | performance cache, degradation cache, health, two singleflight groups, counters | the HTTP handlers, `/control`, `/health/reset`, `Start`, `Close` |
| Scanner | `powerwall/scan/scan.go` | a semaphore, a list of results | `Scan` |
| Influx writer | `pkgs/influx/influx.go` | none between two writes | `Run` |
| Compression, calc, lookup, validation, version, poller, logger | `pkgs/` | none | conversions and adapters |
| Programs | `cmd/` | none | parse flags, connect once, print or serve |

How they interact.  Every HTTP request to the proxy is a goroutine that calls the
facade, through the proxy's caches and singleflight groups.  The facade reads its
fields under the read lock and passes the call to the backend the last `Connect`
installed: the LAN client, TEDAPI (over its own protocol or signed v1r commands),
the cloud or Fleet API.  A poll lets go of the lock before the backend is asked;
`Post`, the raw getters and the battery commands keep it.  `Connect` and `Close`
hold it for writing from beginning to end.  Each backend has a response cache, and
the two remote ones an OAuth token source that calls back, from whichever request
noticed the refresh, to merge the token into a shared map and write the auth file.

What is hard about it:

* requests overlap in everything that is not under one lock from beginning to end:
  a cache is filled with answers computed before it was invalidated, a token is
  fetched under one lock and compared under another, a backend is replaced between
  two looks at the facade;
* everything fails: denials, 404s, 429s, lost answers, refused writes, writes of
  files, crashes in the middle of them; and much of it is retried;
* operations of several steps (fail over through four modes, log in and repeat,
  read the other field and write both) stop half way.

### What makes each component correct

* Facade: a failed `Connect` changes nothing anybody can see; nobody works on a
  closed backend; the slots, the mode and the client agree; the error shown is the
  first one.
* LAN client and cache: what is cached is not older than the gateway without a
  reason; a forced read is fresh; raw and parsed answers are not mixed up; a write
  is applied at most once; calls return.
* OAuth: the file is never half written, and there once it was, but for the gap of the
  Windows build; a refresh reaches the callback, and the file unless something known came between.
* Operations: setting one field keeps the other; success means that it was done.
* Fleet API: misses share a request, forced reads do not; nobody asks during a
  backoff; waiters return.
* Proxy: a good value is served if there was one; a cached route never goes back in
  time; the health follows the calls; waiters are answered.
* TEDAPI: a write takes to WiFi only after a successful probe; with the strict
  fallback nothing is sent unsigned; a command is taken once; a manual backup is given
  up only for another.
* Cloud: no document of the old site is served for the new one, unless it was under
  way; the site is found again when the account has settled, whatever a crash left in
  the site file.
* Scanner: the hosts are those of the network; no more probes at once than there are
  slots; all that is found is returned unless the scan is cancelled; it ends.

## The modules

| Module | Models | Proofs |
|---|---|---|
| `LocalClient` | the LAN client with its response cache | `LocalClientProofs` |
| `ActiveBackend` | what the facade promises about its backend | |
| `Connect` | `Connect`, `Close` and the calls under the read lock; implements `ActiveBackend` | `FacadeProofs` |
| `OAuthToken` | the notifying token source, the merge, the auth file, crashes | `OAuthTokenProofs` |
| `SetOperation` | `SetOperation` over every backend, with `Connect` switching them | `FacadeProofs` |
| `FleetFetch` | cached reads, writes and the backoff of the Fleet API client | `FleetFetchProofs` |
| `ProxyServing` | how the proxy answers a GET | `ProxyServingProofs` |
| `V1rRouting` | the TEDAPI client's choice of a transport, the probe, the post of a signed command, the manual backup event | `V1rRoutingProofs` |
| `CloudSite` | the cloud client's reads, its recovery from a stale site, the site file, restarts | `CloudSiteProofs` |
| `NetworkScan` | the list of hosts, the pool of probes and cancellation | `NetworkScanProofs` |

Each has an MC module (`MC<module>`) with the sets TLC needs.

**LocalClient.**  `call[c]` is the stack frame of one `Poll` or `Post`; its `pc` names
the places where another goroutine can get in between: `Lookup` (the cache, under its own
lock), `PollGuard`/`PostGuard` (cooldown, vitals flag, then the request leaves), `Serve*` (the gateway),
`PollOk`, `PollNotFound`, ... (the answer), `PostAnswered` and `PostInvalidate` (the
two steps after a write), `LoginOk`/`LoginFails` (`loginLocked`, under `Client.mu`), `Return`.  A payload
is the number of writes the gateway had applied.  The gateway may deny, drop, refuse,
lose an answer, and forget sessions at any time; a TTL may end at any time
(`EntryExpires`, `CooldownEnds`), so no bound on time is assumed.

**Connect.**  `p` holds the fields of `Powerwall`, `prev` the snapshot `Connect` takes; one
attempt at one mode is a step (`TryLocalOk`, `TryRemoteOk`, `StrictFails`, `FailoverFails`), the wait between two
rounds is another.  `pc = "free"` means that nobody holds the write lock.  `UseBegin`
and `UseEnd` bracket a call that keeps the read lock.  The fields `cloudmode`, `fleetapiFlag`
and `tedapiFlag` are written and restored with `mode` and read by nobody: left out.

**ActiveBackend** has three steps: a connect that succeeds with some kind in reach, one
that fails and changes nothing but, with no backend, the mode; and close.  `Connect!Abstract` maps
the snapshot to it while the lock is held, so the whole of a failover, with its intermediate modes, is one
step or none.

**OAuthToken.**  Tokens are numbered as the server issues them.  `BaseToken` is
`reuseTokenSource` (external, serialises its callers), `Compare` the comparison under the mutex, `Merge` and `Marshal` the first half of the callback.
Its second half is `atomicfile.Write`, in either build (`windows`): `Open` creates a temporary file under a name of its own, `Fill` writes and closes it, on Windows `Remove` takes the old file
away, and `Rename` puts the new one in its place; `WriteFails` is an error of any of them but `Remove`'s, which is ignored.  `temp[c]` is the temporary file of `c`'s write, `Torn` a file with nothing or only a part in it.
Writes of several requests overlap, and a crash may come between any two steps; the `OpenedAlike` mutant, in which they share one name, shows that this matters.

**SetOperation.**  `Begin` tests the backend, `Backfill` reads the other field, `PostLocal`,
`PostReserve`+`PostMode`, `PostTEDAPI` are `Post` on each backend.  `Switch` is a `Connect` by
somebody else, which the read lock keeps out while a `Post` is sending.

**FleetFetch.**  One document of the site under one key: the keys only share the
backoff.  `Gate` is the first look at the window, `Enter` the singleflight group, `Recheck` the leader's
second look, `AnswerGet` the request, `Store`/`Fail`/`Limited` the answer;
`AnswerPost` and `Written` a write.  A tick of `backoff` is a unit of Retry-After.

**ProxyServing.**  `route` and `joined` are `routeGroup`, `call` to `fall` are `safePWCall` with `pwGroup`;
`RecordSuccess`/`RecordFailure` are run by everyone who shared the call, each on its own.  An
endpoint is either a cached route (`/aggregates`) or not (`/soe`).

**V1rRouting.**  `call[c]` is one read, write, probe or connect of a client with a v1r transport;
the mutex is held for one step at a time, so `Look` (the flags) and `ChooseRead` (the transport) are
two steps, and so are `ProbeBegins` and `ProbeEnds` around the probe's request.  `ready` is the window that
a probe opens for a minute (`WindowCloses` may come at any time); `strict`, `stale`, `probed` and `late` are history.  No code of the
repository calls `SetLANFailed`, which is public: it is a step of the environment, as the unit tests take it.
`event` is the gateway's manual backup: `CancelFirst` is the cancellation that `ScheduleMaxBackup` sends without looking
at the outcome, `"dropped"` lasts until the schedule that follows is taken, and becomes `"lost"` if it is not.

**CloudSite.**  `call[c]` is one read: `Begin` (the URL, built from `siteID` without the lock), `Hit` or `Send` (the cache, or the request), `Answer`,
`NotFound` or `Fails`, `Store`; on a 404 `Recover` takes the lock, `Products` asks for the account's products, `SaveFile` and `ClearCache` finish
the switch, and `Retry` sends the read once more.  A document is the site it describes.  A vehicle is a product of the account as well: its id counts in `Replacements` and may
be taken for a site, but no read of it is answered (`Ids` and `Sites`).  `SaveFile` may write nothing, all, or leave the file
emptied (`os.WriteFile` truncates first), and `Restart` is a new process on what the file holds.

**NetworkScan.**  `List` is one turn of the loop of `Hosts`, over addresses of `Bits` bits that wrap around; `Loop`, `Start` and
`GiveUp` are the loop of `Scan` with its check of the context and its `select`, in which either ready case may be
taken; `probe[a]` is the goroutine of host `a`.  `GiveUp` reads `results` without the mutex: `Seen` is what that read may give, with `Torn` for a
slice whose header is half written.

## The runs

| Run | Question | Instance |
|---|---|---|
| `local_shared` | cache coherence and freshness with two goroutines, one endpoint, a write and reads of both representations | 2 callers, 1 session, 1 write |
| `local_alone` | does one call return, keep its representation, write once and say what became of the write, whatever the gateway does | 1 caller, 2 sessions, 2 endpoints, reads of both representations, forced or not, 2 writes, fair |
| `connect_safety` | the facade's invariants, its refinement of `ActiveBackend`, and that `Connect` returns | 3 backends, 2 callers, fair |
| `oauth_safety` | which refreshes reach the callback, the map and the file, and whether there is a file | 3 requests, 2 refreshes, 1 crash, both builds |
| `oauth_survives` | *violated*: a refreshed token survives a restart | 2 requests |
| `setop_safety` | the other field is kept; a remote success is complete | 2 callers, 2 values, 2 switches |
| `setop_applied` | *violated*: success of a remote or TEDAPI write means that it was taken | as above |
| `fleet_safety` | misses coalesce, forced reads are fresh, nobody asks in the window, calls return | 2 callers, 2 changes, delays 0..2, fair |
| `proxy_safety` | health, last good values, the route's cache, requests are answered | 2 requests, 1 route, 1 other endpoint, threshold 2, all 8 settings, fair |
| `v1r_safety` | writes over WiFi are probed, strict reads are signed, commands are taken once, a backup is given up only for another, requests return | 2 callers, all 8 settings, fair |
| `cloud_safety` | whose documents the cache holds, reads return, the site is found | 2 callers, 2 sites, 1 key, 1 crash, fair and polled |
| `scan_safety` | hosts, slots, what a scan returns and loses, that it ends | 4-bit addresses, networks of 1 to 8 around two of them, 2 slots, fair |

A module's type invariant is checked on its own in `LocalClient` and `Connect`; in the others it is the first conjunct of one of the
module's properties (`BehindHasACause`, `OtherFieldKept`, `MissesCoalesce`, `HealthFollowsCalls`, `StrictIsSigned`, `OldSiteHasCrossed`, `ProbesAreBounded`).

Why the bounds are enough.

* Two callers: each hazard is a race of one actor with one other (fill and write, two refreshes,
  leader and waiter, user and `Connect`).  `oauth_safety` has three, because the source of a
  token, the request that overtakes it and a third that brings the old one back are three.
* `MaxWrites`, `MaxVersion` of `LocalClient` and `FleetFetch`: versions are compared, so "older" needs two; the
  second distinguishes older from oldest.  `ProxyServing` needs one change: an old and a new value.
* `Backends` is 3: the one in use, the one that replaces it and the one that replaces that, with objects
  taken again only when nothing holds them.
* `MaxRounds` 1: the wait is entered, ended, and followed by attempts past the third; further rounds repeat
  the same states except for the counter.
* `MaxToken` 2, `MaxCrashes` 1: a token superseded by a second refresh; a restart from whatever the file holds.
* `MaxSwitch` 2: away from the local backend between test and post, and back.
* `Ids` 2, `Keys` 1, `MaxCrashes` 1 of `CloudSite`: an old and a new product, of which the account has any; the keys do not interact; a crash in the
  middle of the save, and what comes of it.  `Configured` is none, so that the site file decides.  Both products are sites: a vehicle can do nothing that a
  site cannot, since any read may be a 404; the theorem holds for every mixture.
* `Bits` 4, `Given` {5, 13}, `Ones` 1..4, `Threads` 2 of `NetworkScan`: every size of network up to half of the addresses, the smallest (one and two, which
  are not trimmed) included, in the middle of the range and at its top, where the next address wraps; more hosts than slots.
* `MaxDelay` 2, `Threshold` 2: a shorter and a longer delay; a first failure that does not degrade and a second that does.

`fails` and `run` of `ProxyServing` are counted up to `Threshold` only: beyond it the code compares with `>=`.

Deadlock is checked except where the system may really stop: `LocalClient` (every caller may be idle in a
closed client whose entries have expired), `OAuthToken` (tokens and crashes are used up) and `NetworkScan` (a scan that has returned).
Symmetry is used for runs of safety properties only.

### Fairness

`FairSpec` asks of `LocalClient`, `FleetFetch`, `ProxyServing` and `V1rRouting` that a goroutine inside a call takes its
next step (`WF` per goroutine), of `Connect` that the one inside it does.  That holds because every HTTP client of the
repository has a timeout, so a request is always answered, if only by an error, and the rest is code that runs on;
a mutex is never held across a wait for another goroutine.  Nothing is assumed about servers, TTLs, users or `Close`,
and no request is fairly successful.  `CloudSite` asks for `SF` per caller, since a caller that waits for `Client.mu` is again and again
enabled and disabled by others' recoveries, and `sync.Mutex` lets nobody starve.  `SiteIsFound` needs more (`PolledSpec`): time passes (`MinutePasses`), somebody keeps reading, past the cache (the
entries expire, and the proxy polls), and of the requests that are made for ever some 404 and some list of products is answered; without these the client has no reason to learn of the change.
`NetworkScan` asks that `Scan` and each probe go on: every probe has a timeout.  A /0 is left out of `Ones`: its list never ends.  `ConnectReturns` is stated for `Connect` without retry: with retry nothing ends
the loop but success or the caller's context.

## What is proved

Every safety property of the passing runs, invariants and action properties alike, is also a theorem: it holds for every set of callers,
endpoints, sessions, backends, sites, values, networks, and every value of the bounds.  A theorem assumes no more than the named `ASSUME` of the module it is about.

| Theorem | Statement |
|---|---|
| `LocalClientProofs!TypeCorrect` | `Spec => []TypeOK` |
| `StaleValuesHaveACause` | a cached value older than the gateway's state has one of three causes |
| `ForcedPollsAreFresh` | a forced poll is not older than its beginning |
| `RepresentationsMatch` | raw to those who asked for raw |
| `PostsTellWhatTheyDid` | one `Post`, at most one application, and what it returns says whether, but for lost answers and refusals |
| `FacadeProofs!TypeCorrect` | `Spec => []TypeOK` |
| `BackendsInUseAreOpen` | nobody uses a closed backend |
| `TEDAPISlotsAreActive` | the TEDAPI slot is the active client |
| `ErrorsNameConfiguredMode` | the error is the first one |
| `SubModesFit` | the TEDAPI sub-mode is that of the connection in use, but for `Close` and a plain LAN reconnect |
| `Refinement` | `Spec => ImplementsActiveBackend` |
| `OtherFieldsAreKept` | `SetOperation` keeps the other field, but for three causes |
| `RemoteSuccessesAreComplete` | success of two commands is that of both |
| `OAuthTokenProofs!RefreshesAreNotified` | no refresh goes unnoticed |
| `FileBehindHasACause` | the file is behind only after a failed write or a superseded token |
| `FilesSurvive` | the file is whole, and there once it was, but for the gap of the Windows build |
| `FleetFetchProofs!OneRequestPerMiss` | unforced misses share one request |
| `ForcedReadIsFresh` | a forced read is not older than its beginning |
| `StaleOnlyByCrossing` | the cache is older than the last write only through an answer under way |
| `BackoffHolds` | in the window only those past their last look at it send, and only time shortens it |
| `ProxyServingProofs!HealthIsThatOfCalls` | the health follows the calls |
| `KnownValuesAreServed` | a good value is served if there was one |
| `CachesGoForward` | a cached route never goes back in time |
| `V1rRoutingProofs!StrictReadsAreSigned` | nothing unsigned while the strict fallback is called for |
| `CommandsAreTakenOnce` | a command is taken once at most, and success means that it was |
| `EventsAreReplaced` | a manual backup is given up only for another |
| `WiFiWritesAreProbed` | a write takes to WiFi only after a probe |
| `CloudSiteProofs!OldSitesHaveCrossed` | the URL of a document of the old site had been built before the switch |
| `NetworkScanProofs!UsableHostsAreListed` | the list is the usable addresses of the network, each once |
| `SlotsBoundProbes` | no more probes than slots, and no slot is lost |
| `ScansLoseOnlyLate` | what a scan loses was under way when it was cut short |
| `CancelStopsProbes` | one more probe at most after a cancellation |

Each property is a consequence of an inductive invariant, `IInv` (with `TypeOK`, where that is not a part of it), which stands at the end of the component's module, so that TLC can check it too.  (`LocalClient` has a second one, `PostInv`, and
`Connect` also `SubModeInv`.)  The proofs have one lemma per action, on top of lemmas on what
a change of one call's record leaves alone.

*LocalClient.*  `StaleHasACause` is not inductive: an answer on its way to the cache needs the same excuse as a value in it
(`AnswerHasACause`), the freshness of what a forced poll returns is settled when it is answered (`FreshCall`), its representation when
it enters the loop (`RepCall`, with `CacheKeepsRep` for the cached case), and a post has applied nothing at any place it can be sent again from (`OnceCall`).  `IInv`
is their conjunction.  What `Post` tells its caller rests on a second invariant, `PostInv`, inductive beside it: on the way to the invalidation a status of 200 means that the write was applied, and only a denial leads to a new login.

*Connect.*  With nobody inside `Connect` the fields are `Settled`: what they hold is open, the mode is the client's, a TEDAPI slot is
the client.  Inside it that is true of the snapshot, while `p` still holds the snapshot's backends (`Connecting`), and nobody reads.  `IInv` says so by `pc`, and adds that hybrid is
a local configuration.  The sub-mode is that of whoever is visible: the snapshot while the lock is held, the fields when it is not (`SubModeInv`).  The refinement shows of each action, under `IInv`, that it is a step of `ActiveBackend` or leaves its variables alone.

*SetOperation.*  Between the back-fill and the post the other field of the payload is what the site is set to, or has changed since, or was not read (`Backfilled`);
a payload that needed no back-fill is what the caller gave; and between the two commands of a remote write no error means that the reserve was taken.  `Fits` says so of each call.  These
two theorems stand in `FacadeProofs` over an instance of the module, `SetOp`, and have its `ASSUME` as a hypothesis, since `INSTANCE` does not bring it in.

*OAuthToken.*  The source's token is never overtaken in the process: what is compared, merged or kept is at most as new (`SourceIsNewest`).  From the refresh on it
is either where it should be or in the hands of a request that is about to bring it there: `NotifiedInTime`, `MergedInTime` unless a superseded token came late, `WrittenInTime` unless a
write has failed besides.  With no request under way the second half is empty.  Of the files: whoever is about to rename has a temporary file that is whole and holds its token (`TempsAreWhole`), which needs that no
other write touches it; with that every step of a write that replaces or removes the auth file leaves what `FileSurvives` allows.

*FleetFetch.*  As in `LocalClient` an answer needs the same excuse as what it becomes in the cache, and an answer to a forced read is already not older than its beginning (`AnswerFits`); a kind of call is
only at the places where it belongs (`KindFits`); and those who may still send in the window are all counted as past their last look at it (`PastCovers`).

*ProxyServing.*  The outcome of the last call is either recorded or in the hands of those that shared it: the flag of a proxy that should be healthy is about to be cleared (`FlagIsCleared`), the failures in a row
that are not yet counted are held by a request, or there is one of an earlier call that comes late (`FailuresAreCounted`).  A request that knew a good value finds one to fall back to, and what a request holds for a cached route is between what the cache has
held and what can be fallen back to (`ValuesFit`, `Fits`), which with one leader per route (`OneLeads`) is why the cache goes forward.

*V1rRouting.*  `Fits` keeps for each request where its kind may be, what a strict read has decided when it looked at the flags, and that a command has not been taken at any place from which it can be sent (again).  An event that was dropped has a schedule
that will be sent (`DroppedIsReplaced`), and a window that is open was opened by a probe of this outage or by a late one (`WindowIsProbed`).

*CloudSite.*  A read that is under way for another site than the client's knows that it is old, unless the switch is not yet over (`CallsFit`); only such a read can then store a document of the old site.

*NetworkScan.*  While the list is made it is the addresses from the first of the network on, in order, and the place it has come to is the next one, modulo the size of the range (`ListIsInOrder`); that this ends with the whole network is arithmetic of aligned
blocks, also for the block that ends at the highest address.  Of the pool: a host is in the list or has been started (`HostsAreNew`), what was found is in the results or in the hands of its probe (`FoundIsAdded`), nobody starts once the loop is left (`NobodyComesLater`).  The
number of slots is the cardinality of a set that grows and shrinks by one.  `PowersOfTwo` assumes laws of arithmetic: the provers know nothing of `^` beyond its name, and its laws are proved by induction, which they do not have.  TLC evaluates them for the instance.

Model-checked only:

* Liveness under fairness: `CallsReturn` (of `LocalClient` and of `FleetFetch`), `ConnectReturns`, `RequestsReturn` (of `ProxyServing` and of `V1rRouting`), `ReadsReturn`, `SiteIsFound`, `ScanReturns`.  It is out of the provers' reach, as is `ENABLED`.
* That the two properties of the runs that expect a violation fail, which is TLC's to show.

## Where the code and its documents disagree

Two are checked, and TLC shows a run of each (`findings` in `PROJECT.json`): a superseded token is written last (`oauth_survives`), and a TEDAPI `SetReserve` succeeds and does nothing (`setop_applied`).

The models have the following too, and no run is spent on them:

* `Connect` after `Connect` replaces the backend without closing it (`connect.go:221`; `powerwall.go:22-23`: "at most one active backend connection").
* `SetOperation(nil, nil)` posts an empty payload, with which a local gateway resets both fields (`operations.go:140`; `:163-164`: nil means unchanged).
* A read of the old site that is answered after the switch is stored under the new site's key, for a TTL (`cloud/cloud.go:489`).  `OldSiteHasCrossed` names this case.
* A site file that a crash left empty is taken for the site, without a look at the products; only a 404 leads out of it (`cloud/cloud.go:373-404`, `:586`).
* A vehicle in the account is counted as a product: beside the new site it keeps the client from ever switching (`cloud/cloud.go:548`), and as the only product, or the first, its id is taken for a site (`:531-540`, `:393-400`).
* On Windows the auth file is removed before the new one is renamed (`atomicfile/atomicfile_windows.go:31`; `:11`: "atomically"): a crash in between leaves none, and a rename that fails deletes the new one too, so the refresh
  token is gone.  `FileSurvives` names these cases.
* A caller whose 404 comes within a minute of a recovery gets the 404, although that recovery may just have switched the site (`cloud/cloud.go:564`).
* A cancelled scan reads `results` without the mutex and before its deferred wait: devices that were found are not returned (`scan/scan.go:433-439`).  `OnlyCutShortLoses` names this case.
* `Hosts` of an IPv6 network is empty, so its scan finds nothing without an error (`scan/scan.go:161-178`).
* `GoOffGrid` and `ReconnectGrid` drop what the gateway answered to an island mode request (`tedapi/tedapi.go:2410`).
* In fail-fast mode an endpoint with a good value does not call the backend again until another endpoint without one succeeds, or somebody resets (`proxy/server.go:280`).
* A poll that was answered before a write stores its value after the write's `Invalidate` (`local/local.go:456`;
  `cache.go:126-129`: "a write leaves no stale representation behind").  `StaleHasACause` names this case.
* A probe that is under way when `SetLANFailed(false)` or `Connect` resets the window opens it again when it succeeds, so
  a write of the next outage goes out without a probe of its own (`tedapi/tedapi.go:258`; `:159-161`).  `WiFiWriteIsProbed` names this case.
* `Post` returns the body of a refused write, unless the status is 401 or 403, as if it had been applied
  (`local/local.go:519`; `poll.go:154-157` promises an error).
* A poll that is denied while `Close` logs out logs in again, and leaves a session behind (`local/local.go:353` and `:280`).
* The TEDAPI sub-mode survives `Close`, and a reconnect to a plain LAN session (`connect.go:219`; `powerwall.go:166-169`).  `SubModeFitsConnection` excepts those two.
* With retry the attempts do not end with the third (`connect.go:391`; the log line of `:398-405`), and the write lock is held for as long.
* `OnRefresh` is called more than once for a refresh if a request is overtaken (`oauthclient.go:102`; `:32-37`).
* A forced read that lacks the other field lets a partial payload through (`operations.go:149`; `models/errors.go:88-93`).
* If the backend is switched after the back-fill, the field that was filled in is sent to the cloud as well (`operations.go:140`; `:179-182`).
* `GetReserveForced` over a remote backend answers a default of 20 if there is none (`cloud.go:718`; `operations.go:73-75`).
* Writes are sent during a backoff (`fleetapi.go:377`; `:399-403`).
* `PW_CACHE_TTL`, documented as the maximum age of a degraded value, is measured and ignored (`proxy/server.go:280`, `:307`, `:325`);
  `PW_NETWORK_ERROR_RATE_LIMIT`, documented as a limit of log lines, is the threshold of the degraded state (`:305`).
* A fall-back value of `/aggregates` is text that is marshalled a second time (`proxy/aggregates.go:39-41`), so it arrives as a quoted string; the form
  of a value is not modelled.

## Not modelled

* Wording, logging, counters, page contents, and the decoding of answers (vitals, status, views): pure functions of one answer.
* The pages under `proxy/web/viz-static`: webpack bundles of Tesla's web application and its libraries (React among them), minified and reformatted, and short scripts
  that inject jQuery and change the styles of that page.  They are served as they are and hold none of the program's logic, which is in Go; no definition translates a line of them, nor would one say anything of gopowerwall.
* External, and modelled from how the code uses them: the gateway and Tesla's servers, `oauth2`, `singleflight`, the TTL cache, the file system.
  singleflight's `Do` gives every waiter the leader's outcome; `oauth2.reuseTokenSource` serialises its callers.
* Data races (the shared auth map, `siteID`) appear as orders of the accesses; that the runtime may end the process is in `Crash`, which may come at any moment.  A token is one value: a file that is
  marshalled while another request merges may hold the access token of one and the refresh token of the other, of which the refresh token is what a restart needs.
* The crash of the machine: what was written to a file stays written.  The Windows atomicfile does not sync the temporary file before it renames it; the Unix one (renameio) does.
* `/health/reset` is one step although it takes two locks one after the other.
* The control endpoint: it keeps no state; a handler checks the secret and makes one call of the facade, which `SetOperation` and `V1rRouting` take from there.
* The proxy's life: `Start` waits for an error of the listener or the signal, then shuts the listener down with a timeout and closes the caches and the facade, in one
  goroutine.  Handlers that outlast the timeout meet a closed facade, which is `Connect`'s `Close` among its users; a shutdown phase in `ProxyServing` was tried: it
  multiplied the states and gave no property that the two modules do not have.
* The Influx exporter: one goroutine that writes and logs; a failed write is dropped.
* `SetGridCharging` and `SetGridExport`: one command of a remote backend each, with nothing to fill in.
* What a transport of v1r keeps between commands (its token and din, set under its own mutex): a stale or missing one only makes a request fail, which is one of `Refused`, `Denied` and the end of `ResolveDin`.

Hazards without a property, and why: a poll that logs in while `Close` logs out (`local.go:353`), a reconnect that leaves the old backend open (`connect.go:221`) and a degraded value of any age (`server.go:307`).  The
models have the first two, a property would say no more than that they happen; the third needs ages of values, on which nothing else depends.

## What could follow

1. Refinements proved: the abstract specifications of 2, and `ActiveBackend` as what `SetOperation` assumes of its connection.
2. Abstract specifications: a read-through cache that `LocalClient` and `FleetFetch` both implement; a register of two fields for `SetOperation`.
3. Pure algorithms against reference definitions: `parseRetryAfter`, the negotiation of an encoding, the pairing of `pw2MsaModulePairing`.
