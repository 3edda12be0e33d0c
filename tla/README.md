# GitLab Pages in TLA+

A model of the GitLab Pages daemon: how the privileged parent builds the jail
and starts the server, how connections are limited, how a request finds its
domain, passes the handlers, is authorised and is answered from files or from a
zip archive in object storage, and how domains and archives are fetched, cached
and refreshed meanwhile. Every module is translated from the Go source under
`src/`; `PROJECT.json` maps each definition to its lines.

## The system

The daemon is one process, started by a privileged parent. Each accepted
connection is served by goroutines of `net/http`; everything below is called
from them or runs beside them.

| Part | State | Operations | What makes it hard | Module |
|---|---|---|---|---|
| Jail and daemon (`internal/jail`, `daemon.go`) | directories, files, a mount, a child process | `daemonize`, `Build`, `Dispose`, `passSignals` | any system call may fail; the child and signals run beside it | `Daemon` |
| Connection limiter (`internal/netutil`) | a channel with one element per slot; per listener `done`; per connection a `sync.Once` | `acquire`, `release`, `Accept`, `Close` of listeners and connections | one pool shared by all listeners; a listener is closed while its accept loop waits; a connection is closed twice | `SharedLimitListener` |
| Choice of the source (`internal/source`) | the configured source, the GitLab client | `IsReady`, `GetDomain`, `source` | readiness changes while requests are in flight | `Domains` |
| GitLab source (`internal/source/gitlab`) | `isReady` under a mutex | `GetDomain`, `poll`, `IsReady`, `Resolve` | a 401 races with the poll | `Domains`, `Pipeline` |
| Domain cache (`internal/source/gitlab/cache`) | the store, entries on the heap, goroutines | `Resolve`, `LoadOrCreate`, `Retrieve`, `Refresh`, `resolveWithBackoff` | callers that miss together, timeouts, retries, refreshes that end late | `DomainCache` |
| Disk source (`internal/source/disk`) | the map, `lastUpdate`, channels, a wait group | `Watch`, `ReadGroups`, `updateDomains`, `GetDomain` | the tree changes during a scan; reads fail; goroutines wait for one another | `DiskSource` |
| Request pipeline (`app.go`, `internal/domain`, `internal/acme`, `internal/rejectmethods`) | the domain in the request context | the handlers of `buildHandlerPipeline` | every handler resolves the request again, against a lookup that may have changed | `Pipeline` |
| Access control (`internal/auth`, `internal/handlers`, `internal/artifact`) | session cookies on two hosts | login, callback, token exchange, authorisation | interrupted and repeated logins, several tabs | `Auth` |
| File serving (`internal/serving/disk`, `internal/vfs/local`, `internal/redirects`) | none | `ServeFileHTTP`, `ServeNotFoundHTTP`, the walk over symbolic links | the order of attempts; loops of links; a deployment in between | `Serving` |
| Zip file system (`internal/vfs/zip`) | the archive cache, `cacheLock`, archives on the heap, an LRU cache of offsets, a pool of deflate readers | `Root`, `Open`, `readArchive`, the janitor | expiry beside lookups, failed and corrupted archives, stale offsets, recycled readers | `ZipVFS`, `RangeReader` |
| HTTP range reader (`internal/httprange`) | offset, open response, the cached reader, a gauge | `NewResource`, `ReadAt`, `Read`, `Seek`, `Close` | boundaries, refused and broken responses, a reader without a lock | `RangeReader` |
| Configuration, metrics, HTTP helpers, serverless | flags, counters | parsing, formatting, proxying | | |

A request passes the limiter, routing (`Domains`), one of the two domain sources
(`DomainCache` behind the GitLab source, `DiskSource` behind the disk source),
the handlers (`Pipeline`, with a login as in `Auth`), and then local files
(`Serving`) or an archive (`ZipVFS` for finding and opening it, `RangeReader`
for reading it). Modules meet at their outcomes: what one module offers as a
result is a nondeterministic choice in the one that uses it. `PROJECT.json`
lists the components with what is modelled of each, and the hazards at the
lines where they bite.

## Modules

| Module | Models | State and actions |
|---|---|---|
| `DomainCache` | `internal/source/gitlab/cache`, outcomes of the API client | `entry` is the heap of `Entry` values, `store` the go-cache items, `worker` the goroutine of `resolveWithBackoff` of each entry, `client` the callers. `Load`/`Create` are the two halves of `LoadOrCreate`; `CheckUpToDate`, `CheckNeedsRefresh`, `Retrieve`, `Retrieved`, `ContextDone` the rest of `Resolve`; `GetLookup`, `Respond`, `RetrievalDone` the `Retriever`; `RefreshRetrieved`, `ReplaceOrCreate` the goroutine of `refreshFunc`. |
| `SharedLimitListener` | `internal/netutil` and the accept loop of `http.Server` | `sem` counts the elements of the channel; `accept` and `acquired` are the accept loop of each listener, `once` and `closer` the `Close` calls of each connection. |
| `SlotPool` | what the limiter promises: a pool of `N` slots | abstract specification, implemented by `SharedLimitListener` |
| `ZipVFS` | `internal/vfs/zip` with go-cache, ccache and the outcomes of `internal/httprange` | `archive` is the heap of `zipArchive` values numbered as `archiveCount` does, `cache` the go-cache items, `cacheLock` its holder, `request` the callers of `Root` and `Open`. The janitor does not take the lock: `DeleteExpired` removes what has expired, and `evicted` holds the keys whose `OnEvicted` it has still to call (`ItemEvicted`). `DeleteArchive` and `ArchiveEvicted`, `AddArchive` and `CountArchive` are `Delete` and `Add` of a lookup, each with the change of the gauge that follows it. |
| `Domains` | `internal/source`, `internal/source/gitlab`, routing and the readiness check of `app.go` | the cache is any answer the API could have given, the disk source becomes ready once |
| `DiskWatch` | what the disk source promises: notice, scan, install | abstract specification, implemented by `DiskSource` |
| `DiskSource` | `Watch`, `ReadGroups` and `updateDomains` | the caller (`pc`), the workers, the wait group, the closing goroutine and the collector are separate; each meeting on an unbuffered channel is one step |
| `RangeReader` | `internal/httprange` and `deflate_reader.go`: one archive, the goroutine that opens it, and requests that read its files | `reader` is the `Reader` of each goroutine (range, offset, response), `cachedReader` whether the opener's is in the `RangedReader`, `closer`, `pool` and `deflater` the recycled `deflateReader` objects, `openRequests` the gauge. A request is sent in one step and answered in another. |
| `Pipeline` | `app.go`, `internal/domain`, ACME, rejected methods, `Resolve` of both sources, the decisions of `internal/auth` | `pc` names the handler that runs next. `world` is the lookup the source would give now and changes between any two steps with the GitLab source; each question of a handler is a `Resolve` of its own. `inForce` collects what the request could have been resolved to since routing, and is only read by the properties. |
| `Auth` | `internal/auth` and the artifact handlers | `cookie` is the session the browser has per host, `tab` the tabs with their requests and responses under way. Each handler is one action: it reads the cookie sent with the request and answers with a new one, which replaces the old when the response arrives (`Receive`). `Authorize`, `Expire` and `Revoke` are GitLab and the outside. |
| `Serving` | `internal/serving/disk`, `symlink.go`, `internal/vfs/local`, `internal/redirects` | one system call per step (`Root`, `walkSymlinks`, `FollowLink`, `resolvePath`, `handleContentEncoding`, `serveFile`, `ParseRedirects`, `tryRedirects`); `Deploy` replaces the tree between any two. `Follow` is what the file system itself makes of a path and serves as the reference; it knows nothing of the walk. |
| `Daemon` | `daemon.go`, `internal/jail` | `pc` is the parent with its deferred calls, `dirs`, `files`, `mounted` the jail, `child`, `config`, `relay` the child, the pipe and the goroutine of `passSignals` |
| `MC...` | instances for TLC | |
| `SharedLimitListenerProofs`, `DomainCacheProofs`, `ZipVFSProofs`, `DiskSourceProofs`, `RangeReaderProofs`, `PipelineProofs` (with `Domains`), `AuthProofs`, `DaemonProofs` | proofs | |

Atomicity follows the code: what happens under one lock is one step when
nothing outside the lock can see the middle of it, and several steps where
something can (the janitor of go-cache works beside `cacheLock`, so the lookup
and the store of `findOrCreateArchive` are separate steps; `Delete` and
`DeleteExpired` of go-cache release its mutex before they call `OnEvicted`, so
the removal and the gauge are separate steps, too). An unbuffered send
and its receive are one step. Time is a counter that any step may fall between;
in `DomainCache` it starts at 1 because 0 stands for the zero `time.Time`.

Definitions whose comment begins with "Slip:" are not part of the
specifications. Each is a plausible mistake in the code; putting it in the
place of the definition after it makes the property named in `PROJECT.json`
fail, which shows that the property depends on that line of the code.

## Runs

Two requests, callers, tabs or workers are enough for every race of a pair, and
the third party, where there is one (janitor, poll, refresh goroutine, opener,
closing goroutine), is always present. Clocks run just long enough to pass
refresh *and* expiry.

| Run | Shows | Bounds |
|---|---|---|
| `domain_cache` | `Resolve` never returns nil or another domain's lookup; no caller waits beyond one retrieval timeout; the API is asked at most `MaxRetrievalRetries` times in the life of an entry; callers that miss together share an entry; a resolved entry is never replaced by an unresolved one | 2 callers, 2 domains, 3 entries, clock to 3: entries get outdated and expire |
| `domain_cache_live` | every `Resolve` returns, every refresh ends | 2 callers, 1 domain, 2 API requests per retrieval |
| `domain_cache_replaced` | **violated**: a late refresh overwrites a fresh successful entry with an error | 1 caller, clock to 5 |
| `limiter` | slots are neither lost nor returned twice; the limit holds; the pool is implemented; closing a connection or a listener completes | 1 slot, 2 listeners, 2 connections, 2 closing goroutines: the pool is full and contended. Larger instances are covered by the proof |
| `zip` | one archive per miss and interval; offsets come from the archive being read; a corrupted archive is not handed out again; the gauge exceeds the items in the cache by no more than the callbacks still to come; `Root` returns | 2 requests, 1 URL, 3 archives, clock to 2 |
| `range_reader` | the bytes read are those at the reader's offset; the gauge of open requests is exact; the cached reader is private to the opener; a recycled deflate reader has one owner | an archive of 3 bytes: sections that are empty, touch the end or run past it, reads of any length, responses cut short, refused or broken; 2 requests, 2 deflate readers, 2 reads of the directory and 2 seeks per file. Larger instances are covered by the proof |
| `domains` | with `auto`, after a 401 later requests stay on disk | 2 requests, 3 changes of the API |
| `disk_source` | the wait group is never negative, nothing is sent on a closed channel, `DiskWatch` is implemented, the map never goes backwards and catches up, also after a failed read once something else is deployed | 2 workers, groups of 2 and 1 sites, every initial tree, one failed read |
| `pipeline` | pages are served only if a lookup in force allowed it; a private project and a missing one look alike; one answer per request | one request of every kind, every pair of a root and another project, every configuration, 2 changes of the lookup: enough for three handlers to see three different ones |
| `auth` | tokens come from a login at their own site; a tab comes back to its own page; a load that nothing interferes with succeeds whatever earlier ones have left; a lone load ends | 2 tabs, a site with a page and an artifact, the auth host with pages of its own, 1 disturbance (a refusal, an error of GitLab, an expired cookie, a revoked token), 7 random strings, which is more than can be in use at a time (`StatesAssumption`) |
| `serving` | the answer is the one the file system gives for the path, with the documented fallbacks, except for two kinds of request (see below); every request ends | 160 trees of up to 7 entries with links up, down, across, out of the root and back, to themselves and absolute, against 52 requests; 4 links instead of 255, which is more than the longest chain without a cycle; 1 deployment |
| `daemon` | the pages root is never removed through the mount; `daemonize` leaves nothing behind unless unmounting or removing failed; descriptors match; the parent returns after the child | 3 directories, 2 files, up to 2 sockets of each kind, 2 signals, any system call failing |

Deadlock checking is off where the system may rightly stop: all listeners
closed, the request answered, the parent gone, or a bound on entries, archives,
deployments, faults or time used up. `Domains` never stops.

### Where comments and code disagree

`domain_cache_replaced` is kept as a run, with a finding in `PROJECT.json`. The
others were met while modelling; the properties above are stated so that they
hold of the code as it is.

* A chain of failing refreshes keeps an old answer beyond the expiry:
  `refreshFunc` hands on `e.created`, not the timestamp `e` had inherited
  (`cache/entry.go:107`), while `entry.go:90-91` says "for a maximum time of
  e.expirationTimeout".
* With `gitlab-retrieval-retries` = 0 the loop at `cache/retriever.go:57` makes
  no request, and the zero lookup, without a domain and without an error, is
  cached and returned; `cache/cache.go:70-71` says "we create a lookup that
  contains information about an error".
* The janitor of go-cache does not take `cacheLock`. It can evict an archive
  between `GetWithExpiration` and `SetDefault` (`vfs/zip/vfs.go:199`), which
  puts it back without counting it; `vfs.go:179-180` says "This needs to happen
  in lock to ensure that concurrent access will not remove it".
* The domain is looked up before the readiness is checked (`app.go:129`): a
  request looked up in the empty map of the disk source is answered 404 if the
  first scan ends in between; `app.go:224-225` says "auxiliaryMiddleware will
  handle status updates, not-ready requests".
* A scan that fails after `lastUpdate` was set (`disk/map.go:252`) is not tried
  again until `.update` changes; `map.go:234` says "kicks off a new domain
  directory scan when needed".
* A signal that arrives between `signal.Notify` and the first receive of the
  goroutine is dropped, as the channel is not buffered (`daemon.go:110`); the
  comment at `daemon.go:346` says "Pass through signals".
* With a leading slash `..` after the first name is an error, "cannot backtrack
  root path" (`symlink.go:61`), also where the way back stays inside the
  project; `symlink.go:49` says "Back up to previous component if possible".
  `AsExpected` leaves out the requests that do so (`BacktracksRoot`).
* `_redirects` is compared with the path as a string, so a resolved path that is
  spelled differently, with a leading slash, after an absolute link or after
  leaving the root by `..` and coming back, is served as an ordinary file; the
  comment in `tryFile` (`disk/reader.go:101`) says "Serve status of `_redirects`
  under `_redirects`". `AsExpected` leaves these requests out
  (`SpelledDifferently`). Without either exclusion TLC finds a request that is
  answered otherwise than the file system would have it.
* With `auto`, a 401 that is handled between the successful `Status` of `poll`
  and its assignment (`gitlab_poll.go:36`) is undone by the assignment, and later
  requests go to GitLab until one of them meets a 401 again; before that only a
  serverless name leads to GitLab at all. The acceptance test
  (`serving_test.go:536`) says "subsequent requests will serve from disk".
  `StaysOnDisk` therefore speaks of a 401 handled after the poll has ended.
* `Unshare` (`daemon.go:317`) gives a mount namespace of its own to the thread
  that calls it, and nothing locks the goroutine to that thread;
  `jail/mount_linux.go:11` says "makes the process to own it's own mount
  namespace". `Daemon` has one mount namespace, see below.

### What the runs taught about the code

* `Auth`: two tabs of one site can undo one another's login again and again, as
  long as each response is late by a whole login (a browser's limit on
  redirects ends this), so liveness is stated for a lone load. A second tab can
  also overwrite `proxy_auth_domain` at the auth host; the first login then ends
  with 401. A refusal at GitLab while `proxy_auth_domain` is set is answered
  503, not 401, because there is no code to sign.
* `Pipeline`: a resolution that fails reads as "no access control" and "not
  HTTPS only" in `internal/domain/domain.go`; `PageAllowed` therefore speaks of
  requests none of whose resolutions failed. An ACME challenge whose file was
  served goes on down the chain and may be answered twice, as
  `TestServeAcmeChallengeWhenPresent` asks for.
* `Serving`: a custom 404 page that is replaced by a longer one between `Open`
  and `Lstat` is followed by a 500 in the same response (`reader.go:269`).
* `Daemon`: a signal before `signal.Notify` ends the parent at once and leaves
  the jail behind; `ReturnsClean` is about a `daemonize` that returns.
* `Domains`: a serverless name is sent to the GitLab source also if there is
  none (`domains.go:140`), in which case the call panics and ends the request.

## Fairness

* Go runs every goroutine that can run: weak fairness of each caller, worker
  and loop (`DiskSource` only needs that *some* goroutine of the scan runs), and
  of the one goroutine of a request in `Serving`.
* An API request and the reading of an archive end, because both contexts carry
  timeouts.
* `sync.Mutex` hands itself over to a goroutine that has waited for a
  millisecond, hence strong fairness for the lookup under `cacheLock`.
* GitLab writes `.update` after a deployment.
* `Auth`: a tab follows redirects, its user answers GitLab's question, and every
  request is answered (weak fairness of each tab's `Step`).
* `Daemon`: the operating system runs the parent, the child's start-up and the
  goroutine of `passSignals`. Nothing makes the child end or a signal be sent.
* No fairness for arrivals, cancellations, timeouts of requests, failures, the
  janitor, closing, deployments, or the clock: liveness does not depend on them.

## Proofs

`SharedLimitListenerProofs` holds for every number of slots, listeners,
connections and closing goroutines (all finite). `SlotsAccounted` says that the
channel holds exactly one element per accepting call and per unreleased
connection. It is not inductive by itself: that an `Accept` without a slot
cannot yield a connection needs "`done` implies closed" and "no slot while
accepting implies closed", and that a connection is released once needs "the
release runs in at most one goroutine, while its `Once` is running". `IndInv`
adds these (`ReleaseProtocol`). From it follow `SlotsAlwaysAccounted`,
`LimitHolds` and, step by step, `ImplementsPool`: each action maps to a step of
`SlotPool` or to a stutter. `ReleaseNeverBlocks` is what `ConnCloseReturns` rests
on apart from fairness: whoever receives from the channel to give a slot back is
accounted for in it, so the channel is not empty, and a second `Close` waits in
its `Once` only for a first one that is about to receive.

`DomainCacheProofs` holds for every number of callers, domains and entries,
every timeout and every bound on time (`ConstantsAssumption`; `NoneAssumption`
says that nil is neither a lookup nor an item). Its inductive invariant `IInv`
adds to the properties of the run:

* `References`: store and callers hold created entries of their domain;
* `Refreshes`: a refresh belongs to a resolved entry, holds an entry of the same
  domain, and has its response by the time it stores it;
* `Responses`: what a worker is about to send, and every response, answers for
  the domain of its entry. This needs at least one API request per retrieval,
  an assumption of `AnswersCorrect` only; it cannot be dropped, as the zero
  retries above show;
* `Retrievals`: a retrieval ends with a response, and its deadline lies at most
  `RetrievalTimeout` ahead;
* `Requests`: a worker about to call has made fewer requests than its loop
  counter, and one that has not been started has made none. As a retrieval is
  started once in the life of an entry, the count is never begun again;
* `Outlived`: the item of a domain expires no sooner than `CacheExpiry` after
  the creation of any entry `LoadOrCreate` made for it. With it, "not found"
  under the write lock means that the last such entry is old enough, which is
  `CreatedApart`.

To keep the preservation proofs short, the actions are first summarised by what
one step may do to an entry, a worker, an item and a caller (`EntrySteps`,
`WorkerSteps`, `StoreSteps`, `ClientSteps`); each part of the invariant then
needs only those. `IInv` gives `TypeCorrect`, `AnswersCorrect`, `WaitCorrect`,
`RequestsCorrect`, `CreatedApartCorrect` and, as an action property,
`ReplacementResolved`. `NobodyWaitsInVain` is the part of `ResolveReturns` and
`RefreshEnds` that needs no fairness: whoever is blocked on an entry, a caller or
a refresh, finds it resolved, or its retrieval is running and the goroutine of
that retrieval has not stopped. It adds `Attended` to `IInv`: a goroutine stops
only by handing over its lookup, and a refresh starts the retrieval it waits for.

`RangeReaderProofs` holds for an archive of any size and any number of requests,
deflate readers, reads and seeks. `IInv` adds to the properties of the run:

* `AllPlaced`: each reader is *placed*: its offset is within its range with room
  for the bytes still wanted, an open response is positioned at the offset, and
  nothing is open at the points of the program where nothing may be;
* `Opening`: requests start only after the opener is done, and the cached
  reader exists only while the opener uses it;
* `Owned`: a deflate reader in use names its user as `closer`, is with no other
  request, and is not in the pool.

The argument has two halves. First, every step is a `Move(a)` of one goroutine
(`OpenerMoves`, `RequestMoves`): it keeps the reader of `a` placed, leaves the
readers of the others alone, and changes the gauge by exactly as much as it
changes whether `a` has a request sent or open. `MoveInvariant` shows that any
such step preserves `AllPlaced` and `OpenRequestsCounted`, which is where
cardinalities are counted. Second, `OpeningStep` and `OwnedStep` treat the
protocol around the cached reader and the pool. `Inductive` combines them and
gives `InPlace`, `GaugeExact`, `CachedAlone` and `OneOwner`.

`AuthProofs` holds for any finite number of sites and tabs and any number of
disturbances. Its `IInv` has, beside types:

* `Own(h, session)`: state and token of a session of `h` are of logins at `h`.
  It holds of cookies, and of the sessions of responses under way, which become
  cookies later. Only the auth host proxies logins for others;
* `TabOK`: a tab is at the page it wants or on the way of a login at the host of
  that page (`UrlOK` says what the addresses on this way are), and a code is one
  of the login whose state it comes with;
* `Match(tab, session)`: a session with the state of a tab's login has the page
  the tab wants. It relates every tab to every cookie and to every response, of
  whichever tab: tabs share a session, and a late response may bring back the
  values of an earlier login.

`validateState` then does the rest: equal states mean the same host (`TokensOwn`)
and the same page (`BackToPage`). A new login keeps `Match` only because its
random string is in no cookie, address or response. That such a string is left
is `FreshState`, which counts the ones in use against `StatesAssumption`.

`CalmLoads` (`CalmLoadSucceeds`) needs a second invariant, `CalmOK`, on top of
`IInv`. It says at which stage of its way a load is that nothing interferes
with: at its page, on the way to the auth host, at GitLab, back at the auth
host, or back at the site. At each stage it states what the sessions must hold
for the next handler to send the load on: the site waits for this login
(`Awaited`), the auth host knows the site to send the callback on to
(`Proxying`), and the code is signed for the site once it is on its way there.
The session meant is the one the *next* request will find (`Seen`), which is in
the response while that is under way. There is one lemma per handler. That
whatever earlier logins have left does no harm comes out of the first stage,
which asks nothing of the sessions. `ValuesAssumption` keeps `nil`, an error and
an undecodable cookie apart from the values.

`LoneLoadAdvances` says why a load ends: while one tab is the only one loading,
each step is one of at most `MaxFaults` disturbances or makes a measure smaller
(`Nearer`). The measure is first the set of hosts with
a session that cannot be decoded, each of which costs one redirect to the same
address and is then replaced, and with these equal `Rank`, the requests and
responses still to come. `Hops` counts the redirects from an address by the
session found there: seven from a page with a revoked token, six without one,
then login, GitLab, the callback of the auth host, the callback of the site, and
the page. A callback that was proxied is not proxied again because the auth host
clears the domain first. This covers every handler, and the sessions as earlier
logins have left them. Other tabs are left out because a response to one of them
can replace the session that the load has just stored.

`DaemonProofs` holds for jails with any number of directories and files, any
number of sockets and signals, and whichever calls fail. `IInv` adds to the
properties `MountOrder` (nothing is mounted wherever `removeAll` runs; while the
child is started and runs, the mount is there), `NothingLeft` (a `Dispose` after
a failed `Build` finds nothing, unless a removal has failed) and `ChildGone`. It
gives `PagesStay` and `CleanReturn`. `FdsMatchHolds` follows `updateFds` kind by
kind: `daemonUpdateFds` leaves the files before it where they are and numbers
its own from the first free descriptor on (`KindAdded`), so after five of them
all kinds match (`AllKindsAdded`); afterwards nothing changes the table while
the child is waited for (`NumberedStep`).

`ZipVFSProofs` holds for any number of requests, archive URLs and archives and
any intervals. What makes the properties inductive is:

* `LockHeld` and `HolderKnows`: one request at a time is between its lookup and
  its store, and it finds the cache as it left it, except for what the janitor
  has evicted. Before an `Add` the key is free, which is why
  `errAlreadyCached` is never returned (`NeverAlreadyCachedHolds`);
* `YoungCached`: an archive that is neither corrupted nor older than the
  interval is the one in the cache, with an item that lives as long, or is about
  to be put there. A key that is free, or whose item has expired, hence has no
  such archive, which is `CreatedApart`;
* `References`, `Known`: cache and requests hold created archives of their key;
  what was corrupted when a request arrived still is, and the request does not
  hold it (`CorruptedNotServed`);
* `OffsetsKept`: an offset is kept under the namespace of the archive it was
  measured in, whatever ccache forgets (`OffsetsOfOwnArchive`);
* `Counted`: the gauge, with the archives that were added and not yet counted, is
  at most the number of items with the callbacks still to come, of the janitor
  (`evicted`) and of lookups (`Evicting`). `NotOvercounted` is this without the
  archives not yet counted.

Each step is first summarised as one that only serves a request (`Serves`), one
outside the requests (`Elsewhere`), or one of the lookup; only the lookup and the
janitor need an argument about the cache.

`RootMovesOn` and `RootNeverStuck` are what `RootReturns` rests on apart from
fairness. `Moves` lists the steps of a request: as `Add` finds the key free, none
of them leads back in `Root`. A request waits for `cacheLock` only while another
is between its lookup and its store, and for an archive only once `readArchive`
has started (`Begun`). `Room` shows that the bound on archives of the model never
stops a lookup under way: it counts the lookups that may still create one.

`DiskSourceProofs` holds for any number of workers, groups and sites. Its
`IInv` states the order in which a scan ends (`Phases`: groups handed out,
workers ended, `fanIn` closed, collector ended, `ReadGroups` returned, with the
WaitGroup equal to the number of workers that run), that a group is with one
worker (`GroupsApart`, `OwnGroup`) and that every site is unread, on its way to
the collector, or in the map (`ReadOnce`). From it follow `NoPanicHolds` and,
step by step, `Refinement`: `DiskSource` implements `DiskWatch`, a read of
`DiskWatch` being the moment a worker reads the site, and the handing on from
there a stutter. The map of `DiskWatch` is thus ahead of the collector's by what
is on its way (`ReadSoFar`). `NeverBackwardsHolds` adds `Between`: while no read
has failed, map in use <= what has been read <= disk.

What makes the map catch up is proved in three parts, which leave only fairness
to TLC. `SettledUnlessFailed`: `Watch` is never content with an `.update` it has
scanned for (`Settled`) while the map differs from the disk. Its strengthening
`Current` says that during a scan for the last `.update` what has been read is
what is on the disk; a deployment in the middle of a scan takes `announced` back,
and its announcement is a change of `.update` that `Watch` has not seen.
`SettledByNextDeploy`: the same holds from a deployment after the last failed
read on, whatever the failures have left in the map. `ScanNeverStuck`: during a
scan some goroutine is not blocked on a channel or the wait group.

`PipelineProofs` holds for any number of changes between the handlers.
`NowInForce` says that every question a handler asks is answered by a lookup
path in force since routing; `Checked` carries what the earlier handlers have
found to the handler that serves (HTTPS, access); `Unanswered` and
`Continuation` say that nothing has been answered while a handler is still to
run, and where `checkAuthentication` goes on to. They give `PageAllowedHolds` and
`AnsweredOnceHolds`. The second part of the module is about `Domains`, the
choice of the source in routing, which it extends as well (hence the names
`DomainsInit` and `DomainsSpec`): `StaysOnDiskHolds` rests on `Withdrawn`, that
after a 401 handled with the poll over nothing sets `isReady` again, for any
number of requests in flight. The third part is `NotFoundAlikeHolds`. While
nothing changes (`Quiet`), `Stage` says which handlers a request of someone
without access can have reached, by its path, its session and the root of the
namespace: those that serve a file only for a path of no project below a public
root, those that answer 404 only with a good token, and the page of the namespace
only if that is public. At the end this leaves the answers of `Alike`, which are
the same for a private project and for none.

The assumptions on constants are named in the modules that declare them and are
evaluated by TLC in the runs. Model-checked only are:

* liveness, everywhere: the prover handles neither fairness nor `ENABLED`. Proved
  is what the liveness properties of the limiter, the domain cache, the disk
  source, the zip file system and the login rest on apart from fairness: nobody
  waits for something that nobody is going to do, and nothing goes back or in
  circles. `Daemon` and `Serving` have no such theorem: each is one sequence of
  calls, apart from the child and its signals;
* `AsExpected` of `Serving`: it compares the walk over symbolic links with a
  recursive function, and the prover has no induction over data.

## Abstractions

* Domain names, URLs, groups and archives are model values; a lookup is its
  kind (domain, 204, 401, other error) with the name it carries.
* `ZipVFS` starts after the `Reconfigure` at start-up, which runs once before
  the listeners are served. The signed URL of an archive is not modelled, so
  neither is the unsynchronised `a.resource` that only carries it. `Readlink`
  uses its cache as `Open` does.
* `DiskSource` identifies a site with the configuration read for it; subgroups
  are part of listing a group. A project whose configuration cannot be read is put
  into its group with the defaults (`map.go:95-101`); the model keeps of it that
  its configuration is not known, as of a project that is not there, and no
  property tells the two apart.
* `RangeReader` identifies a byte with its position in the archive. The resource
  may be cut or grow, but its bytes do not change under one URL.
* `Pipeline` has two projects per domain, the root and one below a prefix. What
  a login does is `Auth`, what serving does is `Serving`: here a file is there
  or not.
* `Auth`: a state, code or token also tells the site its login was started at;
  no action looks at this part. Artifacts are private ones. A code that is sent
  twice by reloading a callback is not modelled.
* `Serving`: paths are sequences of names without `.`; outside the root of the
  project only the directories that lead to it exist; the rules of `_redirects`
  are compared without the prefix of the project; `FF_ENABLE_REDIRECTS` is on.
* `RangeReader`: a file is closed once, by the `defer` of whoever opened it; a
  second `Close`, which nothing in the code makes, is not modelled.
* `Daemon`: the configuration fits into the pipe, so that writing it does not
  wait for the child. There is one mount namespace for all calls of the parent,
  which `PagesIntact` rests on: after a successful `Unshare` a mount made on one
  thread need not be seen on another, as the goroutine is not locked to its
  thread, and an `Unmount` that fails there with `EINVAL` says nothing about the
  thread that runs `RemoveAll` afterwards. The properties hold where `Unshare`
  fails, or where all of these calls run on the same thread.
* Gauges are left out except those of the archive cache and of open range
  requests.

## Not modelled

* Configuration: flags are parsed and validated once, before anything runs; the
  values are constants and initial states of the modules.
* Serverless: switched off in `source/gitlab/factory.go`, no lookup leads to it.
* HTTP helpers, logging, CORS and custom headers: they format or copy what
  others have decided, and keep no state.
* The contents of the disk source's map: nested subgroups, the JSON of a project
  and which of two projects that claim one custom domain is kept. The last
  depends on the schedule of the workers, and no comment or test says which it
  should be.
* String building: the URL of an artifact (`BuildURL`), the JWT of an API
  request, the text of the status of `_redirects`, the parsing of its rules.
* The file system for `file:` URLs of the HTTP transport, the wrappers of
  `internal/vfs` that count and log, `Unshare` (see `Daemon` above), and jails on
  systems other than Linux, where `Build` refuses mounts.
