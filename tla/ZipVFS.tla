------------------------------- MODULE ZipVFS -------------------------------
(***************************************************************************)
(* The virtual file system over zip archives in object storage:            *)
(* internal/vfs/zip (zipVFS.Root, zipArchive, lruCache), as it uses        *)
(* internal/httprange and the libraries go-cache and ccache.               *)
(*                                                                         *)
(* Requests look archives up under cacheLock; the first request to open an *)
(* archive starts readArchive in a goroutine of its own; the janitor of    *)
(* go-cache evicts expired items without taking cacheLock. Archives are    *)
(* heap objects numbered in order of creation, as fs.archiveCount does.    *)
(* The storage server may answer any range request with the bytes asked    *)
(* for, with a status that marks the resource (200, 404, 416), or with     *)
(* another error.                                                          *)
(***************************************************************************)
EXTENDS Integers, FiniteSets

CONSTANTS
    Requests,            \* requests that open an archive and one of its files
    Keys,                \* archive URLs without query and fragment
    ExpirationInterval,  \* cacheExpirationInterval
    RefreshInterval,     \* cacheRefreshInterval
    MaxArchives,         \* bound: archives ever created
    MaxTime,             \* bound: last value of the clock
    None                 \* nil

ASSUME ZipAssumption ==
    /\ ExpirationInterval \in Nat
    /\ RefreshInterval \in Nat
    /\ MaxArchives \in Nat
    /\ MaxTime \in Nat
    /\ IsFiniteSet(Requests)
    /\ IsFiniteSet(Keys)
    /\ None \notin 1..MaxArchives
    /\ None \notin Keys
    /\ None \notin Requests

\* nil is no item of the cache.
ASSUME ItemAssumption == None \notin [archive : 1..MaxArchives, expires : Nat]

VARIABLES
    now,             \* the clock
    archiveCount,    \* fs.archiveCount, the archives created so far
    archive,         \* the heap of zipArchives
    cache,           \* fs.cache: the item of each key, None when absent
    cacheLock,       \* the request that holds fs.cacheLock, or None
    dataOffsetCache, \* per namespace, the archive whose file was measured
    request,         \* the requests
    cachedEntries,   \* gauge zip_cached_entries{op="archive"}
    evicted          \* keys whose items the janitor has removed, and for which
                     \* it has still to call OnEvicted

vars == <<now, archiveCount, archive, cache, cacheLock, dataOffsetCache,
          request, cachedEntries, evicted>>

ArchiveIds == 1..MaxArchives

\* An archive is "new" before once.Do, "opening" while NewResource is under way,
\* "reading" while zip.NewReader is, then done is closed and it is "opened", or
\* "error" if a.err was set. Reconfigure leaves the cache empty at startup,
\* before the listeners are served.
Init ==
    /\ now = 0
    /\ archiveCount = 0
    /\ archive = [a \in ArchiveIds |->
            [key |-> None, created |-> 0, state |-> "new",
             resourceErr |-> FALSE]]
    /\ cache = [k \in Keys |-> None]
    /\ cacheLock = None
    /\ dataOffsetCache = [a \in ArchiveIds |-> None]
    /\ request = [r \in Requests |->
            [pc |-> "idle", key |-> None, archive |-> None, known |-> {},
             offset |-> None]]
    /\ cachedEntries = 0
    /\ evicted = {}

Tick ==
    /\ now < MaxTime
    /\ now' = now + 1
    /\ UNCHANGED <<archiveCount, archive, cache, cacheLock, dataOffsetCache,
                   request, cachedEntries, evicted>>

-----------------------------------------------------------------------------
(* zipArchive: its status and its number.                                  *)

\* Slip: the error of the resource is not looked at.
openStatusOfReader(a) ==
    CASE archive[a].state = "error" -> "openError"
      [] archive[a].state = "opened" -> "opened"
      [] OTHER -> "opening"

openStatus(a) ==
    CASE archive[a].state = "error" -> "openError"
      [] archive[a].state = "opened" /\ archive[a].resourceErr -> "corrupted"
      [] archive[a].state = "opened" /\ ~archive[a].resourceErr -> "opened"
      [] OTHER -> "opening"

\* Slip: the archives of one URL share a namespace.
cacheNamespaceOfKey(a) ==
    CHOOSE b \in 1..a : archive[b].key = archive[a].key /\
        \A c \in 1..a : archive[c].key = archive[a].key => b <= c

\* newArchive numbers the archives, and the number is the namespace.
cacheNamespace(a) == a

-----------------------------------------------------------------------------
(* go-cache.                                                               *)

\* GetWithExpiration finds an item until it has expired.
Found(k) == cache[k] # None /\ now <= cache[k].expires

Set(k, a) == [cache EXCEPT ![k] = [archive |-> a,
                                   expires |-> now + ExpirationInterval]]

Remove(keys) == [k \in Keys |-> IF k \in keys THEN None ELSE cache[k]]

\* The janitor, which runs beside the holder of cacheLock. It reads the clock
\* and then takes the mutex of go-cache to remove what had expired by then.
DeleteExpired(t) ==
    LET keys == {k \in Keys : cache[k] # None /\ t > cache[k].expires}
    IN  /\ evicted = {}
        /\ keys # {}
        /\ cache' = Remove(keys)
        /\ evicted' = keys
        /\ UNCHANGED <<now, archiveCount, archive, cacheLock, dataOffsetCache,
                       request, cachedEntries>>

\* The callback of resetCache.
OnEvicted == cachedEntries' = cachedEntries - 1

\* The janitor calls it after it has released the mutex, item by item.
ItemEvicted(k) ==
    /\ k \in evicted
    /\ evicted' = evicted \ {k}
    /\ OnEvicted
    /\ UNCHANGED <<now, archiveCount, archive, cache, cacheLock,
                   dataOffsetCache, request>>

-----------------------------------------------------------------------------
(* zipVFS.Root: findOrCreateArchive under cacheLock, then openArchive.     *)

\* The archives whose resource was found to have changed since it was read.
Corrupted ==
    {a \in 1..archiveCount : archive[a].state = "opened" /\ archive[a].resourceErr}

InLookup ==
    {r \in Requests :
        request[r].pc \in {"lock", "refresh", "delete", "evict", "add"}}

\* A request arrives. It is admitted while the bound on archives leaves room
\* for the one it may create.
Root(r, k) ==
    /\ request[r].pc \in {"idle", "done", "failed"}
    /\ archiveCount + Cardinality(InLookup) < MaxArchives
    /\ request' = [request EXCEPT ![r] =
            [pc |-> "lock", key |-> k, archive |-> None,
             known |-> Corrupted, offset |-> None]]
    /\ UNCHANGED <<now, archiveCount, archive, cache, cacheLock,
                   dataOffsetCache, cachedEntries, evicted>>

\* Slip: an archive that failed to open is replaced at once.
HitOrRetry(k) ==
    LET a == cache[k].archive
    IN  CASE openStatus(a) \in {"corrupted", "openError"} -> "delete"
          [] openStatus(a) = "opened"
             /\ cache[k].expires - now < RefreshInterval -> "refresh"
          [] OTHER -> "open"

\* What the lookup does with an archive it finds, by its status.
Hit(k) ==
    LET a == cache[k].archive
    IN  CASE openStatus(a) = "corrupted" -> "delete"
          [] openStatus(a) = "opened"
             /\ cache[k].expires - now < RefreshInterval -> "refresh"
          [] OTHER -> "open"

\* cacheLock.Lock() and GetWithExpiration. A hit that has nothing to store
\* releases the lock.
FindArchive(r) ==
    LET k == request[r].key
        next == IF Found(k) THEN Hit(k) ELSE "delete"
    IN  /\ request[r].pc = "lock"
        /\ cacheLock = None
        /\ cacheLock' = IF next = "open" THEN None ELSE r
        /\ request' = [request EXCEPT ![r].pc = next,
                ![r].archive = IF next = "delete" THEN None
                                                  ELSE cache[k].archive]
        /\ UNCHANGED <<now, archiveCount, archive, cache, dataOffsetCache,
                       cachedEntries, evicted>>

\* Slip: the refresh returns without releasing cacheLock.
RefreshArchiveLocked(r) ==
    /\ request[r].pc = "refresh"
    /\ cache' = Set(request[r].key, request[r].archive)
    /\ request' = [request EXCEPT ![r].pc = "open"]
    /\ UNCHANGED <<now, archiveCount, archive, cacheLock, dataOffsetCache,
                   cachedEntries, evicted>>

\* fs.cache.SetDefault(key, archive)
RefreshArchive(r) ==
    /\ request[r].pc = "refresh"
    /\ cache' = Set(request[r].key, request[r].archive)
    /\ cacheLock' = None
    /\ request' = [request EXCEPT ![r].pc = "open"]
    /\ UNCHANGED <<now, archiveCount, archive, dataOffsetCache, cachedEntries,
                   evicted>>

\* Slip: an expired item is left for Add to overwrite.
DeleteArchiveNever(r) ==
    LET new == archiveCount + 1
    IN  /\ request[r].pc = "delete"
        /\ new \in ArchiveIds
        /\ archiveCount' = new
        /\ archive' = [archive EXCEPT ![new].key = request[r].key,
                                      ![new].created = now]
        /\ request' = [request EXCEPT ![r].pc = "add", ![r].archive = new]
        /\ UNCHANGED <<now, cache, cacheLock, dataOffsetCache, cachedEntries,
                       evicted>>

\* newArchive, and fs.cache.Delete(key) for an expired or corrupted item ...
DeleteArchive(r) ==
    LET k == request[r].key
        new == archiveCount + 1
    IN  /\ request[r].pc = "delete"
        /\ new \in ArchiveIds
        /\ archiveCount' = new
        /\ archive' = [archive EXCEPT ![new].key = k, ![new].created = now]
        /\ cache' = Remove({k})
        /\ request' = [request EXCEPT ![r].archive = new,
                ![r].pc = IF cache[k] # None THEN "evict" ELSE "add"]
        /\ UNCHANGED <<now, cacheLock, dataOffsetCache, cachedEntries, evicted>>

\* ... which calls OnEvicted when the mutex of go-cache has been released.
ArchiveEvicted(r) ==
    /\ request[r].pc = "evict"
    /\ OnEvicted
    /\ request' = [request EXCEPT ![r].pc = "add"]
    /\ UNCHANGED <<now, archiveCount, archive, cache, cacheLock,
                   dataOffsetCache, evicted>>

\* fs.cache.Add fails on an item that has not expired: errAlreadyCached, and
\* Root starts again.
AddArchive(r) ==
    LET k == request[r].key
        added == ~Found(k)
    IN  /\ request[r].pc = "add"
        /\ cache' = IF added THEN Set(k, request[r].archive) ELSE cache
        /\ cacheLock' = IF added THEN cacheLock ELSE None
        /\ request' = [request EXCEPT
                ![r].pc = IF added THEN "count" ELSE "lock"]
        /\ UNCHANGED <<now, archiveCount, archive, dataOffsetCache,
                       cachedEntries, evicted>>

\* The new archive is counted; cacheLock.Unlock().
CountArchive(r) ==
    /\ request[r].pc = "count"
    /\ cachedEntries' = cachedEntries + 1
    /\ cacheLock' = None
    /\ request' = [request EXCEPT ![r].pc = "open"]
    /\ UNCHANGED <<now, archiveCount, archive, cache, dataOffsetCache, evicted>>

Opened(r) == request' = [request EXCEPT ![r].pc = "root"]

Failed(r) == request' = [request EXCEPT ![r].pc = "failed",
                                        ![r].archive = None]

\* openArchive: return early unless the archive is still opening; the first
\* caller starts readArchive.
OpenArchive(r) ==
    LET a == request[r].archive
    IN  /\ request[r].pc = "open"
        /\ \/ openStatus(a) = "opened" /\ Opened(r) /\ UNCHANGED archive
           \/ /\ openStatus(a) \in {"openError", "corrupted"}
              /\ Failed(r)
              /\ UNCHANGED archive
           \/ /\ openStatus(a) = "opening"
              /\ archive' = [archive EXCEPT ![a].state =
                                IF @ = "new" THEN "opening" ELSE @]
              /\ request' = [request EXCEPT ![r].pc = "waiting"]
        /\ UNCHANGED <<now, archiveCount, cache, cacheLock, dataOffsetCache,
                       cachedEntries, evicted>>

\* case <-a.done: return a.err
ArchiveDone(r) ==
    LET a == request[r].archive
    IN  /\ request[r].pc = "waiting"
        /\ \/ archive[a].state = "opened" /\ Opened(r)
           \/ archive[a].state = "error" /\ Failed(r)
        /\ UNCHANGED <<now, archiveCount, archive, cache, cacheLock,
                       dataOffsetCache, cachedEntries, evicted>>

\* case <-ctx.Done(): the request was cancelled, or openTimeout has passed.
ContextDone(r) ==
    /\ request[r].pc = "waiting"
    /\ Failed(r)
    /\ UNCHANGED <<now, archiveCount, archive, cache, cacheLock,
                   dataOffsetCache, cachedEntries, evicted>>

-----------------------------------------------------------------------------
(* zipArchive.readArchive: the resource, then the directory of the archive.*)

NewResource(a) ==
    /\ archive[a].state = "opening"
    /\ \E s \in {"reading", "error"} :
            archive' = [archive EXCEPT ![a].state = s]
    /\ UNCHANGED <<now, archiveCount, cache, cacheLock, dataOffsetCache,
                   request, cachedEntries, evicted>>

\* A status that marks the resource also makes NewReader fail.
NewReader(a) ==
    /\ archive[a].state = "reading"
    /\ \/ archive' = [archive EXCEPT ![a].state = "opened"]
       \/ \E marked \in BOOLEAN :
            archive' = [archive EXCEPT ![a].state = "error",
                                       ![a].resourceErr = marked]
    /\ UNCHANGED <<now, archiveCount, cache, cacheLock, dataOffsetCache,
                   request, cachedEntries, evicted>>

-----------------------------------------------------------------------------
(* zipArchive.Open and the reads of the file it returns.                   *)

\* The outcome of a range request: the bytes, an answer that makes setResponse
\* mark the resource, or another error.
RangeRequest(r) ==
    LET a == request[r].archive
    IN  \/ Failed(r) /\ UNCHANGED archive
        \/ Failed(r) /\ archive' = [archive EXCEPT ![a].resourceErr = TRUE]

\* findFile, then the lookup of findOrFetch.
Open(r) ==
    LET cached == dataOffsetCache[cacheNamespace(request[r].archive)]
    IN  /\ request[r].pc = "root"
        /\ \/ Failed(r)
           \/ /\ cached # None
              /\ request' = [request EXCEPT ![r].pc = "read",
                                            ![r].offset = cached]
           \/ cached = None /\ request' = [request EXCEPT ![r].pc = "fetch"]
        /\ UNCHANGED <<now, archiveCount, archive, cache, cacheLock,
                       dataOffsetCache, cachedEntries, evicted>>

\* The fetch of findOrFetch, file.DataOffset(), and c.cache.Set.
DataOffset(r) ==
    LET a == request[r].archive
    IN  /\ request[r].pc = "fetch"
        /\ \/ /\ dataOffsetCache' =
                    [dataOffsetCache EXCEPT ![cacheNamespace(a)] = a]
              /\ request' = [request EXCEPT ![r].pc = "read", ![r].offset = a]
              /\ UNCHANGED archive
           \/ RangeRequest(r) /\ UNCHANGED dataOffsetCache
        /\ UNCHANGED <<now, archiveCount, cache, cacheLock, cachedEntries,
                       evicted>>

\* Reading the section of the archive the file is in.
ReadFile(r) ==
    /\ request[r].pc = "read"
    /\ \/ request' = [request EXCEPT ![r].pc = "done"] /\ UNCHANGED archive
       \/ RangeRequest(r)
    /\ UNCHANGED <<now, archiveCount, cache, cacheLock, dataOffsetCache,
                   cachedEntries, evicted>>

\* ccache drops an item when it is full or when the item has expired.
Prune(a) ==
    /\ dataOffsetCache[a] # None
    /\ dataOffsetCache' = [dataOffsetCache EXCEPT ![a] = None]
    /\ UNCHANGED <<now, archiveCount, archive, cache, cacheLock, request,
                   cachedEntries, evicted>>

-----------------------------------------------------------------------------
Lookup(r) ==
    \/ FindArchive(r)
    \/ RefreshArchive(r)
    \/ DeleteArchive(r)
    \/ ArchiveEvicted(r)
    \/ AddArchive(r)
    \/ CountArchive(r)

Serve(r) ==
    \/ OpenArchive(r)
    \/ ArchiveDone(r)
    \/ Open(r)
    \/ DataOffset(r)
    \/ ReadFile(r)

Next ==
    \/ Tick
    \/ \E t \in 0..now : DeleteExpired(t)
    \/ \E k \in Keys : ItemEvicted(k)
    \/ \E r \in Requests, k \in Keys : Root(r, k)
    \/ \E r \in Requests : Lookup(r) \/ Serve(r) \/ ContextDone(r)
    \/ \E a \in ArchiveIds : NewResource(a) \/ NewReader(a) \/ Prune(a)

Spec == Init /\ [][Next]_vars

\* sync.Mutex hands itself over to a goroutine that has waited for it, hence
\* strong fairness of a lookup. readArchive ends: its context has a timeout.
\* Nothing makes requests arrive or be cancelled, or the janitor run.
Fairness ==
    /\ \A r \in Requests : SF_vars(Lookup(r)) /\ WF_vars(Serve(r))
    /\ \A a \in ArchiveIds : WF_vars(NewResource(a)) /\ WF_vars(NewReader(a))

FairSpec == Spec /\ Fairness

-----------------------------------------------------------------------------
(* Properties.                                                             *)

\* Two archives of one key are created only when the first had been marked
\* corrupted or is older than ExpirationInterval: requests that miss together
\* share one archive, and an archive that failed to open stays in the cache
\* for the whole interval (the "negative cache" of findOrCreateArchive).
CreatedApart ==
    \A a, b \in 1..archiveCount :
        a < b /\ archive[a].key = archive[b].key =>
            \/ a \in Corrupted
            \/ archive[b].created > archive[a].created + ExpirationInterval

\* A file is read at an offset measured in the same archive, even when a
\* newer archive of the same URL has taken the place of an older one whose
\* offsets are still in dataOffsetCache: cacheNamespace keeps them apart.
OffsetsOfOwnArchive ==
    \A r \in Requests :
        request[r].pc = "read" => request[r].offset = request[r].archive

\* "we should invalidate it immediately": a request that arrives after an
\* archive was found corrupted is not given that archive.
CorruptedNotServed ==
    \A r \in Requests :
        request[r].pc \in {"root", "fetch", "read", "done"} =>
            request[r].archive \notin request[r].known

\* Every call of Root returns, whoever holds cacheLock and whatever the
\* storage server answers.
RootReturns ==
    \A r \in Requests :
        request[r].pc \in {"lock", "refresh", "delete", "evict", "add", "count",
                          "open", "waiting"}
            ~> request[r].pc \in {"root", "failed"}

CachedKeys == {k \in Keys : cache[k] # None}

\* The items that are no longer in the cache and for which OnEvicted has still
\* to be called, by the janitor or by a lookup.
ToBeEvicted ==
    Cardinality(evicted)
        + Cardinality({r \in Requests : request[r].pc = "evict"})

\* zip_cached_entries{op="archive"} never exceeds the number of archives in
\* the cache by more than the callbacks that are still to come, also in the
\* middle of a lookup or of a run of the janitor: an item that has expired is
\* "properly evicted" before another takes its place, which go-cache does not
\* do by itself.
NotOvercounted == cachedEntries <= Cardinality(CachedKeys) + ToBeEvicted

=============================================================================
