---------------------------- MODULE ZipVFSProofs ----------------------------
(***************************************************************************)
(* The invariants of ZipVFS for any number of requests, archive URLs and   *)
(* archives, and any lifetime of the items in the cache; and why a call of *)
(* Root goes on.                                                           *)
(***************************************************************************)
EXTENDS ZipVFS, FiniteSetTheorems, TLAPS

Archives == [key : Keys \cup {None}, created : Nat,
             state : {"new", "opening", "reading", "opened", "error"},
             resourceErr : BOOLEAN]
Items == [archive : ArchiveIds, expires : Nat]
RequestStates ==
    [pc : {"idle", "lock", "refresh", "delete", "evict", "add", "count", "open",
           "waiting", "root", "fetch", "read", "done", "failed"},
     key : Keys \cup {None}, archive : ArchiveIds \cup {None},
     known : SUBSET ArchiveIds, offset : ArchiveIds \cup {None}]

TypeOK ==
    /\ now \in Nat
    /\ archiveCount \in 0..MaxArchives
    /\ archive \in [ArchiveIds -> Archives]
    /\ cache \in [Keys -> Items \cup {None}]
    /\ cacheLock \in Requests \cup {None}
    /\ dataOffsetCache \in [ArchiveIds -> ArchiveIds \cup {None}]
    /\ request \in [Requests -> RequestStates]
    /\ cachedEntries \in Int
    /\ evicted \in SUBSET Keys

\* cacheLock is held from the lookup to what the lookup has to store.
Locked == {"refresh", "delete", "evict", "add", "count"}
LockHeld == \A r \in Requests : request[r].pc \in Locked <=> cacheLock = r

\* Where a request has an archive.
Holding == {"refresh", "evict", "add", "count", "open", "waiting", "root",
            "fetch", "read", "done"}

\* Cache and requests hold archives that have been created, of the key they
\* are held for, and no archive was created in the future.
References ==
    /\ \A k \in Keys : cache[k] # None =>
            /\ cache[k].archive \in 1..archiveCount
            /\ archive[cache[k].archive].key = k
    /\ \A r \in Requests : request[r].pc # "idle" => request[r].key \in Keys
    /\ \A r \in Requests : request[r].pc \in Holding =>
            /\ request[r].archive \in 1..archiveCount
            /\ archive[request[r].archive].key = request[r].key
    /\ \A a \in 1..archiveCount : archive[a].created <= now

\* What a request knew to be corrupted still is, and it never holds one of
\* these archives.
Known ==
    \A r \in Requests :
        /\ request[r].known \subseteq Corrupted
        /\ request[r].pc \in Holding => request[r].archive \notin request[r].known

\* A lookup has created the archive and not yet put it into the cache.
Adds(r, a) == request[r].pc \in {"evict", "add"} /\ request[r].archive = a

Old(a) == now > archive[a].created + ExpirationInterval

\* An archive that is neither corrupted nor old is the one in the cache, for
\* as long as it is young, or is about to be put there.
YoungCached ==
    \A a \in 1..archiveCount :
        \/ a \in Corrupted
        \/ Old(a)
        \/ /\ archive[a].key \in Keys
           /\ cache[archive[a].key] # None
           /\ cache[archive[a].key].archive = a
           /\ cache[archive[a].key].expires >=
                    archive[a].created + ExpirationInterval
        \/ \E r \in Requests : Adds(r, a)

\* The holder of cacheLock finds the cache as it has left it, but for items
\* the janitor has evicted.
HolderKnows ==
    \A r \in Requests :
        LET k == request[r].key
        IN  /\ request[r].pc = "refresh" =>
                    cache[k] = None \/ cache[k].archive = request[r].archive
            /\ request[r].pc \in {"evict", "add"} => cache[k] = None
            /\ request[r].pc = "delete" => \A a \in 1..archiveCount :
                    archive[a].key = k => a \in Corrupted \/ Old(a)

\* An offset in dataOffsetCache was measured in the archive it is kept for.
OffsetsKept ==
    \A a \in ArchiveIds : dataOffsetCache[a] # None => dataOffsetCache[a] = a

\* Lookups that have removed an item and have still to call OnEvicted, and
\* lookups that have added one and have still to count it.
Evicting == {r \in Requests : request[r].pc = "evict"}
Counting == {r \in Requests : request[r].pc = "count"}

\* The gauge with what is still to be counted never exceeds the number of items
\* with those whose callback is still to come.
Counted ==
    cachedEntries + Cardinality(Counting)
        <= Cardinality(CachedKeys) + Cardinality(evicted) + Cardinality(Evicting)

IInv ==
    /\ TypeOK /\ LockHeld /\ References /\ Known
    /\ YoungCached /\ HolderKnows /\ CreatedApart
    /\ OffsetsKept /\ OffsetsOfOwnArchive
    /\ Counted

-----------------------------------------------------------------------------
(* What a step may do.                                                     *)

\* Archives are only added, keep their key and time of creation, and a
\* corrupted one stays corrupted.
ArchivesKept ==
    /\ now' \in Nat /\ now <= now'
    /\ archiveCount' \in 0..MaxArchives /\ archiveCount <= archiveCount'
    /\ archive' \in [ArchiveIds -> Archives]
    /\ \A a \in 1..archiveCount :
            /\ archive'[a].key = archive[a].key
            /\ archive'[a].created = archive[a].created
    /\ Corrupted \subseteq Corrupted'

\* A request that has left the lookup goes on with its archive, or fails.
Serves(r) ==
    /\ UNCHANGED <<now, archiveCount, cache, cacheLock>>
    /\ ArchivesKept
    /\ request' \in [Requests -> RequestStates]
    /\ \A q \in Requests \ {r} : request'[q] = request[q]
    /\ request[r].pc \in {"open", "waiting", "root", "fetch", "read"}
    /\ request'[r].key = request[r].key
    /\ request'[r].known = request[r].known
    /\ \/ request'[r].pc = "failed"
       \/ /\ request'[r].pc \in {"waiting", "root", "fetch", "read", "done"}
          /\ request'[r].archive = request[r].archive

\* A step outside the requests that leaves the cache of archives alone.
Elsewhere ==
    /\ UNCHANGED <<archiveCount, cache, cacheLock, request>>
    /\ ArchivesKept

\* A change of the state of one archive that is not opened.
LEMMA Reopened ==
    ASSUME TypeOK, NEW a \in ArchiveIds,
           NEW s \in {"new", "opening", "reading", "opened", "error"},
           NEW e \in BOOLEAN, archive[a].state # "opened",
           archive' = [archive EXCEPT ![a].state = s, ![a].resourceErr = e],
           now' = now, archiveCount' = archiveCount
    PROVE  ArchivesKept
  <1>1. archive \in [ArchiveIds -> Archives] /\ archiveCount \in 0..MaxArchives
        /\ now \in Nat /\ MaxArchives \in Nat
    BY ZipAssumption DEF TypeOK
  <1>2. archive' \in [ArchiveIds -> Archives]
    <2>1. [archive[a] EXCEPT !.state = s, !.resourceErr = e] \in Archives
      BY Zenon, <1>1 DEF Archives
    <2>2. archive' = [archive EXCEPT ![a] =
                            [archive[a] EXCEPT !.state = s, !.resourceErr = e]]
      BY Zenon, <1>1
    <2> QED
      BY <1>1, <2>1, <2>2
  <1>3. \A b \in ArchiveIds :
            /\ archive'[b].key = archive[b].key
            /\ archive'[b].created = archive[b].created
            /\ b # a => archive'[b] = archive[b]
    BY <1>1 DEF Archives
  <1>4. 1..archiveCount \subseteq ArchiveIds
    BY <1>1 DEF ArchiveIds
  <1>5. Corrupted \subseteq Corrupted'
    BY Zenon, <1>3, <1>4 DEF Corrupted
  <1> QED
    BY <1>1, <1>2, <1>3, <1>4, <1>5 DEF ArchivesKept

\* An archive whose resource is marked.
LEMMA Marked ==
    ASSUME TypeOK, NEW a \in ArchiveIds,
           archive' = [archive EXCEPT ![a].resourceErr = TRUE],
           now' = now, archiveCount' = archiveCount
    PROVE  ArchivesKept
  <1>1. archive \in [ArchiveIds -> Archives] /\ archiveCount \in 0..MaxArchives
        /\ now \in Nat /\ MaxArchives \in Nat
    BY ZipAssumption DEF TypeOK
  <1>2. archive' \in [ArchiveIds -> Archives]
    BY Zenon, <1>1 DEF Archives
  <1>3. \A b \in ArchiveIds :
            /\ archive'[b].key = archive[b].key
            /\ archive'[b].created = archive[b].created
            /\ archive'[b].state = archive[b].state
            /\ archive[b].resourceErr => archive'[b].resourceErr
    BY <1>1 DEF Archives
  <1>4. 1..archiveCount \subseteq ArchiveIds
    BY <1>1 DEF ArchiveIds
  <1>5. Corrupted \subseteq Corrupted'
    BY <1>3, <1>4 DEF Corrupted
  <1> QED
    BY <1>1, <1>2, <1>3, <1>4, <1>5 DEF ArchivesKept

\* No archive changes.
LEMMA Untouched ==
    ASSUME TypeOK, archive' = archive, archiveCount' = archiveCount,
           now' \in {now, now + 1}
    PROVE  ArchivesKept
  <1>1. now \in Nat /\ archiveCount \in 0..MaxArchives /\ MaxArchives \in Nat
    BY ZipAssumption DEF TypeOK
  <1>2. now' \in Nat /\ now <= now' /\ archiveCount <= archiveCount'
    BY <1>1
  <1> QED
    BY <1>1, <1>2 DEF ArchivesKept, Corrupted, TypeOK

\* The clock, readArchive and ccache.
LEMMA ElsewhereSteps ==
    ASSUME TypeOK,
           Tick \/ \E a \in ArchiveIds : NewResource(a) \/ NewReader(a) \/ Prune(a)
    PROVE  Elsewhere
  <1>1. CASE Tick
    BY <1>1, Untouched DEF Tick, Elsewhere
  <1>2. ASSUME NEW a \in ArchiveIds, NewResource(a) PROVE Elsewhere
    <2>1. PICK s \in {"reading", "error"} :
                archive' = [archive EXCEPT ![a].state = s]
      BY Zenon, <1>2 DEF NewResource
    <2>2. archive[a] \in Archives /\ archive[a].state = "opening"
      BY <1>2 DEF NewResource, TypeOK
    <2>3. PICK e : e = archive[a].resourceErr
      OBVIOUS
    <2>4. e \in BOOLEAN
      BY <2>2, <2>3 DEF Archives
    <2>5. archive' = [archive EXCEPT ![a].state = s, ![a].resourceErr = e]
      BY Zenon, <2>1, <2>2, <2>3 DEF TypeOK, Archives
    <2>6. ArchivesKept
      BY Zenon, <1>2, <2>2, <2>4, <2>5, Reopened DEF NewResource
    <2> QED
      BY <1>2, <2>6 DEF NewResource, Elsewhere
  <1>3. ASSUME NEW a \in ArchiveIds, NewReader(a) PROVE Elsewhere
    <2>1. archive[a] \in Archives /\ archive[a].state = "reading"
      BY <1>3 DEF NewReader, TypeOK
    <2>2. PICK e : e = archive[a].resourceErr
      OBVIOUS
    <2>3. e \in BOOLEAN
      BY <2>1, <2>2 DEF Archives
    <2>4. CASE archive' = [archive EXCEPT ![a].state = "opened"]
      <3>1. archive' = [archive EXCEPT ![a].state = "opened", ![a].resourceErr = e]
        BY Zenon, <2>1, <2>2, <2>4 DEF TypeOK, Archives
      <3> QED
        BY Zenon, <1>3, <2>1, <2>3, <3>1, Reopened DEF NewReader, Elsewhere
    <2>5. ASSUME NEW m \in BOOLEAN,
                 archive' = [archive EXCEPT ![a].state = "error",
                                            ![a].resourceErr = m]
          PROVE  Elsewhere
      BY Zenon, <1>3, <2>1, <2>5, Reopened DEF NewReader, Elsewhere
    <2> QED
      BY <1>3, <2>4, <2>5 DEF NewReader
  <1>4. ASSUME NEW a \in ArchiveIds, Prune(a) PROVE Elsewhere
    BY <1>4, Untouched DEF Prune, Elsewhere
  <1> QED
    BY <1>1, <1>2, <1>3, <1>4

\* The archive a request holds has been created.
LEMMA HeldArchive ==
    ASSUME TypeOK, References, NEW r \in Requests, request[r].pc \in Holding
    PROVE  request[r].archive \in 1..archiveCount /\ request[r].archive \in ArchiveIds
  <1>1. archiveCount \in 0..MaxArchives /\ MaxArchives \in Nat
    BY ZipAssumption DEF TypeOK
  <1> QED
    BY <1>1 DEF References, ArchiveIds

\* What a request does with its archive, as far as the request is concerned.
LEMMA Goes ==
    ASSUME TypeOK, NEW r \in Requests,
           \/ \E to \in {"waiting", "root", "fetch", "done"} :
                    request' = [request EXCEPT ![r].pc = to]
           \/ \E o \in ArchiveIds :
                    request' = [request EXCEPT ![r].pc = "read", ![r].offset = o]
           \/ Failed(r)
    PROVE  /\ request' \in [Requests -> RequestStates]
           /\ \A q \in Requests \ {r} : request'[q] = request[q]
           /\ request'[r].key = request[r].key
           /\ request'[r].known = request[r].known
           /\ \/ request'[r].pc = "failed"
              \/ /\ request'[r].pc \in {"waiting", "root", "fetch", "read", "done"}
                 /\ request'[r].archive = request[r].archive
  <1>1. request \in [Requests -> RequestStates] /\ request[r] \in RequestStates
    BY DEF TypeOK
  <1>2. ASSUME NEW to \in {"waiting", "root", "fetch", "done"},
               request' = [request EXCEPT ![r].pc = to]
        PROVE  /\ request' \in [Requests -> RequestStates]
               /\ \A q \in Requests \ {r} : request'[q] = request[q]
               /\ request'[r].key = request[r].key
               /\ request'[r].known = request[r].known
               /\ request'[r].pc = to
               /\ request'[r].archive = request[r].archive
    BY Zenon, <1>1, <1>2 DEF RequestStates
  <1>3. ASSUME NEW o \in ArchiveIds,
               request' = [request EXCEPT ![r].pc = "read", ![r].offset = o]
        PROVE  /\ request' \in [Requests -> RequestStates]
               /\ \A q \in Requests \ {r} : request'[q] = request[q]
               /\ request'[r].key = request[r].key
               /\ request'[r].known = request[r].known
               /\ request'[r].pc = "read"
               /\ request'[r].archive = request[r].archive
    BY Zenon, <1>1, <1>3 DEF RequestStates
  <1>4. ASSUME Failed(r)
        PROVE  /\ request' \in [Requests -> RequestStates]
               /\ \A q \in Requests \ {r} : request'[q] = request[q]
               /\ request'[r].key = request[r].key
               /\ request'[r].known = request[r].known
               /\ request'[r].pc = "failed"
    BY Zenon, <1>1, <1>4 DEF RequestStates, Failed
  <1> QED
    BY <1>2, <1>3, <1>4

\* openStatus, by the state of the archive.
LEMMA Status ==
    ASSUME NEW a, archive[a] \in Archives
    PROVE  /\ openStatus(a) \in {"openError", "corrupted", "opened", "opening"}
           /\ openStatus(a) = "corrupted" <=>
                archive[a].state = "opened" /\ archive[a].resourceErr
           /\ openStatus(a) = "opening" <=>
                archive[a].state \notin {"opened", "error"}
  <1>1. CASE archive[a].state = "error"
    BY <1>1 DEF openStatus
  <1>2. CASE archive[a].state = "opened" /\ archive[a].resourceErr
    BY <1>2 DEF openStatus, Archives
  <1>3. CASE archive[a].state = "opened" /\ ~archive[a].resourceErr
    BY <1>3 DEF openStatus
  <1>4. CASE archive[a].state \notin {"opened", "error"}
    BY <1>4 DEF openStatus
  <1> QED
    BY <1>1, <1>2, <1>3, <1>4

\* openArchive, Open and the reads.
LEMMA ServeSteps ==
    ASSUME TypeOK, References, OffsetsKept, NEW r \in Requests,
           Serve(r) \/ ContextDone(r)
    PROVE  Serves(r)
  <1> DEFINE a == request[r].archive
  <1>1. ASSUME request[r].pc \in {"open", "waiting", "root", "fetch", "read"}
        PROVE  a \in ArchiveIds /\ archive[a] \in Archives
    BY <1>1, HeldArchive DEF Holding, TypeOK
  <1> HIDE DEF a
  <1>2. CASE OpenArchive(r)
    <2>1. request[r].pc = "open" /\ UNCHANGED <<now, archiveCount, cache,
                cacheLock>>
      BY <1>2 DEF OpenArchive
    <2>2. /\ ArchivesKept
          /\ Failed(r) \/ \E to \in {"waiting", "root", "fetch", "done"} :
                    request' = [request EXCEPT ![r].pc = to]
      <3>1. CASE UNCHANGED archive /\ (Opened(r) \/ Failed(r))
        BY <2>1, <3>1, Untouched DEF Opened
      <3>2. CASE /\ openStatus(a) = "opening"
                 /\ archive' = [archive EXCEPT ![a].state =
                                    IF @ = "new" THEN "opening" ELSE @]
                 /\ request' = [request EXCEPT ![r].pc = "waiting"]
        <4>1. archive[a] \in Archives /\ a \in ArchiveIds
          BY <1>1, <2>1
        <4>2. PICK s, e : /\ e = archive[a].resourceErr
                          /\ s = IF archive[a].state = "new" THEN "opening"
                                                      ELSE archive[a].state
          OBVIOUS
        <4>3. /\ s \in {"new", "opening", "reading", "opened", "error"}
              /\ e \in BOOLEAN
          BY <4>1, <4>2 DEF Archives
        <4>4. archive' = [archive EXCEPT ![a].state = s, ![a].resourceErr = e]
          BY Zenon, <3>2, <4>1, <4>2 DEF TypeOK, Archives
        <4>5. archive[a].state # "opened"
          BY <3>2, <4>1, Status
        <4> QED
          BY Zenon, <2>1, <3>2, <4>1, <4>3, <4>4, <4>5, Reopened
      <3> QED
        BY <1>2, <3>1, <3>2 DEF OpenArchive, a
    <2> QED
      BY Zenon, <2>1, <2>2, Goes DEF Serves
  <1>3. CASE ArchiveDone(r) \/ ContextDone(r)
    <2>1. /\ request[r].pc = "waiting" /\ UNCHANGED <<now, archiveCount, cache,
                cacheLock, archive>>
          /\ Opened(r) \/ Failed(r)
      BY <1>3 DEF ArchiveDone, ContextDone
    <2> QED
      BY Zenon, <2>1, Goes, Untouched DEF Serves, Opened
  <1>4. CASE Open(r)
    <2>1. request[r].pc = "root" /\ UNCHANGED <<now, archiveCount, cache,
                cacheLock, archive>>
      BY <1>4 DEF Open
    <2>2. dataOffsetCache[a] \in ArchiveIds \cup {None}
      BY <1>1, <2>1 DEF TypeOK
    <2>3. \/ Failed(r)
          \/ \E o \in ArchiveIds :
                    request' = [request EXCEPT ![r].pc = "read", ![r].offset = o]
          \/ request' = [request EXCEPT ![r].pc = "fetch"]
      BY <1>4, <2>2 DEF Open, cacheNamespace, a
    <2> QED
      BY <2>1, <2>3, Goes, Untouched DEF Serves
  <1>5. CASE DataOffset(r) \/ ReadFile(r)
    <2>1. request[r].pc \in {"fetch", "read"} /\ UNCHANGED <<now, archiveCount,
                cache, cacheLock>>
      BY <1>5 DEF DataOffset, ReadFile
    <2>2. a \in ArchiveIds
      BY <1>1, <2>1
    <2>3. /\ \/ archive' = archive
             \/ archive' = [archive EXCEPT ![a].resourceErr = TRUE]
          /\ \/ Failed(r)
             \/ request' = [request EXCEPT ![r].pc = "read", ![r].offset = a]
             \/ request' = [request EXCEPT ![r].pc = "done"]
      BY <1>5 DEF DataOffset, ReadFile, RangeRequest, a
    <2>4. ArchivesKept
      BY <2>1, <2>2, <2>3, Untouched, Marked
    <2> QED
      BY <2>1, <2>2, <2>3, <2>4, Goes DEF Serves
  <1> QED
    BY <1>2, <1>3, <1>4, <1>5 DEF Serve

-----------------------------------------------------------------------------
(* Each step keeps the inductive invariant, but for the gauge and the      *)
(* offsets, which are taken apart below.                                   *)

\* The part of the invariant that is about archives, cache and requests.
Shared ==
    /\ TypeOK /\ LockHeld /\ References /\ Known
    /\ YoungCached /\ HolderKnows /\ CreatedApart

\* The same but for the types of dataOffsetCache and of the gauge.
SharedNext ==
    /\ now' \in Nat
    /\ archiveCount' \in 0..MaxArchives
    /\ archive' \in [ArchiveIds -> Archives]
    /\ cache' \in [Keys -> Items \cup {None}]
    /\ cacheLock' \in Requests \cup {None}
    /\ request' \in [Requests -> RequestStates]
    /\ LockHeld' /\ References' /\ Known'
    /\ YoungCached' /\ HolderKnows' /\ CreatedApart'

\* Requests stay as they are or go on with their archives.
Continues(q) ==
    \/ request'[q] = request[q]
    \/ /\ request[q].pc \in {"open", "waiting", "root", "fetch", "read"}
       /\ request'[q].key = request[q].key
       /\ request'[q].known = request[q].known
       /\ \/ request'[q].pc = "failed"
          \/ /\ request'[q].pc \in {"waiting", "root", "fetch", "read", "done"}
             /\ request'[q].archive = request[q].archive

\* Every step but those of a lookup and of the janitor.
LEMMA BesideStep ==
    ASSUME Shared, UNCHANGED <<archiveCount, cache, cacheLock>>,
           ArchivesKept, request' \in [Requests -> RequestStates],
           \A q \in Requests : Continues(q)
    PROVE  SharedNext
  <1>1. /\ TypeOK /\ now \in Nat /\ now' \in Nat /\ now <= now'
        /\ ExpirationInterval \in Nat
        /\ archiveCount' = archiveCount /\ cache' = cache /\ cacheLock' = cacheLock
        /\ 1..archiveCount \subseteq ArchiveIds
    BY ZipAssumption DEF Shared, ArchivesKept, TypeOK, ArchiveIds
  <1>2. \A a \in 1..archiveCount :
            /\ archive'[a].key = archive[a].key
            /\ archive'[a].created = archive[a].created
            /\ archive[a].created \in Nat
            /\ a \in Corrupted => a \in Corrupted'
    BY <1>1 DEF ArchivesKept, TypeOK, Archives
  <1>3. \A a \in 1..archiveCount : Old(a) => Old(a)'
    BY <1>1, <1>2 DEF Old
  <1>4. \A q \in Requests :
            /\ request[q].pc \in Locked \/ request'[q].pc \in Locked =>
                    request'[q] = request[q]
            /\ request'[q].known = request[q].known
            /\ request'[q].pc # "idle" =>
                    request[q].pc # "idle" /\ request'[q].key = request[q].key
            /\ request'[q].pc \in Holding =>
                    /\ request[q].pc \in Holding
                    /\ request'[q].archive = request[q].archive
                    /\ request'[q].key = request[q].key
    BY DEF Continues, Locked, Holding
  <1>5. LockHeld'
    BY <1>1, <1>4 DEF Shared, LockHeld
  <1>6. References'
    <2>1. \A k \in Keys : cache[k] # None =>
            /\ cache'[k].archive \in 1..archiveCount'
            /\ archive'[cache'[k].archive].key = k
      BY <1>1, <1>2 DEF Shared, References
    <2>2. \A r \in Requests : request'[r].pc # "idle" => request'[r].key \in Keys
      BY <1>4 DEF Shared, References
    <2>3. \A r \in Requests : request'[r].pc \in Holding =>
            /\ request'[r].archive \in 1..archiveCount'
            /\ archive'[request'[r].archive].key = request'[r].key
      BY <1>1, <1>2, <1>4 DEF Shared, References
    <2>4. \A a \in 1..archiveCount' : archive'[a].created <= now'
      BY <1>1, <1>2 DEF Shared, References
    <2> QED
      BY <1>1, <2>1, <2>2, <2>3, <2>4 DEF References
  <1>7. Known'
    BY <1>4 DEF Shared, Known, ArchivesKept
  <1>8. YoungCached'
    <2>1. ASSUME NEW a \in 1..archiveCount, NEW r \in Requests,
                 Adds(r, a)
          PROVE  Adds(r, a)'
      BY <1>4, <2>1 DEF Locked, Adds
    <2> QED
      BY <1>1, <1>2, <1>3, <2>1 DEF Shared, YoungCached
  <1>9. HolderKnows'
    <2>1. \A r \in Requests :
            request'[r].pc \in {"refresh", "evict", "add", "delete"} =>
                request'[r] = request[r]
      BY <1>4 DEF Locked
    <2> QED
      BY <1>1, <1>2, <1>3, <2>1 DEF Shared, HolderKnows
  <1>10. CreatedApart'
    BY <1>1, <1>2 DEF Shared, CreatedApart
  <1> QED
    BY <1>5, <1>6, <1>7, <1>8, <1>9, <1>10
    DEF SharedNext, Shared, TypeOK, ArchivesKept

\* Steps that change neither the archives nor the clock.
LEMMA Still ==
    ASSUME Shared, UNCHANGED <<now, archiveCount, archive>>
    PROVE  /\ Corrupted' = Corrupted
           /\ \A a \in 1..archiveCount : Old(a)' <=> Old(a)
           /\ CreatedApart'
    BY DEF Shared, CreatedApart, Corrupted, Old

\* Two requests are never both in the locked part of their lookups.
LEMMA OneHolder ==
    ASSUME LockHeld, NEW r \in Requests, NEW q \in Requests,
           request[r].pc \in Locked, request[q].pc \in Locked
    PROVE  q = r
    BY DEF LockHeld

\* Removing items leaves the others as they are.
LEMMA Removed ==
    ASSUME TypeOK, NEW keys \in SUBSET Keys, cache' = Remove(keys)
    PROVE  /\ cache' \in [Keys -> Items \cup {None}]
           /\ \A k \in keys : cache'[k] = None
           /\ \A k \in Keys \ keys : cache'[k] = cache[k]
    BY DEF TypeOK, Remove

\* The item that is stored lives for one interval.
LEMMA Stored ==
    ASSUME TypeOK, NEW k \in Keys, NEW a \in ArchiveIds, cache' = Set(k, a)
    PROVE  /\ cache' \in [Keys -> Items \cup {None}]
           /\ cache'[k] # None
           /\ cache'[k].archive = a
           /\ cache'[k].expires = now + ExpirationInterval
           /\ \A j \in Keys \ {k} : cache'[j] = cache[j]
  <1> DEFINE item == [archive |-> a, expires |-> now + ExpirationInterval]
  <1>1. item \in Items /\ item # None
    BY ZipAssumption, ItemAssumption DEF TypeOK, Items, ArchiveIds
  <1>2. /\ cache' = [cache EXCEPT ![k] = item]
        /\ cache \in [Keys -> Items \cup {None}]
    BY DEF Set, TypeOK
  <1>3. item.archive = a /\ item.expires = now + ExpirationInterval
    OBVIOUS
  <1> HIDE DEF item
  <1> QED
    BY <1>1, <1>2, <1>3

\* The janitor of go-cache, which does not wait for cacheLock.
LEMMA JanitorStep ==
    ASSUME Shared, NEW t \in 0..now, DeleteExpired(t)
    PROVE  SharedNext
  <1> DEFINE keys == {k \in Keys : cache[k] # None /\ t > cache[k].expires}
  <1>1. /\ UNCHANGED <<now, archiveCount, archive, cacheLock, request>>
        /\ cache' = Remove(keys) /\ TypeOK
    BY DEF DeleteExpired, Shared
  <1>2. /\ cache' \in [Keys -> Items \cup {None}]
        /\ \A k \in Keys : cache'[k] = None \/ cache'[k] = cache[k]
        /\ \A k \in Keys : cache'[k] # cache[k] => t > cache[k].expires
    <2>1. keys \in SUBSET Keys
      OBVIOUS
    <2> QED
      BY <1>1, <2>1, Removed
  <1>3. /\ Corrupted' = Corrupted
        /\ \A a \in 1..archiveCount : Old(a)' <=> Old(a)
        /\ CreatedApart'
    BY <1>1, Still
  <1>4. LockHeld' /\ Known'
    BY <1>1, <1>3 DEF Shared, LockHeld, Known
  <1>5. References'
    BY <1>1, <1>2 DEF Shared, References
  <1>6. YoungCached'
    <2>0. \A r \in Requests, a \in 1..archiveCount : Adds(r, a)' <=> Adds(r, a)
      BY <1>1 DEF Adds
    <2> SUFFICES ASSUME NEW a \in 1..archiveCount, a \notin Corrupted, ~Old(a),
                        ~\E r \in Requests : Adds(r, a)
                 PROVE  /\ archive[a].key \in Keys
                        /\ cache'[archive[a].key] # None
                        /\ cache'[archive[a].key].archive = a
                        /\ cache'[archive[a].key].expires >=
                                archive[a].created + ExpirationInterval
      BY <1>1, <1>3, <2>0 DEF YoungCached
    <2>1. /\ archive[a].key \in Keys
          /\ cache[archive[a].key] # None
          /\ cache[archive[a].key].archive = a
          /\ cache[archive[a].key].expires >= archive[a].created + ExpirationInterval
      BY DEF Shared, YoungCached
    <2>2. cache'[archive[a].key] = cache[archive[a].key]
      <3>1. a \in ArchiveIds /\ archive[a].created \in Nat /\ now \in Nat
            /\ ExpirationInterval \in Nat /\ cache[archive[a].key].expires \in Nat
        BY <1>1, <2>1, ZipAssumption DEF TypeOK, ArchiveIds, Archives, Items
      <3>2. ~(t > cache[archive[a].key].expires)
        BY <2>1, <3>1 DEF Old
      <3> QED
        BY <1>2, <2>1, <3>2
    <2> QED
      BY <2>1, <2>2
  <1>7. HolderKnows'
    <2>1. \A r \in Requests : request[r].pc # "idle" => request[r].key \in Keys
      BY DEF Shared, References
    <2> QED
      BY <1>1, <1>2, <1>3, <2>1 DEF Shared, HolderKnows
  <1> QED
    BY <1>1, <1>2, <1>3, <1>4, <1>5, <1>6, <1>7 DEF SharedNext, TypeOK

\* A request arrives: it knows the archives that are corrupted by now.
LEMMA RootStep ==
    ASSUME Shared, NEW r \in Requests, NEW k \in Keys, Root(r, k)
    PROVE  SharedNext
  <1>1. /\ UNCHANGED <<now, archiveCount, archive, cache, cacheLock>>
        /\ request[r].pc \in {"idle", "done", "failed"} /\ TypeOK
    BY DEF Root, Shared
  <1>2. Corrupted \subseteq ArchiveIds
    BY <1>1, ZipAssumption DEF Corrupted, TypeOK, ArchiveIds
  <1>3. /\ request' \in [Requests -> RequestStates]
        /\ request'[r].pc = "lock" /\ request'[r].key = k
        /\ request'[r].known = Corrupted
        /\ \A q \in Requests \ {r} : request'[q] = request[q]
    BY <1>1, <1>2 DEF Root, TypeOK, RequestStates
  <1>4. /\ Corrupted' = Corrupted
        /\ \A a \in 1..archiveCount : Old(a)' <=> Old(a)
        /\ CreatedApart'
    BY <1>1, Still
  <1>5. LockHeld'
    BY <1>1, <1>3 DEF Shared, LockHeld, Locked
  <1>6. References'
    BY <1>1, <1>3 DEF Shared, References, Holding
  <1>7. Known'
    BY <1>3, <1>4 DEF Shared, Known, Holding
  <1>8. YoungCached'
    <2>1. \A q \in Requests, a \in 1..archiveCount : Adds(q, a) => Adds(q, a)'
      BY <1>1, <1>3 DEF Adds
    <2> QED
      BY <1>1, <1>4, <2>1 DEF Shared, YoungCached
  <1>9. HolderKnows'
    <2>1. \A q \in Requests : request'[q].pc \in Locked => request'[q] = request[q]
      BY <1>3 DEF Locked
    <2> QED
      BY <1>1, <1>4, <2>1 DEF Shared, HolderKnows, Locked
  <1> QED
    BY <1>1, <1>3, <1>4, <1>5, <1>6, <1>7, <1>8, <1>9 DEF SharedNext, TypeOK

\* What a lookup finds: an archive that is not corrupted, or nothing young.
LEMMA Looked ==
    ASSUME Shared, NEW k \in Keys
    PROVE  /\ Found(k) /\ Hit(k) # "delete" =>
                /\ Hit(k) \in {"refresh", "open"}
                /\ cache[k].archive \in 1..archiveCount
                /\ cache[k].archive \notin Corrupted
           /\ ~Found(k) \/ Hit(k) = "delete" =>
                \A a \in 1..archiveCount :
                    /\ archive[a].key = k
                    /\ ~\E q \in Requests : Adds(q, a)
                    => a \in Corrupted \/ Old(a)
  <1>1. TypeOK /\ 1..archiveCount \subseteq ArchiveIds
    BY ZipAssumption DEF Shared, TypeOK, ArchiveIds
  <1>2. cache[k] # None => /\ cache[k].archive \in 1..archiveCount
                           /\ archive[cache[k].archive] \in Archives
                           /\ cache[k].expires \in Nat
    BY <1>1 DEF Shared, References, TypeOK, Items
  <1>3. Hit(k) \in {"delete", "refresh", "open"}
    BY DEF Hit
  <1>4. ASSUME cache[k] # None
        PROVE  Hit(k) = "delete" <=> cache[k].archive \in Corrupted
    <2> DEFINE a == cache[k].archive
    <2>1. openStatus(a) = "corrupted" <=> a \in Corrupted
      BY <1>2, <1>4, Status DEF Corrupted
    <2>2. Hit(k) = "delete" <=> openStatus(a) = "corrupted"
      <3>1. CASE openStatus(a) = "corrupted"
        BY <3>1 DEF Hit
      <3>2. CASE openStatus(a) # "corrupted"
        BY <3>2 DEF Hit
      <3> QED
        BY <3>1, <3>2
    <2> QED
      BY <2>1, <2>2
  <1>5. ASSUME ~Found(k) \/ Hit(k) = "delete", NEW a \in 1..archiveCount,
               archive[a].key = k, a \notin Corrupted,
               ~\E q \in Requests : Adds(q, a)
        PROVE  Old(a)
    <2>1. ASSUME ~Old(a) PROVE FALSE
      <3>1. cache[k] # None /\ cache[k].archive = a
            /\ cache[k].expires >= archive[a].created + ExpirationInterval
        BY <1>5, <2>1 DEF Shared, YoungCached
      <3>2. ~Found(k)
        BY <1>4, <1>5, <3>1
      <3>3. now \in Nat /\ archive[a].created \in Nat /\ ExpirationInterval \in Nat
        BY <1>1, ZipAssumption DEF TypeOK, Archives
      <3> QED
        BY <1>2, <2>1, <3>1, <3>2, <3>3 DEF Found, Old
    <2> QED
      BY <2>1
  <1> QED
    BY <1>2, <1>3, <1>4, <1>5 DEF Found

\* The lookup, which takes cacheLock and keeps it unless it has nothing to
\* store.
LEMMA FindStep ==
    ASSUME Shared, NEW r \in Requests, FindArchive(r)
    PROVE  SharedNext
  <1> DEFINE k == request[r].key
             next == IF Found(k) THEN Hit(k) ELSE "delete"
  <1>1. /\ UNCHANGED <<now, archiveCount, archive, cache>>
        /\ request[r].pc = "lock" /\ cacheLock = None
        /\ cacheLock' = IF next = "open" THEN None ELSE r
        /\ request' = [request EXCEPT ![r].pc = next,
                ![r].archive = IF next = "delete" THEN None ELSE cache[k].archive]
        /\ TypeOK /\ k \in Keys
    BY DEF FindArchive, Shared, References
  <1>2. 1..archiveCount \subseteq ArchiveIds
    BY <1>1, ZipAssumption DEF TypeOK, ArchiveIds
  <1>3. next # "delete" => /\ next \in {"refresh", "open"}
                           /\ cache[k] # None
                           /\ cache[k].archive \in 1..archiveCount
                           /\ cache[k].archive \notin Corrupted
    BY <1>1, Looked DEF Found
  <1>4. \A q \in Requests : request[q].pc \notin Locked
    BY <1>1, ZipAssumption DEF Shared, LockHeld
  <1>5. next = "delete" => \A a \in 1..archiveCount :
                archive[a].key = k => a \in Corrupted \/ Old(a)
    BY <1>1, <1>4, Looked DEF Locked, Adds
  <1>6. next = "delete" \/ (next \in {"refresh", "open"}
                            /\ cache[k].archive \in ArchiveIds)
    BY <1>2, <1>3
  <1> HIDE DEF next
  <1>7. request[r] \in RequestStates /\ request \in [Requests -> RequestStates]
    BY <1>1 DEF TypeOK
  <1>8. /\ request' \in [Requests -> RequestStates]
        /\ request'[r].pc = next /\ request'[r].key = k
        /\ request'[r].known = request[r].known
        /\ next # "delete" => request'[r].archive = cache[k].archive
        /\ \A q \in Requests \ {r} : request'[q] = request[q]
    BY Zenon, <1>1, <1>6, <1>7 DEF RequestStates
  <1>9. /\ Corrupted' = Corrupted
        /\ \A a \in 1..archiveCount : Old(a)' <=> Old(a)
        /\ CreatedApart'
    BY <1>1, Still
  <1>10. LockHeld'
    <2>1. r # None
      BY ZipAssumption
    <2> QED
      BY <1>1, <1>4, <1>6, <1>8, <2>1, ZipAssumption DEF LockHeld, Locked
  <1>11. References'
    <2>1. \A q \in Requests : request'[q].pc # "idle" => request'[q].key \in Keys
      BY <1>1, <1>8 DEF Shared, References
    <2>2. \A q \in Requests : request'[q].pc \in Holding =>
            /\ request'[q].archive \in 1..archiveCount
            /\ archive[request'[q].archive].key = request'[q].key
      BY <1>1, <1>3, <1>8 DEF Shared, References, Holding
    <2> QED
      BY Zenon, <1>1, <2>1, <2>2 DEF Shared, References
  <1>12. Known'
    BY <1>3, <1>8, <1>9 DEF Shared, Known, Holding
  <1>13. YoungCached'
    <2>1. \A q \in Requests, a \in 1..archiveCount : ~Adds(q, a)
      BY <1>4 DEF Locked, Adds
    <2> QED
      BY <1>1, <1>9, <2>1 DEF Shared, YoungCached
  <1>14. HolderKnows'
    <2>1. \A q \in Requests \ {r} : request'[q].pc \notin Locked
      BY <1>4, <1>8
    <2>2. next \notin {"evict", "add"}
      BY <1>6
    <2> QED
      BY <1>1, <1>5, <1>8, <1>9, <2>1, <2>2 DEF HolderKnows, Locked
  <1>15. cacheLock' \in Requests \cup {None}
    BY <1>1
  <1> QED
    BY <1>1, <1>8, <1>9, <1>10, <1>11, <1>12, <1>13, <1>14, <1>15
    DEF SharedNext, TypeOK

\* What a lookup stores is the archive it holds, in the place of no other.
LEMMA StoreStep ==
    ASSUME Shared, NEW r \in Requests, NEW to \in {"open", "count"},
           UNCHANGED <<now, archiveCount, archive>>,
           cache' = Set(request[r].key, request[r].archive),
           request' = [request EXCEPT ![r].pc = to],
           \/ request[r].pc = "refresh" /\ to = "open" /\ cacheLock' = None
           \/ request[r].pc = "add" /\ to = "count" /\ cacheLock' = cacheLock
    PROVE  SharedNext
  <1> DEFINE k == request[r].key
             a == request[r].archive
  <1>1. /\ TypeOK /\ request[r] \in RequestStates
        /\ request \in [Requests -> RequestStates]
        /\ k \in Keys /\ a \in 1..archiveCount /\ archive[a].key = k
        /\ 1..archiveCount \subseteq ArchiveIds
    BY ZipAssumption DEF Shared, References, Holding, TypeOK, ArchiveIds
  <1>2. /\ cache' \in [Keys -> Items \cup {None}]
        /\ cache'[k] # None
        /\ cache'[k].archive = a
        /\ cache'[k].expires = now + ExpirationInterval
        /\ \A j \in Keys \ {k} : cache'[j] = cache[j]
    BY <1>1, Stored DEF Shared
  <1>3. /\ request' \in [Requests -> RequestStates]
        /\ request'[r].pc = to /\ request'[r].key = k
        /\ request'[r].known = request[r].known
        /\ request'[r].archive = a
        /\ \A q \in Requests \ {r} : request'[q] = request[q]
    BY <1>1 DEF RequestStates
  <1>4. /\ Corrupted' = Corrupted
        /\ \A b \in 1..archiveCount : Old(b)' <=> Old(b)
        /\ CreatedApart'
    BY Still
  <1>5. /\ \A q \in Requests \ {r} : request[q].pc \notin Locked
        /\ cacheLock = r /\ cacheLock' \in Requests \cup {None}
    BY OneHolder DEF Shared, Locked, LockHeld
  <1>6. cache[k] = None \/ cache[k].archive = a
    BY DEF Shared, HolderKnows
  <1> HIDE DEF k, a
  <1>7. LockHeld'
    <2>1. CASE to = "open" /\ cacheLock' = None
      BY <1>3, <1>5, <2>1, ZipAssumption DEF LockHeld, Locked
    <2>2. CASE to = "count" /\ cacheLock' = cacheLock
      BY <1>3, <1>5, <2>2 DEF LockHeld, Locked
    <2> QED
      BY <2>1, <2>2
  <1>8. References'
    <2>1. \A j \in Keys : cache'[j] # None =>
            /\ cache'[j].archive \in 1..archiveCount
            /\ archive[cache'[j].archive].key = j
      BY <1>1, <1>2 DEF Shared, References
    <2>2. \A q \in Requests : request'[q].pc # "idle" => request'[q].key \in Keys
      BY <1>1, <1>3 DEF Shared, References
    <2>3. \A q \in Requests : request'[q].pc \in Holding =>
            /\ request'[q].archive \in 1..archiveCount
            /\ archive[request'[q].archive].key = request'[q].key
      BY <1>1, <1>3 DEF Shared, References
    <2> QED
      BY <2>1, <2>2, <2>3 DEF Shared, References
  <1>9. Known'
    <2>1. a \notin request[r].known
      BY DEF Shared, Known, Holding, a
    <2> QED
      BY <1>3, <1>4, <2>1 DEF Shared, Known
  <1>10. YoungCached'
    <2> SUFFICES ASSUME NEW b \in 1..archiveCount, b \notin Corrupted, ~Old(b)
                 PROVE  /\ archive[b].key \in Keys
                        /\ cache'[archive[b].key] # None
                        /\ cache'[archive[b].key].archive = b
                        /\ cache'[archive[b].key].expires >=
                                archive[b].created + ExpirationInterval
      BY <1>4 DEF YoungCached
    <2>1. CASE b = a
      <3>1. archive[b].created <= now /\ archive[b].created \in Nat /\ now \in Nat
            /\ ExpirationInterval \in Nat
        BY <1>1, ZipAssumption DEF Shared, References, TypeOK, Archives
      <3> QED
        BY <1>1, <1>2, <2>1, <3>1
    <2>2. CASE b # a
      <3>1. ~\E q \in Requests : Adds(q, b)
        BY <1>5, <2>2 DEF Locked, Adds, a
      <3>2. /\ archive[b].key \in Keys
            /\ cache[archive[b].key] # None
            /\ cache[archive[b].key].archive = b
            /\ cache[archive[b].key].expires >= archive[b].created + ExpirationInterval
        BY <3>1 DEF Shared, YoungCached
      <3> QED
        BY <1>2, <1>6, <2>2, <3>2
    <2> QED
      BY <2>1, <2>2
  <1>11. HolderKnows'
    BY <1>3, <1>5 DEF HolderKnows, Locked
  <1> QED
    BY <1>1, <1>2, <1>3, <1>4, <1>5, <1>7, <1>8, <1>9, <1>10, <1>11
    DEF SharedNext, TypeOK

\* A new archive, of a key of which there is nothing young.
LEMMA DeleteStep ==
    ASSUME Shared, NEW r \in Requests, DeleteArchive(r)
    PROVE  SharedNext
  <1> DEFINE k == request[r].key
             new == archiveCount + 1
             to == IF cache[k] # None THEN "evict" ELSE "add"
  <1>1. /\ UNCHANGED <<now, cacheLock>>
        /\ request[r].pc = "delete" /\ new \in ArchiveIds
        /\ archiveCount' = new
        /\ archive' = [archive EXCEPT ![new].key = k, ![new].created = now]
        /\ request' = [request EXCEPT ![r].archive = new, ![r].pc = to]
        /\ TypeOK /\ k \in Keys /\ cache' = Remove({k})
    BY DEF DeleteArchive, Shared, References
  <1>2. /\ archiveCount \in 0..MaxArchives /\ MaxArchives \in Nat /\ now \in Nat
        /\ ExpirationInterval \in Nat
        /\ archive \in [ArchiveIds -> Archives]
        /\ request \in [Requests -> RequestStates]
    BY <1>1, ZipAssumption DEF TypeOK
  <1>3. /\ new \notin 1..archiveCount /\ 1..archiveCount \subseteq ArchiveIds
        /\ 1..archiveCount' = 1..archiveCount \cup {new}
        /\ archiveCount' \in 0..MaxArchives
        /\ \A a \in 1..archiveCount : ~(new < a)
    BY <1>1, <1>2 DEF ArchiveIds
  <1>4. /\ cache' \in [Keys -> Items \cup {None}]
        /\ cache'[k] = None
        /\ \A j \in Keys \ {k} : cache'[j] = cache[j]
    BY <1>1, Removed
  <1>0. to \in {"evict", "add"}
    OBVIOUS
  <1> HIDE DEF k, new, to
  <1>5. /\ archive' \in [ArchiveIds -> Archives]
        /\ archive'[new].key = k /\ archive'[new].created = now
        /\ \A a \in 1..archiveCount : archive'[a] = archive[a]
    <2> DEFINE made == [archive[new] EXCEPT !.key = k, !.created = now]
    <2>1. made \in Archives /\ made.key = k /\ made.created = now
      BY Zenon, <1>1, <1>2 DEF Archives
    <2>2. archive' = [archive EXCEPT ![new] = made]
      BY Zenon, <1>1, <1>2
    <2>3. new \in ArchiveIds
      BY <1>1
    <2> HIDE DEF made
    <2> QED
      BY <1>2, <1>3, <2>1, <2>2, <2>3
  <1>6. /\ request' \in [Requests -> RequestStates]
        /\ request'[r].pc = to /\ request'[r].key = k
        /\ request'[r].known = request[r].known
        /\ request'[r].archive = new
        /\ \A q \in Requests \ {r} : request'[q] = request[q]
    <2> DEFINE goes == [request[r] EXCEPT !.archive = new, !.pc = to]
    <2>1. /\ goes \in RequestStates /\ goes.pc = to /\ goes.archive = new
          /\ goes.key = k /\ goes.known = request[r].known
      BY Zenon, <1>0, <1>1, <1>2 DEF RequestStates, k
    <2>2. request' = [request EXCEPT ![r] = goes]
      BY Zenon, <1>1, <1>2
    <2> HIDE DEF goes
    <2> QED
      BY <1>2, <2>1, <2>2
  <1>7. /\ Corrupted \subseteq Corrupted'
        /\ \A a \in 1..archiveCount : (Old(a)' <=> Old(a)) /\ archive[a].created \in Nat
    BY <1>1, <1>2, <1>3, <1>5 DEF Corrupted, Old, Archives
  <1>8. \A q \in Requests \ {r} : request[q].pc \notin Locked
    BY <1>1, OneHolder DEF Shared, Locked
  <1>9. \A a \in 1..archiveCount : archive[a].key = k => a \in Corrupted \/ Old(a)
    BY <1>1 DEF Shared, HolderKnows, k
  <1>10. LockHeld'
    BY <1>0, <1>1, <1>6 DEF Shared, LockHeld, Locked
  <1>11. References'
    <2>1. \A j \in Keys : cache'[j] # None =>
            /\ cache'[j].archive \in 1..archiveCount'
            /\ archive'[cache'[j].archive].key = j
      BY <1>3, <1>4, <1>5 DEF Shared, References
    <2>2. \A q \in Requests : request'[q].pc # "idle" => request'[q].key \in Keys
      BY <1>1, <1>6 DEF Shared, References
    <2>3. \A q \in Requests : request'[q].pc \in Holding =>
            /\ request'[q].archive \in 1..archiveCount'
            /\ archive'[request'[q].archive].key = request'[q].key
      BY <1>3, <1>5, <1>6 DEF Shared, References
    <2>4. \A a \in 1..archiveCount' : archive'[a].created <= now'
      BY <1>1, <1>2, <1>3, <1>5 DEF Shared, References
    <2> QED
      BY <2>1, <2>2, <2>3, <2>4 DEF References
  <1>12. Known'
    <2>1. new \notin request[r].known
      BY <1>3 DEF Shared, Known, Corrupted
    <2> QED
      BY <1>6, <1>7, <2>1 DEF Shared, Known
  <1>13. YoungCached'
    <2> SUFFICES ASSUME NEW a \in 1..archiveCount, a \notin Corrupted, ~Old(a)
                 PROVE  /\ archive[a].key \in Keys
                        /\ cache'[archive[a].key] # None
                        /\ cache'[archive[a].key].archive = a
                        /\ cache'[archive[a].key].expires >=
                                archive[a].created + ExpirationInterval
      BY <1>0, <1>3, <1>5, <1>6, <1>7 DEF YoungCached, Adds
    <2>1. ~\E q \in Requests : Adds(q, a)
      BY <1>1, <1>8 DEF Locked, Adds
    <2>2. /\ archive[a].key \in Keys
          /\ cache[archive[a].key] # None
          /\ cache[archive[a].key].archive = a
          /\ cache[archive[a].key].expires >= archive[a].created + ExpirationInterval
      BY <2>1 DEF Shared, YoungCached
    <2> QED
      BY <1>4, <1>9, <2>2
  <1>14. HolderKnows'
    BY <1>0, <1>4, <1>6, <1>8 DEF HolderKnows, Locked
  <1>15. CreatedApart'
    <2> SUFFICES ASSUME NEW a \in 1..archiveCount', NEW b \in 1..archiveCount',
                        a < b, archive'[a].key = archive'[b].key, a \notin Corrupted
                 PROVE  archive'[b].created > archive'[a].created + ExpirationInterval
      BY <1>7 DEF CreatedApart
    <2>1. a \in 1..archiveCount
      BY <1>2, <1>3 DEF new
    <2>2. CASE b = new
      BY <1>5, <1>9, <2>1, <2>2 DEF Old
    <2>3. CASE b \in 1..archiveCount
      BY <1>5, <2>1, <2>3 DEF Shared, CreatedApart
    <2> QED
      BY <1>3, <2>2, <2>3
  <1> QED
    BY <1>1, <1>2, <1>3, <1>4, <1>5, <1>6, <1>10, <1>11, <1>12, <1>13, <1>14, <1>15
    DEF SharedNext, TypeOK

\* The callback of Delete, and the counting of what was added.
LEMMA CallbackStep ==
    ASSUME Shared, NEW r \in Requests, NEW to \in {"add", "open"},
           UNCHANGED <<now, archiveCount, archive, cache>>,
           request' = [request EXCEPT ![r].pc = to],
           \/ request[r].pc = "evict" /\ to = "add" /\ cacheLock' = cacheLock
           \/ request[r].pc = "count" /\ to = "open" /\ cacheLock' = None
    PROVE  SharedNext
  <1>1. /\ TypeOK /\ request[r] \in RequestStates
        /\ request \in [Requests -> RequestStates]
    BY DEF Shared, TypeOK
  <1>2. /\ request' \in [Requests -> RequestStates]
        /\ request'[r].pc = to /\ request'[r].key = request[r].key
        /\ request'[r].known = request[r].known
        /\ request'[r].archive = request[r].archive
        /\ \A q \in Requests \ {r} : request'[q] = request[q]
    BY <1>1 DEF RequestStates
  <1>3. /\ Corrupted' = Corrupted
        /\ \A a \in 1..archiveCount : Old(a)' <=> Old(a)
        /\ CreatedApart'
    BY Still
  <1>4. /\ \A q \in Requests \ {r} : request[q].pc \notin Locked
        /\ cacheLock = r /\ cacheLock' \in Requests \cup {None}
    BY OneHolder DEF Shared, Locked, LockHeld
  <1>5. LockHeld'
    <2>1. CASE to = "open" /\ cacheLock' = None
      BY <1>2, <1>4, <2>1, ZipAssumption DEF LockHeld, Locked
    <2>2. CASE to = "add" /\ cacheLock' = cacheLock
      BY <1>2, <1>4, <2>2 DEF LockHeld, Locked
    <2> QED
      BY <2>1, <2>2
  <1>6. \A q \in Requests :
            /\ request'[q].key = request[q].key
            /\ request'[q].known = request[q].known
            /\ request'[q].archive = request[q].archive
            /\ request'[q].pc # "idle" => request[q].pc # "idle"
            /\ request'[q].pc \in Holding => request[q].pc \in Holding
    BY <1>2 DEF Holding
  <1>7. References'
    BY <1>6 DEF Shared, References
  <1>8. Known'
    BY <1>3, <1>6 DEF Shared, Known
  <1>9. YoungCached'
    <2>1. \A q \in Requests, a \in 1..archiveCount : Adds(q, a) => Adds(q, a)'
      BY <1>2 DEF Adds
    <2> QED
      BY <1>3, <2>1 DEF Shared, YoungCached
  <1>10. HolderKnows'
    <2>1. \A q \in Requests :
            /\ request'[q].pc \in {"refresh", "delete"} => request'[q] = request[q]
            /\ request'[q].pc \in {"evict", "add"} =>
                    request[q].pc \in {"evict", "add"}
      BY <1>2
    <2> QED
      BY <1>3, <1>6, <2>1 DEF Shared, HolderKnows
  <1> QED
    BY <1>1, <1>2, <1>3, <1>4, <1>5, <1>7, <1>8, <1>9, <1>10 DEF SharedNext, TypeOK

\* What a request does with the lookup.
LEMMA LookupStep ==
    ASSUME Shared, NEW r \in Requests, Lookup(r)
    PROVE  SharedNext
  <1>1. CASE FindArchive(r)
    BY <1>1, FindStep
  <1>2. CASE RefreshArchive(r)
    BY Zenon, <1>2, StoreStep DEF RefreshArchive
  <1>3. CASE DeleteArchive(r)
    BY <1>3, DeleteStep
  <1>4. CASE AddArchive(r)
    <2>1. request[r].pc = "add" /\ ~Found(request[r].key)
      BY <1>4 DEF AddArchive, Shared, HolderKnows, Found
    <2> QED
      BY Zenon, <1>4, <2>1, StoreStep DEF AddArchive
  <1>5. CASE ArchiveEvicted(r) \/ CountArchive(r)
    BY Zenon, <1>5, CallbackStep DEF ArchiveEvicted, CountArchive
  <1> QED
    BY <1>1, <1>2, <1>3, <1>4, <1>5 DEF Lookup

-----------------------------------------------------------------------------
(* The offsets.                                                            *)

OffsetsNext ==
    /\ dataOffsetCache' \in [ArchiveIds -> ArchiveIds \cup {None}]
    /\ OffsetsKept' /\ OffsetsOfOwnArchive'

\* A step that leaves dataOffsetCache alone, and after which the one request
\* that may have moved does not read, or reads at the offset of its archive.
LEMMA NoNewOffset ==
    ASSUME TypeOK, OffsetsKept, OffsetsOfOwnArchive, NEW r \in Requests,
           dataOffsetCache' = dataOffsetCache,
           \A q \in Requests \ {r} : request'[q] = request[q],
           request'[r].pc = "read" => request'[r].offset = request'[r].archive
    PROVE  OffsetsNext
    BY DEF OffsetsNext, OffsetsKept, OffsetsOfOwnArchive, TypeOK

\* Offsets are measured by DataOffset, forgotten by ccache, and used by Open.
LEMMA OffsetsStep ==
    ASSUME TypeOK, References, OffsetsKept, OffsetsOfOwnArchive, [Next]_vars
    PROVE  OffsetsNext
  <1>1. /\ request \in [Requests -> RequestStates]
        /\ dataOffsetCache \in [ArchiveIds -> ArchiveIds \cup {None}]
    BY DEF TypeOK
  <1>2. CASE UNCHANGED <<request, dataOffsetCache>>
    BY <1>1, <1>2 DEF OffsetsNext, OffsetsKept, OffsetsOfOwnArchive
  <1>3. ASSUME NEW a \in ArchiveIds, Prune(a) PROVE OffsetsNext
    <2>1. request' = request
          /\ dataOffsetCache' = [dataOffsetCache EXCEPT ![a] = None]
      BY <1>3 DEF Prune
    <2> QED
      BY <1>1, <2>1 DEF OffsetsNext, OffsetsKept, OffsetsOfOwnArchive
  <1>4. ASSUME NEW r \in Requests, NEW k \in Keys, Root(r, k) PROVE OffsetsNext
    <2>1. /\ dataOffsetCache' = dataOffsetCache /\ request'[r].pc = "lock"
          /\ \A q \in Requests \ {r} : request'[q] = request[q]
      BY <1>1, <1>4 DEF Root
    <2> QED
      BY <2>1, NoNewOffset
  <1>5. ASSUME NEW r \in Requests, Lookup(r) PROVE OffsetsNext
    <2> DEFINE to == request'[r].pc
    <2>1. CASE FindArchive(r)
      <3>1. PICK pc \in {"open", "refresh", "delete"} : \E b :
                request' = [request EXCEPT ![r].pc = pc, ![r].archive = b]
        BY Zenon, <2>1 DEF FindArchive, Hit
      <3>2. to # "read" /\ \A q \in Requests \ {r} : request'[q] = request[q]
        BY <1>1, <3>1 DEF RequestStates
      <3> QED
        BY Zenon, <2>1, <3>2, NoNewOffset DEF FindArchive
    <2>2. CASE \/ RefreshArchive(r) \/ ArchiveEvicted(r)
               \/ AddArchive(r) \/ CountArchive(r)
      <3>1. PICK pc \in {"open", "add", "count", "lock"} :
                request' = [request EXCEPT ![r].pc = pc]
        BY <2>2 DEF RefreshArchive, ArchiveEvicted, AddArchive, CountArchive
      <3>2. to # "read" /\ \A q \in Requests \ {r} : request'[q] = request[q]
        BY <1>1, <3>1 DEF RequestStates
      <3> QED
        BY <2>2, <3>2, NoNewOffset
        DEF RefreshArchive, ArchiveEvicted, AddArchive, CountArchive
    <2>3. CASE DeleteArchive(r)
      <3>1. PICK pc \in {"evict", "add"} :
                request' = [request EXCEPT ![r].archive = archiveCount + 1, ![r].pc = pc]
        BY <2>3 DEF DeleteArchive
      <3>2. to # "read" /\ \A q \in Requests \ {r} : request'[q] = request[q]
        BY <1>1, <3>1 DEF RequestStates
      <3> QED
        BY Zenon, <2>3, <3>2, NoNewOffset DEF DeleteArchive
    <2> QED
      BY <1>5, <2>1, <2>2, <2>3 DEF Lookup
  <1>6. ASSUME NEW r \in Requests, Serve(r) \/ ContextDone(r) PROVE OffsetsNext
    <2>1. Failed(r) => /\ request'[r].pc = "failed"
                       /\ \A q \in Requests \ {r} : request'[q] = request[q]
      BY <1>1 DEF Failed, RequestStates
    <2>2. \A to \in {"waiting", "root", "fetch", "done"} :
            request' = [request EXCEPT ![r].pc = to] =>
                /\ request'[r].pc # "read"
                /\ \A q \in Requests \ {r} : request'[q] = request[q]
      BY <1>1 DEF RequestStates
    <2>3. \A o \in ArchiveIds :
            request' = [request EXCEPT ![r].pc = "read", ![r].offset = o] =>
                /\ request'[r].offset = o /\ request'[r].archive = request[r].archive
                /\ \A q \in Requests \ {r} : request'[q] = request[q]
      BY <1>1 DEF RequestStates
    <2>4. CASE OpenArchive(r) \/ ArchiveDone(r) \/ ContextDone(r)
      <3>1. /\ dataOffsetCache' = dataOffsetCache
            /\ \/ Failed(r)
               \/ \E to \in {"waiting", "root", "fetch", "done"} :
                        request' = [request EXCEPT ![r].pc = to]
        BY <2>4 DEF OpenArchive, ArchiveDone, ContextDone, Opened
      <3> QED
        BY <2>1, <2>2, <3>1, NoNewOffset
    <2>5. CASE ReadFile(r)
      <3>1. /\ dataOffsetCache' = dataOffsetCache
            /\ \/ Failed(r)
               \/ request' = [request EXCEPT ![r].pc = "done"]
        BY <2>5 DEF ReadFile, RangeRequest
      <3> QED
        BY <2>1, <2>2, <3>1, NoNewOffset
    <2>6. CASE Open(r)
      <3>1. request[r].archive \in ArchiveIds /\ dataOffsetCache' = dataOffsetCache
        BY <2>6, HeldArchive DEF Open, Holding
      <3>2. \/ Failed(r)
            \/ request' = [request EXCEPT ![r].pc = "fetch"]
            \/ request' = [request EXCEPT ![r].pc = "read",
                                          ![r].offset = request[r].archive]
        BY <2>6, <3>1 DEF Open, cacheNamespace, OffsetsKept
      <3> QED
        BY <2>1, <2>2, <2>3, <3>1, <3>2, NoNewOffset
    <2>7. CASE DataOffset(r)
      <3>1. request[r].archive \in ArchiveIds
        BY <2>7, HeldArchive DEF DataOffset, Holding
      <3>2. CASE Failed(r) /\ UNCHANGED dataOffsetCache
        BY <2>1, <3>2, NoNewOffset
      <3>3. CASE /\ dataOffsetCache' = [dataOffsetCache EXCEPT
                                ![request[r].archive] = request[r].archive]
                 /\ request' = [request EXCEPT ![r].pc = "read",
                                               ![r].offset = request[r].archive]
        <4>1. dataOffsetCache' \in [ArchiveIds -> ArchiveIds \cup {None}]
              /\ OffsetsKept'
          BY <1>1, <3>1, <3>3 DEF OffsetsKept
        <4>2. /\ request'[r].offset = request'[r].archive
              /\ \A q \in Requests \ {r} : request'[q] = request[q]
          BY Zenon, <2>3, <3>1, <3>3
        <4>3. OffsetsOfOwnArchive'
          BY <4>2 DEF OffsetsOfOwnArchive
        <4> QED
          BY <4>1, <4>3 DEF OffsetsNext
      <3> QED
        BY <2>7, <3>2, <3>3 DEF DataOffset, RangeRequest, cacheNamespace
    <2> QED
      BY <1>6, <2>4, <2>5, <2>6, <2>7 DEF Serve
  <1> QED
    BY Zenon, <1>2, <1>3, <1>4, <1>5, <1>6
    DEF Next, vars, Tick, DeleteExpired, ItemEvicted, NewResource, NewReader

-----------------------------------------------------------------------------
(* The gauge.                                                              *)

CountedNext ==
    /\ cachedEntries' \in Int
    /\ evicted' \in SUBSET Keys
    /\ Counted'

\* Keys and requests are finitely many, so that what the gauge is compared with
\* can be counted.
LEMMA Countable ==
    ASSUME evicted \in SUBSET Keys
    PROVE  /\ IsFiniteSet(CachedKeys) /\ Cardinality(CachedKeys) \in Nat
           /\ IsFiniteSet(evicted) /\ Cardinality(evicted) \in Nat
           /\ IsFiniteSet(Evicting) /\ Cardinality(Evicting) \in Nat
           /\ IsFiniteSet(Counting) /\ Cardinality(Counting) \in Nat
  <1>1. /\ IsFiniteSet(Keys) /\ CachedKeys \subseteq Keys
        /\ IsFiniteSet(Requests) /\ Evicting \subseteq Requests
        /\ Counting \subseteq Requests
    BY ZipAssumption DEF CachedKeys, Evicting, Counting
  <1>2. IsFiniteSet(CachedKeys) /\ IsFiniteSet(evicted)
    BY <1>1, FS_Subset
  <1>3. IsFiniteSet(Evicting) /\ IsFiniteSet(Counting)
    BY <1>1, FS_Subset
  <1> QED
    BY <1>2, <1>3, FS_CardinalityType

\* Nothing is counted, removed or added, and at most an item is stored again.
LEMMA NotCounted ==
    ASSUME TypeOK, Counted, UNCHANGED <<cachedEntries, evicted>>,
           \/ CachedKeys' = CachedKeys
           \/ IsFiniteSet(CachedKeys') /\ CachedKeys \subseteq CachedKeys',
           Evicting' = Evicting, Counting' = Counting
    PROVE  CountedNext
  <1>1. /\ Cardinality(CachedKeys) \in Nat /\ Cardinality(CachedKeys') \in Nat
        /\ Cardinality(CachedKeys) <= Cardinality(CachedKeys')
    <2>1. CASE CachedKeys' = CachedKeys
      BY <2>1, Countable DEF TypeOK
    <2>2. CASE IsFiniteSet(CachedKeys') /\ CachedKeys \subseteq CachedKeys'
      BY <2>2, Countable, FS_Subset, FS_CardinalityType DEF TypeOK
    <2> QED
      BY <2>1, <2>2
  <1>2. /\ Cardinality(evicted) \in Nat /\ Cardinality(Evicting) \in Nat
        /\ Cardinality(Counting) \in Nat /\ cachedEntries \in Int
        /\ evicted \in SUBSET Keys
    BY Countable DEF TypeOK
  <1> QED
    BY <1>1, <1>2 DEF Counted, CountedNext

\* The steps of a lookup.
LEMMA LookupCounted ==
    ASSUME TypeOK, References, HolderKnows, Counted, NEW r \in Requests, Lookup(r)
    PROVE  CountedNext
  <1> DEFINE k == request[r].key
  <1>1. /\ evicted' = evicted /\ evicted \in SUBSET Keys /\ cachedEntries \in Int
        /\ request \in [Requests -> RequestStates]
        /\ k \in Keys
    BY DEF Lookup, FindArchive, RefreshArchive, DeleteArchive, ArchiveEvicted,
           AddArchive, CountArchive, TypeOK, References
  <1>2. /\ IsFiniteSet(CachedKeys) /\ Cardinality(CachedKeys) \in Nat
        /\ Cardinality(evicted) \in Nat
        /\ IsFiniteSet(Evicting) /\ Cardinality(Evicting) \in Nat
        /\ IsFiniteSet(Counting) /\ Cardinality(Counting) \in Nat
    BY <1>1, Countable
  <1>3. \A to : request' = [request EXCEPT ![r].pc = to] =>
            /\ request'[r].pc = to
            /\ \A q \in Requests \ {r} : request'[q] = request[q]
    BY <1>1 DEF RequestStates
  <1>4. \A to, b : request' = [request EXCEPT ![r].archive = b, ![r].pc = to] =>
            /\ request'[r].pc = to
            /\ \A q \in Requests \ {r} : request'[q] = request[q]
    BY <1>1 DEF RequestStates
  <1>5. ASSUME NEW a \in ArchiveIds, cache' = Set(k, a)
        PROVE  CachedKeys' = CachedKeys \cup {k}
    BY <1>1, <1>5, Stored DEF CachedKeys
  <1>6. ASSUME request[r].pc \notin {"evict", "count"},
               request'[r].pc \notin {"evict", "count"},
               \A q \in Requests \ {r} : request'[q] = request[q]
        PROVE  Evicting' = Evicting /\ Counting' = Counting
    BY <1>6 DEF Evicting, Counting
  <1> HIDE DEF k
  <1>7. CASE FindArchive(r)
    <2>1. /\ UNCHANGED <<cachedEntries, cache>> /\ request[r].pc = "lock"
          /\ request'[r].pc \in {"open", "refresh", "delete"}
          /\ \A q \in Requests \ {r} : request'[q] = request[q]
      BY <1>1, <1>7 DEF FindArchive, Hit, RequestStates
    <2>2. CachedKeys' = CachedKeys
      BY <2>1 DEF CachedKeys
    <2> QED
      BY <1>1, <1>6, <2>1, <2>2, NotCounted
  <1>8. CASE RefreshArchive(r)
    <2>1. /\ cachedEntries' = cachedEntries /\ request[r].pc = "refresh"
          /\ cache' = Set(k, request[r].archive) /\ request[r].archive \in ArchiveIds
          /\ request' = [request EXCEPT ![r].pc = "open"]
      BY <1>8, HeldArchive DEF RefreshArchive, Holding, k
    <2>2. Evicting' = Evicting /\ Counting' = Counting
      BY <1>3, <1>6, <2>1
    <2>3. IsFiniteSet(CachedKeys') /\ CachedKeys \subseteq CachedKeys'
      BY <1>2, <1>5, <2>1, FS_AddElement
    <2> QED
      BY <1>1, <2>1, <2>2, <2>3, NotCounted
  <1>9. CASE DeleteArchive(r)
    <2> DEFINE to == IF cache[k] # None THEN "evict" ELSE "add"
    <2>1. /\ cachedEntries' = cachedEntries /\ request[r].pc = "delete"
          /\ cache' = Remove({k})
          /\ request' = [request EXCEPT ![r].archive = archiveCount + 1, ![r].pc = to]
      BY <1>9 DEF DeleteArchive, k
    <2>2. request'[r].pc = to /\ \A q \in Requests \ {r} : request'[q] = request[q]
      BY <1>4, <2>1
    <2>3. CachedKeys' = CachedKeys \ {k} /\ (k \in CachedKeys <=> cache[k] # None)
      BY <1>1, <2>1, Removed DEF CachedKeys
    <2>4. CASE cache[k] # None
      <3>1. request'[r].pc = "evict"
        BY <2>2, <2>4
      <3>2. Evicting' = Evicting \cup {r} /\ r \notin Evicting /\ Counting' = Counting
        BY <2>1, <2>2, <3>1 DEF Evicting, Counting
      <3>3. /\ Cardinality(CachedKeys') = Cardinality(CachedKeys) - 1
            /\ Cardinality(Evicting') = Cardinality(Evicting) + 1
        BY <1>2, <2>3, <2>4, <3>2, FS_AddElement, FS_RemoveElement
      <3> QED
        BY <1>1, <1>2, <2>1, <3>2, <3>3 DEF Counted, CountedNext
    <2>5. CASE cache[k] = None
      <3>1. request'[r].pc = "add"
        BY <2>2, <2>5
      <3>2. Evicting' = Evicting /\ Counting' = Counting
        BY <2>1, <2>2, <3>1 DEF Evicting, Counting
      <3> QED
        BY <1>1, <2>1, <2>3, <2>5, <3>2, NotCounted
    <2> QED
      BY <2>4, <2>5
  <1>10. CASE ArchiveEvicted(r)
    <2>1. /\ cachedEntries' = cachedEntries - 1 /\ request[r].pc = "evict"
          /\ cache' = cache /\ request' = [request EXCEPT ![r].pc = "add"]
      BY <1>10 DEF ArchiveEvicted, OnEvicted
    <2>2. request'[r].pc = "add" /\ \A q \in Requests \ {r} : request'[q] = request[q]
      BY <1>3, <2>1
    <2>3. Evicting' = Evicting \ {r} /\ r \in Evicting /\ Counting' = Counting
      BY <2>2, <2>1 DEF Evicting, Counting
    <2>4. Cardinality(Evicting') = Cardinality(Evicting) - 1
      BY <1>2, <2>3, FS_RemoveElement
    <2>5. CachedKeys' = CachedKeys
      BY <2>1 DEF CachedKeys
    <2> QED
      BY <1>1, <1>2, <2>1, <2>3, <2>4, <2>5 DEF Counted, CountedNext
  <1>11. CASE AddArchive(r)
    <2>1. request[r].pc = "add" /\ cache[k] = None /\ ~Found(k)
      BY <1>11 DEF AddArchive, HolderKnows, Found, k
    <2>2. /\ cachedEntries' = cachedEntries /\ request[r].archive \in ArchiveIds
          /\ cache' = Set(k, request[r].archive)
          /\ request' = [request EXCEPT ![r].pc = "count"]
      BY <1>11, <2>1, HeldArchive DEF AddArchive, Holding, k
    <2>3. CachedKeys' = CachedKeys \cup {k} /\ k \notin CachedKeys
      BY <1>5, <2>1, <2>2 DEF CachedKeys
    <2>4. request'[r].pc = "count" /\ \A q \in Requests \ {r} : request'[q] = request[q]
      BY <1>3, <2>2
    <2>5. Counting' = Counting \cup {r} /\ r \notin Counting /\ Evicting' = Evicting
      BY <2>4, <2>1 DEF Evicting, Counting
    <2>6. /\ Cardinality(CachedKeys') = Cardinality(CachedKeys) + 1
          /\ Cardinality(Counting') = Cardinality(Counting) + 1
      BY <1>2, <2>3, <2>5, FS_AddElement
    <2> QED
      BY <1>1, <1>2, <2>2, <2>5, <2>6 DEF Counted, CountedNext
  <1>12. CASE CountArchive(r)
    <2>1. /\ cachedEntries' = cachedEntries + 1 /\ request[r].pc = "count"
          /\ cache' = cache /\ request' = [request EXCEPT ![r].pc = "open"]
      BY <1>12 DEF CountArchive
    <2>2. request'[r].pc = "open" /\ \A q \in Requests \ {r} : request'[q] = request[q]
      BY <1>3, <2>1
    <2>3. Counting' = Counting \ {r} /\ r \in Counting /\ Evicting' = Evicting
      BY <2>2, <2>1 DEF Evicting, Counting
    <2>4. Cardinality(Counting') = Cardinality(Counting) - 1
      BY <1>2, <2>3, FS_RemoveElement
    <2>5. CachedKeys' = CachedKeys
      BY <2>1 DEF CachedKeys
    <2> QED
      BY <1>1, <1>2, <2>1, <2>3, <2>4, <2>5 DEF Counted, CountedNext
  <1> QED
    BY <1>7, <1>8, <1>9, <1>10, <1>11, <1>12 DEF Lookup

\* Every step keeps the balance: an item leaves the cache before its callback is
\* called, and enters it before it is counted.
LEMMA CountedStep ==
    ASSUME TypeOK, References, OffsetsKept, HolderKnows, Counted, [Next]_vars
    PROVE  CountedNext
  <1>1. /\ evicted \in SUBSET Keys /\ cachedEntries \in Int
        /\ request \in [Requests -> RequestStates]
    BY DEF TypeOK
  <1>2. /\ IsFiniteSet(CachedKeys) /\ Cardinality(CachedKeys) \in Nat
        /\ IsFiniteSet(evicted) /\ Cardinality(evicted) \in Nat
        /\ Cardinality(Evicting) \in Nat /\ Cardinality(Counting) \in Nat
    BY <1>1, Countable
  <1>3. CASE UNCHANGED <<cache, request, cachedEntries, evicted>>
    BY <1>3, NotCounted DEF CachedKeys, Evicting, Counting
  <1>4. ASSUME NEW r \in Requests, NEW k \in Keys, Root(r, k) PROVE CountedNext
    <2>1. /\ UNCHANGED <<cache, cachedEntries, evicted>>
          /\ request[r].pc \in {"idle", "done", "failed"} /\ request'[r].pc = "lock"
          /\ \A q \in Requests \ {r} : request'[q] = request[q]
      BY <1>1, <1>4 DEF Root
    <2> QED
      BY <2>1, NotCounted DEF CachedKeys, Evicting, Counting
  <1>5. ASSUME NEW r \in Requests, Serve(r) \/ ContextDone(r) PROVE CountedNext
    <2>1. Serves(r) /\ UNCHANGED <<cachedEntries, evicted>>
      BY <1>5, ServeSteps DEF Serve, ContextDone, OpenArchive, ArchiveDone, Open,
            DataOffset, ReadFile
    <2>2. /\ request[r].pc \notin {"evict", "count"}
          /\ request'[r].pc \notin {"evict", "count"}
          /\ cache' = cache /\ \A q \in Requests \ {r} : request'[q] = request[q]
      BY <2>1 DEF Serves
    <2> QED
      BY <2>1, <2>2, NotCounted DEF CachedKeys, Evicting, Counting
  <1>6. ASSUME NEW r \in Requests, Lookup(r) PROVE CountedNext
    BY <1>6, LookupCounted
  <1>7. ASSUME NEW t \in 0..now, DeleteExpired(t) PROVE CountedNext
    <2> DEFINE keys == {k \in Keys : cache[k] # None /\ t > cache[k].expires}
    <2>1. /\ evicted = {} /\ evicted' = keys /\ cache' = Remove(keys)
          /\ UNCHANGED <<cachedEntries, request>>
      BY <1>7 DEF DeleteExpired
    <2>2. keys \subseteq CachedKeys /\ keys \subseteq Keys
      BY DEF CachedKeys
    <2> HIDE DEF keys
    <2>3. CachedKeys' = CachedKeys \ keys /\ CachedKeys \cap keys = keys
      BY <2>1, <2>2, Removed DEF CachedKeys
    <2>4. /\ Cardinality(CachedKeys') = Cardinality(CachedKeys) - Cardinality(keys)
          /\ Cardinality(evicted) = 0
      <3>1. Cardinality(CachedKeys \ keys)
                = Cardinality(CachedKeys) - Cardinality(CachedKeys \cap keys)
        BY <1>2, FS_Difference
      <3> QED
        BY <2>1, <2>3, <3>1, FS_EmptySet
    <2>5. Cardinality(keys) \in Nat
      BY <1>2, <2>2, FS_Subset, FS_CardinalityType
    <2>6. Evicting' = Evicting /\ Counting' = Counting
      BY <2>1 DEF Evicting, Counting
    <2> QED
      BY <1>1, <1>2, <2>1, <2>2, <2>4, <2>5, <2>6 DEF Counted, CountedNext
  <1>8. ASSUME NEW k \in Keys, ItemEvicted(k) PROVE CountedNext
    <2>1. /\ k \in evicted /\ evicted' = evicted \ {k}
          /\ cachedEntries' = cachedEntries - 1 /\ UNCHANGED <<cache, request>>
      BY <1>8 DEF ItemEvicted, OnEvicted
    <2>2. Cardinality(evicted') = Cardinality(evicted) - 1
      BY <1>2, <2>1, FS_RemoveElement
    <2>3. CachedKeys' = CachedKeys /\ Evicting' = Evicting /\ Counting' = Counting
      BY <2>1 DEF CachedKeys, Evicting, Counting
    <2> QED
      BY <1>1, <1>2, <2>1, <2>2, <2>3 DEF Counted, CountedNext
  <1> QED
    BY Zenon, <1>3, <1>4, <1>5, <1>6, <1>7, <1>8
    DEF Next, vars, Tick, NewResource, NewReader, Prune

-----------------------------------------------------------------------------
(* The theorems.                                                           *)

\* Reconfigure leaves an empty cache.
LEMMA Initial == Init => IInv
  <1> SUFFICES ASSUME Init PROVE IInv
    OBVIOUS
  <1>1. TypeOK
    BY ZipAssumption DEF Init, TypeOK, Archives, RequestStates, ArchiveIds
  <1>2. LockHeld /\ References /\ YoungCached /\ HolderKnows /\ CreatedApart
    <2>1. 1..archiveCount = {}
      BY DEF Init
    <2> QED
      BY <2>1, ZipAssumption DEF Init, LockHeld, Locked, References, Holding,
                YoungCached, HolderKnows, CreatedApart
  <1>3. Known /\ OffsetsKept /\ OffsetsOfOwnArchive
    BY DEF Init, Known, Holding, OffsetsKept, OffsetsOfOwnArchive
  <1>4. Counted
    <2>1. /\ cachedEntries = 0 /\ evicted \in SUBSET Keys
          /\ Counting = {} /\ Cardinality(Counting) = 0
      BY FS_EmptySet DEF Init, Counting
    <2> QED
      BY <2>1, Countable DEF Counted
  <1> QED
    BY <1>1, <1>2, <1>3, <1>4 DEF IInv

\* Every step keeps the part about archives, cache and requests.
LEMMA SharedStep ==
    ASSUME IInv, [Next]_vars
    PROVE  SharedNext
  <1>1. Shared /\ TypeOK /\ References /\ OffsetsKept
    BY DEF IInv, Shared
  <1>2. CASE UNCHANGED vars
    <2>1. ArchivesKept
      BY <1>1, <1>2, Untouched DEF vars
    <2> QED
      BY <1>1, <1>2, <2>1, BesideStep DEF vars, Continues, TypeOK
  <1>3. CASE Tick \/ \E a \in ArchiveIds : NewResource(a) \/ NewReader(a) \/ Prune(a)
    <2>1. Elsewhere
      BY <1>1, <1>3, ElsewhereSteps
    <2> QED
      BY <1>1, <2>1, BesideStep DEF Elsewhere, Continues, TypeOK
  <1>4. ASSUME NEW r \in Requests, Serve(r) \/ ContextDone(r) PROVE SharedNext
    <2>1. Serves(r)
      BY <1>1, <1>4, ServeSteps
    <2> QED
      BY <1>1, <2>1, BesideStep DEF Serves, Continues
  <1>5. ASSUME NEW r \in Requests, Lookup(r) PROVE SharedNext
    BY <1>1, <1>5, LookupStep
  <1>6. ASSUME NEW t \in 0..now, DeleteExpired(t) PROVE SharedNext
    BY <1>1, <1>6, JanitorStep
  <1>7. ASSUME NEW r \in Requests, NEW k \in Keys, Root(r, k) PROVE SharedNext
    BY <1>1, <1>7, RootStep
  <1>8. ASSUME NEW k \in Keys, ItemEvicted(k) PROVE SharedNext
    <2>1. UNCHANGED <<now, archiveCount, archive, cache, cacheLock, request>>
      BY <1>8 DEF ItemEvicted
    <2>2. ArchivesKept
      BY <1>1, <2>1, Untouched
    <2> QED
      BY <1>1, <2>1, <2>2, BesideStep DEF Continues, TypeOK
  <1> QED
    BY <1>2, <1>3, <1>4, <1>5, <1>6, <1>7, <1>8 DEF Next

\* The inductive invariant.
THEOREM Inductive == Spec => []IInv
  <1>1. IInv /\ [Next]_vars => IInv'
    <2> SUFFICES ASSUME IInv, [Next]_vars PROVE IInv'
      OBVIOUS
    <2>1. SharedNext
      BY SharedStep
    <2>2. OffsetsNext
      BY OffsetsStep DEF IInv
    <2>3. CountedNext
      BY CountedStep DEF IInv
    <2> QED
      BY <2>1, <2>2, <2>3 DEF SharedNext, OffsetsNext, CountedNext, IInv, TypeOK
  <1> QED
    BY Initial, <1>1, PTL DEF Spec

\* findOrCreateArchive: however many requests miss a key together, and however
\* the janitor, which does not take cacheLock, comes between the steps of a
\* lookup, a second archive of a key is created only when the first is corrupted
\* or has outlived its interval.
THEOREM CreatedApartHolds == Spec => []CreatedApart
  <1>1. IInv => CreatedApart
    BY DEF IInv
  <1> QED
    BY Inductive, <1>1, PTL

\* cacheNamespace keeps the offsets of two archives of one URL apart, whatever
\* ccache forgets.
THEOREM OffsetsOfOwnArchiveHolds == Spec => []OffsetsOfOwnArchive
  <1>1. IInv => OffsetsOfOwnArchive
    BY DEF IInv
  <1> QED
    BY Inductive, <1>1, PTL

\* A request is not given an archive that was corrupted when it arrived: the
\* lookup replaces it, and none that it creates is.
THEOREM CorruptedNotServedHolds == Spec => []CorruptedNotServed
  <1>1. IInv => CorruptedNotServed
    BY DEF IInv, Known, Holding, CorruptedNotServed
  <1> QED
    BY Inductive, <1>1, PTL

\* The gauge zip_cached_entries exceeds the items in the cache by no more than
\* the callbacks that Delete and the janitor have still to make.
THEOREM NotOvercountedHolds == Spec => []NotOvercounted
  <1>1. IInv => NotOvercounted
    <2> SUFFICES ASSUME IInv PROVE NotOvercounted
      OBVIOUS
    <2>1. ToBeEvicted = Cardinality(evicted) + Cardinality(Evicting)
      BY DEF ToBeEvicted, Evicting
    <2>2. /\ Cardinality(CachedKeys) \in Nat /\ Cardinality(evicted) \in Nat
          /\ Cardinality(Evicting) \in Nat /\ Cardinality(Counting) \in Nat
          /\ cachedEntries \in Int
      BY Countable DEF IInv, TypeOK
    <2> QED
      BY <2>1, <2>2 DEF IInv, Counted, NotOvercounted
  <1> QED
    BY Inductive, <1>1, PTL

\* fs.cache.Add never finds an item: the key was deleted under cacheLock, and
\* only the janitor touches the cache without it.
NeverAlreadyCached ==
    \A r \in Requests : request[r].pc = "add" => ~Found(request[r].key)

\* errAlreadyCached is never returned, so Root never starts again.
THEOREM NeverAlreadyCachedHolds == Spec => []NeverAlreadyCached
  <1>1. IInv => NeverAlreadyCached
    BY DEF IInv, HolderKnows, NeverAlreadyCached, Found
  <1> QED
    BY Inductive, <1>1, PTL

-----------------------------------------------------------------------------
(* What RootReturns rests on: a call of Root only moves on, and whatever   *)
(* it waits for can go on.                                                 *)

\* How far a request has come.
Stages == [idle |-> 0, lock |-> 1, refresh |-> 2, delete |-> 2, evict |-> 3,
           add |-> 4, count |-> 5, open |-> 6, waiting |-> 7, root |-> 8,
           fetch |-> 8, read |-> 8, done |-> 8, failed |-> 8]
InRoot == {"lock", "refresh", "delete", "evict", "add", "count", "open",
           "waiting"}

\* No step of anyone takes a call of Root back.
OnlyForward ==
    \A r \in Requests : request[r].pc \in InRoot =>
        request'[r] = request[r] \/ Stages[request'[r].pc] > Stages[request[r].pc]

\* Another request that holds cacheLock is about to release it, the bound on
\* archives leaves room for the one that a lookup creates, and the archive a
\* request waits for is being opened or has been.
NeverStuck ==
    \A r \in Requests :
        /\ request[r].pc = "lock" =>
                cacheLock = None \/ request[cacheLock].pc \in Locked
        /\ request[r].pc = "delete" => archiveCount + 1 \in ArchiveIds
        /\ request[r].pc = "waiting" => archive[request[r].archive].state # "new"

\* The requests that may still create an archive, and the room for these.
Owing == {r \in Requests : request[r].pc \in {"lock", "refresh", "delete"}}
Room == archiveCount + Cardinality(Owing) <= MaxArchives

\* The first request that waits for an archive has started readArchive.
Begun ==
    \A r \in Requests :
        request[r].pc = "waiting" => archive[request[r].archive].state # "new"

\* The steps of a request.
Move(r) ==
    \/ request'[r] = request[r]
    \/ request[r].pc \in {"idle", "done", "failed"} /\ request'[r].pc = "lock"
    \/ request[r].pc = "lock" /\ request'[r].pc \in {"refresh", "delete", "open"}
    \/ request[r].pc = "refresh" /\ request'[r].pc = "open"
    \/ request[r].pc = "delete" /\ request'[r].pc \in {"evict", "add"}
    \/ request[r].pc = "evict" /\ request'[r].pc = "add"
    \/ request[r].pc = "add" /\ request'[r].pc = "count"
    \/ request[r].pc = "count" /\ request'[r].pc = "open"
    \/ request[r].pc = "open" /\ request'[r].pc \in {"root", "failed"}
    \/ /\ request[r].pc = "open" /\ request'[r].pc = "waiting"
       /\ request'[r].archive = request[r].archive
       /\ archive'[request[r].archive].state # "new"
    \/ request[r].pc = "waiting" /\ request'[r].pc \in {"root", "failed"}
    \/ /\ request[r].pc \in {"root", "fetch", "read"}
       /\ request'[r].pc \in {"fetch", "read", "done", "failed"}

\* Every step is one of these for each request: Add finds no item, so that
\* Root does not start again.
LEMMA Moves ==
    ASSUME IInv, [Next]_vars, NEW r \in Requests
    PROVE  Move(r)
  <1>1. TypeOK /\ References /\ request \in [Requests -> RequestStates]
        /\ archive \in [ArchiveIds -> Archives]
    BY DEF IInv, TypeOK
  <1>2. CASE request' = request
    BY <1>2 DEF Move
  <1>3. ASSUME NEW q \in Requests, Serve(q) \/ ContextDone(q) \/ Lookup(q), q # r
        PROVE  Move(r)
    <2>1. request'[r] = request[r]
      BY <1>1, <1>3 DEF Serve, ContextDone, Lookup, FindArchive, RefreshArchive,
            DeleteArchive, ArchiveEvicted, AddArchive, CountArchive, OpenArchive,
            ArchiveDone, Open, DataOffset, ReadFile, RangeRequest, Opened, Failed
    <2> QED
      BY <2>1 DEF Move
  <1>4. ASSUME NEW q \in Requests, NEW k \in Keys, Root(q, k) PROVE Move(r)
    <2>1. CASE q = r
      BY <1>1, <1>4, <2>1 DEF Root, Move
    <2>2. CASE q # r
      BY <1>1, <1>4, <2>2 DEF Root, Move
    <2> QED
      BY <2>1, <2>2
  <1>5. CASE FindArchive(r)
    <2>1. /\ request[r].pc = "lock"
          /\ request'[r].pc \in {"refresh", "delete", "open"}
      BY <1>1, <1>5 DEF FindArchive, Hit, RequestStates
    <2> QED
      BY <2>1 DEF Move
  <1>6. CASE RefreshArchive(r) \/ DeleteArchive(r) \/ ArchiveEvicted(r) \/ CountArchive(r)
    <2>1. CASE RefreshArchive(r) \/ ArchiveEvicted(r) \/ CountArchive(r)
      BY <1>1, <2>1
         DEF RefreshArchive, ArchiveEvicted, CountArchive, RequestStates, Move
    <2>2. CASE DeleteArchive(r)
      <3>1. request[r].pc = "delete" /\ request'[r].pc \in {"evict", "add"}
        BY <1>1, <2>2 DEF DeleteArchive, RequestStates
      <3> QED
        BY <3>1 DEF Move
    <2> QED
      BY <1>6, <2>1, <2>2
  <1>7. CASE AddArchive(r)
    <2>1. request[r].pc = "add" /\ ~Found(request[r].key)
      BY <1>7 DEF AddArchive, IInv, HolderKnows, Found
    <2>2. request'[r].pc = "count"
      BY <1>1, <1>7, <2>1 DEF AddArchive
    <2> QED
      BY <2>1, <2>2 DEF Move
  <1>8. CASE OpenArchive(r)
    <2>1. request[r].pc = "open" /\ request[r] \in RequestStates
      BY <1>1, <1>8 DEF OpenArchive
    <2>2. CASE Opened(r) \/ Failed(r)
      <3>1. request'[r].pc \in {"root", "failed"}
        BY <1>1, <2>1, <2>2 DEF Opened, Failed, RequestStates
      <3> QED
        BY <2>1, <3>1 DEF Move
    <2>3. CASE /\ archive' = [archive EXCEPT ![request[r].archive].state =
                                IF @ = "new" THEN "opening" ELSE @]
               /\ request' = [request EXCEPT ![r].pc = "waiting"]
      <3>1. request[r].archive \in ArchiveIds
        BY <1>1, <2>1, HeldArchive DEF Holding
      <3>2. archive'[request[r].archive].state # "new"
        <4>1. PICK a, x : a = request[r].archive /\ x = archive[a]
          OBVIOUS
        <4>2. a \in ArchiveIds /\ x \in Archives
          BY <1>1, <3>1, <4>1
        <4>3. archive'[a] = [x EXCEPT !.state = IF @ = "new" THEN "opening" ELSE @]
          BY <1>1, <2>3, <4>1, <4>2
        <4>4. archive'[a].state # "new"
          BY <4>2, <4>3 DEF Archives
        <4> QED
          BY <4>1, <4>4
      <3>3. request'[r].pc = "waiting" /\ request'[r].archive = request[r].archive
        BY <1>1, <2>1, <2>3 DEF RequestStates
      <3> QED
        BY <2>1, <3>2, <3>3 DEF Move
    <2> QED
      BY <1>8, <2>2, <2>3 DEF OpenArchive
  <1>9. CASE ArchiveDone(r) \/ ContextDone(r)
    <2>1. request[r].pc = "waiting" /\ request[r] \in RequestStates
      BY <1>1, <1>9 DEF ArchiveDone, ContextDone
    <2>2. request'[r].pc \in {"root", "failed"}
      BY <1>1, <1>9, <2>1 DEF ArchiveDone, ContextDone, Opened, Failed, RequestStates
    <2> QED
      BY <2>1, <2>2 DEF Move
  <1>10. CASE Open(r) \/ DataOffset(r) \/ ReadFile(r)
    <2>1. request[r].pc \in {"root", "fetch", "read"} /\ request[r] \in RequestStates
      BY <1>1, <1>10 DEF Open, DataOffset, ReadFile
    <2>2. request'[r].pc \in {"fetch", "read", "done", "failed"}
      BY <1>1, <1>10, <2>1
         DEF Open, DataOffset, ReadFile, RangeRequest, Failed, RequestStates
    <2> QED
      BY <2>1, <2>2 DEF Move
  <1> QED
    BY Zenon, <1>2, <1>3, <1>4, <1>5, <1>6, <1>7, <1>8, <1>9, <1>10
       DEF Next, vars, Serve, Lookup, Tick, DeleteExpired, ItemEvicted,
           NewResource, NewReader, Prune

\* A lookup that creates an archive stops being one that may.
LEMMA RoomStep ==
    ASSUME IInv, Room, [Next]_vars
    PROVE  Room'
  <1>1. /\ IsFiniteSet(Owing) /\ Cardinality(Owing) \in Nat
        /\ IsFiniteSet(Owing') /\ Cardinality(Owing') \in Nat
        /\ IsFiniteSet(InLookup) /\ Cardinality(InLookup) \in Nat
    <2>1. /\ Owing \subseteq Requests /\ Owing' \subseteq Requests
          /\ InLookup \subseteq Requests /\ IsFiniteSet(Requests)
      BY ZipAssumption DEF Owing, InLookup
    <2> QED
      BY <2>1, FS_Subset, FS_CardinalityType
  <1>2. /\ archiveCount \in Nat /\ MaxArchives \in Nat
        /\ request \in [Requests -> RequestStates]
    BY ZipAssumption DEF IInv, TypeOK
  <1>3. ASSUME NEW r \in Requests, NEW k \in Keys, Root(r, k) PROVE Room'
    <2>1. /\ archiveCount' = archiveCount
          /\ archiveCount + Cardinality(InLookup) < MaxArchives
      BY <1>3 DEF Root
    <2>2. Owing' \subseteq Owing \cup {r}
      BY <1>2, <1>3 DEF Root, Owing
    <2>3. Owing \subseteq InLookup
      BY DEF Owing, InLookup
    <2>4. Cardinality(Owing) <= Cardinality(InLookup)
      BY <1>1, <2>3, FS_Subset
    <2>5. /\ IsFiniteSet(Owing \cup {r})
          /\ Cardinality(Owing \cup {r}) \in {Cardinality(Owing), Cardinality(Owing) + 1}
      BY <1>1, FS_AddElement
    <2>6. Cardinality(Owing') <= Cardinality(Owing \cup {r})
      BY <2>2, <2>5, FS_Subset
    <2> QED
      BY <1>1, <1>2, <2>1, <2>4, <2>5, <2>6 DEF Room
  <1>4. ASSUME NEW r \in Requests, DeleteArchive(r) PROVE Room'
    <2>1. archiveCount' = archiveCount + 1 /\ r \in Owing
      BY <1>4 DEF DeleteArchive, Owing
    <2>2. Owing' = Owing \ {r}
      BY <1>2, <1>4 DEF DeleteArchive, Owing, RequestStates
    <2>3. Cardinality(Owing') = Cardinality(Owing) - 1
      BY <1>1, <2>1, <2>2, FS_RemoveElement
    <2> QED
      BY <1>1, <1>2, <2>1, <2>3 DEF Room
  <1>5. ASSUME archiveCount' = archiveCount,
               \A r \in Requests : request'[r].pc = "lock" => request[r].pc = "lock"
        PROVE  Room'
    <2>1. Owing' \subseteq Owing
      <3>1. ASSUME NEW r \in Owing' PROVE r \in Owing
        <4>1. r \in Requests /\ Move(r)
          BY <3>1, Moves DEF Owing
        <4>2. request'[r].pc \in {"lock", "refresh", "delete"}
          BY <3>1 DEF Owing
        <4>3. request[r].pc \in {"lock", "refresh", "delete"}
          BY <1>5, <4>1, <4>2 DEF Move
        <4> QED
          BY <4>1, <4>3 DEF Owing
      <3> QED
        BY <3>1
    <2>2. Cardinality(Owing') <= Cardinality(Owing)
      BY <1>1, <2>1, FS_Subset
    <2> QED
      BY <1>1, <1>2, <1>5, <2>2 DEF Room
  <1>6. CASE request' = request /\ archiveCount' = archiveCount
    BY <1>5, <1>6
  <1>7. ASSUME NEW r \in Requests, Serve(r) \/ ContextDone(r) PROVE Room'
    <2>1. Serves(r)
      BY <1>7, ServeSteps DEF IInv
    <2> QED
      BY <1>5, <2>1 DEF Serves
  <1>8. ASSUME NEW r \in Requests,
               \/ FindArchive(r) \/ RefreshArchive(r) \/ ArchiveEvicted(r)
               \/ AddArchive(r) \/ CountArchive(r)
        PROVE  Room'
    <2>1. archiveCount' = archiveCount /\ \A q \in Requests \ {r} : request'[q] = request[q]
      BY <1>2, <1>8 DEF FindArchive, RefreshArchive, ArchiveEvicted, AddArchive,
                        CountArchive
    <2>2. request[r].pc \in {"lock", "refresh", "evict", "add", "count"}
      BY <1>8 DEF FindArchive, RefreshArchive, ArchiveEvicted, AddArchive, CountArchive
    <2>3. request'[r].pc = "lock" => request[r].pc = "lock"
      BY <2>2, Moves DEF Move
    <2> QED
      BY <1>5, <2>1, <2>3
  <1> QED
    BY Zenon, <1>3, <1>4, <1>6, <1>7, <1>8
       DEF Next, vars, Lookup, Tick, DeleteExpired, ItemEvicted, NewResource,
           NewReader, Prune

\* An archive that is being opened does not become new again.
LEMMA BegunStep ==
    ASSUME IInv, Begun, [Next]_vars
    PROVE  Begun'
  <1>1. /\ TypeOK /\ References /\ archive \in [ArchiveIds -> Archives]
        /\ request \in [Requests -> RequestStates]
    BY DEF IInv, TypeOK
  <1>2. \A a \in ArchiveIds : archive[a].state # "new" => archive'[a].state # "new"
    <2> SUFFICES ASSUME NEW a \in ArchiveIds, archive[a].state # "new"
                 PROVE  archive'[a].state # "new"
      OBVIOUS
    <2>1. ASSUME NEW b, archive' = [archive EXCEPT ![b].resourceErr = TRUE]
          PROVE  archive'[a].state # "new"
      BY <1>1, <2>1 DEF Archives
    <2>2. ASSUME NEW r \in Requests, DeleteArchive(r) PROVE archive'[a].state # "new"
      BY <1>1, <2>2 DEF DeleteArchive, Archives
    <2>3. ASSUME NEW r \in Requests, OpenArchive(r) PROVE archive'[a].state # "new"
      <3>1. CASE archive' = archive
        BY <3>1
      <3>2. CASE archive' = [archive EXCEPT ![request[r].archive].state =
                                IF @ = "new" THEN "opening" ELSE @]
        BY <1>1, <3>2 DEF Archives
      <3> QED
        BY <2>3, <3>1, <3>2 DEF OpenArchive
    <2>4. ASSUME NEW b \in ArchiveIds, NewResource(b) PROVE archive'[a].state # "new"
      BY <1>1, <2>4 DEF NewResource, Archives
    <2>5. ASSUME NEW b \in ArchiveIds, NewReader(b) PROVE archive'[a].state # "new"
      <3>1. CASE archive' = [archive EXCEPT ![b].state = "opened"]
        BY <1>1, <3>1 DEF Archives
      <3>2. ASSUME NEW m \in BOOLEAN,
                   archive' = [archive EXCEPT ![b].state = "error", ![b].resourceErr = m]
            PROVE  archive'[a].state # "new"
        BY <1>1, <3>2 DEF Archives
      <3> QED
        BY <2>5, <3>1, <3>2 DEF NewReader
    <2>6. CASE archive' = archive
      BY <2>6
    <2>7. ASSUME NEW r \in Requests, DataOffset(r) \/ ReadFile(r)
          PROVE  archive'[a].state # "new"
      BY <2>1, <2>6, <2>7 DEF DataOffset, ReadFile, RangeRequest
    <2> QED
      BY Zenon, <2>2, <2>3, <2>4, <2>5, <2>6, <2>7
         DEF Next, vars, Lookup, Serve, Tick, DeleteExpired, ItemEvicted, Root,
             FindArchive, RefreshArchive, ArchiveEvicted, AddArchive, CountArchive,
             ArchiveDone, ContextDone, Open, Prune
  <1>3. ASSUME NEW r \in Requests, request'[r].pc = "waiting"
        PROVE  archive'[request'[r].archive].state # "new"
    <2>1. CASE request'[r] = request[r]
      <3>1. request[r].archive \in ArchiveIds
        BY <1>1, <1>3, <2>1, HeldArchive DEF Holding
      <3> QED
        BY <1>2, <1>3, <2>1, <3>1 DEF Begun
    <2>2. CASE request'[r] # request[r]
      BY <1>3, <2>2, Moves DEF Move
    <2> QED
      BY <2>1, <2>2
  <1> QED
    BY <1>3 DEF Begun

\* Root goes from the lookup under cacheLock to the opened archive or an error
\* and never back.
THEOREM RootMovesOn == Spec => [][OnlyForward]_vars
  <1>1. IInv /\ [Next]_vars => [OnlyForward]_vars
    <2> SUFFICES ASSUME IInv, [Next]_vars, NEW r \in Requests, request[r].pc \in InRoot
                 PROVE  \/ request'[r] = request[r]
                        \/ Stages[request'[r].pc] > Stages[request[r].pc]
      BY DEF OnlyForward
    <2>1. Move(r)
      BY Moves
    <2>2. PICK p, n : p = request[r].pc /\ n = request'[r].pc
      OBVIOUS
    <2>3. CASE p = "lock" /\ n \in {"refresh", "delete", "open"}
      BY <2>2, <2>3 DEF Stages
    <2>4. CASE p = "refresh" /\ n = "open"
      BY <2>2, <2>4 DEF Stages
    <2>5. CASE (p = "delete" /\ n \in {"evict", "add"}) \/ (p = "evict" /\ n = "add")
      BY <2>2, <2>5 DEF Stages
    <2>6. CASE (p = "add" /\ n = "count") \/ (p = "count" /\ n = "open")
      BY <2>2, <2>6 DEF Stages
    <2>7. CASE p = "open" /\ n \in {"waiting", "root", "failed"}
      BY <2>2, <2>7 DEF Stages
    <2>8. CASE p = "waiting" /\ n \in {"root", "failed"}
      BY <2>2, <2>8 DEF Stages
    <2>9. \/ request'[r] = request[r]
          \/ p = "lock" /\ n \in {"refresh", "delete", "open"}
          \/ p = "refresh" /\ n = "open"
          \/ p = "delete" /\ n \in {"evict", "add"}
          \/ p = "evict" /\ n = "add"
          \/ p = "add" /\ n = "count"
          \/ p = "count" /\ n = "open"
          \/ p = "open" /\ n \in {"waiting", "root", "failed"}
          \/ p = "waiting" /\ n \in {"root", "failed"}
      BY <2>1, <2>2 DEF Move, InRoot
    <2> QED
      BY <2>3, <2>4, <2>5, <2>6, <2>7, <2>8, <2>9
  <1> QED
    BY Inductive, <1>1, PTL DEF Spec

\* A call of Root never waits for a lock that nobody is going to release, nor
\* for an archive that nobody is opening.
THEOREM RootNeverStuck == Spec => []NeverStuck
  <1>1. Init => Room /\ Begun
    <2> SUFFICES ASSUME Init PROVE Room /\ Begun
      OBVIOUS
    <2>1. Owing = {} /\ archiveCount = 0
      BY DEF Init, Owing
    <2>2. Cardinality(Owing) = 0
      BY <2>1, FS_EmptySet
    <2> QED
      BY <2>1, <2>2, ZipAssumption DEF Init, Room, Begun
  <1>2. IInv /\ Room /\ Begun /\ [Next]_vars => Room' /\ Begun'
    BY RoomStep, BegunStep
  <1>3. IInv /\ Room /\ Begun => NeverStuck
    <2> SUFFICES ASSUME IInv, Room, Begun, NEW r \in Requests
                 PROVE  /\ request[r].pc = "lock" =>
                            cacheLock = None \/ request[cacheLock].pc \in Locked
                        /\ request[r].pc = "delete" => archiveCount + 1 \in ArchiveIds
                        /\ request[r].pc = "waiting" =>
                            archive[request[r].archive].state # "new"
      BY DEF NeverStuck
    <2>1. cacheLock = None \/ request[cacheLock].pc \in Locked
      BY DEF IInv, TypeOK, LockHeld
    <2>2. request[r].pc = "delete" => archiveCount + 1 \in ArchiveIds
      <3>1. SUFFICES ASSUME r \in Owing PROVE archiveCount + 1 \in ArchiveIds
        BY DEF Owing
      <3>2. IsFiniteSet(Owing)
        <4>1. Owing \subseteq Requests /\ IsFiniteSet(Requests)
          BY ZipAssumption DEF Owing
        <4> QED
          BY <4>1, FS_Subset
      <3>3. Cardinality(Owing) \in Nat /\ Cardinality(Owing) # 0
        BY <3>1, <3>2, FS_EmptySet, FS_CardinalityType
      <3>4. archiveCount \in Nat /\ MaxArchives \in Nat
        BY ZipAssumption DEF IInv, TypeOK
      <3> QED
        BY <3>3, <3>4 DEF Room, ArchiveIds
    <2> QED
      BY <2>1, <2>2 DEF Begun
  <1> QED
    BY Inductive, <1>1, <1>2, <1>3, PTL DEF Spec

=============================================================================
