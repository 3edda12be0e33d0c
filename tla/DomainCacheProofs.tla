------------------------- MODULE DomainCacheProofs -------------------------
(***************************************************************************)
(* The domain cache for any number of callers, domains and entries and any *)
(* timeouts: what it answers, and that nobody waits for nothing.           *)
(***************************************************************************)
EXTENDS DomainCache, TLAPS

\* Where a caller of Resolve holds an entry.
Holding == {"check", "stale", "retrieve", "waiting"}

\* What the store, the callers and the refreshes hold are entries that have
\* been created, of the domain they are held for; an entry that has not been
\* created is untouched.
References ==
    /\ \A d \in Domains : store[d] # None =>
            /\ store[d].entry \in 1..created
            /\ entry[store[d].entry].domain = d
    /\ \A c \in Clients : client[c].pc # "idle" => client[c].domain # None
    /\ \A c \in Clients : client[c].pc \in Holding =>
            /\ client[c].entry \in 1..created
            /\ entry[client[c].entry].domain = client[c].domain
    /\ \A e \in EntryIds : e \in 1..created <=> entry[e].domain # None
    /\ \A e \in EntryIds \ (1..created) : entry[e] = Unused /\ worker[e].pc = "idle"

\* The goroutine of a refresh holds an entry of the same domain; the response
\* it may have to keep is there, and what it stores has a response.
Refreshes ==
    \A e \in EntryIds :
        /\ entry[e].next = None <=> entry[e].refresh = "idle"
        /\ entry[e].next # None =>
            /\ entry[e].next \in 1..created
            /\ entry[entry[e].next].domain = entry[e].domain
            /\ entry[e].response # None
        /\ entry[e].refresh \in {"storing", "stored"} =>
            entry[entry[e].next].response # None

\* A lookup Resolve may return for a domain.
Answers(lookup, d) == lookup.kind # "zero" /\ (lookup.kind = "ok" => lookup.name = d)

\* Responses, and the lookups that are about to become responses, answer for
\* the domain of their entry.
Responses ==
    /\ \A e \in EntryIds :
            entry[e].response # None => Answers(entry[e].response, entry[e].domain)
    /\ \A e \in EntryIds :
            worker[e].pc = "sending" => Answers(worker[e].lookup, entry[e].domain)

\* A retrieval ends with a response, and its deadline is that of one
\* retrieval.
Retrievals ==
    /\ \A e \in EntryIds : entry[e].retrieve = "returned" => entry[e].response # None
    /\ \A e \in EntryIds : entry[e].retrieve = "running" =>
            entry[e].deadline <= now + RetrievalTimeout

\* The loop of resolveWithBackoff counts its requests, and before the retrieval
\* of the entry, which is started once, there have been none.
Requests ==
    \A e \in EntryIds :
        /\ entry[e].retrieve = "idle" => worker[e].pc = "idle"
        /\ worker[e].pc = "idle" => worker[e].requests = 0
        /\ worker[e].pc = "calling" =>
            worker[e].requests < worker[e].i /\ worker[e].i <= MaxRetrievalRetries

\* An item of the store outlives every entry that LoadOrCreate has created.
Outlived ==
    /\ \A d \in Domains : store[d] # None => store[d].expires <= now + CacheExpiry
    /\ \A e \in 1..created : e \notin RefreshEntries =>
            /\ store[entry[e].domain] # None
            /\ entry[e].created + CacheExpiry <= store[entry[e].domain].expires

\* The inductive invariant.
IInv ==
    /\ TypeOK
    /\ References
    /\ Refreshes
    /\ (MaxRetrievalRetries # 0 => Responses /\ AnswersAreLookups)
    /\ Retrievals
    /\ WaitIsBounded
    /\ Requests
    /\ RequestsBounded
    /\ Outlived
    /\ CreatedApart

-----------------------------------------------------------------------------
\* The entry of a refresh, with its retrieval started.
StartedEntry(d) ==
    [newCacheEntry(d) EXCEPT !.retrieve = "running",
                             !.deadline = now + RetrievalTimeout]

\* The assignments to the fields of an entry.
LEMMA EntryFields ==
    ASSUME NEW x \in Entries
    PROVE  /\ \A n \in EntryIds :
                [x EXCEPT !.refresh = "retrieving", !.next = n] \in Entries
           /\ \A t \in Nat :
                [x EXCEPT !.retrieve = "running", !.deadline = t] \in Entries
           /\ \A l \in Lookups :
                [x EXCEPT !.retrieve = "returned", !.response = l] \in Entries
           /\ \A r \in {"storing", "stored"} : [x EXCEPT !.refresh = r] \in Entries
           /\ \A l \in Lookups, t \in Nat :
                [x EXCEPT !.response = l, !.refreshedOriginalTimestamp = t] \in Entries
BY Zenon DEF Entries

\* The entries that newCacheEntry and Entry.Refresh make.
LEMMA NewEntries ==
    ASSUME now \in Nat, NEW d \in Domains \cup {None}
    PROVE  newCacheEntry(d) \in Entries /\ StartedEntry(d) \in Entries
<1>1. newCacheEntry(d) \in Entries
  BY Zenon DEF newCacheEntry, Unused, Entries
<1>2. now + RetrievalTimeout \in Nat
  BY ConstantsAssumption
<1>3. StartedEntry(d) \in Entries
  BY Zenon, <1>1, <1>2, EntryFields DEF StartedEntry
<1>4. QED
  BY <1>1, <1>3

\* Every variable keeps its type.
LEMMA TypeStep == TypeOK /\ References /\ Refreshes /\ [Next]_vars => TypeOK'
<1> SUFFICES ASSUME TypeOK, References, Refreshes, [Next]_vars PROVE TypeOK'
  OBVIOUS
<1> USE ConstantsAssumption DEF TypeOK
<1>1. ASSUME Tick PROVE TypeOK'
  BY <1>1 DEF Tick
<1>2. ASSUME NEW c \in Clients, Create(c) PROVE TypeOK'
  <2>1. CASE Found(client[c].domain)
    <3>1. store[client[c].domain].entry \in EntryIds
      BY <1>2, <2>1 DEF References, Found, Create, Items, EntryIds, ClientStates
    <3>2. [client[c] EXCEPT !.pc = "check", !.entry = store[client[c].domain].entry] \in ClientStates
      BY Zenon, <3>1 DEF ClientStates
    <3>3. client' \in [Clients -> ClientStates]
      BY Zenon, <1>2, <2>1, <3>2 DEF Create
    <3>4. QED
      BY <1>2, <2>1, <3>3 DEF Create
  <2>2. CASE ~Found(client[c].domain)
    <3>1. client[c].domain \in Domains
      BY <1>2 DEF References, Create, ClientStates
    <3>2. created + 1 \in EntryIds /\ created' = created + 1
      BY <1>2, <2>2 DEF Create
    <3>3. [client[c] EXCEPT !.pc = "check", !.entry = created + 1] \in ClientStates
      BY Zenon, <3>2 DEF ClientStates
    <3>4. client' \in [Clients -> ClientStates]
      BY Zenon, <1>2, <2>2, <3>3 DEF Create
    <3>5. newCacheEntry(client[c].domain) \in Entries
      BY Zenon, <3>1 DEF newCacheEntry, Unused, Entries
    <3>6. entry' \in [EntryIds -> Entries]
      BY <1>2, <2>2, <3>5 DEF Create
    <3>7. [entry |-> created + 1, expires |-> now + CacheExpiry] \in Items
      BY <3>2 DEF Items
    <3>8. store' \in [Domains -> Items \cup {None}]
      BY <1>2, <2>2, <3>7 DEF Create, SetDefault
    <3>9. QED
      BY <1>2, <2>2, <3>2, <3>4, <3>6, <3>8 DEF Create, EntryIds
  <2>3. QED
    BY <2>1, <2>2
<1>3. ASSUME NEW c \in Clients, NEW lookup \in Lookups, Return(c, lookup)
      PROVE client' \in [Clients -> ClientStates]
  <2>1. [client[c] EXCEPT !.pc = "done", !.entry = None, !.since = 0,
                          !.answer = lookup] \in ClientStates
    BY Zenon DEF ClientStates
  <2>2. QED
    BY <1>3, <2>1 DEF Return
<1>4. ASSUME NEW c \in Clients, NEW pc \in Holding,
             client' = [client EXCEPT ![c].pc = pc]
      PROVE client' \in [Clients -> ClientStates]
  <2>1. [client[c] EXCEPT !.pc = pc] \in ClientStates
    BY DEF ClientStates, Holding
  <2>2. QED
    BY <1>4, <2>1
<1>5. ASSUME NEW e \in EntryIds
      PROVE entry[e].response \in Lookups \cup {None}
  BY DEF Entries
<1>6. ASSUME NEW c \in Clients, client[c].pc \in Holding
      PROVE /\ client[c].entry \in EntryIds
            /\ client[c].domain \in Domains
  BY <1>6 DEF References, Holding, ClientStates, EntryIds
<1>7. \A e \in EntryIds : StartedWorker(e) \in Workers
  <2>1. Lookup(None, "zero", 0) \in Lookups
    BY DEF Lookups, Lookup
  <2>2. QED
    BY <2>1 DEF StartedWorker, Workers
<1>8. ASSUME NEW c \in Clients, CheckUpToDate(c) PROVE TypeOK'
  <2>1. client' \in [Clients -> ClientStates]
    <3>1. client[c].entry \in EntryIds
      BY <1>6, <1>8 DEF CheckUpToDate, Holding
    <3>2. CASE IsUpToDate(client[c].entry)
      BY <1>3, <1>5, <1>8, <3>1, <3>2 DEF CheckUpToDate, IsUpToDate, isResolved
    <3>3. CASE ~IsUpToDate(client[c].entry)
      BY <1>4, <1>8, <3>3 DEF CheckUpToDate, Holding
    <3>4. QED
      BY <3>2, <3>3
  <2>2. QED
    BY <1>8, <2>1 DEF CheckUpToDate
<1>9. ASSUME NEW c \in Clients, CheckNeedsRefresh(c) PROVE TypeOK'
  <2> DEFINE e == client[c].entry
  <2>1. e \in EntryIds
    BY <1>6, <1>9 DEF CheckNeedsRefresh, Holding
  <2>2. client' \in [Clients -> ClientStates]
    <3>1. CASE NeedsRefresh(e)
      BY <1>3, <1>5, <1>9, <2>1, <3>1 DEF CheckNeedsRefresh, NeedsRefresh, isResolved
    <3>2. CASE ~NeedsRefresh(e)
      BY <1>4, <1>9, <3>2 DEF CheckNeedsRefresh, Holding
    <3>3. QED
      BY <3>1, <3>2
  <2>3. CASE NeedsRefresh(e) /\ entry[e].refresh = "idle"
    <3>1. /\ created + 1 \in EntryIds
          /\ created' = created + 1
          /\ entry' = [entry EXCEPT ![e].refresh = "retrieving",
                                    ![e].next = created + 1,
                                    ![created + 1] = StartedEntry(entry[e].domain)]
          /\ worker' = [worker EXCEPT ![created + 1] = StartedWorker(created + 1)]
      BY <1>9, <2>3 DEF CheckNeedsRefresh, StartedEntry
    <3>2. StartedEntry(entry[e].domain) \in Entries
      <4>1. entry[e].domain \in Domains \cup {None}
        BY <2>1 DEF Entries
      <4>2. QED
        BY <4>1, NewEntries
    <3>3. [entry[e] EXCEPT !.refresh = "retrieving", !.next = created + 1] \in Entries
      BY Zenon, <2>1, <3>1, EntryFields
    <3>4. entry' \in [EntryIds -> Entries]
      BY Zenon, <2>1, <3>1, <3>2, <3>3
    <3>5. worker' \in [EntryIds -> Workers]
      BY <1>7, <3>1
    <3>6. QED
      <4>1. created' \in 0..MaxEntries
        BY <3>1 DEF EntryIds
      <4>2. now' = now /\ store' = store
        BY <1>9 DEF CheckNeedsRefresh
      <4>3. QED
        BY <2>2, <3>4, <3>5, <4>1, <4>2
  <2>4. CASE ~(NeedsRefresh(e) /\ entry[e].refresh = "idle")
    BY <1>9, <2>2, <2>4 DEF CheckNeedsRefresh
  <2>5. QED
    BY <2>3, <2>4
<1>10. ASSUME NEW c \in Clients, Retrieve(c) PROVE TypeOK'
  <2> DEFINE e == client[c].entry
  <2>1. e \in EntryIds
    BY <1>6, <1>10 DEF Retrieve, Holding
  <2>2. [client[c] EXCEPT !.pc = "waiting", !.since = now] \in ClientStates
    BY Zenon DEF ClientStates
  <2>3. client' \in [Clients -> ClientStates]
    BY <1>10, <2>2 DEF Retrieve
  <2>4. [entry[e] EXCEPT !.retrieve = "running", !.deadline = now + RetrievalTimeout] \in Entries
    <3>1. entry[e] \in Entries /\ now + RetrievalTimeout \in Nat
      BY <2>1
    <3>2. QED
      BY Zenon, <3>1, EntryFields
  <2>5. entry' \in [EntryIds -> Entries]
    BY Zenon, <1>10, <2>1, <2>4 DEF Retrieve
  <2>6. worker' \in [EntryIds -> Workers]
    BY <1>7, <1>10, <2>1 DEF Retrieve
  <2>7. QED
    BY <1>10, <2>3, <2>5, <2>6 DEF Retrieve
<1>11. ASSUME NEW c \in Clients, Retrieved(c) PROVE TypeOK'
  <2>1. entry[client[c].entry].response \in Lookups
    BY <1>5, <1>6, <1>11 DEF Retrieved, Holding, isResolved
  <2>2. client' \in [Clients -> ClientStates]
    BY <1>3, <1>11, <2>1 DEF Retrieved
  <2>3. QED
    BY <1>11, <2>2 DEF Retrieved
<1>12. ASSUME NEW c \in Clients, ContextDone(c) PROVE TypeOK'
  <2>1. Lookup(client[c].domain, "error", now) \in Lookups
    BY <1>6, <1>12 DEF ContextDone, Holding, Lookup, Lookups, ApiKinds
  <2>2. client' \in [Clients -> ClientStates]
    BY <1>3, <1>12, <2>1 DEF ContextDone
  <2>3. QED
    BY <1>12, <2>2 DEF ContextDone
<1>13. ASSUME NEW c \in Clients, NEW d \in Domains, Load(c, d) PROVE TypeOK'
  <2>1. ASSUME Found(d) PROVE store[d].entry \in EntryIds
    BY <2>1 DEF Found, Items
  <2>2. client' \in [Clients -> ClientStates]
    BY <1>13, <2>1 DEF Load, ClientStates
  <2>3. QED
    BY <1>13, <2>2 DEF Load
<1>14. ASSUME NEW e \in EntryIds, NEW kind \in ApiKinds, GetLookup(e, kind) PROVE TypeOK'
  <2>1. Lookup(entry[e].domain, kind, now) \in Lookups
    BY DEF Lookup, Lookups, Entries
  <2>2. worker' \in [EntryIds -> Workers]
    BY <1>14, <2>1 DEF GetLookup, Workers
  <2>3. QED
    BY <1>14, <2>2 DEF GetLookup
<1>15. ASSUME NEW e \in EntryIds, NEW lookup \in Lookups, setResponse(e, lookup)
       PROVE entry' \in [EntryIds -> Entries]
  BY Zenon, <1>15, EntryFields DEF setResponse
<1>16. ASSUME NEW e \in EntryIds, Respond(e) PROVE TypeOK'
  <2>1. worker[e].lookup \in Lookups /\ [worker[e] EXCEPT !.pc = "stopped"] \in Workers
    BY DEF Workers
  <2>2. worker' \in [EntryIds -> Workers]
    BY <1>16, <2>1 DEF Respond
  <2>3. QED
    BY <1>15, <1>16, <2>1, <2>2 DEF Respond
<1>17. ASSUME NEW e \in EntryIds, RetrievalDone(e) PROVE TypeOK'
  <2>1. Lookup(None, "error", now) \in Lookups
    BY DEF Lookup, Lookups, ApiKinds
  <2>2. QED
    BY <1>15, <1>17, <2>1 DEF RetrievalDone
<1>18. ASSUME NEW e \in EntryIds, RefreshRetrieved(e) PROVE TypeOK'
  <2> DEFINE new == entry[e].next
  <2>1. new \in EntryIds /\ entry[e].response \in Lookups /\ entry[e].created \in Nat
    BY <1>18 DEF RefreshRetrieved, Refreshes, Entries, EntryIds
  <2>2. entry' \in [EntryIds -> Entries]
    <3>1. [entry EXCEPT ![e].refresh = "storing"] \in [EntryIds -> Entries]
      BY Zenon, EntryFields, <2>1
    <3>2. [entry EXCEPT ![e].refresh = "storing",
                        ![new].response = entry[e].response,
                        ![new].refreshedOriginalTimestamp = entry[e].created]
            \in [EntryIds -> Entries]
      BY Zenon, EntryFields, <2>1, <3>1
    <3>3. QED
      BY <1>18, <3>1, <3>2 DEF RefreshRetrieved
  <2>3. QED
    BY <1>18, <2>2 DEF RefreshRetrieved
<1>19. ASSUME NEW e \in EntryIds, ReplaceOrCreate(e) PROVE TypeOK'
  <2>1. entry[e].domain \in Domains /\ entry[e].next \in EntryIds
    <3>1. entry[e].next # None
      BY <1>19 DEF ReplaceOrCreate, Refreshes
    <3>2. entry[e].next \in EntryIds
      BY <3>1 DEF Entries
    <3>3. e \in 1..created
      BY <3>1 DEF References, Unused
    <3>4. entry[e].domain # None
      BY <3>3 DEF References
    <3>5. QED
      BY <3>2, <3>4 DEF Entries
  <2>2. store' \in [Domains -> Items \cup {None}]
    BY <1>19, <2>1 DEF ReplaceOrCreate, SetDefault, Items
  <2>3. entry' \in [EntryIds -> Entries]
    BY Zenon, <1>19, EntryFields, <2>1 DEF ReplaceOrCreate
  <2>4. QED
    BY <1>19, <2>2, <2>3 DEF ReplaceOrCreate
<1>20. CASE UNCHANGED vars
  BY <1>20 DEF vars
<1>21. QED
  BY <1>1, <1>2, <1>8, <1>9, <1>10, <1>11, <1>12, <1>13, <1>14, <1>16, <1>17,
     <1>18, <1>19, <1>20 DEF Next, Caller, Background

-----------------------------------------------------------------------------
(* What one step may do to an entry.                                       *)

\* The refresh of an entry starts once, on an entry that has a response, with
\* a new entry of the same domain; it stores that entry once it is retrieved.
RefreshMove(e) ==
    \/ entry'[e].refresh = entry[e].refresh /\ entry'[e].next = entry[e].next
    \/ /\ entry[e].refresh = "idle" /\ entry'[e].refresh = "retrieving"
       /\ created' = created + 1 /\ entry'[e].next = created + 1
       /\ entry'[created + 1] = StartedEntry(entry[e].domain)
       /\ entry[e].response # None
    \/ /\ entry[e].refresh = "retrieving" /\ entry'[e].refresh = "storing"
       /\ entry'[e].next = entry[e].next
       /\ entry[entry[e].next].response # None
    \/ /\ entry[e].refresh = "storing" /\ entry'[e].refresh = "stored"
       /\ entry'[e].next = entry[e].next

\* The retrieval of an entry starts once and ends with a response.
RetrieveMove(e) ==
    \/ /\ entry'[e].retrieve = entry[e].retrieve
       /\ entry'[e].deadline = entry[e].deadline
    \/ /\ entry[e].retrieve = "idle" /\ entry'[e].retrieve = "running"
       /\ entry'[e].deadline = now + RetrievalTimeout
    \/ entry'[e].retrieve = "returned" /\ entry'[e].response # None

\* A response comes from the API, from the timeout of the retrieval or from
\* the entry that this one refreshes.
ResponseMove(e) ==
    \/ entry'[e].response = entry[e].response
    \/ worker[e].pc = "sending" /\ entry'[e].response = worker[e].lookup
    \/ entry'[e].response = Lookup(None, "error", now)
    \/ \E f \in EntryIds : /\ entry[f].next = e
                           /\ entry[f].response # None
                           /\ entry'[e].response = entry[f].response

\* An entry keeps its domain and its age, and once resolved stays resolved.
EntryMove(e) ==
    /\ entry'[e].domain = entry[e].domain
    /\ entry'[e].created = entry[e].created
    /\ entry[e].response # None => entry'[e].response # None
    /\ RefreshMove(e)
    /\ RetrieveMove(e)
    /\ ResponseMove(e)

\* At most one entry is created, and the entries that do not exist yet are
\* left alone.
EntryStep ==
    /\ \/ created' = created
       \/ /\ created' = created + 1
          /\ created' \in EntryIds
          /\ \E d \in Domains : entry'[created'] \in {newCacheEntry(d), StartedEntry(d)}
    /\ \A e \in 1..created : EntryMove(e)
    /\ \A e \in EntryIds \ (1..created') : entry'[e] = entry[e]

\* An entry that keeps all its fields but those of a response.
LEMMA Responded ==
    ASSUME TypeOK, NEW e \in EntryIds, NEW lookup \in Lookups, setResponse(e, lookup)
    PROVE  /\ \A x \in EntryIds \ {e} : entry'[x] = entry[x]
           /\ entry'[e].domain = entry[e].domain
           /\ entry'[e].created = entry[e].created
           /\ entry'[e].refresh = entry[e].refresh
           /\ entry'[e].next = entry[e].next
           /\ entry'[e].retrieve = "returned"
           /\ entry'[e].response = lookup
<1>1. entry[e] \in Entries /\ entry \in [EntryIds -> Entries]
  BY DEF TypeOK
<1>2. entry'[e] = [entry[e] EXCEPT !.retrieve = "returned", !.response = lookup]
  BY <1>1 DEF setResponse
<1>3. \A x \in EntryIds \ {e} : entry'[x] = entry[x]
  BY <1>1 DEF setResponse
<1>4. QED
  BY <1>1, <1>2, <1>3 DEF Entries

\* A step that changes no entry.
LEMMA Still ==
    ASSUME TypeOK, entry' = entry, created' = created
    PROVE  EntryStep
BY DEF EntryStep, EntryMove, RefreshMove, RetrieveMove, ResponseMove

\* A step of Next changes entries only as EntryStep says: one of the callers
\* creates an entry or starts its retrieval or refresh, or the goroutine of
\* the retrieval or of the refresh takes its next step.
LEMMA EntrySteps ==
    ASSUME TypeOK, References, Refreshes, [Next]_vars PROVE EntryStep
<1> USE ConstantsAssumption, NoneAssumption
<1> entry \in [EntryIds -> Entries] /\ created \in Nat
  BY DEF TypeOK
<1>1. ASSUME NEW e \in EntryIds, NEW lookup \in Lookups, setResponse(e, lookup),
             created' = created, entry[e].retrieve = "running",
             \/ worker[e].pc = "sending" /\ lookup = worker[e].lookup
             \/ lookup = Lookup(None, "error", now)
      PROVE EntryStep
  <2>1. e \in 1..created
    BY <1>1 DEF References, Unused
  <2>2. EntryMove(e)
    BY <1>1, Responded DEF EntryMove, RefreshMove, RetrieveMove, ResponseMove
  <2>3. \A x \in EntryIds : x # e => entry'[x] = entry[x]
    BY <1>1, Responded
  <2>4. \A x \in 1..created : x # e => EntryMove(x)
    BY <2>3 DEF EntryMove, RefreshMove, RetrieveMove, ResponseMove, EntryIds, TypeOK
  <2>5. QED
    BY <1>1, <2>1, <2>2, <2>3, <2>4 DEF EntryStep
<1>2. ASSUME NEW c \in Clients, Create(c) PROVE EntryStep
  <2>1. CASE Found(client[c].domain)
    BY <1>2, <2>1, Still DEF Create
  <2>2. CASE ~Found(client[c].domain)
    <3>1. client[c].domain \in Domains
      BY <1>2 DEF Create, References, TypeOK, ClientStates
    <3>2. /\ created' = created + 1
          /\ created' \in EntryIds
          /\ entry' = [entry EXCEPT ![created'] = newCacheEntry(client[c].domain)]
      BY <1>2, <2>2 DEF Create
    <3>3. \A x \in EntryIds : x # created' => entry'[x] = entry[x]
      BY <3>2
    <3>4. \A x \in 1..created : entry'[x] = entry[x]
      BY <3>2, <3>3 DEF EntryIds, TypeOK
    <3>5. \A x \in 1..created : EntryMove(x)
      BY <3>4 DEF EntryMove, RefreshMove, RetrieveMove, ResponseMove
    <3>6. \A x \in EntryIds \ (1..created') : entry'[x] = entry[x]
      BY <3>2, <3>3 DEF EntryIds
    <3>7. entry'[created'] = newCacheEntry(client[c].domain)
      BY <3>2
    <3>8. QED
      BY <3>1, <3>2, <3>5, <3>6, <3>7 DEF EntryStep
  <2>3. QED
    BY <2>1, <2>2
<1>3. ASSUME NEW c \in Clients, CheckNeedsRefresh(c) PROVE EntryStep
  <2> DEFINE e == client[c].entry
  <2>1. e \in 1..created /\ e \in EntryIds /\ entry[e].domain \in Domains
    BY <1>3 DEF CheckNeedsRefresh, References, Holding, EntryIds, TypeOK, ClientStates
  <2>2. CASE created' = created /\ entry' = entry
    BY <2>2, Still
  <2>3. CASE /\ created' = created + 1
             /\ created + 1 \in EntryIds
             /\ entry[e].refresh = "idle"
             /\ entry[e].response # None
             /\ entry' = [entry EXCEPT ![e].refresh = "retrieving",
                                       ![e].next = created + 1,
                                       ![created + 1] = StartedEntry(entry[e].domain)]
    <3> HIDE DEF e
    <3>1. entry'[e] = [entry[e] EXCEPT !.refresh = "retrieving", !.next = created + 1]
      BY <2>1, <2>3
    <3>2. \A x \in EntryIds : x # e /\ x # created + 1 => entry'[x] = entry[x]
      BY <2>1, <2>3
    <3>3. entry'[created + 1] = StartedEntry(entry[e].domain)
      BY <2>1, <2>3
    <3>4. entry[e] \in Entries
      BY <2>1
    <3>5. /\ entry'[e].domain = entry[e].domain
          /\ entry'[e].created = entry[e].created
          /\ entry'[e].response = entry[e].response
          /\ entry'[e].retrieve = entry[e].retrieve
          /\ entry'[e].deadline = entry[e].deadline
          /\ entry'[e].refresh = "retrieving"
          /\ entry'[e].next = created + 1
      BY <3>1, <3>4 DEF Entries
    <3>6. EntryMove(e)
      BY <2>3, <3>3, <3>5 DEF EntryMove, RefreshMove, RetrieveMove, ResponseMove
    <3>7. \A x \in 1..created : x # e => entry'[x] = entry[x]
      BY <2>3, <3>2 DEF EntryIds, TypeOK
    <3>8. \A x \in 1..created : EntryMove(x)
      BY <3>6, <3>7 DEF EntryMove, RefreshMove, RetrieveMove, ResponseMove
    <3>9. \A x \in EntryIds \ (1..created') : entry'[x] = entry[x]
      BY <2>1, <2>3, <3>2 DEF EntryIds
    <3>10. QED
      BY <2>1, <2>3, <3>3, <3>8, <3>9 DEF EntryStep
  <2>4. QED
    BY <1>3, <2>2, <2>3 DEF CheckNeedsRefresh, StartedEntry, NeedsRefresh, isResolved
<1>4. ASSUME NEW c \in Clients, Retrieve(c) PROVE EntryStep
  <2> DEFINE e == client[c].entry
  <2>1. e \in 1..created /\ e \in EntryIds
    BY <1>4 DEF Retrieve, References, Holding, EntryIds, TypeOK
  <2>2. CASE entry[e].retrieve # "idle"
    BY <1>4, <2>2, Still DEF Retrieve
  <2>3. CASE entry[e].retrieve = "idle"
    <3>1. /\ created' = created
          /\ entry' = [entry EXCEPT ![e].retrieve = "running",
                                    ![e].deadline = now + RetrievalTimeout]
      BY <1>4, <2>3 DEF Retrieve
    <3> HIDE DEF e
    <3>2. entry'[e] = [entry[e] EXCEPT !.retrieve = "running", !.deadline = now + RetrievalTimeout]
      BY <2>1, <3>1
    <3>3. \A x \in EntryIds : x # e => entry'[x] = entry[x]
      BY <2>1, <3>1
    <3>4. entry[e] \in Entries
      BY <2>1
    <3>5. EntryMove(e)
      BY <2>3, <3>2, <3>4 DEF EntryMove, RefreshMove, RetrieveMove, ResponseMove, Entries
    <3>6. \A x \in 1..created : x # e => EntryMove(x)
      BY <3>3 DEF EntryMove, RefreshMove, RetrieveMove, ResponseMove, EntryIds, TypeOK
    <3>7. QED
      BY <2>1, <3>1, <3>3, <3>5, <3>6 DEF EntryStep
  <2>4. QED
    BY <2>2, <2>3
<1>5. ASSUME NEW e \in EntryIds, Respond(e) PROVE EntryStep
  <2>1. worker[e].lookup \in Lookups
    BY DEF TypeOK, Workers
  <2>2. QED
    BY <1>1, <1>5, <2>1 DEF Respond
<1>6. ASSUME NEW e \in EntryIds, RetrievalDone(e) PROVE EntryStep
  <2>1. Lookup(None, "error", now) \in Lookups
    BY DEF Lookup, Lookups, ApiKinds, TypeOK
  <2>2. QED
    BY <1>1, <1>6, <2>1 DEF RetrievalDone
<1>7. ASSUME NEW e \in EntryIds, RefreshRetrieved(e) PROVE EntryStep
  <2> DEFINE new == entry[e].next
  <2>1. e \in 1..created /\ new \in 1..created /\ new \in EntryIds /\ entry[e].response # None
    BY <1>7 DEF RefreshRetrieved, References, Refreshes, EntryIds, Unused, TypeOK
  <2>2. entry[new].response # None /\ entry[e].refresh = "retrieving" /\ created' = created
    BY <1>7 DEF RefreshRetrieved, isResolved
  <2>3. entry[e] \in Entries /\ entry[new] \in Entries
    BY <2>1
  <2>4. CASE entry' = [entry EXCEPT ![e].refresh = "storing"]
    <3> HIDE DEF new
    <3>1. entry'[e] = [entry[e] EXCEPT !.refresh = "storing"]
      BY <2>4
    <3>2. \A x \in EntryIds : x # e => entry'[x] = entry[x]
      BY <2>4
    <3>3. EntryMove(e)
      BY <2>2, <2>3, <3>1 DEF EntryMove, RefreshMove, RetrieveMove, ResponseMove, Entries, new
    <3>4. \A x \in EntryIds : x # e => EntryMove(x)
      BY <3>2 DEF EntryMove, RefreshMove, RetrieveMove, ResponseMove
    <3>5. \A x \in 1..created : EntryMove(x)
      BY <3>3, <3>4 DEF EntryIds, TypeOK
    <3>6. \A x \in EntryIds \ (1..created') : entry'[x] = entry[x]
      BY <2>1, <2>2, <3>2
    <3>7. QED
      BY <2>2, <3>5, <3>6 DEF EntryStep
  <2>5. CASE entry' = [entry EXCEPT ![e].refresh = "storing",
                         ![new].response = entry[e].response,
                         ![new].refreshedOriginalTimestamp = entry[e].created]
    <3>1. ASSUME NEW x \in EntryIds
          PROVE  /\ entry'[x].domain = entry[x].domain
                 /\ entry'[x].created = entry[x].created
                 /\ entry'[x].retrieve = entry[x].retrieve
                 /\ entry'[x].deadline = entry[x].deadline
                 /\ entry'[x].next = entry[x].next
                 /\ x # e => entry'[x].refresh = entry[x].refresh
                 /\ x = e => entry'[x].refresh = "storing"
                 /\ x # new => entry'[x].response = entry[x].response
                 /\ x = new => entry'[x].response = entry[e].response
      <4>1. entry[x] \in Entries
        OBVIOUS
      <4> HIDE DEF new
      <4>2. QED
        BY <2>1, <2>5, <4>1 DEF Entries
    <3>2. \A x \in 1..created : EntryMove(x)
      BY <2>1, <2>2, <3>1 DEF EntryMove, RefreshMove, RetrieveMove, ResponseMove, EntryIds, TypeOK
    <3>3. \A x \in EntryIds \ (1..created') : entry'[x] = entry[x]
      BY <2>1, <2>2, <2>5
    <3>4. QED
      BY <2>2, <3>2, <3>3 DEF EntryStep
  <2>6. QED
    BY <1>7, <2>4, <2>5 DEF RefreshRetrieved
<1>8. ASSUME NEW e \in EntryIds, ReplaceOrCreate(e) PROVE EntryStep
  <2>1. e \in 1..created
    BY <1>8 DEF ReplaceOrCreate, References, Unused
  <2>2. /\ entry'[e] = [entry[e] EXCEPT !.refresh = "stored"]
        /\ entry[e].refresh = "storing"
        /\ \A x \in EntryIds : x # e => entry'[x] = entry[x]
    BY <1>8 DEF ReplaceOrCreate
  <2>3. entry[e] \in Entries
    OBVIOUS
  <2>4. EntryMove(e)
    BY <2>2, <2>3 DEF EntryMove, RefreshMove, RetrieveMove, ResponseMove, Entries
  <2>5. \A x \in 1..created : x # e => EntryMove(x)
    BY <2>2 DEF EntryMove, RefreshMove, RetrieveMove, ResponseMove, EntryIds, TypeOK
  <2>6. QED
    BY <1>8, <2>1, <2>2, <2>4, <2>5 DEF EntryStep, ReplaceOrCreate
<1>9. CASE entry' = entry /\ created' = created
  BY <1>9, Still
<1>10. QED
  BY <1>2, <1>3, <1>4, <1>5, <1>6, <1>7, <1>8, <1>9
     DEF Next, Caller, Background, vars, Tick, CheckUpToDate, Retrieved,
         ContextDone, Load, GetLookup

-----------------------------------------------------------------------------
(* What one step may do to a goroutine of resolveWithBackoff, to an item   *)
(* of the store and to a caller.                                           *)

\* It starts, makes one more request and retries or ends, or sends its lookup.
WorkerMove(e) ==
    \/ worker'[e] = worker[e]
    \/ /\ e \in 1..created' /\ worker'[e] = StartedWorker(e)
       /\ entry[e].retrieve = "idle" /\ entry'[e].retrieve # "idle"
    \/ /\ worker[e].pc = "calling"
       /\ \E kind \in ApiKinds :
            worker'[e].lookup = Lookup(entry[e].domain, kind, now)
       /\ worker'[e].requests = worker[e].requests + 1
       /\ \/ worker'[e].pc = "sending"
          \/ /\ worker'[e].pc = "calling"
             /\ worker[e].i # MaxRetrievalRetries
             /\ worker'[e].i = worker[e].i + 1
    \/ /\ worker'[e].pc = "stopped"
       /\ worker'[e].requests = worker[e].requests
       /\ worker[e].pc = "sending"

\* A miss puts a new entry in the store, a refresh the entry it retrieved.
StoreMove(d) ==
    \/ store'[d] = store[d]
    \/ /\ ~Found(d)
       /\ created' = created + 1
       /\ entry'[created'] = newCacheEntry(d)
       /\ store'[d] = [entry |-> created', expires |-> now + CacheExpiry]
    \/ \E e \in EntryIds :
        /\ entry[e].refresh = "storing"
        /\ entry[e].domain = d
        /\ store'[d] = [entry |-> entry[e].next, expires |-> now + CacheExpiry]

\* A caller calls Resolve, loads or creates an entry, goes on with the entry
\* it holds, or returns the response of that entry or the error of its context.
ClientMove(c) ==
    \/ client'[c] = client[c]
    \/ \E d \in Domains :
        /\ client'[c].domain = d
        /\ \/ client'[c].pc = "create"
           \/ client'[c].pc = "check" /\ Found(d) /\ client'[c].entry = store[d].entry
    \/ /\ client[c].pc = "create" /\ client'[c].pc = "check"
       /\ client'[c].domain = client[c].domain
       /\ \/ /\ Found(client[c].domain)
             /\ client'[c].entry = store[client[c].domain].entry
          \/ /\ created' = created + 1
             /\ entry'[created'] = newCacheEntry(client[c].domain)
             /\ client'[c].entry = created'
    \/ /\ client[c].pc \in Holding
       /\ client'[c].domain = client[c].domain
       /\ \/ /\ client'[c].pc \in {"stale", "retrieve"}
             /\ client'[c].entry = client[c].entry
          \/ /\ client'[c].pc = "waiting"
             /\ client'[c].entry = client[c].entry
             /\ client'[c].since = now
             /\ entry'[client[c].entry].retrieve # "idle"
             /\ entry'[client[c].entry].response = entry[client[c].entry].response
          \/ /\ client'[c].pc = "done"
             /\ client'[c].answer = entry[client[c].entry].response
             /\ client'[c].answer # None
          \/ /\ client'[c].pc = "done"
             /\ client'[c].answer = Lookup(client[c].domain, "error", now)

\* A step of Next changes the goroutine of resolveWithBackoff of an entry only
\* as WorkerMove says.
LEMMA WorkerSteps ==
    ASSUME TypeOK, References, [Next]_vars, NEW e \in EntryIds PROVE WorkerMove(e)
<1> USE ConstantsAssumption
<1> worker \in [EntryIds -> Workers] /\ worker[e] \in Workers
  BY DEF TypeOK
<1> entry \in [EntryIds -> Entries]
  BY DEF TypeOK
<1>1. ASSUME NEW c \in Clients, CheckNeedsRefresh(c) PROVE WorkerMove(e)
  <2>1. CASE worker' = worker
    BY <2>1 DEF WorkerMove
  <2>2. CASE /\ created' = created + 1 /\ created' \in EntryIds
             /\ entry' = [entry EXCEPT ![client[c].entry].refresh = "retrieving",
                                       ![client[c].entry].next = created',
                                       ![created'] = StartedEntry(entry[client[c].entry].domain)]
             /\ worker' = [worker EXCEPT ![created'] = StartedWorker(created')]
    <3>1. CASE e = created'
      <4>1. e \in 1..created' /\ e \in EntryIds \ (1..created)
        BY <2>2, <3>1 DEF TypeOK, EntryIds
      <4>2. entry[e].retrieve = "idle"
        BY <4>1 DEF References, Unused
      <4>3. entry'[e] = StartedEntry(entry[client[c].entry].domain)
        BY Zenon, <2>2, <3>1
      <4>4. entry'[e].retrieve = "running"
        BY <4>3 DEF StartedEntry, newCacheEntry, Unused
      <4>5. worker'[e] = StartedWorker(e)
        BY <2>2, <3>1
      <4>6. QED
        BY <4>1, <4>2, <4>4, <4>5 DEF WorkerMove
    <3>2. CASE e # created'
      BY <2>2, <3>2 DEF WorkerMove
    <3>3. QED
      BY <3>1, <3>2
  <2>3. QED
    BY <1>1, <2>1, <2>2 DEF CheckNeedsRefresh, StartedEntry
<1>2. ASSUME NEW c \in Clients, Retrieve(c) PROVE WorkerMove(e)
  <2>1. client[c].entry \in 1..created /\ created' = created
    BY <1>2 DEF Retrieve, References, Holding
  <2>2. CASE worker'[e] = worker[e]
    BY <2>2 DEF WorkerMove
  <2>3. CASE e = client[c].entry /\ entry[e].retrieve = "idle"
    <3>1. worker'[e] = StartedWorker(e) /\ entry'[e].retrieve = "running"
      BY <1>2, <2>3 DEF Retrieve, Entries
    <3>2. QED
      BY <2>1, <2>3, <3>1 DEF WorkerMove
  <2>4. QED
    BY <1>2, <2>2, <2>3 DEF Retrieve
<1>3. ASSUME NEW f \in EntryIds, NEW kind \in ApiKinds, GetLookup(f, kind) PROVE WorkerMove(e)
  BY <1>3 DEF GetLookup, WorkerMove
<1>4. ASSUME NEW f \in EntryIds, Respond(f) PROVE WorkerMove(e)
  BY <1>4 DEF Respond, WorkerMove, Workers
<1>5. CASE worker' = worker
  BY <1>5 DEF WorkerMove
<1>6. QED
  BY Zenon, <1>1, <1>2, <1>3, <1>4, <1>5
     DEF Next, Caller, Background, vars, Tick, Create, CheckUpToDate, Retrieved,
         ContextDone, Load, RetrievalDone, RefreshRetrieved, ReplaceOrCreate

\* A step of Next changes the item of a domain only as StoreMove says: nothing
\* but LoadOrCreate and ReplaceOrCreate writes to the store.
LEMMA StoreSteps ==
    ASSUME TypeOK, References, [Next]_vars, NEW d \in Domains PROVE StoreMove(d)
<1> USE ConstantsAssumption
<1> store \in [Domains -> Items \cup {None}] /\ entry \in [EntryIds -> Entries]
  BY DEF TypeOK
<1>1. ASSUME NEW c \in Clients, Create(c) PROVE StoreMove(d)
  BY <1>1 DEF Create, SetDefault, StoreMove
<1>2. ASSUME NEW e \in EntryIds, ReplaceOrCreate(e) PROVE StoreMove(d)
  BY <1>2 DEF ReplaceOrCreate, SetDefault, StoreMove
<1>3. CASE store' = store
  BY <1>3 DEF StoreMove
<1>4. QED
  BY Zenon, <1>1, <1>2, <1>3
     DEF Next, Caller, Background, vars, Tick, CheckUpToDate, CheckNeedsRefresh,
         Retrieve, Retrieved, ContextDone, Load, GetLookup, Respond,
         RetrievalDone, RefreshRetrieved

\* A step of Next changes a caller of Resolve only as ClientMove says.
LEMMA ClientSteps ==
    ASSUME TypeOK, References, [Next]_vars, NEW c \in Clients PROVE ClientMove(c)
<1> USE ConstantsAssumption
<1> client \in [Clients -> ClientStates] /\ entry \in [EntryIds -> Entries]
  BY DEF TypeOK
<1>1. ASSUME NEW x \in Clients, Create(x) PROVE ClientMove(c)
  BY <1>1 DEF Create, ClientMove, ClientStates
<1>2. ASSUME NEW x \in Clients, CheckUpToDate(x) PROVE ClientMove(c)
  BY <1>2 DEF CheckUpToDate, Return, ClientMove, ClientStates, IsUpToDate, isResolved, Holding
<1>3. ASSUME NEW x \in Clients, CheckNeedsRefresh(x) PROVE ClientMove(c)
  <2>1. \/ Return(x, entry[client[x].entry].response) /\ entry[client[x].entry].response # None
        \/ client' = [client EXCEPT ![x].pc = "retrieve"]
    BY <1>3 DEF CheckNeedsRefresh, NeedsRefresh, isResolved
  <2>2. client[x].pc \in Holding
    BY <1>3 DEF CheckNeedsRefresh, Holding
  <2>3. CASE x # c
    <3>1. client'[c] = client[c]
      BY <2>1, <2>3 DEF Return
    <3>2. QED
      BY <3>1 DEF ClientMove
  <2>4. CASE x = c
    <3>1. client'[c].domain = client[c].domain
      BY <2>1, <2>4 DEF Return, ClientStates
    <3>2. \/ /\ client'[c].pc = "done" /\ client'[c].answer # None
             /\ client'[c].answer = entry[client[c].entry].response
          \/ client'[c].pc = "retrieve" /\ client'[c].entry = client[c].entry
      BY <2>1, <2>4 DEF Return, ClientStates
    <3>3. QED
      BY <2>2, <2>4, <3>1, <3>2 DEF ClientMove
  <2>5. QED
    BY <2>3, <2>4
<1>4. ASSUME NEW x \in Clients, Retrieve(x) PROVE ClientMove(c)
  <2>1. client[x].entry \in EntryIds
    BY <1>4 DEF Retrieve, References, Holding, EntryIds, TypeOK
  <2>2. /\ entry'[client[x].entry].retrieve # "idle"
        /\ entry'[client[x].entry].response = entry[client[x].entry].response
    BY <1>4, <2>1 DEF Retrieve, Entries
  <2>3. QED
    BY <1>4, <2>2 DEF Retrieve, ClientMove, ClientStates, Holding
<1>5. ASSUME NEW x \in Clients, Retrieved(x) PROVE ClientMove(c)
  BY <1>5 DEF Retrieved, Return, ClientMove, ClientStates, isResolved, Holding
<1>6. ASSUME NEW x \in Clients, ContextDone(x) PROVE ClientMove(c)
  BY <1>6 DEF ContextDone, Return, ClientMove, ClientStates, Holding
<1>7. ASSUME NEW x \in Clients, NEW d \in Domains, Load(x, d) PROVE ClientMove(c)
  BY <1>7 DEF Load, ClientMove
<1>8. CASE client' = client
  BY <1>8 DEF ClientMove
<1>9. QED
  BY Zenon, <1>1, <1>2, <1>3, <1>4, <1>5, <1>6, <1>7, <1>8
     DEF Next, Caller, Background, vars, Tick, GetLookup, Respond, RetrievalDone,
         RefreshRetrieved, ReplaceOrCreate

-----------------------------------------------------------------------------
(* The invariant is preserved.                                             *)

\* Only Tick moves the clock.
LEMMA ClockSteps == ASSUME [Next]_vars PROVE now' = now \/ Tick
BY Zenon DEF Next, vars, Caller, Background, Create, CheckUpToDate, CheckNeedsRefresh,
       Retrieve, Retrieved, ContextDone, Load, GetLookup, Respond, RetrievalDone,
       RefreshRetrieved, ReplaceOrCreate

\* Deadlines and expirations are sums.
LEMMA Later ==
    ASSUME NEW a \in Nat, NEW b \in Nat, NEW t \in Nat, a <= b
    PROVE  a + t \in Nat /\ b + t \in Nat /\ a + t <= b + t
OBVIOUS

\* The fields of a new entry.
LEMMA NewFields ==
    ASSUME NEW d \in Domains, NEW x \in {newCacheEntry(d), StartedEntry(d)}
    PROVE  /\ x.domain = d /\ x.created = now /\ x.response = None
           /\ x.refresh = "idle" /\ x.next = None
           /\ \/ x.retrieve = "idle"
              \/ x.retrieve = "running" /\ x.deadline = now + RetrievalTimeout
BY Zenon DEF newCacheEntry, StartedEntry, Unused

\* The store and the callers go on holding created entries of their domain.
LEMMA ReferencesStep ==
    ASSUME TypeOK, References, Refreshes, [Next]_vars PROVE References'
<1> USE ConstantsAssumption
<1>1. EntryStep /\ TypeOK'
  BY EntrySteps, TypeStep
<1>2. 1..created \subseteq 1..created' /\ 1..created \subseteq EntryIds /\ created \in Nat /\ created' \in Nat
  BY <1>1 DEF EntryStep, TypeOK, EntryIds
<1>3. \A e \in 1..created : entry'[e].domain = entry[e].domain
  BY <1>1 DEF EntryStep, EntryMove
<1>4. ASSUME NEW d \in Domains, store'[d] # None
      PROVE  store'[d].entry \in 1..created' /\ entry'[store'[d].entry].domain = d
  <2>1. CASE store'[d] = store[d]
    BY <1>2, <1>3, <1>4, <2>1 DEF References
  <2>2. CASE /\ created' = created + 1
             /\ entry'[created'] = newCacheEntry(d)
             /\ store'[d] = [entry |-> created', expires |-> now + CacheExpiry]
    BY <1>2, <2>2, NewFields
  <2>3. ASSUME NEW e \in EntryIds, entry[e].refresh = "storing", entry[e].domain = d,
               store'[d] = [entry |-> entry[e].next, expires |-> now + CacheExpiry]
        PROVE  store'[d].entry \in 1..created' /\ entry'[store'[d].entry].domain = d
    <3>1. entry[e].next \in 1..created /\ entry[entry[e].next].domain = d
      BY <2>3 DEF Refreshes
    <3>2. QED
      BY <1>2, <1>3, <2>3, <3>1
  <2>4. QED
    BY Zenon, <2>1, <2>2, <2>3, StoreSteps DEF StoreMove
<1>5. ASSUME NEW c \in Clients
      PROVE  /\ client'[c].pc # "idle" => client'[c].domain # None
             /\ client'[c].pc \in Holding =>
                    /\ client'[c].entry \in 1..created'
                    /\ entry'[client'[c].entry].domain = client'[c].domain
  <2>1. ASSUME NEW d \in Domains, Found(d)
        PROVE  store[d].entry \in 1..created' /\ entry'[store[d].entry].domain = d
    BY <1>2, <1>3, <2>1 DEF Found, References
  <2>2. client[c].pc # "idle" => client[c].domain \in Domains
    BY DEF References, TypeOK, ClientStates
  <2>3. client[c].pc \in Holding =>
            /\ client[c].entry \in 1..created'
            /\ entry'[client[c].entry].domain = client[c].domain
    BY <1>2, <1>3 DEF References
  <2>4. CASE client'[c] = client[c]
    BY <2>2, <2>3, <2>4
  <2>5. CASE \E d \in Domains :
                /\ client'[c].domain = d
                /\ \/ client'[c].pc = "create"
                   \/ client'[c].pc = "check" /\ Found(d) /\ client'[c].entry = store[d].entry
    BY <2>1, <2>5 DEF Holding
  <2>6. CASE /\ client[c].pc = "create" /\ client'[c].pc = "check"
             /\ client'[c].domain = client[c].domain
             /\ Found(client[c].domain)
             /\ client'[c].entry = store[client[c].domain].entry
    BY <2>1, <2>2, <2>6
  <2>7. CASE /\ client[c].pc = "create" /\ client'[c].pc = "check"
             /\ client'[c].domain = client[c].domain
             /\ created' = created + 1
             /\ entry'[created'] = newCacheEntry(client[c].domain)
             /\ client'[c].entry = created'
    <3>1. entry'[created'].domain = client[c].domain
      BY <2>2, <2>7, NewFields
    <3>2. created' \in 1..created'
      BY <1>2, <2>7
    <3>3. QED
      BY <2>2, <2>7, <3>1, <3>2
  <2>8. CASE /\ client[c].pc \in Holding
             /\ client'[c].domain = client[c].domain
             /\ client'[c].pc = "done" \/ client'[c].entry = client[c].entry
    BY <2>2, <2>3, <2>8 DEF Holding
  <2>9. QED
    BY <2>4, <2>5, <2>6, <2>7, <2>8, ClientSteps DEF ClientMove
<1>6. ASSUME NEW e \in EntryIds PROVE e \in 1..created' <=> entry'[e].domain # None
  <2>1. CASE e \in 1..created
    BY <1>2, <1>3, <2>1 DEF References
  <2>2. CASE e \notin 1..created'
    BY <1>1, <1>2, <2>2 DEF EntryStep, References
  <2>3. CASE e \in 1..created' /\ e \notin 1..created
    <3>1. e = created' /\ \E d \in Domains : entry'[e] \in {newCacheEntry(d), StartedEntry(d)}
      BY <1>1, <1>2, <2>3 DEF EntryStep
    <3>2. QED
      BY <2>3, <3>1, NewFields
  <2>4. QED
    BY <2>1, <2>2, <2>3
<1>7. ASSUME NEW e \in EntryIds \ (1..created')
      PROVE  entry'[e] = Unused /\ worker'[e].pc = "idle"
  <2>1. entry[e] = Unused /\ worker[e].pc = "idle" /\ entry'[e] = entry[e]
    BY <1>1, <1>2 DEF EntryStep, References
  <2>2. worker'[e].pc = "idle"
    BY <2>1, WorkerSteps DEF WorkerMove
  <2>3. QED
    BY <2>1, <2>2
<1>8. QED
  BY <1>4, <1>5, <1>6, <1>7 DEF References

\* A refresh goes on holding an entry of its domain, and has the response of
\* that entry when it calls ReplaceOrCreate.
LEMMA RefreshesStep ==
    ASSUME TypeOK, References, Refreshes, [Next]_vars PROVE Refreshes'
<1> USE ConstantsAssumption
<1>1. EntryStep /\ TypeOK'
  BY EntrySteps, TypeStep
<1>2. 1..created \subseteq 1..created' /\ 1..created \subseteq EntryIds /\ created \in Nat /\ created' \in Nat
  BY <1>1 DEF EntryStep, TypeOK, EntryIds
<1>3. \A e \in 1..created : EntryMove(e)
  BY <1>1 DEF EntryStep
<1> DEFINE R(e) ==
        /\ entry'[e].next = None <=> entry'[e].refresh = "idle"
        /\ entry'[e].next # None =>
            /\ entry'[e].next \in 1..created'
            /\ entry'[entry'[e].next].domain = entry'[e].domain
            /\ entry'[e].response # None
        /\ entry'[e].refresh \in {"storing", "stored"} =>
            entry'[entry'[e].next].response # None
<1>4. ASSUME NEW e \in 1..created PROVE R(e)
  <2>1. EntryMove(e) /\ e \in EntryIds
    BY <1>2, <1>3
  <2>2. CASE entry[e].next # None /\ entry'[e].next = entry[e].next
    <3>1. entry[e].next \in 1..created
      BY <2>1, <2>2 DEF Refreshes
    <3>2. EntryMove(entry[e].next)
      BY <1>3, <3>1
    <3>3. entry'[e].refresh # "idle" /\ entry'[e].response # None
      BY <2>1, <2>2 DEF EntryMove, RefreshMove, Refreshes
    <3>4. entry'[e].refresh \in {"storing", "stored"} => entry'[entry[e].next].response # None
      BY Zenon, <2>1, <2>2, <3>2 DEF EntryMove, RefreshMove, Refreshes
    <3>5. entry'[entry[e].next].domain = entry'[e].domain
      BY <2>1, <2>2, <3>2 DEF EntryMove, Refreshes
    <3>6. QED
      BY <1>2, <2>2, <3>1, <3>3, <3>4, <3>5
  <2>3. CASE entry[e].next = None /\ entry'[e].next = None /\ entry'[e].refresh = entry[e].refresh
    BY <2>1, <2>3 DEF Refreshes
  <2>4. CASE /\ entry'[e].refresh = "retrieving"
             /\ created' = created + 1 /\ entry'[e].next = created + 1
             /\ entry'[created + 1] = StartedEntry(entry[e].domain)
             /\ entry[e].response # None
    <3>1. entry[e].domain \in Domains
      BY <2>1 DEF References, TypeOK, Entries
    <3>2. entry'[created + 1].domain = entry[e].domain
      BY <2>4, <3>1, NewFields
    <3>3. created' # None /\ created' \in 1..created'
      BY <1>1, <1>2, <2>4 DEF EntryStep, EntryIds
    <3>4. entry'[e].domain = entry[e].domain /\ entry'[e].response # None
      BY <2>1, <2>4 DEF EntryMove
    <3>5. QED
      BY <2>4, <3>2, <3>3, <3>4
  <2>5. QED
    BY <2>1, <2>2, <2>3, <2>4 DEF EntryMove, RefreshMove, Refreshes
<1>5. ASSUME NEW e \in EntryIds, e \notin 1..created PROVE R(e)
  <2>1. entry'[e].next = None /\ entry'[e].refresh = "idle"
    <3>1. CASE e \in 1..created'
      <4>1. \E d \in Domains : entry'[e] \in {newCacheEntry(d), StartedEntry(d)}
        BY <1>1, <1>2, <1>5, <3>1 DEF EntryStep
      <4>2. QED
        BY <4>1, NewFields
    <3>2. CASE e \notin 1..created'
      BY <1>1, <1>5, <3>2 DEF EntryStep, References, Unused
    <3>3. QED
      BY <3>1, <3>2
  <2>2. QED
    BY <2>1
<1>6. QED
  BY <1>4, <1>5 DEF Refreshes

\* Responses, and so what Resolve returns, are lookups of the domain asked for
\* as long as resolveWithBackoff makes at least one request.
LEMMA AnswersStep ==
    ASSUME TypeOK, References, Refreshes, Responses, AnswersAreLookups,
           MaxRetrievalRetries # 0, [Next]_vars
    PROVE  Responses' /\ AnswersAreLookups'
<1> USE ConstantsAssumption, NoneAssumption
<1>1. EntryStep /\ TypeOK'
  BY EntrySteps, TypeStep
<1>2. 1..created \subseteq 1..created' /\ 1..created \subseteq EntryIds /\ created \in Nat /\ created' \in Nat
  BY <1>1 DEF EntryStep, TypeOK, EntryIds
<1>3. ASSUME NEW d, NEW kind \in ApiKinds, NEW t
      PROVE  Answers(Lookup(d, kind, t), d) /\ Answers(Lookup(d, "error", t), d)
             /\ Answers(Lookup(None, "error", t), d)
  BY DEF Answers, Lookup, ApiKinds
<1>4. ASSUME NEW e \in EntryIds, entry'[e].response # None
      PROVE  Answers(entry'[e].response, entry'[e].domain)
  <2>1. CASE e \in 1..created
    <3>1. EntryMove(e)
      BY <1>1, <2>1 DEF EntryStep
    <3>2. Answers(entry'[e].response, entry[e].domain)
      <4>1. CASE entry'[e].response = entry[e].response
        BY <1>4, <4>1 DEF Responses
      <4>2. CASE worker[e].pc = "sending" /\ entry'[e].response = worker[e].lookup
        BY <4>2 DEF Responses
      <4>3. CASE entry'[e].response = Lookup(None, "error", now)
        BY <1>3, <4>3 DEF ApiKinds
      <4>4. ASSUME NEW f \in EntryIds, entry[f].next = e, entry[f].response # None,
                   entry'[e].response = entry[f].response
            PROVE  Answers(entry'[e].response, entry[e].domain)
        <5>1. entry[f].next # None
          BY <4>4 DEF EntryIds
        <5>2. entry[e].domain = entry[f].domain
          BY <4>4, <5>1 DEF Refreshes
        <5>3. QED
          BY <4>4, <5>2 DEF Responses
      <4>5. QED
        BY <3>1, <4>1, <4>2, <4>3, <4>4 DEF EntryMove, ResponseMove
    <3>3. QED
      BY <3>1, <3>2 DEF EntryMove
  <2>2. CASE e \in 1..created' /\ e \notin 1..created
    <3>1. \E d \in Domains : entry'[e] \in {newCacheEntry(d), StartedEntry(d)}
      BY <1>1, <1>2, <2>2 DEF EntryStep
    <3>2. QED
      BY <1>4, <3>1, NewFields
  <2>3. CASE e \notin 1..created'
    BY <1>1, <1>2, <1>4, <2>3 DEF EntryStep, References, Unused
  <2>4. QED
    BY <2>1, <2>2, <2>3
<1>5. ASSUME NEW e \in EntryIds, worker'[e].pc = "sending"
      PROVE  Answers(worker'[e].lookup, entry'[e].domain)
  <2>1. CASE worker[e].pc \in {"calling", "sending"}
    <3>1. e \in 1..created
      BY <2>1 DEF References
    <3>2. entry'[e].domain = entry[e].domain
      BY <1>1, <3>1 DEF EntryStep, EntryMove
    <3>3. CASE worker'[e] = worker[e]
      BY <1>5, <3>2, <3>3 DEF Responses
    <3>4. CASE \E kind \in ApiKinds : worker'[e].lookup = Lookup(entry[e].domain, kind, now)
      BY <1>3, <3>2, <3>4
    <3>5. CASE worker'[e] = StartedWorker(e)
      BY <1>2, <1>5, <3>5 DEF StartedWorker, TypeOK, Workers
    <3>6. QED
      BY <1>5, <3>3, <3>4, <3>5, WorkerSteps DEF WorkerMove
  <2>2. CASE worker[e].pc \notin {"calling", "sending"}
    <3>1. worker[e] \in Workers /\ MaxRetrievalRetries # 0
      BY DEF TypeOK
    <3>2. worker'[e] = StartedWorker(e) => worker'[e].pc = "calling"
      BY <3>1 DEF StartedWorker, Workers
    <3>3. QED
      BY <1>5, <2>2, <3>2, WorkerSteps DEF WorkerMove
  <2>3. QED
    BY <2>1, <2>2
<1>6. ASSUME NEW c \in Clients, client'[c].pc = "done"
      PROVE  client'[c].answer # None /\ Answers(client'[c].answer, client'[c].domain)
  <2>1. CASE client'[c] = client[c]
    BY <1>6, <2>1 DEF AnswersAreLookups, Answers
  <2>2. CASE /\ client[c].pc \in Holding
             /\ client'[c].domain = client[c].domain
             /\ client'[c].answer = entry[client[c].entry].response
             /\ client'[c].answer # None
    <3>1. client[c].entry \in EntryIds /\ entry[client[c].entry].domain = client[c].domain
      BY <1>2, <2>2 DEF References
    <3>2. QED
      BY <2>2, <3>1 DEF Responses
  <2>3. CASE /\ client[c].pc \in Holding
             /\ client'[c].domain = client[c].domain
             /\ client'[c].answer = Lookup(client[c].domain, "error", now)
    <3>1. Lookup(client[c].domain, "error", now) \in Lookups
      BY DEF Lookup, Lookups, ApiKinds, TypeOK, ClientStates
    <3>2. QED
      BY <1>3, <2>3, <3>1 DEF ApiKinds
  <2>4. QED
    BY <1>6, <2>1, <2>2, <2>3, ClientSteps DEF ClientMove
<1>7. Responses'
  BY <1>4, <1>5 DEF Responses, Answers
<1>8. AnswersAreLookups'
  BY <1>6 DEF AnswersAreLookups, Answers
<1>9. QED
  BY <1>7, <1>8

\* The deadline of a retrieval is set once, by the first caller of
\* Entry.Retrieve, so that callers that join later wait no longer than it.
LEMMA WaitStep ==
    ASSUME TypeOK, References, Refreshes, Retrievals, WaitIsBounded, [Next]_vars
    PROVE  Retrievals' /\ WaitIsBounded'
<1> USE ConstantsAssumption
<1>1. EntryStep /\ TypeOK'
  BY EntrySteps, TypeStep
<1>2. 1..created \subseteq 1..created' /\ 1..created \subseteq EntryIds /\ created \in Nat /\ created' \in Nat
  BY <1>1 DEF EntryStep, TypeOK, EntryIds
<1>3. /\ now \in Nat /\ now' \in Nat /\ now <= now'
      /\ \A t \in Nat : now + t \in Nat /\ now' + t \in Nat /\ now + t <= now' + t
  <2>1. now \in Nat /\ now' \in Nat /\ now <= now'
    BY <1>1, ClockSteps DEF TypeOK, Tick
  <2>2. ASSUME NEW t \in Nat
        PROVE  now + t \in Nat /\ now' + t \in Nat /\ now + t <= now' + t
    BY Zenon, <2>1, Later
  <2>3. QED
    BY Zenon, <2>1, <2>2
<1>4. ASSUME NEW e \in EntryIds
      PROVE  /\ entry'[e].retrieve = "returned" => entry'[e].response # None
             /\ entry'[e].retrieve = "running" => entry'[e].deadline <= now' + RetrievalTimeout
  <2>1. CASE e \in 1..created
    <3>1. EntryMove(e)
      BY <1>1, <2>1 DEF EntryStep
    <3>2. entry'[e].retrieve = "returned" => entry'[e].response # None
      BY <3>1 DEF EntryMove, RetrieveMove, Retrievals
    <3>3. entry'[e].retrieve = "running" =>
            entry'[e].deadline = now + RetrievalTimeout \/ entry'[e].deadline <= now + RetrievalTimeout
      BY <3>1 DEF EntryMove, RetrieveMove, Retrievals
    <3>4. entry'[e].deadline \in Nat
      BY <1>1 DEF TypeOK, Entries
    <3>5. QED
      BY <1>3, <3>2, <3>3, <3>4
  <2>2. CASE e \in 1..created' /\ e \notin 1..created
    <3>1. PICK d \in Domains : entry'[e] \in {newCacheEntry(d), StartedEntry(d)}
      BY <1>1, <1>2, <2>2 DEF EntryStep
    <3> DEFINE x == entry'[e]
    <3>2. \/ x.retrieve = "idle"
          \/ x.retrieve = "running" /\ x.deadline = now + RetrievalTimeout
      <4> HIDE DEF x
      <4>1. x \in {newCacheEntry(d), StartedEntry(d)}
        BY <3>1 DEF x
      <4>2. QED
        BY <4>1, NewFields
    <3>3. x.retrieve = "running" => x.deadline <= now' + RetrievalTimeout
      <4>1. now + RetrievalTimeout <= now' + RetrievalTimeout
        BY Zenon, <1>3
      <4> HIDE DEF x
      <4>2. QED
        BY <3>2, <4>1
    <3>4. QED
      BY <3>2, <3>3
  <2>3. CASE e \notin 1..created'
    <3>1. entry'[e] = entry[e] /\ e \notin 1..created
      BY <1>1, <1>2, <2>3 DEF EntryStep
    <3>2. entry'[e] = Unused
      BY <3>1 DEF References
    <3>3. QED
      BY <3>2 DEF Unused
  <2>4. QED
    BY <2>1, <2>2, <2>3
<1>5. ASSUME NEW c \in Clients, client'[c].pc = "waiting", entry'[client'[c].entry].response = None
      PROVE  /\ entry'[client'[c].entry].retrieve = "running"
             /\ entry'[client'[c].entry].deadline <= client'[c].since + RetrievalTimeout
  <2> DEFINE e == client[c].entry
  <2>1. client[c].pc \in Holding /\ client'[c].entry = e
    BY <1>5, ClientSteps DEF ClientMove, Holding
  <2>2. e \in 1..created /\ EntryMove(e)
    BY <1>1, <2>1 DEF References, EntryStep
  <2>3. entry[e].response = None
    BY <1>5, <2>1, <2>2 DEF EntryMove
  <2>4. CASE client'[c] = client[c]
    <3>1. entry[e].retrieve = "running" /\ entry[e].deadline <= client[c].since + RetrievalTimeout
      BY <1>5, <2>3, <2>4 DEF WaitIsBounded, isResolved
    <3>2. QED
      BY <1>5, <2>1, <2>2, <2>4, <3>1 DEF EntryMove, RetrieveMove
  <2>5. CASE client'[c].since = now /\ entry'[e].retrieve # "idle"
    <3>1. entry'[e] \in Entries
      BY <1>1, <1>2, <2>2 DEF TypeOK
    <3>2. entry'[e].retrieve # "returned"
      BY <1>2, <1>4, <1>5, <2>1, <2>2
    <3>3. entry'[e].retrieve = "running"
      BY <2>5, <3>1, <3>2 DEF Entries
    <3>4. entry'[e].deadline <= now + RetrievalTimeout
      <4>1. entry[e].retrieve = "running" => entry[e].deadline <= now + RetrievalTimeout
        BY <1>2, <2>2 DEF Retrievals
      <4>2. \/ entry[e].retrieve = "running" /\ entry'[e].deadline = entry[e].deadline
            \/ entry'[e].deadline = now + RetrievalTimeout
        BY <2>2, <3>3 DEF EntryMove, RetrieveMove
      <4>3. now + RetrievalTimeout <= now + RetrievalTimeout
        BY <1>3
      <4>4. QED
        BY <4>1, <4>2, <4>3
    <3>5. QED
      BY <2>1, <2>5, <3>3, <3>4
  <2>6. QED
    BY <1>5, <2>4, <2>5, ClientSteps DEF ClientMove, Holding
<1>6. QED
  BY <1>4, <1>5 DEF Retrievals, WaitIsBounded, isResolved

\* The retrieval of an entry is started once, and the loop of resolveWithBackoff
\* keeps its count of requests.
LEMMA RequestsStep ==
    ASSUME TypeOK, References, Refreshes, Requests, RequestsBounded, [Next]_vars
    PROVE  Requests' /\ RequestsBounded'
<1> SUFFICES ASSUME NEW e \in EntryIds
             PROVE  /\ entry'[e].retrieve = "idle" => worker'[e].pc = "idle"
                    /\ worker'[e].pc = "idle" => worker'[e].requests = 0
                    /\ worker'[e].pc = "calling" =>
                        worker'[e].requests < worker'[e].i /\ worker'[e].i <= MaxRetrievalRetries
                    /\ worker'[e].requests <= MaxRetrievalRetries
  BY DEF Requests, RequestsBounded
<1>1. /\ worker[e].requests \in Nat /\ worker[e].i \in Nat /\ MaxRetrievalRetries \in Nat
      /\ worker[e] \in Workers
  BY ConstantsAssumption DEF TypeOK, Workers
<1>2. /\ worker[e].requests <= MaxRetrievalRetries
      /\ entry[e].retrieve = "idle" => worker[e].pc = "idle"
      /\ worker[e].pc = "idle" => worker[e].requests = 0
      /\ worker[e].pc = "calling" =>
            worker[e].requests < worker[e].i /\ worker[e].i <= MaxRetrievalRetries
  BY DEF Requests, RequestsBounded
<1>3. entry'[e].retrieve = "idle" => entry[e].retrieve = "idle"
  <2>1. EntryStep
    BY EntrySteps
  <2>2. CASE e \in 1..created
    BY <2>1, <2>2 DEF EntryStep, EntryMove, RetrieveMove
  <2>3. CASE e \notin 1..created
    BY <2>3 DEF References, Unused
  <2>4. QED
    BY <2>2, <2>3
<1>4. CASE worker'[e] = StartedWorker(e) /\ entry[e].retrieve = "idle" /\ entry'[e].retrieve # "idle"
  <2>1. /\ worker'[e].requests = 0 /\ worker'[e].i = 1
        /\ worker'[e].pc \in {"calling", "sending"}
        /\ worker'[e].pc = "calling" => MaxRetrievalRetries # 0
    BY <1>1, <1>2, <1>4 DEF StartedWorker, Workers
  <2>2. QED
    BY <1>1, <1>4, <2>1
<1>5. CASE worker'[e] = worker[e]
  BY <1>2, <1>3, <1>5
<1>6. CASE /\ worker[e].pc = "calling"
           /\ worker'[e].requests = worker[e].requests + 1
           /\ \/ worker'[e].pc = "sending"
              \/ /\ worker'[e].pc = "calling"
                 /\ worker[e].i # MaxRetrievalRetries
                 /\ worker'[e].i = worker[e].i + 1
  <2>1. entry'[e].retrieve # "idle" /\ worker'[e].pc # "idle"
    BY <1>2, <1>3, <1>6
  <2>2. QED
    BY <1>1, <1>2, <1>6, <2>1
<1>7. CASE /\ worker'[e].pc = "stopped" /\ worker[e].pc = "sending"
           /\ worker'[e].requests = worker[e].requests
  BY <1>2, <1>3, <1>7
<1>8. QED
  BY <1>4, <1>5, <1>6, <1>7, WorkerSteps DEF WorkerMove

\* Create makes an entry only when the item of its domain has expired, and an
\* item expires no sooner than the entries created for the domain.
LEMMA ApartStep ==
    ASSUME TypeOK, References, Refreshes, Outlived, CreatedApart, [Next]_vars
    PROVE  Outlived' /\ CreatedApart'
<1> USE ConstantsAssumption, NoneAssumption
<1>1. EntryStep /\ TypeOK' /\ References'
  BY EntrySteps, TypeStep, ReferencesStep
<1>2. 1..created \subseteq 1..created' /\ 1..created \subseteq EntryIds /\ created \in Nat /\ created' \in Nat
  BY <1>1 DEF EntryStep, TypeOK, EntryIds
<1>3. /\ now \in Nat /\ now' \in Nat /\ now <= now'
      /\ \A t \in Nat : now + t \in Nat /\ now' + t \in Nat /\ now + t <= now' + t
  <2>1. now \in Nat /\ now' \in Nat /\ now <= now'
    BY <1>1, ClockSteps DEF TypeOK, Tick
  <2>2. ASSUME NEW t \in Nat
        PROVE  now + t \in Nat /\ now' + t \in Nat /\ now + t <= now' + t
    BY Zenon, <2>1, Later
  <2>3. QED
    BY Zenon, <2>1, <2>2
<1>4. ASSUME NEW e \in 1..created
      PROVE  /\ entry'[e].domain = entry[e].domain
             /\ entry'[e].created = entry[e].created
             /\ entry[e].domain \in Domains
             /\ entry[e].created \in Nat
             /\ entry'[e].next # None \/ entry[e].next = None
             /\ entry[e].next # None => entry'[e].next = entry[e].next
  <2>1. EntryMove(e) /\ e \in EntryIds
    BY <1>1, <1>2 DEF EntryStep
  <2>2. entry[e].domain \in Domains /\ entry[e].created \in Nat
    BY <2>1 DEF References, TypeOK, Entries
  <2>3. entry[e].next # None => entry'[e].next = entry[e].next
    BY <2>1 DEF EntryMove, RefreshMove, Refreshes
  <2>4. QED
    BY <2>1, <2>2, <2>3 DEF EntryMove
<1>5. ASSUME NEW e \in 1..created, e \in RefreshEntries PROVE e \in RefreshEntries'
  <2>1. PICK f \in EntryIds : entry[f].next = e
    BY <1>5 DEF RefreshEntries
  <2>2. entry[f].next # None
    BY <1>2, <2>1 DEF EntryIds
  <2>3. f \in 1..created
    BY <2>2 DEF References, Unused
  <2>4. entry'[f].next = e
    BY <1>4, <2>1, <2>2, <2>3
  <2>5. QED
    BY <2>1, <2>4 DEF RefreshEntries
<1>6. ASSUME NEW d \in Domains
      PROVE  /\ store'[d] # None => store'[d].expires <= now' + CacheExpiry
             /\ store[d] # None => store'[d] # None /\ store[d].expires <= store'[d].expires
  <2>1. store[d] # None => store[d].expires \in Nat /\ store[d].expires <= now + CacheExpiry
    BY DEF Outlived, TypeOK, Items
  <2>2. CASE store'[d] = store[d]
    BY <1>3, <2>1, <2>2
  <2>3. CASE store'[d].expires = now + CacheExpiry /\ store'[d] # None
    BY Zenon, <1>3, <2>1, <2>3
  <2>4. ASSUME NEW x \in EntryIds, store'[d] = [entry |-> x, expires |-> now + CacheExpiry]
        PROVE  store'[d].expires = now + CacheExpiry /\ store'[d] # None
    <3>1. store'[d] \in Items
      BY <1>3, <2>4 DEF Items
    <3>2. QED
      BY <2>4, <3>1
  <2>5. CASE created' = created + 1 /\ store'[d] = [entry |-> created', expires |-> now + CacheExpiry]
    <3>1. created' \in EntryIds
      BY <1>1, <1>2, <2>5 DEF EntryStep
    <3>2. QED
      BY <2>3, <2>4, <2>5, <3>1
  <2>6. ASSUME NEW e \in EntryIds, entry[e].refresh = "storing",
               store'[d] = [entry |-> entry[e].next, expires |-> now + CacheExpiry]
        PROVE  store'[d].expires = now + CacheExpiry /\ store'[d] # None
    <3>1. entry[e].next \in EntryIds
      BY <1>2, <2>6 DEF Refreshes
    <3>2. QED
      BY <2>4, <2>6, <3>1
  <2>7. QED
    BY Zenon, <2>2, <2>3, <2>5, <2>6, StoreSteps DEF StoreMove
\* The only entry a step may add to those LoadOrCreate has created.
<1>7. ASSUME NEW e \in 1..created', e \notin 1..created, e \notin RefreshEntries'
      PROVE  /\ entry'[e].domain \in Domains
             /\ entry'[e].created = now
             /\ ~Found(entry'[e].domain)
             /\ store'[entry'[e].domain] = [entry |-> e, expires |-> now + CacheExpiry]
  <2>1. e = created' /\ created' = created + 1 /\ created' \in EntryIds
    BY <1>1, <1>2, <1>7 DEF EntryStep
  <2>2. PICK c \in Clients : Create(c) /\ ~Found(client[c].domain)
    <3>1. ASSUME NEW c \in Clients, CheckNeedsRefresh(c) PROVE FALSE
      <4>1. client[c].entry \in EntryIds
        BY <1>2, <3>1 DEF CheckNeedsRefresh, References, Holding
      <4>2. client[c].entry # created + 1
        <5>1. client[c].pc \in Holding
          BY <3>1 DEF CheckNeedsRefresh, Holding
        <5>2. client[c].entry \in 1..created /\ created \in Nat
          BY <1>2, <5>1 DEF References
        <5>3. QED
          BY <5>2
      <4>3. created' # created
        BY <1>2, <2>1
      <4>4. \E x : entry' = [entry EXCEPT ![client[c].entry].refresh = "retrieving",
                                         ![client[c].entry].next = created + 1,
                                         ![created + 1] = x]
        BY <3>1, <4>3 DEF CheckNeedsRefresh
      <4>5. entry'[client[c].entry].next = created + 1
        BY <4>1, <4>2, <4>4 DEF TypeOK, Entries
      <4>6. QED
        BY Zenon, <1>7, <2>1, <4>1, <4>5 DEF RefreshEntries
    <3>2. created' # created
      BY <1>2, <2>1
    <3>3. ASSUME NEW c \in Clients, Create(c), Found(client[c].domain) PROVE FALSE
      BY <3>2, <3>3 DEF Create
    <3>4. QED
      BY Zenon, <3>1, <3>2, <3>3
         DEF Next, vars, Caller, Background, Tick, CheckUpToDate, Retrieve, Retrieved,
             ContextDone, Load, GetLookup, Respond, RetrievalDone, RefreshRetrieved,
             ReplaceOrCreate
  <2>3. client[c].domain \in Domains
    BY <2>2 DEF Create, References, TypeOK, ClientStates
  <2>4. entry'[e] = newCacheEntry(client[c].domain)
    BY <2>1, <2>2 DEF Create, TypeOK
  <2>5. entry'[e].domain = client[c].domain /\ entry'[e].created = now
    BY <2>3, <2>4, NewFields
  <2>6. store'[client[c].domain] = [entry |-> e, expires |-> now + CacheExpiry]
    BY <2>1, <2>2, <2>3 DEF Create, SetDefault, TypeOK
  <2>7. QED
    BY <2>2, <2>3, <2>5, <2>6
<1>8. ASSUME NEW e \in 1..created', e \notin RefreshEntries'
      PROVE  /\ store'[entry'[e].domain] # None
             /\ entry'[e].created + CacheExpiry <= store'[entry'[e].domain].expires
  <2>1. CASE e \in 1..created
    <3> DEFINE d == entry[e].domain
    <3>1. d \in Domains /\ entry'[e].domain = d /\ entry'[e].created = entry[e].created /\ entry[e].created \in Nat
      BY <1>4, <2>1
    <3>2. store[d] # None /\ entry[e].created + CacheExpiry <= store[d].expires
      BY <1>5, <1>8, <2>1 DEF Outlived
    <3>3. store'[d] # None /\ store[d].expires <= store'[d].expires
      BY <1>6, <3>1, <3>2
    <3>4. store[d].expires \in Nat /\ store'[d].expires \in Nat
      BY <1>1, <3>1, <3>2, <3>3 DEF TypeOK, Items
    <3> HIDE DEF d
    <3>5. QED
      BY <3>1, <3>2, <3>3, <3>4
  <2>2. CASE e \notin 1..created
    <3>1. /\ entry'[e].domain \in Domains /\ entry'[e].created = now
          /\ store'[entry'[e].domain] = [entry |-> e, expires |-> now + CacheExpiry]
      BY <1>7, <1>8, <2>2
    <3>2. e \in EntryIds /\ now + CacheExpiry \in Nat /\ now + CacheExpiry <= now + CacheExpiry
      BY <1>1, <1>3 DEF TypeOK, EntryIds
    <3>3. [entry |-> e, expires |-> now + CacheExpiry] \in Items
      BY <3>2 DEF Items
    <3>4. QED
      BY <3>1, <3>2, <3>3
  <2>3. QED
    BY <2>1, <2>2
<1>9. Outlived'
  BY <1>6, <1>8 DEF Outlived
<1>10. ASSUME NEW e \in 1..created', NEW f \in 1..created', e < f,
              entry'[e].domain = entry'[f].domain,
              e \notin RefreshEntries', f \notin RefreshEntries'
       PROVE  entry'[f].created > entry'[e].created + CacheExpiry
  <2>1. CASE f \in 1..created
    <3>1. e \in 1..created
      BY <1>2, <1>10, <2>1
    <3>2. e \notin RefreshEntries /\ f \notin RefreshEntries
      BY <1>5, <1>10, <2>1, <3>1
    <3>3. entry[e].domain = entry[f].domain
      BY <1>4, <1>10, <2>1, <3>1
    <3>4. entry[f].created > entry[e].created + CacheExpiry
      BY <1>10, <2>1, <3>1, <3>2, <3>3 DEF CreatedApart
    <3>5. QED
      BY <1>4, <2>1, <3>1, <3>4
  <2>2. CASE f \notin 1..created
    <3> DEFINE d == entry'[f].domain
    <3>1. d \in Domains /\ entry'[f].created = now /\ ~Found(d)
      BY Zenon, <1>7, <1>10, <2>2
    <3>2. e \in 1..created
      BY <1>1, <1>2, <1>10, <2>2 DEF EntryStep
    <3>3. e \notin RefreshEntries /\ entry[e].domain = d /\ entry[e].created \in Nat
          /\ entry'[e].created = entry[e].created
      BY <1>4, <1>5, <1>10, <3>2
    <3>4. store[d] # None /\ entry[e].created + CacheExpiry <= store[d].expires
      BY <3>2, <3>3 DEF Outlived
    <3>5. store[d].expires \in Nat
      BY <3>1, <3>4 DEF TypeOK, Items
    <3> HIDE DEF d
    <3>6. now > store[d].expires
      <4>1. ~(now <= store[d].expires)
        BY <3>1, <3>4 DEF Found
      <4>2. now \in Nat
        BY <1>3
      <4>3. QED
        BY <3>5, <4>1, <4>2
    <3>7. QED
      BY <1>3, <3>1, <3>3, <3>4, <3>5, <3>6
  <2>3. QED
    BY <2>1, <2>2
<1>11. CreatedApart'
  BY <1>10 DEF CreatedApart
<1>12. QED
  BY <1>9, <1>11
-----------------------------------------------------------------------------
(* The theorems.                                                           *)

\* An empty store and no entries: memstore as newMemStore makes it.
LEMMA InitIInv == Init => IInv
<1> SUFFICES ASSUME Init PROVE IInv
  OBVIOUS
<1> USE ConstantsAssumption
<1>1. Unused \in Entries
  BY DEF Unused, Entries
<1>2. Lookup(None, "zero", 0) \in Lookups
  BY DEF Lookup, Lookups
<1>3. TypeOK
  <2>1. worker \in [EntryIds -> Workers]
    BY <1>2 DEF Init, Workers
  <2>2. client \in [Clients -> ClientStates]
    BY DEF Init, ClientStates
  <2>3. QED
    BY <1>1, <2>1, <2>2 DEF Init, TypeOK
<1>4. 1..created = {}
  BY DEF Init
<1>5. References /\ Refreshes
  BY <1>4 DEF Init, References, Refreshes, Unused, Holding
<1>6. Responses /\ AnswersAreLookups
  BY DEF Init, Responses, AnswersAreLookups, Unused
<1>7. Retrievals /\ WaitIsBounded
  BY DEF Init, Retrievals, WaitIsBounded, Unused
<1>8. Requests /\ RequestsBounded
  BY ConstantsAssumption DEF Init, Requests, RequestsBounded
<1>9. Outlived /\ CreatedApart
  BY <1>4 DEF Init, Outlived, CreatedApart
<1>10. QED
  BY <1>3, <1>5, <1>6, <1>7, <1>8, <1>9 DEF IInv

\* Every step of the callers, the retrievals and the refreshes preserves the
\* invariant.
LEMMA Inductive == IInv /\ [Next]_vars => IInv'
<1> SUFFICES ASSUME IInv, [Next]_vars PROVE IInv'
  OBVIOUS
<1>1. TypeOK /\ References /\ Refreshes /\ Retrievals /\ WaitIsBounded /\ Requests
      /\ RequestsBounded /\ Outlived /\ CreatedApart
  BY DEF IInv
<1>2. TypeOK' /\ References' /\ Refreshes'
  BY <1>1, TypeStep, ReferencesStep, RefreshesStep
<1>3. MaxRetrievalRetries # 0 => Responses' /\ AnswersAreLookups'
  BY <1>1, AnswersStep DEF IInv
<1>4. Retrievals' /\ WaitIsBounded'
  BY <1>1, WaitStep
<1>5. Requests' /\ RequestsBounded'
  BY <1>1, RequestsStep
<1>6. Outlived' /\ CreatedApart'
  BY <1>1, ApartStep
<1>7. QED
  BY <1>2, <1>3, <1>4, <1>5, <1>6 DEF IInv

\* The invariant holds in every state the cache can be in.
THEOREM Invariance == Spec => []IInv
BY InitIInv, Inductive, PTL DEF Spec

\* Every variable of the cache keeps its type.
THEOREM TypeCorrect == Spec => []TypeOK
<1>1. IInv => TypeOK
  BY DEF IInv
<1>2. QED
  BY <1>1, Invariance, PTL

\* With at least one API request per retrieval, Resolve returns a lookup that
\* is not empty, and a domain only to callers that asked for it.
THEOREM AnswersCorrect ==
    ASSUME MaxRetrievalRetries # 0
    PROVE  Spec => []AnswersAreLookups
<1>1. IInv => AnswersAreLookups
  BY DEF IInv
<1>2. QED
  BY <1>1, Invariance, PTL

\* A caller blocked in Entry.Retrieve waits for a retrieval that is running
\* and ends within RetrievalTimeout of the moment the caller began to wait.
THEOREM WaitCorrect == Spec => []WaitIsBounded
<1>1. IInv => WaitIsBounded
  BY DEF IInv
<1>2. QED
  BY <1>1, Invariance, PTL

\* resolveWithBackoff makes at most MaxRetrievalRetries requests per entry.
THEOREM RequestsCorrect == Spec => []RequestsBounded
<1>1. IInv => RequestsBounded
  BY DEF IInv
<1>2. QED
  BY <1>1, Invariance, PTL

\* However callers of LoadOrCreate interleave, the entries they create for a
\* domain are more than CacheExpiry apart.
THEOREM CreatedApartCorrect == Spec => []CreatedApart
<1>1. IInv => CreatedApart
  BY DEF IInv
<1>2. QED
  BY <1>1, Invariance, PTL

\* No step replaces a resolved entry of the store by one that callers would
\* wait for: LoadOrCreate replaces only what is not found, and a refresh
\* stores an entry only once it has its response.
THEOREM ReplacementResolved == Spec => ResolvedNeverLost
<1>1. ASSUME IInv, [Next]_vars, NEW d \in Domains,
             Found(d), isResolved(store[d].entry), store'[d] # store[d]
      PROVE  entry'[store'[d].entry].response # None
  <2>1. TypeOK /\ References /\ Refreshes
    BY <1>1 DEF IInv
  <2>2. TypeOK' /\ References' /\ Refreshes' /\ EntryStep /\ StoreMove(d)
    BY <1>1, <2>1, TypeStep, ReferencesStep, RefreshesStep, EntrySteps, StoreSteps
  <2>3. PICK e \in EntryIds :
            /\ entry[e].refresh = "storing"
            /\ store'[d] = [entry |-> entry[e].next, expires |-> now + CacheExpiry]
    BY <1>1, <2>2 DEF StoreMove
  <2>4. entry[e].next \in 1..created /\ entry[entry[e].next].response # None
    BY <2>1, <2>3 DEF Refreshes
  <2>5. entry'[entry[e].next].response # None
    BY <2>2, <2>4 DEF EntryStep, EntryMove
  <2>6. QED
    BY <2>3, <2>5
<1>2. IInv /\ [Next]_vars =>
        [\A d \in Domains :
            Found(d) /\ isResolved(store[d].entry) /\ store'[d] # store[d]
                => isResolved(store[d].entry)']_vars
  BY <1>1 DEF isResolved
<1>3. QED
  BY <1>2, Invariance, PTL DEF Spec, ResolvedNeverLost

-----------------------------------------------------------------------------
(* Nobody waits in vain: the part of ResolveReturns and RefreshEnds that   *)
(* holds without any fairness.                                             *)

\* The goroutine that is to resolve entry e has not given it up.
UnderWay(e) == entry[e].retrieve = "running" /\ worker[e].pc \in {"calling", "sending"}

\* Whoever is blocked on an entry, a caller in Entry.Retrieve or refreshFunc
\* on its new entry, finds it resolved, or its retrieval is still under way.
NobodyAbandoned ==
    /\ \A c \in Clients : client[c].pc = "waiting" =>
          isResolved(client[c].entry) \/ UnderWay(client[c].entry)
    /\ \A e \in EntryIds : entry[e].refresh = "retrieving" =>
          isResolved(entry[e].next) \/ UnderWay(entry[e].next)

\* A running retrieval has a goroutine of resolveWithBackoff that has not
\* stopped, and a refresh waits for a retrieval that was started.
Attended ==
    /\ \A e \in EntryIds : entry[e].retrieve = "running" => worker[e].pc \in {"calling", "sending"}
    /\ \A e \in EntryIds : entry[e].refresh = "retrieving" => entry[entry[e].next].retrieve # "idle"

\* The goroutine stops only by handing over its lookup, which ends the
\* retrieval; the timeout of the retrieval ends it and leaves the goroutine.
LEMMA WorkersStay ==
    ASSUME TypeOK, References, Attended, [Next]_vars, NEW e \in EntryIds,
           entry'[e].retrieve = "running"
    PROVE  worker'[e].pc \in {"calling", "sending"}
<1> USE ConstantsAssumption
<1> /\ entry \in [EntryIds -> Entries] /\ worker \in [EntryIds -> Workers]
    /\ entry[e] \in Entries /\ worker[e] \in Workers
  BY DEF TypeOK
<1>1. ASSUME NEW c \in Clients, CheckNeedsRefresh(c) PROVE worker'[e].pc \in {"calling", "sending"}
  <2>1. CASE entry' = entry /\ worker' = worker
    BY <2>1 DEF Attended
  <2>2. CASE /\ created + 1 \in EntryIds
             /\ entry' = [entry EXCEPT ![client[c].entry].refresh = "retrieving",
                                       ![client[c].entry].next = created + 1,
                                       ![created + 1] = StartedEntry(entry[client[c].entry].domain)]
             /\ worker' = [worker EXCEPT ![created + 1] = StartedWorker(created + 1)]
    <3>1. CASE e = created + 1
      BY <2>2, <3>1 DEF StartedWorker
    <3>2. CASE e # created + 1
      <4>1. entry'[e].retrieve = entry[e].retrieve /\ worker'[e] = worker[e]
        BY <2>2, <3>2 DEF Entries
      <4>2. QED
        BY <4>1 DEF Attended
    <3>3. QED
      BY <3>1, <3>2
  <2>3. QED
    BY <1>1, <2>1, <2>2 DEF CheckNeedsRefresh, StartedEntry
<1>2. ASSUME NEW c \in Clients, Retrieve(c) PROVE worker'[e].pc \in {"calling", "sending"}
  <2>1. StartedWorker(e).pc \in {"calling", "sending"}
    BY DEF StartedWorker, Workers
  <2>2. CASE worker'[e] = StartedWorker(e)
    BY <2>1, <2>2
  <2>3. CASE entry'[e].retrieve = entry[e].retrieve /\ worker'[e] = worker[e]
    BY <2>3 DEF Attended
  <2>4. QED
    BY <1>2, <2>2, <2>3 DEF Retrieve
<1>3. ASSUME NEW f \in EntryIds, NEW kind \in ApiKinds, GetLookup(f, kind)
      PROVE  worker'[e].pc \in {"calling", "sending"}
  BY <1>3 DEF GetLookup, Attended
<1>4. ASSUME NEW f \in EntryIds, Respond(f) PROVE worker'[e].pc \in {"calling", "sending"}
  <2>1. worker[f].lookup \in Lookups
    BY DEF TypeOK, Workers
  <2>2. f # e /\ entry'[e] = entry[e]
    BY <1>4, <2>1, Responded DEF Respond
  <2>3. QED
    BY <1>4, <2>2 DEF Respond, Attended
<1>5. CASE worker' = worker /\ (entry[e].retrieve = "running" \/ entry'[e].retrieve = entry[e].retrieve)
  BY <1>5 DEF Attended
<1>6. ASSUME NEW c \in Clients, Create(c) PROVE worker'[e].pc \in {"calling", "sending"}
  <2>1. worker' = worker /\ (entry'[e] = entry[e] \/ entry'[e] = newCacheEntry(client[c].domain))
    BY <1>6 DEF Create
  <2>2. entry'[e] = entry[e]
    BY Zenon, <2>1 DEF newCacheEntry, Unused
  <2>3. QED
    BY <1>5, <2>1, <2>2
<1>7. ASSUME NEW f \in EntryIds, RetrievalDone(f) PROVE worker'[e].pc \in {"calling", "sending"}
  BY <1>5, <1>7 DEF RetrievalDone, setResponse
<1>8. ASSUME NEW f \in EntryIds, RefreshRetrieved(f) PROVE worker'[e].pc \in {"calling", "sending"}
  <2>1. entry'[e].retrieve = entry[e].retrieve
    BY <1>8 DEF RefreshRetrieved, Entries
  <2>2. QED
    BY <1>5, <1>8, <2>1 DEF RefreshRetrieved
<1>9. ASSUME NEW f \in EntryIds, ReplaceOrCreate(f) PROVE worker'[e].pc \in {"calling", "sending"}
  <2>1. entry'[e].retrieve = entry[e].retrieve
    BY <1>9 DEF ReplaceOrCreate, Entries
  <2>2. QED
    BY <1>5, <1>9, <2>1 DEF ReplaceOrCreate
<1>10. CASE entry' = entry /\ worker' = worker
  BY <1>10 DEF Attended
<1>11. QED
  BY <1>1, <1>2, <1>3, <1>4, <1>6, <1>7, <1>8, <1>9, <1>10
     DEF Next, Caller, Background, vars, Tick, CheckUpToDate, Retrieved,
         ContextDone, Load

\* A refresh starts the retrieval of its new entry with the refresh itself, and
\* a retrieval that was started is never started again.
LEMMA AttendedStep ==
    ASSUME TypeOK, References, Refreshes, Retrievals, Attended, [Next]_vars
    PROVE  Attended'
<1> USE ConstantsAssumption
<1>1. EntryStep /\ TypeOK'
  BY EntrySteps, TypeStep
<1>2. 1..created \subseteq EntryIds /\ created \in Nat
  BY DEF TypeOK, EntryIds
<1>3. ASSUME NEW e \in EntryIds, entry'[e].refresh = "retrieving"
      PROVE  entry'[entry'[e].next].retrieve # "idle"
  <2>1. CASE e \in 1..created
    <3>1. EntryMove(e)
      BY <1>1, <2>1 DEF EntryStep
    <3>2. CASE entry[e].refresh = "retrieving" /\ entry'[e].next = entry[e].next
      <4>1. entry[e].next \in 1..created /\ entry[entry[e].next].retrieve # "idle"
        BY <3>2 DEF Attended, Refreshes
      <4>2. EntryMove(entry[e].next)
        BY <1>1, <4>1 DEF EntryStep
      <4>3. QED
        BY <3>2, <4>1, <4>2 DEF EntryMove, RetrieveMove
    <3>3. CASE /\ entry'[e].next = created + 1
               /\ entry'[created + 1] = StartedEntry(entry[e].domain)
      BY <3>3 DEF StartedEntry, newCacheEntry, Unused
    <3>4. QED
      BY <1>3, <3>1, <3>2, <3>3 DEF EntryMove, RefreshMove
  <2>2. CASE e \in 1..created' /\ e \notin 1..created
    <3>1. \E d \in Domains : entry'[e] \in {newCacheEntry(d), StartedEntry(d)}
      BY <1>1, <1>2, <2>2 DEF EntryStep
    <3>2. QED
      BY <1>3, <3>1, NewFields
  <2>3. CASE e \notin 1..created'
    <3>1. entry'[e] = entry[e] /\ e \notin 1..created
      BY <1>1, <1>2, <2>3 DEF EntryStep
    <3>2. entry[e] = Unused
      BY <3>1 DEF References
    <3>3. entry'[e].refresh = "idle"
      BY <3>1, <3>2 DEF Unused
    <3>4. QED
      BY <1>3, <3>3
  <2>4. QED
    BY <2>1, <2>2, <2>3
<1>4. ASSUME NEW e \in EntryIds, entry'[e].retrieve = "running"
      PROVE  worker'[e].pc \in {"calling", "sending"}
  BY <1>4, WorkersStay
<1>5. QED
  BY <1>3, <1>4 DEF Attended

\* No caller of Resolve and no refresh waits for an entry that nobody is
\* going to resolve, however the timeouts of callers and retrievals, the
\* answers of the API and the refreshes interleave.
THEOREM NobodyWaitsInVain == Spec => []NobodyAbandoned
<1>1. Init => Attended
  BY DEF Init, Attended, Unused
<1>2. IInv /\ Attended /\ [Next]_vars => Attended'
  BY AttendedStep DEF IInv
<1>3. ASSUME IInv, Attended PROVE NobodyAbandoned
  <2>1. TypeOK /\ References /\ Refreshes /\ Retrievals /\ WaitIsBounded
    BY <1>3 DEF IInv
  <2>2. 1..created \subseteq EntryIds
    BY <2>1, ConstantsAssumption DEF TypeOK, EntryIds
  <2>3. ASSUME NEW c \in Clients, client[c].pc = "waiting", ~isResolved(client[c].entry)
        PROVE  UnderWay(client[c].entry)
    <3>1. client[c].entry \in EntryIds
      BY <2>1, <2>2, <2>3 DEF References, Holding
    <3>2. entry[client[c].entry].retrieve = "running"
      BY <2>1, <2>3 DEF WaitIsBounded
    <3>3. QED
      BY <1>3, <3>1, <3>2 DEF Attended, UnderWay
  <2>4. ASSUME NEW e \in EntryIds, entry[e].refresh = "retrieving", ~isResolved(entry[e].next)
        PROVE  UnderWay(entry[e].next)
    <3>1. entry[e].next \in EntryIds
      BY <2>1, <2>2, <2>4 DEF Refreshes
    <3>2. entry[entry[e].next].retrieve \notin {"idle", "returned"}
      BY <1>3, <2>1, <2>4, <3>1 DEF Attended, Retrievals, isResolved
    <3>3. entry[entry[e].next].retrieve = "running"
      BY <2>1, <3>1, <3>2 DEF TypeOK, Entries
    <3>4. QED
      BY <1>3, <3>1, <3>3 DEF Attended, UnderWay
  <2>5. QED
    BY <2>3, <2>4 DEF NobodyAbandoned
<1>4. QED
  BY <1>1, <1>2, <1>3, Invariance, PTL DEF Spec

=============================================================================
