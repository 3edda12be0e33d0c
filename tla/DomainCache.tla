---------------------------- MODULE DomainCache ----------------------------
(***************************************************************************)
(* The cache between the GitLab domain source and the GitLab API:          *)
(* internal/source/gitlab/cache (Cache.Resolve, Entry, memstore,           *)
(* Retriever) and the lookups of internal/source/gitlab/client.            *)
(*                                                                         *)
(* Four kinds of goroutine interleave: the callers of Resolve, the         *)
(* goroutine that retrieves an entry, the goroutine inside it that calls   *)
(* the API with retries, and the goroutine that refreshes an entry.        *)
(* Entries are heap objects numbered in order of creation; an entry no     *)
(* longer in the store lives on while somebody holds it.                   *)
(***************************************************************************)
EXTENDS Naturals, FiniteSets

CONSTANTS
    Clients,               \* callers of Cache.Resolve
    Domains,               \* domain names, the keys of the store
    EntryRefreshTimeout,   \* age after which an entry is outdated
    CacheExpiry,           \* age after which an entry is expired and dropped
    RetrievalTimeout,      \* lifetime of the context of one retrieval
    MaxRetrievalRetries,   \* number of API requests of one retrieval
    DisableRefreshTemporaryError, \* FF_DISABLE_REFRESH_TEMPORARY_ERROR
    MaxEntries,            \* bound: entries ever created
    MaxTime,               \* bound: last value of the clock
    None                   \* the nil pointer

ASSUME ConstantsAssumption ==
    /\ EntryRefreshTimeout \in Nat
    /\ CacheExpiry \in Nat
    /\ RetrievalTimeout \in Nat
    /\ MaxRetrievalRetries \in Nat
    /\ DisableRefreshTemporaryError \in BOOLEAN
    /\ MaxEntries \in Nat
    /\ MaxTime \in Nat
    /\ IsFiniteSet(Clients)
    /\ None \notin 1..MaxEntries
    /\ None \notin Domains

VARIABLES
    now,      \* the clock; starts at 1 so that 0 is the zero time.Time
    created,  \* number of entries created so far
    entry,    \* the heap of entries
    store,    \* the go-cache item of each domain, None when absent
    worker,   \* the goroutine of resolveWithBackoff, per entry
    client    \* the callers

vars == <<now, created, entry, store, worker, client>>

EntryIds == 1..MaxEntries

\* What GetLookup can return: a domain, ErrDomainDoesNotExist (204),
\* ErrUnauthorizedAPI (401), or any other error.
ApiKinds == {"ok", "gone", "unauthorized", "error"}

\* api.Lookup: "zero" is the zero value, neither an error nor a domain. at
\* is the time the API answered, kept for lookups that carry a domain.
Lookups == [name : Domains \cup {None}, kind : ApiKinds \cup {"zero"}, at : Nat]

Lookup(name, kind, time) ==
    [name |-> name, kind |-> kind, at |-> IF kind = "ok" THEN time ELSE 0]

Entries ==
    [domain : Domains \cup {None},
     created : Nat,
     refreshedOriginalTimestamp : Nat,
     retrieve : {"idle", "running", "returned"},
     deadline : Nat,
     response : Lookups \cup {None},
     refresh : {"idle", "retrieving", "storing", "stored"},
     next : EntryIds \cup {None}]

Items == [entry : EntryIds, expires : Nat]

\* The nil pointer is no lookup and no item.
ASSUME NoneAssumption == None \notin Lookups /\ None \notin Items

Workers ==
    [pc : {"idle", "calling", "sending", "stopped"},
     i : Nat, requests : Nat, lookup : Lookups]

ClientStates ==
    [pc : {"idle", "create", "check", "stale", "retrieve", "waiting", "done"},
     domain : Domains \cup {None},
     entry : EntryIds \cup {None},
     since : Nat,
     answer : Lookups \cup {None}]

Unused ==
    [domain |-> None, created |-> 0, refreshedOriginalTimestamp |-> 0,
     retrieve |-> "idle", deadline |-> 0, response |-> None,
     refresh |-> "idle", next |-> None]

Init ==
    /\ now = 1
    /\ created = 0
    /\ entry = [e \in EntryIds |-> Unused]
    /\ store = [d \in Domains |-> None]
    /\ worker = [e \in EntryIds |->
                    [pc |-> "idle", i |-> 0, requests |-> 0,
                     lookup |-> Lookup(None, "zero", 0)]]
    /\ client = [c \in Clients |->
                    [pc |-> "idle", domain |-> None, entry |-> None,
                     since |-> 0, answer |-> None]]

Tick ==
    /\ now < MaxTime
    /\ now' = now + 1
    /\ UNCHANGED <<created, entry, store, worker, client>>

-----------------------------------------------------------------------------
(* Entry: the predicates on the age and the response of an entry.          *)

newCacheEntry(d) == [Unused EXCEPT !.domain = d, !.created = now]

Age(e) ==
    IF entry[e].refreshedOriginalTimestamp # 0
    THEN now - entry[e].refreshedOriginalTimestamp
    ELSE now - entry[e].created

isOutdated(e) == Age(e) > EntryRefreshTimeout

isExpired(e) == Age(e) > CacheExpiry

isResolved(e) == entry[e].response # None

IsUpToDate(e) == isResolved(e) /\ ~isOutdated(e)

\* Slip: an entry that was never resolved counts as one to refresh.
NeedsRefreshUnresolved(e) == isOutdated(e)

NeedsRefresh(e) == isResolved(e) /\ isOutdated(e)

hasTemporaryError(e) ==
    /\ ~DisableRefreshTemporaryError
    /\ isResolved(e)
    /\ entry[e].response.kind \in {"unauthorized", "error"}

-----------------------------------------------------------------------------
(* memstore: go-cache returns an item until its expiration has passed.     *)

SetDefault(d, e) ==
    store' = [store EXCEPT ![d] = [entry |-> e, expires |-> now + CacheExpiry]]

Found(d) == store[d] # None /\ now <= store[d].expires

\* Every call of Resolve in progress may still create one entry: a call is
\* admitted while the bound on entries leaves room for that.
InProgress == {c \in Clients : client[c].pc \notin {"idle", "done"}}

Room == created + Cardinality(InProgress) < MaxEntries

\* Resolve calls LoadOrCreate: the lookup under the read lock.
Load(c, d) ==
    /\ client[c].pc \in {"idle", "done"}
    /\ Room
    /\ client' = [client EXCEPT ![c] =
                    IF Found(d)
                    THEN [pc |-> "check", domain |-> d, entry |-> store[d].entry,
                          since |-> 0, answer |-> None]
                    ELSE [pc |-> "create", domain |-> d, entry |-> None,
                          since |-> 0, answer |-> None]]
    /\ UNCHANGED <<now, created, entry, store, worker>>

\* Slip: no second look under the write lock.
CreateUnchecked(c) ==
    LET d == client[c].domain
        new == created + 1
    IN  /\ client[c].pc = "create"
        /\ new \in EntryIds
        /\ created' = new
        /\ entry' = [entry EXCEPT ![new] = newCacheEntry(d)]
        /\ SetDefault(d, new)
        /\ client' = [client EXCEPT ![c].pc = "check", ![c].entry = new]
        /\ UNCHANGED <<now, worker>>

\* The rest of LoadOrCreate under the write lock, which looks again.
Create(c) ==
    LET d == client[c].domain
        new == created + 1
    IN  /\ client[c].pc = "create"
        /\ \/ /\ Found(d)
              /\ client' = [client EXCEPT ![c].pc = "check",
                                          ![c].entry = store[d].entry]
              /\ UNCHANGED <<created, entry, store>>
           \/ /\ ~Found(d)
              /\ new \in EntryIds
              /\ created' = new
              /\ entry' = [entry EXCEPT ![new] = newCacheEntry(d)]
              /\ SetDefault(d, new)
              /\ client' = [client EXCEPT ![c].pc = "check", ![c].entry = new]
        /\ UNCHANGED <<now, worker>>

-----------------------------------------------------------------------------
(* Cache.Resolve after LoadOrCreate.                                       *)

Return(c, lookup) ==
    client' = [client EXCEPT ![c].pc = "done", ![c].entry = None,
                             ![c].since = 0, ![c].answer = lookup]

\* if entry.IsUpToDate() { return entry.Lookup() }
CheckUpToDate(c) ==
    LET e == client[c].entry
    IN  /\ client[c].pc = "check"
        /\ \/ IsUpToDate(e) /\ Return(c, entry[e].response)
           \/ ~IsUpToDate(e) /\ client' = [client EXCEPT ![c].pc = "stale"]
        /\ UNCHANGED <<now, created, entry, store, worker>>

\* The goroutine e.retriever.Retrieve with its own context, and inside it
\* the goroutine of resolveWithBackoff: with no request to make it already
\* holds the zero lookup. The requests of an entry are counted on.
StartedWorker(e) ==
    [worker[e] EXCEPT
        !.pc = IF MaxRetrievalRetries = 0 THEN "sending" ELSE "calling",
        !.i = 1, !.lookup = Lookup(None, "zero", 0)]

\* if entry.NeedsRefresh() { entry.Refresh(store); return entry.Lookup() }
\* The first Refresh of an entry starts refreshFunc, which creates an entry
\* and retrieves it before it touches the store.
CheckNeedsRefresh(c) ==
    LET e == client[c].entry
        new == created + 1
    IN  /\ client[c].pc = "stale"
        /\ \/ /\ NeedsRefresh(e)
              /\ entry[e].refresh = "idle"
              /\ new \in EntryIds
              /\ created' = new
              /\ entry' = [entry EXCEPT
                    ![e].refresh = "retrieving", ![e].next = new,
                    ![new] = [newCacheEntry(entry[e].domain) EXCEPT
                                !.retrieve = "running",
                                !.deadline = now + RetrievalTimeout]]
              /\ worker' = [worker EXCEPT ![new] = StartedWorker(new)]
              /\ Return(c, entry[e].response)
           \/ /\ NeedsRefresh(e)
              /\ entry[e].refresh # "idle"
              /\ Return(c, entry[e].response)
              /\ UNCHANGED <<created, entry, worker>>
           \/ /\ ~NeedsRefresh(e)
              /\ client' = [client EXCEPT ![c].pc = "retrieve"]
              /\ UNCHANGED <<created, entry, worker>>
        /\ UNCHANGED <<now, store>>

\* Slip: every caller sets the deadline of the retrieval anew.
RetrieveAgain(c) ==
    LET e == client[c].entry
    IN  /\ client[c].pc = "retrieve"
        /\ client' = [client EXCEPT ![c].pc = "waiting", ![c].since = now]
        /\ entry' = [entry EXCEPT ![e].retrieve = IF @ = "idle" THEN "running" ELSE @,
                                  ![e].deadline = now + RetrievalTimeout]
        /\ worker' = [worker EXCEPT ![e] = IF @.pc = "idle" THEN StartedWorker(e) ELSE @]
        /\ UNCHANGED <<now, created, store>>

\* Entry.Retrieve: the first caller starts the retrieval, every caller then
\* waits in the select.
Retrieve(c) ==
    LET e == client[c].entry
    IN  /\ client[c].pc = "retrieve"
        /\ client' = [client EXCEPT ![c].pc = "waiting", ![c].since = now]
        /\ IF entry[e].retrieve = "idle"
           THEN /\ entry' = [entry EXCEPT
                       ![e].retrieve = "running",
                       ![e].deadline = now + RetrievalTimeout]
                /\ worker' = [worker EXCEPT ![e] = StartedWorker(e)]
           ELSE UNCHANGED <<entry, worker>>
        /\ UNCHANGED <<now, created, store>>

\* case <-e.retrieved: the response has been set.
Retrieved(c) ==
    /\ client[c].pc = "waiting"
    /\ isResolved(client[c].entry)
    /\ Return(c, entry[client[c].entry].response)
    /\ UNCHANGED <<now, created, entry, store, worker>>

\* case <-ctx.Done(): the HTTP request the caller serves was cancelled.
ContextDone(c) ==
    /\ client[c].pc = "waiting"
    /\ Return(c, Lookup(client[c].domain, "error", now))
    /\ UNCHANGED <<now, created, entry, store, worker>>

-----------------------------------------------------------------------------
(* Retriever.                                                              *)

setResponse(e, lookup) ==
    entry' = [entry EXCEPT ![e].retrieve = "returned", ![e].response = lookup]

\* Slip: one request more than maxRetrievalRetries.
GetLookupOnceMore(e, kind) ==
    LET last == kind # "error" \/ worker[e].i > MaxRetrievalRetries
    IN  /\ worker[e].pc = "calling"
        /\ worker' = [worker EXCEPT ![e] =
                [pc |-> IF last THEN "sending" ELSE "calling",
                 i |-> worker[e].i + 1,
                 requests |-> worker[e].requests + 1,
                 lookup |-> Lookup(entry[e].domain, kind, now)]]
        /\ UNCHANGED <<now, created, entry, store, client>>

\* One turn of the loop of resolveWithBackoff; the pause before a retry only
\* delays the next turn.
GetLookup(e, kind) ==
    LET last == kind # "error" \/ worker[e].i = MaxRetrievalRetries
    IN  /\ worker[e].pc = "calling"
        /\ worker' = [worker EXCEPT ![e] =
                [pc |-> IF last THEN "sending" ELSE "calling",
                 i |-> IF last THEN worker[e].i ELSE worker[e].i + 1,
                 requests |-> worker[e].requests + 1,
                 lookup |-> Lookup(entry[e].domain, kind, now)]]
        /\ UNCHANGED <<now, created, entry, store, client>>

\* Slip: no lookup is sent for a domain that does not exist.
RespondUnlessGone(e) ==
    /\ worker[e].pc = "sending"
    /\ worker[e].lookup.kind # "gone"
    /\ entry[e].retrieve = "running"
    /\ setResponse(e, worker[e].lookup)
    /\ worker' = [worker EXCEPT ![e].pc = "stopped"]
    /\ UNCHANGED <<now, created, store, client>>

\* response <- lookup meets the select of Retriever.Retrieve.
Respond(e) ==
    /\ worker[e].pc = "sending"
    /\ entry[e].retrieve = "running"
    /\ setResponse(e, worker[e].lookup)
    /\ worker' = [worker EXCEPT ![e].pc = "stopped"]
    /\ UNCHANGED <<now, created, store, client>>

\* The context of the retrieval expires first. The worker is left behind.
RetrievalDone(e) ==
    /\ entry[e].retrieve = "running"
    /\ now >= entry[e].deadline
    /\ setResponse(e, Lookup(None, "error", now))
    /\ UNCHANGED <<now, created, store, worker, client>>

-----------------------------------------------------------------------------
(* Entry.refreshFunc.                                                      *)

\* Slip: the refresh does not wait for the new entry to be retrieved.
RefreshUnretrieved(e) ==
    /\ entry[e].refresh = "retrieving"
    /\ entry' = [entry EXCEPT ![e].refresh = "storing"]
    /\ UNCHANGED <<now, created, store, worker, client>>

\* Once the new entry is retrieved: keep the old response on a temporary
\* error while the old entry has not expired.
RefreshRetrieved(e) ==
    LET new == entry[e].next
    IN  /\ entry[e].refresh = "retrieving"
        /\ isResolved(new)
        /\ entry' =
              IF ~isExpired(e) /\ hasTemporaryError(new)
              THEN [entry EXCEPT
                      ![e].refresh = "storing",
                      ![new].response = entry[e].response,
                      ![new].refreshedOriginalTimestamp = entry[e].created]
              ELSE [entry EXCEPT ![e].refresh = "storing"]
        /\ UNCHANGED <<now, created, store, worker, client>>

\* store.ReplaceOrCreate(e.domain, entry)
ReplaceOrCreate(e) ==
    /\ entry[e].refresh = "storing"
    /\ SetDefault(entry[e].domain, entry[e].next)
    /\ entry' = [entry EXCEPT ![e].refresh = "stored"]
    /\ UNCHANGED <<now, created, worker, client>>

-----------------------------------------------------------------------------
Caller(c) ==
    \/ Create(c)
    \/ CheckUpToDate(c)
    \/ CheckNeedsRefresh(c)
    \/ Retrieve(c)
    \/ Retrieved(c)

Background(e) ==
    \/ \E kind \in ApiKinds : GetLookup(e, kind)
    \/ Respond(e)
    \/ RetrievalDone(e)
    \/ RefreshRetrieved(e)
    \/ ReplaceOrCreate(e)

Next ==
    \/ Tick
    \/ \E c \in Clients : Caller(c) \/ ContextDone(c)
    \/ \E c \in Clients, d \in Domains : Load(c, d)
    \/ \E e \in EntryIds : Background(e)

Spec == Init /\ [][Next]_vars

\* Goroutines that can run do run, and an API request ends: the HTTP client
\* of internal/source/gitlab/client has a timeout. Nothing makes a new call
\* of Resolve arrive, a request be cancelled or the clock pass the bound.
Fairness ==
    /\ \A c \in Clients : WF_vars(Caller(c))
    /\ \A e \in EntryIds : WF_vars(\E kind \in ApiKinds : GetLookup(e, kind))
    /\ \A e \in EntryIds : WF_vars(Respond(e))
    /\ \A e \in EntryIds : WF_vars(RefreshRetrieved(e))
    /\ \A e \in EntryIds : WF_vars(ReplaceOrCreate(e))

FairSpec == Spec /\ Fairness

-----------------------------------------------------------------------------
(* Properties.                                                             *)

\* Every variable keeps its type.
TypeOK ==
    /\ now \in Nat
    /\ created \in 0..MaxEntries
    /\ entry \in [EntryIds -> Entries]
    /\ store \in [Domains -> Items \cup {None}]
    /\ worker \in [EntryIds -> Workers]
    /\ client \in [Clients -> ClientStates]

\* Resolve never returns a nil lookup nor an empty one, which its caller
\* Gitlab.GetDomain would dereference, and a lookup with a domain is one of
\* the domain that was asked for, whichever entry or refresh it went through.
AnswersAreLookups ==
    \A c \in Clients : client[c].pc = "done" =>
        /\ client[c].answer # None
        /\ client[c].answer.kind # "zero"
        /\ client[c].answer.kind = "ok" =>
                client[c].answer.name = client[c].domain

\* "Clients should not wait for longer than retrievalTimeout": a caller
\* blocked in Entry.Retrieve waits for a retrieval that is running and whose
\* own deadline is within RetrievalTimeout of the moment it began to wait.
WaitIsBounded ==
    \A c \in Clients :
        LET e == client[c].entry
        IN  client[c].pc = "waiting" /\ ~isResolved(e) =>
                /\ entry[e].retrieve = "running"
                /\ entry[e].deadline <= client[c].since + RetrievalTimeout

\* "total amount of requests is defined as maxRetrievalRetries": however many
\* callers wait for an entry, the API is asked at most that often for it.
RequestsBounded ==
    \A e \in EntryIds : worker[e].requests <= MaxRetrievalRetries

RefreshEntries == {entry[e].next : e \in EntryIds}

\* The entries LoadOrCreate creates for one domain are more than CacheExpiry
\* apart, so that callers that miss together share one entry and one
\* retrieval: the second look under the write lock is what ensures it.
CreatedApart ==
    \A e, f \in 1..created :
        /\ e < f
        /\ entry[e].domain = entry[f].domain
        /\ {e, f} \cap RefreshEntries = {}
        => entry[f].created > entry[e].created + CacheExpiry

\* "we immediately return an old value, to avoid blocking clients": while the
\* store has a resolved entry for a domain, no step puts in its place one
\* that callers would have to wait for.
ResolvedNeverLost ==
    [][\A d \in Domains :
        Found(d) /\ isResolved(store[d].entry) /\ store'[d] # store[d]
            => isResolved(store[d].entry)']_vars

\* Every call of Resolve returns, whatever the API answers and whoever
\* retrieves or refreshes the entry meanwhile.
ResolveReturns ==
    \A c \in Clients : c \in InProgress ~> client[c].pc = "done"

\* A refresh that has begun ends with its entry in the store.
RefreshEnds ==
    \A e \in EntryIds :
        entry[e].refresh = "retrieving" ~> entry[e].refresh = "stored"

\* Entry.Refresh: "If an existing successful entry exists, it will only be
\* replaced if the new resolved entry is successful too": an entry in the
\* store that holds a domain and has not expired is not replaced by one that
\* holds a temporary error.
SuccessNotReplacedByError ==
    [][\A d \in Domains :
        /\ Found(d)
        /\ isResolved(store[d].entry)
        /\ entry[store[d].entry].response.kind = "ok"
        /\ ~isExpired(store[d].entry)
        /\ store'[d] # store[d]
        => ~hasTemporaryError(store[d].entry)']_vars
=============================================================================
