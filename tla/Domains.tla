------------------------------ MODULE Domains ------------------------------
(***************************************************************************)
(* The choice between the two sources of domains and the readiness of the  *)
(* application: internal/source (Domains), internal/source/gitlab (Gitlab  *)
(* and its poll of the status API) and the two middlewares of app.go that  *)
(* use them for every request.                                             *)
(*                                                                         *)
(* The cache behind the GitLab source is module DomainCache: here it may   *)
(* give any of the answers the API has been able to give so far. The disk  *)
(* source is module DiskWatch: here it is ready from some moment on.       *)
(***************************************************************************)
EXTENDS Naturals

CONSTANTS
    Requests,     \* HTTP requests in flight
    MaxApiChanges \* bound: changes of the state of the API

ASSUME DomainsAssumption == MaxApiChanges \in Nat

VARIABLES
    configSource, \* -domain-config-source
    gitlab,       \* whether d.gitlab is a client or nil
    isReady,      \* Gitlab.isReady
    poll,         \* the goroutine of Gitlab.poll
    disk,         \* Disk.IsReady: the first scan of the disk has ended
    api,          \* what the API does with requests now
    answers,      \* the lookups the cache may hold or fetch
    apiChanges,   \* number of changes of api so far
    withdrawn,    \* a 401 made GetDomain reset isReady after the poll ended
    request       \* the requests

domainsVars == <<configSource, gitlab, isReady, poll, disk, api, answers,
                 apiChanges, withdrawn, request>>

\* What the API answers in each of its states.
Answers(state) ==
    CASE state = "up" -> {"ok", "gone"}
      [] state = "unauthorized" -> {"unauthorized"}
      [] state = "down" -> {"error"}

\* setConfigSource and setGitLabClient: with "auto" the client may be missing
\* because it could not be initialised; with "gitlab" that ends the program.
DomainsInit ==
    /\ configSource \in {"gitlab", "disk", "auto"}
    /\ gitlab \in BOOLEAN
    /\ configSource = "gitlab" => gitlab
    /\ configSource = "disk" => ~gitlab
    /\ isReady = FALSE
    /\ poll = IF gitlab THEN "polling" ELSE "over"
    /\ disk = FALSE
    /\ api \in {"up", "unauthorized", "down"}
    /\ answers = Answers(api)
    /\ apiChanges = 0
    /\ withdrawn = FALSE
    /\ request = [r \in Requests |->
            [pc |-> "idle", name |-> "plain", after |-> FALSE,
             source |-> "nil", known |-> FALSE, lookup |-> "error",
             status |-> 0]]

\* The GitLab instance goes down, comes back, or changes its secret.
ApiChanges ==
    /\ apiChanges < MaxApiChanges
    /\ apiChanges' = apiChanges + 1
    /\ \E state \in {"up", "unauthorized", "down"} \ {api} :
            api' = state /\ answers' = answers \cup Answers(state)
    /\ UNCHANGED <<configSource, gitlab, isReady, poll, disk, withdrawn,
                   request>>

-----------------------------------------------------------------------------
(* Gitlab.poll.                                                            *)

\* A call of Status succeeds and ends backoff.Retry.
StatusSucceeds ==
    /\ poll = "polling"
    /\ api = "up"
    /\ poll' = "succeeded"
    /\ UNCHANGED <<configSource, gitlab, isReady, disk, api, answers,
                   apiChanges, withdrawn, request>>

\* Every call of Status has failed for maxPollingTime.
PollGivesUp ==
    /\ poll = "polling"
    /\ api # "up"
    /\ poll' = "over"
    /\ UNCHANGED <<configSource, gitlab, isReady, disk, api, answers,
                   apiChanges, withdrawn, request>>

SetReady ==
    /\ poll = "succeeded"
    /\ poll' = "over"
    /\ isReady' = TRUE
    /\ UNCHANGED <<configSource, gitlab, disk, api, answers, apiChanges,
                   withdrawn, request>>

\* Disk.updateDomains after the first scan, see module DiskWatch.
DiskReady ==
    /\ configSource # "gitlab"
    /\ ~disk
    /\ disk' = TRUE
    /\ UNCHANGED <<configSource, gitlab, isReady, poll, api, answers,
                   apiChanges, withdrawn, request>>

-----------------------------------------------------------------------------
(* Domains.                                                                *)

IsReady ==
    CASE configSource = "gitlab" -> isReady
      [] configSource = "disk" -> disk
      [] configSource = "auto" -> (gitlab /\ isReady) \/ disk

\* The source of a plain or of a serverless domain name.
source(name) ==
    CASE name = "serverless" \/ configSource = "gitlab" ->
            IF gitlab THEN "gitlab" ELSE "nil"
      [] OTHER ->
            IF configSource = "auto" /\ gitlab /\ isReady
            THEN "gitlab" ELSE "disk"

-----------------------------------------------------------------------------
(* A request: routingMiddleware, then auxiliaryMiddleware.                 *)

\* a.domains.GetDomain chooses the source.
Route(r) ==
    /\ request[r].pc \in {"idle", "done"}
    /\ \E name \in {"plain", "serverless"} :
            request' = [request EXCEPT ![r] =
                [pc |-> "domain", name |-> name, after |-> withdrawn,
                 source |-> source(name), known |-> FALSE,
                 lookup |-> "error", status |-> 0]]
    /\ UNCHANGED <<configSource, gitlab, isReady, poll, disk, api, answers,
                   apiChanges, withdrawn>>

\* Disk.GetDomain: before the first scan the map is nil and has no domain;
\* known remembers that the map was there. A nil source is dereferenced: the
\* panic ends the request only.
DiskGetDomain(r) ==
    /\ request[r].pc = "domain"
    /\ \/ /\ request[r].source = "disk"
          /\ \E lookup \in {"ok", "gone"} :
                /\ lookup = "ok" => disk
                /\ request' = [request EXCEPT ![r].pc = "auxiliary",
                                    ![r].known = disk, ![r].lookup = lookup]
       \/ /\ request[r].source = "nil"
          /\ request' = [request EXCEPT ![r].pc = "done"]
    /\ UNCHANGED <<configSource, gitlab, isReady, poll, disk, api, answers,
                   apiChanges, withdrawn>>

\* g.client.Resolve returns, see module DomainCache.
GitlabResolve(r) ==
    /\ request[r].pc = "domain"
    /\ request[r].source = "gitlab"
    /\ \E lookup \in answers :
            request' = [request EXCEPT ![r].pc = "resolved",
                                       ![r].lookup = lookup]
    /\ UNCHANGED <<configSource, gitlab, isReady, poll, disk, api, answers,
                   apiChanges, withdrawn>>

\* Slip: a 401 leaves isReady as it is.
GitlabStaysReady(r) ==
    LET unauthorized == request[r].lookup = "unauthorized"
    IN  /\ request[r].pc = "resolved"
        /\ withdrawn' = (withdrawn \/ (unauthorized /\ poll = "over"))
        /\ request' = [request EXCEPT ![r].pc = "done", ![r].status = 502]
        /\ UNCHANGED <<configSource, gitlab, isReady, poll, disk, api, answers,
                       apiChanges>>

\* The rest of Gitlab.GetDomain, and the 502 of routingMiddleware.
GitlabGetDomain(r) ==
    LET unauthorized == request[r].lookup = "unauthorized"
    IN  /\ request[r].pc = "resolved"
        /\ isReady' = (isReady /\ ~unauthorized)
        /\ withdrawn' = (withdrawn \/ (unauthorized /\ poll = "over"))
        /\ \/ /\ request[r].lookup \in {"ok", "gone"}
              /\ request' = [request EXCEPT ![r].pc = "auxiliary",
                                            ![r].known = TRUE]
           \/ /\ request[r].lookup \in {"unauthorized", "error"}
              /\ request' = [request EXCEPT ![r].pc = "done", ![r].status = 502]
        /\ UNCHANGED <<configSource, gitlab, poll, disk, api, answers,
                       apiChanges>>

\* tryAuxiliaryHandlers: the readiness check, then HasLookupPath. The domain
\* is resolved again, so that one that was found may be gone by now.
Auxiliary(r) ==
    /\ request[r].pc = "auxiliary"
    /\ \/ ~IsReady /\ request' = [request EXCEPT ![r].pc = "done",
                                                 ![r].status = 503]
       \/ /\ IsReady
          /\ \E status \in {200, 404} :
                /\ status = 200 => request[r].lookup = "ok"
                /\ request' = [request EXCEPT ![r].pc = "done",
                                              ![r].status = status]
    /\ UNCHANGED <<configSource, gitlab, isReady, poll, disk, api, answers,
                   apiChanges, withdrawn>>

-----------------------------------------------------------------------------
DomainsNext ==
    \/ ApiChanges
    \/ StatusSucceeds
    \/ PollGivesUp
    \/ SetReady
    \/ DiskReady
    \/ \E r \in Requests :
            \/ Route(r)
            \/ DiskGetDomain(r)
            \/ GitlabResolve(r)
            \/ GitlabGetDomain(r)
            \/ Auxiliary(r)

DomainsSpec == DomainsInit /\ [][DomainsNext]_domainsVars

-----------------------------------------------------------------------------
(* Properties.                                                             *)

\* "The first request will fail and display an error but subsequent requests
\* will serve from disk source when `domain-config-source=auto`"
\* (TestGitLabSourceBecomesUnauthorized): once a 401 has been handled with the
\* poll over, no later request for a plain domain is sent to GitLab, however
\* many requests were in flight and whatever the API does next.
StaysOnDisk ==
    \A r \in Requests :
        configSource = "auto" /\ request[r].name = "plain" /\ request[r].after
            => request[r].source # "gitlab"

=============================================================================
