------------------------------ MODULE Pipeline ------------------------------
(***************************************************************************)
(* The way of one request through the handlers of buildHandlerPipeline in  *)
(* app.go and the methods of internal/domain they call.                    *)
(*                                                                         *)
(* A Domain keeps no lookup path: every question about the request         *)
(* (HasLookupPath, IsHTTPSOnly, GetProjectID, ServeFileHTTP ...) resolves   *)
(* it anew. With the GitLab source the answer comes from the cache (module *)
(* DomainCache) and may have changed since the last question; with the     *)
(* disk source the projects are those of the map the domain was found in,  *)
(* which is never written to again.                                        *)
(*                                                                         *)
(* A domain has at most one project at "/", its root, and here one more at *)
(* the prefix "/project". The session and the OAuth flow are module Auth,  *)
(* readiness is module Domains, and reading files is module Serving.       *)
(***************************************************************************)
EXTENDS Naturals, Sequences

CONSTANT MaxChanges  \* bound: changes of the projects during the request

ASSUME PipelineAssumption == MaxChanges \in Nat

VARIABLES
    pc,       \* the handler that runs next
    conf,     \* [gitlab, auth, redirectHTTP]: the configuration
    req,      \* the request
    domain,   \* the domain routingMiddleware has put in the context
    world,    \* the domain's projects, as the source knows them now
    then,     \* what follows a successful checkAuthentication
    lookup,   \* lookupPath of ServeNotFoundAuthFailed
    answer,   \* the responses written
    lost,     \* whether a resolution of the request has found no project
    granted,  \* projects GitLab has granted the user access to
    inForce,  \* what the request would have been resolved to, since routing
    changes   \* number of changes so far

vars == <<pc, conf, req, domain, world, then, lookup, answer,
          lost, granted, inForce, changes>>

-----------------------------------------------------------------------------
(* Projects and their lookup paths.                                        *)

\* serving.LookupPath
LookupPath(id, httpsOnly, access, namespace) ==
    [id |-> id, httpsOnly |-> httpsOnly, access |-> access,
     namespace |-> namespace]

Gone == LookupPath("gone", FALSE, FALSE, FALSE)    \* ErrDomainDoesNotExist
Failed == LookupPath("error", FALSE, FALSE, FALSE) \* any other error
Lookups(id) == {Gone} \cup [id : {id}, httpsOnly : BOOLEAN, access : BOOLEAN,
                             namespace : {FALSE}]

\* The GitLab source takes a domain of several projects for a namespace; the
\* disk source knows which domains are those of groups. Only these have
\* another project than the root. The disk source never fails.
Worlds ==
    {w \in [root : Lookups("root"), project : Lookups("project"),
            group : BOOLEAN, error : BOOLEAN] :
        /\ w.project # Gone => w.group
        /\ w.root = Gone /\ w.project = Gone => ~w.group
        /\ w.error => conf.gitlab /\ w.root = Gone /\ w.project = Gone}

\* The project a path belongs to: the one with its prefix, or else the root.
Project(w, path) ==
    CASE path = "project" /\ w.project # Gone -> w.project
      [] ~(path = "project" /\ w.project # Gone) ->
            IF w.root = Gone THEN Gone
            ELSE [w.root EXCEPT !.namespace = w.group]

\* Resolver.Resolve.
Resolve(w, path) == IF w.error THEN Failed ELSE Project(w, path)

\* Domain.resolve for a path.
resolve(path) == IF domain = "nil" THEN Gone ELSE Resolve(world, path)

Found(l) == l \notin {Gone, Failed}

\* The project, a path that belongs to no project but the root, a challenge.
Resource(r) == IF r.path = "project" THEN "project" ELSE "/"

\* The domain is reconfigured in GitLab, or the API fails or comes back. What
\* happens before the domain is looked up makes no difference to the request.
SourceChanges ==
    /\ conf.gitlab /\ domain = "found" /\ pc # "done"
    /\ changes < MaxChanges /\ changes' = changes + 1
    /\ world' \in Worlds \ {world}
    /\ inForce' = inForce \cup {Resolve(world', Resource(req))}
    /\ UNCHANGED <<pc, conf, req, domain, then, lookup, answer, lost, granted>>

-----------------------------------------------------------------------------
(* Steps of the request.                                                   *)

\* Users: without a session; with a cookie that cannot be decoded; with a
\* token that has been revoked; with a good one, and access to some projects.
Users ==
    [session : {"none", "garbled", "revoked"}, access : {{}}]
        \cup [session : {"token"}, access : SUBSET {"root", "project"}]

Paths == {"project", "other", "acme", "status", "callback", "artifact"}

\* Only what makes a difference is combined: a session with a project's path,
\* the general redirect with plain HTTP, an unknown method with any path.
Init ==
    /\ pc = "method"
    /\ conf \in [gitlab : BOOLEAN, auth : BOOLEAN, redirectHTTP : BOOLEAN]
    /\ req \in [path : Paths, known : BOOLEAN, https : BOOLEAN, user : Users]
    /\ req.user.session # "none" => conf.auth /\ req.path \in {"project", "other"}
    /\ conf.redirectHTTP => ~req.https
    /\ ~req.known => req.path = "status"
    /\ domain = "nil"
    /\ world \in Worlds
    /\ then = "none" /\ lookup = Gone
    /\ answer = <<>> /\ lost = FALSE /\ granted = {} /\ inForce = {}
    /\ changes = 0

GoTo(handler) == pc' = handler /\ answer' = answer

Respond(kind, from) ==
    pc' = "done" /\ answer' = Append(answer, [kind |-> kind, from |-> from])

\* The request is resolved; only a few handlers keep anything else.
Resolving(l) == lost' = (lost \/ ~Found(l))
Kept == UNCHANGED <<conf, req, domain, world, inForce, changes>>
KeptToo == UNCHANGED <<then, lookup, granted>> /\ Kept
NotResolving == lost' = lost

\* The outcomes of serving a file of the project: its page (a redirect or an
\* error among them) or none.
Serving(l, page, nothing) ==
    \/ Found(l) /\ (page \/ nothing)
    \/ l = Gone /\ Respond("404", Gone)
    \/ l = Failed /\ Respond("503", Gone)

\* NewMiddleware of rejectmethods.
rejectmethods ==
    /\ pc = "method"
    /\ IF req.known THEN GoTo("status") ELSE Respond("405", Gone)
    /\ NotResolving /\ KeptToo

healthCheckMiddleware ==
    /\ pc = "status"
    /\ IF req.path = "status"
       THEN \E status \in {"200", "503"} : Respond(status, Gone)
       ELSE GoTo("routing")
    /\ NotResolving /\ KeptToo

routingMiddleware ==
    /\ pc = "routing"
    /\ \/ world.error /\ Respond("502", Gone) /\ domain' = domain
       \/ ~world.error /\ GoTo("acme") /\ domain' = "found"
       \/ /\ world.root = Gone /\ world.project = Gone /\ ~world.error
          /\ GoTo("acme") /\ domain' = "nil"
    /\ inForce' = IF domain' = "found" THEN {Resolve(world, Resource(req))}
                                       ELSE {Gone}
    /\ NotResolving
    /\ UNCHANGED <<conf, req, world, then, lookup, granted, changes>>

\* ServeAcmeChallenges: a challenge the project has a file for is served, and
\* the request goes on as if it had not been.
acmeMiddleware ==
    /\ pc = "acme"
    /\ IF req.path # "acme" THEN GoTo("auth") /\ NotResolving
       ELSE LET l == resolve("/")
                served(k) == /\ pc' = "auth"
                             /\ answer' = Append(answer, [kind |-> k, from |-> l])
            IN  /\ Resolving(l)
                /\ \/ Found(l) /\ (served("page") \/ Respond("gitlab", Gone))
                   \/ l = Gone /\ served("404")
                   \/ l = Failed /\ served("503")
    /\ KeptToo

\* TryAuthenticate, see module Auth.
authMiddleware ==
    /\ pc = "auth"
    /\ CASE ~conf.auth -> GoTo("auxiliary")
         [] conf.auth /\ req.user.session = "garbled" -> Respond("again", Gone)
         [] conf.auth /\ req.user.session # "garbled" ->
                IF req.path = "callback" THEN Respond("oauth", Gone)
                ELSE GoTo("auxiliary")
    /\ NotResolving /\ KeptToo

\* tryAuxiliaryHandlers up to the first resolution.
auxiliaryMiddleware ==
    /\ pc = "auxiliary"
    /\ CASE ~req.https /\ conf.redirectHTTP -> Respond("https", Gone)
         [] req.https \/ ~conf.redirectHTTP ->
                IF req.path = "artifact" THEN Respond("artifact", Gone)
                ELSE Respond("503", Gone) \/ GoTo("exists")
    /\ NotResolving /\ KeptToo

\* Slip: the request goes on although not found has been served.
LookupPathOptional ==
    /\ pc = "exists"
    /\ Resolving(resolve(Resource(req)))
    /\ pc' = "httpsOnly"
    /\ answer' = IF Found(resolve(Resource(req))) THEN answer
                 ELSE Append(answer, [kind |-> "404", from |-> Gone])
    /\ KeptToo

HasLookupPath ==
    /\ pc = "exists"
    /\ Resolving(resolve(Resource(req)))
    /\ IF Found(resolve(Resource(req)))
       THEN GoTo("httpsOnly") /\ then' = then
       ELSE GoTo("withoutProject") /\ then' = "authFailed"
    /\ UNCHANGED <<lookup, granted>> /\ Kept

IsHTTPSOnly ==
    /\ pc = "httpsOnly"
    /\ IF req.https THEN GoTo("access") /\ NotResolving
       ELSE LET l == resolve(Resource(req))
            IN  /\ Resolving(l)
                /\ IF l.httpsOnly THEN Respond("https", Gone)
                                  ELSE GoTo("access")
    /\ KeptToo

\* Slip: the check is made for namespace projects alone.
NamespaceAccessOnly ==
    LET l == resolve(Resource(req))
    IN  /\ pc = "access"
        /\ Resolving(l)
        /\ IF l.access /\ l.namespace
           THEN GoTo("check") /\ then' = "file"
           ELSE GoTo("file") /\ then' = then
        /\ UNCHANGED <<lookup, granted>> /\ Kept

accessControlMiddleware ==
    LET l == resolve(Resource(req))
    IN  /\ pc = "access"
        /\ Resolving(l)
        /\ IF l.access THEN GoTo("check") /\ then' = "file"
                       ELSE GoTo("file") /\ then' = then
        /\ UNCHANGED <<lookup, granted>> /\ Kept

\* checkAuthentication, see module Auth. Where no project is found, it is only
\* asked whether the token is good. A request to the API may fail.
checkAuthentication ==
    LET l == resolve(Resource(req))
        good == ~Found(l) \/ l.id \in req.user.access
    IN  CASE req.user.session # "token" ->
                /\ \/ req.user.session = "none" /\ Respond("login", Gone)
                   \/ req.user.session = "revoked" /\ Respond("again", Gone)
                /\ NotResolving /\ granted' = granted
          [] req.user.session = "token" ->
                /\ Resolving(l)
                /\ \/ /\ good /\ GoTo(then)
                      /\ granted' = granted \cup ({l.id} \cap req.user.access)
                   \/ GoTo("authFailed") /\ granted' = granted

CheckAuthentication ==
    /\ pc = "check"
    /\ IF conf.auth THEN checkAuthentication
       ELSE Respond("500", Gone) /\ NotResolving /\ granted' = granted
    /\ UNCHANGED <<then, lookup>> /\ Kept

CheckAuthenticationWithoutProject ==
    /\ pc = "withoutProject"
    /\ IF conf.auth THEN checkAuthentication
       ELSE GoTo(then) /\ NotResolving /\ granted' = granted
    /\ UNCHANGED <<then, lookup>> /\ Kept

-----------------------------------------------------------------------------
(* Domain.                                                                 *)

ServeFileHTTP ==
    LET l == resolve(Resource(req))
    IN  /\ pc = "file"
        /\ Resolving(l)
        /\ Serving(l, Respond("page", l), GoTo("namespace"))
        /\ KeptToo

\* Slip: a missing file of a namespace project is answered at once.
NoLoginForMissingFiles ==
    /\ pc = "namespace"
    /\ Resolving(resolve(Resource(req)))
    /\ GoTo("notFound") /\ then' = "notFound"
    /\ UNCHANGED <<lookup, granted>> /\ Kept

\* serveFileOrNotFoundHandler when no file was served.
IsNamespaceProject ==
    LET l == resolve(Resource(req))
    IN  /\ pc = "namespace"
        /\ Resolving(l)
        /\ GoTo(IF l.namespace THEN "withoutProject" ELSE "notFound")
        /\ then' = "notFound"
        /\ UNCHANGED <<lookup, granted>> /\ Kept

ServeNotFoundHTTP ==
    LET l == resolve(Resource(req))
    IN  /\ pc = "notFound"
        /\ Resolving(l)
        /\ Serving(l, Respond("custom404", l), FALSE)
        /\ KeptToo

\* The two halves of ServeNotFoundAuthFailed.
ServeNotFoundAuthFailed ==
    LET l == resolve(Resource(req))
    IN  /\ pc = "authFailed"
        /\ Resolving(l)
        /\ IF Found(l) THEN GoTo("authFailedPage") ELSE Respond("404", Gone)
        /\ lookup' = l
        /\ UNCHANGED <<then, granted>> /\ Kept

AuthFailedPage ==
    LET l == resolve(Resource(req))
    IN  /\ pc = "authFailedPage"
        /\ Resolving(l)
        /\ GoTo(IF l.namespace /\ ~lookup.access
                THEN "notFound" ELSE "namespaceNotFound")
        /\ KeptToo

serveNamespaceNotFound ==
    LET l == resolve("/")
    IN  /\ pc = "namespaceNotFound"
        /\ Resolving(l)
        /\ Serving(l, ~l.access /\ Respond("custom404", l),
                      l.access /\ Respond("404", Gone))
        /\ KeptToo

-----------------------------------------------------------------------------
Next ==
    \/ SourceChanges
    \/ rejectmethods \/ healthCheckMiddleware \/ routingMiddleware
    \/ acmeMiddleware \/ authMiddleware \/ auxiliaryMiddleware
    \/ HasLookupPath \/ IsHTTPSOnly \/ accessControlMiddleware
    \/ CheckAuthentication \/ CheckAuthenticationWithoutProject
    \/ ServeFileHTTP \/ IsNamespaceProject \/ ServeNotFoundHTTP
    \/ ServeNotFoundAuthFailed \/ AuthFailedPage \/ serveNamespaceNotFound

Spec == Init /\ [][Next]_vars

-----------------------------------------------------------------------------
(* Properties.                                                             *)

\* accessControlMiddleware "will handle authorization" and tryAuxiliaryHandlers
\* enforces HTTPS although each of them resolves the request for itself, and
\* so does the handler that serves the page: if none of these resolutions
\* failed, a page is served only if one of the lookup paths in force during
\* the request was public or granted to the user, and over plain HTTP only if
\* one of them did not ask for HTTPS and there is no general redirect.
PageAllowed ==
    \A i \in DOMAIN answer :
        answer[i].kind = "page" /\ req.path # "acme" /\ ~lost =>
            /\ \E l \in inForce : ~l.access \/ l.id \in granted
            /\ \/ req.https
               \/ ~conf.redirectHTTP /\ \E l \in inForce : ~l.httpsOnly

\* "behaving the same if user has no access to the project or if project
\* simply does not exists" (checkAuthAndServeNotFound): over HTTPS, and while
\* the configuration does not change, a user who may read neither a private
\* project nor the private root of its namespace gets the same answer for the
\* project and for a path that is no project at all.
NotFoundAlike ==
    LET hidden(l) == l.access /\ l.id \notin req.user.access
        page404 == IF Found(world.root) /\ ~world.root.access
                   THEN {"custom404"} ELSE {"404"}
    IN  /\ pc = "done" /\ changes = 0 /\ req.https /\ conf.auth /\ ~world.error
        /\ req.path \in {"project", "other"}
        /\ hidden(world.project) /\ (world.root = Gone \/ hidden(world.root)
                                    \/ ~world.root.access)
        /\ answer[1].kind # "503"
        /\ req.path = "other" => answer[1].kind # "page"
        => answer[1].kind \in
                CASE req.user.session = "none" -> {"login"}
                  [] req.user.session \in {"garbled", "revoked"} -> {"again"}
                  [] req.user.session = "token" -> page404

\* The handlers stop at the first one that has answered: when the request is
\* over it has been answered exactly once, unless it was an ACME challenge,
\* which goes on down the chain after its file was served.
AnsweredOnce ==
    pc = "done" /\ req.path # "acme" => Len(answer) = 1
=============================================================================
