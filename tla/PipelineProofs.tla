--------------------------- MODULE PipelineProofs ---------------------------
(***************************************************************************)
(* The way of a request through the handlers, for any number of changes of *)
(* the projects meanwhile and, in NotFoundAlike, for none; and, on the     *)
(* side of Domains, the choice of the source that routingMiddleware makes. *)
(***************************************************************************)
EXTENDS Pipeline, Domains, TLAPS

\* The handlers before routingMiddleware, those up to tryAuxiliaryHandlers,
\* and those after it.
Early == {"method", "status", "routing"}
Middle == {"acme", "auth", "auxiliary"}
Late == {"exists", "httpsOnly", "access", "check", "file", "namespace",
         "notFound", "withoutProject", "authFailed", "authFailedPage",
         "namespaceNotFound"}

\* Nothing has been answered while a handler is still to run.
Unanswered ==
    /\ pc \in Early \cup Middle \cup Late \cup {"done"}
    /\ lost \in BOOLEAN
    /\ pc # "done" /\ req.path # "acme" => answer = <<>>

\* Where checkAuthentication goes on to.
Continuation ==
    /\ pc = "check" => then = "file"
    /\ pc = "withoutProject" => then \in {"authFailed", "notFound"}

\* A question asked now is answered by a lookup path that has been in force.
NowInForce == pc \in Middle \cup Late => resolve(Resource(req)) \in inForce

\* What the handlers before the one that serves the page have made sure of.
Checked ==
    /\ pc \in Late => req.https \/ ~conf.redirectHTTP
    /\ pc \in {"access", "check", "file"} /\ ~lost =>
            req.https \/ \E l \in inForce : ~l.httpsOnly
    /\ pc = "file" /\ ~lost => \E l \in inForce : ~l.access \/ l.id \in granted

IInv ==
    /\ Unanswered /\ Continuation /\ NowInForce /\ Checked
    /\ AnsweredOnce /\ PageAllowed

-----------------------------------------------------------------------------
(* Each handler keeps the inductive invariant.                             *)

\* A handler answers with anything but the page.
LEMMA Responded ==
    ASSUME IInv, pc # "done", req' = req, lost' \in BOOLEAN,
           NEW k, NEW from, k # "page", Respond(k, from)
    PROVE  IInv'
  <1>1. pc' = "done" /\ answer' = Append(answer, [kind |-> k, from |-> from])
    BY DEF Respond
  <1>2. CASE req.path = "acme"
    BY <1>1, <1>2 DEF IInv, Unanswered, Continuation, NowInForce, Checked,
                      AnsweredOnce, PageAllowed, Early, Middle, Late
  <1>3. CASE req.path # "acme"
    <2>1. PICK x : x = [kind |-> k, from |-> from]
      BY Zenon
    <2>2. Len(answer') = 1 /\ DOMAIN answer' = {1} /\ answer'[1].kind # "page"
      <3>1. x.kind = k
        BY <2>1
      <3>2. answer = <<>>
        BY <1>3 DEF IInv, Unanswered
      <3>3. answer' = Append(<<>>, x)
        BY <1>1, <2>1, <3>2
      <3>4. <<>> \in Seq({x})
        OBVIOUS
      <3>5. Len(answer') = 1 /\ answer'[1] = x /\ answer' \in Seq({x})
        BY <3>3, <3>4
      <3> QED
        BY <3>1, <3>5
    <2>3. AnsweredOnce' /\ PageAllowed'
      BY <2>2 DEF AnsweredOnce, PageAllowed
    <2> QED
      BY <1>1, <2>3 DEF IInv, Unanswered, Continuation, NowInForce, Checked,
                        Early, Middle, Late
  <1> QED
    BY <1>2, <1>3

\* A handler calls the next one and has answered nothing.
LEMMA WentOn ==
    ASSUME IInv, pc # "done", req' = req, lost' \in BOOLEAN, answer' = answer,
           pc' \in Early \cup Middle \cup Late
    PROVE  Unanswered' /\ AnsweredOnce' /\ PageAllowed'
  <1>1. pc' # "done"
    BY DEF Early, Middle, Late
  <1>2. req.path # "acme" => answer' = <<>> /\ DOMAIN answer' = {}
    BY DEF IInv, Unanswered
  <1> QED
    BY <1>1, <1>2 DEF Unanswered, AnsweredOnce, PageAllowed

\* A question is answered as before if neither the domain nor its projects
\* have changed.
LEMMA SameResolution ==
    ASSUME Kept
    PROVE  resolve(Resource(req))' = resolve(Resource(req))
    BY DEF Kept, resolve, Resource, Resolve, Project

\* The projects change while the request is under way.
LEMMA ChangeStep ==
    ASSUME IInv, SourceChanges
    PROVE  IInv'
  <1>1. /\ UNCHANGED <<pc, conf, req, domain, then, answer, lost, granted>>
        /\ domain = "found" /\ pc # "done"
        /\ inForce' = inForce \cup {Resolve(world', Resource(req))}
    BY DEF SourceChanges
  <1>2. resolve(Resource(req))' = Resolve(world', Resource(req))
    BY <1>1 DEF resolve, Resource
  <1>3. Unanswered' /\ Continuation' /\ AnsweredOnce'
    BY <1>1 DEF IInv, Unanswered, Continuation, AnsweredOnce
  <1>4. NowInForce'
    BY <1>1, <1>2 DEF NowInForce
  <1>5. Checked' /\ PageAllowed'
    BY <1>1 DEF IInv, Checked, PageAllowed
  <1> QED
    BY <1>3, <1>4, <1>5 DEF IInv

\* The handlers up to tryAuxiliaryHandlers.
LEMMA EarlySteps ==
    ASSUME IInv, rejectmethods \/ healthCheckMiddleware \/ routingMiddleware
                 \/ acmeMiddleware \/ authMiddleware \/ auxiliaryMiddleware
    PROVE  IInv'
  <1>1. lost \in BOOLEAN /\ pc \in Early \cup Middle /\ pc # "done" /\ req' = req
        /\ conf' = conf
    BY Zenon
       DEF IInv, Unanswered, rejectmethods, healthCheckMiddleware, routingMiddleware,
           acmeMiddleware, authMiddleware, auxiliaryMiddleware, KeptToo, Kept,
           Early, Middle
  <1>2. lost' \in BOOLEAN
    BY Zenon, <1>1 DEF rejectmethods, healthCheckMiddleware, routingMiddleware,
           acmeMiddleware, authMiddleware, auxiliaryMiddleware, NotResolving, Resolving
  <1>3. ASSUME pc' \in Early, answer' = answer PROVE IInv'
    <2>1. Unanswered' /\ AnsweredOnce' /\ PageAllowed'
      BY <1>1, <1>2, <1>3, WentOn
    <2> QED
      BY <1>3, <2>1 DEF IInv, Continuation, NowInForce, Checked, Early, Middle, Late
  <1>4. CASE rejectmethods
    BY <1>1, <1>2, <1>3, <1>4, Responded DEF rejectmethods, GoTo, Early
  <1>5. CASE healthCheckMiddleware
    BY <1>1, <1>2, <1>3, <1>5, Responded DEF healthCheckMiddleware, GoTo, Early
  <1>6. CASE routingMiddleware
    <2>1. CASE Respond("502", Gone)
      BY <1>1, <1>2, <2>1, Responded
    <2>2. CASE GoTo("acme") /\ domain' \in {"found", "nil"}
      <3>1. Unanswered' /\ AnsweredOnce' /\ PageAllowed'
        BY <1>1, <1>2, <2>2, WentOn DEF GoTo, Middle
      <3>2. resolve(Resource(req))' \in inForce'
        BY <1>6, <2>2 DEF routingMiddleware, resolve, Resource, Resolve, Project
      <3> QED
        BY <2>2, <3>1, <3>2 DEF GoTo, IInv, Continuation, NowInForce, Checked, Late
    <2> QED
      BY <1>6, <2>1, <2>2 DEF routingMiddleware
  <1>7. CASE acmeMiddleware
    <2>1. Kept /\ pc = "acme"
      BY <1>7 DEF acmeMiddleware, KeptToo
    <2>2. resolve(Resource(req))' \in inForce'
      BY <2>1, SameResolution DEF IInv, NowInForce, Middle, Kept
    <2>3. CASE req.path # "acme"
      <3>1. GoTo("auth")
        BY <1>7, <2>3 DEF acmeMiddleware
      <3>2. Unanswered' /\ AnsweredOnce' /\ PageAllowed'
        BY <1>1, <1>2, <3>1, WentOn DEF GoTo, Middle
      <3> QED
        BY <2>2, <3>1, <3>2 DEF GoTo, IInv, Continuation, NowInForce, Checked, Late
    <2>4. CASE req.path = "acme"
      <3>1. CASE Respond("gitlab", Gone)
        BY <1>1, <1>2, <3>1, Responded
      <3>2. CASE pc' = "auth"
        BY <1>1, <1>2, <2>2, <2>4, <3>2 DEF IInv, Unanswered, Continuation,
           NowInForce, Checked, AnsweredOnce, PageAllowed, Middle, Late
      <3> QED
        BY <1>7, <2>4, <3>1, <3>2 DEF acmeMiddleware
    <2> QED
      BY <2>3, <2>4
  <1>8. CASE authMiddleware
    <2>1. Kept /\ pc = "auth"
      BY <1>8 DEF authMiddleware, KeptToo
    <2>2. resolve(Resource(req))' \in inForce'
      BY <2>1, SameResolution DEF IInv, NowInForce, Middle, Kept
    <2>3. CASE GoTo("auxiliary")
      <3>1. Unanswered' /\ AnsweredOnce' /\ PageAllowed'
        BY <1>1, <1>2, <2>3, WentOn DEF GoTo, Middle
      <3> QED
        BY <2>2, <2>3, <3>1 DEF GoTo, IInv, Continuation, NowInForce, Checked, Late
    <2>4. CASE Respond("again", Gone) \/ Respond("oauth", Gone)
      BY <1>1, <1>2, <2>4, Responded
    <2> QED
      BY Zenon, <1>8, <2>3, <2>4 DEF authMiddleware
  <1>9. CASE auxiliaryMiddleware
    <2>1. Kept /\ pc = "auxiliary"
      BY <1>9 DEF auxiliaryMiddleware, KeptToo
    <2>2. resolve(Resource(req))' \in inForce'
      BY <2>1, SameResolution DEF IInv, NowInForce, Middle, Kept
    <2>3. CASE GoTo("exists") /\ (req.https \/ ~conf.redirectHTTP)
      <3>1. Unanswered' /\ AnsweredOnce' /\ PageAllowed'
        BY <1>1, <1>2, <2>3, WentOn DEF GoTo, Late
      <3> QED
        BY <1>1, <2>2, <2>3, <3>1 DEF GoTo, IInv, Continuation, NowInForce, Checked
    <2>4. CASE Respond("https", Gone) \/ Respond("artifact", Gone)
               \/ Respond("503", Gone)
      BY <1>1, <1>2, <2>4, Responded
    <2> QED
      BY Zenon, <1>9, <2>3, <2>4 DEF auxiliaryMiddleware
  <1> QED
    BY <1>4, <1>5, <1>6, <1>7, <1>8, <1>9

\* A late handler that keeps the projects goes on to another one.
LEMMA LateGoesOn ==
    ASSUME IInv, pc \in Late, Kept, lost' \in BOOLEAN, NEW h \in Late, GoTo(h),
           h = "check" => then' = "file",
           h = "withoutProject" => then' \in {"authFailed", "notFound"},
           h \in {"access", "check", "file"} /\ ~lost' =>
                req.https \/ \E l \in inForce : ~l.httpsOnly,
           h = "file" /\ ~lost' => \E l \in inForce : ~l.access \/ l.id \in granted'
    PROVE  IInv'
  <1>1. pc # "done" /\ req' = req /\ conf' = conf /\ inForce' = inForce /\ pc' = h
        /\ answer' = answer
    BY DEF Late, Kept, GoTo
  <1>2. Unanswered' /\ AnsweredOnce' /\ PageAllowed'
    BY <1>1, WentOn
  <1>3. Continuation'
    BY <1>1 DEF Continuation
  <1>4. NowInForce'
    BY <1>1, SameResolution DEF IInv, NowInForce
  <1>5. Checked'
    BY <1>1 DEF IInv, Checked
  <1> QED
    BY <1>2, <1>3, <1>4, <1>5 DEF IInv

\* HasLookupPath, IsHTTPSOnly and accessControlMiddleware.
LEMMA QuestionSteps ==
    ASSUME IInv, HasLookupPath \/ IsHTTPSOnly \/ accessControlMiddleware
    PROVE  IInv'
  <1>1. PICK l : l = resolve(Resource(req))
    OBVIOUS
  <1>2. pc \in Late /\ pc # "done" /\ Kept /\ req' = req /\ lost \in BOOLEAN
    BY DEF HasLookupPath, IsHTTPSOnly, accessControlMiddleware, Late, KeptToo, Kept,
           IInv, Unanswered
  <1>3. lost' \in BOOLEAN /\ (lost => lost')
    BY Zenon, <1>2 DEF HasLookupPath, IsHTTPSOnly, accessControlMiddleware, Resolving,
                NotResolving
  <1>4. l \in inForce
    BY <1>1, <1>2 DEF IInv, NowInForce
  <1>5. CASE HasLookupPath
    <2>1. \/ GoTo("httpsOnly")
          \/ GoTo("withoutProject") /\ then' = "authFailed"
      BY <1>5 DEF HasLookupPath
    <2> QED
      BY <1>2, <1>3, <2>1, LateGoesOn DEF Late
  <1>6. CASE IsHTTPSOnly
    <2>1. CASE Respond("https", Gone)
      BY <1>2, <1>3, <2>1, Responded
    <2>2. CASE GoTo("access") /\ (req.https \/ ~l.httpsOnly)
      BY <1>2, <1>3, <1>4, <2>2, LateGoesOn DEF Late
    <2> QED
      BY <1>1, <1>6, <2>1, <2>2 DEF IsHTTPSOnly
  <1>7. CASE accessControlMiddleware
    <2>1. ~lost' => req.https \/ \E m \in inForce : ~m.httpsOnly
      BY <1>3, <1>7 DEF accessControlMiddleware, IInv, Checked
    <2>2. CASE GoTo("check") /\ then' = "file"
      BY <1>2, <1>3, <2>1, <2>2, LateGoesOn DEF Late
    <2>3. CASE GoTo("file") /\ ~l.access
      BY <1>2, <1>3, <1>4, <2>1, <2>3, LateGoesOn DEF Late
    <2> QED
      BY <1>1, <1>7, <2>2, <2>3 DEF accessControlMiddleware
  <1> QED
    BY <1>5, <1>6, <1>7

\* checkAuthentication, before a private project and without a project.
LEMMA AuthSteps ==
    ASSUME IInv, CheckAuthentication \/ CheckAuthenticationWithoutProject
    PROVE  IInv'
  <1>1. PICK l : l = resolve(Resource(req))
    OBVIOUS
  <1>2. pc \in {"check", "withoutProject"} /\ pc \in Late /\ pc # "done" /\ Kept
        /\ req' = req /\ then' = then /\ lost \in BOOLEAN
    BY DEF CheckAuthentication, CheckAuthenticationWithoutProject, Late, Kept,
           IInv, Unanswered
  <1>3. lost' \in BOOLEAN /\ (lost => lost')
    BY Zenon, <1>2 DEF CheckAuthentication, CheckAuthenticationWithoutProject,
                checkAuthentication, Resolving, NotResolving
  <1>4. l \in inForce
    BY <1>1, <1>2 DEF IInv, NowInForce
  <1>5. CASE Respond("login", Gone) \/ Respond("again", Gone) \/ Respond("500", Gone)
    BY <1>2, <1>3, <1>5, Responded
  <1>6. CASE GoTo("authFailed")
    BY <1>2, <1>3, <1>6, LateGoesOn DEF Late
  <1>7. CASE GoTo(then) /\ then \in {"authFailed", "notFound"}
    BY <1>2, <1>3, <1>7, LateGoesOn DEF Late
  <1>8. CASE /\ pc = "check" /\ GoTo("file") /\ Resolving(l)
             /\ ~Found(l) \/ l.id \in req.user.access
             /\ granted' = granted \cup ({l.id} \cap req.user.access)
    <2>1. ~lost' => Found(l)
      BY Zenon, <1>8 DEF Resolving
    <2>2. ~lost' => l.id \in granted'
      BY <1>8, <2>1
    <2>3. ~lost' => req.https \/ \E m \in inForce : ~m.httpsOnly
      BY <1>3, <1>8 DEF IInv, Checked
    <2> QED
      BY <1>2, <1>3, <1>4, <1>8, <2>2, <2>3, LateGoesOn DEF Late
  <1>9. CASE CheckAuthentication
    <2>1. pc = "check" /\ then = "file"
      BY <1>9 DEF CheckAuthentication, IInv, Continuation
    <2> QED
      BY Zenon, <1>1, <1>5, <1>6, <1>8, <1>9, <2>1 DEF CheckAuthentication,
         checkAuthentication
  <1>10. CASE CheckAuthenticationWithoutProject
    <2>1. then \in {"authFailed", "notFound"}
      BY <1>10 DEF CheckAuthenticationWithoutProject, IInv, Continuation
    <2> QED
      BY Zenon, <1>5, <1>6, <1>7, <1>10, <2>1 DEF CheckAuthenticationWithoutProject,
         checkAuthentication
  <1> QED
    BY <1>9, <1>10

\* The page is served: both witnesses are there.
LEMMA PageStep ==
    ASSUME IInv, pc = "file", Kept, granted' = granted, lost' \in BOOLEAN,
           lost => lost', NEW l, Respond("page", l)
    PROVE  IInv'
  <1>1. pc' = "done" /\ answer' = Append(answer, [kind |-> "page", from |-> l])
        /\ req' = req /\ conf' = conf /\ inForce' = inForce
    BY DEF Respond, Kept
  <1>2. Unanswered' /\ Continuation' /\ NowInForce' /\ Checked'
    BY <1>1 DEF Unanswered, Continuation, NowInForce, Checked, Early, Middle, Late
  <1>3. AnsweredOnce'
    <2>1. ASSUME req.path # "acme" PROVE Len(answer') = 1
      <3>1. answer = <<>>
        BY <2>1 DEF IInv, Unanswered
      <3> QED
        BY <1>1, <3>1
    <2> QED
      BY <1>1, <2>1 DEF AnsweredOnce
  <1>4. PageAllowed'
    <2>1. ~lost' => /\ req.https \/ ~conf.redirectHTTP
                    /\ req.https \/ \E m \in inForce : ~m.httpsOnly
                    /\ \E m \in inForce : ~m.access \/ m.id \in granted
      BY DEF IInv, Checked, Late
    <2> QED
      BY <1>1, <2>1 DEF PageAllowed
  <1> QED
    BY <1>2, <1>3, <1>4 DEF IInv

\* The methods of Domain that serve a page or not found.
LEMMA ServeSteps ==
    ASSUME IInv, ServeFileHTTP \/ IsNamespaceProject \/ ServeNotFoundHTTP
                 \/ ServeNotFoundAuthFailed \/ AuthFailedPage \/ serveNamespaceNotFound
    PROVE  IInv'
  <1>1. pc \in Late /\ pc # "done" /\ Kept /\ req' = req /\ lost \in BOOLEAN
        /\ granted' = granted
    BY Zenon DEF ServeFileHTTP, IsNamespaceProject, ServeNotFoundHTTP,
           ServeNotFoundAuthFailed, AuthFailedPage, serveNamespaceNotFound, Late,
           KeptToo, Kept, IInv, Unanswered
  <1>2. lost' \in BOOLEAN /\ (lost => lost')
    BY Zenon, <1>1 DEF ServeFileHTTP, IsNamespaceProject, ServeNotFoundHTTP,
           ServeNotFoundAuthFailed, AuthFailedPage, serveNamespaceNotFound, Resolving
  <1>3. CASE Respond("404", Gone) \/ Respond("503", Gone)
             \/ \E l : Respond("custom404", l)
    BY <1>1, <1>2, <1>3, Responded
  <1>4. ASSUME NEW h \in {"namespace", "notFound", "authFailedPage",
                          "namespaceNotFound"}, GoTo(h)
        PROVE  IInv'
    BY <1>1, <1>2, <1>4, LateGoesOn DEF Late
  <1>5. CASE ServeFileHTTP
    <2>1. pc = "file"
      BY <1>5 DEF ServeFileHTTP
    <2>2. CASE \E l : Respond("page", l)
      BY <1>1, <1>2, <2>1, <2>2, PageStep
    <2> QED
      BY <1>3, <1>4, <1>5, <2>2 DEF ServeFileHTTP, Serving
  <1>6. CASE IsNamespaceProject
    <2>1. CASE GoTo("withoutProject") /\ then' = "notFound"
      BY <1>1, <1>2, <2>1, LateGoesOn DEF Late
    <2> QED
      BY <1>4, <1>6, <2>1 DEF IsNamespaceProject
  <1>7. CASE ServeNotFoundHTTP \/ serveNamespaceNotFound
    BY <1>3, <1>7 DEF ServeNotFoundHTTP, serveNamespaceNotFound, Serving
  <1>8. CASE ServeNotFoundAuthFailed \/ AuthFailedPage
    BY <1>3, <1>4, <1>8 DEF ServeNotFoundAuthFailed, AuthFailedPage
  <1> QED
    BY <1>5, <1>6, <1>7, <1>8

-----------------------------------------------------------------------------
(* The theorems.                                                           *)

\* The inductive invariant.
THEOREM Inductive == Spec => []IInv
  <1>1. Init => IInv
    <2> SUFFICES ASSUME Init PROVE IInv
      OBVIOUS
    <2>1. pc = "method" /\ answer = <<>> /\ lost = FALSE
      BY DEF Init
    <2>2. DOMAIN answer = {}
      BY <2>1
    <2> QED
      BY Zenon, <2>1, <2>2 DEF IInv, Unanswered, Continuation, NowInForce, Checked,
                        AnsweredOnce, PageAllowed, Early, Middle, Late
  <1>2. IInv /\ [Next]_vars => IInv'
    <2> SUFFICES ASSUME IInv, [Next]_vars PROVE IInv'
      OBVIOUS
    <2>1. CASE UNCHANGED vars
      <3>1. resolve(Resource(req))' = resolve(Resource(req))
        BY <2>1, SameResolution DEF vars, Kept
      <3> QED
        BY <2>1, <3>1 DEF vars, IInv, Unanswered, Continuation, NowInForce, Checked,
                          AnsweredOnce, PageAllowed
    <2> QED
      BY <2>1, ChangeStep, EarlySteps, QuestionSteps, AuthSteps, ServeSteps DEF Next
  <1> QED
    BY <1>1, <1>2, PTL DEF Spec

\* accessControlMiddleware and tryAuxiliaryHandlers: however often the projects
\* change between the resolutions of a request, its page is covered by lookup
\* paths that were in force during the request.
THEOREM PageAllowedHolds == Spec => []PageAllowed
  <1>1. IInv => PageAllowed
    BY DEF IInv
  <1> QED
    BY Inductive, <1>1, PTL

\* Every way through the handlers answers once, an ACME challenge apart.
THEOREM AnsweredOnceHolds == Spec => []AnsweredOnce
  <1>1. IInv => AnsweredOnce
    BY DEF IInv
  <1> QED
    BY Inductive, <1>1, PTL

-----------------------------------------------------------------------------
(* Private projects and paths without a project, while nothing changes.    *)

Private(l) == Found(l) /\ l.access /\ l.id \notin req.user.access
Public(l) == Found(l) /\ ~l.access

\* What the request brings along, and what the first projects are like.
Given ==
    /\ changes \in Nat
    /\ changes = 0 => world \in Worlds
    /\ req.user.session \in {"none", "garbled", "revoked", "token"}
    /\ ~req.known => req.path = "status"

\* What NotFoundAlike is about.
Quiet ==
    /\ changes = 0 /\ req.https /\ conf.auth /\ ~world.error
    /\ req.path \in {"project", "other"}
    /\ world.project.access /\ world.project.id \notin req.user.access
    /\ \/ world.root = Gone
       \/ world.root.access /\ world.root.id \notin req.user.access
       \/ ~world.root.access

\* The answers a user without access may get.
Alike(kind) ==
    \/ kind = "503"
    \/ req.path = "other" /\ kind = "page"
    \/ req.user.session = "none" /\ kind = "login"
    \/ req.user.session \in {"garbled", "revoked"} /\ kind = "again"
    \/ /\ req.user.session = "token"
       /\ kind = IF Public(world.root) THEN "custom404" ELSE "404"

\* How far the request can have got, by the path it has: the handlers after
\* the check of access are reached for a public root only, and those that
\* answer with the 404 page of the namespace with a good token only.
Stage ==
    /\ pc \in Middle \cup Late => domain = "found"
    /\ pc \in Late \cup {"auxiliary"} => req.user.session # "garbled"
    /\ pc \in {"httpsOnly", "access", "check"} =>
            ~(req.path = "other" /\ world.root = Gone)
    /\ pc \in {"file", "namespace", "notFound"} =>
            req.path = "other" /\ Public(world.root)
    /\ pc = "check" => ~(req.path = "other" /\ Public(world.root))
    /\ pc = "withoutProject" =>
            /\ req.path = "other"
            /\ \/ world.root = Gone /\ then = "authFailed"
               \/ Public(world.root) /\ then = "notFound"
    /\ pc \in {"authFailed", "authFailedPage", "namespaceNotFound", "notFound"} =>
            req.user.session = "token"
    /\ pc = "authFailedPage" => lookup = resolve(Resource(req))
    /\ pc = "namespaceNotFound" => ~(req.path = "other" /\ Public(world.root))
    /\ pc = "done" => Alike(answer[1].kind)

StageInv == Given /\ (Quiet => Stage)

\* A lookup path that is not Gone has been found, and is of no namespace yet.
LEMMA LookupFound ==
    ASSUME NEW id \in {"root", "project"}, NEW l \in Lookups(id), l # Gone
    PROVE  Found(l) /\ l.id = id /\ l.namespace = FALSE
           /\ DOMAIN l = {"id", "httpsOnly", "access", "namespace"}
  <1>1. l \in [id : {id}, httpsOnly : BOOLEAN, access : BOOLEAN,
               namespace : {FALSE}]
    BY Zenon DEF Lookups
  <1>2. l.id = id /\ l.namespace = FALSE
        /\ DOMAIN l = {"id", "httpsOnly", "access", "namespace"}
    BY Zenon, <1>1
  <1>3. Gone.id = "gone" /\ Failed.id = "error"
    BY DEF Gone, Failed, LookupPath
  <1> QED
    BY <1>2, <1>3 DEF Found

\* The project is private; the root is missing, private or public, and with it
\* the domain is a namespace.
LEMMA Situation ==
    ASSUME Given, Quiet
    PROVE  /\ Private(world.project) /\ world.project.namespace = FALSE
           /\ world.root = Gone \/ Private(world.root) \/ Public(world.root)
           /\ world.root # Gone =>
                    DOMAIN world.root = {"id", "httpsOnly", "access", "namespace"}
           /\ world.group
  <1>1. world \in Worlds
    BY DEF Given, Quiet
  <1>2. /\ world.root \in Lookups("root") /\ world.project \in Lookups("project")
        /\ world.project # Gone => world.group
    BY <1>1 DEF Worlds
  <1>3. ~Gone.access
    BY DEF Gone, LookupPath
  <1>4. world.project # Gone
    BY <1>3 DEF Quiet
  <1>5. Found(world.project) /\ world.project.namespace = FALSE
    BY Zenon, <1>2, <1>4, LookupFound
  <1>6. world.root # Gone => Found(world.root) /\
                    DOMAIN world.root = {"id", "httpsOnly", "access", "namespace"}
    BY Zenon, <1>2, LookupFound
  <1> QED
    BY <1>2, <1>4, <1>5, <1>6 DEF Quiet, Private, Public

\* What the root of the namespace is resolved to.
LEMMA RootResolved ==
    ASSUME Given, Quiet, domain = "found", NEW l, l = resolve("/")
    PROVE  /\ world.root = Gone => l = Gone
           /\ Private(world.root) => Private(l) /\ l.namespace
           /\ Public(world.root) => Public(l) /\ l.namespace
  <1>1. l = Project(world, "/")
    BY DEF resolve, Resolve, Quiet
  <1>2. world.root = Gone => l = Gone
    BY <1>1 DEF Project
  <1>3. ASSUME Found(world.root)
        PROVE  /\ l.id = world.root.id /\ l.access = world.root.access
               /\ l.namespace /\ Found(l)
    <2>1. PICK m : m = world.root
      OBVIOUS
    <2>2. m # Gone /\ m # Failed
      BY <1>3, <2>1 DEF Found
    <2>3. DOMAIN m = {"id", "httpsOnly", "access", "namespace"} /\ world.group
      BY <2>1, <2>2, Situation
    <2>4. l = [m EXCEPT !.namespace = world.group]
      BY <1>1, <2>1, <2>2 DEF Project
    <2>5. l.id = m.id /\ l.access = m.access /\ l.namespace
      BY <2>3, <2>4
    <2>6. l.namespace # Gone.namespace /\ l.namespace # Failed.namespace
      BY Zenon, <2>5 DEF Gone, Failed, LookupPath
    <2> QED
      BY <2>1, <2>5, <2>6 DEF Found
  <1> QED
    BY <1>2, <1>3 DEF Private, Public

\* What the request is resolved to.
LEMMA RequestResolved ==
    ASSUME Given, Quiet, domain = "found", NEW l, l = resolve(Resource(req))
    PROVE  /\ req.path = "project" => Private(l) /\ l.namespace = FALSE
           /\ req.path = "other" =>
                /\ world.root = Gone => l = Gone
                /\ Private(world.root) => Private(l) /\ l.namespace
                /\ Public(world.root) => Public(l) /\ l.namespace
  <1>1. ASSUME req.path = "project" PROVE l = world.project
    <2>1. world.project # Gone
      BY Situation DEF Private, Found
    <2> QED
      BY <1>1, <2>1 DEF resolve, Resolve, Resource, Project, Quiet
  <1>2. ASSUME req.path = "other" PROVE l = resolve("/")
    BY <1>2 DEF Resource
  <1> QED
    BY Zenon, <1>1, <1>2, Situation, RootResolved

\* No handler changes what the stages go by.
LEMMA StageKept ==
    ASSUME StageInv, UNCHANGED <<conf, req, world, changes>>,
           Quiet => Stage'
    PROVE  StageInv'
  <1>1. Worlds' = Worlds
    BY DEF Worlds, Lookups, Gone, LookupPath
  <1>2. Given'
    BY <1>1 DEF StageInv, Given
  <1>3. Quiet' => Quiet
    BY DEF Quiet, Gone, LookupPath
  <1> QED
    BY <1>2, <1>3 DEF StageInv

\* The next handler is one the request may have got to.
LEMMA StageGoes ==
    ASSUME UNCHANGED <<req, world>>, NEW h \in Early \cup Middle \cup Late,
           pc' = h,
           h \in Middle \cup Late => domain' = "found",
           h \in Late \cup {"auxiliary"} => req.user.session # "garbled",
           h \in {"httpsOnly", "access", "check"} =>
                ~(req.path = "other" /\ world.root = Gone),
           h \in {"file", "namespace", "notFound"} =>
                req.path = "other" /\ Public(world.root),
           h \in {"check", "namespaceNotFound"} =>
                ~(req.path = "other" /\ Public(world.root)),
           h = "withoutProject" =>
                /\ req.path = "other"
                /\ \/ world.root = Gone /\ then' = "authFailed"
                   \/ Public(world.root) /\ then' = "notFound",
           h \in {"authFailed", "authFailedPage", "namespaceNotFound", "notFound"}
                => req.user.session = "token",
           h = "authFailedPage" => lookup' = resolve(Resource(req))'
    PROVE  Stage'
  <1>1. Public(world.root)' <=> Public(world.root)
    BY DEF Public, Found, Gone, Failed, LookupPath
  <1>2. (world.root = Gone)' <=> world.root = Gone
    BY DEF Gone, LookupPath
  <1>3. h # "done"
    BY DEF Early, Middle, Late
  <1> QED
    BY <1>1, <1>2, <1>3 DEF Stage

\* The handler has given an answer the user may get.
LEMMA StageAnswers ==
    ASSUME IInv, Quiet, pc # "done", UNCHANGED <<req, world>>,
           NEW k, NEW from, Respond(k, from), Alike(k)
    PROVE  Stage'
  <1>1. pc' = "done" /\ answer' = Append(answer, [kind |-> k, from |-> from])
    BY DEF Respond
  <1>2. answer = <<>>
    BY DEF IInv, Unanswered, Quiet
  <1>3. answer'[1].kind = k
    <2>1. PICK x : x = [kind |-> k, from |-> from]
      BY Zenon
    <2>2. x.kind = k
      BY <2>1
    <2>3. answer' = Append(<<>>, x) /\ <<>> \in Seq({x})
      BY <1>1, <1>2, <2>1
    <2>4. answer'[1] = x
      BY <2>3
    <2> QED
      BY <2>2, <2>4
  <1>4. PICK a : a = answer'[1].kind
    OBVIOUS
  <1>5. Alike(a)'
    <2>1. Public(world.root)' <=> Public(world.root)
      BY DEF Public, Found, Gone, Failed, LookupPath
    <2> QED
      BY <1>3, <1>4, <2>1 DEF Alike
  <1> QED
    BY <1>1, <1>4, <1>5 DEF Stage, Middle, Late

\* The handlers up to tryAuxiliaryHandlers.
LEMMA EarlyStages ==
    ASSUME IInv, StageInv,
           rejectmethods \/ healthCheckMiddleware \/ routingMiddleware
                 \/ acmeMiddleware \/ authMiddleware \/ auxiliaryMiddleware
    PROVE  StageInv'
  <1>1. UNCHANGED <<conf, req, world, changes>> /\ pc # "done"
    BY Zenon
       DEF rejectmethods, healthCheckMiddleware, routingMiddleware, acmeMiddleware,
           authMiddleware, auxiliaryMiddleware, KeptToo, Kept
  <1> SUFFICES ASSUME Quiet PROVE Stage'
    BY <1>1, StageKept
  <1>2. Given /\ Stage /\ req.path \in {"project", "other"}
    BY DEF StageInv, Quiet
  <1>3. CASE rejectmethods \/ healthCheckMiddleware
    <2>1. pc' \in Early
      BY <1>2, <1>3 DEF rejectmethods, healthCheckMiddleware, GoTo, Early, Given
    <2> QED
      BY <1>1, <2>1, StageGoes DEF Early, Middle, Late
  <1>4. CASE routingMiddleware
    <2>1. world.project # Gone
      BY <1>2, Situation DEF Private, Found
    <2>2. GoTo("acme") /\ domain' = "found"
      BY <1>4, <2>1 DEF routingMiddleware, Quiet
    <2> QED
      BY <1>1, <2>2, StageGoes DEF GoTo, Middle, Late
  <1>5. CASE acmeMiddleware
    <2>1. GoTo("auth") /\ domain' = domain /\ domain = "found"
      BY <1>2, <1>5 DEF acmeMiddleware, KeptToo, Kept, Stage, Middle
    <2> QED
      BY <1>1, <2>1, StageGoes DEF GoTo, Middle, Late
  <1>6. CASE authMiddleware
    <2>1. domain' = domain /\ domain = "found"
      BY <1>2, <1>6 DEF authMiddleware, KeptToo, Kept, Stage, Middle
    <2>2. CASE req.user.session = "garbled" /\ Respond("again", Gone)
      BY <1>1, <2>2, StageAnswers DEF Alike
    <2>3. CASE req.user.session # "garbled" /\ GoTo("auxiliary")
      <3>1. pc' = "auxiliary" /\ req.user.session # "garbled"
        BY <2>3 DEF GoTo
      <3> QED
        BY <1>1, <2>1, <3>1, StageGoes DEF Middle, Late
    <2> QED
      BY Zenon, <1>2, <1>6, <2>2, <2>3 DEF authMiddleware, Quiet
  <1>7. CASE auxiliaryMiddleware
    <2>1. domain' = domain /\ domain = "found" /\ req.user.session # "garbled"
      BY <1>2, <1>7 DEF auxiliaryMiddleware, KeptToo, Kept, Stage, Middle
    <2>2. CASE Respond("503", Gone)
      BY <1>1, <2>2, StageAnswers DEF Alike
    <2>3. CASE GoTo("exists")
      BY <1>1, <2>1, <2>3, StageGoes DEF GoTo, Middle, Late
    <2> QED
      BY <1>2, <1>7, <2>2, <2>3 DEF auxiliaryMiddleware, Quiet
  <1> QED
    BY <1>3, <1>4, <1>5, <1>6, <1>7

\* tryAuxiliaryHandlers from the first resolution on, and
\* accessControlMiddleware.
LEMMA QuestionStages ==
    ASSUME IInv, StageInv,
           HasLookupPath \/ IsHTTPSOnly \/ accessControlMiddleware
    PROVE  StageInv'
  <1>1. UNCHANGED <<conf, req, world, changes>> /\ domain' = domain
    BY DEF HasLookupPath, IsHTTPSOnly, accessControlMiddleware, KeptToo, Kept
  <1> SUFFICES ASSUME Quiet PROVE Stage'
    BY <1>1, StageKept
  <1>2. Given /\ Stage /\ req.path \in {"project", "other"}
    BY DEF StageInv, Quiet
  <1>3. domain = "found" /\ req.user.session # "garbled"
    BY <1>2 DEF HasLookupPath, IsHTTPSOnly, accessControlMiddleware, Stage, Late
  <1>4. PICK l : l = resolve(Resource(req))
    OBVIOUS
  <1>5. /\ req.path = "project" => Private(l)
        /\ req.path = "other" => /\ world.root = Gone => l = Gone
                                 /\ Private(world.root) => Private(l)
                                 /\ Public(world.root) => Public(l)
        /\ world.root = Gone \/ Private(world.root) \/ Public(world.root)
    BY Zenon, <1>2, <1>3, <1>4, RequestResolved, Situation
  <1>6. ~Public(Gone) /\ ~Private(Gone) /\ ~Found(Gone)
    BY DEF Public, Private, Found
  <1>7. CASE HasLookupPath
    <2>1. CASE Found(l) /\ GoTo("httpsOnly")
      <3>1. ~(req.path = "other" /\ world.root = Gone)
        BY <1>5, <1>6, <2>1
      <3> QED
        BY <1>1, <1>3, <2>1, <3>1, StageGoes DEF GoTo, Middle, Late
    <2>2. CASE ~Found(l) /\ GoTo("withoutProject") /\ then' = "authFailed"
      <3>1. req.path = "other" /\ world.root = Gone
        BY <1>2, <1>5, <2>2 DEF Private, Public
      <3> QED
        BY <1>1, <1>3, <2>2, <3>1, StageGoes DEF GoTo, Middle, Late
    <2> QED
      BY <1>4, <1>7, <2>1, <2>2 DEF HasLookupPath
  <1>8. CASE IsHTTPSOnly
    <2>1. GoTo("access") /\ ~(req.path = "other" /\ world.root = Gone)
      BY <1>2, <1>8 DEF IsHTTPSOnly, Quiet, Stage
    <2> QED
      BY <1>1, <1>3, <2>1, StageGoes DEF GoTo, Middle, Late
  <1>9. CASE accessControlMiddleware
    <2>1. ~(req.path = "other" /\ world.root = Gone)
      BY <1>2, <1>9 DEF accessControlMiddleware, Stage
    <2>2. CASE l.access /\ GoTo("check")
      <3>1. ~(req.path = "other" /\ Public(world.root))
        BY <1>5, <2>2 DEF Public
      <3> QED
        BY <1>1, <1>3, <2>1, <2>2, <3>1, StageGoes DEF GoTo, Middle, Late
    <2>3. CASE ~l.access /\ GoTo("file")
      <3>1. req.path = "other" /\ Public(world.root)
        BY <1>2, <1>5, <2>1, <2>3 DEF Private
      <3> QED
        BY <1>1, <1>3, <2>3, <3>1, StageGoes DEF GoTo, Middle, Late
    <2> QED
      BY <1>4, <1>9, <2>2, <2>3 DEF accessControlMiddleware
  <1> QED
    BY <1>7, <1>8, <1>9

\* CheckAuthentication and CheckAuthenticationWithoutProject: without a good
\* token the answer is the same for every path; with one, a private project is
\* like a path without a project.
LEMMA AuthStages ==
    ASSUME IInv, StageInv,
           CheckAuthentication \/ CheckAuthenticationWithoutProject
    PROVE  StageInv'
  <1>1. UNCHANGED <<conf, req, world, changes, then>> /\ domain' = domain
    BY DEF CheckAuthentication, CheckAuthenticationWithoutProject, Kept
  <1> SUFFICES ASSUME Quiet PROVE Stage'
    BY <1>1, StageKept
  <1>2. Given /\ Stage /\ req.path \in {"project", "other"}
    BY DEF StageInv, Quiet
  <1>3. /\ pc \in {"check", "withoutProject"} /\ checkAuthentication
        /\ domain = "found" /\ req.user.session # "garbled"
    BY <1>2 DEF CheckAuthentication, CheckAuthenticationWithoutProject, Quiet,
                Stage, Late
  <1>4. PICK l : l = resolve(Resource(req))
    OBVIOUS
  <1>5. CASE req.user.session = "none" /\ Respond("login", Gone)
    BY <1>1, <1>3, <1>5, StageAnswers DEF Alike
  <1>6. CASE req.user.session = "revoked" /\ Respond("again", Gone)
    BY <1>1, <1>3, <1>6, StageAnswers DEF Alike
  <1>7. CASE req.user.session = "token" /\ GoTo("authFailed")
    BY <1>1, <1>3, <1>7, StageGoes DEF GoTo, Middle, Late
  <1>8. CASE /\ req.user.session = "token" /\ GoTo(then)
             /\ ~Found(l) \/ l.id \in req.user.access
    <2>1. /\ req.path = "project" => Private(l)
          /\ req.path = "other" => /\ world.root = Gone => l = Gone
                                   /\ Private(world.root) => Private(l)
                                   /\ Public(world.root) => Public(l)
          /\ world.root = Gone \/ Private(world.root) \/ Public(world.root)
      BY Zenon, <1>2, <1>3, <1>4, RequestResolved, Situation
    <2>2. pc # "check"
      <3>1. ~Private(l)
        BY <1>8 DEF Private
      <3> QED
        BY <1>2, <2>1, <3>1 DEF Stage
    <2>3. /\ req.path = "other"
          /\ \/ then = "authFailed"
             \/ Public(world.root) /\ then = "notFound"
      BY <1>2, <1>3, <2>2 DEF Stage
    <2>4. CASE then = "authFailed"
      BY <1>7, <1>8, <2>4
    <2>5. CASE Public(world.root) /\ then = "notFound"
      BY <1>1, <1>3, <1>8, <2>3, <2>5, StageGoes DEF GoTo, Middle, Late
    <2> QED
      BY <2>3, <2>4, <2>5
  <1> QED
    BY Zenon, <1>2, <1>3, <1>4, <1>5, <1>6, <1>7, <1>8 DEF checkAuthentication, Given

\* serveFileOrNotFoundHandler and ServeNotFoundHTTP: only the files and the 404
\* page of a public root are served.
LEMMA FileStages ==
    ASSUME IInv, StageInv,
           ServeFileHTTP \/ IsNamespaceProject \/ ServeNotFoundHTTP
    PROVE  StageInv'
  <1>1. /\ UNCHANGED <<conf, req, world, changes>> /\ domain' = domain
        /\ pc \in {"file", "namespace", "notFound"}
    BY Zenon DEF ServeFileHTTP, IsNamespaceProject, ServeNotFoundHTTP, KeptToo, Kept
  <1> SUFFICES ASSUME Quiet PROVE Stage'
    BY <1>1, StageKept
  <1>2. Given /\ Stage
    BY DEF StageInv
  <1>3. /\ domain = "found" /\ req.user.session # "garbled"
        /\ req.path = "other" /\ Public(world.root)
        /\ pc = "notFound" => req.user.session = "token"
    BY <1>1, <1>2 DEF Stage, Late
  <1>4. PICK l : l = resolve(Resource(req))
    OBVIOUS
  <1>5. Found(l) /\ l.namespace /\ l # Gone /\ l # Failed
    BY <1>2, <1>3, <1>4, RequestResolved DEF Public, Found
  <1>6. CASE ServeFileHTTP
    <2>1. CASE Respond("page", l)
      BY <1>1, <1>3, <2>1, StageAnswers DEF Alike
    <2>2. CASE GoTo("namespace")
      BY <1>1, <1>3, <2>2, StageGoes DEF GoTo, Middle, Late
    <2> QED
      BY <1>4, <1>5, <1>6, <2>1, <2>2 DEF ServeFileHTTP, Serving
  <1>7. CASE IsNamespaceProject
    <2>1. GoTo("withoutProject") /\ then' = "notFound"
      BY <1>4, <1>5, <1>7 DEF IsNamespaceProject
    <2> QED
      BY <1>1, <1>3, <2>1, StageGoes DEF GoTo, Middle, Late
  <1>8. CASE ServeNotFoundHTTP
    <2>1. Respond("custom404", l) /\ req.user.session = "token"
      BY <1>3, <1>4, <1>5, <1>8 DEF ServeNotFoundHTTP, Serving
    <2> QED
      BY <1>1, <1>3, <2>1, StageAnswers DEF Alike
  <1> QED
    BY <1>6, <1>7, <1>8

\* ServeNotFoundAuthFailed and serveNamespaceNotFound: for a private project,
\* as for a path without one, it is the root that decides between its own 404
\* page and the general one.
LEMMA FailedStages ==
    ASSUME IInv, StageInv,
           ServeNotFoundAuthFailed \/ AuthFailedPage \/ serveNamespaceNotFound
    PROVE  StageInv'
  <1>1. /\ UNCHANGED <<conf, req, world, changes>> /\ domain' = domain
        /\ pc \in {"authFailed", "authFailedPage", "namespaceNotFound"}
    BY DEF ServeNotFoundAuthFailed, AuthFailedPage, serveNamespaceNotFound,
           KeptToo, Kept
  <1> SUFFICES ASSUME Quiet PROVE Stage'
    BY <1>1, StageKept
  <1>2. Given /\ Stage /\ req.path \in {"project", "other"}
    BY DEF StageInv, Quiet
  <1>3. domain = "found" /\ req.user.session = "token"
    BY <1>1, <1>2 DEF Stage, Late
  <1>4. PICK l : l = resolve(Resource(req))
    OBVIOUS
  <1>5. /\ req.path = "project" => Private(l) /\ l.namespace = FALSE
        /\ req.path = "other" =>
                /\ world.root = Gone => l = Gone
                /\ Private(world.root) => Private(l) /\ l.namespace
                /\ Public(world.root) => Public(l) /\ l.namespace
        /\ world.root = Gone \/ Private(world.root) \/ Public(world.root)
    BY Zenon, <1>2, <1>3, <1>4, RequestResolved, Situation
  <1>6. ~Public(Gone) /\ ~Private(Gone) /\ ~Found(Gone)
    BY DEF Public, Private, Found
  <1>7. CASE ServeNotFoundAuthFailed
    <2>1. CASE Found(l) /\ GoTo("authFailedPage") /\ lookup' = l
      <3>1. resolve(Resource(req))' = l
        BY <1>1, <1>4 DEF resolve, Resource, Resolve, Project, Gone, Failed,
                          LookupPath
      <3> QED
        BY <1>1, <1>3, <2>1, <3>1, StageGoes DEF GoTo, Middle, Late
    <2>2. CASE ~Found(l) /\ Respond("404", Gone)
      <3>1. ~Public(world.root)
        BY <1>2, <1>5, <1>6, <2>2 DEF Private, Public
      <3> QED
        BY <1>1, <1>3, <2>2, <3>1, StageAnswers DEF Alike
    <2> QED
      BY <1>4, <1>7, <2>1, <2>2 DEF ServeNotFoundAuthFailed
  <1>8. CASE AuthFailedPage
    <2>1. lookup = l
      BY <1>2, <1>4, <1>8 DEF AuthFailedPage, Stage
    <2>2. CASE l.namespace /\ ~l.access /\ GoTo("notFound")
      <3>1. ~Gone.namespace
        BY DEF Gone, LookupPath
      <3>2. req.path = "other" /\ Public(world.root)
        BY <1>2, <1>5, <2>2, <3>1 DEF Private
      <3> QED
        BY <1>1, <1>3, <2>2, <3>2, StageGoes DEF GoTo, Middle, Late
    <2>3. CASE ~(l.namespace /\ ~l.access) /\ GoTo("namespaceNotFound")
      <3>1. ~(req.path = "other" /\ Public(world.root))
        BY <1>5, <2>3 DEF Public
      <3> QED
        BY <1>1, <1>3, <2>3, <3>1, StageGoes DEF GoTo, Middle, Late
    <2> QED
      BY <1>4, <1>8, <2>1, <2>2, <2>3 DEF AuthFailedPage
  <1>9. CASE serveNamespaceNotFound
    <2>1. PICK r : r = resolve("/")
      OBVIOUS
    <2>2. /\ world.root = Gone => r = Gone
          /\ Private(world.root) => Private(r)
          /\ Public(world.root) => Public(r)
      BY <1>2, <1>3, <2>1, RootResolved
    <2>3. Serving(r, ~r.access /\ Respond("custom404", r),
                     r.access /\ Respond("404", Gone))
      BY <1>9, <2>1 DEF serveNamespaceNotFound
    <2>4. CASE Public(world.root)
      <3>1. Respond("custom404", r)
        BY <2>2, <2>3, <2>4 DEF Serving, Public, Found
      <3> QED
        BY <1>1, <1>3, <2>4, <3>1, StageAnswers DEF Alike
    <2>5. CASE ~Public(world.root)
      <3>1. world.root = Gone \/ Private(world.root)
        BY <1>5, <2>5
      <3>2. Gone # Failed
        BY DEF Gone, Failed, LookupPath
      <3>3. Respond("404", Gone)
        BY <2>2, <2>3, <3>1, <3>2 DEF Serving, Private, Found
      <3> QED
        BY <1>1, <1>3, <2>5, <3>3, StageAnswers DEF Alike
    <2> QED
      BY <2>4, <2>5
  <1> QED
    BY <1>7, <1>8, <1>9

\* checkAuthAndServeNotFound and ServeNotFoundAuthFailed: while the projects do
\* not change, a user without access cannot tell a private project from a path
\* that is no project at all, whatever the root of the namespace is.
THEOREM NotFoundAlikeHolds == Spec => []NotFoundAlike
  <1>1. Init => StageInv
    <2> SUFFICES ASSUME Init PROVE StageInv
      OBVIOUS
    <2>1. pc = "method" /\ changes = 0 /\ world \in Worlds
      BY DEF Init
    <2>2. req.user.session \in {"none", "garbled", "revoked", "token"}
      BY DEF Init, Users
    <2>3. Given
      BY <2>1, <2>2 DEF Init, Given
    <2> QED
      BY <2>1, <2>3 DEF StageInv, Stage, Middle, Late
  <1>2. IInv /\ StageInv /\ [Next]_vars => StageInv'
    <2> SUFFICES ASSUME IInv, StageInv, [Next]_vars PROVE StageInv'
      OBVIOUS
    <2>1. CASE UNCHANGED vars
      <3>1. UNCHANGED <<conf, req, world, changes>>
        BY <2>1 DEF vars
      <3>2. resolve(Resource(req))' = resolve(Resource(req))
        BY <2>1, SameResolution DEF vars, Kept
      <3>3. Quiet => Stage'
        BY <2>1, <3>2 DEF vars, StageInv, Stage, Alike, Public, Found, Gone,
                          Failed, LookupPath
      <3> QED
        BY <3>1, <3>3, StageKept
    <2>2. CASE SourceChanges
      <3>1. changes' \in Nat /\ changes' # 0 /\ req' = req
        BY <2>2 DEF SourceChanges, StageInv, Given
      <3> QED
        BY <3>1 DEF StageInv, Given, Quiet
    <2> QED
      BY <2>1, <2>2, EarlyStages, QuestionStages, AuthStages, FileStages,
         FailedStages DEF Next
  <1>3. StageInv => NotFoundAlike
    <2> SUFFICES ASSUME StageInv PROVE NotFoundAlike
      OBVIOUS
    <2>1. PICK k : k = answer[1].kind
      OBVIOUS
    <2>2. Quiet /\ pc = "done" => Alike(k)
      BY <2>1 DEF StageInv, Stage
    <2> QED
      BY <2>1, <2>2 DEF NotFoundAlike, Quiet, Alike, Public, StageInv, Given
  <1> QED
    BY <1>1, <1>2, <1>3, Inductive, PTL DEF Spec

-----------------------------------------------------------------------------
(* routingMiddleware asks Domains for the domain of the request. Module    *)
(* Domains has this side of it: the choice of the source, for any number   *)
(* of requests.                                                            *)

\* What routing notes down for a request.
RoutedFields == {"name", "after", "source"}

\* Nothing sets isReady again once the poll is over.
Withdrawn == withdrawn => poll = "over" /\ ~isReady

SourceIInv ==
    /\ DOMAIN request = Requests
    /\ \A r \in Requests : RoutedFields \subseteq DOMAIN request[r]
    /\ Withdrawn
    /\ StaysOnDisk

\* A step of one request keeps the invariant if the request is not sent to
\* GitLab against the rule, and isReady is not set against it.
LEMMA RequestMoved ==
    ASSUME SourceIInv, NEW r \in Requests, NEW n,
           request' = [request EXCEPT ![r] = n],
           RoutedFields \subseteq DOMAIN n,
           configSource = "auto" /\ n.name = "plain" /\ n.after
                => n.source # "gitlab",
           configSource' = configSource, Withdrawn'
    PROVE  SourceIInv'
  <1>1. DOMAIN request' = Requests
    BY DEF SourceIInv
  <1>2. \A q \in Requests : request'[q] = IF q = r THEN n ELSE request[q]
    BY DEF SourceIInv
  <1>3. \A q \in Requests : RoutedFields \subseteq DOMAIN request'[q]
    BY <1>2 DEF SourceIInv
  <1>4. StaysOnDisk'
    BY <1>2 DEF SourceIInv, StaysOnDisk
  <1> QED
    BY <1>1, <1>3, <1>4 DEF SourceIInv

\* GetDomain chooses the disk for a plain domain once isReady is withdrawn.
LEMMA Routed ==
    ASSUME SourceIInv, NEW r \in Requests, Route(r)
    PROVE  SourceIInv'
  <1> DEFINE new(name) ==
                [pc |-> "domain", name |-> name, after |-> withdrawn,
                 source |-> source(name), known |-> FALSE,
                 lookup |-> "error", status |-> 0]
  <1>1. PICK name \in {"plain", "serverless"} :
            request' = [request EXCEPT ![r] = new(name)]
    BY Zenon DEF Route
  <1>2. PICK n : n = new(name) /\ request' = [request EXCEPT ![r] = n]
    BY Zenon, <1>1
  <1>3. configSource = "auto" /\ n.name = "plain" /\ n.after
            => n.source # "gitlab"
    BY <1>2 DEF SourceIInv, Withdrawn, source
  <1>4. RoutedFields \subseteq DOMAIN n
    BY <1>2 DEF RoutedFields
  <1>5. configSource' = configSource /\ Withdrawn'
    BY DEF Route, SourceIInv, Withdrawn
  <1> QED
    BY Zenon, <1>2, <1>3, <1>4, <1>5, RequestMoved

\* A request that has its source stays with it.
LEMMA Advanced ==
    ASSUME SourceIInv, NEW r \in Requests, NEW n,
           request' = [request EXCEPT ![r] = n],
           RoutedFields \subseteq DOMAIN n,
           \A f \in RoutedFields : n[f] = request[r][f],
           configSource' = configSource, Withdrawn'
    PROVE  SourceIInv'
  <1>1. n.name = request[r].name /\ n.after = request[r].after
        /\ n.source = request[r].source
    BY DEF RoutedFields
  <1>2. configSource = "auto" /\ n.name = "plain" /\ n.after
            => n.source # "gitlab"
    BY Zenon, <1>1 DEF SourceIInv, StaysOnDisk
  <1> QED
    BY Zenon, <1>2, RequestMoved

\* A 401 that is handled after the end of the poll withdraws isReady.
LEMMA SourceRequestStep ==
    ASSUME SourceIInv, NEW r \in Requests,
           \/ DiskGetDomain(r) \/ GitlabResolve(r)
           \/ GitlabGetDomain(r) \/ Auxiliary(r)
    PROVE  SourceIInv'
  <1>1. configSource' = configSource
    BY DEF DiskGetDomain, GitlabResolve, GitlabGetDomain,
           Auxiliary
  <1>2. Withdrawn'
    <2>1. CASE DiskGetDomain(r)
      BY Zenon, <2>1 DEF DiskGetDomain, SourceIInv, Withdrawn
    <2>2. CASE GitlabResolve(r)
      BY Zenon, <2>2 DEF GitlabResolve, SourceIInv, Withdrawn
    <2>3. CASE GitlabGetDomain(r)
      BY Zenon, <2>3 DEF GitlabGetDomain, SourceIInv, Withdrawn
    <2>4. CASE Auxiliary(r)
      BY Zenon, <2>4 DEF Auxiliary, SourceIInv, Withdrawn
    <2> QED
      BY <2>1, <2>2, <2>3, <2>4
  <1>3. PICK b : b = request[r] /\ RoutedFields \subseteq DOMAIN b
    BY DEF SourceIInv
  <1>4. \E n : /\ request' = [request EXCEPT ![r] = n]
               /\ RoutedFields \subseteq DOMAIN n
               /\ \A f \in RoutedFields : n[f] = b[f]
    <2>1. ASSUME NEW p, NEW k, NEW l,
                 request' = [request EXCEPT ![r].pc = p, ![r].known = k,
                                            ![r].lookup = l]
          PROVE  <1>4!:
      <3>1. PICK n : n = [b EXCEPT !.pc = p, !.known = k, !.lookup = l]
        OBVIOUS
      <3>2. request' = [request EXCEPT ![r] = n]
        BY Zenon, <1>3, <2>1, <3>1 DEF SourceIInv
      <3>3. RoutedFields \subseteq DOMAIN n
            /\ \A f \in RoutedFields : n[f] = b[f]
        BY <1>3, <3>1 DEF RoutedFields
      <3> QED
        BY Zenon, <3>2, <3>3
    <2>2. ASSUME NEW p, NEW f \in {"lookup", "status", "known"}, NEW v,
                 \/ request' = [request EXCEPT ![r].pc = p]
                 \/ request' = [request EXCEPT ![r].pc = p, ![r][f] = v]
          PROVE  <1>4!:
      <3>1. PICK n : /\ n \in {[b EXCEPT !.pc = p],
                                [b EXCEPT !.pc = p, ![f] = v]}
                     /\ request' = [request EXCEPT ![r] = n]
        BY <1>3, <2>2 DEF SourceIInv
      <3>2. RoutedFields \subseteq DOMAIN n
            /\ \A g \in RoutedFields : n[g] = b[g]
        BY Zenon, <1>3, <3>1 DEF RoutedFields
      <3> QED
        BY Zenon, <3>1, <3>2
    <2>3. CASE DiskGetDomain(r)
      <3>1. \/ \E l : request' = [request EXCEPT ![r].pc = "auxiliary",
                                    ![r].known = disk, ![r].lookup = l]
            \/ request' = [request EXCEPT ![r].pc = "done"]
        BY <2>3, Zenon DEF DiskGetDomain
      <3>2. PICK k : k = disk
        OBVIOUS
      <3>3. ASSUME NEW l, request' = [request EXCEPT ![r].pc = "auxiliary",
                                        ![r].known = disk, ![r].lookup = l]
            PROVE  <1>4!:
        BY Zenon, <2>1, <3>2, <3>3
      <3>4. CASE request' = [request EXCEPT ![r].pc = "done"]
        BY Zenon, <2>2, <3>4
      <3> QED
        BY <3>1, <3>3, <3>4
    <2>4. CASE GitlabResolve(r)
      BY Zenon, <2>2, <2>4 DEF GitlabResolve
    <2>5. CASE GitlabGetDomain(r)
      BY <2>2, <2>5 DEF GitlabGetDomain
    <2>6. CASE Auxiliary(r)
      <3>1. PICK v : request' = [request EXCEPT ![r].pc = "done",
                                                ![r].status = v]
        <4>1. \/ request' = [request EXCEPT ![r].pc = "done", ![r].status = 503]
              \/ \E status \in {200, 404} :
                    request' = [request EXCEPT ![r].pc = "done",
                                               ![r].status = status]
          BY <2>6 DEF Auxiliary
        <4> QED
          BY <4>1
      <3>2. PICK f \in {"lookup", "status", "known"} : f = "status"
        OBVIOUS
      <3>3. request' = [request EXCEPT ![r].pc = "done", ![r][f] = v]
        BY Zenon, <3>1, <3>2
      <3> QED
        BY Zenon, <2>2, <3>3
    <2> QED
      BY <2>3, <2>4, <2>5, <2>6
  <1> QED
    BY Zenon, <1>1, <1>2, <1>3, <1>4, Advanced

\* The poll ends once and for all; the disk and the API are not looked at.
LEMMA SourceStep == SourceIInv /\ [DomainsNext]_domainsVars => SourceIInv'
  <1> SUFFICES ASSUME SourceIInv, [DomainsNext]_domainsVars
               PROVE  SourceIInv'
    OBVIOUS
  <1>1. ASSUME UNCHANGED <<configSource, request>>, Withdrawn'
        PROVE  SourceIInv'
    BY <1>1 DEF SourceIInv, StaysOnDisk
  <1>2. CASE \/ ApiChanges \/ StatusSucceeds
             \/ PollGivesUp \/ SetReady \/ DiskReady
             \/ UNCHANGED domainsVars
    <2>1. UNCHANGED <<configSource, request>>
      BY <1>2 DEF ApiChanges, StatusSucceeds,
         PollGivesUp, SetReady, DiskReady, domainsVars
    <2>2. UNCHANGED withdrawn
      BY <1>2 DEF ApiChanges, StatusSucceeds,
         PollGivesUp, SetReady, DiskReady, domainsVars
    <2>3. poll = "over" => UNCHANGED <<poll, isReady>>
      BY <1>2 DEF ApiChanges, StatusSucceeds,
         PollGivesUp, SetReady, DiskReady, domainsVars
    <2>4. Withdrawn'
      BY <2>2, <2>3 DEF SourceIInv, Withdrawn
    <2> QED
      BY <1>1, <2>1, <2>4
  <1>3. ASSUME NEW r \in Requests, Route(r) PROVE SourceIInv'
    BY <1>3, Routed
  <1>4. ASSUME NEW r \in Requests,
               \/ DiskGetDomain(r) \/ GitlabResolve(r)
               \/ GitlabGetDomain(r) \/ Auxiliary(r)
        PROVE  SourceIInv'
    BY <1>4, SourceRequestStep
  <1> QED
    BY <1>2, <1>3, <1>4 DEF DomainsNext

\* Once a 401 has been handled with the poll over, GetDomain sends no later
\* request for a plain domain to GitLab with domain-config-source=auto, for any
\* number of requests in flight and any behaviour of the API.
THEOREM StaysOnDiskHolds == DomainsSpec => []StaysOnDisk
  <1>1. DomainsInit => SourceIInv
    <2> SUFFICES ASSUME DomainsInit PROVE SourceIInv
      OBVIOUS
    <2>1. DOMAIN request = Requests /\ Withdrawn
      BY DEF DomainsInit, Withdrawn
    <2>2. ASSUME NEW r \in Requests
          PROVE  RoutedFields \subseteq DOMAIN request[r] /\ ~request[r].after
      BY DEF DomainsInit, RoutedFields
    <2> QED
      BY <2>1, <2>2 DEF SourceIInv, StaysOnDisk
  <1>2. SourceIInv => StaysOnDisk
    BY DEF SourceIInv
  <1> QED
    BY <1>1, <1>2, SourceStep, PTL DEF DomainsSpec

=============================================================================
