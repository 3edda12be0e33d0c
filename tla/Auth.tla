-------------------------------- MODULE Auth --------------------------------
(***************************************************************************)
(* Access control: internal/auth, with the artifact handlers that use it.  *)
(* A user whose browser has a session cookie per host loads pages in       *)
(* several tabs. A page that needs a login sends the tab to the auth host, *)
(* from there to GitLab, back to the auth host and back to the site.       *)
(*                                                                         *)
(* The program keeps no state: a session is a cookie, read when a request  *)
(* is sent and replaced as a whole when its response arrives. Requests of  *)
(* other tabs may be answered in between.                                  *)
(*                                                                         *)
(* A state parameter is a random string; here it also tells at which site  *)
(* the login was started, and the code and the token that come of the      *)
(* login carry this along. The program never looks at this part.           *)
(***************************************************************************)
EXTENDS Naturals, FiniteSets

CONSTANTS
    Tabs,        \* tabs of one browser
    Sites,       \* hosts with pages under access control
    AuthHost,    \* host of the redirect URI, may have pages too
    Members,     \* sites the user may see
    Wanted,      \* what a tab may load: pairs of a site and a page
    MaxFaults,   \* bound: disturbances from outside
    MaxStates,   \* bound: random strings in use at one time
    Garbled,     \* a cookie that cannot be decoded
    Denied,      \* the error parameter in the place of a code
    None

ASSUME AuthAssumption ==
    /\ Members \subseteq Sites
    /\ Wanted \subseteq Sites \X {"page", "artifact"}
    /\ MaxFaults \in Nat
    /\ MaxStates \in Nat

VARIABLES
    cookie,   \* the session cookie the browser has for each host
    tab,      \* what each tab is doing
    calm,     \* loads nothing has interfered with so far
    faults    \* number of disturbances so far

vars == <<cookie, tab, calm, faults>>

Pages == {"page", "artifact"}
Hosts == Sites \cup {AuthHost}

\* There is always a random string that is not in use.
ASSUME StatesAssumption ==
    /\ IsFiniteSet(Sites) /\ IsFiniteSet(Tabs)
    /\ Cardinality(Hosts) + 2 * Cardinality(Tabs) < MaxStates

States == [id : 1..MaxStates, host : Hosts]
Tokens == [host : Hosts, live : BOOLEAN]
Codes == [host : Hosts, signed : Hosts \cup {None, "nested"}]

\* session.Values: the state, the page the login is for, the token, and the
\* site the auth host proxies a login for. A host without a cookie has a
\* session without values.
Sessions == [state : States \cup {None}, page : Pages \cup {None},
             token : Tokens \cup {None}, proxy : Hosts \cup {None}]
NoValues == [state |-> None, page |-> None, token |-> None, proxy |-> None]

\* nil, an error parameter and an undecodable cookie are not taken for values.
ASSUME ValuesAssumption ==
    /\ None \notin Hosts \cup Pages
    /\ None \notin States
    /\ None \notin Tokens
    /\ None \notin [host : Hosts, session : Sessions]
    /\ Denied \notin Codes
    /\ Garbled \notin Sessions

\* The address a tab is at: a page, or /auth with a domain, or with a code,
\* or the authorization page of GitLab. An OAuth code is plain, signed for a
\* site, or signed more than once.
PageUrl(h, p) == [kind |-> "page", host |-> h, page |-> p,
                  domain |-> None, state |-> None, code |-> None]
LoginUrl(h, s) == [kind |-> "login", host |-> AuthHost, page |-> None,
                   domain |-> h, state |-> s, code |-> None]
AuthorizeUrl(s) == [kind |-> "authorize", host |-> AuthHost, page |-> None,
                    domain |-> None, state |-> s, code |-> None]
CallbackUrl(h, s, c) == [kind |-> "callback", host |-> h, page |-> None,
                         domain |-> None, state |-> s, code |-> c]

-----------------------------------------------------------------------------
(* Requests and responses. A tab is used for one page. pc is "idle",       *)
(* "request" with an address to ask for, "response" with an answer under   *)
(* way, or "done".                                                         *)

Idle == [pc |-> "idle", want |-> PageUrl(AuthHost, None),
         url |-> PageUrl(AuthHost, None), set |-> None, status |-> 0]
Done == [Idle EXCEPT !.pc = "done"]

\* What earlier loads, completed or not, may have left in a session.
Leftovers(h) ==
    {Garbled, NoValues} \cup
    {[state |-> [id |-> 1, host |-> g], page |-> "page", token |-> token,
      proxy |-> None] :
        g \in {h} \cap Sites, token \in [host : {h}, live : BOOLEAN]}
    \cup {[NoValues EXCEPT !.proxy = g] : g \in {s \in Sites : h = AuthHost}}

Init ==
    /\ \E h \in Hosts : \E session \in Leftovers(h) :
            cookie = [g \in Hosts |-> IF g = h THEN session ELSE NoValues]
    /\ tab = [t \in Tabs |-> Idle]
    /\ calm = {}
    /\ faults = 0

Active(t) == tab[t].pc \in {"request", "response"}

\* The user opens a page; a login of another tab may be under way.
Load(t) ==
    /\ tab[t].pc = "idle"
    /\ \E w \in Wanted :
            LET url == PageUrl(w[1], w[2])
            IN  tab' = [tab EXCEPT ![t] = [Idle EXCEPT !.pc = "request",
                                              !.want = url, !.url = url]]
    /\ calm' = IF \E u \in Tabs \ {t} : Active(u) THEN {} ELSE {t}
    /\ UNCHANGED <<cookie, faults>>

\* The response arrives: its cookie replaces the one of the host it is from,
\* and the tab follows the redirect or shows the answer.
Receive(t) ==
    /\ tab[t].pc = "response"
    /\ cookie' = IF tab[t].set = None THEN cookie
                 ELSE [cookie EXCEPT ![tab[t].set.host] = tab[t].set.session]
    /\ tab' = [tab EXCEPT ![t] = IF @.status # 302 THEN Done ELSE
                    [@ EXCEPT !.pc = "request", !.set = None, !.status = 0]]
    /\ calm' = IF tab[t].status = 302 THEN calm ELSE calm \ {t}
    /\ UNCHANGED faults

\* session.Save and http.Redirect.
SaveAndRedirect(t, session, url) ==
    tab' = [tab EXCEPT ![t] =
                [@ EXCEPT !.pc = "response", !.status = 302, !.url = url,
                          !.set = [host |-> tab[t].url.host,
                                   session |-> session]]]

Answer(t, status) ==
    tab' = [tab EXCEPT ![t].pc = "response", ![t].status = status]

\* A disturbance that ends the calm of the loads under way.
Fault == faults < MaxFaults /\ faults' = faults + 1 /\ calm' = {}
NoFault == UNCHANGED <<calm, faults>>

Asks(t, kind) == tab[t].pc = "request" /\ tab[t].url.kind = kind
Session(t) == cookie[tab[t].url.host]

-----------------------------------------------------------------------------
(* The handlers of the program: each one is a whole request.               *)

\* checkSession with a cookie that cannot be decoded.
checkSession(t) ==
    /\ tab[t].pc = "request" /\ tab[t].url.kind # "authorize"
    /\ Session(t) = Garbled
    /\ SaveAndRedirect(t, NoValues, tab[t].url)
    /\ UNCHANGED cookie /\ NoFault

HasSession(t, kind) == Asks(t, kind) /\ Session(t) # Garbled

\* Slip: a domain of an earlier login is kept.
ProxyDomainKept(t) ==
    /\ HasSession(t, "login")
    /\ LET domain == IF Session(t).proxy = None THEN tab[t].url.domain
                                                ELSE Session(t).proxy
       IN  SaveAndRedirect(t, [Session(t) EXCEPT !.proxy = domain],
                              AuthorizeUrl(tab[t].url.state))
    /\ UNCHANGED cookie /\ NoFault

\* The first half of handleProxyingAuth: remember the domain, ask GitLab. The
\* domain may not be served any more.
ProxyAuthToGitlab(t) ==
    /\ HasSession(t, "login")
    /\ \/ /\ SaveAndRedirect(t, [Session(t) EXCEPT !.proxy = tab[t].url.domain],
                                AuthorizeUrl(tab[t].url.state))
          /\ NoFault
       \/ Answer(t, 401) /\ Fault
    /\ UNCHANGED cookie

\* EncryptAndSignCode.
EncryptAndSignCode(host, code) ==
    [code EXCEPT !.signed = IF @ = None THEN host ELSE "nested"]

\* The second half: send the tab on to the domain, with the code signed for
\* it. There is no code to sign when GitLab has refused.
ProxyCallbackToCustomDomain(t) ==
    /\ HasSession(t, "callback")
    /\ Session(t).proxy # None
    /\ LET url == tab[t].url
           cleared == [Session(t) EXCEPT !.proxy = None]
       IN  IF url.code = Denied
           THEN tab' = [tab EXCEPT ![t] =
                    [@ EXCEPT !.pc = "response", !.status = 503,
                              !.set = [host |-> url.host, session |-> cleared]]]
           ELSE SaveAndRedirect(t, cleared, CallbackUrl(Session(t).proxy,
                    url.state, EncryptAndSignCode(Session(t).proxy, url.code)))
    /\ UNCHANGED cookie /\ NoFault

\* The error parameter of a callback.
CallbackError(t) ==
    /\ HasSession(t, "callback")
    /\ Session(t).proxy = None
    /\ tab[t].url.code = Denied
    /\ Answer(t, 401)
    /\ UNCHANGED cookie /\ NoFault

\* Slip: it is enough that the session has a state.
StateNotCompared(session, url) == session.state # None

validateState(session, url) == session.state # None /\ session.state = url.state

\* A code is readable at the host it was signed for, for jwtExpiry.
DecryptCode(code, host) == code.signed = host

\* fetchAccessToken, when GitLab grants it.
TokenOf(code) == [host |-> code.host, live |-> TRUE]

\* checkAuthenticationResponse. GitLab may refuse the code or not answer, and
\* the signed code may have expired.
checkAuthenticationResponse(t) ==
    LET url == tab[t].url
        session == Session(t)
        valid == validateState(session, url)
    IN  /\ HasSession(t, "callback")
        /\ session.proxy = None
        /\ url.code # Denied
        /\ \/ ~valid /\ Answer(t, 401) /\ NoFault
           \/ /\ valid
              /\ session.page = None \/ ~DecryptCode(url.code, url.host)
              /\ Answer(t, 500) /\ NoFault
           \/ /\ valid /\ session.page # None /\ DecryptCode(url.code, url.host)
              /\ \/ /\ SaveAndRedirect(t,
                            [session EXCEPT !.token = TokenOf(url.code)],
                            PageUrl(url.host, session.page))
                    /\ NoFault
                 \/ \E status \in {500, 503} : Answer(t, status) /\ Fault
        /\ UNCHANGED cookie

\* Random strings that occur in a cookie or in an address.
InUse ==
    {cookie[h].state.id : h \in {g \in Hosts :
            cookie[g] # Garbled /\ cookie[g].state # None}}
    \cup {tab[t].url.state.id : t \in {u \in Tabs : tab[u].url.state # None}}
    \cup {tab[t].set.session.state.id : t \in {u \in Tabs :
            tab[u].set # None /\ tab[u].set.session.state # None}}

\* GetTokenIfExists.
HasToken(t) == Session(t).token # None

\* Slip: the page of the first login is kept.
FirstPageKept(t) ==
    LET host == tab[t].url.host
        session == Session(t)
        id == CHOOSE n \in 1..MaxStates : n \notin InUse
        state == [id |-> id, host |-> host]
        page == IF session.page = None THEN tab[t].url.page ELSE session.page
    IN  /\ HasSession(t, "page")
        /\ ~HasToken(t)
        /\ SaveAndRedirect(t, [session EXCEPT !.state = state, !.page = page,
                                              !.proxy = None],
                              LoginUrl(host, state))
        /\ UNCHANGED cookie /\ NoFault

\* checkTokenExists for a session without a token: for a page at once, for an
\* artifact after GitLab has answered 404 without a token.
checkTokenExists(t) ==
    LET host == tab[t].url.host
        id == CHOOSE n \in 1..MaxStates : n \notin InUse
        state == [id |-> id, host |-> host]
    IN  /\ HasSession(t, "page")
        /\ ~HasToken(t)
        /\ SaveAndRedirect(t, [Session(t) EXCEPT !.state = state,
                                    !.page = tab[t].url.page, !.proxy = None],
                              LoginUrl(host, state))
        /\ UNCHANGED cookie /\ NoFault

\* checkResponseForInvalidToken.
InvalidToken(t) == HasToken(t) /\ ~Session(t).token.live

\* Slip: the token stays in the session.
TokenKept(t) ==
    /\ HasSession(t, "page")
    /\ InvalidToken(t)
    /\ SaveAndRedirect(t, Session(t), tab[t].url)
    /\ UNCHANGED cookie /\ NoFault

\* destroySession, for a token GitLab calls invalid.
destroySession(t) ==
    /\ HasSession(t, "page")
    /\ InvalidToken(t)
    /\ SaveAndRedirect(t, [Session(t) EXCEPT !.token = None], tab[t].url)
    /\ UNCHANGED cookie /\ NoFault

\* checkAuthentication with a valid token; then the page is served.
checkAuthentication(t) ==
    /\ HasSession(t, "page") /\ tab[t].url.page = "page"
    /\ HasToken(t)
    /\ \/ /\ Session(t).token.live
          /\ Answer(t, IF tab[t].url.host \in Members THEN 200 ELSE 404)
          /\ NoFault
       \/ Answer(t, 404) /\ Fault
    /\ UNCHANGED cookie

\* makeRequest: the answer of GitLab is passed on.
makeRequest(t) ==
    \/ /\ HasToken(t) /\ Session(t).token.live
       /\ Answer(t, IF tab[t].url.host \in Members THEN 200 ELSE 404)
       /\ NoFault
    \/ \E status \in {500, 502} : Answer(t, status) /\ Fault

\* HandleArtifactRequest where it does not lead to a login.
HandleArtifactRequest(t) ==
    /\ HasSession(t, "page") /\ tab[t].url.page = "artifact"
    /\ makeRequest(t)
    /\ UNCHANGED cookie

-----------------------------------------------------------------------------
(* GitLab and the outside world.                                           *)

\* The user, who is logged in to GitLab, authorizes pages or refuses to.
Authorize(t) ==
    LET state == tab[t].url.state
        code == [host |-> state.host, signed |-> None]
    IN  /\ Asks(t, "authorize")
        /\ \/ /\ tab' = [tab EXCEPT ![t].url = CallbackUrl(AuthHost, state, code)]
              /\ NoFault
           \/ /\ tab' = [tab EXCEPT ![t].url =
                            CallbackUrl(AuthHost, state, Denied)]
              /\ Fault
        /\ UNCHANGED cookie

\* A cookie outlives authSessionMaxAge.
Expire(h) ==
    /\ cookie[h] # NoValues
    /\ cookie' = [cookie EXCEPT ![h] = NoValues]
    /\ UNCHANGED tab /\ Fault

\* The session after GitLab has revoked the token in it.
Revoked(session) ==
    IF session = Garbled \/ session.token = None THEN session
    ELSE [session EXCEPT !.token.live = FALSE]

\* GitLab revokes the tokens it has given.
Revoke ==
    /\ cookie' = [h \in Hosts |-> Revoked(cookie[h])]
    /\ tab' = [t \in Tabs |-> IF tab[t].set = None THEN tab[t] ELSE
                    [tab[t] EXCEPT !.set.session = Revoked(@)]]
    /\ <<cookie', tab'>> # <<cookie, tab>>
    /\ Fault

-----------------------------------------------------------------------------
\* The steps of a tab and of the server it asks.
Step(t) ==
    \/ Receive(t)
    \/ checkSession(t)
    \/ ProxyAuthToGitlab(t)
    \/ ProxyCallbackToCustomDomain(t)
    \/ CallbackError(t)
    \/ checkAuthenticationResponse(t)
    \/ checkTokenExists(t)
    \/ destroySession(t)
    \/ checkAuthentication(t)
    \/ HandleArtifactRequest(t)
    \/ Authorize(t)

Next ==
    \/ \E t \in Tabs : Load(t) \/ Step(t)
    \/ \E h \in Hosts : Expire(h)
    \/ Revoke

Spec == Init /\ [][Next]_vars

\* Every request is answered (the API client has a timeout of its own), and
\* browser and user follow the redirects.
FairSpec == Spec /\ \A t \in Tabs : WF_vars(Step(t))

-----------------------------------------------------------------------------
(* Properties.                                                             *)

\* checkAuthenticationResponse: the token in the session of a site comes from
\* a login that was started at this site, whatever other logins, at this site
\* or at others, were under way in other tabs.
TokenOfOwnLogin ==
    \A h \in Hosts : cookie[h] # Garbled /\ cookie[h].token # None
                        => cookie[h].token.host = h

\* state and uri are saved together: a tab that comes back from a login comes
\* back to the page it had asked for, although all tabs share one session.
BackToOwnPage ==
    \A t \in Tabs : tab[t].pc = "request" /\ tab[t].url.kind = "page"
                        => tab[t].url = tab[t].want

\* A load that nothing interferes with ends with the page, or with 404 for a
\* user who may not see it, whatever earlier loads have left in the sessions:
\* states, pages, domains to proxy for, revoked tokens, undecodable cookies.
CalmLoadSucceeds ==
    \A t \in calm : tab[t].pc = "response" /\ tab[t].status # 302 =>
        tab[t].status = IF tab[t].want.host \in Members THEN 200 ELSE 404

\* A load ends once no other tab is loading: no sequence of redirects between
\* the site, the auth host and GitLab goes on for ever. (Two tabs can undo one
\* another's login for as long as each response is late by a whole login.)
LoneLoadEnds ==
    \A t \in Tabs :
        LET Lone == \A u \in Tabs : Active(u) <=> u = t
        IN  Lone ~> ~Lone
=============================================================================
