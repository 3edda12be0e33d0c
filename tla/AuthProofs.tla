----------------------------- MODULE AuthProofs -----------------------------
(***************************************************************************)
(* TokenOfOwnLogin, BackToOwnPage and CalmLoadSucceeds hold of Auth for    *)
(* any number of tabs and sites, and for any number of disturbances, and   *)
(* every step of a load that runs alone brings it nearer to its end.       *)
(***************************************************************************)
EXTENDS Auth, FiniteSetTheorems, TLAPS

Urls == [kind : {"page", "login", "authorize", "callback"}, host : Hosts,
         page : Pages \cup {None}, domain : Hosts \cup {None},
         state : States \cup {None}, code : Codes \cup {None, Denied}]
Responses == [host : Hosts, session : Sessions]
TabRecords == [pc : {"idle", "request", "response", "done"}, want : Urls,
               url : Urls, set : Responses \cup {None}, status : Nat]

\* A session of host h: its state and its token are of logins at h, and only
\* the auth host proxies logins for other hosts.
Own(h, s) ==
    /\ s \in Sessions
    /\ s.state # None => s.state.host = h
    /\ s.token # None => s.token.host = h
    /\ h # AuthHost => s.proxy = None

\* An address on the way of a login carries the state, and a code is one of
\* the login the state is of.
UrlOK(u) ==
    /\ u \in Urls
    /\ u.kind # "page" => u.state \in States
    /\ u.kind = "login" => u.domain \in Hosts /\ u.host = AuthHost
    /\ u.kind = "callback" /\ u.code # Denied =>
            u.code \in Codes /\ u.code.host = u.state.host

\* A tab is at the page it wants, or on the way of a login at its site. A
\* response is over when the next request is sent.
TabOK(b) ==
    /\ b \in TabRecords
    /\ UrlOK(b.url)
    /\ b.want = PageUrl(b.want.host, b.want.page)
    /\ b.url.kind = "page" => b.url = b.want
    /\ b.url.state # None => b.url.state.host = b.want.host
    /\ b.set # None => Own(b.set.host, b.set.session)
    /\ b.pc = "request" => b.set = None

\* A session with the state of a tab's login has the page the tab wants.
Match(b, s) == s.state # None /\ s.state = b.url.state => s.page = b.want.page

IInv ==
    /\ cookie \in [Hosts -> Sessions \cup {Garbled}]
    /\ tab \in [Tabs -> TabRecords]
    /\ \A h \in Hosts : cookie[h] # Garbled =>
            Own(h, cookie[h]) /\ \A t \in Tabs : Match(tab[t], cookie[h])
    /\ \A t \in Tabs : TabOK(tab[t])
    /\ \A t, u \in Tabs : tab[u].set # None =>
            Match(tab[t], tab[u].set.session)

-----------------------------------------------------------------------------
(* Random strings.                                                         *)

\* The image of a finite set is no larger than the set.
LEMMA ImageSize ==
    ASSUME NEW S, IsFiniteSet(S), NEW f, NEW T \in SUBSET S
    PROVE  /\ IsFiniteSet({f[x] : x \in T})
           /\ Cardinality({f[x] : x \in T}) <= Cardinality(S)
  <1> DEFINE I == {f[x] : x \in T}
             g == [x \in T |-> f[x]]
  <1>1. IsFiniteSet(T) /\ Cardinality(T) <= Cardinality(S)
    BY FS_Subset
  <1>2. g \in Surjection(T, I)
    BY DEF Surjection
  <1>3. IsFiniteSet(I) /\ Cardinality(I) <= Cardinality(T)
    BY <1>1, <1>2, FS_Surjection
  <1>4. Cardinality(I) \in Nat /\ Cardinality(T) \in Nat /\ Cardinality(S) \in Nat
    BY <1>1, <1>3, FS_CardinalityType
  <1> QED
    BY <1>1, <1>3, <1>4

\* The union of two finite sets is no larger than both together.
LEMMA UnionSize ==
    ASSUME NEW S, IsFiniteSet(S), NEW T, IsFiniteSet(T)
    PROVE  /\ IsFiniteSet(S \cup T)
           /\ Cardinality(S \cup T) <= Cardinality(S) + Cardinality(T)
  <1>1. IsFiniteSet(S \cap T)
    BY FS_Subset
  <1>2. Cardinality(S \cap T) \in Nat /\ Cardinality(S) \in Nat
        /\ Cardinality(T) \in Nat
    BY <1>1, FS_CardinalityType
  <1>3. IsFiniteSet(S \cup T) /\ Cardinality(S \cup T) =
            Cardinality(S) + Cardinality(T) - Cardinality(S \cap T)
    BY FS_Union
  <1> QED
    BY <1>2, <1>3

\* There is a random string that no cookie, address or response has.
LEMMA FreshState ==
    \E n \in 1..MaxStates : n \notin InUse
  <1> DEFINE A == {cookie[h].state.id : h \in {g \in Hosts :
                        cookie[g] # Garbled /\ cookie[g].state # None}}
             B == {tab[t].url.state.id : t \in {u \in Tabs :
                        tab[u].url.state # None}}
             C == {tab[t].set.session.state.id : t \in {u \in Tabs :
                        tab[u].set # None /\ tab[u].set.session.state # None}}
             a == [h \in Hosts |-> cookie[h].state.id]
             b == [t \in Tabs |-> tab[t].url.state.id]
             c == [t \in Tabs |-> tab[t].set.session.state.id]
             H == {g \in Hosts : cookie[g] # Garbled /\ cookie[g].state # None}
             U == {u \in Tabs : tab[u].url.state # None}
             V == {u \in Tabs : tab[u].set # None
                                    /\ tab[u].set.session.state # None}
  <1>1. IsFiniteSet(Hosts) /\ IsFiniteSet(Tabs)
    BY StatesAssumption, FS_AddElement DEF Hosts
  <1>2. A = {a[h] : h \in H} /\ B = {b[t] : t \in U} /\ C = {c[t] : t \in V}
    OBVIOUS
  <1>3. IsFiniteSet(A) /\ Cardinality(A) <= Cardinality(Hosts)
    <2>1. H \in SUBSET Hosts
      OBVIOUS
    <2> HIDE DEF A, H, a
    <2> QED
      BY <1>1, <1>2, <2>1, ImageSize
  <1>4. IsFiniteSet(B) /\ Cardinality(B) <= Cardinality(Tabs)
    <2>1. U \in SUBSET Tabs
      OBVIOUS
    <2> HIDE DEF B, U, b
    <2> QED
      BY <1>1, <1>2, <2>1, ImageSize
  <1>5. IsFiniteSet(C) /\ Cardinality(C) <= Cardinality(Tabs)
    <2>1. V \in SUBSET Tabs
      OBVIOUS
    <2> HIDE DEF C, V, c
    <2> QED
      BY <1>1, <1>2, <2>1, ImageSize
  <1>6. InUse = (A \cup B) \cup C
    BY DEF InUse
  <1> HIDE DEF A, B, C, H, U, V, a, b, c
  <1>7. IsFiniteSet(A \cup B)
        /\ Cardinality(A \cup B) <= Cardinality(A) + Cardinality(B)
    BY <1>3, <1>4, UnionSize
  <1>8. IsFiniteSet(InUse)
        /\ Cardinality(InUse) <= Cardinality(A \cup B) + Cardinality(C)
    BY <1>5, <1>6, <1>7, UnionSize
  <1>9. Cardinality(InUse) < MaxStates
    <2>1. /\ Cardinality(A) \in Nat /\ Cardinality(B) \in Nat
          /\ Cardinality(C) \in Nat /\ Cardinality(A \cup B) \in Nat
          /\ Cardinality(InUse) \in Nat /\ Cardinality(Hosts) \in Nat
          /\ Cardinality(Tabs) \in Nat
      BY <1>1, <1>3, <1>4, <1>5, <1>7, <1>8, FS_CardinalityType
    <2> QED
      BY <2>1, <1>3, <1>4, <1>5, <1>7, <1>8, StatesAssumption, AuthAssumption
  <1>10. Cardinality(1..MaxStates) = MaxStates
    BY FS_Interval, AuthAssumption
  <1> SUFFICES ASSUME 1..MaxStates \subseteq InUse PROVE FALSE
    OBVIOUS
  <1>11. Cardinality(1..MaxStates) <= Cardinality(InUse)
    BY Zenon, <1>8, FS_Subset
  <1> QED
    BY <1>8, <1>9, <1>10, <1>11, FS_CardinalityType, AuthAssumption

-----------------------------------------------------------------------------
(* Steps of one tab.                                                       *)

\* A step that replaces the record of one tab keeps the invariant if the new
\* record is in order, starts no login, and answers with a session whose state
\* and page are together in some cookie.
LEMMA TabStep ==
    ASSUME IInv, NEW t \in Tabs, NEW n, TabOK(n),
           tab' = [tab EXCEPT ![t] = n], cookie' = cookie,
           \/ n.url.state = None
           \/ n.url.state = tab[t].url.state /\ n.want = tab[t].want,
           \/ n.set = None
           \/ n.set = tab[t].set
           \/ n.set.session.state = None
           \/ \E h \in Hosts : /\ cookie[h] # Garbled
                               /\ n.set.session.state = cookie[h].state
                               /\ n.set.session.page = cookie[h].page
    PROVE  IInv'
  <1>1. tab' \in [Tabs -> TabRecords] /\ \A u \in Tabs : TabOK(tab'[u])
    BY DEF IInv, TabOK
  <1>2. \A u \in Tabs : tab'[u] = IF u = t THEN n ELSE tab[u]
    BY DEF IInv
  <1>3. ASSUME NEW s, \A u \in Tabs : Match(tab[u], s)
        PROVE  \A u \in Tabs : Match(tab'[u], s)
    BY <1>2, <1>3 DEF Match
  <1>4. \A h \in Hosts : cookie'[h] # Garbled =>
            Own(h, cookie'[h]) /\ \A u \in Tabs : Match(tab'[u], cookie'[h])
    BY Zenon, <1>3 DEF IInv
  <1>5. ASSUME NEW v \in Tabs, tab'[v].set # None
        PROVE  \A u \in Tabs : Match(tab[u], tab'[v].set.session)
    <2>1. CASE tab'[v].set = tab[v].set
      BY <1>5, <2>1 DEF IInv
    <2>2. CASE tab'[v].set # tab[v].set
      <3>1. v = t /\ tab'[v] = n /\ n.set # None /\ n.set # tab[t].set
        BY <1>2, <1>5, <2>2
      <3>2. CASE n.set.session.state = None
        BY <3>1, <3>2 DEF Match
      <3>3. ASSUME NEW h \in Hosts, cookie[h] # Garbled,
                   n.set.session.state = cookie[h].state,
                   n.set.session.page = cookie[h].page
            PROVE  \A u \in Tabs : Match(tab[u], tab'[v].set.session)
        <4>1. \A u \in Tabs : Match(tab[u], cookie[h])
          BY <3>3 DEF IInv
        <4> QED
          BY <4>1, <3>1, <3>3 DEF Match
      <3> QED
        BY <3>1, <3>2, <3>3
    <2> QED
      BY <2>1, <2>2
  <1>6. \A u, v \in Tabs : tab'[v].set # None =>
            Match(tab'[u], tab'[v].set.session)
    BY <1>3, <1>5
  <1> QED
    BY <1>1, <1>4, <1>6 DEF IInv

\* An answer without a new cookie.
LEMMA Answered ==
    ASSUME IInv, NEW t \in Tabs, NEW status \in Nat, Answer(t, status),
           cookie' = cookie
    PROVE  IInv'
  <1> DEFINE n == [tab[t] EXCEPT !.pc = "response", !.status = status]
  <1>1. TabOK(tab[t]) /\ tab[t] \in TabRecords
    BY DEF IInv
  <1>2. tab' = [tab EXCEPT ![t] = n]
    BY Zenon DEF Answer, IInv
  <1>3. n \in TabRecords
    BY Zenon, <1>1 DEF TabRecords
  <1>4. /\ n.want = tab[t].want /\ n.url = tab[t].url /\ n.set = tab[t].set
        /\ n.pc = "response"
    BY <1>1 DEF TabRecords
  <1> HIDE DEF n
  <1>5. TabOK(n)
    BY <1>1, <1>3, <1>4 DEF TabOK
  <1> QED
    BY Zenon, <1>2, <1>4, <1>5, TabStep

\* The record of a tab whose response has a new cookie.
Saved(b, session, url, status) ==
    [b EXCEPT !.pc = "response", !.status = status, !.url = url,
              !.set = [host |-> b.url.host, session |-> session]]

\* It is in order if cookie and address are.
LEMMA SavedOK ==
    ASSUME NEW b, TabOK(b), NEW url, UrlOK(url),
           url.kind = "page" => url = b.want,
           url.state # None => url.state.host = b.want.host,
           NEW session, Own(b.url.host, session), NEW status \in Nat
    PROVE  /\ TabOK(Saved(b, session, url, status))
           /\ Saved(b, session, url, status).url = url
           /\ Saved(b, session, url, status).want = b.want
           /\ Saved(b, session, url, status).set.session = session
  <1> DEFINE n == Saved(b, session, url, status)
  <1>1. b \in TabRecords /\ session \in Sessions /\ url \in Urls
    BY DEF TabOK, UrlOK, Own
  <1>2. b.url.host \in Hosts
    BY DEF TabOK, UrlOK, Urls
  <1>3. [host |-> b.url.host, session |-> session] \in Responses
    BY <1>1, <1>2 DEF Responses
  <1>4. n \in TabRecords
    BY Zenon, <1>1, <1>3 DEF TabRecords, Saved
  <1>5. /\ n.url = url /\ n.want = b.want /\ n.pc = "response"
        /\ n.set = [host |-> b.url.host, session |-> session]
    BY <1>1 DEF TabRecords, Saved
  <1> HIDE DEF n
  <1>6. TabOK(n)
    BY <1>4, <1>5 DEF TabOK
  <1> QED
    BY <1>5, <1>6 DEF n

\* A new cookie and a redirect that does not start a login.
LEMMA Redirected ==
    ASSUME IInv, NEW t \in Tabs, NEW session, NEW url, NEW status \in Nat,
           tab' = [tab EXCEPT ![t] = Saved(tab[t], session, url, status)],
           cookie' = cookie, UrlOK(url),
           url.kind = "page" => url = tab[t].want,
           url.state = None \/ url.state = tab[t].url.state,
           Own(tab[t].url.host, session),
           \/ session.state = None
           \/ \E h \in Hosts : /\ cookie[h] # Garbled
                               /\ session.state = cookie[h].state
                               /\ session.page = cookie[h].page
    PROVE  IInv'
  <1> DEFINE n == Saved(tab[t], session, url, status)
  <1>1. TabOK(tab[t])
    BY DEF IInv
  <1>2. url.state # None => url.state.host = tab[t].want.host
    BY <1>1 DEF TabOK
  <1>3. /\ TabOK(n) /\ n.url = url /\ n.want = tab[t].want
        /\ n.set.session = session
    <2>1. PICK b : b = tab[t]
      OBVIOUS
    <2>2. /\ TabOK(b) /\ (url.kind = "page" => url = b.want)
          /\ (url.state # None => url.state.host = b.want.host)
          /\ Own(b.url.host, session)
      BY <1>1, <1>2, <2>1
    <2>3. /\ TabOK(Saved(b, session, url, status))
          /\ Saved(b, session, url, status).url = url
          /\ Saved(b, session, url, status).want = b.want
          /\ Saved(b, session, url, status).set.session = session
      BY <2>2, SavedOK
    <2> QED
      BY <2>1, <2>3
  <1> HIDE DEF n
  <1>4. tab' = [tab EXCEPT ![t] = n]
    BY DEF n
  <1> QED
    BY Zenon, <1>3, <1>4, TabStep

\* SaveAndRedirect makes such a record.
LEMMA SaveForm ==
    ASSUME IInv, NEW t \in Tabs, NEW session, NEW url,
           SaveAndRedirect(t, session, url)
    PROVE  tab' = [tab EXCEPT ![t] = Saved(tab[t], session, url, 302)]
  BY DEF SaveAndRedirect, Saved, IInv

-----------------------------------------------------------------------------
(* Sessions and addresses.                                                 *)

\* What a handler knows of a tab that asks for something.
LEMMA Asked ==
    ASSUME IInv, NEW t \in Tabs
    PROVE  /\ TabOK(tab[t]) /\ UrlOK(tab[t].url) /\ tab[t].url \in Urls
           /\ tab[t].url.host \in Hosts
           /\ tab[t].url.state \in States \cup {None}
           /\ Session(t) # Garbled => /\ Own(tab[t].url.host, Session(t))
                                      /\ Session(t) \in Sessions
  <1>1. TabOK(tab[t])
    BY DEF IInv
  <1>2. UrlOK(tab[t].url) /\ tab[t].url \in Urls
    BY <1>1 DEF TabOK, UrlOK
  <1>3. tab[t].url.host \in Hosts /\ tab[t].url.state \in States \cup {None}
    BY <1>2 DEF Urls
  <1>4. Session(t) # Garbled => Own(tab[t].url.host, Session(t))
    BY <1>3 DEF IInv, Session
  <1> QED
    BY <1>1, <1>2, <1>3, <1>4 DEF Own

\* A handler that writes only the domain to proxy for.
LEMMA Proxied ==
    ASSUME NEW h, NEW s, Own(h, s), NEW p \in Hosts \cup {None},
           h # AuthHost => p = None
    PROVE  /\ Own(h, [s EXCEPT !.proxy = p])
           /\ [s EXCEPT !.proxy = p].state = s.state
           /\ [s EXCEPT !.proxy = p].page = s.page
  <1>1. s \in Sessions
    BY DEF Own
  <1> DEFINE a == [s EXCEPT !.proxy = p]
  <1>2. a \in Sessions
    BY <1>1 DEF Sessions
  <1>3. a.state = s.state /\ a.page = s.page /\ a.token = s.token /\ a.proxy = p
    BY <1>1 DEF Sessions
  <1> HIDE DEF a
  <1>4. Own(h, a)
    BY <1>2, <1>3 DEF Own
  <1> QED
    BY <1>3, <1>4 DEF a

\* A handler that writes only the token.
LEMMA Granted ==
    ASSUME NEW h, NEW s, Own(h, s), NEW k \in Tokens \cup {None},
           k # None => k.host = h
    PROVE  /\ Own(h, [s EXCEPT !.token = k])
           /\ [s EXCEPT !.token = k].state = s.state
           /\ [s EXCEPT !.token = k].page = s.page
  <1>1. s \in Sessions
    BY DEF Own
  <1> DEFINE a == [s EXCEPT !.token = k]
  <1>2. a \in Sessions
    BY <1>1 DEF Sessions
  <1>3. a.state = s.state /\ a.page = s.page /\ a.token = k /\ a.proxy = s.proxy
    BY <1>1 DEF Sessions
  <1> HIDE DEF a
  <1>4. Own(h, a)
    BY <1>2, <1>3 DEF Own
  <1> QED
    BY <1>3, <1>4 DEF a

\* A session without values belongs to every host.
LEMMA NoValuesOwn ==
    ASSUME NEW h
    PROVE  Own(h, NoValues) /\ NoValues.state = None
  BY DEF NoValues, Own, Sessions

\* The addresses of a login.
LEMMA LoginUrls ==
    ASSUME NEW s \in States, NEW h \in Hosts,
           NEW c \in Codes \cup {Denied}, c # Denied => c.host = s.host
    PROVE  /\ UrlOK(LoginUrl(h, s)) /\ LoginUrl(h, s).state = s
           /\ LoginUrl(h, s).kind = "login"
           /\ UrlOK(AuthorizeUrl(s)) /\ AuthorizeUrl(s).state = s
           /\ AuthorizeUrl(s).kind = "authorize"
           /\ UrlOK(CallbackUrl(h, s, c)) /\ CallbackUrl(h, s, c).state = s
           /\ CallbackUrl(h, s, c).kind = "callback"
  <1>1. AuthHost \in Hosts
    BY DEF Hosts
  <1>2. UrlOK(LoginUrl(h, s)) /\ LoginUrl(h, s).state = s
        /\ LoginUrl(h, s).kind = "login"
    BY <1>1 DEF UrlOK, Urls, LoginUrl
  <1>3. UrlOK(AuthorizeUrl(s)) /\ AuthorizeUrl(s).state = s
        /\ AuthorizeUrl(s).kind = "authorize"
    BY <1>1 DEF UrlOK, Urls, AuthorizeUrl
  <1>4. UrlOK(CallbackUrl(h, s, c)) /\ CallbackUrl(h, s, c).state = s
        /\ CallbackUrl(h, s, c).kind = "callback"
    BY DEF UrlOK, Urls, CallbackUrl
  <1> QED
    BY <1>2, <1>3, <1>4

\* Signing a code does not change which login it is of.
LEMMA Signed ==
    ASSUME NEW h \in Hosts, NEW c \in Codes
    PROVE  /\ EncryptAndSignCode(h, c) \in Codes
           /\ EncryptAndSignCode(h, c).host = c.host
  BY DEF EncryptAndSignCode, Codes

-----------------------------------------------------------------------------
(* Handlers.                                                               *)

\* A handler that saves the session with the state and page it has.
LEMMA Resaved ==
    ASSUME IInv, NEW t \in Tabs, NEW session, NEW url, NEW status \in Nat,
           tab' = [tab EXCEPT ![t] = Saved(tab[t], session, url, status)],
           cookie' = cookie, UrlOK(url),
           url.kind = "page" => url = tab[t].want,
           url.state = None \/ url.state = tab[t].url.state,
           Own(tab[t].url.host, session), Session(t) # Garbled,
           session.state = Session(t).state, session.page = Session(t).page
    PROVE  IInv'
  <1>1. \E h \in Hosts : /\ cookie[h] # Garbled
                         /\ session.state = cookie[h].state
                         /\ session.page = cookie[h].page
    BY Asked DEF Session
  <1> QED
    BY Zenon, <1>1, Redirected

\* Handlers that keep state and page of the session as they are, or drop them.
LEMMA HandlerStep ==
    ASSUME IInv, NEW t \in Tabs,
           \/ checkSession(t) \/ ProxyAuthToGitlab(t) \/ CallbackError(t)
           \/ destroySession(t) \/ checkAuthentication(t)
           \/ HandleArtifactRequest(t)
    PROVE  IInv'
  <1> DEFINE url == tab[t].url
             session == Session(t)
  <1>1. CASE checkSession(t)
    <2>1. SaveAndRedirect(t, NoValues, url) /\ cookie' = cookie
      BY <1>1, Zenon DEF checkSession
    <2>2. url.kind = "page" => url = tab[t].want
      BY Asked DEF TabOK
    <2> QED
      BY <2>1, <2>2, Asked, NoValuesOwn, SaveForm, Redirected
  <1>2. CASE ProxyAuthToGitlab(t)
    <2>1. /\ session # Garbled /\ url.kind = "login" /\ cookie' = cookie
      BY <1>2, Zenon DEF ProxyAuthToGitlab, HasSession, Asks
    <2>2. url.state \in States /\ url.domain \in Hosts /\ url.host = AuthHost
      BY <2>1, Asked DEF UrlOK
    <2>3. CASE SaveAndRedirect(t, [session EXCEPT !.proxy = url.domain],
                                  AuthorizeUrl(url.state))
      <3> DEFINE new == [session EXCEPT !.proxy = url.domain]
      <3>1. /\ Own(url.host, new) /\ new.state = session.state
            /\ new.page = session.page
        BY <2>1, <2>2, Asked, Proxied
      <3>2. UrlOK(AuthorizeUrl(url.state)) /\ AuthorizeUrl(url.state).state = url.state
            /\ AuthorizeUrl(url.state).kind = "authorize"
        BY Zenon, <2>2, LoginUrls, Asked
      <3>3. PICK s, u : s = new /\ u = AuthorizeUrl(url.state)
        BY Zenon
      <3>4. tab' = [tab EXCEPT ![t] = Saved(tab[t], s, u, 302)]
        BY <2>3, <3>3, SaveForm
      <3>5. /\ UrlOK(u) /\ (u.kind = "page" => u = tab[t].want)
            /\ u.state = tab[t].url.state
            /\ Own(tab[t].url.host, s)
            /\ s.state = Session(t).state /\ s.page = Session(t).page
        BY <3>1, <3>2, <3>3
      <3>6. 302 \in Nat /\ cookie' = cookie /\ Session(t) # Garbled
        BY <2>1
      <3> HIDE DEF new, url, session
      <3> QED
        BY Zenon, <3>4, <3>5, <3>6, Resaved
    <2>4. CASE Answer(t, 401)
      BY <2>1, <2>4, Answered
    <2> QED
      BY <1>2, <2>3, <2>4, Zenon DEF ProxyAuthToGitlab
  <1>3. CASE CallbackError(t)
    <2>1. Answer(t, 401) /\ cookie' = cookie
      BY <1>3, Zenon DEF CallbackError
    <2> QED
      BY <2>1, Answered
  <1>4. CASE destroySession(t)
    <2> DEFINE new == [session EXCEPT !.token = None]
    <2>1. /\ session # Garbled /\ url.kind = "page" /\ cookie' = cookie
          /\ SaveAndRedirect(t, new, url)
      BY <1>4, Zenon DEF destroySession, HasSession, Asks
    <2>2. /\ Own(url.host, new) /\ new.state = session.state
          /\ new.page = session.page
      BY <2>1, Asked, Granted
    <2>3. url = tab[t].want
      BY <2>1, Asked DEF TabOK
    <2>4. PICK s, u : s = new /\ u = url
      BY Zenon
    <2>5. tab' = [tab EXCEPT ![t] = Saved(tab[t], s, u, 302)]
      BY <2>1, <2>4, SaveForm
    <2>6. /\ UrlOK(u) /\ u = tab[t].want
          /\ u.state = tab[t].url.state
          /\ Own(tab[t].url.host, s)
          /\ s.state = Session(t).state /\ s.page = Session(t).page
      BY <2>2, <2>3, <2>4, Asked
    <2>7. 302 \in Nat /\ cookie' = cookie /\ Session(t) # Garbled
      BY <2>1
    <2> HIDE DEF new, url, session
    <2> QED
      BY ZenonT(60), <2>5, <2>6, <2>7, Resaved
  <1>5. CASE checkAuthentication(t)
    <2>1. cookie' = cookie /\ \E status \in {200, 404} : Answer(t, status)
      BY <1>5, ZenonT(60) DEF checkAuthentication
    <2> QED
      BY <2>1, Answered
  <1>6. CASE HandleArtifactRequest(t)
    <2>1. cookie' = cookie /\ makeRequest(t)
      BY <1>6, Zenon DEF HandleArtifactRequest
    <2>2. \E status \in Nat : Answer(t, status)
      BY <2>1 DEF makeRequest
    <2> QED
      BY <2>1, <2>2, Answered
  <1> QED
    BY <1>1, <1>2, <1>3, <1>4, <1>5, <1>6

\* The callback is sent on to the domain the login is for, with the same state.
LEMMA ProxyCallbackStep ==
    ASSUME IInv, NEW t \in Tabs, ProxyCallbackToCustomDomain(t)
    PROVE  IInv'
  <1>1. /\ Session(t) # Garbled /\ tab[t].url.kind = "callback"
        /\ cookie' = cookie /\ Session(t).proxy # None
    BY Zenon DEF ProxyCallbackToCustomDomain, HasSession, Asks
  <1>2. PICK s : s = [Session(t) EXCEPT !.proxy = None]
    BY Zenon
  <1>3. /\ Own(tab[t].url.host, s)
        /\ s.state = Session(t).state /\ s.page = Session(t).page
    BY <1>1, <1>2, Asked, Proxied
  <1>4. tab[t].url.state \in States
    BY <1>1, Asked DEF UrlOK
  <1>5. CASE tab[t].url.code = Denied
    <2> DEFINE set == [host |-> tab[t].url.host, session |-> s]
               n == [tab[t] EXCEPT !.pc = "response", !.status = 503,
                                   !.set = set]
    <2>1. tab' = [tab EXCEPT ![t] = n]
      BY <1>2, <1>5 DEF ProxyCallbackToCustomDomain, IInv
    <2>2. set \in Responses /\ set.host = tab[t].url.host /\ set.session = s
      BY <1>3, Asked DEF Responses, Own
    <2>3. tab[t] \in TabRecords
      BY DEF IInv
    <2> HIDE DEF set
    <2>4. n \in TabRecords
      <3>1. PICK b, c, status : b = tab[t] /\ c = set /\ status = 503
        OBVIOUS
      <3>2. b \in TabRecords /\ c \in Responses \cup {None} /\ status \in Nat
        BY <2>2, <2>3, <3>1
      <3>3. [b EXCEPT !.pc = "response", !.status = status, !.set = c]
                \in TabRecords
        BY Zenon, <3>2 DEF TabRecords
      <3> QED
        BY <3>1, <3>3
    <2>5. /\ n.want = tab[t].want /\ n.url = tab[t].url /\ n.set = set
          /\ n.pc = "response"
      BY <2>3 DEF TabRecords
    <2> HIDE DEF n
    <2>6. TabOK(n)
      BY <1>3, <2>2, <2>4, <2>5, Asked DEF TabOK
    <2>7. \E h \in Hosts : /\ cookie[h] # Garbled
                           /\ n.set.session.state = cookie[h].state
                           /\ n.set.session.page = cookie[h].page
      BY <1>1, <1>3, <2>2, <2>5, Asked DEF Session
    <2> QED
      BY Zenon, <1>1, <2>1, <2>5, <2>6, <2>7, TabStep
  <1>6. CASE tab[t].url.code # Denied
    <2>1. PICK h, u : h = Session(t).proxy /\ u = CallbackUrl(h,
                tab[t].url.state, EncryptAndSignCode(h, tab[t].url.code))
      OBVIOUS
    <2>2. SaveAndRedirect(t, s, u)
      BY <1>2, <1>6, <2>1 DEF ProxyCallbackToCustomDomain
    <2>3. h \in Hosts
      BY <1>1, <2>1, Asked DEF Sessions
    <2>4. tab[t].url.code \in Codes
          /\ tab[t].url.code.host = tab[t].url.state.host
      BY <1>1, <1>6, Asked DEF UrlOK
    <2>5. PICK c : c = EncryptAndSignCode(h, tab[t].url.code)
      OBVIOUS
    <2>6. c \in Codes /\ c.host = tab[t].url.state.host
      BY <2>3, <2>4, <2>5, Signed
    <2>7. UrlOK(u) /\ u.kind = "callback" /\ u.state = tab[t].url.state
      BY <1>4, <2>1, <2>3, <2>5, <2>6, LoginUrls, SMTT(60)
    <2>8. tab' = [tab EXCEPT ![t] = Saved(tab[t], s, u, 302)] /\ 302 \in Nat
      BY <2>2, SaveForm
    <2> QED
      BY Zenon, <1>1, <1>3, <2>7, <2>8, Resaved
  <1> QED
    BY <1>5, <1>6

\* The state in the session is compared with the one of the callback: the token
\* is of a login at this host, and the page is the one the tab wants.
LEMMA AuthenticationStep ==
    ASSUME IInv, NEW t \in Tabs, checkAuthenticationResponse(t)
    PROVE  IInv'
  <1>1. /\ Session(t) # Garbled /\ tab[t].url.kind = "callback"
        /\ cookie' = cookie /\ tab[t].url.code # Denied
    BY Zenon DEF checkAuthenticationResponse, HasSession, Asks
  <1>2. CASE \E status \in {401, 500, 503} : Answer(t, status)
    BY <1>1, <1>2, Answered
  <1>3. CASE /\ validateState(Session(t), tab[t].url)
             /\ SaveAndRedirect(t,
                    [Session(t) EXCEPT !.token = TokenOf(tab[t].url.code)],
                    PageUrl(tab[t].url.host, Session(t).page))
    <2>1. PICK s, u, k : /\ k = TokenOf(tab[t].url.code)
                         /\ s = [Session(t) EXCEPT !.token = k]
                         /\ u = PageUrl(tab[t].url.host, Session(t).page)
      BY Zenon
    <2>2. /\ Session(t).state # None
          /\ Session(t).state = tab[t].url.state
      BY <1>3 DEF validateState
    <2>3. Session(t).state.host = tab[t].url.host
      BY <1>1, <2>2, Asked DEF Own
    <2>4. k \in Tokens /\ k.host = tab[t].url.host
      <3>1. tab[t].url.code \in Codes
            /\ tab[t].url.code.host = tab[t].url.state.host
        BY <1>1, Asked DEF UrlOK
      <3> QED
        BY <2>1, <2>2, <2>3, <3>1 DEF TokenOf, Tokens, Codes
    <2>5. /\ Own(tab[t].url.host, s)
          /\ s.state = Session(t).state /\ s.page = Session(t).page
      BY <1>1, <2>1, <2>4, Asked, Granted
    <2>6. Session(t).page = tab[t].want.page
      <3>1. Match(tab[t], Session(t))
        BY <1>1, Asked DEF IInv, Session
      <3> QED
        BY <2>2, <3>1 DEF Match
    <2>7. tab[t].url.host = tab[t].want.host
      BY <2>2, <2>3, Asked DEF TabOK
    <2>8. u = tab[t].want
      BY <2>1, <2>6, <2>7, Asked DEF TabOK
    <2>9. UrlOK(u) /\ u.state = None
      <3>1. u \in Urls
        BY <2>8, Asked DEF TabOK, TabRecords
      <3>2. u.kind = "page" /\ u.state = None
        BY <2>1 DEF PageUrl
      <3> QED
        BY <3>1, <3>2 DEF UrlOK
    <2>10. tab' = [tab EXCEPT ![t] = Saved(tab[t], s, u, 302)] /\ 302 \in Nat
      BY <1>3, <2>1, SaveForm
    <2> QED
      BY Zenon, <1>1, <2>5, <2>8, <2>9, <2>10, Resaved
  <1> QED
    BY <1>2, <1>3 DEF checkAuthenticationResponse

\* A login starts with a random string that is nowhere in use, so that no other
\* login, session or response is confused with it.
LEMMA LoginStep ==
    ASSUME IInv, NEW t \in Tabs, checkTokenExists(t)
    PROVE  IInv'
  <1>1. PICK id, state, s, u :
            /\ id = CHOOSE n \in 1..MaxStates : n \notin InUse
            /\ state = [id |-> id, host |-> tab[t].url.host]
            /\ s = [Session(t) EXCEPT !.state = state,
                            !.page = tab[t].url.page, !.proxy = None]
            /\ u = LoginUrl(tab[t].url.host, state)
    BY Zenon
  <1>2. /\ Session(t) # Garbled /\ tab[t].url.kind = "page"
        /\ cookie' = cookie /\ SaveAndRedirect(t, s, u)
    BY <1>1 DEF checkTokenExists, HasSession, Asks
  <1>3. id \in 1..MaxStates /\ id \notin InUse
    BY <1>1, FreshState
  <1>4. state \in States /\ state.id = id /\ state.host = tab[t].url.host
    BY <1>1, <1>3, Asked DEF States
  <1>5. tab[t].url = tab[t].want /\ tab[t].url.page \in Pages \cup {None}
    BY <1>2, Asked DEF TabOK, Urls
  <1>6. /\ s \in Sessions /\ s.state = state /\ s.page = tab[t].want.page
        /\ s.token = Session(t).token /\ s.proxy = None
    <2>1. Session(t) \in Sessions
      BY <1>2, Asked
    <2>2. s \in Sessions
      BY ZenonT(30), <1>1, <1>4, <1>5, <2>1 DEF Sessions
    <2>3. s.state = state /\ s.page = tab[t].url.page
          /\ s.token = Session(t).token /\ s.proxy = None
      BY <1>1, <2>1 DEF Sessions
    <2> QED
      BY <1>5, <2>2, <2>3
  <1>7. Own(tab[t].url.host, s)
    BY <1>2, <1>4, <1>6, Asked DEF Own
  <1>8. UrlOK(u) /\ u.state = state /\ u.kind = "login"
    <2>1. Denied \in Codes \cup {Denied}
      OBVIOUS
    <2> QED
      BY <1>1, <1>4, <2>1, Asked, LoginUrls
  <1>9. PICK b, n : b = tab[t] /\ n = Saved(b, s, u, 302)
    OBVIOUS
  <1>10. /\ TabOK(n) /\ n.url = u /\ n.want = b.want
         /\ n.set.session = s
    <2>1. /\ TabOK(b) /\ (u.kind = "page" => u = b.want)
          /\ (u.state # None => u.state.host = b.want.host)
          /\ Own(b.url.host, s) /\ 302 \in Nat
      BY <1>4, <1>5, <1>7, <1>8, <1>9, Asked
    <2> QED
      BY <1>8, <1>9, <2>1, SavedOK
  <1>11. tab' = [tab EXCEPT ![t] = n]
    BY <1>2, <1>9, SaveForm
  <1>12. \A v \in Tabs : tab'[v] = IF v = t THEN n ELSE tab[v]
    BY <1>11 DEF IInv
  <1>13. tab' \in [Tabs -> TabRecords] /\ \A v \in Tabs : TabOK(tab'[v])
    BY <1>10, <1>11 DEF IInv, TabOK
  <1>14. /\ \A h \in Hosts : cookie[h] # Garbled => cookie[h].state = None
                                                 \/ cookie[h].state # state
         /\ \A v \in Tabs : tab[v].url.state = None \/ tab[v].url.state # state
         /\ \A v \in Tabs : tab[v].set # None =>
                \/ tab[v].set.session.state = None
                \/ tab[v].set.session.state # state
    BY <1>3, <1>4 DEF InUse
  <1>15. \A h \in Hosts : cookie'[h] # Garbled =>
            Own(h, cookie'[h]) /\ \A v \in Tabs : Match(tab'[v], cookie'[h])
    <2> SUFFICES ASSUME NEW h \in Hosts, cookie[h] # Garbled
                 PROVE  /\ Own(h, cookie[h])
                        /\ \A v \in Tabs : Match(tab'[v], cookie[h])
      BY <1>2
    <2>1. Own(h, cookie[h]) /\ \A v \in Tabs : Match(tab[v], cookie[h])
      BY DEF IInv
    <2>2. PICK k : k = cookie[h]
      OBVIOUS
    <2>3. Match(n, k)
      BY <1>8, <1>10, <1>14, <2>2 DEF Match
    <2>4. \A v \in Tabs : Match(tab'[v], k)
      BY <1>12, <2>1, <2>2, <2>3
    <2> QED
      BY <2>1, <2>2, <2>4
  <1>16. ASSUME NEW v \in Tabs, NEW w \in Tabs, tab'[w].set # None
         PROVE  Match(tab'[v], tab'[w].set.session)
    <2>1. CASE v = t /\ w = t
      BY <1>6, <1>9, <1>10, <1>12, <2>1 DEF Match
    <2>2. CASE v = t /\ w # t
      BY <1>8, <1>10, <1>12, <1>14, <1>16, <2>2 DEF Match
    <2>3. CASE v # t /\ w = t
      BY <1>6, <1>10, <1>12, <1>14, <2>3 DEF Match
    <2>4. CASE v # t /\ w # t
      BY <1>12, <1>16, <2>4 DEF IInv
    <2> QED
      BY <2>1, <2>2, <2>3, <2>4
  <1>17. cookie' \in [Hosts -> Sessions \cup {Garbled}]
    BY <1>2 DEF IInv
  <1> QED
    BY <1>13, <1>15, <1>16, <1>17 DEF IInv

-----------------------------------------------------------------------------
(* The browser, GitLab and the outside world.                              *)

\* A tab that has no page yet, or no longer.
LEMMA IdleOK ==
    /\ TabOK(Idle) /\ TabOK(Done)
    /\ Idle.set = None /\ Done.set = None
    /\ Idle.url.state = None /\ Done.url.state = None
  <1>1. PageUrl(AuthHost, None) \in Urls /\ PageUrl(AuthHost, None).kind = "page"
        /\ PageUrl(AuthHost, None).state = None
        /\ PageUrl(AuthHost, None).host = AuthHost
        /\ PageUrl(AuthHost, None).page = None
    BY DEF PageUrl, Urls, Hosts
  <1>2. PICK u : u = PageUrl(AuthHost, None)
    OBVIOUS
  <1>3. /\ Idle = [pc |-> "idle", want |-> u, url |-> u, set |-> None,
                   status |-> 0]
        /\ Done = [pc |-> "done", want |-> u, url |-> u, set |-> None,
                   status |-> 0]
    BY <1>2 DEF Idle, Done
  <1>4. Idle \in TabRecords /\ Done \in TabRecords
    BY <1>1, <1>2, <1>3 DEF TabRecords
  <1>5. UrlOK(u) /\ u = PageUrl(u.host, u.page)
    BY <1>1, <1>2 DEF UrlOK
  <1> QED
    BY <1>1, <1>2, <1>3, <1>4, <1>5 DEF TabOK

\* The user opens a page.
LEMMA LoadStep ==
    ASSUME IInv, NEW t \in Tabs, Load(t)
    PROVE  IInv'
  <1>1. PICK w \in Wanted :
            tab' = [tab EXCEPT ![t] = [Idle EXCEPT !.pc = "request",
                        !.want = PageUrl(w[1], w[2]), !.url = PageUrl(w[1], w[2])]]
    BY Zenon DEF Load
  <1>2. w[1] \in Hosts /\ w[2] \in Pages
    BY AuthAssumption DEF Hosts, Pages
  <1>3. PICK u : u = PageUrl(w[1], w[2])
    OBVIOUS
  <1>4. u \in Urls /\ u.kind = "page" /\ u.state = None
        /\ u = PageUrl(u.host, u.page)
    BY <1>2, <1>3 DEF PageUrl, Urls
  <1> DEFINE n == [Idle EXCEPT !.pc = "request", !.want = u, !.url = u]
  <1>5. Idle \in TabRecords /\ Idle.set = None
    BY IdleOK DEF TabOK
  <1>6. n \in TabRecords /\ n.want = u /\ n.url = u /\ n.set = None
    BY Zenon, <1>4, <1>5 DEF TabRecords
  <1>7. tab' = [tab EXCEPT ![t] = n] /\ cookie' = cookie
    BY Zenon, <1>1, <1>3 DEF Load
  <1> HIDE DEF n
  <1>8. TabOK(n)
    BY <1>4, <1>6 DEF TabOK, UrlOK
  <1> QED
    BY Zenon, <1>4, <1>6, <1>7, <1>8, TabStep

\* The code GitLab gives is one of the login it was asked for.
LEMMA AuthorizeStep ==
    ASSUME IInv, NEW t \in Tabs, Authorize(t)
    PROVE  IInv'
  <1>1. PICK u, state, c :
            /\ state = tab[t].url.state
            /\ c \in {[host |-> state.host, signed |-> None], Denied}
            /\ u = CallbackUrl(AuthHost, state, c)
            /\ tab' = [tab EXCEPT ![t].url = u] /\ cookie' = cookie
            /\ tab[t].url.kind = "authorize"
    BY DEF Authorize, Asks
  <1>2. state \in States
    BY <1>1, Asked DEF UrlOK
  <1>3. c \in Codes \cup {Denied} /\ (c # Denied => c.host = state.host)
    BY <1>1, <1>2 DEF Codes, States
  <1>4. AuthHost \in Hosts
    BY DEF Hosts
  <1>5. UrlOK(u) /\ u.state = state /\ u.kind = "callback" /\ u \in Urls
    BY <1>1, <1>2, <1>3, <1>4, LoginUrls DEF UrlOK
  <1> DEFINE n == [tab[t] EXCEPT !.url = u]
  <1>6. tab[t] \in TabRecords
    BY DEF IInv
  <1>7. n \in TabRecords /\ n.want = tab[t].want /\ n.url = u
        /\ n.set = tab[t].set /\ n.pc = tab[t].pc
    BY <1>5, <1>6 DEF TabRecords
  <1>8. tab' = [tab EXCEPT ![t] = n]
    BY <1>1 DEF IInv
  <1> HIDE DEF n
  <1>9. TabOK(n)
    BY <1>1, <1>5, <1>7, Asked DEF TabOK
  <1> QED
    BY Zenon, <1>1, <1>5, <1>7, <1>8, <1>9, TabStep

\* A response replaces the cookie of the host it is from.
LEMMA ReceiveStep ==
    ASSUME IInv, NEW t \in Tabs, Receive(t)
    PROVE  IInv'
  <1>1. PICK n : n = IF tab[t].status # 302 THEN Done ELSE
                [tab[t] EXCEPT !.pc = "request", !.set = None, !.status = 0]
    OBVIOUS
  <1>2. tab' = [tab EXCEPT ![t] = n]
    BY <1>1 DEF Receive, IInv
  <1>3. /\ TabOK(n) /\ n.set = None
        /\ \/ n.url.state = None
           \/ n.url.state = tab[t].url.state /\ n.want = tab[t].want
    <2>1. CASE tab[t].status # 302
      BY <1>1, <2>1, IdleOK
    <2>2. CASE tab[t].status = 302
      <3>1. tab[t] \in TabRecords /\ TabOK(tab[t])
        BY DEF IInv
      <3>2. n \in TabRecords /\ n.want = tab[t].want /\ n.url = tab[t].url
            /\ n.set = None
        BY ZenonT(30), <1>1, <2>2, <3>1 DEF TabRecords
      <3> QED
        BY <3>1, <3>2 DEF TabOK
    <2> QED
      BY <2>1, <2>2
  <1>4. \A u \in Tabs : tab'[u] = IF u = t THEN n ELSE tab[u]
    BY <1>2 DEF IInv
  <1>5. tab' \in [Tabs -> TabRecords] /\ \A u \in Tabs : TabOK(tab'[u])
    BY <1>2, <1>3 DEF IInv, TabOK
  <1>6. ASSUME NEW s, \A u \in Tabs : Match(tab[u], s)
        PROVE  \A u \in Tabs : Match(tab'[u], s)
    BY <1>3, <1>4, <1>6 DEF Match
  <1>7. \A u, v \in Tabs : tab'[v].set # None =>
            Match(tab'[u], tab'[v].set.session)
    <2> SUFFICES ASSUME NEW v \in Tabs, tab'[v].set # None
                 PROVE  \A u \in Tabs : Match(tab'[u], tab'[v].set.session)
      OBVIOUS
    <2>1. PICK s : s = tab[v].set.session
      OBVIOUS
    <2>2. tab'[v] = tab[v]
      BY <1>3, <1>4
    <2>3. \A u \in Tabs : Match(tab[u], s)
      BY <2>1, <2>2 DEF IInv
    <2> QED
      BY <1>6, <2>1, <2>2, <2>3
  <1>8. CASE cookie' = cookie
    <2>1. \A h \in Hosts : cookie'[h] # Garbled =>
            Own(h, cookie'[h]) /\ \A u \in Tabs : Match(tab'[u], cookie'[h])
      BY Zenon, <1>6, <1>8 DEF IInv
    <2> QED
      BY <1>5, <1>7, <1>8, <2>1 DEF IInv
  <1>9. CASE tab[t].set # None
             /\ cookie' = [cookie EXCEPT ![tab[t].set.host] = tab[t].set.session]
    <2>1. PICK g, s : g = tab[t].set.host /\ s = tab[t].set.session
      OBVIOUS
    <2>2. Own(g, s) /\ s \in Sessions /\ \A u \in Tabs : Match(tab[u], s)
      BY Zenon, <1>9, <2>1, Asked DEF IInv, TabOK, Own
    <2>3. cookie' = [cookie EXCEPT ![g] = s]
      BY <1>9, <2>1
    <2>4. cookie' \in [Hosts -> Sessions \cup {Garbled}]
          /\ \A h \in Hosts : cookie'[h] = IF h = g THEN s ELSE cookie[h]
      BY Zenon, <2>2, <2>3 DEF IInv
    <2>5. \A h \in Hosts : cookie'[h] # Garbled =>
            Own(h, cookie'[h]) /\ \A u \in Tabs : Match(tab'[u], cookie'[h])
      BY Zenon, <1>6, <2>2, <2>4 DEF IInv
    <2> QED
      BY <1>5, <1>7, <2>4, <2>5 DEF IInv
  <1> QED
    BY <1>8, <1>9 DEF Receive

\* A revoked token is still the token of the same login.
LEMMA RevokedSame ==
    ASSUME NEW s \in Sessions
    PROVE  /\ Revoked(s) \in Sessions
           /\ Revoked(s).state = s.state /\ Revoked(s).page = s.page
           /\ \A h : Own(h, s) => Own(h, Revoked(s))
           /\ \A b : Match(b, s) => Match(b, Revoked(s))
  <1>1. CASE s = Garbled \/ s.token = None
    BY <1>1 DEF Revoked
  <1>2. CASE ~(s = Garbled \/ s.token = None)
    <2>1. s.token \in Tokens
      BY <1>2 DEF Sessions
    <2>2. PICK k : k = [s.token EXCEPT !.live = FALSE]
      BY Zenon
    <2>3. k \in Tokens /\ k.host = s.token.host
      BY Zenon, <2>1, <2>2 DEF Tokens
    <2>4. Revoked(s) = [s EXCEPT !.token = k]
      BY <1>2, <2>2 DEF Revoked
    <2>5. /\ Revoked(s) \in Sessions /\ Revoked(s).state = s.state
          /\ Revoked(s).page = s.page /\ Revoked(s).token = k
          /\ Revoked(s).proxy = s.proxy
      BY <2>3, <2>4 DEF Sessions
    <2> QED
      BY <1>2, <2>3, <2>5 DEF Own, Match
  <1> QED
    BY <1>1, <1>2

\* A cookie that expires leaves an empty session.
LEMMA ExpireStep ==
    ASSUME IInv, NEW h \in Hosts, Expire(h)
    PROVE  IInv'
  <1>1. tab' = tab /\ cookie' = [cookie EXCEPT ![h] = NoValues]
    BY DEF Expire
  <1>2. NoValues \in Sessions /\ Own(h, NoValues) /\ NoValues.state = None
    BY NoValuesOwn DEF Own, NoValues
  <1>3. cookie' \in [Hosts -> Sessions \cup {Garbled}]
        /\ \A g \in Hosts : cookie'[g] = IF g = h THEN NoValues ELSE cookie[g]
    BY <1>1, <1>2 DEF IInv
  <1>4. \A g \in Hosts : cookie'[g] # Garbled =>
            Own(g, cookie'[g]) /\ \A t \in Tabs : Match(tab'[t], cookie'[g])
    BY <1>1, <1>2, <1>3 DEF IInv, Match
  <1> QED
    BY <1>1, <1>3, <1>4 DEF IInv

\* Revocation touches no state, page or host.
LEMMA RevokeStep ==
    ASSUME IInv, Revoke
    PROVE  IInv'
  <1>1. ASSUME NEW h \in Hosts
        PROVE  /\ cookie'[h] \in Sessions \cup {Garbled}
               /\ cookie'[h] # Garbled =>
                    /\ Own(h, cookie'[h])
                    /\ \A t \in Tabs : Match(tab[t], cookie'[h])
    <2>1. PICK s : s = cookie[h]
      OBVIOUS
    <2>2. cookie'[h] = Revoked(s) /\ s \in Sessions \cup {Garbled}
      BY <2>1 DEF Revoke, IInv
    <2>3. CASE s = Garbled
      BY <2>1, <2>2, <2>3 DEF Revoked, IInv
    <2>4. CASE s # Garbled
      BY <2>1, <2>2, <2>4, RevokedSame DEF IInv
    <2> QED
      BY <2>3, <2>4
  <1>2. ASSUME NEW t \in Tabs
        PROVE  /\ TabOK(tab'[t])
               /\ tab'[t].url = tab[t].url /\ tab'[t].want = tab[t].want
               /\ tab'[t].set # None =>
                    \A u \in Tabs : Match(tab[u], tab'[t].set.session)
    <2>1. PICK b : b = tab[t]
      OBVIOUS
    <2>2. TabOK(b) /\ b \in TabRecords
      BY <2>1 DEF IInv
    <2>3. CASE b.set = None
      <3>1. tab'[t] = b
        BY <2>1, <2>3 DEF Revoke
      <3> QED
        BY <2>1, <2>2, <2>3, <3>1
    <2>4. CASE b.set # None
      <3>1. PICK s : s = b.set.session
        OBVIOUS
      <3>2. Own(b.set.host, s) /\ s \in Sessions
            /\ \A u \in Tabs : Match(tab[u], s)
        BY <2>1, <2>2, <2>4, <3>1 DEF TabOK, Own, IInv
      <3>3. PICK z : z = Revoked(s)
        OBVIOUS
      <3>4. Own(b.set.host, z) /\ z \in Sessions
            /\ \A u \in Tabs : Match(tab[u], z)
        BY <3>2, <3>3, RevokedSame
      <3>5. PICK r : r = [b.set EXCEPT !.session = z]
        BY Zenon
      <3>6. b.set \in Responses
        BY <2>2, <2>4 DEF TabRecords
      <3>7. r \in Responses /\ r.host = b.set.host /\ r.session = z
        BY <3>4, <3>5, <3>6 DEF Responses
      <3>8. tab'[t] = [b EXCEPT !.set = r]
        BY <2>1, <2>4, <3>1, <3>3, <3>5 DEF Revoke
      <3>9. /\ tab'[t] \in TabRecords /\ tab'[t].url = b.url
            /\ tab'[t].want = b.want /\ tab'[t].set = r /\ tab'[t].pc = b.pc
        BY <2>2, <3>7, <3>8 DEF TabRecords
      <3> QED
        BY <2>1, <2>2, <2>4, <3>4, <3>7, <3>9 DEF TabOK
    <2> QED
      BY <2>3, <2>4
  <1>3. cookie' \in [Hosts -> Sessions \cup {Garbled}]
        /\ tab' \in [Tabs -> TabRecords]
    BY <1>1, <1>2 DEF Revoke, TabOK
  <1>4. \A t \in Tabs : \A s : Match(tab[t], s) => Match(tab'[t], s)
    BY <1>2 DEF Match
  <1> QED
    BY <1>1, <1>2, <1>3, <1>4 DEF IInv

-----------------------------------------------------------------------------
(* The theorems.                                                           *)

\* What earlier loads have left belongs to the host it was left at.
LEMMA LeftoversOwn ==
    ASSUME NEW h \in Hosts, NEW s \in Leftovers(h)
    PROVE  s = Garbled \/ Own(h, s)
  <1>1. 1 \in 1..MaxStates
    <2>1. PICK n : n \in 1..MaxStates
      BY FreshState
    <2> QED
      BY <2>1, AuthAssumption
  <1>2. CASE s \in {Garbled, NoValues}
    BY <1>2, NoValuesOwn
  <1>3. ASSUME NEW g \in {h} \cap Sites,
               NEW token \in [host : {h}, live : BOOLEAN],
               s = [state |-> [id |-> 1, host |-> g], page |-> "page",
                    token |-> token, proxy |-> None]
        PROVE  Own(h, s)
    <2>1. [id |-> 1, host |-> g] \in States /\ token \in Tokens
      BY <1>1 DEF States, Tokens
    <2>2. PICK a : a = [id |-> 1, host |-> g]
      BY Zenon
    <2>3. a \in States /\ a.host = h
      BY <2>1, <2>2
    <2>4. s = [state |-> a, page |-> "page", token |-> token, proxy |-> None]
      BY <1>3, <2>2
    <2> QED
      BY <2>1, <2>3, <2>4 DEF Own, Sessions, Pages
  <1>4. ASSUME NEW g \in Sites, h = AuthHost, s = [NoValues EXCEPT !.proxy = g]
        PROVE  Own(h, s)
    BY <1>4 DEF NoValues, Own, Sessions, Hosts
  <1> QED
    BY <1>2, <1>3, <1>4 DEF Leftovers

\* The first states: one session with leftovers, and idle tabs.
LEMMA Initial == Init => IInv
  <1> SUFFICES ASSUME Init PROVE IInv
    OBVIOUS
  <1>1. PICK h \in Hosts : \E s \in Leftovers(h) :
            cookie = [g \in Hosts |-> IF g = h THEN s ELSE NoValues]
    BY DEF Init
  <1>2. \A g \in Hosts : cookie[g] = Garbled \/ Own(g, cookie[g])
    <2>1. PICK s \in Leftovers(h) :
            cookie = [g \in Hosts |-> IF g = h THEN s ELSE NoValues]
      BY <1>1
    <2> QED
      BY <2>1, LeftoversOwn, NoValuesOwn
  <1>3. cookie \in [Hosts -> Sessions \cup {Garbled}]
    BY <1>1, <1>2 DEF Own
  <1>4. \A t \in Tabs : tab[t] = Idle
    BY DEF Init
  <1>5. tab \in [Tabs -> TabRecords]
    BY IdleOK DEF Init, TabOK
  <1>6. \A t \in Tabs : \A x : Match(tab[t], x)
    BY <1>4, IdleOK DEF Match
  <1> QED
    BY <1>2, <1>3, <1>4, <1>5, <1>6, IdleOK DEF IInv

\* Every step keeps the invariant.
LEMMA Inductive == IInv /\ [Next]_vars => IInv'
  <1> SUFFICES ASSUME IInv, [Next]_vars PROVE IInv'
    OBVIOUS
  <1>1. ASSUME NEW t \in Tabs, Load(t) PROVE IInv'
    BY <1>1, LoadStep
  <1>2. ASSUME NEW t \in Tabs, Step(t) PROVE IInv'
    BY <1>2, ReceiveStep, HandlerStep, ProxyCallbackStep, AuthenticationStep,
       LoginStep, AuthorizeStep DEF Step
  <1>3. ASSUME NEW h \in Hosts, Expire(h) PROVE IInv'
    BY <1>3, ExpireStep
  <1>4. CASE Revoke
    BY <1>4, RevokeStep
  <1>5. CASE UNCHANGED vars
    BY <1>5 DEF vars, IInv
  <1> QED
    BY <1>1, <1>2, <1>3, <1>4, <1>5 DEF Next

\* checkAuthenticationResponse: the token in the session of a host is of a
\* login started there, for any number of tabs, sites and logins under way.
THEOREM TokensOwn == Spec => []TokenOfOwnLogin
  <1>1. IInv => TokenOfOwnLogin
    BY DEF IInv, Own, TokenOfOwnLogin
  <1> QED
    BY <1>1, Initial, Inductive, PTL DEF Spec

\* state and uri are saved together: a tab that returns from a login returns
\* to the page it wanted, for any number of tabs that share the session.
THEOREM BackToPage == Spec => []BackToOwnPage
  <1>1. IInv => BackToOwnPage
    BY DEF IInv, TabOK, BackToOwnPage
  <1> QED
    BY <1>1, Initial, Inductive, PTL DEF Spec

-----------------------------------------------------------------------------
(* Loads nothing interferes with.                                          *)

\* The session of a host as the next request of the tab finds it.
Seen(b, c, h) == IF b.set # None /\ b.set.host = h THEN b.set.session ELSE c[h]

\* The site a login was started at waits for the login to come back.
Awaited(b, c) ==
    LET home == Seen(b, c, b.want.host)
    IN  /\ home # Garbled
        /\ home.state = b.url.state /\ home.page = b.want.page
        /\ b.want.host # AuthHost => home.proxy = None

\* The auth host knows the site to send the callback on to.
Proxying(b, c) ==
    LET auth == Seen(b, c, AuthHost)
    IN  auth # Garbled /\ auth.proxy = b.want.host

\* The stages of a load: at the page, on the way to the auth host, at GitLab,
\* back at the auth host, back at the site.
OnWay(b, c) ==
    \/ b.url.kind = "page"
    \/ /\ Awaited(b, c)
       /\ \/ /\ b.url.kind = "login" /\ b.url.host = AuthHost
             /\ b.url.domain = b.want.host
          \/ b.url.kind = "authorize" /\ Proxying(b, c)
          \/ /\ b.url.kind = "callback" /\ b.url.host = AuthHost
             /\ Proxying(b, c)
             /\ b.url.code # Denied /\ b.url.code.signed = None
          \/ /\ b.url.kind = "callback" /\ b.url.host = b.want.host
             /\ Seen(b, c, b.want.host).proxy = None
             /\ b.url.code # Denied /\ b.url.code.signed = b.want.host

\* A calm load is on its way, or has been answered as it should be.
CalmTab(b, c) ==
    /\ b.want.page \in Pages
    /\ \/ b.pc = "request" /\ b.set = None /\ OnWay(b, c)
       \/ b.pc = "response" /\ b.status = 302 /\ OnWay(b, c)
       \/ /\ b.pc = "response"
          /\ b.status = IF b.want.host \in Members THEN 200 ELSE 404

\* Only one load is calm, and no other one is under way.
CalmOK ==
    /\ calm \subseteq Tabs
    /\ \A t \in calm : /\ \A u \in Tabs \ {t} : ~Active(u)
                       /\ CalmTab(tab[t], cookie)

\* What a handler knows of a calm load.
LEMMA CalmAsked ==
    ASSUME IInv, NEW t \in Tabs, CalmTab(tab[t], cookie),
           tab[t].pc = "request"
    PROVE  /\ tab[t].set = None /\ OnWay(tab[t], cookie)
           /\ \A h : Seen(tab[t], cookie, h) = cookie[h]
           /\ tab[t].want.host \in Hosts /\ tab[t].want.page \in Pages
           /\ tab[t].url.kind = "page" => tab[t].url = tab[t].want
  <1>1. tab[t].set = None /\ OnWay(tab[t], cookie)
    BY DEF CalmTab
  <1>2. tab[t].want \in Urls
    BY DEF IInv, TabRecords
  <1>3. tab[t].want.host \in Hosts
    BY <1>2 DEF Urls
  <1>4. tab[t].url.kind = "page" => tab[t].url = tab[t].want
    BY DEF IInv, TabOK
  <1> QED
    BY <1>1, <1>3, <1>4 DEF Seen, CalmTab

\* What the next request finds after a response with a new cookie.
LEMMA SeenSaved ==
    ASSUME NEW b \in TabRecords, NEW c, NEW s \in Sessions, NEW u,
           NEW status, NEW n, n = Saved(b, s, u, status)
    PROVE  /\ n.pc = "response" /\ n.status = status
           /\ n.url = u /\ n.want = b.want
           /\ \A h : Seen(n, c, h) = IF h = b.url.host THEN s ELSE c[h]
  <1> DEFINE r == [host |-> b.url.host, session |-> s]
  <1>1. /\ n.pc = "response" /\ n.status = status /\ n.url = u
        /\ n.want = b.want /\ n.set = r
    BY DEF Saved, TabRecords
  <1>2. r # None
    <2>1. b.url.host \in Hosts
      BY DEF TabRecords, Urls
    <2>2. r \in [host : Hosts, session : Sessions]
      BY <2>1
    <2> QED
      BY <2>2, ValuesAssumption
  <1>3. r.host = b.url.host /\ r.session = s
    OBVIOUS
  <1> HIDE DEF r
  <1>4. \A h : Seen(n, c, h) = IF h = b.url.host THEN s ELSE c[h]
    BY <1>1, <1>2, <1>3 DEF Seen
  <1> QED
    BY <1>1, <1>4

\* A response to tab b with session s and a redirect to u leads to a stage of
\* the load.
Leads(b, c, s, u) ==
    \A n : /\ n.url = u /\ n.want = b.want
           /\ \A h : Seen(n, c, h) = IF h = b.url.host THEN s ELSE c[h]
           => OnWay(n, c)

\* Such a redirect keeps a load calm.
LEMMA CalmRedirect ==
    ASSUME IInv, NEW t \in Tabs, CalmTab(tab[t], cookie),
           NEW s \in Sessions, NEW u, SaveAndRedirect(t, s, u),
           cookie' = cookie, Leads(tab[t], cookie, s, u)
    PROVE  CalmTab(tab'[t], cookie')
  <1>1. PICK b, c : b = tab[t] /\ c = cookie
    OBVIOUS
  <1>2. PICK n : n = Saved(b, s, u, 302)
    OBVIOUS
  <1>3. b \in TabRecords /\ DOMAIN tab = Tabs
    BY <1>1 DEF IInv
  <1>4. tab' = [tab EXCEPT ![t] = n]
    <2>1. tab' = [tab EXCEPT ![t] = Saved(tab[t], s, u, 302)]
      BY SaveForm
    <2> QED
      BY <1>1, <1>2, <2>1, Zenon
  <1>5. tab'[t] = n
    BY <1>3, <1>4
  <1>6. /\ n.pc = "response" /\ n.status = 302 /\ n.url = u /\ n.want = b.want
        /\ \A h : Seen(n, c, h) = IF h = b.url.host THEN s ELSE c[h]
    BY <1>2, <1>3, SeenSaved
  <1>7. Leads(b, c, s, u) /\ CalmTab(b, c)
    BY <1>1
  <1>8. OnWay(n, c)
    BY <1>6, <1>7 DEF Leads
  <1>9. n.want.page \in Pages
    BY <1>6, <1>7 DEF CalmTab
  <1>10. CalmTab(n, c)
    BY <1>6, <1>8, <1>9 DEF CalmTab
  <1> QED
    BY <1>1, <1>5, <1>10

\* An answer keeps a load calm if it is the right one.
LEMMA CalmAnswer ==
    ASSUME IInv, NEW t \in Tabs, CalmTab(tab[t], cookie),
           Answer(t, IF tab[t].want.host \in Members THEN 200 ELSE 404)
    PROVE  CalmTab(tab'[t], cookie')
  <1>a. PICK b : b = tab[t]
    OBVIOUS
  <1>b. PICK status : status = IF b.want.host \in Members THEN 200 ELSE 404
    OBVIOUS
  <1>c. PICK n : n = [b EXCEPT !.pc = "response", !.status = status]
    OBVIOUS
  <1>1. /\ b = tab[t]
        /\ status = IF b.want.host \in Members THEN 200 ELSE 404
        /\ n = [b EXCEPT !.pc = "response", !.status = status]
    BY <1>a, <1>b, <1>c
  <1>2. tab'[t] = n
    BY <1>1 DEF Answer, IInv
  <1>3. b \in TabRecords
    BY <1>1 DEF IInv
  <1>4. n.pc = "response" /\ n.status = status /\ n.want = b.want
    BY <1>1, <1>3 DEF TabRecords
  <1> QED
    BY <1>1, <1>2, <1>4 DEF CalmTab

\* checkSession starts the session afresh only where the load needs nothing
\* of it.
LEMMA CalmSession ==
    ASSUME IInv, NEW t \in Tabs, CalmTab(tab[t], cookie), checkSession(t)
    PROVE  CalmTab(tab'[t], cookie')
  <1>1. PICK b, c : b = tab[t] /\ c = cookie
    OBVIOUS
  <1>2. /\ b.pc = "request" /\ b.url.kind # "authorize"
        /\ c[b.url.host] = Garbled
        /\ SaveAndRedirect(t, NoValues, b.url) /\ cookie' = cookie
    BY <1>1 DEF checkSession, Session
  <1>3. OnWay(b, c) /\ \A h : Seen(b, c, h) = c[h]
    BY <1>1, <1>2, CalmAsked
  <1>4. NoValues \in Sessions
    BY NoValuesOwn DEF Own
  <1>5. ASSUME NEW n, n.url = b.url, n.want = b.want,
               \A h : Seen(n, c, h) =
                        IF h = b.url.host THEN NoValues ELSE c[h]
        PROVE  OnWay(n, c)
    <2>1. CASE b.url.kind = "page"
      BY <1>5, <2>1 DEF OnWay
    <2>2. CASE b.url.kind # "page"
      <3>1. Awaited(b, c) /\ c[b.want.host] # Garbled
        BY <1>3, <2>2 DEF OnWay, Awaited
      <3>2. /\ b.url.kind = "login" /\ b.url.host = AuthHost
            /\ b.url.domain = b.want.host
        BY ZenonT(30), <1>2, <1>3, <2>2, <3>1 DEF OnWay, Proxying
      <3>3. Seen(n, c, b.want.host) = Seen(b, c, b.want.host)
        BY <1>2, <1>3, <1>5, <3>1
      <3>4. Awaited(n, c)
        BY Zenon, <1>5, <3>1, <3>3 DEF Awaited
      <3> QED
        BY <1>5, <3>2, <3>4 DEF OnWay
    <2> QED
      BY <2>1, <2>2
  <1>6. Leads(b, c, NoValues, b.url)
    BY <1>5 DEF Leads
  <1> QED
    BY <1>1, <1>2, <1>4, <1>6, CalmRedirect

\* The auth host remembers the site and keeps what a login at itself needs.
LEMMA CalmProxyAuth ==
    ASSUME IInv, NEW t \in Tabs, CalmTab(tab[t], cookie), NoFault,
           ProxyAuthToGitlab(t), t \in calm
    PROVE  CalmTab(tab'[t], cookie')
  <1>1. PICK b, c, s, u :
            /\ b = tab[t] /\ c = cookie
            /\ s = [c[b.url.host] EXCEPT !.proxy = b.url.domain]
            /\ u = AuthorizeUrl(b.url.state)
    BY Zenon
  <1>2. /\ b.pc = "request" /\ b.url.kind = "login" /\ c[b.url.host] # Garbled
        /\ cookie' = cookie
    BY <1>1 DEF ProxyAuthToGitlab, HasSession, Asks, Session
  <1>3. SaveAndRedirect(t, s, u)
    <2>1. ~Fault
      BY DEF NoFault, Fault
    <2> QED
      BY <1>1, <2>1 DEF ProxyAuthToGitlab, Session
  <1>4. /\ OnWay(b, c) /\ \A h : Seen(b, c, h) = c[h]
        /\ b.want.host \in Hosts
    BY <1>1, <1>2, CalmAsked
  <1>5. /\ Awaited(b, c) /\ b.url.host = AuthHost
        /\ b.url.domain = b.want.host
    BY <1>2, <1>4 DEF OnWay
  <1>6. c[AuthHost] \in Sessions
    BY <1>1, <1>2, <1>5, Asked DEF Session
  <1>7. /\ s \in Sessions /\ s.proxy = b.want.host
        /\ s.state = c[AuthHost].state /\ s.page = c[AuthHost].page
    BY <1>1, <1>4, <1>5, <1>6 DEF Sessions
  <1>8. s # Garbled
    BY <1>7, ValuesAssumption
  <1>9. u.kind = "authorize" /\ u.state = b.url.state
    BY <1>1 DEF AuthorizeUrl
  <1>10. ASSUME NEW n, n.url = u, n.want = b.want,
                \A h : Seen(n, c, h) = IF h = b.url.host THEN s ELSE c[h]
         PROVE  OnWay(n, c)
    <2>1. Proxying(n, c)
      BY <1>5, <1>7, <1>8, <1>10 DEF Proxying
    <2>2. PICK h, home : h = b.want.host /\ home = Seen(n, c, h)
      OBVIOUS
    <2>3. /\ c[h] # Garbled /\ c[h].state = b.url.state
          /\ c[h].page = b.want.page /\ (h # AuthHost => c[h].proxy = None)
      BY <1>4, <1>5, <2>2 DEF Awaited
    <2>4. /\ home # Garbled /\ home.state = b.url.state
          /\ home.page = b.want.page /\ (h # AuthHost => home.proxy = None)
      <3>1. CASE h = AuthHost
        BY <1>5, <1>7, <1>8, <1>10, <2>2, <2>3, <3>1
      <3>2. CASE h # AuthHost
        BY <1>5, <1>10, <2>2, <2>3, <3>2
      <3> QED
        BY <3>1, <3>2
    <2>5. Awaited(n, c)
      BY <1>9, <1>10, <2>2, <2>4 DEF Awaited
    <2> QED
      BY <1>9, <1>10, <2>1, <2>5 DEF OnWay
  <1>11. Leads(b, c, s, u)
    BY <1>10 DEF Leads
  <1> QED
    BY <1>1, <1>2, <1>3, <1>7, <1>11, CalmRedirect

\* GitLab gives a code for the state it was asked with.
LEMMA CalmAuthorize ==
    ASSUME IInv, NEW t \in Tabs, CalmTab(tab[t], cookie), NoFault,
           Authorize(t), t \in calm
    PROVE  CalmTab(tab'[t], cookie')
  <1>1. PICK b, c, code, u, n :
            /\ b = tab[t] /\ c = cookie
            /\ code = [host |-> b.url.state.host, signed |-> None]
            /\ u = CallbackUrl(AuthHost, b.url.state, code)
            /\ n = [b EXCEPT !.url = u]
    BY Zenon
  <1>2. b.pc = "request" /\ b.url.kind = "authorize" /\ cookie' = cookie
    BY <1>1 DEF Authorize, Asks
  <1>3. tab'[t] = n
    <2>1. ~Fault
      BY DEF NoFault, Fault
    <2> QED
      BY <1>1, <2>1 DEF Authorize, IInv
  <1>4. /\ OnWay(b, c) /\ b.set = None /\ \A h : Seen(b, c, h) = c[h]
        /\ b.want.page \in Pages
    BY <1>1, <1>2, CalmAsked
  <1>5. Awaited(b, c) /\ Proxying(b, c)
    BY <1>2, <1>4 DEF OnWay
  <1>6. code # Denied /\ code.signed = None
    <2>1. b.url.state \in States
      BY <1>1, <1>2, Asked DEF UrlOK
    <2>2. code \in Codes
      BY <1>1, <2>1 DEF Codes, States
    <2> QED
      BY <1>1, <2>2, ValuesAssumption
  <1>7. /\ u.kind = "callback" /\ u.host = AuthHost /\ u.state = b.url.state
        /\ u.code = code
    BY <1>1 DEF CallbackUrl
  <1>8. b \in TabRecords
    BY <1>1 DEF IInv
  <1>9. /\ n.url = u /\ n.want = b.want /\ n.set = None
        /\ n.pc = "request"
    BY <1>1, <1>2, <1>4, <1>8 DEF TabRecords
  <1>10. \A h : Seen(n, c, h) = Seen(b, c, h)
    BY <1>4, <1>9 DEF Seen
  <1>11. Awaited(n, c) /\ Proxying(n, c)
    BY <1>5, <1>7, <1>9, <1>10 DEF Awaited, Proxying
  <1>12. OnWay(n, c)
    BY <1>6, <1>7, <1>9, <1>11 DEF OnWay
  <1> QED
    BY <1>1, <1>2, <1>3, <1>4, <1>9, <1>12 DEF CalmTab

\* The callback is sent on to the site, with a code signed for it; at the site
\* nothing is left to be proxied.
LEMMA CalmProxyCallback ==
    ASSUME IInv, NEW t \in Tabs, CalmTab(tab[t], cookie),
           ProxyCallbackToCustomDomain(t)
    PROVE  CalmTab(tab'[t], cookie')
  <1>1. PICK b, c, h, code, s, u :
            /\ b = tab[t] /\ c = cookie /\ h = b.want.host
            /\ code = EncryptAndSignCode(h, b.url.code)
            /\ s = [c[b.url.host] EXCEPT !.proxy = None]
            /\ u = CallbackUrl(h, b.url.state, code)
    BY Zenon
  <1>2. /\ b.pc = "request" /\ b.url.kind = "callback"
        /\ c[b.url.host] # Garbled /\ c[b.url.host].proxy # None
        /\ cookie' = cookie
    BY Zenon, <1>1 DEF ProxyCallbackToCustomDomain, HasSession, Asks, Session
  <1>3. OnWay(b, c) /\ (\A g : Seen(b, c, g) = c[g]) /\ h \in Hosts
    BY <1>1, <1>2, CalmAsked
  <1>4. /\ Awaited(b, c) /\ b.url.host = AuthHost /\ Proxying(b, c)
        /\ b.url.code # Denied /\ b.url.code.signed = None
    BY <1>1, <1>2, <1>3 DEF OnWay
  <1>5. c[AuthHost].proxy = h
    BY <1>1, <1>3, <1>4 DEF Proxying
  <1>6. SaveAndRedirect(t, s, u)
    BY <1>1, <1>4, <1>5 DEF ProxyCallbackToCustomDomain, Session
  <1>7. c[AuthHost] \in Sessions
    BY <1>1, <1>2, <1>4, Asked DEF Session
  <1>8. /\ s \in Sessions /\ s.proxy = None
        /\ s.state = c[AuthHost].state /\ s.page = c[AuthHost].page
    BY <1>1, <1>4, <1>7 DEF Sessions
  <1>9. s # Garbled
    BY <1>8, ValuesAssumption
  <1>10. code # Denied /\ code.signed = h
    <2>1. b.url.code \in Codes
      BY <1>1, <1>2, <1>4, Asked DEF UrlOK
    <2>2. code \in Codes
      BY <1>1, <1>3, <2>1, Signed
    <2>3. code.signed = h
      BY <1>1, <1>4, <2>1 DEF EncryptAndSignCode, Codes
    <2> QED
      BY <2>2, <2>3, ValuesAssumption
  <1>11. /\ u.kind = "callback" /\ u.host = h /\ u.state = b.url.state
         /\ u.code = code
    BY <1>1 DEF CallbackUrl
  <1>12. ASSUME NEW n, n.url = u, n.want = b.want,
                \A g : Seen(n, c, g) = IF g = b.url.host THEN s ELSE c[g]
         PROVE  OnWay(n, c)
    <2>1. n.want.host = h /\ b.want.host = h
      BY <1>1, <1>12
    <2>2. /\ c[h] # Garbled /\ c[h].state = b.url.state
          /\ c[h].page = b.want.page /\ (h # AuthHost => c[h].proxy = None)
      BY <1>3, <1>4, <2>1 DEF Awaited
    <2>3. /\ Seen(n, c, h) # Garbled /\ Seen(n, c, h).state = b.url.state
          /\ Seen(n, c, h).page = b.want.page /\ Seen(n, c, h).proxy = None
      <3>1. CASE h = AuthHost
        BY <1>4, <1>8, <1>9, <1>12, <2>2, <3>1
      <3>2. CASE h # AuthHost
        BY <1>4, <1>12, <2>2, <3>2
      <3> QED
        BY <3>1, <3>2
    <2>4. Awaited(n, c)
      BY <1>11, <1>12, <2>1, <2>3 DEF Awaited
    <2> QED
      BY <1>10, <1>11, <1>12, <2>1, <2>3, <2>4 DEF OnWay
  <1>13. Leads(b, c, s, u)
    BY <1>12 DEF Leads
  <1>14. Leads(tab[t], cookie, s, u)
    BY <1>1, <1>13
  <1> QED
    BY <1>2, <1>6, <1>8, <1>14, CalmRedirect

\* At the site the callback finds its state, a page to go to and a code it can
\* read; at the auth host it is not taken for one of its own.
LEMMA CalmCallback ==
    ASSUME IInv, NEW t \in Tabs, CalmTab(tab[t], cookie), NoFault,
           CallbackError(t) \/ checkAuthenticationResponse(t), t \in calm
    PROVE  CalmTab(tab'[t], cookie')
  <1>1. PICK b, c, x, s, u :
            /\ b = tab[t] /\ c = cookie /\ x = c[b.url.host]
            /\ s = [x EXCEPT !.token = TokenOf(b.url.code)]
            /\ u = PageUrl(b.url.host, x.page)
    BY Zenon
  <1>2. /\ b.pc = "request" /\ b.url.kind = "callback"
        /\ x # Garbled /\ x.proxy = None /\ cookie' = cookie
    BY ZenonT(30), <1>1 DEF CallbackError, checkAuthenticationResponse, HasSession, Asks,
                Session
  <1>3. /\ OnWay(b, c) /\ \A g : Seen(b, c, g) = c[g]
        /\ b.want.host \in Hosts /\ b.want.page \in Pages
    BY <1>1, <1>2, CalmAsked
  <1>4. ~(b.url.host = AuthHost /\ Proxying(b, c))
    BY <1>1, <1>2, <1>3, ValuesAssumption DEF Proxying
  <1>5. /\ Awaited(b, c) /\ b.url.host = b.want.host
        /\ b.url.code # Denied /\ b.url.code.signed = b.want.host
    BY <1>2, <1>3, <1>4 DEF OnWay
  <1>6. x.state = b.url.state /\ x.page = b.want.page
    BY <1>1, <1>3, <1>5 DEF Awaited
  <1>7. b.url.state \in States /\ b.url.code \in Codes
    BY <1>1, <1>2, <1>5, Asked DEF UrlOK
  <1>8. validateState(x, b.url) /\ x.page # None
        /\ DecryptCode(b.url.code, b.url.host)
    BY <1>3, <1>5, <1>6, <1>7, ValuesAssumption DEF validateState, DecryptCode
  <1>9. SaveAndRedirect(t, s, u)
    <2>1. ~Fault
      BY DEF NoFault, Fault
    <2>2. checkAuthenticationResponse(t)
      BY <1>1, <1>5 DEF CallbackError
    <2>3. Session(t) = x
      BY <1>1 DEF Session
    <2> QED
      BY ZenonT(30), <1>1, <1>8, <2>1, <2>2, <2>3 DEF checkAuthenticationResponse
  <1>10. s \in Sessions
    <2>1. x \in Sessions
      BY <1>1, <1>2, Asked DEF Session
    <2>2. TokenOf(b.url.code) \in Tokens
      BY <1>7 DEF TokenOf, Tokens, Codes
    <2> QED
      BY <1>1, <2>1, <2>2 DEF Sessions
  <1>11. u.kind = "page"
    BY <1>1 DEF PageUrl
  <1>12. ASSUME NEW n, n.url = u PROVE OnWay(n, c)
    BY <1>11, <1>12 DEF OnWay
  <1>13. Leads(tab[t], cookie, s, u)
    BY <1>1, <1>12 DEF Leads
  <1> QED
    BY <1>2, <1>9, <1>10, <1>13, CalmRedirect

\* A login starts: the session waits for it, whatever it held before.
LEMMA CalmLogin ==
    ASSUME IInv, NEW t \in Tabs, CalmTab(tab[t], cookie), checkTokenExists(t)
    PROVE  CalmTab(tab'[t], cookie')
  <1>1. PICK b, c, id, state, s, u :
            /\ b = tab[t] /\ c = cookie
            /\ id = CHOOSE k \in 1..MaxStates : k \notin InUse
            /\ state = [id |-> id, host |-> b.url.host]
            /\ s = [c[b.url.host] EXCEPT !.state = state,
                            !.page = b.url.page, !.proxy = None]
            /\ u = LoginUrl(b.url.host, state)
    BY Zenon
  <1>2. /\ b.pc = "request" /\ b.url.kind = "page" /\ c[b.url.host] # Garbled
        /\ cookie' = cookie /\ SaveAndRedirect(t, s, u)
    BY <1>1 DEF checkTokenExists, HasSession, Asks, Session
  <1>3. /\ b.url = b.want /\ b.want.host \in Hosts /\ b.want.page \in Pages
    BY <1>1, <1>2, CalmAsked
  <1>4. state \in States
    <2>1. id \in 1..MaxStates
      BY <1>1, FreshState
    <2> QED
      BY <1>1, <1>3, <2>1 DEF States
  <1>5. c[b.url.host] \in Sessions
    BY <1>1, <1>2, Asked DEF Session
  <1>6. s \in Sessions
    <2>1. PICK x, page : x = c[b.url.host] /\ page = b.url.page
      OBVIOUS
    <2>2. x \in Sessions /\ page \in Pages
      BY <1>3, <1>5, <2>1
    <2>3. [x EXCEPT !.state = state, !.page = page, !.proxy = None] \in Sessions
      BY Zenon, <1>4, <2>2 DEF Sessions
    <2> QED
      BY <1>1, <2>1, <2>3
  <1>7. s.state = state /\ s.page = b.want.page /\ s.proxy = None
    BY <1>1, <1>3, <1>5 DEF Sessions
  <1>8. s # Garbled
    BY <1>6, ValuesAssumption
  <1>9. /\ u.kind = "login" /\ u.host = AuthHost /\ u.state = state
        /\ u.domain = b.want.host
    BY <1>1, <1>3 DEF LoginUrl
  <1>10. ASSUME NEW n, n.url = u, n.want = b.want,
                \A h : Seen(n, c, h) = IF h = b.url.host THEN s ELSE c[h]
         PROVE  OnWay(n, c)
    <2>1. Awaited(n, c)
      BY <1>3, <1>7, <1>8, <1>9, <1>10 DEF Awaited
    <2> QED
      BY <1>9, <1>10, <2>1 DEF OnWay
  <1>11. Leads(tab[t], cookie, s, u)
    BY Zenon, <1>1, <1>10 DEF Leads
  <1> QED
    BY <1>2, <1>6, <1>11, CalmRedirect

\* The page is served, or the session is cleared of an invalid token.
LEMMA CalmServe ==
    ASSUME IInv, NEW t \in Tabs, CalmTab(tab[t], cookie), NoFault, t \in calm,
           \/ destroySession(t) \/ checkAuthentication(t)
           \/ HandleArtifactRequest(t)
    PROVE  CalmTab(tab'[t], cookie')
  <1>1. /\ tab[t].pc = "request" /\ tab[t].url.kind = "page"
        /\ Session(t) # Garbled /\ cookie' = cookie
    BY DEF destroySession, checkAuthentication, HandleArtifactRequest,
           HasSession, Asks
  <1>2. tab[t].url = tab[t].want
    BY <1>1, CalmAsked
  <1>3. ~Fault
    BY DEF NoFault, Fault
  <1>4. CASE destroySession(t)
    <2>1. PICK s, u : s = [Session(t) EXCEPT !.token = None] /\ u = tab[t].url
      BY Zenon
    <2>2. SaveAndRedirect(t, s, u) /\ u.kind = "page"
      BY <1>1, <1>4, <2>1 DEF destroySession
    <2>3. s \in Sessions
      BY <1>1, <2>1, Asked DEF Sessions
    <2>4. ASSUME NEW n, n.url = u PROVE OnWay(n, cookie)
      BY ZenonT(30), <2>2, <2>4 DEF OnWay
    <2>5. Leads(tab[t], cookie, s, u)
      BY <2>4 DEF Leads
    <2> QED
      BY <1>1, <2>2, <2>3, <2>5, CalmRedirect
  <1>5. CASE checkAuthentication(t)
    <2>1. Answer(t, IF tab[t].url.host \in Members THEN 200 ELSE 404)
      BY <1>3, <1>5 DEF checkAuthentication
    <2> QED
      BY <1>2, <2>1, CalmAnswer
  <1>6. CASE HandleArtifactRequest(t)
    <2>1. Answer(t, IF tab[t].url.host \in Members THEN 200 ELSE 404)
      BY <1>3, <1>6 DEF HandleArtifactRequest, makeRequest
    <2> QED
      BY <1>2, <2>1, CalmAnswer
  <1> QED
    BY <1>4, <1>5, <1>6

\* The next request finds the cookie the response has brought.
LEMMA SeenReceived ==
    ASSUME IInv, NEW t \in Tabs, Receive(t), NEW n, n.set = None
    PROVE  \A h \in Hosts : Seen(n, cookie', h) = Seen(tab[t], cookie, h)
  <1>1. PICK b, c, d : b = tab[t] /\ c = cookie /\ d = cookie'
    OBVIOUS
  <1>2. \A h : Seen(n, d, h) = d[h]
    BY DEF Seen
  <1>3. CASE b.set = None
    <2>1. d = c /\ \A h : Seen(b, c, h) = c[h]
      BY <1>1, <1>3 DEF Receive, Seen
    <2> QED
      BY <1>1, <1>2, <2>1
  <1>4. CASE b.set # None
    <2>1. d = [c EXCEPT ![b.set.host] = b.set.session] /\ DOMAIN c = Hosts
      BY <1>1, <1>4 DEF Receive, IInv
    <2>2. \A h \in Hosts :
                d[h] = IF h = b.set.host THEN b.set.session ELSE c[h]
      BY <2>1
    <2>3. \A h \in Hosts : Seen(n, d, h) = Seen(b, c, h)
      BY <1>2, <1>4, <2>2 DEF Seen
    <2> QED
      BY <1>1, <2>3
  <1> QED
    BY <1>3, <1>4

\* The browser has the cookie when it follows the redirect.
LEMMA CalmReceive ==
    ASSUME IInv, NEW t \in Tabs, CalmTab(tab[t], cookie), Receive(t),
           t \in calm'
    PROVE  CalmTab(tab'[t], cookie')
  <1>1. PICK b, n, c, d :
            /\ b = tab[t] /\ c = cookie /\ d = cookie'
            /\ n = [b EXCEPT !.pc = "request", !.set = None, !.status = 0]
    BY Zenon
  <1>2. b.pc = "response" /\ b.status = 302
    BY <1>1 DEF Receive
  <1>3. tab'[t] = n
    BY <1>1, <1>2 DEF Receive, IInv
  <1>4. b \in TabRecords
    BY <1>1 DEF IInv
  <1>5. /\ n.pc = "request" /\ n.set = None /\ n.url = b.url
        /\ n.want = b.want
    BY <1>1, <1>4 DEF TabRecords
  <1>6. OnWay(b, c) /\ b.want.page \in Pages
    <2>1. 302 # IF b.want.host \in Members THEN 200 ELSE 404
      OBVIOUS
    <2> QED
      BY <1>1, <1>2, <2>1 DEF CalmTab
  <1>7. \A h \in Hosts : Seen(n, d, h) = Seen(b, c, h)
    <2>1. \A h \in Hosts : Seen(n, cookie', h) = Seen(tab[t], cookie, h)
      BY <1>5, SeenReceived
    <2> QED
      BY <1>1, <2>1
  <1>8. b.want.host \in Hosts /\ AuthHost \in Hosts
    BY <1>4 DEF TabRecords, Urls, Hosts
  <1>9. (Awaited(b, c) => Awaited(n, d)) /\ (Proxying(b, c) => Proxying(n, d))
    BY <1>5, <1>7, <1>8 DEF Awaited, Proxying
  <1>10. OnWay(n, d)
    BY Zenon, <1>5, <1>6, <1>7, <1>8, <1>9 DEF OnWay
  <1> QED
    BY <1>1, <1>3, <1>5, <1>6, <1>10 DEF CalmTab

\* A load begins at its page.
LEMMA CalmLoad ==
    ASSUME IInv, NEW t \in Tabs, Load(t)
    PROVE  CalmTab(tab'[t], cookie')
  <1>1. PICK w \in Wanted :
            tab' = [tab EXCEPT ![t] = [Idle EXCEPT !.pc = "request",
                        !.want = PageUrl(w[1], w[2]), !.url = PageUrl(w[1], w[2])]]
    BY Zenon DEF Load
  <1>2. PICK u, n : /\ u = PageUrl(w[1], w[2])
                    /\ n = [Idle EXCEPT !.pc = "request", !.want = u, !.url = u]
    BY Zenon
  <1>3. tab'[t] = n
    BY <1>1, <1>2 DEF IInv
  <1>4. u.kind = "page" /\ u.page \in Pages
    BY <1>2, AuthAssumption DEF PageUrl, Pages
  <1>5. Idle \in TabRecords /\ Idle.set = None
    BY IdleOK DEF TabOK
  <1>6. /\ n.pc = "request" /\ n.set = None /\ n.url = u /\ n.want = u
    BY <1>2, <1>5 DEF TabRecords
  <1> QED
    BY Zenon, <1>3, <1>4, <1>6 DEF CalmTab, OnWay

\* A step of a tab: only its own record changes, and a disturbance leaves no
\* load calm.
LEMMA StepFrame ==
    ASSUME IInv, NEW u \in Tabs, Step(u)
    PROVE  /\ Active(u)
           /\ \A v \in Tabs \ {u} : tab'[v] = tab[v]
           /\ calm' \subseteq calm
           /\ Receive(u) \/ NoFault \/ calm' = {}
  <1>1. Active(u)
    BY DEF Step, Active, Receive, checkSession, ProxyAuthToGitlab,
           ProxyCallbackToCustomDomain, CallbackError,
           checkAuthenticationResponse, checkTokenExists, destroySession,
           checkAuthentication, HandleArtifactRequest, Authorize, HasSession,
           Asks
  <1>2. \E n : tab' = [tab EXCEPT ![u] = n]
    <2>1. CASE Receive(u) \/ Authorize(u) \/ ProxyCallbackToCustomDomain(u)
      BY <2>1 DEF Receive, Authorize, ProxyCallbackToCustomDomain,
                  SaveAndRedirect
    <2>2. CASE \/ checkSession(u) \/ checkTokenExists(u) \/ destroySession(u)
               \/ CallbackError(u)
      BY <2>2 DEF checkSession, checkTokenExists, destroySession,
                  CallbackError, SaveAndRedirect, Answer
    <2>3. CASE ProxyAuthToGitlab(u) \/ checkAuthenticationResponse(u)
      BY <2>3 DEF ProxyAuthToGitlab, checkAuthenticationResponse,
                  SaveAndRedirect, Answer
    <2>4. CASE checkAuthentication(u) \/ HandleArtifactRequest(u)
      BY <2>4 DEF checkAuthentication, HandleArtifactRequest, makeRequest,
                  Answer
    <2> QED
      BY <2>1, <2>2, <2>3, <2>4 DEF Step
  <1>3. Receive(u) \/ NoFault \/ Fault
    BY DEF Step, checkSession, ProxyAuthToGitlab,
           ProxyCallbackToCustomDomain, CallbackError,
           checkAuthenticationResponse, checkTokenExists, destroySession,
           checkAuthentication, HandleArtifactRequest, makeRequest, Authorize
  <1>4. \A v \in Tabs \ {u} : tab'[v] = tab[v]
    BY <1>2 DEF IInv
  <1>5. calm' \subseteq calm
    BY <1>3 DEF Receive, NoFault, Fault
  <1> QED
    BY Zenon, <1>1, <1>3, <1>4, <1>5 DEF Fault

\* Each handler keeps a calm load calm.
LEMMA CalmTabStep ==
    ASSUME IInv, NEW t \in Tabs, t \in calm, t \in calm', Step(t),
           CalmTab(tab[t], cookie)
    PROVE  CalmTab(tab'[t], cookie')
  <1>1. Receive(t) \/ NoFault
    BY StepFrame
  <1>2. CASE Receive(t)
    BY <1>2, CalmReceive
  <1>3. CASE NoFault /\ ~Receive(t)
    BY Zenon, <1>3, CalmSession, CalmProxyAuth, CalmProxyCallback, CalmCallback,
       CalmLogin, CalmServe, CalmAuthorize DEF Step
  <1> QED
    BY <1>1, <1>2, <1>3

\* A load stays calm until it is answered, another one begins or a disturbance
\* comes.
LEMMA CalmStep == IInv /\ CalmOK /\ [Next]_vars => CalmOK'
  <1> SUFFICES ASSUME IInv, CalmOK, [Next]_vars PROVE CalmOK'
    OBVIOUS
  <1>1. ASSUME NEW u \in Tabs, Load(u) PROVE CalmOK'
    <2>1. \A v \in Tabs \ {u} : tab'[v] = tab[v]
      BY <1>1 DEF Load, IInv
    <2>2. \/ calm' = {}
          \/ calm' = {u} /\ \A v \in Tabs \ {u} : ~Active(v)
      BY <1>1 DEF Load
    <2>3. CalmTab(tab'[u], cookie')
      BY <1>1, CalmLoad
    <2> QED
      BY <2>1, <2>2, <2>3 DEF CalmOK, Active
  <1>2. ASSUME NEW u \in Tabs, Step(u) PROVE CalmOK'
    <2>1. calm' \subseteq calm /\ calm \subseteq Tabs
      BY <1>2, StepFrame DEF CalmOK
    <2>2. ASSUME NEW t \in calm'
          PROVE  /\ \A v \in Tabs \ {t} : ~Active(v)'
                 /\ CalmTab(tab'[t], cookie')
      <3>1. t \in calm /\ t \in Tabs /\ CalmTab(tab[t], cookie)
            /\ \A v \in Tabs \ {t} : ~Active(v)
        BY <2>1, <2>2 DEF CalmOK
      <3>2. u = t
        BY <1>2, <3>1, StepFrame
      <3>3. \A v \in Tabs \ {t} : ~Active(v)'
        BY <1>2, <3>1, <3>2, StepFrame DEF Active
      <3>4. CalmTab(tab'[t], cookie')
        BY <1>2, <2>2, <3>1, <3>2, CalmTabStep
      <3> QED
        BY <3>3, <3>4
    <2> QED
      BY <2>1, <2>2 DEF CalmOK
  <1>3. CASE (\E h \in Hosts : Expire(h)) \/ Revoke
    <2>1. calm' = {}
      BY <1>3 DEF Expire, Revoke, Fault
    <2> QED
      BY <2>1 DEF CalmOK
  <1>4. CASE UNCHANGED vars
    BY <1>4 DEF vars, CalmOK, Active
  <1> QED
    BY <1>1, <1>2, <1>3, <1>4 DEF Next

\* A load that nothing interferes with ends with the page, or with 404 for a
\* user who may not see it, for any number of sites and tabs and whatever
\* earlier loads have left in the sessions.
THEOREM CalmLoads == Spec => []CalmLoadSucceeds
  <1>1. Init => CalmOK
    BY DEF Init, CalmOK
  <1>2. CalmOK => CalmLoadSucceeds
    <2> SUFFICES ASSUME CalmOK, NEW t \in calm,
                        tab[t].pc = "response", tab[t].status # 302
                 PROVE  tab[t].status =
                            IF tab[t].want.host \in Members THEN 200 ELSE 404
      BY DEF CalmLoadSucceeds
    <2>1. CalmTab(tab[t], cookie)
      BY DEF CalmOK
    <2>2. PICK b : b = tab[t]
      OBVIOUS
    <2>3. b.status = IF b.want.host \in Members THEN 200 ELSE 404
      BY <2>1, <2>2 DEF CalmTab
    <2> QED
      BY <2>2, <2>3
  <1> QED
    BY <1>1, <1>2, Initial, Inductive, CalmStep, PTL DEF Spec

-----------------------------------------------------------------------------
(* The loads of a tab that loads alone: what LoneLoadEnds rests on apart    *)
(* from fairness.                                                           *)

\* The redirects that may follow a request for an address of a kind, by the
\* session s of its host if it can be decoded.
PageHops(s) ==
    IF s # Garbled /\ s.token = None THEN 6
    ELSE IF s # Garbled /\ s.token.live THEN 1 ELSE 7
CallbackHops(s) == IF s # Garbled /\ s.proxy # None THEN 3 ELSE 2
Hops(kind, s) ==
    CASE kind = "page" -> PageHops(s)
      [] kind = "login" -> 5
      [] kind = "authorize" -> 4
      [] kind = "callback" -> CallbackHops(s)

\* Each of them is a request and a response.
Rank(b, c) ==
    IF b.pc = "response" /\ b.status # 302 THEN 1
    ELSE 2 * Hops(b.url.kind, Seen(b, c, b.url.host))
            + IF b.pc = "response" THEN 1 ELSE 0

\* The sessions that checkSession will have to replace.
Undecoded(b, c) == {h \in Hosts : Seen(b, c, h) = Garbled}

\* From tab b and cookies c to n and d, the load has come nearer to its end:
\* fewer sessions are to be replaced, or as many and fewer redirects follow.
Nearer(b, c, n, d) ==
    /\ Undecoded(n, d) \subseteq Undecoded(b, c)
    /\ Undecoded(n, d) = Undecoded(b, c) => Rank(n, d) < Rank(b, c)

\* Tab t is the only one that is loading.
Lone(t) == \A u \in Tabs : Active(u) <=> u = t

\* A step while tab t is the only one: it comes nearer, unless it is one of
\* the MaxFaults disturbances.
Advances(t) ==
    /\ faults' \in faults..MaxFaults
    /\ faults' = faults => Nearer(tab[t], cookie, tab'[t], cookie')

Kinds == {"page", "login", "authorize", "callback"}

\* There is a bound on the redirects.
LEMMA HopsRange ==
    ASSUME NEW k \in Kinds, NEW s
    PROVE  Hops(k, s) \in 1..7
  <1>1. PageHops(s) \in 1..7
    BY DEF PageHops
  <1>2. CallbackHops(s) \in 1..7
    BY DEF CallbackHops
  <1> QED
    BY <1>1, <1>2 DEF Hops, Kinds

\* The redirects on the way of a login, and those a handler saves by what it
\* changes in the session.
LEMMA HopsOrder ==
    ASSUME NEW x, NEW y
    PROVE  /\ Hops("authorize", x) < Hops("login", y)
           /\ PageHops(y) = 6 => Hops("login", x) < Hops("page", y)
           /\ PageHops(x) = 6 /\ PageHops(y) = 7 =>
                Hops("page", x) < Hops("page", y)
           /\ PageHops(x) = 1 /\ CallbackHops(y) = 2 =>
                Hops("page", x) < Hops("callback", y)
           /\ CallbackHops(x) = 2 /\ CallbackHops(y) = 3 =>
                Hops("callback", x) < Hops("callback", y)
  BY DEF Hops

\* The requests and responses before and after an answer or a redirect.
LEMMA RankOf ==
    ASSUME NEW b, NEW c, b.url.kind \in Kinds,
           NEW j, j = Hops(b.url.kind, Seen(b, c, b.url.host))
    PROVE  /\ j \in 1..7
           /\ b.pc = "request" => Rank(b, c) = 2 * j
           /\ b.pc = "response" =>
                Rank(b, c) = IF b.status # 302 THEN 1 ELSE 2 * j + 1
  <1>1. j \in 1..7
    BY HopsRange
  <1> QED
    BY <1>1 DEF Rank

\* The answers other than redirects.
Answers == {200, 401, 404, 500, 502, 503}

\* What a handler knows of a tab that asks for something.
LEMMA LoneAsked ==
    ASSUME IInv, NEW t \in Tabs, NEW b, b = tab[t], b.pc = "request"
    PROVE  /\ b \in TabRecords /\ b.set = None
           /\ b.url.kind \in Kinds /\ b.url.host \in Hosts
           /\ \A c, h : Seen(b, c, h) = c[h]
  <1>1. TabOK(b) /\ b \in TabRecords
    BY ZenonT(30) DEF IInv
  <1>2. b.set = None /\ b.url \in Urls
    BY <1>1 DEF TabOK, UrlOK
  <1>3. b.url.kind \in Kinds /\ b.url.host \in Hosts
    BY ZenonT(30), <1>2 DEF Urls, Kinds
  <1> QED
    BY <1>1, <1>2, <1>3 DEF Seen

\* A redirect to u with session s replaces a session or leaves fewer redirects
\* to follow.
Shorter(b, c, s, u) ==
    c[b.url.host] # Garbled =>
        Hops(u.kind, IF u.host = b.url.host THEN s ELSE c[u.host])
            < Hops(b.url.kind, c[b.url.host])

\* Such a response, or the last one, comes nearer.
LEMMA SavedNearer ==
    ASSUME NEW b \in TabRecords, b.pc = "request", b.set = None, NEW c,
           NEW s \in Sessions, NEW u, u.kind \in Kinds, NEW status,
           NEW n, n = Saved(b, s, u, status),
           status # 302 \/ Shorter(b, c, s, u)
    PROVE  Nearer(b, c, n, c)
  <1>1. /\ n.pc = "response" /\ n.status = status /\ n.url = u
        /\ \A h : Seen(n, c, h) = IF h = b.url.host THEN s ELSE c[h]
    BY SeenSaved
  <1>2. \A h : Seen(b, c, h) = c[h]
    BY DEF Seen
  <1>3. b.url.kind \in Kinds /\ b.url.host \in Hosts
    BY ZenonT(30) DEF TabRecords, Urls, Kinds
  <1>4. Undecoded(n, c) = Undecoded(b, c) \ {b.url.host}
    BY <1>1, <1>2, ValuesAssumption DEF Undecoded
  <1>5. PICK i, j :
            /\ i = Hops(u.kind, IF u.host = b.url.host THEN s ELSE c[u.host])
            /\ j = Hops(b.url.kind, c[b.url.host])
    BY ZenonT(30)
  <1>6. i \in 1..7 /\ j \in 1..7
    BY ZenonT(30), <1>3, <1>5, HopsRange
  <1>7. Rank(b, c) = 2 * j
    <2>1. j = Hops(b.url.kind, Seen(b, c, b.url.host))
      BY ZenonT(30), <1>2, <1>5
    <2> QED
      BY <1>3, <2>1, RankOf
  <1>8. Rank(n, c) = IF status # 302 THEN 1 ELSE 2 * i + 1
    <2>1. i = Hops(n.url.kind, Seen(n, c, n.url.host))
      BY ZenonT(30), <1>1, <1>5
    <2>2. n.url.kind \in Kinds
      BY ZenonT(30), <1>1
    <2> QED
      BY <1>1, <2>1, <2>2, RankOf
  <1>9. CASE c[b.url.host] = Garbled
    <2>1. b.url.host \in Undecoded(b, c)
      BY <1>2, <1>3, <1>9 DEF Undecoded
    <2>2. Undecoded(n, c) # Undecoded(b, c)
      BY <1>4, <2>1
    <2> QED
      BY ZenonT(30), <1>4, <2>2 DEF Nearer
  <1>10. CASE status # 302 \/ i < j
    <2>1. Rank(n, c) < Rank(b, c)
      BY <1>6, <1>7, <1>8, <1>10
    <2> QED
      BY <1>4, <2>1 DEF Nearer
  <1> QED
    BY ZenonT(30), <1>5, <1>9, <1>10 DEF Shorter

\* The same for a step of a tab.
LEMMA RedirectNearer ==
    ASSUME IInv, NEW t \in Tabs, tab[t].pc = "request", NEW s \in Sessions,
           NEW u, u.kind \in Kinds, SaveAndRedirect(t, s, u),
           cookie' = cookie, Shorter(tab[t], cookie, s, u)
    PROVE  Nearer(tab[t], cookie, tab'[t], cookie')
  <1>1. PICK b, c : b = tab[t] /\ c = cookie
    OBVIOUS
  <1>2. PICK n : n = Saved(b, s, u, 302)
    OBVIOUS
  <1>3. tab'[t] = n
    <2>1. tab' = [tab EXCEPT ![t] = Saved(tab[t], s, u, 302)]
      BY SaveForm
    <2>2. DOMAIN tab = Tabs
      BY ZenonT(30) DEF IInv
    <2> QED
      BY <1>1, <1>2, <2>1, <2>2, ZenonT(30)
  <1>4. b \in TabRecords /\ b.set = None /\ b.pc = "request"
    BY <1>1, LoneAsked
  <1>5. Shorter(b, c, s, u)
    BY ZenonT(30), <1>1
  <1>6. Nearer(b, c, n, c)
    BY ZenonT(30), <1>2, <1>4, <1>5, SavedNearer
  <1> QED
    BY ZenonT(30), <1>1, <1>3, <1>6

\* So is an answer without a new cookie.
LEMMA AnswerNearer ==
    ASSUME IInv, NEW t \in Tabs, tab[t].pc = "request",
           NEW status \in Answers, Answer(t, status), cookie' = cookie
    PROVE  Nearer(tab[t], cookie, tab'[t], cookie')
  <1>1. PICK b, c : b = tab[t] /\ c = cookie
    OBVIOUS
  <1>2. PICK n : n = [b EXCEPT !.pc = "response", !.status = status]
    OBVIOUS
  <1>3. tab'[t] = n
    BY ZenonT(30), <1>1, <1>2 DEF Answer, IInv
  <1>4. /\ b \in TabRecords /\ b.url.kind \in Kinds /\ b.pc = "request"
        /\ b.set = None /\ \A h : Seen(b, c, h) = c[h]
    BY <1>1, LoneAsked
  <1>5. n.pc = "response" /\ n.status = status /\ n.set = None
    BY ZenonT(30), <1>2, <1>4 DEF TabRecords
  <1>6. \A h : Seen(n, c, h) = c[h]
    BY ZenonT(30), <1>5 DEF Seen
  <1>7. Undecoded(n, c) = Undecoded(b, c)
    BY <1>4, <1>6 DEF Undecoded
  <1>8. PICK j : j = Hops(b.url.kind, c[b.url.host])
    BY ZenonT(30)
  <1>9. j \in 1..7
    BY ZenonT(30), <1>4, <1>8, HopsRange
  <1>10. Rank(b, c) = 2 * j
    BY <1>4, <1>8, RankOf
  <1>11. Rank(n, c) = 1
    <2>1. status # 302
      BY DEF Answers
    <2> QED
      BY ZenonT(30), <1>5, <2>1 DEF Rank
  <1>12. Rank(n, c) < Rank(b, c)
    BY <1>9, <1>10, <1>11
  <1>13. Nearer(b, c, n, c)
    BY ZenonT(30), <1>7, <1>12 DEF Nearer
  <1> QED
    BY ZenonT(30), <1>1, <1>3, <1>13

\* checkSession replaces a session, and each of the other handlers up to the
\* callback leads to the next address or answers.
LEMMA HandlerNearer ==
    ASSUME IInv, NEW t \in Tabs,
           \/ checkSession(t) \/ ProxyAuthToGitlab(t) \/ CallbackError(t)
           \/ destroySession(t) \/ checkAuthentication(t)
           \/ HandleArtifactRequest(t)
    PROVE  Nearer(tab[t], cookie, tab'[t], cookie')
  <1>1. PICK b, c, a : b = tab[t] /\ c = cookie /\ a = c[b.url.host]
    OBVIOUS
  <1>2. cookie' = cookie /\ b.pc = "request"
    BY <1>1 DEF checkSession, ProxyAuthToGitlab, CallbackError, destroySession,
           checkAuthentication, HandleArtifactRequest, HasSession, Asks
  <1>3. /\ b \in TabRecords /\ b.url.kind \in Kinds
        /\ a # Garbled => a \in Sessions
    BY ZenonT(30), <1>1, <1>2, LoneAsked, Asked DEF Session
  <1>4. ASSUME NEW s \in Sessions, NEW u, u.kind \in Kinds,
               SaveAndRedirect(t, s, u),
               Shorter(b, c, s, u)
        PROVE  Nearer(tab[t], cookie, tab'[t], cookie')
    BY ZenonT(30), <1>1, <1>2, <1>4, RedirectNearer
  <1>5. ASSUME NEW status \in Answers, Answer(t, status)
        PROVE  Nearer(tab[t], cookie, tab'[t], cookie')
    BY <1>1, <1>2, <1>5, AnswerNearer
  <1>6. CASE checkSession(t)
    <2>1. SaveAndRedirect(t, NoValues, b.url) /\ a = Garbled
      BY ZenonT(30), <1>1, <1>6 DEF checkSession, Session
    <2>2. NoValues \in Sessions
      BY ZenonT(30), NoValuesOwn DEF Own
    <2>3. Shorter(b, c, NoValues, b.url)
      BY ZenonT(30), <1>1, <2>1 DEF Shorter
    <2> QED
      BY ZenonT(30), <1>3, <1>4, <2>1, <2>2, <2>3
  <1>7. CASE ProxyAuthToGitlab(t)
    <2>1. PICK s, u : /\ s = [a EXCEPT !.proxy = b.url.domain]
                      /\ u = AuthorizeUrl(b.url.state)
      BY Zenon
    <2>2. /\ a # Garbled /\ b.url.kind = "login"
          /\ SaveAndRedirect(t, s, u) \/ Answer(t, 401)
      BY <1>1, <1>7, <2>1 DEF ProxyAuthToGitlab, HasSession, Asks, Session
    <2>3. b.url.domain \in Hosts
      BY ZenonT(30), <1>1, <2>2, Asked DEF UrlOK
    <2>4. s \in Sessions
      BY <1>3, <2>1, <2>2, <2>3 DEF Sessions
    <2>5. u.kind = "authorize"
      BY <2>1 DEF AuthorizeUrl
    <2>6. /\ u.kind \in Kinds
          /\ \A x : Hops(u.kind, x) < Hops(b.url.kind, a)
      BY ZenonT(30), <2>2, <2>5, HopsOrder DEF Kinds
    <2>7. Shorter(b, c, s, u)
      BY <1>1, <2>6 DEF Shorter
    <2>8. CASE SaveAndRedirect(t, s, u)
      BY ZenonT(30), <1>4, <2>4, <2>6, <2>7, <2>8
    <2>9. CASE Answer(t, 401)
      BY ZenonT(30), <1>5, <2>9 DEF Answers
    <2> QED
      BY <2>2, <2>8, <2>9
  <1>8. CASE CallbackError(t)
    BY ZenonT(30), <1>5, <1>8 DEF CallbackError, Answers
  <1>9. CASE destroySession(t)
    <2>1. PICK s : s = [a EXCEPT !.token = None]
      BY Zenon
    <2>2. /\ a # Garbled /\ b.url.kind = "page" /\ SaveAndRedirect(t, s, b.url)
          /\ a.token # None /\ ~a.token.live
      BY ZenonT(30), <1>1, <1>9, <2>1
         DEF destroySession, HasSession, Asks, Session,
             InvalidToken, HasToken
    <2>3. s \in Sessions /\ s.token = None
      BY ZenonT(30), <1>3, <2>1, <2>2 DEF Sessions
    <2>4. PageHops(s) = 6 /\ PageHops(a) = 7
      BY ZenonT(30), <2>2, <2>3, ValuesAssumption DEF PageHops
    <2>5. Shorter(b, c, s, b.url)
      BY ZenonT(30), <1>1, <2>2, <2>4, HopsOrder DEF Shorter
    <2> QED
      BY ZenonT(30), <1>3, <1>4, <2>2, <2>3, <2>5
  <1>10. CASE checkAuthentication(t)
    <2>1. \E status \in {200, 404} : Answer(t, status)
      BY ZenonT(60), <1>10 DEF checkAuthentication
    <2>2. PICK status \in {200, 404} : Answer(t, status)
      BY ZenonT(30), <2>1
    <2>3. status \in Answers
      BY ZenonT(30) DEF Answers
    <2> QED
      BY ZenonT(30), <1>5, <2>2, <2>3
  <1>11. CASE HandleArtifactRequest(t)
    <2>1. makeRequest(t)
      BY Zenon, <1>11 DEF HandleArtifactRequest
    <2>2. \/ \E status \in {200, 404} : Answer(t, status)
          \/ \E status \in {500, 502} : Answer(t, status)
      BY ZenonT(60), <2>1 DEF makeRequest
    <2>3. ASSUME NEW status \in {200, 404}, Answer(t, status)
          PROVE  Nearer(tab[t], cookie, tab'[t], cookie')
      <3>1. status \in Answers
        BY ZenonT(30) DEF Answers
      <3> QED
        BY ZenonT(30), <1>5, <2>3, <3>1
    <2>4. ASSUME NEW status \in {500, 502}, Answer(t, status)
          PROVE  Nearer(tab[t], cookie, tab'[t], cookie')
      <3>1. status \in Answers
        BY ZenonT(30) DEF Answers
      <3> QED
        BY ZenonT(30), <1>5, <2>4, <3>1
    <2> QED
      BY ZenonT(30), <2>2, <2>3, <2>4
  <1> QED
    BY ZenonT(30), <1>6, <1>7, <1>8, <1>9, <1>10, <1>11

\* The auth host clears the domain it has proxied for, so that the callback
\* is not proxied again.
LEMMA CallbackNearer ==
    ASSUME IInv, NEW t \in Tabs, ProxyCallbackToCustomDomain(t)
    PROVE  Nearer(tab[t], cookie, tab'[t], cookie')
  <1>1. PICK b, c, a : b = tab[t] /\ c = cookie /\ a = c[b.url.host]
    OBVIOUS
  <1>2. PICK s : s = [a EXCEPT !.proxy = None]
    BY ZenonT(30)
  <1>3. /\ cookie' = cookie /\ b.pc = "request" /\ b.url.kind = "callback"
        /\ a # Garbled /\ a.proxy # None
    BY <1>1 DEF ProxyCallbackToCustomDomain, HasSession, Asks, Session
  <1>4. a \in Sessions /\ b \in TabRecords
    BY ZenonT(30), <1>1, <1>3, LoneAsked, Asked DEF Session
  <1>5. s \in Sessions /\ s.proxy = None /\ a.proxy \in Hosts
    BY ZenonT(30), <1>2, <1>3, <1>4 DEF Sessions
  <1>6. CASE b.url.code = Denied
    <2>1. PICK set, status :
            set = [host |-> b.url.host, session |-> s] /\ status = 503
      BY ZenonT(30)
    <2>2. PICK n : n = [b EXCEPT !.pc = "response", !.status = status,
                                 !.set = set]
      OBVIOUS
    <2>3. tab'[t] = n
      BY SMTT(60), <1>1, <1>2, <1>6, <2>1, <2>2
         DEF ProxyCallbackToCustomDomain, Session, IInv
    <2>4. n = Saved(b, s, b.url, status)
      <3>1. PICK u : u = b.url
        OBVIOUS
      <3>2. n = [b EXCEPT !.pc = "response", !.status = status, !.url = u,
                          !.set = set]
        BY ZenonT(30), <1>4, <2>2, <3>1 DEF TabRecords
      <3> QED
        BY <2>1, <3>1, <3>2 DEF Saved
    <2>5. b.url.kind \in Kinds /\ b.set = None /\ status # 302
      BY <1>1, <1>3, <2>1, LoneAsked
    <2>6. Nearer(b, c, n, c)
      BY <1>3, <1>4, <1>5, <2>4, <2>5, SavedNearer
    <2> QED
      BY <1>1, <1>3, <2>3, <2>6
  <1>7. CASE b.url.code # Denied
    <2>1. PICK u : u = CallbackUrl(a.proxy, b.url.state,
                                   EncryptAndSignCode(a.proxy, b.url.code))
      OBVIOUS
    <2>2. SaveAndRedirect(t, s, u)
      BY ZenonT(30), <1>1, <1>2, <1>7, <2>1
         DEF ProxyCallbackToCustomDomain, Session
    <2>3. u.kind = "callback" /\ u.host = a.proxy
      BY <2>1 DEF CallbackUrl
    <2>4. PICK x : x = IF u.host = b.url.host THEN s ELSE c[u.host]
      OBVIOUS
    <2>5. x = Garbled \/ x.proxy = None
      <3>1. b.url.host # AuthHost => a.proxy = None
        BY ZenonT(30), <1>1, <1>3, Asked DEF Own, Session
      <3>2. b.url.host = AuthHost
        BY <1>3, <3>1
      <3>3. CASE u.host = b.url.host
        BY ZenonT(30), <1>5, <2>4, <3>3
      <3>4. CASE u.host # b.url.host
        BY ZenonT(30), <1>1, <1>5, <2>3, <2>4, <3>2, <3>4 DEF IInv, Own
      <3> QED
        BY <3>3, <3>4
    <2>6. CallbackHops(x) = 2 /\ CallbackHops(a) = 3
      BY <1>3, <2>5 DEF CallbackHops
    <2>7. u.kind \in Kinds /\ Hops(u.kind, x) < Hops(b.url.kind, a)
      BY ZenonT(30), <1>3, <2>3, <2>6, HopsOrder DEF Kinds
    <2>8. Shorter(b, c, s, u)
      BY <1>1, <2>4, <2>7 DEF Shorter
    <2> QED
      BY ZenonT(30), <1>1, <1>3, <1>5, <2>2, <2>7, <2>8, RedirectNearer
  <1> QED
    BY <1>6, <1>7

\* The callback at the site leads to the page, with a live token.
LEMMA TokenNearer ==
    ASSUME IInv, NEW t \in Tabs, checkAuthenticationResponse(t)
    PROVE  Nearer(tab[t], cookie, tab'[t], cookie')
  <1>1. PICK b, c, a : b = tab[t] /\ c = cookie /\ a = c[b.url.host]
    OBVIOUS
  <1>2. /\ cookie' = cookie /\ b.pc = "request" /\ b.url.kind = "callback"
        /\ a # Garbled /\ a.proxy = None /\ b.url.code # Denied
    <2>1. /\ HasSession(t, "callback") /\ Session(t).proxy = None
          /\ tab[t].url.code # Denied /\ cookie' = cookie
      BY ZenonT(60) DEF checkAuthenticationResponse
    <2> QED
      BY ZenonT(60), <1>1, <2>1 DEF HasSession, Asks, Session
  <1>3. CASE \E status \in {401, 500, 503} : Answer(t, status)
    <2>1. PICK status \in {401, 500, 503} : Answer(t, status)
      BY ZenonT(30), <1>3
    <2>2. status \in Answers
      BY ZenonT(30) DEF Answers
    <2> QED
      BY ZenonT(30), <1>1, <1>2, <2>1, <2>2, AnswerNearer
  <1>4. CASE SaveAndRedirect(t, [a EXCEPT !.token = TokenOf(b.url.code)],
                                PageUrl(b.url.host, a.page))
    <2>1. PICK s, u, k : /\ k = TokenOf(b.url.code)
                         /\ s = [a EXCEPT !.token = k]
                         /\ u = PageUrl(b.url.host, a.page)
      BY Zenon
    <2>2. a \in Sessions /\ b.url.code \in Codes
      BY ZenonT(30), <1>1, <1>2, Asked DEF Session, UrlOK
    <2>3. k \in Tokens /\ k.live = TRUE
      BY <2>1, <2>2 DEF TokenOf, Tokens, Codes
    <2>4. k # None
      BY <2>3, ValuesAssumption
    <2>5. s \in Sessions /\ s.token = k
      BY <2>1, <2>2, <2>3 DEF Sessions
    <2>6. u.kind = "page" /\ u.host = b.url.host
      BY ZenonT(30), <2>1 DEF PageUrl
    <2>7. PageHops(s) = 1 /\ CallbackHops(a) = 2
      BY ZenonT(30), <1>2, <2>3, <2>4, <2>5, ValuesAssumption
         DEF PageHops, CallbackHops
    <2>8. Shorter(b, c, s, u) /\ u.kind \in Kinds
      BY ZenonT(30), <1>1, <1>2, <2>6, <2>7, HopsOrder DEF Shorter, Kinds
    <2>9. SaveAndRedirect(t, s, u)
      BY <1>4, <2>1
    <2> QED
      BY ZenonT(30), <1>1, <1>2, <2>5, <2>8, <2>9, RedirectNearer
  <1>5. \/ \E status \in {401, 500, 503} : Answer(t, status)
        \/ SaveAndRedirect(t, [a EXCEPT !.token = TokenOf(b.url.code)],
                              PageUrl(b.url.host, a.page))
    <2>1. Session(t) = a
      BY <1>1 DEF Session
    <2>2. \/ \E status \in {401, 500, 503} : Answer(t, status)
          \/ SaveAndRedirect(t, [Session(t) EXCEPT !.token = TokenOf(tab[t].url.code)],
                                PageUrl(tab[t].url.host, Session(t).page))
      BY SMTT(60) DEF checkAuthenticationResponse
    <2> QED
      BY ZenonT(60), <1>1, <2>1, <2>2
  <1> QED
    BY <1>3, <1>4, <1>5

\* A login starts where the session has no token.
LEMMA LoginNearer ==
    ASSUME IInv, NEW t \in Tabs, checkTokenExists(t)
    PROVE  Nearer(tab[t], cookie, tab'[t], cookie')
  <1>1. PICK b, c, a : b = tab[t] /\ c = cookie /\ a = c[b.url.host]
    OBVIOUS
  <1>2. PICK id, state, s, u :
            /\ id = CHOOSE n \in 1..MaxStates : n \notin InUse
            /\ state = [id |-> id, host |-> b.url.host]
            /\ s = [a EXCEPT !.state = state, !.page = b.url.page,
                             !.proxy = None]
            /\ u = LoginUrl(b.url.host, state)
    BY ZenonT(30)
  <1>3. /\ cookie' = cookie /\ b.pc = "request" /\ b.url.kind = "page"
        /\ a # Garbled /\ a.token = None /\ SaveAndRedirect(t, s, u)
    BY <1>1, <1>2 DEF checkTokenExists, HasSession, Asks, Session, HasToken
  <1>4. state \in States
    <2>1. id \in 1..MaxStates
      BY <1>2, FreshState
    <2> QED
      BY <1>1, <1>2, <2>1, Asked DEF States
  <1>5. s \in Sessions
    <2>1. a \in Sessions /\ b.url.page \in Pages \cup {None}
      BY ZenonT(30), <1>1, <1>3, Asked DEF Session, Urls
    <2> QED
      BY ZenonT(30), <1>2, <1>4, <2>1 DEF Sessions
  <1>6. u.kind = "login" /\ PageHops(a) = 6
    BY <1>2, <1>3 DEF LoginUrl, PageHops
  <1>7. Shorter(b, c, s, u) /\ u.kind \in Kinds
    BY ZenonT(30), <1>1, <1>3, <1>6, HopsOrder DEF Shorter, Kinds
  <1> QED
    BY <1>1, <1>3, <1>5, <1>7, RedirectNearer

\* GitLab sends the tab to the callback of the auth host.
LEMMA AuthorizeNearer ==
    ASSUME IInv, NEW t \in Tabs, Authorize(t)
    PROVE  Nearer(tab[t], cookie, tab'[t], cookie')
  <1>1. PICK b, c : b = tab[t] /\ c = cookie
    OBVIOUS
  <1>2. PICK u : /\ u.kind = "callback"
                 /\ tab' = [tab EXCEPT ![t].url = u] /\ cookie' = cookie
                 /\ b.url.kind = "authorize" /\ b.pc = "request"
    BY ZenonT(90), <1>1 DEF Authorize, Asks, CallbackUrl
  <1>3. PICK n : n = [b EXCEPT !.url = u]
    BY Zenon
  <1>4. tab'[t] = n
    BY <1>1, <1>2, <1>3 DEF IInv
  <1>5. b \in TabRecords /\ b.set = None
    BY <1>1, <1>2, LoneAsked
  <1>6. n.pc = "request" /\ n.set = None /\ n.url = u
    BY <1>2, <1>3, <1>5 DEF TabRecords
  <1>7. \A h : Seen(n, c, h) = c[h] /\ Seen(b, c, h) = c[h]
    BY <1>5, <1>6 DEF Seen
  <1>8. Undecoded(n, c) = Undecoded(b, c)
    BY <1>7 DEF Undecoded
  <1>9. Rank(b, c) = 8
    BY <1>2 DEF Rank, Hops
  <1>10. Rank(n, c) < 8
    <2>1. CallbackHops(c[u.host]) \in {2, 3}
      BY DEF CallbackHops
    <2> QED
      BY <1>2, <1>6, <1>7, <2>1 DEF Rank, Hops
  <1> QED
    BY <1>1, <1>2, <1>4, <1>8, <1>9, <1>10 DEF Nearer

\* The browser follows a redirect with the cookie it came with.
LEMMA ReceiveNearer ==
    ASSUME IInv, NEW t \in Tabs, Receive(t), Active(t)'
    PROVE  Nearer(tab[t], cookie, tab'[t], cookie')
  <1>1. PICK b, n, c, d :
            /\ b = tab[t] /\ c = cookie /\ d = cookie'
            /\ n = [b EXCEPT !.pc = "request", !.set = None, !.status = 0]
    BY Zenon
  <1>2. b.pc = "response" /\ b.status = 302
    <2>1. Done.pc = "done"
      BY DEF Done, Idle
    <2> QED
      BY <1>1, <2>1 DEF Receive, Active, IInv
  <1>3. tab'[t] = n
    BY <1>1, <1>2 DEF Receive, IInv
  <1>4. b \in TabRecords
    BY <1>1 DEF IInv
  <1>5. n.pc = "request" /\ n.set = None /\ n.url = b.url
    BY <1>1, <1>4 DEF TabRecords
  <1>6. \A h \in Hosts : Seen(n, d, h) = Seen(b, c, h)
    <2>1. \A h \in Hosts : Seen(n, cookie', h) = Seen(tab[t], cookie, h)
      BY <1>5, SeenReceived
    <2> QED
      BY ZenonT(30), <1>1, <2>1
  <1>7. b.url.host \in Hosts /\ b.url.kind \in Kinds
    BY <1>4 DEF TabRecords, Urls, Kinds
  <1>8. Undecoded(n, d) = Undecoded(b, c)
    BY <1>6 DEF Undecoded
  <1>9. PICK j : j = Hops(b.url.kind, Seen(b, c, b.url.host))
    OBVIOUS
  <1>10. j \in 1..7
    BY ZenonT(30), <1>7, <1>9, HopsRange
  <1>11. Rank(b, c) = 2 * j + 1 /\ Rank(n, d) = 2 * j
    BY <1>2, <1>5, <1>6, <1>7, <1>9, <1>10 DEF Rank
  <1> QED
    BY <1>1, <1>3, <1>8, <1>10, <1>11 DEF Nearer

\* While one tab is loading alone, each step brings its load nearer to the end
\* or is one of finitely many disturbances from outside: the redirects between
\* the site, the auth host and GitLab cannot go round in a circle.
THEOREM LoneLoadAdvances ==
    Spec => [][\A t \in Tabs : Lone(t) /\ Lone(t)' => Advances(t)]_vars
  <1> DEFINE Bounded == faults \in 0..MaxFaults
             Forward == \A t \in Tabs : Lone(t) /\ Lone(t)' => Advances(t)
  <1>1. Init => Bounded
    BY AuthAssumption DEF Init
  <1>2. IInv /\ Bounded /\ [Next]_vars => Bounded' /\ faults' \in {faults, faults + 1}
    <2> SUFFICES ASSUME IInv, Bounded, [Next]_vars
                 PROVE  Bounded' /\ faults' \in {faults, faults + 1}
      OBVIOUS
    <2>1. faults' = faults \/ Fault
      <3>1. ASSUME NEW t \in Tabs, Step(t) PROVE faults' = faults \/ Fault
        <4>1. CASE \/ Receive(t) \/ checkSession(t) \/ ProxyAuthToGitlab(t)
                   \/ ProxyCallbackToCustomDomain(t) \/ CallbackError(t)
          BY ZenonT(60), <4>1 DEF Receive, checkSession, ProxyAuthToGitlab,
             ProxyCallbackToCustomDomain, CallbackError, NoFault
        <4>2. CASE checkAuthenticationResponse(t)
          BY ZenonT(60), <4>2 DEF checkAuthenticationResponse, NoFault
        <4>3. CASE \/ checkTokenExists(t) \/ destroySession(t)
                   \/ checkAuthentication(t)
          BY ZenonT(60), <4>3
             DEF checkTokenExists, destroySession, checkAuthentication, NoFault
        <4>4. CASE HandleArtifactRequest(t) \/ Authorize(t)
          BY ZenonT(60), <4>4
             DEF HandleArtifactRequest, makeRequest, Authorize, NoFault
        <4> QED
          BY <3>1, <4>1, <4>2, <4>3, <4>4 DEF Step
      <3>2. ASSUME NEW t \in Tabs, Load(t) PROVE faults' = faults
        BY <3>2 DEF Load
      <3>3. ASSUME NEW h \in Hosts, Expire(h) PROVE Fault
        BY <3>3 DEF Expire
      <3>4. CASE Revoke
        BY <3>4 DEF Revoke
      <3> QED
        BY ZenonT(30), <3>1, <3>2, <3>3, <3>4 DEF Next, vars
    <2> QED
      BY <2>1, AuthAssumption DEF Fault
  <1>3. IInv /\ Bounded /\ [Next]_vars => [Forward]_vars
    <2> SUFFICES ASSUME IInv, Bounded, Next, NEW t \in Tabs, Lone(t), Lone(t)'
                 PROVE  Advances(t)
      BY DEF vars
    <2>1. faults' \in faults..MaxFaults
      BY <1>2
    <2>2. CASE \E u \in Tabs : Load(u)
      <3>1. PICK u \in Tabs : Load(u)
        BY <2>2
      <3>2. ~Active(u) /\ Active(u)'
        BY ZenonT(30), <3>1, CalmLoad DEF Load, Active, CalmTab, IInv
      <3> QED
        BY <3>2 DEF Lone
    <2>3. CASE \E u \in Tabs : Step(u)
      <3>1. PICK u \in Tabs : Step(u)
        BY <2>3
      <3>2. u = t /\ Active(t)'
        BY <3>1, StepFrame DEF Lone
      <3>3. Nearer(tab[t], cookie, tab'[t], cookie')
        BY ZenonT(30), <3>1, <3>2, HandlerNearer,
           CallbackNearer, TokenNearer, LoginNearer,
           AuthorizeNearer, ReceiveNearer DEF Step
      <3> QED
        BY ZenonT(30), <2>1, <3>3 DEF Advances
    <2>4. CASE (\E h \in Hosts : Expire(h)) \/ Revoke
      <3>1. faults' = faults + 1
        BY <2>4 DEF Expire, Revoke, Fault
      <3>2. faults' # faults
        BY <3>1
      <3> QED
        BY <2>1, <3>2 DEF Advances
    <2> QED
      BY <2>2, <2>3, <2>4 DEF Next
  <1> QED
    BY <1>1, <1>2, <1>3, Initial, Inductive, PTL DEF Spec

=============================================================================
