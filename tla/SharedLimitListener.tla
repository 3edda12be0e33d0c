------------------------ MODULE SharedLimitListener ------------------------
(***************************************************************************)
(* internal/netutil/shared_limit_listener.go: several listeners accept     *)
(* connections only while a shared pool of slots permits it.               *)
(*                                                                         *)
(* Each listener has the accept loop of http.Server.Serve (listenAndServe  *)
(* in server.go), may be closed by anybody, and each accepted connection   *)
(* may be closed by several goroutines at once. The gauges are left out.   *)
(***************************************************************************)
EXTENDS Naturals, FiniteSets

CONSTANTS
    N,           \* capacity of the channel Limiter.sem
    Listeners,   \* listeners that share the limiter
    Conns,       \* connection objects, reused once collected
    Closers,     \* goroutines that may close the same connection
    MaxBacklog,  \* bound: connections waiting in the kernel per listener
    None

ASSUME LimiterAssumption ==
    /\ N \in Nat
    /\ MaxBacklog \in Nat
    /\ IsFiniteSet(Listeners)
    /\ IsFiniteSet(Conns)
    /\ Listeners \cap Conns = {}
    /\ None \notin Listeners

VARIABLES
    sem,       \* number of elements in the channel Limiter.sem
    backlog,   \* connections the kernel has for a listener
    closed,    \* the embedded net.Listener is closed
    done,      \* the channel done is closed
    accept,    \* the accept loop of a listener
    acquired,  \* the local variable of Accept
    owner,     \* the listener that accepted a connection, None if no object
    once,      \* releaseOnce of a connection
    closer     \* progress of each call of Close on a connection

vars == <<sem, backlog, closed, done, accept, acquired, owner, once, closer>>

Init ==
    /\ sem = 0
    /\ backlog = [l \in Listeners |-> 0]
    /\ closed = [l \in Listeners |-> FALSE]
    /\ done = [l \in Listeners |-> FALSE]
    /\ accept = [l \in Listeners |-> "idle"]
    /\ acquired = [l \in Listeners |-> FALSE]
    /\ owner = [k \in Conns |-> None]
    /\ once = [k \in Conns |-> "new"]
    /\ closer = [k \in Conns |-> [x \in Closers |-> "out"]]

\* A client connects; the kernel queues the connection.
Dial(l) ==
    /\ ~closed[l]
    /\ backlog[l] < MaxBacklog
    /\ backlog' = [backlog EXCEPT ![l] = @ + 1]
    /\ UNCHANGED <<sem, closed, done, accept, acquired, owner, once, closer>>

-----------------------------------------------------------------------------
(* Accept, called in the loop of http.Server.Serve.                        *)

BeginAccept(l) ==
    /\ accept[l] = "idle"
    /\ accept' = [accept EXCEPT ![l] = "acquire"]
    /\ UNCHANGED <<sem, backlog, closed, done, acquired, owner, once, closer>>

\* Slip: room for one more than N.
AcquireOneMore(l) ==
    /\ accept[l] = "acquire"
    /\ sem <= N
    /\ sem' = sem + 1
    /\ acquired' = [acquired EXCEPT ![l] = TRUE]
    /\ accept' = [accept EXCEPT ![l] = "accept"]
    /\ UNCHANGED <<backlog, closed, done, owner, once, closer>>

\* Slip: acquire does not look at done.
AcquireBlocking(l) ==
    /\ accept[l] = "acquire"
    /\ sem < N
    /\ sem' = sem + 1
    /\ acquired' = [acquired EXCEPT ![l] = TRUE]
    /\ accept' = [accept EXCEPT ![l] = "accept"]
    /\ UNCHANGED <<backlog, closed, done, owner, once, closer>>

\* acquire: the select takes either ready case.
Acquire(l) ==
    /\ accept[l] = "acquire"
    /\ \/ /\ sem < N
          /\ sem' = sem + 1
          /\ acquired' = [acquired EXCEPT ![l] = TRUE]
       \/ /\ done[l]
          /\ acquired' = [acquired EXCEPT ![l] = FALSE]
          /\ UNCHANGED sem
    /\ accept' = [accept EXCEPT ![l] = "accept"]
    /\ UNCHANGED <<backlog, closed, done, owner, once, closer>>

\* l.Listener.Accept() succeeds and the connection is wrapped.
Accepted(l, k) ==
    /\ accept[l] = "accept"
    /\ ~closed[l]
    /\ backlog[l] > 0
    /\ owner[k] = None
    /\ backlog' = [backlog EXCEPT ![l] = @ - 1]
    /\ owner' = [owner EXCEPT ![k] = l]
    /\ accept' = [accept EXCEPT ![l] = "idle"]
    /\ UNCHANGED <<sem, closed, done, acquired, once, closer>>

\* <-l.limiter.sem
release ==
    /\ sem > 0
    /\ sem' = sem - 1

\* l.Listener.Accept() fails. Serve tries again after a temporary error; any
\* other error, which is what a closed listener returns, ends its loop.
AcceptFailed(l) ==
    /\ accept[l] = "accept"
    /\ \/ acquired[l] /\ release
       \/ ~acquired[l] /\ UNCHANGED sem
    /\ \/ accept' = [accept EXCEPT ![l] = "stopped"]
       \/ ~closed[l] /\ accept' = [accept EXCEPT ![l] = "idle"]
    /\ UNCHANGED <<backlog, closed, done, acquired, owner, once, closer>>

-----------------------------------------------------------------------------
(* Close of a listener: first the embedded listener, then, once, done.     *)

CloseListener(l) ==
    /\ ~closed[l]
    /\ closed' = [closed EXCEPT ![l] = TRUE]
    /\ backlog' = [backlog EXCEPT ![l] = 0]
    /\ UNCHANGED <<sem, done, accept, acquired, owner, once, closer>>

\* Slip: Close closes done before the embedded listener.
CloseDoneFirst(l) ==
    /\ ~done[l]
    /\ done' = [done EXCEPT ![l] = TRUE]
    /\ UNCHANGED <<sem, backlog, closed, accept, acquired, owner, once, closer>>

CloseDone(l) ==
    /\ closed[l]
    /\ ~done[l]
    /\ done' = [done EXCEPT ![l] = TRUE]
    /\ UNCHANGED <<sem, backlog, closed, accept, acquired, owner, once, closer>>

-----------------------------------------------------------------------------
(* Close of a connection.                                                  *)

\* c.Conn.Close()
CloseConn(k, x) ==
    /\ owner[k] # None
    /\ closer[k][x] = "out"
    /\ closer' = [closer EXCEPT ![k][x] = "once"]
    /\ UNCHANGED <<sem, backlog, closed, done, accept, acquired, owner, once>>

\* Slip: release without releaseOnce.
EnterAlways(k, x) ==
    /\ closer[k][x] = "once"
    /\ once' = [once EXCEPT ![k] = "running"]
    /\ closer' = [closer EXCEPT ![k][x] = "release"]
    /\ UNCHANGED <<sem, backlog, closed, done, accept, acquired, owner>>

\* c.releaseOnce.Do(c.release): the first caller runs release ...
EnterOnce(k, x) ==
    /\ closer[k][x] = "once"
    /\ once[k] = "new"
    /\ once' = [once EXCEPT ![k] = "running"]
    /\ closer' = [closer EXCEPT ![k][x] = "release"]
    /\ UNCHANGED <<sem, backlog, closed, done, accept, acquired, owner>>

ReleaseConn(k, x) ==
    /\ closer[k][x] = "release"
    /\ release
    /\ once' = [once EXCEPT ![k] = "done"]
    /\ closer' = [closer EXCEPT ![k][x] = "out"]
    /\ UNCHANGED <<backlog, closed, done, accept, acquired, owner>>

\* ... and the others return when it is done.
SkipOnce(k, x) ==
    /\ closer[k][x] = "once"
    /\ once[k] = "done"
    /\ closer' = [closer EXCEPT ![k][x] = "out"]
    /\ UNCHANGED <<sem, backlog, closed, done, accept, acquired, owner, once>>

\* A closed connection nobody uses any more is garbage.
Collect(k) ==
    /\ once[k] = "done"
    /\ \A x \in Closers : closer[k][x] = "out"
    /\ owner' = [owner EXCEPT ![k] = None]
    /\ once' = [once EXCEPT ![k] = "new"]
    /\ UNCHANGED <<sem, backlog, closed, done, accept, acquired, closer>>

-----------------------------------------------------------------------------
Serve(l) ==
    \/ BeginAccept(l)
    \/ Acquire(l)
    \/ \E k \in Conns : Accepted(l, k)

CloseReturn(k, x) ==
    \/ EnterOnce(k, x)
    \/ ReleaseConn(k, x)
    \/ SkipOnce(k, x)

Next ==
    \/ \E l \in Listeners :
        Dial(l) \/ Serve(l) \/ AcceptFailed(l) \/ CloseListener(l) \/ CloseDone(l)
    \/ \E k \in Conns, x \in Closers : CloseConn(k, x) \/ CloseReturn(k, x)
    \/ \E k \in Conns : Collect(k)

Spec == Init /\ [][Next]_vars

\* The accept loop and a call of Close run on; Accept of a closed listener
\* returns; a second Close of a listener still closes done. Nothing obliges
\* anybody to close a connection or a listener.
Fairness ==
    /\ \A l \in Listeners :
        /\ WF_vars(Serve(l))
        /\ WF_vars(closed[l] /\ AcceptFailed(l))
        /\ WF_vars(CloseDone(l))
    /\ \A k \in Conns, x \in Closers : WF_vars(CloseReturn(k, x))

FairSpec == Spec /\ Fairness

-----------------------------------------------------------------------------
(* Properties.                                                             *)

\* Every variable keeps its type; the channel never holds more than N.
TypeOK ==
    /\ sem \in 0..N
    /\ backlog \in [Listeners -> 0..MaxBacklog]
    /\ closed \in [Listeners -> BOOLEAN]
    /\ done \in [Listeners -> BOOLEAN]
    /\ accept \in [Listeners -> {"idle", "acquire", "accept", "stopped"}]
    /\ acquired \in [Listeners -> BOOLEAN]
    /\ owner \in [Conns -> Listeners \cup {None}]
    /\ once \in [Conns -> {"new", "running", "done"}]
    /\ closer \in [Conns -> [Closers -> {"out", "once", "release"}]]

\* Those that have to hold a slot: an Accept between acquire and its return,
\* and a connection until releaseOnce has run.
Accepting == {l \in Listeners : accept[l] = "accept" /\ acquired[l]}

Unreleased == {k \in Conns : owner[k] # None /\ once[k] # "done"}

Slots == Accepting \cup Unreleased

\* The channel holds exactly one element for each of them: no path through
\* Accept, Close of the listener and concurrent Closes of a connection loses
\* a slot or gives one back twice. Accept wraps a connection without looking
\* at acquired, so this rests on Close closing the listener before done.
SlotsAccounted == sem = Cardinality(Slots)

\* All listeners together never have more than N connections whose slot has
\* not been given back.
ConnsWithinLimit == Cardinality(Unreleased) <= N

\* The listeners implement a pool of N slots.
Pool == INSTANCE SlotPool WITH Holders <- Listeners \cup Conns, held <- Slots

PoolSpec == Pool!Spec

\* Close of a connection returns: the receive in release never finds the
\* channel empty and no caller waits forever for releaseOnce.
ConnCloseReturns ==
    \A k \in Conns, x \in Closers :
        closer[k][x] # "out" ~> closer[k][x] = "out"

\* Close of a listener ends its accept loop, also one that waits for a slot
\* no connection ever gives back.
ListenerCloseEndsServe ==
    \A l \in Listeners : closed[l] ~> accept[l] = "stopped"
=============================================================================
