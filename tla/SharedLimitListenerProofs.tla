--------------------- MODULE SharedLimitListenerProofs ---------------------
(***************************************************************************)
(* The connection limit for any number of slots, listeners, connections    *)
(* and closing goroutines.                                                 *)
(***************************************************************************)
EXTENDS SharedLimitListener, FiniteSetTheorems, TLAPS

\* The protocol around a slot: done follows the closing of the listener, so
\* that an Accept without a slot finds its listener closed; a connection's
\* release runs in at most one goroutine, exactly while its Once is running.
ReleaseProtocol ==
    /\ \A l \in Listeners : done[l] => closed[l]
    /\ \A l \in Listeners : accept[l] = "accept" /\ ~acquired[l] => closed[l]
    /\ \A k \in Conns : owner[k] = None =>
            once[k] = "new" /\ \A x \in Closers : closer[k][x] = "out"
    /\ \A k \in Conns, x \in Closers :
            closer[k][x] = "release" => once[k] = "running"
    /\ \A k \in Conns : once[k] = "running" =>
            \E x \in Closers : closer[k][x] = "release"
    /\ \A k \in Conns, x, y \in Closers :
            closer[k][x] = "release" /\ closer[k][y] = "release" => x = y

IndInv == TypeOK /\ ReleaseProtocol /\ SlotsAccounted

-----------------------------------------------------------------------------
\* What holds slots is finite, so that its cardinality is a number.
LEMMA SlotsFinite == IsFiniteSet(Slots) /\ Cardinality(Slots) \in Nat
<1>1. IsFiniteSet(Listeners \cup Conns)
  BY Zenon, LimiterAssumption, FS_Union
<1>2. Slots \in SUBSET (Listeners \cup Conns)
  BY DEF Slots, Accepting, Unreleased
<1>3. QED
  BY <1>1, <1>2, FS_Subset, FS_CardinalityType

\* The variables of the slots keep their types.
LEMMA TypeStep == TypeOK /\ [Next]_vars => TypeOK'
<1> SUFFICES ASSUME TypeOK, [Next]_vars PROVE TypeOK'
  OBVIOUS
<1> USE LimiterAssumption DEF TypeOK
<1>1. ASSUME NEW l \in Listeners, Dial(l) PROVE TypeOK'
  BY <1>1 DEF Dial
<1>2. ASSUME NEW l \in Listeners, BeginAccept(l) PROVE TypeOK'
  BY <1>2 DEF BeginAccept
<1>3. ASSUME NEW l \in Listeners, Acquire(l) PROVE TypeOK'
  <2>1. sem' \in 0..N
    BY <1>3 DEF Acquire
  <2>2. acquired' \in [Listeners -> BOOLEAN]
    BY Zenon, <1>3 DEF Acquire
  <2>3. accept' \in [Listeners -> {"idle", "acquire", "accept", "stopped"}]
    BY <1>3 DEF Acquire
  <2>4. QED
    BY <1>3, <2>1, <2>2, <2>3 DEF Acquire
<1>4. ASSUME NEW l \in Listeners, NEW k \in Conns, Accepted(l, k) PROVE TypeOK'
  BY <1>4 DEF Accepted
<1>5. ASSUME NEW l \in Listeners, AcceptFailed(l) PROVE TypeOK'
  BY <1>5 DEF AcceptFailed, release
<1>6. ASSUME NEW l \in Listeners, CloseListener(l) PROVE TypeOK'
  BY <1>6 DEF CloseListener
<1>7. ASSUME NEW l \in Listeners, CloseDone(l) PROVE TypeOK'
  BY <1>7 DEF CloseDone
<1>8. ASSUME NEW k \in Conns, NEW x \in Closers, CloseConn(k, x) PROVE TypeOK'
  BY <1>8 DEF CloseConn
<1>9. ASSUME NEW k \in Conns, NEW x \in Closers, EnterOnce(k, x) PROVE TypeOK'
  BY <1>9 DEF EnterOnce
<1>10. ASSUME NEW k \in Conns, NEW x \in Closers, ReleaseConn(k, x) PROVE TypeOK'
  BY <1>10 DEF ReleaseConn, release
<1>11. ASSUME NEW k \in Conns, NEW x \in Closers, SkipOnce(k, x) PROVE TypeOK'
  BY <1>11 DEF SkipOnce
<1>12. ASSUME NEW k \in Conns, Collect(k) PROVE TypeOK'
  BY <1>12 DEF Collect
<1>13. CASE UNCHANGED vars
  BY <1>13 DEF vars
<1>14. QED
  BY <1>1, <1>2, <1>3, <1>4, <1>5, <1>6, <1>7, <1>8, <1>9, <1>10, <1>11,
     <1>12, <1>13 DEF Next, Serve, CloseReturn

\* Every step follows the protocol around the slots.
LEMMA ProtocolStep ==
    TypeOK /\ ReleaseProtocol /\ [Next]_vars => ReleaseProtocol'
<1> SUFFICES ASSUME TypeOK, ReleaseProtocol, [Next]_vars PROVE ReleaseProtocol'
  OBVIOUS
<1> USE LimiterAssumption DEF TypeOK, ReleaseProtocol
<1>1. ASSUME NEW l \in Listeners, Dial(l) PROVE ReleaseProtocol'
  BY <1>1 DEF Dial
<1>2. ASSUME NEW l \in Listeners, BeginAccept(l) PROVE ReleaseProtocol'
  BY <1>2 DEF BeginAccept
<1>3. ASSUME NEW l \in Listeners, Acquire(l) PROVE ReleaseProtocol'
  BY <1>3 DEF Acquire
<1>4. ASSUME NEW l \in Listeners, NEW k \in Conns, Accepted(l, k)
      PROVE ReleaseProtocol'
  BY <1>4 DEF Accepted
<1>5. ASSUME NEW l \in Listeners, AcceptFailed(l) PROVE ReleaseProtocol'
  BY <1>5 DEF AcceptFailed, release
<1>6. ASSUME NEW l \in Listeners, CloseListener(l) PROVE ReleaseProtocol'
  BY <1>6 DEF CloseListener
<1>7. ASSUME NEW l \in Listeners, CloseDone(l) PROVE ReleaseProtocol'
  BY <1>7 DEF CloseDone
<1>8. ASSUME NEW k \in Conns, NEW x \in Closers, CloseConn(k, x)
      PROVE ReleaseProtocol'
  BY <1>8 DEF CloseConn
<1>9. ASSUME NEW k \in Conns, NEW x \in Closers, EnterOnce(k, x)
      PROVE ReleaseProtocol'
  BY <1>9 DEF EnterOnce
<1>10. ASSUME NEW k \in Conns, NEW x \in Closers, ReleaseConn(k, x)
       PROVE ReleaseProtocol'
  BY <1>10 DEF ReleaseConn, release
<1>11. ASSUME NEW k \in Conns, NEW x \in Closers, SkipOnce(k, x)
       PROVE ReleaseProtocol'
  BY <1>11 DEF SkipOnce
<1>12. ASSUME NEW k \in Conns, Collect(k) PROVE ReleaseProtocol'
  BY <1>12 DEF Collect
<1>13. CASE UNCHANGED vars
  BY <1>13 DEF vars
<1>14. QED
  BY <1>1, <1>2, <1>3, <1>4, <1>5, <1>6, <1>7, <1>8, <1>9, <1>10, <1>11,
     <1>12, <1>13 DEF Next, Serve, CloseReturn

-----------------------------------------------------------------------------
(* How a step may change the slots and the channel, together.              *)

Kept == Slots' = Slots /\ sem' = sem

Taken(h) == h \notin Slots /\ sem < N /\ Slots' = Slots \cup {h} /\ sem' = sem + 1

GivenBack(h) == h \in Slots /\ Slots' = Slots \ {h} /\ sem' = sem - 1

HandedOver(h, k) ==
    h \in Slots /\ k \notin Slots /\ Slots' = (Slots \ {h}) \cup {k} /\ sem' = sem

\* Every step keeps the slots, or takes, gives back or hands over exactly one,
\* and changes the number of elements in the channel accordingly.
LEMMA SlotsStep ==
    ASSUME TypeOK, ReleaseProtocol, [Next]_vars
    PROVE  \/ Kept
           \/ \E h \in Listeners \cup Conns : Taken(h) \/ GivenBack(h)
           \/ \E h, k \in Listeners \cup Conns : HandedOver(h, k)
<1> USE LimiterAssumption DEF TypeOK, Slots, Accepting, Unreleased
<1>1. ASSUME NEW l \in Listeners, Dial(l) PROVE Kept
  BY <1>1 DEF Dial, Kept
<1>2. ASSUME NEW l \in Listeners, BeginAccept(l) PROVE Kept
  BY <1>2 DEF BeginAccept, Kept
<1>3. ASSUME NEW l \in Listeners, Acquire(l) PROVE Kept \/ Taken(l)
  BY <1>3 DEF Acquire, Kept, Taken
<1>4. ASSUME NEW l \in Listeners, NEW k \in Conns, Accepted(l, k)
      PROVE HandedOver(l, k)
  <2>1. acquired[l]
    BY <1>4 DEF Accepted, ReleaseProtocol
  <2>2. once[k] = "new"
    BY <1>4 DEF Accepted, ReleaseProtocol
  <2>3. QED
    BY <1>4, <2>1, <2>2 DEF Accepted, HandedOver
<1>5. ASSUME NEW l \in Listeners, AcceptFailed(l) PROVE Kept \/ GivenBack(l)
  BY <1>5 DEF AcceptFailed, release, Kept, GivenBack
<1>6. ASSUME NEW l \in Listeners, CloseListener(l) PROVE Kept
  BY <1>6 DEF CloseListener, Kept
<1>7. ASSUME NEW l \in Listeners, CloseDone(l) PROVE Kept
  BY <1>7 DEF CloseDone, Kept
<1>8. ASSUME NEW k \in Conns, NEW x \in Closers, CloseConn(k, x) PROVE Kept
  BY <1>8 DEF CloseConn, Kept
<1>9. ASSUME NEW k \in Conns, NEW x \in Closers, EnterOnce(k, x) PROVE Kept
  BY <1>9 DEF EnterOnce, Kept
<1>10. ASSUME NEW k \in Conns, NEW x \in Closers, ReleaseConn(k, x)
       PROVE GivenBack(k)
  <2>1. owner[k] # None /\ once[k] = "running"
    BY <1>10 DEF ReleaseConn, ReleaseProtocol
  <2>2. QED
    BY <1>10, <2>1 DEF ReleaseConn, release, GivenBack
<1>11. ASSUME NEW k \in Conns, NEW x \in Closers, SkipOnce(k, x) PROVE Kept
  BY <1>11 DEF SkipOnce, Kept
<1>12. ASSUME NEW k \in Conns, Collect(k) PROVE Kept
  BY <1>12 DEF Collect, Kept
<1>13. CASE UNCHANGED vars
  BY <1>13 DEF vars, Kept
<1>14. QED
  BY <1>1, <1>2, <1>3, <1>4, <1>5, <1>6, <1>7, <1>8, <1>9, <1>10, <1>11,
     <1>12, <1>13 DEF Next, Serve, CloseReturn

\* Such a change keeps the channel and the number of slots equal.
LEMMA CountStep == IndInv /\ [Next]_vars => SlotsAccounted'
<1> SUFFICES ASSUME IndInv, [Next]_vars PROVE sem' = Cardinality(Slots')
  BY DEF SlotsAccounted
<1> USE DEF IndInv, SlotsAccounted
<1>1. CASE Kept
  BY <1>1 DEF Kept
<1>2. ASSUME NEW h \in Listeners \cup Conns, Taken(h)
      PROVE  sem' = Cardinality(Slots')
  BY <1>2, SlotsFinite, FS_AddElement DEF Taken
<1>3. ASSUME NEW h \in Listeners \cup Conns, GivenBack(h)
      PROVE  sem' = Cardinality(Slots')
  BY <1>3, SlotsFinite, FS_RemoveElement DEF GivenBack
<1>4. ASSUME NEW h \in Listeners \cup Conns, NEW k \in Listeners \cup Conns,
             HandedOver(h, k)
      PROVE  sem' = Cardinality(Slots')
  <2>1. IsFiniteSet(Slots \ {h}) /\ Cardinality(Slots \ {h}) = sem - 1
    BY <1>4, SlotsFinite, FS_RemoveElement DEF HandedOver
  <2>2. k \notin Slots \ {h}
    BY <1>4 DEF HandedOver
  <2>3. Cardinality((Slots \ {h}) \cup {k}) = sem - 1 + 1
    BY <2>1, <2>2, FS_AddElement
  <2>4. QED
    BY <1>4, <2>3, SlotsFinite DEF HandedOver
<1>5. QED
  BY <1>1, <1>2, <1>3, <1>4, SlotsStep

-----------------------------------------------------------------------------
\* The inductive invariant: types, protocol and count hold together.
THEOREM Inductive == Spec => []IndInv
<1>1. Init => IndInv
  <2> SUFFICES ASSUME Init PROVE IndInv
    OBVIOUS
  <2> USE LimiterAssumption DEF Init
  <2>1. TypeOK
    BY DEF TypeOK
  <2>2. ReleaseProtocol
    BY DEF ReleaseProtocol
  <2>3. Slots = {}
    BY DEF Slots, Accepting, Unreleased
  <2>4. QED
    BY <2>1, <2>2, <2>3, FS_EmptySet DEF IndInv, SlotsAccounted
<1>2. IndInv /\ [Next]_vars => IndInv'
  BY TypeStep, ProtocolStep, CountStep DEF IndInv
<1>3. QED
  BY <1>1, <1>2, PTL DEF Spec

\* For every limit and any listeners, connections and closing goroutines, the
\* channel of the limiter holds one element per Accept or connection that has
\* a slot: none is lost and none is given back twice.
THEOREM SlotsAlwaysAccounted == Spec => []SlotsAccounted
BY Inductive, PTL DEF IndInv

\* The listeners that share a limiter never have more than N connections that
\* have not given their slot back.
THEOREM LimitHolds == Spec => []ConnsWithinLimit
<1>1. IndInv => ConnsWithinLimit
  <2> SUFFICES ASSUME IndInv PROVE Cardinality(Unreleased) <= N
    BY DEF ConnsWithinLimit
  <2>1. Unreleased \in SUBSET Slots
    BY DEF Slots
  <2>2. IsFiniteSet(Unreleased) /\ Cardinality(Unreleased) <= Cardinality(Slots)
    BY <2>1, SlotsFinite, FS_Subset
  <2>3. Cardinality(Unreleased) \in Nat
    BY <2>2, FS_CardinalityType
  <2>4. QED
    BY <2>2, <2>3, SlotsFinite, LimiterAssumption
       DEF IndInv, TypeOK, SlotsAccounted
<1>2. QED
  BY <1>1, Inductive, PTL

\* What ConnCloseReturns and ListenerCloseEndsServe rest on apart from
\* fairness: a receive from the channel, by a failed Accept or by the release
\* of a connection, finds an element; and a Close that waits in releaseOnce
\* waits for one that is about to receive.
ReceiveFinds ==
    /\ \A l \in Listeners : accept[l] = "accept" /\ acquired[l] => sem > 0
    /\ \A k \in Conns, x \in Closers : closer[k][x] = "release" => sem > 0
    /\ \A k \in Conns, x \in Closers :
            closer[k][x] = "once" /\ once[k] \notin {"new", "done"} =>
                \E y \in Closers : y # x /\ closer[k][y] = "release"

\* release never blocks: with every slot accounted for, nobody who gives one
\* back waits for somebody else to take one.
THEOREM ReleaseNeverBlocks == Spec => []ReceiveFinds
<1>1. IndInv => ReceiveFinds
  <2> SUFFICES ASSUME IndInv PROVE ReceiveFinds
    OBVIOUS
  <2>1. ASSUME NEW h \in Slots PROVE sem > 0
    <3>1. Cardinality(Slots) # 0
      BY <2>1, SlotsFinite, FS_EmptySet
    <3>2. QED
      BY <3>1, SlotsFinite DEF IndInv, SlotsAccounted
  <2>2. \A l \in Listeners : accept[l] = "accept" /\ acquired[l] => l \in Slots
    BY DEF Slots, Accepting
  <2>3. \A k \in Conns, x \in Closers : closer[k][x] = "release" => k \in Slots
    BY DEF IndInv, ReleaseProtocol, Slots, Unreleased
  <2>4. \A k \in Conns : once[k] \notin {"new", "done"} => once[k] = "running"
    BY DEF IndInv, TypeOK
  <2>5. QED
    BY <2>1, <2>2, <2>3, <2>4 DEF ReceiveFinds, IndInv, ReleaseProtocol
<1>2. QED
  BY <1>1, Inductive, PTL

\* The listeners implement the pool of slots: every step of Accept and Close
\* takes, hands over or gives back one slot, or leaves the pool alone.
THEOREM ImplementsPool == Spec => PoolSpec
<1>1. Init => Pool!Init
  BY DEF Init, Pool!Init, Slots, Accepting, Unreleased
<1>2. IndInv /\ [Next]_vars => [Pool!Next]_Slots
  <2> SUFFICES ASSUME IndInv, [Next]_vars PROVE [Pool!Next]_Slots
    OBVIOUS
  <2>1. CASE Kept
    BY <2>1 DEF Kept
  <2>2. ASSUME NEW h \in Listeners \cup Conns, Taken(h) PROVE Pool!Next
    <3>1. Pool!Cardinality(Slots) = Cardinality(Slots)
      BY DEF Cardinality, Pool!Cardinality
    <3>2. QED
      BY <2>2, <3>1 DEF Taken, IndInv, SlotsAccounted, Pool!Next, Pool!Acquire
  <2>3. ASSUME NEW h \in Listeners \cup Conns, GivenBack(h) PROVE Pool!Next
    BY <2>3 DEF GivenBack, Pool!Next, Pool!Release
  <2>4. ASSUME NEW h \in Listeners \cup Conns, NEW k \in Listeners \cup Conns,
               HandedOver(h, k)
        PROVE  Pool!Next
    BY <2>4 DEF HandedOver, Pool!Next, Pool!HandOver
  <2>5. QED
    BY <2>1, <2>2, <2>3, <2>4, SlotsStep DEF IndInv
<1>3. QED
  BY <1>1, <1>2, Inductive, PTL DEF Spec, PoolSpec, Pool!Spec
=============================================================================
