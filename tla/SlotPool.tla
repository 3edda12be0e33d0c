------------------------------ MODULE SlotPool ------------------------------
(***************************************************************************)
(* What the Limiter of internal/netutil promises: a pool of N slots, each  *)
(* held by at most one holder at a time, taken before a connection is      *)
(* accepted, handed to the connection and given back once.                 *)
(***************************************************************************)
EXTENDS Naturals, FiniteSets

CONSTANTS
    N,       \* number of slots
    Holders  \* whoever can hold a slot

VARIABLE held  \* the holders that have a slot

Init == held = {}

Acquire(h) ==
    /\ h \notin held
    /\ Cardinality(held) < N
    /\ held' = held \cup {h}

HandOver(h, k) ==
    /\ h \in held
    /\ k \notin held
    /\ held' = (held \ {h}) \cup {k}

Release(h) ==
    /\ h \in held
    /\ held' = held \ {h}

Next ==
    \/ \E h \in Holders : Acquire(h) \/ Release(h)
    \/ \E h, k \in Holders : HandOver(h, k)

Spec == Init /\ [][Next]_held
=============================================================================
