----------------------------- MODULE DiskWatch -----------------------------
(***************************************************************************)
(* What the disk source of domains promises, without the goroutines and    *)
(* channels of a scan: sites are deployed below the pages directory and    *)
(* announced by a new content of .update; the source notices, reads the    *)
(* sites in any order while they may change, and then puts the whole map   *)
(* in place at once. Module DiskSource implements this.                    *)
(***************************************************************************)
EXTENDS Naturals

CONSTANTS
    Sites,        \* the projects that may be deployed
    MaxDeploys,   \* bound: deployments of one site
    MaxFailures,  \* bound: reads of a directory that fail
    None          \* nil, and the value "no-update"

VARIABLES
    tree,       \* the last deployment of each site, 0 before the first
    announced,  \* whether .update was written after the last deployment
    update,     \* the content of .update, 0 when it does not exist
    failures,   \* reads that have failed so far
    lastUpdate, \* the content of .update that was last acted upon
    pc,         \* "poll", "list" or "scan"
    scan,       \* the map that is being built
    unread,     \* the sites that are still to be read
    dm          \* the map of domains in use

vars == <<tree, announced, update, failures, lastUpdate, pc, scan, unread, dm>>

EmptyMap == [s \in Sites |-> 0]

Init ==
    /\ tree \in [Sites -> {0, 1}]
    /\ announced = TRUE
    /\ update = 0
    /\ failures = 0
    /\ lastUpdate = None
    /\ pc = "poll"
    /\ scan = EmptyMap
    /\ unread = {}
    /\ dm = None

Deploy(s) ==
    /\ tree[s] < MaxDeploys
    /\ tree' = [tree EXCEPT ![s] = @ + 1]
    /\ announced' = FALSE
    /\ UNCHANGED <<update, failures, lastUpdate, pc, scan, unread, dm>>

Announce ==
    /\ ~announced
    /\ announced' = TRUE
    /\ update' = update + 1
    /\ UNCHANGED <<tree, failures, lastUpdate, pc, scan, unread, dm>>

Notice ==
    /\ pc = "poll"
    /\ update # lastUpdate
    /\ lastUpdate' = update
    /\ pc' = "list"
    /\ UNCHANGED <<tree, announced, update, failures, scan, unread, dm>>

\* A failure to begin: the update counts as seen.
Fail ==
    /\ pc = "list"
    /\ failures < MaxFailures
    /\ failures' = failures + 1
    /\ pc' = "poll"
    /\ UNCHANGED <<tree, announced, update, lastUpdate, scan, unread, dm>>

\* At least the sites that are there now will be read.
Begin ==
    /\ pc = "list"
    /\ pc' = "scan"
    /\ scan' = EmptyMap
    /\ unread' \in SUBSET Sites
    /\ {s \in Sites : tree[s] > 0} \subseteq unread'
    /\ UNCHANGED <<tree, announced, update, failures, lastUpdate, dm>>

Read(S) ==
    /\ pc = "scan"
    /\ S \subseteq unread
    /\ unread' = unread \ S
    /\ scan' = [s \in Sites |-> IF s \in S THEN tree[s] ELSE scan[s]]
    /\ UNCHANGED <<tree, announced, update, failures, lastUpdate, pc, dm>>

\* A directory that cannot be read is left out.
Skip(S) ==
    /\ pc = "scan"
    /\ failures < MaxFailures
    /\ failures' = failures + 1
    /\ S \subseteq unread
    /\ unread' = unread \ S
    /\ UNCHANGED <<tree, announced, update, lastUpdate, pc, scan, dm>>

Install ==
    /\ pc = "scan"
    /\ unread = {}
    /\ dm' = scan
    /\ pc' = "poll"
    /\ UNCHANGED <<tree, announced, update, failures, lastUpdate, scan, unread>>

Next ==
    \/ \E s \in Sites : Deploy(s)
    \/ Announce
    \/ Notice
    \/ Fail
    \/ Begin
    \/ \E S \in SUBSET Sites : Read(S) \/ Skip(S)
    \/ Install

Spec == Init /\ [][Next]_vars
=============================================================================
