----------------------------- MODULE DiskSource ----------------------------
(***************************************************************************)
(* The disk source of domains: Watch, Map.ReadGroups and                   *)
(* Disk.updateDomains of internal/source/disk.                             *)
(*                                                                         *)
(* Watch polls .update, which GitLab writes after it has changed the tree, *)
(* and scans the tree when the content has changed. In a scan the caller   *)
(* sends the groups into fanOutGroups; the workers receive them and send   *)
(* one result per project into fanIn; the collector receives the results   *)
(* and alone writes the new map; another goroutine closes fanIn when the   *)
(* workers are done. The channels are unbuffered: a send and the receive   *)
(* that meets it are one step.                                             *)
(***************************************************************************)
EXTENDS Naturals, FiniteSets

CONSTANTS
    Workers,      \* the goroutines that read groups; four in the code
    Groups,       \* directories of groups
    Sites,        \* the projects that may be deployed
    GroupOf,      \* the group of each project
    MaxDeploys,   \* bound: deployments of one site
    MaxFailures,  \* bound: reads of a directory that fail
    None          \* nil, no group, and the value "no-update"

ASSUME DiskSourceAssumption ==
    /\ IsFiniteSet(Workers)
    /\ Workers # {}
    /\ GroupOf \in [Sites -> Groups]
    /\ MaxDeploys \in Nat
    /\ MaxFailures \in Nat
    /\ None \notin Groups
    /\ None \notin Nat

\* nil is not the result of a job.
ASSUME NilAssumption == None \notin [site : Sites, at : Nat]

VARIABLES
    tree,        \* the last deployment of each site, 0 before the first
    announced,   \* whether .update was written after the last deployment
    update,      \* the content of .update, 0 when it does not exist
    failures,    \* reads that have failed so far
    lastUpdate,  \* of Watch
    pc,          \* where the goroutine of Watch and ReadGroups is
    unsent,      \* groups not yet sent into fanOutGroups
    worker,      \* the workers
    wg,          \* the WaitGroup
    fanInClosed, \* close(fanIn) has been called
    collector,   \* where the collector is
    result,      \* the result the collector has received
    scan,        \* the map the collector writes: for each site the deployment
                 \* at which it was read, 0 when it is not in the map
    dm           \* Disk.dm

env == <<tree, announced, update, failures>>
vars == <<tree, announced, update, failures, lastUpdate, pc, unsent, worker,
          wg, fanInClosed, collector, result, scan, dm>>

\* A worker: sites are the projects readProjects has listed and not yet read,
\* job is the result it has to send.
Receiving == [running |-> TRUE, group |-> None, listed |-> FALSE,
              sites |-> {}, job |-> None]

\* lastUpdate is "no-update", which differs from every content of .update.
Init ==
    /\ tree \in [Sites -> {0, 1}]
    /\ announced = TRUE
    /\ update = 0
    /\ failures = 0
    /\ lastUpdate = None
    /\ pc = "poll"
    /\ unsent = {}
    /\ worker = [w \in Workers |-> [Receiving EXCEPT !.running = FALSE]]
    /\ wg = 0
    /\ fanInClosed = TRUE
    /\ collector = "done"
    /\ result = None
    /\ scan = [s \in Sites |-> 0]
    /\ dm = None

-----------------------------------------------------------------------------
(* GitLab, which shares the directory with the daemon.                     *)

Deploy(s) ==
    /\ tree[s] < MaxDeploys
    /\ tree' = [tree EXCEPT ![s] = @ + 1]
    /\ announced' = FALSE
    /\ UNCHANGED <<update, failures, lastUpdate, pc, unsent, worker, wg,
                   fanInClosed, collector, result, scan, dm>>

Announce ==
    /\ ~announced
    /\ announced' = TRUE
    /\ update' = update + 1
    /\ UNCHANGED <<tree, failures, lastUpdate, pc, unsent, worker, wg,
                   fanInClosed, collector, result, scan, dm>>

-----------------------------------------------------------------------------
(* Watch. A read of .update that fails, or that gives the content of the   *)
(* last one, is followed by a pause and changes nothing.                   *)

ReadUpdate ==
    /\ pc = "poll"
    /\ update # lastUpdate
    /\ lastUpdate' = update
    /\ pc' = "list"
    /\ UNCHANGED <<env, unsent, worker, wg, fanInClosed, collector, result,
                   scan, dm>>

\* godirwalk.ReadDirents(".", nil) fails, and Watch continues its loop ...
ReadDirentsFails ==
    /\ pc = "list"
    /\ failures < MaxFailures
    /\ failures' = failures + 1
    /\ pc' = "poll"
    /\ UNCHANGED <<tree, announced, update, lastUpdate, unsent, worker, wg,
                   fanInClosed, collector, result, scan, dm>>

\* ... or lists the groups, and ReadGroups starts its goroutines.
ReadDirents ==
    /\ pc = "list"
    /\ pc' = "send"
    /\ unsent' = {GroupOf[s] : s \in {t \in Sites : tree[t] > 0}}
    /\ worker' = [w \in Workers |-> Receiving]
    /\ wg' = Cardinality(Workers)
    /\ fanInClosed' = FALSE
    /\ collector' = "receiving"
    /\ scan' = [s \in Sites |-> 0]
    /\ UNCHANGED <<env, lastUpdate, result, dm>>

-----------------------------------------------------------------------------
(* ReadGroups.                                                             *)

\* fanOutGroups <- group.Name() meets the range loop of a worker.
FanOut(g, w) ==
    /\ pc = "send"
    /\ g \in unsent
    /\ worker[w] = Receiving
    /\ unsent' = unsent \ {g}
    /\ worker' = [worker EXCEPT ![w].group = g]
    /\ UNCHANGED <<env, lastUpdate, pc, wg, fanInClosed, collector, result,
                   scan, dm>>

\* close(fanOutGroups)
CloseFanOut ==
    /\ pc = "send"
    /\ unsent = {}
    /\ pc' = "wait"
    /\ UNCHANGED <<env, lastUpdate, unsent, worker, wg, fanInClosed, collector,
                   result, scan, dm>>

\* readProjects lists the directory of the group; one that cannot be read is
\* skipped.
ReadProjects(w) ==
    LET there == {s \in Sites : GroupOf[s] = worker[w].group /\ tree[s] > 0}
    IN  /\ worker[w].group # None
        /\ ~worker[w].listed
        /\ \/ /\ worker' = [worker EXCEPT ![w].listed = TRUE,
                                          ![w].sites = there]
              /\ UNCHANGED failures
           \/ /\ failures < MaxFailures
              /\ failures' = failures + 1
              /\ worker' = [worker EXCEPT ![w].listed = TRUE]
        /\ UNCHANGED <<tree, announced, update, lastUpdate, pc, unsent, wg,
                       fanInClosed, collector, result, scan, dm>>

\* readProject reads the configuration of one project. One that cannot be read
\* is passed on as nil: the project gets the defaults, and its domains are not
\* known. Only the configuration is kept here, so this looks like no project.
ReadProject(w, s) ==
    /\ s \in worker[w].sites
    /\ worker[w].job = None
    /\ \E at \in {0, tree[s]} :
        /\ worker' = [worker EXCEPT ![w].sites = @ \ {s},
                                    ![w].job = [site |-> s, at |-> at]]
        /\ failures' = IF at = tree[s] THEN failures ELSE failures + 1
    /\ failures' <= MaxFailures
    /\ UNCHANGED <<tree, announced, update, lastUpdate, pc, unsent, wg,
                   fanInClosed, collector, result, scan, dm>>

\* fanIn <- jobResult{...} meets the collector.
FanIn(w) ==
    /\ worker[w].job # None
    /\ collector = "receiving"
    /\ result = None
    /\ result' = worker[w].job
    /\ worker' = [worker EXCEPT ![w].job = None]
    /\ UNCHANGED <<env, lastUpdate, pc, unsent, wg, fanInClosed, collector,
                   scan, dm>>

\* The worker goes on to the next group.
GroupRead(w) ==
    /\ worker[w].listed
    /\ worker[w].sites = {}
    /\ worker[w].job = None
    /\ worker' = [worker EXCEPT ![w] = Receiving]
    /\ UNCHANGED <<env, lastUpdate, pc, unsent, wg, fanInClosed, collector,
                   result, scan, dm>>

\* Slip: a worker ends without wg.Done().
WorkerDoneSilently(w) ==
    /\ worker[w] = Receiving
    /\ pc = "wait"
    /\ worker' = [worker EXCEPT ![w].running = FALSE]
    /\ UNCHANGED <<env, lastUpdate, pc, unsent, wg, fanInClosed, collector,
                   result, scan, dm>>

\* fanOutGroups is closed: wg.Done()
WorkerDone(w) ==
    /\ worker[w] = Receiving
    /\ pc = "wait"
    /\ worker' = [worker EXCEPT ![w].running = FALSE]
    /\ wg' = wg - 1
    /\ UNCHANGED <<env, lastUpdate, pc, unsent, fanInClosed, collector, result,
                   scan, dm>>

\* Slip: fanIn is closed as soon as every group has been handed out.
CloseFanInEarly ==
    /\ pc = "wait"
    /\ ~fanInClosed
    /\ fanInClosed' = TRUE
    /\ UNCHANGED <<env, lastUpdate, pc, unsent, worker, wg, collector, result,
                   scan, dm>>

\* wg.Wait(); close(fanIn)
CloseFanIn ==
    /\ wg = 0
    /\ ~fanInClosed
    /\ fanInClosed' = TRUE
    /\ UNCHANGED <<env, lastUpdate, pc, unsent, worker, wg, collector, result,
                   scan, dm>>

\* dm.readProjectConfig
ReadProjectConfig ==
    /\ result # None
    /\ scan' = [scan EXCEPT ![result.site] = result.at]
    /\ result' = None
    /\ UNCHANGED <<env, lastUpdate, pc, unsent, worker, wg, fanInClosed,
                   collector, dm>>

\* The range over fanIn ends: close(done)
CollectorDone ==
    /\ collector = "receiving"
    /\ result = None
    /\ fanInClosed
    /\ collector' = "done"
    /\ UNCHANGED <<env, lastUpdate, pc, unsent, worker, wg, fanInClosed,
                   result, scan, dm>>

\* Slip: ReadGroups does not wait for the collector.
UpdateDomainsEarly ==
    /\ pc = "wait"
    /\ dm' = scan
    /\ pc' = "poll"
    /\ UNCHANGED <<env, lastUpdate, unsent, worker, wg, fanInClosed, collector,
                   result, scan>>

\* Slip: lastUpdate is what .update holds after the scan, not before it.
UpdateDomainsRereads ==
    /\ pc = "wait"
    /\ collector = "done"
    /\ dm' = scan
    /\ lastUpdate' = update
    /\ pc' = "poll"
    /\ UNCHANGED <<env, unsent, worker, wg, fanInClosed, collector, result, scan>>

\* <-done, and Watch calls updater(dm).
UpdateDomains ==
    /\ pc = "wait"
    /\ collector = "done"
    /\ dm' = scan
    /\ pc' = "poll"
    /\ UNCHANGED <<env, lastUpdate, unsent, worker, wg, fanInClosed, collector,
                   result, scan>>

-----------------------------------------------------------------------------
Scan ==
    \/ CloseFanOut
    \/ \E w \in Workers :
        \/ \E g \in Groups : FanOut(g, w)
        \/ ReadProjects(w)
        \/ \E s \in Sites : ReadProject(w, s)
        \/ FanIn(w)
        \/ GroupRead(w)
        \/ WorkerDone(w)
    \/ CloseFanIn
    \/ ReadProjectConfig
    \/ CollectorDone

Watch ==
    \/ ReadUpdate
    \/ ReadDirents
    \/ UpdateDomains

Next ==
    \/ \E s \in Sites : Deploy(s)
    \/ Announce
    \/ ReadDirentsFails
    \/ Watch
    \/ Scan

Spec == Init /\ [][Next]_vars

\* The scheduler runs some goroutine of the source that can run, and GitLab
\* announces what it has deployed. Nothing makes a read fail.
FairSpec == Spec /\ WF_vars(Watch \/ Scan) /\ WF_vars(Announce)

-----------------------------------------------------------------------------
(* Properties.                                                             *)

\* No goroutine of a scan panics: the WaitGroup never becomes negative, and no
\* result is sent into fanIn after it was closed.
NoPanic ==
    /\ wg >= 0
    /\ fanInClosed =>
        \A w \in Workers : worker[w].sites = {} /\ worker[w].job = None

\* As long as no read has failed, no update of the map takes a site back to
\* an older deployment, although a scan reads the sites one after the other
\* while they change.
NeverBackwards ==
    [][dm # None /\ failures = 0 => \A s \in Sites : dm'[s] >= dm[s]]_vars

\* Unless a read has failed, the map of domains comes to agree with the disk
\* once deployments have stopped. .update is read before the tree, so that a
\* deployment in the middle of a scan is seen by that scan or causes another;
\* and the goroutines of a scan never all wait for one another.
CatchesUpUnlessFailed == <>[](failures = 0 => dm = tree)

\* What failed reads have left out of the map comes back with the next
\* deployment: lastUpdate was already set when the scan failed, so nothing
\* but a new content of .update starts another scan.
RepairedByNextDeploy ==
    [](failures = MaxFailures /\ ~announced => <>[](dm = tree))

\* The sites of a scan that nobody has read yet, and the map as far as it has
\* been read: what the collector has written, overridden by results that are
\* on their way to it.
Unread ==
    {s \in Sites :
        \/ GroupOf[s] \in unsent
        \/ \E w \in Workers :
            \/ s \in worker[w].sites
            \/ GroupOf[s] = worker[w].group /\ ~worker[w].listed}

Sent(s) ==
    {j \in {result} \cup {worker[w].job : w \in Workers} :
        j # None /\ j.site = s}

ReadSoFar ==
    [s \in Sites |-> IF Sent(s) = {} THEN scan[s] ELSE (CHOOSE j \in Sent(s) : TRUE).at]

Abstract == INSTANCE DiskWatch WITH
    pc <- IF pc \in {"send", "wait"} THEN "scan" ELSE pc,
    unread <- Unread,
    scan <- ReadSoFar

\* The goroutines and channels of a scan implement the scan of DiskWatch: when
\* ReadGroups returns no result is still with a worker or the collector, every
\* site is read once, and the map goes into place as a whole.
WatchSpec == Abstract!Spec
=============================================================================
