-------------------------- MODULE DiskSourceProofs --------------------------
(***************************************************************************)
(* A scan of the disk source for any number of workers, groups and sites:  *)
(* its goroutines do not panic or get stuck, and together they do what     *)
(* DiskWatch says; and Watch is not content with an outdated map.          *)
(***************************************************************************)
EXTENDS DiskSource, FiniteSetTheorems, TLAPS

Jobs == [site : Sites, at : Nat]
WorkerStates == [running : BOOLEAN, group : Groups \cup {None},
                 listed : BOOLEAN, sites : SUBSET Sites, job : Jobs \cup {None}]

TypeOK ==
    /\ tree \in [Sites -> Nat]
    /\ announced \in BOOLEAN
    /\ update \in Nat
    /\ failures \in Nat
    /\ lastUpdate \in Nat \cup {None}
    /\ pc \in {"poll", "list", "send", "wait"}
    /\ unsent \in SUBSET Groups
    /\ worker \in [Workers -> WorkerStates]
    /\ wg \in Int
    /\ fanInClosed \in BOOLEAN
    /\ collector \in {"receiving", "done"}
    /\ result \in Jobs \cup {None}
    /\ scan \in [Sites -> Nat]
    /\ dm \in [Sites -> Nat] \cup {None}

\* The WaitGroup counts the workers that run.
Running == {w \in Workers : worker[w].running}

\* A worker that has ended, or has no group, has nothing left to send.
WorkersIdle ==
    \A w \in Workers :
        /\ ~worker[w].running => worker[w].group = None
        /\ worker[w].group = None => ~worker[w].listed
        /\ ~worker[w].listed => worker[w].sites = {} /\ worker[w].job = None

\* The order in which a scan ends: the groups are handed out, the workers
\* end, fanIn is closed, the collector ends, ReadGroups returns.
Phases ==
    /\ pc = "send" => \A w \in Workers : worker[w].running
    /\ pc # "send" => unsent = {}
    /\ wg = Cardinality(Running)
    /\ fanInClosed => wg = 0
    /\ collector = "done" => fanInClosed /\ result = None
    /\ pc \in {"poll", "list"} => collector = "done"

\* A group is with one worker at most, or still to be sent.
GroupsApart ==
    /\ \A w, v \in Workers :
            worker[w].group = worker[v].group => w = v \/ worker[w].group = None
    /\ \A w \in Workers : worker[w].group \notin unsent

\* What a worker has listed and read belongs to its group.
OwnGroup ==
    \A w \in Workers :
        /\ \A s \in worker[w].sites : GroupOf[s] = worker[w].group
        /\ worker[w].job # None =>
            /\ GroupOf[worker[w].job.site] = worker[w].group
            /\ worker[w].job.site \notin worker[w].sites

\* Every site is read once: it is unread, on its way to the collector, or
\* written to the map.
ReadOnce ==
    /\ result # None =>
        /\ result.site \notin Unread
        /\ \A w \in Workers : worker[w].job # None => worker[w].job.site # result.site
    /\ pc \in {"send", "wait"} =>
        \A s \in Sites : s \in Unread \/ Sent(s) # {} => scan[s] = 0

IInv ==
    /\ TypeOK /\ WorkersIdle /\ Phases /\ GroupsApart /\ OwnGroup /\ ReadOnce

\* While no read has failed, the map in use and the one being built are not
\* ahead of the disk, and what has been read is not behind the map in use.
Between ==
    failures = 0 =>
        \A s \in Sites :
            /\ dm # None => dm[s] <= tree[s]
            /\ pc \in {"send", "wait"} => ReadSoFar[s] <= tree[s]
            /\ pc \in {"send", "wait"} /\ dm # None /\ s \notin Unread =>
                    ReadSoFar[s] >= dm[s]

-----------------------------------------------------------------------------
(* What has been read so far, without the CHOOSE of its definition.        *)

\* Every site has one result at most on its way to the collector.
Positions ==
    /\ ReadSoFar = [s \in Sites |-> ReadSoFar[s]]
    /\ \A s \in Sites :
        /\ ReadSoFar[s] \in Nat
        /\ Sent(s) = {} => ReadSoFar[s] = scan[s]
        /\ Sent(s) = {} <=>
            /\ result # None => result.site # s
            /\ \A w \in Workers : worker[w].job # None => worker[w].job.site # s
    /\ result # None => result.site \in Sites /\ ReadSoFar[result.site] = result.at
    /\ \A w \in Workers : worker[w].job # None =>
        /\ worker[w].job.site \in Sites
        /\ ReadSoFar[worker[w].job.site] = worker[w].job.at

\* Two workers do not have results of one site.
LEMMA JobsApart ==
    ASSUME TypeOK, GroupsApart, OwnGroup,
           NEW w \in Workers, NEW v \in Workers,
           worker[w].job # None, worker[v].job # None,
           worker[w].job.site = worker[v].job.site
    PROVE  w = v
  <1>1. worker[w].job.site \in Sites
    BY DEF TypeOK, WorkerStates, Jobs
  <1>2. GroupOf[worker[w].job.site] = worker[w].group
        /\ GroupOf[worker[v].job.site] = worker[v].group
    BY DEF OwnGroup
  <1>3. worker[w].group # None
    BY <1>1, <1>2, DiskSourceAssumption
  <1> QED
    BY <1>2, <1>3 DEF GroupsApart

\* Where the reading of a site stands.
LEMMA Where == IInv => Positions
  <1> SUFFICES ASSUME IInv PROVE Positions
    OBVIOUS
  <1>1. TypeOK /\ GroupsApart /\ OwnGroup /\ ReadOnce
    BY DEF IInv
  <1>2. /\ result # None => result \in Jobs
        /\ \A w \in Workers : worker[w].job # None => worker[w].job \in Jobs
        /\ scan \in [Sites -> Nat]
    BY <1>1 DEF TypeOK, WorkerStates
  <1>3. ReadSoFar = [s \in Sites |-> ReadSoFar[s]]
    BY DEF ReadSoFar
  <1>4. \A s \in Sites :
            Sent(s) = {} <=>
                /\ result # None => result.site # s
                /\ \A w \in Workers : worker[w].job # None => worker[w].job.site # s
    BY DEF Sent
  <1>5. \A s \in Sites : Sent(s) = {} => ReadSoFar[s] = scan[s]
    BY DEF ReadSoFar
  <1>6. \A s \in Sites, j \in Jobs : Sent(s) = {j} => ReadSoFar[s] = j.at
    BY DEF ReadSoFar
  <1>7. result # None => Sent(result.site) = {result}
    BY <1>1 DEF Sent, ReadOnce
  <1>8. \A w \in Workers : worker[w].job # None =>
                Sent(worker[w].job.site) = {worker[w].job}
    BY <1>1, JobsApart DEF Sent, ReadOnce
  <1>9. \A s \in Sites : ReadSoFar[s] \in Nat
    <2> TAKE s \in Sites
    <2>1. CASE Sent(s) = {}
      BY <1>2, <1>5, <2>1
    <2>2. CASE result # None /\ result.site = s
      BY <1>2, <1>6, <1>7, <2>2 DEF Jobs
    <2>3. ASSUME NEW w \in Workers, worker[w].job # None, worker[w].job.site = s
          PROVE  ReadSoFar[s] \in Nat
      BY Zenon, <1>2, <1>6, <1>8, <2>3 DEF Jobs
    <2> QED
      BY <1>4, <2>1, <2>2, <2>3
  <1>10. result # None => result.site \in Sites /\ ReadSoFar[result.site] = result.at
    BY <1>2, <1>6, <1>7 DEF Jobs
  <1>11. \A w \in Workers : worker[w].job # None =>
            /\ worker[w].job.site \in Sites
            /\ ReadSoFar[worker[w].job.site] = worker[w].job.at
    BY Zenon, <1>2, <1>6, <1>8 DEF Jobs
  <1> QED
    BY <1>3, <1>4, <1>5, <1>9, <1>10, <1>11 DEF Positions

\* The same after a step.
LEMMA WhereNext == IInv' => Positions'
  BY Where, PTL

-----------------------------------------------------------------------------
(* Each step keeps the inductive invariant.                                *)

\* Unread and Sent depend on these variables only.
LEMMA SameReads ==
    ASSUME UNCHANGED <<unsent, worker>>
    PROVE  /\ Unread' = Unread
           /\ result' = result => \A s \in Sites : Sent(s)' = Sent(s)
    BY DEF Unread, Sent

\* Of the workers only these fields count.
LEMMA SameUnread ==
    ASSUME UNCHANGED unsent,
           \A w \in Workers :
                /\ worker'[w].sites = worker[w].sites
                /\ \A s \in Sites :
                    GroupOf[s] = worker'[w].group /\ ~worker'[w].listed <=>
                    GroupOf[s] = worker[w].group /\ ~worker[w].listed
    PROVE  Unread' = Unread
    BY DEF Unread

\* GitLab and Watch outside a scan: nothing in a scan changes.
LEMMA WatchSteps ==
    ASSUME IInv, (\E s \in Sites : Deploy(s)) \/ Announce \/ ReadUpdate
                 \/ ReadDirentsFails \/ UNCHANGED vars
    PROVE  IInv'
  <1>1. /\ UNCHANGED <<unsent, worker, wg, fanInClosed, collector, result, scan>>
        /\ \/ pc' = pc
           \/ pc \in {"poll", "list"} /\ pc' \in {"poll", "list"}
    BY DEF Deploy, Announce, ReadUpdate, ReadDirentsFails, vars
  <1>2. TypeOK'
    <2>1. tree' \in [Sites -> Nat]
      BY DEF IInv, TypeOK, Deploy, Announce, ReadUpdate, ReadDirentsFails, vars, env
    <2>2. dm' = dm /\ (announced' = announced \/ announced' = TRUE
                        \/ announced' = FALSE)
      BY DEF Deploy, Announce, ReadUpdate, ReadDirentsFails, vars, env
    <2>3. update' \in Nat /\ failures' \in Nat
      BY DEF IInv, TypeOK, Deploy, Announce, ReadUpdate, ReadDirentsFails, vars, env
    <2>4. lastUpdate' \in Nat \cup {None}
      BY DEF IInv, TypeOK, Deploy, Announce, ReadUpdate, ReadDirentsFails, vars, env
    <2> QED
      BY Zenon, <1>1, <2>1, <2>2, <2>3, <2>4 DEF IInv, TypeOK
  <1>3. WorkersIdle' /\ GroupsApart' /\ OwnGroup'
    BY <1>1 DEF IInv, WorkersIdle, GroupsApart, OwnGroup
  <1>4. Phases'
    BY <1>1 DEF IInv, Phases, Running
  <1>5. ReadOnce'
    <2>1. Unread' = Unread /\ \A s \in Sites : Sent(s)' = Sent(s)
      BY <1>1, SameReads
    <2> QED
      BY <1>1, <2>1 DEF IInv, ReadOnce
  <1> QED
    BY <1>2, <1>3, <1>4, <1>5 DEF IInv

\* Steps of ReadGroups, of the goroutine that closes fanIn and of the
\* collector, none of which changes a worker.
LEMMA EndSteps ==
    ASSUME IInv, CloseFanOut \/ CloseFanIn \/ CollectorDone \/ UpdateDomains
    PROVE  IInv'
  <1>1. UNCHANGED <<tree, announced, update, failures, lastUpdate, unsent, worker,
                    wg, result, scan>>
    BY DEF CloseFanOut, CloseFanIn, CollectorDone, UpdateDomains, env
  <1>2. TypeOK'
    BY Zenon, <1>1
       DEF IInv, TypeOK, CloseFanOut, CloseFanIn, CollectorDone, UpdateDomains
  <1>3. WorkersIdle' /\ GroupsApart' /\ OwnGroup'
    BY <1>1 DEF IInv, WorkersIdle, GroupsApart, OwnGroup
  <1>4. Phases'
    <2>1. Running' = Running
      BY <1>1 DEF Running
    <2>2. CASE CloseFanOut
      BY <1>1, <2>1, <2>2 DEF IInv, Phases, CloseFanOut
    <2>3. CASE CloseFanIn
      BY <1>1, <2>1, <2>3 DEF IInv, Phases, CloseFanIn
    <2>4. CASE CollectorDone
      BY <1>1, <2>1, <2>4 DEF IInv, Phases, CollectorDone
    <2>5. CASE UpdateDomains
      BY <1>1, <2>1, <2>5 DEF IInv, Phases, UpdateDomains
    <2> QED
      BY <2>2, <2>3, <2>4, <2>5
  <1>5. ReadOnce'
    <2>1. Unread' = Unread /\ \A s \in Sites : Sent(s)' = Sent(s)
      BY <1>1, SameReads
    <2>2. pc' \in {"send", "wait"} => pc \in {"send", "wait"}
      BY DEF CloseFanOut, CloseFanIn, CollectorDone, UpdateDomains
    <2> QED
      BY <1>1, <2>1, <2>2 DEF IInv, ReadOnce
  <1> QED
    BY <1>2, <1>3, <1>4, <1>5 DEF IInv

\* dm.readProjectConfig
LEMMA CollectStep ==
    ASSUME IInv, ReadProjectConfig
    PROVE  IInv'
  <1>1. /\ UNCHANGED <<tree, announced, update, failures, lastUpdate, pc, unsent,
                       worker, wg, fanInClosed, collector, dm>>
        /\ result # None /\ result' = None
        /\ scan' = [scan EXCEPT ![result.site] = result.at]
    BY DEF ReadProjectConfig, env
  <1>2. result \in Jobs /\ result.site \in Sites /\ result.at \in Nat
    BY <1>1 DEF IInv, TypeOK, Jobs
  <1>3. TypeOK'
    BY <1>1, <1>2 DEF IInv, TypeOK
  <1>4. WorkersIdle' /\ GroupsApart' /\ OwnGroup'
    BY <1>1 DEF IInv, WorkersIdle, GroupsApart, OwnGroup
  <1>5. Phases'
    BY <1>1 DEF IInv, Phases, Running
  <1>6. ReadOnce'
    <2>1. Unread' = Unread
      BY <1>1, SameReads
    <2>2. ASSUME NEW s \in Sites, s \in Unread \/ Sent(s)' # {}
          PROVE  s # result.site /\ (s \in Unread \/ Sent(s) # {})
      BY <1>1, <2>2 DEF IInv, ReadOnce, Sent
    <2>3. \A s \in Sites : s # result.site => scan'[s] = scan[s]
      BY <1>1, <1>2 DEF IInv, TypeOK
    <2> QED
      BY <1>1, <2>1, <2>2, <2>3 DEF IInv, ReadOnce
  <1> QED
    BY <1>3, <1>4, <1>5, <1>6 DEF IInv

\* Nothing is with a worker or the collector while Watch polls or lists.
LEMMA AtRest ==
    ASSUME IInv, fanInClosed
    PROVE  \A w \in Workers :
                /\ ~worker[w].running /\ worker[w].group = None
                /\ ~worker[w].listed
                /\ worker[w].sites = {} /\ worker[w].job = None
  <1>1. IsFiniteSet(Running)
    <2>1. Running \subseteq Workers
      BY DEF Running
    <2> QED
      BY <2>1, FS_Subset, DiskSourceAssumption
  <1>2. Running = {}
    BY <1>1, FS_EmptySet DEF IInv, Phases
  <1> QED
    BY <1>2 DEF Running, IInv, WorkersIdle

\* ReadGroups starts its goroutines.
LEMMA BeginStep ==
    ASSUME IInv, ReadDirents
    PROVE  IInv'
  <1>1. /\ UNCHANGED <<tree, announced, update, failures, lastUpdate, result, dm>>
        /\ pc = "list" /\ pc' = "send"
        /\ unsent' = {GroupOf[s] : s \in {t \in Sites : tree[t] > 0}}
        /\ worker' = [w \in Workers |-> Receiving]
        /\ wg' = Cardinality(Workers) /\ ~fanInClosed'
        /\ fanInClosed' = FALSE
        /\ collector' = "receiving" /\ scan' = [s \in Sites |-> 0]
    BY DEF ReadDirents, env
  <1>2. result = None /\ result' = None
    BY <1>1 DEF IInv, Phases
  <1>3. \A w \in Workers :
            /\ worker'[w].running /\ worker'[w].group = None
            /\ ~worker'[w].listed
            /\ worker'[w].sites = {} /\ worker'[w].job = None
    BY <1>1 DEF Receiving
  <1>4. TypeOK'
    <2>1. worker' \in [Workers -> WorkerStates]
      BY <1>1 DEF WorkerStates, Receiving
    <2>2. unsent' \in SUBSET Groups /\ scan' \in [Sites -> Nat]
      BY <1>1, DiskSourceAssumption
    <2>3. wg' \in Int
      BY <1>1, FS_CardinalityType, DiskSourceAssumption
    <2> QED
      BY Zenon, <1>1, <2>1, <2>2, <2>3 DEF IInv, TypeOK
  <1>5. WorkersIdle' /\ OwnGroup'
    BY <1>3 DEF WorkersIdle, OwnGroup
  <1>6. GroupsApart'
    BY <1>3, <1>4, DiskSourceAssumption DEF GroupsApart, TypeOK
  <1>7. Phases'
    <2>1. Running' = Workers
      BY <1>3 DEF Running
    <2> QED
      BY <1>1, <1>3, <2>1 DEF Phases
  <1>8. ReadOnce'
    BY <1>1, <1>2 DEF ReadOnce
  <1> QED
    BY <1>4, <1>5, <1>6, <1>7, <1>8 DEF IInv

\* A worker that goes on: it keeps its group, gives it up, or receives one
\* that has not been sent.
LEMMA WorkerMoves ==
    ASSUME IInv, NEW w \in Workers, NEW new \in WorkerStates,
           worker' = [worker EXCEPT ![w] = new],
           UNCHANGED <<tree, announced, update, lastUpdate, pc, wg, fanInClosed,
                       collector, scan, dm>>,
           failures' \in Nat, result' \in Jobs \cup {None}, unsent' \subseteq unsent,
           collector = "done" => result' = None,
           new.running, worker[w].running,
           new.group = None => ~new.listed,
           ~new.listed => new.sites = {} /\ new.job = None,
           \/ new.group \in {worker[w].group, None}
           \/ new.group \in unsent \ unsent',
           \A s \in new.sites : GroupOf[s] = new.group,
           new.job # None => GroupOf[new.job.site] = new.group
                             /\ new.job.site \notin new.sites
    PROVE  /\ TypeOK' /\ WorkersIdle' /\ Phases' /\ GroupsApart' /\ OwnGroup'
           /\ worker'[w] = new
           /\ \A v \in Workers \ {w} : worker'[v] = worker[v]
  <1>1. TypeOK /\ worker \in [Workers -> WorkerStates]
    BY DEF IInv, TypeOK
  <1>2. worker' \in [Workers -> WorkerStates] /\ worker'[w] = new
        /\ \A v \in Workers \ {w} : worker'[v] = worker[v]
    BY <1>1
  <1>3. TypeOK'
    BY <1>1, <1>2 DEF TypeOK
  <1>4. WorkersIdle'
    BY <1>2 DEF IInv, WorkersIdle
  <1>5. Phases'
    <2>1. Running' = Running
      BY <1>2 DEF Running
    <2>2. pc = "send" => \A v \in Workers : worker'[v].running
      BY <1>2 DEF IInv, Phases
    <2>3. pc # "send" => unsent' = {}
      BY DEF IInv, Phases
    <2>4. /\ wg = Cardinality(Running)
          /\ fanInClosed => wg = 0
          /\ collector = "done" => fanInClosed
          /\ pc \in {"poll", "list"} => collector = "done"
      BY DEF IInv, Phases
    <2> QED
      BY <2>1, <2>2, <2>3, <2>4 DEF Phases
  <1>6. GroupsApart'
    <2>1. \A v \in Workers : worker[v].group \notin unsent
      BY DEF IInv, GroupsApart
    <2>2. None \notin unsent
      BY <1>1, DiskSourceAssumption DEF TypeOK
    <2>3. \A v \in Workers : worker'[v].group \notin unsent'
      BY <1>2, <2>1, <2>2
    <2>4. \A v \in Workers \ {w} : worker[v].group = new.group => new.group = None
      BY <2>1 DEF IInv, GroupsApart
    <2>5. \A v, u \in Workers :
            worker'[v].group = worker'[u].group => v = u \/ worker'[v].group = None
      BY <1>2, <2>4 DEF IInv, GroupsApart
    <2> QED
      BY <2>3, <2>5 DEF GroupsApart
  <1>7. OwnGroup'
    BY <1>2 DEF IInv, OwnGroup
  <1> QED
    BY <1>2, <1>3, <1>4, <1>5, <1>6, <1>7

\* Sites that are read do not become unread.
LEMMA ReadOnceKept ==
    ASSUME IInv, Unread' \subseteq Unread, UNCHANGED <<pc, result, scan>>,
           \A s \in Sites : Sent(s)' # {} => Sent(s) # {} \/ s \in Unread,
           \A v \in Workers : worker'[v].job # None =>
                \/ worker'[v].job = worker[v].job
                \/ worker'[v].job.site \in Unread
    PROVE  ReadOnce'
    BY DEF IInv, ReadOnce

\* The group that was sent is with the worker.
LEMMA FanOutStep ==
    ASSUME IInv, NEW w \in Workers, NEW g \in Groups, FanOut(g, w)
    PROVE  IInv' /\ Unread' = Unread /\ \A s \in Sites : Sent(s)' = Sent(s)
  <1>1. PICK new : new = [worker[w] EXCEPT !.group = g]
    BY Zenon
  <1>2. /\ worker[w].running /\ worker[w].group = None /\ ~worker[w].listed
        /\ worker[w].sites = {} /\ worker[w].job = None
    BY DEF FanOut, Receiving
  <1>3. TypeOK /\ worker[w] \in WorkerStates
    BY DEF IInv, TypeOK
  <1>4. /\ new \in WorkerStates /\ new.running /\ new.group = g /\ ~new.listed
        /\ new.sites = {} /\ new.job = None
    BY <1>1, <1>2, <1>3 DEF WorkerStates
  <1>5. /\ UNCHANGED <<tree, announced, update, failures, lastUpdate, pc, wg,
                       fanInClosed, collector, result, scan, dm>>
        /\ worker' = [worker EXCEPT ![w] = new]
        /\ unsent' = unsent \ {g} /\ g \in unsent
    BY <1>1, <1>3 DEF FanOut, env, TypeOK
  <1>6. failures' \in Nat /\ result' \in Jobs \cup {None}
        /\ (collector = "done" => result' = None)
    BY <1>3, <1>5 DEF TypeOK, IInv, Phases
  <1>7. /\ TypeOK' /\ WorkersIdle' /\ Phases' /\ GroupsApart' /\ OwnGroup'
        /\ worker'[w] = new /\ \A v \in Workers \ {w} : worker'[v] = worker[v]
    BY Zenon, <1>2, <1>4, <1>5, <1>6, WorkerMoves
  <1>8. Unread' = Unread
    <2>1. \A s \in Sites : GroupOf[s] # None
      BY DiskSourceAssumption
    <2> QED
      BY <1>2, <1>4, <1>5, <1>7, <2>1 DEF Unread
  <1>9. \A v \in Workers : worker'[v].job = worker[v].job
    BY <1>2, <1>4, <1>7
  <1>10. \A s \in Sites : Sent(s)' = Sent(s)
    BY <1>5, <1>9 DEF Sent
  <1>11. ReadOnce'
    BY <1>5, <1>8, <1>9, <1>10, ReadOnceKept
  <1> QED
    BY <1>7, <1>8, <1>10, <1>11 DEF IInv

\* The unread sites of the group a worker has.
OwnUnread ==
    \A w \in Workers, s \in Sites :
        GroupOf[s] = worker[w].group =>
            (s \in Unread <=> s \in worker[w].sites \/ ~worker[w].listed)

\* No other worker has them, nor are they still to be sent.
LEMMA OwnUnreadHolds == GroupsApart /\ OwnGroup => OwnUnread
  <1> SUFFICES ASSUME GroupsApart, OwnGroup, NEW w \in Workers, NEW s \in Sites,
                      GroupOf[s] = worker[w].group
               PROVE  s \in Unread <=> s \in worker[w].sites \/ ~worker[w].listed
    BY DEF OwnUnread
  <1>1. GroupOf[s] # None
    BY DiskSourceAssumption
  <1>2. \A v \in Workers : worker[v].group = GroupOf[s] => v = w
    BY <1>1 DEF GroupsApart
  <1>3. \A v \in Workers : s \in worker[v].sites => v = w
    BY <1>2 DEF OwnGroup
  <1> QED
    BY <1>2, <1>3 DEF Unread, GroupsApart

\* The same after a step.
LEMMA OwnUnreadNext == GroupsApart' /\ OwnGroup' => OwnUnread'
  BY OwnUnreadHolds, PTL

\* The sites of other groups do not depend on a worker.
LEMMA OthersUnread ==
    ASSUME IInv, OwnGroup', unsent' = unsent, NEW w \in Workers,
           \A v \in Workers \ {w} : worker'[v] = worker[v],
           NEW s \in Sites, GroupOf[s] # worker[w].group,
           GroupOf[s] # worker'[w].group
    PROVE  s \in Unread' <=> s \in Unread
    BY DEF IInv, OwnGroup, Unread

\* What a worker with a group is like.
LEMMA AtWork ==
    ASSUME IInv, NEW w \in Workers
    PROVE  /\ worker[w] \in WorkerStates
           /\ worker[w].job # None \/ worker[w].sites # {} => worker[w].listed
           /\ worker[w].listed => worker[w].group # None
           /\ worker[w].group # None => worker[w].running
           /\ failures \in Nat /\ result \in Jobs \cup {None}
           /\ collector = "done" => result = None
    BY DEF IInv, TypeOK, WorkersIdle, Phases

\* A worker lists the sites of its group, or fails to: those that it does not
\* list are left out.
LEMMA ListStep ==
    ASSUME IInv, NEW w \in Workers, ReadProjects(w)
    PROVE  /\ IInv' /\ worker[w].group # None
           /\ \A s \in Sites : Sent(s)' = Sent(s)
           /\ worker'[w].sites \subseteq Sites
           /\ \A s \in Sites : s \in Unread' <=>
                s \in Unread
                /\ (GroupOf[s] = worker[w].group => s \in worker'[w].sites)
           /\ {s \in Sites : GroupOf[s] = worker[w].group} \subseteq Unread
           /\ \/ /\ UNCHANGED failures
                 /\ worker'[w].sites = {s \in Sites : GroupOf[s] = worker[w].group
                                                      /\ tree[s] > 0}
              \/ /\ failures < MaxFailures /\ failures' = failures + 1
                 /\ worker'[w].sites = {}
           /\ UNCHANGED <<tree, announced, update, lastUpdate, pc, result, scan, dm>>
  <1> DEFINE g == worker[w].group
             there == {s \in Sites : GroupOf[s] = g /\ tree[s] > 0}
  <1>1. /\ UNCHANGED <<tree, announced, update, lastUpdate, pc, unsent, wg,
                       fanInClosed, collector, result, scan, dm>>
        /\ g # None /\ ~worker[w].listed
        /\ worker[w].sites = {} /\ worker[w].job = None /\ worker[w].running
        /\ worker[w] \in WorkerStates /\ worker \in [Workers -> WorkerStates]
    BY AtWork DEF ReadProjects, IInv, WorkersIdle, TypeOK
  <1>2. PICK ls : /\ \/ ls = there /\ UNCHANGED failures
                     \/ /\ ls = {} /\ failures < MaxFailures
                        /\ failures' = failures + 1
                  /\ worker' = [worker EXCEPT ![w] =
                                [worker[w] EXCEPT !.listed = TRUE, !.sites = ls]]
    <2>1. CASE /\ worker' = [worker EXCEPT ![w].listed = TRUE, ![w].sites = there]
               /\ UNCHANGED failures
      <3>1. worker' = [worker EXCEPT ![w] =
                                [worker[w] EXCEPT !.listed = TRUE, !.sites = there]]
        BY Zenon, <1>1, <2>1
      <3> QED
        BY Zenon, <2>1, <3>1
    <2>2. CASE /\ worker' = [worker EXCEPT ![w].listed = TRUE]
               /\ failures < MaxFailures /\ failures' = failures + 1
      <3>1. worker' = [worker EXCEPT ![w] =
                                [worker[w] EXCEPT !.listed = TRUE, !.sites = {}]]
        BY Zenon, <1>1, <2>2 DEF WorkerStates
      <3> QED
        BY Zenon, <2>2, <3>1
    <2> QED
      BY Zenon, <2>1, <2>2 DEF ReadProjects
  <1>3. PICK new : new = [worker[w] EXCEPT !.listed = TRUE, !.sites = ls]
    OBVIOUS
  <1>4. ls \subseteq there /\ there \subseteq Sites
    BY <1>2
  <1>5. /\ new \in WorkerStates /\ new.running /\ new.group = g /\ new.listed
        /\ new.sites = ls /\ new.job = None
    BY Zenon, <1>1, <1>3, <1>4 DEF WorkerStates
  <1>6. failures' \in Nat /\ result' \in Jobs \cup {None}
        /\ (collector = "done" => result' = None)
    BY <1>1, <1>2, AtWork
  <1>7. worker' = [worker EXCEPT ![w] = new]
    BY <1>2, <1>3
  <1>8. /\ TypeOK' /\ WorkersIdle' /\ Phases' /\ GroupsApart' /\ OwnGroup'
        /\ worker'[w] = new /\ \A v \in Workers \ {w} : worker'[v] = worker[v]
    BY Zenon, <1>1, <1>4, <1>5, <1>6, <1>7, WorkerMoves
  <1>9. \A s \in Sites : GroupOf[s] = g =>
                s \in Unread /\ (s \in Unread' <=> s \in ls)
    BY <1>1, <1>5, <1>8, OwnUnreadHolds, OwnUnreadNext DEF IInv, OwnUnread
  <1>10. \A s \in Sites : GroupOf[s] # g => (s \in Unread' <=> s \in Unread)
    BY <1>1, <1>5, <1>8, OthersUnread
  <1>11. \A v \in Workers : worker'[v].job = worker[v].job
    BY <1>1, <1>5, <1>8
  <1>12. \A s \in Sites : Sent(s)' = Sent(s)
    BY <1>1, <1>11 DEF Sent
  <1>13. Unread' \subseteq Unread
    BY <1>9, <1>10 DEF Unread
  <1>14. ReadOnce'
    BY <1>1, <1>11, <1>12, <1>13, ReadOnceKept
  <1>15. IInv'
    BY <1>8, <1>14 DEF IInv
  <1> QED
    BY <1>1, <1>2, <1>4, <1>5, <1>8, <1>9, <1>10, <1>12, <1>15

\* A worker reads a site that nobody has read.
LEMMA ReadStep ==
    ASSUME IInv, NEW w \in Workers, NEW s \in Sites, ReadProject(w, s)
    PROVE  /\ IInv'
           /\ s \in Unread
           /\ \A t \in Sites : t \in Unread' <=> t \in Unread /\ t # s
           /\ \A t \in Sites : t # s => Sent(t)' = Sent(t)
           /\ worker'[w].job # None /\ worker'[w].job.site = s
           /\ \/ worker'[w].job.at = tree[s] /\ failures' = failures
              \/ /\ worker'[w].job.at = 0
                 /\ failures < MaxFailures /\ failures' = failures + 1
           /\ UNCHANGED <<tree, announced, update, lastUpdate, pc, result, scan, dm>>
  <1>1. PICK at \in {0, tree[s]} :
            /\ worker' = [worker EXCEPT ![w].sites = @ \ {s},
                                        ![w].job = [site |-> s, at |-> at]]
            /\ failures' = IF at = tree[s] THEN failures ELSE failures + 1
    BY Zenon DEF ReadProject
  <1>2. /\ UNCHANGED <<tree, announced, update, lastUpdate, pc, unsent, wg,
                       fanInClosed, collector, result, scan, dm>>
        /\ s \in worker[w].sites /\ worker[w].job = None /\ failures' <= MaxFailures
        /\ worker[w].listed /\ worker[w].group # None /\ worker[w].running
        /\ worker[w] \in WorkerStates /\ worker \in [Workers -> WorkerStates]
        /\ tree[s] \in Nat /\ failures \in Nat /\ MaxFailures \in Nat
    BY AtWork, DiskSourceAssumption DEF ReadProject, IInv, TypeOK
  <1>3. PICK left, job, new :
            /\ left = worker[w].sites \ {s} /\ job = [site |-> s, at |-> at]
            /\ new = [worker[w] EXCEPT !.sites = left, !.job = job]
    BY Zenon
  <1>4. /\ left \subseteq Sites /\ job \in Jobs /\ job # None
        /\ job.site = s /\ job.at = at
    BY <1>1, <1>2, <1>3, NilAssumption DEF WorkerStates, Jobs
  <1>5. /\ new \in WorkerStates /\ new.running /\ new.group = worker[w].group
        /\ new.listed /\ new.sites = left /\ new.job = job
    BY Zenon, <1>2, <1>3, <1>4 DEF WorkerStates
  <1>6. failures' \in Nat /\ result' \in Jobs \cup {None}
        /\ (collector = "done" => result' = None)
    BY <1>1, <1>2, AtWork
  <1>7. worker' = [worker EXCEPT ![w] = new]
    BY Zenon, <1>1, <1>2, <1>3
  <1>8. \A t \in worker[w].sites : GroupOf[t] = worker[w].group
    BY DEF IInv, OwnGroup
  <1>9. s \notin left /\ \A t \in left : t \in worker[w].sites
    BY <1>3
  <1>10. \A t \in Sites : t \in left <=> t \in worker[w].sites /\ t # s
    BY <1>3
  <1>11. /\ TypeOK' /\ WorkersIdle' /\ Phases' /\ GroupsApart' /\ OwnGroup'
         /\ worker'[w] = new /\ \A v \in Workers \ {w} : worker'[v] = worker[v]
    BY Zenon, <1>2, <1>4, <1>5, <1>6, <1>7, <1>8, <1>9, WorkerMoves
  <1>12. \A t \in Sites : GroupOf[t] = worker[w].group =>
                /\ t \in Unread <=> t \in worker[w].sites
                /\ t \in Unread' <=> t \in left
    BY <1>2, <1>5, <1>11, OwnUnreadHolds, OwnUnreadNext DEF IInv, OwnUnread
  <1>13. \A t \in Sites : GroupOf[t] # worker[w].group =>
                (t \in Unread' <=> t \in Unread)
    BY <1>2, <1>5, <1>11, OthersUnread
  <1>14. s \in Unread /\ \A t \in Sites : t \in Unread' <=> t \in Unread /\ t # s
    BY <1>2, <1>8, <1>10, <1>12, <1>13
  <1>15. \A v \in Workers \ {w} : worker'[v].job = worker[v].job
    BY <1>11
  <1>16. \A t \in Sites : t # s => Sent(t)' = Sent(t)
    <2>1. worker'[w].job = job /\ worker[w].job = None /\ job # None /\ job.site = s
      BY <1>2, <1>4, <1>5, <1>11
    <2>2. result' = result
      BY <1>2
    <2> QED
      BY <1>15, <2>1, <2>2 DEF Sent
  <1>17. Unread' \subseteq Unread
    BY <1>14 DEF Unread
  <1>18. ReadOnce'
    BY <1>2, <1>4, <1>5, <1>11, <1>14, <1>15, <1>16, <1>17, ReadOnceKept
  <1>19. IInv'
    BY <1>11, <1>18 DEF IInv
  <1>20. \/ at = tree[s] /\ failures' = failures
         \/ at = 0 /\ failures < MaxFailures /\ failures' = failures + 1
    BY <1>1, <1>2
  <1> QED
    BY <1>2, <1>4, <1>5, <1>11, <1>14, <1>16, <1>19, <1>20

\* The result goes from the worker to the collector.
LEMMA FanInStep ==
    ASSUME IInv, NEW w \in Workers, FanIn(w)
    PROVE  IInv' /\ Unread' = Unread /\ \A s \in Sites : Sent(s)' = Sent(s)
  <1>1. PICK job, new : job = worker[w].job /\ new = [worker[w] EXCEPT !.job = None]
    BY Zenon
  <1>2. /\ UNCHANGED <<tree, announced, update, failures, lastUpdate, pc, unsent, wg,
                       fanInClosed, collector, scan, dm>>
        /\ job # None /\ result = None /\ result' = job
        /\ collector = "receiving"
        /\ worker' = [worker EXCEPT ![w] = new]
        /\ worker[w].listed /\ worker[w].group # None /\ worker[w].running
        /\ worker[w] \in WorkerStates
    BY <1>1, AtWork DEF FanIn, env
  <1>3. /\ new \in WorkerStates /\ new.running /\ new.group = worker[w].group
        /\ new.listed /\ new.sites = worker[w].sites /\ new.job = None
        /\ job \in Jobs
    BY <1>1, <1>2 DEF WorkerStates
  <1>4. failures' \in Nat /\ result' \in Jobs \cup {None}
        /\ (collector = "done" => result' = None)
    BY <1>2, <1>3, AtWork
  <1>5. \A t \in worker[w].sites : GroupOf[t] = worker[w].group
    BY DEF IInv, OwnGroup
  <1>6. /\ TypeOK' /\ WorkersIdle' /\ Phases' /\ GroupsApart' /\ OwnGroup'
        /\ worker'[w] = new /\ \A v \in Workers \ {w} : worker'[v] = worker[v]
    BY Zenon, <1>2, <1>3, <1>4, <1>5, WorkerMoves
  <1>7. Unread' = Unread
    <2>1. \A v \in Workers : /\ worker'[v].sites = worker[v].sites
                             /\ worker'[v].group = worker[v].group
                             /\ worker'[v].listed <=> worker[v].listed
      BY <1>2, <1>3, <1>6
    <2> QED
      BY <1>2, <2>1, SameUnread
  <1>8. \A s \in Sites : Sent(s)' = Sent(s)
    BY <1>1, <1>2, <1>3, <1>6 DEF Sent
  <1>9. ReadOnce'
    <2>1. job.site \in Sites /\ GroupOf[job.site] = worker[w].group
          /\ job.site \notin worker[w].sites
      BY <1>1, <1>2, <1>3 DEF IInv, OwnGroup, Jobs
    <2>2. job.site \notin Unread
      BY <1>2, <2>1, OwnUnreadHolds DEF IInv, OwnUnread
    <2>3. \A v \in Workers \ {w} :
                worker[v].job # None => worker[v].job.site # job.site
      BY <1>1, <1>2, JobsApart DEF IInv
    <2> QED
      BY <1>2, <1>3, <1>6, <1>7, <1>8, <2>2, <2>3 DEF IInv, ReadOnce
  <1> QED
    BY <1>6, <1>7, <1>8, <1>9 DEF IInv

\* The worker gives up a group that is read.
LEMMA GroupReadStep ==
    ASSUME IInv, NEW w \in Workers, GroupRead(w)
    PROVE  IInv' /\ Unread' = Unread /\ \A s \in Sites : Sent(s)' = Sent(s)
  <1>1. PICK new : new = Receiving
    OBVIOUS
  <1>2. /\ UNCHANGED <<tree, announced, update, failures, lastUpdate, pc, unsent, wg,
                       fanInClosed, collector, result, scan, dm>>
        /\ worker' = [worker EXCEPT ![w] = new]
        /\ worker[w].listed /\ worker[w].group # None /\ worker[w].running
        /\ worker[w].sites = {} /\ worker[w].job = None
    BY Zenon, <1>1, AtWork DEF GroupRead, env
  <1>3. /\ new \in WorkerStates /\ new.running /\ new.group = None
        /\ ~new.listed /\ new.sites = {} /\ new.job = None
    BY <1>1 DEF WorkerStates, Receiving
  <1>4. failures' \in Nat /\ result' \in Jobs \cup {None}
        /\ (collector = "done" => result' = None)
    BY <1>2, AtWork
  <1>5. /\ TypeOK' /\ WorkersIdle' /\ Phases' /\ GroupsApart' /\ OwnGroup'
        /\ worker'[w] = new /\ \A v \in Workers \ {w} : worker'[v] = worker[v]
    BY Zenon, <1>2, <1>3, <1>4, WorkerMoves
  <1>6. Unread' = Unread
    <2>1. \A s \in Sites : GroupOf[s] # None
      BY DiskSourceAssumption
    <2>2. /\ worker'[w].sites = worker[w].sites /\ worker'[w].group = None
          /\ worker[w].listed
      BY <1>2, <1>3, <1>5
    <2> QED
      BY <1>2, <1>5, <2>1, <2>2, SameUnread
  <1>7. \A v \in Workers : worker'[v].job = worker[v].job
    BY <1>2, <1>3, <1>5
  <1>8. \A s \in Sites : Sent(s)' = Sent(s)
    BY <1>2, <1>7 DEF Sent
  <1>9. ReadOnce'
    BY <1>2, <1>6, <1>7, <1>8, ReadOnceKept
  <1> QED
    BY <1>5, <1>6, <1>8, <1>9 DEF IInv

\* wg.Done() of a worker that runs, so that wg was not 0.
LEMMA DoneStep ==
    ASSUME IInv, NEW w \in Workers, WorkerDone(w)
    PROVE  IInv' /\ Unread' = Unread /\ \A s \in Sites : Sent(s)' = Sent(s)
  <1>1. PICK new : new = [worker[w] EXCEPT !.running = FALSE]
    BY Zenon
  <1>2. /\ UNCHANGED <<tree, announced, update, failures, lastUpdate, pc, unsent,
                       fanInClosed, collector, result, scan, dm>>
        /\ worker' = [worker EXCEPT ![w] = new] /\ wg' = wg - 1 /\ pc = "wait"
        /\ worker[w].running /\ worker[w].group = None /\ ~worker[w].listed
        /\ worker[w].sites = {} /\ worker[w].job = None
        /\ worker \in [Workers -> WorkerStates] /\ wg \in Int
    BY <1>1 DEF WorkerDone, env, Receiving, IInv, TypeOK
  <1>3. /\ new \in WorkerStates /\ ~new.running /\ new.group = None
        /\ ~new.listed /\ new.sites = {} /\ new.job = None
    BY Zenon, <1>1, <1>2 DEF WorkerStates
  <1>4. /\ worker' \in [Workers -> WorkerStates] /\ worker'[w] = new
        /\ \A v \in Workers \ {w} : worker'[v] = worker[v]
    BY <1>2, <1>3
  <1>5. TypeOK'
    BY <1>2, <1>4 DEF IInv, TypeOK
  <1>6. WorkersIdle' /\ OwnGroup'
    <2>1. WorkersIdle'
      BY <1>3, <1>4 DEF IInv, WorkersIdle
    <2>2. OwnGroup'
      BY <1>3, <1>4 DEF IInv, OwnGroup
    <2> QED
      BY <2>1, <2>2
  <1>7. GroupsApart'
    <2>1. \A v \in Workers : worker'[v].group = worker[v].group
      BY <1>2, <1>3, <1>4
    <2> QED
      BY <1>2, <2>1 DEF IInv, GroupsApart
  <1>8. Phases'
    <2>1. Running' = Running \ {w} /\ w \in Running
      BY <1>2, <1>3, <1>4 DEF Running
    <2>2. IsFiniteSet(Running)
      <3>1. Running \subseteq Workers
        BY DEF Running
      <3> QED
        BY <3>1, FS_Subset, DiskSourceAssumption
    <2>3. Cardinality(Running') = Cardinality(Running) - 1
      BY <2>1, <2>2, FS_RemoveElement
    <2>4. ~fanInClosed
      BY <1>2, AtRest
    <2> QED
      BY <1>2, <2>3, <2>4 DEF IInv, Phases
  <1>9. Unread' = Unread
    <2>1. \A s \in Sites : GroupOf[s] # None
      BY DiskSourceAssumption
    <2>2. /\ worker'[w].sites = worker[w].sites /\ worker'[w].group = None
          /\ worker[w].group = None
      BY <1>2, <1>3, <1>4
    <2> QED
      BY <1>2, <1>4, <2>1, <2>2, SameUnread
  <1>10. \A v \in Workers : worker'[v].job = worker[v].job
    BY <1>2, <1>3, <1>4
  <1>11. \A s \in Sites : Sent(s)' = Sent(s)
    BY <1>2, <1>10 DEF Sent
  <1>12. ReadOnce'
    BY <1>2, <1>9, <1>10, <1>11, ReadOnceKept
  <1> QED
    BY <1>5, <1>6, <1>7, <1>8, <1>9, <1>11, <1>12 DEF IInv

\* Before the first scan.
LEMMA Initial == Init => IInv
  <1> SUFFICES ASSUME Init PROVE IInv
    OBVIOUS
  <1>1. \A w \in Workers :
            /\ worker[w].running = FALSE /\ worker[w].group = None
            /\ worker[w].listed = FALSE
            /\ worker[w].sites = {} /\ worker[w].job = None
    BY DEF Init, Receiving
  <1>2. worker \in [Workers -> WorkerStates]
    BY Zenon DEF Init, Receiving, WorkerStates
  <1>3. TypeOK
    <2>1. tree \in [Sites -> Nat] /\ scan \in [Sites -> Nat]
      BY DEF Init
    <2>2. /\ announced \in BOOLEAN /\ fanInClosed \in BOOLEAN
          /\ collector \in {"receiving", "done"}
          /\ pc \in {"poll", "list", "send", "wait"}
      BY DEF Init
    <2>3. /\ update \in Nat /\ failures \in Nat /\ wg \in Int
          /\ lastUpdate \in Nat \cup {None} /\ unsent \in SUBSET Groups
          /\ result \in Jobs \cup {None} /\ dm \in [Sites -> Nat] \cup {None}
      BY DEF Init
    <2> QED
      BY <1>2, <2>1, <2>2, <2>3 DEF TypeOK
  <1>4. WorkersIdle /\ OwnGroup /\ GroupsApart /\ ReadOnce
    BY Zenon, <1>1 DEF Init, WorkersIdle, OwnGroup, GroupsApart, ReadOnce
  <1>5. Phases
    <2>1. Running = {}
      BY <1>1 DEF Running
    <2> QED
      BY <2>1, FS_EmptySet DEF Init, Phases
  <1> QED
    BY <1>3, <1>4, <1>5 DEF IInv

\* The inductive invariant.
THEOREM Inductive == Spec => []IInv
  <1>1. IInv /\ [Next]_vars => IInv'
    <2> SUFFICES ASSUME IInv, [Next]_vars PROVE IInv'
      OBVIOUS
    <2>1. CASE (\E s \in Sites : Deploy(s)) \/ Announce \/ ReadUpdate
               \/ ReadDirentsFails \/ UNCHANGED vars
      BY <2>1, WatchSteps
    <2>2. CASE CloseFanOut \/ CloseFanIn \/ CollectorDone \/ UpdateDomains
      BY <2>2, EndSteps
    <2>3. CASE ReadDirents \/ ReadProjectConfig
      BY <2>3, BeginStep, CollectStep
    <2>4. ASSUME NEW w \in Workers,
                 \/ \E g \in Groups : FanOut(g, w)
                 \/ ReadProjects(w)
                 \/ \E s \in Sites : ReadProject(w, s)
                 \/ FanIn(w) \/ GroupRead(w) \/ WorkerDone(w)
          PROVE  IInv'
      BY <2>4, FanOutStep, ListStep, ReadStep, FanInStep, GroupReadStep, DoneStep
    <2> QED
      BY <2>1, <2>2, <2>3, <2>4 DEF Next, Watch, Scan
  <1> QED
    BY Initial, <1>1, PTL DEF Spec

\* ReadGroups: neither wg.Done() below zero nor a send into the closed fanIn.
THEOREM NoPanicHolds == Spec => []NoPanic
  <1>1. IInv => NoPanic
    <2> SUFFICES ASSUME IInv PROVE NoPanic
      OBVIOUS
    <2>1. wg >= 0
      <3>1. IsFiniteSet(Running)
        <4>1. Running \subseteq Workers
          BY DEF Running
        <4> QED
          BY <4>1, FS_Subset, DiskSourceAssumption
      <3> QED
        BY <3>1, FS_CardinalityType DEF IInv, Phases
    <2> QED
      BY <2>1, AtRest DEF NoPanic
  <1> QED
    BY Inductive, <1>1, PTL

-----------------------------------------------------------------------------
(* The goroutines of a scan do what DiskWatch says.                        *)

\* A step that changes neither what is unread nor what has been read.
LEMMA SameMap ==
    ASSUME UNCHANGED scan, \A s \in Sites : Sent(s)' = Sent(s)
    PROVE  ReadSoFar' = ReadSoFar
  <1>1. ASSUME NEW s \in Sites PROVE ReadSoFar'[s] = ReadSoFar[s]
    <2>1. Sent(s)' = Sent(s)
      OBVIOUS
    <2> QED
      BY <2>1 DEF ReadSoFar
  <1>2. /\ ReadSoFar = [s \in Sites |-> ReadSoFar[s]]
        /\ ReadSoFar' = [s \in Sites |-> ReadSoFar'[s]]
    BY DEF ReadSoFar
  <1> QED
    BY <1>1, <1>2

\* Outside a scan nothing is unread and nothing is on its way.
LEMMA NothingUnread ==
    ASSUME IInv, fanInClosed, unsent = {}
    PROVE  Unread = {}
  <1>1. \A w \in Workers : worker[w].sites = {} /\ worker[w].group = None
    BY AtRest
  <1>2. \A s \in Sites : GroupOf[s] # None
    BY DiskSourceAssumption
  <1> QED
    BY <1>1, <1>2 DEF Unread

\* The phases of a scan in which something is still to do are one in
\* DiskWatch, and steps that only pass results on are not seen there.
LEMMA Passing ==
    ASSUME IInv, NEW w \in Workers,
           (\E g \in Groups : FanOut(g, w)) \/ FanIn(w) \/ GroupRead(w)
           \/ WorkerDone(w)
    PROVE  UNCHANGED Abstract!vars
  <1>1. UNCHANGED <<tree, announced, update, failures, lastUpdate, pc, scan, dm>>
    BY DEF FanOut, FanIn, GroupRead, WorkerDone, env
  <1>2. Unread' = Unread /\ \A s \in Sites : Sent(s)' = Sent(s)
    BY FanOutStep, FanInStep, GroupReadStep, DoneStep
  <1>3. ReadSoFar' = ReadSoFar
    BY <1>1, <1>2, SameMap
  <1> QED
    BY <1>1, <1>2, <1>3 DEF Abstract!vars

\* The same for the end of a scan and for the collector.
LEMMA Collecting ==
    ASSUME IInv, IInv',
           CloseFanOut \/ CloseFanIn \/ CollectorDone \/ ReadProjectConfig
    PROVE  UNCHANGED Abstract!vars
  <1>1. /\ UNCHANGED <<tree, announced, update, failures, lastUpdate, unsent, worker,
                       dm>>
        /\ \/ pc' = pc
           \/ pc = "send" /\ pc' = "wait"
    BY DEF CloseFanOut, CloseFanIn, CollectorDone, ReadProjectConfig, env
  <1>2. Unread' = Unread
    BY <1>1, SameReads
  <1>3. ReadSoFar' = ReadSoFar
    <2>1. CASE UNCHANGED <<scan, result>>
      <3>1. \A s \in Sites : Sent(s)' = Sent(s)
        BY <1>1, <2>1, SameReads
      <3> QED
        BY <2>1, <3>1, SameMap
    <2>2. CASE ReadProjectConfig
      <3>1. Positions /\ Positions'
        BY Where, WhereNext
      <3>2. /\ result # None /\ result' = None /\ worker' = worker
            /\ scan' = [scan EXCEPT ![result.site] = result.at]
            /\ scan \in [Sites -> Nat] /\ result.site \in Sites
        BY <1>1, <2>2, <3>1 DEF ReadProjectConfig, IInv, TypeOK, Positions
      <3>3. ASSUME NEW s \in Sites PROVE ReadSoFar'[s] = ReadSoFar[s]
        <4>1. CASE s = result.site
          <5>1. \A w \in Workers : worker[w].job # None => worker[w].job.site # s
            BY <3>2, <4>1 DEF IInv, ReadOnce
          <5>2. Sent(s)' = {}
            BY <3>1, <3>2, <5>1 DEF Positions
          <5>3. ReadSoFar'[s] = scan'[s]
            BY <3>1, <5>2 DEF Positions
          <5> QED
            BY <3>1, <3>2, <4>1, <5>3 DEF Positions
        <4>2. CASE s # result.site
          <5>1. Sent(s)' = Sent(s)
            BY <3>2, <4>2 DEF Sent
          <5>2. scan'[s] = scan[s]
            BY <3>2, <4>2
          <5> QED
            BY <5>1, <5>2 DEF ReadSoFar
        <4> QED
          BY <4>1, <4>2
      <3> QED
        BY <3>1, <3>3 DEF Positions
    <2> QED
      BY <2>1, <2>2 DEF CloseFanOut, CloseFanIn, CollectorDone
  <1> QED
    BY <1>1, <1>2, <1>3 DEF Abstract!vars

\* Listing a group reads the sites that are not there, reading a project reads
\* it: unless the read fails.
LEMMA Reading ==
    ASSUME IInv, IInv', NEW w \in Workers,
           ReadProjects(w) \/ \E s \in Sites : ReadProject(w, s)
    PROVE  \E S \in SUBSET Sites : Abstract!Read(S) \/ Abstract!Skip(S)
  <1>1. pc \in {"send", "wait"} /\ pc' = pc
    <2>1. pc' = pc
      BY Zenon DEF ReadProjects, ReadProject
    <2>2. worker[w].group # None
      BY Zenon, AtWork DEF ReadProjects, ReadProject
    <2>3. ~fanInClosed
      BY <2>2, AtRest
    <2> QED
      BY <2>1, <2>3 DEF IInv, Phases, TypeOK
  <1>2. Positions /\ Positions'
    BY Where, WhereNext
  <1>3. \A s \in Unread : Sent(s) = {} => ReadSoFar[s] = 0
    BY <1>1, <1>2 DEF IInv, ReadOnce, Positions, Unread
  <1>4. \A s \in Unread : ReadSoFar[s] = 0
    <2>1. ASSUME NEW s \in Unread, result # None, result.site = s PROVE FALSE
      BY Zenon, <2>1 DEF IInv, ReadOnce
    <2>2. ASSUME NEW s \in Unread, NEW v \in Workers, worker[v].job # None,
                 worker[v].job.site = s
          PROVE  FALSE
      <3>1. s \in Sites /\ GroupOf[s] = worker[v].group /\ s \notin worker[v].sites
            /\ worker[v].listed
        BY <2>2, AtWork DEF Unread, IInv, OwnGroup
      <3> QED
        BY Zenon, <2>2, <3>1, OwnUnreadHolds DEF IInv, OwnUnread
    <2> QED
      BY <1>2, <1>3, <2>1, <2>2 DEF Positions, Unread
  <1>5. Unread \subseteq Sites /\ Unread' \subseteq Sites
    BY DEF Unread
  <1>6. CASE ReadProjects(w)
    <2> DEFINE G == {s \in Sites : GroupOf[s] = worker[w].group}
               S == G \ worker'[w].sites
    <2>1. /\ \A s \in Sites : Sent(s)' = Sent(s)
          /\ \A s \in Sites : s \in Unread' <=>
                s \in Unread
                /\ (GroupOf[s] = worker[w].group => s \in worker'[w].sites)
          /\ G \subseteq Unread
          /\ \/ /\ UNCHANGED failures
                /\ worker'[w].sites = {s \in Sites : GroupOf[s] = worker[w].group
                                                     /\ tree[s] > 0}
             \/ /\ failures < MaxFailures /\ failures' = failures + 1
          /\ UNCHANGED <<tree, announced, update, lastUpdate, pc, scan, dm>>
      BY <1>6, ListStep
    <2>2. ReadSoFar' = ReadSoFar
      BY <2>1, SameMap
    <2>3. Unread' = Unread \ S
      BY <1>5, <2>1
    <2>4. CASE failures < MaxFailures /\ failures' = failures + 1
      <3>1. Abstract!Skip(S)
        BY <1>1, <2>1, <2>2, <2>3, <2>4 DEF Abstract!Skip
      <3> QED
        BY <3>1
    <2>5. CASE /\ UNCHANGED failures
               /\ worker'[w].sites = {s \in Sites : GroupOf[s] = worker[w].group
                                                    /\ tree[s] > 0}
      <3>1. \A s \in S : tree[s] = 0 /\ ReadSoFar[s] = 0
        <4>1. \A s \in S : s \in Sites /\ s \in Unread /\ ~(tree[s] > 0)
          BY <2>1, <2>5
        <4>2. \A s \in Sites : tree[s] \in Nat
          BY DEF IInv, TypeOK
        <4> QED
          BY <1>4, <4>1, <4>2
      <3>2. ReadSoFar = [s \in Sites |-> IF s \in S THEN tree[s] ELSE ReadSoFar[s]]
        BY <1>2, <3>1 DEF Positions
      <3>3. Abstract!Read(S)
        BY Zenon, <1>1, <2>1, <2>2, <2>3, <2>5, <3>2 DEF Abstract!Read
      <3> QED
        BY <3>3
    <2> QED
      BY <2>1, <2>4, <2>5
  <1>7. ASSUME NEW s \in Sites, ReadProject(w, s)
        PROVE  \E S \in SUBSET Sites : Abstract!Read(S) \/ Abstract!Skip(S)
    <2>1. /\ s \in Unread
          /\ \A t \in Sites : t \in Unread' <=> t \in Unread /\ t # s
          /\ \A t \in Sites : t # s => Sent(t)' = Sent(t)
          /\ worker'[w].job # None /\ worker'[w].job.site = s
          /\ \/ worker'[w].job.at = tree[s] /\ failures' = failures
             \/ /\ worker'[w].job.at = 0
                /\ failures < MaxFailures /\ failures' = failures + 1
          /\ UNCHANGED <<tree, announced, update, lastUpdate, pc, scan, dm>>
      BY <1>7, ReadStep
    <2>2. Unread' = Unread \ {s} /\ {s} \subseteq Unread /\ {s} \in SUBSET Sites
      BY <1>5, <2>1
    <2>3. ReadSoFar'[s] = worker'[w].job.at
      BY <1>2, <2>1 DEF Positions
    <2>4. ASSUME NEW t \in Sites, t # s PROVE ReadSoFar'[t] = ReadSoFar[t]
      <3>1. Sent(t)' = Sent(t) /\ scan' = scan
        BY <2>1, <2>4
      <3> QED
        BY <3>1 DEF ReadSoFar
    <2>5. CASE worker'[w].job.at = tree[s] /\ failures' = failures
      <3>1. ReadSoFar' = [t \in Sites |-> IF t \in {s} THEN tree[t] ELSE ReadSoFar[t]]
        BY <1>2, <2>3, <2>4, <2>5 DEF Positions
      <3>2. Abstract!Read({s})
        BY <1>1, <2>1, <2>2, <2>5, <3>1 DEF Abstract!Read
      <3> QED
        BY <2>2, <3>2
    <2>6. CASE /\ worker'[w].job.at = 0
               /\ failures < MaxFailures /\ failures' = failures + 1
      <3>1. ReadSoFar' = ReadSoFar
        <4>1. ReadSoFar'[s] = ReadSoFar[s]
          BY <1>4, <2>1, <2>3, <2>6
        <4>2. \A t \in Sites : ReadSoFar'[t] = ReadSoFar[t]
          BY <2>4, <4>1
        <4> QED
          BY <1>2, <4>2 DEF Positions
      <3>2. Abstract!Skip({s})
        BY <1>1, <2>1, <2>2, <2>6, <3>1 DEF Abstract!Skip
      <3> QED
        BY <2>2, <3>2
    <2> QED
      BY <2>1, <2>5, <2>6
  <1> QED
    BY <1>6, <1>7

\* Every step is a step of DiskWatch, or is not seen there.
LEMMA StepRefines ==
    ASSUME IInv, IInv', [Next]_vars
    PROVE  [Abstract!Next]_(Abstract!vars)
  <1>1. CASE UNCHANGED vars
    <2>1. Unread' = Unread /\ \A s \in Sites : Sent(s)' = Sent(s)
      BY <1>1, SameReads DEF vars
    <2>2. ReadSoFar' = ReadSoFar
      BY <1>1, <2>1, SameMap DEF vars
    <2> QED
      BY <1>1, <2>1, <2>2 DEF vars, Abstract!vars
  <1>2. CASE (\E s \in Sites : Deploy(s)) \/ Announce \/ ReadUpdate \/ ReadDirentsFails
    <2>1. UNCHANGED <<unsent, worker, result, scan, dm>>
      BY <1>2 DEF Deploy, Announce, ReadUpdate, ReadDirentsFails
    <2>2. Unread' = Unread /\ \A s \in Sites : Sent(s)' = Sent(s)
      BY <2>1, SameReads
    <2>3. ReadSoFar' = ReadSoFar
      BY <2>1, <2>2, SameMap
    <2>4. ASSUME NEW s \in Sites, Deploy(s) PROVE Abstract!Deploy(s)
      BY <2>2, <2>3, <2>4 DEF Deploy, Abstract!Deploy
    <2>5. CASE Announce
      BY <2>2, <2>3, <2>5 DEF Announce, Abstract!Announce, Abstract!Next
    <2>6. CASE ReadUpdate
      BY <2>2, <2>3, <2>6 DEF ReadUpdate, env, Abstract!Notice, Abstract!Next
    <2>7. CASE ReadDirentsFails
      BY <2>2, <2>3, <2>7 DEF ReadDirentsFails, Abstract!Fail, Abstract!Next
    <2> QED
      BY <1>2, <2>4, <2>5, <2>6, <2>7 DEF Abstract!Next
  <1>3. CASE ReadDirents
    <2>1. /\ UNCHANGED <<tree, announced, update, failures, lastUpdate, result, dm>>
          /\ pc = "list" /\ pc' = "send" /\ result = None
          /\ unsent' = {GroupOf[s] : s \in {t \in Sites : tree[t] > 0}}
          /\ scan' = [s \in Sites |-> 0]
      BY <1>3 DEF ReadDirents, env, IInv, Phases
    <2>2. \A w \in Workers : worker'[w].job = None
      BY <1>3 DEF ReadDirents, Receiving
    <2>3. ReadSoFar' = [s \in Sites |-> 0]
      <3>1. \A s \in Sites : Sent(s)' = {}
        BY <2>1, <2>2 DEF Sent
      <3>2. Positions'
        BY WhereNext
      <3>3. \A s \in Sites : ReadSoFar'[s] = 0
        BY <2>1, <3>1, <3>2 DEF Positions
      <3> QED
        BY <3>2, <3>3 DEF Positions
    <2>4. Unread' \in SUBSET Sites /\ {s \in Sites : tree[s] > 0} \subseteq Unread'
      BY <2>1 DEF Unread
    <2>5. Abstract!Begin
      BY <2>1, <2>3, <2>4 DEF Abstract!Begin, Abstract!EmptyMap
    <2> QED
      BY <2>5 DEF Abstract!Next
  <1>4. CASE UpdateDomains
    <2>1. /\ UNCHANGED <<tree, announced, update, failures, lastUpdate, unsent,
                         worker, result, scan>>
          /\ pc = "wait" /\ pc' = "poll" /\ dm' = scan
          /\ fanInClosed /\ unsent = {} /\ result = None
      BY <1>4 DEF UpdateDomains, env, IInv, Phases
    <2>2. Unread' = Unread /\ \A s \in Sites : Sent(s)' = Sent(s)
      BY <2>1, SameReads
    <2>3. ReadSoFar' = ReadSoFar
      BY <2>1, <2>2, SameMap
    <2>4. Unread = {}
      BY <2>1, NothingUnread
    <2>5. ReadSoFar = scan
      <3>1. Positions
        BY Where
      <3>2. \A s \in Sites : Sent(s) = {}
        BY <2>1, <3>1, AtRest DEF Positions
      <3>3. scan = [s \in Sites |-> scan[s]]
        BY DEF IInv, TypeOK
      <3> QED
        BY <3>1, <3>2, <3>3 DEF Positions
    <2>6. Abstract!Install
      BY <2>1, <2>2, <2>3, <2>4, <2>5 DEF Abstract!Install
    <2> QED
      BY <2>6 DEF Abstract!Next
  <1>5. CASE CloseFanOut \/ CloseFanIn \/ CollectorDone \/ ReadProjectConfig
    BY <1>5, Collecting
  <1>6. ASSUME NEW w \in Workers,
               \/ \E g \in Groups : FanOut(g, w)
               \/ ReadProjects(w)
               \/ \E s \in Sites : ReadProject(w, s)
               \/ FanIn(w) \/ GroupRead(w) \/ WorkerDone(w)
        PROVE  [Abstract!Next]_(Abstract!vars)
    <2>1. CASE ReadProjects(w) \/ \E s \in Sites : ReadProject(w, s)
      BY <2>1, Reading DEF Abstract!Next
    <2> QED
      BY <1>6, <2>1, Passing
  <1> QED
    BY <1>1, <1>2, <1>3, <1>4, <1>5, <1>6 DEF Next, Watch, Scan

\* Watch, ReadGroups and its goroutines implement DiskWatch, for any number of
\* workers: a scan loses no result and reads no site twice, and the new map is
\* in place only when it is complete.
THEOREM Refinement == Spec => WatchSpec
  <1>1. Init => Abstract!Init
    <2> SUFFICES ASSUME Init PROVE Abstract!Init
      OBVIOUS
    <2>1. IInv /\ Positions
      BY Initial, Where
    <2>2. Unread = {}
      BY <2>1, NothingUnread DEF Init
    <2>3. \A w \in Workers : worker[w].job = None
      BY DEF Init, Receiving
    <2>4. \A s \in Sites : ReadSoFar[s] = 0
      BY Zenon, <2>1, <2>3 DEF Init, Positions
    <2>5. ReadSoFar = [s \in Sites |-> 0]
      BY <2>1, <2>4 DEF Positions
    <2> QED
      BY <2>2, <2>5 DEF Init, Abstract!Init, Abstract!EmptyMap
  <1>2. IInv /\ IInv' /\ [Next]_vars => [Abstract!Next]_(Abstract!vars)
    BY StepRefines
  <1> QED
    BY Inductive, <1>1, <1>2, PTL DEF Spec, WatchSpec, Abstract!Spec

-----------------------------------------------------------------------------
(* The map never goes back, argued on the steps of DiskWatch.              *)

\* The types that the comparisons need.
LEMMA Numbers ==
    ASSUME IInv
    PROVE  \A s \in Sites : /\ tree[s] \in Nat /\ ReadSoFar[s] \in Nat
                            /\ dm # None => dm[s] \in Nat
    BY Where DEF IInv, TypeOK, Positions

\* Between is kept: a site that is read gets what is on the disk, and what is
\* on the disk only grows.
LEMMA BetweenStep ==
    ASSUME IInv, IInv', Between, [Next]_vars
    PROVE  Between'
  <1>1. [Abstract!Next]_(Abstract!vars)
    BY StepRefines
  <1>2. failures \in Nat /\ failures' \in Nat
    BY DEF IInv, TypeOK
  <1>3. \A s \in Sites : /\ tree[s] \in Nat /\ ReadSoFar[s] \in Nat
                         /\ dm # None => dm[s] \in Nat
    BY Numbers
  <1>4. pc \in {"poll", "list", "send", "wait"} /\ pc' \in {"poll", "list", "send", "wait"}
    BY DEF IInv, TypeOK
  <1>5. CASE UNCHANGED Abstract!vars
    BY <1>4, <1>5 DEF Abstract!vars, Between
  <1>6. ASSUME NEW s \in Sites, Abstract!Deploy(s) PROVE Between'
    <2>1. /\ UNCHANGED <<failures, ReadSoFar, Unread, dm>>
          /\ tree' = [tree EXCEPT ![s] = @ + 1]
          /\ pc' \in {"send", "wait"} => pc \in {"send", "wait"}
      BY <1>4, <1>6 DEF Abstract!Deploy
    <2>2. \A t \in Sites : tree'[t] >= tree[t] /\ tree'[t] \in Nat
      BY <1>3, <2>1 DEF IInv, TypeOK
    <2> QED
      BY <1>3, <2>1, <2>2 DEF Between
  <1>7. CASE Abstract!Announce \/ Abstract!Notice \/ Abstract!Fail
    <2>1. /\ UNCHANGED <<tree, ReadSoFar, Unread, dm>>
          /\ pc' \in {"send", "wait"} => pc \in {"send", "wait"}
          /\ failures' \in {failures, failures + 1}
      BY <1>4, <1>7 DEF Abstract!Announce, Abstract!Notice, Abstract!Fail
    <2> QED
      BY <1>2, <2>1 DEF Between
  <1>8. CASE Abstract!Begin
    <2>1. /\ UNCHANGED <<tree, failures, dm>>
          /\ ReadSoFar' = [s \in Sites |-> 0]
          /\ {s \in Sites : tree[s] > 0} \subseteq Unread'
      BY <1>8 DEF Abstract!Begin, Abstract!EmptyMap
    <2>2. \A s \in Sites : ReadSoFar'[s] = 0 /\ (s \in Unread' \/ tree[s] = 0)
      BY <1>3, <2>1
    <2> QED
      BY <1>3, <2>1, <2>2 DEF Between
  <1>9. ASSUME NEW S \in SUBSET Sites, Abstract!Read(S) PROVE Between'
    <2>1. /\ UNCHANGED <<tree, failures, dm>>
          /\ pc \in {"send", "wait"}
          /\ Unread' = Unread \ S
          /\ ReadSoFar' = [s \in Sites |-> IF s \in S THEN tree[s] ELSE ReadSoFar[s]]
      BY <1>4, <1>9 DEF Abstract!Read
    <2>2. \A s \in Sites : \/ ReadSoFar'[s] = tree[s]
                           \/ /\ ReadSoFar'[s] = ReadSoFar[s]
                              /\ s \in Unread' <=> s \in Unread
      <3> SUFFICES ASSUME NEW s \in Sites
                   PROVE  \/ ReadSoFar'[s] = tree[s]
                          \/ /\ ReadSoFar'[s] = ReadSoFar[s]
                             /\ s \in Unread' <=> s \in Unread
        OBVIOUS
      <3>1. ReadSoFar'[s] = IF s \in S THEN tree[s] ELSE ReadSoFar[s]
        BY <2>1
      <3> QED
        BY <2>1, <3>1
    <2> QED
      BY <1>3, <2>1, <2>2 DEF Between
  <1>10. ASSUME NEW S \in SUBSET Sites, Abstract!Skip(S) PROVE Between'
    BY <1>2, <1>10 DEF Abstract!Skip, Between
  <1>11. CASE Abstract!Install
    <2>1. /\ UNCHANGED <<tree, failures>> /\ dm' = ReadSoFar
          /\ pc \in {"send", "wait"} /\ pc' \notin {"send", "wait"}
      BY <1>4, <1>11 DEF Abstract!Install
    <2> QED
      BY <2>1 DEF Between
  <1> QED
    BY <1>1, <1>5, <1>6, <1>7, <1>8, <1>9, <1>10, <1>11 DEF Abstract!Next

\* updateDomains: unless a read has failed, no update of the map takes a site
\* back, although a scan reads the sites while they change.
THEOREM NeverBackwardsHolds == Spec => NeverBackwards
  <1>1. Init => Between
    BY DEF Init, Between
  <1>2. IInv /\ IInv' /\ Between /\ [Next]_vars => Between'
    BY BetweenStep
  <1>3. IInv /\ IInv' /\ Between /\ [Next]_vars =>
            [dm # None /\ failures = 0 => \A s \in Sites : dm'[s] >= dm[s]]_vars
    <2> SUFFICES ASSUME IInv, IInv', Between, [Next]_vars, dm # None, failures = 0,
                        NEW s \in Sites
                 PROVE  dm'[s] >= dm[s]
      OBVIOUS
    <2>1. dm[s] \in Nat /\ ReadSoFar[s] \in Nat
      BY Numbers
    <2>2. [Abstract!Next]_(Abstract!vars)
      BY StepRefines
    <2>3. CASE dm' = dm
      BY <2>1, <2>3
    <2>4. CASE Abstract!Install
      <3>1. Unread = {} /\ dm' = ReadSoFar /\ pc \in {"send", "wait"}
        BY Zenon, <2>4 DEF Abstract!Install, IInv, TypeOK
      <3> QED
        BY <2>1, <3>1 DEF Between
    <2> QED
      BY <2>2, <2>3, <2>4 DEF Abstract!Next, Abstract!vars, Abstract!Deploy,
            Abstract!Announce, Abstract!Notice, Abstract!Fail, Abstract!Begin,
            Abstract!Read, Abstract!Skip
  <1>4. Spec => []Between
    BY Inductive, <1>1, <1>2, PTL DEF Spec
  <1> QED
    BY Inductive, <1>3, <1>4, PTL DEF Spec, NeverBackwards

-----------------------------------------------------------------------------
(* What CatchesUpUnlessFailed and RepairedByNextDeploy rest on: Watch has  *)
(* nothing left to do only when the map is right, and until then some      *)
(* goroutine can go on.                                                    *)

\* When .update has been written after the last deployment and Watch is back
\* at its loop with nothing new to find there, the map in use is the disk.
Settled == announced /\ lastUpdate = update /\ pc = "poll" => dm = tree

\* A scan for the .update of the last deployment finds what is on the disk.
Current ==
    /\ lastUpdate # None => lastUpdate <= update
    /\ Settled
    /\ announced /\ lastUpdate = update /\ pc \in {"send", "wait"} =>
            \A s \in Sites : s \in Unread \/ ReadSoFar[s] = tree[s]

\* Unless a read fails, each step keeps it: a deployment is not announced at
\* first, and its announcement is one that Watch has not seen.
LEMMA CurrentStep ==
    ASSUME IInv, IInv', Current, [Next]_vars, failures' = failures
    PROVE  Current'
  <1>1. [Abstract!Next]_(Abstract!vars)
    BY StepRefines
  <1>2. /\ update \in Nat /\ lastUpdate \in Nat \cup {None} /\ failures \in Nat
        /\ pc \in {"poll", "list", "send", "wait"}
        /\ pc' \in {"poll", "list", "send", "wait"}
        /\ None \notin Nat
    BY Zenon, DiskSourceAssumption DEF IInv, TypeOK
  <1>3. CASE UNCHANGED Abstract!vars
    <2>1. /\ UNCHANGED <<tree, announced, update, lastUpdate, Unread, ReadSoFar, dm>>
          /\ pc' = "poll" <=> pc = "poll"
          /\ pc' \in {"send", "wait"} <=> pc \in {"send", "wait"}
      BY <1>2, <1>3 DEF Abstract!vars
    <2> QED
      BY Zenon, <2>1 DEF Current, Settled
  <1>4. ASSUME NEW s \in Sites, Abstract!Deploy(s) PROVE Current'
    BY <1>4 DEF Abstract!Deploy, Current, Settled
  <1>5. CASE Abstract!Announce
    <2>1. update' = update + 1 /\ lastUpdate' = lastUpdate
      BY <1>5 DEF Abstract!Announce
    <2>2. lastUpdate' # update' /\ (lastUpdate' # None => lastUpdate' <= update')
      BY <1>2, <2>1 DEF Current
    <2> QED
      BY <2>2 DEF Current, Settled
  <1>6. CASE Abstract!Notice
    <2>1. lastUpdate' = update /\ update' = update /\ pc' = "list"
      BY <1>2, <1>6 DEF Abstract!Notice
    <2> QED
      BY <1>2, <2>1 DEF Current, Settled
  <1>7. CASE Abstract!Fail \/ \E S \in SUBSET Sites : Abstract!Skip(S)
    <2>1. failures' = failures + 1
      BY <1>7 DEF Abstract!Fail, Abstract!Skip
    <2> QED
      BY <1>2, <2>1
  <1>8. CASE Abstract!Begin
    <2>1. /\ UNCHANGED <<tree, update, lastUpdate>> /\ pc' # "poll"
          /\ ReadSoFar' = [s \in Sites |-> 0]
          /\ {s \in Sites : tree[s] > 0} \subseteq Unread'
      BY <1>8 DEF Abstract!Begin, Abstract!EmptyMap
    <2>2. \A s \in Sites : tree[s] \in Nat
      BY Numbers
    <2>3. \A s \in Sites : s \in Unread' \/ ReadSoFar'[s] = tree'[s]
      BY <2>1, <2>2
    <2> QED
      BY <2>1, <2>3 DEF Current, Settled
  <1>9. ASSUME NEW S \in SUBSET Sites, Abstract!Read(S) PROVE Current'
    <2>1. /\ UNCHANGED <<tree, announced, update, lastUpdate>>
          /\ pc \in {"send", "wait"} /\ pc' # "poll"
          /\ Unread' = Unread \ S
          /\ ReadSoFar' = [s \in Sites |-> IF s \in S THEN tree[s] ELSE ReadSoFar[s]]
      BY <1>2, <1>9 DEF Abstract!Read
    <2>2. \A s \in Sites : s \in Unread \/ ReadSoFar[s] = tree[s] =>
                           s \in Unread' \/ ReadSoFar'[s] = tree'[s]
      BY <2>1
    <2> QED
      BY <2>1, <2>2 DEF Current, Settled
  <1>10. CASE Abstract!Install
    <2>1. /\ UNCHANGED <<tree, announced, update, lastUpdate>>
          /\ pc \in {"send", "wait"} /\ pc' \notin {"send", "wait"}
          /\ Unread = {} /\ dm' = ReadSoFar
      BY <1>2, <1>10 DEF Abstract!Install
    <2>2. announced /\ lastUpdate = update => \A s \in Sites : ReadSoFar[s] = tree[s]
      BY <2>1 DEF Current
    <2>3. /\ ReadSoFar = [s \in Sites |-> ReadSoFar[s]]
          /\ tree = [s \in Sites |-> tree[s]]
      BY Where DEF Positions, IInv, TypeOK
    <2>4. announced /\ lastUpdate = update => ReadSoFar = tree
      BY <2>2, <2>3
    <2> QED
      BY <2>1, <2>4 DEF Current, Settled
  <1> QED
    BY <1>1, <1>3, <1>4, <1>5, <1>6, <1>7, <1>8, <1>9, <1>10 DEF Abstract!Next

\* Steps count failed reads and do nothing else to the count.
LEMMA FailuresCounted ==
    ASSUME IInv, [Next]_vars
    PROVE  /\ failures' \in {failures, failures + 1}
           /\ failures <= MaxFailures => failures' <= MaxFailures
  <1>1. failures \in Nat /\ MaxFailures \in Nat
    BY DiskSourceAssumption DEF IInv, TypeOK
  <1>2. ASSUME NEW w \in Workers, ReadProjects(w)
        PROVE  failures' \in {failures, failures + 1}
               /\ (failures <= MaxFailures => failures' <= MaxFailures)
    BY <1>1, <1>2 DEF ReadProjects
  <1>3. ASSUME NEW w \in Workers, NEW s \in Sites, ReadProject(w, s)
        PROVE  failures' \in {failures, failures + 1}
               /\ (failures <= MaxFailures => failures' <= MaxFailures)
    BY <1>1, <1>3 DEF ReadProject
  <1>4. CASE ReadDirentsFails
    BY <1>1, <1>4 DEF ReadDirentsFails
  <1>5. CASE failures' = failures
    BY <1>1, <1>5
  <1> QED
    BY <1>2, <1>3, <1>4, <1>5
       DEF Next, Watch, Scan, Deploy, Announce, ReadUpdate, ReadDirents, env,
           CloseFanOut, FanOut, FanIn, GroupRead, WorkerDone, CloseFanIn,
           ReadProjectConfig, CollectorDone, UpdateDomains, vars

\* Watch reads .update before the tree, so that unless a read has failed it is
\* never content with a map that misses a deployment which was announced.
THEOREM SettledUnlessFailed == Spec => [](failures = 0 => Settled)
  <1> DEFINE Good == failures = 0 => Current
  <1>1. Init => Good
    BY DiskSourceAssumption DEF Init, Current, Settled
  <1>2. IInv /\ IInv' /\ Good /\ [Next]_vars => Good'
    <2> SUFFICES ASSUME IInv, IInv', Good, [Next]_vars, failures' = 0
                 PROVE  Current'
      OBVIOUS
    <2>1. failures \in Nat /\ failures' \in {failures, failures + 1}
      BY FailuresCounted DEF IInv, TypeOK
    <2>2. failures = 0 /\ failures' = failures
      BY <2>1
    <2> QED
      BY <2>2, CurrentStep
  <1>3. Good => (failures = 0 => Settled)
    BY DEF Current
  <1> HIDE DEF Good
  <1> QED
    BY Inductive, <1>1, <1>2, <1>3, PTL DEF Spec

\* Whatever failed reads have left out, once no more fail Watch is never again
\* content with a map that misses something after the next deployment.
THEOREM SettledByNextDeploy ==
    Spec => [](failures = MaxFailures /\ ~announced => []Settled)
  <1> DEFINE Last == failures = MaxFailures /\ Current
             Seen == lastUpdate # None => lastUpdate <= update
             Count == failures <= MaxFailures
  <1>1. Init => Seen /\ Count
    BY DiskSourceAssumption DEF Init
  <1>2. IInv /\ IInv' /\ Seen /\ Count /\ [Next]_vars => Seen' /\ Count'
    <2> SUFFICES ASSUME IInv, IInv', Seen, Count, [Next]_vars PROVE Seen' /\ Count'
      OBVIOUS
    <2>1. update \in Nat /\ lastUpdate \in Nat \cup {None} /\ None \notin Nat
      BY DiskSourceAssumption DEF IInv, TypeOK
    <2>2. \/ lastUpdate' = lastUpdate /\ update' = update
          \/ lastUpdate' = lastUpdate /\ update' = update + 1
          \/ lastUpdate' = update /\ update' = update
      <3>1. [Abstract!Next]_(Abstract!vars)
        BY StepRefines
      <3> QED
        BY <3>1 DEF Abstract!Next, Abstract!vars, Abstract!Deploy, Abstract!Announce,
              Abstract!Notice, Abstract!Fail, Abstract!Begin, Abstract!Read,
              Abstract!Skip, Abstract!Install
    <2>3. Seen'
      BY <2>1, <2>2
    <2> QED
      BY <2>3, FailuresCounted
  <1>3. IInv /\ IInv' /\ Last /\ [Next]_vars => Last'
    <2> SUFFICES ASSUME IInv, IInv', Last, [Next]_vars PROVE Last'
      OBVIOUS
    <2>1. failures' = failures
      <3>1. failures \in Nat /\ MaxFailures \in Nat
        BY Zenon, DiskSourceAssumption DEF IInv, TypeOK
      <3> QED
        BY <3>1, FailuresCounted
    <2> QED
      BY <2>1, CurrentStep
  <1>4. Seen /\ failures = MaxFailures /\ ~announced => Last
    BY DEF Current, Settled
  <1>5. Last => Settled
    BY DEF Current
  <1>6. Spec => []Seen
    <2> HIDE DEF Seen, Count
    <2> QED
      BY Inductive, <1>1, <1>2, PTL DEF Spec
  <1>7. Spec => [](Last => []Last)
    <2> HIDE DEF Last
    <2> QED
      BY Inductive, <1>3, PTL DEF Spec
  <1> HIDE DEF Last, Seen
  <1> QED
    BY <1>4, <1>5, <1>6, <1>7, PTL

\* A goroutine of a scan that is not blocked on a channel or the WaitGroup.
SomeGoroutineRuns ==
    \/ pc = "send" /\ (unsent = {} \/ \E w \in Workers : worker[w] = Receiving)
    \/ \E w \in Workers :
        \/ worker[w].group # None /\ ~worker[w].listed
        \/ worker[w].sites # {} /\ worker[w].job = None
        \/ worker[w].job # None /\ collector = "receiving" /\ result = None
        \/ worker[w].listed /\ worker[w].sites = {} /\ worker[w].job = None
        \/ worker[w] = Receiving /\ pc = "wait"
    \/ wg = 0 /\ ~fanInClosed
    \/ result # None
    \/ collector = "receiving" /\ result = None /\ fanInClosed
    \/ pc = "wait" /\ collector = "done"

\* The sender of the groups, the workers, the goroutine that waits for them,
\* the collector and ReadGroups never all wait for one another.
THEOREM ScanNeverStuck == Spec => [](pc \in {"send", "wait"} => SomeGoroutineRuns)
  <1>1. IInv => (pc \in {"send", "wait"} => SomeGoroutineRuns)
    <2> SUFFICES ASSUME IInv, pc \in {"send", "wait"}, ~SomeGoroutineRuns PROVE FALSE
      OBVIOUS
    <2>1. /\ result = None /\ (wg = 0 => fanInClosed)
          /\ collector = "receiving" => ~fanInClosed
          /\ pc = "wait" => collector # "done"
      BY DEF SomeGoroutineRuns
    <2>2. collector \in {"receiving", "done"} /\ (collector = "done" => fanInClosed)
          /\ wg = Cardinality(Running) /\ (pc = "send" => \A w \in Workers : worker[w].running)
      BY DEF IInv, TypeOK, Phases
    <2>3. ASSUME NEW w \in Workers, worker[w].running PROVE worker[w] = Receiving
      <3>1. ~fanInClosed
        BY <2>3, AtRest
      <3>2. worker[w].job = None
        BY <2>1, <2>2, <3>1 DEF SomeGoroutineRuns
      <3>3. worker[w].sites = {}
        BY <3>2 DEF SomeGoroutineRuns
      <3>4. ~worker[w].listed
        BY <3>2, <3>3 DEF SomeGoroutineRuns
      <3>5. worker[w].group = None
        BY <3>4 DEF SomeGoroutineRuns
      <3>6. worker[w] \in WorkerStates
        BY DEF IInv, TypeOK
      <3>7. worker[w].running = TRUE /\ worker[w].listed = FALSE
        BY <2>3, <3>4, <3>6 DEF WorkerStates
      <3> QED
        BY Zenon, <3>2, <3>3, <3>5, <3>6, <3>7 DEF WorkerStates, Receiving
    <2>4. CASE \E w \in Workers : worker[w].running
      BY <2>3, <2>4 DEF SomeGoroutineRuns
    <2>5. CASE \A w \in Workers : ~worker[w].running
      <3>1. Running = {} /\ pc = "wait"
        BY <2>2, <2>5, DiskSourceAssumption DEF Running
      <3>2. wg = 0
        BY <2>2, <3>1, FS_EmptySet
      <3> QED
        BY <2>1, <2>2, <3>1, <3>2
    <2> QED
      BY <2>4, <2>5
  <1> QED
    BY Inductive, <1>1, PTL

=============================================================================
