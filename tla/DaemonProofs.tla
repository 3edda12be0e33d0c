---------------------------- MODULE DaemonProofs ----------------------------
(***************************************************************************)
(* PagesIntact, ReturnsClean and FdsMatch hold of Daemon for jails with any *)
(* number of directories and files, any number of sockets and any number   *)
(* of signals, whichever system calls fail.                                *)
(***************************************************************************)
EXTENDS Daemon, TLAPS

\* The types of the variables a removal depends on.
TypeOK ==
    /\ inPlace \in BOOLEAN /\ mounted \in BOOLEAN /\ failed \in BOOLEAN
    /\ pages \in BOOLEAN
    /\ dirs \in Nat

\* Where removeAll runs, and before the mount, nothing is mounted; while the
\* child runs the mount is there.
MountOrder ==
    /\ pc \in {"create", "mkdir", "copy", "mount", "undo", "remove"} => ~mounted
    /\ pc \in {"start", "encode", "notify", "wait"} => mounted \/ inPlace

\* Dispose finds the jail whole or finds nothing, unless removing has failed:
\* it may then give up at the mount point without leaving anything behind.
NothingLeft ==
    /\ pc = "create" => files = {} /\ dirs = 0
    /\ pc = "unmount" /\ ~failed /\ ~mounted /\ ~inPlace =>
            files = {} /\ dirs = 0
    /\ pc \in {"kill", "returned"} /\ ~failed =>
            ~mounted /\ files = {} /\ dirs = 0

ChildGone == pc = "returned" => child \in {"none", "exited"}

IInv == TypeOK /\ PagesIntact /\ MountOrder /\ NothingLeft /\ ChildGone

-----------------------------------------------------------------------------
\* removeAll with nothing mounted: the pages stay, and what is left afterwards
\* is nothing, unless a failure is recorded.
LEMMA Removed ==
    ASSUME TypeOK, pages, ~mounted, removeAll
    PROVE  /\ pages' /\ dirs' \in Nat /\ failed' \in BOOLEAN
           /\ pages' \in BOOLEAN
           /\ ~failed' => ~failed /\ files' = {} /\ dirs' = 0
  <1>1. pages' /\ pages' \in BOOLEAN
    BY Zenon DEF removeAll, TypeOK
  <1>2. CASE /\ dirs' = 0 /\ files' = {} /\ failed' = failed
    BY <1>1, <1>2 DEF TypeOK
  <1>3. CASE /\ dirs' \in IF inPlace THEN {0} ELSE 0..dirs
             /\ files' \in SUBSET files
             /\ failed' = (failed \/ files # {} \/ dirs # 0)
    <2>1. (dirs' \in Nat /\ dirs' <= dirs) \/ dirs' = 0
      BY <1>3 DEF TypeOK
    <2>2. dirs' \in Nat
      BY <2>1
    <2>3. failed' \in BOOLEAN
      BY <1>3, Zenon DEF TypeOK
    <2>4. ~failed' => ~failed /\ files = {} /\ dirs = 0
      BY <1>3, Zenon DEF TypeOK
    <2>5. dirs = 0 => dirs' = 0
      BY <2>1, <2>2 DEF TypeOK
    <2>6. files = {} => files' = {}
      BY <1>3
    <2> QED
      BY <1>1, <2>2, <2>3, <2>4, <2>5, <2>6
  <1> QED
    BY <1>2, <1>3, Zenon DEF removeAll

\* The steps outside of the jail's own.
Elsewhere ==
    \/ Create \/ Start \/ Encode \/ passSignals \/ Wait \/ killProcess
    \/ daemonMain \/ ChildEnds \/ Signal \/ Relay \/ UNCHANGED vars

\* They leave the jail alone and follow the order of daemonize.
LEMMA ElsewhereMoves ==
    ASSUME Elsewhere
    PROVE  /\ UNCHANGED <<jail, inPlace>>
           /\ \/ pc' = pc
              \/ pc = "create" /\ pc' \in {"mkdir", "kill"}
              \/ pc \in {"start", "encode", "notify", "wait"}
                   /\ pc' \in {"encode", "notify", "wait", "unmount"}
              \/ pc = "kill" /\ pc' = "returned"
              \/ pc' = "killed"
  BY DEF Elsewhere, Create, Start, Encode, passSignals, Wait, killProcess,
         daemonMain, ChildEnds, Signal, Relay, vars, jail, process, sockets

\* A child that has ended does not come back once daemonize has returned.
LEMMA ChildStep ==
    ASSUME ChildGone, [Next]_vars
    PROVE  ChildGone'
  BY DEF ChildGone, Next, ParentStep, vars, Create, Mkdir, handleFile, mount,
         Undo, unmount, Dispose, Start, Encode, passSignals, Wait, killProcess,
         daemonMain, ChildEnds, Signal, Relay, Parent, process

\* Hence they keep the invariant.
LEMMA ElsewhereStep ==
    ASSUME IInv, Elsewhere
    PROVE  (TypeOK /\ PagesIntact /\ MountOrder /\ NothingLeft)'
  <1>1. UNCHANGED <<dirs, files, mounted, pages, failed, inPlace>>
    BY ElsewhereMoves DEF jail
  <1>2. TypeOK' /\ PagesIntact'
    BY <1>1, Zenon DEF IInv, TypeOK, PagesIntact
  <1>3. MountOrder'
    BY <1>1, ElsewhereMoves DEF IInv, MountOrder
  <1>4. NothingLeft'
    BY <1>1, ElsewhereMoves DEF IInv, MountOrder, NothingLeft
  <1> QED
    BY <1>2, <1>3, <1>4

\* Build and Dispose: each of their steps keeps the invariant.
LEMMA JailStep ==
    ASSUME IInv, Mkdir \/ handleFile \/ mount \/ Undo \/ unmount \/ Dispose
    PROVE  (TypeOK /\ PagesIntact /\ MountOrder /\ NothingLeft)'
  <1> USE DEF IInv, PagesIntact
  <1>1. CASE Mkdir
    <2>1. TypeOK'
      BY <1>1 DEF Mkdir, TypeOK
    <2>2. pages' /\ UNCHANGED <<inPlace, files, mounted, failed>>
      BY <1>1, Zenon DEF Mkdir
    <2>3. pc = "mkdir" /\ pc' \in {"mkdir", "undo", "copy"}
      BY <1>1 DEF Mkdir
    <2> QED
      BY <2>1, <2>2, <2>3 DEF MountOrder, NothingLeft
  <1>2. CASE handleFile
    <2>1. UNCHANGED <<inPlace, dirs, mounted, pages, failed>>
      BY <1>2, Zenon DEF handleFile
    <2>2. pc = "copy" /\ pc' \in {"copy", "undo", "mount"}
      BY <1>2 DEF handleFile
    <2>3. TypeOK' /\ pages'
      BY <2>1, Zenon DEF TypeOK
    <2> QED
      BY <2>1, <2>2, <2>3 DEF MountOrder, NothingLeft
  <1>3. CASE mount
    <2>1. UNCHANGED <<inPlace, dirs, files, pages, failed>>
      BY <1>3, Zenon DEF mount
    <2>2. \/ pc' = "start" /\ mounted' = ~inPlace
          \/ pc' = "undo" /\ mounted' = FALSE
      BY <1>3, Zenon DEF mount
    <2>3. TypeOK' /\ pages'
      BY <2>1, <2>2, Zenon DEF TypeOK
    <2> QED
      BY <2>1, <2>2, <2>3 DEF MountOrder, NothingLeft, TypeOK
  <1>4. CASE Undo
    <2>1. pc' = "unmount" /\ ~mounted /\ UNCHANGED <<inPlace, mounted>>
      BY <1>4 DEF Undo, MountOrder
    <2>2. removeAll
      BY <1>4, Zenon DEF Undo
    <2> QED
      BY <2>1, <2>2, Removed DEF TypeOK, MountOrder, NothingLeft
  <1>5. CASE unmount
    <2>1. UNCHANGED <<inPlace, dirs, files, pages>>
      BY <1>5, Zenon DEF unmount
    <2>2. CASE mounted' = FALSE /\ pc' = "remove" /\ failed' = failed
      BY Zenon, <2>1, <2>2 DEF TypeOK, MountOrder, NothingLeft
    <2>3. CASE /\ pc = "unmount" /\ ~inPlace
               /\ mounted' = mounted /\ pc' = "kill"
               /\ failed' = (failed \/ mounted \/ dirs = NDirs)
      <3>1. TypeOK' /\ pages'
        BY <2>1, <2>3, Zenon DEF TypeOK
      <3>2. ~failed' => ~failed /\ ~mounted
        BY <2>3, Zenon
      <3>3. ~failed' => ~mounted' /\ files' = {} /\ dirs' = 0
        BY <2>1, <2>3, <3>2 DEF NothingLeft
      <3> QED
        BY <2>3, <3>1, <3>3 DEF MountOrder, NothingLeft
    <2> QED
      BY <1>5, <2>2, <2>3, Zenon DEF unmount
  <1>6. CASE Dispose
    <2>1. pc' = "kill" /\ ~mounted /\ UNCHANGED <<inPlace, mounted>>
      BY <1>6 DEF Dispose, MountOrder
    <2>2. removeAll
      BY <1>6, Zenon DEF Dispose
    <2> QED
      BY <2>1, <2>2, Removed DEF TypeOK, MountOrder, NothingLeft
  <1> QED
    BY <1>1, <1>2, <1>3, <1>4, <1>5, <1>6

\* The strengthened invariant holds in every reachable state of daemonize.
LEMMA Inductive == Spec => []IInv
  <1>1. Init => IInv
    <2> SUFFICES ASSUME Init PROVE IInv
      OBVIOUS
    <2>1. /\ pc = "create" /\ inPlace \in BOOLEAN
          /\ dirs = 0 /\ files = {} /\ mounted = FALSE /\ pages = TRUE
          /\ failed = FALSE
      BY Zenon DEF Init
    <2>2. TypeOK
      BY Zenon, <2>1 DEF TypeOK
    <2>3. PagesIntact /\ MountOrder /\ NothingLeft /\ ChildGone
      BY <2>1 DEF PagesIntact, MountOrder, NothingLeft, ChildGone
    <2> QED
      BY <2>2, <2>3 DEF IInv
  <1>2. IInv /\ [Next]_vars => IInv'
    <2> SUFFICES ASSUME IInv, [Next]_vars PROVE IInv'
      OBVIOUS
    <2>1. ChildGone'
      BY ChildStep DEF IInv
    <2>2. \/ Elsewhere
          \/ Mkdir \/ handleFile \/ mount \/ Undo \/ unmount \/ Dispose
      BY Zenon DEF Next, ParentStep, Elsewhere
    <2> QED
      BY <2>1, <2>2, ElsewhereStep, JailStep DEF IInv
  <1> QED
    BY <1>1, <1>2, PTL DEF Spec

\* Build, Unmount and RemoveAll may fail in any combination: os.RemoveAll never
\* runs while the pages root is mounted in the jail.
THEOREM PagesStay == Spec => []PagesIntact
  <1>1. IInv => PagesIntact
    BY DEF IInv
  <1> QED
    BY <1>1, Inductive, PTL

\* A daemonize that returns has no child left, and no jail unless unmounting or
\* removing it has failed.
THEOREM CleanReturn == Spec => []ReturnsClean
  <1>1. IInv => ReturnsClean
    BY DEF IInv, ChildGone, NothingLeft, ReturnsClean
  <1> QED
    BY <1>1, Inductive, PTL

-----------------------------------------------------------------------------
(* The descriptors. updateFds is followed kind by kind.                    *)

Sockets == (Kinds \cup {"config"}) \X Nat

\* The pipe is the first of the files, and the listeners of the kinds in K are
\* at the descriptors noted for them.
Matched(cmd, K) ==
    /\ cmd.files \in Seq(Sockets) /\ Len(cmd.files) >= 1
    /\ cmd.files[1] = ConfigPipe
    /\ DOMAIN cmd.fds = Kinds
    /\ \A k \in K : \A i \in 1..listeners[k] :
            /\ cmd.fds[k][i] - 2 \in 1..Len(cmd.files)
            /\ cmd.files[cmd.fds[k][i] - 2] = Socket(k, i)

\* daemonUpdateFds leaves the files before it where they are, and numbers its
\* own from the first free descriptor on.
LEMMA KindAdded ==
    ASSUME NEW cmd, NEW K \in SUBSET Kinds, NEW kind \in Kinds \ K,
           listeners \in [Kinds -> Nat], Matched(cmd, K)
    PROVE  Matched(daemonUpdateFds(cmd, kind), K \cup {kind})
  <1> DEFINE own == [i \in 1..listeners[kind] |-> Socket(kind, i)]
             at  == [i \in 1..listeners[kind] |-> 3 + Len(cmd.files) + i - 1]
             new == daemonUpdateFds(cmd, kind)
  <1>1. new.files = cmd.files \o own /\ new.fds = [cmd.fds EXCEPT ![kind] = at]
    BY DEF daemonUpdateFds
  <1>2. listeners[kind] \in Nat
    OBVIOUS
  <1>3. own \in Seq(Sockets) /\ Len(own) = listeners[kind]
    <2>1. \A i \in 1..listeners[kind] : Socket(kind, i) \in Sockets
      BY <1>2 DEF Socket, Sockets
    <2> QED
      BY <1>2, <2>1
  <1>4. cmd.files \in Seq(Sockets) /\ Len(cmd.files) \in Nat
    BY DEF Matched
  <1> HIDE DEF own, new
  <1>5. /\ new.files \in Seq(Sockets)
        /\ Len(new.files) = Len(cmd.files) + listeners[kind]
        /\ \A j \in 1..Len(cmd.files) : new.files[j] = cmd.files[j]
    <2>1. PICK f \in Seq(Sockets) : f = cmd.files
      BY <1>4
    <2>2. PICK g \in Seq(Sockets) : g = own
      BY <1>3
    <2>3. new.files = f \o g
      BY <1>1, <2>1, <2>2
    <2>4. f \o g \in Seq(Sockets) /\ Len(f \o g) = Len(f) + Len(g)
      OBVIOUS
    <2>5. \A j \in 1..Len(f) : (f \o g)[j] = f[j]
      OBVIOUS
    <2>6. Len(g) = listeners[kind]
      BY <1>3, <2>2
    <2> QED
      BY <2>1, <2>3, <2>4, <2>5, <2>6
  <1>6. \A i \in 1..listeners[kind] :
            new.files[Len(cmd.files) + i] = own[i]
    BY <1>1, <1>2, <1>3, <1>4
  <1>7. \A i \in 1..listeners[kind] : own[i] = Socket(kind, i)
    BY DEF own
  <1>8. DOMAIN new.fds = Kinds /\ new.fds[kind] = at
    BY <1>1 DEF Matched
  <1>9. \A k \in K : new.fds[k] = cmd.fds[k]
    BY <1>1 DEF Matched
  <1>10. ASSUME NEW i \in 1..listeners[kind]
         PROVE  /\ new.fds[kind][i] - 2 \in 1..Len(new.files)
                /\ new.files[new.fds[kind][i] - 2] = Socket(kind, i)
    <2>1. new.fds[kind][i] - 2 = Len(cmd.files) + i
      BY <1>2, <1>4, <1>8
    <2>2. Len(cmd.files) + i \in 1..Len(new.files)
      BY <1>2, <1>4, <1>5
    <2> QED
      BY <1>6, <1>7, <2>1, <2>2
  <1>11. ASSUME NEW k \in K, NEW i \in 1..listeners[k]
         PROVE  /\ new.fds[k][i] - 2 \in 1..Len(new.files)
                /\ new.files[new.fds[k][i] - 2] = Socket(k, i)
    <2>1. /\ cmd.fds[k][i] - 2 \in 1..Len(cmd.files)
          /\ cmd.files[cmd.fds[k][i] - 2] = Socket(k, i)
      BY DEF Matched
    <2>2. cmd.fds[k][i] - 2 \in 1..Len(new.files)
      BY <1>2, <1>4, <1>5, <2>1
    <2> QED
      BY Zenon, <1>5, <1>9, <2>1, <2>2
  <1>12. Len(new.files) >= 1 /\ new.files[1] = ConfigPipe
    BY <1>2, <1>4, <1>5 DEF Matched
  <1> QED
    BY Zenon, <1>5, <1>8, <1>10, <1>11, <1>12 DEF Matched, new

\* updateFds matches every kind, whatever the number of listeners of each.
LEMMA AllKindsAdded ==
    ASSUME listeners \in [Kinds -> Nat], DOMAIN fds = Kinds
    PROVE  Matched(updateFds([files |-> <<ConfigPipe>>, fds |-> fds]), Kinds)
  <1> DEFINE cmd     == [files |-> <<ConfigPipe>>, fds |-> fds]
             http    == daemonUpdateFds(cmd, "HTTP")
             https   == daemonUpdateFds(http, "HTTPS")
             proxy   == daemonUpdateFds(https, "Proxy")
             proxyv2 == daemonUpdateFds(proxy, "HTTPSProxyv2")
  <1>1. Matched(cmd, {})
    BY DEF Matched, ConfigPipe, Sockets
  <1> HIDE DEF cmd
  <1>2. Matched(http, {"HTTP"})
    <2>1. Matched(http, {} \cup {"HTTP"})
      BY <1>1, KindAdded DEF Kinds
    <2> QED
      BY <2>1, {} \cup {"HTTP"} = {"HTTP"}
  <1> HIDE DEF http
  <1>3. Matched(https, {"HTTP"} \cup {"HTTPS"})
    BY <1>2, KindAdded DEF Kinds
  <1> HIDE DEF https
  <1>4. Matched(proxy, {"HTTP"} \cup {"HTTPS"} \cup {"Proxy"})
    BY <1>3, KindAdded DEF Kinds
  <1> HIDE DEF proxy
  <1>5. Matched(proxyv2,
            {"HTTP"} \cup {"HTTPS"} \cup {"Proxy"} \cup {"HTTPSProxyv2"})
    BY <1>4, KindAdded DEF Kinds
  <1> HIDE DEF proxyv2
  <1>6. Matched(daemonUpdateFds(proxyv2, "Metrics"),
            {"HTTP"} \cup {"HTTPS"} \cup {"Proxy"} \cup {"HTTPSProxyv2"}
                \cup {"Metrics"})
    BY <1>5, KindAdded DEF Kinds
  <1>7. {"HTTP"} \cup {"HTTPS"} \cup {"Proxy"} \cup {"HTTPSProxyv2"}
            \cup {"Metrics"} = Kinds
    BY DEF Kinds
  <1>8. updateFds(cmd) = daemonUpdateFds(proxyv2, "Metrics")
    BY DEF updateFds, http, https, proxy, proxyv2
  <1> QED
    BY <1>6, <1>7, <1>8 DEF cmd

\* The table of descriptors has an entry for every kind, and matches
\* ExtraFiles from the start of the child to the end of the wait for it.
Numbered ==
    /\ listeners \in [Kinds -> Nat]
    /\ DOMAIN fds = Kinds
    /\ FdsMatch

\* Only Start fills in the descriptors, and only killProcess, after which
\* nothing is left to match, closes the files.
LEMMA NumberedStep ==
    ASSUME Numbered, [Next]_vars
    PROVE  Numbered'
  <1> DEFINE cmd == updateFds([files |-> <<ConfigPipe>>, fds |-> fds])
  <1>1. CASE /\ extraFiles' = cmd.files /\ fds' = cmd.fds
             /\ UNCHANGED listeners
    <2>1. Matched(cmd, Kinds)
      BY AllKindsAdded DEF Numbered
    <2> HIDE DEF cmd
    <2>2. listeners' \in [Kinds -> Nat] /\ DOMAIN fds' = Kinds
      BY <1>1, <2>1 DEF Numbered, Matched
    <2>3. extraFiles'[1] = ConfigPipe /\ DOMAIN extraFiles' = 1..Len(cmd.files)
      BY <1>1, <2>1 DEF Matched
    <2>4. \A k \in Kinds : \A i \in 1..listeners[k] :
              /\ fds'[k][i] - 2 \in DOMAIN extraFiles'
              /\ extraFiles'[fds'[k][i] - 2] = Socket(k, i)
      BY <1>1, <2>1, <2>3 DEF Matched
    <2> QED
      BY <1>1, <2>2, <2>3, <2>4 DEF Numbered, FdsMatch
  <1>2. CASE /\ UNCHANGED <<listeners, fds>>
             /\ pc' \notin {"encode", "notify", "wait"}
    BY <1>2 DEF Numbered, FdsMatch
  <1>3. CASE /\ UNCHANGED <<listeners, fds, extraFiles>>
             /\ pc \in {"encode", "notify", "wait"}
    BY <1>3 DEF Numbered, FdsMatch
  <1>4. CASE UNCHANGED <<pc, listeners, fds, extraFiles>>
    BY <1>4 DEF Numbered, FdsMatch
  <1> HIDE DEF cmd
  <1>5. CASE Start
    <2>1. \/ extraFiles' = cmd.files /\ fds' = cmd.fds
          \/ pc' = "unmount" /\ UNCHANGED fds
      BY <1>5, Zenon DEF Start, cmd
    <2>2. UNCHANGED listeners
      BY <1>5, Zenon DEF Start
    <2> QED
      BY <1>1, <1>2, <2>1, <2>2
  <1>6. CASE Mkdir \/ handleFile \/ mount \/ Undo \/ unmount \/ Dispose
    BY <1>2, <1>6 DEF Mkdir, handleFile, mount, Undo, unmount, Dispose, sockets
  <1>7. CASE Create \/ Encode \/ passSignals \/ Wait \/ killProcess
    BY <1>2, <1>3, <1>7
       DEF Create, Encode, passSignals, Wait, killProcess, sockets
  <1>8. CASE daemonMain \/ ChildEnds \/ Signal \/ Relay
    BY <1>2, <1>4, <1>8 DEF daemonMain, ChildEnds, Signal, Relay, sockets
  <1>9. CASE UNCHANGED vars
    BY <1>4, <1>9 DEF vars
  <1> QED
    BY <1>5, <1>6, <1>7, <1>8, <1>9, Zenon DEF Next, ParentStep

\* The child finds the pipe and every socket at the descriptors it is told of,
\* whatever the number of listeners of each kind.
THEOREM FdsMatchHolds == Spec => []FdsMatch
  <1>1. Init => Numbered
    <2> SUFFICES ASSUME Init PROVE Numbered
      OBVIOUS
    <2>1. listeners \in [Kinds -> 0..MaxSockets] /\ pc = "create"
      BY DEF Init
    <2>2. listeners \in [Kinds -> Nat]
      BY <2>1, DaemonAssumption
    <2>3. DOMAIN fds = Kinds
      BY DEF Init
    <2> QED
      BY <2>1, <2>2, <2>3 DEF Numbered, FdsMatch
  <1>2. Numbered /\ [Next]_vars => Numbered'
    BY NumberedStep
  <1>3. Numbered => FdsMatch
    BY DEF Numbered
  <1> QED
    BY <1>1, <1>2, <1>3, PTL DEF Spec

=============================================================================
