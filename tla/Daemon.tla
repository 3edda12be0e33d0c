------------------------------- MODULE Daemon -------------------------------
(***************************************************************************)
(* The privileged parent process: daemonize of daemon.go, with the chroot  *)
(* jail of internal/jail. The parent builds the jail, bind-mounts the      *)
(* pages root into it, starts the unprivileged child there, hands it the   *)
(* configuration and the sockets, passes signals on and cleans up at last. *)
(*                                                                         *)
(* Every system call is a step and may fail. The child, the goroutine of   *)
(* passSignals and whoever sends SIGTERM run at the same time.             *)
(***************************************************************************)
EXTENDS Integers, Sequences

CONSTANTS
    NDirs,       \* directories of a jail: its root first, the mount point last
    Files,       \* files copied into a jail
    MaxSockets,  \* bound: sockets of one kind of listener
    MaxSignals   \* bound: signals sent to the parent

ASSUME DaemonAssumption ==
    /\ NDirs \in Nat \ {0}
    /\ MaxSockets \in Nat
    /\ MaxSignals \in Nat

VARIABLES
    pc,         \* the parent
    inPlace,    \* -daemon-inplace-chroot
    listeners,  \* number of sockets of each kind of listener
    fds,        \* the descriptors config.Listeners has for them
    extraFiles, \* cmd.ExtraFiles
    dirs,       \* directories that exist, a prefix of those to be made
    files,      \* files that exist
    mounted,    \* the pages root is mounted in the jail
    pages,      \* the files of the pages root are there
    child,      \* the child process
    config,     \* the pipe with the configuration
    relay,      \* the goroutine of passSignals
    signals,    \* number of signals sent so far
    failed      \* whether unmounting or removing has failed

vars == <<pc, inPlace, listeners, fds, extraFiles, dirs, files, mounted, pages,
          child, config, relay, signals, failed>>
jail == <<dirs, files, mounted, pages, failed>>
process == <<child, config, relay, signals>>
sockets == <<listeners, fds, extraFiles>>

\* What the sockets are for.
Kinds == {"HTTP", "HTTPS", "Proxy", "HTTPSProxyv2", "Metrics"}

\* createAppListeners and createMetricsListener.
Init ==
    /\ pc = "create"
    /\ inPlace \in BOOLEAN
    /\ listeners \in [Kinds -> 0..MaxSockets]
    /\ listeners["Metrics"] <= 1
    /\ fds = [k \in Kinds |-> <<>>]
    /\ extraFiles = <<>>
    /\ dirs = 0 /\ files = {} /\ mounted = FALSE /\ pages = TRUE
    /\ child = "none" /\ config = "none" /\ relay = "none"
    /\ signals = 0
    /\ failed = FALSE

Socket(kind, i) == <<kind, i>>
ConfigPipe == <<"config", 1>>

-----------------------------------------------------------------------------
(* The jail. Into(wd) of an in-place chroot has one file, no directory and  *)
(* no mount, and keeps its root.                                            *)

Wanted == IF inPlace THEN {"gitlab-pages"} ELSE Files
DirsWanted == IF inPlace THEN 0 ELSE NDirs

\* chrootDaemon or jailDaemon enqueue what is to be made. A file that cannot
\* be found ends daemonize, before Dispose is deferred.
Create ==
    /\ pc = "create"
    /\ pc' \in {"mkdir", "kill"}
    /\ UNCHANGED <<inPlace, sockets, jail, process>>

\* Build: make the directories one by one.
Mkdir ==
    /\ pc = "mkdir"
    /\ \/ dirs < DirsWanted /\ dirs' = dirs + 1 /\ pc' = pc
       \/ dirs < DirsWanted /\ dirs' = dirs /\ pc' = "undo"
       \/ dirs = DirsWanted /\ dirs' = dirs /\ pc' = "copy"
    /\ UNCHANGED <<inPlace, sockets, files, mounted, pages, failed, process>>

\* Build: copy the files, in any order. A copy may fail with the file made.
handleFile ==
    /\ pc = "copy"
    /\ \/ \E f \in Wanted \ files :
            \/ files' = files \cup {f} /\ pc' \in {pc, "undo"}
            \/ files' = files /\ pc' = "undo"
       \/ files = Wanted /\ files' = files /\ pc' = "mount"
    /\ UNCHANGED <<inPlace, sockets, dirs, mounted, pages, failed, process>>

\* Build: the bind mount.
mount ==
    /\ pc = "mount"
    /\ \/ mounted' = ~inPlace /\ pc' = "start"
       \/ ~inPlace /\ mounted' = FALSE /\ pc' = "undo"
    /\ UNCHANGED <<inPlace, sockets, dirs, files, pages, failed, process>>

\* removeAll. os.RemoveAll goes through a mount; it may fail half-way. In
\* place, os.Remove fails for a file that was never made, and ends the loop.
removeAll ==
    /\ pages' = (pages /\ ~mounted)
    /\ \/ /\ inPlace => files = Wanted
          /\ dirs' = 0 /\ files' = {} /\ failed' = failed
       \/ /\ dirs' \in IF inPlace THEN {0} ELSE 0..dirs
          /\ files' \in SUBSET files
          /\ failed' = (failed \/ files # {} \/ dirs # 0)

\* Slip: Build returns an error and leaves it to Dispose to clean up.
UndoNothing ==
    /\ pc = "undo"
    /\ pc' = "unmount"
    /\ UNCHANGED <<inPlace, sockets, jail, process>>

\* Build has failed: it removes what it has made and returns an error.
Undo ==
    /\ pc = "undo"
    /\ removeAll
    /\ pc' = "unmount"
    /\ UNCHANGED <<inPlace, sockets, mounted, process>>

\* Slip: every error of Unmount is taken for EINVAL.
UnmountErrorsIgnored ==
    /\ pc = "unmount"
    /\ mounted' \in {FALSE, mounted} /\ pc' = "remove"
    /\ UNCHANGED <<inPlace, sockets, dirs, files, pages, failed, process>>

\* Dispose: unmount. Unmounting what is not mounted fails with EINVAL, which
\* is no error here, or with another one if the mount point is not there.
unmount ==
    /\ pc = "unmount"
    /\ \/ /\ mounted \/ inPlace \/ dirs = NDirs
          /\ mounted' = FALSE /\ pc' = "remove" /\ failed' = failed
       \/ /\ ~inPlace
          /\ mounted' = mounted /\ pc' = "kill"
          /\ failed' = (failed \/ mounted \/ dirs = NDirs)
    /\ UNCHANGED <<inPlace, sockets, dirs, files, pages, process>>

\* Dispose: remove.
Dispose ==
    /\ pc = "remove"
    /\ removeAll
    /\ pc' = "kill"
    /\ UNCHANGED <<inPlace, sockets, mounted, process>>

-----------------------------------------------------------------------------
(* The child process.                                                      *)

\* Slip: the pipe is not counted.
PipeNotCounted(cmd, kind) ==
    [files |-> cmd.files \o [i \in 1..listeners[kind] |-> Socket(kind, i)],
     fds |-> [cmd.fds EXCEPT ![kind] =
                [i \in 1..listeners[kind] |-> 2 + Len(cmd.files) + i - 1]]]

\* daemonUpdateFds for the listeners of one kind: descriptors 0, 1 and 2 are
\* predefined, the next ones are those of ExtraFiles.
daemonUpdateFds(cmd, kind) ==
    [files |-> cmd.files \o [i \in 1..listeners[kind] |-> Socket(kind, i)],
     fds |-> [cmd.fds EXCEPT ![kind] =
                [i \in 1..listeners[kind] |-> 3 + Len(cmd.files) + i - 1]]]

\* The kinds of listeners, one after the other.
updateFds(cmd) ==
    LET http    == daemonUpdateFds(cmd, "HTTP")
        https   == daemonUpdateFds(http, "HTTPS")
        proxy   == daemonUpdateFds(https, "Proxy")
        proxyv2 == daemonUpdateFds(proxy, "HTTPSProxyv2")
    IN  daemonUpdateFds(proxyv2, "Metrics")

\* The pipe is the first of ExtraFiles, then come the sockets. Then the child
\* is started, which may fail as well as making the pipe.
Start ==
    LET cmd == updateFds([files |-> <<ConfigPipe>>, fds |-> fds])
    IN  /\ pc = "start"
        /\ \/ /\ extraFiles' = cmd.files /\ fds' = cmd.fds
              /\ \/ child' = "started" /\ config' = "open" /\ pc' = "encode"
                 \/ child' = child /\ config' = "closed" /\ pc' = "unmount"
           \/ pc' = "unmount" /\ UNCHANGED <<extraFiles, fds, config, child>>
        /\ UNCHANGED <<inPlace, listeners, jail, relay, signals>>

\* The configuration is written to the pipe, which has room for it.
Encode ==
    /\ pc = "encode"
    /\ \/ config' = "written" /\ pc' = "notify"
       \/ config' = "closed" /\ pc' = "unmount"
    /\ UNCHANGED <<inPlace, sockets, jail, child, relay, signals>>

\* passSignals.
passSignals ==
    /\ pc = "notify"
    /\ relay' = "starting"
    /\ pc' = "wait"
    /\ UNCHANGED <<inPlace, sockets, jail, child, config, signals>>

\* Slip: the goroutine of passSignals is waited for as well.
WaitForRelay ==
    /\ pc = "wait"
    /\ child = "exited" /\ relay = "none"
    /\ pc' = "unmount"
    /\ UNCHANGED <<inPlace, sockets, jail, process>>

\* cmd.Wait returns.
Wait ==
    /\ pc = "wait"
    /\ child = "exited"
    /\ pc' = "unmount"
    /\ UNCHANGED <<inPlace, sockets, jail, process>>

\* killProcess, the last of the deferred calls.
killProcess ==
    /\ pc = "kill"
    /\ child' = IF child = "none" THEN child ELSE "exited"
    /\ extraFiles' = <<>>
    /\ pc' = "returned"
    /\ UNCHANGED <<inPlace, listeners, fds, jail, config, relay, signals>>

\* daemonMain: the child reads its configuration and runs the application, or
\* ends because there is none to come.
daemonMain ==
    /\ child = "started"
    /\ \/ config = "written" /\ child' = "serving"
       \/ config = "closed" /\ child' = "exited"
    /\ UNCHANGED <<pc, inPlace, sockets, jail, config, relay, signals>>

\* The child ends for a reason of its own.
ChildEnds ==
    /\ child \in {"started", "serving"}
    /\ child' = "exited"
    /\ UNCHANGED <<pc, inPlace, sockets, jail, config, relay, signals>>

-----------------------------------------------------------------------------
(* Signals.                                                                *)

Parent == pc \notin {"returned", "killed"}

\* SIGTERM is sent to the parent. Before signal.Notify it ends the parent;
\* afterwards it is dropped unless the goroutine is waiting on the channel,
\* which is not buffered.
Signal ==
    /\ Parent
    /\ signals < MaxSignals /\ signals' = signals + 1
    /\ \/ /\ relay = "none" /\ pc' = "killed" /\ relay' = relay
          /\ config' = IF config = "open" THEN "closed" ELSE config
       \/ /\ relay # "none"
          /\ relay' = IF relay = "waiting" THEN "taken" ELSE relay
          /\ UNCHANGED <<pc, config>>
    /\ UNCHANGED <<inPlace, sockets, jail, child>>

\* The goroutine gets to wait, or passes on the signal it has taken.
Relay ==
    /\ Parent
    /\ \/ relay = "starting" /\ child' = child
       \/ relay = "taken" /\ child' = "exited"
    /\ relay' = "waiting"
    /\ UNCHANGED <<pc, inPlace, sockets, jail, config, signals>>

-----------------------------------------------------------------------------
ParentStep ==
    \/ Create \/ Mkdir \/ handleFile \/ mount \/ Undo \/ unmount \/ Dispose
    \/ Start \/ Encode \/ passSignals \/ Wait \/ killProcess

Next == ParentStep \/ daemonMain \/ ChildEnds \/ Signal \/ Relay

Spec == Init /\ [][Next]_vars

\* The processes and the goroutine are scheduled; nothing makes the child
\* end, or a signal be sent.
FairSpec ==
    Spec /\ WF_vars(ParentStep) /\ WF_vars(daemonMain) /\ WF_vars(Relay)

-----------------------------------------------------------------------------
(* Properties.                                                             *)

\* "It's unsafe to run os.RemoveAll() across a bind mount": whichever call of
\* Build, Unmount or RemoveAll fails, nothing is removed while the pages root
\* is mounted in the jail.
PagesIntact == pages

\* When daemonize has returned the child has ended, and nothing of the jail is
\* left unless unmounting or removing has failed: Build cleans up after
\* itself, and the Dispose that follows it does no harm.
ReturnsClean ==
    pc = "returned" =>
        /\ child \in {"none", "exited"}
        /\ ~failed => ~mounted /\ files = {} /\ dirs = 0

\* The child finds its configuration at descriptor 3, where daemonMain reads
\* it, and every listener at the descriptor the configuration names.
FdsMatch ==
    pc \in {"encode", "notify", "wait"} =>
        /\ extraFiles[3 - 2] = ConfigPipe
        /\ \A k \in Kinds : \A i \in 1..listeners[k] :
                /\ fds[k][i] - 2 \in DOMAIN extraFiles
                /\ extraFiles[fds[k][i] - 2] = Socket(k, i)

\* Once the child has ended, or a signal for it has been taken, the parent
\* cleans up and returns.
ReturnsAfterChild == child = "exited" \/ relay = "taken" ~> ~Parent

=============================================================================
