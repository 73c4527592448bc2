------------------------------- MODULE Daemon -------------------------------
(***************************************************************************)
(* jobud from launch to exit: main()'s startup order, the endpoint guard,  *)
(* DaemonRuntime and its teardown.  Several daemons are launched on the    *)
(* same paths; any of them may be asked to stop or crash at any point, and *)
(* an operator may replace the lock file under them.                       *)
(***************************************************************************)
EXTENDS Naturals, Sequences

CONSTANTS
    Daemons,         \* processes launched with the same configuration
    NoDaemon,
    MaxBoots,        \* bound on launches of each process
    MaxDaemonFaults, \* bound on failing steps and crashes
    MaxReplaced      \* bound on replacements of the lock file

ASSUME NoDaemonAssumption == NoDaemon \notin Daemons

VARIABLES
    proc,     \* each process: where it is and what it owns
    lockFile, \* the inode the lock's name refers to
    held,     \* the inode each process has locked, 0 when none
    dbOwner,  \* who has the database open exclusively
    sock,     \* the socket path: whose it is and whether it accepts
    procFaults

daemonVars == <<proc, lockFile, held, dbOwner, sock, procFaults>>

NoSock == [by |-> NoDaemon, boot |-> 0, accepts |-> FALSE]

Absent(boot) ==
    [pc |-> "off", boot |-> boot, stop |-> FALSE, failed |-> FALSE, opened |-> 0, seen |-> NoSock,
     bound |-> FALSE, telemetry |-> "none", scheduler |-> "none", http |-> "none",
     work |-> FALSE, poisoned |-> FALSE]

DaemonInit ==
    /\ proc = [d \in Daemons |-> Absent(0)]
    /\ lockFile = 1
    /\ held = [d \in Daemons |-> 0]
    /\ dbOwner = NoDaemon
    /\ sock = NoSock
    /\ procFaults = 0

-----------------------------------------------------------------------------
(* The order of startup.                                                   *)

SocketFirst ==
    <<"prepare", "lock", "attach", "inspect", "probe", "unlink", "database", "schema", "recover",
      "inventory", "runners", "telemetry", "scheduler", "bind", "listen", "retention", "serving">>

ListenFirst ==
    <<"prepare", "lock", "attach", "database", "inspect", "probe", "unlink", "schema", "recover",
      "inventory", "runners", "telemetry", "bind", "listen", "scheduler", "retention", "serving">>

\* main(), DaemonRuntime::run() and start_services(), in order.  "prepare" is
\* everything before the endpoint: identity, directories, privileges, paths.
Startup ==
    <<"prepare", "lock", "attach", "database", "inspect", "probe", "unlink", "schema", "recover",
      "inventory", "runners", "telemetry", "scheduler", "bind", "listen", "retention", "serving">>

After(pc) == Startup[CHOOSE i \in 2..Len(Startup) : Startup[i - 1] = pc]

PolledAtStartup == {"prepare", "lock", "attach", "database", "inspect", "recover", "inventory", "runners",
                    "telemetry", "scheduler", "bind", "retention"}

\* A requested stop is polled before these steps.
Polled == {"prepare", "lock", "attach", "database", "inspect", "recover", "inventory", "runners",
           "telemetry", "scheduler", "bind", "retention", "serving"}

\* EndpointGuard::verify() is called before these.
Verified == {"inspect", "unlink", "recover", "telemetry", "scheduler", "bind"}

LeaveAtOnce(p) ==
    [p EXCEPT !.pc = IF p.pc \in {"prepare", "lock", "attach", "inspect", "probe"} THEN "release" ELSE "finish"]

\* Before the runtime is built, leaving only releases the lock.
Leave(p) == [p EXCEPT !.pc = IF p.pc \in {"prepare", "lock", "attach"} THEN "release" ELSE "finish"]

Failed(p) == [Leave(p) EXCEPT !.failed = TRUE]

Faulty == procFaults < MaxDaemonFaults /\ procFaults' = procFaults + 1
Sound == UNCHANGED procFaults

Moves(d, p) == proc' = [proc EXCEPT ![d] = p]
Advances(d) == Moves(d, [proc[d] EXCEPT !.pc = After(@)])

Holds(d) == held[d] # 0 /\ held[d] = lockFile

\* The step a daemon is at may be taken: no stop was polled, the endpoint is
\* still its own, and the HTTP backend, once there, has not failed.
Clear(d) ==
    /\ proc[d].pc \in Polled => ~proc[d].stop
    /\ proc[d].pc \in Verified => Holds(d)
    /\ proc[d].pc \in {"telemetry", "scheduler", "bind", "serving"} => proc[d].http # "failed"

At(d, pc) == proc[d].pc = pc

-----------------------------------------------------------------------------
(* Environment.                                                            *)

Launch(d) ==
    /\ At(d, "off") /\ proc[d].boot < MaxBoots
    /\ Moves(d, [Absent(proc[d].boot + 1) EXCEPT !.pc = "prepare"])
    /\ UNCHANGED <<lockFile, held, dbOwner, sock, procFaults>>

Signal(d) ==
    /\ ~At(d, "off") /\ ~proc[d].stop
    /\ Moves(d, [proc[d] EXCEPT !.stop = TRUE])
    /\ UNCHANGED <<lockFile, held, dbOwner, sock, procFaults>>

\* The kernel closes a dead process's descriptors; its socket path stays.
Crash(d) ==
    /\ ~At(d, "off") /\ Faulty
    /\ Moves(d, Absent(proc[d].boot))
    /\ held' = [held EXCEPT ![d] = 0]
    /\ dbOwner' = IF dbOwner = d THEN NoDaemon ELSE dbOwner
    /\ sock' = IF sock.by = d THEN [sock EXCEPT !.accepts = FALSE] ELSE sock
    /\ UNCHANGED lockFile

ReplaceLock ==
    /\ lockFile <= MaxReplaced
    /\ lockFile' = lockFile + 1
    /\ UNCHANGED <<proc, held, dbOwner, sock, procFaults>>

-----------------------------------------------------------------------------
(* Startup.                                                                *)

\* Steps that only succeed or fail: nothing of what is modelled changes.
PlainStep(d) ==
    /\ proc[d].pc \in {"prepare", "attach", "schema", "recover", "inventory", "retention"}
    /\ Clear(d) /\ Sound
    /\ Advances(d)
    /\ UNCHANGED <<lockFile, held, dbOwner, sock>>

\* EndpointGuard::acquire() opens the file, locks it and verifies that the
\* name still refers to it.
OpenLock(d) ==
    /\ At(d, "lock") /\ proc[d].opened = 0 /\ Clear(d)
    /\ Moves(d, [proc[d] EXCEPT !.opened = lockFile])
    /\ UNCHANGED <<lockFile, held, dbOwner, sock, procFaults>>

Flock(d) ==
    /\ At(d, "lock") /\ proc[d].opened # 0
    /\ LET taken == \E e \in Daemons : held[e] = proc[d].opened
           mine  == ~taken /\ proc[d].opened = lockFile
       IN  /\ held' = IF mine THEN [held EXCEPT ![d] = lockFile] ELSE held
           /\ IF mine THEN Advances(d) ELSE Moves(d, Failed(proc[d]))
    /\ UNCHANGED <<lockFile, dbOwner, sock, procFaults>>

OpenShared(d) ==
    /\ At(d, "database") /\ Clear(d)
    /\ dbOwner' = d
    /\ Advances(d)
    /\ UNCHANGED <<lockFile, held, sock, procFaults>>

\* The database is opened exclusively; a second owner is refused.
OpenDatabase(d) ==
    /\ At(d, "database") /\ Clear(d)
    /\ IF dbOwner = NoDaemon THEN dbOwner' = d /\ Advances(d)
       ELSE Moves(d, Failed(proc[d])) /\ UNCHANGED dbOwner
    /\ UNCHANGED <<lockFile, held, sock, procFaults>>

\* prepare_socket(): only a socket that refuses a connection, and is still the
\* one that was inspected, is removed.
Inspect(d) ==
    /\ At(d, "inspect") /\ Clear(d)
    /\ Moves(d, [proc[d] EXCEPT !.seen = sock, !.pc = IF sock = NoSock THEN After("unlink") ELSE "probe"])
    /\ UNCHANGED <<lockFile, held, dbOwner, sock, procFaults>>

Probe(d) ==
    /\ At(d, "probe")
    /\ IF sock # NoSock /\ ~sock.accepts THEN Advances(d) ELSE Moves(d, Failed(proc[d]))
    /\ UNCHANGED <<lockFile, held, dbOwner, sock, procFaults>>

UnlinkStale(d) ==
    /\ At(d, "unlink") /\ Clear(d)
    /\ LET same == sock.by = proc[d].seen.by /\ sock.boot = proc[d].seen.boot
       IN  /\ sock' = IF same THEN NoSock ELSE sock
           /\ IF same THEN Advances(d) ELSE Moves(d, Failed(proc[d]))
    /\ UNCHANGED <<lockFile, held, dbOwner, procFaults>>

MakeRunners(d) ==
    /\ At(d, "runners") /\ Clear(d) /\ Sound
    /\ Moves(d, [proc[d] EXCEPT !.http = "ok", !.telemetry = "idle", !.scheduler = "idle", !.pc = After(@)])
    /\ UNCHANGED <<lockFile, held, dbOwner, sock>>

StartTelemetry(d) ==
    /\ At(d, "telemetry") /\ Clear(d) /\ Sound
    /\ Moves(d, [proc[d] EXCEPT !.telemetry = "active", !.pc = After(@)])
    /\ UNCHANGED <<lockFile, held, dbOwner, sock>>

\* The first pass may dispatch at once.
StartScheduler(d) ==
    /\ At(d, "scheduler") /\ Clear(d) /\ Sound
    /\ \E dispatched \in BOOLEAN :
          Moves(d, [proc[d] EXCEPT !.scheduler = "running", !.work = dispatched, !.pc = After(@)])
    /\ UNCHANGED <<lockFile, held, dbOwner, sock>>

\* LocalServer::listen(): the path must be free; it is bound, then set up, then
\* accepts.
BindSocket(d) ==
    /\ At(d, "bind") /\ Clear(d)
    /\ IF sock = NoSock
       THEN /\ sock' = [by |-> d, boot |-> proc[d].boot, accepts |-> FALSE]
            /\ Moves(d, [proc[d] EXCEPT !.bound = TRUE, !.pc = After(@)])
       ELSE Moves(d, Failed(proc[d])) /\ UNCHANGED sock
    /\ UNCHANGED <<lockFile, held, dbOwner, procFaults>>

ListenSocket(d) ==
    /\ At(d, "listen") /\ Sound
    /\ sock' = [sock EXCEPT !.accepts = TRUE]
    /\ Advances(d)
    /\ UNCHANGED <<lockFile, held, dbOwner>>

\* Any step of startup may fail, and a polled stop or a lost endpoint or
\* backend ends it.
GiveUp(d) ==
    /\ \E i \in DOMAIN Startup : At(d, Startup[i])
    /\ \/ /\ Faulty /\ ~At(d, "serving")
          /\ Moves(d, Failed(proc[d]))
       \/ /\ ~Clear(d) /\ Sound
          /\ IF proc[d].pc \in Polled /\ proc[d].stop
             THEN Moves(d, Leave(proc[d])) ELSE Moves(d, Failed(proc[d]))
    /\ UNCHANGED <<lockFile, held, dbOwner, sock>>

-----------------------------------------------------------------------------
(* Serving.                                                                *)

\* ExecutionBoundary: an attempt starts or ends only while neither a stop nor
\* a backend failure is observed.
Work(d) ==
    /\ At(d, "serving") /\ Clear(d) /\ proc[d].scheduler = "running"
    /\ Moves(d, [proc[d] EXCEPT !.work = ~@])
    /\ UNCHANGED <<lockFile, held, dbOwner, sock, procFaults>>

\* A transfer backend fails, noticed by its notification or at the next check;
\* the runners' shutdown is the last to drive it.
BackendFails(d) ==
    /\ proc[d].http = "ok" /\ proc[d].pc \notin {"settle", "close", "release"} /\ Faulty
    /\ Moves(d, [proc[d] EXCEPT !.http = "failed"])
    /\ UNCHANGED <<lockFile, held, dbOwner, sock>>

\* A service reports a failure; the database may be poisoned by it.
ServiceFails(d) ==
    /\ At(d, "serving") /\ Faulty
    /\ \E poison \in BOOLEAN : Moves(d, [Failed(proc[d]) EXCEPT !.poisoned = poison])
    /\ UNCHANGED <<lockFile, held, dbOwner, sock>>

-----------------------------------------------------------------------------
(* DaemonRuntime::finish() and the rest of main()'s scope.                 *)

\* request_stop(), then the listener: it removes only the path it bound.
\* Removal may fail; the listener's destructor tries again.
Removed(d) == IF sock.by = d /\ sock.boot = proc[d].boot THEN NoSock ELSE sock

CloseListener(d) ==
    /\ At(d, "finish")
    /\ LET stopped(p) == IF p = "none" THEN "none" ELSE "stopped"
           p == [proc[d] EXCEPT !.scheduler = stopped(@), !.pc = "executors"]
       IN  \/ /\ Sound
              /\ sock' = IF p.bound THEN Removed(d) ELSE sock
              /\ Moves(d, [p EXCEPT !.bound = FALSE])
           \/ /\ p.bound /\ Faulty
              /\ sock' = IF sock.by = d THEN [sock EXCEPT !.accepts = FALSE] ELSE sock
              /\ Moves(d, p)
    /\ UNCHANGED <<lockFile, held, dbOwner>>

UncheckedShutdown(d) ==
    /\ At(d, "executors")
    /\ Moves(d, [proc[d] EXCEPT !.work = FALSE, !.pc = "settle"])
    /\ UNCHANGED <<lockFile, held, dbOwner, sock, procFaults>>

\* The runners are destroyed, which may be the first to see the backend's failure.
ShutdownExecutors(d) ==
    /\ At(d, "executors")
    /\ Moves(d, [proc[d] EXCEPT !.work = FALSE, !.failed = @ \/ proc[d].http = "failed", !.pc = "settle"])
    /\ UNCHANGED <<lockFile, held, dbOwner, sock, procFaults>>

\* Only a healthy stop persists timing; then everything is destroyed.
Settle(d) ==
    /\ At(d, "settle")
    /\ LET p == [proc[d] EXCEPT !.pc = "close", !.scheduler = "none", !.bound = FALSE]
       IN  \/ /\ p.telemetry # "none" /\ ~p.failed /\ ~p.poisoned /\ Sound
              /\ Moves(d, [p EXCEPT !.telemetry = IF @ = "active" THEN "settled" ELSE @])
           \/ /\ p.telemetry # "none" /\ ~p.failed /\ ~p.poisoned /\ Faulty
              /\ Moves(d, [p EXCEPT !.telemetry = "none", !.failed = TRUE])
           \/ /\ p.telemetry = "none" \/ p.failed \/ p.poisoned
              /\ Sound /\ Moves(d, [p EXCEPT !.telemetry = "none"])
    /\ sock' = IF proc[d].bound THEN Removed(d) ELSE sock
    /\ UNCHANGED <<lockFile, held, dbOwner>>

CloseDatabase(d) ==
    /\ At(d, "close")
    /\ dbOwner' = IF dbOwner = d THEN NoDaemon ELSE dbOwner
    /\ Moves(d, [proc[d] EXCEPT !.pc = "release"])
    /\ UNCHANGED <<lockFile, held, sock, procFaults>>

ReleaseLock(d) ==
    /\ At(d, "release")
    /\ held' = [held EXCEPT ![d] = 0]
    /\ Moves(d, [Absent(proc[d].boot) EXCEPT !.failed = proc[d].failed])
    /\ UNCHANGED <<lockFile, dbOwner, sock, procFaults>>

Proceeds(d) ==
    \/ PlainStep(d) \/ OpenLock(d) \/ Flock(d) \/ OpenDatabase(d)
    \/ Inspect(d) \/ Probe(d) \/ UnlinkStale(d)
    \/ MakeRunners(d) \/ StartTelemetry(d) \/ StartScheduler(d) \/ BindSocket(d) \/ ListenSocket(d)
    \/ GiveUp(d)
    \/ CloseListener(d) \/ ShutdownExecutors(d) \/ Settle(d) \/ CloseDatabase(d) \/ ReleaseLock(d)

DaemonNext ==
    \/ ReplaceLock
    \/ \E d \in Daemons :
          \/ Proceeds(d)
          \/ Launch(d) \/ Signal(d) \/ Crash(d) \/ Work(d) \/ BackendFails(d) \/ ServiceFails(d)

DaemonFairness == \A d \in Daemons : WF_daemonVars(Proceeds(d))

DaemonSpec == DaemonInit /\ [][DaemonNext]_daemonVars /\ DaemonFairness

-----------------------------------------------------------------------------
(* Properties.                                                             *)

\* At most one daemon dispatches: whoever recovers, schedules or executes owns
\* the database, even when the lock file was replaced under it.
OneDispatcher ==
    \A d \in Daemons :
        (proc[d].pc \in {"recover", "inventory"} \/ proc[d].scheduler # "none" \/ proc[d].work)
            => dbOwner = d

\* Nobody removes or replaces the socket of a daemon that still has it, also
\* not between its bind and its listen, when it refuses connections.
LiveEndpointKept ==
    \A d \in Daemons : proc[d].bound => sock.by = d /\ sock.boot = proc[d].boot

\* A client that can connect meets a daemon that is whole: recovered, measuring
\* and scheduling, or already stopping.
AcceptingIsWhole ==
    sock.accepts =>
        LET p == proc[sock.by] IN
        \/ p.pc = "finish"
        \/ dbOwner = sock.by /\ p.scheduler = "running" /\ p.telemetry = "active"

\* Timing is persisted only by a stop during which nothing failed.
SettledOnlyHealthy ==
    \A d \in Daemons :
        (proc[d].pc = "close" /\ proc[d].telemetry = "settled") => ~proc[d].failed /\ ~proc[d].poisoned /\ proc[d].http # "failed"

\* A daemon that has exited left no lock, no database and no accepting socket.
ExitReleases ==
    \A d \in Daemons : At(d, "off") => held[d] = 0 /\ dbOwner # d /\ ~(sock.by = d /\ sock.accepts)

\* However daemons start, fail, stop, crash and restart on one set of files: one
\* dispatches, its endpoint is its own and answers only while it is whole, its
\* timing is settled only if it was healthy, and it leaves nothing held.
DaemonIsExclusive ==
    /\ OneDispatcher
    /\ LiveEndpointKept
    /\ AcceptingIsWhole
    /\ SettledOnlyHealthy
    /\ ExitReleases

\* A daemon that was asked to stop does, wherever the request met it.
StopEnds == \A d \in Daemons : proc[d].stop ~> At(d, "off")
=============================================================================
