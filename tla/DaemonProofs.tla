---------------------------- MODULE DaemonProofs ----------------------------
(***************************************************************************)
(* The lifetime of jobud, for any number of daemons, launches, failing     *)
(* steps, crashes and replaced lock files: at most one of them dispatches, *)
(* and its endpoint is its own (DaemonIsExclusive).                        *)
(***************************************************************************)
EXTENDS Daemon, TLAPS

\* The steps before the database is opened, and after it is closed.
Outside == {"off", "prepare", "lock", "attach", "database", "release"}

\* The steps of startup that run with the database open.
Owning == {"inspect", "probe", "unlink", "schema", "recover", "inventory", "runners", "telemetry",
           "scheduler", "bind", "listen", "retention", "serving"}

StartupSet == {Startup[i] : i \in DOMAIN Startup}

\* The steps at which a daemon has nothing that dispatches and no socket.
Bare == Outside \cup {"inspect", "probe", "unlink", "schema", "recover", "inventory", "runners", "close"}

\* The ranges of a process's fields.
Steps == Outside \cup Owning \cup {"finish", "executors", "settle", "close"}
States == {"none", "idle", "active", "running", "stopped", "settled", "ok", "failed"}
Boots == Nat
Inodes == Nat
Socks == [by : Daemons \cup {NoDaemon}, boot : Boots, accepts : BOOLEAN]
ProcRow == [pc : Steps, boot : Boots, stop : BOOLEAN, failed : BOOLEAN, opened : Inodes, seen : Socks,
            bound : BOOLEAN, telemetry : States, scheduler : States, http : States,
            work : BOOLEAN, poisoned : BOOLEAN]

\* What a process has at each step of its life.
ProcOK(p) ==
    /\ p.pc \in Bare => ~p.bound /\ p.scheduler = "none" /\ ~p.work
    /\ p.bound => p.pc \in {"listen", "retention", "serving", "finish", "executors", "settle"}
    /\ p.pc \in {"listen", "retention", "serving"} => p.bound
    /\ p.pc \in {"scheduler", "bind", "listen", "retention", "serving"} => p.telemetry = "active"
    /\ p.pc \in {"bind", "listen", "retention", "serving"} => p.scheduler = "running"
    /\ p.pc = "settle" => ~p.work /\ (p.http = "failed" => p.failed)
    /\ p.telemetry = "settled" =>
          p.pc \in {"close", "release"} /\ ~p.failed /\ ~p.poisoned /\ p.http # "failed"

\* What a process has of the files all daemons share: whoever is past opening
\* the database, dispatches or has a socket owns the database.
SharedOK(d, p, h, db, s) ==
    /\ p.pc \in Owning \/ p.scheduler # "none" \/ p.work \/ p.bound => db = d
    /\ p.pc \in Outside => db # d
    /\ p.bound => s.by = d /\ s.boot = p.boot
    /\ p.pc = "off" => h = 0

\* A socket that accepts is bound by a daemon that is up or about to stop.
AcceptsFor(s, d, p) == s.by = d /\ p.bound /\ p.pc \in {"retention", "serving", "finish"}

DaemonInv ==
    /\ proc \in [Daemons -> ProcRow] /\ held \in [Daemons -> Inodes] /\ lockFile \in Inodes
    /\ sock \in Socks
    /\ \A d \in Daemons : ProcOK(proc[d]) /\ SharedOK(d, proc[d], held[d], dbOwner, sock)
    /\ sock.accepts => \E d \in Daemons : AcceptsFor(sock, d, proc[d])

\* What follows each step of startup.
LEMMA AfterSteps ==
    /\ After("prepare") = "lock" /\ After("lock") = "attach" /\ After("attach") = "database"
    /\ After("database") = "inspect" /\ After("probe") = "unlink" /\ After("unlink") = "schema"
    /\ After("schema") = "recover" /\ After("recover") = "inventory" /\ After("inventory") = "runners"
    /\ After("runners") = "telemetry" /\ After("telemetry") = "scheduler" /\ After("scheduler") = "bind"
    /\ After("bind") = "listen" /\ After("listen") = "retention" /\ After("retention") = "serving"
<1>1. /\ Len(Startup) = 17
      /\ Startup[1] = "prepare" /\ Startup[2] = "lock" /\ Startup[3] = "attach" /\ Startup[4] = "database"
      /\ Startup[5] = "inspect" /\ Startup[6] = "probe" /\ Startup[7] = "unlink" /\ Startup[8] = "schema"
      /\ Startup[9] = "recover" /\ Startup[10] = "inventory" /\ Startup[11] = "runners"
      /\ Startup[12] = "telemetry" /\ Startup[13] = "scheduler" /\ Startup[14] = "bind"
      /\ Startup[15] = "listen" /\ Startup[16] = "retention" /\ Startup[17] = "serving"
  BY DEF Startup
<1>2. ASSUME NEW pc, NEW k \in 2..17, Startup[k - 1] = pc,
             \A i \in 2..17 : Startup[i - 1] = pc => i = k
      PROVE  After(pc) = Startup[k]
  <2>1. (CHOOSE i \in 2..Len(Startup) : Startup[i - 1] = pc) = k BY <1>1, <1>2
  <2> QED BY <2>1 DEF After
<1>3. \A i \in 2..17 : /\ Startup[i - 1] = "prepare" => i = 2
                       /\ Startup[i - 1] = "lock" => i = 3
                       /\ Startup[i - 1] = "attach" => i = 4
                       /\ Startup[i - 1] = "database" => i = 5
                       /\ Startup[i - 1] = "probe" => i = 7
                       /\ Startup[i - 1] = "unlink" => i = 8
                       /\ Startup[i - 1] = "schema" => i = 9
                       /\ Startup[i - 1] = "recover" => i = 10
                       /\ Startup[i - 1] = "inventory" => i = 11
                       /\ Startup[i - 1] = "runners" => i = 12
                       /\ Startup[i - 1] = "telemetry" => i = 13
                       /\ Startup[i - 1] = "scheduler" => i = 14
                       /\ Startup[i - 1] = "bind" => i = 15
                       /\ Startup[i - 1] = "listen" => i = 16
                       /\ Startup[i - 1] = "retention" => i = 17
  BY <1>1
<1> QED
  <2>1. After("prepare") = "lock" BY <1>1, <1>2, <1>3
  <2>2. After("lock") = "attach" BY <1>1, <1>2, <1>3
  <2>3. After("attach") = "database" BY <1>1, <1>2, <1>3
  <2>4. After("database") = "inspect" BY <1>1, <1>2, <1>3
  <2>5. After("probe") = "unlink" BY <1>1, <1>2, <1>3
  <2>6. After("unlink") = "schema" BY <1>1, <1>2, <1>3
  <2>7. After("schema") = "recover" BY <1>1, <1>2, <1>3
  <2>8. After("recover") = "inventory" BY <1>1, <1>2, <1>3
  <2>9. After("inventory") = "runners" BY <1>1, <1>2, <1>3
  <2>10. After("runners") = "telemetry" BY <1>1, <1>2, <1>3
  <2>11. After("telemetry") = "scheduler" BY <1>1, <1>2, <1>3
  <2>12. After("scheduler") = "bind" BY <1>1, <1>2, <1>3
  <2>13. After("bind") = "listen" BY <1>1, <1>2, <1>3
  <2>14. After("listen") = "retention" BY <1>1, <1>2, <1>3
  <2>15. After("retention") = "serving" BY <1>1, <1>2, <1>3
  <2> QED BY <2>1, <2>2, <2>3, <2>4, <2>5, <2>6, <2>7, <2>8, <2>9, <2>10, <2>11, <2>12, <2>13, <2>14, <2>15

\* The steps of startup.
LEMMA StepsOfStartup ==
    \A pc \in StartupSet : pc \in {"prepare", "lock", "attach", "database"} \cup Owning
<1>1. StartupSet = {Startup[i] : i \in 1..17} BY DEF StartupSet, Startup
<1>2. \A i \in 1..17 : Startup[i] \in {"prepare", "lock", "attach", "database"} \cup Owning
  BY DEF Startup, Owning
<1> QED BY <1>1, <1>2

\* A step of d that takes it to p keeps the invariant when p is in order and
\* nothing that another daemon relies on is touched.
LEMMA DaemonStep ==
    ASSUME DaemonInv, NEW d \in Daemons, NEW p \in ProcRow,
           proc' = [proc EXCEPT ![d] = p], ProcOK(p),
           held' \in [Daemons -> Inodes], lockFile' \in Inodes, sock' \in Socks,
           SharedOK(d, p, held'[d], dbOwner', sock'),
           \A e \in Daemons \ {d} :
               /\ held'[e] = held[e] /\ (dbOwner' = e <=> dbOwner = e)
               /\ proc[e].bound => sock'.by = e /\ sock'.boot = proc[e].boot,
           sock'.accepts => AcceptsFor(sock', d, p) \/ (sock' = sock /\ sock.by # d)
    PROVE  DaemonInv'
<1>1. /\ proc' \in [Daemons -> ProcRow] /\ proc'[d] = p
      /\ \A e \in Daemons \ {d} : proc'[e] = proc[e]
  BY DEF DaemonInv
<1>2. ASSUME NEW e \in Daemons PROVE ProcOK(proc'[e]) /\ SharedOK(e, proc'[e], held'[e], dbOwner', sock')
  <2>1. CASE e = d BY <1>1, <2>1
  <2>2. CASE e # d
    <3>1. ProcOK(proc[e]) /\ SharedOK(e, proc[e], held[e], dbOwner, sock) /\ proc'[e] = proc[e]
      BY <1>1, <2>2 DEF DaemonInv
    <3> QED BY <2>2, <3>1 DEF SharedOK
  <2> QED BY <2>1, <2>2
<1>3. sock'.accepts => \E e \in Daemons : AcceptsFor(sock', e, proc'[e])
  <2> SUFFICES ASSUME sock'.accepts PROVE \E e \in Daemons : AcceptsFor(sock', e, proc'[e]) OBVIOUS
  <2>1. CASE AcceptsFor(sock', d, p) BY <1>1, <2>1
  <2>2. CASE sock' = sock /\ sock.by # d
    <3>1. PICK e \in Daemons : AcceptsFor(sock, e, proc[e]) BY <2>2 DEF DaemonInv
    <3>2. e # d BY <2>2, <3>1 DEF AcceptsFor
    <3> QED BY <1>1, <2>2, <3>1, <3>2
  <2> QED BY <2>1, <2>2
<1> QED BY <1>1, <1>2, <1>3 DEF DaemonInv

\* A step that touches only the process.
LEMMA QuietStep ==
    ASSUME DaemonInv, NEW d \in Daemons, NEW p \in ProcRow,
           proc' = [proc EXCEPT ![d] = p], UNCHANGED <<lockFile, held, dbOwner, sock>>,
           ProcOK(p), SharedOK(d, p, held[d], dbOwner, sock),
           proc[d].bound /\ proc[d].pc \in {"retention", "serving", "finish"} =>
               p.bound /\ p.pc \in {"retention", "serving", "finish"}
    PROVE  DaemonInv'
<1>1. \A e \in Daemons \ {d} : proc[e].bound => sock'.by = e /\ sock'.boot = proc[e].boot
  BY DEF DaemonInv, SharedOK
<1>2. sock'.accepts => AcceptsFor(sock', d, p) \/ (sock' = sock /\ sock.by # d)
  <2> SUFFICES ASSUME sock.accepts, sock.by = d PROVE AcceptsFor(sock, d, p) OBVIOUS
  <2>1. PICK e \in Daemons : AcceptsFor(sock, e, proc[e]) BY DEF DaemonInv
  <2> QED BY <2>1 DEF AcceptsFor
<1> QED BY <1>1, <1>2, DaemonStep DEF DaemonInv

\* A process at another step has all it had.
LEMMA AtStep ==
    ASSUME NEW q \in ProcRow, NEW n \in Steps, NEW p, p = [q EXCEPT !.pc = n]
    PROVE  /\ p \in ProcRow /\ p.pc = n /\ p.bound = q.bound /\ p.scheduler = q.scheduler
           /\ p.work = q.work /\ p.telemetry = q.telemetry /\ p.http = q.http /\ p.failed = q.failed
           /\ p.poisoned = q.poisoned /\ p.boot = q.boot
BY DEF ProcRow

\* A process that advances to a step that has the same, and no more, to rely on.
LEMMA Advancing ==
    ASSUME DaemonInv, NEW d \in Daemons,
           proc[d].pc \in {"prepare", "attach", "schema", "recover", "inventory", "retention", "probe"},
           Advances(d), UNCHANGED <<lockFile, held, dbOwner, sock>>
    PROVE  DaemonInv'
<1> DEFINE q == proc[d]
           n == After(q.pc)
           p == [q EXCEPT !.pc = n]
<1>1. q \in ProcRow /\ ProcOK(q) /\ SharedOK(d, q, held[d], dbOwner, sock) BY DEF DaemonInv
<1>2. \/ q.pc = "prepare" /\ n = "lock"
      \/ q.pc = "attach" /\ n = "database"
      \/ q.pc = "schema" /\ n = "recover"
      \/ q.pc = "recover" /\ n = "inventory"
      \/ q.pc = "inventory" /\ n = "runners"
      \/ q.pc = "retention" /\ n = "serving"
      \/ q.pc = "probe" /\ n = "unlink"
  BY AfterSteps
<1>3. proc' = [proc EXCEPT ![d] = p] BY DEF Advances, Moves
<1> HIDE DEF n
<1>4. /\ p \in ProcRow /\ p.pc = n /\ p.bound = q.bound /\ p.scheduler = q.scheduler /\ p.work = q.work
      /\ p.telemetry = q.telemetry /\ p.http = q.http /\ p.failed = q.failed /\ p.poisoned = q.poisoned
      /\ p.boot = q.boot
  <2>1. n \in Steps BY <1>2 DEF Steps, Outside, Owning
  <2> HIDE DEF q
  <2> QED BY <1>1, <2>1, AtStep
<1> HIDE DEF p
<1>5. ProcOK(p) BY <1>1, <1>2, <1>4 DEF ProcOK, Bare, Outside
<1>6. SharedOK(d, p, held[d], dbOwner, sock)
  BY <1>1, <1>2, <1>4 DEF ProcOK, SharedOK, Bare, Outside, Owning
<1> HIDE DEF q
<1> QED BY <1>2, <1>3, <1>4, <1>5, <1>6, QuietStep DEF q

\* Leaving, with or without a failure.
LEMMA Leaving ==
    ASSUME DaemonInv, NEW d \in Daemons, proc[d].pc \in StartupSet,
           \/ Moves(d, Leave(proc[d])) \/ Moves(d, Failed(proc[d]))
           \/ \E b \in BOOLEAN : Moves(d, [Failed(proc[d]) EXCEPT !.poisoned = b]),
           UNCHANGED <<lockFile, held, dbOwner, sock>>
    PROVE  DaemonInv'
<1> DEFINE q == proc[d]
           n == IF q.pc \in {"prepare", "lock", "attach"} THEN "release" ELSE "finish"
           l == [q EXCEPT !.pc = n]
           f == [l EXCEPT !.failed = TRUE]
<1>1. q \in ProcRow /\ ProcOK(q) /\ SharedOK(d, q, held[d], dbOwner, sock) BY DEF DaemonInv
<1>2. q.pc \in {"prepare", "lock", "attach", "database"} \cup Owning BY StepsOfStartup
<1>3. n \in {"release", "finish"} /\ (n = "release" => q.pc \in {"prepare", "lock", "attach"}) OBVIOUS
<1>4. l = Leave(q) /\ f = Failed(q) BY DEF Leave, Failed
<1> HIDE DEF n
<1>5. PICK p : /\ proc' = [proc EXCEPT ![d] = p]
               /\ p = l \/ p = f \/ \E b \in BOOLEAN : p = [f EXCEPT !.poisoned = b]
  BY <1>4 DEF Moves
<1>6. l \in ProcRow /\ l.pc = n /\ l.bound = q.bound /\ l.scheduler = q.scheduler /\ l.work = q.work
      /\ l.telemetry = q.telemetry /\ l.boot = q.boot
  <2>1. n \in Steps BY <1>3 DEF Steps, Outside
  <2> HIDE DEF q
  <2> QED BY <1>1, <2>1, AtStep
<1> HIDE DEF q, l
<1>7. /\ p \in ProcRow /\ p.pc = n /\ p.bound = q.bound /\ p.scheduler = q.scheduler /\ p.work = q.work
      /\ p.telemetry = q.telemetry /\ p.boot = q.boot
  <2>1. f \in ProcRow /\ f.pc = n /\ f.bound = q.bound /\ f.scheduler = q.scheduler /\ f.work = q.work
        /\ f.telemetry = q.telemetry /\ f.boot = q.boot
    BY <1>6 DEF ProcRow
  <2> HIDE DEF f
  <2>2. ASSUME NEW b \in BOOLEAN, p = [f EXCEPT !.poisoned = b]
        PROVE  /\ p \in ProcRow /\ p.pc = n /\ p.bound = q.bound /\ p.scheduler = q.scheduler
               /\ p.work = q.work /\ p.telemetry = q.telemetry /\ p.boot = q.boot
    BY <2>1, <2>2 DEF ProcRow
  <2> QED BY <1>5, <1>6, <2>1, <2>2
<1> HIDE DEF f
<1>8. ProcOK(p) BY <1>1, <1>2, <1>3, <1>7 DEF ProcOK, Bare, Outside, Owning
<1>9. SharedOK(d, p, held[d], dbOwner, sock)
  BY <1>1, <1>2, <1>3, <1>7 DEF ProcOK, SharedOK, Bare, Outside, Owning
<1>10. q.bound /\ q.pc \in {"retention", "serving", "finish"} => p.bound /\ p.pc = "finish"
  BY <1>3, <1>7
<1> QED BY <1>5, <1>7, <1>8, <1>9, <1>10, QuietStep DEF q

\* A signal, opening the lock file, an attempt that starts or ends, and a
\* failing backend leave a daemon at its step.
LEMMA InPlaceKeeps ==
    ASSUME DaemonInv, NEW d \in Daemons, Signal(d) \/ OpenLock(d) \/ Work(d) \/ BackendFails(d)
    PROVE  DaemonInv'
<1> DEFINE q == proc[d]
           w == ~q.work
           p1 == [q EXCEPT !.stop = TRUE]
           p2 == [q EXCEPT !.opened = lockFile]
           p3 == [q EXCEPT !.work = w]
           p4 == [q EXCEPT !.http = "failed"]
<1>1. /\ q \in ProcRow /\ ProcOK(q) /\ SharedOK(d, q, held[d], dbOwner, sock)
      /\ lockFile \in Inodes /\ w \in BOOLEAN /\ "failed" \in States
  BY DEF DaemonInv, States
<1>2. UNCHANGED <<lockFile, held, dbOwner, sock>> BY DEF Signal, OpenLock, Work, BackendFails
<1>3. \/ proc' = [proc EXCEPT ![d] = p1] \/ proc' = [proc EXCEPT ![d] = p2]
      \/ proc' = [proc EXCEPT ![d] = p3] /\ q.pc = "serving"
      \/ proc' = [proc EXCEPT ![d] = p4] /\ q.http = "ok" /\ q.pc \notin {"settle", "close", "release"}
  BY DEF Signal, OpenLock, Work, BackendFails, Moves, At
<1> HIDE DEF q, w
<1>4. /\ p1 \in ProcRow /\ p1.pc = q.pc /\ p1.bound = q.bound /\ p1.scheduler = q.scheduler
      /\ p1.work = q.work /\ p1.telemetry = q.telemetry /\ p1.http = q.http /\ p1.failed = q.failed
      /\ p1.poisoned = q.poisoned /\ p1.boot = q.boot
  BY <1>1 DEF ProcRow
<1>5. /\ p2 \in ProcRow /\ p2.pc = q.pc /\ p2.bound = q.bound /\ p2.scheduler = q.scheduler
      /\ p2.work = q.work /\ p2.telemetry = q.telemetry /\ p2.http = q.http /\ p2.failed = q.failed
      /\ p2.poisoned = q.poisoned /\ p2.boot = q.boot
  BY <1>1 DEF ProcRow
<1>6. /\ p3 \in ProcRow /\ p3.pc = q.pc /\ p3.bound = q.bound /\ p3.scheduler = q.scheduler
      /\ p3.telemetry = q.telemetry /\ p3.http = q.http /\ p3.failed = q.failed
      /\ p3.poisoned = q.poisoned /\ p3.boot = q.boot
  BY <1>1 DEF ProcRow
<1>7. /\ p4 \in ProcRow /\ p4.pc = q.pc /\ p4.bound = q.bound /\ p4.scheduler = q.scheduler
      /\ p4.work = q.work /\ p4.telemetry = q.telemetry /\ p4.failed = q.failed
      /\ p4.poisoned = q.poisoned /\ p4.boot = q.boot
  BY <1>1 DEF ProcRow
<1> HIDE DEF p1, p2, p3, p4
<1>8. CASE proc' = [proc EXCEPT ![d] = p1]
  BY <1>1, <1>2, <1>4, <1>8, QuietStep DEF ProcOK, SharedOK, q
<1>9. CASE proc' = [proc EXCEPT ![d] = p2]
  BY <1>1, <1>2, <1>5, <1>9, QuietStep DEF ProcOK, SharedOK, q
<1>10. CASE proc' = [proc EXCEPT ![d] = p3] /\ q.pc = "serving"
  <2>1. ProcOK(p3) BY <1>1, <1>6, <1>10 DEF ProcOK, Bare, Outside
  <2>2. SharedOK(d, p3, held[d], dbOwner, sock)
    BY <1>1, <1>6, <1>10 DEF SharedOK, Owning, Outside
  <2> QED BY <1>2, <1>6, <1>10, <2>1, <2>2, QuietStep DEF q
<1>11. CASE proc' = [proc EXCEPT ![d] = p4] /\ q.pc \notin {"settle", "close", "release"}
  <2>1. ProcOK(p4) BY <1>1, <1>7, <1>11 DEF ProcOK
  <2>2. SharedOK(d, p4, held[d], dbOwner, sock) BY <1>1, <1>7 DEF SharedOK
  <2> QED BY <1>2, <1>7, <1>11, <2>1, <2>2, QuietStep DEF q
<1> QED BY <1>3, <1>8, <1>9, <1>10, <1>11

\* A process that is not there.
LEMMA AbsentRow ==
    ASSUME NEW b \in Boots
    PROVE  /\ Absent(b) \in ProcRow /\ Absent(b).pc = "off" /\ ~Absent(b).bound
           /\ Absent(b).scheduler = "none" /\ ~Absent(b).work /\ Absent(b).telemetry = "none"
           /\ ~Absent(b).failed /\ Absent(b).boot = b
<1>1. NoSock \in Socks /\ 0 \in Inodes BY DEF NoSock, Socks, Boots, Inodes
<1>2. "off" \in Steps /\ "none" \in States BY DEF Steps, Outside, States
<1> QED BY <1>1, <1>2 DEF Absent, ProcRow

\* Launching a daemon, and its last step.
LEMMA LaunchReleaseKeeps ==
    ASSUME DaemonInv, NEW d \in Daemons, Launch(d) \/ ReleaseLock(d)
    PROVE  DaemonInv'
<1> DEFINE q == proc[d]
           a == Absent(q.boot + 1)
           b == Absent(q.boot)
           p1 == [a EXCEPT !.pc = "prepare"]
           p2 == [b EXCEPT !.failed = q.failed]
<1>1. q \in ProcRow /\ ProcOK(q) /\ SharedOK(d, q, held[d], dbOwner, sock) BY DEF DaemonInv
<1>2. q.boot \in Boots /\ q.boot + 1 \in Boots /\ q.failed \in BOOLEAN /\ "prepare" \in Steps
  BY <1>1 DEF ProcRow, Boots, Steps, Outside
<1>3. CASE Launch(d)
  <2>1. q.pc = "off" /\ proc' = [proc EXCEPT ![d] = p1] /\ UNCHANGED <<lockFile, held, dbOwner, sock>>
    BY <1>3 DEF Launch, Moves, At
  <2>2. /\ a \in ProcRow /\ ~a.bound /\ a.scheduler = "none" /\ ~a.work /\ a.telemetry = "none"
        /\ ~a.failed
    BY <1>2, AbsentRow
  <2> HIDE DEF q, a
  <2>3. /\ p1 \in ProcRow /\ p1.pc = "prepare" /\ ~p1.bound /\ p1.scheduler = "none" /\ ~p1.work
        /\ p1.telemetry = "none"
    BY <1>2, <2>2 DEF ProcRow
  <2> HIDE DEF p1
  <2>4. ProcOK(p1) BY <2>3 DEF ProcOK
  <2>5. SharedOK(d, p1, held[d], dbOwner, sock) BY <1>1, <2>1, <2>3 DEF SharedOK, Outside, Owning
  <2>6. ~(q.pc \in {"retention", "serving", "finish"}) BY <2>1
  <2> QED BY <2>1, <2>3, <2>4, <2>5, <2>6, QuietStep DEF q
<1>4. CASE ReleaseLock(d)
  <2>1. /\ q.pc = "release" /\ proc' = [proc EXCEPT ![d] = p2] /\ UNCHANGED <<lockFile, dbOwner, sock>>
        /\ held' = [held EXCEPT ![d] = 0]
    BY <1>4 DEF ReleaseLock, Moves, At
  <2>2. b \in ProcRow /\ b.pc = "off" /\ ~b.bound /\ b.scheduler = "none" /\ ~b.work /\ b.telemetry = "none"
    BY <1>2, AbsentRow
  <2> HIDE DEF q, b
  <2>3. /\ p2 \in ProcRow /\ p2.pc = "off" /\ ~p2.bound /\ p2.scheduler = "none" /\ ~p2.work
        /\ p2.telemetry = "none"
    BY <1>2, <2>2 DEF ProcRow
  <2> HIDE DEF p2
  <2>4. ProcOK(p2) BY <2>3 DEF ProcOK
  <2>5. /\ held' \in [Daemons -> Inodes] /\ held'[d] = 0 /\ \A e \in Daemons \ {d} : held'[e] = held[e]
    BY <2>1 DEF DaemonInv, Inodes
  <2>6. SharedOK(d, p2, held'[d], dbOwner, sock)
    BY <1>1, <2>1, <2>3, <2>5 DEF SharedOK, Outside, Owning
  <2>7. sock.accepts => sock.by # d
    BY <2>1 DEF DaemonInv, AcceptsFor, q
  <2>8. \A e \in Daemons \ {d} : proc[e].bound => sock'.by = e /\ sock'.boot = proc[e].boot
    BY <2>1 DEF DaemonInv, SharedOK
  <2> QED BY <2>1, <2>3, <2>4, <2>5, <2>6, <2>7, <2>8, DaemonStep DEF DaemonInv
<1> QED BY <1>3, <1>4

\* A crash takes everything but the socket's name.
LEMMA CrashKeeps ==
    ASSUME DaemonInv, NEW d \in Daemons, Crash(d)
    PROVE  DaemonInv'
<1> DEFINE p == Absent(proc[d].boot)
<1>1. proc[d].boot \in Boots BY DEF DaemonInv, ProcRow
<1>2. /\ p \in ProcRow /\ p.pc = "off" /\ ~p.bound /\ p.scheduler = "none" /\ ~p.work
      /\ p.telemetry = "none"
  BY <1>1, AbsentRow
<1>3. proc' = [proc EXCEPT ![d] = p] /\ lockFile' = lockFile BY DEF Crash, Moves
<1> HIDE DEF p
<1>4. ProcOK(p) BY <1>2 DEF ProcOK
<1>5. held' \in [Daemons -> Inodes] /\ held'[d] = 0 /\ \A e \in Daemons \ {d} : held'[e] = held[e]
  BY DEF Crash, DaemonInv, Inodes
<1>6. dbOwner' # d /\ \A e \in Daemons \ {d} : dbOwner' = e <=> dbOwner = e
  BY NoDaemonAssumption DEF Crash
<1>7. /\ sock' \in Socks /\ sock'.by = sock.by /\ sock'.boot = sock.boot
      /\ (sock'.accepts => sock' = sock /\ sock.by # d)
  BY DEF Crash, DaemonInv, Socks
<1>8. SharedOK(d, p, held'[d], dbOwner', sock') BY <1>2, <1>5, <1>6 DEF SharedOK, Outside, Owning
<1>9. \A e \in Daemons \ {d} : proc[e].bound => sock'.by = e /\ sock'.boot = proc[e].boot
  BY <1>7 DEF DaemonInv, SharedOK
<1> QED BY <1>2, <1>3, <1>4, <1>5, <1>6, <1>7, <1>8, <1>9, DaemonStep DEF DaemonInv

\* A daemon whose step is not one that a client can connect at.
LEMMA NotAccepting ==
    ASSUME DaemonInv, NEW d \in Daemons, proc[d].pc \notin {"retention", "serving", "finish"} \/ ~proc[d].bound
    PROVE  sock.accepts => sock.by # d
BY DEF DaemonInv, AcceptsFor

\* Locking the endpoint: the lock is this daemon's own, or it leaves.
LEMMA FlockKeeps ==
    ASSUME DaemonInv, NEW d \in Daemons, Flock(d)
    PROVE  DaemonInv'
<1> DEFINE q == proc[d]
           p == [q EXCEPT !.pc = "attach"]
<1>1. /\ q \in ProcRow /\ ProcOK(q) /\ SharedOK(d, q, held[d], dbOwner, sock) /\ q.pc = "lock"
      /\ UNCHANGED <<lockFile, dbOwner, sock>>
  BY DEF DaemonInv, Flock, At
<1>2. CASE held' = held /\ Moves(d, Failed(q))
  <2>1. q.pc \in StartupSet
    <3>1. Startup[2] = "lock" /\ 2 \in DOMAIN Startup BY DEF Startup
    <3> QED BY <1>1, <3>1 DEF StartupSet
  <2> QED BY <1>1, <1>2, <2>1, Leaving
<1>3. CASE held' = [held EXCEPT ![d] = lockFile] /\ Advances(d)
  <2>1. proc' = [proc EXCEPT ![d] = p] BY <1>1, <1>3, AfterSteps DEF Advances, Moves
  <2>2. "attach" \in Steps BY DEF Steps, Outside
  <2> HIDE DEF q
  <2>3. /\ p \in ProcRow /\ p.pc = "attach" /\ p.bound = q.bound /\ p.scheduler = q.scheduler
        /\ p.work = q.work /\ p.telemetry = q.telemetry /\ p.http = q.http /\ p.failed = q.failed
        /\ p.poisoned = q.poisoned /\ p.boot = q.boot
    BY <1>1, <2>2, AtStep
  <2> HIDE DEF p
  <2>4. ProcOK(p) BY <1>1, <2>3 DEF ProcOK, Bare, Outside
  <2>5. /\ held' \in [Daemons -> Inodes] /\ lockFile' \in Inodes /\ sock' \in Socks
        /\ \A e \in Daemons \ {d} :
              /\ held'[e] = held[e] /\ (dbOwner' = e <=> dbOwner = e)
              /\ proc[e].bound => sock'.by = e /\ sock'.boot = proc[e].boot
    BY <1>1, <1>3 DEF DaemonInv, SharedOK
  <2>6. SharedOK(d, p, held'[d], dbOwner', sock')
    BY <1>1, <2>3 DEF SharedOK, Outside, Owning
  <2>7. sock'.accepts => AcceptsFor(sock', d, p) \/ (sock' = sock /\ sock.by # d)
    BY <1>1, NotAccepting DEF q
  <2> QED BY <2>1, <2>3, <2>4, <2>5, <2>6, <2>7, DaemonStep
<1> QED BY <1>2, <1>3 DEF Flock

\* The database has one owner.
LEMMA OpenDatabaseKeeps ==
    ASSUME DaemonInv, NEW d \in Daemons, OpenDatabase(d)
    PROVE  DaemonInv'
<1> DEFINE q == proc[d]
           p == [q EXCEPT !.pc = "inspect"]
<1>1. /\ q \in ProcRow /\ ProcOK(q) /\ SharedOK(d, q, held[d], dbOwner, sock) /\ q.pc = "database"
      /\ UNCHANGED <<lockFile, held, sock>>
  BY DEF DaemonInv, OpenDatabase, At
<1>2. CASE dbOwner' = dbOwner /\ Moves(d, Failed(q))
  <2>1. q.pc \in StartupSet
    <3>1. Startup[4] = "database" /\ 4 \in DOMAIN Startup BY DEF Startup
    <3> QED BY <1>1, <3>1 DEF StartupSet
  <2> QED BY <1>1, <1>2, <2>1, Leaving
<1>3. CASE dbOwner = NoDaemon /\ dbOwner' = d /\ Advances(d)
  <2>1. proc' = [proc EXCEPT ![d] = p] BY <1>1, <1>3, AfterSteps DEF Advances, Moves
  <2>2. "inspect" \in Steps BY DEF Steps, Owning
  <2> HIDE DEF q
  <2>3. /\ p \in ProcRow /\ p.pc = "inspect" /\ p.bound = q.bound /\ p.scheduler = q.scheduler
        /\ p.work = q.work /\ p.telemetry = q.telemetry /\ p.http = q.http /\ p.failed = q.failed
        /\ p.poisoned = q.poisoned /\ p.boot = q.boot
    BY <1>1, <2>2, AtStep
  <2> HIDE DEF p
  <2>4. ProcOK(p) BY <1>1, <2>3 DEF ProcOK, Bare, Outside
  <2>5. /\ held' \in [Daemons -> Inodes] /\ lockFile' \in Inodes /\ sock' \in Socks
        /\ \A e \in Daemons \ {d} :
              /\ held'[e] = held[e] /\ (dbOwner' = e <=> dbOwner = e)
              /\ proc[e].bound => sock'.by = e /\ sock'.boot = proc[e].boot
    BY <1>1, <1>3, NoDaemonAssumption DEF DaemonInv, SharedOK
  <2>6. SharedOK(d, p, held'[d], dbOwner', sock')
    BY <1>1, <1>3, <2>3, <2>4 DEF SharedOK, ProcOK, Outside, Owning
  <2>7. sock'.accepts => AcceptsFor(sock', d, p) \/ (sock' = sock /\ sock.by # d)
    BY <1>1, NotAccepting DEF q
  <2> QED BY <2>1, <2>3, <2>4, <2>5, <2>6, <2>7, DaemonStep
<1> QED BY <1>2, <1>3 DEF OpenDatabase

\* Inspecting the socket's path.
LEMMA InspectKeeps ==
    ASSUME DaemonInv, NEW d \in Daemons, Inspect(d)
    PROVE  DaemonInv'
<1> DEFINE q == proc[d]
           n == IF sock = NoSock THEN After("unlink") ELSE "probe"
           p == [q EXCEPT !.seen = sock, !.pc = n]
<1>1. /\ q \in ProcRow /\ ProcOK(q) /\ SharedOK(d, q, held[d], dbOwner, sock) /\ q.pc = "inspect"
      /\ UNCHANGED <<lockFile, held, dbOwner, sock>> /\ sock \in Socks
  BY DEF DaemonInv, Inspect, At
<1>2. n \in {"schema", "probe"} /\ n \in Steps BY AfterSteps DEF Steps, Owning
<1>3. proc' = [proc EXCEPT ![d] = p] BY DEF Inspect, Moves
<1> HIDE DEF q, n
<1>4. /\ p \in ProcRow /\ p.pc = n /\ p.bound = q.bound /\ p.scheduler = q.scheduler
      /\ p.work = q.work /\ p.telemetry = q.telemetry /\ p.http = q.http /\ p.failed = q.failed
      /\ p.poisoned = q.poisoned /\ p.boot = q.boot
  BY <1>1, <1>2 DEF ProcRow
<1> HIDE DEF p
<1>5. ProcOK(p) BY <1>1, <1>2, <1>4 DEF ProcOK, Bare, Outside
<1>6. SharedOK(d, p, held[d], dbOwner, sock) BY <1>1, <1>2, <1>4 DEF SharedOK, Outside, Owning
<1>7. ~(q.pc \in {"retention", "serving", "finish"}) BY <1>1
<1> QED BY <1>1, <1>3, <1>4, <1>5, <1>6, <1>7, QuietStep DEF q

\* Removing a stale path: whoever has bound it owns the database, and only its
\* owner is at this step.
LEMMA UnlinkKeeps ==
    ASSUME DaemonInv, NEW d \in Daemons, UnlinkStale(d)
    PROVE  DaemonInv'
<1> DEFINE q == proc[d]
           p == [q EXCEPT !.pc = "schema"]
<1>1. /\ q \in ProcRow /\ ProcOK(q) /\ SharedOK(d, q, held[d], dbOwner, sock) /\ q.pc = "unlink"
      /\ UNCHANGED <<lockFile, held, dbOwner>>
  BY DEF DaemonInv, UnlinkStale, At
<1>2. CASE sock' = sock /\ Moves(d, Failed(q))
  <2>1. q.pc \in StartupSet
    <3>1. Startup[7] = "unlink" /\ 7 \in DOMAIN Startup BY DEF Startup
    <3> QED BY <1>1, <3>1 DEF StartupSet
  <2> QED BY <1>1, <1>2, <2>1, Leaving
<1>3. CASE sock' = NoSock /\ Advances(d)
  <2>1. proc' = [proc EXCEPT ![d] = p] BY <1>1, <1>3, AfterSteps DEF Advances, Moves
  <2>2. "schema" \in Steps BY DEF Steps, Owning
  <2>3. dbOwner = d BY <1>1 DEF SharedOK, Owning
  <2>4. \A e \in Daemons \ {d} : ~proc[e].bound BY <2>3 DEF DaemonInv, SharedOK
  <2> HIDE DEF q
  <2>5. /\ p \in ProcRow /\ p.pc = "schema" /\ p.bound = q.bound /\ p.scheduler = q.scheduler
        /\ p.work = q.work /\ p.telemetry = q.telemetry /\ p.http = q.http /\ p.failed = q.failed
        /\ p.poisoned = q.poisoned /\ p.boot = q.boot
    BY <1>1, <2>2, AtStep
  <2> HIDE DEF p
  <2>6. ProcOK(p) /\ ~p.bound BY <1>1, <2>5 DEF ProcOK, Bare, Outside
  <2>7. SharedOK(d, p, held[d], dbOwner, sock')
    BY <2>3, <2>5, <2>6 DEF SharedOK, Outside
  <2>8. sock' \in Socks /\ ~sock'.accepts BY <1>3 DEF NoSock, Socks, Boots
  <2> QED BY <1>1, <2>1, <2>4, <2>5, <2>6, <2>7, <2>8, DaemonStep DEF DaemonInv
<1> QED BY <1>2, <1>3 DEF UnlinkStale

\* Building the runners and starting telemetry and the scheduler.
LEMMA StartKeeps ==
    ASSUME DaemonInv, NEW d \in Daemons, MakeRunners(d) \/ StartTelemetry(d) \/ StartScheduler(d)
    PROVE  DaemonInv'
<1> DEFINE q == proc[d]
           p1 == [q EXCEPT !.http = "ok", !.telemetry = "idle", !.scheduler = "idle", !.pc = "telemetry"]
           p2 == [q EXCEPT !.telemetry = "active", !.pc = "scheduler"]
           p3(w) == [q EXCEPT !.scheduler = "running", !.work = w, !.pc = "bind"]
<1>1. /\ q \in ProcRow /\ ProcOK(q) /\ SharedOK(d, q, held[d], dbOwner, sock)
      /\ q.pc \in {"runners", "telemetry", "scheduler"}
      /\ UNCHANGED <<lockFile, held, dbOwner, sock>>
  BY DEF DaemonInv, MakeRunners, StartTelemetry, StartScheduler, At
<1>2. /\ "telemetry" \in Steps /\ "scheduler" \in Steps /\ "bind" \in Steps /\ "ok" \in States
      /\ "idle" \in States /\ "active" \in States /\ "running" \in States
  BY DEF Steps, Owning, States
<1>3. dbOwner = d /\ ~q.bound BY <1>1 DEF SharedOK, ProcOK, Owning
<1>4. \/ q.pc = "runners" /\ proc' = [proc EXCEPT ![d] = p1]
      \/ q.pc = "telemetry" /\ proc' = [proc EXCEPT ![d] = p2]
      \/ \E w \in BOOLEAN : q.pc = "scheduler" /\ proc' = [proc EXCEPT ![d] = p3(w)]
  <2>1. CASE MakeRunners(d) BY <2>1, AfterSteps DEF MakeRunners, Moves, At
  <2>2. CASE StartTelemetry(d) BY <2>2, AfterSteps DEF StartTelemetry, Moves, At
  <2>3. CASE StartScheduler(d)
    <3>1. q.pc = "scheduler" BY <2>3 DEF StartScheduler, At
    <3>2. PICK w \in BOOLEAN :
             Moves(d, [q EXCEPT !.scheduler = "running", !.work = w, !.pc = After(@)])
      BY <2>3 DEF StartScheduler
    <3>3. proc' = [proc EXCEPT ![d] = p3(w)] BY <3>1, <3>2, AfterSteps DEF Moves
    <3> QED BY <3>1, <3>3
  <2> QED BY <2>1, <2>2, <2>3
<1>5. ASSUME NEW p \in ProcRow, proc' = [proc EXCEPT ![d] = p], ProcOK(p), ~p.bound, p.pc \in Owning
      PROVE  DaemonInv'
  <2>1. SharedOK(d, p, held[d], dbOwner, sock) BY <1>3, <1>5 DEF SharedOK, Owning, Outside
  <2> QED BY <1>1, <1>5, <2>1, QuietStep
<1> HIDE DEF q
<1>6. CASE q.pc = "runners" /\ proc' = [proc EXCEPT ![d] = p1]
  <2>1. /\ p1 \in ProcRow /\ p1.pc = "telemetry" /\ p1.bound = q.bound /\ p1.telemetry = "idle"
    BY <1>1, <1>2 DEF ProcRow
  <2> HIDE DEF p1
  <2>2. ProcOK(p1) /\ ~p1.bound /\ p1.pc \in Owning BY <1>3, <2>1 DEF ProcOK, Bare, Outside, Owning
  <2> QED BY <1>5, <1>6, <2>1, <2>2
<1>7. CASE q.pc = "telemetry" /\ proc' = [proc EXCEPT ![d] = p2]
  <2>1. /\ p2 \in ProcRow /\ p2.pc = "scheduler" /\ p2.bound = q.bound /\ p2.telemetry = "active"
    BY <1>1, <1>2 DEF ProcRow
  <2> HIDE DEF p2
  <2>2. ProcOK(p2) /\ ~p2.bound /\ p2.pc \in Owning BY <1>3, <2>1 DEF ProcOK, Bare, Outside, Owning
  <2> QED BY <1>5, <1>7, <2>1, <2>2
<1>8. ASSUME NEW w \in BOOLEAN, q.pc = "scheduler", proc' = [proc EXCEPT ![d] = p3(w)] PROVE DaemonInv'
  <2> DEFINE p == p3(w)
  <2>1. /\ p \in ProcRow /\ p.pc = "bind" /\ p.bound = q.bound /\ p.telemetry = q.telemetry
        /\ p.scheduler = "running"
    BY <1>1, <1>2 DEF ProcRow
  <2>2. q.telemetry = "active" BY <1>1, <1>8 DEF ProcOK
  <2>3. proc' = [proc EXCEPT ![d] = p] BY <1>8
  <2> HIDE DEF p
  <2>4. ProcOK(p) /\ ~p.bound /\ p.pc \in Owning
    BY <1>3, <2>1, <2>2 DEF ProcOK, Bare, Outside, Owning
  <2> QED BY <1>5, <2>1, <2>3, <2>4
<1> QED BY <1>4, <1>6, <1>7, <1>8

\* A step of d at which it owns the database or leaves it alone; the socket is
\* d's own business when nobody else has bound it.
LEMMA OwnSocketStep ==
    ASSUME DaemonInv, NEW d \in Daemons, NEW p \in ProcRow,
           proc' = [proc EXCEPT ![d] = p], UNCHANGED <<lockFile, held, dbOwner>>,
           ProcOK(p), sock' \in Socks, SharedOK(d, p, held[d], dbOwner, sock'),
           \A e \in Daemons \ {d} : proc[e].bound => sock'.by = sock.by /\ sock'.boot = sock.boot,
           sock'.accepts => AcceptsFor(sock', d, p) \/ (sock' = sock /\ sock.by # d)
    PROVE  DaemonInv'
<1>1. /\ held' \in [Daemons -> Inodes] /\ lockFile' \in Inodes
      /\ \A e \in Daemons \ {d} :
            /\ held'[e] = held[e] /\ (dbOwner' = e <=> dbOwner = e)
            /\ proc[e].bound => sock'.by = e /\ sock'.boot = proc[e].boot
  BY DEF DaemonInv, SharedOK
<1>2. SharedOK(d, p, held'[d], dbOwner', sock') OBVIOUS
<1> QED BY <1>1, <1>2, DaemonStep

\* Binding the socket, and accepting.
LEMMA ListenKeeps ==
    ASSUME DaemonInv, NEW d \in Daemons, BindSocket(d) \/ ListenSocket(d)
    PROVE  DaemonInv'
<1> DEFINE q == proc[d]
           p1 == [q EXCEPT !.bound = TRUE, !.pc = "listen"]
           p2 == [q EXCEPT !.pc = "retention"]
<1>1. /\ q \in ProcRow /\ ProcOK(q) /\ SharedOK(d, q, held[d], dbOwner, sock)
      /\ q.pc \in {"bind", "listen"} /\ UNCHANGED <<lockFile, held, dbOwner>> /\ sock \in Socks
  BY DEF DaemonInv, BindSocket, ListenSocket, At
<1>2. "listen" \in Steps /\ "retention" \in Steps /\ q.boot \in Boots
  BY <1>1 DEF Steps, Owning, ProcRow
<1>3. dbOwner = d /\ q.telemetry = "active" /\ q.scheduler = "running"
  BY <1>1 DEF SharedOK, ProcOK, Owning
<1>4. \A e \in Daemons \ {d} : ~proc[e].bound BY <1>3 DEF DaemonInv, SharedOK
<1>5. CASE BindSocket(d) /\ sock = NoSock
  <2>1. /\ q.pc = "bind" /\ proc' = [proc EXCEPT ![d] = p1]
        /\ sock' = [by |-> d, boot |-> q.boot, accepts |-> FALSE]
    <3>1. q.pc = "bind" /\ sock' = [by |-> d, boot |-> q.boot, accepts |-> FALSE]
      BY <1>5 DEF BindSocket, At
    <3>2. Moves(d, [q EXCEPT !.bound = TRUE, !.pc = After(@)]) BY <1>5 DEF BindSocket
    <3>3. proc' = [proc EXCEPT ![d] = p1] BY <3>1, <3>2, AfterSteps DEF Moves
    <3> QED BY <3>1, <3>3
  <2> HIDE DEF q
  <2>2. /\ p1 \in ProcRow /\ p1.pc = "listen" /\ p1.bound /\ p1.telemetry = q.telemetry
        /\ p1.scheduler = q.scheduler /\ p1.boot = q.boot
    BY <1>1, <1>2 DEF ProcRow
  <2> HIDE DEF p1
  <2>3. sock' \in Socks /\ sock'.by = d /\ sock'.boot = p1.boot /\ ~sock'.accepts
    BY <1>2, <2>1, <2>2 DEF Socks
  <2>4. ProcOK(p1) BY <1>3, <2>2 DEF ProcOK, Bare, Outside
  <2>5. SharedOK(d, p1, held[d], dbOwner, sock') BY <1>3, <2>2, <2>3 DEF SharedOK, Outside
  <2> QED BY <1>1, <1>4, <2>1, <2>2, <2>3, <2>4, <2>5, OwnSocketStep
<1>6. CASE BindSocket(d) /\ sock # NoSock
  <2>1. q.pc = "bind" /\ sock' = sock /\ Moves(d, Failed(q)) BY <1>6 DEF BindSocket, At
  <2>2. q.pc \in StartupSet
    <3>1. Startup[14] = "bind" /\ 14 \in DOMAIN Startup BY DEF Startup
    <3> QED BY <2>1, <3>1 DEF StartupSet
  <2> QED BY <1>1, <2>1, <2>2, Leaving
<1>7. CASE ListenSocket(d)
  <2>1. /\ q.pc = "listen" /\ proc' = [proc EXCEPT ![d] = p2] /\ sock' = [sock EXCEPT !.accepts = TRUE]
    BY <1>7, AfterSteps DEF ListenSocket, Advances, Moves, At
  <2> HIDE DEF q
  <2>2. /\ p2 \in ProcRow /\ p2.pc = "retention" /\ p2.bound = q.bound /\ p2.telemetry = q.telemetry
        /\ p2.scheduler = q.scheduler /\ p2.boot = q.boot
    BY <1>1, <1>2, AtStep
  <2> HIDE DEF p2
  <2>3. q.bound /\ sock.by = d /\ sock.boot = q.boot BY <1>1, <2>1 DEF ProcOK, SharedOK
  <2>4. sock' \in Socks /\ sock'.by = d /\ sock'.boot = p2.boot BY <1>1, <2>1, <2>2, <2>3 DEF Socks
  <2>5. ProcOK(p2) BY <1>3, <2>2, <2>3 DEF ProcOK, Bare, Outside
  <2>6. SharedOK(d, p2, held[d], dbOwner, sock') BY <1>3, <2>2, <2>4 DEF SharedOK, Outside
  <2>7. AcceptsFor(sock', d, p2) BY <2>2, <2>3, <2>4 DEF AcceptsFor
  <2> QED BY <1>1, <1>4, <2>1, <2>2, <2>4, <2>5, <2>6, <2>7, OwnSocketStep
<1> QED BY <1>5, <1>6, <1>7

\* The runners' shutdown.
LEMMA ShutdownKeeps ==
    ASSUME DaemonInv, NEW d \in Daemons, ShutdownExecutors(d)
    PROVE  DaemonInv'
<1> DEFINE q == proc[d]
           w == q.failed \/ q.http = "failed"
           p == [q EXCEPT !.work = FALSE, !.failed = w, !.pc = "settle"]
<1>1. /\ q \in ProcRow /\ ProcOK(q) /\ SharedOK(d, q, held[d], dbOwner, sock)
      /\ q.pc = "executors" /\ UNCHANGED <<lockFile, held, dbOwner, sock>>
  BY DEF DaemonInv, ShutdownExecutors, At
<1>2. "settle" \in Steps /\ w \in BOOLEAN /\ (q.http = "failed" => w)
  BY DEF Steps
<1>3. proc' = [proc EXCEPT ![d] = p] BY DEF ShutdownExecutors, Moves
<1> HIDE DEF q, w
<1>4. /\ p \in ProcRow /\ p.pc = "settle" /\ p.bound = q.bound /\ p.scheduler = q.scheduler
      /\ ~p.work /\ p.telemetry = q.telemetry /\ p.http = q.http /\ p.failed = w
      /\ p.poisoned = q.poisoned /\ p.boot = q.boot
  BY <1>1, <1>2 DEF ProcRow
<1> HIDE DEF p
<1>5. ProcOK(p) BY <1>1, <1>2, <1>4 DEF ProcOK, Bare, Outside
<1>6. SharedOK(d, p, held[d], dbOwner, sock) BY <1>1, <1>4 DEF SharedOK, Outside, Owning
<1>7. ~(q.pc \in {"retention", "serving", "finish"}) BY <1>1
<1> QED BY <1>1, <1>3, <1>4, <1>5, <1>6, <1>7, QuietStep DEF q

\* The listener is closed: a daemon removes only the path it bound.
LEMMA CloseListenerKeeps ==
    ASSUME DaemonInv, NEW d \in Daemons, CloseListener(d)
    PROVE  DaemonInv'
<1> DEFINE q == proc[d]
           r == IF q.scheduler = "none" THEN "none" ELSE "stopped"
           p1 == [q EXCEPT !.scheduler = r, !.pc = "executors"]
           p2 == [p1 EXCEPT !.bound = FALSE]
<1>1. /\ q \in ProcRow /\ ProcOK(q) /\ SharedOK(d, q, held[d], dbOwner, sock)
      /\ q.pc = "finish" /\ UNCHANGED <<lockFile, held, dbOwner>> /\ sock \in Socks
  BY DEF DaemonInv, CloseListener, At
<1>2. r \in States /\ "executors" \in Steps /\ (r # "none" => q.scheduler # "none") BY DEF States, Steps
<1>3. p1.bound = q.bound BY <1>1 DEF ProcRow
<1>4. \/ /\ proc' = [proc EXCEPT ![d] = p2]
         /\ sock' = IF q.bound THEN Removed(d) ELSE sock
      \/ /\ proc' = [proc EXCEPT ![d] = p1] /\ q.bound
         /\ sock' = IF sock.by = d THEN [sock EXCEPT !.accepts = FALSE] ELSE sock
  BY <1>3 DEF CloseListener, Moves
<1>5. Removed(d) = IF sock.by = d /\ sock.boot = q.boot THEN NoSock ELSE sock BY DEF Removed
<1>6. q.bound => sock.by = d /\ sock.boot = q.boot /\ dbOwner = d BY <1>1 DEF SharedOK
<1>7. (\E e \in Daemons \ {d} : proc[e].bound) => ~q.bound BY <1>6 DEF DaemonInv, SharedOK
<1> HIDE DEF q, r
<1>8. /\ p1 \in ProcRow /\ p1.pc = "executors" /\ p1.scheduler = r
      /\ p1.work = q.work /\ p1.telemetry = q.telemetry /\ p1.boot = q.boot
  BY <1>1, <1>2 DEF ProcRow
<1> HIDE DEF p1
<1>9. /\ p2 \in ProcRow /\ p2.pc = "executors" /\ ~p2.bound /\ p2.scheduler = r
      /\ p2.work = q.work /\ p2.telemetry = q.telemetry /\ p2.boot = q.boot
  BY <1>8 DEF ProcRow
<1> HIDE DEF p2
<1>10. ProcOK(p1) /\ ProcOK(p2) BY <1>1, <1>3, <1>8, <1>9 DEF ProcOK, Bare, Outside
<1>11. CASE /\ proc' = [proc EXCEPT ![d] = p2]
            /\ sock' = IF q.bound THEN Removed(d) ELSE sock
  <2>1. sock' = IF q.bound THEN NoSock ELSE sock BY <1>5, <1>6, <1>11
  <2>2. NoSock \in Socks /\ ~NoSock.accepts BY DEF NoSock, Socks, Boots
  <2>3. SharedOK(d, p2, held[d], dbOwner, sock')
    BY <1>1, <1>2, <1>9 DEF SharedOK, Outside, Owning
  <2>4. ~q.bound => (sock.accepts => sock.by # d) BY NotAccepting DEF q
  <2> QED BY <1>1, <1>7, <1>9, <1>10, <1>11, <2>1, <2>2, <2>3, <2>4, OwnSocketStep
<1>12. CASE /\ proc' = [proc EXCEPT ![d] = p1] /\ q.bound
            /\ sock' = IF sock.by = d THEN [sock EXCEPT !.accepts = FALSE] ELSE sock
  <2>1. sock' = [sock EXCEPT !.accepts = FALSE] BY <1>6, <1>12
  <2>2. sock' \in Socks /\ ~sock'.accepts /\ sock'.by = sock.by /\ sock'.boot = sock.boot
    BY <1>1, <2>1 DEF Socks
  <2>3. SharedOK(d, p1, held[d], dbOwner, sock')
    BY <1>6, <1>8, <1>12, <2>2 DEF SharedOK, Outside, Owning
  <2> QED BY <1>1, <1>8, <1>10, <1>12, <2>2, <2>3, OwnSocketStep
<1> QED BY <1>4, <1>11, <1>12

\* Settling telemetry, and destroying what is left.
LEMMA SettleKeeps ==
    ASSUME DaemonInv, NEW d \in Daemons, Settle(d)
    PROVE  DaemonInv'
<1> DEFINE q == proc[d]
           b == [q EXCEPT !.pc = "close", !.scheduler = "none", !.bound = FALSE]
           t == IF q.telemetry = "active" THEN "settled" ELSE q.telemetry
           p1 == [b EXCEPT !.telemetry = t]
           p2 == [b EXCEPT !.telemetry = "none", !.failed = TRUE]
           p3 == [b EXCEPT !.telemetry = "none"]
<1>1. /\ q \in ProcRow /\ ProcOK(q) /\ SharedOK(d, q, held[d], dbOwner, sock)
      /\ q.pc = "settle" /\ UNCHANGED <<lockFile, held, dbOwner>> /\ sock \in Socks
  BY DEF DaemonInv, Settle, At
<1>2. /\ "close" \in Steps /\ "none" \in States /\ t \in States
      /\ (t = "settled" => q.telemetry = "active" \/ q.telemetry = "settled")
  BY <1>1 DEF Steps, States, ProcRow
<1>3. /\ b.telemetry = q.telemetry /\ b.failed = q.failed /\ b.poisoned = q.poisoned
  BY <1>1 DEF ProcRow
<1>4. /\ \/ proc' = [proc EXCEPT ![d] = p1] /\ ~q.failed /\ ~q.poisoned
         \/ proc' = [proc EXCEPT ![d] = p2] \/ proc' = [proc EXCEPT ![d] = p3]
      /\ sock' = IF q.bound THEN Removed(d) ELSE sock
  BY <1>3 DEF Settle, Moves
<1>5. Removed(d) = IF sock.by = d /\ sock.boot = q.boot THEN NoSock ELSE sock BY DEF Removed
<1>6. /\ q.bound => sock.by = d /\ sock.boot = q.boot /\ dbOwner = d
      /\ ~q.work /\ (q.http = "failed" => q.failed) /\ q.telemetry # "settled"
  BY <1>1 DEF SharedOK, ProcOK
<1>7. (\E e \in Daemons \ {d} : proc[e].bound) => ~q.bound BY <1>6 DEF DaemonInv, SharedOK
<1>8. sock.accepts => sock.by # d BY <1>1, NotAccepting
<1> HIDE DEF q, t
<1>9. /\ b \in ProcRow /\ b.pc = "close" /\ ~b.bound /\ b.scheduler = "none" /\ b.work = q.work
      /\ b.http = q.http
  BY <1>1, <1>2 DEF ProcRow
<1> HIDE DEF b
<1>10. /\ p1 \in ProcRow /\ p1.pc = "close" /\ ~p1.bound /\ p1.scheduler = "none" /\ p1.work = q.work
       /\ p1.telemetry = t /\ p1.failed = q.failed /\ p1.poisoned = q.poisoned /\ p1.http = q.http
  BY <1>2, <1>3, <1>9 DEF ProcRow
<1>11. /\ p2 \in ProcRow /\ p2.pc = "close" /\ ~p2.bound /\ p2.scheduler = "none" /\ p2.work = q.work
       /\ p2.telemetry = "none"
  BY <1>2, <1>9 DEF ProcRow
<1>12. /\ p3 \in ProcRow /\ p3.pc = "close" /\ ~p3.bound /\ p3.scheduler = "none" /\ p3.work = q.work
       /\ p3.telemetry = "none"
  BY <1>2, <1>9 DEF ProcRow
<1> HIDE DEF p1, p2, p3
<1>13. PICK p \in ProcRow :
           /\ proc' = [proc EXCEPT ![d] = p] /\ p.pc = "close" /\ ~p.bound /\ p.scheduler = "none" /\ ~p.work
           /\ p.telemetry = "settled" => ~p.failed /\ ~p.poisoned /\ p.http # "failed"
  BY <1>4, <1>6, <1>10, <1>11, <1>12
<1>14. ProcOK(p) BY <1>13 DEF ProcOK
<1>15. SharedOK(d, p, held[d], dbOwner, sock') BY <1>13 DEF SharedOK, Outside, Owning
<1>16. sock' = IF q.bound THEN NoSock ELSE sock BY <1>4, <1>5, <1>6
<1>17. NoSock \in Socks /\ ~NoSock.accepts BY DEF NoSock, Socks, Boots
<1> QED BY <1>1, <1>7, <1>8, <1>13, <1>14, <1>15, <1>16, <1>17, OwnSocketStep

\* Closing the database.
LEMMA CloseDatabaseKeeps ==
    ASSUME DaemonInv, NEW d \in Daemons, CloseDatabase(d)
    PROVE  DaemonInv'
<1> DEFINE q == proc[d]
           p == [q EXCEPT !.pc = "release"]
<1>1. /\ q \in ProcRow /\ ProcOK(q) /\ q.pc = "close" /\ proc' = [proc EXCEPT ![d] = p]
      /\ UNCHANGED <<lockFile, held, sock>>
  BY DEF DaemonInv, CloseDatabase, At, Moves
<1>2. dbOwner' # d /\ \A e \in Daemons \ {d} : dbOwner' = e <=> dbOwner = e
  BY NoDaemonAssumption DEF CloseDatabase
<1>3. "release" \in Steps BY DEF Steps, Outside
<1>4. sock.accepts => sock.by # d BY <1>1, NotAccepting
<1> HIDE DEF q
<1>5. /\ p \in ProcRow /\ p.pc = "release" /\ p.bound = q.bound /\ p.scheduler = q.scheduler
      /\ p.work = q.work /\ p.telemetry = q.telemetry /\ p.http = q.http /\ p.failed = q.failed
      /\ p.poisoned = q.poisoned /\ p.boot = q.boot
  BY <1>1, <1>3, AtStep
<1> HIDE DEF p
<1>6. ProcOK(p) /\ ~p.bound /\ p.scheduler = "none" /\ ~p.work BY <1>1, <1>5 DEF ProcOK, Bare, Outside
<1>7. SharedOK(d, p, held'[d], dbOwner', sock') BY <1>2, <1>5, <1>6 DEF SharedOK, Outside, Owning
<1>8. /\ held' \in [Daemons -> Inodes] /\ lockFile' \in Inodes /\ sock' \in Socks
      /\ \A e \in Daemons \ {d} :
            /\ held'[e] = held[e] /\ (dbOwner' = e <=> dbOwner = e)
            /\ proc[e].bound => sock'.by = e /\ sock'.boot = proc[e].boot
  BY <1>1, <1>2 DEF DaemonInv, SharedOK
<1> QED BY <1>1, <1>4, <1>5, <1>6, <1>7, <1>8, DaemonStep

\* The daemons' invariant is inductive.
THEOREM DaemonInvariance == DaemonSpec => []DaemonInv
<1>1. DaemonInit => DaemonInv
  <2> SUFFICES ASSUME DaemonInit PROVE DaemonInv OBVIOUS
  <2> DEFINE p == Absent(0)
  <2>1. 0 \in Boots /\ 0 \in Inodes /\ 1 \in Inodes /\ NoSock \in Socks /\ ~NoSock.accepts
    BY DEF Boots, Inodes, NoSock, Socks
  <2>2. /\ p \in ProcRow /\ p.pc = "off" /\ ~p.bound /\ p.scheduler = "none" /\ ~p.work
        /\ p.telemetry = "none"
    BY <2>1, AbsentRow
  <2>3. /\ proc = [d \in Daemons |-> p] /\ held = [d \in Daemons |-> 0] /\ lockFile = 1
        /\ dbOwner = NoDaemon /\ sock = NoSock
    BY DEF DaemonInit
  <2> HIDE DEF p
  <2>4. ASSUME NEW d \in Daemons PROVE ProcOK(p) /\ SharedOK(d, p, 0, NoDaemon, NoSock)
    BY <2>2, NoDaemonAssumption DEF ProcOK, SharedOK, Outside, Owning
  <2> QED BY <2>1, <2>2, <2>3, <2>4 DEF DaemonInv
<1>2. DaemonInv /\ [DaemonNext]_daemonVars => DaemonInv'
  <2> SUFFICES ASSUME DaemonInv, [DaemonNext]_daemonVars PROVE DaemonInv' OBVIOUS
  <2>1. CASE UNCHANGED daemonVars BY <2>1 DEF daemonVars, DaemonInv
  <2>2. CASE ReplaceLock BY <2>2 DEF ReplaceLock, DaemonInv, Inodes
  <2>3. ASSUME NEW d \in Daemons, PlainStep(d) \/ Probe(d) \/ GiveUp(d) \/ ServiceFails(d)
        PROVE  DaemonInv'
    <3>1. CASE PlainStep(d) BY <3>1, Advancing DEF PlainStep
    <3>2. "probe" \in StartupSet /\ "serving" \in StartupSet
      <4>1. Startup[6] = "probe" /\ Startup[17] = "serving" /\ 6 \in DOMAIN Startup /\ 17 \in DOMAIN Startup
        BY DEF Startup
      <4> QED BY <4>1 DEF StartupSet
    <3>3. CASE Probe(d)
      <4>1. proc[d].pc = "probe" /\ UNCHANGED <<lockFile, held, dbOwner, sock>>
            /\ (Advances(d) \/ Moves(d, Failed(proc[d])))
        BY <3>3 DEF Probe, At
      <4> QED BY <3>2, <4>1, Advancing, Leaving
    <3>4. CASE GiveUp(d)
      <4>1. proc[d].pc \in StartupSet /\ UNCHANGED <<lockFile, held, dbOwner, sock>>
            /\ (Moves(d, Leave(proc[d])) \/ Moves(d, Failed(proc[d])))
        BY <3>4 DEF GiveUp, At, StartupSet
      <4> QED BY <4>1, Leaving
    <3>5. CASE ServiceFails(d)
      <4>1. proc[d].pc = "serving" /\ UNCHANGED <<lockFile, held, dbOwner, sock>>
            /\ \E b \in BOOLEAN : Moves(d, [Failed(proc[d]) EXCEPT !.poisoned = b])
        BY <3>5 DEF ServiceFails, At
      <4> QED BY <3>2, <4>1, Leaving
    <3> QED BY <2>3, <3>1, <3>3, <3>4, <3>5
  <2>4. ASSUME NEW d \in Daemons, Proceeds(d) PROVE DaemonInv'
    BY <2>3, <2>4, InPlaceKeeps, FlockKeeps, OpenDatabaseKeeps, InspectKeeps, UnlinkKeeps, StartKeeps,
       ListenKeeps, CloseListenerKeeps, ShutdownKeeps, SettleKeeps, CloseDatabaseKeeps, LaunchReleaseKeeps
       DEF Proceeds
  <2> QED BY <2>1, <2>2, <2>3, <2>4, InPlaceKeeps, LaunchReleaseKeeps, CrashKeeps DEF DaemonNext
<1> QED BY <1>1, <1>2, PTL DEF DaemonSpec

\* However daemons start, fail, stop, crash and restart on one set of files: one
\* dispatches, its endpoint is its own and answers only while it is whole, its
\* timing is settled only if it was healthy, and it leaves nothing held.
THEOREM ExclusiveDaemon == DaemonSpec => []DaemonIsExclusive
<1>1. DaemonInv => DaemonIsExclusive
  <2> SUFFICES ASSUME DaemonInv PROVE DaemonIsExclusive OBVIOUS
  <2>1. OneDispatcher /\ LiveEndpointKept BY DEF OneDispatcher, LiveEndpointKept, DaemonInv, SharedOK, Owning
  <2>2. AcceptingIsWhole
    <3> SUFFICES ASSUME sock.accepts
                 PROVE  \/ proc[sock.by].pc = "finish"
                        \/ /\ dbOwner = sock.by /\ proc[sock.by].scheduler = "running"
                           /\ proc[sock.by].telemetry = "active"
      BY DEF AcceptingIsWhole
    <3>1. PICK d \in Daemons : AcceptsFor(sock, d, proc[d]) BY DEF DaemonInv
    <3>2. ProcOK(proc[d]) /\ SharedOK(d, proc[d], held[d], dbOwner, sock) BY DEF DaemonInv
    <3> QED BY <3>1, <3>2 DEF AcceptsFor, ProcOK, SharedOK
  <2>3. SettledOnlyHealthy BY DEF SettledOnlyHealthy, DaemonInv, ProcOK
  <2>4. ExitReleases BY DEF ExitReleases, At, DaemonInv, SharedOK, AcceptsFor, Outside
  <2> QED BY <2>1, <2>2, <2>3, <2>4 DEF DaemonIsExclusive
<1> QED BY <1>1, DaemonInvariance, PTL

=============================================================================
