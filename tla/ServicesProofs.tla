---------------------------- MODULE ServicesProofs ----------------------------
(***************************************************************************)
(* Two services of the daemon's event loop.  The executor group keeps the  *)
(* contract of AttemptExecutor, for any number of attempts and operations. *)
(* The signal relay, for any number of threads, signals and failing calls, *)
(* lets no handler write to a closed descriptor and leaves nothing behind  *)
(* when it is retired.                                                     *)
(***************************************************************************)
EXTENDS Executors, SignalRelay, FiniteSetTheorems, TLAPS

-----------------------------------------------------------------------------
(* The executor group.                                                     *)

Owed == {"running", "stopping", "ended"}

\* Does the executor that started operation i still exist?
Hosted(i) ==
    \/ phase \in {"open", "closing"}
    \/ phase = "cliGone" /\ IsHttp(i)
    \/ phase = "httpGone" /\ IsCli(i)

\* An operation that was started knows its key; the gate, and the two tables,
\* agree; the gate is open as long as a callback is owed and can be delivered.
OperationInv(i) ==
    /\ work[i] = "unused" <=> keyOf[i] = None
    /\ byOperation[i] # None <=> owner[i]
    /\ owner[i] => /\ keyOf[i] \in Keys
                   /\ byOperation[i] = keyOf[i]
                   /\ byAttempt[keyOf[i]] = i
    /\ Hosted(i) => (owner[i] <=> work[i] \in Owed)
    /\ IsHttp(i) => work[i] # "stopping"
    /\ (work[i] # "unused" /\ ~Hosted(i)) =>
          /\ ~owner[i]
          /\ work[i] \in {"ended", "gone"}

\* The same, from the attempt's side.
AttemptInv(k) ==
    /\ byAttempt[k] # None => owner[byAttempt[k]] /\ keyOf[byAttempt[k]] = k
    /\ phase = "open" => (k \in routes <=> byAttempt[k] # None)

ExecutorsInv ==
    /\ TypeOK
    /\ \A i \in Ids : OperationInv(i)
    /\ \A k \in Keys : AttemptInv(k)

-----------------------------------------------------------------------------

\* Nothing is routed, tabled or owed at construction.
LEMMA InitInv == Init => ExecutorsInv
  BY ExecutorsAssumption DEF Init, ExecutorsInv, TypeOK, Phases, OperationInv, AttemptInv, Hosted, Owed, IsCli, IsHttp

\* start enters one operation into all the tables.
LEMMA StartStep ==
      ASSUME ExecutorsInv, NEW k \in Keys, NEW i \in Ids, Start(k, i)
      PROVE  ExecutorsInv'
<1>0. TypeOK /\ (\A j \in Ids : OperationInv(j)) /\ (\A a \in Keys : AttemptInv(a))
  BY DEF ExecutorsInv
<1>1. TypeOK'
  BY <1>0, ExecutorsAssumption DEF Start, Entered, Admits, TypeOK, Phases
<1>2. ASSUME NEW j \in Ids PROVE OperationInv(j)'
  BY <1>0, <1>1, ExecutorsAssumption DEF Start, Entered, Admits, TypeOK, Phases, OperationInv, AttemptInv, Hosted, Owed, IsCli, IsHttp
<1>3. ASSUME NEW a \in Keys PROVE AttemptInv(a)'
  BY <1>0, <1>1, ExecutorsAssumption DEF Start, Entered, Admits, TypeOK, Phases, OperationInv, AttemptInv, Hosted, Owed, IsCli, IsHttp
<1> QED
  BY <1>1, <1>2, <1>3 DEF ExecutorsInv

\* A refused start of a process leaves the tables as they were.
LEMMA RefusedStep ==
      ASSUME ExecutorsInv, NEW k \in Keys, NEW i \in Ids, StartRefused(k, i)
      PROVE  ExecutorsInv'
<1>0. TypeOK /\ (\A j \in Ids : OperationInv(j)) /\ (\A a \in Keys : AttemptInv(a))
  BY DEF ExecutorsInv
<1>1. TypeOK'
  BY <1>0, ExecutorsAssumption DEF StartRefused, Admits, Abandoned, attempt, tables, TypeOK, Phases
<1>2. ASSUME NEW j \in Ids PROVE OperationInv(j)'
  BY <1>0, <1>1, ExecutorsAssumption DEF StartRefused, Admits, Abandoned, attempt, tables, TypeOK, Phases, OperationInv, AttemptInv, Hosted, Owed, IsCli, IsHttp
<1>3. ASSUME NEW a \in Keys PROVE AttemptInv(a)'
  BY <1>0, <1>1, ExecutorsAssumption DEF StartRefused, Admits, Abandoned, attempt, tables, TypeOK, Phases, OperationInv, AttemptInv, Hosted, Owed, IsCli, IsHttp
<1> QED
  BY <1>1, <1>2, <1>3 DEF ExecutorsInv

\* cancel leaves the obligation where it is.
LEMMA CancelStep ==
      ASSUME ExecutorsInv, NEW k \in Keys, Cancel(k)
      PROVE  ExecutorsInv'
<1>0. TypeOK /\ (\A j \in Ids : OperationInv(j)) /\ (\A a \in Keys : AttemptInv(a))
  BY DEF ExecutorsInv
<1>1. TypeOK'
  BY <1>0, ExecutorsAssumption DEF Cancel, Admits, attempt, tables, TypeOK, Phases
<1>2. ASSUME NEW j \in Ids PROVE OperationInv(j)'
  BY <1>0, <1>1, ExecutorsAssumption DEF Cancel, Admits, attempt, tables, TypeOK, Phases, OperationInv, AttemptInv, Hosted, Owed, IsCli, IsHttp
<1>3. ASSUME NEW a \in Keys PROVE AttemptInv(a)'
  BY <1>0, <1>1, ExecutorsAssumption DEF Cancel, Admits, attempt, tables, TypeOK, Phases, OperationInv, AttemptInv, Hosted, Owed, IsCli, IsHttp
<1> QED
  BY <1>1, <1>2, <1>3 DEF ExecutorsInv

\* The end of an operation leaves its callback owed.
LEMMA EndsStep ==
      ASSUME ExecutorsInv, NEW i \in Ids, Ends(i)
      PROVE  ExecutorsInv'
<1>0. TypeOK /\ (\A j \in Ids : OperationInv(j)) /\ (\A a \in Keys : AttemptInv(a))
  BY DEF ExecutorsInv
<1>1. TypeOK'
  BY <1>0, ExecutorsAssumption DEF Ends, attempt, tables, TypeOK, Phases
<1>2. ASSUME NEW j \in Ids PROVE OperationInv(j)'
  BY <1>0, <1>1, ExecutorsAssumption DEF Ends, attempt, tables, TypeOK, Phases, OperationInv, AttemptInv, Hosted, Owed, IsCli, IsHttp
<1>3. ASSUME NEW a \in Keys PROVE AttemptInv(a)'
  BY <1>0, <1>1, ExecutorsAssumption DEF Ends, attempt, tables, TypeOK, Phases, OperationInv, AttemptInv, Hosted, Owed, IsCli, IsHttp
<1> QED
  BY <1>1, <1>2, <1>3 DEF ExecutorsInv

\* A callback retires its attempt everywhere, or finds its gate closed.
LEMMA CallbackStep ==
      ASSUME ExecutorsInv, NEW i \in Ids, Callback(i)
      PROVE  ExecutorsInv'
<1>0. TypeOK /\ (\A j \in Ids : OperationInv(j)) /\ (\A a \in Keys : AttemptInv(a))
  BY DEF ExecutorsInv
<1>1. TypeOK'
  <2>1. CASE Matches(i)
    <3>1. keyOf[i] \in Keys
      BY <1>0, <2>1 DEF OperationInv, Matches
    <3>2. Retire(i) /\ Unroute(i) /\ calls' = [calls EXCEPT ![keyOf[i]] = @ + 1]
      BY <2>1 DEF Callback
    <3>3. work' \in [Ids -> {"unused", "running", "stopping", "ended", "gone"}] /\ phase' = phase /\ keyOf' = keyOf
      BY <1>0 DEF Callback, TypeOK, Phases
    <3>4. calls' \in [Keys -> Nat]
      BY <1>0, <3>1, <3>2 DEF TypeOK, Phases
    <3> QED
      BY <1>0, <3>2, <3>3, <3>4 DEF Retire, Unroute, TypeOK, Phases
  <2>2. CASE ~Matches(i)
    BY <1>0, <2>2 DEF Callback, tables, TypeOK, Phases
  <2> QED
    BY <2>1, <2>2
<1>2. ASSUME NEW j \in Ids PROVE OperationInv(j)'
  BY <1>0, <1>1, ExecutorsAssumption DEF Callback, Matches, Retire, Unroute, attempt, tables, TypeOK, Phases, OperationInv, AttemptInv, Hosted, Owed, IsCli, IsHttp
<1>3. ASSUME NEW a \in Keys PROVE AttemptInv(a)'
  BY <1>0, <1>1, ExecutorsAssumption DEF Callback, Matches, Retire, Unroute, attempt, tables, TypeOK, Phases, OperationInv, AttemptInv, Hosted, Owed, IsCli, IsHttp
<1> QED
  BY <1>1, <1>2, <1>3 DEF ExecutorsInv

\* From here on nothing is admitted.
LEMMA BeginShutdownStep ==
      ASSUME ExecutorsInv, BeginShutdown
      PROVE  ExecutorsInv'
<1>0. TypeOK /\ (\A j \in Ids : OperationInv(j)) /\ (\A a \in Keys : AttemptInv(a))
  BY DEF ExecutorsInv
<1>1. TypeOK'
  BY <1>0, ExecutorsAssumption DEF BeginShutdown, attempt, tables, TypeOK, Phases
<1>2. ASSUME NEW j \in Ids PROVE OperationInv(j)'
  BY <1>0, <1>1, ExecutorsAssumption DEF BeginShutdown, attempt, tables, TypeOK, Phases, OperationInv, AttemptInv, Hosted, Owed, IsCli, IsHttp
<1>3. ASSUME NEW a \in Keys PROVE AttemptInv(a)'
  BY <1>0, <1>1, ExecutorsAssumption DEF BeginShutdown, attempt, tables, TypeOK, Phases, OperationInv, AttemptInv, Hosted, Owed, IsCli, IsHttp
<1> QED
  BY <1>1, <1>2, <1>3 DEF ExecutorsInv

\* The CLI executor closes its gates and ends its processes.
LEMMA DestroyCliStep ==
      ASSUME ExecutorsInv, DestroyCli
      PROVE  ExecutorsInv'
<1>0. TypeOK /\ (\A j \in Ids : OperationInv(j)) /\ (\A a \in Keys : AttemptInv(a))
  BY DEF ExecutorsInv
<1>1. TypeOK'
  BY <1>0, ExecutorsAssumption DEF DestroyCli, Emptied, TypeOK, Phases
<1>2. ASSUME NEW j \in Ids PROVE OperationInv(j)'
  <2>1. /\ keyOf' = keyOf
        /\ owner'[j] = (owner[j] /\ ~IsCli(j))
        /\ byOperation'[j] = IF IsCli(j) THEN None ELSE byOperation[j]
        /\ \A a \in Keys : byAttempt'[a] = IF a \in Cli THEN None ELSE byAttempt[a]
        /\ work'[j] = IF byOperation[j] # None /\ IsCli(j) THEN "gone" ELSE work[j]
        /\ phase \in {"closing", "httpGone"}
        /\ phase' = IF phase = "closing" THEN "cliGone" ELSE "bothGone"
    BY DEF DestroyCli, Emptied
  <2>2. OperationInv(j) /\ work[j] \in {"unused", "running", "stopping", "ended", "gone"}
        /\ owner[j] \in BOOLEAN /\ keyOf[j] \in Keys \cup {None}
    BY <1>0 DEF TypeOK
  <2>3. CASE IsCli(j)
    BY <2>1, <2>2, <2>3, ExecutorsAssumption DEF OperationInv, Hosted, Owed, IsCli, IsHttp
  <2>4. CASE ~IsCli(j)
    BY <2>1, <2>2, <2>4, ExecutorsAssumption DEF OperationInv, Hosted, Owed, IsCli, IsHttp
  <2> QED
    BY <2>3, <2>4
<1>3. ASSUME NEW a \in Keys PROVE AttemptInv(a)'
  BY <1>0, <1>1, ExecutorsAssumption DEF DestroyCli, Emptied, TypeOK, Phases, OperationInv, AttemptInv, Hosted, Owed, IsCli, IsHttp
<1> QED
  BY <1>1, <1>2, <1>3 DEF ExecutorsInv

\* The HTTP executor closes its gates and cancels its requests.
LEMMA DestroyHttpStep ==
      ASSUME ExecutorsInv, DestroyHttp
      PROVE  ExecutorsInv'
<1>0. TypeOK /\ (\A j \in Ids : OperationInv(j)) /\ (\A a \in Keys : AttemptInv(a))
  BY DEF ExecutorsInv
<1>1. TypeOK'
  BY <1>0, ExecutorsAssumption DEF DestroyHttp, Emptied, TypeOK, Phases
<1>2. ASSUME NEW j \in Ids PROVE OperationInv(j)'
  <2>1. /\ keyOf' = keyOf
        /\ owner'[j] = (owner[j] /\ ~IsHttp(j))
        /\ byOperation'[j] = IF IsHttp(j) THEN None ELSE byOperation[j]
        /\ \A a \in Keys : byAttempt'[a] = IF a \in Keys \ Cli THEN None ELSE byAttempt[a]
        /\ work'[j] = IF byOperation[j] # None /\ IsHttp(j) /\ work[j] = "running" THEN "ended" ELSE work[j]
        /\ phase \in {"closing", "cliGone"}
        /\ phase' = IF phase = "closing" THEN "httpGone" ELSE "bothGone"
    BY DEF DestroyHttp, Emptied
  <2>2. OperationInv(j) /\ work[j] \in {"unused", "running", "stopping", "ended", "gone"}
        /\ owner[j] \in BOOLEAN /\ keyOf[j] \in Keys \cup {None}
    BY <1>0 DEF TypeOK, Phases
  <2>3. CASE IsHttp(j)
    BY <2>1, <2>2, <2>3, ExecutorsAssumption DEF OperationInv, Hosted, Owed, IsCli, IsHttp
  <2>4. CASE ~IsHttp(j)
    BY <2>1, <2>2, <2>4, ExecutorsAssumption DEF OperationInv, Hosted, Owed, IsCli, IsHttp
  <2> QED
    BY <2>3, <2>4
<1>3. ASSUME NEW a \in Keys PROVE AttemptInv(a)'
  BY <1>0, <1>1, ExecutorsAssumption DEF DestroyHttp, Emptied, TypeOK, Phases, OperationInv, AttemptInv, Hosted, Owed, IsCli, IsHttp
<1> QED
  BY <1>1, <1>2, <1>3 DEF ExecutorsInv

\* The routes go last.
LEMMA EndShutdownStep ==
      ASSUME ExecutorsInv, EndShutdown
      PROVE  ExecutorsInv'
<1>0. TypeOK /\ (\A j \in Ids : OperationInv(j)) /\ (\A a \in Keys : AttemptInv(a))
  BY DEF ExecutorsInv
<1>1. TypeOK'
  BY <1>0, ExecutorsAssumption DEF EndShutdown, attempt, TypeOK, Phases
<1>2. ASSUME NEW j \in Ids PROVE OperationInv(j)'
  BY <1>0, <1>1, ExecutorsAssumption DEF EndShutdown, attempt, TypeOK, Phases, OperationInv, AttemptInv, Hosted, Owed, IsCli, IsHttp
<1>3. ASSUME NEW a \in Keys PROVE AttemptInv(a)'
  BY <1>0, <1>1, ExecutorsAssumption DEF EndShutdown, attempt, TypeOK, Phases, OperationInv, AttemptInv, Hosted, Owed, IsCli, IsHttp
<1> QED
  BY <1>1, <1>2, <1>3 DEF ExecutorsInv

\* The invariant is inductive.
LEMMA StepInv == ExecutorsInv /\ [Next]_vars => ExecutorsInv'
<1> SUFFICES ASSUME ExecutorsInv, [Next]_vars PROVE ExecutorsInv'
  OBVIOUS
<1>1. CASE Next
  BY <1>1, StartStep, RefusedStep, CancelStep, EndsStep, CallbackStep, BeginShutdownStep,
     DestroyCliStep, DestroyHttpStep, EndShutdownStep DEF Next
<1>2. CASE UNCHANGED vars
  BY <1>2 DEF vars, tables, attempt, ExecutorsInv, TypeOK, Phases, OperationInv, AttemptInv, Hosted, IsCli, IsHttp
<1> QED
  BY <1>1, <1>2

\* The invariant holds throughout.
LEMMA InvHolds == Safe => []ExecutorsInv
  BY InitInv, StepInv, PTL DEF Safe

\* The tables of AttemptExecutorGroup, CliAttemptExecutor and HttpAttemptExecutor
\* agree until the group is shut down.
THEOREM AgreeingTables == Safe => []TablesAgree
<1>1. ExecutorsInv => TablesAgree
  BY ExecutorsAssumption
  DEF ExecutorsInv, TypeOK, Phases, OperationInv, AttemptInv, Hosted, Owed, TablesAgree
<1> QED
  BY <1>1, InvHolds, PTL

\* No process and no transfer outlives the group that started it.
THEOREM NoOrphans == Safe => []NothingLeftBehind
<1>1. ExecutorsInv => NothingLeftBehind
  BY DEF ExecutorsInv, TypeOK, Phases, OperationInv, Hosted, NothingLeftBehind
<1> QED
  BY <1>1, InvHolds, PTL

\* Routes, tables and work in progress agree, for any number of attempts and
\* however starts, refusals, callbacks and the shutdown interleave.
THEOREM AgreeingExecutors == Safe => []ExecutorsAgree
<1>1. TablesAgree /\ NothingLeftBehind => ExecutorsAgree BY DEF ExecutorsAgree
<1> QED BY <1>1, AgreeingTables, NoOrphans, PTL

-----------------------------------------------------------------------------
(* Refinement: every step is a step of the contract, or none.              *)

\* An empty group is an empty contract.
LEMMA ContractInit == Init => Contract!Init
  BY DEF Init, Contract!Init

\* Accept is start, Complete a matching callback, Close the first step of shutdown;
\* everything else changes nothing the contract speaks of.
LEMMA ContractStep == ExecutorsInv /\ [Next]_vars => [Contract!Next]_(Contract!vars)
<1> SUFFICES ASSUME ExecutorsInv, [Next]_vars PROVE [Contract!Next]_(Contract!vars)
  OBVIOUS
<1>1. ASSUME NEW k \in Keys, NEW i \in Ids, Start(k, i) PROVE Contract!Accept(k)
  BY <1>1 DEF Start, Entered, Admits, Contract!Accept
<1>2. ASSUME NEW k \in Keys, NEW i \in Ids, StartRefused(k, i) PROVE UNCHANGED Contract!vars
  BY <1>2 DEF StartRefused, Contract!vars
<1>3. ASSUME NEW k \in Keys, Cancel(k) PROVE UNCHANGED Contract!vars
  BY <1>3 DEF Cancel, tables, Contract!vars
<1>4. ASSUME NEW i \in Ids, Ends(i) PROVE UNCHANGED Contract!vars
  BY <1>4 DEF Ends, tables, Contract!vars
<1>5. ASSUME NEW i \in Ids, Callback(i), Matches(i)
      PROVE  keyOf[i] \in Keys /\ Contract!Complete(keyOf[i])
  <2>1. /\ OperationInv(i)
        /\ work[i] = "ended"
        /\ phase \in {"open", "closed"}
        /\ phase' = phase
        /\ Retire(i) /\ Unroute(i)
        /\ calls' = [calls EXCEPT ![keyOf[i]] = @ + 1]
    BY <1>5 DEF ExecutorsInv, Callback
  <2>2. keyOf[i] \in Keys /\ phase = "open"
    BY <1>5, <2>1 DEF OperationInv, Matches, Hosted
  <2>3. keyOf[i] \in routes
    BY <1>5, <2>2, ExecutorsAssumption DEF ExecutorsInv, AttemptInv, Matches
  <2> QED
    BY <2>1, <2>2, <2>3 DEF Retire, Unroute, Contract!Complete
<1>6. ASSUME NEW i \in Ids, Callback(i), ~Matches(i) PROVE UNCHANGED Contract!vars
  BY <1>6 DEF Callback, tables, Contract!vars
<1>7. ASSUME BeginShutdown PROVE Contract!Close
  BY <1>7 DEF BeginShutdown, Contract!Close
<1>8. ASSUME DestroyCli \/ DestroyHttp \/ EndShutdown PROVE UNCHANGED Contract!vars
  BY <1>8 DEF DestroyCli, DestroyHttp, EndShutdown, Contract!vars
<1>9. ASSUME UNCHANGED vars PROVE UNCHANGED Contract!vars
  BY <1>9 DEF vars, tables, Contract!vars
<1> QED
  BY <1>1, <1>2, <1>3, <1>4, <1>5, <1>6, <1>7, <1>8, <1>9 DEF Next, Contract!Next

\* AttemptExecutorGroup keeps the safety part of the contract in
\* attempt_executor.hpp: a handler is called only for an accepted attempt, once,
\* with its key, and never after shutdown.
THEOREM ContractIsKept == Safe => Contract!Safe
  BY ContractInit, ContractStep, InvHolds, PTL DEF Safe, Contract!Safe

-----------------------------------------------------------------------------
(* The signal relay.                                                       *)

\* The handlers that have taken the descriptor.
Borrowers == {t \in HandlerThreads : handlers[t] \in {"write", "release"}}

\* The ranges of the relay's fields.
HandlerSteps == {"idle", "entered", "publish", "acquire", "write", "release"}
OwnerSteps == {"install", "pipe", "TERM", "INT", "enable", "attach", "serving", "close", "restore", "retire",
               "drain", "unmask", "off", "abandoned"}
Masks == {"original", "blocked", "serving"}
Handled == SUBSET {"TERM", "INT"}
Counts == Nat
RelayRow == [pc : OwnerSteps, mask : Masks, saved : BOOLEAN, handled : Handled, closes : Counts]
AccessRow == [closed : BOOLEAN, count : Counts]
WatchRow == [active : BOOLEAN, delivered : BOOLEAN]

\* What the owner has undone by each step of close() stays undone, and whoever
\* has the descriptor, or may still get it, finds it open.
RelayOK(r, a, w) ==
    /\ Borrowers # {} \/ ~a.closed => descriptor = "open"
    /\ w.active => r.pc = "serving"
    /\ r.pc \in {"install", "pipe", "retire", "drain", "unmask", "off"} => r.handled = {}
    /\ r.pc \in {"install", "pipe", "drain", "unmask", "off"} => a.closed
    /\ r.pc \in {"install", "pipe", "unmask", "off"} => Borrowers = {} /\ descriptor # "open"
    /\ r.pc \in {"install", "off"} => r.mask = "original" /\ ~r.saved

RelayInv ==
    /\ relay \in RelayRow /\ handlers \in [HandlerThreads -> HandlerSteps]
    /\ access \in AccessRow /\ watch \in WatchRow
    /\ access.count = Cardinality(Borrowers)
    /\ RelayOK(relay, access, watch)

\* There are finitely many borrowers.
LEMMA FiniteBorrowers == IsFiniteSet(Borrowers) /\ Cardinality(Borrowers) \in Nat
<1>1. IsFiniteSet(HandlerThreads) BY WorkersAssumption, FS_AddElement DEF HandlerThreads
<1>2. Borrowers \subseteq HandlerThreads BY DEF Borrowers
<1> QED BY <1>1, <1>2, FS_Subset, FS_CardinalityType

\* A handler that moves to pc is a borrower or is not.
LEMMA BorrowersAfter ==
    ASSUME RelayInv, NEW t \in HandlerThreads, NEW pc \in HandlerSteps, To(t, pc)
    PROVE  /\ handlers' \in [HandlerThreads -> HandlerSteps]
           /\ Borrowers' = IF pc \in {"write", "release"} THEN Borrowers \cup {t} ELSE Borrowers \ {t}
BY DEF RelayInv, To, Borrowers

\* A signal is delivered, and its handler runs.
LEMMA HandlerKeeps ==
    ASSUME RelayInv, NEW t \in HandlerThreads, Select(t) \/ Handle(t)
    PROVE  RelayInv'
<1>1. relay' = relay /\ watch' = watch /\ descriptor' = descriptor
  BY DEF Select, Handle, ClaimRequest, PublishRequest, AcquireDescriptor, WriteByte, Release
<1>2. ASSUME NEW pc \in HandlerSteps \ {"write", "release"}, To(t, pc), access' = access,
             handlers[t] \notin {"write", "release"}
      PROVE  RelayInv'
  <2>1. handlers' \in [HandlerThreads -> HandlerSteps] /\ Borrowers' = Borrowers \ {t} BY <1>2, BorrowersAfter
  <2>2. Borrowers' = Borrowers BY <1>2, <2>1 DEF Borrowers
  <2> QED BY <1>1, <1>2, <2>1, <2>2 DEF RelayInv, RelayOK
<1>3. CASE Select(t) BY <1>2, <1>3 DEF Select, To, HandlerSteps
<1>4. CASE ClaimRequest(t) BY <1>2, <1>4 DEF ClaimRequest, HandlerSteps
<1>5. CASE PublishRequest(t) BY <1>2, <1>5 DEF PublishRequest, HandlerSteps
<1>6. CASE AcquireDescriptor(t) /\ access.closed BY <1>2, <1>6 DEF AcquireDescriptor, HandlerSteps
<1>7. CASE AcquireDescriptor(t) /\ ~access.closed
  <2>1. /\ handlers[t] = "acquire" /\ To(t, "write") /\ access' = [access EXCEPT !.count = @ + 1]
        /\ "write" \in HandlerSteps
    BY <1>7 DEF AcquireDescriptor, HandlerSteps
  <2>2. handlers' \in [HandlerThreads -> HandlerSteps] /\ Borrowers' = Borrowers \cup {t} /\ t \notin Borrowers
    BY <2>1, BorrowersAfter DEF Borrowers
  <2>3. Cardinality(Borrowers') = Cardinality(Borrowers) + 1 BY <2>2, FiniteBorrowers, FS_AddElement
  <2>4. access' \in AccessRow /\ access'.count = access.count + 1 /\ access'.closed = access.closed
    BY <2>1 DEF RelayInv, AccessRow, Counts
  <2>5. RelayOK(relay, access, watch)' BY <1>1, <1>7, <2>2, <2>4 DEF RelayInv, RelayOK
  <2> QED BY <1>1, <2>2, <2>3, <2>4, <2>5 DEF RelayInv
<1>8. CASE WriteByte(t)
  <2>1. handlers[t] = "write" /\ To(t, "release") /\ access' = access /\ "release" \in HandlerSteps
    BY <1>8 DEF WriteByte, HandlerSteps
  <2>2. handlers' \in [HandlerThreads -> HandlerSteps] /\ Borrowers' = Borrowers \cup {t} /\ t \in Borrowers
    BY <2>1, BorrowersAfter DEF Borrowers
  <2>3. Borrowers' = Borrowers BY <2>2
  <2> QED BY <1>1, <2>1, <2>2, <2>3 DEF RelayInv, RelayOK
<1>9. CASE Release(t)
  <2>1. /\ handlers[t] = "release" /\ To(t, "idle") /\ access' = [access EXCEPT !.count = @ - 1]
        /\ "idle" \in HandlerSteps
    BY <1>9 DEF Release, HandlerSteps
  <2>2. handlers' \in [HandlerThreads -> HandlerSteps] /\ Borrowers' = Borrowers \ {t} /\ t \in Borrowers
    BY <2>1, BorrowersAfter DEF Borrowers
  <2>3. Cardinality(Borrowers') = Cardinality(Borrowers) - 1 /\ Cardinality(Borrowers') \in Nat
    <3>1. IsFiniteSet(Borrowers \ {t}) /\ Cardinality(Borrowers \ {t}) = Cardinality(Borrowers) - 1
      BY <2>2, FiniteBorrowers, FS_RemoveElement
    <3> QED BY <2>2, <3>1, FS_CardinalityType
  <2>4. access.count - 1 \in Counts BY <2>3 DEF RelayInv, Counts
  <2>5. access' \in AccessRow /\ access'.count = access.count - 1 /\ access'.closed = access.closed
    BY <2>1, <2>4 DEF RelayInv, AccessRow
  <2>6. RelayOK(relay, access, watch)' BY <1>1, <2>2, <2>5 DEF RelayInv, RelayOK
  <2> QED BY <1>1, <2>2, <2>3, <2>5, <2>6 DEF RelayInv
<1> QED BY <1>3, <1>4, <1>5, <1>6, <1>7, <1>8, <1>9 DEF Handle

\* A step of the owner that takes the relay to r; the handlers do not move.
LEMMA OwnerMoves ==
    ASSUME RelayInv, NEW r \in RelayRow, relay' = r, handlers' = handlers,
           access' \in AccessRow, access'.count = access.count, watch' \in WatchRow,
           descriptor' = descriptor \/ Borrowers = {},
           ~access'.closed => descriptor' = "open", watch'.active => r.pc = "serving",
           r.pc \in {"install", "pipe", "retire", "drain", "unmask", "off"} => r.handled = {},
           r.pc \in {"install", "pipe", "drain", "unmask", "off"} => access'.closed,
           r.pc \in {"install", "pipe", "unmask", "off"} => Borrowers = {} /\ descriptor' # "open",
           r.pc \in {"install", "off"} => r.mask = "original" /\ ~r.saved
    PROVE  RelayInv'
<1>1. Borrowers' = Borrowers BY DEF Borrowers
<1>2. Borrowers # {} => descriptor' = "open" BY DEF RelayInv, RelayOK
<1> QED BY <1>1, <1>2 DEF RelayInv, RelayOK

\* install().
LEMMA InstallKeeps ==
    ASSUME RelayInv,
           \/ Block \/ MakePipe \/ InstallHandler("TERM", "INT") \/ InstallHandler("INT", "enable")
           \/ Enable \/ Attach
    PROVE  RelayInv'
<1>1. /\ relay \in RelayRow /\ access \in AccessRow /\ watch \in WatchRow /\ RelayOK(relay, access, watch)
      /\ handlers' = handlers
  BY DEF RelayInv, Block, MakePipe, InstallHandler, Enable, Attach
<1>2. /\ \A n \in {"pipe", "off", "TERM", "INT", "enable", "attach", "serving", "close"} : n \in OwnerSteps
      /\ "blocked" \in Masks /\ "serving" \in Masks
      /\ relay.handled \cup {"TERM"} \in Handled /\ relay.handled \cup {"INT"} \in Handled
  BY <1>1 DEF OwnerSteps, Masks, Handled, RelayRow
<1>3. CASE Block
  <2> DEFINE r1 == [relay EXCEPT !.pc = "pipe", !.mask = "blocked", !.saved = TRUE]
             r2 == [relay EXCEPT !.pc = "off"]
  <2>1. /\ relay.pc = "install" /\ (relay' = r1 \/ relay' = r2)
        /\ UNCHANGED <<access, descriptor, watch>>
    BY <1>3 DEF Block, OwnerAt
  <2>2. r1 \in RelayRow /\ r1.pc = "pipe" /\ r1.handled = relay.handled BY <1>1, <1>2 DEF RelayRow
  <2>3. r2 \in RelayRow /\ r2.pc = "off" /\ r2.handled = relay.handled /\ r2.mask = relay.mask
        /\ r2.saved = relay.saved
    BY <1>1, <1>2 DEF RelayRow
  <2> HIDE DEF r1, r2
  <2> QED BY <1>1, <2>1, <2>2, <2>3, OwnerMoves DEF RelayOK
<1>4. CASE MakePipe
  <2> DEFINE r1 == [relay EXCEPT !.pc = "TERM"]
             r2 == [relay EXCEPT !.pc = "close"]
  <2>1. relay.pc = "pipe" /\ watch' = watch BY <1>4 DEF MakePipe, OwnerAt
  <2>2. \/ relay' = r1 /\ descriptor' = "open" /\ access' = [closed |-> FALSE, count |-> 0]
        \/ relay' = r2 /\ UNCHANGED <<descriptor, access>>
    BY <1>4 DEF MakePipe
  <2>3. Borrowers = {} /\ access.count = 0 BY <1>1, <2>1, FS_EmptySet DEF RelayInv, RelayOK
  <2>4. r1 \in RelayRow /\ r1.pc = "TERM" /\ r2 \in RelayRow /\ r2.pc = "close" BY <1>1, <1>2 DEF RelayRow
  <2>5. [closed |-> FALSE, count |-> 0] \in AccessRow BY DEF AccessRow, Counts
  <2> HIDE DEF r1, r2
  <2>6. CASE relay' = r1 /\ descriptor' = "open" /\ access' = [closed |-> FALSE, count |-> 0]
    BY <1>1, <2>1, <2>3, <2>4, <2>5, <2>6, OwnerMoves DEF RelayOK
  <2>7. CASE relay' = r2 /\ UNCHANGED <<descriptor, access>>
    BY <1>1, <2>1, <2>4, <2>7, OwnerMoves DEF RelayOK
  <2> QED BY <2>2, <2>6, <2>7
<1>5. ASSUME NEW s \in {"TERM", "INT"}, NEW next \in {"INT", "enable"}, InstallHandler(s, next) PROVE RelayInv'
  <2> DEFINE h == relay.handled \cup {s}
             r1 == [relay EXCEPT !.pc = next, !.handled = h]
             r2 == [relay EXCEPT !.pc = "close"]
  <2>1. /\ relay.pc = s /\ (relay' = r1 \/ relay' = r2) /\ UNCHANGED <<access, descriptor, watch>>
    BY <1>5 DEF InstallHandler, OwnerAt
  <2>2. h \in Handled /\ next \in OwnerSteps BY <1>2
  <2> HIDE DEF h
  <2>3. r1 \in RelayRow /\ r1.pc = next /\ r2 \in RelayRow /\ r2.pc = "close" BY <1>1, <1>2, <2>2 DEF RelayRow
  <2> HIDE DEF r1, r2
  <2> QED BY <1>1, <2>1, <2>3, OwnerMoves DEF RelayOK
<1>6. CASE Enable
  <2> DEFINE r1 == [relay EXCEPT !.pc = "attach", !.mask = "serving"]
             r2 == [relay EXCEPT !.pc = "close"]
  <2>1. /\ relay.pc = "enable" /\ (relay' = r1 \/ relay' = r2) /\ UNCHANGED <<access, descriptor, watch>>
    BY <1>6 DEF Enable, OwnerAt
  <2>2. r1 \in RelayRow /\ r1.pc = "attach" /\ r2 \in RelayRow /\ r2.pc = "close" BY <1>1, <1>2 DEF RelayRow
  <2> HIDE DEF r1, r2
  <2> QED BY <1>1, <2>1, <2>2, OwnerMoves DEF RelayOK
<1>7. CASE Attach
  <2> DEFINE r1 == [relay EXCEPT !.pc = "serving"]
             r2 == [relay EXCEPT !.pc = "close"]
             w == [watch EXCEPT !.active = TRUE]
  <2>1. /\ relay.pc = "attach" /\ UNCHANGED <<access, descriptor>>
        /\ ((relay' = r1 /\ watch' = w) \/ (relay' = r2 /\ watch' = watch))
    BY <1>7 DEF Attach, OwnerAt
  <2>2. /\ r1 \in RelayRow /\ r1.pc = "serving" /\ r2 \in RelayRow /\ r2.pc = "close" /\ w \in WatchRow
    BY <1>1, <1>2 DEF RelayRow, WatchRow
  <2> HIDE DEF r1, r2, w
  <2>3. CASE relay' = r1 /\ watch' = w BY <1>1, <2>1, <2>2, <2>3, OwnerMoves DEF RelayOK
  <2>4. CASE relay' = r2 /\ watch' = watch BY <1>1, <2>1, <2>2, <2>4, OwnerMoves DEF RelayOK
  <2> QED BY <2>1, <2>3, <2>4
<1> QED BY <1>3, <1>4, <1>5, <1>6, <1>7

\* Serving, and the end of it.
LEMMA ServingKeeps ==
    ASSUME RelayInv, DispatchStop \/ Detach
    PROVE  RelayInv'
<1> DEFINE r == [relay EXCEPT !.pc = "close"]
           w1 == [watch EXCEPT !.active = FALSE]
           d == watch.delivered \/ published = 2
           w2 == [watch EXCEPT !.delivered = d]
<1>1. /\ relay \in RelayRow /\ access \in AccessRow /\ watch \in WatchRow /\ RelayOK(relay, access, watch)
      /\ handlers' = handlers /\ relay.pc = "serving" /\ UNCHANGED <<access, descriptor>>
  BY DEF RelayInv, DispatchStop, Detach, OwnerAt
<1>2. (relay' = r /\ watch' = w1) \/ (relay' = relay /\ watch' = w2) BY DEF DispatchStop, Detach
<1>3. "close" \in OwnerSteps /\ d \in BOOLEAN BY DEF OwnerSteps
<1> HIDE DEF d
<1>4. /\ r \in RelayRow /\ r.pc = "close" /\ w1 \in WatchRow /\ ~w1.active /\ w2 \in WatchRow
  BY <1>1, <1>3 DEF RelayRow, WatchRow
<1> HIDE DEF r, w1, w2
<1>5. CASE relay' = r /\ watch' = w1 BY <1>1, <1>4, <1>5, OwnerMoves DEF RelayOK
<1>6. CASE relay' = relay /\ watch' = w2 BY <1>1, <1>4, <1>6, OwnerMoves DEF RelayOK
<1> QED BY <1>2, <1>5, <1>6

\* close().
LEMMA CloseKeeps ==
    ASSUME RelayInv, CloseBlock \/ Restore \/ RetireDescriptor \/ CloseDrained \/ Unmask
    PROVE  RelayInv'
<1>1. /\ relay \in RelayRow /\ access \in AccessRow /\ watch \in WatchRow /\ RelayOK(relay, access, watch)
      /\ handlers' = handlers /\ watch' = watch
      /\ relay.pc \in {"close", "restore", "retire", "drain", "unmask"}
  BY DEF RelayInv, CloseBlock, Restore, RetireDescriptor, CloseDrained, Unmask, OwnerAt
<1>2. /\ \A n \in {"close", "abandoned", "restore", "retire", "drain", "unmask", "off"} : n \in OwnerSteps
      /\ "blocked" \in Masks /\ "original" \in Masks /\ relay.closes + 1 \in Counts
  BY <1>1 DEF OwnerSteps, Masks, RelayRow, Counts
<1>3. ~watch.active BY <1>1 DEF RelayOK
<1>4. ASSUME relay' = Failing(relay), UNCHANGED <<access, descriptor>> PROVE RelayInv'
  <2> DEFINE n == IF relay.closes = 0 THEN "close" ELSE "abandoned"
             c == relay.closes + 1
             r == [relay EXCEPT !.pc = n, !.closes = c]
  <2>1. n \in {"close", "abandoned"} /\ n \in OwnerSteps /\ c \in Counts BY <1>2
  <2>2. relay' = r BY <1>4 DEF Failing
  <2> HIDE DEF n, c
  <2>3. r \in RelayRow /\ r.pc = n BY <1>1, <2>1 DEF RelayRow
  <2> HIDE DEF r
  <2> QED BY <1>1, <1>3, <1>4, <2>1, <2>2, <2>3, OwnerMoves DEF RelayOK
<1>5. CASE CloseBlock
  <2> DEFINE r == [relay EXCEPT !.pc = "restore", !.mask = "blocked"]
  <2>1. (relay' = r \/ relay' = Failing(relay)) /\ UNCHANGED <<access, descriptor>> BY <1>5 DEF CloseBlock
  <2>2. r \in RelayRow /\ r.pc = "restore" BY <1>1, <1>2 DEF RelayRow
  <2> HIDE DEF r
  <2> QED BY <1>1, <1>3, <1>4, <2>1, <2>2, OwnerMoves DEF RelayOK
<1>6. CASE Restore
  <2> DEFINE r1(h) == [relay EXCEPT !.handled = h]
             r2 == [relay EXCEPT !.pc = "retire"]
  <2>1. relay.pc = "restore" /\ UNCHANGED <<access, descriptor>> BY <1>6 DEF Restore, OwnerAt
  <2>2. ASSUME NEW h \in Handled, relay' = r1(h) PROVE RelayInv'
    <3> DEFINE r == r1(h)
    <3>1. r \in RelayRow /\ r.pc = "restore" BY <1>1, <2>1 DEF RelayRow
    <3>2. relay' = r BY <2>2
    <3> HIDE DEF r
    <3> QED BY <1>1, <1>3, <2>1, <3>1, <3>2, OwnerMoves DEF RelayOK
  <2>3. CASE relay.handled = {} /\ relay' = r2
    <3>1. r2 \in RelayRow /\ r2.pc = "retire" /\ r2.handled = relay.handled BY <1>1, <1>2 DEF RelayRow
    <3> HIDE DEF r2
    <3> QED BY <1>1, <1>3, <2>1, <2>3, <3>1, OwnerMoves DEF RelayOK
  <2>4. \/ \E s \in relay.handled : relay' = r1(relay.handled \ {s})
        \/ relay' = Failing(relay) \/ (relay.handled = {} /\ relay' = r2)
    BY <1>6 DEF Restore
  <2>5. \A s : relay.handled \ {s} \in Handled BY <1>1 DEF RelayRow, Handled
  <2> HIDE DEF r1, r2
  <2> QED BY <1>4, <2>1, <2>2, <2>3, <2>4, <2>5
<1>7. CASE RetireDescriptor
  <2> DEFINE r == [relay EXCEPT !.pc = "drain"]
             a == [access EXCEPT !.closed = TRUE]
  <2>1. relay.pc = "retire" /\ relay' = r /\ access' = a /\ descriptor' = descriptor
    BY <1>7 DEF RetireDescriptor, OwnerAt
  <2>2. r \in RelayRow /\ r.pc = "drain" /\ r.handled = relay.handled BY <1>1, <1>2 DEF RelayRow
  <2>3. a \in AccessRow /\ a.closed /\ a.count = access.count BY <1>1 DEF AccessRow
  <2> HIDE DEF r, a
  <2> QED BY <1>1, <1>3, <2>1, <2>2, <2>3, OwnerMoves DEF RelayOK
<1>8. CASE CloseDrained
  <2> DEFINE r == [relay EXCEPT !.pc = "unmask"]
  <2>1. relay.pc = "drain" /\ relay' = r /\ access' = access /\ access.count = 0 /\ descriptor' # "open"
    BY <1>8 DEF CloseDrained, OwnerAt
  <2>2. r \in RelayRow /\ r.pc = "unmask" /\ r.handled = relay.handled BY <1>1, <1>2 DEF RelayRow
  <2>3. Borrowers = {} BY <2>1, FiniteBorrowers, FS_EmptySet DEF RelayInv
  <2> HIDE DEF r
  <2> QED BY <1>1, <1>3, <2>1, <2>2, <2>3, OwnerMoves DEF RelayOK
<1>9. CASE Unmask
  <2> DEFINE r == [relay EXCEPT !.pc = "off", !.mask = "original", !.saved = FALSE]
  <2>1. relay.pc = "unmask" /\ (relay' = r \/ relay' = Failing(relay)) /\ UNCHANGED <<access, descriptor>>
    BY <1>9 DEF Unmask, OwnerAt
  <2>2. r \in RelayRow /\ r.pc = "off" /\ r.handled = relay.handled /\ r.mask = "original" /\ ~r.saved
    BY <1>1, <1>2 DEF RelayRow
  <2> HIDE DEF r
  <2> QED BY <1>1, <1>3, <1>4, <2>1, <2>2, OwnerMoves DEF RelayOK
<1> QED BY <1>5, <1>6, <1>7, <1>8, <1>9

\* The relay's invariant is inductive.
THEOREM RelayInvariance == RelaySpec => []RelayInv
<1>1. RelayInit => RelayInv
  <2> SUFFICES ASSUME RelayInit PROVE RelayInv OBVIOUS
  <2>1. relay \in RelayRow /\ access \in AccessRow /\ watch \in WatchRow
    <3>1. "install" \in OwnerSteps /\ "original" \in Masks /\ {} \in Handled /\ 0 \in Counts
      BY DEF OwnerSteps, Masks, Handled, Counts
    <3> QED BY <3>1 DEF RelayInit, RelayRow, AccessRow, WatchRow
  <2>2. handlers \in [HandlerThreads -> HandlerSteps] BY DEF RelayInit, HandlerSteps
  <2>3. Borrowers = {} BY DEF RelayInit, Borrowers
  <2> QED BY <2>1, <2>2, <2>3, FS_EmptySet DEF RelayInit, RelayInv, RelayOK
<1>2. RelayInv /\ [RelayNext]_relayVars => RelayInv'
  <2> SUFFICES ASSUME RelayInv, [RelayNext]_relayVars PROVE RelayInv' OBVIOUS
  <2>1. CASE UNCHANGED relayVars BY <2>1 DEF relayVars, RelayInv, RelayOK, Borrowers
  <2> QED BY <2>1, HandlerKeeps, InstallKeeps, ServingKeeps, CloseKeeps DEF RelayNext, OwnerStep
<1> QED BY <1>1, <1>2, PTL DEF RelaySpec

\* The process-wide state the relay touches stays sound: its descriptor outlives
\* every handler that took it, and nothing of the relay outlives its retirement.
THEOREM CleanRelay == RelaySpec => []RelayIsClean
<1>1. RelayInv => RelayIsClean
  <2> SUFFICES ASSUME RelayInv PROVE RelayIsClean OBVIOUS
  <2>1. DescriptorAlive BY DEF DescriptorAlive, RelayInv, RelayOK, Borrowers
  <2>2. OffIsRestored BY FS_EmptySet DEF OffIsRestored, RelayInv, RelayOK
  <2> QED BY <2>1, <2>2 DEF RelayIsClean
<1> QED BY <1>1, RelayInvariance, PTL

=============================================================================
