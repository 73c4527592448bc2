-------------------------- MODULE DatabaseConnection --------------------------
(***************************************************************************)
(* jb::db::Database, the Transaction guard and the SQLite driver: two      *)
(* connections that may be opened on one database file, and on each the    *)
(* units of work that the services run as guarded transactions.            *)
(*                                                                         *)
(* SQLite itself is external: a statement or a COMMIT may fail and leave   *)
(* the transaction as it was, or fail and roll it back by itself; a        *)
(* ROLLBACK fails when there is no transaction any more, and may fail      *)
(* without ending it.                                                      *)
(***************************************************************************)
EXTENDS Naturals

CONSTANTS
    Connections,  \* Database objects opened on one file
    Units,        \* units of work, each of two writes
    MaxDbFaults   \* bound on failures and crashes

VARIABLES
    dbs,      \* Database::Private, the driver and the caller, per connection
    durable,  \* the writes in the file
    doneUnits,\* history: the units handed to a connection
    dbFaults

dbVars == <<dbs, durable, doneUnits, dbFaults>>

\* A unit of work writes two rows.
Rows(u) == {<<u, 1>>, <<u, 2>>}

(* opened, poisoned, owner: Database::Private.  link and lock: the driver's   *)
(* connection and lock_fd.  inTx and dirty: SQLite's transaction.  guard: a   *)
(* live Transaction.  unit, at: what the caller is writing; at = 3 is a unit  *)
(* that met an error, which the caller abandons.  queries: live Query objects.*)
ClosedDb == [opened |-> FALSE, poisoned |-> FALSE, owner |-> "None", link |-> FALSE,
             lock |-> FALSE, inTx |-> FALSE, dirty |-> {}, guard |-> FALSE,
             unit |-> 0, at |-> 0, queries |-> 0]

DbInit ==
    /\ dbs = [c \in Connections |-> ClosedDb]
    /\ durable = {}
    /\ doneUnits = {}
    /\ dbFaults = 0

Fault == dbFaults < MaxDbFaults /\ dbFaults' = dbFaults + 1
NoFault == UNCHANGED dbFaults

\* Database::Private::operation_error: the operations a connection refuses.
Usable(d) == d.opened /\ ~d.poisoned

-----------------------------------------------------------------------------
(* Opening and closing.                                                    *)

Locked == \E c \in Connections : dbs[c].lock

\* acquire_lock: an exclusive flock that does not wait.
Acquired(d) == [d EXCEPT !.lock = TRUE]

\* cleanup_failed_open: what is left when SQLite or a PRAGMA fails.
CleanedUp(d) == [d EXCEPT !.link = FALSE, !.lock = FALSE]

\* Database::open with Driver::open: the lock, the file, the configuration.
OpenDb(c) ==
    LET d == dbs[c] IN
    /\ ~d.opened
    /\ ~Locked
    /\ \/ /\ dbs' = [dbs EXCEPT ![c] = [Acquired(d) EXCEPT !.link = TRUE, !.opened = TRUE, !.poisoned = FALSE]]
          /\ NoFault
       \/ dbs' = [dbs EXCEPT ![c] = CleanedUp(Acquired(d))] /\ Fault
    /\ UNCHANGED <<durable, doneUnits>>

CloseUnlocksFirst(d, ok) ==
    IF ok THEN [d EXCEPT !.link = FALSE, !.lock = FALSE, !.inTx = FALSE, !.dirty = {}]
    ELSE [d EXCEPT !.lock = FALSE]

\* Driver::close: a close that SQLite refuses keeps the connection and the lock.
DriverClosed(d, ok) ==
    IF ok THEN [d EXCEPT !.link = FALSE, !.lock = FALSE, !.inTx = FALSE, !.dirty = {}]
    ELSE d

\* Database::close: refused while a query or a guard lives; a direct
\* transaction is rolled back first, and a rollback that fails poisons.
CloseDb(c) ==
    LET d == dbs[c]
        free == [d EXCEPT !.owner = "None", !.inTx = FALSE, !.dirty = {}] IN
    /\ d.opened /\ d.queries = 0 /\ d.owner # "Guarded"
    /\ \/ /\ d.owner = "Direct"
          /\ IF d.inTx THEN Fault ELSE NoFault
          /\ dbs' = [dbs EXCEPT ![c].owner = "None", ![c].poisoned = TRUE]
       \/ /\ d.owner = "Direct" => d.inTx
          /\ \/ /\ dbs' = [dbs EXCEPT ![c] = [DriverClosed(d, TRUE) EXCEPT !.opened = FALSE, !.poisoned = FALSE,
                                                                           !.owner = "None"]]
                /\ NoFault
             \/ dbs' = [dbs EXCEPT ![c] = DriverClosed(IF d.owner = "Direct" THEN free ELSE d, FALSE)] /\ Fault
    /\ UNCHANGED <<durable, doneUnits>>

\* The process that owns the connection dies: the kernel drops the lock and
\* SQLite's next reader drops the uncommitted transaction.
CrashDb(c) ==
    /\ dbs[c].opened
    /\ dbs' = [dbs EXCEPT ![c] = ClosedDb]
    /\ Fault
    /\ UNCHANGED <<durable, doneUnits>>

-----------------------------------------------------------------------------
(* Direct transactions: Database::transaction, commit and rollback.        *)

\* Database::transaction.
BeginDirect(c) ==
    LET d == dbs[c] IN
    /\ Usable(d) /\ d.owner = "None" /\ ~d.inTx
    /\ dbs' = [dbs EXCEPT ![c].owner = "Direct", ![c].inTx = TRUE]
    /\ NoFault
    /\ UNCHANGED <<durable, doneUnits>>

CommitAny(d) == d.owner # "None"

\* Database::commit and Database::rollback: a guard's transaction is not theirs.
DirectOwner(d) == d.owner = "Direct"

CommitDirect(c) ==
    LET d == dbs[c] IN
    /\ Usable(d) /\ DirectOwner(d)
    /\ \/ /\ d.inTx /\ NoFault
          /\ dbs' = [dbs EXCEPT ![c].owner = "None", ![c].inTx = FALSE, ![c].dirty = {}]
          /\ durable' = durable \cup d.dirty
       \/ /\ Fault  \* COMMIT fails, and SQLite may have rolled back
          /\ dbs' \in {dbs, [dbs EXCEPT ![c].inTx = FALSE, ![c].dirty = {}]}
          /\ UNCHANGED durable
    /\ UNCHANGED doneUnits

RollbackUnpoisoned(d, ok) ==
    IF ok THEN [d EXCEPT !.owner = "None", !.inTx = FALSE, !.dirty = {}]
    ELSE [d EXCEPT !.owner = "None"]

\* rollback and rollback_guarded_transaction: ownership ends whatever SQLite
\* answers, and a failure makes the connection unusable.
RolledBack(d, ok) ==
    IF ok THEN [d EXCEPT !.owner = "None", !.inTx = FALSE, !.dirty = {}]
    ELSE [d EXCEPT !.owner = "None", !.poisoned = TRUE]

RollbackDirect(c) ==
    LET d == dbs[c] IN
    /\ Usable(d) /\ DirectOwner(d)
    /\ \/ d.inTx /\ NoFault /\ dbs' = [dbs EXCEPT ![c] = RolledBack(d, TRUE)]
       \/ ~d.inTx /\ NoFault /\ dbs' = [dbs EXCEPT ![c] = RolledBack(d, FALSE)]
       \/ d.inTx /\ Fault /\ dbs' = [dbs EXCEPT ![c] = RolledBack(d, FALSE)]
    /\ UNCHANGED <<durable, doneUnits>>

-----------------------------------------------------------------------------
(* A unit of work under a Transaction guard.                               *)

\* Transaction::begin with begin_guarded_transaction.
BeginGuarded(c, u) ==
    LET d == dbs[c] IN
    /\ Usable(d) /\ d.owner = "None" /\ ~d.inTx /\ ~d.guard
    /\ u \notin doneUnits
    /\ dbs' = [dbs EXCEPT ![c] = [d EXCEPT !.owner = "Guarded", !.inTx = TRUE, !.guard = TRUE,
                                           !.unit = u, !.at = 0]]
    /\ doneUnits' = doneUnits \cup {u}
    /\ NoFault
    /\ UNCHANGED durable

\* A statement or a COMMIT fails, and SQLite may have rolled back; the caller
\* abandons the unit.
Abandoned(d, lost) ==
    IF lost THEN [d EXCEPT !.at = 3, !.inTx = FALSE, !.dirty = {}] ELSE [d EXCEPT !.at = 3]

\* A repository write: a Query lives on the connection and is executed.  The
\* caller returns at the first error.  Without a transaction of SQLite's own
\* a statement commits by itself.
WriteRow(c) ==
    LET d == dbs[c] IN
    /\ Usable(d) /\ d.guard /\ d.at < 2 /\ d.queries = 0
    /\ \/ /\ NoFault
          /\ dbs' = [dbs EXCEPT ![c].at = @ + 1, ![c].queries = 1,
                                ![c].dirty = IF d.inTx THEN @ \cup {<<d.unit, d.at + 1>>} ELSE @]
          /\ durable' = IF d.inTx THEN durable ELSE durable \cup {<<d.unit, d.at + 1>>}
       \/ /\ Fault
          /\ \E lost \in BOOLEAN :
                dbs' = [dbs EXCEPT ![c] = [Abandoned(d, lost) EXCEPT !.queries = 1]]
          /\ UNCHANGED durable
    /\ UNCHANGED doneUnits

\* Query::~Query.
DropQuery(c) ==
    /\ dbs[c].queries = 1
    /\ dbs' = [dbs EXCEPT ![c].queries = 0]
    /\ NoFault
    /\ UNCHANGED <<durable, doneUnits>>

\* Transaction::commit with commit_guarded_transaction: after an error the
\* guard still owns the transaction, and its destructor rolls it back.  The
\* owner mismatch that would poison the connection cannot happen (see
\* NoOrphanTransaction).
CommitGuarded(c) ==
    LET d == dbs[c] IN
    /\ Usable(d) /\ d.guard /\ d.at = 2 /\ d.queries = 0
    /\ d.owner = "Guarded"
    /\ \/ /\ d.inTx /\ NoFault
          /\ dbs' = [dbs EXCEPT ![c] = [d EXCEPT !.owner = "None", !.inTx = FALSE, !.dirty = {},
                                                 !.guard = FALSE]]
          /\ durable' = durable \cup d.dirty
       \/ /\ Fault
          /\ \E lost \in BOOLEAN :
                dbs' = [dbs EXCEPT ![c] = Abandoned(d, lost)]
          /\ UNCHANGED durable
    /\ UNCHANGED doneUnits

\* Transaction::~Transaction and Transaction::rollback: the unit is abandoned.
EndGuard(c) ==
    LET d == dbs[c]
        gone == [d EXCEPT !.guard = FALSE] IN
    /\ d.guard /\ d.queries = 0
    /\ Usable(d) /\ d.owner = "Guarded"
    /\ \/ d.inTx /\ NoFault /\ dbs' = [dbs EXCEPT ![c] = RolledBack(gone, TRUE)]
       \/ ~d.inTx /\ NoFault /\ dbs' = [dbs EXCEPT ![c] = RolledBack(gone, FALSE)]
       \/ d.inTx /\ Fault /\ dbs' = [dbs EXCEPT ![c] = RolledBack(gone, FALSE)]
    /\ UNCHANGED <<durable, doneUnits>>

DbNext ==
    \E c \in Connections :
        \/ OpenDb(c) \/ CloseDb(c) \/ CrashDb(c)
        \/ BeginDirect(c) \/ CommitDirect(c) \/ RollbackDirect(c)
        \/ \E u \in Units : BeginGuarded(c, u)
        \/ WriteRow(c) \/ DropQuery(c) \/ CommitGuarded(c) \/ EndGuard(c)

DbSpec == DbInit /\ [][DbNext]_dbVars

-----------------------------------------------------------------------------
(* Properties.                                                             *)

\* One daemon at a time: a second connection to the file does not exist while
\* the first one still has SQLite open on it, even after a close that failed.
OneConnection ==
    \A c, d \in Connections : dbs[c].link /\ dbs[d].link => c = d

\* A unit of work is durable as a whole or not at all, whatever fails and
\* whoever else calls commit on the connection it runs on.
UnitsAreAtomic ==
    \A u \in Units : Rows(u) \cap durable \in {{}, Rows(u)}

\* A connection that nobody owns a transaction of has no transaction open in
\* SQLite, unless the connection is marked as unusable: work is never taken
\* up inside the remains of an earlier unit.  A live guard owns the
\* transaction, so the owner mismatch of commit_guarded_transaction is never met.
NoOrphanTransaction ==
    \A c \in Connections :
        /\ Usable(dbs[c]) /\ dbs[c].owner = "None" => ~dbs[c].inTx /\ dbs[c].dirty = {}
        /\ dbs[c].guard => Usable(dbs[c]) /\ dbs[c].owner = "Guarded"

\* Whatever fails in opening, committing, rolling back or closing: one connection
\* at a time, units that are durable as a whole or not at all, and no work inside
\* the remains of an earlier unit.
TransactionsAreSafe ==
    OneConnection /\ UnitsAreAtomic /\ NoOrphanTransaction

=============================================================================
