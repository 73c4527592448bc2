----------------------------- MODULE QueryCursor -----------------------------
(***************************************************************************)
(* jb::db::Query over the SQLite DriverQuery: one query object that is     *)
(* prepared, bound, executed, read and finished in any order a caller may  *)
(* choose, on a connection that may become unusable in between.  The       *)
(* statement of SQLite is external: it restarts when it is stepped after   *)
(* its end, and a reset always takes effect, even when it reports an error.*)
(***************************************************************************)
EXTENDS Naturals

CONSTANTS
    Params,   \* how many parameters the statement has
    ResultRows,\* how many rows a SELECT returns
    BindValues \* the values bound

ASSUME ResultRowsAssumption == ResultRows \in Nat

Unset == 0

VARIABLES
    query,     \* Query::Private
    stmt,      \* the driver's statement and SQLite's view of it
    usable,    \* Database::Private::operation_error of the connection
    handed  \* history: rows handed out since exec

queryVars == <<query, stmt, usable, handed>>

Positions == 1 .. Params
NoSlots == [i \in Positions |-> Unset]

\* Query::Private::reset_execution.
ResetExecution(q) == [q EXCEPT !.active = FALSE, !.valid = FALSE, !.select = FALSE, !.atEnd = FALSE]

\* Query::clear, and DriverQuery::clear.
ClearedQuery == [prepared |-> FALSE, slots |-> NoSlots, mode |-> "None", next |-> 1,
                 active |-> FALSE, valid |-> FALSE, select |-> FALSE, atEnd |-> FALSE]
NoStatement == [exists |-> FALSE, select |-> FALSE, records |-> FALSE, pos |-> 0, bound |-> NoSlots]

QueryInit ==
    /\ query = ClearedQuery
    /\ stmt = NoStatement
    /\ usable = TRUE
    /\ handed = 0

Halted == ResultRows + 1

\* sqlite3_step: a statement that has ended starts again.
StepOf(s) ==
    IF s.select THEN (IF s.pos = Halted THEN 1 ELSE s.pos + 1) ELSE Halted

\* sqlite3_reset in DriverQuery::finish.
ResetStmt(s) == [s EXCEPT !.pos = 0, !.records = FALSE]

\* Query::finish of an active query; a reset that reports an error leaves the
\* query active.
FinishFails ==
    /\ stmt' = ResetStmt(stmt)
    /\ UNCHANGED <<query, usable, handed>>

Finished(q) == IF q.active THEN ResetExecution(q) ELSE q
FinishedStmt == IF query.active THEN ResetStmt(stmt) ELSE stmt

FinishQuery ==
    /\ query.active /\ usable
    /\ \/ FinishFails
       \/ /\ query' = Finished(query) /\ stmt' = FinishedStmt
          /\ UNCHANGED <<usable, handed>>

-----------------------------------------------------------------------------

\* Query::prepare: an execution in progress is finished, the old statement is
\* dropped, and only then is the new one compiled, which may fail.
PrepareQuery(select) ==
    /\ usable
    /\ \/ query.active /\ FinishFails
       \/ /\ \/ /\ query' = [ClearedQuery EXCEPT !.prepared = TRUE]
                /\ stmt' = [NoStatement EXCEPT !.exists = TRUE, !.select = select]
             \/ query' = ClearedQuery /\ stmt' = NoStatement
          /\ UNCHANGED <<usable, handed>>

KeepSlot(q, i, v, mode) == [q EXCEPT !.slots[i] = v, !.mode = mode]

\* bind_value when the driver refuses the value: the slot counts as unbound.
RefusedSlot(q, i, v, mode) == [q EXCEPT !.slots[i] = Unset, !.mode = mode]

\* Query::bind_value: the modes do not mix, and a running statement is finished.
BindParam(i, v, mode) ==
    /\ usable /\ query.prepared
    /\ query.mode \in {"None", mode}
    /\ \/ query.active /\ FinishFails
       \/ /\ query' = [Finished(query) EXCEPT !.slots[i] = v, !.mode = mode]
          /\ stmt' = [FinishedStmt EXCEPT !.bound[i] = v]
          /\ UNCHANGED <<usable, handed>>
       \/ /\ query' = RefusedSlot(Finished(query), i, v, mode)
          /\ stmt' = FinishedStmt
          /\ UNCHANGED <<usable, handed>>

\* Query::add_bind_value: the next position that is not bound.
AddBind(v) ==
    /\ usable /\ query.prepared /\ query.mode # "Named"
    /\ \E i \in Positions :
          /\ i >= query.next /\ query.slots[i] = Unset
          /\ \A k \in Positions : k >= query.next /\ k < i => query.slots[k] # Unset
          /\ \/ query.active /\ FinishFails
             \/ /\ query' = [Finished(query) EXCEPT !.slots[i] = v, !.mode = "Positional", !.next = i + 1]
                /\ stmt' = [FinishedStmt EXCEPT !.bound[i] = v]
                /\ UNCHANGED <<usable, handed>>
             \/ /\ query' = RefusedSlot(Finished(query), i, v, "Positional")
                /\ stmt' = FinishedStmt
                /\ UNCHANGED <<usable, handed>>

\* DriverQuery::exec, the error path: the statement is reset.
ExecFailed(s) == [s EXCEPT !.pos = 0]

\* Query::exec: every parameter is bound.  A statement that returns records is
\* not stepped yet; any other one runs to its end, or fails.
ExecQuery ==
    /\ usable /\ query.prepared
    /\ \/ query.active /\ FinishFails
       \/ /\ \A i \in Positions : query.slots[i] # Unset
          /\ LET s == FinishedStmt
                 ready == [s EXCEPT !.records = s.select] IN
             \/ /\ query' = [Finished(query) EXCEPT !.active = TRUE, !.select = s.select]
                /\ stmt' = IF s.select THEN ready ELSE [ready EXCEPT !.pos = StepOf(s)]
                /\ handed' = 0
             \/ /\ query' = ResetExecution(query)
                /\ stmt' = IF s.select THEN ready ELSE ExecFailed(ready)
                /\ UNCHANGED handed
          /\ UNCHANGED usable

StepsPastEnd(q) == TRUE

\* Query::next: the end is remembered, the statement is not stepped again.
MayStep(q) == ~q.atEnd

\* Query::next with DriverQuery::next.
NextRecord ==
    /\ usable /\ query.active /\ query.select /\ MayStep(query)
    /\ stmt.records
    /\ LET s == [stmt EXCEPT !.pos = StepOf(stmt)] IN
       \/ /\ s.pos # Halted
          /\ query' = [query EXCEPT !.valid = TRUE, !.atEnd = FALSE]
          /\ handed' = handed + 1
          /\ stmt' = s
       \/ /\ s.pos = Halted
          /\ query' = [query EXCEPT !.valid = FALSE, !.atEnd = TRUE]
          /\ stmt' = s
          /\ UNCHANGED handed
       \/ /\ s.pos # Halted   \* the fetch fails
          /\ query' = [query EXCEPT !.valid = FALSE]
          /\ stmt' = s
          /\ UNCHANGED handed
    /\ UNCHANGED usable

\* Query::clear and Query::~Query, on an unusable connection too.
ClearQuery ==
    /\ query' = ClearedQuery /\ stmt' = NoStatement
    /\ UNCHANGED <<usable, handed>>

\* Another operation on the connection has poisoned it.
PoisonUnderQuery ==
    /\ usable /\ usable' = FALSE
    /\ UNCHANGED <<query, stmt, handed>>

QueryNext ==
    \/ \E select \in BOOLEAN : PrepareQuery(select)
    \/ \E i \in Positions, v \in BindValues, mode \in {"Positional", "Named"} : BindParam(i, v, mode)
    \/ \E v \in BindValues : AddBind(v)
    \/ ExecQuery
    \/ NextRecord
    \/ FinishQuery
    \/ ClearQuery
    \/ PoisonUnderQuery

QuerySpec == QueryInit /\ [][QueryNext]_queryVars

-----------------------------------------------------------------------------
(* Properties.                                                             *)

\* A cursor hands out every row of an execution at most once: SQLite would
\* start over after the end, so Query::next must not step again.
RowsOnce == handed <= ResultRows

\* What the query believes is bound is what SQLite has bound, and a statement
\* that SQLite is in the middle of (and that may hold a lock) is one the query
\* knows to be active and will finish before it binds or executes again.
StatementAgrees ==
    /\ \A i \in Positions : query.slots[i] # Unset => stmt.bound[i] = query.slots[i]
    /\ stmt.pos # 0 => query.active
    /\ query.valid => query.active /\ query.select /\ ~query.atEnd

\* A query shows what SQLite has: its bindings, its position and its rows, each
\* row once, through failed steps, rebinding and re-execution.
CursorIsFaithful ==
    RowsOnce /\ StatementAgrees

=============================================================================
