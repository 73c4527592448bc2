---------------------------- MODULE DatabaseProofs ----------------------------
(***************************************************************************)
(* The guarantees of jb::db, for any number of connections, units, faults, *)
(* parameters and rows: transactions are safe (TransactionsAreSafe) and a  *)
(* query hands out its result set faithfully (CursorIsFaithful).           *)
(***************************************************************************)
EXTENDS DatabaseConnection, QueryCursor, TLAPS

-----------------------------------------------------------------------------
(* Transactions.                                                           *)

\* The ranges of the fields of a connection's row.
Owners == {"None", "Direct", "Guarded"}
Writes == SUBSET (Units \X {1, 2})
UnitIds == Units \cup {0}
Progress == 0..3
Counts == 0..1

DbRow == [opened : BOOLEAN, poisoned : BOOLEAN, owner : Owners, link : BOOLEAN, lock : BOOLEAN,
          inTx : BOOLEAN, dirty : Writes, guard : BOOLEAN, unit : UnitIds, at : Progress,
          queries : Counts]

\* What a unit has written after at of its rows.
Written(u, at) == {<<u, k>> : k \in 1..at}

\* The lock is held exactly while the file is open.  A transaction is owned,
\* or the connection is unusable; only a guard's transaction has writes, and as
\* long as the unit met no error these are all the rows it wrote.
DbRowOK(d) ==
    /\ d.link = d.opened /\ d.lock = d.opened
    /\ ~d.opened => d.owner = "None" /\ ~d.inTx
    /\ d.guard <=> d.owner = "Guarded"
    /\ d.guard => ~d.poisoned
    /\ ~d.inTx => d.dirty = {}
    /\ d.owner = "Direct" => d.dirty = {}
    /\ Usable(d) /\ d.owner = "None" => ~d.inTx
    /\ d.guard => d.unit \in Units
    /\ d.guard /\ d.at < 3 => d.inTx /\ d.dirty = Written(d.unit, d.at)

\* Both rows of a unit are durable or none is.
DurablePairs == \A u \in Units : <<u, 1>> \in durable <=> <<u, 2>> \in durable

DbInv ==
    /\ dbs \in [Connections -> DbRow]
    /\ \A c \in Connections : DbRowOK(dbs[c])
    /\ \A c, d \in Connections : dbs[c].lock /\ dbs[d].lock => c = d
    /\ DurablePairs

\* What a unit wrote in its first and second row.
LEMMA WrittenRows ==
    ASSUME NEW u
    PROVE  /\ Written(u, 0) = {}
           /\ Written(u, 0) \cup {<<u, 0 + 1>>} = Written(u, 1)
           /\ Written(u, 1) \cup {<<u, 1 + 1>>} = Written(u, 2)
           /\ Written(u, 2) = Rows(u)
<1>1. 1..0 = {} /\ 1..1 = {1} /\ 1..2 = {1, 2} OBVIOUS
<1> QED BY <1>1 DEF Written, Rows

\* Values that the steps write.
LEMMA RowValues ==
    /\ "None" \in Owners /\ "Direct" \in Owners /\ "Guarded" \in Owners
    /\ {} \in Writes /\ Units \subseteq UnitIds /\ 0 \in UnitIds
    /\ 0 \in Progress /\ 3 \in Progress /\ 0 \in Counts /\ 1 \in Counts
BY DEF Owners, Writes, UnitIds, Progress, Counts

\* A step on one connection that takes no lock another one holds.
LEMMA DbStepKeeps ==
    ASSUME DbInv, NEW c \in Connections, NEW e \in DbRow, DbRowOK(e),
           dbs' = [dbs EXCEPT ![c] = e], e.lock => dbs[c].lock \/ ~Locked, DurablePairs'
    PROVE  DbInv'
<1>1. /\ dbs' \in [Connections -> DbRow] /\ dbs'[c] = e
      /\ \A x \in Connections : x # c => dbs'[x] = dbs[x]
  BY DEF DbInv
<1>2. \A x \in Connections : DbRowOK(dbs'[x]) BY <1>1 DEF DbInv
<1>3. \A x, y \in Connections : dbs'[x].lock /\ dbs'[y].lock => x = y
  BY <1>1 DEF DbInv, Locked
<1> QED BY <1>1, <1>2, <1>3 DEF DbInv

\* A step that leaves the file alone.
LEMMA SameDurable ==
    ASSUME DurablePairs, durable' = durable
    PROVE  DurablePairs'
BY DEF DurablePairs

\* Opening, closing and dying.
LEMMA OpenCloseKeeps ==
    ASSUME DbInv, NEW c \in Connections, OpenDb(c) \/ CloseDb(c) \/ CrashDb(c)
    PROVE  DbInv'
<1> DEFINE d == dbs[c]
<1>1. d \in DbRow /\ DbRowOK(d) /\ dbs \in [Connections -> DbRow] BY DEF DbInv
<1>2. DurablePairs' BY SameDurable DEF DbInv, OpenDb, CloseDb, CrashDb
<1>3. CASE OpenDb(c)
  <2> DEFINE e1 == [Acquired(d) EXCEPT !.link = TRUE, !.opened = TRUE, !.poisoned = FALSE]
             e2 == CleanedUp(Acquired(d))
  <2>1. ~d.opened /\ ~Locked BY <1>3 DEF OpenDb
  <2>2. e1 \in DbRow /\ DbRowOK(e1) BY <1>1, <2>1, RowValues DEF DbRow, DbRowOK, Acquired, Usable
  <2>3. e2 \in DbRow /\ DbRowOK(e2) BY <1>1, <2>1, RowValues DEF DbRow, DbRowOK, Acquired, CleanedUp, Usable
  <2>4. dbs' = [dbs EXCEPT ![c] = e1] \/ dbs' = [dbs EXCEPT ![c] = e2] BY <1>3 DEF OpenDb
  <2> HIDE DEF e1, e2
  <2> QED BY <1>2, <2>1, <2>2, <2>3, <2>4, DbStepKeeps
<1>4. CASE CloseDb(c)
  <2> DEFINE free == [d EXCEPT !.owner = "None", !.inTx = FALSE, !.dirty = {}]
             e1 == [d EXCEPT !.owner = "None", !.poisoned = TRUE]
             e2 == [DriverClosed(d, TRUE) EXCEPT !.opened = FALSE, !.poisoned = FALSE, !.owner = "None"]
             e3 == IF d.owner = "Direct" THEN free ELSE d
  <2>1. d.opened /\ d.owner # "Guarded" BY <1>4 DEF CloseDb
  <2>2. e1 \in DbRow /\ DbRowOK(e1) /\ (e1.lock => d.lock)
    BY <1>1, <2>1, RowValues DEF DbRow, DbRowOK, Usable
  <2>3. e2 \in DbRow /\ DbRowOK(e2) /\ (e2.lock => d.lock)
    BY <1>1, <2>1, RowValues DEF DbRow, DbRowOK, Usable, DriverClosed
  <2>4. e3 \in DbRow /\ DbRowOK(e3) /\ (e3.lock => d.lock)
    BY <1>1, <2>1, RowValues DEF DbRow, DbRowOK, Usable
  <2>5. \/ dbs' = [dbs EXCEPT ![c] = e1] \/ dbs' = [dbs EXCEPT ![c] = e2]
        \/ dbs' = [dbs EXCEPT ![c] = e3]
    BY <1>1, <1>4 DEF CloseDb, DriverClosed
  <2> HIDE DEF e1, e2, e3
  <2> QED BY <1>2, <2>2, <2>3, <2>4, <2>5, DbStepKeeps
<1>5. CASE CrashDb(c)
  <2>1. ClosedDb \in DbRow /\ DbRowOK(ClosedDb) /\ ~ClosedDb.lock
    BY RowValues DEF ClosedDb, DbRow, DbRowOK, Usable
  <2> QED BY <1>2, <1>5, <2>1, DbStepKeeps DEF CrashDb
<1> QED BY <1>3, <1>4, <1>5

\* Direct transactions.
LEMMA DirectKeeps ==
    ASSUME DbInv, NEW c \in Connections, BeginDirect(c) \/ CommitDirect(c) \/ RollbackDirect(c)
    PROVE  DbInv'
<1> DEFINE d == dbs[c]
           e1 == [d EXCEPT !.owner = "Direct", !.inTx = TRUE]
           e2 == [d EXCEPT !.owner = "None", !.inTx = FALSE, !.dirty = {}]
           e3 == [d EXCEPT !.inTx = FALSE, !.dirty = {}]
           e4 == [d EXCEPT !.owner = "None", !.poisoned = TRUE]
<1>1. d \in DbRow /\ DbRowOK(d) /\ dbs \in [Connections -> DbRow] BY DEF DbInv
<1>2. CASE BeginDirect(c)
  <2>1. Usable(d) /\ d.owner = "None" /\ ~d.inTx BY <1>2 DEF BeginDirect
  <2>2. e1 \in DbRow /\ DbRowOK(e1) /\ (e1.lock => d.lock)
    BY <1>1, <2>1, RowValues DEF DbRow, DbRowOK, Usable
  <2>3. dbs' = [dbs EXCEPT ![c] = e1] /\ durable' = durable BY <1>1, <1>2 DEF BeginDirect
  <2> HIDE DEF e1
  <2> QED BY <2>2, <2>3, SameDurable, DbStepKeeps DEF DbInv
<1>3. CASE CommitDirect(c) \/ RollbackDirect(c)
  <2>1. Usable(d) /\ d.owner = "Direct" /\ d.dirty = {}
    BY <1>1, <1>3 DEF CommitDirect, RollbackDirect, DirectOwner, DbRowOK
  <2>2. durable' = durable BY <1>3, <2>1 DEF CommitDirect, RollbackDirect
  <2>3. d \in DbRow /\ DbRowOK(d) /\ (d.lock => d.lock) BY <1>1
  <2>4. e2 \in DbRow /\ DbRowOK(e2) /\ (e2.lock => d.lock)
    BY <1>1, <2>1, RowValues DEF DbRow, DbRowOK, Usable
  <2>5. e3 \in DbRow /\ DbRowOK(e3) /\ (e3.lock => d.lock)
    BY <1>1, <2>1, RowValues DEF DbRow, DbRowOK, Usable
  <2>6. e4 \in DbRow /\ DbRowOK(e4) /\ (e4.lock => d.lock)
    BY <1>1, <2>1, RowValues DEF DbRow, DbRowOK, Usable
  <2>7. \/ dbs' = [dbs EXCEPT ![c] = e2] \/ dbs' = [dbs EXCEPT ![c] = e3]
        \/ dbs' = [dbs EXCEPT ![c] = e4] \/ dbs' = [dbs EXCEPT ![c] = d]
    BY <1>1, <1>3 DEF CommitDirect, RollbackDirect, RolledBack
  <2> HIDE DEF e2, e3, e4
  <2> QED BY <2>2, <2>3, <2>4, <2>5, <2>6, <2>7, SameDurable, DbStepKeeps DEF DbInv
<1> QED BY <1>2, <1>3

\* Beginning a unit, and dropping a query.
LEMMA BeginKeeps ==
    ASSUME DbInv, NEW c \in Connections,
           (\E u \in Units : BeginGuarded(c, u)) \/ DropQuery(c)
    PROVE  DbInv'
<1> DEFINE d == dbs[c]
           e1 == [d EXCEPT !.queries = 0]
<1>1. d \in DbRow /\ DbRowOK(d) /\ dbs \in [Connections -> DbRow] BY DEF DbInv
<1>2. durable' = durable BY DEF BeginGuarded, DropQuery
<1>3. CASE DropQuery(c)
  <2>1. e1 \in DbRow /\ DbRowOK(e1) /\ (e1.lock => d.lock) BY <1>1, RowValues DEF DbRow, DbRowOK, Usable
  <2>2. dbs' = [dbs EXCEPT ![c] = e1] BY <1>1, <1>3 DEF DropQuery
  <2> HIDE DEF e1
  <2> QED BY <1>2, <2>1, <2>2, SameDurable, DbStepKeeps DEF DbInv
<1>4. ASSUME NEW u \in Units, BeginGuarded(c, u) PROVE DbInv'
  <2> DEFINE e == [d EXCEPT !.owner = "Guarded", !.inTx = TRUE, !.guard = TRUE, !.unit = u, !.at = 0]
  <2>1. Usable(d) /\ ~d.inTx BY <1>4 DEF BeginGuarded
  <2>6. e \in DbRow BY <1>1, RowValues DEF DbRow
  <2>2. /\ e.link = d.link /\ e.lock = d.lock /\ e.opened = d.opened
        /\ e.poisoned = d.poisoned /\ e.owner = "Guarded" /\ e.inTx /\ e.guard
        /\ e.unit = u /\ e.at = 0 /\ e.dirty = d.dirty
    BY <1>1, RowValues DEF DbRow
  <2>3. dbs' = [dbs EXCEPT ![c] = e] BY <1>4 DEF BeginGuarded
  <2> HIDE DEF e
  <2>4. e.dirty = Written(e.unit, e.at) BY <1>1, <2>1, <2>2, WrittenRows DEF DbRowOK
  <2>5. DbRowOK(e) BY <1>1, <2>1, <2>2, <2>4 DEF DbRowOK, Usable
  <2> QED BY <1>2, <2>2, <2>3, <2>5, <2>6, SameDurable, DbStepKeeps DEF DbInv
<1> QED BY <1>3, <1>4

\* A unit that is abandoned keeps its guard, and its writes are still there or
\* gone.
LEMMA AbandonedRow ==
    ASSUME NEW d \in DbRow, DbRowOK(d), d.guard, NEW lost \in BOOLEAN
    PROVE  LET a == Abandoned(d, lost)
               b == [a EXCEPT !.queries = 1]
           IN /\ a \in DbRow /\ DbRowOK(a) /\ a.lock = d.lock
              /\ b \in DbRow /\ DbRowOK(b) /\ b.lock = d.lock
<1> DEFINE a == Abandoned(d, lost)
           b == [a EXCEPT !.queries = 1]
<1>1. /\ a \in DbRow /\ a.at = 3 /\ a.inTx \in BOOLEAN
      /\ \A f \in {"link", "lock", "opened", "poisoned", "owner", "guard", "unit"} : a[f] = d[f]
      /\ (~a.inTx /\ a.dirty = {}) \/ (a.inTx = d.inTx /\ a.dirty = d.dirty)
  <2>1. CASE lost
    <3>1. a = [d EXCEPT !.at = 3, !.inTx = FALSE, !.dirty = {}] BY <2>1 DEF Abandoned
    <3> HIDE DEF a
    <3> QED BY <3>1, RowValues DEF DbRow
  <2>2. CASE ~lost
    <3>1. a = [d EXCEPT !.at = 3] BY <2>2 DEF Abandoned
    <3> HIDE DEF a
    <3> QED BY <3>1, RowValues DEF DbRow
  <2> QED BY <2>1, <2>2
<1> HIDE DEF a
<1>2. DbRowOK(a) /\ a.lock = d.lock BY <1>1 DEF DbRowOK, Usable
<1>3. b \in DbRow BY <1>1, RowValues DEF DbRow
<1>4. DbRowOK(b) /\ b.lock = d.lock
  <2>1. \A f \in {"link", "lock", "opened", "poisoned", "owner", "guard", "unit", "inTx", "dirty", "at"} :
            b[f] = a[f]
    BY <1>1 DEF DbRow
  <2> HIDE DEF b
  <2> QED BY <1>1, <1>2, <2>1 DEF DbRowOK, Usable
<1> QED BY <1>1, <1>2, <1>3, <1>4 DEF a

\* Writing a row of a unit.
LEMMA WriteRowKeeps ==
    ASSUME DbInv, NEW c \in Connections, WriteRow(c)
    PROVE  DbInv'
<1> DEFINE d == dbs[c]
           w == d.dirty \cup {<<d.unit, d.at + 1>>}
           n == d.at + 1
           e == [d EXCEPT !.at = n, !.queries = 1, !.dirty = w]
<1>1. /\ d \in DbRow /\ DbRowOK(d) /\ dbs \in [Connections -> DbRow]
      /\ Usable(d) /\ d.guard /\ d.at < 2
  BY DEF DbInv, WriteRow
<1>2. d.at \in {0, 1} /\ d.dirty \in Writes
  <2>1. d.at \in Progress /\ d.dirty \in Writes BY <1>1 DEF DbRow
  <2> QED BY <1>1, <2>1 DEF Progress
<1>3. d.inTx /\ d.dirty = Written(d.unit, d.at) /\ d.unit \in Units BY <1>1, <1>2 DEF DbRowOK
<1>4. \/ durable' = durable /\ dbs' = [dbs EXCEPT ![c] = e]
      \/ \E lost \in BOOLEAN :
            /\ durable' = durable
            /\ dbs' = [dbs EXCEPT ![c] = [Abandoned(d, lost) EXCEPT !.queries = 1]]
  BY <1>1, <1>3 DEF WriteRow
<1>5. CASE durable' = durable /\ dbs' = [dbs EXCEPT ![c] = e]
  <2>1. w \in Writes /\ n \in Progress
    <3>1. <<d.unit, d.at + 1>> \in Units \X {1, 2} BY <1>2, <1>3
    <3> QED BY <1>2, <3>1 DEF Writes, Progress
  <2>2. w = Written(d.unit, n)
    <3>1. CASE d.at = 0 BY <1>3, <3>1, WrittenRows
    <3>2. CASE d.at = 1 BY <1>3, <3>2, WrittenRows
    <3> QED BY <1>2, <3>1, <3>2
  <2> HIDE DEF w, n
  <2>3. e \in DbRow BY <1>1, <2>1, RowValues DEF DbRow
  <2>4. /\ e.link = d.link /\ e.lock = d.lock /\ e.opened = d.opened /\ e.poisoned = d.poisoned
        /\ e.owner = d.owner /\ e.inTx = d.inTx /\ e.guard = d.guard /\ e.unit = d.unit
        /\ e.at = n /\ e.dirty = w
    BY <1>1, RowValues DEF DbRow
  <2> HIDE DEF e
  <2>5. DbRowOK(e) BY <1>1, <1>3, <2>2, <2>4 DEF DbRowOK, Usable
  <2> QED BY <1>5, <2>3, <2>4, <2>5, SameDurable, DbStepKeeps DEF DbInv
<1>6. ASSUME NEW lost \in BOOLEAN, durable' = durable,
             dbs' = [dbs EXCEPT ![c] = [Abandoned(d, lost) EXCEPT !.queries = 1]]
      PROVE  DbInv'
  BY <1>1, <1>6, AbandonedRow, SameDurable, DbStepKeeps DEF DbInv
<1> QED BY <1>4, <1>5, <1>6

\* Committing a unit makes both its rows durable.
LEMMA CommitGuardedKeeps ==
    ASSUME DbInv, NEW c \in Connections, CommitGuarded(c)
    PROVE  DbInv'
<1> DEFINE d == dbs[c]
           e == [d EXCEPT !.owner = "None", !.inTx = FALSE, !.dirty = {}, !.guard = FALSE]
<1>1. /\ d \in DbRow /\ DbRowOK(d) /\ dbs \in [Connections -> DbRow]
      /\ Usable(d) /\ d.guard /\ d.at = 2
  BY DEF DbInv, CommitGuarded
<1>2. d.dirty = Rows(d.unit) BY <1>1, WrittenRows DEF DbRowOK
<1>3. CASE durable' = durable \cup d.dirty /\ dbs' = [dbs EXCEPT ![c] = e]
  <2>1. e \in DbRow /\ DbRowOK(e) /\ (e.lock => d.lock) BY <1>1, RowValues DEF DbRow, DbRowOK, Usable
  <2>2. DurablePairs'
    <3>1. \A u : <<u, 1>> \in Rows(d.unit) <=> <<u, 2>> \in Rows(d.unit) BY DEF Rows
    <3> QED BY <1>2, <1>3, <3>1 DEF DurablePairs, DbInv
  <2> HIDE DEF e
  <2> QED BY <1>3, <2>1, <2>2, DbStepKeeps
<1>4. ASSUME NEW lost \in BOOLEAN, durable' = durable,
             dbs' = [dbs EXCEPT ![c] = Abandoned(d, lost)]
      PROVE  DbInv'
  <2> DEFINE a == Abandoned(d, lost)
  <2>1. a \in DbRow /\ DbRowOK(a) /\ a.lock = d.lock BY <1>1, AbandonedRow
  <2>2. dbs' = [dbs EXCEPT ![c] = a] BY <1>4
  <2> HIDE DEF a
  <2> QED BY <1>4, <2>1, <2>2, SameDurable, DbStepKeeps DEF DbInv
<1> QED BY <1>3, <1>4 DEF CommitGuarded

\* Abandoning a unit.
LEMMA EndGuardKeeps ==
    ASSUME DbInv, NEW c \in Connections, EndGuard(c)
    PROVE  DbInv'
<1> DEFINE d == dbs[c]
           e1 == [d EXCEPT !.guard = FALSE, !.owner = "None", !.inTx = FALSE, !.dirty = {}]
           e2 == [d EXCEPT !.guard = FALSE, !.owner = "None", !.poisoned = TRUE]
<1>1. d \in DbRow /\ DbRowOK(d) /\ Usable(d) /\ d.guard BY DEF DbInv, EndGuard
<1>2. e1 \in DbRow /\ DbRowOK(e1) /\ (e1.lock => d.lock) BY <1>1, RowValues DEF DbRow, DbRowOK, Usable
<1>3. e2 \in DbRow /\ DbRowOK(e2) /\ (e2.lock => d.lock) BY <1>1, RowValues DEF DbRow, DbRowOK, Usable
<1>4. /\ dbs' = [dbs EXCEPT ![c] = e1] \/ dbs' = [dbs EXCEPT ![c] = e2]
      /\ durable' = durable
  BY <1>1, RowValues DEF EndGuard, RolledBack, DbRow
<1> HIDE DEF e1, e2
<1> QED BY <1>2, <1>3, <1>4, SameDurable, DbStepKeeps DEF DbInv

\* The connections' invariant is inductive.
THEOREM DbInvariance == DbSpec => []DbInv
<1>1. DbInit => DbInv
  <2> SUFFICES ASSUME DbInit PROVE DbInv OBVIOUS
  <2>1. ClosedDb \in DbRow /\ DbRowOK(ClosedDb) /\ ~ClosedDb.lock
    BY RowValues DEF ClosedDb, DbRow, DbRowOK, Usable
  <2> QED BY <2>1 DEF DbInit, DbInv, DurablePairs
<1>2. DbInv /\ [DbNext]_dbVars => DbInv'
  <2> SUFFICES ASSUME DbInv, [DbNext]_dbVars PROVE DbInv' OBVIOUS
  <2>1. CASE UNCHANGED dbVars BY <2>1 DEF dbVars, DbInv, DurablePairs
  <2>2. ASSUME NEW c \in Connections,
               \/ OpenDb(c) \/ CloseDb(c) \/ CrashDb(c)
               \/ BeginDirect(c) \/ CommitDirect(c) \/ RollbackDirect(c)
               \/ \E u \in Units : BeginGuarded(c, u)
               \/ WriteRow(c) \/ DropQuery(c) \/ CommitGuarded(c) \/ EndGuard(c)
        PROVE  DbInv'
    BY <2>2, OpenCloseKeeps, DirectKeeps, BeginKeeps, WriteRowKeeps, CommitGuardedKeeps, EndGuardKeeps
  <2> QED BY <2>1, <2>2 DEF DbNext
<1> QED BY <1>1, <1>2, PTL DEF DbSpec

\* Whatever fails in opening, committing, rolling back or closing: one
\* connection at a time, units that are durable as a whole or not at all, and
\* no work inside the remains of an earlier unit.
THEOREM SafeTransactions == DbSpec => []TransactionsAreSafe
<1>1. DbInv => TransactionsAreSafe
  <2> SUFFICES ASSUME DbInv PROVE TransactionsAreSafe OBVIOUS
  <2>1. OneConnection BY DEF DbInv, DbRowOK, OneConnection
  <2>2. UnitsAreAtomic
    <3> SUFFICES ASSUME NEW u \in Units PROVE Rows(u) \cap durable \in {{}, Rows(u)}
      BY DEF UnitsAreAtomic
    <3>1. <<u, 1>> \in durable <=> <<u, 2>> \in durable BY DEF DbInv, DurablePairs
    <3>2. CASE <<u, 1>> \in durable
      <4>1. Rows(u) \cap durable = Rows(u) BY <3>1, <3>2 DEF Rows
      <4> QED BY <4>1
    <3>3. CASE <<u, 1>> \notin durable
      <4>1. Rows(u) \cap durable = {} BY <3>1, <3>3 DEF Rows
      <4> QED BY <4>1
    <3> QED BY <3>2, <3>3
  <2>3. NoOrphanTransaction
    <3> SUFFICES ASSUME NEW c \in Connections
                 PROVE  /\ Usable(dbs[c]) /\ dbs[c].owner = "None" => ~dbs[c].inTx /\ dbs[c].dirty = {}
                        /\ dbs[c].guard => Usable(dbs[c]) /\ dbs[c].owner = "Guarded"
      BY DEF NoOrphanTransaction
    <3>1. dbs[c] \in DbRow /\ DbRowOK(dbs[c]) BY DEF DbInv
    <3> QED BY <3>1, RowValues DEF DbRow, DbRowOK, Usable
  <2> QED BY <2>1, <2>2, <2>3 DEF TransactionsAreSafe
<1> QED BY <1>1, DbInvariance, PTL

-----------------------------------------------------------------------------
(* The cursor of a query.                                                  *)

Slots == [Positions -> BindValues \cup {Unset}]
Modes == {"None", "Positional", "Named"}
SlotNumbers == Nat
RowPositions == Nat

QueryRow == [prepared : BOOLEAN, slots : Slots, mode : Modes, next : SlotNumbers,
             active : BOOLEAN, valid : BOOLEAN, select : BOOLEAN, atEnd : BOOLEAN]
StmtRow == [exists : BOOLEAN, select : BOOLEAN, records : BOOLEAN, pos : RowPositions, bound : Slots]

\* While records are being read the statement has been stepped at least as often
\* as a record was handed out, and not past the last one.  The query and SQLite
\* agree on what kind of statement is running.
Reading(q, s) == q.active /\ q.select /\ ~q.atEnd /\ s.records

CursorOK(q, s, n) ==
    /\ n <= ResultRows
    /\ \A i \in Positions : q.slots[i] # Unset => s.bound[i] = q.slots[i]
    /\ s.pos # 0 => q.active
    /\ q.valid => q.active /\ q.select /\ ~q.atEnd
    /\ q.active => q.select = s.select
    /\ ~q.active => ~q.select /\ ~q.atEnd
    /\ Reading(q, s) => n <= s.pos /\ s.pos <= ResultRows

CursorInv ==
    /\ query \in QueryRow /\ stmt \in StmtRow /\ handed \in Nat
    /\ CursorOK(query, stmt, handed)

\* Values that the steps write.
LEMMA CursorValues ==
    /\ NoSlots \in Slots /\ 0 \in RowPositions /\ Halted \in RowPositions /\ 1 \in SlotNumbers
    /\ \A m \in {"None", "Positional", "Named"} : m \in Modes
    /\ \A p \in RowPositions : p + 1 \in RowPositions /\ 1 \in RowPositions
BY ResultRowsAssumption DEF Slots, NoSlots, RowPositions, Halted, SlotNumbers, Modes

\* Dropping the statement leaves a query that knows of none.
LEMMA ClearedKeeps ==
    ASSUME CursorInv, NEW k \in BOOLEAN, handed' = handed,
           query' \in {ClearedQuery, [ClearedQuery EXCEPT !.prepared = TRUE]},
           stmt' \in {NoStatement, [NoStatement EXCEPT !.exists = TRUE, !.select = k]}
    PROVE  CursorInv'
<1>1. /\ query' \in QueryRow /\ query'.slots = NoSlots
      /\ ~query'.active /\ ~query'.valid /\ ~query'.select /\ ~query'.atEnd
  <2>1. CASE query' = ClearedQuery BY <2>1, CursorValues DEF QueryRow, ClearedQuery
  <2>2. CASE query' = [ClearedQuery EXCEPT !.prepared = TRUE]
    BY <2>2, CursorValues DEF QueryRow, ClearedQuery
  <2> QED BY <2>1, <2>2
<1>2. stmt' \in StmtRow /\ stmt'.pos = 0
  <2>1. CASE stmt' = NoStatement BY <2>1, CursorValues DEF StmtRow, NoStatement
  <2>2. CASE stmt' = [NoStatement EXCEPT !.exists = TRUE, !.select = k]
    BY <2>2, CursorValues DEF StmtRow, NoStatement
  <2> QED BY <2>1, <2>2
<1>3. \A i \in Positions : NoSlots[i] = Unset BY DEF NoSlots
<1> QED BY <1>1, <1>2, <1>3 DEF CursorInv, CursorOK, Reading

\* A reset that reports an error: the statement is at its start, and no record
\* is read before the next execution.
LEMMA FailedFinishKeeps ==
    ASSUME CursorInv, FinishFails
    PROVE  CursorInv'
<1>1. stmt' \in StmtRow BY CursorValues DEF CursorInv, FinishFails, ResetStmt, StmtRow
<1>2. /\ stmt'.pos = 0 /\ ~stmt'.records /\ stmt'.select = stmt.select /\ stmt'.bound = stmt.bound
      /\ query' = query /\ handed' = handed
  BY CursorValues DEF CursorInv, FinishFails, ResetStmt, StmtRow
<1> QED BY <1>1, <1>2 DEF CursorInv, CursorOK, Reading

\* A query that is finished is at rest, and so is its statement.
AtRest(q, s) ==
    /\ q \in QueryRow /\ s \in StmtRow
    /\ ~q.active /\ ~q.valid /\ ~q.select /\ ~q.atEnd /\ s.pos = 0
    /\ q.slots = query.slots /\ s.bound = stmt.bound /\ s.select = stmt.select

LEMMA FinishedRests ==
    ASSUME CursorInv
    PROVE  AtRest(Finished(query), FinishedStmt)
<1> DEFINE q == Finished(query)
           s == FinishedStmt
<1>1. CASE query.active
  <2>1. q = ResetExecution(query) /\ s = ResetStmt(stmt) BY <1>1 DEF Finished, FinishedStmt
  <2> HIDE DEF q, s
  <2>2. q \in QueryRow /\ q.slots = query.slots /\ ~q.active /\ ~q.valid /\ ~q.select /\ ~q.atEnd
    BY <2>1 DEF CursorInv, ResetExecution, QueryRow
  <2>3. s \in StmtRow /\ s.pos = 0 /\ s.bound = stmt.bound /\ s.select = stmt.select
    BY <2>1, CursorValues DEF CursorInv, ResetStmt, StmtRow
  <2> QED BY <2>2, <2>3 DEF AtRest, q, s
<1>2. CASE ~query.active
  BY <1>2 DEF Finished, FinishedStmt, AtRest, CursorInv, CursorOK
<1> QED BY <1>1, <1>2

\* Binding a value, or having it refused, on a query at rest.
LEMMA BoundKeeps ==
    ASSUME CursorInv, NEW i \in Positions, NEW v \in BindValues \cup {Unset}, NEW m \in Modes,
           NEW n \in SlotNumbers, handed' = handed,
           query' = [Finished(query) EXCEPT !.slots[i] = v, !.mode = m, !.next = n],
           \/ stmt' = [FinishedStmt EXCEPT !.bound[i] = v]
           \/ v = Unset /\ stmt' = FinishedStmt
    PROVE  CursorInv'
<1> DEFINE q == Finished(query)
           s == FinishedStmt
           w == [q.slots EXCEPT ![i] = v]
           b == [s.bound EXCEPT ![i] = v]
<1>1. AtRest(q, s) BY FinishedRests
<1> HIDE DEF q, s
<1>2. w \in Slots /\ b \in Slots /\ s.bound \in Slots /\ q.slots \in Slots
  BY <1>1 DEF AtRest, QueryRow, StmtRow, Slots
<1>3. query' = [q EXCEPT !.slots = w, !.mode = m, !.next = n]
  BY <1>1 DEF q, AtRest, QueryRow
<1>4. stmt' = [s EXCEPT !.bound = b] \/ (v = Unset /\ stmt' = s)
  BY <1>1 DEF s, AtRest, StmtRow
<1>5. /\ \A k \in Positions : w[k] = IF k = i THEN v ELSE q.slots[k]
      /\ \A k \in Positions : b[k] = IF k = i THEN v ELSE s.bound[k]
  BY <1>2 DEF Slots
<1> HIDE DEF w, b
<1>6. query' \in QueryRow /\ query'.slots = w /\ ~query'.active /\ ~query'.valid /\ ~query'.select
      /\ ~query'.atEnd
  BY <1>1, <1>2, <1>3 DEF AtRest, QueryRow
<1>7. stmt' \in StmtRow /\ stmt'.pos = 0 /\ (stmt'.bound = b \/ (v = Unset /\ stmt'.bound = s.bound))
  BY <1>1, <1>2, <1>4 DEF AtRest, StmtRow
<1>8. \A k \in Positions : query'.slots[k] # Unset => stmt'.bound[k] = query'.slots[k]
  <2>1. \A k \in Positions : q.slots[k] # Unset => s.bound[k] = q.slots[k]
    BY <1>1 DEF AtRest, CursorInv, CursorOK
  <2>2. query'.slots = w BY <1>6
  <2> QED BY <1>5, <1>7, <2>1, <2>2
<1> QED BY <1>6, <1>7, <1>8 DEF CursorInv, CursorOK, Reading

\* Query::bind_value and Query::add_bind_value.
LEMMA BindKeeps ==
    ASSUME CursorInv,
           \/ \E i \in Positions, v \in BindValues, mode \in {"Positional", "Named"} : BindParam(i, v, mode)
           \/ \E v \in BindValues : AddBind(v)
    PROVE  CursorInv'
<1> DEFINE q == Finished(query)
           s == FinishedStmt
<1>1. q \in QueryRow BY FinishedRests DEF AtRest
<1>2. q.next \in SlotNumbers /\ \A i \in Positions : i + 1 \in SlotNumbers
  BY <1>1 DEF QueryRow, SlotNumbers, Positions
<1>3. CASE FinishFails BY <1>3, FailedFinishKeeps
<1>4. CASE ~FinishFails
  <2>1. PICK i \in Positions, v \in BindValues, m \in {"Positional", "Named"} :
             /\ handed' = handed
             /\ \/ /\ \/ query' = [q EXCEPT !.slots[i] = v, !.mode = m]
                      \/ query' = [q EXCEPT !.slots[i] = v, !.mode = m, !.next = i + 1]
                   /\ stmt' = [s EXCEPT !.bound[i] = v]
                \/ /\ query' = [q EXCEPT !.slots[i] = Unset, !.mode = m]
                   /\ stmt' = s
    BY <1>4, Zenon DEF BindParam, AddBind, RefusedSlot
  <2>2. m \in Modes BY DEF Modes
  <2>3. \A u : [q EXCEPT !.slots[i] = u, !.mode = m] = [q EXCEPT !.slots[i] = u, !.mode = m, !.next = q.next]
    BY <1>1 DEF QueryRow
  <2> HIDE DEF q, s
  <2>4. CASE query' = [q EXCEPT !.slots[i] = v, !.mode = m] /\ stmt' = [s EXCEPT !.bound[i] = v]
    BY <1>2, <2>1, <2>2, <2>3, <2>4, BoundKeeps DEF q, s
  <2>5. CASE query' = [q EXCEPT !.slots[i] = v, !.mode = m, !.next = i + 1] /\ stmt' = [s EXCEPT !.bound[i] = v]
    BY <1>2, <2>1, <2>2, <2>5, BoundKeeps DEF q, s
  <2>6. CASE query' = [q EXCEPT !.slots[i] = Unset, !.mode = m] /\ stmt' = s
    <3>1. query' = [q EXCEPT !.slots[i] = Unset, !.mode = m, !.next = q.next] BY <2>3, <2>6
    <3>2. Unset \in BindValues \cup {Unset} /\ handed' = handed /\ stmt' = s BY <2>1, <2>6
    <3> QED BY <1>2, <2>2, <3>1, <3>2, BoundKeeps DEF q, s
  <2> QED BY <2>1, <2>4, <2>5, <2>6
<1> QED BY <1>3, <1>4

\* Query::exec on a query at rest.
LEMMA ExecKeeps ==
    ASSUME CursorInv, ExecQuery
    PROVE  CursorInv'
<1> DEFINE q == Finished(query)
           s == FinishedStmt
           ready == [s EXCEPT !.records = s.select]
<1>1. AtRest(q, s) BY FinishedRests
<1>2. \/ FinishFails
      \/ /\ query' = [q EXCEPT !.active = TRUE, !.select = s.select]
         /\ stmt' = IF s.select THEN ready ELSE [ready EXCEPT !.pos = StepOf(s)]
         /\ handed' = 0
      \/ /\ query' = ResetExecution(query)
         /\ stmt' = IF s.select THEN ready ELSE [ready EXCEPT !.pos = 0]
         /\ handed' = handed
  BY DEF ExecQuery, ExecFailed
<1> HIDE DEF q, s
<1>3. CASE FinishFails BY <1>3, FailedFinishKeeps
<1>4. CASE /\ query' = [q EXCEPT !.active = TRUE, !.select = s.select]
           /\ stmt' = IF s.select THEN ready ELSE [ready EXCEPT !.pos = StepOf(s)]
           /\ handed' = 0
  <2>1. /\ query' \in QueryRow /\ query'.active /\ query'.select = s.select
        /\ ~query'.valid /\ ~query'.atEnd /\ query'.slots = q.slots
    BY <1>1, <1>4 DEF AtRest, QueryRow, StmtRow
  <2>2. CASE s.select
    <3>1. stmt' \in StmtRow /\ stmt'.pos = 0 /\ stmt'.select = s.select /\ stmt'.bound = s.bound
      BY <1>1, <1>4, <2>2 DEF AtRest, StmtRow
    <3> QED BY <1>1, <1>4, <2>1, <3>1, ResultRowsAssumption DEF AtRest, CursorInv, CursorOK, Reading
  <2>3. CASE ~s.select
    <3>1. StepOf(s) = Halted BY <2>3 DEF StepOf
    <3>2. stmt' = [[s EXCEPT !.records = s.select] EXCEPT !.pos = Halted] BY <1>4, <2>3, <3>1
    <3>3. stmt' \in StmtRow /\ stmt'.select = s.select /\ stmt'.bound = s.bound
      BY <1>1, <3>2, CursorValues DEF AtRest, StmtRow
    <3> QED BY <1>1, <1>4, <2>1, <2>3, <3>3, ResultRowsAssumption DEF AtRest, CursorInv, CursorOK, Reading
  <2> QED BY <2>2, <2>3
<1>5. CASE /\ query' = ResetExecution(query)
           /\ stmt' = IF s.select THEN ready ELSE [ready EXCEPT !.pos = 0]
           /\ handed' = handed
  <2>1. query' \in QueryRow /\ query'.slots = query.slots /\ ~query'.active /\ ~query'.valid
        /\ ~query'.select /\ ~query'.atEnd
    BY <1>5 DEF CursorInv, ResetExecution, QueryRow
  <2>2. stmt' \in StmtRow /\ stmt'.pos = 0 /\ stmt'.bound = s.bound
    BY <1>1, <1>5, CursorValues DEF AtRest, StmtRow
  <2> QED BY <1>1, <1>5, <2>1, <2>2 DEF AtRest, CursorInv, CursorOK, Reading
<1> QED BY <1>2, <1>3, <1>4, <1>5

\* Query::next: the end is remembered, so the statement is not started again.
LEMMA NextRecordKeeps ==
    ASSUME CursorInv, NextRecord
    PROVE  CursorInv'
<1> DEFINE p == StepOf(stmt)
<1>1. /\ query \in QueryRow /\ stmt \in StmtRow /\ handed \in Nat /\ stmt.pos \in Nat
      /\ Reading(query, stmt) /\ stmt.select
      /\ handed <= stmt.pos /\ stmt.pos <= ResultRows
  BY DEF CursorInv, CursorOK, NextRecord, MayStep, Reading, StmtRow, RowPositions
<1>2. p = stmt.pos + 1 /\ p \in RowPositions
  BY <1>1, ResultRowsAssumption DEF StepOf, Halted, RowPositions
<1>3. stmt' = [stmt EXCEPT !.pos = p] BY DEF NextRecord
<1>4. \/ /\ p # Halted /\ handed' = handed + 1
         /\ query' = [query EXCEPT !.valid = TRUE, !.atEnd = FALSE]
      \/ handed' = handed /\ query' = [query EXCEPT !.valid = FALSE, !.atEnd = TRUE]
      \/ p # Halted /\ handed' = handed /\ query' = [query EXCEPT !.valid = FALSE]
  BY <1>1 DEF NextRecord, StmtRow
<1> HIDE DEF p
<1>5. stmt' \in StmtRow /\ stmt'.pos = p /\ stmt'.select = stmt.select /\ stmt'.bound = stmt.bound
  BY <1>1, <1>2, <1>3 DEF StmtRow
<1>6. /\ query' \in QueryRow /\ query'.slots = query.slots /\ query'.active /\ query'.select
      /\ \/ p # Halted /\ handed' = handed + 1 /\ ~query'.atEnd
         \/ handed' = handed /\ ~query'.valid /\ query'.atEnd
         \/ p # Halted /\ handed' = handed /\ ~query'.valid /\ ~query'.atEnd
  BY <1>1, <1>4 DEF QueryRow, Reading
<1>7. p # Halted => p <= ResultRows BY <1>1, <1>2, ResultRowsAssumption DEF Halted
<1>8. handed' \in Nat /\ handed' <= ResultRows
      /\ (~query'.atEnd => handed' <= p /\ p <= ResultRows)
  BY <1>1, <1>2, <1>6, <1>7, ResultRowsAssumption
<1> QED BY <1>1, <1>5, <1>6, <1>8 DEF CursorInv, CursorOK, Reading

\* The cursor's invariant is inductive.
THEOREM CursorInvariance == QuerySpec => []CursorInv
<1>1. QueryInit => CursorInv
  <2> SUFFICES ASSUME QueryInit PROVE CursorInv OBVIOUS
  <2>1. query \in QueryRow /\ stmt \in StmtRow
    BY CursorValues DEF QueryInit, QueryRow, StmtRow, ClearedQuery, NoStatement
  <2>2. \A i \in Positions : NoSlots[i] = Unset BY DEF NoSlots
  <2> QED BY <2>1, <2>2, ResultRowsAssumption
          DEF QueryInit, CursorInv, CursorOK, Reading, ClearedQuery, NoStatement
<1>2. CursorInv /\ [QueryNext]_queryVars => CursorInv'
  <2> SUFFICES ASSUME CursorInv, [QueryNext]_queryVars PROVE CursorInv' OBVIOUS
  <2>1. CASE UNCHANGED queryVars BY <2>1 DEF queryVars, CursorInv, CursorOK, Reading
  <2>2. CASE PoisonUnderQuery BY <2>2 DEF PoisonUnderQuery, CursorInv, CursorOK, Reading
  <2>3. ASSUME query' = ClearedQuery, stmt' = NoStatement, handed' = handed PROVE CursorInv'
    BY <2>3, ClearedKeeps
  <2>4. CASE ClearQuery BY <2>3, <2>4 DEF ClearQuery
  <2>5. ASSUME NEW select \in BOOLEAN, PrepareQuery(select) PROVE CursorInv'
    <3>1. CASE FinishFails BY <3>1, FailedFinishKeeps
    <3>2. CASE /\ query' = [ClearedQuery EXCEPT !.prepared = TRUE] /\ handed' = handed
               /\ stmt' = [NoStatement EXCEPT !.exists = TRUE, !.select = select]
      BY <3>2, ClearedKeeps
    <3> QED BY <2>3, <2>5, <3>1, <3>2 DEF PrepareQuery
  <2>6. CASE FinishQuery
    <3>1. CASE FinishFails BY <3>1, FailedFinishKeeps
    <3>2. CASE query' = Finished(query) /\ stmt' = FinishedStmt /\ handed' = handed
      BY <3>2, FinishedRests DEF AtRest, CursorInv, CursorOK, Reading
    <3> QED BY <2>6, <3>1, <3>2 DEF FinishQuery
  <2> QED BY <2>1, <2>2, <2>4, <2>5, <2>6, BindKeeps, ExecKeeps, NextRecordKeeps DEF QueryNext
<1> QED BY <1>1, <1>2, PTL DEF QuerySpec

\* A query shows what SQLite has: its bindings, its position and its rows, each
\* row once, through failed resets, rebinding and re-execution.
THEOREM FaithfulCursor == QuerySpec => []CursorIsFaithful
<1>1. CursorInv => CursorIsFaithful
  BY DEF CursorInv, CursorOK, CursorIsFaithful, RowsOnce, StatementAgrees
<1> QED BY <1>1, CursorInvariance, PTL

=============================================================================
