------------------------------ MODULE TableSync ------------------------------
(***************************************************************************)
(* One table of the database and the objects that represent its rows in    *)
(* memory (the registry of the official Env).  Threads modify rows, alone  *)
(* or in a DBTransaction; each modification is an event that is dispatched *)
(* once the database has changed, under _tableSynchronizersMutex, and that *)
(* loads or removes the object of the row.  The objects of a conditional   *)
(* table are those IsLoaded accepts at the time; the "conditional tables   *)
(* load maintainer" thread goes through them again and again.              *)
(***************************************************************************)
EXTENDS Naturals, Sequences, FiniteSets

CONSTANTS Rows, Vals, NoVal,
          Threads, NoThread,
          RawDeletes,     \* transactions may hold a "DELETE FROM" of the whole table
          Conditional,    \* ConditionalSynchronizationPolicy, else FullSynchronizationPolicy
          Buffered,       \* MySQL: a result is read at once; else SQLite, row after row
          MaxStatements,  \* bound: statements issued
          MaxTicks,       \* bound: times IsLoaded changes its mind
          MaxFailures     \* bound: transactions the database refuses

ASSUME NoValAssumption == NoVal \notin Vals
ASSUME NoThreadAssumption == NoThread \notin Threads
ASSUME SettingsAssumption == {RawDeletes, Conditional, Buffered} \subseteq BOOLEAN
ASSUME BoundsAssumption == {MaxStatements, MaxTicks, MaxFailures} \subseteq Nat

VARIABLES
    db,         \* content of each row in the database
    objects,    \* content of each object of the registry
    loadable,   \* contents that IsLoaded accepts and Load reads without an exception
    tx,         \* DBTransaction of each thread: _queries, _modifEvents, _modifiedRows
    pending,    \* events a thread has still to dispatch
    tableLock,  \* holder of _tableSynchronizersMutex
    row,        \* result of getRow in the hands of a thread
    rpc, doomed, found, \* maintainer: step, objectsToRemove, rows read
    contended,  \* history variable, see below
    used        \* how much of each bound has been used

maintainer == <<rpc, doomed, found>>
vars == <<db, objects, loadable, tx, pending, tableLock, row, maintainer, contended, used>>

Content == Vals \cup {NoVal}
Statement == [rows : SUBSET Rows, val : Content]
Event == [kind : {"insert", "delete"}, row : Rows]

NewTransaction == [queries |-> <<>>, events |-> <<>>, modified |-> {}]

EventsIn(s) == {s[i] : i \in DOMAIN s}

\* Content of row r once the queries have been run over content `old`.
Result(queries, r, old) ==
    LET on == {i \in DOMAIN queries : r \in queries[i].rows}
    IN  IF on = {} THEN old
        ELSE queries[CHOOSE i \in on : \A j \in on : j <= i].val

\* What RowsAdded makes of the object of a row it reads with content v.
Image(v) == IF v \in loadable THEN v ELSE NoVal
Loaded(object, v) == IF v = NoVal THEN object ELSE Image(v)

Pending(r) == \E t \in Threads : \E e \in EventsIn(pending[t]) : e.row = r

\* `contended` is a history variable: the rows a modification of which does not reach the
\* registry by construction.  Either the row is written while the event of an earlier
\* deletion has still to be dispatched, or it is removed without a deletion event.
Contended(new, events) ==
    {r \in Rows :
        \/ new[r] # NoVal /\ \E e \in EventsIn(events) : e = [kind |-> "delete", row |-> r]
        \/ /\ new[r] # NoVal /\ new[r] # db[r]
           /\ \E t \in Threads : [kind |-> "delete", row |-> r] \in EventsIn(pending[t])
        \/ new[r] = NoVal /\ db[r] # NoVal /\ [kind |-> "delete", row |-> r] \notin EventsIn(events)}

-----------------------------------------------------------------------------
Init ==
    /\ db \in [Rows -> Content]
    /\ loadable \in SUBSET Vals
    /\ objects = [r \in Rows |-> Image(db[r])]
    /\ tx = [t \in Threads |-> NewTransaction]
    /\ pending = [t \in Threads |-> <<>>]
    /\ tableLock = NoThread
    /\ row = [t \in Threads |-> NoVal]
    /\ rpc = "idle" /\ doomed = {} /\ found = [r \in Rows |-> NoVal]
    /\ contended = {}
    /\ used = [statements |-> 0, ticks |-> 0, failures |-> 0]

Spend(what, bound) ==
    /\ used[what] < bound
    /\ used' = [used EXCEPT ![what] = @ + 1]

\* Thread t is not inside DBTransaction::run nor a statement.
Running(t) == pending[t] = <<>>

\* Mutant: readers do not block writers, as with write-ahead logging.
Writable_Always == TRUE

\* A thread of SQLite that steps through a result holds the shared lock of the file: the
\* busy handler of the writers retries until it is released.
Writable == Buffered \/ (tableLock = NoThread /\ rpc # "loading")

\* The transactions of MySQL share one connection and are not atomic: they are not modelled.
Transactions == ~Buffered

-----------------------------------------------------------------------------
(* Modifications. *)

\* Mutant: only one event per table.
AddEvent_OnePerTable(t, e) ==
    IF tx[t].modified # {} THEN tx[t].events ELSE Append(tx[t].events, e)

\* DBTransaction::addDBModifEvent: the first event on a row is the only one.
AddEvent(t, e) ==
    IF e.row \in tx[t].modified THEN tx[t].events ELSE Append(tx[t].events, e)

KindOf(v) == IF v = NoVal THEN "delete" ELSE "insert"

\* replaceStmt / deleteStmt (v = NoVal) on a transaction.
AddStatement(t, r, v) ==
    /\ Transactions
    /\ Running(t)
    /\ Spend("statements", MaxStatements)
    /\ tx' = [tx EXCEPT ![t] =
                [queries  |-> Append(@.queries, [rows |-> {r}, val |-> v]),
                 events   |-> AddEvent(t, [kind |-> KindOf(v), row |-> r]),
                 modified |-> @.modified \cup {r}]]
    /\ UNCHANGED <<db, objects, loadable, pending, tableLock, row, maintainer, contended>>

\* addQuery of the "DELETE FROM" that opens a dump: a slave runs it without an event.
AddRawDelete(t) ==
    /\ RawDeletes /\ Transactions
    /\ Running(t)
    /\ Spend("statements", MaxStatements)
    /\ tx' = [tx EXCEPT ![t].queries = Append(@, [rows |-> Rows, val |-> NoVal])]
    /\ UNCHANGED <<db, objects, loadable, pending, tableLock, row, maintainer, contended>>

\* DBTransaction::run: BEGIN, the queries, COMMIT.  The queries and the set of modified
\* rows are cleared, not the list of events.
Commit(t) ==
    LET new == [r \in Rows |-> Result(tx[t].queries, r, db[r])] IN
    /\ Running(t) /\ Writable
    /\ tx[t].queries # <<>>
    /\ db' = new
    /\ pending' = [pending EXCEPT ![t] = tx[t].events]
    /\ tx' = [tx EXCEPT ![t] = [NewTransaction EXCEPT !.events = tx[t].events]]
    /\ contended' = contended \cup Contended(new, tx[t].events)
    /\ UNCHANGED <<objects, loadable, tableLock, row, maintainer, used>>

\* A query or COMMIT fails: ROLLBACK, and an exception takes the transaction away.
Refused(t) ==
    /\ Running(t)
    /\ tx[t].queries # <<>>
    /\ Spend("failures", MaxFailures)
    /\ tx' = [tx EXCEPT ![t] = NewTransaction]
    /\ UNCHANGED <<db, objects, loadable, pending, tableLock, row, maintainer, contended>>

\* The DBTransaction goes out of scope.
Drop(t) ==
    /\ Running(t)
    /\ tx[t] # NewTransaction
    /\ tx' = [tx EXCEPT ![t] = NewTransaction]
    /\ UNCHANGED <<db, objects, loadable, pending, tableLock, row, maintainer, contended, used>>

\* replaceStmt / deleteStmt without a transaction.
Save(t, r, v) ==
    LET new == [db EXCEPT ![r] = v]
        events == <<[kind |-> KindOf(v), row |-> r]>>
    IN
    /\ Running(t) /\ Writable
    /\ Spend("statements", MaxStatements)
    /\ db' = new
    /\ pending' = [pending EXCEPT ![t] = events]
    /\ contended' = contended \cup Contended(new, events)
    /\ UNCHANGED <<objects, loadable, tx, tableLock, row, maintainer>>

-----------------------------------------------------------------------------
(* Dispatching (DB::_dispatchDBModifEvent).                                *)

Event1(t) == Head(pending[t])

\* The first event of t is of this kind, and the mutex is free.
Dispatches(t, kind) ==
    /\ pending[t] # <<>>
    /\ Event1(t).kind = kind
    /\ tableLock = NoThread

Done(t) == pending' = [pending EXCEPT ![t] = Tail(@)]

\* Mutant: getRow is called before the mutex is taken.
ReadRow_Unlocked(t) ==
    /\ pending[t] # <<>> /\ Event1(t).kind = "insert" /\ tableLock # t
    /\ \/ /\ row[t] = NoVal
          /\ row' = [row EXCEPT ![t] = db[Event1(t).row]]
          /\ UNCHANGED tableLock
       \/ /\ row[t] # NoVal /\ tableLock = NoThread
          /\ tableLock' = t
          /\ UNCHANGED row
    /\ UNCHANGED <<db, objects, loadable, tx, pending, maintainer, contended, used>>

\* Takes the mutex and runs getRow: the row as it is now, whatever the event is about.
ReadRow(t) ==
    /\ Dispatches(t, "insert")
    /\ tableLock' = t
    /\ row' = [row EXCEPT ![t] = db[Event1(t).row]]
    /\ UNCHANGED <<db, objects, loadable, tx, pending, maintainer, contended, used>>

\* RowsAdded, then the mutex is released.
LoadRow(t) ==
    LET r == Event1(t).row IN
    /\ tableLock = t
    /\ objects' = [objects EXCEPT ![r] = Loaded(@, row[t])]
    /\ tableLock' = NoThread
    /\ row' = [row EXCEPT ![t] = NoVal]
    /\ Done(t)
    /\ UNCHANGED <<db, loadable, tx, maintainer, contended, used>>

\* RowsRemoved, under the mutex.
RemoveRow(t) ==
    LET r == Event1(t).row IN
    /\ Dispatches(t, "delete")
    /\ objects' = [objects EXCEPT ![r] = NoVal]
    /\ Done(t)
    /\ UNCHANGED <<db, loadable, tx, tableLock, row, maintainer, contended, used>>

-----------------------------------------------------------------------------
(* The maintainer of the conditional tables (UpdateConditionalTableSyncEnv).   *)
(* It takes no mutex: rowsRemoved and rowsAdded are called directly.           *)

Outdated == {r \in Rows : objects[r] # NoVal /\ objects[r] \notin loadable}

\* objectsToRemove
Collect ==
    /\ Conditional /\ rpc = "idle"
    /\ rpc' = "removing"
    /\ doomed' = Outdated
    /\ UNCHANGED <<db, objects, loadable, tx, pending, tableLock, row, found, contended, used>>

\* Mutant: the outdated objects stay.
RemoveDoomed_Keep ==
    /\ rpc = "removing"
    /\ rpc' = "querying"
    /\ doomed' = {}
    /\ UNCHANGED <<db, objects, loadable, tx, pending, tableLock, row, found, contended, used>>

RemoveDoomed ==
    /\ rpc = "removing"
    /\ rpc' = "querying"
    /\ objects' = [r \in Rows |-> IF r \in doomed THEN NoVal ELSE objects[r]]
    /\ doomed' = {}
    /\ UNCHANGED <<db, loadable, tx, pending, tableLock, row, found, contended, used>>

\* LoadCurrentData: SELECT ... WHERE GetWhereLoaded()
Query ==
    /\ rpc = "querying"
    /\ rpc' = "loading"
    /\ found' = [r \in Rows |-> Image(db[r])]
    /\ UNCHANGED <<db, objects, loadable, tx, pending, tableLock, row, doomed, contended, used>>

\* Mutant: only the objects that exist are refreshed, as the full policy does on updates.
LoadFound_OnlyKnown ==
    /\ rpc = "loading"
    /\ \E r \in Rows :
        /\ found[r] # NoVal
        /\ objects' = [objects EXCEPT ![r] = IF @ = NoVal THEN @ ELSE Image(found[r])]
        /\ found' = [found EXCEPT ![r] = NoVal]
    /\ UNCHANGED <<db, loadable, tx, pending, tableLock, row, rpc, doomed, contended, used>>

\* RowsAdded, row after row.
LoadFound ==
    /\ rpc = "loading"
    /\ \E r \in Rows :
        /\ found[r] # NoVal
        /\ objects' = [objects EXCEPT ![r] = Loaded(@, found[r])]
        /\ found' = [found EXCEPT ![r] = NoVal]
    /\ UNCHANGED <<db, loadable, tx, pending, tableLock, row, rpc, doomed, contended, used>>

\* The thread sleeps a minute.
Sleep ==
    /\ rpc = "loading" /\ \A r \in Rows : found[r] = NoVal
    /\ rpc' = "idle"
    /\ UNCHANGED <<db, objects, loadable, tx, pending, tableLock, row, doomed, found,
                   contended, used>>

\* Time passes: rows become current, or too old.
Tick ==
    /\ Conditional
    /\ Spend("ticks", MaxTicks)
    /\ loadable' \in SUBSET Vals
    /\ UNCHANGED <<db, objects, tx, pending, tableLock, row, maintainer, contended>>

-----------------------------------------------------------------------------

Modify(t) ==
    \/ \E r \in Rows, v \in Content : AddStatement(t, r, v) \/ Save(t, r, v)
    \/ AddRawDelete(t) \/ Commit(t) \/ Refused(t) \/ Drop(t)

Dispatch(t) == ReadRow(t) \/ LoadRow(t) \/ RemoveRow(t)

Maintain == Collect \/ RemoveDoomed \/ Query \/ LoadFound \/ Sleep

Next == (\E t \in Threads : Modify(t) \/ Dispatch(t)) \/ Maintain \/ Tick

Spec == Init /\ [][Next]_vars

\* A thread that has committed goes on to dispatch; the maintainer runs every minute.
Fairness == WF_vars(Maintain) /\ \A t \in Threads : SF_vars(Dispatch(t))

FairSpec == Spec /\ Fairness
-----------------------------------------------------------------------------
(* Properties. *)

\* Type of every variable; a row is in the hands of a thread only under the mutex.
TypeOK ==
    /\ db \in [Rows -> Content]
    /\ objects \in [Rows -> Content]
    /\ loadable \in SUBSET Vals
    /\ tx \in [Threads -> [queries : Seq(Statement), events : Seq(Event), modified : SUBSET Rows]]
    /\ pending \in [Threads -> Seq(Event)]
    /\ tableLock \in Threads \cup {NoThread}
    /\ row \in [Threads -> Content]
    /\ \A t \in Threads : row[t] # NoVal => tableLock = t
    /\ rpc \in {"idle", "removing", "querying", "loading"}
    /\ doomed \subseteq Rows
    /\ found \in [Rows -> Content]
    /\ contended \subseteq Rows
    /\ used \in [statements : Nat, ticks : Nat, failures : Nat]

\* What _finishTransaction and _dispatchDBModifEvent are for: once the events on a row have
\* been dispatched, its object is the row, in whatever order threads commit and dispatch.
EnvMirrorsDb ==
    ~Conditional =>
        \A r \in Rows \ contended : ~Pending(r) => objects[r] = Image(db[r])

\* FullSynchronizationPolicy::RowsRemoved "deletes the corresponding object in ram": once
\* the events on a row have been dispatched, a row that is gone has no object.
DeletedRowsLeaveMemory ==
    \A r \in Rows : db[r] = NoVal /\ ~Pending(r) => objects[r] = NoVal

\* The maintainer thread repairs what dispatching and its own unlocked reloads got wrong
\* on rows that are in the table: in the end their objects are current.
MaintainerRepairs ==
    \A r \in Rows : <>[](db[r] \in loadable => objects[r] = db[r])

\* Objects that IsLoaded refuses leave the memory, whatever is dispatched meanwhile.
OutdatedObjectsLeave ==
    \A r \in Rows : <>[](r \notin Outdated)

\* ConditionalSynchronizationPolicy::RowsRemoved "deletes the corresponding object in ram":
\* a row that stays deleted ends up without object,
\* in spite of the reloads.
DeletedObjectsLeave ==
    \A r \in Rows : <>[](db[r] = NoVal /\ r \notin contended => objects[r] = NoVal)

\* A table of the full policy is a mirror: threads that commit, read and load in any order
\* never give an object a content its row no longer has, and once its events have been
\* dispatched leave nothing to repair (but on contended rows).
M == INSTANCE Mirror WITH
        Keys <- Rows, Nothing <- NoVal,
        truth <- [r \in Rows |-> Image(db[r])],
        image <- objects,
        dirty <- {r \in Rows : Pending(r)} \cup contended

ImplementsMirror == M!Spec
=============================================================================
