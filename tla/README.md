# Verification of SYNTHESE: replication, synchronization, timetables, sessions

SYNTHESE is a C++ server for public transport: journey planning, real time
data, reservations, a CMS and its administration, all of it objects kept in
memory over a SQL database. This directory holds TLA+ models of the parts where
threads and servers meet, the TLC configurations that check them, and theorems
TLAPS proves about them. Paths below are relative to `src/src/`.

## 1. The system

| Component | State | Operations | What is hard |
|---|---|---|---|
| Inter-SYNTHESE master (`19_inter_synthese`) | per slave: `_queue` (mirrors table t094), `LastActivityReport`, `_lastSentRange`; `bgNextSlave` | queue an item, serve a poll, confirm an acknowledgement, full update by a background thread | four kinds of threads, ids given before commit, abandoned requests, partial failures, restart |
| Inter-SYNTHESE slave (`InterSYNTHESEFileFormat`) | the attempt under way, its own database | poll, acknowledge, apply | acknowledges before it applies |
| Database (`10_db`) | rows, `DBTransaction` of each thread, registries | statements, transactions, event dispatching, reload of conditional tables | order of commits against order of dispatching, events dropped or repeated, unlocked reloads |
| SQLite and MySQL backends (`10_db/101_sqlite`, `102_mysql`) | connection(s) | transactions, results | a busy handler that retries for ever; one connection for all threads |
| HTTP server (`15_server`) | threads, sessions, `baseWriterMutex` | requests, sessions, killing threads | sessions shared by threads, removed by key, refreshed outside the lock |
| Imports (`16_impex`, `61_data_exchange`) | next automatic import | the automatic import thread | schedule recomputed by readers |
| Objects (`00_framework`, `01_util/Registry`) | registries | link, unlink | links to removed objects |
| Paths and stops (`18_graph/Path`, `35_pt/LineStop*`) | edges of a path, their pointers, `_rankMap`; rows of the stops | insert, remove, update a stop; synchronize | pointers mended edge after edge, ranks shifted by events that come one by one and overlap |
| Services and searches (`18_graph/Edge`, `35_pt/JourneyPattern`, `*Service`) | sorted services, index by hour, calendar of the path, real time schedules | add and remove services, set delays, search the next or previous service | lazy caches filled while others read, iterators kept across calls, the night |
| Rest of public transport (`31`-`39`, `53`-`60`) | networks, fares, boards | planning, display | sequential algorithms over large data |
| Reservations, messages, CMS, security, administration | rows and their objects | actions, pages | mostly sequential |

Components talk through function calls in one process, through the registries
of the official `Env` (changed by database events), and, between servers, by
HTTP requests of the slave to the master. `PROJECT.json` lists every source
module, modelled or not, and the hazards at the lines where they bite.

What makes each part correct: a slave that is served ends up with the content
of the master; no modification is lost but by the causes the design accepts;
the memory of a server shows its database once events are dispatched; threads
do not deadlock; the pointers of a path lead where its edges do; a search finds
every service that passes, once; a session ends when it should and not before;
a reservation is seen by one owner at a time (not modelled yet).

## 2. Modules

| Module | What it models |
|---|---|
| `SyncItems` | the items of a queue, ranges of a queue, the dump of a table, what running items does to a database |
| `InterSYNTHESE` | the replication protocol: writers, HTTP handlers, background updater, importers, faults, restart of the master |
| `MCInterSYNTHESE` | instances for TLC |
| `TableSync` | one table and its registry: statements, transactions, dispatching, maintainer thread of conditional tables |
| `QueueLocks` | the mutexes of the replication code and the orders in which its operations nest them |
| `Mirror` | what `TableSync` promises, without threads, events nor locks: an image that is only brought forward |
| `PathLinks` | pure operators: adding an edge to a path and removing one, with every pointer and `_rankMap` |
| `LineStops` | the rows of the stops of a line, the actions that change them, their events, and the path of `PathLinks` in memory |
| `Timetable` | the services of a path, the index and the calendar built on demand, real time delays, the search loop of a planner over one edge |
| `Sessions` | the map of the sessions and the requests that find, make, refresh and remove them |
| `MCLineStops`, `MCTimetable`, `MCSessions` | instances for TLC |
| `InterSYNTHESE_proofs`, `QueueLocks_proofs`, `TableSync_proofs`, `PathLinks_proofs`, `LineStops_proofs`, `Timetable_proofs`, `Sessions_proofs`, `NatLemmas` | lemmas and theorems |

### InterSYNTHESE

The variables are the members of `InterSYNTHESESlave` (`queue`, `activity`,
`lastSent`), the row content of master and slaves (`db`, `sdb`), and the
program counter of each thread. An action is a stretch of code during which no
other thread can tell the difference: it holds `_queueMutex`, or is the COMMIT of
one transaction, or the dispatching of one event, or one access to unprotected
state. What a transaction wrote to the queue table (`Stored`) and what is linked
to the queues in memory (`queue`) therefore differ for a while.

| Actions | Code |
|---|---|
| `Prepare`, `Commit`, `Rollback` | `replaceStmt`/`deleteStmt` on a `DBTransaction`, then `run` up to the COMMIT |
| `Dispatch` | `_finishTransaction` after it, the item of one slave at a time |
| `DirectSave`, `DirectEnqueue` | the same without transaction: saved first, its items next, then dispatched |
| `PollCheck`, `PollHandoff`, `PollServe` | `InterSYNTHESESlaveUpdateService::run`, cut where no lock protects it |
| `AckConfirm`, `AckRefuse` | `InterSYNTHESEUpdateAckService`, the mutex held from the parameters to the end |
| `BgTake`, `BgReset`, `BgMark` | `RunBackgroundUpdater` |
| `BgTest`, `BgCollect`, `BgDelete`, `BgErase` | `processFullUpdate`: the test, the items listed under the mutex, their deletion committed, then dispatched one by one |
| `BgLock`, `BgUnlock` | its `try_lock` of `baseWriterMutex`, and the end |
| `BgRead`, `BgNumber`, `BgSave`, `BgDispatch` | `initQueue`: the rows of one table are read, the statements take their ids one by one, the items are committed, then dispatched one by one |
| `StartPoll` ... `ApplyBatch` | `Importer_::_read` of a slave |
| `LinkBreak`, `ResetSlave`, `OtherImport...` | the clock, the administrator, the BDSI import |
| `ImportFails`, `LoseRequest`, `EnqueueFails`, `HandlerFails`, `DumpFails`, `MasterRestart` | exceptions, lost connections, a database that refuses, crashes |

`boost::mutex::scoped_lock(bgMutex);` declares a variable and locks nothing, so
reading and writing `bgNextSlave` are separate actions.

Abstractions, and why they are sound for the properties:

- An item is `[id, rows, val]`. The ids of one modification are the same for all
  slaves; ids are only compared inside one queue.
- Time is `never`, `recent` (within `LinkBreakMinutes`) or `old`.
- A transaction takes the ids of its items for all slaves in one step; so does a
  modification without transaction, whose items are also stored in one step
  (`EnqueueFails` stops it half way): the queues of two slaves share only `nextId`.
- The rows of one table are read in one step: a single SELECT, during which
  SQLite keeps writers waiting.
- Only the events of the queue table are dispatched here; those of the row itself
  are the subject of `TableSync`.
- Waiting for a mutex is not modelled: `QueueLocks` says when it ends.
- A `_lastSentRange` whose nodes were erased compares as different from any
  range found in the queue; the next range sent replaces it.
- A transaction holds one modification. The perimeter holds all modelled tables.
- The activity report is set in memory before it is saved, so a refused save
  leaves it set.
- An exception of `markAsUpToDate` in the background thread ends the process:
  `MasterRestart`.
- `sync` of a `REPLACE INTO` text and `MODIF_UPDATE` events are left out: no code
  produces them any more.

`followed` is a history variable, read by no action: the rows of which, since
their last dump, no modification was kept from a slave by one of the causes
the design has (a modification decided while the slave was obsolete, an
acknowledgement that removes what it did not hand over, a modification
overtaken by a greater id, be it queued or on its way (`Overtaken`), or sent
before an older one that had not been dispatched (`LeftBehind`), a batch lost by a
failure, an unfinished save). A dump makes the slave follow the rows it has read,
but for those modified between the reading and the saving of its items
(`bgKept`): the two writers that dispatch in the order opposite to their commits,
and the modification between the reading of a table and the ids of its dump, both
end with an older content on the slave, and both are named by these causes.
Convergence is claimed of the rows that are left; `OnlyObsoleteSlavesMissWrites` limits how a
row leaves the set: without incident, by a modification decided while the slave
was obsolete, that is when it was formatted for a transaction, or when it was
queued without one (`QueuedFor`); its hypothesis, one writer and no incident,
leaves out the races of two writers, which only `FollowedRowsConverge` bounds.

### TableSync

One table and its objects. `Conditional` chooses the policy, `Buffered` the
backend: SQLite steps through a result row after row and keeps writers in their
busy handler (`Writable`); MySQL reads a result at once, and its transactions,
which are not atomic, are not modelled (`Transactions`). `Loaded` is what
`RowsAdded` makes of a row: an object, or none when `IsLoaded` refuses it or
`Load` throws. `contended` is a history variable: rows written while an earlier
deletion event is still to be dispatched, and rows removed without a deletion
event (a raw `DELETE FROM`, or an event dropped because the row had one).

`Mirror` is the abstract specification of the full policy: `truth` is what the
objects should be, `image` what they are, `dirty` the keys that may differ.
`TableSync` implements it (`ImplementsMirror`) with `truth` the loaded rows,
`image` the objects, and `dirty` the rows with a pending event or in
`contended`. `Mirror!Refresh` lets the object of one dirty key become what the
table says now, or go; it never lets it take an older content, which is what a
reader that loads a row after letting a writer in would do.

### PathLinks and LineStops

`PathLinks` translates `Path::addEdge`, `_linkEdge` and `removeEdge`. A path is a
record: its edges, the rank and attributes of each, `previous`, `next`, the four
chains (`followingArrival`, `followingConnectionArrival` and the two backwards),
and `_rankMap`. `Linked` and `Unlinked` overwrite a chain as the code does: from
one edge on, against the direction of the chain, as long as the edges hold the
same pointer (`Walk`). They are pure operators, so that their theorems can be
stated for one edge and one path, and used for every history.

`LineStops` puts rows and events around them. `StartInsertion`, `StartRemoval`
and `StartUpdate` are `LineStopAddAction`, `DBTableSyncTemplate::Remove` with
`AfterDelete`, and `LineStopUpdateAction`, up to what they read;
`SelectShifted` is the SELECT of `UpdateQuery::execute`, which runs at once while
the UPDATE waits in the transaction; `Commit` runs the statements;
`DispatchInsert`, `DispatchUpdate` and `DispatchDelete` are the three methods of
`FullSynchronizationPolicy`, whose order over the rows of one UPDATE is left
open. `Reload` unlinks, loads and links; a rank that is taken makes `addEdge`
throw, and the object is dropped. `Destroyed` removes the stop a second time, as
the destructor does, and that empties a path of one other stop.

`astray` is a history variable: the stops of which nothing is promised, because
their row changed without an event, their object was dropped for a taken rank,
or another stop's removal emptied the path. `PathMirrorsRows` is about the
others; `SerialInsertionsLoseNothing` says when there are none. Left out: areas
and copies of journey patterns (edges with sub-edges), refused transactions and
the separation of reading and loading a row (`TableSync` has both), load errors
other than a taken rank, offsets that change.

### Timetable

One edge of a path, at a fixed place between its first and its last stop. A
service has departure, running time to the edge and to the end, a calendar, and
a real time shift. A search is the loop of `IntegralSearcher`: `Call` to `Scan`
are `getNextService` or `getPreviousService`, cut where another thread can
interfere: the flag of the index is read (`Call`), the index is emptied and the
flag cleared (`Rebuild`), filled service by service (`Fill`), an entry is read
without its lock and compared with the iterator kept (`Read`), the calendar is
found or computed (`Date`, `Store`), and the services of a date are tried
(`Scan`). `Step` is the increment of the iterator by the planner, when the lock of
the services has been released. An iterator is kept as what it holds (`kept`; a
reverse iterator holds the service behind the one it is on), so that it follows
the list as it changes. When its service is removed it holds `Dangling`, and a
search that compares, dereferences or increments such an iterator, one on the
end of the list, or the entry of an index that is no service any more, is
`undefined`: nothing is said of what it does, and `SearchesStayDefined` says when
that cannot happen. Days have `DayHours` hours; the
service day ends at the hour `Morning`, whose odd treatment (`< 3`, `> 3`) is
kept as it is.

A change that takes two steps is two actions: `AddService` releases the lock of the
services, and `SetActive` marks its date, before `ClearCalendar` clears the calendar
of the path; `SetRealTime` writes the schedules before `MarkIndex` marks the index. A
whole search may come in between.

`disturbed`, `unmarked` and `outrun` are history variables: a step of a change of
services, calendars or delays during a search; delays changed since the index
was built (two of the three methods do not mark it at all); a calendar that was
computed before the last change of the services and not cleared yet, or stored
after it was cleared. A search that meets an index `unmarked` or a calendar
`outrun` is `disturbed` from then on: between a change and the clearing of the
calendar the new service is missed, and no property denies it.
`cache` holds the calendar of the path once it is computed (a set of at most one).
`SearchFindsAll` speaks of searches that were not disturbed, over data that keep
the conventions of the code (`Conventional`: first departures before midnight,
nothing between 3:00 and 3:59, no arrival after midnight backwards, real time
on its own day and in order, and no delay that carries a service past midnight
whose planned run ends before). The last one was found while proving: the calendar
of the path is computed from planned schedules (`InactiveMeansNoService`). Left out: continuous services, access and
reservation rules, cancelled stops, the end of the years of a calendar, a clock
that moves during a search.

### Sessions

A session is its number in `sessions`; a thread that holds a shared pointer holds
the number, whatever the map says. Each step holds one lock: `Lookup`
(`_sessionMapMutex`), `ReadClock`, which comes before the lock of the session is
waited for, `Check` under that lock, `Drop` or `Refresh`,
`Connect` (the identifier "login:password"), `ConnectDefault` (the default user),
`SetUser`, then the action: `Login`, `Replace`, `Logout`, and `Answer`. A client may
have any key of a session that was made (`KnownKeys`): it is answered as a cookie,
and `SessionsListService` gives all keys of the map to anybody, those of sessions
whose user is still to be set among them. Random keys are not drawn twice nor
guessed. A request may thus find a session without user, and does in the run:
`UsersAreOnTheirWay` says that such a session always has a thread that is about to
give it one. `came` (when a request came), `before`, `ended` and `touched` are
history variables. Session variables, rights and the list of requests of a
session are left out; the client forgets no key.

### QueueLocks

A thread runs an operation, reduced to the sequence of mutexes it takes and
releases: `_tableSynchronizersMutex` around each event, `_queueMutex` and
`_slaveChangeMutex` of each slave; all are recursive. SQLite's own locks are
not part of it.

## 3. Runs

All runs set `CHECK_DEADLOCK FALSE`: writers are not obliged to write and the
bounds on incidents run out, so a state without successor is legitimate.

| Run | Module | Question |
|---|---|---|
| `Safety` | MCInterSYNTHESE | types, ids, convergence of followed rows; 1 slave, 1 row, 2 interchangeable writers, 2 writes, 1 incident |
| `Multimaster` | MCInterSYNTHESE | convergence in multimaster mode; 2 tables, 1 write, 1 BDSI import, 1 incident |
| `Live` | MCInterSYNTHESE | effect of an acknowledgement, causes of missed writes, progress; 1 writer, 2 writes, 1 incident |
| `LostHandoff` | MCInterSYNTHESE | violation: a new slave need not be adopted |
| `SQLiteTable` | TableSync | full policy: types, objects mirror rows, `Mirror` is implemented; 2 threads, 2 rows, 3 statements, raw deletes, 1 refused transaction |
| `Maintainer` | TableSync | conditional policy under SQLite: repaired, outdated and deleted objects; 1 row, 3 statements, 1 change of `IsLoaded` |
| `QueueLocks` | QueueLocks | writers and full updates do not wait in a circle; 3 threads, 2 slaves, 4 operations |
| `HandlersDeadlock` | QueueLocks | violation: with polls and acknowledgements they do |
| `LineStops` | MCLineStops | pointers, offsets, and what is in memory of the rows; 3 stops of 2 kinds, two at one offset, 2 threads, 2 operations, every initial table |
| `Timetable` | MCTimetable | index, iterators, completeness and progress of searches; 2 services, on time or late, 2 planner threads, 2 searches, 1 change, 3 dates, searches across their nights |
| `RealTimeOnlyToday` | MCTimetable | violation: the delay of today is given to the service of tomorrow |
| `Sessions` | MCSessions | ends, age, ownership and users of sessions; 2 threads, 2 addresses, 1 login, 3 requests, 3 sessions, 3 instants |

Bounds. Two writes make every race of the protocol possible: two ids taken in
one order and committed in the other, or a write in the gap of a range already
sent. One incident suffices for each cause of loss, and combinations show
nothing that one does not (a second break starts from a state the first can
reach). One slave is enough because queues share only `nextId` and
`bgNextSlave`; the row of a second slave in `bgNextSlave` only delays the first.
`MaxQueriesNumber = 2` with a dump of two items and writes on top splits a queue
in two polls. A cycle of mutexes needs as many threads as mutexes in it; with
three threads all cycles through the three kinds of mutexes exist. Three stops
give a first, an inner and a last edge and every kind of neighbour in each
chain; two operations overlap in every way two can. Two kinds of stops (a terminus,
where nobody alights, and a stop for everything) keep the run short; the theorem
on `LinksFollowThePath` holds for any kinds. The searches of `Timetable` go both
ways with planned schedules, and forwards with real time ones. Days of six hours of two units have a night of one hour, the
hour `Morning` itself, and four hours of service; a service of the evening
passes after midnight. Two services are enough for a list with an order, an
iterator on the one that leaves, and an index that skips one; they have no
neighbours to overtake, so that `NoOvertaking` is in no run and left to its
theorem. Two threads are enough for an index or a calendar that
one fills while the other reads it, and one change for a search that meets it.
Three sessions are a request's own, another one's, and the one that replaces it;
with `Duration` one and three instants a session can be fresh, just valid or too
old, and be refreshed with a time read before that of another thread.

Fairness (`FairSpec` of InterSYNTHESE): weak fairness of each handler, each
importer (`ImpExModule::AutoImportsThread` loops for ever), the updater (loops
every 500 ms), the end of a BDSI import, and of a writer that has begun. No
fairness for starting to write, for faults, for the clock, nor for
`LoseRequest`. TableSync: weak fairness of the maintainer, strong fairness of
dispatching, whose mutex other threads take and release again and again. The
other modules have no liveness property: `SearchesAdvance` is an action property
that makes the loop of a search finite without any fairness between its steps.

Findings. The three violation runs are disagreements between the code and its
own comments or messages; `PROJECT.json` quotes both sides.

1. `LostHandoff`: the updater copies `bgNextSlave` and resets it in two steps; a
   handler stores a new slave in between.
2. `HandlersDeadlock`: `_queueMutex` is held through transactions that need
   `_tableSynchronizersMutex`, which writers take first.
3. `RealTimeOnlyToday`: the end of the service day is tested by `hours() > 3`, and
   searches enter the next day at 3:00.

Other disagreements are stated by definitions of the modules and have no run of
their own; each is found by adding the property to the run named here.

- `FailedAttemptLosesNothing` (`InterSYNTHESE`, constants of `Safety`): items are
  acknowledged, and deleted, before the slave runs them.
- `NoUpToDateWithoutDump` (`InterSYNTHESE`, `Safety` with `MaxImports = 1`):
  `try_lock` fails, the slave is marked as up to date anyway.
- `DeletedRowsLeaveMemory` (`TableSync`, `SQLiteTable`): only the first event on a
  row of a transaction is kept, so that a row saved, then deleted keeps its object.
- `DeletedObjectsLeave` (`TableSync`, `Maintainer` with `Buffered = TRUE`): the
  unlocked reload of a conditional table brings a deleted object back for ever.
- `InactiveMeansNoService` (`Timetable`, `RealTimeOnlyToday` with
  `Timings <- LastTimings`, `Calendars <- OneDay`, `Searches <- NightSearches`, all of
  `MCTimetable`): the calendar of a path is
  computed from planned schedules (`JourneyPattern.cpp:895`), so that a date on which
  a delayed service passes after midnight is skipped as one without service,
  which `Path.h:146` excludes.

The history variables name what the code gives up in the other modules: the
stops `astray`, the indexes `unmarked`, the calendars `outrun`. Two observations
have no property: `getCalendarCache` does not shift a calendar by the days of the
first departure (`JourneyPattern.cpp:895`), and a search backwards does not find
arrivals after midnight from a moment after midnight (`Edge.cpp:296-306`). A
session is removed by key, so that with a "login:password" key another session
may be removed than the one that ended; `OthersDoNotRemove` is about random keys.

## 4. Proofs

TLAPS checks every proof, for all values of the constants under the assumptions
named in the modules: a non-empty finite set of rows that are numbers (replication
only), `NoVal`, `NoSlave`, `NoThread`, `NoEdge`, `NoKey` and `Dangling` outside the sets they
extend, `MaxQueriesNumber` and the lengths of hours and days positive, times,
offsets and bounds that are numbers.

`InterSYNTHESE_proofs` begins with facts about items: the first items and the ends
of a range, which item decides a row, that running items again changes nothing,
that the statements of a dump hold what the table holds. For `TypeCorrect` and
`IdsStayFresh` the inductive invariant is `IInv == TypeOK /\ FreshIds /\ ReceivedBounded /\ ScratchEmpty`. `FreshIds` says of
the queues, of the transactions that have not dispatched all their items, and of
the items the updater has numbered that their ids are positive, unique and below
the auto-increment. It holds of the linked items only because it holds of the
prepared ones, and of both after a restart because the auto-increment is
recomputed above the ids left in the queue table while the prepared transactions
die. `ReceivedBounded` (what a reply or an importer holds has a greatest id) is
needed to type `RangeOf`, whose ends are chosen; that they exist follows from
`LeastElement` and `GreatestElement` (`NatLemmas`). `ScratchEmpty` says at which
steps the updater holds items or statements.

`FollowersConverge` (the same module) states `FollowedRowsConverge`: of a row no
modification of which was lost by design, what a slave holds, is about to run
and has stored in the queue table add up to what the master has. It is not
inductive by itself: an acknowledgement takes items out of the queue and hands
them to the slave, so that those which stay will be run after them.
`CInv == IInv /\ (\A s \in Slaves : Followed(s)) /\ Dumps` adds, per slave,
three facts. `OneLiveRequest`: an importer waits for one reply, so that a late
reply to a request it gave up never counts. `SentWhole`: of the stored items on a
followed row, linked or still to be dispatched, all have been sent, or the newest
has not; hence what an acknowledgement removes is replaced by the same content in
the slave, or something newer stays stored (`HandedOver`). This is where a writer
that is slow to dispatch would do harm, and why a row of which a later
modification was sent first is not followed any more (`LeftBehind`). `SentIdsUsed`:
no item gets into a queue under an id that was sent. Both hold while `Current`: a poll has been
served since the last acknowledgement, or may still be. A restart of the master,
which gives ids again that it finds no more in the table, makes it false, and
from then on only an acknowledgement that clears nothing is confirmed; this is
the reason why a range that has been cleared is forgotten, and the case in which the
invariant is not what one first writes down. `Dumps` says of a dump that has read
its rows and not yet saved its items why it may take the rows in `bgKept` as
followed: what is still to be numbered rebuilds the row as it is
(`StatementsRight`), or the last of all items on the row, the numbered ones and
those other threads have on their way included, is what the master has and was
not sent (`NumberedRight`); and the rows of items that are being unlinked are not
followed (`ErasedForgotten`). The steps that matter are `CommitFollowed`,
`ServeFollowed`, `ConfirmFollowed`, `NumberRight` and `SaveFollowed`.

`AcksClearWhatWasSent` and `OnlyObsoleteMissWrites` (the same module) state the two
action properties of the replication, `AckClearsWhatWasSent` and
`OnlyObsoleteSlavesMissWrites`, for one writer and without `ForceDump`; the
properties themselves speak of behaviours without incident. Two writers make both
false: the modification that commits last may have the lower id and enter a range
already sent, so that the acknowledgement removes it unsent; and `ForceDump` has
the updater empty the queue of a slave that is followed (TLC finds either in a few
seconds). The invariant is
`CalmInv == CInv /\ (Calm => AllQuiet)`, where `Calm` says that no link has broken
and nothing has failed so far. `AllQuiet` says what incidents spoil on purpose: no
slave is obsolete again once it has been heard of, and no request has been given up;
nothing is queued for a slave never heard of but what its first dump puts there, and
nothing is sent to it (`Unheard`), so that the updater empties no queue in use; what a writer has still to link to a queue has a greater id
than all that is queued or sent (`ComesLast`); a range that is not reset is, item for
item, what the importer holds or is about to receive (`RangeInHand`); and the updater
dumps only slaves never heard of, so that it has nothing to delete (`DumpsUnheard`),
and takes no row back that they follow already (`DumpsOnce`). The key step is a poll that is
served: the first items of a queue are all its items up to the last one sent
(`FirstItemsAreARange`), and by `ComesLast` that stays true until the
acknowledgement comes (`HandlerAnswers`).

`TableSync_proofs`, theorems `TableTypeCorrect` and `ObjectsMirrorRows`.
`EnvMirrorsDb` speaks of rows without pending event only; the inductive invariant
says what is pending for the others. Its first part, `TInv`, holds for both
policies: types, the holder of the mutex is dispatching an insertion (`LockInv`),
and each statement of a transaction has an event unless it removes
(`TransactionsInv`: this is why the first event on a row is enough). Its second
part, `MInv`, holds for the full policy: for a row outside `contended`
(`RowInv`), a row that exists has no pending deletion, a missing or outdated
object has a pending insertion, an object without row has a pending deletion,
and if the holder of the mutex has read a content that has since changed, an
event that will repair the object stays pending once its own is done. The
argument of a step is: a commit that changes the row brings the event
(`PublishedRow`); a dispatched insertion loads what the row is, or what a later
event will repair (`LoadRowMInv`); a dispatched deletion finds the row gone
(`RemoveRowMInv`). `Contended` names the modifications for which one of these
arguments fails.

`TableIsMirror` is the refinement: `ImplementsMirror` follows from the same
invariant, step by step. A commit or a raw deletion is `Mirror!Change`
(`PublishedIsChange`), a dispatched event `Mirror!Refresh` (`DispatchedIsRefresh`),
anything else a stutter. It is proved for SQLite (`~Buffered`): `RowInHandStep` is
where it matters that no writer gets in while a row is in hand.

`PathLinks_proofs` has no state machine: `AddEdgeLinks` and `RemoveEdgeLinks` say that
`LinksOK` is preserved by one edge added at a free rank, or removed. The heart
is that in a path whose pointers are right the edges which hold the same pointer
are exactly those between two targets, so that the walk stops where it should.
`AddEdgeRecords` and `RemoveEdgeForgets` say the same of `RanksMatch`: at every
offset that is not in doubt `_rankMap` has the rank of the first edge there, and
nothing where there is none (`OffsetsOK` alone would not survive a removal).
`LineStops_proofs` lifts them, the latter to `OffsetsAlwaysFind`.
`LinksAlwaysFollow` needs of the rest of the
system only its types, that edges outside the path have no stale neighbours
(`Destroyed` resets them, `Reload` gives the edge new ones), and that `addEdge` is
not reached with a taken rank. `PathAlwaysMirrors` follows from `MirrorInv`: a stop
that is not astray is in memory as its row is, or what is still to come will make
it so (`OnItsWay`), where the "update" of a stop that has no object does not count;
and an operation under way has gathered the events its statements need
(`OperationsTell`). `SerialInsertionsAreSafe` needs to know why no shift ever meets
a taken rank: the events of one operation bring the ranks from the last to the
first (`Falling`), whatever comes is beyond what is there (`Orderly`), the edges that
are not up to date are those still to come (`EdgesShown`), and only one thread is
at work as long as operations do not overlap (`OneAtWork`).

`Timetable_proofs`: `IInv == TypeOK /\ IndexHoldsServices /\ LoopIndex`. `TypeOK`
says that the iterator of a loop is on a service of the path or the end of the
list; it rests on `IndexHoldsServices`, which rests on `LoopIndex`: while a thread
is inside of a search the services are locked, so that an index it has seen valid
still holds services although it may be marked stale behind its back. That the
entry of the index is always safe to read follows from the same invariant; the
iterator kept from the answer before is not, since nothing locks the services in
between. `SearchesReadNothingFreed` says what is left: an undisturbed search over
conventional data reads nothing freed, nor the end of the list, because what
`SearchesFindAll` proves of the place of its iterator puts it before or at the
entry (`ReadsNothingFreed`).
`ServicesNeverOvertake` shows that comparing a new service with two neighbours is
enough: `SameOrder` is transitive over the ones in between.

`IndexesSkipNothing` rests on both. `CoverInv` says of the thread that fills an
index that it is the only one (`OneFills`), that it goes through the list in order,
and that the entries so far cover the services it has passed (`Filling`); the
next service of the list may then be covered because it does not overtake them
(`IndexedCovers`). For real time schedules the order is not given, but a condition
of the property. `SearchesAlwaysAdvance` is an action property: `NextMomentIsFurther`
splits a moment in days and hours (`MomentParts`) and shows that the jump to
`Morning` is strictly further in both directions; `PassageIsNotBack` that a service
found is never before the moment asked for.

`SearchesFindAll` is the theorem these prepare. Its invariant
`FindInv == CoverInv /\ SearchInv /\ DatesInv /\ EntriesInv` says of each undisturbed
search how far it has come. `MomentBetween`: its moment is not before what it has
found nor after what it has still to find, and what it has found is right. What
leads on from there depends on the place in the loop. When the answer is given the
iterator is on the service found (`KeptIsFound`); between two calls it has been moved
to the next (`KeptIsNext`): from it to the end of the list are exactly the
services that pass later on this service day. Inside of a call it is the iterator
the loop starts from (`NextLeadsOn`): the services of this service day that
are still to find are from there on, and none that passes from the moment on has
been found. The step from the one to the other (`StartLeadsOn`) is where the entry of
the index comes in, which by `CoverInv` skips nothing, and where the order of the
list turns "passes later" into "comes later" (`ServicesNeverOvertake`). A date is left
in two ways: with the first service of the loop that runs (`TakesIt`), or
because none does (`MovesOn`); for the latter the calendar must hold
every date on which a service runs (`DatesInv`), and the jump to `Morning` must
not leave a passage behind: what has still to be found on the same service day
has been tried already, and what is beyond it starts with the entry of the first or
last hour (`FirstEntryLeads`). Backwards from a moment of the night there is no entry, and nothing
to find, because `Conventional` excludes arrivals after midnight (`EntriesInv`).
The passages of one service on two days are apart by whole days, and
those of two services on two service days are in the order of the days
(`ServiceDay`, `DaysApart`). Other threads are no obstacle: they change the index only while it
is stale for them, and what they do to a search makes it `disturbed`
(`SearchStep`).

`QueueLocks_proofs`. A program is annotated with how often each lock is owned before
each of its steps (`Annotates`); `LocksTypeCorrect` is that what a thread owns is what
its remaining program is annotated with. `NoDeadlockAmongAlike` uses two orders of
the mutexes: writers and full updates take `_slaveChangeMutex`, then
`_tableSynchronizersMutex`, then `_queueMutex`; polls and acknowledgements take
`_queueMutex` first. Along one order a circle of waiting threads is impossible: the
one that waits for the lock of the greatest rank waits for nobody in it
(`OneOrder`). The hypothesis, only operations of the one kind or of the other, is
what the run `HandlersDeadlock` shows to be needed; the theorem covers the run
`QueueLocks` for any threads and slaves.

`Sessions_proofs`: `IInv` says of the state that the random key of a session is
its number, that the map and the cookies only hold keys of sessions made, and
that a session which has ended is not in the map unless under a login key that
a younger session holds (`KeysOwn`, `MapInv`, `CookiesInv`, `TouchedInv`); and of
each request (`RequestInv`) what it may hold at each `pc`: in particular, between the
reading of the clock and the writing of the last use, a time that is not before
the request came, and a session used within `Duration` before that, whoever else
uses it meanwhile. `Grows` says what a step can only add to, and carries the
invariant of the threads that do not move. `UsersArrive` follows from `UsersInv`, which
says the same of every session made, in the map or not.

Every invariant and every action property of a passing run is stated by a theorem;
`NoOvertaking` (`ServicesNeverOvertake`) by a theorem alone.
What stays with TLC is what needs fairness (`FollowersCatchUp`, `QueuesDrain`,
`MaintainerRepairs`, `OutdatedObjectsLeave`, `DeletedObjectsLeave`: the prover does
not do ENABLED, which fairness is defined by) and the three violations. The modules
use no RECURSIVE operator.

## 5. Not modelled, and plan

The next modules, in this order:

1. `MySQLConnection`: the connection all threads share. `execTransaction` locks
   it per statement, has no ROLLBACK, and `_doQuery` reconnects and retries in
   the middle of a transaction. `TableSync` then takes it as its second backend.
2. `Replica`: an abstract specification of what replication promises (each slave
   holds, per followed row, some content the master had, and moves forward), and
   `InterSYNTHESE` shown to implement it by a refinement mapping.
3. `ObjectsMirrorRows` again with the shared connection.
4. `ServerThreads`: starting, waiting for and killing the threads of the pool.
5. `AutoImports`: schedule of imports, listing them, the fake import of a slave
   whose parameters change while it runs.
6. `InterSYNTHESE` with a configuration that changes (perimeter, `ForceDump`,
   slave moved to another configuration).
7. `LineStops` with areas and copies of journey patterns; the statements of a
   removal and an insertion replicated to a slave, which does not get the UPDATE.
8. Reservations and scenarios of messages; planners against reference
   definitions on tiny networks.

Left out for good: parsers and writers of file formats, HTML, PDF and map
rendering, the CMS language, clients of speech services (pure input and
output, or evaluation without state), and generated or third-party code.
