---------------------------- MODULE InterSYNTHESE ----------------------------
(***************************************************************************)
(* Inter-SYNTHESE replication: a master server queues, for each of its     *)
(* slave servers, the SQL statements its transactions ran; the importer    *)
(* thread of a slave polls the master over HTTP, acknowledges what it got, *)
(* then runs it in one transaction.  A slave the master considers obsolete *)
(* gets nothing queued any more: a background thread of the master first   *)
(* empties its queue and fills it with a dump of the synchronized tables.  *)
(*                                                                         *)
(* Threads: writers of the master (any thread that runs a DBTransaction or *)
(* saves an object), one HTTP handler per request, the background updater, *)
(* the importer of each slave.  Each action is a piece of code another     *)
(* thread cannot see the middle of: it holds the queue mutex, or is one    *)
(* database transaction.  A transaction is committed first; what it did is *)
(* dispatched to the objects in memory afterwards, event by event.         *)
(***************************************************************************)
EXTENDS SyncItems

CONSTANTS Slaves,            \* the slaves of one InterSYNTHESEConfig
          NoSlave,           \* the null shared_ptr
          Writers,           \* threads of the master that modify synchronized rows
          TableOf,           \* table number of each row
          MaxQueriesNumber,  \* InterSYNTHESEConfig: items per poll
          Multimaster,       \* InterSYNTHESEConfig
          ForceDump,         \* InterSYNTHESEConfig
          MaxWrites,         \* bound: modifications started by the writers
          MaxBreaks,         \* bound: links broken and slaves reset
          MaxImports,        \* bound: Ineo BDSI imports run by the master
          MaxFaults,         \* bound: failed attempts, failures of the database, restarts
          MaxIncidents       \* bound: breaks and faults together

ASSUME NoSlaveAssumption == NoSlave \notin Slaves
ASSUME TableOfAssumption == TableOf \in [Rows -> Nat]
\* 0 would make the loop of getQueueRange count down from 2^64.
ASSUME MaxQueriesNumberAssumption == MaxQueriesNumber \in Nat \ {0}
ASSUME ConfigAssumption == Multimaster \in BOOLEAN /\ ForceDump \in BOOLEAN
ASSUME BoundsAssumption == {MaxWrites, MaxBreaks, MaxImports, MaxFaults, MaxIncidents} \subseteq Nat
ASSUME RowsNotEmptyAssumption == Rows # {}

VARIABLES
    db,          \* the synchronized rows in the database of the master
    nextId,      \* auto-increment of the table of InterSYNTHESEQueue
    queue,       \* InterSYNTHESESlave::_queue
    activity,    \* LastActivityReport: never set, within LinkBreakMinutes, or older
    lastSent,    \* InterSYNTHESESlave::_lastSentRange
    wpc, wop,    \* writers: where each one is, and what it is writing
    bgNextSlave, \* InterSYNTHESESlaveUpdateService::bgNextSlave
    bgPc, bgSlave, bgTodo, \* RunBackgroundUpdater: step, slave, tables left to dump
    bgLeft,      \* initQueue: statements of the table that have no id yet
    bgItems,     \* items the updater is about to delete, or has numbered
    baseWriter,  \* who holds ServerModule::baseWriterMutex
    req,         \* HTTP requests of each slave that are under way on the master
    reply,       \* the reply on its way to the importer of each slave
    spc, batch,  \* importer of each slave: step, items received
    sdb,         \* the synchronized rows in the database of each slave
    followed, bgKept, \* history variables, see below
    used         \* how much of each bound has been used

master   == <<db, nextId, queue, activity, lastSent>>
writers  == <<wpc, wop>>
scratch  == <<bgTodo, bgLeft, bgItems>>
updater  == <<bgNextSlave, bgPc, bgSlave, scratch, baseWriter>>
network  == <<req, reply>>
importer == <<spc, batch, sdb>>
history  == <<followed, bgKept>>
vars == <<master, writers, updater, network, importer, history, used>>

Tables == {TableOf[r] : r \in Rows}

RowsOf(t) == {r \in Rows : TableOf[r] = t}

\* A request as the master sees it.  `live`: the importer still waits for the reply.
\* `step`: how far the handler has got.
Poll(live, step) == [kind |-> "poll", range |-> Range0, live |-> live, step |-> step]
Ack(range, live) == [kind |-> "ack", range |-> range, live |-> live, step |-> "arrived"]

NoReply == [kind |-> "none", items |-> {}]
Reply(kind) == [kind |-> kind, items |-> {}]
ContentReply(items) == [kind |-> "content", items |-> items]

IdleOp == [row |-> CHOOSE r \in Rows : TRUE, val |-> NoVal, id |-> 0, to |-> {}]

-----------------------------------------------------------------------------
(* What the master knows of a slave. *)

IsObsolete(s) ==
    IF Multimaster THEN activity[s] = "never" ELSE activity[s] # "recent"

FullUpdateNeeded(s) == IsObsolete(s) \/ ForceDump

Receivers == {s \in Slaves : ~IsObsolete(s)}

MarkAsUpToDate(s) == activity' = [activity EXCEPT ![s] = "recent"]

-----------------------------------------------------------------------------
(* The rows of the queue table and the items in memory. *)

SyncItem(op) == [id |-> op.id, rows |-> {op.row}, val |-> op.val]

\* Items writers have stored for s and not linked to its queue yet.
Dispatching(s) ==
    {SyncItem(wop[w]) : w \in {x \in Writers : wpc[x] = "dispatching" /\ s \in wop[x].to}}

\* What bgItems holds for s at some steps of the updater.
BgItems(s, steps) == IF bgSlave = s /\ bgPc \in steps THEN bgItems ELSE {}

\* The items that have an id and are on their way to the queue of s.
Coming(s) == Dispatching(s) \cup BgItems(s, {"number", "dispatch"})

\* The rows of s in the queue table: those of a committed transaction are there before the
\* items are linked, and gone before the items are unlinked.
Stored(s) ==
    (queue[s] \cup Dispatching(s) \cup BgItems(s, {"dispatch"})) \ BgItems(s, {"erase"})

-----------------------------------------------------------------------------
(* `followed` is a history variable: the rows on which nothing has been    *)
(* lost between the master and a slave since they were last dumped.  What  *)
(* is promised of them is FollowedRowsConverge.  `bgKept` are those the    *)
(* dump of a table makes a slave follow when it is saved: the rows read    *)
(* that no modification has made obsolete since.                           *)

\* The items a slave has been told it may apply and has not applied yet.
Owed(s) ==
    IF spc[s] = "applying" \/ (spc[s] = "acking" /\ reply[s].kind = "OK")
    THEN batch[s] ELSE {}

\* The content of slave s once it has applied what it owes, then what is stored for it.
Expected(s) == Apply(Stored(s), Apply(Owed(s), sdb[s]))

\* No writer has modified row r without having queued the modification yet.
Settled(r) == \A w \in Writers : ~(wpc[w] = "saved" /\ wop[w].row = r)

\* An item of greater id, queued or on its way, will run after the item `id` and undo it.
Overtaken(s, r, id) == \E j \in queue[s] \cup Coming(s) : r \in j.rows /\ j.id > id

\* The rows on which the slave gets an item before an older one that is still on its way.
LeftBehind(s, sent) ==
    {r \in Rows : \E i \in Coming(s), j \in sent : r \in i.rows /\ r \in j.rows /\ i.id < j.id}

\* The updater has read row r and will give the statements about it ids later.
ToNumber(r) == \E st \in bgLeft : r \in st.rows

\* Slave s loses track of `rows`.
Lose(s, rows) ==
    /\ followed' = [followed EXCEPT ![s] = @ \ rows]
    /\ bgKept' = IF s = bgSlave THEN bgKept \ rows ELSE bgKept
-----------------------------------------------------------------------------
Init ==
    /\ db \in Database
    /\ nextId = 1
    /\ queue = [s \in Slaves |-> {}]
    /\ activity = [s \in Slaves |-> "never"]
    /\ lastSent = [s \in Slaves |-> Range0]
    /\ wpc = [w \in Writers |-> "idle"]
    /\ wop = [w \in Writers |-> IdleOp]
    /\ bgNextSlave = NoSlave
    /\ bgPc = "idle"
    /\ bgSlave = NoSlave
    /\ bgTodo = {} /\ bgLeft = {} /\ bgItems = {}
    /\ baseWriter = "free"
    /\ req = [s \in Slaves |-> {}]
    /\ reply = [s \in Slaves |-> NoReply]
    /\ spc = [s \in Slaves |-> "idle"]
    /\ batch = [s \in Slaves |-> {}]
    /\ sdb \in [Slaves -> {[r \in Rows |-> NoVal]}]
    /\ followed = [s \in Slaves |-> {}] /\ bgKept = {}
    /\ used = [writes |-> 0, breaks |-> 0, imports |-> 0, faults |-> 0]

Spend(what, bound) ==
    /\ used[what] < bound
    /\ used' = [used EXCEPT ![what] = @ + 1]

Incident(what, bound) ==
    /\ used.breaks + used.faults < MaxIncidents
    /\ Spend(what, bound)

-----------------------------------------------------------------------------
(* Writers.  A modification made through a DBTransaction is queued (and    *)
(* takes its ids) when it is added to the transaction, and reaches the     *)
(* database and the queue table when the transaction is committed.  The    *)
(* events of the transaction are then dispatched one by one.               *)

\* The writer has committed `op`, and has its items to dispatch, or is done.
Stores(w, op) ==
    /\ wpc' = [wpc EXCEPT ![w] = IF op.to = {} THEN "idle" ELSE "dispatching"]
    /\ wop' = [wop EXCEPT ![w] = IF op.to = {} THEN IdleOp ELSE op]

\* replaceStmt / deleteStmt on a transaction.
Prepare(w, r, v) ==
    /\ wpc[w] = "idle"
    /\ Spend("writes", MaxWrites)
    /\ wpc' = [wpc EXCEPT ![w] = "prepared"]
    /\ wop' = [wop EXCEPT ![w] = [row |-> r, val |-> v, id |-> nextId, to |-> Receivers]]
    /\ nextId' = IF Receivers = {} THEN nextId ELSE nextId + 1
    /\ UNCHANGED <<db, queue, activity, lastSent, updater, network, importer, history>>

\* The COMMIT of DBTransaction::run.
Commit(w) ==
    LET op == wop[w]
        kept(s) == s \in op.to /\ ~Overtaken(s, op.row, op.id)
    IN
    /\ wpc[w] = "prepared"
    /\ Stores(w, op)
    /\ db' = [db EXCEPT ![op.row] = op.val]
    /\ followed' = [s \in Slaves |-> IF kept(s) THEN followed[s] ELSE followed[s] \ {op.row}]
    /\ bgKept' = IF ~ToNumber(op.row) /\ kept(bgSlave) THEN bgKept ELSE bgKept \ {op.row}
    /\ UNCHANGED <<nextId, queue, activity, lastSent, updater, network, importer, used>>

\* _finishTransaction: the item stored for slave s is linked to its queue
\* (InterSYNTHESEQueue::link), under the mutexes of the table synchronizers and of the queue.
Dispatch(w) == \E s \in wop[w].to :
    LET left == wop[w].to \ {s} IN
    /\ wpc[w] = "dispatching"
    /\ queue' = [queue EXCEPT ![s] = @ \cup {SyncItem(wop[w])}]
    /\ Stores(w, [wop[w] EXCEPT !.to = left])
    /\ UNCHANGED <<db, nextId, activity, lastSent, updater, network, importer, history, used>>

\* DBTransaction::run throws after a ROLLBACK: the ids are lost.
Rollback(w) ==
    /\ wpc[w] = "prepared"
    /\ wpc' = [wpc EXCEPT ![w] = "idle"]
    /\ wop' = [wop EXCEPT ![w] = IdleOp]
    /\ UNCHANGED <<master, updater, network, importer, history, used>>

\* replaceStmt / deleteStmt without a transaction: the row is written at once...
DirectSave(w, r, v) ==
    /\ wpc[w] = "idle"
    /\ Spend("writes", MaxWrites)
    /\ wpc' = [wpc EXCEPT ![w] = "saved"]
    /\ wop' = [wop EXCEPT ![w] = [row |-> r, val |-> v, id |-> 0, to |-> {}]]
    /\ db' = [db EXCEPT ![r] = v]
    /\ bgKept' = IF ToNumber(r) THEN bgKept \ {r} ELSE bgKept
    /\ UNCHANGED <<nextId, queue, activity, lastSent, updater, network, importer, followed>>

\* ... and the items are saved afterwards, for the slaves `to`, then linked like the others.
Enqueue(w, to) ==
    LET op == [wop[w] EXCEPT !.id = nextId, !.to = to]
        last == \A x \in Writers \ {w} : ~(wpc[x] = "saved" /\ wop[x].row = op.row)
        stale == last /\ db[op.row] # op.val
        kept(s) == s \in to /\ ~stale
    IN
    /\ wpc[w] = "saved"
    /\ Stores(w, op)
    /\ nextId' = IF Receivers = {} THEN nextId ELSE nextId + 1
    /\ followed' = [s \in Slaves |-> IF kept(s) THEN followed[s] ELSE followed[s] \ {op.row}]
    /\ bgKept' = IF ToNumber(op.row) \/ kept(bgSlave) THEN bgKept ELSE bgKept \ {op.row}
    /\ UNCHANGED <<db, queue, activity, lastSent, updater, network, importer>>

\* Those that are not obsolete by then.
DirectEnqueue(w) == Enqueue(w, Receivers) /\ UNCHANGED used

-----------------------------------------------------------------------------
(* The passing of time and the administrator. *)

\* LinkBreakMinutes pass without a request of the slave.
LinkBreak(s) ==
    /\ activity[s] = "recent"
    /\ Incident("breaks", MaxBreaks)
    /\ activity' = [activity EXCEPT ![s] = "old"]
    /\ UNCHANGED <<db, nextId, queue, lastSent, writers, updater, network, importer, history>>

\* The Reset link of the administration page clears last_activity_report.
ResetSlave(s) ==
    /\ activity[s] # "never"
    /\ Incident("breaks", MaxBreaks)
    /\ activity' = [activity EXCEPT ![s] = "never"]
    /\ UNCHANGED <<db, nextId, queue, lastSent, writers, updater, network, importer, history>>

-----------------------------------------------------------------------------
(* HTTP handlers of the master.  InterSYNTHESESlaveUpdateService::run reads *)
(* the state of the slave, then either registers it for a dump or sends     *)
(* the first items of the queue.                                            *)

\* The handler of q goes on to `step`.
Advance(s, q, step) ==
    /\ req' = [req EXCEPT ![s] = (@ \ {q}) \cup {[q EXCEPT !.step = step]}]
    /\ UNCHANGED reply

\* The handler of q ends; nobody reads the reply to an abandoned request.
Respond(s, q, r) ==
    /\ req' = [req EXCEPT ![s] = @ \ {q}]
    /\ reply' = IF q.live THEN [reply EXCEPT ![s] = r] ELSE reply

\* fullUpdateNeeded, then the test of bgNextSlave: no lock protects it (the
\* `scoped_lock(bgMutex)` of bgProcessSlave declares a variable of that name).
PollCheck(s) == \E q \in req[s] :
    /\ q.kind = "poll" /\ q.step = "arrived"
    /\ IF ~FullUpdateNeeded(s) THEN Advance(s, q, "serving")
       ELSE IF bgNextSlave = NoSlave THEN Advance(s, q, "handoff")
       ELSE Respond(s, q, Reply("busy"))
    /\ UNCHANGED <<master, writers, updater, importer, history, used>>

\* bgNextSlave = slave
PollHandoff(s) == \E q \in req[s] :
    /\ q.kind = "poll" /\ q.step = "handoff"
    /\ bgNextSlave' = s
    /\ Respond(s, q, Reply("processing"))
    /\ UNCHANGED <<master, writers, bgPc, bgSlave, scratch, baseWriter, importer, history, used>>

\* Under the queue mutex: send a range of the queue, keep it, record the activity.
PollServe(s) == \E q \in req[s] :
    LET sent == FirstItems(queue[s], MaxQueriesNumber) IN
    /\ q.kind = "poll" /\ q.step = "serving"
    /\ Respond(s, q, IF sent = {} THEN Reply("noContent") ELSE ContentReply(sent))
    /\ lastSent' = [lastSent EXCEPT ![s] = RangeOf(sent)]
    /\ MarkAsUpToDate(s)
    /\ Lose(s, LeftBehind(s, sent))
    /\ UNCHANGED <<db, nextId, queue, writers, updater, importer, used>>

\* Mutant: the ends of the range are swapped.
AckedRange_Swapped(s, q) == [first |-> Find(queue[s], q.range.last),
                             last  |-> Find(queue[s], q.range.first)]

\* The iterators InterSYNTHESEUpdateAckService finds for the ids of the request.  One of
\* them may be end(); so may be those of lastSent.
AckedRange(s, q) == [first |-> Find(queue[s], q.range.first),
                     last  |-> Find(queue[s], q.range.last)]

\* The rows on which confirming q hands the slave something else than what it removes
\* from the queue.  An abandoned request hands it nothing.
Mishandled(s, q, cleared) ==
    LET handed == IF q.live THEN batch[s] ELSE {}
    IN  {r \in Rows : Touching(handed, r) # Touching(cleared, r)}

\* Mutant: the confirmed items are not deleted.
AckConfirm_KeepsItems(s) == \E q \in req[s] :
    /\ q.kind = "ack" /\ AckedRange(s, q) = lastSent[s]
    /\ lastSent' = [lastSent EXCEPT ![s] = Range0]
    /\ MarkAsUpToDate(s)
    /\ Respond(s, q, Reply("OK"))
    /\ UNCHANGED <<db, nextId, queue, writers, updater, importer, history, used>>

\* Under the queue mutex, taken by _setFromParametersMap and kept by run.
AckConfirm(s) == \E q \in req[s] :
    LET cleared == InRange(queue[s], lastSent[s]) IN
    /\ q.kind = "ack" /\ AckedRange(s, q) = lastSent[s]
    /\ queue' = [queue EXCEPT ![s] = @ \ cleared]
    /\ lastSent' = [lastSent EXCEPT ![s] = Range0]
    /\ MarkAsUpToDate(s)
    /\ Lose(s, Mishandled(s, q, cleared))
    /\ Respond(s, q, Reply("OK"))
    /\ UNCHANGED <<db, nextId, writers, updater, importer, used>>

AckRefuse(s) == \E q \in req[s] :
    /\ q.kind = "ack" /\ AckedRange(s, q) # lastSent[s]
    /\ Respond(s, q, Reply("ERROR"))
    /\ UNCHANGED <<master, writers, updater, importer, history, used>>

-----------------------------------------------------------------------------
(* The background updater of the master (RunBackgroundUpdater).            *)

\* slave = bgNextSlave
BgTake ==
    /\ bgPc = "idle"
    /\ bgSlave' = bgNextSlave
    /\ bgPc' = "took"
    /\ UNCHANGED <<master, writers, bgNextSlave, scratch, baseWriter, network, importer,
                   history, used>>

\* Mutant: the null pointer is processed too.
BgReset_NoTest ==
    /\ bgPc = "took"
    /\ bgNextSlave' = NoSlave
    /\ bgPc' = "test"
    /\ UNCHANGED <<master, writers, bgSlave, scratch, baseWriter, network, importer,
                   history, used>>

\* bgNextSlave.reset(), whatever a handler has stored there since.
BgReset ==
    /\ bgPc = "took"
    /\ bgNextSlave' = NoSlave
    /\ bgPc' = IF bgSlave = NoSlave THEN "idle" ELSE "test"
    /\ UNCHANGED <<master, writers, bgSlave, scratch, baseWriter, network, importer,
                   history, used>>

\* Mutant: processFullUpdate does not test again that the slave needs it.
BgTest_Always ==
    /\ bgPc = "test"
    /\ bgPc' = "collect"
    /\ UNCHANGED <<master, writers, bgNextSlave, bgSlave, scratch, baseWriter, network,
                   importer, history, used>>

\* processFullUpdate: is there something to do?
BgTest ==
    /\ bgPc = "test"
    /\ bgPc' = IF FullUpdateNeeded(bgSlave) THEN "collect" ELSE "mark"
    /\ UNCHANGED <<master, writers, bgNextSlave, bgSlave, scratch, baseWriter, network,
                   importer, history, used>>

\* The items to delete, listed under the queue mutex.
BgCollect ==
    /\ bgPc = "collect"
    /\ bgItems' = queue[bgSlave]
    /\ bgPc' = "delete"
    /\ UNCHANGED <<master, writers, bgNextSlave, bgSlave, bgTodo, bgLeft, baseWriter, network,
                   importer, history, used>>

\* deleteTransaction.run(), without the mutex: its COMMIT ...
BgDelete ==
    /\ bgPc = "delete"
    /\ bgPc' = IF bgItems = {} THEN "lock" ELSE "erase"
    /\ Lose(bgSlave, TouchedBy(bgItems))
    /\ UNCHANGED <<master, writers, bgNextSlave, bgSlave, scratch, baseWriter, network,
                   importer, used>>

\* ... then the items are unlinked one by one, those that are still in the queue.
BgErase ==
    /\ bgPc = "erase"
    /\ \E i \in bgItems :
        /\ \A j \in bgItems : i.id <= j.id
        /\ queue' = [queue EXCEPT ![bgSlave] = @ \ {i}]
        /\ bgItems' = bgItems \ {i}
        /\ bgPc' = IF bgItems = {i} THEN "lock" ELSE "erase"
    /\ UNCHANGED <<db, nextId, activity, lastSent, writers, bgNextSlave, bgSlave, bgTodo,
                   bgLeft, baseWriter, network, importer, history, used>>

\* try_lock on baseWriterMutex; on failure the exception is logged and forgotten.
BgLock ==
    /\ bgPc = "lock"
    /\ IF baseWriter = "free"
       THEN bgPc' = "dump" /\ baseWriter' = "updater" /\ bgTodo' = Tables
       ELSE bgPc' = "mark" /\ UNCHANGED <<baseWriter, bgTodo>>
    /\ UNCHANGED <<master, writers, bgNextSlave, bgSlave, bgLeft, bgItems, network, importer,
                   history, used>>

\* initQueue for the next table: `withClear`, the statements that rebuild it are read.
ReadTable(withClear) ==
    /\ bgPc = "dump" /\ bgPc' = "number"
    /\ \E t \in bgTodo :
        /\ \A u \in bgTodo : t <= u
        /\ bgTodo' = bgTodo \ {t}
        /\ bgLeft' = DumpStatements(RowsOf(t), db, withClear)
        /\ bgKept' = {r \in RowsOf(t) : ~Multimaster \/ db[r] # NoVal}
    /\ UNCHANGED <<master, writers, bgNextSlave, bgSlave, bgItems, baseWriter, network,
                   importer, followed, used>>

\* Mutant: the dump of a table does not start with its "DELETE FROM".
BgRead_NoDelete == ReadTable(FALSE)

\* searchRecords, and the loop on its rows.
BgRead == ReadTable(~Multimaster)

\* enqueue(force): the next statement takes an id, in saveTransaction.
BgNumber ==
    /\ bgPc = "number"
    /\ \E st \in bgLeft :
        /\ IsFirst(st, bgLeft)
        /\ bgLeft' = bgLeft \ {st}
        /\ bgItems' = bgItems \cup {[id |-> nextId, rows |-> st.rows, val |-> st.val]}
    /\ nextId' = nextId + 1
    /\ UNCHANGED <<db, queue, activity, lastSent, writers, bgNextSlave, bgPc, bgSlave, bgTodo,
                   baseWriter, network, importer, history, used>>

\* saveTransaction.run(): its COMMIT ...
BgSave ==
    /\ bgPc = "number" /\ bgLeft = {}
    /\ bgPc' = IF bgItems = {} THEN "dump" ELSE "dispatch"
    /\ followed' = [followed EXCEPT ![bgSlave] = (@ \ TouchedBy(bgItems)) \cup bgKept]
    /\ bgKept' = {}
    /\ UNCHANGED <<master, writers, bgNextSlave, bgSlave, scratch, baseWriter, network,
                   importer, used>>

\* ... then the items are linked one by one.
BgDispatch ==
    /\ bgPc = "dispatch"
    /\ \E i \in bgItems :
        /\ \A j \in bgItems : i.id <= j.id
        /\ queue' = [queue EXCEPT ![bgSlave] = @ \cup {i}]
        /\ bgItems' = bgItems \ {i}
        /\ bgPc' = IF bgItems = {i} THEN "dump" ELSE "dispatch"
    /\ UNCHANGED <<db, nextId, activity, lastSent, writers, bgNextSlave, bgSlave, bgTodo,
                   bgLeft, baseWriter, network, importer, history, used>>

BgUnlock ==
    /\ bgPc = "dump" /\ bgTodo = {}
    /\ bgPc' = "mark"
    /\ baseWriter' = "free"
    /\ UNCHANGED <<master, writers, bgNextSlave, bgSlave, scratch, network, importer,
                   history, used>>

\* Whether processFullUpdate succeeded or threw.
BgMark ==
    /\ bgPc = "mark"
    /\ MarkAsUpToDate(bgSlave)
    /\ bgPc' = "idle"
    /\ bgSlave' = NoSlave
    /\ UNCHANGED <<db, nextId, queue, lastSent, writers, bgNextSlave, scratch, baseWriter,
                   network, importer, history, used>>

\* The other user of baseWriterMutex: the Ineo BDSI import.
OtherImportStarts ==
    /\ baseWriter = "free"
    /\ Spend("imports", MaxImports)
    /\ baseWriter' = "import"
    /\ UNCHANGED <<master, writers, bgNextSlave, bgPc, bgSlave, scratch, network, importer,
                   history>>

OtherImportEnds ==
    /\ baseWriter = "import"
    /\ baseWriter' = "free"
    /\ UNCHANGED <<master, writers, bgNextSlave, bgPc, bgSlave, scratch, network, importer,
                   history, used>>

-----------------------------------------------------------------------------
(* The importer of a slave (InterSYNTHESEFileFormat::Importer_::_read),    *)
(* run by one thread, again and again.                                     *)

ImporterStep(s, from, to) == spc[s] = from /\ spc' = [spc EXCEPT ![s] = to]

StartPoll(s) ==
    /\ ImporterStep(s, "idle", "polling")
    /\ req' = [req EXCEPT ![s] = @ \cup {Poll(TRUE, "arrived")}]
    /\ UNCHANGED <<master, writers, updater, reply, batch, sdb, history, used>>

TakeReply(s, kinds) ==
    /\ reply[s].kind \in kinds
    /\ reply' = [reply EXCEPT ![s] = NoReply]

\* "no_content_to_sync!" ends the attempt; so do the two sentences about the dump, which
\* do not parse as items.
ReceiveNothing(s) ==
    /\ ImporterStep(s, "polling", "idle")
    /\ TakeReply(s, {"noContent", "processing", "busy"})
    /\ UNCHANGED <<master, writers, updater, req, batch, sdb, history, used>>

ReceiveContent(s) ==
    /\ ImporterStep(s, "polling", "ready")
    /\ TakeReply(s, {"content"})
    /\ batch' = [batch EXCEPT ![s] = reply[s].items]
    /\ UNCHANGED <<master, writers, updater, req, sdb, history, used>>

\* The acknowledgement comes first ...
SendAck(s) ==
    /\ ImporterStep(s, "ready", "acking")
    /\ req' = [req EXCEPT ![s] = @ \cup {Ack(RangeOf(batch[s]), TRUE)}]
    /\ UNCHANGED <<master, writers, updater, reply, batch, sdb, history, used>>

ReceiveOK(s) ==
    /\ ImporterStep(s, "acking", "applying")
    /\ TakeReply(s, {"OK"})
    /\ UNCHANGED <<master, writers, updater, req, batch, sdb, history, used>>

\* (a refused acknowledgement is not an error: nothing is applied)
ReceiveError(s) ==
    /\ ImporterStep(s, "acking", "idle")
    /\ TakeReply(s, {"ERROR"})
    /\ batch' = [batch EXCEPT ![s] = {}]
    /\ UNCHANGED <<master, writers, updater, req, sdb, history, used>>

\* (a status that is not 200 makes the client throw)
ReceiveFailure(s) ==
    /\ spc[s] \in {"polling", "acking"}
    /\ TakeReply(s, {"failure"})
    /\ spc' = [spc EXCEPT ![s] = "idle"]
    /\ batch' = [batch EXCEPT ![s] = {}]
    /\ UNCHANGED <<master, writers, updater, req, sdb, history, used>>

\* ... and the transaction on the database of the slave (closeSync) last.
ApplyBatch(s) ==
    /\ ImporterStep(s, "applying", "idle")
    /\ sdb' = [sdb EXCEPT ![s] = Apply(batch[s], @)]
    /\ batch' = [batch EXCEPT ![s] = {}]
    /\ UNCHANGED <<master, writers, updater, network, history, used>>

-----------------------------------------------------------------------------
(* Faults.                                                                 *)

Abandon(requests) == {[q EXCEPT !.live = FALSE] : q \in requests}

\* The slave crashes, or its connection breaks or its transaction throws, and _read
\* catches the exception: the attempt is over.  The master may still run the request.
ImportFails(s) ==
    /\ spc[s] # "idle"
    /\ Incident("faults", MaxFaults)
    /\ spc' = [spc EXCEPT ![s] = "idle"]
    /\ batch' = [batch EXCEPT ![s] = {}]
    /\ req' = [req EXCEPT ![s] = Abandon(@)]
    /\ reply' = [reply EXCEPT ![s] = NoReply]
    /\ followed' = [followed EXCEPT ![s] = @ \ TouchedBy(Owed(s))]
    /\ UNCHANGED <<master, writers, updater, sdb, bgKept>>

\* A request whose client has gone may as well never be run.
LoseRequest(s) == \E q \in req[s] :
    /\ ~q.live
    /\ req' = [req EXCEPT ![s] = @ \ {q}]
    /\ UNCHANGED <<master, writers, updater, reply, importer, history, used>>

\* The database of the master refuses to save an item: the slaves enqueueIfInPerimeter has
\* not come to yet get none.  (In a transaction, that is Rollback.)
EnqueueFails(w) ==
    /\ Receivers # {}
    /\ Incident("faults", MaxFaults)
    /\ \E to \in (SUBSET Receivers) \ {Receivers} : Enqueue(w, to)

\* It refuses what a handler saves: the client gets an error 500.  The activity of the slave
\* is set in memory before it is saved, and clearLastSentRange forgets the range before the
\* items are deleted.
HandlerFails(s) == \E q \in req[s] :
    LET sent == FirstItems(queue[s], MaxQueriesNumber)
        cleared == InRange(queue[s], lastSent[s])
    IN
    /\ Incident("faults", MaxFaults)
    /\ Respond(s, q, Reply("failure"))
    /\ \/ /\ q.kind = "poll" /\ q.step = "serving"
          /\ lastSent' = [lastSent EXCEPT ![s] = RangeOf(sent)]
          /\ MarkAsUpToDate(s)
          /\ UNCHANGED <<queue, history>>
       \/ /\ q.kind = "ack" /\ AckedRange(s, q) = lastSent[s]
          /\ lastSent' = [lastSent EXCEPT ![s] = Range0]
          /\ UNCHANGED <<queue, activity, history>>
       \/ /\ q.kind = "ack" /\ AckedRange(s, q) = lastSent[s]
          /\ queue' = [queue EXCEPT ![s] = @ \ cleared]
          /\ lastSent' = [lastSent EXCEPT ![s] = Range0]
          /\ MarkAsUpToDate(s)
          /\ Lose(s, TouchedBy(cleared))
    /\ UNCHANGED <<db, nextId, writers, updater, importer>>

\* It refuses to empty the queue, which ends the dump; or initQueue swallows its exception
\* (when it reads the table, takes an id or saves the items), and the dump goes on without
\* this table.
DumpFails ==
    /\ Incident("faults", MaxFaults)
    /\ \/ bgPc = "delete" /\ bgPc' = "mark" /\ UNCHANGED bgTodo
       \/ /\ bgPc = "dump" /\ bgPc' = "dump"
          /\ \E t \in bgTodo : (\A u \in bgTodo : t <= u) /\ bgTodo' = bgTodo \ {t}
       \/ bgPc = "number" /\ bgPc' = "dump" /\ UNCHANGED bgTodo
    /\ bgLeft' = {} /\ bgItems' = {} /\ bgKept' = {}
    /\ UNCHANGED <<master, writers, bgNextSlave, bgSlave, baseWriter, network, importer,
                   followed>>

\* Mutant: the auto-increment restarts from the greatest id left in the table.
NextIdOnRestart_Max(n) ==
    /\ \A s \in Slaves : \A i \in Stored(s) : i.id <= n
    /\ n = 1 \/ \E s \in Slaves : \E i \in Stored(s) : i.id = n

\* The auto-increment after a restart: one more than the greatest id left in the table.
NextIdOnRestart(n) ==
    /\ \A s \in Slaves : \A i \in Stored(s) : i.id < n
    /\ n = 1 \/ \E s \in Slaves : \E i \in Stored(s) : i.id = n - 1

\* The database of the master, the queue table and the activity reports survive; open
\* transactions, threads, requests and iterators do not.  The queues are loaded again.
MasterRestart ==
    LET connected == {s \in Slaves : spc[s] \in {"polling", "acking"}}
        unqueued  == {wop[w].row : w \in {x \in Writers : wpc[x] = "saved"}}
    IN
    /\ Incident("faults", MaxFaults)
    /\ \E n \in 1..nextId : NextIdOnRestart(n) /\ nextId' = n
    /\ queue' = [s \in Slaves |-> Stored(s)]
    /\ lastSent' = [s \in Slaves |-> Range0]
    /\ wpc' = [w \in Writers |-> "idle"]
    /\ wop' = [w \in Writers |-> IdleOp]
    /\ bgNextSlave' = NoSlave /\ bgPc' = "idle" /\ bgSlave' = NoSlave
    /\ bgTodo' = {} /\ bgLeft' = {} /\ bgItems' = {} /\ bgKept' = {}
    /\ baseWriter' = "free"
    /\ req' = [s \in Slaves |-> {}]
    /\ reply' = [s \in Slaves |-> NoReply]
    /\ spc' = [s \in Slaves |-> IF s \in connected THEN "idle" ELSE spc[s]]
    /\ batch' = [s \in Slaves |-> IF s \in connected THEN {} ELSE batch[s]]
    /\ followed' = [s \in Slaves |-> followed[s] \ (unqueued
                        \cup (IF s \in connected THEN TouchedBy(Owed(s)) ELSE {}))]
    /\ UNCHANGED <<db, activity, sdb>>
-----------------------------------------------------------------------------

WriterStep(w) ==
    \/ \E r \in Rows, v \in Content : Prepare(w, r, v) \/ DirectSave(w, r, v)
    \/ Commit(w) \/ Dispatch(w) \/ Rollback(w) \/ DirectEnqueue(w)

Handler(s) ==
    PollCheck(s) \/ PollHandoff(s) \/ PollServe(s) \/ AckConfirm(s) \/ AckRefuse(s)

Updater ==
    \/ BgTake \/ BgReset \/ BgTest \/ BgCollect \/ BgDelete \/ BgErase
    \/ BgLock \/ BgRead \/ BgNumber \/ BgSave \/ BgDispatch \/ BgUnlock \/ BgMark

Importer(s) ==
    \/ StartPoll(s) \/ ReceiveNothing(s) \/ ReceiveContent(s) \/ SendAck(s)
    \/ ReceiveOK(s) \/ ReceiveError(s) \/ ReceiveFailure(s) \/ ApplyBatch(s)

Next ==
    \/ \E w \in Writers : WriterStep(w)
    \/ \E s \in Slaves : LinkBreak(s) \/ ResetSlave(s)
    \/ \E s \in Slaves : Handler(s)
    \/ Updater
    \/ OtherImportStarts \/ OtherImportEnds
    \/ \E s \in Slaves : Importer(s)
    \/ \E s \in Slaves : ImportFails(s) \/ LoseRequest(s) \/ HandlerFails(s)
    \/ \E w \in Writers : EnqueueFails(w)
    \/ DumpFails
    \/ MasterRestart

Spec == Init /\ [][Next]_vars

\* Every thread runs; a writer that has prepared or saved a row goes on to store its items and
\* to dispatch them, an import that holds baseWriterMutex ends.  Nothing obliges a writer to
\* start, nor the administrator or a fault to act.
Fairness ==
    /\ \A s \in Slaves : WF_vars(Handler(s)) /\ WF_vars(Importer(s))
    /\ WF_vars(Updater)
    /\ WF_vars(OtherImportEnds)
    /\ \A w \in Writers : WF_vars(Commit(w) \/ Dispatch(w) \/ DirectEnqueue(w))

FairSpec == Spec /\ Fairness
-----------------------------------------------------------------------------
(* Properties. *)

RequestType ==
    [kind : {"poll", "ack"}, range : [first : Nat, last : Nat], live : BOOLEAN,
     step : {"arrived", "serving", "handoff"}]

ReplyKinds == {"none", "noContent", "processing", "busy", "content", "OK", "ERROR",
                "failure"}

\* The steps of processFullUpdate and what comes after it.
Processing == {"test", "collect", "delete", "erase", "lock", "dump", "number",
               "dispatch", "mark"}

\* Type of every variable of the master, of the network and of the slaves.
TypeOK ==
    /\ db \in Database
    /\ nextId \in Nat \ {0}
    /\ queue \in [Slaves -> SUBSET Item]
    /\ activity \in [Slaves -> {"never", "recent", "old"}]
    /\ lastSent \in [Slaves -> [first : Nat, last : Nat]]
    /\ wpc \in [Writers -> {"idle", "prepared", "saved", "dispatching"}]
    /\ wop \in [Writers -> [row : Rows, val : Content, id : Nat, to : SUBSET Slaves]]
    /\ bgNextSlave \in Slaves \cup {NoSlave}
    /\ bgPc \in {"idle", "took"} \cup Processing
    /\ bgSlave \in Slaves \cup {NoSlave}
    /\ bgPc \in Processing => bgSlave \in Slaves
    /\ bgTodo \subseteq Tables
    /\ bgLeft \subseteq Statement /\ bgItems \subseteq Item
    /\ baseWriter \in {"free", "updater", "import"}
    /\ req \in [Slaves -> SUBSET RequestType]
    /\ reply \in [Slaves -> [kind : ReplyKinds, items : SUBSET Item]]
    /\ spc \in [Slaves -> {"idle", "polling", "ready", "acking", "applying"}]
    /\ batch \in [Slaves -> SUBSET Item]
    /\ sdb \in [Slaves -> Database]
    /\ followed \in [Slaves -> SUBSET Rows] /\ bgKept \subseteq Rows
    /\ used \in [writes : Nat, breaks : Nat, imports : Nat, faults : Nat]

\* The id of an item is its key in the map of the queue and its position in every range, and
\* id 0 is end(): each id is handed out once, by transactions that still keep theirs to
\* themselves too, whatever a restart makes of the auto-increment.
FreshIds ==
    /\ \A s \in Slaves :
        LET items == queue[s] \cup BgItems(s, Processing) IN
        /\ \A i \in items : 0 < i.id /\ i.id < nextId /\ \A j \in items : i.id = j.id => i = j
        /\ BgItems(s, {"number", "dispatch"}) \cap queue[s] = {}
        /\ \A w \in Writers : s \in wop[w].to =>
            /\ 0 < wop[w].id /\ wop[w].id < nextId
            /\ \A i \in items : i.id # wop[w].id
            /\ \A x \in Writers \ {w} : s \in wop[x].to => wop[x].id # wop[w].id

\* What the queue, the ranges and the acknowledgements are for: on a row of which no
\* modification was dropped, overtaken, sent after a later one, removed unsent or lost with
\* its batch since the last dump, applying what it has been handed then what the queue table
\* holds for it brings the slave to the content of the master.
FollowedRowsConverge ==
    \A s \in Slaves : \A r \in followed[s] :
        Settled(r) => Expected(s)[r] = db[r]

\* No link has broken, no attempt failed, and the master has kept running.
NoIncident == used'.breaks = 0 /\ used'.faults = 0

\* Without incident, an acknowledgement (clearLastSentRange) removes from the queue exactly
\* the items its importer received and is about to apply, when one writer fills the queue.
AckClearsWhatWasSent ==
    [][\A s \in Slaves :
        NoIncident /\ reply[s].kind # "OK" /\ reply'[s].kind = "OK" =>
            queue[s] \ queue'[s] = batch[s]]_vars

\* The slaves the modification of a writer is queued for: those that were not obsolete when it
\* was formatted, in a transaction, or that are not when it is queued, without one.
QueuedFor(w) == IF wpc[w] = "saved" THEN Receivers ELSE wop[w].to

\* A modification is committed, or the items of one without transaction saved.
Modifies(w) == wpc[w] \in {"prepared", "saved"} /\ wpc'[w] \in {"dispatching", "idle"}

\* Without incident, a slave stops following a row only by a modification decided while the
\* master still took that slave for obsolete (enqueue returns at once).
OnlyObsoleteSlavesMissWrites ==
    [][\A s \in Slaves : \A r \in followed[s] \ followed'[s] :
        NoIncident =>
            \E w \in Writers :
                Modifies(w) /\ wop[w].row = r /\ s \notin QueuedFor(w)]_vars

\* A slave that is served and follows a row holds in the end the content the master has.
FollowersCatchUp ==
    \A s \in Slaves : \A r \in Rows :
        <>[](~IsObsolete(s) /\ r \in followed[s] => sdb[s][r] = db[r])

\* As long as a slave is served, each item queued for it leaves the queue.
QueuesDrain == \A s \in Slaves : []<>(queue[s] = {} \/ IsObsolete(s))

\* Each slave the master has never heard of ends up with a queue of its own, whatever
\* handlers and background updater do to the unprotected bgNextSlave.
NewSlavesAreAdopted ==
    \A s \in Slaves : activity[s] = "never" ~> activity[s] = "recent"

\* A failed attempt costs a slave nothing it would have got otherwise
\* (InterSYNTHESESlaveUpdateService.cpp: no full update is needed then).
FailedAttemptLosesNothing ==
    [][\A s \in Slaves :
        spc[s] # "idle" /\ spc'[s] = "idle" /\ used'.faults # used.faults =>
            Expected(s)' = Expected(s)]_vars

\* A slave that has been told its initial dump is being processed is considered up to date
\* only once that dump is in its queue.
NoUpToDateWithoutDump ==
    [][\A s \in Slaves :
        activity[s] = "never" /\ activity'[s] = "recent" => followed'[s] = Rows]_vars
=============================================================================
