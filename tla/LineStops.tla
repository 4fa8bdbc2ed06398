----------------------------- MODULE LineStops ------------------------------
(***************************************************************************)
(* The stops of a line: their rows, whose ranks the actions on the line    *)
(* shift by UPDATE statements, and the path of their objects in memory,    *)
(* changed by the events those actions dispatch one by one.  The stops are *)
(* designated stops of one journey pattern without copies.                 *)
(***************************************************************************)
EXTENDS PathLinks, Sequences

CONSTANTS Threads,
          Kinds,          \* sets of traits a row may have
          MaxOperations   \* bound: operations started

ASSUME KindsAssumption == Kinds \subseteq SUBSET Traits
ASSUME MaxOperationsAssumption == MaxOperations \in Nat

VARIABLES
    rows,        \* rank and traits of each stop in the table
    registered,  \* stops that have an object
    path,        \* the journey pattern
    op,          \* operation of each thread, up to its transaction
    pending,     \* events a thread has still to dispatch
    unloaded,    \* rows the first synchronization has still to load
    astray,      \* history variable, see Commit
    past         \* history variable: number and kinds of the operations, and whether two
                 \* threads were ever at work together

vars == <<rows, registered, path, op, pending, unloaded, astray, past>>

Stops == Edges
Row == [rank : Nat, traits : Kinds]
NoRow == [rank |-> 0, traits |-> {"none"}]

Event == [kind : {"insert", "update", "delete"}, stops : SUBSET Stops]

Operation ==
    [kind : {"none", "insertion", "removal", "update"}, stop : Stops \cup {NoEdge},
     row : Row \cup {NoRow}, prev : Stops \cup {NoEdge}, prevRow : Row \cup {NoRow},
     last : Nat \cup {NoRank}, todo : SUBSET Int, events : Seq(Event)]

NoOp == [kind |-> "none", stop |-> NoEdge, row |-> NoRow, prev |-> NoEdge, prevRow |-> NoRow,
         last |-> NoRank, todo |-> {}, events |-> <<>>]

Present == {s \in Stops : rows[s] # NoRow}
RankOf(s) == rows[s].rank
Ranked(r) == {s \in Present : RankOf(s) = r}

Told(events) == UNION {events[i].stops : i \in DOMAIN events}

PendingAbout(s) == s \in unloaded \/ \E t \in Threads : s \in Told(pending[t])

\* The server starts on a table whose ranks are those of a line.
Init ==
    /\ rows \in [Stops -> [rank : 0 .. Cardinality(Stops) - 1, traits : Kinds] \cup {NoRow}]
    /\ \A s \in Present : RankOf(s) < Cardinality(Present)
    /\ \A s, x \in Present : RankOf(s) = RankOf(x) => s = x
    /\ registered = {}
    /\ path = EmptyPath
    /\ op = [t \in Threads |-> NoOp]
    /\ pending = [t \in Threads |-> <<>>]
    /\ unloaded = Present
    /\ astray = {}
    /\ past = [started |-> 0, kinds |-> {}, overlap |-> FALSE]

-----------------------------------------------------------------------------
(* Operations: what an action reads before its transaction runs. *)

Idle(t) == op[t] = NoOp /\ pending[t] = <<>>

Start(t, operation) ==
    /\ unloaded = {}
    /\ Idle(t)
    /\ past.started < MaxOperations
    /\ past' = [started |-> past.started + 1, kinds |-> past.kinds \cup {operation.kind},
                overlap |-> past.overlap \/ \E u \in Threads : ~Idle(u)]
    /\ op' = [op EXCEPT ![t] = operation]
    /\ UNCHANGED <<rows, registered, path, pending, unloaded, astray>>

\* The rank of the last edge of the line that an action has loaded.
LastRanks == IF Present = {} THEN {NoRank}
             ELSE {r \in {RankOf(s) : s \in Present} : \A x \in Present : RankOf(x) <= r}

\* LineStopAddAction: the line is loaded; the ranks from the last one to that of the new
\* stop are to be shifted.
StartInsertion(t) ==
    \E s \in Stops \ Present, k \in Kinds, r \in 0 .. Cardinality(Present), last \in LastRanks :
        /\ \A u \in Threads : op[u].stop # s
        /\ ~PendingAbout(s)
        /\ Start(t, [NoOp EXCEPT !.kind = "insertion", !.stop = s,
                                 !.row = [rank |-> r, traits |-> k],
                                 !.last = last, !.todo = r .. last])

\* DBTableSyncTemplate::Remove: deleteStmt, then AfterDelete reads the stop again: the
\* ranks above its own are to be shifted by one statement.
StartRemoval(t) ==
    \E s \in Present :
        Start(t, [NoOp EXCEPT !.kind = "removal", !.stop = s, !.row = rows[s],
                              !.todo = {RankOf(s) + 1},
                              !.events = <<[kind |-> "delete", stops |-> {s}]>>])

\* The stop before s, which LineStopUpdateAction saves too; it gives up looking for it
\* when two rows have one rank.
PreviousStops(s) ==
    LET before == {x \in Present : RankOf(x) + 1 = RankOf(s)}
    IN  IF before = {} THEN {NoEdge}
        ELSE before \cup {x \in {NoEdge} : \E y, z \in Present : y # z /\ RankOf(y) = RankOf(z)}

\* LineStopUpdateAction: the stop and the one before are loaded, to be saved as they are
\* but for the traits of the stop.
StartUpdate(t) ==
    \E s \in Present, k \in Kinds : \E x \in PreviousStops(s) :
        Start(t, [NoOp EXCEPT !.kind = "update", !.stop = s,
                              !.row = [rows[s] EXCEPT !.traits = k],
                              !.prev = x, !.prevRow = IF x = NoEdge THEN NoRow ELSE rows[x],
                              !.events = (IF x = NoEdge THEN <<>>
                                          ELSE <<[kind |-> "insert", stops |-> {x}]>>)
                                         \o <<[kind |-> "insert", stops |-> {s}]>>])

\* Mutant: the ranks are shifted from the first one on.
NextShift_First(todo) == CHOOSE r \in todo : \A x \in todo : r <= x

\* InsertStop shifts the last rank first.
NextShift(todo) == CHOOSE r \in todo : \A x \in todo : x <= r

\* UpdateQuery::execute: the rows that the statement will update are selected at once,
\* outside of the transaction; an event is added for each of them, unless it has one.
SelectShifted(t) ==
    LET o == op[t]
        r == NextShift(o.todo)
        hit == IF o.kind = "insertion" THEN Ranked(r) ELSE {s \in Present : RankOf(s) >= r}
    IN
    /\ o.todo # {}
    /\ op' = [op EXCEPT ![t].todo = @ \ {r},
                        ![t].events = Append(@, [kind |-> "update", stops |-> hit \ Told(@)])]
    /\ UNCHANGED <<rows, registered, path, pending, unloaded, astray, past>>

-----------------------------------------------------------------------------
(* Transactions. *)

Shifted(row, delta) == [row EXCEPT !.rank = @ + delta]

\* The rows once the statements of the operation have run.
ResultOf(o) ==
    CASE o.kind = "insertion" ->
            [s \in Stops |->
                IF s = o.stop THEN o.row
                ELSE IF s \in Present /\ RankOf(s) \in o.row.rank .. o.last
                     THEN Shifted(rows[s], 1) ELSE rows[s]]
      [] o.kind = "removal" ->
            [s \in Stops |->
                IF s = o.stop THEN NoRow
                ELSE IF s \in Present /\ RankOf(s) > o.row.rank
                     THEN Shifted(rows[s], -1) ELSE rows[s]]
      [] OTHER ->
            [s \in Stops |->
                IF s = o.stop THEN o.row ELSE IF s = o.prev THEN o.prevRow ELSE rows[s]]

EventsOf(o) ==
    IF o.kind = "insertion"
    THEN Append(o.events, [kind |-> "insert", stops |-> {o.stop}]) ELSE o.events

\* `astray` is a history variable: the stops of which the memory is not expected to show
\* the row.  Here, those the UPDATE touches without an event, because they got their rank
\* after the SELECT; see Reload, Unload and Thrown for the others.
Commit(t) ==
    LET o == op[t]
        new == ResultOf(o)
    IN
    /\ o # NoOp /\ o.todo = {}
    /\ rows' = new
    /\ pending' = [pending EXCEPT ![t] = EventsOf(o)]
    /\ op' = [op EXCEPT ![t] = NoOp]
    /\ astray' = astray \cup {s \in Stops : new[s] # rows[s] /\ s \notin Told(EventsOf(o))}
    /\ UNCHANGED <<registered, path, unloaded, past>>

-----------------------------------------------------------------------------
(* Events (FullSynchronizationPolicy).  SQL leaves the order of the rows of one SELECT,  *)
(* hence of the events of one UPDATE, open.                                              *)

Dispatched(t, s) ==
    LET rest == [Head(pending[t]) EXCEPT !.stops = @ \ {s}]
    IN  pending' = [pending EXCEPT ![t] =
                        (IF rest.stops = {} THEN <<>> ELSE <<rest>>) \o Tail(pending[t])]

\* The next event that t dispatches is of this kind, about s.
Dispatches(t, kind, s) ==
    /\ pending[t] # <<>>
    /\ Head(pending[t]).kind = kind
    /\ s \in Head(pending[t]).stops
    /\ Dispatched(t, s)
    /\ UNCHANGED <<rows, op, unloaded, past>>

\* An UPDATE that selected nothing has no event.
SkipEmpty(t) ==
    /\ pending[t] # <<>> /\ Head(pending[t]).stops = {}
    /\ pending' = [pending EXCEPT ![t] = Tail(@)]
    /\ UNCHANGED <<rows, registered, path, op, unloaded, astray, past>>

\* The object of s is destroyed: it leaves the path (~DesignatedLinePhysicalStop), and its
\* pointers are gone with it.
Destroyed(p, s) ==
    [RemoveEdge(p, s) EXCEPT
        !.previous[s] = NoEdge, !.next[s] = NoEdge,
        !.chain = [c \in Chains |-> [@[c] EXCEPT ![s] = NoEdge]]]

\* Stops other than s that removeEdge threw out of the path, being the only ones there.
Thrown(p, s) == path.edges \ (p.edges \cup {s})

\* loadFromRecord: the row as it is now.
WithRow(p, s) == [p EXCEPT !.rank[s] = RankOf(s), !.traits[s] = rows[s].traits]

\* Unlink if there is an object, Load, link.  If addEdge throws, the object is dropped.
Reload(s) ==
    LET unlinked == IF s \in registered THEN RemoveEdge(path, s) ELSE path
        loaded == WithRow(unlinked, s)
        dropped == RankTaken(loaded, s)
        new == IF dropped THEN Destroyed(loaded, s) ELSE AddEdge(loaded, s)
    IN
    /\ path' = new
    /\ registered' = IF dropped THEN registered \ {s} ELSE registered \cup {s}
    /\ astray' = Thrown(new, s) \cup (IF dropped THEN astray \cup {s} ELSE astray \ {s})

\* _FirstSync, before the server has any other thread: RowsAdded on all rows.
FirstSync ==
    \E s \in unloaded :
        /\ unloaded' = unloaded \ {s}
        /\ Reload(s)
        /\ UNCHANGED <<rows, op, pending, past>>

\* RowsAdded: nothing if getRow finds no row.
DispatchInsert(t) ==
    \E s \in Stops :
        /\ Dispatches(t, "insert", s)
        /\ IF s \in Present THEN Reload(s) ELSE UNCHANGED <<registered, path, astray>>

\* Mutant: a row that has changed is loaded, not linked again.
DispatchUpdate_NoLink(t) ==
    \E s \in Stops :
        /\ Dispatches(t, "update", s)
        /\ path' = IF s \in Present \cap registered
                   THEN WithRow(RemoveEdge(path, s), s) ELSE path
        /\ UNCHANGED <<registered, astray>>

\* RowsUpdated: nothing either if the stop has no object.
DispatchUpdate(t) ==
    \E s \in Stops :
        /\ Dispatches(t, "update", s)
        /\ IF s \in Present \cap registered THEN Reload(s)
           ELSE UNCHANGED <<registered, path, astray>>

\* Mutant: the object is destroyed where it is.
Unload_NoUnlink(s) ==
    /\ registered' = registered \ {s}
    /\ UNCHANGED <<path, astray>>

\* RowsRemoved: unlink, then the object is destroyed.  The row may have come back.
Unload(s) ==
    LET new == Destroyed(RemoveEdge(path, s), s) IN
    /\ path' = new
    /\ registered' = registered \ {s}
    /\ astray' = Thrown(new, s) \cup (IF s \in Present THEN astray \cup {s} ELSE astray \ {s})

DispatchDelete(t) ==
    \E s \in Stops :
        /\ Dispatches(t, "delete", s)
        /\ IF s \in registered THEN Unload(s) ELSE UNCHANGED <<registered, path, astray>>

-----------------------------------------------------------------------------

Act(t) == StartInsertion(t) \/ StartRemoval(t) \/ StartUpdate(t) \/ SelectShifted(t) \/ Commit(t)

Dispatch(t) == SkipEmpty(t) \/ DispatchInsert(t) \/ DispatchUpdate(t) \/ DispatchDelete(t)

Next == FirstSync \/ \E t \in Threads : Act(t) \/ Dispatch(t)

Spec == Init /\ [][Next]_vars

-----------------------------------------------------------------------------
(* Properties. *)

\* Type of every variable.
TypeOK ==
    /\ rows \in [Stops -> Row \cup {NoRow}]
    /\ registered \subseteq Stops
    /\ path \in PathType
    /\ path.edges \subseteq registered
    /\ op \in [Threads -> Operation]
    /\ pending \in [Threads -> Seq(Event)]
    /\ unloaded \subseteq Stops
    /\ astray \subseteq Stops
    /\ past \in [started : Nat, kinds : SUBSET {"insertion", "removal", "update"}, overlap : BOOLEAN]

\* Path.h: "All the pointer links necessary to the graph exploration are created", "the
\* order of addEdge calls can be random".  Whatever was added, removed, reloaded, dropped
\* or thrown out, in whatever order, every pointer of the path leads where a planner that
\* walked the edges one by one would get.
LinksFollowThePath == LinksOK(path)

\* Path.h on _rankMap, "saves the first edge at each metric offset": the real time actions
\* that name a stop by its offset find it, unless the path was emptied or its offsets
\* decreased meanwhile (`unsure`).
OffsetsFindTheFirstEdge == OffsetsOK(path)

\* Once the events about a stop have been dispatched the path holds the stop at the rank,
\* and with the traits, of its row; a stop without row is not in it.
PathMirrorsRows ==
    \A s \in Stops \ astray : ~PendingAbout(s) =>
        IF s \in Present
        THEN /\ s \in path.edges
             /\ [rank |-> path.rank[s], traits |-> path.traits[s]] = rows[s]
        ELSE s \notin path.edges

\* InsertStop shifts the ranks from the last to the first, so that no stop ever finds its
\* new rank taken: insertions and updates that come one after the other never drop a stop
\* from memory, nor leave one at a rank that is not its own.
SerialInsertionsLoseNothing == ~past.overlap /\ "removal" \notin past.kinds => astray = {}
=============================================================================
