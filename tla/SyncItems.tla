------------------------------ MODULE SyncItems ------------------------------
(***************************************************************************)
(* The items an Inter-SYNTHESE master queues for its slaves, and what a    *)
(* set of them does to a slave's database.  An item is the row id of the   *)
(* queue table (the order in which a slave applies items), the rows the    *)
(* SQL statement touches and the content it gives them: a "rstmt" item     *)
(* touches one row, a "dstmt" item removes one row, and the "DELETE FROM"  *)
(* that opens a dump removes every row of a table.                         *)
(***************************************************************************)
EXTENDS Naturals, FiniteSets

CONSTANTS Rows,   \* keys of the replicated rows (registry keys, ordered as in a SELECT)
          Vals,   \* contents a row can have
          NoVal   \* the row is not in the table

ASSUME RowsAssumption == Rows \subseteq Nat /\ IsFiniteSet(Rows)
ASSUME ValsAssumption == NoVal \notin Vals

Content == Vals \cup {NoVal}

Item == [id : Nat, rows : SUBSET Rows, val : Content]

\* The database content of one SYNTHESE instance, restricted to the synchronized tables.
Database == [Rows -> Content]

Touching(items, r) == {i \in items : r \in i.rows}

TouchedBy(items) == {r \in Rows : Touching(items, r) # {}}

Newest(items) == CHOOSE i \in items : \A j \in items : j.id <= i.id

\* Content of row r once `items` have been run, in the order of their ids, over content `old`.
After(items, r, old) ==
    IF Touching(items, r) = {} THEN old ELSE Newest(Touching(items, r)).val

\* _read applies the received map in the order of its keys, in one transaction.
Apply(items, base) == [r \in Rows |-> After(items, r, base[r])]

-----------------------------------------------------------------------------
(* Ranges of a queue.  0 stands for the iterator _queue.end(). *)

Range0 == [first |-> 0, last |-> 0]

Ids(items) == {i.id : i \in items}

\* Mutant: the n items queued last.
FirstItems_Last(items, n) ==
    {i \in items : Cardinality({j \in items : j.id >= i.id}) <= n}

\* The n items of least id: the items getQueueRange designates.
FirstItems(items, n) ==
    {i \in items : Cardinality({j \in items : j.id <= i.id}) <= n}

\* The iterators on the least and the greatest id of `items`.
RangeOf(items) ==
    IF items = {} THEN Range0
    ELSE [first |-> CHOOSE x \in Ids(items) : \A y \in Ids(items) : x <= y,
          last  |-> CHOOSE x \in Ids(items) : \A y \in Ids(items) : y <= x]

\* std::map::find: the iterator on the id, or end().
Find(items, id) == IF id \in Ids(items) THEN id ELSE 0

\* Mutant: the loop of clearLastSentRange does not stop on the last item of the range.
InRange_ToTheEnd(items, range) ==
    IF range.first = 0 THEN {} ELSE {i \in items : range.first <= i.id}

\* The items clearLastSentRange goes through.
InRange(items, range) ==
    IF range.first = 0 THEN {}
    ELSE {i \in items : range.first <= i.id /\ i.id <= range.last}

-----------------------------------------------------------------------------
(* The statements initQueue builds for one table. *)

Statement == [rows : SUBSET Rows, val : Content]

\* "DELETE FROM table", but for a multimaster dump, and one "rstmt" per row found.
DumpStatements(rows, content, withClear) ==
    (IF withClear THEN {[rows |-> rows, val |-> NoVal]} ELSE {})
    \cup {[rows |-> {r}, val |-> content[r]] : r \in {q \in rows : content[q] # NoVal}}

\* Their order: the "DELETE" first, then the rows by their keys.
IsFirst(st, statements) ==
    IF \E d \in statements : d.val = NoVal THEN st.val = NoVal
    ELSE \A o \in statements : \A r \in st.rows, q \in o.rows : r <= q
=============================================================================
