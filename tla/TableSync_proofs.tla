-------------------------- MODULE TableSync_proofs --------------------------
(***************************************************************************)
(* Theorems about TableSync, for every set of threads, rows and contents,  *)
(* both synchronization policies, both backends and every bound.           *)
(***************************************************************************)
EXTENDS TableSync, NatLemmas

TransactionType == [queries : Seq(Statement), events : Seq(Event), modified : SUBSET Rows]

HasEvent(events, r) == \E e \in EventsIn(events) : e.row = r

Ins(r) == [kind |-> "insert", row |-> r]
Del(r) == [kind |-> "delete", row |-> r]

\* The holder of the mutex is dispatching an insertion.
LockInv ==
    \A t \in Threads : tableLock = t => pending[t] # <<>> /\ Event1(t).kind = "insert"

\* A statement of a transaction is the raw deletion, or is on one row, for which the
\* transaction has an event; so has every row in its set of modified rows.
QueriesInv(x) ==
    /\ \A i \in DOMAIN x.queries :
        \/ x.queries[i].val = NoVal
        \/ \E r \in Rows : x.queries[i].rows = {r} /\ HasEvent(x.events, r)
    /\ \A r \in x.modified : HasEvent(x.events, r)

TransactionsInv == \A t \in Threads : QueriesInv(tx[t])

TInv == TypeOK /\ LockInv /\ TransactionsInv

\* An event is still to be dispatched.
IsPending(e) == \E t \in Threads : e \in EventsIn(pending[t])

\* The same, once thread t has dispatched its first event.
StaysPending(t, e) ==
    \/ \E u \in Threads \ {t} : e \in EventsIn(pending[u])
    \/ e \in EventsIn(Tail(pending[t]))

\* What makes the object of a row right in the end: as long as it is not, the event that
\* will repair it is pending, and no pending deletion is about to remove a row's object.
RowInv(r) ==
    /\ db[r] # NoVal => ~IsPending(Del(r))
    /\ db[r] = NoVal /\ objects[r] # NoVal => IsPending(Del(r))
    /\ db[r] # NoVal /\ objects[r] # Image(db[r]) => IsPending(Ins(r))
    /\ \A t \in Threads :
        tableLock = t /\ Event1(t).row = r /\ row[t] # db[r] =>
            StaysPending(t, IF db[r] = NoVal THEN Del(r) ELSE Ins(r))

\* The inductive invariant behind EnvMirrorsDb.
MInv ==
    ~Conditional => rpc = "idle" /\ \A r \in Rows \ contended : RowInv(r)

IInv == TInv /\ MInv

-----------------------------------------------------------------------------
(* Sequences of events. *)

LEMMA AppendedEvents ==
    ASSUME NEW s \in Seq(Event), NEW e \in Event
    PROVE  /\ Append(s, e) \in Seq(Event)
           /\ e \in EventsIn(Append(s, e))
           /\ EventsIn(s) \subseteq EventsIn(Append(s, e))
<1>1. Append(s, e) \in Seq(Event) /\ Len(Append(s, e)) = Len(s) + 1
    OBVIOUS
<1>2. Append(s, e)[Len(s) + 1] = e /\ \A i \in 1..Len(s) : Append(s, e)[i] = s[i]
    OBVIOUS
<1>3. DOMAIN s = 1..Len(s) /\ DOMAIN Append(s, e) = 1..(Len(s) + 1)
    BY <1>1
<1>4. Len(s) \in Nat
    OBVIOUS
<1>5. e \in EventsIn(Append(s, e))
    BY <1>2, <1>3, <1>4 DEF EventsIn
<1>6. ASSUME NEW i \in DOMAIN s PROVE s[i] \in EventsIn(Append(s, e))
    BY <1>2, <1>3, <1>4 DEF EventsIn
<1> QED BY <1>1, <1>5, <1>6 DEF EventsIn

\* The events of a sequence are its first one and those of its tail.
LEMMA HeadAndTail ==
    ASSUME NEW s \in Seq(Event), s # <<>>
    PROVE  /\ Head(s) \in Event
           /\ Tail(s) \in Seq(Event)
           /\ EventsIn(s) = {Head(s)} \cup EventsIn(Tail(s))
<1>1. Len(s) \in Nat /\ Len(s) > 0 /\ DOMAIN s = 1..Len(s)
    OBVIOUS
<1>2. Head(s) = s[1] /\ Head(s) \in Event
    BY <1>1
<1>3. /\ Tail(s) \in Seq(Event) /\ Len(Tail(s)) = Len(s) - 1
      /\ \A i \in 1..(Len(s) - 1) : Tail(s)[i] = s[i + 1]
    BY <1>1
<1>4. DOMAIN Tail(s) = 1..(Len(s) - 1)
    BY <1>3
<1>5. ASSUME NEW i \in DOMAIN s PROVE s[i] \in {Head(s)} \cup EventsIn(Tail(s))
  <2>1. CASE i = 1
      BY <2>1, <1>2
  <2>2. CASE i # 1
    <3>1. i - 1 \in 1..(Len(s) - 1) /\ Tail(s)[i - 1] = s[i]
        BY <2>2, <1>1, <1>3, <1>5
    <3> QED BY <3>1, <1>4 DEF EventsIn
  <2> QED BY <2>1, <2>2
<1>6. ASSUME NEW i \in DOMAIN Tail(s) PROVE Tail(s)[i] \in EventsIn(s)
  <2>1. i + 1 \in DOMAIN s /\ Tail(s)[i] = s[i + 1]
      BY <1>1, <1>3, <1>4, <1>6
  <2> QED BY <2>1 DEF EventsIn
<1>7. Head(s) \in EventsIn(s)
    BY <1>1, <1>2 DEF EventsIn
<1> QED BY <1>2, <1>3, <1>5, <1>6, <1>7 DEF EventsIn

LEMMA NoEvents == EventsIn(<<>>) = {}
BY DEF EventsIn

-----------------------------------------------------------------------------
(* What a transaction does to a row. *)

\* The content a transaction leaves in a row is that of one of its statements, or the old one.
LEMMA ResultOfQueries ==
    ASSUME NEW queries \in Seq(Statement), NEW r \in Rows, NEW old
    PROVE  \/ Result(queries, r, old) = old
           \/ \E i \in DOMAIN queries :
                r \in queries[i].rows /\ Result(queries, r, old) = queries[i].val
<1> DEFINE on == {i \in DOMAIN queries : r \in queries[i].rows}
           last == CHOOSE i \in on : \A j \in on : j <= i
<1>1. CASE on = {}
    BY <1>1 DEF Result
<1>2. CASE on # {}
  <2>1. Len(queries) \in Nat /\ DOMAIN queries = 1..Len(queries)
      OBVIOUS
  <2>2. on \in SUBSET Nat /\ \A i \in on : i < Len(queries) + 1
      BY <2>1
  <2>3. \E i \in on : \A j \in on : j <= i
    <3> HIDE DEF on
    <3>1. Len(queries) + 1 \in Nat
        BY <2>1
    <3> QED BY <3>1, <2>2, <1>2, GreatestElement
  <2>4. last \in on
      BY <2>3
  <2>5. Result(queries, r, old) = queries[last].val
      BY <1>2 DEF Result
  <2> QED BY <2>4, <2>5
<1> QED BY <1>1, <1>2

\* A transaction that changes a row and leaves it in the table has an event on it.
LEMMA ChangeHasEvent ==
    ASSUME NEW x \in TransactionType, QueriesInv(x), NEW r \in Rows, NEW old,
           Result(x.queries, r, old) # old, Result(x.queries, r, old) # NoVal
    PROVE  HasEvent(x.events, r)
<1>1. PICK i \in DOMAIN x.queries :
        r \in x.queries[i].rows /\ Result(x.queries, r, old) = x.queries[i].val
    BY ResultOfQueries DEF TransactionType
<1>2. PICK q \in Rows : x.queries[i].rows = {q} /\ HasEvent(x.events, q)
    BY <1>1 DEF QueriesInv
<1> QED BY <1>1, <1>2

LEMMA ResultType ==
    ASSUME NEW queries \in Seq(Statement), NEW r \in Rows, NEW old \in Content
    PROVE  Result(queries, r, old) \in Content
<1>1. CASE Result(queries, r, old) = old
    BY <1>1
<1>2. CASE \E i \in DOMAIN queries : Result(queries, r, old) = queries[i].val
  <2>1. PICK i \in DOMAIN queries : Result(queries, r, old) = queries[i].val
      BY <1>2
  <2>2. queries[i] \in Statement
      OBVIOUS
  <2>3. queries[i].val \in Content
      BY <2>2 DEF Statement
  <2> QED BY <2>1, <2>3
<1> QED BY <1>1, <1>2, ResultOfQueries

LEMMA NewTransactionInv ==
    NewTransaction \in TransactionType /\ QueriesInv(NewTransaction)
BY DEF NewTransaction, TransactionType, QueriesInv, Statement, Event

LEMMA ImageType ==
    ASSUME TypeOK, NEW v \in Content
    PROVE  Image(v) \in Content /\ Image(NoVal) = NoVal
BY NoValAssumption DEF TypeOK, Image, Content

\* The bounds count steps.
LEMMA SpendType ==
    ASSUME TypeOK, NEW what \in {"statements", "ticks", "failures"}, NEW bound,
           Spend(what, bound)
    PROVE  used' \in [statements : Nat, ticks : Nat, failures : Nat]
<1> DEFINE F == [statements : Nat, ticks : Nat, failures : Nat]
<1>1. used \in F /\ used' = [used EXCEPT ![what] = used[what] + 1]
    BY DEF TypeOK, Spend
<1>2. used[what] \in Nat
    BY <1>1
<1>3. \A n \in Nat : [used EXCEPT ![what] = n] \in F
    BY <1>1
<1> QED BY <1>1, <1>2, <1>3

-----------------------------------------------------------------------------
(* Types, the mutex and the transactions. *)

LEMMA InitTInv == Init => TInv
<1> SUFFICES ASSUME Init PROVE TInv
    OBVIOUS
<1>1. tx \in [Threads -> TransactionType] /\ TransactionsInv
    BY NewTransactionInv DEF Init, TransactionsInv
<1>2. objects \in [Rows -> Content]
    BY DEF Init, Image, Content
<1>3. pending \in [Threads -> Seq(Event)]
    BY DEF Init
<1>4. TypeOK
    BY <1>1, <1>2, <1>3 DEF Init, TypeOK, TransactionType, Content
<1>5. LockInv
    BY NoThreadAssumption DEF Init, LockInv
<1> QED BY <1>1, <1>4, <1>5 DEF TInv

\* A transaction that is being filled is no concern of the other threads.
LEMMA TransactionFilled ==
    ASSUME TInv, NEW t \in Threads, NEW x \in TransactionType, QueriesInv(x),
           tx' = [tx EXCEPT ![t] = x],
           used' \in [statements : Nat, ticks : Nat, failures : Nat],
           UNCHANGED <<db, objects, loadable, pending, tableLock, row, maintainer, contended>>
    PROVE  TInv'
<1>1. tx' \in [Threads -> TransactionType] /\ TransactionsInv'
    BY DEF TInv, TypeOK, TransactionType, TransactionsInv
<1>2. TypeOK'
    BY <1>1 DEF TInv, TypeOK, TransactionType, maintainer
<1>3. LockInv'
    BY DEF TInv, LockInv, Event1
<1> QED BY <1>1, <1>2, <1>3 DEF TInv

LEMMA AddStatementInv ==
    ASSUME TInv, NEW t \in Threads, NEW r \in Rows, NEW v \in Content, AddStatement(t, r, v)
    PROVE  TInv'
<1> DEFINE e == [kind |-> KindOf(v), row |-> r]
           q == [rows |-> {r}, val |-> v]
           old == tx[t]
           new == [queries  |-> Append(old.queries, q),
                   events   |-> AddEvent(t, e),
                   modified |-> old.modified \cup {r}]
<1>1. old \in TransactionType /\ QueriesInv(old)
    BY DEF TInv, TypeOK, TransactionType, TransactionsInv
<1>2. e \in Event /\ q \in Statement
    BY DEF KindOf, Event, Statement
<1>3. /\ AddEvent(t, e) \in Seq(Event)
      /\ EventsIn(old.events) \subseteq EventsIn(AddEvent(t, e))
      /\ HasEvent(AddEvent(t, e), r)
  <2>1. old.events \in Seq(Event)
      BY <1>1 DEF TransactionType
  <2>2. CASE r \in old.modified
      BY <2>1, <2>2, <1>1 DEF AddEvent, QueriesInv
  <2>3. CASE r \notin old.modified
    <3>1. AddEvent(t, e) = Append(old.events, e)
        BY <2>3 DEF AddEvent
    <3>2. e \in EventsIn(AddEvent(t, e)) /\ e.row = r
        BY <2>1, <1>2, <3>1, AppendedEvents
    <3> QED BY <2>1, <1>2, <3>1, <3>2, AppendedEvents DEF HasEvent
  <2> QED BY <2>2, <2>3
<1>4. /\ new.queries \in Seq(Statement)
      /\ \A i \in DOMAIN new.queries : new.queries[i] = q \/ \E j \in DOMAIN old.queries : new.queries[i] = old.queries[j]
    BY <1>1, <1>2 DEF TransactionType
<1>5. new \in TransactionType
    BY <1>1, <1>3, <1>4 DEF TransactionType
<1>6. QueriesInv(new)
  <2>1. \A p : HasEvent(old.events, p) => HasEvent(new.events, p)
      BY <1>3 DEF HasEvent
  <2>2. ASSUME NEW i \in DOMAIN new.queries
        PROVE  \/ new.queries[i].val = NoVal
               \/ \E p \in Rows : new.queries[i].rows = {p} /\ HasEvent(new.events, p)
    <3>1. CASE new.queries[i] = q
        BY <3>1, <1>3
    <3>2. CASE \E j \in DOMAIN old.queries : new.queries[i] = old.queries[j]
        BY <3>2, <1>1, <2>1 DEF QueriesInv
    <3> QED BY <3>1, <3>2, <1>4
  <2>3. \A p \in new.modified : HasEvent(new.events, p)
      BY <1>1, <1>3, <2>1 DEF QueriesInv
  <2> QED BY <2>2, <2>3 DEF QueriesInv
<1>7. tx' = [tx EXCEPT ![t] = new]
    BY DEF AddStatement
<1>8. used' \in [statements : Nat, ticks : Nat, failures : Nat]
    BY SpendType DEF TInv, AddStatement
<1> HIDE DEF new
<1> QED BY <1>5, <1>6, <1>7, <1>8, TransactionFilled DEF AddStatement

LEMMA AddRawDeleteInv ==
    ASSUME TInv, NEW t \in Threads, AddRawDelete(t)
    PROVE  TInv'
<1> DEFINE q == [rows |-> Rows, val |-> NoVal]
           old == tx[t]
           new == [old EXCEPT !.queries = Append(old.queries, q)]
<1>1. old \in TransactionType /\ QueriesInv(old) /\ q \in Statement
    BY DEF TInv, TypeOK, TransactionType, TransactionsInv, Statement, Content
<1>2. /\ new.queries \in Seq(Statement) /\ new.events = old.events
      /\ new.modified = old.modified
      /\ \A i \in DOMAIN new.queries : new.queries[i] = q \/ \E j \in DOMAIN old.queries : new.queries[i] = old.queries[j]
    BY <1>1 DEF TransactionType
<1>3. new \in TransactionType
    BY <1>1, <1>2 DEF TransactionType
<1>4. QueriesInv(new)
  <2>1. ASSUME NEW i \in DOMAIN new.queries
        PROVE  \/ new.queries[i].val = NoVal
               \/ \E p \in Rows : new.queries[i].rows = {p} /\ HasEvent(new.events, p)
    <3>1. CASE new.queries[i] = q
        BY <3>1
    <3>2. CASE \E j \in DOMAIN old.queries : new.queries[i] = old.queries[j]
        BY <3>2, <1>1, <1>2 DEF QueriesInv
    <3> QED BY <3>1, <3>2, <1>2
  <2> QED BY <2>1, <1>1, <1>2 DEF QueriesInv
<1>5. tx' = [tx EXCEPT ![t] = new]
    BY DEF AddRawDelete, TInv, TypeOK
<1>6. used' \in [statements : Nat, ticks : Nat, failures : Nat]
    BY SpendType DEF TInv, AddRawDelete
<1> HIDE DEF new
<1> QED BY <1>3, <1>4, <1>5, <1>6, TransactionFilled DEF AddRawDelete

LEMMA ForgottenInv ==
    ASSUME TInv, NEW t \in Threads, Refused(t) \/ Drop(t)
    PROVE  TInv'
<1>1. used' \in [statements : Nat, ticks : Nat, failures : Nat]
    BY SpendType DEF TInv, Refused, Drop, TypeOK
<1> QED BY <1>1, NewTransactionInv, TransactionFilled DEF Refused, Drop

\* A modification by thread t is in the database, its events are still to be dispatched.
Published(t, new, events) ==
    /\ Running(t)
    /\ db' = new
    /\ pending' = [pending EXCEPT ![t] = events]
    /\ contended' = contended \cup Contended(new, events)
    /\ UNCHANGED <<objects, loadable, tableLock, row, maintainer>>

LEMMA PublishedInv ==
    ASSUME TInv, NEW t \in Threads, NEW new \in [Rows -> Content], NEW events \in Seq(Event),
           Published(t, new, events),
           tx' \in [Threads -> TransactionType], TransactionsInv',
           used' \in [statements : Nat, ticks : Nat, failures : Nat]
    PROVE  TInv'
<1>1. contended' \subseteq Rows
    BY DEF TInv, TypeOK, Published, Contended
<1>2. pending' \in [Threads -> Seq(Event)]
    BY DEF TInv, TypeOK, Published
<1>3. TypeOK'
    BY <1>1, <1>2 DEF TInv, TypeOK, Published, TransactionType, maintainer
<1>4. ASSUME NEW u \in Threads, tableLock' = u
      PROVE  pending'[u] # <<>> /\ Head(pending'[u]).kind = "insert"
  <2>1. tableLock = u
      BY <1>4 DEF Published
  <2>2. pending[u] # <<>> /\ Head(pending[u]).kind = "insert"
      BY <2>1 DEF TInv, LockInv, Event1
  <2>3. u # t
      BY <2>2 DEF Published, Running
  <2>4. pending'[u] = pending[u]
      BY <2>3 DEF Published, TInv, TypeOK
  <2> QED BY <2>2, <2>4
<1>5. LockInv'
    BY <1>4 DEF LockInv, Event1
<1> QED BY <1>3, <1>5 DEF TInv

\* DBTransaction::run publishes the result of the queries and the events of the transaction.
LEMMA CommitPublishes ==
    ASSUME TInv, NEW t \in Threads, Commit(t)
    PROVE  \E new \in [Rows -> Content], events \in Seq(Event) :
              /\ Published(t, new, events)
              /\ \A r \in Rows : new[r] # db[r] /\ new[r] # NoVal => HasEvent(events, r)
<1> DEFINE new == [r \in Rows |-> Result(tx[t].queries, r, db[r])]
<1>1. tx[t] \in TransactionType /\ QueriesInv(tx[t])
    BY DEF TInv, TypeOK, TransactionType, TransactionsInv
<1>2. new \in [Rows -> Content]
  <2>1. \A r \in Rows : db[r] \in Content
      BY DEF TInv, TypeOK
  <2>2. \A r \in Rows : Result(tx[t].queries, r, db[r]) \in Content
      BY <1>1, <2>1, ResultType DEF TransactionType
  <2> QED BY <2>2
<1>3. tx[t].events \in Seq(Event)
    BY <1>1 DEF TransactionType
<1>4. \A r \in Rows : new[r] # db[r] /\ new[r] # NoVal => HasEvent(tx[t].events, r)
    BY <1>1, ChangeHasEvent
<1>5. Published(t, new, tx[t].events)
    BY DEF Commit, Published
<1> HIDE DEF new
<1> QED BY <1>2, <1>3, <1>4, <1>5

LEMMA SavePublishes ==
    ASSUME TInv, NEW t \in Threads, NEW r \in Rows, NEW v \in Content, Save(t, r, v)
    PROVE  \E new \in [Rows -> Content], events \in Seq(Event) :
              /\ Published(t, new, events)
              /\ \A p \in Rows : new[p] # db[p] /\ new[p] # NoVal => HasEvent(events, p)
<1> DEFINE new == [db EXCEPT ![r] = v]
           e == [kind |-> KindOf(v), row |-> r]
<1>1. new \in [Rows -> Content] /\ \A p \in Rows \ {r} : new[p] = db[p]
    BY DEF TInv, TypeOK
<1>2. e \in Event
    BY DEF KindOf, Event
<1>3. <<e>> \in Seq(Event) /\ e \in EventsIn(<<e>>)
    BY <1>2 DEF EventsIn
<1>4. HasEvent(<<e>>, r)
    BY <1>3 DEF HasEvent
<1>5. Published(t, new, <<e>>)
    BY DEF Save, Published
<1> HIDE DEF new, e
<1> QED BY <1>1, <1>3, <1>4, <1>5

LEMMA ModifyInv ==
    ASSUME TInv, NEW t \in Threads, Modify(t)
    PROVE  TInv'
<1>1. CASE \E r \in Rows, v \in Content : AddStatement(t, r, v)
    BY <1>1, AddStatementInv
<1>2. CASE AddRawDelete(t)
    BY <1>2, AddRawDeleteInv
<1>3. CASE Refused(t) \/ Drop(t)
    BY <1>3, ForgottenInv
<1>4. CASE Commit(t)
  <2> DEFINE x == [NewTransaction EXCEPT !.events = tx[t].events]
  <2>1. x \in TransactionType /\ QueriesInv(x)
    <3>1. tx[t].events \in Seq(Event)
        BY DEF TInv, TypeOK
    <3>2. x.queries = <<>> /\ x.modified = {}
        BY DEF NewTransaction
    <3>3. x \in TransactionType
      <4> HIDE DEF NewTransaction
      <4> QED BY <3>1, NewTransactionInv DEF TransactionType
    <3> QED BY <3>2, <3>3 DEF QueriesInv
  <2>2. tx' = [tx EXCEPT ![t] = x] /\ used' = used
      BY <1>4 DEF Commit
  <2>3. tx' \in [Threads -> TransactionType] /\ TransactionsInv'
    <3> HIDE DEF x
    <3> QED BY <2>1, <2>2 DEF TInv, TypeOK, TransactionType, TransactionsInv
  <2>4. used' \in [statements : Nat, ticks : Nat, failures : Nat]
      BY <2>2 DEF TInv, TypeOK
  <2> QED BY <1>4, <2>3, <2>4, CommitPublishes, PublishedInv
<1>5. CASE \E r \in Rows, v \in Content : Save(t, r, v)
  <2>1. PICK r \in Rows, v \in Content : Save(t, r, v)
      BY <1>5
  <2>2. used' \in [statements : Nat, ticks : Nat, failures : Nat]
      BY <2>1, SpendType DEF TInv, Save
  <2>3. tx' \in [Threads -> TransactionType] /\ TransactionsInv'
      BY <2>1 DEF Save, TInv, TypeOK, TransactionType, TransactionsInv
  <2> QED BY <2>1, <2>2, <2>3, SavePublishes, PublishedInv
<1> QED BY <1>1, <1>2, <1>3, <1>4, <1>5 DEF Modify

LEMMA DispatchInv ==
    ASSUME TInv, NEW t \in Threads, Dispatch(t)
    PROVE  TInv'
<1>1. pending[t] # <<>> => pending[t] \in Seq(Event) /\ Event1(t) \in Event
        /\ Event1(t).row \in Rows /\ Tail(pending[t]) \in Seq(Event)
    BY HeadAndTail DEF TInv, TypeOK, Event, Event1
<1>2. \A u \in Threads : u # tableLock => row[u] = NoVal
    BY DEF TInv, TypeOK
<1>3. CASE ReadRow(t)
  <2>1. pending[t] # <<>> /\ tableLock = NoThread /\ Event1(t).kind = "insert"
      BY <1>3 DEF ReadRow, Dispatches
  <2>2. db[Event1(t).row] \in Content
      BY <1>1, <2>1 DEF TInv, TypeOK
  <2>3. row' \in [Threads -> Content] /\ \A u \in Threads : row'[u] # NoVal => tableLock' = u
      BY <1>2, <1>3, <2>1, <2>2, NoThreadAssumption DEF ReadRow, TInv, TypeOK
  <2>4. TypeOK'
      BY <1>3, <2>3 DEF ReadRow, TInv, TypeOK, maintainer
  <2>5. LockInv'
      BY <1>3, <2>1 DEF ReadRow, LockInv, Event1
  <2>6. TransactionsInv'
      BY <1>3 DEF ReadRow, TInv, TransactionsInv
  <2> QED BY <2>4, <2>5, <2>6 DEF TInv
<1>4. CASE LoadRow(t)
  <2>1. tableLock = t /\ pending[t] # <<>>
      BY <1>4 DEF LoadRow, TInv, LockInv
  <2>2. objects' \in [Rows -> Content]
    <3>1. \A o \in Content, v \in Content : Loaded(o, v) \in Content
        BY DEF Loaded, Image, Content
    <3>2. Loaded(objects[Event1(t).row], row[t]) \in Content
        BY <1>1, <2>1, <3>1 DEF TInv, TypeOK
    <3> QED BY <1>4, <3>2 DEF LoadRow, TInv, TypeOK
  <2>3. pending' \in [Threads -> Seq(Event)]
      BY <1>1, <1>4, <2>1 DEF LoadRow, Done, TInv, TypeOK
  <2>4. row' \in [Threads -> Content] /\ \A u \in Threads : row'[u] = NoVal
      BY <1>2, <1>4, <2>1 DEF LoadRow, TInv, TypeOK, Content
  <2>5. TypeOK'
      BY <1>4, <2>2, <2>3, <2>4 DEF LoadRow, TInv, TypeOK, maintainer
  <2>6. LockInv'
      BY <1>4, NoThreadAssumption DEF LoadRow, LockInv
  <2>7. TransactionsInv'
      BY <1>4 DEF LoadRow, TInv, TransactionsInv
  <2> QED BY <2>5, <2>6, <2>7 DEF TInv
<1>5. CASE RemoveRow(t)
  <2>1. pending[t] # <<>> /\ tableLock = NoThread
      BY <1>5 DEF RemoveRow, Dispatches
  <2>2. objects' \in [Rows -> Content]
      BY <1>1, <1>5, <2>1 DEF RemoveRow, TInv, TypeOK, Content
  <2>3. pending' \in [Threads -> Seq(Event)]
      BY <1>1, <1>5, <2>1 DEF RemoveRow, Done, TInv, TypeOK
  <2>4. TypeOK'
      BY <1>5, <2>2, <2>3 DEF RemoveRow, TInv, TypeOK, maintainer
  <2>5. LockInv'
      BY <1>5, <2>1, NoThreadAssumption DEF RemoveRow, LockInv
  <2>6. TransactionsInv'
      BY <1>5 DEF RemoveRow, TInv, TransactionsInv
  <2> QED BY <2>4, <2>5, <2>6 DEF TInv
<1> QED BY <1>3, <1>4, <1>5 DEF Dispatch

LEMMA MaintainInv ==
    ASSUME TInv, Maintain
    PROVE  TInv'
<1>1. /\ \A v \in Content : Image(v) \in Content
      /\ \A o \in Content, v \in Content : Loaded(o, v) \in Content
    BY DEF Image, Loaded, Content
<1>2. TypeOK'
  <2>1. CASE Collect
      BY <2>1 DEF Collect, Outdated, TInv, TypeOK
  <2>2. CASE RemoveDoomed
      BY <2>2 DEF RemoveDoomed, TInv, TypeOK, Content
  <2>3. CASE Query
    <3>1. \A r \in Rows : db[r] \in Content
        BY DEF TInv, TypeOK
    <3>2. found' \in [Rows -> Content]
        BY <2>3, <1>1, <3>1 DEF Query
    <3> QED BY <2>3, <3>2 DEF Query, TInv, TypeOK
  <2>4. CASE LoadFound
    <3>1. PICK r \in Rows :
            /\ objects' = [objects EXCEPT ![r] = Loaded(objects[r], found[r])]
            /\ found' = [found EXCEPT ![r] = NoVal]
        BY <2>4 DEF LoadFound
    <3>2. Loaded(objects[r], found[r]) \in Content
        BY <1>1 DEF TInv, TypeOK
    <3>3. objects' \in [Rows -> Content] /\ found' \in [Rows -> Content]
        BY <3>1, <3>2 DEF TInv, TypeOK, Content
    <3> QED BY <2>4, <3>3 DEF LoadFound, TInv, TypeOK
  <2>5. CASE Sleep
      BY <2>5 DEF Sleep, TInv, TypeOK
  <2> QED BY <2>1, <2>2, <2>3, <2>4, <2>5 DEF Maintain
<1>3. UNCHANGED <<tx, pending, tableLock>>
    BY DEF Maintain, Collect, RemoveDoomed, Query, LoadFound, Sleep
<1>4. LockInv' /\ TransactionsInv'
    BY <1>3 DEF TInv, LockInv, TransactionsInv, Event1
<1> QED BY <1>2, <1>4 DEF TInv

\* Types, the mutex and the transactions, after every step.
LEMMA NextTInv == TInv /\ [Next]_vars => TInv'
<1> SUFFICES ASSUME TInv, [Next]_vars PROVE TInv'
    OBVIOUS
<1>1. CASE \E t \in Threads : Modify(t) \/ Dispatch(t)
    BY <1>1, ModifyInv, DispatchInv
<1>2. CASE Maintain
    BY <1>2, MaintainInv
<1>3. CASE Tick
  <2>1. used' \in [statements : Nat, ticks : Nat, failures : Nat]
      BY <1>3, SpendType DEF TInv, Tick
  <2>2. TypeOK'
      BY <1>3, <2>1 DEF Tick, TInv, TypeOK, maintainer
  <2> QED BY <1>3, <2>2 DEF Tick, TInv, LockInv, TransactionsInv, Event1
<1>4. CASE UNCHANGED vars
    BY <1>4 DEF vars, maintainer, TInv, TypeOK, LockInv, TransactionsInv, Event1
<1> QED BY <1>1, <1>2, <1>3, <1>4 DEF Next

-----------------------------------------------------------------------------
(* The objects mirror the rows. *)

LEMMA InitMInv == Init => MInv
<1> SUFFICES ASSUME Init PROVE \A r \in Rows : RowInv(r)
    BY DEF MInv, Init
<1> TAKE r \in Rows
<1>1. \A e : ~IsPending(e)
    BY NoEvents DEF Init, IsPending
<1>2. objects[r] = Image(db[r]) /\ Image(NoVal) = NoVal
    BY NoValAssumption DEF Init, Image
<1>3. \A t \in Threads : tableLock # t
    BY NoThreadAssumption DEF Init
<1> QED BY <1>1, <1>2, <1>3 DEF Init, RowInv

\* A modification that reaches the database of a row leaves the right events pending.
LEMMA PublishedRow ==
    ASSUME TInv, NEW t \in Threads, NEW new \in [Rows -> Content], NEW events \in Seq(Event),
           Published(t, new, events),
           \A p \in Rows : new[p] # db[p] /\ new[p] # NoVal => HasEvent(events, p),
           NEW r \in Rows, r \notin contended', RowInv(r)
    PROVE  RowInv(r)'
<1>1. /\ db'[r] = new[r] /\ objects' = objects /\ loadable' = loadable
      /\ tableLock' = tableLock /\ row' = row
    BY DEF Published
<1>2. /\ EventsIn(pending[t]) = {} /\ EventsIn(pending'[t]) = EventsIn(events)
      /\ \A u \in Threads \ {t} : pending'[u] = pending[u]
    BY NoEvents DEF Published, Running, TInv, TypeOK
<1>3. \A e : IsPending(e)' <=> IsPending(e) \/ e \in EventsIn(events)
    BY <1>2 DEF IsPending
<1>4. /\ new[r] # NoVal => Del(r) \notin EventsIn(events)
      /\ new[r] # NoVal /\ new[r] # db[r] => ~IsPending(Del(r))
      /\ new[r] = NoVal /\ db[r] # NoVal => Del(r) \in EventsIn(events)
  <2>1. r \notin Contended(new, events)
      BY DEF Published
  <2> QED BY <2>1 DEF Contended, Del, IsPending
<1>5. new[r] # db[r] /\ new[r] # NoVal => Ins(r) \in EventsIn(events)
  <2> SUFFICES ASSUME new[r] # db[r], new[r] # NoVal PROVE Ins(r) \in EventsIn(events)
      OBVIOUS
  <2>1. PICK e \in EventsIn(events) : e.row = r
      BY DEF HasEvent
  <2>2. e \in Event
      BY <2>1 DEF EventsIn
  <2>3. e # Del(r)
      BY <1>4, <2>1
  <2>4. e = Ins(r)
      BY <2>1, <2>2, <2>3 DEF Event, Ins, Del
  <2> QED BY <2>1, <2>4
<1>6. (db[r] # NoVal => ~IsPending(Del(r)))'
    BY <1>1, <1>3, <1>4 DEF RowInv
<1>7. (db[r] = NoVal /\ objects[r] # NoVal => IsPending(Del(r)))'
    BY <1>1, <1>3, <1>4 DEF RowInv
<1>8. (db[r] # NoVal /\ objects[r] # Image(db[r]) => IsPending(Ins(r)))'
  <2>1. Image(db[r])' = Image(new[r])
      BY <1>1 DEF Image
  <2> QED BY <1>1, <1>3, <1>5, <2>1 DEF RowInv
<1>9. ASSUME NEW u \in Threads, tableLock' = u, Event1(u)'.row = r, row'[u] # db'[r]
      PROVE  StaysPending(u, IF db[r] = NoVal THEN Del(r) ELSE Ins(r))'
  <2> DEFINE e == IF new[r] = NoVal THEN Del(r) ELSE Ins(r)
  <2>1. pending[u] # <<>> /\ u # t
      BY <1>1, <1>9 DEF TInv, LockInv, Published, Running
  <2>2. pending'[u] = pending[u] /\ Event1(u)' = Event1(u)
      BY <1>2, <2>1 DEF Event1
  <2>3. CASE new[r] = db[r]
    <3>1. StaysPending(u, e)
        BY <1>1, <1>9, <2>2, <2>3 DEF RowInv
    <3>2. CASE \E x \in Threads \ {u} : e \in EventsIn(pending[x])
      <4>1. PICK x \in Threads \ {u} : e \in EventsIn(pending[x])
          BY <3>2
      <4>2. pending'[x] = pending[x]
          BY <4>1, <1>2
      <4> QED BY <4>1, <4>2, <1>1 DEF StaysPending
    <3>3. CASE e \in EventsIn(Tail(pending[u]))
        BY <3>3, <2>2, <1>1 DEF StaysPending
    <3> QED BY <3>1, <3>2, <3>3 DEF StaysPending
  <2>4. CASE new[r] # db[r]
    <3>1. e \in EventsIn(pending'[t])
        BY <2>4, <1>2, <1>4, <1>5
    <3> QED BY <3>1, <2>1, <1>1 DEF StaysPending
  <2> QED BY <2>3, <2>4
<1>10. ASSUME NEW u \in Threads
       PROVE  (tableLock = u /\ Event1(u).row = r /\ row[u] # db[r] =>
                 StaysPending(u, IF db[r] = NoVal THEN Del(r) ELSE Ins(r)))'
    BY <1>9
<1> QED BY <1>6, <1>7, <1>8, <1>10 DEF RowInv

\* Thread t dispatches its first event.
LEMMA Popped ==
    ASSUME TInv, NEW t \in Threads, pending[t] # <<>>, Done(t), NEW e
    PROVE  /\ Event1(t) \in Event
           /\ IsPending(e)' <=> StaysPending(t, e)
           /\ IsPending(e) <=> e = Event1(t) \/ StaysPending(t, e)
<1>1. pending[t] \in Seq(Event) /\ pending \in [Threads -> Seq(Event)]
    BY DEF TInv, TypeOK
<1>2. Event1(t) \in Event /\ EventsIn(pending[t]) = {Event1(t)} \cup EventsIn(Tail(pending[t]))
    BY <1>1, HeadAndTail DEF Event1
<1>3. /\ pending'[t] = Tail(pending[t])
      /\ \A u \in Threads \ {t} : pending'[u] = pending[u]
    BY <1>1 DEF Done
<1>4. IsPending(e)' <=> StaysPending(t, e)
  <2>1. IsPending(e)' <=> \E u \in Threads : e \in EventsIn(pending'[u])
      BY DEF IsPending, EventsIn
  <2>2. e \in EventsIn(pending'[t]) <=> e \in EventsIn(Tail(pending[t]))
      BY <1>3
  <2>3. \A u \in Threads \ {t} : e \in EventsIn(pending'[u]) <=> e \in EventsIn(pending[u])
      BY <1>3
  <2> QED BY <2>1, <2>2, <2>3 DEF StaysPending
<1>5. IsPending(e) <=> e = Event1(t) \/ StaysPending(t, e)
    BY <1>2 DEF IsPending, StaysPending
<1> QED BY <1>2, <1>4, <1>5

\* Dispatching an event leaves the other rows alone.
LEMMA OtherRow ==
    ASSUME TInv, NEW t \in Threads, pending[t] # <<>>, Done(t), tableLock' = NoThread,
           UNCHANGED <<db, loadable>>,
           NEW r \in Rows, r # Event1(t).row, objects'[r] = objects[r], RowInv(r)
    PROVE  RowInv(r)'
<1>1. Del(r) # Event1(t) /\ Ins(r) # Event1(t)
    BY DEF Del, Ins
<1>2. (IsPending(Del(r)) <=> IsPending(Del(r))') /\ (IsPending(Ins(r)) <=> IsPending(Ins(r))')
    BY <1>1, Popped
<1>3. Image(db[r])' = Image(db[r])
    BY DEF Image
<1>4. \A u \in Threads : tableLock' # u
    BY NoThreadAssumption
<1> QED BY <1>2, <1>3, <1>4 DEF RowInv

\* _dispatchDBModifEvent, an insertion: the object of the row is the row, or is about to be.
LEMMA LoadRowMInv ==
    ASSUME TInv, NEW t \in Threads, LoadRow(t), NEW r \in Rows, RowInv(r)
    PROVE  RowInv(r)'
<1>1. pending[t] # <<>> /\ tableLock = t /\ Event1(t).kind = "insert"
    BY DEF LoadRow, TInv, LockInv
<1>2. Done(t) /\ tableLock' = NoThread /\ UNCHANGED <<db, loadable>>
    BY DEF LoadRow
<1>3. objects' = [objects EXCEPT ![Event1(t).row] = Loaded(objects[Event1(t).row], row[t])]
    BY DEF LoadRow
<1>4. objects \in [Rows -> Content] /\ db[r] \in Content /\ row[t] \in Content
    BY DEF TInv, TypeOK
<1>5. CASE r # Event1(t).row
    BY <1>1, <1>2, <1>3, <1>4, <1>5, OtherRow
<1>6. CASE r = Event1(t).row
  <2>1. objects'[r] = Loaded(objects[r], row[t])
      BY <1>3, <1>4, <1>6
  <2>2. Event1(t) # Del(r)
      BY <1>1 DEF Del
  <2>3. IsPending(Del(r)) <=> IsPending(Del(r))'
      BY <1>1, <1>2, <2>2, Popped
  <2>4. Image(db[r])' = Image(db[r]) /\ Image(NoVal) = NoVal
      BY <1>2, ImageType DEF Image, TInv, Content
  <2>5. (db[r] # NoVal => ~IsPending(Del(r)))'
      BY <1>2, <2>3 DEF RowInv
  <2>6. row[t] # db[r] => IsPending(IF db[r] = NoVal THEN Del(r) ELSE Ins(r))'
    <3>1. row[t] # db[r] => StaysPending(t, IF db[r] = NoVal THEN Del(r) ELSE Ins(r))
        BY <1>1, <1>6 DEF RowInv
    <3>2. StaysPending(t, Del(r)) => IsPending(Del(r))'
        BY <1>1, <1>2, Popped
    <3>3. StaysPending(t, Ins(r)) => IsPending(Ins(r))'
        BY <1>1, <1>2, Popped
    <3>4. CASE db[r] = NoVal
        BY <3>1, <3>2, <3>4, <1>2 DEF IsPending
    <3>5. CASE db[r] # NoVal
        BY <3>1, <3>3, <3>5, <1>2 DEF IsPending
    <3> QED BY <3>4, <3>5
  <2>7. (db[r] = NoVal /\ objects[r] # NoVal => IsPending(Del(r)))'
    <3>1. CASE row[t] = db[r]
        BY <3>1, <2>1, <2>3, <1>2 DEF Loaded, RowInv
    <3>2. CASE row[t] # db[r]
        BY <3>2, <2>6, <1>2 DEF IsPending
    <3> QED BY <3>1, <3>2
  <2>8. (db[r] # NoVal /\ objects[r] # Image(db[r]) => IsPending(Ins(r)))'
    <3>1. CASE row[t] = db[r]
        BY <3>1, <2>1, <2>4, <1>2 DEF Loaded
    <3>2. CASE row[t] # db[r]
        BY <3>2, <2>6, <1>2 DEF IsPending
    <3> QED BY <3>1, <3>2
  <2>9. \A u \in Threads : tableLock' # u
      BY <1>2, NoThreadAssumption
  <2> QED BY <2>5, <2>7, <2>8, <2>9 DEF RowInv
<1> QED BY <1>5, <1>6

\* _dispatchDBModifEvent, a deletion: it is pending, so the row is gone.
LEMMA RemoveRowMInv ==
    ASSUME TInv, NEW t \in Threads, RemoveRow(t), NEW r \in Rows, RowInv(r)
    PROVE  RowInv(r)'
<1>1. pending[t] # <<>> /\ tableLock = NoThread /\ Event1(t).kind = "delete"
    BY DEF RemoveRow, Dispatches
<1>2. Done(t) /\ tableLock' = NoThread /\ UNCHANGED <<db, loadable>>
    BY <1>1 DEF RemoveRow
<1>3. objects' = [objects EXCEPT ![Event1(t).row] = NoVal] /\ objects \in [Rows -> Content]
    BY DEF RemoveRow, TInv, TypeOK
<1>4. CASE r # Event1(t).row
    BY <1>1, <1>2, <1>3, <1>4, OtherRow
<1>5. CASE r = Event1(t).row
  <2>1. Event1(t) \in Event
      BY <1>1, <1>2, Popped
  <2>2. Event1(t) = Del(r)
      BY <1>1, <1>5, <2>1 DEF Event, Del
  <2>3. IsPending(Del(r))
      BY <1>1, <1>2, <2>2, Popped
  <2>4. db'[r] = NoVal
      BY <1>2, <2>3 DEF RowInv
  <2>5. objects'[r] = NoVal
      BY <1>3, <1>5
  <2>6. \A u \in Threads : tableLock' # u
      BY <1>2, NoThreadAssumption
  <2> QED BY <2>4, <2>5, <2>6 DEF RowInv
<1> QED BY <1>4, <1>5

\* getRow reads what is in the database; only a later modification can outdate it.
LEMMA ReadRowMInv ==
    ASSUME TInv, NEW t \in Threads, ReadRow(t), NEW r \in Rows, RowInv(r)
    PROVE  RowInv(r)'
<1>1. UNCHANGED <<db, objects, loadable, pending>> /\ tableLock' = t
    BY DEF ReadRow
<1>2. row' = [row EXCEPT ![t] = db[Event1(t).row]] /\ row \in [Threads -> Content]
    BY DEF ReadRow, TInv, TypeOK
<1>3. ASSUME NEW u \in Threads, tableLock' = u, Event1(u)'.row = r PROVE row'[u] = db'[r]
    BY <1>1, <1>2, <1>3 DEF Event1
<1>4. (\A e : IsPending(e) <=> IsPending(e)') /\ Image(db[r])' = Image(db[r])
    BY <1>1 DEF IsPending, Image
<1> QED BY <1>1, <1>3, <1>4 DEF RowInv

\* With the full synchronization policy nothing but these steps concerns the objects.
LEMMA NextMInv == IInv /\ [Next]_vars => MInv'
<1> SUFFICES ASSUME IInv, [Next]_vars, ~Conditional PROVE MInv'
    BY DEF MInv
<1> USE DEF IInv
<1>1. rpc = "idle" /\ \A r \in Rows \ contended : RowInv(r)
    BY DEF MInv
<1>2. ASSUME NEW t \in Threads, Dispatch(t) PROVE MInv'
  <2>1. rpc' = rpc /\ contended' = contended
      BY <1>2 DEF Dispatch, ReadRow, LoadRow, RemoveRow, maintainer
  <2> QED BY <1>1, <1>2, <2>1, ReadRowMInv, LoadRowMInv, RemoveRowMInv DEF Dispatch, MInv
<1>3. ASSUME NEW t \in Threads, NEW new \in [Rows -> Content], NEW events \in Seq(Event),
             Published(t, new, events),
             \A p \in Rows : new[p] # db[p] /\ new[p] # NoVal => HasEvent(events, p)
      PROVE  MInv'
  <2>1. rpc' = rpc /\ contended \subseteq contended'
      BY <1>3 DEF Published, maintainer
  <2> QED BY <1>1, <1>3, <2>1, PublishedRow DEF MInv
<1>4. ASSUME UNCHANGED <<db, objects, loadable, pending, tableLock, row, maintainer, contended>>
      PROVE  MInv'
  <2>1. rpc' = rpc /\ contended' = contended
      BY <1>4 DEF maintainer
  <2>2. ASSUME NEW r \in Rows, RowInv(r) PROVE RowInv(r)'
      BY <1>4, <2>2 DEF RowInv, IsPending, StaysPending, Image, Event1
  <2> QED BY <1>1, <2>1, <2>2 DEF MInv
<1>5. ASSUME NEW t \in Threads, Modify(t) PROVE MInv'
  <2>1. CASE Commit(t)
      BY <2>1, <1>3, CommitPublishes
  <2>2. CASE \E r \in Rows, v \in Content : Save(t, r, v)
      BY <2>2, <1>3, SavePublishes
  <2>3. CASE \/ \E r \in Rows, v \in Content : AddStatement(t, r, v)
             \/ AddRawDelete(t) \/ Refused(t) \/ Drop(t)
      BY <2>3, <1>4 DEF AddStatement, AddRawDelete, Refused, Drop
  <2> QED BY <1>5, <2>1, <2>2, <2>3 DEF Modify
<1>6. ~Maintain /\ ~Tick
    BY <1>1 DEF Maintain, Collect, RemoveDoomed, Query, LoadFound, Sleep, Tick
<1>7. CASE UNCHANGED vars
    BY <1>4, <1>7 DEF vars
<1> QED BY <1>2, <1>5, <1>6, <1>7 DEF Next

LEMMA Invariance == Spec => []IInv
<1>1. Init => IInv
    BY InitTInv, InitMInv DEF IInv
<1>2. IInv /\ [Next]_vars => IInv'
    BY NextTInv, NextMInv DEF IInv
<1> QED BY <1>1, <1>2, PTL DEF Spec

-----------------------------------------------------------------------------
(* Theorems. *)

\* Types; a thread holds the row it has read only under _tableSynchronizersMutex.
THEOREM TableTypeCorrect == Spec => []TypeOK
<1>1. IInv => TypeOK
    BY DEF IInv, TInv
<1> QED BY <1>1, Invariance, PTL

\* With the full synchronization policy, once the events on a row have been dispatched by
\* whatever threads in whatever order (DB::_dispatchDBModifEvent), its object is the row.
THEOREM ObjectsMirrorRows == Spec => []EnvMirrorsDb
<1>1. IInv => EnvMirrorsDb
  <2> SUFFICES ASSUME IInv, ~Conditional, NEW r \in Rows \ contended, ~Pending(r)
               PROVE  objects[r] = Image(db[r])
      BY DEF EnvMirrorsDb
  <2>1. RowInv(r)
      BY DEF IInv, MInv
  <2>2. ~IsPending(Del(r)) /\ ~IsPending(Ins(r))
      BY DEF Pending, IsPending, Del, Ins
  <2>3. Image(NoVal) = NoVal
      BY ImageType DEF IInv, TInv, Content
  <2> QED BY <2>1, <2>2, <2>3 DEF RowInv
<1> QED BY <1>1, Invariance, PTL

-----------------------------------------------------------------------------
(* The table implements Mirror. *)

\* A row in the hands of a thread is what the database holds: the file of SQLite is not
\* written under the mutex.
RowInHand ==
    \A t \in Threads : tableLock = t => row[t] = db[Event1(t).row]

LEMMA RowInHandStep ==
    ASSUME ~Conditional, ~Buffered, IInv, RowInHand, [Next]_vars
    PROVE  RowInHand'
<1> USE DEF IInv
<1>1. ~Maintain /\ ~Tick
    BY DEF MInv, Maintain, Collect, RemoveDoomed, Query, LoadFound, Sleep, Tick
<1>2. ASSUME tableLock' = NoThread PROVE RowInHand'
    BY <1>2, NoThreadAssumption DEF RowInHand
<1>3. ASSUME UNCHANGED <<db, pending, tableLock, row>> PROVE RowInHand'
    BY <1>3 DEF RowInHand, Event1
<1>4. ASSUME NEW t \in Threads, Modify(t) PROVE RowInHand'
  <2>1. CASE Commit(t) \/ \E r \in Rows, v \in Content : Save(t, r, v)
      BY <2>1, <1>2 DEF Commit, Save, Writable
  <2>2. CASE \/ \E r \in Rows, v \in Content : AddStatement(t, r, v)
             \/ AddRawDelete(t) \/ Refused(t) \/ Drop(t)
      BY <2>2, <1>3 DEF AddStatement, AddRawDelete, Refused, Drop
  <2> QED BY <1>4, <2>1, <2>2 DEF Modify
<1>5. ASSUME NEW t \in Threads, ReadRow(t) PROVE RowInHand'
    BY <1>5 DEF ReadRow, RowInHand, Event1, TInv, TypeOK
<1>6. ASSUME NEW t \in Threads, LoadRow(t) \/ RemoveRow(t) PROVE RowInHand'
    BY <1>6, <1>2 DEF LoadRow, RemoveRow, Dispatches
<1>7. CASE UNCHANGED vars
    BY <1>3, <1>7 DEF vars
<1> QED BY <1>1, <1>4, <1>5, <1>6, <1>7 DEF Next, Dispatch

\* A modification of the database is a change of the truth: whatever it changes is out of
\* date from now on.
LEMMA PublishedIsChange ==
    ASSUME TInv, NEW t \in Threads, NEW new \in [Rows -> Content], NEW events \in Seq(Event),
           Published(t, new, events),
           \A p \in Rows : new[p] # db[p] /\ new[p] # NoVal => HasEvent(events, p)
    PROVE  M!Change
<1>1. /\ pending[t] = <<>> /\ pending'[t] = events
      /\ \A u \in Threads \ {t} : pending'[u] = pending[u]
    BY DEF Published, Running, TInv, TypeOK
<1>2. ASSUME NEW r \in Rows, Pending(r) PROVE Pending(r)'
  <2>1. PICK u \in Threads : \E e \in EventsIn(pending[u]) : e.row = r
      BY <1>2 DEF Pending
  <2>2. u # t
      BY <2>1, <1>1, NoEvents
  <2>3. \E e \in EventsIn(pending'[u]) : e.row = r
      BY <2>1, <2>2, <1>1
  <2> QED BY <2>3 DEF Pending, EventsIn
<1>3. ASSUME NEW r \in Rows, HasEvent(events, r) PROVE Pending(r)'
  <2>1. \E e \in EventsIn(pending'[t]) : e.row = r
      BY <1>1, <1>3 DEF HasEvent
  <2> QED BY <2>1 DEF Pending, EventsIn
<1>4. ASSUME NEW r \in Rows, ~Pending(r)', r \notin contended' PROVE db'[r] = db[r]
  <2>1. ~HasEvent(events, r) /\ r \notin Contended(new, events)
      BY <1>3, <1>4 DEF Published
  <2>2. CASE new[r] = NoVal
    <3>1. db[r] # NoVal => Del(r) \in EventsIn(events)
        BY <2>1, <2>2 DEF Contended, Del
    <3>2. Del(r).row = r
        BY DEF Del
    <3> QED BY <2>1, <2>2, <3>1, <3>2 DEF HasEvent, Published
  <2>3. CASE new[r] # NoVal
      BY <2>1, <2>3 DEF Published
  <2> QED BY <2>2, <2>3
<1>5. ASSUME NEW r \in Rows, ~Pending(r)', r \notin contended' PROVE Image(db[r])' = Image(db[r])
    BY <1>4, <1>5 DEF Image, Published
<1>6. contended \subseteq contended' /\ objects' = objects
    BY DEF Published
<1> QED BY <1>2, <1>5, <1>6 DEF M!Change

\* A dispatched event is a refreshment of its row.
LEMMA DispatchedIsRefresh ==
    ASSUME TInv, TInv', NEW t \in Threads, NEW r \in Rows, pending[t] # <<>>, Event1(t).row = r,
           Done(t), UNCHANGED <<db, loadable, contended>>,
           objects'[r] \in {Image(db[r]), NoVal, objects[r]},
           \A p \in Rows \ {r} : objects'[p] = objects[p],
           r \notin contended /\ ~Pending(r)' => objects'[r] = Image(db[r])
    PROVE  M!Refresh
<1>1. Event1(t) \in Event /\ \A e : /\ IsPending(e)' <=> StaysPending(t, e)
                                    /\ IsPending(e) <=> e = Event1(t) \/ StaysPending(t, e)
    BY Popped
<1>2. \A p : /\ Pending(p) <=> \E e : IsPending(e) /\ e.row = p
             /\ Pending(p)' <=> \E e : IsPending(e)' /\ e.row = p
    BY DEF Pending, IsPending
<1>3. Pending(r) /\ \A p \in Rows \ {r} : Pending(p)' <=> Pending(p)
    BY <1>1, <1>2
<1>4. \A p \in Rows : Image(db[p])' = Image(db[p])
    BY DEF Image
<1> DEFINE dirty == {p \in Rows : Pending(p)} \cup contended
<1>5. r \in dirty
    BY <1>3
<1>6. \/ dirty' = dirty
      \/ dirty' = dirty \ {r} /\ objects'[r] = Image(db[r])
  <2>1. CASE Pending(r)' \/ r \in contended
      BY <2>1, <1>3
  <2>2. CASE ~Pending(r)' /\ r \notin contended
      BY <2>2, <1>3
  <2> QED BY <2>1, <2>2
<1> QED BY <1>4, <1>5, <1>6 DEF M!Refresh

LEMMA StepOfMirror ==
    ASSUME ~Conditional, ~Buffered, IInv, IInv', RowInHand, [Next]_vars
    PROVE  [M!Next]_(M!vars)
<1> USE DEF IInv
<1>1. ~Maintain /\ ~Tick
    BY DEF MInv, Maintain, Collect, RemoveDoomed, Query, LoadFound, Sleep, Tick
<1>2. ASSUME UNCHANGED <<db, objects, loadable, pending, contended>> PROVE UNCHANGED M!vars
    BY <1>2 DEF M!vars, Pending, Image
<1>3. ASSUME NEW t \in Threads, Modify(t) PROVE [M!Next]_(M!vars)
  <2>1. CASE Commit(t)
      BY <2>1, CommitPublishes, PublishedIsChange DEF M!Next
  <2>2. CASE \E r \in Rows, v \in Content : Save(t, r, v)
      BY <2>2, SavePublishes, PublishedIsChange DEF M!Next
  <2>3. CASE \/ \E r \in Rows, v \in Content : AddStatement(t, r, v)
             \/ AddRawDelete(t) \/ Refused(t) \/ Drop(t)
      BY <2>3, <1>2 DEF AddStatement, AddRawDelete, Refused, Drop
  <2> QED BY <1>3, <2>1, <2>2, <2>3 DEF Modify
<1>4. ASSUME NEW r \in Rows, r \notin contended', ~Pending(r)', UNCHANGED <<db, loadable>>
      PROVE  objects'[r] = Image(db[r])
  <2>1. RowInv(r)'
      BY <1>4 DEF MInv
  <2>2. ~IsPending(Del(r))' /\ ~IsPending(Ins(r))'
      BY <1>4 DEF Pending, IsPending, Del, Ins
  <2>3. Image(NoVal) = NoVal /\ Image(db[r])' = Image(db[r])
      BY <1>4, ImageType DEF TInv, Content, Image
  <2> QED BY <1>4, <2>1, <2>2, <2>3 DEF RowInv
<1>5. ASSUME NEW t \in Threads, LoadRow(t) PROVE M!Refresh
  <2> DEFINE r == Event1(t).row
  <2>1. pending[t] # <<>> /\ tableLock = t
      BY <1>5 DEF LoadRow, TInv, LockInv
  <2>2. Done(t) /\ UNCHANGED <<db, loadable, contended>>
      BY <1>5 DEF LoadRow
  <2>3. r \in Rows
      BY <2>1, <2>2, Popped DEF Event
  <2>4. objects' = [objects EXCEPT ![r] = Loaded(objects[r], row[t])]
      BY <1>5 DEF LoadRow
  <2>5. row[t] = db[r]
      BY <2>1 DEF RowInHand
  <2>6. objects'[r] \in {Image(db[r]), NoVal, objects[r]}
      BY <2>3, <2>4, <2>5 DEF Loaded, TInv, TypeOK
  <2>7. \A p \in Rows \ {r} : objects'[p] = objects[p]
      BY <2>3, <2>4 DEF TInv, TypeOK
  <2> HIDE DEF r
  <2>8. Event1(t).row = r
      BY DEF r
  <2> QED BY <1>4, <2>1, <2>2, <2>3, <2>6, <2>7, <2>8, DispatchedIsRefresh
<1>6. ASSUME NEW t \in Threads, RemoveRow(t) PROVE M!Refresh
  <2> DEFINE r == Event1(t).row
  <2>1. pending[t] # <<>> /\ Done(t) /\ UNCHANGED <<db, loadable, contended>>
      BY <1>6 DEF RemoveRow, Dispatches
  <2>2. r \in Rows
      BY <2>1, Popped DEF Event
  <2>3. objects' = [objects EXCEPT ![r] = NoVal]
      BY <1>6 DEF RemoveRow
  <2>4. objects'[r] \in {Image(db[r]), NoVal, objects[r]}
      BY <2>2, <2>3 DEF TInv, TypeOK
  <2>5. \A p \in Rows \ {r} : objects'[p] = objects[p]
      BY <2>2, <2>3 DEF TInv, TypeOK
  <2> HIDE DEF r
  <2>6. Event1(t).row = r
      BY DEF r
  <2> QED BY <1>4, <2>1, <2>2, <2>4, <2>5, <2>6, DispatchedIsRefresh
<1>7. ASSUME NEW t \in Threads, ReadRow(t) PROVE UNCHANGED M!vars
    BY <1>7, <1>2 DEF ReadRow
<1>8. CASE UNCHANGED vars
    BY <1>2, <1>8 DEF vars
<1> QED BY <1>1, <1>3, <1>5, <1>6, <1>7, <1>8 DEF Next, Dispatch, M!Next

\* A table of the full synchronization policy on SQLite implements Mirror: whatever threads
\* commit and dispatch in whatever order, every step of it is a change of the table, which
\* makes the objects it concerns out of date, or brings one object to what its row is now.
THEOREM TableIsMirror ==
    ASSUME ~Conditional, ~Buffered
    PROVE  Spec => ImplementsMirror
<1>1. Init => M!Init
  <2> SUFFICES ASSUME Init PROVE M!Init
      OBVIOUS
  <2>1. \A r \in Rows : ~Pending(r)
      BY NoEvents DEF Init, Pending
  <2> QED BY <2>1 DEF Init, M!Init
<1>2. Init => RowInHand
    BY NoThreadAssumption DEF Init, RowInHand
<1>3. IInv /\ RowInHand /\ [Next]_vars => RowInHand'
    BY RowInHandStep
<1>4. IInv /\ IInv' /\ RowInHand /\ [Next]_vars => [M!Next]_(M!vars)
    BY StepOfMirror
<1> QED BY <1>1, <1>2, <1>3, <1>4, Invariance, PTL DEF Spec, ImplementsMirror, M!Spec
=============================================================================
