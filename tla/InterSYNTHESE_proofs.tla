------------------------ MODULE InterSYNTHESE_proofs ------------------------
(***************************************************************************)
(* Theorems about InterSYNTHESE, for every set of slaves, writers, rows    *)
(* and contents, both modes, every value of MaxQueriesNumber and of the    *)
(* bounds.                                                                 *)
(***************************************************************************)
EXTENDS InterSYNTHESE, FiniteSetTheorems, NatLemmas

-----------------------------------------------------------------------------
(* The items of a queue: what a range of a queue is, which item decides the content of a *)
(* row, and what the dump of a table contains.                                          *)

\* No two items have the same id: they are rows of one table.
UniqueIds(items) == \A i, j \in items : i.id = j.id => i = j

Bounded(items) == \E n \in Nat : \A i \in items : i.id < n

-----------------------------------------------------------------------------
(* Ranges. *)

\* The range of a set of items is made of two ids, and starts at its least one
\* (getQueueRange returns _queue.begin()).
LEMMA RangeOfItems ==
    ASSUME NEW items \in SUBSET Item, Bounded(items)
    PROVE  /\ RangeOf(items) \in [first : Nat, last : Nat]
           /\ \A i \in items : RangeOf(items).first <= i.id
<1>1. CASE items = {}
    BY <1>1 DEF RangeOf, Range0
<1>2. CASE items # {}
  <2>1. Ids(items) \in SUBSET Nat /\ Ids(items) # {}
      BY <1>2 DEF Ids, Item
  <2>2. PICK n \in Nat : \A x \in Ids(items) : x < n
      BY DEF Bounded, Ids
  <2>3. \E x \in Ids(items) : \A y \in Ids(items) : x <= y
      BY <2>1, LeastElement
  <2>4. \E x \in Ids(items) : \A y \in Ids(items) : y <= x
      BY <2>1, <2>2, GreatestElement
  <2> DEFINE lo == CHOOSE x \in Ids(items) : \A y \in Ids(items) : x <= y
             hi == CHOOSE x \in Ids(items) : \A y \in Ids(items) : y <= x
  <2>5. lo \in Ids(items) /\ \A y \in Ids(items) : lo <= y
      BY <2>3
  <2>6. hi \in Ids(items)
      BY <2>4
  <2>7. RangeOf(items) = [first |-> lo, last |-> hi]
      BY <1>2 DEF RangeOf
  <2>8. \A i \in items : i.id \in Ids(items)
      BY DEF Ids
  <2> QED BY <2>1, <2>5, <2>6, <2>7, <2>8
<1> QED BY <1>1, <1>2

\* The items of a range precede the items left in the queue (getQueueRange goes forward
\* from _queue.begin()).
LEMMA FirstItemsPrecede ==
    ASSUME NEW items \in SUBSET Item, IsFiniteSet(items), NEW n \in Nat,
           NEW i \in items \ FirstItems(items, n), NEW j \in FirstItems(items, n)
    PROVE  j.id < i.id
<1> DEFINE upTo(x) == {k \in items : k.id <= x.id}
<1>1. \A x \in items : x.id \in Nat
    BY DEF Item
<1>2. /\ j \in items
      /\ Cardinality(upTo(j)) <= n
      /\ ~(Cardinality(upTo(i)) <= n)
    BY DEF FirstItems
<1>3. SUFFICES ASSUME i.id <= j.id PROVE FALSE
    BY <1>1, <1>2
<1>4. upTo(i) \in SUBSET upTo(j)
    BY <1>1, <1>2, <1>3
<1>5. IsFiniteSet(upTo(j))
    BY FS_Subset
<1>6. IsFiniteSet(upTo(i)) /\ Cardinality(upTo(i)) <= Cardinality(upTo(j))
    BY <1>4, <1>5, FS_Subset
<1>7. Cardinality(upTo(i)) \in Nat /\ Cardinality(upTo(j)) \in Nat
    BY <1>5, <1>6, FS_CardinalityType
<1> QED BY <1>2, <1>6, <1>7

\* Items of distinct, bounded ids are finitely many.
LEMMA ItemsFinite ==
    ASSUME NEW items \in SUBSET Item, UniqueIds(items), Bounded(items)
    PROVE  IsFiniteSet(items)
<1>1. PICK n \in Nat : \A i \in items : i.id < n
    BY DEF Bounded
<1> DEFINE f == [i \in items |-> i.id]
<1>2. \A i \in items : i.id \in 0..n
    BY <1>1 DEF Item
<1>3. f \in [items -> 0..n] /\ \A i, j \in items : f[i] = f[j] => i = j
    BY <1>2 DEF UniqueIds
<1> HIDE DEF f
<1>4. f \in Injection(items, 0..n)
    BY <1>3 DEF Injection, IsInjective
<1>5. IsFiniteSet(0..n)
  <2>1. 0 \in Int /\ n \in Int
      OBVIOUS
  <2> QED BY <2>1, FS_Interval
<1> QED BY <1>4, <1>5, FS_Injection

\* If the last item of a row goes with the first items of a queue, all the items of that
\* row do.
LEMMA FirstItemsWhole ==
    ASSUME NEW items \in SUBSET Item, UniqueIds(items), Bounded(items), NEW n \in Nat, NEW r,
           NEW k \in Touching(items, r), k \in FirstItems(items, n),
           \A j \in Touching(items, r) : j.id <= k.id
    PROVE  Touching(items, r) \subseteq FirstItems(items, n)
<1> SUFFICES ASSUME NEW j \in Touching(items, r), j \notin FirstItems(items, n) PROVE FALSE
    OBVIOUS
<1>1. j \in items \ FirstItems(items, n) /\ j \in Item /\ k \in Item
    BY DEF Touching
<1>2. k.id < j.id
    BY <1>1, ItemsFinite, FirstItemsPrecede
<1> QED BY <1>1, <1>2 DEF Item

-----------------------------------------------------------------------------
(* The item that decides the content of a row. *)

\* Among items of distinct ids, a non-empty bounded set has one that runs last.
LEMMA NewestItem ==
    ASSUME NEW items \in SUBSET Item, items # {}, Bounded(items)
    PROVE  /\ Newest(items) \in items
           /\ \A j \in items : j.id <= Newest(items).id
<1>1. Ids(items) \in SUBSET Nat /\ Ids(items) # {}
    BY DEF Ids, Item
<1>2. PICK n \in Nat : \A x \in Ids(items) : x < n
    BY DEF Bounded, Ids
<1>3. PICK x \in Ids(items) : \A y \in Ids(items) : y <= x
    BY <1>1, <1>2, GreatestElement
<1>4. \E i \in items : \A j \in items : j.id <= i.id
    BY <1>3 DEF Ids
<1> QED BY <1>4 DEF Newest

\* An item that runs after every other one that touches a row decides its content.
LEMMA AfterLastItem ==
    ASSUME NEW items \in SUBSET Item, UniqueIds(items), Bounded(items),
           NEW r, NEW old, NEW i \in Touching(items, r),
           \A j \in Touching(items, r) : j.id <= i.id
    PROVE  After(items, r, old) = i.val
<1> DEFINE T == Touching(items, r)
<1>1. T \in SUBSET Item /\ T # {} /\ T \subseteq items
    BY DEF Touching
<1>2. Bounded(T)
    BY <1>1 DEF Bounded
<1>3. Newest(T) \in T /\ \A j \in T : j.id <= Newest(T).id
    BY <1>1, <1>2, NewestItem
<1>4. Newest(T).id = i.id
    BY <1>1, <1>3 DEF Item
<1>5. Newest(T) = i
    BY <1>1, <1>3, <1>4 DEF UniqueIds
<1> QED BY <1>1, <1>5 DEF After

\* Items act on the content of a row as contents of that row.
LEMMA AfterType ==
    ASSUME NEW items \in SUBSET Item, Bounded(items), NEW r, NEW old \in Content
    PROVE  After(items, r, old) \in Content
<1>1. CASE Touching(items, r) = {}
    BY <1>1 DEF After
<1>2. CASE Touching(items, r) # {}
  <2> DEFINE T == Touching(items, r)
  <2>1. T \in SUBSET Item /\ Bounded(T)
      BY DEF Touching, Bounded
  <2>2. Newest(T) \in Item
      BY <1>2, <2>1, NewestItem
  <2> QED BY <1>2, <2>2 DEF After, Item
<1> QED BY <1>1, <1>2

\* The transaction of a slave (closeSync) leaves contents in its tables.
LEMMA ApplyType ==
    ASSUME NEW items \in SUBSET Item, Bounded(items), NEW base \in Database
    PROVE  Apply(items, base) \in Database
BY AfterType DEF Apply, Database

\* What items make of a row is decided by those that touch it.
LEMMA AfterSame ==
    ASSUME NEW items, NEW others, NEW r, Touching(items, r) = Touching(others, r)
    PROVE  \A old : After(items, r, old) = After(others, r, old)
BY DEF After

LEMMA ApplyTwice ==
    ASSUME NEW items, NEW others, NEW base, NEW r \in Rows
    PROVE  Apply(items, Apply(others, base))[r] = After(items, r, After(others, r, base[r]))
BY DEF Apply

\* Items leave the queue (clearLastSentRange) and are handed to the slave, which runs them
\* first.  On a row that both sides see alike, this comes to the same, if the item that
\* decides the row is not handed without all the others that touch the row.
LEMMA HandedOver ==
    ASSUME NEW items \in SUBSET Item, UniqueIds(items), Bounded(items),
           NEW cleared \in SUBSET items, NEW handed, NEW r, NEW old,
           Touching(handed, r) = Touching(cleared, r),
           \A n \in Touching(items, r) :
                n \in handed /\ (\A j \in Touching(items, r) : j.id <= n.id) =>
                    Touching(items, r) \subseteq handed
    PROVE  After(items \ cleared, r, After(handed, r, old)) = After(items, r, old)
<1> DEFINE T == Touching(items, r)
           n == Newest(T)
           left == items \ cleared
<1>1. T \in SUBSET Item /\ T \subseteq items /\ Bounded(T)
    BY DEF Touching, Bounded
<1>2. Touching(left, r) = T \ Touching(cleared, r)
    BY DEF Touching
<1>3. CASE T = {}
  <2>1. Touching(left, r) = {} /\ Touching(handed, r) = {}
      BY <1>2, <1>3 DEF Touching
  <2> QED BY <1>3, <2>1 DEF After
<1>4. CASE T # {}
  <2>1. n \in T /\ \A j \in T : j.id <= n.id
      BY <1>1, <1>4, NewestItem
  <2>2. After(items, r, old) = n.val
      BY <1>4 DEF After
  <2>3. CASE n \in cleared
    <3>1. n \in Touching(cleared, r)
        BY <2>1, <2>3 DEF Touching
    <3>2. n \in handed
        BY <3>1 DEF Touching
    <3>3. T \subseteq handed
        BY <2>1, <3>2
    <3>4. Touching(handed, r) = T /\ Touching(left, r) = {}
        BY <1>2, <3>3 DEF Touching
    <3> QED BY <3>4, <1>4 DEF After
  <2>4. CASE n \notin cleared
    <3>1. n \in Touching(left, r) /\ \A j \in Touching(left, r) : j.id <= n.id
        BY <1>2, <2>1, <2>4 DEF Touching
    <3>2. left \in SUBSET Item /\ UniqueIds(left) /\ Bounded(left)
        BY DEF UniqueIds, Bounded
    <3> HIDE DEF left, n
    <3>3. After(left, r, After(handed, r, old)) = n.val
        BY <3>1, <3>2, AfterLastItem
    <3> QED BY <3>3, <2>2 DEF left
  <2> QED BY <2>3, <2>4
<1> QED BY <1>3, <1>4

-----------------------------------------------------------------------------
(* The protocol. *)

\* What a slave has received, or is about to receive, is bounded: its range exists.
ReceivedBounded ==
    \A s \in Slaves : Bounded(reply[s].items) /\ Bounded(batch[s])

\* What the updater holds belongs to the step it is at.
ScratchEmpty ==
    /\ bgPc \notin {"delete", "erase", "number", "dispatch"} => bgItems = {}
    /\ bgPc # "number" => bgLeft = {} /\ bgKept = {}

\* The inductive invariant behind TypeOK and FreshIds.
IInv == TypeOK /\ FreshIds /\ ReceivedBounded /\ ScratchEmpty

-----------------------------------------------------------------------------

\* A row exists, so an idle operation has one.
LEMMA IdleOpType ==
    IdleOp \in [row : Rows, val : Content, id : Nat, to : SUBSET Slaves]
  /\ IdleOp.to = {}
<1>1. (CHOOSE r \in Rows : TRUE) \in Rows
    BY RowsNotEmptyAssumption
<1> QED BY <1>1 DEF IdleOp, Content

\* Queues are bounded by the auto-increment.
LEMMA QueueBounded ==
    ASSUME TypeOK, FreshIds, NEW s \in Slaves
    PROVE  queue[s] \in SUBSET Item /\ Bounded(queue[s]) /\ UniqueIds(queue[s])
BY DEF TypeOK, FreshIds, Bounded, UniqueIds

\* So are the rows of the queue table.
LEMMA StoredType ==
    ASSUME TypeOK
    PROVE  \A s \in Slaves : /\ Stored(s) \in SUBSET Item /\ Coming(s) \in SUBSET Item
                            /\ Dispatching(s) \in SUBSET Item
<1>1. \A w \in Writers : SyncItem(wop[w]) \in Item
    BY DEF TypeOK, SyncItem, Item
<1> QED BY <1>1 DEF TypeOK, Stored, Coming, Dispatching, BgItems

\* The bounds count steps.
LEMMA SpendType ==
    ASSUME TypeOK, NEW what \in {"writes", "breaks", "imports", "faults"}, NEW bound,
           Spend(what, bound)
    PROVE  used' \in [writes : Nat, breaks : Nat, imports : Nat, faults : Nat]
<1> DEFINE F == [writes : Nat, breaks : Nat, imports : Nat, faults : Nat]
<1>1. used \in F /\ used' = [used EXCEPT ![what] = used[what] + 1]
    BY DEF TypeOK, Spend
<1>2. used[what] \in Nat
    BY <1>1
<1>3. \A n \in Nat : [used EXCEPT ![what] = n] \in F
    BY <1>1
<1> QED BY <1>1, <1>2, <1>3

\* The initial state is of the right types, and no id is in use.
LEMMA InitIInv == Init => IInv
<1> SUFFICES ASSUME Init PROVE IInv
    OBVIOUS
<1>1. Bounded({})
    BY DEF Bounded
<1>2. TypeOK
    BY IdleOpType DEF Init, TypeOK, Range0, NoReply, ReplyKinds, Database, Content, Processing
<1>3. FreshIds
    BY IdleOpType DEF Init, FreshIds, BgItems
<1>4. ReceivedBounded
    BY <1>1 DEF Init, ReceivedBounded, NoReply
<1>5. ScratchEmpty
    BY DEF Init, ScratchEmpty
<1> QED BY <1>2, <1>3, <1>4, <1>5 DEF IInv

-----------------------------------------------------------------------------
(* Every step keeps the types. *)

OpType == [row : Rows, val : Content, id : Nat, to : SUBSET Slaves]

WpcType == {"idle", "prepared", "saved", "dispatching"}

\* An operation that is committed, or dispatched in part.
LEMMA StoresType ==
    ASSUME TypeOK, NEW w \in Writers, NEW op \in OpType, Stores(w, op)
    PROVE  wpc' \in [Writers -> WpcType] /\ wop' \in [Writers -> OpType]
<1>1. wpc \in [Writers -> WpcType] /\ wop \in [Writers -> OpType] /\ IdleOp \in OpType
    BY IdleOpType DEF TypeOK, OpType, WpcType
<1>2. \A step \in WpcType : [wpc EXCEPT ![w] = step] \in [Writers -> WpcType]
    BY <1>1
<1>3. "idle" \in WpcType /\ "dispatching" \in WpcType
    BY DEF WpcType
<1> QED BY <1>1, <1>2, <1>3 DEF Stores

\* The rows a slave loses track of.
LEMMA LoseType ==
    ASSUME TypeOK, NEW s \in Slaves, NEW rows, Lose(s, rows)
    PROVE  followed' \in [Slaves -> SUBSET Rows] /\ bgKept' \subseteq Rows
BY DEF TypeOK, Lose

\* A modification that is queued after it was saved.
LEMMA EnqueueType ==
    ASSUME IInv, NEW w \in Writers, NEW to \in SUBSET Receivers, Enqueue(w, to),
           used' \in [writes : Nat, breaks : Nat, imports : Nat, faults : Nat]
    PROVE  TypeOK'
<1> DEFINE op == [wop[w] EXCEPT !.id = nextId, !.to = to]
<1>1. op \in OpType
  <2>1. wop[w] \in OpType /\ nextId \in Nat /\ to \in SUBSET Slaves
      BY DEF IInv, TypeOK, OpType, Receivers
  <2> QED BY <2>1 DEF OpType
<1>2. Stores(w, op)
    BY DEF Enqueue
<1>3. wpc' \in [Writers -> WpcType] /\ wop' \in [Writers -> OpType]
    BY <1>1, <1>2, StoresType DEF IInv
<1>4. nextId' \in Nat \ {0}
    BY DEF IInv, TypeOK, Enqueue
<1>5. followed' \in [Slaves -> SUBSET Rows] /\ bgKept' \subseteq Rows
  <2>1. \A s \in Slaves : followed'[s] \subseteq followed[s]
      BY ZenonT(30) DEF Enqueue
  <2>2. followed' = [s \in Slaves |-> followed'[s]]
      BY DEF Enqueue
  <2>3. bgKept' \subseteq bgKept
      BY ZenonT(30) DEF Enqueue
  <2>4. \A s \in Slaves : followed'[s] \in SUBSET Rows
      BY <2>1 DEF IInv, TypeOK
  <2>5. bgKept' \subseteq Rows
      BY <2>3 DEF IInv, TypeOK
  <2> HIDE DEF op
  <2> QED BY <2>2, <2>4, <2>5
<1>6. UNCHANGED <<db, queue, activity, lastSent, updater, network, importer>>
    BY DEF Enqueue
<1> QED BY <1>3, <1>4, <1>5, <1>6
      DEF IInv, TypeOK, WpcType, OpType, updater, scratch, network, importer

\* The items of an operation are items.
LEMMA SyncItemType ==
    ASSUME NEW op \in OpType
    PROVE  SyncItem(op) \in Item
BY DEF OpType, SyncItem, Item

\* A writer's step.
LEMMA WriterType ==
    ASSUME IInv, NEW w \in Writers, WriterStep(w)
    PROVE  TypeOK'
<1> USE DEF master, writers, updater, scratch, network, importer, history
<1>1. ASSUME NEW r \in Rows, NEW v \in Content, Prepare(w, r, v) PROVE TypeOK'
  <2>1. used' \in [writes : Nat, breaks : Nat, imports : Nat, faults : Nat]
      BY <1>1, SpendType DEF IInv, Prepare
  <2>2. nextId' \in Nat \ {0}
      BY <1>1 DEF IInv, TypeOK, Prepare
  <2> QED BY <1>1, <2>1, <2>2 DEF IInv, TypeOK, Prepare, Receivers
<1>2. CASE Commit(w)
  <2>1. wop[w] \in OpType
      BY DEF IInv, TypeOK, OpType
  <2>2. wpc' \in [Writers -> WpcType] /\ wop' \in [Writers -> OpType]
      BY <1>2, <2>1, StoresType DEF IInv, Commit
  <2>3. db' \in Database
      BY <1>2, <2>1 DEF IInv, TypeOK, Commit, Database, OpType
  <2>4. followed' \in [Slaves -> SUBSET Rows] /\ bgKept' \subseteq Rows
      BY <1>2 DEF IInv, TypeOK, Commit
  <2> QED BY <1>2, <2>2, <2>3, <2>4 DEF IInv, TypeOK, Commit, WpcType, OpType
<1>3. CASE Rollback(w)
    BY <1>3, IdleOpType DEF IInv, TypeOK, Rollback
<1>4. ASSUME NEW r \in Rows, NEW v \in Content, DirectSave(w, r, v) PROVE TypeOK'
  <2>1. used' \in [writes : Nat, breaks : Nat, imports : Nat, faults : Nat]
      BY <1>4, SpendType DEF IInv, DirectSave
  <2>2. db' \in Database /\ bgKept' \subseteq Rows
      BY <1>4 DEF IInv, TypeOK, DirectSave, Database
  <2> QED BY <1>4, <2>1, <2>2 DEF IInv, TypeOK, DirectSave
<1>5. CASE DirectEnqueue(w)
    BY <1>5, EnqueueType DEF DirectEnqueue, IInv, TypeOK
<1>6. CASE Dispatch(w)
  <2>1. wop[w] \in OpType
      BY DEF IInv, TypeOK, OpType
  <2>2. PICK s \in wop[w].to :
            /\ queue' = [queue EXCEPT ![s] = @ \cup {SyncItem(wop[w])}]
            /\ Stores(w, [wop[w] EXCEPT !.to = wop[w].to \ {s}])
      BY <1>6 DEF Dispatch
  <2>3. [wop[w] EXCEPT !.to = wop[w].to \ {s}] \in OpType
      BY <2>1 DEF OpType
  <2>4. wpc' \in [Writers -> WpcType] /\ wop' \in [Writers -> OpType]
      BY <2>2, <2>3, StoresType DEF IInv
  <2>5. queue' \in [Slaves -> SUBSET Item]
      BY <2>1, <2>2, SyncItemType DEF IInv, TypeOK
  <2> QED BY <1>6, <2>4, <2>5 DEF IInv, TypeOK, Dispatch, WpcType, OpType
<1> QED BY <1>1, <1>2, <1>3, <1>4, <1>5, <1>6 DEF WriterStep

\* What the master makes of a request that ends or goes on.
LEMMA RespondType ==
    ASSUME TypeOK, NEW s \in Slaves, NEW q \in req[s], NEW kind \in ReplyKinds,
           NEW items \in SUBSET Item,
           Respond(s, q, [kind |-> kind, items |-> items])
    PROVE  /\ req' \in [Slaves -> SUBSET RequestType]
           /\ reply' \in [Slaves -> [kind : ReplyKinds, items : SUBSET Item]]
<1>1. [kind |-> kind, items |-> items] \in [kind : ReplyKinds, items : SUBSET Item]
    OBVIOUS
<1>2. reply' \in [Slaves -> [kind : ReplyKinds, items : SUBSET Item]]
    BY <1>1 DEF TypeOK, Respond
<1>3. req[s] \ {q} \in SUBSET RequestType
    BY DEF TypeOK
<1>4. req' \in [Slaves -> SUBSET RequestType]
    BY <1>3 DEF TypeOK, Respond
<1> QED BY <1>2, <1>4

LEMMA AdvanceType ==
    ASSUME TypeOK, NEW s \in Slaves, NEW q \in req[s],
           NEW step \in {"arrived", "serving", "handoff"}, Advance(s, q, step)
    PROVE  /\ req' \in [Slaves -> SUBSET RequestType]
           /\ reply' \in [Slaves -> [kind : ReplyKinds, items : SUBSET Item]]
<1>1. q \in RequestType
    BY DEF TypeOK
<1>2. [q EXCEPT !.step = step] \in RequestType
    BY <1>1 DEF RequestType
<1>3. (req[s] \ {q}) \cup {[q EXCEPT !.step = step]} \in SUBSET RequestType
    BY <1>2 DEF TypeOK
<1> QED BY <1>3 DEF TypeOK, Advance

\* A step of an HTTP handler of the master.
LEMMA HandlerType ==
    ASSUME IInv, NEW s \in Slaves, Handler(s)
    PROVE  TypeOK'
<1> USE DEF master, writers, updater, scratch, network, importer, history
<1> DEFINE NetworkType == /\ req' \in [Slaves -> SUBSET RequestType]
                          /\ reply' \in [Slaves -> [kind : ReplyKinds, items : SUBSET Item]]
<1>1. CASE PollCheck(s)
  <2>1. PICK q \in req[s] :
            \/ Advance(s, q, "serving") \/ Advance(s, q, "handoff")
            \/ Respond(s, q, Reply("busy"))
      BY <1>1 DEF PollCheck
  <2>2. NetworkType
      BY <2>1, AdvanceType, RespondType DEF IInv, Reply, ReplyKinds
  <2> QED BY <1>1, <2>2 DEF IInv, PollCheck, TypeOK
<1>2. CASE PollHandoff(s)
  <2>1. PICK q \in req[s] : Respond(s, q, Reply("processing"))
      BY <1>2 DEF PollHandoff
  <2>2. NetworkType
      BY <2>1, RespondType DEF IInv, Reply, ReplyKinds
  <2> QED BY <1>2, <2>2 DEF IInv, PollHandoff, TypeOK
<1>3. CASE PollServe(s)
  <2> DEFINE sent == FirstItems(queue[s], MaxQueriesNumber)
  <2>1. PICK q \in req[s] :
            Respond(s, q, IF sent = {} THEN Reply("noContent") ELSE ContentReply(sent))
      BY <1>3 DEF PollServe
  <2>2. sent \in SUBSET Item /\ Bounded(sent)
      BY QueueBounded DEF IInv, FirstItems, Bounded
  <2>3. NetworkType
    <3>1. CASE sent = {}
        BY <2>1, <3>1, RespondType DEF IInv, Reply, ReplyKinds
    <3>2. CASE sent # {}
        BY <2>1, <2>2, <3>2, RespondType DEF IInv, ContentReply, ReplyKinds
    <3> QED BY <3>1, <3>2
  <2>4. RangeOf(sent) \in [first : Nat, last : Nat]
      BY <2>2, RangeOfItems
  <2>5. lastSent' \in [Slaves -> [first : Nat, last : Nat]]
      BY <1>3, <2>4 DEF PollServe, IInv, TypeOK
  <2>6. activity' \in [Slaves -> {"never", "recent", "old"}]
      BY <1>3 DEF PollServe, MarkAsUpToDate, IInv, TypeOK
  <2>7. followed' \in [Slaves -> SUBSET Rows] /\ bgKept' \subseteq Rows
      BY <1>3, LoseType DEF IInv, PollServe
  <2> QED BY <1>3, <2>3, <2>5, <2>6, <2>7 DEF IInv, PollServe, TypeOK
<1>4. CASE AckConfirm(s)
  <2>1. PICK q \in req[s] : Respond(s, q, Reply("OK"))
      BY <1>4 DEF AckConfirm
  <2>2. NetworkType
      BY <2>1, RespondType DEF IInv, Reply, ReplyKinds
  <2>3. activity' \in [Slaves -> {"never", "recent", "old"}]
      BY <1>4 DEF AckConfirm, MarkAsUpToDate, IInv, TypeOK
  <2>4. queue' \in [Slaves -> SUBSET Item]
      BY <1>4 DEF AckConfirm, IInv, TypeOK
  <2>5. lastSent' \in [Slaves -> [first : Nat, last : Nat]]
      BY <1>4 DEF AckConfirm, Range0, IInv, TypeOK
  <2>6. followed' \in [Slaves -> SUBSET Rows] /\ bgKept' \subseteq Rows
      BY <1>4, LoseType DEF IInv, AckConfirm
  <2> QED BY <1>4, <2>2, <2>3, <2>4, <2>5, <2>6 DEF IInv, AckConfirm, TypeOK
<1>5. CASE AckRefuse(s)
  <2>1. PICK q \in req[s] : Respond(s, q, Reply("ERROR"))
      BY <1>5 DEF AckRefuse
  <2>2. NetworkType
      BY <2>1, RespondType DEF IInv, Reply, ReplyKinds
  <2> QED BY <1>5, <2>2 DEF IInv, AckRefuse, TypeOK
<1> QED BY <1>1, <1>2, <1>3, <1>4, <1>5 DEF Handler

\* A table that is read, and a statement that is numbered.
LEMMA ReadType ==
    ASSUME NEW rows \in SUBSET Rows, NEW content \in Database, NEW withClear
    PROVE  DumpStatements(rows, content, withClear) \subseteq Statement
<1>1. NoVal \in Content /\ \A r \in rows : content[r] \in Content
    BY DEF Content, Database
<1> QED BY <1>1 DEF DumpStatements, Statement

\* A step of the background updater: the slave being processed is a slave, and the ids of
\* a dump are ids.
LEMMA UpdaterType ==
    ASSUME IInv, Updater
    PROVE  TypeOK'
<1> USE DEF master, writers, updater, scratch, network, importer, history
<1>1. CASE BgTake
    BY <1>1 DEF BgTake, IInv, TypeOK, Processing
<1>2. CASE BgReset
    BY <1>2 DEF BgReset, IInv, TypeOK, Processing
<1>3. CASE BgTest
    BY <1>3 DEF BgTest, IInv, TypeOK, Processing
<1>4. CASE BgCollect
  <2>1. bgItems' \subseteq Item
      BY <1>4 DEF BgCollect, IInv, TypeOK, Processing
  <2> QED BY <1>4, <2>1 DEF BgCollect, IInv, TypeOK, Processing
<1>5. CASE BgDelete
  <2>1. followed' \in [Slaves -> SUBSET Rows] /\ bgKept' \subseteq Rows
      BY <1>5, LoseType DEF IInv, TypeOK, BgDelete, Processing
  <2> QED BY <1>5, <2>1 DEF BgDelete, IInv, TypeOK, Processing
<1>6. CASE BgErase
  <2>1. /\ queue' \in [Slaves -> SUBSET Item] /\ bgItems' \subseteq Item
        /\ bgPc' \in {"lock", "erase"}
      BY <1>6 DEF BgErase, IInv, TypeOK
  <2> QED BY <1>6, <2>1 DEF BgErase, IInv, TypeOK, Processing
<1>7. CASE BgLock
    BY <1>7 DEF BgLock, IInv, TypeOK, Processing
<1>8. CASE BgRead
  <2>1. /\ bgTodo' \subseteq bgTodo /\ bgKept' \subseteq Rows
        /\ \E t : bgLeft' = DumpStatements(RowsOf(t), db, ~Multimaster)
      BY <1>8 DEF BgRead, ReadTable, RowsOf
  <2>2. bgLeft' \subseteq Statement
    <3>1. \A t : RowsOf(t) \in SUBSET Rows
        BY DEF RowsOf
    <3> QED BY <2>1, <3>1, ReadType DEF IInv, TypeOK
  <2> QED BY <1>8, <2>1, <2>2 DEF BgRead, ReadTable, IInv, TypeOK, Processing
<1>9. CASE BgNumber
  <2>1. PICK st \in bgLeft :
            /\ bgLeft' = bgLeft \ {st}
            /\ bgItems' = bgItems \cup {[id |-> nextId, rows |-> st.rows, val |-> st.val]}
      BY <1>9 DEF BgNumber
  <2>2. bgItems' \subseteq Item /\ bgLeft' \subseteq Statement /\ nextId' \in Nat \ {0}
      BY <1>9, <2>1 DEF BgNumber, IInv, TypeOK, Statement, Item
  <2> QED BY <1>9, <2>2 DEF BgNumber, IInv, TypeOK, Processing
<1>10. CASE BgSave
  <2>1. followed' \in [Slaves -> SUBSET Rows] /\ bgKept' = {}
      BY <1>10 DEF BgSave, IInv, TypeOK, Processing
  <2> QED BY <1>10, <2>1 DEF BgSave, IInv, TypeOK, Processing
<1>11. CASE BgDispatch
  <2>1. /\ queue' \in [Slaves -> SUBSET Item] /\ bgItems' \subseteq Item
        /\ bgPc' \in {"dump", "dispatch"}
      BY <1>11 DEF BgDispatch, IInv, TypeOK
  <2> QED BY <1>11, <2>1 DEF BgDispatch, IInv, TypeOK, Processing
<1>12. CASE BgUnlock
    BY <1>12 DEF BgUnlock, IInv, TypeOK, Processing
<1>13. CASE BgMark
    BY <1>13 DEF BgMark, MarkAsUpToDate, IInv, TypeOK, Processing
<1> QED BY <1>1, <1>2, <1>3, <1>4, <1>5, <1>6, <1>7, <1>8, <1>9, <1>10, <1>11, <1>12, <1>13
      DEF Updater

\* A step of the importer of a slave.
LEMMA ImporterType ==
    ASSUME IInv, NEW s \in Slaves, Importer(s)
    PROVE  TypeOK'
<1> USE DEF master, writers, updater, scratch, network, importer, history
<1> DEFINE Steps == {"idle", "polling", "ready", "acking", "applying"}
           Network == [kind : ReplyKinds, items : SUBSET Item]
<1>1. \A to \in Steps : [spc EXCEPT ![s] = to] \in [Slaves -> Steps]
    BY DEF IInv, TypeOK
<1>2. [reply EXCEPT ![s] = NoReply] \in [Slaves -> Network]
    BY DEF IInv, TypeOK, NoReply, ReplyKinds
<1>3. [batch EXCEPT ![s] = {}] \in [Slaves -> SUBSET Item]
    BY DEF IInv, TypeOK
<1>4. CASE StartPoll(s)
  <2>1. Poll(TRUE, "arrived") \in RequestType
      BY DEF Poll, RequestType, Range0
  <2>2. req' \in [Slaves -> SUBSET RequestType]
      BY <1>4, <2>1 DEF StartPoll, IInv, TypeOK
  <2> QED BY <1>1, <1>4, <2>2 DEF StartPoll, ImporterStep, IInv, TypeOK
<1>5. CASE ReceiveNothing(s)
    BY <1>1, <1>2, <1>5 DEF ReceiveNothing, ImporterStep, TakeReply, IInv, TypeOK
<1>6. CASE ReceiveContent(s)
  <2>1. batch' \in [Slaves -> SUBSET Item]
      BY <1>6 DEF ReceiveContent, IInv, TypeOK
  <2> QED BY <1>1, <1>2, <1>6, <2>1 DEF ReceiveContent, ImporterStep, TakeReply, IInv, TypeOK
<1>7. CASE SendAck(s)
  <2>1. RangeOf(batch[s]) \in [first : Nat, last : Nat]
      BY RangeOfItems DEF IInv, TypeOK, ReceivedBounded
  <2>2. Ack(RangeOf(batch[s]), TRUE) \in RequestType
      BY <2>1 DEF Ack, RequestType
  <2>3. req' \in [Slaves -> SUBSET RequestType]
      BY <1>7, <2>2 DEF SendAck, IInv, TypeOK
  <2> QED BY <1>1, <1>7, <2>3 DEF SendAck, ImporterStep, IInv, TypeOK
<1>8. CASE ReceiveOK(s)
    BY <1>1, <1>2, <1>8 DEF ReceiveOK, ImporterStep, TakeReply, IInv, TypeOK
<1>9. CASE ReceiveError(s)
    BY <1>1, <1>2, <1>3, <1>9 DEF ReceiveError, ImporterStep, TakeReply, IInv, TypeOK
<1>10. CASE ApplyBatch(s)
  <2>1. Apply(batch[s], sdb[s]) \in Database
      BY ApplyType DEF IInv, TypeOK, ReceivedBounded
  <2>2. sdb' \in [Slaves -> Database]
      BY <1>10, <2>1 DEF ApplyBatch, IInv, TypeOK
  <2> QED BY <1>1, <1>3, <1>10, <2>2 DEF ApplyBatch, ImporterStep, IInv, TypeOK
<1>11. CASE ReceiveFailure(s)
    BY <1>1, <1>2, <1>3, <1>11 DEF ReceiveFailure, TakeReply, IInv, TypeOK
<1> QED BY <1>4, <1>5, <1>6, <1>7, <1>8, <1>9, <1>10, <1>11 DEF Importer

\* A handler that fails leaves the queue alone, or has deleted what an acknowledgement confirms.
FailedAck(s) ==
    LET cleared == InRange(queue[s], lastSent[s]) IN
    /\ queue' = [queue EXCEPT ![s] = @ \ cleared]
    /\ Lose(s, TouchedBy(cleared))

LEMMA HandlerFailsCases ==
    ASSUME NEW s, HandlerFails(s)
    PROVE  UNCHANGED <<queue, followed, bgKept>> \/ FailedAck(s)
BY ZenonT(30) DEF HandlerFails, FailedAck, history

\* Time, the administrator, the other import and the faults.
LEMMA EnvironmentType ==
    ASSUME IInv,
           \/ \E s \in Slaves :
                \/ LinkBreak(s) \/ ResetSlave(s)
                \/ ImportFails(s) \/ LoseRequest(s) \/ HandlerFails(s)
           \/ \E w \in Writers : EnqueueFails(w)
           \/ DumpFails \/ OtherImportStarts \/ OtherImportEnds \/ MasterRestart
    PROVE  TypeOK'
<1> USE DEF master, writers, updater, scratch, network, importer, history
<1> DEFINE UsedType == used' \in [writes : Nat, breaks : Nat, imports : Nat, faults : Nat]
<1>1. ASSUME NEW s \in Slaves, LinkBreak(s) \/ ResetSlave(s) PROVE TypeOK'
  <2>1. UsedType
      BY <1>1, SpendType DEF IInv, LinkBreak, ResetSlave, Incident
  <2>2. UNCHANGED <<db, nextId, queue, lastSent, writers, updater, network, importer, history>>
    <3> USE DEF LinkBreak, ResetSlave
    <3>1. UNCHANGED <<db, nextId, queue, lastSent, followed, bgKept>>
        BY <1>1
    <3>2. UNCHANGED <<wpc, wop, bgNextSlave, bgPc, bgSlave, bgTodo, bgLeft, bgItems, baseWriter>>
        BY <1>1
    <3>3. UNCHANGED <<req, reply, spc, batch, sdb>>
        BY <1>1
    <3> QED BY <3>1, <3>2, <3>3
  <2>3. activity' \in [Slaves -> {"never", "recent", "old"}]
    <3>1. activity \in [Slaves -> {"never", "recent", "old"}]
        BY DEF IInv, TypeOK
    <3>2. \/ activity' = [activity EXCEPT ![s] = "old"]
          \/ activity' = [activity EXCEPT ![s] = "never"]
        BY <1>1 DEF LinkBreak, ResetSlave
    <3> QED BY <3>1, <3>2
  <2> QED BY <2>1, <2>2, <2>3 DEF IInv, TypeOK
<1>2. ASSUME NEW s \in Slaves, ImportFails(s) PROVE TypeOK'
  <2>1. UsedType
      BY <1>2, SpendType DEF IInv, ImportFails, Incident
  <2>2. Abandon(req[s]) \in SUBSET RequestType
    <3>1. \A q \in RequestType : [q EXCEPT !.live = FALSE] \in RequestType
        BY DEF RequestType
    <3> QED BY <3>1 DEF IInv, TypeOK, Abandon
  <2>3. req' \in [Slaves -> SUBSET RequestType]
      BY <1>2, <2>2 DEF ImportFails, IInv, TypeOK
  <2>4. reply' \in [Slaves -> [kind : ReplyKinds, items : SUBSET Item]]
      BY <1>2 DEF ImportFails, NoReply, ReplyKinds, IInv, TypeOK
  <2>5. /\ spc' \in [Slaves -> {"idle", "polling", "ready", "acking", "applying"}]
        /\ batch' \in [Slaves -> SUBSET Item]
        /\ followed' \in [Slaves -> SUBSET Rows]
      BY <1>2 DEF ImportFails, IInv, TypeOK
  <2> QED BY <1>2, <2>1, <2>3, <2>4, <2>5 DEF ImportFails, IInv, TypeOK
<1>3. ASSUME NEW s \in Slaves, LoseRequest(s) PROVE TypeOK'
    BY <1>3 DEF LoseRequest, IInv, TypeOK
<1>4. CASE OtherImportStarts
    BY <1>4, SpendType DEF OtherImportStarts, IInv, TypeOK
<1>5. CASE OtherImportEnds
    BY <1>5 DEF OtherImportEnds, IInv, TypeOK
<1>6. CASE MasterRestart
  <2>1. UsedType
      BY <1>6, SpendType DEF IInv, MasterRestart, Incident
  <2>2. nextId' \in Nat \ {0}
      BY <1>6 DEF MasterRestart, IInv, TypeOK
  <2>3. lastSent' \in [Slaves -> [first : Nat, last : Nat]]
      BY <1>6 DEF MasterRestart, Range0
  <2>4. /\ wpc' \in [Writers -> {"idle", "prepared", "saved", "dispatching"}]
        /\ wop' \in [Writers -> [row : Rows, val : Content, id : Nat, to : SUBSET Slaves]]
      BY <1>6, IdleOpType DEF MasterRestart
  <2>5. /\ req' \in [Slaves -> SUBSET RequestType]
        /\ reply' \in [Slaves -> [kind : ReplyKinds, items : SUBSET Item]]
      BY <1>6 DEF MasterRestart, NoReply, ReplyKinds
  <2>6. /\ spc' \in [Slaves -> {"idle", "polling", "ready", "acking", "applying"}]
        /\ batch' \in [Slaves -> SUBSET Item]
        /\ followed' \in [Slaves -> SUBSET Rows]
      BY <1>6 DEF MasterRestart, IInv, TypeOK
  <2>7. queue' \in [Slaves -> SUBSET Item]
      BY <1>6, StoredType DEF MasterRestart, IInv
  <2> QED BY <1>6, <2>1, <2>2, <2>3, <2>4, <2>5, <2>6, <2>7
        DEF MasterRestart, IInv, TypeOK, Processing
<1>7. ASSUME NEW s \in Slaves, HandlerFails(s) PROVE TypeOK'
  <2>1. UsedType
      BY <1>7, SpendType DEF IInv, HandlerFails, Incident
  <2>2. PICK q \in req[s] : Respond(s, q, Reply("failure"))
      BY <1>7 DEF HandlerFails
  <2>3. /\ req' \in [Slaves -> SUBSET RequestType]
        /\ reply' \in [Slaves -> [kind : ReplyKinds, items : SUBSET Item]]
      BY <2>2, RespondType DEF IInv, Reply, ReplyKinds
  <2>4. RangeOf(FirstItems(queue[s], MaxQueriesNumber)) \in [first : Nat, last : Nat]
    <3>1. FirstItems(queue[s], MaxQueriesNumber) \in SUBSET Item
        BY QueueBounded DEF IInv, FirstItems
    <3>2. Bounded(FirstItems(queue[s], MaxQueriesNumber))
        BY QueueBounded DEF IInv, FirstItems, Bounded
    <3> QED BY <3>1, <3>2, RangeOfItems
  <2>5. lastSent' \in [Slaves -> [first : Nat, last : Nat]]
    <3>1. \/ lastSent' = [lastSent EXCEPT ![s] = RangeOf(FirstItems(queue[s], MaxQueriesNumber))]
          \/ lastSent' = [lastSent EXCEPT ![s] = Range0]
        BY <1>7, Zenon DEF HandlerFails
    <3>2. Range0 \in [first : Nat, last : Nat]
        BY DEF Range0
    <3>3. lastSent \in [Slaves -> [first : Nat, last : Nat]]
        BY DEF IInv, TypeOK
    <3> QED BY <2>4, <3>1, <3>2, <3>3
  <2>6. activity' \in [Slaves -> {"never", "recent", "old"}]
      BY <1>7 DEF HandlerFails, MarkAsUpToDate, IInv, TypeOK
  <2>7. /\ queue' \in [Slaves -> SUBSET Item]
        /\ followed' \in [Slaves -> SUBSET Rows] /\ bgKept' \subseteq Rows
    <3>1. queue \in [Slaves -> SUBSET Item]
        BY DEF IInv, TypeOK
    <3>2. CASE UNCHANGED <<queue, followed, bgKept>>
        BY <3>2 DEF IInv, TypeOK
    <3>3. CASE FailedAck(s)
        BY <3>1, <3>3, LoseType DEF IInv, FailedAck
    <3> QED BY <1>7, <3>2, <3>3, HandlerFailsCases
  <2> QED BY <1>7, <2>1, <2>3, <2>5, <2>6, <2>7 DEF HandlerFails, IInv, TypeOK
<1>8. ASSUME NEW w \in Writers, EnqueueFails(w) PROVE TypeOK'
  <2>1. UsedType
      BY <1>8, SpendType DEF IInv, EnqueueFails, Incident
  <2>2. PICK to \in SUBSET Receivers : Enqueue(w, to)
      BY <1>8 DEF EnqueueFails
  <2> QED BY <2>1, <2>2, EnqueueType
<1>9. CASE DumpFails
  <2>1. UsedType
      BY <1>9, SpendType DEF IInv, DumpFails, Incident
  <2>2. bgTodo' \subseteq Tables /\ bgPc \in Processing /\ bgPc' \in {"mark", "dump"}
      BY <1>9 DEF DumpFails, IInv, TypeOK, Processing
  <2> QED BY <1>9, <2>1, <2>2 DEF DumpFails, IInv, TypeOK, Processing
<1> QED BY <1>1, <1>2, <1>3, <1>4, <1>5, <1>6, <1>7, <1>8, <1>9

-----------------------------------------------------------------------------
(* Every step keeps the ids of items distinct. *)

\* What FreshIds says of one set of items.
QueueFresh(items, next) ==
    \A i \in items : /\ 0 < i.id /\ i.id < next
                     /\ \A j \in items : i.id = j.id => i = j

\* The items of a slave that are in its queue, or in the hands of the updater.
Held(s) == queue[s] \cup BgItems(s, Processing)

\* The items the updater has numbered are not those of the queue.
Apart(s) == BgItems(s, {"number", "dispatch"}) \cap queue[s] = {}

\* The id writer w has taken for slave s is its own.
OwnId(w, s) ==
    /\ 0 < wop[w].id /\ wop[w].id < nextId
    /\ \A i \in Held(s) : i.id # wop[w].id
    /\ \A x \in Writers \ {w} : s \in wop[x].to => wop[x].id # wop[w].id

LEMMA FreshParts ==
    FreshIds <=> \A s \in Slaves : /\ QueueFresh(Held(s), nextId) /\ Apart(s)
                                   /\ \A w \in Writers : s \in wop[w].to => OwnId(w, s)
BY DEF FreshIds, QueueFresh, Held, Apart, OwnId

LEMMA FreshPartsNext ==
    FreshIds' <=> \A s \in Slaves : /\ QueueFresh(Held(s)', nextId') /\ Apart(s)'
                                    /\ \A w \in Writers : s \in wop'[w].to => OwnId(w, s)'
BY DEF FreshIds, QueueFresh, Held, Apart, OwnId

\* Ids and the receivers of operations are of the right types.
LEMMA HeldTypes ==
    ASSUME IInv
    PROVE  /\ nextId \in Nat \ {0} /\ wop \in [Writers -> OpType]
           /\ \A s \in Slaves : Held(s) \in SUBSET Item
           /\ \A s \in Slaves : \A i \in Held(s) : i.id \in Nat /\ i.id < nextId
           /\ \A w \in Writers : wop[w].id \in Nat /\ wop[w].to \subseteq Slaves
<1>1. nextId \in Nat \ {0} /\ wop \in [Writers -> OpType]
    BY DEF IInv, TypeOK, OpType
<1>2. \A s \in Slaves : Held(s) \in SUBSET Item
    BY DEF IInv, TypeOK, Held, BgItems
<1>3. \A s \in Slaves : QueueFresh(Held(s), nextId)
    BY FreshParts DEF IInv
<1> QED BY <1>1, <1>2, <1>3 DEF QueueFresh, Item, OpType

\* Removing items from queues, and receivers from operations, keeps ids fresh.
LEMMA FewerIdsFresh ==
    ASSUME IInv, nextId' = nextId,
           \A s \in Slaves : Held(s)' \subseteq Held(s) /\ Apart(s)',
           \A w \in Writers : wop'[w].to \subseteq wop[w].to,
           \A w \in Writers : wop'[w].id = wop[w].id \/ wop'[w].to = {}
    PROVE  FreshIds'
<1> SUFFICES ASSUME NEW s \in Slaves
             PROVE  /\ QueueFresh(Held(s)', nextId') /\ Apart(s)'
                    /\ \A w \in Writers : s \in wop'[w].to => OwnId(w, s)'
    BY FreshPartsNext
<1>1. /\ QueueFresh(Held(s), nextId)
      /\ \A w \in Writers : s \in wop[w].to => OwnId(w, s)
    BY FreshParts DEF IInv
<1>2. QueueFresh(Held(s)', nextId')
    BY <1>1 DEF QueueFresh
<1>3. ASSUME NEW w \in Writers, s \in wop'[w].to PROVE OwnId(w, s)'
  <2>1. OwnId(w, s) /\ wop'[w].id = wop[w].id
      BY <1>1, <1>3
  <2>2. \A x \in Writers : s \in wop'[x].to => s \in wop[x].to /\ wop'[x].id = wop[x].id
      OBVIOUS
  <2> QED BY <2>1, <2>2 DEF OwnId
<1> QED BY <1>2, <1>3

\* A step that changes neither queues nor operations, and leaves the updater nothing it did
\* not hold.
LEMMA SameIdsFresh ==
    ASSUME IInv, UNCHANGED <<nextId, queue, wop>>,
           UNCHANGED <<bgPc, bgSlave, bgItems>> \/ bgItems' = {}
    PROVE  FreshIds'
<1>1. ASSUME NEW s \in Slaves PROVE Held(s)' \subseteq Held(s) /\ Apart(s)'
  <2>1. Apart(s)
      BY FreshParts DEF IInv
  <2> QED BY <2>1 DEF Held, Apart, BgItems
<1> QED BY <1>1, FewerIdsFresh

\* A modification that is prepared, or queued after it was saved, takes its id from the
\* auto-increment.
LEMMA NewOpFresh ==
    ASSUME IInv, NEW w \in Writers, UNCHANGED <<queue, bgPc, bgSlave, bgItems>>,
           nextId' = IF Receivers = {} THEN nextId ELSE nextId + 1,
           \A x \in Writers \ {w} : wop'[x] = wop[x],
           wop'[w].to \subseteq Receivers, wop'[w].id = nextId \/ wop'[w].to = {}
    PROVE  FreshIds'
<1>types. /\ nextId \in Nat \ {0}
          /\ \A s \in Slaves : \A i \in Held(s) : i.id \in Nat /\ i.id < nextId
          /\ \A x \in Writers : wop[x].id \in Nat /\ wop[x].to \subseteq Slaves
    BY HeldTypes
<1> SUFFICES ASSUME NEW s \in Slaves
             PROVE  /\ QueueFresh(Held(s)', nextId') /\ Apart(s)'
                    /\ \A x \in Writers : s \in wop'[x].to => OwnId(x, s)'
    BY FreshPartsNext
<1>1. /\ QueueFresh(Held(s), nextId) /\ Apart(s)
      /\ \A x \in Writers : s \in wop[x].to => OwnId(x, s)
    BY FreshParts DEF IInv
<1>2. Held(s)' = Held(s) /\ Apart(s)'
    BY <1>1 DEF Held, BgItems, Apart
<1>3. nextId <= nextId' /\ nextId' \in Nat
    BY <1>types
<1>4. QueueFresh(Held(s)', nextId')
    BY <1>types, <1>1, <1>2, <1>3 DEF QueueFresh
<1>5. ASSUME NEW x \in Writers, s \in wop'[x].to PROVE OwnId(x, s)'
  <2>1. CASE x = w
    <3>1. wop'[w].id = nextId /\ nextId' = nextId + 1
        BY <1>5, <2>1
    <3>2. \A y \in Writers \ {w} : s \in wop'[y].to => wop'[y].id < nextId /\ wop'[y].id \in Nat
        BY <1>types, <1>1 DEF OwnId
    <3>3. \A i \in Held(s)' : i.id # nextId
        BY <1>types, <1>2
    <3>4. 0 < nextId /\ nextId < nextId + 1
        BY <1>types
    <3>5. \A y \in Writers \ {w} : s \in wop'[y].to => wop'[y].id # nextId
        BY <1>types, <3>2
    <3> QED BY <2>1, <3>1, <3>3, <3>4, <3>5 DEF OwnId
  <2>2. CASE x # w
    <3>1. wop'[x] = wop[x] /\ OwnId(x, s)
        BY <1>1, <1>5, <2>2
    <3>2. 0 < wop[x].id /\ wop[x].id < nextId'
        BY <1>types, <1>3, <3>1 DEF OwnId
    <3>3. s \in wop'[w].to => wop'[w].id # wop[x].id
        BY <1>types, <3>1 DEF OwnId
    <3>4. \A y \in Writers \ {x} : s \in wop'[y].to => wop'[y].id # wop[x].id
        BY <3>1, <3>3 DEF OwnId
    <3>5. \A i \in Held(s)' : i.id # wop[x].id
        BY <1>2, <3>1 DEF OwnId
    <3> QED BY <3>1, <3>2, <3>4, <3>5 DEF OwnId
  <2> QED BY <2>1, <2>2
<1> QED BY <1>2, <1>4, <1>5

\* An operation that goes on, or is done.
LEMMA StoresOp ==
    ASSUME wop \in [Writers -> OpType], NEW w \in Writers, NEW op, Stores(w, op)
    PROVE  /\ \A x \in Writers \ {w} : wop'[x] = wop[x]
           /\ wop'[w] = IF op.to = {} THEN IdleOp ELSE op
           /\ wop'[w].to = op.to
BY IdleOpType DEF Stores

LEMMA EnqueueFresh ==
    ASSUME IInv, NEW w \in Writers, NEW to \in SUBSET Receivers, Enqueue(w, to)
    PROVE  FreshIds'
<1> DEFINE op == [wop[w] EXCEPT !.id = nextId, !.to = to]
<1>1. wop \in [Writers -> OpType]
    BY HeldTypes
<1>2. op.id = nextId /\ op.to = to
    BY <1>1 DEF OpType
<1>3. Stores(w, op)
    BY DEF Enqueue
<1>4. /\ UNCHANGED <<queue, bgPc, bgSlave, bgItems>>
      /\ nextId' = IF Receivers = {} THEN nextId ELSE nextId + 1
    BY DEF Enqueue, updater, scratch
<1> HIDE DEF op
<1>5. /\ \A x \in Writers \ {w} : wop'[x] = wop[x]
      /\ wop'[w].to = to /\ (wop'[w].id = nextId \/ wop'[w].to = {})
    BY <1>1, <1>2, <1>3, StoresOp
<1> QED BY <1>4, <1>5, NewOpFresh

\* The item of a writer gets into a queue.
LEMMA DispatchFresh ==
    ASSUME IInv, NEW w \in Writers, Dispatch(w)
    PROVE  FreshIds'
<1>types. /\ wop \in [Writers -> OpType]
          /\ \A x \in Writers : wop[x].id \in Nat /\ wop[x].to \subseteq Slaves
    BY HeldTypes
<1>1. PICK t \in wop[w].to :
            /\ queue' = [queue EXCEPT ![t] = @ \cup {SyncItem(wop[w])}]
            /\ Stores(w, [wop[w] EXCEPT !.to = wop[w].to \ {t}])
            /\ UNCHANGED <<nextId, bgPc, bgSlave, bgItems>>
    BY DEF Dispatch, updater, scratch
<1> DEFINE op == [wop[w] EXCEPT !.to = wop[w].to \ {t}]
<1>2. op.id = wop[w].id /\ op.to = wop[w].to \ {t}
    BY <1>types DEF OpType
<1> HIDE DEF op
<1>3. /\ \A x \in Writers \ {w} : wop'[x] = wop[x]
      /\ wop'[w].to = wop[w].to \ {t} /\ (wop'[w].id = wop[w].id \/ wop'[w].to = {})
    BY <1>types, <1>1, <1>2, StoresOp DEF op
<1>4. SyncItem(wop[w]).id = wop[w].id /\ t \in Slaves /\ queue \in [Slaves -> SUBSET Item]
    BY <1>types DEF SyncItem, IInv, TypeOK
<1> SUFFICES ASSUME NEW s \in Slaves
             PROVE  /\ QueueFresh(Held(s)', nextId') /\ Apart(s)'
                    /\ \A x \in Writers : s \in wop'[x].to => OwnId(x, s)'
    BY FreshPartsNext
<1>5. /\ QueueFresh(Held(s), nextId) /\ Apart(s)
      /\ \A x \in Writers : s \in wop[x].to => OwnId(x, s)
    BY FreshParts DEF IInv
<1>6. \A x \in Writers : s \in wop'[x].to => s \in wop[x].to /\ wop'[x].id = wop[x].id
    BY <1>3
<1>7. CASE s # t
  <2>1. Held(s)' = Held(s) /\ Apart(s)'
      BY <1>1, <1>4, <1>5, <1>7 DEF Held, BgItems, Apart
  <2> QED BY <2>1, <1>1, <1>5, <1>6 DEF OwnId
<1>8. CASE s = t
  <2>1. queue'[s] = queue[s] \cup {SyncItem(wop[w])}
      BY <1>1, <1>4, <1>8
  <2>2. Held(s)' = Held(s) \cup {SyncItem(wop[w])}
      BY <1>1, <2>1 DEF Held, BgItems
  <2>3. OwnId(w, s)
      BY <1>1, <1>5, <1>8
  <2>4. QueueFresh(Held(s)', nextId')
      BY <1>1, <1>4, <1>5, <2>2, <2>3 DEF QueueFresh, OwnId
  <2>5. BgItems(s, {"number", "dispatch"})' = BgItems(s, {"number", "dispatch"})
      BY <1>1 DEF BgItems
  <2>6. BgItems(s, {"number", "dispatch"}) \subseteq Held(s)
      BY DEF Held, BgItems, Processing
  <2>7. Apart(s)'
      BY <1>4, <1>5, <2>1, <2>3, <2>5, <2>6 DEF Apart, OwnId
  <2>8. ASSUME NEW x \in Writers, s \in wop'[x].to PROVE OwnId(x, s)'
    <3>1. x # w /\ wop'[x] = wop[x] /\ OwnId(x, s)
        BY <1>3, <1>5, <1>8, <2>8
    <3>2. wop[x].id # wop[w].id
        BY <1>1, <1>8, <3>1 DEF OwnId
    <3> QED BY <1>1, <1>4, <1>6, <2>2, <3>1, <3>2 DEF OwnId
  <2> QED BY <2>4, <2>7, <2>8
<1> QED BY <1>7, <1>8

\* A writer's step: the id of a transaction is taken when it is prepared, and enters the
\* queues when it is dispatched.
LEMMA WriterFresh ==
    ASSUME IInv, NEW w \in Writers, WriterStep(w)
    PROVE  FreshIds'
<1>types. wop \in [Writers -> OpType] /\ IdleOp.to = {}
    BY HeldTypes, IdleOpType
<1> USE DEF updater, scratch
<1>fewer. ASSUME UNCHANGED <<nextId, queue, bgPc, bgSlave, bgItems>>,
                 \A x \in Writers \ {w} : wop'[x] = wop[x],
                 wop'[w] = wop[w] \/ wop'[w].to = {}
          PROVE  FreshIds'
  <2>1. \A s \in Slaves : Held(s)' \subseteq Held(s) /\ Apart(s)'
    <3>1. \A s \in Slaves : Apart(s)
        BY FreshParts DEF IInv
    <3> QED BY <3>1, <1>fewer DEF Held, Apart, BgItems
  <2> QED BY <2>1, <1>fewer, FewerIdsFresh
<1>1. ASSUME NEW r \in Rows, NEW v \in Content, Prepare(w, r, v) PROVE FreshIds'
  <2>1. /\ wop' = [wop EXCEPT ![w] = [row |-> r, val |-> v, id |-> nextId, to |-> Receivers]]
        /\ UNCHANGED <<queue, bgPc, bgSlave, bgItems>>
        /\ nextId' = IF Receivers = {} THEN nextId ELSE nextId + 1
      BY <1>1 DEF Prepare
  <2>2. /\ \A x \in Writers \ {w} : wop'[x] = wop[x]
        /\ wop'[w].to = Receivers /\ wop'[w].id = nextId
      BY <1>types, <2>1
  <2> QED BY <2>1, <2>2, NewOpFresh
<1>2. CASE Commit(w)
  <2>1. Stores(w, wop[w]) /\ UNCHANGED <<nextId, queue, bgPc, bgSlave, bgItems>>
      BY <1>2 DEF Commit
  <2>2. \A x \in Writers \ {w} : wop'[x] = wop[x]
      BY <1>types, <2>1, StoresOp
  <2>3. wop'[w] = wop[w] \/ wop'[w].to = {}
      BY <1>types, <2>1, StoresOp
  <2> QED BY <1>fewer, <2>1, <2>2, <2>3
<1>3. CASE Rollback(w)
  <2>1. wop' = [wop EXCEPT ![w] = IdleOp] /\ UNCHANGED <<nextId, queue, bgPc, bgSlave, bgItems>>
      BY <1>3 DEF Rollback, master
  <2>2. wop'[w] = IdleOp /\ \A x \in Writers \ {w} : wop'[x] = wop[x]
      BY <1>types, <2>1
  <2> QED BY <1>types, <1>fewer, <2>1, <2>2
<1>4. ASSUME NEW r \in Rows, NEW v \in Content, DirectSave(w, r, v) PROVE FreshIds'
  <2>1. /\ wop' = [wop EXCEPT ![w] = [row |-> r, val |-> v, id |-> 0, to |-> {}]]
        /\ UNCHANGED <<nextId, queue, bgPc, bgSlave, bgItems>>
      BY <1>4 DEF DirectSave
  <2>2. wop'[w].to = {} /\ \A x \in Writers \ {w} : wop'[x] = wop[x]
      BY <1>types, <2>1
  <2> QED BY <1>fewer, <2>1, <2>2
<1>5. CASE DirectEnqueue(w)
    BY <1>5, EnqueueFresh DEF DirectEnqueue
<1>6. CASE Dispatch(w)
    BY <1>6, DispatchFresh
<1> QED BY <1>1, <1>2, <1>3, <1>4, <1>5, <1>6 DEF WriterStep

\* A dump takes ids no queue and no transaction has.
LEMMA NumberFresh ==
    ASSUME IInv, BgNumber
    PROVE  FreshIds'
<1>types. /\ nextId \in Nat \ {0} /\ bgSlave \in Slaves
          /\ \A s \in Slaves : \A i \in Held(s) : i.id \in Nat /\ i.id < nextId
          /\ \A x \in Writers : wop[x].id \in Nat
    BY HeldTypes DEF BgNumber, IInv, TypeOK, Processing
<1>1. PICK st \in bgLeft :
            bgItems' = bgItems \cup {[id |-> nextId, rows |-> st.rows, val |-> st.val]}
    BY DEF BgNumber
<1>2. /\ UNCHANGED <<queue, bgSlave, bgPc, wop>> /\ nextId' = nextId + 1 /\ bgPc = "number"
    BY DEF BgNumber, writers
<1> DEFINE new == [id |-> nextId, rows |-> st.rows, val |-> st.val]
<1>3. new.id = nextId /\ bgItems' = bgItems \cup {new}
    BY <1>1
<1> HIDE DEF new
<1> SUFFICES ASSUME NEW s \in Slaves
             PROVE  /\ QueueFresh(Held(s)', nextId') /\ Apart(s)'
                    /\ \A x \in Writers : s \in wop'[x].to => OwnId(x, s)'
    BY FreshPartsNext
<1>4. /\ QueueFresh(Held(s), nextId) /\ Apart(s)
      /\ \A x \in Writers : s \in wop[x].to => OwnId(x, s)
    BY FreshParts DEF IInv
<1>5. Held(s)' \subseteq Held(s) \cup {new}
    BY <1>2, <1>3 DEF Held, BgItems
<1>6. QueueFresh(Held(s)', nextId')
    BY <1>types, <1>2, <1>3, <1>4, <1>5 DEF QueueFresh
<1>7. Apart(s)'
  <2>1. new \notin queue[s]
      BY <1>types, <1>3 DEF Held
  <2> QED BY <1>2, <1>3, <1>4, <2>1 DEF Apart, BgItems
<1>8. ASSUME NEW x \in Writers, s \in wop'[x].to PROVE OwnId(x, s)'
  <2>1. OwnId(x, s) /\ wop'[x] = wop[x] /\ wop[x].id \in Nat
      BY <1>types, <1>2, <1>4, <1>8
  <2>2. 0 < wop[x].id /\ wop[x].id < nextId /\ wop[x].id < nextId'
      BY <1>types, <1>2, <2>1 DEF OwnId
  <2>3. \A i \in Held(s)' : i.id # wop[x].id
      BY <1>types, <1>3, <1>5, <2>1, <2>2 DEF OwnId
  <2> QED BY <1>2, <2>1, <2>2, <2>3 DEF OwnId
<1> QED BY <1>6, <1>7, <1>8

LEMMA UpdaterFresh ==
    ASSUME IInv, Updater
    PROVE  FreshIds'
<1> USE DEF master, writers, scratch
<1>slave. wop \in [Writers -> OpType] /\ queue \in [Slaves -> SUBSET Item]
    BY DEF IInv, TypeOK, OpType
<1>fresh. \A s \in Slaves : Apart(s)
    BY FreshParts DEF IInv
<1>1. CASE BgNumber
    BY <1>1, NumberFresh
<1>2. CASE BgTake \/ BgReset \/ BgTest \/ BgLock \/ BgRead \/ BgUnlock \/ BgMark
  <2>1. UNCHANGED <<nextId, queue, wop, bgItems>>
      BY <1>2 DEF BgTake, BgReset, BgTest, BgLock, BgRead, ReadTable, BgUnlock, BgMark
  <2>2. bgItems = {}
      BY <1>2 DEF BgTake, BgReset, BgTest, BgLock, BgRead, ReadTable, BgUnlock, BgMark,
          IInv, ScratchEmpty
  <2> QED BY <2>1, <2>2, SameIdsFresh
<1>3. CASE BgCollect
  <2>1. /\ UNCHANGED <<nextId, queue, wop, bgSlave>> /\ bgItems' = queue[bgSlave]
        /\ bgPc' = "delete"
      BY <1>3 DEF BgCollect
  <2>2. \A s \in Slaves : Held(s)' \subseteq Held(s) /\ Apart(s)'
      BY <2>1 DEF Held, Apart, BgItems
  <2> QED BY <2>1, <2>2, FewerIdsFresh
<1>4. CASE BgDelete
  <2>1. /\ UNCHANGED <<nextId, queue, wop, bgSlave, bgItems>>
        /\ bgPc = "delete" /\ bgPc' \in {"lock", "erase"}
      BY <1>4 DEF BgDelete
  <2>2. \A s \in Slaves : Held(s)' \subseteq Held(s) /\ Apart(s)'
      BY <2>1 DEF Held, Apart, BgItems, Processing
  <2> QED BY <2>1, <2>2, FewerIdsFresh
<1>5. CASE BgErase
  <2>1. PICK i \in bgItems : /\ queue' = [queue EXCEPT ![bgSlave] = @ \ {i}]
                             /\ bgItems' = bgItems \ {i}
      BY <1>5 DEF BgErase
  <2>2. /\ UNCHANGED <<nextId, wop, bgSlave>>
        /\ bgPc = "erase" /\ bgPc' \in {"lock", "erase"}
      BY <1>5 DEF BgErase
  <2>3. \A s \in Slaves : Held(s)' \subseteq Held(s) /\ Apart(s)'
      BY <1>slave, <2>1, <2>2 DEF Held, Apart, BgItems, Processing
  <2> QED BY <2>2, <2>3, FewerIdsFresh
<1>6. CASE BgSave
  <2>1. /\ UNCHANGED <<nextId, queue, wop, bgSlave, bgItems>>
        /\ bgPc = "number" /\ bgPc' \in {"dump", "dispatch"}
      BY <1>6 DEF BgSave
  <2>2. \A s \in Slaves : Held(s)' \subseteq Held(s) /\ Apart(s)'
      BY <1>fresh, <2>1 DEF Held, Apart, BgItems, Processing
  <2> QED BY <2>1, <2>2, FewerIdsFresh
<1>7. CASE BgDispatch
  <2>1. PICK i \in bgItems : /\ queue' = [queue EXCEPT ![bgSlave] = @ \cup {i}]
                             /\ bgItems' = bgItems \ {i}
      BY <1>7 DEF BgDispatch
  <2>2. /\ UNCHANGED <<nextId, wop, bgSlave>>
        /\ bgPc = "dispatch" /\ bgPc' \in {"dump", "dispatch"}
      BY <1>7 DEF BgDispatch
  <2>3. \A s \in Slaves : Held(s)' \subseteq Held(s) /\ Apart(s)'
      BY <1>slave, <1>fresh, <2>1, <2>2 DEF Held, Apart, BgItems, Processing
  <2> QED BY <2>2, <2>3, FewerIdsFresh
<1> QED BY <1>1, <1>2, <1>3, <1>4, <1>5, <1>6, <1>7 DEF Updater

\* The items stored for a slave, in its queue or on their way, have ids of their own.
LEMMA StoredFresh ==
    ASSUME IInv, NEW s \in Slaves
    PROVE  /\ QueueFresh(queue[s] \cup Coming(s), nextId)
           /\ QueueFresh(Stored(s), nextId)
           /\ Stored(s) \subseteq queue[s] \cup Coming(s)
<1>1. /\ QueueFresh(Held(s), nextId)
      /\ \A w \in Writers : s \in wop[w].to => OwnId(w, s)
    BY FreshParts DEF IInv
<1> DEFINE moving == Dispatching(s)
<1>2. \A i \in moving : \E w \in Writers : s \in wop[w].to /\ i = SyncItem(wop[w])
    BY DEF Dispatching
<1>3. \A op : SyncItem(op).id = op.id
    BY DEF SyncItem
<1> HIDE DEF moving
<1>4. queue[s] \cup Coming(s) \subseteq Held(s) \cup moving
    BY DEF Coming, Held, BgItems, Processing, moving
<1>5. \A i \in moving : /\ 0 < i.id /\ i.id < nextId
                        /\ \A j \in Held(s) : i.id # j.id
                        /\ \A j \in moving : i.id = j.id => i = j
    BY <1>1, <1>2, <1>3 DEF OwnId
<1>6. QueueFresh(Held(s) \cup moving, nextId)
    BY <1>1, <1>5 DEF QueueFresh
<1>7. Stored(s) \subseteq queue[s] \cup Coming(s)
    BY DEF Stored, Coming, BgItems
<1> QED BY <1>4, <1>6, <1>7 DEF QueueFresh

\* The others only remove items; a restart goes on from the greatest id left.
LEMMA OtherFresh ==
    ASSUME IInv,
           \/ \E s \in Slaves :
                \/ Handler(s) \/ Importer(s)
                \/ LinkBreak(s) \/ ResetSlave(s)
                \/ ImportFails(s) \/ LoseRequest(s) \/ HandlerFails(s)
           \/ \E w \in Writers : EnqueueFails(w)
           \/ DumpFails \/ OtherImportStarts \/ OtherImportEnds \/ MasterRestart
    PROVE  FreshIds'
<1> USE DEF master, writers, updater, scratch
<1>less. ASSUME NEW s \in Slaves, UNCHANGED <<nextId, wop, bgPc, bgSlave, bgItems>>,
                \A x \in Slaves : queue'[x] \subseteq queue[x]
         PROVE  FreshIds'
  <2>1. \A x \in Slaves : Apart(x)
      BY FreshParts DEF IInv
  <2>2. \A x \in Slaves : Held(x)' \subseteq Held(x) /\ Apart(x)'
      BY <1>less, <2>1 DEF Held, Apart, BgItems
  <2> QED BY <1>less, <2>2, FewerIdsFresh
<1>1. ASSUME NEW s \in Slaves, AckConfirm(s) PROVE FreshIds'
  <2>1. UNCHANGED <<nextId, wop, bgPc, bgSlave, bgItems>>
      BY <1>1 DEF AckConfirm
  <2>2. \A x \in Slaves : queue'[x] \subseteq queue[x]
      BY <1>1 DEF AckConfirm, IInv, TypeOK
  <2> QED BY <1>less, <2>1, <2>2
<1>2. ASSUME NEW s \in Slaves,
             PollCheck(s) \/ PollHandoff(s) \/ PollServe(s) \/ AckRefuse(s) \/ Importer(s)
      PROVE  FreshIds'
  <2>1. UNCHANGED <<nextId, queue, wop, bgPc, bgSlave, bgItems>>
      BY <1>2 DEF PollCheck, PollHandoff, PollServe, AckRefuse, Importer, StartPoll,
                  ReceiveNothing, ReceiveContent, SendAck, ReceiveOK, ReceiveError,
                  ReceiveFailure, ApplyBatch
  <2> QED BY <2>1, SameIdsFresh
<1>3. ASSUME NEW s \in Slaves,
             LinkBreak(s) \/ ResetSlave(s) \/ ImportFails(s) \/ LoseRequest(s)
      PROVE  FreshIds'
  <2>1. UNCHANGED <<nextId, queue, wop, bgPc, bgSlave, bgItems>>
      BY <1>3 DEF LinkBreak, ResetSlave, ImportFails, LoseRequest
  <2> QED BY <2>1, SameIdsFresh
<1>4. CASE OtherImportStarts \/ OtherImportEnds
  <2>1. UNCHANGED <<nextId, queue, wop, bgPc, bgSlave, bgItems>>
      BY <1>4 DEF OtherImportStarts, OtherImportEnds
  <2> QED BY <2>1, SameIdsFresh
<1>5. CASE MasterRestart
  <2>1. \A s \in Slaves : \A i \in Stored(s) : i.id < nextId'
      BY <1>5 DEF MasterRestart, NextIdOnRestart
  <2>2. /\ \A w \in Writers : wop'[w].to = {}
        /\ queue' = [s \in Slaves |-> Stored(s)] /\ bgItems' = {}
      BY <1>5, IdleOpType DEF MasterRestart
  <2>3. \A s \in Slaves : Held(s)' = Stored(s) /\ Apart(s)'
      BY <2>2 DEF Held, Apart, BgItems
  <2>4. \A s \in Slaves : QueueFresh(Held(s)', nextId')
      BY <2>1, <2>3, StoredFresh DEF QueueFresh
  <2> QED BY <2>2, <2>3, <2>4, FreshPartsNext
<1>6. ASSUME NEW s \in Slaves, HandlerFails(s) PROVE FreshIds'
  <2>1. UNCHANGED <<nextId, wop, bgPc, bgSlave, bgItems>>
      BY <1>6 DEF HandlerFails
  <2>2. \A x \in Slaves : queue'[x] \subseteq queue[x]
    <3>1. queue \in [Slaves -> SUBSET Item]
        BY DEF IInv, TypeOK
    <3>2. UNCHANGED queue \/ queue' = [queue EXCEPT ![s] = queue[s] \ InRange(queue[s], lastSent[s])]
        BY <1>6, HandlerFailsCases DEF FailedAck
    <3> QED BY <3>1, <3>2
  <2> QED BY <1>less, <2>1, <2>2
<1>7. ASSUME NEW w \in Writers, EnqueueFails(w) PROVE FreshIds'
    BY <1>7, EnqueueFresh DEF EnqueueFails
<1>8. CASE DumpFails
  <2>1. UNCHANGED <<nextId, queue, wop>> /\ bgItems' = {}
      BY <1>8 DEF DumpFails
  <2> QED BY <2>1, SameIdsFresh
<1> QED BY <1>1, <1>2, <1>3, <1>4, <1>5, <1>6, <1>7, <1>8 DEF Handler

-----------------------------------------------------------------------------
(* Every step keeps what the slaves receive bounded: it comes from a queue. *)

LEMMA NothingBounded == Bounded({})
BY DEF Bounded

LEMMA HandlerBounded ==
    ASSUME IInv, NEW s \in Slaves, Handler(s) \/ HandlerFails(s)
    PROVE  ReceivedBounded'
<1>1. batch' = batch /\ reply \in [Slaves -> [kind : ReplyKinds, items : SUBSET Item]]
    BY DEF Handler, PollCheck, PollHandoff, PollServe, AckConfirm, AckRefuse, HandlerFails,
           importer, IInv, TypeOK
<1>2. \E q, r : /\ reply' = reply \/ reply' = [reply EXCEPT ![s] = r]
                /\ Bounded(r.items)
  <2>1. CASE PollServe(s)
    <3> DEFINE sent == FirstItems(queue[s], MaxQueriesNumber)
               r == IF sent = {} THEN Reply("noContent") ELSE ContentReply(sent)
    <3>1. PICK q \in req[s] : Respond(s, q, r)
        BY <2>1 DEF PollServe
    <3>2. Bounded(sent)
        BY QueueBounded DEF IInv, FirstItems, Bounded
    <3>3. Bounded(r.items)
        BY <3>2, NothingBounded DEF Reply, ContentReply
    <3>4. reply' = reply \/ reply' = [reply EXCEPT ![s] = r]
        BY <3>1 DEF Respond
    <3> QED BY <3>3, <3>4
  <2>2. CASE PollCheck(s) \/ PollHandoff(s) \/ AckConfirm(s) \/ AckRefuse(s) \/ HandlerFails(s)
    <3>1. \E kind : reply' = reply \/ reply' = [reply EXCEPT ![s] = Reply(kind)]
        BY <2>2 DEF PollCheck, PollHandoff, AckConfirm, AckRefuse, HandlerFails, Respond, Advance
    <3>2. \A kind : Bounded(Reply(kind).items)
        BY NothingBounded DEF Reply
    <3> QED BY <3>1, <3>2
  <2> QED BY <2>1, <2>2 DEF Handler
<1> QED BY <1>1, <1>2 DEF IInv, ReceivedBounded

LEMMA ImporterBounded ==
    ASSUME IInv, NEW s \in Slaves, Importer(s) \/ ImportFails(s)
    PROVE  ReceivedBounded'
<1>1. /\ reply \in [Slaves -> [kind : ReplyKinds, items : SUBSET Item]]
      /\ batch \in [Slaves -> SUBSET Item]
    BY DEF IInv, TypeOK
<1>2. reply' = reply \/ reply' = [reply EXCEPT ![s] = NoReply]
  <2>1. CASE Importer(s)
      BY <2>1 DEF Importer, StartPoll, ReceiveNothing, ReceiveContent, SendAck, ReceiveOK,
                  ReceiveError, ReceiveFailure, ApplyBatch, TakeReply, network
  <2>2. CASE ImportFails(s)
      BY <2>2 DEF ImportFails
  <2> QED BY <2>1, <2>2
<1>3. \/ batch' = batch
      \/ batch' = [batch EXCEPT ![s] = {}]
      \/ batch' = [batch EXCEPT ![s] = reply[s].items]
  <2>1. CASE Importer(s)
      BY <2>1 DEF Importer, StartPoll, ReceiveNothing, ReceiveContent, SendAck, ReceiveOK,
                  ReceiveError, ReceiveFailure, ApplyBatch
  <2>2. CASE ImportFails(s)
      BY <2>2 DEF ImportFails
  <2> QED BY <2>1, <2>2
<1>4. \A x \in Slaves : Bounded(reply[x].items) /\ Bounded(batch[x])
    BY DEF IInv, ReceivedBounded
<1>5. \A x \in Slaves : Bounded(reply'[x].items)
  <2>1. Bounded(NoReply.items)
      BY NothingBounded DEF NoReply
  <2>2. \A x \in Slaves : reply'[x] = reply[x] \/ reply'[x] = NoReply
      BY <1>1, <1>2
  <2> QED BY <1>4, <2>1, <2>2
<1>6. \A x \in Slaves : Bounded(batch'[x])
    BY <1>1, <1>3, <1>4, NothingBounded
<1> QED BY <1>5, <1>6 DEF ReceivedBounded

LEMMA OtherBounded ==
    ASSUME IInv,
           \/ \E w \in Writers : WriterStep(w)
           \/ \E s \in Slaves : LinkBreak(s) \/ ResetSlave(s) \/ LoseRequest(s)
           \/ \E w \in Writers : EnqueueFails(w)
           \/ DumpFails
           \/ Updater \/ OtherImportStarts \/ OtherImportEnds \/ MasterRestart
    PROVE  ReceivedBounded'
<1>1. CASE MasterRestart
  <2>1. \A s \in Slaves : reply'[s].items = {} /\ (batch'[s] = {} \/ batch'[s] = batch[s])
      BY <1>1 DEF MasterRestart, NoReply
  <2> QED BY <2>1, NothingBounded DEF ReceivedBounded, IInv
<1>2. CASE ~MasterRestart
  <2>1. UNCHANGED <<reply, batch>>
    <3>1. ASSUME NEW w \in Writers, WriterStep(w) PROVE UNCHANGED <<reply, batch>>
        BY <3>1 DEF WriterStep, Prepare, Commit, Dispatch, Rollback, DirectSave, DirectEnqueue,
                    Enqueue, network, importer
    <3>2. ASSUME NEW s \in Slaves, LinkBreak(s) \/ ResetSlave(s) \/ LoseRequest(s)
          PROVE  UNCHANGED <<reply, batch>>
        BY <3>2 DEF LinkBreak, ResetSlave, LoseRequest, network, importer
    <3>3. CASE Updater
        BY <3>3 DEF Updater, BgTake, BgReset, BgTest, BgCollect, BgDelete, BgErase, BgLock,
                    BgRead, ReadTable, BgNumber, BgSave, BgDispatch, BgUnlock, BgMark,
                    network, importer
    <3>4. CASE OtherImportStarts \/ OtherImportEnds
        BY <3>4 DEF OtherImportStarts, OtherImportEnds, network, importer
    <3>5. ASSUME NEW w \in Writers, EnqueueFails(w) PROVE UNCHANGED <<reply, batch>>
        BY <3>5 DEF EnqueueFails, Enqueue, network, importer
    <3>6. CASE DumpFails
        BY <3>6 DEF DumpFails, network, importer
    <3> QED BY <1>2, <3>1, <3>2, <3>3, <3>4, <3>5, <3>6
  <2> QED BY <2>1 DEF ReceivedBounded, IInv
<1> QED BY <1>1, <1>2

-----------------------------------------------------------------------------
(* Every step keeps what the updater holds to the steps it belongs to. *)

\* A step of another thread.
LEMMA ScratchStays ==
    ASSUME IInv, UNCHANGED <<bgPc, bgItems, bgLeft>>, bgKept' \subseteq bgKept
    PROVE  ScratchEmpty'
BY DEF IInv, ScratchEmpty

LEMMA LoseShrinks ==
    ASSUME NEW s, NEW rows, Lose(s, rows)
    PROVE  bgKept' \subseteq bgKept
BY DEF Lose

LEMMA WriterScratch ==
    ASSUME IInv, NEW w \in Writers, WriterStep(w) \/ EnqueueFails(w)
    PROVE  ScratchEmpty'
<1> USE DEF updater, scratch, history
<1>1. ASSUME NEW to, Enqueue(w, to)
      PROVE  UNCHANGED <<bgPc, bgItems, bgLeft>> /\ bgKept' \subseteq bgKept
  <2>1. bgKept' \subseteq bgKept
      BY <1>1, ZenonT(30) DEF Enqueue
  <2> QED BY <1>1, <2>1 DEF Enqueue
<1>2. CASE Commit(w) \/ \E r \in Rows, v \in Content : DirectSave(w, r, v)
    BY <1>2, ScratchStays DEF Commit, DirectSave
<1>3. CASE Rollback(w) \/ Dispatch(w) \/ \E r \in Rows, v \in Content : Prepare(w, r, v)
    BY <1>3, ScratchStays DEF Rollback, Dispatch, Prepare
<1> QED BY <1>1, <1>2, <1>3, ScratchStays DEF WriterStep, DirectEnqueue, EnqueueFails

LEMMA UpdaterScratch ==
    ASSUME IInv, Updater \/ DumpFails \/ MasterRestart
    PROVE  ScratchEmpty'
<1> USE DEF scratch, history
<1>0. ScratchEmpty
    BY DEF IInv
<1>1. CASE BgTake \/ BgReset \/ BgTest \/ BgLock \/ BgUnlock \/ BgMark
    BY <1>0, <1>1 DEF BgTake, BgReset, BgTest, BgLock, BgUnlock, BgMark, ScratchEmpty
<1>2. CASE BgCollect \/ BgSave \/ BgRead
    BY <1>0, <1>2 DEF BgCollect, BgSave, BgRead, ReadTable, ScratchEmpty
<1>3. CASE BgDelete
  <2>1. bgKept' \subseteq bgKept
      BY <1>3, LoseShrinks DEF BgDelete
  <2> QED BY <1>0, <1>3, <2>1 DEF BgDelete, ScratchEmpty
<1>4. CASE BgErase \/ BgDispatch
    BY <1>0, <1>4 DEF BgErase, BgDispatch, ScratchEmpty
<1>5. CASE BgNumber
    BY <1>0, <1>5 DEF BgNumber, ScratchEmpty
<1>6. CASE DumpFails \/ MasterRestart
    BY <1>6 DEF DumpFails, MasterRestart, ScratchEmpty
<1> QED BY <1>1, <1>2, <1>3, <1>4, <1>5, <1>6 DEF Updater

LEMMA OtherScratch ==
    ASSUME IInv,
           \/ \E s \in Slaves :
                \/ Handler(s) \/ Importer(s)
                \/ LinkBreak(s) \/ ResetSlave(s)
                \/ ImportFails(s) \/ LoseRequest(s) \/ HandlerFails(s)
           \/ OtherImportStarts \/ OtherImportEnds
    PROVE  ScratchEmpty'
<1> USE DEF updater, scratch, history
<1>1. ASSUME NEW s \in Slaves, PollServe(s) \/ AckConfirm(s) \/ HandlerFails(s)
      PROVE  ScratchEmpty'
  <2>1. UNCHANGED bgKept \/ \E rows : Lose(s, rows)
      BY <1>1 DEF PollServe, AckConfirm, HandlerFails
  <2>2. bgKept' \subseteq bgKept
      BY <2>1, LoseShrinks
  <2>3. UNCHANGED <<bgPc, bgItems, bgLeft>>
      BY <1>1 DEF PollServe, AckConfirm, HandlerFails
  <2> QED BY <2>2, <2>3, ScratchStays
<1>2. ASSUME NEW s \in Slaves,
             \/ PollCheck(s) \/ PollHandoff(s) \/ AckRefuse(s) \/ Importer(s)
             \/ LinkBreak(s) \/ ResetSlave(s) \/ ImportFails(s) \/ LoseRequest(s)
      PROVE  ScratchEmpty'
  <2>1. UNCHANGED <<bgPc, bgItems, bgLeft, bgKept>>
      BY <1>2 DEF PollCheck, PollHandoff, AckRefuse, Importer, StartPoll,
                  ReceiveNothing, ReceiveContent, SendAck, ReceiveOK, ReceiveError,
                  ReceiveFailure, ApplyBatch, LinkBreak, ResetSlave, ImportFails, LoseRequest
  <2> QED BY <2>1, ScratchStays
<1>3. CASE OtherImportStarts \/ OtherImportEnds
    BY <1>3, ScratchStays DEF OtherImportStarts, OtherImportEnds
<1> QED BY <1>1, <1>2, <1>3 DEF Handler

-----------------------------------------------------------------------------

\* The invariant is inductive.
LEMMA NextIInv == IInv /\ [Next]_vars => IInv'
<1> SUFFICES ASSUME IInv, [Next]_vars PROVE IInv'
    OBVIOUS
<1>1. ASSUME NEW w \in Writers, WriterStep(w) PROVE IInv'
    BY <1>1, WriterType, WriterFresh, OtherBounded, WriterScratch DEF IInv
<1>2. ASSUME NEW s \in Slaves, LinkBreak(s) \/ ResetSlave(s) \/ LoseRequest(s) PROVE IInv'
    BY <1>2, EnvironmentType, OtherFresh, OtherBounded, OtherScratch DEF IInv
<1>3. ASSUME NEW s \in Slaves, Handler(s) PROVE IInv'
    BY <1>3, HandlerType, OtherFresh, HandlerBounded, OtherScratch DEF IInv
<1>4. CASE Updater
    BY <1>4, UpdaterType, UpdaterFresh, OtherBounded, UpdaterScratch DEF IInv
<1>5. CASE OtherImportStarts \/ OtherImportEnds
    BY <1>5, EnvironmentType, OtherFresh, OtherBounded, OtherScratch DEF IInv
<1>6. ASSUME NEW s \in Slaves, Importer(s) PROVE IInv'
    BY <1>6, ImporterType, OtherFresh, ImporterBounded, OtherScratch DEF IInv
<1>7. ASSUME NEW s \in Slaves, ImportFails(s) PROVE IInv'
    BY <1>7, EnvironmentType, OtherFresh, ImporterBounded, OtherScratch DEF IInv
<1>8. ASSUME NEW s \in Slaves, HandlerFails(s) PROVE IInv'
    BY <1>8, EnvironmentType, OtherFresh, HandlerBounded, OtherScratch DEF IInv
<1>9. ASSUME NEW w \in Writers, EnqueueFails(w) PROVE IInv'
    BY <1>9, EnvironmentType, OtherFresh, OtherBounded, WriterScratch DEF IInv
<1>10. CASE DumpFails \/ MasterRestart
    BY <1>10, EnvironmentType, OtherFresh, OtherBounded, UpdaterScratch DEF IInv
<1>11. CASE UNCHANGED vars
  <2> USE DEF vars, master, writers, updater, scratch, network, importer, history
  <2>1. TypeOK'
      BY <1>11 DEF IInv, TypeOK
  <2>2. FreshIds'
      BY <1>11, SameIdsFresh
  <2>3. ReceivedBounded'
      BY <1>11 DEF IInv, ReceivedBounded
  <2>4. ScratchEmpty'
      BY <1>11, ScratchStays
  <2> QED BY <2>1, <2>2, <2>3, <2>4 DEF IInv
<1> QED BY <1>1, <1>2, <1>3, <1>4, <1>5, <1>6, <1>7, <1>8, <1>9, <1>10, <1>11
    DEF Next

LEMMA Invariance == Spec => []IInv
BY InitIInv, NextIInv, PTL DEF Spec

\* Every variable keeps its type: in particular the ranges that a poll keeps and an
\* acknowledgement quotes are pairs of ids of existing items, or end().
THEOREM TypeCorrect == Spec => []TypeOK
<1>1. IInv => TypeOK
    BY DEF IInv
<1> QED BY <1>1, Invariance, PTL

\* No two items of a queue ever have the same id, nor does a transaction that still
\* keeps its items to itself have one a queue uses: through transactions that run late,
\* dumps, acknowledgements and restarts of the master.
THEOREM IdsStayFresh == Spec => []FreshIds
<1>1. IInv => FreshIds
    BY DEF IInv
<1> QED BY <1>1, Invariance, PTL

-----------------------------------------------------------------------------
(* Convergence.  FollowedRowsConverge alone is not inductive: when an      *)
(* acknowledgement takes items out of a queue and hands them to the slave, *)
(* those that stay stored are run after them; and the items a dump numbers *)
(* make a slave follow their rows later, when they are saved.              *)

\* The items an importer has got, or is about to get, and has not been allowed to apply.
Sent(s) ==
    IF spc[s] = "polling" /\ reply[s].kind = "content" THEN reply[s].items
    ELSE IF spc[s] = "ready" \/ (spc[s] = "acking" /\ reply[s].kind # "OK") THEN batch[s]
    ELSE {}

\* A poll has been served since the last acknowledgement or restart, or may still be.
\* Otherwise ids of items sent may have been given again, and only an acknowledgement that
\* clears nothing is confirmed.
Current(s) == lastSent[s].first # 0 \/ \E q \in req[s] : q.kind = "poll"

\* The items of a slave that writers have queued or are about to link.
Linked(s) == queue[s] \cup Dispatching(s)

\* All the items that have an id and will be in the queue of s, or are.
Known(s) == queue[s] \cup Coming(s)

\* The ids of the items that are still to get into the queue of s.
Reserved(s) ==
    {wop[w].id : w \in {x \in Writers : s \in wop[x].to}}
    \cup Ids(BgItems(s, {"number", "dispatch"}))

\* An importer waits for one reply at a time.
OneLiveRequest(s) ==
    /\ \A q \in req[s] : q.live =>
        /\ reply[s].kind = "none"
        /\ spc[s] = IF q.kind = "poll" THEN "polling" ELSE "acking"
        /\ \A p \in req[s] : p.live => p = q
    /\ reply[s].kind # "none" => spc[s] \in {"polling", "acking"}

\* An item that gets into a queue is not one that has been sent.
SentIdsUsed(s) ==
    Current(s) => \A i \in Sent(s) : i.id < nextId /\ i.id \notin Reserved(s)

\* If the item that decides a followed row has been sent, all the items of that row have.
SentWhole(s) ==
    Current(s) => \A r \in followed[s] : \A n \in Touching(Stored(s), r) :
        n \in Sent(s) /\ (\A j \in Touching(Stored(s), r) : j.id <= n.id) =>
            Touching(Stored(s), r) \subseteq Sent(s)

Converges(s) == \A r \in followed[s] : Settled(r) => Expected(s)[r] = db[r]

Followed(s) == OneLiveRequest(s) /\ SentIdsUsed(s) /\ SentWhole(s) /\ Converges(s)

\* The statements of a dump that have no id yet rebuild row r as it is.
StatementsRight(r) ==
    \A st \in bgLeft : r \in st.rows =>
        /\ st.val # NoVal => st.val = db[r]
        /\ st.val = NoVal /\ db[r] # NoVal =>
                \E o \in bgLeft : r \in o.rows /\ o.val # NoVal

\* What the last item of row r makes of it is what the master has, and it is not sent yet.
NumberedRight(r) ==
    /\ Touching(bgItems, r) # {}
    /\ \E n \in Touching(Known(bgSlave), r) :
        /\ \A j \in Touching(Known(bgSlave), r) : j.id <= n.id
        /\ Settled(r) => n.val = db[r]
        /\ Current(bgSlave) => n \notin Sent(bgSlave)

DumpKept ==
    bgPc = "number" =>
        \A r \in bgKept : StatementsRight(r) /\ (ToNumber(r) \/ NumberedRight(r))

\* The rows of the items that are being unlinked are not followed.
ErasedForgotten ==
    bgPc = "erase" => \A r \in followed[bgSlave] : Touching(bgItems, r) = {}

Dumps == DumpKept /\ ErasedForgotten

CInv == IInv /\ (\A s \in Slaves : Followed(s)) /\ Dumps

\* What a row of a slave is expected to become.
LEMMA ExpectedRow ==
    ASSUME NEW s, NEW r \in Rows
    PROVE  Expected(s)[r] = After(Stored(s), r, After(Owed(s), r, sdb[s][r]))
BY ApplyTwice DEF Expected

LEMMA ExpectedRowNext ==
    ASSUME NEW s, NEW r \in Rows
    PROVE  Expected(s)'[r] = After(Stored(s)', r, After(Owed(s)', r, sdb'[s][r]))
BY ApplyTwice DEF Expected

LEMMA InitFollowed == Init => CInv
<1> SUFFICES ASSUME Init PROVE CInv
    OBVIOUS
<1>1. ASSUME NEW s \in Slaves PROVE Followed(s)
  <2>1. OneLiveRequest(s)
      BY DEF Init, OneLiveRequest, NoReply
  <2>2. ~Current(s)
      BY DEF Init, Current, Range0
  <2>3. Converges(s)
      BY DEF Init, Converges
  <2> QED BY <2>1, <2>2, <2>3 DEF Followed, SentIdsUsed, SentWhole
<1>2. Dumps
    BY DEF Init, Dumps, DumpKept, ErasedForgotten
<1> QED BY <1>1, <1>2, InitIInv DEF CInv

-----------------------------------------------------------------------------
(* What is stored for a slave, and what is known of it. *)

\* Items of distinct, bounded ids.
WellNumbered(items) == items \in SUBSET Item /\ UniqueIds(items) /\ Bounded(items)

LEMMA FreshWellNumbered ==
    ASSUME NEW items \in SUBSET Item, NEW next \in Nat, QueueFresh(items, next)
    PROVE  WellNumbered(items)
BY DEF QueueFresh, WellNumbered, UniqueIds, Bounded

LEMMA KnownItems ==
    ASSUME IInv, NEW s \in Slaves
    PROVE  /\ WellNumbered(Known(s)) /\ WellNumbered(Stored(s))
           /\ \A i \in Known(s) : 0 < i.id /\ i.id < nextId /\ i.id \in Nat
           /\ Stored(s) \subseteq Known(s) /\ queue[s] \subseteq Known(s)
<1>1. /\ QueueFresh(queue[s] \cup Coming(s), nextId) /\ QueueFresh(Stored(s), nextId)
      /\ Stored(s) \subseteq queue[s] \cup Coming(s)
    BY StoredFresh
<1>2. queue[s] \in SUBSET Item /\ Stored(s) \in SUBSET Item /\ Coming(s) \in SUBSET Item
      /\ nextId \in Nat
    BY StoredType DEF IInv, TypeOK
<1>3. WellNumbered(queue[s] \cup Coming(s)) /\ WellNumbered(Stored(s))
    BY <1>1, <1>2, FreshWellNumbered
<1>4. \A i \in queue[s] \cup Coming(s) : 0 < i.id /\ i.id < nextId /\ i.id \in Nat
    BY <1>1, <1>2 DEF QueueFresh, Item
<1> QED BY <1>1, <1>3, <1>4 DEF Known

LEMMA KnownItemsNext ==
    ASSUME IInv', NEW s \in Slaves
    PROVE  WellNumbered(Known(s)') /\ WellNumbered(Stored(s)')
<1> SUFFICES (WellNumbered(Known(s)) /\ WellNumbered(Stored(s)))'
    BY DEF WellNumbered, UniqueIds, Bounded
<1> QED BY KnownItems, PTL

\* The items of the updater change neither side of them.
LEMMA StoredByLinked ==
    ASSUME NEW s
    PROVE  /\ Stored(s) = (Linked(s) \cup BgItems(s, {"dispatch"})) \ BgItems(s, {"erase"})
           /\ Known(s) = Linked(s) \cup BgItems(s, {"number", "dispatch"})
BY DEF Stored, Known, Linked, Coming

LEMMA LinkedStays ==
    ASSUME NEW s, UNCHANGED <<bgPc, bgSlave, bgItems>>, Linked(s)' = Linked(s)
    PROVE  Stored(s)' = Stored(s) /\ Known(s)' = Known(s)
<1>1. \A steps : BgItems(s, steps)' = BgItems(s, steps)
    BY DEF BgItems
<1>2. /\ Stored(s)' = (Linked(s)' \cup BgItems(s, {"dispatch"})') \ BgItems(s, {"erase"})'
      /\ Known(s)' = Linked(s)' \cup BgItems(s, {"number", "dispatch"})'
    BY DEF Stored, Known, Linked, Coming
<1> QED BY <1>1, <1>2, StoredByLinked

LEMMA LinkedGrows ==
    ASSUME NEW s, UNCHANGED <<bgPc, bgSlave, bgItems>>, NEW i, Linked(s)' = Linked(s) \cup {i},
           i \notin BgItems(s, {"erase"})
    PROVE  Stored(s)' = Stored(s) \cup {i} /\ Known(s)' = Known(s) \cup {i}
<1>1. \A steps : BgItems(s, steps)' = BgItems(s, steps)
    BY DEF BgItems
<1>2. /\ Stored(s)' = (Linked(s)' \cup BgItems(s, {"dispatch"})') \ BgItems(s, {"erase"})'
      /\ Known(s)' = Linked(s)' \cup BgItems(s, {"number", "dispatch"})'
    BY DEF Stored, Known, Linked, Coming
<1> QED BY <1>1, <1>2, StoredByLinked

\* A writer that stores an item has none on its way before.
LEMMA StoresDispatching ==
    ASSUME IInv, NEW w \in Writers, NEW op \in OpType, Stores(w, op), wpc[w] # "dispatching",
           NEW s
    PROVE  Dispatching(s)' = Dispatching(s) \cup (IF s \in op.to THEN {SyncItem(op)} ELSE {})
<1>1. /\ wpc \in [Writers -> WpcType] /\ wop \in [Writers -> OpType]
    BY DEF IInv, TypeOK, OpType, WpcType
<1>2. /\ \A x \in Writers \ {w} : wpc'[x] = wpc[x] /\ wop'[x] = wop[x]
      /\ wpc'[w] = IF op.to = {} THEN "idle" ELSE "dispatching"
      /\ wop'[w] = IF op.to = {} THEN IdleOp ELSE op
    BY <1>1 DEF Stores
<1>3. CASE s \in op.to
  <2>1. wpc'[w] = "dispatching" /\ wop'[w] = op
      BY <1>2, <1>3
  <2> QED BY <1>2, <1>3, <2>1 DEF Dispatching
<1>4. CASE s \notin op.to
  <2>1. ~(wpc'[w] = "dispatching" /\ s \in wop'[w].to)
      BY <1>2, <1>4
  <2> QED BY <1>2, <1>4, <2>1 DEF Dispatching
<1> QED BY <1>3, <1>4

LEMMA DispatchingStays ==
    ASSUME UNCHANGED <<wpc, wop>>, NEW s
    PROVE  Dispatching(s)' = Dispatching(s)
BY DEF Dispatching

\* Linking an item changes nothing of what is stored.
LEMMA DispatchLinked ==
    ASSUME IInv, NEW w \in Writers, Dispatch(w), NEW s \in Slaves
    PROVE  Linked(s)' = Linked(s)
<1>1. /\ wpc \in [Writers -> WpcType] /\ wop \in [Writers -> OpType]
      /\ queue \in [Slaves -> SUBSET Item]
    BY DEF IInv, TypeOK, OpType, WpcType
<1>2. PICK t \in wop[w].to :
            /\ wpc[w] = "dispatching"
            /\ queue' = [queue EXCEPT ![t] = @ \cup {SyncItem(wop[w])}]
            /\ Stores(w, [wop[w] EXCEPT !.to = wop[w].to \ {t}])
    BY DEF Dispatch
<1> DEFINE op == [wop[w] EXCEPT !.to = wop[w].to \ {t}]
<1>3. op \in OpType /\ op.to = wop[w].to \ {t} /\ SyncItem(op) = SyncItem(wop[w])
    BY <1>1 DEF OpType, SyncItem
<1> HIDE DEF op
<1>4. /\ \A x \in Writers \ {w} : wpc'[x] = wpc[x] /\ wop'[x] = wop[x]
      /\ wpc'[w] = IF op.to = {} THEN "idle" ELSE "dispatching"
      /\ wop'[w] = IF op.to = {} THEN IdleOp ELSE op
    BY <1>1, <1>2 DEF Stores, op
<1> DEFINE busy == {x \in Writers : wpc[x] = "dispatching" /\ s \in wop[x].to}
           busyNow == {x \in Writers : wpc'[x] = "dispatching" /\ s \in wop'[x].to}
<1>5. Dispatching(s) = {SyncItem(wop[x]) : x \in busy}
      /\ Dispatching(s)' = {SyncItem(wop'[x]) : x \in busyNow}
    BY DEF Dispatching
<1>6. \A x \in busyNow : x \in busy /\ SyncItem(wop'[x]) = SyncItem(wop[x])
    BY <1>2, <1>3, <1>4
<1>7. \A x \in busy : x \in busyNow \/ (x = w /\ s = t)
    BY <1>2, <1>3, <1>4
<1>8. queue'[s] = IF s = t THEN queue[s] \cup {SyncItem(wop[w])} ELSE queue[s]
    BY <1>1, <1>2
<1>9. s = t => w \in busy
    BY <1>2
<1> HIDE DEF busy, busyNow
<1> QED BY <1>5, <1>6, <1>7, <1>8, <1>9 DEF Linked

-----------------------------------------------------------------------------
(* What keeps a slave on the rows it follows, and a dump right.             *)

\* What was sent stays sent, or is dropped.
SentStays(s) == Sent(s)' = {} \/ (Sent(s)' = Sent(s) /\ (Current(s)' => Current(s)))

LEMMA SentUsedStays ==
    ASSUME CInv, NEW s \in Slaves, nextId' \in Nat, nextId <= nextId', SentStays(s),
           Reserved(s)' \subseteq Reserved(s) \cup {nextId}
    PROVE  SentIdsUsed(s)'
<1> SUFFICES ASSUME Current(s)', NEW i \in Sent(s)' PROVE i.id < nextId' /\ i.id \notin Reserved(s)'
    BY DEF SentIdsUsed
<1>1. i \in Sent(s) /\ Current(s)
    BY DEF SentStays
<1>2. i.id < nextId /\ i.id \notin Reserved(s)
    BY <1>1 DEF CInv, Followed, SentIdsUsed
<1>3. i.id \in Nat /\ nextId \in Nat
    BY <1>1 DEF CInv, IInv, TypeOK, Sent, Item
<1> QED BY <1>2, <1>3

\* The importer's side is untouched.
LEMMA ImporterUntouched ==
    ASSUME CInv, NEW s \in Slaves, UNCHANGED <<lastSent, network, importer>>
    PROVE  /\ OneLiveRequest(s)' /\ SentStays(s) /\ Owed(s)' = Owed(s) /\ sdb' = sdb
           /\ Sent(s)' = Sent(s) /\ Current(s)' = Current(s)
<1>1. UNCHANGED <<lastSent, req, reply, spc, batch, sdb>>
    BY DEF network, importer
<1>2. OneLiveRequest(s)'
    BY <1>1 DEF CInv, Followed, OneLiveRequest
<1>3. Sent(s)' = Sent(s) /\ Current(s)' = Current(s) /\ Owed(s)' = Owed(s)
    BY <1>1 DEF Sent, Current, Owed
<1> QED BY <1>1, <1>2, <1>3 DEF SentStays

\* On the rows it still follows, the slave is to apply what it was, and as much is stored.
LEMMA SameRows ==
    ASSUME CInv, NEW s \in Slaves, OneLiveRequest(s)', SentIdsUsed(s)', SentStays(s),
           followed'[s] \subseteq followed[s], sdb'[s] = sdb[s],
           \A r \in followed'[s] : /\ Touching(Stored(s)', r) = Touching(Stored(s), r)
                                   /\ Touching(Owed(s)', r) = Touching(Owed(s), r)
                                   /\ Settled(r)' => Settled(r) /\ db'[r] = db[r]
    PROVE  Followed(s)'
<1>1. Followed(s) /\ followed[s] \subseteq Rows
    BY DEF CInv, IInv, TypeOK
<1>2. SentWhole(s)'
  <2>1. CASE Sent(s)' = {}
      BY <2>1 DEF SentWhole
  <2>2. CASE Sent(s)' = Sent(s) /\ (Current(s)' => Current(s))
      BY <1>1, <2>2 DEF Followed, SentWhole
  <2> QED BY <2>1, <2>2 DEF SentStays
<1>3. Converges(s)'
  <2> SUFFICES ASSUME NEW r \in followed'[s], Settled(r)' PROVE Expected(s)'[r] = db'[r]
      BY DEF Converges
  <2> DEFINE owed == Owed(s)
             owedNow == Owed(s)'
             stored == Stored(s)
             storedNow == Stored(s)'
             old == sdb[s][r]
  <2>1. r \in Rows /\ r \in followed[s] /\ Settled(r) /\ db'[r] = db[r]
      BY <1>1
  <2>2. Expected(s)[r] = db[r]
      BY <1>1, <2>1 DEF Followed, Converges
  <2>3. Expected(s)[r] = After(stored, r, After(owed, r, old))
      BY <2>1, ExpectedRow
  <2>4. Expected(s)'[r] = After(storedNow, r, After(owedNow, r, old))
      BY <2>1, ExpectedRowNext
  <2>5. Touching(owedNow, r) = Touching(owed, r) /\ Touching(storedNow, r) = Touching(stored, r)
      OBVIOUS
  <2> HIDE DEF owed, owedNow, stored, storedNow
  <2>6. After(owedNow, r, old) = After(owed, r, old)
      BY ONLY <2>5, AfterSame
  <2>7. After(storedNow, r, After(owed, r, old)) = After(stored, r, After(owed, r, old))
      BY ONLY <2>5, AfterSame
  <2> QED BY <2>1, <2>2, <2>3, <2>4, <2>6, <2>7
<1> QED BY <1>1, <1>2, <1>3 DEF Followed

\* A modification is stored for a slave: if the slave still follows the row, the item runs
\* after the others of the row and decides what the slave will make of it.
LEMMA ItemStored ==
    ASSUME CInv, IInv', NEW s \in Slaves, NEW i \in Item, NEW row \in Rows, i.rows = {row},
           Stored(s)' = Stored(s) \cup {i}, followed'[s] \subseteq followed[s],
           row \in followed'[s] => \A j \in Touching(Stored(s), row) : j.id < i.id,
           row \in followed'[s] /\ Settled(row)' => db'[row] = i.val,
           \A r \in Rows \ {row} : db'[r] = db[r] /\ (Settled(r)' => Settled(r)),
           SentIdsUsed(s)', Current(s) => i \notin Sent(s),
           UNCHANGED <<lastSent, network, importer>>
    PROVE  Followed(s)'
<1>1. Followed(s) /\ followed[s] \subseteq Rows
    BY DEF CInv, IInv, TypeOK
<1>2. /\ OneLiveRequest(s)' /\ Owed(s)' = Owed(s) /\ sdb' = sdb
      /\ Sent(s)' = Sent(s) /\ Current(s)' = Current(s)
    BY ImporterUntouched
<1> DEFINE stored == Stored(s)
           storedNow == Stored(s)'
<1>3. storedNow = stored \cup {i} /\ WellNumbered(stored) /\ WellNumbered(storedNow)
    BY KnownItems, KnownItemsNext DEF CInv
<1>hyp. row \in followed'[s] => \A j \in Touching(stored, row) : j.id < i.id
    OBVIOUS
<1>whole. Current(s) => \A r \in followed[s] : \A n \in Touching(stored, r) :
        n \in Sent(s) /\ (\A j \in Touching(stored, r) : j.id <= n.id) =>
            Touching(stored, r) \subseteq Sent(s)
    BY <1>1 DEF Followed, SentWhole
<1>expected. \A r \in Rows : /\ Expected(s)[r] = After(stored, r, After(Owed(s), r, sdb[s][r]))
                             /\ Expected(s)'[r] = After(storedNow, r, After(Owed(s)', r, sdb'[s][r]))
    BY ExpectedRow, ExpectedRowNext
<1>goal. SentWhole(s)' <=>
            (Current(s)' => \A r \in followed'[s] : \A n \in Touching(storedNow, r) :
                n \in Sent(s)' /\ (\A j \in Touching(storedNow, r) : j.id <= n.id) =>
                    Touching(storedNow, r) \subseteq Sent(s)')
    BY DEF SentWhole
<1> HIDE DEF stored, storedNow
<1>4. \A r \in Rows \ {row} : Touching(storedNow, r) = Touching(stored, r)
    BY <1>3 DEF Touching
<1>5. row \in followed'[s] =>
        i \in Touching(storedNow, row) /\ \A j \in Touching(storedNow, row) : j.id <= i.id
    BY <1>3, <1>hyp DEF Touching, WellNumbered, Item
<1>6. SentWhole(s)'
  <2> SUFFICES ASSUME Current(s), NEW r \in followed'[s], NEW n \in Touching(storedNow, r),
                      n \in Sent(s), \A j \in Touching(storedNow, r) : j.id <= n.id
               PROVE  Touching(storedNow, r) \subseteq Sent(s)
      BY <1>2, <1>goal
  <2>1. CASE r # row
      BY <1>1, <1>4, <1>whole, <2>1
  <2>2. CASE r = row
    <3>1. n # i /\ i.id <= n.id
        BY <1>5, <2>2
    <3>2. n \in Touching(stored, row) /\ n \in Item
        BY <1>3, <2>2, <3>1 DEF Touching, WellNumbered
    <3>3. n.id < i.id
        BY <1>hyp, <3>2, <2>2
    <3> QED BY <3>1, <3>2, <3>3 DEF Item
  <2> QED BY <2>1, <2>2
<1>7. Converges(s)'
  <2> SUFFICES ASSUME NEW r \in followed'[s], Settled(r)' PROVE Expected(s)'[r] = db'[r]
      BY DEF Converges
  <2> DEFINE owed == After(Owed(s), r, sdb[s][r])
  <2>1. r \in Rows /\ r \in followed[s]
      BY <1>1
  <2>2. Expected(s)'[r] = After(storedNow, r, owed)
      BY <1>2, <1>expected, <2>1
  <2>3. CASE r # row
    <3>1. Expected(s)[r] = After(stored, r, owed)
        BY <1>expected, <2>1
    <3>2. Touching(storedNow, r) = Touching(stored, r)
        BY <1>4, <2>1, <2>3
    <3>3. After(storedNow, r, owed) = After(stored, r, owed)
        BY ONLY <3>2, AfterSame
    <3> QED BY <1>1, <2>1, <2>2, <2>3, <3>1, <3>3 DEF Followed, Converges
  <2>4. CASE r = row
    <3>1. i \in Touching(storedNow, r) /\ \A j \in Touching(storedNow, r) : j.id <= i.id
        BY <1>5, <2>4
    <3>2. After(storedNow, r, owed) = i.val
        BY ONLY <1>3, <3>1, AfterLastItem DEF WellNumbered
    <3> QED BY <2>2, <2>4, <3>2
  <2> QED BY <2>3, <2>4
<1> QED BY <1>2, <1>6, <1>7 DEF Followed

\* A step of another thread than the updater.
LEMMA DumpStays ==
    ASSUME CInv, UNCHANGED <<bgPc, bgSlave, bgItems, bgLeft>>, bgKept' \subseteq bgKept,
           bgPc = "erase" => followed'[bgSlave] \subseteq followed[bgSlave],
           bgPc = "number" => \A r \in bgKept' :
                IF ToNumber(r) THEN db'[r] = db[r] ELSE NumberedRight(r) => NumberedRight(r)'
    PROVE  Dumps'
<1>1. DumpKept /\ ErasedForgotten
    BY DEF CInv, Dumps
<1>2. ErasedForgotten'
    BY <1>1 DEF ErasedForgotten
<1>3. DumpKept'
  <2> SUFFICES ASSUME bgPc = "number", NEW r \in bgKept'
               PROVE  StatementsRight(r)' /\ (ToNumber(r)' \/ NumberedRight(r)')
      BY DEF DumpKept
  <2>1. StatementsRight(r) /\ (ToNumber(r) \/ NumberedRight(r)) /\ ToNumber(r)' = ToNumber(r)
      BY <1>1 DEF DumpKept, ToNumber
  <2>2. CASE ToNumber(r)
    <3>1. db'[r] = db[r]
        BY <2>2
    <3> QED BY <2>1, <2>2, <3>1 DEF StatementsRight
  <2>3. CASE ~ToNumber(r)
    <3>1. StatementsRight(r)'
        BY <2>3 DEF StatementsRight, ToNumber
    <3> QED BY <2>1, <2>3, <3>1
  <2> QED BY <2>2, <2>3
<1> QED BY <1>2, <1>3 DEF Dumps

\* ... which adds nothing to the items of a row.
LEMMA NumberedStays ==
    ASSUME NEW r, UNCHANGED <<bgSlave, bgItems>>, SentStays(bgSlave),
           Touching(Known(bgSlave)', r) = Touching(Known(bgSlave), r),
           Settled(r)' => Settled(r) /\ db'[r] = db[r]
    PROVE  NumberedRight(r) => NumberedRight(r)'
BY DEF NumberedRight, SentStays

\* ... which adds an item that decides it.
LEMMA NumberedAgain ==
    ASSUME NEW r, UNCHANGED <<bgSlave, bgItems>>,
           NEW n \in Touching(Known(bgSlave)', r),
           \A j \in Touching(Known(bgSlave)', r) : j.id <= n.id,
           Settled(r)' => n.val = db'[r],
           Current(bgSlave)' => n \notin Sent(bgSlave)'
    PROVE  NumberedRight(r) => NumberedRight(r)'
BY DEF NumberedRight

\* ... or which does not touch what the dump depends on.
LEMMA DumpUntouched ==
    ASSUME CInv, UNCHANGED <<db, bgPc, bgSlave, bgItems, bgLeft, bgKept, wpc, wop>>,
           bgSlave \in Slaves => /\ followed'[bgSlave] \subseteq followed[bgSlave]
                                 /\ queue'[bgSlave] = queue[bgSlave] /\ SentStays(bgSlave)
    PROVE  Dumps'
<1>1. bgPc \in {"number", "erase"} => bgSlave \in Slaves
    BY DEF CInv, IInv, TypeOK, Processing
<1>2. ASSUME bgPc = "number", NEW r \in bgKept PROVE NumberedRight(r) => NumberedRight(r)'
  <2>1. Linked(bgSlave)' = Linked(bgSlave) /\ bgSlave' = bgSlave
      BY <1>1, <1>2 DEF Linked, Dispatching
  <2>2. Known(bgSlave)' = Known(bgSlave)
    <3>1. \A s : Linked(s)' = Linked(s) => Known(s)' = Known(s)
        BY LinkedStays
    <3> QED BY <2>1, <3>1 DEF Known, Coming, Dispatching, BgItems, Linked
  <2>3. Settled(r)' => Settled(r) /\ db'[r] = db[r]
      BY DEF Settled
  <2> QED BY <1>1, <1>2, <2>2, <2>3, NumberedStays
<1> QED BY <1>1, <1>2, DumpStays

-----------------------------------------------------------------------------
(* Steps of the writers. *)

\* The ids of writers are those they had, or new.
LEMMA ReservedByWriters ==
    ASSUME UNCHANGED <<bgPc, bgSlave, bgItems>>, NEW s,
           \A x \in Writers : s \in wop'[x].to =>
                (s \in wop[x].to /\ wop'[x].id = wop[x].id) \/ wop'[x].id = nextId
    PROVE  Reserved(s)' \subseteq Reserved(s) \cup {nextId}
<1>1. BgItems(s, {"number", "dispatch"})' = BgItems(s, {"number", "dispatch"})
    BY DEF BgItems
<1>2. \A x \in Writers : s \in wop'[x].to =>
            wop'[x].id \in {wop[y].id : y \in {z \in Writers : s \in wop[z].to}} \cup {nextId}
    OBVIOUS
<1>3. {wop'[x].id : x \in {z \in Writers : s \in wop'[z].to}}
            \subseteq {wop[y].id : y \in {z \in Writers : s \in wop[z].to}} \cup {nextId}
    BY <1>2
<1>4. Ids(BgItems(s, {"number", "dispatch"})') = Ids(BgItems(s, {"number", "dispatch"}))
    BY <1>1
<1>5. Reserved(s)' = {wop'[x].id : x \in {z \in Writers : s \in wop'[z].to}}
                        \cup Ids(BgItems(s, {"number", "dispatch"})')
    BY DEF Reserved, Ids
<1> QED BY <1>3, <1>4, <1>5 DEF Reserved

\* The item of op runs last among those of its row, and gives slave s what the master has.
Decides(s, op) ==
    /\ s \in op.to
    /\ \A j \in Touching(Known(s), op.row) : j.id < op.id
    /\ Settled(op.row)' => db'[op.row] = op.val

\* A writer commits, or saves its items: the rows that stay followed are decided by it.
LEMMA StoreFollowed ==
    ASSUME CInv, IInv', NEW w \in Writers, NEW op \in OpType, Stores(w, op),
           wpc[w] # "dispatching", nextId' \in Nat, nextId <= nextId',
           UNCHANGED <<queue, lastSent, updater, network, importer>>,
           op.id = nextId \/ op = wop[w],
           \A s \in op.to : \A i \in Held(s) : i.id # op.id,
           \A s \in op.to : Current(s) => SyncItem(op) \notin Sent(s),
           \A r \in Rows \ {op.row} : db'[r] = db[r] /\ (Settled(r)' => Settled(r)),
           \A s \in Slaves : /\ followed'[s] \subseteq followed[s]
                             /\ op.row \in followed'[s] => Decides(s, op),
           bgKept' \subseteq bgKept,
           bgPc = "number" /\ op.row \in bgKept' =>
                IF ToNumber(op.row) THEN db'[op.row] = db[op.row] ELSE Decides(bgSlave, op)
    PROVE  (\A s \in Slaves : Followed(s)') /\ Dumps'
<1>0. /\ IInv /\ wop \in [Writers -> OpType] /\ op.row \in Rows /\ op.to \subseteq Slaves
      /\ UNCHANGED <<bgPc, bgSlave, bgItems, bgLeft>>
      /\ bgPc = "number" => bgSlave \in Slaves
      /\ bgPc = "erase" => bgSlave \in Slaves
    BY DEF CInv, IInv, TypeOK, OpType, updater, scratch, Processing
<1> DEFINE i == SyncItem(op)
<1>1. i \in Item /\ i.rows = {op.row} /\ i.val = op.val /\ i.id = op.id
    BY DEF SyncItem, Item, OpType
<1> HIDE DEF i
<1>2. ASSUME NEW s \in Slaves
      PROVE  IF s \in op.to THEN Linked(s)' = Linked(s) \cup {i} ELSE Linked(s)' = Linked(s)
    BY <1>0, StoresDispatching DEF Linked, i
<1>3. ASSUME NEW s \in Slaves
      PROVE  IF s \in op.to
             THEN Stored(s)' = Stored(s) \cup {i} /\ Known(s)' = Known(s) \cup {i}
             ELSE Stored(s)' = Stored(s) /\ Known(s)' = Known(s)
  <2>1. CASE s \in op.to
    <3>1. i \notin BgItems(s, {"erase"})
        BY <1>1, <2>1 DEF Held, BgItems, Processing
    <3> QED BY <1>0, <1>2, <2>1, <3>1, LinkedGrows
  <2>2. CASE s \notin op.to
      BY <1>0, <1>2, <2>2, LinkedStays
  <2> QED BY <2>1, <2>2
<1>4. ASSUME NEW s \in Slaves PROVE SentIdsUsed(s)'
  <2>1. \A x \in Writers \ {w} : wop'[x] = wop[x]
      BY <1>0, StoresOp
  <2>2. wop'[w] = op \/ wop'[w].to = {}
      BY <1>0, StoresOp
  <2>3. Reserved(s)' \subseteq Reserved(s) \cup {nextId}
      BY <1>0, <2>1, <2>2, ReservedByWriters
  <2> QED BY <2>3, ImporterUntouched, SentUsedStays
<1>5. ASSUME NEW s \in Slaves PROVE Followed(s)'
  <2>1. CASE s \in op.to
    <3>1. op.row \in followed'[s] => \A j \in Touching(Stored(s), op.row) : j.id < i.id
      <4>1. Stored(s) \subseteq Known(s)
          BY <1>0, KnownItems
      <4> QED BY <1>1, <4>1 DEF Decides, Touching
    <3>2. op.row \in followed'[s] /\ Settled(op.row)' => db'[op.row] = i.val
        BY <1>1 DEF Decides
    <3>3. Current(s) => i \notin Sent(s)
        BY <2>1 DEF i
    <3> QED BY <1>0, <1>1, <1>3, <1>4, <2>1, <3>1, <3>2, <3>3, ItemStored
  <2>2. CASE s \notin op.to
    <3>1. op.row \notin followed'[s] /\ followed[s] \subseteq Rows
        BY <2>2 DEF Decides, CInv, IInv, TypeOK
    <3>2. /\ OneLiveRequest(s)' /\ SentStays(s) /\ Owed(s)' = Owed(s) /\ sdb' = sdb
        BY ImporterUntouched
    <3> QED BY <1>3, <1>4, <2>2, <3>1, <3>2, SameRows
  <2> QED BY <2>1, <2>2
<1>6. ASSUME bgPc = "number", NEW r \in bgKept', ~ToNumber(r)
      PROVE  NumberedRight(r) => NumberedRight(r)'
  <2>1. /\ bgSlave' = bgSlave /\ bgItems' = bgItems /\ bgSlave \in Slaves /\ r \in Rows
        /\ SentStays(bgSlave) /\ Sent(bgSlave)' = Sent(bgSlave)
        /\ Current(bgSlave)' = Current(bgSlave)
      BY <1>0, <1>6, ImporterUntouched DEF IInv, TypeOK
  <2> DEFINE known == Known(bgSlave)
             knownNow == Known(bgSlave)'
  <2>2. IF bgSlave \in op.to THEN knownNow = known \cup {i} ELSE knownNow = known
    <3>1. \A s : s = bgSlave => Known(s)' = Known(bgSlave)'
        BY <2>1 DEF Known, Coming, Dispatching, BgItems
    <3> QED BY <1>3, <2>1, <3>1
  <2>known. \A j \in known : j.id \in Nat
      BY <1>0, <2>1, KnownItems
  <2>stays. /\ Touching(knownNow, r) = Touching(known, r)
            /\ Settled(r)' => Settled(r) /\ db'[r] = db[r]
            => (NumberedRight(r) => NumberedRight(r)')
      BY <2>1, NumberedStays
  <2>again. \A n \in Touching(knownNow, r) :
                /\ \A j \in Touching(knownNow, r) : j.id <= n.id
                /\ Settled(r)' => n.val = db'[r]
                /\ Current(bgSlave)' => n \notin Sent(bgSlave)'
                => (NumberedRight(r) => NumberedRight(r)')
      BY <2>1, NumberedAgain
  <2>3. CASE r # op.row
    <3>1. Touching(knownNow, r) = Touching(known, r)
        BY <1>1, <2>2, <2>3 DEF Touching
    <3> QED BY <2>1, <2>3, <2>stays, <3>1
  <2>4. CASE r = op.row
    <3>1. Decides(bgSlave, op)
        BY <1>6, <2>4
    <3>2. bgSlave \in op.to /\ knownNow = known \cup {i}
          /\ \A j \in Touching(known, r) : j.id < i.id
        BY <1>1, <2>2, <2>4, <3>1 DEF Decides
    <3>3. i \in Touching(knownNow, r) /\ \A j \in Touching(knownNow, r) : j.id <= i.id
      <4> HIDE DEF known, knownNow
      <4> QED BY <1>1, <2>4, <2>known, <3>2 DEF Touching, Item
    <3>4. Settled(r)' => i.val = db'[r]
        BY <1>1, <2>4, <3>1 DEF Decides
    <3>5. Current(bgSlave)' => i \notin Sent(bgSlave)'
        BY <2>1, <3>2 DEF i
    <3> QED BY <2>again, <3>3, <3>4, <3>5
  <2> QED BY <2>3, <2>4
<1>7. bgPc = "number" => \A r \in bgKept' :
                IF ToNumber(r) THEN db'[r] = db[r] ELSE NumberedRight(r) => NumberedRight(r)'
  <2>1. bgKept' \subseteq Rows
      BY <1>0 DEF IInv, TypeOK
  <2> QED BY <1>6, <2>1
<1>8. Dumps'
    BY <1>0, <1>7, DumpStays
<1> QED BY <1>5, <1>8

\* A writer that stores nothing yet, or no more.
LEMMA WriterWaits ==
    ASSUME CInv, NEW w \in Writers, nextId' \in Nat, nextId <= nextId',
           UNCHANGED <<lastSent, updater, network, importer, followed>>,
           \A s \in Slaves : Linked(s)' = Linked(s),
           \A s \in Slaves : \A x \in Writers : s \in wop'[x].to =>
                (s \in wop[x].to /\ wop'[x].id = wop[x].id) \/ wop'[x].id = nextId,
           \A r \in Rows : Settled(r)' => Settled(r) /\ db'[r] = db[r],
           bgKept' \subseteq bgKept,
           \A r \in bgKept' : ToNumber(r) => db'[r] = db[r]
    PROVE  (\A s \in Slaves : Followed(s)') /\ Dumps'
<1>0. /\ IInv /\ UNCHANGED <<bgPc, bgSlave, bgItems, bgLeft>>
      /\ bgPc \in {"number", "erase"} => bgSlave \in Slaves
      /\ \A s \in Slaves : followed[s] \subseteq Rows
      /\ bgKept \subseteq Rows
    BY DEF CInv, IInv, TypeOK, updater, scratch, Processing
<1>1. ASSUME NEW s \in Slaves PROVE Stored(s)' = Stored(s) /\ Known(s)' = Known(s)
    BY <1>0, LinkedStays
<1>2. ASSUME NEW s \in Slaves PROVE Followed(s)'
  <2>1. Reserved(s)' \subseteq Reserved(s) \cup {nextId}
      BY <1>0, ReservedByWriters
  <2>2. /\ OneLiveRequest(s)' /\ SentStays(s) /\ Owed(s)' = Owed(s) /\ sdb' = sdb
      BY ImporterUntouched
  <2>3. SentIdsUsed(s)'
      BY <2>1, <2>2, SentUsedStays
  <2> QED BY <1>0, <1>1, <2>2, <2>3, SameRows
<1>3. ASSUME bgPc = "number", NEW r \in bgKept' PROVE NumberedRight(r) => NumberedRight(r)'
  <2>1. bgSlave \in Slaves /\ SentStays(bgSlave) /\ bgSlave' = bgSlave
      BY <1>0, <1>3, ImporterUntouched
  <2>2. Known(bgSlave)' = Known(bgSlave)
    <3>1. \A s : s = bgSlave => Known(s)' = Known(bgSlave)'
        BY <2>1 DEF Known, Coming, Dispatching, BgItems
    <3> QED BY <1>1, <2>1, <3>1
  <2>3. Settled(r)' => Settled(r) /\ db'[r] = db[r]
      BY <1>0
  <2> QED BY <1>0, <2>1, <2>2, <2>3, NumberedStays
<1> QED BY <1>0, <1>2, <1>3, DumpStays

\* A modification that is queued after it was saved takes the newest id.
LEMMA EnqueueFollowed ==
    ASSUME CInv, IInv', NEW w \in Writers, NEW to \in SUBSET Receivers, Enqueue(w, to)
    PROVE  (\A s \in Slaves : Followed(s)') /\ Dumps'
<1>2. /\ IInv /\ nextId \in Nat /\ wpc \in [Writers -> WpcType] /\ wop \in [Writers -> OpType]
      /\ followed \in [Slaves -> SUBSET Rows]
      /\ \A s \in Slaves : \A i \in Held(s) : i.id < nextId /\ i.id \in Nat
      /\ bgPc = "number" => bgSlave \in Slaves
    BY HeldTypes DEF CInv, IInv, TypeOK, OpType, WpcType, Processing
<1>op. PICK op \in OpType : op = [wop[w] EXCEPT !.id = nextId, !.to = to]
    BY <1>2 DEF OpType, Receivers
<1> DEFINE last == \A x \in Writers \ {w} : ~(wpc[x] = "saved" /\ wop[x].row = op.row)
           kept(s) == s \in to /\ ~(last /\ db[op.row] # op.val)
<1>1. /\ wpc[w] = "saved" /\ Stores(w, op)
      /\ nextId' = IF Receivers = {} THEN nextId ELSE nextId + 1
      /\ followed' = [s \in Slaves |->
                        IF kept(s) THEN followed[s] ELSE followed[s] \ {op.row}]
      /\ bgKept' = IF ToNumber(op.row) \/ kept(bgSlave) THEN bgKept ELSE bgKept \ {op.row}
      /\ UNCHANGED <<db, queue, activity, lastSent, updater, network, importer>>
    BY <1>op, ZenonT(30) DEF Enqueue
<1>3. op.id = nextId /\ op.to = to /\ op.row = wop[w].row
    BY <1>2, <1>op DEF OpType
<1>4. nextId' \in Nat /\ nextId <= nextId'
    BY <1>1, <1>2
<1>5. /\ \A x \in Writers \ {w} : wpc'[x] = wpc[x] /\ wop'[x] = wop[x]
      /\ wpc'[w] # "saved"
    BY <1>1, <1>2 DEF Stores
<1>6. \A s \in op.to : \A i \in Held(s) : i.id # op.id
    BY <1>2, <1>3 DEF OpType
<1>7. ASSUME NEW s \in op.to, Current(s) PROVE SyncItem(op) \notin Sent(s)
  <2>1. s \in Slaves /\ SyncItem(op).id = nextId
      BY <1>3 DEF SyncItem, OpType
  <2> QED BY <1>2, <1>7, <2>1 DEF CInv, Followed, SentIdsUsed
<1>8. \A r \in Rows \ {op.row} : db'[r] = db[r] /\ (Settled(r)' => Settled(r))
    BY <1>1, <1>3, <1>5 DEF Settled
<1>9. ASSUME NEW s \in Slaves, kept(s) PROVE Decides(s, op)
  <2>1. \A j \in Touching(Known(s), op.row) : j.id < op.id
      BY <1>2, <1>3, KnownItems DEF Touching
  <2>2. ASSUME Settled(op.row)' PROVE db'[op.row] = op.val
    <3>1. last
        BY <1>5, <2>2 DEF Settled
    <3> QED BY <1>1, <1>9, <3>1
  <2> QED BY <1>3, <1>9, <2>1, <2>2 DEF Decides
<1> HIDE DEF kept
<1>10. ASSUME NEW s \in Slaves
       PROVE  /\ followed'[s] \subseteq followed[s]
              /\ op.row \in followed'[s] => Decides(s, op)
    BY <1>1, <1>9
<1>11. /\ bgKept' \subseteq bgKept
       /\ bgPc = "number" /\ op.row \in bgKept' =>
            IF ToNumber(op.row) THEN db'[op.row] = db[op.row] ELSE Decides(bgSlave, op)
    BY <1>1, <1>2, <1>9
<1> QED BY <1>1, <1>3, <1>4, <1>6, <1>7, <1>8, <1>10, <1>11, StoreFollowed

\* A transaction is committed: its item may be an old one.
LEMMA CommitFollowed ==
    ASSUME CInv, IInv', NEW w \in Writers, Commit(w)
    PROVE  (\A s \in Slaves : Followed(s)') /\ Dumps'
<1>2. /\ IInv /\ nextId \in Nat /\ wpc \in [Writers -> WpcType] /\ wop \in [Writers -> OpType]
      /\ followed \in [Slaves -> SUBSET Rows] /\ db \in Database
      /\ bgPc = "number" => bgSlave \in Slaves
    BY DEF CInv, IInv, TypeOK, OpType, WpcType, Processing
<1>op. PICK op \in OpType : op = wop[w]
    BY <1>2
<1> DEFINE kept(s) == s \in op.to /\ ~Overtaken(s, op.row, op.id)
<1>1. /\ wpc[w] = "prepared" /\ Stores(w, op)
      /\ db' = [db EXCEPT ![op.row] = op.val]
      /\ followed' = [s \in Slaves |->
                        IF kept(s) THEN followed[s] ELSE followed[s] \ {op.row}]
      /\ bgKept' = IF ~ToNumber(op.row) /\ kept(bgSlave) THEN bgKept ELSE bgKept \ {op.row}
      /\ UNCHANGED <<nextId, queue, activity, lastSent, updater, network, importer, used>>
    BY <1>op, ZenonT(30) DEF Commit
<1>3. op.row \in Rows /\ op.to \subseteq Slaves /\ op.id \in Nat
    BY DEF OpType
<1>own. \A s \in op.to : OwnId(w, s)
    BY <1>2, <1>3, <1>op, FreshParts DEF IInv
<1>4. \A s \in op.to : \A i \in Held(s) : i.id # op.id
    BY <1>own, <1>op DEF OwnId
<1>5. ASSUME NEW s \in op.to, Current(s) PROVE SyncItem(op) \notin Sent(s)
  <2>1. s \in Slaves /\ SyncItem(op).id = op.id
      BY <1>3 DEF SyncItem
  <2>2. op.id \in Reserved(s)
      BY <1>op DEF Reserved
  <2> QED BY <1>5, <2>1, <2>2 DEF CInv, Followed, SentIdsUsed
<1>6. /\ \A x \in Writers \ {w} : wpc'[x] = wpc[x] /\ wop'[x] = wop[x]
      /\ wpc'[w] # "saved"
    BY <1>1, <1>2 DEF Stores
<1>7. \A r \in Rows \ {op.row} : db'[r] = db[r] /\ (Settled(r)' => Settled(r))
    BY <1>1, <1>2, <1>6 DEF Settled, Database
<1>8. ASSUME NEW s \in Slaves, kept(s) PROVE Decides(s, op)
  <2>1. ASSUME NEW j \in Known(s) PROVE j.id # op.id
    <3>1. CASE j \in queue[s] \cup BgItems(s, {"number", "dispatch"})
      <4>1. j \in Held(s)
          BY <3>1 DEF Held, BgItems, Processing
      <4> QED BY <1>4, <1>8, <4>1
    <3>2. CASE j \in Dispatching(s)
      <4>1. PICK x \in Writers : wpc[x] = "dispatching" /\ s \in wop[x].to /\ j = SyncItem(wop[x])
          BY <3>2 DEF Dispatching
      <4>2. x # w /\ j.id = wop[x].id
          BY <1>1, <4>1 DEF SyncItem
      <4> QED BY <1>own, <1>op, <1>8, <4>1, <4>2 DEF OwnId
    <3> QED BY <3>1, <3>2 DEF Known, Coming
  <2>2. \A j \in Known(s) : j.id \in Nat
      BY <1>2, KnownItems
  <2>3. \A j \in Touching(Known(s), op.row) : ~(j.id > op.id)
      BY <1>8 DEF Overtaken, Known, Touching
  <2>4. \A j \in Touching(Known(s), op.row) : j.id < op.id
      BY <1>3, <2>1, <2>2, <2>3 DEF Touching
  <2>5. db'[op.row] = op.val
      BY <1>1, <1>2, <1>3 DEF Database
  <2> QED BY <1>8, <2>4, <2>5 DEF Decides
<1> HIDE DEF kept
<1>9. ASSUME NEW s \in Slaves
      PROVE  /\ followed'[s] \subseteq followed[s]
             /\ op.row \in followed'[s] => Decides(s, op)
    BY <1>1, <1>8
<1>10. /\ bgKept' \subseteq bgKept
       /\ bgPc = "number" /\ op.row \in bgKept' =>
            IF ToNumber(op.row) THEN db'[op.row] = db[op.row] ELSE Decides(bgSlave, op)
    BY <1>1, <1>2, <1>8
<1>11. op = wop[w] /\ nextId' \in Nat /\ nextId <= nextId' /\ wpc[w] # "dispatching"
    BY <1>op, <1>1, <1>2
<1> QED BY <1>1, <1>3, <1>4, <1>5, <1>7, <1>9, <1>10, <1>11, StoreFollowed

\* The steps of a writer.
LEMMA WriterFollowed ==
    ASSUME CInv, IInv', NEW w \in Writers, WriterStep(w)
    PROVE  (\A s \in Slaves : Followed(s)') /\ Dumps'
<1>1. /\ IInv /\ nextId \in Nat /\ wpc \in [Writers -> WpcType] /\ wop \in [Writers -> OpType]
      /\ db \in Database
    BY DEF CInv, IInv, TypeOK, OpType, WpcType
<1>linked. ASSUME queue' = queue, \A x \in Writers \ {w} : wpc'[x] = wpc[x] /\ wop'[x] = wop[x],
                  wpc[w] # "dispatching", wpc'[w] # "dispatching"
           PROVE  \A s \in Slaves : Linked(s)' = Linked(s)
    BY <1>linked DEF Linked, Dispatching
<1>2. ASSUME NEW r \in Rows, NEW v \in Content, Prepare(w, r, v)
      PROVE  (\A s \in Slaves : Followed(s)') /\ Dumps'
  <2>1. /\ wpc[w] = "idle" /\ wpc' = [wpc EXCEPT ![w] = "prepared"]
        /\ wop' = [wop EXCEPT ![w] = [row |-> r, val |-> v, id |-> nextId, to |-> Receivers]]
        /\ nextId' = IF Receivers = {} THEN nextId ELSE nextId + 1
        /\ UNCHANGED <<db, queue, activity, lastSent, updater, network, importer, history>>
      BY <1>2 DEF Prepare
  <2>2. /\ \A x \in Writers \ {w} : wpc'[x] = wpc[x] /\ wop'[x] = wop[x]
        /\ wpc'[w] = "prepared" /\ wop'[w].id = nextId
      BY <1>1, <2>1
  <2>3. \A q \in Rows : Settled(q)' => Settled(q) /\ db'[q] = db[q]
      BY <2>1, <2>2 DEF Settled
  <2>4. nextId' \in Nat /\ nextId <= nextId'
      BY <1>1, <2>1
  <2>5. \A s \in Slaves : Linked(s)' = Linked(s)
      BY <1>linked, <2>1, <2>2
  <2> QED BY <2>1, <2>2, <2>3, <2>4, <2>5, WriterWaits DEF history
<1>3. ASSUME NEW r \in Rows, NEW v \in Content, DirectSave(w, r, v)
      PROVE  (\A s \in Slaves : Followed(s)') /\ Dumps'
  <2>1. /\ wpc[w] = "idle" /\ wpc' = [wpc EXCEPT ![w] = "saved"]
        /\ wop' = [wop EXCEPT ![w] = [row |-> r, val |-> v, id |-> 0, to |-> {}]]
        /\ db' = [db EXCEPT ![r] = v]
        /\ bgKept' = IF ToNumber(r) THEN bgKept \ {r} ELSE bgKept
        /\ UNCHANGED <<nextId, queue, activity, lastSent, updater, network, importer, followed>>
      BY <1>3 DEF DirectSave
  <2>2. /\ \A x \in Writers \ {w} : wpc'[x] = wpc[x] /\ wop'[x] = wop[x]
        /\ wpc'[w] = "saved" /\ wop'[w].to = {} /\ wop'[w].row = r
      BY <1>1, <2>1
  <2>3. \A q \in Rows : Settled(q)' => Settled(q) /\ db'[q] = db[q]
      BY <1>1, <2>1, <2>2 DEF Settled, Database
  <2>4. \A s \in Slaves : Linked(s)' = Linked(s)
      BY <1>linked, <2>1, <2>2
  <2>5. bgKept' \subseteq bgKept /\ \A q \in bgKept' : ToNumber(q) => db'[q] = db[q]
    <3>1. bgKept \subseteq Rows
        BY <1>1 DEF IInv, TypeOK
    <3> QED BY <1>1, <2>1, <3>1 DEF Database
  <2> QED BY <1>1, <2>1, <2>2, <2>3, <2>4, <2>5, WriterWaits
<1>4. CASE Rollback(w)
  <2>1. /\ wpc[w] = "prepared" /\ wpc' = [wpc EXCEPT ![w] = "idle"]
        /\ wop' = [wop EXCEPT ![w] = IdleOp]
        /\ UNCHANGED <<db, nextId, queue, lastSent, updater, network, importer, history>>
      BY <1>4 DEF Rollback, master
  <2>2. /\ \A x \in Writers \ {w} : wpc'[x] = wpc[x] /\ wop'[x] = wop[x]
        /\ wpc'[w] = "idle" /\ wop'[w].to = {}
      BY <1>1, <2>1, IdleOpType
  <2>3. \A q \in Rows : Settled(q)' => Settled(q) /\ db'[q] = db[q]
      BY <2>1, <2>2 DEF Settled
  <2>4. \A s \in Slaves : Linked(s)' = Linked(s)
      BY <1>linked, <2>1, <2>2
  <2> QED BY <1>1, <2>1, <2>2, <2>3, <2>4, WriterWaits DEF history
<1>5. CASE Dispatch(w)
  <2>1. PICK t \in wop[w].to :
            /\ wpc[w] = "dispatching"
            /\ Stores(w, [wop[w] EXCEPT !.to = wop[w].to \ {t}])
      BY <1>5 DEF Dispatch
  <2> DEFINE op == [wop[w] EXCEPT !.to = wop[w].to \ {t}]
  <2>2. op.to \subseteq wop[w].to /\ op.id = wop[w].id
      BY <1>1 DEF OpType
  <2> HIDE DEF op
  <2>3. /\ \A x \in Writers \ {w} : wpc'[x] = wpc[x] /\ wop'[x] = wop[x]
        /\ wpc'[w] # "saved" /\ wpc[w] # "saved"
        /\ wop'[w] = op \/ wop'[w].to = {}
      BY <1>1, <2>1, IdleOpType DEF Stores, op
  <2>4. UNCHANGED <<db, nextId, lastSent, updater, network, importer, history>>
      BY <1>5 DEF Dispatch
  <2>5. \A q \in Rows : Settled(q)' => Settled(q) /\ db'[q] = db[q]
      BY <2>3, <2>4 DEF Settled
  <2>6. \A s \in Slaves : Linked(s)' = Linked(s)
      BY <1>1, <1>5, DispatchLinked
  <2>7. \A s \in Slaves : \A x \in Writers : s \in wop'[x].to =>
            s \in wop[x].to /\ wop'[x].id = wop[x].id
      BY <2>2, <2>3
  <2> QED BY <1>1, <2>4, <2>5, <2>6, <2>7, WriterWaits DEF history
<1>6. CASE DirectEnqueue(w)
    BY <1>6, EnqueueFollowed DEF DirectEnqueue
<1> QED BY <1>2, <1>3, <1>4, <1>5, <1>6, CommitFollowed DEF WriterStep

-----------------------------------------------------------------------------
(* Steps of the handlers. *)

\* A handler that ends.
LEMMA RespondOne ==
    ASSUME CInv, NEW s \in Slaves, NEW q \in req[s], NEW r, r.kind # "none",
           Respond(s, q, r), spc' = spc
    PROVE  /\ OneLiveRequest(s)'
           /\ req'[s] = req[s] \ {q}
           /\ reply'[s] = IF q.live THEN r ELSE reply[s]
           /\ q.live => /\ reply[s].kind = "none"
                        /\ spc[s] = IF q.kind = "poll" THEN "polling" ELSE "acking"
           /\ \A t \in Slaves \ {s} : req'[t] = req[t] /\ reply'[t] = reply[t]
<1>1. OneLiveRequest(s) /\ req[s] \subseteq RequestType
    BY DEF CInv, Followed, IInv, TypeOK
<1>2. /\ req'[s] = req[s] \ {q}
      /\ reply'[s] = IF q.live THEN r ELSE reply[s]
      /\ \A t \in Slaves \ {s} : req'[t] = req[t] /\ reply'[t] = reply[t]
    BY DEF Respond, CInv, IInv, TypeOK
<1>3. q.live => /\ reply[s].kind = "none"
                /\ spc[s] = IF q.kind = "poll" THEN "polling" ELSE "acking"
                /\ \A p \in req[s] : p.live => p = q
    BY <1>1 DEF OneLiveRequest
<1>4. OneLiveRequest(s)'
  <2>1. CASE q.live
      BY <1>2, <1>3, <2>1 DEF OneLiveRequest
  <2>2. CASE ~q.live
      BY <1>1, <1>2, <2>2 DEF OneLiveRequest
  <2> QED BY <2>1, <2>2
<1> QED BY <1>2, <1>3, <1>4

\* A handler that goes on.
LEMMA AdvanceOne ==
    ASSUME CInv, NEW s \in Slaves, NEW q \in req[s], q.kind = "poll", NEW step,
           Advance(s, q, step), spc' = spc
    PROVE  /\ OneLiveRequest(s)'
           /\ \A t \in Slaves \ {s} : req'[t] = req[t]
<1> DEFINE p == [q EXCEPT !.step = step]
<1>1. OneLiveRequest(s) /\ q \in RequestType
    BY DEF CInv, Followed, IInv, TypeOK
<1>2. p.live = q.live /\ p.kind = q.kind
    BY <1>1 DEF RequestType
<1>3. /\ req'[s] = (req[s] \ {q}) \cup {p} /\ reply' = reply
      /\ \A t \in Slaves \ {s} : req'[t] = req[t]
    BY DEF Advance, CInv, IInv, TypeOK
<1> HIDE DEF p
<1>4. OneLiveRequest(s)'
    BY <1>1, <1>2, <1>3 DEF OneLiveRequest
<1> QED BY <1>3, <1>4

\* The items on their way are not in the queue; those of a followed row are all stored.
LEMMA QueueApart ==
    ASSUME CInv, NEW s \in Slaves
    PROVE  /\ \A i \in queue[s], j \in Coming(s) : i.id # j.id
           /\ \A r \in followed[s] : Touching(queue[s], r) \subseteq Touching(Stored(s), r)
<1>1. /\ QueueFresh(Held(s), nextId) /\ Apart(s)
      /\ \A w \in Writers : s \in wop[w].to => OwnId(w, s)
    BY FreshParts DEF CInv, IInv
<1>2. ASSUME NEW i \in queue[s], NEW j \in Coming(s) PROVE i.id # j.id
  <2>1. CASE j \in Dispatching(s)
    <3>1. PICK w \in Writers : s \in wop[w].to /\ j = SyncItem(wop[w])
        BY <2>1 DEF Dispatching
    <3> QED BY <1>1, <3>1 DEF OwnId, Held, SyncItem
  <2>2. CASE j \in BgItems(s, {"number", "dispatch"})
    <3>1. i \in Held(s) /\ j \in Held(s)
        BY <2>2 DEF Held, BgItems, Processing
    <3> QED BY <1>1, <2>2, <3>1 DEF QueueFresh, Apart
  <2> QED BY <1>2, <2>1, <2>2 DEF Coming
<1>3. ASSUME NEW r \in followed[s] PROVE Touching(queue[s], r) \subseteq Touching(Stored(s), r)
  <2>1. Touching(BgItems(s, {"erase"}), r) = {}
      BY DEF CInv, Dumps, ErasedForgotten, BgItems, Touching
  <2> QED BY <2>1 DEF Stored, Touching
<1> QED BY <1>2, <1>3

\* What is stored and on its way changes with the queue only.
LEMMA QueueStep ==
    ASSUME UNCHANGED <<wpc, wop, bgPc, bgSlave, bgItems>>, NEW s
    PROVE  /\ Coming(s)' = Coming(s) /\ Reserved(s)' = Reserved(s)
           /\ Known(s)' = queue'[s] \cup Coming(s)
           /\ \A r : Touching(queue'[s], r) = Touching(queue[s], r) =>
                /\ Touching(Stored(s)', r) = Touching(Stored(s), r)
                /\ Touching(Known(s)', r) = Touching(Known(s), r)
<1>1. \A steps : BgItems(s, steps)' = BgItems(s, steps)
    BY DEF BgItems
<1>2. Dispatching(s)' = Dispatching(s)
    BY DispatchingStays
<1>3. Coming(s)' = Coming(s) /\ Reserved(s)' = Reserved(s) /\ Known(s)' = queue'[s] \cup Coming(s)
    BY <1>1, <1>2 DEF Coming, Reserved, Known, Ids
<1>4. Stored(s)' = (queue'[s] \cup Dispatching(s) \cup BgItems(s, {"dispatch"}))
                        \ BgItems(s, {"erase"})
    BY <1>1, <1>2 DEF Stored
<1>5. Stored(s) = (queue[s] \cup Dispatching(s) \cup BgItems(s, {"dispatch"}))
                        \ BgItems(s, {"erase"})
    BY DEF Stored
<1>6. ASSUME NEW r, Touching(queue'[s], r) = Touching(queue[s], r)
      PROVE  /\ Touching(Stored(s)', r) = Touching(Stored(s), r)
             /\ Touching(Known(s)', r) = Touching(Known(s), r)
    BY <1>3, <1>4, <1>5, <1>6 DEF Touching, Known
<1> QED BY <1>3, <1>6

\* A step that sends nothing, and removes no item of a row that stays followed.
LEMMA RowsStay ==
    ASSUME CInv, NEW s \in Slaves, OneLiveRequest(s)', SentStays(s), Owed(s)' = Owed(s),
           followed'[s] \subseteq followed[s], sdb'[s] = sdb[s],
           \A r \in followed'[s] : Touching(queue'[s], r) = Touching(queue[s], r),
           UNCHANGED <<db, nextId, wpc, wop, bgPc, bgSlave, bgItems>>
    PROVE  Followed(s)'
<1>1. \A r \in followed'[s] : /\ Touching(Stored(s)', r) = Touching(Stored(s), r)
                              /\ Settled(r)' => Settled(r)
    BY QueueStep DEF Settled
<1>2. SentIdsUsed(s)'
  <2>1. Reserved(s)' = Reserved(s) /\ nextId \in Nat
      BY QueueStep DEF CInv, IInv, TypeOK
  <2> QED BY <2>1, SentUsedStays
<1> QED BY <1>1, <1>2, SameRows

\* ... and what it leaves to the dump.
LEMMA DumpRowsStay ==
    ASSUME CInv, UNCHANGED <<db, wpc, wop, bgPc, bgSlave, bgItems, bgLeft>>,
           bgKept' \subseteq bgKept,
           bgSlave \in Slaves =>
                /\ followed'[bgSlave] \subseteq followed[bgSlave] /\ SentStays(bgSlave)
                /\ \A r \in bgKept' : Touching(queue'[bgSlave], r) = Touching(queue[bgSlave], r)
    PROVE  Dumps'
<1>1. bgPc \in {"number", "erase"} => bgSlave \in Slaves
    BY DEF CInv, IInv, TypeOK, Processing
<1>2. ASSUME bgPc = "number", NEW r \in bgKept' PROVE NumberedRight(r) => NumberedRight(r)'
  <2>1. \A s : s = bgSlave => Known(s)' = Known(bgSlave)'
      BY DEF Known, Coming, Dispatching, BgItems
  <2>2. Touching(Known(bgSlave)', r) = Touching(Known(bgSlave), r)
      BY <1>1, <1>2, <2>1, QueueStep
  <2>3. Settled(r)' => Settled(r) /\ db'[r] = db[r]
      BY DEF Settled
  <2>4. SentStays(bgSlave)
      BY <1>1, <1>2
  <2> QED BY <2>2, <2>3, <2>4, NumberedStays
<1> QED BY <1>1, <1>2, DumpStays

\* A handler that ends without telling the importer of items.
LEMMA AnswerStays ==
    ASSUME CInv, NEW s \in Slaves, NEW q \in req[s],
           NEW kind \in {"noContent", "processing", "busy", "ERROR", "failure"},
           Respond(s, q, Reply(kind)), UNCHANGED importer,
           lastSent'[s].first = 0 \/ q.kind = "poll" \/ lastSent'[s] = lastSent[s]
    PROVE  OneLiveRequest(s)' /\ SentStays(s) /\ Owed(s)' = Owed(s)
<1>1. spc' = spc /\ batch' = batch
    BY DEF importer
<1>2. /\ OneLiveRequest(s)'
      /\ reply'[s] = IF q.live THEN Reply(kind) ELSE reply[s]
      /\ req'[s] \subseteq req[s]
      /\ q.live => reply[s].kind = "none"
    BY <1>1, RespondOne DEF Reply
<1>3. Current(s)' => Current(s)
    BY <1>2 DEF Current
<1>4. Owed(s)' = Owed(s) /\ (Sent(s)' = {} \/ Sent(s)' = Sent(s))
  <2>1. CASE ~q.live
      BY <1>1, <1>2, <2>1 DEF Owed, Sent
  <2>2. CASE q.live
      BY <1>1, <1>2, <2>2 DEF Owed, Sent, Reply
  <2> QED BY <2>1, <2>2
<1> QED BY <1>2, <1>3, <1>4 DEF SentStays

\* The requests and replies of the other slaves.
LEMMA OthersStay ==
    ASSUME CInv, NEW t \in Slaves, req'[t] \subseteq req[t], reply'[t] = reply[t],
           lastSent'[t] = lastSent[t], spc'[t] = spc[t], batch'[t] = batch[t]
    PROVE  OneLiveRequest(t)' /\ SentStays(t) /\ Owed(t)' = Owed(t)
<1>1. OneLiveRequest(t)'
    BY DEF CInv, Followed, OneLiveRequest
<1>2. Sent(t)' = Sent(t) /\ Owed(t)' = Owed(t) /\ (Current(t)' => Current(t))
    BY DEF Sent, Owed, Current
<1> QED BY <1>1, <1>2 DEF SentStays

\* A poll that is served: the first items of the queue contain all those of a row or not
\* the one that decides it, unless one of them is still on its way.
LEMMA ServeFollowed ==
    ASSUME CInv, NEW s \in Slaves, PollServe(s)
    PROVE  Followed(s)' /\ Dumps'
<1>0. PICK sent : sent = FirstItems(queue[s], MaxQueriesNumber)
    OBVIOUS
<1> DEFINE answer == IF sent = {} THEN Reply("noContent") ELSE ContentReply(sent)
<1>1. PICK q \in req[s] : q.kind = "poll" /\ Respond(s, q, answer) /\ Lose(s, LeftBehind(s, sent))
    BY <1>0 DEF PollServe
<1>2. answer.items = sent /\ answer.kind \in {"noContent", "content"}
      /\ (sent = {} <=> answer.kind = "noContent")
    BY DEF Reply, ContentReply
<1>3. /\ UNCHANGED <<db, nextId, queue, writers, updater, importer>>
      /\ UNCHANGED <<wpc, wop, bgPc, bgSlave, bgItems, bgLeft>>
    BY DEF PollServe, writers, updater, scratch
<1>4. queue[s] \in SUBSET Item /\ Bounded(queue[s]) /\ UniqueIds(queue[s])
    BY QueueBounded DEF CInv, IInv
<1>5. sent \subseteq queue[s]
    BY <1>0 DEF FirstItems
<1> HIDE DEF answer
<1>6. /\ OneLiveRequest(s)'
      /\ reply'[s] = IF q.live THEN answer ELSE reply[s]
      /\ req'[s] \subseteq req[s]
      /\ q.live => reply[s].kind = "none" /\ spc[s] = "polling"
    BY <1>1, <1>2, <1>3, RespondOne DEF importer
<1>7. Current(s)
    BY <1>1 DEF Current
<1>8. spc' = spc /\ batch' = batch /\ sdb' = sdb
    BY <1>3 DEF importer
<1>9. /\ followed'[s] = followed[s] \ LeftBehind(s, sent)
      /\ bgKept' = IF s = bgSlave THEN bgKept \ LeftBehind(s, sent) ELSE bgKept
      /\ \A t \in Slaves : followed'[t] \subseteq followed[t]
      /\ bgKept \subseteq Rows /\ followed[s] \subseteq Rows
    BY <1>1 DEF Lose, CInv, IInv, TypeOK
<1>known. /\ WellNumbered(Known(s)) /\ WellNumbered(Stored(s))
          /\ Stored(s) \subseteq Known(s)
          /\ \A i \in Known(s) : i.id \in Nat
    BY KnownItems DEF CInv
\* An older item of the row that is on its way is left behind.
<1>behind. ASSUME NEW r \in Rows \ LeftBehind(s, sent), NEW n \in sent, r \in n.rows,
                  NEW i \in Coming(s), r \in i.rows, i.id <= n.id
           PROVE  FALSE
  <2>1. n \in Known(s) /\ i \in Known(s) /\ i.id # n.id
      BY <1>5, <1>behind, QueueApart DEF Known
  <2>2. i.id < n.id
      BY <1>known, <1>behind, <2>1
  <2> QED BY <1>behind, <2>2 DEF LeftBehind
<1>10. Owed(s)' = Owed(s) /\ (~q.live => Sent(s)' = Sent(s)) /\ (q.live => Sent(s)' = sent)
    BY <1>2, <1>6, <1>8 DEF Owed, Sent
<1>11. Stored(s)' = Stored(s) /\ Known(s)' = Known(s) /\ Reserved(s)' = Reserved(s)
  <2>1. Linked(s)' = Linked(s)
      BY <1>3, DispatchingStays DEF Linked
  <2> QED BY <1>3, <2>1, LinkedStays, QueueStep
<1>12. Followed(s)'
  <2>1. CASE ~q.live
    <3>1. SentStays(s)
        BY <1>7, <1>10, <2>1 DEF SentStays
    <3> QED BY <1>3, <1>6, <1>8, <1>9, <1>10, <3>1, RowsStay
  <2>2. CASE q.live
    <3>1. SentIdsUsed(s)'
      <4> SUFFICES ASSUME NEW i \in sent PROVE i.id < nextId /\ i.id \notin Reserved(s)
          BY <1>3, <1>10, <1>11, <2>2 DEF SentIdsUsed
      <4>1. i \in queue[s] /\ i \in Held(s)
          BY <1>5 DEF Held
      <4>2. i.id < nextId /\ \A w \in Writers : s \in wop[w].to => wop[w].id # i.id
          BY <4>1, FreshParts DEF CInv, IInv, QueueFresh, OwnId
      <4>3. \A j \in BgItems(s, {"number", "dispatch"}) : i.id # j.id
          BY <4>1, QueueApart DEF Coming
      <4> QED BY <4>2, <4>3 DEF Reserved, Ids
    <3>2. SentWhole(s)'
      <4> SUFFICES ASSUME NEW r \in followed'[s], NEW n \in Touching(Stored(s), r), n \in sent,
                          \A j \in Touching(Stored(s), r) : j.id <= n.id
                   PROVE  Touching(Stored(s), r) \subseteq sent
          BY <1>10, <1>11, <2>2 DEF SentWhole
      <4>1. r \in Rows \ LeftBehind(s, sent) /\ r \in followed[s] /\ r \in n.rows
          BY <1>9 DEF Touching
      <4>2. Touching(queue[s], r) \subseteq Touching(Stored(s), r)
          BY <4>1, QueueApart
      <4>3. n \in Touching(queue[s], r) /\ \A j \in Touching(queue[s], r) : j.id <= n.id
          BY <1>5, <4>1, <4>2 DEF Touching
      <4>4. Touching(queue[s], r) \subseteq sent
          BY <1>0, <1>4, <4>3, FirstItemsWhole, MaxQueriesNumberAssumption
      <4>5. ASSUME NEW j \in Touching(Stored(s), r) PROVE j \in queue[s]
        <5>1. j \in Known(s) /\ r \in j.rows
            BY <1>known DEF Touching
        <5>2. CASE j \in Coming(s)
            BY <1>behind, <4>1, <5>1, <5>2
        <5> QED BY <5>1, <5>2 DEF Known
      <4> QED BY <4>4, <4>5 DEF Touching
    <3>3. Converges(s)'
      <4>1. Expected(s)' = Expected(s)
          BY <1>8, <1>10, <1>11 DEF Expected
      <4> QED BY <1>3, <1>9, <4>1 DEF Converges, Settled, CInv, Followed
    <3> QED BY <1>6, <3>1, <3>2, <3>3 DEF Followed
  <2> QED BY <2>1, <2>2
<1>13. ASSUME s # bgSlave PROVE Dumps'
  <2>1. bgSlave \in Slaves => Sent(bgSlave)' = Sent(bgSlave) /\ Current(bgSlave)' = Current(bgSlave)
    <3>1. \A t \in Slaves \ {s} : req'[t] = req[t] /\ reply'[t] = reply[t]
        BY <1>1, <1>2, <1>3, RespondOne DEF importer
    <3>2. \A t \in Slaves \ {s} : lastSent'[t] = lastSent[t]
        BY DEF PollServe, CInv, IInv, TypeOK
    <3> QED BY <1>3, <1>8, <1>13, <3>1, <3>2 DEF Sent, Current
  <2>2. bgSlave \in Slaves => SentStays(bgSlave)
      BY <1>3, <2>1 DEF SentStays
  <2> QED BY <1>3, <1>9, <1>13, <2>2, DumpRowsStay
<1>14. ASSUME s = bgSlave PROVE Dumps'
  <2>1. ASSUME bgPc = "number", NEW r \in bgKept' PROVE NumberedRight(r) => NumberedRight(r)'
    <3> SUFFICES ASSUME NumberedRight(r) PROVE NumberedRight(r)'
        OBVIOUS
    <3>1. PICK n \in Touching(Known(s), r) :
            /\ \A j \in Touching(Known(s), r) : j.id <= n.id
            /\ Settled(r) => n.val = db[r]
            /\ n \notin Sent(s)
        BY <1>7, <1>14 DEF NumberedRight
    <3>2. r \in Rows \ LeftBehind(s, sent)
        BY <1>9, <1>14, <2>1
    <3>3. PICK i \in bgItems : r \in i.rows
        BY DEF NumberedRight, Touching
    <3>4. i \in Coming(s) /\ i \in Touching(Known(s), r)
        BY <1>14, <2>1, <3>3 DEF Coming, BgItems, Known, Touching
    <3>5. n \notin Sent(s)'
        BY <1>10, <1>behind, <3>1, <3>2, <3>3, <3>4 DEF Touching
    <3>6. Settled(r)' => n.val = db'[r]
        BY <1>3, <3>1 DEF Settled
    <3>7. Known(bgSlave)' = Known(s) /\ Sent(bgSlave)' = Sent(s)'
      <4>1. \A t : t = bgSlave => Known(t)' = Known(bgSlave)' /\ Sent(t)' = Sent(bgSlave)'
          BY <1>3 DEF Known, Coming, Dispatching, BgItems, Sent
      <4> QED BY <1>11, <1>14, <4>1
    <3> QED BY <1>3, <3>1, <3>5, <3>6, <3>7, NumberedAgain
  <2>2. bgKept' \subseteq bgKept /\ followed'[bgSlave] \subseteq followed[bgSlave] /\ db' = db
      BY <1>3, <1>9, <1>14
  <2> QED BY <1>3, <2>1, <2>2, DumpStays
<1> QED BY <1>12, <1>13, <1>14

\* An acknowledgement that is confirmed: the slave may apply what it was sent, and what it
\* was not sent is still stored, except on the rows it follows no more.
LEMMA ConfirmFollowed ==
    ASSUME CInv, NEW s \in Slaves, AckConfirm(s)
    PROVE  Followed(s)' /\ Dumps'
<1>0. PICK cleared : cleared = InRange(queue[s], lastSent[s])
    OBVIOUS
<1>1. PICK q \in req[s] : /\ q.kind = "ack" /\ Respond(s, q, Reply("OK"))
                          /\ Lose(s, Mishandled(s, q, cleared))
    BY <1>0 DEF AckConfirm
<1>2. /\ UNCHANGED <<db, nextId, wpc, wop, importer>>
      /\ UNCHANGED <<bgPc, bgSlave, bgItems, bgLeft>>
      /\ queue'[s] = queue[s] \ cleared /\ lastSent'[s] = Range0
      /\ \A t \in Slaves \ {s} : queue'[t] = queue[t] /\ lastSent'[t] = lastSent[t]
    BY <1>0 DEF AckConfirm, CInv, IInv, TypeOK, writers, updater, scratch
<1>3. cleared \subseteq queue[s] /\ (lastSent[s].first = 0 => cleared = {})
    BY <1>0 DEF InRange
<1>4. /\ OneLiveRequest(s)'
      /\ reply'[s] = IF q.live THEN Reply("OK") ELSE reply[s]
      /\ req'[s] \subseteq req[s]
      /\ q.live => reply[s].kind = "none" /\ spc[s] = "acking"
    BY <1>1, <1>2, RespondOne DEF importer, Reply
<1>5. spc' = spc /\ batch' = batch /\ sdb' = sdb
    BY <1>2 DEF importer
<1>6. Current(s)' => Current(s)
    BY <1>2, <1>4 DEF Current, Range0
<1>7. /\ followed'[s] = followed[s] \ Mishandled(s, q, cleared)
      /\ bgKept' = IF s = bgSlave THEN bgKept \ Mishandled(s, q, cleared) ELSE bgKept
      /\ \A t \in Slaves : followed'[t] \subseteq followed[t]
      /\ bgKept \subseteq Rows /\ followed[s] \subseteq Rows
    BY <1>1 DEF Lose, CInv, IInv, TypeOK
<1>8. q.live => /\ Owed(s) = {} /\ Owed(s)' = batch[s]
                /\ Sent(s) = batch[s] /\ Sent(s)' = {}
    BY <1>4, <1>5 DEF Owed, Sent, Reply
<1>9. ~q.live => Owed(s)' = Owed(s) /\ Sent(s)' = Sent(s) /\ SentStays(s)
    BY <1>4, <1>5, <1>6 DEF Owed, Sent, SentStays
<1>apart. \A i \in cleared, j \in Coming(s) : i # j
    BY <1>3, QueueApart
<1>none. ASSUME ~q.live, NEW r \in Rows \ Mishandled(s, q, cleared)
         PROVE  Touching(queue'[s], r) = Touching(queue[s], r)
  <2>1. Touching(cleared, r) = Touching({}, r)
      BY <1>none DEF Mishandled
  <2> QED BY <1>2, <2>1 DEF Touching
<1>same. q.live => \A r \in Rows \ Mishandled(s, q, cleared) :
                        Touching(batch[s], r) = Touching(cleared, r)
    BY DEF Mishandled
<1>10. Followed(s)'
  <2>1. CASE ~q.live
      BY <1>2, <1>4, <1>5, <1>7, <1>9, <1>none, <2>1, RowsStay
  <2>2. CASE q.live
    <3> DEFINE stored == Stored(s)
               storedNow == Stored(s)'
               gone == cleared \cap stored
    <3>1. WellNumbered(stored)
        BY KnownItems DEF CInv
    <3>2. storedNow = stored \ gone
      <4>1. \A steps : BgItems(s, steps)' = BgItems(s, steps)
          BY <1>2 DEF BgItems
      <4>2. Dispatching(s)' = Dispatching(s)
          BY <1>2, DispatchingStays
      <4>3. storedNow = ((queue[s] \ cleared) \cup Dispatching(s) \cup BgItems(s, {"dispatch"}))
                            \ BgItems(s, {"erase"})
          BY <1>2, <4>1, <4>2 DEF Stored
      <4>4. \A i \in Dispatching(s) \cup BgItems(s, {"dispatch"}) : i \in Coming(s)
          BY DEF Coming, BgItems
      <4> QED BY <1>apart, <4>3, <4>4 DEF Stored
    <3>3. \A r \in Rows : /\ Expected(s)[r] = After(stored, r, After(Owed(s), r, sdb[s][r]))
                          /\ Expected(s)'[r] = After(storedNow, r, After(Owed(s)', r, sdb'[s][r]))
        BY ExpectedRow, ExpectedRowNext
    <3>4. ASSUME NEW r \in followed[s] PROVE Touching(cleared, r) = Touching(gone, r)
      <4>1. Touching(queue[s], r) \subseteq Touching(stored, r)
          BY QueueApart
      <4> QED BY <1>3, <4>1 DEF Touching
    <3>5. ASSUME NEW r \in followed'[s],
                 NEW n \in Touching(stored, r), n \in batch[s],
                 \A j \in Touching(stored, r) : j.id <= n.id
          PROVE  Touching(stored, r) \subseteq batch[s]
      <4>1. r \in followed[s] /\ r \in n.rows /\ Touching(batch[s], r) = Touching(cleared, r)
          BY <1>7, <1>same, <2>2 DEF Touching
      <4>2. n \in cleared
          BY <3>5, <4>1 DEF Touching
      <4>3. Current(s)
          BY <1>3, <4>2 DEF Current
      <4> QED BY <1>8, <2>2, <3>5, <4>1, <4>3 DEF CInv, Followed, SentWhole
    <3> HIDE DEF stored, storedNow, gone
    <3>6. ASSUME NEW r \in followed'[s], Settled(r)' PROVE Expected(s)'[r] = db'[r]
      <4> DEFINE old == sdb[s][r]
      <4>1. r \in Rows /\ r \in followed[s] /\ Touching(batch[s], r) = Touching(gone, r)
          BY <1>7, <1>same, <2>2, <3>4
      <4>2. After(stored \ gone, r, After(batch[s], r, old)) = After(stored, r, old)
          BY <3>1, <3>5, <4>1, HandedOver DEF WellNumbered, gone
      <4>3. After({}, r, old) = old
          BY DEF After, Touching
      <4>4. Expected(s)[r] = db[r]
          BY <1>2, <3>6, <4>1 DEF CInv, Followed, Converges, Settled
      <4>5. Expected(s)[r] = After(stored, r, old)
          BY <1>8, <2>2, <3>3, <4>1, <4>3
      <4>6. Expected(s)'[r] = After(stored \ gone, r, After(batch[s], r, old))
          BY <1>2, <1>5, <1>8, <2>2, <3>2, <3>3, <4>1
      <4>7. db'[r] = db[r]
          BY <1>2
      <4> HIDE DEF old
      <4> QED BY <4>2, <4>4, <4>5, <4>6, <4>7
    <3>7. Converges(s)'
        BY <3>6 DEF Converges
    <3> QED BY <1>4, <1>8, <2>2, <3>7 DEF Followed, SentIdsUsed, SentWhole
  <2> QED BY <2>1, <2>2
<1>11. ASSUME s # bgSlave PROVE Dumps'
  <2>1. bgSlave \in Slaves => SentStays(bgSlave)
    <3>1. \A t \in Slaves \ {s} : req'[t] = req[t] /\ reply'[t] = reply[t]
        BY <1>1, <1>2, RespondOne DEF importer, Reply
    <3> QED BY <1>2, <1>5, <1>11, <3>1 DEF Sent, Current, SentStays
  <2> QED BY <1>2, <1>7, <1>11, <2>1, DumpRowsStay
<1>12. ASSUME s = bgSlave PROVE Dumps'
  <2>1. CASE ~q.live
      BY <1>2, <1>7, <1>9, <1>none, <1>12, <2>1, DumpRowsStay
  <2>2. CASE q.live
    <3>1. ASSUME bgPc = "number", NEW r \in bgKept' PROVE NumberedRight(r) => NumberedRight(r)'
      <4> SUFFICES ASSUME NumberedRight(r) PROVE NumberedRight(r)'
          OBVIOUS
      <4>1. PICK n \in Touching(Known(s), r) :
              /\ \A j \in Touching(Known(s), r) : j.id <= n.id
              /\ Settled(r) => n.val = db[r]
              /\ Current(s) => n \notin Sent(s)
          BY <1>12 DEF NumberedRight
      <4>2. r \in Rows \ Mishandled(s, q, cleared) /\ r \in n.rows
          BY <1>7, <1>12, <3>1, <4>1 DEF Touching
      <4>3. n \notin cleared
        <5> SUFFICES ASSUME n \in cleared PROVE FALSE
            OBVIOUS
        <5>1. Current(s)
            BY <1>3 DEF Current
        <5>2. n \in batch[s]
            BY <1>same, <2>2, <4>2 DEF Touching
        <5> QED BY <1>8, <2>2, <4>1, <5>1, <5>2
      <4>4. Known(s)' = (queue[s] \ cleared) \cup Coming(s)
          BY <1>2, QueueStep
      <4>5. Touching(Known(s)', r) \subseteq Touching(Known(s), r) /\ n \in Touching(Known(s)', r)
          BY <4>1, <4>3, <4>4 DEF Known, Touching
      <4>6. Settled(r)' => n.val = db'[r]
          BY <1>2, <4>1 DEF Settled
      <4>7. Known(bgSlave)' = Known(s)' /\ Sent(bgSlave)' = Sent(s)'
        <5>1. \A t : t = bgSlave => Known(t)' = Known(bgSlave)' /\ Sent(t)' = Sent(bgSlave)'
            BY <1>2 DEF Known, Coming, Dispatching, BgItems, Sent
        <5> QED BY <1>12, <5>1
      <4>8. n \notin Sent(s)'
          BY <1>8, <2>2
      <4> QED BY <1>2, <4>1, <4>5, <4>6, <4>7, <4>8, NumberedAgain
    <3>2. bgKept' \subseteq bgKept /\ followed'[bgSlave] \subseteq followed[bgSlave] /\ db' = db
        BY <1>2, <1>7, <1>12
    <3> QED BY <1>2, <3>1, <3>2, DumpStays
  <2> QED BY <2>1, <2>2
<1> QED BY <1>10, <1>11, <1>12

\* A handler that fails.
LEMMA HandlerFailsFollowed ==
    ASSUME CInv, NEW s \in Slaves, HandlerFails(s)
    PROVE  Followed(s)' /\ Dumps'
<1>1. PICK q \in req[s] :
        /\ Respond(s, q, Reply("failure"))
        /\ q.kind = "poll" \/ lastSent' = [lastSent EXCEPT ![s] = Range0]
    BY DEF HandlerFails
<1>2. /\ UNCHANGED <<db, nextId, wpc, wop, importer, sdb>>
      /\ UNCHANGED <<bgPc, bgSlave, bgItems, bgLeft>>
    BY DEF HandlerFails, writers, updater, scratch, importer
<1>3. /\ queue \in [Slaves -> SUBSET Item] /\ followed \in [Slaves -> SUBSET Rows]
      /\ lastSent \in [Slaves -> [first : Nat, last : Nat]] /\ bgKept \subseteq Rows
    BY DEF CInv, IInv, TypeOK
<1>4. /\ \A t \in Slaves : followed'[t] \subseteq followed[t]
      /\ bgKept' \subseteq bgKept
      /\ \A r \in followed'[s] : Touching(queue'[s], r) = Touching(queue[s], r)
      /\ s = bgSlave => \A r \in bgKept' : Touching(queue'[s], r) = Touching(queue[s], r)
      /\ \A t \in Slaves \ {s} : queue'[t] = queue[t]
  <2>1. CASE UNCHANGED <<queue, followed, bgKept>>
      BY <2>1
  <2>2. CASE FailedAck(s)
    <3>1. PICK cleared : /\ queue' = [queue EXCEPT ![s] = @ \ cleared]
                         /\ Lose(s, TouchedBy(cleared))
        BY <2>2 DEF FailedAck
    <3>2. ASSUME NEW r \in Rows \ TouchedBy(cleared)
          PROVE  Touching(queue'[s], r) = Touching(queue[s], r)
      <4>1. Touching(cleared, r) = {} /\ queue'[s] = queue[s] \ cleared
          BY <1>3, <3>1 DEF TouchedBy
      <4> QED BY <4>1 DEF Touching
    <3> QED BY <1>3, <3>1, <3>2 DEF Lose
  <2> QED BY <2>1, <2>2, HandlerFailsCases
<1>5. lastSent'[s].first = 0 \/ q.kind = "poll" \/ lastSent'[s] = lastSent[s]
    BY <1>1, <1>3 DEF Range0
<1>6. OneLiveRequest(s)' /\ SentStays(s) /\ Owed(s)' = Owed(s)
    BY <1>1, <1>2, <1>5, AnswerStays
<1>7. Followed(s)'
    BY <1>2, <1>4, <1>6, RowsStay
<1>8. \A t \in Slaves \ {s} : SentStays(t)
  <2>1. \A t \in Slaves \ {s} : lastSent'[t] = lastSent[t]
      BY <1>3 DEF HandlerFails
  <2>2. \A t \in Slaves \ {s} : req'[t] = req[t] /\ reply'[t] = reply[t]
      BY <1>1, <1>2, RespondOne DEF importer, Reply
  <2> QED BY <1>2, <2>1, <2>2, OthersStay DEF importer
<1>9. bgSlave \in Slaves => SentStays(bgSlave)
    BY <1>2, <1>6, <1>8
<1> QED BY <1>2, <1>4, <1>7, <1>9, DumpRowsStay

\* The step of a handler, for the slave whose request it runs and for the dump.
LEMMA HandlerFollowed ==
    ASSUME CInv, NEW s \in Slaves, Handler(s) \/ HandlerFails(s)
    PROVE  Followed(s)' /\ Dumps'
<1>1. ASSUME UNCHANGED <<master, writers, scratch, bgPc, bgSlave, importer, history>>,
             OneLiveRequest(s)', SentStays(s), Owed(s)' = Owed(s),
             \A t \in Slaves \ {s} : req'[t] = req[t] /\ reply'[t] = reply[t]
      PROVE  Followed(s)' /\ Dumps'
  <2>1. UNCHANGED <<db, nextId, queue, lastSent, wpc, wop, bgPc, bgSlave, bgItems, bgLeft, spc,
                    batch, sdb, followed, bgKept>>
      BY <1>1 DEF master, writers, scratch, importer, history
  <2>2. Followed(s)'
      BY <1>1, <2>1, RowsStay
  <2>3. \A t \in Slaves : SentStays(t)
      BY <1>1, <2>1, OthersStay
  <2>4. bgSlave \in Slaves => SentStays(bgSlave)
      BY <2>3
  <2>5. Dumps'
      BY <2>1, <2>4, DumpRowsStay
  <2> QED BY <2>2, <2>5
<1>answer. ASSUME UNCHANGED <<master, writers, scratch, bgPc, bgSlave, importer, history>>,
                  NEW q \in req[s], NEW kind \in {"processing", "busy", "ERROR"},
                  Respond(s, q, Reply(kind))
           PROVE  Followed(s)' /\ Dumps'
  <2>1. lastSent' = lastSent /\ spc' = spc
      BY <1>answer DEF master, importer
  <2>2. OneLiveRequest(s)' /\ SentStays(s) /\ Owed(s)' = Owed(s)
      BY <1>answer, <2>1, AnswerStays
  <2>3. \A t \in Slaves \ {s} : req'[t] = req[t] /\ reply'[t] = reply[t]
      BY <1>answer, <2>1, RespondOne DEF Reply
  <2> QED BY <1>1, <1>answer, <2>2, <2>3
<1>2. CASE PollCheck(s)
  <2>1. PICK q \in req[s] : /\ q.kind = "poll"
                            /\ \/ Advance(s, q, "serving") \/ Advance(s, q, "handoff")
                               \/ Respond(s, q, Reply("busy"))
      BY <1>2 DEF PollCheck
  <2>2. UNCHANGED <<master, writers, scratch, bgPc, bgSlave, importer, history>>
      BY <1>2 DEF PollCheck, updater
  <2>3. CASE Respond(s, q, Reply("busy"))
      BY <1>answer, <2>2, <2>3
  <2>4. ASSUME NEW step, Advance(s, q, step) PROVE Followed(s)' /\ Dumps'
    <3>1. UNCHANGED <<lastSent, reply, spc, batch>>
        BY <2>2, <2>4 DEF master, importer, Advance
    <3>2. OneLiveRequest(s)' /\ \A t \in Slaves \ {s} : req'[t] = req[t]
        BY <2>1, <2>4, <3>1, AdvanceOne
    <3>3. Current(s)
        BY <2>1 DEF Current
    <3>4. Owed(s)' = Owed(s) /\ SentStays(s)
        BY <3>1, <3>3 DEF Owed, Sent, SentStays
    <3> QED BY <1>1, <2>2, <3>1, <3>2, <3>4
  <2> QED BY <2>1, <2>3, <2>4
<1>3. CASE PollHandoff(s)
  <2>1. PICK q \in req[s] : Respond(s, q, Reply("processing"))
      BY <1>3 DEF PollHandoff
  <2>2. UNCHANGED <<master, writers, scratch, bgPc, bgSlave, importer, history>>
      BY <1>3 DEF PollHandoff
  <2> QED BY <1>answer, <2>1, <2>2
<1>4. CASE AckRefuse(s)
  <2>1. PICK q \in req[s] : Respond(s, q, Reply("ERROR"))
      BY <1>4 DEF AckRefuse
  <2>2. UNCHANGED <<master, writers, scratch, bgPc, bgSlave, importer, history>>
      BY <1>4 DEF AckRefuse, updater
  <2> QED BY <1>answer, <2>1, <2>2
<1> QED BY <1>2, <1>3, <1>4, ServeFollowed, ConfirmFollowed, HandlerFailsFollowed DEF Handler

\* The step of a handler, for another slave.
LEMMA HandlerElsewhere ==
    ASSUME CInv, NEW s \in Slaves, Handler(s) \/ HandlerFails(s), NEW t \in Slaves \ {s}
    PROVE  Followed(t)'
<1>1. UNCHANGED <<db, nextId, wpc, wop, bgPc, bgSlave, bgItems, spc, batch, sdb>>
    BY DEF Handler, PollCheck, PollHandoff, PollServe, AckConfirm, AckRefuse, HandlerFails,
           master, writers, updater, scratch, importer
<1>2. queue'[t] = queue[t] /\ lastSent'[t] = lastSent[t]
    BY DEF Handler, PollCheck, PollHandoff, PollServe, AckConfirm, AckRefuse, HandlerFails,
           master, CInv, IInv, TypeOK
<1>3. req'[t] = req[t] /\ reply'[t] = reply[t]
    BY DEF Handler, PollCheck, PollHandoff, PollServe, AckConfirm, AckRefuse, HandlerFails,
           Advance, Respond, CInv, IInv, TypeOK
<1>4. followed'[t] \subseteq followed[t]
    BY DEF Handler, PollCheck, PollHandoff, PollServe, AckConfirm, AckRefuse, HandlerFails,
           Lose, history, CInv, IInv, TypeOK
<1>5. OneLiveRequest(t)' /\ SentStays(t) /\ Owed(t)' = Owed(t)
    BY <1>1, <1>2, <1>3, OthersStay
<1> QED BY <1>1, <1>2, <1>4, <1>5, RowsStay

-----------------------------------------------------------------------------
(* Steps of the background updater. *)

\* What it does not touch.
LEMMA UpdaterLeaves ==
    ASSUME CInv, Updater
    PROVE  /\ UNCHANGED <<db, lastSent, wpc, wop, network, importer, sdb>>
           /\ nextId' \in Nat /\ nextId <= nextId'
           /\ ~BgNumber => nextId' = nextId
           /\ ~(BgErase \/ BgDispatch) => queue' = queue
           /\ ~(BgDelete \/ BgSave) => followed' = followed
<1>1. nextId \in Nat
    BY DEF CInv, IInv, TypeOK
<1> QED BY <1>1 DEF Updater, BgTake, BgReset, BgTest, BgCollect, BgDelete, BgErase, BgLock, BgRead,
        ReadTable, BgNumber, BgSave, BgDispatch, BgUnlock, BgMark, master, writers, importer,
        history

\* A step that numbers at most one item, and changes nothing of what is stored for the rows
\* that stay followed.
LEMMA UpdaterStays ==
    ASSUME CInv, Updater, NEW s \in Slaves, followed'[s] \subseteq followed[s],
           Ids(BgItems(s, {"number", "dispatch"})')
                \subseteq Ids(BgItems(s, {"number", "dispatch"})) \cup {nextId},
           \A r \in followed'[s] : Touching(Stored(s)', r) = Touching(Stored(s), r)
    PROVE  Followed(s)'
<1>1. /\ UNCHANGED <<db, lastSent, wpc, wop, network, importer, sdb>>
      /\ nextId' \in Nat /\ nextId <= nextId'
    BY UpdaterLeaves
<1>2. OneLiveRequest(s)' /\ SentStays(s) /\ Owed(s)' = Owed(s)
    BY <1>1, ImporterUntouched
<1>3. Reserved(s)' \subseteq Reserved(s) \cup {nextId}
    BY <1>1 DEF Reserved, Ids
<1>4. SentIdsUsed(s)'
    BY <1>1, <1>2, <1>3, SentUsedStays
<1>5. \A r : Settled(r)' => Settled(r)
    BY <1>1 DEF Settled
<1> QED BY <1>1, <1>2, <1>4, <1>5, SameRows

\* The steps that leave alone what is queued, followed and held.
LEMMA UpdaterWaits ==
    ASSUME CInv, Updater, bgItems = {}, UNCHANGED <<queue, followed>>,
           bgItems' = {} \/ bgPc' = "delete"
    PROVE  \A s \in Slaves : Followed(s)'
<1> SUFFICES ASSUME NEW s \in Slaves PROVE Followed(s)'
    OBVIOUS
<1>1. \A steps : "delete" \notin steps => BgItems(s, steps) = {} /\ BgItems(s, steps)' = {}
    BY DEF BgItems
<1>2. /\ BgItems(s, {"number", "dispatch"}) = {} /\ BgItems(s, {"number", "dispatch"})' = {}
      /\ BgItems(s, {"dispatch"}) = {} /\ BgItems(s, {"dispatch"})' = {}
      /\ BgItems(s, {"erase"}) = {} /\ BgItems(s, {"erase"})' = {}
    BY <1>1
<1>3. Dispatching(s)' = Dispatching(s)
    BY UpdaterLeaves, DispatchingStays
<1>4. Stored(s) = queue[s] \cup Dispatching(s) /\ Stored(s)' = queue[s] \cup Dispatching(s)
    BY <1>2, <1>3 DEF Stored
<1>5. Ids(BgItems(s, {"number", "dispatch"})')
                \subseteq Ids(BgItems(s, {"number", "dispatch"})) \cup {nextId}
    BY <1>2
<1> QED BY <1>4, <1>5, UpdaterStays

\* The items of the queue are deleted from the table.
LEMMA DeleteFollowed ==
    ASSUME CInv, BgDelete
    PROVE  (\A s \in Slaves : Followed(s)') /\ Dumps'
<1>1. /\ bgPc = "delete" /\ bgPc' = IF bgItems = {} THEN "lock" ELSE "erase"
      /\ Lose(bgSlave, TouchedBy(bgItems)) /\ Updater
      /\ UNCHANGED <<queue, bgSlave, bgItems, bgLeft>>
    BY DEF BgDelete, Updater, master, scratch
<1>2. bgSlave \in Slaves /\ followed \in [Slaves -> SUBSET Rows]
    BY <1>1 DEF CInv, IInv, TypeOK, Processing
<1>3. /\ followed'[bgSlave] = followed[bgSlave] \ TouchedBy(bgItems)
      /\ \A s \in Slaves \ {bgSlave} : followed'[s] = followed[s]
    BY <1>1, <1>2 DEF Lose
<1>4. ASSUME NEW s \in Slaves PROVE Followed(s)'
  <2>1. Dispatching(s)' = Dispatching(s)
      BY <1>1, UpdaterLeaves, DispatchingStays
  <2>2. /\ BgItems(s, {"number", "dispatch"})' = {}
        /\ BgItems(s, {"dispatch"}) = {} /\ BgItems(s, {"dispatch"})' = {}
        /\ BgItems(s, {"erase"}) = {}
        /\ BgItems(s, {"erase"})' = IF s = bgSlave THEN bgItems ELSE {}
      BY <1>1 DEF BgItems
  <2>3. /\ Stored(s) = queue[s] \cup Dispatching(s)
        /\ Stored(s)' = (queue[s] \cup Dispatching(s)) \ (IF s = bgSlave THEN bgItems ELSE {})
      BY <1>1, <2>1, <2>2 DEF Stored
  <2>4. followed'[s] \subseteq followed[s]
      BY <1>3
  <2>5. ASSUME NEW r \in followed'[s] PROVE Touching(Stored(s)', r) = Touching(Stored(s), r)
    <3>1. CASE s = bgSlave
      <4>1. Touching(bgItems, r) = {}
          BY <1>2, <1>3, <2>5, <3>1 DEF TouchedBy
      <4> QED BY <2>3, <3>1, <4>1 DEF Touching
    <3>2. CASE s # bgSlave
        BY <2>3, <3>2
    <3> QED BY <3>1, <3>2
  <2>6. Ids(BgItems(s, {"number", "dispatch"})')
                \subseteq Ids(BgItems(s, {"number", "dispatch"})) \cup {nextId}
      BY <2>2 DEF Ids
  <2> QED BY <1>1, <2>4, <2>5, <2>6, UpdaterStays
<1>5. Dumps'
  <2>1. ASSUME NEW r \in followed'[bgSlave] PROVE Touching(bgItems, r) = {}
      BY <1>2, <1>3, <2>1 DEF TouchedBy
  <2>2. ErasedForgotten'
      BY <1>1, <2>1 DEF ErasedForgotten
  <2> QED BY <1>1, <2>2 DEF Dumps, DumpKept
<1> QED BY <1>4, <1>5

\* They are unlinked, or the items of a dump are linked: nothing changes in the table.
LEMMA LinksFollowed ==
    ASSUME CInv, BgErase \/ BgDispatch
    PROVE  (\A s \in Slaves : Followed(s)') /\ Dumps'
<1>1. PICK i \in bgItems :
        /\ \/ bgPc = "erase" /\ bgPc' \in {"lock", "erase"}
                /\ queue' = [queue EXCEPT ![bgSlave] = @ \ {i}]
                /\ (bgPc' = "lock" => bgItems' = {})
           \/ bgPc = "dispatch" /\ bgPc' \in {"dump", "dispatch"}
                /\ queue' = [queue EXCEPT ![bgSlave] = @ \cup {i}]
                /\ (bgPc' = "dump" => bgItems' = {})
        /\ bgItems' = bgItems \ {i}
    BY DEF BgErase, BgDispatch
<1>2. Updater /\ UNCHANGED <<bgSlave, followed>>
    BY DEF BgErase, BgDispatch, Updater, history
<1>3. bgSlave \in Slaves /\ queue \in [Slaves -> SUBSET Item]
    BY <1>1 DEF CInv, IInv, TypeOK, Processing
<1>4. ASSUME NEW s \in Slaves PROVE Followed(s)'
  <2>1. Dispatching(s)' = Dispatching(s)
      BY <1>2, UpdaterLeaves, DispatchingStays
  <2>3. BgItems(s, {"number", "dispatch"})' \subseteq BgItems(s, {"number", "dispatch"})
      BY <1>1, <1>2 DEF BgItems
  <2>4. Stored(s)' = Stored(s)
    <3>1. Stored(s)' = (queue'[s] \cup Dispatching(s) \cup BgItems(s, {"dispatch"})')
                            \ BgItems(s, {"erase"})'
        BY <2>1 DEF Stored
    <3>2. CASE s # bgSlave
        BY <1>2, <1>3, <1>1, <3>1, <3>2 DEF Stored, BgItems
    <3>3. CASE s = bgSlave /\ bgPc = "erase"
      <4>1. i \notin Dispatching(s)
        <5>1. \A w \in Writers : s \in wop[w].to => OwnId(w, s)
            BY FreshParts DEF CInv, IInv
        <5>2. i \in Held(s)
            BY <3>3 DEF Held, BgItems, Processing
        <5> QED BY <5>1, <5>2 DEF Dispatching, OwnId, SyncItem
      <4>2. /\ BgItems(s, {"dispatch"})' = {} /\ BgItems(s, {"erase"})' = bgItems \ {i}
            /\ BgItems(s, {"dispatch"}) = {} /\ BgItems(s, {"erase"}) = bgItems
            /\ queue'[s] = queue[s] \ {i}
          BY <1>1, <1>2, <1>3, <3>3 DEF BgItems
      <4> QED BY <1>1, <3>1, <4>1, <4>2 DEF Stored
    <3>4. CASE s = bgSlave /\ bgPc = "dispatch"
      <4>1. /\ BgItems(s, {"dispatch"})' = bgItems \ {i} /\ BgItems(s, {"erase"})' = {}
            /\ BgItems(s, {"dispatch"}) = bgItems /\ BgItems(s, {"erase"}) = {}
            /\ queue'[s] = queue[s] \cup {i}
          BY <1>1, <1>2, <1>3, <3>4 DEF BgItems
      <4> QED BY <1>1, <3>1, <4>1 DEF Stored
    <3> QED BY <1>1, <3>2, <3>3, <3>4
  <2> QED BY <1>2, <2>3, <2>4, UpdaterStays DEF Ids
<1>5. Dumps'
    BY <1>1, <1>2 DEF Dumps, DumpKept, ErasedForgotten, CInv, Touching
<1> QED BY <1>4, <1>5

\* The statements read for a table rebuild its rows as they are.
LEMMA ReadRight ==
    ASSUME CInv, BgRead
    PROVE  (\A s \in Slaves : Followed(s)') /\ Dumps'
<1>1. PICK t \in bgTodo :
        /\ bgLeft' = DumpStatements(RowsOf(t), db, ~Multimaster)
        /\ bgKept' = {r \in RowsOf(t) : ~Multimaster \/ db[r] # NoVal}
    BY DEF BgRead, ReadTable
<1>2. /\ bgPc = "dump" /\ bgPc' = "number" /\ bgItems = {} /\ bgItems' = {}
      /\ Updater /\ UNCHANGED <<db, queue, followed>>
    BY DEF BgRead, ReadTable, Updater, CInv, IInv, ScratchEmpty, master
<1>3. \A s \in Slaves : Followed(s)'
    BY <1>2, UpdaterWaits
<1>4. ASSUME NEW r \in bgKept' PROVE StatementsRight(r)' /\ ToNumber(r)'
  <2>1. r \in RowsOf(t) /\ (db[r] = NoVal => ~Multimaster)
      BY <1>1
  <2>2. db[r] # NoVal => \E o \in bgLeft' : o.rows = {r} /\ o.val = db[r]
    <3>1. db[r] # NoVal => [rows |-> {r}, val |-> db[r]] \in bgLeft'
        BY <1>1, <2>1, ZenonT(30) DEF DumpStatements
    <3> QED BY <3>1
  <2>3. db[r] = NoVal => \E o \in bgLeft' : r \in o.rows
    <3>1. db[r] = NoVal => [rows |-> RowsOf(t), val |-> NoVal] \in bgLeft'
        BY <1>1, <2>1, ZenonT(30) DEF DumpStatements
    <3> QED BY <2>1, <3>1
  <2>4. \A o \in bgLeft' : r \in o.rows /\ o.val # NoVal => o.val = db[r]
      BY <1>1 DEF DumpStatements
  <2>5. StatementsRight(r)'
      BY <1>2, <2>2, <2>4 DEF StatementsRight
  <2>6. ToNumber(r)'
      BY <2>2, <2>3 DEF ToNumber
  <2> QED BY <2>5, <2>6
<1>5. Dumps'
    BY <1>2, <1>4 DEF Dumps, DumpKept, ErasedForgotten
<1> QED BY <1>3, <1>5

\* A statement takes an id: the newest.
LEMMA NumberRight ==
    ASSUME CInv, BgNumber
    PROVE  (\A s \in Slaves : Followed(s)') /\ Dumps'
<1>1. PICK st \in bgLeft :
        /\ IsFirst(st, bgLeft)
        /\ bgLeft' = bgLeft \ {st}
        /\ bgItems' = bgItems \cup {[id |-> nextId, rows |-> st.rows, val |-> st.val]}
    BY DEF BgNumber
<1>i. PICK i : i = [id |-> nextId, rows |-> st.rows, val |-> st.val]
    OBVIOUS
<1>2. /\ bgPc = "number" /\ bgPc' = "number" /\ nextId' = nextId + 1 /\ Updater
      /\ UNCHANGED <<db, queue, followed, bgKept, bgSlave, wpc, wop, lastSent, network, importer>>
      /\ bgItems' = bgItems \cup {i} /\ i.id = nextId /\ i.rows = st.rows /\ i.val = st.val
    BY <1>1, <1>i DEF BgNumber, Updater, writers, history
<1>3. bgSlave \in Slaves /\ IInv /\ nextId \in Nat
    BY <1>2 DEF CInv, IInv, TypeOK, Processing
<1>4. ASSUME NEW s \in Slaves PROVE Followed(s)'
  <2>1. Dispatching(s)' = Dispatching(s)
      BY <1>2, DispatchingStays
  <2>2. /\ BgItems(s, {"dispatch"}) = {} /\ BgItems(s, {"dispatch"})' = {}
        /\ BgItems(s, {"erase"}) = {} /\ BgItems(s, {"erase"})' = {}
        /\ BgItems(s, {"number", "dispatch"})' \subseteq BgItems(s, {"number", "dispatch"}) \cup {i}
      BY <1>2 DEF BgItems
  <2>3. Stored(s)' = Stored(s)
      BY <1>2, <2>1, <2>2 DEF Stored
  <2>4. Ids(BgItems(s, {"number", "dispatch"})')
                \subseteq Ids(BgItems(s, {"number", "dispatch"})) \cup {nextId}
      BY <1>2, <2>2 DEF Ids
  <2> QED BY <1>2, <2>3, <2>4, UpdaterStays
<1> DEFINE known == Known(bgSlave)
           knownNow == Known(bgSlave)'
<1>5. /\ knownNow = known \cup {i}
      /\ \A j \in known : j.id < nextId /\ j.id \in Nat
  <2>1. Linked(bgSlave)' = Linked(bgSlave)
      BY <1>2 DEF Linked, Dispatching
  <2>2. /\ Known(bgSlave) = Linked(bgSlave) \cup bgItems
        /\ Known(bgSlave)' = Linked(bgSlave)' \cup bgItems'
      BY <1>2 DEF Known, Linked, Coming, BgItems
  <2> QED BY <1>2, <1>3, <2>1, <2>2, KnownItems
<1>6. Sent(bgSlave)' = Sent(bgSlave) /\ Current(bgSlave)' = Current(bgSlave)
    BY <1>2 DEF Sent, Current, network, importer
<1>7. \A n \in Sent(bgSlave) : Current(bgSlave) => n.id < nextId
    BY <1>3 DEF CInv, Followed, SentIdsUsed
<1>8. ASSUME NEW r \in bgKept PROVE StatementsRight(r)' /\ (ToNumber(r)' \/ NumberedRight(r)')
  <2>1. StatementsRight(r) /\ (ToNumber(r) \/ NumberedRight(r))
      BY <1>2 DEF CInv, Dumps, DumpKept
\* The "DELETE" takes its id first, so the row keeps the statement that fills it.
  <2>2. ASSUME NEW d \in bgLeft, d.val = NoVal, r \in d.rows, db[r] # NoVal
        PROVE  \E o \in bgLeft' : r \in o.rows /\ o.val # NoVal
    <3>1. PICK o \in bgLeft : r \in o.rows /\ o.val # NoVal
        BY <2>1, <2>2 DEF StatementsRight
    <3>2. st.val = NoVal
        BY <1>1, <2>2 DEF IsFirst
    <3> QED BY <1>1, <3>1, <3>2
  <2>3. StatementsRight(r)'
      BY <1>1, <1>2, <2>1, <2>2 DEF StatementsRight
  <2>4. CASE r \notin st.rows
    <3>1. ToNumber(r) => ToNumber(r)'
        BY <1>1, <2>4 DEF ToNumber
    <3>2. NumberedRight(r) => NumberedRight(r)'
      <4>1. Touching(knownNow, r) = Touching(known, r)
          BY <1>2, <1>5, <2>4 DEF Touching
      <4>2. Touching(bgItems', r) = Touching(bgItems, r)
          BY <1>2, <2>4 DEF Touching
      <4>3. Settled(r)' => Settled(r)
          BY <1>2 DEF Settled
      <4> QED BY <1>2, <1>6, <4>1, <4>2, <4>3 DEF NumberedRight
    <3> QED BY <2>1, <2>3, <3>1, <3>2
  <2>5. CASE r \in st.rows /\ ~ToNumber(r)'
    <3>1. st.val = db[r]
      <4>1. CASE st.val # NoVal
          BY <2>1, <2>5, <4>1 DEF StatementsRight
      <4>2. CASE st.val = NoVal /\ db[r] # NoVal
          BY <2>2, <2>5, <4>2 DEF ToNumber
      <4> QED BY <4>1, <4>2
    <3>2. i \in Touching(bgItems', r) /\ i \in Touching(knownNow, r)
        BY <1>2, <1>5, <2>5 DEF Touching
    <3>3. \A j \in Touching(knownNow, r) : j.id <= i.id
      <4> HIDE DEF known, knownNow
      <4> QED BY <1>2, <1>3, <1>5 DEF Touching
    <3>4. Current(bgSlave)' => i \notin Sent(bgSlave)'
        BY <1>2, <1>3, <1>6, <1>7
    <3>5. NumberedRight(r)'
        BY <1>2, <3>1, <3>2, <3>3, <3>4 DEF NumberedRight
    <3> QED BY <2>3, <3>5
  <2> QED BY <2>3, <2>4, <2>5
<1>9. Dumps'
    BY <1>2, <1>8 DEF Dumps, DumpKept, ErasedForgotten
<1> QED BY <1>4, <1>9

\* The items of a dump are saved: the rows it has kept are followed.
LEMMA SaveFollowed ==
    ASSUME CInv, IInv', BgSave
    PROVE  (\A s \in Slaves : Followed(s)') /\ Dumps'
<1>1. /\ bgPc = "number" /\ bgLeft = {} /\ bgPc' = IF bgItems = {} THEN "dump" ELSE "dispatch"
      /\ followed' = [followed EXCEPT ![bgSlave] = (@ \ TouchedBy(bgItems)) \cup bgKept]
      /\ Updater /\ UNCHANGED <<db, queue, bgSlave, bgItems, wpc, wop, lastSent, network, importer>>
    BY DEF BgSave, Updater, master, scratch, writers
<1>2. /\ bgSlave \in Slaves /\ IInv /\ followed \in [Slaves -> SUBSET Rows] /\ bgKept \subseteq Rows
      /\ nextId \in Nat
    BY <1>1 DEF CInv, IInv, TypeOK, Processing
<1>3. ASSUME NEW s \in Slaves
      PROVE  /\ Stored(s)' = Stored(s) \cup BgItems(s, {"number"})
             /\ Stored(s)' = Known(s)
             /\ BgItems(s, {"number", "dispatch"})' = BgItems(s, {"number", "dispatch"})
  <2>1. Dispatching(s)' = Dispatching(s)
      BY <1>1, DispatchingStays
  <2>2. /\ BgItems(s, {"dispatch"}) = {} /\ BgItems(s, {"dispatch"})' = BgItems(s, {"number"})
        /\ BgItems(s, {"erase"}) = {} /\ BgItems(s, {"erase"})' = {}
        /\ BgItems(s, {"number", "dispatch"})' = BgItems(s, {"number", "dispatch"})
        /\ BgItems(s, {"number", "dispatch"}) = BgItems(s, {"number"})
      BY <1>1 DEF BgItems
  <2> QED BY <1>1, <2>1, <2>2 DEF Stored, Known, Coming
<1>4. ASSUME NEW s \in Slaves \ {bgSlave} PROVE Followed(s)'
  <2>1. Stored(s)' = Stored(s)
      BY <1>3, <1>4 DEF BgItems
  <2>2. followed'[s] = followed[s]
      BY <1>1, <1>2, <1>4
  <2> QED BY <1>1, <1>3, <2>1, <2>2, UpdaterStays DEF Ids
<1>5. ASSUME NEW s \in Slaves, s = bgSlave PROVE Followed(s)'
  <2> DEFINE stored == Stored(s)
             storedNow == Stored(s)'
  <2>1. /\ OneLiveRequest(s)' /\ SentStays(s) /\ Owed(s)' = Owed(s) /\ sdb' = sdb
        /\ Sent(s)' = Sent(s) /\ Current(s)' = Current(s)
      BY <1>1, ImporterUntouched
  <2>2. SentIdsUsed(s)'
    <3>1. Reserved(s)' \subseteq Reserved(s) \cup {nextId}
        BY <1>1, <1>3 DEF Reserved, Ids
    <3>2. nextId' \in Nat /\ nextId <= nextId'
        BY <1>1, UpdaterLeaves
    <3> QED BY <2>1, <3>1, <3>2, SentUsedStays
  <2>3. /\ followed'[s] = (followed[s] \ TouchedBy(bgItems)) \cup bgKept
        /\ storedNow = stored \cup bgItems /\ storedNow = Known(s)
        /\ WellNumbered(storedNow)
      BY <1>1, <1>2, <1>3, <1>5, KnownItemsNext DEF BgItems
  <2>4. ASSUME NEW r \in bgKept
        PROVE  \E n \in Touching(storedNow, r) :
                    /\ \A j \in Touching(storedNow, r) : j.id <= n.id
                    /\ Settled(r) => n.val = db[r]
                    /\ Current(s) => n \notin Sent(s)
    <3>1. NumberedRight(r)
        BY <1>1 DEF CInv, Dumps, DumpKept, ToNumber
    <3> QED BY <1>5, <2>3, <3>1 DEF NumberedRight
  <2>5. ASSUME NEW r \in followed'[s], r \notin bgKept
        PROVE  r \in followed[s] /\ Touching(storedNow, r) = Touching(stored, r)
    <3>1. r \in followed[s] /\ Touching(bgItems, r) = {}
        BY <1>2, <2>3, <2>5 DEF TouchedBy
    <3> QED BY <2>3, <3>1 DEF Touching
  <2>6. \A r \in Rows : /\ Expected(s)[r] = After(stored, r, After(Owed(s), r, sdb[s][r]))
                        /\ Expected(s)'[r] = After(storedNow, r, After(Owed(s)', r, sdb'[s][r]))
      BY ExpectedRow, ExpectedRowNext
  <2>7. Current(s) => \A r \in followed[s] : \A n \in Touching(stored, r) :
            n \in Sent(s) /\ (\A j \in Touching(stored, r) : j.id <= n.id) =>
                Touching(stored, r) \subseteq Sent(s)
      BY DEF CInv, Followed, SentWhole
  <2>8. SentWhole(s)' <=>
            (Current(s)' => \A r \in followed'[s] : \A n \in Touching(storedNow, r) :
                n \in Sent(s)' /\ (\A j \in Touching(storedNow, r) : j.id <= n.id) =>
                    Touching(storedNow, r) \subseteq Sent(s)')
      BY DEF SentWhole
  <2> HIDE DEF stored, storedNow
  <2>9. SentWhole(s)'
    <3> SUFFICES ASSUME Current(s), NEW r \in followed'[s], NEW n \in Touching(storedNow, r),
                        n \in Sent(s), \A j \in Touching(storedNow, r) : j.id <= n.id
                 PROVE  Touching(storedNow, r) \subseteq Sent(s)
        BY <2>1, <2>8
    <3>1. CASE r \in bgKept
      <4>1. PICK m \in Touching(storedNow, r) :
                /\ \A j \in Touching(storedNow, r) : j.id <= m.id
                /\ m \notin Sent(s)
          BY <2>4, <3>1
      <4>2. m.id <= n.id /\ n.id <= m.id /\ m \in Item /\ n \in Item
          BY <2>3, <4>1 DEF Touching, WellNumbered
      <4>3. m.id = n.id
          BY <4>2 DEF Item
      <4>4. m = n
          BY <2>3, <4>3 DEF Touching, WellNumbered, UniqueIds
      <4> QED BY <4>1, <4>4
    <3>2. CASE r \notin bgKept
        BY <2>5, <2>7, <3>2
    <3> QED BY <3>1, <3>2
  <2>10. Converges(s)'
    <3> SUFFICES ASSUME NEW r \in followed'[s], Settled(r)' PROVE Expected(s)'[r] = db'[r]
        BY DEF Converges
    <3> DEFINE owed == After(Owed(s), r, sdb[s][r])
    <3>1. r \in Rows /\ Settled(r) /\ db' = db
        BY <1>1, <1>2, <2>3 DEF Settled
    <3>2. Expected(s)'[r] = After(storedNow, r, owed)
        BY <2>1, <2>6, <3>1
    <3>3. CASE r \in bgKept
      <4>1. PICK n \in Touching(storedNow, r) :
                \A j \in Touching(storedNow, r) : j.id <= n.id /\ n.val = db[r]
          BY <2>4, <3>1, <3>3
      <4>2. After(storedNow, r, owed) = n.val
          BY ONLY <2>3, <4>1, AfterLastItem DEF WellNumbered
      <4> QED BY <3>1, <3>2, <4>1, <4>2
    <3>4. CASE r \notin bgKept
      <4>1. r \in followed[s] /\ Touching(storedNow, r) = Touching(stored, r)
          BY <2>5, <3>4
      <4>2. After(storedNow, r, owed) = After(stored, r, owed)
          BY ONLY <4>1, AfterSame
      <4>3. Expected(s)[r] = After(stored, r, owed) /\ Expected(s)[r] = db[r]
          BY <2>6, <3>1, <4>1 DEF CInv, Followed, Converges
      <4> QED BY <3>1, <3>2, <4>2, <4>3
    <3> QED BY <3>3, <3>4
  <2> QED BY <2>1, <2>2, <2>9, <2>10 DEF Followed
<1>6. Dumps'
    BY <1>1 DEF Dumps, DumpKept, ErasedForgotten
<1> QED BY <1>4, <1>5, <1>6

\* The background updater.
LEMMA UpdaterFollowed ==
    ASSUME CInv, IInv', Updater
    PROVE  (\A s \in Slaves : Followed(s)') /\ Dumps'
<1>1. CASE BgTake \/ BgReset \/ BgTest \/ BgCollect \/ BgLock \/ BgUnlock \/ BgMark
  <2>1. /\ bgItems = {} /\ (bgItems' = {} \/ bgPc' = "delete") /\ UNCHANGED <<queue, followed>>
        /\ bgPc' \notin {"number", "erase"}
      BY <1>1 DEF BgTake, BgReset, BgTest, BgCollect, BgLock, BgUnlock, BgMark, CInv, IInv,
                  ScratchEmpty, master, scratch, history
  <2>2. \A s \in Slaves : Followed(s)'
      BY <2>1, UpdaterWaits
  <2> QED BY <2>1, <2>2 DEF Dumps, DumpKept, ErasedForgotten
<1> QED BY <1>1, DeleteFollowed, LinksFollowed, ReadRight, NumberRight, SaveFollowed DEF Updater

-----------------------------------------------------------------------------
(* Steps of the importers, of the environment, and the theorem. *)

\* A step of an importer other than the last one: what it may apply stays the same, what it
\* was sent too unless it drops it.
LEMMA ImporterGoesOn ==
    ASSUME CInv, NEW s \in Slaves, Importer(s), ~ApplyBatch(s)
    PROVE  OneLiveRequest(s)' /\ Owed(s)' = Owed(s) /\ SentStays(s)
<1> USE DEF SentStays
<1>1. /\ OneLiveRequest(s) /\ req \in [Slaves -> SUBSET RequestType] /\ batch \in [Slaves -> SUBSET Item]
      /\ reply \in [Slaves -> [kind : ReplyKinds, items : SUBSET Item]]
      /\ spc \in [Slaves -> {"idle", "polling", "ready", "acking", "applying"}]
    BY DEF CInv, Followed, IInv, TypeOK
<1>2. reply[s].kind # "none" \/ spc[s] \notin {"polling", "acking"} => \A q \in req[s] : ~q.live
    BY <1>1 DEF OneLiveRequest
<1>3. CASE StartPoll(s)
  <2> DEFINE poll == Poll(TRUE, "arrived")
  <2>1. /\ spc[s] = "idle" /\ spc'[s] = "polling" /\ reply' = reply /\ batch' = batch
        /\ req'[s] = req[s] \cup {poll} /\ reply[s].kind = "none"
      BY <1>1, <1>3 DEF StartPoll, ImporterStep, OneLiveRequest
  <2>2. poll.kind = "poll"
      BY DEF Poll
  <2> HIDE DEF poll
  <2>3. OneLiveRequest(s)'
      BY <1>2, <2>1, <2>2 DEF OneLiveRequest
  <2> QED BY <2>1, <2>3 DEF Owed, Sent
<1>4. CASE ReceiveNothing(s)
  <2>1. /\ spc[s] = "polling" /\ spc'[s] = "idle" /\ reply'[s].kind = "none"
        /\ req' = req /\ reply[s].kind # "none"
      BY <1>1, <1>4 DEF ReceiveNothing, ImporterStep, TakeReply, NoReply
  <2> QED BY <1>2, <2>1 DEF OneLiveRequest, Owed, Sent
<1>5. CASE ReceiveContent(s)
  <2>1. /\ spc[s] = "polling" /\ spc'[s] = "ready" /\ reply'[s].kind = "none"
        /\ req' = req /\ lastSent' = lastSent /\ reply[s].kind = "content"
        /\ batch'[s] = reply[s].items
      BY <1>1, <1>5 DEF ReceiveContent, ImporterStep, TakeReply, NoReply, master
  <2> QED BY <1>2, <2>1 DEF OneLiveRequest, Owed, Sent, Current
<1>6. CASE SendAck(s)
  <2> DEFINE ack == Ack(RangeOf(batch[s]), TRUE)
  <2>1. /\ spc[s] = "ready" /\ spc'[s] = "acking" /\ reply' = reply /\ batch' = batch
        /\ req'[s] = req[s] \cup {ack} /\ lastSent' = lastSent /\ reply[s].kind = "none"
      BY <1>1, <1>6 DEF SendAck, ImporterStep, OneLiveRequest, master
  <2>2. ack.kind = "ack"
      BY DEF Ack
  <2> HIDE DEF ack
  <2>3. OneLiveRequest(s)'
      BY <1>2, <2>1, <2>2 DEF OneLiveRequest
  <2>4. Current(s)' => Current(s)
      BY <2>1, <2>2 DEF Current
  <2> QED BY <2>1, <2>3, <2>4 DEF Owed, Sent
<1>7. CASE ReceiveOK(s)
  <2>1. /\ spc[s] = "acking" /\ spc'[s] = "applying" /\ reply'[s].kind = "none"
        /\ req' = req /\ batch' = batch /\ reply[s].kind = "OK"
      BY <1>1, <1>7 DEF ReceiveOK, ImporterStep, TakeReply, NoReply
  <2> QED BY <1>2, <2>1 DEF OneLiveRequest, Owed, Sent
<1>8. CASE ReceiveError(s) \/ ReceiveFailure(s)
  <2>1. /\ spc'[s] = "idle" /\ reply'[s].kind = "none"
        /\ req' = req /\ reply[s].kind \in {"ERROR", "failure"} /\ spc[s] \in {"polling", "acking"}
      BY <1>1, <1>8 DEF ReceiveError, ReceiveFailure, ImporterStep, TakeReply, NoReply
  <2> QED BY <1>2, <2>1 DEF OneLiveRequest, Owed, Sent
<1> QED BY <1>3, <1>4, <1>5, <1>6, <1>7, <1>8 DEF Importer

\* A step that leaves the master alone but for requests, and what the importers of other
\* slaves have.
LEMMA SlaveAlone ==
    ASSUME CInv, NEW s \in Slaves,
           UNCHANGED <<db, nextId, queue, lastSent, wpc, wop, bgPc, bgSlave, bgItems, bgLeft,
                       bgKept>>,
           \A t \in Slaves \ {s} :
                /\ req'[t] \subseteq req[t] /\ reply'[t] = reply[t] /\ spc'[t] = spc[t]
                /\ batch'[t] = batch[t] /\ sdb'[t] = sdb[t] /\ followed'[t] = followed[t],
           followed'[s] \subseteq followed[s], SentStays(s), Followed(s)'
    PROVE  (\A t \in Slaves : Followed(t)') /\ Dumps'
<1>1. ASSUME NEW t \in Slaves \ {s} PROVE Followed(t)' /\ SentStays(t)
  <2>1. OneLiveRequest(t)' /\ SentStays(t) /\ Owed(t)' = Owed(t)
      BY OthersStay
  <2>2. Followed(t)'
      BY <2>1, RowsStay
  <2> QED BY <2>1, <2>2
<1>2. \A t \in Slaves : SentStays(t) /\ followed'[t] \subseteq followed[t]
    BY <1>1
<1>3. bgSlave \in Slaves => SentStays(bgSlave) /\ followed'[bgSlave] \subseteq followed[bgSlave]
    BY <1>2
<1>4. Dumps'
    BY <1>3, DumpRowsStay
<1> QED BY <1>1, <1>4

\* What an importer leaves alone.
LEMMA ImporterLeaves ==
    ASSUME CInv, NEW s \in Slaves, Importer(s) \/ ImportFails(s)
    PROVE  /\ UNCHANGED <<db, nextId, queue, lastSent, wpc, wop, bgPc, bgSlave, bgItems, bgLeft,
                          bgKept>>
           /\ \A t \in Slaves \ {s} :
                /\ req'[t] \subseteq req[t] /\ reply'[t] = reply[t] /\ spc'[t] = spc[t]
                /\ batch'[t] = batch[t] /\ sdb'[t] = sdb[t] /\ followed'[t] = followed[t]
           /\ followed'[s] \subseteq followed[s]
           /\ Importer(s) => followed' = followed
<1> USE DEF Importer, StartPoll, ReceiveNothing, ReceiveContent, SendAck, ReceiveOK, ReceiveError,
        ReceiveFailure, ApplyBatch, ImportFails, ImporterStep, TakeReply
<1>1. UNCHANGED <<db, nextId, queue, lastSent, wpc, wop, bgPc, bgSlave, bgItems, bgLeft, bgKept>>
    BY DEF master, writers, updater, scratch, history
<1>types. /\ req \in [Slaves -> SUBSET RequestType]
          /\ reply \in [Slaves -> [kind : ReplyKinds, items : SUBSET Item]]
          /\ spc \in [Slaves -> {"idle", "polling", "ready", "acking", "applying"}]
          /\ batch \in [Slaves -> SUBSET Item]
          /\ sdb \in [Slaves -> Database] /\ followed \in [Slaves -> SUBSET Rows]
    BY DEF CInv, IInv, TypeOK
<1>2. \A t \in Slaves \ {s} : req'[t] = req[t] /\ reply'[t] = reply[t]
    BY <1>types DEF network
<1>3. \A t \in Slaves \ {s} : spc'[t] = spc[t]
    BY <1>types
<1>4. \A t \in Slaves \ {s} : batch'[t] = batch[t]
    BY <1>types
<1>5. \A t \in Slaves \ {s} : sdb'[t] = sdb[t] /\ followed'[t] = followed[t]
    BY <1>types DEF history
<1>6. ASSUME Importer(s) PROVE followed' = followed
    BY <1>6 DEF history
<1>7. ASSUME ImportFails(s) PROVE followed'[s] \subseteq followed[s]
    BY <1>7, <1>types
<1> QED BY <1>1, <1>2, <1>3, <1>4, <1>5, <1>6, <1>7

\* The steps of an importer.
LEMMA ImporterFollowed ==
    ASSUME CInv, NEW s \in Slaves, Importer(s)
    PROVE  (\A t \in Slaves : Followed(t)') /\ Dumps'
<1>1. /\ UNCHANGED <<db, nextId, queue, lastSent, wpc, wop, bgPc, bgSlave, bgItems>>
      /\ followed' = followed
    BY ImporterLeaves
<1>2. Followed(s)' /\ SentStays(s)
  <2>1. CASE ~ApplyBatch(s)
    <3>1. OneLiveRequest(s)' /\ Owed(s)' = Owed(s) /\ SentStays(s)
        BY <2>1, ImporterGoesOn
    <3>2. sdb' = sdb
        BY <2>1 DEF Importer, StartPoll, ReceiveNothing, ReceiveContent, SendAck, ReceiveOK,
                    ReceiveError, ReceiveFailure
    <3> QED BY <1>1, <3>1, <3>2, RowsStay
  <2>2. CASE ApplyBatch(s)
    <3>1. /\ spc[s] = "applying" /\ spc'[s] = "idle" /\ req' = req /\ reply' = reply
          /\ sdb'[s] = Apply(batch[s], sdb[s])
        BY <2>2 DEF ApplyBatch, ImporterStep, network, CInv, IInv, TypeOK
    <3>2. OneLiveRequest(s)'
        BY <3>1 DEF CInv, Followed, OneLiveRequest
    <3>3. Owed(s) = batch[s] /\ Owed(s)' = {} /\ Sent(s)' = {}
        BY <3>1 DEF Owed, Sent
    <3>4. Stored(s)' = Stored(s)
      <4>1. Linked(s)' = Linked(s)
          BY <1>1, DispatchingStays DEF Linked
      <4> QED BY <1>1, <4>1, LinkedStays
    <3>5. Converges(s)'
      <4> SUFFICES ASSUME NEW r \in followed[s], Settled(r)' PROVE Expected(s)'[r] = db[r]
          BY <1>1 DEF Converges
      <4> DEFINE applied == Apply(batch[s], sdb[s])
      <4>1. r \in Rows
          BY DEF CInv, IInv, TypeOK
      <4>2. Expected(s)'[r] = After(Stored(s), r, After({}, r, applied[r]))
          BY <3>1, <3>3, <3>4, <4>1, ExpectedRowNext
      <4>3. After({}, r, applied[r]) = applied[r]
          BY DEF After, Touching
      <4>4. applied[r] = After(batch[s], r, sdb[s][r])
          BY <4>1 DEF Apply
      <4>5. Expected(s)[r] = After(Stored(s), r, After(batch[s], r, sdb[s][r]))
          BY <3>3, <4>1, ExpectedRow
      <4>6. Expected(s)[r] = db[r]
          BY <1>1 DEF CInv, Followed, Converges, Settled
      <4> QED BY <4>2, <4>3, <4>4, <4>5, <4>6
    <3> QED BY <3>2, <3>3, <3>5 DEF Followed, SentIdsUsed, SentWhole, SentStays
  <2> QED BY <2>1, <2>2
<1> QED BY <1>2, ImporterLeaves, SlaveAlone

\* A failed attempt: the slave follows no more the rows of the batch it had been allowed to
\* apply.
LEMMA FailureFollowed ==
    ASSUME CInv, NEW s \in Slaves, ImportFails(s)
    PROVE  (\A t \in Slaves : Followed(t)') /\ Dumps'
<1>1. /\ UNCHANGED <<db, nextId, queue, lastSent, wpc, wop, sdb, bgPc, bgSlave, bgItems>>
      /\ spc'[s] = "idle" /\ reply'[s].kind = "none"
      /\ req'[s] = Abandon(req[s]) /\ req[s] \subseteq RequestType
      /\ followed'[s] = followed[s] \ TouchedBy(Owed(s))
    BY DEF ImportFails, master, writers, updater, scratch, NoReply, CInv, IInv, TypeOK
<1>2. \A q \in req'[s] : ~q.live
    BY <1>1 DEF Abandon, RequestType
<1>3. OneLiveRequest(s)'
    BY <1>1, <1>2 DEF OneLiveRequest
<1>4. Owed(s)' = {} /\ Sent(s)' = {} /\ SentStays(s) /\ SentIdsUsed(s)'
    BY <1>1 DEF Owed, Sent, SentStays, SentIdsUsed
<1>5. \A r \in followed'[s] : Touching(Owed(s)', r) = Touching(Owed(s), r)
  <2>1. followed[s] \subseteq Rows
      BY DEF CInv, IInv, TypeOK
  <2> QED BY <1>1, <1>4, <2>1 DEF TouchedBy, Touching
<1>6. \A r : Settled(r)' => Settled(r)
    BY <1>1 DEF Settled
<1>7. Stored(s)' = Stored(s)
  <2>1. Linked(s)' = Linked(s)
      BY <1>1, DispatchingStays DEF Linked
  <2> QED BY <1>1, <2>1, LinkedStays
<1>8. Followed(s)'
    BY <1>1, <1>3, <1>4, <1>5, <1>6, <1>7, SameRows
<1> QED BY <1>4, <1>8, ImporterLeaves, SlaveAlone

\* A restart of the master: what is stored survives, and no acknowledgement of what was
\* sent before it is confirmed with items to clear.
LEMMA RestartFollowed ==
    ASSUME CInv, MasterRestart
    PROVE  (\A s \in Slaves : Followed(s)') /\ Dumps'
<1> SUFFICES ASSUME NEW s \in Slaves PROVE Followed(s)'
    BY DEF MasterRestart, Dumps, DumpKept, ErasedForgotten
<1> DEFINE connected == spc[s] \in {"polling", "acking"}
           unqueued  == {wop[w].row : w \in {x \in Writers : wpc[x] = "saved"}}
<1>1. /\ UNCHANGED <<db, sdb>> /\ lastSent'[s] = Range0
      /\ req'[s] = {} /\ reply'[s] = NoReply
      /\ spc'[s] = (IF connected THEN "idle" ELSE spc[s])
      /\ batch'[s] = (IF connected THEN {} ELSE batch[s])
      /\ followed'[s] = followed[s] \ (unqueued
                            \cup (IF connected THEN TouchedBy(Owed(s)) ELSE {}))
    BY DEF MasterRestart
<1>2. followed[s] \subseteq Rows
    BY DEF CInv, IInv, TypeOK
<1> HIDE DEF connected, unqueued
<1>3. OneLiveRequest(s)'
    BY <1>1 DEF OneLiveRequest, NoReply
<1>4. ~Current(s)' /\ SentIdsUsed(s)'
    BY <1>1 DEF Current, Range0, SentIdsUsed
<1>5. SentStays(s)
    BY <1>1, <1>4 DEF SentStays, Sent, NoReply, connected
<1>6. ASSUME NEW r \in followed'[s] PROVE Touching(Owed(s)', r) = Touching(Owed(s), r)
  <2>1. CASE connected
    <3>1. Owed(s)' = {}
        BY <1>1, <2>1 DEF Owed
    <3>2. r \notin TouchedBy(Owed(s)) /\ r \in Rows
        BY <1>1, <1>2, <1>6, <2>1
    <3> QED BY <3>1, <3>2 DEF TouchedBy, Touching
  <2>2. CASE ~connected
      BY <1>1, <2>2 DEF Owed, connected
  <2> QED BY <2>1, <2>2
<1>7. ASSUME NEW r \in followed'[s] PROVE Settled(r)
    BY <1>1, <1>7 DEF Settled, unqueued
<1>8. Stored(s)' = Stored(s)
  <2>1. queue'[s] = Stored(s) /\ bgItems' = {} /\ \A w \in Writers : wpc'[w] = "idle"
      BY DEF MasterRestart
  <2> QED BY <2>1 DEF Stored, Dispatching, BgItems
<1> QED BY <1>1, <1>3, <1>4, <1>5, <1>6, <1>7, <1>8, SameRows

\* A dump that fails: nothing of it is stored.
LEMMA DumpFailsFollowed ==
    ASSUME CInv, DumpFails
    PROVE  (\A s \in Slaves : Followed(s)') /\ Dumps'
<1>1. /\ UNCHANGED <<db, nextId, queue, lastSent, wpc, wop, bgSlave, network, importer, sdb,
                     followed>>
      /\ bgPc \in {"delete", "dump", "number"} /\ bgPc' \in {"mark", "dump"} /\ bgItems' = {}
    BY DEF DumpFails, master, writers, importer
<1>2. ASSUME NEW s \in Slaves PROVE Followed(s)'
  <2>1. OneLiveRequest(s)' /\ SentStays(s) /\ Owed(s)' = Owed(s)
      BY <1>1, ImporterUntouched
  <2>2. /\ BgItems(s, {"number", "dispatch"})' = {}
        /\ BgItems(s, {"dispatch"}) = {} /\ BgItems(s, {"dispatch"})' = {}
        /\ BgItems(s, {"erase"}) = {} /\ BgItems(s, {"erase"})' = {}
      BY <1>1 DEF BgItems
  <2>3. Dispatching(s)' = Dispatching(s)
      BY <1>1, DispatchingStays
  <2>4. Stored(s)' = Stored(s)
      BY <1>1, <2>2, <2>3 DEF Stored
  <2>5. Reserved(s)' \subseteq Reserved(s)
      BY <1>1, <2>2 DEF Reserved, Ids
  <2>6. SentIdsUsed(s)'
      BY <1>1, <2>1, <2>5, SentUsedStays DEF CInv, IInv, TypeOK
  <2>7. \A r : Settled(r)' => Settled(r)
      BY <1>1 DEF Settled
  <2> QED BY <1>1, <2>1, <2>4, <2>6, <2>7, SameRows
<1>3. Dumps'
    BY <1>1 DEF Dumps, DumpKept, ErasedForgotten
<1> QED BY <1>2, <1>3

\* The steps that leave the writers, the importers, the updater and the queues alone.
LEMMA OtherFollowed ==
    ASSUME CInv,
           \/ \E s \in Slaves : LinkBreak(s) \/ ResetSlave(s) \/ LoseRequest(s)
           \/ OtherImportStarts \/ OtherImportEnds \/ UNCHANGED vars
    PROVE  (\A t \in Slaves : Followed(t)') /\ Dumps'
<1>1. UNCHANGED <<db, nextId, queue, lastSent, wpc, wop, bgPc, bgSlave, bgItems, bgLeft, reply,
                  spc, batch, sdb, followed, bgKept>>
    BY DEF LinkBreak, ResetSlave, LoseRequest, OtherImportStarts, OtherImportEnds,
           vars, master, writers, updater, scratch, network, importer, history
<1>2. \A t \in Slaves : req'[t] \subseteq req[t]
    BY DEF LinkBreak, ResetSlave, LoseRequest, OtherImportStarts, OtherImportEnds,
           vars, network, CInv, IInv, TypeOK
<1>3. \A t \in Slaves : OneLiveRequest(t)' /\ SentStays(t) /\ Owed(t)' = Owed(t)
    BY <1>1, <1>2, OthersStay
<1>4. \A t \in Slaves : Followed(t)'
    BY <1>1, <1>3, RowsStay
<1>5. bgSlave \in Slaves => SentStays(bgSlave)
    BY <1>3
<1>6. Dumps'
    BY <1>1, <1>5, DumpRowsStay
<1> QED BY <1>4, <1>6

\* The invariant is inductive.
LEMMA NextCInv == CInv /\ [Next]_vars => CInv'
<1> SUFFICES ASSUME CInv, [Next]_vars PROVE (\A t \in Slaves : Followed(t)') /\ Dumps'
    BY NextIInv DEF CInv
<1>1. IInv'
    BY NextIInv DEF CInv
<1> DEFINE Goal == (\A t \in Slaves : Followed(t)') /\ Dumps'
<1>2. ASSUME NEW w \in Writers, WriterStep(w) PROVE Goal
    BY <1>1, <1>2, WriterFollowed
<1>3. ASSUME NEW w \in Writers, EnqueueFails(w) PROVE Goal
  <2>1. PICK to \in SUBSET Receivers : Enqueue(w, to)
      BY <1>3 DEF EnqueueFails
  <2> QED BY <1>1, <2>1, EnqueueFollowed
<1>4. ASSUME NEW s \in Slaves, Handler(s) \/ HandlerFails(s) PROVE Goal
    BY <1>4, HandlerFollowed, HandlerElsewhere
<1>5. CASE Updater
    BY <1>1, <1>5, UpdaterFollowed
<1>6. ASSUME NEW s \in Slaves, Importer(s) \/ ImportFails(s) PROVE Goal
    BY <1>6, ImporterFollowed, FailureFollowed
<1>7. CASE MasterRestart \/ DumpFails
    BY <1>7, RestartFollowed, DumpFailsFollowed
<1>8. CASE \/ \E s \in Slaves : LinkBreak(s) \/ ResetSlave(s) \/ LoseRequest(s)
           \/ OtherImportStarts \/ OtherImportEnds \/ UNCHANGED vars
    BY <1>8, OtherFollowed
<1> QED BY <1>2, <1>3, <1>4, <1>5, <1>6, <1>7, <1>8 DEF Next

\* A slave that follows a row ends up with the content the master has: whatever writers,
\* handlers, updater, importers and faults do in between, on a row of which no
\* modification was lost, overtaken or sent out of order since the last dump, what the slave
\* holds, is about to apply and has stored for it adds up to the database of the master.
THEOREM FollowersConverge == Spec => []FollowedRowsConverge
<1>1. CInv => FollowedRowsConverge
    BY DEF CInv, Followed, Converges, FollowedRowsConverge
<1> QED BY <1>1, InitFollowed, NextCInv, PTL DEF Spec
-----------------------------------------------------------------------------
(* Without incident, and with one writer, nothing gets into a queue before *)
(* what has been sent of it: an acknowledgement clears what the importer   *)
(* holds, and only a slave that is obsolete misses a modification.         *)

Calm == used.breaks = 0 /\ used.faults = 0

\* The importer holds items, or is about to get them, and has not been told to apply them.
InHand(s) ==
    \/ spc[s] = "polling" /\ reply[s].kind = "content"
    \/ spc[s] = "ready"
    \/ spc[s] = "acking" /\ reply[s].kind # "OK"

\* The range the master keeps still designates the items in hand.
RangeInHand(s) == InHand(s) => Sent(s) = InRange(queue[s], lastSent[s])

\* What the writer is still to link to a queue comes after all that is in it, or was sent.
ComesLast(s) ==
    /\ lastSent[s].last < nextId
    /\ \A w \in Writers : s \in wop[w].to =>
        /\ lastSent[s].last < wop[w].id
        /\ \A i \in queue[s] : i.id < wop[w].id

\* The items of a dump are getting into the queue of s.
BeingDumped(s) == bgSlave = s /\ bgPc \in {"dump", "number", "dispatch", "mark"}

\* A slave the master has never heard of has nothing in hand, and nothing in its queue but
\* what its first dump has put there.
Unasked(s) ==
    /\ \A q \in req[s] : q.kind = "poll" /\ q.step # "serving"
    /\ spc[s] \in {"idle", "polling"} /\ reply[s].kind # "content"

Unheard(s) == activity[s] = "never" =>
    /\ Unasked(s)
    /\ \A w \in Writers : s \notin wop[w].to
    /\ (queue[s] = {} /\ followed[s] = {}) \/ BeingDumped(s)

Quiet(s) ==
    /\ activity[s] # "old"
    /\ \A q \in req[s] : q.live
    /\ Unheard(s) /\ ComesLast(s) /\ RangeInHand(s)

\* Only a slave the master has never heard of is dumped, so there is nothing to delete.
DumpsUnheard ==
    /\ bgPc \in {"collect", "delete", "lock", "dump", "number", "dispatch"} =>
            activity[bgSlave] = "never"
    /\ bgPc # "erase" /\ (bgPc = "delete" => bgItems = {})

\* It does not follow yet the rows that are still to be dumped.
DumpsOnce ==
    /\ bgPc \in {"dump", "number", "dispatch"} =>
            \A r \in followed[bgSlave] \cup bgKept : TableOf[r] \notin bgTodo
    /\ bgPc = "number" =>
            \A r \in followed[bgSlave] : ~ToNumber(r) /\ Touching(bgItems, r) = {}

SavedAsWritten == \A w \in Writers : wpc[w] = "saved" => db[wop[w].row] = wop[w].val

AllQuiet == (\A s \in Slaves : Quiet(s)) /\ DumpsUnheard /\ DumpsOnce /\ SavedAsWritten

CalmInv == CInv /\ (Calm => AllQuiet)
\* The ends of a range are ids of its items, and all the others are between them.
LEMMA RangeEnds ==
    ASSUME NEW items \in SUBSET Item, Bounded(items), items # {}
    PROVE  /\ RangeOf(items).first \in Ids(items) /\ RangeOf(items).last \in Ids(items)
           /\ \A i \in items : RangeOf(items).first <= i.id /\ i.id <= RangeOf(items).last
<1>1. Ids(items) \in SUBSET Nat /\ Ids(items) # {} /\ \A i \in items : i.id \in Ids(items)
    BY DEF Ids, Item
<1>2. PICK n \in Nat : \A x \in Ids(items) : x < n
    BY DEF Bounded, Ids
<1>3. \E x \in Ids(items) : \A y \in Ids(items) : x <= y
    BY <1>1, LeastElement
<1>4. \E x \in Ids(items) : \A y \in Ids(items) : y <= x
    BY <1>1, <1>2, GreatestElement
<1> DEFINE lo == CHOOSE x \in Ids(items) : \A y \in Ids(items) : x <= y
           hi == CHOOSE x \in Ids(items) : \A y \in Ids(items) : y <= x
<1>5. lo \in Ids(items) /\ \A y \in Ids(items) : lo <= y
    BY <1>3
<1>6. hi \in Ids(items) /\ \A y \in Ids(items) : y <= hi
    BY <1>4
<1>7. RangeOf(items) = [first |-> lo, last |-> hi]
    BY DEF RangeOf
<1> HIDE DEF lo, hi
<1> QED BY <1>1, <1>5, <1>6, <1>7

\* clearLastSentRange goes through the items that getQueueRange designated.
LEMMA FirstItemsAreARange ==
    ASSUME NEW items \in SUBSET Item, UniqueIds(items), Bounded(items), NEW n \in Nat,
           0 \notin Ids(items), FirstItems(items, n) # {}
    PROVE  InRange(items, RangeOf(FirstItems(items, n))) = FirstItems(items, n)
<1> DEFINE sent == FirstItems(items, n)
           range == RangeOf(sent)
<1>1. sent \subseteq items /\ sent \in SUBSET Item /\ Bounded(sent) /\ IsFiniteSet(items)
    BY ItemsFinite DEF FirstItems, Bounded
<1>2. \A i \in items \ sent : \A j \in sent : j.id < i.id
    BY <1>1, FirstItemsPrecede
<1> HIDE DEF sent
<1>3. /\ range.first \in Ids(sent) /\ range.last \in Ids(sent)
      /\ \A i \in sent : range.first <= i.id /\ i.id <= range.last
    BY <1>1, RangeEnds DEF sent
<1>4. range.first # 0
    BY <1>1, <1>3 DEF Ids
<1>5. PICK last \in sent : last.id = range.last
    BY <1>3 DEF Ids
<1> HIDE DEF range
<1>6. \A i \in items \ sent : ~(i.id <= range.last)
    BY <1>1, <1>2, <1>5 DEF Item
<1>7. InRange(items, range) = sent
    BY <1>1, <1>3, <1>4, <1>6 DEF InRange
<1> QED BY <1>7 DEF sent, range

\* An incident is counted: the steps that stay without one are those of the program.
LEMMA CalmStep ==
    ASSUME IInv, Next, Calm'
    PROVE  /\ Calm
           /\ \/ \E w \in Writers : WriterStep(w)
              \/ \E s \in Slaves : Handler(s) \/ Importer(s) \/ LoseRequest(s)
              \/ Updater \/ OtherImportStarts \/ OtherImportEnds
<1>1. used \in [writes : Nat, breaks : Nat, imports : Nat, faults : Nat]
    BY DEF IInv, TypeOK
<1>2. ASSUME NEW what \in {"breaks", "faults"}, NEW bound, Incident(what, bound) PROVE FALSE
  <2>1. used' = [used EXCEPT ![what] = used[what] + 1] /\ used[what] \in Nat
      BY <1>1, <1>2 DEF Incident, Spend
  <2>2. used'[what] = used[what] + 1
      BY <1>1, <2>1
  <2>3. used'[what] = 0
      BY <1>2 DEF Calm
  <2> QED BY <2>1, <2>2, <2>3
<1>3. ASSUME NEW what \in {"writes", "imports"}, NEW bound, Spend(what, bound) PROVE Calm
    BY <1>1, <1>3 DEF Spend, Calm
<1>4. ASSUME NEW w \in Writers, WriterStep(w) PROVE Calm
    BY <1>3, <1>4 DEF WriterStep, Prepare, DirectSave, Commit, Dispatch, Rollback, DirectEnqueue,
          Calm
<1>5. ASSUME NEW w \in Writers PROVE ~EnqueueFails(w)
    BY <1>2 DEF EnqueueFails
<1>6. ASSUME NEW s \in Slaves, LinkBreak(s) \/ ResetSlave(s) PROVE FALSE
    BY <1>2, <1>6 DEF LinkBreak, ResetSlave
<1>7. ASSUME NEW s \in Slaves, ImportFails(s) \/ HandlerFails(s) PROVE FALSE
    BY <1>2, <1>7 DEF ImportFails, HandlerFails
<1>8. ~DumpFails /\ ~MasterRestart
    BY <1>2 DEF DumpFails, MasterRestart
<1>9. ASSUME NEW s \in Slaves, Handler(s) \/ Importer(s) \/ LoseRequest(s) PROVE Calm
    BY <1>9 DEF Handler, PollCheck, PollHandoff, PollServe, AckConfirm, AckRefuse, Importer,
        StartPoll, ReceiveNothing, ReceiveContent, SendAck, ReceiveOK, ReceiveError,
        ReceiveFailure, ApplyBatch, LoseRequest, Calm
<1>10. CASE Updater
    BY <1>10 DEF Updater, BgTake, BgReset, BgTest, BgCollect, BgDelete, BgErase, BgLock, BgRead,
        ReadTable, BgNumber, BgSave, BgDispatch, BgUnlock, BgMark, Calm
<1>11. CASE OtherImportStarts \/ OtherImportEnds
    BY <1>3, <1>11 DEF OtherImportStarts, OtherImportEnds, Calm
<1> QED BY <1>4, <1>5, <1>6, <1>7, <1>8, <1>9, <1>10, <1>11 DEF Next

LEMMA QuietObsolete ==
    ASSUME CInv, NEW s \in Slaves, Quiet(s)
    PROVE  IsObsolete(s) <=> activity[s] = "never"
BY DEF CInv, IInv, TypeOK, Quiet, IsObsolete

\* A step that takes nothing of the slave in hand, and changes neither its queue nor what
\* is to come.
LEMMA QuietStays ==
    ASSUME NEW s \in Slaves, Quiet(s), nextId \in Nat, nextId' \in Nat, nextId <= nextId',
           lastSent[s].last \in Nat,
           queue'[s] = queue[s], lastSent'[s] = lastSent[s], wop' = wop,
           activity'[s] = activity[s] \/ activity'[s] = "recent",
           \A q \in req'[s] : q.live,
           InHand(s)' => InHand(s) /\ Sent(s)' = Sent(s),
           activity'[s] = "never" =>
                /\ Unasked(s)'
                /\ (queue[s] = {} /\ followed'[s] = {}) \/ BeingDumped(s)'
    PROVE  Quiet(s)'
<1>1. activity'[s] # "old"
    BY DEF Quiet
<1>2. Unheard(s)'
  <2>1. activity'[s] = "never" => activity[s] = "never"
      OBVIOUS
  <2> QED BY <2>1 DEF Quiet, Unheard
<1>3. ComesLast(s)'
    BY DEF Quiet, ComesLast
<1>4. RangeInHand(s)'
    BY DEF Quiet, RangeInHand
<1> QED BY <1>1, <1>2, <1>3, <1>4 DEF Quiet

\* A step that is not about the slave.
LEMMA QuietElsewhere ==
    ASSUME CInv, NEW s \in Slaves, Quiet(s), nextId' \in Nat, nextId <= nextId',
           queue'[s] = queue[s], lastSent'[s] = lastSent[s], activity'[s] = activity[s],
           followed'[s] \subseteq followed[s],
           req'[s] \subseteq req[s], reply'[s] = reply[s], spc'[s] = spc[s], batch'[s] = batch[s],
           wop' = wop, BeingDumped(s) => BeingDumped(s)'
    PROVE  Quiet(s)'
<1>1. nextId \in Nat /\ lastSent[s].last \in Nat
    BY DEF CInv, IInv, TypeOK
<1>2. InHand(s)' => InHand(s) /\ Sent(s)' = Sent(s)
    BY DEF InHand, Sent
<1>3. \A q \in req'[s] : q.live
    BY DEF Quiet
<1>4. activity'[s] = "never" =>
                /\ Unasked(s)'
                /\ (queue[s] = {} /\ followed'[s] = {}) \/ BeingDumped(s)'
    BY DEF Quiet, Unheard, Unasked
<1> QED BY <1>1, <1>2, <1>3, <1>4, QuietStays

\* A step of the writer: what it links comes after the range in hand.
LEMMA QuietWrites ==
    ASSUME CInv, NEW s \in Slaves, Quiet(s),
           UNCHANGED <<activity, lastSent, bgPc, bgSlave, network, importer>>,
           followed'[s] \subseteq followed[s],
           nextId' \in Nat, nextId <= nextId', queue[s] \subseteq queue'[s],
           \A i \in queue'[s] \ queue[s] :
                activity[s] # "never" /\ i.id \in Nat /\ lastSent[s].last < i.id,
           \A x \in Writers : s \in wop'[x].to =>
                /\ activity[s] # "never" /\ lastSent[s].last < wop'[x].id
                /\ \A i \in queue'[s] : i.id < wop'[x].id
    PROVE  Quiet(s)'
<1>1. UNCHANGED <<req, reply, spc, batch>>
    BY DEF network, importer
<1>2. nextId \in Nat /\ lastSent[s].last \in Nat /\ lastSent[s].first \in Nat
    BY DEF CInv, IInv, TypeOK
<1>3. activity'[s] # "old" /\ \A q \in req'[s] : q.live
    BY <1>1 DEF Quiet
<1>4. Unheard(s)'
  <2> SUFFICES ASSUME activity[s] = "never"
               PROVE  /\ \A w \in Writers : s \notin wop'[w].to
                      /\ (queue'[s] = {} /\ followed'[s] = {}) \/ BeingDumped(s)'
      BY <1>1 DEF Quiet, Unheard, Unasked
  <2>1. queue'[s] = queue[s]
      OBVIOUS
  <2> QED BY <2>1 DEF Quiet, Unheard, BeingDumped
<1>5. ComesLast(s)'
    BY <1>2 DEF Quiet, ComesLast
<1>6. RangeInHand(s)'
  <2>1. (InHand(s)' <=> InHand(s)) /\ Sent(s)' = Sent(s)
      BY <1>1 DEF InHand, Sent
  <2>2. \A i \in queue'[s] \ queue[s] : ~(i.id <= lastSent[s].last)
      BY <1>2
  <2>3. InRange(queue'[s], lastSent[s]) = InRange(queue[s], lastSent[s])
      BY <2>2 DEF InRange
  <2> QED BY <2>1, <2>3 DEF Quiet, RangeInHand
<1> QED BY <1>3, <1>4, <1>5, <1>6 DEF Quiet

\* A step that leaves the dump under way alone.
LEMMA DumpQuiet ==
    ASSUME CInv, AllQuiet, UNCHANGED <<bgPc, bgSlave, scratch>>, bgKept' \subseteq bgKept,
           \A s \in Slaves : followed'[s] \subseteq followed[s],
           \A s \in Slaves : activity'[s] = activity[s] \/ activity[s] # "never"
    PROVE  DumpsUnheard' /\ DumpsOnce'
<1>1. UNCHANGED <<bgTodo, bgLeft, bgItems>>
    BY DEF scratch
<1>2. bgPc \in {"collect", "delete", "lock", "dump", "number", "dispatch"} => bgSlave \in Slaves
    BY DEF CInv, IInv, TypeOK, Processing
<1>3. DumpsUnheard'
    BY <1>1, <1>2 DEF AllQuiet, DumpsUnheard
<1>4. DumpsOnce'
    BY <1>1, <1>2 DEF AllQuiet, DumpsOnce, ToNumber
<1> QED BY <1>3, <1>4

LEMMA WriterQuiet ==
    ASSUME CInv, AllQuiet, NEW w \in Writers, Writers = {w}, WriterStep(w)
    PROVE  AllQuiet'
<1>1. /\ nextId \in Nat \ {0} /\ wop \in [Writers -> OpType] /\ wpc \in [Writers -> WpcType]
      /\ queue \in [Slaves -> SUBSET Item] /\ db \in Database
      /\ \A s \in Slaves : lastSent[s].last \in Nat
      /\ followed \in [Slaves -> SUBSET Rows]
    BY DEF CInv, IInv, TypeOK, OpType, WpcType
<1>2. UNCHANGED <<activity, lastSent, bgPc, bgSlave, scratch, network, importer>>
    BY DEF WriterStep, Prepare, DirectSave, Commit, Dispatch, Rollback, DirectEnqueue, Enqueue,
           master, updater
<1>3. bgKept' \subseteq bgKept /\ \A s \in Slaves : followed'[s] \subseteq followed[s]
    BY <1>1 DEF WriterStep, Prepare, DirectSave, Commit, Dispatch, Rollback, DirectEnqueue,
           Enqueue, history
<1>4. DumpsUnheard' /\ DumpsOnce'
    BY <1>2, <1>3, DumpQuiet
<1>5. \A s \in Slaves : \A i \in queue[s] : i.id \in Nat /\ i.id < nextId
    BY <1>1 DEF CInv, IInv, FreshIds, Item
<1>6. \A s \in Slaves : Quiet(s) /\ lastSent[s].last < nextId
    BY DEF AllQuiet, Quiet, ComesLast
<1>7. \A s \in Receivers : s \in Slaves /\ activity[s] # "never"
    BY <1>6, QuietObsolete DEF Receivers
<1>8. \A s \in wop[w].to : activity[s] # "never" /\ lastSent[s].last < wop[w].id
                             /\ \A i \in queue[s] : i.id < wop[w].id
    BY <1>1, <1>6 DEF Quiet, Unheard, ComesLast, OpType
\* Such a step, if it links nothing and has an id of its own or the next.
<1>9. ASSUME queue' = queue, nextId' \in Nat, nextId <= nextId',
             \/ wop'[w].to \subseteq Receivers /\ wop'[w].id = nextId
             \/ wop'[w].to \subseteq wop[w].to /\ wop'[w].id = wop[w].id
             \/ wop'[w].to = {},
             wpc'[w] = "saved" => db'[wop'[w].row] = wop'[w].val
      PROVE  AllQuiet'
  <2>1. ASSUME NEW s \in Slaves PROVE Quiet(s)'
    <3>1. \A x \in Writers : s \in wop'[x].to =>
                /\ activity[s] # "never" /\ lastSent[s].last < wop'[x].id
                /\ \A i \in queue'[s] : i.id < wop'[x].id
        BY <1>5, <1>6, <1>7, <1>8, <1>9
    <3> QED BY <1>2, <1>3, <1>6, <1>9, <3>1, QuietWrites
  <2>2. SavedAsWritten'
      BY <1>9 DEF SavedAsWritten
  <2> QED BY <1>4, <2>1, <2>2 DEF AllQuiet
<1>10. ASSUME NEW r \in Rows, NEW v \in Content, Prepare(w, r, v) PROVE AllQuiet'
  <2>1. /\ queue' = queue /\ nextId' \in Nat /\ nextId <= nextId' /\ wpc'[w] = "prepared"
        /\ wop'[w].to = Receivers /\ wop'[w].id = nextId
      BY <1>1, <1>10 DEF Prepare
  <2> QED BY <1>9, <2>1
<1>11. ASSUME NEW r \in Rows, NEW v \in Content, DirectSave(w, r, v) PROVE AllQuiet'
  <2>1. /\ queue' = queue /\ nextId' = nextId
        /\ wop'[w].row = r /\ wop'[w].val = v /\ wop'[w].to = {}
      BY <1>1, <1>11 DEF DirectSave
  <2>2. db'[r] = v
      BY <1>1, <1>11 DEF DirectSave, Database
  <2> QED BY <1>1, <1>9, <2>1, <2>2
<1>12. CASE Rollback(w)
  <2>1. queue' = queue /\ nextId' = nextId /\ wop'[w].to = {} /\ wpc'[w] = "idle"
      BY <1>1, <1>12 DEF Rollback, master, IdleOp
  <2> QED BY <1>1, <1>9, <2>1
<1>13. CASE Commit(w)
  <2>1. queue' = queue /\ nextId' = nextId /\ Stores(w, wop[w])
      BY <1>13 DEF Commit
  <2>2. wpc'[w] # "saved" /\ (wop'[w] = wop[w] \/ wop'[w].to = {})
      BY <1>1, <2>1, IdleOpType DEF Stores
  <2> QED BY <1>1, <1>9, <2>1, <2>2
<1>14. CASE DirectEnqueue(w)
  <2>1. PICK op : op = [wop[w] EXCEPT !.id = nextId, !.to = Receivers]
      OBVIOUS
  <2>2. op.id = nextId /\ op.to = Receivers
      BY <1>1, <2>1 DEF OpType
  <2>3. queue' = queue /\ Stores(w, op)
        /\ nextId' = IF Receivers = {} THEN nextId ELSE nextId + 1
      BY <1>14, <2>1 DEF DirectEnqueue, Enqueue
  <2>4. wpc'[w] # "saved" /\ (wop'[w] = op \/ wop'[w].to = {})
      BY <1>1, <2>3, IdleOpType DEF Stores
  <2> QED BY <1>1, <1>9, <2>2, <2>3, <2>4
<1>15. CASE Dispatch(w)
  <2>1. PICK t \in wop[w].to :
            /\ queue' = [queue EXCEPT ![t] = @ \cup {SyncItem(wop[w])}] /\ nextId' = nextId
            /\ Stores(w, [wop[w] EXCEPT !.to = wop[w].to \ {t}])
      BY <1>15 DEF Dispatch
  <2>2. PICK op : op = [wop[w] EXCEPT !.to = wop[w].to \ {t}]
      OBVIOUS
  <2>3. op.to = wop[w].to \ {t} /\ op.id = wop[w].id /\ wop[w].id \in Nat /\ t \in Slaves
      BY <1>1, <2>2 DEF OpType
  <2>4. wpc'[w] # "saved" /\ (wop'[w] = op \/ wop'[w].to = {})
      BY <1>1, <2>1, <2>2, IdleOpType DEF Stores
  <2>5. SyncItem(wop[w]).id = wop[w].id
      BY DEF SyncItem
  <2>6. ASSUME NEW s \in Slaves PROVE Quiet(s)'
    <3>1. queue'[s] = IF s = t THEN queue[s] \cup {SyncItem(wop[w])} ELSE queue[s]
        BY <1>1, <2>1
    <3>2. s \in wop'[w].to => s \in wop[w].to /\ s # t /\ wop'[w].id = wop[w].id
        BY <2>3, <2>4
    <3>3. \A i \in queue'[s] \ queue[s] :
                activity[s] # "never" /\ i.id \in Nat /\ lastSent[s].last < i.id
        BY <1>8, <2>3, <2>5, <3>1
    <3>4. \A x \in Writers : s \in wop'[x].to =>
                /\ activity[s] # "never" /\ lastSent[s].last < wop'[x].id
                /\ \A i \in queue'[s] : i.id < wop'[x].id
        BY <1>8, <3>1, <3>2
    <3>5. queue[s] \subseteq queue'[s] /\ nextId' \in Nat /\ nextId <= nextId'
        BY <1>1, <2>1, <3>1
    <3> QED BY <1>2, <1>3, <1>6, <3>3, <3>4, <3>5, QuietWrites
  <2>7. SavedAsWritten'
      BY <2>4 DEF SavedAsWritten
  <2> QED BY <1>4, <2>6, <2>7 DEF AllQuiet
<1> QED BY <1>10, <1>11, <1>12, <1>13, <1>14, <1>15 DEF WriterStep

\* The handler of a request, for the other slaves and for the dump under way.
LEMMA HandlerQuiet ==
    ASSUME CInv, AllQuiet, NEW s \in Slaves, Handler(s), Quiet(s)',
           activity'[s] = activity[s] \/ activity[s] # "never"
    PROVE  AllQuiet'
<1>1. /\ UNCHANGED <<db, nextId, writers, importer, bgPc, bgSlave, scratch>>
      /\ \A t \in Slaves \ {s} : /\ queue'[t] = queue[t] /\ lastSent'[t] = lastSent[t]
                                 /\ activity'[t] = activity[t]
    BY DEF Handler, PollCheck, PollHandoff, PollServe, AckConfirm, AckRefuse, MarkAsUpToDate,
           master, updater, CInv, IInv, TypeOK
<1>2. /\ wpc' = wpc /\ wop' = wop /\ spc' = spc /\ batch' = batch /\ nextId \in Nat
    BY <1>1 DEF writers, importer, CInv, IInv, TypeOK
<1>3. \A t \in Slaves \ {s} : req'[t] = req[t] /\ reply'[t] = reply[t]
    BY DEF Handler, PollCheck, PollHandoff, PollServe, AckConfirm, AckRefuse, Respond, Advance,
           CInv, IInv, TypeOK
<1>4. bgKept' \subseteq bgKept /\ \A t \in Slaves : followed'[t] \subseteq followed[t]
    BY DEF Handler, PollCheck, PollHandoff, PollServe, AckConfirm, AckRefuse, Lose, history,
           CInv, IInv, TypeOK
<1>5. ASSUME NEW t \in Slaves \ {s} PROVE Quiet(t)'
    BY <1>1, <1>2, <1>3, <1>4, QuietElsewhere DEF AllQuiet, BeingDumped
<1>6. DumpsUnheard' /\ DumpsOnce'
    BY <1>1, <1>4, DumpQuiet
<1>7. SavedAsWritten'
    BY <1>1, <1>2 DEF AllQuiet, SavedAsWritten
<1> QED BY <1>5, <1>6, <1>7 DEF AllQuiet

\* A handler that goes on, or tells the importer nothing of items.
LEMMA HandlerAnswers ==
    ASSUME CInv, NEW s \in Slaves, Quiet(s), NEW q \in req[s],
           UNCHANGED <<master, writers, importer, bgPc, bgSlave, history>>,
           \/ \E kind \in {"processing", "busy", "ERROR"} : Respond(s, q, Reply(kind))
           \/ /\ q.kind = "poll"
              /\ \E step \in {"serving", "handoff"} :
                    Advance(s, q, step) /\ (step = "serving" => activity[s] # "never")
    PROVE  Quiet(s)'
<1>1. /\ nextId' = nextId /\ queue' = queue /\ lastSent' = lastSent /\ activity' = activity
      /\ wop' = wop /\ spc' = spc /\ batch' = batch /\ followed' = followed
      /\ BeingDumped(s)' = BeingDumped(s)
    BY DEF master, writers, importer, history, BeingDumped
<1>2. /\ nextId \in Nat /\ lastSent[s].last \in Nat
      /\ req \in [Slaves -> SUBSET RequestType]
      /\ reply \in [Slaves -> [kind : ReplyKinds, items : SUBSET Item]]
    BY DEF CInv, IInv, TypeOK
<1>3. q.live /\ OneLiveRequest(s) /\ q \in RequestType
    BY <1>2 DEF Quiet, CInv, Followed
<1>4. CASE \E kind \in {"processing", "busy", "ERROR"} : Respond(s, q, Reply(kind))
  <2>1. PICK kind \in {"processing", "busy", "ERROR"} : Respond(s, q, Reply(kind))
      BY <1>4
  <2>2. req'[s] = req[s] \ {q} /\ reply'[s].kind = kind /\ reply[s].kind = "none"
      BY <1>2, <1>3, <2>1 DEF Respond, Reply, OneLiveRequest
  <2>3. InHand(s)' => InHand(s) /\ Sent(s)' = Sent(s)
      BY <1>1, <2>1, <2>2 DEF InHand, Sent
  <2>4. \A p \in req'[s] : p.live
      BY <2>2 DEF Quiet
  <2>5. activity[s] = "never" =>
                /\ Unasked(s)'
                /\ (queue[s] = {} /\ followed'[s] = {}) \/ BeingDumped(s)'
      BY <1>1, <2>1, <2>2 DEF Quiet, Unheard, Unasked
  <2> QED BY <1>1, <1>2, <2>3, <2>4, <2>5, QuietStays
<1>5. CASE q.kind = "poll" /\ \E step \in {"serving", "handoff"} :
                Advance(s, q, step) /\ (step = "serving" => activity[s] # "never")
  <2>1. PICK step \in {"serving", "handoff"} :
                Advance(s, q, step) /\ (step = "serving" => activity[s] # "never")
      BY <1>5
  <2> DEFINE p == [q EXCEPT !.step = step]
  <2>2. p.live /\ p.kind = "poll" /\ p.step = step
      BY <1>3, <1>5 DEF RequestType
  <2>3. req'[s] = (req[s] \ {q}) \cup {p} /\ reply' = reply
      BY <1>2, <2>1 DEF Advance
  <2> HIDE DEF p
  <2>4. InHand(s)' => InHand(s) /\ Sent(s)' = Sent(s)
      BY <1>1, <2>3 DEF InHand, Sent
  <2>5. \A o \in req'[s] : o.live
      BY <2>2, <2>3 DEF Quiet
  <2>6. activity[s] = "never" =>
                /\ Unasked(s)'
                /\ (queue[s] = {} /\ followed'[s] = {}) \/ BeingDumped(s)'
      BY <1>1, <2>1, <2>2, <2>3 DEF Quiet, Unheard, Unasked
  <2> QED BY <1>1, <1>2, <2>4, <2>5, <2>6, QuietStays
<1> QED BY <1>4, <1>5

\* A poll that is served: the range kept is that of the items on their way, and none of them
\* overtakes another.
LEMMA ServeQuiet ==
    ASSUME CInv, NEW s \in Slaves, Quiet(s), PollServe(s)
    PROVE  Quiet(s)' /\ activity[s] # "never"
<1> DEFINE sent == FirstItems(queue[s], MaxQueriesNumber)
           answer == IF sent = {} THEN Reply("noContent") ELSE ContentReply(sent)
<1>1. PICK q \in req[s] : q.kind = "poll" /\ q.step = "serving" /\ Respond(s, q, answer)
    BY DEF PollServe
<1>2. /\ UNCHANGED <<nextId, queue, writers, importer>>
      /\ lastSent'[s] = RangeOf(sent) /\ activity'[s] = "recent"
    BY DEF PollServe, MarkAsUpToDate, CInv, IInv, TypeOK
<1>3. /\ answer.items = sent /\ answer.kind \in {"noContent", "content"}
      /\ (sent = {} <=> answer.kind = "noContent")
    BY DEF Reply, ContentReply
<1>4. /\ queue[s] \in SUBSET Item /\ Bounded(queue[s]) /\ UniqueIds(queue[s])
      /\ nextId \in Nat \ {0} /\ FreshIds /\ MaxQueriesNumber \in Nat
      /\ \A i \in queue[s] : i.id \in Nat /\ 0 < i.id /\ i.id < nextId
    BY QueueBounded, MaxQueriesNumberAssumption DEF CInv, IInv, TypeOK, FreshIds, Item
<1>5. sent \subseteq queue[s] /\ Bounded(sent) /\ 0 \notin Ids(queue[s])
    BY <1>4 DEF FirstItems, Ids, Bounded
<1>6. sent # {} => InRange(queue[s], RangeOf(sent)) = sent
    BY <1>4, <1>5, FirstItemsAreARange
<1> HIDE DEF sent, answer
<1>7. q.live /\ OneLiveRequest(s)
    BY DEF Quiet, CInv, Followed
<1>8. reply'[s] = answer /\ spc'[s] = "polling" /\ req'[s] = req[s] \ {q} /\ wop' = wop
    BY <1>1, <1>2, <1>7 DEF Respond, OneLiveRequest, CInv, IInv, TypeOK, importer, writers
<1>9. activity[s] # "never"
    BY <1>1 DEF Quiet, Unheard, Unasked
<1>10. RangeOf(sent).last = 0 \/ \E i \in queue[s] : RangeOf(sent).last = i.id
  <2>1. CASE sent = {}
      BY <2>1 DEF RangeOf, Range0
  <2>2. CASE sent # {}
      BY <1>4, <1>5, <2>2, RangeEnds DEF Ids
  <2> QED BY <2>1, <2>2
<1>11. ComesLast(s)'
  <2>1. RangeOf(sent).last < nextId
      BY <1>4, <1>10
  <2>2. ASSUME NEW w \in Writers, s \in wop[w].to
        PROVE  /\ RangeOf(sent).last < wop[w].id
               /\ \A i \in queue[s] : i.id < wop[w].id
    <3>1. 0 < wop[w].id
        BY <1>4, <2>2 DEF FreshIds
    <3> QED BY <1>10, <2>2, <3>1 DEF Quiet, ComesLast
  <2> QED BY <1>2, <1>8, <2>1, <2>2 DEF ComesLast
<1>12. RangeInHand(s)'
    BY <1>2, <1>3, <1>6, <1>8 DEF RangeInHand, InHand, Sent
<1>13. Unheard(s)' /\ activity'[s] # "old"
    BY <1>2 DEF Unheard
<1>14. \A p \in req'[s] : p.live
    BY <1>8 DEF Quiet
<1> QED BY <1>9, <1>11, <1>12, <1>13, <1>14 DEF Quiet

\* What is still on its way to a slave that is served comes after what its queue holds.
LEMMA NothingLeftBehind ==
    ASSUME CInv, AllQuiet, NEW s \in Slaves, activity[s] # "never", NEW i \in Coming(s),
           NEW j \in queue[s]
    PROVE  j.id < i.id
<1>1. BgItems(s, {"number", "dispatch"}) = {}
    BY DEF AllQuiet, DumpsUnheard, BgItems
<1>2. PICK w \in Writers : s \in wop[w].to /\ i = SyncItem(wop[w])
    BY <1>1 DEF Coming, Dispatching
<1> QED BY <1>2 DEF AllQuiet, Quiet, ComesLast, SyncItem

\* An acknowledgement that is confirmed clears what the importer may now apply.
LEMMA ConfirmQuiet ==
    ASSUME CInv, NEW s \in Slaves, Quiet(s), NEW q \in req[s], q.kind = "ack",
           lastSent' = [lastSent EXCEPT ![s] = Range0],
           queue' = [queue EXCEPT ![s] = @ \ InRange(queue[s], lastSent[s])],
           MarkAsUpToDate(s), Respond(s, q, Reply("OK")), UNCHANGED <<nextId, writers, importer>>
    PROVE  /\ Quiet(s)' /\ activity[s] # "never"
           /\ q.live /\ InRange(queue[s], lastSent[s]) = batch[s]
<1>1. /\ queue'[s] \subseteq queue[s] /\ lastSent'[s] = Range0 /\ activity'[s] = "recent"
    BY DEF MarkAsUpToDate, CInv, IInv, TypeOK
<1>2. /\ q.live /\ OneLiveRequest(s)
    BY DEF Quiet, CInv, Followed
<1>3. /\ reply[s].kind = "none" /\ spc[s] = "acking" /\ req'[s] = req[s] \ {q}
      /\ reply'[s].kind = "OK" /\ spc'[s] = "acking" /\ wop' = wop
    BY <1>2 DEF Respond, Reply, OneLiveRequest, CInv, IInv, TypeOK, importer, writers
<1>4. activity[s] # "never"
    BY DEF Quiet, Unheard, Unasked
<1>5. InRange(queue[s], lastSent[s]) = batch[s]
    BY <1>3 DEF Quiet, RangeInHand, InHand, Sent
<1>6. nextId \in Nat \ {0} /\ FreshIds
    BY DEF CInv, IInv, TypeOK
<1>7. ComesLast(s)'
    BY <1>1, <1>3, <1>6 DEF Quiet, ComesLast, FreshIds, Range0
<1>8. RangeInHand(s)'
    BY <1>3 DEF RangeInHand, InHand
<1>9. Unheard(s)' /\ activity'[s] # "old" /\ \A p \in req'[s] : p.live
    BY <1>1, <1>3 DEF Unheard, Quiet
<1> QED BY <1>2, <1>4, <1>5, <1>7, <1>8, <1>9 DEF Quiet

LEMMA EveryHandlerQuiet ==
    ASSUME CInv, AllQuiet, NEW s \in Slaves, Handler(s)
    PROVE  AllQuiet'
<1>1. Quiet(s)
    BY DEF AllQuiet
<1>2. CASE PollCheck(s)
  <2>1. PICK q \in req[s] :
            /\ q.kind = "poll"
            /\ IF ~FullUpdateNeeded(s) THEN Advance(s, q, "serving")
               ELSE IF bgNextSlave = NoSlave THEN Advance(s, q, "handoff")
               ELSE Respond(s, q, Reply("busy"))
      BY <1>2 DEF PollCheck
  <2>2. UNCHANGED <<master, writers, importer, bgPc, bgSlave, history>> /\ activity' = activity
      BY <1>2 DEF PollCheck, updater, master
  <2>3. ~FullUpdateNeeded(s) => activity[s] # "never"
      BY <1>1, QuietObsolete DEF FullUpdateNeeded
  <2>4. \/ Respond(s, q, Reply("busy"))
        \/ Advance(s, q, "handoff")
        \/ Advance(s, q, "serving") /\ activity[s] # "never"
      BY <2>1, <2>3
  <2>5. Quiet(s)'
      BY <1>1, <2>1, <2>2, <2>4, HandlerAnswers
  <2> QED BY <2>2, <2>5, HandlerQuiet
<1>3. CASE PollHandoff(s)
  <2>1. PICK q \in req[s] : Respond(s, q, Reply("processing"))
      BY <1>3 DEF PollHandoff
  <2>2. UNCHANGED <<master, writers, importer, bgPc, bgSlave, history>> /\ activity' = activity
      BY <1>3 DEF PollHandoff, master
  <2>3. Quiet(s)'
      BY <1>1, <2>1, <2>2, HandlerAnswers
  <2> QED BY <2>2, <2>3, HandlerQuiet
<1>4. CASE PollServe(s)
    BY <1>1, <1>4, ServeQuiet, HandlerQuiet
<1>5. CASE AckConfirm(s)
  <2>1. PICK q \in req[s] : q.kind = "ack" /\ Respond(s, q, Reply("OK"))
      BY <1>5 DEF AckConfirm
  <2>2. /\ lastSent' = [lastSent EXCEPT ![s] = Range0]
        /\ queue' = [queue EXCEPT ![s] = @ \ InRange(queue[s], lastSent[s])]
        /\ MarkAsUpToDate(s) /\ UNCHANGED <<nextId, writers, importer>>
      BY <1>5 DEF AckConfirm
  <2>3. Quiet(s)' /\ activity[s] # "never"
      BY <1>1, <2>1, <2>2, ConfirmQuiet
  <2> QED BY <2>3, HandlerQuiet
<1>6. CASE AckRefuse(s)
  <2>1. PICK q \in req[s] : Respond(s, q, Reply("ERROR"))
      BY <1>6 DEF AckRefuse
  <2>2. UNCHANGED <<master, writers, importer, bgPc, bgSlave, history>> /\ activity' = activity
      BY <1>6 DEF AckRefuse, updater, master
  <2>3. Quiet(s)'
      BY <1>1, <2>1, <2>2, HandlerAnswers
  <2> QED BY <2>2, <2>3, HandlerQuiet
<1> QED BY <1>2, <1>3, <1>4, <1>5, <1>6 DEF Handler

\* A step of the updater that leaves the queue of a slave alone.
LEMMA QuietUpdated ==
    ASSUME CInv, Updater, NEW s \in Slaves, Quiet(s), queue'[s] = queue[s],
           activity'[s] = activity[s] \/ activity'[s] = "recent",
           activity'[s] = "never" =>
                (queue[s] = {} /\ followed'[s] = {}) \/ BeingDumped(s)'
    PROVE  Quiet(s)'
<1>1. /\ UNCHANGED <<lastSent, wop, network, importer>> /\ nextId' \in Nat /\ nextId <= nextId'
    BY UpdaterLeaves
<1>2. UNCHANGED <<req, reply, spc, batch>>
    BY <1>1 DEF network, importer
<1>3. nextId \in Nat /\ lastSent[s].last \in Nat
    BY DEF CInv, IInv, TypeOK
<1>4. (InHand(s)' => InHand(s) /\ Sent(s)' = Sent(s)) /\ Unasked(s)' = Unasked(s)
    BY <1>2 DEF InHand, Sent, Unasked
<1>5. \A q \in req'[s] : q.live
    BY <1>2 DEF Quiet
<1>6. activity'[s] = "never" =>
                /\ Unasked(s)'
                /\ (queue[s] = {} /\ followed'[s] = {}) \/ BeingDumped(s)'
    BY <1>4 DEF Quiet, Unheard
<1> QED BY <1>1, <1>3, <1>4, <1>5, <1>6, QuietStays

\* The slave being dumped follows nothing yet of what is left to dump.
LEMMA UnheardDump ==
    ASSUME CInv, AllQuiet, bgPc \in {"collect", "delete", "lock", "dump", "number", "dispatch"}
    PROVE  /\ bgSlave \in Slaves /\ activity[bgSlave] = "never"
           /\ bgPc \in {"collect", "delete", "lock"} =>
                    queue[bgSlave] = {} /\ followed[bgSlave] = {}
<1>1. bgSlave \in Slaves /\ activity[bgSlave] = "never"
    BY DEF AllQuiet, DumpsUnheard, CInv, IInv, TypeOK, Processing
<1> QED BY <1>1 DEF AllQuiet, Quiet, Unheard, BeingDumped

\* Before the dump: nothing is in the queue of the slave, so nothing is deleted.
LEMMA DumpStarts ==
    ASSUME CInv, AllQuiet, ~ForceDump,
           BgTake \/ BgReset \/ BgTest \/ BgCollect \/ BgDelete \/ BgLock \/ BgUnlock
    PROVE  AllQuiet' /\ followed' = followed
<1>1. UNCHANGED <<nextId, activity, queue, db, wpc, wop>> /\ Updater
    BY DEF BgTake, BgReset, BgTest, BgCollect, BgDelete, BgLock, BgUnlock, Updater, master, writers
<1>2. followed' = followed /\ (bgPc # "number" /\ bgPc' # "number" => bgKept' = bgKept)
  <2>1. CASE BgDelete
    <3>1. bgItems = {} /\ Lose(bgSlave, TouchedBy(bgItems))
        BY <2>1 DEF BgDelete, AllQuiet, DumpsUnheard
    <3>2. TouchedBy(bgItems) = {}
        BY <3>1 DEF TouchedBy, Touching
    <3>3. followed' = [followed EXCEPT ![bgSlave] = followed[bgSlave] \ {}] /\ bgKept' = bgKept
        BY <3>1, <3>2 DEF Lose
    <3>4. bgSlave \in Slaves
        BY <2>1 DEF BgDelete, CInv, IInv, TypeOK, Processing
    <3> QED BY <3>3, <3>4 DEF CInv, IInv, TypeOK
  <2>2. CASE ~BgDelete
      BY <2>2 DEF BgTake, BgReset, BgTest, BgCollect, BgLock, BgUnlock, history
  <2> QED BY <2>1, <2>2
<1>3. \A s \in Slaves : Quiet(s) /\ (BeingDumped(s) => BeingDumped(s)')
    BY DEF AllQuiet, BgTake, BgReset, BgTest, BgCollect, BgDelete, BgLock, BgUnlock, BeingDumped
<1>4. ASSUME NEW s \in Slaves PROVE Quiet(s)'
    BY <1>1, <1>2, <1>3, QuietUpdated DEF Quiet, Unheard
<1>5. DumpsUnheard'
  <2>1. CASE BgTest
    <3>1. bgPc = "test" /\ bgPc' = (IF FullUpdateNeeded(bgSlave) THEN "collect" ELSE "mark")
          /\ bgSlave' = bgSlave /\ bgSlave \in Slaves
        BY <2>1 DEF BgTest, CInv, IInv, TypeOK, Processing
    <3>2. FullUpdateNeeded(bgSlave) => activity[bgSlave] = "never"
        BY <1>3, <3>1, QuietObsolete DEF FullUpdateNeeded
    <3> QED BY <1>1, <3>1, <3>2 DEF DumpsUnheard
  <2>2. CASE BgCollect
    <3>1. bgPc = "collect" /\ bgPc' = "delete" /\ bgItems' = queue[bgSlave] /\ bgSlave' = bgSlave
        BY <2>2 DEF BgCollect
    <3> QED BY <1>1, <3>1, UnheardDump DEF DumpsUnheard
  <2>3. CASE BgDelete
    <3>1. bgPc = "delete" /\ bgItems = {} /\ bgPc' = "lock" /\ bgSlave' = bgSlave
        BY <2>3 DEF BgDelete, AllQuiet, DumpsUnheard
    <3> QED BY <1>1, <3>1, UnheardDump DEF DumpsUnheard
  <2>4. CASE BgLock
    <3>1. bgPc = "lock" /\ bgPc' \in {"dump", "mark"} /\ bgSlave' = bgSlave
        BY <2>4 DEF BgLock
    <3> QED BY <1>1, <3>1, UnheardDump DEF DumpsUnheard
  <2>5. CASE BgTake \/ BgReset \/ BgUnlock
    <3>1. bgPc' \in {"took", "idle", "test", "mark"}
        BY <2>5 DEF BgTake, BgReset, BgUnlock
    <3> QED BY <3>1 DEF DumpsUnheard
  <2> QED BY <2>1, <2>2, <2>3, <2>4, <2>5
<1>6. DumpsOnce'
  <2>1. CASE BgLock
    <3>1. bgPc = "lock" /\ bgPc' \in {"dump", "mark"} /\ bgSlave' = bgSlave
        BY <2>1 DEF BgLock
    <3>2. followed'[bgSlave'] = {} /\ bgKept' = {}
        BY <1>2, <3>1, UnheardDump DEF CInv, IInv, ScratchEmpty
    <3> QED BY <3>1, <3>2 DEF DumpsOnce
  <2>2. CASE BgTake \/ BgReset \/ BgTest \/ BgCollect \/ BgDelete \/ BgUnlock
    <3>1. bgPc' \notin {"dump", "number", "dispatch"}
        BY <2>2 DEF BgTake, BgReset, BgTest, BgCollect, BgDelete, BgUnlock
    <3> QED BY <3>1 DEF DumpsOnce
  <2> QED BY <2>1, <2>2
<1>7. SavedAsWritten'
    BY <1>1 DEF AllQuiet, SavedAsWritten
<1> QED BY <1>2, <1>4, <1>5, <1>6, <1>7 DEF AllQuiet

\* A table is dumped once: the slave follows none of its rows before its items are saved.
LEMMA DumpGoesOn ==
    ASSUME CInv, AllQuiet, BgRead \/ BgNumber \/ BgSave
    PROVE  AllQuiet' /\ \A s \in Slaves : followed[s] \subseteq followed'[s]
<1>1. UNCHANGED <<activity, queue, db, wpc, wop, bgSlave>> /\ Updater
    BY DEF BgRead, ReadTable, BgNumber, BgSave, Updater, master, writers
<1>2. /\ bgPc \in {"dump", "number"} /\ bgPc' \in {"dump", "number", "dispatch"}
      /\ followed \in [Slaves -> SUBSET Rows] /\ bgLeft \subseteq Statement
    BY DEF BgRead, ReadTable, BgNumber, BgSave, CInv, IInv, TypeOK
<1>3. bgSlave \in Slaves /\ activity[bgSlave] = "never"
    BY <1>2, UnheardDump
<1>4. DumpsUnheard'
    BY <1>1, <1>2, <1>3 DEF DumpsUnheard
<1>5. DumpsOnce' /\ \A s \in Slaves : /\ followed[s] \subseteq followed'[s]
                                      /\ s # bgSlave => followed'[s] = followed[s]
  <2>1. CASE BgRead
    <3>1. PICK t \in bgTodo : /\ bgTodo' = bgTodo \ {t}
                              /\ bgLeft' = DumpStatements(RowsOf(t), db, ~Multimaster)
                              /\ bgKept' \subseteq RowsOf(t)
                              /\ bgPc = "dump" /\ UNCHANGED <<followed, bgItems>>
        BY <2>1 DEF BgRead, ReadTable
    <3>2. \A st \in bgLeft' : st.rows \subseteq RowsOf(t)
        BY <3>1 DEF DumpStatements
    <3>3. \A r \in RowsOf(t) : TableOf[r] = t
        BY DEF RowsOf
    <3>4. \A r \in followed[bgSlave] : TableOf[r] \notin bgTodo
        BY <3>1 DEF AllQuiet, DumpsOnce
    <3>5. \A r \in followed[bgSlave] : \A st \in bgLeft' : r \notin st.rows
        BY <3>1, <3>2, <3>3, <3>4
    <3>6. bgItems = {}
        BY <3>1 DEF CInv, IInv, ScratchEmpty
    <3> QED BY <1>1, <3>1, <3>3, <3>4, <3>5, <3>6 DEF DumpsOnce, ToNumber, Touching
  <2>2. CASE BgNumber
    <3>1. PICK st \in bgLeft :
            /\ bgLeft' = bgLeft \ {st}
            /\ bgItems' = bgItems \cup {[id |-> nextId, rows |-> st.rows, val |-> st.val]}
            /\ bgPc = "number" /\ UNCHANGED <<bgTodo, followed, bgKept>>
        BY <2>2 DEF BgNumber, history
    <3>2. ASSUME NEW r \in followed[bgSlave]
          PROVE  r \notin st.rows /\ ~ToNumber(r)' /\ Touching(bgItems, r) = {}
        BY <3>1, <3>2 DEF AllQuiet, DumpsOnce, ToNumber
    <3>3. \A r \in followed[bgSlave] : Touching(bgItems', r) = {}
        BY <3>1, <3>2 DEF Touching
    <3> QED BY <1>1, <3>1, <3>2, <3>3 DEF AllQuiet, DumpsOnce
  <2>3. CASE BgSave
    <3>1. /\ followed' = [followed EXCEPT ![bgSlave] = (@ \ TouchedBy(bgItems)) \cup bgKept]
          /\ bgPc = "number" /\ bgPc' # "number" /\ bgTodo' = bgTodo /\ bgKept' = {}
        BY <2>3 DEF BgSave, scratch
    <3>2. followed[bgSlave] \cap TouchedBy(bgItems) = {}
        BY <3>1 DEF AllQuiet, DumpsOnce, TouchedBy
    <3>3. followed'[bgSlave] = followed[bgSlave] \cup bgKept
        BY <1>2, <1>3, <3>1, <3>2
    <3>4. \A s \in Slaves \ {bgSlave} : followed'[s] = followed[s]
        BY <1>2, <3>1
    <3> QED BY <1>1, <3>1, <3>3, <3>4 DEF AllQuiet, DumpsOnce
  <2> QED BY <2>1, <2>2, <2>3
<1>6. ASSUME NEW s \in Slaves PROVE Quiet(s)'
  <2>1. Quiet(s) /\ (s = bgSlave => BeingDumped(s)') /\ (BeingDumped(s) => s = bgSlave)
      BY <1>1, <1>2 DEF AllQuiet, BeingDumped
  <2> QED BY <1>1, <1>5, <2>1, QuietUpdated DEF Quiet, Unheard
<1>7. SavedAsWritten'
    BY <1>1 DEF AllQuiet, SavedAsWritten
<1> QED BY <1>4, <1>5, <1>6, <1>7 DEF AllQuiet

\* The items of the dump are linked to a queue nobody has asked for yet.
LEMMA DumpLinks ==
    ASSUME CInv, AllQuiet, BgDispatch
    PROVE  AllQuiet' /\ followed' = followed
<1>1. /\ UNCHANGED <<db, nextId, activity, lastSent, wpc, wop, bgSlave, bgTodo, bgLeft, req, reply,
                     spc, batch, followed, bgKept>>
      /\ bgPc = "dispatch" /\ bgPc' \in {"dump", "dispatch"} /\ Updater
    BY DEF BgDispatch, writers, network, importer, history, Updater
<1>2. PICK i \in bgItems : queue' = [queue EXCEPT ![bgSlave] = @ \cup {i}]
    BY DEF BgDispatch
<1>3. bgSlave \in Slaves /\ activity[bgSlave] = "never"
    BY <1>1, UnheardDump
<1>4. DumpsUnheard'
    BY <1>1, <1>3 DEF DumpsUnheard
<1>5. DumpsOnce'
    BY <1>1 DEF AllQuiet, DumpsOnce
<1>6. ASSUME NEW s \in Slaves \ {bgSlave} PROVE Quiet(s)'
  <2>1. queue'[s] = queue[s] /\ Quiet(s) /\ ~BeingDumped(s)
      BY <1>2 DEF CInv, IInv, TypeOK, AllQuiet, BeingDumped
  <2> QED BY <1>1, <2>1, QuietUpdated DEF Quiet, Unheard
<1>7. ASSUME NEW s \in Slaves, s = bgSlave PROVE Quiet(s)'
  <2>1. Quiet(s) /\ Unasked(s) /\ \A w \in Writers : s \notin wop[w].to
      BY <1>3, <1>7 DEF AllQuiet, Quiet, Unheard
  <2>2. Unheard(s)'
      BY <1>1, <1>7, <2>1 DEF Unheard, Unasked, BeingDumped
  <2>3. ComesLast(s)'
      BY <1>1, <2>1 DEF Quiet, ComesLast
  <2>4. RangeInHand(s)'
      BY <1>1, <2>1 DEF RangeInHand, InHand, Unasked
  <2> QED BY <1>1, <2>1, <2>2, <2>3, <2>4 DEF Quiet
<1>8. SavedAsWritten'
    BY <1>1 DEF AllQuiet, SavedAsWritten
<1> QED BY <1>1, <1>4, <1>5, <1>6, <1>7, <1>8 DEF AllQuiet

LEMMA UpdaterQuiet ==
    ASSUME CInv, AllQuiet, ~ForceDump, Updater
    PROVE  AllQuiet' /\ \A s \in Slaves : followed[s] \subseteq followed'[s]
<1>1. ~BgErase
    BY DEF BgErase, AllQuiet, DumpsUnheard
<1>2. CASE BgMark
  <2>1. /\ UNCHANGED <<queue, db, wpc, wop, followed>> /\ bgPc' = "idle" /\ bgPc = "mark"
        /\ activity' = [activity EXCEPT ![bgSlave] = "recent"]
      BY <1>2 DEF BgMark, MarkAsUpToDate, writers, history
  <2>2. ASSUME NEW s \in Slaves PROVE Quiet(s)'
    <3>1. activity'[s] = IF s = bgSlave THEN "recent" ELSE activity[s]
        BY <2>1 DEF CInv, IInv, TypeOK
    <3>2. Quiet(s) /\ (BeingDumped(s) => s = bgSlave)
        BY DEF AllQuiet, BeingDumped
    <3> QED BY <2>1, <3>1, <3>2, QuietUpdated DEF Quiet, Unheard
  <2>3. DumpsUnheard' /\ DumpsOnce'
      BY <2>1 DEF DumpsUnheard, DumpsOnce
  <2>4. SavedAsWritten'
      BY <2>1 DEF AllQuiet, SavedAsWritten
  <2> QED BY <2>1, <2>2, <2>3, <2>4 DEF AllQuiet
<1> QED BY <1>1, <1>2, DumpStarts, DumpGoesOn, DumpLinks DEF Updater

\* A step of an importer keeps in hand what it had, or lets it go.
LEMMA ImporterQuiet ==
    ASSUME CInv, NEW s \in Slaves, Quiet(s), Importer(s)
    PROVE  Quiet(s)'
<1>1. UNCHANGED <<master, writers, updater, history>>
    BY DEF Importer, StartPoll, ReceiveNothing, ReceiveContent, SendAck, ReceiveOK, ReceiveError,
           ReceiveFailure, ApplyBatch
<1>2. /\ UNCHANGED <<nextId, queue, lastSent, activity, wop, bgSlave, bgPc, followed>>
      /\ nextId \in Nat /\ lastSent[s].last \in Nat
      /\ req \in [Slaves -> SUBSET RequestType] /\ batch \in [Slaves -> SUBSET Item]
      /\ reply \in [Slaves -> [kind : ReplyKinds, items : SUBSET Item]]
      /\ spc \in [Slaves -> {"idle", "polling", "ready", "acking", "applying"}]
    BY <1>1 DEF master, writers, updater, history, CInv, IInv, TypeOK
<1>3. OneLiveRequest(s) /\ \A q \in req[s] : q.live
    BY DEF CInv, Followed, Quiet
<1>4. activity[s] = "never" =>
            Unasked(s) /\ ((queue[s] = {} /\ followed'[s] = {}) \/ BeingDumped(s)')
    BY <1>2 DEF Quiet, Unheard, BeingDumped
<1> DEFINE Goes == /\ \A q \in req'[s] : q.live
                   /\ InHand(s)' => InHand(s) /\ Sent(s)' = Sent(s)
                   /\ Unasked(s) => Unasked(s)'
<1>5. ASSUME StartPoll(s) PROVE Goes
  <2> DEFINE poll == Poll(TRUE, "arrived")
  <2>1. /\ spc[s] = "idle" /\ spc'[s] = "polling" /\ reply' = reply
        /\ req'[s] = req[s] \cup {poll} /\ reply[s].kind = "none"
      BY <1>2, <1>3, <1>5 DEF StartPoll, ImporterStep, OneLiveRequest
  <2>2. poll.kind = "poll" /\ poll.live /\ poll.step = "arrived"
      BY DEF Poll
  <2> HIDE DEF poll
  <2> QED BY <1>3, <2>1, <2>2 DEF InHand, Unasked
<1>6. ASSUME SendAck(s) PROVE Goes
  <2> DEFINE ack == Ack(RangeOf(batch[s]), TRUE)
  <2>1. /\ spc[s] = "ready" /\ spc'[s] = "acking" /\ reply' = reply /\ batch' = batch
        /\ req'[s] = req[s] \cup {ack}
      BY <1>2, <1>6 DEF SendAck, ImporterStep
  <2>2. ack.live
      BY DEF Ack
  <2> HIDE DEF ack
  <2> QED BY <1>3, <2>1, <2>2 DEF InHand, Sent, OneLiveRequest, Unasked
<1>7. ASSUME ReceiveContent(s) PROVE Goes
  <2>1. /\ spc[s] = "polling" /\ spc'[s] = "ready" /\ req' = req
        /\ reply[s].kind = "content" /\ batch'[s] = reply[s].items
      BY <1>2, <1>7 DEF ReceiveContent, ImporterStep, TakeReply
  <2> QED BY <1>3, <2>1 DEF InHand, Sent, Unasked
<1>8. ASSUME ReceiveOK(s) PROVE Goes
  <2>1. spc[s] = "acking" /\ spc'[s] = "applying" /\ req' = req
      BY <1>2, <1>8 DEF ReceiveOK, ImporterStep
  <2> QED BY <1>3, <2>1 DEF InHand, Unasked
<1>9. ASSUME ReceiveNothing(s) \/ ReceiveError(s) \/ ReceiveFailure(s) \/ ApplyBatch(s) PROVE Goes
  <2>1. spc'[s] = "idle" /\ req' = req
      BY <1>2, <1>9 DEF ReceiveNothing, ReceiveError, ReceiveFailure, ApplyBatch, ImporterStep,
                        network
  <2>2. reply'[s] = reply[s] \/ reply'[s].kind = "none"
      BY <1>2, <1>9 DEF ReceiveNothing, ReceiveError, ReceiveFailure, ApplyBatch, TakeReply,
                        NoReply, network
  <2> QED BY <1>3, <2>1, <2>2 DEF InHand, Unasked
<1>10. Goes
    BY <1>5, <1>6, <1>7, <1>8, <1>9 DEF Importer
<1> QED BY <1>2, <1>4, <1>10, QuietStays

\* Steps that leave the master, its writers and its updater alone.
LEMMA OtherQuiet ==
    ASSUME CInv, AllQuiet,
           \/ \E s \in Slaves : Importer(s) \/ LoseRequest(s)
           \/ OtherImportStarts \/ OtherImportEnds \/ UNCHANGED vars
    PROVE  AllQuiet'
<1>1. UNCHANGED <<master, writers, bgPc, bgSlave, scratch, history>>
    BY DEF Importer, StartPoll, ReceiveNothing, ReceiveContent, SendAck, ReceiveOK, ReceiveError,
           ReceiveFailure, ApplyBatch, LoseRequest, OtherImportStarts, OtherImportEnds,
           vars, updater
<1>2. UNCHANGED <<db, nextId, queue, lastSent, activity, wpc, wop, followed, bgKept>> /\ nextId \in Nat
    BY <1>1 DEF master, writers, history, CInv, IInv, TypeOK
<1>3. DumpsUnheard' /\ DumpsOnce'
    BY <1>1, <1>2, DumpQuiet
<1>4. SavedAsWritten' /\ \A t \in Slaves : BeingDumped(t)' = BeingDumped(t)
    BY <1>1, <1>2 DEF AllQuiet, SavedAsWritten, BeingDumped
<1>5. ASSUME NEW s \in Slaves, Importer(s), NEW t \in Slaves PROVE Quiet(t)'
  <2>1. CASE t = s
      BY <1>5, <2>1, ImporterQuiet DEF AllQuiet
  <2>2. CASE t # s
    <3> USE <1>5 DEF Importer, StartPoll, ReceiveNothing, ReceiveContent, SendAck, ReceiveOK,
                ReceiveError, ReceiveFailure, ApplyBatch, ImporterStep, TakeReply
    <3>1. req'[t] = req[t]
        BY <2>2 DEF network, CInv, IInv, TypeOK
    <3>2. reply'[t] = reply[t]
        BY <2>2 DEF network, CInv, IInv, TypeOK
    <3>3. spc \in [Slaves -> {"idle", "polling", "ready", "acking", "applying"}]
          /\ batch \in [Slaves -> SUBSET Item]
        BY DEF CInv, IInv, TypeOK
    <3>4. spc'[t] = spc[t]
        BY <2>2, <3>3
    <3>5. batch'[t] = batch[t]
        BY <2>2, <3>3
    <3> QED BY <1>1, <1>2, <1>4, <3>1, <3>2, <3>4, <3>5, QuietElsewhere DEF AllQuiet
  <2> QED BY <2>1, <2>2
<1>6. ASSUME ~\E s \in Slaves : Importer(s), NEW t \in Slaves PROVE Quiet(t)'
  <2>1. UNCHANGED <<reply, spc, batch>>
      BY <1>6 DEF LoseRequest, OtherImportStarts, OtherImportEnds, vars, network, importer
  <2>2. req'[t] \subseteq req[t]
      BY <1>6 DEF LoseRequest, OtherImportStarts, OtherImportEnds, vars, network, CInv, IInv, TypeOK
  <2> QED BY <1>1, <1>2, <1>4, <2>1, <2>2, QuietElsewhere DEF AllQuiet
<1> QED BY <1>3, <1>4, <1>5, <1>6 DEF AllQuiet

LEMMA InitCalm == Init => CalmInv
<1> SUFFICES ASSUME Init PROVE CalmInv
    OBVIOUS
<1>1. CInv
    BY InitFollowed
<1>2. \A w \in Writers : wop[w].to = {} /\ wpc[w] = "idle"
    BY IdleOpType DEF Init
<1>3. ASSUME NEW s \in Slaves PROVE Quiet(s)
  <2>1. /\ queue[s] = {} /\ activity[s] = "never" /\ req[s] = {} /\ spc[s] = "idle"
        /\ reply[s].kind = "none" /\ lastSent[s].last = 0 /\ nextId = 1 /\ followed[s] = {}
      BY DEF Init, NoReply, Range0
  <2> QED BY <1>2, <2>1 DEF Quiet, Unheard, Unasked, ComesLast, RangeInHand, InHand
<1>4. DumpsUnheard /\ DumpsOnce /\ SavedAsWritten
    BY <1>2 DEF Init, DumpsUnheard, DumpsOnce, SavedAsWritten
<1> QED BY <1>1, <1>3, <1>4 DEF CalmInv, AllQuiet

LEMMA NextCalm ==
    ASSUME ~ForceDump, NEW w \in Writers, Writers = {w}
    PROVE  CalmInv /\ [Next]_vars => CalmInv'
<1> SUFFICES ASSUME CalmInv, [Next]_vars PROVE CalmInv'
    OBVIOUS
<1>1. CInv /\ IInv /\ CInv'
    BY NextCInv DEF CalmInv, CInv
<1> SUFFICES ASSUME Calm' PROVE AllQuiet'
    BY <1>1 DEF CalmInv
<1>2. CASE UNCHANGED vars
  <2>1. Calm
      BY <1>2 DEF vars, Calm
  <2> QED BY <1>1, <1>2, <2>1, OtherQuiet DEF CalmInv
<1>3. CASE Next
  <2>1. AllQuiet
      BY <1>1, <1>3, CalmStep DEF CalmInv
  <2>2. \/ WriterStep(w)
        \/ \E s \in Slaves : Handler(s) \/ Importer(s) \/ LoseRequest(s)
        \/ Updater \/ OtherImportStarts \/ OtherImportEnds
      BY <1>1, <1>3, CalmStep
  <2> QED BY <1>1, <2>1, <2>2, WriterQuiet, EveryHandlerQuiet, UpdaterQuiet, OtherQuiet
<1> QED BY <1>2, <1>3

-----------------------------------------------------------------------------

LEMMA ClearedAsSent ==
    ASSUME CInv, AllQuiet, Next, Calm', NEW s \in Slaves,
           reply[s].kind # "OK", reply'[s].kind = "OK"
    PROVE  queue[s] \ queue'[s] = batch[s]
<1>1. /\ reply \in [Slaves -> [kind : ReplyKinds, items : SUBSET Item]]
      /\ queue \in [Slaves -> SUBSET Item] /\ IInv /\ Quiet(s)
    BY DEF CInv, IInv, TypeOK, AllQuiet
<1>2. ASSUME NEW w \in Writers PROVE ~WriterStep(w)
    BY DEF WriterStep, Prepare, DirectSave, Commit, Dispatch, Rollback, DirectEnqueue, Enqueue,
           network
<1>3. ~Updater
    BY UpdaterLeaves DEF network
<1>4. ~(OtherImportStarts \/ OtherImportEnds)
    BY DEF OtherImportStarts, OtherImportEnds, network
<1>5. ASSUME NEW t \in Slaves, Importer(t) \/ LoseRequest(t) PROVE FALSE
  <2>1. reply' = reply \/ reply' = [reply EXCEPT ![t] = NoReply]
      BY <1>5 DEF Importer, StartPoll, ReceiveNothing, ReceiveContent, SendAck, ReceiveOK,
          ReceiveError, ReceiveFailure, ApplyBatch, LoseRequest, TakeReply, network
  <2> QED BY <1>1, <2>1 DEF NoReply
<1>6. ASSUME NEW t \in Slaves, NEW q \in req[t], NEW r, Respond(t, q, r) PROVE t = s /\ r.kind = "OK"
    BY <1>1, <1>6 DEF Respond
<1>7. ASSUME NEW t \in Slaves, PollCheck(t) \/ PollHandoff(t) \/ PollServe(t) \/ AckRefuse(t)
      PROVE  FALSE
    BY <1>6, <1>7 DEF PollCheck, PollHandoff, PollServe, AckRefuse, Advance, Reply, ContentReply
<1>8. PICK t \in Slaves : AckConfirm(t)
    BY <1>1, <1>2, <1>3, <1>4, <1>5, <1>7, CalmStep DEF Handler
<1>9. PICK q \in req[t] : q.kind = "ack" /\ Respond(t, q, Reply("OK"))
    BY <1>8 DEF AckConfirm
<1>10. /\ t = s
       /\ lastSent' = [lastSent EXCEPT ![t] = Range0]
       /\ queue' = [queue EXCEPT ![t] = @ \ InRange(queue[t], lastSent[t])]
       /\ MarkAsUpToDate(t) /\ UNCHANGED <<nextId, writers, importer>>
    BY <1>6, <1>8, <1>9 DEF AckConfirm
<1>11. InRange(queue[s], lastSent[s]) = batch[s]
    BY <1>1, <1>9, <1>10, ConfirmQuiet
<1>12. InRange(queue[s], lastSent[s]) \subseteq queue[s]
    BY DEF InRange
<1> QED BY <1>1, <1>10, <1>11, <1>12

\* The items an acknowledgement removes from a queue are those its importer holds and will
\* now apply: the range kept by the last poll still designates them, although items were
\* linked since, as long as one writer fills the queue and no incident occurs.
THEOREM AcksClearWhatWasSent ==
    ASSUME ~ForceDump, \E w \in Writers : Writers = {w}
    PROVE  Spec => AckClearsWhatWasSent
<1>1. PICK w \in Writers : Writers = {w}
    OBVIOUS
<1>2. CalmInv /\ [Next]_vars => CalmInv'
    BY <1>1, NextCalm
<1>3. CalmInv /\ [Next]_vars =>
        [\A s \in Slaves :
            NoIncident /\ reply[s].kind # "OK" /\ reply'[s].kind = "OK" =>
                queue[s] \ queue'[s] = batch[s]]_vars
  <2> SUFFICES ASSUME CalmInv, Next, NEW s \in Slaves, NoIncident,
                      reply[s].kind # "OK", reply'[s].kind = "OK"
               PROVE  queue[s] \ queue'[s] = batch[s]
      OBVIOUS
  <2>1. Calm' /\ CInv /\ IInv
      BY DEF NoIncident, Calm, CalmInv, CInv
  <2>2. AllQuiet
      BY <2>1, CalmStep DEF CalmInv
  <2> QED BY <2>1, <2>2, ClearedAsSent
<1> QED BY <1>2, <1>3, InitCalm, PTL DEF Spec, AckClearsWhatWasSent

LEMMA MissedByObsolete ==
    ASSUME CInv, AllQuiet, Next, Calm', ~ForceDump, NEW w \in Writers, Writers = {w},
           NEW s \in Slaves, NEW r \in followed[s] \ followed'[s]
    PROVE  Modifies(w) /\ wop[w].row = r /\ s \notin QueuedFor(w)
<1>1. /\ wop \in [Writers -> OpType] /\ wpc \in [Writers -> WpcType]
      /\ queue \in [Slaves -> SUBSET Item] /\ followed \in [Slaves -> SUBSET Rows]
      /\ IInv /\ Quiet(s) /\ Coming(s) \in SUBSET Item
    BY StoredType DEF CInv, IInv, TypeOK, AllQuiet, OpType, WpcType
<1>2. followed' # followed
    OBVIOUS
<1>3. CASE Commit(w)
  <2>1. /\ followed'[s] = IF s \in wop[w].to /\ ~Overtaken(s, wop[w].row, wop[w].id)
                          THEN followed[s] ELSE followed[s] \ {wop[w].row}
        /\ Stores(w, wop[w]) /\ wpc[w] = "prepared"
      BY <1>3 DEF Commit
  <2>2. s \in wop[w].to => ~Overtaken(s, wop[w].row, wop[w].id)
    <3> SUFFICES ASSUME s \in wop[w].to, NEW j \in queue[s] \cup Coming(s), j.id > wop[w].id
                 PROVE  FALSE
        BY DEF Overtaken
    <3>1. Coming(s) = {}
      <4>1. Dispatching(s) = {}
          BY <2>1 DEF Dispatching
      <4>2. activity[s] # "never"
          BY <1>1 DEF Quiet, Unheard
      <4>3. BgItems(s, {"number", "dispatch"}) = {}
          BY <4>2 DEF AllQuiet, DumpsUnheard, BgItems
      <4> QED BY <4>1, <4>3 DEF Coming
    <3>2. j.id < wop[w].id
        BY <1>1, <3>1 DEF Quiet, ComesLast
    <3>3. j.id \in Nat /\ wop[w].id \in Nat
        BY <1>1 DEF Item, OpType
    <3> QED BY <3>2, <3>3
  <2>3. s \notin wop[w].to /\ r = wop[w].row
      BY <2>1, <2>2
  <2>4. Modifies(w)
      BY <1>1, <2>1 DEF Stores, Modifies
  <2> QED BY <2>1, <2>3, <2>4 DEF QueuedFor
<1>4. CASE DirectEnqueue(w)
  <2>1. PICK op : op = [wop[w] EXCEPT !.id = nextId, !.to = Receivers]
      OBVIOUS
  <2>2. op.row = wop[w].row /\ op.val = wop[w].val
      BY <1>1, <2>1 DEF OpType
  <2>3. wpc[w] = "saved" /\ Stores(w, op)
      BY <1>4, <2>1 DEF DirectEnqueue, Enqueue
  <2>4. db[op.row] = op.val
      BY <2>2, <2>3 DEF AllQuiet, SavedAsWritten
  <2>5. followed'[s] = IF s \in Receivers THEN followed[s] ELSE followed[s] \ {op.row}
      BY <1>4, <2>1, <2>4 DEF DirectEnqueue, Enqueue
  <2>6. s \notin Receivers /\ r = wop[w].row
      BY <2>2, <2>5
  <2>7. Modifies(w)
      BY <1>1, <2>3 DEF Stores, Modifies
  <2> QED BY <2>3, <2>6, <2>7 DEF QueuedFor
<1>5. ASSUME NEW t \in Slaves, AckConfirm(t) PROVE FALSE
  <2>1. PICK cleared : cleared = InRange(queue[t], lastSent[t])
      OBVIOUS
  <2>2. PICK q \in req[t] : /\ q.kind = "ack" /\ Respond(t, q, Reply("OK"))
                            /\ Lose(t, Mishandled(t, q, cleared))
      BY <1>5, <2>1 DEF AckConfirm
  <2>3. /\ lastSent' = [lastSent EXCEPT ![t] = Range0]
        /\ queue' = [queue EXCEPT ![t] = @ \ InRange(queue[t], lastSent[t])]
        /\ MarkAsUpToDate(t) /\ UNCHANGED <<nextId, writers, importer>> /\ Quiet(t)
      BY <1>5 DEF AckConfirm, AllQuiet
  <2>4. q.live /\ cleared = batch[t]
      BY <2>1, <2>2, <2>3, ConfirmQuiet
  <2>5. Mishandled(t, q, cleared) = {}
      BY <2>4 DEF Mishandled
  <2>6. followed' = [followed EXCEPT ![t] = followed[t] \ {}]
      BY <2>2, <2>5 DEF Lose
  <2> QED BY <1>1, <1>2, <2>6
<1>6. ASSUME NEW t \in Slaves, PollServe(t) PROVE FALSE
  <2>1. PICK sent : sent = FirstItems(queue[t], MaxQueriesNumber)
      OBVIOUS
  <2>2. Lose(t, LeftBehind(t, sent)) /\ sent \subseteq queue[t]
      BY <1>6, <2>1 DEF PollServe, FirstItems
  <2>3. activity[t] # "never" /\ Coming(t) \in SUBSET Item
      BY <1>1, <1>6, ServeQuiet, StoredType DEF AllQuiet, IInv
  <2>4. \A i \in Coming(t), j \in sent : j.id < i.id /\ i.id \in Nat /\ j.id \in Nat
      BY <1>1, <2>2, <2>3, NothingLeftBehind DEF Item
  <2>5. LeftBehind(t, sent) = {}
      BY <2>4 DEF LeftBehind
  <2>6. followed' = [followed EXCEPT ![t] = followed[t] \ {}]
      BY <2>2, <2>5 DEF Lose
  <2> QED BY <1>1, <1>2, <2>6
<1>7. ~Updater
    BY UpdaterQuiet
<1>8. /\ ~Rollback(w) /\ ~Dispatch(w)
      /\ \A o \in Rows, v \in Content : ~Prepare(w, o, v) /\ ~DirectSave(w, o, v)
    BY <1>2 DEF Prepare, Rollback, Dispatch, DirectSave, history
<1>9. ASSUME NEW t \in Slaves
      PROVE  ~(PollCheck(t) \/ PollHandoff(t) \/ AckRefuse(t) \/ LoseRequest(t))
    BY <1>2 DEF PollCheck, PollHandoff, AckRefuse, LoseRequest, history
<1>10. ASSUME NEW t \in Slaves PROVE ~Importer(t)
    BY <1>2 DEF Importer, StartPoll, ReceiveNothing, ReceiveContent, SendAck, ReceiveOK,
          ReceiveError, ReceiveFailure, ApplyBatch, history
<1>11. ~(OtherImportStarts \/ OtherImportEnds)
    BY <1>2 DEF OtherImportStarts, OtherImportEnds, history
<1> QED BY <1>1, <1>3, <1>4, <1>5, <1>6, <1>7, <1>8, <1>9, <1>10, <1>11, CalmStep
        DEF WriterStep, Handler

\* With one writer, no other than a modification decided while the slave is obsolete makes
\* it lose a row it follows: no dump empties a queue with items in it or takes back a row, no
\* acknowledgement clears what is not in hand, no modification is overtaken, whether it is
\* committed, being linked or linked already.
THEOREM OnlyObsoleteMissWrites ==
    ASSUME ~ForceDump, \E w \in Writers : Writers = {w}
    PROVE  Spec => OnlyObsoleteSlavesMissWrites
<1>1. PICK only \in Writers : Writers = {only}
    OBVIOUS
<1>2. CalmInv /\ [Next]_vars => CalmInv'
    BY <1>1, NextCalm
<1>3. CalmInv /\ [Next]_vars =>
        [\A s \in Slaves : \A r \in followed[s] \ followed'[s] :
            NoIncident =>
                \E w \in Writers :
                    Modifies(w) /\ wop[w].row = r /\ s \notin QueuedFor(w)]_vars
  <2> SUFFICES ASSUME CalmInv, Next, NEW s \in Slaves, NEW r \in followed[s] \ followed'[s],
                      NoIncident
               PROVE  \E w \in Writers :
                        Modifies(w) /\ wop[w].row = r /\ s \notin QueuedFor(w)
      OBVIOUS
  <2>1. Calm' /\ CInv /\ IInv
      BY DEF NoIncident, Calm, CalmInv, CInv
  <2>2. AllQuiet
      BY <2>1, CalmStep DEF CalmInv
  <2> QED BY <1>1, <2>1, <2>2, MissedByObsolete
<1> QED BY <1>2, <1>3, InitCalm, PTL DEF Spec, OnlyObsoleteSlavesMissWrites

=============================================================================
