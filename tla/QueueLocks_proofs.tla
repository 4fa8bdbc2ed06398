------------------------- MODULE QueueLocks_proofs --------------------------
(***************************************************************************)
(* The locks of the replication code, for any threads and slaves: what     *)
(* each thread owns is what its operation has still to release; and the    *)
(* operations that take the locks in one order cannot wait in a circle.    *)
(***************************************************************************)
EXTENDS QueueLocks, NatLemmas

Nothing == [l \in Locks |-> 0]

\* Orders of the kinds of mutexes: that in which the writers and the background updater
\* take them, and that in which the services for the slaves do.
Orders == [{"change", "table", "queue"} -> 1 .. 3]
WritersOrder == [k \in {"change", "table", "queue"} |->
                    IF k = "change" THEN 1 ELSE IF k = "table" THEN 2 ELSE 3]
HandlersOrder == [k \in {"change", "table", "queue"} |->
                    IF k = "queue" THEN 1 ELSE IF k = "change" THEN 2 ELSE 3]

Rank(order, l) == order[l[1]]

\* How many times each lock is owned before each step of q, if nothing is owned after it.
Annotates(h, q) ==
    /\ h \in [1 .. Len(q) + 1 -> [Locks -> Nat]]
    /\ h[Len(q) + 1] = Nothing
    /\ \A i \in 1 .. Len(q) :
        IF q[i].do = "take" THEN h[i + 1] = [h[i] EXCEPT ![q[i].lock] = @ + 1]
        ELSE h[i][q[i].lock] > 0 /\ h[i + 1] = [h[i] EXCEPT ![q[i].lock] = @ - 1]

\* A lock that the thread takes comes after those that it owns, unless it owns that one.
InOrder(e, lock, order) ==
    e[lock] > 0 \/ \A l \in Locks : e[l] > 0 => Rank(order, l) < Rank(order, lock)

\* So is each lock that q takes, except those in `free`, owned around q.
Rises(h, q, order, free) ==
    \A i \in 1 .. Len(q) : q[i].do = "take" =>
        q[i].lock \in free \/ InOrder(h[i], q[i].lock, order)

\* q releases what it takes, and takes it in order.
Balanced(q, order, free) ==
    /\ q \in Seq(Step)
    /\ \E h : Annotates(h, q) /\ h[1] = Nothing /\ Rises(h, q, order, free)

-----------------------------------------------------------------------------
(* Operations. *)

LEMMA EmptyBalanced ==
    ASSUME NEW order, NEW free
    PROVE  Balanced(<<>>, order, free)
<1> DEFINE h == [i \in 1 .. 1 |-> Nothing]
<1>1. Nothing \in [Locks -> Nat]
    BY DEF Nothing
<1>2. Annotates(h, <<>>) /\ h[1] = Nothing /\ Rises(h, <<>>, order, free)
    BY <1>1 DEF Annotates, Rises
<1> QED BY <1>2 DEF Balanced

\* One thing after the other.
LEMMA ThenBalanced ==
    ASSUME NEW a, NEW b, NEW order, NEW free, Balanced(a, order, free), Balanced(b, order, free)
    PROVE  Balanced(a \o b, order, free)
<1>1. a \in Seq(Step) /\ b \in Seq(Step)
    BY DEF Balanced
<1>2. PICK f : Annotates(f, a) /\ f[1] = Nothing /\ Rises(f, a, order, free)
    BY DEF Balanced
<1>3. PICK g : Annotates(g, b) /\ g[1] = Nothing /\ Rises(g, b, order, free)
    BY DEF Balanced
<1> DEFINE n == Len(a)
           m == Len(b)
           q == a \o b
           h == [i \in 1 .. n + m + 1 |-> IF i <= n THEN f[i] ELSE g[i - n]]
<1>4. /\ n \in Nat /\ m \in Nat /\ q \in Seq(Step) /\ Len(q) = n + m
      /\ \A i \in 1 .. n : q[i] = a[i]
      /\ \A i \in 1 .. m : q[n + i] = b[i]
    BY <1>1
<1>5. /\ f \in [1 .. n + 1 -> [Locks -> Nat]] /\ g \in [1 .. m + 1 -> [Locks -> Nat]]
      /\ f[n + 1] = Nothing /\ g[m + 1] = Nothing
    BY <1>2, <1>3 DEF Annotates
<1> HIDE DEF n, m, q
<1>6. h \in [1 .. Len(q) + 1 -> [Locks -> Nat]]
  <2>1. \A i \in 1 .. n + m + 1 : i <= n \/ i - n \in 1 .. m + 1
      BY <1>4
  <2>2. \A i \in 1 .. n + m + 1 : h[i] \in [Locks -> Nat]
      BY <1>4, <1>5, <2>1
  <2> QED BY <1>4, <2>2
<1>7. h[1] = Nothing /\ h[Len(q) + 1] = Nothing
    BY <1>2, <1>3, <1>4, <1>5
<1>8. ASSUME NEW i \in 1 .. n PROVE h[i] = f[i] /\ h[i + 1] = f[i + 1] /\ i \in 1 .. Len(q)
    BY <1>3, <1>4, <1>5, <1>8
<1>9. ASSUME NEW i \in 1 .. m PROVE h[n + i] = g[i] /\ h[n + i + 1] = g[i + 1]
  <2>1. n + i \in 1 .. n + m + 1 /\ ~(n + i <= n) /\ (n + i) - n = i
      BY <1>4
  <2>2. n + i + 1 \in 1 .. n + m + 1 /\ ~(n + i + 1 <= n) /\ (n + i + 1) - n = i + 1
      BY <1>4
  <2> QED BY <2>1, <2>2
<1> HIDE DEF h
<1>10. ASSUME NEW i \in 1 .. Len(q)
       PROVE  /\ IF q[i].do = "take" THEN h[i + 1] = [h[i] EXCEPT ![q[i].lock] = @ + 1]
                 ELSE h[i][q[i].lock] > 0 /\ h[i + 1] = [h[i] EXCEPT ![q[i].lock] = @ - 1]
              /\ q[i].do = "take" =>
                    q[i].lock \in free \/ InOrder(h[i], q[i].lock, order)
  <2>1. CASE i \in 1 .. n
    <3>1. h[i] = f[i] /\ h[i + 1] = f[i + 1] /\ q[i] = a[i]
        BY <1>4, <1>8, <2>1
    <3> QED BY <1>2, <2>1, <3>1 DEF Annotates, Rises, n
  <2>2. CASE i \notin 1 .. n
    <3>1. PICK j \in 1 .. m : i = n + j
      <4>1. i - n \in 1 .. m /\ i = n + (i - n)
          BY <1>4, <2>2
      <4> QED BY <4>1
    <3>2. h[i] = g[j] /\ h[i + 1] = g[j + 1] /\ q[i] = b[j]
        BY <1>4, <1>9, <3>1
    <3> QED BY <1>3, <3>2 DEF Annotates, Rises, m
  <2> QED BY <2>1, <2>2
<1>11. Annotates(h, q)
    BY <1>6, <1>7, <1>10 DEF Annotates
<1>12. Rises(h, q, order, free)
    BY <1>10 DEF Rises
<1> QED BY <1>4, <1>7, <1>11, <1>12 DEF Balanced, q

\* The steps of a scope.
LEMMA ScopedSteps ==
    ASSUME NEW lock \in Locks, NEW q \in Seq(Step)
    PROVE  /\ Scoped(lock, q) \in Seq(Step) /\ Len(Scoped(lock, q)) = Len(q) + 2
           /\ Scoped(lock, q)[1] = [do |-> "take", lock |-> lock]
           /\ Scoped(lock, q)[Len(q) + 2] = [do |-> "give", lock |-> lock]
           /\ \A i \in 1 .. Len(q) : Scoped(lock, q)[i + 1] = q[i]
<1> DEFINE n == Len(q)
           take == [do |-> "take", lock |-> lock]
           give == [do |-> "give", lock |-> lock]
           r == <<take>> \o q
<1>1. n \in Nat /\ take \in Step /\ give \in Step
    BY DEF Step
<1>2. Scoped(lock, q) = r \o <<give>>
    BY DEF Scoped
<1> HIDE DEF take, give
<1>3. <<take>> \in Seq(Step) /\ Len(<<take>>) = 1 /\ <<take>>[1] = take
    BY <1>1
<1>4. r \in Seq(Step) /\ Len(r) = n + 1 /\ r[1] = take /\ \A i \in 1 .. n : r[i + 1] = q[i]
    BY <1>3
<1>5. <<give>> \in Seq(Step) /\ Len(<<give>>) = 1 /\ <<give>>[1] = give
    BY <1>1
<1> HIDE DEF r, n
<1> DEFINE p == r \o <<give>>
<1>6. p \in Seq(Step) /\ Len(p) = n + 2 /\ p[n + 2] = give /\ \A i \in 1 .. n + 1 : p[i] = r[i]
    BY <1>1, <1>4, <1>5
<1> HIDE DEF p
<1>7. p[1] = take /\ \A i \in 1 .. n : p[i + 1] = q[i]
    BY <1>1, <1>4, <1>6
<1> QED BY <1>2, <1>6, <1>7 DEF p, n, take, give

\* A scope inside of which the locks that are taken come later.
LEMMA ScopedBalanced ==
    ASSUME NEW lock \in Locks, NEW q, NEW order, NEW free, Balanced(q, order, free \cup {lock}),
           \A i \in 1 .. Len(q) :
                q[i].lock \in free \cup {lock} \/ Rank(order, lock) < Rank(order, q[i].lock)
    PROVE  Balanced(Scoped(lock, q), order, free)
<1> DEFINE n == Len(q)
           take == [do |-> "take", lock |-> lock]
           give == [do |-> "give", lock |-> lock]
           p == Scoped(lock, q)
<1>1. q \in Seq(Step) /\ n \in Nat
    BY DEF Balanced
<1>2. PICK f : Annotates(f, q) /\ f[1] = Nothing /\ Rises(f, q, order, free \cup {lock})
    BY DEF Balanced
<1>5. /\ take.do = "take" /\ give.do = "give" /\ take.lock = lock /\ give.lock = lock
    OBVIOUS
<1>6. /\ p \in Seq(Step) /\ Len(p) = n + 2 /\ p[1] = take /\ p[n + 2] = give
      /\ \A i \in 1 .. n : p[i + 1] = q[i]
    BY <1>1, ScopedSteps
<1> HIDE DEF take, give, p
<1>7. /\ f \in [1 .. n + 1 -> [Locks -> Nat]] /\ f[n + 1] = Nothing
      /\ Nothing \in [Locks -> Nat]
    BY <1>2 DEF Annotates, Nothing
<1> HIDE DEF n
<1> DEFINE More(e) == [e EXCEPT ![lock] = @ + 1]
           h == [i \in 1 .. n + 3 |-> IF i = 1 \/ i = n + 3 THEN Nothing ELSE More(f[i - 1])]
<1>8. \A e \in [Locks -> Nat] : More(e) \in [Locks -> Nat]
    OBVIOUS
<1>9. /\ h[1] = Nothing /\ h[n + 3] = Nothing
      /\ \A i \in 1 .. n + 1 : h[i + 1] = More(f[i])
    BY <1>1
<1>10. h \in [1 .. Len(p) + 1 -> [Locks -> Nat]]
  <2>1. \A i \in 1 .. n + 3 : h[i] \in [Locks -> Nat]
    <3> SUFFICES ASSUME NEW i \in 1 .. n + 3, i # 1, i # n + 3
                 PROVE  More(f[i - 1]) \in [Locks -> Nat]
        BY <1>7
    <3>1. i - 1 \in 1 .. n + 1
        BY <1>1
    <3> QED BY <1>7, <1>8, <3>1
  <2>2. Len(p) + 1 = n + 3
      BY <1>1, <1>6
  <2> QED BY <2>1, <2>2
<1> HIDE DEF h
<1>11. ASSUME NEW i \in 1 .. Len(p)
       PROVE  /\ IF p[i].do = "take" THEN h[i + 1] = [h[i] EXCEPT ![p[i].lock] = @ + 1]
                 ELSE h[i][p[i].lock] > 0 /\ h[i + 1] = [h[i] EXCEPT ![p[i].lock] = @ - 1]
              /\ p[i].do = "take" =>
                    p[i].lock \in free \/ InOrder(h[i], p[i].lock, order)
  <2>1. CASE i = 1
    <3>1. h[1] = Nothing /\ h[2] = More(Nothing)
      <4>1. 1 \in 1 .. n + 1
          BY <1>1
      <4>2. h[1 + 1] = More(f[1])
          BY <1>9, <4>1
      <4> QED BY <1>2, <1>9, <4>2
    <3>2. p[1].do = "take" /\ p[1].lock = lock
        BY <1>5, <1>6
    <3>3. h[1 + 1] = [h[1] EXCEPT ![lock] = @ + 1]
        BY <3>1
    <3>4. \A l \in Locks : ~(h[1][l] > 0)
        BY <3>1 DEF Nothing
    <3> QED BY <2>1, <3>2, <3>3, <3>4 DEF InOrder
  <2>2. CASE i = n + 2
    <3>1. h[i] = More(Nothing) /\ h[i + 1] = Nothing
      <4>1. n + 1 \in 1 .. n + 1 /\ i = (n + 1) + 1 /\ i + 1 = n + 3
          BY <1>1, <2>2
      <4>2. h[(n + 1) + 1] = More(f[n + 1])
          BY <1>9, <4>1
      <4> QED BY <1>7, <1>9, <4>1, <4>2
    <3>2. More(Nothing)[lock] = 1 /\ [More(Nothing) EXCEPT ![lock] = @ - 1] = Nothing
        BY DEF Nothing
    <3> QED BY <1>5, <1>6, <2>2, <3>1, <3>2
  <2>3. CASE i # 1 /\ i # n + 2
    <3>1. PICK j \in 1 .. n : i = j + 1
      <4>1. i - 1 \in 1 .. n /\ i = (i - 1) + 1
          BY <1>1, <1>6, <2>3
      <4> QED BY <4>1
    <3>2. h[i] = More(f[j]) /\ h[i + 1] = More(f[j + 1]) /\ p[i] = q[j]
      <4>1. j \in 1 .. n + 1 /\ j + 1 \in 1 .. n + 1
          BY <1>1, <3>1
      <4>2. h[j + 1] = More(f[j]) /\ h[(j + 1) + 1] = More(f[j + 1])
          BY <1>9, <4>1
      <4>3. p[j + 1] = q[j]
          BY <1>6
      <4> QED BY <3>1, <4>2, <4>3
    <3>3. f[j] \in [Locks -> Nat] /\ f[j + 1] \in [Locks -> Nat] /\ q[j].lock \in Locks
      <4>1. j \in 1 .. Len(q)
          BY DEF n
      <4>2. q[j] \in Step
          BY <1>1, <4>1
      <4>3. j \in 1 .. n + 1 /\ j + 1 \in 1 .. n + 1
          BY <1>1
      <4> QED BY <1>7, <4>2, <4>3 DEF Step
    <3>4. IF q[j].do = "take" THEN f[j + 1] = [f[j] EXCEPT ![q[j].lock] = @ + 1]
          ELSE f[j][q[j].lock] > 0 /\ f[j + 1] = [f[j] EXCEPT ![q[j].lock] = @ - 1]
        BY <1>2 DEF Annotates, n
    <3>5. CASE q[j].do = "take"
      <4>1. More(f[j + 1]) = [More(f[j]) EXCEPT ![q[j].lock] = @ + 1]
          BY <3>3, <3>4, <3>5
      <4>2. q[j].lock \in free \/ InOrder(More(f[j]), q[j].lock, order)
        <5>1. CASE q[j].lock = lock
          <6>1. More(f[j])[lock] > 0
              BY <3>3
          <6> QED BY <5>1, <6>1 DEF InOrder
        <5>2. CASE q[j].lock \notin free \cup {lock}
          <6>1. InOrder(f[j], q[j].lock, order) /\ Rank(order, lock) < Rank(order, q[j].lock)
              BY <1>2, <3>5, <5>2 DEF Rises, n
          <6>2. \A l \in Locks \ {lock} : More(f[j])[l] = f[j][l]
              BY <3>3
          <6> HIDE DEF More
          <6> QED BY <3>3, <5>2, <6>1, <6>2 DEF InOrder
        <5> QED BY <5>1, <5>2
      <4> QED BY <3>2, <3>5, <4>1, <4>2
    <3>6. CASE q[j].do # "take"
      <4>1. More(f[j])[q[j].lock] > 0
          BY <3>3, <3>4, <3>6
      <4>2. More(f[j + 1]) = [More(f[j]) EXCEPT ![q[j].lock] = @ - 1]
        <5>1. CASE q[j].lock = lock
          <6>1. f[j][lock] \in Nat /\ (f[j][lock] - 1) + 1 = (f[j][lock] + 1) - 1
              BY <3>3
          <6> QED BY <3>3, <3>4, <3>6, <5>1, <6>1
        <5>2. CASE q[j].lock # lock
            BY <3>3, <3>4, <3>6, <5>2
        <5> QED BY <5>1, <5>2
      <4> QED BY <3>2, <3>6, <4>1, <4>2
    <3> QED BY <3>5, <3>6
  <2> QED BY <2>1, <2>2, <2>3
<1>12. Annotates(h, p)
  <2>1. h[Len(p) + 1] = Nothing
      BY <1>1, <1>6, <1>9
  <2> QED BY <1>10, <1>11, <2>1 DEF Annotates
<1>13. Rises(h, p, order, free)
    BY <1>11 DEF Rises
<1> QED BY <1>6, <1>9, <1>12, <1>13 DEF Balanced, p

-----------------------------------------------------------------------------
(* The operations, each after the other and one inside the other. *)

\* q is in order inside of a scope of rank r.
Fits(q, r, order, free) ==
    /\ Balanced(q, order, free)
    /\ \A i \in 1 .. Len(q) : q[i].lock \in free \/ r < Rank(order, q[i].lock)

LEMMA EmptyFits ==
    ASSUME NEW r, NEW order, NEW free
    PROVE  Fits(<<>>, r, order, free)
BY EmptyBalanced DEF Fits

LEMMA ThenFits ==
    ASSUME NEW a, NEW b, NEW r, NEW order, NEW free,
           Fits(a, r, order, free), Fits(b, r, order, free)
    PROVE  Fits(a \o b, r, order, free)
<1> DEFINE q == a \o b
<1>1. Balanced(q, order, free)
    BY ThenBalanced DEF Fits
<1>2. a \in Seq(Step) /\ b \in Seq(Step)
    BY DEF Fits, Balanced
<1>3. ASSUME NEW i \in 1 .. Len(q)
      PROVE  q[i].lock \in free \/ r < Rank(order, q[i].lock)
  <2>1. /\ i \in 1 .. Len(a) => q[i] = a[i]
        /\ i \notin 1 .. Len(a) => i - Len(a) \in 1 .. Len(b) /\ q[i] = b[i - Len(a)]
      BY <1>2
  <2> HIDE DEF q
  <2> QED BY <2>1 DEF Fits
<1> QED BY <1>1, <1>3 DEF Fits

LEMMA ScopedFits ==
    ASSUME NEW lock \in Locks, NEW q, NEW r, NEW order, NEW free,
           Fits(q, Rank(order, lock), order, free \cup {lock}),
           Fits(q, r, order, free \cup {lock}),
           lock \in free \/ r < Rank(order, lock)
    PROVE  Fits(Scoped(lock, q), r, order, free)
<1> DEFINE p == Scoped(lock, q)
<1>1. Balanced(p, order, free)
    BY ScopedBalanced DEF Fits
<1>2. q \in Seq(Step)
    BY DEF Fits, Balanced
<1>3. /\ Len(p) = Len(q) + 2 /\ p[1].lock = lock /\ p[Len(q) + 2].lock = lock
      /\ \A i \in 1 .. Len(q) : p[i + 1] = q[i]
  <2>1. /\ Len(p) = Len(q) + 2 /\ p[1] = [do |-> "take", lock |-> lock]
        /\ p[Len(q) + 2] = [do |-> "give", lock |-> lock]
        /\ \A i \in 1 .. Len(q) : p[i + 1] = q[i]
      BY <1>2, ScopedSteps
  <2> HIDE DEF p
  <2> QED BY <2>1
<1> HIDE DEF p
<1>4. ASSUME NEW i \in 1 .. Len(p)
      PROVE  p[i].lock \in free \/ r < Rank(order, p[i].lock)
  <2>1. CASE i = 1 \/ i = Len(q) + 2
      BY <1>3, <2>1
  <2>2. CASE i # 1 /\ i # Len(q) + 2
    <3>1. i - 1 \in 1 .. Len(q) /\ (i - 1) + 1 = i
        BY <1>2, <1>3, <2>2
    <3>2. p[(i - 1) + 1] = q[i - 1]
        BY <1>3, <3>1
    <3>3. p[i] = q[i - 1]
        BY <3>1, <3>2
    <3> QED BY <3>1, <3>3 DEF Fits
  <2> QED BY <2>1, <2>2
<1> QED BY <1>1, <1>4 DEF Fits, p

\* Inside of a scope of lower rank, too.
LEMMA FitsLower ==
    ASSUME NEW q, NEW order \in Orders, NEW free, NEW r \in Nat, NEW s \in Nat, s <= r,
           Fits(q, r, order, free)
    PROVE  Fits(q, s, order, free)
<1>1. q \in Seq(Step)
    BY DEF Fits, Balanced
<1>2. ASSUME NEW i \in 1 .. Len(q) PROVE Rank(order, q[i].lock) \in Nat
  <2>1. q[i] \in Step
      BY <1>1
  <2>2. q[i].lock \in Locks
      BY <2>1 DEF Step
  <2>3. q[i].lock[1] \in {"change", "table", "queue"}
      BY <2>2 DEF Locks, TableLock, QueueLock, ChangeLock
  <2> QED BY <2>3 DEF Orders, Rank
<1>3. ASSUME NEW i \in 1 .. Len(q), r < Rank(order, q[i].lock)
      PROVE  s < Rank(order, q[i].lock)
    BY <1>2, <1>3
<1> QED BY <1>3 DEF Fits

\* The kind of each lock.
LEMMA LockKinds ==
    ASSUME NEW s \in Slaves, NEW order
    PROVE  /\ TableLock \in Locks /\ Rank(order, TableLock) = order["table"]
           /\ QueueLock(s) \in Locks /\ Rank(order, QueueLock(s)) = order["queue"]
           /\ ChangeLock(s) \in Locks /\ Rank(order, ChangeLock(s)) = order["change"]
BY DEF Locks, Rank, TableLock, QueueLock, ChangeLock

\* What is written through the database, with the queue of a slave changed, is in order as
\* soon as the table comes before the queue or the queue is owned already.
LEMMA DispatchLinkFits ==
    ASSUME NEW s \in Slaves, NEW order \in Orders, NEW free, NEW r \in Nat,
           r < order["table"],
           \/ QueueLock(s) \in free
           \/ order["table"] < order["queue"]
    PROVE  Fits(Dispatch(Link(s)), r, order, free)
<1> DEFINE t == free \cup {TableLock}
<1>1. order["table"] \in Nat /\ order["queue"] \in Nat
    BY DEF Orders
<1>2. \/ QueueLock(s) \in t
      \/ order["table"] < Rank(order, QueueLock(s)) /\ r < Rank(order, QueueLock(s))
    BY <1>1, LockKinds
<1> HIDE DEF t
<1>3. Fits(Link(s), order["table"], order, t) /\ Fits(Link(s), r, order, t)
    BY <1>2, EmptyFits, ScopedFits, LockKinds DEF Link
<1> QED BY <1>3, ScopedFits, LockKinds DEF Dispatch, t

LEMMA EmptyScopeFits ==
    ASSUME NEW lock \in Locks, NEW r, NEW order, NEW free,
           lock \in free \/ r < Rank(order, lock)
    PROVE  Fits(Scoped(lock, <<>>), r, order, free)
BY EmptyFits, ScopedFits

\* The activity report is saved, under its mutex.
LEMMA MarkFits ==
    ASSUME NEW s \in Slaves, NEW order \in Orders, NEW free, NEW r \in Nat,
           r < order["change"], order["change"] < order["table"]
    PROVE  Fits(MarkAsUpToDate(s), r, order, free)
<1> DEFINE lock == ChangeLock(s)
           c == free \cup {lock}
<1>1. order["change"] \in Nat /\ order["table"] \in Nat
    BY DEF Orders
<1>2. /\ TableLock \in Locks /\ Rank(order, TableLock) = order["table"]
      /\ lock \in Locks /\ Rank(order, lock) = order["change"]
    BY LockKinds
<1> HIDE DEF lock, c
<1>3. r < Rank(order, TableLock) /\ Rank(order, lock) < Rank(order, TableLock)
    BY <1>1, <1>2
<1>4. Fits(Dispatch(<<>>), r, order, c) /\ Fits(Dispatch(<<>>), Rank(order, lock), order, c)
    BY <1>2, <1>3, EmptyScopeFits DEF Dispatch
<1>5. Fits(Scoped(lock, Dispatch(<<>>)), r, order, free)
    BY <1>2, <1>4, ScopedFits DEF c
<1> QED BY <1>5 DEF MarkAsUpToDate, lock

LEMMA WritersFit ==
    ASSUME NEW s \in Slaves
    PROVE  Balanced(Write(s), WritersOrder, {}) /\ Balanced(Dump(s), WritersOrder, {})
<1> DEFINE o == WritersOrder
<1>1. /\ o \in Orders /\ o["change"] = 1 /\ o["table"] = 2 /\ o["queue"] = 3
    BY DEF WritersOrder, Orders
<1> HIDE DEF o
<1>2. /\ Rank(o, TableLock) = 2 /\ TableLock \in Locks
      /\ Rank(o, QueueLock(s)) = 3 /\ QueueLock(s) \in Locks
      /\ Rank(o, ChangeLock(s)) = 1 /\ ChangeLock(s) \in Locks
    BY <1>1, LockKinds
<1>3. Fits(Dispatch(Link(s)), 0, o, {})
    BY <1>1, DispatchLinkFits
<1>4. Fits(Dispatch(<<>>), 0, o, {})
    BY <1>2, EmptyScopeFits DEF Dispatch
<1>5. Fits(IsObsolete(s), 0, o, {})
    BY <1>2, EmptyScopeFits DEF IsObsolete
<1>6. Fits(Scoped(QueueLock(s), <<>>), 0, o, {})
    BY <1>2, EmptyScopeFits
<1>7. Fits(MarkAsUpToDate(s), 0, o, {})
    BY <1>1, MarkFits
<1>8. Fits(Write(s), 0, o, {})
    BY <1>3, <1>4, <1>5, ThenFits DEF Write
<1>9. Fits(ClearQueue(s), 0, o, {})
    BY <1>3, <1>6, ThenFits DEF ClearQueue
<1>10. Fits(Dump(s), 0, o, {})
    BY <1>3, <1>5, <1>7, <1>9, ThenFits DEF Dump
<1> QED BY <1>8, <1>10 DEF Fits, o

LEMMA HandlersFit ==
    ASSUME NEW s \in Slaves
    PROVE  Balanced(Poll(s), HandlersOrder, {}) /\ Balanced(Ack(s), HandlersOrder, {})
<1> DEFINE o == HandlersOrder
           lock == QueueLock(s)
           q == {} \cup {lock}
           inner == ClearQueue(s) \o MarkAsUpToDate(s)
<1>1. /\ o \in Orders /\ o["queue"] = 1 /\ o["change"] = 2 /\ o["table"] = 3
    BY DEF HandlersOrder, Orders
<1> HIDE DEF o
<1>2. /\ Rank(o, lock) = 1 /\ lock \in Locks
      /\ Rank(o, ChangeLock(s)) = 2 /\ ChangeLock(s) \in Locks
    BY <1>1, LockKinds
<1>3. lock \in q /\ QueueLock(s) \in q
    OBVIOUS
<1>4. Fits(IsObsolete(s), 0, o, {})
    BY <1>2, EmptyScopeFits DEF IsObsolete
<1> HIDE DEF q
<1>5. Fits(MarkAsUpToDate(s), 0, o, q) /\ Fits(MarkAsUpToDate(s), 1, o, q)
    BY <1>1, MarkFits
<1>6. Fits(Scoped(QueueLock(s), <<>>), 0, o, q) /\ Fits(Scoped(QueueLock(s), <<>>), 1, o, q)
    BY <1>2, <1>3, EmptyScopeFits
<1>7. Fits(Dispatch(Link(s)), 0, o, q) /\ Fits(Dispatch(Link(s)), 1, o, q)
    BY <1>1, <1>3, DispatchLinkFits
<1>8. Fits(ClearQueue(s), 0, o, q) /\ Fits(ClearQueue(s), 1, o, q)
    BY <1>6, <1>7, ThenFits DEF ClearQueue
<1>9. Fits(inner, 0, o, q) /\ Fits(inner, 1, o, q)
    BY <1>5, <1>8, ThenFits
<1> HIDE DEF inner, lock
<1>10. Fits(Scoped(lock, inner), 0, o, {})
    BY <1>2, <1>9, ScopedFits DEF q
<1>11. Fits(Scoped(lock, MarkAsUpToDate(s)), 0, o, {})
    BY <1>2, <1>5, ScopedFits DEF q
<1>12. Fits(Poll(s), 0, o, {})
    BY <1>4, <1>11, ThenFits DEF Poll, lock
<1> QED BY <1>10, <1>12 DEF Fits, o, Ack, inner, lock

\* Whatever it is, an operation releases what it takes.
LEMMA ProgramsBalanced ==
    ASSUME NEW op \in Operations, NEW s \in Slaves
    PROVE  Balanced(Program(op, s), WritersOrder, Locks)
<1>1. ASSUME NEW q, NEW order, Balanced(q, order, {})
      PROVE  Balanced(q, WritersOrder, Locks)
  <2>1. q \in Seq(Step)
      BY <1>1 DEF Balanced
  <2>2. \A i \in 1 .. Len(q) : q[i].lock \in Locks
    <3> TAKE i \in 1 .. Len(q)
    <3>1. q[i] \in Step
        BY <2>1
    <3> QED BY <3>1 DEF Step
  <2>3. \A h : Rises(h, q, WritersOrder, Locks)
      BY <2>2 DEF Rises
  <2> QED BY <1>1, <2>3 DEF Balanced
<1>2. op \in {"write", "poll", "ack", "dump"}
    BY OperationsAssumption
<1> QED BY <1>1, <1>2, WritersFit, HandlersFit DEF Program

\* The operations the threads run take the locks in one order, except those in `free`.
Disciplined(order, free) ==
    \A op \in Operations, s \in Slaves : Balanced(Program(op, s), order, free)

-----------------------------------------------------------------------------
(* The invariant. *)

\* What thread t owns is what it has still to release.
InTurn(t, order, free) ==
    \E h : /\ Annotates(h, todo[t]) /\ Rises(h, todo[t], order, free)
           /\ \A l \in Locks : h[1][l] = IF holder[l] = t THEN depth[l] ELSE 0

LTypes ==
    /\ todo \in [Threads -> Seq(Step)]
    /\ holder \in [Locks -> Threads \cup {NoThread}]
    /\ depth \in [Locks -> Nat]
    /\ \A l \in Locks : depth[l] = 0 <=> holder[l] = NoThread
    /\ runs \in 0..MaxRuns

LInv(order, free) == LTypes /\ \A t \in Threads : InTurn(t, order, free)

\* One step less to do.
LEMMA TailRises ==
    ASSUME NEW q \in Seq(Step), q # <<>>, NEW h, NEW order, NEW free,
           Annotates(h, q), Rises(h, q, order, free)
    PROVE  \E g : Annotates(g, Tail(q)) /\ Rises(g, Tail(q), order, free) /\ g[1] = h[2]
<1> DEFINE n == Len(q)
           r == Tail(q)
           g == [i \in 1 .. n |-> h[i + 1]]
<1>1. /\ n \in Nat /\ n # 0 /\ r \in Seq(Step) /\ Len(r) = n - 1
      /\ \A i \in 1 .. n - 1 : r[i] = q[i + 1]
    OBVIOUS
<1>2. h \in [1 .. n + 1 -> [Locks -> Nat]] /\ h[n + 1] = Nothing
    BY DEF Annotates
<1> HIDE DEF r
<1>3. g \in [1 .. Len(r) + 1 -> [Locks -> Nat]]
  <2>1. \A i \in 1 .. n : i + 1 \in 1 .. n + 1
      BY <1>1
  <2> QED BY <1>1, <1>2, <2>1
<1>4. g[1] = h[2] /\ g[Len(r) + 1] = Nothing
    BY <1>1, <1>2
<1>5. ASSUME NEW i \in 1 .. Len(r)
      PROVE  /\ i + 1 \in 1 .. n /\ r[i] = q[i + 1] /\ g[i] = h[i + 1]
             /\ g[i + 1] = h[(i + 1) + 1]
  <2>1. i \in 1 .. n /\ i + 1 \in 1 .. n /\ i \in 1 .. n - 1
      BY <1>1
  <2> QED BY <1>1, <2>1
<1> HIDE DEF g
<1>6. Annotates(g, r)
  <2>1. ASSUME NEW i \in 1 .. Len(r)
        PROVE  IF r[i].do = "take" THEN g[i + 1] = [g[i] EXCEPT ![r[i].lock] = @ + 1]
               ELSE g[i][r[i].lock] > 0 /\ g[i + 1] = [g[i] EXCEPT ![r[i].lock] = @ - 1]
    <3>1. PICK k : k = i + 1
        OBVIOUS
    <3>2. /\ k \in 1 .. Len(q) /\ r[i] = q[k] /\ g[i] = h[k] /\ g[i + 1] = h[k + 1]
        BY <1>5, <3>1 DEF n
    <3>3. IF q[k].do = "take" THEN h[k + 1] = [h[k] EXCEPT ![q[k].lock] = @ + 1]
          ELSE h[k][q[k].lock] > 0 /\ h[k + 1] = [h[k] EXCEPT ![q[k].lock] = @ - 1]
        BY <3>2 DEF Annotates
    <3> QED BY <3>2, <3>3
  <2> QED BY <1>3, <1>4, <2>1 DEF Annotates
<1>7. Rises(g, r, order, free)
    BY <1>5 DEF Rises, n
<1> QED BY <1>4, <1>6, <1>7 DEF r

\* A thread whose operation is over owns nothing.
LEMMA IdleOwnsNothing ==
    ASSUME LTypes, NEW t \in Threads, NEW order, NEW free, InTurn(t, order, free),
           todo[t] = <<>>
    PROVE  \A l \in Locks : holder[l] # t
<1>1. PICK h : /\ Annotates(h, todo[t])
               /\ \A l \in Locks : h[1][l] = IF holder[l] = t THEN depth[l] ELSE 0
    BY DEF InTurn
<1>2. h[1] = Nothing
  <2>1. Len(todo[t]) = 0
      OBVIOUS
  <2> QED BY <1>1, <2>1 DEF Annotates
<1>3. TAKE l \in Locks
<1> QED BY <1>1, <1>2, NoThreadAssumption DEF LTypes, Nothing

LEMMA LInvInit ==
    ASSUME NEW order, NEW free, Init
    PROVE  LInv(order, free)
<1>1. LTypes
    BY MaxRunsAssumption DEF Init, LTypes
<1>2. ASSUME NEW t \in Threads PROVE InTurn(t, order, free)
  <2>1. todo[t] = <<>>
      BY DEF Init
  <2>2. PICK h : Annotates(h, <<>>) /\ h[1] = Nothing /\ Rises(h, <<>>, order, free)
      BY EmptyBalanced DEF Balanced
  <2>3. \A l \in Locks : h[1][l] = 0 /\ holder[l] # t
      BY <2>2, NoThreadAssumption DEF Nothing, Init
  <2> QED BY <2>1, <2>2, <2>3 DEF InTurn
<1> QED BY <1>1, <1>2 DEF LInv

\* A step of a thread disturbs no other if the locks the others own stay what they are.
LEMMA OthersInTurn ==
    ASSUME NEW order, NEW free, NEW u \in Threads, InTurn(u, order, free),
           todo'[u] = todo[u],
           \A l \in Locks : \/ holder'[l] = holder[l] /\ depth'[l] = depth[l]
                            \/ holder[l] # u /\ holder'[l] # u
    PROVE  InTurn(u, order, free)'
<1>1. PICK h : /\ Annotates(h, todo[u]) /\ Rises(h, todo[u], order, free)
               /\ \A l \in Locks : h[1][l] = IF holder[l] = u THEN depth[l] ELSE 0
    BY DEF InTurn
<1>2. \A l \in Locks : h[1][l] = IF holder'[l] = u THEN depth'[l] ELSE 0
    BY <1>1
<1>3. \E g : /\ Annotates(g, todo'[u]) /\ Rises(g, todo'[u], order, free)
             /\ \A l \in Locks : g[1][l] = IF holder'[l] = u THEN depth'[l] ELSE 0
    BY <1>1, <1>2
<1> QED BY <1>3 DEF InTurn

LEMMA StartKeeps ==
    ASSUME NEW order, NEW free, Disciplined(order, free), LInv(order, free),
           NEW t \in Threads, Start(t)
    PROVE  LInv(order, free)'
<1>1. PICK op \in Operations, s \in Slaves : todo' = [todo EXCEPT ![t] = Program(op, s)]
    BY DEF Start
<1> DEFINE q == Program(op, s)
<1>2. Balanced(q, order, free)
    BY DEF Disciplined
<1> HIDE DEF q
<1>3. q \in Seq(Step)
    BY <1>2 DEF Balanced
<1>4. /\ todo' = [todo EXCEPT ![t] = q] /\ todo[t] = <<>>
      /\ holder' = holder /\ depth' = depth /\ runs < MaxRuns /\ runs' = runs + 1
    BY <1>1 DEF Start, q
<1>5. LTypes'
    BY <1>3, <1>4, MaxRunsAssumption DEF LInv, LTypes
<1>6. InTurn(t, order, free)'
  <2>1. PICK h : Annotates(h, q) /\ h[1] = Nothing /\ Rises(h, q, order, free)
      BY <1>2 DEF Balanced
  <2>2. todo'[t] = q
      BY <1>4 DEF LInv, LTypes
  <2>3. \A l \in Locks : holder[l] # t
      BY <1>4, IdleOwnsNothing DEF LInv
  <2>4. \A l \in Locks : h[1][l] = IF holder'[l] = t THEN depth'[l] ELSE 0
      BY <1>4, <2>1, <2>3 DEF Nothing
  <2> QED BY <2>1, <2>2, <2>4 DEF InTurn
<1>7. ASSUME NEW u \in Threads, u # t PROVE InTurn(u, order, free)'
  <2>1. todo'[u] = todo[u]
      BY <1>4, <1>7 DEF LInv, LTypes
  <2> QED BY <1>4, <2>1, OthersInTurn DEF LInv
<1> QED BY <1>5, <1>6, <1>7 DEF LInv

LEMMA TakeKeeps ==
    ASSUME NEW order, NEW free, LInv(order, free), NEW t \in Threads, Take(t)
    PROVE  LInv(order, free)'
<1>1. PICK q : q = todo[t]
    OBVIOUS
<1>2. PICK w : w = q[1].lock
    OBVIOUS
<1>3. q \in Seq(Step) /\ q # <<>> /\ q[1].do = "take" /\ w \in Locks
  <2>1. q \in Seq(Step) /\ q # <<>>
      BY <1>1 DEF Take, Wants, LInv, LTypes
  <2>2. q[1] \in Step /\ Head(q) = q[1]
      BY <2>1
  <2> QED BY <1>1, <1>2, <2>1, <2>2 DEF Take, Wants, Step
<1>4. /\ todo' = [todo EXCEPT ![t] = Tail(q)] /\ holder[w] \in {NoThread, t}
      /\ holder' = [holder EXCEPT ![w] = t] /\ depth' = [depth EXCEPT ![w] = @ + 1]
      /\ runs' = runs
  <2>1. Wanted(t) = w
      BY <1>1, <1>2, <1>3 DEF Wanted
  <2> QED BY <1>1, <2>1 DEF Take
<1>5. LTypes'
  <2>1. Tail(q) \in Seq(Step)
      BY <1>3
  <2>2. /\ todo' \in [Threads -> Seq(Step)] /\ holder' \in [Locks -> Threads \cup {NoThread}]
        /\ depth' \in [Locks -> Nat] /\ runs' \in 0..MaxRuns
      BY <1>3, <1>4, <2>1 DEF LInv, LTypes
  <2>3. \A l \in Locks : depth'[l] = 0 <=> holder'[l] = NoThread
      BY <1>3, <1>4, NoThreadAssumption DEF LInv, LTypes
  <2> QED BY <2>2, <2>3 DEF LTypes
<1>6. InTurn(t, order, free)'
  <2>1. PICK h : /\ Annotates(h, q) /\ Rises(h, q, order, free)
                 /\ \A l \in Locks : h[1][l] = IF holder[l] = t THEN depth[l] ELSE 0
      BY <1>1 DEF LInv, InTurn
  <2>2. PICK g : Annotates(g, Tail(q)) /\ Rises(g, Tail(q), order, free) /\ g[1] = h[2]
      BY <1>3, <2>1, TailRises
  <2>3. 1 \in 1 .. Len(q) /\ 1 + 1 = 2 /\ 1 \in 1 .. Len(q) + 1
      BY <1>3
  <2>4. h[2] = [h[1] EXCEPT ![w] = @ + 1] /\ h[1] \in [Locks -> Nat]
      BY <1>2, <1>3, <2>1, <2>3 DEF Annotates
  <2>5. \A l \in Locks : g[1][l] = IF holder'[l] = t THEN depth'[l] ELSE 0
    <3> TAKE l \in Locks
    <3>1. CASE l = w
      <4>1. holder'[l] = t /\ depth'[l] = depth[w] + 1 /\ g[1][l] = h[1][w] + 1
          BY <1>3, <1>4, <2>2, <2>4, <3>1 DEF LInv, LTypes
      <4>2. h[1][w] = depth[w]
          BY <1>3, <1>4, <2>1 DEF LInv, LTypes
      <4> QED BY <4>1, <4>2
    <3>2. CASE l # w
      <4>1. holder'[l] = holder[l] /\ depth'[l] = depth[l] /\ g[1][l] = h[1][l]
          BY <1>3, <1>4, <2>2, <2>4, <3>2 DEF LInv, LTypes
      <4> QED BY <2>1, <4>1
    <3> QED BY <3>1, <3>2
  <2>6. todo'[t] = Tail(q)
      BY <1>4 DEF LInv, LTypes
  <2> QED BY <2>2, <2>5, <2>6 DEF InTurn
<1>7. ASSUME NEW u \in Threads, u # t PROVE InTurn(u, order, free)'
  <2>1. todo'[u] = todo[u]
      BY <1>4, <1>7 DEF LInv, LTypes
  <2>2. \A l \in Locks : \/ holder'[l] = holder[l] /\ depth'[l] = depth[l]
                         \/ holder[l] # u /\ holder'[l] # u
      BY <1>4, <1>7, NoThreadAssumption DEF LInv, LTypes
  <2> QED BY <2>1, <2>2, OthersInTurn DEF LInv
<1> QED BY <1>5, <1>6, <1>7 DEF LInv

LEMMA GiveKeeps ==
    ASSUME NEW order, NEW free, LInv(order, free), NEW t \in Threads, Give(t)
    PROVE  LInv(order, free)'
<1>1. PICK q : q = todo[t]
    OBVIOUS
<1>2. PICK w : w = q[1].lock
    OBVIOUS
<1>3. q \in Seq(Step) /\ q # <<>> /\ q[1].do = "give" /\ w \in Locks
  <2>1. q \in Seq(Step) /\ q # <<>>
      BY <1>1 DEF Give, Wants, LInv, LTypes
  <2>2. q[1] \in Step /\ Head(q) = q[1]
      BY <2>1
  <2> QED BY <1>1, <1>2, <2>1, <2>2 DEF Give, Wants, Step
<1>4. /\ todo' = [todo EXCEPT ![t] = Tail(q)]
      /\ holder' = [holder EXCEPT ![w] = IF depth[w] = 1 THEN NoThread ELSE @]
      /\ depth' = [depth EXCEPT ![w] = @ - 1]
      /\ runs' = runs
  <2>1. Wanted(t) = w
      BY <1>1, <1>2, <1>3 DEF Wanted
  <2> QED BY <1>1, <2>1 DEF Give
<1>5. PICK h : /\ Annotates(h, q) /\ Rises(h, q, order, free)
               /\ \A l \in Locks : h[1][l] = IF holder[l] = t THEN depth[l] ELSE 0
    BY <1>1 DEF LInv, InTurn
<1>6. 1 \in 1 .. Len(q) /\ 1 + 1 = 2 /\ 1 \in 1 .. Len(q) + 1
    BY <1>3
<1>7. h[2] = [h[1] EXCEPT ![w] = @ - 1] /\ h[1] \in [Locks -> Nat] /\ h[1][w] > 0
    BY <1>2, <1>3, <1>5, <1>6 DEF Annotates
<1>8. holder[w] = t /\ depth[w] = h[1][w] /\ depth[w] \in Nat \ {0}
    BY <1>3, <1>5, <1>7 DEF LInv, LTypes
<1>9. LTypes'
  <2>1. Tail(q) \in Seq(Step)
      BY <1>3
  <2>2. /\ todo' \in [Threads -> Seq(Step)] /\ holder' \in [Locks -> Threads \cup {NoThread}]
        /\ depth' \in [Locks -> Nat] /\ runs' \in 0..MaxRuns
      BY <1>3, <1>4, <1>8, <2>1 DEF LInv, LTypes
  <2>3. \A l \in Locks : depth'[l] = 0 <=> holder'[l] = NoThread
      BY <1>3, <1>4, <1>8, NoThreadAssumption DEF LInv, LTypes
  <2> QED BY <2>2, <2>3 DEF LTypes
<1>10. InTurn(t, order, free)'
  <2>1. PICK g : Annotates(g, Tail(q)) /\ Rises(g, Tail(q), order, free) /\ g[1] = h[2]
      BY <1>3, <1>5, TailRises
  <2>2. \A l \in Locks : g[1][l] = IF holder'[l] = t THEN depth'[l] ELSE 0
    <3> TAKE l \in Locks
    <3>1. CASE l = w
      <4>1. /\ holder'[l] = IF depth[w] = 1 THEN NoThread ELSE t
            /\ depth'[l] = depth[w] - 1 /\ g[1][l] = h[1][w] - 1
          BY <1>3, <1>4, <1>7, <1>8, <2>1, <3>1 DEF LInv, LTypes
      <4> QED BY <1>8, <4>1, NoThreadAssumption
    <3>2. CASE l # w
      <4>1. holder'[l] = holder[l] /\ depth'[l] = depth[l] /\ g[1][l] = h[1][l]
          BY <1>3, <1>4, <1>7, <2>1, <3>2 DEF LInv, LTypes
      <4> QED BY <1>5, <4>1
    <3> QED BY <3>1, <3>2
  <2>3. todo'[t] = Tail(q)
      BY <1>4 DEF LInv, LTypes
  <2> QED BY <2>1, <2>2, <2>3 DEF InTurn
<1>11. ASSUME NEW u \in Threads, u # t PROVE InTurn(u, order, free)'
  <2>1. todo'[u] = todo[u]
      BY <1>4, <1>11 DEF LInv, LTypes
  <2>2. \A l \in Locks : \/ holder'[l] = holder[l] /\ depth'[l] = depth[l]
                         \/ holder[l] # u /\ holder'[l] # u
      BY <1>4, <1>8, <1>11, NoThreadAssumption DEF LInv, LTypes
  <2> QED BY <2>1, <2>2, OthersInTurn DEF LInv
<1> QED BY <1>9, <1>10, <1>11 DEF LInv

LEMMA LInvNext ==
    ASSUME NEW order, NEW free, Disciplined(order, free), LInv(order, free), [Next]_vars
    PROVE  LInv(order, free)'
<1>1. CASE UNCHANGED vars
  <2>1. LTypes'
      BY <1>1 DEF vars, LInv, LTypes
  <2>2. \A u \in Threads : InTurn(u, order, free)'
      BY <1>1, OthersInTurn DEF vars, LInv
  <2> QED BY <2>1, <2>2 DEF LInv
<1>2. CASE Next
    BY <1>2, StartKeeps, TakeKeeps, GiveKeeps DEF Next
<1> QED BY <1>1, <1>2

-----------------------------------------------------------------------------
(* Theorems. *)

\* A mutex has an owner exactly while it is taken, the thread that took it, and a thread
\* whose operation is over has released all it took, whatever the operations the threads
\* run and in whatever order they are scheduled.
THEOREM LocksTypeCorrect == Spec => []TypeOK
<1>1. Disciplined(WritersOrder, Locks)
    BY ProgramsBalanced DEF Disciplined
<1>2. Init => LInv(WritersOrder, Locks)
    BY LInvInit
<1>3. LInv(WritersOrder, Locks) /\ [Next]_vars => LInv(WritersOrder, Locks)'
    BY <1>1, LInvNext
<1>4. LInv(WritersOrder, Locks) => TypeOK
  <2>1. ASSUME LInv(WritersOrder, Locks), NEW t \in Threads, todo[t] = <<>>
        PROVE  \A l \in Locks : holder[l] # t
      BY <2>1, IdleOwnsNothing DEF LInv
  <2> QED BY <2>1 DEF LInv, LTypes, TypeOK
<1> QED BY <1>2, <1>3, <1>4, PTL DEF Spec

\* Threads that take the mutexes in one order do not wait in a circle.
LEMMA OneOrder ==
    ASSUME NEW order \in Orders, LInv(order, {})
    PROVE  NoCircularWait
<1> SUFFICES ASSUME NEW S \in (SUBSET Threads) \ {{}},
                    ~(\E t \in S : ~(Blocked(t) /\ holder[Wanted(t)] \in S))
             PROVE  FALSE
    BY DEF NoCircularWait
<1>0. S \subseteq Threads /\ S # {} /\ \A t \in S : Blocked(t) /\ holder[Wanted(t)] \in S
    OBVIOUS
<1>1. ASSUME NEW t \in S
      PROVE  /\ Wanted(t) = todo[t][1].lock /\ todo[t][1].do = "take" /\ Wanted(t) \in Locks
             /\ 1 \in 1 .. Len(todo[t]) /\ Rank(order, Wanted(t)) \in 1 .. 3
  <2>1. todo[t] \in Seq(Step) /\ todo[t] # <<>> /\ Head(todo[t]).do = "take"
      BY <1>0 DEF Blocked, Wants, LInv, LTypes
  <2>2. 1 \in 1 .. Len(todo[t]) /\ todo[t][1] \in Step /\ Head(todo[t]) = todo[t][1]
      BY <2>1
  <2>3. todo[t][1].lock \in Locks
      BY <2>2 DEF Step
  <2>4. todo[t][1].lock[1] \in {"change", "table", "queue"}
      BY <2>3 DEF Locks, TableLock, QueueLock, ChangeLock
  <2> QED BY <2>1, <2>2, <2>3, <2>4 DEF Wanted, Orders, Rank
<1>2. ASSUME NEW t \in S
      PROVE  /\ holder[Wanted(t)] \in S
             /\ Rank(order, Wanted(t)) < Rank(order, Wanted(holder[Wanted(t)]))
  <2>1. PICK w, u : w = Wanted(t) /\ u = holder[w]
      OBVIOUS
  <2>2. u \in S /\ u \in Threads /\ w \in Locks
      BY <1>0, <1>1, <2>1
  <2>3. PICK h : /\ Rises(h, todo[u], order, {})
                 /\ \A l \in Locks : h[1][l] = IF holder[l] = u THEN depth[l] ELSE 0
      BY <2>2 DEF LInv, InTurn
  <2>4. h[1][w] > 0
      BY <2>1, <2>2, <2>3, NoThreadAssumption DEF LInv, LTypes
  <2>5. PICK v : v = Wanted(u)
      OBVIOUS
  <2>6. v \in Locks /\ InOrder(h[1], v, order)
      BY <1>1, <2>2, <2>3, <2>5 DEF Rises
  <2>7. ~(h[1][v] > 0)
      BY <1>0, <2>2, <2>3, <2>5, <2>6 DEF Blocked
  <2> QED BY <2>1, <2>2, <2>4, <2>5, <2>6, <2>7 DEF InOrder
<1> DEFINE T == {Rank(order, Wanted(t)) : t \in S}
<1>3. T \in SUBSET Nat /\ T # {} /\ \A x \in T : x < 4
    BY <1>0, <1>1
<1>4. PICK x \in T : \A y \in T : y <= x
    BY <1>3, GreatestElement
<1>5. PICK t \in S : x = Rank(order, Wanted(t))
    BY <1>4
<1>6. PICK y \in T : x < y
  <2>1. PICK u \in S : u = holder[Wanted(t)]
      BY <1>2
  <2>2. Rank(order, Wanted(u)) \in T /\ x < Rank(order, Wanted(u))
      BY <1>2, <1>5, <2>1
  <2> QED BY <2>2
<1> HIDE DEF T
<1>7. x \in Nat /\ y \in Nat /\ y <= x /\ x < y
    BY <1>3, <1>4, <1>6
<1> QED BY <1>7

\* "Do no run transation with the lock or we will deadlock": as long as only modifications
\* and full updates run, or only the services for the slaves, no threads of the master wait
\* for each other in a circle, however many they are and whatever the slaves.  A modification
\* along with a service is enough for one.
THEOREM NoDeadlockAmongAlike ==
    ASSUME Operations \subseteq {"write", "dump"} \/ Operations \subseteq {"poll", "ack"}
    PROVE  Spec => []NoCircularWait
<1>1. PICK order \in Orders : Disciplined(order, {})
  <2>1. WritersOrder \in Orders /\ HandlersOrder \in Orders
      BY DEF WritersOrder, HandlersOrder, Orders
  <2>2. CASE Operations \subseteq {"write", "dump"}
    <3>1. \A op \in Operations, s \in Slaves : Program(op, s) \in {Write(s), Dump(s)}
        BY <2>2 DEF Program
    <3>2. Disciplined(WritersOrder, {})
        BY <3>1, WritersFit DEF Disciplined
    <3> QED BY <2>1, <3>2
  <2>3. CASE Operations \subseteq {"poll", "ack"}
    <3>1. \A op \in Operations, s \in Slaves : Program(op, s) \in {Poll(s), Ack(s)}
        BY <2>3 DEF Program
    <3>2. Disciplined(HandlersOrder, {})
        BY <3>1, HandlersFit DEF Disciplined
    <3> QED BY <2>1, <3>2
  <2> QED BY <2>2, <2>3
<1>2. Init => LInv(order, {})
    BY LInvInit
<1>3. LInv(order, {}) /\ [Next]_vars => LInv(order, {})'
    BY <1>1, LInvNext
<1>4. LInv(order, {}) => NoCircularWait
    BY OneOrder
<1> QED BY <1>2, <1>3, <1>4, PTL DEF Spec
=============================================================================
