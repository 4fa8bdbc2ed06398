----------------------------- MODULE QueueLocks -----------------------------
(***************************************************************************)
(* The recursive mutexes of the master that the replication code nests:    *)
(* _tableSynchronizersMutex of DB, _queueMutex and _slaveChangeMutex of    *)
(* each slave.  A thread is reduced to the order in which the operation it *)
(* runs takes and releases them; what it does meanwhile is in module       *)
(* InterSYNTHESE, whose actions take for granted that it ends.             *)
(***************************************************************************)
EXTENDS Naturals, Sequences

CONSTANTS Threads, NoThread, Slaves,
          Operations,  \* operations the threads run
          MaxRuns      \* bound: operations started

ASSUME NoThreadAssumption == NoThread \notin Threads
ASSUME OperationsAssumption == Operations \subseteq {"write", "poll", "ack", "dump"}
ASSUME MaxRunsAssumption == MaxRuns \in Nat

VARIABLES
    todo,   \* what the operation of each thread has still to take and release
    holder, \* thread that owns each mutex
    depth,  \* how many times it has taken it
    runs

vars == <<todo, holder, depth, runs>>

TableLock == <<"table">>
QueueLock(s) == <<"queue", s>>
ChangeLock(s) == <<"change", s>>
Locks == {TableLock} \cup {QueueLock(s) : s \in Slaves} \cup {ChangeLock(s) : s \in Slaves}

Step == [do : {"take", "give"}, lock : Locks]

\* A scope that holds `lock` around `inner`.
Scoped(lock, inner) ==
    <<[do |-> "take", lock |-> lock]>> \o inner \o <<[do |-> "give", lock |-> lock]>>

-----------------------------------------------------------------------------
(* Operations. *)

\* An event on a row dispatched once the database has changed.
Dispatch(inner) == Scoped(TableLock, inner)

\* InterSYNTHESEQueue::link and unlink: the slave's queue gains or loses an item.
Link(s) == Scoped(QueueLock(s), <<>>)

IsObsolete(s) == Scoped(ChangeLock(s), <<>>)

\* The activity report is saved under _slaveChangeMutex.
MarkAsUpToDate(s) == Scoped(ChangeLock(s), Dispatch(<<>>))

\* A modification that is queued for slave s: its row, then the row of the queue.
Write(s) == IsObsolete(s) \o Dispatch(<<>>) \o Dispatch(Link(s))

\* InterSYNTHESESlaveUpdateService::run, for a slave that needs no dump.
Poll(s) == IsObsolete(s) \o Scoped(QueueLock(s), MarkAsUpToDate(s))

\* Mutant: the transaction is run under the lock.
ClearQueue_UnderLock(s) == Scoped(QueueLock(s), Dispatch(Link(s)))

\* Mutant: the lock is not released after the transaction is filled.
ClearQueue_NoRelease(s) == <<[do |-> "take", lock |-> QueueLock(s)]>> \o Dispatch(Link(s))

\* Deletion of queue rows: the transaction is filled under the lock, and run after.
ClearQueue(s) == Scoped(QueueLock(s), <<>>) \o Dispatch(Link(s))

\* InterSYNTHESEUpdateAckService: the lock _setFromParametersMap takes lives as long as
\* the service.
Ack(s) == Scoped(QueueLock(s), ClearQueue(s) \o MarkAsUpToDate(s))

\* processFullUpdate and what RunBackgroundUpdater does after it.
Dump(s) == IsObsolete(s) \o ClearQueue(s) \o Dispatch(Link(s)) \o MarkAsUpToDate(s)

Program(op, s) ==
    CASE op = "write" -> Write(s)
      [] op = "poll"  -> Poll(s)
      [] op = "ack"   -> Ack(s)
      [] op = "dump"  -> Dump(s)

-----------------------------------------------------------------------------
Init ==
    /\ todo = [t \in Threads |-> <<>>]
    /\ holder = [l \in Locks |-> NoThread]
    /\ depth = [l \in Locks |-> 0]
    /\ runs = 0

Start(t) ==
    /\ todo[t] = <<>>
    /\ runs < MaxRuns
    /\ runs' = runs + 1
    /\ \E op \in Operations, s \in Slaves : todo' = [todo EXCEPT ![t] = Program(op, s)]
    /\ UNCHANGED <<holder, depth>>

\* Whether the next step of t is to take or to release, and which mutex.
Wants(t, do) == todo[t] # <<>> /\ Head(todo[t]).do = do
Wanted(t) == Head(todo[t]).lock

Take(t) ==
    /\ Wants(t, "take")
    /\ holder[Wanted(t)] \in {NoThread, t}
    /\ holder' = [holder EXCEPT ![Wanted(t)] = t]
    /\ depth' = [depth EXCEPT ![Wanted(t)] = @ + 1]
    /\ todo' = [todo EXCEPT ![t] = Tail(@)]
    /\ UNCHANGED runs

Give(t) ==
    /\ Wants(t, "give")
    /\ depth' = [depth EXCEPT ![Wanted(t)] = @ - 1]
    /\ holder' = [holder EXCEPT ![Wanted(t)] = IF depth[Wanted(t)] = 1 THEN NoThread ELSE @]
    /\ todo' = [todo EXCEPT ![t] = Tail(@)]
    /\ UNCHANGED runs

Next == \E t \in Threads : Start(t) \/ Take(t) \/ Give(t)

Spec == Init /\ [][Next]_vars
-----------------------------------------------------------------------------
(* Properties. *)

\* Type of every variable; a mutex without owner is not taken, and a thread whose operation
\* is over owns none.
TypeOK ==
    /\ todo \in [Threads -> Seq(Step)]
    /\ holder \in [Locks -> Threads \cup {NoThread}]
    /\ depth \in [Locks -> Nat]
    /\ \A l \in Locks : depth[l] = 0 <=> holder[l] = NoThread
    /\ \A t \in Threads : todo[t] = <<>> => \A l \in Locks : holder[l] # t
    /\ runs \in 0..MaxRuns

\* Thread t waits for a mutex another thread owns.
Blocked(t) == Wants(t, "take") /\ holder[Wanted(t)] \notin {NoThread, t}

\* What "do no run transation with the lock or we will deadlock" is about: no threads of
\* the master wait for each other in a circle.
NoCircularWait ==
    \A S \in (SUBSET Threads) \ {{}} :
        \E t \in S : ~(Blocked(t) /\ holder[Wanted(t)] \in S)
=============================================================================
