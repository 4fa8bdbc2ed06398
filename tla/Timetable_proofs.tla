-------------------------- MODULE Timetable_proofs --------------------------
(***************************************************************************)
(* For any services, schedules, calendars, planner threads and searches:   *)
(* the services of a path never overtake each other although a new one is  *)
(* only compared with two of them; no iterator of an index is used once    *)
(* its service has left the path, and one kept from an answer only if the  *)
(* services change meanwhile; an index that is up to date skips no         *)
(* service; a search that goes on only looks further; and the searches of  *)
(* an edge find, once and in order, all that runs there between their      *)
(* bounds.                                                                 *)
(***************************************************************************)
EXTENDS Timetable, NatLemmas

\* The index a thread inside of a search reads has been built since it locked the services:
\* it only holds services of the path, even if it has been marked meanwhile.
LoopIndex ==
    \A t \in Threads : search[t].pc \in {"fill", "read", "date", "store", "scan"} =>
        \A dir \in Directions, h \in Hours : index[dir][search[t].rt][h] \in Iterators

IInv == TypeOK /\ IndexHoldsServices /\ LoopIndex

-----------------------------------------------------------------------------
(* The order of the list. *)

LEMMA SameOrderTransitive ==
    ASSUME NEW a \in Timings, NEW b \in Timings, NEW c \in Timings,
           SameOrder(a, b), SameOrder(b, c),
           (a.first < b.first /\ b.first < c.first) \/ (c.first < b.first /\ b.first < a.first)
    PROVE  SameOrder(a, c)
BY TimeAssumption DEF SameOrder

LEMMA SameOrderSymmetric ==
    ASSUME NEW a \in Timings, NEW b \in Timings, SameOrder(a, b)
    PROVE  SameOrder(b, a)
BY TimeAssumption DEF SameOrder

\* A service that is in order with its neighbours is in order with all the others.
LEMMA NeighboursAreEnough ==
    ASSUME timing \in [services -> Timings], NoOvertaking,
           NEW new \in Timings, RespectsLineTheory(new), NEW s \in services
    PROVE  SameOrder(timing[s], new)
<1> DEFINE F(x) == timing[x].first
<1>1. \A x \in services : timing[x] \in Timings /\ F(x) \in Nat
    BY TimeAssumption
<1>2. new.first \in Nat
    BY TimeAssumption
<1>3. CASE F(s) <= new.first
  <2> DEFINE T == {F(x) : x \in {y \in services : F(y) <= new.first}}
  <2>1. T \in SUBSET Nat /\ T # {} /\ (\A k \in T : k < new.first + 1) /\ new.first + 1 \in Nat
      BY <1>1, <1>2, <1>3
  <2>2. PICK k \in T : \A j \in T : j <= k
      BY <2>1, GreatestElement
  <2>3. PICK n \in services : F(n) = k /\ F(n) <= new.first
      BY <2>2
  <2>4. \A x \in services : F(x) <= new.first => F(x) <= F(n)
      BY <2>2, <2>3
  <2>5. SameOrder(timing[n], new)
      BY <2>3, <2>4 DEF RespectsLineTheory, Neighbours
  <2>6. CASE s = n
      BY <2>5, <2>6
  <2>7. CASE s # n
    <3>1. SameOrder(timing[s], timing[n])
        BY <2>7, <2>3 DEF NoOvertaking
    <3>2. F(s) < F(n) /\ F(n) < new.first
        BY <3>1, <2>4, <2>3, <2>5, <1>1, <1>2, <1>3 DEF SameOrder
    <3> QED BY <3>1, <3>2, <2>5, <2>3, <1>1, SameOrderTransitive
  <2> QED BY <2>6, <2>7
<1>4. CASE new.first <= F(s)
  <2> DEFINE T == {F(x) : x \in {y \in services : F(y) >= new.first}}
  <2>1. T \in SUBSET Nat /\ T # {}
      BY <1>1, <1>2, <1>4
  <2>2. PICK k \in T : \A j \in T : k <= j
      BY <2>1, LeastElement
  <2>3. PICK n \in services : F(n) = k /\ F(n) >= new.first
      BY <2>2
  <2>4. \A x \in services : F(x) >= new.first => F(x) >= F(n)
      BY <2>2, <2>3, <1>1
  <2>5. SameOrder(timing[n], new)
      BY <2>3, <2>4 DEF RespectsLineTheory, Neighbours
  <2>6. CASE s = n
      BY <2>5, <2>6
  <2>7. CASE s # n
    <3>1. SameOrder(timing[s], timing[n])
        BY <2>7, <2>3 DEF NoOvertaking
    <3>2. F(n) < F(s) /\ new.first < F(n)
        BY <3>1, <2>4, <2>3, <2>5, <1>1, <1>2, <1>4 DEF SameOrder
    <3> QED BY <3>1, <3>2, <2>5, <2>3, <1>1, SameOrderTransitive
  <2> QED BY <2>6, <2>7
<1> QED BY <1>1, <1>2, <1>3, <1>4

\* Services are added and removed under their lock; nothing else changes their schedules.
LEMMA OrderStep ==
    ASSUME timing \in [services -> Timings], NoOvertaking, [Next]_vars
    PROVE  timing' \in [services' -> Timings] /\ NoOvertaking'
<1>1. CASE AddService
  <2>1. PICK s \in Services \ services, new \in Timings :
            RespectsLineTheory(new) /\ services' = services \cup {s} /\ timing' = With(timing, s, new)
      BY <1>1 DEF AddService
  <2>2. timing'[s] = new /\ \A x \in services : timing'[x] = timing[x] /\ x # s
      BY <2>1 DEF With
  <2>3. timing' \in [services' -> Timings]
      BY <2>1 DEF With
  <2>4. \A x \in services : SameOrder(timing[x], new) /\ SameOrder(new, timing[x])
      BY <2>1, NeighboursAreEnough, SameOrderSymmetric
  <2> QED BY <2>1, <2>2, <2>3, <2>4 DEF NoOvertaking
<1>2. CASE RemoveService
    BY <1>2 DEF RemoveService, Without, NoOvertaking
<1>3. ASSUME ~AddService, ~RemoveService
      PROVE  UNCHANGED <<services, timing>>
  <2>1. ASSUME NEW t \in Threads, Begin(t) \/ Continue(t)
        PROVE  UNCHANGED <<services, timing>>
    <3>1. CASE Scan(t) \/ Step(t)
        BY <3>1, ZenonT(30) DEF Scan, Step, Nothing
    <3> QED BY <2>1, <3>1 DEF Continue, Begin, Call, Rebuild, Fill, Read, Date, Store, Nothing
  <2>2. CASE Update
      BY <1>3, <2>2 DEF Update, SetActive, ClearCalendar, SetInactive, SetRealTime, MarkIndex,
                        ShiftRealTime, ClearRealTime, ChangeShift
  <2> QED BY <2>1, <2>2 DEF Next, vars
<1> QED BY <1>1, <1>2, <1>3 DEF NoOvertaking

\* The neighbours JourneyPattern::respectsLineTheory compares a service with are enough: no
\* two services of a path ever overtake each other.
THEOREM ServicesNeverOvertake == Spec => []NoOvertaking
<1> DEFINE Inv == timing \in [services -> Timings] /\ NoOvertaking
<1>1. Init => Inv
    BY DEF Init, NoOvertaking
<1>2. Inv /\ [Next]_vars => Inv'
    BY OrderStep
<1>3. Inv => NoOvertaking
    OBVIOUS
<1> QED BY <1>1, <1>2, <1>3, PTL DEF Spec

-----------------------------------------------------------------------------
(* Typing. *)

LEMMA DayType == Day \in Nat \ {0}
BY TimeAssumption DEF Day

LEMMA DateIsInt == \A m \in Int : DateOf(m) \in Int /\ TimeOf(m) \in 0 .. Day - 1
BY DayType DEF DateOf, TimeOf

\* Every time of day has an entry in the index.
LEMMA TimeHasHour == \A m \in Int : HourOf(TimeOf(m)) \in Hours
<1>1. SUFFICES ASSUME NEW k \in 0 .. Day - 1 PROVE HourOf(k) \in Hours
    BY DateIsInt
<1>2. HourOf(k) \in Int /\ HourOf(k) * HourLength <= k /\ k < (HourOf(k) + 1) * HourLength
    BY <1>1, TimeAssumption, DayType DEF HourOf
<1>3. HourOf(k) >= 0
    BY <1>1, <1>2, TimeAssumption
<1>4. HourOf(k) < DayHours
    BY <1>1, <1>2, TimeAssumption DEF Day
<1> QED BY <1>2, <1>3, <1>4, TimeAssumption DEF Hours

LEMMA PlannedType ==
    ASSUME TypeOK, NEW s \in services
    PROVE  /\ timing[s] \in Timings /\ timing[s].first \in Nat /\ timing[s].leg \in Nat
           /\ timing[s].rest \in Nat /\ Planned(s) \in Nat
BY TimeAssumption DEF TypeOK, Planned

LEMMA ScheduleType ==
    ASSUME TypeOK, NEW s \in services, NEW rt \in BOOLEAN
    PROVE  Schedule(s, rt) \in Int
<1>1. Planned(s) \in Int
    BY PlannedType
<1>2. shift[s] # None => shift[s] \in Int
    BY TimeAssumption DEF TypeOK
<1> QED BY <1>1, <1>2 DEF Schedule

LEMMA PassageType ==
    ASSUME TypeOK, NEW s \in services, NEW q \in SearchType
    PROVE  RunDay(q, s) \in Int /\ Passage(q, s) \in Int
<1>1. q.moment \in Int /\ q.rt \in BOOLEAN
    BY DEF SearchType
<1>2. ScheduleAt(q, s) \in Int
    BY <1>1, ScheduleType, Zenon DEF ScheduleAt
<1>3. RunDay(q, s) \in Int
    BY <1>1, DateIsInt DEF RunDay
<1> QED BY <1>2, <1>3, DayType DEF Passage

LEMMA NextMomentType ==
    ASSUME NEW q \in SearchType
    PROVE  NextMoment(q) \in Int
<1>1. q.moment \in Int
    BY DEF SearchType
<1>2. DateOf(q.moment) \in Int
    BY <1>1, DateIsInt
<1> QED BY <1>2, DayType, TimeAssumption DEF NextMoment, At

LEMMA RunDaysType ==
    ASSUME TypeOK
    PROVE  RunDays \in SUBSET Int
<1>1. \A s \in services : \A d \in calendar[s] : d \in Int
    BY TimeAssumption DEF TypeOK
<1>2. \A i, d : d \in Int /\ i \in Nat => d + i \in Int
    OBVIOUS
<1>3. \A k : \A i \in 0 .. k : i \in Nat
    OBVIOUS
<1> QED BY <1>1, <1>2, <1>3 DEF RunDays

LEMMA IdleType == Idle \in SearchType
BY DEF Idle, SearchType, Directions

LEMMA EntryType ==
    ASSUME TypeOK, NEW q \in SearchType, NEW h \in Hours
    PROVE  q.dir \in Directions /\ q.rt \in BOOLEAN /\ index[q.dir][q.rt][h] \in Services \cup {None}
BY DEF TypeOK, SearchType

-----------------------------------------------------------------------------
(* Searches. *)

\* Reading and scanning, without what they read.
LEMMA ReadForms ==
    ASSUME NEW t \in Threads, Read(t)
    PROVE  \E pc \in {"undefined", "date"} : \E s, d :
                Becomes(t, [search[t] EXCEPT !.pc = pc, !.next = s, !.disturbed = d])
<1> DEFINE q == search[t]
           entry == index[q.dir][q.rt][HourOf(TimeOf(q.moment))]
           Goes(pc, s) == [q EXCEPT !.pc = pc, !.next = s, !.disturbed = @ \/ IndexUnsettled(t)]
<1>1. \/ Becomes(t, Goes("undefined", None)) \/ Becomes(t, Goes("date", entry))
      \/ \E s \in Iterators : Becomes(t, Goes("date", s))
    BY ZenonT(30) DEF Read
<1>2. \A pc, s : Goes(pc, s) =
        [q EXCEPT !.pc = pc, !.next = s, !.disturbed = q.disturbed \/ IndexUnsettled(t)]
    OBVIOUS
<1> HIDE DEF Goes, q, entry
<1>3. PICK pc \in {"undefined", "date"} : \E s : Becomes(t, Goes(pc, s))
    BY <1>1
<1>4. PICK s : Becomes(t, Goes(pc, s))
    BY <1>3
<1> QED BY <1>2, <1>4 DEF q

ReadsTo(q, entry, pc, x) ==
    \/ pc = "undefined" /\ ReadsFreed(q, entry)
    \/ /\ pc = "date" /\ ~ReadsFreed(q, entry)
       /\ \/ x \in Iterators /\ Further(q, entry, x)
          \/ x = entry /\ \A s \in Iterators : ~Further(q, entry, s)

AfterRead(q, pc, x, unsettled) ==
    [q EXCEPT !.pc = pc, !.next = x, !.disturbed = q.disturbed \/ unsettled]

LEMMA ReadGoes ==
    ASSUME NEW t \in Threads, Read(t)
    PROVE  \E pc, x :
            /\ ReadsTo(search[t], index[search[t].dir][search[t].rt][HourOf(TimeOf(search[t].moment))],
                    pc, x)
            /\ Becomes(t, AfterRead(search[t], pc, x, IndexUnsettled(t)))
BY ZenonT(60) DEF Read, ReadsTo, AfterRead

Hits(q, active) == {s \in From(q.dir, q.next) : active /\ Serves(q, s)}

AfterHit(q, s, k) ==
    IF Beyond(q, Passage(q, s)) THEN [q EXCEPT !.pc = "done"]
    ELSE [q EXCEPT !.pc = "step", !.moment = Passage(q, s), !.kept = {k},
                   !.found = Append(@, [service |-> s, day |-> RunDay(q, s),
                                        at |-> Passage(q, s)])]

LEMMA ScanForms ==
    ASSUME NEW t \in Threads, Scan(t)
    PROVE  \/ Becomes(t, [search[t] EXCEPT !.pc = "date", !.moment = NextMoment(search[t]),
                    !.next = FirstEntry(search[t]),
                    !.disturbed = @ \/ IndexUnsettled(t) \/ outrun])
           \/ \E s \in services, k \in Iterators :
                    /\ \E active : IsFirst(search[t].dir, Hits(search[t], active), s)
                    /\ Holds(search[t].dir, s, k)
                    /\ Becomes(t, AfterHit(search[t], s, k))
BY ZenonT(60) DEF Scan, Hits, AfterHit

\* What a thread may become.
Fits(q) ==
    /\ q \in SearchType
    /\ q.pc \in {"date", "store", "scan"} => q.next \in Iterators
    /\ q.kept = {} \/ \E k \in Iterators \cup {Dangling} : q.kept = {k}

LEMMA SearchFits ==
    ASSUME TypeOK, NEW t \in Threads
    PROVE  Fits(search[t])
BY DEF TypeOK, Fits

\* A step of a thread that leaves the indexes as they are: it fits, and enters the loop with
\* an index that is up to date only.
LEMMA ThreadMoves ==
    ASSUME IInv, NEW t \in Threads, NEW q, Fits(q), Becomes(t, q),
           q.pc \in {"fill", "read", "date", "store", "scan"} =>
                \/ q.rt = search[t].rt /\ search[t].pc \in {"fill", "read", "date", "store", "scan"}
                \/ stale[q.rt] = FALSE,
           UNCHANGED <<services, timing, calendar, shift, clearing, marking, updates, index, stale, unmarked, outrun>>,
           searches' \in 0 .. MaxSearches, cache' \subseteq SUBSET Int
    PROVE  IInv'
<1>1. search \in [Threads -> SearchType] /\ q \in SearchType
    BY DEF IInv, TypeOK, Fits
<1>2. search' \in [Threads -> SearchType] /\ search'[t] = q
      /\ \A u \in Threads \ {t} : search'[u] = search[u]
    BY <1>1 DEF Becomes
<1>3. Iterators' = Iterators
    BY DEF Iterators
<1>4. TypeOK'
    BY <1>2, <1>3 DEF IInv, TypeOK, Fits
<1>5. IndexHoldsServices'
    BY <1>3 DEF IInv, IndexHoldsServices
<1>6. LoopIndex'
  <2>1. ASSUME NEW u \in Threads, search'[u].pc \in {"fill", "read", "date", "store", "scan"},
               NEW dir \in Directions, NEW h \in Hours
        PROVE  index[dir][search'[u].rt][h] \in Iterators
    <3>1. CASE u # t
        BY <2>1, <3>1, <1>2 DEF IInv, LoopIndex
    <3>2. CASE u = t /\ q.rt = search[t].rt
               /\ search[t].pc \in {"fill", "read", "date", "store", "scan"}
        BY <2>1, <3>2, <1>2 DEF IInv, LoopIndex
    <3>3. CASE u = t /\ stale[q.rt] = FALSE
        BY <2>1, <3>3, <1>1, <1>2 DEF IInv, IndexHoldsServices, SearchType
    <3> QED BY <2>1, <3>1, <3>2, <3>3, <1>2
  <2> QED BY <2>1, <1>3 DEF LoopIndex
<1> QED BY <1>4, <1>5, <1>6 DEF IInv

LEMMA BeginIInv ==
    ASSUME IInv, NEW t \in Threads, Begin(t)
    PROVE  IInv'
<1>1. PICK b \in Searches :
        /\ searches < MaxSearches /\ searches' = searches + 1
        /\ Becomes(t, [Idle EXCEPT !.pc = "call", !.dir = b.dir, !.enabled = b.enabled,
                        !.from = b.from, !.limit = b.limit, !.moment = b.from])
        /\ UNCHANGED <<services, timing, calendar, shift, index, stale, cache, clearing, marking,
                       updates, unmarked, outrun>>
    BY DEF Begin
<1> DEFINE q == [Idle EXCEPT !.pc = "call", !.dir = b.dir, !.enabled = b.enabled,
                        !.from = b.from, !.limit = b.limit, !.moment = b.from]
<1>2. b.dir \in Directions /\ b.from \in Int /\ b.limit \in Int /\ b.enabled \in BOOLEAN
    BY TimeAssumption DEF Directions
<1> DEFINE i == Idle
<1>i. i \in SearchType /\ i.kept = {}
    BY IdleType DEF Idle
<1> HIDE DEF i
<1>3. q \in SearchType /\ q.pc = "call" /\ q.kept = {}
  <2> DEFINE r == [i EXCEPT !.pc = "call", !.dir = b.dir, !.enabled = b.enabled,
                        !.from = b.from, !.limit = b.limit, !.moment = b.from]
  <2>1. r \in SearchType /\ r.pc = "call" /\ r.kept = {}
      BY <1>2, <1>i DEF SearchType
  <2> QED BY <2>1 DEF i
<1>4. Fits(q)
    BY <1>3 DEF Fits
<1>5. searches' \in 0 .. MaxSearches /\ cache' \subseteq SUBSET Int
    BY <1>1, TimeAssumption DEF IInv, TypeOK
<1> HIDE DEF q
<1> QED BY <1>1, <1>3, <1>4, <1>5, ThreadMoves DEF q

LEMMA CallIInv ==
    ASSUME IInv, NEW t \in Threads, Call(t)
    PROVE  IInv'
<1> DEFINE o == search[t]
           rt == o.enabled /\ RealTimeReaches(o.moment)
           q == [o EXCEPT !.rt = rt,
                          !.pc = CASE services = {} -> "done"
                                   [] services # {} /\ stale[rt] -> "rebuild"
                                   [] OTHER -> "read"]
<1>1. Becomes(t, q) /\ o.pc = "call"
      /\ UNCHANGED <<services, timing, calendar, shift, clearing, marking, searches, updates, index, stale, cache,
                     unmarked, outrun>>
    BY DEF Call, Nothing
<1>2. Fits(o)
    BY SearchFits DEF IInv
<1>3. rt \in BOOLEAN /\ stale[rt] \in BOOLEAN
    BY <1>2 DEF Fits, SearchType, IInv, TypeOK, RealTimeReaches
<1>4. q \in SearchType /\ q.rt = rt /\ q.kept = o.kept
      /\ q.pc \in {"done", "rebuild", "read"} /\ (q.pc = "read" => ~stale[rt])
    BY <1>2, <1>3 DEF Fits, SearchType
<1>5. Fits(q)
    BY <1>2, <1>4 DEF Fits
<1>6. searches' \in 0 .. MaxSearches /\ cache' \subseteq SUBSET Int
    BY <1>1 DEF IInv, TypeOK
<1>7. q.pc = "read" => stale[q.rt] = FALSE
    BY <1>3, <1>4
<1> HIDE DEF q, o
<1> QED BY <1>1, <1>4, <1>5, <1>6, <1>7, ThreadMoves

LEMMA RebuildIInv ==
    ASSUME IInv, NEW t \in Threads, Rebuild(t)
    PROVE  IInv'
<1> DEFINE o == search[t]
           q == [o EXCEPT !.pc = "fill", !.todo = Directions \X services]
<1>1. /\ Becomes(t, q)
      /\ index' = [dir \in Directions |-> [index[dir] EXCEPT ![o.rt] = NoIndex]]
      /\ stale' = [stale EXCEPT ![o.rt] = FALSE]
      /\ unmarked' = IF o.rt THEN FALSE ELSE unmarked
      /\ UNCHANGED <<services, timing, calendar, shift, clearing, marking, searches, updates, cache, outrun>>
    BY DEF Rebuild, Nothing
<1>2. Fits(o) /\ o.rt \in BOOLEAN
    BY SearchFits DEF IInv, Fits, SearchType
<1>3. services \subseteq Services
    BY DEF IInv, TypeOK
<1>4. Fits(q) /\ q.rt = o.rt
    BY <1>2, <1>3 DEF Fits, SearchType
<1>5. Iterators' = Iterators /\ None \in Iterators /\ Iterators \subseteq Services \cup {None}
    BY <1>1, <1>3 DEF Iterators
<1>6. \A dir \in Directions : index'[dir] = [index[dir] EXCEPT ![o.rt] = NoIndex]
    BY <1>1
<1>7. \A dir \in Directions, h \in Hours :
        /\ index'[dir][o.rt][h] = None
        /\ \A rt \in BOOLEAN \ {o.rt} : index'[dir][rt] = index[dir][rt]
  <2>1. ASSUME NEW dir \in Directions
        PROVE  /\ index'[dir][o.rt] = NoIndex
               /\ \A rt \in BOOLEAN \ {o.rt} : index'[dir][rt] = index[dir][rt]
    <3>1. index[dir] \in [BOOLEAN -> [Hours -> Services \cup {None}]]
        BY DEF IInv, TypeOK
    <3>2. index'[dir] = [index[dir] EXCEPT ![o.rt] = NoIndex]
        BY <1>6
    <3> HIDE DEF o
    <3> QED BY <3>1, <3>2, <1>2
  <2> QED BY <2>1 DEF NoIndex
<1>8. index' \in [Directions -> [BOOLEAN -> [Hours -> Services \cup {None}]]]
  <2>1. NoIndex \in [Hours -> Services \cup {None}]
      BY DEF NoIndex
  <2> QED BY <1>1, <1>2, <2>1 DEF IInv, TypeOK
<1> HIDE DEF q
<1>9. search' \in [Threads -> SearchType] /\ search'[t] = q
      /\ \A u \in Threads \ {t} : search'[u] = search[u]
    BY <1>1, <1>4 DEF Becomes, Fits, IInv, TypeOK
<1>10. TypeOK'
  <2>1. stale' \in [BOOLEAN -> BOOLEAN] /\ unmarked' \in BOOLEAN
      BY <1>1, <1>2 DEF IInv, TypeOK
  <2>2. \A u \in Threads :
            /\ search'[u].pc \in {"date", "store", "scan"} => search'[u].next \in Iterators'
            /\ search'[u].kept = {} \/ \E k \in Iterators' \cup {Dangling} : search'[u].kept = {k}
      BY <1>4, <1>5, <1>9 DEF IInv, TypeOK, Fits
  <2> QED BY <1>1, <1>8, <1>9, <2>1, <2>2 DEF IInv, TypeOK
<1>11. IndexHoldsServices'
  <2>1. ASSUME NEW dir \in Directions, NEW rt \in BOOLEAN, NEW h \in Hours
        PROVE  stale'[rt] \/ index'[dir][rt][h] \in Iterators
    <3>1. CASE rt = o.rt
        BY <3>1, <1>5, <1>7
    <3>2. CASE rt # o.rt
      <4>1. stale'[rt] = stale[rt]
          BY <3>2, <1>1 DEF IInv, TypeOK
      <4> QED BY <3>2, <4>1, <1>7 DEF IInv, IndexHoldsServices
    <3> QED BY <3>1, <3>2
  <2> QED BY <2>1, <1>5 DEF IndexHoldsServices
<1>12. LoopIndex'
  <2>1. ASSUME NEW u \in Threads, search'[u].pc \in {"fill", "read", "date", "store", "scan"},
               NEW dir \in Directions, NEW h \in Hours
        PROVE  index'[dir][search'[u].rt][h] \in Iterators
    <3>1. CASE search'[u].rt = o.rt
        BY <3>1, <1>5, <1>7
    <3>2. CASE search'[u].rt # o.rt
      <4>1. u # t /\ search'[u] = search[u]
          BY <3>2, <1>4, <1>9
      <4>2. search[u].rt \in BOOLEAN
          BY DEF IInv, TypeOK, SearchType
      <4> QED BY <3>2, <4>1, <4>2, <2>1, <1>7 DEF IInv, LoopIndex
    <3> QED BY <3>1, <3>2
  <2> QED BY <2>1, <1>5 DEF LoopIndex
<1> QED BY <1>10, <1>11, <1>12 DEF IInv

LEMMA FillIInv ==
    ASSUME IInv, NEW t \in Threads, Fill(t)
    PROVE  IInv'
<1> DEFINE o == search[t]
           d == IF \E e \in o.todo : e[1] = "next" THEN "next" ELSE "previous"
<1>1. PICK s \in services :
        /\ index' = [index EXCEPT ![d][o.rt] = Indexed(d, o.rt, s, @)]
        /\ Becomes(t, [o EXCEPT !.todo = @ \ {<<d, s>>},
                                !.pc = IF o.todo = {<<d, s>>} THEN "read" ELSE "fill"])
    BY DEF Fill
<1> DEFINE q == [o EXCEPT !.todo = @ \ {<<d, s>>},
                          !.pc = IF o.todo = {<<d, s>>} THEN "read" ELSE "fill"]
<1>2. o.pc = "fill" /\ UNCHANGED <<services, timing, calendar, shift, clearing, marking, searches, updates, stale, cache,
                                  unmarked, outrun>>
    BY DEF Fill, Nothing
<1>3. Fits(o) /\ o.rt \in BOOLEAN /\ d \in Directions
    BY SearchFits DEF IInv, Fits, SearchType, Directions
<1> HIDE DEF d
<1>4. Fits(q) /\ q.rt = o.rt
    BY <1>3 DEF Fits, SearchType
<1>5. Iterators' = Iterators /\ s \in Iterators /\ Iterators \subseteq Services \cup {None}
    BY <1>2 DEF Iterators, IInv, TypeOK
<1> DEFINE old == index[d][o.rt]
           new == Indexed(d, o.rt, s, old)
<1>6. index \in [Directions -> [BOOLEAN -> [Hours -> Services \cup {None}]]]
    BY DEF IInv, TypeOK
<1>7. new \in [Hours -> Services \cup {None}] /\ \A h \in Hours : new[h] = s \/ new[h] = old[h]
    BY <1>3, <1>5, <1>6 DEF Indexed
<1> HIDE DEF new, q
<1>8. index' = [index EXCEPT ![d] = [index[d] EXCEPT ![o.rt] = new]]
    BY <1>1, <1>3, <1>6 DEF new
<1>9. \A dir \in Directions, rt \in BOOLEAN :
        index'[dir][rt] = IF dir = d /\ rt = o.rt THEN new ELSE index[dir][rt]
    BY <1>3, <1>6, <1>8
<1>10. index' \in [Directions -> [BOOLEAN -> [Hours -> Services \cup {None}]]]
    BY <1>3, <1>6, <1>7, <1>8
<1>11. \A dir \in Directions, rt \in BOOLEAN, h \in Hours :
        index'[dir][rt][h] = s \/ index'[dir][rt][h] = index[dir][rt][h]
    BY <1>7, <1>9
<1>12. search' \in [Threads -> SearchType] /\ search'[t] = q
      /\ \A u \in Threads \ {t} : search'[u] = search[u]
    BY <1>1, <1>4 DEF Becomes, Fits, IInv, TypeOK, q
<1>13. TypeOK'
  <2>1. \A u \in Threads :
            /\ search'[u].pc \in {"date", "store", "scan"} => search'[u].next \in Iterators'
            /\ search'[u].kept = {} \/ \E k \in Iterators' \cup {Dangling} : search'[u].kept = {k}
      BY <1>4, <1>5, <1>12 DEF IInv, TypeOK, Fits
  <2> QED BY <1>2, <1>10, <1>12, <2>1 DEF IInv, TypeOK
<1>14. IndexHoldsServices'
  <2>1. ASSUME NEW dir \in Directions, NEW rt \in BOOLEAN, NEW h \in Hours, ~stale[rt]
        PROVE  index'[dir][rt][h] \in Iterators
    <3>1. index[dir][rt][h] \in Iterators
        BY <2>1 DEF IInv, IndexHoldsServices
    <3> QED BY <3>1, <1>5, <1>11
  <2> QED BY <2>1, <1>2, <1>5 DEF IndexHoldsServices
<1>15. LoopIndex'
  <2>1. ASSUME NEW u \in Threads, search'[u].pc \in {"fill", "read", "date", "store", "scan"},
               NEW dir \in Directions, NEW h \in Hours
        PROVE  index'[dir][search'[u].rt][h] \in Iterators
    <3>1. search'[u].rt = search[u].rt /\ search[u].pc \in {"fill", "read", "date", "store", "scan"}
        BY <2>1, <1>2, <1>4, <1>12
    <3>2. search[u].rt \in BOOLEAN
        BY DEF IInv, TypeOK, SearchType
    <3>3. index[dir][search[u].rt][h] \in Iterators
        BY <3>1 DEF IInv, LoopIndex
    <3> QED BY <3>1, <3>2, <3>3, <1>5, <1>11
  <2> QED BY <2>1, <1>5 DEF LoopIndex
<1> QED BY <1>13, <1>14, <1>15 DEF IInv

LEMMA ReadIInv ==
    ASSUME IInv, NEW t \in Threads, Read(t)
    PROVE  IInv'
<1> DEFINE o == search[t]
           entry == index[o.dir][o.rt][HourOf(TimeOf(o.moment))]
           Goes(pc, s) == [o EXCEPT !.pc = pc, !.next = s, !.disturbed = @ \/ IndexUnsettled(t)]
<1>1. /\ o.pc = "read"
      /\ UNCHANGED <<services, timing, calendar, shift, clearing, marking, searches, updates, index,
                     stale, cache, unmarked, outrun>>
    BY DEF Read, Nothing
<1>2. \/ Becomes(t, Goes("undefined", None)) \/ Becomes(t, Goes("date", entry))
      \/ \E s \in Iterators : Becomes(t, Goes("date", s))
    BY ZenonT(30) DEF Read
<1>3. Fits(o)
    BY SearchFits DEF IInv
<1>4. entry \in Iterators
  <2>1. HourOf(TimeOf(o.moment)) \in Hours /\ o.dir \in Directions
      BY <1>3, TimeHasHour DEF Fits, SearchType
  <2> QED BY <1>1, <2>1 DEF IInv, LoopIndex
<1>5. PICK pc \in {"undefined", "date"}, s \in Iterators : Becomes(t, Goes(pc, s))
  <2>1. None \in Iterators
      BY DEF Iterators
  <2> HIDE DEF Goes, entry
  <2> QED BY <1>2, <1>4, <2>1
<1> DEFINE q == Goes(pc, s)
<1>6. IndexUnsettled(t) \in BOOLEAN
    BY DEF IndexUnsettled
<1>7. Fits(q) /\ q.rt = o.rt
  <2>1. s \in Services \cup {None}
      BY <1>5 DEF Iterators, IInv, TypeOK
  <2> HIDE DEF o
  <2>2. o.disturbed \in BOOLEAN
      BY <1>3 DEF Fits, SearchType
  <2>3. (o.disturbed \/ IndexUnsettled(t)) \in BOOLEAN
      BY <2>2, <1>6
  <2> DEFINE bad == o.disturbed \/ IndexUnsettled(t)
             new == [o EXCEPT !.pc = pc, !.next = s, !.disturbed = bad]
  <2>5. q = new /\ bad \in BOOLEAN /\ o \in SearchType
      BY <1>3, <2>3 DEF Fits
  <2> HIDE DEF bad, q
  <2>6. new \in SearchType
      BY <2>1, <2>5, <1>5 DEF SearchType
  <2>7. new.rt = o.rt /\ new.next = s /\ new.kept = o.kept
      BY <2>5 DEF SearchType
  <2>4. q \in SearchType /\ q.rt = o.rt /\ q.next = s /\ q.kept = o.kept
      BY <2>5, <2>6, <2>7
  <2> QED BY <1>3, <1>5, <2>4 DEF Fits
<1>8. searches' \in 0 .. MaxSearches /\ cache' \subseteq SUBSET Int
    BY <1>1 DEF IInv, TypeOK
<1>9. Becomes(t, q)
    BY <1>5
<1> HIDE DEF q
<1> QED BY <1>1, <1>7, <1>8, <1>9, ThreadMoves

LEMMA DateIInv ==
    ASSUME IInv, NEW t \in Threads, Date(t)
    PROVE  IInv'
<1> DEFINE o == search[t]
<1>1. o.pc = "date" /\ UNCHANGED <<services, timing, calendar, shift, clearing, marking, searches, updates, index, stale,
                                  cache, unmarked, outrun>>
    BY DEF Date, Nothing
<1>2. Fits(o) /\ searches' \in 0 .. MaxSearches /\ cache' \subseteq SUBSET Int
    BY <1>1, SearchFits DEF IInv, TypeOK
<1>3. CASE Becomes(t, [o EXCEPT !.pc = "done"])
  <2> DEFINE q == [o EXCEPT !.pc = "done"]
  <2>1. Fits(q) /\ q.pc = "done"
      BY <1>2 DEF Fits, SearchType
  <2> HIDE DEF q
  <2> QED BY <1>1, <1>2, <1>3, <2>1, ThreadMoves DEF q
<1>4. CASE Becomes(t, [o EXCEPT !.pc = "store", !.days = RunDays])
  <2> DEFINE q == [o EXCEPT !.pc = "store", !.days = RunDays]
  <2>1. Fits(q) /\ q.rt = o.rt
    <3>1. RunDays \in SUBSET Int
        BY RunDaysType DEF IInv
    <3> QED BY <1>1, <1>2, <3>1 DEF Fits, SearchType
  <2> HIDE DEF q
  <2> QED BY <1>1, <1>2, <1>4, <2>1, ThreadMoves DEF q
<1>5. CASE Becomes(t, [o EXCEPT !.pc = "scan"])
  <2> DEFINE q == [o EXCEPT !.pc = "scan"]
  <2>1. Fits(q) /\ q.rt = o.rt
      BY <1>1, <1>2 DEF Fits, SearchType
  <2> HIDE DEF q
  <2> QED BY <1>1, <1>2, <1>5, <2>1, ThreadMoves DEF q
<1> QED BY <1>3, <1>4, <1>5 DEF Date

LEMMA StoreIInv ==
    ASSUME IInv, NEW t \in Threads, Store(t)
    PROVE  IInv'
<1> DEFINE o == search[t]
           q == [o EXCEPT !.pc = "scan", !.days = {}]
<1>1. /\ o.pc = "store" /\ cache' = {o.days} /\ Becomes(t, q)
      /\ UNCHANGED <<services, timing, calendar, shift, clearing, marking, searches, updates, index, stale, unmarked, outrun>>
    BY DEF Store, Dating, Nothing
<1>2. Fits(o)
    BY SearchFits DEF IInv
<1>3. searches' \in 0 .. MaxSearches /\ cache' \subseteq SUBSET Int
    BY <1>1, <1>2 DEF IInv, TypeOK, Fits, SearchType
<1>4. Fits(q) /\ q.rt = o.rt
    BY <1>1, <1>2 DEF Fits, SearchType
<1> HIDE DEF q
<1> QED BY <1>1, <1>3, <1>4, ThreadMoves DEF q

LEMMA ScanIInv ==
    ASSUME IInv, NEW t \in Threads, Scan(t)
    PROVE  IInv'
<1> DEFINE o == search[t]
<1>1. o.pc = "scan" /\ UNCHANGED <<services, timing, calendar, shift, clearing, marking, searches, updates, index, stale,
                                  cache, unmarked, outrun>>
    BY ZenonT(30) DEF Scan, Nothing
<1>2. Fits(o) /\ searches' \in 0 .. MaxSearches /\ cache' \subseteq SUBSET Int
    BY <1>1, SearchFits DEF IInv, TypeOK
<1>3. CASE Becomes(t, [o EXCEPT !.pc = "date", !.moment = NextMoment(o), !.next = FirstEntry(o),
                               !.disturbed = @ \/ IndexUnsettled(t) \/ outrun])
  <2> DEFINE bad == o.disturbed \/ IndexUnsettled(t) \/ outrun
             q == [o EXCEPT !.pc = "date", !.moment = NextMoment(o), !.next = FirstEntry(o),
                            !.disturbed = bad]
  <2>1. FirstEntry(o) \in Iterators
    <3>1. 0 \in Hours /\ DayHours - 1 \in Hours
        BY TimeAssumption DEF Hours
    <3>2. o.dir \in Directions
        BY <1>2 DEF Fits, SearchType
    <3> QED BY <1>1, <3>1, <3>2 DEF FirstEntry, IInv, LoopIndex
  <2>2. FirstEntry(o) \in Services \cup {None}
      BY <2>1 DEF Iterators, IInv, TypeOK
  <2>3. NextMoment(o) \in Int
      BY <1>2, NextMomentType DEF Fits
  <2>4. bad \in BOOLEAN
      BY <1>2 DEF Fits, SearchType
  <2> HIDE DEF bad
  <2>5. Fits(q) /\ q.rt = o.rt
      BY <1>2, <2>1, <2>2, <2>3, <2>4 DEF Fits, SearchType
  <2>6. Becomes(t, q)
      BY <1>3 DEF bad
  <2> HIDE DEF q
  <2> QED BY <1>1, <1>2, <2>5, <2>6, ThreadMoves
<1>4. CASE Becomes(t, [o EXCEPT !.pc = "done"])
  <2> DEFINE q == [o EXCEPT !.pc = "done"]
  <2>1. Fits(q) /\ q.pc = "done"
      BY <1>2 DEF Fits, SearchType
  <2> HIDE DEF q
  <2> QED BY <1>1, <1>2, <1>4, <2>1, ThreadMoves DEF q
<1>5. ASSUME NEW s \in services, NEW k \in Iterators,
             Becomes(t, [o EXCEPT !.pc = "step", !.moment = Passage(o, s), !.kept = {k},
                               !.found = Append(@, [service |-> s, day |-> RunDay(o, s),
                                                    at |-> Passage(o, s)])])
      PROVE  IInv'
  <2> DEFINE f == Append(o.found, [service |-> s, day |-> RunDay(o, s), at |-> Passage(o, s)])
             q == [o EXCEPT !.pc = "step", !.moment = Passage(o, s), !.kept = {k}, !.found = f]
  <2>1. RunDay(o, s) \in Int /\ Passage(o, s) \in Int
      BY <1>2, PassageType DEF IInv, Fits
  <2>2. s \in Services /\ k \in Services \cup {None}
      BY <1>5 DEF IInv, TypeOK, Iterators
  <2>3. f \in Seq([service : Services, day : Int, at : Int])
      BY <1>2, <2>1, <2>2 DEF Fits, SearchType
  <2> HIDE DEF f
  <2>4. Fits(q) /\ q.pc = "step"
      BY <1>2, <2>1, <2>2, <2>3, <1>5 DEF Fits, SearchType
  <2>5. Becomes(t, q)
      BY <1>5 DEF f
  <2> HIDE DEF q
  <2> QED BY <1>1, <1>2, <2>4, <2>5, ThreadMoves
<1>6. \/ Becomes(t, [o EXCEPT !.pc = "date", !.moment = NextMoment(o), !.next = FirstEntry(o),
                               !.disturbed = @ \/ IndexUnsettled(t) \/ outrun])
      \/ \E s \in services, k \in Iterators :
            Becomes(t,
                IF Beyond(o, Passage(o, s)) THEN [o EXCEPT !.pc = "done"]
                ELSE [o EXCEPT !.pc = "step", !.moment = Passage(o, s), !.kept = {k},
                               !.found = Append(@, [service |-> s, day |-> RunDay(o, s),
                                                    at |-> Passage(o, s)])])
    BY ZenonT(30) DEF Scan
<1> QED BY <1>3, <1>4, <1>5, <1>6

LEMMA StepIInv ==
    ASSUME IInv, NEW t \in Threads, Step(t)
    PROVE  IInv'
<1> DEFINE o == search[t]
<1>1. o.pc = "step" /\ UNCHANGED <<services, timing, calendar, shift, clearing, marking, searches,
                                  updates, index, stale, cache, unmarked, outrun>>
    BY DEF Step, Nothing
<1>2. Fits(o) /\ searches' \in 0 .. MaxSearches /\ cache' \subseteq SUBSET Int
    BY <1>1, SearchFits DEF IInv, TypeOK
<1>3. ASSUME NEW k \in Iterators, Becomes(t, [o EXCEPT !.pc = "call", !.kept = {k}])
      PROVE  IInv'
  <2> DEFINE q == [o EXCEPT !.pc = "call", !.kept = {k}]
  <2>1. k \in Services \cup {None}
      BY DEF IInv, TypeOK, Iterators
  <2>3. o \in SearchType
      BY <1>2 DEF Fits
  <2>4. q \in SearchType /\ q.pc = "call" /\ q.kept = {k}
      BY <2>1, <2>3 DEF SearchType
  <2>2. Fits(q) /\ q.pc = "call"
      BY <1>3, <2>4 DEF Fits
  <2> HIDE DEF q
  <2> QED BY <1>1, <1>2, <1>3, <2>2, ThreadMoves DEF q
<1>4. CASE Becomes(t, [o EXCEPT !.pc = "undefined"])
  <2> DEFINE q == [o EXCEPT !.pc = "undefined"]
  <2>1. Fits(q) /\ q.pc = "undefined"
      BY <1>2 DEF Fits, SearchType
  <2> HIDE DEF q
  <2> QED BY <1>1, <1>2, <1>4, <2>1, ThreadMoves DEF q
<1> QED BY <1>3, <1>4 DEF Step

-----------------------------------------------------------------------------
(* Changes of the services. *)

\* A change leaves the indexes as they are.  If an iterator may become invalid, the indexes
\* are marked and no thread is inside of a search.
LEMMA UpdateIInv ==
    ASSUME IInv, NEW left, NEW torn, Disturb(left, torn), UNCHANGED index,
           searches' \in 0 .. MaxSearches, updates' \in 0 .. MaxUpdates,
           clearing' \in Nat, marking' \in Nat,
           services' \subseteq Services, timing' \in [services' -> Timings],
           calendar' \in [services' -> SUBSET Dates], shift' \in [services' -> Delays \cup {None}],
           cache' \subseteq SUBSET Int, stale' \in [BOOLEAN -> BOOLEAN],
           unmarked' \in BOOLEAN, outrun' \in BOOLEAN,
           \A k \in Iterators : k = left \/ k \in Iterators',
           \/ \A t \in Threads : ~LocksServices(t)
           \/ Iterators \subseteq Iterators',
           \/ \A rt \in BOOLEAN : stale'[rt]
           \/ Iterators \subseteq Iterators' /\ \A rt \in BOOLEAN : stale[rt] => stale'[rt]
    PROVE  IInv'
<1>1. ASSUME NEW t \in Threads
      PROVE  /\ search'[t] \in SearchType
             /\ search'[t].pc = search[t].pc /\ search'[t].rt = search[t].rt
             /\ search'[t].next = search[t].next
             /\ search'[t].kept = {} \/ \E k \in Iterators' \cup {Dangling} : search'[t].kept = {k}
  <2> DEFINE o == search[t]
             n == IF o.kept = {left} \/ t \in torn THEN {Dangling} ELSE o.kept
             q == [o EXCEPT !.disturbed = o.pc # "idle", !.kept = n]
  <2>1. Fits(o)
      BY SearchFits DEF IInv
  <2>2. search'[t] = q
      BY DEF Disturb
  <2>3. n \in SUBSET (Services \cup {None, Dangling})
      BY <2>1 DEF Fits, SearchType
  <2>4. n = {} \/ \E k \in Iterators' \cup {Dangling} : n = {k}
      BY <2>1 DEF Fits
  <2> HIDE DEF n
  <2>5. o \in SearchType /\ (o.pc # "idle") \in BOOLEAN
      BY <2>1 DEF Fits
  <2>6. q \in SearchType /\ q.pc = o.pc /\ q.rt = o.rt /\ q.next = o.next /\ q.kept = n
      BY <2>3, <2>5 DEF SearchType
  <2> QED BY <2>2, <2>4, <2>6
<1>2. search' \in [Threads -> SearchType]
    BY <1>1 DEF Disturb
<1>3. ASSUME NEW t \in Threads, LocksServices(t)
      PROVE  Iterators \subseteq Iterators'
    BY <1>3
<1>4. TypeOK'
  <2>2. ASSUME NEW t \in Threads, search'[t].pc \in {"date", "store", "scan"}
        PROVE  search'[t].next \in Iterators'
    <3>1. LocksServices(t) /\ search[t].next \in Iterators
        BY <1>1, <2>2 DEF LocksServices, IInv, TypeOK
    <3> QED BY <3>1, <1>1, <1>3
  <2> QED BY <1>1, <1>2, <2>2 DEF TypeOK, IInv
<1>5. IndexHoldsServices'
    BY DEF IInv, IndexHoldsServices, TypeOK
<1>6. LoopIndex'
  <2>1. ASSUME NEW t \in Threads, search'[t].pc \in {"fill", "read", "date", "store", "scan"},
               NEW dir \in Directions, NEW h \in Hours
        PROVE  index[dir][search'[t].rt][h] \in Iterators'
    <3>1. LocksServices(t) /\ index[dir][search[t].rt][h] \in Iterators
        BY <1>1, <2>1 DEF LocksServices, IInv, LoopIndex
    <3> QED BY <3>1, <1>1, <1>3
  <2> QED BY <2>1 DEF LoopIndex
<1> QED BY <1>4, <1>5, <1>6 DEF IInv

\* Changes are counted.
LEMMA ChangeType ==
    ASSUME IInv, Change
    PROVE  searches' \in 0 .. MaxSearches /\ updates' \in 0 .. MaxUpdates
BY TimeAssumption DEF Change, IInv, TypeOK

LEMMA AddServiceIInv ==
    ASSUME IInv, AddService
    PROVE  IInv'
<1>1. PICK s \in Services \ services, new \in Timings, days \in Calendars :
        /\ services' = services \cup {s}
        /\ timing' = With(timing, s, new)
        /\ calendar' = With(calendar, s, days)
        /\ shift' = With(shift, s, None)
    BY DEF AddService
<1>2. /\ Change /\ UNCHANGED <<index, cache, marking, unmarked>> /\ clearing' = clearing + 1
      /\ outrun' = (cache # {}) /\ stale' = [rt \in BOOLEAN |-> TRUE]
      /\ \E torn \in SUBSET Stepping : Disturb(Dangling, torn)
    BY DEF AddService
<1>3. days \in SUBSET Dates
    BY TimeAssumption
<1>4. services' \subseteq Services /\ Iterators \subseteq Iterators'
    BY <1>1 DEF IInv, TypeOK, Iterators
<1>5. timing' \in [services' -> Timings]
    BY <1>1 DEF With, IInv, TypeOK
<1>6. calendar' \in [services' -> SUBSET Dates]
    BY <1>1, <1>3 DEF With, IInv, TypeOK
<1>7. shift' \in [services' -> Delays \cup {None}]
    BY <1>1 DEF With, IInv, TypeOK
<1>8. /\ unmarked' \in BOOLEAN /\ outrun' \in BOOLEAN /\ cache' \subseteq SUBSET Int
      /\ clearing' \in Nat /\ marking' \in Nat
    BY <1>2 DEF IInv, TypeOK
<1>9. stale' \in [BOOLEAN -> BOOLEAN] /\ \A rt \in BOOLEAN : stale'[rt]
    BY <1>2
<1> QED BY <1>2, <1>4, <1>5, <1>6, <1>7, <1>8, <1>9, ChangeType, UpdateIInv

LEMMA RemoveServiceIInv ==
    ASSUME IInv, RemoveService
    PROVE  IInv'
<1>1. PICK s \in services :
        /\ \A t \in Threads : ~LocksServices(t)
        /\ services' = services \ {s}
        /\ timing' = Without(timing, s)
        /\ calendar' = Without(calendar, s)
        /\ shift' = Without(shift, s)
        /\ stale' = [rt \in BOOLEAN |-> TRUE]
        /\ Change /\ UNCHANGED <<index, cache, clearing, marking, unmarked, outrun>>
        /\ \E torn \in SUBSET Stepping : Disturb(s, torn)
    BY DEF RemoveService
<1>2. services' \subseteq Services /\ \A k \in Iterators : k = s \/ k \in Iterators'
    BY <1>1 DEF IInv, TypeOK, Iterators
<1>3. timing' \in [services' -> Timings]
    BY <1>1 DEF Without, IInv, TypeOK
<1>4. calendar' \in [services' -> SUBSET Dates]
    BY <1>1 DEF Without, IInv, TypeOK
<1>5. shift' \in [services' -> Delays \cup {None}]
    BY <1>1 DEF Without, IInv, TypeOK
<1>6. /\ unmarked' \in BOOLEAN /\ outrun' \in BOOLEAN /\ cache' \subseteq SUBSET Int
      /\ clearing' \in Nat /\ marking' \in Nat
    BY <1>1 DEF IInv, TypeOK
<1>7. stale' \in [BOOLEAN -> BOOLEAN] /\ \A rt \in BOOLEAN : stale'[rt]
    BY <1>1
<1> QED BY <1>1, <1>2, <1>3, <1>4, <1>5, <1>6, <1>7, ChangeType, UpdateIInv

\* The services stay; calendars or real time schedules change.
LEMMA ServicesStayIInv ==
    ASSUME IInv, SetActive \/ SetInactive \/ SetRealTime \/ ShiftRealTime \/ ClearRealTime
    PROVE  IInv'
<1>1. /\ Change /\ Disturb(Dangling, {}) /\ UNCHANGED <<services, timing, index, stale, cache>>
      /\ unmarked' = unmarked \/ unmarked' = TRUE
      /\ outrun' = outrun \/ outrun' = (cache # {} \/ \E t \in Threads : Dating(t))
      /\ clearing' = clearing \/ clearing' = clearing + 1
      /\ marking' = marking \/ marking' = marking + 1
    BY DEF SetActive, SetInactive, SetRealTime, ShiftRealTime, ClearRealTime, ChangeShift
<1>2. Iterators' = Iterators
    BY <1>1 DEF Iterators
<1>3. services' \subseteq Services /\ timing' \in [services' -> Timings]
    BY <1>1 DEF IInv, TypeOK
<1>4. calendar' \in [services' -> SUBSET Dates]
  <2>1. calendar \in [services -> SUBSET Dates]
      BY DEF IInv, TypeOK
  <2>2. CASE SetActive
      BY <2>1, <2>2 DEF SetActive
  <2>3. CASE SetInactive
      BY <2>1, <2>3 DEF SetInactive
  <2>4. CASE SetRealTime \/ ShiftRealTime \/ ClearRealTime
      BY <2>1, <2>4 DEF SetRealTime, ShiftRealTime, ClearRealTime, ChangeShift
  <2> QED BY <2>2, <2>3, <2>4
<1>5. shift' \in [services' -> Delays \cup {None}]
    BY DEF IInv, TypeOK, SetActive, SetInactive, SetRealTime, ShiftRealTime, ClearRealTime, ChangeShift
<1>6. cache' \subseteq SUBSET Int
    BY <1>1 DEF IInv, TypeOK
<1>7. unmarked' \in BOOLEAN /\ outrun' \in BOOLEAN /\ clearing' \in Nat /\ marking' \in Nat
  <2>1. outrun \in BOOLEAN /\ (cache # {} \/ \E t \in Threads : Dating(t)) \in BOOLEAN
      BY DEF IInv, TypeOK
  <2>2. outrun' \in BOOLEAN
      BY <1>1, <2>1
  <2>3. clearing' \in Nat /\ marking' \in Nat
      BY <1>1 DEF IInv, TypeOK
  <2> QED BY <1>1, <2>2, <2>3 DEF IInv, TypeOK
<1>8. stale' \in [BOOLEAN -> BOOLEAN] /\ \A rt \in BOOLEAN : stale[rt] => stale'[rt]
    BY <1>1 DEF IInv, TypeOK
<1> QED BY <1>1, <1>2, <1>3, <1>4, <1>5, <1>6, <1>7, <1>8, ChangeType, UpdateIInv

\* The second halves of changes: no service and no counter of the bounds.
LEMMA LaterIInv ==
    ASSUME IInv, ClearCalendar \/ MarkIndex
    PROVE  IInv'
<1>1. /\ UNCHANGED <<services, timing, calendar, shift, index, searches, updates, unmarked>>
      /\ Disturb(Dangling, {})
    BY DEF ClearCalendar, MarkIndex
<1>2. /\ cache' \subseteq SUBSET Int /\ outrun' \in BOOLEAN
      /\ clearing' \in Nat /\ marking' \in Nat
  <2>1. outrun \in BOOLEAN /\ (outrun /\ \E t \in Threads : Dating(t)) \in BOOLEAN
      BY DEF IInv, TypeOK
  <2>2. outrun' \in BOOLEAN
    <3>1. outrun' = outrun \/ outrun' = (outrun /\ \E t \in Threads : Dating(t))
        BY ZenonT(30) DEF ClearCalendar, MarkIndex
    <3> QED BY <2>1, <3>1, Zenon
  <2>3. cache' \subseteq SUBSET Int /\ clearing' \in Nat /\ marking' \in Nat
    <3>1. CASE ClearCalendar
        BY <3>1 DEF ClearCalendar, IInv, TypeOK
    <3>2. CASE MarkIndex
        BY <3>2 DEF MarkIndex, IInv, TypeOK
    <3> QED BY <3>1, <3>2
  <2> QED BY <2>2, <2>3
<1>3. stale' \in [BOOLEAN -> BOOLEAN] /\ \A rt \in BOOLEAN : stale[rt] => stale'[rt]
    BY DEF ClearCalendar, MarkIndex, IInv, TypeOK
<1>4. Iterators' = Iterators
    BY <1>1 DEF Iterators
<1>5. /\ services' \subseteq Services /\ timing' \in [services' -> Timings]
      /\ calendar' \in [services' -> SUBSET Dates]
      /\ shift' \in [services' -> Delays \cup {None}]
      /\ searches' \in 0 .. MaxSearches /\ updates' \in 0 .. MaxUpdates /\ unmarked' \in BOOLEAN
    BY <1>1 DEF IInv, TypeOK
<1> QED BY <1>1, <1>2, <1>3, <1>4, <1>5, UpdateIInv

-----------------------------------------------------------------------------

LEMMA InitIInv ==
    ASSUME Init
    PROVE  IInv
<1>1. search \in [Threads -> SearchType] /\ \A t \in Threads : search[t].pc = "idle" /\ search[t].kept = {}
    BY IdleType DEF Init, Idle
<1>2. calendar \in [services -> SUBSET Dates]
    BY TimeAssumption DEF Init
<1>3. index \in [Directions -> [BOOLEAN -> [Hours -> Services \cup {None}]]]
    BY DEF Init, NoIndex
<1>4. TypeOK
  <2>1. /\ services \subseteq Services /\ timing \in [services -> Timings]
        /\ shift \in [services -> Delays \cup {None}] /\ stale \in [BOOLEAN -> BOOLEAN]
        /\ cache \subseteq SUBSET Int /\ unmarked \in BOOLEAN /\ outrun \in BOOLEAN
        /\ clearing \in Nat /\ marking \in Nat
      BY DEF Init
  <2>2. searches \in 0 .. MaxSearches /\ updates \in 0 .. MaxUpdates
      BY TimeAssumption DEF Init
  <2> QED BY <1>1, <1>2, <1>3, <2>1, <2>2 DEF TypeOK
<1>5. IndexHoldsServices /\ LoopIndex
    BY <1>1 DEF Init, IndexHoldsServices, LoopIndex
<1> QED BY <1>4, <1>5 DEF IInv

LEMMA NextIInv ==
    ASSUME IInv, [Next]_vars
    PROVE  IInv'
<1>1. CASE Update
    BY <1>1, AddServiceIInv, RemoveServiceIInv, ServicesStayIInv, LaterIInv DEF Update
<1>2. ASSUME NEW t \in Threads, Begin(t) \/ Continue(t) PROVE IInv'
    BY <1>2, BeginIInv, CallIInv, RebuildIInv, FillIInv, ReadIInv, DateIInv, StoreIInv, ScanIInv,
       StepIInv DEF Continue
<1>3. CASE UNCHANGED vars
    BY <1>3 DEF vars, IInv, TypeOK, IndexHoldsServices, LoopIndex, Iterators
<1> QED BY <1>1, <1>2, <1>3 DEF Next

\* Threads only loop over the services with iterators that are valid, for they keep the services
\* locked meanwhile, or do not get to their loop (see SearchesReadNothingFreed).
THEOREM TimetableTypeCorrect == Spec => []TypeOK
<1>1. Init => IInv
    BY InitIInv
<1>2. IInv /\ [Next]_vars => IInv'
    BY NextIInv
<1>3. IInv => TypeOK
    BY DEF IInv
<1> QED BY <1>1, <1>2, <1>3, PTL DEF Spec

\* A removal leaves no iterator in an index that is said to be up to date.
THEOREM IndexesHoldServices == Spec => []IndexHoldsServices
<1>1. Init => IInv
    BY InitIInv
<1>2. IInv /\ [Next]_vars => IInv'
    BY NextIInv
<1>3. IInv => IndexHoldsServices
    BY DEF IInv
<1> QED BY <1>1, <1>2, <1>3, PTL DEF Spec

-----------------------------------------------------------------------------
(* What the entries of an index stand for. *)

\* The services a filling thread has put in the index of a direction.
Done(dir, todo) == {s \in services : <<dir, s>> \notin todo}

\* A service that a search from hour h on need not find.
Late(dir, rt, s, h) ==
    IF dir = "next" THEN HourOf(Schedule(s, rt)) < h ELSE HourOf(Schedule(s, rt)) > h

\* The entries ix of a direction skip no service of D that passes from their hour on.
Covers(dir, rt, ix, D) == \A h \in Hours : \A s \in D \ From(dir, ix[h]) : Late(dir, rt, s, h)

\* The index is marked, or its services have changed their schedules without a mark, or to
\* an order that is not that of the list.
Untrusted(rt) == stale[rt] \/ (rt /\ (unmarked \/ ~InOrder(TRUE)))

\* A filling thread goes through the list in its order, and skips nothing of what it has done.
FillingAt(todo, rt) ==
    /\ todo \subseteq Directions \X services
    /\ \A dir \in Directions :
        /\ \A a \in Done(dir, todo), b \in services \ Done(dir, todo) : Ahead(dir, a, b)
        /\ \A h \in Hours : index[dir][rt][h] \in Done(dir, todo) \cup {None}
        /\ Untrusted(rt) \/ Covers(dir, rt, index[dir][rt], Done(dir, todo))

OneFills == \A t, u \in Threads : Indexing(t) /\ Indexing(u) => t = u

Filling == \A t \in Threads : Indexing(t) => FillingAt(search[t].todo, search[t].rt)

IsFilled(rt) == \E t \in Threads : Indexing(t) /\ search[t].rt = rt

Skips ==
    \A dir \in Directions, rt \in BOOLEAN :
        Untrusted(rt) \/ IsFilled(rt) \/ Covers(dir, rt, index[dir][rt], services)

CoverInv == IInv /\ NoOvertaking /\ OneFills /\ Filling /\ Skips

LEMMA SkipsIsIndexSkipsNothing == Skips <=> IndexSkipsNothing
<1>1. ASSUME NEW dir \in Directions, NEW rt \in BOOLEAN
      PROVE  Covers(dir, rt, index[dir][rt], services) <=>
                \A h \in Hours : \A s \in services \ From(dir, index[dir][rt][h]) :
                    IF dir = "next" THEN HourOf(Schedule(s, rt)) < h
                    ELSE HourOf(Schedule(s, rt)) > h
    BY DEF Covers, Late
<1> QED BY <1>1 DEF Skips, IndexSkipsNothing, Untrusted, IsFilled

\* The list is in the order of the planned schedules, and of the real time schedules unless
\* they are not to be trusted.
LEMMA TrustedOrder ==
    ASSUME TypeOK, NoOvertaking, NEW rt \in BOOLEAN, ~Untrusted(rt)
    PROVE  InOrder(rt)
<1>1. CASE rt = TRUE
    BY <1>1 DEF Untrusted
<1>2. CASE rt = FALSE
  <2> SUFFICES ASSUME NEW a \in services, NEW b \in services, timing[a].first < timing[b].first
               PROVE  Schedule(a, FALSE) < Schedule(b, FALSE)
      BY <1>2 DEF InOrder
  <2>1. /\ timing[a].first \in Nat /\ timing[b].first \in Nat
        /\ timing[a].leg \in Nat /\ timing[b].leg \in Nat
      BY PlannedType
  <2>2. a # b
      BY <2>1
  <2>3. timing[a].first + timing[a].leg < timing[b].first + timing[b].leg
      BY <2>1, <2>2 DEF NoOvertaking, SameOrder
  <2>4. Schedule(a, FALSE) = Planned(a) /\ Schedule(b, FALSE) = Planned(b)
      BY <2>1 DEF Schedule, Planned
  <2> QED BY <2>3, <2>4 DEF Planned
<1> QED BY <1>1, <1>2

\* Hours of the index: an hour beyond the entries a schedule is put at is beyond its own hour.
LEMMA HourBounds ==
    ASSUME NEW time \in Int, NEW h \in Hours
    PROVE  /\ HourOf(time) \in Int /\ h \in Int
           /\ h > IndexHour(time) => HourOf(time) < h
           /\ h < IndexHour(time) => HourOf(time) > h
<1>1. HourOf(time) \in Int /\ h \in Int /\ h <= DayHours - 1 /\ DayHours \in Nat
    BY TimeAssumption DEF HourOf, Hours
<1> QED BY <1>1 DEF IndexHour

\* The next service of the list goes to the entries from which nothing was to be had, and to
\* no others, if the schedules are in the order of the list.
LEMMA IndexedCovers ==
    ASSUME TypeOK, NEW rt \in BOOLEAN, InOrder(rt), NEW dir \in Directions,
           NEW D \in SUBSET services, NEW s \in services, \A a \in D : Ahead(dir, a, s),
           NEW ix, \A h \in Hours : ix[h] \in D \cup {None},
           Covers(dir, rt, ix, D)
    PROVE  Covers(dir, rt, Indexed(dir, rt, s, ix), D \cup {s})
<1> DEFINE time == Schedule(s, rt)
           new == Indexed(dir, rt, s, ix)
<1>1. time \in Int
    BY ScheduleType
<1>2. None \notin services
    BY TimeAssumption DEF TypeOK
<1>3. SUFFICES ASSUME NEW h \in Hours, NEW x \in (D \cup {s}) \ From(dir, new[h])
               PROVE  Late(dir, rt, x, h)
    BY DEF Covers
<1>4. new[h] = s \/ new[h] = ix[h]
    BY DEF Indexed
<1>5. ix[h] = None /\ (IF dir = "next" THEN h <= IndexHour(time) ELSE h >= IndexHour(time))
        => new[h] = s
    BY DEF Indexed
<1>6. ASSUME ix[h] # None PROVE new[h] = ix[h]
  <2>1. ix[h] \in services /\ Ahead(dir, ix[h], s)
      BY <1>6
  <2>2. IF dir = "next" THEN Schedule(ix[h], rt) < time ELSE Schedule(ix[h], rt) > time
      BY <2>1 DEF InOrder, Ahead
  <2>3. Schedule(ix[h], rt) \in Int
      BY <2>1, ScheduleType
  <2> HIDE DEF time
  <2>4. ~(IF dir = "next" THEN Schedule(ix[h], rt) > time ELSE Schedule(ix[h], rt) < time)
      BY <1>1, <2>2, <2>3
  <2> QED BY <1>6, <2>4 DEF Indexed, time
<1> HIDE DEF new
<1>7. CASE ix[h] = None
  <2>1. From(dir, ix[h]) = {}
      BY <1>7 DEF From
  <2>2. CASE x \in D
      BY <2>1, <2>2 DEF Covers
  <2>3. CASE x = s
    <3>1. new[h] # s
        BY <1>2, <1>3, <2>3 DEF From
    <3>2. IF dir = "next" THEN ~(h <= IndexHour(time)) ELSE ~(h >= IndexHour(time))
        BY <1>5, <1>7, <3>1
    <3>3. IndexHour(time) \in Int
        BY <1>1, TimeAssumption DEF IndexHour, HourOf
    <3>4. IF dir = "next" THEN HourOf(time) < h ELSE HourOf(time) > h
        BY <1>1, <3>2, <3>3, HourBounds
    <3> QED BY <2>3, <3>4 DEF Late
  <2> QED BY <2>2, <2>3
<1>8. CASE ix[h] # None
  <2>1. new[h] = ix[h] /\ ix[h] \in D
      BY <1>6, <1>8
  <2>2. x # s
      BY <1>2, <2>1 DEF From
  <2> QED BY <2>1, <2>2 DEF Covers
<1> QED BY <1>7, <1>8

\* Entries that stay, on services that stay where they are and pass when they did.
LEMMA CoversKept ==
    ASSUME UNCHANGED <<services, timing>>, NEW rt \in BOOLEAN, NEW dir \in Directions,
           NEW ix, NEW D \in SUBSET services,
           \A s \in services : Schedule(s, rt)' = Schedule(s, rt),
           Covers(dir, rt, ix, D)
    PROVE  Covers(dir, rt, ix, D)'
<1>1. \A x : From(dir, x)' = From(dir, x)
    BY DEF From, Ahead
<1>2. \A s \in D, h \in Hours : Late(dir, rt, s, h)' <=> Late(dir, rt, s, h)
    BY DEF Late
<1> QED BY <1>1, <1>2 DEF Covers

\* A step that touches no index, and no list of services that is being gone through.
LEMMA IndexesStay ==
    ASSUME CoverInv,
           UNCHANGED <<services, timing, index>>,
           \A t \in Threads : Indexing(t)' <=> Indexing(t),
           \A t \in Threads : Indexing(t) => search'[t].todo = search[t].todo
                                             /\ search'[t].rt = search[t].rt,
           \A rt \in BOOLEAN : Untrusted(rt) => Untrusted(rt)',
           \A rt \in BOOLEAN : \/ Untrusted(rt)'
                               \/ \A s \in services : Schedule(s, rt)' = Schedule(s, rt)
    PROVE  OneFills' /\ Filling' /\ Skips'
<1>1. OneFills'
    BY DEF CoverInv, OneFills
<1>2. ASSUME NEW rt \in BOOLEAN, NEW dir \in Directions, NEW D \in SUBSET services,
             Untrusted(rt) \/ Covers(dir, rt, index[dir][rt], D)
      PROVE  Untrusted(rt)' \/ Covers(dir, rt, index[dir][rt], D)'
  <2>1. PICK ix : ix = index[dir][rt]
      OBVIOUS
  <2>2. CASE Untrusted(rt)'
      BY <2>2
  <2>3. CASE ~Untrusted(rt)'
    <3>1. Covers(dir, rt, ix, D)
        BY <1>2, <2>1, <2>3
    <3>2. Covers(dir, rt, ix, D)'
        BY <2>3, <3>1, CoversKept
    <3>3. index'[dir][rt] = ix
        BY <2>1
    <3> QED BY <3>2, <3>3 DEF Covers
  <2> QED BY <2>2, <2>3
<1>3. \A dir, todo : Done(dir, todo)' = Done(dir, todo)
    BY DEF Done
<1>4. ASSUME NEW rt \in BOOLEAN, NEW todo, FillingAt(todo, rt)
      PROVE  FillingAt(todo, rt)'
  <2>1. todo \subseteq Directions \X services
      BY <1>4 DEF FillingAt
  <2>2. ASSUME NEW dir \in Directions
        PROVE  /\ \A a \in Done(dir, todo)', b \in services' \ Done(dir, todo)' :
                        Ahead(dir, a, b)'
               /\ \A h \in Hours : index'[dir][rt][h] \in Done(dir, todo)' \cup {None}
               /\ Untrusted(rt)' \/ Covers(dir, rt, index[dir][rt], Done(dir, todo))'
    <3>1. PICK D : D = Done(dir, todo)
        OBVIOUS
    <3>2. D \in SUBSET services /\ Done(dir, todo)' = D
        BY <1>3, <3>1 DEF Done
    <3>3. /\ \A a \in D, b \in services \ D : Ahead(dir, a, b)
          /\ \A h \in Hours : index[dir][rt][h] \in D \cup {None}
          /\ Untrusted(rt) \/ Covers(dir, rt, index[dir][rt], D)
        BY <1>4, <3>1 DEF FillingAt
    <3>4. Untrusted(rt)' \/ Covers(dir, rt, index[dir][rt], D)'
        BY <1>2, <3>2, <3>3
    <3>5. Covers(dir, rt, index[dir][rt], D)' => Covers(dir, rt, index[dir][rt], Done(dir, todo))'
        BY <3>2 DEF Covers
    <3>6. \A a \in D, b \in services' \ D : Ahead(dir, a, b)'
        BY <3>3 DEF Ahead
    <3> QED BY <3>2, <3>3, <3>4, <3>5, <3>6
  <2> QED BY <2>1, <2>2 DEF FillingAt
<1>5. Filling'
  <2>1. ASSUME NEW t \in Threads, Indexing(t)'
        PROVE  FillingAt(search[t].todo, search[t].rt)'
    <3>1. PICK todo, rt : todo = search[t].todo /\ rt = search[t].rt
        OBVIOUS
    <3>2. Indexing(t) /\ search'[t].todo = todo /\ search'[t].rt = rt
        BY <2>1, <3>1
    <3>3. rt \in BOOLEAN
        BY <3>1 DEF CoverInv, IInv, TypeOK, SearchType
    <3>4. FillingAt(todo, rt)'
        BY <1>4, <3>1, <3>2, <3>3 DEF CoverInv, Filling
    <3> QED BY <3>2, <3>4 DEF FillingAt
  <2> QED BY <2>1 DEF Filling
<1>6. Skips'
  <2>1. ASSUME NEW dir \in Directions, NEW rt \in BOOLEAN
        PROVE  Untrusted(rt)' \/ IsFilled(rt)' \/ Covers(dir, rt, index[dir][rt], services)'
    <3>1. IsFilled(rt) => IsFilled(rt)'
        BY DEF IsFilled
    <3>2. PICK D : D = services
        OBVIOUS
    <3>3. CASE Untrusted(rt) \/ Covers(dir, rt, index[dir][rt], services)
      <4>1. Untrusted(rt)' \/ Covers(dir, rt, index[dir][rt], D)'
          BY <1>2, <3>2, <3>3
      <4>2. Covers(dir, rt, index[dir][rt], D)' => Covers(dir, rt, index[dir][rt], services)'
          BY <3>2 DEF Covers
      <4> QED BY <4>1, <4>2
    <3> QED BY <3>1, <3>3 DEF CoverInv, Skips
  <2> QED BY <2>1 DEF Skips
<1> QED BY <1>1, <1>5, <1>6

\* What a thread does outside of the building of an index.
LEMMA ThreadStays ==
    ASSUME CoverInv, NEW t \in Threads,
           Begin(t) \/ Call(t) \/ Read(t) \/ Date(t) \/ Store(t) \/ Scan(t) \/ Step(t)
    PROVE  OneFills' /\ Filling' /\ Skips'
<1>1. UNCHANGED <<services, timing, shift, index, stale, unmarked>>
  <2>1. CASE Scan(t) \/ Read(t)
      BY <2>1, ZenonT(30) DEF Scan, Read, Nothing
  <2> QED BY <2>1 DEF Begin, Call, Date, Store, Step, Nothing
<1>2. PICK q : Becomes(t, q) /\ q.pc # "fill" /\ search[t].pc # "fill"
  <2>1. search[t] \in SearchType
      BY DEF CoverInv, IInv, TypeOK
  <2>2. CASE Begin(t)
      BY <2>1, <2>2 DEF Begin, SearchType, Idle
  <2>3. CASE Call(t)
      BY <2>1, <2>3 DEF Call, SearchType
  <2>4. CASE Read(t)
    <3>1. PICK pc \in {"undefined", "date"} : \E s, d :
            Becomes(t, [search[t] EXCEPT !.pc = pc, !.next = s, !.disturbed = d])
        BY <2>4, ReadForms
    <3>2. PICK s, d : Becomes(t, [search[t] EXCEPT !.pc = pc, !.next = s, !.disturbed = d])
        BY <3>1
    <3>3. search[t].pc = "read"
        BY <2>4 DEF Read
    <3> QED BY <2>1, <3>2, <3>3 DEF SearchType
  <2>5. CASE Date(t)
      BY <2>1, <2>5 DEF Date, SearchType
  <2>6. CASE Store(t)
      BY <2>1, <2>6 DEF Store, Dating, SearchType
  <2>7. CASE Scan(t)
    <3>1. search[t].pc = "scan"
        BY <2>7 DEF Scan
    <3>2. PICK q : Becomes(t, q) /\ q.pc # "fill"
      <4>1. CASE Becomes(t, [search[t] EXCEPT !.pc = "date", !.moment = NextMoment(search[t]),
                    !.next = FirstEntry(search[t]),
                    !.disturbed = @ \/ IndexUnsettled(t) \/ outrun])
        <5> DEFINE d == search[t].disturbed \/ IndexUnsettled(t) \/ outrun
                   q == [search[t] EXCEPT !.pc = "date", !.moment = NextMoment(search[t]),
                                          !.next = FirstEntry(search[t]), !.disturbed = d]
        <5>1. Becomes(t, q)
            BY <4>1
        <5> HIDE DEF d
        <5>2. q.pc = "date"
            BY <2>1 DEF SearchType
        <5> QED BY <5>1, <5>2
      <4>2. CASE \E s \in services, k \in Iterators :
                    /\ \E active : IsFirst(search[t].dir, Hits(search[t], active), s)
                    /\ Holds(search[t].dir, s, k)
                    /\ Becomes(t, AfterHit(search[t], s, k))
        <5>1. PICK s, k : Becomes(t, AfterHit(search[t], s, k))
            BY <4>2
        <5>2. AfterHit(search[t], s, k).pc # "fill"
            BY <2>1 DEF AfterHit, SearchType
        <5> QED BY <5>1, <5>2
      <4> QED BY <2>7, <4>1, <4>2, ScanForms
    <3> QED BY <3>1, <3>2
  <2>8. CASE Step(t)
      BY <2>1, <2>8 DEF Step, SearchType
  <2> QED BY <2>2, <2>3, <2>4, <2>5, <2>6, <2>7, <2>8
<1>3. search'[t] = q /\ \A u \in Threads \ {t} : search'[u] = search[u]
    BY <1>2 DEF Becomes, CoverInv, IInv, TypeOK
<1>4. \A u \in Threads : Indexing(u)' <=> Indexing(u)
    BY <1>2, <1>3 DEF Indexing
<1>5. \A u \in Threads : Indexing(u) => search'[u] = search[u]
    BY <1>2, <1>3 DEF Indexing
<1>6. \A s, rt : Schedule(s, rt)' = Schedule(s, rt)
    BY <1>1 DEF Schedule, Planned
<1>7. \A rt : Untrusted(rt)' <=> Untrusted(rt)
    BY <1>1, <1>6 DEF Untrusted, InOrder
<1> QED BY <1>1, <1>4, <1>5, <1>6, <1>7, IndexesStay

LEMMA RebuildCovers ==
    ASSUME CoverInv, NEW t \in Threads, Rebuild(t)
    PROVE  OneFills' /\ Filling' /\ Skips'
<1>1. PICK o : o = search[t]
    OBVIOUS
<1>2. PICK k : k = o.rt
    OBVIOUS
<1>3. /\ \A u \in Threads : ~Indexing(u)
      /\ index' = [dir \in Directions |-> [index[dir] EXCEPT ![k] = NoIndex]]
      /\ stale' = [stale EXCEPT ![k] = FALSE] /\ unmarked' = IF k THEN FALSE ELSE unmarked
      /\ Becomes(t, [o EXCEPT !.pc = "fill", !.todo = Directions \X services])
      /\ UNCHANGED <<services, timing, calendar, shift>>
    BY <1>1, <1>2 DEF Rebuild, Nothing
<1>4. o \in SearchType /\ k \in BOOLEAN /\ search \in [Threads -> SearchType]
    BY <1>1, <1>2 DEF CoverInv, IInv, TypeOK, SearchType
<1>5. /\ search'[t].pc = "fill" /\ search'[t].todo = Directions \X services
      /\ search'[t].rt = k
      /\ \A u \in Threads \ {t} : search'[u] = search[u]
  <2> DEFINE q == [o EXCEPT !.pc = "fill", !.todo = Directions \X services]
  <2>1. q.pc = "fill" /\ q.todo = Directions \X services /\ q.rt = k
      BY <1>2, <1>4 DEF SearchType
  <2>2. Becomes(t, q)
      BY <1>3
  <2> HIDE DEF q
  <2> QED BY <1>4, <2>1, <2>2 DEF Becomes
<1>6. Indexing(t)' /\ \A u \in Threads \ {t} : ~Indexing(u)'
    BY <1>3, <1>5 DEF Indexing
<1>7. \A dir \in Directions :
        /\ index'[dir][k] = NoIndex
        /\ \A rt \in BOOLEAN \ {k} : index'[dir][rt] = index[dir][rt]
  <2> TAKE dir \in Directions
  <2>1. index[dir] \in [BOOLEAN -> [Hours -> Services \cup {None}]]
      BY DEF CoverInv, IInv, TypeOK
  <2> QED BY <1>3, <1>4, <2>1
<1>8. OneFills'
    BY <1>6 DEF OneFills
<1>9. Filling'
  <2>1. \A dir \in Directions : {s \in services : <<dir, s>> \notin Directions \X services} = {}
      OBVIOUS
  <2> DEFINE todo == Directions \X services
  <2>2. \A dir \in Directions : Done(dir, todo)' = {}
      BY <1>3, <2>1 DEF Done
  <2>3. FillingAt(todo, k)'
    <3>1. todo' \subseteq Directions \X services'
        BY <1>3
    <3>2. ASSUME NEW dir \in Directions
          PROVE  /\ \A a \in Done(dir, todo)', b \in services' \ Done(dir, todo)' :
                        Ahead(dir, a, b)'
                 /\ \A h \in Hours : index'[dir][k][h] \in Done(dir, todo)' \cup {None}
                 /\ Covers(dir, k, index[dir][k], Done(dir, todo))'
        BY <1>7, <2>2 DEF Covers, NoIndex
    <3> QED BY <3>1, <3>2 DEF FillingAt
  <2>4. ASSUME NEW u \in Threads, Indexing(u)'
        PROVE  FillingAt(search[u].todo, search[u].rt)'
    <3>1. u = t
        BY <1>6, <2>4
    <3>2. search'[u].todo = todo' /\ search'[u].rt = k
        BY <1>3, <1>5, <3>1
    <3> QED BY <2>3, <3>2 DEF FillingAt, Done
  <2> QED BY <2>4 DEF Filling
<1>10. Skips'
  <2>1. ASSUME NEW dir \in Directions, NEW rt \in BOOLEAN, rt # k
        PROVE  Untrusted(rt)' \/ Covers(dir, rt, index[dir][rt], services)'
    <3>1. \A s \in services : Schedule(s, rt)' = Schedule(s, rt)
        BY <1>3 DEF Schedule, Planned
    <3>2. Untrusted(rt) => Untrusted(rt)'
      <4>1. stale'[rt] = stale[rt]
          BY <1>3, <2>1 DEF CoverInv, IInv, TypeOK
      <4>2. \A s \in services : Schedule(s, TRUE)' = Schedule(s, TRUE)
          BY <1>3 DEF Schedule, Planned
      <4>3. InOrder(TRUE)' <=> InOrder(TRUE)
          BY <1>3, <4>2 DEF InOrder
      <4>4. rt => ~k
          BY <1>4, <2>1
      <4> QED BY <1>3, <4>1, <4>3, <4>4 DEF Untrusted
    <3>3. ~IsFilled(rt)
        BY <1>3 DEF IsFilled
    <3>4. CASE ~Untrusted(rt)
      <4>1. PICK ix, D : ix = index[dir][rt] /\ D = services
          OBVIOUS
      <4>2. Covers(dir, rt, ix, D)
          BY <3>3, <3>4, <4>1 DEF CoverInv, Skips
      <4>3. Covers(dir, rt, ix, D)'
          BY <1>3, <3>1, <4>1, <4>2, CoversKept
      <4>4. index'[dir][rt] = ix /\ services' = D
          BY <1>3, <1>7, <2>1, <4>1
      <4> QED BY <4>3, <4>4 DEF Covers
    <3> QED BY <3>2, <3>4
  <2>2. IsFilled(k)'
      BY <1>5, <1>6 DEF IsFilled
  <2> QED BY <1>4, <2>1, <2>2 DEF Skips
<1> QED BY <1>8, <1>9, <1>10

LEMMA FillCovers ==
    ASSUME CoverInv, NEW t \in Threads, Fill(t)
    PROVE  OneFills' /\ Filling' /\ Skips'
<1>1. PICK o : o = search[t]
    OBVIOUS
<1>2. PICK k, todo : k = o.rt /\ todo = o.todo
    OBVIOUS
<1>3. PICK d : d = IF \E e \in todo : e[1] = "next" THEN "next" ELSE "previous"
    OBVIOUS
<1>4. PICK s \in services :
        /\ IsFirst(d, {x \in services : <<d, x>> \in todo}, s)
        /\ index' = [index EXCEPT ![d][k] = Indexed(d, k, s, @)]
        /\ Becomes(t, [o EXCEPT !.todo = @ \ {<<d, s>>},
                                !.pc = IF o.todo = {<<d, s>>} THEN "read" ELSE "fill"])
    BY <1>1, <1>2, <1>3 DEF Fill
<1>5. Indexing(t) /\ UNCHANGED <<services, timing, calendar, shift, stale, unmarked>>
    BY DEF Fill, Nothing, Indexing
<1>6. o \in SearchType /\ k \in BOOLEAN /\ d \in Directions /\ search \in [Threads -> SearchType]
    BY <1>1, <1>2, <1>3 DEF CoverInv, IInv, TypeOK, SearchType, Directions
<1> DEFINE rest == todo \ {<<d, s>>}
<1>7. /\ search'[t].todo = rest /\ search'[t].rt = k
      /\ search'[t].pc = IF rest = {} THEN "read" ELSE "fill"
      /\ \A u \in Threads \ {t} : search'[u] = search[u]
  <2>1. <<d, s>> \in todo
      BY <1>4, TimeAssumption DEF IsFirst, CoverInv, IInv, TypeOK
  <2> DEFINE pc == IF todo = {<<d, s>>} THEN "read" ELSE "fill"
             q == [o EXCEPT !.todo = rest, !.pc = pc]
  <2>2. pc = IF rest = {} THEN "read" ELSE "fill"
      BY <2>1
  <2> HIDE DEF pc
  <2>3. q.pc = pc /\ q.todo = rest /\ q.rt = k
      BY <1>2, <1>6 DEF SearchType
  <2>4. Becomes(t, q)
      BY <1>2, <1>4 DEF pc
  <2> HIDE DEF q
  <2> QED BY <1>6, <2>2, <2>3, <2>4 DEF Becomes
<1>8. PICK old : old = index[d][k]
    OBVIOUS
<1>9. PICK new : new = Indexed(d, k, s, old)
    OBVIOUS
<1>10. \A dir \in Directions, rt \in BOOLEAN :
        index'[dir][rt] = IF dir = d /\ rt = k THEN new ELSE index[dir][rt]
  <2>1. index \in [Directions -> [BOOLEAN -> [Hours -> Services \cup {None}]]]
      BY DEF CoverInv, IInv, TypeOK
  <2>2. index' = [index EXCEPT ![d] = [index[d] EXCEPT ![k] = new]]
      BY <1>4, <1>6, <1>8, <1>9, <2>1
  <2> QED BY <1>6, <2>1, <2>2
<1>11. \A u \in Threads \ {t} : ~Indexing(u) /\ ~Indexing(u)'
    BY <1>5, <1>7 DEF CoverInv, OneFills, Indexing
<1>12. OneFills'
    BY <1>11 DEF OneFills
<1>13. FillingAt(todo, k)
    BY <1>1, <1>2, <1>5 DEF CoverInv, Filling
<1>14. /\ \A x, rt : Schedule(x, rt)' = Schedule(x, rt)
       /\ \A dir, a, b : Ahead(dir, a, b)' <=> Ahead(dir, a, b)
    BY <1>5 DEF Schedule, Planned, Ahead
<1>15. \A rt : Untrusted(rt)' <=> Untrusted(rt)
    BY <1>5, <1>14 DEF Untrusted, InOrder
<1>16. ASSUME NEW dir \in Directions, NEW ix, NEW rt \in BOOLEAN, NEW D \in SUBSET services,
              Covers(dir, rt, ix, D)
       PROVE  Covers(dir, rt, ix, D)'
    BY <1>5, <1>14, <1>16, CoversKept
<1>17. FillingAt(rest, k)'
  <2>1. rest \subseteq Directions \X services'
      BY <1>5, <1>13 DEF FillingAt
  <2>2. ASSUME NEW dir \in Directions
        PROVE  /\ \A a \in Done(dir, rest)', b \in services' \ Done(dir, rest)' :
                        Ahead(dir, a, b)'
               /\ \A h \in Hours : index'[dir][k][h] \in Done(dir, rest)' \cup {None}
               /\ Untrusted(k)' \/ Covers(dir, k, index[dir][k], Done(dir, rest))'
    <3>1. PICK D : D = Done(dir, todo)
        OBVIOUS
    <3>2. /\ \A a \in D, b \in services \ D : Ahead(dir, a, b)
          /\ \A h \in Hours : index[dir][k][h] \in D \cup {None}
          /\ Untrusted(k) \/ Covers(dir, k, index[dir][k], D)
          /\ D \in SUBSET services
        BY <1>13, <3>1 DEF FillingAt, Done
    <3>3. CASE dir # d
      <4>1. Done(dir, rest)' = D
          BY <1>5, <3>1, <3>3 DEF Done
      <4>2. PICK ix : ix = index[dir][k]
          OBVIOUS
      <4>3. index'[dir][k] = ix
          BY <1>6, <1>10, <3>3, <4>2
      <4>4. Untrusted(k)' \/ Covers(dir, k, ix, D)'
          BY <1>6, <1>15, <1>16, <3>2, <4>2
      <4>5. Covers(dir, k, ix, D)' => Covers(dir, k, index[dir][k], Done(dir, rest))'
          BY <4>1, <4>3 DEF Covers
      <4>6. \A a \in D, b \in services' \ D : Ahead(dir, a, b)'
          BY <1>5, <1>14, <3>2
      <4> QED BY <3>2, <4>1, <4>2, <4>3, <4>4, <4>5, <4>6
    <3>4. CASE dir = d
      <4>1. PICK E : E = D \cup {s}
          OBVIOUS
      <4>2. Done(dir, rest)' = E
          BY <1>5, <3>1, <3>4, <4>1 DEF Done
      <4>3. s \notin D /\ \A a \in D : Ahead(dir, a, s)
        <5>1. <<d, s>> \in todo
            BY <1>4, TimeAssumption DEF IsFirst, CoverInv, IInv, TypeOK
        <5> QED BY <3>1, <3>2, <3>4, <5>1 DEF Done
      <4>4. \A x \in services \ E : Ahead(dir, s, x)
          BY <1>4, <3>1, <3>4, <4>1 DEF IsFirst, Done
      <4>5. index'[dir][k] = new
          BY <1>6, <1>10, <3>4
      <4>6. \A h \in Hours : new[h] \in E \cup {None}
        <5>1. \A h \in Hours : new[h] = s \/ new[h] = old[h]
            BY <1>9 DEF Indexed
        <5> QED BY <1>8, <3>2, <3>4, <4>1, <5>1
      <4>7. Untrusted(k)' \/ Covers(dir, k, new, E)'
        <5>1. CASE Untrusted(k)
            BY <1>15, <5>1
        <5>2. CASE ~Untrusted(k)
          <6>1. InOrder(k)
              BY <1>6, <5>2, TrustedOrder DEF CoverInv, IInv
          <6>2. Covers(d, k, old, D)
              BY <1>8, <3>2, <3>4, <5>2
          <6>3. \A h \in Hours : old[h] \in D \cup {None}
              BY <1>8, <3>2, <3>4
          <6>4. Covers(d, k, new, E)
              BY <1>6, <1>9, <3>2, <3>4, <4>1, <4>3, <6>1, <6>2, <6>3, IndexedCovers
                 DEF CoverInv, IInv
          <6>5. E \in SUBSET services
              BY <3>2, <4>1
          <6> QED BY <1>6, <1>16, <3>4, <6>4, <6>5
        <5> QED BY <5>1, <5>2
      <4>8. Covers(dir, k, new, E)' => Covers(dir, k, index[dir][k], Done(dir, rest))'
          BY <4>2, <4>5 DEF Covers
      <4>9. \A a \in E, b \in services' \ E : Ahead(dir, a, b)'
          BY <1>5, <1>14, <3>2, <4>1, <4>4
      <4> QED BY <4>2, <4>5, <4>6, <4>7, <4>8, <4>9
    <3> QED BY <3>3, <3>4
  <2> QED BY <2>1, <2>2 DEF FillingAt
<1>18. Filling'
  <2>1. ASSUME NEW u \in Threads, Indexing(u)'
        PROVE  FillingAt(search[u].todo, search[u].rt)'
    <3>1. u = t
        BY <1>11, <2>1
    <3> QED BY <1>7, <1>17, <3>1 DEF FillingAt, Done
  <2> QED BY <2>1 DEF Filling
<1>19. Skips'
  <2>1. ASSUME NEW dir \in Directions, NEW rt \in BOOLEAN
        PROVE  Untrusted(rt)' \/ IsFilled(rt)' \/ Covers(dir, rt, index[dir][rt], services)'
    <3>1. CASE rt = k /\ rest # {}
      <4>1. Indexing(t)' /\ search'[t].rt = rt
          BY <1>7, <3>1 DEF Indexing
      <4> QED BY <4>1 DEF IsFilled
    <3>2. CASE rt = k /\ rest = {}
      <4>1. Done(dir, rest)' = services'
          BY <3>2 DEF Done
      <4>2. Untrusted(k)' \/ Covers(dir, k, index[dir][k], Done(dir, rest))'
          BY <1>17 DEF FillingAt
      <4>3. Covers(dir, k, index[dir][k], Done(dir, rest))'
                => Covers(dir, k, index[dir][k], services)'
          BY <4>1 DEF Covers
      <4> QED BY <3>2, <4>2, <4>3
    <3>3. CASE rt # k
      <4>1. ~IsFilled(rt)
          BY <1>1, <1>2, <1>11, <3>3 DEF IsFilled
      <4>2. PICK ix, D : ix = index[dir][rt] /\ D = services
          OBVIOUS
      <4>3. Untrusted(rt) \/ Covers(dir, rt, ix, D)
          BY <4>1, <4>2 DEF CoverInv, Skips
      <4>4. index'[dir][rt] = ix /\ services' = D
          BY <1>5, <1>10, <3>3, <4>2
      <4>5. Untrusted(rt)' \/ Covers(dir, rt, ix, D)'
          BY <1>15, <1>16, <4>2, <4>3
      <4>6. Covers(dir, rt, ix, D)' => Covers(dir, rt, index[dir][rt], services)'
          BY <4>4 DEF Covers
      <4> QED BY <4>5, <4>6
    <3> QED BY <3>1, <3>2, <3>3
  <2> QED BY <2>1 DEF Skips
<1> QED BY <1>12, <1>18, <1>19

\* A change of the services, the calendars or the delays.
LEMMA UpdateCovers ==
    ASSUME CoverInv, Update
    PROVE  OneFills' /\ Filling' /\ Skips'
<1>1. ASSUME NEW left, NEW torn, Disturb(left, torn), NEW t \in Threads
      PROVE  /\ Indexing(t)' <=> Indexing(t)
             /\ search'[t].todo = search[t].todo /\ search'[t].rt = search[t].rt
  <2>1. search[t] \in SearchType
      BY DEF CoverInv, IInv, TypeOK
  <2> QED BY <1>1, <2>1 DEF Disturb, Indexing, SearchType
<1>2. CASE AddService \/ RemoveService
  <2>1. \A t \in Threads : ~LocksServices(t)
      BY <1>2 DEF AddService, RemoveService
  <2>2. \A rt \in BOOLEAN : stale'[rt] = TRUE
      BY <1>2 DEF AddService, RemoveService
  <2>3. \A t \in Threads : ~Indexing(t)
      BY <2>1 DEF LocksServices, Indexing
  <2>4. PICK left, torn : Disturb(left, torn)
      BY <1>2 DEF AddService, RemoveService
  <2>5. \A t \in Threads : ~Indexing(t)'
      BY <1>1, <2>3, <2>4
  <2> QED BY <2>2, <2>5 DEF OneFills, Filling, Skips, Untrusted
<1>3. CASE SetActive \/ SetInactive
  <2>1. Disturb(Dangling, {}) /\ UNCHANGED <<services, timing, shift, index, stale, unmarked>>
      BY <1>3 DEF SetActive, SetInactive
  <2>2. \A s, rt : Schedule(s, rt)' = Schedule(s, rt)
      BY <2>1 DEF Schedule, Planned
  <2>3. \A rt : Untrusted(rt)' <=> Untrusted(rt)
      BY <2>1, <2>2 DEF Untrusted, InOrder
  <2> QED BY <1>1, <2>1, <2>2, <2>3, IndexesStay
<1>4. CASE SetRealTime \/ ShiftRealTime \/ ClearRealTime
  <2>1. Disturb(Dangling, {}) /\ UNCHANGED <<services, timing, index>>
      BY <1>4 DEF SetRealTime, ShiftRealTime, ClearRealTime, ChangeShift
  <2>2. \A s : Schedule(s, FALSE)' = Schedule(s, FALSE)
      BY <2>1 DEF Schedule, Planned
  <2>3. stale'[FALSE] = stale[FALSE]
      BY <1>4 DEF SetRealTime, ShiftRealTime, ClearRealTime, ChangeShift
  <2>4. Untrusted(FALSE)' <=> Untrusted(FALSE)
      BY <2>3 DEF Untrusted
  <2>5. unmarked'
      BY <1>4 DEF SetRealTime, ShiftRealTime, ClearRealTime, ChangeShift
  <2>6. Untrusted(TRUE)'
      BY <2>5 DEF Untrusted
  <2>7. \A rt \in BOOLEAN : rt = TRUE \/ rt = FALSE
      OBVIOUS
  <2>8. \A rt \in BOOLEAN : /\ Untrusted(rt) => Untrusted(rt)'
                            /\ \/ Untrusted(rt)'
                               \/ \A s \in services : Schedule(s, rt)' = Schedule(s, rt)
    <3> TAKE rt \in BOOLEAN
    <3>1. CASE rt = TRUE
        BY <2>6, <3>1
    <3>2. CASE rt = FALSE
        BY <2>2, <2>4, <3>2
    <3> QED BY <2>7, <3>1, <3>2
  <2> QED BY <1>1, <2>1, <2>8, IndexesStay
<1>5. CASE ClearCalendar \/ MarkIndex
  <2>1. UNCHANGED <<services, timing, shift, index, unmarked>> /\ Disturb(Dangling, {})
      BY <1>5 DEF ClearCalendar, MarkIndex
  <2>2. \A rt \in BOOLEAN : stale[rt] => stale'[rt]
      BY <1>5 DEF ClearCalendar, MarkIndex, CoverInv, IInv, TypeOK
  <2>3. \A s, rt : Schedule(s, rt)' = Schedule(s, rt)
      BY <2>1 DEF Schedule, Planned
  <2>4. \A rt \in BOOLEAN : Untrusted(rt) => Untrusted(rt)'
      BY <2>1, <2>2, <2>3 DEF Untrusted, InOrder
  <2> QED BY <1>1, <2>1, <2>3, <2>4, IndexesStay
<1> QED BY <1>2, <1>3, <1>4, <1>5 DEF Update

LEMMA InitCovers ==
    ASSUME Init
    PROVE  CoverInv
<1>1. \A t \in Threads : ~Indexing(t)
    BY DEF Init, Idle, Indexing
<1>2. \A rt \in BOOLEAN : Untrusted(rt)
    BY DEF Init, Untrusted
<1>3. NoOvertaking
    BY DEF Init, NoOvertaking
<1> QED BY <1>1, <1>2, <1>3, InitIInv DEF CoverInv, OneFills, Filling, Skips

LEMMA NextCovers ==
    ASSUME CoverInv, [Next]_vars
    PROVE  CoverInv'
<1>1. IInv' /\ NoOvertaking'
    BY NextIInv, OrderStep DEF CoverInv, IInv, TypeOK
<1>2. CASE Update
    BY <1>1, <1>2, UpdateCovers DEF CoverInv
<1>3. ASSUME NEW t \in Threads, Begin(t) \/ Continue(t)
      PROVE  CoverInv'
    BY <1>1, <1>3, ThreadStays, RebuildCovers, FillCovers DEF Continue, CoverInv
<1>4. CASE UNCHANGED vars
  <2>1. UNCHANGED <<services, timing, shift, index, stale, unmarked, search>>
      BY <1>4 DEF vars
  <2>2. \A s, rt : Schedule(s, rt)' = Schedule(s, rt)
      BY <2>1 DEF Schedule, Planned
  <2>3. \A rt : Untrusted(rt)' <=> Untrusted(rt)
      BY <2>1, <2>2 DEF Untrusted, InOrder
  <2>4. \A t \in Threads : Indexing(t)' <=> Indexing(t)
      BY <2>1 DEF Indexing
  <2>5. OneFills' /\ Filling' /\ Skips'
      BY <2>1, <2>2, <2>3, <2>4, IndexesStay
  <2> QED BY <1>1, <2>5 DEF CoverInv
<1> QED BY <1>2, <1>3, <1>4 DEF Next

\* The index that is said to be up to date skips no service from any hour on, whichever thread
\* has built it and whatever has been added, removed or delayed since: the services are put
\* in it in the order of the list, which is that of the passages at the edge.
THEOREM IndexesSkipNothing == Spec => []IndexSkipsNothing
<1>1. Init => CoverInv
    BY InitCovers
<1>2. CoverInv /\ [Next]_vars => CoverInv'
    BY NextCovers
<1>3. CoverInv => IndexSkipsNothing
    BY SkipsIsIndexSkipsNothing DEF CoverInv
<1> QED BY <1>1, <1>2, <1>3, PTL DEF Spec

-----------------------------------------------------------------------------
(* The moment of a search. *)

Forward(q, m) == IF q.dir = "next" THEN m > q.moment ELSE m < q.moment

LEMMA MomentParts ==
    ASSUME NEW m \in Int
    PROVE  /\ DateOf(m) \in Int /\ TimeOf(m) \in 0 .. Day - 1
           /\ m = DateOf(m) * Day + TimeOf(m) /\ Morning * HourLength \in 0 .. Day - 1
           /\ HourOf(TimeOf(m)) < Morning => TimeOf(m) < Morning * HourLength
<1>1. DateOf(m) \in Int /\ TimeOf(m) \in 0 .. Day - 1
    BY DateIsInt
<1>2. m = DateOf(m) * Day + TimeOf(m)
    BY DayType DEF DateOf, TimeOf
<1>3. Morning * HourLength \in 0 .. Day - 1
  <2>1. Morning * HourLength \in Nat /\ (DayHours - Morning) * HourLength >= HourLength
      BY TimeAssumption
  <2>2. Day = Morning * HourLength + (DayHours - Morning) * HourLength
      BY TimeAssumption DEF Day
  <2> QED BY <2>1, <2>2, TimeAssumption
<1>4. ASSUME HourOf(TimeOf(m)) < Morning PROVE TimeOf(m) < Morning * HourLength
  <2>1. /\ HourOf(TimeOf(m)) \in Int
        /\ TimeOf(m) < (HourOf(TimeOf(m)) + 1) * HourLength
      BY <1>1, TimeAssumption, DayType DEF HourOf
  <2>2. (HourOf(TimeOf(m)) + 1) * HourLength <= Morning * HourLength
      BY <1>4, <2>1, TimeAssumption
  <2>3. TimeOf(m) \in Int /\ (HourOf(TimeOf(m)) + 1) * HourLength \in Int
        /\ Morning * HourLength \in Int
      BY <1>1, <1>3, <2>1, DayType, TimeAssumption
  <2> QED BY <2>1, <2>2, <2>3
<1> QED BY <1>1, <1>2, <1>3, <1>4

\* A search that has found nothing on a date goes on strictly beyond the moment it is at: at
\* the end of the night, at that of the service day, or on the day before.
LEMMA NextMomentIsFurther ==
    ASSUME NEW q \in SearchType
    PROVE  Forward(q, NextMoment(q))
<1> DEFINE m == q.moment
           date == DateOf(m)
           time == TimeOf(m)
           night == Morning * HourLength
<1>1. m \in Int /\ q.dir \in Directions
    BY DEF SearchType
<1>2. /\ date \in Int /\ time \in Int /\ time >= 0 /\ time < Day /\ m = date * Day + time
      /\ night \in Int /\ night >= 0 /\ Day \in Int /\ date * Day \in Int
      /\ HourOf(time) < Morning => time < night
  <2>1. /\ date \in Int /\ time \in 0 .. Day - 1 /\ m = date * Day + time
        /\ night \in 0 .. Day - 1
        /\ HourOf(time) < Morning => time < night
      BY <1>1, MomentParts
  <2> HIDE DEF date, time, night, m
  <2> QED BY <2>1, DayType
<1>3. (date + 1) * Day = date * Day + Day /\ (date + 0) * Day = date * Day
    BY <1>2
<1> HIDE DEF date, time, night, m
<1>4. CASE q.dir = "previous"
  <2>1. NextMoment(q) = date * Day - 1
      BY <1>4 DEF NextMoment, date, m
  <2> QED BY <1>2, <1>4, <2>1 DEF Forward, m
<1>5. CASE q.dir # "previous" /\ HourOf(time) < Morning
  <2>1. NextMoment(q) = (date + 0) * Day + night
      BY <1>5 DEF NextMoment, At, date, time, night, m
  <2> QED BY <1>1, <1>2, <1>3, <1>5, <2>1 DEF Forward, Directions, m
<1>6. CASE q.dir # "previous" /\ ~(HourOf(time) < Morning)
  <2>1. NextMoment(q) = (date + 1) * Day + night
      BY <1>6 DEF NextMoment, At, date, time, night, m
  <2> QED BY <1>1, <1>2, <1>3, <1>6, <2>1 DEF Forward, Directions, m
<1> QED BY <1>4, <1>5, <1>6

\* A service that is found does not pass before (or after, backwards) the moment.
LEMMA PassageIsNotBack ==
    ASSUME TypeOK, NEW q \in SearchType, NEW s \in services, Serves(q, s)
    PROVE  Passage(q, s) = q.moment \/ Forward(q, Passage(q, s))
<1> DEFINE m == q.moment
           date == DateOf(m)
           time == TimeOf(m)
           over == Overnight(q, s)
           at == ScheduleAt(q, s)
<1>1. m \in Int /\ q.dir \in Directions /\ q.rt \in BOOLEAN
    BY DEF SearchType
<1>2. /\ date \in Int /\ time \in Int /\ m = date * Day + time
      /\ Day \in Int /\ date * Day \in Int
  <2>1. date \in Int /\ time \in 0 .. Day - 1 /\ m = date * Day + time
      BY <1>1, MomentParts
  <2> HIDE DEF date, time, m
  <2> QED BY <2>1, DayType
<1>3. at \in Int
    BY <1>1, ScheduleType, Zenon DEF ScheduleAt
<1>4. (date - 1) * Day = date * Day - Day /\ (date - 0) * Day = date * Day
    BY <1>2
<1> HIDE DEF date, time, over, at, m
<1>5. Passage(q, s) = (date - IF over THEN 1 ELSE 0) * Day + at
    BY DEF Passage, RunDay, date, over, at, m
<1>6. IF q.dir = "next" THEN time + (IF over THEN Day ELSE 0) <= at
      ELSE time + (IF over THEN Day ELSE 0) >= at
    BY DEF Serves, time, over, at, m
<1>7. CASE over
    BY <1>1, <1>2, <1>3, <1>4, <1>5, <1>6, <1>7 DEF Forward, m
<1>8. CASE ~over
    BY <1>1, <1>2, <1>3, <1>4, <1>5, <1>6, <1>8 DEF Forward, m
<1> QED BY <1>7, <1>8

Advances(t) ==
    LET q == search[t]
        new == search'[t]
        further == IF q.dir = "next" THEN new.moment > q.moment ELSE new.moment < q.moment
    IN  q.pc \in {"read", "date", "store", "scan"} =>
            \/ further
            \/ new.moment = q.moment /\ ~(q.pc = "scan" /\ new.pc = "date")

LEMMA ScanAdvances ==
    ASSUME IInv, NEW t \in Threads, Scan(t)
    PROVE  Advances(t)
<1> DEFINE q == search[t]
<1>2. q \in SearchType /\ search \in [Threads -> SearchType] /\ TypeOK /\ None \notin services
    BY TimeAssumption DEF IInv, TypeOK
<1>3. CASE Becomes(t, [q EXCEPT !.pc = "date", !.moment = NextMoment(q), !.next = FirstEntry(q),
                                !.disturbed = @ \/ IndexUnsettled(t) \/ outrun])
  <2>1. search'[t].moment = NextMoment(q)
      BY <1>2, <1>3 DEF Becomes, SearchType
  <2> HIDE DEF q
  <2> QED BY <1>2, <2>1, NextMomentIsFurther DEF Forward, Advances, q
<1>4. CASE \E s \in services, k \in Iterators :
                /\ \E active : IsFirst(q.dir, Hits(q, active), s)
                /\ Holds(q.dir, s, k)
                /\ Becomes(t, AfterHit(q, s, k))
  <2>1. PICK s \in services, k \in Iterators :
            /\ \E active : IsFirst(q.dir, Hits(q, active), s)
            /\ Holds(q.dir, s, k)
            /\ Becomes(t, AfterHit(q, s, k))
      BY <1>4
  <2> DEFINE n == AfterHit(q, s, k)
  <2>2. search'[t] = n
      BY <1>2, <2>1 DEF Becomes
  <2> HIDE DEF q
  <2>3. \/ n.moment = q.moment /\ n.pc = "done"
        \/ n.moment = Passage(q, s) /\ n.pc = "step"
      BY <1>2 DEF AfterHit, SearchType
  <2>4. Serves(q, s)
    <3>1. PICK active : IsFirst(q.dir, Hits(q, active), s)
        BY <2>1
    <3>2. s \in Hits(q, active)
        BY <1>2, <2>1, <3>1 DEF IsFirst
    <3> QED BY <3>2 DEF Hits
  <2>5. n.moment = q.moment \/ Forward(q, n.moment)
      BY <1>2, <2>3, <2>4, PassageIsNotBack DEF Forward
  <2> HIDE DEF n
  <2> QED BY <2>2, <2>3, <2>5 DEF Forward, Advances, q
<1> QED BY <1>3, <1>4, ScanForms

LEMMA MomentStays ==
    ASSUME NEW t \in Threads, search'[t].moment = search[t].moment,
           search[t].pc = "scan" => search'[t].pc # "date"
    PROVE  Advances(t)
BY DEF Advances

LEMMA StepAdvances ==
    ASSUME IInv, [Next]_vars, NEW t \in Threads
    PROVE  Advances(t)
<1>1. search[t] \in SearchType /\ search \in [Threads -> SearchType]
    BY DEF IInv, TypeOK
<1>2. ASSUME search'[t] = search[t] PROVE Advances(t)
    BY <1>2, MomentStays
<1>3. CASE Update
  <2>1. search' = search \/ \E left, torn : Disturb(left, torn)
      BY <1>3 DEF Update, AddService, RemoveService, SetActive, ClearCalendar, SetInactive,
                  SetRealTime, MarkIndex, ShiftRealTime, ClearRealTime, ChangeShift
  <2>2. search'[t].moment = search[t].moment /\ search'[t].pc = search[t].pc
    <3>1. ASSUME NEW left, NEW torn, Disturb(left, torn)
          PROVE  search'[t].moment = search[t].moment /\ search'[t].pc = search[t].pc
        BY <1>1, <3>1 DEF Disturb, SearchType
    <3> QED BY <2>1, <3>1
  <2> QED BY <2>2, MomentStays
<1>4. ASSUME NEW u \in Threads, Begin(u) \/ Continue(u), u # t PROVE Advances(t)
  <2>1. \E q : Becomes(u, q)
    <3>1. CASE Read(u) \/ Scan(u)
        BY <3>1, ReadForms, ScanForms
    <3> QED BY <1>4, <3>1 DEF Begin, Continue, Call, Rebuild, Fill, Date, Store, Step
  <2>2. search'[t] = search[t]
      BY <1>1, <1>4, <2>1 DEF Becomes
  <2> QED BY <1>2, <2>2
<1>5. CASE Begin(t)
    BY <1>5 DEF Begin, Advances
<1>6. CASE Call(t) \/ Rebuild(t) \/ Fill(t)
    BY <1>6 DEF Call, Rebuild, Fill, Advances
<1>7. CASE Read(t)
  <2>1. PICK pc, s, d : Becomes(t, [search[t] EXCEPT !.pc = pc, !.next = s, !.disturbed = d])
      BY <1>7, ReadForms
  <2>2. search'[t].moment = search[t].moment /\ search[t].pc = "read"
      BY <1>1, <1>7, <2>1 DEF Read, Becomes, SearchType
  <2> QED BY <2>2, MomentStays
<1>8. CASE Date(t)
  <2>1. search'[t].moment = search[t].moment /\ search[t].pc = "date"
    <3>1. PICK q : Becomes(t, q) /\ q.moment = search[t].moment /\ search[t].pc = "date"
        BY <1>1, <1>8 DEF Date, SearchType
    <3> QED BY <1>1, <3>1 DEF Becomes
  <2> QED BY <2>1, MomentStays
<1>9. CASE Store(t)
  <2>1. search'[t].moment = search[t].moment /\ search[t].pc = "store"
      BY <1>1, <1>9 DEF Store, Dating, Becomes, SearchType
  <2> QED BY <2>1, MomentStays
<1>10. CASE Scan(t)
    BY <1>10, ScanAdvances
<1>11. CASE Step(t)
  <2>1. search'[t].moment = search[t].moment /\ search[t].pc = "step"
    <3>1. PICK q : Becomes(t, q) /\ q.moment = search[t].moment /\ search[t].pc = "step"
        BY <1>1, <1>11 DEF Step, SearchType
    <3> QED BY <1>1, <3>1 DEF Becomes
  <2> QED BY <2>1, MomentStays
<1>12. CASE UNCHANGED vars
    BY <1>2, <1>12 DEF vars
<1> QED BY <1>3, <1>4, <1>5, <1>6, <1>7, <1>8, <1>9, <1>10, <1>11, <1>12 DEF Next, Continue

\* The loop of the planner over an edge never goes back in time, and goes on strictly beyond
\* a date on which it has found nothing, whatever the services, the hours of a day and the
\* morning, and whatever changes meanwhile.
THEOREM SearchesAlwaysAdvance == Spec => SearchesAdvance
<1>1. Init => IInv
    BY InitIInv
<1>2. IInv /\ [Next]_vars => IInv'
    BY NextIInv
<1>3. IInv /\ [Next]_vars =>
        [\A t \in Threads :
            LET q == search[t]
                new == search'[t]
                further == IF q.dir = "next" THEN new.moment > q.moment
                           ELSE new.moment < q.moment
            IN  q.pc \in {"read", "date", "store", "scan"} =>
                    \/ further
                    \/ new.moment = q.moment /\ ~(q.pc = "scan" /\ new.pc = "date")]_vars
    BY StepAdvances DEF Advances
<1> QED BY <1>1, <1>2, <1>3, PTL DEF Spec, SearchesAdvance

-----------------------------------------------------------------------------
(* What a search finds.  Past and Reached are < and <= in its direction. *)

Past(q, a, b) == IF q.dir = "next" THEN a < b ELSE b < a

Reached(q, a, b) == IF q.dir = "next" THEN a <= b ELSE b <= a

\* The service day of a moment: its date, or the day before until the morning.
ServiceDay(m) == DateOf(m) - IF HourOf(TimeOf(m)) < Morning THEN 1 ELSE 0

\* When service s passes on day d, and the answer that says so.
PassesAt(q, s, d) == d * Day + Schedule(s, q.enabled)

Answer(q, s, d) == [service |-> s, day |-> d, at |-> PassesAt(q, s, d)]

Answers(q) == {q.found[i] : i \in DOMAIN q.found}

\* What a search has still to find, its limit apart: service s on day d.
IsToFind(q, s, d) ==
    /\ s \in services /\ d \in calendar[s]
    /\ Reached(q, q.from, PassesAt(q, s, d)) /\ Answer(q, s, d) \notin Answers(q)

InAnswerOrder(q) ==
    \A i, j \in DOMAIN q.found : i < j => Past(q, q.found[i].at, q.found[j].at)

\* The moment of a search is between what it has found and what it has still to find.
MomentBetween(q) ==
    /\ InAnswerOrder(q) /\ Reached(q, q.from, q.moment)
    /\ \A x \in Answers(q) :
        /\ x.service \in services /\ x.day \in calendar[x.service]
        /\ x = Answer(q, x.service, x.day)
        /\ Reached(q, q.from, x.at) /\ Reached(q, x.at, q.limit) /\ Reached(q, x.at, q.moment)
    /\ \A s, d : IsToFind(q, s, d) => Reached(q, q.moment, PassesAt(q, s, d))

\* Backwards from a moment of the night, which has no entry in the index.
AtNight(q) == q.dir = "previous" /\ HourOf(TimeOf(q.moment)) < Morning

Today(q, s) == PassesAt(q, s, ServiceDay(q.moment))

\* What was found last is what the moment of the search stands for.
AllIsAhead(q) ==
    /\ \A s, d : IsToFind(q, s, d) => Past(q, q.moment, PassesAt(q, s, d))
    /\ ~AtNight(q) /\ ~Beyond(q, q.moment)

\* The iterator of the last answer is on the service found.
KeptIsFound(q) ==
    /\ \E y \in services, h \in Iterators :
        /\ q.kept = {h} /\ Holds(q.dir, y, h)
        /\ \A s \in services : Ahead(q.dir, y, s) <=> Past(q, q.moment, Today(q, s))
    /\ AllIsAhead(q)

\* The iterator kept from the last answer is where the rest of the service day begins.
KeptIsNext(q) ==
    \/ q.kept = {} /\ q.found = <<>> /\ q.moment = q.from
    \/ /\ \E k \in Iterators :
            /\ \E h \in Iterators :
                    q.kept = {h} /\ \A x \in Iterators : IsOn(q.dir, h, x) <=> x = k
            /\ \A s \in services : s \in From(q.dir, k) <=> Past(q, q.moment, Today(q, s))
       /\ AllIsAhead(q)

\* The loop over the services finds what is left of the service day, and nothing again.
NextLeadsOn(q) ==
    /\ AtNight(q) => q.next = None
    /\ \A s : ~AtNight(q) /\ IsToFind(q, s, ServiceDay(q.moment)) => s \in From(q.dir, q.next)
    /\ \A s \in From(q.dir, q.next) :
        Reached(q, q.moment, Today(q, s)) => Answer(q, s, ServiceDay(q.moment)) \notin Answers(q)

\* What a search reads, as long as nothing disturbs it.
Ready(q) ==
    /\ q.pc \in {"rebuild", "fill", "read", "date", "store", "scan"} /\ ~Beyond(q, q.moment)
            => q.rt = q.enabled
    /\ q.pc \in {"fill", "read", "date", "store", "scan"} => ~stale[q.rt]
    /\ q.pc \in {"store", "scan"} => ~Beyond(q, q.moment)
    /\ q.pc = "scan" => cache # {}

\* How far it has come.
OnItsWay(q) ==
    /\ q.pc # "done" => MomentBetween(q)
    /\ q.pc \in {"call", "rebuild", "fill", "read"} => KeptIsNext(q)
    /\ q.pc = "step" => KeptIsFound(q)
    /\ q.pc \in {"date", "store", "scan"} /\ ~Beyond(q, q.moment) => NextLeadsOn(q)
    /\ q.pc = "done" => Answers(q) = Expected(q) /\ InAnswerOrder(q)
    /\ q.pc # "undefined"

SearchInv == \A t \in Threads : \A q \in {search[t]} :
    q.pc # "idle" /\ ~q.disturbed /\ Conventional(q) => Ready(q) /\ OnItsWay(q)

\* A calendar that is stored, or about to be, has every date on which a service runs, unless
\* the cache was cleared while it was computed.
DatesInv == ~outrun =>
    /\ \A days \in cache : RunDays \subseteq days
    /\ \A t \in Threads : Dating(t) => RunDays \subseteq search[t].days

\* Backwards, an entry of the index is not after its hour.
EntriesInv == \A rt \in BOOLEAN : \A h \in Hours :
    LET s == index["previous"][rt][h] IN
        Untrusted(rt) \/ s = None \/ (s \in services /\ IndexHour(Schedule(s, rt)) <= h)

FindInv == CoverInv /\ SearchInv /\ DatesInv /\ EntriesInv

-----------------------------------------------------------------------------
(* Hours and service days. *)

LEMMA HourBelow ==
    ASSUME NEW time \in Int, NEW h \in Int
    PROVE  HourOf(time) \in Int /\ (HourOf(time) < h <=> time < h * HourLength)
<1>1. HourLength \in Nat \ {0}
    BY TimeAssumption
<1> DEFINE k == HourOf(time)
<1>2. k \in Int /\ k * HourLength <= time /\ time < (k + 1) * HourLength
    BY <1>1 DEF HourOf
<1> HIDE DEF k
<1>3. CASE k < h
  <2>1. (k + 1) * HourLength <= h * HourLength
      BY <1>1, <1>2, <1>3
  <2>2. (k + 1) * HourLength \in Int /\ h * HourLength \in Int
      BY <1>1, <1>2
  <2>3. time < h * HourLength
      BY <1>2, <2>1, <2>2
  <2> QED BY <1>2, <1>3, <2>3 DEF k
<1>4. CASE ~(k < h)
  <2>1. h * HourLength <= k * HourLength
      BY <1>1, <1>2, <1>4
  <2>2. k * HourLength \in Int /\ h * HourLength \in Int
      BY <1>1, <1>2
  <2>3. ~(time < h * HourLength)
      BY <1>2, <2>1, <2>2
  <2> QED BY <1>2, <1>4, <2>3 DEF k
<1> QED BY <1>3, <1>4

\* The time of day at which a service day ends.
Night == Morning * HourLength

LEMMA NightType == Night \in Nat /\ Night <= Day - HourLength /\ Day \in Nat \ {0}
                   /\ HourLength \in Nat \ {0}
<1>1. Morning * HourLength \in Nat /\ (DayHours - Morning) * HourLength >= HourLength
    BY TimeAssumption
<1>2. Day = Morning * HourLength + (DayHours - Morning) * HourLength
    BY TimeAssumption DEF Day
<1>3. (DayHours - Morning) * HourLength \in Int
    BY TimeAssumption
<1> QED BY <1>1, <1>2, <1>3, TimeAssumption, DayType DEF Night

LEMMA DaysApart ==
    ASSUME NEW a \in Int, NEW b \in Int
    PROVE  /\ a * Day \in Int /\ (a + 1) * Day = a * Day + Day /\ (a - 1) * Day = a * Day - Day
           /\ a < b => a * Day + Day <= b * Day
<1>1. Day \in Nat
    BY DayType
<1>2. a < b => (b - a - 1) * Day >= 0
    BY <1>1
<1>3. (b - a - 1) * Day = b * Day - a * Day - Day
    BY <1>1
<1>4. a * Day \in Int /\ b * Day \in Int
    BY <1>1
<1>5. (a + 1) * Day = a * Day + Day /\ (a - 1) * Day = a * Day - Day
    BY <1>1
<1> QED BY <1>1, <1>2, <1>3, <1>4, <1>5

\* A service day goes from the end of a night to the end of the next one.
LEMMA ServiceDayParts ==
    ASSUME NEW m \in Int
    PROVE  /\ ServiceDay(m) \in Int /\ DateOf(m) \in Int /\ TimeOf(m) \in 0 .. Day - 1
           /\ m = DateOf(m) * Day + TimeOf(m)
           /\ ServiceDay(m) * Day + Night <= m /\ m < ServiceDay(m) * Day + Day + Night
           /\ HourOf(TimeOf(m)) < Morning <=> TimeOf(m) < Night
           /\ ServiceDay(m) = DateOf(m) - IF TimeOf(m) < Night THEN 1 ELSE 0
<1>1. DateOf(m) \in Int /\ TimeOf(m) \in 0 .. Day - 1 /\ m = DateOf(m) * Day + TimeOf(m)
    BY MomentParts
<1>2. TimeOf(m) \in Int /\ Morning \in Int
    BY <1>1, TimeAssumption, DayType
<1>3. HourOf(TimeOf(m)) < Morning <=> TimeOf(m) < Night
    BY <1>2, HourBelow DEF Night
<1>4. ServiceDay(m) = DateOf(m) - IF TimeOf(m) < Night THEN 1 ELSE 0
    BY <1>3 DEF ServiceDay
<1>5. (DateOf(m) - 1) * Day = DateOf(m) * Day - Day /\ DateOf(m) * Day \in Int
    BY <1>1, DaysApart
<1> DEFINE d == DateOf(m)
           x == TimeOf(m)
<1>6. d \in Int /\ x \in 0 .. Day - 1 /\ m = d * Day + x
      /\ (d - 1) * Day = d * Day - Day /\ d * Day \in Int
    BY <1>1, <1>5
<1>7. ServiceDay(m) = IF x < Night THEN d - 1 ELSE d
    BY <1>4, <1>6
<1> HIDE DEF d, x
<1>8. ServiceDay(m) * Day + Night <= m /\ m < ServiceDay(m) * Day + Day + Night
  <2>1. CASE x < Night
      BY <1>6, <1>7, <2>1, NightType
  <2>2. CASE ~(x < Night)
      BY <1>6, <1>7, <2>2, NightType
  <2> QED BY <2>1, <2>2
<1> QED BY <1>1, <1>3, <1>4, <1>7, <1>8, <1>6

\* A schedule between two nights is on its own service day.
LEMMA OnItsDay ==
    ASSUME NEW m \in Int, NEW d \in Int, NEW time \in Int, Night <= time, time < Day + Night
    PROVE  /\ d < ServiceDay(m) => d * Day + time < m
           /\ d > ServiceDay(m) => d * Day + time > m
           /\ ServiceDay(d * Day + time) = d
<1>1. ASSUME NEW p \in Int
      PROVE  /\ d < ServiceDay(p) => d * Day + time < p
             /\ d > ServiceDay(p) => d * Day + time > p
  <2> DEFINE D == ServiceDay(p)
  <2>1. D \in Int /\ D * Day + Night <= p /\ p < D * Day + Day + Night
      BY ServiceDayParts
  <2>2. /\ d < D => d * Day + Day <= D * Day
        /\ D < d => D * Day + Day <= d * Day
        /\ d * Day \in Int /\ D * Day \in Int
      BY <2>1, DaysApart
  <2> HIDE DEF D
  <2>3. d < D => d * Day + time < p
      BY <2>1, <2>2, NightType
  <2>4. d > D => d * Day + time > p
      BY <2>1, <2>2, NightType
  <2> QED BY <2>3, <2>4 DEF D
<1>2. d * Day + time \in Int
    BY DaysApart
<1>3. ServiceDay(d * Day + time) \in Int
    BY <1>2, ServiceDayParts
<1>4. ServiceDay(d * Day + time) = d
    BY <1>1, <1>2, <1>3
<1> QED BY <1>1, <1>4

\* What a search may take for granted of the schedules of the services.
LEMMA ConventionalTimes ==
    ASSUME TypeOK, NEW q \in SearchType, Conventional(q), NEW s \in services
    PROVE  /\ Schedule(s, q.enabled) \in Int
           /\ Night < Schedule(s, q.enabled) /\ Schedule(s, q.enabled) < Day + Night
           /\ q.dir = "previous" => Schedule(s, q.enabled) < Day
           /\ HourOf(Schedule(s, q.enabled)) > Morning
           /\ Schedule(s, FALSE) \in Int
           /\ Night < Schedule(s, FALSE) /\ Schedule(s, FALSE) < Day + Night
           /\ timing[s].first \in 0 .. Day - 1
<1>1. q.enabled \in BOOLEAN /\ q.dir \in Directions
    BY DEF SearchType
<1>2. /\ timing[s].first \in Nat /\ timing[s].first < Day
      /\ \A rt \in {FALSE, q.enabled} :
            /\ HourOf(Schedule(s, rt)) > Morning
            /\ Schedule(s, rt) < IF q.dir = "next" THEN At(1, Morning) ELSE Day
    BY PlannedType DEF Conventional
<1>3. At(1, Morning) = Day + Night
    BY NightType DEF At, Night
<1>4. ASSUME NEW rt \in {FALSE, q.enabled}
      PROVE  /\ Schedule(s, rt) \in Int /\ Night < Schedule(s, rt)
             /\ Schedule(s, rt) < Day + Night /\ (q.dir = "previous" => Schedule(s, rt) < Day)
  <2>1. Schedule(s, rt) \in Int
      BY <1>1, ScheduleType
  <2> DEFINE time == Schedule(s, rt)
  <2>2. HourOf(time) > Morning /\ time < (IF q.dir = "next" THEN Day + Night ELSE Day)
      BY <1>2, <1>3
  <2>3. Morning \in Int /\ Morning + 1 \in Int
      BY TimeAssumption
  <2>4. ~(HourOf(time) < Morning + 1)
      BY <2>1, <2>2, <2>3, HourBelow
  <2>5. time >= (Morning + 1) * HourLength
      BY <2>1, <2>3, <2>4, HourBelow, NightType
  <2>6. (Morning + 1) * HourLength = Night + HourLength
      BY TimeAssumption DEF Night
  <2> HIDE DEF time
  <2>7. time \in Int /\ Night < time /\ time < Day + Night
      BY <2>1, <2>2, <2>5, <2>6, NightType DEF time
  <2> QED BY <2>2, <2>7 DEF time
<1>5. timing[s].first \in 0 .. Day - 1
    BY <1>2, DayType
<1> QED BY <1>1, <1>2, <1>4, <1>5

LEMMA TodayType ==
    ASSUME TypeOK, NEW q \in SearchType, Conventional(q), NEW s \in services, NEW d \in Int
    PROVE  PassesAt(q, s, d) \in Int /\ Today(q, s) \in Int /\ ServiceDay(q.moment) \in Int
<1>1. q.moment \in Int /\ ServiceDay(q.moment) \in Int
    BY ServiceDayParts DEF SearchType
<1>2. Schedule(s, q.enabled) \in Int /\ d * Day \in Int /\ ServiceDay(q.moment) * Day \in Int
    BY <1>1, ConventionalTimes, DaysApart
<1> QED BY <1>1, <1>2 DEF PassesAt, Today

\* Services of one day pass in the order of the list.
LEMMA TodayOrder ==
    ASSUME TypeOK, NoOvertaking, NEW q \in SearchType, Conventional(q),
           NEW a \in services, NEW b \in services
    PROVE  /\ Ahead(q.dir, a, b) => Past(q, Today(q, a), Today(q, b))
           /\ Today(q, a) = Today(q, b) => a = b
           /\ a # b => Ahead(q.dir, a, b) \/ Ahead(q.dir, b, a)
<1>1. q.dir \in Directions /\ q.enabled \in BOOLEAN
    BY DEF SearchType
<1>2. InOrder(q.enabled)
    BY DEF Conventional
<1>3. /\ Schedule(a, q.enabled) \in Int /\ Schedule(b, q.enabled) \in Int
      /\ timing[a].first \in Int /\ timing[b].first \in Int
  <2>1. ASSUME NEW x \in services
        PROVE  Schedule(x, q.enabled) \in Int /\ timing[x].first \in Int
    <3>1. timing[x].first \in Nat
        BY PlannedType
    <3>2. Schedule(x, q.enabled) \in Int
        BY ConventionalTimes
    <3> QED BY <3>1, <3>2
  <2> QED BY <2>1
<1>4. ServiceDay(q.moment) * Day \in Int
    BY ServiceDayParts, DaysApart DEF SearchType
<1>5. /\ timing[a].first < timing[b].first => Schedule(a, q.enabled) < Schedule(b, q.enabled)
      /\ timing[b].first < timing[a].first => Schedule(b, q.enabled) < Schedule(a, q.enabled)
    BY <1>2 DEF InOrder
<1>6. a # b => timing[a].first # timing[b].first
    BY DEF NoOvertaking, SameOrder
<1> QED BY <1>1, <1>3, <1>4, <1>5, <1>6 DEF Ahead, Past, Today, PassesAt, Directions

\* The limits of a search with real time data keep it within the service day.
LEMMA NeverForced ==
    ASSUME NEW q \in SearchType, Conventional(q), q.enabled, ~Beyond(q, q.moment),
           Reached(q, q.from, q.moment)
    PROVE  ~ForcedPlanned(q.moment) /\ RealTimeReaches(q.moment)
<1> DEFINE high == IF q.dir = "next" THEN q.limit ELSE q.from
           m == q.moment
           today == DateOf(Now)
<1>1. /\ q.dir \in Directions /\ m \in Int /\ q.from \in Int /\ q.limit \in Int /\ Now \in Int
      /\ today \in Int
    BY TimeAssumption, DateIsInt DEF SearchType
<1>2. high < At(today + 1, Morning) /\ RealTimeReaches(high)
    BY DEF Conventional
<1>3. m <= high /\ high \in Int
    BY <1>1 DEF Beyond, Reached, Directions
<1>4. RealTimeReaches(m)
  <2>1. (DayHours - 1) * HourLength \in Int
      BY TimeAssumption
  <2> HIDE DEF high, m
  <2> QED BY <1>1, <1>2, <1>3, <2>1 DEF RealTimeReaches
<1>5. At(today + 1, Morning) = today * Day + Day + Night /\ today * Day \in Int
    BY <1>1, DaysApart DEF At, Night
<1> HIDE DEF high, m, today
<1>6. m < today * Day + Day + Night
    BY <1>1, <1>2, <1>3, <1>5, NightType
<1>7. /\ DateOf(m) \in Int /\ TimeOf(m) \in 0 .. Day - 1 /\ m = DateOf(m) * Day + TimeOf(m)
      /\ HourOf(TimeOf(m)) < Morning <=> TimeOf(m) < Night
    BY <1>1, ServiceDayParts
<1>8. ~(DateOf(m) > today + 1)
  <2> SUFFICES ASSUME today + 1 < DateOf(m) PROVE FALSE
      BY <1>1, <1>7
  <2>1. (today + 1) * Day + Day <= DateOf(m) * Day /\ DateOf(m) * Day \in Int
        /\ (today + 1) * Day = today * Day + Day
      BY <1>1, <1>7, DaysApart
  <2> DEFINE x == TimeOf(m)
             y == DateOf(m) * Day
  <2>2. x \in Nat /\ y \in Int /\ m = y + x /\ today * Day + Day + Day <= y
      BY <1>5, <1>7, <2>1, NightType
  <2> HIDE DEF x, y
  <2> QED BY <1>5, <1>6, <2>2, NightType
<1>9. DateOf(m) > today => ~(HourOf(TimeOf(m)) > Morning)
  <2>0. TimeOf(m) \in Int /\ HourOf(TimeOf(m)) \in Int /\ Morning \in Int
      BY <1>7, TimeAssumption, HourBelow, DayType
  <2> SUFFICES ASSUME DateOf(m) = today + 1 PROVE HourOf(TimeOf(m)) < Morning
      BY <1>1, <1>7, <1>8, <2>0
  <2>1. m = today * Day + Day + TimeOf(m)
      BY <1>1, <1>7, DaysApart
  <2>2. TimeOf(m) \in Int
      BY <1>7, DayType
  <2>3. TimeOf(m) < Night
      BY <1>5, <1>6, <2>1, <2>2, NightType
  <2> QED BY <1>7, <2>3
<1> QED BY <1>4, <1>8, <1>9 DEF ForcedPlanned, m, today

\* The schedule a search compares with, and the day it counts it for.
LEMMA ServesToday ==
    ASSUME TypeOK, NEW q \in SearchType, Conventional(q), q.rt = q.enabled,
           ~Beyond(q, q.moment), Reached(q, q.from, q.moment), NEW s \in services
    PROVE  /\ RunDay(q, s) = ServiceDay(q.moment) /\ Passage(q, s) = Today(q, s)
           /\ Serves(q, s) <=> /\ Reached(q, q.moment, Today(q, s))
                               /\ ServiceDay(q.moment) \in calendar[s]
<1>1. q.moment \in Int /\ q.dir \in Directions /\ q.enabled \in BOOLEAN
    BY DEF SearchType
<1>2. (q.rt /\ ~ForcedPlanned(q.moment)) = q.enabled
    BY <1>1, NeverForced
<1>3. ScheduleAt(q, s) = Schedule(s, q.enabled)
    BY <1>2 DEF ScheduleAt
<1> DEFINE time == Schedule(s, q.enabled)
           m == q.moment
<1>4. time \in Int /\ HourOf(time) > Morning
    BY ConventionalTimes
<1>5. Overnight(q, s) <=> HourOf(TimeOf(m)) < Morning
    BY <1>3, <1>4 DEF Overnight
<1>6. RunDay(q, s) = ServiceDay(m)
    BY <1>5 DEF RunDay, ServiceDay
<1>7. Passage(q, s) = Today(q, s)
    BY <1>3, <1>6 DEF Passage, Today, PassesAt
<1>8. /\ DateOf(m) \in Int /\ TimeOf(m) \in 0 .. Day - 1 /\ m = DateOf(m) * Day + TimeOf(m)
      /\ (DateOf(m) - 1) * Day = DateOf(m) * Day - Day /\ DateOf(m) * Day \in Int
    BY <1>1, ServiceDayParts, DaysApart
<1> DEFINE presence == TimeOf(m) + IF Overnight(q, s) THEN Day ELSE 0
<1>9. m = ServiceDay(m) * Day + presence /\ presence \in Int /\ ServiceDay(m) * Day \in Int
  <2> DEFINE d == DateOf(m)
             x == TimeOf(m)
             over == Overnight(q, s)
  <2>1. /\ d \in Int /\ x \in 0 .. Day - 1 /\ m = d * Day + x /\ (d - 1) * Day = d * Day - Day
        /\ d * Day \in Int
      BY <1>8
  <2>2. ServiceDay(m) = IF over THEN d - 1 ELSE d
      BY <1>5, <1>8 DEF ServiceDay
  <2>3. presence = x + IF over THEN Day ELSE 0
      OBVIOUS
  <2> HIDE DEF d, x, over, presence, m
  <2>4. CASE over
      BY <2>1, <2>2, <2>3, <2>4, NightType
  <2>5. CASE ~over
      BY <2>1, <2>2, <2>3, <2>5, NightType
  <2> QED BY <2>4, <2>5
<1>10. Serves(q, s) <=> /\ IF q.dir = "next" THEN presence <= time ELSE presence >= time
                        /\ ServiceDay(m) \in calendar[s]
    BY <1>3, <1>6 DEF Serves
<1>11. Today(q, s) = ServiceDay(m) * Day + time
    BY DEF Today, PassesAt
<1>12. Reached(q, m, Today(q, s)) <=>
            IF q.dir = "next" THEN presence <= time ELSE presence >= time
  <2> HIDE DEF presence, time, m
  <2> QED BY <1>1, <1>4, <1>9, <1>11 DEF Reached
<1> QED BY <1>6, <1>7, <1>10, <1>12

-----------------------------------------------------------------------------
(* What has still to be found, and where it is looked for. *)

\* A path is active on the date of a moment from which a service is still to pass.
LEMMA DatesAhead ==
    ASSUME TypeOK, NEW q \in SearchType, Conventional(q), ~AtNight(q), NEW s \in services,
           ServiceDay(q.moment) \in calendar[s], Reached(q, q.moment, Today(q, s))
    PROVE  DateOf(q.moment) \in RunDays
<1> DEFINE m == q.moment
           D == ServiceDay(m)
           last == Planned(s) + timing[s].rest
           time == Schedule(s, q.enabled)
<1>1. m \in Int /\ q.dir \in Directions /\ q.enabled \in BOOLEAN
    BY DEF SearchType
<1>2. /\ D \in Int /\ DateOf(m) \in Int /\ TimeOf(m) \in 0 .. Day - 1
      /\ m = DateOf(m) * Day + TimeOf(m)
      /\ HourOf(TimeOf(m)) < Morning <=> TimeOf(m) < Night
      /\ D = DateOf(m) - IF TimeOf(m) < Night THEN 1 ELSE 0
      /\ D * Day \in Int /\ (D + 1) * Day = D * Day + Day
    BY <1>1, ServiceDayParts, DaysApart
<1>3. timing[s].first \in 0 .. Day - 1 /\ time \in Int
    BY ConventionalTimes
<1>4. last \in Nat
    BY PlannedType
<1>5. DateOf(timing[s].first) = 0
  <2> DEFINE first == timing[s].first
  <2>1. first \in 0 .. Day - 1
      BY <1>3
  <2> HIDE DEF first
  <2>2. DateOf(first) = 0
      BY <2>1, DayType DEF DateOf
  <2> QED BY <2>2 DEF first
<1>6. DateOf(last) \in Int /\ DateOf(last) >= 0 /\ (last >= Day => DateOf(last) >= 1)
  <2> HIDE DEF last
  <2>1. DateOf(last) \in Int /\ TimeOf(last) \in 0 .. Day - 1 /\ last = DateOf(last) * Day + TimeOf(last)
      BY <1>4, MomentParts
  <2>2. /\ DateOf(last) < 0 => DateOf(last) * Day + Day <= 0 * Day
        /\ DateOf(last) < 1 => DateOf(last) * Day + Day <= 1 * Day
        /\ DateOf(last) * Day \in Int /\ 0 * Day = 0 /\ 1 * Day = Day
      BY <2>1, DaysApart, DayType
  <2> DEFINE y == DateOf(last) * Day
             x == TimeOf(last)
  <2>3. x \in Int /\ 0 <= x /\ x < Day /\ y \in Int /\ last = y + x
      BY <2>1, <2>2, DayType
  <2> HIDE DEF x, y
  <2>4. ~(DateOf(last) < 0)
    <3> SUFFICES ASSUME DateOf(last) < 0 PROVE FALSE
        OBVIOUS
    <3>1. y + Day <= 0
        BY <2>2 DEF y
    <3> QED BY <1>4, <2>3, <3>1, DayType
  <2>5. last >= Day => ~(DateOf(last) < 1)
    <3> SUFFICES ASSUME last >= Day, DateOf(last) < 1 PROVE FALSE
        OBVIOUS
    <3>1. y + Day <= Day
        BY <2>2 DEF y
    <3> QED BY <1>4, <2>3, <3>1, DayType
  <2> QED BY <2>1, <2>4, <2>5
<1>7. \A i \in 0 .. DateOf(last) : D + i \in RunDays
    BY <1>5, <1>6 DEF RunDays
<1>8. CASE ~(TimeOf(m) < Night)
  <2>1. D + 0 \in RunDays /\ D + 0 = DateOf(m)
      BY <1>2, <1>6, <1>7, <1>8
  <2> QED BY <2>1
<1>9. CASE TimeOf(m) < Night
  <2>1. q.dir = "next" /\ m <= D * Day + time
      BY <1>1, <1>2, <1>9 DEF AtNight, Reached, Today, PassesAt, Directions
  <2>2. DateOf(m) = D + 1
      BY <1>2, <1>9
  <2>3. m >= D * Day + Day
    <3> DEFINE x == TimeOf(m)
               y == DateOf(m) * Day
    <3>1. x \in Nat /\ y = D * Day + Day /\ m = y + x /\ y \in Int
        BY <1>2, <2>2, DayType
    <3> HIDE DEF x, y, m
    <3> QED BY <1>1, <3>1
  <2>4. time >= Day
    <3> HIDE DEF m, time, D
    <3> QED BY <1>1, <1>2, <1>3, <2>1, <2>3, DayType
  <2>5. last >= Day
    <3>1. CASE q.enabled
        BY <2>4, <3>1 DEF Conventional
    <3>2. CASE ~q.enabled
      <4>1. time = Planned(s)
          BY <1>1, <3>2, PlannedType DEF Schedule
      <4> QED BY <2>4, <4>1, PlannedType, DayType
    <3> QED BY <3>1, <3>2
  <2>6. 1 \in 0 .. DateOf(last)
      BY <1>6, <2>5
  <2> QED BY <1>7, <2>2, <2>6
<1> QED BY <1>8, <1>9

\* Between the limits of a search with real time data there is one service day only.
LEMMA NotOnAnotherDay ==
    ASSUME NEW q \in SearchType, Conventional(q), q.enabled, NEW d \in Int, d # DateOf(Now),
           NEW time \in Int, Night < time, time < Day + Night
    PROVE  ~(Reached(q, q.from, d * Day + time) /\ Reached(q, d * Day + time, q.limit))
<1> DEFINE low == IF q.dir = "next" THEN q.from ELSE q.limit
           high == IF q.dir = "next" THEN q.limit ELSE q.from
           today == DateOf(Now)
           at == d * Day + time
<1>1. q.dir \in Directions /\ q.from \in Int /\ q.limit \in Int /\ today \in Int
    BY TimeAssumption, DateIsInt DEF SearchType
<1>2. At(today, Morning) <= low /\ high < At(today + 1, Morning)
    BY DEF Conventional
<1>3. /\ At(today, Morning) = today * Day + Night
      /\ At(today + 1, Morning) = today * Day + Day + Night
      /\ today * Day \in Int /\ d * Day \in Int
      /\ d < today => d * Day + Day <= today * Day
      /\ today < d => today * Day + Day <= d * Day
    BY <1>1, DaysApart DEF At, Night
<1>4. low \in Int /\ high \in Int /\ d # today
    BY <1>1
<1> HIDE DEF low, high, today
<1>5. at < low \/ high < at
  <2>1. CASE d < today
      BY <1>1, <1>2, <1>3, <1>4, <2>1, NightType
  <2>2. CASE today < d
      BY <1>1, <1>2, <1>3, <1>4, <2>2, NightType
  <2> QED BY <1>1, <1>4, <2>1, <2>2
<1>6. at \in Int
    BY <1>3
<1> HIDE DEF at
<1> SUFFICES ASSUME Reached(q, q.from, at), Reached(q, at, q.limit) PROVE FALSE
    BY DEF at
<1>7. low <= at /\ at <= high
    BY <1>1 DEF Reached, low, high, Directions
<1> QED BY <1>4, <1>5, <1>6, <1>7

\* What is expected of a search: every passage between its bounds.
LEMMA ExpectedIs ==
    ASSUME TypeOK, NEW q \in SearchType, Conventional(q), NEW x
    PROVE  x \in Expected(q) <=>
                \E s \in services : \E d \in calendar[s] :
                    /\ x = Answer(q, s, d) /\ Reached(q, q.from, PassesAt(q, s, d))
                    /\ Reached(q, PassesAt(q, s, d), q.limit)
<1> DEFINE at(s, d) == d * Day + Schedule(s, q.enabled /\ d = DateOf(Now))
           low == IF q.dir = "next" THEN q.from ELSE q.limit
           high == IF q.dir = "next" THEN q.limit ELSE q.from
<1>1. q.dir \in Directions /\ q.enabled \in BOOLEAN
    BY DEF SearchType
<1>2. \A s \in services : calendar[s] \subseteq Dates /\ \A d \in calendar[s] : d \in Int
    BY TimeAssumption DEF TypeOK
<1>3. \A y : low <= y /\ y <= high <=> Reached(q, q.from, y) /\ Reached(q, y, q.limit)
    BY <1>1 DEF Reached, Directions
<1>4. x \in Expected(q) <=>
            \E s \in services : \E d \in calendar[s] :
                x = [service |-> s, day |-> d, at |-> at(s, d)] /\ low <= at(s, d) /\ at(s, d) <= high
  <2>1. x \in Expected(q) <=>
            \E s \in services, d \in Dates :
                /\ x = [service |-> s, day |-> d, at |-> at(s, d)]
                /\ d \in calendar[s] /\ low <= at(s, d) /\ at(s, d) <= high
    <3> HIDE DEF at, low, high
    <3>1. Expected(q) = {y \in {[service |-> s, day |-> d, at |-> at(s, d)] :
                                    s \in services, d \in Dates} :
                            y.day \in calendar[y.service] /\ low <= y.at /\ y.at <= high}
        BY DEF Expected, at, low, high
    <3> QED BY <3>1
  <2> HIDE DEF at, low, high
  <2> QED BY <1>2, <2>1
<1>5. ASSUME NEW s \in services, NEW d \in calendar[s]
      PROVE  /\ low <= at(s, d) /\ at(s, d) <= high
                <=> Reached(q, q.from, PassesAt(q, s, d)) /\ Reached(q, PassesAt(q, s, d), q.limit)
             /\ low <= at(s, d) /\ at(s, d) <= high => at(s, d) = PassesAt(q, s, d)
  <2>1. CASE q.enabled => d = DateOf(Now)
    <3>1. (q.enabled /\ d = DateOf(Now)) = q.enabled
        BY <1>1, <2>1
    <3>2. at(s, d) = PassesAt(q, s, d)
        BY <3>1 DEF PassesAt
    <3> HIDE DEF at
    <3> QED BY <3>2, <1>3
  <2>2. CASE q.enabled /\ d # DateOf(Now)
    <3>1. /\ Schedule(s, q.enabled) \in Int /\ Night < Schedule(s, q.enabled)
          /\ Schedule(s, q.enabled) < Day + Night
          /\ Schedule(s, FALSE) \in Int /\ Night < Schedule(s, FALSE)
          /\ Schedule(s, FALSE) < Day + Night
        BY ConventionalTimes
    <3>2. (q.enabled /\ d = DateOf(Now)) = FALSE
        BY <2>2
    <3>3. at(s, d) = d * Day + Schedule(s, FALSE) /\ d \in Int
        BY <1>2, <3>2
    <3>4. ~(Reached(q, q.from, at(s, d)) /\ Reached(q, at(s, d), q.limit))
        BY <2>2, <3>1, <3>3, NotOnAnotherDay
    <3>5. ~(Reached(q, q.from, PassesAt(q, s, d)) /\ Reached(q, PassesAt(q, s, d), q.limit))
        BY <2>2, <3>1, <3>3, NotOnAnotherDay DEF PassesAt
    <3> HIDE DEF at
    <3> QED BY <1>3, <3>4, <3>5
  <2> QED BY <1>1, <2>1, <2>2
<1>6. \A s, d : at(s, d) = PassesAt(q, s, d) =>
            [service |-> s, day |-> d, at |-> at(s, d)] = Answer(q, s, d)
    BY DEF Answer
<1>7. ASSUME NEW s \in services, NEW d \in calendar[s]
      PROVE  (x = [service |-> s, day |-> d, at |-> at(s, d)] /\ low <= at(s, d) /\ at(s, d) <= high)
                <=> /\ x = Answer(q, s, d) /\ Reached(q, q.from, PassesAt(q, s, d))
                    /\ Reached(q, PassesAt(q, s, d), q.limit)
  <2> HIDE DEF at, low, high
  <2> QED BY <1>5, <1>6
<1> HIDE DEF at, low, high
<1> QED BY <1>4, <1>7

\* Where a search goes on after a date: forwards at the end of the service day, backwards at
\* the end of the day before.
LEMMA NextMomentIs ==
    ASSUME NEW q \in SearchType
    PROVE  /\ NextMoment(q) \in Int
           /\ q.dir = "next" => NextMoment(q) = ServiceDay(q.moment) * Day + Day + Night
           /\ q.dir = "previous" => NextMoment(q) = DateOf(q.moment) * Day - 1
<1>1. q.moment \in Int /\ NextMoment(q) \in Int
    BY NextMomentType DEF SearchType
<1>2. ServiceDay(q.moment) \in Int /\ DateOf(q.moment) \in Int
    BY <1>1, ServiceDayParts
<1>3. ASSUME q.dir = "next"
      PROVE  NextMoment(q) = ServiceDay(q.moment) * Day + Day + Night
  <2> DEFINE D == ServiceDay(q.moment)
             date == DateOf(q.moment)
             early == HourOf(TimeOf(q.moment)) < Morning
  <2>1. NextMoment(q) = At(date + IF early THEN 0 ELSE 1, Morning)
      BY <1>3 DEF NextMoment
  <2>2. D = date - IF early THEN 1 ELSE 0
      BY DEF ServiceDay
  <2>3. D \in Int /\ date \in Int
      BY <1>2
  <2> HIDE DEF D, date, early
  <2>4. NextMoment(q) = At(D + 1, Morning)
      BY <2>1, <2>2, <2>3
  <2>5. (D + 1) * Day = D * Day + Day /\ D * Day \in Int
      BY <2>3, DaysApart
  <2> QED BY <2>4, <2>5 DEF At, Night, D
<1>4. q.dir = "previous" => NextMoment(q) = DateOf(q.moment) * Day - 1
    BY DEF NextMoment
<1> QED BY <1>1, <1>3, <1>4

\* What a search has still to find is on its service day or further.
LEMMA ToFindIsAhead ==
    ASSUME TypeOK, NEW q \in SearchType, Conventional(q), MomentBetween(q),
           NEW s, NEW d, IsToFind(q, s, d)
    PROVE  /\ s \in services /\ d \in calendar[s] /\ d \in Int /\ PassesAt(q, s, d) \in Int
           /\ Reached(q, q.moment, PassesAt(q, s, d))
           /\ q.dir = "next" => d >= ServiceDay(q.moment)
           /\ q.dir = "previous" => d <= ServiceDay(q.moment)
<1>1. s \in services /\ d \in calendar[s] /\ Reached(q, q.moment, PassesAt(q, s, d))
    BY DEF IsToFind, MomentBetween
<1>2. d \in Int /\ q.moment \in Int
    BY <1>1, TimeAssumption DEF TypeOK, SearchType
<1> DEFINE time == Schedule(s, q.enabled)
           D == ServiceDay(q.moment)
           m == q.moment
           at == d * Day + time
<1>3. time \in Int /\ Night < time /\ time < Day + Night
    BY <1>1, ConventionalTimes
<1>4. D \in Int /\ PassesAt(q, s, d) \in Int
    BY <1>1, <1>2, TodayType
<1>5. PassesAt(q, s, d) = at
    BY DEF PassesAt
<1>6. (d < D => at < m) /\ (d > D => at > m)
  <2> HIDE DEF time, m
  <2>1. m \in Int /\ d \in Int /\ time \in Int /\ Night <= time /\ time < Day + Night
      BY <1>2, <1>3, NightType DEF m
  <2>2. /\ d < ServiceDay(m) => d * Day + time < m
        /\ d > ServiceDay(m) => d * Day + time > m
      BY <2>1, OnItsDay
  <2> QED BY <2>2 DEF m
<1> HIDE DEF time, D, m, at
<1>7. at \in Int /\ m \in Int /\ Reached(q, m, at)
    BY <1>1, <1>2, <1>4, <1>5 DEF m
<1>8. q.dir = "next" => d >= D
    BY <1>2, <1>4, <1>6, <1>7 DEF Reached
<1>9. q.dir = "previous" => d <= D
    BY <1>2, <1>4, <1>6, <1>7 DEF Reached
<1> QED BY <1>1, <1>2, <1>4, <1>8, <1>9 DEF D

\* A search that has found nothing, or for which the path is not active, has nothing to find
\* before the moment it goes on from.
LEMMA NothingBefore ==
    ASSUME TypeOK, NEW q \in SearchType, Conventional(q), q.rt = q.enabled,
           ~Beyond(q, q.moment), MomentBetween(q), NextLeadsOn(q),
           DateOf(q.moment) \in RunDays => \A s \in From(q.dir, q.next) : ~Serves(q, s),
           NEW s, NEW d, IsToFind(q, s, d)
    PROVE  Reached(q, NextMoment(q), PassesAt(q, s, d))
<1> DEFINE time == Schedule(s, q.enabled)
           D == ServiceDay(q.moment)
           m == q.moment
           at == d * Day + time
<1>1. /\ s \in services /\ d \in calendar[s] /\ d \in Int /\ PassesAt(q, s, d) \in Int
      /\ Reached(q, m, at) /\ (q.dir = "next" => d >= D) /\ (q.dir = "previous" => d <= D)
      /\ PassesAt(q, s, d) = at
    BY ToFindIsAhead DEF PassesAt
<1>2. m \in Int /\ q.dir \in Directions
    BY DEF SearchType
<1>3. /\ time \in Int /\ Night < time /\ time < Day + Night /\ (q.dir = "previous" => time < Day)
    BY <1>1, ConventionalTimes
<1>4. /\ D \in Int /\ DateOf(m) \in Int /\ TimeOf(m) \in 0 .. Day - 1
      /\ HourOf(TimeOf(m)) < Morning <=> TimeOf(m) < Night
      /\ D = DateOf(m) - IF TimeOf(m) < Night THEN 1 ELSE 0
    BY <1>2, ServiceDayParts
<1>5. ASSUME d = D PROVE AtNight(q)
  <2> SUFFICES ASSUME ~AtNight(q) PROVE FALSE
      OBVIOUS
  <2>1. s \in From(q.dir, q.next)
      BY <1>5 DEF NextLeadsOn
  <2>2. Reached(q, q.moment, Today(q, s)) /\ D \in calendar[s]
      BY <1>1, <1>5 DEF Today, PassesAt
  <2>3. Reached(q, q.from, q.moment)
      BY DEF MomentBetween
  <2>4. Serves(q, s)
      BY <1>1, <2>2, <2>3, ServesToday
  <2>5. DateOf(q.moment) \in RunDays
      BY <1>1, <2>2, DatesAhead
  <2> QED BY <2>1, <2>4, <2>5
<1>6. /\ NextMoment(q) \in Int
      /\ q.dir = "next" => NextMoment(q) = D * Day + Day + Night
      /\ q.dir = "previous" => NextMoment(q) = DateOf(m) * Day - 1
    BY NextMomentIs
<1>7. /\ d * Day \in Int /\ D * Day \in Int /\ (D + 1) * Day = D * Day + Day
      /\ (D < d => D * Day + Day <= d * Day) /\ (d < D => d * Day + Day <= D * Day)
    BY <1>1, <1>4, DaysApart
<1>8. CASE q.dir = "next"
  <2>1. ~AtNight(q)
      BY <1>8 DEF AtNight
  <2>2. d # D /\ d >= D
      BY <1>1, <1>5, <1>8, <2>1
  <2>3. NextMoment(q) = D * Day + Day + Night
      BY <1>6, <1>8
  <2> HIDE DEF time, D, m, at
  <2>4. D * Day + Day <= d * Day
      BY <1>1, <1>4, <1>7, <2>2
  <2> DEFINE y == d * Day
             z == D * Day
  <2>5. y \in Int /\ z \in Int /\ z + Day <= y /\ at = y + time /\ NextMoment(q) = z + Day + Night
      BY <1>7, <2>3, <2>4 DEF at
  <2> HIDE DEF y, z
  <2>6. NextMoment(q) <= at
      BY <1>3, <2>5, NightType
  <2> QED BY <1>1, <1>8, <2>6 DEF Reached
<1>9. CASE q.dir = "previous"
  <2>1. NextMoment(q) = DateOf(m) * Day - 1 /\ d <= D /\ time < Day
      BY <1>1, <1>3, <1>6, <1>9
  <2>2. d # D \/ DateOf(m) = D + 1
      BY <1>4, <1>5 DEF AtNight
  <2>3. DateOf(m) = D \/ DateOf(m) = D + 1
      BY <1>4
  <2> HIDE DEF time, D, m, at
  <2>4. at < DateOf(m) * Day
    <3>1. CASE d = D
      <4>1. DateOf(m) * Day = D * Day + Day
          BY <1>4, <1>7, <2>2, <3>1
      <4> QED BY <1>1, <1>3, <1>4, <1>7, <2>1, <3>1, <4>1, NightType DEF at
    <3>2. CASE d < D
      <4>1. DateOf(m) * Day >= D * Day /\ DateOf(m) * Day \in Int
          BY <1>4, <1>7, <2>3, NightType
      <4> QED BY <1>1, <1>3, <1>4, <1>7, <2>1, <3>2, <4>1, NightType DEF at
    <3> QED BY <1>1, <1>4, <2>1, <3>1, <3>2
  <2>5. at \in Int /\ DateOf(m) * Day \in Int
      BY <1>3, <1>4, <1>7, DaysApart DEF at
  <2>6. NextMoment(q) >= at
      BY <2>1, <2>4, <2>5
  <2> QED BY <1>1, <1>9, <2>6 DEF Reached
<1> QED BY <1>2, <1>8, <1>9 DEF Directions

\* Steps of a search from one moment to another.
SameQuery(n, q) ==
    n.dir = q.dir /\ n.enabled = q.enabled /\ n.from = q.from /\ n.limit = q.limit

LEMMA SameQuestion ==
    ASSUME NEW q, NEW n, SameQuery(n, q)
    PROVE  /\ Conventional(n) <=> Conventional(q)
           /\ Expected(n) = Expected(q)
           /\ \A m : Beyond(n, m) <=> Beyond(q, m)
           /\ \A a, b : (Past(n, a, b) <=> Past(q, a, b)) /\ (Reached(n, a, b) <=> Reached(q, a, b))
           /\ \A s, d : PassesAt(n, s, d) = PassesAt(q, s, d) /\ Answer(n, s, d) = Answer(q, s, d)
<1>1. Conventional(n) <=> Conventional(q)
    BY DEF SameQuery, Conventional
<1>2. Expected(n) = Expected(q)
    BY DEF SameQuery, Expected
<1>3. \A s, d : PassesAt(n, s, d) = PassesAt(q, s, d) /\ Answer(n, s, d) = Answer(q, s, d)
    BY DEF SameQuery, PassesAt, Answer
<1>4. /\ \A m : Beyond(n, m) <=> Beyond(q, m)
      /\ \A a, b : (Past(n, a, b) <=> Past(q, a, b)) /\ (Reached(n, a, b) <=> Reached(q, a, b))
    BY DEF SameQuery, Beyond, Past, Reached
<1> QED BY <1>1, <1>2, <1>3, <1>4

LEMMA SameFound ==
    ASSUME NEW q, NEW n, SameQuery(n, q), n.found = q.found
    PROVE  /\ Answers(n) = Answers(q) /\ (InAnswerOrder(n) <=> InAnswerOrder(q))
           /\ \A s, d : IsToFind(n, s, d) <=> IsToFind(q, s, d)
<1>1. Answers(n) = Answers(q)
    BY DEF Answers
<1>2. InAnswerOrder(n) <=> InAnswerOrder(q)
    BY SameQuestion DEF InAnswerOrder
<1>3. \A s, d : IsToFind(n, s, d) <=> IsToFind(q, s, d)
    BY <1>1, SameQuestion DEF IsToFind, SameQuery
<1> QED BY <1>1, <1>2, <1>3

LEMMA AnswerType ==
    ASSUME NEW q \in SearchType, NEW x \in Answers(q)
    PROVE  x \in [service : Services, day : Int, at : Int]
<1> DEFINE R == [service : Services, day : Int, at : Int]
<1>1. PICK i \in DOMAIN q.found : x = q.found[i]
    BY DEF Answers
<1>2. q.found \in Seq(R)
    BY DEF SearchType
<1> HIDE DEF R
<1>3. x \in R
    BY <1>1, <1>2
<1> QED BY <1>3 DEF R

\* A moment that goes on, as far as nothing is to be found before it.
LEMMA MomentGoesOn ==
    ASSUME TypeOK, NEW q \in SearchType, Conventional(q), MomentBetween(q),
           NEW n \in SearchType, SameQuery(n, q), n.found = q.found,
           Reached(q, q.moment, n.moment),
           \A s, d : IsToFind(q, s, d) => Reached(q, n.moment, PassesAt(q, s, d))
    PROVE  MomentBetween(n)
<1>1. /\ \A a, b : Reached(n, a, b) <=> Reached(q, a, b)
      /\ \A s, d : PassesAt(n, s, d) = PassesAt(q, s, d) /\ Answer(n, s, d) = Answer(q, s, d)
      /\ Answers(n) = Answers(q) /\ (InAnswerOrder(n) <=> InAnswerOrder(q))
      /\ \A s, d : IsToFind(n, s, d) <=> IsToFind(q, s, d)
    BY SameQuestion, SameFound
<1>2. \A a, b, c \in Int : Reached(q, a, b) /\ Reached(q, b, c) => Reached(q, a, c)
    BY DEF Reached
<1>3. q.moment \in Int /\ n.moment \in Int /\ q.from \in Int /\ q.limit \in Int
      /\ n.from = q.from /\ n.limit = q.limit
    BY DEF SearchType, SameQuery
<1>4. Reached(q, q.from, n.moment)
    BY <1>2, <1>3 DEF MomentBetween
<1>5. ASSUME NEW x \in Answers(q)
      PROVE  /\ x.service \in services /\ x.day \in calendar[x.service]
             /\ x = Answer(q, x.service, x.day)
             /\ Reached(q, q.from, x.at) /\ Reached(q, x.at, q.limit) /\ Reached(q, x.at, n.moment)
  <2>1. /\ x.service \in services /\ x.day \in calendar[x.service]
        /\ x = Answer(q, x.service, x.day)
        /\ Reached(q, q.from, x.at) /\ Reached(q, x.at, q.limit) /\ Reached(q, x.at, q.moment)
      BY DEF MomentBetween
  <2>2. x.at \in Int
      BY AnswerType
  <2> QED BY <1>2, <1>3, <2>1, <2>2
<1>6. MomentBetween(n) <=>
        /\ InAnswerOrder(q) /\ Reached(q, q.from, n.moment)
        /\ \A x \in Answers(q) :
            /\ x.service \in services /\ x.day \in calendar[x.service]
            /\ x = Answer(q, x.service, x.day)
            /\ Reached(q, q.from, x.at) /\ Reached(q, x.at, q.limit) /\ Reached(q, x.at, n.moment)
        /\ \A s, d : IsToFind(q, s, d) => Reached(q, n.moment, PassesAt(q, s, d))
    BY <1>1, <1>3 DEF MomentBetween
<1>7. InAnswerOrder(q)
    BY DEF MomentBetween
<1> QED BY <1>4, <1>5, <1>6, <1>7

\* The end of a service day, and that of a date, are not in the night; from there on all the
\* services are looked for, and nothing is found again.
LEMMA MovesOn ==
    ASSUME TypeOK, NEW q \in SearchType, Conventional(q), q.rt = q.enabled,
           ~Beyond(q, q.moment), MomentBetween(q), NextLeadsOn(q),
           DateOf(q.moment) \in RunDays => \A s \in From(q.dir, q.next) : ~Serves(q, s),
           NEW n \in SearchType, SameQuery(n, q), n.found = q.found, n.moment = NextMoment(q),
           \A s \in services : s \in From(n.dir, n.next)
    PROVE  MomentBetween(n) /\ NextLeadsOn(n)
<1>1. Forward(q, n.moment) /\ q.dir \in Directions /\ n.moment \in Int /\ q.moment \in Int
    BY NextMomentIsFurther DEF SearchType
<1>2. Reached(q, q.moment, n.moment)
    BY <1>1 DEF Forward, Reached
<1>3. MomentBetween(n)
    BY <1>2, NothingBefore, MomentGoesOn
<1>4. ~AtNight(n)
  <2> SUFFICES ASSUME q.dir = "previous" PROVE ~(HourOf(TimeOf(n.moment)) < Morning)
      BY DEF AtNight, SameQuery
  <2> DEFINE date == DateOf(q.moment)
             m == n.moment
  <2>1. m = date * Day - 1 /\ date \in Int
      BY <1>1, NextMomentIs, ServiceDayParts
  <2>2. /\ DateOf(m) \in Int /\ TimeOf(m) \in 0 .. Day - 1 /\ m = DateOf(m) * Day + TimeOf(m)
        /\ HourOf(TimeOf(m)) < Morning <=> TimeOf(m) < Night
      BY <1>1, ServiceDayParts
  <2>3. /\ date * Day \in Int /\ DateOf(m) * Day \in Int
        /\ date < DateOf(m) + 1 => date * Day <= DateOf(m) * Day
        /\ DateOf(m) < date => DateOf(m) * Day + Day <= date * Day
    <3> HIDE DEF date
    <3>1. DateOf(m) \in Int /\ date \in Int
        BY <2>1, <2>2
    <3>2. date < DateOf(m) => date * Day + Day <= DateOf(m) * Day
        BY <3>1, DaysApart
    <3>3. DateOf(m) < date => DateOf(m) * Day + Day <= date * Day
        BY <3>1, DaysApart
    <3>4. date * Day \in Int /\ DateOf(m) * Day \in Int
        BY <3>1, DaysApart
    <3> QED BY <3>1, <3>2, <3>3, <3>4, NightType
  <2> DEFINE x == TimeOf(m)
             y == DateOf(m) * Day
             z == date * Day
  <2>4. x \in Int /\ 0 <= x /\ x < Day /\ y \in Int /\ z \in Int /\ m = y + x /\ m = z - 1
        /\ (z <= y \/ y + Day <= z)
      BY <2>1, <2>2, <2>3, DayType
  <2> HIDE DEF x, y, z, m
  <2>5. x >= Night
      BY <2>4, NightType
  <2>6. ~(HourOf(x) < Morning)
      BY <2>2, <2>4, <2>5, NightType DEF x
  <2> QED BY <2>6 DEF x, m
<1>5. ASSUME NEW s \in From(n.dir, n.next), Reached(n, n.moment, Today(n, s)),
             Answer(n, s, ServiceDay(n.moment)) \in Answers(n)
      PROVE  FALSE
  <2> DEFINE x == Answer(n, s, ServiceDay(n.moment))
  <2>1. x \in Answers(q) /\ x.at = Today(n, s)
      BY <1>5, SameFound DEF Answer, Today
  <2> HIDE DEF x
  <2>2. Reached(q, x.at, q.moment) /\ x.at \in Int
      BY <2>1, AnswerType DEF MomentBetween
  <2>3. Reached(q, n.moment, x.at)
      BY <1>5, <2>1, SameQuestion
  <2> QED BY <1>1, <2>2, <2>3 DEF Reached, Forward
<1>6. \A s, d : IsToFind(n, s, d) => s \in services
    BY DEF IsToFind
<1> QED BY <1>3, <1>4, <1>5, <1>6 DEF NextLeadsOn

\* A search ends when what is left is beyond its limit.
LEMMA AllFound ==
    ASSUME TypeOK, NEW q \in SearchType, Conventional(q), MomentBetween(q),
           \A s, d : IsToFind(q, s, d) => Beyond(q, PassesAt(q, s, d))
    PROVE  Answers(q) = Expected(q) /\ InAnswerOrder(q)
<1>1. q.dir \in Directions /\ q.limit \in Int
    BY DEF SearchType
<1>2. ASSUME NEW x \in Answers(q) PROVE x \in Expected(q)
  <2>1. /\ x.service \in services /\ x.day \in calendar[x.service]
        /\ x = Answer(q, x.service, x.day)
        /\ Reached(q, q.from, x.at) /\ Reached(q, x.at, q.limit)
      BY DEF MomentBetween
  <2>2. x.at = PassesAt(q, x.service, x.day)
      BY <2>1 DEF Answer
  <2> QED BY <2>1, <2>2, ExpectedIs
<1>3. ASSUME NEW x \in Expected(q) PROVE x \in Answers(q)
  <2>1. PICK s \in services : \E d \in calendar[s] :
            /\ x = Answer(q, s, d) /\ Reached(q, q.from, PassesAt(q, s, d))
            /\ Reached(q, PassesAt(q, s, d), q.limit)
      BY ExpectedIs
  <2>2. PICK d \in calendar[s] :
            /\ x = Answer(q, s, d) /\ Reached(q, q.from, PassesAt(q, s, d))
            /\ Reached(q, PassesAt(q, s, d), q.limit)
      BY <2>1
  <2>3. d \in Int
      BY TimeAssumption DEF TypeOK
  <2>4. PassesAt(q, s, d) \in Int
      BY <2>3, TodayType
  <2>5. ~Beyond(q, PassesAt(q, s, d))
      BY <1>1, <2>2, <2>4 DEF Beyond, Reached, Directions
  <2> QED BY <2>2, <2>5 DEF IsToFind
<1>4. InAnswerOrder(q)
    BY DEF MomentBetween
<1> QED BY <1>2, <1>3, <1>4

\* The first service the loop finds is the next one to be found.
LEMMA FirstHit ==
    ASSUME TypeOK, NoOvertaking, NEW q \in SearchType, Conventional(q), q.rt = q.enabled,
           ~Beyond(q, q.moment), MomentBetween(q), NextLeadsOn(q), NEW y \in services,
           IsFirst(q.dir, {s \in From(q.dir, q.next) : Serves(q, s)}, y)
    PROVE  /\ ~AtNight(q) /\ Today(q, y) \in Int
           /\ IsToFind(q, y, ServiceDay(q.moment)) /\ Reached(q, q.moment, Today(q, y))
           /\ RunDay(q, y) = ServiceDay(q.moment) /\ Passage(q, y) = Today(q, y)
           /\ ServiceDay(Today(q, y)) = ServiceDay(q.moment)
           /\ \A s, d : IsToFind(q, s, d) /\ ~(s = y /\ d = ServiceDay(q.moment))
                => Past(q, Today(q, y), PassesAt(q, s, d))
<1> DEFINE D == ServiceDay(q.moment)
           hits == {s \in From(q.dir, q.next) : Serves(q, s)}
<1>1. q.moment \in Int /\ q.from \in Int /\ D \in Int /\ q.dir \in Directions
      /\ Reached(q, q.from, q.moment)
    BY ServiceDayParts DEF SearchType, MomentBetween
<1>2. y \in hits /\ \A s \in hits \ {y} : Ahead(q.dir, y, s)
    BY TimeAssumption DEF IsFirst, TypeOK
<1>3. ~AtNight(q)
    BY <1>2 DEF NextLeadsOn, From
<1>4. \A s \in services :
        /\ RunDay(q, s) = D /\ Passage(q, s) = Today(q, s)
        /\ Serves(q, s) <=> Reached(q, q.moment, Today(q, s)) /\ D \in calendar[s]
    BY <1>1, ServesToday
<1>5. Reached(q, q.moment, Today(q, y)) /\ D \in calendar[y]
    BY <1>2, <1>4
<1>6. /\ Schedule(y, q.enabled) \in Int /\ Night < Schedule(y, q.enabled)
      /\ Schedule(y, q.enabled) < Day + Night
    BY ConventionalTimes
<1>7. Today(q, y) \in Int /\ Today(q, y) = D * Day + Schedule(y, q.enabled)
    BY <1>1, TodayType DEF Today, PassesAt
<1>8. IsToFind(q, y, D)
  <2>1. Answer(q, y, D) \notin Answers(q)
      BY <1>2, <1>5 DEF NextLeadsOn
  <2>2. Reached(q, q.from, Today(q, y))
      BY <1>1, <1>5, <1>7 DEF Reached
  <2> QED BY <1>5, <2>1, <2>2 DEF IsToFind, Today
<1>9. ServiceDay(Today(q, y)) = D
  <2> DEFINE time == Schedule(y, q.enabled)
  <2>1. time \in Int /\ Night <= time /\ time < Day + Night
      BY <1>6, NightType
  <2> HIDE DEF time, D
  <2>2. ServiceDay(D * Day + time) = D
      BY <1>1, <2>1, OnItsDay
  <2> QED BY <1>7, <2>2 DEF time
<1>10. ASSUME NEW s, NEW d, IsToFind(q, s, d), ~(s = y /\ d = D)
       PROVE  Past(q, Today(q, y), PassesAt(q, s, d))
  <2>1. /\ s \in services /\ d \in calendar[s] /\ d \in Int /\ PassesAt(q, s, d) \in Int
        /\ Reached(q, q.moment, PassesAt(q, s, d))
        /\ q.dir = "next" => d >= D
        /\ q.dir = "previous" => d <= D
      BY <1>10, ToFindIsAhead
  <2>2. CASE d = D
    <3>1. s \in From(q.dir, q.next)
        BY <1>3, <1>10, <2>2 DEF NextLeadsOn
    <3>2. Serves(q, s) /\ PassesAt(q, s, d) = Today(q, s)
        BY <1>4, <2>1, <2>2 DEF Today
    <3>3. Ahead(q.dir, y, s)
        BY <1>2, <1>10, <2>2, <3>1, <3>2
    <3> QED BY <2>1, <3>2, <3>3, TodayOrder
  <2>3. CASE d # D
    <3> DEFINE time == Schedule(s, q.enabled)
               m == Today(q, y)
    <3>1. time \in Int /\ Night < time /\ time < Day + Night
        BY <2>1, ConventionalTimes
    <3>2. Night <= time
        BY <3>1, NightType
    <3> HIDE DEF time, m
    <3>3. m \in Int /\ ServiceDay(m) = D
        BY <1>7, <1>9 DEF m
    <3>4. /\ d < ServiceDay(m) => d * Day + time < m
          /\ d > ServiceDay(m) => d * Day + time > m
        BY <2>1, <3>1, <3>2, <3>3, OnItsDay
    <3>5. PassesAt(q, s, d) = d * Day + time
        BY DEF PassesAt, time
    <3>6. CASE q.dir = "next"
      <4>1. d > D
          BY <1>1, <2>1, <2>3, <3>6
      <4> QED BY <3>3, <3>4, <3>5, <3>6, <4>1 DEF Past, m
    <3>7. CASE q.dir = "previous"
      <4>1. d < D
          BY <1>1, <2>1, <2>3, <3>7
      <4> QED BY <3>3, <3>4, <3>5, <3>7, <4>1 DEF Past, m
    <3> QED BY <1>1, <3>6, <3>7 DEF Directions
  <2> QED BY <2>2, <2>3
<1>11. RunDay(q, y) = D /\ Passage(q, y) = Today(q, y)
    BY <1>4
<1> HIDE DEF D, hits
<1> QED BY <1>3, <1>5, <1>7, <1>8, <1>9, <1>10, <1>11 DEF D

\* The services behind y, from the first of them on.
LEMMA FromBehind ==
    ASSUME TypeOK, NEW dir \in Directions, NEW y \in services, NEW k \in Iterators,
           IsFirst(dir, Behind(dir, y), k), NEW s \in services
    PROVE  s \in From(dir, k) <=> Ahead(dir, y, s)
<1>1. None \notin services /\ y # None
    BY TimeAssumption DEF TypeOK
<1>2. \A x \in services : timing[x].first \in Int
    BY PlannedType
<1>3. s \in Behind(dir, y) <=> Ahead(dir, y, s)
    BY <1>1 DEF Behind
<1>4. CASE Behind(dir, y) = {}
  <2>1. k = None
      BY <1>4 DEF IsFirst
  <2> QED BY <1>3, <1>4, <2>1 DEF From
<1>5. CASE Behind(dir, y) # {}
  <2>1. k \in Behind(dir, y) /\ \A x \in Behind(dir, y) \ {k} : Ahead(dir, k, x)
      BY <1>5 DEF IsFirst
  <2>2. k \in services /\ k # None /\ Ahead(dir, y, k)
      BY <1>1, <2>1 DEF Behind
  <2>3. s \in From(dir, k) <=> s = k \/ Ahead(dir, k, s)
      BY <2>2 DEF From
  <2>4. Ahead(dir, k, s) => Ahead(dir, y, s)
      BY <1>2, <2>2 DEF Ahead, Directions
  <2>5. Ahead(dir, y, s) => s = k \/ Ahead(dir, k, s)
      BY <1>3, <2>1
  <2> QED BY <2>2, <2>3, <2>4, <2>5
<1> QED BY <1>4, <1>5

\* The planner takes what the loop has found, and goes on from there.
LEMMA TakesIt ==
    ASSUME TypeOK, NoOvertaking, NEW q \in SearchType, Conventional(q), q.rt = q.enabled,
           ~Beyond(q, q.moment), MomentBetween(q), NextLeadsOn(q), NEW y \in services,
           IsFirst(q.dir, {s \in From(q.dir, q.next) : Serves(q, s)}, y),
           ~Beyond(q, Passage(q, y)),
           NEW k \in Iterators, Holds(q.dir, y, k),
           NEW n \in SearchType, SameQuery(n, q), n.moment = Passage(q, y), n.kept = {k},
           n.found = Append(q.found, [service |-> y, day |-> RunDay(q, y), at |-> Passage(q, y)])
    PROVE  MomentBetween(n) /\ KeptIsFound(n)
<1> DEFINE D == ServiceDay(q.moment)
           at == Today(q, y)
           new == Answer(q, y, D)
<1>1. /\ ~AtNight(q) /\ at \in Int /\ IsToFind(q, y, D) /\ Reached(q, q.moment, at)
      /\ RunDay(q, y) = D /\ Passage(q, y) = at /\ ServiceDay(at) = D
      /\ \A s, d : IsToFind(q, s, d) /\ ~(s = y /\ d = D) => Past(q, at, PassesAt(q, s, d))
    BY FirstHit
<1>2. q.moment \in Int /\ q.from \in Int /\ q.limit \in Int /\ q.dir \in Directions /\ D \in Int
      /\ n.moment = at /\ n.dir = q.dir /\ n.from = q.from /\ n.limit = q.limit
    BY <1>1, ServiceDayParts DEF SearchType, SameQuery
<1>3. new.at = at /\ new = [service |-> y, day |-> D, at |-> at]
    BY DEF Answer, Today
<1>4. n.found = Append(q.found, new) /\ q.found \in Seq([service : Services, day : Int, at : Int])
    BY <1>1, <1>3 DEF SearchType
<1>5. /\ \A a, b : (Past(n, a, b) <=> Past(q, a, b)) /\ (Reached(n, a, b) <=> Reached(q, a, b))
      /\ \A s, d : PassesAt(n, s, d) = PassesAt(q, s, d) /\ Answer(n, s, d) = Answer(q, s, d)
    BY SameQuestion
<1> DEFINE k0 == Len(q.found)
<1>6. /\ k0 \in Nat /\ DOMAIN q.found = 1 .. k0 /\ DOMAIN n.found = 1 .. k0 + 1
      /\ n.found[k0 + 1] = new /\ \A i \in 1 .. k0 : n.found[i] = q.found[i]
    BY <1>4
<1> HIDE DEF k0, new, at, D
<1>7. Answers(n) = Answers(q) \cup {new}
  <2>1. 1 .. k0 + 1 = (1 .. k0) \cup {k0 + 1}
      BY <1>6
  <2> QED BY <1>6, <2>1 DEF Answers
<1>8. ASSUME NEW x \in Answers(q) PROVE Past(q, x.at, at)
  <2>1. /\ x.service \in services /\ x = Answer(q, x.service, x.day)
        /\ Reached(q, x.at, q.moment) /\ x.at \in Int /\ x.day \in Int
      BY AnswerType DEF MomentBetween
  <2>2. x.at = PassesAt(q, x.service, x.day)
      BY <2>1 DEF Answer
  <2>3. ASSUME x.at = at PROVE FALSE
    <3> DEFINE time == Schedule(x.service, q.enabled)
               day == x.day
    <3>1. time \in Int /\ Night < time /\ time < Day + Night
        BY <2>1, ConventionalTimes
    <3>2. at = day * Day + time /\ day \in Int
        BY <2>1, <2>2, <2>3 DEF PassesAt
    <3> HIDE DEF time, day
    <3>3. Night <= time
        BY <3>1, NightType
    <3>4. ServiceDay(day * Day + time) = day
        BY <3>1, <3>2, <3>3, OnItsDay
    <3>5. day = D
        BY <1>1, <3>2, <3>4
    <3>6. Today(q, x.service) = Today(q, y)
        BY <2>2, <2>3, <3>5 DEF Today, at, D, day
    <3>7. x.service = y
        BY <2>1, <3>6, TodayOrder
    <3>8. x = new
        BY <2>1, <3>5, <3>7 DEF new, day
    <3> QED BY <1>1, <3>8 DEF IsToFind, new
  <2> QED BY <1>1, <1>2, <2>1, <2>3 DEF Past, Reached
<1>9. InAnswerOrder(n)
  <2>1. ASSUME NEW i \in 1 .. k0 + 1, NEW j \in 1 .. k0 + 1, i < j
        PROVE  Past(q, n.found[i].at, n.found[j].at)
    <3>1. i \in 1 .. k0
      <4>1. k0 \in Nat
          BY <1>6
      <4> QED BY <2>1, <4>1
    <3>2. n.found[i] = q.found[i] /\ q.found[i] \in Answers(q)
        BY <1>6, <3>1 DEF Answers
    <3>3. CASE j \in 1 .. k0
      <4>1. n.found[j] = q.found[j]
          BY <1>6, <3>3
      <4>2. Past(q, q.found[i].at, q.found[j].at)
          BY <1>6, <2>1, <3>1, <3>3 DEF MomentBetween, InAnswerOrder
      <4> QED BY <3>2, <4>1, <4>2
    <3>4. CASE j \notin 1 .. k0
      <4>1. j = k0 + 1
        <5>1. k0 \in Nat
            BY <1>6
        <5> QED BY <2>1, <3>4, <5>1
      <4> QED BY <1>3, <1>6, <1>8, <3>2, <4>1
    <3> QED BY <3>3, <3>4
  <2> QED BY <1>5, <1>6, <2>1 DEF InAnswerOrder
<1>10. Reached(q, q.from, at) /\ Reached(q, at, q.limit)
  <2>1. Reached(q, q.from, q.moment)
      BY DEF MomentBetween
  <2> QED BY <1>1, <1>2, <2>1 DEF Reached, Beyond, Directions
<1>11. ASSUME NEW x \in Answers(n)
       PROVE  /\ x.service \in services /\ x.day \in calendar[x.service]
              /\ x = Answer(q, x.service, x.day)
              /\ Reached(q, q.from, x.at) /\ Reached(q, x.at, q.limit) /\ Reached(q, x.at, at)
  <2>1. CASE x = new
    <3>1. y \in services /\ D \in calendar[y] /\ Reached(q, at, at)
        BY <1>1 DEF IsToFind, Reached
    <3>2. x.service = y /\ x.day = D /\ x.at = at /\ x = Answer(q, y, D)
        BY <1>3, <2>1 DEF new
    <3> QED BY <1>10, <3>1, <3>2
  <2>2. CASE x \in Answers(q)
    <3>1. /\ x.service \in services /\ x.day \in calendar[x.service]
          /\ x = Answer(q, x.service, x.day)
          /\ Reached(q, q.from, x.at) /\ Reached(q, x.at, q.limit)
        BY <2>2 DEF MomentBetween
    <3>2. Past(q, x.at, at) /\ x.at \in Int
        BY <1>8, <2>2, AnswerType
    <3> QED BY <1>1, <3>1, <3>2 DEF Past, Reached
  <2> QED BY <1>7, <2>1, <2>2
<1>12. ASSUME NEW s, NEW d, IsToFind(n, s, d) PROVE Past(q, at, PassesAt(q, s, d))
  <2>1. IsToFind(q, s, d) /\ Answer(q, s, d) # new
      BY <1>2, <1>5, <1>7, <1>12 DEF IsToFind
  <2> QED BY <1>1, <2>1 DEF new
<1>13. ASSUME NEW s, NEW d, IsToFind(n, s, d) PROVE Reached(q, at, PassesAt(q, s, d))
  <2>1. IsToFind(q, s, d)
      BY <1>2, <1>5, <1>7, <1>13 DEF IsToFind
  <2>2. PassesAt(q, s, d) \in Int
      BY <2>1, ToFindIsAhead
  <2> QED BY <1>1, <1>12, <1>13, <2>2 DEF Past, Reached
<1>14. MomentBetween(n)
    BY <1>2, <1>5, <1>9, <1>10, <1>11, <1>13 DEF MomentBetween
<1>15. \A s \in services : Ahead(n.dir, y, s) <=> Past(n, n.moment, Today(n, s))
  <2> TAKE s \in services
  <2>2. Today(n, s) = Today(q, s)
      BY <1>1, <1>2, <1>5 DEF Today, D
  <2>3. Ahead(q.dir, y, s) <=> Past(q, at, Today(q, s))
    <3>1. /\ Ahead(q.dir, y, s) => Past(q, at, Today(q, s))
          /\ Ahead(q.dir, s, y) => Past(q, Today(q, s), at)
          /\ y # s => Ahead(q.dir, y, s) \/ Ahead(q.dir, s, y)
        BY TodayOrder DEF at
    <3>2. Today(q, s) \in Int
        BY <1>2, TodayType
    <3>3. y = s => ~Past(q, at, Today(q, s))
        BY <1>1 DEF Past, at
    <3> QED BY <1>1, <3>1, <3>2, <3>3 DEF Past
  <2> QED BY <1>2, <1>5, <2>2, <2>3
<1>16. ~AtNight(n)
  <2> SUFFICES ASSUME q.dir = "previous", TimeOf(at) < Night PROVE FALSE
      BY <1>1, <1>2, ServiceDayParts DEF AtNight
  <2> DEFINE time == Schedule(y, q.enabled)
             x == TimeOf(at)
             z == DateOf(at) * Day
  <2>1. time < Day /\ time \in Int
      BY ConventionalTimes
  <2>2. /\ DateOf(at) \in Int /\ x \in 0 .. Day - 1 /\ at = z + x
        /\ D = DateOf(at) - 1 /\ (DateOf(at) - 1) * Day = z - Day /\ z \in Int
      BY <1>1, ServiceDayParts, DaysApart
  <2>3. at = D * Day + time
      BY DEF at, D, Today, PassesAt
  <2> HIDE DEF time, x, z
  <2>4. at = z - Day + time
      BY <2>2, <2>3
  <2> QED BY <2>1, <2>2, <2>4, NightType
<1>17. \A s, d : IsToFind(n, s, d) => Past(n, n.moment, PassesAt(n, s, d))
    BY <1>2, <1>5, <1>12
<1>18. ~Beyond(n, n.moment)
    BY <1>1, <1>2, SameQuestion
<1> QED BY <1>2, <1>14, <1>15, <1>16, <1>17, <1>18 DEF KeptIsFound, AllIsAhead

\* An iterator that holds h for service y is on y, and the next one is on the first service
\* behind y.
LEMMA HeldIsOn ==
    ASSUME TypeOK, NoOvertaking, NEW dir \in Directions, NEW y \in services, NEW h,
           Holds(dir, y, h), NEW x
    PROVE  IsOn(dir, h, x) <=> x = y
<1>1. None \notin services /\ y # None
    BY TimeAssumption DEF TypeOK
<1>2. \A a \in services : timing[a].first \in Int
    BY PlannedType
<1>3. \A a, b \in services : a # b => timing[a].first # timing[b].first
    BY DEF NoOvertaking, SameOrder
<1>4. CASE dir = "next"
    BY <1>4 DEF Holds, IsOn
<1>5. CASE dir = "previous"
  <2> DEFINE B == {a \in services : h = None \/ Ahead("next", a, h)}
  <2>1. IsFirst("next", Behind("next", y), h)
      BY <1>5 DEF Holds
  <2>2. \A a \in services : a \in Behind("next", y) <=> Ahead("next", y, a)
      BY <1>1 DEF Behind
  <2>3. ASSUME NEW a \in services PROVE a \in B <=> ~Ahead("next", y, a)
    <3>1. CASE Behind("next", y) = {}
      <4>1. h = None
          BY <2>1, <3>1 DEF IsFirst
      <4> QED BY <2>2, <3>1, <4>1
    <3>2. CASE Behind("next", y) # {}
      <4>1. /\ h \in services /\ Ahead("next", y, h)
            /\ \A b \in Behind("next", y) \ {h} : Ahead("next", h, b)
          BY <2>1, <2>2, <3>2 DEF IsFirst, Behind
      <4>2. h # None
          BY <1>1, <4>1
      <4>3. Ahead("next", a, h) => ~Ahead("next", y, a)
        <5> SUFFICES ASSUME Ahead("next", a, h), Ahead("next", y, a) PROVE FALSE
            OBVIOUS
        <5>1. a # h
            BY <1>2, <4>1 DEF Ahead
        <5>2. Ahead("next", h, a)
            BY <2>2, <4>1, <5>1
        <5> QED BY <1>2, <4>1, <5>2 DEF Ahead
      <4>4. ~Ahead("next", y, a) => Ahead("next", a, h)
          BY <1>2, <4>1 DEF Ahead
      <4> QED BY <4>2, <4>3, <4>4
    <3> QED BY <3>1, <3>2
  <2>4. y \in B /\ \A a \in B \ {y} : Ahead("previous", y, a)
    <3>1. ~Ahead("next", y, y)
        BY <1>2 DEF Ahead
    <3>2. ASSUME NEW a \in B \ {y} PROVE Ahead("previous", y, a)
      <4>1. a \in services /\ ~Ahead("next", y, a)
          BY <2>3
      <4> QED BY <1>2, <1>3, <4>1 DEF Ahead
    <3> QED BY <2>3, <3>1, <3>2
  <2>5. IsOn(dir, h, x) <=> IsFirst("previous", B, x)
      BY <1>5 DEF IsOn
  <2>6. ASSUME x \in B, x # y, \A a \in B \ {x} : Ahead("previous", x, a) PROVE FALSE
    <3>1. Ahead("previous", x, y) /\ Ahead("previous", y, x) /\ x \in services
        BY <2>4, <2>6
    <3> QED BY <1>2, <3>1 DEF Ahead
  <2> HIDE DEF B
  <2> QED BY <2>4, <2>5, <2>6 DEF IsFirst
<1> QED BY <1>4, <1>5 DEF Directions

LEMMA FirstIsOne ==
    ASSUME TypeOK, NEW dir \in Directions, NEW S \in SUBSET services, NEW a, NEW b,
           IsFirst(dir, S, a), IsFirst(dir, S, b)
    PROVE  a = b
<1>1. \A x \in services : timing[x].first \in Int
    BY PlannedType
<1>2. CASE S = {}
    BY <1>2 DEF IsFirst
<1>3. CASE S # {}
  <2>1. /\ a \in S /\ \A x \in S \ {a} : Ahead(dir, a, x)
        /\ b \in S /\ \A x \in S \ {b} : Ahead(dir, b, x)
      BY <1>3 DEF IsFirst
  <2>2. ASSUME a # b PROVE FALSE
    <3>1. Ahead(dir, a, b) /\ Ahead(dir, b, a) /\ a \in services /\ b \in services
        BY <2>1, <2>2
    <3> QED BY <1>1, <3>1 DEF Ahead, Directions
  <2> QED BY <2>2
<1> QED BY <1>2, <1>3

LEMMA NextIsOn ==
    ASSUME TypeOK, NEW dir \in Directions, NEW y \in services, NEW h \in Iterators,
           HoldsNext(dir, y, h), NEW x
    PROVE  IsOn(dir, h, x) <=> IsFirst(dir, Behind(dir, y), x)
<1>1. None \notin services /\ y # None
    BY TimeAssumption DEF TypeOK
<1>2. CASE dir = "next"
  <2>1. IsFirst(dir, Behind(dir, y), h) /\ (IsOn(dir, h, x) <=> x = h)
      BY <1>2 DEF HoldsNext, IsOn
  <2>2. Behind(dir, y) \subseteq services
      BY DEF Behind
  <2> QED BY <2>1, <2>2, FirstIsOne
<1>3. CASE dir = "previous"
  <2>1. h = y
      BY <1>3 DEF HoldsNext
  <2>2. {a \in services : h = None \/ Ahead("next", a, h)} = Behind("previous", y)
      BY <1>1, <2>1 DEF Behind, Ahead
  <2> QED BY <1>3, <2>2 DEF IsOn
<1> QED BY <1>2, <1>3 DEF Directions

\* There is one, for departures are natural numbers.
LEMMA BehindHasFirst ==
    ASSUME TypeOK, NoOvertaking, NEW dir \in Directions, NEW y \in services
    PROVE  \E k \in Iterators : IsFirst(dir, Behind(dir, y), k)
<1>1. None \notin services /\ y # None
    BY TimeAssumption DEF TypeOK
<1>2. \A a \in services : timing[a].first \in Nat
    BY PlannedType
<1>3. \A a, b \in services : a # b => timing[a].first # timing[b].first
    BY DEF NoOvertaking, SameOrder
<1>4. CASE Behind(dir, y) = {}
    BY <1>4 DEF IsFirst, Iterators
<1>5. CASE Behind(dir, y) # {}
  <2> DEFINE T == {timing[a].first : a \in Behind(dir, y)}
  <2>1. Behind(dir, y) \subseteq services /\ \A a \in Behind(dir, y) : Ahead(dir, y, a)
      BY DEF Behind
  <2>2. T \in SUBSET Nat /\ T # {}
      BY <1>2, <1>5, <2>1
  <2>3. CASE dir = "next"
    <3>1. PICK m \in T : \A n \in T : m <= n
        BY <2>2, LeastElement
    <3>2. PICK k \in Behind(dir, y) : m = timing[k].first
        OBVIOUS
    <3>3. ASSUME NEW a \in Behind(dir, y) \ {k} PROVE Ahead(dir, k, a)
      <4>1. timing[k].first <= timing[a].first
          BY <3>1, <3>2
      <4>2. k \in services /\ a \in services /\ a # k
          BY <2>1, <3>2, <3>3
      <4> QED BY <1>2, <1>3, <2>3, <4>1, <4>2 DEF Ahead
    <3> QED BY <1>5, <2>1, <3>2, <3>3 DEF IsFirst, Iterators
  <2>4. CASE dir = "previous"
    <3>1. \A n \in T : n < timing[y].first
        BY <2>1, <2>4 DEF Ahead
    <3>2. PICK m \in T : \A n \in T : n <= m
      <4> DEFINE b == timing[y].first
      <4>1. b \in Nat /\ \A n \in T : n < b
          BY <1>2, <3>1
      <4> HIDE DEF T, b
      <4> QED BY <2>2, <4>1, GreatestElement
    <3>3. PICK k \in Behind(dir, y) : m = timing[k].first
        BY <3>2
    <3>4. ASSUME NEW a \in Behind(dir, y) \ {k} PROVE Ahead(dir, k, a)
      <4>1. timing[a].first <= timing[k].first
          BY <3>2, <3>3
      <4>2. k \in services /\ a \in services /\ a # k
          BY <2>1, <3>3, <3>4
      <4> QED BY <1>2, <1>3, <2>4, <4>1, <4>2 DEF Ahead
    <3> QED BY <1>5, <2>1, <3>3, <3>4 DEF IsFirst, Iterators
  <2> QED BY <2>3, <2>4 DEF Directions
<1> QED BY <1>4, <1>5

\* The planner moves its iterator to where the rest of the service day begins.
LEMMA StepsOn ==
    ASSUME TypeOK, NoOvertaking, NEW q \in SearchType, KeptIsFound(q)
    PROVE  /\ \E s \in services : KeptOn(q, s)
           /\ \A n, h, s :
                /\ n \in SearchType /\ SameQuery(n, q) /\ n.found = q.found
                /\ n.moment = q.moment /\ n.kept = {h} /\ h \in Iterators
                /\ s \in services /\ KeptOn(q, s) /\ HoldsNext(q.dir, s, h)
                => KeptIsNext(n)
<1>1. PICK y \in services, g \in Iterators :
        /\ q.kept = {g} /\ Holds(q.dir, y, g)
        /\ \A s \in services : Ahead(q.dir, y, s) <=> Past(q, q.moment, Today(q, s))
    BY DEF KeptIsFound
<1>2. q.dir \in Directions /\ AllIsAhead(q) /\ g # Dangling
    BY TimeAssumption DEF SearchType, KeptIsFound, Iterators, TypeOK
<1>3. \A s : KeptOn(q, s) <=> s = y
  <2> TAKE s
  <2>1. IsOn(q.dir, g, s) <=> s = y
      BY <1>1, <1>2, HeldIsOn
  <2> QED BY <1>1, <1>2, <2>1 DEF KeptOn
<1>4. ASSUME NEW n \in SearchType, NEW h \in Iterators, SameQuery(n, q), n.found = q.found,
             n.moment = q.moment, n.kept = {h}, HoldsNext(q.dir, y, h)
      PROVE  KeptIsNext(n)
  <2>1. PICK k \in Iterators : IsFirst(q.dir, Behind(q.dir, y), k)
      BY <1>2, BehindHasFirst
  <2>2. Behind(q.dir, y) \subseteq services
      BY DEF Behind
  <2>3. ASSUME NEW x \in Iterators PROVE IsOn(q.dir, h, x) <=> x = k
    <3>1. IsOn(q.dir, h, x) <=> IsFirst(q.dir, Behind(q.dir, y), x)
        BY <1>2, <1>4, NextIsOn
    <3>2. IsFirst(q.dir, Behind(q.dir, y), x) => x = k
        BY <1>2, <2>1, <2>2, FirstIsOne
    <3> QED BY <2>1, <3>1, <3>2
  <2>4. /\ n.dir = q.dir /\ (AtNight(n) <=> AtNight(q))
        /\ \A s, d : IsToFind(n, s, d) <=> IsToFind(q, s, d)
        /\ \A s : Today(n, s) = Today(q, s)
        /\ \A s, d : PassesAt(n, s, d) = PassesAt(q, s, d)
        /\ \A a, b : Past(n, a, b) <=> Past(q, a, b)
        /\ \A m : Beyond(n, m) <=> Beyond(q, m)
      BY <1>4, SameQuestion, SameFound DEF SameQuery, AtNight, Today
  <2>5. \A s \in services : s \in From(q.dir, k) <=> Past(q, q.moment, Today(q, s))
      BY <1>1, <1>2, <2>1, FromBehind
  <2>6. \A s \in services : s \in From(n.dir, k) <=> Past(n, n.moment, Today(n, s))
      BY <1>4, <2>4, <2>5
  <2>7. AllIsAhead(n)
      BY <1>2, <1>4, <2>4 DEF AllIsAhead
  <2>8. n.kept = {h} /\ \A x \in Iterators : IsOn(n.dir, h, x) <=> x = k
      BY <1>4, <2>3, <2>4
  <2> QED BY <2>6, <2>7, <2>8 DEF KeptIsNext
<1> QED BY <1>3, <1>4

LEMMA HourGrows ==
    ASSUME NEW a \in Int, NEW b \in Int, a <= b
    PROVE  HourOf(a) <= HourOf(b) /\ HourOf(a) \in Int /\ HourOf(b) \in Int
<1> DEFINE h == HourOf(a)
<1>1. h \in Int /\ HourOf(b) \in Int
    BY HourBelow, TimeAssumption
<1>2. h * HourLength \in Int
    BY <1>1, NightType
<1>3. (HourOf(a) < h <=> a < h * HourLength) /\ (HourOf(b) < h <=> b < h * HourLength)
    BY <1>1, HourBelow
<1> HIDE DEF h
<1>4. HourOf(b) < h => FALSE
    BY <1>1, <1>2, <1>3 DEF h
<1> QED BY <1>1, <1>4 DEF h

\* The entry of the hour of a moment is not behind what is left of the service day.
LEMMA EntryLeadsOn ==
    ASSUME TypeOK, NEW q \in SearchType, Conventional(q), MomentBetween(q), ~AtNight(q),
           NEW entry,
           \A s \in services \ From(q.dir, entry) :
                Late(q.dir, q.enabled, s, HourOf(TimeOf(q.moment))),
           NEW s \in services, Reached(q, q.moment, Today(q, s))
    PROVE  s \in From(q.dir, entry)
<1> DEFINE m == q.moment
           D == ServiceDay(m)
           x == TimeOf(m)
           y == DateOf(m) * Day
           time == Schedule(s, q.enabled)
<1>1. s \in services /\ Reached(q, m, PassesAt(q, s, D))
    BY DEF Today
<1>2. m \in Int /\ q.dir \in Directions
    BY DEF SearchType
<1>3. /\ D \in Int /\ x \in 0 .. Day - 1 /\ m = y + x
      /\ HourOf(x) < Morning <=> x < Night
      /\ D = DateOf(m) - IF x < Night THEN 1 ELSE 0
      /\ y \in Int
    BY <1>2, ServiceDayParts, DaysApart
<1>4. time \in Int /\ HourOf(time) > Morning
    BY <1>1, ConventionalTimes
<1>5. PassesAt(q, s, D) = D * Day + time
    BY DEF PassesAt
<1>6. SUFFICES ASSUME Late(q.dir, q.enabled, s, HourOf(x)) PROVE FALSE
    BY <1>1
<1>7. IF q.dir = "next" THEN HourOf(time) < HourOf(x) ELSE HourOf(time) > HourOf(x)
    BY <1>6 DEF Late
<1>8. DateOf(m) \in Int
    BY <1>2, ServiceDayParts
<1> HIDE DEF time, x, m, D
<1>9. x \in Int /\ Morning \in Int /\ HourOf(x) \in Int /\ HourOf(time) \in Int
    BY <1>3, <1>4, DayType, HourBelow, TimeAssumption
<1>10. CASE x < Night
  <2>1. q.dir = "next"
      BY <1>2, <1>3, <1>10 DEF AtNight, Directions, x, m
  <2> QED BY <1>3, <1>4, <1>7, <1>9, <1>10, <2>1
<1>11. CASE ~(x < Night)
  <2>1. D = DateOf(m)
      BY <1>3, <1>8, <1>11
  <2>2. PassesAt(q, s, D) = y + time
      BY <1>5, <2>1
  <2> HIDE DEF y
  <2>3. CASE q.dir = "next"
    <3>1. x <= time
        BY <1>1, <1>3, <1>4, <1>9, <2>2, <2>3 DEF Reached
    <3> QED BY <1>4, <1>7, <1>9, <2>3, <3>1, HourGrows
  <2>4. CASE q.dir = "previous"
    <3>1. time <= x
        BY <1>1, <1>3, <1>4, <1>9, <2>2, <2>4 DEF Reached
    <3> QED BY <1>4, <1>7, <1>9, <2>4, <3>1, HourGrows
  <2> QED BY <1>2, <2>3, <2>4 DEF Directions
<1> QED BY <1>10, <1>11

\* A search that nothing disturbs compares valid iterators: if the entry is the end of the
\* list, so is the iterator kept.
LEMMA ReadsNothingFreed ==
    ASSUME TypeOK, NEW q \in SearchType, Conventional(q), MomentBetween(q), KeptIsNext(q),
           NEW entry \in Iterators,
           \A s \in services \ From(q.dir, entry) :
                Late(q.dir, q.enabled, s, HourOf(TimeOf(q.moment)))
    PROVE  ~ReadsFreed(q, entry)
<1>1. CASE q.kept = {}
    BY <1>1 DEF ReadsFreed, KeptOn
<1>2. CASE q.kept # {}
  <2>1. PICK k \in Iterators :
            /\ \E h \in Iterators :
                    q.kept = {h} /\ \A x \in Iterators : IsOn(q.dir, h, x) <=> x = k
            /\ \A s \in services : s \in From(q.dir, k) <=> Past(q, q.moment, Today(q, s))
      BY <1>2 DEF KeptIsNext
  <2>2. PICK h \in Iterators :
            q.kept = {h} /\ \A x \in Iterators : IsOn(q.dir, h, x) <=> x = k
      BY <2>1
  <2>3. h # Dangling /\ services \subseteq Iterators /\ None \notin services
      BY TimeAssumption DEF Iterators, TypeOK
  <2>4. ASSUME entry = None, NEW s \in services, KeptOn(q, s) PROVE FALSE
    <3>1. s = k
        BY <2>2, <2>3, <2>4 DEF KeptOn
    <3>2. s \in From(q.dir, k)
        BY <2>3, <3>1 DEF From
    <3>3. Past(q, q.moment, Today(q, s))
        BY <2>1, <3>2
    <3>4. q.moment \in Int /\ ServiceDay(q.moment) \in Int
        BY ServiceDayParts DEF SearchType
    <3>5. Today(q, s) \in Int
        BY <3>4, TodayType DEF Today
    <3>6. Reached(q, q.moment, Today(q, s))
        BY <3>3, <3>4, <3>5 DEF Past, Reached
    <3>7. ~AtNight(q)
        BY <1>2 DEF KeptIsNext, AllIsAhead
    <3>8. s \in From(q.dir, entry)
        BY <3>6, <3>7, EntryLeadsOn
    <3> QED BY <2>4, <3>8 DEF From
  <2> QED BY <2>2, <2>3, <2>4 DEF ReadsFreed
<1> QED BY <1>1, <1>2

\* The loop starts at the entry, or at the iterator kept from the last answer if it is further.
LEMMA StartLeadsOn ==
    ASSUME TypeOK, NoOvertaking, NEW q \in SearchType, Conventional(q),
           MomentBetween(q), KeptIsNext(q), NEW entry \in Iterators,
           \A s \in services \ From(q.dir, entry) :
                Late(q.dir, q.enabled, s, HourOf(TimeOf(q.moment))),
           AtNight(q) => entry = None, ~ReadsFreed(q, entry),
           NEW x \in Iterators,
           \/ Further(q, entry, x)
           \/ x = entry /\ \A s \in Iterators : ~Further(q, entry, s),
           NEW n \in SearchType, SameQuery(n, q), n.found = q.found, n.moment = q.moment,
           n.next = x
    PROVE  NextLeadsOn(n)
<1> DEFINE D == ServiceDay(q.moment)
<1>1. /\ n.dir = q.dir /\ (AtNight(n) <=> AtNight(q)) /\ Answers(n) = Answers(q)
      /\ \A s, d : IsToFind(n, s, d) <=> IsToFind(q, s, d)
      /\ \A s : Today(n, s) = Today(q, s)
      /\ \A a, b : Reached(n, a, b) <=> Reached(q, a, b)
      /\ \A s, d : Answer(n, s, d) = Answer(q, s, d)
    BY SameQuestion, SameFound DEF SameQuery, AtNight, Today
<1>2. q.dir \in Directions /\ q.moment \in Int
    BY DEF SearchType
<1>3. SUFFICES /\ AtNight(q) => x = None
               /\ \A s : ~AtNight(q) /\ IsToFind(q, s, D) => s \in From(q.dir, x)
               /\ \A s \in From(q.dir, x) :
                    Reached(q, q.moment, Today(q, s)) => Answer(q, s, D) \notin Answers(q)
    BY <1>1 DEF NextLeadsOn
<1>4. ASSUME ~AtNight(q), NEW s, IsToFind(q, s, D) PROVE s \in From(q.dir, entry)
  <2>1. s \in services /\ Reached(q, q.moment, Today(q, s))
      BY <1>4, ToFindIsAhead DEF Today
  <2> QED BY <1>4, <2>1, EntryLeadsOn
<1>5. From(q.dir, None) = {}
    BY DEF From
<1>6. CASE q.kept = {} /\ q.found = <<>>
  <2>1. x = entry
      BY <1>6 DEF Further, KeptOn
  <2>2. Answers(q) = {}
      BY <1>6 DEF Answers
  <2> QED BY <1>4, <2>1, <2>2
<1>7. CASE ~(q.kept = {} /\ q.found = <<>>)
  <2>1. PICK k \in Iterators :
            /\ \E h \in Iterators :
                    q.kept = {h} /\ \A z \in Iterators : IsOn(q.dir, h, z) <=> z = k
            /\ \A s \in services : s \in From(q.dir, k) <=> Past(q, q.moment, Today(q, s))
      BY <1>7 DEF KeptIsNext
  <2>2. ~AtNight(q) /\ \A s, d : IsToFind(q, s, d) => Past(q, q.moment, PassesAt(q, s, d))
      BY <1>7 DEF KeptIsNext, AllIsAhead
  <2>3. ASSUME NEW s, IsToFind(q, s, D) PROVE s \in From(q.dir, k) /\ s \in From(q.dir, entry)
    <3>1. s \in services /\ Past(q, q.moment, Today(q, s))
        BY <2>2, <2>3 DEF IsToFind, Today
    <3> QED BY <1>4, <2>1, <2>2, <2>3, <3>1
  <2>4. ASSUME NEW s \in From(q.dir, k), Answer(q, s, D) \in Answers(q) PROVE FALSE
    <3>1. s \in services
        BY DEF From
    <3>2. Past(q, q.moment, Today(q, s))
        BY <2>1, <3>1
    <3>3. Answer(q, s, D).at = Today(q, s)
        BY DEF Answer, Today
    <3>4. Reached(q, Today(q, s), q.moment) /\ Today(q, s) \in Int
        BY <2>4, <3>3, AnswerType DEF MomentBetween
    <3> QED BY <1>2, <3>2, <3>4 DEF Past, Reached
  <2>5. \/ x = k
        \/ x = entry /\ From(q.dir, entry) \subseteq From(q.dir, k)
    <3>1. \A z \in Iterators : KeptOn(q, z) <=> z = k
      <4>1. PICK h \in Iterators :
                q.kept = {h} /\ \A z \in Iterators : IsOn(q.dir, h, z) <=> z = k
          BY <2>1
      <4>2. h # Dangling
          BY TimeAssumption DEF Iterators, TypeOK
      <4> QED BY <4>1, <4>2 DEF KeptOn
    <3>2. CASE Further(q, entry, x)
        BY <3>1, <3>2 DEF Further
    <3>3. CASE x = entry /\ \A s \in Iterators : ~Further(q, entry, s)
      <4>1. k # None /\ ~Ahead(q.dir, entry, k)
          BY <3>1, <3>3 DEF Further
      <4>2. k \in services /\ entry \in services
          BY <3>1, <4>1 DEF Iterators, ReadsFreed
      <4>3. entry = k \/ Ahead(q.dir, k, entry)
        <5>1. entry # k => timing[entry].first # timing[k].first
            BY <4>2 DEF NoOvertaking, SameOrder
        <5>2. timing[entry].first \in Int /\ timing[k].first \in Int
            BY <4>2, PlannedType
        <5>3. /\ Ahead(q.dir, entry, k) \/ Ahead(q.dir, k, entry)
                    <=> timing[entry].first # timing[k].first
            BY <1>2, <5>2 DEF Ahead, Directions
        <5> QED BY <4>1, <5>1, <5>3
      <4>4. ASSUME NEW s \in From(q.dir, entry)
            PROVE  s \in From(q.dir, k)
        <5>1. s \in services /\ (s = entry \/ Ahead(q.dir, entry, s))
            BY DEF From
        <5>2. /\ timing[entry].first \in Int /\ timing[k].first \in Int
              /\ timing[s].first \in Int
            BY <4>2, <5>1, PlannedType
        <5>3. s = k \/ Ahead(q.dir, k, s)
            BY <1>2, <4>3, <5>1, <5>2 DEF Ahead, Directions
        <5> QED BY <4>1, <5>1, <5>3 DEF From
      <4> QED BY <3>3, <4>4
    <3> QED BY <3>2, <3>3
  <2>6. ASSUME NEW s, IsToFind(q, s, D) PROVE s \in From(q.dir, x)
      BY <2>3, <2>5, <2>6
  <2>7. ASSUME NEW s \in From(q.dir, x) PROVE Answer(q, s, D) \notin Answers(q)
      BY <2>4, <2>5, <2>7
  <2> QED BY <2>2, <2>6, <2>7
<1> HIDE DEF D
<1> QED BY <1>6, <1>7

-----------------------------------------------------------------------------
(* Steps of a search. *)

\* The fields a search is judged by.
LEMMA SamePlace ==
    ASSUME NEW q, NEW n, SameQuery(n, q), n.found = q.found, n.moment = q.moment
    PROVE  /\ MomentBetween(n) <=> MomentBetween(q)
           /\ n.kept = q.kept => (KeptIsNext(n) <=> KeptIsNext(q))
           /\ n.kept = q.kept => (KeptIsFound(n) <=> KeptIsFound(q))
           /\ n.next = q.next => (NextLeadsOn(n) <=> NextLeadsOn(q))
<1>1. /\ \A a, b : (Past(n, a, b) <=> Past(q, a, b)) /\ (Reached(n, a, b) <=> Reached(q, a, b))
      /\ \A s, d : PassesAt(n, s, d) = PassesAt(q, s, d) /\ Answer(n, s, d) = Answer(q, s, d)
      /\ \A s, d : IsToFind(n, s, d) <=> IsToFind(q, s, d)
      /\ Answers(n) = Answers(q) /\ (InAnswerOrder(n) <=> InAnswerOrder(q))
      /\ n.dir = q.dir /\ n.from = q.from /\ n.limit = q.limit
      /\ \A m : Beyond(n, m) <=> Beyond(q, m)
    BY SameQuestion, SameFound DEF SameQuery
<1>2. \A s : Today(n, s) = Today(q, s)
    BY <1>1 DEF Today
<1>3. AtNight(n) <=> AtNight(q)
    BY <1>1 DEF AtNight
<1>4. MomentBetween(n) <=> MomentBetween(q)
    BY <1>1 DEF MomentBetween
<1>5. n.kept = q.kept => (KeptIsNext(n) <=> KeptIsNext(q))
    BY <1>1, <1>2, <1>3 DEF KeptIsNext, AllIsAhead
<1>6. n.next = q.next => (NextLeadsOn(n) <=> NextLeadsOn(q))
    BY <1>1, <1>2, <1>3 DEF NextLeadsOn
<1>7. n.kept = q.kept => (KeptIsFound(n) <=> KeptIsFound(q))
    BY <1>1, <1>2, <1>3 DEF KeptIsFound, AllIsAhead
<1> QED BY <1>4, <1>5, <1>6, <1>7

\* A planner's step changes neither the services nor what is expected of a search.
LEMMA QueryStays ==
    ASSUME UNCHANGED <<services, timing, calendar, shift>>, NEW q
    PROVE  /\ Conventional(q)' <=> Conventional(q)
           /\ OnItsWay(q)' <=> OnItsWay(q)
           /\ RunDays' = RunDays /\ \A s, rt : Schedule(s, rt)' = Schedule(s, rt)
<1>1. \A s, rt : Schedule(s, rt)' = Schedule(s, rt) /\ Planned(s)' = Planned(s)
    BY DEF Schedule, Planned
<1>2. /\ \A s, d : PassesAt(q, s, d)' = PassesAt(q, s, d) /\ Answer(q, s, d)' = Answer(q, s, d)
      /\ \A s : Today(q, s)' = Today(q, s)
      /\ \A s, d : IsToFind(q, s, d)' <=> IsToFind(q, s, d)
      /\ \A dir, s : From(dir, s)' = From(dir, s)
      /\ \A dir, a, b : Ahead(dir, a, b)' <=> Ahead(dir, a, b)
      /\ Iterators' = Iterators
    BY <1>1 DEF PassesAt, Answer, Today, IsToFind, From, Ahead, Iterators, ServiceDay
<1>10. /\ \A dir, S, a : IsFirst(dir, S, a)' <=> IsFirst(dir, S, a)
       /\ \A dir, a : Behind(dir, a)' = Behind(dir, a)
    BY DEF IsFirst, Behind, Ahead
<1>11. /\ \A dir, a, k : Holds(dir, a, k)' <=> Holds(dir, a, k)
       /\ \A dir, a, k : IsOn(dir, k, a)' <=> IsOn(dir, k, a)
    BY <1>10 DEF Holds, IsOn, IsFirst, Behind, Ahead
<1>3. MomentBetween(q)' <=> MomentBetween(q)
    BY <1>2 DEF MomentBetween
<1>4. KeptIsNext(q)' <=> KeptIsNext(q)
    BY <1>2, <1>11 DEF KeptIsNext, AllIsAhead
<1>12. KeptIsFound(q)' <=> KeptIsFound(q)
    BY <1>2, <1>11 DEF KeptIsFound, AllIsAhead
<1>5. NextLeadsOn(q)' <=> NextLeadsOn(q)
    BY <1>2 DEF NextLeadsOn
<1>6. Conventional(q)' <=> Conventional(q)
    BY <1>1 DEF Conventional, InOrder
<1>7. Expected(q)' = Expected(q)
    BY <1>1 DEF Expected
<1>8. RunDays' = RunDays
    BY <1>1 DEF RunDays
<1>9. OnItsWay(q)' <=> OnItsWay(q)
    BY <1>3, <1>4, <1>5, <1>7, <1>12 DEF OnItsWay
<1> QED BY <1>1, <1>6, <1>8, <1>9

LEMMA OnItsWayNow ==
    ASSUME FindInv, NEW t \in Threads, NEW q, q = search[t], q.pc # "idle", ~q.disturbed,
           Conventional(q)
    PROVE  Ready(q) /\ OnItsWay(q)
BY DEF FindInv, SearchInv

LEMMA BeginWay ==
    ASSUME FindInv, NEW t \in Threads, Begin(t), NEW n \in SearchType, n = search'[t],
           ~n.disturbed, Conventional(n)
    PROVE  Ready(n)' /\ OnItsWay(n)
<1>1. PICK b \in Searches :
        Becomes(t, [Idle EXCEPT !.pc = "call", !.dir = b.dir, !.enabled = b.enabled,
                        !.from = b.from, !.limit = b.limit, !.moment = b.from])
    BY DEF Begin
<1>2. search \in [Threads -> SearchType]
    BY DEF FindInv, CoverInv, IInv, TypeOK
<1>3. n.pc = "call" /\ n.moment = n.from /\ n.kept = {} /\ n.found = <<>>
    BY <1>1, <1>2 DEF Becomes, Idle
<1>4. n.from \in Int
    BY DEF SearchType
<1>5. Answers(n) = {} /\ InAnswerOrder(n) /\ Reached(n, n.from, n.moment)
    BY <1>3, <1>4 DEF Answers, InAnswerOrder, Reached
<1>6. \A s, d : IsToFind(n, s, d) => Reached(n, n.moment, PassesAt(n, s, d))
    BY <1>3 DEF IsToFind
<1>7. MomentBetween(n)
    BY <1>5, <1>6 DEF MomentBetween
<1>8. KeptIsNext(n)
    BY <1>3 DEF KeptIsNext
<1> QED BY <1>3, <1>7, <1>8 DEF OnItsWay, Ready

LEMMA CallWay ==
    ASSUME FindInv, NEW t \in Threads, Call(t), NEW n \in SearchType, n = search'[t],
           ~n.disturbed, Conventional(n)
    PROVE  Ready(n)' /\ OnItsWay(n)
<1>1. PICK q \in SearchType : q = search[t]
    BY DEF FindInv, CoverInv, IInv, TypeOK
<1>2. search \in [Threads -> SearchType] /\ TypeOK
    BY DEF FindInv, CoverInv, IInv, TypeOK
<1> DEFINE rt == q.enabled /\ RealTimeReaches(q.moment)
           pc == CASE services = {} -> "done"
                   [] services # {} /\ stale[rt] -> "rebuild"
                   [] OTHER -> "read"
<1>3. q.pc = "call" /\ Becomes(t, [q EXCEPT !.rt = rt, !.pc = pc]) /\ UNCHANGED <<stale, cache>>
    BY <1>1 DEF Call
<1> HIDE DEF rt, pc
<1>4. /\ n.rt = rt /\ n.pc = pc /\ n.disturbed = q.disturbed /\ SameQuery(n, q)
      /\ n.found = q.found /\ n.moment = q.moment /\ n.kept = q.kept
    BY <1>2, <1>3 DEF Becomes, SearchType, SameQuery
<1>5. Conventional(q) /\ q.pc # "idle" /\ ~q.disturbed
    BY <1>3, <1>4, SameQuestion
<1>6. MomentBetween(q) /\ KeptIsNext(q)
    BY <1>1, <1>3, <1>5, OnItsWayNow DEF OnItsWay
<1>7. MomentBetween(n) /\ KeptIsNext(n)
    BY <1>4, <1>6, SamePlace
<1>8. CASE services = {}
  <2>1. n.pc = "done"
      BY <1>4, <1>8 DEF pc
  <2>2. Answers(n) = Expected(n) /\ InAnswerOrder(n)
      BY <1>2, <1>7, <1>8, AllFound DEF IsToFind
  <2> QED BY <2>1, <2>2 DEF OnItsWay, Ready
<1>9. CASE services # {}
  <2>1. n.pc = IF stale[rt] THEN "rebuild" ELSE "read"
      BY <1>4, <1>9 DEF pc
  <2>2. ~Beyond(n, n.moment) => n.rt = n.enabled
    <3> SUFFICES ASSUME ~Beyond(n, n.moment) PROVE n.rt = n.enabled
        OBVIOUS
    <3>1. Reached(n, n.from, n.moment)
        BY <1>7 DEF MomentBetween
    <3>2. n.enabled => RealTimeReaches(n.moment)
        BY <3>1, NeverForced
    <3>3. n.rt \in BOOLEAN /\ n.enabled \in BOOLEAN /\ n.enabled = q.enabled
        BY <1>4 DEF SearchType, SameQuery
    <3> QED BY <1>4, <3>2, <3>3 DEF rt
  <2>3. n.pc = "read" => ~stale'[n.rt]
      BY <1>3, <1>4, <2>1
  <2>4. n.pc \in {"rebuild", "read"}
      BY <2>1
  <2> QED BY <1>7, <2>2, <2>3, <2>4 DEF OnItsWay, Ready
<1> QED BY <1>8, <1>9

LEMMA RebuildWay ==
    ASSUME FindInv, NEW t \in Threads, Rebuild(t), NEW n \in SearchType, n = search'[t],
           ~n.disturbed, Conventional(n)
    PROVE  Ready(n)' /\ OnItsWay(n)
<1>1. PICK q \in SearchType : q = search[t]
    BY DEF FindInv, CoverInv, IInv, TypeOK
<1>2. search \in [Threads -> SearchType] /\ stale \in [BOOLEAN -> BOOLEAN]
    BY DEF FindInv, CoverInv, IInv, TypeOK
<1>3. /\ q.pc = "rebuild" /\ Becomes(t, [q EXCEPT !.pc = "fill", !.todo = Directions \X services])
      /\ stale' = [stale EXCEPT ![q.rt] = FALSE]
    BY <1>1 DEF Rebuild
<1>4. /\ n.rt = q.rt /\ n.pc = "fill" /\ n.disturbed = q.disturbed /\ SameQuery(n, q)
      /\ n.found = q.found /\ n.moment = q.moment /\ n.kept = q.kept /\ n.enabled = q.enabled
    BY <1>2, <1>3 DEF Becomes, SearchType, SameQuery
<1>5. Conventional(q) /\ q.pc # "idle" /\ ~q.disturbed
    BY <1>3, <1>4, SameQuestion
<1>6. MomentBetween(q) /\ KeptIsNext(q) /\ (~Beyond(q, q.moment) => q.rt = q.enabled)
    BY <1>1, <1>3, <1>5, OnItsWayNow DEF OnItsWay, Ready
<1>7. MomentBetween(n) /\ KeptIsNext(n)
    BY <1>4, <1>6, SamePlace
<1>8. ~Beyond(n, n.moment) => n.rt = n.enabled
    BY <1>4, <1>6, SameQuestion
<1>9. ~stale'[n.rt]
    BY <1>2, <1>3, <1>4 DEF SearchType
<1> QED BY <1>4, <1>7, <1>8, <1>9 DEF OnItsWay, Ready

LEMMA FillWay ==
    ASSUME FindInv, NEW t \in Threads, Fill(t), NEW n \in SearchType, n = search'[t],
           ~n.disturbed, Conventional(n)
    PROVE  Ready(n)' /\ OnItsWay(n)
<1>1. PICK q \in SearchType : q = search[t]
    BY DEF FindInv, CoverInv, IInv, TypeOK
<1>2. search \in [Threads -> SearchType]
    BY DEF FindInv, CoverInv, IInv, TypeOK
<1>3. PICK todo, pc : /\ q.pc = "fill" /\ Becomes(t, [q EXCEPT !.todo = todo, !.pc = pc])
                      /\ pc \in {"fill", "read"} /\ stale' = stale
    BY <1>1 DEF Fill
<1>4. /\ n.rt = q.rt /\ n.pc \in {"fill", "read"} /\ n.disturbed = q.disturbed /\ SameQuery(n, q)
      /\ n.found = q.found /\ n.moment = q.moment /\ n.kept = q.kept /\ n.enabled = q.enabled
    BY <1>2, <1>3 DEF Becomes, SearchType, SameQuery
<1>5. Conventional(q) /\ q.pc # "idle" /\ ~q.disturbed
    BY <1>3, <1>4, SameQuestion
<1>6. /\ MomentBetween(q) /\ KeptIsNext(q) /\ (~Beyond(q, q.moment) => q.rt = q.enabled)
      /\ ~stale[q.rt]
    BY <1>1, <1>3, <1>5, OnItsWayNow DEF OnItsWay, Ready
<1>7. MomentBetween(n) /\ KeptIsNext(n)
    BY <1>4, <1>6, SamePlace
<1>8. ~Beyond(n, n.moment) => n.rt = n.enabled
    BY <1>4, <1>6, SameQuestion
<1>9. ~stale'[n.rt]
    BY <1>3, <1>4, <1>6
<1> QED BY <1>4, <1>7, <1>8, <1>9 DEF OnItsWay, Ready

LEMMA DateWay ==
    ASSUME FindInv, NEW t \in Threads, Date(t), NEW n \in SearchType, n = search'[t],
           ~n.disturbed, Conventional(n)
    PROVE  Ready(n)' /\ OnItsWay(n)
<1>1. PICK q \in SearchType : q = search[t]
    BY DEF FindInv, CoverInv, IInv, TypeOK
<1>2. search \in [Threads -> SearchType] /\ TypeOK
    BY DEF FindInv, CoverInv, IInv, TypeOK
<1>3. /\ q.pc = "date" /\ UNCHANGED <<stale, cache>>
      /\ \/ Beyond(q, q.moment) /\ Becomes(t, [q EXCEPT !.pc = "done"])
         \/ /\ ~Beyond(q, q.moment)
            /\ \/ Becomes(t, [q EXCEPT !.pc = "store", !.days = RunDays])
               \/ cache # {} /\ Becomes(t, [q EXCEPT !.pc = "scan"])
    BY <1>1 DEF Date
<1>4. /\ n.rt = q.rt /\ n.disturbed = q.disturbed /\ SameQuery(n, q)
      /\ n.found = q.found /\ n.moment = q.moment /\ n.next = q.next /\ n.enabled = q.enabled
      /\ \/ Beyond(q, q.moment) /\ n.pc = "done"
         \/ /\ ~Beyond(q, q.moment)
            /\ \/ n.pc = "store"
               \/ cache # {} /\ n.pc = "scan"
  <2>1. ASSUME NEW pc, NEW days, Becomes(t, [q EXCEPT !.pc = pc, !.days = days])
        PROVE  /\ n.rt = q.rt /\ n.disturbed = q.disturbed /\ SameQuery(n, q) /\ n.pc = pc
               /\ n.found = q.found /\ n.moment = q.moment /\ n.next = q.next
               /\ n.enabled = q.enabled
      BY <1>2, <2>1 DEF Becomes, SearchType, SameQuery
  <2>2. ASSUME NEW pc, Becomes(t, [q EXCEPT !.pc = pc])
        PROVE  /\ n.rt = q.rt /\ n.disturbed = q.disturbed /\ SameQuery(n, q) /\ n.pc = pc
               /\ n.found = q.found /\ n.moment = q.moment /\ n.next = q.next
               /\ n.enabled = q.enabled
      BY <1>2, <2>2 DEF Becomes, SearchType, SameQuery
  <2> QED BY <1>3, <2>1, <2>2
<1>5. Conventional(q) /\ q.pc # "idle" /\ ~q.disturbed
    BY <1>3, <1>4, SameQuestion
<1>6. /\ MomentBetween(q) /\ ~stale[q.rt]
      /\ ~Beyond(q, q.moment) => NextLeadsOn(q) /\ q.rt = q.enabled
    BY <1>1, <1>3, <1>5, OnItsWayNow DEF OnItsWay, Ready
<1>7. MomentBetween(n) /\ (Beyond(n, n.moment) <=> Beyond(q, q.moment))
    BY <1>4, <1>6, SamePlace, SameQuestion
<1>8. CASE Beyond(q, q.moment) /\ n.pc = "done"
  <2>1. ASSUME NEW s, NEW d, IsToFind(n, s, d) PROVE Beyond(n, PassesAt(n, s, d))
    <3>1. Reached(n, n.moment, PassesAt(n, s, d)) /\ PassesAt(n, s, d) \in Int
        BY <1>2, <1>7, <2>1, ToFindIsAhead
    <3>2. Beyond(n, n.moment) /\ n.moment \in Int /\ n.limit \in Int
        BY <1>7, <1>8 DEF SearchType
    <3> QED BY <3>1, <3>2 DEF Beyond, Reached
  <2>2. Answers(n) = Expected(n) /\ InAnswerOrder(n)
      BY <1>2, <1>7, <2>1, AllFound
  <2> QED BY <1>8, <2>2 DEF OnItsWay, Ready
<1>9. CASE ~Beyond(q, q.moment) /\ (n.pc = "store" \/ (cache # {} /\ n.pc = "scan"))
  <2>1. NextLeadsOn(n)
      BY <1>4, <1>6, <1>9, SamePlace
  <2>2. ~Beyond(n, n.moment) /\ n.rt = n.enabled /\ ~stale'[n.rt] /\ (n.pc = "scan" => cache' # {})
      BY <1>3, <1>4, <1>6, <1>7, <1>9
  <2> QED BY <1>7, <1>9, <2>1, <2>2 DEF OnItsWay, Ready
<1> QED BY <1>4, <1>8, <1>9

LEMMA StoreWay ==
    ASSUME FindInv, NEW t \in Threads, Store(t), NEW n \in SearchType, n = search'[t],
           ~n.disturbed, Conventional(n)
    PROVE  Ready(n)' /\ OnItsWay(n)
<1>1. PICK q \in SearchType : q = search[t]
    BY DEF FindInv, CoverInv, IInv, TypeOK
<1>2. search \in [Threads -> SearchType]
    BY DEF FindInv, CoverInv, IInv, TypeOK
<1>3. /\ q.pc = "store" /\ Becomes(t, [q EXCEPT !.pc = "scan", !.days = {}])
      /\ stale' = stale /\ cache' # {}
    BY <1>1 DEF Store, Dating
<1>4. /\ n.rt = q.rt /\ n.pc = "scan" /\ n.disturbed = q.disturbed /\ SameQuery(n, q)
      /\ n.found = q.found /\ n.moment = q.moment /\ n.next = q.next /\ n.enabled = q.enabled
    BY <1>2, <1>3 DEF Becomes, SearchType, SameQuery
<1>5. Conventional(q) /\ q.pc # "idle" /\ ~q.disturbed
    BY <1>3, <1>4, SameQuestion
<1>6. /\ MomentBetween(q) /\ ~stale[q.rt] /\ ~Beyond(q, q.moment)
      /\ NextLeadsOn(q) /\ q.rt = q.enabled
    BY <1>1, <1>3, <1>5, OnItsWayNow DEF OnItsWay, Ready
<1>7. MomentBetween(n) /\ NextLeadsOn(n) /\ ~Beyond(n, n.moment)
    BY <1>4, <1>6, SamePlace, SameQuestion
<1>8. n.rt = n.enabled /\ ~stale'[n.rt]
    BY <1>3, <1>4, <1>6
<1> QED BY <1>3, <1>4, <1>7, <1>8 DEF OnItsWay, Ready

\* An index that is up to date, and is not being filled, skips no service a search is to find.
LEMMA EntriesCover ==
    ASSUME FindInv, NEW t \in Threads, NEW q \in SearchType, q = search[t], q.pc # "fill",
           ~stale[q.rt], ~IndexUnsettled(t), Conventional(q), q.rt = q.enabled, NEW h \in Hours
    PROVE  /\ ~Untrusted(q.rt)
           /\ \A s \in services \ From(q.dir, index[q.dir][q.rt][h]) : Late(q.dir, q.rt, s, h)
<1>1. q.rt \in BOOLEAN /\ q.dir \in Directions
    BY DEF SearchType
<1>2. InOrder(q.rt)
  <2>1. CASE services = {}
      BY <2>1 DEF InOrder
  <2>2. CASE services # {}
      BY <2>2 DEF Conventional
  <2> QED BY <2>1, <2>2
<1>3. ~Untrusted(q.rt)
  <2>1. CASE q.rt = TRUE
      BY <1>2, <2>1 DEF IndexUnsettled, Untrusted
  <2>2. CASE q.rt = FALSE
      BY <2>2 DEF Untrusted
  <2> QED BY <1>1, <2>1, <2>2
<1>4. ~IsFilled(q.rt)
    BY DEF IndexUnsettled, IsFilled, Indexing
<1>5. Covers(q.dir, q.rt, index[q.dir][q.rt], services)
    BY <1>1, <1>3, <1>4 DEF FindInv, CoverInv, Skips
<1> QED BY <1>3, <1>5 DEF Covers

LEMMA ReadWay ==
    ASSUME FindInv, NEW t \in Threads, Read(t), NEW n \in SearchType, n = search'[t],
           ~n.disturbed, Conventional(n)
    PROVE  Ready(n)' /\ OnItsWay(n)
<1>1. PICK q \in SearchType : q = search[t]
    BY DEF FindInv, CoverInv, IInv, TypeOK
<1>2. search \in [Threads -> SearchType] /\ TypeOK /\ LoopIndex /\ NoOvertaking
    BY DEF FindInv, CoverInv, IInv, TypeOK
<1>3. PICK h, entry : h = HourOf(TimeOf(q.moment)) /\ entry = index[q.dir][q.rt][h]
    OBVIOUS
<1>15. PICK pc, x : ReadsTo(q, entry, pc, x) /\ Becomes(t, AfterRead(q, pc, x, IndexUnsettled(t)))
    BY <1>1, <1>3, ReadGoes
<1>4. /\ q.pc = "read" /\ stale' = stale
      /\ \/ pc = "undefined" /\ ReadsFreed(q, entry)
         \/ /\ pc = "date" /\ ~ReadsFreed(q, entry)
            /\ \/ x \in Iterators /\ Further(q, entry, x)
               \/ x = entry /\ \A s \in Iterators : ~Further(q, entry, s)
  <2>1. q.pc = "read" /\ stale' = stale
      BY <1>1 DEF Read
  <2> QED BY <1>15, <2>1 DEF ReadsTo
<1> DEFINE bad == q.disturbed \/ IndexUnsettled(t)
<1>5. Becomes(t, [q EXCEPT !.pc = pc, !.next = x, !.disturbed = bad])
    BY <1>15 DEF AfterRead
<1> HIDE DEF bad
<1>6. /\ n.rt = q.rt /\ n.pc = pc /\ n.disturbed = bad
      /\ SameQuery(n, q)
      /\ n.found = q.found /\ n.moment = q.moment /\ n.next = x /\ n.enabled = q.enabled
    BY <1>2, <1>5 DEF Becomes, SearchType, SameQuery
<1>7. Conventional(q) /\ q.pc # "idle" /\ ~q.disturbed /\ ~IndexUnsettled(t)
    BY <1>4, <1>6, SameQuestion DEF bad
<1>8. /\ MomentBetween(q) /\ KeptIsNext(q) /\ ~stale[q.rt]
      /\ ~Beyond(q, q.moment) => q.rt = q.enabled
    BY <1>1, <1>4, <1>7, OnItsWayNow DEF OnItsWay, Ready
<1>9. MomentBetween(n) /\ (Beyond(n, n.moment) <=> Beyond(q, q.moment))
    BY <1>6, <1>8, SamePlace, SameQuestion
<1>10. ASSUME ~Beyond(q, q.moment) PROVE ~ReadsFreed(q, entry) /\ NextLeadsOn(n)
  <2>1. h \in Hours /\ q.dir \in Directions /\ q.rt \in BOOLEAN /\ h \in Int
    <3>1. h \in Hours
        BY <1>3, TimeHasHour DEF SearchType
    <3> QED BY <3>1, TimeAssumption DEF Hours, SearchType
  <2>2. entry \in Iterators
      BY <1>1, <1>2, <1>3, <1>4, <2>1 DEF LoopIndex
  <2>3. q.rt = q.enabled
      BY <1>8, <1>10
  <2>4. /\ ~Untrusted(q.rt)
        /\ \A s \in services \ From(q.dir, entry) : Late(q.dir, q.enabled, s, h)
      BY <1>1, <1>3, <1>4, <1>7, <1>8, <2>1, <2>3, EntriesCover
  <2>5. ASSUME AtNight(q), entry # None PROVE FALSE
    <3>1. q.dir = "previous" /\ h < Morning
        BY <1>3, <2>5 DEF AtNight
    <3>2. entry \in services /\ IndexHour(Schedule(entry, q.rt)) <= h
        BY <1>3, <2>1, <2>4, <2>5, <3>1 DEF FindInv, EntriesInv
    <3>3. Schedule(entry, q.rt) \in Int /\ HourOf(Schedule(entry, q.rt)) > Morning
        BY <1>2, <1>7, <2>3, <3>2, ConventionalTimes
    <3>4. HourOf(Schedule(entry, q.rt)) \in Int
        BY <3>3, HourBelow, TimeAssumption
    <3> QED BY <2>1, <3>1, <3>2, <3>3, <3>4, TimeAssumption DEF IndexHour
  <2>6. ~ReadsFreed(q, entry)
      BY <1>2, <1>3, <1>7, <1>8, <2>2, <2>4, ReadsNothingFreed
  <2>7. /\ x \in Iterators
        /\ \/ Further(q, entry, x)
           \/ x = entry /\ \A s \in Iterators : ~Further(q, entry, s)
      BY <1>4, <2>2, <2>6
  <2> QED BY <1>2, <1>3, <1>6, <1>7, <1>8, <2>2, <2>4, <2>5, <2>6, <2>7, StartLeadsOn
<1>11. ~Beyond(n, n.moment) => n.rt = n.enabled
    BY <1>6, <1>8, <1>9
<1>12. ~stale'[n.rt]
    BY <1>4, <1>6, <1>8
<1>13. n.pc = "date"
  <2>1. q.kept = {} \/ ~Beyond(q, q.moment)
      BY <1>8 DEF KeptIsNext, AllIsAhead
  <2>2. CASE q.kept = {}
    <3>1. entry \in Iterators
      <4>1. h \in Hours /\ q.dir \in Directions
          BY <1>3, TimeHasHour DEF SearchType
      <4> QED BY <1>1, <1>2, <1>3, <1>4, <4>1 DEF LoopIndex
    <3>2. ~ReadsFreed(q, entry)
        BY <2>2, <3>1 DEF ReadsFreed, KeptOn
    <3> QED BY <1>4, <1>6, <3>2
  <2> QED BY <1>4, <1>6, <1>10, <2>1, <2>2
<1> QED BY <1>6, <1>9, <1>10, <1>11, <1>12, <1>13 DEF OnItsWay, Ready

\* On another date the loop starts with all the services.
LEMMA FirstEntryLeads ==
    ASSUME FindInv, NEW t \in Threads, NEW q \in SearchType, q = search[t], q.pc # "fill",
           ~stale[q.rt], ~IndexUnsettled(t), Conventional(q), q.rt = q.enabled,
           NEW s \in services
    PROVE  s \in From(q.dir, FirstEntry(q))
<1> DEFINE h == IF q.dir = "next" THEN 0 ELSE DayHours - 1
           time == Schedule(s, q.rt)
<1>1. h \in Hours /\ q.dir \in Directions /\ TypeOK
    BY TimeAssumption DEF Hours, SearchType, FindInv, CoverInv, IInv
<1>2. s \notin From(q.dir, FirstEntry(q)) => Late(q.dir, q.rt, s, h)
  <2> HIDE DEF h
  <2>1. s \notin From(q.dir, index[q.dir][q.rt][h]) => Late(q.dir, q.rt, s, h)
      BY <1>1, EntriesCover
  <2>2. FirstEntry(q) = index[q.dir][q.rt][h]
      BY DEF FirstEntry, h
  <2> QED BY <2>1, <2>2
<1>3. /\ time \in Int /\ HourOf(time) > Morning /\ (q.dir = "previous" => time < Day)
    BY <1>1, ConventionalTimes
<1> HIDE DEF time
<1>4. HourOf(time) \in Int /\ (HourOf(time) < DayHours <=> time < Day)
    BY <1>3, TimeAssumption, HourBelow DEF Day
<1>5. ~Late(q.dir, q.rt, s, h)
    BY <1>1, <1>3, <1>4, TimeAssumption DEF Late, Directions, time
<1> QED BY <1>2, <1>5

\* A date on which nothing is found.
LEMMA NothingWay ==
    ASSUME FindInv, NEW t \in Threads, NEW q \in SearchType, q = search[t], q.pc = "scan",
           NEW active \in BOOLEAN, DateOf(q.moment) \in RunDays => active,
           \A s \in From(q.dir, q.next) : ~(active /\ Serves(q, s)),
           NEW bad \in BOOLEAN, ~IndexUnsettled(t), stale' = stale, ~q.disturbed,
           NEW n \in SearchType, Conventional(n),
           n = [q EXCEPT !.pc = "date", !.moment = NextMoment(q), !.next = FirstEntry(q),
                         !.disturbed = bad]
    PROVE  Ready(n)' /\ OnItsWay(n)
<1>1. /\ n.rt = q.rt /\ n.pc = "date" /\ SameQuery(n, q) /\ n.found = q.found
      /\ n.moment = NextMoment(q) /\ n.next = FirstEntry(q) /\ n.enabled = q.enabled
      /\ n.dir = q.dir
    BY DEF SearchType, SameQuery
<1>2. Conventional(q)
    BY <1>1, SameQuestion
<1>3. /\ MomentBetween(q) /\ NextLeadsOn(q) /\ q.rt = q.enabled /\ ~stale[q.rt]
      /\ ~Beyond(q, q.moment)
    BY <1>2, OnItsWayNow DEF OnItsWay, Ready
<1>4. \A s \in services : s \in From(n.dir, n.next)
    BY <1>1, <1>2, <1>3, FirstEntryLeads
<1>5. DateOf(q.moment) \in RunDays => \A s \in From(q.dir, q.next) : ~Serves(q, s)
    OBVIOUS
<1>6. MomentBetween(n) /\ NextLeadsOn(n)
    BY <1>1, <1>2, <1>3, <1>4, <1>5, MovesOn DEF FindInv, CoverInv, IInv
<1>7. n.rt = n.enabled /\ ~stale'[n.rt]
    BY <1>1, <1>3
<1> QED BY <1>1, <1>6, <1>7 DEF OnItsWay, Ready

\* A date on which something is found.
LEMMA FoundWay ==
    ASSUME FindInv, NEW t \in Threads, NEW q \in SearchType, q = search[t], q.pc = "scan",
           ~q.disturbed, NEW y \in services, NEW k \in Iterators,
           IsFirst(q.dir, {s \in From(q.dir, q.next) : Serves(q, s)}, y),
           Holds(q.dir, y, k),
           NEW n \in SearchType, Conventional(n),
           SameQuery(n, q),
           Beyond(q, Passage(q, y)) => n.pc = "done" /\ n.found = q.found,
           ~Beyond(q, Passage(q, y)) =>
                /\ n.pc = "step" /\ n.moment = Passage(q, y) /\ n.kept = {k}
                /\ n.found = Append(q.found, [service |-> y, day |-> RunDay(q, y),
                                              at |-> Passage(q, y)])
    PROVE  Ready(n)' /\ OnItsWay(n)
<1>1. TypeOK /\ NoOvertaking
    BY DEF FindInv, CoverInv, IInv
<1>2. Conventional(q)
    BY SameQuestion
<1>3. /\ MomentBetween(q) /\ NextLeadsOn(q) /\ q.rt = q.enabled /\ ~Beyond(q, q.moment)
    BY <1>2, OnItsWayNow DEF OnItsWay, Ready
<1>4. CASE ~Beyond(q, Passage(q, y))
  <2>1. /\ n.pc = "step" /\ n.moment = Passage(q, y) /\ n.kept = {k}
        /\ n.found = Append(q.found, [service |-> y, day |-> RunDay(q, y), at |-> Passage(q, y)])
      BY <1>4
  <2>2. MomentBetween(n) /\ KeptIsFound(n)
      BY <1>1, <1>2, <1>3, <1>4, <2>1, TakesIt
  <2> QED BY <2>1, <2>2 DEF OnItsWay, Ready
<1>5. CASE Beyond(q, Passage(q, y))
  <2>1. n.pc = "done" /\ n.found = q.found
      BY <1>5
  <2>2. ASSUME NEW s, NEW d, IsToFind(q, s, d) PROVE Beyond(q, PassesAt(q, s, d))
    <3> DEFINE at == Today(q, y)
    <3>1. /\ at \in Int /\ Passage(q, y) = at
          /\ ~(s = y /\ d = ServiceDay(q.moment)) => Past(q, at, PassesAt(q, s, d))
        BY <1>1, <1>2, <1>3, <2>2, FirstHit
    <3>2. PassesAt(q, s, d) \in Int /\ q.limit \in Int
        BY <1>1, <1>2, <1>3, <2>2, ToFindIsAhead DEF SearchType
    <3>3. CASE s = y /\ d = ServiceDay(q.moment)
        BY <1>5, <3>1, <3>3 DEF Today
    <3>4. CASE ~(s = y /\ d = ServiceDay(q.moment))
      <4>1. Past(q, at, PassesAt(q, s, d)) /\ Beyond(q, at)
          BY <1>5, <3>1, <3>4
      <4> HIDE DEF at
      <4> QED BY <3>1, <3>2, <4>1 DEF Past, Beyond
    <3> QED BY <3>3, <3>4
  <2>3. Answers(q) = Expected(q) /\ InAnswerOrder(q)
      BY <1>1, <1>2, <1>3, <2>2, AllFound
  <2>4. Answers(n) = Expected(n) /\ InAnswerOrder(n)
      BY <2>1, <2>3, SameQuestion, SameFound
  <2> QED BY <2>1, <2>4 DEF OnItsWay, Ready
<1> QED BY <1>4, <1>5

LEMMA ScanWay ==
    ASSUME FindInv, NEW t \in Threads, Scan(t), NEW n \in SearchType, n = search'[t],
           ~n.disturbed, Conventional(n)
    PROVE  Ready(n)' /\ OnItsWay(n)
<1>1. PICK q \in SearchType : q = search[t]
    BY DEF FindInv, CoverInv, IInv, TypeOK
<1>2. search \in [Threads -> SearchType] /\ TypeOK
    BY DEF FindInv, CoverInv, IInv, TypeOK
<1> DEFINE bad == q.disturbed \/ IndexUnsettled(t) \/ outrun
           hits(active) == {s \in From(q.dir, q.next) : active /\ Serves(q, s)}
           moved == [q EXCEPT !.pc = "date", !.moment = NextMoment(q), !.next = FirstEntry(q),
                              !.disturbed = bad]
           taken(y, k) ==
               IF Beyond(q, Passage(q, y)) THEN [q EXCEPT !.pc = "done"]
               ELSE [q EXCEPT !.pc = "step", !.moment = Passage(q, y), !.kept = {k},
                              !.found = Append(@, [service |-> y, day |-> RunDay(q, y),
                                                   at |-> Passage(q, y)])]
<1>3. /\ q.pc = "scan" /\ stale' = stale
      /\ \E active \in IF cache = {} THEN BOOLEAN ELSE {DateOf(q.moment) \in UNION cache} :
            \/ hits(active) = {} /\ Becomes(t, moved)
            \/ \E y \in services, k \in Iterators :
                /\ IsFirst(q.dir, hits(active), y) /\ Holds(q.dir, y, k)
                /\ Becomes(t, taken(y, k))
    BY <1>1, ZenonT(30) DEF Scan
<1> HIDE DEF hits, moved, taken
<1>4. PICK active \in IF cache = {} THEN BOOLEAN ELSE {DateOf(q.moment) \in UNION cache} :
            \/ hits(active) = {} /\ Becomes(t, moved)
            \/ \E y \in services, k \in Iterators :
                /\ IsFirst(q.dir, hits(active), y) /\ Holds(q.dir, y, k)
                /\ Becomes(t, taken(y, k))
    BY <1>3
<1>5. \A r : Becomes(t, r) => n = r
    BY <1>2 DEF Becomes
<1>6. CASE hits(active) = {} /\ Becomes(t, moved)
  <2>1. n = moved
      BY <1>5, <1>6
  <2>2. n.disturbed = bad /\ bad \in BOOLEAN /\ SameQuery(n, q)
    <3>1. q.disturbed \in BOOLEAN
        BY DEF SearchType
    <3>2. bad \in BOOLEAN
        BY <3>1
    <3> HIDE DEF bad
    <3>3. n.disturbed = bad /\ SameQuery(n, q)
        BY <2>1 DEF moved, SearchType, SameQuery
    <3> QED BY <3>2, <3>3
  <2>3. ~q.disturbed /\ ~IndexUnsettled(t) /\ ~outrun /\ Conventional(q)
      BY <2>2, SameQuestion
  <2>4. cache # {}
      BY <1>1, <1>3, <2>3, OnItsWayNow DEF Ready
  <2>5. active = (DateOf(q.moment) \in UNION cache)
      BY <1>4, <2>4
  <2>6. DateOf(q.moment) \in RunDays => active
      BY <2>3, <2>4, <2>5 DEF FindInv, DatesInv
  <2>7. \A s \in From(q.dir, q.next) : ~(active /\ Serves(q, s))
      BY <1>6 DEF hits
  <2>8. active \in BOOLEAN
      BY <2>5
  <2>9. n = [q EXCEPT !.pc = "date", !.moment = NextMoment(q), !.next = FirstEntry(q),
                      !.disturbed = bad]
      BY <2>1 DEF moved
  <2> HIDE DEF bad
  <2> QED BY <1>1, <1>3, <2>2, <2>3, <2>6, <2>7, <2>8, <2>9, NothingWay
<1>7. ASSUME NEW y \in services, NEW k \in Iterators, IsFirst(q.dir, hits(active), y),
             Holds(q.dir, y, k), Becomes(t, taken(y, k))
      PROVE  Ready(n)' /\ OnItsWay(n)
  <2>1. n = taken(y, k)
      BY <1>5, <1>7
  <2>2. y \in hits(active)
      BY <1>2, <1>7, TimeAssumption DEF IsFirst, TypeOK
  <2>3. hits(active) = {s \in From(q.dir, q.next) : Serves(q, s)}
      BY <2>2 DEF hits
  <2>4. IsFirst(q.dir, {s \in From(q.dir, q.next) : Serves(q, s)}, y)
      BY <1>7, <2>3
  <2>5. n.disturbed = q.disturbed /\ SameQuery(n, q)
    <3>1. CASE Beyond(q, Passage(q, y))
        BY <2>1, <3>1 DEF taken, SearchType, SameQuery
    <3>2. CASE ~Beyond(q, Passage(q, y))
        BY <2>1, <3>2 DEF taken, SearchType, SameQuery
    <3> QED BY <3>1, <3>2
  <2>6. Beyond(q, Passage(q, y)) => n.pc = "done" /\ n.found = q.found
      BY <2>1 DEF taken, SearchType
  <2>7. ASSUME ~Beyond(q, Passage(q, y))
        PROVE  /\ n.pc = "step" /\ n.moment = Passage(q, y) /\ n.kept = {k}
               /\ n.found = Append(q.found, [service |-> y, day |-> RunDay(q, y),
                                             at |-> Passage(q, y)])
      BY <2>1, <2>7 DEF taken, SearchType
  <2> QED BY <1>1, <1>3, <1>7, <2>4, <2>5, <2>6, <2>7, FoundWay
<1> QED BY <1>4, <1>6, <1>7

LEMMA StepWay ==
    ASSUME FindInv, NEW t \in Threads, Step(t), NEW n \in SearchType, n = search'[t],
           ~n.disturbed, Conventional(n)
    PROVE  Ready(n)' /\ OnItsWay(n)
<1>1. PICK q \in SearchType : q = search[t]
    BY DEF FindInv, CoverInv, IInv, TypeOK
<1>2. search \in [Threads -> SearchType] /\ TypeOK /\ NoOvertaking
    BY DEF FindInv, CoverInv, IInv, TypeOK
<1>3. /\ q.pc = "step"
      /\ \/ \E s \in services, k \in Iterators :
                /\ KeptOn(q, s) /\ HoldsNext(q.dir, s, k)
                /\ Becomes(t, [q EXCEPT !.pc = "call", !.kept = {k}])
         \/ /\ \A s \in services : ~KeptOn(q, s)
            /\ Becomes(t, [q EXCEPT !.pc = "undefined"])
    BY <1>1, ZenonT(30) DEF Step
<1>4. n.disturbed = q.disturbed /\ SameQuery(n, q) /\ n.found = q.found /\ n.moment = q.moment
  <2>1. ASSUME NEW k, Becomes(t, [q EXCEPT !.pc = "call", !.kept = {k}])
        PROVE  /\ n.disturbed = q.disturbed /\ SameQuery(n, q)
               /\ n.found = q.found /\ n.moment = q.moment
      BY <1>2, <2>1 DEF Becomes, SearchType, SameQuery
  <2>2. ASSUME Becomes(t, [q EXCEPT !.pc = "undefined"])
        PROVE  /\ n.disturbed = q.disturbed /\ SameQuery(n, q)
               /\ n.found = q.found /\ n.moment = q.moment
      BY <1>2, <2>2 DEF Becomes, SearchType, SameQuery
  <2> QED BY <1>3, <2>1, <2>2
<1>5. Conventional(q) /\ q.pc # "idle" /\ ~q.disturbed
    BY <1>3, <1>4, SameQuestion
<1>6. MomentBetween(q) /\ KeptIsFound(q)
    BY <1>1, <1>3, <1>5, OnItsWayNow DEF OnItsWay
<1>7. PICK s \in services, k \in Iterators :
            /\ KeptOn(q, s) /\ HoldsNext(q.dir, s, k)
            /\ Becomes(t, [q EXCEPT !.pc = "call", !.kept = {k}])
    BY <1>2, <1>3, <1>6, StepsOn
<1>8. n.pc = "call" /\ n.kept = {k}
    BY <1>2, <1>7 DEF Becomes, SearchType
<1>9. KeptIsNext(n)
    BY <1>2, <1>4, <1>6, <1>7, <1>8, StepsOn
<1>10. MomentBetween(n)
    BY <1>4, <1>6, SamePlace
<1> QED BY <1>8, <1>9, <1>10 DEF OnItsWay, Ready

-----------------------------------------------------------------------------
(* What a search goes by. *)

LEMMA Changes ==
    ASSUME CoverInv, Update, NEW t \in Threads
    PROVE  /\ search'[t].pc = search[t].pc /\ search'[t].days = search[t].days
           /\ search[t].pc # "idle" => search'[t].disturbed
<1>1. PICK left, torn : Disturb(left, torn)
    BY DEF Update, AddService, RemoveService, SetActive, ClearCalendar, SetInactive, SetRealTime,
           MarkIndex, ShiftRealTime, ClearRealTime, ChangeShift
<1>2. search[t] \in SearchType
    BY DEF CoverInv, IInv, TypeOK
<1> QED BY <1>1, <1>2 DEF Disturb, SearchType

LEMMA DatesChange ==
    ASSUME CoverInv, DatesInv, Update
    PROVE  DatesInv'
<1>1. \A t \in Threads : /\ Dating(t)' <=> Dating(t)
                         /\ search'[t].days = search[t].days
    BY Changes DEF Dating
<1>2. CASE AddService
  <2>1. cache' = cache /\ outrun' = (cache # {}) /\ \A t \in Threads : ~Dating(t)
      BY <1>2 DEF AddService, LocksServices, Dating
  <2> QED BY <1>1, <2>1 DEF DatesInv
<1>3. CASE RemoveService
  <2>1. /\ \A t \in Threads : ~Dating(t)
        /\ cache' = cache /\ outrun' = outrun /\ services' \subseteq services
        /\ \A x \in services' : timing'[x] = timing[x] /\ calendar'[x] = calendar[x]
      BY <1>3 DEF RemoveService, LocksServices, Dating, Without, CoverInv, IInv, TypeOK
  <2>2. \A x \in services' : Planned(x)' = Planned(x)
      BY <2>1 DEF Planned
  <2>3. RunDays' \subseteq RunDays
      BY <2>1, <2>2 DEF RunDays
  <2> QED BY <1>1, <2>1, <2>3 DEF DatesInv
<1>4. CASE SetActive
  <2>1. cache' = cache /\ outrun' = (cache # {} \/ \E t \in Threads : Dating(t))
      BY <1>4 DEF SetActive
  <2> QED BY <1>1, <2>1 DEF DatesInv
<1>5. CASE SetInactive
  <2>1. /\ UNCHANGED <<services, timing, cache, outrun>>
        /\ \A x \in services : calendar'[x] \subseteq calendar[x]
      BY <1>5 DEF SetInactive, CoverInv, IInv, TypeOK
  <2>2. \A x \in services' : Planned(x)' = Planned(x)
      BY <2>1 DEF Planned
  <2>3. RunDays' \subseteq RunDays
      BY <2>1, <2>2 DEF RunDays
  <2> QED BY <1>1, <2>1, <2>3 DEF DatesInv
<1>6. CASE SetRealTime \/ MarkIndex \/ ShiftRealTime \/ ClearRealTime
  <2>1. UNCHANGED <<services, timing, calendar, cache, outrun>>
      BY <1>6 DEF SetRealTime, MarkIndex, ShiftRealTime, ClearRealTime, ChangeShift
  <2>2. \A x : Planned(x)' = Planned(x)
      BY <2>1 DEF Planned
  <2>3. RunDays' = RunDays
      BY <2>1, <2>2 DEF RunDays
  <2> QED BY <1>1, <2>1, <2>3 DEF DatesInv
<1>7. CASE ClearCalendar
  <2>1. /\ UNCHANGED <<services, timing, calendar>> /\ cache' = {}
        /\ outrun' = (outrun /\ \E t \in Threads : Dating(t))
      BY <1>7 DEF ClearCalendar
  <2>2. \A x : Planned(x)' = Planned(x)
      BY <2>1 DEF Planned
  <2>3. RunDays' = RunDays
      BY <2>1, <2>2 DEF RunDays
  <2> QED BY <1>1, <2>1, <2>3 DEF DatesInv
<1> QED BY <1>2, <1>3, <1>4, <1>5, <1>6, <1>7 DEF Update

\* A step of a thread is one search that becomes another.
LEMMA OneMoves ==
    ASSUME NEW t \in Threads, Begin(t) \/ Continue(t)
    PROVE  \E n : Becomes(t, n)
<1>1. CASE Begin(t)
    BY <1>1 DEF Begin
<1>2. CASE Call(t) \/ Rebuild(t) \/ Fill(t)
    BY <1>2 DEF Call, Rebuild, Fill
<1>3. CASE Read(t)
    BY <1>3, ReadForms
<1>4. CASE Date(t) \/ Store(t) \/ Step(t)
    BY <1>4 DEF Date, Store, Step
<1>5. CASE Scan(t)
    BY <1>5, ScanForms
<1> QED BY <1>1, <1>2, <1>3, <1>4, <1>5 DEF Continue

\* A thread that computes the calendar of the path puts every date on which a service runs in it.
LEMMA DatesOfThread ==
    ASSUME CoverInv, DatesInv, NEW t \in Threads, Begin(t) \/ Continue(t)
    PROVE  DatesInv'
<1>1. /\ search \in [Threads -> SearchType]
    BY DEF CoverInv, IInv, TypeOK
<1>2. UNCHANGED <<services, timing, calendar, shift, outrun>>
    BY DEF Begin, Continue, Call, Rebuild, Fill, Read, Date, Store, Scan, Step, Nothing
<1>3. RunDays' = RunDays
    BY <1>2, QueryStays
<1>4. \A u \in Threads \ {t} : search'[u] = search[u]
    BY <1>1, OneMoves DEF Becomes
<1>5. \/ search'[t].pc # "store" /\ cache' = cache
      \/ search'[t].pc = "store" /\ search'[t].days = RunDays /\ cache' = cache
      \/ search'[t].pc # "store" /\ cache' = {search[t].days} /\ Dating(t)
  <2>1. CASE Begin(t)
    <3>1. PICK n : Becomes(t, n) /\ n.pc = "call" /\ cache' = cache
        BY <2>1 DEF Begin, Idle
    <3>2. search'[t] = n
        BY <1>1, <3>1 DEF Becomes
    <3> QED BY <3>1, <3>2
  <2>2. search[t] \in SearchType
      BY <1>1
  <2>3. ASSUME Call(t) \/ Rebuild(t) \/ Fill(t) \/ Read(t) \/ Scan(t) \/ Step(t)
        PROVE  search'[t].pc # "store"
    <3>1. CASE Call(t)
        BY <1>1, <2>2, <3>1 DEF Call, Becomes, SearchType
    <3>2. CASE Rebuild(t)
        BY <1>1, <2>2, <3>2 DEF Rebuild, Becomes, SearchType
    <3>3. CASE Fill(t)
        BY <1>1, <2>2, <3>3 DEF Fill, Becomes, SearchType
    <3>4. CASE Read(t)
      <4>1. PICK pc \in {"undefined", "date"} : \E s, d :
                Becomes(t, [search[t] EXCEPT !.pc = pc, !.next = s, !.disturbed = d])
          BY <3>4, ReadForms
      <4>2. PICK s, d : Becomes(t, [search[t] EXCEPT !.pc = pc, !.next = s, !.disturbed = d])
          BY <4>1
      <4> QED BY <1>1, <2>2, <4>2 DEF Becomes, SearchType
    <3>5. CASE Scan(t)
      <4>1. PICK o \in SearchType : o = search[t]
          BY <2>2
      <4>2. ASSUME NEW y, NEW k, Becomes(t, AfterHit(o, y, k))
            PROVE  search'[t].pc # "store"
        <5>1. AfterHit(o, y, k).pc # "store"
            BY DEF AfterHit, SearchType
        <5> QED BY <1>1, <4>2, <5>1 DEF Becomes
      <4>3. ASSUME Becomes(t, [o EXCEPT !.pc = "date", !.moment = NextMoment(o),
                                        !.next = FirstEntry(o),
                                        !.disturbed = @ \/ IndexUnsettled(t) \/ outrun])
            PROVE  search'[t].pc # "store"
          BY <1>1, <4>3 DEF Becomes, SearchType
      <4> QED BY <3>5, <4>1, <4>2, <4>3, ScanForms
    <3>6. CASE Step(t)
      <4>1. PICK o \in SearchType : o = search[t]
          BY <2>2
      <4>2. \/ \E k : Becomes(t, [o EXCEPT !.pc = "call", !.kept = {k}])
            \/ Becomes(t, [o EXCEPT !.pc = "undefined"])
          BY <3>6, <4>1 DEF Step
      <4>3. ASSUME NEW k, Becomes(t, [o EXCEPT !.pc = "call", !.kept = {k}])
            PROVE  search'[t].pc = "call"
          BY <1>1, <4>3 DEF Becomes, SearchType
      <4>4. ASSUME Becomes(t, [o EXCEPT !.pc = "undefined"])
            PROVE  search'[t].pc = "undefined"
          BY <1>1, <4>4 DEF Becomes, SearchType
      <4> QED BY <4>2, <4>3, <4>4
    <3> QED BY <2>3, <3>1, <3>2, <3>3, <3>4, <3>5, <3>6
  <2>4. CASE Date(t)
    <3>1. PICK q : Becomes(t, q) /\ (q.pc = "store" => q.days = RunDays) /\ cache' = cache
        BY <2>2, <2>4 DEF Date, SearchType
    <3>2. search'[t] = q
        BY <1>1, <3>1 DEF Becomes
    <3> QED BY <3>1, <3>2
  <2>5. CASE Store(t)
      BY <1>1, <2>5 DEF Store, Becomes, SearchType
  <2>6. CASE Call(t) \/ Rebuild(t) \/ Fill(t) \/ Read(t) \/ Scan(t) \/ Step(t)
    <3>1. cache' = cache
        BY <2>6 DEF Call, Rebuild, Fill, Read, Scan, Step
    <3> QED BY <2>3, <2>6, <3>1
  <2> QED BY <2>1, <2>4, <2>5, <2>6 DEF Continue
<1>6. SUFFICES ASSUME ~outrun
               PROVE  /\ \A days \in cache' : RunDays \subseteq days
                      /\ \A u \in Threads : search'[u].pc = "store" => RunDays \subseteq search'[u].days
    BY <1>2, <1>3 DEF DatesInv, Dating
<1>7. /\ \A days \in cache : RunDays \subseteq days
      /\ \A u \in Threads : search[u].pc = "store" => RunDays \subseteq search[u].days
    BY <1>6 DEF DatesInv, Dating
<1>8. \A days \in cache' : RunDays \subseteq days
    BY <1>5, <1>7 DEF Dating
<1>9. \A u \in Threads : search'[u].pc = "store" => RunDays \subseteq search'[u].days
    BY <1>4, <1>5, <1>7
<1> QED BY <1>8, <1>9

\* Backwards, a service is put at the entries of its hour and of those after it only.
LEMMA EntriesFilled ==
    ASSUME CoverInv, EntriesInv, NEW t \in Threads, Fill(t)
    PROVE  EntriesInv'
<1>1. PICK k : k = search[t].rt
    OBVIOUS
<1>2. PICK d, s : /\ s \in services
                  /\ index' = [index EXCEPT ![d][k] = Indexed(d, k, s, @)]
                  /\ d \in Directions
    BY <1>1 DEF Fill, Directions
<1>3. UNCHANGED <<services, timing, calendar, shift, stale, unmarked>>
    BY DEF Fill, Nothing
<1>4. k \in BOOLEAN /\ index \in [Directions -> [BOOLEAN -> [Hours -> Services \cup {None}]]]
    BY <1>1 DEF CoverInv, IInv, TypeOK, SearchType
<1>5. /\ \A x, rt : Schedule(x, rt)' = Schedule(x, rt)
      /\ \A rt : Untrusted(rt)' <=> Untrusted(rt)
    BY <1>3 DEF Schedule, Planned, Untrusted, InOrder
<1>6. PICK old, new : old = index[d][k] /\ new = Indexed(d, k, s, old)
    OBVIOUS
<1>7. \A dir \in Directions, rt \in BOOLEAN :
        index'[dir][rt] = IF dir = d /\ rt = k THEN new ELSE index[dir][rt]
  <2>1. index' = [index EXCEPT ![d] = [index[d] EXCEPT ![k] = new]]
      BY <1>2, <1>4, <1>6
  <2> QED BY <1>2, <1>4, <2>1
<1>8. ASSUME NEW rt \in BOOLEAN, NEW h \in Hours, NEW x, x = index'["previous"][rt][h],
             ~Untrusted(rt)
      PROVE  x = None \/ (x \in services /\ IndexHour(Schedule(x, rt)) <= h)
  <2>1. ASSUME x = index["previous"][rt][h]
        PROVE  x = None \/ (x \in services /\ IndexHour(Schedule(x, rt)) <= h)
      BY <1>8, <2>1 DEF EntriesInv
  <2>2. CASE ~(d = "previous" /\ rt = k)
      BY <1>7, <1>8, <2>1, <2>2 DEF Directions
  <2>3. CASE d = "previous" /\ rt = k
    <3>1. x = new[h]
        BY <1>7, <1>8, <2>3 DEF Directions
    <3>2. new[h] = old[h] \/ (new[h] = s /\ h >= IndexHour(Schedule(s, rt)))
        BY <1>6, <2>3 DEF Indexed
    <3>3. CASE new[h] = old[h]
        BY <1>6, <2>1, <2>3, <3>1, <3>3
    <3>4. CASE new[h] = s /\ h >= IndexHour(Schedule(s, rt))
        BY <1>2, <3>1, <3>4
    <3> QED BY <3>2, <3>3, <3>4
  <2> QED BY <2>2, <2>3
<1> QED BY <1>3, <1>5, <1>8 DEF EntriesInv, IndexHour

LEMMA EntriesRebuilt ==
    ASSUME CoverInv, EntriesInv, NEW t \in Threads, Rebuild(t)
    PROVE  EntriesInv'
<1>1. PICK k : k = search[t].rt
    OBVIOUS
<1>2. /\ index' = [dir \in Directions |-> [index[dir] EXCEPT ![k] = NoIndex]]
      /\ stale' = [stale EXCEPT ![k] = FALSE] /\ unmarked' = IF k THEN FALSE ELSE unmarked
      /\ UNCHANGED <<services, timing, calendar, shift>>
    BY <1>1 DEF Rebuild, Nothing
<1>3. /\ k \in BOOLEAN /\ index \in [Directions -> [BOOLEAN -> [Hours -> Services \cup {None}]]]
      /\ stale \in [BOOLEAN -> BOOLEAN]
    BY <1>1 DEF CoverInv, IInv, TypeOK, SearchType
<1>4. /\ \A x, rt : Schedule(x, rt)' = Schedule(x, rt)
      /\ InOrder(TRUE)' <=> InOrder(TRUE)
    BY <1>2 DEF Schedule, Planned, InOrder
<1>5. /\ index'["previous"][k] = NoIndex
      /\ \A rt \in BOOLEAN \ {k} : index'["previous"][rt] = index["previous"][rt]
  <2>1. index["previous"] \in [BOOLEAN -> [Hours -> Services \cup {None}]]
      BY <1>3 DEF Directions
  <2>2. index'["previous"] = [index["previous"] EXCEPT ![k] = NoIndex]
      BY <1>2 DEF Directions
  <2> QED BY <1>3, <2>1, <2>2
<1>6. \A rt \in BOOLEAN \ {k} : Untrusted(rt) => Untrusted(rt)'
  <2> TAKE rt \in BOOLEAN \ {k}
  <2>1. stale'[rt] = stale[rt] /\ (rt => ~k)
      BY <1>2, <1>3
  <2> QED BY <1>2, <1>4, <2>1 DEF Untrusted
<1>7. ASSUME NEW rt \in BOOLEAN, NEW h \in Hours, NEW x, x = index'["previous"][rt][h]
      PROVE  Untrusted(rt)' \/ x = None \/ (x \in services /\ IndexHour(Schedule(x, rt)) <= h)
  <2>1. CASE rt = k
      BY <1>5, <1>7, <2>1 DEF NoIndex
  <2>2. CASE rt # k
      BY <1>5, <1>6, <1>7, <2>2 DEF EntriesInv
  <2> QED BY <2>1, <2>2
<1> QED BY <1>2, <1>4, <1>7 DEF EntriesInv, IndexHour

LEMMA EntriesStep ==
    ASSUME CoverInv, EntriesInv, [Next]_vars
    PROVE  EntriesInv'
<1>1. ASSUME UNCHANGED <<services, timing, index>>,
             \A rt \in BOOLEAN : Untrusted(rt) => Untrusted(rt)',
             \A rt \in BOOLEAN : \/ Untrusted(rt)'
                                 \/ \A s \in services : Schedule(s, rt)' = Schedule(s, rt)
      PROVE  EntriesInv'
  <2>1. ASSUME NEW rt \in BOOLEAN, NEW h \in Hours, NEW x, x = index["previous"][rt][h]
        PROVE  \/ Untrusted(rt)'
               \/ x = None \/ (x \in services' /\ IndexHour(Schedule(x, rt)') <= h)
    <3>1. Untrusted(rt) \/ x = None \/ (x \in services /\ IndexHour(Schedule(x, rt)) <= h)
        BY <2>1 DEF EntriesInv
    <3> QED BY <1>1, <3>1
  <2> QED BY <1>1, <2>1 DEF EntriesInv, IndexHour
<1>2. CASE AddService \/ RemoveService
  <2>1. \A rt \in BOOLEAN : stale'[rt] = TRUE
      BY <1>2 DEF AddService, RemoveService
  <2> QED BY <2>1 DEF EntriesInv, Untrusted
<1>3. CASE SetRealTime \/ ShiftRealTime \/ ClearRealTime
  <2>1. UNCHANGED <<services, timing, index>> /\ stale'[FALSE] = stale[FALSE]
      /\ (stale'[TRUE] \/ unmarked')
      BY <1>3 DEF SetRealTime, ShiftRealTime, ClearRealTime, ChangeShift, CoverInv, IInv, TypeOK
  <2>2. \A s : Schedule(s, FALSE)' = Schedule(s, FALSE)
      BY <2>1 DEF Schedule, Planned
  <2>3. (Untrusted(FALSE)' <=> Untrusted(FALSE)) /\ Untrusted(TRUE)'
      BY <2>1 DEF Untrusted
  <2>4. \A rt \in BOOLEAN : rt = TRUE \/ rt = FALSE
      OBVIOUS
  <2>5. \A rt \in BOOLEAN : Untrusted(rt) => Untrusted(rt)'
    <3> TAKE rt \in BOOLEAN
    <3>1. CASE rt = TRUE
        BY <2>3, <3>1
    <3>2. CASE rt = FALSE
        BY <2>3, <3>2
    <3> QED BY <2>4, <3>1, <3>2
  <2>6. \A rt \in BOOLEAN : \/ Untrusted(rt)'
                            \/ \A s \in services : Schedule(s, rt)' = Schedule(s, rt)
    <3> TAKE rt \in BOOLEAN
    <3>1. CASE rt = TRUE
        BY <2>3, <3>1
    <3>2. CASE rt = FALSE
        BY <2>2, <3>2
    <3> QED BY <2>4, <3>1, <3>2
  <2> QED BY <1>1, <2>1, <2>5, <2>6
<1>4. ASSUME UNCHANGED <<services, timing, shift, index, stale, unmarked>>
      PROVE  EntriesInv'
  <2>1. \A s, rt : Schedule(s, rt)' = Schedule(s, rt)
      BY <1>4 DEF Schedule, Planned
  <2>2. \A rt : Untrusted(rt)' <=> Untrusted(rt)
      BY <1>4, <2>1 DEF Untrusted, InOrder
  <2> QED BY <1>1, <1>4, <2>1, <2>2
<1>5. CASE SetActive \/ ClearCalendar \/ SetInactive
    BY <1>4, <1>5 DEF SetActive, ClearCalendar, SetInactive
<1>8. CASE MarkIndex
  <2>1. UNCHANGED <<services, timing, shift, index, unmarked>>
        /\ \A rt \in BOOLEAN : stale[rt] => stale'[rt]
      BY <1>8 DEF MarkIndex, CoverInv, IInv, TypeOK
  <2>2. \A s, rt : Schedule(s, rt)' = Schedule(s, rt)
      BY <2>1 DEF Schedule, Planned
  <2>3. \A rt \in BOOLEAN : Untrusted(rt) => Untrusted(rt)'
      BY <2>1, <2>2 DEF Untrusted, InOrder
  <2> QED BY <1>1, <2>1, <2>2, <2>3
<1>6. CASE UNCHANGED vars
    BY <1>4, <1>6 DEF vars
<1>7. ASSUME NEW t \in Threads,
             Begin(t) \/ Call(t) \/ Read(t) \/ Date(t) \/ Store(t) \/ Scan(t) \/ Step(t)
      PROVE  EntriesInv'
    BY <1>4, <1>7 DEF Begin, Call, Read, Date, Store, Scan, Step, Nothing
<1> QED BY <1>2, <1>3, <1>5, <1>6, <1>7, <1>8, EntriesFilled, EntriesRebuilt DEF Next, Update, Continue

\* No step of a thread, or of a change, takes another search from its way.
LEMMA SearchStep ==
    ASSUME FindInv, IInv', [Next]_vars
    PROVE  SearchInv'
<1>1. SUFFICES ASSUME NEW t \in Threads, NEW n, n = search'[t], n.pc # "idle", ~n.disturbed,
                      Conventional(n)'
               PROVE  Ready(n)' /\ OnItsWay(n)'
    BY DEF SearchInv
<1>2. n \in SearchType /\ search \in [Threads -> SearchType]
    BY <1>1 DEF IInv, TypeOK, FindInv, CoverInv
<1>3. CASE Update
    BY <1>1, <1>3, Changes DEF FindInv
<1>4. ASSUME n = search[t], UNCHANGED <<services, timing, calendar, shift>>,
             \A rt \in BOOLEAN : ~stale[rt] => ~stale'[rt], cache # {} => cache' # {}
      PROVE  Ready(n)' /\ OnItsWay(n)'
  <2>1. Conventional(n)
      BY <1>1, <1>4, QueryStays
  <2>2. Ready(n) /\ OnItsWay(n)
      BY <1>1, <1>4, <2>1, OnItsWayNow
  <2>3. OnItsWay(n)'
      BY <1>4, <2>2, QueryStays
  <2>4. n.rt \in BOOLEAN
      BY <1>2 DEF SearchType
  <2>5. Ready(n)'
      BY <1>4, <2>2, <2>4 DEF Ready
  <2> QED BY <2>3, <2>5
<1>5. ASSUME NEW u \in Threads, Begin(u) \/ Continue(u)
      PROVE  Ready(n)' /\ OnItsWay(n)'
  <2>1. UNCHANGED <<services, timing, calendar, shift>>
      BY <1>5 DEF Begin, Continue, Call, Rebuild, Fill, Read, Date, Store, Scan, Step, Nothing
  <2>2. CASE u = t
    <3>1. Conventional(n)
        BY <1>1, <2>1, QueryStays
    <3>2. Ready(n)' /\ OnItsWay(n)
        BY <1>1, <1>2, <1>5, <2>2, <3>1, BeginWay, CallWay, RebuildWay, FillWay, ReadWay, DateWay,
           StoreWay, ScanWay, StepWay DEF Continue
    <3> QED BY <2>1, <3>2, QueryStays
  <2>3. CASE u # t
    <3>1. n = search[t]
        BY <1>1, <1>2, <1>5, <2>3, OneMoves DEF Becomes
    <3>2. \A rt \in BOOLEAN : ~stale[rt] => ~stale'[rt]
      <4>1. stale' = stale \/ \E rt : stale' = [stale EXCEPT ![rt] = FALSE]
          BY <1>5 DEF Begin, Continue, Call, Rebuild, Fill, Read, Date, Store, Scan, Step
      <4> QED BY <4>1 DEF FindInv, CoverInv, IInv, TypeOK
    <3>3. cache # {} => cache' # {}
      <4>1. cache' = cache \/ \E days : cache' = {days}
          BY <1>5 DEF Begin, Continue, Call, Rebuild, Fill, Read, Date, Store, Scan, Step
      <4> QED BY <4>1
    <3> QED BY <1>4, <2>1, <3>1, <3>2, <3>3
  <2> QED BY <2>2, <2>3
<1>6. CASE UNCHANGED vars
    BY <1>1, <1>4, <1>6 DEF vars
<1> QED BY <1>3, <1>5, <1>6 DEF Next

LEMMA InitFinds ==
    ASSUME Init
    PROVE  FindInv
<1>1. CoverInv
    BY InitCovers
<1>2. \A t \in Threads : search[t].pc = "idle"
    BY DEF Init, Idle
<1>3. SearchInv
    BY <1>2 DEF SearchInv
<1>4. DatesInv
    BY <1>2 DEF Init, DatesInv, Dating
<1>5. EntriesInv
    BY DEF Init, EntriesInv, Untrusted
<1> QED BY <1>1, <1>3, <1>4, <1>5 DEF FindInv

LEMMA NextFinds ==
    ASSUME FindInv, [Next]_vars
    PROVE  FindInv'
<1>1. CoverInv'
    BY NextCovers DEF FindInv
<1>2. SearchInv'
    BY <1>1, SearchStep DEF CoverInv
<1>3. DatesInv'
  <2>1. CASE UNCHANGED vars
    <3>1. UNCHANGED <<services, timing, calendar, shift, cache, search, outrun>>
        BY <2>1 DEF vars
    <3>2. RunDays' = RunDays
        BY <3>1, QueryStays
    <3> QED BY <3>1, <3>2 DEF FindInv, DatesInv, Dating
  <2> QED BY <2>1, DatesChange, DatesOfThread DEF FindInv, Next
<1>4. EntriesInv'
    BY EntriesStep DEF FindInv
<1> QED BY <1>1, <1>2, <1>3, <1>4 DEF FindInv

\* The loop of a planner over an edge finds every departure, or arrival, between its bounds
\* once and in order: with any services, hours, calendars and searches, whatever other
\* threads are searching and building meanwhile, whatever has changed before it began.
THEOREM SearchesFindAll == Spec => []SearchFindsAll
<1>1. Init => FindInv
    BY InitFinds
<1>2. FindInv /\ [Next]_vars => FindInv'
    BY NextFinds
<1>3. FindInv => SearchFindsAll
  <2> SUFFICES ASSUME FindInv, NEW t \in Threads, NEW q, q = search[t], q.pc = "done",
                      ~q.disturbed, Conventional(q)
               PROVE  /\ {q.found[i] : i \in DOMAIN q.found} = Expected(q)
                      /\ \A i, j \in DOMAIN q.found : i < j =>
                            IF q.dir = "next" THEN q.found[i].at < q.found[j].at
                            ELSE q.found[i].at > q.found[j].at
      BY DEF SearchFindsAll
  <2>1. Answers(q) = Expected(q) /\ InAnswerOrder(q) /\ q \in SearchType
      BY OnItsWayNow DEF OnItsWay, FindInv, CoverInv, IInv, TypeOK
  <2>2. ASSUME NEW i \in DOMAIN q.found, NEW j \in DOMAIN q.found, i < j
        PROVE  IF q.dir = "next" THEN q.found[i].at < q.found[j].at
               ELSE q.found[i].at > q.found[j].at
    <3>1. q.found[i].at \in Int /\ q.found[j].at \in Int
        BY <2>1, AnswerType DEF Answers
    <3> QED BY <2>1, <2>2, <3>1 DEF InAnswerOrder, Past
  <2> QED BY <2>1, <2>2 DEF Answers
<1> QED BY <1>1, <1>2, <1>3, PTL DEF Spec

-----------------------------------------------------------------------------
(* What a search reads. *)

\* A search that goes on from an answer has kept an iterator, and one that has kept none only
\* meets valid ones.
KeptInv == \A t \in Threads : search[t].pc \in {"step", "undefined"} => search[t].kept # {}

LEMMA KeptStays ==
    ASSUME IInv, KeptInv, [Next]_vars
    PROVE  KeptInv'
<1>1. search \in [Threads -> SearchType]
    BY DEF IInv, TypeOK
<1>2. CASE Update
  <2>1. PICK left, torn : Disturb(left, torn)
      BY <1>2 DEF Update, AddService, RemoveService, SetActive, ClearCalendar, SetInactive,
                  SetRealTime, MarkIndex, ShiftRealTime, ClearRealTime, ChangeShift
  <2>2. ASSUME NEW t \in Threads
        PROVE  search'[t].pc = search[t].pc /\ (search[t].kept # {} => search'[t].kept # {})
      BY <1>1, <2>1 DEF Disturb, SearchType
  <2> QED BY <2>2 DEF KeptInv
<1>3. ASSUME NEW t \in Threads, Begin(t) \/ Continue(t)
      PROVE  KeptInv'
  <2>1. PICK n : Becomes(t, n)
      BY <1>3, OneMoves
  <2>2. search'[t] = n /\ \A u \in Threads \ {t} : search'[u] = search[u]
      BY <1>1, <2>1 DEF Becomes
  <2>3. PICK q \in SearchType : q = search[t]
      BY <1>1
  <2>4. SUFFICES search'[t].pc \in {"step", "undefined"} => search'[t].kept # {}
      BY <2>2 DEF KeptInv
  <2>5. CASE Begin(t)
      BY <1>1, <2>5 DEF Begin, Becomes, Idle
  <2>6. CASE Call(t)
      BY <1>1, <2>3, <2>6 DEF Call, Becomes, SearchType
  <2>7. CASE Rebuild(t) \/ Fill(t)
    <3>1. PICK pc, todo : /\ Becomes(t, [q EXCEPT !.pc = pc, !.todo = todo])
                          /\ pc \in {"fill", "read"}
      <4>1. CASE Rebuild(t)
          BY <2>3, <4>1 DEF Rebuild, Becomes
      <4>2. CASE Fill(t)
        <5>1. PICK todo, pc : /\ Becomes(t, [q EXCEPT !.todo = todo, !.pc = pc])
                              /\ pc \in {"fill", "read"}
            BY <2>3, <4>2 DEF Fill
        <5>2. [q EXCEPT !.todo = todo, !.pc = pc] = [q EXCEPT !.pc = pc, !.todo = todo]
            BY DEF SearchType
        <5> QED BY <5>1, <5>2
      <4> QED BY <2>7, <4>1, <4>2
    <3> QED BY <1>1, <3>1 DEF Becomes, SearchType
  <2>8. CASE Date(t)
    <3>1. PICK pc, days : /\ Becomes(t, [q EXCEPT !.pc = pc, !.days = days])
                          /\ pc \in {"done", "store", "scan"}
      <4>1. \A pc : [q EXCEPT !.pc = pc] = [q EXCEPT !.pc = pc, !.days = q.days]
          BY DEF SearchType
      <4>2. \/ Becomes(t, [q EXCEPT !.pc = "done"]) \/ Becomes(t, [q EXCEPT !.pc = "scan"])
            \/ Becomes(t, [q EXCEPT !.pc = "store", !.days = RunDays])
          BY <2>3, <2>8 DEF Date
      <4> QED BY <4>1, <4>2
    <3> QED BY <1>1, <3>1 DEF Becomes, SearchType
  <2>9. CASE Store(t)
      BY <1>1, <2>3, <2>9 DEF Store, Becomes, SearchType
  <2>10. CASE Scan(t)
    <3>1. ASSUME NEW y, NEW k, Becomes(t, AfterHit(q, y, k))
          PROVE  search'[t].pc \in {"step", "undefined"} => search'[t].kept # {}
      <4>1. AfterHit(q, y, k).pc \in {"step", "undefined"} => AfterHit(q, y, k).kept # {}
          BY DEF AfterHit, SearchType
      <4> QED BY <1>1, <3>1, <4>1 DEF Becomes
    <3>2. ASSUME NEW m, NEW s, NEW d,
                 Becomes(t, [q EXCEPT !.pc = "date", !.moment = m, !.next = s, !.disturbed = d])
          PROVE  search'[t].pc = "date"
        BY <1>1, <3>2 DEF Becomes, SearchType
    <3> QED BY <2>3, <2>10, <3>1, <3>2, ScanForms
  <2>11. CASE Step(t)
    <3>1. q.kept # {} /\ q.pc = "step"
        BY <2>3, <2>11 DEF KeptInv, Step
    <3>2. \/ \E k : Becomes(t, [q EXCEPT !.pc = "call", !.kept = {k}])
          \/ Becomes(t, [q EXCEPT !.pc = "undefined"])
        BY <2>3, <2>11 DEF Step
    <3>3. ASSUME NEW k, Becomes(t, [q EXCEPT !.pc = "call", !.kept = {k}])
          PROVE  search'[t].pc = "call"
        BY <1>1, <3>3 DEF Becomes, SearchType
    <3>4. ASSUME Becomes(t, [q EXCEPT !.pc = "undefined"])
          PROVE  search'[t].kept # {}
        BY <1>1, <3>1, <3>4 DEF Becomes, SearchType
    <3> QED BY <3>2, <3>3, <3>4
  <2>12. CASE Read(t)
    <3>1. PICK h, entry : h = HourOf(TimeOf(q.moment)) /\ entry = index[q.dir][q.rt][h]
        OBVIOUS
    <3>2. PICK pc, s : ReadsTo(q, entry, pc, s) /\ Becomes(t, AfterRead(q, pc, s, IndexUnsettled(t)))
        BY <2>3, <2>12, <3>1, ReadGoes
    <3>3. q.pc = "read"
        BY <2>3, <2>12 DEF Read
    <3>4. entry \in Iterators
      <4>1. h \in Hours /\ q.dir \in Directions
          BY <3>1, TimeHasHour DEF SearchType
      <4> QED BY <2>3, <3>1, <3>3, <4>1 DEF LoopIndex, IInv
    <3>5. pc = "undefined" => q.kept # {}
        BY <3>2, <3>4 DEF ReadsTo, ReadsFreed, KeptOn
    <3>6. search'[t].pc = pc /\ search'[t].kept = q.kept
      <4>1. AfterRead(q, pc, s, IndexUnsettled(t)).pc = pc
            /\ AfterRead(q, pc, s, IndexUnsettled(t)).kept = q.kept
          BY DEF AfterRead, SearchType
      <4> QED BY <1>1, <3>2, <4>1 DEF Becomes
    <3>7. pc \in {"date", "undefined"}
        BY <3>2 DEF ReadsTo
    <3> QED BY <3>5, <3>6, <3>7
  <2> QED BY <1>3, <2>5, <2>6, <2>7, <2>8, <2>9, <2>10, <2>11, <2>12 DEF Continue
<1>4. CASE UNCHANGED vars
    BY <1>4 DEF KeptInv, vars
<1> QED BY <1>2, <1>3, <1>4 DEF Next

\* No search uses what a removal has freed, but for one that goes on from the iterator of its
\* last answer while the services change, or with schedules that are not conventional.
THEOREM SearchesReadNothingFreed == Spec => []SearchesStayDefined
<1>1. Init => FindInv /\ KeptInv
  <2>1. Init => \A t \in Threads : search[t].pc = "idle"
      BY DEF Init, Idle
  <2> QED BY <2>1, InitFinds DEF KeptInv
<1>2. FindInv /\ KeptInv /\ [Next]_vars => FindInv' /\ KeptInv'
    BY NextFinds, KeptStays DEF FindInv, CoverInv
<1>3. FindInv /\ KeptInv => SearchesStayDefined
  <2> SUFFICES ASSUME FindInv, KeptInv, NEW t \in Threads, search[t].pc = "undefined"
               PROVE  search[t].kept # {} /\ (search[t].disturbed \/ ~Conventional(search[t]))
      BY DEF SearchesStayDefined
  <2>1. search[t].kept # {}
      BY DEF KeptInv
  <2>2. ASSUME ~search[t].disturbed, Conventional(search[t]) PROVE FALSE
    <3>1. OnItsWay(search[t])
        BY <2>2, OnItsWayNow
    <3> QED BY <3>1 DEF OnItsWay
  <2> QED BY <2>1, <2>2
<1> QED BY <1>1, <1>2, <1>3, PTL DEF Spec

=============================================================================
