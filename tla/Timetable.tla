----------------------------- MODULE Timetable ------------------------------
(***************************************************************************)
(* The services of a path as the journey planners find them at one of its  *)
(* edges (18_graph/Edge, Path; 35_pt/JourneyPattern, ScheduledService):    *)
(* sorted by their departure from the first stop, reached through an index *)
(* by hour which is built when it is needed, on the dates of a calendar    *)
(* which is computed when it is needed.  Planner threads search while      *)
(* services come and go and real time delays are set and cleared.          *)
(***************************************************************************)
EXTENDS Integers, Sequences, FiniteSets

CONSTANTS Services, Threads,
          None,         \* no service: the end of the list, an iterator that is not set
          Dangling,     \* what an iterator holds when its service has left the path
          HourLength,   \* units of time in an hour
          DayHours,     \* hours of a day: INDICES_NUMBER, 24 in the code
          Morning,      \* hour at which a service day ends: 3 in the code
          Now,          \* the local time, which a search does not see change
          Dates,        \* days of the calendars
          Timings,      \* [first |-> departure from the first stop, leg |-> time to the edge,
                        \*  rest |-> time from the edge to the last stop]
          Calendars,    \* sets of dates a service may start with
          Delays,       \* real time shifts
          Searches,     \* [dir, from, limit, enabled]: forwards or backwards from a moment to
                        \*  another, with or without real time data
          MaxSearches,  \* bound: searches begun
          MaxUpdates    \* bound: changes of services, calendars and delays

ASSUME TimeAssumption ==
    /\ HourLength \in Nat \ {0} /\ DayHours \in Nat \ {0} /\ Morning \in 0 .. DayHours - 1
    /\ Now \in Int /\ Dates \subseteq Int /\ Delays \subseteq Int
    /\ Timings \subseteq [first : Nat, leg : Nat, rest : Nat]
    /\ Calendars \subseteq SUBSET Dates
    /\ Searches \subseteq [dir : {"next", "previous"}, from : Int, limit : Int,
                            enabled : BOOLEAN]
    /\ MaxSearches \in Nat /\ MaxUpdates \in Nat
    /\ None \notin Services /\ Dangling \notin Services \cup {None}

\* No service is ever so early that it passes on the day before.
ASSUME DelayAssumption == \A x \in Timings, d \in Delays : x.first + d >= 0

VARIABLES
    services,   \* _services of the path
    timing,     \* data schedules of each service
    calendar,   \* marked dates of each service
    shift,      \* its real time schedules, None without
    index,      \* _departureIndex and _arrivalIndex of the edge, planned and real time
    stale,      \* _serviceIndexUpdateNeeded, _RTserviceIndexUpdateNeeded
    cache,      \* _calendar of the journey pattern, no set if it must be computed
    search,     \* of each planner thread
    clearing,   \* changes that have still to clear the calendar of the path
    marking,    \* changes that have still to mark the real time index
    searches, updates,  \* counters of the bounds
    unmarked,   \* history variable: real time schedules changed and the index has not been built
                \* since
    outrun      \* history variable: the calendar in the cache, or about to be put there, was
                \* computed before the last change of the services

vars == <<services, timing, calendar, shift, index, stale, cache, search, clearing, marking,
          searches, updates, unmarked, outrun>>

Day == DayHours * HourLength
Hours == 0 .. DayHours - 1
DateOf(m) == m \div Day
TimeOf(m) == m % Day
HourOf(time) == time \div HourLength
At(date, hour) == date * Day + hour * HourLength

Directions == {"next", "previous"}

\* Schedules at the edge.
Planned(s) == timing[s].first + timing[s].leg
Schedule(s, rt) == Planned(s) + IF rt /\ shift[s] # None THEN shift[s] ELSE 0

-----------------------------------------------------------------------------
(* The list of the services. *)

\* cmpService, forwards or backwards.
Ahead(dir, a, b) == IF dir = "next" THEN timing[a].first < timing[b].first
                    ELSE timing[b].first < timing[a].first

\* The iterator on the first one of S, or on the end of the list.
IsFirst(dir, S, s) ==
    IF S = {} THEN s = None ELSE s \in S /\ \A x \in S \ {s} : Ahead(dir, s, x)

Iterators == services \cup {None}

\* ++: what is behind s.
Behind(dir, s) == {x \in services : s # None /\ Ahead(dir, s, x)}

\* The iterator on s holds k.  A reverse iterator holds the service behind the one it is on.
Holds(dir, s, k) == IF dir = "next" THEN k = s ELSE IsFirst("next", Behind("next", s), k)

\* And the iterator behind it.
HoldsNext(dir, s, k) == IF dir = "next" THEN IsFirst("next", Behind("next", s), k) ELSE k = s

\* An iterator that holds k is on s, in the list as it is now.
IsOn(dir, k, s) ==
    IF dir = "next" THEN s = k
    ELSE IsFirst("previous", {x \in services : k = None \/ Ahead("next", x, k)}, s)

\* What a loop from an iterator to the end of the list visits.
From(dir, s) == {x \in services : s # None /\ (x = s \/ Ahead(dir, s, x))}

\* JourneyPattern::respectsLineTheory: the service would neither leave with, overtake nor be
\* overtaken by the one before and the one after.
SameOrder(a, b) ==
    /\ a.first # b.first /\ a.first + a.leg # b.first + b.leg
    /\ a.first + a.leg + a.rest # b.first + b.leg + b.rest
    /\ a.first < b.first <=> a.first + a.leg < b.first + b.leg
    /\ a.first < b.first <=> a.first + a.leg + a.rest < b.first + b.leg + b.rest

Neighbours(new) ==
    {s \in services : timing[s].first <= new.first /\
        \A x \in services : timing[x].first <= new.first => timing[x].first <= timing[s].first}
    \cup
    {s \in services : timing[s].first >= new.first /\
        \A x \in services : timing[x].first >= new.first => timing[x].first >= timing[s].first}

RespectsLineTheory(new) == \A s \in Neighbours(new) : SameOrder(timing[s], new)

-----------------------------------------------------------------------------
(* Edge::_updateServiceIndex *)

NoIndex == [h \in Hours |-> None]

\* Hour of the index for a schedule: min(hours, 23).
IndexHour(time) == IF HourOf(time) < DayHours THEN HourOf(time) ELSE DayHours - 1

\* Mutant: the hours of the service and before it, whatever is there.
Indexed_Last(dir, rt, s, ix) ==
    [h \in Hours |-> IF IF dir = "next" THEN h <= IndexHour(Schedule(s, rt))
                        ELSE h >= IndexHour(Schedule(s, rt))
                     THEN s ELSE ix[h]]

\* Service s is put at the hours from which it can be had, if there is nothing there, or
\* something that passes at the edge on the other side of it.
Indexed(dir, rt, s, ix) ==
    LET time == Schedule(s, rt)
    IN  [h \in Hours |->
            IF /\ IF dir = "next" THEN h <= IndexHour(time) ELSE h >= IndexHour(time)
               /\ \/ ix[h] = None
                  \/ IF dir = "next" THEN Schedule(ix[h], rt) > time ELSE Schedule(ix[h], rt) < time
            THEN s ELSE ix[h]]

-----------------------------------------------------------------------------
(* Searches: the loop of IntegralSearcher over the services of one edge.   *)

Idle ==
    [pc |-> "idle", dir |-> "next", from |-> 0, limit |-> 0, enabled |-> FALSE, rt |-> FALSE,
     moment |-> 0, next |-> None, kept |-> {}, todo |-> {}, days |-> {}, found |-> <<>>,
     disturbed |-> FALSE]

\* Mutant: the services are locked while the index is built only.
LocksServices_Index(t) == search[t].pc \in {"rebuild", "fill", "read"}

\* A thread inside of getNextService or getPreviousService has the services locked.
LocksServices(t) == search[t].pc \notin {"idle", "call", "step", "done", "undefined"}

\* _indexMutex
Indexing(t) == search[t].pc = "fill"

\* _calendarCacheMutex
Dating(t) == search[t].pc = "store"

Becomes(t, new) == search' = [search EXCEPT ![t] = new]

Nothing == UNCHANGED <<services, timing, calendar, shift, clearing, marking, searches, updates>>

Begin(t) ==
    \E q \in Searches :
        /\ search[t].pc \in {"idle", "done"}
        /\ searches < MaxSearches /\ searches' = searches + 1
        /\ Becomes(t, [Idle EXCEPT !.pc = "call", !.dir = q.dir, !.enabled = q.enabled,
                        !.from = q.from, !.limit = q.limit, !.moment = q.from])
        /\ UNCHANGED <<services, timing, calendar, shift, index, stale, cache, clearing, marking,
                       updates, unmarked, outrun>>

\* Real time data are for the next hours: now + hours(23).
RealTimeReaches(m) == m < Now + (DayHours - 1) * HourLength

Call(t) ==
    LET q == search[t]
        rt == q.enabled /\ RealTimeReaches(q.moment)
    IN
    /\ q.pc = "call"
    /\ Becomes(t, [q EXCEPT !.rt = rt,
                            !.pc = CASE services = {} -> "done"
                                     [] services # {} /\ stale[rt] -> "rebuild"
                                     [] OTHER -> "read"])
    /\ Nothing /\ UNCHANGED <<index, stale, cache, unmarked, outrun>>

\* The index is emptied, then said to be up to date, then filled.
Rebuild(t) ==
    LET q == search[t] IN
    /\ q.pc = "rebuild" /\ \A u \in Threads : ~Indexing(u)
    /\ index' = [dir \in Directions |-> [index[dir] EXCEPT ![q.rt] = NoIndex]]
    /\ stale' = [stale EXCEPT ![q.rt] = FALSE]
    /\ unmarked' = IF q.rt THEN FALSE ELSE unmarked
    /\ Becomes(t, [q EXCEPT !.pc = "fill", !.todo = Directions \X services])
    /\ Nothing /\ UNCHANGED <<cache, outrun>>

\* One service in one of the two loops, the departures first.
Fill(t) ==
    LET q == search[t]
        dir == IF \E e \in q.todo : e[1] = "next" THEN "next" ELSE "previous"
    IN
    /\ q.pc = "fill"
    /\ \E s \in services :
        /\ IsFirst(dir, {x \in services : <<dir, x>> \in q.todo}, s)
        /\ index' = [index EXCEPT ![dir][q.rt] = Indexed(dir, q.rt, s, @)]
        /\ Becomes(t, [q EXCEPT !.todo = @ \ {<<dir, s>>},
                                !.pc = IF q.todo = {<<dir, s>>} THEN "read" ELSE "fill"])
    /\ Nothing /\ UNCHANGED <<stale, cache, unmarked, outrun>>

\* `disturbed` is a history variable: what the search reads is being changed, or is not as
\* it should be.  Here, the entries of the index are read without its lock.
IndexUnsettled(t) ==
    \/ \E u \in Threads \ {t} : Indexing(u) /\ search[u].rt = search[t].rt
    \/ search[t].rt /\ unmarked

\* The iterator kept from the last answer is on s.
KeptOn(q, s) == \E k \in q.kept \ {Dangling} : IsOn(q.dir, k, s)

\* The iterators are compared by the services they are on, without a test that they are on one.
ReadsFreed(q, entry) ==
    \/ entry \notin Iterators
    \/ q.kept = {Dangling}
    \/ entry = None /\ \E s \in services : KeptOn(q, s)

Further(q, entry, s) == KeptOn(q, s) /\ (s # None => Ahead(q.dir, entry, s))

\* The loop over the services starts at the entry of the hour, or at the iterator kept if it is
\* further.  Whoever reads what has been freed, or the end of the list, may get anything:
\* nothing is said of such a search from there on.
Read(t) ==
    LET q == search[t]
        entry == index[q.dir][q.rt][HourOf(TimeOf(q.moment))]
        goes(pc, s) == Becomes(t, [q EXCEPT !.pc = pc, !.next = s,
                                            !.disturbed = @ \/ IndexUnsettled(t)])
    IN
    /\ q.pc = "read"
    /\ \/ ReadsFreed(q, entry) /\ goes("undefined", None)
       \/ /\ ~ReadsFreed(q, entry)
          /\ \E s \in Iterators : Further(q, entry, s) /\ goes("date", s)
       \/ /\ ~ReadsFreed(q, entry)
          /\ \A s \in Iterators : ~Further(q, entry, s)
          /\ goes("date", entry)
    /\ Nothing /\ UNCHANGED <<index, stale, cache, unmarked, outrun>>

-----------------------------------------------------------------------------
(* Dates. *)

\* Mutant: a service runs on the dates of its calendar only.
RunDays_Starts == UNION {calendar[s] : s \in services}

\* JourneyPattern::getCalendarCache: the dates of each service, and as many days after them
\* as it runs past midnight.
RunDays ==
    UNION {{d + i : d \in calendar[s],
                    i \in 0 .. DateOf(Planned(s) + timing[s].rest) - DateOf(timing[s].first)} :
           s \in services}

Beyond(q, m) == IF q.dir = "next" THEN m > q.limit ELSE m < q.limit

\* The loop on the dates goes on, with the calendar of the path.
Date(t) ==
    LET q == search[t] IN
    /\ q.pc = "date"
    /\ \/ /\ Beyond(q, q.moment)
          /\ Becomes(t, [q EXCEPT !.pc = "done"])
       \/ /\ ~Beyond(q, q.moment)
          /\ \A u \in Threads : ~Dating(u)
          /\ Becomes(t, IF cache = {} THEN [q EXCEPT !.pc = "store", !.days = RunDays]
                        ELSE [q EXCEPT !.pc = "scan"])
    /\ Nothing /\ UNCHANGED <<index, stale, cache, unmarked, outrun>>

Store(t) ==
    /\ Dating(t)
    /\ cache' = {search[t].days}
    /\ Becomes(t, [search[t] EXCEPT !.pc = "scan", !.days = {}])
    /\ Nothing /\ UNCHANGED <<index, stale, unmarked, outrun>>

\* ScheduledService::getFromPresenceTime: real time schedules are those of the current day,
\* which ends in the morning.
ForcedPlanned(m) ==
    \/ DateOf(m) > DateOf(Now) /\ HourOf(TimeOf(m)) > Morning
    \/ DateOf(m) > DateOf(Now) + 1

ScheduleAt(q, s) == Schedule(s, q.rt /\ ~ForcedPlanned(q.moment))

\* Before the morning, a schedule later in the day is that of the day before.
Overnight(q, s) == HourOf(TimeOf(q.moment)) < Morning /\ HourOf(ScheduleAt(q, s)) > Morning

RunDay(q, s) == DateOf(q.moment) - IF Overnight(q, s) THEN 1 ELSE 0

Serves(q, s) ==
    LET presence == TimeOf(q.moment) + IF Overnight(q, s) THEN Day ELSE 0 IN
    /\ IF q.dir = "next" THEN presence <= ScheduleAt(q, s) ELSE presence >= ScheduleAt(q, s)
    /\ RunDay(q, s) \in calendar[s]

Passage(q, s) == RunDay(q, s) * Day + ScheduleAt(q, s)

\* Mutant: the morning itself is still the night.
NextMoment_Again(q) ==
    IF q.dir = "previous" THEN DateOf(q.moment) * Day - 1
    ELSE At(DateOf(q.moment) + IF HourOf(TimeOf(q.moment)) <= Morning THEN 0 ELSE 1, Morning)

\* A night has no other entry than the last hours of the day: the loop forwards stops at the
\* end of the night, the loop backwards goes to the last second of the day before.
NextMoment(q) ==
    IF q.dir = "previous" THEN DateOf(q.moment) * Day - 1
    ELSE At(DateOf(q.moment) + IF HourOf(TimeOf(q.moment)) < Morning THEN 0 ELSE 1, Morning)

FirstEntry(q) == index[q.dir][q.rt][IF q.dir = "next" THEN 0 ELSE DayHours - 1]

\* The loop on the services of one date.  The answer leaves the iterator on the service found.
\* (The schedules are read one service after the other; a change meanwhile disturbs the search
\* anyway, and so does the calendar if it is cleared.)
Scan(t) ==
    LET q == search[t]
        hits(active) == {s \in From(q.dir, q.next) : active /\ Serves(q, s)}
    IN
    /\ q.pc = "scan"
    /\ \E active \in IF cache = {} THEN BOOLEAN ELSE {DateOf(q.moment) \in UNION cache} :
        \/ /\ hits(active) = {}
           /\ Becomes(t, [q EXCEPT !.pc = "date", !.moment = NextMoment(q),
                                   !.next = FirstEntry(q),
                                   !.disturbed = @ \/ IndexUnsettled(t) \/ outrun])
        \/ \E s \in services, k \in Iterators :
            /\ IsFirst(q.dir, hits(active), s) /\ Holds(q.dir, s, k)
            /\ Becomes(t,
                IF Beyond(q, Passage(q, s)) THEN [q EXCEPT !.pc = "done"]
                ELSE [q EXCEPT !.pc = "step", !.moment = Passage(q, s), !.kept = {k},
                               !.found = Append(@, [service |-> s, day |-> RunDay(q, s),
                                                    at |-> Passage(q, s)])])
    /\ Nothing /\ UNCHANGED <<index, stale, cache, unmarked, outrun>>

\* The planner takes the answer, moves its iterator to the next service, without the lock of the
\* services, and searches again from that moment on.
Step(t) ==
    LET q == search[t] IN
    /\ q.pc = "step"
    /\ \/ \E s \in services, k \in Iterators :
            /\ KeptOn(q, s) /\ HoldsNext(q.dir, s, k)
            /\ Becomes(t, [q EXCEPT !.pc = "call", !.kept = {k}])
       \/ /\ \A s \in services : ~KeptOn(q, s)
          /\ Becomes(t, [q EXCEPT !.pc = "undefined"])
    /\ Nothing /\ UNCHANGED <<index, stale, cache, unmarked, outrun>>

-----------------------------------------------------------------------------
(* Changes of the services. *)

Change == updates < MaxUpdates /\ updates' = updates + 1 /\ UNCHANGED searches

\* f with a value for s.
With(f, s, x) == [r \in DOMAIN f \cup {s} |-> IF r = s THEN x ELSE f[r]]

Without(f, s) == [r \in DOMAIN f \ {s} |-> f[r]]

\* Each step of a change disturbs every search under way, or whose answer stands.  An iterator
\* that holds the service that leaves is not valid any more, nor the one of a thread that moves
\* it while the list is being changed.
Disturb(left, torn) ==
    search' = [t \in Threads |->
        [search[t] EXCEPT !.disturbed = search[t].pc # "idle",
                          !.kept = IF @ = {left} \/ t \in torn THEN {Dangling} ELSE @]]

Stepping == {t \in Threads : search[t].pc = "step"}

\* ScheduledService::link after the load of its row: addService, then updatePathCalendar when
\* the lock is released.  A service that does not respect the line theory goes to a copy of
\* the path.
AddService ==
    \E s \in Services \ services, new \in Timings, days \in Calendars :
        /\ Change
        /\ \A t \in Threads : ~LocksServices(t)
        /\ RespectsLineTheory(new)
        /\ services' = services \cup {s}
        /\ timing' = With(timing, s, new)
        /\ calendar' = With(calendar, s, days)
        /\ shift' = With(shift, s, None)
        /\ stale' = [rt \in BOOLEAN |-> TRUE]
        /\ clearing' = clearing + 1
        /\ outrun' = (cache # {})
        /\ \E torn \in SUBSET Stepping : Disturb(Dangling, torn)
        /\ UNCHANGED <<index, cache, marking, unmarked>>

\* Mutant: only the index of the planned schedules is marked.
RemoveService_Planned ==
    \E s \in services :
        /\ Change
        /\ \A t \in Threads : ~LocksServices(t)
        /\ services' = services \ {s}
        /\ timing' = Without(timing, s)
        /\ calendar' = Without(calendar, s)
        /\ shift' = Without(shift, s)
        /\ stale' = [stale EXCEPT ![FALSE] = TRUE]
        /\ \E torn \in SUBSET Stepping : Disturb(s, torn)
        /\ UNCHANGED <<index, cache, clearing, marking, unmarked, outrun>>

RemoveService ==
    \E s \in services :
        /\ Change
        /\ \A t \in Threads : ~LocksServices(t)
        /\ services' = services \ {s}
        /\ timing' = Without(timing, s)
        /\ calendar' = Without(calendar, s)
        /\ shift' = Without(shift, s)
        /\ stale' = [rt \in BOOLEAN |-> TRUE]
        /\ \E torn \in SUBSET Stepping : Disturb(s, torn)
        /\ UNCHANGED <<index, cache, clearing, marking, unmarked, outrun>>

\* NonPermanentService::setActive marks the date, then clears the calendar of the path.
SetActive ==
    \E s \in services : \E d \in Dates \ calendar[s] :
        /\ Change
        /\ calendar' = [calendar EXCEPT ![s] = @ \cup {d}]
        /\ clearing' = clearing + 1
        /\ outrun' = (cache # {} \/ \E t \in Threads : Dating(t))
        /\ Disturb(Dangling, {})
        /\ UNCHANGED <<services, timing, shift, index, stale, cache, marking, unmarked>>

\* clearCalendarCache takes no lock: a thread that computes the calendar stores it all the same.
ClearCalendar ==
    /\ clearing > 0 /\ clearing' = clearing - 1
    /\ cache' = {}
    /\ outrun' = (outrun /\ \E t \in Threads : Dating(t))
    /\ Disturb(Dangling, {})
    /\ UNCHANGED <<services, timing, calendar, shift, index, stale, marking, searches, updates,
                   unmarked>>

\* setInactive leaves it as it is.
SetInactive ==
    \E s \in services : \E d \in calendar[s] :
        /\ Change
        /\ calendar' = [calendar EXCEPT ![s] = @ \ {d}]
        /\ Disturb(Dangling, {})
        /\ UNCHANGED <<services, timing, shift, index, stale, cache, clearing, marking, unmarked,
                       outrun>>

ChangeShift(s, delay) ==
    /\ Change
    /\ shift' = [shift EXCEPT ![s] = delay]
    /\ unmarked' = TRUE
    /\ Disturb(Dangling, {})
    /\ UNCHANGED <<services, timing, calendar, index, stale, cache, clearing, outrun>>

\* setRealTimeSchedules marks the index when it has written the schedules,
\* applyRealTimeShiftDuration and clearRTData do not.
SetRealTime ==
    \E s \in services, delay \in Delays : ChangeShift(s, delay) /\ marking' = marking + 1

MarkIndex ==
    /\ marking > 0 /\ marking' = marking - 1
    /\ stale' = [stale EXCEPT ![TRUE] = TRUE]
    /\ Disturb(Dangling, {})
    /\ UNCHANGED <<services, timing, calendar, shift, index, cache, clearing, searches, updates,
                   unmarked, outrun>>

ShiftRealTime ==
    \E s \in services, delay \in Delays : ChangeShift(s, delay) /\ UNCHANGED marking

ClearRealTime ==
    \E s \in services :
        shift[s] # None /\ ChangeShift(s, None) /\ UNCHANGED marking

-----------------------------------------------------------------------------

\* The services have been loaded, each one while those before were in the list, and may have
\* got a common delay since, before any search.
Init ==
    /\ services \in SUBSET Services
    /\ timing \in [services -> Timings]
    /\ calendar \in [services -> Calendars]
    /\ \A a, b \in services : a # b => SameOrder(timing[a], timing[b])
    /\ \E delay \in Delays \cup {None} : shift = [s \in services |-> delay]
    /\ index = [dir \in Directions |-> [rt \in BOOLEAN |-> NoIndex]]
    /\ stale = [rt \in BOOLEAN |-> TRUE]
    /\ cache = {}
    /\ search = [t \in Threads |-> Idle]
    /\ clearing = 0 /\ marking = 0
    /\ searches = 0 /\ updates = 0
    /\ unmarked = FALSE
    /\ outrun = FALSE

Continue(t) ==
    Call(t) \/ Rebuild(t) \/ Fill(t) \/ Read(t) \/ Date(t) \/ Store(t) \/ Scan(t)
    \/ Step(t)

Update ==
    \/ AddService \/ RemoveService \/ SetActive \/ ClearCalendar \/ SetInactive
    \/ SetRealTime \/ MarkIndex \/ ShiftRealTime \/ ClearRealTime

Next == Update \/ \E t \in Threads : Begin(t) \/ Continue(t)

Spec == Init /\ [][Next]_vars

-----------------------------------------------------------------------------
(* Properties. *)

SearchType ==
    [pc : {"idle", "call", "rebuild", "fill", "read", "date", "store", "scan", "step", "done",
           "undefined"},
     dir : Directions, from : Int, limit : Int, enabled : BOOLEAN, rt : BOOLEAN,
     moment : Int, next : Services \cup {None}, kept : SUBSET (Services \cup {None, Dangling}),
     todo : SUBSET (Directions \X Services), days : SUBSET Int,
     found : Seq([service : Services, day : Int, at : Int]), disturbed : BOOLEAN]

\* Type of every variable, and of the iterators of a thread: in its loops, where it holds the
\* lock, it is on a service of the path or on the end of the list.
TypeOK ==
    /\ services \subseteq Services
    /\ timing \in [services -> Timings]
    /\ calendar \in [services -> SUBSET Dates]
    /\ shift \in [services -> Delays \cup {None}]
    /\ index \in [Directions -> [BOOLEAN -> [Hours -> Services \cup {None}]]]
    /\ stale \in [BOOLEAN -> BOOLEAN]
    /\ cache \subseteq SUBSET Int
    /\ search \in [Threads -> SearchType]
    /\ clearing \in Nat /\ marking \in Nat
    /\ searches \in 0 .. MaxSearches /\ updates \in 0 .. MaxUpdates
    /\ unmarked \in BOOLEAN /\ outrun \in BOOLEAN
    /\ \A t \in Threads :
        /\ search[t].pc \in {"date", "store", "scan"} => search[t].next \in Iterators
        /\ search[t].kept = {} \/ \E k \in Iterators \cup {Dangling} : search[t].kept = {k}

\* An index that is said to be up to date only holds iterators to services of the path,
\* although a removal marks the indexes and leaves them as they are.
IndexHoldsServices ==
    \A dir \in Directions, rt \in BOOLEAN, h \in Hours :
        stale[rt] \/ index[dir][rt][h] \in Iterators

\* The order of the list is that of the passages at the edge.
InOrder(rt) ==
    \A a, b \in services :
        timing[a].first < timing[b].first => Schedule(a, rt) < Schedule(b, rt)

\* JourneyPattern keeps services that would overtake each other in different copies of the
\* path, although it only compares a new one with its neighbours.
NoOvertaking ==
    \A a, b \in services : a # b => SameOrder(timing[a], timing[b])

\* The entry of an hour is before every service that passes in that hour or after (forwards;
\* before, backwards), whenever the flag says that the index is up to date and no thread is
\* filling it; with real time schedules, as long as they keep the order and have not changed
\* since the index was built.
IndexSkipsNothing ==
    \A dir \in Directions, rt \in BOOLEAN :
        \/ stale[rt] \/ \E t \in Threads : Indexing(t) /\ search[t].rt = rt
        \/ rt /\ (unmarked \/ ~InOrder(TRUE))
        \/ \A h \in Hours : \A s \in services \ From(dir, index[dir][rt][h]) :
              IF dir = "next" THEN HourOf(Schedule(s, rt)) < h ELSE HourOf(Schedule(s, rt)) > h

\* The departures (or arrivals) a search should find: with real time schedules if they are
\* enabled, for the current day.
Expected(q) ==
    LET at(s, d) == d * Day + Schedule(s, q.enabled /\ d = DateOf(Now))
        low == IF q.dir = "next" THEN q.from ELSE q.limit
        high == IF q.dir = "next" THEN q.limit ELSE q.from
    IN  {x \in {[service |-> s, day |-> d, at |-> at(s, d)] : s \in services, d \in Dates} :
            x.day \in calendar[x.service] /\ low <= x.at /\ x.at <= high}

\* What the search takes for granted: the service day goes from the hour after the morning to
\* the morning, services leave their first stop before midnight; arrivals after midnight are
\* not searched; real time schedules are in order, searched on their day only, and put no
\* service that ends its planned run before midnight at the edge after midnight.
Conventional(q) ==
    /\ \A s \in services, rt \in {FALSE, q.enabled} :
        /\ timing[s].first < Day
        /\ HourOf(Schedule(s, rt)) > Morning
        /\ Schedule(s, rt) < IF q.dir = "next" THEN At(1, Morning) ELSE Day
        /\ InOrder(rt)
    /\ q.enabled =>
        LET low == IF q.dir = "next" THEN q.from ELSE q.limit
            high == IF q.dir = "next" THEN q.limit ELSE q.from
        IN  /\ At(DateOf(Now), Morning) <= low /\ high < At(DateOf(Now) + 1, Morning)
            /\ RealTimeReaches(high)
            /\ \A s \in services : Schedule(s, TRUE) >= Day => Planned(s) + timing[s].rest >= Day

\* A search that starts reads nothing that has been freed, however the services changed before.
\* One that goes on from its last answer, with an iterator kept without the lock of the
\* services, does not either unless something changed meanwhile or the schedules are not
\* conventional.
SearchesStayDefined ==
    \A t \in Threads : search[t].pc = "undefined" =>
        search[t].kept # {} /\ (search[t].disturbed \/ ~Conventional(search[t]))

\* Edge.h: "Provides next departure", "Provides previous arrival".  The loop of the planner
\* over an edge finds every departure between its bounds once, in order, over several dates
\* and nights, whatever happened to the services, the calendars and the delays before.
SearchFindsAll ==
    \A t \in Threads : LET q == search[t] IN
        q.pc = "done" /\ ~q.disturbed /\ Conventional(q) =>
            /\ {q.found[i] : i \in DOMAIN q.found} = Expected(q)
            /\ \A i, j \in DOMAIN q.found : i < j =>
                IF q.dir = "next" THEN q.found[i].at < q.found[j].at
                ELSE q.found[i].at > q.found[j].at

\* No search goes back in time, and the one that has found nothing on a date goes on strictly
\* beyond it, from the very end of the night too: the loop comes to an end, whatever the
\* services, the index and the calendar become meanwhile.
SearchesAdvance ==
    [][\A t \in Threads :
        LET q == search[t]
            new == search'[t]
            further == IF q.dir = "next" THEN new.moment > q.moment ELSE new.moment < q.moment
        IN  q.pc \in {"read", "date", "store", "scan"} =>
                \/ further
                \/ new.moment = q.moment /\ ~(q.pc = "scan" /\ new.pc = "date")]_vars

\* ScheduledService.cpp: "RT data is only available today", "day finishes at (day+1,03:00)".
\* A passage of a later day is answered as planned.
RealTimeOnlyToday ==
    \A t \in Threads : LET q == search[t] IN
        ~q.disturbed => \A i \in DOMAIN q.found :
            q.found[i].day > DateOf(Now) =>
                q.found[i].at = q.found[i].day * Day + Planned(q.found[i].service)

\* Path.h: "If the response is false, then it is sure that no service runs at the given
\* date."  A search that passes over a date, because the path is not active on it, misses
\* nothing that it should find on that date and has not found yet.
InactiveMeansNoService ==
    \A t \in Threads : LET q == search[t] IN
        /\ q.pc = "scan" /\ ~q.disturbed /\ ~outrun
        /\ cache # {} /\ DateOf(q.moment) \notin UNION cache
        => \A x \in Expected(q) : DateOf(x.at) = DateOf(q.moment)
                => \E i \in DOMAIN q.found : q.found[i] = x
=============================================================================
