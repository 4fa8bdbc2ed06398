SPECIFICATION Spec
CONSTANTS
    Services = {s1, s2}
    Threads = {t1, t2}
    None = None
    Dangling = Dangling
    HourLength = 2
    DayHours = 6
    Morning = 1
    Now = 17
    Dates = {1, 2, 3}
    Timings <- FewTimings
    Calendars <- FewCalendars
    Delays = {2}
    Searches <- FewSearches
    MaxSearches = 2
    MaxUpdates = 1
INVARIANTS
    TypeOK
    IndexHoldsServices
    IndexSkipsNothing
    SearchesStayDefined
    SearchFindsAll
PROPERTY SearchesAdvance
CHECK_DEADLOCK FALSE
SYMMETRY ServiceAndThreadSymmetry
