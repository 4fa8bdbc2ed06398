SPECIFICATION Spec
CONSTANTS
    Services = {s1, s2}
    Threads = {t1}
    None = None
    Dangling = Dangling
    HourLength = 2
    DayHours = 6
    Morning = 1
    Now = 17
    Dates = {1, 2, 3}
    Timings <- FewTimings
    Calendars <- FewCalendars
    Delays = {2}
    Searches <- TomorrowSearches
    MaxSearches = 1
    MaxUpdates = 1
INVARIANT RealTimeOnlyToday
CHECK_DEADLOCK FALSE
