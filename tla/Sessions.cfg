SPECIFICATION Spec
CONSTANTS
    Threads = {t1, t2}
    Addresses = {a1, a2}
    Logins = {login}
    NoKey = NoKey
    AutoLogin = TRUE
    Duration = 1
    MaxSessions = 3
    MaxRequests = 3
    MaxClock = 2
INVARIANTS
    TypeOK
    EndIsFinal
    IdleSessionsEnd
    UsersAreOnTheirWay
PROPERTIES
    OthersDoNotRemove
CHECK_DEADLOCK FALSE
SYMMETRY ThreadAndAddressSymmetry
