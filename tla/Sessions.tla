------------------------------ MODULE Sessions ------------------------------
(***************************************************************************)
(* The sessions of the HTTP server (15_server/Session, DynamicRequest,     *)
(* LoginAction, LogoutAction).  Each thread of the pool handles a request: *)
(* it looks for the session of the identifier it got, checks it, or makes  *)
(* one, runs the action, and answers with the identifier as a cookie.  The *)
(* map of the sessions is locked for one lookup, insertion or removal at a *)
(* time; what a thread has found may have left the map when it uses it.    *)
(***************************************************************************)
EXTENDS Integers, Sequences

CONSTANTS Threads, Addresses,
          Logins,       \* identifiers "login:password" of users who may connect
          NoKey,
          AutoLogin,    \* a user is connected by default: GetAutoLoginUser
          Duration,     \* GetSessionMaxDuration
          MaxSessions,  \* bound: sessions made
          MaxRequests,  \* bound: requests that come
          MaxClock      \* bound: time

ASSUME SessionsAssumption ==
    /\ NoKey \notin Logins /\ NoKey \notin Nat /\ Logins \cap Nat = {}
    /\ AutoLogin \in BOOLEAN
    /\ Duration \in Nat /\ {MaxSessions, MaxRequests, MaxClock} \subseteq Nat

VARIABLES
    sessions,   \* every Session object ever made; a thread holds one by its number
    map,        \* _sessionMap: number of the session of a key, 0 without
    request,    \* request of each thread
    clock,
    requests,   \* counter of the bound
    ended,      \* history variable: sessions logged out, left for another, or found too old
    touched     \* history variable: last time each session was made or given to a request

vars == <<sessions, map, request, clock, requests, ended, touched>>

\* GenerateRandomString never gives a key twice: the number of the session stands for it.
Keys == Logins \cup 1 .. MaxSessions

NoRequest == [pc |-> "idle", ip |-> NoKey, sid |-> NoKey, asks |-> "page", session |-> 0,
              entry |-> 0, now |-> 0, came |-> 0, before |-> {}]

Init ==
    /\ sessions = <<>>
    /\ map = [k \in Keys |-> 0]
    /\ request = [t \in Threads |-> NoRequest]
    /\ clock = 0
    /\ requests = 0
    /\ ended = {}
    /\ touched = <<>>

Goes(t, new) == request' = [request EXCEPT ![t] = new]

\* The keys that a client may have: those answered as cookies, and at any time those of all the
\* sessions of the map, which SessionsListService gives to anybody.  Every new session is in it.
KnownKeys == {sessions[s].key : s \in DOMAIN sessions}

\* A client asks for a page, with or without an identifier, or to log in or out.
Arrive(t) ==
    \E ip \in Addresses, sid \in KnownKeys \cup Logins \cup {NoKey},
       asks \in {"page", "login", "logout"} :
        /\ request[t].pc = "idle"
        /\ requests < MaxRequests /\ requests' = requests + 1
        /\ Goes(t, [NoRequest EXCEPT !.pc = IF sid = NoKey THEN "default" ELSE "get",
                      !.ip = ip, !.sid = sid, !.asks = asks, !.came = clock, !.before = ended])
        /\ UNCHANGED <<sessions, map, clock, ended, touched>>

-----------------------------------------------------------------------------
(* Session::New, Session::Delete                                           *)

\* The new session is in the map, unless its key is already there.
New(ip, key) ==
    LET s == Len(sessions) + 1
        k == IF key = NoKey THEN s ELSE key
    IN
    /\ s <= MaxSessions
    /\ sessions' = Append(sessions, [key |-> k, ip |-> ip, user |-> FALSE, lastUse |-> clock])
    /\ map' = [map EXCEPT ![k] = IF @ = 0 THEN s ELSE @]
    /\ touched' = Append(touched, clock)

\* Mutant: the session stays in the map.
Remove_Nothing(s) == map' = map

\* _removeSessionFromMap: whatever is in the map for the key of session s.
Remove(s) == map' = [map EXCEPT ![sessions[s].key] = 0]

-----------------------------------------------------------------------------
(* DynamicRequest::_setupSession and Session::Get                          *)

\* Mutant: whatever the identifier is, it is taken for a login and a password.
Lookup_AnySid(t) ==
    LET q == request[t] IN
    /\ q.pc = "get"
    /\ Goes(t, [q EXCEPT !.entry = map[q.sid],
                         !.pc = IF map[q.sid] # 0 THEN "check" ELSE "connect"])
    /\ UNCHANGED <<sessions, map, clock, requests, ended, touched>>

Lookup(t) ==
    LET q == request[t] IN
    /\ q.pc = "get"
    /\ Goes(t, [q EXCEPT !.entry = map[q.sid],
                         !.pc = IF map[q.sid] # 0 THEN "check"
                                ELSE IF q.sid \in Logins THEN "connect" ELSE "default"])
    /\ UNCHANGED <<sessions, map, clock, requests, ended, touched>>

\* Mutant: the age of the session is not checked.
TooOld_Never(q) == FALSE

TooOld(q) == q.now - sessions[q.entry].lastUse > Duration

\* The clock is read before the lock of the session is waited for.
ReadClock(t) ==
    /\ request[t].pc = "check"
    /\ Goes(t, [request[t] EXCEPT !.pc = "test", !.now = clock])
    /\ UNCHANGED <<sessions, map, clock, requests, ended, touched>>

\* The address and the age, under the lock.
Check(t) ==
    LET q == request[t] IN
    /\ q.pc = "test"
    /\ Goes(t, [q EXCEPT !.pc = IF q.ip # sessions[q.entry].ip THEN "default"
                                ELSE IF TooOld(q) THEN "drop" ELSE "refresh"])
    /\ UNCHANGED <<sessions, map, clock, requests, ended, touched>>

Drop(t) ==
    /\ request[t].pc = "drop"
    /\ Remove(request[t].entry)
    /\ ended' = ended \cup {request[t].entry}
    /\ Goes(t, [request[t] EXCEPT !.pc = "default", !.entry = 0, !.now = 0])
    /\ UNCHANGED <<sessions, clock, requests, touched>>

\* The time of the last use is written after the lock has been released.
Refresh(t) ==
    LET q == request[t] IN
    /\ q.pc = "refresh"
    /\ sessions' = [sessions EXCEPT ![q.entry].lastUse = q.now]
    /\ touched' = [touched EXCEPT ![q.entry] = IF @ > q.now THEN @ ELSE q.now]
    /\ Goes(t, [q EXCEPT !.pc = "run", !.session = q.entry, !.entry = 0, !.now = 0,
                         !.came = 0, !.sid = NoKey])
    /\ UNCHANGED <<map, clock, requests, ended>>

\* "login:password" makes a session, with itself as the key.
Connect(t) ==
    LET q == request[t] IN
    /\ q.pc = "connect"
    /\ New(q.ip, q.sid)
    /\ Goes(t, [q EXCEPT !.pc = "user", !.session = Len(sessions) + 1, !.sid = NoKey,
                         !.came = 0])
    /\ UNCHANGED <<clock, requests, ended>>

\* Mutant: the session of the default user takes the identifier of the request.
ConnectDefault_Sid(t) ==
    LET q == request[t] IN
    /\ q.pc = "default"
    /\ IF AutoLogin
       THEN /\ New(q.ip, q.sid)
            /\ Goes(t, [q EXCEPT !.pc = "user", !.session = Len(sessions) + 1])
       ELSE /\ Goes(t, [q EXCEPT !.pc = "run"])
            /\ UNCHANGED <<sessions, map, touched>>
    /\ UNCHANGED <<clock, requests, ended>>

\* Without a session, the default user.
ConnectDefault(t) ==
    LET q == request[t] IN
    /\ q.pc = "default"
    /\ IF AutoLogin
       THEN /\ New(q.ip, NoKey)
            /\ Goes(t, [q EXCEPT !.pc = "user", !.session = Len(sessions) + 1, !.sid = NoKey])
       ELSE /\ Goes(t, [q EXCEPT !.pc = "run", !.sid = NoKey])
            /\ UNCHANGED <<sessions, map, touched>>
    /\ UNCHANGED <<clock, requests, ended>>

\* The user is set once the session is in the map.
SetUser(t) ==
    LET q == request[t] IN
    /\ q.pc = "user"
    /\ sessions' = [sessions EXCEPT ![q.session].user = TRUE]
    /\ Goes(t, [q EXCEPT !.pc = "run"])
    /\ UNCHANGED <<map, clock, requests, ended, touched>>

-----------------------------------------------------------------------------
(* Actions.  A wrong password changes nothing, as a page.                  *)

\* LoginAction: a new session, which replaces that of the request in the next step.
Login(t) ==
    LET q == request[t] IN
    /\ q.pc = "run" /\ q.asks = "login"
    /\ New(q.ip, NoKey)
    /\ Goes(t, [q EXCEPT !.pc = "replace", !.asks = "page", !.entry = Len(sessions) + 1])
    /\ UNCHANGED <<clock, requests, ended>>

\* Request::setSession deletes the session that the request had.
Leave(s) ==
    IF s = 0 THEN UNCHANGED <<map, ended>> ELSE Remove(s) /\ ended' = ended \cup {s}

\* Mutant: the session of the request is replaced by the new one, as it is.
Replace_NoUser(t) ==
    LET q == request[t] IN
    /\ q.pc = "replace"
    /\ Leave(q.session)
    /\ Goes(t, [q EXCEPT !.pc = "run", !.session = q.entry, !.entry = 0])
    /\ UNCHANGED <<sessions, clock, requests, touched>>

Replace(t) ==
    LET q == request[t] IN
    /\ q.pc = "replace"
    /\ Leave(q.session)
    /\ Goes(t, [q EXCEPT !.pc = "user", !.session = q.entry, !.entry = 0])
    /\ UNCHANGED <<sessions, clock, requests, touched>>

Logout(t) ==
    LET q == request[t] IN
    /\ q.pc = "run" /\ q.asks = "logout"
    /\ Leave(q.session)
    /\ Goes(t, [q EXCEPT !.session = 0, !.asks = "page"])
    /\ UNCHANGED <<sessions, clock, requests, touched>>

\* The answer has the key of the session as a cookie.
Answer(t) ==
    /\ request[t].pc = "run" /\ request[t].asks = "page"
    /\ Goes(t, NoRequest)
    /\ UNCHANGED <<sessions, map, clock, requests, ended, touched>>

Tick ==
    /\ clock < MaxClock
    /\ clock' = clock + 1
    /\ UNCHANGED <<sessions, map, request, requests, ended, touched>>

-----------------------------------------------------------------------------

Setup(t) ==
    \/ Arrive(t) \/ Lookup(t) \/ ReadClock(t) \/ Check(t) \/ Drop(t)
    \/ Refresh(t) \/ Connect(t) \/ ConnectDefault(t) \/ SetUser(t)

Run(t) == Login(t) \/ Replace(t) \/ Logout(t) \/ Answer(t)

Next == Tick \/ \E t \in Threads : Setup(t) \/ Run(t)

Spec == Init /\ [][Next]_vars

-----------------------------------------------------------------------------
(* Properties. *)

Made == DOMAIN sessions

RequestType ==
    [pc : {"idle", "get", "check", "test", "drop", "refresh", "connect", "default", "user",
           "run", "replace"},
     ip : Addresses \cup {NoKey}, sid : Keys \cup {NoKey},
     asks : {"page", "login", "logout"}, session : Nat, entry : Nat, now : Nat,
     came : Nat, before : SUBSET Nat]

SessionType == [key : Keys, ip : Addresses, user : BOOLEAN, lastUse : Nat]

\* Type of every variable; the map has a session under its own key, and a thread holds
\* sessions that were made.
TypeOK ==
    /\ sessions \in Seq(SessionType) /\ Len(sessions) <= MaxSessions
    /\ map \in [Keys -> Nat]
    /\ \A k \in Keys : map[k] # 0 => map[k] \in Made /\ sessions[map[k]].key = k
    /\ request \in [Threads -> RequestType]
    /\ \A t \in Threads :
        /\ {request[t].session, request[t].entry} \subseteq Made \cup {0}
        /\ request[t].pc \in {"check", "test", "drop", "refresh", "replace"} => request[t].entry # 0
        /\ request[t].pc = "user" => request[t].session # 0
        /\ request[t].pc = "get" => request[t].sid # NoKey
        /\ request[t].pc = "connect" => request[t].sid \in Logins
    /\ clock \in Nat /\ requests \in Nat /\ ended \subseteq Made
    /\ touched \in Seq(Nat) /\ Len(touched) = Len(sessions)

\* A session that was logged out, left or found too old is not given to any request that
\* comes afterwards, although other threads may still hold it, use it and write its last use.
EndIsFinal ==
    \A t \in Threads : request[t].session \notin request[t].before

\* Whatever the order in which the threads read the clock, wait for the lock and write the
\* last use, a request is only given a session that somebody used in the Duration before it came.
IdleSessionsEnd ==
    \A t \in Threads : LET q == request[t] IN
        q.pc = "refresh" => q.came - touched[q.entry] <= Duration

\* Session.cpp: "Remove the given session from the map", which is done by key.  A session
\* with a random key is removed by a thread that holds it, or has found it too old, only.
OthersDoNotRemove ==
    [][\A k \in Keys \ Logins : map[k] # 0 /\ map'[k] = 0 =>
           \E t \in Threads :
               \/ request[t].session = map[k] /\ request[t].pc \in {"replace", "run"}
               \/ request[t].entry = map[k] /\ request[t].pc = "drop"]_vars

\* The user of a session is set without a lock, after other requests can find the session: one
\* that has no user yet is always that of a thread which is about to set it.
UsersAreOnTheirWay ==
    \A k \in Keys : map[k] # 0 /\ ~sessions[map[k]].user =>
        \E t \in Threads :
            \/ request[t].pc = "user" /\ request[t].session = map[k]
            \/ request[t].pc = "replace" /\ request[t].entry = map[k]
=============================================================================
