--------------------------- MODULE Sessions_proofs --------------------------
(***************************************************************************)
(* Theorems about Sessions, for every number of threads, addresses and     *)
(* logins, with or without a default user, and for every duration.         *)
(***************************************************************************)
EXTENDS Sessions, TLAPS

\* A random key is that of one session.
KeysOwn == \A s \in Made : sessions[s].key \in Logins \cup {s}

\* The map only has sessions under their own keys, none of which has come to its end.
MapInv ==
    /\ map \in [Keys -> Nat]
    /\ \A k \in Keys : map[k] # 0 =>
        map[k] \in Made /\ sessions[map[k]].key = k /\ map[k] \notin ended

\* The last use of a session is not later than the last time it was made or given.
TouchedInv ==
    /\ touched \in Seq(Nat) /\ Len(touched) = Len(sessions)
    /\ \A s \in Made : sessions[s].lastUse <= touched[s]

StateInv ==
    /\ sessions \in Seq(SessionType) /\ Len(sessions) <= MaxSessions
    /\ clock \in Nat /\ requests \in Nat /\ ended \subseteq Made
    /\ KeysOwn /\ MapInv /\ TouchedInv

\* Session s had been used within the Duration before a request that came at `came`.
UsedBefore(s, came) == came - touched[s] <= Duration

\* What a request has in hand.
RequestInv(q) ==
    /\ q \in RequestType
    /\ {q.session, q.entry} \subseteq Made \cup {0}
    /\ q.pc \in {"check", "test", "drop", "refresh", "replace"} => q.entry # 0
    /\ q.pc = "user" => q.session # 0
    /\ q.pc # "idle" => q.ip \in Addresses
    /\ q.pc \in {"get", "check", "test", "drop", "refresh", "connect", "default"} => q.session = 0
    /\ q.pc = "get" => q.sid # NoKey
    /\ q.pc = "connect" => q.sid \in Logins
    /\ q.before \subseteq ended /\ q.session \notin q.before /\ q.entry \notin q.before
    /\ q.came <= clock
    /\ q.pc \in {"test", "refresh"} => q.came <= q.now
    /\ q.pc = "refresh" => UsedBefore(q.entry, q.came)

IInv ==
    /\ StateInv
    /\ request \in [Threads -> RequestType]
    /\ \A t \in Threads : RequestInv(request[t])

\* Sessions are made, used, ended and given a user; they keep their keys.
Grows ==
    /\ Made \subseteq Made' /\ ended \subseteq ended' /\ clock <= clock'
    /\ \A s \in Made : /\ sessions'[s].key = sessions[s].key
                       /\ sessions[s].user => sessions'[s].user
                       /\ touched[s] <= touched'[s]

LEMMA MadeIsNat ==
    ASSUME StateInv
    PROVE  /\ Len(sessions) \in Nat /\ Made = 1 .. Len(sessions) /\ 0 \notin Made
           /\ \A s \in Made : s \in Nat /\ sessions[s] \in SessionType /\ touched[s] \in Nat
BY DEF StateInv, TouchedInv, Made

\* The requests of the other threads.
LEMMA RequestStays ==
    ASSUME StateInv, StateInv', Grows, NEW q, RequestInv(q)
    PROVE  RequestInv(q)'
<1>1. q.came \in Nat /\ q.came <= clock' /\ q \in RequestType
    BY DEF RequestInv, RequestType, StateInv, Grows
<1>2. q.entry \in Made /\ UsedBefore(q.entry, q.came) => UsedBefore(q.entry, q.came)'
  <2> SUFFICES ASSUME q.entry \in Made, q.came - touched[q.entry] <= Duration
               PROVE  q.came - touched'[q.entry] <= Duration
      BY DEF UsedBefore
  <2>1. q.entry \in Made' /\ touched[q.entry] <= touched'[q.entry]
      BY DEF Grows
  <2>2. touched[q.entry] \in Nat /\ touched'[q.entry] \in Nat /\ Duration \in Nat
      BY <2>1, MadeIsNat, SessionsAssumption DEF StateInv, TouchedInv, Made
  <2>3. q.came \in Nat
      BY <1>1
  <2>4. \A c, x, y, d \in Nat : x <= y /\ c - x <= d => c - y <= d
      OBVIOUS
  <2> QED BY <2>1, <2>2, <2>3, <2>4, Zenon
<1> QED BY <1>1, <1>2 DEF RequestInv, Grows

\* A step of one thread.
LEMMA OneRequest ==
    ASSUME IInv, StateInv', Grows, NEW t \in Threads, NEW q, Goes(t, q), RequestInv(q)'
    PROVE  IInv'
<1>1. request' \in [Threads -> RequestType]
    BY DEF IInv, Goes, RequestInv
<1>2. ASSUME NEW u \in Threads PROVE RequestInv(request[u])'
  <2>1. CASE u = t
      BY <2>1 DEF Goes, IInv
  <2>2. CASE u # t
    <3>1. request'[u] = request[u]
        BY <2>2 DEF Goes, IInv
    <3>2. RequestInv(request[u])
        BY DEF IInv
    <3> DEFINE r == request[u]
    <3>3. RequestInv(r)
        BY <3>2
    <3> HIDE DEF r
    <3>4. \A x : RequestInv(x) => RequestInv(x)'
        BY RequestStays DEF IInv
    <3> QED BY <3>1, <3>2, <3>4 DEF RequestInv
  <2> QED BY <2>1, <2>2
<1> QED BY <1>1, <1>2 DEF IInv

LEMMA OneRequestStays ==
    ASSUME IInv, StateInv', Grows, NEW t \in Threads, NEW q, Goes(t, q), RequestInv(q)
    PROVE  IInv'
<1>1. RequestInv(q)'
    BY RequestStays DEF IInv
<1> QED BY <1>1, OneRequest

\* A step that leaves the sessions alone.
LEMMA RequestOnly ==
    ASSUME IInv, UNCHANGED <<sessions, map, clock, ended, touched>>, requests' \in Nat,
           NEW t \in Threads, NEW q, Goes(t, q), RequestInv(q)
    PROVE  IInv'
<1>1. StateInv' /\ Grows
    BY DEF IInv, StateInv, KeysOwn, MapInv, TouchedInv, Made, Grows
<1> QED BY <1>1, OneRequestStays

LEMMA InitInv == Init => IInv
<1> SUFFICES ASSUME Init PROVE IInv
    OBVIOUS
<1>1. Made = {}
    BY DEF Init, Made
<1>2. NoRequest \in RequestType /\ RequestInv(NoRequest)
    BY SessionsAssumption DEF NoRequest, RequestType, RequestInv, Init
<1>3. StateInv
    BY <1>1, SessionsAssumption
    DEF Init, StateInv, KeysOwn, MapInv, TouchedInv
<1> QED BY <1>2, <1>3 DEF IInv, Init

LEMMA ArriveInv ==
    ASSUME IInv, NEW t \in Threads, Arrive(t)
    PROVE  IInv'
<1>1. PICK ip \in Addresses, sid \in KnownKeys \cup Logins \cup {NoKey},
           asks \in {"page", "login", "logout"} :
        Goes(t, [NoRequest EXCEPT !.pc = IF sid = NoKey THEN "default" ELSE "get",
                    !.ip = ip, !.sid = sid, !.asks = asks, !.came = clock, !.before = ended])
    BY DEF Arrive
<1> DEFINE q == [NoRequest EXCEPT !.pc = IF sid = NoKey THEN "default" ELSE "get",
                    !.ip = ip, !.sid = sid, !.asks = asks, !.came = clock, !.before = ended]
<1>2. /\ q.pc = (IF sid = NoKey THEN "default" ELSE "get") /\ q.session = 0 /\ q.entry = 0
      /\ q.sid = sid /\ q.before = ended /\ q.ip = ip /\ q.came = clock
    BY DEF NoRequest
<1>3. ended \subseteq Made /\ 0 \notin Made /\ Made \subseteq Nat
    BY MadeIsNat DEF IInv, StateInv
<1>4. sid \in Keys \cup {NoKey}
    BY MadeIsNat DEF KnownKeys, Made, SessionType, IInv, Keys
<1>5. q \in RequestType
    BY <1>3, <1>4 DEF NoRequest, RequestType, IInv, StateInv
<1>6. RequestInv(q)
    BY <1>2, <1>3, <1>5 DEF RequestInv, IInv, StateInv
<1> HIDE DEF q
<1>7. requests' \in Nat /\ UNCHANGED <<sessions, map, clock, ended, touched>>
    BY DEF Arrive, IInv, StateInv
<1>8. Goes(t, q)
    BY <1>1 DEF q
<1> QED BY <1>6, <1>7, <1>8, RequestOnly

LEMMA LookupInv ==
    ASSUME IInv, NEW t \in Threads, Lookup(t)
    PROVE  IInv'
<1> DEFINE p == request[t]
           pc == IF map[p.sid] # 0 THEN "check" ELSE IF p.sid \in Logins THEN "connect" ELSE "default"
           q == [p EXCEPT !.entry = map[p.sid], !.pc = pc]
<1>1. RequestInv(p) /\ p.pc = "get" /\ p \in RequestType
    BY DEF IInv, Lookup, RequestInv
<1>2. p.sid \in Keys
    BY <1>1 DEF RequestInv, RequestType
<1>3. /\ map[p.sid] \in Nat
      /\ map[p.sid] # 0 => /\ map[p.sid] \in Made /\ sessions[map[p.sid]].key = p.sid
                           /\ map[p.sid] \notin ended
    BY <1>2 DEF IInv, StateInv, MapInv
<1>4. q \in RequestType /\ q.pc = pc /\ q.entry = map[p.sid] /\ q.session = p.session
        /\ q.sid = p.sid /\ q.before = p.before /\ q.ip = p.ip /\ q.came = p.came
    BY <1>1, <1>3 DEF RequestType
<1>6. 0 \notin p.before
    BY <1>1, MadeIsNat DEF RequestInv, IInv, StateInv
<1>7. RequestInv(q)
  <2>1. map[p.sid] \notin p.before
      BY <1>1, <1>3, <1>6 DEF RequestInv
  <2>2. {q.session, q.entry} \subseteq Made \cup {0}
      BY <1>1, <1>3, <1>4 DEF RequestInv
  <2>4. q.ip \in Addresses /\ q.session = 0
      BY <1>1, <1>4 DEF RequestInv
  <2>3. q.session \notin q.before /\ q.before \subseteq ended /\ q.came <= clock
      BY <1>1, <1>4 DEF RequestInv
  <2> HIDE DEF p, q
  <2> QED BY <1>4, <2>1, <2>2, <2>3, <2>4 DEF RequestInv
<1> HIDE DEF q
<1>8. Goes(t, q)
    BY DEF q, Lookup
<1> QED BY <1>7, <1>8, RequestOnly DEF Lookup, IInv, StateInv

LEMMA ReadClockInv ==
    ASSUME IInv, NEW t \in Threads, ReadClock(t)
    PROVE  IInv'
<1>1. PICK p, q : p = request[t] /\ q = [p EXCEPT !.pc = "test", !.now = clock]
    OBVIOUS
<1>2. RequestInv(p) /\ p.pc = "check" /\ p \in RequestType /\ clock \in Nat
    BY <1>1 DEF IInv, ReadClock, RequestInv, StateInv
<1>3. q \in RequestType /\ q.pc = "test" /\ q.entry = p.entry /\ q.session = p.session
        /\ q.sid = p.sid /\ q.before = p.before /\ q.ip = p.ip /\ q.came = p.came
        /\ q.now = clock
    BY <1>1, <1>2 DEF RequestType
<1>4. RequestInv(q)
    BY <1>2, <1>3 DEF RequestInv
<1>5. Goes(t, q)
    BY <1>1 DEF ReadClock
<1> QED BY <1>4, <1>5, RequestOnly DEF ReadClock, IInv, StateInv

\* A session that is not too old at the time read before its lock was waited for has been used
\* in the Duration before the request came.
LEMMA CheckInv ==
    ASSUME IInv, NEW t \in Threads, Check(t)
    PROVE  IInv'
<1> DEFINE p == request[t]
           s == p.entry
           pc == IF p.ip # sessions[p.entry].ip THEN "default"
                 ELSE IF TooOld(p) THEN "drop" ELSE "refresh"
           q == [p EXCEPT !.pc = pc]
<1>1. RequestInv(p) /\ p.pc = "test" /\ p \in RequestType /\ s \in Made
    BY DEF IInv, Check, RequestInv
<1>2. q \in RequestType /\ q.pc = pc /\ q.entry = p.entry /\ q.session = p.session
        /\ q.sid = p.sid /\ q.before = p.before /\ q.ip = p.ip /\ q.came = p.came
        /\ q.now = p.now
    BY <1>1 DEF RequestType, IInv, StateInv
<1>3. pc \in {"default", "drop", "refresh"} /\ (pc = "refresh" => ~TooOld(p))
    OBVIOUS
<1>4. ASSUME ~TooOld(p) PROVE UsedBefore(s, p.came)
  <2>1. /\ sessions[s].lastUse <= touched[s] /\ sessions[s].lastUse \in Nat
        /\ touched[s] \in Nat /\ Duration \in Nat
      BY <1>1, MadeIsNat, SessionsAssumption DEF IInv, StateInv, TouchedInv, SessionType
  <2>2. p.came \in Nat /\ p.now \in Nat /\ p.came <= p.now
      BY <1>1 DEF RequestInv, RequestType
  <2>3. ~(p.now - sessions[s].lastUse > Duration)
      BY <1>4 DEF TooOld
  <2>4. p.came - touched[s] <= Duration
    <3> HIDE DEF p, s
    <3> QED BY <2>1, <2>2, <2>3
  <2> QED BY <2>4 DEF UsedBefore
<1> HIDE DEF p, q, pc
<1>5. RequestInv(q)
    BY <1>1, <1>2, <1>3, <1>4 DEF RequestInv
<1>6. Goes(t, q)
    BY DEF q, p, pc, Check
<1> QED BY <1>5, <1>6, RequestOnly DEF Check, IInv, StateInv

\* Session::New: the new session is not one that has ended, nor one that anybody knows.
LEMMA NewInv ==
    ASSUME StateInv, NEW ip \in Addresses, NEW key \in Logins \cup {NoKey}, New(ip, key),
           UNCHANGED <<clock, requests, ended>>
    PROVE  /\ StateInv' /\ Grows
           /\ Len(sessions) + 1 \in Made' /\ Len(sessions) + 1 \notin ended
           /\ Len(sessions) + 1 \in Nat \ {0}
<1> DEFINE s == Len(sessions) + 1
           k == IF key = NoKey THEN s ELSE key
           new == [key |-> k, ip |-> ip, user |-> FALSE, lastUse |-> clock]
<1>1. /\ Len(sessions) \in Nat /\ Made = 1 .. Len(sessions) /\ sessions \in Seq(SessionType)
      /\ s <= MaxSessions /\ MaxSessions \in Nat /\ clock \in Nat
    BY MadeIsNat, SessionsAssumption DEF New, StateInv
<1>2. k \in Keys /\ k \in Logins \cup {s}
    BY <1>1 DEF Keys
<1>3. new \in SessionType
    BY <1>1, <1>2 DEF SessionType
<1>4. /\ sessions' = Append(sessions, new) /\ touched' = Append(touched, clock)
      /\ map' = [map EXCEPT ![k] = IF @ = 0 THEN s ELSE @]
    BY DEF New
<1> HIDE DEF k, new
<1>5. /\ sessions' \in Seq(SessionType) /\ Len(sessions') = s /\ Made' = 1 .. s
      /\ sessions'[s] = new /\ \A r \in Made : sessions'[r] = sessions[r]
    BY <1>1, <1>3, <1>4 DEF Made
<1>6. s \in Made' /\ s \notin Made /\ Made \subseteq Made' /\ s \in Nat \ {0}
    BY <1>1, <1>5
<1>7. new.key = k /\ new.lastUse = clock
    BY DEF new
<1>8. \A r \in Made' : r = s \/ r \in Made
    BY <1>1, <1>5
<1>9. KeysOwn'
    BY <1>2, <1>5, <1>7, <1>8 DEF KeysOwn, StateInv
<1>10. s \notin ended
    BY <1>6 DEF StateInv
<1>11. MapInv'
  <2>1. map \in [Keys -> Nat] /\ map' \in [Keys -> Nat]
      BY <1>2, <1>4, <1>6 DEF StateInv, MapInv
  <2>2. ASSUME NEW l \in Keys, map'[l] # 0
        PROVE  map'[l] \in Made' /\ sessions'[map'[l]].key = l /\ map'[l] \notin ended'
    <3>1. CASE l = k /\ map[l] = 0
      <4>1. map'[l] = s
          BY <2>1, <3>1, <1>4
      <4> QED BY <4>1, <3>1, <1>5, <1>6, <1>7, <1>10
    <3>2. CASE ~(l = k /\ map[l] = 0)
      <4>1. map'[l] = map[l]
          BY <2>1, <3>2, <1>4
      <4>2. map[l] \in Made /\ sessions[map[l]].key = l /\ map[l] \notin ended
          BY <2>2, <4>1 DEF StateInv, MapInv
      <4> QED BY <4>1, <4>2, <1>5, <1>6
    <3> QED BY <3>1, <3>2
  <2> QED BY <2>1, <2>2 DEF MapInv
<1>13. TouchedInv'
  <2>1. /\ touched \in Seq(Nat) /\ Len(touched) = Len(sessions)
        /\ \A r \in Made : sessions[r].lastUse <= touched[r]
      BY DEF StateInv, TouchedInv
  <2>2. /\ touched' \in Seq(Nat) /\ Len(touched') = s /\ touched'[s] = clock
        /\ \A r \in Made : touched'[r] = touched[r]
      BY <2>1, <1>1, <1>4
  <2>3. sessions'[s].lastUse <= touched'[s]
      BY <2>2, <1>1, <1>5, <1>7
  <2>4. ASSUME NEW r \in Made PROVE sessions'[r].lastUse <= touched'[r]
    <3>1. sessions'[r] = sessions[r] /\ touched'[r] = touched[r]
        BY <2>2, <1>5
    <3> QED BY <2>1, <3>1
  <2>5. \A r \in Made' : sessions'[r].lastUse <= touched'[r]
      BY <2>3, <2>4, <1>8
  <2> HIDE DEF s
  <2> QED BY <2>2, <2>5, <1>5 DEF TouchedInv
<1>14. Grows
  <2>1. \A r \in Made : touched'[r] = touched[r] /\ touched[r] \in Nat
      BY <1>1, <1>4, MadeIsNat DEF StateInv, TouchedInv
  <2> QED BY <1>1, <1>5, <1>6, <2>1 DEF Grows
<1>15. StateInv'
    BY <1>1, <1>5, <1>6, <1>9, <1>11, <1>13 DEF StateInv
<1> QED BY <1>6, <1>10, <1>14, <1>15

\* _removeSessionFromMap: after it the map has no session that has ended.
LEMMA RemoveInv ==
    ASSUME StateInv, NEW s \in Made, Remove(s), ended' = ended \cup {s},
           UNCHANGED <<sessions, clock, requests, touched>>
    PROVE  StateInv' /\ Grows
<1>1. Made' = Made /\ Grows
    BY MadeIsNat DEF Made, Grows, StateInv
<1>2. MapInv'
  <2>1. map' = [map EXCEPT ![sessions[s].key] = 0] /\ map \in [Keys -> Nat]
      BY DEF Remove, StateInv, MapInv
  <2>2. ASSUME NEW k \in Keys, map'[k] # 0 PROVE map'[k] = map[k] /\ map[k] # s
    <3>1. k # sessions[s].key
        BY <2>1, <2>2
    <3> QED BY <2>1, <2>2, <3>1 DEF StateInv, MapInv
  <2> QED BY <2>1, <2>2, <1>1 DEF StateInv, MapInv
<1> QED BY <1>1, <1>2 DEF StateInv, KeysOwn, TouchedInv

\* What is removed when a request leaves its session, if it has one.
LEMMA LeaveInv ==
    ASSUME StateInv, NEW s \in Made \cup {0}, Leave(s),
           UNCHANGED <<sessions, clock, requests, touched>>
    PROVE  StateInv' /\ Grows
<1>1. CASE s = 0
    BY <1>1 DEF Leave, StateInv, KeysOwn, MapInv, TouchedInv, Grows, Made
<1>2. CASE s # 0
    BY <1>2, RemoveInv DEF Leave
<1> QED BY <1>1, <1>2

LEMMA DropInv ==
    ASSUME IInv, NEW t \in Threads, Drop(t)
    PROVE  IInv'
<1> DEFINE p == request[t]
           q == [p EXCEPT !.pc = "default", !.entry = 0, !.now = 0]
<1>1. RequestInv(p) /\ p.pc = "drop" /\ p \in RequestType /\ p.entry \in Made
    BY DEF IInv, Drop, RequestInv
<1>2. q \in RequestType /\ q.pc = "default" /\ q.entry = 0 /\ q.session = p.session
        /\ q.sid = p.sid /\ q.before = p.before /\ q.ip = p.ip /\ q.came = p.came
    BY <1>1 DEF RequestType
<1>3. 0 \notin p.before
    BY <1>1, MadeIsNat DEF RequestInv, IInv, StateInv
<1> HIDE DEF q
<1>4. RequestInv(q)
  <2> HIDE DEF p
  <2> QED BY <1>1, <1>2, <1>3 DEF RequestInv
<1>5. Goes(t, q) /\ StateInv' /\ Grows
    BY <1>1, RemoveInv DEF q, Drop, IInv
<1> QED BY <1>4, <1>5, OneRequestStays

\* A write to one session that keeps its key, and does not take its user away.
LEMMA SessionWritten ==
    ASSUME StateInv, NEW s \in Made, NEW new \in SessionType,
           new.key = sessions[s].key, sessions[s].user => new.user,
           sessions' = [sessions EXCEPT ![s] = new], TouchedInv',
           \A r \in Made : touched[r] <= touched'[r],
           UNCHANGED <<map, clock, requests, ended>>
    PROVE  StateInv' /\ Grows /\ Made' = Made /\ sessions'[s] = new
<1>1. /\ sessions \in Seq(SessionType) /\ Len(sessions) \in Nat /\ s \in 1 .. Len(sessions)
    BY MadeIsNat DEF StateInv
<1>2. /\ sessions' \in Seq(SessionType) /\ Len(sessions') = Len(sessions) /\ Made' = Made
      /\ sessions'[s] = new /\ \A r \in Made \ {s} : sessions'[r] = sessions[r]
    BY <1>1 DEF Made
<1>3. \A r \in Made : sessions'[r].key = sessions[r].key /\ (sessions[r].user => sessions'[r].user)
    BY <1>2
<1>4. KeysOwn' /\ MapInv' /\ Grows
    BY <1>2, <1>3 DEF SessionType, StateInv, KeysOwn, MapInv, Grows
<1> QED BY <1>2, <1>4 DEF StateInv

LEMMA RefreshInv ==
    ASSUME IInv, NEW t \in Threads, Refresh(t)
    PROVE  IInv'
<1> DEFINE p == request[t]
           s == p.entry
           q == [p EXCEPT !.pc = "run", !.session = p.entry, !.entry = 0, !.now = 0,
                       !.came = 0, !.sid = NoKey]
           new == [sessions[s] EXCEPT !.lastUse = p.now]
<1>1. RequestInv(p) /\ p.pc = "refresh" /\ p \in RequestType /\ s \in Made /\ p.now \in Nat
    BY DEF IInv, Refresh, RequestInv, RequestType
<1>2. q \in RequestType /\ q.pc = "run" /\ q.entry = 0 /\ q.session = s
        /\ q.sid = NoKey /\ q.before = p.before /\ q.ip = p.ip /\ q.came = 0
    BY <1>1, MadeIsNat DEF RequestType, IInv
<1>3. 0 \notin p.before
    BY <1>1, MadeIsNat DEF RequestInv, IInv, StateInv
<1>4. RequestInv(q)
  <2> HIDE DEF p, q
  <2> QED BY <1>1, <1>2, <1>3 DEF RequestInv, IInv, StateInv
<1>5. /\ new \in SessionType /\ new.key = sessions[s].key /\ new.user = sessions[s].user
      /\ new.lastUse = p.now
    BY <1>1, MadeIsNat DEF SessionType, IInv
<1>6. sessions' = [sessions EXCEPT ![s] = new]
    BY DEF Refresh
<1>7. TouchedInv'
  <2>1. /\ touched \in Seq(Nat) /\ Len(touched) = Len(sessions) /\ Len(sessions) \in Nat
        /\ \A r \in Made : sessions[r].lastUse <= touched[r]
      BY MadeIsNat DEF IInv, StateInv, TouchedInv
  <2>2. Made = 1 .. Len(sessions)
      BY MadeIsNat DEF IInv
  <2>3. touched' = [touched EXCEPT ![s] = IF touched[s] > p.now THEN touched[s] ELSE p.now]
      BY DEF Refresh
  <2>4. touched[s] \in Nat
      BY <1>1, <2>1, <2>2
  <2>5. /\ touched' \in Seq(Nat) /\ Len(touched') = Len(touched) /\ p.now <= touched'[s]
        /\ \A r \in Made \ {s} : touched'[r] = touched[r]
    <3> HIDE DEF p
    <3> QED BY <1>1, <2>1, <2>2, <2>3, <2>4
  <2>6. Len(sessions') = Len(sessions) /\ Made' = Made
      BY <1>6, <2>2 DEF Made
  <2>7. sessions'[s] = new /\ \A r \in Made \ {s} : sessions'[r] = sessions[r]
      BY <1>1, <1>6 DEF Made
  <2> QED BY <1>5, <2>1, <2>5, <2>6, <2>7 DEF TouchedInv
<1>10. \A r \in Made : touched[r] <= touched'[r]
  <2>1. \A r \in Made : touched[r] \in Nat
      BY MadeIsNat DEF IInv
  <2>2. touched' = [touched EXCEPT ![s] = IF touched[s] > p.now THEN touched[s] ELSE p.now]
      BY DEF Refresh
  <2>3. Made = DOMAIN touched
      BY MadeIsNat DEF IInv, StateInv, TouchedInv
  <2> HIDE DEF p
  <2> QED BY <1>1, <2>1, <2>2, <2>3
<1> HIDE DEF q, new
<1>8. StateInv' /\ Grows
    BY <1>1, <1>5, <1>6, <1>7, <1>10, SessionWritten DEF Refresh, IInv
<1>9. Goes(t, q)
    BY DEF q, Refresh
<1> QED BY <1>4, <1>8, <1>9, OneRequestStays

\* A request that takes a session that has just been made, by its entry or at once.
LEMMA TakesNew ==
    ASSUME IInv, NEW t \in Threads, NEW key \in Logins \cup {NoKey},
           request[t].pc \in {"connect", "default", "run"}, New(request[t].ip, key),
           UNCHANGED <<clock, requests, ended>>,
           NEW q \in RequestType, Goes(t, q), q.pc \in {"user", "replace"},
           q.ip = request[t].ip, q.before = request[t].before,
           q.came \in {0, request[t].came},
           \/ q.pc = "user" /\ q.session = Len(sessions) + 1 /\ q.entry = request[t].entry
           \/ q.pc = "replace" /\ q.session = request[t].session /\ q.entry = Len(sessions) + 1
    PROVE  IInv'
<1> DEFINE p == request[t]
           s == Len(sessions) + 1
<1>1. RequestInv(p) /\ p.ip \in Addresses /\ p.before \subseteq ended
    BY DEF IInv, RequestInv
<1>2. StateInv' /\ Grows /\ s \in Made' /\ s \notin ended /\ s \in Nat \ {0}
    BY <1>1, NewInv DEF IInv
<1>3. {p.session, p.entry} \subseteq Made' \cup {0} /\ p.session \notin p.before /\ p.entry \notin p.before
    BY <1>1, <1>2 DEF RequestInv, Grows
<1>4. q.came <= clock' /\ q.before \subseteq ended'
    BY <1>1, <1>2 DEF RequestInv, RequestType, Grows, IInv, StateInv
<1>5. {q.session, q.entry} \subseteq Made' \cup {0} /\ q.session \notin q.before /\ q.entry \notin q.before
    BY <1>1, <1>2, <1>3
<1>6. (q.pc = "user" => q.session # 0) /\ (q.pc = "replace" => q.entry # 0) /\ q.ip \in Addresses
    BY <1>1, <1>2
<1> HIDE DEF p, s
<1>7. RequestInv(q)'
    BY <1>4, <1>5, <1>6 DEF RequestInv
<1> QED BY <1>2, <1>7, OneRequest

LEMMA ConnectInv ==
    ASSUME IInv, NEW t \in Threads, Connect(t)
    PROVE  IInv'
<1> DEFINE p == request[t]
<1>1. PICK q : q = [p EXCEPT !.pc = "user", !.session = Len(sessions) + 1, !.sid = NoKey,
                       !.came = 0]
    OBVIOUS
<1>2. p \in RequestType /\ p.pc = "connect" /\ p.sid \in Logins /\ Len(sessions) + 1 \in Nat
    BY MadeIsNat DEF IInv, Connect, RequestInv
<1>3. q \in RequestType /\ q.pc = "user" /\ q.session = Len(sessions) + 1 /\ q.entry = p.entry
        /\ q.sid = NoKey /\ q.before = p.before /\ q.ip = p.ip /\ q.came = 0
    BY <1>1, <1>2 DEF RequestType
<1>4. Goes(t, q) /\ New(p.ip, p.sid)
    BY <1>1 DEF Connect
<1> QED BY <1>2, <1>3, <1>4, TakesNew DEF Connect

LEMMA ConnectDefaultInv ==
    ASSUME IInv, NEW t \in Threads, ConnectDefault(t)
    PROVE  IInv'
<1> DEFINE p == request[t]
<1>1. p \in RequestType /\ p.pc = "default" /\ Len(sessions) + 1 \in Nat /\ RequestInv(p)
    BY MadeIsNat DEF IInv, ConnectDefault
<1>2. CASE AutoLogin
  <2>1. PICK q : q = [p EXCEPT !.pc = "user", !.session = Len(sessions) + 1, !.sid = NoKey]
      OBVIOUS
  <2>2. q \in RequestType /\ q.pc = "user" /\ q.session = Len(sessions) + 1 /\ q.entry = p.entry
          /\ q.sid = NoKey /\ q.before = p.before /\ q.ip = p.ip /\ q.came = p.came
      BY <1>1, <2>1 DEF RequestType
  <2>3. Goes(t, q) /\ New(p.ip, NoKey)
      BY <1>2, <2>1 DEF ConnectDefault
  <2> QED BY <1>1, <2>2, <2>3, TakesNew DEF ConnectDefault
<1>3. CASE ~AutoLogin
  <2>1. PICK q : q = [p EXCEPT !.pc = "run", !.sid = NoKey]
      OBVIOUS
  <2>2. q \in RequestType /\ q.pc = "run" /\ q.session = p.session /\ q.entry = p.entry
          /\ q.sid = NoKey /\ q.before = p.before /\ q.ip = p.ip /\ q.came = p.came
      BY <1>1, <2>1 DEF RequestType
  <2>3. Goes(t, q) /\ UNCHANGED <<sessions, map, clock, ended, touched>> /\ requests' \in Nat
      BY <1>3, <2>1 DEF ConnectDefault, IInv, StateInv
  <2>4. RequestInv(q)
    <3>1. p.session = 0
        BY <1>1 DEF RequestInv
    <3> HIDE DEF p
    <3> QED BY <1>1, <2>2, <3>1 DEF RequestInv
  <2> QED BY <2>3, <2>4, RequestOnly
<1> QED BY <1>2, <1>3

LEMMA LoginInv ==
    ASSUME IInv, NEW t \in Threads, Login(t)
    PROVE  IInv'
<1> DEFINE p == request[t]
<1>1. PICK q : q = [p EXCEPT !.pc = "replace", !.asks = "page", !.entry = Len(sessions) + 1]
    OBVIOUS
<1>2. p \in RequestType /\ p.pc = "run" /\ Len(sessions) + 1 \in Nat
    BY MadeIsNat DEF IInv, Login
<1>3. q \in RequestType /\ q.pc = "replace" /\ q.session = p.session /\ q.entry = Len(sessions) + 1
        /\ q.sid = p.sid /\ q.before = p.before /\ q.ip = p.ip /\ q.came = p.came
    BY <1>1, <1>2 DEF RequestType
<1>4. Goes(t, q) /\ New(p.ip, NoKey)
    BY <1>1 DEF Login
<1> QED BY <1>2, <1>3, <1>4, TakesNew DEF Login

LEMMA SetUserInv ==
    ASSUME IInv, NEW t \in Threads, SetUser(t)
    PROVE  IInv'
<1>1. PICK p, q, s :
        p = request[t] /\ q = [p EXCEPT !.pc = "run"] /\ s = p.session
    OBVIOUS
<1> DEFINE new == [sessions[s] EXCEPT !.user = TRUE]
<1>2. RequestInv(p) /\ p.pc = "user" /\ p \in RequestType /\ s \in Made
    BY <1>1 DEF IInv, SetUser, RequestInv
<1>3. q \in RequestType /\ q.pc = "run" /\ q.entry = p.entry /\ q.session = s
        /\ q.sid = p.sid /\ q.before = p.before /\ q.ip = p.ip /\ q.came = p.came
    BY <1>1, <1>2 DEF RequestType
<1>4. /\ new \in SessionType /\ new.key = sessions[s].key /\ new.user
      /\ new.lastUse = sessions[s].lastUse
    BY <1>2, MadeIsNat DEF SessionType, IInv
<1>5. sessions' = [sessions EXCEPT ![s] = new]
    BY <1>1 DEF SetUser
<1>6. TouchedInv'
  <2>1. /\ touched' = touched /\ touched \in Seq(Nat) /\ Len(touched) = Len(sessions)
        /\ \A r \in Made : sessions[r].lastUse <= touched[r]
      BY DEF SetUser, IInv, StateInv, TouchedInv
  <2>2. Len(sessions') = Len(sessions) /\ Made' = Made
      BY <1>5, MadeIsNat DEF Made, IInv, StateInv
  <2>3. sessions'[s] = new /\ \A r \in Made \ {s} : sessions'[r] = sessions[r]
      BY <1>2, <1>5 DEF Made
  <2> HIDE DEF new
  <2> QED BY <1>4, <2>1, <2>2, <2>3 DEF TouchedInv
<1>8. \A r \in Made : touched[r] <= touched'[r]
    BY MadeIsNat DEF SetUser, IInv
<1> HIDE DEF new
<1>7. StateInv' /\ Grows /\ Made' = Made /\ sessions'[s] = new
    BY <1>2, <1>4, <1>5, <1>6, <1>8, SessionWritten DEF SetUser, IInv
<1>9. RequestInv(p)'
    BY <1>2, <1>7, RequestStays DEF IInv
<1>10. RequestInv(q)'
    BY <1>1, <1>2, <1>3, <1>9 DEF RequestInv
<1>11. Goes(t, q)
    BY <1>1 DEF SetUser
<1> QED BY <1>7, <1>10, <1>11, OneRequest

LEMMA ReplaceInv ==
    ASSUME IInv, NEW t \in Threads, Replace(t)
    PROVE  IInv'
<1>1. PICK p, q :
        p = request[t] /\ q = [p EXCEPT !.pc = "user", !.session = p.entry, !.entry = 0]
    OBVIOUS
<1>2. RequestInv(p) /\ p.pc = "replace" /\ p \in RequestType /\ p.entry \in Made
    BY <1>1 DEF IInv, Replace, RequestInv
<1>3. q \in RequestType /\ q.pc = "user" /\ q.entry = 0 /\ q.session = p.entry
        /\ q.sid = p.sid /\ q.before = p.before /\ q.ip = p.ip /\ q.came = p.came
    BY <1>1, <1>2 DEF RequestType
<1>4. 0 \notin p.before /\ 0 \notin Made
    BY <1>2, MadeIsNat DEF RequestInv, IInv, StateInv
<1>5. RequestInv(q)
    BY <1>2, <1>3, <1>4 DEF RequestInv
<1>6. Goes(t, q) /\ StateInv' /\ Grows
    BY <1>1, <1>2, LeaveInv DEF Replace, IInv, RequestInv
<1> QED BY <1>5, <1>6, OneRequestStays

LEMMA LogoutInv ==
    ASSUME IInv, NEW t \in Threads, Logout(t)
    PROVE  IInv'
<1>1. PICK p, q : p = request[t] /\ q = [p EXCEPT !.session = 0, !.asks = "page"]
    OBVIOUS
<1>2. RequestInv(p) /\ p.pc = "run" /\ p \in RequestType
    BY <1>1 DEF IInv, Logout, RequestInv
<1>3. q \in RequestType /\ q.pc = "run" /\ q.entry = p.entry /\ q.session = 0
        /\ q.sid = p.sid /\ q.before = p.before /\ q.ip = p.ip /\ q.came = p.came
    BY <1>1, <1>2 DEF RequestType
<1>4. 0 \notin p.before
    BY <1>2, MadeIsNat DEF RequestInv, IInv, StateInv
<1>5. RequestInv(q)
    BY <1>2, <1>3, <1>4 DEF RequestInv
<1>6. Goes(t, q) /\ StateInv' /\ Grows
    BY <1>1, <1>2, LeaveInv DEF Logout, IInv, RequestInv
<1> QED BY <1>5, <1>6, OneRequestStays

LEMMA AnswerInv ==
    ASSUME IInv, NEW t \in Threads, Answer(t)
    PROVE  IInv'
<1>1. Goes(t, NoRequest) /\ UNCHANGED <<sessions, map, clock, requests, ended, touched>>
    BY DEF Answer
<1>2. RequestInv(NoRequest)
    BY SessionsAssumption DEF NoRequest, RequestType, RequestInv, IInv, StateInv
<1> QED BY <1>1, <1>2, RequestOnly DEF IInv, StateInv

LEMMA TickInv ==
    ASSUME IInv, Tick \/ UNCHANGED vars
    PROVE  IInv'
<1>1. /\ UNCHANGED <<sessions, map, request, requests, ended, touched>>
      /\ clock' \in Nat /\ clock <= clock'
    BY DEF Tick, vars, IInv, StateInv
<1>2. StateInv' /\ Grows
    BY <1>1, MadeIsNat DEF IInv, StateInv, KeysOwn, MapInv, TouchedInv, Made, Grows
<1>3. \A q : RequestInv(q) => RequestInv(q)'
    BY <1>2, RequestStays DEF IInv
<1> QED BY <1>1, <1>2, <1>3 DEF IInv, RequestInv

LEMMA Invariance == Spec => []IInv
<1>1. IInv /\ [Next]_vars => IInv'
    BY ArriveInv, LookupInv, ReadClockInv, CheckInv, DropInv, RefreshInv, ConnectInv, ConnectDefaultInv,
       SetUserInv, LoginInv, ReplaceInv, LogoutInv, AnswerInv, TickInv
    DEF Next, Setup, Run
<1> QED BY <1>1, InitInv, PTL DEF Spec

-----------------------------------------------------------------------------
(* Theorems. *)

\* Types; the map has each session under its own key.
THEOREM SessionsTypeCorrect == Spec => []TypeOK
<1>1. IInv => TypeOK
    BY DEF IInv, StateInv, MapInv, TouchedInv, RequestInv, TypeOK
<1> QED BY <1>1, Invariance, PTL

\* Whatever the threads do between the lookup of a session and its use, no request that comes
\* after a session has been logged out, left or found too old is given it.
THEOREM EndsAreFinal == Spec => []EndIsFinal
<1>1. IInv => EndIsFinal
    BY DEF IInv, RequestInv, EndIsFinal
<1> QED BY <1>1, Invariance, PTL

\* A session that nobody has used for the maximal duration when a request comes is not given to
\* it, although the clock is read and the last use is written without the lock.
THEOREM IdleSessionsAreRefused == Spec => []IdleSessionsEnd
<1>1. IInv => IdleSessionsEnd
    BY DEF IInv, RequestInv, UsedBefore, IdleSessionsEnd
<1> QED BY <1>1, Invariance, PTL

\* A thread is about to set the user of session s.
OnTheWay(s) ==
    \E t \in Threads :
        \/ request[t].pc = "user" /\ request[t].session = s
        \/ request[t].pc = "replace" /\ request[t].entry = s

UsersInv == \A s \in Made : ~sessions[s].user => OnTheWay(s)

\* A thread that is about to set the user of a session goes on with it until it has set it.
LEMMA StaysOnTheWay ==
    ASSUME IInv, NEW t \in Threads, Setup(t) \/ Run(t), NEW s \in Made, OnTheWay(s),
           ~sessions'[s].user
    PROVE  OnTheWay(s)'
<1>1. PICK u \in Threads : \/ request[u].pc = "user" /\ request[u].session = s
                           \/ request[u].pc = "replace" /\ request[u].entry = s
    BY Zenon DEF OnTheWay
<1>2. CASE u # t
  <2>1. request \in [Threads -> RequestType]
      BY DEF IInv
  <2>2. \A q : Goes(t, q) => request'[u] = request[u]
      BY <1>2, <2>1 DEF Goes
  <2>3. request'[u] = request[u]
      BY <2>2 DEF Setup, Run, Arrive, Lookup, ReadClock, Check, Drop, Refresh, Connect,
                  ConnectDefault, SetUser, Login, Replace, Logout, Answer
  <2> QED BY <1>1, <2>3 DEF OnTheWay
<1>3. CASE u = t
  <2>1. CASE request[t].pc = "user"
    <3>1. SetUser(t)
        BY <2>1 DEF Setup, Run, Arrive, Lookup, ReadClock, Check, Drop, Refresh, Connect,
                    ConnectDefault, Login, Replace, Logout, Answer
    <3>2. sessions' = [sessions EXCEPT ![s].user = TRUE]
        BY <1>1, <1>3, <2>1, <3>1 DEF SetUser
    <3>3. sessions[s] \in SessionType
        BY MadeIsNat DEF IInv
    <3>4. sessions'[s].user
        BY <3>2, <3>3 DEF Made, SessionType
    <3> QED BY <3>4
  <2>2. CASE request[t].pc = "replace"
    <3>1. Replace(t)
        BY <2>2 DEF Setup, Run, Arrive, Lookup, ReadClock, Check, Drop, Refresh, Connect,
                    ConnectDefault, SetUser, Login, Logout, Answer
    <3>2. request'[t] = [request[t] EXCEPT !.pc = "user", !.session = request[t].entry, !.entry = 0]
        BY <3>1 DEF Replace, Goes, IInv
    <3>3. request[t] \in RequestType
        BY DEF IInv
    <3>4. request'[t].pc = "user" /\ request'[t].session = s
        BY <1>1, <1>3, <2>2, <3>2, <3>3 DEF RequestType
    <3> QED BY <3>4 DEF OnTheWay
  <2> QED BY <1>1, <1>3, <2>1, <2>2
<1> QED BY <1>2, <1>3

\* Nothing takes the user of a session away.
LEMMA UserStays ==
    ASSUME IInv, NEW t \in Threads, Setup(t) \/ Run(t), NEW s \in Made, sessions[s].user
    PROVE  sessions'[s].user
<1>1. s \in 1 .. Len(sessions) /\ Len(sessions) \in Nat /\ sessions \in Seq(SessionType)
      /\ sessions[s] \in SessionType /\ sessions[s].user
    BY MadeIsNat DEF IInv, StateInv
<1>2. CASE sessions' = sessions
    BY <1>2
<1>3. ASSUME NEW ip, NEW key, New(ip, key) PROVE sessions'[s] = sessions[s]
    BY <1>1, <1>3 DEF New
<1>4. CASE Refresh(t)
  <2>1. sessions' = [sessions EXCEPT ![request[t].entry].lastUse = request[t].now]
      BY <1>4 DEF Refresh
  <2> QED BY <1>1, <2>1 DEF SessionType
<1>5. CASE SetUser(t)
  <2>1. sessions' = [sessions EXCEPT ![request[t].session].user = TRUE]
      BY <1>5 DEF SetUser
  <2> QED BY <1>1, <2>1 DEF SessionType
<1> QED BY <1>1, <1>2, <1>3, <1>4, <1>5
        DEF Setup, Run, Arrive, Lookup, ReadClock, Check, Drop, Connect, ConnectDefault, Login,
            Replace, Logout, Answer

\* A session that a step makes is in the hands of its thread.
LEMMA MadeOnTheWay ==
    ASSUME IInv, NEW t \in Threads, Setup(t) \/ Run(t), NEW s \in Made' \ Made
    PROVE  OnTheWay(s)'
<1>1. CASE sessions' = sessions
    BY <1>1 DEF Made
<1>2. ASSUME NEW ip, NEW key, New(ip, key)
      PROVE  s = Len(sessions) + 1
  <2>1. Len(sessions') = Len(sessions) + 1 /\ Made' = 1 .. Len(sessions) + 1
      BY <1>2, MadeIsNat DEF New, IInv, StateInv, Made
  <2> QED BY <2>1, MadeIsNat DEF IInv
<1>3. request[t] \in RequestType /\ (\A q : Goes(t, q) => request'[t] = q)
    BY DEF IInv, Goes
<1>4. CASE Connect(t) \/ (AutoLogin /\ ConnectDefault(t))
  <2>1. s = Len(sessions) + 1
      BY <1>2, <1>4 DEF Connect, ConnectDefault
  <2>2. request'[t].pc = "user" /\ request'[t].session = Len(sessions) + 1
      BY <1>3, <1>4 DEF Connect, ConnectDefault, RequestType
  <2> QED BY <2>1, <2>2 DEF OnTheWay
<1>5. CASE Login(t)
  <2>1. s = Len(sessions) + 1
      BY <1>2, <1>5 DEF Login
  <2>2. request'[t].pc = "replace" /\ request'[t].entry = Len(sessions) + 1
      BY <1>3, <1>5 DEF Login, RequestType
  <2> QED BY <2>1, <2>2 DEF OnTheWay
<1>6. CASE Refresh(t) \/ SetUser(t)
    BY <1>6 DEF Refresh, SetUser, Made
<1> QED BY <1>1, <1>4, <1>5, <1>6
        DEF Setup, Run, Arrive, Lookup, ReadClock, Check, Drop, Connect, ConnectDefault, Login,
            Replace, Logout, Answer

\* Other requests find a session before it has its user, but only while a thread is on the way
\* to set it, whatever the requests do.
THEOREM UsersArrive == Spec => []UsersAreOnTheirWay
<1>1. Init => UsersInv
    BY DEF Init, UsersInv, Made
<1>2. IInv /\ IInv' /\ UsersInv /\ [Next]_vars => UsersInv'
  <2> SUFFICES ASSUME IInv, IInv', UsersInv, [Next]_vars, NEW s \in Made', ~sessions'[s].user
               PROVE  OnTheWay(s)'
      BY DEF UsersInv
  <2>1. CASE Tick \/ UNCHANGED vars
      BY <2>1 DEF Tick, vars, UsersInv, OnTheWay, Made
  <2>2. ASSUME NEW t \in Threads, Setup(t) \/ Run(t) PROVE OnTheWay(s)'
    <3>1. CASE s \notin Made
        BY <2>2, <3>1, MadeOnTheWay
    <3>2. CASE s \in Made
      <4>1. ~sessions[s].user
          BY <2>2, <3>2, UserStays
      <4> QED BY <2>2, <3>2, <4>1, StaysOnTheWay DEF UsersInv
    <3> QED BY <3>1, <3>2
  <2> QED BY <2>1, <2>2 DEF Next
<1>3. IInv /\ UsersInv => UsersAreOnTheirWay
    BY DEF IInv, StateInv, MapInv, UsersInv, OnTheWay, UsersAreOnTheirWay
<1> QED BY <1>1, <1>2, <1>3, Invariance, PTL DEF Spec

\* What is removed from the map under a random key is the session of that key.
LEMMA Removed ==
    ASSUME IInv, NEW s \in Made, Remove(s), NEW k \in Keys \ Logins, map[k] # 0, map'[k] = 0
    PROVE  s = map[k]
<1>1. map' = [map EXCEPT ![sessions[s].key] = 0] /\ map \in [Keys -> Nat]
    BY DEF Remove, IInv, StateInv, MapInv
<1>2. sessions[s].key = k
    BY <1>1
<1>3. s = k
    BY <1>2 DEF IInv, StateInv, KeysOwn
<1>4. map[k] \in Made /\ sessions[map[k]].key = k
    BY DEF IInv, StateInv, MapInv
<1>5. map[k] = k
    BY <1>4 DEF IInv, StateInv, KeysOwn
<1> QED BY <1>3, <1>5

\* Sessions are removed by key, but a random key only stands for the session that the thread
\* holds, or has found too old.
THEOREM RandomKeysAreOwn == Spec => OthersDoNotRemove
<1> DEFINE Own(k, t) ==
               \/ request[t].session = map[k] /\ request[t].pc \in {"replace", "run"}
               \/ request[t].entry = map[k] /\ request[t].pc = "drop"
           Careful == \A k \in Keys \ Logins : map[k] # 0 /\ map'[k] = 0 => \E t \in Threads : Own(k, t)
<1>1. IInv /\ [Next]_vars => [Careful]_vars
  <2> SUFFICES ASSUME IInv, [Next]_vars, NEW k \in Keys \ Logins, map[k] # 0, map'[k] = 0
               PROVE  \E t \in Threads : Own(k, t)
      OBVIOUS
  <2>1. map \in [Keys -> Nat] /\ map' # map
      BY DEF IInv, StateInv, MapInv
  <2>2. \A ip, key : ~New(ip, key)
    <3>1. Len(sessions) + 1 # 0
        BY MadeIsNat DEF IInv
    <3> QED BY <2>1, <3>1 DEF New
  <2>3. PICK t \in Threads : Drop(t) \/ Replace(t) \/ Logout(t)
      BY <2>1, <2>2 DEF Next, Tick, vars, Setup, Run, Arrive, Lookup, ReadClock, Check, Refresh,
                        Connect, ConnectDefault, SetUser, Login, Answer
  <2>4. RequestInv(request[t])
      BY DEF IInv
  <2>5. CASE Drop(t)
      BY <2>4, <2>5, Removed DEF Drop, RequestInv
  <2>6. CASE Replace(t) \/ Logout(t)
    <3>1. Leave(request[t].session) /\ request[t].pc \in {"replace", "run"}
        BY <2>6 DEF Replace, Logout
    <3>2. request[t].session \in Made /\ Remove(request[t].session)
        BY <2>1, <2>4, <3>1 DEF Leave, RequestInv
    <3> QED BY <3>1, <3>2, Removed
  <2> QED BY <2>3, <2>5, <2>6
<1> QED BY <1>1, Invariance, PTL DEF Spec, OthersDoNotRemove
=============================================================================
