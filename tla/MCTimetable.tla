---------------------------- MODULE MCTimetable -----------------------------
(***************************************************************************)
(* Instances of Timetable for TLC: days of six hours of two units, of      *)
(* which the first two are the end of the night.                           *)
(***************************************************************************)
EXTENDS Timetable, TLC

\* A morning service, a noon service, and one that leaves before the noon service and passes
\* at the edge after midnight.
FewTimings == {[first |-> 4, leg |-> 1, rest |-> 1],
               [first |-> 8, leg |-> 0, rest |-> 1],
               [first |-> 7, leg |-> 6, rest |-> 1]}

FewCalendars == {{1, 2}}

\* Over two days without real time data, from the night on or backwards to the night; over
\* what is left of the service day with them.
FewSearches == {[dir |-> "next", from |-> 25, limit |-> 38, enabled |-> FALSE],
                [dir |-> "previous", from |-> 29, limit |-> 19, enabled |-> FALSE],
                [dir |-> "next", from |-> 17, limit |-> 25, enabled |-> TRUE]}

\* With real time data, from this evening to tomorrow.
TomorrowSearches == {[dir |-> "next", from |-> 20, limit |-> 33, enabled |-> TRUE]}

\* The last service of the day, planned to arrive just before midnight, on one day, and
\* a search from midnight on that is to find it when it is late.
LastTimings == {[first |-> 9, leg |-> 1, rest |-> 1]}
OneDay == {{1}}
NightSearches == {[dir |-> "next", from |-> 24, limit |-> 25, enabled |-> TRUE]}

ServiceAndThreadSymmetry == Permutations(Services) \cup Permutations(Threads)
=============================================================================
