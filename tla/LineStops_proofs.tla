-------------------------- MODULE LineStops_proofs --------------------------
(***************************************************************************)
(* For any stops, threads and operations: the pointers of a path are right *)
(* in every reachable state, and a search by offset finds the first edge;  *)
(* what memory holds of a row that is not astray is the row, or will be    *)
(* once the events have come; insertions that do not overlap lose nothing. *)
(***************************************************************************)
EXTENDS LineStops, PathLinks_proofs

\* A stop that is not in the path has the pointers it was created with: this is what
\* makes it safe to add it to an empty path, where addEdge sets none.
OutsideAlone == \A s \in Stops \ path.edges : Alone(path, s)

\* What an operation will write is a row, of a stop.
OperationsHaveRows ==
    \A t \in Threads : op[t] = NoOp \/ (op[t].stop \in Stops /\ op[t].row \in Row)

\* No operation runs before the first synchronization has loaded every row.
UnloadedRows ==
    /\ unloaded \subseteq Present
    /\ unloaded # {} => \A t \in Threads : op[t] = NoOp

IInv == TypeOK /\ LinksFollowThePath /\ OutsideAlone /\ OperationsHaveRows /\ UnloadedRows

LEMMA NoRowIsNoRow == NoRow \notin Row
<1>1. ASSUME NoRow \in Row PROVE FALSE
  <2>1. NoRow.traits \in Kinds
      BY <1>1 DEF Row
  <2>2. {"none"} \subseteq Traits
      BY <2>1, KindsAssumption DEF NoRow
  <2> QED BY <2>2 DEF Traits
<1> QED BY <1>1

LEMMA PresentRow ==
    ASSUME TypeOK, NEW s \in Present
    PROVE  s \in Stops /\ rows[s] \in Row /\ RankOf(s) \in Nat
BY DEF TypeOK, Present, RankOf, Row

-----------------------------------------------------------------------------
(* The path of memory. *)

\* The only edge of a path points to nothing.
LEMMA AloneInPath ==
    ASSUME NEW p \in PathType, LinksOK(p), NEW x, p.edges = {x}
    PROVE  Alone(p, x)
<1>1. NeighboursOK(p) /\ ChainsOK(p) /\ x \in Edges
    BY DEF LinksOK, PathType
<1>2. \A c \in Chains : ~Precedes(p, c, x, x)
    BY <1>1, PathTyped, PrecedesIsAnOrder DEF Typed
<1> QED BY <1>1, <1>2 DEF NeighboursOK, ChainsOK, IsFirst, Alone, Chains, Forward

\* What removeEdge leaves, the stop that it removes apart.
LEMMA RemovedPath ==
    ASSUME NEW p \in PathType, LinksOK(p), NEW s \in Stops,
           \A x \in Stops \ (p.edges \cup {s}) : Alone(p, x)
    PROVE  LET r == RemoveEdge(p, s)
           IN  /\ r \in PathType /\ LinksOK(r)
               /\ r.edges \subseteq p.edges \ {s}
               /\ \A x \in Stops \ (r.edges \cup {s}) : Alone(r, x)
               /\ r.edges = {} /\ (s \in p.edges \/ Alone(p, s)) => Alone(r, s)
<1> DEFINE r == RemoveEdge(p, s)
<1>1. r \in PathType /\ LinksOK(r)
    BY RemoveEdgeFields, RemoveEdgeLinks DEF Stops
<1>0. IF (\E x \in Edges : p.edges = {x}) \/ s \notin p.edges
      THEN r.edges = IF \E x \in Edges : p.edges = {x} THEN {} ELSE p.edges
      ELSE r.edges = p.edges \ {s}
    BY RemoveEdgeFields DEF Stops
<1>2. r.edges \subseteq p.edges \ {s}
  <2> HIDE DEF r
  <2>1. CASE \E x \in Edges : p.edges = {x}
      BY <1>0, <2>1
  <2>2. CASE ~(\E x \in Edges : p.edges = {x}) /\ s \notin p.edges
      BY <1>0, <2>2
  <2>3. CASE ~(\E x \in Edges : p.edges = {x}) /\ s \in p.edges
      BY <1>0, <2>3
  <2> QED BY <2>1, <2>2, <2>3
<1>3. \A x \in Stops \ (r.edges \cup {s}) : Alone(r, x)
  <2>1. SUFFICES ASSUME NEW x \in Stops \ r.edges, x # s PROVE Alone(r, x)
      OBVIOUS
  <2>2. CASE (\E y \in Edges : p.edges = {y}) \/ s \notin p.edges
    <3>1. r.previous = p.previous /\ r.next = p.next /\ r.chain = p.chain
        BY <2>2, RemoveEdgeFields DEF Stops
    <3>2. CASE x \notin p.edges
        BY <3>1, <3>2, <2>1 DEF Alone
    <3>3. CASE x \in p.edges
      <4>1. p.edges = {x}
        <5>1. \E y \in Edges : p.edges = {y}
            BY <2>2, <3>3, <2>1, <1>0
        <5> QED BY <5>1, <3>3
      <4> QED BY <4>1, <3>1, AloneInPath DEF Alone
    <3> QED BY <3>2, <3>3
  <2>3. CASE ~(\E y \in Edges : p.edges = {y}) /\ s \in p.edges
    <3>1. x \notin p.edges /\ Alone(p, x)
        BY <1>0, <2>1, <2>3
    <3>2. /\ r.previous = [z \in Edges |-> IF z = p.next[s] THEN p.previous[s] ELSE p.previous[z]]
          /\ r.next = [z \in Edges |-> IF z = p.previous[s] THEN p.next[s] ELSE p.next[z]]
          /\ r.chain = [c \in Chains |->
                Unlinked(p, c, s, IF c \in Forward THEN p.previous[s] ELSE p.next[s])]
        BY <2>3, RemoveEdgeFields DEF Stops
    <3>3. p.next[s] \in p.edges \cup {NoEdge} /\ p.previous[s] \in p.edges \cup {NoEdge}
        BY <2>3 DEF LinksOK, NeighboursOK, IsFirst
    <3>4. x # p.next[s] /\ x # p.previous[s] /\ x \in Edges
        BY <3>1, <3>3, NoEdgeAssumption DEF Stops
    <3>5. r.previous[x] = NoEdge /\ r.next[x] = NoEdge
        BY <3>1, <3>2, <3>4 DEF Alone
    <3>6. ASSUME NEW c \in Chains PROVE r.chain[c][x] = NoEdge
      <4>1. \A near : Unlinked(p, c, s, near)[x] = p.chain[c][x]
          BY <3>1, <3>4 DEF Unlinked, Walk
      <4> QED BY <4>1, <3>1, <3>2 DEF Alone
    <3> QED BY <3>5, <3>6 DEF Alone
  <2> QED BY <2>2, <2>3
<1>4. ASSUME r.edges = {}, s \in p.edges \/ Alone(p, s) PROVE Alone(r, s)
  <2>1. (\E y \in Edges : p.edges = {y}) \/ s \notin p.edges
    <3>1. SUFFICES ASSUME ~(\E y \in Edges : p.edges = {y}), s \in p.edges PROVE FALSE
        OBVIOUS
    <3>2. p.edges = {s} /\ s \in Edges
        BY <1>0, <1>4, <3>1 DEF Stops
    <3> QED BY <3>1, <3>2
  <2>2. r.previous = p.previous /\ r.next = p.next /\ r.chain = p.chain
      BY <2>1, RemoveEdgeFields DEF Stops
  <2>3. CASE s \notin p.edges
      BY <1>4, <2>2, <2>3 DEF Alone
  <2>4. CASE s \in p.edges
    <3>1. p.edges = {s}
        BY <2>1, <2>4
    <3> QED BY <2>2, <2>4, <3>1, AloneInPath DEF Alone
  <2> QED BY <2>3, <2>4
<1> QED BY <1>1, <1>2, <1>3, <1>4 DEF r

LEMMA DestroyedPath ==
    ASSUME NEW p \in PathType, LinksOK(p), NEW s \in Stops,
           \A x \in Stops \ (p.edges \cup {s}) : Alone(p, x)
    PROVE  /\ Destroyed(p, s) \in PathType
           /\ LinksOK(Destroyed(p, s))
           /\ Destroyed(p, s).edges \subseteq p.edges \ {s}
           /\ \A x \in Stops \ Destroyed(p, s).edges : Alone(Destroyed(p, s), x)
<1> DEFINE r == RemoveEdge(p, s)
           d == Destroyed(p, s)
<1>1. /\ r \in PathType /\ LinksOK(r)
      /\ r.edges \subseteq p.edges \ {s}
      /\ \A x \in Stops \ (r.edges \cup {s}) : Alone(r, x)
    BY RemovedPath
<1> DEFINE pr == [r.previous EXCEPT ![s] = NoEdge]
           nx == [r.next EXCEPT ![s] = NoEdge]
           ch == [c \in Chains |-> [r.chain[c] EXCEPT ![s] = NoEdge]]
<1>4. pr \in Pointers /\ nx \in Pointers /\ ch \in [Chains -> Pointers]
    BY <1>1 DEF PathType, Pointers
<1> HIDE DEF r
<1>5. d = [r EXCEPT !.previous = pr, !.next = nx, !.chain = ch]
    BY <1>1 DEF Destroyed, r, PathType
<1>6. /\ d \in PathType /\ d.edges = r.edges /\ d.rank = r.rank /\ d.traits = r.traits
      /\ d.previous = pr /\ d.next = nx /\ d.chain = ch
  <2> HIDE DEF pr, nx, ch, d
  <2> QED BY <1>1, <1>4, <1>5 DEF PathType
<1>7. \A x \in d.edges : /\ d.previous[x] = r.previous[x] /\ d.next[x] = r.next[x]
                         /\ \A c \in Chains : d.chain[c][x] = r.chain[c][x]
  <2>1. \A x \in d.edges : x # s /\ x \in Edges
      BY <1>1, <1>6 DEF PathType
  <2> HIDE DEF d
  <2> QED BY <2>1, <1>1, <1>6 DEF PathType, Pointers
<1>8. LinksOK(d)
  <2> HIDE DEF d
  <2> QED BY <1>1, <1>6, <1>7 DEF LinksOK, DistinctRanks, NeighboursOK, ChainsOK, IsFirst, Precedes,
                                Target
<1>9. \A x \in Stops \ d.edges : Alone(d, x)
  <2> HIDE DEF d
  <2>1. Alone(d, s)
      BY <1>1, <1>6 DEF Alone, PathType, Pointers, Stops
  <2>2. ASSUME NEW x \in Stops \ d.edges, x # s PROVE Alone(d, x)
      BY <2>2, <1>1, <1>6 DEF Alone, PathType, Pointers, Stops
  <2> QED BY <2>1, <2>2
<1> QED BY <1>1, <1>6, <1>8, <1>9

LEMMA WithRowPath ==
    ASSUME TypeOK, NEW s \in Present, NEW p \in PathType, LinksOK(p), s \notin p.edges,
           \A x \in Stops \ (p.edges \cup {s}) : Alone(p, x)
    PROVE  LET w == WithRow(p, s)
           IN  /\ w \in PathType /\ LinksOK(w) /\ w.edges = p.edges
               /\ w.previous = p.previous /\ w.next = p.next /\ w.chain = p.chain
               /\ \A x \in Stops \ (w.edges \cup {s}) : Alone(w, x)
<1> DEFINE w == WithRow(p, s)
           rk == [p.rank EXCEPT ![s] = RankOf(s)]
           tr == [p.traits EXCEPT ![s] = rows[s].traits]
<1>1. RankOf(s) \in Nat /\ rows[s].traits \in SUBSET Traits
    BY PresentRow, KindsAssumption DEF Row
<1>2. rk \in [Edges -> Nat] /\ tr \in [Edges -> SUBSET Traits]
    BY <1>1 DEF PathType
<1>3. w = [p EXCEPT !.rank = rk, !.traits = tr]
    BY DEF WithRow, PathType
<1>4. \A x \in p.edges : rk[x] = p.rank[x] /\ tr[x] = p.traits[x]
    BY DEF PathType
<1> HIDE DEF rk, tr, w
<1>5. /\ w \in PathType /\ w.edges = p.edges /\ w.rank = rk /\ w.traits = tr
      /\ w.previous = p.previous /\ w.next = p.next /\ w.chain = p.chain
    BY <1>2, <1>3 DEF PathType
<1>6. DistinctRanks(w)
    BY <1>4, <1>5 DEF LinksOK, DistinctRanks
<1>7. \A c, a, b : a \in p.edges /\ b \in p.edges => Precedes(w, c, a, b) = Precedes(p, c, a, b)
    BY <1>4, <1>5 DEF Precedes
<1>8. NeighboursOK(w)
    BY <1>5, <1>7 DEF LinksOK, NeighboursOK, IsFirst
<1>9. \A c : {y \in w.edges : Target(w, y, c)} = {y \in p.edges : Target(p, y, c)}
    BY <1>4, <1>5 DEF Target
<1>10. ChainsOK(w)
  <2>1. SUFFICES ASSUME NEW e \in p.edges, NEW c \in Chains
                 PROVE  IsFirst(w, c, e, p.chain[c][e], {y \in p.edges : Target(p, y, c)})
      BY <1>5, <1>9 DEF ChainsOK
  <2>2. IsFirst(p, c, e, p.chain[c][e], {y \in p.edges : Target(p, y, c)})
      BY DEF LinksOK, ChainsOK
  <2> QED BY <2>2, <1>7 DEF IsFirst
<1>11. \A x \in Stops \ (w.edges \cup {s}) : Alone(w, x)
    BY <1>5 DEF Alone
<1> QED BY <1>5, <1>6, <1>8, <1>10, <1>11 DEF LinksOK, w

LEMMA AddedPath ==
    ASSUME NEW p \in PathType, LinksOK(p), NEW s \in Stops \ p.edges, ~RankTaken(p, s),
           p.edges = {} => Alone(p, s),
           \A x \in Stops \ (p.edges \cup {s}) : Alone(p, x)
    PROVE  /\ LinksOK(AddEdge(p, s))
           /\ \A x \in Stops \ AddEdge(p, s).edges : Alone(AddEdge(p, s), x)
<1> DEFINE q == AddEdge(p, s)
           prev == EdgeBefore(p, p.rank[s])
           next == EdgeAfter(p, p.rank[s])
<1>1. LinksOK(q)
    BY AddEdgeLinks DEF Stops
<1>2. ASSUME NEW x \in Stops \ q.edges PROVE Alone(q, x)
  <2>1. q.edges = p.edges \cup {s} /\ x \in Edges
      BY AddEdgeFields DEF Stops
  <2>2. Alone(p, x) /\ x # s /\ x \notin p.edges
      BY <1>2, <2>1
  <2>3. CASE prev = NoEdge /\ next = NoEdge
    <3>1. q.previous = p.previous /\ q.next = p.next /\ q.chain = p.chain
        BY <2>3, AddEdgeFields DEF Stops
    <3> QED BY <2>2, <3>1 DEF Alone
  <2>4. CASE ~(prev = NoEdge /\ next = NoEdge)
    <3>1. /\ q.previous = [y \in Edges |-> IF y = s THEN prev
                                   ELSE IF y = next THEN s ELSE p.previous[y]]
          /\ q.next = [y \in Edges |-> IF y = s THEN next
                                   ELSE IF y = prev THEN s ELSE p.next[y]]
          /\ q.chain = [c \in Chains |-> IF c \in Forward
                                   THEN Linked(p, c, s, prev, next)
                                   ELSE Linked(p, c, s, next, prev)]
        BY <2>4, AddEdgeFields DEF Stops
    <3>2. prev \in p.edges \cup {NoEdge} /\ next \in p.edges \cup {NoEdge}
      <4>1. Typed(p) /\ p.rank[s] \in Nat
          BY PathTyped DEF PathType, Stops
      <4> QED BY <4>1, EdgeBeforeProperties, EdgeAfterProperties DEF Before, After
    <3>3. x # prev /\ x # next
        BY <2>1, <2>2, <3>2, NoEdgeAssumption
    <3> HIDE DEF prev, next, q
    <3>4. q.previous[x] = NoEdge /\ q.next[x] = NoEdge
        BY <2>1, <2>2, <3>1, <3>3 DEF Alone
    <3>5. ASSUME NEW c \in Chains, NEW near, NEW far, x # near
          PROVE  Linked(p, c, s, near, far)[x] = NoEdge
      <4>1. p.chain[c] \in [Edges -> Edges \cup {NoEdge}] /\ p.chain[c][x] = NoEdge
          BY <2>2 DEF Alone, PathType, Pointers
      <4> QED BY <2>1, <2>2, <4>1 DEF Linked, Walk
    <3>6. \A c \in Chains : q.chain[c][x] = NoEdge
        BY <3>1, <3>3, <3>5
    <3> QED BY <3>4, <3>6 DEF Alone
  <2> QED BY <2>3, <2>4
<1> QED BY <1>1, <1>2

LEMMA ReloadPath ==
    ASSUME IInv, NEW s \in Present, Reload(s)
    PROVE  /\ path' \in PathType /\ LinksFollowThePath' /\ OutsideAlone'
           /\ path'.edges \subseteq registered' /\ registered' \subseteq Stops
           /\ astray' \subseteq Stops
<1> DEFINE unlinked == IF s \in registered THEN RemoveEdge(path, s) ELSE path
           loaded == WithRow(unlinked, s)
           dropped == RankTaken(loaded, s)
           new == IF dropped THEN Destroyed(loaded, s) ELSE AddEdge(loaded, s)
<1>1. /\ path \in PathType /\ LinksOK(path) /\ path.edges \subseteq registered
      /\ registered \subseteq Stops /\ astray \subseteq Stops /\ s \in Stops
      /\ \A x \in Stops \ path.edges : Alone(path, x)
    BY DEF IInv, TypeOK, LinksFollowThePath, OutsideAlone, Present
<1>2. /\ unlinked \in PathType /\ LinksOK(unlinked)
      /\ unlinked.edges \subseteq path.edges \ {s}
      /\ \A x \in Stops \ (unlinked.edges \cup {s}) : Alone(unlinked, x)
      /\ unlinked.edges = {} => Alone(unlinked, s)
  <2>1. CASE s \in registered
    <3>1. unlinked = RemoveEdge(path, s)
        BY <2>1
    <3> QED BY <1>1, <3>1, RemovedPath
  <2>2. CASE s \notin registered
      BY <1>1, <2>2
  <2> QED BY <2>1, <2>2
<1> HIDE DEF unlinked
<1>3. /\ loaded \in PathType /\ LinksOK(loaded) /\ loaded.edges = unlinked.edges
      /\ loaded.previous = unlinked.previous /\ loaded.next = unlinked.next
      /\ loaded.chain = unlinked.chain
      /\ \A x \in Stops \ (loaded.edges \cup {s}) : Alone(loaded, x)
  <2>1. s \notin unlinked.edges /\ TypeOK
      BY <1>2 DEF IInv
  <2> QED BY <2>1, <1>2, WithRowPath
<1>4. loaded.edges = {} => Alone(loaded, s)
    BY <1>2, <1>3 DEF Alone
<1> HIDE DEF loaded, dropped
<1>5. path' = new /\ registered' = (IF dropped THEN registered \ {s} ELSE registered \cup {s})
      /\ astray' = Thrown(new, s) \cup (IF dropped THEN astray \cup {s} ELSE astray \ {s})
    BY DEF Reload, unlinked, loaded, dropped
<1>6. astray' \subseteq Stops
  <2>1. path.edges \subseteq Stops
      BY <1>1
  <2> HIDE DEF new
  <2> QED BY <1>1, <1>5, <2>1 DEF Thrown
<1>7. CASE dropped
  <2>1. /\ Destroyed(loaded, s) \in PathType
        /\ LinksOK(Destroyed(loaded, s))
        /\ Destroyed(loaded, s).edges \subseteq loaded.edges \ {s}
        /\ \A x \in Stops \ Destroyed(loaded, s).edges : Alone(Destroyed(loaded, s), x)
      BY <1>1, <1>3, DestroyedPath
  <2>2. path' = Destroyed(loaded, s)
      BY <1>5, <1>7
  <2> QED BY <1>1, <1>2, <1>3, <1>5, <1>6, <1>7, <2>1, <2>2 DEF LinksFollowThePath, OutsideAlone
<1>8. CASE ~dropped
  <2>1. path' = AddEdge(loaded, s) /\ ~RankTaken(loaded, s)
      BY <1>5, <1>8 DEF dropped
  <2>2. path' \in PathType /\ path'.edges = loaded.edges \cup {s}
      BY <1>1, <1>3, <2>1, AddEdgeFields DEF Stops
  <2>3. LinksOK(path') /\ \A x \in Stops \ path'.edges : Alone(path', x)
      BY <1>1, <1>2, <1>3, <1>4, <2>1, AddedPath
  <2> QED BY <1>1, <1>2, <1>3, <1>5, <1>6, <1>8, <2>2, <2>3 DEF LinksFollowThePath, OutsideAlone
<1> QED BY <1>7, <1>8

LEMMA UnloadPath ==
    ASSUME IInv, NEW s \in Stops, Unload(s)
    PROVE  /\ path' \in PathType /\ LinksFollowThePath' /\ OutsideAlone'
           /\ path'.edges \subseteq registered' /\ registered' \subseteq Stops
           /\ astray' \subseteq Stops
<1> DEFINE r == RemoveEdge(path, s)
           new == Destroyed(r, s)
<1>1. /\ path \in PathType /\ LinksOK(path) /\ path.edges \subseteq registered
      /\ registered \subseteq Stops /\ astray \subseteq Stops
      /\ \A x \in Stops \ path.edges : Alone(path, x)
    BY DEF IInv, TypeOK, LinksFollowThePath, OutsideAlone
<1>2. /\ r \in PathType /\ LinksOK(r) /\ r.edges \subseteq path.edges \ {s}
      /\ \A x \in Stops \ (r.edges \cup {s}) : Alone(r, x)
    BY <1>1, RemovedPath
<1> HIDE DEF r
<1>3. /\ new \in PathType /\ LinksOK(new) /\ new.edges \subseteq r.edges \ {s}
      /\ \A x \in Stops \ new.edges : Alone(new, x)
    BY <1>2, DestroyedPath
<1>4. /\ path' = new /\ registered' = registered \ {s}
      /\ astray' = Thrown(new, s) \cup (IF s \in Present THEN astray \cup {s} ELSE astray \ {s})
    BY DEF Unload, r
<1> HIDE DEF new
<1>5. path.edges \subseteq Stops
    BY <1>1
<1> QED BY <1>1, <1>2, <1>3, <1>4, <1>5 DEF LinksFollowThePath, OutsideAlone, Thrown

-----------------------------------------------------------------------------
(* Rows, operations and events. *)

LEMMA EventType ==
    /\ \A S \in SUBSET Stops : /\ [kind |-> "insert", stops |-> S] \in Event
                             /\ [kind |-> "update", stops |-> S] \in Event
                             /\ [kind |-> "delete", stops |-> S] \in Event
    /\ NoOp \in Operation
BY DEF Event, NoOp, Operation

LEMMA SingleEvent ==
    ASSUME NEW kind \in {"insert", "update", "delete"}, NEW s \in Stops
    PROVE  <<[kind |-> kind, stops |-> {s}]>> \in Seq(Event)
<1> DEFINE e == [kind |-> kind, stops |-> {s}]
<1>1. e \in Event
    BY DEF Event
<1> HIDE DEF e
<1>2. <<e>> \in Seq(Event)
    BY <1>1
<1> QED BY <1>2 DEF e

\* What Start leaves alone, and the type of what it changes.
LEMMA StartType ==
    ASSUME IInv, NEW t \in Threads, NEW o \in Operation, Start(t, o),
           o.kind \in {"insertion", "removal", "update"}, o.stop \in Stops, o.row \in Row
    PROVE  IInv'
<1>1. op' \in [Threads -> Operation] /\ UNCHANGED <<rows, registered, path, pending, unloaded, astray>>
    BY DEF IInv, TypeOK, Start
<1>2. past' \in [started : Nat, kinds : SUBSET {"insertion", "removal", "update"}, overlap : BOOLEAN]
  <2>1. /\ past.started \in Nat /\ past.overlap \in BOOLEAN
        /\ past.kinds \in SUBSET {"insertion", "removal", "update"}
      BY DEF IInv, TypeOK
  <2>2. PICK b \in BOOLEAN : b = (past.overlap \/ \E u \in Threads : ~Idle(u))
      OBVIOUS
  <2>3. past' = [started |-> past.started + 1, kinds |-> past.kinds \cup {o.kind}, overlap |-> b]
      BY <2>2 DEF Start
  <2> QED BY <2>1, <2>3
<1>3. OperationsHaveRows'
    BY DEF IInv, TypeOK, OperationsHaveRows, Start
<1>4. UnloadedRows'
    BY <1>1 DEF IInv, UnloadedRows, Start, Present
<1> QED BY <1>1, <1>2, <1>3, <1>4 DEF IInv, TypeOK, LinksFollowThePath, OutsideAlone

LEMMA StartInsertionIInv ==
    ASSUME IInv, NEW t \in Threads, StartInsertion(t)
    PROVE  IInv'
<1>1. PICK s \in Stops \ Present, k \in Kinds, r \in 0 .. Cardinality(Present), last \in LastRanks :
        Start(t, [NoOp EXCEPT !.kind = "insertion", !.stop = s,
                              !.row = [rank |-> r, traits |-> k],
                              !.last = last, !.todo = r .. last])
    BY DEF StartInsertion
<1>2. last \in Nat \cup {NoRank}
    BY <1>1, PresentRow DEF LastRanks, IInv
<1> DEFINE row == [rank |-> r, traits |-> k]
           todo == r .. last
           o == [NoOp EXCEPT !.kind = "insertion", !.stop = s, !.row = row,
                             !.last = last, !.todo = todo]
<1>4. row \in Row
    BY DEF Row
<1>5. todo \in SUBSET Int
    BY <1>2 DEF NoRank
<1>6. o \in Operation /\ o.kind = "insertion" /\ o.stop \in Stops /\ o.row \in Row
  <2> HIDE DEF row, todo
  <2> QED BY <1>2, <1>4, <1>5, EventType DEF Operation, NoOp
<1> QED BY <1>1, <1>6, StartType

LEMMA StartRemovalIInv ==
    ASSUME IInv, NEW t \in Threads, StartRemoval(t)
    PROVE  IInv'
<1>1. PICK s \in Present :
        Start(t, [NoOp EXCEPT !.kind = "removal", !.stop = s, !.row = rows[s],
                              !.todo = {RankOf(s) + 1},
                              !.events = <<[kind |-> "delete", stops |-> {s}]>>])
    BY DEF StartRemoval
<1> DEFINE events == <<[kind |-> "delete", stops |-> {s}]>>
           todo == {RankOf(s) + 1}
           o == [NoOp EXCEPT !.kind = "removal", !.stop = s, !.row = rows[s], !.todo = todo,
                             !.events = events]
<1>2. s \in Stops /\ rows[s] \in Row /\ todo \in SUBSET Int
    BY PresentRow DEF IInv
<1>3. events \in Seq(Event)
    BY <1>2, SingleEvent
<1>4. o \in Operation /\ o.kind = "removal" /\ o.stop \in Stops /\ o.row \in Row
  <2> HIDE DEF events, todo
  <2> QED BY <1>2, <1>3 DEF Operation, NoOp
<1> QED BY <1>1, <1>4, StartType

LEMMA StartUpdateIInv ==
    ASSUME IInv, NEW t \in Threads, StartUpdate(t)
    PROVE  IInv'
<1>1. PICK s \in Present, k \in Kinds : \E x \in PreviousStops(s) :
        Start(t, [NoOp EXCEPT !.kind = "update", !.stop = s,
                              !.row = [rows[s] EXCEPT !.traits = k],
                              !.prev = x, !.prevRow = IF x = NoEdge THEN NoRow ELSE rows[x],
                              !.events = (IF x = NoEdge THEN <<>>
                                          ELSE <<[kind |-> "insert", stops |-> {x}]>>)
                                         \o <<[kind |-> "insert", stops |-> {s}]>>])
    BY DEF StartUpdate
<1>0. PICK x \in PreviousStops(s) :
        Start(t, [NoOp EXCEPT !.kind = "update", !.stop = s,
                              !.row = [rows[s] EXCEPT !.traits = k],
                              !.prev = x, !.prevRow = IF x = NoEdge THEN NoRow ELSE rows[x],
                              !.events = (IF x = NoEdge THEN <<>>
                                          ELSE <<[kind |-> "insert", stops |-> {x}]>>)
                                         \o <<[kind |-> "insert", stops |-> {s}]>>])
    BY <1>1
<1>2. x \in Present \cup {NoEdge}
    BY DEF PreviousStops
<1> DEFINE row == [rows[s] EXCEPT !.traits = k]
           prevRow == IF x = NoEdge THEN NoRow ELSE rows[x]
           first == IF x = NoEdge THEN <<>> ELSE <<[kind |-> "insert", stops |-> {x}]>>
           events == first \o <<[kind |-> "insert", stops |-> {s}]>>
           o == [NoOp EXCEPT !.kind = "update", !.stop = s, !.row = row, !.prev = x,
                             !.prevRow = prevRow, !.events = events]
<1>3. s \in Stops /\ row \in Row
    BY PresentRow DEF IInv, Row
<1>4. x \in Stops \cup {NoEdge} /\ prevRow \in Row \cup {NoRow}
    BY <1>2, PresentRow DEF IInv
<1>5. first \in Seq(Event)
  <2>1. CASE x = NoEdge
      BY <2>1
  <2>2. CASE x # NoEdge
      BY <2>2, <1>4, SingleEvent
  <2> QED BY <2>1, <2>2
<1>6. events \in Seq(Event)
  <2>1. <<[kind |-> "insert", stops |-> {s}]>> \in Seq(Event)
      BY <1>3, SingleEvent
  <2> HIDE DEF first
  <2> QED BY <1>5, <2>1
<1>7. o \in Operation /\ o.kind = "update" /\ o.stop \in Stops /\ o.row \in Row
  <2> HIDE DEF row, prevRow, events
  <2> QED BY <1>3, <1>4, <1>6 DEF Operation, NoOp
<1> QED BY <1>0, <1>3, <1>7, StartType

LEMMA SelectShiftedIInv ==
    ASSUME IInv, NEW t \in Threads, SelectShifted(t)
    PROVE  IInv'
<1> DEFINE o == op[t]
           r == NextShift(o.todo)
           hit == IF o.kind = "insertion" THEN Ranked(r) ELSE {s \in Present : RankOf(s) >= r}
           e == [kind |-> "update", stops |-> hit \ Told(o.events)]
<1>1. o \in Operation
    BY DEF IInv, TypeOK
<1>2. e \in Event
  <2>1. hit \subseteq Stops
      BY DEF Ranked, Present
  <2> HIDE DEF hit
  <2> QED BY <2>1, EventType
<1>3. /\ op' = [op EXCEPT ![t].todo = @ \ {r},
                         ![t].events = Append(@, [kind |-> "update", stops |-> hit \ Told(@)])]
      /\ UNCHANGED <<rows, registered, path, pending, unloaded, astray, past>>
    BY DEF SelectShifted
<1> HIDE DEF r, hit
<1>4. op' = [op EXCEPT ![t] = [o EXCEPT !.todo = @ \ {r}, !.events = Append(@, e)]]
    BY <1>1, <1>3 DEF IInv, TypeOK, Operation
<1>5. [o EXCEPT !.todo = @ \ {r}, !.events = Append(@, e)] \in Operation
  <2>1. o.todo \ {r} \in SUBSET Int /\ Append(o.events, e) \in Seq(Event)
      BY <1>1, <1>2 DEF Operation
  <2> HIDE DEF o, e
  <2> QED BY <1>1, <2>1 DEF Operation
<1> HIDE DEF o, e
<1>6. op' \in [Threads -> Operation]
    BY <1>4, <1>5 DEF IInv, TypeOK
<1>7. OperationsHaveRows'
  <2>1. op[t] # NoOp
      BY DEF SelectShifted, NoOp
  <2>2. op[t].row \in Row /\ op[t].stop \in Stops
      BY <2>1 DEF IInv, OperationsHaveRows
  <2>3. \A u \in Threads : op'[u] = op[u] \/ (op'[u].row \in Row /\ op'[u].stop \in Stops)
      BY <1>1, <1>4, <2>2 DEF IInv, TypeOK, Operation, o
  <2> QED BY <2>3 DEF IInv, OperationsHaveRows
<1>8. UnloadedRows'
  <2>1. unloaded = {}
      BY DEF SelectShifted, NoOp, IInv, UnloadedRows
  <2> QED BY <1>3, <2>1 DEF UnloadedRows
<1> QED BY <1>3, <1>6, <1>7, <1>8 DEF IInv, TypeOK, LinksFollowThePath, OutsideAlone

\* Shifting a rank down leaves it natural: the row is above one that has a rank.
LEMMA ResultType ==
    ASSUME TypeOK, NEW o \in Operation, o.row \in Row, o.prevRow \in Row \cup {NoRow}
    PROVE  ResultOf(o) \in [Stops -> Row \cup {NoRow}]
<1>1. \A s \in Stops : rows[s] \in Row \cup {NoRow}
    BY DEF TypeOK
<1>2. ASSUME NEW s \in Present PROVE Shifted(rows[s], 1) \in Row
    BY PresentRow DEF Shifted, Row
<1>3. ASSUME NEW s \in Present, RankOf(s) > o.row.rank PROVE Shifted(rows[s], -1) \in Row
  <2>1. o.row.rank \in Nat /\ RankOf(s) \in Nat /\ RankOf(s) = rows[s].rank /\ rows[s] \in Row
      BY PresentRow DEF Row, RankOf
  <2>2. rows[s].rank + (-1) \in Nat
      BY <2>1, <1>3
  <2> QED BY <2>1, <2>2 DEF Shifted, Row
<1> QED BY <1>1, <1>2, <1>3 DEF ResultOf

LEMMA CommitIInv ==
    ASSUME IInv, NEW t \in Threads, Commit(t)
    PROVE  IInv'
<1> DEFINE o == op[t]
           new == ResultOf(o)
<1>1. o \in Operation /\ o.row \in Row /\ o.stop \in Stops
    BY DEF IInv, TypeOK, OperationsHaveRows, Commit
<1>2. new \in [Stops -> Row \cup {NoRow}]
    BY <1>1, ResultType DEF IInv, Operation
<1>3. EventsOf(o) \in Seq(Event)
  <2>1. o.events \in Seq(Event) /\ o.stop \in Stops \cup {NoEdge}
      BY <1>1 DEF Operation
  <2>2. CASE o.kind = "insertion"
    <3>2. [kind |-> "insert", stops |-> {o.stop}] \in Event
        BY <1>1, EventType
    <3> QED BY <2>1, <2>2, <3>2 DEF EventsOf
  <2>3. CASE o.kind # "insertion"
      BY <2>1, <2>3 DEF EventsOf
  <2> QED BY <2>2, <2>3
<1>4. /\ rows' = new
      /\ pending' = [pending EXCEPT ![t] = EventsOf(o)]
      /\ op' = [op EXCEPT ![t] = NoOp]
      /\ astray' = astray \cup {s \in Stops : new[s] # rows[s] /\ s \notin Told(EventsOf(o))}
      /\ UNCHANGED <<registered, path, unloaded, past>>
    BY DEF Commit
<1> HIDE DEF new, o
<1>5. /\ rows' \in [Stops -> Row \cup {NoRow}]
      /\ pending' \in [Threads -> Seq(Event)]
      /\ op' \in [Threads -> Operation]
      /\ astray' \subseteq Stops
    BY <1>2, <1>3, <1>4, EventType DEF IInv, TypeOK
<1>6. OperationsHaveRows'
    BY <1>4 DEF IInv, TypeOK, OperationsHaveRows
<1>7. UnloadedRows'
  <2>1. unloaded = {}
      BY DEF Commit, IInv, UnloadedRows
  <2> QED BY <1>4, <2>1 DEF UnloadedRows
<1> QED BY <1>4, <1>5, <1>6, <1>7 DEF IInv, TypeOK, LinksFollowThePath, OutsideAlone

-----------------------------------------------------------------------------
(* Events. *)

LEMMA DispatchedType ==
    ASSUME TypeOK, NEW t \in Threads, NEW s \in Stops, Dispatched(t, s), pending[t] # <<>>
    PROVE  pending' \in [Threads -> Seq(Event)]
<1> DEFINE rest == [Head(pending[t]) EXCEPT !.stops = @ \ {s}]
           first == IF rest.stops = {} THEN <<>> ELSE <<rest>>
<1>1. Head(pending[t]) \in Event /\ Tail(pending[t]) \in Seq(Event)
    BY DEF TypeOK
<1>2. rest \in Event
    BY <1>1 DEF Event
<1> HIDE DEF rest
<1>3. first \in Seq(Event)
    BY <1>2
<1>4. pending' = [pending EXCEPT ![t] = first \o Tail(pending[t])]
    BY DEF Dispatched, rest
<1> HIDE DEF first
<1>5. first \o Tail(pending[t]) \in Seq(Event)
    BY <1>1, <1>3
<1> QED BY <1>4, <1>5 DEF TypeOK

\* An event is dispatched: the path stays as it is, or its stop is loaded or unloaded.
LEMMA DispatchIInv ==
    ASSUME IInv, NEW t \in Threads, NEW s \in Stops, NEW kind, Dispatches(t, kind, s),
           \/ s \in Present /\ Reload(s)
           \/ Unload(s)
           \/ UNCHANGED <<registered, path, astray>>
    PROVE  IInv'
<1>1. pending' \in [Threads -> Seq(Event)] /\ UNCHANGED <<rows, op, unloaded, past>>
    BY DispatchedType DEF Dispatches, IInv
<1>2. /\ path' \in PathType /\ LinksFollowThePath' /\ OutsideAlone'
      /\ path'.edges \subseteq registered' /\ registered' \subseteq Stops
      /\ astray' \subseteq Stops
  <2>1. CASE s \in Present /\ Reload(s)
      BY <2>1, ReloadPath
  <2>2. CASE Unload(s)
      BY <2>2, UnloadPath
  <2>3. CASE UNCHANGED <<registered, path, astray>>
      BY <2>3 DEF IInv, TypeOK, LinksFollowThePath, OutsideAlone
  <2> QED BY <2>1, <2>2, <2>3
<1> QED BY <1>1, <1>2 DEF IInv, TypeOK, OperationsHaveRows, UnloadedRows, Present

LEMMA FirstSyncIInv ==
    ASSUME IInv, FirstSync
    PROVE  IInv'
<1>1. PICK s \in unloaded : /\ unloaded' = unloaded \ {s}
                            /\ Reload(s)
                            /\ UNCHANGED <<rows, op, pending, past>>
    BY DEF FirstSync
<1>2. CASE s \in Present
  <2>1. /\ path' \in PathType /\ LinksFollowThePath' /\ OutsideAlone'
        /\ path'.edges \subseteq registered' /\ registered' \subseteq Stops
        /\ astray' \subseteq Stops
      BY <1>1, <1>2, ReloadPath
  <2> QED BY <1>1, <2>1 DEF IInv, TypeOK, OperationsHaveRows, UnloadedRows, Present
<1>3. s \in Present
    BY DEF IInv, UnloadedRows
<1> QED BY <1>2, <1>3

LEMMA InitIInv == Init => IInv
<1> SUFFICES ASSUME Init PROVE IInv
    OBVIOUS
<1>1. rows \in [Stops -> Row \cup {NoRow}]
  <2>1. \A s \in Stops : rows[s] \in [rank : 0 .. Cardinality(Stops) - 1, traits : Kinds] \cup {NoRow}
      BY DEF Init
  <2>2. [rank : 0 .. Cardinality(Stops) - 1, traits : Kinds] \subseteq Row
      BY DEF Row
  <2> QED BY <2>1, <2>2 DEF Init
<1>2. EmptyPath \in PathType
    BY DEF EmptyPath, PathType, Nowhere, Pointers, NoRank
<1>3. LinksOK(EmptyPath)
    BY DEF EmptyPath, LinksOK, DistinctRanks, NeighboursOK, ChainsOK
<1>4. \A s \in Stops : Alone(EmptyPath, s)
    BY DEF EmptyPath, Alone, Nowhere, Stops
<1>5. EmptyPath.edges = {}
    BY DEF EmptyPath
<1>6. unloaded = Present /\ Present \subseteq Stops
    BY DEF Init, Present
<1>7. TypeOK
    BY <1>1, <1>2, <1>5, <1>6, EventType DEF Init, TypeOK
<1> QED BY <1>3, <1>4, <1>6, <1>7 DEF Init, IInv, LinksFollowThePath, OutsideAlone,
          OperationsHaveRows, UnloadedRows

LEMMA NextIInv == IInv /\ [Next]_vars => IInv'
<1> SUFFICES ASSUME IInv, [Next]_vars PROVE IInv'
    OBVIOUS
<1>1. CASE FirstSync
    BY <1>1, FirstSyncIInv
<1>2. ASSUME NEW t \in Threads, Act(t) PROVE IInv'
    BY <1>2, StartInsertionIInv, StartRemovalIInv, StartUpdateIInv, SelectShiftedIInv, CommitIInv
       DEF Act
<1>3. ASSUME NEW t \in Threads, SkipEmpty(t) PROVE IInv'
  <2>1. pending' \in [Threads -> Seq(Event)]
      BY <1>3 DEF SkipEmpty, IInv, TypeOK
  <2> QED BY <1>3, <2>1 DEF SkipEmpty, IInv, TypeOK, LinksFollowThePath, OutsideAlone,
                           OperationsHaveRows, UnloadedRows, Present
<1>4. ASSUME NEW t \in Threads, DispatchInsert(t) PROVE IInv'
    BY <1>4, DispatchIInv DEF DispatchInsert
<1>5. ASSUME NEW t \in Threads, DispatchUpdate(t) PROVE IInv'
    BY <1>5, DispatchIInv DEF DispatchUpdate
<1>6. ASSUME NEW t \in Threads, DispatchDelete(t) PROVE IInv'
    BY <1>6, DispatchIInv DEF DispatchDelete
<1>7. CASE UNCHANGED vars
    BY <1>7 DEF vars, IInv, TypeOK, LinksFollowThePath, OutsideAlone, OperationsHaveRows,
              UnloadedRows, Present
<1> QED BY <1>1, <1>2, <1>3, <1>4, <1>5, <1>6, <1>7 DEF Next, Dispatch

-----------------------------------------------------------------------------

\* Every variable has its type in every reachable state.
THEOREM StopsTypeCorrect == Spec => []TypeOK
<1>1. Init => IInv
    BY InitIInv
<1>2. IInv /\ [Next]_vars => IInv'
    BY NextIInv
<1>3. IInv => TypeOK
    BY DEF IInv
<1> QED BY <1>1, <1>2, <1>3, PTL DEF Spec

\* Whatever is inserted, removed, shifted and reloaded, by any threads in any order, every
\* pointer of the path leads to the edge that a walk along the path would find.
THEOREM LinksAlwaysFollow == Spec => []LinksFollowThePath
<1>1. Init => IInv
    BY InitIInv
<1>2. IInv /\ [Next]_vars => IInv'
    BY NextIInv
<1>3. IInv => LinksFollowThePath
    BY DEF IInv
<1> QED BY <1>1, <1>2, <1>3, PTL DEF Spec

-----------------------------------------------------------------------------
(* _rankMap of the journey pattern. *)

RankMapInv == IInv /\ RanksMatch(path)

LEMMA DestroyedRanks ==
    ASSUME NEW p \in PathType, RanksMatch(p), NEW s \in Stops
    PROVE  RanksMatch(Destroyed(p, s))
<1> DEFINE r == RemoveEdge(p, s)
           d == Destroyed(p, s)
<1>1. r \in PathType /\ RanksMatch(r)
    BY RemoveEdgeFields, RemoveEdgeForgets DEF Stops
<1> HIDE DEF r
<1> DEFINE ch == [c \in Chains |-> [r.chain[c] EXCEPT ![s] = NoEdge]]
           pr == [r.previous EXCEPT ![s] = NoEdge]
           nx == [r.next EXCEPT ![s] = NoEdge]
<1>2. d = [r EXCEPT !.previous = pr, !.next = nx, !.chain = ch]
    BY <1>1 DEF Destroyed, r, PathType
<1> HIDE DEF ch, pr, nx, d
<1>3. d.edges = r.edges /\ d.rankAt = r.rankAt /\ d.unsure = r.unsure /\ d.rank = r.rank
    BY <1>1, <1>2 DEF PathType
<1>4. RanksMatch(d)
    BY <1>1, <1>3, SameRanksMatch
<1> QED BY <1>4 DEF d

LEMMA WithRowRanks ==
    ASSUME NEW p \in PathType, RanksMatch(p), NEW s \in Stops, s \notin p.edges
    PROVE  RanksMatch(WithRow(p, s))
<1> DEFINE w == WithRow(p, s)
           rk == [p.rank EXCEPT ![s] = RankOf(s)]
           tr == [p.traits EXCEPT ![s] = rows[s].traits]
<1>1. w = [p EXCEPT !.rank = rk, !.traits = tr]
    BY DEF WithRow, PathType
<1>2. \A x \in p.edges : rk[x] = p.rank[x]
    BY DEF PathType
<1> HIDE DEF w, rk, tr
<1>3. w.edges = p.edges /\ w.rankAt = p.rankAt /\ w.unsure = p.unsure /\ w.rank = rk
    BY <1>1 DEF PathType
<1>4. RanksMatch(w)
    BY <1>2, <1>3, SameRanksMatch
<1> QED BY <1>4 DEF w

LEMMA ReloadRanks ==
    ASSUME RankMapInv, NEW s \in Present, Reload(s)
    PROVE  RanksMatch(path')
<1> DEFINE unlinked == IF s \in registered THEN RemoveEdge(path, s) ELSE path
           loaded == WithRow(unlinked, s)
           dropped == RankTaken(loaded, s)
<1>1. /\ path \in PathType /\ LinksOK(path) /\ RanksMatch(path) /\ s \in Stops /\ TypeOK
      /\ path.edges \subseteq registered
      /\ \A x \in Stops \ (path.edges \cup {s}) : Alone(path, x)
    BY DEF RankMapInv, IInv, TypeOK, LinksFollowThePath, OutsideAlone, Present
<1>2. /\ unlinked \in PathType /\ LinksOK(unlinked) /\ RanksMatch(unlinked)
      /\ s \notin unlinked.edges
      /\ \A x \in Stops \ (unlinked.edges \cup {s}) : Alone(unlinked, x)
  <2>1. CASE s \in registered
    <3>1. unlinked = RemoveEdge(path, s)
        BY <2>1
    <3>2. RanksMatch(unlinked)
        BY <1>1, <3>1, RemoveEdgeForgets DEF Stops
    <3> QED BY <1>1, <3>1, <3>2, RemovedPath
  <2>2. CASE s \notin registered
      BY <1>1, <2>2
  <2> QED BY <2>1, <2>2
<1> HIDE DEF unlinked
<1>3. loaded \in PathType /\ loaded.edges = unlinked.edges
    BY <1>1, <1>2, WithRowPath
<1>4. RanksMatch(loaded)
    BY <1>1, <1>2, WithRowRanks
<1> HIDE DEF loaded
<1>5. path' = IF dropped THEN Destroyed(loaded, s) ELSE AddEdge(loaded, s)
    BY DEF Reload, unlinked, loaded
<1>6. RanksMatch(Destroyed(loaded, s))
    BY <1>1, <1>3, <1>4, DestroyedRanks
<1>7. RanksMatch(AddEdge(loaded, s))
    BY <1>1, <1>2, <1>3, <1>4, AddEdgeRecords DEF Stops
<1> HIDE DEF dropped
<1> QED BY <1>5, <1>6, <1>7

LEMMA UnloadRanks ==
    ASSUME RankMapInv, NEW s \in Stops, Unload(s)
    PROVE  RanksMatch(path')
<1>1. path \in PathType /\ RanksMatch(path)
    BY DEF RankMapInv, IInv, TypeOK
<1> DEFINE r == RemoveEdge(path, s)
<1>2. r \in PathType /\ RanksMatch(r)
    BY <1>1, RemoveEdgeFields, RemoveEdgeForgets DEF Stops
<1>3. path' = Destroyed(r, s)
    BY DEF Unload
<1> HIDE DEF r
<1> QED BY <1>2, <1>3, DestroyedRanks

LEMMA NextRankMap == RankMapInv /\ [Next]_vars => RankMapInv'
<1> SUFFICES ASSUME RankMapInv, [Next]_vars PROVE RankMapInv'
    OBVIOUS
<1>1. IInv'
    BY NextIInv DEF RankMapInv
<1>2. CASE UNCHANGED path
    BY <1>1, <1>2 DEF RankMapInv
<1>3. CASE FirstSync
  <2>1. PICK s \in unloaded : Reload(s)
      BY <1>3 DEF FirstSync
  <2>2. s \in Present
      BY <2>1 DEF RankMapInv, IInv, UnloadedRows
  <2> QED BY <1>1, <2>1, <2>2, ReloadRanks DEF RankMapInv
<1>4. ASSUME NEW t \in Threads, DispatchInsert(t) \/ DispatchUpdate(t) \/ DispatchDelete(t)
      PROVE  RankMapInv'
  <2>1. PICK s \in Stops : (s \in Present /\ Reload(s)) \/ Unload(s) \/ UNCHANGED path
      BY <1>4 DEF DispatchInsert, DispatchUpdate, DispatchDelete
  <2> QED BY <1>1, <1>2, <2>1, ReloadRanks, UnloadRanks DEF RankMapInv
<1>5. ASSUME NEW t \in Threads, Act(t) \/ SkipEmpty(t) PROVE UNCHANGED path
    BY <1>5 DEF Act, SkipEmpty, StartInsertion, StartRemoval, StartUpdate, Start, SelectShifted,
              Commit
<1> QED BY <1>2, <1>3, <1>4, <1>5 DEF Next, Dispatch, vars

\* Whatever was added and removed, reloaded and thrown out, an offset that the path knows
\* for sure leads to the first of the edges that are there.
THEOREM OffsetsAlwaysFind == Spec => []OffsetsFindTheFirstEdge
<1>1. Init => RankMapInv
  <2>1. Init => RanksMatch(path)
      BY DEF Init, EmptyPath, RanksMatch
  <2> QED BY <2>1, InitIInv DEF RankMapInv
<1>2. RankMapInv /\ [Next]_vars => RankMapInv'
    BY NextRankMap
<1>3. RankMapInv => OffsetsFindTheFirstEdge
    BY MatchIsOK DEF RankMapInv, IInv, TypeOK, OffsetsFindTheFirstEdge
<1> QED BY <1>1, <1>2, <1>3, PTL DEF Spec

-----------------------------------------------------------------------------
(* Memory and table. *)

\* The events tell of the stop, by one of this kind.
Tells(events, kind, s) == \E i \in DOMAIN events : events[i].kind = kind /\ s \in events[i].stops

PendingTells(kind, s) == \E t \in Threads : Tells(pending[t], kind, s)

\* The path holds the stop as its row is.
Mirrored(s) ==
    s \in path.edges /\ [rank |-> path.rank[s], traits |-> path.traits[s]] = rows[s]

\* Memory shows the row of the stop, or something that is still to come will make it so:
\* an "update" only does if the stop has an object.
OnItsWay(s) ==
    IF s \in Present
    THEN \/ Mirrored(s) \/ s \in unloaded
         \/ PendingTells("insert", s)
         \/ s \in registered /\ PendingTells("update", s)
    ELSE s \notin path.edges \/ PendingTells("delete", s)

AllOnTheirWay == \A s \in Stops \ astray : OnItsWay(s)

OneAtATime == \A t \in Threads : op[t] # NoOp => pending[t] = <<>>

\* The events an operation has gathered so far, by its kind.
ToldByKind(o) ==
    /\ o.kind \in {"insertion", "removal", "update"}
    /\ o.kind = "insertion" => \A s \in Stops : ~Tells(o.events, "delete", s)
    /\ o.kind = "removal" => /\ Tells(o.events, "delete", o.stop)
                             /\ \A s \in Stops \ {o.stop} : ~Tells(o.events, "delete", s)
    /\ o.kind = "update" => /\ Tells(o.events, "insert", o.stop)
                            /\ o.prev # NoEdge => /\ o.prevRow \in Row
                                                  /\ Tells(o.events, "insert", o.prev)

OperationsTell == \A t \in Threads : op[t] # NoOp => ToldByKind(op[t])

MirrorInv == IInv /\ AllOnTheirWay /\ OneAtATime /\ OperationsTell

LEMMA InTheTail ==
    ASSUME NEW S, NEW a \in Seq(S), NEW b \in Seq(S), NEW k \in DOMAIN b
    PROVE  \E j \in DOMAIN (a \o b) : (a \o b)[j] = b[k]
<1>1. k \in 1 .. Len(b) /\ Len(a) \in Nat /\ Len(b) \in Nat
    OBVIOUS
<1>2. Len(a) + k \in DOMAIN (a \o b)
    BY <1>1
<1>3. (a \o b)[Len(a) + k] = b[k]
    BY <1>1
<1> QED BY <1>2, <1>3

\* Dispatching the event of a stop takes nothing else away.
LEMMA DispatchedTells ==
    ASSUME TypeOK, NEW t \in Threads, NEW s, NEW about, Dispatches(t, about, s),
           NEW kind, NEW x, x # s \/ kind # about, PendingTells(kind, x)
    PROVE  PendingTells(kind, x)'
<1> DEFINE rest == [Head(pending[t]) EXCEPT !.stops = @ \ {s}]
           first == IF rest.stops = {} THEN <<>> ELSE <<rest>>
<1>1. PICK u \in Threads : Tells(pending[u], kind, x)
    BY DEF PendingTells
<1>2. pending \in [Threads -> Seq(Event)] /\ pending[t] # <<>> /\ Head(pending[t]).kind = about
    BY DEF TypeOK, Dispatches
<1>3. pending' = [pending EXCEPT ![t] = first \o Tail(pending[t])]
    BY DEF Dispatches, Dispatched
<1>4. CASE u # t
  <2>1. pending'[u] = pending[u]
      BY <1>2, <1>3, <1>4
  <2> QED BY <1>1, <2>1 DEF PendingTells
<1>5. CASE u = t
  <2>1. pending[t] \in Seq(Event) /\ Head(pending[t]) \in Event /\ Tail(pending[t]) \in Seq(Event)
      BY <1>2
  <2>2. rest \in Event /\ rest.kind = about /\ rest.stops = Head(pending[t]).stops \ {s}
      BY <1>2, <2>1 DEF Event
  <2>3. PICK i \in DOMAIN pending[t] : pending[t][i].kind = kind /\ x \in pending[t][i].stops
      BY <1>1, <1>5 DEF Tells
  <2> HIDE DEF rest
  <2>4. first \in Seq(Event)
      BY <2>2
  <2>5. pending'[t] = first \o Tail(pending[t])
      BY <1>2, <1>3
  <2>6. \E j \in DOMAIN pending'[t] : pending'[t][j].kind = kind /\ x \in pending'[t][j].stops
    <3>1. CASE i = 1
      <4>1. Head(pending[t]).kind = kind /\ x \in Head(pending[t]).stops
          BY <2>1, <2>3, <3>1
      <4>2. x \in rest.stops /\ rest.kind = kind
          BY <4>1, <1>2, <2>2
      <4>3. first = <<rest>>
          BY <4>2
      <4> DEFINE tail == Tail(pending[t])
      <4>5. tail \in Seq(Event) /\ <<rest>> \in Seq(Event)
          BY <2>1, <2>2
      <4> HIDE DEF tail
      <4>6. (<<rest>> \o tail)[1] = rest /\ 1 \in DOMAIN (<<rest>> \o tail)
          BY <4>5
      <4>4. pending'[t][1] = rest /\ 1 \in DOMAIN pending'[t]
          BY <2>5, <4>3, <4>6 DEF tail
      <4> QED BY <4>2, <4>4
    <3>2. CASE i # 1
      <4>1. i - 1 \in DOMAIN Tail(pending[t]) /\ Tail(pending[t])[i - 1] = pending[t][i]
          BY <2>1, <2>3, <3>2
      <4> DEFINE tail == Tail(pending[t])
      <4>2. tail \in Seq(Event) /\ i - 1 \in DOMAIN tail /\ pending'[t] = first \o tail
          BY <2>1, <2>5, <4>1
      <4> HIDE DEF first, tail
      <4>3. PICK j \in DOMAIN (first \o tail) : (first \o tail)[j] = tail[i - 1]
          BY <2>4, <4>2, InTheTail
      <4> QED BY <2>3, <4>1, <4>2, <4>3 DEF tail
    <3> QED BY <3>1, <3>2
  <2> QED BY <1>5, <2>6 DEF PendingTells, Tells
<1> QED BY <1>4, <1>5

\* What stays as it was for the stops that were not dropped nor thrown out.
Spared(s) ==
    \A x \in Stops \ {s} : x \notin astray' =>
        /\ x \notin astray
        /\ x \in path'.edges <=> x \in path.edges
        /\ path'.rank[x] = path.rank[x] /\ path'.traits[x] = path.traits[x]
        /\ x \in registered' <=> x \in registered

LEMMA DestroyedFields ==
    ASSUME NEW p \in PathType, NEW s \in Stops
    PROVE  LET d == Destroyed(p, s)
           IN  d.rank = p.rank /\ d.traits = p.traits /\ d.edges = RemoveEdge(p, s).edges
<1> DEFINE r == RemoveEdge(p, s)
           d == Destroyed(p, s)
           ch == [c \in Chains |-> [r.chain[c] EXCEPT ![s] = NoEdge]]
           pr == [r.previous EXCEPT ![s] = NoEdge]
           nx == [r.next EXCEPT ![s] = NoEdge]
<1>1. r \in PathType /\ r.rank = p.rank /\ r.traits = p.traits
    BY RemoveEdgeFields DEF Stops
<1> HIDE DEF r
<1>2. d = [r EXCEPT !.previous = pr, !.next = nx, !.chain = ch]
    BY <1>1 DEF Destroyed, r, PathType
<1> HIDE DEF ch, pr, nx, d
<1>3. d.edges = r.edges /\ d.rank = r.rank /\ d.traits = r.traits
    BY <1>1, <1>2 DEF PathType
<1> QED BY <1>1, <1>3 DEF d, r

LEMMA ReloadMirrors ==
    ASSUME IInv, NEW s \in Present, Reload(s)
    PROVE  /\ s \notin astray' => /\ s \in path'.edges
                                  /\ [rank |-> path'.rank[s], traits |-> path'.traits[s]] = rows[s]
           /\ Spared(s)
<1> DEFINE unlinked == IF s \in registered THEN RemoveEdge(path, s) ELSE path
           loaded == WithRow(unlinked, s)
           dropped == RankTaken(loaded, s)
           new == IF dropped THEN Destroyed(loaded, s) ELSE AddEdge(loaded, s)
<1>1. /\ path \in PathType /\ LinksOK(path) /\ s \in Stops /\ TypeOK
      /\ path.edges \subseteq registered
      /\ \A x \in Stops \ (path.edges \cup {s}) : Alone(path, x)
    BY DEF IInv, TypeOK, LinksFollowThePath, OutsideAlone, Present
<1>2. /\ unlinked \in PathType /\ LinksOK(unlinked)
      /\ unlinked.edges \subseteq path.edges \ {s}
      /\ unlinked.rank = path.rank /\ unlinked.traits = path.traits
      /\ \A x \in Stops \ (unlinked.edges \cup {s}) : Alone(unlinked, x)
  <2>1. CASE s \in registered
    <3>1. unlinked = RemoveEdge(path, s)
        BY <2>1
    <3>2. unlinked.rank = path.rank /\ unlinked.traits = path.traits
        BY <1>1, <3>1, RemoveEdgeFields DEF Stops
    <3> QED BY <1>1, <3>1, <3>2, RemovedPath
  <2>2. CASE s \notin registered
      BY <1>1, <2>2
  <2> QED BY <2>1, <2>2
<1> HIDE DEF unlinked
<1>3. /\ loaded \in PathType /\ loaded.edges = unlinked.edges /\ LinksOK(loaded)
      /\ \A x \in Stops \ (loaded.edges \cup {s}) : Alone(loaded, x)
    BY <1>1, <1>2, WithRowPath
<1>4. /\ loaded.rank[s] = rows[s].rank /\ loaded.traits[s] = rows[s].traits
      /\ \A x \in Stops \ {s} : loaded.rank[x] = path.rank[x] /\ loaded.traits[x] = path.traits[x]
  <2>1. /\ loaded.rank = [unlinked.rank EXCEPT ![s] = RankOf(s)]
        /\ loaded.traits = [unlinked.traits EXCEPT ![s] = rows[s].traits]
      BY <1>2 DEF WithRow, PathType
  <2> HIDE DEF loaded
  <2> QED BY <1>1, <1>2, <2>1 DEF PathType, Stops, RankOf
<1> HIDE DEF loaded, dropped
<1>5. path' = new /\ registered' = (IF dropped THEN registered \ {s} ELSE registered \cup {s})
      /\ astray' = Thrown(new, s) \cup (IF dropped THEN astray \cup {s} ELSE astray \ {s})
    BY DEF Reload, unlinked, loaded, dropped
<1>6. /\ new.rank = loaded.rank /\ new.traits = loaded.traits
      /\ new.edges \subseteq path.edges \cup {s}
      /\ ~dropped => s \in new.edges
  <2>1. CASE dropped
    <3>1. new = Destroyed(loaded, s)
        BY <2>1
    <3>2. new.edges \subseteq loaded.edges \ {s}
        BY <1>1, <1>3, <3>1, DestroyedPath
    <3> QED BY <1>1, <1>2, <1>3, <2>1, <3>1, <3>2, DestroyedFields
  <2>2. CASE ~dropped
    <3>1. new = AddEdge(loaded, s)
        BY <2>2
    <3>2. /\ AddEdge(loaded, s).edges = loaded.edges \cup {s}
          /\ AddEdge(loaded, s).rank = loaded.rank /\ AddEdge(loaded, s).traits = loaded.traits
        BY <1>1, <1>3, AddEdgeFields DEF Stops
    <3> QED BY <1>2, <1>3, <2>2, <3>1, <3>2
  <2> QED BY <2>1, <2>2
<1> HIDE DEF new
<1>7. ASSUME s \notin astray'
      PROVE  /\ s \in path'.edges
             /\ [rank |-> path'.rank[s], traits |-> path'.traits[s]] = rows[s]
  <2>1. ~dropped
      BY <1>5, <1>7
  <2>2. rows[s] = [rank |-> rows[s].rank, traits |-> rows[s].traits]
      BY <1>1, PresentRow DEF Row
  <2> QED BY <1>4, <1>5, <1>6, <2>1, <2>2
<1>8. Spared(s)
    BY <1>4, <1>5, <1>6 DEF Spared, Thrown
<1> QED BY <1>7, <1>8

LEMMA UnloadMirrors ==
    ASSUME IInv, NEW s \in Stops, Unload(s)
    PROVE  /\ s \notin path'.edges
           /\ s \notin astray' => s \notin Present
           /\ Spared(s)
<1> DEFINE r == RemoveEdge(path, s)
           new == Destroyed(r, s)
<1>1. /\ path \in PathType /\ LinksOK(path)
      /\ \A x \in Stops \ (path.edges \cup {s}) : Alone(path, x)
    BY DEF IInv, TypeOK, LinksFollowThePath, OutsideAlone
<1>2. /\ r \in PathType /\ LinksOK(r) /\ r.edges \subseteq path.edges \ {s}
      /\ \A x \in Stops \ (r.edges \cup {s}) : Alone(r, x)
      /\ r.rank = path.rank /\ r.traits = path.traits
    BY <1>1, RemovedPath, RemoveEdgeFields DEF Stops
<1>3. /\ path' = new /\ registered' = registered \ {s}
      /\ astray' = Thrown(new, s) \cup (IF s \in Present THEN astray \cup {s} ELSE astray \ {s})
    BY DEF Unload
<1> HIDE DEF r
<1>4. new.rank = path.rank /\ new.traits = path.traits /\ new.edges \subseteq path.edges \ {s}
    BY <1>2, DestroyedFields, DestroyedPath
<1> HIDE DEF new
<1> QED BY <1>3, <1>4 DEF Spared, Thrown

LEMMA OtherOnItsWay ==
    ASSUME TypeOK, NEW s, NEW x \in Stops \ {s}, Spared(s), rows' = rows,
           unloaded \ {s} \subseteq unloaded',
           \A kind : PendingTells(kind, x) => PendingTells(kind, x)',
           x \notin astray', OnItsWay(x)
    PROVE  OnItsWay(x)'
<1>1. /\ x \in path'.edges <=> x \in path.edges
      /\ path'.rank[x] = path.rank[x] /\ path'.traits[x] = path.traits[x]
      /\ x \in registered' <=> x \in registered
    BY DEF Spared
<1>2. x \in Present' <=> x \in Present
    BY DEF Present
<1>3. Mirrored(x) => Mirrored(x)'
    BY <1>1 DEF Mirrored
<1>4. x \in unloaded => x \in unloaded'
    OBVIOUS
<1>5. CASE x \in Present
    BY <1>1, <1>2, <1>3, <1>4, <1>5 DEF OnItsWay
<1>6. CASE x \notin Present
    BY <1>1, <1>2, <1>6 DEF OnItsWay
<1> QED BY <1>5, <1>6

LEMMA DispatchOnTheirWay ==
    ASSUME MirrorInv, NEW t \in Threads, NEW s \in Stops, NEW about, Dispatches(t, about, s),
           \/ about = "insert" /\ IF s \in Present THEN Reload(s)
                                 ELSE UNCHANGED <<registered, path, astray>>
           \/ about = "update" /\ IF s \in Present \cap registered THEN Reload(s)
                                 ELSE UNCHANGED <<registered, path, astray>>
           \/ about = "delete" /\ IF s \in registered THEN Unload(s)
                                 ELSE UNCHANGED <<registered, path, astray>>
    PROVE  AllOnTheirWay'
<1>1. IInv /\ TypeOK /\ rows' = rows /\ unloaded' = unloaded /\ path.edges \subseteq registered
    BY DEF MirrorInv, IInv, TypeOK, Dispatches
<1>2. Spared(s)
  <2>1. CASE UNCHANGED <<registered, path, astray>>
      BY <2>1 DEF Spared
  <2> QED BY <1>1, <2>1, ReloadMirrors, UnloadMirrors
<1>3. ASSUME NEW x \in Stops \ {s}, x \notin astray' PROVE OnItsWay(x)'
  <2>1. OnItsWay(x)
      BY <1>2, <1>3 DEF MirrorInv, AllOnTheirWay, Spared
  <2>2. \A kind : PendingTells(kind, x) => PendingTells(kind, x)'
      BY <1>1, DispatchedTells
  <2> QED BY <1>1, <1>2, <1>3, <2>1, <2>2, OtherOnItsWay
<1>4. ASSUME s \notin astray' PROVE OnItsWay(s)'
  <2>1. Present' = Present
      BY <1>1 DEF Present
  <2>2. \A kind : kind # about /\ PendingTells(kind, s) => PendingTells(kind, s)'
      BY <1>1, DispatchedTells
  <2>3. CASE s \in Present /\ Reload(s)
    <3>1. Mirrored(s)'
        BY <1>1, <1>4, <2>3, ReloadMirrors DEF Mirrored
    <3> QED BY <2>1, <2>3, <3>1 DEF OnItsWay
  <2>4. CASE Unload(s)
    <3>1. s \notin Present /\ s \notin path'.edges
        BY <1>1, <1>4, <2>4, UnloadMirrors
    <3> QED BY <2>1, <3>1 DEF OnItsWay
  <2>5. CASE /\ UNCHANGED <<registered, path, astray>>
             /\ \/ about = "insert" /\ s \notin Present
                \/ about = "update" /\ s \notin Present \cap registered
                \/ about = "delete" /\ s \notin registered
    <3>1. OnItsWay(s)
        BY <1>4, <2>5 DEF MirrorInv, AllOnTheirWay
    <3>2. CASE s \notin Present
      <4>1. s \notin path.edges \/ (PendingTells("delete", s) /\ about # "delete")
          BY <1>1, <2>5, <3>1, <3>2 DEF OnItsWay
      <4>2. s \notin path'.edges \/ PendingTells("delete", s)'
          BY <2>2, <2>5, <4>1
      <4> QED BY <2>1, <3>2, <4>2 DEF OnItsWay
    <3>3. CASE s \in Present
      <4>1. s \notin registered /\ s \notin path.edges /\ about # "insert"
          BY <1>1, <2>5, <3>3
      <4>2. s \in unloaded \/ PendingTells("insert", s)
          BY <3>1, <3>3, <4>1 DEF OnItsWay, Mirrored
      <4>3. s \in unloaded' \/ PendingTells("insert", s)'
          BY <1>1, <2>2, <4>1, <4>2
      <4> QED BY <2>1, <3>3, <4>3 DEF OnItsWay
    <3> QED BY <3>2, <3>3
  <2> QED BY <2>3, <2>4, <2>5
<1> QED BY <1>3, <1>4 DEF AllOnTheirWay

LEMMA CommitOnTheirWay ==
    ASSUME MirrorInv, NEW t \in Threads, Commit(t)
    PROVE  AllOnTheirWay'
<1> DEFINE o == op[t]
           events == EventsOf(o)
<1>1. /\ rows' = ResultOf(o)
      /\ pending' = [pending EXCEPT ![t] = events]
      /\ astray' = astray \cup {x \in Stops : rows'[x] # rows[x] /\ x \notin Told(events)}
      /\ UNCHANGED <<registered, path, unloaded>> /\ o # NoOp
    BY DEF Commit
<1>2. /\ IInv /\ TypeOK /\ o \in Operation /\ o.row \in Row /\ o.stop \in Stops
      /\ ToldByKind(o) /\ pending[t] = <<>> /\ unloaded = {}
    BY <1>1 DEF MirrorInv, IInv, TypeOK, OperationsHaveRows, OperationsTell, OneAtATime,
               UnloadedRows
<1>3. \A kind, x : Tells(events, kind, x) \/ PendingTells(kind, x) => PendingTells(kind, x)'
  <2> HIDE DEF events
  <2>1. pending'[t] = events /\ \A u \in Threads \ {t} : pending'[u] = pending[u]
      BY <1>1, <1>2 DEF TypeOK
  <2>2. \A kind, x : ~Tells(pending[t], kind, x)
      BY <1>2 DEF Tells
  <2> QED BY <2>1, <2>2 DEF PendingTells
<1>4. \A kind, x : Tells(o.events, kind, x) => Tells(events, kind, x)
  <2>1. CASE o.kind = "insertion"
    <3> DEFINE e == [kind |-> "insert", stops |-> {o.stop}]
    <3>1. events = Append(o.events, e) /\ o.events \in Seq(Event) /\ e \in Event
        BY <1>2, <2>1, EventType DEF EventsOf, Operation
    <3> HIDE DEF e, events
    <3>2. DOMAIN o.events \subseteq DOMAIN events /\ \A i \in DOMAIN o.events : events[i] = o.events[i]
        BY <3>1
    <3> QED BY <3>2 DEF Tells
  <2>2. CASE o.kind # "insertion"
      BY <2>2 DEF EventsOf
  <2> QED BY <2>1, <2>2
<1>5. o.kind = "insertion" => Tells(events, "insert", o.stop)
  <2> SUFFICES ASSUME o.kind = "insertion" PROVE Tells(events, "insert", o.stop)
      OBVIOUS
  <2> DEFINE e == [kind |-> "insert", stops |-> {o.stop}]
  <2>1. events = Append(o.events, e) /\ o.events \in Seq(Event) /\ e \in Event
      BY <1>2, EventType DEF EventsOf, Operation
  <2>2. e.kind = "insert" /\ o.stop \in e.stops
      OBVIOUS
  <2> HIDE DEF e, events
  <2>3. Len(events) \in DOMAIN events /\ events[Len(events)] = e
      BY <2>1
  <2> QED BY <2>2, <2>3 DEF Tells
<1>6. SUFFICES ASSUME NEW x \in Stops, x \notin astray' PROVE OnItsWay(x)'
    BY DEF AllOnTheirWay
<1>7. OnItsWay(x) /\ (rows'[x] = rows[x] \/ x \in Told(events))
    BY <1>1, <1>6 DEF MirrorInv, AllOnTheirWay
<1>8. CASE rows'[x] = rows[x]
  <2>1. x \in Present' <=> x \in Present
      BY <1>8 DEF Present
  <2>2. Mirrored(x) => Mirrored(x)'
      BY <1>1, <1>8 DEF Mirrored
  <2>3. CASE x \in Present
      BY <1>1, <1>3, <1>7, <2>1, <2>2, <2>3 DEF OnItsWay
  <2>4. CASE x \notin Present
      BY <1>1, <1>3, <1>7, <2>1, <2>4 DEF OnItsWay
  <2> QED BY <2>3, <2>4
<1>9. CASE rows'[x] # rows[x]
  <2>1. rows'[x] \in Row => x \in Present'
      BY NoRowIsNoRow DEF Present
  <2>2. CASE x = o.stop /\ o.kind \in {"insertion", "update"}
    <3>1. rows'[x] \in Row
        BY <1>1, <1>2, <2>2 DEF ResultOf
    <3>2. PendingTells("insert", x)'
        BY <1>2, <1>3, <1>4, <1>5, <2>2 DEF ToldByKind
    <3> QED BY <2>1, <3>1, <3>2 DEF OnItsWay
  <2>3. CASE x = o.stop /\ o.kind = "removal"
    <3>1. x \notin Present'
        BY <1>1, <2>3 DEF ResultOf, Present
    <3>2. PendingTells("delete", x)'
        BY <1>2, <1>3, <1>4, <2>3 DEF ToldByKind
    <3> QED BY <3>1, <3>2 DEF OnItsWay
  <2>4. CASE x # o.stop /\ o.kind = "update"
    <3>1. x = o.prev /\ rows'[x] = o.prevRow
        BY <1>1, <1>9, <2>4 DEF ResultOf
    <3>2. o.prevRow \in Row /\ PendingTells("insert", x)'
        BY <1>2, <1>3, <1>4, <2>4, <3>1, NoEdgeAssumption DEF ToldByKind, Stops
    <3> QED BY <2>1, <3>1, <3>2 DEF OnItsWay
  <2>5. CASE x # o.stop /\ o.kind \in {"insertion", "removal"}
    <3>1. x \in Present /\ rows'[x] \in {Shifted(rows[x], 1), Shifted(rows[x], -1)}
        BY <1>1, <1>9, <2>5 DEF ResultOf
    <3>2. x \in Present'
      <4>1. rows[x] \in Row
          BY <1>2, <3>1, PresentRow
      <4>2. rows'[x].traits = rows[x].traits
          BY <3>1, <4>1 DEF Shifted, Row
      <4>3. NoRow.traits \notin Kinds /\ rows[x].traits \in Kinds
          BY <4>1, KindsAssumption DEF NoRow, Row, Traits
      <4> QED BY <4>2, <4>3 DEF Present
    <3>3. PICK kind \in {"insert", "update"} : Tells(events, kind, x)
      <4>1. PICK i \in DOMAIN events : x \in events[i].stops
          BY <1>7, <1>9 DEF Told
      <4>2. events \in Seq(Event)
        <5> DEFINE e == [kind |-> "insert", stops |-> {o.stop}]
        <5>1. o.events \in Seq(Event) /\ e \in Event
            BY <1>2, EventType DEF Operation
        <5>2. events = IF o.kind = "insertion" THEN Append(o.events, e) ELSE o.events
            BY DEF EventsOf
        <5> HIDE DEF e, events
        <5> QED BY <5>1, <5>2
      <4>3. events[i].kind \in {"insert", "update", "delete"} /\ Tells(events, events[i].kind, x)
        <5> HIDE DEF events
        <5>1. events[i] \in Event
            BY <4>2
        <5> QED BY <4>1, <5>1 DEF Event, Tells
      <4>4. ~Tells(events, "delete", x)
        <5>1. ~Tells(o.events, "delete", x)
            BY <1>2, <2>5 DEF ToldByKind
        <5>2. CASE o.kind = "insertion"
          <6> DEFINE e == [kind |-> "insert", stops |-> {o.stop}]
          <6>1. events = Append(o.events, e) /\ o.events \in Seq(Event) /\ e \in Event
              BY <1>2, <5>2, EventType DEF EventsOf, Operation
          <6>2. e.kind # "delete"
              OBVIOUS
          <6> HIDE DEF e, events
          <6>3. \A j \in DOMAIN events :
                    (j \in DOMAIN o.events /\ events[j] = o.events[j]) \/ events[j] = e
              BY <6>1
          <6> QED BY <5>1, <6>2, <6>3 DEF Tells
        <5>3. CASE o.kind = "removal"
            BY <5>1, <5>3 DEF EventsOf
        <5> QED BY <2>5, <5>2, <5>3
      <4> QED BY <4>3, <4>4
    <3>4. Mirrored(x) \/ PendingTells("insert", x) \/ x \in registered
        BY <1>2, <1>7, <3>1 DEF OnItsWay
    <3>5. Mirrored(x) => x \in registered
        BY <1>2 DEF Mirrored, TypeOK
    <3>6. PendingTells("insert", x)' \/ (x \in registered' /\ PendingTells("update", x)')
        BY <1>1, <1>3, <3>3, <3>4, <3>5
    <3> QED BY <3>2, <3>6 DEF OnItsWay
  <2> QED BY <1>2, <2>2, <2>3, <2>4, <2>5 DEF ToldByKind
<1> QED BY <1>8, <1>9

\* An operation has told what its kind tells when it starts.
LEMMA StartTells ==
    ASSUME NEW t \in Threads, StartInsertion(t) \/ StartRemoval(t) \/ StartUpdate(t), IInv
    PROVE  \E o : Start(t, o) /\ ToldByKind(o)
<1>1. CASE StartInsertion(t)
  <2>1. PICK s, row, last, todo :
            Start(t, [NoOp EXCEPT !.kind = "insertion", !.stop = s, !.row = row,
                                  !.last = last, !.todo = todo])
      BY <1>1 DEF StartInsertion
  <2> DEFINE o == [NoOp EXCEPT !.kind = "insertion", !.stop = s, !.row = row,
                               !.last = last, !.todo = todo]
  <2>2. o.kind = "insertion" /\ o.events = <<>>
      BY DEF NoOp
  <2>3. ToldByKind(o)
      BY <2>2 DEF ToldByKind, Tells
  <2> QED BY <2>1, <2>3
<1>2. CASE StartRemoval(t)
  <2>1. PICK s \in Stops :
            Start(t, [NoOp EXCEPT !.kind = "removal", !.stop = s, !.row = rows[s],
                                  !.todo = {RankOf(s) + 1},
                                  !.events = <<[kind |-> "delete", stops |-> {s}]>>])
      BY <1>2 DEF StartRemoval, Present
  <2> DEFINE events == <<[kind |-> "delete", stops |-> {s}]>>
             o == [NoOp EXCEPT !.kind = "removal", !.stop = s, !.row = rows[s],
                               !.todo = {RankOf(s) + 1}, !.events = events]
  <2>2. Tells(events, "delete", s) /\ \A x : x # s => ~Tells(events, "delete", x)
      BY DEF Tells
  <2> HIDE DEF events
  <2>3. o.kind = "removal" /\ o.events = events /\ o.stop = s
      BY DEF NoOp
  <2>4. ToldByKind(o)
      BY <2>2, <2>3 DEF ToldByKind
  <2> QED BY <2>1, <2>4 DEF events
<1>3. CASE StartUpdate(t)
  <2>1. PICK s, row : \E x \in PreviousStops(s) :
            Start(t, [NoOp EXCEPT !.kind = "update", !.stop = s, !.row = row,
                                  !.prev = x, !.prevRow = IF x = NoEdge THEN NoRow ELSE rows[x],
                                  !.events = (IF x = NoEdge THEN <<>>
                                              ELSE <<[kind |-> "insert", stops |-> {x}]>>)
                                             \o <<[kind |-> "insert", stops |-> {s}]>>])
      BY <1>3 DEF StartUpdate
  <2>2. PICK x \in PreviousStops(s) :
            Start(t, [NoOp EXCEPT !.kind = "update", !.stop = s, !.row = row,
                                  !.prev = x, !.prevRow = IF x = NoEdge THEN NoRow ELSE rows[x],
                                  !.events = (IF x = NoEdge THEN <<>>
                                              ELSE <<[kind |-> "insert", stops |-> {x}]>>)
                                             \o <<[kind |-> "insert", stops |-> {s}]>>])
      BY <2>1
  <2>3. x = NoEdge \/ x \in Present
      BY DEF PreviousStops
  <2> DEFINE events == (IF x = NoEdge THEN <<>> ELSE <<[kind |-> "insert", stops |-> {x}]>>)
                       \o <<[kind |-> "insert", stops |-> {s}]>>
             prevRow == IF x = NoEdge THEN NoRow ELSE rows[x]
             o == [NoOp EXCEPT !.kind = "update", !.stop = s, !.row = row,
                               !.prev = x, !.prevRow = prevRow, !.events = events]
  <2>4. Tells(events, "insert", s) /\ (x # NoEdge => Tells(events, "insert", x))
    <3>1. CASE x = NoEdge
      <4>1. events = <<[kind |-> "insert", stops |-> {s}]>>
          BY <3>1
      <4> QED BY <3>1, <4>1 DEF Tells
    <3>2. CASE x # NoEdge
      <4> DEFINE a == [kind |-> "insert", stops |-> {x}]
                 b == [kind |-> "insert", stops |-> {s}]
      <4>1. events = <<a>> \o <<b>>
          BY <3>2
      <4>2. a.kind = "insert" /\ x \in a.stops /\ b.kind = "insert" /\ s \in b.stops
          OBVIOUS
      <4> HIDE DEF a, b, events
      <4>3. <<a>> \in Seq({a, b}) /\ <<b>> \in Seq({a, b})
          OBVIOUS
      <4>4. 1 \in DOMAIN events /\ 2 \in DOMAIN events /\ events[1] = a /\ events[2] = b
          BY <4>1, <4>3
      <4> QED BY <4>2, <4>4 DEF Tells
    <3> QED BY <3>1, <3>2
  <2>5. x # NoEdge => prevRow \in Row
      BY <2>3, PresentRow DEF IInv
  <2> HIDE DEF events, prevRow
  <2>6. o.kind = "update" /\ o.events = events /\ o.stop = s /\ o.prev = x /\ o.prevRow = prevRow
      BY DEF NoOp
  <2> HIDE DEF o
  <2>7. ToldByKind(o)
      BY <2>4, <2>5, <2>6 DEF ToldByKind
  <2>8. Start(t, o)
      BY <2>2 DEF o, events, prevRow
  <2> QED BY <2>7, <2>8
<1> QED BY <1>1, <1>2, <1>3

LEMMA SelectTells ==
    ASSUME MirrorInv, NEW t \in Threads, SelectShifted(t)
    PROVE  ToldByKind(op'[t])
<1> DEFINE o == op[t]
           e == [kind |-> "update",
                 stops |-> (IF o.kind = "insertion" THEN Ranked(NextShift(o.todo))
                            ELSE {s \in Present : RankOf(s) >= NextShift(o.todo)})
                           \ Told(o.events)]
           n == op'[t]
<1>1. o \in Operation /\ o # NoOp /\ ToldByKind(o)
    BY DEF MirrorInv, IInv, TypeOK, OperationsTell, SelectShifted, NoOp
<1>2. op' = [op EXCEPT ![t] = [o EXCEPT !.todo = @ \ {NextShift(o.todo)}, !.events = Append(@, e)]]
    BY <1>1 DEF SelectShifted, MirrorInv, IInv, TypeOK, Operation
<1>3. e.kind = "update"
    OBVIOUS
<1> HIDE DEF e
<1>4. /\ n.kind = o.kind /\ n.stop = o.stop /\ n.prev = o.prev /\ n.prevRow = o.prevRow
      /\ n.events = Append(o.events, e)
    BY <1>1, <1>2 DEF MirrorInv, IInv, TypeOK, Operation
<1>5. \A kind, x : kind # "update" => (Tells(n.events, kind, x) <=> Tells(o.events, kind, x))
  <2> DEFINE before == o.events
             after == n.events
  <2>1. before \in Seq(Event) /\ after = Append(before, e)
      BY <1>1, <1>4 DEF Operation
  <2> HIDE DEF before, after
  <2>2. /\ \A j \in DOMAIN after : (j \in DOMAIN before /\ after[j] = before[j]) \/ after[j] = e
        /\ \A j \in DOMAIN before : j \in DOMAIN after /\ after[j] = before[j]
      BY <2>1
  <2>3. \A kind, x : kind # "update" => (Tells(after, kind, x) <=> Tells(before, kind, x))
      BY <1>3, <2>2 DEF Tells
  <2> QED BY <2>3 DEF before, after
<1> HIDE DEF n
<1>6. ToldByKind(n)
    BY <1>1, <1>4, <1>5 DEF ToldByKind
<1> QED BY <1>6 DEF n

LEMMA NextMirror == MirrorInv /\ [Next]_vars => MirrorInv'
<1> SUFFICES ASSUME MirrorInv, [Next]_vars PROVE MirrorInv'
    OBVIOUS
<1>0. IInv /\ TypeOK /\ IInv'
    BY NextIInv DEF MirrorInv, IInv
<1> USE <1>0
\* The variables AllOnTheirWay is about.
<1> DEFINE Seen == <<rows, registered, path, pending, unloaded, astray>>
<1>1. UNCHANGED Seen => AllOnTheirWay'
    BY DEF MirrorInv, AllOnTheirWay, OnItsWay, Mirrored, PendingTells, Present
<1>2. CASE UNCHANGED vars
    BY <1>1, <1>2 DEF vars, MirrorInv, OneAtATime, OperationsTell
<1>3. CASE FirstSync
  <2>1. PICK s \in unloaded : /\ unloaded' = unloaded \ {s} /\ Reload(s)
                              /\ UNCHANGED <<rows, op, pending, past>>
      BY <1>3 DEF FirstSync
  <2>2. s \in Present /\ s \in Stops
      BY <2>1 DEF IInv, UnloadedRows, TypeOK
  <2>3. Spared(s) /\ (s \notin astray' => Mirrored(s)')
      BY <2>1, <2>2, ReloadMirrors DEF Mirrored
  <2>4. ASSUME NEW x \in Stops \ {s}, x \notin astray' PROVE OnItsWay(x)'
    <3>1. OnItsWay(x)
        BY <2>3, <2>4 DEF MirrorInv, AllOnTheirWay, Spared
    <3>2. \A kind : PendingTells(kind, x) => PendingTells(kind, x)'
        BY <2>1 DEF PendingTells
    <3> QED BY <2>1, <2>3, <2>4, <3>1, <3>2, OtherOnItsWay
  <2>5. s \notin astray' => OnItsWay(s)'
      BY <2>1, <2>2, <2>3 DEF OnItsWay, Present
  <2>6. AllOnTheirWay'
      BY <2>4, <2>5 DEF AllOnTheirWay
  <2> QED BY <2>1, <2>6 DEF MirrorInv, OneAtATime, OperationsTell
<1>4. ASSUME NEW t \in Threads, StartInsertion(t) \/ StartRemoval(t) \/ StartUpdate(t)
      PROVE  MirrorInv'
  <2>1. PICK o : Start(t, o) /\ ToldByKind(o)
      BY <1>4, StartTells
  <2>2. UNCHANGED Seen /\ pending[t] = <<>> /\ op' = [op EXCEPT ![t] = o]
      BY <2>1 DEF Start, Idle
  <2>3. OneAtATime' /\ OperationsTell'
      BY <2>1, <2>2 DEF MirrorInv, OneAtATime, OperationsTell, TypeOK
  <2> QED BY <1>1, <2>2, <2>3 DEF MirrorInv
<1>5. ASSUME NEW t \in Threads, SelectShifted(t) PROVE MirrorInv'
  <2>1. UNCHANGED Seen /\ op[t] # NoOp /\ \A u \in Threads \ {t} : op'[u] = op[u]
      BY <1>5 DEF SelectShifted, NoOp, TypeOK
  <2>2. ToldByKind(op'[t])
      BY <1>5, SelectTells
  <2>3. OneAtATime' /\ OperationsTell'
      BY <2>1, <2>2 DEF MirrorInv, OneAtATime, OperationsTell
  <2> QED BY <1>1, <2>1, <2>3 DEF MirrorInv
<1>6. ASSUME NEW t \in Threads, Commit(t) PROVE MirrorInv'
  <2>1. AllOnTheirWay'
      BY <1>6, CommitOnTheirWay
  <2>2. /\ op' = [op EXCEPT ![t] = NoOp]
        /\ pending' = [pending EXCEPT ![t] = EventsOf(op[t])]
      BY <1>6 DEF Commit
  <2>3. OneAtATime' /\ OperationsTell'
      BY <2>2 DEF MirrorInv, OneAtATime, OperationsTell, TypeOK
  <2> QED BY <2>1, <2>3 DEF MirrorInv
<1>7. ASSUME NEW t \in Threads, SkipEmpty(t) PROVE MirrorInv'
  <2>1. /\ pending[t] # <<>> /\ Head(pending[t]).stops = {}
        /\ pending' = [pending EXCEPT ![t] = Tail(@)]
        /\ UNCHANGED <<rows, registered, path, op, unloaded, astray>>
      BY <1>7 DEF SkipEmpty
  <2>2. ASSUME NEW kind, NEW x, PendingTells(kind, x) PROVE PendingTells(kind, x)'
    <3>1. PICK u \in Threads : Tells(pending[u], kind, x)
        BY <2>2 DEF PendingTells
    <3>2. CASE u # t
        BY <2>1, <3>1, <3>2 DEF PendingTells, TypeOK
    <3>3. CASE u = t
      <4> DEFINE before == pending[t]
                 after == pending'[t]
      <4>1. before \in Seq(Event) /\ before # <<>> /\ after = Tail(before) /\ Head(before).stops = {}
          BY <2>1 DEF TypeOK
      <4>2. PICK i \in DOMAIN before : before[i].kind = kind /\ x \in before[i].stops
          BY <3>1, <3>3 DEF Tells
      <4> HIDE DEF before, after
      <4>3. i # 1
          BY <4>1, <4>2
      <4>4. i - 1 \in DOMAIN after /\ after[i - 1] = before[i]
          BY <4>1, <4>2, <4>3
      <4>5. Tells(after, kind, x)
          BY <4>2, <4>4 DEF Tells
      <4> QED BY <4>5 DEF PendingTells, after
    <3> QED BY <3>2, <3>3
  <2>3. AllOnTheirWay'
    <3>1. SUFFICES ASSUME NEW x \in Stops \ astray, OnItsWay(x) PROVE OnItsWay(x)'
        BY <2>1 DEF AllOnTheirWay, MirrorInv
    <3>2. CASE x \in Present
        BY <2>1, <2>2, <3>1, <3>2 DEF OnItsWay, Mirrored, Present
    <3>3. CASE x \notin Present
        BY <2>1, <2>2, <3>1, <3>3 DEF OnItsWay, Present
    <3> QED BY <3>2, <3>3
  <2>4. OneAtATime' /\ OperationsTell'
      BY <2>1 DEF MirrorInv, OneAtATime, OperationsTell, TypeOK
  <2> QED BY <2>3, <2>4 DEF MirrorInv
<1>8. ASSUME NEW t \in Threads, DispatchInsert(t) \/ DispatchUpdate(t) \/ DispatchDelete(t)
      PROVE  MirrorInv'
  <2>1. AllOnTheirWay'
      BY <1>8, DispatchOnTheirWay DEF DispatchInsert, DispatchUpdate, DispatchDelete
  <2>2. PICK s, kind : Dispatches(t, kind, s)
      BY <1>8 DEF DispatchInsert, DispatchUpdate, DispatchDelete
  <2>3. /\ op' = op /\ pending[t] # <<>>
        /\ \A u \in Threads \ {t} : pending'[u] = pending[u]
      BY <2>2 DEF Dispatches, Dispatched, TypeOK
  <2>4. OneAtATime' /\ OperationsTell'
      BY <2>3 DEF MirrorInv, OneAtATime, OperationsTell
  <2> QED BY <2>1, <2>4 DEF MirrorInv
<1> QED BY <1>2, <1>3, <1>4, <1>5, <1>6, <1>7, <1>8 DEF Next, Act, Dispatch

LEMMA InitMirror == Init => MirrorInv
<1> SUFFICES ASSUME Init PROVE MirrorInv
    OBVIOUS
<1>1. AllOnTheirWay
    BY DEF Init, AllOnTheirWay, OnItsWay, EmptyPath
<1>2. OneAtATime /\ OperationsTell
    BY DEF Init, OneAtATime, OperationsTell
<1> QED BY <1>1, <1>2, InitIInv DEF MirrorInv

\* Once the events about a stop have been dispatched, by any threads in any order, memory
\* shows its row, unless it was lost in one of the ways `astray` counts.
THEOREM PathAlwaysMirrors == Spec => []PathMirrorsRows
<1>1. Init => MirrorInv
    BY InitMirror
<1>2. MirrorInv /\ [Next]_vars => MirrorInv'
    BY NextMirror
<1>3. MirrorInv => PathMirrorsRows
  <2> SUFFICES ASSUME MirrorInv, NEW s \in Stops \ astray, ~PendingAbout(s)
               PROVE  IF s \in Present
                      THEN /\ s \in path.edges
                           /\ [rank |-> path.rank[s], traits |-> path.traits[s]] = rows[s]
                      ELSE s \notin path.edges
      BY DEF PathMirrorsRows
  <2>1. s \notin unloaded /\ \A kind : ~PendingTells(kind, s)
      BY DEF PendingAbout, PendingTells, Tells, Told
  <2>2. OnItsWay(s)
      BY DEF MirrorInv, AllOnTheirWay
  <2> QED BY <2>1, <2>2 DEF OnItsWay, Mirrored
<1> QED BY <1>1, <1>2, <1>3, PTL DEF Spec

-----------------------------------------------------------------------------
(* Insertions and updates, one after the other. *)

Serial == ~past.overlap /\ "removal" \notin past.kinds

Ranks == [s \in Stops |-> rows[s].rank]

\* The stops of which an operation updates the ranks, in the order of its events: from the
\* last rank to the first, and all those of one event at one rank.
Falling(events, rk) ==
    \A i, j \in DOMAIN events : events[i].kind = "update" /\ events[j].kind = "update" =>
        \A a \in events[i].stops, b \in events[j].stops :
            /\ i < j => rk[b] < rk[a]
            /\ i = j => rk[b] = rk[a]

UpdatesFirst(events) ==
    \A i, j \in DOMAIN events : i < j /\ events[i].kind = "insert" => events[j].kind = "insert"

Orderly(events, rk) ==
    /\ Falling(events, rk)
    /\ UpdatesFirst(events)
    /\ \A i \in DOMAIN events : events[i].kind # "delete"

\* What an update will write is what it read, the traits apart.
SerialUpdate(o) ==
    /\ o.kind = "update" /\ o.todo = {}
    /\ o.stop \in Present /\ o.row.rank = RankOf(o.stop)
    /\ o.prev # NoEdge => o.prev # o.stop /\ o.prev \in Present /\ o.prevRow = rows[o.prev]
    /\ \A i \in DOMAIN o.events : o.events[i].kind = "insert"

\* An insertion has told of the stops to shift above the ranks that it has still to select.
SerialInsertion(o) ==
    /\ o.kind = "insertion" /\ o.stop \notin Present
    /\ \A x \in Present : RankOf(x) <= o.last
    /\ o.todo \subseteq o.row.rank .. o.last
    /\ \A i \in DOMAIN o.events :
        /\ o.events[i].kind = "update"
        /\ \A x \in o.events[i].stops : /\ x \in Present /\ RankOf(x) >= o.row.rank
                                        /\ \A q \in o.todo : RankOf(x) > q
    /\ \A x \in Present : RankOf(x) >= o.row.rank => RankOf(x) \in o.todo \/ x \in Told(o.events)
    /\ Falling(o.events, Ranks)

OneAtWork == \A t, u \in Threads : Idle(t) \/ Idle(u) \/ t = u

NothingLost == astray = {} /\ registered = path.edges

DistinctRows == \A s, x \in Present : RankOf(s) = RankOf(x) => s = x

\* A stop of the path is at the rank of its row, or just before if its event is pending.
EdgesShown ==
    \A x \in path.edges :
        /\ x \in Present
        /\ \/ path.rank[x] = RankOf(x)
           \/ path.rank[x] = RankOf(x) - 1 /\ PendingTells("update", x)

EventsOrderly == \A t \in Threads : Orderly(pending[t], Ranks)

SerialOperations == \A t \in Threads : op[t] # NoOp => SerialUpdate(op[t]) \/ SerialInsertion(op[t])

LoadedFirst == unloaded # {} => \A t \in Threads : Idle(t)

Lossless ==
    OneAtWork /\ NothingLost /\ DistinctRows /\ EdgesShown /\ EventsOrderly /\ SerialOperations
    /\ LoadedFirst

SerialInv == MirrorInv /\ (Serial => Lossless)

\* The events that are left of a sequence, when some were dispatched from its head, are in
\* the order of the sequence.
LEMMA OrderlyRest ==
    ASSUME NEW before \in Seq(Event), NEW after \in Seq(Event), NEW d \in Nat, NEW rk,
           Orderly(before, rk),
           \A j \in DOMAIN after : /\ j + d \in DOMAIN before
                                   /\ after[j].kind = before[j + d].kind
                                   /\ after[j].stops \subseteq before[j + d].stops
    PROVE  Orderly(after, rk)
<1>0. DOMAIN after \subseteq Nat
    OBVIOUS
<1>1. \A i, j \in DOMAIN after : (i < j <=> i + d < j + d) /\ (i = j => i + d = j + d)
    BY <1>0
<1>2. Falling(after, rk)
  <2>1. SUFFICES ASSUME NEW i \in DOMAIN after, NEW j \in DOMAIN after,
                        after[i].kind = "update", after[j].kind = "update",
                        NEW a \in after[i].stops, NEW b \in after[j].stops
                 PROVE  (i < j => rk[b] < rk[a]) /\ (i = j => rk[b] = rk[a])
      BY DEF Falling
  <2> DEFINE k == i + d
             l == j + d
  <2>2. /\ k \in DOMAIN before /\ l \in DOMAIN before
        /\ before[k].kind = "update" /\ before[l].kind = "update"
        /\ a \in before[k].stops /\ b \in before[l].stops
        /\ (i < j => k < l) /\ (i = j => k = l)
      BY <1>1, <2>1
  <2> HIDE DEF k, l
  <2> QED BY <2>2 DEF Orderly, Falling
<1>3. UpdatesFirst(after)
  <2>1. SUFFICES ASSUME NEW i \in DOMAIN after, NEW j \in DOMAIN after, i < j,
                        after[i].kind = "insert"
                 PROVE  after[j].kind = "insert"
      BY DEF UpdatesFirst
  <2> DEFINE k == i + d
             l == j + d
  <2>2. /\ k \in DOMAIN before /\ l \in DOMAIN before /\ k < l
        /\ before[k].kind = "insert" /\ before[l].kind = after[j].kind
      BY <1>1, <2>1
  <2> HIDE DEF k, l
  <2> QED BY <2>2 DEF Orderly, UpdatesFirst
<1> QED BY <1>2, <1>3 DEF Orderly

LEMMA DispatchedRest ==
    ASSUME TypeOK, NEW t \in Threads, NEW s, NEW about, Dispatches(t, about, s)
    PROVE  \E d \in Nat : \A j \in DOMAIN pending'[t] :
                /\ j + d \in DOMAIN pending[t]
                /\ pending'[t][j].kind = pending[t][j + d].kind
                /\ pending'[t][j].stops \subseteq pending[t][j + d].stops
<1> DEFINE before == pending[t]
           after == pending'[t]
           tail == Tail(before)
           rest == [Head(before) EXCEPT !.stops = @ \ {s}]
<1>1. before \in Seq(Event) /\ before # <<>> /\ Head(before) = before[1] /\ before[1] \in Event
    BY DEF TypeOK, Dispatches
<1>2. after = (IF rest.stops = {} THEN <<>> ELSE <<rest>>) \o tail
    BY DEF TypeOK, Dispatches, Dispatched
<1>3. rest \in Event /\ rest.kind = before[1].kind /\ rest.stops \subseteq before[1].stops
    BY <1>1 DEF Event
<1>4. tail \in Seq(Event) /\ 1 \in DOMAIN before
      /\ \A j \in DOMAIN tail : j + 1 \in DOMAIN before /\ tail[j] = before[j + 1]
    BY <1>1
<1> HIDE DEF before, after, tail, rest
<1>5. CASE rest.stops = {}
  <2>1. after = tail
      BY <1>2, <1>4, <1>5
  <2>2. \A j \in DOMAIN after : /\ j + 1 \in DOMAIN before
                                /\ after[j].kind = before[j + 1].kind
                                /\ after[j].stops \subseteq before[j + 1].stops
      BY <1>4, <2>1
  <2> QED BY <2>2 DEF before, after
<1>6. CASE rest.stops # {}
  <2>1. after = <<rest>> \o tail /\ <<rest>> \in Seq(Event)
      BY <1>2, <1>3, <1>6
  <2>2. ASSUME NEW j \in DOMAIN after
        PROVE  /\ j \in DOMAIN before
               /\ after[j].kind = before[j].kind
               /\ after[j].stops \subseteq before[j].stops
    <3>1. CASE j = 1
      <4>1. after[1] = rest
          BY <1>4, <2>1
      <4> QED BY <1>3, <1>4, <3>1, <4>1
    <3>2. CASE j # 1
      <4>1. j - 1 \in DOMAIN tail /\ after[j] = tail[j - 1] /\ j \in Nat
          BY <1>4, <2>1, <2>2, <3>2
      <4>2. (j - 1) + 1 = j
          BY <4>1
      <4> QED BY <1>4, <4>1, <4>2
    <3> QED BY <3>1, <3>2
  <2>3. \A j \in DOMAIN after : j + 0 = j
    <3>1. after \in Seq(Event)
        BY <1>4, <2>1
    <3> QED BY <3>1
  <2> QED BY <2>2, <2>3 DEF before, after
<1> QED BY <1>5, <1>6

\* A stop whose rank is free in the path is put there, and nothing is lost.
LEMMA ReloadLossless ==
    ASSUME IInv, NothingLost, NEW s \in Present, Reload(s),
           \A x \in path.edges \ {s} : path.rank[x] # RankOf(s)
    PROVE  /\ NothingLost'
           /\ path'.edges = path.edges \cup {s}
           /\ path'.rank[s] = RankOf(s)
           /\ \A x \in Stops \ {s} : path'.rank[x] = path.rank[x]
<1> DEFINE unlinked == IF s \in registered THEN RemoveEdge(path, s) ELSE path
           loaded == WithRow(unlinked, s)
           dropped == RankTaken(loaded, s)
<1>1. /\ path \in PathType /\ LinksOK(path) /\ s \in Stops /\ TypeOK
      /\ path.edges = registered /\ astray = {} /\ path.edges \subseteq Stops
      /\ \A x \in Stops \ (path.edges \cup {s}) : Alone(path, x)
    BY DEF IInv, TypeOK, LinksFollowThePath, OutsideAlone, Present, NothingLost
<1>2. /\ unlinked \in PathType /\ LinksOK(unlinked)
      /\ unlinked.edges = path.edges \ {s} /\ unlinked.rank = path.rank
      /\ \A x \in Stops \ (unlinked.edges \cup {s}) : Alone(unlinked, x)
  <2>1. CASE s \in registered
    <3>1. unlinked = RemoveEdge(path, s)
        BY <2>1
    <3>2. unlinked.rank = path.rank
        BY <1>1, <3>1, RemoveEdgeFields DEF Stops
    <3>3. RemoveEdge(path, s).edges = path.edges \ {s}
      <4>1. CASE \E x \in Edges : path.edges = {x}
        <5>1. RemoveEdge(path, s).edges = {}
            BY <1>1, <4>1, RemoveEdgeFields DEF Stops
        <5> QED BY <1>1, <2>1, <4>1, <5>1
      <4>2. CASE ~(\E x \in Edges : path.edges = {x})
          BY <1>1, <2>1, <4>2, RemoveEdgeFields DEF Stops
      <4> QED BY <4>1, <4>2
    <3>4. unlinked \in PathType /\ LinksOK(unlinked)
          /\ \A x \in Stops \ (unlinked.edges \cup {s}) : Alone(unlinked, x)
        BY <1>1, <3>1, RemovedPath
    <3> QED BY <3>1, <3>2, <3>3, <3>4
  <2>2. CASE s \notin registered
      BY <1>1, <2>2
  <2> QED BY <2>1, <2>2
<1> HIDE DEF unlinked
<1>3. loaded \in PathType /\ loaded.edges = unlinked.edges
    BY <1>1, <1>2, WithRowPath
<1>4. loaded.rank[s] = RankOf(s) /\ \A x \in Stops \ {s} : loaded.rank[x] = path.rank[x]
  <2>1. loaded.rank = [unlinked.rank EXCEPT ![s] = RankOf(s)]
      BY <1>2 DEF WithRow, PathType
  <2> HIDE DEF loaded
  <2> QED BY <1>1, <1>2, <2>1 DEF PathType, Stops
<1>5. ~dropped
  <2> HIDE DEF loaded
  <2> QED BY <1>1, <1>2, <1>3, <1>4 DEF RankTaken
<1>6. path' = AddEdge(loaded, s) /\ registered' = registered \cup {s}
      /\ astray' = Thrown(path', s) \cup (astray \ {s})
    BY <1>5 DEF Reload, unlinked
<1> HIDE DEF loaded
<1>7. path'.edges = loaded.edges \cup {s} /\ path'.rank = loaded.rank
    BY <1>1, <1>3, <1>6, AddEdgeFields DEF Stops
<1> QED BY <1>1, <1>2, <1>3, <1>4, <1>6, <1>7 DEF NothingLost, Thrown

LEMMA DispatchLossless ==
    ASSUME MirrorInv, Lossless, NEW t \in Threads, NEW s \in Stops, NEW about,
           Dispatches(t, about, s),
           \/ about = "insert" /\ IF s \in Present THEN Reload(s)
                                 ELSE UNCHANGED <<registered, path, astray>>
           \/ about = "update" /\ IF s \in Present \cap registered THEN Reload(s)
                                 ELSE UNCHANGED <<registered, path, astray>>
           \/ about = "delete" /\ IF s \in registered THEN Unload(s)
                                 ELSE UNCHANGED <<registered, path, astray>>
    PROVE  Lossless'
<1> DEFINE now == pending[t]
<1>1. /\ IInv /\ TypeOK /\ UNCHANGED <<rows, op, unloaded>> /\ registered = path.edges
      /\ path.edges \subseteq Stops
    BY DEF MirrorInv, IInv, TypeOK, Dispatches, Lossless, NothingLost, PathType, Stops
<1>2. /\ now \in Seq(Event) /\ 1 \in DOMAIN now /\ now[1].kind = about /\ s \in now[1].stops
      /\ Orderly(now, Ranks)
    BY <1>1 DEF TypeOK, Dispatches, Lossless, EventsOrderly
<1>3. about \in {"insert", "update"} /\ ~Idle(t)
    BY <1>2 DEF Orderly, Idle
<1>4. \A u \in Threads \ {t} : pending'[u] = pending[u]
    BY <1>1 DEF Dispatches, Dispatched, TypeOK
<1>5. OneAtWork'
  <2>1. \A u \in Threads : Idle(u) => Idle(u)'
      BY <1>1, <1>3, <1>4 DEF Idle
  <2> QED BY <2>1 DEF Lossless, OneAtWork
<1>6. DistinctRows' /\ SerialOperations' /\ LoadedFirst'
    BY <1>1, <1>3 DEF Lossless, DistinctRows, SerialOperations, SerialUpdate, SerialInsertion,
                     LoadedFirst, Present, RankOf, Ranks
<1>7. EventsOrderly'
  <2>1. Orderly(pending'[t], Ranks)
    <3>1. pending'[t] \in Seq(Event)
        BY <1>1, <1>2, DispatchedType DEF Dispatches
    <3>2. PICK d \in Nat : \A j \in DOMAIN pending'[t] :
                /\ j + d \in DOMAIN now
                /\ pending'[t][j].kind = now[j + d].kind
                /\ pending'[t][j].stops \subseteq now[j + d].stops
        BY <1>1, DispatchedRest
    <3> HIDE DEF now
    <3> QED BY <1>2, <3>1, <3>2, OrderlyRest
  <2>2. Ranks' = Ranks
      BY <1>1 DEF Ranks
  <2> QED BY <1>4, <2>1, <2>2 DEF Lossless, EventsOrderly
<1>8. NothingLost' /\ EdgesShown'
  <2>1. ASSUME NEW x \in path.edges, x # s
        PROVE  /\ x \in Present'
               /\ \/ path.rank[x] = RankOf(x)'
                  \/ path.rank[x] = RankOf(x)' - 1 /\ PendingTells("update", x)'
    <3>1. /\ x \in Present
          /\ \/ path.rank[x] = RankOf(x)
             \/ path.rank[x] = RankOf(x) - 1 /\ PendingTells("update", x)
        BY DEF Lossless, EdgesShown
    <3>2. PendingTells("update", x) => PendingTells("update", x)'
        BY <1>1, <2>1, DispatchedTells
    <3> QED BY <1>1, <3>1, <3>2 DEF Present, RankOf
  <2>2. CASE UNCHANGED <<registered, path, astray>> /\ s \notin path.edges
      BY <2>1, <2>2 DEF Lossless, NothingLost, EdgesShown
  <2>3. CASE s \in Present /\ Reload(s)
    <3>1. ASSUME NEW x \in path.edges \ {s} PROVE path.rank[x] # RankOf(s)
      <4>1. x \in Present /\ RankOf(x) # RankOf(s) /\ RankOf(x) \in Nat /\ RankOf(s) \in Nat
            /\ x \in Stops
          BY <1>1, <2>3, PresentRow DEF Lossless, EdgesShown, DistinctRows
      <4>2. CASE path.rank[x] = RankOf(x)
          BY <4>1, <4>2
      <4>3. CASE path.rank[x] = RankOf(x) - 1 /\ PendingTells("update", x)
        <5>1. PICK u \in Threads : \E i \in DOMAIN pending[u] :
                    pending[u][i].kind = "update" /\ x \in pending[u][i].stops
            BY <4>3 DEF PendingTells, Tells
        <5>2. u = t
          <6>1. ~Idle(u)
              BY <5>1 DEF Idle
          <6> QED BY <1>3, <6>1 DEF Lossless, OneAtWork
        <5>3. PICK i \in DOMAIN now : now[i].kind = "update" /\ x \in now[i].stops
            BY <5>1, <5>2
        <5>4. i \in Nat /\ (i = 1 \/ 1 < i)
            BY <1>2
        <5> HIDE DEF now
        <5>5. about = "update"
            BY <1>2, <1>3, <5>3, <5>4 DEF Orderly, UpdatesFirst
        <5>6. Ranks[x] = RankOf(x) /\ Ranks[s] = RankOf(s)
            BY <4>1 DEF Ranks, RankOf
        <5>7. RankOf(x) < RankOf(s)
            BY <1>2, <4>1, <5>3, <5>4, <5>5, <5>6 DEF Orderly, Falling
        <5> QED BY <4>1, <4>3, <5>7
      <4> QED BY <4>2, <4>3 DEF Lossless, EdgesShown
    <3>2. /\ NothingLost'
          /\ path'.edges = path.edges \cup {s}
          /\ path'.rank[s] = RankOf(s)
          /\ \A x \in Stops \ {s} : path'.rank[x] = path.rank[x]
        BY <1>1, <2>3, <3>1, ReloadLossless DEF Lossless
    <3>3. EdgesShown'
      <4>1. s \in Present' /\ path'.rank[s] = RankOf(s)'
          BY <1>1, <2>3, <3>2 DEF Present, RankOf
      <4>2. \A x \in path'.edges : x # s => x \in path.edges /\ path'.rank[x] = path.rank[x]
          BY <1>1, <3>2
      <4> QED BY <2>1, <4>1, <4>2 DEF EdgesShown
    <3> QED BY <3>2, <3>3
  <2>4. s \in path.edges => s \in Present
      BY DEF Lossless, EdgesShown
  <2> QED BY <1>1, <1>3, <2>2, <2>3, <2>4
<1> QED BY <1>5, <1>6, <1>7, <1>8 DEF Lossless

\* While an operation reads, memory and table are the same.
LEMMA NothingPending ==
    ASSUME MirrorInv, Lossless, NEW t \in Threads, op[t] # NoOp
    PROVE  /\ unloaded = {} /\ path.edges = Present
           /\ \A x \in Present : path.rank[x] = RankOf(x)
           /\ \A u \in Threads : pending[u] = <<>> /\ (u # t => op[u] = NoOp)
<1>1. ~Idle(t) /\ unloaded = {}
    BY DEF Idle, Lossless, LoadedFirst
<1>2. \A u \in Threads : pending[u] = <<>> /\ (u # t => op[u] = NoOp)
    BY <1>1 DEF Lossless, OneAtWork, Idle, MirrorInv, OneAtATime
<1>3. \A kind, x : ~PendingTells(kind, x)
    BY <1>2 DEF PendingTells, Tells
<1>4. \A x \in Stops : x \in Present => x \in path.edges
    BY <1>1, <1>3 DEF MirrorInv, AllOnTheirWay, OnItsWay, Mirrored, Lossless, NothingLost
<1>5. \A x \in path.edges : x \in Present /\ path.rank[x] = RankOf(x)
    BY <1>3 DEF Lossless, EdgesShown
<1> QED BY <1>1, <1>2, <1>4, <1>5 DEF Present

LEMMA StartLossless ==
    ASSUME MirrorInv, Lossless, NEW t \in Threads, NEW o, Start(t, o), ~past'.overlap,
           SerialUpdate(o) \/ SerialInsertion(o)
    PROVE  Lossless'
<1>1. /\ UNCHANGED <<rows, registered, path, pending, unloaded, astray>> /\ unloaded = {}
      /\ op' = [op EXCEPT ![t] = o]
      /\ \A u \in Threads : Idle(u)
      /\ op \in [Threads -> Operation]
    BY DEF Start, MirrorInv, IInv, TypeOK
<1>2. \A u \in Threads \ {t} : op'[u] = op[u]
    BY <1>1
<1>3. OneAtWork'
    BY <1>1, <1>2 DEF OneAtWork, Idle
<1>4. SerialOperations'
  <2>1. (SerialUpdate(o) \/ SerialInsertion(o))'
      BY <1>1 DEF SerialUpdate, SerialInsertion, Present, RankOf, Ranks
  <2>2. ASSUME NEW u \in Threads, op'[u] # NoOp PROVE u = t
      BY <1>1, <2>2 DEF Idle
  <2>3. op'[t] = o
      BY <1>1
  <2>4. SUFFICES ASSUME NEW u \in Threads, op'[u] # NoOp
                 PROVE  (SerialUpdate(op[u]) \/ SerialInsertion(op[u]))'
      BY DEF SerialOperations
  <2>5. op'[u] = o
      BY <2>2, <2>3, <2>4
  <2> QED BY <2>1, <2>5 DEF SerialUpdate, SerialInsertion
<1>5. NothingLost' /\ DistinctRows' /\ EdgesShown' /\ EventsOrderly' /\ LoadedFirst'
    BY <1>1 DEF Lossless, NothingLost, DistinctRows, EdgesShown, EventsOrderly, LoadedFirst,
               Present, RankOf, Ranks, PendingTells
<1> QED BY <1>3, <1>4, <1>5 DEF Lossless

LEMMA StartSerial ==
    ASSUME IInv, NEW t \in Threads, StartInsertion(t) \/ StartUpdate(t)
    PROVE  \E o : Start(t, o) /\ (SerialUpdate(o) \/ SerialInsertion(o))
<1>1. CASE StartInsertion(t)
  <2>1. PICK s \in Stops \ Present, k \in Kinds, r \in 0 .. Cardinality(Present), last \in LastRanks :
            Start(t, [NoOp EXCEPT !.kind = "insertion", !.stop = s,
                                  !.row = [rank |-> r, traits |-> k],
                                  !.last = last, !.todo = r .. last])
      BY <1>1 DEF StartInsertion
  <2> DEFINE todo == r .. last
             row == [rank |-> r, traits |-> k]
             o == [NoOp EXCEPT !.kind = "insertion", !.stop = s, !.row = row,
                               !.last = last, !.todo = todo]
  <2>2. \A x \in Present : RankOf(x) \in Nat /\ RankOf(x) <= last
      BY PresentRow DEF LastRanks, IInv
  <2>3. last \in Int /\ r \in Nat
      BY PresentRow DEF LastRanks, IInv, NoRank
  <2>4. row.rank = r
      OBVIOUS
  <2>5. \A x \in Present : RankOf(x) >= r => RankOf(x) \in todo
      BY <2>2, <2>3
  <2> HIDE DEF row, todo
  <2>6. o.kind = "insertion" /\ o.stop = s /\ o.row = row /\ o.last = last /\ o.todo = todo
        /\ o.events = <<>>
      BY DEF NoOp
  <2> HIDE DEF o
  <2>7. SerialInsertion(o)
      BY <2>2, <2>4, <2>5, <2>6 DEF SerialInsertion, Falling, todo
  <2> QED BY <2>1, <2>7 DEF o, row, todo
<1>2. CASE StartUpdate(t)
  <2>1. PICK s \in Present, k \in Kinds : \E x \in PreviousStops(s) :
            Start(t, [NoOp EXCEPT !.kind = "update", !.stop = s,
                                  !.row = [rows[s] EXCEPT !.traits = k],
                                  !.prev = x, !.prevRow = IF x = NoEdge THEN NoRow ELSE rows[x],
                                  !.events = (IF x = NoEdge THEN <<>>
                                              ELSE <<[kind |-> "insert", stops |-> {x}]>>)
                                             \o <<[kind |-> "insert", stops |-> {s}]>>])
      BY <1>2 DEF StartUpdate
  <2>2. PICK x \in PreviousStops(s) :
            Start(t, [NoOp EXCEPT !.kind = "update", !.stop = s,
                                  !.row = [rows[s] EXCEPT !.traits = k],
                                  !.prev = x, !.prevRow = IF x = NoEdge THEN NoRow ELSE rows[x],
                                  !.events = (IF x = NoEdge THEN <<>>
                                              ELSE <<[kind |-> "insert", stops |-> {x}]>>)
                                             \o <<[kind |-> "insert", stops |-> {s}]>>])
      BY <2>1
  <2>3. rows[s] \in Row /\ RankOf(s) \in Nat
      BY PresentRow DEF IInv
  <2>4. x # NoEdge => x \in Present /\ x # s
    <3>1. x # NoEdge => x \in Present /\ RankOf(x) + 1 = RankOf(s)
        BY DEF PreviousStops
    <3> QED BY <2>3, <3>1
  <2> DEFINE row == [rows[s] EXCEPT !.traits = k]
             first == IF x = NoEdge THEN <<>> ELSE <<[kind |-> "insert", stops |-> {x}]>>
             second == <<[kind |-> "insert", stops |-> {s}]>>
             events == first \o second
             prevRow == IF x = NoEdge THEN NoRow ELSE rows[x]
             o == [NoOp EXCEPT !.kind = "update", !.stop = s, !.row = row,
                               !.prev = x, !.prevRow = prevRow, !.events = events]
  <2>5. row.rank = RankOf(s)
      BY <2>3 DEF Row, RankOf
  <2>6. \A i \in DOMAIN events : events[i].kind = "insert"
    <3> DEFINE I == {e \in Event : e.kind = "insert"}
    <3>1. second \in Seq(I)
      <4>1. [kind |-> "insert", stops |-> {s}] \in I
          BY DEF Event, Present
      <4> QED BY <4>1
    <3>2. first \in Seq(I)
      <4>1. x # NoEdge => [kind |-> "insert", stops |-> {x}] \in I
          BY <2>4 DEF Event, Present
      <4> DEFINE e == [kind |-> "insert", stops |-> {x}]
      <4> HIDE DEF I, e
      <4>2. x # NoEdge => <<e>> \in Seq(I)
          BY <4>1 DEF e
      <4>3. <<>> \in Seq(I)
          OBVIOUS
      <4>4. first = IF x = NoEdge THEN <<>> ELSE <<e>>
          BY DEF e
      <4> QED BY <4>2, <4>3, <4>4
    <3> HIDE DEF first, second
    <3>3. events \in Seq(I)
        BY <3>1, <3>2
    <3> HIDE DEF events
    <3>4. \A i \in DOMAIN events : events[i] \in I
        BY <3>3
    <3> QED BY <3>4
  <2>7. x # NoEdge => prevRow = rows[x]
      OBVIOUS
  <2> HIDE DEF row, events, prevRow
  <2>8. o.kind = "update" /\ o.stop = s /\ o.row = row /\ o.prev = x /\ o.prevRow = prevRow
        /\ o.todo = {} /\ o.events = events
      BY DEF NoOp
  <2> HIDE DEF o
  <2>9. SerialUpdate(o)
      BY <2>4, <2>5, <2>6, <2>7, <2>8 DEF SerialUpdate
  <2> QED BY <2>2, <2>9 DEF o, row, events, prevRow
<1> QED BY <1>1, <1>2

\* The statement of the highest rank that is left is added after those of higher ranks.
LEMMA SelectLossless ==
    ASSUME MirrorInv, Lossless, NEW t \in Threads, SelectShifted(t)
    PROVE  Lossless'
<1> DEFINE o == op[t]
           r == NextShift(o.todo)
           hit == IF o.kind = "insertion" THEN Ranked(r) ELSE {s \in Present : RankOf(s) >= r}
           e == [kind |-> "update", stops |-> hit \ Told(o.events)]
           n == op'[t]
<1>1. /\ o \in Operation /\ o.todo # {} /\ o # NoOp /\ TypeOK
      /\ UNCHANGED <<rows, registered, path, pending, unloaded, astray>>
    BY DEF SelectShifted, MirrorInv, IInv, TypeOK, NoOp
<1>2. op' = [op EXCEPT ![t] = [o EXCEPT !.todo = @ \ {r}, !.events = Append(@, e)]]
    BY <1>1 DEF SelectShifted, TypeOK, Operation
<1>3. SerialInsertion(o)
    BY <1>1 DEF Lossless, SerialOperations, SerialUpdate
<1>4. o.todo \subseteq o.row.rank .. o.last /\ o.row.rank \in Nat
      /\ o.last \in Nat \cup {NoRank}
  <2>1. o.row \in Row
      BY <1>1 DEF MirrorInv, IInv, OperationsHaveRows
  <2> QED BY <1>1, <1>3, <2>1 DEF SerialInsertion, Operation, Row
<1>5. r \in o.todo /\ \A q \in o.todo : q <= r
  <2>1. o.todo \in SUBSET Nat /\ o.last + 1 \in Nat /\ \A q \in o.todo : q < o.last + 1
      BY <1>4 DEF NoRank
  <2>2. \E x \in o.todo : \A q \in o.todo : q <= x
      BY <1>1, <2>1, GreatestElement
  <2> QED BY <2>2 DEF NextShift
<1>6. e.kind = "update" /\ e.stops = Ranked(r) \ Told(o.events)
    BY <1>3 DEF SerialInsertion
<1> HIDE DEF r, e
<1>7. /\ n.kind = o.kind /\ n.stop = o.stop /\ n.row = o.row /\ n.last = o.last
      /\ n.todo = o.todo \ {r} /\ n.events = Append(o.events, e)
    BY <1>1, <1>2 DEF TypeOK, Operation
<1> DEFINE before == o.events
           after == n.events
<1>8. before \in Seq(Event) /\ after = Append(before, e)
    BY <1>1, <1>7 DEF Operation
<1> HIDE DEF n
<1>9. SerialInsertion(n)
  <2> HIDE DEF before, after
  <2>1. /\ \A j \in DOMAIN after : \/ j \in DOMAIN before /\ after[j] = before[j] /\ j < Len(after)
                                   \/ after[j] = e /\ j = Len(after)
        /\ \A j \in DOMAIN before : j \in DOMAIN after /\ after[j] = before[j]
        /\ Len(after) \in DOMAIN after /\ after[Len(after)] = e
        /\ DOMAIN after \subseteq Nat /\ Len(after) \in Nat
      BY <1>8
  <2>2. \A s \in Present : RankOf(s) \in Nat /\ s \in Stops /\ Ranks[s] = RankOf(s)
      BY <1>1, PresentRow DEF Ranks, RankOf
  <2>3. \A s \in e.stops : s \in Present /\ RankOf(s) = r
      BY <1>6 DEF Ranked
  <2>4. \A j \in DOMAIN before : /\ before[j].kind = "update"
                                 /\ \A s \in before[j].stops :
                                      /\ s \in Present /\ RankOf(s) >= o.row.rank
                                      /\ \A q \in o.todo : RankOf(s) > q
      BY <1>3 DEF SerialInsertion, before
  <2>5. r \in Nat /\ r >= o.row.rank /\ n.todo \subseteq o.todo /\ o.todo \subseteq Nat
      BY <1>4, <1>5, <1>7
  <2>6. \A q \in n.todo : r > q
      BY <1>5, <1>7, <2>5
  <2>7. \A j \in DOMAIN after : /\ after[j].kind = "update"
                                /\ \A s \in after[j].stops :
                                      /\ s \in Present /\ RankOf(s) >= o.row.rank
                                      /\ \A q \in n.todo : RankOf(s) > q
      BY <1>6, <2>1, <2>3, <2>4, <2>5, <2>6
  <2>8. ASSUME NEW s \in Present, RankOf(s) >= o.row.rank
        PROVE  RankOf(s) \in n.todo \/ s \in Told(after)
    <3>1. RankOf(s) \in o.todo \/ s \in Told(before)
        BY <1>3, <2>8 DEF SerialInsertion, before
    <3>2. s \in Told(before) => s \in Told(after)
        BY <2>1 DEF Told
    <3>3. RankOf(s) = r => s \in Told(before) \/ s \in e.stops
        BY <1>6, <2>8 DEF Ranked, before
    <3>4. s \in e.stops => s \in Told(after)
        BY <2>1 DEF Told
    <3> QED BY <1>7, <3>1, <3>2, <3>3, <3>4
  <2>9. Falling(after, Ranks)
    <3>1. SUFFICES ASSUME NEW i \in DOMAIN after, NEW j \in DOMAIN after,
                          NEW a \in after[i].stops, NEW b \in after[j].stops
                   PROVE  (i < j => Ranks[b] < Ranks[a]) /\ (i = j => Ranks[b] = Ranks[a])
        BY DEF Falling
    <3>2. CASE i \in DOMAIN before /\ j \in DOMAIN before
      <4>1. Falling(before, Ranks)
          BY <1>3 DEF SerialInsertion, before
      <4> QED BY <2>1, <2>4, <3>1, <3>2, <4>1 DEF Falling
    <3>3. CASE i \in DOMAIN before /\ j = Len(after)
      <4>1. a \in before[i].stops /\ b \in e.stops /\ i \in Nat
          BY <2>1, <3>1, <3>3
      <4>2. RankOf(b) = r /\ RankOf(a) > r /\ a \in Present /\ b \in Present
          BY <1>5, <2>3, <2>4, <3>3, <4>1
      <4>3. i < Len(after)
          BY <1>8, <3>3
      <4> QED BY <2>2, <2>5, <3>3, <4>1, <4>2, <4>3, <2>1
    <3>4. CASE i = Len(after) /\ j \in DOMAIN before
      <4>1. j < Len(after) /\ j \in Nat
          BY <1>8, <3>4
      <4> QED BY <2>1, <3>4, <4>1
    <3>5. CASE i = Len(after) /\ j = Len(after)
      <4>1. RankOf(a) = r /\ RankOf(b) = r /\ a \in Present /\ b \in Present
          BY <2>1, <2>3, <3>1, <3>5
      <4> QED BY <2>1, <2>2, <3>5, <4>1
    <3> QED BY <2>1, <3>2, <3>3, <3>4, <3>5
  <2> QED BY <1>3, <1>4, <1>7, <2>7, <2>8, <2>9 DEF SerialInsertion, after
<1>10. SerialOperations'
  <2>1. \A u \in Threads : u # t => op'[u] = op[u] /\ op[u] = NoOp
      BY <1>1, <1>2, NothingPending DEF TypeOK
  <2>2. (SerialInsertion(op[t]))'
      BY <1>1, <1>9 DEF SerialInsertion, Present, RankOf, Ranks, n
  <2> QED BY <2>1, <2>2 DEF SerialOperations
<1>11. OneAtWork'
  <2>1. \A u \in Threads : u # t => Idle(u)'
      BY <1>1, <1>2, NothingPending DEF TypeOK, Idle
  <2> QED BY <2>1 DEF OneAtWork
<1>12. LoadedFirst'
    BY <1>1, NothingPending DEF LoadedFirst
<1>13. NothingLost' /\ DistinctRows' /\ EdgesShown' /\ EventsOrderly'
    BY <1>1 DEF Lossless, NothingLost, DistinctRows, EdgesShown, EventsOrderly,
               Present, RankOf, Ranks, PendingTells
<1> QED BY <1>10, <1>11, <1>12, <1>13 DEF Lossless

\* The transaction of an insertion: every stop it shifts is one that it has told of.
LEMMA InsertionLossless ==
    ASSUME MirrorInv, Lossless, NEW t \in Threads, Commit(t), SerialInsertion(op[t])
    PROVE  /\ NothingLost' /\ DistinctRows' /\ EdgesShown'
           /\ Orderly(EventsOf(op[t]), Ranks')
<1> DEFINE o == op[t]
           events == EventsOf(o)
           before == o.events
           e == [kind |-> "insert", stops |-> {o.stop}]
           Low(x) == RankOf(x) < o.row.rank
<1>1. /\ o # NoOp /\ o.todo = {} /\ rows' = ResultOf(o)
      /\ pending' = [pending EXCEPT ![t] = events]
      /\ astray' = astray \cup {x \in Stops : rows'[x] # rows[x] /\ x \notin Told(events)}
      /\ UNCHANGED <<registered, path, unloaded>>
    BY DEF Commit
<1>2. /\ TypeOK /\ o \in Operation /\ o.row \in Row /\ o.stop \in Stops /\ o.row.rank \in Nat
      /\ o.kind = "insertion" /\ o.stop \notin Present
    BY <1>1 DEF MirrorInv, IInv, TypeOK, OperationsHaveRows, SerialInsertion, Row
<1>3. /\ path.edges = Present /\ \A x \in Present : path.rank[x] = RankOf(x)
      /\ \A u \in Threads : pending[u] = <<>>
    BY <1>1, NothingPending
<1>4. \A x \in Present : RankOf(x) \in Nat /\ x \in Stops /\ RankOf(x) <= o.last
                         /\ rows[x] \in Row /\ rows[x].rank = RankOf(x)
    BY <1>2, PresentRow DEF SerialInsertion, RankOf
<1>5. o.last \in Int
    BY <1>2 DEF Operation, NoRank
<1>6. before \in Seq(Event) /\ e \in Event /\ events = Append(before, e)
    BY <1>2, EventType DEF EventsOf, Operation
<1>7. /\ rows'[o.stop] = o.row
      /\ \A x \in Present : rows'[x] = IF Low(x) THEN rows[x] ELSE Shifted(rows[x], 1)
      /\ \A x \in Stops \ Present : x # o.stop => rows'[x] = rows[x]
    BY <1>1, <1>2, <1>4, <1>5 DEF ResultOf
<1>8. \A x \in Present : /\ x \in Present'
                         /\ RankOf(x)' = IF Low(x) THEN RankOf(x) ELSE RankOf(x) + 1
  <2>1. SUFFICES ASSUME NEW x \in Present
                 PROVE  /\ x \in Present'
                        /\ RankOf(x)' = IF Low(x) THEN RankOf(x) ELSE RankOf(x) + 1
      OBVIOUS
  <2>2. CASE Low(x)
      BY <1>4, <1>7, <2>2 DEF Present, RankOf
  <2>3. CASE ~Low(x)
    <3>1. \A row \in Row : Shifted(row, 1) \in Row /\ Shifted(row, 1).rank = row.rank + 1
        BY DEF Shifted, Row
    <3>2. rows'[x] = Shifted(rows[x], 1)
        BY <1>7, <2>3
    <3>3. rows'[x] \in Row /\ rows'[x].rank = RankOf(x) + 1
        BY <1>4, <3>1, <3>2
    <3> QED BY <1>4, <2>3, <3>3, NoRowIsNoRow DEF Present, RankOf
  <2> QED BY <2>2, <2>3
<1>0. PICK new \in Stops, rank \in Nat : new = o.stop /\ rank = o.row.rank
    BY <1>2
<1>9. new \in Present' /\ RankOf(new)' = rank
    BY <1>0, <1>2, <1>7, NoRowIsNoRow DEF Present, RankOf
<1>10. \A x \in Present' : x \in Present \/ x = new
    BY <1>0, <1>7 DEF Present
\* Each event of `before` tells of stops that the statement shifts.
<1>11. \A j \in DOMAIN before : before[j].kind = "update"
                                /\ \A x \in before[j].stops : x \in Present /\ ~Low(x)
    BY <1>2, <1>4 DEF SerialInsertion
<1>12. \A x \in Present : ~Low(x) => \E j \in DOMAIN before : x \in before[j].stops
  <2>1. \A x \in Present : ~Low(x) => x \in Told(before)
      BY <1>1, <1>2, <1>4 DEF SerialInsertion
  <2> QED BY <2>1 DEF Told
<1>13. /\ \A j \in DOMAIN events : \/ j \in DOMAIN before /\ events[j] = before[j] /\ j < Len(events)
                                   \/ events[j] = e /\ j = Len(events)
       /\ \A j \in DOMAIN before : j \in DOMAIN events /\ events[j] = before[j]
       /\ Len(events) \in DOMAIN events /\ events[Len(events)] = e
       /\ DOMAIN events \subseteq Nat /\ Len(events) \in Nat
  <2> HIDE DEF before, events, e
  <2> QED BY <1>6
<1>14. e.kind = "insert" /\ e.stops = {o.stop}
    OBVIOUS
<1> HIDE DEF events, before, e
<1>15. NothingLost'
  <2>1. \A x \in Stops : rows'[x] # rows[x] => x \in Told(events)
    <3>1. o.stop \in Told(events)
        BY <1>13, <1>14 DEF Told
    <3>2. \A x \in Present : ~Low(x) => x \in Told(events)
        BY <1>12, <1>13 DEF Told
    <3> QED BY <1>7, <3>1, <3>2
  <2> QED BY <1>1, <2>1 DEF Lossless, NothingLost
<1>16. DistinctRows'
  <2>1. ASSUME NEW x \in Present', NEW y \in Present', RankOf(x)' = RankOf(y)' PROVE x = y
    <3>1. CASE x \in Present /\ y \in Present
      <4>1. RankOf(x) = RankOf(y)
          BY <1>2, <1>4, <1>8, <2>1, <3>1
      <4> QED BY <3>1, <4>1 DEF Lossless, DistinctRows
    <3>2. CASE x = new /\ y \in Present
        BY <1>0, <1>4, <1>8, <1>9, <2>1, <3>2
    <3>3. CASE x \in Present /\ y = new
        BY <1>0, <1>4, <1>8, <1>9, <2>1, <3>3
    <3> QED BY <1>10, <3>1, <3>2, <3>3
  <2> QED BY <2>1 DEF DistinctRows
<1>17. EdgesShown'
  <2>1. ASSUME NEW x \in Present
        PROVE  /\ x \in Present'
               /\ \/ path.rank[x] = RankOf(x)'
                  \/ path.rank[x] = RankOf(x)' - 1 /\ PendingTells("update", x)'
    <3>1. CASE Low(x)
        BY <1>3, <1>8, <3>1
    <3>2. CASE ~Low(x)
      <4>1. path.rank[x] = RankOf(x)' - 1 /\ x \in Present'
          BY <1>3, <1>4, <1>8, <3>2
      <4>2. PICK j \in DOMAIN before : x \in before[j].stops /\ before[j].kind = "update"
          BY <1>11, <1>12, <3>2
      <4>3. j \in DOMAIN events /\ events[j].kind = "update" /\ x \in events[j].stops
          BY <1>13, <4>2
      <4>4. pending'[t] = events
          BY <1>1, <1>2 DEF TypeOK
      <4>5. PendingTells("update", x)'
          BY <4>3, <4>4 DEF PendingTells, Tells
      <4> QED BY <4>1, <4>5
    <3> QED BY <3>1, <3>2
  <2> QED BY <1>1, <1>3, <2>1 DEF EdgesShown
<1>18. Orderly(events, Ranks')
  <2>1. \A x \in Present : ~Low(x) => Ranks'[x] = Ranks[x] + 1 /\ Ranks[x] \in Nat
      BY <1>4, <1>8 DEF Ranks, RankOf
  <2>2. Falling(before, Ranks)
      BY DEF SerialInsertion, before
  <2>3. Falling(events, Ranks')
    <3>1. SUFFICES ASSUME NEW i \in DOMAIN events, NEW j \in DOMAIN events,
                          events[i].kind = "update", events[j].kind = "update",
                          NEW a \in events[i].stops, NEW b \in events[j].stops
                   PROVE  (i < j => Ranks'[b] < Ranks'[a]) /\ (i = j => Ranks'[b] = Ranks'[a])
        BY DEF Falling
    <3>2. i \in DOMAIN before /\ j \in DOMAIN before /\ a \in before[i].stops /\ b \in before[j].stops
          /\ before[i].kind = "update" /\ before[j].kind = "update"
        BY <1>13, <1>14, <3>1
    <3>3. a \in Present /\ ~Low(a) /\ b \in Present /\ ~Low(b)
        BY <1>11, <3>2
    <3>4. (i < j => Ranks[b] < Ranks[a]) /\ (i = j => Ranks[b] = Ranks[a])
        BY <2>2, <3>2 DEF Falling
    <3> QED BY <2>1, <3>3, <3>4
  <2>4. UpdatesFirst(events)
    <3>1. SUFFICES ASSUME NEW i \in DOMAIN events, NEW j \in DOMAIN events, i < j,
                          events[i].kind = "insert"
                   PROVE  FALSE
        BY DEF UpdatesFirst
    <3>2. i = Len(events)
        BY <1>11, <1>13, <3>1
    <3> QED BY <1>13, <3>1, <3>2
  <2>5. \A i \in DOMAIN events : events[i].kind # "delete"
      BY <1>11, <1>13, <1>14
  <2> QED BY <2>3, <2>4, <2>5 DEF Orderly
<1> QED BY <1>15, <1>16, <1>17, <1>18 DEF events

\* The transaction of an update leaves every rank as it is.
LEMMA UpdateLossless ==
    ASSUME MirrorInv, Lossless, NEW t \in Threads, Commit(t), SerialUpdate(op[t])
    PROVE  /\ NothingLost' /\ DistinctRows' /\ EdgesShown'
           /\ Orderly(EventsOf(op[t]), Ranks')
<1> DEFINE o == op[t]
<1>1. /\ o # NoOp /\ rows' = ResultOf(o)
      /\ astray' = astray \cup {x \in Stops : rows'[x] # rows[x] /\ x \notin Told(EventsOf(o))}
      /\ UNCHANGED <<registered, path, unloaded>>
    BY DEF Commit
<1>2. /\ TypeOK /\ o.row \in Row /\ o.stop \in Present /\ o.row.rank = RankOf(o.stop)
      /\ o.kind = "update" /\ ToldByKind(o)
    BY <1>1 DEF MirrorInv, IInv, OperationsHaveRows, OperationsTell, SerialUpdate
<1>3. path.edges = Present /\ \A x \in Present : path.rank[x] = RankOf(x)
    BY <1>1, NothingPending
<1>4. rows'[o.stop] = o.row /\ \A x \in Stops : x # o.stop => rows'[x] = rows[x]
    BY <1>1, <1>2, NoEdgeAssumption DEF ResultOf, SerialUpdate, Present, Stops
<1>5. \A x \in Stops : (x \in Present' <=> x \in Present) /\ rows'[x].rank = rows[x].rank
    BY <1>2, <1>4, NoRowIsNoRow DEF Present, RankOf
<1>6. Present' = Present /\ \A x : x \in Stops => RankOf(x)' = RankOf(x)
    BY <1>5 DEF Present, RankOf
<1>7. NothingLost'
  <2>1. o.stop \in Told(EventsOf(o))
      BY <1>2 DEF ToldByKind, Tells, Told, EventsOf
  <2> QED BY <1>1, <1>4, <2>1 DEF Lossless, NothingLost
<1>8. DistinctRows'
    BY <1>6 DEF Lossless, DistinctRows, Present
<1>9. EdgesShown'
    BY <1>1, <1>3, <1>6 DEF EdgesShown, Present
<1>10. Orderly(EventsOf(o), Ranks')
    BY <1>2 DEF SerialUpdate, EventsOf, Orderly, Falling, UpdatesFirst
<1> QED BY <1>7, <1>8, <1>9, <1>10

LEMMA CommitLossless ==
    ASSUME MirrorInv, Lossless, NEW t \in Threads, Commit(t)
    PROVE  Lossless'
<1>1. /\ op[t] # NoOp /\ op' = [op EXCEPT ![t] = NoOp]
      /\ pending' = [pending EXCEPT ![t] = EventsOf(op[t])]
      /\ unloaded' = unloaded /\ TypeOK
    BY DEF Commit, MirrorInv, IInv
<1>2. unloaded = {} /\ \A u \in Threads : pending[u] = <<>> /\ (u # t => op[u] = NoOp)
    BY <1>1, NothingPending
<1>3. NothingLost' /\ DistinctRows' /\ EdgesShown' /\ Orderly(EventsOf(op[t]), Ranks')
    BY <1>1, InsertionLossless, UpdateLossless DEF Lossless, SerialOperations
<1>4. SerialOperations'
    BY <1>1, <1>2 DEF SerialOperations, TypeOK
<1>5. \A u \in Threads : u # t => Idle(u)' /\ pending'[u] = <<>>
    BY <1>1, <1>2 DEF Idle, TypeOK
<1>6. \A rk : Orderly(<<>>, rk)
    BY DEF Orderly, Falling, UpdatesFirst
<1>7. EventsOrderly'
    BY <1>1, <1>3, <1>5, <1>6 DEF EventsOrderly, TypeOK
<1>8. OneAtWork' /\ LoadedFirst'
    BY <1>1, <1>2, <1>5 DEF OneAtWork, LoadedFirst
<1> QED BY <1>3, <1>4, <1>7, <1>8 DEF Lossless

LEMMA SkipLossless ==
    ASSUME MirrorInv, Lossless, NEW t \in Threads, SkipEmpty(t)
    PROVE  Lossless'
<1> DEFINE before == pending[t]
           after == Tail(before)
<1>1. /\ before # <<>> /\ Head(before).stops = {} /\ TypeOK
      /\ pending' = [pending EXCEPT ![t] = after]
      /\ UNCHANGED <<rows, registered, path, op, unloaded, astray>>
    BY DEF SkipEmpty, MirrorInv, IInv
<1>2. before \in Seq(Event) /\ ~Idle(t) /\ Orderly(before, Ranks)
    BY <1>1 DEF TypeOK, Idle, Lossless, EventsOrderly
<1>3. /\ after \in Seq(Event) /\ before[1].stops = {}
      /\ \A j \in DOMAIN after : j + 1 \in DOMAIN before /\ after[j] = before[j + 1]
      /\ \A i \in DOMAIN before : i = 1 \/ (i - 1 \in DOMAIN after /\ after[i - 1] = before[i])
  <2> HIDE DEF before
  <2> QED BY <1>1, <1>2
<1>4. pending'[t] = after /\ \A u \in Threads \ {t} : pending'[u] = pending[u]
    BY <1>1 DEF TypeOK
<1>5. EventsOrderly'
  <2>1. Orderly(after, Ranks)
    <3> HIDE DEF before, after
    <3>1. \A j \in DOMAIN after : /\ j + 1 \in DOMAIN before
                                  /\ after[j].kind = before[j + 1].kind
                                  /\ after[j].stops \subseteq before[j + 1].stops
        BY <1>3
    <3>2. 1 \in Nat
        OBVIOUS
    <3> QED BY <1>2, <1>3, <3>1, <3>2, OrderlyRest
  <2> QED BY <1>1, <1>4, <2>1 DEF Lossless, EventsOrderly, Ranks
<1>6. ASSUME NEW x, PendingTells("update", x) PROVE PendingTells("update", x)'
  <2>1. PICK u \in Threads : Tells(pending[u], "update", x)
      BY <1>6 DEF PendingTells
  <2>2. CASE u # t
      BY <1>4, <2>1, <2>2 DEF PendingTells
  <2>3. CASE u = t
    <3>1. Tells(after, "update", x)
      <4>1. PICK i \in DOMAIN before : before[i].kind = "update" /\ x \in before[i].stops
          BY <2>1, <2>3 DEF Tells
      <4> HIDE DEF before, after
      <4> QED BY <1>3, <4>1 DEF Tells
    <3> QED BY <1>4, <3>1 DEF PendingTells
  <2> QED BY <2>2, <2>3
<1>7. EdgesShown'
    BY <1>1, <1>6 DEF Lossless, EdgesShown, Present, RankOf
<1>8. OneAtWork'
  <2>1. \A u \in Threads : Idle(u) => Idle(u)'
      BY <1>1, <1>2, <1>4 DEF Idle
  <2> QED BY <2>1 DEF Lossless, OneAtWork
<1>9. NothingLost' /\ DistinctRows' /\ SerialOperations' /\ LoadedFirst'
    BY <1>1, <1>2 DEF Lossless, NothingLost, DistinctRows, SerialOperations, SerialUpdate,
                     SerialInsertion, LoadedFirst, Present, RankOf, Ranks
<1> QED BY <1>5, <1>7, <1>8, <1>9 DEF Lossless

LEMMA FirstSyncLossless ==
    ASSUME MirrorInv, Lossless, FirstSync
    PROVE  Lossless'
<1>1. PICK s \in unloaded : /\ unloaded' = unloaded \ {s} /\ Reload(s)
                            /\ UNCHANGED <<rows, op, pending, past>>
    BY DEF FirstSync
<1>2. s \in Present /\ IInv /\ path.edges \subseteq Stops
    BY DEF MirrorInv, IInv, UnloadedRows, TypeOK, PathType, Stops
<1>3. \A t \in Threads : Idle(t) /\ Idle(t)'
    BY <1>1 DEF Lossless, LoadedFirst, Idle
<1>4. \A x : ~PendingTells("update", x)
    BY <1>3 DEF Idle, PendingTells, Tells
<1>5. \A x \in path.edges : x \in Present /\ path.rank[x] = RankOf(x)
    BY <1>4 DEF Lossless, EdgesShown
<1>6. /\ NothingLost' /\ path'.edges = path.edges \cup {s}
      /\ path'.rank[s] = RankOf(s)
      /\ \A x \in Stops \ {s} : path'.rank[x] = path.rank[x]
  <2>1. \A x \in path.edges \ {s} : path.rank[x] # RankOf(s)
      BY <1>2, <1>5 DEF Lossless, DistinctRows
  <2> QED BY <1>1, <1>2, <2>1, ReloadLossless DEF Lossless
<1>7. EdgesShown'
    BY <1>1, <1>2, <1>5, <1>6 DEF EdgesShown, Present, RankOf
<1>8. OneAtWork' /\ LoadedFirst'
    BY <1>3 DEF OneAtWork, LoadedFirst
<1>9. DistinctRows' /\ EventsOrderly' /\ SerialOperations'
    BY <1>1 DEF Lossless, DistinctRows, EventsOrderly, SerialOperations, SerialUpdate,
               SerialInsertion, Present, RankOf, Ranks
<1> QED BY <1>6, <1>7, <1>8, <1>9 DEF Lossless

LEMMA NextSerial == SerialInv /\ [Next]_vars => SerialInv'
<1> SUFFICES ASSUME SerialInv, [Next]_vars PROVE SerialInv'
    OBVIOUS
<1>1. MirrorInv /\ MirrorInv' /\ IInv
    BY NextMirror DEF SerialInv, MirrorInv
<1>2. SUFFICES ASSUME Serial' PROVE Lossless'
    BY <1>1 DEF SerialInv
<1>3. ASSUME UNCHANGED past PROVE Lossless
    BY <1>2, <1>3 DEF SerialInv, Serial
<1>4. CASE UNCHANGED vars
    BY <1>3, <1>4 DEF vars, Lossless, OneAtWork, NothingLost, DistinctRows, EdgesShown,
       EventsOrderly, SerialOperations, SerialUpdate, SerialInsertion, LoadedFirst, Idle, Present,
       RankOf, Ranks, PendingTells
<1>5. CASE FirstSync
    BY <1>1, <1>3, <1>5, FirstSyncLossless DEF FirstSync
<1>6. ASSUME NEW t \in Threads, StartInsertion(t) \/ StartRemoval(t) \/ StartUpdate(t)
      PROVE  Lossless'
  <2>1. PICK o : Start(t, o) /\ ToldByKind(o)
      BY <1>1, <1>6, StartTells
  <2>2. past' = [started |-> past.started + 1, kinds |-> past.kinds \cup {o.kind},
                 overlap |-> past.overlap \/ \E u \in Threads : ~Idle(u)]
      BY <2>1 DEF Start
  <2>3. ~past'.overlap /\ "removal" \notin past'.kinds
      BY <1>2 DEF Serial
  <2>4. Lossless
      BY <2>2, <2>3 DEF SerialInv, Serial
  <2>5. CASE StartInsertion(t) \/ StartUpdate(t)
    <3>1. PICK q : Start(t, q) /\ (SerialUpdate(q) \/ SerialInsertion(q))
        BY <1>1, <2>5, StartSerial
    <3> QED BY <1>1, <2>3, <2>4, <3>1, StartLossless
  <2>6. CASE StartRemoval(t)
    <3>1. "removal" \in past'.kinds
      <4>1. PICK s \in Present :
                Start(t, [NoOp EXCEPT !.kind = "removal", !.stop = s, !.row = rows[s],
                                      !.todo = {RankOf(s) + 1},
                                      !.events = <<[kind |-> "delete", stops |-> {s}]>>])
          BY <2>6 DEF StartRemoval
      <4> DEFINE events == <<[kind |-> "delete", stops |-> {s}]>>
                 q == [NoOp EXCEPT !.kind = "removal", !.stop = s, !.row = rows[s],
                                   !.todo = {RankOf(s) + 1}, !.events = events]
      <4>2. q.kind = "removal"
        <5> HIDE DEF events
        <5> QED BY DEF NoOp
      <4>3. Start(t, q)
          BY <4>1
      <4> HIDE DEF q
      <4> QED BY <4>2, <4>3 DEF Start
    <3> QED BY <2>3, <3>1
  <2> QED BY <1>6, <2>5, <2>6
<1>7. ASSUME NEW t \in Threads, SelectShifted(t) PROVE Lossless'
    BY <1>1, <1>3, <1>7, SelectLossless DEF SelectShifted
<1>8. ASSUME NEW t \in Threads, Commit(t) PROVE Lossless'
    BY <1>1, <1>3, <1>8, CommitLossless DEF Commit
<1>9. ASSUME NEW t \in Threads, SkipEmpty(t) PROVE Lossless'
    BY <1>1, <1>3, <1>9, SkipLossless DEF SkipEmpty
<1>10. ASSUME NEW t \in Threads, DispatchInsert(t) \/ DispatchUpdate(t) \/ DispatchDelete(t)
       PROVE  Lossless'
  <2>1. Lossless
      BY <1>3, <1>10 DEF DispatchInsert, DispatchUpdate, DispatchDelete, Dispatches
  <2> QED BY <1>1, <1>10, <2>1, DispatchLossless
          DEF DispatchInsert, DispatchUpdate, DispatchDelete
<1> QED BY <1>4, <1>5, <1>6, <1>7, <1>8, <1>9, <1>10 DEF Next, Act, Dispatch

\* As long as insertions and updates come one after the other, the order in which InsertStop
\* shifts the ranks keeps every stop in memory, at the rank of its row.
THEOREM SerialInsertionsAreSafe == Spec => []SerialInsertionsLoseNothing
<1>1. Init => SerialInv
  <2> SUFFICES ASSUME Init PROVE SerialInv
      OBVIOUS
  <2>1. MirrorInv
      BY InitMirror
  <2>2. OneAtWork /\ LoadedFirst /\ SerialOperations
      BY DEF Init, OneAtWork, LoadedFirst, SerialOperations, Idle
  <2>3. NothingLost /\ EdgesShown /\ DistinctRows
      BY DEF Init, NothingLost, EdgesShown, DistinctRows, EmptyPath
  <2>4. EventsOrderly
      BY DEF Init, EventsOrderly, Orderly, Falling, UpdatesFirst
  <2> QED BY <2>1, <2>2, <2>3, <2>4 DEF SerialInv, Lossless
<1>2. SerialInv /\ [Next]_vars => SerialInv'
    BY NextSerial
<1>3. SerialInv => SerialInsertionsLoseNothing
    BY DEF SerialInv, Serial, Lossless, NothingLost, SerialInsertionsLoseNothing
<1> QED BY <1>1, <1>2, <1>3, PTL DEF Spec
=============================================================================
