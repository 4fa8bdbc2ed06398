----------------------------- MODULE PathLinks ------------------------------
(***************************************************************************)
(* The edges of a path of the graph (18_graph/Path, Edge) and the pointers *)
(* the journey planners follow: from each edge to its neighbours, to the   *)
(* next edge where one may alight, and to the last one where one may       *)
(* board, with a variant of each for the stops where a connection is       *)
(* possible.  Edges are added and removed in any order; each time the      *)
(* pointers are mended, not computed again.                                *)
(***************************************************************************)
EXTENDS Integers, FiniteSets

CONSTANTS Edges, NoEdge,
          Offset       \* metric offset of each edge

ASSUME NoEdgeAssumption == NoEdge \notin Edges
ASSUME OffsetAssumption == Offset \in [Edges -> Nat]

Pointers == [Edges -> Edges \cup {NoEdge}]

\* The pointers to edges of one kind.  The first two look towards the end of the path.
Forward == {"followingArrival", "followingConnectionArrival"}
Chains == Forward \cup {"previousDeparture", "previousConnectionDeparture"}

\* isArrivalAllowed, isDepartureAllowed, isConnectingEdge
Traits == {"arrival", "departure", "connecting"}

Served(c) == IF c \in Forward THEN "arrival" ELSE "departure"

\* What an edge must be for a chain to lead to it.
Needs(c) == IF c \in {"followingConnectionArrival", "previousConnectionDeparture"}
            THEN {Served(c), "connecting"} ELSE {Served(c)}

NoRank == -1

Offsets == {Offset[e] : e \in Edges}

\* A path: its edges (kept in the order of their ranks), their attributes, their
\* pointers, and _rankMap.  `unsure` is a history variable, see RemoveEdge.
PathType ==
    [edges : SUBSET Edges, rank : [Edges -> Nat], traits : [Edges -> SUBSET Traits],
     previous : Pointers, next : Pointers, chain : [Chains -> Pointers],
     rankAt : [Offsets -> Nat \cup {NoRank}], unsure : SUBSET Offsets]

Nowhere == [e \in Edges |-> NoEdge]

EmptyPath ==
    [edges |-> {}, rank |-> [e \in Edges |-> 0], traits |-> [e \in Edges |-> {}],
     previous |-> Nowhere, next |-> Nowhere, chain |-> [c \in Chains |-> Nowhere],
     rankAt |-> [o \in Offsets |-> NoRank], unsure |-> {}]

Target(p, e, c) == Needs(c) \subseteq p.traits[e]

\* a comes before b when one looks along chain c.
Precedes(p, c, a, b) ==
    IF c \in Forward THEN p.rank[a] < p.rank[b] ELSE p.rank[b] < p.rank[a]

-----------------------------------------------------------------------------
(* Path::addEdge *)

RankTaken(p, e) == \E x \in p.edges : p.rank[x] = p.rank[e]

Before(p, r) == {x \in p.edges : p.rank[x] < r}
After(p, r) == {x \in p.edges : p.rank[x] > r}

EdgeBefore(p, r) ==
    IF Before(p, r) = {} THEN NoEdge
    ELSE CHOOSE x \in Before(p, r) : \A y \in Before(p, r) : p.rank[y] <= p.rank[x]

EdgeAfter(p, r) ==
    IF After(p, r) = {} THEN NoEdge
    ELSE CHOOSE x \in After(p, r) : \A y \in After(p, r) : p.rank[x] <= p.rank[y]

\* The edges whose pointer is overwritten from edge `from` on, against the direction of
\* the chain: as long as they hold the same pointer.
Walk(p, c, from) ==
    {x \in p.edges :
        \A y \in p.edges :
            \/ Precedes(p, c, y, x) \/ Precedes(p, c, from, y)
            \/ p.chain[c][y] = p.chain[c][from]}
    \ {x \in p.edges : Precedes(p, c, from, x)}

\* Mutant: the pointers of the edge just before are mended, not of those further away.
Linked_OneStep(p, c, e, near, far) ==
    IF near = NoEdge
    THEN [p.chain[c] EXCEPT ![e] = IF Target(p, far, c) THEN far ELSE p.chain[c][far]]
    ELSE [x \in Edges |->
            IF x = e THEN p.chain[c][near]
            ELSE IF Target(p, e, c) /\ x = near THEN e
            ELSE p.chain[c][x]]

\* _linkEdge: chain c once e stands between near, from where one looks, and far.
Linked(p, c, e, near, far) ==
    IF near = NoEdge
    THEN [p.chain[c] EXCEPT ![e] = IF Target(p, far, c) THEN far ELSE p.chain[c][far]]
    ELSE [x \in Edges |->
            IF x = e THEN p.chain[c][near]
            ELSE IF Target(p, e, c) /\ x \in Walk(p, c, near) THEN e
            ELSE p.chain[c][x]]

\* _linkEdge leaves the pointers of an edge without neighbours as they are.
LinkEdge(p, e, prev, next) ==
    IF prev = NoEdge /\ next = NoEdge THEN p
    ELSE [p EXCEPT
            !.previous = [x \in Edges |-> IF x = e THEN prev ELSE IF x = next THEN e ELSE @[x]],
            !.next = [x \in Edges |-> IF x = e THEN next ELSE IF x = prev THEN e ELSE @[x]],
            !.chain = [c \in Chains |-> IF c \in Forward THEN Linked(p, c, e, prev, next)
                                        ELSE Linked(p, c, e, next, prev)]]

\* The offset of e leads to the first rank recorded for it.  The first edge of a path does
\* not replace an entry that is already there.
Recorded(p, e) ==
    LET old == p.rankAt[Offset[e]]
    IN  IF old = NoRank \/ (p.edges # {} /\ p.rank[e] < old)
        THEN [p.rankAt EXCEPT ![Offset[e]] = p.rank[e]] ELSE p.rankAt

\* addEdge throws if RankTaken.
AddEdge(p, e) ==
    [LinkEdge(p, e, EdgeBefore(p, p.rank[e]), EdgeAfter(p, p.rank[e]))
        EXCEPT !.edges = @ \cup {e}, !.rankAt = Recorded(p, e)]

-----------------------------------------------------------------------------
(* Path::removeEdge *)

Unlinked(p, c, e, near) ==
    [x \in Edges |->
        IF near # NoEdge /\ Served(c) \in p.traits[e] /\ x \in Walk(p, c, near)
        THEN p.chain[c][e] ELSE p.chain[c][x]]

UnlinkEdge(p, e) ==
    LET prev == p.previous[e]
        next == p.next[e]
    IN  [p EXCEPT
            !.previous = [x \in Edges |-> IF x = next THEN prev ELSE @[x]],
            !.next = [x \in Edges |-> IF x = prev THEN next ELSE @[x]],
            !.chain = [c \in Chains |-> Unlinked(p, c, e, IF c \in Forward THEN prev ELSE next)]]

\* Mutant: the entry of the removed edge is not replaced by that of the next edge there.
Forgotten_NoSearch(p, e) == [p.rankAt EXCEPT ![Offset[e]] = NoRank]

\* The entry of the offset is erased, then recorded again if an edge with the same offset
\* is met before one with a greater offset.
Forgotten(p, e) ==
    LET same == {x \in p.edges \ {e} :
                    /\ Offset[x] = Offset[e]
                    /\ \A y \in p.edges \ {e} :
                        p.rank[y] < p.rank[x] => Offset[y] < Offset[e]}
    IN  [p.rankAt EXCEPT ![Offset[e]] =
            IF same = {} THEN NoRank ELSE p.rank[CHOOSE x \in same : TRUE]]

\* Offsets never decrease along the path.
Monotone(p) == \A x, y \in p.edges : p.rank[x] < p.rank[y] => Offset[x] <= Offset[y]

\* Whether e is the last edge of the path is tested before whether it belongs to it.  The
\* history variable `unsure` has the offsets of which _rankMap may say something else than
\* the edges: what it held when the path was emptied, and what was erased while the
\* offsets decreased somewhere along the path.
RemoveEdge(p, e) ==
    IF \E x \in Edges : p.edges = {x}
    THEN [p EXCEPT !.edges = {},
                   !.unsure = @ \cup {o \in Offsets : p.rankAt[o] # NoRank}]
    ELSE IF e \notin p.edges THEN p
    ELSE [UnlinkEdge(p, e) EXCEPT
            !.edges = @ \ {e},
            !.rankAt = Forgotten(p, e),
            !.unsure = IF Monotone(p) THEN @ \ {Offset[e]} ELSE @ \cup {Offset[e]}]

-----------------------------------------------------------------------------
(* What the pointers must be, whatever the edges went through. *)

\* x is the first of the edges S after e, along chain c; there is none if x = NoEdge.
IsFirst(p, c, e, x, S) ==
    \/ x = NoEdge /\ \A y \in S : ~Precedes(p, c, e, y)
    \/ /\ x \in S /\ Precedes(p, c, e, x)
       /\ \A y \in S : ~(Precedes(p, c, e, y) /\ Precedes(p, c, y, x))

DistinctRanks(p) == \A x, y \in p.edges : p.rank[x] = p.rank[y] => x = y

NeighboursOK(p) ==
    \A e \in p.edges :
        /\ IsFirst(p, "followingArrival", e, p.next[e], p.edges)
        /\ IsFirst(p, "previousDeparture", e, p.previous[e], p.edges)

ChainsOK(p) ==
    \A e \in p.edges, c \in Chains :
        IsFirst(p, c, e, p.chain[c][e], {y \in p.edges : Target(p, y, c)})

LinksOK(p) == DistinctRanks(p) /\ NeighboursOK(p) /\ ChainsOK(p)

OffsetsOK(p) ==
    \A e \in p.edges : Offset[e] \notin p.unsure =>
        /\ \E x \in p.edges : Offset[x] = Offset[e] /\ p.rankAt[Offset[e]] = p.rank[x]
        /\ p.rankAt[Offset[e]] <= p.rank[e]
=============================================================================
