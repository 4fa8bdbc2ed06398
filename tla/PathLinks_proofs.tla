-------------------------- MODULE PathLinks_proofs --------------------------
(***************************************************************************)
(* Adding an edge to a path, or removing one, mends all its pointers and   *)
(* its map of ranks, for any set of edges, in any order.                   *)
(***************************************************************************)
EXTENDS PathLinks, NatLemmas

\* The part of PathType that the pointers depend on.
Typed(p) ==
    /\ p.edges \subseteq Edges
    /\ p.rank \in [Edges -> Nat]
    /\ p.previous \in Pointers /\ p.next \in Pointers
    /\ p.chain \in [Chains -> Pointers]

Targets(p, c) == {y \in p.edges : Target(p, y, c)}

\* e stands alone: its pointers are those it was created with.
Alone(p, e) ==
    /\ p.previous[e] = NoEdge /\ p.next[e] = NoEdge
    /\ \A c \in Chains : p.chain[c][e] = NoEdge

\* near is the neighbour of e from which one looks at e along chain c.
IsNear(p, c, e, near) ==
    IF near = NoEdge THEN \A x \in p.edges : ~Precedes(p, c, x, e)
    ELSE /\ near \in p.edges /\ Precedes(p, c, near, e)
         /\ \A x \in p.edges : Precedes(p, c, x, e) => x = near \/ Precedes(p, c, x, near)

\* far is the neighbour that one sees from e along chain c.
IsFar(p, c, e, far) ==
    IF far = NoEdge THEN \A x \in p.edges : ~Precedes(p, c, e, x)
    ELSE /\ far \in p.edges /\ Precedes(p, c, e, far)
         /\ \A x \in p.edges : Precedes(p, c, e, x) => x = far \/ Precedes(p, c, far, x)

\* Edges with distinct ranks are ordered along each chain.
LEMMA PrecedesIsAnOrder ==
    ASSUME NEW p, p.rank \in [Edges -> Nat], NEW c \in Chains
    PROVE  /\ \A a \in Edges : ~Precedes(p, c, a, a)
           /\ \A a, b, d \in Edges :
                Precedes(p, c, a, b) /\ Precedes(p, c, b, d) => Precedes(p, c, a, d)
           /\ \A a, b \in Edges :
                p.rank[a] # p.rank[b] => Precedes(p, c, a, b) \/ Precedes(p, c, b, a)
BY DEF Precedes

-----------------------------------------------------------------------------
(* One chain, when e is added between near and far. *)

LEMMA LinkedChain ==
    ASSUME NEW p, Typed(p), NEW c \in Chains, NEW e \in Edges \ p.edges,
           NEW near, NEW far, near # NoEdge \/ far # NoEdge,
           IsNear(p, c, e, near), IsFar(p, c, e, far),
           \A x, y \in p.edges \cup {e} : p.rank[x] = p.rank[y] => x = y,
           \A x \in p.edges : IsFirst(p, c, x, p.chain[c][x], Targets(p, c)),
           NEW q, q.edges = p.edges \cup {e}, q.rank = p.rank, q.traits = p.traits,
           q.chain[c] = Linked(p, c, e, near, far)
    PROVE  \A x \in q.edges : IsFirst(q, c, x, q.chain[c][x], Targets(q, c))
<1> DEFINE P(a, b) == Precedes(p, c, a, b)
           S == Targets(p, c)
           ch == p.chain[c]
<1>order. /\ \A a \in Edges : ~P(a, a)
          /\ \A a, b, d \in Edges : P(a, b) /\ P(b, d) => P(a, d)
          /\ \A a, b \in p.edges \cup {e} : a = b \/ P(a, b) \/ P(b, a)
    BY PrecedesIsAnOrder DEF Typed
<1>types. p.edges \subseteq Edges /\ e \in Edges /\ e \notin p.edges /\ S \subseteq p.edges
    BY DEF Typed, Targets
<1>chain. ch \in [Edges -> Edges \cup {NoEdge}]
    BY DEF Typed, Pointers
<1>prec. \A a, b : Precedes(q, c, a, b) = P(a, b)
    BY DEF Precedes
<1>target. Target(p, e, c) \in BOOLEAN
    BY DEF Target
<1>S. Targets(q, c) = IF Target(p, e, c) THEN S \cup {e} ELSE S
    BY <1>types DEF Targets, Target
<1>far. \A v : IsFirst(q, c, e, v, Targets(q, c)) <=>
             \/ v = NoEdge /\ \A y \in S : ~P(e, y)
             \/ v \in S /\ P(e, v) /\ \A y \in S : ~(P(e, y) /\ P(y, v))
    BY <1>S, <1>prec, <1>order, <1>types DEF IsFirst
<1>old. \A x \in p.edges :
            \/ ch[x] = NoEdge /\ \A y \in S : ~P(x, y)
            \/ ch[x] \in S /\ P(x, ch[x]) /\ \A y \in S : ~(P(x, y) /\ P(y, ch[x]))
    BY DEF IsFirst
<1> HIDE DEF P, S, ch
<1>no. NoEdge \notin S
    BY <1>types, NoEdgeAssumption
\* The new edge.
<1>1. ASSUME near = NoEdge PROVE IsFirst(q, c, e, q.chain[c][e], Targets(q, c))
  <2>1. far \in p.edges /\ P(e, far) /\ \A x \in p.edges : P(e, x) => x = far \/ P(far, x)
      BY <1>1 DEF IsFar, P
  <2>2. q.chain[c][e] = IF Target(p, far, c) THEN far ELSE ch[far]
      BY <1>1, <1>chain DEF Linked, ch
  <2>3. CASE Target(p, far, c)
    <3>1. far \in S
        BY <2>1, <2>3 DEF S, Targets
    <3> QED BY <3>1, <2>1, <2>2, <2>3, <1>far, <1>order, <1>types
  <2>4. CASE ~Target(p, far, c)
    <3>1. far \notin S
        BY <2>4 DEF S, Targets
    <3>2. \A y \in S : P(e, y) => P(far, y)
        BY <3>1, <2>1, <1>types
    <3>3. q.chain[c][e] = ch[far]
        BY <2>2, <2>4
    <3>4. CASE ch[far] = NoEdge /\ \A y \in S : ~P(far, y)
        BY <3>2, <3>3, <3>4, <1>far
    <3>5. CASE ch[far] \in S /\ P(far, ch[far]) /\ \A y \in S : ~(P(far, y) /\ P(y, ch[far]))
      <4>1. P(e, ch[far])
          BY <3>5, <2>1, <1>order, <1>types
      <4> QED BY <4>1, <3>2, <3>3, <3>5, <1>far
    <3> QED BY <3>4, <3>5, <1>old, <2>1
  <2> QED BY <2>3, <2>4
<1>2. ASSUME near # NoEdge
      PROVE  /\ near \in p.edges /\ P(near, e)
             /\ \A x \in p.edges : P(x, e) => x = near \/ P(x, near)
    BY <1>2 DEF IsNear, P
<1>3. ASSUME near # NoEdge PROVE IsFirst(q, c, e, q.chain[c][e], Targets(q, c))
  <2>1. q.chain[c][e] = ch[near]
      BY <1>3 DEF Linked, ch
  <2>2. \A y \in S : P(e, y) => P(near, y)
      BY <1>3, <1>2, <1>order, <1>types
  <2>3. \A y \in S : P(near, y) => P(e, y)
      BY <1>3, <1>2, <1>order, <1>types
  <2> QED BY <2>1, <2>2, <2>3, <1>far, <1>old, <1>2, <1>3
\* The others.
<1>4. ASSUME NEW x \in p.edges, q.chain[c][x] = ch[x], ~Target(p, e, c) \/ ~P(x, e)
      PROVE  IsFirst(q, c, x, q.chain[c][x], Targets(q, c))
  <2>1. \A y \in Targets(q, c) : P(x, y) => y \in S
      BY <1>4, <1>S
  <2>2. S \subseteq Targets(q, c)
      BY <1>S
  <2> QED BY <2>1, <2>2, <1>4, <1>old, <1>prec DEF IsFirst
<1>5. ASSUME NEW x \in p.edges, near = NoEdge
      PROVE  IsFirst(q, c, x, q.chain[c][x], Targets(q, c))
  <2>1. q.chain[c][x] = ch[x]
      BY <1>5, <1>types, <1>chain DEF Linked, ch
  <2>2. ~P(x, e)
      BY <1>5 DEF IsNear, P
  <2> QED BY <2>1, <2>2, <1>4
<1>6. ASSUME NEW x \in p.edges, near # NoEdge, ~Target(p, e, c)
      PROVE  IsFirst(q, c, x, q.chain[c][x], Targets(q, c))
  <2>1. q.chain[c][x] = ch[x]
      BY <1>6, <1>types DEF Linked, ch
  <2> QED BY <2>1, <1>6, <1>4
<1>7. ASSUME NEW x \in p.edges, near # NoEdge, Target(p, e, c), x \in Walk(p, c, near)
      PROVE  IsFirst(q, c, x, q.chain[c][x], Targets(q, c))
  <2>1. q.chain[c][x] = e
      BY <1>7, <1>types DEF Linked
  <2>2. ~P(near, x) /\ ch[x] = ch[near]
      BY <1>7, <1>order, <1>types DEF Walk, P, ch
  <2>3. P(x, e)
      BY <2>2, <1>2, <1>7, <1>order, <1>types
  <2>4. ASSUME NEW y \in S, P(x, y), P(y, e) PROVE FALSE
    <3>1. y = near \/ P(y, near)
        BY <2>4, <1>2, <1>7, <1>types
    <3>2. ch[near] \in S /\ P(near, ch[near]) /\ \A z \in S : ~(P(x, z) /\ P(z, ch[near]))
        BY <2>2, <2>4, <1>old, <1>no, <1>2, <1>7
    <3>3. P(y, ch[near])
        BY <3>1, <3>2, <1>2, <1>7, <1>order, <1>types
    <3> QED BY <3>2, <3>3, <2>4
  <2>5. e \in Targets(q, c) /\ \A y \in Targets(q, c) : y = e \/ y \in S
      BY <1>S, <1>7
  <2> QED BY <2>1, <2>3, <2>4, <2>5, <1>prec, <1>order, <1>types DEF IsFirst
<1>8. ASSUME NEW x \in p.edges, near # NoEdge, Target(p, e, c), x \notin Walk(p, c, near)
      PROVE  IsFirst(q, c, x, q.chain[c][x], Targets(q, c))
  <2>1. q.chain[c][x] = ch[x]
      BY <1>8, <1>types DEF Linked, ch
  <2>2. CASE P(near, x)
    <3>1. ~P(x, e)
        BY <2>2, <1>2, <1>8, <1>order, <1>types
    <3> QED BY <3>1, <2>1, <1>4
  <2>3. CASE ~P(near, x)
    <3>1. PICK y \in p.edges : ~P(y, x) /\ ~P(near, y) /\ ch[y] # ch[near]
        BY <2>3, <1>8 DEF Walk, P, ch
    <3>2. (y = x \/ P(x, y)) /\ (y = near \/ P(y, near)) /\ P(x, near)
        BY <3>1, <2>3, <1>2, <1>8, <1>order, <1>types
    <3>3. ch[x] \in S /\ P(x, ch[x]) /\ \A z \in S : ~(P(x, z) /\ P(z, ch[x]))
      <4>1. CASE ch[x] = NoEdge /\ \A z \in S : ~P(x, z)
        <5>1. \A z \in S : ~P(y, z) /\ ~P(near, z)
            BY <4>1, <3>2, <1>2, <1>8, <1>order, <1>types
        <5>2. ch[y] = NoEdge /\ ch[near] = NoEdge
            BY <5>1, <1>old, <1>2, <1>8
        <5> QED BY <5>2, <3>1
      <4> QED BY <4>1, <1>old
    <3>4. P(ch[x], e)
      <4>1. ASSUME P(near, ch[x]) PROVE FALSE
        <5>1. P(y, ch[x])
            BY <4>1, <3>2, <3>3, <1>2, <1>8, <1>order, <1>types
        <5>2. ASSUME NEW z \in p.edges, z = x \/ P(x, z), P(z, ch[x]) PROVE ch[z] = ch[x]
          <6>1. \A w \in S : ~(P(z, w) /\ P(w, ch[x]))
              BY <5>2, <3>3, <1>order, <1>types
          <6>2. ch[z] \in S /\ P(z, ch[z]) /\ \A w \in S : ~(P(z, w) /\ P(w, ch[z]))
              BY <5>2, <3>3, <1>old
          <6> QED BY <6>1, <6>2, <5>2, <3>3, <1>order, <1>types
        <5>3. ch[y] = ch[x] /\ ch[near] = ch[x]
            BY <5>1, <5>2, <4>1, <3>2, <1>2, <1>8
        <5> QED BY <5>3, <3>1
      <4>2. ch[x] = near \/ P(ch[x], near)
          BY <4>1, <3>3, <1>2, <1>8, <1>order, <1>types
      <4> QED BY <4>2, <3>3, <1>2, <1>8, <1>order, <1>types
    <3>5. \A w \in Targets(q, c) : w = e \/ w \in S
        BY <1>S
    <3>6. ~P(e, ch[x])
        BY <3>3, <3>4, <1>order, <1>types
    <3>7. ch[x] \in Targets(q, c)
        BY <3>3, <1>S
    <3> QED BY <3>3, <3>5, <3>6, <3>7, <2>1, <1>prec DEF IsFirst
  <2> QED BY <2>2, <2>3
<1> QED BY <1>1, <1>3, <1>5, <1>6, <1>7, <1>8

-----------------------------------------------------------------------------
(* One chain, when e is removed. *)

LEMMA UnlinkedChain ==
    ASSUME NEW p, Typed(p), DistinctRanks(p), NEW c \in Chains, NEW e \in p.edges,
           NEW near, IsNear(p, c, e, near),
           \A x \in p.edges : IsFirst(p, c, x, p.chain[c][x], Targets(p, c)),
           NEW q, q.edges = p.edges \ {e}, q.rank = p.rank, q.traits = p.traits,
           q.chain[c] = Unlinked(p, c, e, near)
    PROVE  \A x \in q.edges : IsFirst(q, c, x, q.chain[c][x], Targets(q, c))
<1> DEFINE P(a, b) == Precedes(p, c, a, b)
           S == Targets(p, c)
           ch == p.chain[c]
<1>order. /\ \A a \in Edges : ~P(a, a)
          /\ \A a, b, d \in Edges : P(a, b) /\ P(b, d) => P(a, d)
          /\ \A a, b \in p.edges : a = b \/ P(a, b) \/ P(b, a)
    BY PrecedesIsAnOrder DEF Typed, DistinctRanks
<1>types. p.edges \subseteq Edges /\ e \in Edges /\ S \subseteq p.edges
    BY DEF Typed, Targets
<1>prec. \A a, b : Precedes(q, c, a, b) = P(a, b)
    BY DEF Precedes
<1>S. Targets(q, c) = S \ {e}
    BY <1>types DEF Targets, Target
<1>served. e \in S => Served(c) \in p.traits[e]
    BY DEF Targets, Target, Needs
<1>old. \A x \in p.edges :
            \/ ch[x] = NoEdge /\ \A y \in S : ~P(x, y)
            \/ ch[x] \in S /\ P(x, ch[x]) /\ \A y \in S : ~(P(x, y) /\ P(y, ch[x]))
    BY DEF IsFirst
<1>new. \A x \in q.edges : \A v :
            IsFirst(q, c, x, v, Targets(q, c)) <=>
                \/ v = NoEdge /\ \A y \in S \ {e} : ~P(x, y)
                \/ v \in S \ {e} /\ P(x, v) /\ \A y \in S \ {e} : ~(P(x, y) /\ P(y, v))
    BY <1>S, <1>prec DEF IsFirst
<1>value. \A x \in q.edges : q.chain[c][x] =
            IF near # NoEdge /\ Served(c) \in p.traits[e] /\ x \in Walk(p, c, near)
            THEN ch[e] ELSE ch[x]
    BY <1>types DEF Unlinked, ch
<1> HIDE DEF P, S, ch
<1>no. NoEdge \notin S
    BY <1>types, NoEdgeAssumption
<1>near. near # NoEdge =>
            /\ near \in p.edges /\ P(near, e)
            /\ \A x \in p.edges : P(x, e) => x = near \/ P(x, near)
    BY DEF IsNear, P
\* A pointer that does not lead to e stays.
<1>1. ASSUME NEW x \in q.edges, q.chain[c][x] = ch[x], ch[x] # e
      PROVE  IsFirst(q, c, x, q.chain[c][x], Targets(q, c))
    BY <1>1, <1>old, <1>new
\* A pointer that leads to e belongs to the walk.
<1>2. ASSUME NEW x \in q.edges, ch[x] = e
      PROVE  /\ near # NoEdge /\ Served(c) \in p.traits[e] /\ x \in Walk(p, c, near)
             /\ e \in S /\ P(x, e) /\ \A y \in S : ~(P(x, y) /\ P(y, e))
  <2>1. e \in S /\ P(x, e) /\ \A y \in S : ~(P(x, y) /\ P(y, e))
      BY <1>2, <1>old, <1>types, NoEdgeAssumption
  <2>2. near # NoEdge
      BY <2>1 DEF IsNear, P
  <2>3. x = near \/ P(x, near)
      BY <2>1, <2>2, <1>near, <1>2
  <2>4. ASSUME NEW y \in p.edges, y = x \/ P(x, y), y = near \/ P(y, near) PROVE ch[y] = e
    <3>1. P(y, e)
        BY <2>4, <2>2, <1>near, <1>order, <1>types
    <3>2. \A w \in S : ~(P(y, w) /\ P(w, e))
        BY <2>4, <2>1, <1>2, <1>order, <1>types
    <3>3. ch[y] \in S /\ P(y, ch[y]) /\ \A w \in S : ~(P(y, w) /\ P(w, ch[y]))
        BY <3>1, <2>1, <1>old
    <3> QED BY <3>1, <3>2, <3>3, <2>1, <1>order, <1>types
  <2>5. ch[near] = e
      BY <2>4, <2>2, <2>3, <1>near, <1>2
  <2>6. ASSUME NEW y \in p.edges, ~P(y, x), ~P(near, y) PROVE ch[y] = e
      BY <2>6, <2>4, <2>2, <1>near, <1>order, <1>types, <1>2
  <2>7. ~P(near, x)
      BY <2>3, <2>2, <1>near, <1>order, <1>types, <1>2
  <2>8. x \in Walk(p, c, near)
      BY <2>5, <2>6, <2>7, <1>2 DEF Walk, P, ch
  <2> QED BY <2>1, <2>2, <2>8, <1>served
<1>3. ASSUME NEW x \in q.edges, near # NoEdge, Served(c) \in p.traits[e], x \in Walk(p, c, near)
      PROVE  IsFirst(q, c, x, q.chain[c][x], Targets(q, c))
  <2>1. q.chain[c][x] = ch[e]
      BY <1>3, <1>value
  <2>2. ~P(near, x) /\ ch[x] = ch[near]
      BY <1>3, <1>near, <1>order, <1>types DEF Walk, P, ch
  <2>3. P(x, e) /\ (x = near \/ P(x, near))
      BY <2>2, <1>near, <1>3, <1>order, <1>types
  <2>4. CASE ch[x] = e
    <3>1. \A y \in S \ {e} : P(x, y) => P(e, y)
        BY <2>4, <1>2, <1>order, <1>types
    <3>2. ch[e] \in S => ch[e] # e /\ P(x, ch[e])
        BY <2>3, <1>old, <1>no, <1>order, <1>types
    <3> QED BY <3>1, <3>2, <2>1, <1>old, <1>new
  <2>5. CASE ch[x] # e
    <3>1. e \notin S
      <4>1. SUFFICES ASSUME e \in S PROVE FALSE
          OBVIOUS
      <4>2. ch[near] \in S /\ P(near, ch[near]) /\ ~(P(near, e) /\ P(e, ch[near]))
          BY <4>1, <1>near, <1>3, <1>old
      <4>3. P(ch[near], e)
          BY <4>2, <2>2, <2>5, <1>near, <1>3, <1>order, <1>types
      <4> QED BY <4>2, <4>3, <1>near, <1>3, <1>order, <1>types
    <3>2. ch[e] = ch[near]
      <4>1. \A y \in S : P(near, y) <=> P(e, y)
          BY <3>1, <1>near, <1>3, <1>order, <1>types
      <4> QED BY <4>1, <1>old, <1>near, <1>3, <1>order, <1>types
    <3> QED BY <3>2, <2>1, <2>2, <2>5, <1>1
  <2> QED BY <2>4, <2>5
<1>4. ASSUME NEW x \in q.edges,
             ~(near # NoEdge /\ Served(c) \in p.traits[e] /\ x \in Walk(p, c, near))
      PROVE  IsFirst(q, c, x, q.chain[c][x], Targets(q, c))
    BY <1>4, <1>1, <1>2, <1>value
<1> QED BY <1>3, <1>4

-----------------------------------------------------------------------------
(* The neighbours of a rank. *)

LEMMA EdgeBeforeProperties ==
    ASSUME NEW p, Typed(p), NEW r \in Nat
    PROVE  IF Before(p, r) = {} THEN EdgeBefore(p, r) = NoEdge
           ELSE /\ EdgeBefore(p, r) \in Before(p, r)
                /\ \A y \in Before(p, r) : p.rank[y] <= p.rank[EdgeBefore(p, r)]
<1>1. CASE Before(p, r) = {}
    BY <1>1 DEF EdgeBefore
<1>2. CASE Before(p, r) # {}
  <2> DEFINE T == {p.rank[x] : x \in Before(p, r)}
  <2>1. T \in SUBSET Nat /\ T # {} /\ \A k \in T : k < r
      BY <1>2 DEF Before, Typed
  <2>2. PICK k \in T : \A m \in T : m <= k
      BY <2>1, GreatestElement
  <2>3. \E x \in Before(p, r) : \A y \in Before(p, r) : p.rank[y] <= p.rank[x]
      BY <2>2
  <2> HIDE DEF T
  <2> QED BY <1>2, <2>3 DEF EdgeBefore
<1> QED BY <1>1, <1>2

LEMMA EdgeAfterProperties ==
    ASSUME NEW p, Typed(p), NEW r \in Nat
    PROVE  IF After(p, r) = {} THEN EdgeAfter(p, r) = NoEdge
           ELSE /\ EdgeAfter(p, r) \in After(p, r)
                /\ \A y \in After(p, r) : p.rank[EdgeAfter(p, r)] <= p.rank[y]
<1>1. CASE After(p, r) = {}
    BY <1>1 DEF EdgeAfter
<1>2. CASE After(p, r) # {}
  <2> DEFINE T == {p.rank[x] : x \in After(p, r)}
  <2>1. T \in SUBSET Nat /\ T # {}
      BY <1>2 DEF After, Typed
  <2>2. PICK k \in T : \A m \in T : k <= m
      BY <2>1, LeastElement
  <2>3. \E x \in After(p, r) : \A y \in After(p, r) : p.rank[x] <= p.rank[y]
      BY <2>2
  <2> HIDE DEF T
  <2> QED BY <1>2, <2>3 DEF EdgeAfter
<1> QED BY <1>1, <1>2

\* Looking along a chain, an edge whose rank is new stands between the two neighbours of
\* its rank.
LEMMA RankNeighbours ==
    ASSUME NEW p, Typed(p), DistinctRanks(p), NEW e \in Edges, ~RankTaken(p, e),
           NEW c \in Chains
    PROVE  LET prev == EdgeBefore(p, p.rank[e])
               next == EdgeAfter(p, p.rank[e])
           IN  /\ IsNear(p, c, e, IF c \in Forward THEN prev ELSE next)
               /\ IsFar(p, c, e, IF c \in Forward THEN next ELSE prev)
<1> DEFINE prev == EdgeBefore(p, p.rank[e])
           next == EdgeAfter(p, p.rank[e])
<1>1. p.rank \in [Edges -> Nat] /\ p.edges \subseteq Edges
    BY DEF Typed
<1>2. IF Before(p, p.rank[e]) = {} THEN prev = NoEdge
      ELSE prev \in Before(p, p.rank[e]) /\ \A y \in Before(p, p.rank[e]) : p.rank[y] <= p.rank[prev]
    BY <1>1, EdgeBeforeProperties
<1>3. IF After(p, p.rank[e]) = {} THEN next = NoEdge
      ELSE next \in After(p, p.rank[e]) /\ \A y \in After(p, p.rank[e]) : p.rank[next] <= p.rank[y]
    BY <1>1, EdgeAfterProperties
<1> HIDE DEF prev, next
<1>4. prev = NoEdge <=> \A x \in p.edges : ~(p.rank[x] < p.rank[e])
    BY <1>1, <1>2, NoEdgeAssumption DEF Before
<1>5. next = NoEdge <=> \A x \in p.edges : ~(p.rank[e] < p.rank[x])
    BY <1>1, <1>3, NoEdgeAssumption DEF After
<1>6. prev # NoEdge => /\ prev \in p.edges /\ p.rank[prev] < p.rank[e]
                       /\ \A x \in p.edges : p.rank[x] < p.rank[e] => x = prev \/ p.rank[x] < p.rank[prev]
    BY <1>1, <1>2 DEF Before, DistinctRanks
<1>7. next # NoEdge => /\ next \in p.edges /\ p.rank[e] < p.rank[next]
                       /\ \A x \in p.edges : p.rank[e] < p.rank[x] => x = next \/ p.rank[next] < p.rank[x]
    BY <1>1, <1>3 DEF After, DistinctRanks
<1>8. CASE c \in Forward
    BY <1>4, <1>5, <1>6, <1>7, <1>8 DEF IsNear, IsFar, Precedes, prev, next
<1>9. CASE c \notin Forward
    BY <1>4, <1>5, <1>6, <1>7, <1>9 DEF IsNear, IsFar, Precedes, prev, next
<1> QED BY <1>8, <1>9

\* The pointers to the neighbours are what IsNear asks for.
LEMMA PointedNeighbours ==
    ASSUME NEW p, Typed(p), LinksOK(p), NEW e \in p.edges, NEW c \in Chains
    PROVE  /\ IsNear(p, c, e, IF c \in Forward THEN p.previous[e] ELSE p.next[e])
           /\ IsFar(p, c, e, IF c \in Forward THEN p.next[e] ELSE p.previous[e])
<1>1. p.rank \in [Edges -> Nat] /\ p.edges \subseteq Edges
    BY DEF Typed
<1>2. /\ IsFirst(p, "followingArrival", e, p.next[e], p.edges)
      /\ IsFirst(p, "previousDeparture", e, p.previous[e], p.edges)
    BY DEF LinksOK, NeighboursOK
<1>3. DistinctRanks(p)
    BY DEF LinksOK
<1>4. \/ p.next[e] = NoEdge /\ \A x \in p.edges : ~(p.rank[e] < p.rank[x])
      \/ /\ p.next[e] \in p.edges /\ p.rank[e] < p.rank[p.next[e]]
         /\ \A x \in p.edges : p.rank[e] < p.rank[x] => x = p.next[e] \/ p.rank[p.next[e]] < p.rank[x]
    BY <1>1, <1>2, <1>3 DEF IsFirst, Precedes, Forward, DistinctRanks
<1>5. \/ p.previous[e] = NoEdge /\ \A x \in p.edges : ~(p.rank[x] < p.rank[e])
      \/ /\ p.previous[e] \in p.edges /\ p.rank[p.previous[e]] < p.rank[e]
         /\ \A x \in p.edges : p.rank[x] < p.rank[e] => x = p.previous[e] \/ p.rank[x] < p.rank[p.previous[e]]
    BY <1>1, <1>2, <1>3 DEF IsFirst, Precedes, Forward, DistinctRanks
<1>6. NoEdge \notin p.edges
    BY <1>1, NoEdgeAssumption
<1>7. CASE c \in Forward
    BY <1>4, <1>5, <1>6, <1>7 DEF IsNear, IsFar, Precedes
<1>8. CASE c \notin Forward
    BY <1>4, <1>5, <1>6, <1>8 DEF IsNear, IsFar, Precedes
<1> QED BY <1>7, <1>8

-----------------------------------------------------------------------------
(* Whole paths. *)

LEMMA PathTyped ==
    ASSUME NEW p \in PathType
    PROVE  Typed(p)
BY DEF PathType, Typed

LEMMA LinkedType ==
    ASSUME NEW p, Typed(p), NEW c \in Chains, NEW e \in Edges,
           NEW near \in Edges \cup {NoEdge}, NEW far \in Edges \cup {NoEdge},
           near # NoEdge \/ far # NoEdge
    PROVE  Linked(p, c, e, near, far) \in Pointers
<1>1. p.chain[c] \in [Edges -> Edges \cup {NoEdge}]
    BY DEF Typed, Pointers
<1>2. CASE near = NoEdge
  <2>1. (IF Target(p, far, c) THEN far ELSE p.chain[c][far]) \in Edges \cup {NoEdge}
      BY <1>1, <1>2
  <2>2. Linked(p, c, e, near, far) =
            [p.chain[c] EXCEPT ![e] = IF Target(p, far, c) THEN far ELSE p.chain[c][far]]
      BY <1>2 DEF Linked
  <2> QED BY <1>1, <2>1, <2>2 DEF Pointers
<1>3. CASE near # NoEdge
  <2>1. Linked(p, c, e, near, far) =
            [x \in Edges |->
                IF x = e THEN p.chain[c][near]
                ELSE IF Target(p, e, c) /\ x \in Walk(p, c, near) THEN e
                ELSE p.chain[c][x]]
      BY <1>3 DEF Linked
  <2>2. \A x \in Edges : (IF x = e THEN p.chain[c][near]
                ELSE IF Target(p, e, c) /\ x \in Walk(p, c, near) THEN e
                ELSE p.chain[c][x]) \in Edges \cup {NoEdge}
      BY <1>1, <1>3
  <2> QED BY <2>1, <2>2 DEF Pointers
<1> QED BY <1>2, <1>3

LEMMA NeighbourTypes ==
    ASSUME NEW p, Typed(p), NEW r \in Nat
    PROVE  EdgeBefore(p, r) \in Edges \cup {NoEdge} /\ EdgeAfter(p, r) \in Edges \cup {NoEdge}
BY EdgeBeforeProperties, EdgeAfterProperties DEF Before, After, Typed

\* What addEdge makes of each member of the path.
LEMMA AddEdgeFields ==
    ASSUME NEW p \in PathType, NEW e \in Edges
    PROVE  LET prev == EdgeBefore(p, p.rank[e])
               next == EdgeAfter(p, p.rank[e])
               q == AddEdge(p, e)
           IN  /\ q \in PathType
               /\ q.edges = p.edges \cup {e} /\ q.rank = p.rank /\ q.traits = p.traits
               /\ IF prev = NoEdge /\ next = NoEdge
                  THEN q.previous = p.previous /\ q.next = p.next /\ q.chain = p.chain
                  ELSE /\ q.previous = [x \in Edges |-> IF x = e THEN prev
                                            ELSE IF x = next THEN e ELSE p.previous[x]]
                       /\ q.next = [x \in Edges |-> IF x = e THEN next
                                            ELSE IF x = prev THEN e ELSE p.next[x]]
                       /\ q.chain = [c \in Chains |-> IF c \in Forward
                                            THEN Linked(p, c, e, prev, next)
                                            ELSE Linked(p, c, e, next, prev)]
<1> DEFINE prev == EdgeBefore(p, p.rank[e])
           next == EdgeAfter(p, p.rank[e])
           l == LinkEdge(p, e, prev, next)
           q == AddEdge(p, e)
<1>1. p.rank[e] \in Nat /\ Typed(p)
    BY PathTyped DEF PathType
<1>2. prev \in Edges \cup {NoEdge} /\ next \in Edges \cup {NoEdge}
    BY <1>1, NeighbourTypes
<1>3. q = [l EXCEPT !.edges = @ \cup {e}, !.rankAt = Recorded(p, e)]
    BY DEF AddEdge
<1>4. Recorded(p, e) \in [Offsets -> Nat \cup {NoRank}]
  <2>1. Offset[e] \in Offsets /\ p.rankAt \in [Offsets -> Nat \cup {NoRank}]
      BY DEF Offsets, PathType
  <2> QED BY <2>1, <1>1 DEF Recorded
<1> HIDE DEF prev, next
<1>5. l \in PathType /\ l.edges = p.edges /\ l.rank = p.rank /\ l.traits = p.traits
      /\ IF prev = NoEdge /\ next = NoEdge
         THEN l.previous = p.previous /\ l.next = p.next /\ l.chain = p.chain
         ELSE /\ l.previous = [x \in Edges |-> IF x = e THEN prev
                                   ELSE IF x = next THEN e ELSE p.previous[x]]
              /\ l.next = [x \in Edges |-> IF x = e THEN next
                                   ELSE IF x = prev THEN e ELSE p.next[x]]
              /\ l.chain = [c \in Chains |-> IF c \in Forward
                                   THEN Linked(p, c, e, prev, next)
                                   ELSE Linked(p, c, e, next, prev)]
  <2>1. CASE prev = NoEdge /\ next = NoEdge
      BY <2>1 DEF LinkEdge
  <2>2. CASE ~(prev = NoEdge /\ next = NoEdge)
    <3> DEFINE pr == [x \in Edges |-> IF x = e THEN prev ELSE IF x = next THEN e ELSE p.previous[x]]
               nx == [x \in Edges |-> IF x = e THEN next ELSE IF x = prev THEN e ELSE p.next[x]]
               ch == [c \in Chains |-> IF c \in Forward THEN Linked(p, c, e, prev, next)
                                       ELSE Linked(p, c, e, next, prev)]
    <3>1. l = [p EXCEPT !.previous = pr, !.next = nx, !.chain = ch]
        BY <2>2 DEF LinkEdge
    <3>2. pr \in Pointers /\ nx \in Pointers
        BY <1>2, <1>1 DEF Typed, Pointers
    <3>3. ch \in [Chains -> Pointers]
        BY <1>1, <1>2, <2>2, LinkedType
    <3> HIDE DEF pr, nx, ch
    <3>4. l \in PathType /\ l.edges = p.edges /\ l.rank = p.rank /\ l.traits = p.traits
          /\ l.previous = pr /\ l.next = nx /\ l.chain = ch
        BY <3>1, <3>2, <3>3 DEF PathType
    <3> QED BY <3>4, <2>2 DEF pr, nx, ch
  <2> QED BY <2>1, <2>2
<1> HIDE DEF l, q
<1>6. q \in PathType
    BY <1>3, <1>4, <1>5 DEF PathType
<1>7. /\ q.edges = l.edges \cup {e} /\ q.rank = l.rank /\ q.traits = l.traits
      /\ q.previous = l.previous /\ q.next = l.next /\ q.chain = l.chain
    BY <1>3, <1>5 DEF PathType
<1> QED BY <1>5, <1>6, <1>7 DEF prev, next, q

\* What removeEdge makes of each member of the path.
LEMMA RemoveEdgeFields ==
    ASSUME NEW p \in PathType, NEW e \in Edges
    PROVE  LET q == RemoveEdge(p, e)
               prev == p.previous[e]
               next == p.next[e]
           IN  /\ q \in PathType
               /\ q.rank = p.rank /\ q.traits = p.traits
               /\ IF (\E x \in Edges : p.edges = {x}) \/ e \notin p.edges
                  THEN /\ q.previous = p.previous /\ q.next = p.next /\ q.chain = p.chain
                       /\ q.edges = IF \E x \in Edges : p.edges = {x} THEN {} ELSE p.edges
                  ELSE /\ q.edges = p.edges \ {e}
                       /\ q.previous = [x \in Edges |-> IF x = next THEN prev ELSE p.previous[x]]
                       /\ q.next = [x \in Edges |-> IF x = prev THEN next ELSE p.next[x]]
                       /\ q.chain = [c \in Chains |->
                                        Unlinked(p, c, e, IF c \in Forward THEN prev ELSE next)]
<1> DEFINE prev == p.previous[e]
           next == p.next[e]
           q == RemoveEdge(p, e)
<1>0. Offset[e] \in Offsets
    BY DEF Offsets
<1>1. CASE \E x \in Edges : p.edges = {x}
  <2> DEFINE un == p.unsure \cup {o \in Offsets : p.rankAt[o] # NoRank}
  <2>1. q = [p EXCEPT !.edges = {}, !.unsure = un]
      BY <1>1 DEF RemoveEdge
  <2>2. un \in SUBSET Offsets
      BY DEF PathType
  <2> HIDE DEF un
  <2>3. q \in PathType /\ q.edges = {} /\ q.rank = p.rank /\ q.traits = p.traits
        /\ q.previous = p.previous /\ q.next = p.next /\ q.chain = p.chain
      BY <2>1, <2>2 DEF PathType
  <2> QED BY <1>1, <2>3
<1>2. CASE ~(\E x \in Edges : p.edges = {x}) /\ e \notin p.edges
    BY <1>2 DEF RemoveEdge
<1>3. CASE ~(\E x \in Edges : p.edges = {x}) /\ e \in p.edges
  <2> DEFINE pr == [x \in Edges |-> IF x = next THEN prev ELSE p.previous[x]]
             nx == [x \in Edges |-> IF x = prev THEN next ELSE p.next[x]]
             ch == [c \in Chains |-> Unlinked(p, c, e, IF c \in Forward THEN prev ELSE next)]
             ra == Forgotten(p, e)
             un == IF Monotone(p) THEN p.unsure \ {Offset[e]} ELSE p.unsure \cup {Offset[e]}
             u == UnlinkEdge(p, e)
  <2>1. u = [p EXCEPT !.previous = pr, !.next = nx, !.chain = ch]
      BY DEF UnlinkEdge
  <2>2. pr \in Pointers /\ nx \in Pointers
      BY DEF PathType, Pointers
  <2>3. \A c \in Chains : \A near : Unlinked(p, c, e, near) \in Pointers
    <3>1. \A c \in Chains : p.chain[c] \in [Edges -> Edges \cup {NoEdge}]
        BY DEF PathType, Pointers
    <3> QED BY <3>1 DEF Unlinked, Pointers
  <2>4. ch \in [Chains -> Pointers]
      BY <2>3
  <2>5. ra \in [Offsets -> Nat \cup {NoRank}]
    <3> DEFINE same == {x \in p.edges \ {e} :
                          /\ Offset[x] = Offset[e]
                          /\ \A y \in p.edges \ {e} :
                                p.rank[y] < p.rank[x] => Offset[y] < Offset[e]}
    <3>1. same # {} => (CHOOSE x \in same : TRUE) \in Edges
        BY DEF PathType
    <3>2. (IF same = {} THEN NoRank ELSE p.rank[CHOOSE x \in same : TRUE]) \in Nat \cup {NoRank}
        BY <3>1 DEF PathType
    <3>3. ra = [p.rankAt EXCEPT ![Offset[e]] =
                    IF same = {} THEN NoRank ELSE p.rank[CHOOSE x \in same : TRUE]]
        BY DEF Forgotten
    <3> HIDE DEF same
    <3> QED BY <3>2, <3>3 DEF PathType
  <2>6. un \in SUBSET Offsets
      BY <1>0 DEF PathType
  <2> HIDE DEF pr, nx, ch, ra
  <2>7. u \in PathType /\ u.edges = p.edges /\ u.rank = p.rank /\ u.traits = p.traits
        /\ u.previous = pr /\ u.next = nx /\ u.chain = ch /\ u.unsure = p.unsure
      BY <2>1, <2>2, <2>4 DEF PathType
  <2> HIDE DEF u
  <2>8. q = [u EXCEPT !.edges = @ \ {e}, !.rankAt = ra, !.unsure = un]
      BY <1>3, <2>7 DEF RemoveEdge, u, ra
  <2> HIDE DEF un, q
  <2>9. q \in PathType /\ q.edges = p.edges \ {e} /\ q.rank = p.rank /\ q.traits = p.traits
        /\ q.previous = pr /\ q.next = nx /\ q.chain = ch
      BY <2>5, <2>6, <2>7, <2>8 DEF PathType
  <2> QED BY <2>9, <1>3 DEF pr, nx, ch, q
<1> QED BY <1>1, <1>2, <1>3

\* Path::addEdge mends every pointer, wherever the edge goes.
THEOREM AddEdgeLinks ==
    ASSUME NEW p \in PathType, LinksOK(p), NEW e \in Edges \ p.edges, ~RankTaken(p, e),
           p.edges = {} => Alone(p, e)
    PROVE  LinksOK(AddEdge(p, e))
<1> DEFINE prev == EdgeBefore(p, p.rank[e])
           next == EdgeAfter(p, p.rank[e])
           q == AddEdge(p, e)
<1>1. Typed(p) /\ p.rank[e] \in Nat
    BY PathTyped DEF PathType
<1>2. /\ q \in PathType
      /\ q.edges = p.edges \cup {e} /\ q.rank = p.rank /\ q.traits = p.traits
      /\ IF prev = NoEdge /\ next = NoEdge
         THEN q.previous = p.previous /\ q.next = p.next /\ q.chain = p.chain
         ELSE /\ q.previous = [x \in Edges |-> IF x = e THEN prev
                                   ELSE IF x = next THEN e ELSE p.previous[x]]
              /\ q.next = [x \in Edges |-> IF x = e THEN next
                                   ELSE IF x = prev THEN e ELSE p.next[x]]
              /\ q.chain = [c \in Chains |-> IF c \in Forward
                                   THEN Linked(p, c, e, prev, next)
                                   ELSE Linked(p, c, e, next, prev)]
    BY AddEdgeFields
<1>3. \A c \in Chains : /\ IsNear(p, c, e, IF c \in Forward THEN prev ELSE next)
                        /\ IsFar(p, c, e, IF c \in Forward THEN next ELSE prev)
    BY <1>1, RankNeighbours DEF LinksOK
<1>4. \A x, y \in p.edges \cup {e} : p.rank[x] = p.rank[y] => x = y
    BY DEF LinksOK, DistinctRanks, RankTaken
<1>5. prev \in p.edges \cup {NoEdge} /\ next \in p.edges \cup {NoEdge}
    BY <1>1, EdgeBeforeProperties, EdgeAfterProperties DEF Before, After
<1>6. p.edges \subseteq Edges /\ NoEdge \notin p.edges /\ e # NoEdge
    BY <1>1, NoEdgeAssumption DEF Typed
<1> HIDE DEF prev, next, q
<1>7. DistinctRanks(q)
    BY <1>2, <1>4 DEF DistinctRanks
<1>8. CASE prev = NoEdge /\ next = NoEdge
  <2>1. p.edges = {}
    <3>1. \A x \in p.edges : ~(p.rank[x] < p.rank[e]) /\ ~(p.rank[e] < p.rank[x])
        BY <1>3, <1>8 DEF IsNear, IsFar, Precedes, Chains, Forward
    <3> QED BY <3>1, <1>1, <1>4, <1>6 DEF Typed
  <2>2. q.edges = {e}
      BY <2>1, <1>2
  <2>3. q.previous[e] = NoEdge /\ q.next[e] = NoEdge /\ \A c \in Chains : q.chain[c][e] = NoEdge
      BY <1>2, <1>8, <2>1 DEF Alone
  <2>4. \A c \in Chains : ~Precedes(q, c, e, e)
      BY <1>1, <1>2 DEF Precedes, Typed
  <2>5. NeighboursOK(q)
      BY <2>2, <2>3, <2>4 DEF NeighboursOK, IsFirst, Chains, Forward
  <2>6. ChainsOK(q)
      BY <2>2, <2>3, <2>4 DEF ChainsOK, IsFirst
  <2> QED BY <2>5, <2>6, <1>7 DEF LinksOK, q
<1>9. CASE ~(prev = NoEdge /\ next = NoEdge)
  <2>1. ChainsOK(q)
    <3>1. SUFFICES ASSUME NEW c \in Chains
                   PROVE  \A x \in q.edges : IsFirst(q, c, x, q.chain[c][x], Targets(q, c))
        BY DEF ChainsOK, Targets
    <3>2. \A x \in p.edges : IsFirst(p, c, x, p.chain[c][x], Targets(p, c))
        BY DEF LinksOK, ChainsOK, Targets
    <3>3. CASE c \in Forward
      <4>1. q.chain[c] = Linked(p, c, e, prev, next)
          BY <1>2, <1>9, <3>3
      <4>2. IsNear(p, c, e, prev) /\ IsFar(p, c, e, next)
          BY <1>3, <3>3
      <4> QED BY <1>1, <1>2, <1>4, <1>9, <3>2, <4>1, <4>2, LinkedChain
    <3>4. CASE c \notin Forward
      <4>1. q.chain[c] = Linked(p, c, e, next, prev)
          BY <1>2, <1>9, <3>4
      <4>2. IsNear(p, c, e, next) /\ IsFar(p, c, e, prev)
          BY <1>3, <3>4
      <4> QED BY <1>1, <1>2, <1>4, <1>9, <3>2, <4>1, <4>2, LinkedChain
    <3> QED BY <3>3, <3>4
  <2>2. /\ prev = NoEdge => \A x \in p.edges : ~(p.rank[x] < p.rank[e])
        /\ prev # NoEdge => /\ prev \in p.edges /\ p.rank[prev] < p.rank[e]
                            /\ \A x \in p.edges : p.rank[x] < p.rank[e] => x = prev \/ p.rank[x] < p.rank[prev]
        /\ next = NoEdge => \A x \in p.edges : ~(p.rank[e] < p.rank[x])
        /\ next # NoEdge => /\ next \in p.edges /\ p.rank[e] < p.rank[next]
                            /\ \A x \in p.edges : p.rank[e] < p.rank[x] => x = next \/ p.rank[next] < p.rank[x]
      BY <1>3 DEF IsNear, IsFar, Precedes, Chains, Forward
  <2>3. \A x \in p.edges :
            /\ \/ p.next[x] = NoEdge /\ \A y \in p.edges : ~(p.rank[x] < p.rank[y])
               \/ /\ p.next[x] \in p.edges /\ p.rank[x] < p.rank[p.next[x]]
                  /\ \A y \in p.edges : ~(p.rank[x] < p.rank[y] /\ p.rank[y] < p.rank[p.next[x]])
            /\ \/ p.previous[x] = NoEdge /\ \A y \in p.edges : ~(p.rank[y] < p.rank[x])
               \/ /\ p.previous[x] \in p.edges /\ p.rank[p.previous[x]] < p.rank[x]
                  /\ \A y \in p.edges : ~(p.rank[y] < p.rank[x] /\ p.rank[p.previous[x]] < p.rank[y])
      BY DEF LinksOK, NeighboursOK, IsFirst, Precedes, Forward
  <2>4. p.rank \in [Edges -> Nat]
      BY <1>1 DEF Typed
  <2>5. ASSUME NEW x \in q.edges
        PROVE  \/ q.next[x] = NoEdge /\ \A y \in q.edges : ~(p.rank[x] < p.rank[y])
               \/ /\ q.next[x] \in q.edges /\ p.rank[x] < p.rank[q.next[x]]
                  /\ \A y \in q.edges : ~(p.rank[x] < p.rank[y] /\ p.rank[y] < p.rank[q.next[x]])
    <3>1. CASE x = e
        BY <3>1, <1>2, <1>9, <2>2, <2>4, <1>6
    <3>2. CASE x # e /\ x = prev
        BY <3>2, <1>2, <1>9, <2>2, <2>4, <1>6
    <3>3. CASE x # e /\ x # prev
      <4>1. x \in p.edges /\ q.next[x] = p.next[x]
          BY <3>3, <1>2, <1>9, <1>6
      <4> QED BY <4>1, <3>3, <2>5, <1>2, <2>2, <2>3, <2>4, <1>4, <1>6
    <3> QED BY <3>1, <3>2, <3>3
  <2>6. ASSUME NEW x \in q.edges
        PROVE  \/ q.previous[x] = NoEdge /\ \A y \in q.edges : ~(p.rank[y] < p.rank[x])
               \/ /\ q.previous[x] \in q.edges /\ p.rank[q.previous[x]] < p.rank[x]
                  /\ \A y \in q.edges : ~(p.rank[y] < p.rank[x] /\ p.rank[q.previous[x]] < p.rank[y])
    <3>1. CASE x = e
        BY <3>1, <1>2, <1>9, <2>2, <2>4, <1>6
    <3>2. CASE x # e /\ x = next
        BY <3>2, <1>2, <1>9, <2>2, <2>4, <1>6
    <3>3. CASE x # e /\ x # next
      <4>1. x \in p.edges /\ q.previous[x] = p.previous[x]
          BY <3>3, <1>2, <1>9, <1>6
      <4> QED BY <4>1, <3>3, <2>6, <1>2, <2>2, <2>3, <2>4, <1>4, <1>6
    <3> QED BY <3>1, <3>2, <3>3
  <2>7. NeighboursOK(q)
      BY <2>5, <2>6, <1>2 DEF NeighboursOK, IsFirst, Precedes, Forward
  <2> QED BY <2>1, <2>7, <1>7 DEF LinksOK, q
<1> QED BY <1>8, <1>9 DEF q

\* Path::removeEdge mends every pointer of the edges that are left.
THEOREM RemoveEdgeLinks ==
    ASSUME NEW p \in PathType, LinksOK(p), NEW e \in Edges
    PROVE  LinksOK(RemoveEdge(p, e))
<1> DEFINE prev == p.previous[e]
           next == p.next[e]
           q == RemoveEdge(p, e)
<1>1. Typed(p)
    BY PathTyped
<1>2. /\ q.rank = p.rank /\ q.traits = p.traits
      /\ IF (\E x \in Edges : p.edges = {x}) \/ e \notin p.edges
         THEN /\ q.previous = p.previous /\ q.next = p.next /\ q.chain = p.chain
              /\ q.edges = IF \E x \in Edges : p.edges = {x} THEN {} ELSE p.edges
         ELSE /\ q.edges = p.edges \ {e}
              /\ q.previous = [x \in Edges |-> IF x = next THEN prev ELSE p.previous[x]]
              /\ q.next = [x \in Edges |-> IF x = prev THEN next ELSE p.next[x]]
              /\ q.chain = [c \in Chains |->
                               Unlinked(p, c, e, IF c \in Forward THEN prev ELSE next)]
    BY RemoveEdgeFields
<1> HIDE DEF q
<1>3. CASE \E x \in Edges : p.edges = {x}
    BY <1>2, <1>3 DEF LinksOK, DistinctRanks, NeighboursOK, ChainsOK, q
<1>4. CASE ~(\E x \in Edges : p.edges = {x}) /\ e \notin p.edges
  <2>1. q.edges = p.edges /\ q.previous = p.previous /\ q.next = p.next /\ q.chain = p.chain
      BY <1>2, <1>4
  <2> QED BY <1>2, <2>1 DEF LinksOK, DistinctRanks, NeighboursOK, ChainsOK, IsFirst, Precedes,
                          Target, q
<1>5. CASE ~(\E x \in Edges : p.edges = {x}) /\ e \in p.edges
  <2>1. /\ q.edges = p.edges \ {e}
        /\ q.previous = [x \in Edges |-> IF x = next THEN prev ELSE p.previous[x]]
        /\ q.next = [x \in Edges |-> IF x = prev THEN next ELSE p.next[x]]
        /\ q.chain = [c \in Chains |->
                         Unlinked(p, c, e, IF c \in Forward THEN prev ELSE next)]
      BY <1>2, <1>5
  <2>2. DistinctRanks(q)
      BY <1>2, <2>1 DEF DistinctRanks, LinksOK
  <2>3. \A c \in Chains : /\ IsNear(p, c, e, IF c \in Forward THEN prev ELSE next)
                          /\ IsFar(p, c, e, IF c \in Forward THEN next ELSE prev)
      BY <1>1, <1>5, PointedNeighbours
  <2>4. ChainsOK(q)
    <3>1. SUFFICES ASSUME NEW c \in Chains
                   PROVE  \A x \in q.edges : IsFirst(q, c, x, q.chain[c][x], Targets(q, c))
        BY DEF ChainsOK, Targets
    <3>2. \A x \in p.edges : IsFirst(p, c, x, p.chain[c][x], Targets(p, c))
        BY DEF LinksOK, ChainsOK, Targets
    <3>3. PICK near : near = IF c \in Forward THEN prev ELSE next
        OBVIOUS
    <3>4. q.chain[c] = Unlinked(p, c, e, near) /\ IsNear(p, c, e, near)
        BY <2>1, <2>3, <3>3
    <3> HIDE DEF prev, next
    <3>5. DistinctRanks(p) /\ e \in p.edges
        BY <1>5 DEF LinksOK
    <3>6. q.edges = p.edges \ {e} /\ q.rank = p.rank /\ q.traits = p.traits
        BY <2>1, <1>2
    <3> QED BY <1>1, <3>2, <3>4, <3>5, <3>6, UnlinkedChain
  <2>5. p.rank \in [Edges -> Nat] /\ p.edges \subseteq Edges /\ NoEdge \notin p.edges
      BY <1>1, NoEdgeAssumption DEF Typed
  <2>6. \A x \in p.edges :
            /\ \/ p.next[x] = NoEdge /\ \A y \in p.edges : ~(p.rank[x] < p.rank[y])
               \/ /\ p.next[x] \in p.edges /\ p.rank[x] < p.rank[p.next[x]]
                  /\ \A y \in p.edges : ~(p.rank[x] < p.rank[y] /\ p.rank[y] < p.rank[p.next[x]])
            /\ \/ p.previous[x] = NoEdge /\ \A y \in p.edges : ~(p.rank[y] < p.rank[x])
               \/ /\ p.previous[x] \in p.edges /\ p.rank[p.previous[x]] < p.rank[x]
                  /\ \A y \in p.edges : ~(p.rank[y] < p.rank[x] /\ p.rank[p.previous[x]] < p.rank[y])
      BY DEF LinksOK, NeighboursOK, IsFirst, Precedes, Forward
  <2>7. \A x, y \in p.edges : p.rank[x] = p.rank[y] => x = y
      BY DEF LinksOK, DistinctRanks
  <2>8. ASSUME NEW x \in q.edges
        PROVE  \/ q.next[x] = NoEdge /\ \A y \in q.edges : ~(p.rank[x] < p.rank[y])
               \/ /\ q.next[x] \in q.edges /\ p.rank[x] < p.rank[q.next[x]]
                  /\ \A y \in q.edges : ~(p.rank[x] < p.rank[y] /\ p.rank[y] < p.rank[q.next[x]])
    <3>1. x \in p.edges /\ x # e /\ e \in p.edges
        BY <2>1, <1>5
    <3>2. CASE x = prev
      <4>1. q.next[x] = next
          BY <3>2, <3>1, <2>1, <2>5
      <4>2. p.rank[x] < p.rank[e]
          BY <3>1, <3>2, <2>5, <2>6
      <4>3. \A y \in q.edges : p.rank[x] < p.rank[y] => p.rank[e] < p.rank[y]
        <5> SUFFICES ASSUME NEW y \in q.edges, p.rank[x] < p.rank[y]
                     PROVE  p.rank[e] < p.rank[y]
            OBVIOUS
        <5>1. y \in p.edges /\ y # e
            BY <2>1
        <5>2. ~(p.rank[y] < p.rank[e] /\ p.rank[p.previous[e]] < p.rank[y])
            BY <3>1, <3>2, <4>2, <5>1, <2>5, <2>6
        <5>3. p.rank[y] # p.rank[e] /\ p.rank[y] \in Nat /\ p.rank[e] \in Nat
            BY <3>1, <5>1, <2>5, <2>7
        <5> QED BY <3>2, <5>2, <5>3
      <4> HIDE DEF prev
      <4>4. CASE next = NoEdge
          BY <4>1, <4>3, <4>4, <3>1, <2>1, <2>5, <2>6
      <4>5. CASE next # NoEdge
        <5>1. next \in p.edges /\ p.rank[e] < p.rank[next]
              /\ \A y \in p.edges : ~(p.rank[e] < p.rank[y] /\ p.rank[y] < p.rank[next])
            BY <4>5, <3>1, <2>5, <2>6
        <5> HIDE DEF next
        <5>2. next \in q.edges /\ p.rank[x] < p.rank[next]
            BY <5>1, <4>2, <3>1, <2>1, <2>5
        <5> QED BY <4>1, <4>3, <5>1, <5>2, <2>1, <2>5
      <4> QED BY <4>4, <4>5
    <3>3. CASE x # prev
      <4>1. q.next[x] = p.next[x]
          BY <3>3, <3>1, <2>1, <2>5
      <4>2. p.next[x] # e
          BY <3>3, <3>1, <2>5, <2>6, <2>7
      <4>3. CASE p.next[x] = NoEdge
        <5>1. \A y \in p.edges : ~(p.rank[x] < p.rank[y])
            BY <4>3, <3>1, <2>5, <2>6
        <5> QED BY <4>1, <4>3, <5>1, <2>1
      <4>4. CASE p.next[x] # NoEdge
        <5>1. /\ p.next[x] \in p.edges /\ p.rank[x] < p.rank[p.next[x]]
              /\ \A y \in p.edges : ~(p.rank[x] < p.rank[y] /\ p.rank[y] < p.rank[p.next[x]])
            BY <4>4, <3>1, <2>6
        <5> QED BY <4>1, <4>2, <5>1, <2>1
      <4> QED BY <4>3, <4>4
    <3> QED BY <3>2, <3>3
  <2>9. ASSUME NEW x \in q.edges
        PROVE  \/ q.previous[x] = NoEdge /\ \A y \in q.edges : ~(p.rank[y] < p.rank[x])
               \/ /\ q.previous[x] \in q.edges /\ p.rank[q.previous[x]] < p.rank[x]
                  /\ \A y \in q.edges : ~(p.rank[y] < p.rank[x] /\ p.rank[q.previous[x]] < p.rank[y])
    <3>1. x \in p.edges /\ x # e /\ e \in p.edges
        BY <2>1, <1>5
    <3>2. CASE x = next
      <4>1. q.previous[x] = prev
          BY <3>2, <3>1, <2>1, <2>5
      <4>2. p.rank[e] < p.rank[x]
          BY <3>1, <3>2, <2>5, <2>6
      <4>3. \A y \in q.edges : p.rank[y] < p.rank[x] => p.rank[y] < p.rank[e]
        <5> SUFFICES ASSUME NEW y \in q.edges, p.rank[y] < p.rank[x]
                     PROVE  p.rank[y] < p.rank[e]
            OBVIOUS
        <5>1. y \in p.edges /\ y # e
            BY <2>1
        <5>2. ~(p.rank[e] < p.rank[y] /\ p.rank[y] < p.rank[p.next[e]])
            BY <3>1, <3>2, <4>2, <5>1, <2>5, <2>6
        <5>3. p.rank[y] # p.rank[e] /\ p.rank[y] \in Nat /\ p.rank[e] \in Nat
            BY <3>1, <5>1, <2>5, <2>7
        <5> QED BY <3>2, <5>2, <5>3
      <4> HIDE DEF next
      <4>4. CASE prev = NoEdge
          BY <4>1, <4>3, <4>4, <3>1, <2>1, <2>5, <2>6
      <4>5. CASE prev # NoEdge
        <5>1. prev \in p.edges /\ p.rank[prev] < p.rank[e]
              /\ \A y \in p.edges : ~(p.rank[y] < p.rank[e] /\ p.rank[prev] < p.rank[y])
            BY <4>5, <3>1, <2>5, <2>6
        <5> HIDE DEF prev
        <5>2. prev \in q.edges /\ p.rank[prev] < p.rank[x]
            BY <5>1, <4>2, <3>1, <2>1, <2>5
        <5> QED BY <4>1, <4>3, <5>1, <5>2, <2>1, <2>5
      <4> QED BY <4>4, <4>5
    <3>3. CASE x # next
      <4>1. q.previous[x] = p.previous[x]
          BY <3>3, <3>1, <2>1, <2>5
      <4>2. p.previous[x] # e
          BY <3>3, <3>1, <2>5, <2>6, <2>7
      <4> QED BY <4>1, <4>2, <3>1, <2>1, <2>5, <2>6
    <3> QED BY <3>2, <3>3
  <2>10. NeighboursOK(q)
      BY <2>8, <2>9, <1>2 DEF NeighboursOK, IsFirst, Precedes, Forward
  <2> QED BY <2>2, <2>4, <2>10 DEF LinksOK, q
<1> QED BY <1>3, <1>4, <1>5

-----------------------------------------------------------------------------
(* _rankMap. *)

\* What _rankMap holds for an offset that is not in doubt: the least rank of the edges
\* there, and nothing if there is none.
RanksMatch(p) ==
    \A o \in Offsets \ p.unsure :
        LET there == {x \in p.edges : Offset[x] = o}
        IN  IF there = {} THEN p.rankAt[o] = NoRank
            ELSE \E x \in there : /\ p.rankAt[o] = p.rank[x]
                                  /\ \A y \in there : p.rank[x] <= p.rank[y]

LEMMA MatchIsOK ==
    ASSUME NEW p \in PathType, RanksMatch(p)
    PROVE  OffsetsOK(p)
<1> SUFFICES ASSUME NEW e \in p.edges, Offset[e] \notin p.unsure
             PROVE  /\ \E x \in p.edges : Offset[x] = Offset[e] /\ p.rankAt[Offset[e]] = p.rank[x]
                    /\ p.rankAt[Offset[e]] <= p.rank[e]
    BY DEF OffsetsOK
<1>1. e \in Edges /\ Offset[e] \in Offsets
    BY DEF PathType, Offsets
<1>2. PICK x \in {x \in p.edges : Offset[x] = Offset[e]} :
            /\ p.rankAt[Offset[e]] = p.rank[x]
            /\ \A y \in {y \in p.edges : Offset[y] = Offset[e]} : p.rank[x] <= p.rank[y]
    BY <1>1 DEF RanksMatch
<1> QED BY <1>2

\* A path of which only the pointers, or the rank and the traits of other edges, differ.
LEMMA SameRanksMatch ==
    ASSUME NEW p \in PathType, RanksMatch(p), NEW q,
           q.edges = p.edges, q.rankAt = p.rankAt, q.unsure = p.unsure,
           \A x \in p.edges : q.rank[x] = p.rank[x]
    PROVE  RanksMatch(q)
<1> SUFFICES ASSUME NEW o \in Offsets \ p.unsure
             PROVE  LET there == {x \in p.edges : Offset[x] = o}
                    IN  IF there = {} THEN p.rankAt[o] = NoRank
                        ELSE \E x \in there : /\ p.rankAt[o] = q.rank[x]
                                              /\ \A y \in there : q.rank[x] <= q.rank[y]
    BY DEF RanksMatch
<1> DEFINE there == {x \in p.edges : Offset[x] = o}
<1>1. IF there = {} THEN p.rankAt[o] = NoRank
      ELSE \E x \in there : /\ p.rankAt[o] = p.rank[x]
                            /\ \A y \in there : p.rank[x] <= p.rank[y]
    BY DEF RanksMatch
<1>2. CASE there = {}
    BY <1>1, <1>2
<1>3. CASE there # {}
  <2>1. PICK x \in there : /\ p.rankAt[o] = p.rank[x]
                           /\ \A y \in there : p.rank[x] <= p.rank[y]
      BY <1>1, <1>3
  <2>2. p.rankAt[o] = q.rank[x] /\ \A y \in there : q.rank[x] <= q.rank[y]
      BY <2>1
  <2> QED BY <1>3, <2>2
<1> QED BY <1>2, <1>3

LEMMA AddEdgeRanks ==
    ASSUME NEW p \in PathType, NEW e \in Edges
    PROVE  /\ AddEdge(p, e).rankAt = Recorded(p, e)
           /\ AddEdge(p, e).unsure = p.unsure
<1> DEFINE prev == EdgeBefore(p, p.rank[e])
           next == EdgeAfter(p, p.rank[e])
           l == LinkEdge(p, e, prev, next)
<1>1. AddEdge(p, e) = [l EXCEPT !.edges = @ \cup {e}, !.rankAt = Recorded(p, e)]
    BY DEF AddEdge
<1>2. DOMAIN p = {"edges", "rank", "traits", "previous", "next", "chain", "rankAt", "unsure"}
    BY DEF PathType
<1>3. l.unsure = p.unsure /\ DOMAIN l = DOMAIN p
  <2> HIDE DEF prev, next
  <2>1. CASE prev = NoEdge /\ next = NoEdge
      BY <2>1 DEF LinkEdge
  <2>2. CASE ~(prev = NoEdge /\ next = NoEdge)
    <3> DEFINE pr == [x \in Edges |-> IF x = e THEN prev ELSE IF x = next THEN e ELSE p.previous[x]]
               nx == [x \in Edges |-> IF x = e THEN next ELSE IF x = prev THEN e ELSE p.next[x]]
               ch == [c \in Chains |-> IF c \in Forward THEN Linked(p, c, e, prev, next)
                                       ELSE Linked(p, c, e, next, prev)]
    <3>1. l = [p EXCEPT !.previous = pr, !.next = nx, !.chain = ch]
        BY <2>2 DEF LinkEdge
    <3> HIDE DEF pr, nx, ch, l
    <3> QED BY <1>2, <3>1
  <2> QED BY <2>1, <2>2
<1> HIDE DEF l
<1> QED BY <1>1, <1>2, <1>3

\* Path::addEdge records the rank of the edge if it is the first one at its offset, and
\* keeps that of the first one otherwise.
THEOREM AddEdgeRecords ==
    ASSUME NEW p \in PathType, RanksMatch(p), NEW e \in Edges \ p.edges
    PROVE  RanksMatch(AddEdge(p, e))
<1> DEFINE q == AddEdge(p, e)
<1>1. q.edges = p.edges \cup {e} /\ q.rank = p.rank
    BY AddEdgeFields
<1>2. q.rankAt = Recorded(p, e) /\ q.unsure = p.unsure
    BY AddEdgeRanks
<1> HIDE DEF q
<1>3. SUFFICES ASSUME NEW o \in Offsets \ p.unsure
               PROVE  LET there == {x \in q.edges : Offset[x] = o}
                      IN  IF there = {} THEN q.rankAt[o] = NoRank
                          ELSE \E x \in there : /\ q.rankAt[o] = p.rank[x]
                                                /\ \A y \in there : p.rank[x] <= p.rank[y]
    BY <1>1, <1>2 DEF RanksMatch, q
<1> DEFINE was == {x \in p.edges : Offset[x] = o}
           there == {x \in q.edges : Offset[x] = o}
<1>4. IF was = {} THEN p.rankAt[o] = NoRank
      ELSE \E x \in was : /\ p.rankAt[o] = p.rank[x]
                          /\ \A y \in was : p.rank[x] <= p.rank[y]
    BY DEF RanksMatch
<1>5. p.rankAt \in [Offsets -> Nat \cup {NoRank}] /\ Offset[e] \in Offsets
      /\ p.rank \in [Edges -> Nat] /\ p.edges \subseteq Edges
    BY DEF PathType, Offsets
<1>6. CASE Offset[e] # o
  <2>1. there = was /\ q.rankAt[o] = p.rankAt[o]
      BY <1>1, <1>2, <1>5, <1>6 DEF Recorded
  <2> QED BY <1>4, <2>1
<1>7. CASE Offset[e] = o /\ was = {}
  <2>1. there = {e} /\ q.rankAt[o] = p.rank[e]
      BY <1>1, <1>2, <1>4, <1>5, <1>7 DEF Recorded
  <2> QED BY <2>1, <1>5
<1>8. CASE Offset[e] = o /\ was # {}
  <2>1. PICK x \in was : /\ p.rankAt[o] = p.rank[x]
                         /\ \A y \in was : p.rank[x] <= p.rank[y]
      BY <1>4, <1>8
  <2>2. p.rank[x] \in Nat /\ p.rank[e] \in Nat /\ \A y \in was : p.rank[y] \in Nat
      BY <1>5
  <2>3. there = was \cup {e} /\ p.edges # {}
      BY <1>1, <1>8
  <2>4. q.rankAt[o] = IF p.rank[e] < p.rank[x] THEN p.rank[e] ELSE p.rank[x]
      BY <1>2, <1>5, <1>8, <2>1, <2>2, <2>3 DEF Recorded, NoRank
  <2> HIDE DEF was, there
  <2>5. CASE p.rank[e] < p.rank[x]
    <3>1. \A y \in there : p.rank[e] <= p.rank[y]
        BY <2>1, <2>2, <2>3, <2>5
    <3> QED BY <2>3, <2>4, <2>5, <3>1 DEF there
  <2>6. CASE ~(p.rank[e] < p.rank[x])
    <3>1. \A y \in there : p.rank[x] <= p.rank[y]
        BY <2>1, <2>2, <2>3, <2>6
    <3> QED BY <2>3, <2>4, <2>6, <3>1 DEF there
  <2> QED BY <2>5, <2>6
<1> QED BY <1>6, <1>7, <1>8

LEMMA RemoveEdgeRanks ==
    ASSUME NEW p \in PathType, NEW e \in p.edges, ~(\E x \in Edges : p.edges = {x})
    PROVE  /\ RemoveEdge(p, e).rankAt = Forgotten(p, e)
           /\ RemoveEdge(p, e).unsure = IF Monotone(p) THEN p.unsure \ {Offset[e]}
                                        ELSE p.unsure \cup {Offset[e]}
<1> DEFINE u == UnlinkEdge(p, e)
           un == IF Monotone(p) THEN p.unsure \ {Offset[e]} ELSE p.unsure \cup {Offset[e]}
<1>1. DOMAIN u = {"edges", "rank", "traits", "previous", "next", "chain", "rankAt", "unsure"}
      /\ u.unsure = p.unsure
    BY DEF UnlinkEdge, PathType
<1> HIDE DEF u
<1>2. RemoveEdge(p, e) = [u EXCEPT !.edges = @ \ {e}, !.rankAt = Forgotten(p, e), !.unsure = un]
    BY <1>1 DEF RemoveEdge, u
<1> HIDE DEF un
<1>3. RemoveEdge(p, e).unsure = un
    BY <1>1, <1>2
<1> QED BY <1>1, <1>2, <1>3 DEF un

\* The walk that Path::removeEdge makes to find who replaces the edge at its offset finds
\* the first of the edges left there, as long as the offsets follow the ranks.
LEMMA ForgottenFinds ==
    ASSUME NEW p \in PathType, Monotone(p), NEW e \in p.edges
    PROVE  LET there == {x \in p.edges \ {e} : Offset[x] = Offset[e]}
           IN  IF there = {} THEN Forgotten(p, e)[Offset[e]] = NoRank
               ELSE \E x \in there : /\ Forgotten(p, e)[Offset[e]] = p.rank[x]
                                     /\ \A y \in there : p.rank[x] <= p.rank[y]
<1> DEFINE there == {x \in p.edges \ {e} : Offset[x] = Offset[e]}
           first == {x \in p.edges \ {e} :
                       /\ Offset[x] = Offset[e]
                       /\ \A y \in p.edges \ {e} : p.rank[y] < p.rank[x] => Offset[y] < Offset[e]}
<1>1. p.rankAt \in [Offsets -> Nat \cup {NoRank}] /\ Offset[e] \in Offsets
      /\ p.rank \in [Edges -> Nat] /\ p.edges \subseteq Edges /\ Offset \in [Edges -> Nat]
    BY OffsetAssumption DEF PathType, Offsets
<1>2. Forgotten(p, e)[Offset[e]] =
            IF first = {} THEN NoRank ELSE p.rank[CHOOSE x \in first : TRUE]
    BY <1>1 DEF Forgotten
<1>3. \A x \in there, y \in p.edges \ {e} : (p.rank[y] < p.rank[x] => Offset[y] <= Offset[e])
    BY DEF Monotone
<1>4. ASSUME NEW x \in first PROVE x \in there /\ \A y \in there : p.rank[x] <= p.rank[y]
    BY <1>1, <1>4
<1>5. CASE there = {}
  <2>1. first = {}
      BY <1>4, <1>5
  <2> QED BY <1>2, <1>5, <2>1
<1>6. CASE there # {}
  <2> DEFINE T == {p.rank[x] : x \in there}
  <2>1. T \in SUBSET Nat /\ T # {}
      BY <1>1, <1>6
  <2>2. PICK m \in T : \A n \in T : m <= n
      BY <2>1, LeastElement
  <2>3. PICK x \in there : \A y \in there : p.rank[x] <= p.rank[y]
      BY <2>2
  <2>4. x \in first
    <3>1. ASSUME NEW y \in p.edges \ {e}, p.rank[y] < p.rank[x] PROVE Offset[y] < Offset[e]
      <4>1. Offset[y] <= Offset[e] /\ Offset[y] \in Nat /\ Offset[e] \in Nat
          BY <1>1, <1>3, <3>1
      <4>2. y \notin there
          BY <1>1, <2>3, <3>1
      <4> QED BY <4>1, <4>2
    <3> QED BY <3>1
  <2> DEFINE z == CHOOSE x1 \in first : TRUE
  <2>5. z \in first /\ first # {}
      BY <2>4
  <2>6. Forgotten(p, e)[Offset[e]] = p.rank[z]
      BY <1>2, <2>5
  <2> HIDE DEF z
  <2>7. z \in there /\ \A y \in there : p.rank[z] <= p.rank[y]
      BY <1>4, <2>5
  <2> QED BY <1>6, <2>6, <2>7
<1> QED BY <1>5, <1>6

\* Path::removeEdge leaves in _rankMap the first edge at each offset that is not in doubt.
THEOREM RemoveEdgeForgets ==
    ASSUME NEW p \in PathType, RanksMatch(p), NEW e \in Edges
    PROVE  RanksMatch(RemoveEdge(p, e))
<1> DEFINE q == RemoveEdge(p, e)
<1>1. p.rankAt \in [Offsets -> Nat \cup {NoRank}] /\ Offset[e] \in Offsets
    BY DEF PathType, Offsets
<1>2. CASE \E x \in Edges : p.edges = {x}
  <2>1. q = [p EXCEPT !.edges = {}, !.unsure = @ \cup {o \in Offsets : p.rankAt[o] # NoRank}]
      BY <1>2 DEF RemoveEdge
  <2>2. /\ q.edges = {} /\ q.rankAt = p.rankAt
        /\ q.unsure = p.unsure \cup {o \in Offsets : p.rankAt[o] # NoRank}
      BY <2>1 DEF PathType
  <2> HIDE DEF q
  <2>3. RanksMatch(q)
      BY <2>2 DEF RanksMatch
  <2> QED BY <2>3 DEF q
<1>3. CASE ~(\E x \in Edges : p.edges = {x}) /\ e \notin p.edges
    BY <1>3 DEF RemoveEdge
<1>4. CASE ~(\E x \in Edges : p.edges = {x}) /\ e \in p.edges
  <2>1. /\ q.rankAt = Forgotten(p, e)
        /\ q.unsure = IF Monotone(p) THEN p.unsure \ {Offset[e]} ELSE p.unsure \cup {Offset[e]}
      BY <1>4, RemoveEdgeRanks
  <2>2. q.edges = p.edges \ {e} /\ q.rank = p.rank
      BY <1>4, RemoveEdgeFields
  <2> HIDE DEF q
  <2>3. SUFFICES ASSUME NEW o \in Offsets \ q.unsure
                 PROVE  LET there == {x \in p.edges \ {e} : Offset[x] = o}
                        IN  IF there = {} THEN q.rankAt[o] = NoRank
                            ELSE \E x \in there : /\ q.rankAt[o] = p.rank[x]
                                                  /\ \A y \in there : p.rank[x] <= p.rank[y]
      BY <2>2 DEF RanksMatch, q
  <2>4. CASE o = Offset[e]
    <3>1. Monotone(p)
        BY <2>1, <2>4
    <3> QED BY <1>4, <2>1, <2>4, <3>1, ForgottenFinds
  <2>5. CASE o # Offset[e]
    <3> DEFINE was == {x \in p.edges : Offset[x] = o}
               there == {x \in p.edges \ {e} : Offset[x] = o}
    <3>1. there = was /\ o \notin p.unsure
        BY <2>1, <2>5
    <3>2. q.rankAt[o] = p.rankAt[o]
        BY <1>1, <2>1, <2>5 DEF Forgotten
    <3>3. IF was = {} THEN p.rankAt[o] = NoRank
          ELSE \E x \in was : /\ p.rankAt[o] = p.rank[x]
                              /\ \A y \in was : p.rank[x] <= p.rank[y]
        BY <3>1 DEF RanksMatch
    <3> HIDE DEF was
    <3> QED BY <3>1, <3>2, <3>3
  <2> QED BY <2>4, <2>5
<1> QED BY <1>2, <1>3, <1>4
=============================================================================
