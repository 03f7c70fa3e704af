------------------------------ MODULE Diversions -----------------------------
(* The diversion routes of M08 (diversions/): for a closed corridor, the k    *)
(* cheapest ways between its neighbours that do not use it, found with Yen's  *)
(* algorithm on the corridor graph.  Costs are in thousandths of a minute.    *)
EXTENDS CorridorGraph

CONSTANTS
    Ks,                 \* the numbers of routes a caller asks for
    DefaultNeighbors,   \* the corridors used for one that lists no neighbour
    StubPath,           \* the fixed route of "Non-corridor"
    Junctions,          \* JUNCTION_REGISTRY: [junction -> its corridor]
    GenericJunction     \* the junction of a corridor that has none

ASSUME DiversionAssumption ==
    /\ Ks \subseteq Nat \ {0}
    /\ DefaultNeighbors \in Seq(Corridors) /\ StubPath \in Seq(Corridors)
    /\ \A j \in DOMAIN Junctions : Junctions[j] \in Corridors
    /\ GenericJunction \in DOMAIN Junctions

VARIABLE diversion      \* the request, and the answer: where its routes come from, the
                        \* routes, the junctions they are for, auto_suggest

NoDiversion == [corridor |-> "", k |-> 0, origin |-> "none", routes |-> <<>>,
                junctions |-> <<>>, suggest |-> FALSE]

DiversionInit == diversion = NoDiversion

EdgeWeight(a, b) ==
    LET sum == Centr(a) + Centr(b) IN 1600000 \div (IF sum < 20 THEN 20 ELSE sum)

\* A way is a path with its cost.
Way(path, cost) == [path |-> path, cost |-> cost]

Cheaper(w, x) == w.cost < x.cost

End(w) == w.path[Len(w.path)]

SomeCheapest(ways) ==
    IF ways = {} THEN {} ELSE {CHOOSE w \in ways : \A x \in ways : ~Cheaper(x, w)}

\* dijkstra: the cheapest way that enters no shut node and follows no cut edge, as a
\* set of one way, or none.  settled[n] holds the ways to the first n + 1 nodes that
\* leave the heap.
Dijkstra(start, goal, shut, cut) ==
    LET next(w, ends) == {v \in Adjacency[End(w)] \ (shut \cup ends) : {End(w), v} \notin cut}
        settled[n \in Nat] ==
            IF n = 0 THEN {Way(<<start>>, 0)}
            ELSE LET done == settled[n - 1]
                     ends == {End(w) : w \in done}
                 IN  IF goal \in ends THEN done
                     ELSE done \cup SomeCheapest(UNION
                            {{Way(Append(w.path, v), w.cost + EdgeWeight(End(w), v)) :
                                v \in next(w, ends)} : w \in done})
    IN  IF {start, goal} \cap shut # {} THEN {}
        ELSE {w \in settled[Cardinality(Corridors)] : End(w) = goal}

PathCost(p) == SumFunctionOnSet([n \in 2 .. Len(p) |-> EdgeWeight(p[n - 1], p[n])], 2 .. Len(p))

\* The root of a spur path may not be entered again.
Shut(closed, last, i) == closed \cup ToSet(SubSeq(last, 1, i - 1))

\* [mutant] Only the way found last is not to be found again.
CutLast(ways, last, n) == {{last[n], last[n + 1]}}

\* The edges a spur path may not leave by: those of the ways that share its root.
Cut(ways, last, n) ==
    {{w.path[n], w.path[n + 1]} : w \in
        {w \in ways : Len(w.path) > n /\ SubSeq(w.path, 1, n) = SubSeq(last, 1, n)}}

\* The candidates of one spur round: for every node of the last path but its goal,
\* the way that leaves there, by an edge no path found so far takes from that root.
Spurs(ways, goal, closed) ==
    LET last == ways[Len(ways)].path
        root(i) == SubSeq(last, 1, i)
        whole(i, spur) == Way(SubSeq(last, 1, i - 1) \o spur.path, PathCost(root(i)) + spur.cost)
        found(i) == SetToSeq({whole(i, spur) : spur \in
                    Dijkstra(last[i], goal, Shut(closed, last, i),
                                                         Cut(ToSet(ways), last, i))})
    IN  FlattenSeq([i \in 1 .. Len(last) - 1 |-> found(i)])

\* The heap gives the cheapest candidate, of equals the oldest.
Cheapest(cands) ==
    CHOOSE i \in DOMAIN cands : \A j \in DOMAIN cands :
        Cheaper(cands[i], cands[j]) \/ (~Cheaper(cands[j], cands[i]) /\ i <= j)

TakeCheapest(ways, heap) ==
    IF heap = <<>> THEN [ways |-> ways, heap |-> heap]
    ELSE LET i == Cheapest(heap)
         IN  [ways |-> Append(ways, heap[i]), heap |-> RemoveAt(heap, i)]

\* k_shortest_paths: candidates stay in the heap from one round to the next.
KShortestPaths(start, goal, k, closed) ==
    LET round[n \in Nat] ==
            IF n <= 1
            THEN [ways |-> SetToSeq(Dijkstra(start, goal, closed, {})), heap |-> <<>>]
            ELSE LET prev == round[n - 1]
                 IN  IF Len(prev.ways) < n - 1 THEN prev
                     ELSE TakeCheapest(prev.ways,
                                       prev.heap \o Spurs(prev.ways, goal, closed))
    IN  round[k].ways

\* detect_gridlock: a path that comes back, to the closed corridor or to itself.
Gridlock(path, closed) ==
    \/ \E n \in 2 .. Len(path) : path[n] = closed
    \/ Cardinality(ToSet(path)) # Len(path)

\* The corridors of a list but this one.
Without(list, corridor) ==
    FlattenSeq([n \in DOMAIN list |-> IF list[n] = corridor THEN <<>> ELSE <<list[n]>>])

NeighborsOf(corridor) ==
    IF Listed(corridor) = <<>> THEN Without(DefaultNeighbors, corridor) ELSE Listed(corridor)

\* Every pair of neighbours in turn.
Candidates(nbrs, corridor, k) ==
    LET pairs == {p \in ToSet(nbrs) \X ToSet(nbrs) : p[1] # p[2]}
    IN  UNION {ToSet(KShortestPaths(p[1], p[2], k, {corridor})) : p \in pairs}

\* A path is made up when no pair is connected.
MadeUp(nbrs) ==
    Way(IF Len(nbrs) >= 2 THEN <<nbrs[1], nbrs[Len(nbrs)]>> ELSE nbrs, 12000)

\* Ranked by the gridlock flag and the cost; each path once, k of them.
Ranked(ways, corridor, k) ==
    LET rank(w) == IF Gridlock(w.path, corridor) THEN 1 ELSE 0
        less(w, x) == rank(w) < rank(x) \/ (rank(w) = rank(x) /\ Cheaper(w, x))
        top[n \in Nat] ==
            IF n = 0 THEN <<>>
            ELSE LET prev == top[n - 1]
                     rest == ways \ ToSet(prev)
                 IN  IF rest = {} THEN prev
                     ELSE Append(prev, CHOOSE w \in rest : \A x \in rest : ~less(x, w))
    IN  top[k]

RoutesOf(ways, nbrs, corridor, k) ==
    IF ways # {} THEN [routes |-> Ranked(ways, corridor, k), origin |-> "graph"]
    ELSE [routes |-> <<MadeUp(nbrs)>>, origin |-> "fallback"]

\* _build_routes, for the atlas (k is 3) and for compute().
BuildRoutes(corridor, k) ==
    IF corridor = "Non-corridor" \/ NeighborsOf(corridor) = <<>>
    THEN [routes |-> <<Way(StubPath, 5000)>>, origin |-> "stub"]
    ELSE LET nbrs == NeighborsOf(corridor)
         IN  RoutesOf(Candidates(nbrs, corridor, k), nbrs, corridor, k)

\* POST /diversions/compute: the routes are built for the corridor, whatever node the
\* request says is closed.
Compute(corridor, k) ==
    \E b \in {BuildRoutes(corridor, k)} :
        diversion' = [NoDiversion EXCEPT !.corridor = corridor, !.k = k,
                                         !.origin = b.origin, !.routes = b.routes]

\* The atlas, built at import: the three routes of every junction's corridor.
AtlasEntry(j) == BuildRoutes(Junctions[j], 3)

JunctionsOf(corridor) ==
    LET own == {j \in DOMAIN Junctions : Junctions[j] = corridor}
    IN  IF own = {} THEN {GenericJunction} ELSE own

\* routes_for_corridor: the best route of each junction of the corridor.
RoutesForCorridor(corridor) ==
    [n \in 1 .. Cardinality(JunctionsOf(corridor)) |->
        LET j == SetToSeq(JunctionsOf(corridor))[n]
        IN  [junction |-> j, way |-> AtlasEntry(j).routes[1]]]

\* GET /diversions/scenarios/{event_id} and the references of M06 and M09: without
\* features the closure is taken for 0.35 likely, off the peak.  p is in hundredths.
Scenarios(corridor) ==
    LET suggests == {features /\ p > 35 /\ peak : features, peak \in BOOLEAN, p \in {35, 36}}
    IN  \E refs \in {RoutesForCorridor(corridor)}, suggest \in suggests :
            diversion' = [corridor |-> corridor, k |-> Len(refs), origin |-> "atlas",
                          routes |-> [n \in DOMAIN refs |-> refs[n].way],
                          junctions |-> [n \in DOMAIN refs |-> refs[n].junction],
                          suggest |-> suggest]

DiversionNext ==
    /\ diversion = NoDiversion
    /\ \E corridor \in Corridors :
        \/ \E k \in Ks : Compute(corridor, k)
        \/ Scenarios(corridor)

DiversionSpec == DiversionInit /\ [][DiversionNext]_diversion

------------------------------------------------------------------------------
\* Every way without repetition between two neighbours of a closed corridor, around it.
SimpleWays(corridor) ==
    LET ends == ToSet(NeighborsOf(corridor)) \ {corridor}
        grow[n \in Nat] ==
            IF n <= 1 THEN {Way(<<c>>, 0) : c \in ends}
            ELSE LET shorter == grow[n - 1]
                 IN  UNION {{Way(Append(w.path, v), w.cost + EdgeWeight(End(w), v)) :
                        v \in Adjacency[End(w)] \ (ToSet(w.path) \cup {corridor})} : w \in shorter}
    IN  UNION {{w \in grow[n] : End(w) \in ends} : n \in 2 .. Cardinality(Corridors)}

Between(all, p, q) == {w \in all : w.path[1] = p /\ End(w) = q}

EachOnce(ways) == \A m, n \in DOMAIN ways : m < n => ways[m] # ways[n]

\* k of all ways in order, or all there are, and none that is left out is cheaper.
InOrder(ways, k, all) ==
    /\ ToSet(ways) \subseteq all /\ Len(ways) <= k
    /\ \A m, n \in DOMAIN ways : m < n => ~Cheaper(ways[n], ways[m])
    /\ Len(ways) = k \/ ToSet(ways) = all
    /\ ways # <<>> => \A w \in all \ ToSet(ways) : ~Cheaper(w, ways[Len(ways)])

\* These ways are the k cheapest of all, in order, each of them once.
AreCheapest(ways, k, all) == EachOnce(ways) /\ InOrder(ways, k, all)

\* These ways are some of all, and the first is the cheapest of all.
BeginCheapest(ways, all) ==
    /\ ToSet(ways) \subseteq all
    /\ all # {} => ways # <<>> /\ \A w \in all : ~Cheaper(w, ways[1])

\* What holds on every graph.  The ways found between two neighbours are ways of the graph
\* around the closed corridor in the order of their costs, with none left out that is
\* cheaper, though a spur path joins a root that was found without it and a candidate may
\* wait in the heap for rounds; the routes offered are the k cheapest of all the ways
\* found, the cheapest of all there are first, and none is flagged as a gridlock.  A
\* path is made up only where there is none.  The route a junction of the atlas offers
\* for the corridor is the cheapest of all.
RoutesBeginCheapest ==
    LET rs == diversion.routes
        k == diversion.k
        closed == diversion.corridor
        nbrs == NeighborsOf(closed)
        all == SimpleWays(closed)
    IN  /\ diversion.origin = "graph" =>
            /\ BeginCheapest(rs, all) /\ AreCheapest(rs, k, Candidates(nbrs, closed, k))
            /\ \A n \in DOMAIN rs : ~Gridlock(rs[n].path, closed)
            /\ \A p, q \in ToSet(nbrs) : p # q =>
                    InOrder(KShortestPaths(p, q, k, {closed}), k, Between(all, p, q))
        /\ diversion.origin = "fallback" => all = {}
        /\ diversion.origin = "atlas" => \A n \in DOMAIN rs :
            Junctions[diversion.junctions[n]] = closed /\ closed # "Non-corridor" /\ all # {}
            => rs[n] \in all /\ \A w \in all : ~Cheaper(w, rs[n])

\* No search between two neighbours finds a way twice.
FoundOnce ==
    diversion.origin = "graph" =>
        \A p, q \in ToSet(NeighborsOf(diversion.corridor)) : p # q =>
            EachOnce(KShortestPaths(p, q, diversion.k, {diversion.corridor}))

\* And on the graph of the city the routes are the k cheapest of all, between all
\* neighbours as between any two of them, though the heap of graph.py:84 keeps what it
\* is given twice.  This is about costs alone: routes may share edges.
RoutesAreTheCheapest ==
    LET k == diversion.k
        closed == diversion.corridor
        all == SimpleWays(closed)
    IN  /\ RoutesBeginCheapest
        /\ diversion.origin = "graph" =>
            /\ AreCheapest(diversion.routes, k, all)
            /\ \A p, q \in ToSet(NeighborsOf(closed)) : p # q =>
                    AreCheapest(KShortestPaths(p, q, k, {closed}), k, Between(all, p, q))

Edges(p) == {{p[n - 1], p[n]} : n \in 2 .. Len(p)}

\* A way that shares no edge with the first n routes.
DisjointFrom(w, routes, n) == \A m \in 1 .. n : Edges(w.path) \cap Edges(routes[m].path) = {}

\* M08_DiversionRoutingEngine.md:42 "Edge-disjoint where possible": a route that shares
\* an edge with one before it is offered only where every way there is would.  The ways
\* are ranked by their cost and nothing else, and one street is offered in both
\* directions.
RoutesAreDisjoint ==
    LET rs == diversion.routes
    IN  diversion.origin = "graph" =>
            \A n \in DOMAIN rs :
                DisjointFrom(rs[n], rs, n - 1)
                \/ ~ \E w \in SimpleWays(diversion.corridor) : DisjointFrom(w, rs, n - 1)

\* M08_DiversionRoutingEngine.md:36 "Closed corridor node excluded from paths".
RoutesAvoidClosedCorridor ==
    \A n \in DOMAIN diversion.routes : diversion.corridor \notin ToSet(diversion.routes[n].path)
==============================================================================
