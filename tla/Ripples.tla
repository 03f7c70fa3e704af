------------------------------- MODULE Ripples -------------------------------
(* The ripple of M04 (propagation/gcdh.py): how the risk of an incident goes  *)
(* from corridor to corridor, weaker with every hop.  Risks, weights and      *)
(* decays are in thousandths, rounded down at every product.                  *)
EXTENDS CorridorGraph

CONSTANTS
    SeedRcis,       \* the RCIs a caller starts from
    Epsilons,       \* the thresholds a caller sets
    Decay           \* exp(-lambda * hop), one for each hop up to max_hops, of which a
                    \* request may ask for five (schemas.py:16)

ASSUME RippleAssumption ==
    /\ SeedRcis \subseteq 0 .. 1000 /\ Epsilons \subseteq 1 .. 1000
    /\ Decay \in Seq(0 .. 1000) /\ Len(Decay) <= 5

VARIABLE ripple     \* the request and its PropagationMap

NoRipple == [seed |-> "", rci |-> 0, epsilon |-> 0, hops |-> 0, nodes |-> {}, cascade |-> 0]

RippleInit == ripple = NoRipple

Times(a, b) == (a * b) \div 1000

Weight(u, v) == 500 + ((Centr(u) + Centr(v)) * 5) \div 2

Amplification(v) == 1000 + (15 * Centr(v)) \div 10

\* What u passes on to v; a corridor with no list passes on nothing.
Delta(risk, u, v, hop) ==
    Times(Times(Times(risk, Weight(u, v)), Decay[hop]), Amplification(v))

\* [mutant] The edges are taken in both directions, as M08 takes them.
CarriesBothWays(map, u, v, hop, epsilon) ==
    v \in Adjacency[u] /\ Delta(map.risk[u], u, v, hop) >= epsilon

\* An edge over which enough risk comes at this hop.
Carries(map, u, v, hop, epsilon) ==
    v \in ToSet(Listed(u)) /\ Delta(map.risk[u], u, v, hop) >= epsilon

\* What a hop brings is added to what the corridor had.
Raised(before, gained) == before + gained

\* One hop.  The parent of a corridor is the edge of the strongest contribution so
\* far, of this hop or of an earlier one.
Hop(map, hop, epsilon) ==
    LET into(v) == {u \in map.current : Carries(map, u, v, hop, epsilon)}
        gain(u, v) == Delta(map.risk[u], u, v, hop)
        best(v) == CHOOSE u \in into(v) : \A w \in into(v) : gain(w, v) <= gain(u, v)
        next == {v \in Corridors : into(v) # {}}
        better == {v \in next : gain(best(v), v) > map.delta[v]}
        update(old, at, new(_)) == [v \in Corridors |-> IF v \in at THEN new(v) ELSE old[v]]
        risk == update(map.risk, next, LAMBDA v : Raised(map.risk[v],
                    SumFunctionOnSet([u \in into(v) |-> gain(u, v)], into(v))))
        parent == update(map.parent, better, best)
    IN  [risk |-> risk, current |-> next, parent |-> parent,
         delta |-> update(map.delta, better, LAMBDA v : gain(best(v), v)),
         nodes |-> map.nodes \cup
            {[node |-> v, hop |-> hop, risk |-> risk[v], parent |-> parent[v]] : v \in next}]

\* run_gcdh; the cascade risk is the highest within two hops.
RunGcdh(seed, rci, hops, epsilon) ==
    LET start == [risk |-> [v \in Corridors |-> IF v = seed THEN rci ELSE 0],
                  current |-> {seed},
                  parent |-> [v \in Corridors |-> ""], delta |-> [v \in Corridors |-> 0],
                  nodes |-> {[node |-> seed, hop |-> 0, risk |-> rci, parent |-> ""]}]
        wave[h \in Nat] == IF h = 0 THEN start ELSE Hop(wave[h - 1], h, epsilon)
    IN  wave[hops].nodes

CascadeRisk(nodes) == Max({n.risk : n \in {n \in nodes : n.hop <= 2}})

RippleNext ==
    /\ ripple = NoRipple
    /\ \E seed \in Corridors, rci \in SeedRcis, epsilon \in Epsilons, hops \in DOMAIN Decay :
        LET nodes == RunGcdh(seed, rci, hops, epsilon)
        IN  ripple' = [seed |-> seed, rci |-> rci, epsilon |-> epsilon, hops |-> hops,
                       nodes |-> nodes, cascade |-> CascadeRisk(nodes)]

RippleSpec == RippleInit /\ [][RippleNext]_ripple

------------------------------------------------------------------------------
\* The edge the map shows as a corridor's parent is an edge of the graph along which
\* the wave went, from a corridor the map has at an earlier hop.
ParentWasReached(n, nodes) ==
    /\ n.node \in ToSet(Listed(n.parent))
    /\ \E m \in nodes : m.node = n.parent /\ m.hop < n.hop

\* A ripple can be explained to the commander: every corridor on it has a parent that
\* was reached before; it is among the neighbours M02 gives for as many hops; a
\* shorter ripple is the start of the longer one; and a larger threshold takes
\* corridors and risk off the map, it adds none.  The cascade risk, which M07 adds to
\* its costs, is never below the seed's own.
RippleIsExplained ==
    ripple # NoRipple =>
        LET nodes == ripple.nodes
            with(hops, epsilon) == RunGcdh(ripple.seed, ripple.rci, hops, epsilon)
        IN  /\ \A n \in nodes : n.hop > 0 => ParentWasReached(n, nodes)
            /\ \A n \in nodes : n.node \in WithinHops(ripple.seed, ripple.hops) \cup {ripple.seed}
            /\ \A m, n \in nodes : m.node = n.node /\ m.hop = n.hop => m = n
            /\ \A h \in 1 .. ripple.hops - 1 :
                    with(h, ripple.epsilon) = {n \in nodes : n.hop <= h}
            /\ \A e \in {e \in Epsilons : e < ripple.epsilon} :
                    LET larger == with(ripple.hops, e)
                    IN  \A n \in nodes : \E m \in larger :
                            m.node = n.node /\ m.hop = n.hop /\ n.risk <= m.risk
            /\ ripple.rci <= ripple.cascade

\* M04_PropagationEngine.md:59, the "GCDH formula": the risk of a corridor at a hop is
\* the sum of what the corridors of the hop before pass on to it.  gcdh.py:72 adds that
\* to what the corridor had from earlier hops, and a corridor that is reached again
\* keeps its risk undecayed.
RiskFollowsFormula ==
    LET passes(m, n) ==
            IF m.hop = n.hop - 1 /\ n.node \in ToSet(Listed(m.node))
            THEN Delta(m.risk, m.node, n.node, n.hop) ELSE 0
        arriving(n) ==
            [m \in ripple.nodes |-> IF passes(m, n) >= ripple.epsilon THEN passes(m, n) ELSE 0]
    IN  \A n \in ripple.nodes :
            n.hop > 0 => n.risk = SumFunctionOnSet(arriving(n), ripple.nodes)
==============================================================================
