---------------------------- MODULE CorridorGraph ----------------------------
(* The corridor graph of M02 (features/constants.py, features/graph_stub.py): *)
(* every corridor lists its neighbours, and not every neighbour lists it in   *)
(* return.  Centralities are in hundredths.                                   *)
EXTENDS Integers, Sequences, FiniteSets, SequencesExt

CONSTANTS
    Corridors,          \* the corridors with a list or a centrality, "Non-corridor" among them
    NeighborList,       \* CORRIDOR_NEIGHBORS: [a subset of Corridors -> Seq(Corridors)]
    CentralityOf        \* CORRIDOR_CENTRALITY: [a subset of Corridors -> 0 .. 100]

ASSUME CorridorAssumption ==
    /\ IsFiniteSet(Corridors) /\ "Non-corridor" \in Corridors
    /\ DOMAIN NeighborList \subseteq Corridors /\ DOMAIN CentralityOf \subseteq Corridors
    /\ \A c \in DOMAIN NeighborList : NeighborList[c] \in Seq(Corridors)
    /\ \A c \in DOMAIN CentralityOf : CentralityOf[c] \in 0 .. 100

Listed(c) == IF c \in DOMAIN NeighborList THEN NeighborList[c] ELSE <<>>

\* DEFAULT_CENTRALITY for a corridor that has none.
Centr(c) == IF c \in DOMAIN CentralityOf THEN CentralityOf[c] ELSE 25

\* build_adjacency: the lists, read in both directions.
Adjacency ==
    [a \in Corridors |-> {b \in Corridors : b \in ToSet(Listed(a)) \/ a \in ToSet(Listed(b))}]

\* get_neighbors: what the lists reach in so many hops, at most five.
WithinHops(c, hops) ==
    LET reach[h \in Nat] ==
            IF h = 0 THEN {c}
            ELSE LET before == reach[h - 1]
                 IN  before \cup UNION {ToSet(Listed(d)) : d \in before}
        clamped == IF hops < 1 THEN 1 ELSE IF hops > 5 THEN 5 ELSE hops
    IN  reach[clamped] \ {c}
==============================================================================
