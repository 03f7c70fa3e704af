CONSTANTS
    Recs = {r1, r2}
    Units = {1, 2}
    Incidents = {1, 2, 3}
    Tow = {1}
    HeavyTow = {1, 3}
    Eta <- MCEta
    Rci <- MCRci
    Bias <- MCBias
    Cascade <- MCCascade
    Centrality <- MCCentrality
    Threads = 2
    MaxDispatchRestarts = 1
    Corridors <- MCCorridors
    NeighborList <- MCLists
    CentralityOf <- MCCentr
    DefaultNeighbors <- MCDefault
    StubPath <- MCStub
    Junctions <- MCJunctions
    GenericJunction = "junction:generic-1"
    Ks = {1, 3, 5}
    SeedRcis = {800}
    Epsilons = {1, 20, 100}
    Decay <- MCDecay
    Cells = {"cell1", "cell2"}
    Near <- MCNear
    CorridorOf <- MCCorridorOf
    History <- MCHistory
    EventTimes = {0, 1}
    HistoryDays = 1
    Horizons = {"h4"}
    Window = 1
    Day = 1
    ObservedTtl = 2
    ForecastTtl = 1
    MinSamples = 2
    TopN = 2
    SampleCap = 2
    MaxIngests = 2
    MaxGets = 3
    MaxTicks = 2
    MaxCrashes = 1
    Planners = {p1, p2}
    Attributes <- MCAttributes
    ClosureOf <- MCClosureOf
    MaxUpdates = 2
    Closing = {"e1", "e2", "e3"}
    Strata = {"s1", "s2", "s3"}
    StratumOf <- MCStratumOf
    CorpusSizes <- MCCorpusSizes
    Floors = {0, 1, 2, 3, 5}
SPECIFICATION Spec
SYMMETRY MCSymmetry
INVARIANTS
    AnswersServeIncidents
    LateSolveIsReported
      RoutesAreTheCheapest
    RippleIsExplained
    BurstIsNoticed
    ObservedIsFresh
    PackageFitsEvent
    SampleIsProportional
CHECK_DEADLOCK FALSE
