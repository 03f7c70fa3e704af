------------------------------- MODULE Hotspots ------------------------------
(* The hotspot monitor M05 (hotspots/): the alarm on a corridor with more     *)
(* events than its history explains, and the clusters of the events of today  *)
(* behind a cache in memory and in Redis.  Time is counted in ticks; rates    *)
(* are in hundredths of an event per hour.                                    *)
EXTENDS Integers, Sequences, FiniteSets, FiniteSetsExt, SequencesExt

CONSTANTS
    Cells,              \* H3 cells
    Near,               \* the pairs of different cells DBSCAN's eps reaches
    CorridorOf,         \* [Cells -> a corridor]
    History,            \* [a subset of Cells -> the events of the historical corpus there]
    EventTimes,         \* the times an event may have begun
    HistoryDays,        \* the days the corpus spans
    Horizons,           \* forecast horizons
    Window,             \* the 30 minutes of the alarm
    Day,                \* the 24 hours of get_observable_events
    ObservedTtl, ForecastTtl,
    MinSamples,         \* hotspot_dbscan_min_samples
    TopN,               \* the clusters an answer shows
    SampleCap,          \* maxlen of the tracker's deque
    MaxIngests, MaxGets, MaxTicks, MaxCrashes

ASSUME HotspotAssumption ==
    /\ IsFiniteSet(Cells) /\ EventTimes \subseteq Int /\ Near \subseteq {{a, b} : a, b \in Cells}
    /\ DOMAIN CorridorOf = Cells /\ DOMAIN History \subseteq Cells
    /\ \A c \in DOMAIN History : History[c] \in Nat \ {0}
    /\ {HistoryDays, MinSamples, TopN, SampleCap} \subseteq Nat \ {0}
    /\ {Window, Day, ObservedTtl, ForecastTtl, MaxIngests, MaxGets, MaxTicks,
        MaxCrashes} \subseteq Nat

VARIABLES
    now,
    events,             \* normalized_events: the rows, in the order they came
    samples,            \* the tracker's deque
    alarms,             \* the tracker's alerts
    memory, redis,      \* hotspots:*, [key -> entry]
    served,             \* the last answer, and when it was given
    gets, crashes       \* bounds: requests and crashes so far

hotspotVars == <<now, events, samples, alarms, memory, redis, served, gets, crashes>>

Keys == {"observed"} \cup Horizons
NoEntry == [made |-> 0, expires |-> 0, source |-> "none", clusters |-> {}, points |-> 0]
NoAnswer == [at |-> 0, ttl |-> 0, entry |-> NoEntry]

HotspotInit ==
    /\ now = 0 /\ events = <<>> /\ samples = <<>> /\ alarms = {} /\ gets = 0 /\ crashes = 0
    /\ memory = [k \in Keys |-> NoEntry] /\ redis = [k \in Keys |-> NoEntry]
    /\ served = NoAnswer

------------------------------------------------------------------------------
(* The alarm.                                                                 *)

\* historical_index.load: the hourly rate of a corridor that has a history.
Baselined == {CorridorOf[c] : c \in DOMAIN History}

Baseline(corridor) ==
    LET total == SumFunctionOnSet(History, {c \in DOMAIN History : CorridorOf[c] = corridor})
    IN  (100 * total) \div (24 * HistoryDays)

\* set_baselines.
Sigma(corridor) == Max({Baseline(corridor) \div 2, 5})

\* So many events in half an hour are three deviations above the baseline.
Unusual(corridor, count) ==
    corridor \in Baselined /\ 200 * count - Baseline(corridor) >= 3 * Sigma(corridor)

\* [mutant] The window ends with the event that is evaluated.
InClosedWindow(s, corridor, at) == s.corridor = corridor /\ s.at \in at - Window .. at

\* The samples the window holds when an event of this time is evaluated: it has a
\* beginning and no end, since events may come late.
InWindow(s, corridor, at) == s.corridor = corridor /\ s.at >= at - Window

RecentCount(ss, corridor, at) ==
    Cardinality({n \in DOMAIN ss : InWindow(ss[n], corridor, at)})

\* record and _evaluate: the deque drops its oldest sample.
Recorded(corridor, at) ==
    LET all == Append(samples, [corridor |-> corridor, at |-> at])
    IN  IF Len(all) > SampleCap THEN Tail(all) ELSE all

\* An event is ingested: its row is there, then the subscriber records it.
Ingest(cell, at) ==
    LET corridor == CorridorOf[cell]
        ss == Recorded(corridor, at)
    IN  /\ Len(events) < MaxIngests
        /\ events' = Append(events, [cell |-> cell, at |-> at, active |-> TRUE])
        /\ samples' = ss
        /\ alarms' = IF Unusual(corridor, RecentCount(ss, corridor, at))
                     THEN alarms \cup {[corridor |-> corridor, at |-> at]} ELSE alarms
        /\ UNCHANGED <<now, memory, redis, served, gets, crashes>>

CloseRow(n) ==
    /\ n \in DOMAIN events /\ events[n].active
    /\ events' = [events EXCEPT ![n].active = FALSE]
    /\ UNCHANGED <<now, samples, alarms, memory, redis, served, gets, crashes>>

HotspotTick ==
    /\ now < MaxTicks
    /\ now' = now + 1
    /\ UNCHANGED <<events, samples, alarms, memory, redis, served, gets, crashes>>

\* The tracker and the cache in memory are the process's own.
HotspotCrash ==
    /\ crashes < MaxCrashes
    /\ crashes' = crashes + 1
    /\ samples' = <<>> /\ alarms' = {}
    /\ memory' = [k \in Keys |-> NoEntry]
    /\ UNCHANGED <<now, events, redis, served, gets>>

------------------------------------------------------------------------------
(* The clusters.  A point is an event in a cell; counts is [Cells -> Nat].    *)

PointCount(counts) == SumFunctionOnSet(counts, Cells)

Singletons(counts, cells) ==
    {[cells |-> {c}, density |-> counts[c]] : c \in {c \in cells : counts[c] > 0}}

Neighborhood(c) == {d \in Cells : d = c \/ {c, d} \in Near}

\* DBSCAN: a cell with enough points around it is a core; cores near one another are
\* one cluster, which takes the cells around it that no other cluster has.
Dbscan(counts) ==
    LET core == {c \in Cells : counts[c] > 0 /\
                    SumFunctionOnSet(counts, Neighborhood(c)) >= MinSamples}
        linked(c) ==
            LET reach[n \in Nat] ==
                    IF n = 0 THEN {c}
                    ELSE LET r == reach[n - 1]
                         IN  r \cup UNION {Neighborhood(d) \cap core : d \in r}
            IN  reach[Cardinality(Cells)]
        edge == {c \in Cells \ core : counts[c] > 0 /\ Neighborhood(c) \cap core # {}}
        home(c) == CHOOSE d \in core : d \in Neighborhood(c)
    IN  {LET cells == linked(c) \cup {e \in edge : home(e) \in linked(c)}
         IN  [cells |-> cells, density |-> SumFunctionOnSet(counts, cells)] : c \in core}

\* The densest ones, of equals any.
Top(clusters) ==
    IF Cardinality(clusters) <= TopN THEN clusters
    ELSE CHOOSE top \in kSubset(TopN, clusters) :
            \A c \in top, d \in clusters \ top : c.density >= d.density

\* cluster_events_haversine: few points, and the ones DBSCAN calls noise, make a
\* cluster for each cell.
Cluster(counts) ==
    IF PointCount(counts) < MinSamples THEN Singletons(counts, Cells)
    ELSE LET found == Dbscan(counts)
         IN  Top(found \cup Singletons(counts, Cells \ UNION {c.cells : c \in found}))

\* get_observable_events: what is active, and what began within a day.
ObservableCounts ==
    [c \in Cells |-> Cardinality({n \in DOMAIN events : events[n].cell = c /\
                                    (events[n].active \/ events[n].at >= now - Day)})]

\* historical_clusters: cells with three events or more, of which up to 15 count.
HistoricalCounts ==
    [c \in Cells |-> IF c \in DOMAIN History /\ History[c] >= 3 THEN Min({History[c], 15}) ELSE 0]

\* The five black spots of the traffic police.
Blackspots == {[cells |-> {}, density |-> d] : d \in {65, 48, 42, 38, 35}}

\* The sources in turn, the next one when the one before has no cluster.
Computed ==
    LET live == Cluster(ObservableCounts)
        past == Cluster(HistoricalCounts)
        from(source, clusters) == [source |-> source, clusters |-> clusters,
                                   points |-> PointCount(ObservableCounts)]
    IN  IF live # {} THEN from("live_dbscan", live)
        ELSE IF past # {} THEN from("historical_fallback", past)
        ELSE from("static_tier3", Blackspots)

\* What the forecast says is left out: only its age matters here.
Forecast == [source |-> "poisson_glm", clusters |-> {}, points |-> 0]

Ttl(k) == IF k = "observed" THEN ObservedTtl ELSE ForecastTtl

------------------------------------------------------------------------------
(* The cache.                                                                 *)

Valid(entry) == entry # NoEntry /\ now < entry.expires

\* _read: memory first; Redis, when it answers, only for what memory has no more.
Found(k, up) ==
    IF Valid(memory[k]) THEN memory[k]
    ELSE IF up /\ Valid(redis[k]) THEN redis[k] ELSE NoEntry

\* [mutant] What Redis had is kept in memory for another whole period.
KeptFromRedis(k, up) ==
    IF Found(k, up) = NoEntry \/ Valid(memory[k]) THEN memory[k]
    ELSE [Found(k, up) EXCEPT !.expires = now + Ttl(k)]

\* What the memory is left with: an entry that has expired is dropped.
Kept(k, up) == IF Valid(memory[k]) THEN memory[k] ELSE NoEntry

Made(k, computed) ==
    [made |-> now, expires |-> now + Ttl(k), source |-> computed.source,
     clusters |-> computed.clusters, points |-> computed.points]

\* get_observed and get_predicted, while Redis may be away.
Get(k) ==
    /\ gets < MaxGets /\ gets' = gets + 1
    /\ \E up \in BOOLEAN :
        LET hit == Found(k, up) # NoEntry
            entry == IF hit THEN Found(k, up)
                     ELSE Made(k, IF k = "observed" THEN Computed ELSE Forecast)
        IN  /\ memory' = [memory EXCEPT ![k] = IF hit THEN Kept(k, up) ELSE entry]
            /\ redis' = IF ~hit /\ up THEN [redis EXCEPT ![k] = entry] ELSE redis
            /\ served' = [at |-> now, ttl |-> Ttl(k), entry |-> entry]
            /\ UNCHANGED <<now, events, samples, alarms, crashes>>

HotspotNext ==
    \/ \E cell \in Cells, at \in EventTimes : Ingest(cell, at)
    \/ \E n \in DOMAIN events : CloseRow(n)
    \/ \E k \in Keys : Get(k)
    \/ HotspotTick
    \/ HotspotCrash

HotspotSpec == HotspotInit /\ [][HotspotNext]_hotspotVars

------------------------------------------------------------------------------
\* A burst is noticed in whatever order its events come in: if the deque holds, within
\* half an hour, unusually many events of a corridor, an alarm was raised for one of
\* them or for one that came with them.
BurstIsNoticed ==
    \A n \in DOMAIN samples :
        LET first == samples[n]
            burst == {m \in DOMAIN samples : samples[m].corridor = first.corridor
                                             /\ samples[m].at \in first.at .. first.at + Window}
        IN  Unusual(first.corridor, Cardinality(burst)) =>
                \E a \in alarms : a.corridor = first.corridor

\* No answer is older than its period, wherever it was kept and whatever was down
\* or restarted in between; it is never empty; and live
\* clusters count every event observed when they were made exactly once.
ObservedIsFresh ==
    served # NoAnswer =>
        LET e == served.entry
        IN  /\ e.made = served.at \/ (e.made < served.at /\ served.at - e.made < served.ttl)
            /\ e.source # "poisson_glm" => e.clusters # {}
            /\ e.source = "live_dbscan" =>
                /\ \A c, d \in e.clusters : c = d \/ c.cells \cap d.cells = {}
                /\ Cardinality(e.clusters) < TopN =>
                    SumFunctionOnSet([c \in e.clusters |-> c.density], e.clusters) = e.points
==============================================================================
