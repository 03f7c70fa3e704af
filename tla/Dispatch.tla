------------------------------ MODULE Dispatch -------------------------------
(* The dispatch optimizer M07 (dispatch/): which unit goes to which incident. *)
(* A request is answered by the MILP solver when the tier is "1" and the      *)
(* solver meets its deadline, and by the greedy assignment otherwise; the     *)
(* solver, the late solver and the greedy assignment run in one pool of two   *)
(* threads, while the event loop goes on with other requests.                 *)
(*                                                                            *)
(* Units and incidents are numbers: their order stands for the order of the   *)
(* station and unit ids and of the lists, on which equal costs are decided.   *)
(* Costs are in thousandths, RCI, cascade risk and centrality in tenths.      *)
EXTENDS Integers, Sequences, FiniteSets

CONSTANTS
    Recs,           \* recommendation ids, one for each request
    Units,          \* the units a request may offer
    Incidents,      \* the incidents that may be active
    Tow,            \* the units whose equip_type is heavy_tow
    HeavyTow,       \* the incidents for which needs_heavy_tow holds
    Eta,            \* [Units \X Incidents -> minutes]
    Rci,            \* [Incidents -> 0 .. 10]
    Bias,           \* [Incidents -> reporting bias weight], in a bias hour
    Cascade,        \* [Incidents -> 0 .. 10]
    Centrality,     \* [Incidents -> 0 .. 10]
    Threads,        \* max_workers of the executor
    MaxDispatchRestarts

ASSUME DispatchAssumption ==
    /\ Units \subseteq Nat /\ IsFiniteSet(Units)
    /\ Incidents \subseteq Nat /\ IsFiniteSet(Incidents)
    /\ Tow \subseteq Units /\ HeavyTow \subseteq Incidents
    /\ Eta \in [Units \X Incidents -> Nat]
    /\ {Rci, Bias, Cascade, Centrality} \subseteq [Incidents -> Nat]
    /\ Threads \in Nat \ {0} /\ MaxDispatchRestarts \in Nat

VARIABLES
    request,        \* [Recs -> what recommend() holds in its local variables]
    queue,          \* the executor's queue of jobs
    busy,           \* the jobs the threads are at
    lateLog,        \* _late_milp_log: the recommendations whose late solve was feasible
    statusCache,    \* _status_cache
    rows,           \* the dispatch_recommendations table
    dispatchRestarts

dispatchVars ==
    <<request, queue, busy, lateLog, statusCache, rows, dispatchRestarts>>

Idle == [phase |-> "none", incidents |-> {}, units |-> {}, tier |-> "",
         source |-> "", answer |-> {}, late |-> FALSE]

None == [source |-> "none", late |-> FALSE]

DispatchInit ==
    /\ request = [r \in Recs |-> Idle]
    /\ queue = <<>> /\ busy = {}
    /\ lateLog = {}
    /\ statusCache = [r \in Recs |-> None]
    /\ rows = [r \in Recs |-> None]
    /\ dispatchRestarts = 0

------------------------------------------------------------------------------
(* Costs and assignments.                                                     *)

Least(m, n) == IF m < n THEN m ELSE n

EffectiveRci(i) == Least(10, Rci[i] * Least(Bias[i], 3))

HeavyTowBonus(u, i) == IF i \in HeavyTow /\ u \in Tow THEN 500 ELSE 0

\* The RCI raises the cost: the cheapest pairs are those of the mildest incidents.
PairCost(u, i) ==
    1000 * Eta[<<u, i>>] + 40 * EffectiveRci(i) + 25 * Centrality[i] + 35 * Cascade[i]
        - HeavyTowBonus(u, i)
        + (IF i \in HeavyTow /\ u \notin Tow THEN 10000 ELSE 0)

Compatible(u, i) == i \in HeavyTow => u \in Tow

\* The order in which the heap gives the pairs.
Before(p, q) ==
    \/ PairCost(p[1], p[2]) < PairCost(q[1], q[2])
    \/ /\ PairCost(p[1], p[2]) = PairCost(q[1], q[2])
       /\ p[1] < q[1] \/ (p[1] = q[1] /\ p[2] <= q[2])

First(pairs) == CHOOSE p \in pairs : \A q \in pairs : Before(p, q)

\* A pair whose unit or incident is taken is popped and dropped.
FreePairs(us, is, taken) ==
    {p \in us \X is : \A q \in taken : p[1] # q[1] /\ p[2] # q[2]}

GreedyPass(us, is) ==
    LET pass[n \in Nat] ==
            IF n = 0 THEN {}
            ELSE LET free == FreePairs(us, is, pass[n - 1])
                 IN  pass[n - 1] \cup (IF free = {} THEN {} ELSE {First(free)})
    IN  pass[Cardinality(is)]

\* The incidents that are left share the units of the roster.
ReusePass(us, is, taken) ==
    LET left == {i \in is : \A q \in taken : q[2] # i}
        able(i) == {p \in us \X {i} : Compatible(p[1], i)}
    IN  {First(able(i)) : i \in {i \in left : able(i) # {}}}

\* [mutant] The incidents that are left get only a unit that is still free.
ReusePassFree(us, is, taken) ==
    ReusePass({u \in us : \A q \in taken : q[1] # u}, is, taken)

\* [mutant] The units that are left over are not used twice.
GreedyAssignOnce(us, is) ==
    LET taken == GreedyPass(us, is) IN taken \cup ReusePassFree(us, is, taken)

GreedyAssign(us, is) ==
    LET taken == GreedyPass(us, is) IN taken \cup ReusePass(us, is, taken)

\* Nearest unit for each incident, whatever it is able to do.
Tier3Assign(us, is) ==
    {CHOOSE p \in us \X {i} : \A q \in us \X {i} :
        Eta[<<p[1], i>>] < Eta[<<q[1], i>>] \/ (Eta[<<p[1], i>>] = Eta[<<q[1], i>>] /\ p[1] <= q[1])
        : i \in is}

\* What the solver may return before its time limit: it also takes a solution
\* that is not yet known to be the cheapest, so the objective decides nothing.
MilpSolutions(us, is) ==
    {{<<f[i], i>> : i \in is} : f \in
        {f \in [is -> us] :
            /\ \A i, j \in is : f[i] = f[j] => i = j
            /\ \A i \in is : Compatible(f[i], i)}}

------------------------------------------------------------------------------
(* The handler of a request, from one await to the next.                      *)

Job(r, kind) == [rec |-> r, kind |-> kind]

At(r, phase) == request[r].phase = phase

\* _materialize_incidents: of the incidents of a request, its own event and the listed
\* or the active ones, those that have features by the second look.
Materialized == SUBSET Incidents

\* resolve_units: the units the request names, or the roster.
Offered == (SUBSET Units) \ {{}}

\* recommend: a request left with no incident is refused.
Recommend(r) ==
    /\ At(r, "none")
    /\ \E is \in Materialized, us \in Offered, tier \in {"1", "2", "3"}, force \in BOOLEAN :
        IF is = {}
        THEN /\ request' = [request EXCEPT ![r].phase = "refused"]
             /\ UNCHANGED queue
        ELSE /\ request' = [request EXCEPT ![r] =
                    [@ EXCEPT !.phase = "solving", !.incidents = is, !.units = us,
                              !.tier = tier]]
             /\ queue' = Append(queue, Job(r,
                    IF tier = "1" /\ ~force THEN "milp" ELSE "fallback"))
    /\ UNCHANGED <<busy, lateLog, statusCache, rows, dispatchRestarts>>

\* A thread of the pool takes the oldest job.
Take ==
    /\ queue # <<>> /\ Cardinality(busy) < Threads
    /\ busy' = busy \cup {Head(queue)}
    /\ queue' = Tail(queue)
    /\ UNCHANGED <<request, lateLog, statusCache, rows, dispatchRestarts>>

\* milp_assign returns a solution, or none in time.
SolveMilp(r) ==
    /\ Job(r, "milp") \in busy
    /\ \/ \E s \in MilpSolutions(request[r].units, request[r].incidents) :
            request' = [request EXCEPT ![r] =
                [@ EXCEPT !.phase = "solved", !.answer = s, !.source = "milp"]]
       \/ request' = [request EXCEPT ![r].phase = "unsolved"]
    /\ busy' = busy \ {Job(r, "milp")}
    /\ UNCHANGED <<queue, lateLog, statusCache, rows, dispatchRestarts>>

\* Without a solution the late solve is put in the pool first, then the greedy one.
FallBack(r) ==
    /\ At(r, "unsolved")
    /\ request' = [request EXCEPT ![r].phase = "solving"]
    /\ queue' = queue \o <<Job(r, "late"), Job(r, "fallback")>>
    /\ UNCHANGED <<busy, lateLog, statusCache, rows, dispatchRestarts>>

SolveFallback(r) ==
    /\ Job(r, "fallback") \in busy
    /\ LET q == request[r]
           s == IF q.tier = "3" THEN Tier3Assign(q.units, q.incidents)
                ELSE GreedyAssign(q.units, q.incidents)
       IN  request' = [request EXCEPT ![r] =
                [q EXCEPT !.phase = "solved", !.answer = s, !.source = "greedy_fallback"]]
    /\ busy' = busy \ {Job(r, "fallback")}
    /\ UNCHANGED <<queue, lateLog, statusCache, rows, dispatchRestarts>>

\* _late: a feasible late solve is logged by its thread ...
SolveLate(r) ==
    /\ Job(r, "late") \in busy
    /\ \/ /\ MilpSolutions(request[r].units, request[r].incidents) # {}
          /\ lateLog' = lateLog \cup {r}
          /\ busy' = (busy \ {Job(r, "late")}) \cup {Job(r, "correct")}
       \/ /\ busy' = busy \ {Job(r, "late")}
          /\ UNCHANGED lateLog
    /\ UNCHANGED <<request, queue, statusCache, rows, dispatchRestarts>>

\* ... which then corrects the cached status, if it is there already.
CorrectStatus(r) ==
    /\ Job(r, "correct") \in busy
    /\ statusCache' = IF statusCache[r] = None THEN statusCache
                      ELSE [statusCache EXCEPT ![r].late = TRUE]
    /\ busy' = busy \ {Job(r, "correct")}
    /\ UNCHANGED <<request, queue, lateLog, rows, dispatchRestarts>>

\* The flag goes into the answer before the row is written ...
Assemble(r) ==
    /\ At(r, "solved")
    /\ request' = [request EXCEPT ![r] = [@ EXCEPT !.phase = "saving", !.late = r \in lateLog]]
    /\ UNCHANGED <<queue, busy, lateLog, statusCache, rows, dispatchRestarts>>

Status(r) == [source |-> request[r].source, late |-> request[r].late]

Save(r) ==
    /\ At(r, "saving")
    /\ rows' = [rows EXCEPT ![r] = Status(r)]
    /\ request' = [request EXCEPT ![r].phase = "saved"]
    /\ UNCHANGED <<queue, busy, lateLog, statusCache, dispatchRestarts>>

\* ... and into the cached status after it, as it was then.
Answer(r) ==
    /\ At(r, "saved")
    /\ statusCache' = [statusCache EXCEPT ![r] = Status(r)]
    /\ request' = [request EXCEPT ![r].phase = "answered"]
    /\ UNCHANGED <<queue, busy, lateLog, rows, dispatchRestarts>>

\* The process stops: what is not in the table is gone.
DispatchRestart ==
    /\ dispatchRestarts < MaxDispatchRestarts
    /\ dispatchRestarts' = dispatchRestarts + 1
    /\ request' = [r \in Recs |->
            [Idle EXCEPT !.phase = IF request[r].phase \in {"none", "answered"}
                                   THEN request[r].phase ELSE "refused"]]
    /\ queue' = <<>> /\ busy' = {} /\ lateLog' = {}
    /\ statusCache' = [r \in Recs |-> None]
    /\ UNCHANGED rows

\* [mutant] The cached status alone.
StatusCached(r) == IF statusCache[r] # None THEN statusCache[r] ELSE rows[r]

\* status(): the cached status with the log on top of it, else the row.
StatusOf(r) ==
    IF statusCache[r] # None
    THEN [statusCache[r] EXCEPT !.late = @ \/ r \in lateLog]
    ELSE rows[r]

DispatchNext ==
    \/ \E r \in Recs :
        \/ Recommend(r) \/ SolveMilp(r) \/ FallBack(r) \/ SolveFallback(r)
        \/ SolveLate(r) \/ CorrectStatus(r) \/ Assemble(r) \/ Save(r) \/ Answer(r)
    \/ Take
    \/ DispatchRestart

DispatchSpec == DispatchInit /\ [][DispatchNext]_dispatchVars

------------------------------------------------------------------------------
DispatchTypeOK ==
    /\ request \in [Recs -> [phase : {"none", "refused", "solving", "unsolved", "solved",
                                     "saving", "saved", "answered"},
                             incidents : SUBSET Incidents, units : SUBSET Units,
                             tier : {"", "1", "2", "3"},
                             source : {"", "milp", "greedy_fallback"},
                             answer : SUBSET (Units \X Incidents), late : BOOLEAN]]
    /\ queue \in Seq([rec : Recs, kind : {"milp", "late", "fallback"}])
    /\ busy \subseteq [rec : Recs, kind : {"milp", "late", "correct", "fallback"}]
    /\ Cardinality(busy) <= Threads
    /\ lateLog \subseteq Recs
    /\ \A t \in {statusCache, rows} :
        t \in [Recs -> [source : {"none", "milp", "greedy_fallback"}, late : BOOLEAN]]
    /\ dispatchRestarts \in 0 .. MaxDispatchRestarts

Served(s, i) == \E p \in s : p[2] = i

OneToOne(s) == \A p, q \in s : p[1] = q[1] \/ p[2] = q[2] => p = q

\* A pair is passed over only when its unit or its incident has a cheaper one.
Stable(s, us, is) ==
    \A p \in us \X is : \E q \in s : (q[1] = p[1] \/ q[2] = p[2]) /\ Before(q, p)

\* Every answer serves each of its incidents once, whoever solved it: the solver
\* with a unit of its own that can tow it; the greedy assignment also when the
\* roster is exhausted, except a heavy one no offered unit can tow, and without
\* ever passing over a pair that is cheaper for its unit and for its incident;
\* tier "3" with the nearest unit (greedy.py:91 "no starvation").
AnswersServeIncidents ==
    \A r \in Recs : request[r].source # "" =>
        LET q == request[r]
            s == q.answer
        IN  /\ s # {} /\ s \subseteq q.units \X q.incidents
            /\ \A p1, p2 \in s : p1[2] = p2[2] => p1 = p2
            /\ q.source = "milp" =>
                   /\ \A i \in q.incidents : Served(s, i)
                   /\ OneToOne(s) /\ \A p \in s : Compatible(p[1], p[2])
            /\ q.source = "greedy_fallback" =>
                   \A i \in q.incidents : Served(s, i) \/ (q.tier # "3" /\ q.units \cap Tow = {}
                                                        /\ i \in HeavyTow)
            /\ q.source = "greedy_fallback" /\ q.tier # "3" => Stable(s, q.units, q.incidents)
            /\ q.tier = "3" => \A p \in s, u \in q.units : Eta[<<p[1], p[2]>>] <= Eta[<<u, p[2]>>]

\* A late solve that was feasible is reported whenever it ends: before the answer
\* is assembled, while its row is written, or after the answer was given.
LateSolveIsReported ==
    \A r \in lateLog : At(r, "answered") => StatusOf(r).late
==============================================================================
