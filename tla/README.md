# Grid Unlocked: formal models

TLA+ models of the backend of Grid Unlocked (`src/backend/src/grid_unlocked`),
the TLC runs that check them on small instances, and TLAPS proofs of what holds
for every instance. Paths below are relative to that package unless they start
with `docs/`.

    tlc -workers 2 -config MCExecutionBroker_single.cfg MCExecutionBroker
    tlapm ExecutionBrokerProofs.tla

## 1. The system

One Python process: a FastAPI application on a single asyncio loop, with
PostgreSQL (SQLAlchemy async sessions), an in-process event bus, an in-process
command queue, WebSocket clients and a few background tasks. Between two
`await`s a coroutine is atomic; at every `await` any other coroutine may run.
Each repository method commits on its own, so no operation below is a
transaction across two writes. This is what the models are about.

| Component | State it keeps | Operations that write | Talks to |
|---|---|---|---|
| M01 `ingestion/` | `events` rows | upsert, authenticate, close | in-process bus: M02, M04, M05, M15, M17 |
| M02 `features/` | feature rows, set of active events | materialise (a task per message), close | reads M01 |
| M03 `impact/` | loaded model bundle | reload, score | M13 promotes into it |
| M04 `propagation/` | ripple maps, set of active events | ripple, close | bus |
| M05 `hotspots/` | the samples and alerts of the alarm, a cache of clusters | record, get | bus |
| M06 `planned/` | a package row per event | package | M02, M03, M08 |
| M07 `dispatch/` | recommendations, a status cache, a pool of two threads | recommend, late solve | M02, M03, called by M09 |
| M08 `diversions/` | the atlas, built at import | compute, scenarios | M02, M03 |
| M09 `recommendations/` | cards, approvals, push log | publish, approve, reject | M10, M11, M14, M15 |
| M10 `execution/` | `execution_queue`, `execution_audit`, the `asyncio.Queue`, one worker | enqueue_dispatch, manual_retry, the worker's loop | stations, M14's gate |
| M11 `vms/` | `vms_delivery` rows, one task per delivery | push, retry, deliver | boards, M14's gate |
| M12 `transit/` | TTL cache | compute | M04 |
| M13 `learning/` | model versions on disk and in the database | train, stage, promote, drift | M03 |
| M14 `governance/` | `governance_state`, transition log, the cache, the recovery timer | override, shadow toggle, probe loop, bootstrap, drill | read by M09, M10, M11 |
| M15 `dashboard/` | list of WebSocket connections | connect, disconnect, broadcast | bus, M09 |
| M16 `field/` | acknowledgements, closures | ack, close | M01 |
| M17 `citizen/` | reports, pre-alerts | submit, verify, reject, loop | M01 |
| M18 and `frontend/` | none that others depend on | - | - |

What is hard in it, by where it bites, is the `hazards` list of
`PROJECT.json`. In short:

* **check-then-act across awaits**, with no unique constraint behind it: M10's
  idempotency, M11's push, M16's closure, M13's version number and promotion;
* **stale reads**: a row kept in a session, or a list of connections read
  before an await, and acted on after it: M10's and M11's retry, M14's cache,
  M15's fan-out, M17's review;
* **partial failure**: two commits where one can fail: station act and audit,
  dispatch row and barricade row, tier and transition log, approval and
  dispatch;
* **bounded memory and restarts**: the command queue and the delivery tasks
  live in memory, their rows do not;
* **one row, several writers**: M01 copies every column of a payload, and M16,
  M17 and the message of the next report all go through it;
* **algorithms with a reference**: the greedy and the MILP assignment, Yen's
  paths, the ripple, the alarm's window, largest remainders, template matching;
* **things that must happen eventually**: each command settles, a request that
  waits for the queue returns, a healthy system gets back to tier 1.

What makes each component correct:

* M10: one execution per approval and command type; the station acts once per
  command; a row never claims an outcome the audit does not hold; no command
  is lost or left between states; acknowledged is final.
* M14: the cache equals the row; every tier change is logged; recovery waits
  for the hysteresis and does happen.
* M11: as M10, per board; a push reaches each board of the route once.
* M09: nothing executes without an approval on record, and nothing in shadow; each
  approval executes once. (Not each card: one that is approved again in another second,
  or approved after it was rejected, executes again; disagreement 11.)
* M15: a client that comes or goes affects no other client and no ingest.
* M01/M02/M04: an event that is stored gets features; after it closes, no
  ripple of it is kept; features are those of the last message.
* M13/M03: one production version, the one loaded, its files its own. (Not where
  promotions or retrains overlap, nor after a restart; disagreements 14 to 16.)
* M16/M17: an event closes once; only a verified report makes its event
  authenticated.
* M05 to M08: each answer is what a reference definition says, from data no
  older than its cache's period, whatever ran at the same time.

## 2. Modules

| Module | What it is |
|---|---|
| `ExecutionBroker` | M10 in full: requests, queue, worker, retries, tables, process |
| `CommandLifecycle` | what M10 promises of one command and M11 of one delivery, the abstract specification |
| `ExecutionBrokerProofs` | theorems about `ExecutionBroker` and, through it, `CommandLifecycle` |
| `Governance` | M14: tier and shadow mode, the cache, the probe loop |
| `GovernanceProofs` | theorems about `Governance` |
| `VmsRouter` | M11 in full: pushes, retries, one task per delivery, the table, process |
| `VmsRouterProofs` | theorems about `VmsRouter` |
| `Incidents`, `IncidentsProofs` | the ingest of an event through the bus: M01, M02, M04, M05, M15; theorems about it |
| `Cards`, `Response` | M09; and M16 and M17, which write the same events (`Response` extends `Cards`) |
| `ResponseProofs` | theorems about `Response` |
| `ModelRegistry`, `ModelRegistryProofs` | M13's jobs, versions and promotions with M03's registry; theorems about them |
| `CorridorGraph` | the graph of corridors M02, M04 and M08 share |
| `Dispatch`, `Diversions`, `Ripples`, `Hotspots`, `Packages`, `ReplayBuffer` | M07, M08, M04, M05, M06 and M13's buffer |
| `Analytics` | these six side by side, one of which runs: they share no state |
| `AnalyticsProofs` | theorems about all six |
| `SequenceFacts` | lemmas on numbers, finite sets, sequences and recursive functions, for the proofs of `Analytics` and `Incidents` |
| `MC...` | the small instances |

### ExecutionBroker

`status`, `key`, `attempts` are columns of `execution_queue`; an execution id
whose status is `absent` has no row. `audit` counts the rows of
`execution_audit` per command and outcome (the table is append-only).
`effects` is what happened at the station: units sent and reservations made
for a command. `queue` is the `asyncio.Queue`, `worker` the local state of the
worker task (where it is, the command, the attempt). `pc`, `req` and `cmds` are
where each request is, its locals, and `cmds_to_enqueue`. `gate` is what
`get_governance()` lets through: M10 only asks whether it may run.

Each action is the code between two awaits that matter:

| Action | Code (`execution/`) |
|---|---|
| `Submit` | the gate of `enqueue_dispatch` |
| `Lookup`, `Insert` | `_enqueue_command`: the SELECT, then the INSERT; for the dispatch, then for the barricades |
| `EnqueueFault` | either of them raises; the row may be committed already (the refresh raised) |
| `Put` | `queue.put`: as many as there is room for without suspending, the rest later |
| `RetryRead`, `RetryReset`, `RetryFault` | `manual_retry` before and after its awaits |
| `Take` | the worker's `queue.get` |
| `MarkProcessing` .. `NextAttempt` | one await each of `_process_command`'s loop |
| `CatchException` | a database call raises inside the `try`: handled as a failed attempt |
| `DropCommand` | it raises outside it or in the `except`: the worker moves on |
| `Stop`, `Stopped`, `Lose`, `Start` | lifespan and `CommandQueue.stop`: sentinel, 5 s timeout, crash, a new empty queue |

Abstracted: payloads, unit names, station acknowledgement ids, reasons, time
stamps, the length of the backoff (`NextAttempt` may come at any time), reads
that change nothing. `barricades` in a command is the one field of the plan the
control depends on: whether `barricade_count > 0`.

### Governance

`db` is the row, `cache` and `booted` are `_cache` and `_bootstrapped`, `since`
is the age of `_healthy_since` in probe cycles. A writer (an operator's request
or the probe task) has a program counter, the row as its session holds it
(`sess`) and what it writes (`op`). Writers go through the same steps: load,
commit the columns that changed against the loaded copy, refresh, log if the tier
differs from the one loaded first, write the cache, publish to the dashboards.
`Fault` may end a writer at each of these but the cache write, which touches memory
only. The tier of the row and the
shadow column are separate columns of one UPDATE, so a writer of one does not
overwrite the other: `Commit` says so. `streak`, `downFor`, `unlogged`, `alone`
and `trusted` are history variables; no guard of the code's actions reads them.

`Cycle` is the part all outcomes of `evaluate_auto_transition` share;
`Downgrade`, `StayDown`, `WaitForRecovery`, `Recover`, `StayUp` are its
branches. A cycle whose write is still on its way does not overlap the next
one: it is one task.

### VmsRouter

`status`, `key`, `attempts` and `flag` are columns of `vms_deliveries` (`flag` is
`dead_letter`), `displayed` counts how often the board accepted the text of a
delivery. `task` holds the delivery tasks: `<<d, 0>>` is the one its push starts,
`<<d, n>>` the one of the n-th manual retry, so that two retries of one row have a
task each, as in the code. Boards are numbered in the registry's order; the text
and the choice of boards for a corridor are left out (there is always a default).

| Action | Code (`vms/`) |
|---|---|
| `Submit`, `Lookup` | `push` up to the idempotency check |
| `Create` | one turn of its loop: the row is committed, the task started |
| `PushFault` | either raises; the row may be committed already (the refresh raised), without a task |
| `RetryRead`, `RetryReset`, `RetryFault` | `retry` before and after its awaits |
| `MarkProcessing` .. `NextAttempt` | one await each of `_deliver_to_board`'s loop |
| `CatchException` | a write inside the `try` raises: a failed attempt |
| `TaskDies` | it raises before the `try` or in the `except`: the task is over |
| `SetShadow`, `Lose`, `Start` | the gate; the process stops, for whatever reason, and starts |

A commit that raises is taken not to have happened. `update` reads the row and
commits it in two awaits; with two tasks of one row a column neither changed
keeps what the other wrote, which one UPDATE of all columns covers for the
properties checked.

### Incidents

`row` and `snapshot` are the tables, `features`, `ripple` and `active` the caches
(Redis, and memory where it raises), `conns` the dashboard's list of
connections. A message is a number; the columns of a row, a snapshot or a cache
entry are the number of the message they were made from, so a stale value can be
told. The flag `became_closed` of the upsert is left out: the close is sent whenever the
stored status is closed, and says so itself. A request (`req`) reads and writes the row, then awaits the handlers in the
order `main.py` registers them: M02's starts a task (`work`) and returns, M05's
and M15's publish to the dashboards, and a closed event is evicted from M02 and
M04. `WriteRow` is the upsert as one UPDATE of all columns; `HotspotSent` and
`IncidentSent` are the end of a gather, with the strict `zip` over the list as it is
by then: the former raises, the latter is caught. `overlap` and `excused` are
history: what the properties have to except, see below.

### Cards and Response

`ev` is an event's status and authentication, `cards` the card rows (the column
`status` and the one inside `card_json`, which are written by different rules),
`approvals` the records, `done` the rows M10 and M11 have for a token. A request
has a program counter and its locals, for building a card, deciding on one,
submitting, verifying or rejecting a report, and closing an event. M07's
assignment is any set of active events that holds the card's own; M10's and M11's
idempotency is taken from their modules: one row per token. A token holds the
second it was made in, as in the code, so two approvals within a second share one.
M01's ingest is one step with its outcomes: stored, refused, stored and then a
handler raised. The manual mode of tier 3 returns a card that is never stored.

### ModelRegistry

`files[v]` is the job whose artifacts are in `models/vN`, `model` the rows, `registry`
what M03 has loaded and from where. `TakeNumber` and the insert of the row are
apart, with the training, the writing and every other request between them.
`Check` is the gate of `promote`, `Publish` the update of rows followed by the reload.
A commit that raises is taken not to have happened: one whose acknowledgement alone is lost
is not modelled, but that `promote` fails after its commit is (`PromoteFault`).
The accuracy of a model is any number; `contested`, `raced` and `stale` are history.

### Dispatch, Diversions, Ripples, Hotspots, Packages, ReplayBuffer

* `Dispatch`: `request` holds the locals of `recommend`, `queue` and `busy` the
  executor. The solver returns a feasible assignment or none by its deadline: the
  objective is not modelled, since an answer at the deadline need not be optimal.
  The greedy assignment is computed in full, with its costs.
* `Diversions`: `Dijkstra`, `KShortestPaths`, the atlas and the routes as the code
  computes them, in thousandths of a minute, on the graph as it is.
  `RoutesBeginCheapest` is what holds on every graph, `RoutesAreTheCheapest` adds what
  holds on the city's; the run checks both.
* `Ripples`: the wave of `run_gcdh` hop by hop, with the sum of a hop added to what a
  corridor had.
* `Hotspots`: the deque and its evaluation, DBSCAN by cells with the fallbacks, and
  the two layers of the cache, over ticks, closures and a restart. `Get` is one step,
  though the service awaits between the miss, the query and the write
  (`hotspots/service.py:38-65`): with one reader at a time only an ingest or the
  clock can come between, and the answer is then as old as its query.
* `Packages`: the template scores, the overlay that is reused from the stored
  package, and the row, with requests interleaving at their awaits. An update
  writes the hash only where it differs from the row that was loaded.
* `ReplayBuffer`: events close and leave the window; quotas by largest remainder.
  Of equal remainders any order is allowed.

## 3. Runs

Sizes are the constants of each `.cfg`.

| Run | Question | Answer |
|---|---|---|
| `broker_concurrent` | two requests with one token, two operators, one failing commit, one loss: do rows, audit and station agree? | yes: `SettledRowsAreAudited`, `EffectsAreAudited` |
| `broker_single` | calls one after another, an approval with barricades, a queue of one place: once, never lost, lifecycle | yes: `AtMostOneEffect`, `SingleExecution`, `NoCommandLost`, `ImplementsLifecycle` |
| `broker_twice` | two concurrent calls with one token, one execution? | **no** |
| `governance_recovery` | an operator and the loop, a failing database, a restart: logged tiers, mirrored cache, hysteresis after a downgrade, return to tier 1 | yes: `TierWritesAreLogged`, `CacheMirrorsSolitaryWrite`, `RecoveryWaitsAfterDowngrade`, `EventuallyTier1` |
| `vms_fanout` | pushes one after another, two boards, two retries, a failing write, a stop: each board once, nothing lost, lifecycle, everything ends | yes, all seven properties |
| `incidents_bus` | two senders, a ripple, a client, a failing task or Redis call: no event without features, none closed with a ripple, no stale features | yes: `NoEventUnmaterialised`, `ClosedEventKeepsNoRipple`, `FeaturesAreCurrent` |
| `incidents_fanout` | can a dashboard break an ingest? | **yes** |
| `response_cards` | two clients at the cards, the report and the closure of one event: what executes, what was decided, what was verified, what was closed | yes: `ExecutionFollowsApproval`, `EnqueuedIsExecuted`, `DecisionStands`, `VerificationHolds`, `OneClosure` |
| `response_unverified` | is only a verified event dispatched? | **no** |
| `response_double` | does a card that is approved twice execute once? | **no** |
| `models` | two retrains, two promotions, a failing write, a restart: files, the served model, the gates | yes: `ArtifactsMatchRow`, `ServedIsProduction`, `OnlyEvaluatedPromoted`, `PromotionPassesGates` |
| `analytics` | the six analytic modules against what their answers have to be | yes, all eight properties |

Several properties except what the code does not guard, and say so: where two
requests about one event overlap (`overlap`), two retrains hold one number
(`contested`), two promotions or two saves race (`raced`, `overlapped`), or an
operation raised (`faults`). The exception is a history variable that is set by that
very interleaving, which the run contains; the property holds for all other
behaviours of the same run.

`broker_single` also answers whether everything ends: yes, unless the database or
the process fails (`EveryCommandSettles`, `RequestsReturn`).

`AnswersServeIncidents` and its seven neighbours are checked in one run because
the analytic modules share no state: `running` picks one of them at the start, so
the run is the union of six state spaces, not their product.

### Disagreements with the docs

Each is a property that states the sentence; TLC finds it violated. Those marked
*run* are repeated by a run of the table above. The others stay in their modules
as definitions that no `.cfg` names, with the constants that show them.

1. *Double-approve -> single execution* (`execution/service.py:5`). The lookup
   and the insert are two awaits and no unique constraint stands behind them:
   two requests both find nothing and both insert. *Run* `broker_twice`.
2. *Only DEAD_LETTER/FAILED executions can be retried*
   (`execution/service.py:367`). The status is tested on the row as it was read;
   a second operator may overwrite, with PENDING, a command that the first
   one's retry has got acknowledged by then. It runs again.
   `AcknowledgedIsFinal`, with the constants of `broker_concurrent`.
3. *Each with its own ... retry/DLQ lifecycle*
   (`docs/implementation/M10_AgenticExecutionBroker.md:143-147`). A retried
   barricade command carries `barricade_count = 0`; reserving none is answered
   200, so the row becomes ACKNOWLEDGED with nothing reserved.
   `AcknowledgedMeansDone`, with the constants of `broker_single`.
4. *5 minutes continuously healthy ... resets if a downgrade condition
   reappears* (`docs/implementation/M14_GovernanceConsole.md:100-101`). When the
   tier is already the one asked for, or was set by an operator, the timer is not
   reset; an unhealthy stretch in the middle of the wait counts towards it.
   `RecoveryNeedsHysteresis`, with the constants of `governance_recovery`.
5. *Mirrored on every write and on every health-probe cycle*
   (`governance/service.py:10-12`). A cycle that changes no tier does not write
   the cache, so a cache that two overlapping writers left behind stays wrong.
   `CacheIsRepaired`, with the constants of `governance_recovery`.
6. *Resets `retry_count=0`, `dead_letter=false`*
   (`docs/implementation/M11_VMSRouter.md:76`). `update` writes `dead_letter` only
   when it is true, so the mark stays on a retried, even on a delivered row.
   `OnlyDeadLettersFlagged`, with the constants of `vms_fanout`.
7. *A broken WS fan-out can't fail ingestion*
   (`docs/STREAM_A_IMPLEMENTATION_STATUS.md:64`). `publish_update` zips the results
   of its sends strictly with the list of connections as it is after them
   (`dashboard/bus.py:36`); a client that came or went meanwhile makes it raise, and
   the handler of M05 does not catch it (`hotspots/subscriber.py:17`). *Run*
   `incidents_fanout`.
8. *A commander retains verification control before the event can enter M07
   dispatch* (`docs/implementation/M17_CitizenReportService.md:14-15`). A reported
   event is stored active, and `list_active_event_ids` (`dispatch/repository.py:15`)
   asks for the status only: any card built may assign it a unit. *Run*
   `response_unverified`.
9. *Closed corridor node excluded from paths*
   (`docs/implementation/M08_DiversionRoutingEngine.md:36`). A corridor without a
   junction of its own falls back to `generic-1`, whose stub path ends at Old
   Airport Road (`diversions/atlas.py:106`), where the event may be.
   `RoutesAvoidClosedCorridor`, with the constants of `analytics`.
10. *Cached package served when `attributes_hash` unchanged*
    (`docs/implementation/M06_PlannedEventTemplateEngine.md:70`). The package is built
    across awaits and stored with what was read before them; where two requests
    overlap and the event changes between, the row may hold the hash of one and
    the package of the other, since an update writes only the columns that differ
    from the row as loaded. `PackageFitsEvent` excepts such rows (`overlapped`).
11. *Double-approve -> single execution* again (`execution/service.py:5`,
    `docs/implementation/M10_AgenticExecutionBroker.md:37-38`,
    `docs/IMPLEMENTATION_MODULES.md:1302`), now of M09, and with no race. The key is the
    approval's token, which is made of the card and the second
    (`recommendations/repository.py:78`), and `approve` looks at no status: a second
    approval in another second, or one after a rejection, executes again. Within one
    second the token is the same, and only requests that overlap can both execute (1).
    `CardExecutesOnce`, *run* `response_double`; `ExecutionFollowsApproval` is what does
    hold.
12. *Edge-disjoint where possible* (`docs/implementation/M08_DiversionRoutingEngine.md:42`,
    `docs/IMPLEMENTATION_MODULES.md:1148`). The ways are ranked by their cost and by
    nothing else, over all ordered pairs of neighbours, so an answer has one street in both
    directions where ways without a common edge exist (`diversions/graph.py:108`); the
    field `edge_disjoint` (`diversions/schemas.py:28`) is true of every route.
    `RoutesAreDisjoint`, with the constants of `analytics`. `RoutesAreTheCheapest` is about
    costs alone.
13. The *GCDH formula* (`docs/implementation/M04_PropagationEngine.md:58-60`,
    `docs/IMPLEMENTATION_MODULES.md:775-778`): the risk after a hop is the sum of what
    arrives with it. `propagation/gcdh.py:72` adds the sum to the risk from earlier hops, so
    that a corridor the wave reaches again keeps its old risk undecayed, against the *monotonic
    decay* of line 819 as well, and the seed itself may come to more than 1.
    `RiskFollowsFormula`, with the constants of `analytics`. `RippleIsExplained` does not
    say how much risk there is.
14. *`artifact_dir` is the single source of truth for "which directory is currently live"*
    (`docs/implementation/M13_ReplayLearningService.md:120-121`). The lifespan loads
    `settings.models_dir` (`main.py:72`), whatever was promoted before the restart.
    `LiveIsProduction`, with the constants of `models`.
15. *Each promotion writes to a new directory* (line 117 there). A retrain takes its number
    from the rows and has no row until its artifacts are written (`learning/service.py:103`):
    two that overlap write one directory, and the row that is staged may have the
    artifacts of the other's job. `RowOwnsDirectory`, with the constants of `models`.
16. *Only one production closure + ICT pair active*
    (`docs/ML_MODULES_IMPLEMENTATION.md:1059`). Two promotions that read the same
    incumbent retire it and leave both rows in production (`learning/repository.py:146`).
    `OneProduction`, with the constants of `models`.

Races 1 and 2 are in M11 too: two overlapping pushes with one id both fan out
(against `docs/implementation/M11_VMSRouter.md:56`), and two operators can start
two tasks for one dead letter. No runs repeat them; `OneDeliveryPerBoard` and
`DisplayedOnce` are therefore checked with one caller and one operator.

### Bounds, and why they are enough

* `QueueCap = 1`: a request with two commands always has to wait for the
  worker, which is the only thing the capacity decides.
* `MaxAttempts = 2`: a first attempt that is not final, and a final one; the
  code's 3 only adds another non-final one. The proofs are for every value.
* `broker_concurrent` has two approvers and two operators: every race above is
  between two. `broker_single` has one of each, one token with barricades (hence two
  commands) and one retry: it asks about one call after another. Execution ids are
  never short (`EnoughExecutionIds` in `MCExecutionBroker`, `EnoughDeliveryIds` in
  `MCVmsRouter`).
* `MaxFaults`, `MaxLosses`, `MaxCrashes`, `MaxRestarts = 1`: one failure at any
  point. The proved invariants hold for any number.
* `BoardCount = 2`: a first board and a last one, and a push that fails between
  them. `Pushes` has one member, pushed again and again: deliveries of different
  pushes share nothing.
* `governance_recovery` has an operator with one request beside the probe task:
  two writers, which is what the cache and the log are about; the proofs take
  any number. `Hysteresis = 2` cycles: a wait with a cycle inside it.
* `incidents_bus`: one event, since events meet only in `active` and the list of
  connections; two senders of two messages, so that one message may overtake the
  other, one ripple, one client, and one failure: a Redis call or a task that raises.
  `RedisUp = TRUE` is the case with two stores for each entry; without Redis only
  the second remains. `incidents_fanout` has two clients: one to send to, one to come.
* `response_cards`: two cards of one event and four calls: publish, decide, and a
  call that overlaps another, with room for a second decision. `MaxSeconds = 1`:
  tokens of one second and of two. `response_double` needs one client, one card and
  nothing that fails. `response_unverified` needs two events: the one of the
  card and the reported one.
* `models`: two retrains and two promotions over three versions: one in
  production, one to replace it, one that races. Accuracies are `Epsilon` apart or not.
* `analytics`: two requests at two threads and three incidents, one more than there
  are units; the code's own graph of 23 corridors; two cells near enough for one cluster, more
  ticks than the window of the alarm holds; two planners of a row and two changes
  of its event; strata of up to three rows, none at all included, and a floor
  below, at and above them.
* Symmetry is used in safety runs only, over sets whose members the model never
  tells apart. `Tokens` are told apart by `BarricadeTokens`, so they are left out.

### Fairness

`ExecutionBroker`: weak fairness of the worker and of each admitted request
(the loop runs every task that can run; the queue serves those who wait).
None for clients, operators, governance, faults, stopping or starting.
`VmsRouter`: weak fairness of each task and of each admitted request, no more.
`Governance`: weak fairness of each writer's steps, of the probe cycle (an
endless loop that sleeps 30 s; `beat` flips with each cycle, so that fairness
never forces the probes to find something else) and of bootstrap (it is awaited in lifespan
before the application serves). The runs `broker_single`, `vms_fanout` and
`governance_recovery` use it; the other modules are checked for safety only, and
state none.

Deadlock is checked in the runs of M10, M11, M13 and M14: those systems can always go on.
The runs of `Incidents`, `Response` and `Analytics` count messages, calls and answers up
to a bound and then rest, so there it is not.

## 4. Proofs

The theorems hold for every value of the constants, from the assumptions of the
modules alone: `BrokerAssumption`, `RouterAssumption`, `GovernanceAssumption`,
`IncidentsAssumption`, `CardsAssumption`, `ResponseAssumption`,
`RegistryAssumption`, `CorridorAssumption`, `DispatchAssumption`,
`DiversionAssumption`, `RippleAssumption`, `HotspotAssumption`, `PackageAssumption`,
`BufferAssumption`.
They say that bounds are natural numbers, that the sets of units, incidents,
cells, corridors and strata are finite, that the table of travel times and the graph
have their shapes, and that
the model values for "none" are not elements. Two are limits of the code itself:
`Len(Decay) <= 5` is `max_hops` of the request schema (`propagation/schemas.py:16`),
and the per-mille numbers of a ripple are at most 1000.

Each theorem `Spec => []P` needs an invariant stronger than `P`; each has a lemma
per action that disturbs it, one for the actions that touch none of its
variables, and a last step that combines them.

Nine theorems have a hypothesis about the behaviour, of the form
`Spec /\ []NoRace => []P`. `NoRace` is the race the code leaves open and nothing else
(`InsertsApart`: no two requests with one key are between the idempotency check
and the insert; `ResetsApart`: no two retries have read one dead letter and not
reset it; `CreatesApart`: the same as the first for a push). `broker_twice` and the
disagreements 1 and 2 show that `P` fails without it. Where one actor alone cannot race
with itself, a second theorem replaces the hypothesis by one about a constant: one
approver, one operator, one caller.

`ExecutionBrokerProofs`:

* `TypeInvariant`. `TypeOK` alone is not inductive. `TypeInv` adds `ClientInv`,
  that a request about to reset a row knows which one, and `WorkerInv`, that a
  worker waits for another attempt only while it has one left; otherwise
  `NextAttempt` could leave `1..MaxAttempts`.
* `SettledRowsAudited`. The audit row is committed before the status; in
  between only the worker's position tells. `AuditedBeforeRow`: at `ack_row`,
  and at `fail_row` and `exc_row` in the last attempt, the audit already holds
  the outcome about to be written. The audit only grows, so nothing else
  breaks it.
* `EffectsAudited`. An act at the station makes `InFlight` 1, `RecordAck` moves
  that to the audit, every way of not recording it counts a fault or a loss.
* `NoCommandIsLost`. A command goes from the hands of a request to the queue, to
  the worker. A step loses it only if it overwrites hands that are full, so
  `HandsInv` says whose are empty: an idle worker's, and those of a request
  that has not begun or is about to reset a row. Lemmas about sequences say
  that concatenating, splitting and taking the head lose nothing. A failed call
  or a loss of the process makes the property's hypothesis false for good.
* `OneRowUnlessRaced`, `OneRowPerApproval`. `RowsInv`: a request about to insert
  has found no row with its key, and none has come since, because whoever
  inserts one is excluded by `InsertsApart`.
* `LifecycleUnlessRaced`, `LifecycleImplemented`, `AcknowledgedStays`. The refinement
  mapping is read off the rows, so what has to be shown is that each write of a
  status is a step `CommandLifecycle` allows. That needs to know what a row says while
  a command is somewhere: `WaitingInv` (a command waits in one place only, and its
  row is pending), what it says at each place of the worker, and that a
  command about to be reset is a dead letter. With two retries past the check
  the second would reset a row that is not one any more.
* `UntouchedUnlessRaced`. That nothing touches an acknowledged command follows from
  `CommandLifecycle` alone (`LifecycleLeaves`) and holds of the broker because it
  implements it: `AcknowledgedUntouched` speaks of the status and of the acts of the station.
* `ActsOnceUnlessRaced`, `StationActsOnce`. The acts of a command, those still to be
  made in this attempt included, are bounded by one and the failed calls; the
  second act can only come from an attempt that failed after its first.

`GovernanceProofs`:

* `GovernanceTypes` and `TierWritesLogged`, together: that `unlogged` stays a
  natural number needs the log. `WriterInv`: a writer works on a row loaded
  since the start, and one at `log` has written a tier. `LogInv`: at least as
  many writes are unlogged as there are writers about to log, exactly as many
  if nothing failed; it is an argument about the cardinality of `AboutToLog`.
* `RecoveryWaits`. `TimerInv`: while the loop sleeps, the recovery timer has not
  run for longer than the time since the last automatic downgrade. It is broken
  between the commit of a downgrade and the end of its publish, and a failure
  in between would leave it broken, which is why the property excepts failures.
* `CacheMirrors`. `AloneInv`: a writer nobody has overlapped is the only busy
  one, and once it has reloaded the row it holds what the database holds.

`VmsRouterProofs`:

* `TypeInvariant`. `ReqInv` (a request knows its push and its first board, or a
  delivery that has a row) and `TaskInv` (a task has a row, and an attempt left
  when it waits for one) keep an update from making a row out of nothing.
* `NoDeliveryIsLost`. Inductive with the types: a new task replaces none that
  carries another delivery (`NewTaskCarries`), and a task that ends without a
  failure has settled its row (`TaskStepCarries`).
* `DeliveredDisplayed`. `DisplayedInv`: the board has accepted what a task is
  about to mark; the count only grows.
* `FanoutIsWhole`. `WrittenInv`: a request has written the rows of all boards
  before the next. `FanoutInv`: each board of a push with rows has its row or is
  still to come in some request; a failure would leave it neither.

* `OneDeliveryUnlessRaced`, `OneDelivery`. `BelowInv`: a request that writes the rows
  of a push has written all there are, those of the boards before its next one.
* `LifecycleUnlessRaced`, `LifecycleImplemented`. As for M10, with a task for each
  delivery instead of one worker: `AloneInv` (no two tasks of one delivery),
  `StageInv` (what the row says at each place of its task), `ResetInv` (what is to be
  reset is a dead letter without a task).
* `UntouchedUnlessRaced`. As for M10, through the same lifecycle.
* `DisplayedOnceUnlessRaced`, `BoardDisplaysOnce`. As for the station, per delivery.

`IncidentsProofs`, with `IncidentsInv`:

* `IncidentsTypes`. `RestInv` adds the dashboards' side: the list of connections and the
  list each publish iterates hold dashboards. A send that fails unregisters by its place
  in the older list, so what is removed need not be what failed, but it is always a
  filtered list of dashboards (`WithoutType`, from a lemma about concatenations).
* `EventsMaterialised`. Inductive with `BaseInv`, by which a request is of one event
  and its row exists: the request that stored a row reaches M02 first, since M02's
  handler is the first of the bus and does not raise.
* `ClosedForgotten`. `ClosedInv`: whoever is past the handlers of a close has taken the
  event from the map, and a ripple that comes later marks it `excused`.
* `FeaturesCurrent`. `FreshInv` follows one message from its request through its task
  to the snapshot and both layers of the cache; `OverlapInv` says that where `overlap`
  does not hold the event, its request or its task is the only one, so that
  nothing newer is overwritten.

`ResponseProofs`, with `ResponseInv`:

* `ResponseTypes`. `RequestInv` says what a request holds at each of its places: whose
  card, whose report, and that only an approval executes.
* `ApprovedBeforeExecuted`. `ApprovalInv`: each request has at most one approval, none
  before it is recorded, and a row of M10 or M11 has the call and the token of one that
  was given with the gate open. `OnceInv`: where requests about an event do not overlap,
  a request about to insert a row has found none of its token, and whoever else is about
  to works on another event, hence on another card and token (`OnceInsert`).
* `ApprovalsReachTheQueue`. `HandedInv`: as long as nothing raised and the gate
  stayed, whoever is at M11 has been through M10.
* `LastDecisionStands`. `DecisionInv`: where requests do not overlap, the one under way
  is the latest and has read the column as it is, so that the rule that writes
  the column and the one that writes the json agree on what came last.
* `VerifiedStaysAuthenticated`, `EventsCloseOnce`. `AgreeInv`: what event, report, cards and
  closures say of one another at each place of the one request; `PresentInv`: who
  works on an event finds it stored. Two requests would overwrite each other, as
  would a failure between two commits, hence the exceptions.

`ModelRegistryProofs`, with `RegistryInv`:

* `RegistryTypes`, `ArtifactsMatch`. `NumberInv`: of two retrains with one number the
  number is contested; the others have their directory to themselves until the
  row is there. The next number is free (`NextNumberIsFree`, about the maximum).
* `OnlyEvaluated`. `RowInv` makes job and row name one another, `PromoterInv` carries
  what `Check` has read across the awaits to `Publish`: a row never loses what it
  had when it passed.
* `ServedProduction`, `GatesPass`. `AloneInv`: while promotions do not overlap, the one
  under way knows what is in production, so it is the incumbent it has
  compared with that it retires. `GatesPass` is an action property.

`AnalyticsProofs`. The six modules share no state, so `EachAlone` shows that a behaviour
of `Analytics` is one of each, and each is proved by itself.

* `DispatchTypesHold`, `IncidentsServed`, `LateSolvesReported`. `DispatchInv` says of the
  job in the pool what its request has loaded, and that a status is cached while a late
  solve goes on. That the greedy loop ends with a stable assignment that serves
  whoever can be served is shown of its recursive function: by induction over the
  rounds, each takes a cheapest pair of what is left, so that a pair passed over
  is dearer for its unit or its incident.
* `PackagesFit`. `AloneSaving`: as long as no two requests save at once the stored package
  is that of the stored hash, and the one under way still has the row it loaded.
* `SamplesFit`. Sums over finite sets, then division: quotas rounded down fall
  short by less than the number of strata, so that giving one row to each of the
  largest remainders makes the sum exact and leaves every stratum within one of its share;
  a larger stratum never has the smaller quota and, of equal quotas, never the
  smaller remainder.
* `BurstsNoticed`. `AlarmInv`: every burst in the deque was noticed. When an event comes,
  a burst that has become unusual contains it and is part of what its own
  evaluation counts; that holds because the window has no end, and dropping the oldest
  sample only takes samples from a burst.
* `AnswersFresh`. `CacheInv`: each entry of either cache was made no later than now, ends
  its period after that, and was made of clusters that are apart. The latter is a
  proof about DBSCAN as the code has it: as many rounds as there are cells close
  the links between cores (a chain that still grows has more elements than rounds), so
  two cores are linked to the same or to nothing in common; an edge has one home;
  the rest are singletons; hence the densities add up to the points.
* `RipplesExplained`. The wave is followed hop by hop: what a node holds at a hop
  is what it held and the sum over its neighbours of the hop before, which is monotone in
  the threshold; at most five hops follow from the schema.
* `RoutesStartCheapest`: `RoutesBeginCheapest` on every graph, with any weights, lists of
  neighbours and number of routes. First Dijkstra's search, with corridors shut and
  edges cut. `SettledWays`: what it has settled
  follows edges, enters no corridor twice or shut, and costs what its edges do.
  `Optimal`: no way to a settled corridor is cheaper than the one it has; a way that
  leaves what is settled crosses the frontier, where something no dearer waits
  (`WayLeaves`), so the next to be settled keeps it so. While the goal can be reached each
  round settles one more corridor, so as many rounds as there are corridors do
  (`DijkstraFindsCheapest`). A spur joined to its root is again such a way, since what
  the root has entered is shut (`WholeDrives`).
  Then Yen's search (`PathsInOrder`), round by round. `Covered`: a way not found yet
  parts from those found at some corridor, and for the last of the ways that share
  it up to there the heap has a candidate that begins as it does and costs no more. The
  spurs of a round provide it (`SpurCovers`), since the edges cut at a root are just
  those the ways found take from it. So the cheapest of the heap, which the round takes, is no
  dearer than any way not found, nor cheaper than those before it
  (`Leading`); and where the heap is empty, nothing is left (`Complete`).
  No way comes back, so none is flagged and the ranking is by cost alone
  (`NoGridlock`, `NextRouteKeeps`). The reference, `SimpleWays`, grows ways edge by edge;
  `BetweenIsGood` shows that these are exactly the ways that can be driven.
* `RoutesCheapestWhenOnce`. `k_shortest_paths` pushes a candidate again in a later round
  that shares its root (`diversions/graph.py:132`), so that one path can come twice and
  take the place of another. That is all that can go wrong: a route of the answer is left
  out only for k others, found each once, that are no dearer (`NoMoreThan`,
  `LastRouteCheap`). So `RoutesAreTheCheapest` holds of an answer exactly if
  `FoundOnce` does.

Induction. The library's induction theorems take an operator, which the provers
here cannot instantiate. `SequenceFacts` does without: a set of numbers that holds zero
and with each number the next has no least element outside it
(`NatLessThanWellFounded` and `WFMin`), from which follow `Induction`, `FiniteInduction`
over a set and the existence of recursive functions (`Recursion`); in `AnalyticsProofs`, sums
over finite sets (`Sums`, `SumCounts`, `SumDisjoint`).

What a run shows for one operator or one failure these theorems show for any number
of them. Those without a run of their own, `GovernanceTypes`, `IncidentsTypes`, `DispatchTypesHold`,
`ResponseTypes`, `RegistryTypes` and `TypeInvariant` of `VmsRouter`, are there for the others to rest on;
`AcknowledgedStays` says how far disagreement 2 reaches.

Model-checked only: that `FoundOnce` holds of the city's graph, which `RoutesAreTheCheapest`
asserts of every answer of the run. It is a fact about that graph and the `k` of up to
five its schema allows, and not about every graph: with two neighbours, three ways
between them and `k = 5` one path comes twice. And every liveness property:
liveness and ENABLED are out of the prover's reach.

## 5. Not modelled, and what is known of it

* Numbers that are inference or training: impact scoring and its fallbacks (M03),
  the forecast of hotspots (M05), training and drift (M13), the quote of a report
  (M17), distances to stops (M12, behind a cache of 15 minutes keyed by the event
  alone). The MILP of M07 is any feasible assignment; its objective is left out.
* Reads without effects, formatting, the texts of boards and cards, the frontend,
  maps and geocoding.
* M01's validation and enrichment of a message, and the replay of a file.
* M14's promotion checklist (it always refuses, one of its criteria is fixed to
  fail) and its cascade drill (a record of its own); the comparison of M07 with
  ASTraM (one row per comparison, which nothing reads back); M17's pre-alert loop (a list shown to
  citizens); M16's acknowledgements.

Seen while modelling, stated by no doc, and so no property:

* M10: `manual_retry` has no governance gate, so a dead letter may be retried in
  shadow mode (`execution/service.py:364-385`).
* M14: the tier an operator sets is undone by the loop after the hysteresis like
  any other (`governance/service.py:271-287`); the loop recovers while modules other
  than M01-M03 are degraded (line 237).
* M09: in tier 3 the card is returned, not stored; its column `status` and the one
  in `card_json` are written by different rules; `approve` dispatches for the
  station of the assignment listed first (`recommendations/service.py:327-328`), which may be
  another event's; the approval of a card held for want of parts is enqueued too.
* M16: a closure writes back the whole event as it was read
  (`field/service.py:153`), over a message that came in between.
* M17: a second verification after an ingest that raised reopens an event closed since; a
  submission whose ingest raises leaves an event without its report
  (`citizen/service.py:135`).
* M13: of two retrains with one number, the one whose row is refused leaves its job
  running; the 80/20 share of the buffer holds only where there are four
  times the floor of recent rows.
* M07: the cost of a pair adds the severity, so that the mildest incidents are
  the cheapest to serve; a solve past its deadline stays in the pool of two before the
  greedy one; `dispatch_total_deadline_ms` bounds no request, only the drill reports
  it; with more incidents than units the MILP has no solution; the mark of a late
  solve is lost with the process.
* M08: `compute` routes around the corridor of the request, whichever node the request
  says is closed (`diversions/service.py:99-106`); the fallback path of Bellary Road 1 follows no edge of the graph; the
  three junctions of a corridor share their paths.
* M05: `eps` of 0.005 radians is about 32 km, not 500 m; a restart loses the
  samples of the alarm; every event of a burst raises an alert of its own.
* M06: no duration class is ever `4-12h`, which three templates ask for; a cached
  package keeps `hours_until_start`, by which `upcoming()` sorts; the overlay of an event
  survives a change of its attributes, and a prior overlay the arrival of features,
  unless a refresh is forced; of two first requests one fails on the key.

## 6. Plan

The modules are written, eight of them hold theorems, and every safety property of a
passing run is stated by one. Left, should the code or the question change:

1. `FoundOnce` for the graph of the city by proof instead of by evaluation: of interest only
   if the graph or the `k` of the schema grows.
2. The hazards that no run covers (`PROJECT.json`): what a retried command still carries,
   the flag a retried delivery keeps and the stub route, where the code does not do what the
   docs say (disagreements 3, 6 and 9), and M10's gate that is tested once, of which no doc
   says what it should be. These, and the other definitions of the disagreements (2, 4, 5 and 12 to
   16), become passing properties once code and doc agree.
3. Numbers that are inference or training, as bounds on what M03, M05 and M13 answer.
