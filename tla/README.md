# Verification of the IEMS back end

A TLA+ development kept beside the Intelligent Energy, Carbon and Sustainability
Management System (Python: FastAPI, SQLAlchemy on TimescaleDB, asyncua, Kafka).
It models the parts of `src/app` whose correctness depends on the order in which
things happen, checks them with TLC on small instances, and proves the properties
that matter most with TLAPS for all values of the constants.

## 1. The system

### Processes

`docker-compose.yml`, `docker-compose.prod.yml` and `infra/k8s` start several
processes on one database: the API (uvicorn, two workers per container, two
replicas), the sensor producer and consumer (Kafka), the carbon scheduler, the RTO
scheduler and the model trainer. Inside a process everything runs on one asyncio
event loop, so code between two `await`s is atomic there; between processes only
the database is shared. Sessions are created with `expire_on_commit=False` and
nothing uses `SELECT ... FOR UPDATE`, a version column or a status test in an
`UPDATE`: every read-decide-write is exposed to interleaving.

### Inventory

| Component | State | Operations | Talks to | What is hard | What makes it correct |
|---|---|---|---|---|---|
| Recommendation lifecycle (`optimization/store.py`, `apply.py`, `ingestion/opcua_write.py`, `api/routes/optimization.py`) | row: status, simulation, apply_mode, realized saving, resolved_at; append-only events; setpoints on the plant | queue, accept/reject, approve, simulate, apply (dry/live), impact | database, OPC-UA server, sensor history | stale reads, OPC failure half way, retries | nothing reaches the plant unapproved, unsimulated or off the allowlist; row and trail agree |
| Demo recommendation store (`demo/memory_recs.py`) | dictionary, event list, id counter | the same, atomically | API routes | other gates than the database path; serialisation failing after the status was set | same lifecycle as the database path |
| Carbon reports and assurance (`carbon/reports.py`, `assurance.py`, `scheduler.py`) | one row per plant and period: figures, assurance status; events | generate, submit, approve, lock | sensor history, scheduler cycle, files | regeneration racing review; one session for a whole cycle | a locked report was submitted and approved, and is final once the requests from before the lock have ended |
| Market sync (`carbon/market.py`) | staged files, sync log | stage, POST, record | registry over HTTP | crash between POST and record | what leaves was staged first, and the log claims no delivery that did not happen |
| RTO (`rto/`) | latest result, persist clock | cycle, queue | recommendation table, live state | persist clock after a failure, two loops | advice is queued once per interval |
| Ingestion (`ingestion/`) | Kafka offsets, reading table, alerts | tick, consume, check freshness | Kafka, database | at-most-once delivery, one plant failing the tick, check-then-insert alerts | fresh data reaches the table; one open alert per condition |
| Plant session (`ingestion/opcua_session.py`) | connected flag, cache, subscriptions | connect, notify, read, disconnect | OPC-UA | seed reads racing notifications, stale cache | a read is no older than its quality says |
| Models (`ml/`) | registry directory, latest pointer, MLflow | train, gate, register, drift, serve | files, MLflow | two writers, torn pointer, lost metadata | only models through the gate are served |
| Sign-in (`services/auth.py`, `oidc.py`) | users, pending login states, tokens | login, callback, verify | identity provider | process-local state, expiry | one state buys at most one session |
| Settings (`api/routes/settings.py`, `core/`) | per-process settings | patch, read | everything | copies diverge | a change takes effect where it is promised |
| Lifespan, demo feeder, live reading (`main.py`, `demo/feeder.py`) | background tasks, memory store | start, tick, stop | database, memory store | persistence switched off by one failure | fallback only while the database is away |
| Pure parts (`optimization/engine.py`, `ingestion/quality.py`, `carbon/periods.py`, `ml/dataset.py`) | none | computations | | boundaries | agree with a reference definition |
| Views (dashboard, ops, health, alerts, sites routes) | none | queries | | | |

`PROJECT.json` lists the components with their status and the hazards, each at its line.

## 2. Modules

### Recommendations (with RecLifecycle, MCRecommendations, Recommendations_proofs, RecommendationsRaces_proofs)

`Recommendations.tla` is the database path of phase E9. A **handler slot** is one
request: a coroutine of any API worker, or the RTO process. A request is at least
two steps. The first reads the row and takes every decision the code takes before
its next `await` (404 and 409 answers are simply not enabled); the last is the one
commit that updates the assigned columns and inserts the event. `apply` has more
steps: the refusals of `write_setpoints`, the connect, one step per node written,
the disconnect. `Abort` is a request that dies anywhere in between (client gone, OPC
or database error, process killed); what it wrote to the plant stays.

| State | Code |
|---|---|
| `cfg` | `Settings` and `infra/opcua/tags.yaml` as loaded at start |
| `status`, `sim`, `resolved`, `mode`, `realized` | columns of `optimization_recommendations` |
| `audit` | `recommendation_audit_events` of each row, in insertion order |
| `setpoint` | which recommendation's value each OPC write node holds |
| `req` | what each request has read (`seen`) and still has to do |

`Assigned` models the one ORM behaviour the races depend on: an attribute set to the
value it was loaded with is left out of the `UPDATE`. The events of queueing are
committed one by one after the rows (`AuditCreated`), as in `persist_recommendations`.
Values of setpoints, baselines and savings are abstracted to their origin: which
recommendation wrote a node, and whether a saving came from history or the estimate.
The demo-store branches of the routes are in `DemoProcess`.

`RecLifecycle.tla` is the abstract specification: the lifecycle of `docs/RUNBOOK.md`
E9, one stage per recommendation. `Recommendations` maps its `stage` to `status`.

| Run | Instance | Question | Result |
|---|---|---|---|
| `rec_concurrent` | 1 recommendation, 2 slots, trail up to 5, every combination of the three switches plus two degenerate tag maps | what survives any interleaving | 7 invariants and `LifecycleUnlessOvertaken` hold |

The code serialises nothing, so the plain refinement (`Lifecycle!Spec`) does not hold: approve
and reject read the same accepted row, and the last commit wins (`apply.py:67`;
`docs/RUNBOOK.md:162` gives the lifecycle). `LifecycleUnlessOvertaken` says how far it does:
every step of `status` is a step of the lifecycle, unless the commit that makes it is
`Overtaken`, which means that its request read another status than the row has by now. And
`RowOnTrail` says what an overtaken commit leaves behind: a status, and a `resolved_at`, that
the trail accounts for. A commit of "accepted" over "accepted" is the one event that moves
nothing, because the ORM leaves the column out. Not claimed, because it does not hold: that a
plant holds the proposal of one recommendation only (two live applies interleave their node
writes and leave a mixture), and that the trail is complete (an apply that dies between two
node writes leaves setpoints that no event explains, `opcua_write.py:136`; `db/models.py:219`
calls the trail immutable, not complete).

Bounds: two slots suffice for every pairwise race of read and commit, and the properties speak
of one row, of which further rows are independent but for the setpoints.
`MaxTrail` stops *new* requests on a row whose trail is long; requests in flight
still finish. Five events hold a complete run (created, accepted, approved, applied,
impact) and, when "created" is lost, one more decision. `temp` and `feed` are
writable, `press` fails the tag map and `steam` the allowlist, so that each filter of
the write plan has a field to stop. The specification has no fairness: no liveness
is claimed, since a request may die at any await. The theorems cover several rows per plant
and any number of slots.

### CarbonReports (with AssuranceLifecycle, MCCarbonReports, CarbonReports_proofs)

`CarbonReports.tla` is phase E10 on the database path. A **slot** is the carbon
scheduler's process or one API request, each with its own session. A scheduler cycle and
`POST /carbon/reports/generate` ask for pairs of a plant and a period type (`Series`), one
after the other and in any order. Which report that is, `period_window` tells by the clock
(`NameReport`, `Window`): the running day, month or year, or with `completed_only` the last one
that ended. Then the same steps follow: aggregate the samples, load the row (locked rows are
skipped), insert or update and commit, write the files. Submit, approve and lock are a read
with a decision and a commit. A market sync stages its payload on disk and adds an entry to
the sync history in one step, then POSTs (the answer may be lost after delivery), then commits
the log.

| State | Code |
|---|---|
| `cfg` | `CARBON_MARKET_REQUIRE_LOCKED`, whether `CARBON_MARKET_API_URL` is set, `CARBON_REPORT_COMPLETED_ONLY` |
| `clock` | the current day, month and year, as far as `period_window` tells them apart |
| `data` | version of the aggregate that `sensor_readings` yields for the period |
| `status`, `figures` | `carbon_reports.assurance_status`; the version its columns came from |
| `trail` | `carbon_report_assurance_events` of each report |
| `export` | the JSON/CSV of the report: version of its row part and of its breakdown |
| `batches` | staged file, what the registry received, `carbon_market_syncs` entry |
| `req` | what each slot loaded (`seen`), computed (`fresh`) and still has to do (`todo`) |

`usable` is the state of the session: a failed commit is caught by the loop and never
rolled back, so every later statement of that cycle fails (`NothingToReport` then drops
the rest of `todo`), and the next cycle opens a new session. `Abort` is the death of a
request or of the scheduler's process; `faults` counts both kinds.

| Run | Instance | Question | Result |
|---|---|---|---|
| `carbon_races` | 1 report, scheduler and 2 requests (symmetric), 2 data versions, trail up to 5, no faults, no syncs | what survives when generation and review steps overlap each other | 3 invariants and `AssuranceRefined` hold |
| `carbon_catchup` | 3 days of one series, the clock moves on once, either window, scheduler and 1 request, 2 data versions, trail up to 3, 1 sync, 1 fault | do reports catch up, is the sync log truthful | 2 invariants and `ReportsCatchUp` hold |

`AssuranceLifecycle.tla` is the abstract specification: a report opens, changes, and becomes
final once. `Stage` maps a locked report to "final" as soon as no request that loaded it
before is pending, and `AssuranceRefined` says that neither status nor figures change from
there on. It does not hold with "locked" alone for "final": a review step that read the same
approved report, or a generation that loaded it, still commits after the lock
(`carbon/assurance.py:96`, `carbon/reports.py:209`). For the same reason a market sync may
post figures of a locked report that the report then loses.

`ReportsCatchUp` speaks of the report that the scheduler's window names (`Current`): once the
window has moved on, the loop never comes back to a period, and samples that arrive later stay
out of its report until somebody asks for it, or for ever, since the request has the same
window (`reports.py:159`). No document claims more. Nor is the file of a report repaired that
was locked between a crash after the commit and the next cycle.

Simplifications. Two data versions differ in every column of a report, so a stale
`UPDATE` that rewrites only some columns shows as all or nothing. `ensure_e10_schema`
(DDL before every load) may fail and roll back on its own and constrains nothing. The
status `NULL` of rows older than E10 reads as `draft` everywhere. A sync sees at most 20
reports in the code, fewer exist here. A file write that fails is left out (a file not
written because the process died is in). With `force_unlocked=true`, which
`POST /carbon/market/sync` grants to the `operate` role, a sync stages reports of any
status although the lock requirement is set; `lockedOnly` in `batches` records which kind
of sync it was.

Bounds: two data versions let a report be computed, recomputed and be stale; three slots let
two review steps overlap each other and a regeneration; `MaxTrail` 5 covers a complete
review with two steps more, so that stale ones can follow a lock. In `carbon_catchup` one tick
of the clock takes today's report, the only one with samples, into the completed window or out
of the running one, so that the window names it before or after; one sync is enough because a
batch never looks at another; one fault is the difference between the failure-free and the
failing cycle, and `ReportsCatchUp` says that the cycles after it repair what it left.

Fairness: `FairSpec` adds `WF_vars(Cycle)`. `run_forever` catches whatever a cycle
raises, sleeps and starts over, and compose restarts the container
(`restart: unless-stopped`), so a cycle that can take a step eventually does. Nothing is
assumed of users or requests. `ReportsCatchUp` also rests on the bound on `NewSamples`: a
period's samples stop changing.

### IngestionPipeline (with MCIngestion, IngestionPipeline_proofs)

`IngestionPipeline.tla` is the sensor stream from the plant to the table and the alerts
on it. The producer publishes plant by plant; whatever raises ends the tick. The topic is
one partition that keeps every message; the consumer fetches, handles message by message,
and its offsets are committed in the background up to what was *fetched*. Consumer and API
requests are slots again, one SQL statement or commit per step: insert, on a collision
load and update, then the two SELECTs of `check_freshness`, then look-up and insert of an
alert. `GET /alerts` runs the check for every plant in turn, the dashboard for one, and
`POST /readings` writes a reading with the client's time and no quality, after trying to
publish it.

| State | Code |
|---|---|
| `producer` | plants left in this tick |
| `topic` | the Kafka topic, in offset order |
| `con` | consumer process: running, messages handled, fetch position, committed offset |
| `rows`, `sources` | two columns of `sensor_readings` for each plant and time: `quality`, and `source`, which stands for the measured values |
| `alerts` | `stream_alerts` in insertion order, and which slot inserted each |
| `req` | the statement each slot runs next and what it has read |
| `now` | the clock |

| Run | Instance | Question | Result |
|---|---|---|---|
| `ingest_alerts` | 2 plants, consumer and 1 request, clock 0..1, 1 message, checks until 2 alerts exist | do alerts neither pile up nor go missing | `NoAlertStorm`, `BadIsFlagged` hold |
| `ingest_delivery` | 1 plant, consumer and 1 request, clock 0..1, 2 messages, 1 fault | is what is ahead of a running consumer stored, and what do collisions leave | `TypeOK`, `RowIsNewest`, `PublishedIsStored` hold |

Two checkers can both find no open alert and both raise one, so `NoAlertStorm` compares
the alerts of one checker. A message is handled at most once: a consumer that dies, or a
statement that fails, loses it, hence the fault in the conclusion of `PublishedIsStored`.
`Update` assigns column by column, and leaves out what equals the row it loaded, as the ORM does:
after a collision with `POST /readings` a row may hold the quality of one writer and the source of
the other. `RowIsNewest` therefore speaks of each column by itself: it is that of the last message
of its plant and time, or of a posted reading, and never of an earlier message.
Simplifications: readings are reduced to plant, time, quality and source; a producer reading and
its publication are one step (the reading's time may lie behind the clock); several
partitions, rebalancing, a broker that repeats a message, a clean stop and a server
timestamp ahead of the clock are left out. A posted reading with a future time is in.

Bounds: two messages are the least that collide, or that one fetch returns together; one
tick of the clock separates "within" and "after" the thresholds (`Stale` 0, `Cooldown` 1);
the properties relate at most two alerts of one plant.

Fairness: `WF_vars(Consume)`. `SensorConsumer.run_forever` polls for ever and swallows what
a message raises. Nothing is assumed of the producer, of users, or that a dead consumer is
restarted.

### ModelRegistry (with MCRegistry, ModelRegistry_proofs)

`ModelRegistry.tla` is phase E8 for one plant and model kind: training, the trusted gate and
the registry directory that the trainer's container and the API share. A save is four file
operations (open the model's file, write it, truncate `latest.json`, write it), a load two,
and a slot is the trainer's process or an API worker, so the operations of two slots
interleave. With MLflow on, a save may be followed by a second one of the same model with
fewer metrics. The version of a model is the second it is saved in; `NextSecond` moves on to
a stamp nobody uses any more. Two processes that have one file open leave it `shared`: the
outcome is either content or a mixture. Such a meeting and a death (`Abort`) count as faults.

| State | Code |
|---|---|
| `cfg` | trusted mode, `MLFLOW_ENABLED`, `ML_ALLOW_SYNTHETIC` |
| `second` | the stamp `save_local` would take now |
| `dist` | what the stored samples of the plant look like, 0 while there are too few |
| `pkl`, `latest` | the `.pkl` of each version; `latest.json` |
| `req` | the next step of each slot, the version and metrics it read or saves |

| Run | Instance | Question | Result |
|---|---|---|---|
| `registry` | trainer and 1 worker, 3 stamps, restarts between demo and trusted mode, MLflow on, 1 fault | do readers find models, is damage repaired | `TypeOK`, `NamedIsWhole`, `DemoRecovers` hold |
| `registry_drift` | trainer and 1 worker, trusted, MLflow on | is a model that did not drift left alone | no: its reference statistics are gone |

What does not hold, seen while modelling: in trusted mode `DemoRecovers` fails, because
`evaluate_drift` loads the old model before anything is trained, and `load_latest_safe` does
not catch what a torn file raises; the cycle ends there, every time. Readers may meet an
incomplete file while MLflow's second save rewrites it in the same second, which
`NamedIsWhole` excepts. After a cutover from demo to trusted mode, predictions are served
from the demo model until the first trusted training succeeds (`serve.py:103`). The trusted gate
is the guard of `Fit`, and no property restates it.

Simplifications: whether a model meets its target is a choice of `Fit`, and samples drift
if and only if their distribution is another than the one fitted to; the thresholds for
training and for drift are one; all services restart together; `<version>.json`, which
nothing reads, and the physics calibration file are left out.

Bounds: three stamps are one more than two saves can hold; one plant distribution besides
"too few" lets the samples drift from synthetic to real and back; one fault shows every torn
file a single death leaves.

Fairness: `WF_vars(Cycle)` as in the other schedulers (`run_forever`, compose restarts)
and `WF_vars(NextSecond)` because time passes. Nothing is assumed of the API.

### PlantSession (with MCPlantSession, PlantSession_proofs)

`PlantSession.tla` is the long-lived OPC-UA session of one process and the readings made
from it: connecting under the session's lock, subscribing node by node with a seed read
after each, notifications that update the cache, polls, and the quality of the reading a
caller gets. A slot is a task of the event loop; a step runs from one await to the next,
with the OPC-UA answer to a read and the task taking it up apart (`SeedRead`, `SeedStore`),
because a notification can be handled in between. The server and asyncua are external:
`Subscribe`, `Deliver` and `Change` say what the code relies on, a notification with the
current value once and then one per change, of which only the newest waits.

| State | Code |
|---|---|
| `cfg` | `PLANT_CONNECT`, `INGESTION_SOURCE`, endpoint and subscription settings, `OPC_UA_ALLOW_UNCERTAIN` |
| `node`, `reachable` | the plant's tags, version by version; the server |
| `channel`, `monitored`, `notice` | the client's connection, its subscribed nodes, the notification on its way |
| `connected`, `lock`, `cache` | fields of `PlantConnectSession` |
| `task`, `reading` | what each task is doing; what the step just returned to a caller |

| Run | Instance | Question | Result |
|---|---|---|---|
| `plant_session` | 1 plant, 2 tags, 2 tasks, 4 deployments, 2 versions of a tag (one turns null, one a text), 1 fault | is the session set up once, what is a cached value worth, do reads end | 3 invariants and `ReadEnds` hold |
| `partial_quality` | the same | is a reading with a missing value called bad | no: `PartialIsBad` is violated |

`NoticeIsNewest` says exactly as much as the code keeps: a cached value *that a
notification brought* is never old. A seed read or a poll may overwrite a newer
notification with its older answer, and then the tag stays old until its next change.
A broken channel is never reopened while `_connected` is set: polls then return bad samples,
and a cache whose tags are all sampled is served for ever.

`partial_quality` is a finding. The comment at `opcua_client.py:173` has a partial reading
emitted "with Bad quality so alerts can fire", but `setdefault` three lines below spares a tag that
has answered: one whose value is null and whose status is good stays good, and so does the reading.
What does hold of a reading called healthy is `HealthyIsSampled`: each field has a sample that the
server did not call bad. It is proved and not run, being a matter of one evaluation.

Simplifications: the one-shot client used without a shared session, the explicit
disconnect and the simulator's values are left out; a sample is a version, whether it has a
value, a quality and who brought it.

Bounds: two tasks give one that connects and one that waits; two tags let setup fail half
way and readings be partial; one change and one fault each show an old value and a lost
connection, and the two kinds of content reach each branch of `QualityOf` and `SampleOf`
but for the reserved status.

Fairness: weak fairness of each started task, because the event loop runs what is ready and
an OPC-UA call returns or raises (asyncua's timeout), and strong fairness of taking the lock:
`asyncio.Lock` wakes its waiters in order, so a waiter is served although others take the
lock in between. Nothing is assumed of the server.

### AdviceEngine (with MCAdviceEngine, AdviceEngine_proofs)

`AdviceEngine.tla` is the computation the analyze route, `GET /rto/live` and the RTO loop
share: from readings to unit states (defaults for missing values, the nudge that tells units
apart, the reload without the database when it does not), the tiers at the upper median, the
benchmark and the clipped proposals. Arithmetic is exact: quantities are integers in
hundredths, and where the code rounds or truncates, so does the model (`Efficiency` to
hundredths of a percent). `Sorted` takes any sorting order of the units: every such order lists
the same efficiencies.

| State | Code |
|---|---|
| `shown`, `bare` | what `resolve_live_reading` returns per unit with a database session, and without |
| `list` | the plant codes asked for |
| `phase`, `states`, `advice` | progress; `list[UnitOperatingState]`; `list[SetpointAdvice]` |

| Run | Instance | Question | Result |
|---|---|---|---|
| `advice` | all assignments of 8 readings and 3 fallbacks to 3 units, 7 lists | does advice keep the envelope and only save; who gets it | 3 invariants hold |

The readings are chosen at the edges: the design point, whose intensity is at its ceiling,
two better units, one near the ends of the envelope, one with zero fuel (which the code
takes for missing), one with missing tags, one outside the envelope, and one that burns more
than the envelope allows. Lists of one, two (in both orders) and three units cover both
parities of the median; two lists name a unit twice, and one is empty, because neither the
request's schema nor the settings nor the engine keep a list from either. `by_code` keeps the last
state of a repeated code (`Last`, `Target`), while `max` picks the first of the best: with
`olefin,olefin` the unit is measured against its own nudged copy. `AdviceOnlySaves` thus says "another unit" only of
units listed once, and "a better one" only where the benchmark is too. An empty list makes
`max` raise (`NoUnits`). The last reading entered with the proof: where the benchmark itself
lies above the envelope, a trimmed knob stops at the envelope's end and not at the benchmark's
value, which `AdviceOnlySaves` has to allow (`StopsNear`) and the other readings never show.

A disagreement not kept as a run: the comment at `optimization/snapshots.py:38` reads "If two units
share identical sim snapshot, nudge secondary for demo benchmarking", while the code nudges
every unit after the first. The model does what the
code does. Left out: electric power and carbon figures, which no decision reads, the wording
of an advice, confidence, and the simulation of an advice (the learned models).

### DemoProcess (with RecLifecycle, MCDemoProcess, DemoProcess_proofs)

`DemoProcess.tla` composes what lives in one process: the demo feeder and its persistence
switch, where an analysis takes its readings from, the RTO loop with its persist clock, the
queueing of its advice in the database or in the process's memory, and the recommendations
kept there. Two tasks, the loop and one request, interleave at awaits; the handlers of the
memory store have none and are single steps. One unit is modelled, and `cfg.fed` says whether it is
among `PRODUCER_PLANT_CODES` (default `olefin`), which the feeder feeds; the loop analyses all of
`UNIT_CODES` (default `olefin,pta`).

| State | Code |
|---|---|
| `cfg` | API or stand-alone scheduler; whether the unit is fed; `APP_ENV`, `DEMO_FEEDER`, `DEMO_PREFER_MEMORY`, `DEMO_MEMORY_ONLY`, `RTO_ENABLED` |
| `dbUp`, `plant` | the database answers; the state of the plant, counted |
| `row`, `mem` | the state that the newest sensor row, and `memory_store.latest`, show |
| `feed`, `feeding` | the reading the feeder inserts; `DemoFeeder` still has its session factory |
| `task`, `since` | next step of loop and request; ticks since `_last_persist` |
| `table` | batches queued in the database and whether their "created" events followed |
| `recs`, `held` | `memory_recs`: status and events, and which of them this process has |
| `quiet` | history: ticks since the loop computed the last advice that was queued |

| Run | Instance | Question | Result |
|---|---|---|---|
| `demo_process` | 6 processes (quick start with a database, unit fed or not, and without one, API worker, scheduler with and without demo memory), interval 2, 2 plant states, 2 batches, 1 fault | does the loop queue sparingly, recover, follow the plant; is memory's lifecycle the documented one | `TypeOK` and 4 temporal properties hold |
| `demo_audit` | quick start with users | is what a recommendation in memory has come to on its trail | no: `MemoryAudited` is violated |

`demo_audit` is a finding: reject, approve and apply set the status and then serialise a
datetime with `json.dumps`, which raises, so the request answers 500 with the status changed
and no event. `MemoryLifecycle` refines `RecLifecycle`, the abstract specification that the
database path refines too, although the memory store's gates are other ones: it has no
simulation gate, and that stays unclaimed because no document promises it there.

`LoopRecovers` is a leads-to for each number of batches: whatever was queued before an outage,
once the database stays up the next batch is queued as well.

`AdviceFollowsPlant` claims the following where it is true: the process's feeder feeds the unit,
or the process leaves demo memory alone. A unit that is analysed but not fed, in the quick start
as in an API worker or scheduler without a feeder that may use demo memory, keeps what it once
fell back to: it is in the memory store, which is asked before the database ever after, so the
loop advises on that reading until it restarts (`live_reading.py:103`). A recommendation that fell back to memory is not listed once the
table has a row (`routes/optimization.py:185`), nor after a restart; `held` says which can be
reached by number.

Bounds: an interval of two ticks separates "within" from "after" it; two plant states show
whether advice follows; two batches let the loop and a request queue at once, and let a
batch's rows be in the table while it falls back; one fault is an outage or a restart.
`Room` keeps every batch under way a number and ends nothing else.

Fairness: weak fairness of the tasks, the loop's cycle, the feeder and its insert, because
one event loop runs them and `run_forever` and the feeder catch what they raise; of
`Ingest` where no feeder feeds the unit (a consumer fills the table); of `Tick`, because
time passes. Nothing is assumed of users, the plant, the database or restarts.

## 3. Proofs

| Module | Theorem | Says |
|---|---|---|
| `Recommendations_proofs` | `TypeCorrect` | `Spec => []TypeOK` |
| | `ApprovalHolds` | what the plant holds was accepted, then approved, on record |
| | `SimGateHolds` | where the simulation gate is on, no unsimulated advice is on the plant |
| | `AllowlistHolds` | every written node is tagged writable, allowlisted and of the right plant, and live writes are enabled |
| | `LiveTrailHolds` | a live application on record had every planned node written |
| | `ModeHolds` | the `apply_mode` column names a mode its trail holds an application in |
| | `DecisionsHold` | trails read in order: accepted, approved, then applied or failed |
| `RecommendationsRaces_proofs` | `RowHolds` | the status is that of an event after which nothing moved the row; `resolved_at` is set exactly where something applied or rejected it |
| | `LifecycleHolds` | every change of a status is a step of `RecLifecycle`, unless its request was overtaken between read and commit |
| `CarbonReports_proofs` | `TypeCorrect` | `Spec => []TypeOK` |
| | `ReviewsHold` | a locked report was reviewed on record |
| | `SubmissionsHold` | what a registry received was staged first, and the log claims no delivery that did not happen |
| | `TrailsInOrder` | trails read in order: submitted, approved, then locked |
| | `LogIsComplete` | without faults, a batch the log lacks is that of a sync under way |
| | `StatusTruthHolds` | once a review step is on record, the status is one that a step of the trail assigned |
| | `FinalityHolds` | the reports implement `AssuranceLifecycle`: a lock is final once the requests from before it have ended, faults included |
| | `ExportHolds` | without faults, an exported row is the table's, or a generation is about to write it |
| `IngestionPipeline_proofs` | `TypeCorrect` | `Spec => []TypeOK`, offsets in order included |
| | `AlertsHold` | no checker repeats an open alert within the cooldown |
| | `RowsHold` | without a fault, each column of a row is the last message's of its plant and time or a posted reading's, never an earlier message's |
| | `FlagsHold` | without a fault, a newest reading that is bad has its alert |
| | `NothingInvented` | faults included, the quality column holds nothing that was not published of that plant and time |
| | `StormIsBounded` | with finitely many slots, open alerts of one plant and kind within one cooldown are no more than the slots |
| `ModelRegistry_proofs` | `TypeCorrect` | `Spec => []TypeOK` |
| | `FilesHold` | without faults, every model file that is named is complete |
| `PlantSession_proofs` | `TypeCorrect` | `Spec => []TypeOK` |
| | `OnceHolds` | no tag is subscribed a second time |
| | `NoticesHold` | a notified value in the cache is the newest, or a newer one is on its way |
| | `HealthHolds` | a healthy reading has a sample of each field, none of them called bad (a value is another matter) |
| `DemoProcess_proofs` | `TypeCorrect` | `Spec => [](TypeOK /\ BatchInv)`: no two batches under way share a number |
| | `LoopIsSparing` | the loop queues advice at most once per interval |
| | `LifecycleHolds` | memory's recommendations implement `RecLifecycle`, step for step |
| `AdviceEngine_proofs` | `TypeCorrect` | `Spec => []TypeOK` |
| | `AdviceSaves` | proposals keep the envelope, move a unit inside it one way, intensity included, and trim toward the benchmark; of units listed once that is another, better unit |
| | `WorseAdvised` | for any list, repeats included: advised are exactly the units whose last state is no better than half of the list, where something would change |

They hold for any finite or infinite sets of plants, rows and slots and any bounds,
under the named assumptions of the modules (`RecsAssumption`, `ReportsAssumption`, `PipelineAssumption`, `RegistryAssumption`,
`SessionAssumption`, `DemoAssumption`, `AdviceAssumption`: the plant of a row is a plant, "none" values are not rows, bounds are
naturals, settings have their type). TLC evaluates these assumptions in every run.

The argument is the same each time. The safety property is not inductive by itself,
because a commit rests on what its request read steps earlier, so it is strengthened
with what requests in flight carry. For approvals: an approved status, and every request
that passed the approval gate, has its decision on the trail. For live applications
(`EffectInv`): an apply under way has written what it no longer has to write, or carries a
failure that keeps its event from saying "live". For the mode (`ModeInv`): the column, every
value of it a request has read, and every value it is about to assign is on the trail, which
is what makes a column left out of an `UPDATE` harmless. For reviews (`ReviewInv`):
each status past draft and each review step in flight has the steps before it on the
trail; trails only grow (`StepAppended`, `TrailKept`), so a stale commit may overwrite the
status, never the evidence. That is why `LockedWasReviewed` survives races that take a lock back.
`StatusInv` adds that a row a request has loaded stays in the table, and that past a draft it has
a step on its trail, so that no stale write can bring a draft back. For submissions (`SyncInv`): the batch of a sync in flight is its own,
not logged, and agrees with the outcome the sync carries. For alerts (`AlertInv`): a slot
about to raise has seen its own open alerts older than the cooldown, and nobody but itself
adds to those, so the look-up it rests on cannot go stale in the way that matters. For the
table (`RowInv`): each column of a row is that of the last message of its key up to `Stored`, the
number of messages the consumer has written, or what the API writes; and a column of the row an
insert collided with is still what was loaded, or the API's. That makes the update that leaves out
an equal value right, column by column. For bad readings (`FlagInv`): a plant whose newest
reading is bad has its alert, or is the plant the consumer is checking, at a statement that still leads to one;
what the API writes is not bad, so it can only hide a bad reading, never put one on top. For the
registry (`FilesSound`): every save that has its file owns it alone and the file is as far as
the save is, so opening a new one never truncates a file somebody named. For the plant session (`Once`):
only the holder of the lock connects, and until the flag is set nothing but its own work is
subscribed; and (`Noticed`) the notification that waits is the newest value, while no task
carries a sample that a notification brought. For the demo process (`BatchInv`, `ClockInv`):
a batch that a task still claims has no recommendation yet, so queueing one in memory is the
abstract `Queue`; and the loop's persist clock is never ahead of the time since it last
queued.

Three theorems say what remains of a lifecycle that nothing serialises. `FinalityHolds`: a
report is locked only by a commit, whoever loads it afterwards finds the lock and is turned away or
skips it, so the set of requests that could still change it only shrinks; once it is empty the report
is final, and a step of the slots is a step of the abstract specification or changes neither stage
nor figures (`StageStep`).
`RowHolds` (`ToldInv`) carries, of each row, which event last moved it, and of each request in
flight, that the status it read admits it (`SeenOK`); the hard case is the acceptance left out of
an `UPDATE` because the row was read as accepted, where the row must have been moved before and
cannot be pending again.
`LifecycleHolds` is then one case per commit: where the status read is still the row's, the
gate that admitted the request is the guard of the abstract step.

Besides `HealthHolds`, five theorems state properties that no run checks. They say what
survives where the runs allow a race: a stale commit overwrites a status, yet trails read in order
(`TrailsInOrder`, `DecisionsHold`: an event is
appended by a request that found the earlier ones, and trails only grow); a sync log without
faults lags by syncs under way and nothing else (`LogIsComplete`); checkers that read at once
repeat an alert, each at most once (`StormIsBounded`, an injection from open alerts to slots);
writers that collide leave in the quality column at worst that of an older reading, never one
nobody published (`NothingInvented`; the row as a whole may mix two readings). TLC confirmed them
on the instances of the runs before they were proved. The strengthenings are defined beside the properties or in the proof modules, and TLC confirmed them as
invariants before they were proved.

Advice (`AdviceEngine_proofs`) is one evaluation, so its invariant is short: loaded states are
well formed, their efficiency the one their intensity gives, and advice is what
`BuildStructuredAdvice` makes of them. The work is in the operators. Clipping, truncation and
the nudge are shown monotone and bounded one at a time. The median needs an order of the units:
a selection argument shows that a sorting bijection exists for any list, and counting through
it by injections shows that a unit is in the low tier exactly when it is no better than half.

Checked by TLC only: liveness (`ReportsCatchUp`, `PublishedIsStored`, `DemoRecovers`,
`ReadEnds`, `LoopRecovers`, `AdviceFollowsPlant`), because fairness and `ENABLED` are beyond
the prover.

## 4. What is not modelled, and the plan

Not modelled, and why:

- **Sign-in** (`services/auth.py`, `services/oidc.py`, `security/totp.py`): rests on the identity provider, token
  signatures and clocks; one request at a time, a process-local dictionary of pending states.
- **Run-time settings**: one assignment in one process. The modules take settings as fixed at
  start; copies in other processes differ after a patch, and no document promises otherwise.
- **Numerical code**: emission factors, Scope 3, LSTM and ELM training, the physics model, PSI,
  simulation of an advice, benefits. Floating-point functions of constant tables or learned
  weights, without state.
- **Demo carbon report store**: a list in memory without guards between its statuses.
- **Views and rendering**: ESG pack, dashboard, operator, ops, health and sites routes,
  schemas, static pages. They read the state the modules keep.
- **Deployment**: compose and Kubernetes files, read for the process topology only.
- Two processes at one table (two RTO loops, two consumers): each component is modelled as one
  process beside requests. Nothing in the code deduplicates between RTO loops; the docstring of
  `rto/scheduler.py` (line 14) makes "one process per deployment" a rule of operation "so
  recommendations aren't queued twice", and the model takes the rule as kept.

Every safety property of the passing runs is proved; only liveness stays with TLC alone.
