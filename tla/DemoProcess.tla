----------------------------- MODULE DemoProcess -----------------------------
(***************************************************************************)
(* One process with its in-memory stores: where an analysis takes its      *)
(* readings from (app/services/live_reading.py), the demo feeder           *)
(* (app/demo/feeder.py), the RTO loop (app/rto/scheduler.py), and advice   *)
(* queued in the database or, failing that, in the process's memory        *)
(* (app/demo/memory_recs.py and the routes that serve it).                 *)
(*                                                                         *)
(* The process is an API worker or the stand-alone scheduler.  It runs one *)
(* event loop: a step runs from one await to the next.  One of the units   *)
(* it analyses is modelled, which its feeder need not feed; what the unit  *)
(* is advised is AdviceEngine's business.                                  *)
(***************************************************************************)
EXTENDS Naturals, Sequences

CONSTANTS
  Configs,     \* what the process may have been started as; bound: nobody asks unless "asked"
  Calling,     \* the states of the plant that call for advice
  Interval,    \* rto_persist_interval_seconds, in ticks
  MaxVersion,  \* bound: states of the plant
  MaxBatches,  \* bound: batches of advice queued
  MaxTrail,    \* bound: no new request on a recommendation with so many events
  MaxFaults    \* bound: database outages and restarts

Tasks    == {"loop", "request"}     \* the RTO loop, and an API request
Batches  == 1 .. MaxBatches
Versions == 0 .. MaxVersion         \* 0 for no reading
Statuses == {"absent", "pending", "accepted", "approved", "applied", "rejected"}

ASSUME DemoAssumption ==
  /\ Configs \subseteq [kind : {"api", "scheduler"}, dev : BOOLEAN, feeder : BOOLEAN,
                        prefer : BOOLEAN, memoryOnly : BOOLEAN, rto : BOOLEAN, fed : BOOLEAN,
                        asked : BOOLEAN]
  /\ \A c \in Configs : c.asked => c.kind = "api"
  /\ Calling \subseteq 1 .. MaxVersion
  /\ Interval \in Nat \ {0} /\ MaxVersion \in Nat \ {0}
  /\ MaxBatches \in Nat /\ MaxTrail \in Nat /\ MaxFaults \in Nat

VARIABLES
  cfg,      \* what runs, APP_ENV, DEMO_FEEDER, DEMO_PREFER_MEMORY, DEMO_MEMORY_ONLY,
            \* RTO_ENABLED, and whether PRODUCER_PLANT_CODES names the unit
  dbUp,     \* the database answers
  plant,    \* the state the plant is in, counted
  row,      \* the state the newest sensor row shows
  mem,      \* the state memory_store.latest shows
  feed,     \* the reading the feeder is inserting
  feeding,  \* the feeder still has a session factory
  task,     \* what the loop and the request are doing
  since,    \* ticks since _last_persist, up to Interval; Interval also for None
  quiet,    \* history: ticks since the loop computed the last advice that was queued
  table,    \* the batches queued in the database, with their "created" events
  recs,     \* memory_recs: status and trail of each batch's recommendation
  held,     \* the batches whose recommendation this process has in memory
  batches,  \* batches queued so far
  faults    \* of these so far

vars == <<cfg, dbUp, plant, row, mem, feed, feeding, task, since, quiet, table, recs, held,
          batches, faults>>
readings == <<plant, row, mem, feed, feeding>>
queues   == <<table, recs, held, batches>>
clocks   == <<since, quiet>>

Ops  == {"idle", "query", "loaded", "insert", "event", "fall"}
Goal == {"none", "cycle", "analyze", "live", "status", "impact"}
Task == [op : Ops, goal : Goal, used : Versions, age : 0 .. Interval, batch : 0 .. MaxBatches]
Row  == [row : BOOLEAN, event : BOOLEAN]
Rec  == [status : Statuses, trail : Seq(Statuses)]

\* Settings with plant_connect off: it rules demo memory out (see PlantSession).
AllowDemoMemory     == cfg.dev \/ cfg.prefer \/ cfg.memoryOnly \/ cfg.feeder
ShouldRunDemoFeeder == cfg.dev \/ cfg.feeder

\* lifespan starts the feeder and an inline loop; the stand-alone scheduler is a loop.
Inline == cfg.kind = "api" /\ ShouldRunDemoFeeder
Loops  == cfg.kind = "scheduler" \/ (Inline /\ cfg.rto)

\* The loop analyses UNIT_CODES, the feeder feeds PRODUCER_PLANT_CODES.
Fed == Inline /\ cfg.fed

\* The feeder gets a session factory unless the demo is memory-only.
Inserts == Inline /\ ~cfg.memoryOnly

TypeOK ==
  /\ cfg \in Configs
  /\ dbUp \in BOOLEAN /\ feeding \in BOOLEAN
  /\ plant \in 1 .. MaxVersion
  /\ row \in Versions /\ mem \in Versions /\ feed \in Versions
  /\ task \in [Tasks -> Task]
  /\ since \in 0 .. Interval /\ quiet \in 0 .. Interval
  /\ table \in [Batches -> Row]
  /\ recs \in [Batches -> Rec]
  /\ held \subseteq {b \in Batches : recs[b].status # "absent"}
  /\ batches \in 0 .. MaxBatches
  /\ faults \in 0 .. MaxFaults
  /\ \A h \in Tasks : /\ task[h].op = "event" => task[h].batch \in Batches
                      /\ task[h].op \in {"loaded", "insert", "event", "fall"} => task[h].used # 0

Idle == [op |-> "idle", goal |-> "none", used |-> 0, age |-> 0, batch |-> 0]

Init ==
  /\ cfg \in Configs
  /\ dbUp \in BOOLEAN
  /\ plant = 1
  /\ row = 0
  /\ mem = 0
  /\ feed = 0
  /\ feeding = Inserts
  /\ task = [h \in Tasks |-> Idle]
  /\ since = Interval
  /\ quiet = Interval
  /\ table = [b \in Batches |-> [row |-> FALSE, event |-> FALSE]]
  /\ recs = [b \in Batches |-> [status |-> "absent", trail |-> <<>>]]
  /\ held = {}
  /\ batches = 0
  /\ faults = 0

-----------------------------------------------------------------------------
(* Readings.                                                               *)

\* memory_store: the reading appended last is the latest.
Remember(reading) == mem' = reading
Latest == IF AllowDemoMemory THEN mem ELSE 0

\* Faulty: a feeder that cannot insert stops.
FeederTickWhileFeeding ==
  /\ Fed /\ feed = 0 /\ feeding
  /\ Remember(plant)
  /\ feed' = plant
  /\ UNCHANGED <<cfg, dbUp, plant, row, feeding, task, clocks, queues, faults>>

\* tick: read the plant, append to the memory store, then insert.
FeederTick ==
  /\ Fed /\ feed = 0
  /\ Remember(plant)
  /\ feed' = IF feeding THEN plant ELSE 0
  /\ UNCHANGED <<cfg, dbUp, plant, row, feeding, task, clocks, queues, faults>>

\* _persist_db: the first failure ends it for good.
FeederInsert ==
  /\ feed # 0
  /\ feed' = 0
  /\ IF dbUp THEN row' = feed /\ UNCHANGED feeding
             ELSE feeding' = FALSE /\ UNCHANGED row
  /\ UNCHANGED <<cfg, dbUp, plant, mem, task, clocks, queues, faults>>

\* What is analysed next: every cycle of the loop, or what a request asks for: advice to
\* queue, GET /rto/live, GET /plant-connect/status, the impact of advice in memory.
Goals(h) ==
  IF h = "loop" THEN IF Loops THEN {[Idle EXCEPT !.goal = "cycle"]} ELSE {}
  ELSE IF cfg.asked THEN {[Idle EXCEPT !.goal = g] : g \in {"analyze", "live", "status"}} \cup
                         {[Idle EXCEPT !.goal = "impact", !.batch = b] : b \in held}
  ELSE {}

\* resolve_live_reading: the memory store comes first where demo memory is allowed.
Start(h) ==
  /\ task[h].op = "idle"
  /\ \E t \in Goals(h) :
       task' = [task EXCEPT ![h] = IF Latest # 0 THEN [t EXCEPT !.op = "loaded", !.used = Latest]
                                                ELSE [t EXCEPT !.op = "query"]]
  /\ UNCHANGED <<cfg, dbUp, readings, clocks, queues, faults>>

\* plant_connect_status resolves its readings without a session.
HasSession(h) == task[h].goal # "status"

\* The database has answered, or failed.  Without a row the memory store is asked again,
\* then the plant itself, whose reading demo memory keeps.
Query(h) ==
  /\ task[h].op = "query"
  /\ LET stored == IF HasSession(h) /\ dbUp THEN row ELSE 0
         used   == IF stored # 0 THEN stored ELSE IF Latest # 0 THEN Latest ELSE plant
     IN  /\ task' = [task EXCEPT ![h].op = "loaded", ![h].used = used, ![h].age = 0]
         /\ IF stored = 0 /\ AllowDemoMemory THEN Remember(used) ELSE UNCHANGED mem
  /\ UNCHANGED <<cfg, dbUp, plant, row, feed, feeding, clocks, queues, faults>>

-----------------------------------------------------------------------------
(* Queueing advice.                                                        *)

\* Bound: every batch that is under way still has a number.
Room == batches + (IF \E h \in Tasks : task[h].op \in {"insert", "fall"} THEN 1 ELSE 0) < MaxBatches

\* What the loop used last stays to be looked at.
Ends(h) == task' = [task EXCEPT ![h] = IF h = "loop" THEN [Idle EXCEPT !.used = task[h].used]
                                                      ELSE Idle]

\* rto_live and plant_connect_status only show what they find.
Shown(h) ==
  /\ task[h].op = "loaded" /\ task[h].goal \in {"live", "status"}
  /\ Ends(h)
  /\ UNCHANGED <<cfg, dbUp, readings, clocks, queues, faults>>

\* Faulty: the loop takes every computation for one that was queued.
ComputeNoted(h) ==
  /\ task[h].op = "loaded" /\ task[h].goal \in {"cycle", "analyze"}
  /\ IF task[h].used \in Calling /\ Room /\ (h = "loop" => since = Interval)
       THEN task' = [task EXCEPT ![h].op = "insert", ![h].age = 0] /\ UNCHANGED since
       ELSE Ends(h) /\ since' = IF h = "loop" THEN 0 ELSE since
  /\ UNCHANGED <<cfg, dbUp, readings, quiet, queues, faults>>

\* build_structured_advice; the loop queues what comes of it at most once per interval.
Compute(h) ==
  /\ task[h].op = "loaded" /\ task[h].goal \in {"cycle", "analyze"}
  /\ IF task[h].used \in Calling /\ Room /\ (h = "loop" => since = Interval)
       THEN task' = [task EXCEPT ![h].op = "insert", ![h].age = 0]
       ELSE Ends(h)
  /\ UNCHANGED <<cfg, dbUp, readings, clocks, queues, faults>>

\* persist_recommendations up to the commit of the rows.
Insert(h) ==
  /\ task[h].op = "insert"
  /\ \/ /\ dbUp
        /\ batches' = batches + 1
        /\ table' = [table EXCEPT ![batches'].row = TRUE]
        /\ task' = [task EXCEPT ![h].op = "event", ![h].batch = batches']
        /\ quiet' = IF h = "loop" THEN task[h].age ELSE quiet
     \/ /\ ~dbUp
        /\ task' = [task EXCEPT ![h].op = "fall"]
        /\ UNCHANGED <<table, batches, quiet>>
  /\ UNCHANGED <<cfg, dbUp, readings, since, recs, held, faults>>

\* Faulty: the clock starts when something was queued.
PersistedIfAny(h) ==
  since' = IF h = "loop" /\ task[h].op # "fall" THEN task[h].age ELSE since

\* The loop notes when it computed what it has just tried to queue, queued or not.
Persisted(h) == since' = IF h = "loop" THEN task[h].age ELSE since

Fault == faults < MaxFaults /\ faults' = faults + 1

\* append_audit commits once more, then refreshes: whoever called cannot tell which failed.
Event(h) ==
  /\ task[h].op = "event"
  /\ \/ /\ dbUp
        /\ table' = [table EXCEPT ![task[h].batch].event = TRUE]
        /\ \/ Ends(h) /\ Persisted(h) /\ UNCHANGED faults
           \/ task' = [task EXCEPT ![h].op = "fall"] /\ Fault /\ UNCHANGED since
     \/ /\ ~dbUp
        /\ task' = [task EXCEPT ![h].op = "fall"]
        /\ UNCHANGED <<table, since, faults>>
  /\ UNCHANGED <<cfg, dbUp, readings, quiet, recs, held, batches>>

\* Faulty: the recommendation gets its number, and is lost.
FallBackLost(h) ==
  /\ task[h].op = "fall"
  /\ IF AllowDemoMemory /\ task[h].batch = 0
       THEN batches' = batches + 1 /\ held' = held \cup {batches'}
       ELSE UNCHANGED <<batches, held>>
  /\ Ends(h)
  /\ Persisted(h)
  /\ UNCHANGED <<cfg, dbUp, readings, quiet, table, recs, faults>>

\* Without rows: memory_recs.persist, where demo memory is allowed.
FallBack(h) ==
  /\ task[h].op = "fall"
  /\ LET b == IF task[h].batch = 0 THEN batches + 1 ELSE task[h].batch
     IN  IF AllowDemoMemory
           THEN /\ batches' = IF task[h].batch = 0 THEN b ELSE batches
                /\ recs' = [recs EXCEPT ![b] = [status |-> "pending", trail |-> <<"pending">>]]
                /\ held' = held \cup {b}
                /\ quiet' = IF h = "loop" THEN task[h].age ELSE quiet
           ELSE UNCHANGED <<batches, recs, held, quiet>>
  /\ Ends(h)
  /\ Persisted(h)
  /\ UNCHANGED <<cfg, dbUp, readings, table, faults>>

-----------------------------------------------------------------------------
(* Recommendations in memory: handlers without an await, on one event loop. *)

\* set_status appends its event last; a datetime among the extras is no JSON, so the
\* request fails there, with the status set.
SetStatus(b, new, datetimes) ==
  /\ datetimes \/ Len(recs[b].trail) < MaxTrail
  /\ recs' = [recs EXCEPT ![b] = [status |-> new,
                                 trail |-> IF datetimes THEN @.trail ELSE Append(@.trail, new)]]
  /\ UNCHANGED <<cfg, dbUp, readings, clocks, table, held, batches, faults>>

Feedback(b, decision) ==
  /\ cfg.asked /\ b \in held
  /\ recs[b].status \in {"pending", "accepted"}
  /\ SetStatus(b, decision, decision = "rejected")
  /\ UNCHANGED task

\* Faulty: approval does not ask for the status.
ApproveAny(b) ==
  /\ cfg.asked /\ b \in held
  /\ SetStatus(b, "approved", TRUE)
  /\ UNCHANGED task

Approve(b) ==
  /\ cfg.asked /\ b \in held
  /\ recs[b].status = "accepted"
  /\ SetStatus(b, "approved", TRUE)
  /\ UNCHANGED task

Apply(b) ==
  /\ cfg.asked /\ b \in held
  /\ recs[b].status = "approved"
  /\ SetStatus(b, "applied", TRUE)
  /\ UNCHANGED task

\* The impact of a recommendation of any status; its event is named after that status.
Impact(h) ==
  /\ task[h].op = "loaded" /\ task[h].goal = "impact"
  /\ SetStatus(task[h].batch, recs[task[h].batch].status, FALSE)
  /\ Ends(h)

-----------------------------------------------------------------------------
(* The plant, the ingestion pipeline, the database, time and the process.  *)

Change ==
  /\ plant < MaxVersion
  /\ plant' = plant + 1
  /\ UNCHANGED <<cfg, dbUp, row, mem, feed, feeding, task, clocks, queues, faults>>

\* Where no feeder feeds the unit, an ingestion consumer fills the table.
Ingest ==
  /\ ~Fed /\ dbUp
  /\ row' = plant
  /\ UNCHANGED <<cfg, dbUp, plant, mem, feed, feeding, task, clocks, queues, faults>>

DbDown ==
  /\ dbUp /\ Fault
  /\ dbUp' = FALSE
  /\ UNCHANGED <<cfg, readings, task, clocks, queues>>

DbUp ==
  /\ ~dbUp
  /\ dbUp' = TRUE
  /\ UNCHANGED <<cfg, readings, task, clocks, queues, faults>>

Older(age) == IF age < Interval THEN age + 1 ELSE age

Tick ==
  /\ since' = Older(since)
  /\ quiet' = Older(quiet)
  /\ task' = [task EXCEPT !["loop"].age = IF task["loop"].op \in {"insert", "event", "fall"}
                                            THEN Older(@) ELSE @]
  /\ UNCHANGED <<cfg, dbUp, readings, queues, faults>>

\* lifespan: the process stops, or dies, and starts with empty memory.
Restart ==
  /\ Fault
  /\ mem' = 0
  /\ feed' = 0
  /\ feeding' = Inserts
  /\ task' = [h \in Tasks |-> Idle]
  /\ since' = Interval
  /\ quiet' = Interval
  /\ held' = {}
  /\ UNCHANGED <<cfg, dbUp, plant, row, table, recs, batches>>

Step(h) ==
  \/ Query(h) \/ Shown(h) \/ Impact(h)
  \/ Compute(h) \/ Insert(h) \/ Event(h) \/ FallBack(h)

Next ==
  \/ FeederTick \/ FeederInsert
  \/ \E h \in Tasks : Start(h) \/ Step(h)
  \/ \E b \in Batches : \/ \E d \in {"accepted", "rejected"} : Feedback(b, d)
                        \/ Approve(b) \/ Apply(b)
  \/ Change \/ Ingest \/ DbDown \/ DbUp \/ Tick \/ Restart

Spec == Init /\ [][Next]_vars

\* The event loop runs its tasks and timers; consumers keep the table up to date.
Fairness ==
  /\ \A h \in Tasks : WF_vars(Step(h))
  /\ WF_vars(Start("loop")) /\ WF_vars(FeederTick) /\ WF_vars(FeederInsert)
  /\ WF_vars(Ingest) /\ WF_vars(Tick)
FairSpec == Spec /\ Fairness

-----------------------------------------------------------------------------
(* Properties.                                                             *)

\* The loop queues advice at most once per interval while the process lives, whatever
\* fails half-way: what it is about to queue was computed an interval after the last
\* advice of which a row or a recommendation was left.
QueuedSparingly ==
  [][task["loop"].op = "loaded" /\ task'["loop"].op = "insert" => quiet = Interval]_vars

\* A database that fails now and then costs advice, but does not end it: once it stays up
\* and the plant keeps calling for advice, the loop goes on queueing, however many batches
\* there were before.
LoopRecovers ==
  Loops /\ Calling = 1 .. MaxVersion /\ <>[]dbUp =>
    \A n \in 0 .. MaxBatches - 1 : batches = n ~> batches > n

\* Advice follows the plant wherever the process's feeder feeds the unit or the process
\* leaves the memory store alone: a cycle after the last change sees it, even after outages
\* and restarts.  A unit that is analysed but not fed keeps the first reading that went to
\* memory.
AdviceFollowsPlant ==
  Loops /\ (Fed \/ ~AllowDemoMemory) /\ <>[]dbUp => []<>(task["loop"].used = plant)

\* A recommendation kept in memory goes through the lifecycle of RecLifecycle.
Memory == INSTANCE RecLifecycle WITH Recs <- Batches,
                                     stage <- [b \in Batches |-> recs[b].status]
MemoryLifecycle == Memory!Spec

\* README: "Approve -> apply (dry-run/OPC), audit trail".  What a recommendation in memory
\* has come to is on its trail.
MemoryAudited ==
  \A b \in Batches : recs[b].status # "absent"
    => \E i \in 1 .. Len(recs[b].trail) : recs[b].trail[i] = recs[b].status
=============================================================================
