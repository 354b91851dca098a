---------------------------- MODULE CarbonReports ----------------------------
(***************************************************************************)
(* Carbon reports (phase E10): generation from sensor history by the       *)
(* scheduler and by POST /carbon/reports/generate, the assurance workflow  *)
(* (submit, approve, lock) and the sync of reports to an external registry *)
(* (app/carbon/reports.py, scheduler.py, assurance.py, market.py).         *)
(*                                                                         *)
(* The scheduler and every API request run in a slot of their own, with a  *)
(* database session of their own.  Between the SELECT of a report and the  *)
(* commit that writes it, other slots may run.  Generation asks for plants *)
(* and period types; which report that is, period_window tells by the      *)
(* clock, at most one of each plant and type at a time.                    *)
(***************************************************************************)
EXTENDS Naturals, Sequences

CONSTANTS
  Reports,    \* one per plant, period type and period start (UniqueConstraint)
  Series,     \* the pairs of a plant and a period type
  SeriesOf,   \* the series of each report
  Window,     \* period_window: the report of each series, by clock and completed_only
  Plants,     \* unit codes
  PlantOf,    \* the plant of each report
  Slots,      \* request slots of the API, and the scheduler
  Scheduler,  \* the slot that runs CarbonReportScheduler
  Configs,    \* settings: requireLocked (CARBON_MARKET_REQUIRE_LOCKED), url (whether
              \* CARBON_MARKET_API_URL is set), completedOnly (CARBON_REPORT_COMPLETED_ONLY)
  NoReport,   \* no report
  MaxTime,    \* bound: how often the clock enters another day, month or year
  MaxData,    \* bound: how often late or running samples change each aggregate
  MaxTrail,   \* bound: no new review step on a trail this long
  MaxSyncs,   \* bound: market syncs
  MaxFaults   \* bound: database errors and killed requests

ASSUME ReportsAssumption ==
  /\ PlantOf \in [Reports -> Plants]
  /\ SeriesOf \in [Reports -> Series]
  /\ Window \in [0 .. MaxTime -> [BOOLEAN -> [Series -> Reports]]]
  /\ \A t \in 0 .. MaxTime, b \in BOOLEAN, s \in Series : SeriesOf[Window[t][b][s]] = s
  /\ NoReport \notin Reports
  /\ Scheduler \in Slots
  /\ MaxData \in [Reports -> Nat]
  /\ {MaxTime, MaxTrail, MaxSyncs, MaxFaults} \subseteq Nat
  /\ Configs \subseteq [requireLocked : BOOLEAN, url : BOOLEAN, completedOnly : BOOLEAN]

VARIABLES
  cfg,      \* the member of Configs in force
  clock,    \* the current day, month and year
  data,     \* version of each period's aggregate in sensor_readings, 0 for no samples
  status,   \* assurance_status, "absent" before the INSERT
  figures,  \* which version of the aggregate the report's columns come from
  trail,    \* carbon_report_assurance_events of each report, by type
  export,   \* the exported file: the version of its row part and of its breakdown
  batches,  \* market syncs in order: staged payload, what the registry got, sync log
  faults,   \* faults so far
  req       \* what each slot is doing

table == <<status, figures, trail>>
vars  == <<cfg, clock, data, status, figures, trail, export, batches, faults, req>>

Versions == {0} \cup UNION {0 .. MaxData[r] : r \in Reports}
Statuses == {"absent", "draft", "in_review", "approved", "locked"}
Events   == {"submitted", "approved", "locked"}
Outcomes == {"none", "empty", "staged", "synced", "error"}

\* Faulty: a report in review can be locked.
FromEarlyLock ==
  [submitted |-> {"draft", "in_review"}, approved |-> {"in_review"},
   locked |-> {"in_review", "approved"}]

\* The statuses submit, approve and lock accept, and the one they assign.
From == [submitted |-> {"draft", "in_review"}, approved |-> {"in_review"}, locked |-> {"approved"}]
\* Faulty: the event's name is stored, as the demo report store does.
ToEventName == [e \in Events |-> e]

To   == [submitted |-> "in_review", approved |-> "approved", locked |-> "locked"]

Generating == {"generate", "named", "aggregated", "upsert", "export"}
Syncing    == {"post", "record"}

Requests ==
  {q \in [op : {"idle"} \cup Generating \cup Events \cup Syncing,
          row : Reports \cup {NoReport},
          seen : [status : Statuses, figures : Versions],  \* the row as loaded
          fresh : Versions,                                \* the aggregate computed
          todo : SUBSET Series,                            \* plants and types to go
          completed : BOOLEAN,                             \* completed_only
          usable : BOOLEAN,                                \* the session is
          batch : 0 .. MaxSyncs,
          outcome : Outcomes] :
     q.op \in {"named", "aggregated", "upsert", "export"} \cup Events => q.row \in Reports}

Payloads == SUBSET (Reports \X Versions)
Batches  == [lockedOnly : BOOLEAN, staged : Payloads, received : Payloads, log : Outcomes]

TypeOK ==
  /\ cfg \in Configs
  /\ clock \in 0 .. MaxTime
  /\ data \in [Reports -> Versions]
  /\ status \in [Reports -> Statuses]
  /\ figures \in [Reports -> Versions]
  /\ trail \in [Reports -> Seq(Events)]
  /\ export \in [Reports -> Versions \X Versions]
  /\ batches \in Seq(Batches)
  /\ faults \in 0 .. MaxFaults
  /\ req \in [Slots -> Requests]
  /\ \A h \in Slots : req[h].op \in Syncing => req[h].batch \in DOMAIN batches

Idle == [op |-> "idle", row |-> NoReport, seen |-> [status |-> "absent", figures |-> 0],
         fresh |-> 0, todo |-> {}, completed |-> FALSE, usable |-> TRUE, batch |-> 0,
         outcome |-> "none"]

Init ==
  /\ cfg \in Configs
  /\ clock = 0
  /\ data = [r \in Reports |-> 0]
  /\ status = [r \in Reports |-> "absent"]
  /\ figures = [r \in Reports |-> 0]
  /\ trail = [r \in Reports |-> <<>>]
  /\ export = [r \in Reports |-> <<0, 0>>]
  /\ batches = <<>>
  /\ faults = 0
  /\ req = [h \in Slots |-> Idle]

\* What assigning `new` makes of a column: the ORM leaves it out of the UPDATE when
\* the loaded value was the same, whatever the table holds by now.
Assigned(column, r, seen, new) ==
  IF seen = new THEN column ELSE [column EXCEPT ![r] = new]

Loaded(r) == [status |-> status[r], figures |-> figures[r]]

\* The samples of a period change: late readings, or the period is still running.
NewSamples(r) ==
  /\ data[r] < MaxData[r]
  /\ data' = [data EXCEPT ![r] = @ + 1]
  /\ UNCHANGED <<cfg, clock, table, export, batches, faults, req>>

\* Another day, month or year begins.
RollOver ==
  /\ clock < MaxTime
  /\ clock' = clock + 1
  /\ UNCHANGED <<cfg, data, table, export, batches, faults, req>>

-----------------------------------------------------------------------------
(* Generation.  One session serves a whole cycle or request; an error is   *)
(* caught, counted and not rolled back.                                    *)

StartGenerate(h, wanted, completed) ==
  /\ req[h].op = "idle"
  /\ req' = [req EXCEPT ![h].op = "generate", ![h].todo = wanted, ![h].completed = completed]
  /\ UNCHANGED <<cfg, clock, data, table, export, batches, faults>>

\* period_window(now) of the next plant and period type.
NameReport(h) ==
  /\ req[h].op = "generate"
  /\ \E s \in req[h].todo :
       req' = [req EXCEPT ![h] =
         [req[h] EXCEPT !.op = "named", !.row = Window[clock][req[h].completed][s],
                        !.todo = @ \ {s}]]
  /\ UNCHANGED <<cfg, clock, data, table, export, batches, faults>>

\* On to the next plant and period type; what was computed for this one is dropped.
Onward(h, usable) ==
  req' = [req EXCEPT ![h] = [Idle EXCEPT !.op = "generate", !.todo = req[h].todo,
                               !.completed = req[h].completed, !.usable = usable]]

\* A period without samples yields no report; an unusable session only errors.
NothingToReport(h) ==
  /\ req[h].op = "named"
  /\ data[req[h].row] = 0 \/ ~req[h].usable
  /\ Onward(h, req[h].usable)
  /\ UNCHANGED <<cfg, clock, data, table, export, batches, faults>>

Aggregate(h) ==
  /\ req[h].op = "named"
  /\ req[h].usable
  /\ data[req[h].row] # 0
  /\ req' = [req EXCEPT ![h].op = "aggregated", ![h].fresh = data[req[h].row]]
  /\ UNCHANGED <<cfg, clock, data, table, export, batches, faults>>

\* Faulty: locked reports are recomputed like any other.
LoadLocked(h) ==
  /\ req[h].op = "aggregated"
  /\ req' = [req EXCEPT ![h].op = "upsert", ![h].seen = Loaded(req[h].row)]
  /\ UNCHANGED <<cfg, clock, data, table, export, batches, faults>>

\* After ensure_e10_schema.  A locked report is skipped, export included.
LoadExisting(h) ==
  LET r == req[h].row IN
  /\ req[h].op = "aggregated"
  /\ IF status[r] = "locked"
     THEN Onward(h, TRUE)
     ELSE req' = [req EXCEPT ![h].op = "upsert", ![h].seen = Loaded(r)]
  /\ UNCHANGED <<cfg, clock, data, table, export, batches, faults>>

InsertReport(h) ==
  LET q == req[h] IN
  /\ q.op = "upsert"
  /\ q.seen.status = "absent"
  /\ status[q.row] = "absent"
  /\ status' = [status EXCEPT ![q.row] = "draft"]
  /\ figures' = [figures EXCEPT ![q.row] = q.fresh]
  /\ req' = [req EXCEPT ![h].op = "export"]
  /\ UNCHANGED <<cfg, clock, data, trail, export, batches, faults>>

\* Another slot inserted the row first: the commit violates the unique constraint,
\* and the session stays unusable until somebody rolls it back.
DuplicateReport(h) ==
  LET q == req[h] IN
  /\ q.op = "upsert"
  /\ q.seen.status = "absent"
  /\ status[q.row] # "absent"
  /\ Onward(h, FALSE)
  /\ UNCHANGED <<cfg, clock, data, table, export, batches, faults>>

\* Faulty: a recomputed report falls back to draft.
UpdateResets(h) ==
  LET q == req[h] IN
  /\ q.op = "upsert"
  /\ q.seen.status # "absent"
  /\ status' = [status EXCEPT ![q.row] = "draft"]
  /\ figures' = Assigned(figures, q.row, q.seen.figures, q.fresh)
  /\ req' = [req EXCEPT ![h].op = "export"]
  /\ UNCHANGED <<cfg, clock, data, trail, export, batches, faults>>

UpdateReport(h) ==
  LET q == req[h] IN
  /\ q.op = "upsert"
  /\ q.seen.status # "absent"
  /\ figures' = Assigned(figures, q.row, q.seen.figures, q.fresh)
  /\ req' = [req EXCEPT ![h].op = "export"]
  /\ UNCHANGED <<cfg, clock, data, status, trail, export, batches, faults>>

\* Faulty: the file is written from the row as it was loaded.
ExportLoaded(h) ==
  LET q == req[h] IN
  /\ q.op = "export"
  /\ export' = [export EXCEPT ![q.row] = <<q.seen.figures, q.fresh>>]
  /\ Onward(h, TRUE)
  /\ UNCHANGED <<cfg, clock, data, table, batches, faults>>

\* The file mixes the refreshed row with the breakdown this call computed.
WriteExports(h) ==
  LET q == req[h] IN
  /\ q.op = "export"
  /\ export' = [export EXCEPT ![q.row] = <<figures[q.row], q.fresh>>]
  /\ Onward(h, TRUE)
  /\ UNCHANGED <<cfg, clock, data, table, batches, faults>>

\* Faulty: the session is kept for the next cycle.
EndKeepsSession(h) ==
  /\ req[h].op = "generate"
  /\ req[h].todo = {}
  /\ req' = [req EXCEPT ![h] = [Idle EXCEPT !.usable = req[h].usable]]
  /\ UNCHANGED <<cfg, clock, data, table, export, batches, faults>>

EndGenerate(h) ==
  /\ req[h].op = "generate"
  /\ req[h].todo = {}
  /\ req' = [req EXCEPT ![h] = Idle]
  /\ UNCHANGED <<cfg, clock, data, table, export, batches, faults>>

\* A statement or a commit of a generation fails in the database.
DbError(h) ==
  /\ req[h].op \in Generating
  /\ faults < MaxFaults
  /\ faults' = faults + 1
  /\ Onward(h, FALSE)
  /\ UNCHANGED <<cfg, clock, data, table, export, batches>>

-----------------------------------------------------------------------------
(* Assurance: submit, approve and lock differ in From and To.              *)

Review(h, r, step) ==
  /\ req[h].op = "idle"
  /\ status[r] \in From[step]
  /\ Len(trail[r]) < MaxTrail
  /\ req' = [req EXCEPT ![h] = [Idle EXCEPT !.op = step, !.row = r, !.seen = Loaded(r)]]
  /\ UNCHANGED <<cfg, clock, data, table, export, batches, faults>>

CommitReview(h) ==
  LET q == req[h] IN
  /\ q.op \in Events
  /\ status' = Assigned(status, q.row, q.seen.status, To[q.op])
  /\ trail' = [trail EXCEPT ![q.row] = Append(@, q.op)]
  /\ req' = [req EXCEPT ![h] = Idle]
  /\ UNCHANGED <<cfg, clock, data, figures, export, batches, faults>>

-----------------------------------------------------------------------------
(* Market sync: stage a file, POST it where a registry is configured, log. *)

\* The reports a sync selects, with the figures they hold.
Payload(wanted, lockedOnly) ==
  {<<r, figures[r]>> : r \in {s \in wanted : IF lockedOnly THEN status[s] = "locked"
                                                           ELSE status[s] # "absent"}}

\* All plants, or one; force_unlocked is a query parameter of the route.
Sync(h, wanted, forced) ==
  LET lockedOnly == cfg.requireLocked /\ ~forced
      payload    == Payload(wanted, lockedOnly)
      posting    == cfg.url /\ payload # {}
  IN
  /\ req[h].op = "idle"
  /\ Len(batches) < MaxSyncs
  /\ batches' = Append(batches, [lockedOnly |-> lockedOnly, staged |-> payload,
                                 received |-> {}, log |-> "none"])
  /\ req' = [req EXCEPT ![h] =
       [Idle EXCEPT !.op = IF posting THEN "post" ELSE "record",
                    !.batch = Len(batches) + 1,
                    !.outcome = IF payload = {} /\ lockedOnly THEN "empty" ELSE "staged"]]
  /\ UNCHANGED <<cfg, clock, data, table, export, faults>>

\* Faulty: any answer counts as synced (no raise_for_status).
PostUnchecked(h) ==
  LET b == req[h].batch IN
  /\ req[h].op = "post"
  /\ \E delivered \in BOOLEAN, outcome \in {"synced", "error"} :
       /\ batches' = [batches EXCEPT ![b].received = IF delivered THEN batches[b].staged ELSE @]
       /\ req' = [req EXCEPT ![h].op = "record", ![h].outcome = outcome]
  /\ UNCHANGED <<cfg, clock, data, table, export, faults>>

\* The answer may be lost or unreadable after the registry took the batch.
Post(h) ==
  LET b == req[h].batch IN
  /\ req[h].op = "post"
  /\ \E delivered \in BOOLEAN, outcome \in {"synced", "error"} :
       /\ outcome = "synced" => delivered
       /\ batches' = [batches EXCEPT ![b].received = IF delivered THEN batches[b].staged ELSE @]
       /\ req' = [req EXCEPT ![h].op = "record", ![h].outcome = outcome]
  /\ UNCHANGED <<cfg, clock, data, table, export, faults>>

RecordSync(h) ==
  /\ req[h].op = "record"
  /\ batches' = [batches EXCEPT ![req[h].batch].log = req[h].outcome]
  /\ req' = [req EXCEPT ![h] = Idle]
  /\ UNCHANGED <<cfg, clock, data, table, export, faults>>

\* A request or the scheduler dies before its next step; the container restarts.
Abort(h) ==
  /\ req[h].op # "idle"
  /\ faults < MaxFaults
  /\ faults' = faults + 1
  /\ req' = [req EXCEPT ![h] = Idle]
  /\ UNCHANGED <<cfg, clock, data, table, export, batches>>

-----------------------------------------------------------------------------
Generate(h) ==
  \/ NameReport(h) \/ NothingToReport(h) \/ Aggregate(h) \/ LoadExisting(h)
  \/ InsertReport(h) \/ DuplicateReport(h) \/ UpdateReport(h)
  \/ WriteExports(h) \/ EndGenerate(h)

\* One turn of CarbonReportScheduler.run_forever: every plant and period.
Cycle == StartGenerate(Scheduler, Series, cfg.completedOnly) \/ Generate(Scheduler)

OfPlant(p) == {r \in Reports : PlantOf[r] = p}

SubmitAssurance(h)  == \E r \in Reports : Review(h, r, "submitted")
ApproveAssurance(h) == \E r \in Reports : Review(h, r, "approved")
LockAssurance(h)    == \E r \in Reports : Review(h, r, "locked")

\* Of every plant, or of one.
MarketSync(h) ==
  \E p \in Plants, forced \in BOOLEAN :
    Sync(h, Reports, forced) \/ Sync(h, OfPlant(p), forced)

Request(h) ==
  \/ \E wanted \in SUBSET Series, completed \in BOOLEAN : StartGenerate(h, wanted, completed)
  \/ Generate(h)
  \/ SubmitAssurance(h) \/ ApproveAssurance(h) \/ LockAssurance(h)
  \/ CommitReview(h)
  \/ MarketSync(h)
  \/ Post(h)
  \/ RecordSync(h)

Next ==
  \/ RollOver
  \/ \E r \in Reports : NewSamples(r)
  \/ Cycle
  \/ \E h \in Slots \ {Scheduler} : Request(h)
  \/ \E h \in Slots : DbError(h) \/ Abort(h)

Spec == Init /\ [][Next]_vars

\* run_forever never ends: it sleeps between cycles, swallows what a cycle raises and
\* is restarted with its container.  Nothing obliges a user to send a request.
FairSpec == Spec /\ WF_vars(Cycle)

-----------------------------------------------------------------------------
(* What holds whatever the slots interleave.                               *)

\* The trail of r holds a submission, later an approval, and later still a lock.
Submitted(r) == \E i \in DOMAIN trail[r] : trail[r][i] = "submitted"

Approved(r) ==
  \E i, j \in DOMAIN trail[r] : i < j /\ trail[r][i] = "submitted" /\ trail[r][j] = "approved"

Reviewed(r) ==
  \E i, j, k \in DOMAIN trail[r] :
    /\ i < j /\ j < k
    /\ trail[r][i] = "submitted" /\ trail[r][j] = "approved" /\ trail[r][k] = "locked"

\* A locked report was submitted, then approved, then locked, all on record, however
\* review requests race with each other and with regeneration.
LockedWasReviewed == \A r \in Reports : status[r] = "locked" => Reviewed(r)

\* What the registry received is what was staged on disk before, and the sync log says
\* "synced" only of a batch it received: a crash or a lost answer may lose the log
\* entry, never the staged copy.
SubmissionsTraceable ==
  \A b \in DOMAIN batches :
    /\ batches[b].received \in {{}, batches[b].staged}
    /\ batches[b].log = "synced" => batches[b].received # {}
    /\ batches[b].log \in {"empty", "staged"} => batches[b].received = {}

\* Once a review step is committed the report's status is one that a step on its trail
\* assigned: no regeneration, however stale, takes it back to draft.
StatusOnTrail ==
  \A r \in Reports :
    IF trail[r] = <<>> THEN status[r] \in {"absent", "draft"}
                       ELSE \E i \in DOMAIN trail[r] : status[r] = To[trail[r][i]]

\* A request that loaded r before now is still to commit.
Pending(r) ==
  \E h \in Slots : req[h].row = r /\ req[h].op \in {"upsert"} \cup Events

\* A lock is final once no request from before it is under way.
Stage == [r \in Reports |-> IF status[r] = "absent" THEN "absent"
                            ELSE IF status[r] = "locked" /\ ~Pending(r) THEN "final" ELSE "open"]

Assurance == INSTANCE AssuranceLifecycle WITH
               stage <- Stage, value <- figures, Values <- Versions

\* Whatever races, neither the figures nor the status of a report change any more once
\* it is locked and the requests that loaded it before have ended: later ones find the
\* lock, be they regenerations or review steps.
AssuranceRefined == Assurance!Spec

\* Until something fails, the exported row of a report is the one in the table, unless a
\* generation is between its commit and the export, however generations overtake each
\* other; the breakdown beside it may be another one's.
ExportIsRow ==
  faults = 0 => \A r \in Reports :
    \/ export[r][1] = figures[r]
    \/ \E h \in Slots : req[h].op = "export" /\ req[h].row = r

\* The report the scheduler is after in its series.
Current(r) == Window[clock][cfg.completedOnly][SeriesOf[r]] = r

\* As long as the scheduler's window names it, a report with samples keeps catching up with
\* them until it is locked, and its file with it: a duplicate insert, a database error or
\* a death between commit and export costs the rest of one cycle, not the cycles after it.
ReportsCatchUp ==
  \A r \in Reports :
    []<>(\/ ~Current(r) \/ data[r] = 0 \/ status[r] = "locked"
         \/ figures[r] = data[r] /\ export[r] = <<data[r], data[r]>>)

-----------------------------------------------------------------------------
(* Inductive strengthenings.                                               *)

\* The review steps a status or a request in flight rests on are on the trail.
ReviewInv ==
  /\ \A r \in Reports : status[r] = "in_review" => Submitted(r)
  /\ \A r \in Reports : status[r] = "approved" => Approved(r)
  /\ LockedWasReviewed
  /\ \A h \in Slots : req[h].op = "approved" => Submitted(req[h].row)
  /\ \A h \in Slots : req[h].op = "locked" => Approved(req[h].row)

\* Each sync in flight has a batch of its own, not yet logged, and carries an outcome
\* that agrees with what the registry received.
SyncOf(h) ==
  LET q == req[h]
      b == batches[q.batch]
  IN
  q.op \in Syncing =>
    /\ b.log = "none"
    /\ \A g \in Slots \ {h} : req[g].op \in Syncing => req[g].batch # q.batch
    /\ q.op = "post" => b.received = {} /\ b.staged # {}
    /\ q.op = "record" /\ q.outcome = "synced" => b.received # {}
    /\ q.op = "record" /\ q.outcome \in {"empty", "staged"} => b.received = {}

SyncInv == SubmissionsTraceable /\ \A h \in Slots : SyncOf(h)
=============================================================================
