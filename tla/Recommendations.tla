--------------------------- MODULE Recommendations ---------------------------
(***************************************************************************)
(* The database path of setpoint recommendations (phase E9): queueing,     *)
(* operator feedback, approval, application to the plant over OPC-UA,      *)
(* simulation and impact tracking (app/optimization/store.py, apply.py,    *)
(* app/ingestion/opcua_write.py and the routes that call them).            *)
(*                                                                         *)
(* Every request runs in a handler slot.  It reads the row with a plain    *)
(* SELECT, decides on what it read, awaits, and ends in one commit that    *)
(* UPDATEs the columns it assigned and INSERTs its audit event.  Nothing   *)
(* locks the row between the two, so a handler is two or more steps here,  *)
(* and other handlers (coroutines, uvicorn workers, replicas, the RTO      *)
(* process) may run between them.                                          *)
(***************************************************************************)
EXTENDS Naturals, Sequences

CONSTANTS
  Recs,       \* ids the recommendation table can hand out
  Plants,     \* unit codes a recommendation can be about
  PlantOf,    \* the plant_code of each recommendation
  Fields,     \* the keys of proposed_json
  Handlers,   \* request slots: coroutines of every API worker, and RTO
  Configs,    \* what the deployment may have been started with: the settings
              \* requireSim, writeEnabled, endpoint and allowed (OPT_WRITABLE_FIELDS)
              \* and tags, the mapped plants' writable tags (tags.yaml)
  NoRec,      \* no recommendation
  MaxTrail    \* bound: no new request on a row whose trail is this long

ASSUME RecsAssumption ==
  /\ PlantOf \in [Recs -> Plants]
  /\ NoRec \notin Recs
  /\ \A c \in Configs :
       /\ {c.requireSim, c.writeEnabled, c.endpoint} \subseteq BOOLEAN
       /\ c.allowed \subseteq Fields
       /\ DOMAIN c.tags \subseteq Plants

VARIABLES
  cfg,       \* the member of Configs it was started with
  status,    \* status column; "absent" before the INSERT
  sim,       \* simulated_intensity_delta IS NOT NULL
  resolved,  \* resolved_at IS NOT NULL
  mode,      \* apply_mode column, "none" for NULL
  realized,  \* where realized_saving_kwh_per_h came from, "none" for NULL
  audit,     \* recommendation_audit_events of each recommendation, in order
  setpoint,  \* whose proposal each OPC write node holds, NoRec for the plant's own
  req        \* the request each handler slot is serving

row  == <<status, sim, resolved, mode, realized>>
vars == <<cfg, status, sim, resolved, mode, realized, audit, setpoint, req>>

Statuses == {"absent", "pending", "accepted", "approved", "applied", "rejected", "failed"}
Modes    == {"none", "dry_run", "live"}
Sources  == {"none", "history", "estimate"}
Events   == [type : {"created", "accepted", "rejected", "approved", "applied",
                     "apply_failed", "impact"},
             mode : Modes]
Ops      == {"idle", "created", "feedback", "approve", "apply", "write", "record",
             "refuse", "simulate", "impact"}
Args     == {"none", "accepted", "rejected"} \cup Modes \cup Sources

\* The columns of a row that a commit may overwrite with what they held already.
Columns  == [status : Statuses, mode : Modes, realized : Sources]
NoRow    == [status |-> "absent", mode |-> "none", realized |-> "none"]

Requests ==
  {q \in [op : Ops, rec : Recs \cup {NoRec}, seen : Columns, arg : Args,
          todo : SUBSET Fields, batch : SUBSET Recs] :
     /\ q.op \notin {"idle", "created"} => q.rec \in Recs
     /\ q.op = "feedback" => q.arg \in {"accepted", "rejected"}
     /\ q.op \in {"apply", "write", "record", "refuse"} => q.arg \in {"dry_run", "live"}
     /\ q.op = "impact" => q.arg \in {"history", "estimate"}}

TypeOK ==
  /\ cfg \in Configs
  /\ status \in [Recs -> Statuses]
  /\ sim \in [Recs -> BOOLEAN]
  /\ resolved \in [Recs -> BOOLEAN]
  /\ mode \in [Recs -> Modes]
  /\ realized \in [Recs -> Sources]
  /\ audit \in [Recs -> Seq(Events)]
  /\ setpoint \in [Plants \X Fields -> Recs \cup {NoRec}]
  /\ req \in [Handlers -> Requests]

IdleReq == [op |-> "idle", rec |-> NoRec, seen |-> NoRow, arg |-> "none",
            todo |-> {}, batch |-> {}]

Init ==
  /\ cfg \in Configs
  /\ status = [r \in Recs |-> "absent"]
  /\ sim = [r \in Recs |-> FALSE]
  /\ resolved = [r \in Recs |-> FALSE]
  /\ mode = [r \in Recs |-> "none"]
  /\ realized = [r \in Recs |-> "none"]
  /\ audit = [r \in Recs |-> <<>>]
  /\ setpoint = [pf \in Plants \X Fields |-> NoRec]
  /\ req = [h \in Handlers |-> IdleReq]

-----------------------------------------------------------------------------
(* Steps every handler is made of.                                         *)

\* Handler h has read row r and passed its checks; `a` is what it decided.
Begin(h, o, r, a) ==
  /\ req[h].op = "idle"
  /\ req' = [req EXCEPT ![h] =
       [op |-> o, rec |-> r, arg |-> a, todo |-> {}, batch |-> {},
        seen |-> [status |-> status[r], mode |-> mode[r], realized |-> realized[r]]]]

\* The row can take one more request under the bound on its trail.
Room(r) == Len(audit[r]) < MaxTrail

Finish(h) == req' = [req EXCEPT ![h] = IdleReq]

\* session.add(RecommendationAuditEvent(...)) of the commit being made.
Trail(r, t, m) == audit' = [audit EXCEPT ![r] = Append(@, [type |-> t, mode |-> m])]

\* What assigning `new` makes of a column: the ORM leaves it out of the UPDATE when
\* the handler loaded the same value, whatever the table holds by now.
Assigned(column, r, seen, new) ==
  IF seen = new THEN column ELSE [column EXCEPT ![r] = new]

\* Faulty: plans every writable tag, without OPT_WRITABLE_FIELDS.
PlannedAnyTag(r) == IF PlantOf[r] \in DOMAIN cfg.tags THEN cfg.tags[PlantOf[r]] ELSE {}

\* The allowlisted write plan: fields enabled in the settings whose tag is writable.
Planned(r) ==
  IF PlantOf[r] \in DOMAIN cfg.tags THEN cfg.allowed \cap cfg.tags[PlantOf[r]] ELSE {}

-----------------------------------------------------------------------------
(* Queueing: POST /optimization/analyze and the RTO cycle.                 *)

\* One commit INSERTs a pending row per plant; the advice was simulated or not.
\* The "created" events are committed afterwards, one by one.
PersistRows(h, batch, simulated) ==
  /\ req[h].op = "idle"
  /\ batch # {}
  /\ \A r \in batch : status[r] = "absent"
  /\ status' = [r \in Recs |-> IF r \in batch THEN "pending" ELSE status[r]]
  /\ sim' = [r \in Recs |-> IF r \in batch THEN simulated ELSE sim[r]]
  /\ req' = [req EXCEPT ![h] = [IdleReq EXCEPT !.op = "created", !.batch = batch]]
  /\ UNCHANGED <<cfg, resolved, mode, realized, audit, setpoint>>

AuditCreated(h) ==
  /\ req[h].op = "created"
  /\ \E r \in req[h].batch :
       LET left == req[h].batch \ {r} IN
       /\ Trail(r, "created", "none")
       /\ req' = [req EXCEPT ![h] =
                    IF left = {} THEN IdleReq ELSE [req[h] EXCEPT !.batch = left]]
  /\ UNCHANGED <<cfg, row, setpoint>>

-----------------------------------------------------------------------------
(* Operator feedback, approval, simulation.                                *)

\* Faulty: takes feedback on an approved row too.
FeedbackOnApproved(h, r, decision) ==
  /\ Room(r)
  /\ status[r] \in {"pending", "accepted", "approved"}
  /\ Begin(h, "feedback", r, decision)
  /\ UNCHANGED <<cfg, row, audit, setpoint>>

SubmitFeedback(h, r, decision) ==
  /\ Room(r)
  /\ status[r] \in {"pending", "accepted"}
  /\ Begin(h, "feedback", r, decision)
  /\ UNCHANGED <<cfg, row, audit, setpoint>>

CommitFeedback(h) ==
  LET q == req[h] IN
  /\ q.op = "feedback"
  /\ status' = Assigned(status, q.rec, q.seen.status, q.arg)
  /\ resolved' = IF q.arg = "rejected" THEN [resolved EXCEPT ![q.rec] = TRUE] ELSE resolved
  /\ Trail(q.rec, q.arg, "none")
  /\ Finish(h)
  /\ UNCHANGED <<cfg, sim, mode, realized, setpoint>>

Approve(h, r) ==
  /\ Room(r)
  /\ status[r] = "accepted"
  /\ Begin(h, "approve", r, "none")
  /\ UNCHANGED <<cfg, row, audit, setpoint>>

CommitApprove(h) ==
  LET q == req[h] IN
  /\ q.op = "approve"
  /\ status' = Assigned(status, q.rec, q.seen.status, "approved")
  /\ Trail(q.rec, "approved", "none")
  /\ Finish(h)
  /\ UNCHANGED <<cfg, sim, resolved, mode, realized, setpoint>>

\* Simulation takes a row in any status.
Simulate(h, r) ==
  /\ status[r] # "absent"
  /\ Begin(h, "simulate", r, "none")
  /\ UNCHANGED <<cfg, row, audit, setpoint>>

CommitSimulate(h) ==
  /\ req[h].op = "simulate"
  /\ sim' = [sim EXCEPT ![req[h].rec] = TRUE]
  /\ Finish(h)
  /\ UNCHANGED <<cfg, status, resolved, mode, realized, audit, setpoint>>

-----------------------------------------------------------------------------
(* Apply: the gates, the write plan, the OPC writes, the commit.           *)

\* Faulty: an accepted row may be applied without an approval.
ApplyUnapproved(h, r, m) ==
  /\ Room(r)
  /\ status[r] \in {"accepted", "approved"}
  /\ cfg.requireSim => sim[r]
  /\ Begin(h, "apply", r, m)
  /\ UNCHANGED <<cfg, row, audit, setpoint>>

\* Faulty: only dry runs pass the simulation gate.
ApplyUnsimulated(h, r, m) ==
  /\ Room(r)
  /\ status[r] = "approved"
  /\ cfg.requireSim /\ m = "dry_run" => sim[r]
  /\ Begin(h, "apply", r, m)
  /\ UNCHANGED <<cfg, row, audit, setpoint>>

ApplyRequest(h, r, m) ==
  /\ Room(r)
  /\ status[r] = "approved"
  /\ cfg.requireSim => sim[r]
  /\ Begin(h, "apply", r, m)
  /\ UNCHANGED <<cfg, row, audit, setpoint>>

\* write_setpoints refuses: an unmapped plant even on a dry run, a live write
\* that is disabled, without an endpoint, or with nothing to write.
Refused(r, m) ==
  \/ PlantOf[r] \notin DOMAIN cfg.tags
  \/ m = "live" /\ ~(cfg.writeEnabled /\ cfg.endpoint /\ Planned(r) # {})

RefuseWrite(h) ==
  /\ req[h].op = "apply"
  /\ Refused(req[h].rec, req[h].arg)
  /\ req' = [req EXCEPT ![h].op = "refuse"]
  /\ UNCHANGED <<cfg, row, audit, setpoint>>

\* Faulty: the failure is put on the trail, the row stays approved.
RefusedStaysApproved(h) ==
  /\ req[h].op = "refuse"
  /\ Trail(req[h].rec, "apply_failed", req[h].arg)
  /\ Finish(h)
  /\ UNCHANGED <<cfg, row, setpoint>>

CommitRefused(h) ==
  LET q == req[h] IN
  /\ q.op = "refuse"
  /\ status' = Assigned(status, q.rec, q.seen.status, "failed")
  /\ Trail(q.rec, "apply_failed", q.arg)
  /\ Finish(h)
  /\ UNCHANGED <<cfg, sim, resolved, mode, realized, setpoint>>

\* A dry run returns the plan with no I/O.
DryRun(h) ==
  /\ req[h].op = "apply"
  /\ req[h].arg = "dry_run"
  /\ ~Refused(req[h].rec, "dry_run")
  /\ req' = [req EXCEPT ![h].op = "record"]
  /\ UNCHANGED <<cfg, row, audit, setpoint>>

Connect(h) ==
  /\ req[h].op = "apply"
  /\ req[h].arg = "live"
  /\ ~Refused(req[h].rec, "live")
  /\ req' = [req EXCEPT ![h].op = "write", ![h].todo = Planned(req[h].rec)]
  /\ UNCHANGED <<cfg, row, audit, setpoint>>

WriteNode(h) ==
  /\ req[h].op = "write"
  /\ \E f \in req[h].todo :
       /\ setpoint' = [setpoint EXCEPT ![<<PlantOf[req[h].rec], f>>] = req[h].rec]
       /\ req' = [req EXCEPT ![h].todo = @ \ {f}]
  /\ UNCHANGED <<cfg, row, audit>>

\* Faulty: the connection is closed, as if done, with nodes left to write.
DisconnectEarly(h) ==
  /\ req[h].op = "write"
  /\ req' = [req EXCEPT ![h].op = "record"]
  /\ UNCHANGED <<cfg, row, audit, setpoint>>

Disconnect(h) ==
  /\ req[h].op = "write"
  /\ req[h].todo = {}
  /\ req' = [req EXCEPT ![h].op = "record"]
  /\ UNCHANGED <<cfg, row, audit, setpoint>>

\* Faulty: a live apply is recorded as "write", the word of the demo memory path.
AppliedAsWrite(h) ==
  LET q == req[h] IN
  /\ q.op = "record"
  /\ status' = Assigned(status, q.rec, q.seen.status, "applied")
  /\ mode' = [mode EXCEPT ![q.rec] = IF q.arg = "live" THEN "write" ELSE q.arg]
  /\ resolved' = [resolved EXCEPT ![q.rec] = TRUE]
  /\ Trail(q.rec, "applied", q.arg)
  /\ Finish(h)
  /\ UNCHANGED <<cfg, sim, realized, setpoint>>

\* Faulty: the column gets the plan's dry_run flag, which is always set.
AppliedAsPlanned(h) ==
  LET q == req[h] IN
  /\ q.op = "record"
  /\ status' = Assigned(status, q.rec, q.seen.status, "applied")
  /\ mode' = [mode EXCEPT ![q.rec] = "dry_run"]
  /\ resolved' = [resolved EXCEPT ![q.rec] = TRUE]
  /\ Trail(q.rec, "applied", q.arg)
  /\ Finish(h)
  /\ UNCHANGED <<cfg, sim, realized, setpoint>>

CommitApplied(h) ==
  LET q == req[h] IN
  /\ q.op = "record"
  /\ status' = Assigned(status, q.rec, q.seen.status, "applied")
  /\ mode' = Assigned(mode, q.rec, q.seen.mode, q.arg)
  /\ resolved' = [resolved EXCEPT ![q.rec] = TRUE]
  /\ Trail(q.rec, "applied", q.arg)
  /\ Finish(h)
  /\ UNCHANGED <<cfg, sim, realized, setpoint>>

-----------------------------------------------------------------------------
(* Impact: sensor history since the window opened, else the estimate.      *)

MeasureImpact(h, r, source) ==
  /\ Room(r)
  /\ status[r] \in {"accepted", "approved", "applied"}
  /\ source = "estimate" => status[r] = "applied"
  /\ Begin(h, "impact", r, source)
  /\ UNCHANGED <<cfg, row, audit, setpoint>>

\* Two averages over the history may differ, two estimates of a row never do.
CommitImpact(h) ==
  LET q == req[h] IN
  /\ q.op = "impact"
  /\ \/ realized' = Assigned(realized, q.rec, q.seen.realized, q.arg)
     \/ q.arg = "history" /\ realized' = [realized EXCEPT ![q.rec] = q.arg]
  /\ Trail(q.rec, "impact", "none")
  /\ Finish(h)
  /\ UNCHANGED <<cfg, status, sim, resolved, mode, setpoint>>

\* A request dies before its commit: the client went away, the OPC server or the
\* database raised, the worker was killed.  What it wrote to the plant stays.
Abort(h) ==
  /\ req[h].op # "idle"
  /\ Finish(h)
  /\ UNCHANGED <<cfg, row, audit, setpoint>>

-----------------------------------------------------------------------------
Queue(h) ==
  \/ \E batch \in SUBSET Recs, simulated \in BOOLEAN : PersistRows(h, batch, simulated)
  \/ AuditCreated(h)

Decide(h) ==
  \/ \E r \in Recs, decision \in {"accepted", "rejected"} : SubmitFeedback(h, r, decision)
  \/ CommitFeedback(h)
  \/ \E r \in Recs : Approve(h, r)
  \/ CommitApprove(h)

Apply(h) ==
  \/ \E r \in Recs, m \in {"dry_run", "live"} : ApplyRequest(h, r, m)
  \/ RefuseWrite(h)
  \/ CommitRefused(h)
  \/ DryRun(h)
  \/ Connect(h)
  \/ WriteNode(h)
  \/ Disconnect(h)
  \/ CommitApplied(h)

Observe(h) ==
  \/ \E r \in Recs : Simulate(h, r)
  \/ CommitSimulate(h)
  \/ \E r \in Recs, source \in {"history", "estimate"} : MeasureImpact(h, r, source)
  \/ CommitImpact(h)

Next == \E h \in Handlers : Queue(h) \/ Decide(h) \/ Apply(h) \/ Observe(h) \/ Abort(h)

Spec == Init /\ [][Next]_vars

-----------------------------------------------------------------------------
(* What holds whatever the handlers interleave.                            *)

HasEvent(r, t) == \E i \in DOMAIN audit[r] : audit[r][i].type = t

\* The trail of r holds an event of type t and, later, one of type u.
HasInOrder(r, t, u) ==
  \E i, j \in DOMAIN audit[r] : i < j /\ audit[r][i].type = t /\ audit[r][j].type = u

\* Recommendations some OPC node holds a value of.
OnPlant == {setpoint[pf] : pf \in Plants \X Fields} \ {NoRec}

\* Nothing reaches the plant that an operator has not accepted and then approved,
\* both on record, however feedback, approve and apply requests race (FR-RTO-01).
WriteNeedsApproval == \A r \in OnPlant : HasInOrder(r, "accepted", "approved")

\* With OPT_REQUIRE_SIM_BEFORE_APPLY no unsimulated advice reaches the plant: the
\* gate reads the row at the start of apply, the writes come several awaits later.
WriteNeedsSim == cfg.requireSim => \A r \in OnPlant : sim[r]

\* A written node is one of the recommendation's own plant, allowlisted and tagged
\* writable, and live writes are enabled (RUNBOOK E9, Safety).
WriteAllowlisted ==
  \A p \in Plants, f \in Fields :
    LET r == setpoint[<<p, f>>] IN
    r # NoRec => /\ cfg.writeEnabled /\ cfg.endpoint
                 /\ PlantOf[r] = p
                 /\ f \in cfg.allowed
                 /\ p \in DOMAIN cfg.tags /\ f \in cfg.tags[p]

\* The apply_mode column is NULL until an "applied" event is on record, and then the
\* mode of one of them, even when a dry and a live apply of the row both commit.
ModeOnTrail ==
  \A r \in Recs :
    IF mode[r] = "none"
    THEN ~HasEvent(r, "applied")
    ELSE \E i \in DOMAIN audit[r] : audit[r][i] = [type |-> "applied", mode |-> mode[r]]

\* A live apply is on record only once every planned node has been overwritten.
LiveTrailMeansWritten ==
  \A r \in Recs :
    (\E i \in DOMAIN audit[r] : audit[r][i] = [type |-> "applied", mode |-> "live"])
      => /\ Planned(r) # {}
         /\ \A f \in Planned(r) : setpoint[<<PlantOf[r], f>>] # NoRec

\* The status a lifecycle event leaves the row in.
StatusAfter == [accepted |-> "accepted", rejected |-> "rejected", approved |-> "approved",
                applied |-> "applied", apply_failed |-> "failed"]

Moves(r) == {i \in DOMAIN audit[r] : audit[r][i].type \in DOMAIN StatusAfter}

\* The row tells what the trail tells, however its five writers race: its status is that of
\* an event after which nothing moved it (an acceptance of what its handler had read as
\* accepted is an event, and changes nothing), it stays pending while there is none, and
\* resolved_at is set once something applied or rejected it.
RowOnTrail ==
  \A r \in Recs :
    /\ IF Moves(r) = {}
       THEN status[r] \in {"absent", "pending"}
       ELSE \E i \in Moves(r) :
              /\ status[r] = StatusAfter[audit[r][i].type]
              /\ \A j \in Moves(r) : j > i => audit[r][j].type = "accepted"
    /\ resolved[r] <=> HasEvent(r, "applied") \/ HasEvent(r, "rejected")

Lifecycle == INSTANCE RecLifecycle WITH stage <- status

\* A commit of a request that read another status than the row has by now.
Overtaken ==
  \E h \in Handlers :
    /\ req[h].op \in {"feedback", "approve", "record", "refuse"} /\ req'[h] = IdleReq
    /\ req[h].seen.status # status[req[h].rec]

\* The status column follows RUNBOOK E9: pending, accepted, approved, applied (or rejected /
\* failed), and nothing leaves a final status, unless a request commits that was overtaken
\* by another between its read and its commit.  Nothing else takes a row off that path.
LifecycleUnlessOvertaken == [][Lifecycle!Next \/ Overtaken]_status

-----------------------------------------------------------------------------
(* Inductive strengthenings of the properties above.                       *)

\* "accepted" then "approved" are on record when the row says so, when a request
\* that needs it is in flight, and for whatever the plant holds.
ApprovalInv ==
  /\ \A r \in Recs : status[r] = "accepted" => HasEvent(r, "accepted")
  /\ \A r \in Recs : status[r] = "approved" => HasInOrder(r, "accepted", "approved")
  /\ \A h \in Handlers :
       /\ req[h].op = "approve" => HasEvent(req[h].rec, "accepted")
       /\ req[h].op \in {"apply", "write"} => HasInOrder(req[h].rec, "accepted", "approved")
  /\ WriteNeedsApproval

\* The gates an apply has passed stay passed while it is in flight.
Gated(h) ==
  LET q == req[h] IN
  /\ q.op \notin {"idle", "created"} => status[q.rec] # "absent"
  /\ q.op \in {"apply", "write"} /\ cfg.requireSim => sim[q.rec]
  /\ q.op = "write" => /\ cfg.writeEnabled /\ cfg.endpoint
                       /\ q.todo \subseteq Planned(q.rec)

GateInv ==
  /\ \A r \in Recs : status[r] = "absent" => ~sim[r]
  /\ \A h \in Handlers : Gated(h)
  /\ WriteNeedsSim
  /\ WriteAllowlisted

\* Planned nodes no longer on the to-do list of a live apply have been written.
EffectInv ==
  /\ \A h \in Handlers :
       req[h].op = "write" \/ (req[h].op = "record" /\ req[h].arg = "live") =>
         /\ Planned(req[h].rec) # {}
         /\ \A f \in Planned(req[h].rec) :
              \/ setpoint[<<PlantOf[req[h].rec], f>>] # NoRec
              \/ req[h].op = "write" /\ f \in req[h].todo
  /\ LiveTrailMeansWritten
=============================================================================
