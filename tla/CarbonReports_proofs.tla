------------------------ MODULE CarbonReports_proofs ------------------------
(***************************************************************************)
(* Theorems about CarbonReports, for any number of reports, plants and     *)
(* slots, any settings and clock, and whatever the bounds.  Nothing        *)
(* serialises the slots: everything holds whatever races.                  *)
(***************************************************************************)
EXTENDS CarbonReports, TLAPS

-----------------------------------------------------------------------------
(* Type correctness.                                                       *)

LEMMA IdleType == Idle \in Requests
BY ReportsAssumption
   DEF Idle, Requests, Generating, Syncing, Events, Statuses, Versions, Outcomes

\* What the fields of a request range over.
LEMMA RequestType ==
  ASSUME TypeOK, NEW h \in Slots
  PROVE  /\ req[h] \in Requests
         /\ req[h].op \in {"named", "aggregated", "upsert", "export"} \cup Events =>
              req[h].row \in Reports
         /\ req[h].todo \subseteq Series
         /\ req[h].completed \in BOOLEAN /\ req[h].usable \in BOOLEAN
         /\ req[h].fresh \in Versions
         /\ req[h].seen.status \in Statuses
         /\ req[h].seen.figures \in Versions
         /\ req[h].outcome \in Outcomes
         /\ req[h].op \in Syncing => req[h].batch \in DOMAIN batches
BY DEF TypeOK, Requests

LEMMA OpField == \A q \in Requests : "op" \in DOMAIN q
BY DEF Requests

\* Giving a slot a well-formed request keeps req typed.
LEMMA SlotType ==
  ASSUME TypeOK, NEW h \in Slots, NEW q \in Requests,
         req' = [req EXCEPT ![h] = q],
         DOMAIN batches \subseteq DOMAIN batches',
         q.op \in Syncing => q.batch \in DOMAIN batches'
  PROVE  /\ req' \in [Slots -> Requests]
         /\ \A g \in Slots : req'[g].op \in Syncing => req'[g].batch \in DOMAIN batches'
BY DEF TypeOK

\* A step that changes one slot only, and no sync, keeps the types.
LEMMA SlotOnlyType ==
  ASSUME TypeOK, NEW h \in Slots, NEW q \in Requests,
         req' = [req EXCEPT ![h] = q],
         q.op \notin Syncing,
         faults' \in 0 .. MaxFaults,
         UNCHANGED <<cfg, clock, data, table, export, batches>>
  PROVE  TypeOK'
BY SlotType DEF TypeOK, table

LEMMA InitType == Init => TypeOK
BY IdleType, ReportsAssumption DEF Init, TypeOK, Versions, Statuses, Idle, Syncing

LEMMA StartType ==
  ASSUME TypeOK, NEW h \in Slots, NEW wanted \in SUBSET Series, NEW completed \in BOOLEAN,
         StartGenerate(h, wanted, completed)
  PROVE  TypeOK'
<1>. DEFINE q == [req[h] EXCEPT !.op = "generate", !.todo = wanted, !.completed = completed]
<1>1. q \in Requests /\ q.op = "generate"
  <2>1. "generate" \in Generating
             /\ "generate" \notin {"named", "aggregated", "upsert", "export"} \cup Events
    BY DEF Generating, Events
  <2>. QED  BY <2>1, RequestType DEF Requests
<1>2. req' = [req EXCEPT ![h] = q]
  BY DEF StartGenerate
<1>. HIDE DEF q
<1>. QED  BY <1>1, <1>2, SlotOnlyType DEF StartGenerate, Syncing, TypeOK

\* Going on to the next report is typed, whatever is left to do.
LEMMA OnwardType ==
  ASSUME TypeOK, NEW h \in Slots, NEW usable \in BOOLEAN, Onward(h, usable),
         faults' \in 0 .. MaxFaults,
         UNCHANGED <<cfg, clock, data, table, export, batches>>
  PROVE  TypeOK'
<1>. DEFINE q == [Idle EXCEPT !.op = "generate", !.todo = req[h].todo,
                              !.completed = req[h].completed, !.usable = usable]
<1>1. q \in Requests /\ q.op = "generate"
  <2>1. req[h].todo \subseteq Series /\ req[h].completed \in BOOLEAN
    BY RequestType
  <2>2. "generate" \in Generating
             /\ "generate" \notin {"named", "aggregated", "upsert", "export"} \cup Events
    BY DEF Generating, Events
  <2>. QED  BY <2>1, <2>2, IdleType DEF Requests, Idle
<1>2. req' = [req EXCEPT ![h] = q]
  BY DEF Onward
<1>. HIDE DEF q
<1>. QED  BY <1>1, <1>2, SlotOnlyType DEF Syncing

\* What StartGenerate makes of its slot.
LEMMA StartSlot ==
  ASSUME TypeOK, NEW h \in Slots, NEW wanted, NEW completed, StartGenerate(h, wanted, completed)
  PROVE  req'[h].op = "generate"
<1>1. PICK q \in Requests : q = req[h]
  BY RequestType
<1>2. req' = [req EXCEPT ![h] = [q EXCEPT !.op = "generate", !.todo = wanted,
                                          !.completed = completed]]
  BY <1>1 DEF StartGenerate
<1>3. req'[h] = [q EXCEPT !.op = "generate", !.todo = wanted, !.completed = completed]
  BY <1>2 DEF TypeOK
<1>. QED  BY <1>3 DEF Requests

\* What Onward makes of the slots.
LEMMA OnwardSlot ==
  ASSUME TypeOK, NEW h \in Slots, NEW usable, Onward(h, usable)
  PROVE  /\ req'[h].op = "generate"
         /\ \A g \in Slots \ {h} : req'[g] = req[g]
BY DEF Onward, Idle, TypeOK

LEMMA GenerateType ==
  ASSUME TypeOK, NEW h \in Slots, Generate(h) \/ DbError(h)
  PROVE  TypeOK'
<1>0. /\ req[h] \in Requests /\ req[h].usable \in BOOLEAN /\ faults \in 0 .. MaxFaults
      /\ faults < MaxFaults => faults + 1 \in 0 .. MaxFaults
  BY RequestType, ReportsAssumption DEF TypeOK
<1>1. ASSUME NameReport(h) PROVE TypeOK'
  <2>1. PICK s \in req[h].todo :
          req' = [req EXCEPT ![h] =
            [req[h] EXCEPT !.op = "named", !.row = Window[clock][req[h].completed][s],
                           !.todo = req[h].todo \ {s}]]
    BY <1>1 DEF NameReport
  <2>2. PICK r \in Reports : r = Window[clock][req[h].completed][s]
    <3>1. clock \in 0 .. MaxTime /\ req[h].completed \in BOOLEAN /\ s \in Series
      BY RequestType DEF TypeOK
    <3>2. Window[clock] \in [BOOLEAN -> [Series -> Reports]]
      BY <3>1, ReportsAssumption
    <3>. QED  BY <3>1, <3>2
  <2>. DEFINE q == [req[h] EXCEPT !.op = "named", !.row = r, !.todo = req[h].todo \ {s}]
  <2>3. q \in Requests /\ q.op = "named"
    <3>1. "named" \in Generating
      BY DEF Generating
    <3>. QED  BY <1>0, <3>1, RequestType DEF Requests
  <2>4. req' = [req EXCEPT ![h] = q]
    BY <2>1, <2>2
  <2>. HIDE DEF q
  <2>. QED  BY <1>0, <1>1, <2>3, <2>4, SlotOnlyType DEF NameReport, Syncing
<1>2. ASSUME Aggregate(h) PROVE TypeOK'
  <2>1. PICK r \in Reports : r = req[h].row
    BY <1>2, RequestType DEF Aggregate
  <2>2. data[r] \in Versions
    BY DEF TypeOK
  <2>. DEFINE q == [req[h] EXCEPT !.op = "aggregated", !.fresh = data[r]]
  <2>3. q \in Requests /\ q.op = "aggregated"
    <3>1. "aggregated" \in Generating
      BY DEF Generating
    <3>. QED  BY <1>0, <2>1, <2>2, <3>1 DEF Requests
  <2>4. req' = [req EXCEPT ![h] = q]
    BY <1>2, <2>1 DEF Aggregate
  <2>. HIDE DEF q
  <2>. QED  BY <1>0, <1>2, <2>3, <2>4, SlotOnlyType DEF Aggregate, Syncing
<1>3. ASSUME LoadExisting(h) PROVE TypeOK'
  <2>1. PICK r \in Reports : r = req[h].row
    BY <1>3, RequestType DEF LoadExisting
  <2>2. Loaded(r) \in [status : Statuses, figures : Versions]
    BY DEF Loaded, TypeOK
  <2>. DEFINE q == [req[h] EXCEPT !.op = "upsert", !.seen = Loaded(r)]
  <2>3. q \in Requests /\ q.op = "upsert"
    <3>1. "upsert" \in Generating
      BY DEF Generating
    <3>. QED  BY <1>0, <2>1, <2>2, <3>1 DEF Requests
  <2>4. Onward(h, TRUE) \/ req' = [req EXCEPT ![h] = q]
    BY <1>3, <2>1 DEF LoadExisting
  <2>5. UNCHANGED <<cfg, clock, data, table, export, batches, faults>>
    BY <1>3 DEF LoadExisting
  <2>. HIDE DEF q
  <2>. QED  BY <1>0, <2>3, <2>4, <2>5, OnwardType, SlotOnlyType DEF Syncing
<1>4. ASSUME InsertReport(h) \/ UpdateReport(h) PROVE TypeOK'
  <2>1. req[h].row \in Reports
    BY <1>4, RequestType DEF InsertReport, UpdateReport
  <2>2. status' \in [Reports -> Statuses]
    BY <1>4 DEF InsertReport, UpdateReport, TypeOK, Statuses
  <2>3. figures' \in [Reports -> Versions]
    BY <1>4, RequestType DEF InsertReport, UpdateReport, Assigned, TypeOK
  <2>4. [req[h] EXCEPT !.op = "export"] \in Requests
    BY <2>1, RequestType DEF Requests, Generating, Events
  <2>5. /\ req' \in [Slots -> Requests]
        /\ \A g \in Slots : req'[g].op \in Syncing => req'[g].batch \in DOMAIN batches
    <3>1. PICK q \in Requests : q = [req[h] EXCEPT !.op = "export"]
      BY <2>4
    <3>2. q.op = "export" /\ req' = [req EXCEPT ![h] = q] /\ batches' = batches
      BY <1>0, <1>4, <3>1 DEF InsertReport, UpdateReport, Requests
    <3>. QED  BY <3>2, SlotType DEF Syncing
  <2>. QED  BY <1>4, <2>2, <2>3, <2>5 DEF InsertReport, UpdateReport, TypeOK
<1>5. ASSUME NothingToReport(h) \/ DuplicateReport(h) \/ DbError(h) PROVE TypeOK'
  <2>1. PICK usable \in BOOLEAN : Onward(h, usable)
    BY <1>0, <1>5 DEF NothingToReport, DuplicateReport, DbError
  <2>2. faults' \in 0 .. MaxFaults /\ UNCHANGED <<cfg, clock, data, table, export, batches>>
    BY <1>0, <1>5 DEF NothingToReport, DuplicateReport, DbError
  <2>. QED  BY <2>1, <2>2, OnwardType
<1>6. ASSUME WriteExports(h) PROVE TypeOK'
  <2>1. req[h].row \in Reports
    BY <1>6, RequestType DEF WriteExports
  <2>2. export' \in [Reports -> Versions \X Versions]
    BY <1>6, <2>1, RequestType DEF WriteExports, TypeOK
  <2>. DEFINE q == [Idle EXCEPT !.op = "generate", !.todo = req[h].todo,
                                !.completed = req[h].completed, !.usable = TRUE]
  <2>3. q \in Requests /\ q.op = "generate"
    <3>1. req[h].todo \subseteq Series /\ req[h].completed \in BOOLEAN
      BY RequestType
    <3>2. "generate" \in Generating
               /\ "generate" \notin {"named", "aggregated", "upsert", "export"} \cup Events
      BY DEF Generating, Events
    <3>. QED  BY <3>1, <3>2, IdleType DEF Requests, Idle
  <2>4. req' = [req EXCEPT ![h] = q] /\ batches' = batches
    BY <1>6 DEF WriteExports, Onward
  <2>. HIDE DEF q
  <2>5. /\ req' \in [Slots -> Requests]
        /\ \A g \in Slots : req'[g].op \in Syncing => req'[g].batch \in DOMAIN batches
    BY <2>3, <2>4, SlotType DEF Syncing
  <2>. QED  BY <1>6, <2>2, <2>5 DEF WriteExports, TypeOK, table
<1>7. ASSUME EndGenerate(h) PROVE TypeOK'
  BY <1>7, IdleType, SlotOnlyType DEF EndGenerate, Idle, Syncing, TypeOK
<1>. QED  BY <1>1, <1>2, <1>3, <1>4, <1>5, <1>6, <1>7 DEF Generate

LEMMA ReviewType ==
  ASSUME TypeOK, NEW h \in Slots,
         (\E r \in Reports, step \in Events : Review(h, r, step)) \/ CommitReview(h)
  PROVE  TypeOK'
<1>1. ASSUME NEW r \in Reports, NEW step \in Events, Review(h, r, step) PROVE TypeOK'
  <2>. DEFINE q == [Idle EXCEPT !.op = step, !.row = r, !.seen = Loaded(r)]
  <2>1. Loaded(r) \in [status : Statuses, figures : Versions]
    BY DEF Loaded, TypeOK
  <2>2. q \in Requests /\ q.op = step
    BY <2>1, IdleType DEF Requests, Idle
  <2>3. req' = [req EXCEPT ![h] = q]
    BY <1>1 DEF Review
  <2>4. step \notin Syncing
    BY DEF Events, Syncing
  <2>. HIDE DEF q
  <2>. QED  BY <1>1, <2>2, <2>3, <2>4, SlotOnlyType DEF Review, TypeOK
<1>2. ASSUME CommitReview(h) PROVE TypeOK'
  <2>1. PICK r \in Reports : r = req[h].row
    BY <1>2, RequestType DEF CommitReview
  <2>2. PICK e \in Events : e = req[h].op
    BY <1>2 DEF CommitReview
  <2>3. status' \in [Reports -> Statuses]
    BY <1>2, <2>1, <2>2 DEF CommitReview, Assigned, To, Events, Statuses, TypeOK
  <2>4. trail' = [trail EXCEPT ![r] = Append(trail[r], e)]
    BY <1>2, <2>1, <2>2 DEF CommitReview
  <2>5. Append(trail[r], e) \in Seq(Events)
    BY DEF TypeOK
  <2>6. trail' \in [Reports -> Seq(Events)]
    BY <2>4, <2>5 DEF TypeOK
  <2>7. /\ req' \in [Slots -> Requests]
        /\ \A g \in Slots : req'[g].op \in Syncing => req'[g].batch \in DOMAIN batches
    BY <1>2, IdleType, SlotType DEF CommitReview, Idle, Syncing
  <2>. QED  BY <1>2, <2>3, <2>6, <2>7 DEF CommitReview, TypeOK
<1>. QED  BY <1>1, <1>2

\* What a sync stages is a set of reports with figures.
LEMMA PayloadType ==
  ASSUME TypeOK, NEW wanted \in SUBSET Reports, NEW lockedOnly \in BOOLEAN
  PROVE  Payload(wanted, lockedOnly) \in Payloads
BY DEF Payload, Payloads, TypeOK

\* The request a sync leaves queued.
LEMMA QueuedSyncType ==
  ASSUME NEW op \in Syncing, NEW b \in 0 .. MaxSyncs, NEW outcome \in Outcomes
  PROVE  [Idle EXCEPT !.op = op, !.batch = b, !.outcome = outcome] \in Requests
<1>1. op \notin {"named", "aggregated", "upsert", "export"} \cup Events
  BY DEF Syncing, Events
<1>. QED  BY <1>1, IdleType DEF Requests

LEMMA SyncType ==
  ASSUME TypeOK, NEW h \in Slots, NEW wanted \in SUBSET Reports, NEW forced \in BOOLEAN,
         Sync(h, wanted, forced)
  PROVE  TypeOK'
<1>. DEFINE lockedOnly == cfg.requireLocked /\ ~forced
            payload == Payload(wanted, lockedOnly)
            batch == [lockedOnly |-> lockedOnly, staged |-> payload, received |-> {},
                      log |-> "none"]
            op == IF cfg.url /\ payload # {} THEN "post" ELSE "record"
            outcome == IF payload = {} /\ lockedOnly THEN "empty" ELSE "staged"
            q == [Idle EXCEPT !.op = op, !.batch = Len(batches) + 1, !.outcome = outcome]
<1>1. cfg.requireLocked \in BOOLEAN
  BY ReportsAssumption DEF TypeOK
<1>2. payload \in Payloads
  BY <1>1, PayloadType
<1>3. batch \in Batches
  BY <1>1, <1>2 DEF Batches, Payloads, Outcomes
<1>4. /\ batches' = Append(batches, batch)
      /\ Len(batches) < MaxSyncs
      /\ req' = [req EXCEPT ![h] = q]
  BY DEF Sync
<1>5. batches \in Seq(Batches) /\ Len(batches) \in Nat
  BY DEF TypeOK
<1>6. batches' \in Seq(Batches) /\ DOMAIN batches' = 1 .. Len(batches) + 1
  <2>. HIDE DEF batch
  <2>. QED  BY <1>3, <1>4, <1>5
<1>7. q.batch = Len(batches) + 1 /\ q.batch \in 0 .. MaxSyncs
  BY <1>4, <1>5, ReportsAssumption DEF Idle
<1>8. q \in Requests
  <2>1. op \in Syncing /\ outcome \in Outcomes /\ Len(batches) + 1 \in 0 .. MaxSyncs
    BY <1>4, <1>5, ReportsAssumption DEF Syncing, Outcomes
  <2>. HIDE DEF op, outcome
  <2>. QED  BY <2>1, QueuedSyncType
<1>9. q.batch \in DOMAIN batches' /\ DOMAIN batches \subseteq DOMAIN batches'
  BY <1>5, <1>6, <1>7
<1>10. /\ req' \in [Slots -> Requests]
       /\ \A g \in Slots : req'[g].op \in Syncing => req'[g].batch \in DOMAIN batches'
  <2>. HIDE DEF q
  <2>. QED  BY <1>4, <1>8, <1>9, SlotType
<1>. QED  BY <1>6, <1>10 DEF Sync, TypeOK, table

LEMMA PostType ==
  ASSUME TypeOK, NEW h \in Slots, Post(h) \/ RecordSync(h)
  PROVE  TypeOK'
<1>1. PICK b \in DOMAIN batches : b = req[h].batch
  BY RequestType DEF Post, RecordSync, Syncing
<1>2. batches \in Seq(Batches) /\ batches[b] \in Batches
  BY DEF TypeOK
<1>3. ASSUME NEW new \in Batches, batches' = [batches EXCEPT ![b] = new]
      PROVE  batches' \in Seq(Batches) /\ DOMAIN batches' = DOMAIN batches
  BY <1>2, <1>3
<1>4. ASSUME Post(h) PROVE TypeOK'
  <2>1. PICK delivered \in BOOLEAN, outcome \in {"synced", "error"} :
          /\ batches' = [batches EXCEPT ![b] =
               [batches[b] EXCEPT !.received =
                  IF delivered THEN batches[b].staged ELSE batches[b].received]]
          /\ req' = [req EXCEPT ![h] = [req[h] EXCEPT !.op = "record", !.outcome = outcome]]
    BY ZenonT(60), <1>1, <1>4 DEF Post
  <2>2. [batches[b] EXCEPT !.received =
           IF delivered THEN batches[b].staged ELSE batches[b].received] \in Batches
    BY <1>2 DEF Batches
  <2>3. batches' \in Seq(Batches) /\ DOMAIN batches' = DOMAIN batches
    BY <1>3, <2>1, <2>2
  <2>. DEFINE q == [req[h] EXCEPT !.op = "record", !.outcome = outcome]
  <2>4. q \in Requests /\ q.batch = b
    <3>1. "record" \in Syncing /\ outcome \in Outcomes
      BY DEF Syncing, Outcomes
    <3>2. "record" \notin {"named", "aggregated", "upsert", "export"} \cup Events
      BY DEF Events
    <3>. QED  BY <1>1, <3>1, <3>2, RequestType DEF Requests
  <2>5. /\ req' \in [Slots -> Requests]
        /\ \A g \in Slots : req'[g].op \in Syncing => req'[g].batch \in DOMAIN batches'
    <3>1. req' = [req EXCEPT ![h] = q]
      BY <2>1
    <3>. HIDE DEF q
    <3>. QED  BY <2>3, <2>4, <3>1, SlotType
  <2>. QED  BY <1>4, <2>3, <2>5 DEF Post, TypeOK, table
<1>5. ASSUME RecordSync(h) PROVE TypeOK'
  <2>1. batches' = [batches EXCEPT ![b] = [batches[b] EXCEPT !.log = req[h].outcome]]
    BY <1>1, <1>5 DEF RecordSync
  <2>2. [batches[b] EXCEPT !.log = req[h].outcome] \in Batches
    BY <1>2, RequestType DEF Batches
  <2>3. batches' \in Seq(Batches) /\ DOMAIN batches' = DOMAIN batches
    BY <1>3, <2>1, <2>2
  <2>4. /\ req' \in [Slots -> Requests]
        /\ \A g \in Slots : req'[g].op \in Syncing => req'[g].batch \in DOMAIN batches'
    BY <1>5, <2>3, IdleType, SlotType DEF RecordSync, Idle, Syncing
  <2>. QED  BY <1>5, <2>3, <2>4 DEF RecordSync, TypeOK, table
<1>. QED  BY <1>4, <1>5

LEMMA NextType == TypeOK /\ [Next]_vars => TypeOK'
<1>. SUFFICES ASSUME TypeOK, [Next]_vars PROVE TypeOK'
  OBVIOUS
<1>1. ASSUME NEW r \in Reports, NewSamples(r) PROVE TypeOK'
  <2>1. data[r] \in Versions /\ MaxData[r] \in Nat /\ \A s \in Reports : MaxData[s] \in Nat
    BY ReportsAssumption DEF TypeOK
  <2>2. data[r] \in Nat
    BY <2>1 DEF Versions
  <2>3. data[r] + 1 \in 0 .. MaxData[r]
    BY <1>1, <2>1, <2>2 DEF NewSamples
  <2>4. data[r] + 1 \in Versions
    BY <2>3 DEF Versions
  <2>. QED  BY <1>1, <2>4 DEF NewSamples, TypeOK, table
<1>2. CASE Cycle
  <2>1. Scheduler \in Slots /\ cfg.completedOnly \in BOOLEAN
    BY ReportsAssumption DEF TypeOK
  <2>. QED  BY <1>2, <2>1, StartType, GenerateType DEF Cycle
<1>3. ASSUME NEW h \in Slots \ {Scheduler}, Request(h) PROVE TypeOK'
  <2>1. \A p \in Plants : OfPlant(p) \subseteq Reports
    BY DEF OfPlant
  <2>. QED  BY <1>3, <2>1, StartType, GenerateType, ReviewType, SyncType, PostType DEF Request,
         SubmitAssurance, ApproveAssurance, LockAssurance, MarketSync, Events
<1>4. ASSUME NEW h \in Slots, DbError(h) \/ Abort(h) PROVE TypeOK'
  <2>1. CASE Abort(h)
    <3>1. faults' \in 0 .. MaxFaults
      BY <2>1, ReportsAssumption DEF Abort, TypeOK
    <3>. QED  BY <2>1, <3>1, IdleType, SlotOnlyType DEF Abort, Idle, Syncing
  <2>. QED  BY <1>4, <2>1, GenerateType
<1>5. CASE UNCHANGED vars
  BY <1>5 DEF vars, TypeOK, table
<1>6. CASE RollOver
  <2>1. clock + 1 \in 0 .. MaxTime
    BY <1>6, ReportsAssumption DEF RollOver, TypeOK
  <2>. QED  BY <1>6, <2>1 DEF RollOver, TypeOK, table
<1>. QED  BY <1>1, <1>2, <1>3, <1>4, <1>5, <1>6 DEF Next

\* Reports, trails, batches and requests keep their types, and a sync in flight always
\* owns an entry of the sync history.
THEOREM TypeCorrect == Spec => []TypeOK
<1>. QED  BY InitType, NextType, PTL DEF Spec

-----------------------------------------------------------------------------
(* What a step does to slots and trails.                                   *)

\* Slot h takes a step of a generation, or fails.
Generates(h) ==
  \/ Generate(h) \/ DbError(h) \/ Abort(h)
  \/ \E wanted \in SUBSET Series, completed \in BOOLEAN : StartGenerate(h, wanted, completed)

\* Slot h takes a step of a review.
Reviews(h) == CommitReview(h) \/ \E r \in Reports, step \in Events : Review(h, r, step)

\* Slot h takes a step of a sync.
Syncs(h) ==
  \/ Post(h) \/ RecordSync(h)
  \/ \E wanted \in SUBSET Reports, forced \in BOOLEAN : Sync(h, wanted, forced)

Acts(h) == Generates(h) \/ Reviews(h) \/ Syncs(h)

\* No slot does anything.
Around == (UNCHANGED vars) \/ RollOver \/ \E r \in Reports : NewSamples(r)

LEMMA NextActs ==
  ASSUME TypeOK, [Next]_vars
  PROVE  Around \/ \E h \in Slots : Acts(h)
<1>1. Scheduler \in Slots /\ cfg.completedOnly \in BOOLEAN
  BY ReportsAssumption DEF TypeOK
<1>2. \A p \in Plants : OfPlant(p) \in SUBSET Reports
  BY DEF OfPlant
<1>3. CASE Cycle
  BY <1>1, <1>3 DEF Cycle, Acts, Generates
<1>4. ASSUME NEW h \in Slots, Request(h) PROVE Acts(h)
  BY <1>2, <1>4 DEF Request, SubmitAssurance, ApproveAssurance, LockAssurance, MarketSync,
                    Acts, Generates, Reviews, Syncs, Events
<1>5. ASSUME NEW h \in Slots, DbError(h) \/ Abort(h) PROVE Acts(h)
  BY <1>5 DEF Acts, Generates
<1>. QED  BY <1>3, <1>4, <1>5 DEF Next, Around

\* A step of slot h leaves the other slots alone.
LEMMA OneSlot ==
  ASSUME NEW h \in Slots, TypeOK, Acts(h)
  PROVE  \A g \in Slots \ {h} : req'[g] = req[g]
BY DEF TypeOK, Acts, Generates, Reviews, Syncs, Generate, DbError, Abort, CommitReview, Post,
       RecordSync, StartGenerate, Sync, Review, NameReport, NothingToReport, Aggregate,
       LoadExisting, InsertReport, DuplicateReport, UpdateReport, WriteExports, EndGenerate,
       Onward

\* Generation steps, errors and aborts leave a slot generating or idle, and touch neither
\* trails nor batches.
LEMMA GenerateStep ==
  ASSUME TypeOK, NEW h \in Slots, Generates(h)
  PROVE  /\ trail' = trail /\ batches' = batches /\ (status' = status \/ InsertReport(h))
         /\ req'[h].op \in Generating \cup {"idle"}
<1>1. trail' = trail /\ batches' = batches /\ (status' = status \/ InsertReport(h))
  BY DEF Generates, Generate, DbError, Abort, StartGenerate, NameReport, NothingToReport,
       Aggregate, LoadExisting, InsertReport, DuplicateReport, UpdateReport, WriteExports,
       EndGenerate, table
<1>2. req[h] \in Requests /\ req \in [Slots -> Requests]
  BY RequestType DEF TypeOK
<1>3. req'[h].op \in Generating \cup {"idle"}
  <2>1. ASSUME NEW usable, Onward(h, usable) PROVE req'[h].op \in Generating
    BY <2>1, OnwardSlot DEF Generating
  <2>2. CASE NothingToReport(h) \/ DuplicateReport(h) \/ WriteExports(h) \/ DbError(h)
    BY <2>1, <2>2 DEF NothingToReport, DuplicateReport, WriteExports, DbError
  <2>3. CASE NameReport(h)
    <3>1. PICK s \in req[h].todo :
            req' = [req EXCEPT ![h] =
              [req[h] EXCEPT !.op = "named", !.row = Window[clock][req[h].completed][s],
                             !.todo = req[h].todo \ {s}]]
      BY <2>3 DEF NameReport
    <3>2. req'[h].op = "named"
      BY <1>2, <3>1, OpField
    <3>. QED  BY <3>2 DEF Generating
  <2>8. CASE Aggregate(h)
    <3>1. req' = [req EXCEPT ![h] = [req[h] EXCEPT !.op = "aggregated",
                                                   !.fresh = data[req[h].row]]]
      BY <2>8 DEF Aggregate
    <3>2. req'[h].op = "aggregated"
      BY <1>2, <3>1, OpField
    <3>. QED  BY <3>2 DEF Generating
  <2>4. CASE LoadExisting(h)
    <3>1. PICK q, seen : q = req[h] /\ seen = Loaded(req[h].row)
      BY <1>2
    <3>2. \/ Onward(h, TRUE)
          \/ req' = [req EXCEPT ![h] = [q EXCEPT !.op = "upsert", !.seen = seen]]
      BY <2>4, <3>1 DEF LoadExisting
    <3>3. Onward(h, TRUE) \/ req'[h].op = "upsert"
      BY <1>2, <3>1, <3>2, OpField
    <3>. QED  BY <2>1, <3>3 DEF Generating
  <2>5. CASE InsertReport(h) \/ UpdateReport(h)
    BY <1>2, <2>5 DEF InsertReport, UpdateReport, Generating, Requests
  <2>6. CASE EndGenerate(h) \/ Abort(h)
    BY <1>2, <2>6 DEF EndGenerate, Abort, Idle
  <2>7. CASE \E wanted \in SUBSET Series, completed \in BOOLEAN :
               StartGenerate(h, wanted, completed)
    BY <2>7, StartSlot DEF Generating
  <2>. QED  BY <2>2, <2>3, <2>4, <2>5, <2>6, <2>7, <2>8 DEF Generates, Generate
<1>. QED  BY <1>1, <1>3

\* A review step changes neither figures nor batches, and ends where it says.
LEMMA ReviewSlot ==
  ASSUME TypeOK, NEW h \in Slots
  PROVE  /\ CommitReview(h) => req'[h].op = "idle"
         /\ \A r \in Reports, step \in Events :
              Review(h, r, step) => /\ req'[h].op = step /\ req'[h].row = r
                                    /\ req'[h].seen = Loaded(r)
<1>1. req \in [Slots -> Requests]
  BY DEF TypeOK
<1>2. CommitReview(h) => req'[h].op = "idle"
  BY <1>1 DEF CommitReview, Idle
<1>3. ASSUME NEW r \in Reports, NEW step \in Events, Review(h, r, step)
      PROVE  req'[h].op = step /\ req'[h].row = r /\ req'[h].seen = Loaded(r)
  <2>1. PICK seen : seen = Loaded(r)
    OBVIOUS
  <2>2. req' = [req EXCEPT ![h] = [Idle EXCEPT !.op = step, !.row = r, !.seen = seen]]
    BY <1>3, <2>1 DEF Review
  <2>. QED  BY <1>1, <2>1, <2>2 DEF Idle
<1>. QED  BY <1>2, <1>3

\* A step of a sync touches no report, and leaves its slot with a sync or idle.
LEMMA SyncSlot ==
  ASSUME TypeOK, NEW h \in Slots, Syncs(h)
  PROVE  /\ UNCHANGED <<trail, status, figures, export, faults>>
         /\ req'[h].op \in {"post", "record", "idle"}
<1>1. req[h] \in Requests /\ req \in [Slots -> Requests]
  BY RequestType DEF TypeOK
<1>2. CASE Post(h)
  BY <1>1, <1>2 DEF Post, Requests, table
<1>3. CASE RecordSync(h)
  BY <1>1, <1>3 DEF RecordSync, Idle, table
<1>4. ASSUME NEW wanted, NEW forced, Sync(h, wanted, forced)
      PROVE  /\ UNCHANGED <<trail, status, figures, export, faults>>
             /\ req'[h].op \in {"post", "record"}
  BY <1>1, <1>4 DEF Sync, Idle, table
<1>. QED  BY <1>2, <1>3, <1>4 DEF Syncs

\* What a trail has shown it shows for good.
TrailKept ==
  \A r \in Reports : /\ Submitted(r) => Submitted(r)'
                     /\ Approved(r) => Approved(r)'
                     /\ Reviewed(r) => Reviewed(r)'

LEMMA SameTrail == ASSUME trail' = trail PROVE TrailKept
BY DEF TrailKept, Submitted, Approved, Reviewed

\* An appended review step is there, after every earlier one.
LEMMA StepAppended ==
  ASSUME TypeOK, NEW r \in Reports, NEW e \in Events,
         trail' = [trail EXCEPT ![r] = Append(trail[r], e)]
  PROVE  /\ TrailKept
         /\ e = "submitted" => Submitted(r)'
         /\ e = "approved" /\ Submitted(r) => Approved(r)'
         /\ e = "locked" /\ Approved(r) => Reviewed(r)'
<1>. DEFINE n == Len(trail[r])
<1>1. trail[r] \in Seq(Events)
  BY DEF TypeOK
<1>2. trail'[r] = Append(trail[r], e) /\ \A s \in Reports \ {r} : trail'[s] = trail[s]
  BY DEF TypeOK
<1>3. /\ n \in Nat /\ DOMAIN trail[r] = 1 .. n /\ DOMAIN trail'[r] = 1 .. n + 1
      /\ trail'[r][n + 1] = e
      /\ \A i \in 1 .. n : trail'[r][i] = trail[r][i]
  BY <1>1, <1>2
<1>. HIDE DEF n
<1>4. TrailKept
  <2>1. ASSUME NEW s \in Reports
        PROVE  \A i \in DOMAIN trail[s] : i \in DOMAIN trail'[s] /\ trail'[s][i] = trail[s][i]
    BY <1>2, <1>3
  <2>. QED  BY <2>1 DEF TrailKept, Submitted, Approved, Reviewed
<1>5. e = "submitted" => Submitted(r)'
  BY <1>3 DEF Submitted
<1>6. ASSUME e = "approved", Submitted(r) PROVE Approved(r)'
  <2>1. PICK i \in 1 .. n : trail[r][i] = "submitted"
    BY <1>3, <1>6 DEF Submitted
  <2>2. i < n + 1 /\ i \in 1 .. n + 1 /\ n + 1 \in 1 .. n + 1
    BY <1>3
  <2>. QED  BY <1>3, <1>6, <2>1, <2>2 DEF Approved
<1>7. ASSUME e = "locked", Approved(r) PROVE Reviewed(r)'
  <2>1. PICK i \in 1 .. n, j \in 1 .. n :
          i < j /\ trail[r][i] = "submitted" /\ trail[r][j] = "approved"
    BY <1>3, <1>7 DEF Approved
  <2>2. j < n + 1 /\ i \in 1 .. n + 1 /\ j \in 1 .. n + 1 /\ n + 1 \in 1 .. n + 1
    BY <1>3
  <2>. QED  BY <1>3, <1>7, <2>1, <2>2 DEF Reviewed
<1>. QED  BY <1>4, <1>5, <1>6, <1>7


-----------------------------------------------------------------------------
(* Reviews.                                                                *)

\* A step keeps ReviewInv if trails grow, and every status it assigns and every review it
\* begins rest on the trail.
LEMMA ReviewStep ==
  ASSUME TypeOK, ReviewInv, NEW h \in Slots,
         \A g \in Slots \ {h} : req'[g] = req[g],
         TrailKept,
         \A r \in Reports : \/ status'[r] = status[r]
                            \/ status'[r] \in {"absent", "draft"}
                            \/ status'[r] = "in_review" /\ Submitted(r)'
                            \/ status'[r] = "approved" /\ Approved(r)'
                            \/ status'[r] = "locked" /\ Reviewed(r)',
         (req[h].op = "approved" => Submitted(req[h].row))',
         (req[h].op = "locked" => Approved(req[h].row))'
  PROVE  ReviewInv'
<1>1. \A r \in Reports : /\ (status[r] = "in_review" => Submitted(r))'
                         /\ (status[r] = "approved" => Approved(r))'
                         /\ (status[r] = "locked" => Reviewed(r))'
  BY DEF ReviewInv, TrailKept, LockedWasReviewed
<1>2. ASSUME NEW g \in Slots
      PROVE  /\ (req[g].op = "approved" => Submitted(req[g].row))'
             /\ (req[g].op = "locked" => Approved(req[g].row))'
  <2>1. CASE g # h
    <3>1. req'[g] = req[g]
      BY <2>1
    <3>2. req[g].op \in {"approved", "locked"} => req[g].row \in Reports
      BY RequestType DEF Events
    <3>3. \A r \in Reports : (Submitted(r) => Submitted(r)') /\ (Approved(r) => Approved(r)')
      BY DEF TrailKept
    <3>4. ASSUME req'[g].op \in {"approved", "locked"}
          PROVE  \E r \in Reports : r = req[g].row
      BY <3>1, <3>2, <3>4
    <3>. QED  BY <3>1, <3>2, <3>3 DEF ReviewInv, Submitted, Approved
  <2>. QED  BY <2>1
<1>. QED  BY <1>1, <1>2 DEF ReviewInv, LockedWasReviewed

\* Steps that touch neither a status, but for an insert, nor a trail.
LEMMA ReviewIdleStep ==
  ASSUME TypeOK, ReviewInv, NEW h \in Slots,
         \A g \in Slots \ {h} : req'[g] = req[g],
         trail' = trail, status' = status \/ InsertReport(h),
         req'[h].op \notin Events
  PROVE  ReviewInv'
<1>1. TrailKept
  BY SameTrail
<1>2. \A r \in Reports : status'[r] = status[r] \/ status'[r] = "draft"
  BY DEF InsertReport, TypeOK
<1>. QED  BY <1>1, <1>2, ReviewStep DEF Events

LEMMA ReviewReview ==
  ASSUME TypeOK, ReviewInv, NEW h \in Slots, Reviews(h)
  PROVE  ReviewInv'
<1>1. \A g \in Slots \ {h} : req'[g] = req[g]
  BY OneSlot DEF Acts
<1>2. ASSUME NEW r \in Reports, NEW step \in Events, Review(h, r, step) PROVE ReviewInv'
  <2>1. /\ req'[h].op = step /\ req'[h].row = r
        /\ trail' = trail /\ status' = status /\ batches' = batches
    BY <1>2 DEF Review, Idle, TypeOK, table
  <2>2. /\ step = "approved" => Submitted(r)
        /\ step = "locked" => Approved(r)
    <3>1. /\ step = "approved" => From[step] = {"in_review"}
          /\ step = "locked" => From[step] = {"approved"}
      BY DEF From
    <3>. QED  BY <1>2, <3>1 DEF Review, ReviewInv
  <2>3. TrailKept
    BY <2>1, SameTrail
  <2>4. /\ (req[h].op = "approved" => Submitted(req[h].row))'
        /\ (req[h].op = "locked" => Approved(req[h].row))'
    BY <2>1, <2>2 DEF Submitted, Approved
  <2>. QED  BY <1>1, <2>1, <2>3, <2>4, ReviewStep
<1>3. ASSUME CommitReview(h) PROVE ReviewInv'
  <2>1. PICK r \in Reports : r = req[h].row
    BY <1>3, RequestType DEF CommitReview
  <2>2. PICK e \in Events : e = req[h].op
    BY <1>3 DEF CommitReview
  <2>3. trail' = [trail EXCEPT ![r] = Append(trail[r], e)] /\ batches' = batches
    BY <1>3, <2>1, <2>2 DEF CommitReview
  <2>4. TrailKept
    BY <2>3, StepAppended
  <2>5. \/ e = "submitted" /\ Submitted(r)'
        \/ e = "approved" /\ Approved(r)'
        \/ e = "locked" /\ Reviewed(r)'
    BY <2>1, <2>2, <2>3, StepAppended DEF Events, ReviewInv
  <2>6. status' = status \/ status' = [status EXCEPT ![r] = To[e]]
    BY <1>3, <2>1, <2>2 DEF CommitReview, Assigned
  <2>7. \A s \in Reports : \/ status'[s] = status[s]
                           \/ status'[s] = "in_review" /\ Submitted(s)'
                           \/ status'[s] = "approved" /\ Approved(s)'
                           \/ status'[s] = "locked" /\ Reviewed(s)'
    BY <2>5, <2>6 DEF TypeOK, To
  <2>8. req'[h].op = "idle"
    BY <1>3 DEF CommitReview, Idle, TypeOK
  <2>. QED  BY <1>1, <2>4, <2>7, <2>8, ReviewStep
<1>. QED  BY <1>2, <1>3 DEF Reviews
LEMMA ReviewInit == Init => ReviewInv
BY DEF Init, Idle, ReviewInv, LockedWasReviewed

LEMMA ReviewNext == TypeOK /\ ReviewInv /\ [Next]_vars => ReviewInv'
<1>. SUFFICES ASSUME TypeOK, ReviewInv, [Next]_vars PROVE ReviewInv'
  OBVIOUS
<1>1. CASE Around
  <2>1. status' = status /\ trail' = trail /\ req' = req
    BY <1>1 DEF Around, vars, table, NewSamples, RollOver
  <2>. QED  BY <2>1 DEF ReviewInv, LockedWasReviewed, Submitted, Approved, Reviewed
<1>2. ASSUME NEW h \in Slots, Acts(h) PROVE ReviewInv'
  <2>1. \A g \in Slots \ {h} : req'[g] = req[g]
    BY <1>2, OneSlot
  <2>2. CASE Generates(h)
    BY <2>1, <2>2, GenerateStep, ReviewIdleStep DEF Generating, Events
  <2>3. CASE Syncs(h)
    BY <2>1, <2>3, SyncSlot, ReviewIdleStep DEF Events
  <2>. QED  BY <1>2, <2>2, <2>3, ReviewReview DEF Acts
<1>. QED  BY <1>1, <1>2, NextActs

LEMMA ReviewTrue == Spec => []ReviewInv
BY TypeCorrect, ReviewInit, ReviewNext, PTL DEF Spec

\* Whatever races, a locked report was submitted, approved and locked on record.
THEOREM ReviewsHold == Spec => []LockedWasReviewed
<1>1. ReviewInv => LockedWasReviewed
  BY DEF ReviewInv
<1>. QED  BY <1>1, ReviewTrue, PTL


-----------------------------------------------------------------------------
(* Submissions.                                                            *)

\* A step that changes no batch and leaves its slot with no sync in hand.
LEMMA SyncIdleStep ==
  ASSUME TypeOK, SyncInv, NEW h \in Slots,
         \A g \in Slots \ {h} : req'[g] = req[g],
         batches' = batches, req'[h].op \notin Syncing
  PROVE  SyncInv'
BY DEF SyncInv, SubmissionsTraceable, SyncOf

\* A step of a sync on its own batch b, which no other slot holds: the others keep theirs.
LEMMA SyncOwnStep ==
  ASSUME TypeOK, SyncInv, NEW h \in Slots, NEW b \in DOMAIN batches',
         \A g \in Slots \ {h} : req'[g] = req[g],
         DOMAIN batches \subseteq DOMAIN batches',
         \A c \in DOMAIN batches' : c # b => c \in DOMAIN batches /\ batches'[c] = batches[c],
         \A g \in Slots \ {h} : req[g].op \in Syncing => req[g].batch # b,
         /\ batches'[b].received \in {{}, batches'[b].staged}
         /\ batches'[b].log = "synced" => batches'[b].received # {}
         /\ batches'[b].log \in {"empty", "staged"} => batches'[b].received = {},
         req'[h].op \in Syncing => req'[h].batch = b,
         SyncOf(h)'
  PROVE  SyncInv'
<1>1. SubmissionsTraceable'
  <2>. SUFFICES ASSUME NEW c \in DOMAIN batches'
                PROVE  /\ batches'[c].received \in {{}, batches'[c].staged}
                       /\ batches'[c].log = "synced" => batches'[c].received # {}
                       /\ batches'[c].log \in {"empty", "staged"} => batches'[c].received = {}
    BY DEF SubmissionsTraceable
  <2>. QED  BY DEF SyncInv, SubmissionsTraceable
<1>2. ASSUME NEW g \in Slots \ {h} PROVE SyncOf(g)'
  <2>. SUFFICES ASSUME req[g].op \in Syncing PROVE SyncOf(g)'
    BY DEF SyncOf
  <2>1. req'[g] = req[g] /\ req[g].batch # b /\ req[g].batch \in DOMAIN batches
    BY RequestType
  <2>2. batches'[req[g].batch] = batches[req[g].batch]
    BY <2>1
  <2>3. \A f \in Slots \ {g} : req'[f].op \in Syncing => req'[f].batch # req[g].batch
    BY <2>1 DEF SyncInv, SyncOf
  <2>. QED  BY <2>1, <2>2, <2>3 DEF SyncInv, SyncOf
<1>. QED  BY <1>1, <1>2 DEF SyncInv

LEMMA SyncSync ==
  ASSUME TypeOK, SyncInv, NEW h \in Slots, NEW wanted \in SUBSET Reports,
         NEW forced \in BOOLEAN, Sync(h, wanted, forced)
  PROVE  SyncInv'
<1>. DEFINE lockedOnly == cfg.requireLocked /\ ~forced
            payload == Payload(wanted, lockedOnly)
            batch == [lockedOnly |-> lockedOnly, staged |-> payload, received |-> {},
                      log |-> "none"]
            b == Len(batches) + 1
<1>1. batches \in Seq(Batches) /\ req \in [Slots -> Requests]
  BY DEF TypeOK
<1>2. batches' = Append(batches, batch)
  BY DEF Sync
<1>3. /\ DOMAIN batches \subseteq DOMAIN batches' /\ b \in DOMAIN batches'
      /\ batches'[b] = batch
      /\ \A c \in DOMAIN batches' : c # b => c \in DOMAIN batches /\ batches'[c] = batches[c]
  BY <1>1, <1>2
<1>4. \A g \in Slots \ {h} : req'[g] = req[g]
  BY OneSlot DEF Acts, Syncs
<1>5. \A g \in Slots \ {h} : req[g].op \in Syncing => req[g].batch # b
  BY <1>1, RequestType
<1>6. /\ req'[h].op \in Syncing /\ req'[h].batch = b
      /\ req'[h].op = "post" => payload # {}
      /\ req'[h].outcome # "synced"
  BY <1>1 DEF Sync, Idle, Syncing
<1>. HIDE DEF payload, lockedOnly, b
<1>7. batches'[b].received = {} /\ batches'[b].staged = payload /\ batches'[b].log = "none"
  BY <1>3
<1>. HIDE DEF batch
<1>8. SyncOf(h)'
  BY <1>4, <1>5, <1>6, <1>7 DEF SyncOf
<1>. QED  BY <1>3, <1>4, <1>5, <1>6, <1>7, <1>8, SyncOwnStep

LEMMA SyncPost ==
  ASSUME TypeOK, SyncInv, NEW h \in Slots, Post(h) \/ RecordSync(h)
  PROVE  SyncInv'
<1>1. PICK b \in DOMAIN batches : b = req[h].batch
  BY RequestType DEF Post, RecordSync, Syncing
<1>2. batches \in Seq(Batches) /\ batches[b] \in Batches /\ req[h] \in Requests
      /\ req \in [Slots -> Requests]
  BY RequestType DEF TypeOK
<1>3. \A g \in Slots \ {h} : req'[g] = req[g]
  BY OneSlot DEF Acts, Syncs
<1>4. \A g \in Slots \ {h} : req[g].op \in Syncing => req[g].batch # b
  BY <1>1 DEF Post, RecordSync, Syncing, SyncInv, SyncOf
<1>5. ASSUME Post(h) PROVE SyncInv'
  <2>1. PICK delivered \in BOOLEAN, outcome \in {"synced", "error"} :
          /\ outcome = "synced" => delivered
          /\ batches' = [batches EXCEPT ![b] =
               [batches[b] EXCEPT !.received =
                  IF delivered THEN batches[b].staged ELSE batches[b].received]]
          /\ req' = [req EXCEPT ![h] = [req[h] EXCEPT !.op = "record", !.outcome = outcome]]
    BY ZenonT(60), <1>1, <1>5 DEF Post
  <2>2. batches[b].log = "none" /\ batches[b].received = {} /\ batches[b].staged # {}
    BY <1>1, <1>5 DEF Post, Syncing, SyncInv, SyncOf
  <2>3. /\ DOMAIN batches' = DOMAIN batches
        /\ \A c \in DOMAIN batches : c # b => batches'[c] = batches[c]
        /\ batches'[b].staged = batches[b].staged /\ batches'[b].log = "none"
        /\ batches'[b].received = IF delivered THEN batches[b].staged ELSE {}
    BY <1>2, <2>1, <2>2 DEF Batches
  <2>4. req'[h].op = "record" /\ req'[h].batch = b /\ req'[h].outcome = outcome
    BY <1>1, <1>2, <2>1 DEF Requests
  <2>5. SyncOf(h)'
    BY <1>3, <1>4, <2>1, <2>2, <2>3, <2>4 DEF SyncOf
  <2>. QED  BY <1>3, <1>4, <2>2, <2>3, <2>4, <2>5, SyncOwnStep
<1>6. ASSUME RecordSync(h) PROVE SyncInv'
  <2>1. /\ batches' = [batches EXCEPT ![b] = [batches[b] EXCEPT !.log = req[h].outcome]]
        /\ req' = [req EXCEPT ![h] = Idle] /\ req[h].op = "record"
    BY <1>1, <1>6 DEF RecordSync
  <2>2. /\ DOMAIN batches' = DOMAIN batches
        /\ \A c \in DOMAIN batches : c # b => batches'[c] = batches[c]
        /\ batches'[b].staged = batches[b].staged /\ batches'[b].received = batches[b].received
        /\ batches'[b].log = req[h].outcome
    BY <1>2, <2>1 DEF Batches
  <2>3. req'[h].op = "idle"
    BY <1>2, <2>1 DEF Idle
  <2>4. /\ req[h].outcome = "synced" => batches[b].received # {}
        /\ req[h].outcome \in {"empty", "staged"} => batches[b].received = {}
        /\ batches[b].received \in {{}, batches[b].staged}
    BY <1>1, <2>1 DEF Syncing, SyncInv, SyncOf, SubmissionsTraceable
  <2>5. SyncOf(h)' /\ req'[h].op \notin Syncing
    BY <2>3 DEF SyncOf, Syncing
  <2>. QED  BY <1>3, <1>4, <2>2, <2>4, <2>5, SyncOwnStep
<1>. QED  BY <1>5, <1>6

LEMMA SyncNext == TypeOK /\ SyncInv /\ [Next]_vars => SyncInv'
<1>. SUFFICES ASSUME TypeOK, SyncInv, [Next]_vars PROVE SyncInv'
  OBVIOUS
<1>1. CASE Around
  <2>1. batches' = batches /\ req' = req
    BY <1>1 DEF Around, vars, table, NewSamples, RollOver
  <2>. QED  BY <2>1 DEF SyncInv, SubmissionsTraceable, SyncOf
<1>2. ASSUME NEW h \in Slots, Acts(h) PROVE SyncInv'
  <2>1. \A g \in Slots \ {h} : req'[g] = req[g]
    BY <1>2, OneSlot
  <2>2. CASE Generates(h)
    BY <2>1, <2>2, GenerateStep, SyncIdleStep DEF Generating, Syncing
  <2>3. CASE Reviews(h)
    <3>1. batches' = batches
      BY <2>3 DEF Reviews, Review, CommitReview
    <3>2. req'[h].op \in Events \cup {"idle"}
      BY <2>3, ReviewSlot DEF Reviews
    <3>. QED  BY <2>1, <3>1, <3>2, SyncIdleStep DEF Events, Syncing
  <2>4. CASE Syncs(h)
    BY <2>4, SyncSync, SyncPost DEF Syncs
  <2>. QED  BY <1>2, <2>2, <2>3, <2>4 DEF Acts
<1>. QED  BY <1>1, <1>2, NextActs

\* What the registry holds was staged on disk first, and the sync log never claims a
\* delivery that did not happen, whatever dies or gets lost on the way.
THEOREM SubmissionsHold == Spec => []SubmissionsTraceable
<1>1. Init => SyncInv
  BY DEF Init, Idle, SyncInv, SubmissionsTraceable, SyncOf, Syncing
<1>2. SyncInv => SubmissionsTraceable
  BY DEF SyncInv
<1>. QED  BY <1>1, <1>2, SyncNext, TypeCorrect, PTL DEF Spec

-----------------------------------------------------------------------------
(* The table: what the status rests on, and when a lock is final.          *)

\* What the row that request h loaded says is so, is so of the row as it is by now: it is
\* in the table, and past a draft it has a step on its trail.
Grounded(h) ==
  LET q == req[h] IN
  /\ q.op \in Events => status[q.row] # "absent"
  /\ q.op = "upsert" /\ q.seen.status # "absent" => status[q.row] # "absent"
  /\ q.op \in Events /\ q.seen.status # "draft" => trail[q.row] # <<>>

\* Loaded rows stay in the table, and a status past draft has a step on the trail.
StatusInv == StatusOnTrail /\ \A h \in Slots : Grounded(h)

\* What happens to rows: nothing, an insert, an update of the figures, or a review step.
RowsMove(h) ==
  LET q == req[h] IN
  \/ UNCHANGED <<status, trail, figures>>
  \/ InsertReport(h)
  \/ /\ UpdateReport(h) /\ UNCHANGED <<status, trail>>
  \/ /\ CommitReview(h) /\ UNCHANGED figures

LEMMA RowsMoved ==
  ASSUME NEW h \in Slots, Acts(h), TypeOK
  PROVE  RowsMove(h)
<1>1. CASE Generates(h)
  BY <1>1 DEF Generates, Generate, DbError, Abort, StartGenerate, NameReport, NothingToReport,
     Aggregate, LoadExisting, DuplicateReport, UpdateReport, WriteExports, EndGenerate, table,
     RowsMove
<1>2. CASE Reviews(h)
  BY <1>2 DEF Reviews, Review, CommitReview, table, RowsMove
<1>3. CASE Syncs(h)
  BY <1>3, SyncSlot DEF RowsMove
<1>. QED  BY <1>1, <1>2, <1>3 DEF Acts

\* Rows stay, and so do review steps.
LEMMA RowsStay ==
  ASSUME TypeOK, NEW h \in Slots, Acts(h)
  PROVE  \A r \in Reports : /\ status[r] # "absent" => status'[r] # "absent"
                            /\ trail[r] # <<>> => trail'[r] # <<>>
<1>1. CASE UNCHANGED <<status, trail>>
  BY <1>1
<1>2. CASE InsertReport(h)
  BY <1>2 DEF InsertReport, TypeOK
<1>3. CASE CommitReview(h)
  <2>1. PICK r \in Reports, e \in Events : r = req[h].row /\ e = req[h].op
    BY <1>3, RequestType DEF CommitReview
  <2>2. trail[r] \in Seq(Events)
    BY DEF TypeOK
  <2>3. Append(trail[r], e) # <<>>
    BY <2>2
  <2>4. trail' = [trail EXCEPT ![r] = Append(trail[r], e)]
    BY <1>3, <2>1 DEF CommitReview
  <2>5. status' = status \/ status' = [status EXCEPT ![r] = To[e]]
    BY <1>3, <2>1 DEF CommitReview, Assigned
  <2>6. To[e] # "absent"
    BY DEF To, Events
  <2>. QED  BY <2>3, <2>4, <2>5, <2>6 DEF TypeOK
<1>. QED  BY <1>1, <1>2, <1>3, RowsMoved DEF RowsMove

\* Only LoadExisting leaves a generation about to write a row.
LEMMA NotLoaded ==
  ASSUME TypeOK, NEW h \in Slots, Generates(h), ~LoadExisting(h)
  PROVE  req'[h].op # "upsert"
<1>1. req[h] \in Requests /\ req \in [Slots -> Requests]
  BY RequestType DEF TypeOK
<1>2. ASSUME NEW usable, Onward(h, usable) PROVE req'[h].op = "generate"
  BY <1>2, OnwardSlot
<1>3. NameReport(h) => req'[h].op = "named"
  BY <1>1 DEF NameReport, Requests
<1>4. InsertReport(h) \/ UpdateReport(h) => req'[h].op = "export"
  BY <1>1 DEF InsertReport, UpdateReport, Requests
<1>5. Aggregate(h) => req'[h].op = "aggregated"
  BY <1>1 DEF Aggregate, Requests
<1>6. EndGenerate(h) \/ Abort(h) => req'[h].op = "idle"
  BY <1>1 DEF EndGenerate, Abort, Idle
<1>7. \A wanted, completed : StartGenerate(h, wanted, completed) => req'[h].op = "generate"
  BY StartSlot
<1>. QED  BY <1>2, <1>3, <1>4, <1>5, <1>6, <1>7
          DEF Generates, Generate, NothingToReport, DuplicateReport, WriteExports, DbError

\* What a step leaves loaded rests on the table and the trail.
LEMMA GroundedStep ==
  ASSUME TypeOK, StatusInv, NEW h \in Slots, Acts(h)
  PROVE  \A g \in Slots : Grounded(g)'
<1>1. \A r \in Reports : /\ status[r] # "absent" => status'[r] # "absent"
                         /\ trail[r] # <<>> => trail'[r] # <<>>
  BY RowsStay
<1>2. ASSUME NEW g \in Slots \ {h} PROVE Grounded(g)'
  <2>1. req'[g] = req[g]
    BY OneSlot
  <2>2. req[g].op \in {"upsert"} \cup Events => req[g].row \in Reports
    BY RequestType
  <2>3. Grounded(g)
    BY DEF StatusInv
  <2>4. CASE req[g].op \notin {"upsert"} \cup Events
    BY <2>1, <2>4 DEF Grounded
  <2>5. CASE req[g].op \in {"upsert"} \cup Events
    <3>1. PICK r \in Reports : r = req[g].row
      BY <2>2, <2>5
    <3>. QED  BY <1>1, <2>1, <2>3, <3>1 DEF Grounded
  <2>. QED  BY <2>4, <2>5
<1>3. Grounded(h)'
  <2>1. CASE req'[h].op \notin {"upsert"} \cup Events
    BY <2>1 DEF Grounded
  <2>2. ASSUME req'[h].op = "upsert" PROVE Grounded(h)'
    <3>1. Generates(h)
      BY <2>2, ReviewSlot, SyncSlot DEF Acts, Reviews, Events
    <3>2. LoadExisting(h)
      BY <2>2, <3>1, NotLoaded
    <3>3. PICK r \in Reports : r = req[h].row
      BY <3>2, RequestType DEF LoadExisting
    <3>4. PICK seen : seen = Loaded(r)
      OBVIOUS
    <3>5. req' = [req EXCEPT ![h] = [req[h] EXCEPT !.op = "upsert", !.seen = seen]]
      <4>1. Onward(h, TRUE) => req'[h].op = "generate"
        BY OnwardSlot
      <4>. QED  BY <2>2, <3>2, <3>3, <3>4, <4>1 DEF LoadExisting
    <3>6. req'[h].row = r /\ req'[h].seen = seen
      <4>1. req[h] \in Requests /\ req \in [Slots -> Requests]
        BY RequestType DEF TypeOK
      <4>. QED  BY <3>3, <3>5, <4>1 DEF Requests
    <3>7. status' = status /\ seen.status = status[r]
      BY <3>2, <3>4 DEF LoadExisting, Loaded, table
    <3>. QED  BY <2>2, <3>6, <3>7 DEF Grounded, Events
  <2>3. ASSUME req'[h].op \in Events PROVE Grounded(h)'
    <3>1. Reviews(h)
      BY <2>3, GenerateStep, SyncSlot DEF Acts, Events, Generating
    <3>2. PICK r \in Reports, step \in Events : Review(h, r, step)
      BY <2>3, <3>1, ReviewSlot DEF Reviews, Events
    <3>3. req'[h].op = step /\ req'[h].row = r /\ req'[h].seen = Loaded(r)
      BY <3>2, ReviewSlot
    <3>4. status[r] # "absent" /\ status' = status /\ trail' = trail
      BY <3>2 DEF Review, From, Events, table
    <3>5. req'[h].seen.status = status[r]
      BY <3>3 DEF Loaded
    <3>6. status[r] # "draft" => trail[r] # <<>>
      BY <3>4 DEF StatusInv, StatusOnTrail
    <3>. QED  BY <2>3, <3>3, <3>4, <3>5, <3>6 DEF Grounded, Events
  <2>. QED  BY <2>1, <2>2, <2>3
<1>. QED  BY <1>2, <1>3

\* The status of every report stays one that its trail, or else its insert, assigned.
LEMMA StatusStep ==
  ASSUME TypeOK, StatusInv, NEW h \in Slots, Acts(h)
  PROVE  StatusOnTrail'
<1>1. CASE UNCHANGED <<status, trail>>
  BY <1>1 DEF StatusInv, StatusOnTrail
<1>2. CASE InsertReport(h)
  <2>1. PICK r \in Reports : r = req[h].row
    BY <1>2, RequestType DEF InsertReport
  <2>2. trail' = trail /\ status[r] = "absent" /\ status' = [status EXCEPT ![r] = "draft"]
    BY <1>2, <2>1 DEF InsertReport
  <2>3. trail[r] \in Seq(Events)
    BY DEF TypeOK
  <2>4. \A i \in DOMAIN trail[r] : To[trail[r][i]] # "absent"
    BY <2>3 DEF To, Events
  <2>5. trail[r] = <<>>
    BY <2>2, <2>4 DEF StatusInv, StatusOnTrail
  <2>. QED  BY <2>2, <2>5 DEF StatusInv, StatusOnTrail, TypeOK
<1>3. CASE CommitReview(h)
  <2>1. PICK r \in Reports, e \in Events : r = req[h].row /\ e = req[h].op
    BY <1>3, RequestType DEF CommitReview
  <2>2. PICK n \in Nat : n = Len(trail[r])
    BY DEF TypeOK
  <2>3. trail[r] \in Seq(Events) /\ trail' = [trail EXCEPT ![r] = Append(trail[r], e)]
    BY <1>3, <2>1 DEF CommitReview, TypeOK
  <2>4. /\ DOMAIN trail[r] = 1 .. n /\ DOMAIN trail'[r] = 1 .. n + 1
        /\ trail'[r][n + 1] = e /\ \A i \in 1 .. n : trail'[r][i] = trail[r][i]
        /\ \A s \in Reports \ {r} : trail'[s] = trail[s]
    BY <2>2, <2>3 DEF TypeOK
  <2>5. \A s \in Reports \ {r} : status'[s] = status[s]
    BY <1>3, <2>1 DEF CommitReview, Assigned, TypeOK
  <2>6. trail'[r] # <<>>
    BY <2>4
  <2>7. \/ status'[r] = To[e]
        \/ status'[r] = status[r] /\ req[h].seen.status = To[e]
    BY <1>3, <2>1 DEF CommitReview, Assigned, TypeOK
  <2>8. \E i \in 1 .. n + 1 : status'[r] = To[trail'[r][i]]
    <3>1. CASE status'[r] = To[e]
      BY <2>4, <3>1
    <3>2. CASE status'[r] = status[r] /\ req[h].seen.status = To[e]
      <4>1. To[e] # "draft"
        BY DEF To, Events
      <4>2. trail[r] # <<>>
        BY <2>1, <3>2, <4>1 DEF StatusInv, Grounded
      <4>3. PICK i \in 1 .. n : status[r] = To[trail[r][i]]
        BY <2>4, <4>2 DEF StatusInv, StatusOnTrail
      <4>. QED  BY <2>4, <3>2, <4>3
    <3>. QED  BY <2>7, <3>1, <3>2
  <2>. SUFFICES ASSUME NEW s \in Reports
                PROVE  IF trail'[s] = <<>> THEN status'[s] \in {"absent", "draft"}
                       ELSE \E i \in DOMAIN trail'[s] : status'[s] = To[trail'[s][i]]
    BY DEF StatusOnTrail, To
  <2>9. CASE s = r
    BY <2>4, <2>6, <2>8, <2>9
  <2>10. CASE s # r
    BY <2>4, <2>5, <2>10 DEF StatusInv, StatusOnTrail
  <2>. QED  BY <2>9, <2>10
<1>. QED  BY <1>1, <1>2, <1>3, RowsMoved DEF RowsMove

LEMMA StatusInvTrue == Spec => []StatusInv
<1>1. Init => StatusInv
  BY DEF Init, Idle, StatusInv, StatusOnTrail, Grounded, Events
<1>2. ASSUME TypeOK, StatusInv, [Next]_vars PROVE StatusInv'
  <2>1. CASE Around
    <3>1. status' = status /\ trail' = trail /\ req' = req
      BY <2>1 DEF Around, vars, table, NewSamples, RollOver
    <3>. QED  BY <1>2, <3>1 DEF StatusInv, StatusOnTrail, Grounded
  <2>. QED  BY <1>2, <2>1, GroundedStep, StatusStep, NextActs DEF StatusInv
<1>. QED  BY <1>1, <1>2, TypeCorrect, PTL DEF Spec

\* Whatever races, the status of a reviewed report is one that a step on its trail
\* assigned, and that of another is draft: no regeneration takes a status back.
THEOREM StatusTruthHolds == Spec => []StatusOnTrail
<1>1. StatusInv => StatusOnTrail
  BY DEF StatusInv
<1>. QED  BY <1>1, StatusInvTrue, PTL

-----------------------------------------------------------------------------
(* Locks are final (AssuranceRefined).                                     *)

Loading == {"upsert"} \cup Events

\* A step whose slot had loaded no report changes no stage: what it loads is not locked.
LEMMA QuietStep ==
  ASSUME TypeOK, NEW h \in Slots, \A g \in Slots \ {h} : req'[g] = req[g],
         status' = status, req[h].op \notin Loading,
         req'[h].op \in Loading => status[req'[h].row] # "locked"
  PROVE  Stage' = Stage
<1>1. ASSUME NEW r \in Reports, status[r] = "locked" PROVE Pending(r)' <=> Pending(r)
  BY <1>1 DEF Pending, Loading
<1>. QED  BY <1>1 DEF Stage

\* A step that ends what its slot had loaded settles at most that report.
LEMMA LeaveStep ==
  ASSUME TypeOK, NEW h \in Slots, \A g \in Slots \ {h} : req'[g] = req[g],
         NEW r \in Reports, req[h].row = r, req[h].op \in Loading, req'[h].op \notin Loading,
         \A s \in Reports \ {r} : status'[s] = status[s],
         status[r] # "absent", status'[r] # "absent"
  PROVE  /\ \A s \in Reports \ {r} : Stage'[s] = Stage[s]
         /\ Stage[r] = "open" /\ Stage'[r] \in {"open", "final"}
<1>1. \A s \in Reports \ {r} : Pending(s)' <=> Pending(s)
  BY DEF Pending, Loading
<1>2. Pending(r)
  BY DEF Pending, Loading
<1>. QED  BY <1>1, <1>2 DEF Stage

\* Stages and figures move together, a report at a time, and only forward.
Moved ==
  \E r \in Reports, v \in Versions :
    /\ figures' = [figures EXCEPT ![r] = v]
    /\ \A s \in Reports \ {r} : Stage'[s] = Stage[s]
    /\ \/ Stage[r] = "absent" /\ Stage'[r] = "open"
       \/ Stage[r] = "open" /\ Stage'[r] \in {"open", "final"}

LEMMA MovedRefines == Moved => Assurance!Next
<1>. SUFFICES ASSUME Moved PROVE Assurance!Next
  OBVIOUS
<1>1. PICK r \in Reports, v \in Versions :
        /\ figures' = [figures EXCEPT ![r] = v]
        /\ \A s \in Reports \ {r} : Stage'[s] = Stage[s]
        /\ \/ Stage[r] = "absent" /\ Stage'[r] = "open"
           \/ Stage[r] = "open" /\ Stage'[r] \in {"open", "final"}
  BY DEF Moved
<1>2. PICK x : x = Stage'[r]
  OBVIOUS
<1>3. Stage' = [Stage EXCEPT ![r] = x]
  <2>1. /\ Stage' = [s \in Reports |-> Stage'[s]]
        /\ Stage = [s \in Reports |-> Stage[s]]
    BY DEF Stage
  <2>. QED  BY <1>1, <1>2, <2>1
<1>4. Stage[r] = x => Stage' = Stage
  <2>1. Stage = [s \in Reports |-> Stage[s]] /\ Stage' = [s \in Reports |-> Stage'[s]]
    BY DEF Stage
  <2>. QED  BY <1>1, <1>2, <2>1
<1>. HIDE DEF Stage
<1>. QED  BY <1>1, <1>2, <1>3, <1>4
          DEF Assurance!Next, Assurance!Generate, Assurance!Recompute, Assurance!Settle,
              Assurance!Revalue

LEMMA StageStep ==
  ASSUME TypeOK, StatusInv, NEW h \in Slots, Acts(h)
  PROVE  Moved \/ (Stage' = Stage /\ figures' = figures)
<1>1. \A g \in Slots \ {h} : req'[g] = req[g]
  BY OneSlot
<1>2. req[h] \in Requests /\ req \in [Slots -> Requests] /\ Grounded(h)
  BY RequestType DEF TypeOK, StatusInv
<1>3. \A v \in Versions, r \in Reports : v = figures[r] => figures = [figures EXCEPT ![r] = v]
  BY DEF TypeOK
<1>4. CASE InsertReport(h)
  <2>1. PICK r \in Reports : r = req[h].row
    BY <1>4, RequestType DEF InsertReport
  <2>2. /\ figures' = [figures EXCEPT ![r] = req[h].fresh] /\ req[h].fresh \in Versions
        /\ status[r] = "absent" /\ status' = [status EXCEPT ![r] = "draft"]
        /\ req' = [req EXCEPT ![h] = [req[h] EXCEPT !.op = "export"]]
    BY <1>4, <2>1, RequestType DEF InsertReport
  <2>3. req'[h].op = "export"
    BY <1>2, <2>2 DEF Requests
  <2>4. \A s \in Reports \ {r} : (Pending(s)' <=> Pending(s)) /\ status'[s] = status[s]
    BY <1>1, <1>4, <2>1, <2>2, <2>3 DEF Pending, Events, InsertReport, TypeOK
  <2>5. status'[r] = "draft"
    BY <2>2 DEF TypeOK
  <2>6. /\ \A s \in Reports \ {r} : Stage'[s] = Stage[s]
        /\ Stage[r] = "absent" /\ Stage'[r] = "open"
    BY <2>2, <2>4, <2>5 DEF Stage
  <2>. QED  BY <2>2, <2>6 DEF Moved
<1>5. CASE UpdateReport(h)
  <2>1. PICK r \in Reports : r = req[h].row
    BY <1>5, RequestType DEF UpdateReport
  <2>2. PICK v \in Versions : figures' = [figures EXCEPT ![r] = v]
    BY <1>3, <1>5, <2>1, RequestType DEF UpdateReport, Assigned, TypeOK
  <2>3. /\ status' = status /\ status[r] # "absent" /\ req[h].op = "upsert"
        /\ req' = [req EXCEPT ![h] = [req[h] EXCEPT !.op = "export"]]
    BY <1>2, <1>5, <2>1 DEF UpdateReport, Grounded
  <2>4. req'[h].op = "export"
    BY <1>2, <2>3 DEF Requests
  <2>. QED  BY <1>1, <2>1, <2>2, <2>3, <2>4, LeaveStep DEF Moved, Loading, Events
<1>6. CASE CommitReview(h)
  <2>1. PICK r \in Reports, e \in Events : r = req[h].row /\ e = req[h].op
    BY <1>6, RequestType DEF CommitReview
  <2>2. /\ figures' = figures /\ status[r] # "absent"
        /\ \A s \in Reports \ {r} : status'[s] = status[s]
        /\ status'[r] \in {status[r], To[e]}
    BY <1>2, <1>6, <2>1 DEF CommitReview, Grounded, Assigned, TypeOK
  <2>3. status'[r] # "absent"
    BY <2>2 DEF To, Events
  <2>4. figures[r] \in Versions /\ figures' = [figures EXCEPT ![r] = figures[r]]
    BY <1>3, <2>2 DEF TypeOK
  <2>5. req'[h].op = "idle"
    BY <1>6, ReviewSlot
  <2>6. req[h].op \in Loading /\ req'[h].op \notin Loading
    BY <2>1, <2>5 DEF Loading, Events
  <2>7. /\ \A s \in Reports \ {r} : Stage'[s] = Stage[s]
        /\ Stage[r] = "open" /\ Stage'[r] \in {"open", "final"}
    BY <1>1, <2>1, <2>2, <2>3, <2>6, LeaveStep
  <2>. QED  BY <2>4, <2>7 DEF Moved
<1>7. CASE status' = status /\ figures' = figures
  <2>1. CASE req[h].op \notin Loading
    <3>1. CASE req'[h].op \notin Loading
      BY <1>1, <1>7, <2>1, <3>1, QuietStep
    <3>2. CASE LoadExisting(h)
      <4>1. PICK r \in Reports : r = req[h].row
        BY <3>2, RequestType DEF LoadExisting
      <4>2. PICK seen : seen = Loaded(r)
        OBVIOUS
      <4>3. \/ Onward(h, TRUE)
            \/ /\ status[r] # "locked"
               /\ req' = [req EXCEPT ![h] = [req[h] EXCEPT !.op = "upsert", !.seen = seen]]
        BY <3>2, <4>1, <4>2 DEF LoadExisting
      <4>4. CASE Onward(h, TRUE)
        <5>1. req'[h].op = "generate"
          BY <4>4, OnwardSlot
        <5>. QED  BY <3>2, <5>1, <1>1, <1>7, <2>1, QuietStep DEF Loading, Events
      <4>5. CASE ~Onward(h, TRUE)
        <5>1. PICK q \in Requests : q = req[h]
          BY <1>2
        <5>2. status[r] # "locked" /\ req'[h] = [q EXCEPT !.op = "upsert", !.seen = seen]
          BY <1>2, <4>3, <4>5, <5>1
        <5>3. req'[h].row = r
          BY <4>1, <5>1, <5>2 DEF Requests
        <5>. QED  BY <1>1, <1>7, <2>1, <5>2, <5>3, QuietStep
      <4>. QED  BY <4>4, <4>5
    <3>3. CASE \E r \in Reports, step \in Events : Review(h, r, step)
      <4>1. PICK r \in Reports, step \in Events : Review(h, r, step)
        BY <3>3
      <4>2. req'[h].row = r
        BY <4>1, ReviewSlot
      <4>3. status[r] # "locked"
        BY <4>1 DEF Review, From, Events
      <4>. QED  BY <1>1, <1>7, <2>1, <4>2, <4>3, QuietStep
    <3>4. ASSUME Generates(h), ~LoadExisting(h) PROVE req'[h].op # "upsert"
      BY <3>4, NotLoaded
    <3>5. Generates(h) => req'[h].op \notin Events
      BY GenerateStep DEF Generating, Events
    <3>6. Syncs(h) => req'[h].op \notin Loading
      BY SyncSlot DEF Loading, Events
    <3>7. CommitReview(h) => req'[h].op \notin Loading
      BY ReviewSlot DEF Loading, Events
    <3>. QED  BY <3>1, <3>2, <3>3, <3>4, <3>5, <3>6, <3>7 DEF Acts, Reviews, Loading
  <2>2. CASE req[h].op \in Loading
    <3>1. PICK r \in Reports : r = req[h].row
      BY <2>2, RequestType DEF Loading
    <3>2. CASE req'[h].op \in Loading
      <4>1. ASSUME Generates(h) PROVE FALSE
        <5>1. LoadExisting(h)
          BY <3>2, <4>1, GenerateStep, NotLoaded DEF Loading, Generating, Events
        <5>. QED  BY <2>2, <5>1 DEF LoadExisting, Loading, Events
      <4>2. ASSUME Reviews(h) PROVE FALSE
        BY <2>2, <3>2, <4>2, ReviewSlot DEF Reviews, Review, Loading, Events
      <4>3. ASSUME Syncs(h) PROVE FALSE
        BY <3>2, <4>3, SyncSlot DEF Loading, Events
      <4>. QED  BY <4>1, <4>2, <4>3 DEF Acts
    <3>3. CASE req'[h].op \notin Loading /\ status[r] # "absent"
      <4>1. figures[r] \in Versions /\ figures' = [figures EXCEPT ![r] = figures[r]]
        BY <1>3, <1>7 DEF TypeOK
      <4>. QED  BY <1>1, <1>7, <2>2, <3>1, <3>3, <4>1, LeaveStep DEF Moved
    <3>4. CASE req'[h].op \notin Loading /\ status[r] = "absent"
      <4>1. \A s \in Reports \ {r} : Pending(s)' <=> Pending(s)
        BY <1>1, <2>2, <3>1, <3>4 DEF Pending, Loading
      <4>2. \A s \in Reports : Stage'[s] = Stage[s]
        BY <1>7, <3>4, <4>1 DEF Stage
      <4>3. /\ Stage = [s \in Reports |-> Stage[s]]
            /\ Stage' = [s \in Reports |-> Stage'[s]]
        BY DEF Stage
      <4>. QED  BY <1>7, <4>2, <4>3
    <3>. QED  BY <3>2, <3>3, <3>4
  <2>. QED  BY <2>1, <2>2
<1>. QED  BY <1>4, <1>5, <1>6, <1>7, RowsMoved DEF RowsMove

\* Whatever races, a report that is locked, once the requests that loaded it before the
\* lock have ended, never changes again, neither its status nor its figures.
THEOREM FinalityHolds == Spec => AssuranceRefined
<1>1. Init => Assurance!Init
  <2>1. ASSUME Init, NEW r \in Reports PROVE Stage[r] = "absent"
    BY <2>1 DEF Init, Stage
  <2>2. Stage = [r \in Reports |-> Stage[r]]
    BY DEF Stage
  <2>3. Init => figures \in [Reports -> Versions]
    BY DEF Init, Versions
  <2>. QED  BY <2>1, <2>2, <2>3 DEF Assurance!Init
<1>2. ASSUME TypeOK, StatusInv, [Next]_vars PROVE [Assurance!Next]_<<Stage, figures>>
  <2>1. CASE Around
    <3>1. status' = status /\ figures' = figures /\ req' = req
      BY <2>1 DEF Around, vars, table, NewSamples, RollOver
    <3>2. Stage' = Stage
      BY <3>1 DEF Stage, Pending
    <3>. QED  BY <3>1, <3>2
  <2>. QED  BY <1>2, <2>1, NextActs, StageStep, MovedRefines
<1>. QED  BY <1>1, <1>2, TypeCorrect, StatusInvTrue, PTL DEF Spec, AssuranceRefined, Assurance!Spec

-----------------------------------------------------------------------------
(* Exports.                                                                *)

\* Until something fails, whatever races, an export shows the row of the table, but for
\* generations about to write it.
THEOREM ExportHolds == Spec => []ExportIsRow
<1>1. Init => ExportIsRow
  <2>1. ASSUME Init, NEW r \in Reports PROVE export[r][1] = figures[r]
    BY <2>1 DEF Init
  <2>. QED  BY <2>1 DEF ExportIsRow
<1>2. ASSUME TypeOK, ExportIsRow, NEW h \in Slots, Acts(h), faults' = 0 PROVE ExportIsRow'
  <2>1. \A g \in Slots \ {h} : req'[g] = req[g]
    BY <1>2, OneSlot
  <2>2. req[h] \in Requests /\ req \in [Slots -> Requests] /\ faults \in Nat
    BY <1>2, RequestType, ReportsAssumption DEF TypeOK
  <2>3. CASE (InsertReport(h) \/ UpdateReport(h)) /\ faults' = faults
    <3>1. PICK r \in Reports : r = req[h].row
      BY <1>2, <2>3, RequestType DEF InsertReport, UpdateReport
    <3>2. /\ export' = export /\ \A s \in Reports \ {r} : figures'[s] = figures[s]
          /\ req' = [req EXCEPT ![h] = [req[h] EXCEPT !.op = "export"]]
          /\ req[h].op # "export"
      BY <1>2, <2>3, <3>1 DEF InsertReport, UpdateReport, Assigned, TypeOK
    <3>3. req'[h].op = "export" /\ req'[h].row = r
      BY <2>2, <3>1, <3>2 DEF Requests
    <3>. QED  BY <1>2, <2>1, <2>3, <3>2, <3>3 DEF ExportIsRow
  <2>4. CASE WriteExports(h)
    <3>1. PICK r \in Reports : r = req[h].row
      BY <1>2, <2>4, RequestType DEF WriteExports
    <3>2. /\ export' = [export EXCEPT ![r] = <<figures[r], req[h].fresh>>]
          /\ figures' = figures /\ faults' = faults
      BY <2>4, <3>1 DEF WriteExports, table
    <3>3. export'[r][1] = figures'[r] /\ \A s \in Reports \ {r} : export'[s] = export[s]
      BY <1>2, <3>2 DEF TypeOK
    <3>4. \A s \in Reports \ {r}, g \in Slots :
            req[g].op = "export" /\ req[g].row = s => req'[g] = req[g]
      BY <2>1, <3>1
    <3>. QED  BY <1>2, <3>2, <3>3, <3>4 DEF ExportIsRow
  <2>5. CASE export' = export /\ figures' = figures /\ faults' = faults /\ req[h].op # "export"
    BY <1>2, <2>1, <2>5 DEF ExportIsRow
  <2>6. ~DbError(h) /\ ~Abort(h)
    <3>1. faults + 1 # 0
      BY <2>2
    <3>. QED  BY <1>2, <3>1 DEF DbError, Abort
  <2>7. CASE Generates(h)
    BY <2>3, <2>4, <2>5, <2>6, <2>7
       DEF Generates, Generate, StartGenerate, NameReport, NothingToReport, Aggregate, LoadExisting,
           InsertReport, DuplicateReport, UpdateReport, EndGenerate, table
  <2>8. CASE Reviews(h)
    BY <2>5, <2>8 DEF Reviews, Review, CommitReview, table, Events
  <2>9. CASE Syncs(h)
    BY <1>2, <2>5, <2>9, SyncSlot DEF Syncs, Post, RecordSync, Sync
  <2>. QED  BY <1>2, <2>7, <2>8, <2>9 DEF Acts
<1>3. ASSUME TypeOK, ExportIsRow, [Next]_vars PROVE ExportIsRow'
  <2>1. CASE Around
    <3>1. export' = export /\ figures' = figures /\ faults' = faults /\ req' = req
      BY <2>1 DEF Around, vars, table, NewSamples, RollOver
    <3>. QED  BY <1>3, <3>1 DEF ExportIsRow
  <2>2. CASE faults' # 0
    BY <2>2 DEF ExportIsRow
  <2>. QED  BY <1>2, <1>3, <2>1, <2>2, NextActs
<1>. QED  BY <1>1, <1>3, TypeCorrect, PTL DEF Spec

-----------------------------------------------------------------------------
(* What no run checks, and follows along the same lines.                   *)

\* A trail reads in order: each approval on it follows a submission, each lock an approval
\* that follows a submission, whatever stale commits did to the status meanwhile.
EventsInOrder ==
  \A r \in Reports : \A k \in DOMAIN trail[r] :
    /\ trail[r][k] = "approved" => \E i \in 1 .. k - 1 : trail[r][i] = "submitted"
    /\ trail[r][k] = "locked" =>
         \E i, j \in 1 .. k - 1 : i < j /\ trail[r][i] = "submitted" /\ trail[r][j] = "approved"

\* Without a fault, a batch that is not logged yet is that of a sync under way.
UnloggedIsUnderWay ==
  faults = 0 => \A b \in DOMAIN batches : batches[b].log = "none" =>
    \E h \in Slots : req[h].op \in Syncing /\ req[h].batch = b

LEMMA EventsKept == ASSUME EventsInOrder, trail' = trail PROVE EventsInOrder'
BY DEF EventsInOrder

\* The event a commit appends finds those it needs before it.
LEMMA EventsCommit ==
  ASSUME TypeOK, ReviewInv, EventsInOrder, NEW h \in Slots, CommitReview(h)
  PROVE  EventsInOrder'
<1>1. PICK r \in Reports, e \in Events : r = req[h].row /\ e = req[h].op
  BY RequestType DEF CommitReview
<1>2. PICK n \in Nat : n = Len(trail[r])
  BY DEF TypeOK
<1>3. trail[r] \in Seq(Events) /\ trail' = [trail EXCEPT ![r] = Append(trail[r], e)]
  BY <1>1 DEF CommitReview, TypeOK
<1>4. /\ DOMAIN trail[r] = 1 .. n /\ DOMAIN trail'[r] = 1 .. n + 1
      /\ trail'[r][n + 1] = e /\ \A i \in 1 .. n : trail'[r][i] = trail[r][i]
      /\ \A s \in Reports \ {r} : trail'[s] = trail[s]
  BY <1>2, <1>3 DEF TypeOK
<1>5. ASSUME NEW k \in 1 .. n, trail[r][k] = "approved"
      PROVE  \E i \in 1 .. k - 1 : trail'[r][i] = "submitted"
  <2>1. PICK i \in 1 .. k - 1 : trail[r][i] = "submitted"
    BY <1>4, <1>5 DEF EventsInOrder
  <2>2. i \in 1 .. n
    OBVIOUS
  <2>. QED  BY <1>4, <2>1, <2>2
<1>6. ASSUME NEW k \in 1 .. n, trail[r][k] = "locked"
      PROVE  \E i, j \in 1 .. k - 1 :
               i < j /\ trail'[r][i] = "submitted" /\ trail'[r][j] = "approved"
  <2>1. PICK i \in 1 .. k - 1, j \in 1 .. k - 1 :
          i < j /\ trail[r][i] = "submitted" /\ trail[r][j] = "approved"
    BY <1>4, <1>6 DEF EventsInOrder
  <2>2. i \in 1 .. n /\ j \in 1 .. n
    OBVIOUS
  <2>3. trail'[r][i] = "submitted" /\ trail'[r][j] = "approved"
    BY <1>4, <2>1, <2>2
  <2>. QED  BY <2>1, <2>3
<1>7. e = "approved" => \E i \in 1 .. n : trail'[r][i] = "submitted"
  <2>1. ASSUME e = "approved" PROVE Submitted(r)
    BY <1>1, <2>1 DEF ReviewInv
  <2>2. ASSUME Submitted(r) PROVE \E i \in 1 .. n : trail[r][i] = "submitted"
    BY <1>4, <2>2 DEF Submitted
  <2>. QED  BY <1>4, <2>1, <2>2
<1>8. e = "locked" => \E i, j \in 1 .. n :
                        i < j /\ trail'[r][i] = "submitted" /\ trail'[r][j] = "approved"
  <2>1. ASSUME e = "locked" PROVE Approved(r)
    BY <1>1, <2>1 DEF ReviewInv
  <2>2. ASSUME Approved(r)
        PROVE  \E i \in 1 .. n, j \in 1 .. n :
                 i < j /\ trail[r][i] = "submitted" /\ trail[r][j] = "approved"
    BY <1>4, <2>2 DEF Approved
  <2>. QED  BY <1>4, <2>1, <2>2
<1>9. n + 1 - 1 = n /\ \A k \in 1 .. n + 1 : k = n + 1 \/ k \in 1 .. n
  OBVIOUS
<1>. SUFFICES ASSUME NEW s \in Reports, NEW k \in DOMAIN trail'[s]
              PROVE  /\ trail'[s][k] = "approved" =>
                          \E i \in 1 .. k - 1 : trail'[s][i] = "submitted"
                     /\ trail'[s][k] = "locked" =>
                          \E i, j \in 1 .. k - 1 :
                            i < j /\ trail'[s][i] = "submitted" /\ trail'[s][j] = "approved"
  BY DEF EventsInOrder
<1>10. CASE s # r
  BY <1>4, <1>10 DEF EventsInOrder
<1>11. CASE s = r /\ k = n + 1
  BY <1>4, <1>7, <1>8, <1>9, <1>11
<1>12. CASE s = r /\ k \in 1 .. n
  BY <1>4, <1>5, <1>6, <1>12
<1>. QED  BY <1>4, <1>9, <1>10, <1>11, <1>12

\* Whatever races, trails read in order.
THEOREM TrailsInOrder == Spec => []EventsInOrder
<1>1. Init => EventsInOrder
  BY DEF Init, EventsInOrder
<1>2. ASSUME TypeOK, ReviewInv, EventsInOrder, [Next]_vars PROVE EventsInOrder'
  <2>1. CASE trail' = trail
    BY <1>2, <2>1, EventsKept
  <2>2. ASSUME NEW h \in Slots, Acts(h) PROVE trail' = trail \/ CommitReview(h)
    BY <1>2, <2>2, GenerateStep, SyncSlot DEF Acts, Reviews, Review, table
  <2>3. Around => trail' = trail
    BY DEF Around, NewSamples, RollOver, vars, table
  <2>. QED  BY <1>2, <2>1, <2>2, <2>3, EventsCommit, NextActs
<1>. QED  BY <1>1, <1>2, TypeCorrect, ReviewTrue, PTL DEF Spec

\* A sync under way knows its outcome.
Decided == \A h \in Slots : req[h].op \in Syncing => req[h].outcome # "none"

LEMMA DecidedStep ==
  ASSUME TypeOK, Decided, NEW h \in Slots, Acts(h)
  PROVE  Decided'
<1>1. \A g \in Slots \ {h} : req'[g] = req[g]
  BY OneSlot
<1>2. req \in [Slots -> Requests] /\ req[h] \in Requests
  BY RequestType DEF TypeOK
<1>3. req'[h].op \in Syncing => req'[h].outcome # "none"
  <2>1. CASE Post(h)
    <3>1. PICK outcome \in {"synced", "error"} :
            req' = [req EXCEPT ![h] = [req[h] EXCEPT !.op = "record", !.outcome = outcome]]
      BY <2>1 DEF Post
    <3>. QED  BY <1>2, <3>1 DEF Requests
  <2>2. CASE RecordSync(h) \/ CommitReview(h)
    BY <1>2, <2>2 DEF RecordSync, CommitReview, Idle, Syncing
  <2>3. ASSUME NEW wanted \in SUBSET Reports, NEW forced \in BOOLEAN, Sync(h, wanted, forced)
        PROVE  req'[h].outcome # "none"
    <3>. DEFINE lockedOnly == cfg.requireLocked /\ ~forced
                outcome == IF Payload(wanted, lockedOnly) = {} /\ lockedOnly THEN "empty"
                                                                           ELSE "staged"
    <3>1. outcome # "none"
      OBVIOUS
    <3>2. PICK op : req' = [req EXCEPT ![h] = [Idle EXCEPT !.op = op, !.batch = Len(batches) + 1,
                                                           !.outcome = outcome]]
      BY <2>3 DEF Sync
    <3>. HIDE DEF outcome
    <3>. QED  BY <1>2, <3>1, <3>2 DEF Idle
  <2>4. ASSUME NEW r \in Reports, NEW step \in Events, Review(h, r, step)
        PROVE  req'[h].op \notin Syncing
    BY <1>2, <2>4 DEF Review, Idle, Syncing, Events
  <2>5. ASSUME req'[h].op \in Generating \cup {"idle"} PROVE req'[h].op \notin Syncing
    BY <2>5 DEF Generating, Syncing
  <2>. QED  BY <2>1, <2>2, <2>3, <2>4, <2>5, GenerateStep
            DEF Acts, Reviews, Syncs
<1>. QED  BY <1>1, <1>3 DEF Decided

\* Only the end of a sync, or its death, takes a slot from a batch.
LEMMA UnderWayStep ==
  ASSUME TypeOK, Decided, UnloggedIsUnderWay, NEW h \in Slots, Acts(h), faults' = 0
  PROVE  UnloggedIsUnderWay'
<1>0. faults = 0 /\ ~DbError(h) /\ ~Abort(h)
  <2>1. faults \in Nat
    BY ReportsAssumption DEF TypeOK
  <2>2. ~DbError(h) /\ ~Abort(h)
    <3>1. faults + 1 # 0
      BY <2>1
    <3>. QED  BY <3>1 DEF DbError, Abort
  <2>3. CASE Generates(h)
    BY <2>2, <2>3 DEF Generates, StartGenerate, Generate, NameReport, NothingToReport, Aggregate,
          LoadExisting, InsertReport, DuplicateReport, UpdateReport, WriteExports, EndGenerate
  <2>4. CASE Reviews(h)
    BY <2>2, <2>4 DEF Reviews, CommitReview, Review, DbError, Abort
  <2>5. CASE Syncs(h)
    BY <2>2, <2>5, SyncSlot
  <2>. QED  BY <2>3, <2>4, <2>5 DEF Acts
<1>1. \A g \in Slots \ {h} : req'[g] = req[g]
  BY OneSlot
<1>2. req \in [Slots -> Requests] /\ batches \in Seq(Batches) /\ req[h] \in Requests
  BY RequestType DEF TypeOK
<1>3. CASE batches' = batches /\ req[h].op \notin Syncing
  BY <1>0, <1>1, <1>3 DEF UnloggedIsUnderWay
<1>4. ASSUME Post(h) PROVE UnloggedIsUnderWay'
  <2>1. PICK c \in DOMAIN batches : c = req[h].batch
    BY <1>4, RequestType DEF Post, Syncing
  <2>2. PICK s : batches' = [batches EXCEPT ![c] = [batches[c] EXCEPT !.received = s]]
    BY ZenonT(60), <1>4, <2>1 DEF Post
  <2>3. /\ DOMAIN batches' = DOMAIN batches
        /\ \A b \in DOMAIN batches : batches'[b].log = batches[b].log
    BY <1>2, <2>2 DEF Batches
  <2>4. req'[h].op = "record" /\ req'[h].batch = req[h].batch
    <3>1. PICK outcome \in {"synced", "error"} :
            req' = [req EXCEPT ![h] = [req[h] EXCEPT !.op = "record", !.outcome = outcome]]
      BY <1>4 DEF Post
    <3>. QED  BY <1>2, <3>1 DEF Requests
  <2>5. ASSUME NEW b \in DOMAIN batches, batches[b].log = "none"
        PROVE  \E g \in Slots : req'[g].op \in Syncing /\ req'[g].batch = b
    <3>1. PICK g \in Slots : req[g].op \in Syncing /\ req[g].batch = b
      BY <1>0, <2>5 DEF UnloggedIsUnderWay
    <3>. QED  BY <1>1, <2>4, <3>1 DEF Syncing
  <2>. QED  BY <2>3, <2>5 DEF UnloggedIsUnderWay
<1>5. ASSUME RecordSync(h) PROVE UnloggedIsUnderWay'
  <2>1. PICK c \in DOMAIN batches : c = req[h].batch
    BY <1>5, RequestType DEF RecordSync, Syncing
  <2>2. batches' = [batches EXCEPT ![c] = [batches[c] EXCEPT !.log = req[h].outcome]]
    BY <1>5, <2>1 DEF RecordSync
  <2>3. DOMAIN batches' = DOMAIN batches /\ \A b \in DOMAIN batches \ {c} : batches'[b] = batches[b]
    BY <1>2, <2>2
  <2>4. batches'[c].log # "none"
    <3>1. req[h].outcome # "none"
      BY <1>5 DEF Decided, RecordSync, Syncing
    <3>2. batches[c] \in Batches
      BY <1>2
    <3>3. batches'[c] = [batches[c] EXCEPT !.log = req[h].outcome]
      BY <1>2, <2>2
    <3>4. batches'[c].log = req[h].outcome
      BY <3>2, <3>3 DEF Batches
    <3>. QED  BY <3>1, <3>4
  <2>. QED  BY <1>0, <1>1, <2>1, <2>3, <2>4 DEF UnloggedIsUnderWay
<1>6. ASSUME NEW wanted \in SUBSET Reports, NEW forced \in BOOLEAN, Sync(h, wanted, forced)
      PROVE  UnloggedIsUnderWay'
  <2>1. PICK batch : batches' = Append(batches, batch)
    BY <1>6 DEF Sync
  <2>2. PICK n \in Nat : n = Len(batches)
    BY <1>2
  <2>3. /\ DOMAIN batches' = DOMAIN batches \cup {n + 1}
        /\ \A b \in DOMAIN batches : batches'[b] = batches[b]
    <3>1. DOMAIN batches = 1 .. n
      BY <1>2, <2>2
    <3>. QED  BY <1>2, <2>1, <2>2, <3>1
  <2>4. req'[h].batch = n + 1 /\ req'[h].op \in Syncing
    <3>1. PICK op \in Syncing :
            \E outcome : req' = [req EXCEPT ![h] =
                         [Idle EXCEPT !.op = op, !.batch = n + 1, !.outcome = outcome]]
      BY <1>6, <2>2 DEF Sync, Syncing
    <3>. QED  BY <1>2, <3>1 DEF Idle
  <2>5. req[h].op = "idle"
    BY <1>6 DEF Sync
  <2>. QED  BY <1>0, <1>1, <2>3, <2>4, <2>5 DEF UnloggedIsUnderWay, Syncing
<1>7. \/ Post(h) \/ RecordSync(h)
      \/ \E wanted \in SUBSET Reports, forced \in BOOLEAN : Sync(h, wanted, forced)
      \/ batches' = batches /\ req[h].op \notin Syncing
  <2>1. ASSUME Generate(h) PROVE batches' = batches /\ req[h].op \in Generating
    BY <2>1 DEF Generate, NameReport, NothingToReport, Aggregate, LoadExisting, InsertReport,
                DuplicateReport, UpdateReport, WriteExports, EndGenerate, Generating
  <2>. QED  BY <1>0, <2>1 DEF Acts, Generates, Reviews, Syncs, CommitReview, StartGenerate,
                              Review, Generating, Syncing, Events
<1>. QED  BY <1>3, <1>4, <1>5, <1>6, <1>7

\* Without a fault, whatever races, the sync log misses nothing but syncs under way.
THEOREM LogIsComplete == Spec => []UnloggedIsUnderWay
<1>1. Init => Decided /\ UnloggedIsUnderWay
  BY DEF Init, Idle, Decided, Syncing, UnloggedIsUnderWay
<1>2. ASSUME TypeOK, Decided, UnloggedIsUnderWay, [Next]_vars
      PROVE  Decided' /\ UnloggedIsUnderWay'
  <2>1. ASSUME NEW h \in Slots, Acts(h) PROVE Decided' /\ UnloggedIsUnderWay'
    <3>1. CASE faults' = 0
      BY <1>2, <2>1, <3>1, DecidedStep, UnderWayStep
    <3>2. CASE faults' # 0
      BY <1>2, <2>1, <3>2, DecidedStep DEF UnloggedIsUnderWay
    <3>. QED  BY <3>1, <3>2
  <2>2. CASE Around
    BY <1>2, <2>2 DEF Around, RollOver, NewSamples, vars, Decided, UnloggedIsUnderWay
  <2>. QED  BY <1>2, <2>1, <2>2, NextActs
<1>. QED  BY <1>1, <1>2, TypeCorrect, PTL DEF Spec
=============================================================================
