-------------------------- MODULE IngestionPipeline --------------------------
(***************************************************************************)
(* The sensor stream: SensorProducer reads the plants and publishes to     *)
(* Kafka, SensorConsumer upserts the readings and checks their freshness,  *)
(* the API checks again for GET /alerts and the dashboard, resolves alerts *)
(* and accepts single readings (app/ingestion/producer.py, consumer.py,    *)
(* freshness.py, app/repositories/sensors.py).                             *)
(*                                                                         *)
(* The topic is one partition that keeps every message.  The consumer is a *)
(* slot like an API request: at most one statement or commit per step.     *)
(***************************************************************************)
EXTENDS Integers, Sequences

CONSTANTS
  Plants,    \* unit codes
  Order,     \* the plants in the order of PRODUCER_PLANT_CODES
  Consumer,  \* the slot that runs SensorConsumer
  Api,       \* request slots of the API
  Qualities, \* OPC quality classes
  Unhealthy, \* those quality_is_healthy refuses (OPC_UA_ALLOW_UNCERTAIN)
  NoPlant,   \* no plant
  Stale,     \* STALE_DATA_SECONDS
  Cooldown,  \* STREAM_ALERT_COOLDOWN_SECONDS
  MaxTime,   \* bound: the clock stops here
  MaxSent,   \* bound: messages on the topic
  MaxAlerts, \* bound: no new check by the API with this many alerts
  MaxFaults  \* bound: database errors, failed publishes and consumer crashes

ASSUME PipelineAssumption ==
  /\ Order \in Seq(Plants)
  /\ NoPlant \notin Plants
  /\ Consumer \notin Api
  /\ Unhealthy \subseteq Qualities
  /\ "none" \notin Qualities /\ "unset" \notin Qualities
  /\ {Stale, Cooldown, MaxTime, MaxSent, MaxAlerts, MaxFaults} \subseteq Nat

VARIABLES
  now,      \* the clock
  producer, \* plants left in this tick
  topic,    \* messages in offset order
  con,      \* consumer: running, messages handled, fetch position, committed offset
  rows,     \* sensor_readings: quality by plant and time, "none" without a row
  sources,  \* their column source, written with the measured values as one
  alerts,   \* stream_alerts in insertion order
  req,      \* what each slot is doing
  faults    \* faults so far

table == <<rows, sources>>
vars  == <<now, producer, topic, con, table, alerts, req, faults>>

Times    == 0 .. MaxTime
Slots    == Api \cup {Consumer}
Written  == Qualities \cup {"unset"}   \* POST /readings sets no quality
Sources  == {"plant", "api"}           \* simulator and OPC-UA, or POST /readings
Readings == [plant : Plants, time : Times, quality : Written, source : Sources]
Verdicts == {"missing", "stale", "fresh", "bad_quality"}

\* Faulty: the alert is stored under the name of the status.
AlertTypeByStatus == [v \in {"missing", "stale", "bad_quality"} |-> v]

AlertType ==
  [missing |-> "stream_missing", stale |-> "stream_stale", bad_quality |-> "data_quality"]
Alerts ==
  [plant : Plants, type : {"stream_missing", "stream_stale", "data_quality"},
   created : Times, resolved : BOOLEAN, by : Slots]

Requests ==
  [op : {"idle", "insert", "update", "age", "quality", "find", "raise"},
   plant : Plants \cup {NoPlant}, time : Times, quality : Written, source : Sources,
   seen : [quality : Written, source : Sources \cup {"none"}],  \* the row collided with
   verdict : Verdicts,      \* of the freshness check so far
   todo : Seq(Plants)]      \* plants GET /alerts has still to check

ConsumerOK ==
  /\ con \in [up : BOOLEAN, done : Nat, pos : Nat, committed : Nat \cup {-1}]
  /\ con.done <= con.pos /\ con.pos <= Len(topic) /\ con.committed <= con.pos

\* The consumer's slot only works on a message it has fetched.
RequestOK(h) ==
  /\ req[h].op # "idle" => req[h].plant \in Plants
  /\ req[h].op \in {"find", "raise"} => req[h].verdict # "fresh"
  /\ h = Consumer => /\ req[h].todo = <<>>
                     /\ req[h].op # "idle" => con.up /\ con.done < con.pos

TableOK ==
  /\ rows \in [Plants -> [Times -> Written \cup {"none"}]]
  /\ sources \in [Plants -> [Times -> Sources \cup {"none"}]]

\* Types, offsets in order, and requests with what their next step needs.
TypeOK ==
  /\ now \in Times
  /\ producer \in Seq(Plants)
  /\ topic \in Seq(Readings)
  /\ TableOK
  /\ alerts \in Seq(Alerts)
  /\ req \in [Slots -> Requests]
  /\ faults \in 0 .. MaxFaults
  /\ ConsumerOK
  /\ \A h \in Slots : RequestOK(h)

Idle == [op |-> "idle", plant |-> NoPlant, time |-> 0, quality |-> "unset", source |-> "api",
         seen |-> [quality |-> "unset", source |-> "api"], verdict |-> "fresh", todo |-> <<>>]

Init ==
  /\ now = 0
  /\ producer = <<>>
  /\ topic = <<>>
  /\ con = [up |-> FALSE, done |-> 0, pos |-> 0, committed |-> -1]
  /\ rows = [p \in Plants |-> [t \in Times |-> "none"]]
  /\ sources = rows
  /\ alerts = <<>>
  /\ req = [h \in Slots |-> Idle]
  /\ faults = 0

Fault == faults < MaxFaults /\ faults' = faults + 1

StoredTimes(p) == {t \in Times : rows[p][t] # "none"}

\* get_latest_reading, where there is one.
Newest(p) == CHOOSE t \in StoredTimes(p) : \A u \in StoredTimes(p) : u <= t

Tick ==
  /\ now < MaxTime
  /\ now' = now + 1
  /\ UNCHANGED <<producer, topic, con, table, alerts, req, faults>>

-----------------------------------------------------------------------------
(* Producer.  A tick reads and publishes plant by plant; whatever raises   *)
(* ends the tick, and run_forever starts the next one.                     *)

StartTick ==
  /\ producer = <<>>
  /\ producer' = Order
  /\ UNCHANGED <<now, topic, con, table, alerts, req, faults>>

\* A plant is read, then published.  The simulator stamps the reading with the clock,
\* OPC-UA with the newest server timestamp of its samples; the quality is the worst of
\* the tags.  The clock may have moved on before the broker has the message.
ReadAndPublish ==
  /\ producer # <<>>
  /\ Len(topic) < MaxSent
  /\ \E t \in 0 .. now, q \in Qualities :
       topic' = Append(topic, [plant |-> Head(producer), time |-> t, quality |-> q,
                                 source |-> "plant"])
  /\ producer' = Tail(producer)
  /\ UNCHANGED <<now, con, table, alerts, req, faults>>

\* The read or send_and_wait raises: the plants after this one are not read either.
ReadFails ==
  /\ producer # <<>>
  /\ producer' = <<>>
  /\ UNCHANGED <<now, topic, con, table, alerts, req, faults>>

\* send_and_wait raises, and the broker has the message all the same.
PublishUnconfirmed ==
  /\ producer # <<>>
  /\ Len(topic) < MaxSent
  /\ Fault
  /\ \E t \in 0 .. now, q \in Qualities :
       topic' = Append(topic, [plant |-> Head(producer), time |-> t, quality |-> q,
                                 source |-> "plant"])
  /\ producer' = <<>>
  /\ UNCHANGED <<now, con, table, alerts, req>>

-----------------------------------------------------------------------------
(* Consumer.  Offsets are committed in the background, as far as fetched.  *)

\* Without a committed offset the group starts at the end of the topic.
StartConsumer ==
  LET start == IF con.committed = -1 THEN Len(topic) ELSE con.committed IN
  /\ ~con.up
  /\ con' = [con EXCEPT !.up = TRUE, !.done = start, !.pos = start]
  /\ UNCHANGED <<now, producer, topic, table, alerts, req, faults>>

\* Faulty: of several fetched messages only the last is handled.
PollLast ==
  /\ con.up /\ con.done = con.pos /\ con.pos < Len(topic)
  /\ con' = [con EXCEPT !.done = Len(topic) - 1, !.pos = Len(topic)]
  /\ UNCHANGED <<now, producer, topic, table, alerts, req, faults>>

Poll ==
  /\ con.up /\ con.done = con.pos /\ con.pos < Len(topic)
  /\ con' = [con EXCEPT !.pos = Len(topic)]
  /\ UNCHANGED <<now, producer, topic, table, alerts, req, faults>>

AutoCommit ==
  /\ con.up /\ con.committed # con.pos
  /\ con' = [con EXCEPT !.committed = con.pos]
  /\ UNCHANGED <<now, producer, topic, table, alerts, req, faults>>

Take ==
  LET m == topic[con.done + 1] IN
  /\ con.up /\ con.done < con.pos
  /\ req[Consumer].op = "idle"
  /\ req' = [req EXCEPT ![Consumer] = [Idle EXCEPT !.op = "insert", !.plant = m.plant,
                                         !.time = m.time, !.quality = m.quality,
                                         !.source = m.source]]
  /\ UNCHANGED <<now, producer, topic, con, table, alerts, faults>>

\* The process dies: what it fetched and committed will not be fetched again.
Crash ==
  /\ con.up
  /\ Fault
  /\ con' = [con EXCEPT !.up = FALSE]
  /\ req' = [req EXCEPT ![Consumer] = Idle]
  /\ UNCHANGED <<now, producer, topic, table, alerts>>

-----------------------------------------------------------------------------
(* Steps of a slot: upsert_reading, check_freshness, raise_alert_if_needed. *)

\* A message is done with once its slot is; GET /alerts goes on with the next plant.
Finish(h) ==
  /\ req' = [req EXCEPT ![h] =
       IF @.todo = <<>> THEN Idle
       ELSE [Idle EXCEPT !.op = "age", !.plant = Head(req[h].todo), !.todo = Tail(req[h].todo)]]
  /\ con' = IF h = Consumer THEN [con EXCEPT !.done = @ + 1] ELSE con

\* The consumer checks freshness after an upsert, POST /readings does not.
Upserted(h) ==
  IF h = Consumer
  THEN /\ req' = [req EXCEPT ![h] = [Idle EXCEPT !.op = "age", !.plant = req[h].plant]]
       /\ UNCHANGED con
  ELSE Finish(h)

Insert(h) ==
  LET q == req[h] IN
  /\ q.op = "insert"
  /\ rows[q.plant][q.time] = "none"
  /\ rows' = [rows EXCEPT ![q.plant][q.time] = q.quality]
  /\ sources' = [sources EXCEPT ![q.plant][q.time] = q.source]
  /\ Upserted(h)
  /\ UNCHANGED <<now, producer, topic, alerts, faults>>

\* Faulty: a reading that is already stored is left as it is.
ConflictIgnored(h) ==
  LET q == req[h] IN
  /\ q.op = "insert"
  /\ rows[q.plant][q.time] # "none"
  /\ Upserted(h)
  /\ UNCHANGED <<now, producer, topic, table, alerts, faults>>

\* The unique index refuses the insert: roll back and load the row.
Conflict(h) ==
  LET q == req[h] IN
  /\ q.op = "insert"
  /\ rows[q.plant][q.time] # "none"
  /\ req' = [req EXCEPT ![h].op = "update",
                         ![h].seen = [quality |-> rows[q.plant][q.time],
                                      source |-> sources[q.plant][q.time]]]
  /\ UNCHANGED <<now, producer, topic, con, table, alerts, faults>>

\* What the UPDATE makes of a column: a value equal to the loaded one is left out of it,
\* whatever the column holds by now.
Assigned(column, p, t, seen, new) ==
  IF seen = new THEN column ELSE [column EXCEPT ![p][t] = new]

Update(h) ==
  LET q == req[h] IN
  /\ q.op = "update"
  /\ rows' = Assigned(rows, q.plant, q.time, q.seen.quality, q.quality)
  /\ sources' = Assigned(sources, q.plant, q.time, q.seen.source, q.source)
  /\ Upserted(h)
  /\ UNCHANGED <<now, producer, topic, alerts, faults>>

ReadAge(h) ==
  LET p == req[h].plant IN
  /\ req[h].op = "age"
  /\ req' = [req EXCEPT ![h].op = "quality",
       ![h].verdict = IF StoredTimes(p) = {} THEN "missing"
                      ELSE IF now > Newest(p) + Stale THEN "stale" ELSE "fresh"]
  /\ UNCHANGED <<now, producer, topic, con, table, alerts, faults>>

\* A second SELECT: the newest reading may be another one by now.  Missing and stale
\* take precedence over a bad quality.
ReadQuality(h) ==
  LET p   == req[h].plant
      bad == rows[p][Newest(p)] \in Unhealthy
  IN
  /\ req[h].op = "quality"
  /\ IF req[h].verdict # "fresh" THEN req' = [req EXCEPT ![h].op = "find"] /\ UNCHANGED con
     ELSE IF bad
     THEN req' = [req EXCEPT ![h].op = "find", ![h].verdict = "bad_quality"] /\ UNCHANGED con
     ELSE Finish(h)
  /\ UNCHANGED <<now, producer, topic, table, alerts, faults>>

\* Faulty: alerts are looked up under the name of the status, and none is found.
OpenAlertsByStatus(h) ==
  {i \in DOMAIN alerts : /\ alerts[i].plant = req[h].plant
                         /\ alerts[i].type = req[h].verdict
                         /\ ~alerts[i].resolved}

\* The open alerts of the plant that say what this check found.
OpenAlerts(h) ==
  {i \in DOMAIN alerts : /\ alerts[i].plant = req[h].plant
                         /\ alerts[i].type = AlertType[req[h].verdict]
                         /\ ~alerts[i].resolved}

\* Faulty: an open alert of any type keeps the check quiet.
FindAnyType(h) ==
  LET cooling == \E i \in DOMAIN alerts : /\ alerts[i].plant = req[h].plant
                                          /\ ~alerts[i].resolved
                                          /\ now < alerts[i].created + Cooldown
  IN
  /\ req[h].op = "find"
  /\ IF cooling THEN Finish(h) ELSE req' = [req EXCEPT ![h].op = "raise"] /\ UNCHANGED con
  /\ UNCHANGED <<now, producer, topic, table, alerts, faults>>

\* The newest open alert suppresses another one for the length of the cooldown.
FindAlert(h) ==
  LET cooling == \E i \in OpenAlerts(h) : now < alerts[i].created + Cooldown IN
  /\ req[h].op = "find"
  /\ IF cooling THEN Finish(h) ELSE req' = [req EXCEPT ![h].op = "raise"] /\ UNCHANGED con
  /\ UNCHANGED <<now, producer, topic, table, alerts, faults>>

RaiseAlert(h) ==
  /\ req[h].op = "raise"
  /\ alerts' = Append(alerts, [plant |-> req[h].plant, type |-> AlertType[req[h].verdict],
                               created |-> now, resolved |-> FALSE, by |-> h])
  /\ Finish(h)
  /\ UNCHANGED <<now, producer, topic, table, faults>>

\* A statement fails: the consumer logs it and drops the message, the API answers 500.
\* A failed second SELECT of check_freshness is swallowed there: the check ends as ok, or
\* fails at its next statement.
DbError(h) ==
  /\ req[h].op # "idle"
  /\ Fault
  /\ req' = [req EXCEPT ![h] = Idle]
  /\ con' = IF h = Consumer THEN [con EXCEPT !.done = @ + 1] ELSE con
  /\ UNCHANGED <<now, producer, topic, table, alerts>>

Step(h) ==
  \/ Insert(h) \/ Conflict(h) \/ Update(h)
  \/ ReadAge(h) \/ ReadQuality(h) \/ FindAlert(h) \/ RaiseAlert(h)

-----------------------------------------------------------------------------
(* API.                                                                    *)

\* The time of a posted reading is the client's, past or future.  A failed publish is
\* swallowed; the row is written in any case.
PostReading(h, p, t) ==
  LET m == [plant |-> p, time |-> t, quality |-> "unset", source |-> "api"] IN
  /\ req[h].op = "idle"
  /\ Len(topic) < MaxSent
  /\ \/ topic' = topic
     \/ topic' = Append(topic, m)
  /\ req' = [req EXCEPT ![h] = [Idle EXCEPT !.op = "insert", !.plant = p, !.time = t]]
  /\ UNCHANGED <<now, producer, con, table, alerts, faults>>

GetAlerts(h) ==
  /\ req[h].op = "idle"
  /\ Order # <<>>
  /\ Len(alerts) < MaxAlerts
  /\ req' = [req EXCEPT ![h] = [Idle EXCEPT !.op = "age", !.plant = Head(Order),
                                  !.todo = Tail(Order)]]
  /\ UNCHANGED <<now, producer, topic, con, table, alerts, faults>>

\* The dashboard of one plant that has readings.
GetDashboard(h, p) ==
  /\ req[h].op = "idle"
  /\ StoredTimes(p) # {}
  /\ Len(alerts) < MaxAlerts
  /\ req' = [req EXCEPT ![h] = [Idle EXCEPT !.op = "age", !.plant = p]]
  /\ UNCHANGED <<now, producer, topic, con, table, alerts, faults>>

Resolve(i) ==
  /\ alerts' = [alerts EXCEPT ![i].resolved = TRUE]
  /\ UNCHANGED <<now, producer, topic, con, table, req, faults>>

-----------------------------------------------------------------------------
Consume == Poll \/ Take \/ Step(Consumer)

Next ==
  \/ Tick
  \/ StartTick \/ ReadAndPublish \/ ReadFails \/ PublishUnconfirmed
  \/ StartConsumer \/ Consume \/ AutoCommit \/ Crash
  \/ \E h \in Api : \/ Step(h)
                    \/ \E p \in Plants, t \in Times : PostReading(h, p, t)
                    \/ GetAlerts(h)
                    \/ \E p \in Plants : GetDashboard(h, p)
  \/ \E h \in Slots : DbError(h)
  \/ \E i \in DOMAIN alerts : Resolve(i)

Spec == Init /\ [][Next]_vars

\* SensorConsumer.run_forever polls for ever and swallows what a message raises.
\* Nothing is assumed of the producer, of users or of a dead consumer.
FairSpec == Spec /\ WF_vars(Consume)

-----------------------------------------------------------------------------
\* One checker does not repeat an open alert within the cooldown.  Several checkers
\* (consumer, GET /alerts, dashboard) may each raise one: look-up and insert are separate.
NoAlertStorm ==
  \A i, j \in DOMAIN alerts :
    /\ i < j
    /\ alerts[i].plant = alerts[j].plant /\ alerts[i].type = alerts[j].type
    /\ alerts[i].by = alerts[j].by
    /\ ~alerts[i].resolved /\ ~alerts[j].resolved
    => alerts[j].created >= alerts[i].created + Cooldown

\* Why: a slot about to raise found none of its own alerts still cooling down, and only
\* the slot itself adds to those.
AboutToRaise ==
  \A h \in Slots : req[h].op = "raise" =>
    \A i \in OpenAlerts(h) : alerts[i].by = h => now >= alerts[i].created + Cooldown

AlertInv == NoAlertStorm /\ AboutToRaise

\* An unhealthy reading does not stay the newest of its plant unnoticed: once the
\* consumer is through with it, the plant has, or had, an alert (RUNBOOK E6).
BadIsFlagged ==
  faults = 0 /\ req[Consumer].op = "idle" =>
    \A p \in Plants :
      StoredTimes(p) # {} /\ rows[p][Newest(p)] \in Unhealthy =>
        \E i \in DOMAIN alerts :
          alerts[i].plant = p /\ alerts[i].type \in {"data_quality", "stream_stale"}

\* Of the messages about one plant and time the last one wins, column by column, once the
\* consumer is through: what it does not win, a reading posted to the API has won.  An
\* earlier message survives in no column, but the row may be a mixture of both writers'.
RowIsNewest ==
  faults = 0 /\ con.up /\ con.done = Len(topic) =>
    \A i \in DOMAIN topic :
      LET m == topic[i] IN
      /\ \A j \in DOMAIN topic : topic[j].plant = m.plant /\ topic[j].time = m.time => j <= i
      /\ rows[m.plant][m.time] # "none"
      => /\ rows[m.plant][m.time] \in {m.quality, "unset"}
         /\ sources[m.plant][m.time] = "plant" => m.source = "plant"

\* Every message ahead of a running consumer is stored, unless something fails.
PublishedIsStored ==
  \A i \in 1 .. MaxSent :
    [](i \in DOMAIN topic /\ con.up /\ con.done < i =>
         <>(\/ faults > 0
            \/ i \in DOMAIN topic /\ rows[topic[i].plant][topic[i].time] # "none"))
=============================================================================
