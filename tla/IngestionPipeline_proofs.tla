---------------------- MODULE IngestionPipeline_proofs ----------------------
(***************************************************************************)
(* Theorems about IngestionPipeline, for any plants, any number of API     *)
(* slots and any thresholds, and whatever the bounds.                      *)
(***************************************************************************)
EXTENDS IngestionPipeline, FiniteSetTheorems, WellFoundedInduction, TLAPS

-----------------------------------------------------------------------------
(* Type correctness.                                                       *)

LEMMA BoundsAreNat ==
  /\ Stale \in Nat /\ Cooldown \in Nat
  /\ MaxTime \in Nat /\ MaxSent \in Nat /\ MaxFaults \in Nat
BY PipelineAssumption

LEMMA IdleType ==
  /\ Idle \in Requests
  /\ Idle.op = "idle" /\ Idle.todo = <<>>
BY PipelineAssumption DEF Idle, Requests, Times, Written, Sources, Verdicts

\* What the fields of a request range over.
LEMMA RequestType ==
  ASSUME TypeOK, NEW h \in Slots
  PROVE  /\ req[h] \in Requests
         /\ req[h].op # "idle" => req[h].plant \in Plants
         /\ req[h].time \in Times
         /\ req[h].quality \in Written
         /\ req[h].source \in Sources
         /\ req[h].seen \in [quality : Written, source : Sources \cup {"none"}]
         /\ req[h].verdict \in Verdicts
         /\ req[h].todo \in Seq(Plants)
         /\ req[h].op \in {"find", "raise"} => req[h].verdict # "fresh"
         /\ h = Consumer => req[h].todo = <<>>
         /\ h = Consumer /\ req[h].op # "idle" => con.up /\ con.done < con.pos
BY DEF TypeOK, RequestOK, Requests

\* Giving a slot a well-formed request keeps req typed, as long as the consumer, when it
\* is another slot, keeps what it works on.
LEMMA SlotType ==
  ASSUME TypeOK, NEW h \in Slots, NEW q \in Requests,
         req' = [req EXCEPT ![h] = q],
         q.op # "idle" => q.plant \in Plants,
         q.op \in {"find", "raise"} => q.verdict # "fresh",
         h = Consumer => /\ q.todo = <<>>
                         /\ q.op # "idle" => con'.up /\ con'.done < con'.pos,
         h # Consumer => con' = con
  PROVE  /\ req' \in [Slots -> Requests]
         /\ \A g \in Slots : RequestOK(g)'
<1>1. req' \in [Slots -> Requests]
  BY DEF TypeOK
<1>2. ASSUME NEW g \in Slots PROVE RequestOK(g)'
  <2>1. CASE g = h
    BY <2>1 DEF TypeOK, RequestOK
  <2>2. CASE g # h
    <3>1. req'[g] = req[g] /\ RequestOK(g)
      BY <2>2 DEF TypeOK
    <3>2. g = Consumer => con' = con
      BY <2>2
    <3>. QED  BY <3>1, <3>2 DEF RequestOK
  <2>. QED  BY <2>1, <2>2
<1>. QED  BY <1>1, <1>2

LEMMA TableKept == ASSUME TypeOK, UNCHANGED table PROVE TableOK'
BY DEF TypeOK, TableOK, table

\* Requests stay well-formed where neither they nor the consumer change.
LEMMA RequestsKept ==
  ASSUME TypeOK, UNCHANGED <<req, con>>
  PROVE  req' \in [Slots -> Requests] /\ \A h \in Slots : RequestOK(h)'
BY DEF TypeOK, RequestOK

\* A message more leaves the consumer's offsets in order.
LEMMA TopicGrows ==
  ASSUME TypeOK, UNCHANGED con,
         topic' = topic \/ \E m \in Readings : topic' = Append(topic, m)
  PROVE  topic' \in Seq(Readings) /\ ConsumerOK'
<1>1. topic' \in Seq(Readings) /\ Len(topic) <= Len(topic')
  BY DEF TypeOK
<1>2. Len(topic) \in Nat /\ Len(topic') \in Nat
  BY <1>1 DEF TypeOK
<1>. QED  BY <1>1, <1>2 DEF TypeOK, ConsumerOK

\* The consumer is done with the message in hand.
LEMMA MessageDone ==
  ASSUME TypeOK, req[Consumer].op # "idle",
         con' = [con EXCEPT !.done = @ + 1], UNCHANGED topic
  PROVE  ConsumerOK'
<1>1. Consumer \in Slots
  BY DEF Slots
<1>2. con.done < con.pos
  BY <1>1, RequestType
<1>3. con \in [up : BOOLEAN, done : Nat, pos : Nat, committed : Nat \cup {-1}]
  BY DEF TypeOK, ConsumerOK
<1>4. /\ con' \in [up : BOOLEAN, done : Nat, pos : Nat, committed : Nat \cup {-1}]
      /\ con'.done = con.done + 1
      /\ con'.pos = con.pos /\ con'.committed = con.committed
  BY <1>3
<1>5. con'.done <= con'.pos
  BY <1>2, <1>3, <1>4
<1>6. con'.pos <= Len(topic') /\ con'.committed <= con'.pos
  BY <1>4 DEF TypeOK, ConsumerOK
<1>. QED  BY <1>4, <1>5, <1>6 DEF ConsumerOK

\* Ending a check or an upsert leaves an idle slot, or the next plant's check.
LEMMA FinishType ==
  ASSUME TypeOK, NEW h \in Slots, req[h].op # "idle", Finish(h), UNCHANGED topic
  PROVE  /\ req' \in [Slots -> Requests]
         /\ \A g \in Slots : RequestOK(g)'
         /\ ConsumerOK'
<1>. DEFINE q == IF req[h].todo = <<>> THEN Idle
                 ELSE [Idle EXCEPT !.op = "age", !.plant = Head(req[h].todo),
                                   !.todo = Tail(req[h].todo)]
<1>1. req' = [req EXCEPT ![h] = q]
  BY DEF Finish, TypeOK
<1>2. /\ q \in Requests
      /\ q.op # "idle" => q.plant \in Plants
      /\ q.op \notin {"find", "raise"}
      /\ h = Consumer => q.op = "idle" /\ q.todo = <<>>
  <2>1. CASE req[h].todo = <<>>
    BY <2>1, IdleType
  <2>2. CASE req[h].todo # <<>>
    <3>1. Head(req[h].todo) \in Plants /\ Tail(req[h].todo) \in Seq(Plants)
      BY <2>2, RequestType
    <3>2. h # Consumer
      BY <2>2, RequestType
    <3>. QED  BY <2>2, <3>1, <3>2, IdleType DEF Requests, Idle
  <2>. QED  BY <2>1, <2>2
<1>3. h # Consumer => con' = con
  BY DEF Finish
<1>4. ConsumerOK'
  BY MessageDone DEF Finish, TypeOK, ConsumerOK
<1>. HIDE DEF q
<1>. QED  BY <1>1, <1>2, <1>3, <1>4, SlotType

\* A slot moves on to its next statement.
LEMMA NextStatementType ==
  ASSUME TypeOK, NEW h \in Slots, req[h].op # "idle", NEW q \in Requests,
         req' = [req EXCEPT ![h] = q],
         q.plant = req[h].plant, q.todo = req[h].todo,
         q.op \in {"find", "raise"} => q.verdict # "fresh",
         UNCHANGED <<con, topic>>
  PROVE  /\ req' \in [Slots -> Requests]
         /\ \A g \in Slots : RequestOK(g)'
         /\ ConsumerOK'
<1>1. ConsumerOK'
  BY DEF TypeOK, ConsumerOK
<1>. QED  BY <1>1, RequestType, SlotType

LEMMA UpsertedType ==
  ASSUME TypeOK, NEW h \in Slots, req[h].op # "idle", Upserted(h), UNCHANGED topic
  PROVE  /\ req' \in [Slots -> Requests]
         /\ \A g \in Slots : RequestOK(g)'
         /\ ConsumerOK'
<1>1. CASE h = Consumer
  <2>. DEFINE q == [Idle EXCEPT !.op = "age", !.plant = req[h].plant]
  <2>1. req' = [req EXCEPT ![h] = q] /\ UNCHANGED con
    BY <1>1 DEF Upserted
  <2>2. /\ q \in Requests /\ q.plant = req[h].plant /\ q.todo = <<>>
        /\ q.op \notin {"find", "raise"}
    BY RequestType, IdleType DEF Requests, Idle
  <2>3. q.todo = req[h].todo
    BY <1>1, <2>2, RequestType
  <2>. HIDE DEF q
  <2>. QED  BY <2>1, <2>2, <2>3, NextStatementType
<1>2. CASE h # Consumer
  BY <1>2, FinishType DEF Upserted
<1>. QED  BY <1>1, <1>2

\* Writing a reading, or those of its columns that differ, keeps the table typed.
LEMMA WrittenType ==
  ASSUME TypeOK, NEW h \in Slots, Insert(h) \/ Update(h)
  PROVE  TableOK'
<1>1. PICK p \in Plants, t \in Times : p = req[h].plant /\ t = req[h].time
  BY RequestType DEF Insert, Update
<1>2. req[h].quality \in Written /\ req[h].source \in Sources
  BY RequestType
<1>4. TableOK
  BY DEF TypeOK
<1>5. CASE Insert(h)
  <2>1. /\ rows' = [rows EXCEPT ![p][t] = req[h].quality]
        /\ sources' = [sources EXCEPT ![p][t] = req[h].source]
    BY <1>1, <1>5 DEF Insert
  <2>. QED  BY <1>2, <1>4, <2>1 DEF TableOK
<1>6. CASE Update(h)
  <2>1. rows' = rows \/ rows' = [rows EXCEPT ![p][t] = req[h].quality]
    BY <1>1, <1>6 DEF Update, Assigned
  <2>2. sources' = sources \/ sources' = [sources EXCEPT ![p][t] = req[h].source]
    BY <1>1, <1>6 DEF Update, Assigned
  <2>3. rows' \in [Plants -> [Times -> Written \cup {"none"}]]
    BY SMTT(30), <1>2, <1>4, <2>1 DEF TableOK
  <2>4. sources' \in [Plants -> [Times -> Sources \cup {"none"}]]
    BY SMTT(30), <1>2, <1>4, <2>2 DEF TableOK
  <2>. QED  BY <2>3, <2>4 DEF TableOK
<1>. QED  BY <1>5, <1>6

LEMMA StepType == ASSUME TypeOK, NEW h \in Slots, Step(h) PROVE TypeOK'
<1>1. CASE Insert(h) \/ Update(h)
  <2>1. /\ req[h].op # "idle" /\ Upserted(h)
        /\ UNCHANGED <<now, producer, topic, alerts, faults>>
    BY <1>1 DEF Insert, Update
  <2>. QED  BY <1>1, <2>1, UpsertedType, WrittenType DEF TypeOK
<1>3. CASE Conflict(h)
  <2>1. PICK p \in Plants, t \in Times : p = req[h].plant /\ t = req[h].time
    BY <1>3, RequestType DEF Conflict
  <2>2. PICK seen : seen = [quality |-> rows[p][t], source |-> sources[p][t]]
    OBVIOUS
  <2>. DEFINE q == [req[h] EXCEPT !.op = "update", !.seen = seen]
  <2>3. req' = [req EXCEPT ![h] = q]
    BY <1>3, <2>1, <2>2 DEF Conflict, TypeOK
  <2>4. seen \in [quality : Written, source : Sources \cup {"none"}]
    BY SMTT(30), <1>3, <2>1, <2>2 DEF Conflict, TypeOK, TableOK
  <2>5. /\ q \in Requests /\ q.plant = req[h].plant /\ q.todo = req[h].todo
        /\ q.op \notin {"find", "raise"}
    BY <2>4, RequestType DEF Requests
  <2>6. req[h].op # "idle"
    BY <1>3 DEF Conflict
  <2>. HIDE DEF q
  <2>. QED  BY ZenonT(60), <1>3, <2>3, <2>5, <2>6, NextStatementType, TableKept
            DEF Conflict, TypeOK
<1>4. CASE ReadAge(h)
  <2>1. PICK v \in Verdicts : req' = [req EXCEPT ![h].op = "quality", ![h].verdict = v]
    BY <1>4 DEF ReadAge, Verdicts
  <2>. DEFINE q == [req[h] EXCEPT !.op = "quality", !.verdict = v]
  <2>2. req' = [req EXCEPT ![h] = q]
    BY <2>1 DEF TypeOK
  <2>3. /\ q \in Requests /\ q.plant = req[h].plant /\ q.todo = req[h].todo
        /\ q.op \notin {"find", "raise"}
    BY RequestType DEF Requests
  <2>4. req[h].op # "idle"
    BY <1>4 DEF ReadAge
  <2>. HIDE DEF q
  <2>. QED  BY ZenonT(60), <1>4, <2>2, <2>3, <2>4, NextStatementType, TableKept DEF ReadAge, TypeOK
<1>5. CASE ReadQuality(h)
  <2>1. req[h].op # "idle"
    BY <1>5 DEF ReadQuality
  <2>2. CASE Finish(h)
    BY <1>5, <2>1, <2>2, FinishType, TableKept DEF ReadQuality, TypeOK
  <2>3. CASE ~Finish(h)
    <3>1. PICK v \in Verdicts \ {"fresh"} :
            UNCHANGED con /\ req' = [req EXCEPT ![h] = [req[h] EXCEPT !.op = "find", !.verdict = v]]
      <4>1. CASE req[h].verdict # "fresh"
        <5>1. req' = [req EXCEPT ![h] = [req[h] EXCEPT !.op = "find", !.verdict = req[h].verdict]]
          BY <1>5, <4>1, RequestType DEF ReadQuality, TypeOK, Requests
        <5>. QED  BY <1>5, <4>1, <5>1, RequestType DEF ReadQuality
      <4>2. CASE req[h].verdict = "fresh"
        <5>1. req' = [req EXCEPT ![h] = [req[h] EXCEPT !.op = "find", !.verdict = "bad_quality"]]
          BY <1>5, <2>3, <4>2 DEF ReadQuality, TypeOK
        <5>. QED  BY <1>5, <2>3, <4>2, <5>1 DEF ReadQuality, Verdicts
      <4>. QED  BY <4>1, <4>2
    <3>. DEFINE q == [req[h] EXCEPT !.op = "find", !.verdict = v]
    <3>2. /\ q \in Requests /\ q.plant = req[h].plant /\ q.todo = req[h].todo
          /\ q.verdict # "fresh"
      BY RequestType DEF Requests
    <3>3. req' = [req EXCEPT ![h] = q]
      BY <3>1
    <3>. HIDE DEF q
    <3>. QED  BY <1>5, <2>1, <3>1, <3>2, <3>3, NextStatementType, TableKept DEF ReadQuality, TypeOK
  <2>. QED  BY <2>2, <2>3
<1>6. CASE FindAlert(h)
  <2>1. req[h].op # "idle" /\ req[h].verdict # "fresh"
    BY <1>6, RequestType DEF FindAlert
  <2>2. CASE Finish(h)
    BY <1>6, <2>1, <2>2, FinishType, TableKept DEF FindAlert, TypeOK
  <2>3. CASE ~Finish(h)
    <3>. DEFINE q == [req[h] EXCEPT !.op = "raise"]
    <3>1. req' = [req EXCEPT ![h] = q] /\ UNCHANGED con
      BY <1>6, <2>3 DEF FindAlert, TypeOK
    <3>2. /\ q \in Requests /\ q.plant = req[h].plant /\ q.todo = req[h].todo
          /\ q.verdict # "fresh"
      BY <2>1, RequestType DEF Requests
    <3>. HIDE DEF q
    <3>. QED  BY <1>6, <2>1, <3>1, <3>2, NextStatementType, TableKept DEF FindAlert, TypeOK
  <2>. QED  BY <2>2, <2>3
<1>7. CASE RaiseAlert(h)
  <2>1. req[h].op # "idle" /\ req[h].verdict \in {"missing", "stale", "bad_quality"}
    BY <1>7, RequestType DEF RaiseAlert, Verdicts
  <2>2. [plant |-> req[h].plant, type |-> AlertType[req[h].verdict],
         created |-> now, resolved |-> FALSE, by |-> h] \in Alerts
    BY <2>1, RequestType DEF Alerts, AlertType, TypeOK
  <2>3. alerts' \in Seq(Alerts)
    BY <1>7, <2>2 DEF RaiseAlert, TypeOK
  <2>. QED  BY <1>7, <2>1, <2>3, FinishType, TableKept DEF RaiseAlert, TypeOK
<1>. QED  BY <1>1, <1>3, <1>4, <1>5, <1>6, <1>7 DEF Step

\* What the producer and the clock do touches no request.
LEMMA ProducerType ==
  ASSUME TypeOK, Tick \/ StartTick \/ ReadAndPublish \/ ReadFails \/ PublishUnconfirmed
  PROVE  TypeOK'
<1>1. UNCHANGED <<table, alerts, req, con>>
  BY DEF Tick, StartTick, ReadAndPublish, ReadFails, PublishUnconfirmed
<1>2. now' \in Times
  <2>1. CASE Tick
    BY <2>1, BoundsAreNat DEF TypeOK, Times, Tick
  <2>2. CASE ~Tick
    BY <2>2 DEF TypeOK, StartTick, ReadAndPublish, ReadFails, PublishUnconfirmed
  <2>. QED  BY <2>1, <2>2
<1>3. faults' \in 0 .. MaxFaults
  <2>1. CASE PublishUnconfirmed
    BY <2>1, BoundsAreNat DEF TypeOK, PublishUnconfirmed, Fault
  <2>2. CASE ~PublishUnconfirmed
    BY <2>2 DEF TypeOK, Tick, StartTick, ReadAndPublish, ReadFails
  <2>. QED  BY <2>1, <2>2
<1>4. producer' \in Seq(Plants)
  <2>1. CASE ReadAndPublish \/ PublishUnconfirmed \/ ReadFails
    <3>1. producer # <<>> /\ producer \in Seq(Plants)
      BY <2>1 DEF TypeOK, ReadAndPublish, PublishUnconfirmed, ReadFails
    <3>2. producer' = Tail(producer) \/ producer' = <<>>
      BY <2>1 DEF ReadAndPublish, PublishUnconfirmed, ReadFails
    <3>3. Tail(producer) \in Seq(Plants) /\ <<>> \in Seq(Plants)
      BY <3>1
    <3>. QED  BY <3>2, <3>3
  <2>2. CASE Tick \/ StartTick
    BY <2>2, PipelineAssumption DEF TypeOK, Tick, StartTick
  <2>. QED  BY <2>1, <2>2
<1>5. topic' = topic \/ \E m \in Readings : topic' = Append(topic, m)
  <2>1. ASSUME producer # <<>>, NEW t \in 0 .. now, NEW q \in Qualities
        PROVE  [plant |-> Head(producer), time |-> t, quality |-> q, source |-> "plant"]
                 \in Readings
    BY <2>1, PipelineAssumption DEF TypeOK, Times, Readings, Written, Sources
  <2>. QED  BY <2>1 DEF Tick, StartTick, ReadAndPublish, ReadFails, PublishUnconfirmed
<1>. QED  BY <1>1, <1>2, <1>3, <1>4, <1>5, TopicGrows, RequestsKept, TableKept DEF TypeOK

LEMMA ConsumerType ==
  ASSUME TypeOK, StartConsumer \/ Poll \/ AutoCommit \/ Take \/ Crash
  PROVE  TypeOK'
<1>0. Consumer \in Slots /\ con \in [up : BOOLEAN, done : Nat, pos : Nat, committed : Nat \cup {-1}]
  BY DEF Slots, TypeOK, ConsumerOK
<1>1. CASE StartConsumer \/ Poll \/ AutoCommit
  <2>1. ConsumerOK'
    <3>1. Len(topic) \in Nat /\ UNCHANGED topic
      BY <1>1 DEF TypeOK, StartConsumer, Poll, AutoCommit
    <3>2. CASE StartConsumer
      <4>. DEFINE start == IF con.committed = -1 THEN Len(topic) ELSE con.committed
      <4>1. start \in Nat /\ start <= Len(topic) /\ con.committed <= start
        BY <1>0, <3>1 DEF TypeOK, ConsumerOK
      <4>2. con' = [con EXCEPT !.up = TRUE, !.done = start, !.pos = start]
        BY <3>2 DEF StartConsumer
      <4>. HIDE DEF start
      <4>3. /\ con' \in [up : BOOLEAN, done : Nat, pos : Nat, committed : Nat \cup {-1}]
            /\ con'.done = start /\ con'.pos = start /\ con'.committed = con.committed
        BY <1>0, <4>1, <4>2
      <4>. QED  BY <3>1, <4>1, <4>3 DEF ConsumerOK
    <3>3. CASE Poll
      <4>1. con' = [con EXCEPT !.pos = Len(topic)]
        BY <3>3 DEF Poll
      <4>2. /\ con' \in [up : BOOLEAN, done : Nat, pos : Nat, committed : Nat \cup {-1}]
            /\ con'.done = con.done /\ con'.pos = Len(topic) /\ con'.committed = con.committed
        BY <1>0, <3>1, <4>1
      <4>. QED  BY <1>0, <3>1, <4>2 DEF TypeOK, ConsumerOK
    <3>4. CASE AutoCommit
      <4>1. con' = [con EXCEPT !.committed = con.pos]
        BY <3>4 DEF AutoCommit
      <4>2. /\ con' \in [up : BOOLEAN, done : Nat, pos : Nat, committed : Nat \cup {-1}]
            /\ con'.done = con.done /\ con'.pos = con.pos /\ con'.committed = con.pos
        BY <1>0, <4>1
      <4>. QED  BY <1>0, <3>1, <4>2 DEF TypeOK, ConsumerOK
    <3>. QED  BY <1>1, <3>2, <3>3, <3>4
  <2>2. UNCHANGED req
    BY <1>1 DEF StartConsumer, Poll, AutoCommit
  <2>3. req[Consumer].op # "idle" => con'.up /\ con'.done < con'.pos
    BY <1>0, <1>1, RequestType DEF StartConsumer, Poll, AutoCommit
  <2>4. ASSUME NEW h \in Slots PROVE RequestOK(h)'
    BY <2>2, <2>3 DEF TypeOK, RequestOK
  <2>. QED  BY <1>1, <2>1, <2>2, <2>4, TableKept DEF StartConsumer, Poll, AutoCommit, TypeOK
<1>2. CASE Take
  <2>. DEFINE m == topic[con.done + 1]
              q == [Idle EXCEPT !.op = "insert", !.plant = m.plant, !.time = m.time,
                                !.quality = m.quality, !.source = m.source]
  <2>1. m \in Readings
    BY <1>0, <1>2 DEF Take, TypeOK, ConsumerOK
  <2>2. q \in Requests /\ q.plant \in Plants /\ q.op = "insert" /\ q.todo = <<>>
    BY <2>1, IdleType DEF Readings, Requests, Idle
  <2>3. req' = [req EXCEPT ![Consumer] = q] /\ con' = con /\ con'.up /\ con'.done < con'.pos
    BY <1>2 DEF Take
  <2>. HIDE DEF q
  <2>. QED  BY ZenonT(60), <1>0, <1>2, <2>2, <2>3, SlotType, TableKept DEF Take, TypeOK, ConsumerOK
<1>3. CASE Crash
  <2>1. ConsumerOK'
    BY <1>0, <1>3 DEF TypeOK, ConsumerOK, Crash
  <2>2. faults' \in 0 .. MaxFaults
    BY <1>3, PipelineAssumption DEF Crash, Fault, TypeOK
  <2>3. req' = [req EXCEPT ![Consumer] = Idle]
    BY <1>3 DEF Crash
  <2>4. req' \in [Slots -> Requests] /\ \A g \in Slots : RequestOK(g)'
    BY <1>0, <2>3, IdleType, SlotType
  <2>. QED  BY <1>3, <2>1, <2>2, <2>4, TableKept DEF Crash, TypeOK
<1>. QED  BY <1>1, <1>2, <1>3

LEMMA DbErrorType == ASSUME TypeOK, NEW h \in Slots, DbError(h) PROVE TypeOK'
<1>1. req' = [req EXCEPT ![h] = Idle] /\ (h # Consumer => con' = con)
  BY DEF DbError
<1>2. req' \in [Slots -> Requests] /\ \A g \in Slots : RequestOK(g)'
  BY <1>1, IdleType, SlotType
<1>3. ConsumerOK'
  BY MessageDone DEF DbError, TypeOK, ConsumerOK
<1>4. faults' \in 0 .. MaxFaults
  BY PipelineAssumption DEF DbError, Fault, TypeOK
<1>. QED  BY <1>2, <1>3, <1>4, TableKept DEF DbError, TypeOK

LEMMA ApiType ==
  ASSUME TypeOK, NEW h \in Api,
         \/ \E p \in Plants, t \in Times : PostReading(h, p, t)
         \/ GetAlerts(h)
         \/ \E p \in Plants : GetDashboard(h, p)
  PROVE  TypeOK'
<1>1. h \in Slots /\ h # Consumer
  BY PipelineAssumption DEF Slots
<1>2. ASSUME NEW p \in Plants, NEW t \in Times, PostReading(h, p, t) PROVE TypeOK'
  <2>. DEFINE q == [Idle EXCEPT !.op = "insert", !.plant = p, !.time = t]
  <2>1. req' = [req EXCEPT ![h] = q] /\ con' = con
    BY <1>2 DEF PostReading
  <2>2. q \in Requests /\ q.plant \in Plants /\ q.op = "insert"
    BY IdleType DEF Requests, Idle
  <2>3. [plant |-> p, time |-> t, quality |-> "unset", source |-> "api"] \in Readings
    BY DEF Readings, Written, Sources
  <2>4. topic' \in Seq(Readings) /\ ConsumerOK'
    BY <1>2, <2>1, <2>3, TopicGrows DEF PostReading
  <2>. HIDE DEF q
  <2>. QED  BY <1>1, <1>2, <2>1, <2>2, <2>4, SlotType, TableKept DEF PostReading, TypeOK
<1>3. ASSUME NEW q \in Requests, q.plant \in Plants, q.op = "age",
             req' = [req EXCEPT ![h] = q],
             UNCHANGED <<now, producer, topic, con, table, alerts, faults>>
      PROVE  TypeOK'
  BY <1>1, <1>3, SlotType, TableKept DEF TypeOK, ConsumerOK
<1>4. ASSUME GetAlerts(h) PROVE TypeOK'
  <2>. DEFINE q == [Idle EXCEPT !.op = "age", !.plant = Head(Order), !.todo = Tail(Order)]
  <2>1. Head(Order) \in Plants /\ Tail(Order) \in Seq(Plants)
    BY <1>4, PipelineAssumption DEF GetAlerts
  <2>2. q \in Requests /\ q.plant \in Plants /\ q.op = "age"
    BY <2>1, IdleType DEF Requests, Idle
  <2>3. req' = [req EXCEPT ![h] = q]
    BY <1>4 DEF GetAlerts
  <2>. HIDE DEF q
  <2>. QED  BY <1>3, <1>4, <2>2, <2>3 DEF GetAlerts
<1>5. ASSUME NEW p \in Plants, GetDashboard(h, p) PROVE TypeOK'
  <2>. DEFINE q == [Idle EXCEPT !.op = "age", !.plant = p]
  <2>1. q \in Requests /\ q.plant \in Plants /\ q.op = "age"
    BY IdleType DEF Requests, Idle
  <2>2. req' = [req EXCEPT ![h] = q]
    BY <1>5 DEF GetDashboard
  <2>. HIDE DEF q
  <2>. QED  BY <1>3, <1>5, <2>1, <2>2 DEF GetDashboard
<1>. QED  BY <1>2, <1>4, <1>5

LEMMA ResolveType == ASSUME TypeOK, NEW i \in DOMAIN alerts, Resolve(i) PROVE TypeOK'
<1>1. alerts \in Seq(Alerts) /\ alerts[i] \in Alerts
  BY DEF TypeOK
<1>2. [alerts[i] EXCEPT !.resolved = TRUE] \in Alerts
  BY <1>1 DEF Alerts
<1>3. alerts' = [alerts EXCEPT ![i] = [alerts[i] EXCEPT !.resolved = TRUE]]
  BY DEF Resolve
<1>4. alerts' \in Seq(Alerts)
  BY <1>1, <1>2, <1>3
<1>. QED  BY <1>4, RequestsKept, TableKept DEF Resolve, TypeOK, ConsumerOK

LEMMA NextType == TypeOK /\ [Next]_vars => TypeOK'
<1>. SUFFICES ASSUME TypeOK, [Next]_vars PROVE TypeOK'
  OBVIOUS
<1>1. CASE UNCHANGED vars
  BY <1>1, RequestsKept, TableKept DEF vars, TypeOK, ConsumerOK
<1>2. Consumer \in Slots /\ Api \subseteq Slots
  BY DEF Slots
<1>. QED  BY <1>1, <1>2, ProducerType, ConsumerType, StepType, ApiType, DbErrorType, ResolveType
          DEF Next, Consume

\* Every reachable state is well typed: offsets stay in order, whatever dies, and a
\* request in flight has what its next statement needs.
THEOREM TypeCorrect == Spec => []TypeOK
<1>1. Init => TypeOK
  <2>1. Init => ConsumerOK /\ \A h \in Slots : RequestOK(h)
    BY DEF Init, ConsumerOK, RequestOK, Idle
  <2>2. Init => TableOK
    BY DEF Init, TableOK
  <2>. QED  BY <2>1, <2>2, IdleType, PipelineAssumption DEF Init, TypeOK, Times
<1>. QED  BY <1>1, NextType, PTL DEF Spec

-----------------------------------------------------------------------------
(* Alerts.                                                                 *)

LEMMA FinishOp ==
  ASSUME TypeOK, NEW h \in Slots, Finish(h)
  PROVE  req'[h].op # "raise"
<1>. DEFINE q == IF req[h].todo = <<>> THEN Idle
                 ELSE [Idle EXCEPT !.op = "age", !.plant = Head(req[h].todo),
                                   !.todo = Tail(req[h].todo)]
<1>1. req' = [req EXCEPT ![h] = q]
  BY DEF Finish, TypeOK
<1>2. q.op \in {"idle", "age"}
  BY DEF Idle
<1>. HIDE DEF q
<1>. QED  BY <1>1, <1>2 DEF TypeOK

\* A step that leaves a slot short of raising, or already there, and adds no alert,
\* opens none of the alerts it looked at.
LEMMA QuietStep ==
  ASSUME TypeOK, AlertInv,
         \/ alerts' = alerts
         \/ \E i \in DOMAIN alerts : alerts' = [alerts EXCEPT ![i].resolved = TRUE],
         now' \in Nat, now <= now',
         \A h \in Slots : req'[h].op = "raise" => req'[h] = req[h]
  PROVE  AlertInv'
<1>1. /\ DOMAIN alerts' = DOMAIN alerts
      /\ \A i \in DOMAIN alerts :
           /\ alerts'[i].plant = alerts[i].plant /\ alerts'[i].type = alerts[i].type
           /\ alerts'[i].by = alerts[i].by /\ alerts'[i].created = alerts[i].created
           /\ alerts[i].resolved => alerts'[i].resolved
           /\ alerts[i] \in Alerts
  <2>1. alerts \in Seq(Alerts) /\ \A i \in DOMAIN alerts : alerts[i] \in Alerts
    BY DEF TypeOK
  <2>2. CASE alerts' = alerts
    BY <2>1, <2>2
  <2>3. ASSUME NEW k \in DOMAIN alerts, alerts' = [alerts EXCEPT ![k].resolved = TRUE]
        PROVE  /\ DOMAIN alerts' = DOMAIN alerts
               /\ \A i \in DOMAIN alerts \ {k} : alerts'[i] = alerts[i]
               /\ alerts'[k] = [alerts[k] EXCEPT !.resolved = TRUE]
    BY <2>1, <2>3
  <2>4. ASSUME NEW k \in DOMAIN alerts
        PROVE  LET b == [alerts[k] EXCEPT !.resolved = TRUE] IN
               /\ b.plant = alerts[k].plant /\ b.type = alerts[k].type
               /\ b.by = alerts[k].by /\ b.created = alerts[k].created /\ b.resolved
    BY <2>1 DEF Alerts
  <2>. QED  BY ZenonT(60), <2>1, <2>2, <2>3, <2>4
<1>2. NoAlertStorm'
  BY <1>1 DEF AlertInv, NoAlertStorm
<1>3. ASSUME NEW h \in Slots, req'[h].op = "raise", NEW i \in OpenAlerts(h)', alerts'[i].by = h
      PROVE  now' >= alerts'[i].created + Cooldown
  <2>1. req'[h] = req[h]
    BY <1>3
  <2>2. i \in OpenAlerts(h) /\ alerts[i].by = h
    BY <1>1, <1>3, <2>1 DEF OpenAlerts
  <2>3. now >= alerts[i].created + Cooldown
    BY <1>3, <2>1, <2>2 DEF AlertInv, AboutToRaise
  <2>4. alerts'[i].created = alerts[i].created /\ alerts[i].created \in Nat /\ now \in Nat
    BY <1>1, <2>2, BoundsAreNat DEF OpenAlerts, Alerts, Times, TypeOK
  <2>. QED  BY <2>3, <2>4, BoundsAreNat
<1>. QED  BY <1>2, <1>3 DEF AlertInv, AboutToRaise

\* One slot finds no alert that still cools down, and will raise one.
LEMMA DecideStep ==
  ASSUME TypeOK, AlertInv, NEW h \in Slots, FindAlert(h)
  PROVE  AlertInv'
<1>1. \A g \in Slots \ {h} : req'[g] = req[g]
  BY DEF FindAlert, Finish, TypeOK
<1>2. UNCHANGED <<alerts, now>> /\ now \in Nat
  BY BoundsAreNat DEF FindAlert, TypeOK, Times
<1>3. CASE req'[h].op # "raise"
  BY <1>1, <1>2, <1>3, QuietStep
<1>4. CASE req'[h].op = "raise"
  <2>1. ~Finish(h)
    BY <1>4, FinishOp
  <2>2. /\ req'[h].plant = req[h].plant /\ req'[h].verdict = req[h].verdict
        /\ \A i \in OpenAlerts(h) : ~(now < alerts[i].created + Cooldown)
    BY <2>1 DEF FindAlert, TypeOK, Requests
  <2>3. OpenAlerts(h)' = OpenAlerts(h)
    BY <1>2, <2>2 DEF OpenAlerts
  <2>4. \A i \in OpenAlerts(h) : alerts[i].created \in Nat
    <3>1. \A i \in OpenAlerts(h) : alerts[i] \in Alerts
      BY DEF OpenAlerts, TypeOK
    <3>. QED  BY <3>1, BoundsAreNat DEF Alerts, Times
  <2>5. \A i \in OpenAlerts(h) : now >= alerts[i].created + Cooldown
    BY <1>2, <2>2, <2>4, BoundsAreNat
  <2>6. ASSUME NEW g \in Slots \ {h}, req'[g].op = "raise"
        PROVE  req[g].op = "raise" /\ OpenAlerts(g)' = OpenAlerts(g)
    BY <1>1, <1>2, <2>6 DEF OpenAlerts
  <2>7. AboutToRaise'
    BY <1>2, <2>3, <2>5, <2>6 DEF AlertInv, AboutToRaise
  <2>8. NoAlertStorm'
    BY <1>2 DEF AlertInv, NoAlertStorm
  <2>. QED  BY <2>7, <2>8 DEF AlertInv
<1>. QED  BY <1>3, <1>4

\* The alert it then raises is the newest of its kind, its own earlier ones being older
\* than the cooldown; what other slots are about to raise does not look at it.
LEMMA RaiseStep ==
  ASSUME TypeOK, AlertInv, NEW h \in Slots, RaiseAlert(h)
  PROVE  AlertInv'
<1>. DEFINE a == [plant |-> req[h].plant, type |-> AlertType[req[h].verdict],
                  created |-> now, resolved |-> FALSE, by |-> h]
            n == Len(alerts) + 1
<1>1. alerts' = Append(alerts, a) /\ now' = now /\ req[h].op = "raise"
  BY DEF RaiseAlert
<1>2. /\ DOMAIN alerts' = DOMAIN alerts \cup {n} /\ alerts'[n] = a
      /\ \A i \in DOMAIN alerts : alerts'[i] = alerts[i] /\ i < n
  BY <1>1 DEF TypeOK
<1>3. (\A g \in Slots \ {h} : req'[g] = req[g]) /\ req'[h].op # "raise"
  BY DEF RaiseAlert, Finish, Idle, TypeOK
<1>4. /\ a.plant = req[h].plant /\ a.type = AlertType[req[h].verdict]
      /\ a.created = now /\ a.by = h
  OBVIOUS
<1>. HIDE DEF a, n
<1>5. ASSUME NEW i \in DOMAIN alerts,
             alerts[i].plant = a.plant, alerts[i].type = a.type, alerts[i].by = h,
             ~alerts[i].resolved
      PROVE  now >= alerts[i].created + Cooldown
  <2>1. i \in OpenAlerts(h)
    BY <1>4, <1>5 DEF OpenAlerts
  <2>. QED  BY <1>1, <1>5, <2>1 DEF AlertInv, AboutToRaise
<1>6. NoAlertStorm'
  <2>. SUFFICES ASSUME NEW i \in DOMAIN alerts', NEW j \in DOMAIN alerts', i < j,
                       alerts'[i].plant = alerts'[j].plant, alerts'[i].type = alerts'[j].type,
                       alerts'[i].by = alerts'[j].by,
                       ~alerts'[i].resolved, ~alerts'[j].resolved
                PROVE  alerts'[j].created >= alerts'[i].created + Cooldown
    BY DEF NoAlertStorm
  <2>1. i \in Nat /\ j \in Nat /\ n \in Nat
    BY DEF n, TypeOK, RaiseAlert
  <2>2. i \in DOMAIN alerts
    BY <1>2, <2>1
  <2>3. CASE j = n
    BY <1>2, <1>4, <1>5, <2>2, <2>3
  <2>4. CASE j # n
    <3>1. j \in DOMAIN alerts
      BY <1>2, <2>4
    <3>. QED  BY <1>2, <2>2, <3>1 DEF AlertInv, NoAlertStorm
  <2>. QED  BY <2>3, <2>4
<1>7. AboutToRaise'
  <2>. SUFFICES ASSUME NEW g \in Slots, req'[g].op = "raise",
                       NEW i \in OpenAlerts(g)', alerts'[i].by = g
                PROVE  now' >= alerts'[i].created + Cooldown
    BY DEF AboutToRaise
  <2>1. g # h /\ req'[g] = req[g]
    BY <1>3
  <2>2. i # n /\ i \in DOMAIN alerts
    BY <1>2, <1>4, <2>1 DEF OpenAlerts
  <2>3. i \in OpenAlerts(g) /\ alerts[i].by = g
    BY <1>2, <2>1, <2>2 DEF OpenAlerts
  <2>. QED  BY <1>1, <1>2, <2>1, <2>2, <2>3 DEF AlertInv, AboutToRaise
<1>. QED  BY <1>6, <1>7 DEF AlertInv

\* No other step brings a slot to the point of raising.
LEMMA OtherSteps ==
  ASSUME TypeOK, [Next]_vars,
         \A h \in Slots : ~FindAlert(h) /\ ~RaiseAlert(h)
  PROVE  /\ \/ alerts' = alerts
            \/ \E i \in DOMAIN alerts : alerts' = [alerts EXCEPT ![i].resolved = TRUE]
         /\ now' \in Nat /\ now <= now'
         /\ \A h \in Slots : req'[h].op = "raise" => req'[h] = req[h]
<1>0. now \in Nat
  BY BoundsAreNat DEF TypeOK, Times
<1>. DEFINE Quiet == /\ alerts' = alerts
                     /\ now' = now
                     /\ \A g \in Slots : req'[g].op = "raise" => req'[g] = req[g]
<1>1. CASE UNCHANGED vars
  BY <1>0, <1>1 DEF vars
<1>2. CASE Tick \/ StartTick \/ ReadAndPublish \/ ReadFails \/ PublishUnconfirmed
  BY <1>0, <1>2 DEF Tick, StartTick, ReadAndPublish, ReadFails, PublishUnconfirmed
<1>3. CASE StartConsumer \/ Poll \/ AutoCommit \/ Take \/ Crash
  <2>1. Quiet
    BY ZenonT(60), <1>3, IdleType DEF StartConsumer, Poll, AutoCommit, Take, Crash, TypeOK, Idle
  <2>. QED  BY <1>0, <2>1
<1>4. ASSUME NEW h \in Slots, Step(h) \/ DbError(h) PROVE Quiet
  <2>1. \A g \in Slots \ {h} : req'[g] = req[g]
    BY <1>4 DEF Step, Insert, Conflict, Update, ReadAge, ReadQuality, FindAlert, RaiseAlert,
                DbError, Upserted, Finish, TypeOK
  <2>2. UNCHANGED <<alerts, now>>
    BY <1>4 DEF Step, Insert, Conflict, Update, ReadAge, ReadQuality, DbError
  <2>3. req'[h].op # "raise"
    <3>1. Finish(h) \/ DbError(h) => req'[h].op # "raise"
      BY FinishOp DEF DbError, Idle, TypeOK
    <3>2. Insert(h) \/ Update(h) => req'[h].op # "raise"
      BY <3>1 DEF Insert, Update, Upserted, Idle, TypeOK
    <3>3. Conflict(h) \/ ReadAge(h) \/ ReadQuality(h) => req'[h].op # "raise"
      BY <3>1, RequestType DEF Conflict, ReadAge, ReadQuality, TypeOK, Requests
    <3>. QED  BY <1>4, <3>1, <3>2, <3>3 DEF Step
  <2>. QED  BY <2>1, <2>2, <2>3
<1>5. ASSUME NEW h \in Api,
             \/ \E p \in Plants, t \in Times : PostReading(h, p, t)
             \/ GetAlerts(h)
             \/ \E p \in Plants : GetDashboard(h, p)
      PROVE  Quiet
  BY <1>5 DEF PostReading, GetAlerts, GetDashboard, TypeOK, Idle, Slots
<1>6. ASSUME NEW i \in DOMAIN alerts, Resolve(i)
      PROVE  /\ alerts' = [alerts EXCEPT ![i].resolved = TRUE]
             /\ UNCHANGED <<now, req>>
  BY <1>6 DEF Resolve
<1>7. Consumer \in Slots /\ Api \subseteq Slots
  BY DEF Slots
<1>8. CASE \E h \in Slots : Step(h) \/ DbError(h)
  BY <1>0, <1>4, <1>8
<1>9. CASE \E h \in Api : \/ \E p \in Plants, t \in Times : PostReading(h, p, t)
                          \/ GetAlerts(h)
                          \/ \E p \in Plants : GetDashboard(h, p)
  BY <1>0, <1>5, <1>9
<1>10. CASE \E i \in DOMAIN alerts : Resolve(i)
  BY <1>0, <1>6, <1>10
<1>. QED  BY <1>1, <1>2, <1>3, <1>7, <1>8, <1>9, <1>10 DEF Next, Consume

\* No checker repeats an open alert within the cooldown, however many checkers race,
\* whatever is resolved meanwhile, and whoever dies between the look-up and the insert.
THEOREM AlertsHold == Spec => []NoAlertStorm
<1>1. Init => AlertInv
  BY DEF Init, Idle, AlertInv, NoAlertStorm, AboutToRaise
<1>2. TypeOK /\ AlertInv /\ [Next]_vars => AlertInv'
  <2>. SUFFICES ASSUME TypeOK, AlertInv, [Next]_vars PROVE AlertInv'
    OBVIOUS
  <2>1. CASE \E h \in Slots : FindAlert(h)
    BY <2>1, DecideStep
  <2>2. CASE \E h \in Slots : RaiseAlert(h)
    BY <2>2, RaiseStep
  <2>3. CASE \A h \in Slots : ~FindAlert(h) /\ ~RaiseAlert(h)
    BY <2>3, OtherSteps, QuietStep
  <2>. QED  BY <2>1, <2>2, <2>3
<1>3. AlertInv => NoAlertStorm
  BY DEF AlertInv
<1>. QED  BY <1>1, <1>2, <1>3, TypeCorrect, PTL DEF Spec

-----------------------------------------------------------------------------
(* What the table says is what was published last.                         *)

\* How many messages have been written: the one under check has been.
Stored ==
  IF req[Consumer].op \in {"age", "quality", "find", "raise"} THEN con.done + 1 ELSE con.done

\* Message j is the last one stored of plant p and time t.
LastOf(j, p, t) ==
  /\ j \in DOMAIN topic /\ j <= Stored
  /\ topic[j].plant = p /\ topic[j].time = t
  /\ \A k \in DOMAIN topic :
       j < k /\ k <= Stored => topic[k].plant # p \/ topic[k].time # t

\* What the API has not overwritten of a row comes from the last stored message of its key.
LastStored(p, t) ==
  /\ rows[p][t] \in Qualities =>
       \E j \in DOMAIN topic : LastOf(j, p, t) /\ topic[j].quality = rows[p][t]
  /\ sources[p][t] = "plant" =>
       \E j \in DOMAIN topic : LastOf(j, p, t) /\ topic[j].source = "plant"

\* A column of the row is as it was, or as the API writes it.
QualityKept(p, t) == rows'[p][t] = rows[p][t] \/ rows'[p][t] = "unset"
SourceKept(p, t)  == sources'[p][t] = sources[p][t] \/ sources'[p][t] = "api"

\* What the consumer writes is the message after those; since it has read the row nobody
\* has made it anything but what the API writes.
TakenIsNext ==
  LET q == req[Consumer]
      m == topic[con.done + 1]
  IN
  /\ q.op \in {"insert", "update"} =>
       /\ q.plant = m.plant /\ q.time = m.time
       /\ q.quality = m.quality /\ q.source = m.source
  /\ q.op = "update" =>
       /\ rows[q.plant][q.time] \in {q.seen.quality, "unset"}
       /\ sources[q.plant][q.time] \in {q.seen.source, "api"}

\* The API writes no quality, and that it was the API.
ApiUnset ==
  \A h \in Api : req[h].op \in {"insert", "update"} =>
                  req[h].quality = "unset" /\ req[h].source = "api"

\* Nothing the producer published is in the row.
Untouched(p, t) == rows[p][t] \notin Qualities /\ sources[p][t] # "plant"

RowInv ==
  faults = 0 =>
    /\ \A p \in Plants, t \in Times : LastStored(p, t)
    /\ TakenIsNext
    /\ ApiUnset
    /\ ~con.up => \A p \in Plants, t \in Times : Untouched(p, t)

LEMMA StoredType ==
  ASSUME TypeOK
  PROVE  /\ Stored \in Nat /\ Stored <= Len(topic) /\ Len(topic) \in Nat
         /\ DOMAIN topic = 1 .. Len(topic)
         /\ con.done \in Nat
         /\ req[Consumer].op # "idle" => con.done < Len(topic)
<1>1. Consumer \in Slots
  BY DEF Slots
<1>2. Len(topic) \in Nat /\ DOMAIN topic = 1 .. Len(topic)
  BY DEF TypeOK
<1>3. con.done \in Nat /\ con.pos \in Nat /\ con.done <= con.pos /\ con.pos <= Len(topic)
  BY DEF TypeOK, ConsumerOK
<1>4. req[Consumer].op # "idle" => con.done < con.pos
  BY <1>1, RequestType
<1>. QED  BY <1>2, <1>3, <1>4 DEF Stored

\* Messages are only added to the topic.
LEMMA TopicExtended ==
  ASSUME TypeOK, [Next]_vars
  PROVE  topic' = topic \/ \E m \in Readings : topic' = Append(topic, m)
<1>1. ASSUME producer # <<>>, NEW t \in 0 .. now, NEW q \in Qualities
      PROVE  [plant |-> Head(producer), time |-> t, quality |-> q, source |-> "plant"] \in Readings
  BY <1>1, PipelineAssumption DEF TypeOK, Times, Readings, Written, Sources
<1>2. CASE ReadAndPublish \/ PublishUnconfirmed
  BY <1>1, <1>2 DEF ReadAndPublish, PublishUnconfirmed
<1>3. ASSUME NEW h \in Api, NEW p \in Plants, NEW t \in Times, PostReading(h, p, t)
      PROVE  topic' = topic \/ \E m \in Readings : topic' = Append(topic, m)
  <2>1. [plant |-> p, time |-> t, quality |-> "unset", source |-> "api"] \in Readings
    BY DEF Readings, Written, Sources
  <2>. QED  BY <1>3, <2>1 DEF PostReading
<1>4. CASE Tick \/ StartTick \/ ReadFails \/ StartConsumer \/ Poll \/ Take \/ AutoCommit \/ Crash
           \/ UNCHANGED vars
  BY <1>4 DEF Tick, StartTick, ReadFails, StartConsumer, Poll, Take, AutoCommit, Crash, vars
<1>5. ASSUME NEW h \in Slots, Step(h) \/ DbError(h) PROVE topic' = topic
  BY <1>5 DEF Step, Insert, Conflict, Update, ReadAge, ReadQuality, FindAlert, RaiseAlert, DbError
<1>6. ASSUME NEW h \in Api, GetAlerts(h) \/ \E p \in Plants : GetDashboard(h, p)
      PROVE  topic' = topic
  BY <1>6 DEF GetAlerts, GetDashboard
<1>7. ASSUME NEW i \in DOMAIN alerts, Resolve(i) PROVE topic' = topic
  BY <1>7 DEF Resolve
<1>8. Consumer \in Slots /\ Api \subseteq Slots
  BY DEF Slots
<1>. QED  BY <1>2, <1>3, <1>4, <1>5, <1>6, <1>7, <1>8 DEF Next, Consume

LEMMA OffsetsKept ==
  ASSUME TypeOK, [Next]_vars
  PROVE  /\ DOMAIN topic \subseteq DOMAIN topic'
         /\ \A i \in DOMAIN topic : topic'[i] = topic[i]
         /\ \A i \in DOMAIN topic' : i \in Nat /\ (i <= Len(topic) => i \in DOMAIN topic)
<1>1. topic \in Seq(Readings)
  BY DEF TypeOK
<1>2. CASE topic' = topic
  BY <1>1, <1>2
<1>3. ASSUME NEW m \in Readings, topic' = Append(topic, m)
      PROVE  /\ DOMAIN topic \subseteq DOMAIN topic'
             /\ \A i \in DOMAIN topic : topic'[i] = topic[i]
             /\ \A i \in DOMAIN topic' : i \in Nat /\ (i <= Len(topic) => i \in DOMAIN topic)
  BY <1>1, <1>3
<1>. QED  BY <1>2, <1>3, TopicExtended

\* The last message of a key stays that while no more are stored, or only one of another.
LEMMA LastKept ==
  ASSUME TypeOK, [Next]_vars, NEW p \in Plants, NEW t \in Times, NEW j, LastOf(j, p, t),
         \/ Stored' = Stored
         \/ /\ Stored = con.done /\ Stored' = con.done + 1 /\ req[Consumer].op # "idle"
            /\ topic[con.done + 1].plant # p \/ topic[con.done + 1].time # t
  PROVE  LastOf(j, p, t)' /\ topic'[j] = topic[j] /\ j \in DOMAIN topic'
<1>1. /\ j \in DOMAIN topic /\ j \in DOMAIN topic' /\ topic'[j] = topic[j] /\ j \in Nat
      /\ j <= Stored /\ topic[j].plant = p /\ topic[j].time = t
  BY OffsetsKept DEF LastOf
<1>2. /\ con.done \in Nat /\ Len(topic) \in Nat /\ Stored \in Nat /\ Stored <= Len(topic)
      /\ req[Consumer].op # "idle" => con.done < Len(topic)
  BY StoredType
<1>3. j <= Stored' /\ Stored' <= Len(topic) /\ Stored' \in Nat
  BY <1>1, <1>2
<1>4. ASSUME NEW k \in DOMAIN topic', j < k, k <= Stored'
      PROVE  topic'[k].plant # p \/ topic'[k].time # t
  <2>1. k \in Nat /\ k <= Len(topic)
    <3>1. k \in Nat
      BY OffsetsKept
    <3>. QED  BY <1>3, <1>4, <3>1
  <2>2. k \in DOMAIN topic /\ topic'[k] = topic[k]
    BY <2>1, OffsetsKept
  <2>3. CASE k <= Stored
    BY <1>4, <2>2, <2>3 DEF LastOf
  <2>4. CASE ~(k <= Stored)
    <3>1. k = con.done + 1
      BY <1>2, <1>4, <2>1, <2>4
    <3>. QED  BY <1>2, <1>4, <2>1, <2>2, <2>4, <3>1
  <2>. QED  BY <2>3, <2>4
<1>. QED  BY <1>1, <1>3, <1>4 DEF LastOf

\* A key whose row is left alone, or overwritten by the API, keeps its last message; so does
\* one the message being stored is not about.
LEMMA KeyKept ==
  ASSUME TypeOK, [Next]_vars, NEW p \in Plants, NEW t \in Times, LastStored(p, t),
         \/ Stored' = Stored
         \/ /\ Stored = con.done /\ Stored' = con.done + 1 /\ req[Consumer].op # "idle"
            /\ topic[con.done + 1].plant # p \/ topic[con.done + 1].time # t,
         QualityKept(p, t), SourceKept(p, t)
  PROVE  LastStored(p, t)'
<1>0. "unset" \notin Qualities
  BY PipelineAssumption
<1>1. ASSUME rows'[p][t] \in Qualities
      PROVE  \E j \in DOMAIN topic' : LastOf(j, p, t)' /\ topic'[j].quality = rows'[p][t]
  <2>1. rows'[p][t] = rows[p][t]
    BY <1>0, <1>1 DEF QualityKept
  <2>2. PICK j \in DOMAIN topic : LastOf(j, p, t) /\ topic[j].quality = rows[p][t]
    BY <1>1, <2>1 DEF LastStored
  <2>3. LastOf(j, p, t)' /\ topic'[j] = topic[j] /\ j \in DOMAIN topic'
    BY <2>2, LastKept
  <2>. QED  BY <2>1, <2>2, <2>3
<1>2. ASSUME sources'[p][t] = "plant"
      PROVE  \E j \in DOMAIN topic' : LastOf(j, p, t)' /\ topic'[j].source = "plant"
  <2>1. PICK j \in DOMAIN topic : LastOf(j, p, t) /\ topic[j].source = "plant"
    BY <1>2 DEF LastStored, SourceKept
  <2>2. LastOf(j, p, t)' /\ topic'[j] = topic[j] /\ j \in DOMAIN topic'
    BY <2>1, LastKept
  <2>. QED  BY <2>1, <2>2
<1>. QED  BY <1>1, <1>2 DEF LastStored

\* The key of the message the consumer writes gets that message as its last.
LEMMA KeyWritten ==
  ASSUME TypeOK, [Next]_vars, NEW p \in Plants, NEW t \in Times,
         req[Consumer].op # "idle",
         Stored' = con.done + 1,
         topic[con.done + 1].plant = p, topic[con.done + 1].time = t,
         rows'[p][t] \in {topic[con.done + 1].quality, "unset"},
         sources'[p][t] \in {topic[con.done + 1].source, "api"}
  PROVE  LastStored(p, t)'
<1>1. con.done + 1 \in DOMAIN topic /\ con.done \in Nat
  BY StoredType
<1>2. con.done + 1 \in DOMAIN topic' /\ topic'[con.done + 1] = topic[con.done + 1]
  BY <1>1, OffsetsKept
<1>3. \A k \in DOMAIN topic' : ~(con.done + 1 < k /\ k <= con.done + 1)
  BY <1>1, OffsetsKept
<1>4. PICK j : j = con.done + 1
  OBVIOUS
<1>5. LastOf(j, p, t)' /\ topic'[j] = topic[con.done + 1] /\ j \in DOMAIN topic'
  BY <1>1, <1>2, <1>3, <1>4 DEF LastOf
<1>6. "unset" \notin Qualities
  BY PipelineAssumption
<1>. QED  BY <1>5, <1>6 DEF LastStored

\* What the consumer holds is left alone by the steps of others.
LEMMA TakenKept ==
  ASSUME TypeOK, [Next]_vars, TakenIsNext,
         req'[Consumer] = req[Consumer], con'.done = con.done,
         \A p \in Plants, t \in Times : QualityKept(p, t) /\ SourceKept(p, t)
  PROVE  TakenIsNext'
<1>1. CASE req[Consumer].op \notin {"insert", "update"}
  BY <1>1 DEF TakenIsNext
<1>2. CASE req[Consumer].op \in {"insert", "update"}
  <2>1. topic'[con.done + 1] = topic[con.done + 1]
    BY <1>2, StoredType, OffsetsKept
  <2>2. req[Consumer].plant \in Plants /\ req[Consumer].time \in Times
    BY <1>2, RequestType DEF Slots
  <2>3. QualityKept(req[Consumer].plant, req[Consumer].time)
        /\ SourceKept(req[Consumer].plant, req[Consumer].time)
    BY <2>2
  <2>. QED  BY <2>1, <2>3 DEF TakenIsNext, QualityKept, SourceKept
<1>. QED  BY <1>1, <1>2

\* A step that touches neither the table nor what the consumer and the API write.
LEMMA RowsLeftAlone ==
  ASSUME TypeOK, [Next]_vars, RowInv, faults' = 0 => faults = 0,
         req'[Consumer] = req[Consumer], con'.done = con.done, con.up => con'.up,
         \A p \in Plants, t \in Times : QualityKept(p, t) /\ SourceKept(p, t),
         \A h \in Api : \/ req'[h] = req[h]
                        \/ req'[h].op \in {"insert", "update"} =>
                             req'[h].quality = "unset" /\ req'[h].source = "api"
  PROVE  RowInv'
<1>. SUFFICES ASSUME faults = 0
              PROVE  /\ \A p \in Plants, t \in Times : LastStored(p, t)'
                     /\ TakenIsNext'
                     /\ ApiUnset'
                     /\ ~con'.up => \A p \in Plants, t \in Times : Untouched(p, t)'
  BY DEF RowInv
<1>0. "unset" \notin Qualities
  BY PipelineAssumption
<1>1. Stored' = Stored
  BY DEF Stored
<1>2. ASSUME NEW p \in Plants, NEW t \in Times PROVE LastStored(p, t)'
  <2>1. LastStored(p, t)
    BY DEF RowInv
  <2>. QED  BY <1>1, <2>1, KeyKept
<1>3. TakenIsNext'
  BY TakenKept DEF RowInv
<1>4. ApiUnset'
  BY DEF ApiUnset, RowInv
<1>5. ASSUME ~con'.up, NEW p \in Plants, NEW t \in Times PROVE Untouched(p, t)'
  <2>1. Untouched(p, t) /\ QualityKept(p, t) /\ SourceKept(p, t)
    BY <1>5 DEF RowInv
  <2>. QED  BY <1>0, <2>1 DEF Untouched, QualityKept, SourceKept
<1>. QED  BY <1>2, <1>3, <1>4, <1>5

\* A step of another slot: a row is left alone or gets what the API writes.
LEMMA ApiStep ==
  ASSUME TypeOK, ApiUnset, NEW h \in Api, Step(h)
  PROVE  /\ faults' = faults /\ con' = con
         /\ \A g \in Slots \ {h} : req'[g] = req[g]
         /\ \A p \in Plants, t \in Times : QualityKept(p, t) /\ SourceKept(p, t)
         /\ req'[h].op \in {"insert", "update"} =>
              req'[h].quality = "unset" /\ req'[h].source = "api"
<1>0. h \in Slots /\ Consumer \in Slots /\ h # Consumer
  BY PipelineAssumption DEF Slots
<1>2. faults' = faults /\ con' = con
  BY <1>0 DEF Step, Insert, Conflict, Update, ReadAge, ReadQuality, FindAlert, RaiseAlert,
              Upserted, Finish
<1>3. \A g \in Slots \ {h} : req'[g] = req[g]
  BY <1>0 DEF Step, Insert, Conflict, Update, ReadAge, ReadQuality, FindAlert, RaiseAlert,
              Upserted, Finish, TypeOK
<1>4. \A p \in Plants, t \in Times : QualityKept(p, t) /\ SourceKept(p, t)
  <2>1. CASE Insert(h) \/ Update(h)
    <3>1. req[h].quality = "unset" /\ req[h].source = "api"
      BY <2>1 DEF Insert, Update, ApiUnset
    <3>2. \/ rows' = rows
          \/ rows' = [rows EXCEPT ![req[h].plant][req[h].time] = "unset"]
      BY <2>1, <3>1 DEF Insert, Update, Assigned
    <3>3. \/ sources' = sources
          \/ sources' = [sources EXCEPT ![req[h].plant][req[h].time] = "api"]
      BY <2>1, <3>1 DEF Insert, Update, Assigned
    <3>4. /\ rows \in [Plants -> [Times -> Written \cup {"none"}]]
          /\ sources \in [Plants -> [Times -> Sources \cup {"none"}]]
      BY DEF TypeOK, TableOK
    <3>5. \A p \in Plants, t \in Times : QualityKept(p, t)
      BY <3>2, <3>4 DEF QualityKept
    <3>6. \A p \in Plants, t \in Times : SourceKept(p, t)
      BY <3>3, <3>4 DEF SourceKept
    <3>. QED  BY <3>5, <3>6
  <2>2. CASE ~Insert(h) /\ ~Update(h)
    BY <2>2 DEF table, Step, Conflict, ReadAge, ReadQuality, FindAlert, RaiseAlert,
                QualityKept, SourceKept
  <2>. QED  BY <2>1, <2>2
<1>5. req'[h].op \in {"insert", "update"} => req'[h].quality = "unset" /\ req'[h].source = "api"
  <2>1. CASE Conflict(h)
    <3>1. req[h].quality = "unset" /\ req[h].source = "api"
      BY <2>1 DEF Conflict, ApiUnset
    <3>2. req'[h].quality = req[h].quality /\ req'[h].source = req[h].source
      BY <1>0, <2>1, RequestType DEF Conflict, TypeOK, Requests
    <3>. QED  BY <3>1, <3>2
  <2>2. CASE Finish(h)
    BY <1>0, <2>2 DEF Finish, TypeOK, Idle
  <2>3. CASE ReadAge(h) \/ ReadQuality(h) \/ FindAlert(h) \/ RaiseAlert(h)
    <3>1. CASE req'[h].op \in {"quality", "find", "raise"}
      BY <3>1
    <3>2. CASE req'[h].op \notin {"quality", "find", "raise"}
      BY <1>0, <2>2, <2>3, <3>2, RequestType
         DEF ReadAge, ReadQuality, FindAlert, RaiseAlert, TypeOK, Requests
    <3>. QED  BY <3>1, <3>2
  <2>4. CASE Insert(h) \/ Update(h)
    BY <1>0, <2>2, <2>4 DEF Insert, Update, Upserted
  <2>. QED  BY <2>1, <2>3, <2>4 DEF Step
<1>. QED  BY <1>2, <1>3, <1>4, <1>5

LEMMA ApiStepRows ==
  ASSUME TypeOK, RowInv, faults = 0, NEW h \in Api, Step(h)
  PROVE  RowInv'
<1>1. [Next]_vars
  BY DEF Next
<1>2. Consumer # h /\ Consumer \in Slots
  BY PipelineAssumption DEF Slots
<1>3. ApiUnset
  BY DEF RowInv
<1>. QED  BY <1>1, <1>2, <1>3, ApiStep, RowsLeftAlone DEF Slots

\* A request comes in.
LEMMA ApiRequestRows ==
  ASSUME TypeOK, RowInv, faults = 0, NEW h \in Api,
         \/ \E p \in Plants, t \in Times : PostReading(h, p, t)
         \/ GetAlerts(h)
         \/ \E p \in Plants : GetDashboard(h, p)
  PROVE  RowInv'
<1>0. h \in Slots /\ Consumer \in Slots /\ h # Consumer
  BY PipelineAssumption DEF Slots
<1>1. [Next]_vars
  BY DEF Next
<1>2. /\ UNCHANGED <<faults, con, rows, sources>>
      /\ \A g \in Slots \ {h} : req'[g] = req[g]
  BY <1>0 DEF table, PostReading, GetAlerts, GetDashboard, TypeOK
<1>3. req'[h].quality = "unset" /\ req'[h].source = "api"
  <2>1. ASSUME NEW p \in Plants, NEW t \in Times, PostReading(h, p, t)
        PROVE  req'[h].quality = "unset" /\ req'[h].source = "api"
    BY <1>0, <2>1 DEF PostReading, TypeOK, Idle
  <2>2. ASSUME GetAlerts(h) PROVE req'[h].quality = "unset" /\ req'[h].source = "api"
    BY <1>0, <2>2 DEF GetAlerts, TypeOK, Idle
  <2>3. ASSUME NEW p \in Plants, GetDashboard(h, p)
       PROVE  req'[h].quality = "unset" /\ req'[h].source = "api"
    BY <1>0, <2>3 DEF GetDashboard, TypeOK, Idle
  <2>. QED  BY <2>1, <2>2, <2>3
<1>. QED  BY <1>0, <1>1, <1>2, <1>3, RowsLeftAlone DEF Slots, QualityKept, SourceKept

\* The consumer writes the message it holds.
LEMMA ConsumerWrites ==
  ASSUME TypeOK, RowInv, faults = 0, Insert(Consumer) \/ Update(Consumer)
  PROVE  RowInv'
<1>. DEFINE m == topic[con.done + 1]
<1>0. Consumer \in Slots /\ Consumer \notin Api
  BY PipelineAssumption DEF Slots
<1>1. [Next]_vars
  BY DEF Next, Consume, Step
<1>2. req[Consumer].op \in {"insert", "update"} /\ con.up
  BY <1>0, RequestType DEF Insert, Update
<1>3. /\ req[Consumer].plant = m.plant /\ req[Consumer].time = m.time
      /\ req[Consumer].quality = m.quality /\ req[Consumer].source = m.source
      /\ req[Consumer].op = "update" =>
           /\ rows[m.plant][m.time] \in {req[Consumer].seen.quality, "unset"}
           /\ sources[m.plant][m.time] \in {req[Consumer].seen.source, "api"}
  BY <1>2 DEF RowInv, TakenIsNext
<1>4. /\ req'[Consumer].op = "age" /\ con' = con /\ faults' = faults
      /\ \A g \in Slots \ {Consumer} : req'[g] = req[g]
  <2>1. con' = con /\ faults' = faults
    BY DEF Insert, Update, Upserted
  <2>2. req' = [req EXCEPT ![Consumer] = [Idle EXCEPT !.op = "age", !.plant = req[Consumer].plant]]
    BY DEF Insert, Update, Upserted
  <2>3. req \in [Slots -> Requests]
    BY DEF TypeOK
  <2>. QED  BY <1>0, <2>1, <2>2, <2>3 DEF Idle
<1>5. Stored = con.done /\ Stored' = con.done + 1
  BY <1>2, <1>4 DEF Stored
<1>6. m.plant \in Plants /\ m.time \in Times
  BY <1>0, <1>2, <1>3, RequestType
<1>7. \/ rows' = [rows EXCEPT ![m.plant][m.time] = m.quality]
      \/ rows' = rows /\ rows[m.plant][m.time] \in {m.quality, "unset"}
  BY <1>3 DEF Insert, Update, Assigned
<1>8. \/ sources' = [sources EXCEPT ![m.plant][m.time] = m.source]
      \/ sources' = sources /\ sources[m.plant][m.time] \in {m.source, "api"}
  BY <1>3 DEF Insert, Update, Assigned
<1>9. /\ rows \in [Plants -> [Times -> Written \cup {"none"}]]
      /\ sources \in [Plants -> [Times -> Sources \cup {"none"}]]
  BY DEF TypeOK, TableOK
<1>10. ASSUME NEW p \in Plants, NEW t \in Times PROVE LastStored(p, t)'
  <2>1. CASE p = m.plant /\ t = m.time
    <3>1. rows'[p][t] \in {m.quality, "unset"}
      BY <1>7, <1>9, <2>1
    <3>2. sources'[p][t] \in {m.source, "api"}
      BY <1>8, <1>9, <2>1
    <3>. QED  BY <1>1, <1>2, <1>5, <2>1, <3>1, <3>2, KeyWritten
  <2>2. CASE p # m.plant \/ t # m.time
    <3>1. rows'[p][t] = rows[p][t]
      BY <1>6, <1>7, <1>9, <2>2
    <3>2. sources'[p][t] = sources[p][t]
      BY <1>6, <1>8, <1>9, <2>2
    <3>3. LastStored(p, t) /\ QualityKept(p, t) /\ SourceKept(p, t)
      BY <3>1, <3>2 DEF RowInv, QualityKept, SourceKept
    <3>. QED  BY <1>1, <1>2, <1>5, <2>2, <3>3, KeyKept
  <2>. QED  BY <2>1, <2>2
<1>11. TakenIsNext'
  BY <1>4 DEF TakenIsNext
<1>12. ApiUnset'
  BY <1>0, <1>4 DEF ApiUnset, RowInv, Slots
<1>. QED  BY <1>2, <1>4, <1>10, <1>11, <1>12 DEF RowInv

\* The insert collided: the consumer loads the row it will update.
LEMMA ConsumerLoads ==
  ASSUME TypeOK, RowInv, faults = 0, Conflict(Consumer)
  PROVE  RowInv'
<1>0. Consumer \in Slots /\ Consumer \notin Api
  BY PipelineAssumption DEF Slots
<1>1. [Next]_vars
  BY DEF Next, Consume, Step
<1>2. /\ UNCHANGED <<topic, con, rows, sources, faults>>
      /\ \A g \in Slots \ {Consumer} : req'[g] = req[g]
  BY DEF table, Conflict, TypeOK
<1>3. /\ req[Consumer].op = "insert" /\ req'[Consumer].op = "update"
      /\ req'[Consumer].plant = req[Consumer].plant
      /\ req'[Consumer].time = req[Consumer].time
      /\ req'[Consumer].quality = req[Consumer].quality
      /\ req'[Consumer].source = req[Consumer].source
      /\ req'[Consumer].seen.quality = rows[req[Consumer].plant][req[Consumer].time]
      /\ req'[Consumer].seen.source = sources[req[Consumer].plant][req[Consumer].time]
  <2>1. PICK seen : seen = [quality |-> rows[req[Consumer].plant][req[Consumer].time],
                            source |-> sources[req[Consumer].plant][req[Consumer].time]]
    OBVIOUS
  <2>2. req[Consumer].op = "insert"
        /\ req' = [req EXCEPT ![Consumer].op = "update", ![Consumer].seen = seen]
    BY <2>1 DEF Conflict
  <2>3. /\ req'[Consumer].op = "update" /\ req'[Consumer].seen = seen
        /\ req'[Consumer].plant = req[Consumer].plant
        /\ req'[Consumer].time = req[Consumer].time
        /\ req'[Consumer].quality = req[Consumer].quality
        /\ req'[Consumer].source = req[Consumer].source
    BY <1>0, <2>2, RequestType DEF TypeOK, Requests
  <2>. QED  BY <2>1, <2>2, <2>3
<1>4. Stored' = Stored
  BY <1>2, <1>3 DEF Stored
<1>5. ASSUME NEW p \in Plants, NEW t \in Times PROVE LastStored(p, t)'
  <2>1. LastStored(p, t) /\ QualityKept(p, t) /\ SourceKept(p, t)
    BY <1>2 DEF RowInv, QualityKept, SourceKept
  <2>. QED  BY <1>1, <1>4, <2>1, KeyKept
<1>6. TakenIsNext'
  BY <1>2, <1>3 DEF TakenIsNext, RowInv
<1>7. ApiUnset'
  BY <1>0, <1>2 DEF ApiUnset, RowInv, Slots
<1>. QED  BY <1>2, <1>5, <1>6, <1>7 DEF RowInv, Untouched

\* The consumer takes a message, checks a plant, or is through with the message.
LEMMA ConsumerGoesOn ==
  ASSUME TypeOK, RowInv, faults = 0,
         Take \/ ReadAge(Consumer) \/ ReadQuality(Consumer) \/ FindAlert(Consumer)
              \/ RaiseAlert(Consumer)
  PROVE  RowInv'
<1>0. Consumer \in Slots /\ Consumer \notin Api
  BY PipelineAssumption DEF Slots
<1>1. [Next]_vars
  BY DEF Next, Consume, Step
<1>2. /\ UNCHANGED <<topic, rows, sources, faults>> /\ con'.up = con.up
      /\ \A g \in Slots \ {Consumer} : req'[g] = req[g]
  BY <1>0 DEF table, Take, ReadAge, ReadQuality, FindAlert, RaiseAlert, Finish, TypeOK, ConsumerOK
<1>3. ASSUME Take PROVE Stored' = Stored /\ TakenIsNext'
  <2>1. Stored' = Stored
    BY <1>0, <1>3 DEF Stored, Take, TypeOK, Idle
  <2>2. TakenIsNext'
    BY <1>0, <1>3 DEF TakenIsNext, Take, TypeOK, Idle
  <2>. QED  BY <2>1, <2>2
<1>4. ASSUME Finish(Consumer), ~Take PROVE Stored' = Stored /\ TakenIsNext'
  <2>1. req[Consumer].todo = <<>>
    BY <1>0, RequestType
  <2>2. req'[Consumer].op = "idle" /\ con'.done = con.done + 1
    BY <1>0, <1>4, <2>1 DEF Finish, TypeOK, ConsumerOK, Idle
  <2>3. req[Consumer].op \in {"age", "quality", "find", "raise"}
    BY <1>4 DEF ReadAge, ReadQuality, FindAlert, RaiseAlert
  <2>. QED  BY <2>2, <2>3 DEF Stored, TakenIsNext
<1>5. ASSUME ~Finish(Consumer), ~Take PROVE Stored' = Stored /\ TakenIsNext'
  <2>1. con' = con /\ req'[Consumer].op \in {"quality", "find", "raise"}
    BY <1>0, <1>5, RequestType
       DEF ReadAge, ReadQuality, FindAlert, RaiseAlert, TypeOK, Requests
  <2>2. req[Consumer].op \in {"age", "quality", "find", "raise"}
    BY <1>5 DEF ReadAge, ReadQuality, FindAlert, RaiseAlert
  <2>. QED  BY <2>1, <2>2 DEF Stored, TakenIsNext
<1>6. Stored' = Stored /\ TakenIsNext'
  BY <1>3, <1>4, <1>5
<1>7. ASSUME NEW p \in Plants, NEW t \in Times PROVE LastStored(p, t)'
  <2>1. LastStored(p, t) /\ QualityKept(p, t) /\ SourceKept(p, t)
    BY <1>2 DEF RowInv, QualityKept, SourceKept
  <2>. QED  BY <1>1, <1>6, <2>1, KeyKept
<1>8. ApiUnset'
  BY <1>0, <1>2 DEF ApiUnset, RowInv, Slots
<1>. QED  BY <1>2, <1>6, <1>7, <1>8 DEF RowInv, Untouched

\* A consumer that starts without a fault before it finds nothing published in the table.
LEMMA ConsumerStarts == ASSUME TypeOK, RowInv, faults = 0, StartConsumer PROVE RowInv'
<1>0. Consumer \in Slots
  BY DEF Slots
<1>1. /\ UNCHANGED <<rows, sources, req, topic, faults>> /\ con'.up
      /\ \A p \in Plants, t \in Times : Untouched(p, t)
  BY DEF table, StartConsumer, RowInv, TypeOK, ConsumerOK
<1>2. ~con.up /\ req[Consumer].op = "idle"
  BY <1>0, RequestType DEF StartConsumer
<1>3. \A p \in Plants, t \in Times : LastStored(p, t)'
  BY <1>1 DEF LastStored, Untouched
<1>. QED  BY <1>1, <1>2, <1>3 DEF RowInv, TakenIsNext, ApiUnset

\* A fault is counted for good.
LEMMA NoFault ==
  ASSUME TypeOK, [Next]_vars, faults' = 0
  PROVE  faults = 0 /\ ~PublishUnconfirmed /\ ~Crash /\ \A h \in Slots : ~DbError(h)
<1>0. faults \in Nat
  BY BoundsAreNat DEF TypeOK
<1>1. ~Fault
  BY <1>0 DEF Fault
<1>2. ~PublishUnconfirmed /\ ~Crash /\ \A h \in Slots : ~DbError(h)
  BY <1>1 DEF PublishUnconfirmed, Crash, DbError
<1>3. faults' = faults
  BY <1>2 DEF Next, Consume, Step, Tick, StartTick, ReadAndPublish, ReadFails, StartConsumer,
              Poll, Take, AutoCommit, Insert, Conflict, Update, ReadAge, ReadQuality,
              FindAlert, RaiseAlert, PostReading, GetAlerts, GetDashboard, Resolve, vars
<1>. QED  BY <1>2, <1>3

LEMMA RowInductive == TypeOK /\ RowInv /\ [Next]_vars => RowInv'
<1>. SUFFICES ASSUME TypeOK, RowInv, [Next]_vars PROVE RowInv'
  OBVIOUS
<1>1. CASE faults' # 0
  BY <1>1 DEF RowInv
<1>2. CASE faults' = 0
  <2>2. faults = 0 /\ ~PublishUnconfirmed /\ ~Crash /\ \A h \in Slots : ~DbError(h)
    BY <1>2, NoFault
  <2>3. CASE \/ Tick \/ StartTick \/ ReadAndPublish \/ ReadFails \/ Poll \/ AutoCommit
             \/ \E i \in DOMAIN alerts : Resolve(i)
             \/ UNCHANGED vars
    <3>1. UNCHANGED <<rows, sources, req>> /\ con'.up = con.up /\ con'.done = con.done
      BY <2>3 DEF table, Tick, StartTick, ReadAndPublish, ReadFails, Poll, AutoCommit,
                       Resolve, vars,
                  TypeOK, ConsumerOK
    <3>2. \A p \in Plants, t \in Times : QualityKept(p, t) /\ SourceKept(p, t)
      BY <3>1 DEF QualityKept, SourceKept
    <3>. QED  BY <2>2, <3>1, <3>2, RowsLeftAlone
  <2>4. CASE StartConsumer
    BY <2>2, <2>4, ConsumerStarts
  <2>5. CASE Take \/ Step(Consumer)
    BY <2>2, <2>5, ConsumerWrites, ConsumerLoads, ConsumerGoesOn DEF Step
  <2>6. ASSUME NEW h \in Api, Step(h) PROVE RowInv'
    BY <2>2, <2>6, ApiStepRows
  <2>7. ASSUME NEW h \in Api,
               \/ \E p \in Plants, t \in Times : PostReading(h, p, t)
               \/ GetAlerts(h)
               \/ \E p \in Plants : GetDashboard(h, p)
        PROVE  RowInv'
    BY <2>2, <2>7, ApiRequestRows
  <2>. QED  BY <2>2, <2>3, <2>4, <2>5, <2>6, <2>7 DEF Next, Consume
<1>. QED  BY <1>1, <1>2

LEMMA RowTrue == Spec => []RowInv
<1>1. Init => RowInv
  <2>1. "none" \notin Qualities
    BY PipelineAssumption
  <2>2. Consumer \in Slots /\ Api \subseteq Slots
    BY DEF Slots
  <2>. QED  BY <2>1, <2>2 DEF Init, Idle, RowInv, LastStored, Untouched, TakenIsNext, ApiUnset
<1>. QED  BY <1>1, RowInductive, TypeCorrect, PTL DEF Spec

\* Without a fault, once the consumer is through, no column of a row holds what was published
\* of its plant and time before the last message about it.  The API may have written any
\* column, or all, also between the consumer's insert that collided and its update.
THEOREM RowsHold == Spec => []RowIsNewest
<1>1. TypeOK /\ RowInv => RowIsNewest
  <2>. SUFFICES ASSUME TypeOK, RowInv PROVE RowIsNewest
    OBVIOUS
  <2>. SUFFICES ASSUME faults = 0, con.up, con.done = Len(topic),
                       NEW i \in DOMAIN topic,
                       NEW p \in Plants, NEW t \in Times,
                       p = topic[i].plant, t = topic[i].time,
                       \A j \in DOMAIN topic :
                         topic[j].plant = p /\ topic[j].time = t => j <= i,
                       rows[p][t] # "none"
                PROVE  /\ rows[p][t] \in {topic[i].quality, "unset"}
                       /\ sources[p][t] = "plant" => topic[i].source = "plant"
    <3>1. \A i \in DOMAIN topic : topic[i] \in Readings
      BY DEF TypeOK
    <3>2. \A i \in DOMAIN topic : topic[i].plant \in Plants /\ topic[i].time \in Times
      BY <3>1 DEF Readings
    <3>. QED  BY <3>2 DEF RowIsNewest
  <2>1. i \in Nat /\ i <= Len(topic)
    BY DEF TypeOK
  <2>2. Stored = con.done
    <3>1. req[Consumer].op = "idle"
      BY StoredType
    <3>. QED  BY <3>1 DEF Stored
  <2>3. LastStored(p, t)
    BY DEF RowInv
  <2>4. ASSUME NEW j \in DOMAIN topic, LastOf(j, p, t) PROVE j = i
    <3>1. j <= i /\ j \in Nat
      BY <2>4 DEF LastOf, TypeOK
    <3>2. ~(j < i)
      BY <2>1, <2>2, <2>4 DEF LastOf
    <3>. QED  BY <2>1, <3>1, <3>2
  <2>5. rows[p][t] \in Qualities \cup {"unset"}
    BY DEF TypeOK, TableOK, Written
  <2>. QED  BY <2>3, <2>4, <2>5 DEF LastStored
<1>. QED  BY <1>1, RowTrue, TypeCorrect, PTL

-----------------------------------------------------------------------------
(* No bad reading stays the newest unnoticed.                              *)

HasBad(p) == StoredTimes(p) # {} /\ rows[p][Newest(p)] \in Unhealthy

Flagged(p) ==
  \E i \in DOMAIN alerts :
    alerts[i].plant = p /\ alerts[i].type \in {"data_quality", "stream_stale"}

\* The consumer's check of the plant has still to come to its alert.
Checking(p) ==
  LET q == req[Consumer] IN
  /\ q.plant = p
  /\ \/ q.op = "age"
     \/ q.op = "quality" /\ q.verdict \in {"fresh", "stale"}
     \/ q.op \in {"find", "raise"} /\ q.verdict \in {"stale", "bad_quality"}

FlagInv == faults = 0 => \A p \in Plants : HasBad(p) => Flagged(p) \/ Checking(p)

\* A finite set of times has a newest.
LEMMA HasNewest ==
  ASSUME NEW S, S \subseteq Times, S # {}
  PROVE  \E t \in S : \A u \in S : u <= t
<1>. DEFINE Ages == {MaxTime - t : t \in S}
            R == OpToRel(<, Nat)
<1>0. MaxTime \in Nat /\ \A t \in S : t \in 0 .. MaxTime
  BY BoundsAreNat DEF Times
<1>1. IsWellFoundedOn(R, Nat)
  BY NatLessThanWellFounded
<1>2. Ages \subseteq Nat /\ Ages # {}
  <2>1. \A t \in S : MaxTime - t \in Nat
    BY <1>0
  <2>. QED  BY <2>1
<1>3. ASSUME NEW x \in Nat, NEW y \in Nat, <<y, x>> \notin R PROVE x <= y
  BY <1>3 DEF OpToRel
<1>. HIDE DEF R
<1>4. PICK x \in Ages : \A y \in Ages : <<y, x>> \notin R
  <2>. HIDE DEF Ages
  <2>. QED  BY <1>1, <1>2, WFMin
<1>5. PICK t \in S : x = MaxTime - t
  OBVIOUS
<1>6. ASSUME NEW u \in S PROVE u <= t
  <2>1. MaxTime - u \in Ages
    OBVIOUS
  <2>2. x <= MaxTime - u
    BY <1>2, <1>3, <1>4, <2>1
  <2>. QED  BY <1>0, <1>5, <2>2
<1>. QED  BY <1>6

\* Where nobody but the API writes, which sets no quality, no bad reading becomes the newest.
LEMMA BadIsOld ==
  ASSUME TypeOK, TypeOK', NEW p \in Plants, HasBad(p)',
         \A t \in Times : rows'[p][t] = rows[p][t] \/ rows'[p][t] = "unset"
  PROVE  HasBad(p)
<1>1. "unset" \notin Unhealthy /\ "none" \notin Unhealthy
  BY PipelineAssumption
<1>2. PICK n \in StoredTimes(p)' : \A u \in StoredTimes(p)' : u <= n
  <2>1. StoredTimes(p)' \subseteq Times /\ StoredTimes(p)' # {}
    BY DEF StoredTimes, HasBad
  <2>. QED  BY <2>1, HasNewest
<1>3. n \in Times /\ \A u \in Times : u \in Nat
  BY <1>2, BoundsAreNat DEF StoredTimes, Times
<1>4. Newest(p)' = n
  <2>1. \A t \in StoredTimes(p)' : t \in Nat
    BY <1>3 DEF StoredTimes
  <2>. QED  BY <1>2, <2>1 DEF Newest
<1>5. rows'[p][n] \in Unhealthy
  BY <1>4 DEF HasBad
<1>6. rows[p][n] = rows'[p][n] /\ n \in StoredTimes(p)
  BY <1>1, <1>3, <1>5 DEF StoredTimes
<1>7. \A u \in StoredTimes(p) : u <= n
  BY <1>2 DEF StoredTimes
<1>8. Newest(p) = n
  <2>1. \A t \in StoredTimes(p) : t \in Nat
    BY <1>3 DEF StoredTimes
  <2>. QED  BY <1>6, <1>7, <2>1 DEF Newest
<1>. QED  BY <1>5, <1>6, <1>8 DEF HasBad

\* Alerts do not go away.
LEMMA FlagKept ==
  ASSUME TypeOK, [Next]_vars, NEW p \in Plants, Flagged(p)
  PROVE  Flagged(p)'
<1>1. alerts \in Seq(Alerts)
  BY DEF TypeOK
<1>2. ASSUME NEW h \in Slots, RaiseAlert(h) PROVE Flagged(p)'
  <2>. DEFINE a == [plant |-> req[h].plant, type |-> AlertType[req[h].verdict],
                    created |-> now, resolved |-> FALSE, by |-> h]
  <2>1. alerts' = Append(alerts, a)
    BY <1>2 DEF RaiseAlert
  <2>. HIDE DEF a
  <2>2. \A i \in DOMAIN alerts : i \in DOMAIN alerts' /\ alerts'[i] = alerts[i]
    BY <1>1, <2>1
  <2>. QED  BY <2>2 DEF Flagged
<1>3. ASSUME NEW k \in DOMAIN alerts, Resolve(k) PROVE Flagged(p)'
  <2>1. alerts' = [alerts EXCEPT ![k].resolved = TRUE]
    BY <1>3 DEF Resolve
  <2>2. PICK i \in DOMAIN alerts :
          alerts[i].plant = p /\ alerts[i].type \in {"data_quality", "stream_stale"}
    BY DEF Flagged
  <2>3. alerts[k] \in Alerts
    BY <1>1
  <2>4. i \in DOMAIN alerts' /\ alerts'[i].plant = alerts[i].plant
        /\ alerts'[i].type = alerts[i].type
    BY <1>1, <2>1, <2>3 DEF Alerts
  <2>. QED  BY <2>2, <2>4 DEF Flagged
<1>4. CASE \A h \in Slots : ~RaiseAlert(h)
  <2>1. alerts' = alerts \/ \E i \in DOMAIN alerts : Resolve(i)
    BY <1>4 DEF Next, Consume, Step, Tick, StartTick, ReadAndPublish, ReadFails,
         PublishUnconfirmed, StartConsumer, Poll, Take, AutoCommit, Crash, Insert, Conflict,
         Update, ReadAge, ReadQuality, FindAlert, DbError, PostReading, GetAlerts,
         GetDashboard, vars, Slots
  <2>. QED  BY <1>3, <2>1 DEF Flagged
<1>. QED  BY <1>2, <1>4

\* Steps that do not bring a plant a bad reading, nor the consumer off its check.
LEMMA FlagsLeftAlone ==
  ASSUME TypeOK, TypeOK', FlagInv, faults = 0, [Next]_vars,
         \A p \in Plants, t \in Times : rows'[p][t] = rows[p][t] \/ rows'[p][t] = "unset",
         \A p \in Plants : HasBad(p) /\ Checking(p) => Flagged(p)' \/ Checking(p)'
  PROVE  FlagInv'
<1>1. ASSUME NEW p \in Plants, HasBad(p)' PROVE Flagged(p)' \/ Checking(p)'
  <2>1. HasBad(p)
    BY <1>1, BadIsOld
  <2>2. Flagged(p) => Flagged(p)'
    BY FlagKept
  <2>. QED  BY <2>1, <2>2 DEF FlagInv
<1>. QED  BY <1>1 DEF FlagInv

\* A reading the consumer writes is checked next; the other plants are not affected.
LEMMA WrittenIsChecked ==
  ASSUME TypeOK, TypeOK', FlagInv, faults = 0, Insert(Consumer) \/ Update(Consumer)
  PROVE  FlagInv'
<1>0. Consumer \in Slots /\ [Next]_vars
  BY DEF Slots, Next, Consume, Step
<1>1. req[Consumer].op \in {"insert", "update"}
  BY DEF Insert, Update
<1>2. req'[Consumer].op = "age" /\ req'[Consumer].plant = req[Consumer].plant
  <2>1. req' = [req EXCEPT ![Consumer] = [Idle EXCEPT !.op = "age", !.plant = req[Consumer].plant]]
    BY DEF Insert, Update, Upserted
  <2>2. req \in [Slots -> Requests]
    BY DEF TypeOK
  <2>. QED  BY <1>0, <2>1, <2>2 DEF Idle
<1>3. ASSUME NEW p \in Plants, HasBad(p)' PROVE Flagged(p)' \/ Checking(p)'
  <2>1. CASE p = req[Consumer].plant
    BY <1>2, <2>1 DEF Checking
  <2>2. CASE p # req[Consumer].plant
    <3>1. rows'[p] = rows[p]
      <4>1. \/ rows' = rows
            \/ \E t \in Times :
                 rows' = [rows EXCEPT ![req[Consumer].plant][t] = req[Consumer].quality]
        BY <1>0, RequestType DEF Insert, Update, Assigned
      <4>2. rows \in [Plants -> [Times -> Written \cup {"none"}]]
        BY DEF TypeOK, TableOK
      <4>. QED  BY <2>2, <4>1, <4>2
    <3>2. HasBad(p)
      BY <1>3, <3>1, BadIsOld
    <3>3. Flagged(p)
      BY <1>1, <3>2 DEF FlagInv, Checking
    <3>. QED  BY <1>0, <3>3, FlagKept
  <2>. QED  BY <2>1, <2>2
<1>. QED  BY <1>3 DEF FlagInv

\* A check of a plant with a bad reading goes on to its alert: the plant has a reading, so
\* nothing is missing, and what is fresh is bad.
LEMMA CheckGoesOn ==
  ASSUME TypeOK, NEW p \in Plants, HasBad(p), Checking(p),
         Take \/ Conflict(Consumer) \/ ReadAge(Consumer) \/ ReadQuality(Consumer)
              \/ FindAlert(Consumer) \/ RaiseAlert(Consumer)
  PROVE  Flagged(p)' \/ Checking(p)'
<1>0. /\ Consumer \in Slots /\ req \in [Slots -> Requests] /\ req[Consumer] \in Requests
      /\ req[Consumer].plant = p /\ alerts \in Seq(Alerts)
  BY DEF Slots, TypeOK, Checking
<1>1. CASE Take \/ Conflict(Consumer)
  BY <1>1 DEF Take, Conflict, Checking
<1>2. CASE ReadAge(Consumer)
  <2>1. PICK v \in {"stale", "fresh"} :
          req' = [req EXCEPT ![Consumer].op = "quality", ![Consumer].verdict = v]
    BY <1>0, <1>2 DEF ReadAge, HasBad
  <2>2. /\ req'[Consumer].op = "quality" /\ req'[Consumer].verdict = v
        /\ req'[Consumer].plant = req[Consumer].plant
    BY <1>0, <2>1 DEF Requests
  <2>. QED  BY <1>0, <2>2 DEF Checking
<1>3. CASE ReadQuality(Consumer)
  <2>1. req[Consumer].verdict \in {"fresh", "stale"}
    BY <1>3 DEF ReadQuality, Checking
  <2>2. PICK v \in {"stale", "bad_quality"} :
          req' = [req EXCEPT ![Consumer] = [req[Consumer] EXCEPT !.op = "find", !.verdict = v]]
    <3>1. CASE req[Consumer].verdict = "stale"
      <4>1. req' = [req EXCEPT ![Consumer].op = "find"]
        BY <1>3, <3>1 DEF ReadQuality
      <4>2. [req[Consumer] EXCEPT !.op = "find"]
              = [req[Consumer] EXCEPT !.op = "find", !.verdict = "stale"]
        BY <1>0, <3>1 DEF Requests
      <4>. QED  BY <1>0, <4>1, <4>2
    <3>2. CASE req[Consumer].verdict = "fresh"
      <4>1. req' = [req EXCEPT ![Consumer].op = "find", ![Consumer].verdict = "bad_quality"]
        BY <1>0, <1>3, <3>2 DEF ReadQuality, HasBad
      <4>. QED  BY <1>0, <4>1
    <3>. QED  BY <2>1, <3>1, <3>2
  <2>3. /\ req'[Consumer].op = "find" /\ req'[Consumer].verdict = v
        /\ req'[Consumer].plant = req[Consumer].plant
    BY <1>0, <2>2 DEF Requests
  <2>. QED  BY <1>0, <2>3 DEF Checking
<1>4. CASE FindAlert(Consumer)
  <2>1. req[Consumer].verdict \in {"stale", "bad_quality"}
    BY <1>4 DEF FindAlert, Checking
  <2>2. CASE OpenAlerts(Consumer) # {}
    <3>1. AlertType[req[Consumer].verdict] \in {"data_quality", "stream_stale"}
      BY <2>1 DEF AlertType
    <3>2. Flagged(p)
      BY <1>0, <2>2, <3>1 DEF Flagged, OpenAlerts
    <3>. QED  BY <1>4, <3>2 DEF Flagged, FindAlert
  <2>3. CASE OpenAlerts(Consumer) = {}
    <3>1. req' = [req EXCEPT ![Consumer].op = "raise"]
      BY <1>4, <2>3 DEF FindAlert
    <3>2. /\ req'[Consumer].op = "raise" /\ req'[Consumer].verdict = req[Consumer].verdict
          /\ req'[Consumer].plant = req[Consumer].plant
      BY <1>0, <3>1 DEF Requests
    <3>. QED  BY <1>0, <2>1, <3>2 DEF Checking
  <2>. QED  BY <2>2, <2>3
<1>5. CASE RaiseAlert(Consumer)
  <2>. DEFINE a == [plant |-> req[Consumer].plant, type |-> AlertType[req[Consumer].verdict],
                    created |-> now, resolved |-> FALSE, by |-> Consumer]
  <2>1. req[Consumer].verdict \in {"stale", "bad_quality"}
    BY <1>5 DEF RaiseAlert, Checking
  <2>2. a.plant = p /\ a.type \in {"data_quality", "stream_stale"}
    BY <1>0, <2>1 DEF AlertType
  <2>3. alerts' = Append(alerts, a)
    BY <1>5 DEF RaiseAlert
  <2>. HIDE DEF a
  <2>4. Len(alerts) + 1 \in DOMAIN alerts' /\ alerts'[Len(alerts) + 1] = a
    BY <1>0, <2>3
  <2>. QED  BY <2>2, <2>4 DEF Flagged
<1>. QED  BY <1>1, <1>2, <1>3, <1>4, <1>5

LEMMA FlagInductive == TypeOK /\ RowInv /\ FlagInv /\ [Next]_vars => FlagInv'
<1>. SUFFICES ASSUME TypeOK, RowInv, FlagInv, [Next]_vars PROVE FlagInv'
  OBVIOUS
<1>0. TypeOK'
  BY NextType
<1>1. CASE faults' # 0
  BY <1>1 DEF FlagInv
<1>2. CASE faults' = 0
  <2>1. /\ faults = 0
        /\ ~PublishUnconfirmed /\ ~Crash /\ \A h \in Slots : ~DbError(h)
    BY <1>2, NoFault
  <2>2. CASE \/ Tick \/ StartTick \/ ReadAndPublish \/ ReadFails \/ StartConsumer \/ Poll
             \/ AutoCommit \/ (\E i \in DOMAIN alerts : Resolve(i)) \/ UNCHANGED vars
    <3>1. UNCHANGED <<rows, req>>
      BY <2>2 DEF table, Tick, StartTick, ReadAndPublish, ReadFails, StartConsumer, Poll,
                       AutoCommit,
                  Resolve, vars
    <3>2. \A p \in Plants : Checking(p) => Checking(p)'
      BY <3>1 DEF Checking
    <3>. QED  BY <1>0, <2>1, <3>1, <3>2, FlagsLeftAlone
  <2>3. CASE Take \/ Conflict(Consumer) \/ ReadAge(Consumer) \/ ReadQuality(Consumer)
             \/ FindAlert(Consumer) \/ RaiseAlert(Consumer)
    <3>1. UNCHANGED rows
      BY <2>3 DEF table, Take, Conflict, ReadAge, ReadQuality, FindAlert, RaiseAlert
    <3>2. \A p \in Plants : HasBad(p) /\ Checking(p) => Flagged(p)' \/ Checking(p)'
      BY <2>3, CheckGoesOn
    <3>. QED  BY <1>0, <2>1, <3>1, <3>2, FlagsLeftAlone
  <2>4. CASE Insert(Consumer) \/ Update(Consumer)
    BY <1>0, <2>1, <2>4, WrittenIsChecked
  <2>5. ASSUME NEW h \in Api,
               \/ Step(h)
               \/ \E p \in Plants, t \in Times : PostReading(h, p, t)
               \/ GetAlerts(h)
               \/ \E p \in Plants : GetDashboard(h, p)
        PROVE  FlagInv'
    <3>1. ApiUnset
      BY <2>1 DEF RowInv
    <3>2. Consumer \in Slots \ {h}
      BY PipelineAssumption DEF Slots
    <3>3. /\ req'[Consumer] = req[Consumer]
          /\ \A p \in Plants, t \in Times : rows'[p][t] = rows[p][t] \/ rows'[p][t] = "unset"
      <4>1. CASE Step(h)
        BY <3>1, <3>2, <4>1, ApiStep DEF QualityKept
      <4>2. CASE ~Step(h)
        BY <2>5, <3>2, <4>2 DEF table, PostReading, GetAlerts, GetDashboard, TypeOK
      <4>. QED  BY <4>1, <4>2
    <3>4. \A p \in Plants : Checking(p) => Checking(p)'
      BY <3>3 DEF Checking
    <3>. QED  BY <1>0, <2>1, <3>3, <3>4, FlagsLeftAlone
  <2>. QED  BY <2>1, <2>2, <2>3, <2>4, <2>5 DEF Next, Consume, Step
<1>. QED  BY <1>1, <1>2

\* Without a fault, a plant whose newest reading is bad has, or had, an alert once the
\* consumer is idle: a posted reading sets no quality, so only the consumer's own upsert
\* can make a bad reading the newest, and its check comes after that.
THEOREM FlagsHold == Spec => []BadIsFlagged
<1>1. Init => FlagInv
  BY DEF Init, FlagInv, HasBad, StoredTimes
<1>2. TypeOK /\ FlagInv => BadIsFlagged
  <2>. SUFFICES ASSUME FlagInv, faults = 0, req[Consumer].op = "idle", NEW p \in Plants, HasBad(p)
                PROVE  Flagged(p)
    BY DEF BadIsFlagged, HasBad, Flagged
  <2>. QED  BY DEF FlagInv, Checking
<1>. QED  BY <1>1, <1>2, RowTrue, FlagInductive, TypeCorrect, PTL DEF Spec

-----------------------------------------------------------------------------
(* Whatever fails, the table invents nothing.                              *)

OnTopic(p, t, q) ==
  \E i \in DOMAIN topic : topic[i].plant = p /\ topic[i].time = t /\ topic[i].quality = q

\* A quality in the table was published of that plant and time, also after crashes, dropped
\* messages and collisions of both writers.
RowsWerePublished ==
  \A p \in Plants, t \in Times : rows[p][t] \in Qualities => OnTopic(p, t, rows[p][t])

Writing(h) == req[h].op \in {"insert", "update"}

\* So was a quality a slot is about to write.
WritesWerePublished ==
  \A h \in Slots : Writing(h) /\ req[h].quality \in Qualities =>
                     OnTopic(req[h].plant, req[h].time, req[h].quality)

LEMMA StaysOnTopic ==
  ASSUME TypeOK, [Next]_vars, NEW p, NEW t, NEW q, OnTopic(p, t, q)
  PROVE  OnTopic(p, t, q)'
BY OffsetsKept DEF OnTopic

\* A statement writes what its slot holds, and a slot goes on with what it holds.
LEMMA StepWrites ==
  ASSUME TypeOK, NEW h \in Slots, Step(h)
  PROVE  /\ \A g \in Slots \ {h} : req'[g] = req[g]
         /\ Writing(h)' => /\ Writing(h) /\ req'[h].plant = req[h].plant
                           /\ req'[h].time = req[h].time /\ req'[h].quality = req[h].quality
         /\ \A p \in Plants, t \in Times :
              \/ rows'[p][t] = rows[p][t]
              \/ /\ Writing(h) /\ p = req[h].plant /\ t = req[h].time
                 /\ rows'[p][t] = req[h].quality
<1>1. \A g \in Slots \ {h} : req'[g] = req[g]
  BY DEF Step, Insert, Conflict, Update, ReadAge, ReadQuality, FindAlert, RaiseAlert,
         Upserted, Finish, TypeOK
<1>2. ASSUME Finish(h) PROVE ~Writing(h)'
  BY <1>2 DEF Finish, TypeOK, Idle, Writing
<1>3. ASSUME Insert(h) \/ Update(h) PROVE ~Writing(h)'
  <2>1. CASE Finish(h)
    BY <1>2, <2>1
  <2>2. CASE req' = [req EXCEPT ![h] = [Idle EXCEPT !.op = "age", !.plant = req[h].plant]]
    BY <2>2 DEF TypeOK, Idle, Writing
  <2>. QED  BY <1>3, <2>1, <2>2 DEF Insert, Update, Upserted
<1>4. ASSUME Conflict(h)
      PROVE  /\ Writing(h) /\ req'[h].plant = req[h].plant
             /\ req'[h].time = req[h].time /\ req'[h].quality = req[h].quality
  BY <1>4, RequestType DEF Conflict, TypeOK, Requests, Writing
<1>5. ASSUME ReadAge(h) \/ ReadQuality(h) \/ FindAlert(h) \/ RaiseAlert(h), ~Finish(h)
      PROVE  ~Writing(h)'
  BY <1>5, RequestType DEF ReadAge, ReadQuality, FindAlert, RaiseAlert, TypeOK, Requests, Writing
<1>6. ASSUME Insert(h) \/ Update(h), NEW p \in Plants, NEW t \in Times
      PROVE  \/ rows'[p][t] = rows[p][t]
             \/ /\ Writing(h) /\ p = req[h].plant /\ t = req[h].time
                /\ rows'[p][t] = req[h].quality
  <2>1. \/ rows' = rows
        \/ rows' = [rows EXCEPT ![req[h].plant][req[h].time] = req[h].quality]
    BY <1>6 DEF Insert, Update, Assigned
  <2>2. rows \in [Plants -> [Times -> Written \cup {"none"}]]
    BY DEF TypeOK, TableOK
  <2>3. Writing(h)
    BY <1>6 DEF Insert, Update, Writing
  <2>. QED  BY <2>1, <2>2, <2>3
<1>7. ASSUME ~(Insert(h) \/ Update(h)) PROVE rows' = rows
  BY <1>7 DEF table, Step, Conflict, ReadAge, ReadQuality, FindAlert, RaiseAlert
<1>. QED  BY <1>1, <1>2, <1>3, <1>4, <1>5, <1>6, <1>7 DEF Step

\* A step that writes what was published, and lets slots hold nothing else.
LEMMA PublishedStep ==
  ASSUME TypeOK, [Next]_vars, RowsWerePublished, WritesWerePublished,
         \A p \in Plants, t \in Times :
           \/ rows'[p][t] = rows[p][t]
           \/ \E h \in Slots : /\ Writing(h) /\ p = req[h].plant /\ t = req[h].time
                               /\ rows'[p][t] = req[h].quality,
         \A h \in Slots : Writing(h)' =>
           \/ /\ Writing(h) /\ req'[h].plant = req[h].plant
              /\ req'[h].time = req[h].time /\ req'[h].quality = req[h].quality
           \/ req'[h].quality \notin Qualities
           \/ OnTopic(req'[h].plant, req'[h].time, req'[h].quality)
  PROVE  RowsWerePublished' /\ WritesWerePublished'
<1>1. ASSUME NEW p \in Plants, NEW t \in Times, rows'[p][t] \in Qualities
      PROVE  OnTopic(p, t, rows[p][t])'
  <2>1. PICK q : q = rows'[p][t]
    OBVIOUS
  <2>2. OnTopic(p, t, q)
    BY <1>1, <2>1 DEF RowsWerePublished, WritesWerePublished
  <2>3. OnTopic(p, t, q)'
    BY <2>2, StaysOnTopic
  <2>. QED  BY <2>1, <2>3 DEF OnTopic
<1>2. ASSUME NEW h \in Slots, Writing(h)', req'[h].quality \in Qualities
      PROVE  OnTopic(req[h].plant, req[h].time, req[h].quality)'
  <2>1. PICK p, t, q : p = req'[h].plant /\ t = req'[h].time /\ q = req'[h].quality
    OBVIOUS
  <2>2. OnTopic(p, t, q)
    BY <1>2, <2>1 DEF WritesWerePublished
  <2>3. OnTopic(p, t, q)'
    BY <2>2, StaysOnTopic
  <2>. QED  BY <2>1, <2>3 DEF OnTopic
<1>3. RowsWerePublished'
  BY <1>1 DEF RowsWerePublished
<1>4. WritesWerePublished'
  BY <1>2 DEF WritesWerePublished
<1>. QED  BY <1>3, <1>4

LEMMA PublishedNext ==
  ASSUME TypeOK, [Next]_vars, RowsWerePublished, WritesWerePublished
  PROVE  RowsWerePublished' /\ WritesWerePublished'
<1>0. Consumer \in Slots /\ Api \subseteq Slots /\ "unset" \notin Qualities
  BY PipelineAssumption DEF Slots
<1>1. ASSUME NEW h \in Slots, Step(h) PROVE RowsWerePublished' /\ WritesWerePublished'
  BY <1>1, StepWrites, PublishedStep DEF Writing
<1>2. CASE UNCHANGED <<rows, req>>
  BY <1>2, PublishedStep DEF Writing
<1>3. ASSUME UNCHANGED rows, NEW h \in Slots, \A g \in Slots \ {h} : req'[g] = req[g],
             \/ ~Writing(h)' \/ req'[h].quality \notin Qualities
             \/ OnTopic(req'[h].plant, req'[h].time, req'[h].quality)
      PROVE  RowsWerePublished' /\ WritesWerePublished'
  BY <1>3, PublishedStep DEF Writing
<1>4. CASE Take
  <2>1. con.done + 1 \in DOMAIN topic
    BY <1>4, StoredType DEF Take, TypeOK, ConsumerOK
  <2>2. PICK m : m = topic[con.done + 1]
    OBVIOUS
  <2>3. /\ req' = [req EXCEPT ![Consumer] = [Idle EXCEPT !.op = "insert", !.plant = m.plant,
                                                         !.time = m.time, !.quality = m.quality,
                                                         !.source = m.source]]
        /\ UNCHANGED rows
    BY <1>4, <2>2 DEF table, Take
  <2>4. /\ \A g \in Slots \ {Consumer} : req'[g] = req[g]
        /\ req'[Consumer].plant = m.plant /\ req'[Consumer].time = m.time
        /\ req'[Consumer].quality = m.quality
    BY <1>0, <2>3 DEF TypeOK, Idle
  <2>5. OnTopic(m.plant, m.time, m.quality)
    BY <2>1, <2>2 DEF OnTopic
  <2>. QED  BY <1>0, <1>3, <2>3, <2>4, <2>5
<1>5. ASSUME NEW h \in Slots, (Crash /\ h = Consumer) \/ DbError(h)
      PROVE  RowsWerePublished' /\ WritesWerePublished'
  <2>1. req' = [req EXCEPT ![h] = Idle] /\ UNCHANGED rows
    BY <1>5 DEF table, Crash, DbError
  <2>2. (\A g \in Slots \ {h} : req'[g] = req[g]) /\ ~Writing(h)'
    BY <2>1 DEF TypeOK, Idle, Writing
  <2>. QED  BY <1>3, <2>1, <2>2
<1>6. ASSUME NEW h \in Api,
             \/ \E p \in Plants, t \in Times : PostReading(h, p, t)
             \/ GetAlerts(h)
             \/ \E p \in Plants : GetDashboard(h, p)
      PROVE  RowsWerePublished' /\ WritesWerePublished'
  <2>1. UNCHANGED rows /\ \A g \in Slots \ {h} : req'[g] = req[g]
    BY <1>0, <1>6 DEF table, PostReading, GetAlerts, GetDashboard, TypeOK
  <2>2. req'[h].quality = "unset"
    <3>1. ASSUME NEW p \in Plants, NEW t \in Times, PostReading(h, p, t)
          PROVE  req'[h].quality = "unset"
      BY <1>0, <3>1 DEF PostReading, TypeOK, Idle
    <3>2. ASSUME GetAlerts(h) PROVE req'[h].quality = "unset"
      BY <1>0, <3>2 DEF GetAlerts, TypeOK, Idle
    <3>3. ASSUME NEW p \in Plants, GetDashboard(h, p) PROVE req'[h].quality = "unset"
      BY <1>0, <3>3 DEF GetDashboard, TypeOK, Idle
    <3>. QED  BY <1>6, <3>1, <3>2, <3>3
  <2>. QED  BY <1>0, <1>3, <2>1, <2>2
<1>7. CASE \/ Tick \/ StartTick \/ ReadAndPublish \/ ReadFails \/ PublishUnconfirmed
           \/ StartConsumer \/ Poll \/ AutoCommit \/ UNCHANGED vars
           \/ \E i \in DOMAIN alerts : Resolve(i)
  BY <1>2, <1>7 DEF table, Tick, StartTick, ReadAndPublish, ReadFails, PublishUnconfirmed,
                    StartConsumer, Poll, AutoCommit, Resolve, vars
<1>. QED  BY <1>0, <1>1, <1>4, <1>5, <1>6, <1>7 DEF Next, Consume

\* Whatever fails, collides or is dropped, the table holds no quality that was not
\* published of that plant and time.
THEOREM NothingInvented == Spec => []RowsWerePublished
<1>1. Init => RowsWerePublished /\ WritesWerePublished
  <2>1. "none" \notin Qualities
    BY PipelineAssumption
  <2>. QED  BY <2>1 DEF Init, Idle, RowsWerePublished, WritesWerePublished, Writing
<1>. QED  BY <1>1, PublishedNext, TypeCorrect, PTL DEF Spec

-----------------------------------------------------------------------------
(* How many alerts there may be.                                           *)

\* The open alerts of a plant and type that were raised in one cooldown from time t on.
OpenSince(p, type, t) ==
  {i \in DOMAIN alerts : /\ alerts[i].plant = p /\ alerts[i].type = type
                         /\ ~alerts[i].resolved
                         /\ t <= alerts[i].created /\ alerts[i].created < t + Cooldown}

\* There are no more of them than checkers: each raises one at most.
OneEach ==
  \A p \in Plants, type \in {"stream_missing", "stream_stale", "data_quality"}, t \in Nat :
    Cardinality(OpenSince(p, type, t)) <= Cardinality(Slots)

LEMMA StormBounded ==
  ASSUME IsFiniteSet(Slots), TypeOK, NoAlertStorm
  PROVE  OneEach
<1>. SUFFICES ASSUME NEW p \in Plants,
                     NEW type \in {"stream_missing", "stream_stale", "data_quality"},
                     NEW t \in Nat
              PROVE  Cardinality(OpenSince(p, type, t)) <= Cardinality(Slots)
  BY DEF OneEach
<1>. DEFINE S == OpenSince(p, type, t)
            f == [i \in S |-> alerts[i].by]
<1>0. DOMAIN alerts \subseteq Nat /\ \A i \in DOMAIN alerts : alerts[i] \in Alerts
  BY DEF TypeOK
<1>1. f \in [S -> Slots]
  BY <1>0 DEF OpenSince, Alerts
<1>2. ASSUME NEW i \in S, NEW j \in S, i < j, alerts[i].by = alerts[j].by PROVE FALSE
  <2>1. i \in DOMAIN alerts /\ j \in DOMAIN alerts
    BY DEF OpenSince
  <2>2. alerts[j].created >= alerts[i].created + Cooldown
    BY <1>2, <2>1 DEF OpenSince, NoAlertStorm
  <2>3. t <= alerts[i].created /\ alerts[j].created < t + Cooldown
    BY DEF OpenSince
  <2>4. alerts[i].created \in Nat /\ alerts[j].created \in Nat
    BY <1>0, <2>1, BoundsAreNat DEF Alerts, Times
  <2>. QED  BY <2>2, <2>3, <2>4, BoundsAreNat
<1>3. ASSUME NEW i \in S, NEW j \in S, f[i] = f[j] PROVE i = j
  <2>1. i \in Nat /\ j \in Nat
    BY <1>0 DEF OpenSince
  <2>2. ~(i < j) /\ ~(j < i)
    BY <1>2, <1>3
  <2>. QED  BY <2>1, <2>2
<1>4. f \in Injection(S, Slots)
  BY <1>1, <1>3 DEF Injection, IsInjective
<1>. HIDE DEF S, f
<1>5. Cardinality(S) <= Cardinality(Slots)
  BY <1>4, FS_Injection
<1>. QED  BY <1>5 DEF S

\* However many checkers look at a plant at once, in one cooldown each adds at most one
\* open alert of a kind.
THEOREM StormIsBounded ==
  ASSUME IsFiniteSet(Slots)
  PROVE  Spec => []OneEach
<1>1. TypeOK /\ NoAlertStorm => OneEach
  BY StormBounded
<1>. QED  BY <1>1, TypeCorrect, AlertsHold, PTL
=============================================================================
