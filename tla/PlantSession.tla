---------------------------- MODULE PlantSession ----------------------------
(***************************************************************************)
(* The long-lived OPC-UA session of one process and the readings made from *)
(* it (app/ingestion/opcua_session.py, read_opcua_plant of opcua_client.py *)
(* and quality.py).  Requests of the API, or the producer's tick, are      *)
(* tasks of one event loop: a step runs from one await to the next, and    *)
(* the subscription's notifications are handled between them.              *)
(***************************************************************************)
EXTENDS Integers

CONSTANTS
  Plants,     \* unit codes
  Fields,     \* SENSOR_FIELDS
  Mapped,     \* the plant and field pairs tags.yaml has a node for
  Slots,      \* tasks that read plants
  Configs,    \* settings a deployment may have
  Content,    \* what each node holds, version by version
  NoSlot, NoPlant, NoTag,
  MaxVersion, \* bound: changes of a node at the plant
  MaxFaults   \* bound: failed reads, lost connections and restarts of the process

Tags      == Plants \X Fields
Qualities == {"good", "unknown", "uncertain", "bad"}
Statuses  == {"good", "uncertain", "bad", "reserved", "none"}

ASSUME SessionAssumption ==
  /\ Mapped \subseteq Tags
  /\ NoSlot \notin Slots /\ NoPlant \notin Plants /\ NoTag \notin Tags
  /\ Configs \subseteq [mode : {"simulator", "opcua", "connect"}, endpoint : BOOLEAN,
                        subscribe : BOOLEAN, uncertain : BOOLEAN]
  /\ MaxVersion \in Nat \ {0} /\ MaxFaults \in Nat
  /\ Content \in [Tags -> [1 .. MaxVersion ->
                  [value : {"number", "null", "text"}, status : Statuses]]]

VARIABLES
  cfg,       \* PLANT_CONNECT and INGESTION_SOURCE, the OPC_UA_ settings
  node,      \* the version each node at the plant is at
  reachable, \* the server answers
  channel,   \* the client's connection: "none", "open" or "broken"
  monitored, \* tags the server reports changes of to this client
  notice,    \* per tag the notification on its way
  connected, \* PlantConnectSession._connected
  lock,      \* who holds PlantConnectSession._lock
  cache,     \* PlantConnectSession._cache
  task,      \* what each slot is doing
  reading,   \* what this step returned to a caller
  faults     \* of these so far

vars == <<cfg, node, reachable, channel, monitored, notice, connected, lock, cache, task,
          reading, faults>>
world == <<cfg, node, reachable, faults>>

\* A TagSample; "by" is "none" where the cache has no entry.
Samples == [version : 0 .. MaxVersion, value : BOOLEAN, quality : Qualities,
            by : {"none", "read", "notice"}]
Sampled  == [Fields -> Samples]
Readings == [source : {"none", "error", "simulator", "opcua"}, samples : Sampled,
             quality : Qualities, ok : BOOLEAN]

Connecting == {"dial", "subscribe", "seed", "store"}   \* under the lock
Tasks == [op : {"idle", "wait", "poll"} \cup Connecting, plant : Plants \cup {NoPlant},
          todo : SUBSET Tags,    \* tags left to subscribe or to poll
          tag : Tags \cup {NoTag}, got : Samples,
          out : Sampled]         \* what a poll has so far

\* Types; whoever connects holds the lock.
TypeOK ==
  /\ cfg \in Configs
  /\ node \in [Tags -> 1 .. MaxVersion]
  /\ reachable \in BOOLEAN
  /\ channel \in {"none", "open", "broken"}
  /\ monitored \subseteq Mapped
  /\ notice \in [Tags -> Samples]
  /\ connected \in BOOLEAN
  /\ lock \in Slots \cup {NoSlot}
  /\ cache \in [Plants -> Sampled]
  /\ task \in [Slots -> Tasks]
  /\ reading \in Readings
  /\ faults \in 0 .. MaxFaults
  /\ \A h \in Slots : /\ task[h].op \in Connecting <=> lock = h
                      /\ task[h].op # "idle" => task[h].plant \in Plants
                      /\ task[h].op \in {"seed", "store"} => task[h].tag \in Mapped
                      /\ task[h].todo \subseteq Mapped

-----------------------------------------------------------------------------
(* Samples, and the reading made of them.                                  *)

NoSample == [version |-> 0, value |-> FALSE, quality |-> "bad", by |-> "none"]
Nothing  == [f \in Fields |-> NoSample]
FailedRead == [NoSample EXCEPT !.by = "read"]

\* status_code_to_quality: the two severity bits; no status is unknown.
QualityOf ==
  [s \in Statuses |-> IF s \in {"good", "uncertain", "bad"} THEN s ELSE "unknown"]

\* A text where a number belongs is bad; no value at all keeps the status it came with.
SampleOf(t, version, by) ==
  LET c == Content[t][version]
  IN  [version |-> version, value |-> c.value = "number", by |-> by,
       quality |-> IF c.value = "text" THEN "bad" ELSE QualityOf[c.status]]

Fault == faults < MaxFaults /\ faults' = faults + 1

\* _read_datavalue gets sample s: any exception is a bad sample.
Answered(t, s) ==
  \/ channel = "open" /\ s = SampleOf(t, node[t], "read") /\ UNCHANGED faults
  \/ channel = "open" /\ s = FailedRead /\ Fault
  \/ channel # "open" /\ s = FailedRead /\ UNCHANGED faults

OfPlant(p) == {t \in Mapped : t[1] = p}

\* A field no sample came for is bad, and so is one without a node.
PerTag(p, samples) ==
  [f \in Fields |-> IF <<p, f>> \notin Mapped \/ samples[f].by = "none"
                    THEN "bad" ELSE samples[f].quality]

Rank == [q \in Qualities |-> CASE q = "good" -> 0 [] q = "unknown" -> 1
                               [] q = "uncertain" -> 2 [] q = "bad" -> 3]

\* aggregate_quality: the worst of the tags.
WorstOf(qualities) ==
  CHOOSE q \in qualities \cup {"good"} :
    \A other \in qualities \cup {"good"} : Rank[other] <= Rank[q]

Healthy(quality) == quality = "good" \/ (quality = "uncertain" /\ cfg.uncertain)

Blank(source) == [source |-> source, samples |-> Nothing, quality |-> "bad", ok |-> FALSE]
NoReading     == Blank("none")
Simulated     == [Blank("simulator") EXCEPT !.quality = "good", !.ok = TRUE]

\* Without PLANT_CONNECT a reading with a missing value is an error, with it a partial
\* reading.
ReadingOf(p, samples) ==
  LET perTag  == PerTag(p, samples)
      overall == WorstOf({perTag[f] : f \in Fields})
  IN  IF cfg.mode = "opcua" /\ \E f \in Fields : <<p, f>> \notin Mapped \/ ~samples[f].value
      THEN Blank("error")
      ELSE [source |-> "opcua", samples |-> samples, quality |-> overall, ok |-> Healthy(overall)]

-----------------------------------------------------------------------------
Idle == [op |-> "idle", plant |-> NoPlant, todo |-> {}, tag |-> NoTag, got |-> NoSample,
         out |-> Nothing]

Init ==
  /\ cfg \in Configs
  /\ node = [t \in Tags |-> 1]
  /\ reachable = TRUE
  /\ channel = "none"
  /\ monitored = {}
  /\ notice = [t \in Tags |-> NoSample]
  /\ connected = FALSE
  /\ lock = NoSlot
  /\ cache = [p \in Plants |-> Nothing]
  /\ task = [h \in Slots |-> Idle]
  /\ reading = NoReading
  /\ faults = 0

Finish(h, result) ==
  /\ reading' = result
  /\ task' = [task EXCEPT ![h] = Idle]

\* The rest of read_plant and of read_opcua_plant once the session is there: a plant
\* whose mapped fields are all cached is served from the cache, another is polled.
LookUp(h, p, cached) ==
  \/ /\ cfg.subscribe
     /\ \A t \in OfPlant(p) : cached[p][t[2]].by # "none"
     /\ Finish(h, ReadingOf(p, cached[p]))
  \/ /\ ~cfg.subscribe \/ \E t \in OfPlant(p) : cached[p][t[2]].by = "none"
     /\ task' = [task EXCEPT ![h] = [Idle EXCEPT !.op = "poll", !.plant = p, !.todo = OfPlant(p)]]
     /\ reading' = NoReading

UsesSession == cfg.mode # "simulator" /\ cfg.endpoint

\* read_opcua_plant up to the first await.  ensure asks for the flag without the lock.
Read(h, p) ==
  /\ task[h].op = "idle"
  /\ \/ /\ cfg.mode = "connect" /\ ~cfg.endpoint
        /\ Finish(h, Blank("error"))
     \/ /\ cfg.mode # "connect" /\ ~UsesSession
        /\ Finish(h, Simulated)
     \/ /\ UsesSession /\ connected
        /\ LookUp(h, p, cache)
     \/ /\ UsesSession /\ ~connected
        /\ task' = [task EXCEPT ![h] = [Idle EXCEPT !.op = "wait", !.plant = p]]
        /\ reading' = NoReading
  /\ UNCHANGED <<world, channel, monitored, notice, connected, lock, cache>>

\* Faulty: every waiter connects.
TakeLockUnchecked(h) ==
  /\ task[h].op = "wait"
  /\ lock = NoSlot
  /\ lock' = h
  /\ task' = [task EXCEPT ![h].op = "dial"]
  /\ reading' = NoReading
  /\ UNCHANGED <<world, channel, monitored, notice, connected, cache>>

\* connect under the lock: the flag is asked again.
TakeLock(h) ==
  /\ task[h].op = "wait"
  /\ lock = NoSlot
  /\ \/ /\ connected
        /\ LookUp(h, task[h].plant, cache)
        /\ UNCHANGED lock
     \/ /\ ~connected
        /\ lock' = h
        /\ task' = [task EXCEPT ![h].op = "dial"]
        /\ reading' = NoReading
  /\ UNCHANGED <<world, channel, monitored, notice, connected, cache>>

\* The session counts as connected from here on, subscribed or not.
Dial(h) ==
  /\ task[h].op = "dial"
  /\ reachable
  /\ channel' = "open"
  /\ connected' = TRUE
  /\ \/ /\ cfg.subscribe /\ Mapped # {}
        /\ task' = [task EXCEPT ![h].op = "subscribe", ![h].todo = Mapped]
        /\ reading' = NoReading
        /\ UNCHANGED lock
     \/ /\ ~cfg.subscribe \/ Mapped = {}
        /\ lock' = NoSlot
        /\ LookUp(h, task[h].plant, cache)
  /\ UNCHANGED <<world, monitored, notice, cache>>

\* Faulty: an exception leaves the lock held.
ConnectFailsLocked(h) ==
  /\ task[h].op \in {"dial", "subscribe"}
  /\ Finish(h, Blank("error"))
  /\ UNCHANGED <<world, channel, monitored, notice, connected, lock, cache>>

\* The server cannot be reached, or refuses a subscription or a node; only the first
\* leaves the session disconnected.
ConnectFails(h) ==
  /\ task[h].op \in {"dial", "subscribe"}
  /\ lock' = NoSlot
  /\ Finish(h, Blank("error"))
  /\ UNCHANGED <<world, channel, monitored, notice, connected, cache>>

\* The server reports the current value once, then every change.
Subscribe(h) ==
  /\ task[h].op = "subscribe"
  /\ channel = "open"
  /\ \E t \in task[h].todo :
       /\ monitored' = monitored \cup {t}
       /\ notice' = [notice EXCEPT ![t] = SampleOf(t, node[t], "notice")]
       /\ task' = [task EXCEPT ![h].op = "seed", ![h].tag = t, ![h].todo = @ \ {t}]
  /\ reading' = NoReading
  /\ UNCHANGED <<world, channel, connected, lock, cache>>

\* The server's answer to the seed read, still to be taken up by the task.
SeedRead(h) ==
  /\ task[h].op = "seed"
  /\ \E s \in {SampleOf(task[h].tag, node[task[h].tag], "read"), FailedRead} :
       /\ Answered(task[h].tag, s)
       /\ task' = [task EXCEPT ![h].op = "store", ![h].got = s]
  /\ reading' = NoReading
  /\ UNCHANGED <<cfg, node, reachable, channel, monitored, notice, connected, lock, cache>>

SeedStore(h) ==
  /\ task[h].op = "store"
  /\ cache' = [cache EXCEPT ![task[h].tag[1]][task[h].tag[2]] = task[h].got]
  /\ \/ /\ task[h].todo # {}
        /\ task' = [task EXCEPT ![h].op = "subscribe", ![h].tag = NoTag]
        /\ reading' = NoReading
        /\ UNCHANGED lock
     \/ /\ task[h].todo = {}
        /\ lock' = NoSlot
        /\ LookUp(h, task[h].plant, cache')
  /\ UNCHANGED <<world, channel, monitored, notice, connected>>

\* Faulty: a field that could not be read is read again.
PollReadAgain(h) ==
  /\ task[h].op = "poll"
  /\ \E t \in task[h].todo : \E s \in {SampleOf(t, node[t], "read"), FailedRead} :
       /\ Answered(t, s)
       /\ task' = [task EXCEPT ![h].todo = IF s = FailedRead THEN @ ELSE @ \ {t},
                               ![h].out = [@ EXCEPT ![t[2]] = s]]
  /\ reading' = NoReading
  /\ UNCHANGED <<cfg, node, reachable, channel, monitored, notice, connected, lock, cache>>

\* One field of a poll is answered.
PollRead(h) ==
  /\ task[h].op = "poll"
  /\ \E t \in task[h].todo : \E s \in {SampleOf(t, node[t], "read"), FailedRead} :
       /\ Answered(t, s)
       /\ task' = [task EXCEPT ![h].todo = @ \ {t}, ![h].out = [@ EXCEPT ![t[2]] = s]]
  /\ reading' = NoReading
  /\ UNCHANGED <<cfg, node, reachable, channel, monitored, notice, connected, lock, cache>>

\* The poll replaces what the cache has of the plant.
PollStore(h) ==
  /\ task[h].op = "poll"
  /\ task[h].todo = {}
  /\ cache' = [cache EXCEPT ![task[h].plant] = task[h].out]
  /\ Finish(h, ReadingOf(task[h].plant, task[h].out))
  /\ UNCHANGED <<world, channel, monitored, notice, connected, lock>>

\* Faulty: a field that has a sample keeps it.
DeliverOnce(t) ==
  /\ notice[t].by = "notice"
  /\ cache' = [cache EXCEPT ![t[1]][t[2]] = IF @.by = "notice" THEN @ ELSE notice[t]]
  /\ notice' = [notice EXCEPT ![t] = NoSample]
  /\ reading' = NoReading
  /\ UNCHANGED <<world, channel, monitored, connected, lock, task>>

\* datachange_notification and update_cache.
Deliver(t) ==
  /\ notice[t].by = "notice"
  /\ cache' = [cache EXCEPT ![t[1]][t[2]] = notice[t]]
  /\ notice' = [notice EXCEPT ![t] = NoSample]
  /\ reading' = NoReading
  /\ UNCHANGED <<world, channel, monitored, connected, lock, task>>

-----------------------------------------------------------------------------
(* The plant, the network and the process.                                 *)

\* A node changes; of a monitored one the newest value is reported (queue size 1).
Change(t) ==
  /\ node[t] < MaxVersion
  /\ node' = [node EXCEPT ![t] = @ + 1]
  /\ notice' = [notice EXCEPT ![t] =
       IF t \in monitored THEN SampleOf(t, node[t] + 1, "notice") ELSE @]
  /\ reading' = NoReading
  /\ UNCHANGED <<cfg, reachable, channel, monitored, connected, lock, cache, task, faults>>

\* Nothing reopens a broken channel: connect returns early while the flag is set.
LoseConnection ==
  /\ Fault
  /\ reachable
  /\ reachable' = FALSE
  /\ channel' = IF channel = "open" THEN "broken" ELSE channel
  /\ monitored' = {}
  /\ notice' = [t \in Tags |-> NoSample]
  /\ reading' = NoReading
  /\ UNCHANGED <<cfg, node, connected, lock, cache, task>>

Reachable ==
  /\ ~reachable
  /\ reachable' = TRUE
  /\ reading' = NoReading
  /\ UNCHANGED <<cfg, node, channel, monitored, notice, connected, lock, cache, task, faults>>

\* close_plant_session at shutdown, or a crash, and a new process.
Restart ==
  /\ Fault
  /\ channel' = "none"
  /\ monitored' = {}
  /\ notice' = [t \in Tags |-> NoSample]
  /\ connected' = FALSE
  /\ lock' = NoSlot
  /\ cache' = [p \in Plants |-> Nothing]
  /\ task' = [h \in Slots |-> Idle]
  /\ reading' = NoReading
  /\ UNCHANGED <<cfg, node, reachable>>

\* What a task that has started does next, but for waiting for the lock.
Step(h) ==
  \/ Dial(h) \/ ConnectFails(h) \/ Subscribe(h)
  \/ SeedRead(h) \/ SeedStore(h) \/ PollRead(h) \/ PollStore(h)

Next ==
  \/ \E h \in Slots : (\E p \in Plants : Read(h, p)) \/ TakeLock(h) \/ Step(h)
  \/ \E t \in Tags : Deliver(t) \/ Change(t)
  \/ LoseConnection \/ Reachable \/ Restart

Spec == Init /\ [][Next]_vars

\* The event loop runs every task, and asyncio.Lock serves its waiters in turn.
Fairness == \A h \in Slots : WF_vars(Step(h)) /\ SF_vars(TakeLock(h))
FairSpec == Spec /\ Fairness

-----------------------------------------------------------------------------
(* Properties.                                                             *)

\* Two tasks that find the session closed connect it once: no tag is subscribed a second
\* time, and no notification arrives for a tag nobody has subscribed.
SubscribedOnce ==
  /\ \A h \in Slots : task[h].op \in Connecting => task[h].todo \cap monitored = {}
  /\ \A h \in Slots : task[h].op = "dial" => monitored = {}
  /\ monitored # {} => connected /\ channel = "open"

\* A cached value that a notification brought is the node's newest, or a newer one is on
\* its way: whatever stays out of date in the cache of a subscribed tag, a seed read or a
\* poll has put there (their answers may be older than the notification they overwrite).
NoticeIsNewest ==
  \A t \in monitored :
    LET s == cache[t[1]][t[2]]
    IN  s.by = "notice" /\ s.version # node[t]
          => notice[t].by = "notice" /\ notice[t].version = node[t]

\* A reading that calls itself healthy has a sample for every field of the plant, and none
\* that the server called bad; in PLANT_CONNECT mode nothing healthy is simulated.  A sample
\* need not have a value.
HealthyIsSampled ==
  reading.ok =>
    \/ reading.source = "simulator" /\ cfg.mode # "connect"
    \/ /\ reading.source = "opcua"
       /\ \A f \in Fields : reading.samples[f].by # "none" /\ reading.samples[f].quality # "bad"

\* Contradicted by the code.  The comment in read_opcua_plant has a reading with a missing
\* value emitted with bad quality, so that alerts can fire; setdefault leaves a tag alone that
\* answered with good status and no value.
PartialIsBad ==
  reading.source = "opcua" /\ (\E f \in Fields : ~reading.samples[f].value)
    => reading.quality = "bad"

\* A read ends, whatever the server refuses and whoever else connects: no exception keeps
\* the lock.
ReadEnds == \A h \in Slots : task[h].op # "idle" ~> task[h].op = "idle"
=============================================================================
