-------------------------- MODULE PlantSession_proofs --------------------------
(***************************************************************************)
(* Theorems about PlantSession, for any plants, fields, tag maps and       *)
(* tasks, and any number of changes, lost connections and restarts.        *)
(***************************************************************************)
EXTENDS PlantSession, TLAPS

-----------------------------------------------------------------------------
(* Types of samples and readings.                                          *)

LEMMA Bounds ==
  /\ Mapped \subseteq Tags
  /\ NoSlot \notin Slots /\ NoPlant \notin Plants /\ NoTag \notin Tags
  /\ MaxVersion \in Nat \ {0} /\ MaxFaults \in Nat
  /\ Content \in [Tags -> [1 .. MaxVersion ->
                  [value : {"number", "null", "text"}, status : Statuses]]]
BY SessionAssumption

LEMMA TagParts ==
  ASSUME NEW t \in Tags
  PROVE  t[1] \in Plants /\ t[2] \in Fields /\ t = <<t[1], t[2]>>
BY DEF Tags

LEMMA NoSampleType ==
  /\ NoSample \in Samples /\ NoSample.by = "none" /\ NoSample.quality = "bad"
  /\ FailedRead \in Samples /\ FailedRead.by = "read"
  /\ Nothing \in Sampled
<1>1. 0 \in 0 .. MaxVersion
  BY Bounds
<1>2. NoSample \in Samples /\ NoSample.by = "none" /\ NoSample.quality = "bad"
  BY <1>1 DEF NoSample, Samples, Qualities
<1>3. FailedRead \in Samples /\ FailedRead.by = "read"
  BY <1>2 DEF FailedRead, Samples
<1>. QED  BY <1>2, <1>3 DEF Nothing, Sampled

\* A sample of a node says which version it shows and who brought it.
LEMMA SampleType ==
  ASSUME NEW t \in Tags, NEW v \in 1 .. MaxVersion, NEW by \in {"read", "notice"}
  PROVE  /\ SampleOf(t, v, by) \in Samples
         /\ SampleOf(t, v, by).by = by /\ SampleOf(t, v, by).version = v
<1>. DEFINE c == Content[t][v]
<1>1. c \in [value : {"number", "null", "text"}, status : Statuses]
  BY Bounds
<1>2. QualityOf[c.status] \in Qualities
  BY <1>1 DEF QualityOf, Qualities, Statuses
<1>3. (c.value = "number") \in BOOLEAN
  OBVIOUS
<1>4. v \in 0 .. MaxVersion
  BY Bounds
<1>. HIDE DEF c
<1>5. SampleOf(t, v, by) = [version |-> v, value |-> c.value = "number", by |-> by,
        quality |-> IF c.value = "text" THEN "bad" ELSE QualityOf[c.status]]
  BY DEF SampleOf, c
<1>. QED  BY <1>2, <1>3, <1>4, <1>5 DEF Samples, Qualities

LEMMA AnswerType ==
  ASSUME TypeOK, NEW t \in Tags,
         NEW s \in {SampleOf(t, node[t], "read"), FailedRead}, Answered(t, s)
  PROVE  s \in Samples /\ s.by = "read" /\ faults' \in 0 .. MaxFaults
<1>1. node[t] \in 1 .. MaxVersion
  BY DEF TypeOK
<1>2. s \in Samples /\ s.by = "read"
  BY <1>1, SampleType, NoSampleType
<1>3. faults' \in 0 .. MaxFaults
  BY Bounds DEF Answered, Fault, TypeOK
<1>. QED  BY <1>2, <1>3

LEMMA PerTagType ==
  ASSUME NEW p \in Plants, NEW samples \in Sampled
  PROVE  PerTag(p, samples) \in [Fields -> Qualities]
BY DEF PerTag, Sampled, Samples, Qualities

\* The worst quality is one of those given, or good, and nothing given is worse.
LEMMA WorstIsWorst ==
  ASSUME NEW S \in SUBSET Qualities
  PROVE  /\ WorstOf(S) \in Qualities
         /\ \A q \in S : Rank[q] <= Rank[WorstOf(S)]
<1>1. \E q \in S \cup {"good"} : \A other \in S \cup {"good"} : Rank[other] <= Rank[q]
  <2>1. CASE "bad" \in S
    BY <2>1 DEF Rank, Qualities
  <2>2. CASE "bad" \notin S /\ "uncertain" \in S
    BY <2>2 DEF Rank, Qualities
  <2>3. CASE "bad" \notin S /\ "uncertain" \notin S /\ "unknown" \in S
    BY <2>3 DEF Rank, Qualities
  <2>4. CASE S \subseteq {"good"}
    BY <2>4 DEF Rank, Qualities
  <2>. QED  BY <2>1, <2>2, <2>3, <2>4 DEF Qualities
<1>2. /\ WorstOf(S) \in S \cup {"good"}
      /\ \A other \in S \cup {"good"} : Rank[other] <= Rank[WorstOf(S)]
  BY <1>1 DEF WorstOf
<1>. QED  BY <1>2 DEF Qualities

LEMMA HealthyType ==
  ASSUME TypeOK, NEW q \in Qualities
  PROVE  Healthy(q) \in BOOLEAN
BY SessionAssumption DEF Healthy, TypeOK

\* What HealthyIsSampled says of a reading.
Sound(r) ==
  r.ok => \/ r.source = "simulator" /\ cfg.mode # "connect"
          \/ /\ r.source = "opcua"
             /\ \A f \in Fields : r.samples[f].by # "none" /\ r.samples[f].quality # "bad"

LEMMA BlankType ==
  ASSUME NEW source \in {"none", "error", "simulator", "opcua"}
  PROVE  Blank(source) \in Readings /\ Sound(Blank(source))
BY NoSampleType DEF Blank, Readings, Sound, Qualities

LEMMA SimulatedType ==
  Simulated \in Readings /\ (cfg.mode # "connect" => Sound(Simulated))
<1>1. Blank("simulator") \in Readings
  BY BlankType
<1>2. Simulated \in Readings /\ Simulated.source = "simulator"
  BY <1>1 DEF Simulated, Blank, Readings, Qualities
<1>. QED  BY <1>2 DEF Sound

\* Only samples, and no bad one, make a healthy reading.
LEMMA ReadingType ==
  ASSUME TypeOK, NEW p \in Plants, NEW samples \in Sampled
  PROVE  ReadingOf(p, samples) \in Readings /\ Sound(ReadingOf(p, samples))
<1>. DEFINE perTag == PerTag(p, samples)
            S == {perTag[f] : f \in Fields}
            overall == WorstOf(S)
            full == [source |-> "opcua", samples |-> samples, quality |-> overall,
                     ok |-> Healthy(overall)]
<1>1. perTag \in [Fields -> Qualities]
  BY PerTagType
<1>2. S \in SUBSET Qualities
  BY <1>1
<1>3. overall \in Qualities /\ \A f \in Fields : Rank[perTag[f]] <= Rank[overall]
  <2>1. overall \in Qualities /\ \A q \in S : Rank[q] <= Rank[overall]
    BY <1>2, WorstIsWorst
  <2>. QED  BY <2>1
<1>4. ReadingOf(p, samples) \in {Blank("error"), full}
  BY DEF ReadingOf
<1>5. full \in Readings
  <2>1. Healthy(overall) \in BOOLEAN
    BY <1>3, HealthyType
  <2>. HIDE DEF overall
  <2>. QED  BY <1>3, <2>1 DEF Readings
<1>6. Sound(full)
  <2>1. ASSUME Healthy(overall), NEW f \in Fields
        PROVE  samples[f].by # "none" /\ samples[f].quality # "bad"
    <3>1. overall \in {"good", "uncertain"}
      BY <2>1 DEF Healthy
    <3>2. Rank["bad"] = 3 /\ Rank[overall] \in {0, 2}
      BY <3>1 DEF Rank, Qualities
    <3>3. perTag[f] # "bad"
      BY <1>3, <3>2
    <3>. QED  BY <3>3 DEF PerTag
  <2>2. full.source = "opcua" /\ full.samples = samples /\ full.ok = Healthy(overall)
    OBVIOUS
  <2>3. CASE Healthy(overall)
    <3>1. \A f \in Fields : full.samples[f].by # "none" /\ full.samples[f].quality # "bad"
      BY <2>1, <2>2, <2>3
    <3>. HIDE DEF full
    <3>. QED  BY <2>2, <3>1 DEF Sound
  <2>4. CASE ~Healthy(overall)
    <3>1. ~full.ok
      BY <2>4
    <3>. HIDE DEF full
    <3>. QED  BY <3>1 DEF Sound
  <2>. QED  BY <2>3, <2>4
<1>. HIDE DEF full
<1>. QED  BY <1>4, <1>5, <1>6, BlankType

-----------------------------------------------------------------------------
(* Types of the state.                                                     *)

LEMMA IdleType ==
  /\ Idle \in Tasks /\ Idle.op = "idle" /\ Idle.todo = {}
  /\ Idle.got = NoSample /\ Idle.out = Nothing
BY NoSampleType DEF Idle, Tasks

LEMMA TaskType ==
  ASSUME TypeOK, NEW h \in Slots
  PROVE  /\ task[h] \in Tasks
         /\ task[h].todo \subseteq Mapped /\ task[h].got \in Samples /\ task[h].out \in Sampled
BY DEF TypeOK, Tasks

\* What TypeOK says of one task.
TaskOK(h) ==
  /\ task[h].op \in Connecting <=> lock = h
  /\ task[h].op # "idle" => task[h].plant \in Plants
  /\ task[h].op \in {"seed", "store"} => task[h].tag \in Mapped
  /\ task[h].todo \subseteq Mapped

\* A step of one task, which takes the lock, keeps it, or gives it up.
LEMMA TaskMoves ==
  ASSUME TypeOK, NEW h \in Slots, NEW q \in Tasks, task' = [task EXCEPT ![h] = q],
         q.op # "idle" => q.plant \in Plants,
         q.op \in {"seed", "store"} => q.tag \in Mapped,
         q.todo \subseteq Mapped,
         \/ lock' = lock /\ (q.op \in Connecting <=> lock = h)
         \/ lock = NoSlot /\ lock' = h /\ q.op \in Connecting
         \/ lock = h /\ lock' = NoSlot /\ q.op \notin Connecting
  PROVE  /\ task' \in [Slots -> Tasks] /\ task'[h] = q
         /\ \A g \in Slots \ {h} : task'[g] = task[g]
         /\ lock' \in Slots \cup {NoSlot}
         /\ \A g \in Slots : TaskOK(g)'
<1>1. /\ task' \in [Slots -> Tasks] /\ task'[h] = q
      /\ \A g \in Slots \ {h} : task'[g] = task[g]
  BY DEF TypeOK
<1>2. lock \in Slots \cup {NoSlot} /\ NoSlot \notin Slots
  BY Bounds DEF TypeOK
<1>3. lock' \in Slots \cup {NoSlot}
  BY <1>2
<1>4. TaskOK(h)'
  BY <1>1, <1>2 DEF TaskOK
<1>5. ASSUME NEW g \in Slots \ {h} PROVE TaskOK(g)'
  <2>1. lock' = g <=> lock = g
    BY <1>2
  <2>2. TaskOK(g)
    BY DEF TypeOK, TaskOK
  <2>3. task'[g] = task[g]
    BY <1>1
  <2>. QED  BY <2>1, <2>2, <2>3 DEF TaskOK
<1>. QED  BY <1>1, <1>3, <1>4, <1>5

\* A read that found the session ends, or polls.
LEMMA LookUpMoves ==
  ASSUME TypeOK, NEW h \in Slots, NEW p \in Plants, NEW cached \in [Plants -> Sampled],
         LookUp(h, p, cached)
  PROVE  /\ \E q \in Tasks :
              /\ task' = [task EXCEPT ![h] = q]
              /\ q.op \in {"idle", "poll"} /\ (q.op # "idle" => q.plant \in Plants)
              /\ q.todo \subseteq Mapped /\ q.got = NoSample /\ q.out = Nothing
         /\ reading' \in Readings /\ Sound(reading')
<1>1. CASE Finish(h, ReadingOf(p, cached[p]))
  <2>1. task' = [task EXCEPT ![h] = Idle] /\ reading' = ReadingOf(p, cached[p])
    BY <1>1 DEF Finish
  <2>2. cached[p] \in Sampled
    OBVIOUS
  <2>. QED  BY <2>1, <2>2, IdleType, ReadingType
<1>2. CASE /\ task' = [task EXCEPT ![h] = [Idle EXCEPT !.op = "poll", !.plant = p,
                                                       !.todo = OfPlant(p)]]
           /\ reading' = NoReading
  <2>. DEFINE q == [Idle EXCEPT !.op = "poll", !.plant = p, !.todo = OfPlant(p)]
  <2>1. OfPlant(p) \subseteq Mapped /\ OfPlant(p) \subseteq Tags
    BY Bounds DEF OfPlant
  <2>2. q \in Tasks
    BY <2>1, IdleType DEF Tasks
  <2>3. /\ q.op = "poll" /\ q.plant = p /\ q.todo = OfPlant(p)
        /\ q.got = NoSample /\ q.out = Nothing
    BY IdleType DEF Idle
  <2>4. task' = [task EXCEPT ![h] = q]
    BY <1>2
  <2>. HIDE DEF q
  <2>5. reading' \in Readings /\ Sound(reading')
    BY <1>2, BlankType DEF NoReading
  <2>. QED  BY <2>1, <2>2, <2>3, <2>4, <2>5
<1>. QED  BY <1>1, <1>2 DEF LookUp

-----------------------------------------------------------------------------
(* The invariant.                                                          *)

\* SubscribedOnce rests on this: the flag is set before anything is subscribed, under the
\* lock, and stays set.
Once ==
  /\ SubscribedOnce
  /\ \A h \in Slots : task[h].op = "dial" => ~connected
  /\ \A h \in Slots : task[h].op \in {"subscribe", "seed", "store"} => connected

\* NoticeIsNewest rests on this: the notification on its way is the newest, and what a task
\* carries is no notification.
Noticed ==
  /\ NoticeIsNewest
  /\ \A t \in Tags : notice[t].by = "notice" => t \in monitored /\ notice[t].version = node[t]
  /\ \A h \in Slots : /\ task[h].got.by # "notice"
                      /\ \A f \in Fields : task[h].out[f].by # "notice"

Inv == TypeOK /\ Once /\ Noticed

\* A task's record carries no notification.
Quiet(q) == q.got.by # "notice" /\ \A f \in Fields : q.out[f].by # "notice"

LEMMA NothingQuiet ==
  ASSUME NEW q, q.got = NoSample, q.out = Nothing
  PROVE  Quiet(q)
BY NoSampleType DEF Quiet, Nothing

\* Steps of one task that touch nothing but the lock.
LEMMA TaskOnly ==
  ASSUME Inv, NEW h \in Slots, NEW q \in Tasks, task' = [task EXCEPT ![h] = q],
         q.op # "idle" => q.plant \in Plants,
         q.op \notin {"subscribe", "seed", "store"},
         q.op = "dial" => ~connected,
         q.todo \subseteq Mapped, Quiet(q),
         \/ lock' = lock /\ (q.op \in Connecting <=> lock = h)
         \/ lock = NoSlot /\ lock' = h /\ q.op \in Connecting
         \/ lock = h /\ lock' = NoSlot /\ q.op \notin Connecting,
         UNCHANGED <<world, channel, monitored, notice, connected, cache>>,
         reading' \in Readings
  PROVE  Inv'
<1>1. /\ task' \in [Slots -> Tasks] /\ task'[h] = q
      /\ \A g \in Slots \ {h} : task'[g] = task[g]
      /\ lock' \in Slots \cup {NoSlot}
      /\ \A g \in Slots : TaskOK(g)'
  BY TaskMoves DEF Inv
<1>2. TypeOK'
  BY <1>1 DEF Inv, TypeOK, TaskOK, world
<1>3. Once'
  BY <1>1 DEF Inv, Once, SubscribedOnce, Connecting
<1>4. Noticed'
  BY <1>1 DEF Inv, Noticed, NoticeIsNewest, Quiet, world
<1>. QED  BY <1>2, <1>3, <1>4 DEF Inv

LEMMA ReadStep ==
  ASSUME Inv, NEW h \in Slots, NEW p \in Plants, Read(h, p)
  PROVE  Inv' /\ Sound(reading')
<1>1. /\ TypeOK /\ task[h].op = "idle" /\ lock # h /\ lock' = lock
      /\ UNCHANGED <<world, channel, monitored, notice, connected, cache>>
  BY DEF Read, Inv, TypeOK, Connecting
<1>2. /\ \E q \in Tasks :
           /\ task' = [task EXCEPT ![h] = q]
           /\ q.op \in {"idle", "poll", "wait"} /\ (q.op # "idle" => q.plant \in Plants)
           /\ q.todo \subseteq Mapped /\ q.got = NoSample /\ q.out = Nothing
      /\ reading' \in Readings /\ Sound(reading')
  <2>1. CASE Finish(h, Blank("error"))
    BY <2>1, IdleType, BlankType DEF Finish
  <2>2. CASE cfg.mode # "connect" /\ Finish(h, Simulated)
    BY <2>2, IdleType, SimulatedType DEF Finish
  <2>3. CASE LookUp(h, p, cache)
    <3>1. cache \in [Plants -> Sampled]
      BY <1>1 DEF TypeOK
    <3>. QED  BY <1>1, <2>3, <3>1, LookUpMoves
  <2>4. CASE /\ task' = [task EXCEPT ![h] = [Idle EXCEPT !.op = "wait", !.plant = p]]
             /\ reading' = NoReading
    <3>. DEFINE q == [Idle EXCEPT !.op = "wait", !.plant = p]
    <3>1. q \in Tasks
      BY IdleType DEF Tasks
    <3>2. q.op = "wait" /\ q.plant = p /\ q.todo = {} /\ q.got = NoSample /\ q.out = Nothing
      BY DEF Idle
    <3>3. task' = [task EXCEPT ![h] = q]
      BY <2>4
    <3>. HIDE DEF q
    <3>4. reading' \in Readings /\ Sound(reading')
      BY <2>4, BlankType DEF NoReading
    <3>. QED  BY <3>1, <3>2, <3>3, <3>4
  <2>. QED  BY <2>1, <2>2, <2>3, <2>4 DEF Read
<1>3. PICK q \in Tasks :
        /\ task' = [task EXCEPT ![h] = q]
        /\ q.op \in {"idle", "poll", "wait"} /\ (q.op # "idle" => q.plant \in Plants)
        /\ q.todo \subseteq Mapped /\ q.got = NoSample /\ q.out = Nothing
  BY <1>2
<1>4. Quiet(q)
  BY <1>3, NothingQuiet
<1>5. q.op \notin Connecting
  BY <1>3 DEF Connecting
<1>6. Inv'
  BY <1>1, <1>2, <1>3, <1>4, <1>5, TaskOnly DEF Connecting
<1>. QED  BY <1>2, <1>6

LEMMA TakeLockStep ==
  ASSUME Inv, NEW h \in Slots, TakeLock(h)
  PROVE  Inv' /\ Sound(reading')
<1>1. /\ TypeOK /\ task[h].op = "wait" /\ lock = NoSlot /\ lock # h
      /\ task[h].plant \in Plants
      /\ UNCHANGED <<world, channel, monitored, notice, connected, cache>>
  BY Bounds DEF TakeLock, Inv, TypeOK
<1>2. CASE LookUp(h, task[h].plant, cache) /\ lock' = lock
  <2>1. cache \in [Plants -> Sampled]
    BY <1>1 DEF TypeOK
  <2>2. reading' \in Readings /\ Sound(reading')
    BY <1>1, <1>2, <2>1, LookUpMoves
  <2>3. PICK q \in Tasks :
          /\ task' = [task EXCEPT ![h] = q]
          /\ q.op \in {"idle", "poll"} /\ (q.op # "idle" => q.plant \in Plants)
          /\ q.todo \subseteq Mapped /\ q.got = NoSample /\ q.out = Nothing
    BY <1>1, <1>2, <2>1, LookUpMoves
  <2>4. Quiet(q) /\ q.op \notin Connecting
    BY <2>3, NothingQuiet DEF Connecting
  <2>. QED  BY <1>1, <1>2, <2>2, <2>3, <2>4, TaskOnly DEF Connecting
<1>3. CASE /\ ~connected /\ lock' = h
           /\ task' = [task EXCEPT ![h].op = "dial"]
           /\ reading' = NoReading
  <2>. DEFINE q == [task[h] EXCEPT !.op = "dial"]
  <2>1. task[h] \in Tasks /\ task[h].todo \subseteq Mapped
    BY <1>1, TaskType
  <2>2. q \in Tasks
    BY <2>1 DEF Tasks, Connecting
  <2>3. /\ q.op = "dial" /\ q.plant = task[h].plant /\ q.todo = task[h].todo
        /\ q.got = task[h].got /\ q.out = task[h].out
    BY <2>1 DEF Tasks
  <2>4. task' = [task EXCEPT ![h] = q]
    BY <1>1, <1>3 DEF TypeOK
  <2>. HIDE DEF q
  <2>5. Quiet(q) /\ q.op \in Connecting
    BY <2>3 DEF Quiet, Inv, Noticed, Connecting
  <2>6. reading' \in Readings /\ Sound(reading')
    BY <1>3, BlankType DEF NoReading
  <2>. QED  BY <1>1, <1>3, <2>1, <2>2, <2>3, <2>4, <2>5, <2>6, TaskOnly
<1>. QED  BY <1>2, <1>3 DEF TakeLock

LEMMA ConnectFailsStep ==
  ASSUME Inv, NEW h \in Slots, ConnectFails(h)
  PROVE  Inv' /\ Sound(reading')
<1>1. /\ TypeOK /\ lock = h /\ lock' = NoSlot
      /\ task' = [task EXCEPT ![h] = Idle]
      /\ reading' = Blank("error")
      /\ UNCHANGED <<world, channel, monitored, notice, connected, cache>>
  BY DEF ConnectFails, Finish, Inv, TypeOK, Connecting
<1>2. reading' \in Readings /\ Sound(reading')
  BY <1>1, BlankType
<1>3. Quiet(Idle) /\ Idle.op \notin Connecting
  BY IdleType, NothingQuiet DEF Connecting
<1>4. Inv'
  BY <1>1, <1>2, <1>3, IdleType, TaskOnly
<1>. QED  BY <1>2, <1>4

\* Only the task that holds the lock is connecting.
LEMMA OneConnects ==
  ASSUME TypeOK, NEW h \in Slots, task[h].op \in Connecting
  PROVE  /\ lock = h
         /\ \A g \in Slots \ {h} : task[g].op \notin Connecting
BY DEF TypeOK

LEMMA DialStep ==
  ASSUME Inv, NEW h \in Slots, Dial(h)
  PROVE  Inv' /\ Sound(reading')
<1>1. /\ TypeOK /\ task[h].op = "dial" /\ task[h].plant \in Plants
      /\ task[h].op \in Connecting
      /\ channel' = "open" /\ connected' = TRUE
      /\ UNCHANGED <<world, monitored, notice, cache>>
  BY DEF Dial, Inv, TypeOK, Connecting
<1>2. lock = h /\ \A g \in Slots \ {h} : task[g].op \notin Connecting
  BY <1>1, OneConnects
<1>3. monitored = {}
  BY <1>1 DEF Inv, Once, SubscribedOnce
<1>4. reading' \in Readings /\ Sound(reading') /\
      \E q \in Tasks :
        /\ task' = [task EXCEPT ![h] = q]
        /\ q.op \in {"idle", "poll", "subscribe"} /\ (q.op # "idle" => q.plant \in Plants)
        /\ q.todo \subseteq Mapped /\ Quiet(q)
        /\ \/ lock' = h /\ q.op = "subscribe"
           \/ lock' = NoSlot /\ q.op # "subscribe"
  <2>1. CASE /\ task' = [task EXCEPT ![h].op = "subscribe", ![h].todo = Mapped]
             /\ reading' = NoReading /\ UNCHANGED lock
    <3>. DEFINE q == [task[h] EXCEPT !.op = "subscribe", !.todo = Mapped]
    <3>1. task[h] \in Tasks
      BY <1>1, TaskType
    <3>2. q \in Tasks
      BY <3>1, Bounds DEF Tasks, Connecting
    <3>3. /\ q.op = "subscribe" /\ q.plant = task[h].plant /\ q.todo = Mapped
          /\ q.got = task[h].got /\ q.out = task[h].out
      BY <3>1 DEF Tasks
    <3>4. task' = [task EXCEPT ![h] = q]
      BY <1>1, <2>1 DEF TypeOK
    <3>. HIDE DEF q
    <3>5. Quiet(q)
      BY <3>3 DEF Quiet, Inv, Noticed
    <3>6. reading' \in Readings /\ Sound(reading')
      BY <2>1, BlankType DEF NoReading
    <3>. QED  BY <1>1, <1>2, <2>1, <3>2, <3>3, <3>4, <3>5, <3>6
  <2>2. CASE lock' = NoSlot /\ LookUp(h, task[h].plant, cache)
    <3>1. cache \in [Plants -> Sampled]
      BY <1>1 DEF TypeOK
    <3>2. reading' \in Readings /\ Sound(reading')
      BY <1>1, <2>2, <3>1, LookUpMoves
    <3>3. PICK q \in Tasks :
            /\ task' = [task EXCEPT ![h] = q]
            /\ q.op \in {"idle", "poll"} /\ (q.op # "idle" => q.plant \in Plants)
            /\ q.todo \subseteq Mapped /\ q.got = NoSample /\ q.out = Nothing
      BY <1>1, <2>2, <3>1, LookUpMoves
    <3>4. Quiet(q)
      BY <3>3, NothingQuiet
    <3>. QED  BY <2>2, <3>2, <3>3, <3>4
  <2>. QED  BY <2>1, <2>2 DEF Dial
<1>5. PICK q \in Tasks :
        /\ task' = [task EXCEPT ![h] = q]
        /\ q.op \in {"idle", "poll", "subscribe"} /\ (q.op # "idle" => q.plant \in Plants)
        /\ q.todo \subseteq Mapped /\ Quiet(q)
        /\ \/ lock' = h /\ q.op = "subscribe"
           \/ lock' = NoSlot /\ q.op # "subscribe"
  BY <1>4
<1>6. /\ task' \in [Slots -> Tasks] /\ task'[h] = q
      /\ \A g \in Slots \ {h} : task'[g] = task[g]
      /\ lock' \in Slots \cup {NoSlot}
      /\ \A g \in Slots : TaskOK(g)'
  BY <1>1, <1>2, <1>5, TaskMoves DEF Connecting
<1>7. TypeOK'
  BY <1>1, <1>4, <1>6 DEF TypeOK, TaskOK, world
<1>8. Once'
  BY <1>1, <1>2, <1>3, <1>5, <1>6 DEF Once, SubscribedOnce, Connecting
<1>9. Noticed'
  BY <1>1, <1>5, <1>6 DEF Inv, Noticed, NoticeIsNewest, Quiet, world
<1>. QED  BY <1>4, <1>7, <1>8, <1>9 DEF Inv

LEMMA SubscribeStep ==
  ASSUME Inv, NEW h \in Slots, Subscribe(h)
  PROVE  Inv' /\ Sound(reading')
<1>1. /\ TypeOK /\ task[h].op = "subscribe" /\ task[h].plant \in Plants
      /\ task[h].op \in Connecting /\ channel = "open" /\ connected
      /\ UNCHANGED <<world, channel, connected, lock, cache>>
  BY DEF Subscribe, Inv, TypeOK, Connecting, Once
<1>2. lock = h /\ \A g \in Slots \ {h} : task[g].op \notin Connecting
  BY <1>1, OneConnects
<1>3. reading' \in Readings /\ Sound(reading')
  BY BlankType DEF Subscribe, NoReading
<1>4. PICK t \in task[h].todo :
        /\ monitored' = monitored \cup {t}
        /\ notice' = [notice EXCEPT ![t] = SampleOf(t, node[t], "notice")]
        /\ task' = [task EXCEPT ![h].op = "seed", ![h].tag = t, ![h].todo = @ \ {t}]
  BY DEF Subscribe
<1>5. t \in Mapped /\ t \in Tags /\ node[t] \in 1 .. MaxVersion
  BY <1>1, TaskType, Bounds DEF TypeOK
<1>. DEFINE q == [task[h] EXCEPT !.op = "seed", !.tag = t, !.todo = @ \ {t}]
<1>6. task[h] \in Tasks /\ task[h].todo \subseteq Mapped
  BY <1>1, TaskType
<1>7. q \in Tasks
  <2>1. task[h].todo \ {t} \in SUBSET Tags
    BY <1>6, Bounds
  <2>. QED  BY <1>5, <1>6, <2>1 DEF Tasks, Connecting
<1>8. /\ q.op = "seed" /\ q.plant = task[h].plant /\ q.tag = t /\ q.todo = task[h].todo \ {t}
      /\ q.got = task[h].got /\ q.out = task[h].out
  BY <1>6 DEF Tasks
<1>9. task' = [task EXCEPT ![h] = q]
  BY <1>1, <1>4 DEF TypeOK
<1>. HIDE DEF q
<1>10. Quiet(q)
  BY <1>8 DEF Quiet, Inv, Noticed
<1>11. /\ task' \in [Slots -> Tasks] /\ task'[h] = q
       /\ \A g \in Slots \ {h} : task'[g] = task[g]
       /\ lock' \in Slots \cup {NoSlot}
       /\ \A g \in Slots : TaskOK(g)'
  BY <1>1, <1>2, <1>5, <1>6, <1>7, <1>8, <1>9, TaskMoves DEF Connecting
<1>12. /\ notice' \in [Tags -> Samples]
       /\ notice'[t].by = "notice" /\ notice'[t].version = node[t]
       /\ \A u \in Tags \ {t} : notice'[u] = notice[u]
  BY <1>1, <1>4, <1>5, SampleType DEF TypeOK
<1>13. TypeOK'
  BY <1>1, <1>3, <1>4, <1>5, <1>11, <1>12 DEF TypeOK, TaskOK, world
<1>14. Once'
  <2>1. task[h].todo \cap monitored = {}
    BY <1>1 DEF Inv, Once, SubscribedOnce
  <2>. QED  BY <1>1, <1>2, <1>4, <1>8, <1>11, <2>1 DEF Once, SubscribedOnce, Connecting
<1>15. Noticed'
  <2>1. monitored \subseteq Tags
    BY <1>1, Bounds DEF TypeOK
  <2>2. NoticeIsNewest'
    BY <1>1, <1>4, <1>5, <1>12, <2>1 DEF Inv, Noticed, NoticeIsNewest, world
  <2>3. (\A u \in Tags : notice[u].by = "notice" => u \in monitored /\ notice[u].version = node[u])'
    BY <1>1, <1>4, <1>12 DEF Inv, Noticed, world
  <2>. QED  BY <1>10, <1>11, <2>2, <2>3 DEF Inv, Noticed, Quiet
<1>. QED  BY <1>3, <1>13, <1>14, <1>15 DEF Inv

LEMMA SeedReadStep ==
  ASSUME Inv, NEW h \in Slots, SeedRead(h)
  PROVE  Inv' /\ Sound(reading')
<1>1. /\ TypeOK /\ task[h].op = "seed" /\ task[h].plant \in Plants /\ task[h].tag \in Mapped
      /\ task[h].op \in Connecting /\ task[h].tag \in Tags
      /\ UNCHANGED <<cfg, node, reachable, channel, monitored, notice, connected, lock, cache>>
  BY Bounds DEF SeedRead, Inv, TypeOK, Connecting
<1>2. lock = h /\ \A g \in Slots \ {h} : task[g].op \notin Connecting
  BY <1>1, OneConnects
<1>3. reading' \in Readings /\ Sound(reading')
  BY BlankType DEF SeedRead, NoReading
<1>4. PICK s \in {SampleOf(task[h].tag, node[task[h].tag], "read"), FailedRead} :
        /\ Answered(task[h].tag, s)
        /\ task' = [task EXCEPT ![h].op = "store", ![h].got = s]
  BY DEF SeedRead
<1>5. s \in Samples /\ s.by = "read" /\ faults' \in 0 .. MaxFaults
  BY <1>1, <1>4, AnswerType
<1>. DEFINE q == [task[h] EXCEPT !.op = "store", !.got = s]
<1>6. task[h] \in Tasks /\ task[h].todo \subseteq Mapped
  BY <1>1, TaskType
<1>7. q \in Tasks
  BY <1>5, <1>6 DEF Tasks, Connecting
<1>8. /\ q.op = "store" /\ q.plant = task[h].plant /\ q.tag = task[h].tag
      /\ q.todo = task[h].todo /\ q.got = s /\ q.out = task[h].out
  BY <1>6 DEF Tasks
<1>9. task' = [task EXCEPT ![h] = q]
  BY <1>1, <1>4 DEF TypeOK
<1>. HIDE DEF q
<1>10. Quiet(q)
  BY <1>5, <1>8 DEF Quiet, Inv, Noticed
<1>11. /\ task' \in [Slots -> Tasks] /\ task'[h] = q
       /\ \A g \in Slots \ {h} : task'[g] = task[g]
       /\ lock' \in Slots \cup {NoSlot}
       /\ \A g \in Slots : TaskOK(g)'
  BY <1>1, <1>2, <1>6, <1>7, <1>8, <1>9, TaskMoves DEF Connecting
<1>12. TypeOK'
  BY <1>1, <1>3, <1>5, <1>11 DEF TypeOK, TaskOK
<1>13. Once'
  BY <1>1, <1>2, <1>8, <1>11 DEF Inv, Once, SubscribedOnce, Connecting
<1>14. Noticed'
  BY <1>1, <1>10, <1>11 DEF Inv, Noticed, NoticeIsNewest, Quiet
<1>. QED  BY <1>3, <1>12, <1>13, <1>14 DEF Inv

\* One sample is put into the cache.
Stores(t, s) == cache' = [cache EXCEPT ![t[1]][t[2]] = s]

LEMMA CacheStore ==
  ASSUME TypeOK, NEW t \in Tags, NEW s \in Samples,
         Stores(t, s)
  PROVE  /\ cache' \in [Plants -> Sampled]
         /\ \A u \in Tags : cache'[u[1]][u[2]] = IF u = t THEN s ELSE cache[u[1]][u[2]]
<1>1. t[1] \in Plants /\ t[2] \in Fields /\ t = <<t[1], t[2]>>
  BY TagParts
<1>2. cache \in [Plants -> [Fields -> Samples]]
  BY DEF TypeOK, Sampled
<1>3. /\ cache' \in [Plants -> [Fields -> Samples]]
      /\ \A p \in Plants, f \in Fields :
           cache'[p][f] = IF p = t[1] /\ f = t[2] THEN s ELSE cache[p][f]
  BY <1>1, <1>2 DEF Stores
<1>4. ASSUME NEW u \in Tags
      PROVE  cache'[u[1]][u[2]] = IF u = t THEN s ELSE cache[u[1]][u[2]]
  <2>1. u[1] \in Plants /\ u[2] \in Fields /\ u = <<u[1], u[2]>>
    BY TagParts
  <2>. QED  BY <1>1, <1>3, <2>1
<1>. QED  BY <1>3, <1>4 DEF Sampled

LEMMA SeedStoreStep ==
  ASSUME Inv, NEW h \in Slots, SeedStore(h)
  PROVE  Inv' /\ Sound(reading')
<1>1. /\ TypeOK /\ task[h].op = "store" /\ task[h].plant \in Plants /\ task[h].tag \in Tags
      /\ task[h].op \in Connecting
      /\ UNCHANGED <<world, channel, monitored, notice, connected>>
  BY Bounds DEF SeedStore, Inv, TypeOK, Connecting
<1>2. lock = h /\ \A g \in Slots \ {h} : task[g].op \notin Connecting
  BY <1>1, OneConnects
<1>3. task[h] \in Tasks /\ task[h].got \in Samples /\ task[h].todo \subseteq Mapped
  BY <1>1, TaskType
<1>4. /\ cache' \in [Plants -> Sampled]
      /\ \A u \in Tags :
           cache'[u[1]][u[2]] = IF u = task[h].tag THEN task[h].got ELSE cache[u[1]][u[2]]
  <2>. DEFINE t == task[h].tag
              sample == task[h].got
  <2>1. Stores(t, sample)
    BY DEF SeedStore, Stores
  <2>2. t \in Tags /\ sample \in Samples
    BY <1>1, <1>3
  <2>. HIDE DEF t, sample
  <2>3. /\ cache' \in [Plants -> Sampled]
        /\ \A u \in Tags : cache'[u[1]][u[2]] = IF u = t THEN sample ELSE cache[u[1]][u[2]]
    BY <1>1, <2>1, <2>2, CacheStore
  <2>. QED  BY <2>3 DEF t, sample
<1>5. reading' \in Readings /\ Sound(reading') /\
      \E q \in Tasks :
        /\ task' = [task EXCEPT ![h] = q]
        /\ q.op \in {"idle", "poll", "subscribe"} /\ (q.op # "idle" => q.plant \in Plants)
        /\ q.todo \subseteq Mapped /\ Quiet(q)
        /\ \/ lock' = h /\ q.op = "subscribe" /\ q.todo = task[h].todo
           \/ lock' = NoSlot /\ q.op # "subscribe"
  <2>1. CASE /\ task' = [task EXCEPT ![h].op = "subscribe", ![h].tag = NoTag]
             /\ reading' = NoReading /\ UNCHANGED lock
    <3>. DEFINE q == [task[h] EXCEPT !.op = "subscribe", !.tag = NoTag]
    <3>1. q \in Tasks
      BY <1>3 DEF Tasks, Connecting
    <3>2. /\ q.op = "subscribe" /\ q.plant = task[h].plant /\ q.todo = task[h].todo
          /\ q.got = task[h].got /\ q.out = task[h].out
      BY <1>3 DEF Tasks
    <3>3. task' = [task EXCEPT ![h] = q]
      BY <1>1, <2>1 DEF TypeOK
    <3>. HIDE DEF q
    <3>4. Quiet(q)
      BY <3>2 DEF Quiet, Inv, Noticed
    <3>5. reading' \in Readings /\ Sound(reading')
      BY <2>1, BlankType DEF NoReading
    <3>. QED  BY <1>1, <1>2, <1>3, <2>1, <3>1, <3>2, <3>3, <3>4, <3>5
  <2>2. CASE lock' = NoSlot /\ LookUp(h, task[h].plant, cache')
    <3>1. reading' \in Readings /\ Sound(reading')
      BY <1>1, <1>4, <2>2, LookUpMoves
    <3>2. PICK q \in Tasks :
            /\ task' = [task EXCEPT ![h] = q]
            /\ q.op \in {"idle", "poll"} /\ (q.op # "idle" => q.plant \in Plants)
            /\ q.todo \subseteq Mapped /\ q.got = NoSample /\ q.out = Nothing
      BY <1>1, <1>4, <2>2, LookUpMoves
    <3>3. Quiet(q)
      BY <3>2, NothingQuiet
    <3>. QED  BY <2>2, <3>1, <3>2, <3>3
  <2>. QED  BY <2>1, <2>2 DEF SeedStore
<1>6. PICK q \in Tasks :
        /\ task' = [task EXCEPT ![h] = q]
        /\ q.op \in {"idle", "poll", "subscribe"} /\ (q.op # "idle" => q.plant \in Plants)
        /\ q.todo \subseteq Mapped /\ Quiet(q)
        /\ \/ lock' = h /\ q.op = "subscribe" /\ q.todo = task[h].todo
           \/ lock' = NoSlot /\ q.op # "subscribe"
  BY <1>5
<1>7. /\ task' \in [Slots -> Tasks] /\ task'[h] = q
      /\ \A g \in Slots \ {h} : task'[g] = task[g]
      /\ lock' \in Slots \cup {NoSlot}
      /\ \A g \in Slots : TaskOK(g)'
  BY <1>1, <1>2, <1>6, TaskMoves DEF Connecting
<1>8. TypeOK'
  BY <1>1, <1>4, <1>5, <1>7 DEF TypeOK, TaskOK, world
<1>9. Once'
  BY <1>1, <1>2, <1>6, <1>7 DEF Inv, Once, SubscribedOnce, Connecting
<1>10. Noticed'
  <2>1. monitored \subseteq Tags /\ task[h].got.by # "notice"
    BY <1>1, Bounds DEF Inv, TypeOK, Noticed
  <2>2. NoticeIsNewest'
    BY <1>1, <1>4, <2>1 DEF Inv, Noticed, NoticeIsNewest, world
  <2>3. \A g \in Slots : Quiet(task'[g])
    BY <1>6, <1>7 DEF Inv, Noticed, Quiet
  <2>4. \A u \in Tags :
          notice'[u].by = "notice" => u \in monitored' /\ notice'[u].version = node'[u]
    BY <1>1 DEF Inv, Noticed, world
  <2>. QED  BY <2>2, <2>3, <2>4 DEF Noticed, Quiet
<1>. QED  BY <1>5, <1>8, <1>9, <1>10 DEF Inv

LEMMA PollReadStep ==
  ASSUME Inv, NEW h \in Slots, PollRead(h)
  PROVE  Inv' /\ Sound(reading')
<1>1. /\ TypeOK /\ task[h].op = "poll" /\ task[h].plant \in Plants
      /\ task[h].op \notin Connecting /\ lock # h
      /\ UNCHANGED <<cfg, node, reachable, channel, monitored, notice, connected, lock, cache>>
  BY DEF PollRead, Inv, TypeOK, Connecting
<1>2. reading' \in Readings /\ Sound(reading')
  BY BlankType DEF PollRead, NoReading
<1>3. PICK t \in task[h].todo : \E s \in {SampleOf(t, node[t], "read"), FailedRead} :
        /\ Answered(t, s)
        /\ task' = [task EXCEPT ![h].todo = @ \ {t}, ![h].out = [@ EXCEPT ![t[2]] = s]]
  BY DEF PollRead
<1>4. PICK s \in {SampleOf(t, node[t], "read"), FailedRead} :
        /\ Answered(t, s)
        /\ task' = [task EXCEPT ![h].todo = @ \ {t}, ![h].out = [@ EXCEPT ![t[2]] = s]]
  BY <1>3
<1>5. task[h] \in Tasks /\ task[h].todo \subseteq Mapped /\ task[h].out \in Sampled
  BY <1>1, TaskType
<1>6. t \in Mapped /\ t \in Tags
  BY <1>5, Bounds
<1>7. s \in Samples /\ s.by = "read" /\ faults' \in 0 .. MaxFaults
  BY <1>1, <1>4, <1>6, AnswerType
<1>. DEFINE o == [task[h].out EXCEPT ![t[2]] = s]
            q == [task[h] EXCEPT !.todo = @ \ {t}, !.out = o]
<1>8. /\ o \in Sampled
      /\ \A f \in Fields : o[f].by # "notice"
  BY <1>5, <1>7 DEF Sampled, Inv, Noticed
<1>9. task' = [task EXCEPT ![h] = q]
  BY <1>1, <1>4 DEF TypeOK
<1>. HIDE DEF o
<1>10. q \in Tasks
  <2>1. task[h].todo \ {t} \in SUBSET Tags
    BY <1>5, Bounds
  <2>. QED  BY <1>5, <1>8, <2>1 DEF Tasks
<1>11. /\ q.op = "poll" /\ q.plant = task[h].plant /\ q.todo = task[h].todo \ {t}
       /\ q.got = task[h].got /\ q.out = o
  BY <1>1, <1>5 DEF Tasks
<1>. HIDE DEF q
<1>12. Quiet(q)
  BY <1>8, <1>11 DEF Quiet, Inv, Noticed
<1>13. /\ task' \in [Slots -> Tasks] /\ task'[h] = q
       /\ \A g \in Slots \ {h} : task'[g] = task[g]
       /\ lock' \in Slots \cup {NoSlot}
       /\ \A g \in Slots : TaskOK(g)'
  BY <1>1, <1>5, <1>9, <1>10, <1>11, TaskMoves DEF Connecting
<1>14. TypeOK'
  BY <1>1, <1>2, <1>7, <1>13 DEF TypeOK, TaskOK
<1>15. Once'
  BY <1>1, <1>11, <1>13 DEF Inv, Once, SubscribedOnce, Connecting
<1>16. Noticed'
  BY <1>1, <1>12, <1>13 DEF Inv, Noticed, NoticeIsNewest, Quiet
<1>. QED  BY <1>2, <1>14, <1>15, <1>16 DEF Inv

LEMMA PollStoreStep ==
  ASSUME Inv, NEW h \in Slots, PollStore(h)
  PROVE  Inv' /\ Sound(reading')
<1>1. /\ TypeOK /\ task[h].op = "poll" /\ task[h].plant \in Plants
      /\ task[h].op \notin Connecting /\ lock # h
      /\ UNCHANGED <<world, channel, monitored, notice, connected, lock>>
      /\ cache' = [cache EXCEPT ![task[h].plant] = task[h].out]
      /\ task' = [task EXCEPT ![h] = Idle]
      /\ reading' = ReadingOf(task[h].plant, task[h].out)
  BY DEF PollStore, Finish, Inv, TypeOK, Connecting
<1>2. task[h].out \in Sampled
  BY <1>1, TaskType
<1>3. reading' \in Readings /\ Sound(reading')
  BY <1>1, <1>2, ReadingType
<1>4. /\ cache' \in [Plants -> Sampled]
      /\ \A p \in Plants : cache'[p] = IF p = task[h].plant THEN task[h].out ELSE cache[p]
  BY <1>1, <1>2 DEF TypeOK
<1>5. /\ task' \in [Slots -> Tasks] /\ task'[h] = Idle
      /\ \A g \in Slots \ {h} : task'[g] = task[g]
      /\ lock' \in Slots \cup {NoSlot}
      /\ \A g \in Slots : TaskOK(g)'
  BY <1>1, IdleType, TaskMoves DEF Connecting
<1>6. TypeOK'
  BY <1>1, <1>3, <1>4, <1>5 DEF TypeOK, TaskOK, world
<1>7. Once'
  BY <1>1, <1>5, IdleType DEF Inv, Once, SubscribedOnce, Connecting
<1>8. Noticed'
  <2>1. \A u \in Tags : cache'[u[1]][u[2]].by = "notice" =>
                          cache'[u[1]][u[2]] = cache[u[1]][u[2]]
    <3>1. ASSUME NEW u \in Tags, cache'[u[1]][u[2]].by = "notice"
          PROVE  cache'[u[1]][u[2]] = cache[u[1]][u[2]]
      <4>1. u[1] \in Plants /\ u[2] \in Fields
        BY TagParts
      <4>2. task[h].out[u[2]].by # "notice"
        BY <4>1 DEF Inv, Noticed
      <4>. QED  BY <1>4, <3>1, <4>1, <4>2
    <3>. QED  BY <3>1
  <2>2. monitored \subseteq Tags
    BY <1>1, Bounds DEF TypeOK
  <2>3. NoticeIsNewest'
    BY <1>1, <2>1, <2>2 DEF Inv, Noticed, NoticeIsNewest, world
  <2>4. Quiet(Idle)
    BY IdleType, NothingQuiet
  <2>. QED  BY <1>1, <1>5, <2>3, <2>4 DEF Inv, Noticed, Quiet, world
<1>. QED  BY <1>3, <1>6, <1>7, <1>8 DEF Inv

LEMMA DeliverStep ==
  ASSUME Inv, NEW t \in Tags, Deliver(t)
  PROVE  Inv' /\ Sound(reading')
<1>1. /\ TypeOK /\ notice[t].by = "notice" /\ notice[t] \in Samples
      /\ Stores(t, notice[t])
      /\ notice' = [notice EXCEPT ![t] = NoSample]
      /\ UNCHANGED <<world, channel, monitored, connected, lock, task>>
  BY DEF Deliver, Inv, TypeOK, Stores
<1>2. reading' \in Readings /\ Sound(reading')
  BY BlankType DEF Deliver, NoReading
<1>3. /\ cache' \in [Plants -> Sampled]
      /\ \A u \in Tags : cache'[u[1]][u[2]] = IF u = t THEN notice[t] ELSE cache[u[1]][u[2]]
  BY <1>1, CacheStore
<1>4. /\ notice' \in [Tags -> Samples] /\ notice'[t].by = "none"
      /\ \A u \in Tags \ {t} : notice'[u] = notice[u]
  BY <1>1, NoSampleType DEF TypeOK
<1>5. TypeOK'
  BY <1>1, <1>2, <1>3, <1>4 DEF TypeOK, world
<1>6. Once'
  BY <1>1 DEF Inv, Once, SubscribedOnce
<1>7. Noticed'
  <2>1. monitored \subseteq Tags /\ notice[t].version = node[t]
    BY <1>1, Bounds DEF Inv, TypeOK, Noticed
  <2>2. NoticeIsNewest'
    BY <1>1, <1>3, <1>4, <2>1 DEF Inv, Noticed, NoticeIsNewest, world
  <2>. QED  BY <1>1, <1>4, <2>2 DEF Inv, Noticed, world
<1>. QED  BY <1>2, <1>5, <1>6, <1>7 DEF Inv

LEMMA ChangeStep ==
  ASSUME Inv, NEW t \in Tags, Change(t)
  PROVE  Inv' /\ Sound(reading')
<1>1. /\ TypeOK
      /\ node' = [node EXCEPT ![t] = @ + 1]
      /\ notice' = [notice EXCEPT ![t] = IF t \in monitored
                                           THEN SampleOf(t, node[t] + 1, "notice") ELSE @]
      /\ UNCHANGED <<cfg, reachable, channel, monitored, connected, lock, cache, task, faults>>
  BY DEF Change, Inv
<1>2. reading' \in Readings /\ Sound(reading')
  BY BlankType DEF Change, NoReading
<1>3. node[t] + 1 \in 1 .. MaxVersion
  BY <1>1, Bounds DEF Change, TypeOK
<1>4. /\ node' \in [Tags -> 1 .. MaxVersion] /\ node'[t] = node[t] + 1
      /\ \A u \in Tags \ {t} : node'[u] = node[u]
  BY <1>1, <1>3 DEF TypeOK
<1>5. /\ SampleOf(t, node[t] + 1, "notice") \in Samples
      /\ SampleOf(t, node[t] + 1, "notice").by = "notice"
      /\ SampleOf(t, node[t] + 1, "notice").version = node[t] + 1
  BY <1>3, SampleType
<1>6. /\ notice' \in [Tags -> Samples]
      /\ t \in monitored => notice'[t].by = "notice" /\ notice'[t].version = node'[t]
      /\ t \notin monitored => notice'[t] = notice[t]
      /\ \A u \in Tags \ {t} : notice'[u] = notice[u]
  BY <1>1, <1>4, <1>5 DEF TypeOK
<1>7. TypeOK'
  BY <1>1, <1>2, <1>4, <1>6 DEF TypeOK
<1>8. Once'
  BY <1>1 DEF Inv, Once, SubscribedOnce
<1>9. Noticed'
  <2>1. monitored \subseteq Tags
    BY <1>1, Bounds DEF TypeOK
  <2>2. NoticeIsNewest'
    BY <1>1, <1>4, <1>6, <2>1 DEF Inv, Noticed, NoticeIsNewest
  <2>. QED  BY <1>1, <1>4, <1>6, <2>2 DEF Inv, Noticed
<1>. QED  BY <1>2, <1>7, <1>8, <1>9 DEF Inv

LEMMA LoseConnectionStep ==
  ASSUME Inv, LoseConnection
  PROVE  Inv' /\ Sound(reading')
<1>1. /\ TypeOK /\ reachable' = FALSE /\ channel' \in {"none", "open", "broken"}
      /\ monitored' = {}
      /\ \A t \in Tags : notice'[t] = NoSample
      /\ notice' \in [Tags -> Samples]
      /\ UNCHANGED <<cfg, node, connected, lock, cache, task>>
  BY NoSampleType DEF LoseConnection, Inv, TypeOK
<1>2. reading' \in Readings /\ Sound(reading')
  BY BlankType DEF LoseConnection, NoReading
<1>3. faults' \in 0 .. MaxFaults
  BY <1>1, Bounds DEF LoseConnection, Fault, TypeOK
<1>4. TypeOK'
  BY <1>1, <1>2, <1>3 DEF TypeOK
<1>5. Once'
  BY <1>1 DEF Inv, Once, SubscribedOnce
<1>6. Noticed'
  BY <1>1, NoSampleType DEF Inv, Noticed, NoticeIsNewest
<1>. QED  BY <1>2, <1>4, <1>5, <1>6 DEF Inv

LEMMA ReachableStep ==
  ASSUME Inv, Reachable
  PROVE  Inv' /\ Sound(reading')
<1>1. reading' \in Readings /\ Sound(reading')
  BY BlankType DEF Reachable, NoReading
<1>2. TypeOK'
  BY <1>1 DEF Reachable, Inv, TypeOK
<1>3. Once'
  BY DEF Reachable, Inv, Once, SubscribedOnce
<1>4. Noticed'
  BY DEF Reachable, Inv, Noticed, NoticeIsNewest
<1>. QED  BY <1>1, <1>2, <1>3, <1>4 DEF Inv

LEMMA RestartStep ==
  ASSUME Inv, Restart
  PROVE  Inv' /\ Sound(reading')
<1>1. /\ TypeOK /\ channel' = "none" /\ monitored' = {} /\ connected' = FALSE /\ lock' = NoSlot
      /\ \A t \in Tags : notice'[t] = NoSample
      /\ notice' \in [Tags -> Samples]
      /\ cache' \in [Plants -> Sampled]
      /\ task' \in [Slots -> Tasks] /\ \A h \in Slots : task'[h] = Idle
      /\ UNCHANGED <<cfg, node, reachable>>
  BY NoSampleType, IdleType DEF Restart, Inv
<1>2. reading' \in Readings /\ Sound(reading')
  BY BlankType DEF Restart, NoReading
<1>3. faults' \in 0 .. MaxFaults
  BY <1>1, Bounds DEF Restart, Fault, TypeOK
<1>4. \A h \in Slots : TaskOK(h)'
  BY <1>1, Bounds, IdleType DEF TaskOK, Connecting
<1>5. TypeOK'
  BY <1>1, <1>2, <1>3, <1>4 DEF TypeOK, TaskOK
<1>6. Once'
  BY <1>1, IdleType DEF Once, SubscribedOnce, Connecting
<1>7. Noticed'
  <2>1. Quiet(Idle)
    BY IdleType, NothingQuiet
  <2>. QED  BY <1>1, <2>1, NoSampleType DEF Noticed, NoticeIsNewest, Quiet
<1>. QED  BY <1>2, <1>5, <1>6, <1>7 DEF Inv

-----------------------------------------------------------------------------
(* Theorems.                                                               *)

LEMMA InitInv == Init => Inv /\ HealthyIsSampled
<1>. SUFFICES ASSUME Init PROVE Inv /\ HealthyIsSampled
  OBVIOUS
<1>1. /\ notice \in [Tags -> Samples] /\ cache \in [Plants -> Sampled]
      /\ task \in [Slots -> Tasks]
      /\ \A t \in Tags : notice[t] = NoSample
      /\ \A h \in Slots : task[h] = Idle
  BY NoSampleType, IdleType DEF Init
<1>2. reading \in Readings /\ Sound(reading)
  BY BlankType DEF Init, NoReading
<1>3. node \in [Tags -> 1 .. MaxVersion] /\ 0 \in 0 .. MaxFaults
  BY Bounds DEF Init
<1>4. \A h \in Slots : TaskOK(h)
  BY <1>1, Bounds, IdleType DEF Init, TaskOK, Connecting
<1>5. TypeOK
  BY <1>1, <1>2, <1>3, <1>4 DEF Init, TypeOK, TaskOK
<1>6. Once
  BY <1>1, IdleType DEF Init, Once, SubscribedOnce, Connecting
<1>7. Quiet(Idle)
  BY IdleType, NothingQuiet
<1>8. Noticed
  BY <1>1, <1>7, NoSampleType DEF Init, Noticed, NoticeIsNewest, Quiet
<1>. QED  BY <1>2, <1>5, <1>6, <1>8 DEF Inv, HealthyIsSampled, Sound

LEMMA NextInv == Inv /\ HealthyIsSampled /\ [Next]_vars => Inv' /\ HealthyIsSampled'
<1>. SUFFICES ASSUME Inv, HealthyIsSampled, [Next]_vars PROVE Inv' /\ HealthyIsSampled'
  OBVIOUS
<1>1. ASSUME Inv' /\ Sound(reading'), cfg' = cfg PROVE Inv' /\ HealthyIsSampled'
  BY <1>1 DEF HealthyIsSampled, Sound
<1>2. ASSUME NEW h \in Slots, (\E p \in Plants : Read(h, p)) \/ TakeLock(h) \/ Step(h)
      PROVE  Inv' /\ HealthyIsSampled'
  <2>1. Inv' /\ Sound(reading')
    BY <1>2, ReadStep, TakeLockStep, DialStep, ConnectFailsStep, SubscribeStep, SeedReadStep,
       SeedStoreStep, PollReadStep, PollStoreStep DEF Step
  <2>2. cfg' = cfg
    BY <1>2 DEF Read, TakeLock, Step, Dial, ConnectFails, Subscribe, SeedRead, SeedStore, PollRead,
                PollStore, world
  <2>. QED  BY <1>1, <2>1, <2>2
<1>3. ASSUME NEW t \in Tags, Deliver(t) \/ Change(t) PROVE Inv' /\ HealthyIsSampled'
  <2>1. Inv' /\ Sound(reading')
    BY <1>3, DeliverStep, ChangeStep
  <2>2. cfg' = cfg
    BY <1>3 DEF Deliver, Change, world
  <2>. QED  BY <1>1, <2>1, <2>2
<1>4. CASE LoseConnection \/ Reachable \/ Restart
  <2>1. Inv' /\ Sound(reading')
    BY <1>4, LoseConnectionStep, ReachableStep, RestartStep
  <2>2. cfg' = cfg
    BY <1>4 DEF LoseConnection, Reachable, Restart
  <2>. QED  BY <1>1, <2>1, <2>2
<1>5. CASE UNCHANGED vars
  BY <1>5 DEF vars, Inv, TypeOK, Once, SubscribedOnce, Noticed, NoticeIsNewest, HealthyIsSampled
<1>. QED  BY <1>2, <1>3, <1>4, <1>5 DEF Next

LEMMA InvHolds == Spec => [](Inv /\ HealthyIsSampled)
<1>. QED  BY InitInv, NextInv, PTL DEF Spec

\* Every reachable state is well typed, and whoever connects holds the lock, alone.
THEOREM TypeCorrect == Spec => []TypeOK
<1>1. Inv => TypeOK
  BY DEF Inv
<1>. QED  BY <1>1, InvHolds, PTL

\* However many tasks find the session closed, it is set up once: no tag is subscribed a
\* second time.
THEOREM OnceHolds == Spec => []SubscribedOnce
<1>1. Inv => SubscribedOnce
  BY DEF Inv, Once
<1>. QED  BY <1>1, InvHolds, PTL

\* Whatever a notification has put into the cache is the node's newest value, or a newer one
\* is on its way, however it races with seed reads, polls, faults and restarts.
THEOREM NoticesHold == Spec => []NoticeIsNewest
<1>1. Inv => NoticeIsNewest
  BY DEF Inv, Noticed
<1>. QED  BY <1>1, InvHolds, PTL

\* A reading that calls itself healthy has a sample of each field, none of them bad, whatever
\* the tag map, the content of the nodes and the accepted qualities.  Values are another matter:
\* PartialIsBad.
THEOREM HealthHolds == Spec => []HealthyIsSampled
<1>. QED  BY InvHolds, PTL

=============================================================================
