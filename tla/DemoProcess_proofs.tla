-------------------------- MODULE DemoProcess_proofs --------------------------
(***************************************************************************)
(* Theorems about DemoProcess, for any configurations, interval, number of *)
(* batches, outages and restarts.                                          *)
(***************************************************************************)
EXTENDS DemoProcess, TLAPS

\* A batch that is under way and has no number yet.
Unnumbered(h) ==
  IF task[h].op = "insert" \/ (task[h].op = "fall" /\ task[h].batch = 0) THEN 1 ELSE 0

\* Rows of the batch are in the table; its recommendation may still come to memory.
Claims(h) == task[h].op \in {"event", "fall"} /\ task[h].batch # 0

\* What is under way, with the numbers given so far: no number is given twice, and none
\* that a task still claims has a recommendation.
BatchInv ==
  /\ batches + Unnumbered("loop") + Unnumbered("request") <= MaxBatches
  /\ \A b \in Batches : b > batches => recs[b].status = "absent"
  /\ \A h \in Tasks :
       /\ task[h].op = "insert" => task[h].batch = 0
       /\ task[h].op \in {"query", "loaded"} /\ task[h].goal # "impact" => task[h].batch = 0
       /\ task[h].op \in {"query", "loaded"} /\ task[h].goal = "impact"
            => task[h].batch \in Batches /\ recs[task[h].batch].status # "absent"
       /\ Claims(h) => task[h].batch \in 1 .. batches /\ recs[task[h].batch].status = "absent"
  /\ Claims("loop") /\ Claims("request") => task["loop"].batch # task["request"].batch

-----------------------------------------------------------------------------
(* Types.                                                                  *)

LEMMA BoundTypes ==
  /\ Interval \in Nat \ {0} /\ MaxVersion \in Nat \ {0}
  /\ MaxBatches \in Nat /\ MaxTrail \in Nat /\ MaxFaults \in Nat
BY DemoAssumption

LEMMA IdleType == Idle \in Task
BY BoundTypes DEF Idle, Task, Ops, Goal, Versions

\* A task is a record with these fields.
LEMMA TaskType ==
  ASSUME TypeOK, NEW h \in Tasks
  PROVE  /\ task[h] \in Task
         /\ task[h].op \in Ops /\ task[h].goal \in Goal
         /\ task[h].used \in Versions /\ task[h].age \in 0 .. Interval
         /\ task[h].batch \in 0 .. MaxBatches
BY DEF TypeOK, Task

LEMMA OlderType ==
  ASSUME NEW a \in 0 .. Interval
  PROVE  Older(a) \in 0 .. Interval /\ Older(a) >= a
BY BoundTypes DEF Older

\* A step that changes one task, to a task, keeps the tasks typed.
LEMMA TaskStep ==
  ASSUME TypeOK, NEW h \in Tasks, NEW t \in Task, task' = [task EXCEPT ![h] = t],
         t.op = "event" => t.batch \in Batches,
         t.op \in {"loaded", "insert", "event", "fall"} => t.used # 0
  PROVE  /\ task' \in [Tasks -> Task]
         /\ \A g \in Tasks :
              /\ task'[g].op = "event" => task'[g].batch \in Batches
              /\ task'[g].op \in {"loaded", "insert", "event", "fall"} => task'[g].used # 0
<1>1. task' \in [Tasks -> Task] /\ task'[h] = t /\ \A g \in Tasks \ {h} : task'[g] = task[g]
  BY DEF TypeOK
<1>. QED  BY <1>1 DEF TypeOK

\* Ending a task keeps them typed.
LEMMA EndsType ==
  ASSUME TypeOK, NEW h \in Tasks, Ends(h)
  PROVE  /\ task' \in [Tasks -> Task]
         /\ task'[h].op = "idle"
         /\ \A g \in Tasks \ {h} : task'[g] = task[g]
         /\ \A g \in Tasks :
              /\ task'[g].op = "event" => task'[g].batch \in Batches
              /\ task'[g].op \in {"loaded", "insert", "event", "fall"} => task'[g].used # 0
<1>. DEFINE t == IF h = "loop" THEN [Idle EXCEPT !.used = task[h].used] ELSE Idle
<1>1. [Idle EXCEPT !.used = task[h].used] \in Task
  BY TaskType, IdleType DEF Idle, Task
<1>2. t \in Task /\ t.op = "idle"
  BY <1>1, IdleType DEF Idle
<1>3. task' = [task EXCEPT ![h] = t]
  BY DEF Ends
<1>. HIDE DEF t
<1>4. task'[h] = t /\ \A g \in Tasks \ {h} : task'[g] = task[g]
  BY <1>3 DEF TypeOK
<1>. QED  BY <1>2, <1>3, <1>4, TaskStep

\* Whatever leaves tasks, clocks, batches and recommendations alone keeps both.
LEMMA WorldKept ==
  ASSUME TypeOK, BatchInv,
         dbUp' \in BOOLEAN, feeding' \in BOOLEAN, plant' \in 1 .. MaxVersion,
         row' \in Versions, mem' \in Versions, feed' \in Versions, faults' \in 0 .. MaxFaults,
         UNCHANGED <<cfg, task, clocks, queues>>
  PROVE  TypeOK' /\ BatchInv'
<1>1. TypeOK'
  BY DEF TypeOK, clocks, queues
<1>2. BatchInv'
  BY DEF BatchInv, Unnumbered, Claims, queues
<1>. QED  BY <1>1, <1>2

\* The steps of the plant, the feeder and the database.
LEMMA WorldStep ==
  ASSUME TypeOK, BatchInv,
         FeederTick \/ FeederInsert \/ Change \/ Ingest \/ DbDown \/ DbUp
  PROVE  /\ TypeOK' /\ BatchInv'
         /\ UNCHANGED <<task, clocks, queues>>
<1>1. /\ dbUp \in BOOLEAN /\ feeding \in BOOLEAN /\ plant \in 1 .. MaxVersion
      /\ plant \in Versions /\ row \in Versions /\ mem \in Versions /\ feed \in Versions
      /\ 0 \in Versions /\ faults \in 0 .. MaxFaults
  BY BoundTypes DEF TypeOK, Versions
<1>2. CASE FeederTick
  BY <1>1, <1>2, WorldKept DEF FeederTick, Remember
<1>3. CASE FeederInsert
  BY <1>1, <1>3, WorldKept DEF FeederInsert
<1>4. CASE Change
  <2>1. plant' \in 1 .. MaxVersion
    BY <1>1, <1>4, BoundTypes DEF Change
  <2>. QED  BY <1>1, <1>4, <2>1, WorldKept DEF Change
<1>5. CASE Ingest
  BY <1>1, <1>5, WorldKept DEF Ingest
<1>6. CASE DbDown
  <2>1. faults' \in 0 .. MaxFaults
    BY <1>1, <1>6, BoundTypes DEF DbDown, Fault
  <2>. QED  BY <1>1, <1>6, <2>1, WorldKept DEF DbDown, readings
<1>7. CASE DbUp
  BY <1>1, <1>7, WorldKept DEF DbUp, readings
<1>. QED  BY <1>2, <1>3, <1>4, <1>5, <1>6, <1>7

\* The parts of BatchInv that speak of one task.
Numbered(h) ==
  /\ task[h].op = "insert" => task[h].batch = 0
  /\ task[h].op \in {"query", "loaded"} /\ task[h].goal # "impact" => task[h].batch = 0
  /\ task[h].op \in {"query", "loaded"} /\ task[h].goal = "impact"
       => task[h].batch \in Batches /\ recs[task[h].batch].status # "absent"
  /\ Claims(h) => task[h].batch \in 1 .. batches /\ recs[task[h].batch].status = "absent"

\* A step of a task that gives no number and touches no recommendation keeps BatchInv if
\* the task is as it should be, claims nothing new and has nothing new to number.
LEMMA QuietStep ==
  ASSUME TypeOK, BatchInv, NEW h \in Tasks, task' \in [Tasks -> Task],
         \A g \in Tasks \ {h} : task'[g] = task[g],
         UNCHANGED <<recs, batches>>,
         Numbered(h)',
         Unnumbered(h)' <= Unnumbered(h) \/ Room,
         Claims(h)' => Claims(h) /\ task'[h].batch = task[h].batch
  PROVE  BatchInv'
<1>1. \A g \in Tasks : Numbered(g)'
  BY DEF BatchInv, Numbered, Claims
<1>2. batches \in Nat /\ MaxBatches \in Nat
  BY BoundTypes DEF TypeOK
<1>3. \A g \in Tasks : Unnumbered(g) \in {0, 1} /\ Unnumbered(g)' \in {0, 1}
  BY DEF Unnumbered
<1>4. \A g \in Tasks \ {h} : Unnumbered(g)' = Unnumbered(g)
  BY DEF Unnumbered
<1>5. ASSUME Room, NEW g \in Tasks PROVE batches + Unnumbered(g) < MaxBatches
  <2>1. task[g].op \in {"insert", "fall"} => batches + 1 < MaxBatches
    BY <1>5 DEF Room
  <2>2. batches < MaxBatches
    BY <1>2, <1>5 DEF Room
  <2>. QED  BY <1>2, <2>1, <2>2 DEF Unnumbered
<1>6. (batches + Unnumbered("loop") + Unnumbered("request") <= MaxBatches)'
  <2>1. CASE Unnumbered(h)' <= Unnumbered(h)
    BY <1>2, <1>3, <1>4, <2>1 DEF BatchInv, Tasks
  <2>2. CASE Room
    BY <1>2, <1>3, <1>4, <1>5, <2>2 DEF Tasks
  <2>. QED  BY <2>1, <2>2
<1>7. (Claims("loop") /\ Claims("request") => task["loop"].batch # task["request"].batch)'
  BY DEF BatchInv, Claims, Tasks
<1>. QED  BY <1>1, <1>6, <1>7 DEF BatchInv, Numbered

\* A task that is idle has nothing to do with batches.
LEMMA IdleNumbered ==
  ASSUME NEW h \in Tasks, task'[h].op = "idle"
  PROVE  Numbered(h)' /\ Unnumbered(h)' = 0 /\ ~Claims(h)'
BY DEF Numbered, Unnumbered, Claims

LEMMA StartStep ==
  ASSUME TypeOK, BatchInv, NEW h \in Tasks, Start(h)
  PROVE  TypeOK' /\ BatchInv'
<1>1. PICK t \in Goals(h) :
        task' = [task EXCEPT ![h] = IF Latest # 0
                   THEN [t EXCEPT !.op = "loaded", !.used = Latest]
                   ELSE [t EXCEPT !.op = "query"]]
  BY DEF Start
<1>2. /\ t \in Task
      /\ t.goal # "impact" => t.batch = 0
      /\ t.goal = "impact" => t.batch \in held
  <2>1. CASE t = [Idle EXCEPT !.goal = "cycle"]
    BY <2>1, IdleType DEF Idle, Task, Goal
  <2>2. CASE \E g \in {"analyze", "live", "status"} : t = [Idle EXCEPT !.goal = g]
    BY <2>2, IdleType DEF Idle, Task, Goal
  <2>3. CASE \E b \in held : t = [Idle EXCEPT !.goal = "impact", !.batch = b]
    <3>1. PICK b \in held : t = [Idle EXCEPT !.goal = "impact", !.batch = b]
      BY <2>3
    <3>2. b \in 0 .. MaxBatches
      BY BoundTypes DEF TypeOK, Batches
    <3>. QED  BY <3>1, <3>2, IdleType DEF Idle, Task, Goal
  <2>. QED  BY <1>1, <2>1, <2>2, <2>3 DEF Goals
<1>3. Latest \in Versions
  BY BoundTypes DEF Latest, TypeOK, Versions
<1>4. PICK q \in Task :
        /\ task' = [task EXCEPT ![h] = q]
        /\ q.op \in {"query", "loaded"} /\ q.goal = t.goal /\ q.batch = t.batch
        /\ q.op = "loaded" => q.used # 0
  <2>1. [t EXCEPT !.op = "loaded", !.used = Latest] \in Task
    BY <1>2, <1>3 DEF Task, Ops
  <2>2. [t EXCEPT !.op = "query"] \in Task
    BY <1>2 DEF Task, Ops
  <2>3. CASE Latest # 0
    BY <1>1, <1>2, <2>1, <2>3 DEF Task
  <2>4. CASE Latest = 0
    BY <1>1, <1>2, <2>2, <2>4 DEF Task
  <2>. QED  BY <2>3, <2>4
<1>5. /\ task' \in [Tasks -> Task] /\ task'[h] = q
      /\ \A g \in Tasks \ {h} : task'[g] = task[g]
      /\ \A g \in Tasks : /\ task'[g].op = "event" => task'[g].batch \in Batches
                          /\ task'[g].op \in {"loaded", "insert", "event", "fall"}
                               => task'[g].used # 0
  BY <1>4, TaskStep DEF TypeOK
<1>6. UNCHANGED <<cfg, dbUp, readings, clocks, queues, faults>>
  BY DEF Start
<1>7. TypeOK'
  BY <1>5, <1>6 DEF TypeOK, readings, clocks, queues
<1>8. Numbered(h)' /\ Unnumbered(h)' = 0 /\ ~Claims(h)'
  BY <1>2, <1>4, <1>5, <1>6 DEF Numbered, Unnumbered, Claims, TypeOK, queues
<1>9. Unnumbered(h) \in {0, 1}
  BY DEF Unnumbered
<1>. QED  BY <1>5, <1>6, <1>7, <1>8, <1>9, QuietStep DEF queues

LEMMA QueryStep ==
  ASSUME TypeOK, BatchInv, NEW h \in Tasks, Query(h)
  PROVE  TypeOK' /\ BatchInv'
<1>. DEFINE stored == IF HasSession(h) /\ dbUp THEN row ELSE 0
            used == IF stored # 0 THEN stored ELSE IF Latest # 0 THEN Latest ELSE plant
            q == [task[h] EXCEPT !.op = "loaded", !.used = used, !.age = 0]
<1>1. used \in Versions /\ used # 0
  BY BoundTypes DEF Latest, TypeOK, Versions
<1>2. task[h].op = "query" /\ task' = [task EXCEPT ![h] = q]
  BY DEF Query, TypeOK
<1>3. /\ UNCHANGED <<cfg, dbUp, plant, row, feed, feeding, clocks, queues, faults>>
      /\ mem' = used \/ mem' = mem
  BY DEF Query, Remember
<1>. HIDE DEF used
<1>4. /\ q \in Task /\ q.op = "loaded" /\ q.used # 0
      /\ q.goal = task[h].goal /\ q.batch = task[h].batch
  <2>1. task[h] \in Task /\ "loaded" \in Ops /\ 0 \in 0 .. Interval
    BY TaskType, BoundTypes DEF Ops
  <2>2. [task[h] EXCEPT !.op = "loaded", !.used = used, !.age = 0] \in Task
    BY <1>1, <2>1 DEF Task
  <2>3. /\ q.op = "loaded" /\ q.used = used
        /\ q.goal = task[h].goal /\ q.batch = task[h].batch
    BY <2>1 DEF Task
  <2>. QED  BY <1>1, <2>2, <2>3
<1>. HIDE DEF q
<1>5. /\ task' \in [Tasks -> Task] /\ task'[h] = q
      /\ \A g \in Tasks \ {h} : task'[g] = task[g]
      /\ \A g \in Tasks : /\ task'[g].op = "event" => task'[g].batch \in Batches
                          /\ task'[g].op \in {"loaded", "insert", "event", "fall"}
                               => task'[g].used # 0
  BY <1>2, <1>4, TaskStep DEF TypeOK
<1>6. TypeOK'
  BY <1>1, <1>3, <1>5 DEF TypeOK, clocks, queues
<1>7. Numbered(h)' /\ Unnumbered(h)' = 0 /\ ~Claims(h)'
  BY <1>2, <1>3, <1>4, <1>5 DEF BatchInv, Numbered, Unnumbered, Claims, queues
<1>8. Unnumbered(h) \in {0, 1}
  BY DEF Unnumbered
<1>. QED  BY <1>3, <1>5, <1>6, <1>7, <1>8, QuietStep DEF queues

\* A task that ends touches nothing else of BatchInv.
LEMMA EndStep ==
  ASSUME TypeOK, BatchInv, NEW h \in Tasks, Ends(h), UNCHANGED <<recs, batches>>
  PROVE  BatchInv'
<1>1. /\ task' \in [Tasks -> Task] /\ task'[h].op = "idle"
      /\ \A g \in Tasks \ {h} : task'[g] = task[g]
  BY EndsType
<1>2. Numbered(h)' /\ Unnumbered(h)' = 0 /\ ~Claims(h)'
  BY <1>1 DEF Numbered, Unnumbered, Claims
<1>3. Unnumbered(h) \in {0, 1}
  BY DEF Unnumbered
<1>. QED  BY <1>1, <1>2, <1>3, QuietStep

LEMMA ShownStep ==
  ASSUME TypeOK, BatchInv, NEW h \in Tasks, Shown(h)
  PROVE  TypeOK' /\ BatchInv'
<1>1. Ends(h) /\ UNCHANGED <<cfg, dbUp, readings, clocks, queues, faults>>
  BY DEF Shown
<1>2. TypeOK'
  BY <1>1, EndsType DEF TypeOK, readings, clocks, queues
<1>3. BatchInv'
  BY <1>1, EndStep DEF queues
<1>. QED  BY <1>2, <1>3

LEMMA ComputeStep ==
  ASSUME TypeOK, BatchInv, NEW h \in Tasks, Compute(h)
  PROVE  TypeOK' /\ BatchInv'
<1>1. UNCHANGED <<cfg, dbUp, readings, clocks, queues, faults>>
  BY DEF Compute
<1>2. CASE Ends(h)
  <2>1. TypeOK'
    BY <1>1, <1>2, EndsType DEF TypeOK, readings, clocks, queues
  <2>2. BatchInv'
    BY <1>1, <1>2, EndStep DEF queues
  <2>. QED  BY <2>1, <2>2
<1>3. CASE Room /\ task' = [task EXCEPT ![h].op = "insert", ![h].age = 0]
  <2>. DEFINE q == [task[h] EXCEPT !.op = "insert", !.age = 0]
  <2>1. task[h].op = "loaded" /\ task[h].goal # "impact"
    BY DEF Compute
  <2>2. task[h] \in Task /\ task[h].used # 0 /\ task[h].batch = 0
    BY <2>1, TaskType DEF TypeOK, BatchInv
  <2>3. q \in Task
    <3>1. "insert" \in Ops /\ 0 \in 0 .. Interval
      BY BoundTypes DEF Ops
    <3>. QED  BY <2>2, <3>1 DEF Task
  <2>4. q.op = "insert" /\ q.used # 0 /\ q.batch = 0
    BY <2>2 DEF Task
  <2>5. task' = [task EXCEPT ![h] = q]
    BY <1>3 DEF TypeOK
  <2>. HIDE DEF q
  <2>6. /\ task' \in [Tasks -> Task] /\ task'[h] = q
        /\ \A g \in Tasks \ {h} : task'[g] = task[g]
        /\ \A g \in Tasks : /\ task'[g].op = "event" => task'[g].batch \in Batches
                            /\ task'[g].op \in {"loaded", "insert", "event", "fall"}
                                 => task'[g].used # 0
    BY <2>3, <2>4, <2>5, TaskStep DEF TypeOK
  <2>7. TypeOK'
    BY <1>1, <2>6 DEF TypeOK, readings, clocks, queues
  <2>8. Numbered(h)' /\ ~Claims(h)'
    BY <2>4, <2>6 DEF Numbered, Claims
  <2>. QED  BY <1>1, <1>3, <2>6, <2>7, <2>8, QuietStep DEF queues
<1>. QED  BY <1>2, <1>3 DEF Compute

LEMMA InsertStep ==
  ASSUME TypeOK, BatchInv, NEW h \in Tasks, Insert(h)
  PROVE  TypeOK' /\ BatchInv'
<1>1. /\ task[h].op = "insert" /\ task[h].batch = 0 /\ task[h].used # 0
      /\ task[h] \in Task
      /\ UNCHANGED <<cfg, dbUp, readings, since, recs, held, faults>>
  BY TaskType DEF Insert, TypeOK, BatchInv
<1>2. /\ batches \in Nat /\ MaxBatches \in Nat
      /\ \A g \in Tasks : Unnumbered(g) \in {0, 1}
  BY BoundTypes DEF TypeOK, Unnumbered
<1>3. CASE /\ batches' = batches + 1
           /\ table' = [table EXCEPT ![batches'].row = TRUE]
           /\ task' = [task EXCEPT ![h].op = "event", ![h].batch = batches']
           /\ quiet' = IF h = "loop" THEN task[h].age ELSE quiet
  <2>. DEFINE n == batches + 1
              q == [task[h] EXCEPT !.op = "event", !.batch = n]
  <2>1. Unnumbered(h) = 1
    BY <1>1 DEF Unnumbered
  <2>2. n \in Batches /\ n \in 0 .. MaxBatches /\ n > batches
    BY <1>2, <2>1 DEF BatchInv, Tasks, Batches
  <2>. HIDE DEF n
  <2>3. q \in Task
    BY <1>1, <2>2 DEF Task, Ops
  <2>4. q.op = "event" /\ q.used # 0 /\ q.batch = n
    BY <1>1 DEF Task
  <2>5. task' = [task EXCEPT ![h] = q] /\ batches' = n
    BY <1>3 DEF TypeOK, n
  <2>. HIDE DEF q
  <2>6. /\ task' \in [Tasks -> Task] /\ task'[h] = q
        /\ \A g \in Tasks \ {h} : task'[g] = task[g]
        /\ \A g \in Tasks : /\ task'[g].op = "event" => task'[g].batch \in Batches
                            /\ task'[g].op \in {"loaded", "insert", "event", "fall"}
                                 => task'[g].used # 0
    BY <2>2, <2>3, <2>4, <2>5, TaskStep DEF TypeOK
  <2>7. table' \in [Batches -> Row]
    <3>1. [table[n] EXCEPT !.row = TRUE] \in Row
      BY <2>2 DEF TypeOK, Row
    <3>2. table' = [table EXCEPT ![n] = [table[n] EXCEPT !.row = TRUE]]
      BY <1>3, <2>5, <2>2 DEF TypeOK
    <3>. QED  BY <3>1, <3>2 DEF TypeOK
  <2>8. quiet' \in 0 .. Interval
    BY <1>3, TaskType DEF TypeOK
  <2>9. TypeOK'
    BY <1>1, <2>2, <2>5, <2>6, <2>7, <2>8 DEF TypeOK, readings
  <2>10. recs[n].status = "absent" /\ recs' = recs
    BY <1>1, <2>2 DEF BatchInv
  <2>11. Numbered(h)' /\ Unnumbered(h)' = 0
    BY <1>2, <2>2, <2>4, <2>5, <2>6, <2>10 DEF Numbered, Unnumbered, Claims, n
  <2>12. \A g \in Tasks \ {h} : /\ Numbered(g)' /\ Unnumbered(g)' = Unnumbered(g)
                                /\ Claims(g)' => Claims(g) /\ task'[g].batch \in 1 .. batches
    BY <1>2, <2>5, <2>6, <2>10 DEF BatchInv, Numbered, Unnumbered, Claims, n
  <2>13. (batches + Unnumbered("loop") + Unnumbered("request") <= MaxBatches)'
    BY <1>2, <2>1, <2>5, <2>11, <2>12 DEF BatchInv, Tasks, n
  <2>14. \A b \in Batches : b > batches' => recs'[b].status = "absent"
    BY <1>2, <2>2, <2>5, <2>10 DEF BatchInv, Batches
  <2>15. (Claims("loop") /\ Claims("request") => task["loop"].batch # task["request"].batch)'
    BY <1>2, <2>2, <2>4, <2>6, <2>12 DEF Tasks
  <2>. QED  BY <2>9, <2>11, <2>12, <2>13, <2>14, <2>15 DEF BatchInv, Numbered
<1>4. CASE /\ task' = [task EXCEPT ![h].op = "fall"]
           /\ UNCHANGED <<table, batches, quiet>>
  <2>. DEFINE q == [task[h] EXCEPT !.op = "fall"]
  <2>1. q \in Task
    BY <1>1 DEF Task, Ops
  <2>2. q.op = "fall" /\ q.used # 0 /\ q.batch = 0
    BY <1>1 DEF Task
  <2>3. task' = [task EXCEPT ![h] = q]
    BY <1>4 DEF TypeOK
  <2>. HIDE DEF q
  <2>4. /\ task' \in [Tasks -> Task] /\ task'[h] = q
        /\ \A g \in Tasks \ {h} : task'[g] = task[g]
        /\ \A g \in Tasks : /\ task'[g].op = "event" => task'[g].batch \in Batches
                            /\ task'[g].op \in {"loaded", "insert", "event", "fall"}
                                 => task'[g].used # 0
    BY <2>1, <2>2, <2>3, TaskStep DEF TypeOK
  <2>5. TypeOK'
    BY <1>1, <1>4, <2>4 DEF TypeOK, readings
  <2>6. Numbered(h)' /\ ~Claims(h)' /\ Unnumbered(h)' = 1 /\ Unnumbered(h) = 1
    BY <1>1, <2>2, <2>4 DEF Numbered, Claims, Unnumbered
  <2>. QED  BY <1>1, <1>4, <2>4, <2>5, <2>6, QuietStep
<1>. QED  BY <1>3, <1>4 DEF Insert

LEMMA EventStep ==
  ASSUME TypeOK, BatchInv, NEW h \in Tasks, Event(h)
  PROVE  TypeOK' /\ BatchInv'
<1>1. /\ task[h].op = "event" /\ task[h].batch \in Batches /\ task[h].used # 0
      /\ task[h] \in Task /\ task[h].batch # 0
      /\ UNCHANGED <<cfg, dbUp, readings, quiet, recs, held, batches>>
  BY TaskType DEF Event, TypeOK, Batches
<1>2. table' \in [Batches -> Row]
  <2>. DEFINE b == task[h].batch
  <2>1. [table[b] EXCEPT !.event = TRUE] \in Row
    BY <1>1 DEF TypeOK, Row
  <2>2. [table EXCEPT ![b].event = TRUE] = [table EXCEPT ![b] = [table[b] EXCEPT !.event = TRUE]]
    BY <1>1 DEF TypeOK
  <2>. QED  BY <2>1, <2>2 DEF Event, TypeOK
<1>3. faults' \in 0 .. MaxFaults
  BY BoundTypes DEF Event, Fault, TypeOK
<1>4. since' \in 0 .. Interval
  BY TaskType DEF Event, Persisted, TypeOK
<1>5. CASE Ends(h)
  <2>1. TypeOK'
    BY <1>1, <1>2, <1>3, <1>4, <1>5, EndsType DEF TypeOK, readings
  <2>2. BatchInv'
    BY <1>1, <1>5, EndStep
  <2>. QED  BY <2>1, <2>2
<1>6. CASE task' = [task EXCEPT ![h].op = "fall"]
  <2>. DEFINE q == [task[h] EXCEPT !.op = "fall"]
  <2>1. q \in Task
    BY <1>1 DEF Task, Ops
  <2>2. q.op = "fall" /\ q.used # 0 /\ q.batch = task[h].batch
    BY <1>1 DEF Task
  <2>3. task' = [task EXCEPT ![h] = q]
    BY <1>6 DEF TypeOK
  <2>. HIDE DEF q
  <2>4. /\ task' \in [Tasks -> Task] /\ task'[h] = q
        /\ \A g \in Tasks \ {h} : task'[g] = task[g]
        /\ \A g \in Tasks : /\ task'[g].op = "event" => task'[g].batch \in Batches
                            /\ task'[g].op \in {"loaded", "insert", "event", "fall"}
                                 => task'[g].used # 0
    BY <2>1, <2>2, <2>3, TaskStep DEF TypeOK
  <2>5. TypeOK'
    BY <1>1, <1>2, <1>3, <1>4, <2>4 DEF TypeOK, readings
  <2>6. Claims(h) /\ Unnumbered(h) = 0 /\ Unnumbered(h)' = 0
    BY <1>1, <2>2, <2>4 DEF Claims, Unnumbered
  <2>7. Numbered(h)' /\ task'[h].batch = task[h].batch
    BY <1>1, <2>2, <2>4, <2>6 DEF BatchInv, Numbered, Claims
  <2>. QED  BY <1>1, <2>4, <2>5, <2>6, <2>7, QuietStep
<1>. QED  BY <1>5, <1>6 DEF Event

LEMMA FallBackStep ==
  ASSUME TypeOK, BatchInv, NEW h \in Tasks, FallBack(h)
  PROVE  TypeOK' /\ BatchInv'
<1>1. /\ task[h].op = "fall" /\ task[h].batch \in 0 .. MaxBatches
      /\ Ends(h) /\ Persisted(h)
      /\ UNCHANGED <<cfg, dbUp, readings, table, faults>>
  BY TaskType DEF FallBack
<1>2. /\ batches \in Nat /\ MaxBatches \in Nat
      /\ \A g \in Tasks : Unnumbered(g) \in {0, 1}
  BY BoundTypes DEF TypeOK, Unnumbered
<1>3. since' \in 0 .. Interval
  BY <1>1, TaskType DEF Persisted, TypeOK
<1>4. CASE UNCHANGED <<batches, recs, held, quiet>>
  <2>1. TypeOK'
    BY <1>1, <1>3, <1>4, EndsType DEF TypeOK, readings
  <2>2. BatchInv'
    BY <1>1, <1>4, EndStep
  <2>. QED  BY <2>1, <2>2
<1>5. ASSUME NEW b,
             b = IF task[h].batch = 0 THEN batches + 1 ELSE task[h].batch,
             batches' = IF task[h].batch = 0 THEN b ELSE batches,
             recs' = [recs EXCEPT ![b] = [status |-> "pending", trail |-> <<"pending">>]],
             held' = held \cup {b},
             quiet' = IF h = "loop" THEN task[h].age ELSE quiet
      PROVE  TypeOK' /\ BatchInv'
  <2>1. /\ b \in Batches /\ b <= batches' /\ batches' \in 0 .. MaxBatches /\ batches <= batches'
        /\ recs[b].status = "absent"
        /\ \A g \in Tasks \ {h} : Claims(g) => task[g].batch # b
        /\ batches' + Unnumbered(h)' = batches + Unnumbered(h)
    <3>0. Unnumbered(h)' = 0
      BY <1>1, EndsType DEF Unnumbered
    <3>1. CASE task[h].batch = 0
      <4>1. Unnumbered(h) = 1 /\ b = batches + 1 /\ batches' = b
        BY <1>1, <1>5, <3>1 DEF Unnumbered
      <4>2. b \in Batches /\ b > batches /\ b <= MaxBatches
        BY <1>2, <4>1 DEF BatchInv, Tasks, Batches
      <4>3. \A g \in Tasks \ {h} : Claims(g) => task[g].batch # b
        BY <1>2, <4>1 DEF BatchInv
      <4>. QED  BY <1>2, <3>0, <4>1, <4>2, <4>3 DEF BatchInv
    <3>2. CASE task[h].batch # 0
      <4>1. Claims(h) /\ Unnumbered(h) = 0 /\ b = task[h].batch /\ batches' = batches
        BY <1>1, <1>5, <3>2 DEF Unnumbered, Claims
      <4>2. b \in 1 .. batches /\ recs[b].status = "absent"
        BY <4>1 DEF BatchInv
      <4>3. b \in Batches /\ batches \in 0 .. MaxBatches
        BY <1>2, <4>2 DEF TypeOK, Batches
      <4>4. \A g \in Tasks \ {h} : Claims(g) => task[g].batch # b
        BY <4>1 DEF BatchInv, Tasks
      <4>. QED  BY <1>2, <3>0, <4>1, <4>2, <4>3, <4>4
    <3>. QED  BY <3>1, <3>2
  <2>2. [status |-> "pending", trail |-> <<"pending">>] \in Rec
    BY DEF Rec, Statuses
  <2>3. /\ recs' \in [Batches -> Rec] /\ recs'[b].status = "pending"
        /\ \A c \in Batches \ {b} : recs'[c] = recs[c]
    BY <1>5, <2>1, <2>2 DEF TypeOK
  <2>4. held' \subseteq {c \in Batches : recs'[c].status # "absent"}
    BY <1>5, <2>1, <2>3 DEF TypeOK
  <2>5. quiet' \in 0 .. Interval
    BY <1>5, TaskType DEF TypeOK
  <2>6. TypeOK'
    BY <1>1, <1>3, <2>1, <2>3, <2>4, <2>5, EndsType DEF TypeOK, readings
  <2>7. /\ task'[h].op = "idle"
        /\ \A g \in Tasks \ {h} : task'[g] = task[g]
    BY <1>1, EndsType
  <2>8. \A g \in Tasks : Numbered(g)'
    <3>1. Numbered(h)'
      BY <2>7 DEF Numbered, Claims
    <3>2. ASSUME NEW g \in Tasks \ {h} PROVE Numbered(g)'
      BY <1>2, <2>1, <2>3, <2>7, TaskType DEF BatchInv, Numbered, Claims, Batches
    <3>. QED  BY <3>1, <3>2
  <2>9. (batches + Unnumbered("loop") + Unnumbered("request") <= MaxBatches)'
    <3>1. \A g \in Tasks \ {h} : Unnumbered(g)' = Unnumbered(g)
      BY <2>7 DEF Unnumbered
    <3>2. Unnumbered(h)' \in {0, 1} /\ batches' \in Nat
      BY <1>2, <2>1 DEF Unnumbered
    <3>. QED  BY <1>2, <2>1, <3>1, <3>2 DEF BatchInv, Tasks
  <2>10. \A c \in Batches : c > batches' => recs'[c].status = "absent"
    BY <1>2, <2>1, <2>3 DEF BatchInv, Batches
  <2>11. (Claims("loop") /\ Claims("request") => task["loop"].batch # task["request"].batch)'
    BY <2>7 DEF Claims, Tasks
  <2>. QED  BY <2>6, <2>8, <2>9, <2>10, <2>11 DEF BatchInv, Numbered
<1>. QED  BY <1>4, <1>5 DEF FallBack

\* What is not absent stays not absent, and keeps its trail.
LEMMA SetStatusStep ==
  ASSUME TypeOK, BatchInv, NEW b \in Batches, recs[b].status # "absent",
         NEW new \in Statuses \ {"absent"}, NEW datetimes \in BOOLEAN,
         SetStatus(b, new, datetimes)
  PROVE  /\ UNCHANGED <<cfg, dbUp, readings, clocks, table, held, batches, faults>>
         /\ recs' \in [Batches -> Rec] /\ recs'[b].status = new
         /\ \A c \in Batches \ {b} : recs'[c] = recs[c]
         /\ \A c \in Batches : recs'[c].status = "absent" <=> recs[c].status = "absent"
<1>1. UNCHANGED <<cfg, dbUp, readings, clocks, table, held, batches, faults>>
  BY DEF SetStatus
<1>2. recs[b].trail \in Seq(Statuses) /\ recs[b].status \in Statuses
  BY DEF TypeOK, Rec
<1>3. PICK r \in Rec : r.status = new /\ recs' = [recs EXCEPT ![b] = r]
  <2>. DEFINE t == IF datetimes THEN recs[b].trail ELSE Append(recs[b].trail, new)
              r == [status |-> new, trail |-> t]
  <2>1. t \in Seq(Statuses)
    BY <1>2
  <2>2. recs' = [recs EXCEPT ![b] = r]
    BY DEF SetStatus, TypeOK
  <2>. HIDE DEF t
  <2>3. r \in Rec /\ r.status = new
    BY <2>1 DEF Rec
  <2>. QED  BY <2>2, <2>3
<1>4. /\ recs' \in [Batches -> Rec] /\ recs'[b].status = new
      /\ \A c \in Batches \ {b} : recs'[c] = recs[c]
  BY <1>3 DEF TypeOK
<1>. QED  BY <1>1, <1>4

\* A recommendation in memory is decided while tasks go on.
LEMMA DecideStep ==
  ASSUME TypeOK, BatchInv, NEW b \in Batches, recs[b].status # "absent",
         NEW new \in Statuses \ {"absent"}, NEW datetimes \in BOOLEAN,
         SetStatus(b, new, datetimes), UNCHANGED task
  PROVE  TypeOK' /\ BatchInv'
<1>1. /\ UNCHANGED <<cfg, dbUp, readings, clocks, table, held, batches, faults>>
      /\ recs' \in [Batches -> Rec]
      /\ \A c \in Batches : recs'[c].status = "absent" <=> recs[c].status = "absent"
  BY SetStatusStep
<1>2. TypeOK'
  BY <1>1 DEF TypeOK, readings, clocks
<1>3. \A h \in Tasks : Claims(h) => task[h].batch \in Batches
  BY BoundTypes DEF BatchInv, TypeOK, Batches
<1>4. BatchInv'
  BY <1>1, <1>3 DEF BatchInv, Unnumbered, Claims
<1>. QED  BY <1>2, <1>4

LEMMA FeedbackStep ==
  ASSUME TypeOK, BatchInv, NEW b \in Batches,
         NEW d \in {"accepted", "rejected"}, Feedback(b, d)
  PROVE  TypeOK' /\ BatchInv'
<1>1. recs[b].status # "absent" /\ d \in Statuses \ {"absent"}
  BY DEF Feedback, TypeOK, Statuses
<1>2. SetStatus(b, d, d = "rejected") /\ UNCHANGED task
  BY DEF Feedback
<1>3. (d = "rejected") \in BOOLEAN
  OBVIOUS
<1>. QED  BY <1>1, <1>2, <1>3, DecideStep

LEMMA ApproveStep ==
  ASSUME TypeOK, BatchInv, NEW b \in Batches, Approve(b) \/ Apply(b)
  PROVE  TypeOK' /\ BatchInv'
<1>1. recs[b].status # "absent" /\ {"approved", "applied"} \subseteq Statuses \ {"absent"}
  BY DEF Approve, Apply, Statuses
<1>2. CASE Approve(b)
  BY <1>1, <1>2, DecideStep DEF Approve
<1>3. CASE Apply(b)
  BY <1>1, <1>3, DecideStep DEF Apply
<1>. QED  BY <1>2, <1>3

LEMMA ImpactStep ==
  ASSUME TypeOK, BatchInv, NEW h \in Tasks, Impact(h)
  PROVE  TypeOK' /\ BatchInv'
<1>. DEFINE b == task[h].batch
            st == recs[b].status
<1>1. b \in Batches /\ st # "absent"
  BY DEF Impact, BatchInv
<1>2. st \in Statuses \ {"absent"}
  BY <1>1 DEF TypeOK, Rec
<1>3. SetStatus(b, st, FALSE) /\ Ends(h)
  BY DEF Impact
<1>. HIDE DEF b, st
<1>4. st = recs[b].status
  BY DEF st
<1>5. /\ UNCHANGED <<cfg, dbUp, readings, clocks, table, held, batches, faults>>
      /\ recs' \in [Batches -> Rec]
      /\ \A c \in Batches : recs'[c].status = "absent" <=> recs[c].status = "absent"
  BY <1>1, <1>2, <1>3, <1>4, SetStatusStep
<1>6. TypeOK'
  BY <1>3, <1>5, EndsType DEF TypeOK, readings, clocks
<1>7. /\ task' \in [Tasks -> Task] /\ task'[h].op = "idle"
      /\ \A g \in Tasks \ {h} : task'[g] = task[g]
  BY <1>3, EndsType
<1>8. \A g \in Tasks : Claims(g) => task[g].batch \in Batches
  BY BoundTypes DEF BatchInv, TypeOK, Batches
<1>9. /\ \A g \in Tasks : Numbered(g)'
      /\ \A c \in Batches : c > batches' => recs'[c].status = "absent"
  BY <1>5, <1>7, <1>8 DEF BatchInv, Numbered, Claims
<1>10. (batches + Unnumbered("loop") + Unnumbered("request") <= MaxBatches)'
  <2>1. /\ batches \in Nat /\ MaxBatches \in Nat
        /\ \A g \in Tasks : Unnumbered(g) \in {0, 1} /\ Unnumbered(g)' \in {0, 1}
    BY BoundTypes DEF TypeOK, Unnumbered
  <2>2. Unnumbered(h)' = 0 /\ \A g \in Tasks \ {h} : Unnumbered(g)' = Unnumbered(g)
    BY <1>7 DEF Unnumbered
  <2>. QED  BY <1>5, <2>1, <2>2 DEF BatchInv, Tasks
<1>11. (Claims("loop") /\ Claims("request") => task["loop"].batch # task["request"].batch)'
  BY <1>7 DEF BatchInv, Claims, Tasks
<1>. QED  BY <1>6, <1>9, <1>10, <1>11 DEF BatchInv, Numbered

LEMMA TickStep ==
  ASSUME TypeOK, BatchInv, Tick
  PROVE  /\ TypeOK' /\ BatchInv'
         /\ since' = Older(since) /\ quiet' = Older(quiet) /\ UNCHANGED queues
         /\ task'["loop"].op = task["loop"].op
         /\ task'["loop"].age = IF task["loop"].op \in {"insert", "event", "fall"}
                                  THEN Older(task["loop"].age) ELSE task["loop"].age
<1>. DEFINE a == IF task["loop"].op \in {"insert", "event", "fall"}
                   THEN Older(task["loop"].age) ELSE task["loop"].age
            q == [task["loop"] EXCEPT !.age = a]
<1>1. UNCHANGED <<cfg, dbUp, readings, queues, faults>>
  BY DEF Tick
<1>2. task["loop"] \in Task /\ a \in 0 .. Interval
  BY TaskType, OlderType DEF Tasks
<1>3. since' \in 0 .. Interval /\ quiet' \in 0 .. Interval
  BY OlderType DEF Tick, TypeOK
<1>4. task' = [task EXCEPT !["loop"] = q]
  BY DEF Tick, TypeOK, Tasks
<1>5. a = IF task["loop"].op \in {"insert", "event", "fall"}
            THEN Older(task["loop"].age) ELSE task["loop"].age
  OBVIOUS
<1>. HIDE DEF a
<1>6. q \in Task
  BY <1>2 DEF Task
<1>7. /\ q.op = task["loop"].op /\ q.goal = task["loop"].goal /\ q.used = task["loop"].used
      /\ q.batch = task["loop"].batch /\ q.age = a
  BY <1>2 DEF Task
<1>. HIDE DEF q
<1>8. /\ task' \in [Tasks -> Task] /\ task'["loop"] = q
      /\ \A g \in Tasks \ {"loop"} : task'[g] = task[g]
  BY <1>4, <1>6 DEF TypeOK, Tasks
<1>9. \A g \in Tasks : /\ task'[g].op = task[g].op /\ task'[g].goal = task[g].goal
                       /\ task'[g].used = task[g].used /\ task'[g].batch = task[g].batch
  BY <1>7, <1>8
<1>10. TypeOK'
  BY <1>1, <1>3, <1>8, <1>9 DEF TypeOK, readings, queues
<1>11. BatchInv'
  BY <1>1, <1>9 DEF BatchInv, Unnumbered, Claims, queues, Tasks
<1>12. since' = Older(since) /\ quiet' = Older(quiet)
  BY DEF Tick
<1>. QED  BY <1>1, <1>5, <1>7, <1>8, <1>10, <1>11, <1>12

LEMMA RestartStep ==
  ASSUME TypeOK, BatchInv, Restart
  PROVE  TypeOK' /\ BatchInv'
<1>1. /\ task' \in [Tasks -> Task]
      /\ \A g \in Tasks : task'[g] = Idle
  BY IdleType DEF Restart
<1>2. /\ UNCHANGED <<cfg, dbUp, plant, row, table, recs, batches>>
      /\ mem' = 0 /\ feed' = 0 /\ held' = {} /\ since' = Interval /\ quiet' = Interval
  BY DEF Restart
<1>3. /\ 0 \in Versions /\ Interval \in 0 .. Interval /\ faults' \in 0 .. MaxFaults
  BY BoundTypes DEF Restart, Fault, TypeOK, Versions
<1>4. feeding' \in BOOLEAN
  BY DEF Restart, Inserts, Inline, ShouldRunDemoFeeder, TypeOK
<1>5. TypeOK'
  BY <1>1, <1>2, <1>3, <1>4 DEF TypeOK, Idle
<1>6. \A g \in Tasks : Unnumbered(g)' = 0 /\ ~Claims(g)' /\ task'[g].op = "idle"
  BY <1>1 DEF Unnumbered, Claims, Idle
<1>7. batches' \in 0 .. MaxBatches /\ MaxBatches \in Nat
  BY <1>2, BoundTypes DEF TypeOK
<1>8. (batches + Unnumbered("loop") + Unnumbered("request") <= MaxBatches)'
  BY <1>6, <1>7 DEF Tasks
<1>. QED  BY <1>2, <1>5, <1>6, <1>8 DEF BatchInv, Tasks

LEMMA InitType == Init => TypeOK /\ BatchInv
<1>. SUFFICES ASSUME Init PROVE TypeOK /\ BatchInv
  OBVIOUS
<1>1. /\ 0 \in Versions /\ Interval \in 0 .. Interval /\ 1 \in 1 .. MaxVersion
      /\ 0 \in 0 .. MaxFaults /\ 0 \in 0 .. MaxBatches
  BY BoundTypes DEF Versions
<1>2. /\ task \in [Tasks -> Task]
      /\ \A g \in Tasks : task[g] = Idle /\ task[g].op = "idle"
  BY IdleType DEF Init, Idle
<1>3. /\ table \in [Batches -> Row]
      /\ recs \in [Batches -> Rec]
      /\ \A b \in Batches : recs[b].status = "absent"
  BY DEF Init, Row, Rec, Statuses
<1>4. feeding \in BOOLEAN
  BY DEF Init, Inserts, Inline, ShouldRunDemoFeeder
<1>5. TypeOK
  BY <1>1, <1>2, <1>3, <1>4 DEF Init, TypeOK
<1>6. \A g \in Tasks : Unnumbered(g) = 0 /\ ~Claims(g)
  BY <1>2 DEF Unnumbered, Claims
<1>7. batches + Unnumbered("loop") + Unnumbered("request") <= MaxBatches
  BY <1>6, BoundTypes DEF Init, Tasks
<1>. QED  BY <1>2, <1>3, <1>5, <1>6, <1>7 DEF BatchInv, Tasks

LEMMA NextType == TypeOK /\ BatchInv /\ [Next]_vars => TypeOK' /\ BatchInv'
<1>. SUFFICES ASSUME TypeOK, BatchInv, [Next]_vars PROVE TypeOK' /\ BatchInv'
  OBVIOUS
<1>1. CASE FeederTick \/ FeederInsert \/ Change \/ Ingest \/ DbDown \/ DbUp
  BY <1>1, WorldStep
<1>2. ASSUME NEW h \in Tasks, Start(h) \/ Step(h) PROVE TypeOK' /\ BatchInv'
  BY <1>2, StartStep, QueryStep, ShownStep, ImpactStep, ComputeStep, InsertStep, EventStep,
     FallBackStep DEF Step
<1>3. ASSUME NEW b \in Batches,
             (\E d \in {"accepted", "rejected"} : Feedback(b, d)) \/ Approve(b) \/ Apply(b)
      PROVE  TypeOK' /\ BatchInv'
  BY <1>3, FeedbackStep, ApproveStep
<1>4. CASE Tick
  BY <1>4, TickStep
<1>5. CASE Restart
  BY <1>5, RestartStep
<1>6. CASE UNCHANGED vars
  BY <1>6 DEF vars, readings, clocks, queues, TypeOK, BatchInv, Unnumbered, Claims
<1>. QED  BY <1>1, <1>2, <1>3, <1>4, <1>5, <1>6 DEF Next

\* Every reachable state is well typed.  BatchInv comes with it: no two batches under way get
\* the same number, and there is a number for each.
THEOREM TypeCorrect == Spec => [](TypeOK /\ BatchInv)
<1>. QED  BY InitType, NextType, PTL DEF Spec

-----------------------------------------------------------------------------
(* How often the loop queues.                                              *)

\* The clock of the loop never runs ahead of the time that has really passed since what it
\* queued last was computed; while it queues, the computation it will set the clock to does
\* not either.
ClockInv ==
  /\ task["loop"].op \in {"idle", "query", "loaded"} => since <= quiet
  /\ task["loop"].op \in {"insert", "event", "fall"} => task["loop"].age <= quiet

\* Steps of a request leave the loop and its clocks alone.
LEMMA RequestStep ==
  ASSUME TypeOK, ClockInv, Start("request") \/ Step("request")
  PROVE  /\ ClockInv'
         /\ task'["loop"] = task["loop"]
<1>1. task'["loop"] = task["loop"]
  BY DEF Start, Step, Query, Shown, Impact, Compute, Insert, Event, FallBack, Ends, TypeOK, Tasks
<1>2. UNCHANGED clocks
  BY DEF Start, Step, Query, Shown, Impact, SetStatus, Compute, Insert, Event, FallBack,
         Persisted, clocks
<1>. QED  BY <1>1, <1>2 DEF ClockInv, clocks

\* The loop up to its decision to queue.
LEMMA LookStep ==
  ASSUME TypeOK, ClockInv,
         Start("loop") \/ Query("loop") \/ Shown("loop") \/ Impact("loop")
  PROVE  /\ ClockInv'
         /\ task'["loop"].op # "insert"
<1>1. UNCHANGED clocks
  BY DEF Start, Query, Shown, Impact, SetStatus, clocks
<1>2. task["loop"].op \in {"idle", "query", "loaded"}
  BY DEF Start, Query, Shown, Impact
<1>3. task'["loop"].op \in {"idle", "query", "loaded"}
  <2>1. CASE Start("loop")
    <3>1. \A t \in Goals("loop") : t = [Idle EXCEPT !.goal = "cycle"]
      BY DEF Goals
    <3>2. PICK t \in Goals("loop") :
            task' = [task EXCEPT !["loop"] = IF Latest # 0
                       THEN [t EXCEPT !.op = "loaded", !.used = Latest]
                       ELSE [t EXCEPT !.op = "query"]]
      BY <2>1 DEF Start
    <3>. QED  BY <3>1, <3>2 DEF Idle, TypeOK, Tasks
  <2>2. CASE Query("loop")
    <3>1. task["loop"] \in Task
      BY TaskType DEF Tasks
    <3>. QED  BY <2>2, <3>1 DEF Query, TypeOK, Tasks, Task
  <2>3. CASE Shown("loop") \/ Impact("loop")
    BY <2>3, EndsType DEF Shown, Impact, Tasks
  <2>. QED  BY <2>1, <2>2, <2>3
<1>. QED  BY <1>1, <1>2, <1>3 DEF ClockInv, clocks

\* The decision: an interval has passed since the clock was set.
LEMMA DueStep ==
  ASSUME TypeOK, ClockInv, Compute("loop")
  PROVE  /\ ClockInv'
         /\ task'["loop"].op = "insert" => quiet = Interval
<1>1. UNCHANGED clocks /\ task["loop"].op = "loaded"
  BY DEF Compute
<1>2. /\ since \in 0 .. Interval /\ quiet \in 0 .. Interval /\ since <= quiet /\ Interval \in Nat
  BY <1>1, BoundTypes DEF ClockInv, TypeOK
<1>3. CASE Ends("loop")
  BY <1>1, <1>2, <1>3, EndsType DEF ClockInv, clocks, Tasks
<1>4. CASE /\ since = Interval
           /\ task' = [task EXCEPT !["loop"].op = "insert", !["loop"].age = 0]
  <2>1. task["loop"] \in Task
    BY TaskType DEF Tasks
  <2>2. task'["loop"].op = "insert" /\ task'["loop"].age = 0
    BY <1>4, <2>1 DEF TypeOK, Tasks, Task
  <2>. QED  BY <1>1, <1>2, <1>4, <2>2 DEF ClockInv, clocks
<1>. QED  BY <1>3, <1>4 DEF Compute

\* Queueing, and falling back.
LEMMA QueueStep ==
  ASSUME TypeOK, ClockInv, Insert("loop") \/ Event("loop") \/ FallBack("loop")
  PROVE  /\ ClockInv'
         /\ task["loop"].op # "loaded"
<1>1. /\ task["loop"].op \in {"insert", "event", "fall"}
      /\ task["loop"].age \in 0 .. Interval /\ quiet \in 0 .. Interval
      /\ task["loop"].age <= quiet /\ task["loop"] \in Task
  BY TaskType DEF Insert, Event, FallBack, ClockInv, TypeOK, Tasks
<1>2. \/ quiet' = quiet
      \/ quiet' = task["loop"].age
  BY DEF Insert, Event, FallBack
<1>3. task["loop"].age <= quiet'
  BY <1>1, <1>2 DEF Insert, Event, FallBack
<1>4. CASE Ends("loop") /\ Persisted("loop")
  BY <1>1, <1>3, <1>4, EndsType DEF ClockInv, Persisted, Tasks
<1>5. CASE task' = [task EXCEPT !["loop"].op = "event", !["loop"].batch = batches']
  <2>1. task'["loop"].op = "event" /\ task'["loop"].age = task["loop"].age
    BY <1>1, <1>5 DEF TypeOK, Tasks, Task
  <2>. QED  BY <1>1, <1>3, <2>1 DEF ClockInv
<1>6. CASE task' = [task EXCEPT !["loop"].op = "fall"]
  <2>1. task'["loop"].op = "fall" /\ task'["loop"].age = task["loop"].age
    BY <1>1, <1>6 DEF TypeOK, Tasks, Task
  <2>. QED  BY <1>1, <1>3, <2>1 DEF ClockInv
<1>. QED  BY <1>1, <1>4, <1>5, <1>6 DEF Insert, Event, FallBack

LEMMA ClockNext ==
  ASSUME TypeOK, BatchInv, ClockInv, [Next]_vars
  PROVE  /\ ClockInv'
         /\ task["loop"].op = "loaded" /\ task'["loop"].op = "insert" => quiet = Interval
<1>1. CASE FeederTick \/ FeederInsert \/ Change \/ Ingest \/ DbDown \/ DbUp
  BY <1>1, WorldStep DEF ClockInv, clocks
<1>2. CASE Start("request") \/ Step("request")
  BY <1>2, RequestStep
<1>3. CASE Start("loop") \/ Query("loop") \/ Shown("loop") \/ Impact("loop")
  BY <1>3, LookStep
<1>4. CASE Compute("loop")
  BY <1>4, DueStep
<1>5. CASE Insert("loop") \/ Event("loop") \/ FallBack("loop")
  BY <1>5, QueueStep
<1>6. CASE \E b \in Batches : \/ \E d \in {"accepted", "rejected"} : Feedback(b, d)
                              \/ Approve(b) \/ Apply(b)
  BY <1>6 DEF Feedback, Approve, Apply, SetStatus, ClockInv, clocks
<1>7. CASE Tick
  <2>1. /\ since' = Older(since) /\ quiet' = Older(quiet)
        /\ task'["loop"].op = task["loop"].op
        /\ task'["loop"].age = IF task["loop"].op \in {"insert", "event", "fall"}
                                 THEN Older(task["loop"].age) ELSE task["loop"].age
    BY <1>7, TickStep
  <2>2. \A x, y \in 0 .. Interval : x <= y => Older(x) <= Older(y)
    BY BoundTypes DEF Older
  <2>3. since \in 0 .. Interval /\ quiet \in 0 .. Interval /\ task["loop"].age \in 0 .. Interval
    BY TaskType DEF TypeOK, Tasks
  <2>. QED  BY <2>1, <2>2, <2>3 DEF ClockInv
<1>8. CASE Restart
  BY <1>8, BoundTypes DEF Restart, ClockInv, Idle, Tasks
<1>9. CASE UNCHANGED vars
  BY <1>9 DEF vars, ClockInv, clocks
<1>. QED
  BY <1>1, <1>2, <1>3, <1>4, <1>5, <1>6, <1>7, <1>8, <1>9 DEF Next, Step, Tasks

\* Whatever fails half-way, the loop queues advice at most once per interval.
THEOREM LoopIsSparing == Spec => QueuedSparingly
<1>1. Init => ClockInv
  BY BoundTypes DEF Init, ClockInv, Idle, Tasks
<1>2. TypeOK /\ BatchInv /\ ClockInv /\ [Next]_vars =>
        /\ ClockInv'
        /\ [task["loop"].op = "loaded" /\ task'["loop"].op = "insert" => quiet = Interval]_vars
  BY ClockNext
<1>. QED  BY <1>1, <1>2, TypeCorrect, PTL DEF Spec, QueuedSparingly

-----------------------------------------------------------------------------
(* The lifecycle of what is kept in memory.                                *)

Stage == [b \in Batches |-> recs[b].status]

\* A decision is a move of the abstract lifecycle, or repeats an acceptance.
LEMMA DecisionMoves ==
  ASSUME TypeOK, BatchInv, NEW b \in Batches,
         (\E d \in {"accepted", "rejected"} : Feedback(b, d)) \/ Approve(b) \/ Apply(b)
  PROVE  Memory!Next \/ UNCHANGED Stage
<1>1. recs[b].status # "absent"
  BY DEF Feedback, Approve, Apply
<1>2. ASSUME NEW new \in Statuses \ {"absent"}, NEW datetimes \in BOOLEAN,
             SetStatus(b, new, datetimes)
      PROVE  Stage' = [Stage EXCEPT ![b] = new]
  <2>1. /\ recs' \in [Batches -> Rec] /\ recs'[b].status = new
        /\ \A c \in Batches \ {b} : recs'[c] = recs[c]
    BY <1>1, <1>2, SetStatusStep
  <2>. QED  BY <2>1 DEF Stage
<1>3. {"accepted", "rejected", "approved", "applied"} \subseteq Statuses \ {"absent"}
  BY DEF Statuses
<1>4. Stage[b] = recs[b].status
  BY DEF Stage
<1>5. CASE \E d \in {"accepted", "rejected"} : Feedback(b, d)
  <2>1. PICK d \in {"accepted", "rejected"} : Feedback(b, d)
    BY <1>5
  <2>2. Stage' = [Stage EXCEPT ![b] = d] /\ Stage[b] \in {"pending", "accepted"}
    <3>1. SetStatus(b, d, d = "rejected") /\ (d = "rejected") \in BOOLEAN
      BY <2>1 DEF Feedback
    <3>2. Stage' = [Stage EXCEPT ![b] = d]
      BY <1>2, <1>3, <3>1
    <3>. QED  BY <1>4, <2>1, <3>2 DEF Feedback
  <2>3. CASE d = "accepted" /\ Stage[b] = "accepted"
    BY <2>2, <2>3 DEF Stage
  <2>4. CASE d = "accepted" /\ Stage[b] = "pending"
    <3>1. Memory!Accept(b)
      BY <2>2, <2>4 DEF Memory!Accept, Memory!Move, Stage
    <3>. QED  BY <3>1 DEF Memory!Next
  <2>5. CASE d = "rejected"
    <3>1. Memory!Reject(b)
      BY <2>2, <2>5 DEF Memory!Reject, Memory!Move, Stage
    <3>. QED  BY <3>1 DEF Memory!Next
  <2>. QED  BY <2>1, <2>2, <2>3, <2>4, <2>5
<1>6. CASE Approve(b)
  <2>1. Stage' = [Stage EXCEPT ![b] = "approved"] /\ Stage[b] \in {"accepted"}
    BY <1>2, <1>3, <1>4, <1>6 DEF Approve
  <2>2. Memory!Approve(b)
    BY <2>1 DEF Memory!Approve, Memory!Move, Stage
  <2>. QED  BY <2>2 DEF Memory!Next
<1>7. CASE Apply(b)
  <2>1. Stage' = [Stage EXCEPT ![b] = "applied"] /\ Stage[b] \in {"approved"}
    BY <1>2, <1>3, <1>4, <1>7 DEF Apply
  <2>2. Memory!Apply(b)
    BY <2>1 DEF Memory!Apply, Memory!Move, Stage
  <2>. QED  BY <2>2 DEF Memory!Next
<1>. QED  BY <1>5, <1>6, <1>7

\* Asking for an impact moves nothing.
LEMMA ImpactStays ==
  ASSUME TypeOK, BatchInv, NEW h \in Tasks, Impact(h)
  PROVE  UNCHANGED Stage
<1>. DEFINE b == task[h].batch
            st == recs[b].status
<1>1. b \in Batches /\ st \in Statuses \ {"absent"}
  BY DEF Impact, BatchInv, TypeOK, Rec
<1>2. SetStatus(b, st, FALSE)
  BY DEF Impact
<1>3. st = recs[b].status
  OBVIOUS
<1>. HIDE DEF b, st
<1>4. /\ recs' \in [Batches -> Rec] /\ recs'[b].status = st
      /\ \A c \in Batches \ {b} : recs'[c] = recs[c]
  BY <1>1, <1>2, <1>3, SetStatusStep
<1>. QED  BY <1>1, <1>3, <1>4 DEF Stage

LEMMA OneQueued ==
  ASSUME NEW b \in Batches, Stage[b] = "absent", Stage' = [Stage EXCEPT ![b] = "pending"]
  PROVE  Memory!Next
<1>1. PICK batch \in SUBSET Batches : batch = {b}
  OBVIOUS
<1>2. Memory!Queue(batch)
  BY <1>1 DEF Memory!Queue, Stage
<1>. QED  BY <1>2 DEF Memory!Next

\* What falls back to memory was not there: its number is new, or a table row has it.
LEMMA FallBackQueues ==
  ASSUME TypeOK, BatchInv, NEW h \in Tasks, FallBack(h)
  PROVE  Memory!Next \/ UNCHANGED Stage
<1>1. CASE UNCHANGED recs
  BY <1>1 DEF Stage
<1>2. CASE AllowDemoMemory
  <2>. DEFINE b == IF task[h].batch = 0 THEN batches + 1 ELSE task[h].batch
  <2>1. b \in Batches /\ recs[b].status = "absent"
    <3>0. /\ task[h].op = "fall" /\ task[h].batch \in 0 .. MaxBatches
          /\ batches \in Nat /\ MaxBatches \in Nat
          /\ \A g \in Tasks : Unnumbered(g) \in {0, 1}
      BY TaskType, BoundTypes DEF FallBack, TypeOK, Unnumbered
    <3>1. CASE task[h].batch = 0
      <4>1. Unnumbered(h) = 1
        BY <3>0, <3>1 DEF Unnumbered
      <4>2. b = batches + 1 /\ b <= MaxBatches
        BY <3>0, <3>1, <4>1 DEF BatchInv, Tasks
      <4>. QED  BY <3>0, <4>2 DEF BatchInv, Batches
    <3>2. CASE task[h].batch # 0
      <4>1. Claims(h) /\ b = task[h].batch
        BY <3>0, <3>2 DEF Claims
      <4>. QED  BY <3>0, <4>1 DEF BatchInv, Batches
    <3>. QED  BY <3>1, <3>2
  <2>2. recs' = [recs EXCEPT ![b] = [status |-> "pending", trail |-> <<"pending">>]]
    BY <1>2 DEF FallBack
  <2>. HIDE DEF b
  <2>3. \A c \in Batches : recs'[c].status = IF c = b THEN "pending" ELSE recs[c].status
    BY <2>1, <2>2 DEF TypeOK
  <2>4. Stage' = [Stage EXCEPT ![b] = "pending"] /\ Stage[b] = "absent"
    BY <2>1, <2>3 DEF Stage
  <2>. QED  BY <2>1, <2>4, OneQueued
<1>. QED  BY <1>1, <1>2 DEF FallBack

LEMMA LifecycleNext ==
  ASSUME TypeOK, BatchInv, [Next]_vars
  PROVE  Memory!Next \/ UNCHANGED Stage
<1>1. CASE FeederTick \/ FeederInsert \/ Change \/ Ingest \/ DbDown \/ DbUp
  BY <1>1, WorldStep DEF Stage, queues
<1>2. ASSUME NEW h \in Tasks,
             Start(h) \/ Query(h) \/ Shown(h) \/ Compute(h) \/ Insert(h) \/ Event(h)
      PROVE  UNCHANGED Stage
  BY <1>2 DEF Start, Query, Shown, Compute, Insert, Event, Stage, queues
<1>3. ASSUME NEW h \in Tasks, Impact(h) \/ FallBack(h)
      PROVE  Memory!Next \/ UNCHANGED Stage
  BY <1>3, ImpactStays, FallBackQueues
<1>4. ASSUME NEW b \in Batches,
             (\E d \in {"accepted", "rejected"} : Feedback(b, d)) \/ Approve(b) \/ Apply(b)
      PROVE  Memory!Next \/ UNCHANGED Stage
  BY <1>4, DecisionMoves
<1>5. CASE Tick \/ Restart \/ UNCHANGED vars
  BY <1>5 DEF Tick, Restart, vars, Stage, queues
<1>. QED  BY <1>1, <1>2, <1>3, <1>4, <1>5 DEF Next, Step

\* What is kept in memory implements the lifecycle of RUNBOOK E9, for any number of batches,
\* outages and restarts, and whichever of loop and requests fall back at the same time.
THEOREM LifecycleHolds == Spec => MemoryLifecycle
<1>1. Init => Memory!Init
  BY DEF Init, Memory!Init
<1>2. TypeOK /\ BatchInv /\ [Next]_vars => [Memory!Next]_Stage
  BY LifecycleNext
<1>. QED  BY <1>1, <1>2, TypeCorrect, PTL DEF Spec, MemoryLifecycle, Memory!Spec, Stage

=============================================================================
