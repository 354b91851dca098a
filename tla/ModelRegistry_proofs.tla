------------------------- MODULE ModelRegistry_proofs -------------------------
(***************************************************************************)
(* Theorems about ModelRegistry.                                           *)
(***************************************************************************)
EXTENDS ModelRegistry, TLAPS

USE RegistryAssumption

\* Slots that load or write a model's file.
KnowsVersion == {"load", "dump", "truncate", "write"}

\* A new content of one slot keeps the slots well typed.
LEMMA SlotTyped ==
  ASSUME NEW h \in Slots, NEW q \in Requests, TypeOK, To(h, q),
         q.op \in KnowsVersion => q.version \in Versions
  PROVE  /\ req' \in [Slots -> Requests]
         /\ \A g \in Slots : req'[g].op \in KnowsVersion => req'[g].version \in Versions
<1>1. req' = [req EXCEPT ![h] = q] /\ req \in [Slots -> Requests]
  BY DEF TypeOK, To
<1>2. \A g \in Slots : req'[g] = IF g = h THEN q ELSE req[g]
  BY <1>1
<1>3. \A g \in Slots : req[g].op \in KnowsVersion => req[g].version \in Versions
  BY DEF TypeOK, KnowsVersion
<1> QED
  BY <1>1, <1>2, <1>3

\* What a slot is given when it starts something.
LEMMA FreshTyped ==
  ASSUME NEW op \in {"idle", "prepare"}
  PROVE  /\ Idle \in Requests /\ [Idle EXCEPT !.op = op] \in Requests
         /\ Idle.op = "idle" /\ [Idle EXCEPT !.op = op].op = op
         /\ "idle" \notin KnowsVersion /\ op \notin KnowsVersion
<1>1. 0 \in 0 .. MaxDist
  OBVIOUS
<1> QED
  BY <1>1 DEF Idle, Requests, Stamps, KnowsVersion

\* A stamp is found where there is one.
LEMMA StampsAreFree ==
  ASSUME NEW used, Versions \ used # {}
  PROVE  FreeStamp(used) \in Versions \ used
  BY DEF FreeStamp

-----------------------------------------------------------------------------
LEMMA InitTyped == Init => TypeOK
<1> SUFFICES ASSUME Init PROVE TypeOK
  OBVIOUS
<1>1. second \in Versions
  BY StampsAreFree DEF Init
<1>2. latest \in Metas /\ latest.file = "none"
  BY DEF Init, NoMeta, Metas, Files, Stamps
<1>3. \A h \in Slots : req[h] \in Requests /\ req[h].op = "idle"
  BY FreshTyped DEF Init
<1>4. req \in [Slots -> Requests]
  BY <1>3 DEF Init
<1> QED
  BY <1>1, <1>2, <1>3, <1>4 DEF Init, TypeOK, Files

\* Steps of one slot that only change what it is doing.
LEMMA SlotStepTyped ==
  ASSUME TypeOK, NEW h \in Slots, NEW q \in Requests, To(h, q),
         q.op \in KnowsVersion => q.version \in Versions,
         UNCHANGED <<cfg, second, dist, pkl, latest, faults>>
  PROVE  TypeOK'
<1>1. /\ req' \in [Slots -> Requests]
      /\ \A g \in Slots : req'[g].op \in KnowsVersion => req'[g].version \in Versions
  BY SlotTyped
<1> QED
  BY <1>1 DEF TypeOK, KnowsVersion

\* Starting, giving up, or being refused.
LEMMA StartTyped ==
  ASSUME TypeOK, NEW h \in Slots, NEW op \in {"idle", "prepare"},
         To(h, Idle) \/ To(h, [Idle EXCEPT !.op = op]),
         UNCHANGED <<cfg, second, dist, pkl, latest, faults>>
  PROVE  TypeOK'
<1> PICK q \in {Idle, [Idle EXCEPT !.op = op]} : To(h, q)
  OBVIOUS
<1>1. q \in Requests /\ q.op \notin KnowsVersion
  BY FreshTyped
<1> QED
  BY <1>1, SlotStepTyped

LEMMA ReadTyped ==
  ASSUME TypeOK, NEW h \in Slots, ReadLatest(h),
         UNCHANGED <<cfg, second, dist, pkl, latest, faults>>
  PROVE  TypeOK'
<1>1. CASE To(h, Idle) \/ To(h, [Idle EXCEPT !.op = "prepare"])
  BY <1>1, StartTyped DEF ReadLatest
<1>2. CASE /\ latest.file \in {"whole", "shared"}
           /\ To(h, [Idle EXCEPT !.op = "load", !.version = latest.version,
                               !.ref = latest.ref, !.rich = latest.rich])
  <2> DEFINE q == [Idle EXCEPT !.op = "load", !.version = latest.version,
                               !.ref = latest.ref, !.rich = latest.rich]
  <2>1. latest \in Metas /\ latest.version \in Versions
    BY <1>2 DEF TypeOK
  <2>2. q.op = "load" /\ q.version = latest.version
    BY DEF Idle
  <2>3. q \in Requests /\ q.version \in Versions
    BY <2>1, <2>2, FreshTyped DEF Requests, Metas, Stamps
  <2>4. To(h, q) /\ UNCHANGED <<cfg, second, dist, pkl, latest, faults>>
    BY <1>2 DEF ReadLatest
  <2> HIDE DEF q
  <2> QED
    BY <2>3, <2>4, SlotStepTyped
<1> QED
  BY <1>1, <1>2 DEF ReadLatest

LEMMA LoadTyped ==
  ASSUME TypeOK, NEW h \in Slots, LoadModel(h)
  PROVE  TypeOK'
<1>1. CASE To(h, Idle)
  BY <1>1, StartTyped DEF LoadModel
<1>2. CASE To(h, [req[h] EXCEPT !.op = "loaded", !.version = NoVersion])
  <2> DEFINE q == [req[h] EXCEPT !.op = "loaded", !.version = NoVersion]
  <2>1. req[h] \in Requests
    BY DEF TypeOK
  <2>2. q.op = "loaded"
    BY <2>1 DEF Requests
  <2>3. q \in Requests /\ q.op \notin KnowsVersion
    BY <2>1, <2>2 DEF Requests, Stamps, KnowsVersion
  <2>4. To(h, q) /\ UNCHANGED <<cfg, second, dist, pkl, latest, faults>>
    BY <1>2 DEF LoadModel
  <2> HIDE DEF q
  <2> QED
    BY <2>3, <2>4, SlotStepTyped
<1> QED
  BY <1>1, <1>2 DEF LoadModel

LEMMA FitTyped ==
  ASSUME TypeOK, NEW h \in Slots, Fit(h)
  PROVE  TypeOK'
<1>1. CASE To(h, Idle)
  BY <1>1, StartTyped DEF Fit
<1>2. ASSUME NEW m \in Fitted, To(h, [Idle EXCEPT !.op = "open", !.ref = dist])
      PROVE  TypeOK'
  <2> DEFINE q == [Idle EXCEPT !.op = "open", !.ref = dist]
  <2>1. dist \in 0 .. MaxDist
    BY DEF TypeOK
  <2>2. q.op = "open"
    BY DEF Idle
  <2>3. q \in Requests /\ q.op \notin KnowsVersion
    BY <2>1, <2>2, FreshTyped DEF Requests, KnowsVersion, Saving
  <2>4. To(h, q) /\ UNCHANGED <<cfg, second, dist, pkl, latest, faults>>
    BY <1>2 DEF Fit
  <2> HIDE DEF q
  <2> QED
    BY <2>3, <2>4, SlotStepTyped
<1> QED
  BY <1>1, <1>2 DEF Fit

\* The four steps of a save.
LEMMA SaveTyped ==
  ASSUME TypeOK, NEW h \in Slots, Save(h)
  PROVE  TypeOK'
<1>0. req[h] \in Requests /\ latest \in Metas /\ pkl \in [Versions -> Files] /\ second \in Versions
  BY DEF TypeOK
<1>1. Counted \in 0 .. MaxFaults /\ faults \in 0 .. MaxFaults
  BY DEF TypeOK, Counted
<1>2. req[h].op \in KnowsVersion => req[h].version \in Versions
  BY DEF TypeOK, KnowsVersion
<1>3. CASE OpenPickle(h)
  <2> DEFINE q == [req[h] EXCEPT !.op = "dump", !.version = second]
  <2>1. q.op = "dump" /\ q.version = second
    BY <1>0 DEF Requests
  <2>2. q \in Requests /\ q.version \in Versions
    BY <1>0, <2>1 DEF Requests, Stamps, Saving
  <2>3. To(h, q) /\ UNCHANGED <<cfg, second, dist, latest>>
    BY <1>3 DEF OpenPickle
  <2>4. pkl' \in [Versions -> Files] /\ faults' \in 0 .. MaxFaults
    BY <1>0, <1>1, <1>3 DEF OpenPickle, Opened, Files
  <2> HIDE DEF q
  <2>5. /\ req' \in [Slots -> Requests]
        /\ \A g \in Slots : req'[g].op \in KnowsVersion => req'[g].version \in Versions
    BY <2>2, <2>3, SlotTyped
  <2> QED
    BY <2>3, <2>4, <2>5 DEF TypeOK, KnowsVersion
<1>4. CASE DumpPickle(h)
  <2> DEFINE q == [req[h] EXCEPT !.op = "truncate"]
  <2>1. q = [op |-> "truncate", version |-> req[h].version,
             ref |-> req[h].ref, rich |-> req[h].rich]
    BY <1>0 DEF Requests
  <2>2. req[h].version \in Versions
    BY <1>2, <1>4 DEF DumpPickle, KnowsVersion
  <2>3. q \in Requests /\ q.version \in Versions
    BY <1>0, <2>1, <2>2 DEF Requests, Stamps, Saving
  <2>4. To(h, q) /\ UNCHANGED <<cfg, second, dist, latest, faults>>
    BY <1>4 DEF DumpPickle
  <2>5. pkl' \in [Versions -> Files]
    BY <1>0, <1>4 DEF DumpPickle, Closed, Files
  <2> HIDE DEF q
  <2>6. /\ req' \in [Slots -> Requests]
        /\ \A g \in Slots : req'[g].op \in KnowsVersion => req'[g].version \in Versions
    BY <2>3, <2>4, SlotTyped
  <2> QED
    BY <2>4, <2>5, <2>6 DEF TypeOK, KnowsVersion
<1>5. CASE TruncateLatest(h)
  <2> DEFINE q == [req[h] EXCEPT !.op = "write"]
  <2>1. q = [op |-> "write", version |-> req[h].version, ref |-> req[h].ref, rich |-> req[h].rich]
    BY <1>0 DEF Requests
  <2>2. req[h].version \in Versions
    BY <1>2, <1>5 DEF TruncateLatest, KnowsVersion
  <2>3. q \in Requests /\ q.version \in Versions
    BY <1>0, <2>1, <2>2 DEF Requests, Stamps, Saving
  <2>4. To(h, q) /\ UNCHANGED <<cfg, second, dist, pkl>>
    BY <1>5 DEF TruncateLatest
  <2>5. latest' \in Metas /\ (latest'.file \in {"whole", "shared"} => latest'.version \in Versions)
    <3> DEFINE torn == [NoMeta EXCEPT !.file = "torn"]
               both == [latest EXCEPT !.file = "shared", !.version = req[h].version]
    <3>0. NoMeta \in Metas
      BY DEF NoMeta, Metas, Files, Stamps
    <3>1. torn \in Metas /\ torn.file = "torn"
      BY <3>0 DEF Metas, Files
    <3>2. both \in Metas /\ both.version = req[h].version
      BY <1>0, <2>2 DEF Metas, Files, Stamps
    <3>3. latest' = IF Noting(h) THEN both ELSE torn
      BY <1>5 DEF TruncateLatest
    <3> HIDE DEF torn, both
    <3> QED
      BY <2>2, <3>1, <3>2, <3>3
  <2>6. faults' \in 0 .. MaxFaults
    BY <1>1, <1>5 DEF TruncateLatest
  <2> HIDE DEF q
  <2>7. /\ req' \in [Slots -> Requests]
        /\ \A g \in Slots : req'[g].op \in KnowsVersion => req'[g].version \in Versions
    BY <2>3, <2>4, SlotTyped
  <2> QED
    BY <2>4, <2>5, <2>6, <2>7 DEF TypeOK, KnowsVersion
<1>6. CASE WriteLatest(h)
  <2> DEFINE q == [req[h] EXCEPT !.op = "open", !.rich = FALSE]
  <2>1. q.op = "open"
    BY <1>0 DEF Requests
  <2>2. req[h].version \in Versions
    BY <1>2, <1>6 DEF WriteLatest, KnowsVersion
  <2>3. /\ q \in Requests /\ q.op \notin KnowsVersion
        /\ Idle \in Requests /\ Idle.op \notin KnowsVersion
    BY <1>0, <2>1, FreshTyped DEF Requests, Stamps, Saving, KnowsVersion
  <2>4. To(h, q) \/ To(h, Idle)
    BY <1>6 DEF WriteLatest
  <2>5. latest' \in Metas /\ latest'.version \in Versions
    <3>1. PICK f \in Closed(latest.file, Noting(h)) :
            latest' = [file |-> f, version |-> req[h].version,
                        ref |-> req[h].ref, rich |-> req[h].rich]
      BY <1>6 DEF WriteLatest
    <3>2. f \in Files
      BY DEF Closed, Files
    <3> QED
      BY <1>0, <2>2, <3>1, <3>2 DEF Metas, Stamps, Requests
  <2>6. UNCHANGED <<cfg, second, dist, pkl, faults>>
    BY <1>6 DEF WriteLatest
  <2> HIDE DEF q
  <2>7. /\ req' \in [Slots -> Requests]
        /\ \A g \in Slots : req'[g].op \in KnowsVersion => req'[g].version \in Versions
    BY <2>3, <2>4, SlotTyped
  <2> QED
    BY <2>5, <2>6, <2>7 DEF TypeOK, KnowsVersion
<1> QED
  BY <1>3, <1>4, <1>5, <1>6 DEF Save

LEMMA StepTyped == TypeOK /\ [Next]_vars => TypeOK'
<1> SUFFICES ASSUME TypeOK, [Next]_vars PROVE TypeOK'
  OBVIOUS
<1>1. CASE NextSecond
  <2>1. second' \in Versions
    BY <1>1, StampsAreFree DEF NextSecond
  <2>2. pkl' \in [Versions -> Files]
    BY <1>1 DEF NextSecond, TypeOK, Files
  <2> QED
    BY <1>1, <2>1, <2>2 DEF NextSecond, TypeOK
<1>2. ASSUME NEW d \in 0 .. MaxDist, Samples(d) PROVE TypeOK'
  BY <1>2 DEF Samples, TypeOK
<1>3. ASSUME NEW h \in Slots, Save(h) \/ LoadModel(h) \/ Fit(h) PROVE TypeOK'
  BY <1>3, SaveTyped, LoadTyped, FitTyped
<1>4. ASSUME NEW h \in Slots, Predict(h) \/ (h = Trainer /\ StartCheck) PROVE TypeOK'
  BY <1>4, ReadTyped DEF Predict, StartCheck
<1>5. CASE Evaluate
  <2>1. To(Trainer, Idle) \/ To(Trainer, [Idle EXCEPT !.op = "prepare"])
    BY <1>5 DEF Evaluate
  <2>2. Trainer \in Slots /\ UNCHANGED <<cfg, second, dist, pkl, latest, faults>>
    BY <1>5 DEF Evaluate, Slots
  <2> QED
    BY <2>1, <2>2, StartTyped
<1>6. ASSUME NEW h \in Slots, Abort(h) PROVE TypeOK'
  <2>1. faults' \in 0 .. MaxFaults
    BY <1>6 DEF Abort, TypeOK
  <2>2. /\ req' \in [Slots -> Requests]
        /\ \A g \in Slots : req'[g].op \in KnowsVersion => req'[g].version \in Versions
    BY <1>6, SlotTyped, FreshTyped DEF Abort
  <2> QED
    BY <1>6, <2>1, <2>2 DEF Abort, TypeOK, KnowsVersion
<1>7. ASSUME NEW s \in Settings, Restart(s) PROVE TypeOK'
  BY <1>7 DEF Restart, TypeOK
<1>8. CASE UNCHANGED vars
  BY <1>8 DEF vars, TypeOK
<1> QED
  BY <1>1, <1>2, <1>3, <1>4, <1>5, <1>6, <1>7, <1>8 DEF Next, Cycle, Request, Slots

\* Every reachable state is well typed, and a slot that loads or writes a model's file knows
\* which one.
THEOREM TypeCorrect == Spec => []TypeOK
<1> QED
  BY InitTyped, StepTyped, PTL DEF Spec

-----------------------------------------------------------------------------
(* What the steps do to the slots.                                         *)

\* One slot changes, the others stay.
LEMMA SlotChanged ==
  ASSUME TypeOK, NEW h \in Slots, NEW q, To(h, q)
  PROVE  \A g \in Slots : req'[g] = IF g = h THEN q ELSE req[g]
  BY DEF TypeOK, To

\* The steps of one slot outside a save that save nothing either.
OtherStep(h) ==
  \/ Predict(h) \/ LoadModel(h) \/ Abort(h)
  \/ h = Trainer /\ (StartCheck \/ Evaluate)

LEMMA OtherStepsSaveNothing ==
  ASSUME TypeOK, NEW h \in Slots, OtherStep(h)
  PROVE  /\ \A g \in Slots \ {h} : req'[g] = req[g]
         /\ req'[h].op \notin Saving
         /\ UNCHANGED <<cfg, second, dist, pkl, latest>>
<1>1. req[h] \in Requests
  BY DEF TypeOK
<1>2. PICK q : To(h, q) /\ q.op \notin Saving
  <2>0. Idle \in Requests
    BY FreshTyped
  <2>1. Idle.op \notin Saving /\ [Idle EXCEPT !.op = "prepare"].op \notin Saving
    <3>1. \A op \in {"idle", "prepare"} : op \notin Saving
      BY DEF Saving
    <3>2. Idle.op = "idle"
      BY FreshTyped
    <3> QED
      BY <2>0, <3>1, <3>2 DEF Requests
  <2>2. [Idle EXCEPT !.op = "load", !.version = latest.version, !.ref = latest.ref,
                     !.rich = latest.rich].op \notin Saving
    BY <2>0 DEF Requests, Saving
  <2>3. [req[h] EXCEPT !.op = "loaded", !.version = NoVersion].op \notin Saving
    BY <1>1 DEF Requests, Saving
  <2>4. CASE ReadLatest(h)
    BY <2>1, <2>2, <2>4 DEF ReadLatest
  <2>5. CASE LoadModel(h)
    BY <2>1, <2>3, <2>5 DEF LoadModel
  <2>6. CASE Abort(h)
    BY <2>1, <2>6 DEF Abort
  <2>7. CASE h = Trainer /\ Evaluate
    BY <2>1, <2>7, Zenon DEF Evaluate
  <2> QED
    BY <2>4, <2>5, <2>6, <2>7 DEF OtherStep, Predict, StartCheck
<1>3. \A g \in Slots : req'[g] = IF g = h THEN q ELSE req[g]
  BY <1>2, SlotChanged
<1> QED
  BY <1>2, <1>3 DEF OtherStep, LoadModel, Predict, Abort, StartCheck, Evaluate

\* Fit starts a save from the beginning, with the metrics that MLflow will lose.
LEMMA FitOpens ==
  ASSUME TypeOK, NEW h \in Slots, Fit(h)
  PROVE  /\ \A g \in Slots \ {h} : req'[g] = req[g]
         /\ req'[h].op \in Saving => req'[h].op = "open" /\ req'[h].rich
         /\ req'[h].op # "load"
         /\ UNCHANGED <<cfg, second, dist, pkl, latest, faults>>
<1>1. PICK q : /\ To(h, q) /\ (q.op \in Saving => q.op = "open" /\ q.rich)
               /\ q.op # "load"
  <2>1. Idle.op \notin Saving /\ Idle.op # "load"
    BY DEF Idle, Saving
  <2>2. ASSUME NEW m \in Fitted, MeetsGate(m), To(h, [Idle EXCEPT !.op = "open", !.ref = dist])
        PROVE  \E q : /\ To(h, q) /\ (q.op \in Saving => q.op = "open" /\ q.rich)
                      /\ q.op # "load"
    <3>1. /\ [Idle EXCEPT !.op = "open", !.ref = dist].op = "open"
          /\ [Idle EXCEPT !.op = "open", !.ref = dist].rich
      BY DEF Idle
    <3> QED
      BY <2>2, <3>1
  <2> QED
    BY <2>1, <2>2 DEF Fit
<1>2. \A g \in Slots : req'[g] = IF g = h THEN q ELSE req[g]
  BY <1>1, SlotChanged
<1> QED
  BY <1>1, <1>2 DEF Fit

\* Every step is one of a few kinds.
LEMMA StepKinds ==
  ASSUME [Next]_vars
  PROVE  \/ \E h \in Slots : Save(h) \/ Fit(h) \/ OtherStep(h)
         \/ NextSecond
         \/ UNCHANGED <<cfg, second, pkl, latest, req, faults>>
         \/ \E s \in Settings : Restart(s)
  BY DEF Next, Cycle, Request, OtherStep, Slots, vars, Samples

-----------------------------------------------------------------------------
(* While nothing died and no saves met, every save has a file of its own.  *)

\* A save that has its file, or is about to write it again.
Owns(h) == req[h].op \in {"dump", "truncate", "write"} \/ (req[h].op = "open" /\ Again(h))

\* The file of a save, by how far it is.
FilesFollow ==
  \A h \in Slots : Owns(h) =>
    /\ req[h].version \in Versions
    /\ pkl[req[h].version] = IF req[h].op = "dump" THEN "torn" ELSE "whole"

OwnFiles == \A g, h \in Slots : g # h /\ Owns(g) /\ Owns(h) => req[g].version # req[h].version

NoneShared == latest.file # "shared" /\ \A v \in Versions : pkl[v] # "shared"

FilesSound ==
  faults = 0 => /\ NoneShared /\ FilesFollow /\ OwnFiles
                /\ \A v \in Named : pkl[v] = "whole" \/ Rewriting(v)

\* The count of faults never goes back, and every death or meeting of saves is counted.
LEMMA FaultsCount ==
  ASSUME TypeOK, [Next]_vars, faults' = 0
  PROVE  faults = 0
<1>1. faults \in 0 .. MaxFaults
  BY DEF TypeOK
<1>2. ASSUME NEW h \in Slots, Save(h) PROVE faults = 0
  BY <1>1, <1>2 DEF Save, OpenPickle, DumpPickle, TruncateLatest, WriteLatest, Counted
<1>3. ASSUME NEW h \in Slots, Fit(h) PROVE faults = 0
  BY <1>3 DEF Fit
<1>4. ASSUME NEW h \in Slots, OtherStep(h) PROVE faults = 0
  BY <1>1, <1>4 DEF OtherStep, LoadModel, Predict, Abort, StartCheck, Evaluate
<1>5. CASE NextSecond \/ UNCHANGED <<cfg, second, pkl, latest, req, faults>>
  BY <1>5 DEF NextSecond
<1> QED
  BY <1>2, <1>3, <1>4, <1>5, StepKinds DEF Restart

LEMMA CountedIsPositive == TypeOK => Counted # 0
  BY DEF TypeOK, Counted

\* A file that is named exists under a proper version.
LEMMA NamedAreVersions == TypeOK => Named \subseteq Versions \cap InUse
<1> SUFFICES ASSUME TypeOK, NEW v \in Named PROVE v \in Versions \cap InUse
  OBVIOUS
<1>1. CASE \E h \in Slots : req[h].op = "load" /\ v = req[h].version
  BY <1>1 DEF TypeOK, InUse
<1>2. CASE latest.file = "whole" /\ v = latest.version
  BY <1>2 DEF TypeOK, InUse
<1> QED
  BY <1>1, <1>2 DEF Named

LEMMA OpenKeepsSound ==
  ASSUME TypeOK, FilesSound, faults = 0, faults' = 0, NEW h \in Slots, OpenPickle(h)
  PROVE  FilesSound'
<1> DEFINE q == [req[h] EXCEPT !.op = "dump", !.version = second]
<1>0. /\ req[h] \in Requests /\ req[h].op = "open" /\ second \in Versions
      /\ pkl \in [Versions -> Files] /\ To(h, q) /\ UNCHANGED latest
  BY DEF TypeOK, OpenPickle
<1>1. q.op = "dump" /\ q.version = second /\ q.rich = req[h].rich
  BY <1>0 DEF Requests
<1> HIDE DEF q
<1>2. \A g \in Slots : req'[g] = IF g = h THEN q ELSE req[g]
  BY <1>0, SlotChanged
<1>3. pkl[second] = "none" \/ (Again(h) /\ req[h].version = second)
  BY CountedIsPositive DEF OpenPickle
<1>4. NoneShared /\ FilesFollow /\ OwnFiles /\ \A v \in Named : pkl[v] = "whole" \/ Rewriting(v)
  BY DEF FilesSound
<1>5. \A g \in Slots \ {h} : Owns(g) => req[g].version # second
  <2> SUFFICES ASSUME NEW g \in Slots \ {h}, Owns(g), req[g].version = second PROVE FALSE
    OBVIOUS
  <2>1. pkl[second] # "none"
    BY <1>4 DEF FilesFollow
  <2>2. Owns(h) /\ req[h].version = second
    BY <1>0, <1>3, <2>1 DEF Owns
  <2> QED
    BY <1>4, <2>2 DEF OwnFiles
<1>6. pkl' = [pkl EXCEPT ![second] = "torn"]
  BY <1>5 DEF OpenPickle, Opened, Writing, Owns
<1>7. \A g \in Slots \ {h} : Owns(g)' <=> Owns(g)
  BY <1>2 DEF Owns, Again
<1>8. NoneShared'
  BY <1>0, <1>4, <1>6 DEF NoneShared
<1>9. FilesFollow'
  <2> SUFFICES ASSUME NEW g \in Slots, Owns(g)'
               PROVE  /\ req'[g].version \in Versions
                      /\ pkl'[req'[g].version] = IF req'[g].op = "dump" THEN "torn" ELSE "whole"
    BY DEF FilesFollow
  <2>1. CASE g = h
    BY <1>0, <1>1, <1>2, <1>6, <2>1
  <2>2. CASE g # h
    BY <1>0, <1>2, <1>4, <1>5, <1>6, <1>7, <2>2 DEF FilesFollow
  <2> QED
    BY <2>1, <2>2
<1>10. OwnFiles'
  BY <1>1, <1>2, <1>4, <1>5, <1>7 DEF OwnFiles
<1>11. Named' = Named
  BY <1>0, <1>1, <1>2 DEF Named
<1>12. ASSUME NEW v \in Named PROVE pkl'[v] = "whole" \/ Rewriting(v)'
  <2>1. v \in Versions
    BY NamedAreVersions
  <2>2. CASE v = second
    <3>1. ~Rewriting(second)
      BY <1>0, <1>5 DEF Rewriting, Owns
    <3>2. Again(h)
      BY <1>3, <1>4, <2>2, <3>1
    <3>3. Again(h)' /\ req'[h].op = "dump" /\ req'[h].version = v
      BY <1>1, <1>2, <2>2, <3>2 DEF Again
    <3> QED
      BY <3>3 DEF Rewriting
  <2>3. CASE v # second /\ pkl[v] = "whole"
    BY <1>0, <1>6, <2>1, <2>3
  <2>4. CASE Rewriting(v)
    <3>1. PICK g \in Slots : Again(g) /\ req[g].op = "dump" /\ req[g].version = v
      BY <2>4 DEF Rewriting
    <3>2. g # h
      BY <1>0, <3>1
    <3> QED
      BY <1>2, <3>1, <3>2 DEF Rewriting, Again
  <2> QED
    BY <1>4, <2>2, <2>3, <2>4
<1> QED
  BY <1>8, <1>9, <1>10, <1>11, <1>12 DEF FilesSound

LEMMA DumpKeepsSound ==
  ASSUME TypeOK, FilesSound, faults = 0, NEW h \in Slots, DumpPickle(h)
  PROVE  FilesSound'
<1> DEFINE q == [req[h] EXCEPT !.op = "truncate"]
           w == req[h].version
<1>0. /\ req[h] \in Requests /\ req[h].op = "dump" /\ w \in Versions
      /\ pkl \in [Versions -> Files] /\ To(h, q) /\ UNCHANGED latest
  BY DEF TypeOK, DumpPickle
<1>1. q.op = "truncate" /\ q.version = w /\ q.rich = req[h].rich
  BY <1>0 DEF Requests
<1> HIDE DEF q
<1>2. \A g \in Slots : req'[g] = IF g = h THEN q ELSE req[g]
  BY <1>0, SlotChanged
<1>4. NoneShared /\ FilesFollow /\ OwnFiles /\ \A v \in Named : pkl[v] = "whole" \/ Rewriting(v)
  BY DEF FilesSound
<1>5. Owns(h) /\ \A g \in Slots \ {h} : Owns(g) => req[g].version # w
  BY <1>0, <1>4 DEF OwnFiles, Owns
<1>6. pkl' = [pkl EXCEPT ![w] = "whole"]
  BY <1>0, <1>4 DEF DumpPickle, Closed, NoneShared
<1>7. \A g \in Slots \ {h} : Owns(g)' <=> Owns(g)
  BY <1>2 DEF Owns, Again
<1>8. NoneShared'
  BY <1>0, <1>4, <1>6 DEF NoneShared
<1>9. FilesFollow'
  <2> SUFFICES ASSUME NEW g \in Slots, Owns(g)'
               PROVE  /\ req'[g].version \in Versions
                      /\ pkl'[req'[g].version] = IF req'[g].op = "dump" THEN "torn" ELSE "whole"
    BY DEF FilesFollow
  <2>1. CASE g = h
    BY <1>0, <1>1, <1>2, <1>6, <2>1
  <2>2. CASE g # h
    BY <1>0, <1>2, <1>4, <1>5, <1>6, <1>7, <2>2 DEF FilesFollow
  <2> QED
    BY <2>1, <2>2
<1>10. OwnFiles'
  BY <1>1, <1>2, <1>4, <1>5, <1>7 DEF OwnFiles
<1>11. Named' = Named
  BY <1>0, <1>1, <1>2 DEF Named
<1>12. ASSUME NEW v \in Named PROVE pkl'[v] = "whole" \/ Rewriting(v)'
  <2>1. v \in Versions
    BY NamedAreVersions
  <2>2. CASE v = w
    BY <1>0, <1>6, <2>2
  <2>3. CASE v # w /\ pkl[v] = "whole"
    BY <1>0, <1>6, <2>1, <2>3
  <2>4. CASE v # w /\ Rewriting(v)
    <3>1. PICK g \in Slots : Again(g) /\ req[g].op = "dump" /\ req[g].version = v
      BY <2>4 DEF Rewriting
    <3>2. g # h
      BY <2>4, <3>1
    <3> QED
      BY <1>2, <3>1, <3>2 DEF Rewriting, Again
  <2> QED
    BY <1>4, <2>2, <2>3, <2>4
<1> QED
  BY <1>8, <1>9, <1>10, <1>11, <1>12 DEF FilesSound

\* Truncating latest.json names no file any more, writing it names one that is complete.
LEMMA NoteKeepsSound ==
  ASSUME TypeOK, FilesSound, faults = 0, faults' = 0, NEW h \in Slots,
         TruncateLatest(h) \/ WriteLatest(h)
  PROVE  FilesSound'
<1>0. /\ req[h] \in Requests /\ req[h].op \in {"truncate", "write"} /\ req[h].version \in Versions
      /\ UNCHANGED pkl
  BY DEF TypeOK, TruncateLatest, WriteLatest
<1>1. PICK q : /\ To(h, q)
               /\ q.op = "write" \/ q.op = "idle" \/ (q.op = "open" /\ ~q.rich)
               /\ q.op # "idle" => q.version = req[h].version
  <2>1. CASE TruncateLatest(h)
    <3>1. /\ [req[h] EXCEPT !.op = "write"].op = "write"
          /\ [req[h] EXCEPT !.op = "write"].version = req[h].version
      BY <1>0 DEF Requests
    <3> QED
      BY <2>1, <3>1 DEF TruncateLatest
  <2>2. CASE WriteLatest(h)
    <3>1. LET r == [req[h] EXCEPT !.op = "open", !.rich = FALSE]
          IN r.op = "open" /\ r.rich = FALSE /\ r.version = req[h].version
      BY <1>0 DEF Requests
    <3>2. To(h, Idle) \/ To(h, [req[h] EXCEPT !.op = "open", !.rich = FALSE])
      BY <2>2, Zenon DEF WriteLatest
    <3> QED
      BY <3>1, <3>2, FreshTyped
  <2> QED
    BY <2>1, <2>2
<1>2. \A g \in Slots : req'[g] = IF g = h THEN q ELSE req[g]
  BY <1>1, SlotChanged
<1>4. NoneShared /\ FilesFollow /\ OwnFiles /\ \A v \in Named : pkl[v] = "whole" \/ Rewriting(v)
  BY DEF FilesSound
<1>5. Owns(h) /\ pkl[req[h].version] = "whole"
  BY <1>0, <1>4 DEF Owns, FilesFollow
<1>6. \A g \in Slots : Owns(g)' => Owns(g) /\ req'[g].version = req[g].version
  BY <1>1, <1>2, <1>5 DEF Owns, Again
<1>7. latest'.file = "torn" \/ (latest'.file = "whole" /\ latest'.version = req[h].version)
  <2>1. CASE TruncateLatest(h)
    <3>1. ~Noting(h)
      BY <2>1, CountedIsPositive DEF TruncateLatest
    <3>2. NoMeta \in Metas
      BY DEF NoMeta, Metas, Files, Stamps
    <3>3. [NoMeta EXCEPT !.file = "torn"].file = "torn"
      BY <3>2 DEF Metas
    <3> QED
      BY <2>1, <3>1, <3>3 DEF TruncateLatest
  <2>2. CASE WriteLatest(h)
    <3>1. Closed(latest.file, Noting(h)) = {"whole"}
      BY <1>4 DEF Closed, NoneShared
    <3> QED
      BY <2>2, <3>1 DEF WriteLatest
  <2> QED
    BY <2>1, <2>2
<1>8. NoneShared'
  BY <1>0, <1>4, <1>7 DEF NoneShared
<1>9. FilesFollow'
  <2> SUFFICES ASSUME NEW g \in Slots, Owns(g)'
               PROVE  /\ req'[g].version \in Versions
                      /\ pkl'[req'[g].version] = IF req'[g].op = "dump" THEN "torn" ELSE "whole"
    BY DEF FilesFollow
  <2>1. CASE g = h
    BY <1>0, <1>1, <1>2, <1>5, <1>6, <2>1
  <2>2. CASE g # h
    BY <1>0, <1>2, <1>4, <1>6, <2>2 DEF FilesFollow
  <2> QED
    BY <2>1, <2>2
<1>10. OwnFiles'
  BY <1>4, <1>6 DEF OwnFiles
<1>11. ASSUME NEW v \in Named' PROVE pkl'[v] = "whole" \/ Rewriting(v)'
  <2>1. CASE \E g \in Slots : req'[g].op = "load" /\ v = req'[g].version
    <3>1. PICK g \in Slots : req'[g].op = "load" /\ v = req'[g].version
      BY <2>1
    <3>2. g # h /\ v \in Named
      BY <1>1, <1>2, <3>1 DEF Named
    <3>3. CASE Rewriting(v)
      <4>1. PICK k \in Slots : Again(k) /\ req[k].op = "dump" /\ req[k].version = v
        BY <3>3 DEF Rewriting
      <4>2. k # h
        BY <1>0, <4>1
      <4> QED
        BY <1>2, <4>1, <4>2 DEF Rewriting, Again
    <3> QED
      BY <1>0, <1>4, <3>2, <3>3
  <2>2. CASE latest'.file = "whole" /\ v = latest'.version
    BY <1>0, <1>5, <1>7, <2>2
  <2> QED
    BY <2>1, <2>2 DEF Named
<1> QED
  BY <1>8, <1>9, <1>10, <1>11 DEF FilesSound

\* Time passes: files that are named or being saved are in use.
LEMMA SecondKeepsSound ==
  ASSUME TypeOK, FilesSound, faults = 0, NextSecond
  PROVE  FilesSound'
<1>1. NoneShared /\ FilesFollow /\ OwnFiles /\ \A v \in Named : pkl[v] = "whole" \/ Rewriting(v)
  BY DEF FilesSound
<1>2. /\ UNCHANGED <<latest, req>>
      /\ \A v \in Versions : pkl'[v] = IF v \in InUse THEN pkl[v] ELSE "none"
  BY DEF NextSecond
<1>3. NoneShared'
  BY <1>1, <1>2 DEF NoneShared
<1>4. FilesFollow'
  BY <1>1, <1>2 DEF FilesFollow, Owns, Again, InUse
<1>5. OwnFiles'
  BY <1>1, <1>2 DEF OwnFiles, Owns, Again
<1>6. Named' = Named /\ \A v : Rewriting(v)' <=> Rewriting(v)
  BY <1>2 DEF Named, Rewriting, Again
<1>7. \A v \in Named : pkl'[v] = pkl[v]
  BY <1>2, NamedAreVersions
<1> QED
  BY <1>1, <1>3, <1>4, <1>5, <1>6, <1>7 DEF FilesSound

\* A step of a slot that was not saving and does not save yet.
LEMMA ReadKeepsSound ==
  ASSUME TypeOK, FilesSound, faults = 0, NEW h \in Slots,
         req[h].op \notin Saving,
         \A g \in Slots \ {h} : req'[g] = req[g],
         req'[h].op \notin Saving \/ (req'[h].op = "open" /\ req'[h].rich),
         req'[h].op = "load" => latest.file = "whole" /\ req'[h].version = latest.version,
         UNCHANGED <<pkl, latest>>
  PROVE  FilesSound'
<1>1. NoneShared /\ FilesFollow /\ OwnFiles /\ \A v \in Named : pkl[v] = "whole" \/ Rewriting(v)
  BY DEF FilesSound
<1>2. ~Owns(h) /\ ~Owns(h)' /\ \A g \in Slots \ {h} : Owns(g)' <=> Owns(g)
  BY DEF Owns, Again, Saving
<1>3. NoneShared'
  BY <1>1 DEF NoneShared
<1>4. FilesFollow'
  BY <1>1, <1>2 DEF FilesFollow
<1>5. OwnFiles'
  BY <1>1, <1>2 DEF OwnFiles
<1>6. Named' \subseteq Named
  BY DEF Named
<1>7. ASSUME NEW v, Rewriting(v) PROVE Rewriting(v)'
  <2>1. PICK g \in Slots : Again(g) /\ req[g].op = "dump" /\ req[g].version = v
    BY <1>7 DEF Rewriting
  <2>2. g # h
    BY <2>1 DEF Saving
  <2> QED
    BY <2>1, <2>2 DEF Rewriting, Again
<1> QED
  BY <1>1, <1>3, <1>4, <1>5, <1>6, <1>7 DEF FilesSound

\* The readers and starters are such steps.
LEMMA OtherStepsRead ==
  ASSUME TypeOK, FilesSound, faults = 0, faults' = 0, NEW h \in Slots, OtherStep(h)
  PROVE  FilesSound'
<1>1. /\ \A g \in Slots \ {h} : req'[g] = req[g]
      /\ req'[h].op \notin Saving
      /\ UNCHANGED <<pkl, latest>>
  BY OtherStepsSaveNothing
<1>2. ~Abort(h)
  BY DEF Abort
<1>3. req[h].op \notin Saving
  BY <1>2 DEF OtherStep, LoadModel, Predict, StartCheck, Evaluate, Saving
<1>4. req'[h].op = "load" => latest.file = "whole" /\ req'[h].version = latest.version
  <2>0. req[h] \in Requests
    BY DEF TypeOK
  <2>1. CASE ReadLatest(h)
    <3> DEFINE q == [Idle EXCEPT !.op = "load", !.version = latest.version,
                                 !.ref = latest.ref, !.rich = latest.rich]
    <3>0. Idle \in Requests /\ Idle.op # "load" /\ [Idle EXCEPT !.op = "prepare"].op # "load"
      BY FreshTyped
    <3>1. q.version = latest.version
      BY <3>0 DEF Requests
    <3>2. latest.file # "shared"
      BY DEF FilesSound, NoneShared
    <3>3. \/ latest.file = "whole" /\ To(h, q)
          \/ To(h, Idle) \/ To(h, [Idle EXCEPT !.op = "prepare"])
      BY <2>1, <3>2 DEF ReadLatest
    <3> HIDE DEF q
    <3>4. PICK r : To(h, r)
                     /\ (r.op = "load" => latest.file = "whole" /\ r.version = latest.version)
      BY <3>0, <3>1, <3>3
    <3> QED
      BY <3>4, SlotChanged
  <2>2. CASE ~ReadLatest(h)
    <3>1. PICK r : To(h, r) /\ r.op # "load"
      <4>1. Idle.op # "load" /\ [Idle EXCEPT !.op = "prepare"].op # "load"
        BY FreshTyped
      <4>2. [req[h] EXCEPT !.op = "loaded", !.version = NoVersion].op # "load"
        BY <2>0 DEF Requests
      <4>3. CASE LoadModel(h)
        BY <4>1, <4>2, <4>3 DEF LoadModel
      <4>4. CASE h = Trainer /\ Evaluate
        BY <4>1, <4>4, Zenon DEF Evaluate
      <4> QED
        BY <1>2, <2>2, <4>3, <4>4 DEF OtherStep, Predict, StartCheck
    <3> QED
      BY <3>1, SlotChanged
  <2> QED
    BY <2>1, <2>2
<1> QED
  BY <1>1, <1>3, <1>4, ReadKeepsSound

\* For any number of workers and versions: while nothing died and no saves met, readers find
\* complete models, however loads, saves and seconds interleave.
THEOREM FilesHold == Spec => []NamedIsWhole
<1>1. Init => FilesSound
  BY FreshTyped DEF Init, FilesSound, NoneShared, FilesFollow, OwnFiles, Owns, Named, NoMeta
<1>2. TypeOK /\ FilesSound /\ [Next]_vars => FilesSound'
  <2> SUFFICES ASSUME TypeOK, FilesSound, [Next]_vars, faults' = 0 PROVE FilesSound'
    BY DEF FilesSound
  <2>0. faults = 0
    BY FaultsCount
  <2>1. ASSUME NEW h \in Slots, Save(h) PROVE FilesSound'
    BY <2>0, <2>1, OpenKeepsSound, DumpKeepsSound, NoteKeepsSound DEF Save
  <2>2. ASSUME NEW h \in Slots, Fit(h) PROVE FilesSound'
    <3>1. req[h].op \notin Saving
      BY <2>2 DEF Fit, Trains, Saving
    <3> QED
      BY <2>0, <2>2, <3>1, FitOpens, ReadKeepsSound
  <2>3. ASSUME NEW h \in Slots, OtherStep(h) PROVE FilesSound'
    BY <2>0, <2>3, OtherStepsRead
  <2>4. CASE NextSecond
    BY <2>0, <2>4, SecondKeepsSound
  <2>5. CASE UNCHANGED <<pkl, latest, req, faults>>
    BY <2>0, <2>5 DEF FilesSound, NoneShared, FilesFollow, OwnFiles, Owns, Again, Named, Rewriting
  <2> QED
    BY <2>1, <2>2, <2>3, <2>4, <2>5, StepKinds DEF Restart
<1>3. FilesSound => NamedIsWhole
  BY DEF FilesSound, NamedIsWhole
<1> QED
  BY <1>1, <1>2, <1>3, TypeCorrect, PTL DEF Spec

=============================================================================
