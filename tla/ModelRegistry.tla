---------------------------- MODULE ModelRegistry ----------------------------
(***************************************************************************)
(* The registry of one plant and model kind: the trainer's cycles and POST *)
(* /ml/train fit models and save them to a directory the containers share, *)
(* predictions load the latest one (app/ml/registry.py, train.py,          *)
(* trainer.py, serve.py).                                                  *)
(*                                                                         *)
(* A save is several file operations; other processes and a crash come in  *)
(* between.  Plants and kinds have directories of their own.               *)
(***************************************************************************)
EXTENDS Naturals

CONSTANTS
  Trainer,  \* the slot that runs ModelTrainer
  Api,      \* workers of the API; within one, loading and saving run without a break
  Settings, \* settings the services may be started with
  Versions, \* time stamps that name saved models
  NoVersion,\* no version
  MaxDist,  \* bound: distributions the plant's samples may follow
  MaxFaults \* bound: deaths; saves that hit the files of another save count too, and go on

ASSUME RegistryAssumption ==
  /\ Trainer \notin Api
  /\ NoVersion \notin Versions /\ Versions # {}
  /\ Settings \subseteq [trusted : BOOLEAN, mlflow : BOOLEAN, synthetic : BOOLEAN]
  /\ MaxDist \in Nat /\ MaxFaults \in Nat \ {0}

VARIABLES
  cfg,    \* settings in force
  second, \* the current second, as a version stamp
  dist,   \* distribution of the stored samples, 0 while there are too few
  pkl,    \* model file of each version
  latest, \* latest.json
  req,    \* what each slot is doing
  faults

vars == <<cfg, second, dist, pkl, latest, req, faults>>

Slots == Api \cup {Trainer}
Stamps == Versions \cup {NoVersion}

\* Files: absent, truncated, whole, or open for two processes at once.
Files == {"none", "torn", "whole", "shared"}

\* latest.json: the version, the distribution the model was fitted to (0: synthetic), and
\* whether the metrics hold its reference statistics.
Metas    == [file : Files, version : Stamps, ref : 0 .. MaxDist, rich : BOOLEAN]
Saving   == {"open", "dump", "truncate", "write"}
Requests ==
  [op : {"idle", "load", "loaded", "prepare"} \cup Saving,
   version : Stamps, \* version read from latest.json, or saved
   ref : 0 .. MaxDist, rich : BOOLEAN] \* the same for the metrics

\* The declared types.
TypeOK ==
  /\ cfg \in Settings
  /\ second \in Versions
  /\ dist \in 0 .. MaxDist
  /\ pkl \in [Versions -> Files]
  /\ latest \in Metas
  /\ req \in [Slots -> Requests]
  /\ \A h \in Slots :
       req[h].op \in {"load", "dump", "truncate", "write"} => req[h].version \in Versions
  /\ latest.file \in {"whole", "shared"} => latest.version \in Versions
  /\ faults \in 0 .. MaxFaults

NoMeta == [file |-> "none", version |-> NoVersion, ref |-> 0, rich |-> TRUE]
Idle   == [op |-> "idle", version |-> NoVersion, ref |-> 0, rich |-> TRUE]

\* Stamps carry no order here: any free one will do.
FreeStamp(used) == CHOOSE v \in Versions \ used : TRUE

Init ==
  /\ cfg \in Settings
  /\ second = FreeStamp({})
  /\ dist = 0
  /\ pkl = [v \in Versions |-> "none"]
  /\ latest = NoMeta
  /\ req = [h \in Slots |-> Idle]
  /\ faults = 0

To(h, q) == req' = [req EXCEPT ![h] = q]

\* Versions somebody may still look at.  Other files are as good as gone, and their stamps
\* stand for seconds to come.
InUse == {latest.version} \cup {req[h].version : h \in Slots}

NextSecond ==
  /\ Versions \ InUse # {}
  /\ second' = FreeStamp(InUse)
  /\ pkl' = [v \in Versions |-> IF v \in InUse THEN pkl[v] ELSE "none"]
  /\ UNCHANGED <<cfg, dist, latest, req, faults>>

Samples(d) ==
  /\ d # dist
  /\ dist' = d
  /\ UNCHANGED <<cfg, second, pkl, latest, req, faults>>

-----------------------------------------------------------------------------
(* Loading: latest.json, then the file it names.                           *)

\* latest.json as slot h finds it.  No file: the trainer fits a model, a prediction falls
\* back to physics or answers 503.  One that does not parse ends the cycle with an error,
\* the request with 500.
ReadLatest(h) ==
  \/ latest.file \in {"whole", "shared"}
     /\ To(h, [Idle EXCEPT !.op = "load", !.version = latest.version,
                        !.ref = latest.ref, !.rich = latest.rich])
  \/ latest.file = "none" /\ To(h, IF h = Trainer THEN [Idle EXCEPT !.op = "prepare"] ELSE Idle)
  \/ latest.file \in {"torn", "shared"} /\ To(h, Idle)

\* Faulty: every cycle looks for drift.
AlwaysChecks == TRUE

\* In trusted mode a cycle looks for drift before it trains.
ChecksDrift == cfg.trusted

StartCheck ==
  /\ req[Trainer].op = "idle" /\ ChecksDrift
  /\ ReadLatest(Trainer)
  /\ UNCHANGED <<cfg, second, dist, pkl, latest, faults>>

Predict(h) ==
  /\ req[h].op = "idle"
  /\ ReadLatest(h)
  /\ UNCHANGED <<cfg, second, dist, pkl, latest, faults>>

\* A prediction is answered from the model in memory; a cycle goes on to the drift.
LoadModel(h) ==
  LET file == pkl[req[h].version] IN
  /\ req[h].op = "load"
  /\ \/ file \in {"whole", "shared"} /\ h = Trainer
        /\ To(h, [req[h] EXCEPT !.op = "loaded", !.version = NoVersion])
     \/ (file # "whole" \/ h # Trainer) /\ To(h, Idle)
  /\ UNCHANGED <<cfg, second, dist, pkl, latest, faults>>

\* Without reference statistics or enough current samples the drift is unknown.
DriftKnown == req[Trainer].rich /\ dist # 0
NoDrift    == dist # 0 /\ req[Trainer].ref = dist

Evaluate ==
  /\ req[Trainer].op = "loaded"
  /\ To(Trainer, IF DriftKnown /\ NoDrift THEN Idle ELSE [Idle EXCEPT !.op = "prepare"])
  /\ UNCHANGED <<cfg, second, dist, pkl, latest, faults>>

-----------------------------------------------------------------------------
(* Training.                                                               *)

\* What a fitted model may be: of plant data, with a holdout MAPE that meets the target or not,
\* or of the synthetic data prepare_dataset falls back to where that is allowed.
Fitted == IF dist # 0 THEN {"poor", "good"}
          ELSE IF cfg.synthetic /\ ~cfg.trusted THEN {"synthetic"} ELSE {}

\* train_model's last look before it saves.
MeetsGate(m) == cfg.trusted => m = "good"

\* POST /ml/train and a cycle that need not check for drift start here.
Trains(h) == req[h].op = "prepare" \/ (req[h].op = "idle" /\ (h = Trainer => ~ChecksDrift))

\* The samples are read, a model is fitted and tested on the holdout.  Refused: 409.
Fit(h) ==
  /\ Trains(h)
  /\ \/ \E m \in Fitted : MeetsGate(m) /\ To(h, [Idle EXCEPT !.op = "open", !.ref = dist])
     \/ (Fitted = {} \/ \E m \in Fitted : ~MeetsGate(m)) /\ To(h, Idle)
  /\ UNCHANGED <<cfg, second, dist, pkl, latest, faults>>

-----------------------------------------------------------------------------
(* Saving.  Two processes that have one file open leave the content of     *)
(* either or a mixture; nobody knows which until both are done.            *)

Opened(others)    == IF others THEN "shared" ELSE "torn"
Closed(f, others) ==
  IF f # "shared" THEN {"whole"} ELSE IF others THEN {"shared"} ELSE {"whole", "torn"}

Counted       == IF faults < MaxFaults THEN faults + 1 ELSE faults
Writing(v, h) == \E g \in Slots \ {h} : req[g].op = "dump" /\ req[g].version = v
Noting(h)     == \E g \in Slots \ {h} : req[g].op = "write"

\* log_to_mlflow saves the same model again, with the numbers among the metrics only.
Again(h) == ~req[h].rich

\* Faulty: latest.json is written before the model.
OpenPickleLate(h) ==
  /\ req[h].op = "open"
  /\ pkl[second] = "none"
  /\ pkl' = [pkl EXCEPT ![second] = "torn"]
  /\ latest' = [file |-> "whole", version |-> second, ref |-> req[h].ref, rich |-> req[h].rich]
  /\ To(h, [req[h] EXCEPT !.op = "dump", !.version = second])
  /\ UNCHANGED <<cfg, second, dist, faults>>

\* Faulty: the stamp is taken again wherever it is needed.
OpenPickleUnnamed(h) ==
  /\ req[h].op = "open"
  /\ pkl' = [pkl EXCEPT ![second] = Opened(Writing(second, h))]
  /\ To(h, [req[h] EXCEPT !.op = "dump"])
  /\ UNCHANGED <<cfg, second, dist, latest, faults>>

\* The version is the current second; opening its file truncates it.
OpenPickle(h) ==
  LET hits == pkl[second] # "none" /\ ~(Again(h) /\ req[h].version = second) IN
  /\ req[h].op = "open"
  /\ faults' = IF hits THEN Counted ELSE faults
  /\ pkl' = [pkl EXCEPT ![second] = Opened(Writing(second, h))]
  /\ To(h, [req[h] EXCEPT !.op = "dump", !.version = second])
  /\ UNCHANGED <<cfg, second, dist, latest>>

DumpPickle(h) ==
  LET v == req[h].version IN
  /\ req[h].op = "dump"
  /\ \E f \in Closed(pkl[v], Writing(v, h)) : pkl' = [pkl EXCEPT ![v] = f]
  /\ To(h, [req[h] EXCEPT !.op = "truncate"])
  /\ UNCHANGED <<cfg, second, dist, latest, faults>>

TruncateLatest(h) ==
  /\ req[h].op = "truncate"
  /\ faults' = IF Noting(h) THEN Counted ELSE faults
  /\ latest' = IF Noting(h) THEN [latest EXCEPT !.file = "shared", !.version = req[h].version]
               ELSE [NoMeta EXCEPT !.file = "torn"]
  /\ To(h, [req[h] EXCEPT !.op = "write"])
  /\ UNCHANGED <<cfg, second, dist, pkl>>

\* Then MLflow logging, which gets as far as the second save when its server answers.
WriteLatest(h) ==
  LET q == req[h] IN
  /\ q.op = "write"
  /\ \E f \in Closed(latest.file, Noting(h)) :
       latest' = [file |-> f, version |-> q.version, ref |-> q.ref, rich |-> q.rich]
  /\ \/ To(h, Idle)
     \/ cfg.mlflow /\ ~Again(h) /\ To(h, [q EXCEPT !.op = "open", !.rich = FALSE])
  /\ UNCHANGED <<cfg, second, dist, pkl, faults>>

-----------------------------------------------------------------------------
(* Failures and settings.                                                  *)

\* A process dies, or a step fails.
Abort(h) ==
  /\ req[h].op # "idle"
  /\ faults < MaxFaults
  /\ faults' = faults + 1
  /\ To(h, Idle)
  /\ UNCHANGED <<cfg, second, dist, pkl, latest>>

\* The services are started again with other settings, on the same directory, all at once.
Restart(s) ==
  /\ s # cfg
  /\ \A h \in Slots : req[h].op = "idle"
  /\ cfg' = s
  /\ UNCHANGED <<second, dist, pkl, latest, req, faults>>

Save(h) == OpenPickle(h) \/ DumpPickle(h) \/ TruncateLatest(h) \/ WriteLatest(h)

Cycle == StartCheck \/ LoadModel(Trainer) \/ Evaluate \/ Fit(Trainer) \/ Save(Trainer)

Request(h) == Predict(h) \/ LoadModel(h) \/ Fit(h) \/ Save(h)

Next ==
  \/ NextSecond
  \/ \E d \in 0 .. MaxDist : Samples(d)
  \/ Cycle
  \/ \E h \in Api : Request(h)
  \/ \E h \in Slots : Abort(h)
  \/ \E s \in Settings : Restart(s)

Spec == Init /\ [][Next]_vars

\* run_forever keeps running cycles, compose restarts its container, and time passes.
FairSpec == Spec /\ WF_vars(Cycle) /\ WF_vars(NextSecond)

-----------------------------------------------------------------------------
\* Model files that latest.json names, or named when a reader looked.
Named ==
  {req[h].version : h \in {g \in Slots : req[g].op = "load"}} \cup
  (IF latest.file = "whole" THEN {latest.version} ELSE {})

\* MLflow's save rewrites the file when it falls into the second of the first save.
Rewriting(v) == \E h \in Slots : Again(h) /\ req[h].op = "dump" /\ req[h].version = v

\* As long as nothing died and no two saves met, a model that latest.json names, or named
\* when a reader looked, is complete on disk unless MLflow's save rewrites it right now:
\* save_local writes the model before the pointer.
NamedIsWhole == faults = 0 => \A v \in Named : pkl[v] = "whole" \/ Rewriting(v)

\* A demo deployment that stays one has a complete model again and again unless saves keep
\* meeting, also after one that died halfway: the next cycle writes anew.  In trusted mode
\* it need not: a cycle that cannot load the old model ends there.
DemoRecovers ==
  LET Complete == latest.file = "whole" /\ pkl[latest.version] = "whole"
      Meeting  == latest.file = "shared" \/ \E v \in Versions : pkl[v] = "shared"
  IN [](cfg.synthetic /\ ~cfg.trusted) => []<>(Complete \/ Meeting)

\* RUNBOOK E8: in trusted mode the trainer skips the retrain when the samples do not drift
\* from what the registered model was fitted to.
SkipsWithoutDrift ==
  [][cfg.trusted /\ req[Trainer].op = "loaded" /\ NoDrift => req'[Trainer].op # "prepare"]_vars
=============================================================================
