-------------------------- MODULE MCCarbonReports --------------------------
(***************************************************************************)
(* Instances of CarbonReports for TLC: the scheduler and one or two API    *)
(* requests, the daily reports of one plant.  Only today's period has      *)
(* samples: at first it is the running one, then the completed one.        *)
(***************************************************************************)
EXTENDS CarbonReports, TLC

CONSTANTS yesterday, today, tomorrow, daily, scheduler, api, api2

MCPlants == {"olefin"}
Olefin   == [r \in Reports |-> "olefin"]
Daily    == [r \in Reports |-> daily]

\* The last completed day, and the running one.
Day(t) == <<yesterday, today, tomorrow>>[t]
Days ==
  [t \in 0 .. MaxTime |-> [b \in BOOLEAN |-> [s \in Series |-> Day(IF b THEN t + 1 ELSE t + 2)]]]

Samples == [r \in Reports |-> IF r = today THEN 2 ELSE 0]

\* Locked reports only, posted to a registry; the scheduler after the completed periods,
\* or after the running ones.
Running == {[requireLocked |-> TRUE, url |-> TRUE, completedOnly |-> FALSE]}
Either  == {[requireLocked |-> TRUE, url |-> TRUE, completedOnly |-> b] : b \in BOOLEAN}

ApiSlots == Permutations({api, api2})
=============================================================================
