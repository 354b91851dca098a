---------------------------- MODULE AdviceEngine ----------------------------
(***************************************************************************)
(* One analysis of the units' operating states: how readings become unit   *)
(* states (app/optimization/snapshots.py, app/services/live_reading.py),   *)
(* tiers and setpoint advice (app/optimization/engine.py), as              *)
(* POST /optimization/analyze, GET /rto/live and the RTO loop compute it.  *)
(*                                                                         *)
(* Quantities are integers in hundredths of the code's units.  Electric    *)
(* power is left out: no advice changes it, and only carbon depends on it. *)
(***************************************************************************)
EXTENDS Integers, Sequences, FiniteSets, Functions

CONSTANTS
  Plants,    \* unit codes
  Lists,     \* the unit lists an analysis is asked for
  Readings,  \* sensor readings; 0 for a value that is missing or zero
  Fallbacks  \* readings of the demo memory, OPC-UA or the simulator

Knobs == {"temp", "feed", "fuel", "steam"}

Settings == [Knobs -> Nat]

Intensities  == 50000 .. 80000
Efficiencies == 6000 .. 9200

ASSUME AdviceAssumption ==
  /\ Readings \cup Fallbacks \subseteq [set : Settings, kpi : {0} \cup Intensities]
  /\ Lists \subseteq Seq(Plants)   \* nothing keeps a code from being repeated

VARIABLES
  shown,   \* what resolve_live_reading gives for each unit with a session
  bare,    \* and without one
  list,    \* body.plant_codes, unit_code_list
  phase,   \* "idle", "loaded", "reloaded", "done" or "failed"
  states,  \* list[UnitOperatingState]
  advice   \* list[SetpointAdvice]

vars == <<shown, bare, list, phase, states, advice>>

UnitStates == [set : Settings, intensity : Intensities, efficiency : Efficiencies]
Advices    == [plant : Plants, current : Settings, proposed : [Knobs -> Int],
               benchmark : Plants, gap : Int]

TypeOK ==
  /\ shown \in [Plants -> Readings]
  /\ bare \in [Plants -> Fallbacks]
  /\ list \in Lists
  /\ phase \in {"idle", "loaded", "reloaded", "done", "failed"}
  /\ states \in Seq(UnitStates)
  /\ phase # "idle" => Len(states) = Len(list)
  /\ \A a \in advice : /\ a \in Advices
                       /\ \E i \in 1 .. Len(list) : a.plant = list[i]

-----------------------------------------------------------------------------
(* Unit states.                                                            *)

Clip(value, lo, hi) ==
  LET capped == IF value < hi THEN value ELSE hi
  IN  IF capped > lo THEN capped ELSE lo

Intensity(s) ==
  Clip(60000 + s["fuel"] \div 2 + 2 * s["steam"] - s["feed"] \div 10 + (3 * s["temp"]) \div 10,
       50000, 80000)

\* Rounded to hundredths of a percent.
Efficiency(intensity) == Clip(8500 - (intensity - 49980) \div 40, 6000, 9200)

Derived(s) ==
  [set |-> s, intensity |-> Intensity(s), efficiency |-> Efficiency(Intensity(s))]

Default == [k \in Knobs |-> CASE k = "fuel" -> 10000 [] k = "steam" -> 3000
                              [] k = "feed" -> 10000 [] k = "temp" -> 40000]

\* Faulty: what is missing stays missing.
FromPayloadRaw(r) == [set |-> r.set, intensity |-> r.kpi, efficiency |-> Efficiency(r.kpi)]

\* `payload.get(...) or default`: neither zero nor a missing value gets through.  KPIs the
\* payload brings are kept.
FromPayload(r) ==
  LET base == [k \in Knobs |-> IF r.set[k] = 0 THEN Default[k] ELSE r.set[k]]
  IN  IF r.kpi = 0 THEN Derived(base)
      ELSE [set |-> base, intensity |-> r.kpi, efficiency |-> Efficiency(r.kpi)]

\* Every unit after the first is nudged: the i-th burns 8i percent more, 2i degrees hotter.
Nudged(s, i) ==
  Derived([s EXCEPT !["fuel"] = (@ * (100 + 8 * i)) \div 100,
                    !["steam"] = (@ * (100 + 8 * i)) \div 100,
                    !["temp"] = @ + 200 * i])

LoadUnitStates(l, readings) ==
  [i \in 1 .. Len(l) |->
     IF i = 1 THEN FromPayload(readings[l[1]])
              ELSE Nudged(FromPayload(readings[l[i]]).set, i - 1)]

Alike(s) == \A i, j \in 1 .. Len(s) : /\ s[i].efficiency = s[j].efficiency
                                      /\ s[i].intensity = s[j].intensity

-----------------------------------------------------------------------------
(* Tiers and advice.                                                       *)

\* The efficiencies, each unit's once, in an order in which they never fall.
Sorted(s) ==
  LET units == 1 .. Len(s)
      order == CHOOSE p \in Bijection(units, units) :
                 \A i, j \in units : i < j => s[p[i]].efficiency <= s[p[j]].efficiency
  IN  [i \in units |-> s[order[i]].efficiency]

\* Faulty: the lower of two middle values.
MedianLow(s) == Sorted(s)[((Len(s) - 1) \div 2) + 1]

\* sorted(...)[len(states) // 2], from 0: the upper of two middle values.
Median(s) == Sorted(s)[(Len(s) \div 2) + 1]

Low(s, i) == s[i].efficiency < Median(s)

\* max(states, key=efficiency): the first of equals.
Best(s) ==
  CHOOSE i \in 1 .. Len(s) :
    \A j \in 1 .. Len(s) : /\ s[j].efficiency <= s[i].efficiency
                           /\ j < i => s[j].efficiency < s[i].efficiency

\* by_code and bench_by_code keep the last of the states that share a code.
Last(l, code) ==
  CHOOSE i \in 1 .. Len(l) : l[i] = code /\ \A j \in 1 .. Len(l) : l[j] = code => j <= i

\* How far one knob of a unit moves toward the best unit's, and where it may end.
TempDelta(unit, best) ==
  IF unit.set["temp"] > best.set["temp"] + 100
    THEN -Clip(unit.set["temp"] - best.set["temp"], 300, 1000)
  ELSE IF unit.intensity > 65000 THEN -700 ELSE 0

\* Faulty: the difference the wrong way round.
FeedDeltaSwapped(unit, best) ==
  IF unit.set["feed"] < best.set["feed"] - 100
    THEN -Clip(best.set["feed"] - unit.set["feed"], 200, 1000)
  ELSE IF unit.intensity > 65000 THEN 500 ELSE 0

FeedDelta(unit, best) ==
  IF unit.set["feed"] < best.set["feed"] - 100
    THEN Clip(best.set["feed"] - unit.set["feed"], 200, 1000)
  ELSE IF unit.intensity > 65000 THEN 500 ELSE 0

FuelDelta(unit, best) ==
  IF unit.set["fuel"] > best.set["fuel"] + 100
    THEN -Clip(unit.set["fuel"] - best.set["fuel"], 200, 1500) ELSE 0

SteamDelta(unit, best) ==
  IF unit.set["steam"] > best.set["steam"] + 50
    THEN -Clip(unit.set["steam"] - best.set["steam"], 100, 800) ELSE 0

Lowest  == [k \in Knobs |-> CASE k = "temp" -> 38000 [] k = "feed" -> 8000
                              [] k = "fuel" -> 5000 [] k = "steam" -> 1000]
Highest == [k \in Knobs |-> CASE k = "temp" -> 42000 [] k = "feed" -> 12000
                              [] k = "fuel" -> 15000 [] k = "steam" -> 5000]

Proposed(unit, best) ==
  [k \in Knobs |->
     Clip(unit.set[k] + CASE k = "temp" -> TempDelta(unit, best)
                          [] k = "feed" -> FeedDelta(unit, best)
                          [] k = "fuel" -> FuelDelta(unit, best)
                          [] k = "steam" -> SteamDelta(unit, best),
          Lowest[k], Highest[k])]

\* A change of at most 0.05 is none.
Changes(current, proposed) ==
  \E k \in Knobs : proposed[k] - current[k] > 5 \/ current[k] - proposed[k] > 5

\* The state advice moves toward: the one by_code keeps of the best unit.
Target(l, s) == s[Last(l, l[Best(s)])]

\* The tier bench_by_code keeps decides for every state of a code.
Advised(l, s, i) ==
  Low(s, Last(l, l[i])) /\ Changes(s[i].set, Proposed(s[i], Target(l, s)))

\* The estimated savings grow with the gap in intensity.
Gap(unit, best) ==
  IF unit.intensity > best.intensity THEN unit.intensity - best.intensity ELSE 0

BuildStructuredAdvice(l, s) ==
  {[plant |-> l[i], current |-> s[i].set, proposed |-> Proposed(s[i], Target(l, s)),
    benchmark |-> l[Best(s)], gap |-> Gap(s[i], Target(l, s))] :
     i \in {j \in 1 .. Len(s) : Advised(l, s, j)}}

-----------------------------------------------------------------------------
Init ==
  /\ shown \in [Plants -> Readings]
  /\ bare \in [Plants -> Fallbacks]
  /\ list \in Lists
  /\ phase = "idle"
  /\ states = <<>>
  /\ advice = {}

Load ==
  /\ phase = "idle"
  /\ states' = LoadUnitStates(list, shown)
  /\ phase' = "loaded"
  /\ UNCHANGED <<shown, bare, list, advice>>

\* Units nobody can tell apart are loaded again, without the database.
Reload ==
  /\ phase = "loaded"
  /\ Len(states) > 1 /\ Alike(states)
  /\ states' = LoadUnitStates(list, bare)
  /\ phase' = "reloaded"
  /\ UNCHANGED <<shown, bare, list, advice>>

Loaded ==
  \/ phase = "reloaded"
  \/ phase = "loaded" /\ ~(Len(states) > 1 /\ Alike(states))

Advise ==
  /\ Loaded
  /\ states # <<>>
  /\ advice' = BuildStructuredAdvice(list, states)
  /\ phase' = "done"
  /\ UNCHANGED <<shown, bare, list, states>>

\* The best of no units: max raises, and the caller has no advice.
NoUnits ==
  /\ Loaded
  /\ states = <<>>
  /\ phase' = "failed"
  /\ UNCHANGED <<shown, bare, list, states, advice>>

Next == Load \/ Reload \/ Advise \/ NoUnits

Spec == Init /\ [][Next]_vars

-----------------------------------------------------------------------------
(* Properties.                                                             *)

Inside(set) == \A k \in Knobs : Lowest[k] <= set[k] /\ set[k] <= Highest[k]

\* A unit inside the envelope moves one way only, and needs no more energy for it.
MovesOneWay(a) ==
  Inside(a.current) =>
    /\ \A k \in Knobs \ {"feed"} : a.proposed[k] <= a.current[k]
    /\ a.proposed["feed"] >= a.current["feed"]
    /\ a.proposed # a.current
    /\ Intensity(a.proposed) <= Intensity(a.current)

\* A knob that is turned down stops near the benchmark's, or at the end of the envelope
\* where both are above it.
StopsNear(a, knob, target) ==
  a.proposed[knob] < a.current[knob] => \/ a.proposed[knob] >= target
                                        \/ a.proposed[knob] = Highest[knob]

StopsAt(a, best) ==
  StopsNear(a, "fuel", best["fuel"] - 100) /\ StopsNear(a, "steam", best["steam"] - 50)

Once(code) == \A i, j \in 1 .. Len(list) : list[i] = code /\ list[j] = code => i = j

\* Every proposal keeps the operating envelope, and moves a unit that is inside it one way
\* only: no hotter, no less feed, no more fuel or steam, so that its intensity does not rise.
\* Fuel and steam are trimmed toward the benchmark's last state, at most by the tolerance past
\* it unless the envelope ends before.  A unit listed once is measured against another one,
\* and if that is listed once too, a better one.
AdviceOnlySaves ==
  \A a \in advice :
    /\ Inside(a.proposed)
    /\ MovesOneWay(a)
    /\ StopsAt(a, states[Last(list, a.benchmark)].set)
    /\ Once(a.plant) => a.benchmark # a.plant
    /\ Once(a.plant) /\ Once(a.benchmark) => a.gap > 0

\* Who gets advice: exactly the units whose last state is worse than at least half of the
\* list, where there is something to change in one of their states.  Of a list that names
\* every unit once, the best is never told anything, nor is one of two equals.
AdvisedAreTheWorse ==
  phase = "done" =>
    \A i \in 1 .. Len(list) :
      LET last     == Last(list, list[i])
          noBetter == {j \in 1 .. Len(list) : states[j].efficiency <= states[last].efficiency}
          changes  == \E j \in 1 .. Len(list) :
                        /\ list[j] = list[i]
                        /\ Changes(states[j].set, Proposed(states[j], Target(list, states)))
      IN  (\E a \in advice : a.plant = list[i])
            <=> 2 * Cardinality(noBetter) <= Len(list) /\ changes
=============================================================================
