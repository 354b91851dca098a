------------------------- MODULE AdviceEngine_proofs -------------------------
(***************************************************************************)
(* Theorems about AdviceEngine, for any units, any lists of them, empty    *)
(* ones and lists that repeat a unit included, and any readings.           *)
(***************************************************************************)
EXTENDS AdviceEngine, FiniteSetTheorems, TLAPS

-----------------------------------------------------------------------------
(* Arithmetic of one unit.                                                 *)

LEMMA ClipInt ==
  ASSUME NEW value \in Int, NEW lo \in Int, NEW hi \in Int
  PROVE  Clip(value, lo, hi) \in Int
BY DEF Clip

LEMMA ClipInside ==
  ASSUME NEW value \in Int, NEW lo \in Int, NEW hi \in Int, lo <= hi
  PROVE  lo <= Clip(value, lo, hi) /\ Clip(value, lo, hi) <= hi
BY DEF Clip

LEMMA InIntensities ==
  ASSUME NEW i \in Int, 50000 <= i, i <= 80000
  PROVE  i \in Intensities
<1>. DEFINE lo == 50000
            hi == 80000
<1>1. lo \in Int /\ hi \in Int /\ lo <= i /\ i <= hi
  OBVIOUS
<1>2. Intensities = lo .. hi
  BY DEF Intensities
<1>. HIDE DEF lo, hi
<1>3. i \in lo .. hi
  BY <1>1
<1>. QED  BY <1>2, <1>3

LEMMA InEfficiencies ==
  ASSUME NEW i \in Int, 6000 <= i, i <= 9200
  PROVE  i \in Efficiencies
<1>. DEFINE lo == 6000
            hi == 9200
<1>1. lo \in Int /\ hi \in Int /\ lo <= i /\ i <= hi
  OBVIOUS
<1>2. Efficiencies = lo .. hi
  BY DEF Efficiencies
<1>. HIDE DEF lo, hi
<1>3. i \in lo .. hi
  BY <1>1
<1>. QED  BY <1>2, <1>3

LEMMA RangesInt == Intensities \subseteq Int /\ Efficiencies \subseteq Int
<1>1. Intensities \subseteq Int
  BY DEF Intensities
<1>2. Efficiencies \subseteq Int
  BY DEF Efficiencies
<1>. QED  BY <1>1, <1>2

LEMMA ClipMonotone ==
  ASSUME NEW v \in Int, NEW w \in Int, NEW lo \in Int, NEW hi \in Int, v <= w
  PROVE  Clip(v, lo, hi) <= Clip(w, lo, hi)
BY DEF Clip

\* What the intensity is clipped from.
Raw(s) ==
  60000 + s["fuel"] \div 2 + 2 * s["steam"] - s["feed"] \div 10 + (3 * s["temp"]) \div 10

LEMMA KnobsInt ==
  ASSUME NEW s \in [Knobs -> Int]
  PROVE  /\ s["fuel"] \in Int /\ s["steam"] \in Int /\ s["feed"] \in Int /\ s["temp"] \in Int
         /\ s["fuel"] \div 2 \in Int /\ s["feed"] \div 10 \in Int
         /\ (3 * s["temp"]) \div 10 \in Int
<1>1. s["fuel"] \in Int /\ s["steam"] \in Int /\ s["feed"] \in Int /\ s["temp"] \in Int
  BY DEF Knobs
<1>2. ASSUME NEW f \in Int PROVE f \div 2 \in Int /\ f \div 10 \in Int /\ 3 * f \in Int
  OBVIOUS
<1>. QED  BY <1>1, <1>2

LEMMA RawInt ==
  ASSUME NEW s \in [Knobs -> Int]
  PROVE  Raw(s) \in Int
<1>1. ASSUME NEW a \in Int, NEW b \in Int, NEW c \in Int, NEW d \in Int
      PROVE  60000 + a + 2 * b - c + d \in Int
  OBVIOUS
<1>. QED  BY <1>1, KnobsInt DEF Raw

LEMMA IntensityType ==
  ASSUME NEW s \in [Knobs -> Int]
  PROVE  Intensity(s) \in Intensities
<1>1. Raw(s) \in Int
  BY RawInt
<1>2. Intensity(s) = Clip(Raw(s), 50000, 80000)
  BY DEF Intensity, Raw
<1>3. 50000 <= Clip(Raw(s), 50000, 80000) /\ Clip(Raw(s), 50000, 80000) <= 80000
  BY <1>1, ClipInside
<1>4. Clip(Raw(s), 50000, 80000) \in Int
  BY <1>1, ClipInt
<1>5. Clip(Raw(s), 50000, 80000) \in Intensities
  BY <1>3, <1>4, InIntensities
<1>. QED  BY <1>2, <1>5

\* No hotter, no less feed and no more fuel or steam: no more energy per ton.
LEMMA IntensityFalls ==
  ASSUME NEW s \in [Knobs -> Int], NEW t \in [Knobs -> Int],
         t["temp"] <= s["temp"], t["feed"] >= s["feed"],
         t["fuel"] <= s["fuel"], t["steam"] <= s["steam"]
  PROVE  Intensity(t) <= Intensity(s)
<1>1. ASSUME NEW a \in Int, NEW b \in Int, a <= b
      PROVE  a \div 2 <= b \div 2
  BY <1>1
<1>2. ASSUME NEW a \in Int, NEW b \in Int, a <= b
      PROVE  a \div 10 <= b \div 10
  BY <1>2
<1>3. 3 * t["temp"] <= 3 * s["temp"] /\ 3 * t["temp"] \in Int /\ 3 * s["temp"] \in Int
  BY KnobsInt
<1>4. /\ t["fuel"] \div 2 <= s["fuel"] \div 2
      /\ s["feed"] \div 10 <= t["feed"] \div 10
      /\ (3 * t["temp"]) \div 10 <= (3 * s["temp"]) \div 10
  BY <1>1, <1>2, <1>3, KnobsInt
<1>5. ASSUME NEW a \in Int, NEW b \in Int, NEW c \in Int, NEW d \in Int,
             NEW e \in Int, NEW f \in Int, NEW g \in Int, NEW h \in Int,
             a <= e, b <= f, g <= c, d <= h
      PROVE  60000 + a + 2 * b - c + d <= 60000 + e + 2 * f - g + h
  BY <1>5
<1>6. Raw(t) <= Raw(s)
  BY <1>4, <1>5, KnobsInt DEF Raw
<1>7. Intensity(t) = Clip(Raw(t), 50000, 80000) /\ Intensity(s) = Clip(Raw(s), 50000, 80000)
  BY DEF Intensity, Raw
<1>8. Raw(t) \in Int /\ Raw(s) \in Int
  BY RawInt
<1>9. Clip(Raw(t), 50000, 80000) <= Clip(Raw(s), 50000, 80000)
  BY <1>6, <1>8, ClipMonotone
<1>. QED  BY <1>7, <1>9

\* What the efficiency is clipped from.
Line(i) == 8500 - (i - 49980) \div 40

LEMMA LineFalls ==
  ASSUME NEW i \in Int, NEW j \in Int, i <= j
  PROVE  Line(i) \in Int /\ Line(j) \in Int /\ Line(j) <= Line(i)
<1>1. ASSUME NEW a \in Int, NEW b \in Int, a <= b
      PROVE  a \div 40 <= b \div 40 /\ a \div 40 \in Int /\ b \div 40 \in Int
  BY <1>1
<1>2. i - 49980 \in Int /\ j - 49980 \in Int /\ i - 49980 <= j - 49980
  OBVIOUS
<1>3. /\ (i - 49980) \div 40 <= (j - 49980) \div 40
      /\ (i - 49980) \div 40 \in Int /\ (j - 49980) \div 40 \in Int
  BY <1>1, <1>2
<1>. QED  BY <1>3 DEF Line

LEMMA EfficiencyType ==
  ASSUME NEW i \in Int
  PROVE  Efficiency(i) \in Efficiencies
<1>1. Line(i) \in Int
  BY LineFalls
<1>2. 6000 <= Clip(Line(i), 6000, 9200) /\ Clip(Line(i), 6000, 9200) <= 9200
  BY <1>1, ClipInside
<1>3. Clip(Line(i), 6000, 9200) \in Int
  BY <1>1, ClipInt
<1>4. Clip(Line(i), 6000, 9200) \in Efficiencies
  BY <1>2, <1>3, InEfficiencies
<1>. QED  BY <1>4 DEF Efficiency, Line

\* The less efficient of two units needs more energy per ton, rounding and clipping or not.
LEMMA LessEfficient ==
  ASSUME NEW i \in Int, NEW j \in Int, Efficiency(i) < Efficiency(j)
  PROVE  j < i
<1>1. ASSUME i <= j PROVE Efficiency(j) <= Efficiency(i)
  <2>1. Line(i) \in Int /\ Line(j) \in Int /\ Line(j) <= Line(i)
    BY <1>1, LineFalls
  <2>2. Clip(Line(j), 6000, 9200) <= Clip(Line(i), 6000, 9200)
    BY <2>1, ClipMonotone
  <2>. QED  BY <2>2 DEF Efficiency, Line
<1>2. Efficiency(i) \in Int /\ Efficiency(j) \in Int
  BY EfficiencyType, RangesInt
<1>. QED  BY <1>1, <1>2

-----------------------------------------------------------------------------
(* Unit states.                                                            *)

\* A unit state is typed, and says the efficiency that goes with its intensity.
UnitOK(u) == u \in UnitStates /\ u.efficiency = Efficiency(u.intensity)

LEMMA DerivedOK == ASSUME NEW s \in Settings PROVE UnitOK(Derived(s))
<1>1. s \in [Knobs -> Int]
  BY DEF Settings
<1>2. Intensity(s) \in Intensities /\ Intensity(s) \in Int
  BY <1>1, IntensityType, RangesInt
<1>3. Efficiency(Intensity(s)) \in Efficiencies
  BY <1>2, EfficiencyType
<1>. QED  BY <1>2, <1>3 DEF UnitOK, Derived, UnitStates

LEMMA FromPayloadOK ==
  ASSUME NEW r \in Readings \cup Fallbacks
  PROVE  UnitOK(FromPayload(r))
<1>. DEFINE base == [k \in Knobs |-> IF r.set[k] = 0 THEN Default[k] ELSE r.set[k]]
<1>1. r.set \in [Knobs -> Nat] /\ r.kpi \in {0} \cup Intensities
  BY AdviceAssumption DEF Settings
<1>2. Default \in [Knobs -> Nat]
  BY DEF Default, Knobs
<1>3. base \in Settings
  BY <1>1, <1>2 DEF Settings
<1>4. FromPayload(r) = IF r.kpi = 0 THEN Derived(base)
                       ELSE [set |-> base, intensity |-> r.kpi, efficiency |-> Efficiency(r.kpi)]
  BY DEF FromPayload
<1>. HIDE DEF base
<1>5. CASE r.kpi = 0
  BY <1>3, <1>4, <1>5, DerivedOK
<1>6. CASE r.kpi # 0
  <2>1. r.kpi \in Intensities /\ Efficiency(r.kpi) \in Efficiencies
    BY <1>1, <1>6, EfficiencyType, RangesInt
  <2>. QED  BY <1>3, <1>4, <1>6, <2>1 DEF UnitOK, UnitStates
<1>. QED  BY <1>5, <1>6

LEMMA NudgedOK ==
  ASSUME NEW s \in Settings, NEW i \in Nat
  PROVE  UnitOK(Nudged(s, i))
<1>. DEFINE Burn(k) == (s[k] * (100 + 8 * i)) \div 100
            t == [s EXCEPT !["fuel"] = Burn("fuel"), !["steam"] = Burn("steam"),
                           !["temp"] = @ + 200 * i]
<1>1. \A k \in Knobs : s[k] \in Nat
  BY DEF Settings
<1>2. ASSUME NEW k \in Knobs PROVE Burn(k) \in Nat
  <2>1. s[k] * (100 + 8 * i) \in Nat
    BY <1>1
  <2>2. \A n \in Nat : n \div 100 \in Nat
    OBVIOUS
  <2>. QED  BY <2>1, <2>2
<1>3. s["temp"] + 200 * i \in Nat
  BY <1>1 DEF Knobs
<1>4. Burn("fuel") \in Nat /\ Burn("steam") \in Nat
  BY <1>2 DEF Knobs
<1>. HIDE DEF Burn
<1>5. t \in Settings
  BY <1>3, <1>4 DEF Settings
<1>6. Nudged(s, i) = Derived(t)
  BY DEF Nudged, Burn
<1>. HIDE DEF t
<1>. QED  BY <1>5, <1>6, DerivedOK

LEMMA LoadOK ==
  ASSUME NEW l \in Lists, NEW readings \in [Plants -> Readings \cup Fallbacks]
  PROVE  /\ LoadUnitStates(l, readings) \in Seq(UnitStates)
         /\ Len(LoadUnitStates(l, readings)) = Len(l)
         /\ \A i \in 1 .. Len(l) : UnitOK(LoadUnitStates(l, readings)[i])
<1>1. l \in Seq(Plants) /\ Len(l) \in Nat /\ \A i \in 1 .. Len(l) : l[i] \in Plants
  BY AdviceAssumption
<1>2. ASSUME NEW i \in 1 .. Len(l) PROVE UnitOK(LoadUnitStates(l, readings)[i])
  <2>1. UnitOK(FromPayload(readings[l[i]]))
    BY <1>1, FromPayloadOK
  <2>2. CASE i = 1
    BY <2>1, <2>2 DEF LoadUnitStates
  <2>3. CASE i # 1
    <3>1. FromPayload(readings[l[i]]).set \in Settings /\ i - 1 \in Nat
      BY <1>1, <2>1, <2>3 DEF UnitOK, UnitStates
    <3>2. LoadUnitStates(l, readings)[i] = Nudged(FromPayload(readings[l[i]]).set, i - 1)
      BY <2>3 DEF LoadUnitStates
    <3>. QED  BY <3>1, <3>2, NudgedOK
  <2>. QED  BY <2>2, <2>3
<1>3. LoadUnitStates(l, readings) = [i \in 1 .. Len(l) |-> LoadUnitStates(l, readings)[i]]
  BY DEF LoadUnitStates
<1>4. \A i \in 1 .. Len(l) : LoadUnitStates(l, readings)[i] \in UnitStates
  BY <1>2 DEF UnitOK
<1>5. LoadUnitStates(l, readings) \in [1 .. Len(l) -> UnitStates]
  BY <1>3, <1>4
<1>. QED  BY <1>1, <1>2, <1>5

-----------------------------------------------------------------------------
(* Order.                                                                  *)

LEMMA HasLeast ==
  ASSUME NEW S, S # {}, NEW f, \A x \in S : f[x] \in Nat
  PROVE  \E x \in S : \A y \in S : f[x] <= f[y]
<1>. DEFINE Values == {f[x] : x \in S}
            R == OpToRel(<, Nat)
<1>1. IsWellFoundedOn(R, Nat)
  BY NatLessThanWellFounded
<1>2. Values \subseteq Nat /\ Values # {}
  OBVIOUS
<1>3. ASSUME NEW x \in Nat, NEW y \in Nat, <<y, x>> \notin R PROVE x <= y
  BY <1>3 DEF OpToRel
<1>. HIDE DEF R
<1>4. PICK v \in Values : \A w \in Values : <<w, v>> \notin R
  <2>. HIDE DEF Values
  <2>. QED  BY <1>1, <1>2, WFMin
<1>5. PICK x \in S : v = f[x]
  OBVIOUS
<1>6. ASSUME NEW y \in S PROVE f[x] <= f[y]
  BY <1>2, <1>3, <1>4, <1>5
<1>. QED  BY <1>6

\* p is one-to-one and onto.
Shuffles(n, p) ==
  /\ p \in [1 .. n -> 1 .. n]
  /\ \A i, j \in 1 .. n : p[i] = p[j] => i = j
  /\ \A j \in 1 .. n : \E i \in 1 .. n : p[i] = j

LEMMA ShufflesBijection ==
  ASSUME NEW n, NEW p
  PROVE  Shuffles(n, p) <=> p \in Bijection(1 .. n, 1 .. n)
BY DEF Shuffles, Bijection, Injection, Surjection, IsInjective

\* The first m places of the order p hold the m least values, in order.
SortedTo(n, e, p, m) ==
  Shuffles(n, p) /\ \A i \in 1 .. m : \A j \in 1 .. n : i < j => e[p[i]] <= e[p[j]]

\* One step of a selection sort.
LEMMA Select ==
  ASSUME NEW n \in Nat, NEW e \in [1 .. n -> Nat], NEW m \in Nat, m < n,
         NEW p, SortedTo(n, e, p, m)
  PROVE  \E q : SortedTo(n, e, q, m + 1)
<1>. DEFINE Rest == m + 1 .. n
            f == [t \in Rest |-> e[p[t]]]
<1>1. /\ p \in [1 .. n -> 1 .. n]
      /\ \A i, j \in 1 .. n : p[i] = p[j] => i = j
      /\ \A j \in 1 .. n : \E i \in 1 .. n : p[i] = j
      /\ \A i \in 1 .. m : \A j \in 1 .. n : i < j => e[p[i]] <= e[p[j]]
  BY DEF SortedTo, Shuffles
<1>2. m + 1 \in Rest /\ Rest # {} /\ Rest \subseteq 1 .. n /\ m + 1 \in 1 .. n
  OBVIOUS
<1>3. \A t \in Rest : f[t] \in Nat
  BY <1>1, <1>2
<1>4. PICK k \in Rest : \A t \in Rest : f[k] <= f[t]
  <2>. HIDE DEF Rest, f
  <2>. QED  BY <1>2, <1>3, HasLeast
<1>5. \A t \in Rest : e[p[k]] <= e[p[t]]
  BY <1>4
<1>. DEFINE q == [i \in 1 .. n |-> IF i = m + 1 THEN p[k] ELSE IF i = k THEN p[m + 1] ELSE p[i]]
<1>6. k \in 1 .. n /\ k >= m + 1
  BY <1>2
<1>7. q \in [1 .. n -> 1 .. n]
  BY <1>1, <1>2, <1>6
<1>8. ASSUME NEW i \in 1 .. n, NEW j \in 1 .. n, q[i] = q[j] PROVE i = j
  BY <1>1, <1>2, <1>6, <1>8
<1>9. ASSUME NEW j \in 1 .. n PROVE \E i \in 1 .. n : q[i] = j
  <2>1. PICK i \in 1 .. n : p[i] = j
    BY <1>1
  <2>2. CASE i = k
    BY <1>2, <2>1, <2>2
  <2>3. CASE i = m + 1 /\ i # k
    BY <1>6, <2>1, <2>3
  <2>4. CASE i # m + 1 /\ i # k
    BY <2>1, <2>4
  <2>. QED  BY <2>2, <2>3, <2>4
<1>10. \A i \in 1 .. m : i \in 1 .. n /\ q[i] = p[i]
  BY <1>6
<1>11. \A j \in 1 .. n : j > m => \E t \in Rest : q[j] = p[t]
  BY <1>2, <1>4
<1>12. q[m + 1] = p[k]
  BY <1>2
<1>13. ASSUME NEW i \in 1 .. m + 1, NEW j \in 1 .. n, i < j PROVE e[q[i]] <= e[q[j]]
  <2>. HIDE DEF q
  <2>1. CASE i = m + 1
    <3>1. q[i] = p[k] /\ j > m
      BY <1>12, <1>13, <2>1
    <3>2. PICK t \in Rest : q[j] = p[t]
      BY <1>11, <3>1
    <3>3. e[p[k]] <= e[p[t]]
      BY <1>5
    <3>. QED  BY <3>1, <3>2, <3>3
  <2>2. CASE i # m + 1 /\ j <= m
    <3>1. i \in 1 .. m /\ j \in 1 .. m
      BY <2>2
    <3>. QED  BY <1>1, <1>10, <1>13, <3>1
  <2>3. CASE i # m + 1 /\ j > m
    <3>1. i \in 1 .. m
      BY <2>3
    <3>2. PICK t \in Rest : q[j] = p[t]
      BY <1>11, <2>3
    <3>3. t \in 1 .. n /\ i < t
      BY <1>2, <3>1
    <3>4. e[p[i]] <= e[p[t]]
      BY <1>1, <3>1, <3>3
    <3>. QED  BY <1>10, <3>1, <3>2, <3>4
  <2>. QED  BY <2>1, <2>2, <2>3
<1>. HIDE DEF q
<1>. QED  BY <1>7, <1>8, <1>9, <1>13 DEF SortedTo, Shuffles

\* Every list of numbers can be put in order.
LEMMA SortExists ==
  ASSUME NEW n \in Nat, NEW e \in [1 .. n -> Nat]
  PROVE  \E p : SortedTo(n, e, p, n)
<1>. DEFINE T == {m \in 0 .. n : \E p : SortedTo(n, e, p, m)}
            left == [m \in T |-> n - m]
<1>1. SortedTo(n, e, [i \in 1 .. n |-> i], 0)
  BY DEF SortedTo, Shuffles
<1>2. T # {} /\ \A m \in T : left[m] \in Nat
  <2>1. 0 \in 0 .. n
    OBVIOUS
  <2>2. 0 \in T
    BY <1>1, <2>1
  <2>3. \A m \in T : left[m] = n - m /\ m \in 0 .. n
    OBVIOUS
  <2>. HIDE DEF T, left
  <2>. QED  BY <2>2, <2>3
<1>3. PICK m \in T : \A u \in T : left[m] <= left[u]
  <2>. HIDE DEF T, left
  <2>. QED  BY <1>2, HasLeast
<1>4. \A u \in T : u <= m
  <2>1. \A u \in T : left[u] = n - u /\ u \in 0 .. n
    OBVIOUS
  <2>. HIDE DEF T, left
  <2>. QED  BY <1>3, <2>1
<1>5. PICK p : SortedTo(n, e, p, m)
  OBVIOUS
<1>6. m = n
  <2>. SUFFICES ASSUME m < n PROVE FALSE
    OBVIOUS
  <2>1. m \in Nat
    OBVIOUS
  <2>2. \E q : SortedTo(n, e, q, m + 1)
    BY <1>5, <2>1, Select
  <2>3. m + 1 \in T
    BY <2>1, <2>2
  <2>. QED  BY <1>4, <2>1, <2>3
<1>. QED  BY <1>5, <1>6

-----------------------------------------------------------------------------
(* Tiers.                                                                  *)

\* The operating states of a list that is not empty.
StatesOK(s) ==
  /\ s \in Seq(UnitStates) /\ Len(s) > 0
  /\ \A i \in 1 .. Len(s) : UnitOK(s[i])

LEMMA StateFacts ==
  ASSUME NEW s, StatesOK(s), NEW i \in 1 .. Len(s)
  PROVE  /\ s[i].set \in Settings
         /\ s[i].intensity \in Int
         /\ s[i].efficiency \in Nat
         /\ s[i].efficiency = Efficiency(s[i].intensity)
<1>1. s[i] \in UnitStates /\ s[i].efficiency = Efficiency(s[i].intensity)
  BY DEF StatesOK, UnitOK
<1>2. s[i].intensity \in Intensities /\ s[i].efficiency \in Efficiencies /\ s[i].set \in Settings
  BY <1>1 DEF UnitStates
<1>3. Efficiencies \subseteq Nat
  BY DEF Efficiencies
<1>. QED  BY <1>1, <1>2, <1>3, RangesInt

\* The efficiencies in order, by an order of the units.
LEMMA SortedBy ==
  ASSUME NEW s, StatesOK(s)
  PROVE  \E p : /\ Shuffles(Len(s), p)
                /\ Sorted(s) = [i \in 1 .. Len(s) |-> s[p[i]].efficiency]
                /\ \A i, j \in 1 .. Len(s) :
                     i < j => s[p[i]].efficiency <= s[p[j]].efficiency
<1>. DEFINE n == Len(s)
            e == [i \in 1 .. n |-> s[i].efficiency]
            P(p) == \A i, j \in 1 .. n : i < j => s[p[i]].efficiency <= s[p[j]].efficiency
            order == CHOOSE p \in Bijection(1 .. n, 1 .. n) : P(p)
<1>1. n \in Nat /\ e \in [1 .. n -> Nat]
  <2>1. n \in Nat
    BY DEF StatesOK
  <2>2. \A i \in 1 .. n : s[i].efficiency \in Nat
    BY StateFacts
  <2>. QED  BY <2>1, <2>2
<1>2. PICK p : SortedTo(n, e, p, n)
  <2>. HIDE DEF n, e
  <2>. QED  BY <1>1, SortExists
<1>3. Shuffles(n, p) /\ \A i \in 1 .. n : p[i] \in 1 .. n
  BY <1>2 DEF SortedTo, Shuffles
<1>4. P(p)
  BY <1>2, <1>3 DEF SortedTo
<1>5. p \in Bijection(1 .. n, 1 .. n)
  BY <1>3, ShufflesBijection
<1>6. order \in Bijection(1 .. n, 1 .. n) /\ P(order)
  <2>. HIDE DEF P
  <2>. QED  BY <1>4, <1>5
<1>7. Shuffles(n, order)
  BY <1>6, ShufflesBijection
<1>8. Sorted(s) = [i \in 1 .. n |-> s[order[i]].efficiency]
  BY DEF Sorted
<1>. HIDE DEF order
<1>. QED  BY <1>6, <1>7, <1>8

NoBetter(s, i) == {j \in 1 .. Len(s) : s[j].efficiency <= s[i].efficiency}

\* Below the upper median: no more efficient than half of the units, that unit counted.
LEMMA LowIsWorseHalf ==
  ASSUME NEW s, StatesOK(s), NEW i \in 1 .. Len(s)
  PROVE  Low(s, i) <=> 2 * Cardinality(NoBetter(s, i)) <= Len(s)
<1>. DEFINE n == Len(s)
            k == (n \div 2) + 1
            A == NoBetter(s, i)
<1>0. n \in Nat /\ n > 0
  BY DEF StatesOK
<1>1. k \in 1 .. n /\ k \in Nat /\ 2 * (k - 1) <= n /\ n < 2 * k
  BY <1>0
<1>2. PICK p : /\ Shuffles(n, p)
               /\ Sorted(s) = [j \in 1 .. n |-> s[p[j]].efficiency]
               /\ \A a, b \in 1 .. n : a < b => s[p[a]].efficiency <= s[p[b]].efficiency
  BY SortedBy
<1>3. /\ p \in [1 .. n -> 1 .. n]
      /\ \A a, b \in 1 .. n : p[a] = p[b] => a = b
      /\ \A j \in 1 .. n : \E a \in 1 .. n : p[a] = j
  BY <1>2 DEF Shuffles
<1>4. Median(s) = s[p[k]].efficiency
  BY <1>1, <1>2 DEF Median
<1>5. \A j \in 1 .. n : s[j].efficiency \in Nat
  BY StateFacts
<1>6. Low(s, i) <=> s[i].efficiency < s[p[k]].efficiency
  BY <1>4 DEF Low
<1>7. IsFiniteSet(A) /\ Cardinality(A) \in Nat
  <2>1. IsFiniteSet(1 .. n)
    BY <1>0, FS_Interval
  <2>2. A \in SUBSET (1 .. n)
    BY DEF NoBetter
  <2>3. IsFiniteSet(A)
    BY <2>1, <2>2, FS_Subset
  <2>. QED  BY <2>3, FS_CardinalityType
<1>8. ASSUME s[i].efficiency < s[p[k]].efficiency PROVE Cardinality(A) <= k - 1
  <2>. DEFINE place == [j \in A |-> CHOOSE a \in 1 .. n : p[a] = j]
  <2>1. ASSUME NEW j \in A
        PROVE  place[j] \in 1 .. (k - 1) /\ p[place[j]] = j
    <3>1. j \in 1 .. n /\ s[j].efficiency <= s[i].efficiency
      BY DEF NoBetter
    <3>2. place[j] \in 1 .. n /\ p[place[j]] = j
      BY <1>3, <3>1
    <3>. HIDE DEF place, k
    <3>3. /\ s[j].efficiency \in Nat /\ s[i].efficiency \in Nat
          /\ s[p[k]].efficiency \in Nat
      BY <1>1, <1>3, <1>5, <3>1
    <3>4. s[j].efficiency < s[p[k]].efficiency
      BY <1>8, <3>1, <3>3
    <3>5. s[p[place[j]]].efficiency = s[j].efficiency
      BY <3>2
    <3>6. ~(s[p[k]].efficiency <= s[p[place[j]]].efficiency)
      BY <3>3, <3>4, <3>5
    <3>7. k # place[j] /\ ~(k < place[j])
      BY <1>1, <1>2, <3>2, <3>3, <3>6
    <3>8. ~(k <= place[j])
      BY <1>1, <3>2, <3>7
    <3>9. k \in Int /\ place[j] \in Int
      BY <1>1, <3>2
    <3>. QED  BY <3>2, <3>8, <3>9
  <2>2. place \in [A -> 1 .. (k - 1)]
    BY <2>1
  <2>3. place \in Injection(A, 1 .. (k - 1))
    <3>1. \A j, l \in A : place[j] = place[l] => j = l
      BY <2>1
    <3>. HIDE DEF place
    <3>. QED  BY <2>2, <3>1 DEF Injection, IsInjective
  <2>4. k - 1 \in Nat /\ IsFiniteSet(1 .. (k - 1)) /\ Cardinality(1 .. (k - 1)) = k - 1
    <3>. HIDE DEF k
    <3>1. k - 1 \in Nat /\ k - 1 \in Int /\ 1 \in Int
      BY <1>1
    <3>2. /\ IsFiniteSet(1 .. (k - 1))
          /\ Cardinality(1 .. (k - 1)) = IF 1 > k - 1 THEN 0 ELSE (k - 1) - 1 + 1
      BY <3>1, FS_Interval
    <3>. QED  BY <3>1, <3>2
  <2>. HIDE DEF place, A, k
  <2>5. Cardinality(A) <= Cardinality(1 .. (k - 1))
    BY <2>3, <2>4, FS_Injection
  <2>. QED  BY <2>4, <2>5
<1>9. ASSUME ~(s[i].efficiency < s[p[k]].efficiency) PROVE k <= Cardinality(A)
  <2>. DEFINE f == [a \in 1 .. k |-> p[a]]
  <2>1. \A a \in 1 .. k : a \in 1 .. n /\ (a < k \/ a = k)
    BY <1>1
  <2>2. ASSUME NEW a \in 1 .. k PROVE p[a] \in A
    <3>. HIDE DEF k
    <3>1. p[a] \in 1 .. n /\ p[k] \in 1 .. n
      BY <1>1, <1>3, <2>1
    <3>2. s[p[a]].efficiency <= s[p[k]].efficiency
      <4>1. s[p[k]].efficiency \in Nat
        BY <1>5, <3>1
      <4>2. CASE a < k
        BY <1>1, <1>2, <2>1, <4>2
      <4>3. CASE a = k
        BY <4>1, <4>3
      <4>. QED  BY <2>1, <4>2, <4>3
    <3>3. s[p[a]].efficiency <= s[i].efficiency
      BY <1>5, <1>9, <3>1, <3>2
    <3>. QED  BY <3>1, <3>3 DEF NoBetter
  <2>3. f \in Injection(1 .. k, A)
    <3>1. f \in [1 .. k -> A]
      BY <2>2
    <3>2. \A a, b \in 1 .. k : f[a] = f[b] => a = b
      BY <1>3, <2>1
    <3>. HIDE DEF f
    <3>. QED  BY <3>1, <3>2 DEF Injection, IsInjective
  <2>4. Cardinality(1 .. k) = k
    <3>. HIDE DEF k
    <3>. QED  BY <1>1, FS_Interval
  <2>. HIDE DEF f, A, k
  <2>5. Cardinality(1 .. k) <= Cardinality(A)
    BY <1>7, <2>3, FS_Injection
  <2>. QED  BY <2>4, <2>5
<1>. HIDE DEF A, k
<1>10. Low(s, i) <=> 2 * Cardinality(A) <= n
  BY <1>0, <1>1, <1>6, <1>7, <1>8, <1>9
<1>. QED  BY <1>10 DEF A

\* The best unit is at least as efficient as every other, and as the median.
LEMMA BestIsBest ==
  ASSUME NEW s, StatesOK(s)
  PROVE  /\ Best(s) \in 1 .. Len(s)
         /\ \A j \in 1 .. Len(s) : s[j].efficiency <= s[Best(s)].efficiency
         /\ Median(s) <= s[Best(s)].efficiency
         /\ Median(s) \in Nat
<1>. DEFINE n == Len(s)
            M == {i \in 1 .. n : \A j \in 1 .. n : s[j].efficiency <= s[i].efficiency}
            B(i) == \A j \in 1 .. n : /\ s[j].efficiency <= s[i].efficiency
                                      /\ j < i => s[j].efficiency < s[i].efficiency
            self == [i \in M |-> i]
<1>0. n \in Nat /\ n > 0
  BY DEF StatesOK
<1>1. \A j \in 1 .. n : s[j].efficiency \in Nat
  BY StateFacts
<1>2. PICK p : /\ Shuffles(n, p)
               /\ Sorted(s) = [j \in 1 .. n |-> s[p[j]].efficiency]
               /\ \A a, b \in 1 .. n : a < b => s[p[a]].efficiency <= s[p[b]].efficiency
  BY SortedBy
<1>3. /\ p \in [1 .. n -> 1 .. n]
      /\ \A j \in 1 .. n : \E a \in 1 .. n : p[a] = j
  BY <1>2 DEF Shuffles
<1>4. p[n] \in M
  <2>0. n \in 1 .. n
    BY <1>0
  <2>1. n \in 1 .. n /\ p[n] \in 1 .. n
    BY <1>3, <2>0
  <2>2. ASSUME NEW j \in 1 .. n PROVE s[j].efficiency <= s[p[n]].efficiency
    <3>1. PICK a \in 1 .. n : p[a] = j
      BY <1>3
    <3>2. a < n \/ a = n
      BY <1>0
    <3>. QED  BY <1>1, <1>2, <2>1, <3>1, <3>2
  <2>. QED  BY <2>1, <2>2
<1>5. PICK i \in M : \A j \in M : i <= j
  <2>1. M # {} /\ \A j \in M : self[j] = j /\ j \in Nat
    BY <1>4
  <2>. HIDE DEF M, self
  <2>. QED  BY <2>1, HasLeast
<1>6. i \in 1 .. n /\ B(i)
  <2>1. i \in 1 .. n /\ \A j \in 1 .. n : s[j].efficiency <= s[i].efficiency
    OBVIOUS
  <2>2. ASSUME NEW j \in 1 .. n, j < i PROVE s[j].efficiency < s[i].efficiency
    <3>1. j \notin M
      <4>1. i \in Int /\ j \in Int /\ ~(i <= j)
        BY <2>1, <2>2
      <4>. HIDE DEF M
      <4>. QED  BY <1>5, <4>1
    <3>2. PICK l \in 1 .. n : ~(s[l].efficiency <= s[j].efficiency)
      BY <3>1
    <3>. QED  BY <1>1, <2>1, <3>2
  <2>. QED  BY <2>1, <2>2
<1>7. Best(s) = CHOOSE b \in 1 .. n : B(b)
  BY DEF Best
<1>8. Best(s) \in 1 .. n /\ B(Best(s))
  <2>. HIDE DEF B, n
  <2>. QED  BY <1>6, <1>7
<1>9. Median(s) = s[p[(n \div 2) + 1]].efficiency /\ p[(n \div 2) + 1] \in 1 .. n
  <2>1. (n \div 2) + 1 \in 1 .. n
    BY <1>0
  <2>. QED  BY <1>2, <1>3, <2>1 DEF Median
<1>. QED  BY <1>1, <1>8, <1>9

-----------------------------------------------------------------------------
(* Advice.                                                                 *)

\* The move that a knob is given.
Delta(unit, best, k) ==
  CASE k = "temp" -> TempDelta(unit, best)
    [] k = "feed" -> FeedDelta(unit, best)
    [] k = "fuel" -> FuelDelta(unit, best)
    [] k = "steam" -> SteamDelta(unit, best)

LEMMA EnvelopeType ==
  /\ \A k \in Knobs : Lowest[k] \in Int /\ Highest[k] \in Int /\ Lowest[k] <= Highest[k]
  /\ Highest["fuel"] = 15000 /\ Highest["steam"] = 5000
<1>1. /\ Lowest["temp"] = 38000 /\ Lowest["feed"] = 8000
      /\ Lowest["fuel"] = 5000 /\ Lowest["steam"] = 1000
  BY DEF Lowest, Knobs
<1>2. /\ Highest["temp"] = 42000 /\ Highest["feed"] = 12000
      /\ Highest["fuel"] = 15000 /\ Highest["steam"] = 5000
  BY DEF Highest, Knobs
<1>. QED  BY <1>1, <1>2 DEF Knobs

LEMMA DeltaFacts ==
  ASSUME NEW unit, NEW best, unit.set \in Settings, best.set \in Settings, unit.intensity \in Int
  PROVE  /\ \A k \in Knobs : Delta(unit, best, k) \in Int
         /\ \A k \in Knobs \ {"feed"} : Delta(unit, best, k) <= 0
         /\ Delta(unit, best, "feed") >= 0
<1>1. \A k \in Knobs : unit.set[k] \in Int /\ best.set[k] \in Int
  BY DEF Settings
<1>2. /\ \A k \in Knobs : unit.set[k] - best.set[k] \in Int /\ best.set[k] - unit.set[k] \in Int
      /\ "temp" \in Knobs /\ "feed" \in Knobs /\ "fuel" \in Knobs /\ "steam" \in Knobs
  BY <1>1 DEF Knobs
<1>3. ASSUME NEW d \in Int, NEW lo \in Int, NEW hi \in Int, lo <= hi, lo >= 0
      PROVE  /\ Clip(d, lo, hi) \in Int /\ Clip(d, lo, hi) >= 0
             /\ -Clip(d, lo, hi) \in Int /\ -Clip(d, lo, hi) <= 0
  <2>1. PICK c \in Int : c = Clip(d, lo, hi) /\ lo <= c
    <3>1. Clip(d, lo, hi) \in Int
      BY ClipInt
    <3>2. lo <= Clip(d, lo, hi)
      BY <1>3, ClipInside
    <3>. QED  BY <3>1, <3>2
  <2>. QED  BY <1>3, <2>1
<1>4. TempDelta(unit, best) \in Int /\ TempDelta(unit, best) <= 0
  <2>1. PICK d \in Int, lo \in Int, hi \in Int :
          /\ d = unit.set["temp"] - best.set["temp"] /\ lo = 300 /\ hi = 1000
          /\ lo >= 0 /\ lo <= hi
    BY <1>2
  <2>2. PICK c \in Int : c = -Clip(d, lo, hi) /\ c <= 0
    BY <1>3, <2>1
  <2>3. c = -Clip(unit.set["temp"] - best.set["temp"], 300, 1000)
    BY <2>1, <2>2
  <2>. QED  BY <2>2, <2>3 DEF TempDelta
<1>5. FeedDelta(unit, best) \in Int /\ FeedDelta(unit, best) >= 0
  BY <1>2, <1>3 DEF FeedDelta
<1>6. FuelDelta(unit, best) \in Int /\ FuelDelta(unit, best) <= 0
  <2>1. PICK d \in Int, lo \in Int, hi \in Int :
          /\ d = unit.set["fuel"] - best.set["fuel"] /\ lo = 200 /\ hi = 1500
          /\ lo >= 0 /\ lo <= hi
    BY <1>2
  <2>2. PICK c \in Int : c = -Clip(d, lo, hi) /\ c <= 0
    BY <1>3, <2>1
  <2>3. c = -Clip(unit.set["fuel"] - best.set["fuel"], 200, 1500)
    BY <2>1, <2>2
  <2>. QED  BY <2>2, <2>3 DEF FuelDelta
<1>7. SteamDelta(unit, best) \in Int /\ SteamDelta(unit, best) <= 0
  <2>1. PICK d \in Int, lo \in Int, hi \in Int :
          /\ d = unit.set["steam"] - best.set["steam"] /\ lo = 100 /\ hi = 800
          /\ lo >= 0 /\ lo <= hi
    BY <1>2
  <2>2. PICK c \in Int : c = -Clip(d, lo, hi) /\ c <= 0
    BY <1>3, <2>1
  <2>3. c = -Clip(unit.set["steam"] - best.set["steam"], 100, 800)
    BY <2>1, <2>2
  <2>. QED  BY <2>2, <2>3 DEF SteamDelta
<1>8. /\ Delta(unit, best, "temp") = TempDelta(unit, best)
      /\ Delta(unit, best, "feed") = FeedDelta(unit, best)
      /\ Delta(unit, best, "fuel") = FuelDelta(unit, best)
      /\ Delta(unit, best, "steam") = SteamDelta(unit, best)
  BY DEF Delta
<1>. QED  BY <1>4, <1>5, <1>6, <1>7, <1>8 DEF Knobs

LEMMA ProposedFacts ==
  ASSUME NEW unit, NEW best, unit.set \in Settings, best.set \in Settings, unit.intensity \in Int
  PROVE  /\ Proposed(unit, best) \in [Knobs -> Int]
         /\ \A k \in Knobs :
              Proposed(unit, best)[k]
                = Clip(unit.set[k] + Delta(unit, best, k), Lowest[k], Highest[k])
         /\ Inside(Proposed(unit, best))
<1>1. \A k \in Knobs : unit.set[k] + Delta(unit, best, k) \in Int
  <2>1. \A k \in Knobs : unit.set[k] \in Int
    BY DEF Settings
  <2>. QED  BY <2>1, DeltaFacts
<1>2. Proposed(unit, best)
        = [k \in Knobs |-> Clip(unit.set[k] + Delta(unit, best, k), Lowest[k], Highest[k])]
  BY DEF Proposed, Delta
<1>3. ASSUME NEW k \in Knobs
      PROVE  LET c == Clip(unit.set[k] + Delta(unit, best, k), Lowest[k], Highest[k])
             IN  c \in Int /\ Lowest[k] <= c /\ c <= Highest[k]
  <2>1. PICK v \in Int, lo \in Int, hi \in Int :
          /\ v = unit.set[k] + Delta(unit, best, k)
          /\ lo = Lowest[k] /\ hi = Highest[k] /\ lo <= hi
    BY <1>1, EnvelopeType
  <2>2. Clip(v, lo, hi) \in Int /\ lo <= Clip(v, lo, hi) /\ Clip(v, lo, hi) <= hi
    BY <2>1, ClipInt, ClipInside
  <2>. QED  BY <2>1, <2>2
<1>. QED  BY <1>2, <1>3 DEF Inside

\* From inside the envelope a knob moves the way of its delta.
LEMMA ClipMoves ==
  ASSUME NEW v \in Int, NEW d \in Int, NEW lo \in Int, NEW hi \in Int, lo <= v, v <= hi
  PROVE  /\ d <= 0 => Clip(v + d, lo, hi) <= v
         /\ d >= 0 => Clip(v + d, lo, hi) >= v
BY DEF Clip

\* A knob turned down by what it is above the target, though by no less than the least step,
\* stops no further below the target than a step that was just worth taking.
StopsShort(v, b, above, to, tol, least, most, lo, hi) ==
  /\ above = v - b /\ tol >= 0 /\ lo <= hi /\ least <= 2 * tol /\ least <= most
  /\ to = v \/ (above > tol /\ to = v - Clip(above, least, most))
  /\ Clip(to, lo, hi) < v
  => Clip(to, lo, hi) >= b - tol \/ Clip(to, lo, hi) = hi

LEMMA ClipStops ==
  ASSUME NEW v \in Int, NEW b \in Int, NEW above \in Int, NEW to \in Int, NEW tol \in Int,
         NEW least \in Int, NEW most \in Int, NEW lo \in Int, NEW hi \in Int
  PROVE  StopsShort(v, b, above, to, tol, least, most, lo, hi)
<1>. SUFFICES ASSUME above = v - b, tol >= 0, lo <= hi, least <= 2 * tol, least <= most,
                     to = v \/ (above > tol /\ to = v - Clip(above, least, most)),
                     Clip(to, lo, hi) < v
              PROVE  Clip(to, lo, hi) >= b - tol \/ Clip(to, lo, hi) = hi
  BY DEF StopsShort
<1>1. CASE above > tol /\ to = v - Clip(above, least, most)
  <2>1. Clip(above, least, most) \in Int
    BY ClipInt
  <2>2. Clip(above, least, most) <= least \/ Clip(above, least, most) <= above
    BY DEF Clip
  <2>3. to >= b - tol
    BY <1>1, <2>1, <2>2
  <2>. QED  BY <2>3 DEF Clip
<1>2. CASE to = v
  BY <1>2 DEF Clip
<1>. QED  BY <1>1, <1>2

LEMMA ProposedStops ==
  ASSUME NEW unit, NEW best, unit.set \in Settings, best.set \in Settings, unit.intensity \in Int,
         NEW a, a.current = unit.set, a.proposed = Proposed(unit, best)
  PROVE  StopsAt(a, best.set)
<1>1. /\ unit.set["fuel"] \in Int /\ best.set["fuel"] \in Int
      /\ unit.set["steam"] \in Int /\ best.set["steam"] \in Int
      /\ "fuel" \in Knobs /\ "steam" \in Knobs
  BY DEF Settings, Knobs
<1>2. FuelDelta(unit, best) \in Int /\ SteamDelta(unit, best) \in Int
  BY <1>1, DeltaFacts DEF Delta
<1>3. FuelDelta(unit, best) = IF unit.set["fuel"] > best.set["fuel"] + 100
                              THEN -Clip(unit.set["fuel"] - best.set["fuel"], 200, 1500)
                              ELSE 0
  BY <1>1 DEF FuelDelta
<1>4. SteamDelta(unit, best) = IF unit.set["steam"] > best.set["steam"] + 50
                               THEN -Clip(unit.set["steam"] - best.set["steam"], 100, 800)
                               ELSE 0
  BY <1>1 DEF SteamDelta
<1>5. a.proposed["fuel"]
        = Clip(unit.set["fuel"] + FuelDelta(unit, best), Lowest["fuel"], Highest["fuel"])
  BY <1>1, ProposedFacts DEF Delta
<1>6. a.proposed["steam"]
        = Clip(unit.set["steam"] + SteamDelta(unit, best), Lowest["steam"], Highest["steam"])
  BY <1>1, ProposedFacts DEF Delta
<1>7. StopsNear(a, "fuel", best.set["fuel"] - 100)
  <2>0. /\ unit.set["fuel"] - best.set["fuel"] \in Int
        /\ unit.set["fuel"] + FuelDelta(unit, best) \in Int
        /\ Lowest["fuel"] \in Int /\ Highest["fuel"] \in Int
        /\ Lowest["fuel"] <= Highest["fuel"]
    BY <1>1, <1>2, EnvelopeType
  <2>1. PICK v \in Int, b \in Int, lo \in Int, hi \in Int, above \in Int, to \in Int :
          /\ v = unit.set["fuel"] /\ b = best.set["fuel"]
          /\ above = unit.set["fuel"] - best.set["fuel"]
          /\ to = unit.set["fuel"] + FuelDelta(unit, best)
          /\ lo = Lowest["fuel"] /\ hi = Highest["fuel"] /\ lo <= hi
    BY <1>1, <2>0, Zenon
  <2>2. PICK tol \in Int, least \in Int, most \in Int :
          /\ tol = 100 /\ least = 200 /\ most = 1500
          /\ tol >= 0 /\ least <= 2 * tol /\ least <= most
    OBVIOUS
  <2>3. to = v \/ (above > tol /\ to = v - Clip(above, least, most))
    <3>1. Clip(above, least, most) \in Int
      BY ClipInt
    <3>2. FuelDelta(unit, best) = IF above > tol THEN -Clip(above, least, most) ELSE 0
      BY <1>1, <1>3, <2>1, <2>2
    <3>. QED  BY <1>2, <2>1, <3>1, <3>2
  <2>4. above = v - b
    BY <2>1
  <2>5. Clip(to, lo, hi) < v => Clip(to, lo, hi) >= b - tol \/ Clip(to, lo, hi) = hi
    <3>1. StopsShort(v, b, above, to, tol, least, most, lo, hi)
      BY ClipStops
    <3>. QED  BY <2>1, <2>2, <2>3, <2>4, <3>1 DEF StopsShort
  <2>6. a.proposed["fuel"] = Clip(to, lo, hi) /\ a.current["fuel"] = v
    BY <1>5, <2>1
  <2>. QED  BY <2>1, <2>2, <2>5, <2>6 DEF StopsNear
<1>8. StopsNear(a, "steam", best.set["steam"] - 50)
  <2>0. /\ unit.set["steam"] - best.set["steam"] \in Int
        /\ unit.set["steam"] + SteamDelta(unit, best) \in Int
        /\ Lowest["steam"] \in Int /\ Highest["steam"] \in Int
        /\ Lowest["steam"] <= Highest["steam"]
    BY <1>1, <1>2, EnvelopeType
  <2>1. PICK v \in Int, b \in Int, lo \in Int, hi \in Int, above \in Int, to \in Int :
          /\ v = unit.set["steam"] /\ b = best.set["steam"]
          /\ above = unit.set["steam"] - best.set["steam"]
          /\ to = unit.set["steam"] + SteamDelta(unit, best)
          /\ lo = Lowest["steam"] /\ hi = Highest["steam"] /\ lo <= hi
    BY <1>1, <2>0, Zenon
  <2>2. PICK tol \in Int, least \in Int, most \in Int :
          /\ tol = 50 /\ least = 100 /\ most = 800
          /\ tol >= 0 /\ least <= 2 * tol /\ least <= most
    OBVIOUS
  <2>3. to = v \/ (above > tol /\ to = v - Clip(above, least, most))
    <3>1. Clip(above, least, most) \in Int
      BY ClipInt
    <3>2. SteamDelta(unit, best) = IF above > tol THEN -Clip(above, least, most) ELSE 0
      BY <1>1, <1>4, <2>1, <2>2
    <3>. QED  BY <1>2, <2>1, <3>1, <3>2
  <2>4. above = v - b
    BY <2>1
  <2>5. Clip(to, lo, hi) < v => Clip(to, lo, hi) >= b - tol \/ Clip(to, lo, hi) = hi
    <3>1. StopsShort(v, b, above, to, tol, least, most, lo, hi)
      BY ClipStops
    <3>. QED  BY <2>1, <2>2, <2>3, <2>4, <3>1 DEF StopsShort
  <2>6. a.proposed["steam"] = Clip(to, lo, hi) /\ a.current["steam"] = v
    BY <1>6, <2>1
  <2>. QED  BY <2>1, <2>2, <2>5, <2>6 DEF StopsNear
<1>. QED  BY <1>7, <1>8 DEF StopsAt

LEMMA ProposedOneWay ==
  ASSUME NEW unit, NEW best, unit.set \in Settings, best.set \in Settings, unit.intensity \in Int,
         Inside(unit.set), Changes(unit.set, Proposed(unit, best)),
         NEW a, a.current = unit.set, a.proposed = Proposed(unit, best)
  PROVE  MovesOneWay(a)
<1>1. \A k \in Knobs : /\ unit.set[k] \in Int /\ Delta(unit, best, k) \in Int
                       /\ Lowest[k] \in Int /\ Highest[k] \in Int
                       /\ Lowest[k] <= unit.set[k] /\ unit.set[k] <= Highest[k]
  BY DeltaFacts, EnvelopeType DEF Settings, Inside
<1>2. \A k \in Knobs :
        a.proposed[k] = Clip(unit.set[k] + Delta(unit, best, k), Lowest[k], Highest[k])
  BY ProposedFacts
<1>3. ASSUME NEW k \in Knobs \ {"feed"} PROVE a.proposed[k] <= unit.set[k]
  <2>1. PICK v \in Int, d \in Int, lo \in Int, hi \in Int :
          /\ v = unit.set[k] /\ d = Delta(unit, best, k) /\ lo = Lowest[k] /\ hi = Highest[k]
          /\ lo <= v /\ v <= hi
    BY <1>1
  <2>2. d <= 0
    BY <2>1, DeltaFacts
  <2>3. Clip(v + d, lo, hi) <= v
    BY <2>1, <2>2, ClipMoves
  <2>. QED  BY <1>2, <2>1, <2>3
<1>4. a.proposed["feed"] >= unit.set["feed"]
  <2>1. "feed" \in Knobs
    BY DEF Knobs
  <2>. QED  BY <1>1, <1>2, <2>1, DeltaFacts, ClipMoves
<1>5. a.proposed # unit.set
  <2>1. PICK k \in Knobs : \/ a.proposed[k] - unit.set[k] > 5
                           \/ unit.set[k] - a.proposed[k] > 5
    BY DEF Changes
  <2>. QED  BY <1>1, <2>1
<1>6. Intensity(a.proposed) <= Intensity(unit.set)
  <2>1. a.proposed \in [Knobs -> Int] /\ unit.set \in [Knobs -> Int]
    BY ProposedFacts DEF Settings
  <2>2. "temp" \in Knobs \ {"feed"} /\ "fuel" \in Knobs \ {"feed"} /\ "steam" \in Knobs \ {"feed"}
    BY DEF Knobs
  <2>. QED  BY <1>3, <1>4, <2>1, <2>2, IntensityFalls
<1>. QED  BY <1>3, <1>4, <1>5, <1>6 DEF MovesOneWay

-----------------------------------------------------------------------------
(* What one analysis builds.                                               *)

\* The last position of a code that is listed.
LEMMA LastFacts ==
  ASSUME NEW l \in Seq(Plants), NEW i \in 1 .. Len(l)
  PROVE  /\ Last(l, l[i]) \in 1 .. Len(l)
         /\ l[Last(l, l[i])] = l[i]
<1>. DEFINE S == {j \in 1 .. Len(l) : l[j] = l[i]}
            left == [j \in S |-> Len(l) - j]
            Ends(j) == l[j] = l[i] /\ \A k \in 1 .. Len(l) : l[k] = l[i] => k <= j
<1>1. S # {} /\ \A j \in S : left[j] \in Nat
  OBVIOUS
<1>2. PICK j \in S : \A k \in S : left[j] <= left[k]
  <2>. HIDE DEF S, left
  <2>. QED  BY <1>1, HasLeast
<1>3. \A k \in S : k <= j
  <2>1. ASSUME NEW k \in S PROVE k <= j
    <3>1. left[j] = Len(l) - j /\ left[k] = Len(l) - k /\ left[j] <= left[k]
      BY <1>2
    <3>2. j \in Nat /\ k \in Nat /\ Len(l) \in Nat
      OBVIOUS
    <3>. HIDE DEF S, left
    <3>. QED  BY <3>1, <3>2
  <2>. QED  BY <2>1
<1>4. j \in 1 .. Len(l) /\ Ends(j)
  BY <1>3
<1>5. Last(l, l[i]) = CHOOSE k \in 1 .. Len(l) : Ends(k)
  BY DEF Last
<1>6. Last(l, l[i]) \in 1 .. Len(l) /\ Ends(Last(l, l[i]))
  <2>. HIDE DEF Ends
  <2>. QED  BY <1>4, <1>5
<1>. QED  BY <1>6

\* A unit's advice, when it is given any.
For(l, s, i) ==
  [plant |-> l[i], current |-> s[i].set, proposed |-> Proposed(s[i], Target(l, s)),
   benchmark |-> l[Best(s)], gap |-> Gap(s[i], Target(l, s))]

LEMMA AdviceIs ==
  ASSUME NEW l, NEW s
  PROVE  BuildStructuredAdvice(l, s) = {For(l, s, i) : i \in {j \in 1 .. Len(s) : Advised(l, s, j)}}
BY DEF BuildStructuredAdvice, For

LEMMA ForOK ==
  ASSUME NEW l \in Lists, NEW s, StatesOK(s), Len(s) = Len(l),
         NEW i \in 1 .. Len(s), Advised(l, s, i)
  PROVE  /\ For(l, s, i) \in Advices
         /\ Inside(For(l, s, i).proposed)
         /\ MovesOneWay(For(l, s, i))
         /\ StopsAt(For(l, s, i), s[Last(l, For(l, s, i).benchmark)].set)
         /\ (\A j \in 1 .. Len(l) : l[j] = l[i] => j = i)
              => For(l, s, i).benchmark # For(l, s, i).plant
         /\ Last(l, l[i]) = i /\ Last(l, l[Best(s)]) = Best(s) => For(l, s, i).gap > 0
<1>1. /\ l \in Seq(Plants) /\ Len(l) \in Nat
      /\ \A a \in 1 .. Len(l) : l[a] \in Plants
  BY AdviceAssumption
<1>2. PICK best, last : best = Best(s) /\ last = Last(l, l[best])
  OBVIOUS
<1>3. best \in 1 .. Len(s) /\ Median(s) <= s[best].efficiency /\ Median(s) \in Nat
  BY <1>2, BestIsBest
<1>4. last \in 1 .. Len(s) /\ l[last] = l[best] /\ Target(l, s) = s[last]
  BY <1>1, <1>2, <1>3, LastFacts DEF Target
<1>5. /\ s[i].set \in Settings /\ s[last].set \in Settings
      /\ s[i].intensity \in Int /\ s[last].intensity \in Int
      /\ s[i].efficiency \in Nat /\ s[best].efficiency \in Nat
      /\ s[i].efficiency = Efficiency(s[i].intensity)
      /\ s[last].efficiency = Efficiency(s[last].intensity)
  BY <1>3, <1>4, StateFacts
<1>6. Gap(s[i], s[last]) \in Int
  BY <1>5 DEF Gap
<1>7. PICK a : a = For(l, s, i)
  OBVIOUS
<1>8. /\ a = [plant |-> l[i], current |-> s[i].set, proposed |-> Proposed(s[i], s[last]),
              benchmark |-> l[best], gap |-> Gap(s[i], s[last])]
      /\ a.plant = l[i] /\ a.current = s[i].set /\ a.proposed = Proposed(s[i], s[last])
      /\ a.benchmark = l[best] /\ a.gap = Gap(s[i], s[last])
  BY <1>2, <1>4, <1>7 DEF For
<1>9. Proposed(s[i], s[last]) \in [Knobs -> Int] /\ Inside(Proposed(s[i], s[last]))
  BY <1>5, ProposedFacts
<1>10. a \in Advices
  BY <1>1, <1>3, <1>5, <1>6, <1>8, <1>9 DEF Advices
<1>11. MovesOneWay(a)
  <2>1. CASE Inside(s[i].set)
    BY <1>4, <1>5, <1>8, <2>1, ProposedOneWay DEF Advised
  <2>2. CASE ~Inside(s[i].set)
    BY <1>8, <2>2 DEF MovesOneWay
  <2>. QED  BY <2>1, <2>2
<1>12. StopsAt(a, s[Last(l, a.benchmark)].set)
  BY <1>2, <1>5, <1>8, ProposedStops
<1>13. ASSUME Last(l, l[i]) = i PROVE s[i].efficiency < s[best].efficiency
  BY <1>3, <1>5, <1>13 DEF Advised, Low
<1>14. ASSUME \A j \in 1 .. Len(l) : l[j] = l[i] => j = i PROVE a.benchmark # a.plant
  <2>1. Last(l, l[i]) = i
    BY <1>1, <1>14, LastFacts
  <2>2. best # i
    BY <1>5, <1>13, <2>1
  <2>. QED  BY <1>3, <1>8, <1>14, <2>2
<1>15. ASSUME Last(l, l[i]) = i, Last(l, l[Best(s)]) = Best(s) PROVE a.gap > 0
  <2>1. s[i].efficiency < s[last].efficiency
    BY <1>2, <1>13, <1>15
  <2>2. s[last].intensity < s[i].intensity
    BY <1>5, <2>1, LessEfficient
  <2>. QED  BY <1>5, <1>8, <2>2 DEF Gap
<1>. QED  BY <1>7, <1>8, <1>9, <1>10, <1>11, <1>12, <1>14, <1>15

-----------------------------------------------------------------------------
(* The inductive invariant.                                                *)

\* Once they are loaded the states are those of units, and the advice is what they ask for.
Inv ==
  /\ TypeOK
  /\ phase # "idle" /\ states # <<>> => StatesOK(states)
  /\ phase = "done" => states # <<>>
  /\ advice = IF phase = "done" THEN BuildStructuredAdvice(list, states) ELSE {}

LEMMA LoadStatesOK ==
  ASSUME NEW l \in Lists, NEW readings \in [Plants -> Readings \cup Fallbacks]
  PROVE  /\ LoadUnitStates(l, readings) \in Seq(UnitStates)
         /\ LoadUnitStates(l, readings) # <<>> => StatesOK(LoadUnitStates(l, readings))
         /\ Len(LoadUnitStates(l, readings)) = Len(l)
<1>1. PICK s : s = LoadUnitStates(l, readings)
  OBVIOUS
<1>2. s \in Seq(UnitStates) /\ Len(s) = Len(l) /\ \A i \in 1 .. Len(l) : UnitOK(s[i])
  BY <1>1, LoadOK
<1>3. s # <<>> => Len(s) > 0
  BY <1>2
<1>. QED  BY <1>1, <1>2, <1>3 DEF StatesOK

LEMMA InitInv == Init => Inv
BY DEF Init, Inv, TypeOK

LEMMA StepInv == Inv /\ [Next]_vars => Inv'
<1>. SUFFICES ASSUME Inv, [Next]_vars PROVE Inv'
  OBVIOUS
<1>0. TypeOK
  BY DEF Inv
<1>1. ASSUME NEW readings \in [Plants -> Readings \cup Fallbacks],
             states' = LoadUnitStates(list, readings), phase' \in {"loaded", "reloaded"},
             phase # "done", UNCHANGED <<shown, bare, list, advice>>
      PROVE  Inv'
  <2>1. list \in Lists
    BY <1>0 DEF TypeOK
  <2>2. /\ states' \in Seq(UnitStates) /\ Len(states') = Len(list)
        /\ states' # <<>> => StatesOK(states)'
    BY <1>1, <2>1, LoadStatesOK DEF StatesOK
  <2>3. advice' = {}
    BY <1>1 DEF Inv
  <2>4. TypeOK'
    BY <1>0, <1>1, <2>2, <2>3 DEF TypeOK
  <2>. QED  BY <1>1, <2>2, <2>3, <2>4 DEF Inv
<1>2. CASE Load
  <2>1. shown \in [Plants -> Readings \cup Fallbacks]
    BY <1>0 DEF TypeOK
  <2>. QED  BY <1>1, <1>2, <2>1 DEF Load
<1>3. CASE Reload
  <2>1. bare \in [Plants -> Readings \cup Fallbacks]
    BY <1>0 DEF TypeOK
  <2>. QED  BY <1>1, <1>3, <2>1 DEF Reload
<1>4. CASE Advise
  <2>1. /\ advice' = BuildStructuredAdvice(list, states) /\ phase' = "done" /\ phase # "idle"
        /\ shown' = shown /\ bare' = bare /\ list' = list /\ states' = states
        /\ states # <<>>
    BY <1>4 DEF Advise, Loaded
  <2>2. list \in Lists /\ StatesOK(states) /\ Len(states) = Len(list)
    BY <1>0, <2>1 DEF Inv, TypeOK
  <2>3. ASSUME NEW a \in advice'
        PROVE  a \in Advices /\ \E i \in 1 .. Len(list) : a.plant = list[i]
    <3>1. PICK i \in 1 .. Len(states) : Advised(list, states, i) /\ a = For(list, states, i)
      BY <2>1, AdviceIs
    <3>2. a.plant = list[i]
      BY <3>1 DEF For
    <3>. QED  BY <2>2, <3>1, <3>2, ForOK
  <2>4. TypeOK'
    BY <1>0, <2>1, <2>2, <2>3 DEF TypeOK
  <2>. QED  BY <2>1, <2>2, <2>4 DEF Inv, StatesOK
<1>5. CASE NoUnits
  <2>1. /\ phase # "idle" /\ phase # "done" /\ phase' = "failed" /\ states = <<>>
        /\ UNCHANGED <<shown, bare, list, states, advice>>
    BY <1>5 DEF NoUnits, Loaded
  <2>2. TypeOK'
    BY <1>0, <2>1 DEF TypeOK
  <2>. QED  BY <2>1, <2>2 DEF Inv, StatesOK
<1>6. CASE UNCHANGED vars
  BY <1>6 DEF Inv, TypeOK, StatesOK, vars
<1>. QED  BY <1>2, <1>3, <1>4, <1>5, <1>6 DEF Next

THEOREM Invariance == Spec => []Inv
<1>. QED  BY InitInv, StepInv, PTL DEF Spec

\* Unit states and advice keep their types: a reading without tags, or with zeros, still gives
\* a unit its settings, and a nudged one whole numbers.
THEOREM TypeCorrect == Spec => []TypeOK
<1>1. Inv => TypeOK
  BY DEF Inv
<1>. QED  BY <1>1, Invariance, PTL

\* A code listed once is its own last.
LEMMA OnceIsLast ==
  ASSUME list \in Seq(Plants), NEW i \in 1 .. Len(list), Once(list[i])
  PROVE  Last(list, list[i]) = i
BY LastFacts DEF Once

\* Advice only saves, for any list: it keeps the envelope, moves a unit one way, trims toward
\* the state kept of the benchmark; that is another unit, and a better one, unless a code is
\* repeated.
THEOREM AdviceSaves == Spec => []AdviceOnlySaves
<1>1. ASSUME Inv PROVE AdviceOnlySaves
  <2>1. ASSUME NEW a \in advice
        PROVE  /\ Inside(a.proposed) /\ MovesOneWay(a)
               /\ StopsAt(a, states[Last(list, a.benchmark)].set)
               /\ Once(a.plant) => a.benchmark # a.plant
               /\ Once(a.plant) /\ Once(a.benchmark) => a.gap > 0
    <3>1. phase = "done" /\ a \in BuildStructuredAdvice(list, states)
      BY <1>1 DEF Inv
    <3>2. /\ list \in Lists /\ list \in Seq(Plants)
          /\ StatesOK(states) /\ Len(states) = Len(list)
      BY <1>1, <3>1, AdviceAssumption DEF Inv, TypeOK
    <3>3. PICK i \in 1 .. Len(states) : Advised(list, states, i) /\ a = For(list, states, i)
      BY <3>1, AdviceIs
    <3>4. a.plant = list[i] /\ a.benchmark = list[Best(states)]
      BY <3>3 DEF For
    <3>5. Once(a.plant) => Last(list, list[i]) = i
      BY <3>2, <3>4, OnceIsLast
    <3>6. Once(a.benchmark) => Last(list, list[Best(states)]) = Best(states)
      <4>1. Best(states) \in 1 .. Len(list)
        BY <3>2, BestIsBest
      <4>. QED  BY <3>2, <3>4, <4>1, OnceIsLast
    <3>7. Once(a.plant) => \A j \in 1 .. Len(list) : list[j] = list[i] => j = i
      BY <3>2, <3>4 DEF Once
    <3>. QED  BY <3>2, <3>3, <3>5, <3>6, <3>7, ForOK
  <2>. QED  BY <2>1 DEF AdviceOnlySaves
<1>. QED  BY <1>1, Invariance, PTL

\* Who is advised, for any list: the units whose last state is no better than half of it,
\* where something would change.
THEOREM WorseAdvised == Spec => []AdvisedAreTheWorse
<1>1. ASSUME Inv, phase = "done", NEW i \in 1 .. Len(list)
      PROVE  (\E a \in advice : a.plant = list[i]) <=>
               /\ 2 * Cardinality(NoBetter(states, Last(list, list[i]))) <= Len(list)
               /\ \E j \in 1 .. Len(list) :
                    /\ list[j] = list[i]
                    /\ Changes(states[j].set, Proposed(states[j], Target(list, states)))
  <2>1. /\ list \in Lists /\ list \in Seq(Plants)
        /\ StatesOK(states) /\ Len(states) = Len(list)
    BY <1>1, AdviceAssumption DEF Inv, TypeOK
  <2>2. advice = {For(list, states, j) : j \in {k \in 1 .. Len(states) : Advised(list, states, k)}}
    BY <1>1, AdviceIs DEF Inv
  <2>3. \A j \in 1 .. Len(list) : For(list, states, j).plant = list[j]
    BY DEF For
  <2>4. (\E a \in advice : a.plant = list[i])
          <=> \E j \in 1 .. Len(list) : list[j] = list[i] /\ Advised(list, states, j)
    BY <2>1, <2>2, <2>3
  <2>5. PICK last : last = Last(list, list[i])
    OBVIOUS
  <2>6. last \in 1 .. Len(states)
    BY <2>1, <2>5, LastFacts
  <2>7. Low(states, last) <=> 2 * Cardinality(NoBetter(states, last)) <= Len(list)
    BY <2>1, <2>6, LowIsWorseHalf
  <2>. QED  BY <2>4, <2>5, <2>7 DEF Advised
<1>2. ASSUME Inv PROVE AdvisedAreTheWorse
  <2>1. ASSUME phase = "done", NEW i \in 1 .. Len(list)
        PROVE  NoBetter(states, Last(list, list[i]))
                 = {j \in 1 .. Len(list) :
                      states[j].efficiency <= states[Last(list, list[i])].efficiency}
    BY <1>2, <2>1 DEF NoBetter, Inv, TypeOK
  <2>. QED  BY <1>1, <1>2, <2>1 DEF AdvisedAreTheWorse
<1>. QED  BY <1>2, Invariance, PTL
=============================================================================
