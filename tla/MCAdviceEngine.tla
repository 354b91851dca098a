--------------------------- MODULE MCAdviceEngine ---------------------------
(***************************************************************************)
(* Instances of AdviceEngine for TLC.                                      *)
(***************************************************************************)
EXTENDS AdviceEngine

ThreePlants == {"olefin", "pta", "utility"}
MCLists == {<<"olefin">>, <<"olefin", "pta">>, <<"pta", "olefin">>,
            <<"utility", "pta", "olefin">>,
            <<"olefin", "olefin">>, <<"olefin", "pta", "olefin">>, <<>>}

At(temp, feed, fuel, steam) ==
  [k \in Knobs |-> CASE k = "temp" -> 100 * temp [] k = "feed" -> 100 * feed
                     [] k = "fuel" -> 100 * fuel [] k = "steam" -> 100 * steam]

Measured(s) == [set |-> s, kpi |-> Intensity(s)]

\* The design point (whose intensity is at its ceiling), two better ones, one near the
\* ends of the envelope, one without fuel, one whose tags are partly missing, one outside
\* it, one that burns more than the envelope allows.
MCReadings ==
  {Measured(At(400, 100, 100, 30)), Measured(At(390, 100, 60, 20)), Measured(At(391, 99, 61, 20)),
   Measured(At(382, 118, 52, 12)), Measured(At(400, 100, 0, 10)),
   [set |-> At(0, 100, 60, 20), kpi |-> 0], Measured(At(430, 60, 40, 8)),
   Measured(At(300, 100, 160, 8))}
MCFallbacks ==
  {Measured(At(400, 100, 100, 30)), Measured(At(385, 95, 70, 16)), Measured(At(390, 100, 60, 20))}
=============================================================================
