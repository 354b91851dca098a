------------------------- MODULE MCRecommendations -------------------------
(***************************************************************************)
(* Instances of Recommendations for TLC: one plant, olefin, for which four *)
(* fields are proposed.  temp and feed are allowlisted and have a writable *)
(* tag; press is allowlisted, its tag is read-only; steam is the converse. *)
(***************************************************************************)
EXTENDS Recommendations, TLC

CONSTANTS r1, h1, h2, temp, feed, press, steam

MCFields == {temp, feed, press, steam}
MCPlants == {"olefin"}
Olefin   == [r \in Recs |-> "olefin"]

Tagged   == [olefin |-> {temp, feed, steam}]
Started(rs, we, ep, map) ==
  [requireSim |-> rs, writeEnabled |-> we, endpoint |-> ep,
   allowed |-> {temp, feed, press}, tags |-> map]

\* Every combination of the switches, a plant missing from the tag map, and a plant
\* with no writable tag.
AllConfigs ==
  {Started(rs, we, ep, Tagged) : rs, we, ep \in BOOLEAN}
    \cup {Started(TRUE, TRUE, TRUE, <<>>), Started(TRUE, TRUE, TRUE, [olefin |-> {steam}])}
=============================================================================
