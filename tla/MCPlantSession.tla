--------------------------- MODULE MCPlantSession ---------------------------
(***************************************************************************)
(* Instances of PlantSession for TLC.                                      *)
(***************************************************************************)
EXTENDS PlantSession

OnePlant  == {"olefin"}
TwoFields == {"power", "steam"}
AllMapped == OnePlant \X TwoFields

Settings(mode, endpoint, subscribe, uncertain) ==
  [mode |-> mode, endpoint |-> endpoint, subscribe |-> subscribe, uncertain |-> uncertain]

Deployments ==
  {Settings("connect", TRUE, TRUE, TRUE), Settings("opcua", TRUE, FALSE, FALSE),
   Settings("connect", FALSE, TRUE, TRUE), Settings("simulator", TRUE, TRUE, TRUE)}

Holds(value, status) == [value |-> value, status |-> status]

\* The power tag turns null while its status is good, the steam tag turns into a text.
NodeContent ==
  [t \in AllMapped |->
     IF t[2] = "power" THEN <<Holds("number", "uncertain"), Holds("null", "good")>>
                       ELSE <<Holds("number", "good"), Holds("text", "good")>>]
=============================================================================
