------------------------------ MODULE MCRegistry ------------------------------
(***************************************************************************)
(* Instances of ModelRegistry for TLC.                                     *)
(***************************************************************************)
EXTENDS ModelRegistry

CONSTANTS trainer, api, v1, v2, v3

Demo(logged)    == [trusted |-> FALSE, mlflow |-> logged, synthetic |-> TRUE]
Trusted(logged) == [trusted |-> TRUE, mlflow |-> logged, synthetic |-> TRUE]

Deployments == {Demo(TRUE), Trusted(TRUE)}
PlantOnly   == {Trusted(TRUE)}
=============================================================================
