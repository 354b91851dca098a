----------------------------- MODULE MCIngestion -----------------------------
(***************************************************************************)
(* Instances of IngestionPipeline for TLC.                                 *)
(***************************************************************************)
EXTENDS IngestionPipeline

CONSTANTS consumer, api

OnePlants == {"olefin"}
OneOrder  == <<"olefin">>
TwoPlants == {"olefin", "pta"}
TwoOrder  == <<"olefin", "pta">>
=============================================================================
