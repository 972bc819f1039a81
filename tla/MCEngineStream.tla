--------------------------- MODULE MCEngineStream ---------------------------
(* A small instance of EngineStream: a unit whose replacement is routine   *)
(* and one whose deletion is not.                                          *)
EXTENDS EngineStream
CONSTANTS secrets, unit

PlannedOps == [r \in {secrets, unit} |-> IF r = unit THEN "delete" ELSE "delete-replaced"]
=============================================================================
