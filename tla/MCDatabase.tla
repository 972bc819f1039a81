----------------------------- MODULE MCDatabase -----------------------------
(* A small instance of Database: two services, one table.                  *)
EXTENDS Database, TLC
CONSTANTS a, b

Symmetry == Permutations(Services)
=============================================================================
