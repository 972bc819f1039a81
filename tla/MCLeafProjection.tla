-------------------------- MODULE MCLeafProjection --------------------------
(* A small instance of LeafProjection: one certificate with its key from
   leaf.age and one granted file from secrets.age. *)
EXTENDS LeafProjection
CONSTANTS p1

EnvOrder == <<"crt", "grant", "key">>
LeafFiles == <<"crt", "key">>
LeafPair == {<<"crt", "key">>}
=============================================================================
