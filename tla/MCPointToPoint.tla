-------------------------- MODULE MCPointToPoint --------------------------
(* PointToPoint for TLC: two services in the configuration file.           *)
EXTENDS PointToPoint, TLC

MCServices == <<"first", "second">>

Symmetry == Permutations(Ids) \cup Permutations(Callers) \cup Permutations(Methods)
=============================================================================
