--------------------------- MODULE MCAppStartup ---------------------------
(* AppStartup for TLC.                                                     *)
EXTENDS AppStartup, TLC

Symmetry == Permutations(HandlerIds) \cup Permutations(Transports) \cup Permutations(Names)
=============================================================================
