------------------------ MODULE MCHandlerRegistry ------------------------
(* HandlerRegistry for TLC: model values, and the symmetry of the sets no  *)
(* definition tells the members of apart.                                  *)
EXTENDS HandlerRegistry, TLC

Symmetry ==
    Permutations(Ids) \cup Permutations(Transports) \cup Permutations(Configs)
        \cup Permutations(Callers)
=============================================================================
