------------------------- MODULE MCRpcCorrelation -------------------------
(* RpcCorrelation for TLC.                                                 *)
EXTENDS RpcCorrelation, TLC

(* A success said in either way, a code that shares its return code and    *)
(* one that has none.                                                      *)
SomeStatuses == {NoStatus, "OK", "UNAVAILABLE", "ABORTED"}
NoStatusOnly == {NoStatus}

Symmetry == Permutations(ReqIds) \cup Permutations(ServerReqIds) \cup Permutations(Clients)
=============================================================================
