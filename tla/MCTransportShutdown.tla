------------------------ MODULE MCTransportShutdown ------------------------
(* TransportShutdown for TLC: the first transport has two listeners, so    *)
(* that its Drop goes on after the first one, the second has one.          *)
EXTENDS TransportShutdown

CONSTANTS t1, t2, c1, c2

TwoAndOne == {<<t1, c1>>, <<t1, c2>>, <<t2, c1>>}
=============================================================================
