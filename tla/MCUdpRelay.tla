----------------------------- MODULE MCUdpRelay ------------------------------
(* A small instance of UdpRelay: the peers ask a host that both use, and    *)
(* one of them another host, whose answer the other peer must not be given. *)
EXTENDS UdpRelay

CONSTANTS p1, p2, h1, h2

SomeHosts == asked \subseteq {<<p1, h1>>, <<p2, h1>>, <<p2, h2>>}
==============================================================================
