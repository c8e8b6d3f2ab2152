----------------------------- MODULE MCClientUdp ------------------------------
(* A small instance of ClientUdp: each program asks a host of its own, which *)
(* is enough for an answer to reach a program that did not ask for it.       *)
EXTENDS ClientUdp

CONSTANTS p1, p2, h1, h2

OwnHost == asked \subseteq {<<p1, h1>>, <<p2, h2>>}
===============================================================================
