--------------------------- MODULE DatagramService ---------------------------
(***************************************************************************)
(* What a UDP relay promises to the programs that use it: a best-effort    *)
(* datagram service.  A peer asks a host by sending it a datagram through  *)
(* the relay; what the host answers may be delivered to that peer, any     *)
(* number of times or never, and a peer is never given the answer of a     *)
(* host it did not ask.                                                    *)
(***************************************************************************)
CONSTANTS
    Peers,  \* the programs behind the relay, named by their source address
    Hosts   \* the hosts they exchange datagrams with

VARIABLES
    asked,     \* the pairs <<p, h>> such that peer p sent a datagram to host h
    delivered  \* the pairs <<p, h>> such that peer p was given an answer of h

vars == <<asked, delivered>>

Init ==
    /\ asked = {}
    /\ delivered = {}

Ask(p, h) ==
    /\ asked' = asked \cup {<<p, h>>}
    /\ UNCHANGED delivered

Deliver(p, h) ==
    /\ <<p, h>> \in asked
    /\ delivered' = delivered \cup {<<p, h>>}
    /\ UNCHANGED asked

Next == \E p \in Peers, h \in Hosts : Ask(p, h) \/ Deliver(p, h)

Spec == Init /\ [][Next]_vars
==============================================================================
