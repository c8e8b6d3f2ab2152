------------------------------ MODULE UdpRelay -------------------------------
(***************************************************************************)
(* The packet loops of udp.go: udpLocal, udpSocksLocal and udpRemote.  The *)
(* three have the same control: read a datagram from the listening socket, *)
(* look the source up in the table, open and add a session if there is     *)
(* none, write through the session's socket, start again.  Between the     *)
(* look-up and the write the loop holds no lock, and the session it found  *)
(* may end.                                                                *)
(*                                                                         *)
(* What goes wrong with a single datagram (a read error, an address that   *)
(* does not parse or resolve) makes the loop start again with nothing      *)
(* changed: a stuttering step here.  One thing ends the program instead:   *)
(* udpSocksLocal cuts the first three bytes off a datagram that may have   *)
(* fewer.                                                                  *)
(***************************************************************************)
EXTENDS NatMap

VARIABLES
    loop,   \* where the packet loop stands ("ended": with the program)
    peer,   \* raddr, the source of the datagram in hand
    host,   \* the far end the datagram in hand is meant for
    pc,     \* the session's socket, once known
    asked   \* history: pairs <<p, h>> such that p sent a datagram meant for h

loopVars == <<loop, peer, host, pc, asked>>
vars     == <<natVars, loopVars>>

Init ==
    /\ NatInit
    /\ loop = "read"
    /\ peer = None
    /\ host = None
    /\ pc = None
    /\ asked = {}

\* n, raddr, err := c.ReadFrom(buf), and the target in the datagram is good.
Receive(p, h) ==
    /\ loop = "read"
    /\ loop' = "lookup"
    /\ peer' = p
    /\ host' = h
    /\ asked' = asked \cup {<<p, h>>}
    /\ UNCHANGED <<natVars, pc>>

\* Mutant: pc survives from one datagram to the next and is used while open.
LookupHit_ReusesSocket ==
    /\ loop = "lookup"
    /\ IF pc # None THEN UNCHANGED pc
                    ELSE nat[peer] # None /\ pc' = nat[peer]
    /\ loop' = "send"
    /\ UNCHANGED <<natVars, peer, host, asked>>

\* pc := nm.Get(raddr.String()) finds a session.
LookupHit ==
    /\ loop = "lookup"
    /\ nat[peer] # None
    /\ pc' = nat[peer]
    /\ loop' = "send"
    /\ UNCHANGED <<natVars, peer, host, asked>>

\* Mutant: a session is opened without asking the table first.
OpenSession_WithoutLookup(s) ==
    /\ loop = "lookup"
    /\ Add(peer, s)
    /\ pc' = s
    /\ loop' = "send"
    /\ UNCHANGED <<trafficVars, peer, host, asked>>

\* nm.Get finds none; net.ListenPacket gives socket s and nm.Add enters it.
OpenSession(s) ==
    /\ loop = "lookup"
    /\ nat[peer] = None
    /\ Add(peer, s)
    /\ pc' = s
    /\ loop' = "send"
    /\ UNCHANGED <<trafficVars, peer, host, asked>>

\* nm.Get finds none and net.ListenPacket fails: the datagram is dropped.
OpenFails ==
    /\ loop = "lookup"
    /\ nat[peer] = None
    /\ loop' = "read"
    /\ UNCHANGED <<natVars, peer, host, pc, asked>>

\* pc.WriteTo(payload, address).
Write ==
    /\ loop = "send"
    /\ Transmit(pc, host)
    /\ loop' = "read"
    /\ UNCHANGED <<sessionVars, peer, host, pc, asked>>

\* pc.WriteTo fails, as it must once the socket is closed: datagram dropped.
WriteFails ==
    /\ loop = "send"
    /\ loop' = "read"
    /\ UNCHANGED <<natVars, peer, host, pc, asked>>

\* buf[3:n] with n < 3, in udpSocksLocal: the slice is out of range, and nothing
\* recovers from the panic.
WritePanics ==
    /\ loop = "send"
    /\ loop' = "ended"
    /\ UNCHANGED <<natVars, peer, host, pc, asked>>

Loop ==
    \/ LookupHit
    \/ \E s \in Sockets : OpenSession(s)
    \/ OpenFails
    \/ Write
    \/ WriteFails
    \/ WritePanics

\* The goroutines end with the program.
Others == loop # "ended" /\ UNCHANGED loopVars

Next ==
    \/ \E p \in Peers, h \in Hosts : Receive(p, h)
    \/ Loop
    \/ \E s \in Sockets : Copier(s) /\ Others
    \/ \E s \in Sockets, h \in Hosts : Arrive(s, h) /\ Others

\* The Go scheduler runs every runnable goroutine, and a read deadline that has
\* been set passes.  Peers and hosts may fall silent.
Fairness ==
    /\ WF_vars(Loop)
    /\ \A s \in Sockets : WF_vars(Copier(s) /\ Others)

Spec == Init /\ [][Next]_vars /\ Fairness

----------------------------------------------------------------------------
TypeOK ==
    /\ NatTypeOK
    /\ loop \in {"read", "lookup", "send", "ended"}
    /\ peer \in Peers \cup {None}
    /\ host \in Hosts \cup {None}
    /\ pc \in Sockets \cup {None}
    /\ asked \subseteq Peers \X Hosts
    /\ loop \in {"lookup", "send"} => peer \in Peers /\ host \in Hosts
    /\ loop = "send" => pc \in Sockets

\* A session serves one peer for its whole life: whatever left its socket was
\* asked for by the peer it was opened for, whichever sessions of this and of
\* other peers ended or began between the loop's look-up and its write.  What
\* comes back on the socket can then be handed to that peer unseen.
SessionsArePrivate ==
    \A s \in Sockets, h \in Hosts : <<s, h>> \in sent => <<owner[s], h>> \in asked

\* The session found by the look-up may be over by the time the loop writes.
\* Then the table no longer lists it, because timedCopy's caller runs Del
\* before Close: the datagram in hand is lost, but the peer's next datagram
\* opens a new session.  In the opposite order the peer could be sent to a
\* dead socket again and again.
StaleSocketIsUnlisted ==
    loop = "send" /\ sock[pc] = "closed" => nat[peer] = None

\* A session that is not answered any more ends: whenever a socket is open,
\* another answer comes or it is eventually closed, unless the program ends.
\* timedCopy sets a deadline before it reads, and nothing else wakes it.
IdleSessionEnds ==
    \A s \in Sockets :
        sock[s] = "open" ~> sock[s] = "closed" \/ inbox[s] # {} \/ loop = "ended"

\* The packet loop serves the peers as the datagram service describes.
Service == INSTANCE DatagramService
ImplementsService == Service!Spec
==============================================================================
