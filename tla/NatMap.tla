------------------------------- MODULE NatMap --------------------------------
(***************************************************************************)
(* natmap, the table of UDP sessions, and the goroutine that natmap.Add    *)
(* starts for each session (timedCopy, then Del, then Close).              *)
(*                                                                         *)
(* A session belongs to one peer, the source address that is the table's   *)
(* key, and to one socket, through which the peer's datagrams leave and    *)
(* the answers come back.  Every Get, Set and Del holds the table's        *)
(* RWMutex for its whole duration, so each is part of one atomic step.     *)
(* The packet loops that call Get and Add are in the modules that extend   *)
(* this one.                                                               *)
(*                                                                         *)
(* A socket is one net.PacketConn value: the model never hands out the     *)
(* same one twice.  A datagram is reduced to the host at its far end.  The *)
(* framing (the SOCKS address in front, the cipher) does not decide where  *)
(* a datagram goes, but it can make a read or a write fail, and these      *)
(* failures are kept.                                                      *)
(***************************************************************************)
CONSTANTS
    Peers,    \* source addresses, the keys of the table
    Hosts,    \* far ends: targets, or the addresses named in the SOCKS header
    Sockets,  \* the sockets that can be opened
    None      \* the nil of the code

ASSUME NoneAssumption == None \notin Peers \cup Hosts \cup Sockets

VARIABLES
    nat,       \* natmap.m, with None for an absent key
    owner,     \* the peer bound in the closure of the socket's goroutine
    sock,      \* the state of each socket
    copier,    \* where the goroutine of each socket stands
    timed,     \* the sockets on which a read deadline has been set
    victim,    \* the socket that the goroutine's Del returned
    inbox,     \* datagrams the kernel holds for each socket
    reply,     \* the datagram the goroutine has read and not yet written
    sent,      \* pairs <<s, h>>: a datagram left socket s for host h
    delivered  \* pairs <<p, h>>: peer p was sent an answer of host h

sessionVars == <<nat, owner, sock, copier, timed, victim>>
trafficVars == <<inbox, reply, sent, delivered>>
natVars     == <<sessionVars, trafficVars>>

NatInit ==
    /\ nat = [p \in Peers |-> None]
    /\ owner = [s \in Sockets |-> None]
    /\ sock = [s \in Sockets |-> "unbound"]
    /\ copier = [s \in Sockets |-> "none"]
    /\ timed = {}
    /\ victim = [s \in Sockets |-> None]
    /\ inbox = [s \in Sockets |-> {}]
    /\ reply = [s \in Sockets |-> None]
    /\ sent = {}
    /\ delivered = {}

NatTypeOK ==
    /\ nat \in [Peers -> Sockets \cup {None}]
    /\ owner \in [Sockets -> Peers \cup {None}]
    /\ sock \in [Sockets -> {"unbound", "open", "closed"}]
    /\ copier \in [Sockets -> {"none", "read", "write", "del", "close", "done"}]
    /\ timed \subseteq Sockets
    /\ victim \in [Sockets -> Sockets \cup {None}]
    /\ inbox \in [Sockets -> SUBSET Hosts]
    /\ reply \in [Sockets -> Hosts \cup {None}]
    /\ sent \subseteq Sockets \X Hosts
    /\ delivered \subseteq Peers \X Hosts

----------------------------------------------------------------------------
(* What the packet loops do to the table and the sockets. *)

\* Mutant: the goroutines share the loop's variable raddr instead of each
\* having the peer that it was started with.
Add_SharedPeer(p, s) ==
    /\ sock[s] = "unbound"
    /\ sock' = [sock EXCEPT ![s] = "open"]
    /\ nat' = [nat EXCEPT ![p] = s]
    /\ owner' = [t \in Sockets |-> IF t = s \/ owner[t] # None THEN p ELSE None]
    /\ copier' = [copier EXCEPT ![s] = "read"]
    /\ timed' = timed \cup {s}
    /\ UNCHANGED victim

\* Mutant: the goroutine reads without a deadline.
Add_NoDeadline(p, s) ==
    /\ sock[s] = "unbound"
    /\ sock' = [sock EXCEPT ![s] = "open"]
    /\ nat' = [nat EXCEPT ![p] = s]
    /\ owner' = [owner EXCEPT ![s] = p]
    /\ copier' = [copier EXCEPT ![s] = "read"]
    /\ UNCHANGED <<timed, victim>>

\* net.ListenPacket("udp", "") gave socket s; natmap.Add(peer, dst, s, role)
\* enters it in the table and starts its goroutine.  Only the packet loop adds
\* sessions, and no goroutine of the new session runs before Add: one step.
\* The goroutine's first SetReadDeadline, which nobody else sees, is part of it.
Add(p, s) ==
    /\ sock[s] = "unbound"
    /\ sock' = [sock EXCEPT ![s] = "open"]
    /\ nat' = [nat EXCEPT ![p] = s]
    /\ owner' = [owner EXCEPT ![s] = p]
    /\ copier' = [copier EXCEPT ![s] = "read"]
    /\ timed' = timed \cup {s}
    /\ UNCHANGED victim

\* pc.WriteTo succeeded on socket s.
Transmit(s, h) ==
    /\ sock[s] = "open"
    /\ sent' = sent \cup {<<s, h>>}
    /\ UNCHANGED <<inbox, reply, delivered>>

----------------------------------------------------------------------------
(* The goroutine of socket s. *)

\* src.ReadFrom returns a datagram.
ReadReply(s) ==
    /\ copier[s] = "read"
    /\ \E h \in inbox[s] :
         /\ reply' = [reply EXCEPT ![s] = h]
         /\ inbox' = [inbox EXCEPT ![s] = @ \ {h}]
    /\ copier' = [copier EXCEPT ![s] = "write"]
    /\ UNCHANGED <<nat, owner, sock, timed, victim, sent, delivered>>

\* src.ReadFrom fails: the deadline has passed, or a datagram could not be
\* decrypted.  timedCopy returns on the first error.
ReadFails(s) ==
    /\ copier[s] = "read"
    /\ s \in timed \/ inbox[s] # {}
    /\ copier' = [copier EXCEPT ![s] = "del"]
    /\ UNCHANGED <<nat, owner, sock, timed, victim, trafficVars>>

\* dst.WriteTo(..., target): target is the peer given to Add.  The next read has
\* its deadline set anew.
WriteBack(s) ==
    /\ copier[s] = "write"
    /\ delivered' = delivered \cup {<<owner[s], reply[s]>>}
    /\ reply' = [reply EXCEPT ![s] = None]
    /\ copier' = [copier EXCEPT ![s] = "read"]
    /\ UNCHANGED <<nat, owner, sock, timed, victim, inbox, sent>>

\* dst.WriteTo fails, for instance because the datagram does not fit in the
\* cipher's buffer: timedCopy returns and the session ends.
WriteBackFails(s) ==
    /\ copier[s] = "write"
    /\ reply' = [reply EXCEPT ![s] = None]
    /\ copier' = [copier EXCEPT ![s] = "del"]
    /\ UNCHANGED <<nat, owner, sock, timed, victim, inbox, sent, delivered>>

\* Mutant: the socket is closed first, the entry is removed afterwards.
DelEntry_CloseFirst(s) ==
    /\ copier[s] = "del"
    /\ IF sock[s] = "open"
         THEN /\ sock' = [sock EXCEPT ![s] = "closed"]
              /\ UNCHANGED <<nat, copier, victim>>
         ELSE /\ victim' = [victim EXCEPT ![s] = nat[owner[s]]]
              /\ nat' = [nat EXCEPT ![owner[s]] = None]
              /\ copier' = [copier EXCEPT ![s] = "done"]
              /\ UNCHANGED sock
    /\ UNCHANGED <<owner, timed, trafficVars>>

\* m.Del(peer) removes whatever the table holds for the peer and returns it;
\* the goroutine goes on to Close only if there was an entry.
DelEntry(s) ==
    /\ copier[s] = "del"
    /\ victim' = [victim EXCEPT ![s] = nat[owner[s]]]
    /\ nat' = [nat EXCEPT ![owner[s]] = None]
    /\ copier' = [copier EXCEPT ![s] = IF nat[owner[s]] = None THEN "done" ELSE "close"]
    /\ UNCHANGED <<owner, sock, timed, trafficVars>>

\* Mutant: the goroutine returns without closing what Del gave it.
CloseVictim_Forgets(s) ==
    /\ copier[s] = "close"
    /\ copier' = [copier EXCEPT ![s] = "done"]
    /\ UNCHANGED <<nat, owner, sock, timed, victim, trafficVars>>

\* pc.Close(), where pc is what Del returned.
CloseVictim(s) ==
    /\ copier[s] = "close"
    /\ sock' = [sock EXCEPT ![victim[s]] = "closed"]
    /\ inbox' = [inbox EXCEPT ![victim[s]] = {}]
    /\ copier' = [copier EXCEPT ![s] = "done"]
    /\ UNCHANGED <<nat, owner, timed, victim, reply, sent, delivered>>

Copier(s) ==
    \/ ReadReply(s)
    \/ ReadFails(s)
    \/ WriteBack(s)
    \/ WriteBackFails(s)
    \/ DelEntry(s)
    \/ CloseVictim(s)

\* The network brings socket s an answer of a host it was used to ask: once,
\* several times, late, or never.
Arrive(s, h) ==
    /\ sock[s] = "open"
    /\ <<s, h>> \in sent
    /\ inbox' = [inbox EXCEPT ![s] = @ \cup {h}]
    /\ UNCHANGED <<sessionVars, reply, sent, delivered>>

----------------------------------------------------------------------------
(* Properties of the table. *)

\* The goroutine of socket s has not yet reached the end of its Del.
Live(s) == copier[s] \in {"read", "write", "del"}

\* The table holds exactly the running sessions, each under the peer it was
\* opened for.  So a peer has at most one running session, and the Del of a
\* session, which names only the peer, cannot hit a newer session of the peer.
TableMatchesSessions ==
    \A p \in Peers, s \in Sockets : nat[p] = s <=> owner[s] = p /\ Live(s)

\* A socket that is open is either that of a running session, which the
\* read deadline ends, or its goroutine is about to close it: none is lost.
NoSocketLeaks ==
    \A s \in Sockets :
        sock[s] = "open" <=> Live(s) \/ (copier[s] = "close" /\ victim[s] = s)
==============================================================================
