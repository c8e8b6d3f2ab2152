------------------------------ MODULE ClientUdp ------------------------------
(***************************************************************************)
(* The UDP side of clientlib's Client: the packet loop of udpSocksLocal,   *)
(* with Client.Reset and Client.Stop running against it.                   *)
(*                                                                         *)
(* A session's socket is wrapped in the cipher when it is opened; the      *)
(* server's address is read for every datagram.  pcResetRLock is taken for *)
(* reading when a session is opened, and it is released after every write, *)
(* opened or not.  Go ends the program when an RWMutex that is not locked  *)
(* is unlocked: crashed.                                                   *)
(*                                                                         *)
(* A server and its cipher are numbered by the call of Reset that brought  *)
(* them.  Reset also holds connResetRLock, which nothing here waits for.   *)
(***************************************************************************)
EXTENDS NatMap, Naturals

CONSTANT MaxResets  \* bound: the number of calls of Reset

ASSUME MaxResetsAssumption == MaxResets \in Nat

VARIABLES
    loop,     \* where the packet loop stands ("first": it writes to a session
              \* that it has just opened; "send": to one that it has found)
    peer,     \* raddr, the source of the datagram in hand
    host,     \* the host that the datagram in hand is meant for
    pc,       \* the session's socket
    asked,    \* history: pairs <<p, h>> such that p sent a datagram meant for h
    held,     \* the loop holds pcResetRLock for reading
    key,      \* the cipher of each session
    server,   \* Client.udpServerAddr
    cipher,   \* Client.upgradePc
    reset,    \* where Client.Reset stands
    stop,     \* how far Client.Stop has come
    crashed   \* the program has ended with a fatal error

loopVars  == <<loop, peer, host, pc, asked, held>>
resetVars == <<server, cipher, reset>>
vars      == <<natVars, loopVars, key, resetVars, stop, crashed>>

Init ==
    /\ NatInit
    /\ loop = "select"
    /\ peer = None
    /\ host = None
    /\ pc = None
    /\ asked = {}
    /\ held = FALSE
    /\ key = [s \in Sockets |-> 0]
    /\ server = 0
    /\ cipher = 0
    /\ reset = "idle"
    /\ stop = "running"
    /\ crashed = FALSE

TypeOK ==
    /\ NatTypeOK
    /\ loop \in {"select", "read", "lookup", "rlock", "parked", "dial", "first", "send",
                 "unlock", "returned"}
    /\ peer \in Peers \cup {None}
    /\ host \in Hosts \cup {None}
    /\ pc \in Sockets \cup {None}
    /\ asked \subseteq Peers \X Hosts
    /\ held \in BOOLEAN
    /\ key \in [Sockets -> 0..MaxResets]
    /\ server \in 0..MaxResets
    /\ cipher \in 0..MaxResets
    /\ reset \in {"idle", "waiting", "holding"}
    /\ stop \in {"running", "cancelled", "failed", "closed"}
    /\ crashed \in BOOLEAN
    /\ loop \in {"first", "send", "unlock"} => pc \in Sockets
    /\ held => loop \in {"dial", "first", "unlock"}

----------------------------------------------------------------------------
(* The packet loop. *)

\* raddr and pc are variables of one round of the loop.
NewRound == peer' = None /\ host' = None /\ pc' = None

\* Mutant: the context is not looked at.
Select_Blind ==
    /\ loop = "select"
    /\ loop' = "read"
    /\ NewRound
    /\ UNCHANGED <<natVars, asked, held, key, resetVars, stop>>

\* select on c.ctx.Done().
Select ==
    /\ loop = "select"
    /\ loop' = IF stop = "running" THEN "read" ELSE "returned"
    /\ NewRound
    /\ UNCHANGED <<natVars, asked, held, key, resetVars, stop>>

\* UDPSocksPC.ReadFrom returns a datagram of p for h.
Receive(p, h) ==
    /\ loop = "read"
    /\ stop # "closed"
    /\ loop' = "lookup"
    /\ peer' = p
    /\ host' = h
    /\ asked' = asked \cup {<<p, h>>}
    /\ UNCHANGED <<natVars, pc, held, key, resetVars, stop>>

\* UDPSocksPC.ReadFrom fails, as it does once the socket is closed.  Any other
\* error only leads back to the same read.
ReceiveFails ==
    /\ loop = "read"
    /\ stop = "closed"
    /\ loop' = "select"
    /\ UNCHANGED <<natVars, peer, host, pc, asked, held, key, resetVars, stop>>

\* pc := nm.Get(raddr.String()).
Lookup ==
    /\ loop = "lookup"
    /\ pc' = nat[peer]
    /\ loop' = IF nat[peer] = None THEN "rlock" ELSE "send"
    /\ UNCHANGED <<natVars, peer, host, asked, held, key, resetVars, stop>>

\* pcResetRLock.RLock(): a pending Reset goes first.
RLock ==
    /\ loop = "rlock"
    /\ IF reset = "idle"
         THEN loop' = "dial" /\ held' = TRUE
         ELSE loop' = "parked" /\ UNCHANGED held
    /\ UNCHANGED <<natVars, peer, host, pc, asked, key, resetVars, stop>>

\* Mutant: the lock is released as soon as the session is in the table.
OpenSession_Unlocks(s) ==
    /\ loop = "dial"
    /\ Add(peer, s)
    /\ pc' = s
    /\ key' = [key EXCEPT ![s] = cipher]
    /\ loop' = "first"
    /\ held' = FALSE
    /\ UNCHANGED <<trafficVars, peer, host, asked, resetVars, stop>>

\* pcConnect.DialPacketConn gives socket s; upgradePc wraps it; nm.Add.
OpenSession(s) ==
    /\ loop = "dial"
    /\ Add(peer, s)
    /\ pc' = s
    /\ key' = [key EXCEPT ![s] = cipher]
    /\ loop' = "first"
    /\ UNCHANGED <<trafficVars, peer, host, asked, held, resetVars, stop>>

\* Mutant: the early return keeps the lock.
OpenFails_KeepsLock ==
    /\ loop = "dial"
    /\ loop' = "select"
    /\ UNCHANGED <<natVars, peer, host, pc, asked, held, key, resetVars, stop>>

\* DialPacketConn fails: pcResetRLock.RUnlock() and continue.
OpenFails ==
    /\ loop = "dial"
    /\ loop' = "select"
    /\ held' = FALSE
    /\ UNCHANGED <<natVars, peer, host, pc, asked, key, resetVars, stop>>

\* pc.WriteTo(buf, c.udpServerAddr) succeeds, or fails.
Write ==
    /\ loop \in {"first", "send"}
    /\ Transmit(pc, host) \/ UNCHANGED trafficVars
    /\ loop' = "unlock"
    /\ UNCHANGED <<sessionVars, peer, host, pc, asked, held, key, resetVars, stop>>

\* pcResetRLock.RUnlock() by the loop that holds it.
RUnlock ==
    /\ loop = "unlock"
    /\ held
    /\ held' = FALSE
    /\ loop' = "select"
    /\ UNCHANGED <<natVars, peer, host, pc, asked, key, resetVars, stop, crashed>>

\* pcResetRLock.RUnlock() by the loop that has not locked it.
RUnlockOfUnlocked ==
    /\ loop = "unlock"
    /\ ~held
    /\ crashed' = TRUE
    /\ UNCHANGED <<natVars, loopVars, key, resetVars, stop>>

Step ==
    \/ Select
    \/ ReceiveFails
    \/ Lookup
    \/ RLock
    \/ \E s \in Sockets : OpenSession(s)
    \/ OpenFails
    \/ Write

Loop == (Step /\ UNCHANGED crashed) \/ RUnlock \/ RUnlockOfUnlocked

----------------------------------------------------------------------------
(* Client.Reset and Client.Stop. *)

\* pcResetRLock.Lock() announces the writer.
ResetLock ==
    /\ reset = "idle"
    /\ cipher < MaxResets
    /\ reset' = "waiting"
    /\ UNCHANGED <<loop, held, server, cipher>>

\* The reader has left.
ResetAcquire ==
    /\ reset = "waiting"
    /\ ~held
    /\ reset' = "holding"
    /\ UNCHANGED <<loop, held, server, cipher>>

\* The fields are replaced; pcResetRLock.Unlock() lets the waiting reader in.
ResetUnlock ==
    /\ reset = "holding"
    /\ server' = server + 1
    /\ cipher' = cipher + 1
    /\ reset' = "idle"
    /\ IF loop = "parked" THEN loop' = "dial" /\ held' = TRUE ELSE UNCHANGED <<loop, held>>

Reset ==
    /\ ResetLock \/ ResetAcquire \/ ResetUnlock
    /\ UNCHANGED <<natVars, peer, host, pc, asked, key, stop, crashed>>

\* c.cancel(), then UDPSocksPC.Close(), unless TCPSocksListener.Close() fails:
\* Stop returns its error and leaves the UDP socket open.
Stop ==
    /\ \/ stop = "running" /\ stop' = "cancelled"
       \/ stop = "cancelled" /\ stop' \in {"closed", "failed"}
    /\ UNCHANGED <<natVars, loopVars, key, resetVars, crashed>>

----------------------------------------------------------------------------
Others == UNCHANGED <<loopVars, key, resetVars, stop, crashed>>

\* The copiers write answers to UDPSocksPC, as long as it is open.
Copy(s) ==
    /\ Copier(s)
    /\ stop = "closed" \/ loop = "returned" => UNCHANGED delivered
    /\ Others

Next ==
    /\ ~crashed
    /\ \/ \E p \in Peers, h \in Hosts : Receive(p, h) /\ UNCHANGED crashed
       \/ Loop
       \/ \E s \in Sockets : Copy(s)
       \/ \E s \in Sockets, h \in Hosts : Arrive(s, h) /\ Others
       \/ Reset
       \/ Stop

\* The loop runs while the program does; opening a socket and sending on it do
\* not wait.  Reset and Stop finish once they have been called.
Fairness ==
    /\ WF_vars(~crashed /\ Loop)
    /\ WF_vars(~crashed /\ Reset /\ reset # "idle")
    /\ WF_vars(~crashed /\ Stop /\ stop = "cancelled")

Spec == Init /\ [][Next]_vars /\ Fairness

----------------------------------------------------------------------------
(* Properties. *)

\* The datagram that opens a session goes to the server that the session's
\* cipher belongs to: Reset does not come between wrapping the socket and the
\* write.  (Later datagrams of the session may meet a newer server.)
FirstDatagramSuitsServer == loop = "first" => key[pc] = server

\* Reset returns, unless the program ends: the loop does not keep the lock
\* while it waits for a datagram.
ResetReturns == reset # "idle" ~> reset = "idle" \/ crashed

\* After Stop the packet loop returns, even if no datagram comes any more, unless
\* Stop has given up at the TCP listener: then the loop may stay in its read.
StopEndsLoop == stop = "cancelled" ~> loop = "returned" \/ stop = "failed" \/ crashed

\* The loop serves the programs as the datagram service describes.
Service == INSTANCE DatagramService
ImplementsService == Service!Spec

\* What the comment of udpSocksLocal says the loop does with every datagram, it
\* does without ending the program.
NeverCrashes == ~crashed
==============================================================================
