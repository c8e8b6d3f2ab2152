---------------------------- MODULE ClientSession ----------------------------
(***************************************************************************)
(* The TCP sessions of clientlib: handleConn, which serves one connection  *)
(* of a local program, and ResetTCPUDP, which moves the client to another  *)
(* server while sessions are being set up.                                 *)
(*                                                                         *)
(* A session connects to the server (connecter.Connect) and then wraps the *)
(* connection in the cipher (upgradeConn); both belong together, and       *)
(* connResetRLock is held for reading from one to the other.  Client.Reset *)
(* holds it for writing, but ResetTCPUDP has already written the address   *)
(* into the connecter that the client is using.  A server and its cipher   *)
(* are named by the number of the call that brought them; 0 is StartTCPUDP.*)
(*                                                                         *)
(* The handlers begin at any time here; ConnPool says when they do.        *)
(***************************************************************************)
EXTENDS Naturals, FiniteSets

CONSTANTS
    Conns,     \* connections of local programs
    MaxResets  \* bound: the number of calls of ResetTCPUDP

ASSUME MaxResetsAssumption == MaxResets \in Nat

VARIABLES
    phase,   \* where the handler of each connection stands
    gone,    \* the connections whose program has closed its end
    closed,  \* the connections closed at this end
    srv,     \* the server that the handler of each connection dialled
    ciph,    \* the cipher that it uses
    server,  \* tcpConnecter.ServerAddr
    cipher,  \* Client.upgradeConn
    calls,   \* how many times ResetTCPUDP has been called
    reset    \* where the current call stands

connVars  == <<phase, gone, closed>>
pairVars  == <<srv, ciph>>
resetVars == <<server, cipher, calls, reset>>
vars      == <<connVars, pairVars, resetVars>>

\* What a reader of ServerAddr finds while its two words are being written:
\* the pointer of one string with the length of the other.
Torn == MaxResets + 1

Locked == {"dial", "upgrade", "send"}

Phases == {"new", "handshake", "assoc", "rlock", "parked", "relay", "stalled",
           "close", "done"} \cup Locked

\* A read or a write of the connection fails.
Dead(c) == c \in gone \cup closed

\* Mutant: the lock is released as soon as the dial has begun.
Readers_UntilDial == {c \in Conns : phase[c] = "dial"}

\* Mutant: the lock is taken before the handshake.
Readers_FromHandshake == {c \in Conns : phase[c] \in Locked \cup {"handshake"}}

\* The goroutines that hold connResetRLock for reading.
Readers == {c \in Conns : phase[c] \in Locked}

Init ==
    /\ phase = [c \in Conns |-> "new"]
    /\ gone = {}
    /\ closed = {}
    /\ srv = [c \in Conns |-> 0]
    /\ ciph = [c \in Conns |-> 0]
    /\ server = 0
    /\ cipher = 0
    /\ calls = 0
    /\ reset = "idle"

TypeOK ==
    /\ phase \in [Conns -> Phases]
    /\ gone \subseteq Conns
    /\ closed \subseteq Conns
    /\ srv \in [Conns -> 0..Torn]
    /\ ciph \in [Conns -> 0..MaxResets]
    /\ server \in 0..Torn
    /\ cipher \in 0..MaxResets
    /\ calls \in 0..MaxResets
    /\ reset \in {"idle", "name", "resolve", "waiting", "holding"}
    /\ \A c \in Conns : phase[c] = "done" => c \in closed

----------------------------------------------------------------------------
(* handleConn. *)

Goto(c, p) == phase' = [phase EXCEPT ![c] = p]

\* go c.handleConn(lc), or a worker's call.
Begin(c) ==
    /\ phase[c] = "new"
    /\ Goto(c, "handshake")
    /\ UNCHANGED <<gone, closed, pairVars, resetVars>>

\* socks.Handshake succeeds with a CONNECT request, or returns
\* InfoUDPAssociate.  What it needs may have been sent before the program left.
Handshake(c) ==
    /\ phase[c] = "handshake"
    /\ c \notin closed
    /\ \E p \in {"rlock", "assoc"} : Goto(c, p)
    /\ UNCHANGED <<gone, closed, pairVars, resetVars>>

\* socks.Handshake fails: the connection is dead, or the request is not SOCKS.
HandshakeFails(c) ==
    /\ phase[c] = "handshake"
    /\ Goto(c, "close")
    /\ UNCHANGED <<gone, closed, pairVars, resetVars>>

\* lc.Read(buf) of a UDP association.  The buffer is empty, so Read returns at
\* once, and not with a timeout: the handler returns.
AssociateEnds(c) ==
    /\ phase[c] = "assoc"
    /\ Goto(c, "close")
    /\ UNCHANGED <<gone, closed, pairVars, resetVars>>

\* connResetRLock.RLock(): a pending writer makes a new reader wait for it.
RLock(c) ==
    /\ phase[c] = "rlock"
    /\ Goto(c, IF reset \in {"waiting", "holding"} THEN "parked" ELSE "dial")
    /\ UNCHANGED <<gone, closed, pairVars, resetVars>>

\* connecter.Connect() reads the server's address and dials it.
Dial(c) ==
    /\ phase[c] = "dial"
    /\ srv' = [srv EXCEPT ![c] = server]
    /\ Goto(c, "upgrade")
    /\ UNCHANGED <<gone, closed, ciph, resetVars>>

\* The dial succeeded; c.upgradeConn(rc).
Upgrade(c) ==
    /\ phase[c] = "upgrade"
    /\ ciph' = [ciph EXCEPT ![c] = cipher]
    /\ Goto(c, "send")
    /\ UNCHANGED <<gone, closed, srv, resetVars>>

\* The outbound id and the target are written, then connResetRLock.RUnlock().
Send(c) ==
    /\ phase[c] = "send"
    /\ Goto(c, "relay")
    /\ UNCHANGED <<gone, closed, pairVars, resetVars>>

\* The dial failed, or a write did: connResetRLock.RUnlock() and return.
SetupFails(c) ==
    /\ phase[c] \in {"upgrade", "send"}
    /\ Goto(c, "close")
    /\ UNCHANGED <<gone, closed, pairVars, resetVars>>

\* relay blocks in a write to a server that reads no more, and goes on when
\* the server reads again.  While it is blocked it does not read from lc.
Stall(c) ==
    /\ \/ phase[c] = "relay" /\ c \notin closed /\ Goto(c, "stalled")
       \/ phase[c] = "stalled" /\ Goto(c, "relay")
    /\ UNCHANGED <<gone, closed, pairVars, resetVars>>

\* relay returns: one end or the other is over, or failed.
RelayEnds(c) ==
    /\ phase[c] = "relay"
    /\ Goto(c, "close")
    /\ UNCHANGED <<gone, closed, pairVars, resetVars>>

\* The deferred rc.Close() and lc.Close().
CloseConn(c) ==
    /\ phase[c] = "close"
    /\ closed' = closed \cup {c}
    /\ Goto(c, "done")
    /\ UNCHANGED <<gone, pairVars, resetVars>>

\* The steps of the handler that wait for nobody but the server.
Setup(c) ==
    \/ AssociateEnds(c)
    \/ RLock(c)
    \/ Dial(c)
    \/ Upgrade(c)
    \/ Send(c)
    \/ SetupFails(c)
    \/ CloseConn(c)

\* The steps that the program at the other end of lc brings about.
Converse(c) ==
    \/ Handshake(c)
    \/ HandshakeFails(c)
    \/ RelayEnds(c)

\* The program closes its end of the connection.
Leave(c) ==
    /\ phase[c] # "new"
    /\ c \notin gone
    /\ gone' = gone \cup {c}
    /\ UNCHANGED <<phase, closed, pairVars, resetVars>>

----------------------------------------------------------------------------
(* ResetTCPUDP and Client.Reset. *)

\* ResetTCPUDP is called with a new server and its cipher, and begins to write
\* the address; the client's connecter is the same object.
ResetCall ==
    /\ reset = "idle"
    /\ calls < MaxResets
    /\ calls' = calls + 1
    /\ server' = Torn
    /\ reset' = "name"
    /\ UNCHANGED <<connVars, pairVars, cipher>>

\* tcpConnecter.ServerAddr = addr is complete.
ResetNamed ==
    /\ reset = "name"
    /\ server' = calls
    /\ reset' = "resolve"
    /\ UNCHANGED <<connVars, pairVars, cipher, calls>>

\* net.ResolveUDPAddr fails: ResetTCPUDP returns the error.  The address of
\* the connecter stays, and the cipher is the old one.
ResetFails ==
    /\ reset = "resolve"
    /\ reset' = "idle"
    /\ UNCHANGED <<connVars, pairVars, server, cipher, calls>>

\* connResetRLock.Lock() announces the writer.
ResetLock ==
    /\ reset = "resolve"
    /\ reset' = "waiting"
    /\ UNCHANGED <<connVars, pairVars, server, cipher, calls>>

\* The readers that were there have all left.
ResetAcquire ==
    /\ reset = "waiting"
    /\ Readers = {}
    /\ reset' = "holding"
    /\ UNCHANGED <<connVars, pairVars, server, cipher, calls>>

\* Mutant: Reset returns without connResetRLock.Unlock().
ResetUnlock_Forgets ==
    /\ reset = "holding"
    /\ cipher' = calls
    /\ UNCHANGED <<connVars, pairVars, server, calls, reset>>

\* The fields are replaced; Unlock lets in the readers that wait.
ResetUnlock ==
    /\ reset = "holding"
    /\ cipher' = calls
    /\ reset' = "idle"
    /\ phase' = [c \in Conns |-> IF phase[c] = "parked" THEN "dial" ELSE phase[c]]
    /\ UNCHANGED <<gone, closed, pairVars, server, calls>>

Reset ==
    \/ ResetCall
    \/ ResetNamed
    \/ ResetFails
    \/ ResetLock
    \/ ResetAcquire
    \/ ResetUnlock

Handle(c) == Setup(c) \/ Converse(c) \/ Stall(c) \/ Leave(c)

Next == Reset \/ \E c \in Conns : Begin(c) \/ Handle(c)

\* A dial ends, if only by the system's timeout, and the few bytes written next
\* fit in the buffer of a new connection.  The program may be silent for ever,
\* and nothing makes anyone call ResetTCPUDP.
Fairness ==
    /\ \A c \in Conns : WF_vars(Setup(c))
    /\ WF_vars(Reset /\ reset # "idle")

Spec == Init /\ [][Next]_vars /\ Fairness

----------------------------------------------------------------------------
(* Properties. *)

\* A cipher is never used with a server older than itself: a session that has
\* dialled before Reset finishes its set-up before Reset replaces the cipher.
\* (The opposite pair exists: the new address is visible before the lock is
\* taken, and stays when ResetTCPUDP fails.)
CipherNotNewerThanServer ==
    \A c \in Conns : phase[c] \in {"send", "relay", "stalled"} => ciph[c] <= srv[c]

\* While Reset replaces the fields, no session is between its first use of them
\* and its last.
ResetExcludesSetup == reset = "holding" => Readers = {}

\* ResetTCPUDP returns: it waits for set-ups under way, which end, and not for
\* programs that are silent, nor for set-ups that begin after it.
ResetReturns == reset # "idle" ~> reset = "idle"

\* A session whose request has been read is set up or given up, however often
\* the client is reset meanwhile: its handler does not wait for ever.
SetupEnds ==
    \A c \in Conns :
        phase[c] = "rlock" ~> phase[c] \in {"relay", "stalled", "close", "done"}

\* What tcpLocal and handleConn say of a UDP association: the connection is
\* kept until the program disconnects.
AssociationIsHeld ==
    [][\A c \in Conns : phase[c] = "assoc" /\ phase'[c] # "assoc" => Dead(c)]_vars
==============================================================================
