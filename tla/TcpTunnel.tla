------------------------------ MODULE TcpTunnel ------------------------------
(***************************************************************************)
(* What becomes of one connection in tcp.go, at either end of the tunnel:  *)
(* getAddr finds the target (the SOCKS handshake, the -tcptun flag, or, at *)
(* the server, the address in front of the stream), a second connection is *)
(* dialled, and relay copies between the two.  clientlib/tcp.go repeats    *)
(* this; StartsocksConnLocal's handler is in ClientSession.                *)
(*                                                                         *)
(* The handshake and the relay are SocksHandshake and Relay.  When the     *)
(* handshake returns its variables go out of scope: they are reset.        *)
(***************************************************************************)
EXTENDS Relay, Sequences

CONSTANTS
    MaxByte, IPv4len, IPv6len, Mapped, Numeric, Nil,  \* see SocksAddr
    Streams,  \* what programs send: the handshake, and some payload
    Targets   \* the printed targets of -tcptun

Addr == INSTANCE SocksAddr

ASSUME SizesAssumption ==
    /\ MaxByte \in Nat /\ MaxByte >= 4
    /\ IPv4len \in Nat /\ IPv6len = Len(Mapped) + IPv4len /\ IPv6len <= MaxByte + 1
    /\ Mapped \in Seq(0..MaxByte)
    /\ \A n \in DOMAIN Numeric : Numeric[n] \in Addr!IPs
    /\ Nil \notin Seq(0..MaxByte)
    /\ Streams \subseteq Seq(0..MaxByte)
    /\ Targets # {} /\ Targets \subseteq [host : Addr!Hosts, port : Nat]

VARIABLES
    role,    \* "socks" and "tun" at the client, "remote" at the server
    stage,   \* where the handler stands
    open,    \* its connections that are open: c is accepted, rc is dialled
    target,  \* the argument of tcpTun
    stream, mode, UDPEnabled, pos, hbuf, step, cmd, replies, addr, herr

Hand == INSTANCE SocksHandshake WITH buf <- hbuf, err <- herr

handVars == <<stream, mode, UDPEnabled, pos, hbuf, step, cmd, replies, addr, herr>>
tunnelVars == <<vars, role, stage, open, target, handVars>>

AnyTarget == CHOOSE t \in Targets : TRUE

TunnelInit ==
    /\ Init
    /\ role \in {"socks", "tun", "remote"}
    /\ stage = "listen"
    /\ open = {}
    /\ mode = IF role = "remote" THEN "ReadAddr" ELSE "Handshake"
    /\ UDPEnabled \in IF role = "socks" THEN BOOLEAN ELSE {FALSE}
    /\ stream \in IF role = "tun" THEN {<<>>} ELSE Streams
    /\ target \in IF role = "tun" THEN Targets ELSE {AnyTarget}
    /\ Hand!Fresh

TunnelTypeOK ==
    /\ TypeOK
    /\ Hand!TypeOK
    /\ role \in {"socks", "tun", "remote"}
    /\ stage \in {"listen", "addr", "hold", "dial", "send", "relay", "close", "over"}
    /\ open \subseteq {"c", "rc"}
    /\ target \in Targets

----------------------------------------------------------------------------

Goto(s) == stage' = s

\* A connection is accepted; tcpTun does not even listen for a bad target.  (A
\* good one is not looked at again and is forgotten here.)
Accept ==
    /\ stage = "listen"
    /\ role = "tun" => Addr!ParseAddr(target) # Nil
    /\ open' = {"c"}
    /\ Goto(IF role = "tun" THEN "dial" ELSE "addr")
    /\ target' = AnyTarget
    /\ UNCHANGED <<vars, role, handVars>>

\* A step of getAddr.
GetAddr ==
    /\ stage = "addr"
    /\ Hand!Next
    /\ UNCHANGED <<vars, role, stage, open, target>>

\* getAddr has returned; its variables are gone.
HaveAddr ==
    /\ stage = "addr" /\ step = "done"
    /\ Goto(CASE herr = "nil" -> "dial" [] herr = "associate" -> "hold" [] OTHER -> "close")
    /\ stream' = <<>> /\ mode' = "Handshake" /\ UDPEnabled' = FALSE
    /\ pos' = 0 /\ hbuf' = [i \in DOMAIN hbuf |-> 0] /\ step' = "hello"
    /\ cmd' = 0 /\ replies' = <<>> /\ addr' = Nil /\ herr' = "nil"
    /\ UNCHANGED <<vars, role, open, target>>

\* The connection of a UDP association is read until the program leaves, or
\* sends anything: only a timeout makes the loop go on.
HoldEnds ==
    /\ stage = "hold" /\ (fin["right"] # "open" \/ sent["right"] > 0)
    /\ Goto("close")
    /\ UNCHANGED <<vars, role, open, target, handVars>>

\* net.Dial, of the server or of the target.
Dial ==
    /\ stage = "dial"
    /\ \/ Goto("close") /\ UNCHANGED open
       \/ Goto(IF role = "remote" THEN "relay" ELSE "send") /\ open' = open \cup {"rc"}
    /\ UNCHANGED <<vars, role, target, handVars>>

\* rc.Write(tgt): it fails, or the relay begins.
SendTarget ==
    /\ stage = "send"
    /\ Goto("close") \/ Goto("relay")
    /\ UNCHANGED <<vars, role, open, target, handVars>>

\* The program, and the far end of rc, send, read and leave.
Programs ==
    /\ \/ stage = "relay" /\ \E e \in Ends : Produce(e) \/ Finish(e) \/ Consume(e)
       \/ stage = "hold" /\ (Produce("right") \/ Finish("right"))
    /\ UNCHANGED <<role, stage, open, target, handVars>>

RelayStep ==
    /\ stage = "relay"
    /\ (\E g \in Copiers : Copy(g)) \/ Meet
    /\ UNCHANGED <<role, stage, open, target, handVars>>

RelayReturns ==
    /\ stage = "relay" /\ result # "none"
    /\ Goto("close")
    /\ UNCHANGED <<vars, role, open, target, handVars>>

\* The deferred rc.Close and c.Close.
Close ==
    /\ stage = "close"
    /\ open' = {}
    /\ Goto("over")
    /\ UNCHANGED <<vars, role, target, handVars>>

Handler ==
    \/ Accept \/ GetAddr \/ HaveAddr \/ HoldEnds \/ Dial \/ SendTarget
    \/ RelayReturns \/ Close

TunnelNext == Handler \/ Programs \/ RelayStep

\* Every goroutine runs whenever it can; a read that waits for bytes ends at
\* the latest when the program leaves.
TunnelSpec ==
    /\ TunnelInit /\ [][TunnelNext]_tunnelVars
    /\ WF_tunnelVars(Handler)
    /\ \A g \in Copiers :
          WF_tunnelVars(Copy(g) /\ stage = "relay" /\ UNCHANGED <<role, stage, open, target, handVars>>)
    /\ WF_tunnelVars(Meet /\ stage = "relay" /\ UNCHANGED <<role, stage, open, target, handVars>>)

----------------------------------------------------------------------------
(* Properties. *)

\* See SocksHandshake, SocksAddr.
ConsumesExactly == Hand!ConsumesExactly
WholeIsServed == Hand!WholeIsServed
KeepsTarget == Addr!KeepsTarget(target)

\* Both connections are closed after a handshake or a dial that failed, after
\* the program of an association has left, and as soon as one direction of the
\* relay has ended (tcp.go:43-89, :109-136), though the other may be blocked in
\* a read from a silent program or in a write to one that does not read.
ConnectionsClose ==
    /\ stage = "addr" ~> (open = {} \/ stage \in {"hold", "relay"})
    /\ (stage = "hold" /\ fin["right"] # "open") ~> (open = {})
    /\ (\E g \in Copiers : err[g] # "none") ~> (open = {})
=============================================================================
