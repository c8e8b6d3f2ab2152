------------------------------- MODULE Library -------------------------------
(***************************************************************************)
(* The calls of clientlib/manageAccel.go that start and stop a client:     *)
(* StartTCPUDP, StartWebsocket and StartWebsocketMpx, which make a new     *)
(* Client and open its two sockets, and their counterparts.  One program   *)
(* calls them one after the other; the loops of the clients and the        *)
(* connections that feed the traffic counter (Stat) run beside it.  No     *)
(* limit of connections is set (config.MaxConnCount is 0 unless the program *)
(* sets it); ConnPool has the accept loop with one.                        *)
(*                                                                         *)
(* The program calls the right Stop before it calls Start again, after a   *)
(* Start that failed too: a Start replaces the global client, and Stop     *)
(* reaches no other.  It may call Stop at any time, and any number of      *)
(* times.  Calls that are refused for their arguments change nothing and   *)
(* are left out; ResetTCPUDP is in ClientSession, but for the counter.     *)
(***************************************************************************)
EXTENDS Stat

CONSTANT MaxStarts  \* bound: how many clients are made

ASSUME BoundsAssumption ==
    {MaxStarts, MaxTraffic, Word} \subseteq Nat /\ MaxTraffic < Word

Kinds == {"single", "mpx"}
Clients == 1..MaxStarts

VARIABLES
    client,  \* the global client: the last one made; 0 is nil
    tcp, udp, \* TCPSocksListener and UDPSocksPC of each client
    accept, loop, \* its accept loop and its packet loop
    ctx,     \* the clients that were cancelled
    pools,   \* multiplexed connections that are open; mc is the client's number
    mc,      \* the global mc; 0 is nil
    app,     \* where the program stands in which call
    due      \* the kind that must be stopped before the next Start, or "none"

vars == <<statVars, client, tcp, udp, accept, loop, ctx, pools, mc, app, due>>
sockVars == <<tcp, udp, accept, loop>>
callVars == <<client, ctx, pools, mc, due>>

Init ==
    /\ StatInit
    /\ client = 0 /\ mc = 0 /\ pools = {} /\ ctx = {}
    /\ tcp = [c \in Clients |-> "nil"] /\ udp = [c \in Clients |-> "nil"]
    /\ accept = [c \in Clients |-> FALSE] /\ loop = [c \in Clients |-> FALSE]
    /\ app = [call |-> "none", kind |-> "none", step |-> "idle"]
    /\ due = "none"

TypeOK ==
    /\ StatTypeOK
    /\ client \in 0..MaxStarts /\ mc \in 0..MaxStarts
    /\ pools \subseteq Clients /\ ctx \subseteq Clients
    /\ {tcp, udp} \subseteq [Clients -> {"nil", "open", "closed"}]
    /\ {accept, loop} \subseteq [Clients -> BOOLEAN]
    /\ app \in [call : {"none", "start", "stop", "reset"}, kind : Kinds \cup {"none"},
                step : {"idle", "stat", "in1", "connect", "tcp", "udp", "cancel",
                        "closetcp", "closeudp", "mc"}]
    /\ due \in Kinds \cup {"none"}
    /\ app.step \in {"connect", "tcp", "udp", "cancel", "closetcp", "closeudp"} => client # 0

----------------------------------------------------------------------------
(* The steps of a call. *)

At(call, step) == app.call = call /\ app.step = step
Goto(step) == app' = [app EXCEPT !.step = step]
Return == app' = [call |-> "none", kind |-> "none", step |-> "idle"]

\* NewClient; from here on Stop reaches only the new client.
Start(kind) ==
    /\ app.step = "idle" /\ due = "none" /\ client < MaxStarts
    /\ client' = client + 1
    /\ due' = kind
    /\ app' = [call |-> "start", kind |-> kind, step |-> "stat"]
    /\ UNCHANGED <<statVars, sockVars, ctx, pools, mc>>

\* These two differ in the connecter they give the client, and in nothing here.
StartTCPUDP == Start("single")
StartWebsocket == Start("single")
StartWebsocketMpx == Start("mpx")

Stop(kind) ==
    /\ app.step = "idle" /\ due \in {"none", kind}
    /\ app' = [call |-> "stop", kind |-> kind, step |-> "stat"]
    /\ UNCHANGED <<statVars, sockVars, callVars>>

StopTCPUDP == Stop("single")
StopWebsocket == Stop("single")
StopWebsocketMpx == Stop("mpx")

\* ResetTCPUDP of a client, or StatReset.
ResetTCPUDP ==
    /\ app.step = "idle"
    /\ app' = [call |-> "reset", kind |-> "none", step |-> "stat"]
    /\ UNCHANGED <<statVars, sockVars, callVars>>

StatReset ==
    /\ app.step = "stat" /\ ResetRx /\ Goto("in1")
    /\ UNCHANGED <<sockVars, callVars>>

\* Mutant: Stop does not look whether there is a client.
AfterReset_Unchecked ==
    /\ app.step = "in1" /\ ResetIn1
    /\ \/ app.call = "start" /\ Goto(IF app.kind = "mpx" THEN "connect" ELSE "tcp")
       \/ app.call = "stop" /\ Goto("cancel")
       \/ app.call = "reset" /\ Return
    /\ UNCHANGED <<sockVars, callVars>>

AfterReset ==
    /\ app.step = "in1" /\ ResetIn1
    /\ \/ app.call = "start" /\ Goto(IF app.kind = "mpx" THEN "connect" ELSE "tcp")
       \/ app.call = "stop" /\ client # 0 /\ Goto("cancel")
       \/ app.call = "stop" /\ client = 0 /\ Goto("mc")
       \/ app.call = "reset" /\ Return
    /\ UNCHANGED <<sockVars, callVars>>

\* NewMpxConnecter; its error is dropped.
Connect ==
    /\ At("start", "connect")
    /\ mc' = client /\ pools' = pools \cup {client}
    /\ Goto("tcp")
    /\ UNCHANGED <<statVars, sockVars, client, ctx, due>>

\* net.Listen of StartsocksConnLocal.  All clients use the same port.
ListenTCP ==
    /\ At("start", "tcp")
    /\ \A c \in Clients : tcp[c] # "open"
    /\ tcp' = [tcp EXCEPT ![client] = "open"]
    /\ accept' = [accept EXCEPT ![client] = TRUE]
    /\ Goto("udp")
    /\ UNCHANGED <<statVars, udp, loop, callVars>>

\* net.ListenPacket of udpSocksLocal.
ListenUDP ==
    /\ At("start", "udp")
    /\ \A c \in Clients : udp[c] # "open"
    /\ udp' = [udp EXCEPT ![client] = "open"]
    /\ loop' = [loop EXCEPT ![client] = TRUE]
    /\ Return
    /\ UNCHANGED <<statVars, tcp, accept, callVars>>

\* The port is taken, or the server's name is not found: what has been opened
\* stays open.
StartFails ==
    /\ app.call = "start" /\ app.step \in {"tcp", "udp"}
    /\ Return
    /\ UNCHANGED <<statVars, sockVars, callVars>>

\* Client.Stop.
\* Mutant: the loops are not told.
Cancel_Missing ==
    /\ At("stop", "cancel")
    /\ Goto("closetcp")
    /\ UNCHANGED <<statVars, sockVars, callVars>>

Cancel ==
    /\ At("stop", "cancel")
    /\ ctx' = ctx \cup {client}
    /\ Goto("closetcp")
    /\ UNCHANGED <<statVars, sockVars, client, pools, mc, due>>

\* Mutant: Stop returns after the listener.
CloseTCP_Returns ==
    /\ At("stop", "closetcp")
    /\ tcp' = [tcp EXCEPT ![client] = IF @ = "nil" THEN "nil" ELSE "closed"]
    /\ Goto("mc")
    /\ UNCHANGED <<statVars, udp, accept, loop, callVars>>

\* Closing a listener that is closed fails, and Stop returns.
CloseTCP ==
    /\ At("stop", "closetcp")
    /\ tcp' = [tcp EXCEPT ![client] = IF @ = "nil" THEN "nil" ELSE "closed"]
    /\ Goto(IF tcp[client] = "closed" THEN "mc" ELSE "closeudp")
    /\ UNCHANGED <<statVars, udp, accept, loop, callVars>>

CloseUDP ==
    /\ At("stop", "closeudp")
    /\ udp' = [udp EXCEPT ![client] = IF @ = "nil" THEN "nil" ELSE "closed"]
    /\ Goto("mc")
    /\ UNCHANGED <<statVars, tcp, accept, loop, callVars>>

\* Client.Stop has returned, whatever it returned; StopWebsocketMpx closes mc.
CloseMpx ==
    /\ At("stop", "mc")
    /\ pools' = IF app.kind = "mpx" THEN pools \ {mc} ELSE pools
    /\ due' = "none"
    /\ Return
    /\ UNCHANGED <<statVars, sockVars, client, ctx, mc>>

----------------------------------------------------------------------------
(* The loops of a client. *)

\* Accept fails on a closed listener; a loop that was not told tries again.
AcceptEnds(c) ==
    /\ accept[c] /\ tcp[c] = "closed" /\ c \in ctx
    /\ accept' = [accept EXCEPT ![c] = FALSE]
    /\ UNCHANGED <<statVars, tcp, udp, loop, callVars, app>>

\* A read ends, with a datagram or because the socket is closed; the loop sees
\* that it is over, and closes the socket itself.
LoopEnds(c) ==
    /\ loop[c] /\ c \in ctx
    /\ loop' = [loop EXCEPT ![c] = FALSE]
    /\ udp' = [udp EXCEPT ![c] = "closed"]
    /\ UNCHANGED <<statVars, tcp, accept, callVars, app>>

Count == StatNext /\ UNCHANGED <<sockVars, callVars, app>>

Call ==
    \/ StatReset \/ AfterReset \/ Connect \/ ListenTCP \/ ListenUDP \/ StartFails
    \/ Cancel \/ CloseTCP \/ CloseUDP \/ CloseMpx

Next ==
    \/ StartTCPUDP \/ StartWebsocket \/ StartWebsocketMpx
    \/ StopTCPUDP \/ StopWebsocket \/ StopWebsocketMpx \/ ResetTCPUDP
    \/ Call \/ Count
    \/ \E c \in Clients : AcceptEnds(c) \/ LoopEnds(c)

\* A call goes on once it has begun, and a loop whose socket is closed runs (no
\* loop ends twice, so one condition does for all of them); nothing forces a
\* datagram, traffic or a call.
Spec ==
    /\ Init /\ [][Next]_vars /\ WF_vars(Call)
    /\ WF_vars(\E c \in Clients : AcceptEnds(c))
    /\ WF_vars(\E c \in Clients : udp[c] = "closed" /\ LoopEnds(c))

----------------------------------------------------------------------------
(* Properties. *)

\* When Stop has returned nothing is open any more, though an earlier step of
\* it or of Start has failed (manageAccel.go:191-209, client.go:266-284),
\* though it returned an error because the packet loop closed its socket
\* first, and however often it is called.
StoppedIsClosed ==
    app.step = "idle" /\ due = "none" =>
        /\ \A c \in Clients : "open" \notin {tcp[c], udp[c]}
        /\ pools = {}

\* Again and again no accept loop and no packet loop runs but those of the
\* client that was started last and that Stop has not returned for: whatever
\* Stop returns, the loops it leaves end (client.go:91, :228), whether or not
\* another client is started meanwhile.
LoopsEnd ==
    []<>(\A c \in Clients : accept[c] \/ loop[c] => due # "none" /\ c = client)
=============================================================================
