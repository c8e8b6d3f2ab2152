---------------------------- MODULE LibraryProofs -----------------------------
(***************************************************************************)
(* Proofs about Library and the counter of Stat that it runs: type          *)
(* correctness, what Stop has closed when it returns, and what the counts   *)
(* are bounded by.  They hold for every number of clients and connections,  *)
(* every amount of traffic and every width of the counter.                  *)
(***************************************************************************)
EXTENDS Library, TLAPS

----------------------------------------------------------------------------
(* The counter. *)

\* An AddRx that has loaded the counter has traffic of its own to add.
Added == \A v \in Values : adding[v] > 0 => v < traffic

\* What the ticker has seen is not more than the counter, unless that has
\* gone down since.
Seen ==
    ~fell => /\ in1.rx <= Rx
             /\ ticking.step \in {"new", "sub", "store"} => ticking.reg <= Rx
             /\ ticking.step = "old" => in1.rx <= ticking.reg /\ ticking.reg <= Rx

StatIInv == StatTypeOK /\ Added /\ Seen /\ CountsAreReceived

\* Sums and differences that stay below Word are not wrapped, and others are
\* below it.
LEMMA Modulo ==
    ASSUME NEW x \in Values
    PROVE  /\ x % Word = x
           /\ (x + Word) % Word = x
           /\ \A y \in Nat : y % Word \in Values
<1> USE BoundsAssumption DEF Values
<1>1. x % Word = x
  BY SMT
<1>2. (x + Word) % Word = x
  BY SMT
<1>3. \A y \in Nat : y % Word \in Values
  BY SMT
<1> QED BY <1>1, <1>2, <1>3

LEMMA StatInitIInv == StatInit => StatIInv
<1> SUFFICES ASSUME StatInit PROVE StatIInv
  OBVIOUS
<1> USE BoundsAssumption DEF StatInit, Values
<1>1. StatTypeOK
  <2>1. 0 \in Values /\ 0 \in 0..MaxTraffic
    OBVIOUS
  <2>2. in1 \in [rx : Values, bandwidthRx : Values]
    BY <2>1
  <2>3. adding \in [Values -> Nat]
    OBVIOUS
  <2>4. ticking \in [step : {"wait", "new", "old", "sub", "again", "store"}, reg : Values]
    BY <2>1
  <2> QED BY <2>1, <2>2, <2>3, <2>4 DEF StatTypeOK
<1>2. Added /\ Seen /\ CountsAreReceived
  BY DEF Added, Seen, CountsAreReceived
<1> QED BY <1>1, <1>2 DEF StatIInv

\* A connection that adds to the counter preserves the invariant, though what
\* others have added meanwhile is lost.
LEMMA AddIInv ==
    ASSUME StatIInv, AddLoad \/ \E v \in Values : AddStore(v)
    PROVE  StatIInv'
<1> USE BoundsAssumption DEF StatIInv, Values
<1>1. CASE AddLoad
  <2> USE <1>1 DEF AddLoad
  <2>1. StatTypeOK'
    <3>1. adding' \in [Values -> Nat] /\ traffic' \in 0..MaxTraffic
      BY DEF StatTypeOK
    <3>2. UNCHANGED <<Rx, in1, ticking, fell>>
      OBVIOUS
    <3> HIDE DEF AddLoad, Values
    <3> QED BY <3>1, <3>2 DEF StatTypeOK
  <2>2. Rx \in Nat /\ traffic \in Nat /\ Rx <= traffic
    BY DEF StatTypeOK, CountsAreReceived
  <2>3. Added'
    <3> SUFFICES ASSUME NEW v \in Values, adding'[v] > 0
                 PROVE  v < traffic'
      BY DEF Added
    <3>1. CASE v = Rx
      BY <2>2, <3>1
    <3>2. CASE v # Rx
      <4>1. adding'[v] = adding[v]
        BY <3>2 DEF StatTypeOK
      <4> QED BY <2>2, <4>1 DEF Added
    <3> QED BY <3>1, <3>2
  <2>4. Seen' /\ CountsAreReceived'
    BY DEF StatTypeOK, Seen, CountsAreReceived
  <2> QED BY <2>1, <2>3, <2>4
<1>2. ASSUME NEW v \in Values, AddStore(v) PROVE StatIInv'
  <2> USE <1>2 DEF AddStore
  <2>1. v \in Nat /\ v < traffic /\ traffic <= MaxTraffic /\ traffic \in Nat
    BY DEF StatTypeOK, Added
  <2>2. Rx' = v + 1 /\ Rx' \in Values /\ Rx' <= traffic
    <3>1. v + 1 \in Values
      BY <2>1
    <3>2. (v + 1) % Word = v + 1
      BY <3>1, Modulo
    <3> QED BY <2>1, <3>1, <3>2
  <2>3. fell' \in BOOLEAN /\ (fell' <=> fell \/ Rx' < Rx)
    BY DEF StatTypeOK
  <2>4. adding' \in [Values -> Nat] /\ \A w \in Values : adding'[w] > 0 => adding[w] > 0
    <3>1. adding \in [Values -> Nat]
      BY DEF StatTypeOK
    <3>2. adding[v] \in Nat
      BY <3>1
    <3>3. adding[v] - 1 \in Nat
      BY <3>2
    <3>4. adding' = [adding EXCEPT ![v] = adding[v] - 1]
      OBVIOUS
    <3> HIDE DEF AddStore
    <3> QED BY <3>1, <3>2, <3>3, <3>4
  <2>5. StatTypeOK'
    <3>1. UNCHANGED <<in1, ticking, traffic>>
      OBVIOUS
    <3> HIDE DEF AddStore, Values
    <3> QED BY <2>2, <2>3, <2>4, <3>1 DEF StatTypeOK
  <2>6. Added'
    BY <2>4 DEF Added
  <2>7. Seen' /\ CountsAreReceived'
    BY <2>2, <2>3 DEF StatTypeOK, Seen, CountsAreReceived
  <2> QED BY <2>5, <2>6, <2>7
<1> QED BY <1>1, <1>2

\* The ticker preserves it: the difference wraps only after a fall.
LEMMA TickIInv ==
    ASSUME StatIInv, TickLoad \/ TickSub \/ TickStore
    PROVE  StatIInv'
<1> USE BoundsAssumption DEF StatIInv, Values
<1>1. ASSUME NEW new \in Values, NEW old \in Values
      PROVE  /\ (new + Word - old) % Word \in Values
             /\ old <= new => (new + Word - old) % Word <= new
  <2>1. new + Word - old \in Nat
    OBVIOUS
  <2>2. CASE old <= new
    <3>1. new - old \in Values /\ new + Word - old = (new - old) + Word
      BY <2>2
    <3>2. ((new - old) + Word) % Word = new - old
      BY <3>1, Modulo
    <3> QED BY <2>1, <3>1, <3>2, Modulo
  <2> QED BY <2>1, <2>2, Modulo
<1>2. ASSUME TickLoad PROVE StatIInv'
  <2> DEFINE fromOld == (Rx + Word - ticking.reg) % Word
             fromNew == (ticking.reg + Word - in1.rx) % Word
  <2>1. UNCHANGED <<Rx, in1, adding, traffic, fell>>
    BY <1>2 DEF TickLoad, Load
  <2>2. Rx \in Values /\ ticking.reg \in Values /\ in1.rx \in Values
    BY DEF StatTypeOK
  <2>3. fromOld \in Values /\ (ticking.reg <= Rx => fromOld <= Rx)
    BY <1>1, <2>2
  <2>4. fromNew \in Values /\ (in1.rx <= ticking.reg => fromNew <= ticking.reg)
    BY <1>1, <2>2
  <2>5. \/ ticking' = [step |-> "new", reg |-> in1.rx]
        \/ ticking.step = "new" /\ ticking' = [step |-> "sub", reg |-> fromOld]
        \/ ticking' = [step |-> "old", reg |-> Rx]
        \/ ticking.step = "old" /\ ticking' = [step |-> "sub", reg |-> fromNew]
        \/ ticking' = [step |-> "store", reg |-> Rx]
    BY <1>2 DEF TickLoad, Load
  <2> HIDE DEF fromOld, fromNew
  <2>6. StatTypeOK'
    <3> HIDE DEF Values
    <3>1. ticking' \in [step : {"wait", "new", "old", "sub", "again", "store"}, reg : Values]
      BY <2>2, <2>3, <2>4, <2>5
    <3> QED BY <2>1, <3>1 DEF StatTypeOK
  <2>7. Added' /\ CountsAreReceived'
    BY <2>1 DEF Added, CountsAreReceived
  <2>8. Seen'
    BY <2>1, <2>2, <2>3, <2>4, <2>5 DEF Seen
  <2> QED BY <2>6, <2>7, <2>8
<1>3. CASE TickSub \/ TickStore
  <2> USE <1>3 DEF TickSub, TickStore
  <2>1. StatTypeOK'
    <3> HIDE DEF Values
    <3>1. UNCHANGED <<Rx, adding, traffic, fell>> /\ ticking.reg \in Values
      BY DEF StatTypeOK
    <3>2. in1' \in [rx : Values, bandwidthRx : Values]
      BY <3>1 DEF StatTypeOK
    <3>3. \E step \in {"again", "wait"} : ticking' = [step |-> step, reg |-> 0]
      OBVIOUS
    <3>4. 0 \in Values
      BY DEF Values
    <3> QED BY <3>1, <3>2, <3>3, <3>4 DEF StatTypeOK
  <2>2. Added'
    BY DEF Added
  <2>3. Seen'
    BY DEF StatTypeOK, Seen
  <2>4. CountsAreReceived'
    BY DEF StatTypeOK, Seen, CountsAreReceived
  <2> QED BY <2>1, <2>2, <2>3, <2>4
<1> QED BY <1>2, <1>3

\* So does a Reset, in each of its two steps.
LEMMA ResetIInv ==
    ASSUME StatIInv, ResetRx \/ ResetIn1
    PROVE  StatIInv'
<1> USE BoundsAssumption DEF StatIInv, Values
<1>1. CASE ResetRx
  <2> USE <1>1 DEF ResetRx
  <2>1. fell' \in BOOLEAN /\ (~fell' => ~fell /\ ~(Rx > 0))
    BY DEF StatTypeOK
  <2>2. StatTypeOK'
    BY <2>1 DEF StatTypeOK
  <2>3. Added' /\ Seen' /\ CountsAreReceived'
    BY <2>1 DEF StatTypeOK, Added, Seen, CountsAreReceived
  <2> QED BY <2>2, <2>3
<1>2. CASE ResetIn1
  <2> USE <1>2 DEF ResetIn1
  <2>1. fell' \in BOOLEAN /\ (~fell' => ticking.step = "wait")
    BY DEF StatTypeOK
  <2> QED BY <2>1 DEF StatTypeOK, Added, Seen, CountsAreReceived
<1> QED BY <1>1, <1>2

----------------------------------------------------------------------------
(* The calls. *)

\* Where a call can stand, and what is to be stopped meanwhile.
CallInv ==
    /\ app.call = "none" <=> app.step = "idle"
    /\ app.call = "start" =>
        /\ app.step \in {"stat", "in1", "connect", "tcp", "udp"}
        /\ client # 0 /\ due = app.kind /\ due # "none"
        /\ app.step = "connect" => due = "mpx"
    /\ app.call = "stop" =>
        /\ app.step \in {"stat", "in1", "cancel", "closetcp", "closeudp", "mc"}
        /\ due \in {"none", app.kind}
    /\ app.call = "reset" => app.step \in {"stat", "in1"}

NoneOpen == \A c \in Clients : "open" \notin {tcp[c], udp[c]}

\* Only the global client has sockets open, and only as far as Start and Stop
\* have come with it.  Stop returns early when the listener is closed already:
\* then so is the packet socket.
SocketInv ==
    /\ \A c \in Clients : "open" \in {tcp[c], udp[c]} => c = client /\ due # "none"
    /\ \A c \in Clients :
        tcp[c] = "closed" => udp[c] # "open" \/ (c = client /\ At("stop", "closeudp"))
    /\ app.call = "start" /\ app.step # "udp" => NoneOpen
    /\ At("start", "udp") => tcp[client] = "open" /\ udp[client] # "open"
    /\ At("stop", "closeudp") => tcp[client] # "open"
    /\ At("stop", "mc") => NoneOpen

\* The only multiplexed connections that are open are those that
\* StopWebsocketMpx closes, and it is due.
PoolInv ==
    /\ pools \subseteq {mc}
    /\ pools # {} => due = "mpx"
    /\ app.call = "start" /\ app.step \in {"stat", "in1", "connect"} => pools = {}

LifeInv == CallInv /\ SocketInv /\ PoolInv
IInv == StatIInv /\ TypeOK /\ LifeInv

USE DEF Kinds, Clients, At, Goto, Return, callVars, sockVars

\* What TypeOK says of the variables of Library, one by one.
LEMMA Types ==
    ASSUME TypeOK
    PROVE  /\ client \in 0..MaxStarts /\ mc \in 0..MaxStarts
           /\ tcp \in [Clients -> {"nil", "open", "closed"}]
           /\ udp \in [Clients -> {"nil", "open", "closed"}]
           /\ accept \in [Clients -> BOOLEAN] /\ loop \in [Clients -> BOOLEAN]
           /\ client # 0 => client \in Clients
BY BoundsAssumption DEF TypeOK

LEMMA InitIInv == Init => IInv
<1> SUFFICES ASSUME Init PROVE IInv
  OBVIOUS
<1> USE BoundsAssumption DEF Init
<1>1. StatIInv
  BY StatInitIInv
<1>2. TypeOK
  BY <1>1 DEF StatIInv, TypeOK
<1>3. LifeInv
  BY DEF LifeInv, CallInv, SocketInv, PoolInv, NoneOpen
<1> QED BY <1>1, <1>2, <1>3 DEF IInv

\* The counter keeps its invariant whatever call or loop moves.
LEMMA StatIInvKept == ASSUME IInv, [Next]_vars PROVE StatIInv'
<1> USE DEF IInv
<1>1. CASE UNCHANGED statVars
  BY <1>1 DEF statVars, StatIInv, StatTypeOK, Added, Seen, CountsAreReceived
<1>2. CASE StatNext
  BY <1>2, AddIInv, TickIInv DEF StatNext
<1>3. CASE ResetRx \/ ResetIn1
  BY <1>3, ResetIInv
<1>4. UNCHANGED statVars \/ StatNext \/ ResetRx \/ ResetIn1
  BY DEF Next, vars, Call, Count, StartTCPUDP, StartWebsocket, StartWebsocketMpx, Start,
         StopTCPUDP, StopWebsocket, StopWebsocketMpx, Stop, ResetTCPUDP, StatReset,
         AfterReset, Connect, ListenTCP, ListenUDP, StartFails, Cancel, CloseTCP, CloseUDP,
         CloseMpx, AcceptEnds, LoopEnds
<1> QED BY <1>1, <1>2, <1>3, <1>4

LEMMA BeginIInv ==
    ASSUME IInv, StatIInv', NEW k \in Kinds, Start(k) \/ Stop(k) \/ ResetTCPUDP
    PROVE  IInv'
<1> USE BoundsAssumption, Types DEF IInv
<1>1. StatTypeOK'
  BY DEF StatIInv
<1>2. CASE Start(k)
  <2>1. TypeOK'
    BY <1>1, <1>2 DEF Start, TypeOK
  <2>2. LifeInv'
    BY <1>2 DEF Start, TypeOK, LifeInv, CallInv, SocketInv, PoolInv, NoneOpen
  <2> QED BY <2>1, <2>2
<1>3. CASE Stop(k)
  <2>1. TypeOK'
    BY <1>1, <1>3 DEF Stop, TypeOK
  <2>2. LifeInv'
    BY <1>3 DEF Stop, TypeOK, LifeInv, CallInv, SocketInv, PoolInv, NoneOpen
  <2> QED BY <2>1, <2>2
<1>4. CASE ResetTCPUDP
  <2>1. TypeOK'
    BY <1>1, <1>4 DEF ResetTCPUDP, TypeOK
  <2>2. LifeInv'
    BY <1>4 DEF ResetTCPUDP, TypeOK, LifeInv, CallInv, SocketInv, PoolInv, NoneOpen
  <2> QED BY <2>1, <2>2
<1> QED BY <1>2, <1>3, <1>4

LEMMA StartIInv ==
    ASSUME IInv, StatIInv',
           StatReset \/ AfterReset \/ Connect \/ ListenTCP \/ ListenUDP \/ StartFails
    PROVE  IInv'
<1> USE BoundsAssumption, Types DEF IInv
<1>1. StatTypeOK'
  BY DEF StatIInv
<1>2. CASE StatReset
  <2>1. TypeOK'
    BY <1>1, <1>2 DEF StatReset, TypeOK
  <2>2. LifeInv'
    BY <1>2 DEF StatReset, TypeOK, LifeInv, CallInv, SocketInv, PoolInv, NoneOpen
  <2> QED BY <2>1, <2>2
<1>3. CASE AfterReset
  <2>1. TypeOK'
    BY <1>1, <1>3 DEF AfterReset, TypeOK, LifeInv, CallInv
  <2>2. LifeInv'
    BY <1>3 DEF AfterReset, TypeOK, LifeInv, CallInv, SocketInv, PoolInv, NoneOpen
  <2> QED BY <2>1, <2>2
<1>4. CASE Connect
  <2>1. TypeOK'
    BY <1>1, <1>4 DEF Connect, TypeOK
  <2>2. LifeInv'
    BY <1>4 DEF Connect, TypeOK, LifeInv, CallInv, SocketInv, PoolInv, NoneOpen
  <2> QED BY <2>1, <2>2
<1>5. CASE ListenTCP
  <2>1. TypeOK'
    BY <1>1, <1>5 DEF ListenTCP, TypeOK
  <2>2. LifeInv'
    BY <1>5 DEF ListenTCP, TypeOK, LifeInv, CallInv, SocketInv, PoolInv, NoneOpen
  <2> QED BY <2>1, <2>2
<1>6. CASE ListenUDP
  <2>1. TypeOK'
    BY <1>1, <1>6 DEF ListenUDP, TypeOK
  <2>2. LifeInv'
    BY <1>6 DEF ListenUDP, TypeOK, LifeInv, CallInv, SocketInv, PoolInv, NoneOpen
  <2> QED BY <2>1, <2>2
<1>7. CASE StartFails
  <2>1. TypeOK'
    BY <1>1, <1>7 DEF StartFails, TypeOK
  <2>2. LifeInv'
    BY <1>7 DEF StartFails, TypeOK, LifeInv, CallInv, SocketInv, PoolInv, NoneOpen
  <2> QED BY <2>1, <2>2
<1> QED BY <1>2, <1>3, <1>4, <1>5, <1>6, <1>7

LEMMA StopIInv ==
    ASSUME IInv, StatIInv', Cancel \/ CloseTCP \/ CloseUDP \/ CloseMpx
    PROVE  IInv'
<1> USE BoundsAssumption, Types DEF IInv
<1>1. StatTypeOK'
  BY DEF StatIInv
<1>2. CASE Cancel
  <2>1. TypeOK'
    BY <1>1, <1>2 DEF Cancel, TypeOK
  <2>2. LifeInv'
    BY <1>2 DEF Cancel, TypeOK, LifeInv, CallInv, SocketInv, PoolInv, NoneOpen
  <2> QED BY <2>1, <2>2
<1>3. CASE CloseTCP
  <2>1. TypeOK'
    BY <1>1, <1>3 DEF CloseTCP, TypeOK
  <2>2. LifeInv'
    BY <1>3 DEF CloseTCP, TypeOK, LifeInv, CallInv, SocketInv, PoolInv, NoneOpen
  <2> QED BY <2>1, <2>2
<1>4. CASE CloseUDP
  <2>1. TypeOK'
    BY <1>1, <1>4 DEF CloseUDP, TypeOK
  <2>2. LifeInv'
    BY <1>4 DEF CloseUDP, TypeOK, LifeInv, CallInv, SocketInv, PoolInv, NoneOpen
  <2> QED BY <2>1, <2>2
<1>5. CASE CloseMpx
  <2>1. TypeOK'
    BY <1>1, <1>5 DEF CloseMpx, TypeOK
  <2>2. LifeInv'
    BY <1>5 DEF CloseMpx, TypeOK, LifeInv, CallInv, SocketInv, PoolInv, NoneOpen
  <2> QED BY <2>1, <2>2
<1> QED BY <1>2, <1>3, <1>4, <1>5

LEMMA LoopIInv ==
    ASSUME IInv, StatIInv', NEW c \in Clients, AcceptEnds(c) \/ LoopEnds(c)
    PROVE  IInv'
<1> USE BoundsAssumption, Types DEF IInv
<1>1. StatTypeOK'
  BY DEF StatIInv
<1>2. CASE AcceptEnds(c)
  <2>1. TypeOK'
    BY <1>1, <1>2 DEF AcceptEnds, TypeOK
  <2>2. LifeInv'
    BY <1>2 DEF AcceptEnds, TypeOK, LifeInv, CallInv, SocketInv, PoolInv, NoneOpen
  <2> QED BY <2>1, <2>2
<1>3. CASE LoopEnds(c)
  <2>1. TypeOK'
    BY <1>1, <1>3 DEF LoopEnds, TypeOK
  <2>2. LifeInv'
    BY <1>3 DEF LoopEnds, TypeOK, LifeInv, CallInv, SocketInv, PoolInv, NoneOpen
  <2> QED BY <2>1, <2>2
<1> QED BY <1>2, <1>3

LEMMA StepIInv == IInv /\ [Next]_vars => IInv'
<1> SUFFICES ASSUME IInv, [Next]_vars PROVE IInv'
  OBVIOUS
<1>1. StatIInv'
  BY StatIInvKept
<1>2. CASE \E k \in Kinds : Start(k) \/ Stop(k) \/ ResetTCPUDP
  BY <1>1, <1>2, BeginIInv
<1>3. CASE StatReset \/ AfterReset \/ Connect \/ ListenTCP \/ ListenUDP \/ StartFails
  BY <1>1, <1>3, StartIInv
<1>4. CASE Cancel \/ CloseTCP \/ CloseUDP \/ CloseMpx
  BY <1>1, <1>4, StopIInv
<1>5. CASE \E c \in Clients : AcceptEnds(c) \/ LoopEnds(c)
  BY <1>1, <1>5, LoopIInv
<1>6. CASE UNCHANGED <<sockVars, callVars, app>>
  BY <1>1, <1>6
     DEF IInv, StatIInv, TypeOK, LifeInv, CallInv, SocketInv, PoolInv, NoneOpen
<1>7. CASE UNCHANGED vars
  BY <1>6, <1>7 DEF vars
<1> QED
  BY <1>2, <1>3, <1>4, <1>5, <1>6, <1>7
     DEF Next, Call, Count, StartTCPUDP, StartWebsocket, StartWebsocketMpx, StopTCPUDP,
         StopWebsocket, StopWebsocketMpx

----------------------------------------------------------------------------

\* The inductive invariant: what Start has opened and Stop has not yet closed
\* belongs to the global client, and the counter agrees with the traffic.
THEOREM Invariance == Spec => []IInv
<1>1. Init => IInv
  BY InitIInv
<1>2. IInv /\ [Next]_vars => IInv'
  BY StepIInv
<1> QED BY <1>1, <1>2, PTL DEF Spec

\* Every variable keeps its type; the steps of Start and Stop that use the
\* global client have one.
THEOREM TypeCorrect == Spec => []TypeOK
<1>1. IInv => TypeOK
  BY DEF IInv
<1> QED BY <1>1, Invariance, PTL

\* When Stop has returned nothing is open any more, though an earlier step
\* failed, and though the packet loop closes its socket at any time.
THEOREM StopClosesAll == Spec => []StoppedIsClosed
<1>1. IInv => StoppedIsClosed
  <2> SUFFICES ASSUME IInv, app.step = "idle", due = "none"
               PROVE  (\A c \in Clients : "open" \notin {tcp[c], udp[c]}) /\ pools = {}
    BY DEF StoppedIsClosed
  <2> QED BY DEF IInv, LifeInv, SocketInv, PoolInv
<1> QED BY <1>1, Invariance, PTL

\* The counts never exceed what was received, and the bandwidth only after the
\* counter has gone down under the ticker.
THEOREM CountsAreBounded == Spec => []CountsAreReceived
<1>1. IInv => CountsAreReceived
  BY DEF IInv, StatIInv
<1> QED BY <1>1, Invariance, PTL
==============================================================================
