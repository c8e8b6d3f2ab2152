--------------------------- MODULE ClientUdpProofs ---------------------------
(***************************************************************************)
(* Proofs about ClientUdp, for any sets of programs, hosts and sockets and *)
(* any number of resets.                                                   *)
(*                                                                         *)
(* Locked is what pcResetRLock gives, Sessions what holds of the table and *)
(* the goroutines, Traffic what holds of the datagrams in transit.         *)
(***************************************************************************)
EXTENDS ClientUdp, TLAPS

\* Nobody holds the lock for writing while the loop stands between taking the
\* cipher and using the address.
Locked ==
    /\ cipher = server
    /\ reset # "idle" => cipher < MaxResets
    /\ loop \in {"dial", "first"} => held
    /\ reset = "holding" => ~held
    /\ loop = "parked" => reset # "idle"
    /\ FirstDatagramSuitsServer

\* A socket in the table, and one that a goroutine is to close, was opened for
\* the peer that it is listed under.
Sessions ==
    /\ \A p \in Peers, s \in Sockets : nat[p] = s => owner[s] = p /\ copier[s] # "none"
    /\ \A s \in Sockets :
          /\ sock[s] = "unbound" <=> copier[s] = "none"
          /\ copier[s] # "none" => owner[s] \in Peers
          /\ victim[s] \in Sockets => copier[victim[s]] # "none"

\* The loop has a datagram in hand.
InHand == loop \in {"lookup", "rlock", "parked", "dial", "first", "send"}

Traffic ==
    /\ InHand => <<peer, host>> \in asked
    /\ loop \in {"first", "send"} => owner[pc] = peer /\ copier[pc] # "none"
    /\ \A s \in Sockets :
          /\ \A h \in Hosts :
                <<s, h>> \in sent => <<owner[s], h>> \in asked /\ copier[s] # "none"
          /\ \A h \in inbox[s] : <<s, h>> \in sent
          /\ copier[s] = "write" => reply[s] \in Hosts /\ <<s, reply[s]>> \in sent

IInv == TypeOK /\ Locked /\ Sessions /\ Traffic

----------------------------------------------------------------------------
\* The initial state satisfies the invariant.
LEMMA InitIInv == Init => IInv
<1> SUFFICES ASSUME Init PROVE IInv
  OBVIOUS
<1> USE NoneAssumption, MaxResetsAssumption DEF Init, NatInit
<1>1. TypeOK
  <2>1. NatTypeOK
    BY DEF NatTypeOK
  <2>2. 0 \in 0..MaxResets
    OBVIOUS
  <2> QED BY <2>1, <2>2 DEF TypeOK
<1>2. Locked
  BY DEF Locked, FirstDatagramSuitsServer
<1>3. Sessions
  BY DEF Sessions
<1>4. Traffic
  BY DEF Traffic, InHand
<1> QED BY <1>1, <1>2, <1>3, <1>4 DEF IInv

\* A step that leaves the table, the sockets and the datagrams alone, and takes
\* the loop no nearer to a write, preserves Sessions and Traffic.
LEMMA QuietStep ==
    ASSUME IInv, UNCHANGED <<natVars, peer, host, asked>>,
           InHand' => InHand,
           loop' \in {"first", "send"} => loop' = loop /\ pc' = pc
    PROVE  Sessions' /\ Traffic'
<1> USE DEF IInv, natVars, sessionVars, trafficVars
<1>1. Sessions'
  BY DEF Sessions
<1>2. InHand' => <<peer, host>>' \in asked'
  BY DEF Traffic
<1>3. loop' \in {"first", "send"} => (owner[pc] = peer /\ copier[pc] # "none")'
  BY DEF Traffic
<1>4. Traffic'
  BY <1>2, <1>3 DEF Traffic
<1> QED BY <1>1, <1>4

\* The packet loop's actions preserve the invariant.
LEMMA LoopIInv ==
    ASSUME IInv, ~crashed,
           Loop \/ \E p \in Peers, h \in Hosts : Receive(p, h) /\ UNCHANGED crashed
    PROVE  IInv'
<1> USE NoneAssumption, MaxResetsAssumption DEF IInv
<1>1. ASSUME NEW p \in Peers, NEW h \in Hosts, Receive(p, h), UNCHANGED crashed
      PROVE  IInv'
  <2> USE <1>1 DEF Receive, natVars, sessionVars, trafficVars, resetVars
  <2>1. TypeOK' /\ Locked'
    BY DEF TypeOK, NatTypeOK, Locked, FirstDatagramSuitsServer
  <2>2. Sessions' /\ Traffic'
    BY DEF Sessions, Traffic, InHand
  <2> QED BY <2>1, <2>2
<1>2. CASE Select /\ UNCHANGED crashed
  <2> USE <1>2 DEF Select, NewRound, natVars, sessionVars, trafficVars, resetVars
  <2>1. TypeOK' /\ Locked'
    BY DEF TypeOK, NatTypeOK, Locked, FirstDatagramSuitsServer
  <2>2. Sessions' /\ Traffic'
    BY DEF Sessions, Traffic, InHand
  <2> QED BY <2>1, <2>2
<1>3. CASE ReceiveFails /\ UNCHANGED crashed
  <2> USE <1>3 DEF ReceiveFails, resetVars
  <2>1. TypeOK' /\ Locked'
    BY DEF TypeOK, NatTypeOK, Locked, FirstDatagramSuitsServer, natVars, sessionVars,
           trafficVars
  <2>2. Sessions' /\ Traffic'
    BY QuietStep DEF InHand
  <2> QED BY <2>1, <2>2
<1>4. CASE Lookup /\ UNCHANGED crashed
  <2> USE <1>4 DEF Lookup, natVars, sessionVars, trafficVars, resetVars
  <2>1. peer \in Peers /\ nat[peer] \in Sockets \cup {None}
    BY DEF TypeOK, NatTypeOK, Traffic, InHand
  <2>2. TypeOK' /\ Locked'
    BY <2>1 DEF TypeOK, NatTypeOK, Locked, FirstDatagramSuitsServer
  <2>3. Sessions'
    BY DEF Sessions
  <2>4. loop' = "send" => owner[pc'] = peer /\ copier[pc'] # "none"
    BY <2>1 DEF Sessions
  <2>5. Traffic'
    BY <2>4 DEF Traffic, InHand
  <2> QED BY <2>2, <2>3, <2>5
<1>5. CASE RLock /\ UNCHANGED crashed
  <2> USE <1>5 DEF RLock, resetVars
  <2>1. TypeOK' /\ Locked'
    BY DEF TypeOK, NatTypeOK, Locked, FirstDatagramSuitsServer, natVars, sessionVars,
           trafficVars
  <2>2. Sessions' /\ Traffic'
    BY QuietStep DEF InHand
  <2> QED BY <2>1, <2>2
<1>6. ASSUME NEW s \in Sockets, OpenSession(s), UNCHANGED crashed
      PROVE  IInv'
  <2> USE <1>6 DEF OpenSession, Add, resetVars
  <2>1. peer \in Peers /\ copier[s] = "none"
    BY DEF TypeOK, Traffic, InHand, Sessions
  <2>2. TypeOK'
    BY <2>1 DEF TypeOK, NatTypeOK, trafficVars
  <2>3. Locked'
    BY DEF TypeOK, Locked, FirstDatagramSuitsServer
  <2>4. Sessions'
    BY <2>1 DEF TypeOK, NatTypeOK, Sessions
  <2>5. Traffic'
    BY <2>1, ZenonT(60) DEF TypeOK, NatTypeOK, Traffic, InHand, trafficVars
  <2> QED BY <2>2, <2>3, <2>4, <2>5
<1>7. CASE OpenFails /\ UNCHANGED crashed
  <2> USE <1>7 DEF OpenFails, resetVars
  <2>1. TypeOK' /\ Locked'
    BY DEF TypeOK, NatTypeOK, Locked, FirstDatagramSuitsServer, natVars, sessionVars,
           trafficVars
  <2>2. Sessions' /\ Traffic'
    BY QuietStep DEF InHand
  <2> QED BY <2>1, <2>2
<1>8. CASE Write /\ UNCHANGED crashed
  <2> USE <1>8 DEF Write, Transmit, sessionVars, resetVars
  <2>1. pc \in Sockets /\ host \in Hosts /\ <<owner[pc], host>> \in asked
    BY DEF TypeOK, Traffic, InHand
  <2>2. TypeOK' /\ Locked'
    BY <2>1 DEF TypeOK, NatTypeOK, Locked, FirstDatagramSuitsServer, trafficVars
  <2>3. Sessions'
    BY DEF Sessions
  <2>4. Traffic'
    BY <2>1 DEF Traffic, InHand, trafficVars
  <2> QED BY <2>2, <2>3, <2>4
<1>9. CASE RUnlock
  <2> USE <1>9 DEF RUnlock, resetVars
  <2>1. TypeOK' /\ Locked'
    BY DEF TypeOK, NatTypeOK, Locked, FirstDatagramSuitsServer, natVars, sessionVars,
           trafficVars
  <2>2. Sessions' /\ Traffic'
    BY QuietStep DEF InHand
  <2> QED BY <2>1, <2>2
<1>10. CASE RUnlockOfUnlocked
  <2> USE <1>10 DEF RUnlockOfUnlocked, loopVars, resetVars
  <2>1. TypeOK' /\ Locked'
    BY DEF TypeOK, NatTypeOK, Locked, FirstDatagramSuitsServer, natVars, sessionVars,
           trafficVars
  <2>2. Sessions' /\ Traffic'
    BY QuietStep DEF InHand
  <2> QED BY <2>1, <2>2
<1> QED
  BY <1>1, <1>2, <1>3, <1>4, <1>5, <1>6, <1>7, <1>8, <1>9, <1>10 DEF Loop, Step

\* Client.Reset and Client.Stop preserve the invariant.  Reset comes to hold
\* the lock only when the loop does not.
LEMMA CallsIInv ==
    ASSUME IInv, Reset \/ Stop
    PROVE  IInv'
<1> USE NoneAssumption, MaxResetsAssumption DEF IInv, loopVars, resetVars
<1>1. CASE Reset
  <2>1. TypeOK'
    <3> USE <1>1 DEF Reset, TypeOK, NatTypeOK, natVars, sessionVars, trafficVars
    <3>1. CASE ResetLock \/ ResetAcquire
      BY <3>1 DEF ResetLock, ResetAcquire
    <3>2. CASE ResetUnlock
      <4>1. server + 1 \in 0..MaxResets /\ cipher + 1 \in 0..MaxResets
        BY <3>2 DEF ResetUnlock, Locked
      <4> QED BY <3>2, <4>1 DEF ResetUnlock, Locked
    <3> QED BY <3>1, <3>2
  <2>2. Locked'
    BY <1>1 DEF Reset, ResetLock, ResetAcquire, ResetUnlock, TypeOK, Locked,
                FirstDatagramSuitsServer
  <2>3. Sessions' /\ Traffic'
    BY <1>1, QuietStep DEF Reset, ResetLock, ResetAcquire, ResetUnlock, InHand
  <2> QED BY <2>1, <2>2, <2>3
<1>2. CASE Stop
  <2>1. TypeOK' /\ Locked'
    BY <1>2 DEF Stop, TypeOK, NatTypeOK, Locked, FirstDatagramSuitsServer, natVars,
                sessionVars, trafficVars
  <2>2. Sessions' /\ Traffic'
    BY <1>2, QuietStep DEF Stop, InHand
  <2> QED BY <2>1, <2>2
<1> QED BY <1>1, <1>2

\* The goroutines' actions and the network preserve the invariant: an answer
\* that waits at a socket is one that the socket's owner asked for.
LEMMA CopierIInv ==
    ASSUME IInv, Others,
           NEW s \in Sockets,
           Copier(s) \/ \E h \in Hosts : Arrive(s, h)
    PROVE  IInv'
<1> USE NoneAssumption DEF IInv, Others, loopVars, resetVars
<1>1. Locked'
  BY DEF Locked, FirstDatagramSuitsServer
<1>2. CASE ReadReply(s) \/ ReadFails(s) \/ WriteBackFails(s)
  <2> USE <1>2 DEF ReadReply, ReadFails, WriteBackFails, trafficVars
  <2>1. TypeOK'
    BY DEF TypeOK, NatTypeOK
  <2>2. Sessions'
    BY DEF TypeOK, NatTypeOK, Sessions
  <2>3. InHand' => <<peer, host>> \in asked
    BY DEF Traffic, InHand
  <2>4. \A t \in Sockets : copier'[t] = "none" <=> copier[t] = "none"
    BY DEF TypeOK, NatTypeOK
  <2>5. \A t \in Sockets :
           /\ \A h \in inbox'[t] : <<t, h>> \in sent
           /\ copier'[t] = "write" => reply'[t] \in Hosts /\ <<t, reply'[t]>> \in sent
    <3>1. CASE ReadReply(s)
      <4>1. PICK h \in inbox[s] : /\ reply' = [reply EXCEPT ![s] = h]
                                  /\ inbox' = [inbox EXCEPT ![s] = @ \ {h}]
        BY <3>1
      <4>2. h \in Hosts /\ <<s, h>> \in sent
        BY DEF TypeOK, NatTypeOK, Traffic
      <4> QED BY <3>1, <4>1, <4>2 DEF TypeOK, NatTypeOK, Traffic
    <3>2. CASE ReadFails(s) \/ WriteBackFails(s)
      BY <3>2 DEF TypeOK, NatTypeOK, Traffic
    <3> QED BY <3>1, <3>2
  <2>6. Traffic'
    BY <2>3, <2>4, <2>5 DEF Traffic, TypeOK
  <2> QED BY <1>1, <2>1, <2>2, <2>6
<1>3. CASE WriteBack(s)
  <2> USE <1>3 DEF WriteBack
  <2>1. owner[s] \in Peers /\ reply[s] \in Hosts
    BY DEF Sessions, Traffic
  <2>2. TypeOK'
    BY <2>1 DEF TypeOK, NatTypeOK
  <2>3. Sessions'
    BY DEF TypeOK, NatTypeOK, Sessions
  <2>4. Traffic'
    BY DEF TypeOK, NatTypeOK, Traffic, InHand
  <2> QED BY <1>1, <2>2, <2>3, <2>4
<1>4. CASE DelEntry(s)
  <2> USE <1>4 DEF DelEntry, trafficVars
  <2>1. owner[s] \in Peers /\ nat[owner[s]] \in Sockets \cup {None}
    BY DEF Sessions, TypeOK, NatTypeOK
  <2>2. TypeOK'
    BY <2>1 DEF TypeOK, NatTypeOK
  <2>3. Sessions'
    BY <2>1 DEF TypeOK, NatTypeOK, Sessions
  <2>4. Traffic'
    BY <2>1 DEF TypeOK, NatTypeOK, Traffic, InHand
  <2> QED BY <1>1, <2>2, <2>3, <2>4
<1>5. CASE CloseVictim(s)
  <2> USE <1>5 DEF CloseVictim
  <2>1. TypeOK'
    BY ZenonT(60) DEF TypeOK, NatTypeOK
  <2>2. Sessions'
    BY DEF TypeOK, NatTypeOK, Sessions
  <2>3. Traffic'
    BY DEF TypeOK, NatTypeOK, Traffic, InHand
  <2> QED BY <1>1, <2>1, <2>2, <2>3
<1>6. ASSUME NEW h \in Hosts, Arrive(s, h)
      PROVE  IInv'
  <2> USE <1>6 DEF Arrive, sessionVars
  <2>1. TypeOK'
    BY DEF TypeOK, NatTypeOK
  <2>2. Sessions'
    BY DEF Sessions
  <2>3. Traffic'
    BY DEF TypeOK, NatTypeOK, Traffic, InHand
  <2> QED BY <1>1, <2>1, <2>2, <2>3
<1> QED BY <1>2, <1>3, <1>4, <1>5, <1>6 DEF Copier

\* A step that changes nothing preserves the invariant.
LEMMA StutterIInv == IInv /\ UNCHANGED vars => IInv'
BY DEF IInv, TypeOK, NatTypeOK, Locked, FirstDatagramSuitsServer, Sessions, Traffic,
       InHand, vars, natVars, sessionVars, trafficVars, loopVars, resetVars

\* The invariant holds in every reachable state.
THEOREM Invariance == Spec => []IInv
<1>1. IInv /\ [Next]_vars => IInv'
  <2> SUFFICES ASSUME IInv, [Next]_vars
               PROVE  IInv'
    OBVIOUS
  <2>1. CASE Next
    <3>1. CASE Loop \/ \E p \in Peers, h \in Hosts : Receive(p, h) /\ UNCHANGED crashed
      BY <2>1, <3>1, LoopIInv DEF Next
    <3>2. CASE \E s \in Sockets : Copy(s)
      BY <3>2, CopierIInv DEF Copy
    <3>3. CASE \E s \in Sockets, h \in Hosts : Arrive(s, h) /\ Others
      BY <3>3, CopierIInv
    <3>4. CASE Reset \/ Stop
      BY <3>4, CallsIInv
    <3> QED BY <2>1, <3>1, <3>2, <3>3, <3>4 DEF Next
  <2>2. CASE UNCHANGED vars
    BY <2>2, StutterIInv
  <2> QED BY <2>1, <2>2
<1> QED BY <1>1, InitIInv, PTL DEF Spec

----------------------------------------------------------------------------
\* Every variable keeps its type, in udpSocksLocal, Client.Reset and Stop.
THEOREM TypeCorrect == Spec => []TypeOK
BY Invariance, PTL DEF IInv

\* No Reset comes between wrapping a new session's socket in the cipher and
\* reading the address that its first datagram is written to.
THEOREM FirstDatagramFits == Spec => []FirstDatagramSuitsServer
BY Invariance, PTL DEF IInv, Locked

\* The client's packet loop, with Reset and Stop running against it, implements
\* the datagram service, up to its crash.
THEOREM Implementation == Spec => ImplementsService
<1>1. Init => Service!Init
  BY DEF Init, NatInit, Service!Init
<1>2. IInv /\ [Next]_vars => [Service!Next]_(Service!vars)
  <2> SUFFICES ASSUME IInv, [Next]_vars
               PROVE  Service!Next \/ UNCHANGED Service!vars
    OBVIOUS
  <2> USE DEF Service!vars
  <2>1. ASSUME NEW p \in Peers, NEW h \in Hosts, Receive(p, h)
        PROVE  Service!Ask(p, h)
    BY <2>1 DEF Receive, natVars, trafficVars, Service!Ask
  <2>2. CASE Loop
    BY <2>2 DEF Loop, Step, Select, NewRound, ReceiveFails, Lookup, RLock, OpenSession, OpenFails,
                Write, Transmit, RUnlock, RUnlockOfUnlocked,
                natVars, sessionVars, trafficVars, loopVars
  <2>3. ASSUME NEW s \in Sockets, Copy(s)
        PROVE  Service!Next \/ UNCHANGED Service!vars
    <3> USE <2>3 DEF Copy, Others, loopVars
    <3>1. CASE WriteBack(s)
      <4>1. owner[s] \in Peers /\ reply[s] \in Hosts /\ <<owner[s], reply[s]>> \in asked
        BY <3>1 DEF WriteBack, IInv, Sessions, Traffic
      <4>2. Service!Deliver(owner[s], reply[s])
        BY <3>1, <4>1 DEF WriteBack, Service!Deliver
      <4> QED BY <4>1, <4>2 DEF Service!Next
    <3>2. CASE ~WriteBack(s)
      BY <3>2 DEF Copier, ReadReply, ReadFails, WriteBackFails, DelEntry, CloseVictim,
                  trafficVars
    <3> QED BY <3>1, <3>2
  <2>4. ASSUME NEW s \in Sockets, NEW h \in Hosts, Arrive(s, h), Others
        PROVE  UNCHANGED Service!vars
    BY <2>4 DEF Arrive, Others, loopVars
  <2>5. CASE Reset \/ Stop
    BY <2>5 DEF Reset, Stop, natVars, trafficVars, loopVars
  <2>6. CASE UNCHANGED vars
    BY <2>6 DEF vars, natVars, trafficVars, loopVars
  <2> QED BY <2>1, <2>2, <2>3, <2>4, <2>5, <2>6 DEF Next, Service!Next
<1> QED BY <1>1, <1>2, Invariance, PTL DEF Spec, ImplementsService, Service!Spec
==============================================================================
