--------------------------- MODULE UdpRelayProofs ----------------------------
(***************************************************************************)
(* Proofs about UdpRelay, for any sets of peers, hosts and sockets.        *)
(*                                                                         *)
(* Sessions is what the table and the copier goroutines keep true of each  *)
(* other; Traffic is what the packet loop and the copiers keep true of the *)
(* datagrams in transit.  Together with TypeOK they are inductive.         *)
(***************************************************************************)
EXTENDS UdpRelay, TLAPS

\* How far a socket's life has come, told by its goroutine.  The last conjunct
\* is why Close closes the goroutine's own socket: Del returned it.
SocketLife ==
    \A s \in Sockets :
        /\ sock[s] = "unbound" <=> copier[s] = "none"
        /\ Live(s) => sock[s] = "open"
        /\ copier[s] = "done" => sock[s] = "closed"
        /\ copier[s] = "close" => sock[s] = "open" /\ victim[s] = s
        /\ copier[s] # "none" => owner[s] \in Peers

Sessions == SocketLife /\ TableMatchesSessions

\* A datagram in hand is one its peer asked for, and its socket is the peer's:
\* it is still the one in the table, unless its session has ended meanwhile.
InHand ==
    /\ loop \in {"lookup", "send"} => <<peer, host>> \in asked
    /\ loop = "send" => /\ owner[pc] = peer
                        /\ copier[pc] # "none"
                        /\ nat[peer] \in {pc, None}

\* Answers waiting at a socket are answers to what left through it.
InTransit ==
    \A s \in Sockets :
        /\ \A h \in Hosts : <<s, h>> \in sent => copier[s] # "none"
        /\ \A h \in inbox[s] : <<s, h>> \in sent
        /\ copier[s] = "write" => reply[s] \in Hosts /\ <<s, reply[s]>> \in sent

Traffic ==
    /\ InHand
    /\ SessionsArePrivate
    /\ InTransit

IInv == TypeOK /\ Sessions /\ Traffic

----------------------------------------------------------------------------
\* The initial state satisfies the invariant: every socket is unbound.
LEMMA InitIInv == Init => IInv
BY NoneAssumption
DEF Init, NatInit, IInv, TypeOK, NatTypeOK, Sessions, SocketLife, Live,
    TableMatchesSessions, Traffic, InHand, SessionsArePrivate, InTransit

\* The packet loop's actions preserve the invariant.
LEMMA LoopIInv ==
    ASSUME IInv,
           Loop \/ \E p \in Peers, h \in Hosts : Receive(p, h)
    PROVE  IInv'
<1> USE NoneAssumption DEF IInv, Sessions, Traffic
<1>1. ASSUME NEW p \in Peers, NEW h \in Hosts, Receive(p, h)
      PROVE  IInv'
  <2>1. TypeOK'
    BY <1>1 DEF TypeOK, NatTypeOK, Receive, natVars, sessionVars, trafficVars
  <2>2. Sessions'
    BY <1>1 DEF Receive, natVars, sessionVars, trafficVars, SocketLife, Live,
                TableMatchesSessions
  <2>3. Traffic'
    BY <1>1 DEF Receive, natVars, sessionVars, trafficVars, InHand,
                SessionsArePrivate, InTransit
  <2> QED BY <2>1, <2>2, <2>3
<1>2. CASE LookupHit
  <2>1. TypeOK'
    BY <1>2 DEF TypeOK, NatTypeOK, LookupHit, natVars, sessionVars, trafficVars
  <2>2. Sessions'
    BY <1>2 DEF LookupHit, natVars, sessionVars, trafficVars, SocketLife, Live,
                TableMatchesSessions
  <2>3. owner[nat[peer]] = peer /\ Live(nat[peer])
    BY <1>2 DEF LookupHit, TypeOK, NatTypeOK, TableMatchesSessions
  <2>4. Traffic'
    BY <1>2, <2>3 DEF LookupHit, natVars, sessionVars, trafficVars, InHand, Live,
                SessionsArePrivate, InTransit
  <2> QED BY <2>1, <2>2, <2>4
<1>3. ASSUME NEW s \in Sockets, OpenSession(s)
      PROVE  IInv'
  <2> USE <1>3 DEF OpenSession, Add
  <2>1. TypeOK'
    BY DEF TypeOK, NatTypeOK, trafficVars
  <2>2. copier[s] = "none" /\ peer \in Peers
    BY DEF SocketLife, TypeOK
  <2>3. SocketLife'
    BY <2>2 DEF SocketLife, Live, TypeOK, NatTypeOK
  <2>4. TableMatchesSessions'
    BY <2>2 DEF TableMatchesSessions, Live, TypeOK, NatTypeOK
  <2>5. Traffic'
    BY <2>2 DEF InHand, SessionsArePrivate, InTransit, TypeOK, NatTypeOK, trafficVars
  <2> QED BY <2>1, <2>3, <2>4, <2>5
<1>4. CASE OpenFails \/ WriteFails \/ WritePanics
  <2>1. TypeOK'
    BY <1>4 DEF TypeOK, NatTypeOK, OpenFails, WriteFails, WritePanics, natVars, sessionVars, trafficVars
  <2>2. Sessions'
    BY <1>4 DEF OpenFails, WriteFails, WritePanics, natVars, sessionVars, trafficVars, SocketLife, Live,
                TableMatchesSessions
  <2>3. Traffic'
    BY <1>4 DEF OpenFails, WriteFails, WritePanics, natVars, sessionVars, trafficVars, InHand,
                SessionsArePrivate, InTransit
  <2> QED BY <2>1, <2>2, <2>3
<1>5. CASE Write
  <2> USE <1>5 DEF Write, Transmit
  <2>1. TypeOK'
    BY DEF TypeOK, NatTypeOK, sessionVars
  <2>2. Sessions'
    BY DEF sessionVars, SocketLife, Live, TableMatchesSessions
  <2>3. Traffic'
    BY DEF sessionVars, InHand, SessionsArePrivate, InTransit, TypeOK
  <2> QED BY <2>1, <2>2, <2>3
<1> QED BY <1>1, <1>2, <1>3, <1>4, <1>5 DEF Loop

\* The goroutines' actions and the network preserve the invariant.  The step
\* that needs the table's invariant is DelEntry: the entry it removes, named
\* only by the peer, is the goroutine's own socket.
LEMMA CopierIInv ==
    ASSUME IInv, Others,
           NEW s \in Sockets,
           Copier(s) \/ \E h \in Hosts : Arrive(s, h)
    PROVE  IInv'
<1> USE NoneAssumption DEF IInv, Sessions, Traffic, Others, loopVars
<1>1. CASE ReadReply(s)
  <2> USE <1>1 DEF ReadReply
  <2>1. TypeOK'
    BY DEF TypeOK, NatTypeOK
  <2>2. Sessions'
    BY DEF TypeOK, NatTypeOK, SocketLife, Live, TableMatchesSessions
  <2>3. Traffic'
    BY DEF TypeOK, NatTypeOK, InHand, SessionsArePrivate, InTransit
  <2> QED BY <2>1, <2>2, <2>3
<1>2. CASE ReadFails(s)
  <2> USE <1>2 DEF ReadFails, trafficVars
  <2>1. TypeOK'
    BY DEF TypeOK, NatTypeOK
  <2>2. Sessions'
    BY DEF TypeOK, NatTypeOK, SocketLife, Live, TableMatchesSessions
  <2>3. Traffic'
    BY DEF TypeOK, NatTypeOK, InHand, SessionsArePrivate, InTransit
  <2> QED BY <2>1, <2>2, <2>3
<1>3. CASE WriteBack(s)
  <2> USE <1>3 DEF WriteBack
  <2>1. owner[s] \in Peers /\ reply[s] \in Hosts
    BY DEF SocketLife, InTransit
  <2>2. TypeOK'
    BY <2>1 DEF TypeOK, NatTypeOK
  <2>3. Sessions'
    BY DEF TypeOK, NatTypeOK, SocketLife, Live, TableMatchesSessions
  <2>4. Traffic'
    BY DEF TypeOK, NatTypeOK, InHand, SessionsArePrivate, InTransit
  <2> QED BY <2>2, <2>3, <2>4
<1>4. CASE WriteBackFails(s)
  <2> USE <1>4 DEF WriteBackFails
  <2>1. TypeOK'
    BY DEF TypeOK, NatTypeOK
  <2>2. Sessions'
    BY DEF TypeOK, NatTypeOK, SocketLife, Live, TableMatchesSessions
  <2>3. Traffic'
    BY DEF TypeOK, NatTypeOK, InHand, SessionsArePrivate, InTransit
  <2> QED BY <2>1, <2>2, <2>3
<1>5. CASE DelEntry(s)
  <2> USE <1>5 DEF DelEntry, trafficVars
  <2>1. owner[s] \in Peers /\ nat[owner[s]] = s
    BY DEF SocketLife, TableMatchesSessions, Live
  <2>2. TypeOK'
    BY <2>1 DEF TypeOK, NatTypeOK
  <2>3. copier' = [copier EXCEPT ![s] = "close"] /\ victim'[s] = s
    BY <2>1 DEF TypeOK, NatTypeOK
  <2>4. SocketLife'
    BY <2>1, <2>3 DEF TypeOK, NatTypeOK, SocketLife, Live
  <2>5. TableMatchesSessions'
    BY <2>1, <2>3 DEF TypeOK, NatTypeOK, TableMatchesSessions, Live
  <2>6. Traffic'
    BY <2>1, <2>3 DEF TypeOK, NatTypeOK, InHand, SessionsArePrivate, InTransit
  <2> QED BY <2>2, <2>4, <2>5, <2>6
<1>6. CASE CloseVictim(s)
  <2> USE <1>6 DEF CloseVictim
  <2>1. victim[s] = s
    BY DEF SocketLife
  <2>2. TypeOK'
    BY <2>1 DEF TypeOK, NatTypeOK
  <2>3. Sessions'
    BY <2>1 DEF TypeOK, NatTypeOK, SocketLife, Live, TableMatchesSessions
  <2>4. Traffic'
    BY <2>1 DEF TypeOK, NatTypeOK, InHand, SessionsArePrivate, InTransit
  <2> QED BY <2>2, <2>3, <2>4
<1>7. ASSUME NEW h \in Hosts, Arrive(s, h)
      PROVE  IInv'
  <2> USE <1>7 DEF Arrive, sessionVars
  <2>1. TypeOK'
    BY DEF TypeOK, NatTypeOK
  <2>2. Sessions'
    BY DEF SocketLife, Live, TableMatchesSessions
  <2>3. Traffic'
    BY DEF TypeOK, NatTypeOK, InHand, SessionsArePrivate, InTransit
  <2> QED BY <2>1, <2>2, <2>3
<1> QED BY <1>1, <1>2, <1>3, <1>4, <1>5, <1>6, <1>7 DEF Copier

\* A step that changes nothing preserves the invariant.
LEMMA StutterIInv == IInv /\ UNCHANGED vars => IInv'
BY DEF IInv, TypeOK, NatTypeOK, Sessions, SocketLife, Live, TableMatchesSessions,
       Traffic, InHand, SessionsArePrivate, InTransit,
       vars, natVars, sessionVars, trafficVars, loopVars

\* The invariant holds in every reachable state of the relay.
THEOREM Invariance == Spec => []IInv
<1>1. IInv /\ [Next]_vars => IInv'
  <2> SUFFICES ASSUME IInv, [Next]_vars
               PROVE  IInv'
    OBVIOUS
  <2>1. CASE Loop \/ \E p \in Peers, h \in Hosts : Receive(p, h)
    BY <2>1, LoopIInv
  <2>2. CASE \E s \in Sockets : Copier(s) /\ Others
    BY <2>2, CopierIInv
  <2>3. CASE \E s \in Sockets, h \in Hosts : Arrive(s, h) /\ Others
    BY <2>3, CopierIInv
  <2>4. CASE UNCHANGED vars
    BY <2>4, StutterIInv
  <2> QED BY <2>1, <2>2, <2>3, <2>4 DEF Next
<1> QED BY <1>1, InitIInv, PTL DEF Spec

----------------------------------------------------------------------------
\* Every variable keeps its type, in udpLocal, udpSocksLocal and udpRemote.
THEOREM TypeCorrect == Spec => []TypeOK
BY Invariance, PTL DEF IInv

\* The table of natmap lists exactly the running sessions.
THEOREM TableIsExact == Spec => []TableMatchesSessions
BY Invariance, PTL DEF IInv, Sessions

\* No socket stays open once its session is over and its goroutine has ended.
THEOREM SocketsAreClosed == Spec => []NoSocketLeaks
<1>1. IInv => NoSocketLeaks
  BY DEF IInv, TypeOK, NatTypeOK, Sessions, SocketLife, Live, NoSocketLeaks
<1> QED BY <1>1, Invariance, PTL

\* Nothing leaves a session's socket but what the session's peer asked for.
THEOREM SessionsStayPrivate == Spec => []SessionsArePrivate
BY Invariance, PTL DEF IInv, Traffic

\* A loop that found a session which then ended finds no entry next time.
THEOREM StaleIsUnlisted == Spec => []StaleSocketIsUnlisted
<1>1. IInv => StaleSocketIsUnlisted
  BY NoneAssumption
  DEF IInv, TypeOK, NatTypeOK, Sessions, SocketLife, Live, TableMatchesSessions,
      Traffic, InHand, StaleSocketIsUnlisted
<1> QED BY <1>1, Invariance, PTL

\* The relay implements the datagram service: receiving a datagram is an Ask,
\* writing an answer back is a Deliver, and every other step is invisible.
THEOREM Implementation == Spec => ImplementsService
<1>1. Init => Service!Init
  BY DEF Init, NatInit, Service!Init
<1>2. IInv /\ [Next]_vars => [Service!Next]_(Service!vars)
  <2> SUFFICES ASSUME IInv, [Next]_vars
               PROVE  Service!Next \/ UNCHANGED Service!vars
    OBVIOUS
  <2> USE DEF Service!vars
  <2>1. ASSUME NEW p \in Peers, NEW h \in Hosts, Receive(p, h)
        PROVE  Service!Ask(p, h)
    BY <2>1 DEF Receive, natVars, trafficVars, Service!Ask
  <2>2. CASE Loop
    BY <2>2 DEF Loop, LookupHit, OpenSession, OpenFails, Write, WriteFails, WritePanics,
                Transmit, natVars, sessionVars, trafficVars
  <2>3. ASSUME NEW s \in Sockets, Copier(s), Others
        PROVE  Service!Next \/ UNCHANGED Service!vars
    <3>1. CASE WriteBack(s)
      <4>1. owner[s] \in Peers /\ reply[s] \in Hosts /\ <<owner[s], reply[s]>> \in asked
        BY <3>1 DEF WriteBack, IInv, Sessions, SocketLife, Traffic, SessionsArePrivate,
                    InTransit
      <4>2. Service!Deliver(owner[s], reply[s])
        BY <2>3, <3>1, <4>1 DEF WriteBack, Others, loopVars, Service!Deliver
      <4> QED BY <4>1, <4>2 DEF Service!Next
    <3>2. CASE ~WriteBack(s)
      BY <2>3, <3>2 DEF Copier, ReadReply, ReadFails, WriteBackFails, DelEntry, CloseVictim,
                        Others, loopVars, trafficVars
    <3> QED BY <3>1, <3>2
  <2>4. ASSUME NEW s \in Sockets, NEW h \in Hosts, Arrive(s, h), Others
        PROVE  UNCHANGED Service!vars
    BY <2>4 DEF Arrive, Others, loopVars
  <2>5. CASE UNCHANGED vars
    BY <2>5 DEF vars, natVars, trafficVars, loopVars
  <2> QED BY <2>1, <2>2, <2>3, <2>4, <2>5 DEF Next, Service!Next
<1> QED BY <1>1, <1>2, Invariance, PTL DEF Spec, ImplementsService, Service!Spec
==============================================================================
