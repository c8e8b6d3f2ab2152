------------------------- MODULE ClientSessionProofs -------------------------
(***************************************************************************)
(* Proofs about ClientSession, for any connections and any number of       *)
(* resets.  A session takes the server first and the cipher second, and    *)
(* the cipher in force is never newer than the server in force; so it is   *)
(* enough that the cipher does not change while a session stands between   *)
(* the two reads, which is what the lock is for.                           *)
(***************************************************************************)
EXTENDS ClientSession, TLAPS

\* The address is written before the lock is asked for, the cipher under it.
AddressFirst ==
    /\ cipher <= server
    /\ cipher <= calls
    /\ reset \in {"resolve", "waiting", "holding"} => server = calls

\* The cipher in force still suits the server that a session has just dialled.
DialledSuits == \A c \in Conns : phase[c] = "upgrade" => cipher <= srv[c]

IInv ==
    /\ TypeOK
    /\ AddressFirst
    /\ ResetExcludesSetup
    /\ DialledSuits
    /\ CipherNotNewerThanServer

\* The initial state satisfies the invariant.
LEMMA InitIInv == Init => IInv
BY MaxResetsAssumption
DEF Init, IInv, TypeOK, Phases, Locked, Torn, Readers, AddressFirst, ResetExcludesSetup,
    DialledSuits, CipherNotNewerThanServer

\* The steps of a handler preserve the invariant.
LEMMA HandlerIInv ==
    ASSUME IInv, NEW c \in Conns, Begin(c) \/ Handle(c)
    PROVE  IInv'
<1> USE MaxResetsAssumption DEF IInv, Goto, pairVars, resetVars, AddressFirst, Torn
<1>1. CASE Begin(c) \/ Converse(c) \/ AssociateEnds(c) \/ SetupFails(c) \/ Stall(c) \/ Send(c)
  <2> USE <1>1 DEF Begin, Converse, Handshake, HandshakeFails, RelayEnds, AssociateEnds,
                   SetupFails, Stall, Send
  <2>1. PICK p \in Phases \ {"dial", "upgrade", "send", "done"} : phase' = [phase EXCEPT ![c] = p]
    BY DEF Phases, Locked
  <2>2. UNCHANGED <<gone, closed, pairVars, resetVars>>
    OBVIOUS
  <2>3. TypeOK'
    BY <2>1, <2>2 DEF TypeOK, Phases, Locked
  <2>4. ResetExcludesSetup' /\ DialledSuits'
    BY <2>1, <2>2 DEF TypeOK, ResetExcludesSetup, DialledSuits, Readers, Locked
  <2>5. phase[c] # "upgrade" => CipherNotNewerThanServer'
    BY <2>1, <2>2 DEF TypeOK, CipherNotNewerThanServer
  <2>6. phase[c] = "upgrade" => p = "close"
    BY <2>1 DEF TypeOK
  <2> QED BY <2>1, <2>2, <2>3, <2>4, <2>5, <2>6 DEF TypeOK, CipherNotNewerThanServer
<1>2. CASE RLock(c)
  <2> USE <1>2 DEF RLock
  <2>1. TypeOK'
    BY DEF TypeOK, Phases, Locked
  <2>2. ResetExcludesSetup'
    BY DEF TypeOK, ResetExcludesSetup, Readers, Locked
  <2>3. DialledSuits' /\ CipherNotNewerThanServer'
    BY DEF TypeOK, DialledSuits, CipherNotNewerThanServer
  <2> QED BY <2>1, <2>2, <2>3
<1>3. CASE Dial(c)
  <2> USE <1>3 DEF Dial
  <2>1. TypeOK'
    BY DEF TypeOK, Phases, Locked
  <2>2. ResetExcludesSetup'
    BY DEF TypeOK, ResetExcludesSetup, Readers, Locked
  <2>3. DialledSuits' /\ CipherNotNewerThanServer'
    BY DEF TypeOK, DialledSuits, CipherNotNewerThanServer
  <2> QED BY <2>1, <2>2, <2>3
<1>4. CASE Upgrade(c)
  <2> USE <1>4 DEF Upgrade
  <2>1. TypeOK'
    BY DEF TypeOK, Phases, Locked
  <2>2. ResetExcludesSetup'
    BY DEF TypeOK, ResetExcludesSetup, Readers, Locked
  <2>3. DialledSuits' /\ CipherNotNewerThanServer'
    BY DEF TypeOK, DialledSuits, CipherNotNewerThanServer
  <2> QED BY <2>1, <2>2, <2>3
<1>5. CASE CloseConn(c)
  <2> USE <1>5 DEF CloseConn
  <2>1. TypeOK'
    BY DEF TypeOK, Phases, Locked
  <2>2. ResetExcludesSetup'
    BY DEF TypeOK, ResetExcludesSetup, Readers, Locked
  <2>3. DialledSuits' /\ CipherNotNewerThanServer'
    BY DEF TypeOK, DialledSuits, CipherNotNewerThanServer
  <2> QED BY <2>1, <2>2, <2>3
<1>6. CASE Leave(c)
  BY <1>6 DEF Leave, TypeOK, ResetExcludesSetup, Readers, DialledSuits, CipherNotNewerThanServer
<1> QED BY <1>1, <1>2, <1>3, <1>4, <1>5, <1>6 DEF Handle, Setup, Converse

\* The steps of ResetTCPUDP preserve the invariant.  The cipher is replaced
\* when there are no readers, so that no session has dialled without it.
LEMMA ResetIInv ==
    ASSUME IInv, Reset
    PROVE  IInv'
<1> USE MaxResetsAssumption DEF IInv, connVars, pairVars, AddressFirst, Torn
<1>1. CASE ResetCall
  BY <1>1 DEF ResetCall, TypeOK, Readers, ResetExcludesSetup, DialledSuits,
              CipherNotNewerThanServer
<1>2. CASE ResetNamed
  BY <1>2 DEF ResetNamed, TypeOK, Readers, ResetExcludesSetup, DialledSuits,
              CipherNotNewerThanServer
<1>3. CASE ResetFails \/ ResetLock \/ ResetAcquire
  BY <1>3 DEF ResetFails, ResetLock, ResetAcquire, TypeOK, Readers, ResetExcludesSetup,
              DialledSuits, CipherNotNewerThanServer
<1>4. CASE ResetUnlock
  <2> USE <1>4 DEF ResetUnlock
  <2>1. \A c \in Conns : phase[c] \notin Locked
    BY DEF ResetExcludesSetup, Readers
  <2>2. TypeOK'
    BY DEF TypeOK, Phases, Locked
  <2>3. ResetExcludesSetup'
    BY DEF ResetExcludesSetup
  <2>4. DialledSuits' /\ CipherNotNewerThanServer'
    BY <2>1 DEF TypeOK, Locked, DialledSuits, CipherNotNewerThanServer
  <2> QED BY <2>2, <2>3, <2>4 DEF TypeOK
<1> QED BY <1>1, <1>2, <1>3, <1>4 DEF Reset

\* The invariant holds in every reachable state.
THEOREM Invariance == Spec => []IInv
<1>1. IInv /\ [Next]_vars => IInv'
  <2> SUFFICES ASSUME IInv, [Next]_vars
               PROVE  IInv'
    OBVIOUS
  <2>1. CASE Reset
    BY <2>1, ResetIInv
  <2>2. CASE \E c \in Conns : Begin(c) \/ Handle(c)
    BY <2>2, HandlerIInv
  <2>3. CASE UNCHANGED vars
    BY <2>3 DEF IInv, TypeOK, Readers, AddressFirst, ResetExcludesSetup, DialledSuits,
                CipherNotNewerThanServer, vars, connVars, pairVars, resetVars
  <2> QED BY <2>1, <2>2, <2>3 DEF Next
<1> QED BY <1>1, InitIInv, PTL DEF Spec

----------------------------------------------------------------------------
\* Every variable keeps its type, and a handler that has returned has closed
\* its connection.
THEOREM TypeCorrect == Spec => []TypeOK
BY Invariance, PTL DEF IInv

\* No session stands between its reads while Client.Reset replaces the fields.
THEOREM ResetIsExclusive == Spec => []ResetExcludesSetup
BY Invariance, PTL DEF IInv

\* No session of handleConn uses a cipher that is newer than its server.
THEOREM CipherSuitsServer == Spec => []CipherNotNewerThanServer
BY Invariance, PTL DEF IInv
==============================================================================
