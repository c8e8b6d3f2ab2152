--------------------------- MODULE ConnPoolProofs ----------------------------
(***************************************************************************)
(* Proofs about ConnPool, for any connections, addresses and number of     *)
(* workers.  An entry of ConnMap is lost in two ways only: its worker or   *)
(* an evictor deletes it, by address.  Each acts for a connection that is  *)
(* closed, so that the entry of an open one is hit only if both have the   *)
(* same address.                                                           *)
(***************************************************************************)
EXTENDS ConnPool, TLAPS

\* A connection has an address from the moment it arrives.
Addressed == \A c \in Conns : addr[c] = None <=> stage[c] = "new"

\* The connection that the accept loop has in hand is with no worker.
InHand == accept \in {"check", "send"} => stage[lc] = "accepted"

\* A worker that has returned from handleConn has closed its connection.
Returned == \A c \in Conns : stage[c] \in {"unload", "dec", "delete"} => c \in closed

\* An evictor finds only connections that were once stored, and deletes the
\* entry after it has closed the connection.
Chosen ==
    \A e \in Conns :
        /\ victim[e] # None => stage[victim[e]] \notin {"new", "backlog", "accepted", "store"}
        /\ evictor[e] = "delete" => victim[e] \in closed

\* Without workers nothing is listed.
Unlimited ==
    MaxConnCount = 0 =>
        /\ accept \notin {"check", "send"}
        /\ \A a \in Addrs : connMap[a] = None
        /\ \A c \in Conns : stage[c] \in {"new", "backlog", "serve", "blocked", "over"}

IInv ==
    /\ TypeOK
    /\ Addressed
    /\ InHand
    /\ Returned
    /\ Chosen
    /\ Unlimited
    /\ EntryIsServed
    /\ ServedIsListed

\* The initial state satisfies the invariant.
LEMMA InitIInv == Init => IInv
BY PoolAssumption
DEF Init, IInv, TypeOK, Working, Addressed, InHand, Returned, Chosen, Unlimited, EntryIsServed,
    ServedIsListed

\* An address that has been used twice stays so: connections keep the address
\* they arrived with.
LEMMA ReusedStays ==
    ASSUME TypeOK, Addressed, NEW c \in Conns, NEW a \in Addrs, Arrive(c, a),
           NEW d \in Conns, addr[d] # None, AddressReused(d)
    PROVE  AddressReused(d)'
BY DEF TypeOK, Addressed, Arrive, AddressReused

\* What the programs, the accept loop and Stop do preserves the invariant.
LEMMA AcceptIInv ==
    ASSUME IInv,
           AcceptLoop \/ Stop \/ \E c \in Conns : Leave(c) \/ \E a \in Addrs : Arrive(c, a)
    PROVE  IInv'
<1> USE PoolAssumption DEF IInv, connVars, tableVars, countVars, acceptVars, evictVars, Working,
                           Move
<1>1. ASSUME NEW c \in Conns, NEW a \in Addrs, Arrive(c, a)
      PROVE  IInv'
  <2> USE <1>1 DEF Arrive
  <2>1. TypeOK'
    BY DEF TypeOK
  <2>2. Addressed' /\ InHand' /\ Returned' /\ Chosen' /\ Unlimited'
    BY DEF TypeOK, Addressed, InHand, Returned, Chosen, Unlimited
  <2>3. EntryIsServed'
    BY DEF TypeOK, EntryIsServed
  <2>4. ServedIsListed'
    BY ReusedStays DEF TypeOK, Addressed, ServedIsListed
  <2> QED BY <2>1, <2>2, <2>3, <2>4
<1>2. ASSUME NEW c \in Conns, Accept(c)
      PROVE  IInv'
  <2> USE <1>2 DEF Accept
  <2>1. TypeOK'
    BY DEF TypeOK
  <2>2. Addressed' /\ InHand' /\ Returned' /\ Chosen' /\ Unlimited'
    BY DEF TypeOK, Addressed, InHand, Returned, Chosen, Unlimited
  <2>3. EntryIsServed' /\ ServedIsListed'
    BY DEF TypeOK, EntryIsServed, ServedIsListed, AddressReused
  <2> QED BY <2>1, <2>2, <2>3
<1>3. CASE Check
  <2> USE <1>3 DEF Check, Touch
  <2>1. TypeOK'
    BY DEF TypeOK
  <2>2. Addressed' /\ InHand' /\ Returned' /\ Chosen' /\ Unlimited'
    BY DEF TypeOK, Addressed, InHand, Returned, Chosen, Unlimited
  <2>3. EntryIsServed' /\ ServedIsListed'
    BY DEF TypeOK, EntryIsServed, ServedIsListed, AddressReused
  <2> QED BY <2>1, <2>2, <2>3
<1>4. CASE Hand
  <2> USE <1>4 DEF Hand
  <2>1. lc \in Conns /\ stage[lc] = "accepted"
    BY DEF TypeOK, InHand
  <2>2. TypeOK'
    BY DEF TypeOK
  <2>3. Addressed' /\ InHand' /\ Returned' /\ Chosen' /\ Unlimited'
    BY <2>1 DEF TypeOK, Addressed, InHand, Returned, Chosen, Unlimited
  <2>4. EntryIsServed' /\ ServedIsListed'
    BY <2>1 DEF TypeOK, EntryIsServed, ServedIsListed, AddressReused
  <2> QED BY <2>2, <2>3, <2>4
<1>5. CASE AcceptFails \/ Stop \/ \E c \in Conns : Leave(c)
  <2> USE <1>5 DEF AcceptFails, Stop, Leave
  <2>1. TypeOK'
    BY DEF TypeOK
  <2>2. Addressed' /\ InHand' /\ Returned' /\ Chosen' /\ Unlimited'
    BY DEF TypeOK, Addressed, InHand, Returned, Chosen, Unlimited
  <2>3. EntryIsServed' /\ ServedIsListed'
    BY DEF TypeOK, EntryIsServed, ServedIsListed, AddressReused
  <2> QED BY <2>1, <2>2, <2>3
<1> QED BY <1>1, <1>2, <1>3, <1>4, <1>5 DEF AcceptLoop

\* What a worker does preserves the invariant.
LEMMA WorkerIInv ==
    ASSUME IInv, NEW c \in Conns, Worker(c) \/ Block(c) \/ Fail(c) \/ Return(c)
    PROVE  IInv'
<1> USE PoolAssumption DEF IInv, connVars, tableVars, countVars, acceptVars, evictVars, Working,
                           Move
<1>1. CASE Store(c)
  <2> USE <1>1 DEF Store
  <2>1. addr[c] \in Addrs
    BY DEF TypeOK, Addressed
  <2>2. TypeOK'
    BY <2>1 DEF TypeOK
  <2>3. Addressed' /\ InHand' /\ Returned' /\ Chosen' /\ Unlimited'
    BY DEF TypeOK, Addressed, InHand, Returned, Chosen, Unlimited
  <2>4. EntryIsServed'
    BY <2>1 DEF TypeOK, EntryIsServed
  <2>5. ServedIsListed'
    BY <2>1 DEF TypeOK, Addressed, ServedIsListed, AddressReused
  <2> QED BY <2>2, <2>3, <2>4, <2>5
<1>2. CASE Load(c) \/ Count(c)
  <2> USE <1>2 DEF Load, Count
  <2>1. TypeOK'
    BY DEF TypeOK
  <2>2. Addressed' /\ InHand' /\ Returned' /\ Chosen' /\ Unlimited'
    BY DEF TypeOK, Addressed, InHand, Returned, Chosen, Unlimited
  <2>3. EntryIsServed' /\ ServedIsListed'
    BY DEF TypeOK, EntryIsServed, ServedIsListed, AddressReused
  <2> QED BY <2>1, <2>2, <2>3
<1>3. CASE Delete(c)
  <2> USE <1>3 DEF Delete
  <2>1. addr[c] \in Addrs
    BY DEF TypeOK, Addressed
  <2>2. TypeOK'
    BY <2>1 DEF TypeOK
  <2>3. Addressed' /\ InHand' /\ Returned' /\ Chosen' /\ Unlimited'
    BY DEF TypeOK, Addressed, InHand, Returned, Chosen, Unlimited
  <2>4. EntryIsServed'
    BY <2>1 DEF TypeOK, EntryIsServed
  <2>5. ServedIsListed'
    BY <2>1 DEF TypeOK, Addressed, ServedIsListed, AddressReused
  <2> QED BY <2>2, <2>3, <2>4, <2>5
<1>4. CASE Block(c) \/ Fail(c)
  <2> USE <1>4 DEF Block, Fail, Touch
  <2>1. TypeOK'
    BY DEF TypeOK
  <2>2. Addressed' /\ InHand' /\ Returned' /\ Chosen' /\ Unlimited'
    BY DEF TypeOK, Addressed, InHand, Returned, Chosen, Unlimited
  <2>3. EntryIsServed' /\ ServedIsListed'
    BY DEF TypeOK, EntryIsServed, ServedIsListed, AddressReused
  <2> QED BY <2>1, <2>2, <2>3
<1>5. CASE Return(c)
  <2> USE <1>5 DEF Return
  <2>1. TypeOK'
    BY DEF TypeOK
  <2>2. Addressed' /\ InHand' /\ Returned' /\ Chosen' /\ Unlimited'
    BY DEF TypeOK, Addressed, InHand, Returned, Chosen, Unlimited
  <2>3. EntryIsServed'
    BY DEF TypeOK, EntryIsServed, Unlimited
  <2>4. ServedIsListed'
    BY DEF TypeOK, ServedIsListed, AddressReused
  <2> QED BY <2>1, <2>2, <2>3, <2>4
<1> QED BY <1>1, <1>2, <1>3, <1>4, <1>5 DEF Worker

\* What an evictor does preserves the invariant.
LEMMA EvictorIInv ==
    ASSUME IInv, NEW c \in Conns, Evictor(c)
    PROVE  IInv'
<1> USE PoolAssumption DEF IInv, connVars, tableVars, countVars, acceptVars, evictVars, Working
<1>1. CASE Lock(c) \/ Choose(c)
  <2> USE <1>1 DEF Lock, Choose
  <2>1. TypeOK'
    BY DEF TypeOK
  <2>2. Addressed' /\ InHand' /\ Returned' /\ Chosen' /\ Unlimited'
    BY DEF TypeOK, Addressed, InHand, Returned, Chosen, Unlimited
  <2>3. EntryIsServed' /\ ServedIsListed'
    BY DEF TypeOK, EntryIsServed, ServedIsListed, AddressReused
  <2> QED BY <2>1, <2>2, <2>3
<1>2. ASSUME NEW a \in Addrs, Visit(c, a)
      PROVE  IInv'
  <2> USE <1>2 DEF Visit
  <2>1. \A e \in Conns :
           victim'[e] = victim[e] \/ (e = c /\ victim'[e] = connMap[a] /\ connMap[a] # None)
    <3>1. CASE Preferred(connMap[a], victim[c])
      <4>1. victim' = [victim EXCEPT ![c] = connMap[a]]
        BY <3>1
      <4>2. connMap[a] # None
        BY <3>1 DEF Preferred
      <4> QED BY <4>1, <4>2 DEF TypeOK
    <3>2. CASE ~Preferred(connMap[a], victim[c])
      BY <3>2
    <3> QED BY <3>1, <3>2
  <2>2. TypeOK'
    BY DEF TypeOK
  <2>3. connMap[a] # None => connMap[a] \in Conns /\ stage[connMap[a]] \in Working \ {"store"}
    BY DEF TypeOK, EntryIsServed
  <2>4. Chosen'
    BY <2>1, <2>3 DEF TypeOK, Chosen
  <2>5. Addressed' /\ InHand' /\ Returned' /\ Unlimited'
    BY DEF TypeOK, Addressed, InHand, Returned, Unlimited
  <2>6. EntryIsServed' /\ ServedIsListed'
    BY DEF TypeOK, EntryIsServed, ServedIsListed, AddressReused
  <2> QED BY <2>2, <2>4, <2>5, <2>6
<1>3. CASE Evict(c)
  <2> USE <1>3 DEF Evict
  <2>1. TypeOK'
    BY DEF TypeOK
  <2>2. Addressed' /\ InHand' /\ Returned' /\ Chosen' /\ Unlimited'
    BY DEF TypeOK, Addressed, InHand, Returned, Chosen, Unlimited
  <2>3. EntryIsServed' /\ ServedIsListed'
    BY DEF TypeOK, EntryIsServed, ServedIsListed, AddressReused
  <2> QED BY <2>1, <2>2, <2>3
<1>4. CASE Forget(c)
  <2> USE <1>4 DEF Forget
  <2> DEFINE v == victim[c]
  <2>1. v \in Conns /\ v \in closed /\ addr[v] \in Addrs
    BY DEF TypeOK, Addressed, Chosen
  <2>2. TypeOK'
    BY <2>1 DEF TypeOK
  <2>3. Addressed' /\ InHand' /\ Returned' /\ Chosen' /\ Unlimited'
    BY DEF TypeOK, Addressed, InHand, Returned, Chosen, Unlimited
  <2>4. EntryIsServed'
    BY <2>1 DEF TypeOK, EntryIsServed
  <2>5. ServedIsListed'
    BY <2>1 DEF TypeOK, Addressed, ServedIsListed, AddressReused
  <2> QED BY <2>2, <2>3, <2>4, <2>5
<1> QED BY <1>1, <1>2, <1>3, <1>4 DEF Evictor

\* The invariant holds in every reachable state.
THEOREM Invariance == Spec => []IInv
<1>1. IInv /\ [Next]_vars => IInv'
  <2> SUFFICES ASSUME IInv, [Next]_vars
               PROVE  IInv'
    OBVIOUS
  <2>1. CASE AcceptLoop \/ Stop \/ \E c \in Conns : Leave(c) \/ \E a \in Addrs : Arrive(c, a)
    BY <2>1, AcceptIInv
  <2>2. CASE \E c \in Conns : Worker(c) \/ Block(c) \/ Fail(c) \/ Return(c)
    BY <2>2, WorkerIInv
  <2>3. CASE \E c \in Conns : Evictor(c)
    BY <2>3, EvictorIInv
  <2>4. CASE UNCHANGED vars
    BY <2>4 DEF IInv, TypeOK, Addressed, InHand, Returned, Chosen, Unlimited, EntryIsServed,
                ServedIsListed, AddressReused, vars, connVars, tableVars, countVars, acceptVars,
                evictVars
  <2> QED BY <2>1, <2>2, <2>3, <2>4 DEF Next
<1> QED BY <1>1, InitIInv, PTL DEF Spec

----------------------------------------------------------------------------
\* Every variable keeps its type; an evictor never acts on nothing.
THEOREM TypeCorrect == Spec => []TypeOK
BY Invariance, PTL DEF IInv

\* ConnMap lists only connections that a worker has, under their own address.
THEOREM EntriesAreServed == Spec => []EntryIsServed
BY Invariance, PTL DEF IInv

\* An open connection that a worker serves is missing from ConnMap only if
\* another connection has had its address.
THEOREM ServedAreListed == Spec => []ServedIsListed
BY Invariance, PTL DEF IInv
==============================================================================
