------------------------------ MODULE ConnPool -------------------------------
(***************************************************************************)
(* StartsocksConnLocal of clientlib: the accept loop, the MaxConnCount     *)
(* workers that serve the connections, and the eviction of the oldest      *)
(* connection when all workers seem busy; and Client.Stop.                 *)
(*                                                                         *)
(* Three things are shared with no one lock over them: connCount, which    *)
(* the workers increment and decrement and the accept loop reads; ConnMap, *)
(* a sync.Map from a program's address to its connection, which workers    *)
(* and evictors change one entry at a time; and the connections.           *)
(*                                                                         *)
(* A connection is one net.Conn value and belongs to one address; a        *)
(* program may use its port again once its earlier connection is gone at   *)
(* its end, while this end may still be working on it.  Of handleConn only *)
(* its duration matters here: ClientSession has the rest.                  *)
(***************************************************************************)
EXTENDS Integers, FiniteSets

CONSTANTS
    Conns,         \* connections of local programs
    Addrs,         \* addresses of local programs
    MaxConnCount,  \* the number of workers; 0: a goroutine for each connection
    None           \* the nil of the code

ASSUME PoolAssumption == MaxConnCount \in Nat /\ None \notin Conns \cup Addrs

VARIABLES
    stage,      \* how far the pool has come with each connection
    addr,       \* its RemoteAddr
    gone,       \* the connections whose program has closed its end
    closed,     \* the connections closed at this end
    connMap,    \* ConnMap
    earlier,    \* pairs <<d, c>>: the lastSeen of d is before that of c
    connCount,  \* connCount
    loaded,     \* what each connection's worker has read from connCount
    accept,     \* where the accept loop stands
    lc,         \* the connection it has in hand
    evictor,    \* where the evictor started for each connection stands
    visited,    \* the addresses that the Range under c.mutex has passed
    victim,     \* the connection each evictor has found so far, and then chosen
    stop        \* how far Client.Stop has come

connVars   == <<addr, gone, closed>>
tableVars  == <<connMap, earlier>>
countVars  == <<connCount, loaded>>
acceptVars == <<accept, lc>>
evictVars  == <<evictor, visited, victim>>
vars       == <<stage, connVars, tableVars, countVars, acceptVars, evictVars, stop>>

\* The stages in which a worker has the connection, in their order.  In
\* "blocked" handleConn waits for the server or for Client.Reset, and not for
\* the program.
Working == {"store", "load", "inc", "serve", "blocked", "unload", "dec", "delete"}

Busy == {c \in Conns : stage[c] \in Working}

Dead(c) == c \in gone \cup closed

Init ==
    /\ stage = [c \in Conns |-> "new"]
    /\ addr = [c \in Conns |-> None]
    /\ gone = {}
    /\ closed = {}
    /\ connMap = [a \in Addrs |-> None]
    /\ earlier = {}
    /\ connCount = 0
    /\ loaded = [c \in Conns |-> 0]
    /\ accept = "accept"
    /\ lc = None
    /\ evictor = [c \in Conns |-> "none"]
    /\ visited = {}
    /\ victim = [c \in Conns |-> None]
    /\ stop = "running"

TypeOK ==
    /\ stage \in [Conns -> {"new", "backlog", "accepted", "over"} \cup Working]
    /\ addr \in [Conns -> Addrs \cup {None}]
    /\ gone \subseteq Conns
    /\ closed \subseteq Conns
    /\ connMap \in [Addrs -> Conns \cup {None}]
    /\ earlier \subseteq Conns \X Conns
    /\ connCount \in Int
    /\ loaded \in [Conns -> Int]
    /\ accept \in {"accept", "check", "send", "returned"}
    /\ lc \in Conns \cup {None}
    /\ accept \in {"check", "send"} => lc \in Conns
    /\ evictor \in [Conns -> {"none", "start", "range", "close", "delete", "done"}]
    /\ visited \subseteq Addrs
    /\ victim \in [Conns -> Conns \cup {None}]
    /\ \A c \in Conns : evictor[c] \in {"close", "delete"} => victim[c] \in Conns
    /\ stop \in {"running", "cancelled", "closed"}

Move(c, s) == stage' = [stage EXCEPT ![c] = s]

\* c.lastSeen = time.Now().
Touch(c) ==
    earlier' = {r \in earlier : c # r[1]}
                   \cup {<<d, c>> : d \in {d \in Conns \ {c} :
                                              stage[d] \notin {"new", "backlog"}}}

----------------------------------------------------------------------------
(* The programs. *)

\* A program connects, and the kernel completes the connection.
Arrive(c, a) ==
    /\ stage[c] = "new"
    /\ stop # "closed"
    /\ \A d \in Conns : addr[d] = a => d \in gone
    /\ addr' = [addr EXCEPT ![c] = a]
    /\ Move(c, "backlog")
    /\ UNCHANGED <<gone, closed, tableVars, countVars, acceptVars, evictVars, stop>>

\* The program closes its end of the connection.
Leave(c) ==
    /\ stage[c] # "new"
    /\ c \notin gone
    /\ gone' = gone \cup {c}
    /\ UNCHANGED <<stage, addr, closed, tableVars, countVars, acceptVars, evictVars, stop>>

----------------------------------------------------------------------------
(* The accept loop. *)

\* TCPSocksListener.Accept() returns c; without workers, go c.handleConn(lc).
Accept(c) ==
    /\ accept = "accept"
    /\ stage[c] = "backlog"
    /\ stop # "closed"
    /\ IF MaxConnCount = 0
         THEN Move(c, "serve") /\ UNCHANGED acceptVars
         ELSE Move(c, "accepted") /\ accept' = "check" /\ lc' = c
    /\ UNCHANGED <<connVars, tableVars, countVars, evictVars, stop>>

\* Mutant: the loop goes on after every error of Accept.
AcceptFails_Continues ==
    /\ accept = "accept"
    /\ UNCHANGED vars

\* Accept() fails, as it always does once the listener is closed: the loop
\* returns if Stop has cancelled ctx, and goes on otherwise.  The deferred
\* close(connCh) ends idle workers.
AcceptFails ==
    /\ accept = "accept"
    /\ accept' = IF stop = "running" THEN "accept" ELSE "returned"
    /\ UNCHANGED <<stage, connVars, tableVars, countVars, lc, evictVars, stop>>

\* An evictor is started if connCount >= MaxConnCount at this moment; then
\* connLastSeen is made with the present time.
Check ==
    /\ accept = "check"
    /\ evictor' = [evictor EXCEPT ![lc] = IF connCount >= MaxConnCount THEN "start" ELSE @]
    /\ Touch(lc)
    /\ accept' = "send"
    /\ UNCHANGED <<stage, connVars, connMap, countVars, lc, visited, victim, stop>>

\* connCh <- lastSeenConn, once a worker is waiting to receive.
Hand ==
    /\ accept = "send"
    /\ Cardinality(Busy) < MaxConnCount
    /\ Move(lc, "store")
    /\ accept' = "accept"
    /\ UNCHANGED <<connVars, tableVars, countVars, lc, evictVars, stop>>

----------------------------------------------------------------------------
(* The worker that has connection c. *)

\* c.ConnMap.Store(lAddr, conn).
Store(c) ==
    /\ stage[c] = "store"
    /\ connMap' = [connMap EXCEPT ![addr[c]] = c]
    /\ Move(c, "load")
    /\ UNCHANGED <<connVars, earlier, countVars, acceptVars, evictVars, stop>>

\* c.connCount++ and c.connCount-- read the variable and then write it.
Load(c) ==
    /\ stage[c] \in {"load", "unload"}
    /\ loaded' = [loaded EXCEPT ![c] = connCount]
    /\ Move(c, IF stage[c] = "load" THEN "inc" ELSE "dec")
    /\ UNCHANGED <<connVars, tableVars, connCount, acceptVars, evictVars, stop>>

Count(c) ==
    /\ stage[c] \in {"inc", "dec"}
    /\ connCount' = IF stage[c] = "inc" THEN loaded[c] + 1 ELSE loaded[c] - 1
    /\ loaded' = [loaded EXCEPT ![c] = 0]
    /\ Move(c, IF stage[c] = "inc" THEN "serve" ELSE "delete")
    /\ UNCHANGED <<connVars, tableVars, acceptVars, evictVars, stop>>

\* handleConn blocks for want of the server (a dial, a write to a server that
\* does not read) or of connResetRLock, and goes on.
Block(c) ==
    /\ \/ stage[c] = "serve" /\ Move(c, "blocked")
       \/ stage[c] = "blocked" /\ Move(c, "serve")
    /\ UNCHANGED <<connVars, tableVars, countVars, acceptVars, evictVars, stop>>

\* A read or write of the connection fails, because of the program, an evictor
\* or the deadline set when the other direction has ended: lastSeen is now.
Fail(c) ==
    /\ stage[c] = "serve"
    /\ MaxConnCount > 0
    /\ Touch(c)
    /\ UNCHANGED <<stage, connVars, connMap, countVars, acceptVars, evictVars, stop>>

\* handleConn returns and has closed the connection.
Return(c) ==
    /\ stage[c] = "serve"
    /\ closed' = closed \cup {c}
    /\ Move(c, IF MaxConnCount = 0 THEN "over" ELSE "unload")
    /\ UNCHANGED <<addr, gone, tableVars, countVars, acceptVars, evictVars, stop>>

\* Mutant: the worker leaves the entry to the evictors.
Delete_Missing(c) ==
    /\ stage[c] = "delete"
    /\ Move(c, "over")
    /\ UNCHANGED <<connVars, tableVars, countVars, acceptVars, evictVars, stop>>

\* c.ConnMap.Delete(lAddr), whichever connection the address now stands for.
Delete(c) ==
    /\ stage[c] = "delete"
    /\ connMap' = [connMap EXCEPT ![addr[c]] = None]
    /\ Move(c, "over")
    /\ UNCHANGED <<connVars, earlier, countVars, acceptVars, evictVars, stop>>

Worker(c) == Store(c) \/ Load(c) \/ Count(c) \/ Delete(c)

----------------------------------------------------------------------------
(* The evictor started when connection c was accepted. *)

\* c.mutex.Lock().
Lock(c) ==
    /\ evictor[c] = "start"
    /\ \A d \in Conns : evictor[d] \notin {"range", "close", "delete"}
    /\ evictor' = [evictor EXCEPT ![c] = "range"]
    /\ UNCHANGED <<stage, connVars, tableVars, countVars, acceptVars, visited, victim, stop>>

\* The connection seen first is kept unless one with an earlier lastSeen follows.
Preferred(d, kept) == d # None /\ (kept = None \/ <<d, kept>> \in earlier)

\* The Range comes to address a.  It is no snapshot of ConnMap: it reads every
\* entry once, at a moment of its own, and in any order.
Visit(c, a) ==
    /\ evictor[c] = "range"
    /\ a \notin visited
    /\ visited' = visited \cup {a}
    /\ IF Preferred(connMap[a], victim[c])
         THEN victim' = [victim EXCEPT ![c] = connMap[a]]
         ELSE UNCHANGED victim
    /\ UNCHANGED <<stage, connVars, tableVars, countVars, acceptVars, evictor, stop>>

\* The Range is over: without a connection, mutex.Unlock() follows.
Choose(c) ==
    /\ evictor[c] = "range"
    /\ visited = Addrs
    /\ visited' = {}
    /\ evictor' = [evictor EXCEPT ![c] = IF victim[c] = None THEN "done" ELSE "close"]
    /\ UNCHANGED <<stage, connVars, tableVars, countVars, acceptVars, victim, stop>>

\* Mutant: the deadline of the connection is set, but it is not closed.
Evict_Missing(c) ==
    /\ evictor[c] = "close"
    /\ evictor' = [evictor EXCEPT ![c] = "delete"]
    /\ UNCHANGED <<stage, connVars, tableVars, countVars, acceptVars, visited, victim, stop>>

\* lastSeen.Close().
Evict(c) ==
    /\ evictor[c] = "close"
    /\ closed' = closed \cup {victim[c]}
    /\ evictor' = [evictor EXCEPT ![c] = "delete"]
    /\ UNCHANGED <<stage, addr, gone, tableVars, countVars, acceptVars, visited, victim, stop>>

\* c.ConnMap.Delete(key) and mutex.Unlock().
Forget(c) ==
    /\ evictor[c] = "delete"
    /\ connMap' = [connMap EXCEPT ![addr[victim[c]]] = None]
    /\ evictor' = [evictor EXCEPT ![c] = "done"]
    /\ victim' = [victim EXCEPT ![c] = None]
    /\ UNCHANGED <<stage, connVars, earlier, countVars, acceptVars, visited, stop>>

Evictor(c) ==
    \/ Lock(c)
    \/ \E a \in Addrs : Visit(c, a)
    \/ Choose(c)
    \/ Evict(c)
    \/ Forget(c)

----------------------------------------------------------------------------
(* Client.Stop, as far as TCP is concerned: cancel, then Close. *)

Stop ==
    /\ \/ stop = "running" /\ stop' = "cancelled"
       \/ stop = "cancelled" /\ stop' = "closed"
    /\ UNCHANGED <<stage, connVars, tableVars, countVars, acceptVars, evictVars>>

AcceptLoop == (\E c \in Conns : Accept(c)) \/ AcceptFails \/ Check \/ Hand

Next ==
    \/ AcceptLoop
    \/ Stop
    \/ \E c \in Conns :
         \/ \E a \in Addrs : Arrive(c, a)
         \/ Leave(c)
         \/ Worker(c)
         \/ Block(c)
         \/ Fail(c)
         \/ Return(c)
         \/ Evictor(c)

\* Every runnable goroutine runs.  A handler whose connection is dead notices
\* when it turns to the connection, which it does unless it stays blocked: what
\* it has left to forward is finite.  Stop, once called, finishes.
Fairness ==
    /\ WF_vars(AcceptLoop)
    /\ WF_vars(Stop /\ stop = "cancelled")
    /\ \A c \in Conns :
         /\ WF_vars(Worker(c))
         /\ WF_vars(Evictor(c))
         /\ SF_vars(Return(c) /\ Dead(c))

Spec == Init /\ [][Next]_vars /\ Fairness

----------------------------------------------------------------------------
(* Properties. *)

\* ConnMap never lists a connection under another address, nor one that no
\* worker has: no entry outlives the Delete of its worker, whatever evictors and
\* workers of connections with the same address do.  A listed connection may
\* already be closed: an evictor can choose one whose worker is about to delete
\* it, or one that has ended since the Range came to it.
EntryIsServed ==
    \A a \in Addrs, c \in Conns :
        connMap[a] = c => addr[c] = a /\ stage[c] \in Working \ {"store"}

AddressReused(c) == \E d \in Conns \ {c} : addr[d] = addr[c]

\* A connection that a worker serves can be evicted: ConnMap lists it until it
\* is closed.  The one exception is a program that uses its port again while
\* the worker, or an evictor, of its earlier connection has yet to delete the
\* entry, which both name by the address alone.
ServedIsListed ==
    \A c \in Conns :
        MaxConnCount > 0 /\ stage[c] \in Working \ {"store"} /\ c \notin closed
            => connMap[addr[c]] = c \/ AddressReused(c)

NotBlockedForEver == \A c \in Conns : []<>(stage[c] # "blocked")

\* A connection that comes when the worker is busy gets served: if the accept
\* loop finds the pool full, the eviction it starts frees a worker, however
\* long the programs keep their connections open.  This needs one worker: with
\* more, lost updates of connCount can let the evictor find ConnMap empty.
RoomIsMade ==
    NotBlockedForEver =>
        \A c \in Conns :
            evictor[c] = "start" ~> stage[c] \in Working \cup {"over"}
                                    \/ \E d \in Conns : AddressReused(d)

Drained ==
    /\ accept = "returned"
    /\ \A c \in Conns : stage[c] \in {"new", "backlog", "over"}

\* After Stop, the accept loop and the workers end as soon as the programs
\* leave, even if Stop finds the loop waiting for a free worker.
StopDrains ==
    NotBlockedForEver /\ (\A c \in Conns : <>[](stage[c] = "new" \/ c \in gone))
        => (stop = "closed" ~> Drained)
==============================================================================
