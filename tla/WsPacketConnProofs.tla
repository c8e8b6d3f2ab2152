------------------------- MODULE WsPacketConnProofs --------------------------
(***************************************************************************)
(* Proofs about WsPacketConn, for any addresses, websockets and writers.   *)
(*                                                                         *)
(* A websocket is handed to HandleWSConn once: until then it is Unused, and *)
(* at most one writer has it in hand.                                      *)
(***************************************************************************)
EXTENDS WsPacketConn, TLAPS

Dialled ==
    \A w \in Writers : call[w].step = "handle" =>
        /\ call[w].with \in Conns
        /\ conn[call[w].with] = Unused
        /\ \A v \in Writers \ {w} : call[v].with # call[w].with

\* A websocket that has no reader, or whose reader has left, is not open.
Unread ==
    \A c \in Conns :
        /\ conn[c].reader \in {"none", "done"} => conn[c].sock # "open"
        /\ conn[c].reader # "none" => conn[c].at \in Addrs

IInv == TypeOK /\ TableMatchesReaders /\ Dialled /\ Unread

----------------------------------------------------------------------------
\* The initial state satisfies the invariant.
LEMMA InitIInv == Init => IInv
<1> SUFFICES ASSUME Init PROVE IInv
  OBVIOUS
<1> USE ConstantsAssumption DEF Init, Unused, Idle
<1>1. TypeOK
  BY DEF TypeOK, Clocks
<1>2. TableMatchesReaders /\ Dialled /\ Unread
  BY DEF TableMatchesReaders, Dialled, Unread
<1> QED BY <1>1, <1>2 DEF IInv

\* HandleWSConn, given an unused websocket, keeps the table exact: LoadOrStore
\* enters the websocket only where there is none.
LEMMA HandleIInv ==
    ASSUME IInv, NEW c \in Conns, NEW a \in Addrs, conn[c] = Unused, Handle(c, a)
    PROVE  /\ table' \in [Addrs -> Conns \cup {None}]
           /\ conn' \in [Conns -> [sock : {"none", "open", "closed"},
                                   at : Addrs \cup {None},
                                   reader : {"none", "read", "hand", "delete", "close", "done"},
                                   watch : {"none", "wait", "done"}]]
           /\ \A d \in Conns \ {c} : conn'[d] = conn[d]
           /\ TableMatchesReaders' /\ Unread'
<1> USE ConstantsAssumption DEF IInv, Handle, Unused, Served
<1>1. CASE table[a] # None
  <2> USE <1>1
  <2>1. conn' = [conn EXCEPT ![c] = [sock |-> "closed", at |-> a, reader |-> "none",
                                     watch |-> "none"]] /\ table' = table
    OBVIOUS
  <2> QED BY <2>1 DEF TypeOK, TableMatchesReaders, Unread
<1>2. CASE table[a] = None
  <2>1. /\ conn' = [conn EXCEPT ![c] = [sock |-> "open", at |-> a, reader |-> "read",
                                        watch |-> "wait"]]
        /\ table' = [table EXCEPT ![a] = c]
    BY <1>2
  <2> HIDE DEF Handle
  <2>2. /\ table' \in [Addrs -> Conns \cup {None}]
        /\ \A d \in Conns \ {c} : conn'[d] = conn[d]
    BY <2>1 DEF TypeOK
  <2>3. conn' \in [Conns -> [sock : {"none", "open", "closed"},
                             at : Addrs \cup {None},
                             reader : {"none", "read", "hand", "delete", "close", "done"},
                             watch : {"none", "wait", "done"}]]
    BY <2>1 DEF TypeOK
  <2>4. TableMatchesReaders'
    BY <1>2, <2>1 DEF TypeOK, TableMatchesReaders
  <2>5. Unread'
    BY <2>1 DEF TypeOK, Unread
  <2> QED BY <2>2, <2>3, <2>4, <2>5
<1> QED BY <1>1, <1>2

\* The goroutines of a connection and HandleWSConn preserve the invariant.
LEMMA ConnIInv ==
    ASSUME IInv, NEW c \in Conns,
           Goroutines(c) \/ \E a \in Addrs : Accept(c, a)
    PROVE  IInv'
<1> USE ConstantsAssumption DEF IInv
<1>1. CASE ReadMessage(c) \/ ReadFails(c) \/ Deliver(c) \/ Drop(c)
  <2> USE DEF ReadMessage, ReadFails, Deliver, Drop, Reader
  <2>1. PICK to \in {"hand", "delete", "read"} :
           conn' = [conn EXCEPT ![c] = [@ EXCEPT !.reader = to]]
    BY <1>1
  <2>2. /\ UNCHANGED <<table, call, close, clock>> /\ read' \in {"idle", "blocked"}
        /\ conn[c].reader \in {"read", "hand"}
    BY <1>1 DEF TypeOK
  <2> HIDE DEF ReadMessage, ReadFails, Deliver, Drop, Reader
  <2>3. TypeOK'
    BY <2>1, <2>2, SMTT(30) DEF TypeOK
  <2>4. TableMatchesReaders'
    BY <2>1, <2>2 DEF TypeOK, TableMatchesReaders
  <2>5. Dialled' /\ Unread'
    BY <2>1, <2>2 DEF TypeOK, Dialled, Unread, Unused
  <2> QED BY <2>3, <2>4, <2>5
<1>2. CASE Delete(c)
  <2> USE <1>2 DEF Delete, Reader
  <2>1. conn[c].at \in Addrs /\ table[conn[c].at] = c
    BY DEF TypeOK, Unread, TableMatchesReaders
  <2>2. TypeOK'
    BY <2>1 DEF TypeOK
  <2>3. TableMatchesReaders'
    BY <2>1 DEF TypeOK, TableMatchesReaders
  <2>4. Dialled' /\ Unread'
    BY DEF TypeOK, Dialled, Unread, Unused
  <2> QED BY <2>2, <2>3, <2>4
<1>3. CASE Leave(c) \/ Watch(c)
  <2> USE <1>3 DEF Leave, Watch
  <2>1. TypeOK'
    <3>1. UNCHANGED <<table, call, read, close, clock>>
      OBVIOUS
    <3>2. PICK r \in {conn[c].reader, "done"}, w \in {conn[c].watch, "done"},
               k \in {conn[c].sock, "closed"} :
             conn' = [conn EXCEPT ![c] = [sock |-> k, at |-> @.at, reader |-> r, watch |-> w]]
      BY DEF TypeOK
    <3> HIDE <1>3 DEF Leave, Watch
    <3>3. [sock |-> k, at |-> conn[c].at, reader |-> r, watch |-> w]
            \in [sock : {"none", "open", "closed"},
                at : Addrs \cup {None},
                reader : {"none", "read", "hand", "delete", "close", "done"},
                watch : {"none", "wait", "done"}]
      BY DEF TypeOK
    <3>4. conn' \in [Conns -> [sock : {"none", "open", "closed"},
                               at : Addrs \cup {None},
                               reader : {"none", "read", "hand", "delete", "close", "done"},
                               watch : {"none", "wait", "done"}]]
      BY <3>2, <3>3 DEF TypeOK
    <3>5. call' = call /\ table' = table /\ read' = read /\ close' = close /\ clock' = clock
      BY <3>1
    <3> QED BY <3>4, <3>5 DEF TypeOK
  <2>2. TableMatchesReaders'
    <3>1. table' = table
      OBVIOUS
    <3>2. \A d \in Conns : /\ conn'[d].at = conn[d].at
                           /\ conn'[d].reader \in {"read", "hand", "delete"}
                                <=> conn[d].reader \in {"read", "hand", "delete"}
      BY DEF TypeOK
    <3> HIDE <1>3 DEF Leave, Watch
    <3> QED BY <3>1, <3>2 DEF TableMatchesReaders
  <2>3. Unread'
    BY DEF TypeOK, Unread
  <2>4. Dialled'
    BY DEF TypeOK, Dialled, Unused
  <2> QED BY <2>1, <2>2, <2>3, <2>4
<1>4. ASSUME NEW a \in Addrs, Accept(c, a)
      PROVE  IInv'
  <2> USE <1>4 DEF Accept
  <2>1. TypeOK' /\ TableMatchesReaders' /\ Unread'
    BY HandleIInv DEF TypeOK
  <2>2. Dialled'
    BY HandleIInv DEF Dialled
  <2> QED BY <2>1, <2>2
<1> QED BY <1>1, <1>2, <1>3, <1>4 DEF Goroutines

\* A writer that has no unused websocket in hand does not disturb the others.
LEMMA CallStep ==
    ASSUME TypeOK, Dialled, UNCHANGED conn,
           NEW w \in Writers,
           NEW r \in [step : {"idle", "load", "dial", "reload", "write"},
                      to : Addrs \cup {None}, with : Conns \cup {None}],
           call' = [call EXCEPT ![w] = r],
           r.with \in {None, call[w].with} \/ conn[r.with] # Unused
    PROVE  Dialled'
<1> SUFFICES ASSUME NEW x \in Writers, call'[x].step = "handle"
             PROVE  /\ call'[x].with \in Conns
                    /\ conn[call'[x].with] = Unused
                    /\ \A v \in Writers \ {x} : call'[v].with # call'[x].with
  BY DEF Dialled
<1>1. x # w /\ call'[x] = call[x]
  BY DEF TypeOK
<1>2. /\ call[x].with \in Conns /\ conn[call[x].with] = Unused
      /\ \A v \in Writers \ {x} : call[v].with # call[x].with
  BY <1>1 DEF Dialled
<1>3. r.with # call[x].with
  BY <1>1, <1>2, ConstantsAssumption
<1>4. \A v \in Writers \ {x} : call'[v].with # call[x].with
  BY <1>2, <1>3 DEF TypeOK
<1> QED BY <1>1, <1>2, <1>4

\* The steps of WriteTo preserve the invariant.
LEMMA WriteIInv ==
    ASSUME IInv, NEW w \in Writers, WriteTo(w)
    PROVE  IInv'
<1> USE ConstantsAssumption DEF IInv
<1>1. CASE (\E a \in Addrs : Begin(w, a)) \/ Load(w) \/ DialFails(w) \/ Write(w)
  <2>1. UNCHANGED <<table, conn, read, close, clock>>
    BY <1>1 DEF Begin, Load, DialFails, Write
  <2>2. PICK r \in [step : {"idle", "load", "dial", "reload"},
                     to : Addrs \cup {None}, with : Conns \cup {None}] :
           /\ call' = [call EXCEPT ![w] = r]
           /\ r.step # "idle" => r.to \in Addrs
           /\ r.with \in {None, call[w].with}
    <3>1. CASE \E a \in Addrs : Begin(w, a)
      <4>1. PICK a \in Addrs : call' = [call EXCEPT ![w] = [@ EXCEPT !.step = "load", !.to = a]]
        BY <3>1 DEF Begin
      <4> DEFINE r == [call[w] EXCEPT !.step = "load"]
                 s == [r EXCEPT !.to = a]
      <4>2. /\ r \in [step : {"load"}, to : Addrs \cup {None}, with : Conns \cup {None}]
            /\ r.with = call[w].with
        BY DEF TypeOK
      <4> HIDE DEF r
      <4>3. /\ s \in [step : {"load"}, to : Addrs \cup {None}, with : Conns \cup {None}]
            /\ s.to = a /\ s.with = call[w].with
        BY <4>2
      <4>4. call' = [call EXCEPT ![w] = s]
        BY <4>1 DEF r
      <4> HIDE DEF s
      <4> QED BY <4>3, <4>4
    <3>2. CASE Load(w) /\ ~Return(w)
      <4>1. PICK step \in {"reload", "dial"} : call' = [call EXCEPT ![w] = [@ EXCEPT !.step = step]]
        BY <3>2 DEF Load, Goto
      <4>2. [call[w] EXCEPT !.step = step]
              = [step |-> step, to |-> call[w].to, with |-> call[w].with]
        BY DEF TypeOK
      <4>3. call[w].to \in Addrs
        BY <3>2 DEF TypeOK, Load
      <4> QED BY <4>1, <4>2, <4>3 DEF TypeOK
    <3>3. CASE Return(w)
      <4>1. call' = [call EXCEPT ![w] = Idle]
        BY <3>3 DEF Return
      <4>2. /\ Idle \in [step : {"idle", "load", "dial", "reload"},
                         to : Addrs \cup {None}, with : Conns \cup {None}]
            /\ Idle.step = "idle" /\ Idle.with = None
        BY DEF Idle
      <4> QED BY <4>1, <4>2
    <3> QED BY <1>1, <3>1, <3>2, <3>3 DEF DialFails, Write
  <2>3. TypeOK'
    BY <2>1, <2>2 DEF TypeOK
  <2>4. TableMatchesReaders' /\ Unread'
    BY <2>1 DEF TableMatchesReaders, Unread
  <2>5. Dialled'
    BY <2>1, <2>2, CallStep
  <2> QED BY <2>3, <2>4, <2>5
<1>2. CASE Reload(w)
  <2> USE <1>2 DEF Reload, Return, Idle
  <2>1. TypeOK'
    BY SMTT(30) DEF TypeOK
  <2>2. TableMatchesReaders' /\ Unread'
    BY DEF TableMatchesReaders, Unread
  <2>3. table[call[w].to] # None => conn[table[call[w].to]] # Unused
    BY DEF TypeOK, TableMatchesReaders, Unused
  <2>4. PICK r \in [step : {"idle", "write"}, to : Addrs \cup {None}, with : Conns \cup {None}] :
           /\ call' = [call EXCEPT ![w] = r]
           /\ r.with = None \/ conn[r.with] # Unused
    BY <2>3 DEF TypeOK
  <2>5. Dialled'
    BY <2>4, CallStep
  <2> QED BY <2>1, <2>2, <2>5
<1>3. ASSUME NEW c \in Conns, Dial(w, c)
      PROVE  IInv'
  <2> USE <1>3 DEF Dial
  <2>1. TypeOK'
    BY DEF TypeOK
  <2>2. TableMatchesReaders' /\ Unread'
    BY DEF TableMatchesReaders, Unread
  <2>3. Dialled'
    BY DEF TypeOK, Dialled
  <2> QED BY <2>1, <2>2, <2>3
<1>4. CASE HandleDialled(w)
  <2> USE <1>4 DEF HandleDialled
  <2>1. call[w].with \in Conns /\ call[w].to \in Addrs /\ conn[call[w].with] = Unused
    BY DEF Dialled, TypeOK
  <2>2. TypeOK' /\ TableMatchesReaders' /\ Unread'
    BY <2>1, HandleIInv DEF TypeOK
  <2>3. \A d \in Conns \ {call[w].with} : conn'[d] = conn[d]
    BY <2>1, HandleIInv
  <2>4. Dialled'
    BY <2>1, <2>3 DEF TypeOK, Dialled
  <2> QED BY <2>2, <2>4
<1> QED BY <1>1, <1>2, <1>3, <1>4 DEF WriteTo

\* ReadFrom, the deadlines and Close preserve the invariant.
LEMMA RestIInv ==
    ASSUME IInv,
           ReadFrom \/ ReadEnds \/ Tick \/ Close \/ CloseAll
             \/ \E t \in 0..MaxTime : Fire(t) \/ SetReadDeadline(t)
    PROVE  IInv'
<1> USE ConstantsAssumption DEF IInv
<1>1. CASE CloseAll
  <2> USE <1>1 DEF CloseAll
  <2>1. TypeOK'
    BY SMTT(30) DEF TypeOK
  <2>2. TableMatchesReaders'
    BY DEF TypeOK, TableMatchesReaders
  <2>3. Unread'
    BY DEF TypeOK, Unread
  <2>4. Dialled'
    BY DEF TypeOK, Dialled, TableMatchesReaders, Unused
  <2> QED BY <2>1, <2>2, <2>3, <2>4
<1>2. CASE ReadFrom \/ ReadEnds \/ Tick \/ Close
             \/ \E t \in 0..MaxTime : Fire(t) \/ SetReadDeadline(t)
  <2>1. UNCHANGED <<table, conn, call>>
    BY <1>2 DEF ReadFrom, ReadEnds, Tick, Close, Fire, SetReadDeadline
  <2>2. read' \in {"idle", "blocked"} /\ close' \in {"no", "range", "done"}
    BY <1>2 DEF ReadFrom, ReadEnds, Tick, Close, Fire, SetReadDeadline, TypeOK
  <2>3. clock' \in Clocks
    <3> USE DEF Clocks
    <3>0. clock \in Clocks
      BY DEF TypeOK
    <3>1. CASE Tick
      BY <3>0, <3>1 DEF Tick
    <3>2. ASSUME NEW t \in 0..MaxTime, Fire(t)
          PROVE  clock' \in Clocks
      <4>1. [clock EXCEPT !.timers = @ \ {t}] \in Clocks
        BY <3>0
      <4> QED BY <3>2, <4>1 DEF Fire
    <3>3. ASSUME NEW t \in 0..MaxTime, SetReadDeadline(t)
          PROVE  clock' \in Clocks
      <4>1. [clock EXCEPT !.deadline = t] \in Clocks
        BY <3>0
      <4> QED BY <3>3, <4>1 DEF SetReadDeadline
    <3>4. CASE UNCHANGED clock
      BY <3>0, <3>4
    <3> QED
      BY <1>2, <3>1, <3>2, <3>3, <3>4 DEF ReadFrom, ReadEnds, Close
  <2>4. TypeOK'
    BY <2>1, <2>2, <2>3 DEF TypeOK
  <2>5. TableMatchesReaders' /\ Dialled' /\ Unread'
    BY <2>1 DEF TableMatchesReaders, Dialled, Unread
  <2> QED BY <2>4, <2>5
<1> QED BY <1>1, <1>2

\* The invariant holds in every reachable state.
THEOREM Invariance == Spec => []IInv
<1>1. IInv /\ [Next]_vars => IInv'
  <2> SUFFICES ASSUME IInv, [Next]_vars
               PROVE  IInv'
    OBVIOUS
  <2>1. CASE Next
    BY <2>1, ConnIInv, WriteIInv, RestIInv DEF Next
  <2>2. CASE UNCHANGED vars
    BY <2>2 DEF vars, IInv, TypeOK, TableMatchesReaders, Dialled, Unread
  <2> QED BY <2>1, <2>2
<1> QED BY <1>1, InitIInv, PTL DEF Spec

----------------------------------------------------------------------------
\* Every variable keeps its type, in HandleWSConn, WriteTo, ReadFrom and Close.
THEOREM TypeCorrect == Spec => []TypeOK
BY Invariance, PTL DEF IInv

\* wsConnMap lists exactly the connections that are being read: a reader that
\* leaves deletes its own entry, whatever was dialled or accepted meanwhile.
THEOREM TableIsExact == Spec => []TableMatchesReaders
BY Invariance, PTL DEF IInv

\* No websocket stays open without a reader: one that lost the race for its
\* address has been closed.
THEOREM ConnsAreClosed == Spec => []NoConnLeaks
<1>1. IInv => NoConnLeaks
  BY DEF IInv, TypeOK, Unread, NoConnLeaks
<1> QED BY <1>1, Invariance, PTL
==============================================================================
