---------------------------- MODULE WsPacketConn -----------------------------
(***************************************************************************)
(* WSPacketConn of websocket/packetconn.go: packets over websockets, one   *)
(* websocket per remote address.  WriteTo dials when there is none, unless *)
(* this is the server's end, where HandleWSConn is given the connections   *)
(* that come in.  Every connection has a goroutine that reads its messages *)
(* and one that closes it when the WSPacketConn is closed.                 *)
(*                                                                         *)
(* Write deadlines are left out: WriteTo does not look at writeCtx, and a  *)
(* message may fail to be written at any time.  So may the reading of one. *)
(***************************************************************************)
EXTENDS Naturals

CONSTANTS
    Addrs,     \* remote addresses
    Dialable,  \* those that are a *WSAddr, at an end that has a Username
    Conns,     \* the websockets that can come into being
    Writers,   \* goroutines that call WriteTo
    MaxTime,   \* bound: the latest time of a deadline
    None       \* nil

ASSUME ConstantsAssumption ==
    MaxTime \in Nat /\ Dialable \subseteq Addrs /\ None \notin Conns \cup Addrs

VARIABLES
    table,   \* wsConnMap
    conn,    \* each websocket: its socket, address, and its two goroutines
    call,    \* each WriteTo: where it stands, its address, its websocket
    read,    \* ReadFrom: "idle" or "blocked"
    close,   \* where Close stands; ctx is done unless it is "no"
    clock    \* readCtx done, the last SetReadDeadline, the timers it started

vars == <<table, conn, call, read, close, clock>>

Unused == [sock |-> "none", at |-> None, reader |-> "none", watch |-> "none"]
Idle == [step |-> "idle", to |-> None, with |-> None]
Clocks == [now : Nat, done : BOOLEAN, deadline : 0..MaxTime \cup {None},
           timers : SUBSET (0..MaxTime)]

Init ==
    /\ table = [a \in Addrs |-> None]
    /\ conn = [c \in Conns |-> Unused]
    /\ call = [w \in Writers |-> Idle]
    /\ read = "idle"
    /\ close = "no"
    /\ clock = [now |-> 0, done |-> FALSE, deadline |-> None, timers |-> {}]

TypeOK ==
    /\ table \in [Addrs -> Conns \cup {None}]
    /\ conn \in [Conns -> [sock : {"none", "open", "closed"},
                           at : Addrs \cup {None},
                           reader : {"none", "read", "hand", "delete", "close", "done"},
                           watch : {"none", "wait", "done"}]]
    /\ call \in [Writers -> [step : {"idle", "load", "dial", "handle", "reload", "write"},
                             to : Addrs \cup {None}, with : Conns \cup {None}]]
    /\ read \in {"idle", "blocked"}
    /\ close \in {"no", "range", "done"}
    /\ clock \in Clocks
    /\ \A w \in Writers :
          /\ call[w].step # "idle" => call[w].to \in Addrs
          /\ call[w].step \in {"handle", "write"} => call[w].with \in Conns

CtxDone == close # "no"

----------------------------------------------------------------------------
(* HandleWSConn and the two goroutines of a connection. *)

Served(a) ==
    [sock |-> "open", at |-> a, reader |-> "read", watch |-> "wait"]

\* Mutant: a connection that is not entered is left open.
Handle_LeavesLoser(c, a) ==
    IF table[a] # None
      THEN /\ conn' = [conn EXCEPT ![c] = [Unused EXCEPT !.sock = "open", !.at = a]]
           /\ UNCHANGED table
      ELSE /\ conn' = [conn EXCEPT ![c] = Served(a)]
           /\ table' = [table EXCEPT ![a] = c]

\* Mutant: Store instead of LoadOrStore.
Handle_Overwrites(c, a) ==
    /\ conn' = [conn EXCEPT ![c] = Served(a)]
    /\ table' = [table EXCEPT ![a] = c]

\* LoadOrStore: the connection is closed if its address has one already,
\* otherwise its two goroutines are started.  That is one step: what others do
\* between the store and the go statements, which cannot fail or wait, they
\* also do before a goroutine that was started takes its first step.
Handle(c, a) ==
    IF table[a] # None
      THEN /\ conn' = [conn EXCEPT ![c] = [Unused EXCEPT !.sock = "closed", !.at = a]]
           /\ UNCHANGED table
      ELSE /\ conn' = [conn EXCEPT ![c] = Served(a)]
           /\ table' = [table EXCEPT ![a] = c]

\* HandleWSConn is given a connection from address a by the server around it.
Accept(c, a) ==
    /\ conn[c] = Unused
    /\ \A w \in Writers : call[w].with # c
    /\ Handle(c, a)
    /\ UNCHANGED <<call, read, close, clock>>

\* The reader of c goes from one step to the next.
Reader(c, from, to) ==
    /\ conn[c].reader = from
    /\ conn' = [conn EXCEPT ![c].reader = to]
    /\ UNCHANGED <<call, close, clock>>

ReadMessage(c) ==
    conn[c].sock = "open" /\ Reader(c, "read", "hand") /\ UNCHANGED <<table, read>>

ReadFails(c) == Reader(c, "read", "delete") /\ UNCHANGED <<table, read>>

\* A blocked ReadFrom takes the message.
Deliver(c) ==
    read = "blocked" /\ Reader(c, "hand", "read") /\ read' = "idle" /\ UNCHANGED table

\* ctx is done: the break leaves the select, not the loop.
Drop(c) == CtxDone /\ Reader(c, "hand", "read") /\ UNCHANGED <<table, read>>

\* The deferred wsConnMap.Delete, then conn.Close and cancel.
Delete(c) ==
    /\ Reader(c, "delete", "close")
    /\ table' = [table EXCEPT ![conn[c].at] = None]
    /\ UNCHANGED read

Leave(c) ==
    /\ conn[c].reader = "close"
    /\ conn' = [conn EXCEPT ![c].reader = "done", ![c].sock = "closed"]
    /\ UNCHANGED <<table, call, read, close, clock>>

\* Mutant: the watcher waits for ctx only.
Watch_Leaks(c) ==
    /\ conn[c].watch = "wait" /\ CtxDone
    /\ conn' = [conn EXCEPT ![c].watch = "done", ![c].sock = "closed"]
    /\ UNCHANGED <<table, call, read, close, clock>>

Watch(c) ==
    /\ conn[c].watch = "wait"
    /\ \/ CtxDone /\ conn' = [conn EXCEPT ![c].watch = "done", ![c].sock = "closed"]
       \/ conn[c].reader = "done" /\ conn' = [conn EXCEPT ![c].watch = "done"]
    /\ UNCHANGED <<table, call, read, close, clock>>

----------------------------------------------------------------------------
(* WriteTo. *)

Begin(w, a) ==
    /\ call[w].step = "idle"
    /\ call' = [call EXCEPT ![w].step = "load", ![w].to = a]
    /\ UNCHANGED <<table, conn, read, close, clock>>

\* WriteTo returns, with an error or without.
Return(w) == call' = [call EXCEPT ![w] = Idle]

Goto(w, step) == call' = [call EXCEPT ![w].step = step]

Load(w) ==
    /\ call[w].step = "load"
    /\ \/ table[call[w].to] # None /\ Goto(w, "reload")
       \/ table[call[w].to] = None /\ call[w].to \in Dialable /\ Goto(w, "dial")
       \/ table[call[w].to] = None /\ call[w].to \notin Dialable /\ Return(w)
    /\ UNCHANGED <<table, conn, read, close, clock>>

Dial(w, c) ==
    /\ call[w].step = "dial" /\ conn[c] = Unused
    /\ \A v \in Writers : call[v].with # c
    /\ call' = [call EXCEPT ![w].step = "handle", ![w].with = c]
    /\ UNCHANGED <<table, conn, read, close, clock>>

DialFails(w) ==
    call[w].step = "dial" /\ Return(w) /\ UNCHANGED <<table, conn, read, close, clock>>

\* The error of HandleWSConn is ignored: another writer's connection serves.
HandleDialled(w) ==
    /\ call[w].step = "handle"
    /\ Handle(call[w].with, call[w].to)
    /\ call' = [call EXCEPT ![w].step = "reload", ![w].with = None]
    /\ UNCHANGED <<read, close, clock>>

\* The second load: the connection may be gone again, or be another's.
Reload(w) ==
    LET c == table[call[w].to] IN
    /\ call[w].step = "reload"
    /\ \/ c = None /\ Return(w)
       \/ c # None /\ call' = [call EXCEPT ![w].step = "write", ![w].with = c]
    /\ UNCHANGED <<table, conn, read, close, clock>>

Write(w) ==
    /\ call[w].step = "write"
    /\ Return(w)
    /\ UNCHANGED <<table, conn, read, close, clock>>

WriteTo(w) ==
    \/ \E a \in Addrs : Begin(w, a)
    \/ Load(w) \/ DialFails(w) \/ HandleDialled(w) \/ Reload(w) \/ Write(w)
    \/ \E c \in Conns : Dial(w, c)

----------------------------------------------------------------------------
(* ReadFrom, the read deadline, and Close, which never sets closed. *)

ReadFrom ==
    /\ read = "idle" /\ read' = "blocked"
    /\ UNCHANGED <<table, conn, call, close, clock>>


\* readCtx is done; it is a child of ctx.
ReadEnds ==
    /\ read = "blocked" /\ (clock.done \/ CtxDone)
    /\ read' = "idle"
    /\ UNCHANGED <<table, conn, call, close, clock>>

\* The zero time, which is to mean no deadline (packetconn.go:226), is in the
\* past like any other: it is 0, the time at which the clock starts.
SetReadDeadline(t) ==
    /\ clock' = IF t <= clock.now
                  THEN [clock EXCEPT !.deadline = t, !.done = TRUE]
                  ELSE [clock EXCEPT !.deadline = t, !.timers = @ \cup {t}]
    /\ UNCHANGED <<table, conn, call, read, close>>

Fire(t) ==
    /\ t \in clock.timers /\ t <= clock.now
    /\ clock' = [clock EXCEPT !.timers = @ \ {t}, !.done = TRUE]
    /\ UNCHANGED <<table, conn, call, read, close>>

Tick ==
    /\ clock.now < MaxTime
    /\ clock' = [clock EXCEPT !.now = @ + 1]
    /\ UNCHANGED <<table, conn, call, read, close>>

Close ==
    /\ close = "no" /\ close' = "range"
    /\ UNCHANGED <<table, conn, call, read, clock>>

CloseAll ==
    /\ close = "range" /\ close' = "done"
    /\ conn' = [c \in Conns |-> IF \E a \in Addrs : table[a] = c
                                  THEN [conn[c] EXCEPT !.sock = "closed"] ELSE conn[c]]
    /\ UNCHANGED <<table, call, read, clock>>

----------------------------------------------------------------------------

Goroutines(c) ==
    ReadMessage(c) \/ ReadFails(c) \/ Deliver(c) \/ Drop(c) \/ Delete(c)
        \/ Leave(c) \/ Watch(c)

Next ==
    \/ \E c \in Conns : Goroutines(c) \/ \E a \in Addrs : Accept(c, a)
    \/ \E w \in Writers : WriteTo(w)
    \/ ReadFrom \/ ReadEnds \/ Tick \/ Close \/ CloseAll
    \/ \E t \in 0..MaxTime : Fire(t) \/ SetReadDeadline(t)

\* Goroutines and timers run and time passes; a read of a closed connection
\* fails.  Nothing forces a message, a writer, a dial or a call of Close.
Ends(c) ==
    (conn[c].sock = "closed" /\ ReadFails(c)) \/ Drop(c) \/ Delete(c) \/ Leave(c)

Fairness ==
    /\ \A c \in Conns : WF_vars(Ends(c)) /\ WF_vars(Watch(c))
    /\ WF_vars(ReadEnds) /\ WF_vars(Tick) /\ WF_vars(\E t \in 0..MaxTime : Fire(t))

Spec == Init /\ [][Next]_vars
LiveSpec == Spec /\ Fairness

----------------------------------------------------------------------------
(* Properties. *)

\* The table holds exactly the connections whose reader has not yet left, so
\* a reader that deletes an address's entry (packetconn.go:93) deletes its
\* own, never that of a connection that came later.
TableMatchesReaders ==
    \A c \in Conns, a \in Addrs :
        table[a] = c <=> /\ conn[c].at = a
                         /\ conn[c].reader \in {"read", "hand", "delete"}

\* A websocket that is open has a reader that will close it: two writers that
\* dial the same address (packetconn.go:154-168) leave none behind.
NoConnLeaks ==
    \A c \in Conns : conn[c].sock = "open" =>
        conn[c].reader \in {"read", "hand", "delete", "close"}

\* After Close every goroutine of every connection ends, those of a connection
\* that a WriteTo was dialling too, though messages wait to be handed over;
\* and the watcher does not outlive the reader (packetconn.go:82-114).
GoroutinesEnd ==
    \A c \in Conns :
        /\ (CtxDone /\ conn[c].reader # "none") ~> (conn[c].reader = "done")
        /\ (conn[c].reader = "delete") ~> (conn[c].watch = "done")


\* What packetconn.go:214 says: a deadline that was extended is the one that
\* counts.
ExtendedDeadlineCounts ==
    [][ReadEnds /\ ~CtxDone => clock.deadline <= clock.now]_vars
=============================================================================
