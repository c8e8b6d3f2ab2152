-------------------------------- MODULE Relay --------------------------------
(***************************************************************************)
(* relay of tcp.go, which clientlib/conn.go repeats: two goroutines copy   *)
(* between the connections left and right, one each way, until both have   *)
(* ended.  The first to end wakes the other by deadlines on both           *)
(* connections; the caller of relay collects both results.                 *)
(*                                                                         *)
(* Bytes are counted.  What lies between a connection and the program at   *)
(* its far end is a queue in each direction; the one that relay fills is   *)
(* bounded, so that a program that does not read blocks a write.           *)
(***************************************************************************)
EXTENDS Naturals

CONSTANTS
    MaxBytes,  \* bound: how many bytes each program sends
    Window     \* bound: how many bytes a program leaves unread

ASSUME BoundsAssumption == MaxBytes \in Nat /\ Window \in Nat \ {0}

Ends == {"left", "right"}
Copiers == {"main", "back"}  \* relay itself, and the goroutine that it starts

From == [main |-> "right", back |-> "left"]
To   == [main |-> "left", back |-> "right"]
Other == [main |-> "back", back |-> "main"]

VARIABLES
    sent,     \* how many bytes the program at each end has sent
    fin,      \* whether it sends more: "open", "eof" or "reset"
    eaten,    \* how many bytes it has read
    taken,    \* how many bytes have been read from each connection
    put,      \* how many bytes have been written to each connection
    expired,  \* the connections whose deadline has passed
    pc,       \* where each copier stands
    buf,      \* how many bytes it has read and not yet written
    err,      \* the error its io.Copy returned; "none" while it runs
    result    \* what relay returned, or "none"

progVars == <<sent, fin, eaten>>
connVars == <<taken, put, expired>>
vars     == <<progVars, connVars, pc, buf, err, result>>

Init ==
    /\ sent = [e \in Ends |-> 0]
    /\ fin = [e \in Ends |-> "open"]
    /\ eaten = [e \in Ends |-> 0]
    /\ taken = [e \in Ends |-> 0]
    /\ put = [e \in Ends |-> 0]
    /\ expired = {}
    /\ pc = [g \in Copiers |-> "read"]
    /\ buf = [g \in Copiers |-> 0]
    /\ err = [g \in Copiers |-> "none"]
    /\ result = "none"

TypeOK ==
    /\ sent \in [Ends -> 0..MaxBytes]
    /\ fin \in [Ends -> {"open", "eof", "reset"}]
    /\ eaten \in [Ends -> Nat]
    /\ taken \in [Ends -> Nat]
    /\ put \in [Ends -> Nat]
    /\ expired \subseteq Ends
    /\ pc \in [Copiers -> {"read", "write", "right", "left", "meet", "done"}]
    /\ buf \in [Copiers -> Nat]
    /\ err \in [Copiers -> {"none", "nil", "timeout", "error"}]
    /\ result \in {"none", "nil", "timeout", "error"}
    /\ \A g \in Copiers : err[g] = "none" <=> pc[g] \in {"read", "write"}

----------------------------------------------------------------------------
(* The programs at the far ends. *)

Produce(e) ==
    /\ fin[e] = "open"
    /\ sent[e] < MaxBytes
    /\ sent' = [sent EXCEPT ![e] = @ + 1]
    /\ UNCHANGED <<fin, eaten, connVars, pc, buf, err, result>>

\* The program sends no more, or its connection breaks.
Finish(e) ==
    /\ fin[e] # "reset"
    /\ \E f \in {"eof", "reset"} \ {fin[e]} : fin' = [fin EXCEPT ![e] = f]
    /\ UNCHANGED <<sent, eaten, connVars, pc, buf, err, result>>

Consume(e) ==
    /\ eaten[e] < put[e]
    /\ eaten' = [eaten EXCEPT ![e] = @ + 1]
    /\ UNCHANGED <<sent, fin, connVars, pc, buf, err, result>>

----------------------------------------------------------------------------
(* io.Copy of copier g. *)

\* io.Copy returns, and the first SetDeadline is next.
Stop(g, e) ==
    /\ err' = [err EXCEPT ![g] = e]
    /\ pc' = [pc EXCEPT ![g] = "right"]

\* Mutant: an idle timeout is set on the connection before it is read.
ReadBytes_IdleTimeout(g) ==
    /\ pc[g] = "read"
    /\ From[g] \notin expired
    /\ fin[From[g]] # "reset"
    /\ expired' = expired \cup {From[g]}
    /\ UNCHANGED <<progVars, taken, put, pc, buf, err, result>>

\* Read returns some of the bytes that are there.
ReadBytes(g) ==
    /\ pc[g] = "read"
    /\ From[g] \notin expired
    /\ fin[From[g]] # "reset"
    /\ \E k \in 1..(sent[From[g]] - taken[From[g]]) :
         /\ taken' = [taken EXCEPT ![From[g]] = @ + k]
         /\ buf' = [buf EXCEPT ![g] = k]
    /\ pc' = [pc EXCEPT ![g] = "write"]
    /\ UNCHANGED <<progVars, put, expired, err, result>>

\* Read returns io.EOF: everything has been read, and io.Copy returns no error.
ReadEnds(g) ==
    /\ pc[g] = "read"
    /\ From[g] \notin expired
    /\ fin[From[g]] = "eof"
    /\ taken[From[g]] = sent[From[g]]
    /\ Stop(g, "nil")
    /\ UNCHANGED <<progVars, connVars, buf, result>>

\* Write accepts as many bytes as fit, and blocks while there is no room.
WriteBytes(g) ==
    /\ pc[g] = "write"
    /\ To[g] \notin expired
    /\ fin[To[g]] # "reset"
    /\ \E k \in 1..buf[g] :
         /\ put[To[g]] + k <= eaten[To[g]] + Window
         /\ put' = [put EXCEPT ![To[g]] = @ + k]
         /\ buf' = [buf EXCEPT ![g] = @ - k]
         /\ pc' = [pc EXCEPT ![g] = IF k = buf[g] THEN "read" ELSE "write"]
    /\ UNCHANGED <<progVars, taken, expired, err, result>>

\* The connection that copier g is using.
Using(g) == IF pc[g] = "read" THEN From[g] ELSE To[g]

\* Mutant: a deadline that has passed ends io.Copy like the end of the stream.
Fails_Unreported(g) ==
    /\ pc[g] \in {"read", "write"}
    /\ \/ Using(g) \in expired /\ Stop(g, "nil")
       \/ Using(g) \notin expired /\ fin[Using(g)] = "reset" /\ Stop(g, "error")
    /\ UNCHANGED <<progVars, connVars, buf, result>>

\* Read or Write fails: past its deadline, even if it could have gone on, or
\* because the connection is broken.
Fails(g) ==
    /\ pc[g] \in {"read", "write"}
    /\ \/ Using(g) \in expired /\ Stop(g, "timeout")
       \/ Using(g) \notin expired /\ fin[Using(g)] = "reset" /\ Stop(g, "error")
    /\ UNCHANGED <<progVars, connVars, buf, result>>

----------------------------------------------------------------------------
(* The rest of relay. *)

\* right.SetDeadline(time.Now()).
ExpireRight(g) ==
    /\ pc[g] = "right"
    /\ expired' = expired \cup {"right"}
    /\ pc' = [pc EXCEPT ![g] = "left"]
    /\ UNCHANGED <<progVars, taken, put, buf, err, result>>

\* Mutant: only the deadline of right is set.
ExpireLeft_Missing(g) ==
    /\ pc[g] = "left"
    /\ pc' = [pc EXCEPT ![g] = "meet"]
    /\ UNCHANGED <<progVars, connVars, buf, err, result>>

\* left.SetDeadline(time.Now()).
ExpireLeft(g) ==
    /\ pc[g] = "left"
    /\ expired' = expired \cup {"left"}
    /\ pc' = [pc EXCEPT ![g] = "meet"]
    /\ UNCHANGED <<progVars, taken, put, buf, err, result>>

\* ch <- res{n, err} meets rs := <-ch, and relay returns: its own error, or
\* the other's if it has none.
Meet ==
    /\ pc = [g \in Copiers |-> "meet"]
    /\ result' = IF err["main"] = "nil" THEN err["back"] ELSE err["main"]
    /\ pc' = [g \in Copiers |-> "done"]
    /\ UNCHANGED <<progVars, connVars, buf, err>>

Copy(g) ==
    \/ ReadBytes(g)
    \/ ReadEnds(g)
    \/ WriteBytes(g)
    \/ Fails(g)
    \/ ExpireRight(g)
    \/ ExpireLeft(g)

Next ==
    \/ \E e \in Ends : Produce(e) \/ Finish(e) \/ Consume(e)
    \/ \E g \in Copiers : Copy(g)
    \/ Meet

\* Both goroutines run whenever they can; the programs may stop at any time.
Fairness ==
    /\ \A g \in Copiers : WF_vars(Copy(g))
    /\ WF_vars(Meet)

Spec == Init /\ [][Next]_vars /\ Fairness

----------------------------------------------------------------------------
(* Properties. *)

\* A direction that ends without an error is complete: every byte that one
\* program sent before it finished has been written to the other, although the
\* other direction may set deadlines on both connections at any moment.
NoErrorMeansComplete ==
    \A g \in Copiers :
        err[g] = "nil" => fin[From[g]] # "open" /\ put[To[g]] = sent[From[g]]

\* A direction is cut off by a deadline only if the other has ended by itself:
\* the callers of relay may ignore a timeout.
TimeoutMeansOtherEnded ==
    \A g \in Copiers : err[g] = "timeout" => err[Other[g]] \in {"nil", "error"}
==============================================================================
