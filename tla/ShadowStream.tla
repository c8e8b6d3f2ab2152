---------------------------- MODULE ShadowStream -----------------------------
(***************************************************************************)
(* One direction of a connection under a stream cipher,                    *)
(* shadowstream/stream.go: conn, writer and reader.  The IV goes first;    *)
(* every byte is then combined with the next byte of the keystream of that *)
(* IV, and nothing is authenticated: bytes come out right only as long as  *)
(* both ends stand at the same place of the same keystream.                *)
(*                                                                         *)
(* The bytes written are 1, 2, 3 and so on; a byte taken off at another    *)
(* place of the keystream, or under another IV, is Garbage.  A caller      *)
(* writes with Write and then, at most once, with ReadFrom (io.Copy), and  *)
(* stops at the first error, as the tunnels do.                            *)
(***************************************************************************)
EXTENDS Naturals, Sequences

CONSTANTS
    connBufSize, \* var.go: bytes per round of ReadFrom and WriteTo
    MaxBytes,    \* bound: bytes written
    MaxWire,     \* bound: bytes on the way
    Garbage      \* what a wrong place in the keystream makes of a byte

VARIABLES
    w,     \* c.w: nil or the writer, and its place in the keystream
    from,  \* ReadFrom: not yet called, in its first round, in its loop, its error
    sent,  \* bytes that were written
    wire,  \* the IV and the bytes on the way, each at its place
    link,  \* "up"; "cut" when the connection has ended
    r,     \* c.r: nil or the reader, its IV, its place; "error" at the end
    read   \* bytes handed to the caller

writerVars == <<w, from, sent>>
readerVars == <<r, read>>
vars == <<writerVars, wire, link, readerVars>>

IV == 0

Init ==
    /\ w = [set |-> FALSE, place |-> 0]
    /\ from = "no"
    /\ sent = 0
    /\ wire = <<>>
    /\ link = "up"
    /\ r = [step |-> "nil", iv |-> TRUE, place |-> 0]
    /\ read = <<>>

TypeOK ==
    /\ w \in [set : BOOLEAN, place : Nat]
    /\ from \in {"no", "first", "loop", "nil", "EOF"}
    /\ sent \in Nat
    /\ wire \in Seq([place : Nat, byte : Nat])
    /\ link \in {"up", "cut"}
    /\ r \in [step : {"nil", "set", "error"}, iv : BOOLEAN, place : Nat]
    /\ read \in Seq(Nat)
    /\ from \in {"loop", "nil"} => w.set

----------------------------------------------------------------------------
(* The writer. *)

\* XORKeyStream of the next n bytes, at the writer's place.
Cipher(n) == [j \in 1..n |-> [place |-> w.place + j, byte |-> sent + j]]

Put(iv, n) ==
    /\ link = "up" /\ Len(wire) < MaxWire
    /\ wire' = wire \o (IF iv THEN <<[place |-> IV, byte |-> IV]>> ELSE <<>>) \o Cipher(n)
    /\ w' = [set |-> TRUE, place |-> w.place + n]
    /\ sent' = sent + n
    /\ UNCHANGED <<link, readerVars>>

\* conn.Write, initWriter included: the IV is a write of its own.
Write(n) == from = "no" /\ Put(~w.set, n) /\ UNCHANGED from

\* ReadFrom makes the writer, which the IV has not been sent for yet.
FromStart ==
    /\ from = "no"
    /\ from' = IF w.set THEN "loop" ELSE "first"
    /\ w' = [w EXCEPT !.set = TRUE]
    /\ UNCHANGED <<sent, wire, link, readerVars>>

\* The first bytes go out together with the IV.
FromFirst(n) == from = "first" /\ Put(TRUE, n) /\ from' = "loop"

\* The source's first Read returns an error, the end included: nothing is sent,
\* and bytes that came together with the error are dropped.
FromFirstEOF ==
    /\ from = "first" /\ from' = "EOF"
    /\ UNCHANGED <<w, sent, wire, link, readerVars>>

FromLoop(n) == from = "loop" /\ Put(FALSE, n) /\ UNCHANGED from

FromEOF ==
    /\ from = "loop" /\ from' = "nil"
    /\ UNCHANGED <<w, sent, wire, link, readerVars>>

----------------------------------------------------------------------------
(* The connection ends; bytes from the i-th on are lost. *)

Cut(i) ==
    /\ link = "up" /\ link' = "cut"
    /\ wire' = SubSeq(wire, 1, i - 1)
    /\ UNCHANGED <<writerVars, readerVars>>

----------------------------------------------------------------------------
(* The reader. *)

\* initReader.
ReadIV ==
    /\ r.step = "nil" /\ wire # <<>>
    /\ r' = [r EXCEPT !.step = "set", !.iv = Head(wire).place = IV]
    /\ wire' = Tail(wire)
    /\ UNCHANGED <<writerVars, link, read>>

\* XORKeyStream at the reader's place.
Plain(s) ==
    [j \in 1..Len(s) |-> IF r.iv /\ s[j].place = r.place + j THEN s[j].byte ELSE Garbage]

\* Mutant: a round that fills the buffer starts the keystream anew.
ReadBytes_Restarts(n) ==
    /\ r.step = "set" /\ n <= Len(wire)
    /\ read' = read \o Plain(SubSeq(wire, 1, n))
    /\ r' = [r EXCEPT !.place = IF n = connBufSize THEN 0 ELSE @ + n]
    /\ wire' = SubSeq(wire, n + 1, Len(wire))
    /\ UNCHANGED <<writerVars, link>>

\* reader.Read into a buffer of n bytes or more; WriteTo's rounds too.
ReadBytes(n) ==
    /\ r.step = "set" /\ n <= Len(wire)
    /\ read' = read \o Plain(SubSeq(wire, 1, n))
    /\ r' = [r EXCEPT !.place = @ + n]
    /\ wire' = SubSeq(wire, n + 1, Len(wire))
    /\ UNCHANGED <<writerVars, link>>

ReadFails ==
    /\ r.step # "error" /\ link = "cut" /\ wire = <<>>
    /\ r' = [r EXCEPT !.step = "error"]
    /\ UNCHANGED <<writerVars, wire, link, read>>

----------------------------------------------------------------------------

Rounds == {n \in 1..connBufSize : sent + n <= MaxBytes}

Next ==
    \/ \E n \in Rounds : Write(n) \/ FromFirst(n) \/ FromLoop(n)
    \/ FromStart \/ FromFirstEOF \/ FromEOF
    \/ \E i \in 1..(Len(wire) + 1) : Cut(i)
    \/ \E n \in 1..connBufSize : ReadBytes(n)
    \/ ReadIV \/ ReadFails

Spec == Init /\ [][Next]_vars

----------------------------------------------------------------------------
(* Properties. *)

\* The connection is a byte stream (stream.go:62-71, :162-216): the IV is the
\* first thing on the wire whichever way the writer was made, and both ends
\* stay in step whatever the sizes of writes and reads are.
Stream == INSTANCE ByteStream WITH
              Byte <- Nat, written <- [j \in 1..sent |-> j]
ImplementsByteStream == Stream!Spec
=============================================================================
