----------------------------- MODULE AeadStream ------------------------------
(***************************************************************************)
(* One direction of an AEAD connection, shadowaead/stream.go: streamConn,  *)
(* writer and reader.  The salt goes first; then every record is a box     *)
(* with the payload's size and a box with the payload, sealed under        *)
(* nonces that both ends count.  The connection may end at any byte, and a *)
(* box may be damaged on the way.                                          *)
(*                                                                         *)
(* The bytes written are 1, 2, 3 and so on.  A box opens only if it is the *)
(* undamaged box that was sealed under that nonce: the promise of the AEAD *)
(* ciphers, which are external.  Read and WriteTo differ in how many bytes *)
(* they hand over at a time; callers stop at the first error, as io.Copy   *)
(* and the handshakes do.                                                  *)
(***************************************************************************)
EXTENDS Naturals, Sequences, FiniteSets

CONSTANTS
    payloadSizeMask,  \* var.go: the size of the payload buffer and the mask
    BitAnd(_, _),        \* the & of Go
    MaxBytes,         \* bound: bytes written
    MaxWire           \* bound: boxes on the way

VARIABLES
    sealed,   \* the writer: whether it has sent the salt, and its nonce
    sent,     \* bytes that were written
    wire,     \* boxes on the way
    link,     \* "up"; "cut" when nothing more can get in
    hurt,     \* history: the connection was cut, or a box was damaged
    step,     \* what the reader waits for: "salt", "size", "payload"; "garbled":
              \* a size, with a subkey from a damaged salt; "error"
    nonce,    \* the reader's nonce
    size,     \* the size it has opened
    leftover, \* bytes opened that the caller's buffer had no room for
    read      \* bytes handed to the caller

writerVars == <<sealed, sent>>
readerVars == <<step, nonce, size, leftover, read>>
vars == <<writerVars, wire, link, hurt, readerVars>>

\* What is on the wire: the salt, or under a nonce the payload of a record or
\* its size; the payload of the record is the bytes after byte "from".
Box(kind, non, from, len) ==
    [kind |-> kind, nonce |-> non, from |-> from, len |-> len, good |-> TRUE]

Boxes ==
    [kind : {"salt", "size", "payload"}, nonce : Nat, from : Nat, len : Nat,
     good : BOOLEAN]

Init ==
    /\ sealed = [salted |-> FALSE, nonce |-> 0]
    /\ sent = 0
    /\ wire = <<>>
    /\ link = "up"
    /\ hurt = FALSE
    /\ step = "salt"
    /\ nonce = 0
    /\ size = 0
    /\ leftover = <<>>
    /\ read = <<>>

TypeOK ==
    /\ sealed \in [salted : BOOLEAN, nonce : Nat]
    /\ sent \in Nat
    /\ wire \in Seq(Boxes)
    /\ link \in {"up", "cut"}
    /\ hurt \in BOOLEAN
    /\ step \in {"salt", "size", "payload", "garbled", "error"}
    /\ nonce \in Nat
    /\ size \in 0..payloadSizeMask
    /\ leftover \in Seq(Nat) /\ Len(leftover) < payloadSizeMask
    /\ read \in Seq(Nat)

----------------------------------------------------------------------------
(* The writer.  A write to a connection that is cut fails, and the caller  *)
(* stops.                                                                  *)

\* initWriter.
WriteSalt ==
    /\ ~sealed.salted /\ link = "up"
    /\ sealed' = [sealed EXCEPT !.salted = TRUE]
    /\ wire' = Append(wire, Box("salt", 0, 0, 0))
    /\ UNCHANGED <<sent, link, hurt, readerVars>>

\* Mutant: one nonce for both boxes of a record.
WriteRecord_OneNonce(n) ==
    /\ sealed.salted /\ link = "up" /\ Len(wire) < MaxWire
    /\ wire' = wire \o <<Box("size", sealed.nonce, sent, n),
                         Box("payload", sealed.nonce, sent, n)>>
    /\ sealed' = [sealed EXCEPT !.nonce = @ + 1]
    /\ sent' = sent + n
    /\ UNCHANGED <<link, hurt, readerVars>>

\* A round of writer.ReadFrom, which Write calls too: n bytes came from r.
WriteRecord(n) ==
    /\ sealed.salted /\ link = "up" /\ Len(wire) < MaxWire
    /\ wire' = wire \o <<Box("size", sealed.nonce, sent, n),
                         Box("payload", sealed.nonce + 1, sent, n)>>
    /\ sealed' = [sealed EXCEPT !.nonce = @ + 2]
    /\ sent' = sent + n
    /\ UNCHANGED <<link, hurt, readerVars>>

----------------------------------------------------------------------------
(* The connection. *)

\* It ends; boxes from the i-th on are lost, and part of that one arrives.
Cut(i) ==
    /\ link = "up"
    /\ link' = "cut"
    /\ hurt' = TRUE
    /\ wire' = SubSeq(wire, 1, i - 1)
    /\ UNCHANGED <<writerVars, readerVars>>

\* A box, or the salt, is damaged on the way.
Damage(i) ==
    /\ wire[i].good
    /\ wire' = [wire EXCEPT ![i].good = FALSE]
    /\ hurt' = TRUE
    /\ UNCHANGED <<writerVars, link, readerVars>>

----------------------------------------------------------------------------
(* The reader. *)

\* initReader.  A damaged salt is as good as any: it gives another subkey.
ReadSalt ==
    /\ step = "salt" /\ wire # <<>>
    /\ step' = IF Head(wire).good THEN "size" ELSE "garbled"
    /\ wire' = Tail(wire)
    /\ UNCHANGED <<writerVars, link, hurt, nonce, size, leftover, read>>

Opens(box, kind, len) ==
    box.good /\ box.kind = kind /\ box.nonce = nonce /\ box.len = len

\* io.ReadFull and Open of the size; what the caller was left is taken first.
ReadSize ==
    /\ step = "size" /\ leftover = <<>> /\ wire # <<>>
    /\ nonce' = nonce + 1
    /\ wire' = Tail(wire)
    /\ \/ /\ Opens(Head(wire), "size", Head(wire).len)
          /\ step' = "payload"
          /\ size' = BitAnd(Head(wire).len, payloadSizeMask)
       \/ /\ ~Opens(Head(wire), "size", Head(wire).len)
          /\ step' = "error" /\ UNCHANGED size
    /\ UNCHANGED <<writerVars, link, hurt, leftover, read>>

\* Nothing opens with the subkey of a damaged salt.
ReadGarbled ==
    /\ step = "garbled" /\ wire # <<>>
    /\ nonce' = nonce + 1
    /\ wire' = Tail(wire)
    /\ step' = "error"
    /\ UNCHANGED <<writerVars, link, hurt, size, leftover, read>>

PayloadOf(box) == [j \in 1..box.len |-> box.from + j]

\* Mutant: what does not fit the caller's buffer is dropped.
Deliver_DropsRest(p, m) ==
    /\ read' = read \o SubSeq(p, 1, m)
    /\ leftover' = <<>>

\* Mutant: leftover is not advanced past what was copied.
Deliver_KeepsAll(p, m) ==
    /\ read' = read \o SubSeq(p, 1, m)
    /\ leftover' = p

\* The caller's buffer takes m bytes of p; the rest is left over.
Deliver(p, m) ==
    /\ read' = read \o SubSeq(p, 1, m)
    /\ leftover' = SubSeq(p, m + 1, Len(p))

\* Mutant: the error of the second Open is not looked at by the caller.
ReadPayload_GoesOn(m) ==
    LET box == Head(wire) IN
    /\ step = "payload" /\ wire # <<>> /\ m <= size
    /\ nonce' = nonce + 1
    /\ wire' = Tail(wire)
    /\ step' = "size"
    /\ \/ Opens(box, "payload", size) /\ Deliver(PayloadOf(box), m)
       \/ ~Opens(box, "payload", size) /\ UNCHANGED <<leftover, read>>
    /\ UNCHANGED <<writerVars, link, hurt, size>>

\* io.ReadFull and Open of the payload.  If the mask has taken bits from the
\* size, too few bytes are read, and they do not open.
ReadPayload(m) ==
    LET box == Head(wire) IN
    /\ step = "payload" /\ wire # <<>>
    /\ nonce' = nonce + 1
    /\ wire' = Tail(wire)
    /\ \/ /\ Opens(box, "payload", size) /\ m <= size
          /\ step' = "size"
          /\ Deliver(PayloadOf(box), m)
       \/ /\ ~Opens(box, "payload", size)
          /\ step' = "error"
          /\ UNCHANGED <<leftover, read>>
    /\ UNCHANGED <<writerVars, link, hurt, size>>

\* Read and WriteTo give what is left over first.
ReadLeftover(m) ==
    /\ step = "size" /\ leftover # <<>> /\ m <= Len(leftover)
    /\ Deliver(leftover, m)
    /\ UNCHANGED <<writerVars, wire, link, hurt, step, nonce, size>>

\* io.ReadFull on a connection that has ended.
ReadFails ==
    /\ step # "error" /\ leftover = <<>>
    /\ link = "cut" /\ wire = <<>>
    /\ step' = "error"
    /\ UNCHANGED <<writerVars, wire, link, hurt, nonce, size, leftover, read>>

----------------------------------------------------------------------------

Reader ==
    \/ ReadSalt \/ ReadSize \/ ReadGarbled \/ ReadFails
    \/ \E m \in 1..payloadSizeMask : ReadPayload(m) \/ ReadLeftover(m)

Next ==
    \/ WriteSalt
    \/ \E n \in 1..payloadSizeMask : sent + n <= MaxBytes /\ WriteRecord(n)
    \/ \E i \in 1..Len(wire) : Damage(i)
    \/ \E i \in 1..(Len(wire) + 1) : Cut(i)
    \/ Reader

Spec == Init /\ [][Next]_vars

\* The caller goes on reading.
LiveSpec == Spec /\ WF_vars(Reader)

----------------------------------------------------------------------------
(* Properties. *)

\* The connection is a byte stream (stream.go:127-180): whatever the sizes of
\* the writes and of the buffers, wherever the connection ends and whichever
\* box is damaged, the salt included, what is read is a prefix of what was
\* written.
Stream == INSTANCE ByteStream WITH
              Byte <- Nat, written <- [j \in 1..sent |-> j]
ImplementsByteStream == Stream!Spec

\* A reader does not fail (stream.go:94-124) unless the connection was cut or
\* damaged: both ends count the same nonces, and the mask takes nothing from a
\* size.
IntactNeverFails == step = "error" => hurt

\* What was written is read, however small the caller's buffers, or there is
\* an error (stream.go:128-142).
AllArrives ==
    \A k \in 1..MaxBytes :
        (sent >= k) ~> (Len(read) >= k \/ step = "error")
=============================================================================
