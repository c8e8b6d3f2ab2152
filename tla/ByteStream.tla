----------------------------- MODULE ByteStream ------------------------------
(***************************************************************************)
(* What an encrypted connection promises in one direction (core.StreamConn *)
(* of core/cipher.go, net.Conn): the bytes that are read are a prefix of   *)
(* the bytes that were written, in their order, none twice and none lost.  *)
(***************************************************************************)
EXTENDS Sequences, Naturals

CONSTANT Byte

VARIABLES written, read

Init == written = <<>> /\ read = <<>>

Write ==
    /\ written' \in Seq(Byte)
    /\ Len(written') >= Len(written)
    /\ SubSeq(written', 1, Len(written)) = written
    /\ UNCHANGED read

Read ==
    /\ \E k \in Len(read)..Len(written) : read' = SubSeq(written, 1, k)
    /\ UNCHANGED written

Spec == Init /\ [][Write \/ Read]_<<written, read>>
=============================================================================
