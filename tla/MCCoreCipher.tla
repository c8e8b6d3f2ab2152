---------------------------- MODULE MCCoreCipher -----------------------------
(***************************************************************************)
(* CoreCipher with Go's & for TLC.                                         *)
(***************************************************************************)
EXTENDS CoreCipher, Bitwise

MCAnd(x, y) == x & y
=============================================================================
