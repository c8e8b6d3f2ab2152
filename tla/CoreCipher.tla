----------------------------- MODULE CoreCipher ------------------------------
(***************************************************************************)
(* core/cipher.go: a cipher is picked by its name, and what it makes of a  *)
(* connection or of a socket is an AeadStream, a ShadowStream or a         *)
(* PacketCipher of one of the two kinds.  (The dummy cipher adds nothing.) *)
(* One cipher is picked, and one connection or socket is wrapped in it:    *)
(* only the variables of that one move.                                    *)
(***************************************************************************)
EXTENDS Naturals, Sequences

CONSTANTS
    Keys,                   \* lengths of the keys given; 0 if none is
    payloadSizeMask, BitAnd(_, _), MaxBytes, MaxWire,         \* AeadStream
    connBufSize, Garbage,                                     \* ShadowStream
    Writers, Lengths, Salt, Overhead, packetConnBufSize, ReadBuf, Nobody

ASSUME SizesAssumption ==
    /\ Keys \subseteq Nat
    /\ {payloadSizeMask, connBufSize} \subseteq Nat \ {0}
    /\ \A n \in 1..payloadSizeMask : BitAnd(n, payloadSizeMask) = n
    /\ {MaxBytes, MaxWire, ReadBuf, packetConnBufSize} \cup Lengths \subseteq Nat
    /\ Overhead \in Nat \ {0}
    /\ Salt \in 1..ReadBuf /\ Salt <= packetConnBufSize
    /\ Nobody \notin Writers

VARIABLES
    name, key,  \* the arguments of PickCipher, until it is called
    cipher,     \* "none" before the choice; "aead", "stream", "dummy" or "error"
    use,        \* "StreamConn" or "PacketConn"
    aSealed, aSent, aWire, aLink, aHurt, aStep, aNonce, aSize, aLeftover, aRead,
    sW, sFrom, sSent, sWire, sLink, sR, sRead,
    pCall, pHolder, pBuf, pSent, pGot

AEAD == INSTANCE AeadStream WITH
    sealed <- aSealed, sent <- aSent, wire <- aWire, link <- aLink, hurt <- aHurt,
    step <- aStep, nonce <- aNonce, size <- aSize, leftover <- aLeftover, read <- aRead
Shadow == INSTANCE ShadowStream WITH
    w <- sW, from <- sFrom, sent <- sSent, wire <- sWire, link <- sLink, r <- sR, read <- sRead
AEADPacket == INSTANCE PacketCipher WITH
    call <- pCall, holder <- pHolder, buf <- pBuf, sent <- pSent, got <- pGot
ShadowPacket == INSTANCE PacketCipher WITH Overhead <- 0,
    call <- pCall, holder <- pHolder, buf <- pBuf, sent <- pSent, got <- pGot

pick == <<name, key, cipher, use>>
aVars == <<aSealed, aSent, aWire, aLink, aHurt, aStep, aNonce, aSize, aLeftover, aRead>>
sVars == <<sW, sFrom, sSent, sWire, sLink, sR, sRead>>
pVars == <<pCall, pHolder, pBuf, pSent, pGot>>
vars == <<pick, aVars, sVars, pVars>>

----------------------------------------------------------------------------
(* The choice. *)

\* Key sizes by name.
aeadList == [AEAD_AES_128_GCM |-> 16, AEAD_AES_192_GCM |-> 24,
             AEAD_AES_256_GCM |-> 32, AEAD_CHACHA20_POLY1305 |-> 32]

streamList ==
    [n \in {"AES-128-CTR", "AES-128-CFB", "AES-192-CTR", "AES-192-CFB", "AES-256-CTR",
            "AES-256-CFB", "CHACHA20", "CHACHA20-IETF", "XCHACHA20"} |->
        CASE n \in {"AES-128-CTR", "AES-128-CFB"} -> 16
          [] n \in {"AES-192-CTR", "AES-192-CFB"} -> 24
          [] OTHER -> 32]

Aliases ==
    [n \in {"CHACHA20-IETF-POLY1305", "AES-128-GCM", "AES-192-GCM", "AES-256-GCM"} |->
        CASE n = "CHACHA20-IETF-POLY1305" -> "AEAD_CHACHA20_POLY1305"
          [] n = "AES-128-GCM" -> "AEAD_AES_128_GCM"
          [] n = "AES-192-GCM" -> "AEAD_AES_192_GCM"
          [] n = "AES-256-GCM" -> "AEAD_AES_256_GCM"]

ListCipher == DOMAIN aeadList \cup DOMAIN streamList

Canonical(n) == IF n \in DOMAIN Aliases THEN Aliases[n] ELSE n

\* The key sizes that a constructor accepts: AESGCM, AESCTR and AESCFB those of
\* AES, the others only their own.
Accepted(n) ==
    IF n \in {"AEAD_CHACHA20_POLY1305", "CHACHA20", "CHACHA20-IETF", "XCHACHA20"}
      THEN {32} ELSE {16, 24, 32}

\* Mutant: the key that was given is not compared with the cipher's key size.
Choose_Unchecked(kind, n, keySize, k) ==
    LET used == IF k = 0 THEN keySize ELSE k IN
    IF used \notin Accepted(n) THEN "error" ELSE kind

\* kdf derives a key of the right size from the password if none is given.
Choose(kind, n, keySize, k) ==
    LET used == IF k = 0 THEN keySize ELSE k IN
    IF used # keySize \/ used \notin Accepted(n) THEN "error" ELSE kind

PickCipher(n, k) ==
    LET c == Canonical(n) IN
    IF c = "DUMMY" THEN "dummy"
    ELSE IF c \in DOMAIN aeadList THEN Choose("aead", c, aeadList[c], k)
    ELSE IF c \in DOMAIN streamList THEN Choose("stream", c, streamList[c], k)
    ELSE "error"

----------------------------------------------------------------------------

Init ==
    /\ name \in ListCipher \cup DOMAIN Aliases \cup {"DUMMY", "RC4-MD5"}
    /\ key \in Keys
    /\ cipher = "none"
    /\ use \in {"StreamConn", "PacketConn"}
    /\ AEAD!Init /\ Shadow!Init /\ AEADPacket!Init

TypeOK ==
    /\ cipher \in {"none", "aead", "stream", "dummy", "error"}
    /\ use \in {"StreamConn", "PacketConn"}
    /\ AEAD!TypeOK /\ Shadow!TypeOK /\ AEADPacket!TypeOK

Pick ==
    /\ cipher = "none"
    /\ cipher' = PickCipher(name, key)
    /\ name' = "" /\ key' = 0
    /\ UNCHANGED <<use, aVars, sVars, pVars>>

AEADConn ==
    /\ cipher = "aead" /\ use = "StreamConn"
    /\ AEAD!Next
    /\ UNCHANGED <<pick, sVars, pVars>>

ShadowConn ==
    /\ cipher = "stream" /\ use = "StreamConn"
    /\ Shadow!Next
    /\ UNCHANGED <<pick, aVars, pVars>>

PacketConn ==
    /\ use = "PacketConn"
    /\ \/ cipher = "aead" /\ AEADPacket!Next
       \/ cipher = "stream" /\ ShadowPacket!Next
    /\ UNCHANGED <<pick, aVars, sVars>>

Next == Pick \/ AEADConn \/ ShadowConn \/ PacketConn

\* Whoever reads an AEAD connection goes on reading; a goroutine in WriteTo
\* goes on, and Unlock wakes those that wait (sync.Mutex starves nobody).
Reads == AEADConn /\ AEAD!Reader
Locks(g) == PacketConn /\ AEADPacket!Lock(g)
Writes(g) == PacketConn /\ pCall[g].step \in {"pack", "write"} /\ pCall'[g] # pCall[g]
Spec ==
    /\ Init /\ [][Next]_vars
    /\ WF_vars(Reads)
    /\ \A g \in Writers : SF_vars(Locks(g)) /\ WF_vars(Writes(g))

----------------------------------------------------------------------------
(* Properties. *)

\* A name that ListCipher lists, or one of its aliases, gives a cipher of its
\* kind with the password alone or with a key of its size, and a key of
\* another size gives an error and no cipher (cipher.go:91-130).
PickedSuitsKey ==
    cipher = "none" =>
        LET n == Canonical(name)
            kind == IF n \in DOMAIN aeadList THEN "aead" ELSE "stream"
            size == IF n \in DOMAIN aeadList THEN aeadList[n] ELSE streamList[n]
        IN  n \in ListCipher =>
              PickCipher(name, key) = IF key \in {0, size} THEN kind ELSE "error"

\* See AeadStream, ShadowStream and PacketCipher.
AEADImplementsByteStream == AEAD!ImplementsByteStream
ShadowImplementsByteStream == Shadow!ImplementsByteStream
IntactNeverFails == AEAD!IntactNeverFails
AllArrives == AEAD!AllArrives
SentIsOwn == AEADPacket!SentIsOwn
ReadIsWhole == cipher # "stream" => AEADPacket!ReadIsWhole
WritesReturn == AEADPacket!WritesReturn
=============================================================================
