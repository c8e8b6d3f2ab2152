---------------------------- MODULE PacketCipher -----------------------------
(***************************************************************************)
(* packetConn, Pack and Unpack of shadowaead/packet.go and                 *)
(* shadowstream/packet.go: datagrams encrypted on a socket that many       *)
(* goroutines write to (the relay's copiers) and one reads.  All writers   *)
(* pack into the one buffer of the packetConn.  A datagram longer than the *)
(* reader's buffer is cut off by the socket; a stream cipher does not      *)
(* notice.                                                                 *)
(*                                                                         *)
(* A payload is a name and a length.                                       *)
(***************************************************************************)
EXTENDS Naturals, FiniteSets

CONSTANTS
    Writers,    \* goroutines that call WriteTo
    Lengths,    \* lengths of their payloads
    Salt,       \* SaltSize, IVSize
    Overhead,   \* of the AEAD; 0 for a stream cipher
    packetConnBufSize, \* var.go: the length of buf
    ReadBuf,    \* the length of the buffer that ReadFrom is given
    Nobody

VARIABLES
    call,   \* each WriteTo: where it stands, and its payload's length
    holder, \* who holds the lock
    buf,    \* what buf holds: whose packet, of what length
    sent,   \* the last packet given to the socket, by whom, and the length
            \* his own packet has
    got     \* ReadFrom's result: the payload read, or an error

vars == <<call, holder, buf, sent, got>>

Nothing == [of |-> Nobody, len |-> 0]
Packets == [of : Writers \cup {Nobody}, len : Nat]

Init ==
    /\ call = [w \in Writers |-> [step |-> "idle", len |-> 0]]
    /\ holder = Nobody
    /\ buf = Nothing
    /\ sent = [by |-> Nobody, len |-> 0, packet |-> Nothing]
    /\ got = [error |-> FALSE, of |-> Nobody, len |-> 0]

TypeOK ==
    /\ call \in [Writers -> [step : {"idle", "lock", "pack", "write"}, len : Lengths \cup {0}]]
    /\ holder \in Writers \cup {Nobody}
    /\ buf \in Packets /\ buf.len <= packetConnBufSize
    /\ sent \in [by : Writers \cup {Nobody}, len : Nat, packet : Packets]
    /\ got \in [error : BOOLEAN, of : Writers \cup {Nobody}, len : 0..ReadBuf]

----------------------------------------------------------------------------

Begin(w, n) ==
    /\ call[w].step = "idle"
    /\ call' = [call EXCEPT ![w] = [step |-> "lock", len |-> n]]
    /\ UNCHANGED <<holder, buf, sent, got>>

\* Mutant: WriteTo does not lock.
Lock_Missing(w) ==
    /\ call[w].step = "lock"
    /\ call' = [call EXCEPT ![w].step = "pack"]
    /\ UNCHANGED <<holder, buf, sent, got>>

Lock(w) ==
    /\ call[w].step = "lock" /\ holder = Nobody
    /\ holder' = w
    /\ call' = [call EXCEPT ![w].step = "pack"]
    /\ UNCHANGED <<buf, sent, got>>

\* Mutant: the return for a short buffer leaves the lock held.
PackShort_KeepsLock(w) ==
    /\ call[w].step = "pack"
    /\ packetConnBufSize < Salt + call[w].len + Overhead
    /\ call' = [call EXCEPT ![w].step = "idle"]
    /\ UNCHANGED <<holder, buf, sent, got>>

\* ErrShortBuffer: nothing is sent.
PackShort(w) ==
    /\ call[w].step = "pack"
    /\ packetConnBufSize < Salt + call[w].len + Overhead
    /\ call' = [call EXCEPT ![w].step = "idle"]
    /\ holder' = Nobody
    /\ UNCHANGED <<buf, sent, got>>

Pack(w) ==
    /\ call[w].step = "pack"
    /\ packetConnBufSize >= Salt + call[w].len + Overhead
    /\ buf' = [of |-> w, len |-> Salt + call[w].len + Overhead]
    /\ call' = [call EXCEPT ![w].step = "write"]
    /\ UNCHANGED <<holder, sent, got>>

\* The socket is given what buf holds.
Write(w) ==
    /\ call[w].step = "write"
    /\ sent' = [by |-> w, len |-> Salt + call[w].len + Overhead, packet |-> buf]
    /\ holder' = Nobody
    /\ call' = [call EXCEPT ![w].step = "idle"]
    /\ UNCHANGED <<buf, got>>

\* Mutant: what is missing at the end is not noticed.
Unpacked_CutOff(p, n) ==
    IF n < Salt + Overhead
      THEN [error |-> TRUE, of |-> Nobody, len |-> 0]
      ELSE [error |-> FALSE, of |-> p.of, len |-> n - Salt - Overhead]

\* Unpack of the n bytes that arrived of packet p.
Unpacked(p, n) ==
    IF n < Salt + Overhead \/ (Overhead > 0 /\ n < p.len)
      THEN [error |-> TRUE, of |-> Nobody, len |-> 0]
      ELSE [error |-> FALSE, of |-> p.of, len |-> n - Salt - Overhead]

\* The far end reads the packet, or as much of it as its buffer takes.
ReadFrom ==
    /\ sent.packet # Nothing
    /\ LET n == IF sent.packet.len <= ReadBuf THEN sent.packet.len ELSE ReadBuf
       IN got' = Unpacked(sent.packet, n)
    /\ UNCHANGED <<call, holder, buf, sent>>

WriteTo(w) == Lock(w) \/ PackShort(w) \/ Pack(w) \/ Write(w)

Next ==
    \/ \E w \in Writers : WriteTo(w) \/ \E n \in Lengths : Begin(w, n)
    \/ ReadFrom

\* Unlock wakes the writers that wait: sync.Mutex starves nobody.
Spec == Init /\ [][Next]_vars
LiveSpec ==
    /\ Spec
    /\ \A w \in Writers : /\ SF_vars(Lock(w))
                          /\ WF_vars(PackShort(w) \/ Pack(w) \/ Write(w))

----------------------------------------------------------------------------
(* Properties. *)

\* What a WriteTo gives the socket is its own packet, whole, and not what
\* another copier has packed into the same buffer (packet.go:73-81).
SentIsOwn ==
    sent.packet = [of |-> sent.by, len |-> sent.len]

\* Every WriteTo returns, one that was refused for its length too
\* (packet.go:74-79).
WritesReturn == \A w \in Writers : (call[w].step = "lock") ~> (call[w].step = "idle")

\* With an AEAD cipher what is read is a whole payload, of a length that some
\* caller gave, however small the reader's buffer (packet.go:53-57, :86-95).
ReadIsWhole == got.of # Nobody => got.len \in Lengths
=============================================================================
