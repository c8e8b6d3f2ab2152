----------------------------- MODULE MCTcpTunnel -----------------------------
(***************************************************************************)
(* TcpTunnel with bytes from 0 to 4, two bytes to an IPv4 address and      *)
(* three to an IPv6 one: greetings, requests and payloads of every kind,   *)
(* whole and cut off at every byte, and printed targets up to a little     *)
(* beyond the limits.                                                      *)
(***************************************************************************)
EXTENDS TcpTunnel

Bytes == 0..MaxByte

MCMapped == <<4>>
MCNumeric == [n \in {<<1, 1>>} |-> <<1, 0>>]

\* n bytes, the i-th of them (i * f) % (MaxByte + 1).
Filled(n, f) == [i \in 1..n |-> (i * f) % (MaxByte + 1)]

Whole ==
    {<<0, n>> \o Filled(n, f) \o <<0, c, 0, t, l>> \o Filled(k, f) :
        n \in {0, 3}, f \in {0, 3}, c \in 1..3, t \in Bytes, l \in Bytes, k \in {7}}
    \cup {<<t, l>> \o Filled(k, f) : t \in Bytes, l \in Bytes, f \in {0, 3}, k \in {7}}

MCStreams == UNION {{SubSeq(s, 1, n) : n \in 0..Len(s)} : s \in Whole}

Strings(S, n) == UNION {[1..k -> S] : k \in 0..n}

MCTargets ==
    [host : {Addr!IP(b) : b \in [1..IPv4len -> {0, 1}] \cup [1..IPv6len -> {0, 1, 4}]}
             \cup {Addr!Name(b) : b \in Strings({0, 1}, MaxByte + 1)},
     port : {0, 1, MaxByte, MaxByte + 1, (MaxByte + 1) * (MaxByte + 1) - 1,
             (MaxByte + 1) * (MaxByte + 1)}]
=============================================================================
