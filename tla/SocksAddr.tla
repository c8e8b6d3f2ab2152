------------------------------ MODULE SocksAddr ------------------------------
(***************************************************************************)
(* The addresses of socks/socks.go: a type, then four bytes, sixteen       *)
(* bytes, or a length and a name, then a port of two bytes.  SplitAddr     *)
(* finds one at the beginning of a datagram, String prints one to dial it, *)
(* and ParseAddr reads one from a printed form.                            *)
(*                                                                         *)
(* The sizes are constants, so that short addresses can stand for long     *)
(* ones; TcpTunnel states what is assumed of them.  A printed form is a    *)
(* host and a port; a host is an IP address or a name, and some names read *)
(* like IP addresses.                                                      *)
(***************************************************************************)
EXTENDS Naturals, Sequences

CONSTANTS
    MaxByte,  \* 255
    IPv4len,  \* 4
    IPv6len,  \* 16
    Mapped,   \* the first bytes of an IPv4 address in IPv6 form
    Numeric,  \* the IP addresses of the names that read like one
    Nil

AtypIPv4 == 1
AtypDomainName == 3
AtypIPv6 == 4

Byte == 0..MaxByte

MaxAddrLen == 1 + 1 + MaxByte + 2

\* Mutant: the name's own length byte is not counted.
AddrLen_NoLengthByte(b) ==
    IF b # <<>> /\ b[1] = AtypIPv4 THEN 1 + IPv4len + 2
    ELSE IF b # <<>> /\ b[1] = AtypIPv6 THEN 1 + IPv6len + 2
    ELSE IF Len(b) >= 2 /\ b[1] = AtypDomainName THEN 1 + b[2] + 2
    ELSE 0

\* The length of the address at the beginning of b; 0 if there is none.
AddrLen(b) ==
    IF b # <<>> /\ b[1] = AtypIPv4 THEN 1 + IPv4len + 2
    ELSE IF b # <<>> /\ b[1] = AtypIPv6 THEN 1 + IPv6len + 2
    ELSE IF Len(b) >= 2 /\ b[1] = AtypDomainName THEN 1 + 1 + b[2] + 2
    ELSE 0

SplitAddr(b) ==
    IF AddrLen(b) = 0 \/ Len(b) < AddrLen(b) THEN Nil ELSE SubSeq(b, 1, AddrLen(b))

----------------------------------------------------------------------------

IP(bytes) == [kind |-> "ip", bytes |-> bytes]
Name(bytes) == [kind |-> "name", bytes |-> bytes]

IPs == [1..IPv4len -> Byte] \cup [1..IPv6len -> Byte]
Hosts == [kind : {"ip"}, bytes : IPs] \cup [kind : {"name"}, bytes : Seq(Byte)]

\* net.ParseIP.
ParseIP(host) ==
    IF host.kind = "ip" THEN host.bytes
    ELSE IF host.bytes \in DOMAIN Numeric THEN Numeric[host.bytes]
    ELSE Nil

\* To4: an IPv4 address in IPv6 form is an IPv4 address.
To4(ip) ==
    IF Len(ip) = IPv6len /\ SubSeq(ip, 1, Len(Mapped)) = Mapped
      THEN SubSeq(ip, Len(Mapped) + 1, IPv6len) ELSE ip

Port(a) == a[Len(a) - 1] * (MaxByte + 1) + a[Len(a)]

\* String, of an address that SplitAddr or readAddr returned.
String(a) ==
    [host |-> IF a[1] = AtypDomainName THEN Name(SubSeq(a, 3, 2 + a[2]))
              ELSE IP(To4(SubSeq(a, 2, Len(a) - 2))),
     port |-> Port(a)]

\* The bytes in front of the port.
HostBytes(host) ==
    LET ip == ParseIP(host) IN
    IF ip = Nil THEN <<AtypDomainName, Len(host.bytes)>> \o host.bytes
    ELSE IF Len(To4(ip)) = IPv4len THEN <<AtypIPv4>> \o To4(ip)
    ELSE <<AtypIPv6>> \o ip

\* Names that are too long and ports of more than 16 bits are refused.
ParseAddr(s) ==
    IF \/ ParseIP(s.host) = Nil /\ Len(s.host.bytes) > MaxByte
       \/ s.port >= (MaxByte + 1) * (MaxByte + 1)
    THEN Nil
    ELSE HostBytes(s.host) \o <<s.port \div (MaxByte + 1), s.port % (MaxByte + 1)>>

\* What is dialled for a host: an IP address or a name to look up.
Dialled(host) == IF ParseIP(host) = Nil THEN host ELSE IP(To4(ParseIP(host)))

----------------------------------------------------------------------------

\* An address that ParseAddr makes of a printed form is whole, SplitAddr finds
\* it in front of any payload, and what String prints of it is the same host
\* and port (socks.go:54-79, :115-178): the target that the command line or a
\* program named is the one that the server dials.  No printed form is refused
\* but a name of more than 255 bytes and a port above 65535.
KeepsTarget(text) ==
    LET a == ParseAddr(text)
        tooLong == \/ Dialled(text.host).kind = "name" /\ Len(text.host.bytes) > MaxByte
                   \/ text.port > MaxByte * (MaxByte + 1) + MaxByte
    IN  IF tooLong THEN a = Nil
        ELSE /\ Len(a) <= MaxAddrLen
             /\ SplitAddr(a \o <<1>>) = a
             /\ Dialled(String(a).host) = Dialled(text.host)
             /\ String(a).port = text.port
=============================================================================
