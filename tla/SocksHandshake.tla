--------------------------- MODULE SocksHandshake ----------------------------
(***************************************************************************)
(* Handshake and readAddr of socks/socks.go: the bytes a local program     *)
(* sends before its payload, read by io.ReadFull into one buffer that is   *)
(* used over and over.  The program may leave at any byte.                 *)
(***************************************************************************)
EXTENDS SocksAddr

CmdConnect == 1
CmdUDPAssociate == 3

VARIABLES
    stream,     \* what the program sends until it leaves
    mode,       \* "Handshake", or at the server "ReadAddr"
    UDPEnabled, \* the -u flag
    pos,        \* how many bytes of the stream were read
    buf,        \* the buffer
    step,       \* what is read or written next
    cmd,        \* the command, saved from buf
    replies,    \* what was written
    addr,       \* the result
    err         \* and its error

given == <<stream, mode, UDPEnabled>>
vars == <<given, pos, buf, step, cmd, replies, addr, err>>

Fresh ==
    /\ pos = 0
    /\ buf = [i \in 1..MaxAddrLen |-> 0]
    /\ step = IF mode = "Handshake" THEN "hello" ELSE "atyp"
    /\ cmd = 0
    /\ replies = <<>>
    /\ addr = Nil
    /\ err = "nil"

TypeOK ==
    /\ stream \in Seq(Byte)
    /\ mode \in {"Handshake", "ReadAddr"}
    /\ UDPEnabled \in BOOLEAN
    /\ pos \in 0..Len(stream)
    /\ buf \in [1..MaxAddrLen -> Byte]
    /\ step \in {"hello", "methods", "method", "request", "atyp", "length",
                 "rest", "reply", "done"}
    /\ cmd \in Byte
    /\ replies \in Seq({"method", "connect", "associate"})
    /\ addr = Nil \/ addr \in Seq(Byte)
    /\ err \in {"nil", "EOF", "write", "address", "command", "associate"}

----------------------------------------------------------------------------

Fail(e) ==
    /\ step' = "done" /\ err' = e
    /\ UNCHANGED <<given, buf, cmd, replies, addr>>

\* io.ReadFull of n bytes into buf from place lo on.
ReadFull(lo, n) ==
    /\ pos + n <= Len(stream)
    /\ pos' = pos + n
    /\ buf' = [i \in 1..MaxAddrLen |->
                 IF i \in lo..(lo + n - 1) THEN stream[pos + 1 + i - lo] ELSE buf[i]]
    /\ UNCHANGED <<given, replies, addr, err>>

\* Mutant: the bytes that did not come are counted.
CutOff_Counts(n) == pos + n > Len(stream) /\ pos' = pos + n /\ Fail("EOF")

\* The program leaves before the n bytes have come.
CutOff(n) == pos + n > Len(stream) /\ pos' = Len(stream) /\ Fail("EOF")

Hello ==
    /\ step = "hello"
    /\ CutOff(2) \/ (ReadFull(1, 2) /\ step' = "methods" /\ UNCHANGED cmd)

Methods ==
    /\ step = "methods"
    /\ CutOff(buf[2]) \/ (ReadFull(1, buf[2]) /\ step' = "method" /\ UNCHANGED cmd)

\* A write fails if the program has left.
WriteFails ==
    /\ step = "method" \/ (step = "reply" /\ mode = "Handshake")
    /\ Fail("write") /\ UNCHANGED pos

Method ==
    /\ step = "method" /\ step' = "request"
    /\ replies' = Append(replies, "method")
    /\ UNCHANGED <<given, pos, buf, cmd, addr, err>>

Request ==
    /\ step = "request"
    /\ \/ CutOff(3)
       \/ ReadFull(1, 3) /\ step' = "atyp" /\ cmd' = buf'[2]

Atyp ==
    /\ step = "atyp"
    /\ \/ CutOff(1)
       \/ /\ ReadFull(1, 1) /\ UNCHANGED cmd
          /\ step' = IF buf'[1] = AtypDomainName THEN "length" ELSE "rest"

Length ==
    /\ step = "length"
    /\ CutOff(1) \/ (ReadFull(2, 1) /\ step' = "rest" /\ UNCHANGED cmd)

\* Mutant: a name without its port.
Rest_NoPort ==
    /\ step = "rest" /\ buf[1] = AtypDomainName
    /\ CutOff(buf[2]) \/ (ReadFull(3, buf[2]) /\ step' = "reply" /\ UNCHANGED cmd)

\* readAddr: the rest of the address, of the length its type says.
Rest ==
    LET n == AddrLen(buf)
        have == IF buf[1] = AtypDomainName THEN 2 ELSE 1
    IN
    /\ step = "rest"
    /\ \/ n = 0 /\ Fail("address") /\ UNCHANGED pos
       \/ n > 0 /\ CutOff(n - have)
       \/ /\ n > 0 /\ ReadFull(have + 1, n - have)
          /\ step' = "reply" /\ UNCHANGED cmd

\* Mutant: the command is taken from the buffer, which readAddr has used.
Command_FromBuf == buf[2]

Command == cmd

Return(reply, e) ==
    /\ step' = "done"
    /\ addr' = SubSeq(buf, 1, AddrLen(buf))
    /\ replies' = replies \o reply
    /\ err' = e
    /\ UNCHANGED <<given, pos, buf, cmd>>

Reply ==
    /\ step = "reply" /\ mode = "Handshake"
    /\ \/ Command = CmdConnect /\ Return(<<"connect">>, "nil")
       \/ Command = CmdUDPAssociate /\ UDPEnabled /\ Return(<<"associate">>, "associate")
       \/ /\ Command # CmdConnect /\ ~(Command = CmdUDPAssociate /\ UDPEnabled)
          /\ Fail("command") /\ UNCHANGED pos

\* The end of ReadAddr.
HaveAddr == step = "reply" /\ mode = "ReadAddr" /\ Return(<<>>, "nil")

Next ==
    \/ Hello \/ Methods \/ Method \/ Request \/ Atyp \/ Length \/ Rest
    \/ Reply \/ HaveAddr \/ WriteFails

----------------------------------------------------------------------------
(* Properties. *)

\* Where the address begins in the stream.
Start == IF mode = "ReadAddr" THEN 0 ELSE 2 + stream[2] + 3

\* What was read before the result is exactly the greeting, the request and the
\* address that SplitAddr finds there, and no byte of the payload
\* (socks.go:81-112, :181-203); what was answered is what was asked for.
ConsumesExactly ==
    step = "done" /\ err \in {"nil", "associate"} =>
        /\ addr = SplitAddr(SubSeq(stream, Start + 1, Len(stream)))
        /\ addr # Nil
        /\ pos = Start + Len(addr)
        /\ mode = "Handshake" =>
             replies = <<"method", IF stream[Start - 1] = CmdConnect THEN "connect"
                                   ELSE "associate">>

\* A request that is whole, of a known type and of a command that is supported
\* is not refused (socks.go:81-112, :205-220), and no other gets a reply that
\* it succeeded.
WholeIsServed ==
    LET whole == /\ Len(stream) >= 2 /\ Len(stream) >= Start
                 /\ SplitAddr(SubSeq(stream, Start + 1, Len(stream))) # Nil
                 /\ stream[Start - 1] \in {CmdConnect}
                      \cup (IF UDPEnabled THEN {CmdUDPAssociate} ELSE {})
    IN  mode = "Handshake" /\ step = "done" /\ err # "write" =>
            (whole <=> Len(replies) = 2)
=============================================================================
