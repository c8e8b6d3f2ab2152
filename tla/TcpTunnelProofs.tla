--------------------------- MODULE TcpTunnelProofs ---------------------------
(***************************************************************************)
(* Proofs about TcpTunnel and the modules it puts together.  Relay: a      *)
(* direction that ends without an error is complete, and a deadline ends a *)
(* direction only after the other one has ended by itself.                 *)
(* SocksHandshake: exactly the address is read, and a whole request is     *)
(* served.  SocksAddr: the printed target is the one that is dialled.      *)
(* They hold for every number of bytes, every window, every stream and     *)
(* every size of an address.                                               *)
(***************************************************************************)
EXTENDS TcpTunnel, SequenceTheorems, TLAPS

----------------------------------------------------------------------------
(* The relay. *)

\* The bytes that a copier has read are those that it has written and those
\* that it is about to write.
Counted ==
    \A g \in Copiers :
        /\ taken[From[g]] = put[To[g]] + buf[g]
        /\ pc[g] = "read" => buf[g] = 0

\* A copier without an error has read everything that will ever come.
Finished ==
    \A g \in Copiers :
        err[g] = "nil" =>
            /\ fin[From[g]] # "open"
            /\ taken[From[g]] = sent[From[g]]
            /\ buf[g] = 0

\* Deadlines are set only after one copier has ended by itself.
Woken == expired # {} => \E g \in Copiers : err[g] \in {"nil", "error"}

\* The inductive invariant.
RelayIInv ==
    /\ TypeOK
    /\ Counted
    /\ Finished
    /\ Woken
    /\ TimeoutMeansOtherEnded

\* Each copier reads one end and writes the other.
LEMMA Wiring ==
    /\ From \in [Copiers -> Ends]
    /\ To \in [Copiers -> Ends]
    /\ Other \in [Copiers -> Copiers]
    /\ \A g, h \in Copiers :
         /\ g # h => From[g] # From[h] /\ To[g] # To[h]
         /\ g # h <=> h = Other[g]
BY DEF From, To, Other, Copiers, Ends

\* The first state satisfies the invariant.
LEMMA RelayInit == Init => RelayIInv
<1> SUFFICES ASSUME Init PROVE RelayIInv
  OBVIOUS
<1> USE DEF Init
<1>1. TypeOK
  BY BoundsAssumption DEF TypeOK
<1>2. Counted
  BY Wiring DEF Counted
<1>3. Finished /\ Woken /\ TimeoutMeansOtherEnded
  BY DEF Finished, Woken, TimeoutMeansOtherEnded
<1> QED
  BY <1>1, <1>2, <1>3 DEF RelayIInv

\* The programs at the far ends keep it.
LEMMA ProgramsKeepIt ==
    ASSUME RelayIInv, NEW e \in Ends, Produce(e) \/ Finish(e) \/ Consume(e)
    PROVE  RelayIInv'
<1> USE DEF RelayIInv
<1>1. TypeOK'
  <2>1. CASE Produce(e)
    BY <2>1, BoundsAssumption DEF TypeOK, Produce, connVars
  <2>2. CASE Finish(e)
    BY <2>2, BoundsAssumption DEF TypeOK, Finish, connVars
  <2>3. CASE Consume(e)
    BY <2>3, BoundsAssumption DEF TypeOK, Consume, connVars
  <2> QED
    BY <2>1, <2>2, <2>3
<1>2. UNCHANGED <<taken, put, expired, pc, buf, err>>
  BY DEF Produce, Finish, Consume, connVars
<1>3. Counted' /\ Woken' /\ TimeoutMeansOtherEnded'
  BY <1>2 DEF Counted, Woken, TimeoutMeansOtherEnded
<1>4. Finished'
  <2> SUFFICES ASSUME NEW g \in Copiers, err[g] = "nil"
               PROVE  /\ fin'[From[g]] # "open"
                      /\ sent'[From[g]] = sent[From[g]]
    BY <1>2 DEF Finished
  <2>1. From[g] \in Ends /\ fin[From[g]] # "open"
    BY Wiring DEF Finished
  <2>2. CASE Produce(e)
    BY <2>1, <2>2 DEF Produce, TypeOK
  <2>3. CASE Finish(e)
    BY <2>1, <2>3 DEF Finish, TypeOK
  <2>4. CASE Consume(e)
    BY <2>1, <2>4 DEF Consume
  <2> QED
    BY <2>2, <2>3, <2>4
<1> QED
  BY <1>1, <1>3, <1>4

\* Reading keeps it.
LEMMA ReadBytesKeepsIt ==
    ASSUME RelayIInv, NEW g \in Copiers, ReadBytes(g)
    PROVE  RelayIInv'
<1> USE DEF RelayIInv
<1>1. PICK k \in 1..(sent[From[g]] - taken[From[g]]) :
         /\ taken' = [taken EXCEPT ![From[g]] = @ + k]
         /\ buf' = [buf EXCEPT ![g] = k]
  BY DEF ReadBytes
<1>2. /\ pc[g] = "read"
      /\ pc' = [pc EXCEPT ![g] = "write"]
      /\ UNCHANGED <<sent, fin, eaten, put, expired, err, result>>
  BY DEF ReadBytes, progVars
<1>3. From[g] \in Ends /\ To[g] \in Ends /\ k \in Nat
  BY Wiring DEF TypeOK
<1>4. TypeOK'
  BY <1>1, <1>2, <1>3 DEF TypeOK
<1>5. Counted'
  <2> SUFFICES ASSUME NEW h \in Copiers
               PROVE  /\ taken'[From[h]] = put'[To[h]] + buf'[h]
                      /\ pc'[h] = "read" => buf'[h] = 0
    BY DEF Counted
  <2>1. From[h] \in Ends /\ To[h] \in Ends /\ (h # g => From[h] # From[g])
    BY Wiring
  <2>2. CASE h = g
    BY <1>1, <1>2, <1>3, <2>1, <2>2 DEF Counted, TypeOK
  <2>3. CASE h # g
    BY <1>1, <1>2, <1>3, <2>1, <2>3 DEF Counted, TypeOK
  <2> QED
    BY <2>2, <2>3
<1>6. Finished'
  <2> SUFFICES ASSUME NEW h \in Copiers, err[h] = "nil"
               PROVE  taken'[From[h]] = taken[From[h]] /\ buf'[h] = buf[h]
    BY <1>2 DEF Finished
  <2>1. h # g
    BY <1>2 DEF TypeOK
  <2> QED
    BY <1>1, <2>1, Wiring DEF TypeOK
<1>7. Woken' /\ TimeoutMeansOtherEnded'
  BY <1>2 DEF Woken, TimeoutMeansOtherEnded
<1> QED
  BY <1>4, <1>5, <1>6, <1>7

\* Writing keeps it.
LEMMA WriteBytesKeepsIt ==
    ASSUME RelayIInv, NEW g \in Copiers, WriteBytes(g)
    PROVE  RelayIInv'
<1> USE DEF RelayIInv
<1>1. PICK k \in 1..buf[g] :
         /\ put' = [put EXCEPT ![To[g]] = @ + k]
         /\ buf' = [buf EXCEPT ![g] = @ - k]
         /\ pc' = [pc EXCEPT ![g] = IF k = buf[g] THEN "read" ELSE "write"]
  BY DEF WriteBytes
<1>2. /\ pc[g] = "write"
      /\ UNCHANGED <<sent, fin, eaten, taken, expired, err, result>>
  BY DEF WriteBytes, progVars
<1>3. From[g] \in Ends /\ To[g] \in Ends /\ k \in Nat /\ buf[g] - k \in Nat
  BY Wiring DEF TypeOK
<1>4. TypeOK'
  BY <1>1, <1>2, <1>3 DEF TypeOK
<1>5. Counted'
  <2> SUFFICES ASSUME NEW h \in Copiers
               PROVE  /\ taken'[From[h]] = put'[To[h]] + buf'[h]
                      /\ pc'[h] = "read" => buf'[h] = 0
    BY DEF Counted
  <2>1. From[h] \in Ends /\ To[h] \in Ends /\ (h # g => To[h] # To[g])
    BY Wiring
  <2>2. CASE h = g
    BY <1>1, <1>2, <1>3, <2>1, <2>2 DEF Counted, TypeOK
  <2>3. CASE h # g
    BY <1>1, <1>2, <1>3, <2>1, <2>3 DEF Counted, TypeOK
  <2> QED
    BY <2>2, <2>3
<1>6. Finished'
  <2> SUFFICES ASSUME NEW h \in Copiers, err[h] = "nil"
               PROVE  buf'[h] = buf[h]
    BY <1>2 DEF Finished
  <2>1. h # g
    BY <1>2 DEF TypeOK
  <2> QED
    BY <1>1, <2>1 DEF TypeOK
<1>7. Woken' /\ TimeoutMeansOtherEnded'
  BY <1>2 DEF Woken, TimeoutMeansOtherEnded
<1> QED
  BY <1>4, <1>5, <1>6, <1>7

\* The end of io.Copy keeps it: here the errors are decided.
LEMMA EndingKeepsIt ==
    ASSUME RelayIInv, NEW g \in Copiers, ReadEnds(g) \/ Fails(g)
    PROVE  RelayIInv'
<1> USE DEF RelayIInv
<1>1. PICK e \in {"nil", "timeout", "error"} :
         /\ err' = [err EXCEPT ![g] = e]
         /\ pc' = [pc EXCEPT ![g] = "right"]
         /\ e = "nil" => /\ pc[g] = "read"
                         /\ fin[From[g]] # "open"
                         /\ taken[From[g]] = sent[From[g]]
         /\ e = "timeout" => expired # {}
  BY DEF ReadEnds, Fails, Stop
<1>2. /\ pc[g] \in {"read", "write"}
      /\ UNCHANGED <<sent, fin, eaten, taken, put, expired, buf, result>>
  BY DEF ReadEnds, Fails, progVars, connVars
<1>3. err[g] = "none"
  BY <1>2 DEF TypeOK
<1>4. TypeOK'
  BY <1>1, <1>2 DEF TypeOK
<1>5. Counted'
  BY <1>1, <1>2 DEF Counted, TypeOK
<1>6. Finished'
  <2> SUFFICES ASSUME NEW h \in Copiers, err'[h] = "nil"
               PROVE  /\ fin[From[h]] # "open"
                      /\ taken[From[h]] = sent[From[h]]
                      /\ buf[h] = 0
    BY <1>2 DEF Finished
  <2>1. CASE h = g
    BY <1>1, <2>1 DEF TypeOK, Counted
  <2>2. CASE h # g
    BY <1>1, <2>2 DEF TypeOK, Finished
  <2> QED
    BY <2>1, <2>2
<1>7. \A h \in Copiers : err[h] \in {"nil", "error", "timeout"} => err'[h] = err[h]
  BY <1>1, <1>3 DEF TypeOK
<1>8. Woken'
  BY <1>2, <1>7 DEF Woken
<1>9. TimeoutMeansOtherEnded'
  <2> SUFFICES ASSUME NEW h \in Copiers, err'[h] = "timeout"
               PROVE  err'[Other[h]] \in {"nil", "error"}
    BY DEF TimeoutMeansOtherEnded
  <2>1. CASE h = g
    <3>1. PICK w \in Copiers : err[w] \in {"nil", "error"}
      BY <1>1, <2>1 DEF Woken, TypeOK
    <3>2. w = Other[h]
      BY <1>3, <2>1, <3>1, Wiring
    <3> QED
      BY <1>7, <3>1, <3>2
  <2>2. CASE h # g
    BY <1>1, <1>7, <2>2, Wiring DEF TypeOK, TimeoutMeansOtherEnded
  <2> QED
    BY <2>1, <2>2
<1> QED
  BY <1>4, <1>5, <1>6, <1>8, <1>9

\* Setting the deadlines keeps it: it happens only after io.Copy has returned.
LEMMA DeadlinesKeepIt ==
    ASSUME RelayIInv, NEW g \in Copiers, ExpireRight(g) \/ ExpireLeft(g)
    PROVE  RelayIInv'
<1> USE DEF RelayIInv
<1>1. PICK to \in {"left", "meet"} : pc' = [pc EXCEPT ![g] = to]
  BY DEF ExpireRight, ExpireLeft
<1>2. /\ pc[g] \in {"right", "left"}
      /\ expired' \subseteq Ends
      /\ UNCHANGED <<sent, fin, eaten, taken, put, buf, err, result>>
  BY DEF ExpireRight, ExpireLeft, progVars, TypeOK, Ends
<1>3. TypeOK'
  BY <1>1, <1>2 DEF TypeOK
<1>4. Counted'
  BY <1>1, <1>2 DEF Counted, TypeOK
<1>5. Finished' /\ TimeoutMeansOtherEnded'
  BY <1>2 DEF Finished, TimeoutMeansOtherEnded
<1>6. Woken'
  <2>1. err[g] \in {"nil", "timeout", "error"}
    BY <1>2 DEF TypeOK
  <2>2. err[g] = "timeout" => err[Other[g]] \in {"nil", "error"} /\ Other[g] \in Copiers
    BY Wiring DEF TimeoutMeansOtherEnded
  <2> QED
    BY <1>2, <2>1, <2>2 DEF Woken
<1> QED
  BY <1>3, <1>4, <1>5, <1>6

\* The return of relay keeps it.
LEMMA MeetKeepsIt ==
    ASSUME RelayIInv, Meet
    PROVE  RelayIInv'
<1> USE DEF RelayIInv
<1>1. /\ \A g \in Copiers : pc[g] = "meet"
      /\ pc' = [g \in Copiers |-> "done"]
      /\ UNCHANGED <<sent, fin, eaten, taken, put, expired, buf, err>>
  BY DEF Meet, progVars, connVars
<1>2. result' \in {"nil", "timeout", "error"}
  <2>1. \A g \in Copiers : err[g] \in {"nil", "timeout", "error"}
    BY <1>1 DEF TypeOK
  <2> QED
    BY <2>1 DEF Meet, Copiers
<1>3. TypeOK'
  BY <1>1, <1>2 DEF TypeOK
<1>4. Counted' /\ Finished' /\ Woken' /\ TimeoutMeansOtherEnded'
  BY <1>1 DEF Counted, Finished, Woken, TimeoutMeansOtherEnded
<1> QED
  BY <1>3, <1>4

\* The invariant is inductive.
LEMMA RelayKeepsIt == RelayIInv /\ [Next]_vars => RelayIInv'
<1> SUFFICES ASSUME RelayIInv, [Next]_vars PROVE RelayIInv'
  OBVIOUS
<1>1. CASE \E e \in Ends : Produce(e) \/ Finish(e) \/ Consume(e)
  BY <1>1, ProgramsKeepIt
<1>2. ASSUME NEW g \in Copiers, Copy(g) PROVE RelayIInv'
  BY <1>2, ReadBytesKeepsIt, WriteBytesKeepsIt, EndingKeepsIt, DeadlinesKeepIt DEF Copy
<1>3. CASE Meet
  BY <1>3, MeetKeepsIt
<1>4. CASE UNCHANGED vars
  BY <1>4 DEF RelayIInv, TypeOK, Counted, Finished, Woken, TimeoutMeansOtherEnded,
              vars, progVars, connVars
<1> QED
  BY <1>1, <1>2, <1>3, <1>4 DEF Next

----------------------------------------------------------------------------
(* The handshake. *)

Start == Hand!Start

\* What follows the greeting and the request.
Ahead == SubSeq(stream, Start + 1, Len(stream))

\* The program sends a whole request of a command that is supported.
Requested ==
    /\ Len(stream) >= 2 /\ Len(stream) >= Start
    /\ Hand!SplitAddr(Ahead) # Nil
    /\ stream[Start - 1] \in
         {Hand!CmdConnect} \cup (IF UDPEnabled THEN {Hand!CmdUDPAssociate} ELSE {})

\* The greeting and the request have been read, and the command is saved.
Greeted ==
    mode = "Handshake" =>
        Len(stream) >= 2 /\ Start <= Len(stream) /\ cmd = stream[Start - 1]

\* How far the handler has read, and what the buffer holds of it.
Placed ==
    /\ step = "hello" => mode = "Handshake" /\ pos = 0
    /\ step = "methods" => mode = "Handshake" /\ pos = 2 /\ hbuf[2] = stream[2]
    /\ step \in {"method", "request"} =>
         mode = "Handshake" /\ pos >= 2 /\ pos = 2 + stream[2]
    /\ step \in {"atyp", "length", "rest", "reply"} => Greeted
    /\ step = "atyp" => pos = Start
    /\ step = "length" =>
         pos = Start + 1 /\ hbuf[1] = Hand!AtypDomainName /\ hbuf[1] = stream[Start + 1]
    /\ step = "rest" =>
         /\ pos = Start + (IF hbuf[1] = Hand!AtypDomainName THEN 2 ELSE 1)
         /\ hbuf[1] = stream[Start + 1]
         /\ hbuf[1] = Hand!AtypDomainName => hbuf[2] = stream[Start + 2]
    /\ step = "reply" =>
         /\ Hand!AddrLen(hbuf) > 0
         /\ pos = Start + Hand!AddrLen(hbuf)
         /\ \A i \in 1..Hand!AddrLen(hbuf) : hbuf[i] = stream[Start + i]

\* What has been answered so far.
Replied ==
    /\ step \in {"hello", "methods", "method"} => replies = <<>>
    /\ step \in {"request", "atyp", "length", "rest", "reply"} =>
         replies = IF mode = "Handshake" THEN <<"method">> ELSE <<>>
    /\ step # "done" => herr = "nil"

HandIInv == Hand!TypeOK /\ Placed /\ Replied /\ ConsumesExactly /\ WholeIsServed

\* Sizes.
LEMMA ByteIs ==
    /\ MaxByte \in Nat /\ MaxByte >= 4
    /\ Hand!Byte = 0..MaxByte /\ Hand!MaxAddrLen = MaxByte + 4
    /\ IPv4len \in 0..(MaxByte + 1) /\ IPv6len \in 0..(MaxByte + 1)
    /\ Nil \notin Seq(Hand!Byte)
<1>1. /\ MaxByte \in Nat /\ MaxByte >= 4 /\ IPv4len \in Nat /\ Mapped \in Seq(0..MaxByte)
      /\ IPv6len = Len(Mapped) + IPv4len /\ IPv6len <= MaxByte + 1
      /\ Nil \notin Seq(0..MaxByte)
  BY SizesAssumption
<1>2. Len(Mapped) \in Nat
  BY <1>1, LenProperties
<1> QED BY <1>1, <1>2 DEF Hand!Byte, Hand!MaxAddrLen

\* The length of an address, by its first bytes.
LEMMA AddrLenIs ==
    \A b \in Seq(Hand!Byte) :
        /\ Hand!AddrLen(b) \in 0..Hand!MaxAddrLen
        /\ Len(b) = 0 => Hand!AddrLen(b) = 0
        /\ Len(b) = 1 /\ b[1] = 3 => Hand!AddrLen(b) = 0
        /\ Len(b) >= 1 /\ b[1] \notin {1, 3, 4} => Hand!AddrLen(b) = 0
        /\ Len(b) >= 1 /\ b[1] = 1 => Hand!AddrLen(b) = IPv4len + 3
        /\ Len(b) >= 1 /\ b[1] = 4 => Hand!AddrLen(b) = IPv6len + 3
        /\ Len(b) >= 2 /\ b[1] = 3 => Hand!AddrLen(b) = b[2] + 4 /\ b[2] \in Nat
<1> TAKE b \in Seq(Hand!Byte)
<1>1. Len(b) \in Nat /\ (b = <<>> <=> Len(b) = 0)
  BY LenProperties, EmptySeq
<1>2. Len(b) >= 2 => b[2] \in 0..MaxByte
  BY <1>1, ByteIs, ElementOfSeq
<1>3. /\ Len(b) = 0 => Hand!AddrLen(b) = 0
      /\ Len(b) = 1 /\ b[1] = 3 => Hand!AddrLen(b) = 0
      /\ Len(b) >= 1 /\ b[1] \notin {1, 3, 4} => Hand!AddrLen(b) = 0
  BY <1>1 DEF Hand!AddrLen, Hand!AtypIPv4, Hand!AtypDomainName, Hand!AtypIPv6
<1>4. /\ Len(b) >= 1 /\ b[1] = 1 => Hand!AddrLen(b) = 1 + IPv4len + 2
      /\ Len(b) >= 1 /\ b[1] = 4 => Hand!AddrLen(b) = 1 + IPv6len + 2
      /\ Len(b) >= 2 /\ b[1] = 3 => Hand!AddrLen(b) = 1 + 1 + b[2] + 2
  BY <1>1 DEF Hand!AddrLen, Hand!AtypIPv4, Hand!AtypDomainName, Hand!AtypIPv6
<1>5. /\ 1 + IPv4len + 2 = IPv4len + 3 /\ IPv4len + 3 \in 0..Hand!MaxAddrLen
      /\ 1 + IPv6len + 2 = IPv6len + 3 /\ IPv6len + 3 \in 0..Hand!MaxAddrLen
      /\ 0 \in 0..Hand!MaxAddrLen
      /\ \A k \in 0..MaxByte : 1 + 1 + k + 2 = k + 4 /\ k + 4 \in 0..Hand!MaxAddrLen
  BY ByteIs
<1>6. Len(b) >= 2 /\ b[1] = 3 =>
        Hand!AddrLen(b) = b[2] + 4 /\ b[2] \in Nat /\ b[2] + 4 \in 0..Hand!MaxAddrLen
  BY <1>2, <1>4, <1>5
<1>7. Hand!AddrLen(b) \in 0..Hand!MaxAddrLen
  <2>1. Len(b) = 0 \/ (Len(b) = 1 /\ Len(b) >= 1) \/ (Len(b) >= 2 /\ Len(b) >= 1)
    <3>1. PICK n \in Nat : n = Len(b)
      BY <1>1
    <3>2. n = 0 \/ (n = 1 /\ n >= 1) \/ (n >= 2 /\ n >= 1)
      OBVIOUS
    <3> QED BY <3>1, <3>2
  <2>2. b[1] = 1 \/ b[1] = 3 \/ b[1] = 4 \/ b[1] \notin {1, 3, 4}
    OBVIOUS
  <2> QED BY <1>3, <1>4, <1>5, <1>6, <2>1, <2>2
<1> QED BY <1>3, <1>4, <1>5, <1>6, <1>7

\* The buffer of the handshake is as long as the longest address.
LEMMA BufIs ==
    ASSUME Hand!TypeOK
    PROVE  /\ hbuf \in Seq(Hand!Byte) /\ Len(hbuf) = Hand!MaxAddrLen
           /\ Len(hbuf) >= 3
           /\ \A i \in 1..Hand!MaxAddrLen : hbuf[i] \in Nat /\ hbuf[i] <= MaxByte
           /\ stream \in Seq(Hand!Byte) /\ Len(stream) \in Nat /\ pos \in Nat
           /\ \A i \in 1..Len(stream) : stream[i] \in Hand!Byte
           /\ \A i \in 1..Len(stream) : stream[i] \in Nat /\ stream[i] <= MaxByte
<1>1. hbuf \in [1..Hand!MaxAddrLen -> Hand!Byte] /\ Hand!MaxAddrLen \in Nat
      /\ Hand!MaxAddrLen >= 3
  BY ByteIs DEF Hand!TypeOK
<1>2. hbuf \in Seq(Hand!Byte) /\ Len(hbuf) = Hand!MaxAddrLen
  BY <1>1
<1>3. \A i \in 1..Hand!MaxAddrLen : hbuf[i] \in Nat /\ hbuf[i] <= MaxByte
  BY <1>1, ByteIs
<1>4. stream \in Seq(Hand!Byte) /\ Len(stream) \in Nat /\ pos \in Nat
  BY LenProperties DEF Hand!TypeOK
<1>5. \A i \in 1..Len(stream) : stream[i] \in Hand!Byte
  BY <1>4, ElementOfSeq
<1> QED BY <1>1, <1>2, <1>3, <1>4, <1>5, ByteIs

LEMMA StartIs ==
    ASSUME Hand!TypeOK, mode = "Handshake" => Len(stream) >= 2
    PROVE  /\ Start \in Nat
           /\ mode = "Handshake" => Start = stream[2] + 5 /\ stream[2] \in Nat
           /\ mode = "ReadAddr" => Start = 0
<1>1. mode = "Handshake" => stream[2] \in Nat
  BY BufIs
<1> QED BY <1>1 DEF Start, Hand!Start, Hand!TypeOK

\* The bytes ahead.
LEMMA AheadIs ==
    ASSUME Hand!TypeOK, Start \in Nat, Start <= Len(stream)
    PROVE  /\ Ahead \in Seq(Hand!Byte)
           /\ Len(Ahead) = Len(stream) - Start
           /\ \A i \in 1..(Len(stream) - Start) : Ahead[i] = stream[Start + i]
<1>1. PICK m \in Nat : m = Start + 1
  OBVIOUS
<1>2. /\ Len(stream) \in Nat /\ m \in Int /\ Len(stream) \in Int
      /\ \A i \in m..Len(stream) : stream[i] \in Hand!Byte
  <2>1. \A i \in m..Len(stream) : i \in 1..Len(stream)
    BY <1>1, BufIs
  <2> QED BY <1>1, <2>1, BufIs
<1>3. /\ SubSeq(stream, m, Len(stream)) \in Seq(Hand!Byte)
      /\ Len(SubSeq(stream, m, Len(stream)))
           = IF m <= Len(stream) THEN Len(stream) - m + 1 ELSE 0
      /\ \A i \in 1..(Len(stream) - m + 1) :
           SubSeq(stream, m, Len(stream))[i] = stream[m + i - 1]
  BY <1>2, SubSeqProperties
<1>4. /\ Len(stream) - m + 1 = Len(stream) - Start
      /\ \A i \in 1..(Len(stream) - Start) : m + i - 1 = Start + i
      /\ (IF m <= Len(stream) THEN Len(stream) - m + 1 ELSE 0) = Len(stream) - Start
  BY <1>1, <1>2
<1>5. Ahead = SubSeq(stream, m, Len(stream))
  BY <1>1 DEF Ahead
<1> QED BY <1>3, <1>4, <1>5

LEMMA ServedIs ==
    WholeIsServed <=>
        (mode = "Handshake" /\ step = "done" /\ herr # "write" =>
            (Requested <=> Len(replies) = 2))
BY DEF WholeIsServed, Hand!WholeIsServed, Requested, Start, Ahead

\* What a read brings.
LEMMA ReadFullIs ==
    ASSUME Hand!TypeOK, NEW lo \in 1..3, NEW n \in Nat, lo + n - 1 <= Hand!MaxAddrLen,
           Hand!ReadFull(lo, n)
    PROVE  /\ pos' = pos + n /\ pos' \in 0..Len(stream)
           /\ hbuf' \in [1..Hand!MaxAddrLen -> Hand!Byte]
           /\ \A i \in lo..(lo + n - 1) : hbuf'[i] = stream[pos + 1 + i - lo]
           /\ \A i \in 1..(lo - 1) : hbuf'[i] = hbuf[i]
           /\ UNCHANGED <<stream, mode, UDPEnabled, replies, addr, herr>>
<1>1. /\ pos + n <= Len(stream) /\ pos' = pos + n
      /\ hbuf' = [i \in 1..Hand!MaxAddrLen |->
                    IF i \in lo..(lo + n - 1) THEN stream[pos + 1 + i - lo] ELSE hbuf[i]]
      /\ UNCHANGED <<stream, mode, UDPEnabled, replies, addr, herr>>
  BY DEF Hand!ReadFull, Hand!given
<1>2. pos \in Nat /\ Len(stream) \in Nat /\ Hand!MaxAddrLen \in Nat /\ Hand!MaxAddrLen >= 3
  BY BufIs, ByteIs
<1>3. \A i \in lo..(lo + n - 1) : pos + 1 + i - lo \in 1..Len(stream) /\ i \in 1..Hand!MaxAddrLen
  BY <1>1, <1>2
<1>4. \A i \in 1..(lo - 1) : i \in 1..Hand!MaxAddrLen /\ i \notin lo..(lo + n - 1)
  BY <1>2
<1>5. hbuf' \in [1..Hand!MaxAddrLen -> Hand!Byte]
  <2>1. \A i \in 1..Hand!MaxAddrLen : hbuf[i] \in Hand!Byte
    BY DEF Hand!TypeOK
  <2>2. \A i \in lo..(lo + n - 1) : stream[pos + 1 + i - lo] \in Hand!Byte
    BY <1>3, BufIs
  <2> QED BY <1>1, <2>1, <2>2
<1>6. pos' \in 0..Len(stream)
  BY <1>1, <1>2
<1> QED BY <1>1, <1>3, <1>4, <1>5, <1>6

\* A failure is right if the request is not whole; a write may always fail.
LEMMA FailIInv ==
    ASSUME HandIInv, NEW e \in {"EOF", "write", "address", "command"}, Hand!Fail(e),
           pos' \in 0..Len(stream), step # "done",
           mode = "Handshake" /\ e # "write" => ~Requested
    PROVE  HandIInv'
<1>1. /\ step' = "done" /\ herr' = e
      /\ UNCHANGED <<stream, mode, UDPEnabled, hbuf, cmd, replies, addr>>
  BY DEF Hand!Fail, Hand!given
<1>2. Hand!TypeOK'
  BY <1>1 DEF HandIInv, Hand!TypeOK
<1>3. Placed' /\ Replied'
  BY <1>1 DEF Placed, Replied
<1>4. ConsumesExactly'
  BY <1>1 DEF ConsumesExactly, Hand!ConsumesExactly
<1>5. WholeIsServed'
  <2>1. Len(replies) # 2
    <3>1. replies = <<>> \/ replies = <<"method">>
      BY DEF HandIInv, Replied, Hand!TypeOK
    <3>2. Len(<<>>) = 0 /\ Len(<<"method">>) = 1
      OBVIOUS
    <3> QED BY <3>1, <3>2
  <2>2. mode' = "Handshake" /\ herr' # "write" => ~Requested'
    BY <1>1 DEF Requested, Ahead, Start, Hand!Start
  <2>3. mode' = "Handshake" /\ step' = "done" /\ herr' # "write" =>
            (Requested' <=> Len(replies') = 2)
    BY <1>1, <2>1, <2>2
  <2> QED BY <2>3 DEF WholeIsServed, Hand!WholeIsServed, Requested, Start, Ahead
<1> QED BY <1>2, <1>3, <1>4, <1>5 DEF HandIInv

\* While it goes on, only the places and the replies are at stake.
LEMMA GoesOn ==
    ASSUME Hand!TypeOK', step' # "done", Placed', Replied'
    PROVE  HandIInv'
BY DEF HandIInv, ConsumesExactly, Hand!ConsumesExactly, WholeIsServed, Hand!WholeIsServed

LEMMA ReadKeepsTypes ==
    ASSUME Hand!TypeOK, NEW lo \in 1..3, NEW n \in Nat, lo + n - 1 <= Hand!MaxAddrLen,
           Hand!ReadFull(lo, n), cmd' \in Hand!Byte,
           step' \in {"methods", "method", "atyp", "length", "rest", "reply"}
    PROVE  Hand!TypeOK'
<1>1. /\ pos' \in 0..Len(stream)
      /\ hbuf' \in [1..Hand!MaxAddrLen -> Hand!Byte]
      /\ UNCHANGED <<stream, mode, UDPEnabled, replies, addr, herr>>
  BY ReadFullIs
<1> QED BY <1>1 DEF Hand!TypeOK

LEMMA HelloIInv == ASSUME HandIInv, Hand!Hello PROVE HandIInv'
<1>1. step = "hello" /\ mode = "Handshake" /\ pos = 0 /\ Len(stream) \in Nat
  BY BufIs DEF HandIInv, Hand!Hello, Placed
<1>2. CASE Hand!CutOff(2)
  <2>1. pos' = Len(stream) /\ Len(stream) < 2 /\ Hand!Fail("EOF")
    BY <1>1, <1>2 DEF Hand!CutOff
  <2>2. pos' \in 0..Len(stream) /\ ~Requested
    BY <1>1, <2>1 DEF Requested
  <2> QED BY <1>1, <2>1, <2>2, FailIInv
<1>3. CASE Hand!ReadFull(1, 2) /\ step' = "methods" /\ UNCHANGED cmd
  <2>1. 1 + 2 - 1 <= Hand!MaxAddrLen
    BY ByteIs
  <2>2. /\ pos' = pos + 2
        /\ \A i \in 1..(1 + 2 - 1) : hbuf'[i] = stream[pos + 1 + i - 1]
        /\ UNCHANGED <<stream, mode, replies, herr>>
    BY <1>3, <2>1, ReadFullIs DEF HandIInv
  <2>3. Hand!TypeOK'
    <3>1. cmd' \in Hand!Byte
      BY <1>3 DEF HandIInv, Hand!TypeOK
    <3> QED BY <1>3, <2>1, <3>1, ReadKeepsTypes DEF HandIInv
  <2>4. pos' = 2 /\ hbuf'[2] = stream'[2]
    <3>1. hbuf'[2] = stream[pos + 1 + 2 - 1] /\ pos + 1 + 2 - 1 = 2 /\ pos + 2 = 2
      BY <1>1, <2>2
    <3> QED BY <2>2, <3>1
  <2>5. Placed' /\ Replied'
    BY <1>1, <1>3, <2>2, <2>4 DEF Placed, Replied, HandIInv
  <2> QED BY <1>3, <2>3, <2>5, GoesOn
<1> QED BY <1>2, <1>3 DEF Hand!Hello

LEMMA MethodsIInv == ASSUME HandIInv, Hand!Methods PROVE HandIInv'
<1>1. /\ step = "methods" /\ mode = "Handshake" /\ pos = 2 /\ hbuf[2] = stream[2]
      /\ Len(stream) \in Nat /\ Len(stream) >= 2 /\ stream[2] \in Nat /\ stream[2] <= MaxByte
  <2>1. step = "methods" /\ mode = "Handshake" /\ pos = 2 /\ hbuf[2] = stream[2]
    BY DEF HandIInv, Hand!Methods, Placed
  <2>2. Len(stream) \in Nat /\ Len(stream) >= 2
    BY <2>1, BufIs DEF HandIInv, Hand!TypeOK
  <2> QED BY <2>1, <2>2, BufIs DEF HandIInv
<1>2. CASE Hand!CutOff(hbuf[2])
  <2>1. pos' = Len(stream) /\ Len(stream) < 2 + stream[2] /\ Hand!Fail("EOF")
    BY <1>1, <1>2 DEF Hand!CutOff
  <2>2. pos' \in 0..Len(stream) /\ ~Requested
    <3>1. Start = stream[2] + 5
      BY <1>1, StartIs DEF HandIInv
    <3> QED BY <1>1, <2>1, <3>1 DEF Requested
  <2> QED BY <1>1, <2>1, <2>2, FailIInv
<1>3. CASE Hand!ReadFull(1, hbuf[2]) /\ step' = "method" /\ UNCHANGED cmd
  <2>1. hbuf[2] \in Nat /\ 1 + hbuf[2] - 1 <= Hand!MaxAddrLen
    BY <1>1, ByteIs
  <2>2. pos' = pos + hbuf[2] /\ UNCHANGED <<stream, mode, replies, herr>>
    BY <1>3, <2>1, ReadFullIs DEF HandIInv
  <2>3. Hand!TypeOK'
    <3>1. cmd' \in Hand!Byte
      BY <1>3 DEF HandIInv, Hand!TypeOK
    <3> QED BY <1>3, <2>1, <3>1, ReadKeepsTypes DEF HandIInv
  <2>4. pos' >= 2 /\ pos' = 2 + stream'[2]
    BY <1>1, <2>2
  <2>5. Placed' /\ Replied'
    BY <1>1, <1>3, <2>2, <2>4 DEF Placed, Replied, HandIInv
  <2> QED BY <1>3, <2>3, <2>5, GoesOn
<1> QED BY <1>2, <1>3 DEF Hand!Methods

LEMMA WriteFailsIInv == ASSUME HandIInv, Hand!WriteFails PROVE HandIInv'
<1>1. Hand!Fail("write") /\ pos' = pos /\ step # "done"
  BY DEF Hand!WriteFails
<1>2. pos' \in 0..Len(stream)
  BY <1>1 DEF HandIInv, Hand!TypeOK
<1> QED BY <1>1, <1>2, FailIInv

LEMMA MethodIInv == ASSUME HandIInv, Hand!Method PROVE HandIInv'
<1>1. /\ step = "method" /\ step' = "request" /\ replies' = Append(replies, "method")
      /\ UNCHANGED <<stream, mode, UDPEnabled, pos, hbuf, cmd, addr, herr>>
  BY DEF Hand!Method, Hand!given
<1>2. replies = <<>> /\ replies' = <<"method">>
  BY <1>1 DEF HandIInv, Replied
<1>3. Hand!TypeOK'
  <2>1. replies' \in Seq({"method", "connect", "associate"})
    BY <1>2
  <2> QED BY <1>1, <2>1 DEF HandIInv, Hand!TypeOK
<1>4. Placed' /\ Replied'
  BY <1>1, <1>2 DEF Placed, Replied, HandIInv
<1> QED BY <1>1, <1>3, <1>4, GoesOn

\* The command is saved before the buffer is used again.
LEMMA RequestIInv == ASSUME HandIInv, Hand!Request PROVE HandIInv'
<1>1. /\ step = "request" /\ mode = "Handshake" /\ pos = 2 + stream[2]
      /\ Len(stream) \in Nat /\ Len(stream) >= 2 /\ stream[2] \in Nat /\ Start = stream[2] + 5
  <2>1. step = "request" /\ mode = "Handshake" /\ pos >= 2 /\ pos = 2 + stream[2]
    BY DEF HandIInv, Hand!Request, Placed
  <2>2. Len(stream) \in Nat /\ Len(stream) >= 2
    BY <2>1, BufIs DEF HandIInv, Hand!TypeOK
  <2> QED BY <2>1, <2>2, BufIs, StartIs DEF HandIInv
<1>2. CASE Hand!CutOff(3)
  <2>1. pos' = Len(stream) /\ Len(stream) < 5 + stream[2] /\ Hand!Fail("EOF")
    BY <1>1, <1>2 DEF Hand!CutOff
  <2>2. pos' \in 0..Len(stream) /\ ~Requested
    BY <1>1, <2>1 DEF Requested
  <2> QED BY <1>1, <2>1, <2>2, FailIInv
<1>3. CASE Hand!ReadFull(1, 3) /\ step' = "atyp" /\ cmd' = hbuf'[2]
  <2>1. 1 + 3 - 1 <= Hand!MaxAddrLen
    BY ByteIs
  <2>2. /\ pos' = pos + 3 /\ pos' \in 0..Len(stream)
        /\ \A i \in 1..(1 + 3 - 1) : hbuf'[i] = stream[pos + 1 + i - 1]
        /\ hbuf' \in [1..Hand!MaxAddrLen -> Hand!Byte]
        /\ UNCHANGED <<stream, mode, replies, herr>>
    BY <1>3, <2>1, ReadFullIs DEF HandIInv
  <2>3. Hand!TypeOK'
    <3>1. cmd' \in Hand!Byte
      BY <1>3, <2>2, ByteIs
    <3> QED BY <1>3, <2>1, <3>1, ReadKeepsTypes DEF HandIInv
  <2>4. pos' = Start /\ Start <= Len(stream) /\ cmd' = stream[Start - 1]
    <3>1. pos + 3 = Start /\ pos + 1 + 2 - 1 = Start - 1
      <4>1. PICK m \in Nat : m = stream[2]
        BY <1>1
      <4>2. pos = 2 + m /\ Start = m + 5
        BY <1>1, <4>1
      <4> QED BY <4>2
    <3>2. pos' = Start
      BY <2>2, <3>1
    <3>3. hbuf'[2] = stream[pos + 1 + 2 - 1]
      <4>1. 2 \in 1..(1 + 3 - 1)
        OBVIOUS
      <4> QED BY <2>2, <4>1
    <3>4. Start <= Len(stream)
      BY <1>1, <2>2, <3>2
    <3> QED BY <1>3, <3>1, <3>2, <3>3, <3>4
  <2>5. Start' = Start
    BY <2>2 DEF Start, Hand!Start
  <2>6. Greeted'
    BY <1>1, <2>2, <2>4, <2>5 DEF Greeted
  <2>7. Placed' /\ Replied'
    BY <1>1, <1>3, <2>2, <2>4, <2>5, <2>6 DEF Placed, Replied, HandIInv
  <2> QED BY <1>3, <2>3, <2>7, GoesOn
<1> QED BY <1>2, <1>3 DEF Hand!Request

\* The first bytes decide.
LEMMA SameAddrLen ==
    \A b, c \in Seq(Hand!Byte) :
        /\ Len(b) >= 1 /\ Len(c) >= 1 /\ b[1] = c[1]
        /\ b[1] = 3 => Len(b) >= 2 /\ Len(c) >= 2 /\ b[2] = c[2]
        => Hand!AddrLen(b) = Hand!AddrLen(c)
BY AddrLenIs

LEMMA NothingAhead ==
    ASSUME Hand!TypeOK, Start \in Nat, Start <= Len(stream), Hand!AddrLen(Ahead) \in Nat,
           Hand!AddrLen(Ahead) = 0 \/ Len(stream) < Start + Hand!AddrLen(Ahead)
    PROVE  ~Requested
<1>1. Len(Ahead) = Len(stream) - Start /\ Len(stream) \in Nat
  BY AheadIs, BufIs
<1>2. Hand!AddrLen(Ahead) = 0 \/ Len(Ahead) < Hand!AddrLen(Ahead)
  BY <1>1
<1>3. Hand!SplitAddr(Ahead) = Nil
  BY <1>2 DEF Hand!SplitAddr
<1> QED BY <1>3 DEF Requested

\* At the address: where it begins, and that it begins within the stream.
LEMMA AddressAhead ==
    ASSUME HandIInv, step \in {"atyp", "length", "rest", "reply"}
    PROVE  /\ Start \in Nat /\ Start <= Len(stream) /\ Len(stream) \in Nat /\ Greeted
           /\ Ahead \in Seq(Hand!Byte) /\ Len(Ahead) = Len(stream) - Start
           /\ \A i \in 1..(Len(stream) - Start) : Ahead[i] = stream[Start + i]
           /\ Hand!AddrLen(Ahead) \in Nat /\ pos <= Len(stream) /\ pos \in Nat
<1>1. /\ Hand!TypeOK /\ Greeted /\ Len(stream) \in Nat /\ pos \in Nat /\ pos <= Len(stream)
  <2>1. Hand!TypeOK /\ Greeted
    BY DEF HandIInv, Placed
  <2> QED BY <2>1, BufIs DEF Hand!TypeOK
<1>2. Start \in Nat /\ Start <= Len(stream)
  BY <1>1, StartIs DEF Greeted, Hand!TypeOK
<1>3. /\ Ahead \in Seq(Hand!Byte) /\ Len(Ahead) = Len(stream) - Start
      /\ \A i \in 1..(Len(stream) - Start) : Ahead[i] = stream[Start + i]
  BY <1>1, <1>2, AheadIs
<1>4. Hand!AddrLen(Ahead) \in Nat
  BY <1>3, AddrLenIs, ByteIs
<1> QED BY <1>1, <1>2, <1>3, <1>4

LEMMA AtypIInv == ASSUME HandIInv, Hand!Atyp PROVE HandIInv'
<1>1. /\ step = "atyp" /\ pos = Start /\ Start \in Nat /\ Len(stream) \in Nat /\ Greeted
      /\ Start <= Len(stream)
  BY AddressAhead DEF Hand!Atyp, HandIInv, Placed
<1>2. CASE Hand!CutOff(1)
  <2>1. pos' = Len(stream) /\ Len(stream) = Start /\ Hand!Fail("EOF")
    BY <1>1, <1>2 DEF Hand!CutOff
  <2>2. ~Requested
    <3>1. Len(Ahead) = 0 /\ Ahead \in Seq(Hand!Byte)
      BY <1>1, <2>1, AddressAhead
    <3>2. Hand!AddrLen(Ahead) = 0
      BY <3>1, AddrLenIs
    <3> QED BY <1>1, <3>2, NothingAhead DEF HandIInv
  <2>3. pos' \in 0..Len(stream)
    BY <1>1, <2>1
  <2> QED BY <1>1, <2>1, <2>2, <2>3, FailIInv
<1>3. CASE /\ Hand!ReadFull(1, 1) /\ UNCHANGED cmd
           /\ step' = IF hbuf'[1] = Hand!AtypDomainName THEN "length" ELSE "rest"
  <2>1. 1 + 1 - 1 <= Hand!MaxAddrLen
    BY ByteIs
  <2>2. /\ pos' = pos + 1
        /\ \A i \in 1..(1 + 1 - 1) : hbuf'[i] = stream[pos + 1 + i - 1]
        /\ UNCHANGED <<stream, mode, replies, herr>>
    BY <1>3, <2>1, ReadFullIs DEF HandIInv
  <2>3. Hand!TypeOK'
    <3>1. cmd' \in Hand!Byte
      BY <1>3 DEF HandIInv, Hand!TypeOK
    <3> QED BY <1>3, <2>1, <3>1, ReadKeepsTypes DEF HandIInv
  <2>4. pos' = Start + 1 /\ hbuf'[1] = stream[Start + 1]
    <3>1. hbuf'[1] = stream[pos + 1 + 1 - 1] /\ pos + 1 + 1 - 1 = Start + 1
      BY <1>1, <2>2
    <3> QED BY <1>1, <2>2, <3>1
  <2>5. Start' = Start /\ Greeted'
    BY <1>1, <1>3, <2>2 DEF Start, Hand!Start, Greeted
  <2>6. CASE hbuf'[1] = Hand!AtypDomainName
    <3>1. step' = "length"
      BY <1>3, <2>6
    <3>2. Placed' /\ Replied'
      BY <1>1, <2>2, <2>4, <2>5, <2>6, <3>1 DEF Placed, Replied, HandIInv
    <3> QED BY <2>3, <3>1, <3>2, GoesOn
  <2>7. CASE hbuf'[1] # Hand!AtypDomainName
    <3>1. step' = "rest"
      BY <1>3, <2>7
    <3>2. Placed' /\ Replied'
      BY <1>1, <2>2, <2>4, <2>5, <2>7, <3>1 DEF Placed, Replied, HandIInv
    <3> QED BY <2>3, <3>1, <3>2, GoesOn
  <2> QED BY <2>6, <2>7
<1> QED BY <1>2, <1>3 DEF Hand!Atyp

LEMMA LengthIInv == ASSUME HandIInv, Hand!Length PROVE HandIInv'
<1>1. /\ step = "length" /\ pos = Start + 1 /\ Start \in Nat /\ Len(stream) \in Nat /\ Greeted
      /\ Start + 1 <= Len(stream) /\ hbuf[1] = 3 /\ stream[Start + 1] = 3
  BY AddressAhead DEF Hand!Length, HandIInv, Placed, Hand!AtypDomainName
<1>2. CASE Hand!CutOff(1)
  <2>1. pos' = Len(stream) /\ Len(stream) = Start + 1 /\ Hand!Fail("EOF")
    BY <1>1, <1>2 DEF Hand!CutOff
  <2>2. ~Requested
    <3>1. Len(Ahead) = 1 /\ Ahead \in Seq(Hand!Byte) /\ Ahead[1] = stream[Start + 1]
      <4>1. Len(stream) - Start = 1 /\ 1 \in 1..(Len(stream) - Start)
        BY <1>1, <2>1
      <4> QED BY <1>1, <4>1, AddressAhead
    <3>2. Hand!AddrLen(Ahead) = 0
      BY <1>1, <3>1, AddrLenIs
    <3> QED BY <1>1, <3>2, NothingAhead DEF HandIInv
  <2>3. pos' \in 0..Len(stream)
    BY <1>1, <2>1
  <2> QED BY <1>1, <2>1, <2>2, <2>3, FailIInv
<1>3. CASE Hand!ReadFull(2, 1) /\ step' = "rest" /\ UNCHANGED cmd
  <2>1. 2 + 1 - 1 <= Hand!MaxAddrLen
    BY ByteIs
  <2>2. /\ pos' = pos + 1
        /\ \A i \in 2..(2 + 1 - 1) : hbuf'[i] = stream[pos + 1 + i - 2]
        /\ \A i \in 1..(2 - 1) : hbuf'[i] = hbuf[i]
        /\ UNCHANGED <<stream, mode, replies, herr>>
    BY <1>3, <2>1, ReadFullIs DEF HandIInv
  <2>3. Hand!TypeOK'
    <3>1. cmd' \in Hand!Byte
      BY <1>3 DEF HandIInv, Hand!TypeOK
    <3> QED BY <1>3, <2>1, <3>1, ReadKeepsTypes DEF HandIInv
  <2>4. pos' = Start + 2 /\ hbuf'[1] = 3 /\ hbuf'[2] = stream[Start + 2]
    <3>1. hbuf'[2] = stream[pos + 1 + 2 - 2] /\ pos + 1 + 2 - 2 = Start + 2
      BY <1>1, <2>2
    <3>2. hbuf'[1] = hbuf[1]
      BY <2>2
    <3> QED BY <1>1, <2>2, <3>1, <3>2
  <2>5. Start' = Start /\ Greeted'
    BY <1>1, <1>3, <2>2 DEF Start, Hand!Start, Greeted
  <2>6. Placed' /\ Replied'
    BY <1>1, <1>3, <2>2, <2>4, <2>5 DEF Placed, Replied, HandIInv, Hand!AtypDomainName
  <2> QED BY <1>3, <2>3, <2>6, GoesOn
<1> QED BY <1>2, <1>3 DEF Hand!Length

\* The type and the length byte that were read tell the length of what is ahead.
LEMMA RestIInv == ASSUME HandIInv, Hand!Rest PROVE HandIInv'
<1> DEFINE n == Hand!AddrLen(hbuf)
           have == IF hbuf[1] = 3 THEN 2 ELSE 1
<1>1. /\ step = "rest" /\ pos = Start + have /\ Start \in Nat /\ Len(stream) \in Nat /\ Greeted
      /\ Start + have <= Len(stream)
      /\ hbuf[1] = stream[Start + 1] /\ (hbuf[1] = 3 => hbuf[2] = stream[Start + 2])
  BY AddressAhead DEF Hand!Rest, HandIInv, Placed, Hand!AtypDomainName
<1>2. /\ hbuf \in Seq(Hand!Byte) /\ Len(hbuf) >= 3 /\ Len(hbuf) = Hand!MaxAddrLen
      /\ Hand!MaxAddrLen \in Nat
  BY BufIs, ByteIs DEF HandIInv
<1>3. n \in Nat /\ n <= Hand!MaxAddrLen /\ (n > 0 => n >= have + 1) /\ have \in {1, 2}
  <2>1. n \in 0..Hand!MaxAddrLen
    BY <1>2, AddrLenIs
  <2>2. n > 0 => n >= have + 1
    <3>1. hbuf[1] = 3 => n = hbuf[2] + 4 /\ hbuf[2] \in Nat
      BY <1>2, AddrLenIs
    <3>2. hbuf[1] = 1 => n = IPv4len + 3
      BY <1>2, AddrLenIs
    <3>3. hbuf[1] = 4 => n = IPv6len + 3
      BY <1>2, AddrLenIs
    <3>4. hbuf[1] \notin {1, 3, 4} => n = 0
      BY <1>2, AddrLenIs
    <3> HIDE DEF n
    <3> QED BY <3>1, <3>2, <3>3, <3>4, ByteIs
  <2> QED BY <1>2, <2>1, <2>2
<1>4. Hand!AddrLen(Ahead) = n
  <2>1. /\ Ahead \in Seq(Hand!Byte) /\ Len(Ahead) = Len(stream) - Start
        /\ \A i \in 1..(Len(stream) - Start) : Ahead[i] = stream[Start + i]
    BY <1>1, AddressAhead
  <2>2. Len(Ahead) >= have /\ Ahead[1] = hbuf[1]
    BY <1>1, <2>1
  <2>3. hbuf[1] = 3 => Len(Ahead) >= 2 /\ Ahead[2] = hbuf[2]
    BY <1>1, <2>1
  <2> QED BY <1>2, <2>1, <2>2, <2>3, SameAddrLen
<1> HIDE DEF n, have
<1>5. CASE n = 0 /\ Hand!Fail("address") /\ UNCHANGED pos
  <2>1. ~Requested
    BY <1>1, <1>3, <1>4, <1>5, AddressAhead, NothingAhead DEF HandIInv
  <2>2. pos' \in 0..Len(stream)
    BY <1>5 DEF HandIInv, Hand!TypeOK
  <2> QED BY <1>1, <1>5, <2>1, <2>2, FailIInv
<1>6. CASE n > 0 /\ Hand!CutOff(n - have)
  <2>1. pos' = Len(stream) /\ Len(stream) < Start + n /\ Hand!Fail("EOF")
    BY <1>1, <1>3, <1>6 DEF Hand!CutOff
  <2>2. ~Requested
    BY <1>1, <1>3, <1>4, <2>1, AddressAhead, NothingAhead DEF HandIInv
  <2>3. pos' \in 0..Len(stream)
    BY <1>1, <2>1
  <2> QED BY <1>1, <2>1, <2>2, <2>3, FailIInv
<1>7. CASE n > 0 /\ Hand!ReadFull(have + 1, n - have) /\ step' = "reply" /\ UNCHANGED cmd
  <2>1. /\ have + 1 \in 1..3 /\ n - have \in Nat /\ (have + 1) + (n - have) - 1 <= Hand!MaxAddrLen
        /\ (have + 1) + (n - have) - 1 = n /\ (have + 1) - 1 = have
    BY <1>2, <1>3, <1>7
  <2>2. /\ pos' = pos + (n - have)
        /\ \A i \in (have + 1)..n : hbuf'[i] = stream[pos + 1 + i - (have + 1)]
        /\ \A i \in 1..have : hbuf'[i] = hbuf[i]
        /\ UNCHANGED <<stream, mode, replies, herr>>
    <3>1. /\ pos' = pos + (n - have)
          /\ \A i \in (have + 1)..((have + 1) + (n - have) - 1) :
               hbuf'[i] = stream[pos + 1 + i - (have + 1)]
          /\ \A i \in 1..((have + 1) - 1) : hbuf'[i] = hbuf[i]
          /\ UNCHANGED <<stream, mode, replies, herr>>
      BY <1>7, <2>1, ReadFullIs DEF HandIInv
    <3> QED BY <2>1, <3>1
  <2>3. Hand!TypeOK'
    <3>1. cmd' \in Hand!Byte
      BY <1>7 DEF HandIInv, Hand!TypeOK
    <3> QED BY <1>7, <2>1, <3>1, ReadKeepsTypes DEF HandIInv
  <2>4. pos' = Start + n
    BY <1>1, <1>3, <2>2
  <2>5. \A i \in 1..n : hbuf'[i] = stream[Start + i]
    <3> TAKE i \in 1..n
    <3>1. CASE i \in (have + 1)..n
      <4>1. pos + 1 + i - (have + 1) = Start + i
        BY <1>1, <1>3, <3>1
      <4> QED BY <2>2, <3>1, <4>1
    <3>2. CASE i \in 1..have
      <4>1. hbuf'[i] = hbuf[i]
        BY <2>2, <3>2
      <4>2. i = 1 \/ (i = 2 /\ hbuf[1] = 3)
        BY <1>3, <3>2 DEF have
      <4> QED BY <1>1, <4>1, <4>2
    <3> QED BY <1>3, <3>1, <3>2
  <2>6. Hand!AddrLen(hbuf') = n
    <3>1. hbuf' \in Seq(Hand!Byte) /\ Len(hbuf') >= 3
      <4>1. hbuf' \in [1..Hand!MaxAddrLen -> Hand!Byte] /\ Hand!MaxAddrLen >= 3
        BY <1>2, <2>3 DEF Hand!TypeOK
      <4> QED BY <1>2, <4>1
    <3>2. hbuf'[1] = hbuf[1] /\ (hbuf[1] = 3 => hbuf'[2] = hbuf[2])
      BY <1>3, <2>2 DEF have
    <3> QED BY <1>2, <3>1, <3>2, SameAddrLen DEF n
  <2>7. Start' = Start /\ Greeted' /\ Hand!AddrLen(hbuf)' = n
    BY <1>1, <1>7, <2>2, <2>6 DEF Start, Hand!Start, Greeted, Hand!AddrLen
  <2>8. Placed' /\ Replied'
    BY <1>1, <1>7, <2>2, <2>4, <2>5, <2>7 DEF Placed, Replied, HandIInv
  <2> QED BY <1>7, <2>3, <2>8, GoesOn
<1> QED BY <1>5, <1>6, <1>7 DEF Hand!Rest, Hand!AtypDomainName, n, have


LEMMA PairIs == \A x, y : <<x>> \o <<y>> = <<x, y>>
<1> TAKE x, y
<1> DEFINE S == {x, y}
<1>1. <<x>> \in Seq(S) /\ <<y>> \in Seq(S) /\ <<x, y>> \in Seq(S)
      /\ Len(<<x>>) = 1 /\ Len(<<y>>) = 1 /\ Len(<<x, y>>) = 2
  OBVIOUS
<1>2. /\ <<x>> \o <<y>> \in Seq(S)
      /\ Len(<<x>> \o <<y>>) = Len(<<x>>) + Len(<<y>>)
      /\ \A i \in 1..(Len(<<x>>) + Len(<<y>>)) :
           (<<x>> \o <<y>>)[i] = IF i <= Len(<<x>>) THEN <<x>>[i] ELSE <<y>>[i - Len(<<x>>)]
  BY <1>1, ConcatProperties
<1>3. /\ Len(<<x>> \o <<y>>) = 2 /\ \A i \in 1..2 : (<<x>> \o <<y>>)[i] = <<x, y>>[i]
  BY <1>1, <1>2
<1> HIDE DEF S
<1> QED BY <1>1, <1>2, <1>3, SeqEqual

LEMMA SubSeqIs ==
    ASSUME NEW S, NEW s \in Seq(S), NEW m \in Nat \ {0}, NEW n \in Nat,
           m <= n + 1, n <= Len(s)
    PROVE  /\ SubSeq(s, m, n) \in Seq(S)
           /\ Len(SubSeq(s, m, n)) = n - m + 1
           /\ \A i \in 1..(n - m + 1) : SubSeq(s, m, n)[i] = s[m + i - 1]
<1>1. m \in Int /\ n \in Int /\ Len(s) \in Nat
  BY LenProperties
<1>2. \A i \in m..n : i \in 1..Len(s)
  BY <1>1
<1>3. \A i \in m..n : s[i] \in S
  BY <1>2, ElementOfSeq
<1>4. (IF m <= n THEN n - m + 1 ELSE 0) = n - m + 1
  BY <1>1
<1>5. Len(SubSeq(s, m, n)) = IF m <= n THEN n - m + 1 ELSE 0
  BY <1>1, <1>3, SubSeqProperties
<1>6. /\ SubSeq(s, m, n) \in Seq(S)
      /\ \A i \in 1..(n - m + 1) : SubSeq(s, m, n)[i] = s[m + i - 1]
  BY <1>1, <1>3, SubSeqProperties
<1> QED BY <1>4, <1>5, <1>6

\* When the reply is due, the buffer holds the address that is ahead.
LEMMA AddressIs ==
    ASSUME HandIInv, step = "reply"
    PROVE  LET a == SubSeq(hbuf, 1, Hand!AddrLen(hbuf)) IN
           /\ Hand!SplitAddr(Ahead) = a /\ a \in Seq(Hand!Byte) /\ a # Nil
           /\ pos = Start + Len(a) /\ Len(stream) >= Start
<1> DEFINE n == Hand!AddrLen(hbuf)
           a == SubSeq(hbuf, 1, n)
<1>1. /\ n > 0 /\ pos = Start + n
      /\ \A i \in 1..n : hbuf[i] = stream[Start + i]
  BY DEF HandIInv, Placed
<1>2. /\ hbuf \in Seq(Hand!Byte) /\ Len(hbuf) >= 3 /\ Len(hbuf) = Hand!MaxAddrLen
      /\ Hand!MaxAddrLen \in Nat
  BY BufIs, ByteIs DEF HandIInv
<1>3. n \in Nat /\ n <= Len(hbuf) /\ (hbuf[1] = 3 => n >= 2)
  <2>1. n \in 0..Hand!MaxAddrLen
    BY <1>2, AddrLenIs
  <2>2. hbuf[1] = 3 => n = hbuf[2] + 4 /\ hbuf[2] \in Nat
    BY <1>2, AddrLenIs
  <2> HIDE DEF n
  <2> QED BY <1>2, <2>1, <2>2
<1>4. /\ Start \in Nat /\ Len(stream) \in Nat /\ Start <= Len(stream)
      /\ Ahead \in Seq(Hand!Byte) /\ Len(Ahead) = Len(stream) - Start
      /\ \A i \in 1..(Len(stream) - Start) : Ahead[i] = stream[Start + i]
      /\ pos <= Len(stream)
  BY AddressAhead
<1> HIDE DEF n
<1>5. Len(Ahead) \in Nat /\ n <= Len(Ahead) /\ \A i \in 1..n : Ahead[i] = hbuf[i]
  <2>1. \A i \in 1..n : i \in 1..(Len(stream) - Start)
    BY <1>1, <1>3, <1>4
  <2> QED BY <1>1, <1>3, <1>4, <2>1
<1>6. Hand!AddrLen(Ahead) = n
  <2>1. Len(Ahead) >= 1 /\ Ahead[1] = hbuf[1]
    BY <1>1, <1>3, <1>5
  <2>2. hbuf[1] = 3 => Len(Ahead) >= 2 /\ Ahead[2] = hbuf[2]
    BY <1>3, <1>5
  <2>3. hbuf \in Seq(Hand!Byte) /\ Ahead \in Seq(Hand!Byte) /\ Len(hbuf) >= 1
        /\ (hbuf[1] = 3 => Len(hbuf) >= 2)
    BY <1>2, <1>4
  <2>4. Hand!AddrLen(Ahead) = Hand!AddrLen(hbuf)
    BY <2>1, <2>2, <2>3, SameAddrLen, Zenon
  <2> QED BY <2>4 DEF n
<1>7. /\ a \in Seq(Hand!Byte) /\ Len(a) = n
      /\ \A i \in 1..n : a[i] = hbuf[i]
  <2>1. /\ a \in Seq(Hand!Byte) /\ Len(a) = n - 1 + 1
        /\ \A i \in 1..(n - 1 + 1) : a[i] = hbuf[1 + i - 1]
    <3>1. 1 \in Nat \ {0} /\ 1 <= n + 1
      BY <1>3
    <3> QED BY <1>2, <1>3, <3>1, SubSeqIs
  <2>2. n - 1 + 1 = n /\ \A i \in 1..n : 1 + i - 1 = i
    BY <1>3
  <2> HIDE DEF a
  <2> QED BY <2>1, <2>2
<1>8. SubSeq(Ahead, 1, n) = a
  <2>1. /\ SubSeq(Ahead, 1, n) \in Seq(Hand!Byte) /\ Len(SubSeq(Ahead, 1, n)) = n - 1 + 1
        /\ \A i \in 1..(n - 1 + 1) : SubSeq(Ahead, 1, n)[i] = Ahead[1 + i - 1]
    <3>1. 1 \in Nat \ {0} /\ 1 <= n + 1
      BY <1>3
    <3> QED BY <1>3, <1>4, <1>5, <3>1, SubSeqIs
  <2>2. n - 1 + 1 = n /\ \A i \in 1..n : 1 + i - 1 = i
    BY <1>3
  <2> HIDE DEF a
  <2>3. \A i \in 1..Len(SubSeq(Ahead, 1, n)) : SubSeq(Ahead, 1, n)[i] = a[i]
    BY <1>5, <1>7, <2>1, <2>2
  <2> QED BY <1>7, <2>1, <2>2, <2>3, SeqEqual
<1>9. Hand!SplitAddr(Ahead) = a
  BY <1>1, <1>3, <1>5, <1>6, <1>8 DEF Hand!SplitAddr
<1>10. a # Nil
  BY <1>7, ByteIs
<1> QED BY <1>1, <1>4, <1>7, <1>9, <1>10 DEF n

\* What is served is what was asked for.
LEMMA ReturnIInv ==
    ASSUME HandIInv, step = "reply", NEW reply, NEW e, Hand!Return(reply, e),
           \/ mode = "ReadAddr" /\ reply = <<>> /\ e = "nil"
           \/ mode = "Handshake" /\ cmd = 1 /\ reply = <<"connect">> /\ e = "nil"
           \/ /\ mode = "Handshake" /\ cmd = 3 /\ UDPEnabled
              /\ reply = <<"associate">> /\ e = "associate"
    PROVE  HandIInv'
<1>1. /\ step' = "done" /\ addr' = SubSeq(hbuf, 1, Hand!AddrLen(hbuf))
      /\ replies' = replies \o reply /\ herr' = e
      /\ UNCHANGED <<stream, mode, UDPEnabled, pos, hbuf, cmd>>
  BY DEF Hand!Return, Hand!given
<1>2. /\ Hand!SplitAddr(Ahead) = addr' /\ addr' \in Seq(Hand!Byte) /\ addr' # Nil
      /\ pos' = Start + Len(addr') /\ Len(stream) >= Start
  BY <1>1, AddressIs
<1>3. Start' = Start /\ Ahead' = Ahead
  BY <1>1 DEF Start, Hand!Start, Ahead
<1>4. mode = "Handshake" =>
        /\ Len(stream) >= 2 /\ cmd = stream[Start - 1]
        /\ replies' = <<"method", IF cmd = 1 THEN "connect" ELSE "associate">>
  <2>1. mode = "Handshake" => Len(stream) >= 2 /\ cmd = stream[Start - 1]
    BY DEF HandIInv, Placed, Greeted
  <2>2. mode = "Handshake" => replies = <<"method">>
    BY DEF HandIInv, Replied
  <2>3. <<"method">> \o <<"connect">> = <<"method", "connect">>
        /\ <<"method">> \o <<"associate">> = <<"method", "associate">>
    BY PairIs
  <2>4. mode = "Handshake" =>
          replies' = <<"method", IF cmd = 1 THEN "connect" ELSE "associate">>
    BY <1>1, <2>2, <2>3
  <2> QED BY <2>1, <2>4
<1>5. Hand!TypeOK'
  <2>1. replies' \in Seq({"method", "connect", "associate"})
    <3>1. CASE mode = "Handshake"
      <4>1. <<"method", "connect">> \in Seq({"method", "connect", "associate"})
            /\ <<"method", "associate">> \in Seq({"method", "connect", "associate"})
        OBVIOUS
      <4> QED BY <1>4, <3>1, <4>1
    <3>2. CASE mode = "ReadAddr"
      <4>1. replies = <<>> /\ reply = <<>>
        BY <3>2 DEF HandIInv, Replied
      <4>2. <<>> \o <<>> = <<>>
        OBVIOUS
      <4> QED BY <1>1, <4>1, <4>2, EmptySeq
    <3> QED BY <3>1, <3>2 DEF HandIInv, Hand!TypeOK
  <2>2. herr' \in {"nil", "associate"}
    BY <1>1
  <2> QED BY <1>1, <1>2, <2>1, <2>2 DEF HandIInv, Hand!TypeOK
<1>6. Placed' /\ Replied'
  BY <1>1 DEF Placed, Replied
<1>7. ConsumesExactly'
  BY <1>1, <1>2, <1>3, <1>4 DEF ConsumesExactly, Hand!ConsumesExactly, Ahead, Start, Hand!CmdConnect
<1>8. WholeIsServed'
  <2>1. mode = "Handshake" => Requested
    BY <1>2, <1>4 DEF Requested, Hand!CmdConnect, Hand!CmdUDPAssociate
  <2>2. mode = "Handshake" => Len(replies') = 2
    BY <1>4
  <2>3. Requested' <=> Requested
    BY <1>1, <1>3 DEF Requested
  <2>4. mode' = "Handshake" /\ step' = "done" /\ herr' # "write" =>
            (Requested' <=> Len(replies') = 2)
    BY <1>1, <2>1, <2>2, <2>3
  <2> QED BY <2>4 DEF WholeIsServed, Hand!WholeIsServed, Requested, Start, Ahead
<1> QED BY <1>5, <1>6, <1>7, <1>8 DEF HandIInv

LEMMA ReplyIInv == ASSUME HandIInv, Hand!Reply PROVE HandIInv'
<1>1. step = "reply" /\ mode = "Handshake" /\ Hand!Command = cmd
  BY DEF Hand!Reply, Hand!Command
<1>2. CASE cmd = 1 /\ Hand!Return(<<"connect">>, "nil")
  BY <1>1, <1>2, ReturnIInv
<1>3. CASE cmd = 3 /\ UDPEnabled /\ Hand!Return(<<"associate">>, "associate")
  BY <1>1, <1>3, ReturnIInv
<1>4. CASE cmd # 1 /\ ~(cmd = 3 /\ UDPEnabled) /\ Hand!Fail("command") /\ UNCHANGED pos
  <2>1. cmd = stream[Start - 1]
    BY <1>1 DEF HandIInv, Placed, Greeted
  <2>2. ~Requested
    BY <1>4, <2>1 DEF Requested, Hand!CmdConnect, Hand!CmdUDPAssociate
  <2>3. pos' \in 0..Len(stream)
    BY <1>4 DEF HandIInv, Hand!TypeOK
  <2> QED BY <1>1, <1>4, <2>2, <2>3, FailIInv
<1> QED BY <1>1, <1>2, <1>3, <1>4
        DEF Hand!Reply, Hand!CmdConnect, Hand!CmdUDPAssociate

LEMMA HaveAddrIInv == ASSUME HandIInv, Hand!HaveAddr PROVE HandIInv'
BY ReturnIInv DEF Hand!HaveAddr

\* The handshake keeps its invariant.
LEMMA HandKeepsIt == HandIInv /\ Hand!Next => HandIInv'
BY HelloIInv, MethodsIInv, MethodIInv, RequestIInv, AtypIInv, LengthIInv, RestIInv,
   ReplyIInv, HaveAddrIInv, WriteFailsIInv DEF Hand!Next

LEMMA HandStutters ==
    HandIInv /\ UNCHANGED handVars => HandIInv'
BY DEF handVars, HandIInv, Hand!TypeOK, Placed, Replied, Greeted, ConsumesExactly,
       Hand!ConsumesExactly, WholeIsServed, Hand!WholeIsServed, Start, Hand!Start

\* A handshake that has not begun.
NotBegun ==
    /\ stream \in Seq(Hand!Byte)
    /\ mode \in {"Handshake", "ReadAddr"}
    /\ UDPEnabled \in BOOLEAN
    /\ Hand!Fresh

LEMMA FreshIInv == NotBegun => HandIInv
<1> SUFFICES ASSUME NotBegun PROVE HandIInv
  OBVIOUS
<1> USE DEF NotBegun
<1>1. Hand!TypeOK
  <2>1. 0 \in Hand!Byte /\ 0 \in 0..Len(stream)
    BY ByteIs, LenProperties
  <2>2. <<>> \in Seq({"method", "connect", "associate"})
    BY EmptySeq
  <2> QED BY <2>1, <2>2 DEF Hand!Fresh, Hand!TypeOK
<1>2. Placed
  <2>1. mode = "ReadAddr" => Start = 0
    BY DEF Start, Hand!Start
  <2> QED BY <2>1 DEF Hand!Fresh, Placed, Greeted
<1>3. Replied
  BY DEF Hand!Fresh, Replied
<1>4. ConsumesExactly /\ WholeIsServed
  BY DEF Hand!Fresh, ConsumesExactly, Hand!ConsumesExactly, WholeIsServed, Hand!WholeIsServed
<1> QED BY <1>1, <1>2, <1>3, <1>4 DEF HandIInv


----------------------------------------------------------------------------
(* The addresses. *)

LEMMA SameAddresses ==
    /\ Addr!Byte = Hand!Byte /\ Addr!MaxAddrLen = Hand!MaxAddrLen
    /\ \A b : Addr!AddrLen(b) = Hand!AddrLen(b)
BY DEF Addr!Byte, Hand!Byte, Addr!MaxAddrLen, Hand!MaxAddrLen, Addr!AddrLen, Hand!AddrLen,
       Addr!AtypIPv4, Hand!AtypIPv4, Addr!AtypIPv6, Hand!AtypIPv6, Addr!AtypDomainName,
       Hand!AtypDomainName

LEMMA SizesAre ==
    /\ MaxByte \in Nat /\ MaxByte >= 4 /\ Addr!Byte = 0..MaxByte
    /\ Addr!MaxAddrLen = MaxByte + 4
    /\ IPv4len \in Nat /\ IPv6len \in Nat /\ IPv4len <= MaxByte + 1 /\ IPv6len <= MaxByte + 1
    /\ Mapped \in Seq(Addr!Byte) /\ Len(Mapped) \in Nat /\ IPv6len = Len(Mapped) + IPv4len
    /\ Nil \notin Seq(Addr!Byte)
<1>1. Mapped \in Seq(Addr!Byte) /\ IPv6len = Len(Mapped) + IPv4len
  BY SizesAssumption DEF Addr!Byte
<1> QED BY <1>1, ByteIs, SameAddresses, LenProperties

\* A byte in front, or two, can be taken off again.
LEMMA BehindIs ==
    ASSUME NEW S, NEW s \in Seq(S), NEW t \in Seq(S)
    PROVE  SubSeq(s \o t, Len(s) + 1, Len(s) + Len(t)) = t
<1> DEFINE c == s \o t
<1>1. PICK m \in Nat : m = Len(s)
  BY LenProperties
<1>2. PICK n \in Nat : n = Len(t)
  BY LenProperties
<1>3. /\ c \in Seq(S) /\ Len(c) = m + n
      /\ \A i \in 1..(m + n) : c[i] = IF i <= m THEN s[i] ELSE t[i - m]
  BY <1>1, <1>2, ConcatProperties
<1> HIDE DEF c
<1> DEFINE b == SubSeq(c, m + 1, m + n)
<1>4. /\ b \in Seq(S) /\ Len(b) = (m + n) - (m + 1) + 1
      /\ \A i \in 1..((m + n) - (m + 1) + 1) : b[i] = c[(m + 1) + i - 1]
  <2>1. m + 1 \in Nat \ {0} /\ m + n \in Nat /\ m + 1 <= (m + n) + 1 /\ m + n <= Len(c)
    BY <1>3
  <2> QED BY <1>3, <2>1, SubSeqIs
<1> HIDE DEF b
<1>5. Len(b) = n /\ \A i \in 1..n : b[i] = t[i]
  <2>1. (m + n) - (m + 1) + 1 = n
    OBVIOUS
  <2>2. \A i \in 1..n : /\ (m + 1) + i - 1 \in 1..(m + n)
                        /\ ~((m + 1) + i - 1 <= m) /\ (m + 1) + i - 1 - m = i
    OBVIOUS
  <2> QED BY <1>3, <1>4, <2>1, <2>2
<1>6. b = t
  BY <1>2, <1>4, <1>5, SeqEqual
<1> QED BY <1>1, <1>2, <1>6 DEF b, c

LEMMA IPsAreBytes == \A ip \in Addr!IPs : ip \in Seq(Addr!Byte) /\ Len(ip) \in {IPv4len, IPv6len}
BY SizesAre DEF Addr!IPs

\* To4 leaves four bytes, or the sixteen that there were, and no more to do.
LEMMA ShortIs ==
    ASSUME NEW x \in Seq(Addr!Byte), Len(x) = IPv4len
    PROVE  Addr!To4(x) = x
<1>1. CASE IPv4len = IPv6len
  <2>1. Len(Mapped) + 1 = 1
    BY <1>1, SizesAre
  <2>2. SubSeq(x, 1, IPv6len) = x
    BY <1>1, SubSeqFull
  <2> QED BY <2>1, <2>2 DEF Addr!To4
<1>2. CASE IPv4len # IPv6len
  BY <1>2 DEF Addr!To4
<1> QED BY <1>1, <1>2

LEMMA To4Is ==
    ASSUME NEW ip \in Addr!IPs
    PROVE  /\ Addr!To4(ip) \in Seq(Addr!Byte)
           /\ Len(Addr!To4(ip)) = IPv4len \/ (Addr!To4(ip) = ip /\ Len(ip) = IPv6len)
           /\ Addr!To4(Addr!To4(ip)) = Addr!To4(ip)
<1>1. ip \in Seq(Addr!Byte) /\ Len(ip) \in {IPv4len, IPv6len}
  BY IPsAreBytes
<1>2. CASE Len(ip) = IPv4len
  BY <1>1, <1>2, ShortIs
<1>3. CASE Len(ip) = IPv6len /\ SubSeq(ip, 1, Len(Mapped)) = Mapped
  <2>1. Addr!To4(ip) = SubSeq(ip, Len(Mapped) + 1, IPv6len)
    BY <1>3 DEF Addr!To4
  <2>2. PICK m \in Nat : m = Len(Mapped)
    BY SizesAre
  <2>3. IPv6len \in Nat /\ IPv6len = m + IPv4len /\ IPv4len \in Nat
    BY <2>2, SizesAre
  <2>4. /\ SubSeq(ip, m + 1, IPv6len) \in Seq(Addr!Byte)
        /\ Len(SubSeq(ip, m + 1, IPv6len)) = IPv6len - (m + 1) + 1
    <3>1. m + 1 \in Nat \ {0} /\ m + 1 <= IPv6len + 1 /\ IPv6len <= Len(ip)
      BY <1>3, <2>3
    <3> QED BY <1>1, <2>3, <3>1, SubSeqIs
  <2>5. IPv6len - (m + 1) + 1 = IPv4len
    BY <2>3
  <2> QED BY <2>1, <2>2, <2>4, <2>5, ShortIs
<1>4. CASE Len(ip) = IPv6len /\ SubSeq(ip, 1, Len(Mapped)) # Mapped
  <2>1. Addr!To4(ip) = ip
    BY <1>4 DEF Addr!To4
  <2> QED BY <1>1, <1>4, <2>1
<1> QED BY <1>1, <1>2, <1>3, <1>4

\* A host is an IP address, or a name that does not read like one.
LEMMA ParseIPIs ==
    ASSUME NEW host \in Addr!Hosts
    PROVE  \/ /\ Addr!ParseIP(host) = Nil /\ host.kind = "name"
              /\ host.bytes \in Seq(Addr!Byte) /\ host = Addr!Name(host.bytes)
           \/ Addr!ParseIP(host) \in Addr!IPs /\ Addr!ParseIP(host) # Nil
<1>1. \A ip \in Addr!IPs : ip # Nil
  BY IPsAreBytes, SizesAre
<1>2. \A n \in DOMAIN Numeric : Numeric[n] \in Addr!IPs
  BY SizesAssumption
<1>3. CASE host \in [kind : {"ip"}, bytes : Addr!IPs]
  BY <1>1, <1>3 DEF Addr!ParseIP
<1>4. CASE host \in [kind : {"name"}, bytes : Seq(Addr!Byte)]
  <2>1. host = [kind |-> "name", bytes |-> host.bytes] /\ host.kind = "name"
        /\ host.bytes \in Seq(Addr!Byte)
    BY <1>4
  <2>2. CASE host.bytes \in DOMAIN Numeric
    BY <1>1, <1>2, <2>1, <2>2 DEF Addr!ParseIP
  <2>3. CASE host.bytes \notin DOMAIN Numeric
    BY <2>1, <2>3 DEF Addr!ParseIP, Addr!Name
  <2> QED BY <2>2, <2>3
<1> QED BY <1>3, <1>4 DEF Addr!Hosts

\* The bytes of a host: its type says how many there are.
HostShaped(h) ==
    /\ h \in Seq(Addr!Byte) /\ Len(h) \in Nat /\ Len(h) >= 1
    /\ \/ h[1] = 1 /\ Len(h) = 1 + IPv4len
       \/ h[1] = 4 /\ Len(h) = 1 + IPv6len
       \/ Len(h) >= 2 /\ h[1] = 3 /\ Len(h) = 2 + h[2] /\ h[2] \in Nat /\ h[2] <= MaxByte

\* With a port behind them they are an address, which SplitAddr finds.
LEMMA AddressWhole ==
    ASSUME NEW h, HostShaped(h), NEW q \in Seq(Addr!Byte), Len(q) = 2
    PROVE  LET a == h \o q IN
           /\ a \in Seq(Addr!Byte) /\ Len(a) = Len(h) + 2 /\ Len(a) <= Addr!MaxAddrLen
           /\ Addr!SplitAddr(a \o <<1>>) = a
           /\ \A i \in 1..Len(h) : a[i] = h[i]
           /\ a[Len(a) - 1] = q[1] /\ a[Len(a)] = q[2]
<1> DEFINE a == h \o q
           b == a \o <<1>>
<1>1. /\ h \in Seq(Addr!Byte) /\ Len(h) \in Nat /\ Len(h) >= 1
  BY DEF HostShaped
<1>2. PICK n \in Nat : n = Len(h)
  BY <1>1
<1>3. /\ a \in Seq(Addr!Byte) /\ Len(a) = n + 2
      /\ \A i \in 1..(n + 2) : a[i] = IF i <= n THEN h[i] ELSE q[i - n]
  <2>1. /\ a \in Seq(Addr!Byte) /\ Len(a) = Len(h) + Len(q)
        /\ \A i \in 1..(Len(h) + Len(q)) :
             a[i] = IF i <= Len(h) THEN h[i] ELSE q[i - Len(h)]
    BY <1>1, ConcatProperties
  <2> HIDE DEF a
  <2>2. Len(h) + Len(q) = n + 2
    BY <1>2
  <2> QED BY <1>2, <2>1, <2>2
<1> HIDE DEF a
<1>4. /\ \A i \in 1..n : a[i] = h[i]
      /\ a[Len(a) - 1] = q[1] /\ a[Len(a)] = q[2]
  <2>1. \A i \in 1..n : i \in 1..(n + 2) /\ i <= n
    BY <1>2
  <2>2. /\ n + 2 - 1 \in 1..(n + 2) /\ ~(n + 2 - 1 <= n) /\ n + 2 - 1 - n = 1
        /\ n + 2 \in 1..(n + 2) /\ ~(n + 2 <= n) /\ n + 2 - n = 2
    BY <1>2
  <2> QED BY <1>3, <2>1, <2>2
<1>5. /\ <<1>> \in Seq(Addr!Byte) /\ Len(<<1>>) = 1
  BY SizesAre
<1>6. /\ b \in Seq(Addr!Byte) /\ Len(b) = n + 3
      /\ \A i \in 1..(n + 2) : b[i] = a[i]
  <2>1. /\ b \in Seq(Addr!Byte) /\ Len(b) = Len(a) + Len(<<1>>)
        /\ \A i \in 1..(Len(a) + Len(<<1>>)) :
             b[i] = IF i <= Len(a) THEN a[i] ELSE <<1>>[i - Len(a)]
    BY <1>3, <1>5, ConcatProperties
  <2> HIDE DEF b
  <2>2. Len(a) + Len(<<1>>) = n + 3 /\ \A i \in 1..(n + 2) : i \in 1..(n + 3) /\ i <= n + 2
    BY <1>3, <1>5
  <2> QED BY <1>3, <2>1, <2>2
<1>7. Addr!AddrLen(b) = n + 2 /\ n + 2 <= Addr!MaxAddrLen
  <2>1. Len(b) >= 2 /\ b[1] = h[1] /\ (n >= 2 => b[2] = h[2])
    BY <1>1, <1>2, <1>4, <1>6
  <2>2. /\ b[1] = 1 => Addr!AddrLen(b) = IPv4len + 3
        /\ b[1] = 4 => Addr!AddrLen(b) = IPv6len + 3
        /\ b[1] = 3 => Addr!AddrLen(b) = b[2] + 4
    <3> HIDE DEF b
    <3> QED BY <1>2, <1>6, <2>1, SameAddresses, AddrLenIs
  <2> HIDE DEF b
  <2>3. CASE h[1] = 1 /\ Len(h) = 1 + IPv4len
    BY <1>2, <2>1, <2>2, <2>3, SizesAre
  <2>4. CASE h[1] = 4 /\ Len(h) = 1 + IPv6len
    BY <1>2, <2>1, <2>2, <2>4, SizesAre
  <2>5. CASE Len(h) >= 2 /\ h[1] = 3 /\ Len(h) = 2 + h[2] /\ h[2] \in Nat /\ h[2] <= MaxByte
    <3>1. PICK k \in Nat : k = h[2] /\ k <= MaxByte
      BY <2>5
    <3>2. n = 2 + k /\ n >= 2
      BY <1>2, <2>5, <3>1
    <3>3. b[2] = k /\ b[1] = 3
      BY <2>1, <2>5, <3>1, <3>2
    <3>4. Addr!AddrLen(b) = k + 4
      BY <2>2, <3>3
    <3>5. k + 4 = n + 2 /\ n + 2 <= Addr!MaxAddrLen
      BY <3>1, <3>2, SizesAre
    <3> QED BY <3>4, <3>5
  <2> QED BY <2>3, <2>4, <2>5 DEF HostShaped
<1>8. SubSeq(b, 1, n + 2) = a
  <2>1. /\ SubSeq(b, 1, n + 2) \in Seq(Addr!Byte) /\ Len(SubSeq(b, 1, n + 2)) = (n + 2) - 1 + 1
        /\ \A i \in 1..((n + 2) - 1 + 1) : SubSeq(b, 1, n + 2)[i] = b[1 + i - 1]
    <3>1. 1 \in Nat \ {0} /\ n + 2 \in Nat /\ 1 <= (n + 2) + 1 /\ n + 2 <= Len(b)
      BY <1>6
    <3> HIDE DEF b
    <3> QED BY <1>6, <3>1, SubSeqIs
  <2>2. (n + 2) - 1 + 1 = n + 2 /\ \A i \in 1..(n + 2) : 1 + i - 1 = i
    OBVIOUS
  <2> HIDE DEF b
  <2>3. \A i \in 1..Len(a) : SubSeq(b, 1, n + 2)[i] = a[i]
    BY <1>3, <1>6, <2>1, <2>2
  <2> QED BY <1>3, <2>1, <2>2, <2>3, SeqEqual
<1>9. Addr!SplitAddr(b) = a
  <2> HIDE DEF b
  <2> QED BY <1>2, <1>6, <1>7, <1>8 DEF Addr!SplitAddr
<1> QED BY <1>2, <1>3, <1>4, <1>7, <1>9 DEF a, b

\* What is behind the first bytes of a host comes back from the address.
LEMMA HostComesBack ==
    ASSUME NEW c \in Seq(Addr!Byte), c # <<>>, NEW x \in Seq(Addr!Byte),
           NEW q \in Seq(Addr!Byte), Len(q) = 2
    PROVE  LET a == (c \o x) \o q IN
           /\ SubSeq(a, Len(c) + 1, Len(c) + Len(x)) = x
           /\ Len(a) - 2 = Len(c) + Len(x)
<1> DEFINE h == c \o x
<1>1. /\ h \in Seq(Addr!Byte) /\ Len(h) = Len(c) + Len(x)
      /\ x \o q \in Seq(Addr!Byte)
  BY ConcatProperties
<1>2. Len(c) \in Nat \ {0} /\ Len(x) \in Nat
  BY EmptySeq, LenProperties
<1>3. Len(h \o q) - 2 = Len(c) + Len(x)
  <2>1. Len(h \o q) = Len(h) + Len(q)
    BY <1>1, ConcatProperties
  <2> HIDE DEF h
  <2> QED BY <1>1, <1>2, <2>1
<1>4. SubSeq(h \o q, Len(c) + 1, Len(c) + Len(x)) = SubSeq(h, Len(c) + 1, Len(c) + Len(x))
  <2>1. CASE Len(x) = 0
    <3>1. Len(c) + 1 \in Int /\ Len(c) + Len(x) \in Int /\ Len(c) + Len(x) < Len(c) + 1
      BY <1>2, <2>1
    <3> HIDE DEF h
    <3> QED BY <3>1, SubSeqEmpty
  <2>2. CASE Len(x) > 0
    <3>1. Len(c) + 1 \in 1..Len(h) /\ Len(c) + Len(x) \in 1..Len(h)
      BY <1>1, <1>2, <2>2
    <3> HIDE DEF h
    <3> QED BY <1>1, <3>1, SubSeqOfConcat1
  <2> QED BY <1>2, <2>1, <2>2
<1>5. SubSeq(h, Len(c) + 1, Len(c) + Len(x)) = x
  BY BehindIs
<1> QED BY <1>3, <1>4, <1>5

LEMMA Quotient ==
    \A p \in Nat : \A b \in Nat \ {0} : p = b * (p \div b) + (p % b)
BY SMT

\* A port is two bytes.
LEMMA PortIs ==
    ASSUME NEW p \in Nat
    PROVE  /\ p >= (MaxByte + 1) * (MaxByte + 1) <=> p > MaxByte * (MaxByte + 1) + MaxByte
           /\ (p \div (MaxByte + 1)) * (MaxByte + 1) + (p % (MaxByte + 1)) = p
           /\ p % (MaxByte + 1) \in Addr!Byte
           /\ p < (MaxByte + 1) * (MaxByte + 1) => p \div (MaxByte + 1) \in Addr!Byte
<1>1. PICK B \in Nat : B = MaxByte + 1 /\ B >= 1
  BY SizesAre
<1>2. PICK K \in Nat : K = MaxByte * B
  BY <1>1, SizesAre
<1>3. B * B = K + B
  <2>1. (MaxByte + 1) * B = MaxByte * B + B
    BY <1>1, SizesAre
  <2> QED BY <1>1, <1>2, <2>1
<1>4. p >= B * B <=> p > K + MaxByte
  BY <1>1, <1>2, <1>3, SizesAre
<1>5. /\ p \div B \in Nat /\ p % B \in 0..(B - 1)
      /\ p = B * (p \div B) + (p % B)
  <2>1. p \div B \in Nat
    BY <1>1
  <2>2. p % B \in 0..(B - 1)
    BY <1>1
  <2>3. B \in Nat \ {0}
    BY <1>1
  <2>4. p = B * (p \div B) + (p % B)
    BY <2>3, Quotient, Zenon
  <2> QED BY <2>1, <2>2, <2>4
<1>6. PICK d \in Nat : d = p \div B
  BY <1>5
<1>7. (p \div B) * B + (p % B) = p
  <2>1. d * B = B * d
    BY <1>1
  <2> QED BY <1>5, <1>6, <2>1
<1>8. p % B \in Addr!Byte
  BY <1>1, <1>5, SizesAre
<1>9. ASSUME p < B * B PROVE p \div B \in Addr!Byte
  <2>1. ASSUME d >= B PROVE FALSE
    <3>1. B * d >= B * B
      BY <1>1, <2>1
    <3>2. B * d \in Nat /\ B * B \in Nat
      BY <1>1
    <3> QED BY <1>5, <1>6, <1>9, <3>1, <3>2
  <2> QED BY <1>1, <1>6, <2>1, SizesAre
<1> QED BY <1>1, <1>2, <1>4, <1>7, <1>8, <1>9

\* The two forms of an address that is not refused.
LEMMA HostIsKept ==
    ASSUME NEW host \in Addr!Hosts, NEW q \in Seq(Addr!Byte), Len(q) = 2,
           Addr!ParseIP(host) = Nil => Len(host.bytes) <= MaxByte
    PROVE  LET h == Addr!HostBytes(host)
               a == h \o q
           IN  /\ HostShaped(h)
               /\ Addr!Dialled(Addr!String(a).host) = Addr!Dialled(host)
<1> DEFINE h == Addr!HostBytes(host)
           a == h \o q
           ip == Addr!ParseIP(host)
<1>1. CASE ip = Nil
  <2> DEFINE x == host.bytes
             c == <<3, Len(x)>>
  <2>1. /\ host.kind = "name" /\ x \in Seq(Addr!Byte) /\ host = Addr!Name(x)
        /\ h = c \o x
    <3>1. ip \notin Addr!IPs \/ ip = Nil
      BY <1>1
    <3> QED BY <1>1, ParseIPIs DEF Addr!HostBytes, Addr!AtypDomainName
  <2>2. Len(x) \in Nat /\ Len(x) <= MaxByte
    BY <1>1, <2>1, LenProperties
  <2>3. c \in Seq(Addr!Byte) /\ Len(c) = 2 /\ c # <<>> /\ c[1] = 3 /\ c[2] = Len(x)
    BY <2>2, SizesAre
  <2> HIDE DEF x, c
  <2>4. /\ c \o x \in Seq(Addr!Byte) /\ Len(c \o x) = 2 + Len(x)
        /\ (c \o x)[1] = 3 /\ (c \o x)[2] = Len(x)
    <3>1. /\ c \o x \in Seq(Addr!Byte) /\ Len(c \o x) = Len(c) + Len(x)
          /\ \A i \in 1..(Len(c) + Len(x)) : (c \o x)[i] = IF i <= Len(c) THEN c[i] ELSE x[i - Len(c)]
      BY <2>1, <2>3, ConcatProperties
    <3> QED BY <2>2, <2>3, <3>1
  <2>5. HostShaped(h)
    BY <2>1, <2>2, <2>4 DEF HostShaped
  <2>6. a[1] = 3 /\ a[2] = Len(x)
    <3>1. \A i \in 1..Len(h) : a[i] = h[i]
      BY <2>5, AddressWhole
    <3>2. 1 \in 1..Len(h) /\ 2 \in 1..Len(h)
      BY <2>1, <2>2, <2>4
    <3> HIDE DEF a, h
    <3> QED BY <2>1, <2>4, <3>1, <3>2
  <2>7. SubSeq(a, 3, 2 + a[2]) = x
    <3>1. SubSeq((c \o x) \o q, Len(c) + 1, Len(c) + Len(x)) = x
      BY <2>1, <2>3, HostComesBack
    <3>2. SubSeq(a, Len(c) + 1, Len(c) + Len(x)) = x
      BY <2>1, <3>1
    <3> HIDE DEF a, h
    <3> QED BY <2>3, <2>6, <3>2
  <2>8. Addr!String(a).host = host
    BY <2>1, <2>6, <2>7 DEF Addr!String, Addr!AtypDomainName
  <2> QED BY <2>5, <2>8
<1>2. CASE ip # Nil
  <2> DEFINE y == Addr!To4(ip)
             x == IF Len(y) = IPv4len THEN y ELSE ip
             t == IF Len(y) = IPv4len THEN 1 ELSE 4
  <2>1. /\ ip \in Addr!IPs /\ y \in Seq(Addr!Byte) /\ Addr!To4(y) = y
        /\ Len(y) = IPv4len \/ (y = ip /\ Len(ip) = IPv6len)
    <3>1. ip \in Addr!IPs
      BY <1>2, ParseIPIs
    <3> QED BY <3>1, To4Is
  <2>2. /\ h = <<t>> \o x /\ x = y
        /\ Len(x) = (IF t = 1 THEN IPv4len ELSE IPv6len) /\ t \in {1, 4}
    BY <1>2, <2>1 DEF Addr!HostBytes, Addr!AtypIPv4, Addr!AtypIPv6
  <2>3. Addr!Dialled(host) = Addr!IP(y)
    BY <1>2 DEF Addr!Dialled
  <2> HIDE DEF x, t, y
  <2>4. <<t>> \in Seq(Addr!Byte) /\ Len(<<t>>) = 1 /\ <<t>> # <<>> /\ <<t>>[1] = t
    BY <2>2, SizesAre
  <2>5. /\ <<t>> \o x \in Seq(Addr!Byte) /\ Len(<<t>> \o x) = 1 + Len(x)
        /\ (<<t>> \o x)[1] = t
    <3>1. /\ <<t>> \o x \in Seq(Addr!Byte) /\ Len(<<t>> \o x) = Len(<<t>>) + Len(x)
          /\ \A i \in 1..(Len(<<t>>) + Len(x)) :
               (<<t>> \o x)[i] = IF i <= Len(<<t>>) THEN <<t>>[i] ELSE x[i - Len(<<t>>)]
      BY <2>1, <2>2, <2>4, ConcatProperties
    <3>2. Len(x) \in Nat
      BY <2>1, <2>2, LenProperties
    <3> QED BY <2>4, <3>1, <3>2
  <2>6. HostShaped(h)
    <3>1. Len(h) \in Nat /\ Len(h) >= 1
      BY <2>2, <2>5, SizesAre
    <3> QED BY <2>2, <2>5, <3>1 DEF HostShaped
  <2>7. a[1] = t
    <3>1. \A i \in 1..Len(h) : a[i] = h[i]
      BY <2>6, AddressWhole
    <3>2. 1 \in 1..Len(h)
      BY <2>6 DEF HostShaped
    <3> HIDE DEF a, h
    <3> QED BY <2>2, <2>5, <3>1, <3>2
  <2>8. SubSeq(a, 2, Len(a) - 2) = x
    <3>1. /\ SubSeq((<<t>> \o x) \o q, Len(<<t>>) + 1, Len(<<t>>) + Len(x)) = x
          /\ Len((<<t>> \o x) \o q) - 2 = Len(<<t>>) + Len(x)
      BY <2>1, <2>2, <2>4, HostComesBack
    <3>2. /\ SubSeq(a, Len(<<t>>) + 1, Len(<<t>>) + Len(x)) = x
          /\ Len(a) - 2 = Len(<<t>>) + Len(x)
      BY <2>2, <3>1
    <3> HIDE DEF a, h
    <3> QED BY <2>4, <3>2
  <2>9. Addr!String(a).host = Addr!IP(y)
    <3> HIDE DEF a, h
    <3>1. a[1] # 3
      BY <2>2, <2>7
    <3>2. Addr!To4(SubSeq(a, 2, Len(a) - 2)) = y
      BY <2>1, <2>2, <2>8
    <3> QED BY <3>1, <3>2 DEF Addr!String, Addr!AtypDomainName
  <2>10. Addr!Dialled(Addr!IP(y)) = Addr!IP(y)
    <3>1. Addr!ParseIP(Addr!IP(y)) = y /\ y # Nil
      BY <2>1, SizesAre DEF Addr!ParseIP, Addr!IP
    <3> QED BY <2>1, <3>1 DEF Addr!Dialled
  <2> QED BY <2>3, <2>6, <2>9, <2>10
<1> QED BY <1>1, <1>2

\* ParseAddr, SplitAddr and String undo each other.
LEMMA AddressesKept ==
    \A text \in [host : Addr!Hosts, port : Nat] : Addr!KeepsTarget(text)
<1> TAKE text \in [host : Addr!Hosts, port : Nat]
<1> DEFINE p == text.port
           B == MaxByte + 1
           q == <<p \div B, p % B>>
           a == Addr!HostBytes(text.host) \o q
           long == Addr!ParseIP(text.host) = Nil /\ Len(text.host.bytes) > MaxByte
<1>1. p \in Nat /\ text.host \in Addr!Hosts
  OBVIOUS
<1>2. /\ p >= B * B <=> p > MaxByte * B + MaxByte
      /\ (p \div B) * B + (p % B) = p
      /\ p % B \in Addr!Byte /\ (p < B * B => p \div B \in Addr!Byte)
  BY <1>1, PortIs
<1>3. Addr!Dialled(text.host).kind = "name" <=> Addr!ParseIP(text.host) = Nil
  BY <1>1, ParseIPIs DEF Addr!Dialled, Addr!IP
<1>4. CASE long \/ p >= B * B
  <2>1. Addr!ParseAddr(text) = Nil
    BY <1>4 DEF Addr!ParseAddr
  <2> QED BY <1>2, <1>3, <1>4, <2>1 DEF Addr!KeepsTarget
<1>5. CASE ~long /\ ~(p >= B * B)
  <2>1. Addr!ParseAddr(text) = a
    BY <1>5 DEF Addr!ParseAddr
  <2>2. q \in Seq(Addr!Byte) /\ Len(q) = 2 /\ q[1] = p \div B /\ q[2] = p % B
    <3>1. p < B * B
      <4>1. B * B \in Nat
        BY SizesAre
      <4> HIDE DEF B
      <4> QED BY <1>1, <1>5, <4>1
    <3>2. p \div B \in Addr!Byte /\ p % B \in Addr!Byte
      BY <1>2, <3>1
    <3> QED BY <3>2
  <2>3. HostShaped(Addr!HostBytes(text.host))
        /\ Addr!Dialled(Addr!String(a).host) = Addr!Dialled(text.host)
    <3>1. Addr!ParseIP(text.host) = Nil => Len(text.host.bytes) <= MaxByte
      <4>1. Addr!ParseIP(text.host) = Nil => Len(text.host.bytes) \in Nat
        BY <1>1, ParseIPIs, LenProperties
      <4> QED BY <1>5, <4>1, SizesAre
    <3> HIDE DEF q
    <3> QED BY <1>1, <2>2, <3>1, HostIsKept
  <2>4. /\ Len(a) <= Addr!MaxAddrLen /\ Addr!SplitAddr(a \o <<1>>) = a
        /\ a[Len(a) - 1] = p \div B /\ a[Len(a)] = p % B
    <3> HIDE DEF q
    <3> QED BY <2>2, <2>3, AddressWhole
  <2>5. Addr!String(a).port = p
    <3> HIDE DEF a, p
    <3> QED BY <1>2, <2>4 DEF Addr!String, Addr!Port
  <2>6. ~(\/ Addr!Dialled(text.host).kind = "name" /\ Len(text.host.bytes) > MaxByte
          \/ p > MaxByte * (MaxByte + 1) + MaxByte)
    BY <1>2, <1>3, <1>5
  <2> QED BY <2>1, <2>3, <2>4, <2>5, <2>6 DEF Addr!KeepsTarget
<1> QED BY <1>4, <1>5


----------------------------------------------------------------------------
(* The tunnel. *)

\* What is printed for -tcptun is the target that is dialled, and the relay and
\* the handshake keep their invariants whatever else the handler does.
TunnelIInv ==
    /\ RelayIInv
    /\ HandIInv
    /\ TunnelTypeOK
    /\ KeepsTarget

LEMMA TargetsKept == \A t \in Targets : Addr!KeepsTarget(t)
BY SizesAssumption, AddressesKept

LEMMA AnyTargetIs == AnyTarget \in Targets
BY SizesAssumption DEF AnyTarget

LEMMA TunnelInitIInv == TunnelInit => TunnelIInv
<1> SUFFICES ASSUME TunnelInit PROVE TunnelIInv
  OBVIOUS
<1>1. RelayIInv
  BY RelayInit DEF TunnelInit
<1>2. HandIInv
  <2>1. stream \in Seq(Hand!Byte)
    <3>1. Streams \subseteq Seq(Hand!Byte)
      BY SizesAssumption, ByteIs
    <3> QED BY <3>1, EmptySeq DEF TunnelInit
  <2>2. mode \in {"Handshake", "ReadAddr"} /\ UDPEnabled \in BOOLEAN
    BY DEF TunnelInit
  <2> QED BY <2>1, <2>2, FreshIInv DEF TunnelInit, NotBegun
<1>3. target \in Targets
  BY AnyTargetIs DEF TunnelInit
<1>4. TunnelTypeOK
  <2>1. role \in {"socks", "tun", "remote"} /\ stage = "listen" /\ open = {}
    BY DEF TunnelInit
  <2> QED BY <1>1, <1>2, <1>3, <2>1 DEF RelayIInv, HandIInv, TunnelTypeOK
<1> QED BY <1>1, <1>2, <1>3, <1>4, TargetsKept DEF TunnelIInv, KeepsTarget

\* Every step of the tunnel is a step of the relay, or none.
LEMMA TunnelRelays == TunnelNext => [Next]_vars
<1> SUFFICES ASSUME TunnelNext PROVE [Next]_vars
  OBVIOUS
<1>1. CASE Programs
  BY <1>1 DEF Programs, Next, Ends
<1>2. CASE RelayStep
  BY <1>2 DEF RelayStep, Next
<1>3. CASE Handler
  BY <1>3 DEF Handler, Accept, GetAddr, HaveAddr, HoldEnds, Dial, SendTarget,
              RelayReturns, Close
<1> QED BY <1>1, <1>2, <1>3 DEF TunnelNext

\* Every step of the tunnel is a step of the handshake, its end, or none.
LEMMA TunnelHands ==
    ASSUME HandIInv, TunnelNext
    PROVE  HandIInv'
<1>1. CASE GetAddr
  BY <1>1, HandKeepsIt DEF GetAddr
<1>2. CASE HaveAddr
  <2>1. hbuf' = [i \in 1..Hand!MaxAddrLen |-> 0]
    BY <1>2 DEF HaveAddr, HandIInv, Hand!TypeOK
  <2>2. Hand!Fresh'
    BY <1>2, <2>1 DEF HaveAddr, Hand!Fresh
  <2>3. /\ stream' \in Seq(Hand!Byte) /\ mode' \in {"Handshake", "ReadAddr"}
        /\ UDPEnabled' \in BOOLEAN
    BY <1>2, EmptySeq DEF HaveAddr
  <2> QED
    <3>1. NotBegun'
      BY <2>2, <2>3 DEF NotBegun
    <3> QED BY <3>1, FreshIInv, PTL
<1>3. CASE UNCHANGED handVars
  BY <1>3, HandStutters
<1>4. GetAddr \/ HaveAddr \/ UNCHANGED handVars
  BY DEF TunnelNext, Handler, Accept, HoldEnds, Dial, SendTarget, RelayReturns,
         Close, Programs, RelayStep
<1> QED BY <1>1, <1>2, <1>3, <1>4

LEMMA TunnelKeepsIt == TunnelIInv /\ [TunnelNext]_tunnelVars => TunnelIInv'
<1> SUFFICES ASSUME TunnelIInv, [TunnelNext]_tunnelVars PROVE TunnelIInv'
  OBVIOUS
<1>1. RelayIInv'
  <2>1. [Next]_vars
    BY TunnelRelays DEF tunnelVars
  <2> QED BY <2>1, RelayKeepsIt DEF TunnelIInv
<1>2. HandIInv'
  BY TunnelHands, HandStutters DEF TunnelIInv, tunnelVars
<1>3. target' \in Targets
  <2>1. target' = AnyTarget \/ target' = target
    BY DEF tunnelVars, TunnelNext, Handler, Accept, GetAddr, HaveAddr, HoldEnds, Dial,
           SendTarget, RelayReturns, Close, Programs, RelayStep
  <2> QED BY <2>1, AnyTargetIs DEF TunnelIInv, TunnelTypeOK
<1>4. TunnelTypeOK'
  <2> USE DEF TunnelIInv, TunnelTypeOK
  <2>1. role' \in {"socks", "tun", "remote"}
    BY DEF tunnelVars, TunnelNext, Handler, Accept, GetAddr, HaveAddr, HoldEnds, Dial,
           SendTarget, RelayReturns, Close, Programs, RelayStep
  <2>2. stage' \in {"listen", "addr", "hold", "dial", "send", "relay", "close", "over"}
    BY DEF tunnelVars, TunnelNext, Handler, Accept, GetAddr, HaveAddr, HoldEnds, Dial,
           SendTarget, RelayReturns, Close, Programs, RelayStep, Goto
  <2>3. open' \subseteq {"c", "rc"}
    BY DEF tunnelVars, TunnelNext, Handler, Accept, GetAddr, HaveAddr, HoldEnds, Dial,
           SendTarget, RelayReturns, Close, Programs, RelayStep
  <2> QED BY <1>1, <1>2, <1>3, <2>1, <2>2, <2>3 DEF RelayIInv, HandIInv
<1>5. KeepsTarget'
  BY <1>3, TargetsKept DEF KeepsTarget
<1> QED BY <1>1, <1>2, <1>4, <1>5 DEF TunnelIInv

\* The relay's invariant holds whatever the programs send, read and break.
THEOREM RelayInvariance == Spec => []RelayIInv
  BY RelayInit, RelayKeepsIt, PTL DEF Spec

\* The tunnel's invariant holds for every stream and every target, wherever the
\* programs leave.
THEOREM Invariance == TunnelSpec => []TunnelIInv
  BY TunnelInitIInv, TunnelKeepsIt, PTL DEF TunnelSpec

\* Type correctness; a copier has a result as soon as its io.Copy has returned.
THEOREM TypeCorrect == TunnelSpec => []TunnelTypeOK
<1>1. TunnelIInv => TunnelTypeOK
  BY DEF TunnelIInv
<1> QED
  BY <1>1, Invariance, PTL

LEMMA CompleteIs == RelayIInv => NoErrorMeansComplete
<1> SUFFICES ASSUME RelayIInv, NEW g \in Copiers, err[g] = "nil"
             PROVE  fin[From[g]] # "open" /\ put[To[g]] = sent[From[g]]
  BY DEF NoErrorMeansComplete
<1>1. put[To[g]] \in Nat
  BY Wiring DEF RelayIInv, TypeOK
<1> QED
  BY <1>1 DEF RelayIInv, Counted, Finished

\* relay reports no error for a direction only if every byte of it arrived,
\* wherever the handler of the connection stands.
THEOREM Complete == TunnelSpec => []NoErrorMeansComplete
<1>1. TunnelIInv => NoErrorMeansComplete
  BY CompleteIs DEF TunnelIInv
<1> QED
  BY <1>1, Invariance, PTL

\* A timeout in relay's result always follows another end, so that its callers
\* may ignore it.
THEOREM TimeoutIsSecond == TunnelSpec => []TimeoutMeansOtherEnded
<1>1. TunnelIInv => TimeoutMeansOtherEnded
  BY DEF TunnelIInv, RelayIInv
<1> QED
  BY <1>1, Invariance, PTL

\* The relay alone, as clientlib/conn.go uses it too, keeps both promises.
THEOREM RelayKeepsItsPromises ==
    Spec => [](NoErrorMeansComplete /\ TimeoutMeansOtherEnded)
<1>1. RelayIInv => NoErrorMeansComplete /\ TimeoutMeansOtherEnded
  BY CompleteIs DEF RelayIInv
<1> QED
  BY <1>1, RelayInvariance, PTL

\* The handshake reads the greeting, the request and the address, and not one
\* byte of the payload, however long each of them is and wherever the address
\* bytes may look like something else; it answers what was asked.
THEOREM ReadsExactly == TunnelSpec => []ConsumesExactly
<1>1. TunnelIInv => ConsumesExactly
  BY DEF TunnelIInv, HandIInv
<1> QED
  BY <1>1, Invariance, PTL

\* A whole request of a supported command is served, and no other is.
THEOREM ServesWhole == TunnelSpec => []WholeIsServed
<1>1. TunnelIInv => WholeIsServed
  BY DEF TunnelIInv, HandIInv
<1> QED
  BY <1>1, Invariance, PTL

\* The host and port that the command line names are those that the server
\* dials, for addresses of every length and every port.
THEOREM TargetIsKept == TunnelSpec => []KeepsTarget
<1>1. TunnelIInv => KeepsTarget
  BY DEF TunnelIInv
<1> QED
  BY <1>1, Invariance, PTL
==============================================================================
