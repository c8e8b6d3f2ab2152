--------------------------- MODULE CoreCipherProofs --------------------------
(***************************************************************************)
(* Proofs about CoreCipher and the three modules it puts together: that    *)
(* both kinds of connection implement ByteStream, that an undamaged AEAD   *)
(* connection does not fail, what becomes of datagrams, and that a key     *)
(* suits the cipher it is picked for.  They hold for every size, every     *)
(* number of bytes and of writers.                                         *)
(***************************************************************************)
EXTENDS CoreCipher, SequenceTheorems, TLAPS

----------------------------------------------------------------------------
(* Runs of consecutive bytes. *)

\* The n bytes after byte from.
Run(from, n) == [j \in 1..n |-> from + j]

LEMMA RunIs ==
    \A from, n \in Nat :
        /\ Run(from, n) \in Seq(Nat)
        /\ Len(Run(from, n)) = n
        /\ \A i \in 1..n : Run(from, n)[i] = from + i
BY DEF Run

\* Two runs that meet are one.
LEMMA RunsJoin ==
    \A from, m, n \in Nat : Run(from, m) \o Run(from + m, n) = Run(from, m + n)
<1> TAKE from, m, n \in Nat
<1> DEFINE s == Run(from, m)
           t == Run(from + m, n)
           u == Run(from, m + n)
<1> from + m \in Nat /\ m + n \in Nat
  OBVIOUS
<1>1. /\ s \in Seq(Nat) /\ Len(s) = m
      /\ t \in Seq(Nat) /\ Len(t) = n
      /\ u \in Seq(Nat) /\ Len(u) = m + n
  BY RunIs
<1>2. /\ \A i \in 1..m : s[i] = from + i
      /\ \A i \in 1..n : t[i] = from + m + i
      /\ \A i \in 1..(m + n) : u[i] = from + i
  BY RunIs
<1> HIDE DEF s, t, u
<1>3. /\ s \o t \in Seq(Nat)
      /\ Len(s \o t) = m + n
      /\ \A i \in 1..(m + n) : (s \o t)[i] = IF i <= m THEN s[i] ELSE t[i - m]
  BY <1>1, ConcatProperties
<1>4. \A i \in 1..(m + n) : (s \o t)[i] = u[i]
  BY <1>2, <1>3
<1> QED BY <1>1, <1>3, <1>4, SeqEqual DEF s, t, u

\* A part of a run is a run.
LEMMA RunPart ==
    \A from, n \in Nat : \A k \in 0..n : \A m \in k..n :
        SubSeq(Run(from, n), k + 1, m) = Run(from + k, m - k)
<1> TAKE from, n \in Nat
<1> TAKE k \in 0..n
<1> TAKE m \in k..n
<1> DEFINE s == SubSeq(Run(from, n), k + 1, m)
           t == Run(from + k, m - k)
<1> from + k \in Nat /\ m - k \in Nat /\ k \in Nat /\ m \in Nat
  OBVIOUS
<1>1. \A i \in (k + 1)..m : Run(from, n)[i] = from + i /\ Run(from, n)[i] \in Nat
  <2>1. \A i \in (k + 1)..m : i \in 1..n /\ from + i \in Nat
    OBVIOUS
  <2> QED BY <2>1, RunIs
<1>2. /\ s \in Seq(Nat)
      /\ Len(s) = m - k
      /\ \A i \in 1..(m - k) : s[i] = Run(from, n)[k + i]
  BY <1>1, SubSeqProperties
<1>3. /\ t \in Seq(Nat) /\ Len(t) = m - k
      /\ \A i \in 1..(m - k) : t[i] = from + k + i
  BY RunIs
<1> HIDE DEF s, t
<1>4. \A i \in 1..(m - k) : s[i] = t[i]
  BY <1>1, <1>2, <1>3
<1> QED BY <1>2, <1>3, <1>4, SeqEqual DEF s, t

\* What ByteStream calls written.
LEMMA Written == \A n \in Nat : [j \in 1..n |-> j] = Run(0, n)
BY DEF Run

LEMMA Empty == \A S : \A s \in Seq(S) : s = <<>> <=> Len(s) = 0
BY EmptySeq

\* A prefix of a sequence.
LEMMA PrefixIs ==
    ASSUME NEW S, NEW s \in Seq(S), NEW n \in 0..Len(s)
    PROVE  /\ SubSeq(s, 1, n) \in Seq(S)
           /\ Len(SubSeq(s, 1, n)) = n
           /\ \A j \in 1..n : SubSeq(s, 1, n)[j] = s[j]
<1>1. n \in Nat /\ n \in Int /\ 1 \in Int /\ Len(s) \in Nat
  BY LenProperties
<1>2. \A j \in 1..n : s[j] \in S
  <2>1. \A j \in 1..n : j \in 1..Len(s)
    BY <1>1
  <2> QED BY <2>1, ElementOfSeq
<1>3. /\ SubSeq(s, 1, n) \in Seq(S)
      /\ Len(SubSeq(s, 1, n)) = IF 1 <= n THEN n - 1 + 1 ELSE 0
      /\ \A j \in 1..(n - 1 + 1) : SubSeq(s, 1, n)[j] = s[1 + j - 1]
  BY <1>1, <1>2, SubSeqProperties
<1>4. /\ (IF 1 <= n THEN n - 1 + 1 ELSE 0) = n
      /\ n - 1 + 1 = n /\ \A j \in 1..n : 1 + j - 1 = j
  BY <1>1
<1> QED BY <1>3, <1>4

\* A longer run extends a shorter one: the step of ByteStream that Write is.
LEMMA RunsExtend ==
    ASSUME NEW k \in Nat, NEW n \in Nat, k <= n
    PROVE  /\ Run(0, k) = SubSeq(Run(0, n), 1, k)
           /\ Len(Run(0, k)) <= Len(Run(0, n))
BY RunIs, RunPart

----------------------------------------------------------------------------
(* The AEAD stream. *)

\* How many bytes the reader has opened.
Opened == Len(aRead) + Len(aLeftover)

\* What the writer puts on the wire next, if it may: the salt, or a size.
Upcoming ==
    [kind |-> IF aSealed.salted THEN "size" ELSE "salt", nonce |-> aSealed.nonce,
     from |-> aSent]

\* Box b is the one that the reader waits for.
Due(b) ==
    /\ b.kind = aStep
    /\ b.nonce = aNonce
    /\ b.from = Opened

\* Box c comes right behind box b.
Follows(b, c) ==
    /\ c.kind = IF b.kind = "size" THEN "payload" ELSE "size"
    /\ c.nonce = IF b.kind = "salt" THEN 0 ELSE b.nonce + 1
    /\ c.from = IF b.kind = "payload" THEN b.from + b.len ELSE b.from

\* A size box has the size of the payload behind it.
Sized(b) ==
    /\ b.kind # "salt" => b.len \in 1..payloadSizeMask
    /\ b.kind = "salt" => b.nonce = 0 /\ b.from = 0
    /\ b.kind = "payload" => b.from + b.len <= aSent

\* The boxes on the wire are those between the reader and the writer, in order
\* and without a gap, but for what was cut off at the end.
SizedInv == \A i \in 1..Len(aWire) : Sized(aWire[i])

ChainInv ==
    \A i \in 1..(Len(aWire) - 1) :
        /\ Follows(aWire[i], aWire[i + 1])
        /\ aWire[i].kind = "size" => aWire[i + 1].len = aWire[i].len

WriterInv ==
    /\ aLink = "up" /\ aWire # <<>> => Follows(aWire[Len(aWire)], Upcoming)
    /\ ~aSealed.salted => aSealed.nonce = 0 /\ aSent = 0 /\ aWire = <<>>

ReaderInv ==
    aStep \notin {"garbled", "error"} =>
        /\ aWire # <<>> => Due(aWire[1])
        /\ aWire # <<>> /\ aStep = "payload" => aWire[1].len = aSize
        /\ aWire = <<>> /\ aLink = "up" => Due(Upcoming)

WireInv == SizedInv /\ ChainInv /\ WriterInv /\ ReaderInv

\* What was opened is what was written, and the caller has all of it but for
\* the end, which it gets first.
ReadInv ==
    /\ aRead = Run(0, Len(aRead))
    /\ aLeftover = Run(Len(aRead), Len(aLeftover))
    /\ Opened <= aSent
    /\ aLeftover # <<>> => aStep = "size"

\* Whatever goes wrong is recorded.
HurtInv ==
    ~aHurt =>
        /\ aLink = "up" /\ aStep \notin {"garbled", "error"}
        /\ \A i \in 1..Len(aWire) : aWire[i].good

StreamIInv == AEAD!TypeOK /\ WireInv /\ ReadInv /\ HurtInv

LEMMA MaskIs == payloadSizeMask \in Nat \ {0}
BY SizesAssumption

LEMMA StreamInit == AEAD!Init => StreamIInv
<1> SUFFICES ASSUME AEAD!Init PROVE StreamIInv
  OBVIOUS
<1> USE DEF AEAD!Init
<1>1. AEAD!TypeOK
  <2>1. aSealed \in [salted : BOOLEAN, nonce : Nat]
    OBVIOUS
  <2>3. /\ aSent \in Nat /\ aLink \in {"up", "cut"} /\ aHurt \in BOOLEAN /\ aNonce \in Nat
        /\ aStep \in {"salt", "size", "payload", "garbled", "error"} /\ aSize \in 0..payloadSizeMask
    <3>1. 0 \in 0..payloadSizeMask
      BY MaskIs
    <3> QED BY <3>1
  <2>2. /\ aWire \in Seq(AEAD!Boxes) /\ aRead \in Seq(Nat)
        /\ aLeftover \in Seq(Nat) /\ Len(aLeftover) < payloadSizeMask
    BY EmptySeq, MaskIs
  <2> HIDE DEF AEAD!Init
  <2> QED BY <2>1, <2>2, <2>3 DEF AEAD!TypeOK
<1>2. WireInv
  BY DEF WireInv, SizedInv, ChainInv, WriterInv, ReaderInv, Due, Upcoming, Opened
<1>3. ReadInv
  <2>1. Run(0, 0) = <<>>
    BY RunIs, EmptySeq, SeqEqual
  <2> QED BY <2>1 DEF ReadInv, Opened
<1>4. HurtInv
  BY DEF HurtInv
<1> QED BY <1>1, <1>2, <1>3, <1>4 DEF StreamIInv

\* What the writer and the connection do leaves the reader alone.
LEMMA WriteSaltIInv == ASSUME StreamIInv, AEAD!WriteSalt PROVE StreamIInv'
<1> DEFINE box == AEAD!Box("salt", 0, 0, 0)
<1> USE DEF StreamIInv
<1>1. /\ box \in AEAD!Boxes /\ box.kind = "salt" /\ box.nonce = 0 /\ box.from = 0
      /\ box.good
  BY DEF AEAD!Box, AEAD!Boxes
<1>2. /\ ~aSealed.salted /\ aLink = "up"
      /\ aSealed' = [aSealed EXCEPT !.salted = TRUE]
      /\ aWire' = Append(aWire, box)
      /\ UNCHANGED <<aSent, aLink, aHurt, aStep, aNonce, aSize, aLeftover, aRead>>
  BY DEF AEAD!WriteSalt, AEAD!readerVars
<1> HIDE DEF box
<1>3. aWire = <<>> /\ aWire \in Seq(AEAD!Boxes) /\ aSealed.nonce = 0 /\ aSent = 0
  BY <1>2 DEF WireInv, WriterInv, AEAD!TypeOK
<1>4. /\ aWire' \in Seq(AEAD!Boxes) /\ aWire' # <<>> /\ Len(aWire') = 1 /\ aWire'[1] = box
  BY <1>1, <1>2, <1>3, AppendProperties, EmptySeq
<1>5. AEAD!TypeOK'
  BY <1>2, <1>4 DEF AEAD!TypeOK
<1>6. WireInv'
  BY <1>1, <1>2, <1>3, <1>4
     DEF WireInv, SizedInv, Sized, ChainInv, WriterInv, ReaderInv, Follows, Due, Upcoming,
         Opened, AEAD!TypeOK
<1>7. ReadInv' /\ HurtInv'
  BY <1>1, <1>2, <1>4 DEF ReadInv, Opened, HurtInv
<1> QED BY <1>5, <1>6, <1>7

LEMMA WriteRecordIInv ==
    ASSUME StreamIInv, NEW n \in 1..payloadSizeMask, AEAD!WriteRecord(n)
    PROVE  StreamIInv'
<1> DEFINE first == AEAD!Box("size", aSealed.nonce, aSent, n)
           second == AEAD!Box("payload", aSealed.nonce + 1, aSent, n)
           L == Len(aWire)
<1> USE DEF StreamIInv
<1>1. /\ n \in Nat /\ aSealed.nonce \in Nat /\ aSealed.nonce + 1 \in Nat /\ aSent \in Nat
      /\ aWire \in Seq(AEAD!Boxes) /\ L \in Nat
  BY MaskIs, LenProperties DEF AEAD!TypeOK
<1>2. /\ first \in AEAD!Boxes /\ first.kind = "size" /\ first.nonce = aSealed.nonce
      /\ first.from = aSent /\ first.len = n /\ first.good
      /\ second \in AEAD!Boxes /\ second.kind = "payload"
      /\ second.nonce = aSealed.nonce + 1 /\ second.from = aSent /\ second.len = n
      /\ second.good
  <2>1. /\ first \in AEAD!Boxes /\ first.kind = "size" /\ first.nonce = aSealed.nonce
        /\ first.from = aSent /\ first.len = n /\ first.good
    BY <1>1 DEF AEAD!Box, AEAD!Boxes
  <2>2. /\ second \in AEAD!Boxes /\ second.kind = "payload"
        /\ second.nonce = aSealed.nonce + 1 /\ second.from = aSent /\ second.len = n
        /\ second.good
    BY <1>1 DEF AEAD!Box, AEAD!Boxes
  <2> QED BY <2>1, <2>2
<1>3. /\ aSealed.salted /\ aLink = "up"
      /\ aWire' = aWire \o <<first, second>>
      /\ aSealed' = [aSealed EXCEPT !.nonce = @ + 2]
      /\ aSent' = aSent + n
      /\ UNCHANGED <<aLink, aHurt, aStep, aNonce, aSize, aLeftover, aRead>>
  BY DEF AEAD!WriteRecord, AEAD!readerVars
<1> HIDE DEF first, second
<1>4. /\ aWire' \in Seq(AEAD!Boxes) /\ Len(aWire') = L + 2
      /\ \A i \in 1..L : aWire'[i] = aWire[i]
      /\ aWire'[L + 1] = first /\ aWire'[L + 2] = second
  <2>1. <<first, second>> \in Seq(AEAD!Boxes) /\ Len(<<first, second>>) = 2
    BY <1>2
  <2> QED BY <1>1, <1>3, <2>1, ConcatProperties
<1>5. aSent' = aSent + n /\ aSent' \in Nat /\ aSent <= aSent'
  <2>1. aSent' = aSent + n
    BY <1>3
  <2> QED BY <1>1, <2>1
<1>6. /\ aSealed' \in [salted : BOOLEAN, nonce : Nat]
      /\ aSealed'.salted /\ aSealed'.nonce = aSealed.nonce + 2
  <2>1. aSealed \in [salted : BOOLEAN, nonce : Nat]
    BY DEF AEAD!TypeOK
  <2>2. aSealed' = [aSealed EXCEPT !.nonce = @ + 2] /\ aSealed.salted
    BY <1>3
  <2>3. aSealed.nonce + 2 \in Nat
    BY <1>1
  <2>4. aSealed' \in [salted : BOOLEAN, nonce : Nat]
    BY <2>1, <2>2, <2>3
  <2> QED BY <2>1, <2>2, <2>4
<1>7. AEAD!TypeOK'
  BY <1>1, <1>3, <1>4, <1>5, <1>6 DEF AEAD!TypeOK
<1> HIDE DEF L
<1>8. SizedInv'
  <2> SUFFICES ASSUME NEW i \in 1..(L + 2) PROVE Sized(aWire[i])'
    BY <1>4 DEF SizedInv
  <2>1. CASE i \in 1..L
    <3>1. aWire[i] \in AEAD!Boxes /\ Sized(aWire[i])
      BY <1>1, <2>1, ElementOfSeq DEF WireInv, SizedInv, L
    <3>2. aWire'[i] = aWire[i]
      BY <1>4, <2>1
    <3>3. aWire[i].from \in Nat /\ aWire[i].len \in Nat
      BY <3>1 DEF AEAD!Boxes
    <3>4. aWire[i].kind = "payload" => aWire[i].from + aWire[i].len <= aSent'
      BY <1>1, <1>5, <3>1, <3>3 DEF Sized
    <3> QED BY <3>1, <3>2, <3>4 DEF Sized
  <2>2. CASE i \in {L + 1, L + 2}
    BY <1>1, <1>2, <1>4, <1>5, <2>2 DEF Sized
  <2> QED BY <1>1, <2>1, <2>2
<1>9. ChainInv'
  <2> SUFFICES ASSUME NEW i \in 1..(L + 1)
               PROVE  /\ Follows(aWire'[i], aWire'[i + 1])
                      /\ aWire'[i].kind = "size" => aWire'[i + 1].len = aWire'[i].len
    BY <1>1, <1>4 DEF ChainInv, Follows
  <2>1. CASE i < L
    BY <1>1, <1>4, <2>1 DEF WireInv, ChainInv, L
  <2>2. CASE i = L
    BY <1>1, <1>2, <1>3, <1>4, <2>2, EmptySeq DEF WireInv, WriterInv, Follows, Upcoming, L
  <2>3. CASE i = L + 1
    BY <1>1, <1>2, <1>4, <2>3 DEF Follows
  <2> QED BY <1>1, <2>1, <2>2, <2>3
<1>10. WriterInv'
  <2>1. Follows(second, Upcoming')
    BY <1>1, <1>2, <1>5, <1>6 DEF Follows, Upcoming
  <2> QED BY <1>1, <1>4, <1>6, <2>1 DEF WriterInv, Follows
<1>11. ReaderInv'
  <2>1. CASE aWire = <<>>
    BY <1>1, <1>2, <1>3, <1>4, <2>1, EmptySeq
       DEF WireInv, ReaderInv, Due, Upcoming, Opened, L
  <2>2. CASE aWire # <<>>
    <3>1. 1 \in 1..L
      BY <1>1, <2>2, EmptySeq DEF L
    <3> QED BY <1>3, <1>4, <2>2, <3>1 DEF WireInv, ReaderInv, Due, Opened
  <2> QED BY <2>1, <2>2
<1>12. ReadInv' /\ HurtInv'
  <2>1. Opened \in Nat /\ Opened' = Opened
    BY <1>3, LenProperties DEF Opened, AEAD!TypeOK
  <2>2. ReadInv'
    BY <1>1, <1>3, <2>1 DEF ReadInv
  <2>3. HurtInv'
    BY <1>1, <1>2, <1>3, <1>4 DEF HurtInv, L
  <2> QED BY <2>2, <2>3
<1> QED BY <1>7, <1>8, <1>9, <1>10, <1>11, <1>12 DEF WireInv

LEMMA CutIInv ==
    ASSUME StreamIInv, NEW i \in 1..(Len(aWire) + 1), AEAD!Cut(i)
    PROVE  StreamIInv'
<1> USE DEF StreamIInv, AEAD!Cut, AEAD!readerVars, AEAD!writerVars
<1>1. aWire \in Seq(AEAD!Boxes) /\ Len(aWire) \in Nat /\ i - 1 \in 0..Len(aWire)
  BY LenProperties DEF AEAD!TypeOK
<1>2. /\ aWire' \in Seq(AEAD!Boxes) /\ Len(aWire') = i - 1
      /\ \A j \in 1..(i - 1) : aWire'[j] = aWire[j]
  <2>1. \A j \in 1..(i - 1) : aWire[j] \in AEAD!Boxes
    BY <1>1, ElementOfSeq
  <2> QED BY <1>1, <2>1, SubSeqProperties
<1>3. aWire' # <<>> => aWire # <<>> /\ 1 \in 1..(i - 1)
  BY <1>1, <1>2, EmptySeq
<1>4. AEAD!TypeOK'
  BY <1>2 DEF AEAD!TypeOK
<1>5. WireInv'
  BY <1>1, <1>2, <1>3
     DEF WireInv, SizedInv, Sized, ChainInv, WriterInv, ReaderInv, Follows, Due, Opened
<1>6. ReadInv' /\ HurtInv'
  BY DEF ReadInv, Opened, HurtInv
<1> QED BY <1>4, <1>5, <1>6

LEMMA DamageIInv ==
    ASSUME StreamIInv, NEW i \in 1..Len(aWire), AEAD!Damage(i)
    PROVE  StreamIInv'
<1> USE DEF StreamIInv, AEAD!Damage, AEAD!readerVars, AEAD!writerVars
<1>1. aWire \in Seq(AEAD!Boxes) /\ aWire[i] \in AEAD!Boxes /\ Len(aWire) \in Nat
  BY LenProperties, ElementOfSeq DEF AEAD!TypeOK
<1>2. /\ aWire' \in Seq(AEAD!Boxes) /\ Len(aWire') = Len(aWire)
      /\ \A j \in 1..Len(aWire) :
           /\ aWire'[j].kind = aWire[j].kind /\ aWire'[j].nonce = aWire[j].nonce
           /\ aWire'[j].from = aWire[j].from /\ aWire'[j].len = aWire[j].len
  <2> DEFINE box == [aWire[i] EXCEPT !.good = FALSE]
  <2>1. /\ box \in AEAD!Boxes
        /\ box.kind = aWire[i].kind /\ box.nonce = aWire[i].nonce
        /\ box.from = aWire[i].from /\ box.len = aWire[i].len
    BY <1>1 DEF AEAD!Boxes
  <2>2. aWire' = [aWire EXCEPT ![i] = box]
    OBVIOUS
  <2> HIDE DEF box
  <2>3. /\ aWire' \in Seq(AEAD!Boxes) /\ Len(aWire') = Len(aWire)
        /\ \A j \in 1..Len(aWire) : aWire'[j] = IF j = i THEN box ELSE aWire[j]
    <3>1. [aWire EXCEPT ![i] = box] \in Seq(AEAD!Boxes)
      BY <1>1, <2>1, ExceptSeq
    <3>2. Len(aWire') = Len(aWire)
      BY <1>1, <2>1, <2>2, ExceptSeq
    <3>3. \A j \in 1..Len(aWire) : aWire'[j] = IF j = i THEN box ELSE aWire[j]
      <4>1. aWire \in [1..Len(aWire) -> AEAD!Boxes]
        BY <1>1, LenProperties
      <4> QED BY <2>2, <4>1
    <3> QED BY <2>2, <3>1, <3>2, <3>3
  <2> QED BY <2>1, <2>3
<1>3. aWire' # <<>> <=> aWire # <<>>
  BY <1>1, <1>2, EmptySeq
<1>4. aWire # <<>> => 1 \in 1..Len(aWire) /\ Len(aWire) \in 1..Len(aWire)
  BY <1>1, EmptySeq
<1>5. AEAD!TypeOK'
  BY <1>2 DEF AEAD!TypeOK
<1>6. WireInv'
  <2>1. SizedInv' /\ ChainInv'
    BY <1>1, <1>2 DEF WireInv, SizedInv, Sized, ChainInv, Follows
  <2>2. WriterInv' /\ ReaderInv'
    BY <1>1, <1>2, <1>3, <1>4 DEF WireInv, WriterInv, ReaderInv, Follows, Due, Opened, Upcoming
  <2> QED BY <2>1, <2>2 DEF WireInv
<1>7. ReadInv' /\ HurtInv'
  BY DEF ReadInv, Opened, HurtInv
<1> QED BY <1>5, <1>6, <1>7

\* When the reader takes the first box from the wire, the next one follows it.
LEMMA TakeBox ==
    ASSUME StreamIInv, aWire # <<>>, aWire' = Tail(aWire),
           UNCHANGED <<aSealed, aSent, aLink, aHurt>>
    PROVE  /\ aWire' \in Seq(AEAD!Boxes)
           /\ Head(aWire) = aWire[1] /\ aWire[1] \in AEAD!Boxes /\ Sized(aWire[1])
           /\ ~aHurt => aWire[1].good
           /\ SizedInv' /\ ChainInv' /\ WriterInv'
           /\ ~aHurt => \A i \in 1..Len(aWire') : aWire'[i].good
           /\ aWire' # <<>> => Follows(aWire[1], aWire'[1])
           /\ aWire' # <<>> /\ aWire[1].kind = "size" => aWire'[1].len = aWire[1].len
           /\ aWire' = <<>> /\ aLink = "up" =>
                Follows(aWire[1], Upcoming) /\ UNCHANGED Upcoming
<1> DEFINE L == Len(aWire)
<1> USE DEF StreamIInv
<1>1. aWire \in Seq(AEAD!Boxes) /\ L \in Nat /\ L > 0 /\ Head(aWire) = aWire[1]
  <2>1. aWire \in Seq(AEAD!Boxes) /\ L \in Nat \ {0}
    BY EmptySeq DEF AEAD!TypeOK
  <2> QED BY <2>1
<1>2. /\ aWire' \in Seq(AEAD!Boxes) /\ Len(aWire') = L - 1
      /\ \A i \in 1..(L - 1) : aWire'[i] = aWire[i + 1]
  BY <1>1, HeadTailProperties
<1>3. aWire[1] \in AEAD!Boxes /\ 1 \in 1..L
  BY <1>1, ElementOfSeq
<1>4. aWire' # <<>> <=> L > 1
  <2>1. aWire' = <<>> <=> Len(aWire') = 0
    BY <1>2, Empty
  <2>2. Len(aWire') = 0 <=> L = 1
    BY <1>1, <1>2
  <2> QED BY <1>1, <2>1, <2>2
<1> HIDE DEF L
<1>5. Sized(aWire[1]) /\ (~aHurt => aWire[1].good)
  BY <1>3 DEF WireInv, SizedInv, HurtInv, L
<1>6. SizedInv'
  BY <1>1, <1>2 DEF WireInv, SizedInv, Sized, L
<1>7. ChainInv'
  BY <1>1, <1>2 DEF WireInv, ChainInv, Follows, L
<1>8. WriterInv'
  <2>1. UNCHANGED Upcoming
    BY DEF Upcoming
  <2>2. aWire' # <<>> => aWire'[Len(aWire')] = aWire[L]
    BY <1>1, <1>2, <1>4
  <2> QED BY <1>1, <2>1, <2>2 DEF WireInv, WriterInv, Follows, L
<1>9. ~aHurt => \A i \in 1..Len(aWire') : aWire'[i].good
  BY <1>1, <1>2 DEF HurtInv, L
<1>10. /\ aWire' # <<>> => Follows(aWire[1], aWire'[1])
       /\ aWire' # <<>> /\ aWire[1].kind = "size" => aWire'[1].len = aWire[1].len
  BY <1>1, <1>2, <1>4 DEF WireInv, ChainInv, L
<1>11. aWire' = <<>> /\ aLink = "up" => Follows(aWire[1], Upcoming) /\ UNCHANGED Upcoming
  BY <1>1, <1>4 DEF WireInv, WriterInv, Upcoming, L
<1> QED BY <1>1, <1>2, <1>3, <1>5, <1>6, <1>7, <1>8, <1>9, <1>10, <1>11

LEMMA ReadSaltIInv == ASSUME StreamIInv, AEAD!ReadSalt PROVE StreamIInv'
<1> USE DEF StreamIInv
<1>1. /\ aStep = "salt" /\ aWire # <<>> /\ aWire' = Tail(aWire)
      /\ aStep' = IF aWire[1].good THEN "size" ELSE "garbled"
      /\ UNCHANGED <<aSealed, aSent, aLink, aHurt, aNonce, aSize, aLeftover, aRead>>
  BY TakeBox DEF AEAD!ReadSalt, AEAD!writerVars
<1>2. Due(aWire[1]) /\ Sized(aWire[1])
  BY <1>1, TakeBox DEF WireInv, ReaderInv
<1>3. aNonce = 0 /\ aWire[1].kind = "salt" /\ aWire[1].from = Opened
  BY <1>1, <1>2 DEF Due, Sized
<1>4. AEAD!TypeOK'
  BY <1>1, TakeBox DEF AEAD!TypeOK
<1>5. WireInv'
  <2>1. SizedInv' /\ ChainInv' /\ WriterInv'
    BY <1>1, TakeBox
  <2>2. /\ aWire' # <<>> => Follows(aWire[1], aWire'[1])
        /\ aWire' # <<>> /\ aWire[1].kind = "size" => aWire'[1].len = aWire[1].len
        /\ aWire' = <<>> /\ aLink = "up" => Follows(aWire[1], Upcoming')
    BY <1>1, TakeBox
  <2>3. Opened' = Opened
    BY <1>1 DEF Opened
  <2>4. ReaderInv'
    <3> SUFFICES ASSUME aStep' # "garbled" PROVE ReaderInv'
      BY DEF ReaderInv
    <3>1. aStep' = "size" /\ aNonce' = 0 /\ Opened' = aWire[1].from /\ aLink' = aLink
      BY <1>1, <1>3, <2>3
    <3>2. ASSUME aWire' # <<>> PROVE Due(aWire[1])'
      <4>1. Follows(aWire[1], aWire'[1])
        BY <2>2, <3>2
      <4> QED BY <1>3, <3>1, <4>1 DEF Due, Follows
    <3>3. aWire' = <<>> /\ aLink = "up" => Due(Upcoming)'
      BY <1>3, <2>2, <3>1 DEF Due, Follows
    <3> QED BY <3>1, <3>2, <3>3 DEF ReaderInv
  <2> QED BY <2>1, <2>4 DEF WireInv
<1>6. ReadInv'
  BY <1>1 DEF ReadInv, Opened
<1>7. HurtInv'
  BY <1>1, TakeBox DEF HurtInv
<1> QED BY <1>4, <1>5, <1>6, <1>7

\* With the subkey of a damaged salt the reader only fails.
LEMMA ReadGarbledIInv == ASSUME StreamIInv, AEAD!ReadGarbled PROVE StreamIInv'
<1> USE DEF StreamIInv
<1>1. /\ aStep = "garbled" /\ aStep' = "error" /\ aWire # <<>> /\ aWire' = Tail(aWire)
      /\ aNonce' = aNonce + 1
      /\ UNCHANGED <<aSealed, aSent, aLink, aHurt, aSize, aLeftover, aRead>>
  BY DEF AEAD!ReadGarbled, AEAD!writerVars
<1>2. AEAD!TypeOK'
  BY <1>1, TakeBox DEF AEAD!TypeOK
<1>3. WireInv'
  BY <1>1, TakeBox DEF WireInv, ReaderInv
<1>4. ReadInv' /\ HurtInv'
  BY <1>1 DEF ReadInv, Opened, HurtInv
<1> QED BY <1>2, <1>3, <1>4

\* An undamaged size box opens: it is the one that the reader waits for.  The
\* mask takes nothing from the size.
LEMMA ReadSizeIInv == ASSUME StreamIInv, AEAD!ReadSize PROVE StreamIInv'
<1> DEFINE box == aWire[1]
<1> USE DEF StreamIInv
<1>1. /\ aStep = "size" /\ aLeftover = <<>> /\ aWire # <<>> /\ aWire' = Tail(aWire)
      /\ aNonce' = aNonce + 1
      /\ UNCHANGED <<aSealed, aSent, aLink, aHurt, aLeftover, aRead>>
  BY DEF AEAD!ReadSize, AEAD!writerVars
<1>2. /\ Head(aWire) = box /\ box \in AEAD!Boxes /\ Sized(box) /\ (~aHurt => box.good)
  BY <1>1, TakeBox
<1>3. box.kind = "size" /\ box.nonce = aNonce /\ box.from = Opened
  BY <1>1 DEF WireInv, ReaderInv, Due
<1>4. box.len \in 1..payloadSizeMask /\ BitAnd(box.len, payloadSizeMask) = box.len
  BY <1>2, <1>3, SizesAssumption DEF Sized
<1>5. \/ box.good /\ aStep' = "payload" /\ aSize' = box.len
      \/ ~box.good /\ aStep' = "error" /\ aSize' = aSize
  BY <1>2, <1>3, <1>4 DEF AEAD!ReadSize, AEAD!Opens
<1>6. AEAD!TypeOK'
  <2>1. aSize' \in 0..payloadSizeMask
    BY <1>4, <1>5, MaskIs DEF AEAD!TypeOK
  <2> QED BY <1>1, <1>5, <2>1, TakeBox DEF AEAD!TypeOK
<1>7. WireInv'
  <2>1. SizedInv' /\ ChainInv' /\ WriterInv'
    BY <1>1, TakeBox
  <2>2. /\ aWire' # <<>> => Follows(aWire[1], aWire'[1])
        /\ aWire' # <<>> /\ aWire[1].kind = "size" => aWire'[1].len = aWire[1].len
        /\ aWire' = <<>> /\ aLink = "up" => Follows(aWire[1], Upcoming')
    BY <1>1, TakeBox
  <2>3. Opened' = Opened
    BY <1>1 DEF Opened
  <2>4. ReaderInv'
    <3> SUFFICES ASSUME aStep' # "error" PROVE ReaderInv'
      BY DEF ReaderInv
    <3>1. /\ aStep' = "payload" /\ aNonce' = box.nonce + 1 /\ Opened' = box.from
          /\ aSize' = box.len /\ aLink' = aLink
      BY <1>1, <1>3, <1>5, <2>3
    <3>2. ASSUME aWire' # <<>> PROVE Due(aWire[1])' /\ aWire'[1].len = aSize'
      <4>1. Follows(aWire[1], aWire'[1]) /\ aWire'[1].len = aWire[1].len
        BY <1>3, <2>2, <3>2
      <4> QED BY <1>3, <3>1, <4>1 DEF Due, Follows
    <3>3. aWire' = <<>> /\ aLink = "up" => Due(Upcoming)'
      BY <1>3, <2>2, <3>1 DEF Due, Follows
    <3> QED BY <3>1, <3>2, <3>3 DEF ReaderInv
  <2> QED BY <2>1, <2>4 DEF WireInv
<1>8. ReadInv'
  BY <1>1 DEF ReadInv, Opened
<1>9. HurtInv'
  BY <1>1, <1>2, <1>5, TakeBox DEF HurtInv
<1> QED BY <1>6, <1>7, <1>8, <1>9

\* What is delivered continues what the caller has, and the rest is left over.
LEMMA Delivered ==
    ASSUME AEAD!TypeOK, NEW n \in 0..payloadSizeMask, NEW m \in 1..n,
           aRead = Run(0, Len(aRead)), AEAD!Deliver(Run(Len(aRead), n), m)
    PROVE  /\ aRead' \in Seq(Nat) /\ aLeftover' \in Seq(Nat)
           /\ Len(aRead') = Len(aRead) + m /\ Len(aLeftover') = n - m
           /\ aRead' = Run(0, Len(aRead'))
           /\ aLeftover' = Run(Len(aRead'), Len(aLeftover'))
           /\ Opened' = Len(aRead) + n /\ Len(aRead) \in Nat
<1> DEFINE k == Len(aRead)
<1>1. k \in Nat /\ n \in Nat /\ m \in 0..n /\ n - m \in Nat /\ k + m \in Nat
  BY MaskIs, LenProperties DEF AEAD!TypeOK
<1>2. Len(Run(k, n)) = n
  BY <1>1, RunIs
<1>3. /\ aRead' = Run(0, k) \o SubSeq(Run(k, n), 1, m)
      /\ aLeftover' = SubSeq(Run(k, n), m + 1, n)
  BY <1>2 DEF AEAD!Deliver
<1> HIDE DEF k
<1>4. SubSeq(Run(k, n), 1, m) = Run(k, m)
  <2>1. 0 \in 0..n /\ m \in 0..n /\ 0 + 1 = 1 /\ k + 0 = k /\ m - 0 = m
    BY <1>1
  <2>2. SubSeq(Run(k, n), 0 + 1, m) = Run(k + 0, m - 0)
    BY <1>1, <2>1, RunPart, Zenon
  <2> QED BY <2>1, <2>2, Zenon
<1>5. SubSeq(Run(k, n), m + 1, n) = Run(k + m, n - m)
  <2>1. n \in m..n
    BY <1>1
  <2> QED BY <1>1, <2>1, RunPart, Zenon
<1>6. Run(0, k) \o Run(k, m) = Run(0, k + m)
  <2>1. 0 \in Nat /\ m \in Nat /\ 0 + k = k
    BY <1>1
  <2>2. Run(0, k) \o Run(0 + k, m) = Run(0, k + m)
    BY <1>1, <2>1, RunsJoin, Zenon
  <2> QED BY <2>1, <2>2, Zenon
<1>7. aRead' = Run(0, k + m) /\ aLeftover' = Run(k + m, n - m)
  BY <1>3, <1>4, <1>5, <1>6, Zenon
<1>8. /\ aRead' \in Seq(Nat) /\ Len(aRead') = k + m
      /\ aLeftover' \in Seq(Nat) /\ Len(aLeftover') = n - m
  BY <1>1, <1>7, RunIs
<1>9. Opened' = k + n
  BY <1>1, <1>8 DEF Opened
<1> QED BY <1>1, <1>7, <1>8, <1>9 DEF k

LEMMA ReadPayloadIInv ==
    ASSUME StreamIInv, NEW m \in 1..payloadSizeMask, AEAD!ReadPayload(m)
    PROVE  StreamIInv' /\ Len(aRead) <= Len(aRead')
<1> DEFINE box == aWire[1]
<1> USE DEF StreamIInv
<1>1. /\ aStep = "payload" /\ aWire # <<>> /\ aWire' = Tail(aWire) /\ aNonce' = aNonce + 1
      /\ UNCHANGED <<aSealed, aSent, aLink, aHurt, aSize>>
  BY DEF AEAD!ReadPayload, AEAD!writerVars
<1>2. /\ Head(aWire) = box /\ box \in AEAD!Boxes /\ Sized(box) /\ (~aHurt => box.good)
  BY <1>1, TakeBox
<1>3. /\ box.kind = "payload" /\ box.nonce = aNonce /\ box.from = Opened
      /\ box.len = aSize /\ aLeftover = <<>>
  BY <1>1 DEF WireInv, ReaderInv, Due, ReadInv
<1>4. /\ Len(aRead) \in Nat /\ Opened = Len(aRead) /\ aSize \in 0..payloadSizeMask
      /\ aRead = Run(0, Len(aRead)) /\ Opened + aSize <= aSent
  BY <1>2, <1>3, EmptySeq, LenProperties DEF Opened, AEAD!TypeOK, ReadInv, Sized
<1>5. AEAD!PayloadOf(box) = Run(Len(aRead), aSize)
  BY <1>3, <1>4 DEF AEAD!PayloadOf, Run
<1>6. \/ /\ box.good /\ m <= aSize /\ aStep' = "size"
         /\ AEAD!Deliver(Run(Len(aRead), aSize), m)
      \/ ~box.good /\ aStep' = "error" /\ UNCHANGED <<aLeftover, aRead>>
  BY <1>2, <1>3, <1>5 DEF AEAD!ReadPayload, AEAD!Opens
<1>7. SizedInv' /\ ChainInv' /\ WriterInv'
  BY <1>1, TakeBox
<1>8. CASE aStep' = "error"
  <2>1. ~box.good /\ UNCHANGED <<aLeftover, aRead>>
    BY <1>6, <1>8
  <2>2. AEAD!TypeOK'
    BY <1>1, <1>8, <2>1, TakeBox DEF AEAD!TypeOK
  <2>3. WireInv' /\ ReadInv' /\ HurtInv'
    BY <1>1, <1>2, <1>3, <1>7, <1>8, <2>1 DEF WireInv, ReaderInv, ReadInv, Opened, HurtInv
  <2> QED BY <1>4, <2>1, <2>2, <2>3
<1>9. CASE aStep' = "size"
  <2>1. m \in 1..aSize /\ AEAD!Deliver(Run(Len(aRead), aSize), m)
    BY <1>4, <1>6, <1>9
  <2>2. /\ aRead' \in Seq(Nat) /\ aLeftover' \in Seq(Nat)
        /\ Len(aRead') = Len(aRead) + m /\ Len(aLeftover') = aSize - m
        /\ aRead' = Run(0, Len(aRead'))
        /\ aLeftover' = Run(Len(aRead'), Len(aLeftover'))
        /\ Opened' = Len(aRead) + aSize
    BY <1>4, <2>1, Delivered
  <2>3. AEAD!TypeOK'
    <3>1. Len(aLeftover') < payloadSizeMask
      BY <1>4, <2>2, MaskIs
    <3> QED BY <1>1, <1>9, <2>2, <3>1, TakeBox DEF AEAD!TypeOK
  <2>4. ReaderInv'
    <3>1. /\ aWire' # <<>> => Follows(aWire[1], aWire'[1])
          /\ aWire' # <<>> /\ aWire[1].kind = "size" => aWire'[1].len = aWire[1].len
          /\ aWire' = <<>> /\ aLink = "up" => Follows(aWire[1], Upcoming')
      BY <1>1, TakeBox
    <3>2. /\ aNonce' = box.nonce + 1 /\ Opened' = box.from + box.len
          /\ aLink' = aLink
      BY <1>1, <1>3, <1>4, <2>2
    <3>3. aWire' # <<>> => Due(aWire[1])'
      BY <1>3, <1>9, <3>1, <3>2 DEF Due, Follows
    <3>4. aWire' = <<>> /\ aLink = "up" => Due(Upcoming)'
      BY <1>3, <1>9, <3>1, <3>2 DEF Due, Follows
    <3> QED BY <1>9, <3>2, <3>3, <3>4 DEF ReaderInv
  <2>5. ReadInv'
    BY <1>1, <1>4, <1>9, <2>2 DEF ReadInv
  <2>6. HurtInv'
    BY <1>1, <1>9, TakeBox DEF HurtInv
  <2> QED BY <1>4, <1>7, <2>2, <2>3, <2>4, <2>5, <2>6 DEF WireInv
<1> QED BY <1>6, <1>8, <1>9

LEMMA ReadLeftoverIInv ==
    ASSUME StreamIInv, NEW m \in 1..payloadSizeMask, AEAD!ReadLeftover(m)
    PROVE  StreamIInv' /\ Len(aRead) <= Len(aRead')
<1> DEFINE n == Len(aLeftover)
<1> USE DEF StreamIInv
<1>1. /\ aStep = "size" /\ m <= n /\ AEAD!Deliver(aLeftover, m)
      /\ UNCHANGED <<aSealed, aSent, aWire, aLink, aHurt, aStep, aNonce, aSize>>
  BY DEF AEAD!ReadLeftover, AEAD!writerVars
<1>2. /\ n \in 0..payloadSizeMask /\ n < payloadSizeMask /\ m \in 1..n
      /\ aRead = Run(0, Len(aRead)) /\ aLeftover = Run(Len(aRead), n)
      /\ Len(aRead) \in Nat
  BY <1>1, MaskIs, LenProperties DEF AEAD!TypeOK, ReadInv
<1> HIDE DEF n
<1>3. /\ aRead' \in Seq(Nat) /\ aLeftover' \in Seq(Nat)
      /\ Len(aRead') = Len(aRead) + m /\ Len(aLeftover') = n - m
      /\ aRead' = Run(0, Len(aRead'))
      /\ aLeftover' = Run(Len(aRead'), Len(aLeftover'))
      /\ Opened' = Len(aRead) + n
  BY <1>1, <1>2, Delivered
<1>4. Opened' = Opened
  BY <1>3 DEF Opened, n
<1>5. AEAD!TypeOK'
  <2>1. Len(aLeftover') < payloadSizeMask
    BY <1>2, <1>3, MaskIs
  <2> QED BY <1>1, <1>3, <2>1 DEF AEAD!TypeOK
<1>6. WireInv'
  BY <1>1, <1>4
     DEF WireInv, SizedInv, Sized, ChainInv, Follows, WriterInv, ReaderInv, Due, Upcoming
<1>7. ReadInv' /\ HurtInv'
  BY <1>1, <1>3, <1>4 DEF ReadInv, HurtInv
<1> QED BY <1>2, <1>3, <1>5, <1>6, <1>7

LEMMA ReadFailsIInv == ASSUME StreamIInv, AEAD!ReadFails PROVE StreamIInv'
BY DEF StreamIInv, AEAD!ReadFails, AEAD!writerVars, AEAD!TypeOK, WireInv, SizedInv, Sized,
       ChainInv, Follows, WriterInv, ReaderInv, Due, Upcoming, Opened, ReadInv, HurtInv

\* Every step keeps the invariant; a step of the reader only adds to what was
\* read, and no other step touches that.
LEMMA StreamStep ==
    ASSUME StreamIInv, AEAD!Next
    PROVE  /\ StreamIInv'
           /\ \/ aSent' = aSent /\ Len(aRead) <= Len(aRead')
              \/ aSent <= aSent' /\ aRead' = aRead
<1>1. Len(aRead) \in Nat /\ aSent \in Nat
  BY LenProperties DEF StreamIInv, AEAD!TypeOK
<1>2. CASE AEAD!WriteSalt
  BY <1>1, <1>2, WriteSaltIInv DEF AEAD!WriteSalt, AEAD!readerVars
<1>3. ASSUME NEW n \in 1..payloadSizeMask, AEAD!WriteRecord(n)
      PROVE  StreamIInv' /\ aSent <= aSent' /\ aRead' = aRead
  <2>1. StreamIInv'
    BY <1>3, WriteRecordIInv
  <2>2. aSent' = aSent + n /\ aRead' = aRead /\ n \in Nat
    BY <1>3, MaskIs DEF AEAD!WriteRecord, AEAD!readerVars
  <2> QED BY <1>1, <2>1, <2>2
<1>4. ASSUME NEW i \in 1..Len(aWire), AEAD!Damage(i)
      PROVE  StreamIInv' /\ aSent' = aSent /\ aRead' = aRead
  BY <1>4, DamageIInv DEF AEAD!Damage, AEAD!readerVars, AEAD!writerVars
<1>5. ASSUME NEW i \in 1..(Len(aWire) + 1), AEAD!Cut(i)
      PROVE  StreamIInv' /\ aSent' = aSent /\ aRead' = aRead
  BY <1>5, CutIInv DEF AEAD!Cut, AEAD!readerVars, AEAD!writerVars
<1>6. CASE AEAD!ReadSalt
  BY <1>1, <1>6, ReadSaltIInv DEF AEAD!ReadSalt, AEAD!writerVars
<1>10. CASE AEAD!ReadGarbled
  BY <1>1, <1>10, ReadGarbledIInv DEF AEAD!ReadGarbled, AEAD!writerVars
<1>7. CASE AEAD!ReadSize
  BY <1>1, <1>7, ReadSizeIInv DEF AEAD!ReadSize, AEAD!writerVars
<1>8. CASE AEAD!ReadFails
  BY <1>1, <1>8, ReadFailsIInv DEF AEAD!ReadFails, AEAD!writerVars
<1>9. ASSUME NEW m \in 1..payloadSizeMask, AEAD!ReadPayload(m) \/ AEAD!ReadLeftover(m)
      PROVE  StreamIInv' /\ aSent' = aSent /\ Len(aRead) <= Len(aRead')
  <2>1. aSent' = aSent
    BY <1>9 DEF AEAD!ReadPayload, AEAD!ReadLeftover, AEAD!writerVars
  <2> QED BY <1>9, <2>1, ReadPayloadIInv, ReadLeftoverIInv
<1> QED
  BY <1>1, <1>2, <1>3, <1>4, <1>5, <1>6, <1>7, <1>8, <1>9, <1>10 DEF AEAD!Next, AEAD!Reader

LEMMA StreamStutters == StreamIInv /\ UNCHANGED aVars => StreamIInv'
BY DEF aVars, StreamIInv, AEAD!TypeOK, WireInv, SizedInv, Sized, ChainInv, Follows,
       WriterInv, ReaderInv, Due, Upcoming, Opened, ReadInv, HurtInv

\* Such a step is one of ByteStream.
LEMMA StreamStepIsStep ==
    ASSUME StreamIInv, StreamIInv',
           \/ aSent' = aSent /\ Len(aRead) <= Len(aRead')
           \/ aSent <= aSent' /\ aRead' = aRead
    PROVE  AEAD!Stream!Write \/ AEAD!Stream!Read
<1>1. /\ aSent \in Nat /\ aSent' \in Nat /\ Len(aRead) \in Nat /\ Len(aRead') \in Nat
      /\ aRead' = Run(0, Len(aRead')) /\ Len(aRead') <= aSent'
  BY LenProperties DEF StreamIInv, AEAD!TypeOK, ReadInv, Opened
<1>2. [j \in 1..aSent |-> j] = Run(0, aSent) /\ [j \in 1..aSent' |-> j] = Run(0, aSent')
  BY <1>1, Written
<1>3. CASE aSent' = aSent /\ Len(aRead) <= Len(aRead')
  <2>1. aRead' = SubSeq(Run(0, aSent), 1, Len(aRead'))
    BY <1>1, <1>3, RunsExtend
  <2>2. Len(aRead') \in Len(aRead)..Len(Run(0, aSent))
    BY <1>1, <1>3, RunIs
  <2> QED BY <1>2, <1>3, <2>1, <2>2 DEF AEAD!Stream!Read
<1>4. CASE aSent <= aSent' /\ aRead' = aRead
  <2>1. /\ Run(0, aSent') \in Seq(Nat)
        /\ Len(Run(0, aSent)) <= Len(Run(0, aSent'))
        /\ SubSeq(Run(0, aSent'), 1, Len(Run(0, aSent))) = Run(0, aSent)
    BY <1>1, <1>4, RunIs, RunsExtend
  <2> QED BY <1>2, <1>4, <2>1 DEF AEAD!Stream!Write
<1> QED BY <1>3, <1>4

----------------------------------------------------------------------------
(* The stream cipher. *)

\* The IV has been sent.
Started == sW.set /\ sFrom \notin {"first", "EOF"}

\* Both ends and every byte on the wire stand at their place in the keystream.
KeystreamInv ==
    /\ sW.place = sSent
    /\ ~Started => sSent = 0 /\ sWire = <<>> /\ sR.step # "set"
    /\ sR.iv
    /\ sR.step = "nil" =>
         /\ sR.place = 0
         /\ \A i \in 1..Len(sWire) : sWire[i].place = i - 1 /\ sWire[i].byte = i - 1
         /\ Len(sWire) <= sSent + 1
         /\ Started /\ sLink = "up" => Len(sWire) = sSent + 1
    /\ sR.step = "set" =>
         /\ \A i \in 1..Len(sWire) :
              sWire[i].place = sR.place + i /\ sWire[i].byte = sR.place + i
         /\ sR.place + Len(sWire) <= sSent
         /\ sLink = "up" => sR.place + Len(sWire) = sSent
    /\ sR.step = "error" => sLink = "cut"
    /\ sR.place <= sSent
    /\ sRead = Run(0, sR.place)

KeystreamIInv == Shadow!TypeOK /\ KeystreamInv

LEMMA KeystreamInit == Shadow!Init => KeystreamIInv
<1> SUFFICES ASSUME Shadow!Init PROVE KeystreamIInv
  OBVIOUS
<1>1. sRead = Run(0, 0) /\ sWire = <<>> /\ Len(sWire) = 0
  BY RunIs, Empty, EmptySeq DEF Shadow!Init
<1>2. Shadow!TypeOK
  <2>1. /\ sWire \in Seq([place : Nat, byte : Nat]) /\ sRead \in Seq(Nat)
    BY EmptySeq DEF Shadow!Init
  <2>2. /\ sW \in [set : BOOLEAN, place : Nat]
        /\ sR \in [step : {"nil", "set", "error"}, iv : BOOLEAN, place : Nat]
    BY DEF Shadow!Init
  <2>3. /\ sFrom = "no" /\ sSent = 0 /\ sLink = "up"
    BY DEF Shadow!Init
  <2> QED BY <2>1, <2>2, <2>3 DEF Shadow!TypeOK
<1>3. KeystreamInv
  <2>1. /\ sW.place = 0 /\ ~sW.set /\ sFrom = "no" /\ sSent = 0 /\ sLink = "up"
        /\ sR.step = "nil" /\ sR.iv /\ sR.place = 0
    BY DEF Shadow!Init
  <2> QED BY <1>1, <2>1 DEF KeystreamInv, Started
<1> QED BY <1>2, <1>3 DEF KeystreamIInv

\* What is put on the wire continues what is there: the IV is the first of all.
LEMMA PutIInv ==
    ASSUME KeystreamIInv, NEW iv \in BOOLEAN, NEW n \in 1..connBufSize, Shadow!Put(iv, n),
           iv <=> ~Started, Started',
           sFrom' \in {"no", "loop"}
    PROVE  KeystreamIInv' /\ sSent <= sSent' /\ sRead' = sRead
<1> DEFINE L == Len(sWire)
           Bytes == [place : Nat, byte : Nat]
           first == [place |-> Shadow!IV, byte |-> Shadow!IV]
           back == Shadow!Cipher(n)
<1>1. /\ sWire \in Seq(Bytes) /\ L \in Nat /\ sSent \in Nat /\ n \in Nat
      /\ sR \in [step : {"nil", "set", "error"}, iv : BOOLEAN, place : Nat]
      /\ sRead \in Seq(Nat) /\ sW.place = sSent
  BY SizesAssumption, LenProperties DEF KeystreamIInv, Shadow!TypeOK, KeystreamInv
<1>2. /\ sLink = "up" /\ sLink' = "up"
      /\ sWire' = sWire \o (IF iv THEN <<first>> ELSE <<>>) \o back
      /\ sW' = [set |-> TRUE, place |-> sW.place + n]
      /\ sSent' = sSent + n
      /\ UNCHANGED <<sR, sRead>>
  BY DEF Shadow!Put, Shadow!readerVars
<1>3. /\ back \in Seq(Bytes) /\ Len(back) = n
      /\ \A j \in 1..n : back[j].place = sSent + j /\ back[j].byte = sSent + j
  BY <1>1 DEF Shadow!Cipher
<1>4. first \in Bytes /\ first.place = 0 /\ first.byte = 0
  BY DEF Shadow!IV
<1> HIDE DEF first, back, Bytes
<1>5. /\ sSent' \in Nat /\ sSent <= sSent' /\ sR.place <= sSent' /\ sW'.place = sSent'
      /\ sW' \in [set : BOOLEAN, place : Nat] /\ sW'.set
  <2>1. sW' = [set |-> TRUE, place |-> sSent + n] /\ sSent + n \in Nat
    BY <1>1, <1>2
  <2>2. sR.place <= sSent /\ sR.place \in Nat
    BY <1>1 DEF KeystreamIInv, KeystreamInv
  <2> QED BY <1>1, <1>2, <2>1, <2>2
<1>6. /\ sR.step # "error" /\ sR.iv /\ sRead = Run(0, sR.place)
      /\ iv => sR.step = "nil" /\ sSent = 0 /\ sWire = <<>>
  BY <1>1, <1>2 DEF KeystreamIInv, KeystreamInv
<1>7. sSent' = sSent + n /\ sLink' = "up" /\ sR' = sR /\ sRead' = sRead
  BY <1>2
<1>8. CASE iv
  <2>1. sWire' = <<first>> \o back
    <3>1. <<>> \o <<first>> = <<first>>
      BY <1>4, ConcatEmptySeq
    <3> QED BY <1>2, <1>6, <1>8, <3>1
  <2>2. /\ sWire' \in Seq(Bytes) /\ Len(sWire') = n + 1
        /\ \A i \in 1..(n + 1) : sWire'[i] = IF i <= 1 THEN first ELSE back[i - 1]
    <3>1. <<first>> \in Seq(Bytes) /\ Len(<<first>>) = 1 /\ <<first>>[1] = first
      BY <1>4
    <3> QED BY <1>1, <1>3, <2>1, <3>1, ConcatProperties
  <2>3. \A i \in 1..(n + 1) : sWire'[i].place = i - 1 /\ sWire'[i].byte = i - 1
    <3> TAKE i \in 1..(n + 1)
    <3>1. CASE i = 1
      BY <1>1, <1>4, <2>2, <3>1
    <3>2. CASE i > 1
      <4>1. i - 1 \in 1..n /\ sWire'[i] = back[i - 1]
        BY <1>1, <2>2, <3>2
      <4> QED BY <1>3, <1>6, <1>8, <4>1
    <3> QED BY <3>1, <3>2
  <2>4. Shadow!TypeOK'
    BY <1>1, <1>2, <1>5, <2>2 DEF Shadow!TypeOK, Bytes
  <2>5. sR.place = 0 /\ Len(sWire') = sSent' + 1
    BY <1>1, <1>2, <1>6, <1>8, <2>2 DEF KeystreamIInv, KeystreamInv
  <2>6. KeystreamInv'
    BY <1>2, <1>5, <1>6, <1>8, <2>2, <2>3, <2>5 DEF KeystreamInv
  <2> QED BY <1>2, <1>5, <2>4, <2>6 DEF KeystreamIInv
<1>9. CASE ~iv
  <2>1. sWire' = sWire \o back
    <3>1. sWire \o <<>> = sWire
      BY <1>1, ConcatEmptySeq
    <3> QED BY <1>2, <1>9, <3>1
  <2>2. /\ sWire' \in Seq(Bytes) /\ Len(sWire') = L + n
        /\ \A i \in 1..(L + n) : sWire'[i] = IF i <= L THEN sWire[i] ELSE back[i - L]
    <3>1. back \in Seq(Bytes) /\ Len(back) = n /\ sWire \in Seq(Bytes)
      BY <1>1, <1>3
    <3> QED BY <2>1, <3>1, ConcatProperties
  <2> HIDE DEF L
  <2>3. \A i \in (L + 1)..(L + n) : /\ sWire'[i].place = sSent + (i - L)
                                   /\ sWire'[i].byte = sSent + (i - L)
    <3> TAKE i \in (L + 1)..(L + n)
    <3>1. i - L \in 1..n /\ sWire'[i] = back[i - L]
      BY <1>1, <2>2
    <3> QED BY <1>3, <3>1
  <2>4. \A i \in 1..L : sWire'[i] = sWire[i]
    BY <1>1, <2>2
  <2>5. Shadow!TypeOK'
    BY <1>1, <1>2, <1>5, <2>2 DEF Shadow!TypeOK, Bytes
  <2>6. Started
    BY <1>9
  <2>7. ASSUME sR.step = "nil" PROVE KeystreamInv'
    <3>1. /\ sR.place = 0 /\ L = sSent + 1
          /\ \A i \in 1..L : sWire[i].place = i - 1 /\ sWire[i].byte = i - 1
      BY <1>2, <2>6, <2>7 DEF KeystreamIInv, KeystreamInv, L
    <3>2. \A i \in 1..(L + n) : sWire'[i].place = i - 1 /\ sWire'[i].byte = i - 1
      <4> TAKE i \in 1..(L + n)
      <4>1. CASE i \in 1..L
        BY <2>4, <3>1, <4>1
      <4>2. CASE i \in (L + 1)..(L + n)
        <5>1. sSent + (i - L) = i - 1
          BY <1>1, <3>1, <4>2
        <5> QED BY <2>3, <4>2, <5>1
      <4> QED BY <1>1, <4>1, <4>2
    <3>3. Len(sWire') = L + n
      BY <2>2
    <3>4. Len(sWire') = sSent' + 1
      BY <1>1, <1>7, <3>1, <3>3
    <3>5. sR'.step = "nil" /\ sR'.place = 0 /\ sR'.iv /\ 0 <= sSent' /\ sRead' = Run(0, 0)
      <4>1. 0 <= sSent'
        BY <1>5
      <4> QED BY <1>6, <1>7, <2>7, <3>1, <4>1, Zenon
    <3>6. \A i \in 1..Len(sWire') : sWire'[i].place = i - 1 /\ sWire'[i].byte = i - 1
      BY <3>2, <3>3, Zenon
    <3>7. sW'.place = sSent' /\ Len(sWire') <= sSent' + 1
      <4>1. sSent' \in Nat /\ sW'.place = sSent'
        BY <1>5
      <4>2. PICK k \in Nat : k = sSent'
        BY <4>1
      <4>3. k + 1 <= k + 1
        OBVIOUS
      <4> QED BY <3>4, <4>1, <4>2, <4>3, Zenon
    <3> QED BY <3>4, <3>5, <3>6, <3>7 DEF KeystreamInv
  <2>8. ASSUME sR.step = "set" PROVE KeystreamInv'
    <3>1. PICK p \in Nat : p = sR.place
      BY <1>1
    <3>2. /\ p + L = sSent
          /\ \A i \in 1..L : sWire[i].place = p + i /\ sWire[i].byte = p + i
      BY <1>2, <2>8, <3>1 DEF KeystreamIInv, KeystreamInv, L
    <3>3. L \in Nat /\ sSent \in Nat /\ n \in Nat
      BY <1>1
    <3>4. \A i \in 1..(L + n) : sWire'[i].place = p + i /\ sWire'[i].byte = p + i
      <4> TAKE i \in 1..(L + n)
      <4>1. CASE i \in 1..L
        BY <2>4, <3>2, <4>1
      <4>2. CASE i \in (L + 1)..(L + n)
        <5>1. sSent + (i - L) = p + i
          BY <3>2, <3>3, <4>2
        <5> QED BY <2>3, <4>2, <5>1
      <4> QED BY <3>3, <4>1, <4>2
    <3>5. Len(sWire') = L + n
      BY <2>2
    <3>6. p + Len(sWire') = sSent'
      BY <1>7, <3>2, <3>3, <3>5
    <3>7. p <= sSent'
      BY <1>5, <3>1
    <3>8. sR'.step = "set" /\ sR'.place = p /\ sR'.iv /\ sRead' = Run(0, p)
      BY <1>6, <1>7, <2>8, <3>1, Zenon
    <3>9. \A i \in 1..Len(sWire') : sWire'[i].place = p + i /\ sWire'[i].byte = p + i
      BY <3>4, <3>5, Zenon
    <3>10. sW'.place = sSent' /\ p + Len(sWire') <= sSent'
      BY <1>5, <3>6
    <3> QED BY <3>6, <3>7, <3>8, <3>9, <3>10 DEF KeystreamInv
  <2>9. KeystreamInv'
    BY <1>1, <1>6, <2>7, <2>8
  <2> QED BY <1>2, <1>5, <2>5, <2>9 DEF KeystreamIInv
<1> QED BY <1>8, <1>9

\* Every write sends the IV if it has not been sent.
LEMMA WriterIInv ==
    ASSUME KeystreamIInv, NEW n \in 1..connBufSize,
           Shadow!Write(n) \/ Shadow!FromFirst(n) \/ Shadow!FromLoop(n)
    PROVE  KeystreamIInv' /\ sSent <= sSent' /\ sRead' = sRead
<1>1. Shadow!TypeOK
  BY DEF KeystreamIInv
<1>2. CASE Shadow!Write(n)
  <2>1. /\ sFrom = "no" /\ sFrom' = "no" /\ Shadow!Put(~sW.set, n) /\ sW'.set
    <3>1. sFrom = "no" /\ sFrom' = "no" /\ Shadow!Put(~sW.set, n)
      BY <1>2 DEF Shadow!Write
    <3>2. sW' = [set |-> TRUE, place |-> sW.place + n]
      BY <3>1 DEF Shadow!Put
    <3> QED BY <3>1, <3>2
  <2>2. (~sW.set <=> ~Started) /\ Started'
    BY <2>1 DEF Started
  <2> QED BY <2>1, <2>2, PutIInv
<1>3. CASE Shadow!FromFirst(n)
  <2>1. /\ sFrom = "first" /\ sFrom' = "loop" /\ Shadow!Put(TRUE, n) /\ sW'.set
    BY <1>3 DEF Shadow!FromFirst, Shadow!Put
  <2>2. (TRUE <=> ~Started) /\ Started'
    BY <2>1 DEF Started
  <2> QED BY <2>1, <2>2, PutIInv
<1>4. CASE Shadow!FromLoop(n)
  <2>1. /\ sFrom = "loop" /\ sFrom' = "loop" /\ Shadow!Put(FALSE, n) /\ sW'.set
    BY <1>4 DEF Shadow!FromLoop, Shadow!Put
  <2>2. (FALSE <=> ~Started) /\ Started'
    BY <1>1, <2>1 DEF Started, Shadow!TypeOK
  <2> QED BY <2>1, <2>2, PutIInv
<1> QED BY <1>2, <1>3, <1>4

LEMMA FromIInv ==
    ASSUME KeystreamIInv, Shadow!FromStart \/ Shadow!FromFirstEOF \/ Shadow!FromEOF
    PROVE  KeystreamIInv' /\ sSent' = sSent /\ sRead' = sRead
<1>1. /\ UNCHANGED <<sSent, sWire, sLink, sR, sRead>>
      /\ sFrom' \in {"first", "loop", "nil", "EOF"}
      /\ Started' <=> Started
      /\ sW' \in [set : BOOLEAN, place : Nat] /\ sW'.place = sW.place
      /\ sFrom' \in {"loop", "nil"} => sW'.set
  <2>1. sW \in [set : BOOLEAN, place : Nat]
    BY DEF KeystreamIInv, Shadow!TypeOK
  <2>2. CASE Shadow!FromStart
    <3>1. sW' = [sW EXCEPT !.set = TRUE]
      BY <2>2 DEF Shadow!FromStart
    <3>2. sW' \in [set : BOOLEAN, place : Nat] /\ sW'.place = sW.place /\ sW'.set
      BY <2>1, <3>1
    <3>3. sFrom = "no" /\ sFrom' = IF sW.set THEN "loop" ELSE "first"
      BY <2>2 DEF Shadow!FromStart
    <3>4. Started' <=> Started
      BY <3>2, <3>3 DEF Started
    <3> QED BY <2>2, <3>2, <3>3, <3>4 DEF Shadow!FromStart, Shadow!readerVars
  <2>3. CASE Shadow!FromFirstEOF
    <3>1. sFrom = "first" /\ sFrom' = "EOF" /\ UNCHANGED <<sW, sSent, sWire, sLink, sR, sRead>>
      BY <2>3 DEF Shadow!FromFirstEOF, Shadow!readerVars
    <3> QED BY <2>1, <3>1 DEF Started
  <2>4. CASE Shadow!FromEOF
    <3>1. sFrom = "loop" /\ sFrom' = "nil" /\ UNCHANGED <<sW, sSent, sWire, sLink, sR, sRead>>
      BY <2>4 DEF Shadow!FromEOF, Shadow!readerVars
    <3> QED BY <2>1, <3>1 DEF Started, KeystreamIInv, Shadow!TypeOK
  <2> QED BY <2>2, <2>3, <2>4
<1>2. Shadow!TypeOK'
  BY <1>1 DEF KeystreamIInv, Shadow!TypeOK
<1>3. KeystreamInv'
  BY <1>1 DEF KeystreamIInv, KeystreamInv
<1> QED BY <1>1, <1>2, <1>3 DEF KeystreamIInv

LEMMA KeystreamCutIInv ==
    ASSUME KeystreamIInv, NEW i \in 1..(Len(sWire) + 1), Shadow!Cut(i)
    PROVE  KeystreamIInv' /\ sSent' = sSent /\ sRead' = sRead
<1>1. /\ sLink = "up" /\ sLink' = "cut" /\ sWire' = SubSeq(sWire, 1, i - 1)
      /\ UNCHANGED <<sW, sFrom, sSent, sR, sRead>>
  BY DEF Shadow!Cut, Shadow!writerVars, Shadow!readerVars
<1>2. /\ sWire \in Seq([place : Nat, byte : Nat]) /\ Len(sWire) \in Nat
      /\ i - 1 \in 0..Len(sWire) /\ i - 1 \in Nat
      /\ sR.place \in Nat /\ sSent \in Nat
  BY LenProperties DEF KeystreamIInv, Shadow!TypeOK
<1>3. /\ sWire' \in Seq([place : Nat, byte : Nat]) /\ Len(sWire') = i - 1
      /\ \A j \in 1..(i - 1) : sWire'[j] = sWire[j] /\ j \in 1..Len(sWire)
  <2>1. /\ SubSeq(sWire, 1, i - 1) \in Seq([place : Nat, byte : Nat])
        /\ Len(SubSeq(sWire, 1, i - 1)) = i - 1
        /\ \A j \in 1..(i - 1) : SubSeq(sWire, 1, i - 1)[j] = sWire[j]
    BY <1>2, PrefixIs
  <2>2. \A j \in 1..(i - 1) : j \in 1..Len(sWire)
    BY <1>2
  <2> QED BY <1>1, <2>1, <2>2
<1>4. sWire = <<>> => sWire' = <<>>
  BY <1>2, <1>3, Empty
<1>5. Shadow!TypeOK'
  BY <1>1, <1>3 DEF KeystreamIInv, Shadow!TypeOK
<1>6. Started' <=> Started
  BY <1>1 DEF Started
<1>7. KeystreamInv'
  <2>1. ASSUME sR.step = "nil"
        PROVE  /\ \A j \in 1..Len(sWire') : sWire'[j].place = j - 1 /\ sWire'[j].byte = j - 1
               /\ Len(sWire') <= sSent + 1
    <3>1. /\ \A j \in 1..Len(sWire) : sWire[j].place = j - 1 /\ sWire[j].byte = j - 1
          /\ Len(sWire) <= sSent + 1
      BY <2>1 DEF KeystreamIInv, KeystreamInv
    <3>2. \A j \in 1..(i - 1) : sWire'[j].place = j - 1 /\ sWire'[j].byte = j - 1
      BY <1>3, <3>1, Zenon
    <3>3. Len(sWire') <= Len(sWire)
      BY <1>2, <1>3
    <3> QED BY <1>2, <1>3, <3>1, <3>2, <3>3
  <2>2. ASSUME sR.step = "set"
        PROVE  /\ \A j \in 1..Len(sWire') :
                    sWire'[j].place = sR.place + j /\ sWire'[j].byte = sR.place + j
               /\ sR.place + Len(sWire') <= sSent
    <3>1. /\ \A j \in 1..Len(sWire) :
               sWire[j].place = sR.place + j /\ sWire[j].byte = sR.place + j
          /\ sR.place + Len(sWire) <= sSent
      BY <2>2 DEF KeystreamIInv, KeystreamInv
    <3>2. \A j \in 1..(i - 1) : sWire'[j].place = sR.place + j /\ sWire'[j].byte = sR.place + j
      BY <1>3, <3>1, Zenon
    <3>3. Len(sWire') <= Len(sWire)
      BY <1>2, <1>3
    <3> QED BY <1>2, <1>3, <3>1, <3>2, <3>3
  <2> QED BY <1>1, <1>4, <1>6, <2>1, <2>2 DEF KeystreamIInv, KeystreamInv
<1> QED BY <1>1, <1>5, <1>7 DEF KeystreamIInv

\* The first on the wire is the IV, which puts the reader in step.
LEMMA ReadIVIInv ==
    ASSUME KeystreamIInv, Shadow!ReadIV
    PROVE  KeystreamIInv' /\ sSent' = sSent /\ sRead' = sRead
<1>1. /\ sR.step = "nil" /\ sWire # <<>> /\ sWire' = Tail(sWire)
      /\ sR' = [sR EXCEPT !.step = "set", !.iv = Head(sWire).place = 0]
      /\ UNCHANGED <<sW, sFrom, sSent, sLink, sRead>>
  BY DEF Shadow!ReadIV, Shadow!writerVars, Shadow!IV
<1>2. /\ sWire \in Seq([place : Nat, byte : Nat]) /\ Len(sWire) \in Nat /\ Len(sWire) > 0
      /\ sR \in [step : {"nil", "set", "error"}, iv : BOOLEAN, place : Nat]
      /\ sSent \in Nat /\ Head(sWire) = sWire[1]
  <2>1. sWire \in Seq([place : Nat, byte : Nat]) /\ Len(sWire) \in Nat
    BY LenProperties DEF KeystreamIInv, Shadow!TypeOK
  <2>2. Len(sWire) # 0
    BY <1>1, <2>1, Empty
  <2> QED BY <2>1, <2>2 DEF KeystreamIInv, Shadow!TypeOK
<1>3. /\ sWire' \in Seq([place : Nat, byte : Nat]) /\ Len(sWire') = Len(sWire) - 1
      /\ \A i \in 1..(Len(sWire) - 1) : sWire'[i] = sWire[i + 1]
  BY <1>1, <1>2, HeadTailProperties
<1>4. /\ Started /\ sR.place = 0 /\ sRead = Run(0, 0)
      /\ \A i \in 1..Len(sWire) : sWire[i].place = i - 1 /\ sWire[i].byte = i - 1
      /\ Len(sWire) <= sSent + 1 /\ (sLink = "up" => Len(sWire) = sSent + 1)
  BY <1>1 DEF KeystreamIInv, KeystreamInv
<1>5. Head(sWire).place = 0
  BY <1>2, <1>4
<1>6. sR' = [step |-> "set", iv |-> TRUE, place |-> 0]
  BY <1>1, <1>2, <1>4, <1>5
<1>7. Shadow!TypeOK'
  BY <1>1, <1>3, <1>6 DEF KeystreamIInv, Shadow!TypeOK
<1>8. KeystreamInv'
  <2>1. \A i \in 1..Len(sWire') : sWire'[i].place = 0 + i /\ sWire'[i].byte = 0 + i
    <3> TAKE i \in 1..Len(sWire')
    <3>1. i \in 1..(Len(sWire) - 1) /\ i + 1 \in 1..Len(sWire) /\ i + 1 - 1 = 0 + i
      BY <1>2, <1>3
    <3>2. sWire'[i] = sWire[i + 1]
      BY <1>3, <3>1
    <3> QED BY <1>4, <3>1, <3>2
  <2>2. 0 + Len(sWire') <= sSent /\ (sLink = "up" => 0 + Len(sWire') = sSent) /\ 0 <= sSent
    BY <1>2, <1>3, <1>4
  <2>3. Started' /\ sW.place = sSent
    BY <1>1, <1>4 DEF Started, KeystreamIInv, KeystreamInv
  <2>4. /\ sR'.step = "set" /\ sR'.place = 0 /\ sR'.iv
    BY <1>6
  <2> QED BY <1>1, <1>4, <2>1, <2>2, <2>3, <2>4 DEF KeystreamInv
<1> QED BY <1>1, <1>7, <1>8 DEF KeystreamIInv

\* Bytes taken off at their place come out as they were written.
LEMMA ReadBytesIInv ==
    ASSUME KeystreamIInv, NEW n \in 1..connBufSize, Shadow!ReadBytes(n)
    PROVE  KeystreamIInv' /\ sSent' = sSent /\ Len(sRead) <= Len(sRead')
<1> DEFINE L == Len(sWire)
           front == SubSeq(sWire, 1, n)
<1>1. /\ sR.step = "set" /\ n <= L
      /\ sRead' = sRead \o Shadow!Plain(front)
      /\ sR' = [sR EXCEPT !.place = @ + n]
      /\ sWire' = SubSeq(sWire, n + 1, L)
      /\ UNCHANGED <<sW, sFrom, sSent, sLink>>
  BY DEF Shadow!ReadBytes, Shadow!writerVars
<1>2. /\ sWire \in Seq([place : Nat, byte : Nat]) /\ L \in Nat /\ n \in 1..L /\ n \in Nat
      /\ sR \in [step : {"nil", "set", "error"}, iv : BOOLEAN, place : Nat]
      /\ sSent \in Nat
  BY <1>1, SizesAssumption, LenProperties DEF KeystreamIInv, Shadow!TypeOK
<1>3. PICK p \in Nat : p = sR.place
  BY <1>2
<1>4. /\ Started /\ sR.iv /\ sW.place = sSent /\ sRead = Run(0, p)
      /\ \A i \in 1..L : sWire[i].place = p + i /\ sWire[i].byte = p + i
      /\ p + L <= sSent /\ (sLink = "up" => p + L = sSent)
  BY <1>1, <1>3 DEF KeystreamIInv, KeystreamInv
<1>5. \A i \in 1..L : sWire[i] \in [place : Nat, byte : Nat]
  BY <1>2, ElementOfSeq
<1> HIDE DEF L
<1>6. Len(front) = n /\ \A i \in 1..n : front[i] = sWire[i] /\ i \in 1..L
  <2>1. \A i \in 1..n : i \in 1..L
    BY <1>2
  <2> QED BY <1>2, <1>5, <2>1, SubSeqProperties DEF L
<1>7. Shadow!Plain(front) = Run(p, n)
  <2>1. \A i \in 1..n : front[i].place = sR.place + i /\ front[i].byte = p + i
    BY <1>3, <1>4, <1>6
  <2> QED BY <1>4, <1>6, <2>1 DEF Shadow!Plain, Run
<1>8. sRead' = Run(0, p + n) /\ p + n \in Nat /\ Len(sRead) = p /\ Len(sRead') = p + n
  <2>1. Run(0, p) \o Run(0 + p, n) = Run(0, p + n)
    BY <1>2, RunsJoin, Zenon
  <2>2. 0 + p = p /\ p + n \in Nat
    BY <1>2
  <2>3. sRead' = Run(0, p + n)
    BY <1>1, <1>4, <1>7, <2>1, <2>2, Zenon
  <2> QED BY <1>4, <2>2, <2>3, RunIs
<1>9. /\ sWire' \in Seq([place : Nat, byte : Nat]) /\ Len(sWire') = L - n
      /\ \A i \in 1..(L - n) : sWire'[i] = sWire[n + i] /\ n + i \in 1..L
  <2>1. \A i \in (n + 1)..L : sWire[i] \in [place : Nat, byte : Nat] /\ i \in 1..L
    BY <1>2, <1>5
  <2>2. /\ sWire' \in Seq([place : Nat, byte : Nat]) /\ Len(sWire') = L - n
        /\ \A i \in 1..(L - n) : sWire'[i] = sWire[n + i]
    <3>1. PICK m \in Int : m = n + 1
      BY <1>2
    <3>2. \A i \in m..L : sWire[i] \in [place : Nat, byte : Nat]
      BY <2>1, <3>1
    <3>3. /\ sWire' \in Seq([place : Nat, byte : Nat])
          /\ Len(sWire') = IF m <= L THEN L - m + 1 ELSE 0
          /\ \A i \in 1..(L - m + 1) : sWire'[i] = sWire[m + i - 1]
      <4>1. sWire' = SubSeq(sWire, m, L) /\ L \in Int
        BY <1>1, <1>2, <3>1 DEF L
      <4>2. /\ SubSeq(sWire, m, L) \in Seq([place : Nat, byte : Nat])
            /\ Len(SubSeq(sWire, m, L)) = IF m <= L THEN L - m + 1 ELSE 0
            /\ \A i \in 1..(L - m + 1) : SubSeq(sWire, m, L)[i] = sWire[m + i - 1]
        <5> HIDE DEF L
        <5> QED BY <3>2, <4>1, SubSeqProperties
      <4> QED BY <4>1, <4>2, Zenon
    <3>4. L - m + 1 = L - n /\ \A i \in 1..(L - n) : m + i - 1 = n + i
      BY <1>2, <3>1
    <3>5. Len(sWire') = L - n
      BY <1>2, <3>1, <3>3
    <3> QED BY <3>3, <3>4, <3>5
  <2> QED BY <1>2, <2>2
<1>10. sR' = [step |-> "set", iv |-> TRUE, place |-> p + n]
  BY <1>1, <1>2, <1>3, <1>4
<1>11. Shadow!TypeOK'
  <2>1. sRead' \in Seq(Nat)
    BY <1>2, <1>8, RunIs
  <2>2. sR' \in [step : {"nil", "set", "error"}, iv : BOOLEAN, place : Nat]
    BY <1>8, <1>10
  <2> QED BY <1>1, <1>9, <2>1, <2>2 DEF KeystreamIInv, Shadow!TypeOK
<1>12. KeystreamInv'
  <2>1. \A i \in 1..Len(sWire') : sWire'[i].place = (p + n) + i /\ sWire'[i].byte = (p + n) + i
    <3> TAKE i \in 1..Len(sWire')
    <3>1. i \in 1..(L - n) /\ n + i \in 1..L /\ p + (n + i) = (p + n) + i
      BY <1>2, <1>9
    <3>2. sWire'[i] = sWire[n + i]
      BY <1>9, <3>1
    <3> QED BY <1>4, <3>1, <3>2
  <2>2. /\ (p + n) + Len(sWire') <= sSent /\ p + n <= sSent
        /\ sLink = "up" => (p + n) + Len(sWire') = sSent
    BY <1>2, <1>4, <1>9
  <2>3. Started' /\ sW'.place = sSent'
    BY <1>1, <1>4 DEF Started
  <2>4. /\ sR'.step = "set" /\ sR'.place = p + n /\ sR'.iv
    BY <1>10
  <2> QED BY <1>1, <1>8, <2>1, <2>2, <2>3, <2>4 DEF KeystreamInv
<1>13. Len(sRead) <= Len(sRead')
  BY <1>2, <1>8
<1> QED BY <1>1, <1>11, <1>12, <1>13 DEF KeystreamIInv

LEMMA KeystreamFailsIInv ==
    ASSUME KeystreamIInv, Shadow!ReadFails
    PROVE  KeystreamIInv' /\ sSent' = sSent /\ sRead' = sRead
<1>1. /\ sLink = "cut" /\ sR' = [sR EXCEPT !.step = "error"]
      /\ UNCHANGED <<sW, sFrom, sSent, sWire, sLink, sRead>>
  BY DEF Shadow!ReadFails, Shadow!writerVars
<1>2. sR \in [step : {"nil", "set", "error"}, iv : BOOLEAN, place : Nat]
  BY DEF KeystreamIInv, Shadow!TypeOK
<1>3. sR' \in [step : {"nil", "set", "error"}, iv : BOOLEAN, place : Nat]
  BY <1>1, <1>2
<1>4. sR'.step = "error" /\ sR'.iv = sR.iv /\ sR'.place = sR.place
  BY <1>1, <1>2
<1>5. Shadow!TypeOK'
  BY <1>1, <1>3 DEF KeystreamIInv, Shadow!TypeOK
<1>6. KeystreamInv'
  BY <1>1, <1>4 DEF KeystreamIInv, KeystreamInv, Started
<1> QED BY <1>1, <1>5, <1>6 DEF KeystreamIInv

\* Every step keeps the invariant, as one of the writer, of the line or of the
\* reader.
LEMMA KeystreamStep ==
    ASSUME KeystreamIInv, Shadow!Next
    PROVE  /\ KeystreamIInv'
           /\ \/ sSent' = sSent /\ Len(sRead) <= Len(sRead')
              \/ sSent <= sSent' /\ sRead' = sRead
<1>1. Len(sRead) \in Nat /\ sSent \in Nat
  BY LenProperties DEF KeystreamIInv, Shadow!TypeOK
<1>2. ASSUME NEW n \in Shadow!Rounds,
             Shadow!Write(n) \/ Shadow!FromFirst(n) \/ Shadow!FromLoop(n)
      PROVE  KeystreamIInv' /\ sSent <= sSent' /\ sRead' = sRead
  <2>1. n \in 1..connBufSize
    BY DEF Shadow!Rounds
  <2> QED BY <1>2, <2>1, WriterIInv
<1>3. CASE Shadow!FromStart \/ Shadow!FromFirstEOF \/ Shadow!FromEOF
  BY <1>1, <1>3, FromIInv
<1>4. ASSUME NEW i \in 1..(Len(sWire) + 1), Shadow!Cut(i)
      PROVE  KeystreamIInv' /\ sSent' = sSent /\ sRead' = sRead
  BY <1>4, KeystreamCutIInv
<1>5. ASSUME NEW n \in 1..connBufSize, Shadow!ReadBytes(n)
      PROVE  KeystreamIInv' /\ sSent' = sSent /\ Len(sRead) <= Len(sRead')
  BY <1>5, ReadBytesIInv
<1>6. CASE Shadow!ReadIV
  BY <1>1, <1>6, ReadIVIInv
<1>7. CASE Shadow!ReadFails
  BY <1>1, <1>7, KeystreamFailsIInv
<1> QED BY <1>1, <1>2, <1>3, <1>4, <1>5, <1>6, <1>7 DEF Shadow!Next

LEMMA KeystreamStutters == KeystreamIInv /\ UNCHANGED sVars => KeystreamIInv'
BY DEF sVars, KeystreamIInv, Shadow!TypeOK, KeystreamInv, Started

\* Such a step is one of ByteStream.
LEMMA KeystreamStepIsStep ==
    ASSUME KeystreamIInv, KeystreamIInv',
           \/ sSent' = sSent /\ Len(sRead) <= Len(sRead')
           \/ sSent <= sSent' /\ sRead' = sRead
    PROVE  Shadow!Stream!Write \/ Shadow!Stream!Read
<1>1. PICK k \in Nat, k1 \in Nat : k = sR.place /\ k1 = sR'.place
  BY DEF KeystreamIInv, Shadow!TypeOK
<1>2. /\ sSent \in Nat /\ sSent' \in Nat /\ sRead = Run(0, k) /\ sRead' = Run(0, k1)
      /\ k1 <= sSent' /\ Len(sRead) = k /\ Len(sRead') = k1
  <2>1. sRead = Run(0, k) /\ sRead' = Run(0, k1) /\ k1 <= sSent'
    BY <1>1 DEF KeystreamIInv, KeystreamInv
  <2>2. sSent \in Nat /\ sSent' \in Nat
    BY DEF KeystreamIInv, Shadow!TypeOK
  <2> QED BY <2>1, <2>2, RunIs
<1>3. [j \in 1..sSent |-> j] = Run(0, sSent) /\ [j \in 1..sSent' |-> j] = Run(0, sSent')
  BY <1>2, Written
<1>4. CASE sSent' = sSent /\ Len(sRead) <= Len(sRead')
  <2>1. sRead' = SubSeq(Run(0, sSent), 1, k1)
    BY <1>2, <1>4, RunsExtend
  <2>2. k1 \in Len(sRead)..Len(Run(0, sSent))
    BY <1>2, <1>4, RunIs
  <2> QED BY <1>3, <1>4, <2>1, <2>2 DEF Shadow!Stream!Read
<1>5. CASE sSent <= sSent' /\ sRead' = sRead
  <2>1. /\ Run(0, sSent') \in Seq(Nat)
        /\ Len(Run(0, sSent)) <= Len(Run(0, sSent'))
        /\ SubSeq(Run(0, sSent'), 1, Len(Run(0, sSent))) = Run(0, sSent)
    BY <1>2, <1>5, RunIs, RunsExtend
  <2> QED BY <1>3, <1>5, <2>1 DEF Shadow!Stream!Write
<1> QED BY <1>4, <1>5

----------------------------------------------------------------------------
(* The datagrams. *)

\* The Overhead of the cipher that was picked.
Sealing == IF cipher = "stream" THEN 0 ELSE Overhead

PacketLen(n) == Salt + n + Sealing

\* Only the holder of the lock packs and sends what it packed.
BufferInv ==
    /\ \A g \in Writers : pCall[g].step \in {"pack", "write"} <=> pHolder = g
    /\ \A g \in Writers : pCall[g].step # "idle" => pCall[g].len \in Lengths
    /\ \A g \in Writers :
         pCall[g].step = "write" => pBuf = [of |-> g, len |-> PacketLen(pCall[g].len)]

\* A packet on the way is whole, and of a length that a caller gave.
PacketInv ==
    /\ pSent.packet = [of |-> pSent.by, len |-> pSent.len]
    /\ pSent.by # Nobody => \E n \in Lengths : pSent.len = PacketLen(n)

\* Nothing has moved before the choice.
UntouchedInv ==
    cipher = "none" =>
        /\ \A g \in Writers : pCall[g].step = "idle"
        /\ pSent.by = Nobody /\ pGot.of = Nobody

PacketIInv == AEADPacket!TypeOK /\ BufferInv /\ PacketInv /\ ReadIsWhole /\ UntouchedInv

\* The steps and the lengths of a WriteTo.
Calls == [step : {"idle", "lock", "pack", "write"}, len : Lengths \cup {0}]

LEMMA PacketSizes ==
    /\ Salt \in Nat /\ Salt > 0 /\ Sealing \in Nat /\ packetConnBufSize \in Nat
    /\ ReadBuf \in Nat /\ Lengths \subseteq Nat /\ Overhead \in Nat /\ Overhead > 0
    /\ \A n \in Lengths \cup {0} : PacketLen(n) \in Nat
<1>1. /\ Salt \in Nat /\ Salt > 0 /\ packetConnBufSize \in Nat
      /\ ReadBuf \in Nat /\ Lengths \subseteq Nat /\ Overhead \in Nat /\ Overhead > 0
  BY SizesAssumption
<1>2. Sealing \in Nat
  BY <1>1 DEF Sealing
<1>3. \A n \in Lengths \cup {0} : PacketLen(n) \in Nat
  BY <1>1, <1>2 DEF PacketLen
<1> QED BY <1>1, <1>2, <1>3

LEMMA PacketInit == Init => PacketIInv
<1> SUFFICES ASSUME Init PROVE PacketIInv
  OBVIOUS
<1>1. /\ pCall = [g \in Writers |-> [step |-> "idle", len |-> 0]]
      /\ pHolder = Nobody
      /\ pBuf = [of |-> Nobody, len |-> 0]
      /\ pSent = [by |-> Nobody, len |-> 0, packet |-> [of |-> Nobody, len |-> 0]]
      /\ pGot = [error |-> FALSE, of |-> Nobody, len |-> 0]
  BY DEF Init, AEADPacket!Init, AEADPacket!Nothing
<1>2. \A g \in Writers : pCall[g].step = "idle" /\ pHolder # g
  BY <1>1, SizesAssumption
<1>3. AEADPacket!TypeOK
  <2>1. pCall \in [Writers -> Calls]
    BY <1>1 DEF Calls
  <2>2. pBuf \in AEADPacket!Packets /\ pBuf.len <= packetConnBufSize
    BY <1>1, PacketSizes DEF AEADPacket!Packets
  <2>3. pSent \in [by : Writers \cup {Nobody}, len : Nat, packet : AEADPacket!Packets]
    BY <1>1 DEF AEADPacket!Packets
  <2>4. pGot \in [error : BOOLEAN, of : Writers \cup {Nobody}, len : 0..ReadBuf]
    BY <1>1, PacketSizes
  <2> QED BY <1>1, <2>1, <2>2, <2>3, <2>4 DEF AEADPacket!TypeOK, Calls
<1>4. BufferInv
  BY <1>2 DEF BufferInv
<1>5. PacketInv /\ ReadIsWhole /\ UntouchedInv
  BY <1>1, <1>2 DEF PacketInv, ReadIsWhole, AEADPacket!ReadIsWhole, UntouchedInv
<1> QED BY <1>3, <1>4, <1>5 DEF PacketIInv

\* What the calls do to one another: a step of g's call, of which the buffer
\* and the lock tell.
LEMMA BeginIInv ==
    ASSUME PacketIInv, NEW g \in Writers, NEW n \in Lengths, AEADPacket!Begin(g, n),
           cipher # "none", cipher' = cipher
    PROVE  PacketIInv'
<1>1. /\ pCall[g].step = "idle" /\ pCall' = [pCall EXCEPT ![g] = [step |-> "lock", len |-> n]]
      /\ UNCHANGED <<pHolder, pBuf, pSent, pGot>>
  BY DEF AEADPacket!Begin
<1>2. pCall \in [Writers -> Calls] /\ pCall' \in [Writers -> Calls]
  BY <1>1 DEF PacketIInv, AEADPacket!TypeOK, Calls
<1>3. \A h \in Writers : IF h = g THEN pCall'[h] = [step |-> "lock", len |-> n]
                                   ELSE pCall'[h] = pCall[h]
  BY <1>1, <1>2
<1>4. AEADPacket!TypeOK'
  BY <1>1, <1>2 DEF PacketIInv, AEADPacket!TypeOK, Calls
<1>5. BufferInv'
  BY <1>1, <1>3 DEF PacketIInv, BufferInv, PacketLen, Sealing
<1>6. PacketInv' /\ ReadIsWhole' /\ UntouchedInv'
  BY <1>1
     DEF PacketIInv, PacketInv, PacketLen, Sealing, ReadIsWhole, AEADPacket!ReadIsWhole,
         UntouchedInv
<1> QED BY <1>4, <1>5, <1>6 DEF PacketIInv

LEMMA LockIInv ==
    ASSUME PacketIInv, NEW g \in Writers, AEADPacket!Lock(g),
           cipher # "none", cipher' = cipher
    PROVE  PacketIInv'
<1>1. /\ pCall[g].step = "lock" /\ pHolder = Nobody /\ pHolder' = g
      /\ pCall' = [pCall EXCEPT ![g].step = "pack"]
      /\ UNCHANGED <<pBuf, pSent, pGot>>
  BY DEF AEADPacket!Lock
<1>2. pCall \in [Writers -> Calls] /\ pCall' \in [Writers -> Calls]
  BY <1>1 DEF PacketIInv, AEADPacket!TypeOK, Calls
<1>3. \A h \in Writers : IF h = g THEN pCall'[h].step = "pack" /\ pCall'[h].len = pCall[h].len
                                   ELSE pCall'[h] = pCall[h]
  BY <1>1, <1>2 DEF Calls
<1>4. AEADPacket!TypeOK'
  BY <1>1, <1>2 DEF PacketIInv, AEADPacket!TypeOK, Calls
<1>5. BufferInv'
  BY <1>1, <1>3, SizesAssumption DEF PacketIInv, BufferInv, PacketLen, Sealing
<1>6. PacketInv' /\ ReadIsWhole' /\ UntouchedInv'
  BY <1>1
     DEF PacketIInv, PacketInv, PacketLen, Sealing, ReadIsWhole, AEADPacket!ReadIsWhole,
         UntouchedInv
<1> QED BY <1>4, <1>5, <1>6 DEF PacketIInv

LEMMA PackShortIInv ==
    ASSUME PacketIInv, NEW g \in Writers, AEADPacket!PackShort(g) \/ ShadowPacket!PackShort(g),
           cipher # "none", cipher' = cipher
    PROVE  PacketIInv'
<1>1. /\ pCall[g].step = "pack" /\ pHolder' = Nobody
      /\ pCall' = [pCall EXCEPT ![g].step = "idle"]
      /\ UNCHANGED <<pBuf, pSent, pGot>>
  BY DEF AEADPacket!PackShort, ShadowPacket!PackShort
<1>2. pCall \in [Writers -> Calls] /\ pCall' \in [Writers -> Calls]
  BY <1>1 DEF PacketIInv, AEADPacket!TypeOK, Calls
<1>3. \A h \in Writers : IF h = g THEN pCall'[h].step = "idle" ELSE pCall'[h] = pCall[h]
  BY <1>1, <1>2 DEF Calls
<1>4. AEADPacket!TypeOK'
  BY <1>1, <1>2 DEF PacketIInv, AEADPacket!TypeOK, Calls
<1>5. BufferInv'
  BY <1>1, <1>3, SizesAssumption DEF PacketIInv, BufferInv, PacketLen, Sealing
<1>6. PacketInv' /\ ReadIsWhole' /\ UntouchedInv'
  BY <1>1
     DEF PacketIInv, PacketInv, PacketLen, Sealing, ReadIsWhole, AEADPacket!ReadIsWhole,
         UntouchedInv
<1> QED BY <1>4, <1>5, <1>6 DEF PacketIInv

LEMMA PackIInv ==
    ASSUME PacketIInv, NEW g \in Writers,
           \/ cipher = "aead" /\ AEADPacket!Pack(g)
           \/ cipher = "stream" /\ ShadowPacket!Pack(g),
           cipher' = cipher
    PROVE  PacketIInv'
<1> DEFINE len == PacketLen(pCall[g].len)
<1>1. /\ pCall[g].step = "pack" /\ packetConnBufSize >= len
      /\ pBuf' = [of |-> g, len |-> len]
      /\ pCall' = [pCall EXCEPT ![g].step = "write"]
      /\ UNCHANGED <<pHolder, pSent, pGot>>
  BY DEF AEADPacket!Pack, ShadowPacket!Pack, PacketLen, Sealing
<1>2. pCall \in [Writers -> Calls] /\ pCall' \in [Writers -> Calls]
  BY <1>1 DEF PacketIInv, AEADPacket!TypeOK, Calls
<1>3. \A h \in Writers : IF h = g THEN pCall'[h].step = "write" /\ pCall'[h].len = pCall[h].len
                                   ELSE pCall'[h] = pCall[h]
  BY <1>1, <1>2 DEF Calls
<1>4. len \in Nat /\ len <= packetConnBufSize
  <2>1. pCall[g].len \in Lengths \cup {0}
    BY <1>2 DEF Calls
  <2>2. len \in Nat
    BY <2>1, PacketSizes
  <2> QED BY <1>1, <2>2, PacketSizes
<1>5. AEADPacket!TypeOK'
  <2>1. pBuf' \in AEADPacket!Packets /\ pBuf'.len <= packetConnBufSize
    BY <1>1, <1>4 DEF AEADPacket!Packets
  <2> QED BY <1>1, <1>2, <2>1 DEF PacketIInv, AEADPacket!TypeOK, Calls
<1>6. BufferInv'
  <2>1. pHolder = g
    BY <1>1 DEF PacketIInv, BufferInv
  <2>2. \A h \in Writers : h # g => pCall'[h].step \notin {"pack", "write"}
    BY <1>3, <2>1 DEF PacketIInv, BufferInv
  <2>3. \A h \in Writers : pCall'[h].step \in {"pack", "write"} <=> pHolder' = h
    BY <1>1, <1>3, <2>1, <2>2
  <2>4. \A h \in Writers : pCall'[h].step # "idle" => pCall'[h].len \in Lengths
    BY <1>1, <1>3 DEF PacketIInv, BufferInv
  <2>5. \A h \in Writers :
          pCall'[h].step = "write" => pBuf' = [of |-> h, len |-> PacketLen(pCall'[h].len)]
    BY <1>1, <1>3, <2>2
  <2> QED BY <2>3, <2>4, <2>5 DEF BufferInv, PacketLen, Sealing
<1>7. PacketInv' /\ ReadIsWhole' /\ UntouchedInv'
  BY <1>1
     DEF PacketIInv, PacketInv, PacketLen, Sealing, ReadIsWhole, AEADPacket!ReadIsWhole,
         UntouchedInv
<1> QED BY <1>5, <1>6, <1>7 DEF PacketIInv

\* buf still holds the writer's own packet.
LEMMA WriteIInv ==
    ASSUME PacketIInv, NEW g \in Writers,
           \/ cipher = "aead" /\ AEADPacket!Write(g)
           \/ cipher = "stream" /\ ShadowPacket!Write(g),
           cipher' = cipher
    PROVE  PacketIInv'
<1> DEFINE len == PacketLen(pCall[g].len)
<1>1. /\ pCall[g].step = "write" /\ pHolder' = Nobody
      /\ pSent' = [by |-> g, len |-> len, packet |-> pBuf]
      /\ pCall' = [pCall EXCEPT ![g].step = "idle"]
      /\ UNCHANGED <<pBuf, pGot>>
  BY DEF AEADPacket!Write, ShadowPacket!Write, PacketLen, Sealing
<1>2. pCall \in [Writers -> Calls] /\ pCall' \in [Writers -> Calls]
  BY <1>1 DEF PacketIInv, AEADPacket!TypeOK, Calls
<1>3. \A h \in Writers : IF h = g THEN pCall'[h].step = "idle" ELSE pCall'[h] = pCall[h]
  BY <1>1, <1>2 DEF Calls
<1>4. pCall[g].len \in Lengths /\ len \in Nat /\ pBuf = [of |-> g, len |-> len]
  BY <1>1, PacketSizes DEF PacketIInv, BufferInv
<1>5. AEADPacket!TypeOK'
  <2>1. pSent' \in [by : Writers \cup {Nobody}, len : Nat, packet : AEADPacket!Packets]
    BY <1>1, <1>4 DEF PacketIInv, AEADPacket!TypeOK
  <2> QED BY <1>1, <1>2, <2>1 DEF PacketIInv, AEADPacket!TypeOK, Calls
<1>6. BufferInv'
  <2>1. pHolder = g
    BY <1>1 DEF PacketIInv, BufferInv
  <2>2. \A h \in Writers : pCall'[h].step \notin {"pack", "write"} /\ pHolder' # h
    BY <1>1, <1>3, <2>1, SizesAssumption DEF PacketIInv, BufferInv
  <2>3. \A h \in Writers : pCall'[h].step # "idle" => pCall'[h].len \in Lengths
    BY <1>3 DEF PacketIInv, BufferInv
  <2> QED BY <2>2, <2>3 DEF BufferInv
<1>7. PacketInv'
  <2>1. pSent'.packet = [of |-> pSent'.by, len |-> pSent'.len] /\ pSent'.len = len
    BY <1>1, <1>4
  <2> QED BY <1>4, <2>1 DEF PacketInv, PacketLen, Sealing
<1>8. ReadIsWhole' /\ UntouchedInv'
  BY <1>1 DEF PacketIInv, ReadIsWhole, AEADPacket!ReadIsWhole, UntouchedInv
<1> QED BY <1>5, <1>6, <1>7, <1>8 DEF PacketIInv

\* A packet that was cut off does not open under an AEAD, so what is read is
\* all of it.
LEMMA ReadFromIInv ==
    ASSUME PacketIInv,
           \/ cipher = "aead" /\ AEADPacket!ReadFrom
           \/ cipher = "stream" /\ ShadowPacket!ReadFrom,
           cipher' = cipher
    PROVE  PacketIInv'
<1> DEFINE p == pSent.packet
           n == IF p.len <= ReadBuf THEN p.len ELSE ReadBuf
<1>1. /\ pGot' = IF n < Salt + Sealing \/ (Sealing > 0 /\ n < p.len)
                   THEN [error |-> TRUE, of |-> Nobody, len |-> 0]
                   ELSE [error |-> FALSE, of |-> p.of, len |-> n - Salt - Sealing]
      /\ UNCHANGED <<pCall, pHolder, pBuf, pSent>>
  BY DEF AEADPacket!ReadFrom, ShadowPacket!ReadFrom, AEADPacket!Unpacked,
         ShadowPacket!Unpacked, Sealing
<1>2. /\ p.len \in Nat /\ p.of \in Writers \cup {Nobody} /\ n \in 0..ReadBuf /\ n <= p.len
      /\ p.of = pSent.by /\ p.len = pSent.len
  <2>1. p \in [of : Writers \cup {Nobody}, len : Nat]
    BY DEF PacketIInv, AEADPacket!TypeOK, AEADPacket!Packets
  <2>2. p = [of |-> pSent.by, len |-> pSent.len]
    BY DEF PacketIInv, PacketInv
  <2> QED BY <2>1, <2>2, PacketSizes
<1>3. pGot' \in [error : BOOLEAN, of : Writers \cup {Nobody}, len : 0..ReadBuf]
  <2>1. CASE n < Salt + Sealing \/ (Sealing > 0 /\ n < p.len)
    BY <1>1, <2>1, PacketSizes
  <2>2. CASE ~(n < Salt + Sealing \/ (Sealing > 0 /\ n < p.len))
    <3>1. n - Salt - Sealing \in 0..ReadBuf
      BY <1>2, <2>2, PacketSizes
    <3> QED BY <1>1, <1>2, <2>2, <3>1
  <2> QED BY <2>1, <2>2
<1>4. ReadIsWhole'
  <2> SUFFICES ASSUME cipher # "stream", pGot'.of # Nobody PROVE pGot'.len \in Lengths
    BY DEF ReadIsWhole, AEADPacket!ReadIsWhole
  <2>1. /\ ~(n < Salt + Sealing \/ (Sealing > 0 /\ n < p.len))
        /\ pGot'.of = p.of /\ pGot'.len = n - Salt - Sealing
    BY <1>1
  <2>2. Sealing > 0
    BY PacketSizes DEF Sealing
  <2>3. n = pSent.len
    BY <1>2, <2>1, <2>2, PacketSizes
  <2>4. PICK m \in Lengths : pSent.len = Salt + m + Sealing
    BY <1>2, <2>1 DEF PacketIInv, PacketInv, PacketLen
  <2>5. n - Salt - Sealing = m
    <3>1. m \in Nat
      BY PacketSizes
    <3> QED BY <2>3, <2>4, <3>1, PacketSizes
  <2> QED BY <2>1, <2>5
<1>5. AEADPacket!TypeOK'
  BY <1>1, <1>3 DEF PacketIInv, AEADPacket!TypeOK
<1>6. BufferInv' /\ PacketInv' /\ UntouchedInv'
  BY <1>1 DEF PacketIInv, BufferInv, PacketInv, UntouchedInv, PacketLen, Sealing
<1> QED BY <1>4, <1>5, <1>6 DEF PacketIInv

LEMMA PacketStep == ASSUME PacketIInv, PacketConn PROVE PacketIInv'
<1>1. cipher' = cipher /\ cipher # "none"
  BY DEF PacketConn, pick
<1>2. CASE cipher = "aead" /\ AEADPacket!Next
  BY <1>1, <1>2, BeginIInv, LockIInv, PackShortIInv, PackIInv, WriteIInv, ReadFromIInv
     DEF AEADPacket!Next, AEADPacket!WriteTo
<1>3. CASE cipher = "stream" /\ ShadowPacket!Next
  <2>1. ASSUME NEW g \in Writers, NEW n \in Lengths, ShadowPacket!Begin(g, n)
        PROVE  AEADPacket!Begin(g, n)
    BY <2>1 DEF ShadowPacket!Begin, AEADPacket!Begin
  <2>2. ASSUME NEW g \in Writers, ShadowPacket!Lock(g) PROVE AEADPacket!Lock(g)
    BY <2>2 DEF ShadowPacket!Lock, AEADPacket!Lock
  <2> QED
    BY <1>1, <1>3, <2>1, <2>2, BeginIInv, LockIInv, PackShortIInv, PackIInv, WriteIInv,
       ReadFromIInv DEF ShadowPacket!Next, ShadowPacket!WriteTo
<1> QED BY <1>2, <1>3 DEF PacketConn

LEMMA PacketStutters ==
    PacketIInv /\ UNCHANGED <<cipher, pVars>> => PacketIInv'
BY DEF pVars, PacketIInv, AEADPacket!TypeOK, BufferInv, PacketInv, ReadIsWhole,
       AEADPacket!ReadIsWhole, UntouchedInv, PacketLen, Sealing

\* Before the choice nothing was packed: the length of a packet may change.
LEMMA PacketPick == ASSUME PacketIInv, Pick PROVE PacketIInv'
<1>1. cipher = "none" /\ UNCHANGED pVars
  BY DEF Pick
<1>2. AEADPacket!TypeOK'
  BY <1>1 DEF pVars, PacketIInv, AEADPacket!TypeOK
<1>3. BufferInv' /\ PacketInv'
  BY <1>1 DEF pVars, PacketIInv, BufferInv, PacketInv, UntouchedInv
<1>4. ReadIsWhole' /\ UntouchedInv'
  BY <1>1 DEF pVars, PacketIInv, UntouchedInv, ReadIsWhole, AEADPacket!ReadIsWhole
<1> QED BY <1>2, <1>3, <1>4 DEF PacketIInv

----------------------------------------------------------------------------
(* The choice, and all of it together. *)

LEMMA SizesByName ==
    /\ \A n \in DOMAIN aeadList : aeadList[n] \in Accepted(n) /\ n # "DUMMY"
    /\ \A n \in DOMAIN streamList : streamList[n] \in Accepted(n) /\ n # "DUMMY"
<1>1. /\ DOMAIN aeadList = {"AEAD_AES_128_GCM", "AEAD_AES_192_GCM", "AEAD_AES_256_GCM",
                            "AEAD_CHACHA20_POLY1305"}
      /\ aeadList["AEAD_AES_128_GCM"] = 16 /\ aeadList["AEAD_AES_192_GCM"] = 24
      /\ aeadList["AEAD_AES_256_GCM"] = 32 /\ aeadList["AEAD_CHACHA20_POLY1305"] = 32
  BY DEF aeadList
<1>2. /\ DOMAIN streamList = {"AES-128-CTR", "AES-128-CFB", "AES-192-CTR", "AES-192-CFB",
                              "AES-256-CTR", "AES-256-CFB", "CHACHA20", "CHACHA20-IETF",
                              "XCHACHA20"}
      /\ \A n \in DOMAIN streamList : streamList[n] \in {16, 24, 32}
      /\ \A n \in {"CHACHA20", "CHACHA20-IETF", "XCHACHA20"} : streamList[n] = 32
  BY DEF streamList
<1>3. \A n \in DOMAIN aeadList : aeadList[n] \in Accepted(n) /\ n # "DUMMY"
  BY <1>1 DEF Accepted
<1>4. \A n \in DOMAIN streamList : streamList[n] \in Accepted(n) /\ n # "DUMMY"
  BY <1>2 DEF Accepted
<1> QED BY <1>3, <1>4

\* Of every key, not only of those in Keys.
LEMMA KeySuits ==
    \A n, k :
        LET c == Canonical(n)
            size == IF c \in DOMAIN aeadList THEN aeadList[c] ELSE streamList[c]
        IN  c \in ListCipher =>
              PickCipher(n, k) =
                 IF k \in {0, size}
                   THEN IF c \in DOMAIN aeadList THEN "aead" ELSE "stream"
                   ELSE "error"
<1> SUFFICES ASSUME NEW n, NEW k, NEW c, c = Canonical(n), c \in ListCipher,
                    NEW size,
                    size = IF c \in DOMAIN aeadList THEN aeadList[c] ELSE streamList[c]
             PROVE  PickCipher(n, k) =
                      IF k \in {0, size}
                        THEN IF c \in DOMAIN aeadList THEN "aead" ELSE "stream"
                        ELSE "error"
  OBVIOUS
<1>1. CASE c \in DOMAIN aeadList
  <2>1. PickCipher(n, k) = Choose("aead", c, size, k)
    BY <1>1, SizesByName DEF PickCipher
  <2> QED BY <1>1, <2>1, SizesByName DEF Choose
<1>2. CASE c \notin DOMAIN aeadList
  <2>1. PickCipher(n, k) = Choose("stream", c, size, k)
    BY <1>2, SizesByName DEF PickCipher, ListCipher
  <2> QED BY <1>2, <2>1, SizesByName DEF Choose, ListCipher
<1> QED BY <1>1, <1>2

LEMMA PickIs == \A n, k : PickCipher(n, k) \in {"aead", "stream", "dummy", "error"}
BY DEF PickCipher, Choose

IInv == TypeOK /\ StreamIInv /\ KeystreamIInv /\ PacketIInv

LEMMA InitIInv == Init => IInv
<1> SUFFICES ASSUME Init PROVE IInv
  OBVIOUS
<1>1. StreamIInv /\ KeystreamIInv /\ PacketIInv
  BY StreamInit, KeystreamInit, PacketInit DEF Init
<1>2. TypeOK
  BY <1>1 DEF Init, TypeOK, StreamIInv, KeystreamIInv, PacketIInv
<1> QED BY <1>1, <1>2 DEF IInv

\* What a step may do to the bytes written and read of a connection.
OneEnd(sent, read, sent1, read1) ==
    \/ sent1 = sent /\ Len(read) <= Len(read1)
    \/ sent <= sent1 /\ read1 = read

LEMMA StepIInv ==
    ASSUME IInv, Next
    PROVE  /\ IInv'
           /\ OneEnd(aSent, aRead, aSent', aRead')
           /\ OneEnd(sSent, sRead, sSent', sRead')
<1>1. /\ aSent \in Nat /\ Len(aRead) \in Nat /\ sSent \in Nat /\ Len(sRead) \in Nat
  BY LenProperties DEF IInv, StreamIInv, AEAD!TypeOK, KeystreamIInv, Shadow!TypeOK
<1>2. ASSUME UNCHANGED aVars PROVE StreamIInv' /\ OneEnd(aSent, aRead, aSent', aRead')
  <2>1. StreamIInv'
    BY <1>2, StreamStutters DEF IInv
  <2>2. aSent' = aSent /\ aRead' = aRead
    BY <1>2 DEF aVars
  <2> QED BY <1>1, <2>1, <2>2 DEF OneEnd
<1>3. ASSUME UNCHANGED sVars PROVE KeystreamIInv' /\ OneEnd(sSent, sRead, sSent', sRead')
  <2>1. KeystreamIInv'
    BY <1>3, KeystreamStutters DEF IInv
  <2>2. sSent' = sSent /\ sRead' = sRead
    BY <1>3 DEF sVars
  <2> QED BY <1>1, <2>1, <2>2 DEF OneEnd
<1>4. ASSUME StreamIInv', KeystreamIInv', PacketIInv',
             cipher' \in {"none", "aead", "stream", "dummy", "error"}, use' = use
      PROVE  IInv'
  BY <1>4 DEF IInv, TypeOK, StreamIInv, KeystreamIInv, PacketIInv
<1>5. CASE Pick
  <2>1. cipher' \in {"none", "aead", "stream", "dummy", "error"} /\ use' = use
    BY <1>5, PickIs DEF Pick
  <2>2. UNCHANGED aVars /\ UNCHANGED sVars
    BY <1>5 DEF Pick
  <2>3. PacketIInv'
    BY <1>5, PacketPick DEF IInv
  <2> QED BY <1>2, <1>3, <1>4, <2>1, <2>2, <2>3
<1>6. ASSUME UNCHANGED pick PROVE /\ cipher' = cipher /\ use' = use
                                  /\ cipher' \in {"none", "aead", "stream", "dummy", "error"}
  BY <1>6 DEF pick, IInv, TypeOK
<1>7. CASE AEADConn
  <2>1. AEAD!Next /\ UNCHANGED pick /\ UNCHANGED sVars /\ UNCHANGED pVars
    BY <1>7 DEF AEADConn
  <2>2. StreamIInv' /\ OneEnd(aSent, aRead, aSent', aRead')
    BY <2>1, StreamStep DEF IInv, OneEnd
  <2>3. PacketIInv'
    BY <1>6, <2>1, PacketStutters DEF IInv
  <2> QED BY <1>3, <1>4, <1>6, <2>1, <2>2, <2>3
<1>8. CASE ShadowConn
  <2>1. Shadow!Next /\ UNCHANGED pick /\ UNCHANGED aVars /\ UNCHANGED pVars
    BY <1>8 DEF ShadowConn
  <2>2. KeystreamIInv' /\ OneEnd(sSent, sRead, sSent', sRead')
    BY <2>1, KeystreamStep DEF IInv, OneEnd
  <2>3. PacketIInv'
    BY <1>6, <2>1, PacketStutters DEF IInv
  <2> QED BY <1>2, <1>4, <1>6, <2>1, <2>2, <2>3
<1>9. CASE PacketConn
  <2>1. UNCHANGED pick /\ UNCHANGED aVars /\ UNCHANGED sVars
    BY <1>9 DEF PacketConn
  <2>2. PacketIInv'
    BY <1>9, PacketStep DEF IInv
  <2> QED BY <1>2, <1>3, <1>4, <1>6, <2>1, <2>2
<1> QED BY <1>5, <1>7, <1>8, <1>9 DEF Next

LEMMA StutterIInv ==
    ASSUME IInv, UNCHANGED vars
    PROVE  IInv' /\ UNCHANGED <<aSent, aRead, sSent, sRead>>
<1>1. /\ UNCHANGED aVars /\ UNCHANGED sVars /\ UNCHANGED <<cipher, pVars>>
      /\ cipher' = cipher /\ use' = use
  BY DEF vars, pick
<1>2. StreamIInv' /\ KeystreamIInv' /\ PacketIInv'
  BY <1>1, StreamStutters, KeystreamStutters, PacketStutters DEF IInv
<1>3. TypeOK'
  BY <1>1, <1>2 DEF IInv, TypeOK, StreamIInv, KeystreamIInv, PacketIInv
<1> QED BY <1>1, <1>2, <1>3 DEF IInv, aVars, sVars

THEOREM Invariance == Spec => []IInv
<1>1. Init => IInv
  BY InitIInv
<1>2. IInv /\ [Next]_vars => IInv'
  BY StepIInv, StutterIInv
<1> QED BY <1>1, <1>2, PTL DEF Spec

\* Every variable keeps its type, whichever cipher was picked.
THEOREM TypeCorrect == Spec => []TypeOK
<1>1. IInv => TypeOK
  BY DEF IInv
<1> QED BY <1>1, Invariance, PTL

\* A listed name, or an alias of one, gives a cipher of its kind with the
\* password or with a key of its size; another key gives an error
\* (cipher.go:91-130).  Keys may be any set of sizes.
THEOREM KeySuitsCipher == Spec => []PickedSuitsKey
<1>1. PickedSuitsKey
  BY KeySuits DEF PickedSuitsKey
<1> QED BY <1>1, PTL

\* An AEAD connection that was neither cut nor damaged does not fail, however
\* many records there are and wherever the reader is (stream.go:94-124).
THEOREM IntactDoesNotFail == Spec => []IntactNeverFails
<1>1. IInv => IntactNeverFails
  BY DEF IInv, StreamIInv, HurtInv, IntactNeverFails, AEAD!IntactNeverFails
<1> QED BY <1>1, Invariance, PTL

\* A copier sends its own packet, however many share the packetConn's buffer
\* (packet.go:73-81).
THEOREM OwnPacketIsSent == Spec => []SentIsOwn
<1>1. IInv => SentIsOwn
  BY DEF IInv, PacketIInv, PacketInv, SentIsOwn, AEADPacket!SentIsOwn
<1> QED BY <1>1, Invariance, PTL

\* Under an AEAD a datagram is read whole or not at all (packet.go:53-57,
\* :86-95).
THEOREM WholePacketIsRead == Spec => []ReadIsWhole
<1>1. IInv => ReadIsWhole
  BY DEF IInv, PacketIInv
<1> QED BY <1>1, Invariance, PTL

\* An AEAD connection implements ByteStream, cut or damaged or neither: what
\* is read is a prefix of what was written (stream.go:127-180).
THEOREM AEADImplements == Spec => AEADImplementsByteStream
<1>1. Init => AEAD!Stream!Init
  <2> SUFFICES ASSUME Init PROVE AEAD!Stream!Init
    OBVIOUS
  <2>1. aSent = 0 /\ aRead = <<>>
    BY DEF Init, AEAD!Init
  <2>2. [j \in 1..0 |-> j] = <<>>
    BY Written, RunIs, Empty
  <2> QED BY <2>1, <2>2 DEF AEAD!Stream!Init
<1>2. IInv /\ [Next]_vars
        => [AEAD!Stream!Write \/ AEAD!Stream!Read]_<<[j \in 1..aSent |-> j], aRead>>
  <2>1. CASE IInv /\ Next
    <3>1. StreamIInv /\ StreamIInv' /\ OneEnd(aSent, aRead, aSent', aRead')
      BY <2>1, StepIInv DEF IInv
    <3> QED BY <3>1, StreamStepIsStep DEF OneEnd
  <2>2. CASE IInv /\ UNCHANGED vars
    BY <2>2, StutterIInv
  <2> QED BY <2>1, <2>2
<1> QED
  BY <1>1, <1>2, Invariance, PTL
     DEF Spec, AEADImplementsByteStream, AEAD!ImplementsByteStream, AEAD!Stream!Spec

\* So does a connection under a stream cipher: both ends keep to the same
\* place of the same keystream (stream.go:62-71, :162-216).
THEOREM ShadowImplements == Spec => ShadowImplementsByteStream
<1>1. Init => Shadow!Stream!Init
  <2> SUFFICES ASSUME Init PROVE Shadow!Stream!Init
    OBVIOUS
  <2>1. sSent = 0 /\ sRead = <<>>
    BY DEF Init, Shadow!Init
  <2>2. [j \in 1..0 |-> j] = <<>>
    BY Written, RunIs, Empty
  <2> QED BY <2>1, <2>2 DEF Shadow!Stream!Init
<1>2. IInv /\ [Next]_vars
        => [Shadow!Stream!Write \/ Shadow!Stream!Read]_<<[j \in 1..sSent |-> j], sRead>>
  <2>1. CASE IInv /\ Next
    <3>1. KeystreamIInv /\ KeystreamIInv' /\ OneEnd(sSent, sRead, sSent', sRead')
      BY <2>1, StepIInv DEF IInv
    <3> QED BY <3>1, KeystreamStepIsStep DEF OneEnd
  <2>2. CASE IInv /\ UNCHANGED vars
    BY <2>2, StutterIInv
  <2> QED BY <2>1, <2>2
<1> QED
  BY <1>1, <1>2, Invariance, PTL
     DEF Spec, ShadowImplementsByteStream, Shadow!ImplementsByteStream, Shadow!Stream!Spec
==============================================================================
