------------------------- MODULE HttpRequestProofs -------------------------
(***************************************************************************)
(* What the HTTP server reads.                                             *)
(*                                                                         *)
(* The first part is the receiving side of a connection under any user     *)
(* code: OnTrack may call Conn.Read with slices of any length, any number  *)
(* of times, and the connection may be closed at any moment.               *)
(*                                                                         *)
(* The second is OnTrack of the HTTP server.  Its cursor, the number of    *)
(* tokens it has taken from the bufio.Reader, never goes back, and where   *)
(* the requests begin in the peer's stream is known (FlattenLemmas): a     *)
(* request whose own line was parsed is read in step with the stream, up   *)
(* to the last byte of its body.                                           *)
(***************************************************************************)
EXTENDS HttpRequest, FlattenLemmas

\* The peer, the handler of the descriptor, and an OnTrack of which nothing is known.
ReadNext ==
  \/ Arrive \/ ReadFromFd \/ TrackDone \/ CloseRead
  \/ \E len \in Nat : Read(len)

ReadSpec == RInit /\ [][ReadNext]_rvars

\* Type correctness.
ReadTypeOK ==
  /\ arrived \in Nat /\ tracking \in BOOLEAN /\ open \in BOOLEAN
  /\ kernel \in Seq(Nat) /\ InBuffer \in Seq(Nat) /\ Buffer \in Seq(Nat)
  /\ consumed \in Seq(Nat)

\* What OnTrack may still read.
Current == IF tracking THEN Buffer ELSE <<>>

\* Together the parts are the stream; a closed connection has nothing left to read.
StreamInv ==
  /\ IsPrefix(consumed, Numbers(arrived))
  /\ open => consumed \o (InBuffer \o (Current \o kernel)) = Numbers(arrived)
  /\ ~open => InBuffer = <<>> /\ Buffer = <<>>

ReadInv == ReadTypeOK /\ StreamInv

-----------------------------------------------------------------------------
(* Sequences *)

\* Concatenation of bytes is associative.
LEMMA BytesAssociate ==
  ASSUME NEW s \in Seq(Nat), NEW t \in Seq(Nat), NEW u \in Seq(Nat)
  PROVE  s \o (t \o u) = (s \o t) \o u
PROOF BY SMTT(30)

\* Bytes and bytes are bytes.
LEMMA BytesConcat ==
  ASSUME NEW s \in Seq(Nat), NEW t \in Seq(Nat)
  PROVE  s \o t \in Seq(Nat) /\ s \o <<>> = s /\ <<>> \o s = s
PROOF BY ConcatProperties, ConcatEmptySeq

\* Take and Drop cut a sequence in two.
LEMMA TakeDrop ==
  ASSUME NEW s \in Seq(Nat), NEW n \in Nat
  PROVE  /\ Take(s, n) \in Seq(Nat) /\ Drop(s, n) \in Seq(Nat)
         /\ Take(s, n) \o Drop(s, n) = s
         /\ Len(Take(s, n)) = Smaller(n, Len(s))
         /\ Len(s) <= n => Drop(s, n) = <<>> /\ Take(s, n) = s
         /\ n = 0 => Take(s, n) = <<>> /\ Drop(s, n) = s
PROOF
<1>1. PICK k \in Nat : k = Smaller(n, Len(s)) /\ k <= Len(s) /\ (Len(s) <= n => k = Len(s))
                       /\ (n = 0 => k = 0)
  <2>1. Len(s) \in Nat
    BY LenProperties
  <2> QED BY <2>1 DEF Smaller
<1>2. Take(s, n) = SubSeq(s, 1, k) /\ Drop(s, n) = SubSeq(s, k + 1, Len(s))
  BY <1>1 DEF Take, Drop
<1>3. SubSeq(s, 1, k) \in Seq(Nat) /\ Len(SubSeq(s, 1, k)) = k
  BY <1>1, SubSeqProperties, LenProperties, ElementOfSeq
<1>4. SubSeq(s, k + 1, Len(s)) \in Seq(Nat)
  BY <1>1, SubSeqProperties, LenProperties, ElementOfSeq
<1>5. SubSeq(s, 1, k) \o SubSeq(s, k + 1, Len(s)) = SubSeq(s, 1, Len(s))
  <2>1. /\ Len(s) \in Nat /\ 1 \in 1..(Len(s) + 1) /\ k \in (1 - 1)..Len(s)
        /\ Len(s) \in k..Len(s)
    BY <1>1, LenProperties
  <2> QED BY <2>1, ConcatAdjacentSubSeq
<1>6. SubSeq(s, 1, Len(s)) = s
  BY SubSeqFull
<1>7. Len(s) <= n => Drop(s, n) = <<>> /\ Take(s, n) = s
  <2>1. k = Len(s) => SubSeq(s, k + 1, Len(s)) = <<>>
    BY <1>1, SubSeqEmpty
  <2> QED BY <1>1, <1>2, <1>6, <2>1
<1>8. n = 0 => Take(s, n) = <<>> /\ Drop(s, n) = s
  <2>1. k = 0 => SubSeq(s, 1, k) = <<>>
    BY <1>1, SubSeqEmpty
  <2>2. k = 0 => k + 1 = 1
    OBVIOUS
  <2>3. k = 0 => SubSeq(s, k + 1, Len(s)) = s
    BY <1>6, <2>2, Zenon
  <2> QED BY <1>1, <1>2, <2>1, <2>3, Zenon
<1>9. /\ Take(s, n) \in Seq(Nat) /\ Drop(s, n) \in Seq(Nat)
      /\ Take(s, n) \o Drop(s, n) = s
  BY <1>2, <1>3, <1>4, <1>5, <1>6, ZenonT(40)
<1>10. Len(Take(s, n)) = Smaller(n, Len(s))
  BY <1>1, <1>2, <1>3
<1> QED BY <1>7, <1>8, <1>9, <1>10

\* The numbers of the bytes that have arrived.
LEMMA NumbersGrow ==
  ASSUME NEW n \in Nat
  PROVE  /\ Numbers(n) \in Seq(Nat) /\ Len(Numbers(n)) = n
         /\ Numbers(n + 1) = Append(Numbers(n), n + 1)
PROOF
<1>1. \A k \in Nat : Numbers(k) \in Seq(Nat) /\ Len(Numbers(k)) = k
  <2>1. ASSUME NEW k \in Nat PROVE Numbers(k) \in Seq(Nat) /\ Len(Numbers(k)) = k
    <3>1. \A i \in 1..k : i \in Nat
      OBVIOUS
    <3> QED BY <3>1, IsASeq DEF Numbers
  <2> QED BY <2>1
<1>2. PICK s, t : s = Numbers(n + 1) /\ t = Append(Numbers(n), n + 1)
  OBVIOUS
<1>3. s \in Seq(Nat) /\ t \in Seq(Nat) /\ Len(s) = Len(t) /\ Len(s) = n + 1
  BY <1>1, <1>2, AppendProperties
<1>4. \A i \in 1..(n + 1) : s[i] = t[i]
  <2>1. ASSUME NEW i \in 1..(n + 1) PROVE s[i] = t[i]
    <3>1. s[i] = i
      BY <1>2 DEF Numbers
    <3>2. PICK u \in Seq(Nat) : u = Numbers(n) /\ Len(u) = n
      BY <1>1
    <3>3. CASE i = n + 1
      BY <1>2, <3>1, <3>2, <3>3, AppendProperties
    <3>4. CASE i # n + 1
      <4>1. i \in 1..n
        BY <3>4
      <4>2. u[i] = i
        BY <3>2, <4>1 DEF Numbers
      <4>3. t[i] = u[i]
        BY <1>2, <3>2, <4>1, AppendProperties
      <4> QED BY <3>1, <4>2, <4>3
    <3> QED BY <3>3, <3>4
  <2> QED BY <2>1
<1>5. s = t
  BY <1>3, <1>4, SeqEqual, ZenonT(40)
<1> QED BY <1>1, <1>2, <1>5

\* The first part of a sequence is a prefix of it.
LEMMA FirstPart ==
  ASSUME NEW s \in Seq(Nat), NEW t \in Seq(Nat)
  PROVE  IsPrefix(s, s \o t)
PROOF
<1>1. Len(s) \in Nat /\ Len(t) \in Nat /\ Len(s \o t) = Len(s) + Len(t)
  BY LenProperties, ConcatProperties
<1>2. SubSeq(s, 1, Len(s)) = SubSeq(s \o t, 1, Len(s))
  <2>1. CASE Len(s) = 0
    BY <2>1, SubSeqEmpty
  <2>2. CASE Len(s) # 0
    <3>1. 1 \in 1..Len(s) /\ Len(s) \in 1..Len(s)
      BY <1>1, <2>2
    <3> QED BY <3>1, SubSeqOfConcat1
  <2> QED BY <2>1, <2>2
<1> QED BY <1>1, <1>2 DEF IsPrefix

\* A prefix is the first part of a sequence.
LEMMA PrefixIs ==
  ASSUME NEW s \in Seq(Nat), NEW t \in Seq(Nat), IsPrefix(s, t)
  PROVE  \E u \in Seq(Nat) : t = s \o u
PROOF
<1>1. Len(s) \in Nat /\ Len(t) \in Nat /\ Len(s) <= Len(t)
  BY LenProperties DEF IsPrefix
<1>2. SubSeq(t, 1, Len(s)) = s
  BY SubSeqFull DEF IsPrefix
<1>3. PICK u : u = SubSeq(t, Len(s) + 1, Len(t))
  OBVIOUS
<1>4. u \in Seq(Nat)
  BY <1>1, <1>3, SubSeqProperties, ElementOfSeq, SMTT(30)
<1>5. SubSeq(t, 1, Len(s)) \o u = SubSeq(t, 1, Len(t))
  <2>1. 1 \in 1..(Len(t) + 1) /\ Len(s) \in (1 - 1)..Len(t) /\ Len(t) \in Len(s)..Len(t)
    BY <1>1
  <2> QED BY <1>3, <2>1, ConcatAdjacentSubSeq
<1>6. SubSeq(t, 1, Len(t)) = t
  BY SubSeqFull
<1> QED BY <1>2, <1>4, <1>5, <1>6, ZenonT(40)

\* Parts of the stream.
Bytes4(s, t, u, v) == s \in Seq(Nat) /\ t \in Seq(Nat) /\ u \in Seq(Nat) /\ v \in Seq(Nat)
Bytes5(s, t, u, v, w) == Bytes4(s, t, u, v) /\ w \in Seq(Nat)

\* Bytes read from two buffers, and what is left: the second is read when the first
\* is empty.
Moves(c, n, m, i, b, k) ==
  Bytes4(c, n, m, i) /\ b \in Seq(Nat) /\ k \in Seq(Nat) /\ (m = <<>> \/ i = <<>>)

\* They are the next bytes of the stream.
Moved(c, n, m, i, b, k) ==
  /\ (c \o n) \o m \in Seq(Nat) /\ i \o (b \o k) \in Seq(Nat)
  /\ ((c \o n) \o m) \o (i \o (b \o k)) = c \o ((n \o i) \o ((m \o b) \o k))

\* The four parts of the stream, however they are bracketed.
LEMMA FourParts ==
  ASSUME NEW c, NEW i, NEW b, NEW k, Bytes4(c, i, b, k)
  PROVE  c \o (i \o (b \o k)) = ((c \o i) \o b) \o k
PROOF
<1>1. c \in Seq(Nat) /\ i \in Seq(Nat) /\ b \in Seq(Nat)
  BY DEF Bytes4, Bytes5
<1>2. k \in Seq(Nat)
  BY DEF Bytes4, Bytes5
<1>3. i \o (b \o k) = (i \o b) \o k
  BY <1>1, <1>2, BytesAssociate, ZenonT(40)
<1>4. PICK x : x = i \o b
  OBVIOUS
<1>5. x \in Seq(Nat)
  BY <1>1, <1>4, BytesConcat, Zenon
<1>6. c \o (x \o k) = (c \o x) \o k
  BY <1>1, <1>2, <1>5, BytesAssociate, ZenonT(40)
<1>7. c \o (i \o b) = (c \o i) \o b
  BY <1>1, BytesAssociate, ZenonT(40)
<1> QED BY <1>3, <1>4, <1>6, <1>7, Zenon

\* Bytes at the end of the last part are at the end of the stream.
LEMMA LastGrows ==
  ASSUME NEW c, NEW i, NEW b, NEW k, NEW e, Bytes5(c, i, b, k, e)
  PROVE  c \o (i \o (b \o (k \o e))) = (c \o (i \o (b \o k))) \o e
PROOF
<1>1. b \in Seq(Nat) /\ k \in Seq(Nat)
  BY DEF Bytes4, Bytes5
<1>2. PICK x : x = b \o k
  OBVIOUS
<1>3. x \in Seq(Nat)
  BY <1>1, <1>2, BytesConcat, Zenon
<1>4. e \in Seq(Nat)
  BY DEF Bytes4, Bytes5
<1>5. b \o (k \o e) = (b \o k) \o e
  BY <1>1, <1>4, BytesAssociate, ZenonT(40)
<1>6. i \in Seq(Nat) /\ c \in Seq(Nat)
  BY DEF Bytes4, Bytes5
<1>7. i \o (x \o e) = (i \o x) \o e
  BY <1>3, <1>4, <1>6, BytesAssociate, ZenonT(40)
<1>8. PICK y : y = i \o x
  OBVIOUS
<1>9. y \in Seq(Nat)
  BY <1>3, <1>6, <1>8, BytesConcat, Zenon
<1>10. c \o (y \o e) = (c \o y) \o e
  BY <1>4, <1>6, <1>9, BytesAssociate, ZenonT(40)
<1> QED BY <1>2, <1>5, <1>7, <1>8, <1>10, Zenon

\* Reading n from the first buffer, and m from the second when the first is empty,
\* moves the next bytes of the stream.
LEMMA ReadMoves ==
  ASSUME NEW c, NEW n, NEW m, NEW i, NEW b, NEW k, Moves(c, n, m, i, b, k)
  PROVE  Moved(c, n, m, i, b, k)
PROOF
<1>1. PICK x, y : x = b \o k /\ y = c \o n
  OBVIOUS
<1>2. m \in Seq(Nat) /\ b \in Seq(Nat) /\ k \in Seq(Nat)
  BY DEF Moves, Bytes4
<1>3. x \in Seq(Nat)
  BY <1>1, <1>2, BytesConcat, Zenon
<1>4. m \o (b \o k) = (m \o b) \o k
  BY <1>2, BytesAssociate, ZenonT(40)
<1>5. c \in Seq(Nat) /\ n \in Seq(Nat)
  BY DEF Moves, Bytes4
<1>6. n \in Seq(Nat) /\ i \in Seq(Nat)
  BY DEF Moves, Bytes4
<1>7. y \in Seq(Nat)
  BY <1>1, <1>5, BytesConcat, Zenon
<1>8. y \o m \in Seq(Nat)
  BY <1>2, <1>7, BytesConcat, Zenon
<1>9. i \o x \in Seq(Nat)
  BY <1>3, <1>6, BytesConcat, Zenon
<1>10. CASE m = <<>>
  <2>1. y \o m = y
    BY <1>7, <1>10, BytesConcat, Zenon
  <2>2. m \o x = x
    BY <1>3, <1>10, BytesConcat, Zenon
  <2>3. PICK z : z = i \o x
    OBVIOUS
  <2>4. c \o (n \o z) = (c \o n) \o z
    BY <1>5, <1>9, <2>3, BytesAssociate, Zenon
  <2>5. n \o (i \o x) = (n \o i) \o x
    BY <1>3, <1>6, BytesAssociate, ZenonT(40)
  <2> QED BY <1>1, <1>4, <1>8, <1>9, <2>1, <2>2, <2>3, <2>4, <2>5, Zenon DEF Moved
<1>11. CASE i = <<>>
  <2>1. i \o x = x
    BY <1>3, <1>11, BytesConcat, Zenon
  <2>2. n \o i = n
    BY <1>5, <1>11, BytesConcat, Zenon
  <2>3. c \o (n \o (m \o x)) = ((c \o n) \o m) \o x
    <3>1. Bytes4(c, n, m, x)
      BY <1>2, <1>3, <1>5 DEF Moves, Bytes4
    <3> QED BY <3>1, FourParts, SMTT(30)
  <2> QED BY <1>1, <1>4, <1>8, <1>9, <2>1, <2>2, <2>3, Zenon DEF Moved
<1> QED BY <1>10, <1>11 DEF Moves

-----------------------------------------------------------------------------
(* The invariant *)

\* It holds of a new connection.
LEMMA ReadInit == RInit => ReadInv
PROOF
<1> SUFFICES ASSUME RInit PROVE ReadInv
  OBVIOUS
<1>1. ReadTypeOK
  BY EmptySeq DEF RInit, ReadTypeOK
<1>2. Numbers(0) = <<>>
  BY NumbersGrow, EmptySeq
<1>3. <<>> \o <<>> = <<>>
  BY ConcatEmptySeq, EmptySeq
<1>4. IsPrefix(<<>>, <<>>)
  BY EmptySeq DEF IsPrefix
<1>5. StreamInv
  BY <1>2, <1>3, <1>4, Zenon DEF RInit, StreamInv, Current
<1> QED BY <1>1, <1>5 DEF ReadInv

\* The peer's next byte goes to the end of the stream.
LEMMA ArriveStep == ReadInv /\ Arrive => ReadInv'
PROOF
<1> SUFFICES ASSUME ReadInv, Arrive PROVE ReadInv'
  OBVIOUS
<1>1. arrived \in Nat /\ kernel \in Seq(Nat) /\ consumed \in Seq(Nat)
  BY DEF ReadInv, ReadTypeOK
<1>2. PICK n, c, k, e : n = arrived /\ c = consumed /\ k = kernel /\ e = <<n + 1>>
  OBVIOUS
<1>3. n \in Nat /\ n + 1 \in Nat
  BY <1>1, <1>2
<1>4. e \in Seq(Nat)
  BY <1>2, <1>3
<1>5. k \in Seq(Nat) /\ Append(k, n + 1) = k \o e
  BY <1>1, <1>2, <1>3, AppendIsConcat
<1>6. c \in Seq(Nat)
  BY <1>1, <1>2
<1>7. /\ arrived' = n + 1 /\ kernel' = k \o e /\ InBuffer' = InBuffer
      /\ Buffer' = Buffer /\ tracking' = tracking /\ open' = open /\ consumed' = c
  BY <1>2, <1>5 DEF Arrive
<1>8. ReadTypeOK'
  <2>1. k \o e \in Seq(Nat)
    BY <1>4, <1>5, BytesConcat, Zenon
  <2> QED BY <1>2, <1>3, <1>7, <2>1 DEF ReadInv, ReadTypeOK
<1>9. PICK s : s = Numbers(n)
  OBVIOUS
<1>10. s \in Seq(Nat) /\ Numbers(n + 1) = s \o e
  <2>1. s \in Seq(Nat) /\ Numbers(n + 1) = Append(s, n + 1)
    BY <1>3, <1>9, NumbersGrow
  <2>2. Append(s, n + 1) = s \o <<n + 1>>
    BY <1>3, <2>1, AppendIsConcat
  <2> QED BY <1>2, <2>1, <2>2
<1>11. IsPrefix(c, Numbers(n + 1))
  <2>1. IsPrefix(c, s)
    BY <1>2, <1>9 DEF ReadInv, StreamInv
  <2>2. PICK u : u \in Seq(Nat) /\ s = c \o u
    BY <1>6, <1>10, <2>1, PrefixIs, ZenonT(40)
  <2>3. c \o (u \o e) = (c \o u) \o e
    BY <1>4, <1>6, <2>2, BytesAssociate, ZenonT(40)
  <2>4. PICK v : v = u \o e
    OBVIOUS
  <2>5. v \in Seq(Nat)
    BY <1>4, <2>2, <2>4, BytesConcat, Zenon
  <2>6. Numbers(n + 1) = c \o v
    BY <1>10, <2>2, <2>3, <2>4, Zenon
  <2> QED BY <1>6, <2>5, <2>6, FirstPart
<1>12. ASSUME open PROVE c \o (InBuffer \o (Current \o (k \o e))) = Numbers(n + 1)
  <2>1. PICK b, i : b = Current /\ i = InBuffer
    OBVIOUS
  <2>2. Bytes5(c, i, b, k, e)
    BY <1>4, <1>5, <1>6, <2>1, EmptySeq DEF Bytes4, Bytes5, Current, ReadInv, ReadTypeOK
  <2>3. c \o (i \o (b \o k)) = s
    BY <1>2, <1>9, <1>12, <2>1, Zenon DEF ReadInv, StreamInv
  <2>4. c \o (i \o (b \o (k \o e))) = (c \o (i \o (b \o k))) \o e
    BY <2>2, LastGrows, SMTT(30)
  <2> QED BY <1>10, <2>1, <2>3, <2>4, Zenon
<1>13. StreamInv'
  <2>1. Current' = Current
    BY <1>7 DEF Current
  <2> QED BY <1>7, <1>11, <1>12, <2>1, Zenon DEF ReadInv, StreamInv
<1> QED BY <1>8, <1>13 DEF ReadInv

\* ReadFromFd moves the bytes of one read(2) from the kernel to Buffer.
LEMMA ReadFromFdStep == ReadInv /\ ReadFromFd => ReadInv'
PROOF
<1> SUFFICES ASSUME ReadInv, ReadFromFd PROVE ReadInv'
  OBVIOUS
<1>1. ReadBuffer \in Nat /\ kernel \in Seq(Nat)
  BY ReadAssumption DEF ReadInv, ReadTypeOK
<1>2. /\ Buffer' \in Seq(Nat) /\ kernel' \in Seq(Nat) /\ Buffer' \o kernel' = kernel
  BY <1>1, TakeDrop DEF ReadFromFd
<1>3. /\ open /\ ~tracking /\ tracking' = TRUE /\ arrived' = arrived
      /\ InBuffer' = InBuffer /\ open' = open /\ consumed' = consumed
  BY DEF ReadFromFd
<1>4. ReadTypeOK'
  BY <1>2, <1>3 DEF ReadInv, ReadTypeOK
<1>5. Current = <<>> /\ Current' = Buffer'
  BY <1>3 DEF Current
<1>6. <<>> \o kernel = kernel
  BY <1>1, BytesConcat, Zenon
<1>7. StreamInv'
  BY <1>2, <1>3, <1>5, <1>6, Zenon DEF ReadInv, StreamInv
<1> QED BY <1>4, <1>7 DEF ReadInv

\* What OnTrack leaves in Buffer is kept in InBuffer.
LEMMA TrackDoneStep == ReadInv /\ TrackDone => ReadInv'
PROOF
<1> SUFFICES ASSUME ReadInv, TrackDone PROVE ReadInv'
  OBVIOUS
<1>1. kernel \in Seq(Nat) /\ InBuffer \in Seq(Nat) /\ Buffer \in Seq(Nat)
  BY DEF ReadInv, ReadTypeOK
<1>2. /\ tracking /\ tracking' = FALSE /\ InBuffer' = InBuffer \o Buffer
      /\ arrived' = arrived /\ kernel' = kernel /\ Buffer' = Buffer /\ open' = open
      /\ consumed' = consumed
  BY DEF TrackDone
<1>3. InBuffer \o Buffer \in Seq(Nat)
  BY <1>1, BytesConcat, Zenon
<1>4. ReadTypeOK'
  BY <1>2, <1>3 DEF ReadInv, ReadTypeOK
<1>5. InBuffer \o (Buffer \o kernel) = (InBuffer \o Buffer) \o kernel
  BY <1>1, BytesAssociate, Zenon
<1>6. <<>> \o kernel = kernel
  BY <1>1, BytesConcat, Zenon
<1>7. <<>> \o <<>> = <<>>
  BY ConcatEmptySeq, EmptySeq
<1>8. Current = Buffer /\ Current' = <<>>
  BY <1>2 DEF Current
<1>9. StreamInv'
  BY <1>2, <1>5, <1>6, <1>7, <1>8, Zenon DEF ReadInv, StreamInv
<1> QED BY <1>4, <1>9 DEF ReadInv

\* Close drops what is unread, and what has been read stays a prefix.
LEMMA CloseReadStep == ReadInv /\ CloseRead => ReadInv'
PROOF
<1> SUFFICES ASSUME ReadInv, CloseRead PROVE ReadInv'
  OBVIOUS
<1>1. ReadTypeOK'
  BY EmptySeq DEF ReadInv, ReadTypeOK, CloseRead
<1>2. StreamInv'
  BY DEF ReadInv, StreamInv, CloseRead
<1> QED BY <1>1, <1>2 DEF ReadInv

\* Conn.Read takes the next bytes of the stream, from InBuffer first.
LEMMA ReadStep ==
  ASSUME ReadInv, NEW len \in Nat, Read(len)
  PROVE  ReadInv'
PROOF
<1>0. /\ kernel \in Seq(Nat) /\ InBuffer \in Seq(Nat) /\ Buffer \in Seq(Nat)
      /\ consumed \in Seq(Nat)
  BY DEF ReadInv, ReadTypeOK
<1>1. PICK n, m, left : /\ n = Take(InBuffer, len) /\ left = len - Len(n)
                        /\ m = Take(Buffer, left)
  OBVIOUS
<1>2. /\ tracking /\ consumed' = (consumed \o n) \o m /\ InBuffer' = Drop(InBuffer, len)
      /\ Buffer' = Drop(Buffer, left)
      /\ arrived' = arrived /\ kernel' = kernel /\ tracking' = tracking /\ open' = open
  BY <1>1 DEF Read
<1>3. /\ n \in Seq(Nat) /\ InBuffer' \in Seq(Nat) /\ n \o InBuffer' = InBuffer
      /\ Len(n) = Smaller(len, Len(InBuffer))
      /\ Len(InBuffer) <= len => InBuffer' = <<>> /\ n = InBuffer
  BY <1>0, <1>1, <1>2, TakeDrop
<1>4. left \in Nat /\ (left = 0 \/ Len(InBuffer) <= len)
  <2>1. Len(InBuffer) \in Nat
    BY <1>0, LenProperties
  <2> QED BY <1>1, <1>3, <2>1 DEF Smaller
<1>5. /\ m \in Seq(Nat) /\ Buffer' \in Seq(Nat) /\ m \o Buffer' = Buffer
      /\ (left = 0 => m = <<>>) /\ (Len(Buffer) <= left => m = Buffer /\ Buffer' = <<>>)
  BY <1>0, <1>1, <1>2, <1>4, TakeDrop
<1>6. PICK i, b, c, k :
        i = InBuffer' /\ b = Buffer' /\ c = (consumed \o n) \o m /\ k = kernel
  OBVIOUS
<1>7. m = <<>> \/ i = <<>>
  BY <1>3, <1>4, <1>5, <1>6
<1>8. /\ c \in Seq(Nat) /\ i \o (b \o k) \in Seq(Nat)
      /\ c \o (i \o (b \o k)) = consumed \o ((n \o i) \o ((m \o b) \o k))
  <2>1. PICK d : d = consumed
    OBVIOUS
  <2>2. c = (d \o n) \o m
    BY <1>6, <2>1
  <2>3. Moves(d, n, m, i, b, k)
    BY <1>0, <1>3, <1>5, <1>6, <1>7, <2>1 DEF Moves, Bytes4
  <2>4. Moved(d, n, m, i, b, k)
    BY <2>3, ReadMoves
  <2> QED BY <2>1, <2>2, <2>4, Zenon DEF Moved
<1>9. ReadTypeOK'
  BY <1>2, <1>3, <1>5, <1>6, <1>8 DEF ReadInv, ReadTypeOK
<1>10. CASE open
  <2>1. consumed \o (InBuffer \o (Buffer \o kernel)) = Numbers(arrived)
    BY <1>2, <1>10, Zenon DEF ReadInv, StreamInv, Current
  <2>2. c \o (i \o (b \o k)) = Numbers(arrived)
    BY <1>3, <1>5, <1>6, <1>8, <2>1, Zenon
  <2>3. PICK x \in Seq(Nat) : x = i \o (b \o k)
    BY <1>8
  <2>4. IsPrefix(c, Numbers(arrived))
    BY <1>8, <2>2, <2>3, FirstPart
  <2>5. Current' = b
    BY <1>2, <1>6 DEF Current
  <2>6. StreamInv'
    BY <1>2, <1>6, <1>10, <2>2, <2>4, <2>5, Zenon DEF StreamInv
  <2> QED BY <1>9, <2>6 DEF ReadInv
<1>11. CASE ~open
  <2>1. InBuffer = <<>> /\ Buffer = <<>> /\ IsPrefix(consumed, Numbers(arrived))
    BY <1>11 DEF ReadInv, StreamInv
  <2>2. Len(<<>>) = 0
    BY EmptySeq
  <2>3. n = <<>> /\ m = <<>> /\ InBuffer' = <<>> /\ Buffer' = <<>>
    BY <1>3, <1>4, <1>5, <2>1, <2>2
  <2>4. consumed' = consumed
    <3>1. consumed \o <<>> = consumed
      BY <1>0, BytesConcat, Zenon
    <3> QED BY <1>2, <2>3, <3>1, Zenon
  <2>5. StreamInv'
    BY <1>2, <1>11, <2>1, <2>3, <2>4 DEF StreamInv
  <2> QED BY <1>9, <2>5 DEF ReadInv
<1> QED BY <1>10, <1>11

\* Every step keeps the invariant of the receiving side.
LEMMA ReadInvStep == ReadInv /\ [ReadNext]_rvars => ReadInv'
PROOF
<1> SUFFICES ASSUME ReadInv, [ReadNext]_rvars PROVE ReadInv'
  OBVIOUS
<1>1. ASSUME NEW len \in Nat, Read(len) PROVE ReadInv'
  BY <1>1, ReadStep
<1>2. CASE UNCHANGED rvars
  BY <1>2 DEF rvars, ReadInv, ReadTypeOK, StreamInv, Current
<1> QED BY <1>1, <1>2, ArriveStep, ReadFromFdStep, TrackDoneStep, CloseReadStep DEF ReadNext

\* The invariant says what user code has read.
LEMMA ReadInvIsIntact == ReadInv => ReadStreamIntact
PROOF
<1> SUFFICES ASSUME ReadInv PROVE ReadStreamIntact
  OBVIOUS
<1>1. PICK b \in Seq(Nat) : b = Current
  BY EmptySeq DEF Current, ReadInv, ReadTypeOK
<1>2. /\ InBuffer \in Seq(Nat) /\ kernel \in Seq(Nat) /\ consumed \in Seq(Nat)
  BY DEF ReadInv, ReadTypeOK
<1>3. consumed \o (InBuffer \o (b \o kernel)) = ((consumed \o InBuffer) \o b) \o kernel
  <2>1. Bytes4(consumed, InBuffer, b, kernel)
    BY <1>2 DEF Bytes4, Bytes5
  <2> QED BY <2>1, FourParts, SMTT(30)
<1> QED BY <1>1, <1>3, Zenon DEF ReadInv, StreamInv, ReadStreamIntact, Current

\* Whatever OnTrack reads, and however read(2) cuts the stream, user code gets the
\* peer's bytes in order and each of them once, and after Close a prefix of them.
THEOREM EveryReaderSeesTheStream == ReadSpec => []ReadStreamIntact
PROOF BY ReadInit, ReadInvStep, ReadInvIsIntact, PTL DEF ReadSpec

-----------------------------------------------------------------------------
(* The stream of requests *)

Toks == [kind : {"first", "field", "end"}, req : Reqs]
        \cup [kind : {"body"}, req : Reqs, at : Nat]

Parts == [r \in Reqs |-> HeadLines(r) \o Body(r)]

\* Request r begins behind Offsets[r].
Offsets == CHOOSE off : Flat(Parts, off, Stream)

Lens == [Reqs -> Nat]

\* The tokens are about the requests.
LEMMA TokenType ==
  /\ \A k \in {"first", "field", "end"}, r \in Reqs : Token(k, r) \in Toks
  /\ \A r \in Reqs, i \in Nat : [kind |-> "body", req |-> r, at |-> i] \in Toks
  /\ \A t \in Toks : t.req \in Reqs
PROOF
<1>1. \A t \in Toks : t.req \in Reqs
  BY DEF Toks
<1>2. \A k \in {"first", "field", "end"}, r \in Reqs : Token(k, r) \in Toks
  BY DEF Toks, Token
<1>3. \A r \in Reqs, i \in Nat : [kind |-> "body", req |-> r, at |-> i] \in Toks
  BY DEF Toks
<1> QED BY <1>1, <1>2, <1>3

\* Request r: three lines and the body.
Laid(r, p) ==
  /\ p \in Seq(Toks) /\ Len(p) = 3 + bodyLen[r]
  /\ p[1] = Token("first", r) /\ p[2] = Token("field", r) /\ p[3] = Token("end", r)
  /\ \A k \in 1..bodyLen[r] : p[3 + k] = Body(r)[k]

\* That is how the peer writes it.
LEMMA PartIs ==
  ASSUME bodyLen \in Lens, NEW r \in Reqs
  PROVE  Laid(r, Parts[r])
PROOF
<1>1. PICK n \in Nat : n = bodyLen[r]
  BY DEF Lens
<1>2. PICK h, b : h = HeadLines(r) /\ b = Body(r)
  OBVIOUS
<1>3. h \in Seq(Toks) /\ Len(h) = 3
  BY <1>2, TokenType DEF HeadLines
<1>4. h[1] = Token("first", r) /\ h[2] = Token("field", r) /\ h[3] = Token("end", r)
  BY <1>2 DEF HeadLines
<1>5. b \in Seq(Toks) /\ Len(b) = n
  <2>1. b = [i \in 1..n |-> [kind |-> "body", req |-> r, at |-> i]]
    BY <1>1, <1>2 DEF Body
  <2>2. \A i \in 1..n : [kind |-> "body", req |-> r, at |-> i] \in Toks
    BY TokenType
  <2> QED BY <2>1, <2>2, IsASeq
<1>6. PICK p : p = h \o b
  OBVIOUS
<1>7. p \in Seq(Toks) /\ Joined(h, b, p)
  BY <1>3, <1>5, <1>6, ConcatParts, Zenon
<1>8. Len(p) = 3 + n /\ p[1] = h[1] /\ p[2] = h[2] /\ p[3] = h[3]
  BY <1>3, <1>5, <1>7 DEF Joined
<1>9. \A k \in 1..n : p[3 + k] = b[k]
  BY <1>3, <1>5, <1>7 DEF Joined
<1>10. Parts[r] = p
  BY <1>2, <1>6 DEF Parts
<1>11. Laid(r, p)
  BY <1>1, <1>2, <1>4, <1>7, <1>8, <1>9 DEF Laid
<1> QED BY <1>10, <1>11

\* The stream is the requests one behind the other.
LEMMA StreamIs ==
  ASSUME bodyLen \in Lens
  PROVE  /\ Parts \in Seq(Seq(Toks)) /\ Len(Parts) = NumReqs
         /\ Stream \in Seq(Toks) /\ Flat(Parts, Offsets, Stream)
PROOF
<1>1. Parts \in Seq(Seq(Toks)) /\ Len(Parts) = NumReqs
  <2>1. \A r \in Reqs : Parts[r] \in Seq(Toks)
    BY PartIs DEF Laid
  <2>2. Parts = [r \in 1..NumReqs |-> Parts[r]]
    BY DEF Parts, Reqs
  <2>3. NumReqs \in Nat
    BY RequestAssumption
  <2> HIDE DEF Parts
  <2> QED BY <2>1, <2>2, <2>3, IsASeq DEF Reqs
<1>2. Stream = FlattenSeq(Parts)
  BY DEF Stream, Parts
<1>3. Stream \in Seq(Toks) /\ \E off : Flat(Parts, off, Stream)
  BY <1>1, <1>2, FlattenIsFlat
<1> QED BY <1>1, <1>3 DEF Offsets

\* Where the tokens of request r are.
RequestIs(r) ==
  /\ Offsets[r] \in Nat /\ bodyLen[r] \in Nat
  /\ Offsets[r + 1] = Offsets[r] + 3 + bodyLen[r]
  /\ Offsets[r + 1] <= Len(Stream)
  /\ Stream[Offsets[r] + 1] = Token("first", r)
  /\ Stream[Offsets[r] + 2] = Token("field", r)
  /\ Stream[Offsets[r] + 3] = Token("end", r)
  /\ \A k \in 1..bodyLen[r] : Stream[Offsets[r] + 3 + k] = Body(r)[k]

\* Each request is where the ones before it end.
LEMMA RequestAt ==
  ASSUME bodyLen \in Lens, NEW r \in Reqs
  PROVE  RequestIs(r)
PROOF
<1>1. PICK p, off : p = Parts /\ off = Offsets /\ p \in Seq(Seq(Toks)) /\ Len(p) = NumReqs
                    /\ Flat(p, off, Stream)
  BY StreamIs
<1>2. r \in 1..NumReqs /\ NumReqs \in Nat /\ r + 1 \in 1..(NumReqs + 1) /\ r \in 1..(NumReqs + 1)
      /\ NumReqs + 1 \in 1..(NumReqs + 1) /\ r + 1 <= NumReqs + 1
  BY RequestAssumption DEF Reqs
<1>3. PICK q, n : q = p[r] /\ n = bodyLen[r] /\ n \in Nat
  BY DEF Lens
<1>4. /\ q \in Seq(Toks) /\ Len(q) = 3 + n
      /\ q[1] = Token("first", r) /\ q[2] = Token("field", r) /\ q[3] = Token("end", r)
      /\ \A k \in 1..n : q[3 + k] = Body(r)[k]
  BY <1>1, <1>3, PartIs DEF Laid
<1>5. Layout(p, off) /\ off[r] \in Nat /\ off[r + 1] = off[r] + Len(q)
      /\ Len(Stream) = off[NumReqs + 1]
  BY <1>1, <1>2, <1>3 DEF Flat, Layout
<1>6. off[r + 1] <= off[NumReqs + 1]
  <2>1. r + 1 \in 1..(Len(p) + 1) /\ NumReqs + 1 \in 1..(Len(p) + 1)
    BY <1>1, <1>2
  <2> QED BY <1>1, <1>2, <1>5, <2>1, OffsetsGrow, Zenon
<1>7. \A k \in 1..Len(q) : Stream[off[r] + k] = q[k]
  BY <1>1, <1>2, <1>3 DEF Flat
<1>8. PICK o \in Nat : o = off[r]
  BY <1>5
<1>9. \A k \in 1..(3 + n) : Stream[o + k] = q[k]
  BY <1>4, <1>7, <1>8
<1>10. /\ Stream[o + 1] = q[1] /\ Stream[o + 2] = q[2] /\ Stream[o + 3] = q[3]
  BY <1>3, <1>9
<1>11. ASSUME NEW k \in 1..n PROVE Stream[o + 3 + k] = q[3 + k]
  <2>1. 3 + k \in 1..(3 + n) /\ o + (3 + k) = o + 3 + k
    BY <1>3
  <2> QED BY <1>9, <2>1
<1>12. off[r + 1] = o + 3 + n
  <2>1. off[r + 1] = o + Len(q) /\ Len(q) = 3 + n /\ o \in Nat /\ n \in Nat
    BY <1>3, <1>4, <1>5, <1>8
  <2> QED BY <2>1
<1> QED BY <1>1, <1>3, <1>4, <1>5, <1>6, <1>8, <1>10, <1>11, <1>12 DEF RequestIs

\* The offsets are natural numbers, the first is 0, and they grow.
LEMMA OffsetFacts ==
  ASSUME bodyLen \in Lens
  PROVE  /\ Offsets[1] = 0
         /\ \A i \in 1..(NumReqs + 1) : Offsets[i] \in Nat
         /\ \A i, j \in 1..(NumReqs + 1) : i <= j => Offsets[i] <= Offsets[j]
         /\ Len(Stream) = Offsets[NumReqs + 1] /\ Len(Stream) \in Nat
PROOF
<1>1. PICK p, off : p = Parts /\ off = Offsets /\ p \in Seq(Seq(Toks)) /\ Len(p) = NumReqs
                    /\ Flat(p, off, Stream)
  BY StreamIs
<1>2. Layout(p, off) /\ Len(Stream) = off[NumReqs + 1]
  BY <1>1 DEF Flat
<1>3. off[1] = 0 /\ \A i \in 1..(NumReqs + 1) : off[i] \in Nat
  BY <1>1, <1>2 DEF Layout
<1>4. \A i, j \in 1..(NumReqs + 1) : i <= j => off[i] <= off[j]
  BY <1>1, <1>2, OffsetsGrow
<1>5. Len(Stream) \in Nat
  BY StreamIs, LenProperties
<1> QED BY <1>1, <1>2, <1>3, <1>4, <1>5

\* A request line is at the beginning of its request, and a later request is further on.
LEMMA FirstAt ==
  ASSUME bodyLen \in Lens, NEW p \in 1..Len(Stream), Stream[p].kind = "first"
  PROVE  Stream[p].req \in Reqs /\ p = Offsets[Stream[p].req] + 1
PROOF
<1>1. Layout(Parts, Offsets) /\ Len(Parts) = NumReqs /\ Parts \in Seq(Seq(Toks))
  BY StreamIs DEF Flat
<1>2. p \in Nat /\ 1 <= p /\ p <= Offsets[Len(Parts) + 1]
  BY <1>1, OffsetFacts
<1>3. InPart(Parts, Offsets, p)
  BY <1>1, <1>2, Covered
<1>4. PICK r \in Reqs : \E k \in 1..Len(Parts[r]) : p = Offsets[r] + k
  BY <1>1, <1>3 DEF InPart, Reqs
<1>5. Laid(r, Parts[r]) /\ RequestIs(r)
  BY PartIs, RequestAt
<1>6. PICK n, o \in Nat : n = bodyLen[r] /\ o = Offsets[r]
  BY <1>5 DEF RequestIs
<1>7. PICK k \in 1..(3 + n) : p = o + k
  BY <1>4, <1>5, <1>6 DEF Laid
<1>8. CASE k = 1
  BY <1>5, <1>6, <1>7, <1>8, SMTT(30) DEF RequestIs, Token
<1>9. CASE k = 2
  BY <1>5, <1>6, <1>7, <1>9, SMTT(30) DEF RequestIs, Token
<1>10. CASE k = 3
  BY <1>5, <1>6, <1>7, <1>10 DEF RequestIs, Token
<1>11. CASE k > 3
  <2>1. PICK j \in 1..n : p = o + 3 + j
    <3>1. k - 3 \in 1..n /\ p = o + 3 + (k - 3)
      BY <1>6, <1>7, <1>11, SMTT(30)
    <3> QED BY <3>1
  <2>2. Stream[p] = Body(r)[j]
    BY <1>5, <1>6, <2>1 DEF RequestIs
  <2>3. Body(r)[j].kind = "body"
    BY <1>6 DEF Body
  <2> QED BY <2>2, <2>3
<1> QED BY <1>6, <1>7, <1>8, <1>9, <1>10, <1>11

-----------------------------------------------------------------------------
(* The cursor of the bufio.Reader *)

\* s is what comes behind position p of the stream st.
Follows(st, s, p) == s \in Seq(Toks) /\ \A i \in 1..Len(s) : s[i] = st[p + i]

\* The tokens that OnTrack has taken.
Cursor == Len(consumed) - Len(rbuf)

\* What the bufio.Reader holds is what comes next, and no more has arrived than was sent.
BufferInv ==
  /\ Len(rbuf) <= Len(consumed) /\ arrived <= Len(Stream)
  /\ Follows(Stream, rbuf, Cursor)

Keys == [name : Names \cup {"overwritten"}, req : Reqs]

\* Type correctness.
RequestTypeOK ==
  /\ bodyLen \in Lens /\ name \in [Reqs -> Names]
  /\ rbuf \in Seq(Toks) /\ fragment \in Seq(Toks)
  /\ hpc \in {"idle", "line", "fields", "serve", "finish"}
  /\ req \in [line : Seq(Toks), length : Nat, read : Nat, body : Seq(Toks)]
  /\ header \subseteq Keys /\ served \in Seq(Seq(Toks)) /\ spoiled \in BOOLEAN

\* Two pieces of the stream, one behind the other.
LEMMA FollowsConcat ==
  ASSUME NEW st, NEW s, NEW t, NEW p \in Nat, Follows(st, s, p), NEW q, q = p + Len(s),
         Follows(st, t, q)
  PROVE  Follows(st, s \o t, p) /\ Len(s \o t) = Len(s) + Len(t)
PROOF
<1>1. s \in Seq(Toks) /\ t \in Seq(Toks) /\ Len(s) \in Nat /\ Len(t) \in Nat
  BY DEF Follows
<1>2. PICK w : w = s \o t
  OBVIOUS
<1>3. w \in Seq(Toks) /\ Joined(s, t, w)
  BY <1>1, <1>2, ConcatParts, Zenon
<1>4. Len(w) = Len(s) + Len(t)
  BY <1>3 DEF Joined
<1>5. ASSUME NEW i \in 1..Len(w) PROVE w[i] = st[p + i]
  <2>1. CASE i <= Len(s)
    <3>1. i \in 1..Len(s)
      BY <1>1, <1>4, <2>1
    <3> QED BY <1>3, <3>1 DEF Joined, Follows
  <2>2. CASE i > Len(s)
    <3>1. PICK j \in 1..Len(t) : i = Len(s) + j
      <4>1. i - Len(s) \in 1..Len(t) /\ i = Len(s) + (i - Len(s))
        BY <1>1, <1>4, <2>2
      <4> QED BY <4>1
    <3>2. w[i] = t[j]
      BY <1>3, <3>1 DEF Joined
    <3>3. t[j] = st[q + j]
      BY DEF Follows
    <3>4. q + j = p + i
      BY <1>1, <3>1
    <3> QED BY <3>2, <3>3, <3>4
  <2> QED BY <1>1, <1>4, <2>1, <2>2
<1> QED BY <1>2, <1>3, <1>4, <1>5 DEF Follows

\* A piece of the stream cut in two.
LEMMA FollowsCut ==
  ASSUME NEW st, NEW s, NEW p \in Nat, Follows(st, s, p), NEW n \in Nat
  PROVE  /\ Follows(st, Take(s, n), p) /\ Follows(st, Drop(s, n), p + Len(Take(s, n)))
         /\ Len(Take(s, n)) \in Nat /\ Len(Take(s, n)) <= n
         /\ Len(Take(s, n)) + Len(Drop(s, n)) = Len(s)
         /\ n <= Len(s) => Len(Take(s, n)) = n
PROOF
<1>1. s \in Seq(Toks) /\ Len(s) \in Nat /\ \A i \in 1..Len(s) : s[i] = st[p + i]
  BY DEF Follows
<1>2. PICK k \in Nat : k = Smaller(n, Len(s)) /\ k <= n /\ k <= Len(s) /\ (n <= Len(s) => k = n)
  BY <1>1 DEF Smaller
<1>3. PICK u, v : u = Take(s, n) /\ v = Drop(s, n)
  OBVIOUS
<1>4. u = SubSeq(s, 1, k) /\ v = SubSeq(s, k + 1, Len(s))
  BY <1>2, <1>3 DEF Take, Drop
<1>5. u \in Seq(Toks) /\ Len(u) = k /\ \A i \in 1..k : u[i] = s[i]
  BY <1>1, <1>2, <1>4, SMTT(30)
<1>6. v \in Seq(Toks) /\ Len(v) = Len(s) - k /\ \A i \in 1..(Len(s) - k) : v[i] = s[k + i]
  BY <1>1, <1>2, <1>4, SMTT(30)
<1>7. Follows(st, u, p)
  <2>1. \A i \in 1..k : i \in 1..Len(s)
    BY <1>1, <1>2
  <2> QED BY <1>1, <1>5, <2>1 DEF Follows
<1>8. Follows(st, v, p + k)
  <2>1. ASSUME NEW i \in 1..(Len(s) - k) PROVE v[i] = st[p + k + i]
    <3>1. k + i \in 1..Len(s) /\ p + (k + i) = p + k + i
      BY <1>1, <1>2
    <3> QED BY <1>1, <1>6, <3>1
  <2> QED BY <1>6, <2>1 DEF Follows
<1> QED BY <1>1, <1>2, <1>3, <1>5, <1>6, <1>7, <1>8

\* What has been read are the first tokens.
LEMMA ConsumedIs ==
  ASSUME ReadInv
  PROVE  /\ Len(consumed) \in Nat /\ arrived \in Nat /\ Len(consumed) <= arrived
         /\ \A i \in 1..Len(consumed) : consumed[i] = i
PROOF
<1>1. PICK c, n : c = consumed /\ n = arrived /\ c \in Seq(Nat) /\ n \in Nat
                  /\ IsPrefix(c, Numbers(n))
  BY DEF ReadInv, ReadTypeOK, StreamInv
<1>2. PICK s \in Seq(Nat) : s = Numbers(n) /\ Len(s) = n
  BY <1>1, NumbersGrow
<1>3. PICK u \in Seq(Nat) : s = c \o u
  BY <1>1, <1>2, PrefixIs
<1>4. Joined(c, u, s)
  BY <1>1, <1>3, ConcatParts, Zenon
<1>5. Len(c) \in Nat /\ Len(c) <= n /\ \A i \in 1..Len(c) : i \in 1..n /\ s[i] = c[i]
  BY <1>2, <1>4 DEF Joined
<1>6. \A i \in 1..n : s[i] = i
  BY <1>2 DEF Numbers
<1> QED BY <1>1, <1>5, <1>6

\* A Conn.Read gets what comes next, and no more than it asked for.
GetsNext(len) ==
  /\ Len(consumed') = Len(consumed) + Len(Got) /\ Len(consumed) \in Nat
  /\ Len(Got) \in Nat /\ Len(Got) <= len
  /\ Follows(Stream, Got, Len(consumed))

\* Conn.Read in OnTrack, whatever is in InBuffer and in Buffer.
LEMMA ReadGets ==
  ASSUME ReadInv, ReadInv', bodyLen \in Lens, arrived <= Len(Stream),
         NEW len \in Nat, Read(len)
  PROVE  GetsNext(len) /\ arrived' = arrived
PROOF
<1>1. /\ InBuffer \in Seq(Nat) /\ Buffer \in Seq(Nat) /\ consumed \in Seq(Nat)
  BY DEF ReadInv, ReadTypeOK
<1>2. PICK n, m, left : /\ n = Take(InBuffer, len) /\ left = len - Len(n)
                        /\ m = Take(Buffer, left)
  OBVIOUS
<1>3. consumed' = (consumed \o n) \o m /\ arrived' = arrived
  BY <1>2 DEF Read
<1>4. n \in Seq(Nat) /\ Len(n) = Smaller(len, Len(InBuffer))
  BY <1>1, <1>2, TakeDrop
<1>5. left \in Nat /\ left = len - Len(n) /\ Len(n) \in Nat
  BY <1>1, <1>2, <1>4, LenProperties DEF Smaller
<1>6. m \in Seq(Nat) /\ Len(m) = Smaller(left, Len(Buffer))
  BY <1>1, <1>2, <1>5, TakeDrop
<1>7. Len(m) \in Nat /\ Len(m) <= left
  BY <1>1, <1>5, <1>6, LenProperties DEF Smaller
<1>8. PICK d \in Nat : d = Len(n) + Len(m) /\ d <= len
  BY <1>5, <1>7
<1>9. Len(consumed') = Len(consumed) + d /\ Len(consumed) \in Nat
  <2>1. PICK c, x, y : c = consumed /\ x = c \o n /\ y = x \o m
    OBVIOUS
  <2>2. x \in Seq(Nat) /\ Joined(c, n, x)
    BY <1>1, <1>4, <2>1, ConcatParts, Zenon
  <2>3. Joined(x, m, y)
    BY <1>6, <2>1, <2>2, ConcatParts, Zenon
  <2>4. Len(y) = Len(c) + Len(n) + Len(m) /\ Len(c) \in Nat
    BY <2>2, <2>3 DEF Joined
  <2>5. Len(y) = Len(c) + d
    BY <1>5, <1>7, <1>8, <2>4
  <2> QED BY <1>3, <2>1, <2>4, <2>5
<1>10. PICK k \in Nat : k = Len(consumed)
  BY <1>9
<1>11. PICK cc : cc = consumed'
  OBVIOUS
<1>12. /\ Len(cc) = k + d /\ Len(cc) <= arrived
       /\ \A i \in 1..Len(cc) : cc[i] = i
  <2>1. (/\ Len(consumed) \in Nat /\ arrived \in Nat /\ Len(consumed) <= arrived
         /\ \A i \in 1..Len(consumed) : consumed[i] = i)'
    BY ConsumedIs, PTL
  <2> QED BY <1>3, <1>9, <1>10, <1>11, <2>1
<1>13. Got = [i \in 1..d |-> Stream[cc[k + i]]]
  BY <1>9, <1>10, <1>11 DEF Got
<1>14. Stream \in Seq(Toks) /\ Len(Stream) \in Nat /\ arrived \in Nat
  BY StreamIs, LenProperties DEF ReadInv, ReadTypeOK
<1>15. \A i \in 1..d : k + i \in 1..Len(Stream) /\ cc[k + i] = k + i
  BY <1>12, <1>14
<1>16. PICK st \in Seq(Toks) : st = Stream
  BY <1>14
<1>17. \A i \in 1..d : st[k + i] \in Toks /\ st[cc[k + i]] = st[k + i]
  <2>1. ASSUME NEW i \in 1..d PROVE st[k + i] \in Toks /\ st[cc[k + i]] = st[k + i]
    <3>1. k + i \in 1..Len(st) /\ cc[k + i] = k + i
      BY <1>15, <1>16
    <3>2. st[k + i] \in Toks
      BY <3>1, ElementOfSeq
    <3> QED BY <3>1, <3>2, Zenon
  <2> QED BY <2>1
<1>18. PICK g : g = Got
  OBVIOUS
<1>19. g \in Seq(Toks) /\ Len(g) = d /\ \A i \in 1..d : g[i] = Stream[k + i]
  <2>1. g = [i \in 1..d |-> st[k + i]]
    <3>1. g = [i \in 1..d |-> st[cc[k + i]]]
      BY <1>13, <1>16, <1>18, Zenon
    <3> QED BY <1>17, <3>1, Zenon
  <2>2. g \in Seq(Toks) /\ Len(g) = d
    <3>1. \A i \in 1..d : g[i] \in Toks
      BY <1>17, <2>1, Zenon
    <3>2. g = [i \in 1..d |-> g[i]]
      BY <2>1
    <3> QED BY <3>1, <3>2, IsASeq
  <2>3. \A i \in 1..d : g[i] = st[k + i]
    BY <2>1
  <2> QED BY <1>16, <2>2, <2>3
<1>20. Follows(Stream, g, k)
  BY <1>19 DEF Follows
<1> QED BY <1>3, <1>8, <1>9, <1>10, <1>18, <1>19, <1>20 DEF GetsNext

\* The steps of the server on the connection are steps of some OnTrack.
LEMMA ServerReads ==
  ASSUME RequestTypeOK, [SNext]_hvars
  PROVE  [ReadNext]_rvars
PROOF
<1>1. BufioSize \in Nat /\ Len(rbuf) \in Nat
  BY RequestAssumption, LenProperties DEF RequestTypeOK
<1>2. ASSUME NEW n \in Nat, BodyRead(n) PROVE [ReadNext]_rvars
  <2>1. CASE UNCHANGED rvars
    BY <2>1
  <2>2. CASE Read(n)
    BY <2>2 DEF ReadNext
  <2>3. CASE Fill(BufioSize)
    BY <1>1, <2>3 DEF ReadNext, Fill
  <2> QED BY <1>2, <2>1, <2>2, <2>3 DEF BodyRead
<1>3. CASE PeerSends
  BY <1>3 DEF PeerSends, ReadNext
<1>4. CASE Closes
  BY <1>4 DEF Closes, ReadNext
<1>5. CASE ReadRequest
  <2>1. CASE Track
    BY <2>1 DEF Track, ReadNext
  <2>2. CASE FillLine
    <3>1. BufioSize - Len(rbuf) \in Nat /\ Read(BufioSize - Len(rbuf))
      BY <1>1, <2>2 DEF FillLine, Fill
    <3> QED BY <3>1 DEF ReadNext
  <2>3. CASE LinePrefix
    BY <2>3 DEF LinePrefix
  <2>4. CASE RequestLine(NextLine) \/ HeaderLine(NextLine) \/ HeaderDone(NextLine)
    BY <2>4 DEF RequestLine, HeaderLine, HeaderDone
  <2>5. CASE RequestLineFails(NextLine) \/ HeaderFails(NextLine)
    BY <2>5 DEF RequestLineFails, HeaderFails, Return, ReadNext
  <2> QED BY <1>5, <2>1, <2>2, <2>3, <2>4, <2>5 DEF ReadRequest
<1>6. ASSUME NEW len \in Lengths, HandlerReads(len) PROVE [ReadNext]_rvars
  <2>1. req.read \in Nat /\ req.length \in Nat /\ len \in Nat /\ req.read < req.length
    BY <1>6, RequestAssumption DEF HandlerReads, RequestTypeOK
  <2>2. BodyLimit(len) \in Nat
    BY <2>1 DEF BodyLimit, Smaller
  <2> QED BY <1>2, <1>6, <2>2 DEF HandlerReads
<1>7. CASE HandlerReturns
  BY <1>7 DEF HandlerReturns
<1>8. CASE Discard
  <2>1. Rest \in Nat
    <3>1. req.read \in Nat /\ req.length \in Nat
      BY DEF RequestTypeOK
    <3>2. Rest > 0
      BY <1>8 DEF Discard
    <3> QED BY <3>1, <3>2 DEF Rest
  <2> QED BY <1>2, <1>8, <2>1 DEF Discard
<1>9. CASE Finish
  BY <1>9 DEF Finish, Return, ReadNext
<1>10. CASE UNCHANGED hvars
  BY <1>10 DEF hvars
<1> QED BY <1>3, <1>4, <1>5, <1>6, <1>7, <1>8, <1>9, <1>10 DEF SNext

\* What the peer sends is fixed.
LEMMA RequestsFixed ==
  ASSUME [SNext]_hvars
  PROVE  bodyLen' = bodyLen /\ name' = name
PROOF
<1>1. CASE PeerSends \/ Closes
  BY <1>1 DEF PeerSends, Closes
<1>2. CASE ReadRequest
  BY <1>2 DEF ReadRequest, Track, FillLine, LinePrefix, RequestLine, RequestLineFails,
              HeaderLine, HeaderFails, HeaderDone
<1>3. CASE (\E len \in Lengths : HandlerReads(len)) \/ Discard
  BY <1>3 DEF HandlerReads, Discard, BodyRead
<1>4. CASE HandlerReturns \/ Finish
  BY <1>4 DEF HandlerReturns, Finish
<1>5. CASE UNCHANGED hvars
  BY <1>5 DEF hvars
<1> QED BY <1>1, <1>2, <1>3, <1>4, <1>5 DEF SNext

\* The stream, and where the requests are in it, with them.
LEMMA StreamFixed ==
  ASSUME bodyLen' = bodyLen, name' = name
  PROVE  /\ Stream' = Stream /\ Offsets' = Offsets
         /\ \A r : Body(r)' = Body(r) /\ OwnLength(r)' = OwnLength(r)
PROOF
<1>1. Parts' = Parts
  BY DEF Parts, HeadLines, Body
<1>2. Stream' = Stream
  BY DEF Stream, HeadLines, Body
<1>3. Offsets' = Offsets
  BY <1>1, <1>2 DEF Offsets
<1> QED BY <1>2, <1>3 DEF Body, OwnLength

Fixed == bodyLen' = bodyLen /\ name' = name

\* What the lemmas on a step start from.
Start == ReadInv /\ ReadInv' /\ RequestTypeOK /\ BufferInv /\ Fixed

\* The facts about the cursor that they need.
LEMMA StartFacts ==
  ASSUME Start
  PROVE  /\ Len(consumed) \in Nat /\ Len(rbuf) \in Nat /\ Cursor \in Nat
         /\ Cursor + Len(rbuf) = Len(consumed) /\ Len(consumed) <= Len(Stream)
         /\ Len(Stream) \in Nat /\ Stream' = Stream /\ bodyLen \in Lens
         /\ \A i \in 1..Len(rbuf) : rbuf[i] = Stream[Cursor + i]
PROOF
<1>1. bodyLen \in Lens /\ Len(rbuf) \in Nat
  BY LenProperties DEF Start, RequestTypeOK
<1>2. Len(consumed) \in Nat /\ arrived \in Nat /\ Len(consumed) <= arrived
  BY ConsumedIs DEF Start
<1>3. Len(rbuf) <= Len(consumed) /\ arrived <= Len(Stream)
  BY DEF Start, BufferInv
<1>4. Len(Stream) \in Nat
  BY <1>1, OffsetFacts
<1>5. Stream' = Stream
  BY StreamFixed DEF Start, Fixed
<1>6. Cursor \in Nat /\ Cursor + Len(rbuf) = Len(consumed)
  BY <1>1, <1>2, <1>3 DEF Cursor
<1>7. \A i \in 1..Len(rbuf) : rbuf[i] = Stream[Cursor + i]
  BY DEF Start, BufferInv, Follows
<1> QED BY <1>1, <1>2, <1>3, <1>4, <1>5, <1>6, <1>7

\* ReadLine reads on: the cursor stays.
LEMMA FillLineReads ==
  ASSUME Start, FillLine
  PROVE  BufferInv' /\ Cursor' = Cursor /\ rbuf' \in Seq(Toks)
PROOF
<1>1. PICK c, k, l \in Nat : c = Cursor /\ k = Len(consumed) /\ l = Len(rbuf) /\ c + l = k
  BY StartFacts
<1>2. PICK n \in Nat : n = BufioSize - l /\ Read(n)
  BY <1>1, RequestAssumption DEF FillLine, Fill
<1>3. GetsNext(n) /\ arrived' = arrived
  BY <1>2, StartFacts, ReadGets DEF Start, BufferInv
<1>4. PICK g, st : g = Got /\ st = Stream /\ Len(g) \in Nat /\ Len(consumed') = k + Len(g)
                   /\ Follows(st, g, k)
  BY <1>1, <1>3 DEF GetsNext
<1>5. PICK b : b = rbuf /\ Follows(st, b, c) /\ Len(b) = l
  BY <1>1, <1>4 DEF Start, BufferInv
<1>6. rbuf' = b \o g
  BY <1>4, <1>5 DEF FillLine
<1>7. Follows(st, b \o g, c) /\ Len(b \o g) = l + Len(g)
  BY <1>1, <1>4, <1>5, FollowsConcat
<1>8. PICK d, h \in Nat : h = Len(g) /\ d = l + h /\ Len(rbuf') = d /\ Len(consumed') = k + h
  BY <1>4, <1>6, <1>7
<1>9. Cursor' = c
  BY <1>1, <1>8 DEF Cursor
<1>10. Len(rbuf') <= Len(consumed')
  BY <1>1, <1>8
<1>11. Stream' = st /\ arrived' <= Len(Stream')
  BY <1>3, <1>4, StartFacts DEF Start, BufferInv
<1> QED BY <1>1, <1>6, <1>7, <1>9, <1>10, <1>11 DEF BufferInv, Follows

\* ReadLine returns a prefix of a line: the cursor moves past it.
LEMMA LinePrefixReads ==
  ASSUME Start, LinePrefix
  PROVE  BufferInv' /\ Cursor' = Cursor + Len(rbuf) /\ rbuf' = <<>>
PROOF
<1>1. PICK c, k, l \in Nat : c = Cursor /\ k = Len(consumed) /\ l = Len(rbuf) /\ c + l = k
  BY StartFacts
<1>2. rbuf' = <<>> /\ consumed' = consumed /\ arrived' = arrived
  BY DEF LinePrefix, rvars
<1>3. Len(rbuf') = 0
  BY <1>2
<1>4. Cursor' = c + l
  BY <1>1, <1>2, <1>3 DEF Cursor
<1>5. Follows(Stream', rbuf', Cursor')
  BY <1>2, <1>3 DEF Follows
<1>6. Len(rbuf') <= Len(consumed') /\ arrived' <= Len(Stream')
  BY <1>1, <1>2, <1>3, StartFacts DEF Start, BufferInv
<1> QED BY <1>1, <1>2, <1>4, <1>5, <1>6 DEF BufferInv

\* What readLine may answer, the cursor being at c and st being the stream: a line ends
\* where the cursor is then, a line of one token is the next one, and a line that begins
\* with the end of a line has no more.
LineFacts(line, st, c, cc) ==
  /\ line \in Seq(Toks)
  /\ c \in Nat /\ cc \in Nat /\ c <= cc /\ cc <= Len(st)
  /\ line # <<>> /\ Last(line).kind = "first" => c < cc /\ Last(line) = st[cc]
  /\ Len(line) = 1 /\ line[1].kind # "body"
       => cc = c + 1 /\ line[1] = st[c + 1] /\ spoiled' = spoiled
  /\ line = <<>> => spoiled' = TRUE
  /\ spoiled' = spoiled \/ spoiled' = TRUE
  /\ fragment = <<>> /\ c < Len(st) /\ st[c + 1].kind # "body" /\ line # <<>>
       => line = <<st[c + 1]>>
  /\ fragment = <<>> /\ c = Len(st) => line = <<>>

\* A sequence of one token.
LEMMA OneToken ==
  ASSUME NEW s \in Seq(Toks), Len(s) = 1
  PROVE  s = <<s[1]>>
PROOF OBVIOUS

\* The line is f and the next e tokens of the stream.
EndsAt(line, st, c, f, e) ==
  /\ line \in Seq(Toks) /\ Len(line) = Len(f) + e /\ Len(f) \in Nat
  /\ line[Len(f) + e] = st[c + e]
  /\ f = <<>> => \A i \in 1..e : line[i] = st[c + i]

\* A line that ends behind e tokens of the buffer.
LEMMA LineEndsAt ==
  ASSUME NEW st, NEW b, NEW c \in Nat, Follows(st, b, c), NEW e \in 1..Len(b),
         NEW f \in Seq(Toks), NEW line, line = f \o Take(b, e)
  PROVE  EndsAt(line, st, c, f, e)
PROOF
<1>1. b \in Seq(Toks) /\ Len(b) \in Nat /\ e \in Nat /\ e <= Len(b) /\ 1 <= e
  BY DEF Follows
<1>2. PICK u : u = Take(b, e) /\ Follows(st, u, c) /\ Len(u) = e
  BY <1>1, FollowsCut
<1>3. u \in Seq(Toks) /\ \A i \in 1..e : u[i] = st[c + i]
  BY <1>2 DEF Follows
<1>4. line \in Seq(Toks) /\ Joined(f, u, line)
  BY <1>2, <1>3, ConcatParts, Zenon
<1>5. Len(line) = Len(f) + e /\ Len(f) \in Nat /\ \A i \in 1..e : line[Len(f) + i] = u[i]
  BY <1>2, <1>4 DEF Joined
<1>6. line[Len(f) + e] = u[e] /\ u[e] = st[c + e]
  BY <1>1, <1>3, <1>5
<1>7. ASSUME f = <<>> PROVE \A i \in 1..e : line[i] = st[c + i]
  <2>1. Len(f) = 0
    BY <1>7
  <2>2. \A i \in 1..e : Len(f) + i = i
    BY <1>1, <2>1
  <2> QED BY <1>3, <1>5, <2>2
<1> QED BY <1>4, <1>5, <1>6, <1>7 DEF EndsAt

\* readLine.
LEMMA LineReads ==
  ASSUME Start, NEW line, LineIs(line), consumed' = consumed, arrived' = arrived
  PROVE  /\ BufferInv' /\ rbuf' \in Seq(Toks) /\ fragment' = <<>>
         /\ LineFacts(line, Stream, Cursor, Cursor')
PROOF
<1>1. PICK c, k, l \in Nat : c = Cursor /\ k = Len(consumed) /\ l = Len(rbuf) /\ c + l = k
  BY StartFacts
<1>2. PICK b, f, st : b = rbuf /\ f = fragment /\ st = Stream
  OBVIOUS
<1>3. /\ b \in Seq(Toks) /\ f \in Seq(Toks) /\ Len(b) = l /\ Follows(st, b, c)
      /\ Len(st) \in Nat /\ k <= Len(st) /\ Stream' = st
  BY <1>1, <1>2, StartFacts DEF Start, RequestTypeOK, BufferInv
<1>4. \A i \in 1..l : b[i] = st[c + i]
  BY <1>3 DEF Follows
<1>5. fragment' = <<>> /\ line = NextLine /\ arrived' <= Len(Stream')
  BY StartFacts DEF LineIs, Start, BufferInv
<1>6. CASE HasLine
  <2>1. PICK e \in LineEnds : e = FirstEnd /\ \A j \in LineEnds : e <= j
    <3>1. LineEnds \in SUBSET Nat /\ LineEnds # {}
      BY <1>6 DEF HasLine, LineEnds
    <3>2. \E i \in LineEnds : \A j \in LineEnds : i <= j
      BY <3>1, LeastNat
    <3> QED BY <3>2, Zenon DEF FirstEnd
  <2>2. e \in 1..l /\ b[e].kind # "body" /\ (l > 0 /\ b[1].kind # "body" => e = 1)
    <3>1. e \in 1..l /\ b[e].kind # "body"
      BY <1>1, <1>2 DEF LineEnds
    <3>2. l > 0 /\ b[1].kind # "body" => 1 \in LineEnds
      BY <1>1, <1>2 DEF LineEnds
    <3> QED BY <2>1, <3>1, <3>2
  <2>3. line = f \o Take(b, e) /\ rbuf' = Drop(b, e) /\ spoiled' = spoiled
    BY <1>2, <1>5, <1>6, <2>1 DEF LineIs, NextLine
  <2>4. /\ line \in Seq(Toks) /\ Len(line) = Len(f) + e /\ Len(f) \in Nat
        /\ line[Len(f) + e] = st[c + e]
        /\ f = <<>> => \A i \in 1..e : line[i] = st[c + i]
    <3>1. e \in 1..Len(b)
      BY <1>3, <2>2
    <3>2. EndsAt(line, st, c, f, e)
      BY <1>3, <2>3, <3>1, LineEndsAt
    <3> QED BY <3>2 DEF EndsAt
  <2>5. PICK d : d = Drop(b, e) /\ Follows(st, d, c + e) /\ Len(d) = l - e
    <3>1. e \in Nat /\ e <= Len(b)
      BY <1>3, <2>2
    <3>2. PICK u, d : u = Take(b, e) /\ d = Drop(b, e)
      OBVIOUS
    <3>3. Follows(st, d, c + Len(u)) /\ Len(u) = e /\ Len(u) + Len(d) = Len(b)
      BY <1>3, <3>1, <3>2, FollowsCut
    <3>4. d \in Seq(Toks)
      BY <3>3 DEF Follows
    <3>5. Len(d) = l - e
      BY <1>3, <3>1, <3>3, <3>4, LenProperties
    <3> QED BY <3>2, <3>3, <3>5
  <2>6. Cursor' = c + e
    BY <1>1, <2>2, <2>3, <2>5 DEF Cursor
  <2>7. BufferInv' /\ rbuf' \in Seq(Toks)
    <3>1. Len(rbuf') <= Len(consumed')
      BY <1>1, <2>2, <2>3, <2>5
    <3>2. Follows(Stream', rbuf', Cursor')
      BY <1>3, <2>3, <2>5, <2>6
    <3> QED BY <1>5, <3>1, <3>2 DEF BufferInv, Follows
  <2>8. line # <<>> /\ Last(line) = st[c + e] /\ c < c + e /\ c + e <= Len(st)
    <3>1. Len(line) # 0 /\ Last(line) = line[Len(line)]
      BY <2>2, <2>4 DEF Last
    <3> QED BY <1>1, <1>3, <2>2, <2>4, <3>1
  <2>9. Len(line) = 1 => e = 1 /\ f = <<>> /\ line[1] = st[c + 1]
    <3>1. Len(line) = 1 => e = 1 /\ Len(f) = 0
      <4>1. PICK a \in Nat : a = Len(f)
        BY <2>4
      <4>2. e \in Nat /\ 1 <= e /\ Len(line) = a + e
        BY <2>2, <2>4, <4>1
      <4>3. a + e = 1 => e = 1 /\ a = 0
        BY <4>1, <4>2
      <4> QED BY <4>1, <4>2, <4>3, Zenon
    <3>2. Len(f) = 0 => f = <<>>
      BY <1>3
    <3> QED BY <2>2, <2>4, <3>1, <3>2
  <2>10. ASSUME f = <<>>, c < Len(st), st[c + 1].kind # "body" PROVE line = <<st[c + 1]>>
    <3>1. b[1] = st[c + 1] /\ l > 0
      BY <1>1, <1>4, <2>2
    <3>2. e = 1
      BY <2>2, <2>10, <3>1
    <3>3. Len(f) = 0
      BY <2>10
    <3>4. Len(line) = 1 /\ line[1] = st[c + 1]
      BY <2>4, <2>9, <3>2, <3>3
    <3> QED BY <2>4, <3>4, OneToken
  <2>11. c # Len(st)
    BY <1>1, <1>3, <2>2
  <2>12. LineFacts(line, st, c, c + e)
    BY <1>2, <2>2, <2>3, <2>4, <2>8, <2>9, <2>10, <2>11, SMTT(30) DEF LineFacts
  <2> QED BY <1>1, <1>2, <1>5, <2>6, <2>7, <2>12
<1>7. CASE ~HasLine
  <2>1. \A i \in 1..l : b[i].kind = "body"
    BY <1>1, <1>2, <1>7 DEF HasLine, LineEnds
  <2>2. line = (IF b = <<>> THEN <<>> ELSE f \o b) /\ rbuf' = <<>> /\ spoiled' = TRUE
    BY <1>2, <1>5, <1>7 DEF LineIs, NextLine, Remaining
  <2>3. Len(rbuf') = 0 /\ Cursor' = k
    BY <1>1, <2>2 DEF Cursor
  <2>4. BufferInv' /\ rbuf' \in Seq(Toks)
    <3>1. Follows(Stream', rbuf', Cursor') /\ Len(rbuf') <= Len(consumed')
      BY <1>1, <2>2, <2>3 DEF Follows
    <3> QED BY <1>5, <3>1 DEF BufferInv, Follows
  <2>5. CASE b = <<>>
    <3>1. line = <<>> /\ Len(line) = 0 /\ line \in Seq(Toks)
      BY <2>2, <2>5
    <3>2. c <= k /\ k <= Len(st) /\ Len(line) # 1
      BY <1>1, <1>3, <3>1
    <3>3. LineFacts(line, st, c, k)
      BY <2>2, <3>1, <3>2, Zenon DEF LineFacts
    <3> QED BY <1>1, <1>2, <1>5, <2>3, <2>4, <3>3
  <2>6. CASE b # <<>>
    <3>1. l > 0 /\ line = f \o b
      BY <1>3, <2>2, <2>6
    <3>2. line \in Seq(Toks) /\ Joined(f, b, line)
      BY <1>3, <3>1, ConcatParts, Zenon
    <3>3. Len(line) = Len(f) + l /\ Len(f) \in Nat /\ line[Len(f) + l] = b[l]
      BY <1>3, <3>1, <3>2 DEF Joined
    <3>4. Last(line).kind = "body"
      BY <2>1, <3>1, <3>3 DEF Last
    <3>5. Len(line) = 1 => line[1] = Last(line)
      BY DEF Last
    <3>6. st[c + 1].kind = "body" /\ c # Len(st)
      <4>1. 1 \in 1..l
        BY <3>1
      <4>2. b[1] = st[c + 1] /\ b[1].kind = "body"
        BY <1>4, <2>1, <4>1
      <4>3. c < k /\ k <= Len(st)
        BY <1>1, <1>3, <3>1
      <4> QED BY <1>1, <1>3, <4>2, <4>3
    <3>7. c <= k /\ k <= Len(st) /\ line # <<>>
      BY <1>1, <1>3, <3>1, <3>3
    <3>8. "body" # "first"
      OBVIOUS
    <3>9. LineFacts(line, st, c, k)
      BY <2>2, <3>2, <3>4, <3>5, <3>6, <3>7, <3>8, Zenon DEF LineFacts
    <3> QED BY <1>1, <1>2, <1>5, <2>3, <2>4, <3>9
  <2> QED BY <2>5, <2>6
<1> QED BY <1>6, <1>7

\* A read of the body delivers what comes next, and no more than n tokens of it.
Delivers(n, st, c, cc) ==
  \E bytes : /\ Follows(st, bytes, c) /\ Len(bytes) \in Nat /\ Len(bytes) <= n
             /\ cc = c + Len(bytes) /\ Deliver(bytes)

\* bufio.Reader.Read, from the buffer, past it and after a fill.
LEMMA BodyReads ==
  ASSUME Start, NEW n \in Nat, BodyRead(n)
  PROVE  BufferInv' /\ rbuf' \in Seq(Toks) /\ Delivers(n, Stream, Cursor, Cursor')
PROOF
<1>1. PICK c, k, l \in Nat : c = Cursor /\ k = Len(consumed) /\ l = Len(rbuf) /\ c + l = k
  BY StartFacts
<1>2. PICK b, st : b = rbuf /\ st = Stream
  OBVIOUS
<1>3. /\ b \in Seq(Toks) /\ Len(b) = l /\ Follows(st, b, c)
      /\ Len(st) \in Nat /\ Stream' = st
  BY <1>1, <1>2, StartFacts DEF Start, RequestTypeOK, BufferInv
<1>4. CASE rbuf # <<>> /\ Deliver(Take(rbuf, n)) /\ rbuf' = Drop(rbuf, n) /\ UNCHANGED rvars
  <2>1. PICK u, d : u = Take(b, n) /\ d = Drop(b, n)
    OBVIOUS
  <2>2. /\ Follows(st, u, c) /\ Follows(st, d, c + Len(u)) /\ Len(u) \in Nat /\ Len(u) <= n
        /\ Len(u) + Len(d) = l
    BY <1>3, <2>1, FollowsCut
  <2>3. Len(d) \in Nat
    BY <2>2, LenProperties DEF Follows
  <2>4. rbuf' = d /\ consumed' = consumed /\ arrived' = arrived /\ Deliver(u)
    BY <1>2, <1>4, <2>1 DEF rvars
  <2>5. PICK p, q \in Nat : p = Len(u) /\ q = Len(d) /\ p + q = l
    BY <2>2, <2>3
  <2>6. Len(rbuf') = q /\ Len(consumed') = k
    BY <1>1, <2>4, <2>5
  <2>7. Cursor' = c + p
    BY <1>1, <2>5, <2>6 DEF Cursor
  <2>8. BufferInv'
    <3>1. Len(rbuf') <= Len(consumed')
      BY <1>1, <2>5, <2>6
    <3>2. arrived' <= Len(Stream')
      BY <1>2, <1>3, <2>4 DEF Start, BufferInv
    <3>3. Follows(Stream', rbuf', Cursor')
      BY <1>3, <2>2, <2>4, <2>5, <2>7
    <3> QED BY <3>1, <3>2, <3>3 DEF BufferInv
  <2>9. Delivers(n, st, c, Cursor')
    BY <2>2, <2>4, <2>5, <2>7 DEF Delivers
  <2> QED BY <1>1, <1>2, <2>2, <2>4, <2>8, <2>9 DEF Follows
<1>5. CASE rbuf = <<>> /\ Read(n) /\ Deliver(Got) /\ rbuf' = rbuf
  <2>1. GetsNext(n) /\ arrived' = arrived
    BY <1>5, StartFacts, ReadGets DEF Start, BufferInv
  <2>2. l = 0 /\ c = k
    BY <1>1, <1>5
  <2>3. PICK g, p : /\ g = Got /\ p = Len(g) /\ p \in Nat /\ p <= n /\ Len(consumed') = k + p
                    /\ Follows(st, g, c) /\ Deliver(g)
    BY <1>1, <1>2, <1>5, <2>1, <2>2 DEF GetsNext
  <2>4. Len(rbuf') = 0 /\ rbuf' = <<>>
    BY <1>5
  <2>5. Cursor' = c + p
    BY <2>2, <2>3, <2>4 DEF Cursor
  <2>6. BufferInv'
    <3>1. Len(rbuf') <= Len(consumed')
      BY <2>3, <2>4
    <3>2. arrived' <= Len(Stream')
      BY <1>2, <1>3, <2>1 DEF Start, BufferInv
    <3>3. Follows(Stream', rbuf', Cursor')
      BY <2>4 DEF Follows
    <3> QED BY <3>1, <3>2, <3>3 DEF BufferInv
  <2>7. Delivers(n, st, c, Cursor')
    BY <2>3, <2>5 DEF Delivers
  <2> QED BY <1>1, <1>2, <2>4, <2>6, <2>7
<1>6. CASE rbuf = <<>> /\ Fill(BufioSize) /\ Deliver(Take(Got, n)) /\ rbuf' = Drop(Got, n)
  <2>1. BufioSize \in Nat /\ Read(BufioSize)
    BY <1>6, RequestAssumption DEF Fill
  <2>2. GetsNext(BufioSize) /\ arrived' = arrived
    BY <2>1, StartFacts, ReadGets DEF Start, BufferInv
  <2>3. l = 0 /\ c = k
    BY <1>1, <1>6
  <2>4. PICK g : /\ g = Got /\ Len(g) \in Nat /\ Len(consumed') = k + Len(g) /\ Follows(st, g, c)
    BY <1>1, <1>2, <2>2, <2>3 DEF GetsNext
  <2>5. PICK u, d : u = Take(g, n) /\ d = Drop(g, n)
    OBVIOUS
  <2>6. /\ Follows(st, u, c) /\ Follows(st, d, c + Len(u)) /\ Len(u) \in Nat /\ Len(u) <= n
        /\ Len(u) + Len(d) = Len(g)
    <3>1. Follows(st, g, c)
      BY <2>4
    <3> QED BY <2>5, <3>1, FollowsCut
  <2>7. Len(d) \in Nat
    BY <2>6, LenProperties DEF Follows
  <2>8. rbuf' = d /\ Deliver(u)
    BY <1>6, <2>4, <2>5
  <2>9. PICK p, q \in Nat : p = Len(u) /\ q = Len(d) /\ Len(g) = p + q
    BY <2>6, <2>7
  <2>10. Len(rbuf') = q /\ Len(consumed') = c + p + q
    BY <2>3, <2>4, <2>8, <2>9
  <2>11. Cursor' = c + p
    BY <2>9, <2>10 DEF Cursor
  <2>12. BufferInv'
    <3>1. Len(rbuf') <= Len(consumed')
      BY <2>9, <2>10
    <3>2. arrived' <= Len(Stream')
      BY <1>2, <1>3, <2>2 DEF Start, BufferInv
    <3>3. Follows(Stream', rbuf', Cursor')
      BY <1>3, <2>6, <2>8, <2>9, <2>11
    <3> QED BY <3>1, <3>2, <3>3 DEF BufferInv
  <2>13. Delivers(n, st, c, Cursor')
    BY <2>6, <2>8, <2>9, <2>11 DEF Delivers
  <2> QED BY <1>1, <1>2, <2>6, <2>8, <2>12, <2>13 DEF Follows
<1> QED BY <1>4, <1>5, <1>6 DEF BodyRead

\* The steps that read nothing.
LEMMA NothingRead ==
  ASSUME Start, rbuf' = rbuf, consumed' = consumed, arrived' <= Len(Stream)
  PROVE  BufferInv' /\ Cursor' = Cursor
PROOF
<1>1. Cursor' = Cursor
  BY DEF Cursor
<1> QED BY <1>1, StartFacts DEF Start, BufferInv

-----------------------------------------------------------------------------
(* The steps of the server as the cursor sees them *)

MayOverwrite == header' \in {header, Overwritten(header)}

\* The peer, Close, and the call of OnTrack.
QuietStep ==
  /\ Cursor' = Cursor /\ UNCHANGED <<fragment, req, header, served, spoiled>>
  /\ hpc' = hpc \/ (hpc = "idle" /\ hpc' = "line")

FillStep ==
  /\ ReadingLine /\ MayOverwrite /\ Cursor' = Cursor
  /\ spoiled' = (spoiled \/ (hpc = "fields" /\ header' # header))
  /\ UNCHANGED <<hpc, fragment, req, served>>

\* Only what is no end of a line is a prefix of one.
PrefixStep ==
  /\ ReadingLine /\ Cursor <= Cursor'
  /\ Cursor < Len(Stream) /\ Stream[Cursor + 1].kind = "body"
  /\ fragment' \in Seq(Toks)
  /\ UNCHANGED <<hpc, req, header, served, spoiled>>

LineStep(line) ==
  /\ LineFacts(line, Stream, Cursor, Cursor') /\ fragment' = <<>>
  /\ \/ RequestLine(line) \/ RequestLineFails(line)
     \/ HeaderLine(line) \/ HeaderFails(line) \/ HeaderDone(line)

\* HandlerReads and Discard: no more than is left of the content.
BodyStep ==
  /\ Serving /\ MayOverwrite /\ req.read <= req.length
  /\ Delivers(req.length - req.read, Stream, Cursor, Cursor')
  /\ UNCHANGED <<hpc, fragment, served, spoiled>>

ServerStep ==
  \/ QuietStep \/ FillStep \/ PrefixStep \/ (\E line : LineStep(line)) \/ BodyStep
  \/ (HandlerReturns /\ Cursor' = Cursor) \/ (Finish /\ Cursor' = Cursor)

\* More room is no harm.
LEMMA DeliversLess ==
  ASSUME NEW n \in Nat, NEW m \in Nat, n <= m, NEW st, NEW c, NEW cc, Delivers(n, st, c, cc)
  PROVE  Delivers(m, st, c, cc)
PROOF BY DEF Delivers

\* That is what the actions of the server do.
LEMMA StepIs ==
  ASSUME Start, [SNext]_hvars
  PROVE  BufferInv' /\ rbuf' \in Seq(Toks) /\ ServerStep
PROOF
<1>1. rbuf \in Seq(Toks) /\ arrived <= Len(Stream)
  BY DEF Start, RequestTypeOK, BufferInv
<1>2. CASE PeerSends
  <2>1. rbuf' = rbuf /\ consumed' = consumed /\ arrived' = arrived + 1 /\ arrived < Len(Stream)
    BY <1>2 DEF PeerSends, Arrive, reqVars
  <2>2. arrived \in Nat /\ Len(Stream) \in Nat
    BY StartFacts DEF Start, ReadInv, ReadTypeOK
  <2>3. arrived' <= Len(Stream)
    BY <2>1, <2>2
  <2>4. BufferInv' /\ Cursor' = Cursor
    BY <2>1, <2>3, NothingRead
  <2> QED BY <1>1, <1>2, <2>1, <2>4 DEF PeerSends, reqVars, ServerStep, QuietStep
<1>3. CASE Closes
  <2>1. rbuf' = rbuf /\ consumed' = consumed /\ arrived' = arrived
    BY <1>3 DEF Closes, CloseRead, reqVars
  <2>2. BufferInv' /\ Cursor' = Cursor
    BY <1>1, <2>1, NothingRead
  <2> QED BY <1>1, <1>3, <2>1, <2>2 DEF Closes, reqVars, ServerStep, QuietStep
<1>4. CASE Track
  <2>1. rbuf' = rbuf /\ consumed' = consumed /\ arrived' = arrived
    BY <1>4 DEF Track, ReadFromFd
  <2>2. BufferInv' /\ Cursor' = Cursor
    BY <1>1, <2>1, NothingRead
  <2> QED BY <1>1, <1>4, <2>1, <2>2 DEF Track, ServerStep, QuietStep
<1>5. CASE FillLine
  <2>1. BufferInv' /\ Cursor' = Cursor /\ rbuf' \in Seq(Toks)
    BY <1>5, FillLineReads
  <2>2. FillStep
    BY <1>5, <2>1 DEF FillLine, Fill, FillStep, MayOverwrite
  <2> QED BY <2>1, <2>2 DEF ServerStep
<1>6. CASE LinePrefix
  <2>1. BufferInv' /\ Cursor' = Cursor + Len(rbuf) /\ rbuf' = <<>>
    BY <1>6, LinePrefixReads
  <2>2. PICK c, l, n \in Nat : c = Cursor /\ l = Len(rbuf) /\ n = Len(Stream) /\ c + l <= n
    BY StartFacts
  <2>3. l > 0 /\ \A i \in 1..l : rbuf[i].kind = "body"
    BY <1>6, <2>2, RequestAssumption DEF LinePrefix, HasLine, LineEnds
  <2>4. 1 \in 1..l /\ c < n /\ c <= c + l
    BY <2>2, <2>3
  <2>5. Stream[Cursor + 1].kind = "body"
    BY <2>2, <2>3, <2>4, StartFacts
  <2>6. fragment' \in Seq(Toks)
    <3>1. fragment' = fragment \o rbuf /\ fragment \in Seq(Toks)
      BY <1>6 DEF LinePrefix, Start, RequestTypeOK
    <3> QED BY <1>1, <3>1, ConcatProperties
  <2>7. PrefixStep
    BY <1>6, <2>1, <2>2, <2>4, <2>5, <2>6 DEF PrefixStep, LinePrefix
  <2> QED BY <2>1, <2>7 DEF ServerStep
<1>7. ASSUME NEW line, \/ RequestLine(line) \/ RequestLineFails(line)
                       \/ HeaderLine(line) \/ HeaderFails(line) \/ HeaderDone(line)
      PROVE  BufferInv' /\ rbuf' \in Seq(Toks) /\ ServerStep
  <2>1. LineIs(line) /\ consumed' = consumed /\ arrived' = arrived
    BY <1>7 DEF RequestLine, RequestLineFails, HeaderLine, HeaderFails, HeaderDone, Return,
                TrackDone, rvars
  <2>2. /\ BufferInv' /\ rbuf' \in Seq(Toks) /\ fragment' = <<>>
        /\ LineFacts(line, Stream, Cursor, Cursor')
    BY <2>1, LineReads
  <2>3. LineStep(line)
    BY <1>7, <2>2, Zenon DEF LineStep
  <2> QED BY <2>2, <2>3, Zenon DEF ServerStep
<1>8. PICK read, length \in Nat : read = req.read /\ length = req.length
  BY DEF Start, RequestTypeOK
<1>9. ASSUME NEW n \in Nat, n <= length - read, read < length, Serving, BodyRead(n)
      PROVE  BufferInv' /\ rbuf' \in Seq(Toks) /\ ServerStep
  <2>1. BufferInv' /\ rbuf' \in Seq(Toks) /\ Delivers(n, Stream, Cursor, Cursor')
    BY <1>9, BodyReads
  <2>2. length - read \in Nat
    BY <1>9
  <2>3. Delivers(length - read, Stream, Cursor, Cursor')
    BY <1>9, <2>1, <2>2, DeliversLess
  <2>4. MayOverwrite /\ UNCHANGED <<hpc, fragment, served, spoiled>>
    BY <1>9 DEF BodyRead, Fill, MayOverwrite
  <2>5. BodyStep
    BY <1>8, <1>9, <2>3, <2>4 DEF BodyStep
  <2> QED BY <2>1, <2>5 DEF ServerStep
<1>10. ASSUME NEW len \in Lengths, HandlerReads(len)
       PROVE  BufferInv' /\ rbuf' \in Seq(Toks) /\ ServerStep
  <2>1. read < length /\ len \in Nat /\ Serving /\ BodyRead(BodyLimit(len))
    BY <1>8, <1>10, RequestAssumption DEF HandlerReads, Serving
  <2>2. BodyLimit(len) \in Nat /\ BodyLimit(len) <= length - read
    BY <1>8, <2>1 DEF BodyLimit, Smaller
  <2> QED BY <1>9, <2>1, <2>2
<1>11. CASE Discard
  <2>1. Rest = length - read /\ Rest > 0 /\ Serving /\ BodyRead(Rest)
    BY <1>8, <1>11 DEF Discard, Serving, Rest
  <2>2. Rest \in Nat /\ read < length /\ Rest <= length - read
    BY <1>8, <2>1
  <2> QED BY <1>9, <2>1, <2>2
<1>12. CASE HandlerReturns
  <2>1. rbuf' = rbuf /\ consumed' = consumed /\ arrived' = arrived
    BY <1>12 DEF HandlerReturns, rvars
  <2>2. BufferInv' /\ Cursor' = Cursor
    BY <1>1, <2>1, NothingRead
  <2> QED BY <1>1, <1>12, <2>1, <2>2 DEF ServerStep
<1>13. CASE Finish
  <2>1. rbuf' = rbuf /\ consumed' = consumed /\ arrived' = arrived
    BY <1>13 DEF Finish, Return, TrackDone
  <2>2. BufferInv' /\ Cursor' = Cursor
    BY <1>1, <2>1, NothingRead
  <2> QED BY <1>1, <1>13, <2>1, <2>2 DEF ServerStep
<1>14. CASE UNCHANGED hvars
  <2>1. rbuf' = rbuf /\ consumed' = consumed /\ arrived' = arrived
    BY <1>14 DEF hvars, rvars, reqVars
  <2>2. BufferInv' /\ Cursor' = Cursor
    BY <1>1, <2>1, NothingRead
  <2> QED BY <1>1, <1>14, <2>1, <2>2 DEF hvars, reqVars, ServerStep, QuietStep
<1> QED BY <1>2, <1>3, <1>4, <1>5, <1>6, <1>7, <1>10, <1>11, <1>12, <1>13, <1>14
        DEF SNext, ReadRequest

-----------------------------------------------------------------------------
(* The invariant of the server *)

\* The line and the body of a request while it is parsed and served.
LineInv ==
  /\ hpc \notin {"line", "fields"} => fragment = <<>>
  /\ hpc \in {"fields", "serve", "finish"} => req.line # <<>>
  /\ hpc = "fields" => req.read = 0 /\ req.body = <<>>
  /\ \A i \in 1..Len(served) : served[i] # <<>>
  /\ Serving => req.read <= req.length /\ Len(req.body) = req.read

\* No lookup of the content's length finds a key, or it finds that of request r alone.
Unkeyed(keys) == \A k \in keys : k.name # "Content-Length"
Keyed(keys, r) ==
  \A k \in keys : k.name = "Content-Length" => k.req = r /\ name[r] = "Content-Length"

\* The first n tokens of b are those of the body of request r.
OwnBody(r, n, b) == \A i \in 1..n : b[i] = Body(r)[i]

\* Where the cursor is in the header of request r, and in its body.
FieldsAt(keys, r, c) ==
  \/ c = Offsets[r] + 1 /\ Unkeyed(keys)
  \/ c = Offsets[r] + 2 /\ Keyed(keys, r)
BodyAt(keys, r, q, c) ==
  /\ Keyed(keys, r) /\ q.length \in {0, OwnLength(r)}
  /\ c = Offsets[r] + 3 + q.read
  /\ OwnBody(r, q.read, q.body)

\* A request whose own line was parsed is read in step with the stream, and the
\* recycled header brings no key into it.
HeaderInv ==
  /\ hpc \in {"idle", "line"} => Unkeyed(header)
  /\ hpc = "fields" /\ IsFirst(req.line)
       => fragment = <<>> /\ FieldsAt(header, req.line[1].req, Cursor)
  /\ Serving /\ IsFirst(req.line) => BodyAt(header, req.line[1].req, req, Cursor)

\* The keys that a fill overwrites are no keys of the content's length.
LEMMA OverwrittenKeys ==
  ASSUME NEW keys, keys \subseteq Keys
  PROVE  Overwritten(keys) \subseteq Keys /\ Unkeyed(Overwritten(keys))
PROOF
<1>1. ASSUME NEW k \in keys
      PROVE  /\ [k EXCEPT !.name = "overwritten"] \in Keys
             /\ [k EXCEPT !.name = "overwritten"].name = "overwritten"
  BY DEF Keys
<1>2. "overwritten" # "Content-Length"
  OBVIOUS
<1> QED BY <1>1, <1>2 DEF Overwritten, Unkeyed

\* The length that the header gives.
LEMMA ContentLengthIs ==
  ASSUME RequestTypeOK
  PROVE  /\ ContentLength \in Nat
         /\ \A r \in Reqs : Keyed(header, r) => ContentLength \in {0, OwnLength(r)}
         /\ \A r \in Reqs : Keyed(header, r) /\ ~Unkeyed(header) => ContentLength = bodyLen[r]
         /\ Unkeyed(header) => ContentLength = 0
PROOF
<1> DEFINE found == {k \in header : k.name = "Content-Length"}
<1>1. \A k \in header : k.req \in Reqs
  BY DEF RequestTypeOK, Keys
<1>2. \A r \in Reqs : bodyLen[r] \in Nat
  BY DEF RequestTypeOK, Lens
<1>3. CASE found = {}
  <2>1. ContentLength = 0
    BY <1>3 DEF ContentLength
  <2>2. Unkeyed(header)
    BY <1>3 DEF Unkeyed
  <2> QED BY <2>1, <2>2
<1>4. CASE found # {}
  <2>1. PICK k : k = (CHOOSE x \in found : TRUE) /\ k \in found
    BY <1>4
  <2>2. ContentLength = bodyLen[k.req] /\ k \in header /\ k.name = "Content-Length"
    BY <1>4, <2>1 DEF ContentLength
  <2>3. ~Unkeyed(header)
    BY <2>2 DEF Unkeyed
  <2>4. \A r \in Reqs : Keyed(header, r) => k.req = r /\ name[r] = "Content-Length"
    BY <2>2 DEF Keyed
  <2>5. \A r \in Reqs : Keyed(header, r) => OwnLength(r) = bodyLen[r]
    BY <2>4 DEF OwnLength
  <2> HIDE DEF found
  <2> QED BY <1>1, <1>2, <2>2, <2>3, <2>4, <2>5
<1> QED BY <1>3, <1>4

\* What a step of the body does to the request.
LEMMA DeliverIs ==
  ASSUME RequestTypeOK, LineInv, BodyStep, Cursor \in Nat
  PROVE  \E d \in Nat, bytes \in Seq(Toks) :
           /\ d = Len(bytes) /\ req.read + d <= req.length
           /\ Cursor' = Cursor + d /\ Follows(Stream, bytes, Cursor)
           /\ req' \in [line : Seq(Toks), length : Nat, read : Nat, body : Seq(Toks)]
           /\ req'.line = req.line /\ req'.length = req.length /\ req'.read = req.read + d
           /\ req'.body = req.body \o bytes
PROOF
<1>1. PICK bytes : /\ Follows(Stream, bytes, Cursor) /\ Len(bytes) \in Nat
                   /\ Len(bytes) <= req.length - req.read
                   /\ Cursor' = Cursor + Len(bytes) /\ Deliver(bytes)
  BY DEF BodyStep, Delivers
<1>2. bytes \in Seq(Toks)
  BY <1>1 DEF Follows
<1>3. PICK d \in Nat : d = Len(bytes)
  BY <1>1
<1>4. req \in [line : Seq(Toks), length : Nat, read : Nat, body : Seq(Toks)]
  BY DEF RequestTypeOK
<1>5. PICK a, r, b : a = req.length /\ r = req.read /\ b = req.body
  OBVIOUS
<1>6. a \in Nat /\ r \in Nat /\ b \in Seq(Toks) /\ d <= a - r
  BY <1>1, <1>3, <1>4, <1>5
<1>7. r + d \in Nat /\ r + d <= a
  BY <1>6
<1>8. PICK w : w = b \o bytes /\ w \in Seq(Toks)
  BY <1>2, <1>6, ConcatProperties
<1>9. req' = [req EXCEPT !.body = w, !.read = r + d]
  BY <1>1, <1>3, <1>5, <1>8 DEF Deliver
<1>10. /\ req' \in [line : Seq(Toks), length : Nat, read : Nat, body : Seq(Toks)]
       /\ req'.line = req.line /\ req'.length = a /\ req'.read = r + d /\ req'.body = w
  BY <1>4, <1>5, <1>7, <1>8, <1>9
<1> QED BY <1>1, <1>2, <1>3, <1>5, <1>7, <1>8, <1>10

\* The types of what the actions assign.
LEMMA NoRequestType ==
  /\ NoRequest \in [line : Seq(Toks), length : Nat, read : Nat, body : Seq(Toks)]
  /\ \A l \in Seq(Toks) :
       /\ [NoRequest EXCEPT !.line = l]
            \in [line : Seq(Toks), length : Nat, read : Nat, body : Seq(Toks)]
       /\ [NoRequest EXCEPT !.line = l].line = l
       /\ [NoRequest EXCEPT !.line = l].read = 0
       /\ [NoRequest EXCEPT !.line = l].body = <<>>
PROOF
<1>1. <<>> \in Seq(Toks) /\ 0 \in Nat
  OBVIOUS
<1> QED BY <1>1 DEF NoRequest

\* Type correctness is preserved, and so is LineInv.
LEMMA TypeStep ==
  ASSUME RequestTypeOK, LineInv, Fixed, Cursor \in Nat, rbuf' \in Seq(Toks), ServerStep
  PROVE  RequestTypeOK' /\ LineInv'
PROOF
<1>1. bodyLen' \in Lens /\ name' \in [Reqs -> Names]
  BY DEF Fixed, RequestTypeOK
<1>2. MayOverwrite => header' \subseteq Keys
  BY OverwrittenKeys DEF MayOverwrite, RequestTypeOK
<1>3. <<>> \in Seq(Toks)
  OBVIOUS
<1>4. CASE QuietStep
  BY <1>1, <1>4 DEF QuietStep, RequestTypeOK, LineInv, Serving
<1>5. CASE FillStep
  BY <1>1, <1>2, <1>5 DEF FillStep, RequestTypeOK, LineInv, Serving
<1>6. CASE PrefixStep
  BY <1>1, <1>6 DEF PrefixStep, ReadingLine, RequestTypeOK, LineInv, Serving
<1>7. ASSUME NEW line, LineStep(line) PROVE RequestTypeOK' /\ LineInv'
  <2>1. line \in Seq(Toks) /\ fragment' = <<>> /\ spoiled' \in BOOLEAN
    BY <1>7 DEF LineStep, LineFacts, RequestTypeOK
  <2>2. CASE RequestLine(line)
    <3>1. req' \in [line : Seq(Toks), length : Nat, read : Nat, body : Seq(Toks)]
          /\ req'.line = line /\ line # <<>> /\ req'.read = 0 /\ req'.body = <<>>
      BY <2>1, <2>2, NoRequestType DEF RequestLine
    <3> QED BY <1>1, <1>3, <2>1, <2>2, <3>1 DEF RequestLine, RequestTypeOK, LineInv, Serving
  <2>3. CASE RequestLineFails(line)
    BY <1>1, <1>3, <2>1, <2>3, NoRequestType
       DEF RequestLineFails, Return, RequestTypeOK, LineInv, Serving
  <2>4. CASE HeaderLine(line)
    <3>1. header' \subseteq Keys
      <4>1. CASE ~IsField(line)
        BY <2>4, <4>1 DEF HeaderLine, RequestTypeOK
      <4>2. CASE IsField(line)
        <5>1. PICK r : r = line[1].req
          OBVIOUS
        <5>2. line[1] \in Toks
          <6>1. 1 \in 1..Len(line)
            BY <2>1, <4>2 DEF IsField
          <6> QED BY <2>1, <6>1, ElementOfSeq
        <5>3. r \in Reqs
          BY <5>1, <5>2, TokenType
        <5>4. [name |-> name[r], req |-> r] \in Keys
          BY <5>3 DEF RequestTypeOK, Keys
        <5>5. header' = {k \in header : k.name # name[r]} \cup {[name |-> name[r], req |-> r]}
          BY <2>4, <4>2, <5>1 DEF HeaderLine
        <5> QED BY <5>4, <5>5 DEF RequestTypeOK
      <4> QED BY <4>1, <4>2
    <3> QED BY <1>1, <1>3, <2>1, <2>4, <3>1 DEF HeaderLine, RequestTypeOK, LineInv, Serving
  <2>5. CASE HeaderFails(line)
    BY <1>1, <1>3, <2>1, <2>5, NoRequestType
       DEF HeaderFails, Return, RequestTypeOK, LineInv, Serving
  <2>6. CASE HeaderDone(line)
    <3>1. req' = [req EXCEPT !.length = ContentLength] /\ ContentLength \in Nat
      BY <2>6, ContentLengthIs DEF HeaderDone
    <3>2. /\ req' \in [line : Seq(Toks), length : Nat, read : Nat, body : Seq(Toks)]
          /\ req'.line = req.line /\ req'.read = req.read /\ req'.body = req.body
          /\ req'.length = ContentLength
      BY <3>1 DEF RequestTypeOK
    <3>3. req'.read <= req'.length /\ Len(req'.body) = req'.read /\ req'.line # <<>>
      <4>1. req.read = 0 /\ req.body = <<>> /\ Len(req.body) = 0 /\ req.line # <<>>
        BY <2>6 DEF HeaderDone, LineInv
      <4> QED BY <3>1, <3>2, <4>1
    <3> QED BY <1>1, <1>3, <2>1, <2>6, <3>2, <3>3
            DEF HeaderDone, RequestTypeOK, LineInv, Serving
  <2> QED BY <1>7, <2>2, <2>3, <2>4, <2>5, <2>6 DEF LineStep
<1>8. CASE BodyStep
  <2>1. PICK d \in Nat, bytes \in Seq(Toks) :
           /\ d = Len(bytes) /\ req.read + d <= req.length
           /\ req' \in [line : Seq(Toks), length : Nat, read : Nat, body : Seq(Toks)]
           /\ req'.line = req.line /\ req'.length = req.length /\ req'.read = req.read + d
           /\ req'.body = req.body \o bytes
    BY <1>8, DeliverIs
  <2>2. PICK b \in Seq(Toks) : b = req.body /\ Len(b) = req.read
    BY <1>8 DEF BodyStep, RequestTypeOK, LineInv
  <2>3. Len(req'.body) = req'.read
    <3>1. Len(b \o bytes) = Len(b) + Len(bytes)
      BY <2>2, ConcatProperties
    <3> QED BY <2>1, <2>2, <3>1
  <2> QED BY <1>1, <1>2, <1>8, <2>1, <2>3 DEF BodyStep, RequestTypeOK, LineInv, Serving
<1>9. CASE HandlerReturns
  <2>1. req.line \in Seq(Toks) /\ req.line # <<>> /\ served \in Seq(Seq(Toks))
    BY <1>9 DEF HandlerReturns, RequestTypeOK, LineInv
  <2>2. PICK s, l : s = served /\ l = req.line /\ served' = Append(s, l)
    BY <1>9 DEF HandlerReturns
  <2>3. /\ served' \in Seq(Seq(Toks)) /\ Len(served') = Len(s) + 1
        /\ \A i \in 1..Len(s) : served'[i] = s[i]
        /\ served'[Len(s) + 1] = l
    BY <2>1, <2>2, AppendProperties
  <2>4. \A i \in 1..Len(served') : served'[i] # <<>>
    <3>1. Len(s) \in Nat /\ \A i \in 1..Len(s) : s[i] # <<>>
      BY <2>1, <2>2, LenProperties DEF LineInv
    <3> QED BY <2>1, <2>2, <2>3, <3>1
  <2> QED BY <1>1, <1>9, <2>3, <2>4 DEF HandlerReturns, RequestTypeOK, LineInv, Serving
<1>10. CASE Finish
  <2>1. spoiled' \in BOOLEAN /\ header' \subseteq Keys
    BY <1>10 DEF Finish, FreeHeader, RequestTypeOK
  <2> QED BY <1>1, <1>10, <2>1, NoRequestType DEF Finish, Return, RequestTypeOK, LineInv, Serving
<1> QED BY <1>4, <1>5, <1>6, <1>7, <1>8, <1>9, <1>10 DEF ServerStep

\* A line that is the request line of r.
LEMMA FirstIs ==
  ASSUME NEW l \in Seq(Toks), IsFirst(l)
  PROVE  l[1].req \in Reqs /\ l[1].kind = "first" /\ Len(l) = 1
PROOF
<1>1. Len(l) = 1 /\ 1 \in 1..Len(l) /\ l[1].kind = "first"
  BY DEF IsFirst
<1>2. l[1] \in Toks
  BY <1>1, ElementOfSeq
<1> QED BY <1>1, <1>2, TokenType

\* A fill adds no key of the content's length.
LEMMA FillKeeps ==
  ASSUME RequestTypeOK, Fixed, MayOverwrite
  PROVE  /\ Unkeyed(header) => Unkeyed(header')
         /\ \A r : Keyed(header, r) => Keyed(header', r)
PROOF
<1>1. CASE header' = header
  BY <1>1 DEF Fixed, Keyed, Unkeyed
<1>2. CASE header' = Overwritten(header)
  <2>1. Unkeyed(header')
    BY <1>2, OverwrittenKeys DEF RequestTypeOK
  <2>2. \A r : Keyed(header', r)
    BY <2>1 DEF Keyed, Unkeyed
  <2> QED BY <2>1, <2>2
<1> QED BY <1>1, <1>2 DEF MayOverwrite

\* The state that stays.
Started == Start /\ LineInv /\ RequestTypeOK'

\* In the header of request r the next line is the one it has there.
LEMMA NextOfHeader ==
  ASSUME Started, NEW r \in Reqs, fragment = <<>>, NEW line, line # <<>>,
         LineFacts(line, Stream, Cursor, Cursor')
  PROVE  /\ Cursor = Offsets[r] + 1
              => line = <<Token("field", r)>> /\ Cursor' = Offsets[r] + 2 /\ spoiled' = spoiled
         /\ Cursor = Offsets[r] + 2
              => line = <<Token("end", r)>> /\ Cursor' = Offsets[r] + 3 /\ spoiled' = spoiled
PROOF
<1>1. RequestIs(r)
  BY StartFacts, RequestAt DEF Started
<1>2. PICK o, n, s \in Nat : /\ o = Offsets[r] /\ n = bodyLen[r] /\ s = Len(Stream)
                             /\ o + 3 + n <= s
  BY <1>1, StartFacts, ZenonT(40) DEF Started, RequestIs
<1>3. o + 1 < s /\ o + 2 < s /\ (o + 1) + 1 = o + 2 /\ (o + 2) + 1 = o + 3
  BY <1>2
<1>4. ASSUME NEW c \in Nat, Cursor = c, c < s, Stream[c + 1].kind # "body"
      PROVE  line = <<Stream[c + 1]>> /\ Cursor' = c + 1 /\ spoiled' = spoiled
  <2>1. line = <<Stream[c + 1]>>
    BY <1>2, <1>4 DEF LineFacts
  <2>2. Len(line) = 1 /\ line[1] = Stream[c + 1]
    BY <2>1
  <2> QED BY <1>4, <2>1, <2>2 DEF LineFacts
<1>5. ASSUME Cursor = o + 1
      PROVE  line = <<Token("field", r)>> /\ Cursor' = o + 2 /\ spoiled' = spoiled
  <2>1. Stream[(o + 1) + 1] = Token("field", r) /\ Token("field", r).kind # "body"
    BY <1>1, <1>2, <1>3 DEF RequestIs, Token
  <2>2. o + 1 \in Nat
    BY <1>2
  <2> QED BY <1>3, <1>4, <1>5, <2>1, <2>2
<1>6. ASSUME Cursor = o + 2
      PROVE  line = <<Token("end", r)>> /\ Cursor' = o + 3 /\ spoiled' = spoiled
  <2>1. Stream[(o + 2) + 1] = Token("end", r) /\ Token("end", r).kind # "body"
    BY <1>1, <1>2, <1>3 DEF RequestIs, Token
  <2>2. o + 2 \in Nat
    BY <1>2
  <2> QED BY <1>3, <1>4, <1>6, <2>1, <2>2
<1> QED BY <1>2, <1>5, <1>6

\* The parser is in the header of request r: the blank line comes third.
LEMMA LineOfHeader ==
  ASSUME Started, HeaderInv, hpc = "fields", IsFirst(req.line), NEW r \in Reqs,
         r = req.line[1].req, NEW line, line # <<>>,
         LineFacts(line, Stream, Cursor, Cursor')
  PROVE  /\ IsBlank(line) => /\ Cursor = Offsets[r] + 2 /\ Keyed(header, r)
                             /\ Cursor' = Offsets[r] + 3 /\ spoiled' = spoiled
         /\ ~IsBlank(line) => /\ Cursor = Offsets[r] + 1 /\ Unkeyed(header)
                              /\ line = <<Token("field", r)>>
                              /\ Cursor' = Offsets[r] + 2 /\ spoiled' = spoiled
PROOF
<1>1. fragment = <<>> /\ FieldsAt(header, r, Cursor)
  BY DEF HeaderInv
<1>2. Cursor = Offsets[r] + 1
        => line = <<Token("field", r)>> /\ Cursor' = Offsets[r] + 2 /\ spoiled' = spoiled
  BY <1>1, NextOfHeader
<1>3. Cursor = Offsets[r] + 2
        => line = <<Token("end", r)>> /\ Cursor' = Offsets[r] + 3 /\ spoiled' = spoiled
  BY <1>1, NextOfHeader
<1>4. IsBlank(<<Token("end", r)>>) /\ ~IsBlank(<<Token("field", r)>>)
  BY DEF IsBlank, Token
<1> QED BY <1>1, <1>2, <1>3, <1>4, Zenon DEF FieldsAt

\* There every line is whole.
LEMMA PrefixOutsideHeader ==
  ASSUME Started, HeaderInv, hpc = "fields", PrefixStep
  PROVE  ~IsFirst(req.line)
PROOF
<1> SUFFICES ASSUME IsFirst(req.line) PROVE FALSE
  OBVIOUS
<1>1. req.line[1].req \in Reqs
  BY FirstIs DEF Started, Start, RequestTypeOK
<1>2. PICK r \in Reqs : FieldsAt(header, r, Cursor)
  BY <1>1 DEF HeaderInv
<1>3. RequestIs(r)
  BY StartFacts, RequestAt DEF Started
<1>4. PICK o \in Nat : o = Offsets[r]
  BY <1>3 DEF RequestIs
<1>5. Cursor + 1 = o + 2 \/ Cursor + 1 = o + 3
  BY <1>2, <1>4 DEF FieldsAt
<1>6. Stream[o + 2].kind # "body" /\ Stream[o + 3].kind # "body"
  BY <1>3, <1>4 DEF RequestIs, Token
<1>7. Stream[Cursor + 1].kind = "body"
  BY DEF PrefixStep
<1> QED BY <1>5, <1>6, <1>7

\* The body that is delivered is that of the request.
LEMMA BodyGoesOn ==
  ASSUME Started, NEW r \in Reqs, NEW read \in Nat, NEW d \in Nat, read + d <= bodyLen[r],
         Cursor = Offsets[r] + 3 + read, NEW b \in Seq(Toks), Len(b) = read,
         NEW bytes \in Seq(Toks), d = Len(bytes), Follows(Stream, bytes, Cursor),
         OwnBody(r, read, b)
  PROVE  OwnBody(r, read + d, b \o bytes)
PROOF
<1>1. RequestIs(r)
  BY StartFacts, RequestAt DEF Started
<1>2. PICK o, n \in Nat : o = Offsets[r] /\ n = bodyLen[r]
  BY <1>1 DEF RequestIs
<1>3. \A k \in 1..n : Stream[o + 3 + k] = Body(r)[k]
  BY <1>1, <1>2 DEF RequestIs
<1>4. PICK w : w = b \o bytes
  OBVIOUS
<1>5. Joined(b, bytes, w)
  BY <1>4, ConcatParts, Zenon
<1>6. ASSUME NEW i \in 1..(read + d) PROVE w[i] = Body(r)[i]
  <2>1. CASE i <= read
    <3>1. i \in 1..read
      BY <2>1
    <3>2. w[i] = b[i]
      BY <1>5, <3>1 DEF Joined
    <3> QED BY <3>1, <3>2 DEF OwnBody
  <2>2. CASE i > read
    <3>1. PICK j \in 1..d : i = read + j
      <4>1. i - read \in 1..d /\ i = read + (i - read)
        BY <2>2
      <4> QED BY <4>1
    <3>2. w[read + j] = bytes[j]
      BY <1>5, <3>1 DEF Joined
    <3>3. bytes[j] = Stream[(o + 3 + read) + j]
      BY <1>2, <3>1 DEF Follows
    <3>4. i \in 1..n /\ (o + 3 + read) + j = o + 3 + i
      <4>1. read + d <= n /\ i \in 1..(read + d) /\ j \in Int
        BY <1>2
      <4>2. i \in 1..n
        BY <1>2, <4>1
      <4>3. \A x, y, z \in Int : (x + 3 + y) + z = x + 3 + (y + z)
        OBVIOUS
      <4>4. o \in Int /\ read \in Int
        BY <1>2
      <4> QED BY <3>1, <4>1, <4>2, <4>3, <4>4
    <3> QED BY <1>3, <3>1, <3>2, <3>3, <3>4
  <2> QED BY <2>1, <2>2
<1> QED BY <1>4, <1>6 DEF OwnBody

\* The own length of a request is at most that of its body.
LEMMA OwnLengthIs ==
  ASSUME RequestTypeOK, NEW r \in Reqs
  PROVE  /\ OwnLength(r) \in Nat /\ bodyLen[r] \in Nat
         /\ \A n \in {0, OwnLength(r)} : n <= bodyLen[r]
PROOF BY DEF OwnLength, RequestTypeOK, Lens

\* The requests being fixed, HeaderInv of the next state.
LEMMA HeaderInvNext ==
  ASSUME Fixed,
         hpc' \in {"idle", "line"} => Unkeyed(header'),
         hpc' = "fields" /\ IsFirst(req'.line)
           => fragment' = <<>> /\ FieldsAt(header', req'.line[1].req, Cursor'),
         hpc' \in {"serve", "finish"} /\ IsFirst(req'.line)
           => BodyAt(header', req'.line[1].req, req', Cursor')
  PROVE  HeaderInv'
PROOF
<1>1. /\ Offsets' = Offsets /\ \A r : Body(r)' = Body(r) /\ OwnLength(r)' = OwnLength(r)
  BY StreamFixed DEF Fixed
<1>2. ASSUME FieldsAt(header', req'.line[1].req, Cursor')
      PROVE  FieldsAt(header, req.line[1].req, Cursor)'
  BY <1>1, <1>2 DEF Fixed, FieldsAt, Keyed, Unkeyed
<1>3. ASSUME BodyAt(header', req'.line[1].req, req', Cursor')
      PROVE  BodyAt(header, req.line[1].req, req, Cursor)'
  BY <1>1, <1>3 DEF Fixed, BodyAt, OwnBody, Keyed
<1> QED BY <1>2, <1>3 DEF HeaderInv, IsFirst, Serving, Unkeyed

\* The header and the body stay in step with the stream.
LEMMA HeaderStep ==
  ASSUME Started, HeaderInv, ServerStep
  PROVE  HeaderInv'
PROOF
<1>1. RequestTypeOK /\ Fixed /\ Cursor \in Nat /\ bodyLen \in Lens
  BY StartFacts DEF Started, Start
<1>2. IsFirst(req.line) => req.line[1].req \in Reqs
  BY <1>1, FirstIs DEF RequestTypeOK
<1>3. MayOverwrite => /\ Unkeyed(header) => Unkeyed(header')
                      /\ \A r : Keyed(header, r) => Keyed(header', r)
  BY <1>1, FillKeeps
<1>4. CASE QuietStep
  BY <1>1, <1>4, HeaderInvNext DEF QuietStep, HeaderInv, Serving
<1>5. CASE FillStep
  <2>1. \A r, c : FieldsAt(header, r, c) => FieldsAt(header', r, c)
    BY <1>3, <1>5 DEF FieldsAt, FillStep
  <2> QED BY <1>1, <1>3, <1>5, <2>1, HeaderInvNext DEF FillStep, HeaderInv, ReadingLine
<1>6. CASE PrefixStep
  <2>1. hpc = "fields" => ~IsFirst(req.line)
    BY <1>6, PrefixOutsideHeader
  <2> QED BY <1>1, <1>6, <2>1, HeaderInvNext DEF PrefixStep, HeaderInv, ReadingLine
<1>7. ASSUME NEW line, LineStep(line) PROVE HeaderInv'
  <2>1. LineFacts(line, Stream, Cursor, Cursor') /\ fragment' = <<>> /\ line \in Seq(Toks)
    BY <1>7 DEF LineStep, LineFacts
  <2>2. CASE RequestLine(line)
    <3>1. hpc = "line" /\ hpc' = "fields" /\ header' = header /\ req'.line = line
      BY <2>1, <2>2, NoRequestType DEF RequestLine
    <3>2. Unkeyed(header')
      BY <3>1 DEF HeaderInv
    <3>3. ASSUME IsFirst(line) PROVE Cursor' = Offsets[line[1].req] + 1
      <4>1. Len(line) = 1 /\ line[1].kind = "first" /\ line[1].kind # "body"
        BY <3>3 DEF IsFirst
      <4>2. PICK c \in Nat : c = Cursor + 1 /\ Cursor' = c /\ line[1] = Stream[c] /\ c <= Len(Stream)
        BY <1>1, <2>1, <4>1 DEF LineFacts
      <4>3. c \in 1..Len(Stream)
        BY <1>1, <4>2, OffsetFacts
      <4> QED BY <1>1, <4>1, <4>2, <4>3, FirstAt
    <3> QED BY <1>1, <2>1, <3>1, <3>2, <3>3, HeaderInvNext DEF FieldsAt
  <2>3. CASE RequestLineFails(line)
    BY <1>1, <2>3, HeaderInvNext DEF RequestLineFails, Return, HeaderInv
  <2>4. CASE HeaderLine(line)
    <3>1. hpc = "fields" /\ hpc' = "fields" /\ req' = req /\ line # <<>> /\ ~IsBlank(line)
      BY <2>4 DEF HeaderLine
    <3>2. ASSUME IsFirst(req.line)
          PROVE  FieldsAt(header', req.line[1].req, Cursor')
      <4>1. PICK r \in Reqs : r = req.line[1].req
        BY <1>2, <3>2
      <4>4. Cursor = Offsets[r] + 1 /\ Unkeyed(header)
        BY <2>1, <3>1, <3>2, <4>1, LineOfHeader
      <4>5. line = <<Token("field", r)>> /\ Cursor' = Offsets[r] + 2
        BY <2>1, <3>1, <3>2, <4>1, LineOfHeader
      <4>6. IsField(line) /\ line[1].req = r
        BY <4>5 DEF IsField, Token
      <4>7. header' = {k \in header : k.name # name[r]} \cup {[name |-> name[r], req |-> r]}
        BY <2>4, <4>6 DEF HeaderLine
      <4>8. Keyed(header', r)
        <5>1. ASSUME NEW k \in header', k.name = "Content-Length"
              PROVE  k.req = r /\ name[r] = "Content-Length"
          <6>1. CASE k \in header
            BY <4>4, <5>1, <6>1 DEF Unkeyed
          <6>2. CASE k = [name |-> name[r], req |-> r]
            BY <5>1, <6>2
          <6> QED BY <4>7, <6>1, <6>2
        <5> QED BY <5>1 DEF Keyed
      <4> QED BY <4>1, <4>5, <4>8 DEF FieldsAt
    <3> QED BY <1>1, <2>1, <3>1, <3>2, HeaderInvNext
  <2>5. CASE HeaderFails(line)
    BY <1>1, <2>5, HeaderInvNext DEF HeaderFails, Return, Unkeyed
  <2>6. CASE HeaderDone(line)
    <3>1. /\ hpc = "fields" /\ hpc' = "serve" /\ header' = header /\ line # <<>>
          /\ IsBlank(line) /\ req' = [req EXCEPT !.length = ContentLength]
      BY <2>6 DEF HeaderDone, IsBlank
    <3>2. /\ req'.line = req.line /\ req'.read = 0 /\ req'.length = ContentLength
      BY <1>1, <3>1 DEF RequestTypeOK, Started, LineInv
    <3>3. ASSUME IsFirst(req.line) PROVE BodyAt(header', req.line[1].req, req', Cursor')
      <4>1. PICK r \in Reqs : r = req.line[1].req
        BY <1>2, <3>3
      <4>4. Cursor = Offsets[r] + 2 /\ Keyed(header, r)
        BY <2>1, <3>1, <3>3, <4>1, LineOfHeader
      <4>5. Cursor' = Offsets[r] + 3
        BY <2>1, <3>1, <3>3, <4>1, LineOfHeader
      <4>6. PICK o \in Nat : o = Offsets[r]
        BY <1>1, RequestAt DEF RequestIs
      <4>7. Cursor' = Offsets[r] + 3 + req'.read
        BY <3>2, <4>5, <4>6
      <4>8. req'.length \in {0, OwnLength(r)}
        BY <1>1, <3>2, <4>4, ContentLengthIs
      <4>9. OwnBody(r, req'.read, req'.body)
        BY <3>2 DEF OwnBody
      <4> QED BY <3>1, <4>1, <4>4, <4>7, <4>8, <4>9 DEF BodyAt
    <3> QED BY <1>1, <3>1, <3>2, <3>3, HeaderInvNext
  <2> QED BY <1>7, <2>2, <2>3, <2>4, <2>5, <2>6 DEF LineStep
<1>8. CASE BodyStep
  <2>1. PICK d \in Nat, bytes \in Seq(Toks) :
           /\ d = Len(bytes) /\ req.read + d <= req.length
           /\ Cursor' = Cursor + d /\ Follows(Stream, bytes, Cursor)
           /\ req'.line = req.line /\ req'.length = req.length /\ req'.read = req.read + d
           /\ req'.body = req.body \o bytes
    BY <1>1, <1>8, DeliverIs DEF Started
  <2>2. Serving /\ hpc' = hpc /\ MayOverwrite
    BY <1>8 DEF BodyStep
  <2>3. ASSUME IsFirst(req.line) PROVE BodyAt(header', req.line[1].req, req', Cursor')
    <3>1. PICK r \in Reqs : r = req.line[1].req
      BY <1>2, <2>3
    <3>2. BodyAt(header, r, req, Cursor)
      BY <2>2, <2>3, <3>1 DEF HeaderInv
    <3>3. PICK read, length, n, o \in Nat : /\ read = req.read /\ length = req.length
                                            /\ n = bodyLen[r] /\ o = Offsets[r]
      BY <1>1, RequestAt DEF RequestTypeOK, RequestIs
    <3>4. length <= n /\ length \in {0, OwnLength(r)}
      BY <1>1, <3>2, <3>3, OwnLengthIs DEF BodyAt
    <3>5. read + d <= n
      BY <2>1, <3>3, <3>4
    <3>6. PICK b \in Seq(Toks) : b = req.body /\ Len(b) = read
      BY <1>1, <2>2, <3>3 DEF RequestTypeOK, Started, LineInv
    <3>7. OwnBody(r, read, b)
      BY <3>2, <3>3, <3>6 DEF BodyAt
    <3>8. Cursor = Offsets[r] + 3 + read
      BY <3>2, <3>3 DEF BodyAt
    <3>9. OwnBody(r, read + d, b \o bytes)
      <4>1. read + d <= bodyLen[r] /\ d = Len(bytes) /\ Follows(Stream, bytes, Cursor)
        BY <2>1, <3>3, <3>5
      <4> QED BY <3>6, <3>7, <3>8, <4>1, BodyGoesOn, Zenon
    <3>10. Cursor' = Offsets[r] + 3 + (read + d)
      BY <2>1, <3>3, <3>8, SMTT(30)
    <3>11. Keyed(header', r)
      BY <1>3, <2>2, <3>2 DEF BodyAt
    <3>12. req'.read = read + d /\ req'.length = length /\ req'.body = b \o bytes
      BY <2>1, <3>3, <3>6
    <3> QED BY <3>1, <3>4, <3>9, <3>10, <3>11, <3>12 DEF BodyAt
  <2> QED BY <1>1, <2>1, <2>2, <2>3, HeaderInvNext DEF Serving
<1>9. CASE HandlerReturns /\ Cursor' = Cursor
  BY <1>1, <1>9, HeaderInvNext DEF HandlerReturns, HeaderInv, Serving
<1>10. CASE Finish
  BY <1>1, <1>10, HeaderInvNext DEF Finish, FreeHeader, Return, Unkeyed
<1> QED BY <1>4, <1>5, <1>6, <1>7, <1>8, <1>9, <1>10 DEF ServerStep

\* The request line that line l ends with is behind the cursor.
Passed(l, c) ==
  LineNumber(l) > 0 => LineNumber(l) \in Reqs /\ Offsets[LineNumber(l)] < c

\* All requests in s come before the one of line l.
Before(s, l) ==
  LineNumber(l) > 0 => \A i \in 1..Len(s) : LineNumber(s[i]) < LineNumber(l)

\* What is parsed is behind what was served before.
OrderInv ==
  /\ \A i \in 1..Len(served) : Passed(served[i], Cursor)
  /\ hpc \in {"fields", "serve"} => Passed(req.line, Cursor) /\ Before(served, req.line)
  /\ ServedInOrder

\* The cursor never goes back.
LEMMA CursorGrows ==
  ASSUME Started, ServerStep
  PROVE  Cursor \in Nat /\ Cursor' \in Nat /\ Cursor <= Cursor'
PROOF
<1>1. Cursor \in Nat
  BY StartFacts DEF Started
<1>2. Cursor' \in Int
  <2>1. Len(rbuf') \in Nat /\ Len(consumed') \in Nat
    BY LenProperties DEF Started, Start, RequestTypeOK, ReadInv, ReadTypeOK
  <2> QED BY <2>1 DEF Cursor
<1>3. Cursor <= Cursor'
  <2>1. CASE QuietStep \/ FillStep \/ Cursor' = Cursor
    BY <1>1, <2>1 DEF QuietStep, FillStep
  <2>2. CASE PrefixStep
    BY <2>2 DEF PrefixStep
  <2>3. ASSUME NEW line, LineStep(line) PROVE Cursor <= Cursor'
    BY <2>3 DEF LineStep, LineFacts
  <2>4. CASE BodyStep
    BY <1>1, <2>4 DEF BodyStep, Delivers
  <2> QED BY <2>1, <2>2, <2>3, <2>4 DEF ServerStep
<1> QED BY <1>1, <1>2, <1>3

\* The number of a line.
LEMMA LineNumberIs ==
  ASSUME NEW l \in Seq(Toks), l # <<>>
  PROVE  /\ LineNumber(l) \in Nat
         /\ LineNumber(l) > 0
              => Last(l).kind = "first" /\ LineNumber(l) = Last(l).req /\ LineNumber(l) \in Reqs
PROOF
<1>1. Len(l) \in 1..Len(l)
  OBVIOUS
<1>2. Last(l) \in Toks
  BY <1>1, ElementOfSeq DEF Last
<1>3. Last(l).req \in Reqs /\ Last(l).req \in Nat
  BY <1>2, TokenType DEF Reqs
<1> QED BY <1>3 DEF LineNumber

\* Going on keeps what is behind the cursor behind it.
LEMMA PassedGrows ==
  ASSUME NEW l, NEW c \in Nat, NEW d \in Nat, c <= d, Passed(l, c), bodyLen \in Lens
  PROVE  Passed(l, d)
PROOF
<1> SUFFICES ASSUME LineNumber(l) > 0
             PROVE  LineNumber(l) \in Reqs /\ Offsets[LineNumber(l)] < d
  BY DEF Passed
<1>1. PICK r \in Reqs : r = LineNumber(l) /\ Offsets[r] < c
  BY DEF Passed
<1>2. Offsets[r] \in Nat
  BY RequestAt DEF RequestIs
<1> QED BY <1>1, <1>2

\* The requests being fixed, OrderInv of the next state.
LEMMA OrderInvNext ==
  ASSUME Fixed,
         \A i \in 1..Len(served') : Passed(served'[i], Cursor'),
         hpc' \in {"fields", "serve"} => Passed(req'.line, Cursor') /\ Before(served', req'.line),
         ServedInOrder'
  PROVE  OrderInv'
PROOF
<1>1. Offsets' = Offsets
  BY StreamFixed DEF Fixed
<1>2. (\A i \in 1..Len(served) : Passed(served[i], Cursor))'
  BY <1>1 DEF Passed, LineNumber
<1>3. Passed(req'.line, Cursor') => Passed(req.line, Cursor)'
  BY <1>1 DEF Passed, LineNumber
<1>4. Before(served', req'.line) => Before(served, req.line)'
  BY DEF Before, LineNumber
<1> QED BY <1>2, <1>3, <1>4 DEF OrderInv

\* Requests are served in the order of the stream.
LEMMA OrderStep ==
  ASSUME Started, OrderInv, ServerStep
  PROVE  OrderInv'
PROOF
<1>1. RequestTypeOK /\ Fixed /\ LineInv /\ bodyLen \in Lens
  BY StartFacts DEF Started, Start
<1>2. PICK c, cc \in Nat : c = Cursor /\ cc = Cursor' /\ c <= cc
  BY CursorGrows
<1>3. \A i \in 1..Len(served) : Passed(served[i], cc)
  BY <1>1, <1>2, PassedGrows DEF OrderInv
<1>4. ASSUME served' = served,
             hpc' \in {"fields", "serve"} => hpc \in {"fields", "serve"} /\ req'.line = req.line
      PROVE  OrderInv'
  <2>1. \A i \in 1..Len(served') : Passed(served'[i], Cursor')
    BY <1>2, <1>3, <1>4
  <2>2. hpc \in {"fields", "serve"} => Passed(req.line, cc) /\ Before(served, req.line)
    BY <1>1, <1>2, PassedGrows DEF OrderInv
  <2>3. ServedInOrder'
    BY <1>4 DEF OrderInv, ServedInOrder, LineNumber
  <2> QED BY <1>1, <1>2, <1>4, <2>1, <2>2, <2>3, OrderInvNext
<1>5. CASE QuietStep
  BY <1>4, <1>5 DEF QuietStep
<1>6. CASE FillStep \/ PrefixStep
  BY <1>4, <1>6 DEF FillStep, PrefixStep
<1>7. ASSUME NEW line, LineStep(line) PROVE OrderInv'
  <2>1. LineFacts(line, Stream, c, cc) /\ line \in Seq(Toks)
    BY <1>2, <1>7 DEF LineStep, LineFacts
  <2>2. CASE RequestLine(line)
    <3>1. /\ hpc' = "fields" /\ served' = served /\ req'.line = line /\ line # <<>>
      BY <2>1, <2>2, NoRequestType DEF RequestLine
    <3>2. ASSUME LineNumber(line) > 0
          PROVE  /\ LineNumber(line) \in Reqs /\ Offsets[LineNumber(line)] < cc
                 /\ \A i \in 1..Len(served) : LineNumber(served[i]) < LineNumber(line)
      <4>1. PICK r \in Reqs : r = LineNumber(line) /\ r = Last(line).req /\ Last(line).kind = "first"
        BY <2>1, <3>1, <3>2, LineNumberIs
      <4>2. c < cc /\ Last(line) = Stream[cc] /\ cc <= Len(Stream)
        BY <2>1, <3>1, <4>1 DEF LineFacts
      <4>3. cc \in 1..Len(Stream)
        BY <1>1, <1>2, <4>2, OffsetFacts
      <4>4. cc = Offsets[r] + 1
        BY <1>1, <4>1, <4>2, <4>3, FirstAt
      <4>5. Offsets[r] \in Nat
        BY <1>1, RequestAt DEF RequestIs
      <4>6. ASSUME NEW i \in 1..Len(served) PROVE LineNumber(served[i]) < r
        <5>1. served[i] \in Seq(Toks) /\ served[i] # <<>>
          BY <1>1 DEF RequestTypeOK, LineInv
        <5>2. PICK q \in Nat : q = LineNumber(served[i])
          BY <5>1, LineNumberIs
        <5>3. CASE q = 0
          BY <4>1, <5>2, <5>3 DEF Reqs
        <5>4. CASE q > 0
          <6>1. q \in Reqs /\ Offsets[q] < c
            BY <1>2, <5>2, <5>4 DEF OrderInv, Passed
          <6>2. q \in 1..(NumReqs + 1) /\ r \in 1..(NumReqs + 1) /\ q \in Int /\ r \in Int
            BY <6>1, RequestAssumption DEF Reqs
          <6>3. Offsets[q] \in Nat
            BY <1>1, <6>1, RequestAt DEF RequestIs
          <6>4. r <= q => Offsets[r] <= Offsets[q]
            BY <1>1, <6>2, OffsetFacts
          <6>5. ~(r <= q)
            BY <1>2, <4>2, <4>4, <4>5, <6>1, <6>3, <6>4
          <6> QED BY <5>2, <6>2, <6>5
        <5> QED BY <5>3, <5>4
      <4> QED BY <4>1, <4>4, <4>5, <4>6
    <3>3. Passed(line, cc) /\ Before(served, line)
      BY <3>2 DEF Passed, Before
    <3>4. ServedInOrder'
      BY <3>1 DEF OrderInv, ServedInOrder, LineNumber
    <3> QED BY <1>1, <1>2, <1>3, <3>1, <3>3, <3>4, OrderInvNext
  <2>3. CASE RequestLineFails(line) \/ HeaderFails(line)
    BY <1>4, <2>3 DEF RequestLineFails, HeaderFails, Return
  <2>4. CASE HeaderLine(line)
    BY <1>4, <2>4 DEF HeaderLine
  <2>5. CASE HeaderDone(line)
    <3>1. req'.line = req.line
      BY <1>1, <2>5 DEF HeaderDone, RequestTypeOK
    <3> QED BY <1>4, <2>5, <3>1 DEF HeaderDone
  <2> QED BY <1>7, <2>2, <2>3, <2>4, <2>5 DEF LineStep
<1>8. CASE BodyStep
  <2>1. req'.line = req.line
    BY <1>1, <1>2, <1>8, DeliverIs
  <2> QED BY <1>4, <1>8, <2>1 DEF BodyStep
<1>9. CASE HandlerReturns
  <2>1. PICK s, l : s = served /\ l = req.line
    OBVIOUS
  <2>2. s \in Seq(Seq(Toks)) /\ l \in Seq(Toks) /\ served' = Append(s, l)
    BY <1>1, <1>9, <2>1 DEF HandlerReturns, RequestTypeOK
  <2>3. PICK n \in Nat : n = Len(s)
    BY <2>2, LenProperties
  <2>4. /\ Len(served') = n + 1 /\ served'[n + 1] = l /\ served' \in Seq(Seq(Toks))
        /\ \A i \in 1..n : served'[i] = s[i]
    BY <2>2, <2>3, AppendProperties
  <2>5. Passed(l, cc) /\ Before(s, l)
    BY <1>1, <1>2, <1>9, <2>1, PassedGrows DEF HandlerReturns, OrderInv
  <2>6. \A i \in 1..Len(served') : Passed(served'[i], Cursor')
    <3>1. ASSUME NEW i \in 1..(n + 1) PROVE Passed(served'[i], cc)
      <4>1. CASE i = n + 1
        BY <2>4, <2>5, <4>1
      <4>2. CASE i # n + 1
        <5>1. i \in 1..n
          BY <2>3, <4>2
        <5> QED BY <1>3, <2>1, <2>3, <2>4, <5>1
      <4> QED BY <4>1, <4>2
    <3> QED BY <1>2, <2>4, <3>1
  <2>7. ServedInOrder'
    <3>1. \A i, j \in 1..n : i < j /\ LineNumber(s[i]) > 0 /\ LineNumber(s[j]) > 0
             => LineNumber(s[i]) < LineNumber(s[j])
      BY <2>1, <2>2, <2>3, LenProperties, ZenonT(40) DEF OrderInv, ServedInOrder
    <3>2. DOMAIN served' = 1..(n + 1)
      BY <2>4, LenProperties
    <3>3. ASSUME NEW i \in 1..(n + 1), NEW j \in 1..(n + 1), i < j,
                 LineNumber(served'[i]) > 0, LineNumber(served'[j]) > 0
          PROVE  LineNumber(served'[i]) < LineNumber(served'[j])
      <4>1. i \in 1..n /\ served'[i] = s[i]
        BY <2>3, <2>4, <3>3
      <4>2. CASE j = n + 1
        <5>1. served'[j] = l
          BY <2>4, <4>2
        <5> QED BY <2>3, <2>5, <3>3, <4>1, <5>1 DEF Before
      <4>3. CASE j # n + 1
        <5>1. j \in 1..n /\ served'[j] = s[j]
          BY <2>3, <2>4, <4>3
        <5> QED BY <3>1, <3>3, <4>1, <5>1
      <4> QED BY <4>2, <4>3
    <3>4. ServedInOrder' <=> \A i, j \in DOMAIN served' :
             i < j /\ LineNumber(served'[i]) > 0 /\ LineNumber(served'[j]) > 0
               => LineNumber(served'[i]) < LineNumber(served'[j])
      BY DEF ServedInOrder, LineNumber
    <3> QED BY <3>2, <3>3, <3>4
  <2> QED BY <1>1, <1>9, <2>6, <2>7, OrderInvNext DEF HandlerReturns
<1>10. CASE Finish
  BY <1>4, <1>10 DEF Finish, Return
<1> QED BY <1>5, <1>6, <1>7, <1>8, <1>9, <1>10 DEF ServerStep

\* Nothing was cut, and the parser knows the lengths of all bodies.
Uncut == ~spoiled /\ \A r \in Reqs : OwnLength(r) = bodyLen[r]

FirstLine(r) == <<Token("first", r)>>

\* Then the requests that were served are the first ones, and the cursor is where the
\* next one begins, or in it.
Whole(sv, pc, c, f, q, keys) ==
  LET n == Len(sv) IN
    /\ sv = [i \in 1..n |-> FirstLine(i)]
    /\ pc \in {"idle", "line"} => f = <<>> /\ n <= NumReqs /\ c = Offsets[n + 1]
    /\ pc \in {"fields", "serve"} => n + 1 \in Reqs /\ q.line = FirstLine(n + 1)
    /\ pc = "fields" /\ c = Offsets[n + 1] + 2 /\ name[n + 1] = "Content-Length"
         => ~Unkeyed(keys)
    /\ pc = "serve" => q.length = bodyLen[n + 1]
    /\ pc = "finish" => n \in Reqs /\ q.line = FirstLine(n) /\ q.length = bodyLen[n]

WholeInv == Uncut => Whole(served, hpc, Cursor, fragment, req, header)

\* The requests being fixed, WholeInv of the next state.
LEMMA WholeInvNext ==
  ASSUME Fixed, Uncut' => Whole(served', hpc', Cursor', fragment', req', header')
  PROVE  WholeInv'
PROOF
<1>1. Offsets' = Offsets
  BY StreamFixed DEF Fixed
<1>2. Whole(served', hpc', Cursor', fragment', req', header')
        => Whole(served, hpc, Cursor, fragment, req, header)'
  BY <1>1 DEF Fixed, Whole, Unkeyed, FirstLine
<1> QED BY <1>2 DEF WholeInv

\* What is cut stays cut.
LEMMA UncutBefore ==
  ASSUME Started, ServerStep, Uncut'
  PROVE  Uncut /\ spoiled' = FALSE
PROOF
<1>1. Fixed /\ spoiled \in BOOLEAN /\ spoiled' \in BOOLEAN
  BY DEF Started, Start, RequestTypeOK
<1>2. \A r : OwnLength(r)' = OwnLength(r)
  BY <1>1, StreamFixed DEF Fixed
<1>3. \A r \in Reqs : OwnLength(r) = bodyLen[r]
  BY <1>1, <1>2 DEF Uncut, Fixed
<1>4. ~spoiled'
  BY DEF Uncut
<1>5. ~spoiled
  <2>1. ASSUME NEW line, LineStep(line) PROVE ~spoiled
    BY <1>4, <2>1 DEF LineStep, LineFacts
  <2>2. CASE QuietStep \/ PrefixStep \/ BodyStep
    BY <1>4, <2>2 DEF QuietStep, PrefixStep, BodyStep
  <2>3. CASE FillStep
    BY <1>4, <2>3 DEF FillStep
  <2>4. CASE HandlerReturns
    BY <1>4, <2>4 DEF HandlerReturns
  <2>5. CASE Finish
    BY <1>4, <2>5 DEF Finish
  <2> QED BY <2>1, <2>2, <2>3, <2>4, <2>5 DEF ServerStep
<1> QED BY <1>1, <1>3, <1>4, <1>5 DEF Uncut

\* Where a request begins, its line comes next.
LEMMA LineOfRequest ==
  ASSUME Started, NEW n \in Nat, n <= NumReqs, Cursor = Offsets[n + 1]
  PROVE  /\ Cursor < Len(Stream) => /\ n + 1 \in Reqs
                                    /\ Stream[Cursor + 1] = Token("first", n + 1)
         /\ ~(Cursor < Len(Stream)) => Cursor = Len(Stream)
PROOF
<1>1. bodyLen \in Lens /\ NumReqs \in Nat
  BY StartFacts, RequestAssumption DEF Started
<1>2. CASE n = NumReqs
  <2>1. Cursor = Len(Stream) /\ Len(Stream) \in Nat
    BY <1>1, <1>2, OffsetFacts
  <2> QED BY <2>1
<1>3. CASE n # NumReqs
  <2>1. n + 1 \in Reqs
    BY <1>1, <1>3 DEF Reqs
  <2>2. RequestIs(n + 1)
    BY <1>1, <2>1, RequestAt
  <2>3. PICK o, b, s \in Nat : /\ o = Offsets[n + 1] /\ b = bodyLen[n + 1] /\ s = Len(Stream)
                               /\ o + 3 + b <= s /\ Stream[o + 1] = Token("first", n + 1)
    BY <1>1, <2>2, OffsetFacts DEF RequestIs
  <2>4. o < s
    BY <2>3, SMTT(30)
  <2> QED BY <2>1, <2>3, <2>4
<1> QED BY <1>2, <1>3

\* The requests are served one after the other.
LEMMA WholeStep ==
  ASSUME Started, HeaderInv, WholeInv, ServerStep
  PROVE  WholeInv'
PROOF
<1>1. RequestTypeOK /\ Fixed /\ LineInv /\ bodyLen \in Lens /\ Cursor \in Nat
  BY StartFacts DEF Started, Start
<1> SUFFICES ASSUME Uncut'
             PROVE  Whole(served', hpc', Cursor', fragment', req', header')
  BY <1>1, WholeInvNext
<1>2. Uncut /\ spoiled' = FALSE
  BY UncutBefore
<1>3. PICK n \in Nat : n = Len(served)
  BY <1>1, LenProperties DEF RequestTypeOK
<1>4. /\ served = [i \in 1..n |-> FirstLine(i)]
      /\ hpc \in {"idle", "line"} => fragment = <<>> /\ n <= NumReqs /\ Cursor = Offsets[n + 1]
      /\ hpc \in {"fields", "serve"} => n + 1 \in Reqs /\ req.line = FirstLine(n + 1)
      /\ hpc = "fields" /\ Cursor = Offsets[n + 1] + 2 /\ name[n + 1] = "Content-Length"
           => ~Unkeyed(header)
      /\ hpc = "serve" => req.length = bodyLen[n + 1]
      /\ hpc = "finish" => n \in Reqs /\ req.line = FirstLine(n) /\ req.length = bodyLen[n]
  BY <1>2, <1>3 DEF WholeInv, Whole
<1>5. \A r : IsFirst(FirstLine(r)) /\ FirstLine(r)[1].req = r
  BY DEF IsFirst, FirstLine, Token
<1>6. CASE QuietStep
  BY <1>3, <1>4, <1>6 DEF QuietStep, Whole
<1>7. CASE FillStep
  <2>1. hpc = "fields" => header' = header
    BY <1>2, <1>7 DEF FillStep
  <2> QED BY <1>3, <1>4, <1>7, <2>1 DEF FillStep, ReadingLine, Whole
<1>8. CASE PrefixStep
  <2>1. hpc # "fields"
    BY <1>4, <1>5, <1>8, PrefixOutsideHeader
  <2>2. hpc = "line" /\ Cursor < Len(Stream) /\ Stream[Cursor + 1].kind = "body"
    BY <1>8, <2>1 DEF PrefixStep, ReadingLine
  <2>3. Stream[Cursor + 1] = Token("first", n + 1)
    BY <1>4, <2>2, LineOfRequest
  <2>4. FALSE
    BY <2>2, <2>3 DEF Token
  <2> QED BY <2>4
<1>9. ASSUME NEW line, LineStep(line)
      PROVE  Whole(served', hpc', Cursor', fragment', req', header')
  <2>1. LineFacts(line, Stream, Cursor, Cursor') /\ fragment' = <<>> /\ line \in Seq(Toks)
    BY <1>9 DEF LineStep, LineFacts
  <2>2. line # <<>>
    BY <1>2, <2>1 DEF LineFacts
  <2>3. ASSUME hpc = "line"
        PROVE  n + 1 \in Reqs /\ line = FirstLine(n + 1) /\ Cursor' = Offsets[n + 1] + 1
    <3>1. fragment = <<>> /\ n <= NumReqs /\ Cursor = Offsets[n + 1]
      BY <1>4, <2>3
    <3>2. Cursor < Len(Stream)
      BY <2>1, <2>2, <3>1, LineOfRequest DEF LineFacts
    <3>3. n + 1 \in Reqs /\ Stream[Cursor + 1] = Token("first", n + 1)
      BY <3>1, <3>2, LineOfRequest
    <3>4. Token("first", n + 1).kind # "body"
      BY DEF Token
    <3>5. line = <<Stream[Cursor + 1]>>
      BY <2>1, <2>2, <3>1, <3>2, <3>3, <3>4 DEF LineFacts
    <3>6. Len(line) = 1 /\ line[1] = Token("first", n + 1)
      BY <3>3, <3>5
    <3>7. Cursor' = Cursor + 1
      BY <2>1, <3>4, <3>6 DEF LineFacts
    <3> QED BY <3>1, <3>3, <3>5, <3>7 DEF FirstLine
  <2>4. CASE RequestLine(line)
    <3>1. /\ hpc = "line" /\ hpc' = "fields" /\ served' = served /\ req'.line = line
      BY <2>1, <2>4, NoRequestType DEF RequestLine
    <3>2. n + 1 \in Reqs /\ line = FirstLine(n + 1) /\ Cursor' = Offsets[n + 1] + 1
      BY <2>3, <3>1
    <3>3. Cursor' # Offsets[n + 1] + 2
      <4>1. Offsets[n + 1] \in Nat
        BY <1>1, <3>2, RequestAt DEF RequestIs
      <4> QED BY <3>2, <4>1
    <3> QED BY <1>3, <1>4, <3>1, <3>2, <3>3 DEF Whole
  <2>5. CASE RequestLineFails(line)
    <3>1. hpc = "line" /\ ~IsFirst(line)
      BY <2>5 DEF RequestLineFails
    <3> QED BY <1>5, <2>3, <3>1
  <2>6. CASE HeaderLine(line)
    <3>1. hpc = "fields" /\ hpc' = "fields" /\ req' = req /\ served' = served /\ ~IsBlank(line)
      BY <2>6 DEF HeaderLine
    <3>2. PICK r \in Reqs : r = n + 1 /\ req.line = FirstLine(r)
      BY <1>4, <3>1
    <3>3. IsFirst(req.line) /\ req.line[1].req = r
      BY <1>5, <3>2
    <3>4. line = <<Token("field", r)>>
      BY <2>1, <2>2, <3>1, <3>3, LineOfHeader
    <3>5. IsField(line) /\ line[1].req = r
      BY <3>4 DEF IsField, Token
    <3>6. [name |-> name[r], req |-> r] \in header'
      BY <2>6, <3>5 DEF HeaderLine
    <3>7. name[r] = "Content-Length" => ~Unkeyed(header')
      BY <3>6 DEF Unkeyed
    <3> QED BY <1>3, <1>4, <3>1, <3>2, <3>7 DEF Whole
  <2>7. CASE HeaderFails(line)
    BY <2>2, <2>7 DEF HeaderFails
  <2>8. CASE HeaderDone(line)
    <3>1. /\ hpc = "fields" /\ hpc' = "serve" /\ served' = served /\ IsBlank(line)
          /\ req' = [req EXCEPT !.length = ContentLength]
      BY <2>8 DEF HeaderDone
    <3>2. req'.line = req.line /\ req'.length = ContentLength
      BY <1>1, <3>1 DEF RequestTypeOK
    <3>3. PICK r \in Reqs : r = n + 1 /\ req.line = FirstLine(r)
      BY <1>4, <3>1
    <3>4. IsFirst(req.line) /\ req.line[1].req = r
      BY <1>5, <3>3
    <3>5. Cursor = Offsets[r] + 2 /\ Keyed(header, r)
      BY <2>1, <2>2, <3>1, <3>4, LineOfHeader
    <3>6. ContentLength = bodyLen[r]
      <4>1. CASE name[r] = "Content-Length"
        <5>1. ~Unkeyed(header)
          BY <1>4, <3>1, <3>3, <3>5, <4>1
        <5> QED BY <1>1, <3>5, <5>1, ContentLengthIs
      <4>2. CASE name[r] # "Content-Length"
        <5>1. Unkeyed(header)
          BY <3>5, <4>2 DEF Keyed, Unkeyed
        <5>2. ContentLength = 0
          BY <1>1, <5>1, ContentLengthIs
        <5>3. OwnLength(r) = 0 /\ OwnLength(r) = bodyLen[r]
          BY <1>2, <4>2 DEF OwnLength, Uncut
        <5> QED BY <5>2, <5>3
      <4> QED BY <4>1, <4>2
    <3> QED BY <1>3, <1>4, <3>1, <3>2, <3>3, <3>6 DEF Whole
  <2> QED BY <1>9, <2>4, <2>5, <2>6, <2>7, <2>8 DEF LineStep
<1>10. CASE BodyStep
  <2>1. req'.line = req.line /\ req'.length = req.length
    BY <1>1, <1>10, DeliverIs
  <2>2. hpc' = hpc /\ served' = served /\ hpc \in {"serve", "finish"}
    BY <1>10 DEF BodyStep, Serving
  <2> QED BY <1>3, <1>4, <2>1, <2>2 DEF Whole
<1>11. CASE HandlerReturns
  <2>1. hpc = "serve" /\ hpc' = "finish" /\ served' = Append(served, req.line) /\ req' = req
    BY <1>11 DEF HandlerReturns
  <2>2. n + 1 \in Reqs /\ req.line = FirstLine(n + 1) /\ req.length = bodyLen[n + 1]
    BY <1>4, <2>1
  <2>3. PICK s : s = served /\ s \in Seq(Seq(Toks)) /\ Len(s) = n /\ \A i \in 1..n : s[i] = FirstLine(i)
    BY <1>1, <1>3, <1>4 DEF RequestTypeOK
  <2>4. PICK l : l = FirstLine(n + 1) /\ l \in Seq(Toks)
    BY <1>1, <2>2 DEF RequestTypeOK
  <2>5. PICK w : w = Append(s, l)
    OBVIOUS
  <2>6. w \in Seq(Seq(Toks)) /\ Len(w) = n + 1 /\ w[n + 1] = l /\ \A i \in 1..n : w[i] = s[i]
    BY <2>3, <2>4, <2>5, AppendProperties
  <2>7. w = [i \in 1..(n + 1) |-> w[i]]
    BY <2>6
  <2>8. \A i \in 1..(n + 1) : w[i] = FirstLine(i)
    <3>1. ASSUME NEW i \in 1..(n + 1) PROVE w[i] = FirstLine(i)
      <4>1. CASE i = n + 1
        BY <2>4, <2>6, <4>1
      <4>2. CASE i # n + 1
        <5>1. i \in 1..n
          BY <4>2
        <5> QED BY <2>3, <2>6, <5>1
      <4> QED BY <4>1, <4>2
    <3> QED BY <3>1
  <2>9. w = [i \in 1..(n + 1) |-> FirstLine(i)]
    BY <2>7, <2>8, Zenon
  <2>10. served' = w /\ Len(served') = n + 1
    BY <2>1, <2>2, <2>3, <2>4, <2>5, <2>6
  <2> QED BY <2>1, <2>2, <2>9, <2>10 DEF Whole
<1>12. CASE Finish /\ Cursor' = Cursor
  <2>1. hpc = "finish" /\ hpc' = "idle" /\ served' = served /\ fragment' = fragment
    BY <1>12 DEF Finish, Return
  <2>2. PICK r \in Reqs : r = n /\ req.line = FirstLine(r) /\ req.length = bodyLen[r]
    BY <1>4, <2>1
  <2>3. PICK o, b, read \in Nat : /\ o = Offsets[r] /\ b = bodyLen[r] /\ read = req.read
                                  /\ Offsets[r + 1] = o + 3 + b
    <3>1. RequestIs(r)
      BY <1>1, RequestAt
    <3>2. req.read \in Nat
      BY <1>1 DEF RequestTypeOK
    <3> QED BY <3>1, <3>2 DEF RequestIs
  <2>4. ~(Rest > 0) /\ read <= b
    BY <1>1, <1>2, <1>12, <2>1, <2>2, <2>3 DEF Finish, LineInv, Serving
  <2>5. read = b
    BY <2>2, <2>3, <2>4 DEF Rest
  <2>6. BodyAt(header, r, req, Cursor)
    BY <1>5, <2>1, <2>2 DEF HeaderInv, Serving
  <2>7. Cursor = o + 3 + b
    BY <2>3, <2>5, <2>6 DEF BodyAt
  <2>8. fragment = <<>> /\ n <= NumReqs
    BY <1>1, <2>1, <2>2, RequestAssumption DEF LineInv, Reqs
  <2>9. Cursor' = Offsets[n + 1]
    BY <1>12, <2>2, <2>3, <2>7
  <2> QED BY <1>3, <1>4, <2>1, <2>8, <2>9 DEF Whole
<1> QED BY <1>6, <1>7, <1>8, <1>9, <1>10, <1>11, <1>12 DEF ServerStep

-----------------------------------------------------------------------------
(* The theorems *)

ServerInv ==
  /\ ReadInv /\ RequestTypeOK /\ BufferInv
  /\ LineInv /\ HeaderInv /\ OrderInv /\ WholeInv

\* It holds when the connection is new.
LEMMA ServerInit == SInit => ServerInv
PROOF
<1> SUFFICES ASSUME SInit PROVE ServerInv
  OBVIOUS
<1>1. ReadInv /\ consumed = <<>> /\ arrived = 0
  BY ReadInit DEF SInit, RInit
<1>2. bodyLen \in Lens
  BY RequestAssumption DEF SInit, Lens
<1>3. Len(rbuf) = 0 /\ Len(consumed) = 0 /\ Cursor = 0 /\ Len(served) = 0
  BY <1>1 DEF SInit, Cursor
<1>4. RequestTypeOK
  <2>1. <<>> \in Seq(Toks) /\ <<>> \in Seq(Seq(Toks))
    OBVIOUS
  <2> QED BY <1>2, <2>1, NoRequestType DEF SInit, RequestTypeOK
<1>5. BufferInv
  BY <1>1, <1>2, <1>3, <1>4, OffsetFacts DEF BufferInv, Follows, RequestTypeOK
<1>6. LineInv
  BY <1>3 DEF SInit, LineInv, Serving
<1>7. HeaderInv
  BY DEF SInit, HeaderInv, Serving, Unkeyed
<1>8. OrderInv
  <2>1. \A i \in 1..Len(served) : FALSE
    BY <1>3
  <2>2. DOMAIN served = {}
    BY DEF SInit
  <2> QED BY <2>1, <2>2 DEF SInit, OrderInv, ServedInOrder
<1>9. WholeInv
  <2>1. served = [i \in 1..0 |-> FirstLine(i)]
    BY DEF SInit
  <2>2. Cursor = Offsets[0 + 1] /\ 0 <= NumReqs
    BY <1>2, <1>3, OffsetFacts, RequestAssumption
  <2> QED BY <1>3, <2>1, <2>2 DEF SInit, WholeInv, Whole
<1> QED BY <1>1, <1>4, <1>5, <1>6, <1>7, <1>8, <1>9 DEF ServerInv

\* Every step keeps it.
LEMMA ServerInvStep == ServerInv /\ [SNext]_hvars => ServerInv'
PROOF
<1> SUFFICES ASSUME ServerInv, [SNext]_hvars PROVE ServerInv'
  OBVIOUS
<1>1. ReadInv'
  BY ServerReads, ReadInvStep DEF ServerInv
<1>2. Start
  BY <1>1, RequestsFixed DEF ServerInv, Start, Fixed
<1>3. BufferInv' /\ rbuf' \in Seq(Toks) /\ ServerStep
  BY <1>2, StepIs
<1>4. RequestTypeOK' /\ LineInv'
  BY <1>2, <1>3, StartFacts, TypeStep DEF ServerInv, Start
<1>5. Started
  BY <1>2, <1>4 DEF ServerInv, Started
<1>6. HeaderInv' /\ OrderInv' /\ WholeInv'
  BY <1>3, <1>5, HeaderStep, OrderStep, WholeStep DEF ServerInv
<1> QED BY <1>1, <1>3, <1>4, <1>6 DEF ServerInv

\* The inductive invariant of the HTTP server.
THEOREM ServerInvariant == SSpec => []ServerInv
PROOF BY ServerInit, ServerInvStep, PTL DEF SSpec

\* The server gets the peer's bytes in order and each of them once, whatever slices
\* bufio.Reader and the handler pass to Conn.Read.
THEOREM ServerSeesTheStream == SSpec => []ReadStreamIntact
PROOF
<1>1. ServerInv => ReadStreamIntact
  BY ReadInvIsIntact DEF ServerInv
<1> QED BY <1>1, ServerInvariant, PTL

\* What a handler reads, and Close discards, are the first bytes of the request's own
\* body: for every number of requests, all lengths of their bodies, all sizes of the
\* buffers and of the handler's slices.
THEOREM HandlerReadsItsOwnBody == SSpec => []BodyIsOwn
PROOF
<1>1. ServerInv => BodyIsOwn
  <2> SUFFICES ASSUME ServerInv, Serving, IsFirst(req.line)
               PROVE  IsPrefix(req.body, Body(req.line[1].req))
    BY DEF BodyIsOwn
  <2>1. RequestTypeOK /\ LineInv /\ HeaderInv
    BY DEF ServerInv
  <2>2. PICK r \in Reqs : r = req.line[1].req
    BY <2>1, FirstIs DEF RequestTypeOK
  <2>3. BodyAt(header, r, req, Cursor)
    BY <2>1, <2>2 DEF HeaderInv
  <2>4. PICK read, n \in Nat : read = req.read /\ n = bodyLen[r] /\ read <= n
    <3>1. req.read \in Nat /\ req.length \in Nat /\ req.read <= req.length
      BY <2>1 DEF RequestTypeOK, LineInv
    <3>2. bodyLen[r] \in Nat /\ req.length <= bodyLen[r]
      BY <2>1, <2>3, OwnLengthIs DEF BodyAt
    <3> QED BY <3>1, <3>2
  <2>5. PICK b \in Seq(Toks) : b = req.body /\ Len(b) = read
    BY <2>1, <2>4 DEF RequestTypeOK, LineInv
  <2>6. PICK w : w = Body(r)
    OBVIOUS
  <2>7. w \in Seq(Toks) /\ Len(w) = n
    <3>1. w = [i \in 1..n |-> [kind |-> "body", req |-> r, at |-> i]]
      BY <2>4, <2>6 DEF Body
    <3>2. \A i \in 1..n : [kind |-> "body", req |-> r, at |-> i] \in Toks
      BY TokenType
    <3> QED BY <3>1, <3>2, IsASeq
  <2>8. \A i \in 1..read : b[i] = w[i]
    BY <2>3, <2>4, <2>5, <2>6 DEF BodyAt, OwnBody
  <2>9. SubSeq(b, 1, read) = SubSeq(w, 1, read)
    BY <2>4, <2>5, <2>7, <2>8
  <2> QED BY <2>2, <2>4, <2>5, <2>6, <2>7, <2>9 DEF IsPrefix
<1> QED BY <1>1, ServerInvariant, PTL

\* A recycled Header gives no request the content length of another, whatever
\* reqFreeHeader leaves in the map and whatever a fill overwrites.
THEOREM RecycledHeaderIsClean == SSpec => []HeaderIsOwn
PROOF
<1>1. ServerInv => HeaderIsOwn
  BY DEF ServerInv, HeaderInv, BodyAt, Keyed, HeaderIsOwn
<1> QED BY <1>1, ServerInvariant, PTL

\* No request is served twice or after a later one, however the segments of the stream
\* cut the requests and however many OnTrack calls fail in between.
THEOREM RequestsServedInOrder == SSpec => []ServedInOrder
PROOF
<1>1. ServerInv => ServedInOrder
  BY DEF ServerInv, OrderInv
<1> QED BY <1>1, ServerInvariant, PTL

\* As long as nothing is cut and every length is recognised, exactly the requests of
\* the peer are served, none left out and none made up from a body.
THEOREM RequestsServedWhole == SSpec => []WholeUnlessCut
PROOF
<1>1. ServerInv => WholeUnlessCut
  BY DEF ServerInv, WholeInv, Uncut, Whole, FirstLine, WholeUnlessCut
<1> QED BY <1>1, ServerInvariant, PTL
=============================================================================
