------------------------- MODULE HttpResponseProofs -------------------------
(***************************************************************************)
(* Invariance proofs about the module HttpResponse, for every buffer size, *)
(* every number of bytes and every set of lengths and status codes.        *)
(***************************************************************************)
EXTENDS HttpResponse, SequenceTheorems, TLAPS

-----------------------------------------------------------------------------
(* The inductive invariant *)

Headers == [status : Nat, chunked : BOOLEAN, length : Int]

\* The states of a Response.
Responses ==
  [wroteHeader : BOOLEAN, status : Nat, contentLength : Int,
   setLength : BOOLEAN, setEncoding : {"none", "chunked"},
   chunking : BOOLEAN, cwHeader : BOOLEAN, noCache : BOOLEAN,
   written : Nat, buffer : [1..BufferSize -> Nat],
   hijacked : BOOLEAN, handlerDone : BOOLEAN, panicked : BOOLEAN,
   head : Seq(Headers), body : Seq(Nat), ends : Nat]

\* Type correctness.
ResponseTypeOK ==
  /\ HEAD \in BOOLEAN /\ res \in Responses
  /\ hdr \in [length : Lengths \cup {NoLength}, encoding : {"none", "chunked"}]
  /\ next \in Nat \ {0} /\ accepted \in Seq(Nat)
  /\ exceeded \in BOOLEAN /\ flushed \in BOOLEAN /\ late \in BOOLEAN /\ returned \in BOOLEAN

\* What Write has cached and not yet handed to the chunkWriter.
Cached(r) == IF r.noCache THEN <<>> ELSE SubSeq(r.buffer, 1, r.written)

\* How the fields of a Response depend on each other, whatever the handler calls:
\* chunks are for a body of unknown length and by-pass the cache, nothing is
\* written before WriteHeader, and more than the buffer holds is counted only when
\* the declared length is exceeded.
Coherent(r) ==
  /\ r.chunking => ~r.setLength /\ (r.noCache \/ r.written = 0)
  /\ ~r.wroteHeader => r.written = 0 /\ r.body = <<>> /\ ~r.noCache /\ ~r.chunking
  /\ ~r.noCache /\ r.written > BufferSize =>
       r.contentLength # NoLength /\ r.written > r.contentLength

\* What is on the wire and what is cached are the bytes acc that were accepted.
Holds(r, acc) ==
  /\ HEAD => r.body = <<>>
  /\ ~HEAD => r.body \o Cached(r) = acc
  /\ ~r.noCache => r.written <= BufferSize

BodyInv ==
  /\ Coherent(res)
  /\ res.handlerDone /\ ~returned => res.hijacked
  /\ res.hijacked /\ ~res.handlerDone => ~res.wroteHeader
  /\ ~exceeded /\ ~res.panicked =>
       IF res.handlerDone THEN res.body = IF HEAD THEN <<>> ELSE accepted
       ELSE Holds(res, accepted)

\* The framing that has been decided, or that the header set before WriteHeader
\* is going to decide, while the handler runs ...
FrameCore(r) ==
  /\ r.ends = 0
  /\ ~r.wroteHeader => ~r.cwHeader /\ ~r.setLength
  /\ r.wroteHeader => r.contentLength = hdr.length /\ (r.setLength <=> hdr.length # NoLength)
  /\ r.setLength => r.setEncoding = "none"
  /\ ~r.cwHeader => /\ r.head = <<>>
                    /\ r.wroteHeader => (r.chunking <=> r.setEncoding = "chunked")
  /\ r.cwHeader => /\ Len(r.head) = 1 /\ (r.head[1].chunked <=> r.chunking)
                   /\ (r.chunking <=> ~r.setLength) /\ (r.noCache \/ r.chunking)
                   /\ r.head[1].length = IF r.setLength THEN r.contentLength ELSE NoLength

\* ... and how much of the declared length has been used.
FrameCount(r) ==
  /\ r.setLength => r.written <= r.contentLength
  /\ r.setLength /\ r.noCache /\ ~HEAD => Len(r.body) = r.written
  /\ ~r.cwHeader => r.body = <<>> /\ ~r.noCache

Framing(r) == FrameCore(r) /\ FrameCount(r)

\* What FramingMatches says of a finished response.
Framed(r) ==
  /\ Len(r.head) = 1
  /\ bodyAllowedForStatus(r.status) /\ ~HEAD =>
       LET h == r.head[1] IN
       IF h.chunked THEN h.length = NoLength /\ r.ends = 1
       ELSE /\ h.length # NoLength /\ r.ends = 0
            /\ Len(r.body) <= h.length
            /\ Len(r.body) < h.length => hdr.length = h.length

FrameInv ==
  ~exceeded /\ ~flushed /\ ~late /\ ~res.hijacked /\ ~res.panicked =>
    IF returned THEN Framed(res) ELSE Framing(res)

HInv == ResponseTypeOK /\ BodyInv /\ FrameInv

-----------------------------------------------------------------------------
(* What the operations do to a Response *)

HdrOK == hdr \in [length : Lengths \cup {NoLength}, encoding : {"none", "chunked"}]

\* The fields the chunkWriter never changes.
SameResponse(q, r) ==
  /\ (q.wroteHeader <=> r.wroteHeader) /\ (q.noCache <=> r.noCache)
  /\ (q.hijacked <=> r.hijacked) /\ (q.handlerDone <=> r.handlerDone)
  /\ (q.panicked <=> r.panicked)
  /\ q.status = r.status /\ q.written = r.written /\ q.buffer = r.buffer

\* The library declares the length itself.
AutoLength(r) ==
  /\ ~r.setLength /\ ~r.chunking /\ ~r.noCache
  /\ r.handlerDone /\ bodyAllowedForStatus(r.status) /\ hdr.length = NoLength

\* What cw.writeHeader(p) makes of r: it decides the framing once.
Decided(q, r, p) ==
  /\ q.cwHeader
  /\ r.cwHeader =>
       /\ (q.chunking <=> r.chunking) /\ (q.setLength <=> r.setLength)
       /\ q.contentLength = r.contentLength /\ q.setEncoding = r.setEncoding
       /\ q.head = r.head
  /\ ~r.cwHeader =>
       /\ q.chunking <=> ~r.setLength /\ (r.chunking \/ r.noCache)
       /\ q.setLength <=> r.setLength \/ AutoLength(r)
       /\ q.contentLength = IF AutoLength(r) THEN Len(p) ELSE r.contentLength
       /\ q.setEncoding = IF ~r.setLength /\ ~r.chunking /\ r.noCache
                          THEN "chunked" ELSE r.setEncoding
       /\ q.head = Append(r.head, [status |-> r.status,
                                   chunked |-> q.setEncoding = "chunked",
                                   length |-> IF q.setLength THEN q.contentLength
                                              ELSE NoLength])

\* cw.writeHeader decides the framing and touches nothing else.
LEMMA HeaderOut ==
  ASSUME HdrOK, NEW r \in Responses, NEW p \in Seq(Nat),
         NEW q, q = cwWriteHeader(r, p)
  PROVE  /\ q \in Responses /\ SameResponse(q, r) /\ Decided(q, r, p)
         /\ q.body = r.body /\ q.ends = r.ends
PROOF
<1>1. CASE r.cwHeader
  BY <1>1 DEF cwWriteHeader, SameResponse, Decided
<1>2. CASE ~r.cwHeader
  <2>1. PICK chunked \in BOOLEAN : chunked <=> ~r.setLength /\ (r.chunking \/ r.noCache)
    OBVIOUS
  <2>2. PICK encoding \in {"none", "chunked"} :
          encoding = IF ~r.setLength /\ ~r.chunking /\ r.noCache
                     THEN "chunked" ELSE r.setEncoding
    BY DEF Responses
  <2>3. PICK declared \in BOOLEAN : declared <=> r.setLength \/ AutoLength(r)
    OBVIOUS
  <2>4. PICK clen \in Int : clen = IF AutoLength(r) THEN Len(p) ELSE r.contentLength
    <3>1. Len(p) \in Int
      OBVIOUS
    <3>2. r.contentLength \in Int
      BY DEF Responses
    <3> QED BY <3>1, <3>2
  <2>5. PICK h \in Headers : h = [status |-> r.status, chunked |-> encoding = "chunked",
                                  length |-> IF declared THEN clen ELSE NoLength]
    <3>1. r.status \in Nat /\ (encoding = "chunked") \in BOOLEAN
      BY DEF Responses
    <3>2. NoLength \in Int
      BY DEF NoLength
    <3> QED BY <3>1, <3>2 DEF Headers
  <2>6. q = [r EXCEPT !.cwHeader = TRUE, !.chunking = chunked, !.setEncoding = encoding,
                      !.setLength = declared, !.contentLength = clen,
                      !.head = Append(r.head, h)]
    BY <1>2, <2>1, <2>2, <2>3, <2>4, <2>5 DEF cwWriteHeader, HeaderSent, AutoLength, Responses
  <2>7. Append(r.head, h) \in Seq(Headers)
    <3>1. r.head \in Seq(Headers)
      BY DEF Responses
    <3> QED BY <3>1, AppendProperties
  <2>8. q \in Responses
    BY <2>6, <2>7, ZenonT(40) DEF Responses
  <2>9. /\ SameResponse(q, r) /\ q.body = r.body /\ q.ends = r.ends /\ q.cwHeader
        /\ q.chunking = chunked /\ q.setEncoding = encoding /\ q.setLength = declared
        /\ q.contentLength = clen /\ q.head = Append(r.head, h)
    BY <2>6 DEF Responses, SameResponse
  <2> QED BY <1>2, <2>1, <2>2, <2>3, <2>4, <2>5, <2>8, <2>9 DEF Decided
<1> QED BY <1>1, <1>2

\* cw.Write decides the framing and puts p on the wire, unless the method is HEAD.
LEMMA WriteOut ==
  ASSUME HdrOK, HEAD \in BOOLEAN, NEW r \in Responses, NEW p \in Seq(Nat),
         NEW q, q = cwWrite(r, p)
  PROVE  /\ q \in Responses /\ SameResponse(q, r) /\ Decided(q, r, p)
         /\ q.body = (IF HEAD THEN r.body ELSE r.body \o p) /\ q.ends = r.ends
PROOF
<1>1. PICK r1 : r1 = cwWriteHeader(r, p)
  OBVIOUS
<1>2. /\ r1 \in Responses /\ SameResponse(r1, r) /\ Decided(r1, r, p)
      /\ r1.body = r.body /\ r1.ends = r.ends
  BY <1>1, HeaderOut
<1>3. q = IF HEAD THEN r1 ELSE [r1 EXCEPT !.body = r1.body \o p]
  BY <1>1 DEF cwWrite
<1>4. CASE HEAD
  BY <1>2, <1>3, <1>4
<1>5. CASE ~HEAD
  <2>1. r1.body \o p \in Seq(Nat)
    <3>1. r1.body \in Seq(Nat)
      BY <1>2 DEF Responses
    <3> QED BY <3>1, ConcatProperties
  <2>2. q = [r1 EXCEPT !.body = r1.body \o p]
    BY <1>3, <1>5
  <2>3. q \in Responses
    BY <1>2, <2>1, <2>2 DEF Responses
  <2>4. q.body = r.body \o p /\ q.ends = r.ends
    BY <1>2, <2>2 DEF Responses
  <2>5. SameResponse(q, r)
    BY <1>2, <2>2 DEF Responses, SameResponse
  <2>6. /\ q.cwHeader = r1.cwHeader /\ q.chunking = r1.chunking /\ q.setLength = r1.setLength
        /\ q.contentLength = r1.contentLength /\ q.setEncoding = r1.setEncoding
        /\ q.head = r1.head
    BY <1>2, <2>2 DEF Responses
  <2>7. Decided(q, r, p)
    BY <1>2, <2>6 DEF Decided
  <2> QED BY <1>5, <2>3, <2>4, <2>5, <2>7
<1> QED BY <1>4, <1>5

\* cw.close decides the framing and ends the chunks.
LEMMA CloseOut ==
  ASSUME HdrOK, NEW r \in Responses, NEW q, q = cwClose(r)
  PROVE  /\ q \in Responses /\ SameResponse(q, r) /\ Decided(q, r, <<>>)
         /\ q.body = r.body /\ q.ends = IF q.chunking THEN r.ends + 1 ELSE r.ends
PROOF
<1>1. PICK r1 : r1 = cwWriteHeader(r, <<>>)
  OBVIOUS
<1>2. /\ r1 \in Responses /\ SameResponse(r1, r) /\ Decided(r1, r, <<>>)
      /\ r1.body = r.body /\ r1.ends = r.ends
  BY <1>1, HeaderOut, EmptySeq
<1>3. q = IF r1.chunking THEN [r1 EXCEPT !.ends = r1.ends + 1] ELSE r1
  BY <1>1 DEF cwClose
<1>4. CASE ~r1.chunking
  BY <1>2, <1>3, <1>4
<1>5. CASE r1.chunking
  <2>1. r1.ends + 1 \in Nat
    BY <1>2 DEF Responses
  <2>2. q = [r1 EXCEPT !.ends = r1.ends + 1]
    BY <1>3, <1>5
  <2>3. q \in Responses /\ q.body = r1.body /\ q.ends = r1.ends + 1
    BY <1>2, <2>1, <2>2 DEF Responses
  <2>4. SameResponse(q, r)
    BY <1>2, <2>2 DEF Responses, SameResponse
  <2>5. /\ q.cwHeader = r1.cwHeader /\ q.chunking = r1.chunking /\ q.setLength = r1.setLength
        /\ q.contentLength = r1.contentLength /\ q.setEncoding = r1.setEncoding
        /\ q.head = r1.head
    BY <1>2, <2>2 DEF Responses
  <2>6. Decided(q, r, <<>>)
    BY <1>2, <2>5 DEF Decided
  <2> QED BY <1>2, <1>5, <2>3, <2>4, <2>5, <2>6
<1> QED BY <1>4, <1>5

\* WriteHeader takes the lengths and encodings the handler has set, once.
LEMMA StatusSet ==
  ASSUME HdrOK, NEW r \in Responses, NEW code \in Nat, NEW q, q = WriteHeader(r, code)
  PROVE  /\ q \in Responses
         /\ r.hijacked \/ r.wroteHeader => q = r
         /\ ~r.hijacked /\ ~r.wroteHeader =>
              /\ q.wroteHeader /\ q.status = code /\ q.contentLength = hdr.length
              /\ q.setLength <=> hdr.length # NoLength
              /\ q.setEncoding = IF hdr.length = NoLength THEN hdr.encoding ELSE "none"
              /\ q.chunking <=> hdr.length = NoLength /\ hdr.encoding = "chunked"
         /\ (q.cwHeader <=> r.cwHeader) /\ (q.noCache <=> r.noCache)
         /\ (q.hijacked <=> r.hijacked) /\ (q.handlerDone <=> r.handlerDone)
         /\ (q.panicked <=> r.panicked) /\ q.written = r.written /\ q.buffer = r.buffer
         /\ q.head = r.head /\ q.body = r.body /\ q.ends = r.ends
PROOF
<1>1. CASE r.hijacked \/ r.wroteHeader
  <2>1. q = r
    BY <1>1 DEF WriteHeader
  <2> QED BY <1>1, <2>1
<1>2. CASE ~(r.hijacked \/ r.wroteHeader)
  <2>1. PICK clen \in Int : clen = hdr.length
    <3>1. hdr.length \in Lengths \cup {NoLength}
      BY DEF HdrOK
    <3>2. Lengths \subseteq Int /\ NoLength \in Int
      BY ResponseAssumption DEF NoLength
    <3> QED BY <3>1, <3>2
  <2>2. PICK encoding \in {"none", "chunked"} :
          encoding = IF hdr.length = NoLength THEN hdr.encoding ELSE "none"
    BY DEF HdrOK
  <2>3. PICK declared \in BOOLEAN : declared = (hdr.length # NoLength)
    OBVIOUS
  <2>4. PICK chunked \in BOOLEAN :
          chunked = (hdr.length = NoLength /\ hdr.encoding = "chunked")
    OBVIOUS
  <2>5. q = [r EXCEPT !.wroteHeader = TRUE, !.status = code, !.contentLength = clen,
                      !.setLength = declared, !.setEncoding = encoding,
                      !.chunking = chunked]
    BY <1>2, <2>1, <2>2, <2>3, <2>4 DEF WriteHeader
  <2>6. q \in Responses
    BY <2>5, ZenonT(40) DEF Responses
  <2>7. /\ q.wroteHeader = TRUE /\ q.status = code /\ q.contentLength = clen
        /\ q.setLength = declared /\ q.setEncoding = encoding /\ q.chunking = chunked
    BY <2>5 DEF Responses
  <2>8. /\ q.cwHeader = r.cwHeader /\ q.noCache = r.noCache
        /\ q.hijacked = r.hijacked /\ q.handlerDone = r.handlerDone
        /\ q.panicked = r.panicked /\ q.written = r.written /\ q.buffer = r.buffer
        /\ q.head = r.head /\ q.body = r.body /\ q.ends = r.ends
    BY <2>5 DEF Responses
  <2> QED BY <1>2, <2>1, <2>2, <2>3, <2>4, <2>6, <2>7, <2>8
<1> QED BY <1>1, <1>2

-----------------------------------------------------------------------------
(* Write *)

\* The ways through Write, with the answer of each.
WriteCases(r, r1, data, q, answer) ==
  \/ r.hijacked /\ q = r /\ answer = "ErrHijacked"
  \/ /\ ~r.hijacked /\ q = r1
     /\ (data = <<>> /\ answer = "nil") \/ answer = "ErrBodyNotAllowed"
  \/ ~r.hijacked /\ r1.chunking /\ q = cwWrite(r1, data) /\ answer = "nil"
  \/ /\ ~r.hijacked /\ ~r1.chunking /\ answer = "ErrContentLength"
     /\ r1.contentLength # NoLength /\ r1.written + Len(data) > r1.contentLength
     /\ q = [r1 EXCEPT !.written = r1.written + Len(data)]
  \/ /\ ~r.hijacked /\ ~r1.chunking /\ answer = "nil"
     /\ r1.contentLength = NoLength \/ r1.written + Len(data) <= r1.contentLength
     /\ \/ /\ ~r1.noCache /\ r1.written + Len(data) <= BufferSize
           /\ q = [r1 EXCEPT !.written = r1.written + Len(data),
                             !.buffer = Fill(r1.buffer, r1.written, data)]
        \/ \E r3 :
             /\ r3 = [r1 EXCEPT !.written = r1.written + Len(data), !.noCache = TRUE]
             /\ \/ /\ ~r1.noCache /\ r1.written > 0
                   /\ q = cwWrite(cwWrite(r3, SubSeq(r1.buffer, 1, r1.written)), data)
                \/ /\ r1.noCache \/ r1.written = 0
                   /\ q = cwWrite(r3, data)

\* Write takes one of them.
LEMMA WriteTakes ==
  ASSUME HdrOK, NEW r \in Responses, NEW data \in Seq(Nat),
         NEW r1, r1 = WithHeader(r), NEW q, q = Write(r, data)
  PROVE  WriteCases(r, r1, data, q, WriteAnswer(r, data))
PROOF
<1>0. r1 \in Responses
  BY StatusSet DEF WithHeader
<1>1. PICK answer : answer = WriteAnswer(r, data)
  OBVIOUS
<1>2. CASE r.hijacked
  BY <1>1, <1>2 DEF Write, WriteAnswer, WriteCases
<1>3. CASE ~r.hijacked /\ data = <<>>
  BY <1>1, <1>3 DEF Write, WriteAnswer, WriteCases
<1>4. CASE ~r.hijacked /\ data # <<>> /\ ~bodyAllowedForStatus(r1.status)
  BY <1>1, <1>4 DEF Write, WriteAnswer, WriteCases
<1>5. CASE ~r.hijacked /\ data # <<>> /\ bodyAllowedForStatus(r1.status) /\ r1.chunking
  <2>1. answer = "nil"
    BY <1>1, <1>5 DEF WriteAnswer
  <2>2. q = cwWrite(r1, data)
    BY <1>1, <1>5, <2>1 DEF Write
  <2> QED BY <1>1, <1>5, <2>1, <2>2 DEF WriteCases
<1>6. CASE ~r.hijacked /\ data # <<>> /\ bodyAllowedForStatus(r1.status) /\ ~r1.chunking
  <2>1. r1.written \in Nat /\ Len(data) \in Nat
    BY <1>0, LenProperties DEF Responses
  <2>2. PICK w : w = r1.written + Len(data)
    OBVIOUS
  <2>3. PICK r2 : r2 = [r1 EXCEPT !.written = w]
    OBVIOUS
  <2>4. r2.written = w /\ r2.buffer = r1.buffer
    BY <1>0, <2>3 DEF Responses
  <2>5. CASE r1.contentLength # NoLength /\ w > r1.contentLength
    <3>1. answer = "ErrContentLength"
      BY <1>1, <1>6, <2>2, <2>5 DEF WriteAnswer
    <3>2. q = [r1 EXCEPT !.written = w]
      BY <1>1, <1>6, <2>2, <3>1 DEF Write
    <3> QED BY <1>1, <1>6, <2>2, <2>5, <3>1, <3>2 DEF WriteCases
  <2>6. CASE ~(r1.contentLength # NoLength /\ w > r1.contentLength)
    <3>1. answer = "nil"
      BY <1>1, <1>6, <2>2, <2>6 DEF WriteAnswer
    <3>2. r1.contentLength = NoLength \/ r1.written + Len(data) <= r1.contentLength
      <4>1. r1.contentLength \in Int
        BY <1>0 DEF Responses
      <4> QED BY <2>1, <2>2, <2>6, <4>1
    <3>3. PICK r3 : r3 = [r1 EXCEPT !.written = w, !.noCache = TRUE]
      OBVIOUS
    <3>4. q = IF ~r1.noCache /\ r2.written <= BufferSize
              THEN [r2 EXCEPT !.buffer = Fill(r2.buffer, r1.written, data)]
              ELSE IF ~r1.noCache /\ r1.written > 0
              THEN cwWrite(cwWrite([r2 EXCEPT !.noCache = TRUE],
                                   SubSeq(r1.buffer, 1, r1.written)), data)
              ELSE cwWrite([r2 EXCEPT !.noCache = TRUE], data)
      BY <1>1, <1>6, <2>2, <2>3, <3>1 DEF Write
    <3>5. [r2 EXCEPT !.noCache = TRUE] = r3
      BY <1>0, <2>3, <3>3 DEF Responses
    <3>6. CASE ~r1.noCache /\ w <= BufferSize
      <4>1. q = [r1 EXCEPT !.written = w, !.buffer = Fill(r1.buffer, r1.written, data)]
        BY <1>0, <2>3, <2>4, <3>4, <3>6 DEF Responses
      <4> QED BY <1>1, <1>6, <2>2, <3>1, <3>2, <3>6, <4>1 DEF WriteCases
    <3>7. CASE ~(~r1.noCache /\ w <= BufferSize) /\ ~r1.noCache /\ r1.written > 0
      <4>1. q = cwWrite(cwWrite(r3, SubSeq(r1.buffer, 1, r1.written)), data)
        BY <2>4, <3>4, <3>5, <3>7
      <4> QED BY <1>1, <1>6, <2>2, <3>1, <3>2, <3>3, <3>7, <4>1 DEF WriteCases
    <3>8. CASE ~(~r1.noCache /\ w <= BufferSize) /\ ~(~r1.noCache /\ r1.written > 0)
      <4>1. q = cwWrite(r3, data)
        BY <2>4, <3>4, <3>5, <3>8
      <4>2. r1.noCache \/ r1.written = 0
        BY <2>1, <3>8
      <4> QED BY <1>1, <1>6, <2>2, <3>1, <3>2, <3>3, <4>1, <4>2 DEF WriteCases
    <3> QED BY <3>6, <3>7, <3>8
  <2> QED BY <2>5, <2>6
<1> QED BY <1>2, <1>3, <1>4, <1>5, <1>6

\* WriteHeader keeps all that is known of a Response.
LEMMA HeaderKeeps ==
  ASSUME HdrOK, NEW r \in Responses, NEW code \in Nat, NEW q, q = WriteHeader(r, code),
         Coherent(r)
  PROVE  /\ Coherent(q)
         /\ \A acc : Holds(r, acc) => Holds(q, acc)
         /\ ~r.hijacked /\ Framing(r) => Framing(q)
         /\ q.wroteHeader \/ r.hijacked
PROOF
<1>1. CASE r.hijacked \/ r.wroteHeader
  BY <1>1, StatusSet
<1>2. CASE ~r.hijacked /\ ~r.wroteHeader
  <2>1. /\ q.wroteHeader /\ q.contentLength = hdr.length
        /\ q.setLength <=> hdr.length # NoLength
        /\ q.setEncoding = IF hdr.length = NoLength THEN hdr.encoding ELSE "none"
        /\ q.chunking <=> hdr.length = NoLength /\ hdr.encoding = "chunked"
    BY <1>2, StatusSet
  <2>2. /\ (q.cwHeader <=> r.cwHeader) /\ (q.noCache <=> r.noCache)
        /\ q.written = r.written /\ q.buffer = r.buffer
        /\ q.head = r.head /\ q.body = r.body /\ q.ends = r.ends
    BY StatusSet
  <2>3. Coherent(q)
    <3>1. r.written = 0 /\ ~(0 > BufferSize)
      BY <1>2, ResponseAssumption DEF Coherent
    <3> QED BY <1>2, <2>1, <2>2, <3>1 DEF Coherent
  <2>4. ASSUME NEW acc, Holds(r, acc) PROVE Holds(q, acc)
    BY <2>2, <2>4 DEF Holds, Cached
  <2>5. ASSUME Framing(r) PROVE Framing(q)
    <3>1. r.written = 0 /\ ~r.cwHeader /\ ~r.noCache
      BY <1>2, <2>5 DEF Framing, FrameCore, FrameCount, Coherent
    <3>2. hdr.length # NoLength => 0 <= hdr.length
      <4>1. hdr.length \in Lengths \cup {NoLength} /\ Lengths \subseteq Nat
        BY ResponseAssumption DEF HdrOK
      <4>2. PICK n : n = hdr.length
        OBVIOUS
      <4>3. n # NoLength => n \in Nat
        BY <4>1, <4>2, Zenon
      <4> QED BY <4>2, <4>3
    <3>3. FrameCore(q)
      BY <2>1, <2>2, <2>5, <3>1 DEF Framing, FrameCore
    <3>4. FrameCount(q)
      BY <2>1, <2>2, <2>5, <3>1, <3>2 DEF Framing, FrameCount
    <3> QED BY <3>3, <3>4 DEF Framing
  <2> QED BY <1>2, <2>1, <2>3, <2>4, <2>5
<1> QED BY <1>1, <1>2

\* Concatenation of bytes is associative.
LEMMA BytesAssociative ==
  ASSUME NEW s \in Seq(Nat), NEW t \in Seq(Nat), NEW u \in Seq(Nat)
  PROVE  s \o (t \o u) = (s \o t) \o u
PROOF BY SMTT(30)

\* The part of the buffer that is filled is a sequence of that length.
LEMMA CachedIs ==
  ASSUME NEW buf \in [1..BufferSize -> Nat], NEW w \in Nat, w <= BufferSize
  PROVE  /\ buf \in Seq(Nat) /\ Len(buf) = BufferSize
         /\ SubSeq(buf, 1, w) \in Seq(Nat) /\ Len(SubSeq(buf, 1, w)) = w
         /\ \A i \in 1..w : SubSeq(buf, 1, w)[i] = buf[i]
PROOF
<1>1. buf \in Seq(Nat) /\ Len(buf) = BufferSize
  BY ResponseAssumption, IsASeq
<1> QED BY <1>1, SubSeqProperties, ResponseAssumption

\* Copying data behind the w bytes in the buffer appends it to what is cached.
LEMMA FillIs ==
  ASSUME NEW buf \in [1..BufferSize -> Nat], NEW w \in Nat, NEW data \in Seq(Nat),
         w + Len(data) <= BufferSize
  PROVE  /\ Fill(buf, w, data) \in [1..BufferSize -> Nat]
         /\ SubSeq(Fill(buf, w, data), 1, w + Len(data)) = SubSeq(buf, 1, w) \o data
PROOF
<1>1. PICK n \in Nat : n = Len(data)
  BY LenProperties
<1>2. BufferSize \in Nat /\ w <= BufferSize /\ w + n <= BufferSize /\ w + n \in Nat
  BY <1>1, ResponseAssumption
<1>3. Len(buf) = BufferSize
  BY <1>2, CachedIs
<1>4. PICK f : f = Fill(buf, w, data)
  OBVIOUS
<1>5. f = [i \in 1..BufferSize |-> IF i \in (w + 1)..(w + n) THEN data[i - w] ELSE buf[i]]
  BY <1>1, <1>3, <1>4 DEF Fill
<1>6. \A i \in (w + 1)..(w + n) : data[i - w] \in Nat
  <2> SUFFICES ASSUME NEW i \in (w + 1)..(w + n) PROVE data[i - w] \in Nat
    OBVIOUS
  <2>1. i - w \in 1..Len(data)
    BY <1>1
  <2> QED BY <2>1, ElementOfSeq
<1>7. f \in [1..BufferSize -> Nat]
  BY <1>5, <1>6
<1>8. PICK s : s = SubSeq(f, 1, w + n)
  OBVIOUS
<1>9. s \in Seq(Nat) /\ Len(s) = w + n /\ \A i \in 1..(w + n) : s[i] = f[i]
  BY <1>2, <1>7, <1>8, CachedIs
<1>10. PICK t : t = SubSeq(buf, 1, w)
  OBVIOUS
<1>11. t \in Seq(Nat) /\ Len(t) = w /\ \A i \in 1..w : t[i] = buf[i]
  BY <1>2, <1>10, CachedIs
<1>12. /\ t \o data \in Seq(Nat) /\ Len(t \o data) = w + n
       /\ \A i \in 1..(w + n) : (t \o data)[i] = IF i <= w THEN t[i] ELSE data[i - w]
  BY <1>1, <1>11, ConcatProperties
<1>13. \A i \in 1..(w + n) : s[i] = (t \o data)[i]
  <2> SUFFICES ASSUME NEW i \in 1..(w + n) PROVE s[i] = (t \o data)[i]
    OBVIOUS
  <2>1. s[i] = f[i] /\ i \in 1..BufferSize
    BY <1>2, <1>9
  <2>2. CASE i <= w
    BY <1>5, <1>11, <1>12, <2>1, <2>2
  <2>3. CASE ~(i <= w)
    <3>1. i \in (w + 1)..(w + n)
      BY <2>3
    <3> QED BY <1>5, <1>12, <2>1, <2>3, <3>1
  <2> QED BY <2>2, <2>3
<1>14. s = t \o data
  BY <1>9, <1>12, <1>13, SeqEqual
<1> QED BY <1>1, <1>4, <1>7, <1>8, <1>10, <1>14

\* The flags a call of the handler may not change.
SameFlags(q, r) ==
  /\ (q.hijacked <=> r.hijacked) /\ (q.handlerDone <=> r.handlerDone)
  /\ (q.panicked <=> r.panicked)

\* Bytes that go straight to the wire while nothing is cached.
LEMMA DirectKeeps ==
  ASSUME HdrOK, HEAD \in BOOLEAN, NEW r \in Responses, NEW p \in Seq(Nat), NEW q,
         q = cwWrite(r, p), Coherent(r), r.wroteHeader, r.noCache \/ r.written = 0
  PROVE  /\ q \in Responses /\ Coherent(q) /\ SameFlags(q, r) /\ q.wroteHeader
         /\ (q.noCache <=> r.noCache) /\ q.written = r.written /\ q.ends = r.ends
         /\ \A acc \in Seq(Nat) : Holds(r, acc) => Holds(q, acc \o p)
PROOF
<1>1. /\ q \in Responses /\ SameResponse(q, r) /\ Decided(q, r, p)
      /\ q.body = (IF HEAD THEN r.body ELSE r.body \o p) /\ q.ends = r.ends
  BY WriteOut
<1>2. Coherent(q)
  <2>1. r.noCache \/ ~(r.written > BufferSize)
    BY ResponseAssumption
  <2> QED BY <1>1, <2>1 DEF Coherent, SameResponse, Decided, AutoLength
<1>3. ASSUME NEW acc \in Seq(Nat), Holds(r, acc)
      PROVE  Holds(q, acc \o p)
  <2>1. r.body \in Seq(Nat) /\ r.buffer \in [1..BufferSize -> Nat]
    BY DEF Responses
  <2>2. Cached(r) = <<>> /\ Cached(q) = <<>>
    BY <1>1, SubSeqEmpty DEF Cached, SameResponse
  <2>3. ~HEAD => r.body = acc
    BY <1>3, <2>1, <2>2, ConcatEmptySeq DEF Holds
  <2>4. ~HEAD => q.body \o Cached(q) = acc \o p
    <3>1. r.body \o p \in Seq(Nat)
      BY <2>1, ConcatProperties
    <3> QED BY <1>1, <2>2, <2>3, <3>1, ConcatEmptySeq
  <2>5. HEAD => q.body = <<>>
    BY <1>1, <1>3 DEF Holds
  <2>6. ~q.noCache => q.written <= BufferSize
    BY <1>1, <1>3 DEF Holds, SameResponse
  <2> QED BY <2>4, <2>5, <2>6 DEF Holds
<1> QED BY <1>1, <1>2, <1>3 DEF SameResponse, SameFlags

\* Write keeps the Response coherent.  What it answers nil for is added to what
\* the Response holds, whichever way the bytes take.
LEMMA WriteKeeps ==
  ASSUME HdrOK, HEAD \in BOOLEAN, NEW r \in Responses, NEW data \in Seq(Nat),
         NEW q, q = Write(r, data), NEW answer, answer = WriteAnswer(r, data), Coherent(r)
  PROVE  /\ q \in Responses /\ Coherent(q) /\ SameFlags(q, r) /\ (r.hijacked => q = r)
         /\ answer \in {"nil", "ErrHijacked", "ErrBodyNotAllowed", "ErrContentLength"}
         /\ r.hijacked => answer # "nil"
         /\ \A acc \in Seq(Nat) : Holds(r, acc) =>
              /\ answer = "nil" => Holds(q, acc \o data)
              /\ answer \in {"ErrHijacked", "ErrBodyNotAllowed"} => Holds(q, acc)
PROOF
<1>1. PICK r1 : r1 = WithHeader(r)
  OBVIOUS
<1>2. WriteCases(r, r1, data, q, answer)
  BY <1>1, WriteTakes
<1>3. /\ r1 \in Responses /\ SameFlags(r1, r) /\ Coherent(r1)
      /\ \A acc : Holds(r, acc) => Holds(r1, acc)
      /\ r1.wroteHeader \/ r.hijacked
  <2>1. PICK code \in Nat : code = 200
    OBVIOUS
  <2>2. r1 = WriteHeader(r, code)
    BY <1>1, <2>1 DEF WithHeader
  <2> QED BY <2>2, StatusSet, HeaderKeeps DEF SameFlags
<1>4. CASE r.hijacked /\ q = r /\ answer = "ErrHijacked"
  BY <1>4 DEF SameFlags
<1>5. CASE /\ ~r.hijacked /\ q = r1
           /\ (data = <<>> /\ answer = "nil") \/ answer = "ErrBodyNotAllowed"
  BY <1>3, <1>5, ConcatEmptySeq
<1>6. CASE ~r.hijacked /\ r1.chunking /\ q = cwWrite(r1, data) /\ answer = "nil"
  <2>1. r1.noCache \/ r1.written = 0
    BY <1>3, <1>6 DEF Coherent
  <2> QED BY <1>3, <1>6, <2>1, DirectKeeps DEF SameFlags
<1>7. CASE /\ ~r.hijacked /\ ~r1.chunking /\ answer = "ErrContentLength"
           /\ r1.contentLength # NoLength /\ r1.written + Len(data) > r1.contentLength
           /\ q = [r1 EXCEPT !.written = r1.written + Len(data)]
  <2>1. PICK w \in Nat : w = r1.written + Len(data)
    BY <1>3, LenProperties DEF Responses
  <2>2. q = [r1 EXCEPT !.written = w]
    BY <1>7, <2>1
  <2>3. q \in Responses
    BY <1>3, <2>2 DEF Responses
  <2>4. /\ q.hijacked = r1.hijacked /\ q.handlerDone = r1.handlerDone
        /\ q.panicked = r1.panicked /\ q.chunking = r1.chunking
        /\ q.wroteHeader = r1.wroteHeader /\ q.contentLength = r1.contentLength
        /\ q.written = w
    BY <1>3, <2>2 DEF Responses
  <2>5. Coherent(q)
    BY <1>3, <1>7, <2>1, <2>4 DEF Coherent
  <2> QED BY <1>3, <1>7, <2>3, <2>4, <2>5 DEF SameFlags
<1>8. CASE /\ ~r.hijacked /\ ~r1.chunking /\ answer = "nil"
           /\ ~r1.noCache /\ r1.written + Len(data) <= BufferSize
           /\ q = [r1 EXCEPT !.written = r1.written + Len(data),
                             !.buffer = Fill(r1.buffer, r1.written, data)]
  <2>1. PICK w \in Nat : w = r1.written
    BY <1>3 DEF Responses
  <2>2. PICK n \in Nat : n = Len(data)
    BY LenProperties
  <2>3. PICK buf \in [1..BufferSize -> Nat] : buf = r1.buffer
    BY <1>3 DEF Responses
  <2>4. PICK f : f = Fill(buf, w, data)
    OBVIOUS
  <2>5. f \in [1..BufferSize -> Nat] /\ SubSeq(f, 1, w + n) = SubSeq(buf, 1, w) \o data
    BY <1>8, <2>1, <2>2, <2>4, FillIs
  <2>6. q = [r1 EXCEPT !.written = w + n, !.buffer = f]
    BY <1>8, <2>1, <2>2, <2>3, <2>4
  <2>7. w + n \in Nat
    OBVIOUS
  <2>8. q \in Responses
    BY <1>3, <2>5, <2>6, <2>7, ZenonT(40) DEF Responses
  <2>9. /\ q.hijacked = r1.hijacked /\ q.handlerDone = r1.handlerDone
        /\ q.panicked = r1.panicked /\ q.chunking = r1.chunking /\ q.body = r1.body
        /\ q.wroteHeader = r1.wroteHeader /\ q.noCache = r1.noCache
        /\ q.written = w + n /\ q.buffer = f
    BY <1>3, <2>6 DEF Responses
  <2>10. ASSUME NEW acc \in Seq(Nat), Holds(r1, acc)
         PROVE  Holds(q, acc \o data)
    <3>1. PICK t : t = SubSeq(buf, 1, w)
      OBVIOUS
    <3>2. Cached(r1) = t /\ Cached(q) = t \o data
      BY <1>8, <2>1, <2>3, <2>5, <2>9, <3>1 DEF Cached
    <3>3. t \in Seq(Nat) /\ r1.body \in Seq(Nat)
      <4>1. w <= BufferSize
        BY <1>8, <2>1, <2>2, ResponseAssumption
      <4>2. r1.body \in Seq(Nat)
        BY <1>3 DEF Responses
      <4> QED BY <3>1, <4>1, <4>2, CachedIs
    <3>4. ~HEAD => q.body \o Cached(q) = acc \o data
      <4>1. PICK b \in Seq(Nat) : b = r1.body
        BY <3>3
      <4>2. b \o (t \o data) = (b \o t) \o data
        BY <3>3, BytesAssociative, ZenonT(40)
      <4>3. ~HEAD => b \o t = acc
        BY <2>10, <3>2, <4>1 DEF Holds
      <4> QED BY <2>9, <3>2, <4>1, <4>2, <4>3
    <3>5. HEAD => q.body = <<>>
      BY <2>9, <2>10 DEF Holds
    <3>6. q.written <= BufferSize
      BY <1>8, <2>1, <2>2, <2>9
    <3> QED BY <3>4, <3>5, <3>6 DEF Holds
  <2>11. Coherent(q) /\ SameFlags(q, r)
    <3>1. ~(q.written > BufferSize)
      BY <1>8, <2>1, <2>2, <2>9, ResponseAssumption
    <3> QED BY <1>3, <1>8, <2>9, <3>1 DEF Coherent, SameFlags
  <2> QED BY <1>3, <1>8, <2>8, <2>10, <2>11
<1>9. ASSUME NEW r3, r3 = [r1 EXCEPT !.written = r1.written + Len(data), !.noCache = TRUE],
             ~r.hijacked, ~r1.chunking, answer = "nil",
             r1.contentLength = NoLength \/ r1.written + Len(data) <= r1.contentLength,
             \/ /\ ~r1.noCache /\ r1.written > 0
                /\ q = cwWrite(cwWrite(r3, SubSeq(r1.buffer, 1, r1.written)), data)
             \/ /\ r1.noCache \/ r1.written = 0
                /\ q = cwWrite(r3, data)
      PROVE  /\ q \in Responses /\ Coherent(q) /\ SameFlags(q, r)
             /\ \A acc \in Seq(Nat) : Holds(r1, acc) => Holds(q, acc \o data)
  <2>1. PICK w \in Nat : w = r1.written + Len(data)
    BY <1>3, LenProperties DEF Responses
  <2>2. r3 = [r1 EXCEPT !.written = w, !.noCache = TRUE]
    BY <1>9, <2>1
  <2>3. r3 \in Responses
    BY <1>3, <2>2 DEF Responses
  <2>4. /\ r3.hijacked = r1.hijacked /\ r3.handlerDone = r1.handlerDone
        /\ r3.panicked = r1.panicked /\ r3.chunking = r1.chunking /\ r3.body = r1.body
        /\ r3.wroteHeader = r1.wroteHeader /\ r3.noCache = TRUE
    BY <1>3, <2>2 DEF Responses
  <2>5. Coherent(r3) /\ SameFlags(r3, r) /\ r3.wroteHeader
    BY <1>3, <1>9, <2>4 DEF Coherent, SameFlags
  <2>6. r1.body \in Seq(Nat) /\ r1.written \in Nat /\ r1.buffer \in [1..BufferSize -> Nat]
    BY <1>3 DEF Responses
  <2>7. CASE r1.noCache \/ r1.written = 0
    <3>1. q = cwWrite(r3, data)
      BY <1>9, <2>6, <2>7
    <3>2. /\ q \in Responses /\ Coherent(q) /\ SameFlags(q, r3)
          /\ \A acc \in Seq(Nat) : Holds(r3, acc) => Holds(q, acc \o data)
      BY <2>3, <2>4, <2>5, <3>1, DirectKeeps
    <3>3. Cached(r1) = <<>> /\ Cached(r3) = <<>>
      BY <2>4, <2>6, <2>7, SubSeqEmpty DEF Cached
    <3>4. \A acc \in Seq(Nat) : Holds(r1, acc) => Holds(r3, acc)
      BY <2>4, <3>3 DEF Holds
    <3> QED BY <2>5, <3>2, <3>4 DEF SameFlags
  <2>8. CASE ~r1.noCache /\ r1.written > 0
    <3>1. PICK t : t = SubSeq(r1.buffer, 1, r1.written)
      OBVIOUS
    <3>2. PICK x : x = cwWrite(r3, t)
      OBVIOUS
    <3>3. q = cwWrite(x, data)
      BY <1>9, <2>6, <2>8, <3>1, <3>2
    <3>4. r1.written <= BufferSize
      <4>1. PICK v \in Nat : v = r1.written
        BY <2>6
      <4>2. PICK n \in Nat : n = Len(data)
        BY LenProperties
      <4>3. PICK clen \in Int : clen = r1.contentLength
        BY <1>3 DEF Responses
      <4>4. clen = NoLength \/ v + n <= clen
        BY <1>9, <4>1, <4>2, <4>3
      <4>5. v > BufferSize => clen # NoLength /\ v > clen
        BY <1>3, <2>8, <4>1, <4>3 DEF Coherent
      <4> QED BY <4>1, <4>4, <4>5, ResponseAssumption
    <3>5. t \in Seq(Nat)
      BY <2>6, <3>1, <3>4, CachedIs
    <3>6. /\ x \in Responses /\ Coherent(x) /\ SameFlags(x, r3) /\ x.wroteHeader /\ x.noCache
          /\ \A acc \in Seq(Nat) : Holds(r3, acc) => Holds(x, acc \o t)
      BY <2>3, <2>4, <2>5, <3>2, <3>5, DirectKeeps
    <3>7. /\ q \in Responses /\ Coherent(q) /\ SameFlags(q, x)
          /\ \A acc \in Seq(Nat) : Holds(x, acc) => Holds(q, acc \o data)
      BY <3>3, <3>6, DirectKeeps
    <3>8. ASSUME NEW acc \in Seq(Nat), Holds(r1, acc)
          PROVE  Holds(q, acc \o data)
      <4>1. Holds(r3, r1.body)
        BY <2>4, <2>6, <3>8, ConcatEmptySeq DEF Holds, Cached
      <4>2. Holds(x, r1.body \o t)
        BY <2>6, <3>6, <4>1
      <4>3. r1.body \o t \in Seq(Nat)
        BY <2>6, <3>5, ConcatProperties
      <4>4. Holds(q, (r1.body \o t) \o data)
        BY <3>7, <4>2, <4>3
      <4>5. ~HEAD => r1.body \o t = acc
        BY <2>8, <3>1, <3>8 DEF Holds, Cached
      <4> QED BY <4>4, <4>5 DEF Holds
    <3> QED BY <2>5, <3>6, <3>7, <3>8 DEF SameFlags
  <2> QED BY <2>6, <2>7, <2>8
<1> QED BY <1>2, <1>3, <1>4, <1>5, <1>6, <1>7, <1>8, <1>9 DEF WriteCases

\* A header that goes out for chunks, or for a body the cache no longer holds, has
\* the framing the header fields call for.
LEMMA DirectFrames ==
  ASSUME HdrOK, HEAD \in BOOLEAN, NEW r \in Responses, NEW p \in Seq(Nat),
         NEW q, q = cwWrite(r, p), FrameCore(r), r.wroteHeader, r.chunking \/ r.noCache,
         r.chunking => ~r.setLength
  PROVE  /\ FrameCore(q) /\ (q.setLength <=> r.setLength)
         /\ q.contentLength = r.contentLength /\ q.written = r.written
PROOF
<1>1. /\ q \in Responses /\ SameResponse(q, r) /\ Decided(q, r, p) /\ q.ends = r.ends
  BY WriteOut
<1>2. CASE r.cwHeader
  BY <1>1, <1>2 DEF FrameCore, SameResponse, Decided
<1>3. CASE ~r.cwHeader
  <2>1. ~AutoLength(r)
    BY DEF AutoLength
  <2>2. /\ q.cwHeader /\ (q.chunking <=> ~r.setLength) /\ (q.setLength <=> r.setLength)
        /\ q.contentLength = r.contentLength
        /\ q.setEncoding = IF ~r.setLength /\ ~r.chunking /\ r.noCache
                           THEN "chunked" ELSE r.setEncoding
        /\ q.head = Append(r.head, [status |-> r.status,
                                    chunked |-> q.setEncoding = "chunked",
                                    length |-> IF q.setLength THEN q.contentLength
                                               ELSE NoLength])
    BY <1>1, <1>3, <2>1 DEF Decided
  <2>3. r.head = <<>> /\ (r.chunking <=> r.setEncoding = "chunked")
    BY <1>3 DEF FrameCore
  <2>4. q.setEncoding = "chunked" <=> q.chunking
    BY <2>2, <2>3 DEF FrameCore
  <2>5. PICK b, n : /\ b \in BOOLEAN /\ b = (q.setEncoding = "chunked")
                    /\ n = IF q.setLength THEN q.contentLength ELSE NoLength
    OBVIOUS
  <2>6. PICK h : h = [status |-> r.status, chunked |-> b, length |-> n]
    OBVIOUS
  <2>7. q.head = Append(<<>>, h)
    BY <2>2, <2>3, <2>5, <2>6, Zenon
  <2>8. Len(q.head) = 1 /\ q.head[1] = h
    BY <2>7
  <2>9. h.chunked = b /\ h.length = n
    BY <2>6
  <2>10. /\ q.head[1].chunked <=> q.chunking
         /\ q.head[1].length = IF q.setLength THEN q.contentLength ELSE NoLength
    BY <2>4, <2>5, <2>8, <2>9, Zenon
  <2> QED BY <1>1, <2>2, <2>8, <2>10 DEF FrameCore, SameResponse
<1> QED BY <1>2, <1>3

\* Write keeps the framing, as long as it does not exceed the declared length.
LEMMA WriteFrames ==
  ASSUME HdrOK, HEAD \in BOOLEAN, NEW r \in Responses, NEW data \in Seq(Nat), NEW acc,
         NEW q, q = Write(r, data), NEW answer, answer = WriteAnswer(r, data), Coherent(r),
         Holds(r, acc), ~r.hijacked, Framing(r), answer # "ErrContentLength"
  PROVE  Framing(q)
PROOF
<1>1. PICK r1 : r1 = WithHeader(r)
  OBVIOUS
<1>2. WriteCases(r, r1, data, q, answer)
  BY <1>1, WriteTakes
<1>3. /\ r1 \in Responses /\ Coherent(r1) /\ Holds(r1, acc) /\ Framing(r1) /\ r1.wroteHeader
  <2>1. PICK code \in Nat : code = 200
    OBVIOUS
  <2>2. r1 = WriteHeader(r, code)
    BY <1>1, <2>1 DEF WithHeader
  <2> QED BY <2>2, StatusSet, HeaderKeeps
<1>4. CASE q = r1
  BY <1>3, <1>4
<1>5. CASE r1.chunking /\ q = cwWrite(r1, data)
  <2>1. FrameCore(q) /\ ~q.setLength /\ q.cwHeader
    BY <1>3, <1>5, DirectFrames, WriteOut, ZenonT(40) DEF Framing, Coherent, Decided
  <2> QED BY <2>1 DEF Framing, FrameCount
<1>6. PICK n \in Nat, v \in Nat, clen \in Int :
        n = Len(data) /\ v = r1.written /\ clen = r1.contentLength
  BY <1>3, LenProperties DEF Responses
<1>7. ASSUME ~r1.chunking, r1.contentLength = NoLength \/ v + n <= r1.contentLength,
             ~r1.noCache, q = [r1 EXCEPT !.written = v + n,
                                         !.buffer = Fill(r1.buffer, r1.written, data)]
      PROVE  Framing(q)
  <2>1. /\ q.wroteHeader = r1.wroteHeader /\ q.cwHeader = r1.cwHeader
        /\ q.setLength = r1.setLength /\ q.contentLength = r1.contentLength
        /\ q.setEncoding = r1.setEncoding /\ q.chunking = r1.chunking
        /\ q.noCache = r1.noCache /\ q.head = r1.head /\ q.body = r1.body
        /\ q.ends = r1.ends /\ q.written = v + n
    BY <1>3, <1>7 DEF Responses
  <2>2. FrameCore(q)
    BY <1>3, <2>1 DEF Framing, FrameCore
  <2>3. FrameCount(q)
    BY <1>3, <1>7, <2>1 DEF Framing, FrameCore, FrameCount
  <2> QED BY <2>2, <2>3 DEF Framing
<1>8. ASSUME NEW r3, r3 = [r1 EXCEPT !.written = v + n, !.noCache = TRUE], ~r1.chunking,
             r1.contentLength = NoLength \/ v + n <= r1.contentLength,
             \/ /\ ~r1.noCache /\ v > 0
                /\ q = cwWrite(cwWrite(r3, SubSeq(r1.buffer, 1, r1.written)), data)
             \/ /\ r1.noCache \/ v = 0
                /\ q = cwWrite(r3, data)
      PROVE  Framing(q)
  <2>1. r3 \in Responses
    <3>1. v + n \in Nat
      OBVIOUS
    <3> QED BY <1>3, <1>8, <3>1 DEF Responses
  <2>2. /\ r3.wroteHeader = r1.wroteHeader /\ r3.cwHeader = r1.cwHeader
        /\ r3.setLength = r1.setLength /\ r3.contentLength = r1.contentLength
        /\ r3.setEncoding = r1.setEncoding /\ r3.chunking = r1.chunking
        /\ r3.noCache = TRUE /\ r3.head = r1.head /\ r3.body = r1.body
        /\ r3.ends = r1.ends /\ r3.written = v + n
    BY <1>3, <1>8 DEF Responses
  <2>3. FrameCore(r3)
    BY <1>3, <2>2 DEF Framing, FrameCore
  <2>4. r1.body \in Seq(Nat) /\ r1.buffer \in [1..BufferSize -> Nat]
    BY <1>3 DEF Responses
  <2>5. ~r1.noCache => r1.body = <<>>
    BY <1>3, <1>8 DEF Framing, FrameCore, FrameCount
  <2>6. r1.setLength => v + n <= r1.contentLength
    BY <1>3, <1>8 DEF Framing, FrameCore
  <2>7. CASE r1.noCache \/ v = 0
    <3>1. q = cwWrite(r3, data)
      BY <1>8, <2>7
    <3>2. /\ FrameCore(q) /\ (q.setLength <=> r1.setLength) /\ q.cwHeader
          /\ q.contentLength = r1.contentLength /\ q.written = v + n
          /\ q.body = IF HEAD THEN r1.body ELSE r1.body \o data
      <4>1. /\ FrameCore(q) /\ (q.setLength <=> r3.setLength)
            /\ q.contentLength = r3.contentLength /\ q.written = r3.written
        <5>1. r3.wroteHeader /\ (r3.chunking \/ r3.noCache) /\ (r3.chunking => ~r3.setLength)
          BY <1>3, <1>8, <2>2
        <5> QED BY <2>1, <2>3, <3>1, <5>1, DirectFrames
      <4>2. Decided(q, r3, data) /\ q.body = IF HEAD THEN r3.body ELSE r3.body \o data
        BY <2>1, <3>1, WriteOut
      <4> QED BY <2>2, <4>1, <4>2 DEF Decided
    <3>3. r1.setLength /\ ~HEAD => Len(r1.body) = v
      BY <1>3, <1>6, <2>5, <2>7 DEF Framing, FrameCount
    <3>4. Len(r1.body \o data) = Len(r1.body) + n
      BY <1>6, <2>4, ConcatProperties
    <3> QED BY <2>6, <3>2, <3>3, <3>4 DEF Framing, FrameCount
  <2>8. CASE ~r1.noCache /\ v > 0
    <3>1. PICK t : t = SubSeq(r1.buffer, 1, r1.written)
      OBVIOUS
    <3>2. PICK x : x = cwWrite(r3, t)
      OBVIOUS
    <3>3. q = cwWrite(x, data)
      BY <1>8, <2>8, <3>1, <3>2
    <3>4. t \in Seq(Nat) /\ Len(t) = v
      <4>1. v <= BufferSize
        BY <1>3, <1>6, <2>8 DEF Holds
      <4> QED BY <1>6, <2>4, <3>1, <4>1, CachedIs
    <3>5. /\ FrameCore(x) /\ (x.setLength <=> r1.setLength)
          /\ x.contentLength = r1.contentLength /\ x.written = v + n
      BY <1>3, <1>8, <2>1, <2>2, <2>3, <3>2, <3>4, DirectFrames, ZenonT(40)
    <3>6. /\ x \in Responses /\ x.noCache /\ x.wroteHeader /\ x.cwHeader
          /\ x.body = IF HEAD THEN r1.body ELSE r1.body \o t
      <4>1. /\ x \in Responses /\ SameResponse(x, r3) /\ Decided(x, r3, t)
            /\ x.body = IF HEAD THEN r3.body ELSE r3.body \o t
        BY <2>1, <3>2, <3>4, WriteOut
      <4> QED BY <1>3, <2>2, <4>1 DEF SameResponse, Decided
    <3>7. x.chunking => ~x.setLength
      BY <3>5, <3>6 DEF FrameCore
    <3>8. /\ FrameCore(q) /\ (q.setLength <=> r1.setLength) /\ q.cwHeader
          /\ q.contentLength = r1.contentLength /\ q.written = v + n
          /\ q.body = IF HEAD THEN x.body ELSE x.body \o data
      <4>1. /\ FrameCore(q) /\ (q.setLength <=> x.setLength)
            /\ q.contentLength = x.contentLength /\ q.written = x.written
        BY <3>3, <3>5, <3>6, <3>7, DirectFrames
      <4>2. Decided(q, x, data) /\ q.body = IF HEAD THEN x.body ELSE x.body \o data
        BY <3>3, <3>6, WriteOut
      <4> QED BY <3>5, <4>1, <4>2 DEF Decided
    <3>9. ~HEAD => Len(q.body) = v + n
      <4>1. ~HEAD => x.body = t
        BY <2>5, <2>8, <3>4, <3>6, ConcatEmptySeq
      <4>2. Len(t \o data) = v + n
        BY <1>6, <3>4, ConcatProperties, ZenonT(40)
      <4> QED BY <3>8, <4>1, <4>2
    <3> QED BY <2>6, <3>8, <3>9 DEF Framing, FrameCount
  <2> QED BY <2>7, <2>8
<1> QED BY <1>2, <1>4, <1>5, <1>6, <1>7, <1>8 DEF WriteCases

-----------------------------------------------------------------------------
(* Flush, FinishRequest and Hijack *)

\* The ways through Flush.
FlushCases(r, r1, q) ==
  \/ r.hijacked /\ q = r
  \/ ~r.hijacked /\ q = [r1 EXCEPT !.panicked = TRUE]
  \/ /\ ~r.hijacked /\ ~r1.noCache /\ r1.written > 0 /\ r1.written <= BufferSize
     /\ \E x : /\ x = cwWrite(r1, SubSeq(r1.buffer, 1, r1.written))
               /\ q = [x EXCEPT !.written = 0]
  \/ /\ ~r.hijacked /\ (r1.noCache \/ r1.written = 0)
     /\ q = cwWriteHeader(r1, <<>>)

\* Flush takes one of them.
LEMMA FlushTakes ==
  ASSUME NEW r \in Responses, NEW r1 \in Responses, r1 = WithHeader(r), NEW q, q = Flush(r)
  PROVE  FlushCases(r, r1, q)
PROOF
<1>1. r1.written \in Nat /\ BufferSize \in Nat
  BY ResponseAssumption DEF Responses
<1>2. CASE r.hijacked
  BY <1>2 DEF Flush, FlushCases
<1>3. CASE ~r.hijacked /\ ~r1.noCache /\ r1.written > BufferSize
  BY <1>3 DEF Flush, FlushCases
<1>4. CASE ~r.hijacked /\ ~r1.noCache /\ r1.written <= BufferSize /\ r1.written > 0
  <2>1. PICK x : x = cwWrite(r1, SubSeq(r1.buffer, 1, r1.written))
    OBVIOUS
  <2>2. ~(r1.written > BufferSize)
    BY <1>1, <1>4
  <2>3. q = [x EXCEPT !.written = 0]
    BY <1>4, <2>1, <2>2 DEF Flush
  <2> QED BY <1>4, <2>1, <2>3 DEF FlushCases
<1>5. CASE ~r.hijacked /\ (r1.noCache \/ r1.written = 0)
  <2>1. r1.noCache \/ (~(r1.written > BufferSize) /\ ~(r1.written > 0))
    BY <1>1, <1>5
  <2>2. q = cwWriteHeader(r1, <<>>)
    BY <1>5, <2>1 DEF Flush
  <2> QED BY <1>5, <2>2 DEF FlushCases
<1> QED BY <1>1, <1>2, <1>3, <1>4, <1>5

\* Flush leaves nothing in the cache, and loses nothing of it.
LEMMA FlushDelivers ==
  ASSUME HdrOK, HEAD \in BOOLEAN, NEW r \in Responses, NEW q, q = Flush(r), Coherent(r)
  PROVE  /\ q \in Responses /\ Coherent(q) /\ (r.hijacked => q = r)
         /\ (q.hijacked <=> r.hijacked) /\ (q.handlerDone <=> r.handlerDone)
         /\ q.wroteHeader \/ r.hijacked
         /\ q.panicked \/ r.hijacked \/ q.noCache \/ q.written = 0
         /\ \A acc \in Seq(Nat) : Holds(r, acc) /\ ~q.panicked => Holds(q, acc)
PROOF
<1>1. PICK r1 : r1 = WithHeader(r)
  OBVIOUS
<1>2. /\ r1 \in Responses /\ SameFlags(r1, r) /\ Coherent(r1)
      /\ \A acc : Holds(r, acc) => Holds(r1, acc)
      /\ r1.wroteHeader \/ r.hijacked
  <2>1. PICK code \in Nat : code = 200
    OBVIOUS
  <2>2. r1 = WriteHeader(r, code)
    BY <1>1, <2>1 DEF WithHeader
  <2> QED BY <2>2, StatusSet, HeaderKeeps DEF SameFlags
<1>3. FlushCases(r, r1, q)
  BY <1>1, <1>2, FlushTakes
<1>4. CASE r.hijacked /\ q = r
  BY <1>4
<1>5. CASE ~r.hijacked /\ q = [r1 EXCEPT !.panicked = TRUE]
  <2>1. q \in Responses
    BY <1>2, <1>5 DEF Responses
  <2>2. /\ q.panicked = TRUE /\ q.hijacked = r1.hijacked /\ q.handlerDone = r1.handlerDone
        /\ q.chunking = r1.chunking /\ q.setLength = r1.setLength /\ q.noCache = r1.noCache
        /\ q.written = r1.written /\ q.wroteHeader = r1.wroteHeader
        /\ q.contentLength = r1.contentLength
    BY <1>2, <1>5 DEF Responses
  <2>3. Coherent(q)
    BY <1>2, <1>5, <2>2 DEF Coherent
  <2> QED BY <1>2, <1>5, <2>1, <2>2, <2>3 DEF SameFlags
<1>6. ASSUME ~r.hijacked, ~r1.noCache, r1.written > 0, r1.written <= BufferSize,
             NEW x, x = cwWrite(r1, SubSeq(r1.buffer, 1, r1.written)),
             q = [x EXCEPT !.written = 0]
      PROVE  /\ q \in Responses /\ Coherent(q) /\ SameFlags(q, r)
             /\ q.wroteHeader /\ q.written = 0
             /\ \A acc \in Seq(Nat) : Holds(r1, acc) => Holds(q, acc)
  <2>1. r1.written \in Nat /\ r1.buffer \in [1..BufferSize -> Nat] /\ r1.body \in Seq(Nat)
    BY <1>2 DEF Responses
  <2>2. PICK t \in Seq(Nat) : t = SubSeq(r1.buffer, 1, r1.written)
    BY <1>6, <2>1, CachedIs
  <2>3. /\ x \in Responses /\ SameResponse(x, r1) /\ Decided(x, r1, t)
        /\ x.body = IF HEAD THEN r1.body ELSE r1.body \o t
    BY <1>2, <1>6, <2>2, WriteOut, ZenonT(40)
  <2>4. q \in Responses
    <3>0. PICK zero \in Nat : zero = 0
      OBVIOUS
    <3>1. q = [x EXCEPT !.written = zero]
      BY <1>6, <3>0
    <3>2. x \in Responses
      BY <2>3
    <3> QED BY <3>1, <3>2 DEF Responses
  <2>5. /\ q.hijacked = x.hijacked /\ q.handlerDone = x.handlerDone
        /\ q.panicked = x.panicked /\ q.chunking = x.chunking
        /\ q.setLength = x.setLength /\ q.noCache = x.noCache /\ q.buffer = x.buffer
        /\ q.written = 0 /\ q.wroteHeader = x.wroteHeader /\ q.body = x.body
    BY <1>6, <2>3 DEF Responses
  <2>6. Coherent(q)
    <3>1. ~(0 > BufferSize)
      BY ResponseAssumption
    <3>2. x.chunking => ~x.setLength
      BY <1>2, <2>3 DEF Coherent, Decided, AutoLength
    <3> QED BY <1>2, <1>6, <2>3, <2>5, <3>1, <3>2 DEF Coherent, SameResponse
  <2>7. ASSUME NEW acc \in Seq(Nat), Holds(r1, acc)
        PROVE  Holds(q, acc)
    <3>1. Cached(r1) = t /\ Cached(q) = <<>>
      BY <1>6, <2>2, <2>3, <2>5, SubSeqEmpty DEF Cached, SameResponse
    <3>2. ~HEAD => q.body \o <<>> = acc
      <4>1. ~HEAD => q.body = acc
        BY <2>3, <2>5, <2>7, <3>1 DEF Holds
      <4> QED BY <4>1, ConcatEmptySeq
    <3>3. HEAD => q.body = <<>>
      BY <2>3, <2>5, <2>7 DEF Holds
    <3>4. q.written <= BufferSize
      BY <2>5, ResponseAssumption
    <3> QED BY <3>1, <3>2, <3>3, <3>4 DEF Holds
  <2> QED BY <1>2, <1>6, <2>3, <2>4, <2>5, <2>6, <2>7 DEF SameFlags, SameResponse
<1>7. CASE /\ ~r.hijacked /\ (r1.noCache \/ r1.written = 0)
           /\ q = cwWriteHeader(r1, <<>>)
  <2>1. /\ q \in Responses /\ SameResponse(q, r1) /\ Decided(q, r1, <<>>)
        /\ q.body = r1.body
    <3>1. PICK none \in Seq(Nat) : none = <<>>
      BY EmptySeq
    <3>2. q = cwWriteHeader(r1, none)
      BY <1>7, <3>1
    <3>3. /\ q \in Responses /\ SameResponse(q, r1) /\ Decided(q, r1, none)
          /\ q.body = r1.body
      BY <1>2, <3>2, HeaderOut
    <3> QED BY <3>1, <3>3
  <2>2. Coherent(q)
    <3>1. r1.noCache \/ ~(r1.written > BufferSize)
      BY <1>7, ResponseAssumption
    <3> QED BY <1>2, <1>7, <2>1, <3>1 DEF Coherent, SameResponse, Decided, AutoLength
  <2>3. \A acc : Holds(r1, acc) => Holds(q, acc)
    BY <2>1 DEF Holds, Cached, SameResponse
  <2> QED BY <1>2, <1>7, <2>1, <2>2, <2>3 DEF SameFlags, SameResponse
<1>8. CASE /\ ~r.hijacked /\ ~r1.noCache /\ r1.written > 0 /\ r1.written <= BufferSize
           /\ \E x : /\ x = cwWrite(r1, SubSeq(r1.buffer, 1, r1.written))
                     /\ q = [x EXCEPT !.written = 0]
  BY <1>2, <1>6, <1>8 DEF SameFlags
<1> QED BY <1>3, <1>4, <1>5, <1>7, <1>8 DEF FlushCases

\* A header that goes out when the handler is done, while everything is cached:
\* chunks if the handler asked for them, and else a length.
LEMMA LastHeader ==
  ASSUME HdrOK, NEW r \in Responses, NEW p \in Seq(Nat), NEW q \in Responses, Decided(q, r, p),
         FrameCore(r), ~r.cwHeader, r.wroteHeader, r.handlerDone, ~r.noCache,
         r.chunking => ~r.setLength
  PROVE  /\ Len(q.head) = 1 /\ (q.head[1].chunked <=> r.chunking)
         /\ q.chunking <=> r.chunking
         /\ r.chunking => q.head[1].length = NoLength
         /\ ~r.chunking /\ bodyAllowedForStatus(r.status) =>
              q.head[1].length = IF r.setLength THEN hdr.length ELSE Len(p)
PROOF
<1>1. /\ q.chunking <=> r.chunking
      /\ q.setLength <=> r.setLength \/ AutoLength(r)
      /\ q.contentLength = IF AutoLength(r) THEN Len(p) ELSE r.contentLength
      /\ q.setEncoding = r.setEncoding
      /\ q.head = Append(r.head, [status |-> r.status,
                                  chunked |-> q.setEncoding = "chunked",
                                  length |-> IF q.setLength THEN q.contentLength
                                             ELSE NoLength])
  BY DEF Decided
<1>2. r.head = <<>> /\ (r.chunking <=> r.setEncoding = "chunked")
  BY DEF FrameCore
<1>3. PICK b, n : /\ b \in BOOLEAN /\ b = (q.setEncoding = "chunked")
                  /\ n = IF q.setLength THEN q.contentLength ELSE NoLength
  OBVIOUS
<1>4. PICK h : h = [status |-> r.status, chunked |-> b, length |-> n]
  OBVIOUS
<1>5. q.head = Append(<<>>, h)
  BY <1>1, <1>2, <1>3, <1>4, Zenon
<1>6. Len(q.head) = 1 /\ q.head[1] = h
  BY <1>5
<1>7. h.chunked = b /\ h.length = n
  BY <1>4
<1>8. q.head[1].chunked <=> r.chunking
  BY <1>1, <1>2, <1>3, <1>6, <1>7, Zenon
<1>9. q.head[1].length = IF q.setLength THEN q.contentLength ELSE NoLength
  BY <1>3, <1>6, <1>7, Zenon
<1>10. r.chunking => ~q.setLength
  BY <1>1 DEF AutoLength
<1>11. ASSUME ~r.chunking, bodyAllowedForStatus(r.status)
       PROVE  q.head[1].length = IF r.setLength THEN hdr.length ELSE Len(p)
  <2>1. r.contentLength = hdr.length /\ (r.setLength <=> hdr.length # NoLength)
    BY DEF FrameCore
  <2>2. AutoLength(r) <=> ~r.setLength
    BY <1>11, <2>1 DEF AutoLength
  <2> QED BY <1>1, <1>9, <2>1, <2>2
<1> QED BY <1>1, <1>6, <1>8, <1>9, <1>10, <1>11

\* The handler's last call: its header is written, and the request is done.
LEMMA DoneKeeps ==
  ASSUME HdrOK, NEW r \in Responses, NEW r0, r0 = [r EXCEPT !.handlerDone = TRUE]
  PROVE  /\ r0 \in Responses /\ r0.handlerDone
         /\ (r0.hijacked <=> r.hijacked) /\ (r0.wroteHeader <=> r.wroteHeader)
         /\ (Coherent(r) => Coherent(r0)) /\ (Framing(r) => Framing(r0))
         /\ \A acc : Holds(r, acc) => Holds(r0, acc)
PROOF
<1>1. r0 \in Responses
  BY DEF Responses
<1>2. /\ r0.wroteHeader = r.wroteHeader /\ r0.contentLength = r.contentLength
      /\ r0.setLength = r.setLength /\ r0.setEncoding = r.setEncoding
      /\ r0.chunking = r.chunking /\ r0.cwHeader = r.cwHeader /\ r0.noCache = r.noCache
      /\ r0.written = r.written /\ r0.buffer = r.buffer /\ r0.hijacked = r.hijacked
      /\ r0.handlerDone = TRUE /\ r0.head = r.head /\ r0.body = r.body /\ r0.ends = r.ends
  BY DEF Responses
<1>3. Coherent(r) => Coherent(r0)
  BY <1>2 DEF Coherent
<1>4. Framing(r) => Framing(r0)
  BY <1>2 DEF Framing, FrameCore, FrameCount
<1>5. \A acc : Holds(r, acc) => Holds(r0, acc)
  BY <1>2 DEF Holds, Cached
<1> QED BY <1>1, <1>2, <1>3, <1>4, <1>5

\* FinishRequest delivers all that was accepted.
LEMMA FinishDelivers ==
  ASSUME HdrOK, HEAD \in BOOLEAN, NEW r \in Responses, ~r.handlerDone, Coherent(r),
         r.hijacked => ~r.wroteHeader, NEW q, q = FinishRequest(r)
  PROVE  /\ q \in Responses /\ Coherent(q) /\ q.handlerDone /\ (q.hijacked <=> r.hijacked)
         /\ \A acc \in Seq(Nat) :
              Holds(r, acc) /\ ~q.panicked => q.body = IF HEAD THEN <<>> ELSE acc
PROOF
<1>1. PICK r0 : r0 = [r EXCEPT !.handlerDone = TRUE]
  OBVIOUS
<1>2. /\ r0 \in Responses /\ r0.handlerDone /\ Coherent(r0)
      /\ (r0.hijacked <=> r.hijacked) /\ (r0.wroteHeader <=> r.wroteHeader)
      /\ \A acc : Holds(r, acc) => Holds(r0, acc)
  BY <1>1, DoneKeeps
<1>3. PICK f : f = Flush(r0)
  OBVIOUS
<1>4. /\ f \in Responses /\ Coherent(f) /\ (r0.hijacked => f = r0)
      /\ (f.hijacked <=> r0.hijacked) /\ (f.handlerDone <=> r0.handlerDone)
      /\ f.panicked \/ r0.hijacked \/ f.noCache \/ f.written = 0
      /\ \A acc \in Seq(Nat) : Holds(r0, acc) /\ ~f.panicked => Holds(f, acc)
  BY <1>2, <1>3, FlushDelivers
<1>5. q = IF f.panicked THEN f ELSE cwClose(f)
  BY <1>1, <1>3 DEF FinishRequest
<1>6. CASE f.panicked
  BY <1>2, <1>4, <1>5, <1>6
<1>7. CASE ~f.panicked
  <2>0. f.noCache \/ f.written = 0
    BY <1>2, <1>4, <1>7 DEF Coherent
  <2>1. /\ q \in Responses /\ SameResponse(q, f) /\ Decided(q, f, <<>>) /\ q.body = f.body
    BY <1>4, <1>5, <1>7, CloseOut
  <2>2. q.handlerDone /\ (q.hijacked <=> r.hijacked)
    BY <1>2, <1>4, <2>1 DEF SameResponse
  <2>3. Coherent(q)
    <3>1. q.chunking => ~q.setLength /\ (q.noCache \/ q.written = 0)
      BY <1>4, <2>1 DEF Coherent, SameResponse, Decided, AutoLength
    <3>2. ~q.wroteHeader => q.written = 0 /\ q.body = <<>> /\ ~q.noCache /\ ~q.chunking
      BY <1>4, <2>1 DEF Coherent, SameResponse, Decided
    <3>3. q.noCache \/ ~(q.written > BufferSize)
      BY <2>1, <2>0, ResponseAssumption DEF SameResponse
    <3> QED BY <3>1, <3>2, <3>3 DEF Coherent
  <2>4. ASSUME NEW acc \in Seq(Nat), Holds(r, acc)
        PROVE  q.body = IF HEAD THEN <<>> ELSE acc
    <3>1. Holds(f, acc)
      BY <1>2, <1>4, <1>7, <2>4
    <3>3. Cached(f) = <<>>
      BY <2>0, SubSeqEmpty DEF Cached
    <3>4. f.body \o <<>> = f.body
      <4>1. f.body \in Seq(Nat)
        BY <1>4 DEF Responses
      <4> QED BY <4>1, ConcatEmptySeq
    <3> QED BY <2>1, <3>1, <3>3, <3>4 DEF Holds
  <2> QED BY <2>1, <2>2, <2>3, <2>4
<1> QED BY <1>6, <1>7

\* FinishRequest leaves a response whose end the peer can tell.
LEMMA FinishFrames ==
  ASSUME HdrOK, HEAD \in BOOLEAN, NEW r \in Responses, ~r.handlerDone, ~r.hijacked,
         Coherent(r), Framing(r), NEW acc, Holds(r, acc),
         NEW q, q = FinishRequest(r), ~q.panicked
  PROVE  Framed(q)
PROOF
<1>1. PICK r0 : r0 = [r EXCEPT !.handlerDone = TRUE]
  OBVIOUS
<1>2. /\ r0 \in Responses /\ r0.handlerDone /\ Coherent(r0) /\ ~r0.hijacked
      /\ Holds(r0, acc) /\ Framing(r0)
  BY <1>1, DoneKeeps
<1>3. PICK r1 : r1 = WithHeader(r0)
  OBVIOUS
<1>4. /\ r1 \in Responses /\ Coherent(r1) /\ Holds(r1, acc) /\ Framing(r1) /\ r1.wroteHeader
      /\ r1.handlerDone
  <2>1. PICK code \in Nat : code = 200
    OBVIOUS
  <2>2. r1 = WriteHeader(r0, code)
    BY <1>3, <2>1 DEF WithHeader
  <2> QED BY <1>2, <2>2, StatusSet, HeaderKeeps
<1>5. PICK f : f = Flush(r0)
  OBVIOUS
<1>6. q = IF f.panicked THEN f ELSE cwClose(f)
  BY <1>1, <1>5 DEF FinishRequest
<1>7. FlushCases(r0, r1, f)
  BY <1>2, <1>3, <1>4, <1>5, FlushTakes
<1>8. ~f.panicked /\ q = cwClose(f)
  BY <1>6
<1>9. f \in Responses
  BY <1>2, <1>5, FlushDelivers
<1>10. /\ q \in Responses /\ SameResponse(q, f) /\ Decided(q, f, <<>>)
       /\ q.body = f.body /\ q.ends = IF q.chunking THEN f.ends + 1 ELSE f.ends
  BY <1>8, <1>9, CloseOut
<1>11. ASSUME f.cwHeader, f.ends = 0, f.status = r1.status, Len(f.head) = 1,
              f.head[1].chunked <=> f.chunking, f.chunking => f.head[1].length = NoLength,
              ~f.chunking /\ bodyAllowedForStatus(r1.status) /\ ~HEAD =>
                /\ f.head[1].length # NoLength /\ Len(f.body) <= f.head[1].length
                /\ Len(f.body) < f.head[1].length => hdr.length = f.head[1].length
       PROVE  Framed(q)
  <2>1. q.head = f.head /\ (q.chunking <=> f.chunking) /\ q.status = r1.status
    BY <1>10, <1>11 DEF Decided, SameResponse
  <2>2. q.ends = IF q.chunking THEN 1 ELSE 0
    BY <1>10, <1>11
  <2>3. PICK h : h = f.head[1]
    OBVIOUS
  <2> QED BY <1>10, <1>11, <2>1, <2>2, <2>3 DEF Framed
<1>12. r1.setLength => hdr.length \in Nat /\ hdr.length # NoLength
  <2>1. hdr.length \in Lengths \cup {NoLength}
    BY DEF HdrOK
  <2>2. Lengths \subseteq Nat
    BY ResponseAssumption
  <2>3. r1.setLength => hdr.length # NoLength
    BY <1>4 DEF Framing, FrameCore
  <2> QED BY <2>1, <2>2, <2>3, Zenon
<1>13. \A n \in Nat : n # NoLength
  BY DEF NoLength
<1>14. ASSUME ~r1.noCache, r1.written > 0, r1.written <= BufferSize,
              NEW x, x = cwWrite(r1, SubSeq(r1.buffer, 1, r1.written)),
              f = [x EXCEPT !.written = 0]
       PROVE  Framed(q)
  <2>1. r1.written \in Nat /\ r1.buffer \in [1..BufferSize -> Nat] /\ r1.body \in Seq(Nat)
    BY <1>4 DEF Responses
  <2>2. PICK t \in Seq(Nat) : t = SubSeq(r1.buffer, 1, r1.written) /\ Len(t) = r1.written
    BY <1>14, <2>1, CachedIs
  <2>3. /\ x \in Responses /\ SameResponse(x, r1) /\ Decided(x, r1, t) /\ x.ends = r1.ends
        /\ x.body = IF HEAD THEN r1.body ELSE r1.body \o t
    BY <1>4, <1>14, <2>2, WriteOut, ZenonT(40)
  <2>4. /\ f.cwHeader = x.cwHeader /\ f.ends = x.ends /\ f.status = x.status
        /\ f.head = x.head /\ f.chunking = x.chunking /\ f.body = x.body
    <3>1. x \in Responses /\ f = [x EXCEPT !.written = 0]
      BY <1>14, <2>3
    <3> QED BY <3>1 DEF Responses
  <2>5. ~r1.chunking
    BY <1>4, <1>14 DEF Coherent
  <2>6. ~r1.cwHeader /\ r1.ends = 0 /\ r1.body = <<>>
    BY <1>4, <1>14, <2>5 DEF Framing, FrameCore, FrameCount
  <2>7. /\ Len(x.head) = 1 /\ ~x.head[1].chunked /\ ~x.chunking
        /\ bodyAllowedForStatus(r1.status) =>
             x.head[1].length = IF r1.setLength THEN hdr.length ELSE r1.written
    <3>1. FrameCore(r1) /\ (r1.chunking => ~r1.setLength)
      BY <1>4, <2>5 DEF Framing
    <3>2. /\ Len(x.head) = 1 /\ (x.head[1].chunked <=> r1.chunking)
          /\ x.chunking <=> r1.chunking
          /\ ~r1.chunking /\ bodyAllowedForStatus(r1.status) =>
               x.head[1].length = IF r1.setLength THEN hdr.length ELSE Len(t)
      BY <1>4, <1>14, <2>3, <2>6, <3>1, LastHeader
    <3> QED BY <2>2, <2>5, <3>2
  <2>8. ~HEAD => Len(x.body) = r1.written
    BY <2>2, <2>3, <2>6, ConcatEmptySeq
  <2>9. r1.setLength => r1.written <= hdr.length
    BY <1>4 DEF Framing, FrameCore, FrameCount
  <2>10. ASSUME bodyAllowedForStatus(r1.status), ~HEAD
         PROVE  /\ x.head[1].length # NoLength /\ Len(x.body) <= x.head[1].length
                /\ Len(x.body) < x.head[1].length => hdr.length = x.head[1].length
    <3>1. PICK n : n = x.head[1].length
      OBVIOUS
    <3>2. n = IF r1.setLength THEN hdr.length ELSE r1.written
      BY <2>7, <2>10, <3>1
    <3>3. n # NoLength
      BY <1>12, <1>13, <2>1, <3>2
    <3>4. r1.written <= n /\ (r1.written < n => hdr.length = n)
      BY <2>1, <2>9, <3>2
    <3> QED BY <2>8, <2>10, <3>1, <3>3, <3>4
  <2>11. f.cwHeader /\ f.ends = 0 /\ f.status = r1.status
    BY <2>3, <2>4, <2>6 DEF SameResponse, Decided
  <2> QED BY <1>11, <2>4, <2>7, <2>10, <2>11
<1>15. ASSUME r1.noCache \/ r1.written = 0, f = cwWriteHeader(r1, <<>>)
       PROVE  Framed(q)
  <2>1. PICK none \in Seq(Nat) : none = <<>> /\ Len(none) = 0
    BY EmptySeq
  <2>2. /\ SameResponse(f, r1) /\ Decided(f, r1, none) /\ f.body = r1.body /\ f.ends = r1.ends
    <3>1. f = cwWriteHeader(r1, none)
      BY <1>15, <2>1
    <3> QED BY <1>4, <3>1, HeaderOut
  <2>3. f.cwHeader /\ f.ends = 0 /\ f.status = r1.status
    BY <1>4, <2>2 DEF SameResponse, Decided, Framing, FrameCore
  <2>4. CASE r1.cwHeader
    <3>1. f.head = r1.head /\ (f.chunking <=> r1.chunking)
      BY <2>2, <2>4 DEF Decided
    <3>2. /\ Len(r1.head) = 1 /\ (r1.head[1].chunked <=> r1.chunking)
          /\ (r1.chunking <=> ~r1.setLength) /\ (r1.noCache \/ r1.chunking)
          /\ r1.head[1].length = IF r1.setLength THEN hdr.length ELSE NoLength
      BY <1>4, <2>4 DEF Framing, FrameCore
    <3>3. ASSUME ~r1.chunking, ~HEAD
          PROVE  /\ r1.head[1].length = hdr.length /\ hdr.length # NoLength
                 /\ Len(r1.body) <= hdr.length
      <4>1. r1.setLength /\ r1.noCache
        BY <3>2, <3>3
      <4>2. Len(r1.body) = r1.written /\ r1.written <= hdr.length
        BY <1>4, <3>3, <4>1 DEF Framing, FrameCore, FrameCount
      <4> QED BY <1>12, <3>2, <4>1, <4>2
    <3> QED BY <1>11, <2>2, <2>3, <3>1, <3>2, <3>3
  <2>5. CASE ~r1.cwHeader
    <3>1. r1.body = <<>> /\ ~r1.noCache
      BY <1>4, <2>5 DEF Framing, FrameCount
    <3>2. /\ Len(f.head) = 1 /\ (f.head[1].chunked <=> r1.chunking)
          /\ f.chunking <=> r1.chunking
          /\ r1.chunking => f.head[1].length = NoLength
          /\ ~r1.chunking /\ bodyAllowedForStatus(r1.status) =>
               f.head[1].length = IF r1.setLength THEN hdr.length ELSE 0
      <4>1. FrameCore(r1) /\ (r1.chunking => ~r1.setLength)
        BY <1>4 DEF Framing, Coherent
      <4>2. /\ Len(f.head) = 1 /\ (f.head[1].chunked <=> r1.chunking)
            /\ f.chunking <=> r1.chunking
            /\ r1.chunking => f.head[1].length = NoLength
            /\ ~r1.chunking /\ bodyAllowedForStatus(r1.status) =>
                 f.head[1].length = IF r1.setLength THEN hdr.length ELSE Len(none)
        BY <1>4, <1>9, <2>2, <2>5, <3>1, <4>1, LastHeader
      <4> QED BY <2>1, <4>2
    <3>3. ASSUME ~r1.chunking, bodyAllowedForStatus(r1.status)
          PROVE  /\ f.head[1].length # NoLength /\ Len(f.body) <= f.head[1].length
                 /\ Len(f.body) < f.head[1].length => hdr.length = f.head[1].length
      <4>1. PICK n : n = f.head[1].length
        OBVIOUS
      <4>2. n = IF r1.setLength THEN hdr.length ELSE 0
        BY <3>2, <3>3, <4>1
      <4>3. Len(f.body) = 0
        BY <2>1, <2>2, <3>1
      <4>4. n # NoLength /\ 0 <= n /\ (0 < n => hdr.length = n)
        BY <1>12, <1>13, <4>2
      <4> QED BY <4>1, <4>3, <4>4
    <3> QED BY <1>11, <2>3, <3>2, <3>3
  <2> QED BY <2>4, <2>5
<1>16. f # [r1 EXCEPT !.panicked = TRUE]
  <2>1. [r1 EXCEPT !.panicked = TRUE].panicked = TRUE
    BY <1>4 DEF Responses
  <2> QED BY <1>8, <2>1
<1> QED BY <1>2, <1>7, <1>14, <1>15, <1>16 DEF FlushCases

-----------------------------------------------------------------------------
(* The invariant *)

\* What the calls of a handler have to show: its request header stays what it is,
\* and the new state r of the Response satisfies what the invariant says.
LEMMA CallKeeps ==
  ASSUME HEAD' = HEAD, hdr' = hdr, NEW q, res' = q, Coherent(q),
         q.handlerDone /\ ~returned' => q.hijacked,
         q.hijacked /\ ~q.handlerDone => ~q.wroteHeader,
         ~exceeded' /\ ~q.panicked =>
           IF q.handlerDone THEN q.body = IF HEAD THEN <<>> ELSE accepted'
           ELSE Holds(q, accepted'),
         ~exceeded' /\ ~flushed' /\ ~late' /\ ~q.hijacked /\ ~q.panicked =>
           IF returned' THEN Framed(q) ELSE Framing(q)
  PROVE  BodyInv' /\ FrameInv'
PROOF
<1>1. BodyInv'
  BY DEF BodyInv, Holds, Cached, Coherent
<1>2. Framed(res)' <=> Framed(q)
  BY DEF Framed
<1>3. Framing(res)' <=> Framing(q)
  BY DEF Framing, FrameCore, FrameCount
<1>4. FrameInv'
  BY <1>2, <1>3 DEF FrameInv
<1> QED BY <1>1, <1>4

\* The invariant holds of a new Response.
LEMMA InvInit == HInit => HInv
PROOF
<1> SUFFICES ASSUME HInit PROVE HInv
  OBVIOUS
<1> USE ResponseAssumption
<1>1. res \in Responses
  <2>1. NoLength \in Int /\ Stale \in Nat
    BY DEF NoLength, Stale
  <2>2. [i \in 1..BufferSize |-> Stale] \in [1..BufferSize -> Nat]
    BY <2>1
  <2>3. <<>> \in Seq(Headers) /\ <<>> \in Seq(Nat)
    BY EmptySeq
  <2> QED BY <2>1, <2>2, <2>3 DEF HInit, NewResponse, Responses
<1>2. hdr \in [length : Lengths \cup {NoLength}, encoding : {"none", "chunked"}]
  BY DEF HInit
<1>3. ResponseTypeOK
  <2>1. next \in Nat \ {0}
    BY DEF HInit
  <2>2. accepted \in Seq(Nat)
    BY EmptySeq DEF HInit
  <2>3. /\ HEAD \in BOOLEAN /\ exceeded \in BOOLEAN /\ flushed \in BOOLEAN
        /\ late \in BOOLEAN /\ returned \in BOOLEAN
    BY ZenonT(40) DEF HInit
  <2> QED BY <1>1, <1>2, <2>1, <2>2, <2>3 DEF ResponseTypeOK
<1>4. /\ ~res.wroteHeader /\ ~res.setLength /\ ~res.chunking /\ ~res.cwHeader
      /\ ~res.noCache /\ ~res.hijacked /\ ~res.handlerDone /\ res.written = 0
      /\ res.head = <<>> /\ res.body = <<>> /\ res.ends = 0
  BY DEF HInit, NewResponse
<1>5. ~(0 > BufferSize) /\ 0 <= BufferSize
  OBVIOUS
<1>6. Coherent(res)
  BY <1>4, <1>5 DEF Coherent
<1>7. Holds(res, accepted)
  <2>1. Cached(res) = <<>>
    BY <1>4, SubSeqEmpty DEF Cached
  <2>2. <<>> \o <<>> = <<>>
    BY ConcatEmptySeq, EmptySeq
  <2> QED BY <1>4, <1>5, <2>1, <2>2 DEF Holds, HInit
<1>8. BodyInv
  BY <1>4, <1>6, <1>7 DEF BodyInv
<1>9. Framing(res)
  BY <1>4 DEF Framing, FrameCore, FrameCount
<1>10. FrameInv
  BY <1>9 DEF FrameInv, HInit
<1> QED BY <1>3, <1>8, <1>10 DEF HInv

\* Header().Set decides nothing that has already been decided.
LEMMA SetHeaderStep == HInv /\ SetHeader => HInv'
PROOF
<1> SUFFICES ASSUME HInv, SetHeader PROVE HInv'
  OBVIOUS
<1>1. /\ HEAD' = HEAD /\ res' = res /\ next' = next /\ accepted' = accepted
      /\ exceeded' = exceeded /\ flushed' = flushed /\ returned' = returned
      /\ late' = (late \/ res.wroteHeader) /\ ~returned
  BY DEF SetHeader, Running
<1>2. hdr' \in [length : Lengths \cup {NoLength}, encoding : {"none", "chunked"}]
  BY DEF SetHeader, HInv, ResponseTypeOK
<1>3. ResponseTypeOK'
  BY <1>1, <1>2 DEF HInv, ResponseTypeOK
<1>4. BodyInv'
  BY <1>1 DEF HInv, BodyInv, Holds, Cached, Coherent
<1>5. FrameInv'
  <2>1. ~res.wroteHeader /\ Framing(res) => Framing(res)'
    BY <1>1 DEF Framing, FrameCore, FrameCount
  <2> QED BY <1>1, <2>1 DEF HInv, FrameInv
<1> QED BY <1>3, <1>4, <1>5 DEF HInv

\* WriteHeader.
LEMMA CallWriteHeaderStep ==
  ASSUME HInv, NEW code \in Statuses, CallWriteHeader(code)
  PROVE  HInv'
PROOF
<1>1. PICK q : q = WriteHeader(res, code)
  OBVIOUS
<1>2. /\ HEAD' = HEAD /\ hdr' = hdr /\ res' = q /\ next' = next /\ accepted' = accepted
      /\ exceeded' = exceeded /\ flushed' = flushed /\ returned' = returned /\ late' = late
      /\ ~returned
  BY <1>1 DEF CallWriteHeader, Running, history
<1>3. HdrOK /\ res \in Responses /\ Coherent(res) /\ code \in Nat
  BY ResponseAssumption DEF HInv, ResponseTypeOK, BodyInv, HdrOK
<1>4. /\ q \in Responses /\ Coherent(q) /\ \A acc : Holds(res, acc) => Holds(q, acc)
      /\ ~res.hijacked /\ Framing(res) => Framing(q)
      /\ (res.hijacked => q = res) /\ (q.hijacked <=> res.hijacked)
      /\ (q.handlerDone <=> res.handlerDone) /\ (q.panicked <=> res.panicked)
  BY <1>1, <1>3, StatusSet, HeaderKeeps
<1>5. ResponseTypeOK'
  BY <1>2, <1>4 DEF HInv, ResponseTypeOK
<1>6. BodyInv /\ FrameInv
  BY DEF HInv
<1>7. /\ q.handlerDone /\ ~returned => q.hijacked
      /\ q.hijacked /\ ~q.handlerDone => ~q.wroteHeader
      /\ ~exceeded /\ ~q.panicked =>
           IF q.handlerDone THEN q.body = IF HEAD THEN <<>> ELSE accepted
           ELSE Holds(q, accepted)
  BY <1>2, <1>4, <1>6 DEF BodyInv
<1>8. ~exceeded /\ ~flushed /\ ~late /\ ~q.hijacked /\ ~q.panicked => Framing(q)
  BY <1>2, <1>4, <1>6 DEF FrameInv
<1>9. BodyInv' /\ FrameInv'
  BY <1>2, <1>4, <1>7, <1>8, CallKeeps
<1> QED BY <1>5, <1>9 DEF HInv

\* Write.
LEMMA CallWriteStep ==
  ASSUME HInv, NEW n \in 0..MaxBytes, CallWrite(n)
  PROVE  HInv'
PROOF
<1>1. PICK data : data = [i \in 1..n |-> next + i - 1]
  OBVIOUS
<1>2. PICK q, answer : q = Write(res, data) /\ answer = WriteAnswer(res, data)
  OBVIOUS
<1>3. /\ HEAD' = HEAD /\ hdr' = hdr /\ res' = q /\ next' = next + n
      /\ accepted' = IF answer = "nil" THEN accepted \o data ELSE accepted
      /\ exceeded' = (exceeded \/ answer = "ErrContentLength")
      /\ flushed' = flushed /\ returned' = returned /\ late' = late
      /\ ~returned
  BY <1>1, <1>2 DEF CallWrite, Running
<1>4. /\ HdrOK /\ HEAD \in BOOLEAN /\ res \in Responses /\ Coherent(res)
      /\ accepted \in Seq(Nat) /\ next \in Nat \ {0} /\ n \in Nat
  BY ResponseAssumption DEF HInv, ResponseTypeOK, BodyInv, HdrOK
<1>5. data \in Seq(Nat)
  <2>1. \A i \in 1..n : next + i - 1 \in Nat
    BY <1>4
  <2> QED BY <1>1, <1>4, <2>1, IsASeq
<1>6. /\ q \in Responses /\ Coherent(q) /\ SameFlags(q, res) /\ (res.hijacked => q = res)
      /\ answer \in {"nil", "ErrHijacked", "ErrBodyNotAllowed", "ErrContentLength"}
      /\ res.hijacked => answer \in {"ErrHijacked", "ErrBodyNotAllowed", "ErrContentLength"}
      /\ Holds(res, accepted) =>
              /\ answer = "nil" => Holds(q, accepted \o data)
              /\ answer \in {"ErrHijacked", "ErrBodyNotAllowed"} => Holds(q, accepted)
  BY <1>2, <1>4, <1>5, WriteKeeps
<1>7. ResponseTypeOK'
  <2>1. accepted \o data \in Seq(Nat)
    BY <1>4, <1>5, ConcatProperties
  <2>2. next + n \in Nat \ {0}
    BY <1>4
  <2>3. accepted' \in Seq(Nat)
    BY <1>3, <1>4, <2>1
  <2>4. exceeded' \in BOOLEAN
    BY <1>3
  <2>5. hdr' = hdr /\ HEAD' = HEAD /\ res' \in Responses /\ next' \in Nat \ {0}
    BY <1>3, <1>6, <2>2
  <2> QED BY <1>3, <2>3, <2>4, <2>5 DEF HInv, ResponseTypeOK
<1>8. BodyInv /\ FrameInv
  BY DEF HInv
<1>9. /\ q.handlerDone /\ ~returned => q.hijacked
      /\ q.hijacked /\ ~q.handlerDone => ~q.wroteHeader
  BY <1>6, <1>8 DEF BodyInv, SameFlags
<1>10. ASSUME ~exceeded', ~q.panicked
       PROVE  IF q.handlerDone THEN q.body = IF HEAD THEN <<>> ELSE accepted'
              ELSE Holds(q, accepted')
  <2>1. ~exceeded /\ answer \in {"nil", "ErrHijacked", "ErrBodyNotAllowed"}
    BY <1>3, <1>6, <1>10
  <2>2. IF res.handlerDone THEN res.body = IF HEAD THEN <<>> ELSE accepted
        ELSE Holds(res, accepted)
    BY <1>6, <1>8, <1>10, <2>1 DEF BodyInv, SameFlags
  <2>3. CASE q.handlerDone
    <3>1. res.handlerDone /\ res.hijacked
      BY <1>3, <1>6, <1>8, <2>3 DEF BodyInv, SameFlags
    <3>2. q = res /\ accepted' = accepted
      BY <1>3, <1>6, <3>1
    <3> QED BY <2>2, <3>1, <3>2
  <2>4. CASE ~q.handlerDone
    <3>1. Holds(res, accepted)
      BY <1>6, <2>2, <2>4 DEF SameFlags
    <3>2. Holds(q, accepted')
      BY <1>3, <1>6, <2>1, <3>1
    <3> QED BY <2>4, <3>2
  <2> QED BY <2>3, <2>4
<1>11. ASSUME ~exceeded', ~flushed', ~late', ~q.hijacked, ~q.panicked
       PROVE  Framing(q)
  <2>1. ~exceeded /\ answer # "ErrContentLength" /\ ~res.hijacked /\ ~res.panicked
    BY <1>3, <1>6, <1>11 DEF SameFlags
  <2>2. Framing(res)
    BY <1>3, <1>8, <1>11, <2>1 DEF FrameInv
  <2>3. Holds(res, accepted)
    BY <1>3, <1>8, <2>1 DEF BodyInv
  <2> QED BY <1>2, <1>4, <1>5, <2>1, <2>2, <2>3, WriteFrames
<1>12. BodyInv' /\ FrameInv'
  BY <1>3, <1>6, <1>9, <1>10, <1>11, CallKeeps
<1> QED BY <1>7, <1>12 DEF HInv

\* Flush.
LEMMA CallFlushStep == HInv /\ CallFlush => HInv'
PROOF
<1> SUFFICES ASSUME HInv, CallFlush PROVE HInv'
  OBVIOUS
<1>1. PICK q : q = Flush(res)
  OBVIOUS
<1>2. /\ HEAD' = HEAD /\ hdr' = hdr /\ res' = q /\ next' = next /\ accepted' = accepted
      /\ exceeded' = exceeded /\ flushed' = TRUE /\ returned' = returned /\ late' = late
      /\ ~returned /\ ~res.panicked
  BY <1>1 DEF CallFlush, Running
<1>3. /\ HdrOK /\ HEAD \in BOOLEAN /\ res \in Responses /\ Coherent(res)
      /\ accepted \in Seq(Nat)
  BY DEF HInv, ResponseTypeOK, BodyInv, HdrOK
<1>4. /\ q \in Responses /\ Coherent(q) /\ (res.hijacked => q = res)
      /\ (q.hijacked <=> res.hijacked) /\ (q.handlerDone <=> res.handlerDone)
      /\ Holds(res, accepted) /\ ~q.panicked => Holds(q, accepted)
  BY <1>1, <1>3, FlushDelivers
<1>5. ResponseTypeOK'
  BY <1>2, <1>4 DEF HInv, ResponseTypeOK
<1>6. BodyInv
  BY DEF HInv
<1>7. /\ q.handlerDone /\ ~returned => q.hijacked
      /\ q.hijacked /\ ~q.handlerDone => ~q.wroteHeader
      /\ ~exceeded /\ ~q.panicked =>
           IF q.handlerDone THEN q.body = IF HEAD THEN <<>> ELSE accepted
           ELSE Holds(q, accepted)
  BY <1>2, <1>4, <1>6 DEF BodyInv
<1>8. BodyInv' /\ FrameInv'
  BY <1>2, <1>4, <1>7, CallKeeps
<1> QED BY <1>5, <1>8 DEF HInv

\* Hijack, which finishes a response whose header is written.
LEMMA CallHijackStep == HInv /\ CallHijack => HInv'
PROOF
<1> SUFFICES ASSUME HInv, CallHijack PROVE HInv'
  OBVIOUS
<1>1. PICK r1 : r1 = IF res.wroteHeader THEN FinishRequest(res) ELSE res
  OBVIOUS
<1>2. PICK q : q = [r1 EXCEPT !.hijacked = TRUE]
  OBVIOUS
<1>3. /\ HEAD' = HEAD /\ hdr' = hdr /\ res' = q /\ next' = next /\ accepted' = accepted
      /\ exceeded' = exceeded /\ flushed' = flushed /\ returned' = returned /\ late' = late
      /\ ~returned /\ ~res.panicked
  BY <1>1, <1>2 DEF CallHijack, Running, Hijack, history
<1>4. /\ HdrOK /\ HEAD \in BOOLEAN /\ res \in Responses /\ Coherent(res)
      /\ accepted \in Seq(Nat)
  BY DEF HInv, ResponseTypeOK, BodyInv, HdrOK
<1>5. BodyInv
  BY DEF HInv
<1>6. /\ r1 \in Responses /\ Coherent(r1)
      /\ r1.handlerDone \/ ~r1.wroteHeader
      /\ ~exceeded /\ ~r1.panicked =>
           IF r1.handlerDone THEN r1.body = IF HEAD THEN <<>> ELSE accepted
           ELSE Holds(r1, accepted)
  <2>1. CASE res.wroteHeader /\ ~res.handlerDone
    <3>1. r1 = FinishRequest(res)
      BY <1>1, <2>1
    <3>2. ~res.hijacked
      BY <1>5, <2>1 DEF BodyInv
    <3>3. ~exceeded => Holds(res, accepted)
      BY <1>3, <1>5, <2>1 DEF BodyInv
    <3>4. /\ r1 \in Responses /\ Coherent(r1) /\ r1.handlerDone
          /\ Holds(res, accepted) /\ ~r1.panicked => r1.body = IF HEAD THEN <<>> ELSE accepted
      BY <1>4, <2>1, <3>1, <3>2, FinishDelivers
    <3> QED BY <3>3, <3>4
  <2>2. CASE ~(res.wroteHeader /\ ~res.handlerDone)
    <3>1. r1 = res
      BY <1>1, <2>2 DEF FinishRequest
    <3> QED BY <1>3, <1>4, <1>5, <2>2, <3>1 DEF BodyInv
  <2> QED BY <2>1, <2>2
<1>7. q \in Responses
  BY <1>2, <1>6 DEF Responses
<1>8. /\ q.wroteHeader = r1.wroteHeader /\ q.contentLength = r1.contentLength
      /\ q.setLength = r1.setLength /\ q.chunking = r1.chunking /\ q.noCache = r1.noCache
      /\ q.written = r1.written /\ q.buffer = r1.buffer /\ q.hijacked = TRUE
      /\ q.handlerDone = r1.handlerDone /\ q.panicked = r1.panicked /\ q.body = r1.body
  BY <1>2, <1>6 DEF Responses
<1>9. Coherent(q) /\ (Holds(r1, accepted) => Holds(q, accepted))
  BY <1>6, <1>8 DEF Coherent, Holds, Cached
<1>10. ResponseTypeOK'
  BY <1>3, <1>7 DEF HInv, ResponseTypeOK
<1>11. /\ q.handlerDone /\ ~returned => q.hijacked
       /\ q.hijacked /\ ~q.handlerDone => ~q.wroteHeader
       /\ ~exceeded /\ ~q.panicked =>
            IF q.handlerDone THEN q.body = IF HEAD THEN <<>> ELSE accepted
            ELSE Holds(q, accepted)
  BY <1>6, <1>8, <1>9
<1>12. BodyInv' /\ FrameInv'
  BY <1>3, <1>8, <1>9, <1>11, CallKeeps
<1> QED BY <1>10, <1>12 DEF HInv

\* OnTrack's FinishRequest, after the handler.
LEMMA HandlerReturnsStep == HInv /\ HandlerReturns => HInv'
PROOF
<1> SUFFICES ASSUME HInv, HandlerReturns PROVE HInv'
  OBVIOUS
<1>1. PICK q : q = FinishRequest(res)
  OBVIOUS
<1>2. /\ HEAD' = HEAD /\ hdr' = hdr /\ res' = q /\ next' = next /\ accepted' = accepted
      /\ exceeded' = exceeded /\ flushed' = flushed /\ returned' = TRUE /\ late' = late
      /\ ~returned /\ ~res.panicked
  BY <1>1 DEF HandlerReturns, Running, history
<1>3. /\ HdrOK /\ HEAD \in BOOLEAN /\ res \in Responses /\ Coherent(res)
      /\ accepted \in Seq(Nat)
  BY DEF HInv, ResponseTypeOK, BodyInv, HdrOK
<1>4. BodyInv /\ FrameInv
  BY DEF HInv
<1>5. CASE res.handlerDone
  <2>1. q = res /\ res.hijacked
    BY <1>1, <1>2, <1>4, <1>5 DEF FinishRequest, BodyInv
  <2>2. ResponseTypeOK'
    BY <1>2, <2>1 DEF HInv, ResponseTypeOK
  <2>3. ~exceeded /\ ~q.panicked => q.body = IF HEAD THEN <<>> ELSE accepted
    BY <1>4, <1>5, <2>1 DEF BodyInv
  <2>4. BodyInv' /\ FrameInv'
    BY <1>2, <1>3, <1>5, <2>1, <2>3, CallKeeps
  <2> QED BY <2>2, <2>4 DEF HInv
<1>6. CASE ~res.handlerDone
  <2>1. res.hijacked => ~res.wroteHeader
    BY <1>4, <1>6 DEF BodyInv
  <2>2. ~exceeded => Holds(res, accepted)
    BY <1>2, <1>4, <1>6 DEF BodyInv
  <2>3. /\ q \in Responses /\ Coherent(q) /\ q.handlerDone /\ (q.hijacked <=> res.hijacked)
        /\ Holds(res, accepted) /\ ~q.panicked => q.body = IF HEAD THEN <<>> ELSE accepted
    BY <1>1, <1>3, <1>6, <2>1, FinishDelivers
  <2>4. ResponseTypeOK'
    BY <1>2, <2>3 DEF HInv, ResponseTypeOK
  <2>5. ASSUME ~exceeded, ~flushed, ~late, ~q.hijacked, ~q.panicked
        PROVE  Framed(q)
    <3>1. ~res.hijacked /\ Framing(res) /\ Holds(res, accepted)
      BY <1>2, <1>4, <2>2, <2>3, <2>5 DEF FrameInv
    <3> QED BY <1>1, <1>3, <1>6, <2>5, <3>1, FinishFrames
  <2>6. BodyInv' /\ FrameInv'
    BY <1>2, <2>2, <2>3, <2>5, CallKeeps
  <2> QED BY <2>4, <2>6 DEF HInv
<1> QED BY <1>5, <1>6

\* Every step keeps the invariant.
LEMMA InvStep == HInv /\ [HNext]_hvars => HInv'
PROOF
<1> SUFFICES ASSUME HInv, [HNext]_hvars PROVE HInv'
  OBVIOUS
<1>1. CASE SetHeader
  BY <1>1, SetHeaderStep
<1>2. ASSUME NEW code \in Statuses, CallWriteHeader(code) PROVE HInv'
  BY <1>2, CallWriteHeaderStep
<1>3. ASSUME NEW n \in 0..MaxBytes, CallWrite(n) PROVE HInv'
  BY <1>3, CallWriteStep
<1>4. CASE CallFlush
  BY <1>4, CallFlushStep
<1>5. CASE CallHijack
  BY <1>5, CallHijackStep
<1>6. CASE HandlerReturns
  BY <1>6, HandlerReturnsStep
<1>7. CASE UNCHANGED hvars
  <2>1. ResponseTypeOK'
    BY <1>7 DEF HInv, ResponseTypeOK, hvars, history
  <2>2. BodyInv'
    BY <1>7 DEF HInv, BodyInv, Holds, Cached, Coherent, hvars, history
  <2>3. Framed(res)' <=> Framed(res)
    BY <1>7 DEF Framed, hvars
  <2>4. Framing(res)' <=> Framing(res)
    BY <1>7 DEF Framing, FrameCore, FrameCount, hvars
  <2>5. FrameInv'
    BY <1>7, <2>3, <2>4 DEF HInv, FrameInv, hvars, history
  <2> QED BY <2>1, <2>2, <2>5 DEF HInv
<1> QED BY <1>1, <1>2, <1>3, <1>4, <1>5, <1>6, <1>7 DEF HNext

\* The invariant of a Response: what its fields and its output have to do with each
\* other in every order of the handler's calls.
THEOREM ResponseInvariant == HSpec => []HInv
PROOF BY InvInit, InvStep, PTL DEF HSpec

-----------------------------------------------------------------------------
(* What the invariant says *)

\* The peer of any handler that keeps the rules can tell where the body ends: one
\* header, with a length the body does not exceed or with chunks ended once.
THEOREM PeerFindsTheEnd == HSpec => []FramingMatches
PROOF
<1>1. HInv => FramingMatches
  BY DEF HInv, FrameInv, FramingMatches, Finished, Framed
<1> QED BY <1>1, ResponseInvariant, PTL

\* Every byte that Write accepted reaches the wire once and in order, through the
\* cache of any size, around it, and across Flush and Hijack.
THEOREM EveryByteIsDelivered == HSpec => []BodyIsWhatWasWritten
PROOF
<1>1. HInv => BodyIsWhatWasWritten
  BY DEF HInv, BodyInv, BodyIsWhatWasWritten
<1> QED BY <1>1, ResponseInvariant, PTL

\* No call puts anything more on the connection once the response is finished.
THEOREM NothingAfterTheEnd == HSpec => FinishedOnce
PROOF
<1>1. ASSUME HInv, [HNext]_hvars
      PROVE  [res.handlerDone => /\ res'.head = res.head
                                 /\ res'.body = res.body
                                 /\ res'.ends = res.ends]_hvars
  <2> SUFFICES ASSUME HNext, res.handlerDone
               PROVE  res'.head = res.head /\ res'.body = res.body /\ res'.ends = res.ends
    BY <1>1
  <2>1. ~returned
    BY DEF HNext, SetHeader, CallFlush, CallHijack, HandlerReturns, CallWriteHeader,
           CallWrite, Running
  <2>2. res.hijacked /\ res \in Responses
    BY <1>1, <2>1 DEF HInv, BodyInv, ResponseTypeOK
  <2>3. CASE SetHeader
    BY <2>3 DEF SetHeader
  <2>4. ASSUME NEW code \in Statuses, CallWriteHeader(code) PROVE res' = res
    BY <2>2, <2>4 DEF CallWriteHeader, WriteHeader
  <2>5. ASSUME NEW n \in 0..MaxBytes, CallWrite(n) PROVE res' = res
    BY <2>2, <2>5 DEF CallWrite, Write, WriteAnswer
  <2>6. CASE CallFlush
    BY <2>2, <2>6 DEF CallFlush, Flush
  <2>7. CASE CallHijack
    <3>1. res' = [res EXCEPT !.hijacked = TRUE]
      BY <2>7 DEF CallHijack, Hijack, FinishRequest
    <3> QED BY <2>2, <3>1 DEF Responses
  <2>8. CASE HandlerReturns
    BY <2>8 DEF HandlerReturns, FinishRequest
  <2> QED BY <2>3, <2>4, <2>5, <2>6, <2>7, <2>8 DEF HNext
<1> QED BY <1>1, ResponseInvariant, PTL DEF HSpec, FinishedOnce
=============================================================================
