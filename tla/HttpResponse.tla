---------------------------- MODULE HttpResponse ----------------------------
(***************************************************************************)
(* gkhttp/response.go: one Response, from NewResponse in                   *)
(* GkEventHandler.OnTrack to FinishRequest.  The handler calls Write,      *)
(* WriteHeader, Flush and Hijack in any order; each method is an operator  *)
(* on the record res, whose fields head, body and ends are what has been   *)
(* put on the connection.                                                  *)
(***************************************************************************)
EXTENDS Integers, Sequences

CONSTANTS
  BufferSize,   \* bufferBeforeChunkingSize
  MaxBytes,     \* bytes the handler writes in all
  Lengths,      \* values of a Content-Length header the handler sets
  Statuses      \* status codes the handler passes to WriteHeader

ASSUME ResponseAssumption ==
  /\ BufferSize \in Nat /\ MaxBytes \in Nat /\ Lengths \subseteq Nat
  /\ Statuses \subseteq 100..999

VARIABLES
  HEAD,         \* the request's method is HEAD
  res,          \* the Response, its chunkWriter, and its output
  hdr,          \* handlerHeader: its Content-Length and Transfer-Encoding, if any
  next,         \* number of the next byte the handler writes
  accepted,     \* history: bytes for which Write answered nil
  exceeded,     \* history: Write answered ErrContentLength
  flushed,      \* history: the handler has called Flush
  late,         \* history: it has set a header after WriteHeader
  returned      \* OnTrack has called FinishRequest

history == <<accepted, exceeded, flushed, late>>
hvars == <<HEAD, res, hdr, next, history, returned>>

NoLength == -1

\* A byte of the pooled buffer that no Write of this response has filled.
Stale == 0

\* NewResponseSize
NewResponse ==
  [wroteHeader |-> FALSE, status |-> 0, contentLength |-> NoLength,
   setLength |-> FALSE, setEncoding |-> "none",
   chunking |-> FALSE, cwHeader |-> FALSE, noCache |-> FALSE,
   written |-> 0, buffer |-> [i \in 1..BufferSize |-> Stale],
   hijacked |-> FALSE, handlerDone |-> FALSE, panicked |-> FALSE,
   head |-> <<>>, body |-> <<>>, ends |-> 0]

HInit ==
  /\ HEAD \in BOOLEAN
  /\ res = NewResponse
  /\ hdr = [length |-> NoLength, encoding |-> "none"]
  /\ next = 1 /\ returned = FALSE
  /\ accepted = <<>> /\ exceeded = FALSE /\ flushed = FALSE /\ late = FALSE

bodyAllowedForStatus(status) ==
  ~(status \in 100..199) /\ status # 204 /\ status # 304

-----------------------------------------------------------------------------
(* chunkWriter *)

\* header.Write: the fields that say how the body ends.
HeaderSent(status, encoding, length) ==
  [status |-> status, chunked |-> encoding = "chunked", length |-> length]

\* writeHeader(p): decides the framing, and puts the header on the wire.
cwWriteHeader(r, p) ==
  IF r.cwHeader THEN r ELSE
  LET chunked == ~r.setLength /\ (r.chunking \/ r.noCache)
      encoding == IF ~r.setLength /\ ~r.chunking /\ r.noCache
                  THEN "chunked" ELSE r.setEncoding
      auto == /\ ~r.setLength /\ ~r.chunking /\ ~r.noCache
              /\ r.handlerDone /\ bodyAllowedForStatus(r.status)
              /\ hdr.length = NoLength
      clen == IF auto THEN Len(p) ELSE r.contentLength
  IN  [r EXCEPT !.cwHeader = TRUE,
                !.chunking = chunked,
                !.setEncoding = encoding,
                !.setLength = @ \/ auto,
                !.contentLength = clen,
                !.head = Append(@, HeaderSent(r.status, encoding,
                                              IF r.setLength \/ auto THEN clen ELSE NoLength))]

cwWrite(r, p) ==
  LET r1 == cwWriteHeader(r, p)
  IN  IF HEAD THEN r1 ELSE [r1 EXCEPT !.body = @ \o p]

\* Defect: the terminating chunk is forgotten.
cwCloseSilent(r) == cwWriteHeader(r, <<>>)

cwClose(r) ==
  LET r1 == cwWriteHeader(r, <<>>)
  IN  IF r1.chunking THEN [r1 EXCEPT !.ends = @ + 1] ELSE r1

-----------------------------------------------------------------------------
(* Response *)

WriteHeader(r, code) ==
  IF r.hijacked \/ r.wroteHeader THEN r
  ELSE [r EXCEPT !.wroteHeader = TRUE,
                 !.status = code,
                 !.contentLength = hdr.length,
                 !.setLength = hdr.length # NoLength,
                 !.setEncoding = IF hdr.length = NoLength THEN hdr.encoding ELSE "none",
                 !.chunking = hdr.length = NoLength /\ hdr.encoding = "chunked"]

WithHeader(r) == WriteHeader(r, 200)

\* Copy data to buffer[offset:].
Fill(buf, offset, data) ==
  [i \in 1..Len(buf) |-> IF i \in (offset + 1)..(offset + Len(data))
                         THEN data[i - offset] ELSE buf[i]]

\* What Write answers: nil, or one of its errors.
WriteAnswer(r, data) ==
  LET r1 == WithHeader(r)
  IN  IF r.hijacked THEN "ErrHijacked"
      ELSE IF data = <<>> THEN "nil"
      ELSE IF ~bodyAllowedForStatus(r1.status) THEN "ErrBodyNotAllowed"
      ELSE IF /\ ~r1.chunking
              /\ r1.contentLength # NoLength
              /\ r1.written + Len(data) > r1.contentLength THEN "ErrContentLength"
      ELSE "nil"

\* Write; the byte count advances even if the answer is ErrContentLength.
Write(r, data) ==
  LET r1 == WithHeader(r)
      r2 == [r1 EXCEPT !.written = @ + Len(data)]
      r3 == [r2 EXCEPT !.noCache = TRUE]
      answer == WriteAnswer(r, data)
  IN  IF answer = "ErrHijacked" THEN r
      ELSE IF data = <<>> \/ answer = "ErrBodyNotAllowed" THEN r1
      ELSE IF r1.chunking THEN cwWrite(r1, data)
      ELSE IF answer = "ErrContentLength" THEN r2
      ELSE IF ~r1.noCache /\ r2.written <= BufferSize
      THEN [r2 EXCEPT !.buffer = Fill(@, r1.written, data)]
      ELSE IF ~r1.noCache /\ r1.written > 0
      THEN cwWrite(cwWrite(r3, SubSeq(r1.buffer, 1, r1.written)), data)
      ELSE cwWrite(r3, data)

\* Defect: the flushed bytes stay in the cache.
FlushKeeps(r) ==
  LET r1 == WithHeader(r)
  IN  IF r.hijacked THEN r
      ELSE IF ~r1.noCache /\ r1.written > BufferSize
      THEN [r1 EXCEPT !.panicked = TRUE]
      ELSE IF ~r1.noCache /\ r1.written > 0
      THEN cwWrite(r1, SubSeq(r1.buffer, 1, r1.written))
      ELSE cwWriteHeader(r1, <<>>)

\* Flush; slicing the buffer beyond its capacity panics.
Flush(r) ==
  LET r1 == WithHeader(r)
  IN  IF r.hijacked THEN r
      ELSE IF ~r1.noCache /\ r1.written > BufferSize
      THEN [r1 EXCEPT !.panicked = TRUE]
      ELSE IF ~r1.noCache /\ r1.written > 0
      THEN [cwWrite(r1, SubSeq(r1.buffer, 1, r1.written)) EXCEPT !.written = 0]
      ELSE cwWriteHeader(r1, <<>>)

\* Defect: a second call finishes the response again.
FinishRequestAgain(r) ==
  LET r1 == Flush([r EXCEPT !.handlerDone = TRUE])
  IN  IF r1.panicked THEN r1 ELSE cwClose(r1)

FinishRequest(r) ==
  IF r.handlerDone THEN r
  ELSE LET r1 == Flush([r EXCEPT !.handlerDone = TRUE])
       IN  IF r1.panicked THEN r1 ELSE cwClose(r1)

Hijack(r) ==
  LET r1 == IF r.wroteHeader THEN FinishRequest(r) ELSE r
  IN  [r1 EXCEPT !.hijacked = TRUE]

-----------------------------------------------------------------------------
(* The handler's calls, and OnTrack's FinishRequest after it returns *)

Running == ~returned /\ ~res.panicked

\* Header().Set; the map is gone once the request is finished.
SetHeader ==
  /\ Running /\ ~res.handlerDone
  /\ \/ \E n \in Lengths : hdr' = [hdr EXCEPT !.length = n]
     \/ hdr' = [hdr EXCEPT !.encoding = "chunked"]
  /\ late' = (late \/ res.wroteHeader)
  /\ UNCHANGED <<HEAD, res, next, accepted, exceeded, flushed, returned>>

CallWriteHeader(code) ==
  /\ Running
  /\ res' = WriteHeader(res, code)
  /\ UNCHANGED <<HEAD, hdr, next, history, returned>>

CallWrite(n) ==
  /\ Running
  /\ next + n <= MaxBytes + 1
  /\ LET data == [i \in 1..n |-> next + i - 1]
     IN  /\ res' = Write(res, data)
         /\ accepted' = IF WriteAnswer(res, data) = "nil" THEN accepted \o data
                        ELSE accepted
         /\ exceeded' = (exceeded \/ WriteAnswer(res, data) = "ErrContentLength")
  /\ next' = next + n
  /\ UNCHANGED <<HEAD, hdr, flushed, late, returned>>

CallFlush ==
  /\ Running
  /\ res' = Flush(res)
  /\ flushed' = TRUE
  /\ UNCHANGED <<HEAD, hdr, next, accepted, exceeded, late, returned>>

CallHijack ==
  /\ Running
  /\ res' = Hijack(res)
  /\ UNCHANGED <<HEAD, hdr, next, history, returned>>

HandlerReturns ==
  /\ Running
  /\ res' = FinishRequest(res)
  /\ returned' = TRUE
  /\ UNCHANGED <<HEAD, hdr, next, history>>

HNext ==
  \/ SetHeader \/ CallFlush \/ CallHijack \/ HandlerReturns
  \/ \E code \in Statuses : CallWriteHeader(code)
  \/ \E n \in 0..MaxBytes : CallWrite(n)

HSpec == HInit /\ [][HNext]_hvars
-----------------------------------------------------------------------------
(* Properties *)

Finished == returned /\ ~res.panicked /\ ~res.hijacked

\* The peer can tell where the body ends: a finished response has one header,
\* and either a Content-Length that the body does not exceed (and reaches,
\* when the library chose it), or chunks with one terminating chunk.  The code
\* keeps this up as long as the handler does not call Flush, sets no header
\* after WriteHeader and writes no more than it declared.
FramingMatches ==
  Finished /\ ~exceeded /\ ~flushed /\ ~late =>
    /\ Len(res.head) = 1
    /\ bodyAllowedForStatus(res.status) /\ ~HEAD =>
         LET h == res.head[1] IN
         IF h.chunked THEN h.length = NoLength /\ res.ends = 1
         ELSE /\ h.length # NoLength /\ res.ends = 0
              /\ Len(res.body) <= h.length
              /\ Len(res.body) < h.length => hdr.length = h.length

\* The body is what the handler wrote: every byte of an answered Write, once
\* and in order, through the cache, around it and across Flush and Hijack, and
\* no byte for HEAD, as long as no Write exceeded the declared length.
BodyIsWhatWasWritten ==
  res.handlerDone /\ ~res.panicked /\ ~exceeded =>
    res.body = IF HEAD THEN <<>> ELSE accepted

\* A response is finished once: after FinishRequest, by Hijack or by OnTrack,
\* neither OnTrack's own FinishRequest nor a late Write, Flush or Hijack of the
\* handler puts anything more on the connection.
FinishedOnce ==
  [][res.handlerDone => /\ res'.head = res.head
                        /\ res'.body = res.body
                        /\ res'.ends = res.ends]_hvars
=============================================================================
