---------------------------- MODULE HttpRequest ----------------------------
(***************************************************************************)
(* OnTrack of the HTTP server with DoFast (gkhttp/http_server.go): the     *)
(* parser ReadFastRequest, the body reader and the recycling of            *)
(* gkhttp/request.go over the connection's bufio.Reader, which reads       *)
(* through Conn.Read (ConnRead).                                           *)
(*                                                                         *)
(* The peer's stream is a sequence of requests.  A token stands for the    *)
(* request line, for the line of the content's length, for the blank line  *)
(* or for a byte of the body; a position of ConnRead is that of a token.   *)
(* A segment that ends inside a line is one that ends after it: what comes *)
(* next is no request line in either case, and LineIs lets it pass or not. *)
(***************************************************************************)
EXTENDS ConnRead

CONSTANTS
  NumReqs,      \* requests the peer sends
  MaxBody,      \* longest body
  BufioSize,    \* size of the bufio.Reader
  Lengths       \* sizes of the slices the handler reads its body into

ASSUME RequestAssumption ==
  /\ NumReqs \in Nat \ {0} /\ MaxBody \in Nat /\ BufioSize \in Nat \ {0}
  /\ Lengths \subseteq Nat \ {0}

Reqs == 1..NumReqs

\* The header's key as the peer writes it: Header.Del finds the first alone.
Names == {"Content-Length", "content-length"}

VARIABLES
  bodyLen, name,    \* the requests: the body's length, how the key is written
  rbuf,             \* the bufio.Reader's unread tokens
  hpc,              \* where OnTrack is
  fragment,         \* readLine's line while isPrefix
  req,              \* the request: its line, content length and body so far
  header,           \* the keys of its Header, or of the recycled map
  served,           \* history: the requests the handler has served
  spoiled           \* history: the parser or the body met the end of what
                    \* has arrived, or a fill overwrote a parsed key

reqVars == <<rbuf, hpc, fragment, req, header, served, spoiled>>
hvars == <<rvars, bodyLen, name, reqVars>>

Token(k, r) == [kind |-> k, req |-> r]
Body(r) == [i \in 1..bodyLen[r] |-> [kind |-> "body", req |-> r, at |-> i]]
HeadLines(r) == <<Token("first", r), Token("field", r), Token("end", r)>>

\* What the peer sends.
Stream == FlattenSeq([r \in Reqs |-> HeadLines(r) \o Body(r)])

NoRequest == [line |-> <<>>, length |-> 0, read |-> 0, body |-> <<>>]

SInit ==
  /\ RInit
  /\ bodyLen \in [Reqs -> 0..MaxBody]
  /\ name \in [Reqs -> Names]
  /\ rbuf = <<>> /\ hpc = "idle" /\ fragment = <<>>
  /\ req = NoRequest /\ header = {}
  /\ served = <<>> /\ spoiled = FALSE

-----------------------------------------------------------------------------
(* The bufio.Reader *)

\* The strings of the request point into the bufio.Reader's array
\* (request.go:98, 117): a fill may overwrite what they hold.  A key that is
\* overwritten in place is found by no lookup any more.
Overwritten(keys) == {[k EXCEPT !.name = "overwritten"] : k \in keys}

\* The tokens a step reads from the connection.
Got == [i \in 1..(Len(consumed') - Len(consumed)) |-> Stream[consumed'[Len(consumed) + i]]]

\* fill: one Conn.Read into the array's free room.
Fill(room) ==
  /\ Unread # <<>>
  /\ Read(room)
  /\ header' \in {header, Overwritten(header)}

LineEnds == {i \in 1..Len(rbuf) : rbuf[i].kind # "body"}
HasLine == LineEnds # {}
FirstEnd == CHOOSE i \in LineEnds : \A j \in LineEnds : i <= j

ReadingLine == hpc \in {"line", "fields"}

\* ReadLine has no end of line in its buffer and reads on ...
FillLine ==
  /\ ReadingLine /\ ~HasLine /\ Len(rbuf) < BufioSize
  /\ Fill(BufioSize - Len(rbuf))
  /\ rbuf' = rbuf \o Got
  /\ spoiled' = (spoiled \/ (hpc = "fields" /\ header' # header))
  /\ UNCHANGED <<bodyLen, name, hpc, fragment, req, served>>

\* ... or, its buffer being full, returns a prefix, which readLine keeps.
LinePrefix ==
  /\ ReadingLine /\ ~HasLine /\ Len(rbuf) = BufioSize
  /\ fragment' = fragment \o rbuf
  /\ rbuf' = <<>>
  /\ UNCHANGED <<rvars, bodyLen, name, hpc, req, header, served, spoiled>>

\* What is left at the end of the data: an error to readLine, whatever the
\* fragment, when it is nothing.
Remaining == IF rbuf = <<>> THEN <<>> ELSE fragment \o rbuf
NextLine == IF HasLine THEN fragment \o Take(rbuf, FirstEnd) ELSE Remaining

\* readLine's answer: the next line, or what remains (<<>>: the error).
LineIs(line) ==
  /\ ReadingLine
  /\ line = NextLine
  /\ \/ /\ HasLine
        /\ rbuf' = Drop(rbuf, FirstEnd)
        /\ UNCHANGED spoiled
     \/ /\ ~HasLine /\ Len(rbuf) < BufioSize /\ Unread = <<>>
        /\ rbuf' = <<>>
        /\ spoiled' = TRUE
  /\ fragment' = <<>>

IsFirst(line) == Len(line) = 1 /\ line[1].kind = "first"
IsField(line) == Len(line) = 1 /\ line[1].kind = "field"
IsBlank(line) == Len(line) = 1 /\ line[1].kind = "end"

-----------------------------------------------------------------------------
(* OnTrack *)

\* ReadFromFd calls OnTrack, which calls ReadFastRequest.
Track ==
  /\ ReadFromFd
  /\ hpc = "idle"
  /\ hpc' = "line"
  /\ UNCHANGED <<bodyLen, name, rbuf, fragment, req, header, served, spoiled>>

\* OnTrack returns.
Return ==
  /\ TrackDone
  /\ hpc' = "idle"
  /\ req' = NoRequest

\* The request line has three parts: a request and the recycled header.  One
\* that is not the peer's request line may have them too.
RequestLine(line) ==
  /\ hpc = "line" /\ LineIs(line) /\ line # <<>> /\ ~IsBlank(line)
  /\ hpc' = "fields"
  /\ req' = [NoRequest EXCEPT !.line = line]
  /\ UNCHANGED <<rvars, bodyLen, name, header, served>>

\* It has not, or nothing is left to read: OnTrack returns the error.  What
\* has been read stays read.
RequestLineFails(line) ==
  /\ hpc = "line" /\ LineIs(line) /\ ~IsFirst(line)
  /\ Return
  /\ UNCHANGED <<bodyLen, name, header, served>>

\* req.Header[key] = value: a line of the header.
HeaderLine(line) ==
  /\ hpc = "fields" /\ LineIs(line) /\ line # <<>> /\ ~IsBlank(line)
  /\ header' = IF IsField(line)
                 THEN LET r == line[1].req
                      IN  {k \in header : k.name # name[r]}
                          \cup {[name |-> name[r], req |-> r]}
                 ELSE header
  /\ UNCHANGED <<rvars, bodyLen, name, hpc, req, served>>

\* The header is cut: the request is given up, its Header with it.
HeaderFails(line) ==
  /\ hpc = "fields" /\ LineIs(line) /\ line = <<>>
  /\ header' = {}
  /\ Return
  /\ UNCHANGED <<bodyLen, name, served>>

\* req.Header["Content-Length"].
ContentLength ==
  LET found == {k \in header : k.name = "Content-Length"}
  IN  IF found = {} THEN 0 ELSE bodyLen[(CHOOSE k \in found : TRUE).req]

\* The blank line: the body begins, and ServeHTTP is called.
HeaderDone(line) ==
  /\ hpc = "fields" /\ LineIs(line) /\ IsBlank(line)
  /\ hpc' = "serve"
  /\ req' = [req EXCEPT !.length = ContentLength]
  /\ UNCHANGED <<rvars, bodyLen, name, header, served>>

-----------------------------------------------------------------------------
(* ServeHTTP, FinishRequest and FreeRequest *)

\* Defect: the last read is not shortened.
BodyLimitNone(len) == len

\* body.Read(p) reads no more than is left of the content.
BodyLimit(len) == Smaller(len, req.length - req.read)

Deliver(bytes) ==
  req' = [req EXCEPT !.body = @ \o bytes, !.read = @ + Len(bytes)]

\* bufio.Reader.Read of n bytes: from the buffer; from the connection when the
\* buffer is empty, past it when the slice is larger.
BodyRead(n) ==
  /\ \/ /\ rbuf # <<>>
        /\ Deliver(Take(rbuf, n))
        /\ rbuf' = Drop(rbuf, n)
        /\ UNCHANGED <<rvars, header>>
     \/ /\ rbuf = <<>> /\ Unread # <<>> /\ n >= BufioSize
        /\ Read(n)
        /\ Deliver(Got)
        /\ UNCHANGED <<rbuf, header>>
     \/ /\ rbuf = <<>> /\ n < BufioSize
        /\ Fill(BufioSize)
        /\ Deliver(Take(Got, n))
        /\ rbuf' = Drop(Got, n)
  /\ UNCHANGED <<bodyLen, name, hpc, fragment, served, spoiled>>

NothingLeft == rbuf = <<>> /\ Unread = <<>>

\* The handler reads its body.
HandlerReads(len) ==
  /\ hpc = "serve" /\ req.read < req.length
  /\ BodyRead(BodyLimit(len))

\* ServeHTTP returns.
HandlerReturns ==
  /\ hpc = "serve"
  /\ hpc' = "finish"
  /\ served' = Append(served, req.line)
  /\ UNCHANGED <<rvars, bodyLen, name, rbuf, fragment, req, header, spoiled>>

\* Defect: the body is closed without reading what is left of it.
RestNone == 0

\* What Body.Close has to read and discard.
Rest == req.length - req.read

\* FinishRequest: io.CopyN(Discard, body, Rest).
Discard ==
  /\ hpc = "finish" /\ Rest > 0
  /\ BodyRead(Rest)

\* Defect: the header goes back to its pool as it is.
FreeHeaderNot == header

\* reqFreeHeader: h.Del(key) makes the key canonical before it deletes it.
FreeHeader == {k \in header : k.name # "Content-Length"}

\* FreeRequest, and OnTrack returns.
Finish ==
  /\ hpc = "finish" /\ (Rest <= 0 \/ NothingLeft)
  /\ spoiled' = (spoiled \/ Rest > 0)
  /\ header' = FreeHeader
  /\ Return
  /\ UNCHANGED <<bodyLen, name, rbuf, fragment, served>>

\* The connection is closed for a FIN, or by a write of the response.
Closes ==
  /\ hpc \in {"idle", "serve", "finish"}
  /\ CloseRead
  /\ UNCHANGED <<bodyLen, name, reqVars>>

PeerSends ==
  /\ arrived < Len(Stream)
  /\ Arrive
  /\ UNCHANGED <<bodyLen, name, reqVars>>

ReadRequest ==
  \/ Track \/ FillLine \/ LinePrefix
  \/ \E line \in {NextLine} :
       \/ RequestLine(line) \/ RequestLineFails(line)
       \/ HeaderLine(line) \/ HeaderFails(line) \/ HeaderDone(line)

SNext ==
  \/ PeerSends \/ Closes \/ ReadRequest
  \/ \E len \in Lengths : HandlerReads(len)
  \/ HandlerReturns \/ Discard \/ Finish

SSpec == SInit /\ [][SNext]_hvars
-----------------------------------------------------------------------------
(* Properties *)

Serving == hpc \in {"serve", "finish"}

\* The content length that the lines of request r give it, to a parser that
\* knows the key in one spelling.
OwnLength(r) == IF name[r] = "Content-Length" THEN bodyLen[r] ELSE 0

\* The body that the handler reads, and that Close discards, is a prefix of
\* the request's own: however the connection, the bufio.Reader and the
\* handler's slices cut the stream, no byte is skipped and none of the next
\* request is taken (body.Read, body.Close).
BodyIsOwn ==
  Serving /\ IsFirst(req.line) => IsPrefix(req.body, Body(req.line[1].req))

\* The lookup of "Content-Length" never finds another request's key in a recycled
\* Header: what reqFreeHeader leaves in the map is overwritten or not canonical.
HeaderIsOwn ==
  Serving /\ IsFirst(req.line) =>
    /\ \A k \in header : k.name = "Content-Length" => k.req = req.line[1].req
    /\ req.length \in {0, OwnLength(req.line[1].req)}

\* The number of the request whose line ends the line that was parsed.
LineNumber(line) == IF Last(line).kind = "first" THEN Last(line).req ELSE 0

\* No request is served twice or after a later one, also when an error drops
\* one half of it and the other half is parsed by the next OnTrack.
ServedInOrder ==
  \A i, j \in DOMAIN served :
    i < j /\ LineNumber(served[i]) > 0 /\ LineNumber(served[j]) > 0
      => LineNumber(served[i]) < LineNumber(served[j])

\* Unless a request is cut by the end of the data that has arrived, or its
\* keys are overwritten, the requests are served one after the other, none
\* left out and none made up from a body: what the handler leaves of a body is
\* discarded before the next request is parsed.  (A body whose length the
\* parser does not recognise is parsed as a request.)
WholeUnlessCut ==
  (~spoiled /\ \A r \in Reqs : OwnLength(r) = bodyLen[r]) =>
    served = [i \in 1..Len(served) |-> <<Token("first", i)>>]
=============================================================================
