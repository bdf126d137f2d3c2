------------------------------ MODULE ConnRead ------------------------------
(***************************************************************************)
(* The receiving side of one connection (conn/conn_read.go and ReadFromFd  *)
(* of conn/conn_handler.go): the bytes of one read(2) are in Buffer while  *)
(* OnTrack runs, what OnTrack leaves is appended to InBuffer, and          *)
(* Conn.Read serves InBuffer before Buffer.  Bytes are numbered in the     *)
(* order the peer sent them.                                               *)
(***************************************************************************)
EXTENDS Integers, Sequences, SequencesExt

CONSTANTS
  MaxBytes,     \* bytes the peer sends
  ReadBuffer    \* size of the pooled read buffer

ASSUME ReadAssumption == MaxBytes \in Nat /\ ReadBuffer \in Nat \ {0}

VARIABLES
  arrived,      \* bytes the peer has sent so far
  kernel,       \* the ones in the socket's receive buffer
  InBuffer, Buffer,
  tracking,     \* OnTrack is running
  open,         \* the connection is not closed
  consumed      \* history: the bytes Read returned

rvars == <<arrived, kernel, InBuffer, Buffer, tracking, open, consumed>>

RInit ==
  /\ arrived = 0 /\ kernel = <<>>
  /\ InBuffer = <<>> /\ Buffer = <<>>
  /\ tracking = FALSE /\ open = TRUE
  /\ consumed = <<>>

Arrive ==
  /\ arrived < MaxBytes
  /\ arrived' = arrived + 1
  /\ kernel' = Append(kernel, arrived + 1)
  /\ UNCHANGED <<InBuffer, Buffer, tracking, open, consumed>>

Smaller(a, b) == IF a <= b THEN a ELSE b

Take(s, n) == SubSeq(s, 1, Smaller(n, Len(s)))
Drop(s, n) == SubSeq(s, Smaller(n, Len(s)) + 1, Len(s))

\* n, err := sys.Read(Fd, buf); Buffer = buf[:n]; OnTrack begins.
ReadFromFd ==
  /\ open /\ ~tracking /\ kernel # <<>>
  /\ Buffer' = Take(kernel, ReadBuffer)
  /\ kernel' = Drop(kernel, ReadBuffer)
  /\ tracking' = TRUE
  /\ UNCHANGED <<arrived, InBuffer, open, consumed>>

\* Defect: what OnTrack left in Buffer is not kept.
TrackDoneDrops ==
  /\ tracking
  /\ tracking' = FALSE
  /\ UNCHANGED <<arrived, kernel, InBuffer, Buffer, open, consumed>>

\* OnTrack returns: InBuffer.Write(Buffer).  Buffer keeps its bytes.
TrackDone ==
  /\ tracking
  /\ tracking' = FALSE
  /\ InBuffer' = InBuffer \o Buffer
  /\ UNCHANGED <<arrived, kernel, Buffer, open, consumed>>

\* Defect: what is served from InBuffer is not taken off it.
ReadKeeps(len) ==
  /\ tracking
  /\ LET n == Take(InBuffer, len)
         m == Take(Buffer, len - Len(n))
     IN  /\ consumed' = consumed \o n \o m
         /\ InBuffer' = InBuffer
         /\ Buffer' = Drop(Buffer, len - Len(n))
  /\ UNCHANGED <<arrived, kernel, tracking, open>>

\* Conn.Read with a slice of len bytes, called inside OnTrack: InBuffer first,
\* then Buffer.  It returns io.EOF when Unread is empty.
Read(len) ==
  /\ tracking
  /\ LET n == Take(InBuffer, len)
         m == Take(Buffer, len - Len(n))
     IN  /\ consumed' = consumed \o n \o m
         /\ InBuffer' = Drop(InBuffer, len)
         /\ Buffer' = Drop(Buffer, len - Len(n))
  /\ UNCHANGED <<arrived, kernel, tracking, open>>

Unread == InBuffer \o Buffer

\* Close, called by OnTrack or for a FIN: releaseTCP drops what is unread.
CloseRead ==
  /\ open
  /\ open' = FALSE
  /\ InBuffer' = <<>>
  /\ Buffer' = <<>>
  /\ UNCHANGED <<arrived, kernel, tracking, consumed>>

-----------------------------------------------------------------------------
(* Properties *)

\* Bytes 1..n in order.
Numbers(n) == [i \in 1..n |-> i]

\* User code reads the peer's bytes in order and each of them once: what it
\* has read, what InBuffer and Buffer hold and what the kernel holds are the
\* whole stream, however the reads cut it.  After Close it has read a prefix.
ReadStreamIntact ==
  /\ IsPrefix(consumed, Numbers(arrived))
  /\ open => consumed \o InBuffer \o (IF tracking THEN Buffer ELSE <<>>) \o kernel
               = Numbers(arrived)
=============================================================================
