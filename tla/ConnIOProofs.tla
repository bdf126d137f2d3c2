---------------------------- MODULE ConnIOProofs ----------------------------
(***************************************************************************)
(* How a connection is opened, used and closed by its goroutines: proofs   *)
(* about the module ConnIO, for any messages, any number of asyncWrite     *)
(* tasks, any sizes of the buffers and any of the behaviours of user code. *)
(*   - ClosedOnce, CountIsConnections, NoByteTwice, NoForeignAccess and    *)
(*     TrackHasContext hold of every connection.  Each names the           *)
(*     interference that it does not survive: two goroutines inside Close, *)
(*     two inside OutBuffer, or a Close beside the handler.                *)
(*   - StreamIntact and InterestMatchesBuffer hold when only OnTrack       *)
(*     writes and the peer does not reset: OutBuffer has no lock.          *)
(***************************************************************************)
EXTENDS ConnIO, FlattenLemmas

handlerPC == pc["handler"]
openerPC == pc["opener"]

\* Inside write; inside write or Close; before ConnList.
Writing == {"write", "syscall", "buffer", "append", "modify"}
Busy == Writing \cup Closing \cup {"close"}
Unlisted == {"register", "context", "list"}

\* The goroutines are different ones.
LEMMA ThreadsDiffer ==
  /\ "handler" \in Threads /\ "opener" \in Threads /\ TaskMsgs \subseteq Threads
  /\ \A t \in TaskMsgs : t # "handler" /\ t # "opener"
PROOF BY ConnAssumption DEF Threads

-----------------------------------------------------------------------------
(* What the vectors hold *)

\* Where the elements of a part of a sequence are.
Cut(s, m, n, u) ==
  /\ Len(u) = n - m + 1
  /\ \A k \in 1..Len(u) : m + k - 1 \in 1..Len(s) /\ u[k] = s[m + k - 1]

\* A part of a sequence.
LEMMA CutParts ==
  ASSUME NEW A, NEW s \in Seq(A), NEW m \in Nat \ {0}, NEW n \in Nat, m <= n + 1, n <= Len(s)
  PROVE  SubSeq(s, m, n) \in Seq(A) /\ Cut(s, m, n, SubSeq(s, m, n))
PROOF
<1>1. Len(s) \in Nat
  OBVIOUS
<1>2. \A i \in m..n : s[i] \in A
  <2> TAKE i \in m..n
  <2>1. i \in 1..Len(s)
    BY <1>1
  <2> QED BY <2>1, ElementOfSeq
<1>3. PICK u : u = SubSeq(s, m, n)
  OBVIOUS
<1>4. /\ u \in Seq(A) /\ Len(u) = IF m <= n THEN n - m + 1 ELSE 0
      /\ \A i \in 1..(n - m + 1) : u[i] = s[m + i - 1]
  BY <1>2, <1>3, SubSeqProperties
<1>5. Len(u) = n - m + 1
  BY <1>4
<1>6. \A k \in 1..(n - m + 1) : m + k - 1 \in 1..Len(s)
  BY <1>1
<1>7. Cut(s, m, n, u)
  BY <1>4, <1>5, <1>6 DEF Cut
<1> QED BY <1>3, <1>4, <1>7

\* What writev keeps of a vector after n bytes are sent is exactly the bytes after the
\* first n, whichever slice the kernel stopped in (conn_write.go, writev).
LEMMA RemainderIs ==
  ASSUME NEW A, NEW data \in Seq(Seq(A)), NEW n \in 0..Len(FlattenSeq(data))
  PROVE  /\ Remainder(data, n) \in Seq(Seq(A))
         /\ FlattenSeq(Remainder(data, n)) = SubSeq(FlattenSeq(data), n + 1, Len(FlattenSeq(data)))
PROOF
<1>1. PICK t, off : t = FlattenSeq(data) /\ t \in Seq(A) /\ Flat(data, off, t)
  BY FlattenIsFlat
<1>2. n \in Nat /\ Len(t) \in Nat /\ n <= Len(t)
  BY <1>1
<1>3. CASE n = Len(t)
  <2>1. Remainder(data, n) = <<>>
    BY <1>1, <1>3 DEF Remainder
  <2>2. SubSeq(t, n + 1, Len(t)) = <<>>
    BY <1>2, <1>3, SubSeqEmpty
  <2> QED BY <1>1, <2>1, <2>2, FlattenNone, EmptySeq
<1>4. CASE n # Len(t)
  <2>1. PICK L : L = Len(data)
    OBVIOUS
  <2>2. /\ L \in Nat /\ DOMAIN data = 1..L /\ Layout(data, off) /\ Len(t) = off[L + 1]
        /\ n + 1 <= off[L + 1] /\ \A k \in 1..(L + 1) : off[k] \in Nat
    <3>1. L \in Nat /\ DOMAIN data = 1..L
      BY <2>1
    <3>2. Layout(data, off) /\ Len(t) = off[L + 1]
      BY <1>1, <2>1 DEF Flat
    <3>3. \A k \in 1..(L + 1) : off[k] \in Nat
      BY <2>1, <3>2 DEF Layout
    <3>4. n + 1 <= Len(t)
      BY <1>2, <1>4
    <3> QED BY <3>1, <3>2, <3>3, <3>4
  <2> DEFINE Stops(k) == /\ Len(FlattenSeq(SubSeq(data, 1, k))) > n
                         /\ Len(FlattenSeq(SubSeq(data, 1, k - 1))) <= n
  <2>3. ASSUME NEW k \in 1..L PROVE Stops(k) <=> off[k + 1] > n /\ off[k] <= n
    <3>1. k \in 0..Len(data) /\ k - 1 \in 0..Len(data) /\ (k - 1) + 1 = k
      BY <2>1, <2>2
    <3>2. Len(FlattenSeq(SubSeq(data, 1, k))) = off[k + 1]
      BY <2>2, <3>1, FirstPartsEnd
    <3>3. Len(FlattenSeq(SubSeq(data, 1, k - 1))) = off[(k - 1) + 1]
      BY <2>2, <3>1, FirstPartsEnd
    <3> QED BY <3>1, <3>2, <3>3
  <2>4. \E k \in 1..L : off[k + 1] > n /\ off[k] <= n
    <3>1. InPart(data, off, n + 1)
      BY <1>2, <2>1, <2>2, Covered
    <3>2. PICK i \in 1..L : \E k \in 1..Len(data[i]) : n + 1 = off[i] + k
      BY <2>1, <3>1 DEF InPart
    <3>3. off[i + 1] = off[i] + Len(data[i]) /\ off[i] \in Nat /\ Len(data[i]) \in Nat
      BY <2>1, <2>2 DEF Layout
    <3>4. PICK k \in 1..Len(data[i]) : n + 1 = off[i] + k
      BY <3>2
    <3>5. PICK x, y, z : x = off[i] /\ y = off[i + 1] /\ z = Len(data[i])
      OBVIOUS
    <3>6. y > n /\ x <= n
      BY <1>2, <3>3, <3>4, <3>5, SMTT(30)
    <3> QED BY <3>5, <3>6
  <2>5. PICK i : i = CHOOSE k \in DOMAIN data : Stops(k)
    OBVIOUS
  <2>6. i \in 1..L /\ Stops(i)
    BY <2>2, <2>3, <2>4, <2>5
  <2>7. /\ off[i + 1] \in Nat /\ off[i] \in Nat /\ off[i + 1] > n /\ off[i] <= n
        /\ off[i + 1] = off[i] + Len(data[i]) /\ data[i] \in Seq(A)
    BY <2>1, <2>2, <2>3, <2>6 DEF Layout
  <2>8. Len(FlattenSeq(SubSeq(data, 1, i - 1))) = off[i]
    <3>1. i - 1 \in 0..Len(data) /\ (i - 1) + 1 = i
      BY <2>1, <2>2, <2>6
    <3>2. Len(FlattenSeq(SubSeq(data, 1, i - 1))) = off[(i - 1) + 1]
      BY <2>2, <3>1, FirstPartsEnd
    <3> QED BY <3>1, <3>2
  <2>9. PICK h, b, r : /\ h = SubSeq(data[i], n - off[i] + 1, Len(data[i]))
                       /\ b = SubSeq(data, i + 1, Len(data))
                       /\ r = <<h>> \o b
    OBVIOUS
  <2>10. Remainder(data, n) = r
    BY <1>1, <1>4, <2>5, <2>8, <2>9, Zenon DEF Remainder
  <2> HIDE DEF Stops
  <2>11. /\ h \in Seq(A) /\ Len(h) = off[i + 1] - n
         /\ \A k \in 1..Len(h) : (n - off[i]) + k \in 1..Len(data[i]) /\ h[k] = data[i][(n - off[i]) + k]
    <3>1. PICK d, o : d = data[i] /\ o = n - off[i]
      OBVIOUS
    <3>2. d \in Seq(A) /\ Len(d) \in Nat /\ o \in Nat /\ o <= Len(d) /\ Len(d) - o = off[i + 1] - n
      <4>1. PICK x, y, z : x = off[i] /\ y = off[i + 1] /\ z = Len(d)
        OBVIOUS
      <4>2. /\ x \in Nat /\ y \in Nat /\ y > n /\ x <= n /\ z \in Nat /\ y = x + z /\ o = n - x
            /\ d \in Seq(A)
        BY <2>7, <3>1, <4>1, LenProperties
      <4>3. o \in Nat /\ o <= z /\ z - o = y - n
        BY <1>2, <4>2
      <4> QED BY <4>1, <4>2, <4>3
    <3>3. h = SubSeq(d, o + 1, Len(d)) /\ o + 1 \in Nat \ {0}
      <4>1. o + 1 \in Nat \ {0}
        BY <3>2
      <4> QED BY <2>9, <3>1, <4>1
    <3>4. h \in Seq(A) /\ Cut(d, o + 1, Len(d), h)
      BY <3>2, <3>3, CutParts
    <3>5. Len(h) = Len(d) - o /\ \A k \in 1..Len(h) : o + k \in 1..Len(d) /\ h[k] = d[o + k]
      BY <3>2, <3>4 DEF Cut
    <3> QED BY <3>1, <3>2, <3>4, <3>5
  <2>12. /\ b \in Seq(Seq(A)) /\ Len(b) = L - i
         /\ \A k \in 1..Len(b) : i + k \in 1..L /\ b[k] = data[i + k]
    <3>1. i + 1 \in Nat \ {0} /\ Len(data) \in Nat /\ i <= Len(data) /\ i + 1 <= Len(data) + 1
      BY <2>1, <2>2, <2>6
    <3>2. b \in Seq(Seq(A)) /\ Cut(data, i + 1, Len(data), b)
      BY <2>9, <3>1, CutParts
    <3>3. /\ Len(b) = Len(data) - (i + 1) + 1
          /\ \A k \in 1..Len(b) : (i + 1) + k - 1 \in 1..Len(data) /\ b[k] = data[(i + 1) + k - 1]
      BY <3>2, Zenon DEF Cut
    <3>4. PICK l : l = Len(b)
      OBVIOUS
    <3>5. Len(data) = L
      BY <2>1
    <3>6. l = L - i
      BY <2>6, <3>1, <3>3, <3>4, <3>5
    <3>7. \A k \in 1..l : (i + 1) + k - 1 = i + k
      BY <2>6
    <3>8. \A k \in 1..l : i + k \in 1..L /\ b[k] = data[i + k]
      BY <3>3, <3>4, <3>5, <3>7, Zenon
    <3> QED BY <3>2, <3>4, <3>6, <3>8, Zenon
  <2>13. /\ r \in Seq(Seq(A)) /\ Len(r) = L - i + 1 /\ r[1] = h
         /\ \A q \in 1..Len(r) : q # 1 => (i + q) - 1 \in 1..L /\ r[q] = data[(i + q) - 1]
    <3>1. PICK a : a = <<h>>
      OBVIOUS
    <3>2. a \in Seq(Seq(A)) /\ Len(a) = 1 /\ a[1] = h
      BY <2>11, <3>1
    <3>3. r \in Seq(Seq(A)) /\ Joined(a, b, r)
      BY <2>9, <2>12, <3>1, <3>2, ConcatParts
    <3>4. Len(r) = L - i + 1 /\ r[1] = h
      BY <2>2, <2>6, <2>12, <3>2, <3>3 DEF Joined
    <3>5. ASSUME NEW q \in 1..Len(r), q # 1
          PROVE  (i + q) - 1 \in 1..L /\ r[q] = data[(i + q) - 1]
      <4>1. PICK k : k = q - 1
        OBVIOUS
      <4>2. k \in 1..Len(b) /\ q = 1 + k /\ i + k = (i + q) - 1
        <5>1. PICK c, e : c = Len(b) /\ e = Len(r)
          OBVIOUS
        <5>2. c = L - i /\ e = L - i + 1 /\ q \in 1..e /\ q # 1 /\ k = q - 1
          BY <2>12, <3>4, <3>5, <4>1, <5>1
        <5>3. k \in 1..c /\ q = 1 + k /\ i + k = (i + q) - 1
          BY <2>2, <2>6, <5>2
        <5> QED BY <5>1, <5>3
      <4>3. r[1 + k] = b[k]
        BY <3>2, <3>3, <4>2 DEF Joined
      <4> QED BY <2>12, <4>2, <4>3
    <3> QED BY <3>3, <3>4, <3>5
  <2>14. PICK g : g = [q \in 1..(Len(r) + 1) |-> IF q = 1 THEN 0 ELSE off[(i + q) - 1] - n]
    OBVIOUS
  <2>15. ASSUME NEW q \in 1..(Len(r) + 1), q # 1
         PROVE  /\ g[q] = off[(i + q) - 1] - n /\ (i + q) - 1 \in 1..(L + 1)
                /\ off[(i + q) - 1] \in Nat /\ g[q] \in Nat
    <3>1. PICK j : j = (i + q) - 1
      OBVIOUS
    <3>2. j \in 1..(L + 1) /\ i + 1 \in 1..(L + 1) /\ i + 1 <= j /\ off[j] \in Nat
      BY <2>2, <2>6, <2>13, <2>15, <3>1
    <3>3. off[i + 1] <= off[j]
      BY <2>1, <2>2, <3>2, OffsetsGrow
    <3>4. g[q] = off[j] - n
      BY <2>14, <2>15, <3>1
    <3>5. off[j] - n \in Nat
      BY <1>2, <2>7, <3>2, <3>3, SMTT(30)
    <3> QED BY <3>1, <3>2, <3>4, <3>5
  <2>16. g[1] = 0 /\ g \in [1..(Len(r) + 1) -> Nat]
    <3>1. 1 \in 1..(Len(r) + 1)
      BY <2>13
    <3>2. g[1] = 0
      BY <2>14, <3>1
    <3>3. \A q \in 1..(Len(r) + 1) : g[q] \in Nat
      BY <2>15, <3>2
    <3> QED BY <2>14, <3>2, <3>3
  <2>17. ASSUME NEW q \in 1..Len(r) PROVE g[q + 1] = g[q] + Len(r[q])
    <3>1. q + 1 \in 1..(Len(r) + 1) /\ q + 1 # 1 /\ q \in 1..(Len(r) + 1)
      BY <2>13
    <3>2. g[q + 1] = off[(i + (q + 1)) - 1] - n
      BY <2>15, <3>1
    <3>3. CASE q = 1
      BY <2>6, <2>7, <2>11, <2>13, <2>16, <3>2, <3>3, SMTT(30)
    <3>4. CASE q # 1
      <4>1. PICK j : j = (i + q) - 1
        OBVIOUS
      <4>2. j \in 1..L /\ (i + (q + 1)) - 1 = j + 1 /\ r[q] = data[j]
        BY <2>6, <2>13, <3>4, <4>1, SMTT(30)
      <4>3. off[j + 1] = off[j] + Len(data[j]) /\ Len(data[j]) \in Nat
        BY <2>1, <2>2, <4>2 DEF Layout
      <4>4. g[q] = off[j] - n /\ off[j] \in Nat
        BY <2>15, <3>1, <3>4, <4>1
      <4>5. g[q + 1] = off[j + 1] - n
        BY <3>2, <4>2
      <4>6. PICK x, y, z : x = off[j + 1] /\ y = off[j] /\ z = Len(data[j])
        OBVIOUS
      <4>7. Len(r[q]) = z
        BY <4>2, <4>6
      <4> QED BY <1>2, <4>3, <4>4, <4>5, <4>6, <4>7, SMTT(30)
    <3> QED BY <3>3, <3>4
  <2>18. PICK u : u = SubSeq(t, n + 1, Len(t))
    OBVIOUS
  <2>19. /\ u \in Seq(A) /\ Len(u) = Len(t) - n
         /\ \A k \in 1..Len(u) : u[k] = t[n + k]
    <3>1. n + 1 \in Nat \ {0} /\ n + 1 <= Len(t) + 1
      BY <1>2
    <3>2. u \in Seq(A) /\ Cut(t, n + 1, Len(t), u)
      BY <1>1, <1>2, <2>18, <3>1, CutParts
    <3> QED BY <1>2, <3>2 DEF Cut
  <2>20. Layout(r, g)
    BY <2>16, <2>17 DEF Layout
  <2>21. Len(u) = g[Len(r) + 1]
    <3>1. Len(r) + 1 \in 1..(Len(r) + 1) /\ Len(r) + 1 # 1 /\ (i + (Len(r) + 1)) - 1 = L + 1
      BY <2>2, <2>6, <2>13
    <3>2. g[Len(r) + 1] = off[(i + (Len(r) + 1)) - 1] - n
      BY <2>15, <3>1
    <3> QED BY <2>2, <2>19, <3>1, <3>2
  <2>22. ASSUME NEW q \in 1..Len(r), NEW k \in 1..Len(r[q]) PROVE u[g[q] + k] = r[q][k]
    <3>1. CASE q = 1
      <4>1. r[q] = h /\ g[q] = 0 /\ k \in 1..Len(h)
        BY <2>13, <2>16, <3>1
      <4>2. h[k] = data[i][(n - off[i]) + k] /\ (n - off[i]) + k \in 1..Len(data[i])
        BY <2>11, <4>1
      <4>3. t[off[i] + ((n - off[i]) + k)] = data[i][(n - off[i]) + k]
        BY <1>1, <2>1, <2>6, <4>2 DEF Flat
      <4>4. off[i] + ((n - off[i]) + k) = n + k /\ k \in 1..Len(u) /\ g[q] + k = k
        <5>1. off[i + 1] <= off[L + 1]
          <6>1. i + 1 \in 1..(L + 1) /\ L + 1 \in 1..(L + 1) /\ i + 1 <= L + 1
            BY <2>2, <2>6
          <6> QED BY <2>1, <2>2, <6>1, OffsetsGrow
        <5>2. PICK x, y, z : x = off[i] /\ y = off[i + 1] /\ z = off[L + 1]
          OBVIOUS
        <5>3. /\ x \in Nat /\ y \in Nat /\ z \in Nat /\ y <= z /\ k \in 1..(y - n)
              /\ Len(u) = z - n
          BY <2>2, <2>7, <2>11, <2>19, <4>1, <5>1, <5>2
        <5>4. x + ((n - x) + k) = n + k /\ k \in 1..(z - n) /\ 0 + k = k
          BY <1>2, <5>3
        <5> QED BY <4>1, <5>2, <5>3, <5>4
      <4>5. u[k] = t[n + k]
        BY <2>19, <4>4
      <4> QED BY <4>1, <4>2, <4>3, <4>4, <4>5
    <3>2. CASE q # 1
      <4>1. PICK j : j = (i + q) - 1
        OBVIOUS
      <4>2. j \in 1..L /\ r[q] = data[j] /\ q \in 1..(Len(r) + 1) /\ k \in 1..Len(data[j])
        BY <2>13, <3>2, <4>1
      <4>3. g[q] = off[j] - n /\ off[j] \in Nat /\ g[q] \in Nat
        BY <2>15, <3>2, <4>1, <4>2
      <4>4. t[off[j] + k] = data[j][k]
        BY <1>1, <2>1, <4>2 DEF Flat
      <4>5. off[j] + Len(data[j]) <= off[L + 1] /\ Len(data[j]) \in Nat
        <5>1. j + 1 \in 1..(L + 1) /\ L + 1 \in 1..(L + 1) /\ j + 1 <= L + 1
          BY <2>2, <4>2, SMTT(30)
        <5>2. off[j + 1] <= off[L + 1]
          BY <2>1, <2>2, <5>1, OffsetsGrow
        <5> QED BY <2>1, <2>2, <4>2, <5>2 DEF Layout
      <4>6. PICK x, y : x = off[j] /\ y = g[q] + k
        OBVIOUS
      <4>7. y \in 1..Len(u) /\ n + y = x + k
        <5>1. PICK z, l, m : z = off[L + 1] /\ l = Len(data[j]) /\ m = g[q]
          OBVIOUS
        <5>2. /\ x \in Nat /\ l \in Nat /\ z = Len(t) /\ x + l <= z /\ m \in Nat /\ m = x - n
              /\ k \in 1..l /\ Len(u) = z - n /\ y = m + k
          BY <2>2, <2>19, <4>2, <4>3, <4>5, <4>6, <5>1
        <5>3. y \in 1..(z - n) /\ n + y = x + k
          BY <1>2, <5>2
        <5> QED BY <5>2, <5>3
      <4>8. u[y] = t[n + y]
        BY <2>19, <4>7
      <4> QED BY <4>2, <4>4, <4>6, <4>7, <4>8
    <3> QED BY <3>1, <3>2
  <2>23. Flat(r, g, u)
    BY <2>20, <2>21, <2>22 DEF Flat
  <2>24. FlattenSeq(r) = u
    BY <2>13, <2>19, <2>23, FlattenIs
  <2> QED BY <1>1, <2>10, <2>13, <2>18, <2>24
<1> QED BY <1>3, <1>4

\* The bytes of all messages.
Msgs == TrackMsgs \cup TaskMsgs \cup HookMsgs \cup OpenMsgs
Byte == Msgs \X (1..MsgLen)

\* The bytes of a message are as many as it has, and its own.
LEMMA BytesType ==
  ASSUME NEW m \in Msgs
  PROVE  /\ Bytes(m) \in Seq(Byte) /\ Len(Bytes(m)) = MsgLen
         /\ \A i \in 1..MsgLen : Bytes(m)[i] = <<m, i>>
PROOF
<1>1. MsgLen \in Nat
  BY ConnAssumption
<1>2. PICK b : b = Bytes(m)
  OBVIOUS
<1>3. b = [i \in 1..MsgLen |-> <<m, i>>] /\ \A i \in 1..MsgLen : <<m, i>> \in Byte
  BY <1>2 DEF Bytes, Byte
<1>4. b \in [1..MsgLen -> Byte]
  BY <1>3
<1>5. b \in Seq(Byte) /\ Len(b) = MsgLen
  BY <1>1, <1>4
<1> QED BY <1>2, <1>3, <1>5

\* Multiplication is monotonic.
LEMMA TimesGrows ==
  ASSUME NEW a \in Nat, NEW b \in Nat, NEW k \in Nat, a <= b
  PROVE  a * k \in Nat /\ b * k \in Nat /\ a * k <= b * k
PROOF
<1>1. PICK d \in Nat : b = a + d
  <2>1. b - a \in Nat /\ b = a + (b - a)
    OBVIOUS
  <2> QED BY <2>1
<1>2. b * k = a * k + d * k /\ d * k \in Nat /\ a * k \in Nat
  BY <1>1
<1> QED BY <1>2

\* The chunks before the last are whole, and the last one is what is left.
LEMMA ChunksFit ==
  ASSUME MsgLen > ChunkSize, ~SplitPanics
  PROVE  /\ ChunkCount \in Nat /\ ChunkCount * ChunkSize \in Nat
         /\ ChunkCount * ChunkSize <= MsgLen
         /\ MsgLen <= (ChunkCount + 1) * ChunkSize
PROOF
<1>1. PICK K, L, d, C : K = ChunkSize /\ L = MsgLen /\ d = (L - 2) \div K /\ C = ChunkCount
  OBVIOUS
<1>2. K \in Nat /\ L \in Nat /\ 1 <= K /\ K < L
  BY <1>1, ConnAssumption
<1>3. C = 1 + d
  BY <1>1, <1>2 DEF ChunkCount
<1>4. d \in Nat /\ L - 2 < (d + 1) * K
  <2>1. PICK x : x = L - 2
    OBVIOUS
  <2>2. x \in Nat /\ d = x \div K
    BY <1>1, <1>2, <2>1
  <2>3. d \in Int /\ x = K * d + (x % K) /\ x % K \in Int /\ 0 <= x % K /\ x % K < K
    BY <1>2, <2>2
  <2>4. PICK r : r = x % K
    OBVIOUS
  <2>5. r \in Int /\ 0 <= r /\ r < K /\ x = K * d + r
    BY <2>3, <2>4
  <2>6. 0 <= d
    BY <1>2, <2>2, <2>3, <2>5
  <2>7. (d + 1) * K = K * d + K
    BY <1>2, <2>3
  <2>8. K * d \in Int
    BY <1>2, <2>3
  <2> QED BY <1>2, <2>1, <2>2, <2>3, <2>5, <2>6, <2>7, <2>8
<1>5. (C + 1) * K = C * K + K /\ C * K \in Nat /\ C \in Nat
  BY <1>2, <1>3, <1>4
<1>6. C * K <= L
  <2>1. ~(C * K > L)
    BY <1>1, <1>2 DEF SplitPanics
  <2> QED BY <1>2, <1>5, <2>1
<1>7. L <= (C + 1) * K
  BY <1>2, <1>3, <1>4, <1>5
<1> QED BY <1>1, <1>5, <1>6, <1>7

\* The slices SplitDataForWritev makes are the message (utils.go).
LEMMA SplitIs ==
  ASSUME NEW m \in Msgs, MsgLen > ChunkSize, ~SplitPanics
  PROVE  /\ SplitDataForWritev(Bytes(m)) \in Seq(Seq(Byte))
         /\ FlattenSeq(SplitDataForWritev(Bytes(m))) = Bytes(m)
PROOF
<1>1. PICK K, L, C, b : K = ChunkSize /\ L = MsgLen /\ C = ChunkCount /\ b = Bytes(m)
  OBVIOUS
<1>2. K \in Nat /\ L \in Nat /\ 1 <= K /\ K < L
  BY <1>1, ConnAssumption
<1>3. C \in Nat /\ C * K \in Nat /\ C * K <= L /\ L <= (C + 1) * K
  BY <1>1, ChunksFit
<1>4. b \in Seq(Byte) /\ Len(b) = L
  BY <1>1, BytesType
<1>5. PICK s : s = [i \in 1..(C + 1) |-> SubSeq(b, (i - 1) * K + 1, MinOf(i * K, L))]
  OBVIOUS
<1>6. SplitDataForWritev(b) = s
  <2>1. ~(MsgLen <= ChunkSize)
    BY <1>1, <1>2
  <2> QED BY <1>1, <1>5, <2>1, Zenon DEF SplitDataForWritev
<1>7. PICK g : g = [j \in 1..(C + 2) |-> IF j <= C + 1 THEN (j - 1) * K ELSE L]
  OBVIOUS
<1>8. ASSUME NEW i \in 1..(C + 1)
      PROVE  /\ g[i] \in Nat /\ g[i] = (i - 1) * K /\ g[i] <= L
             /\ g[i + 1] \in Nat /\ g[i + 1] = MinOf(i * K, L) /\ g[i] <= g[i + 1] /\ g[i + 1] <= L
  <2>1. i \in Nat /\ i - 1 \in Nat /\ i - 1 <= C /\ i <= C + 1 /\ i - 1 <= i
    BY <1>3
  <2>2. (i - 1) * K \in Nat /\ (i - 1) * K <= C * K
    BY <1>2, <1>3, <2>1, TimesGrows
  <2>3. i * K \in Nat /\ (i - 1) * K <= i * K
    BY <1>2, <2>1, TimesGrows
  <2>4. g[i] = (i - 1) * K
    <3>1. i \in 1..(C + 2) /\ i <= C + 1
      BY <1>3, <2>1
    <3> QED BY <1>7, <3>1
  <2>5. g[i + 1] = MinOf(i * K, L)
    <3>1. i + 1 \in 1..(C + 2) /\ (i + 1) - 1 = i
      BY <1>3, <2>1
    <3>2. CASE i <= C
      <4>1. i * K <= C * K
        BY <1>2, <1>3, <2>1, <3>2, TimesGrows
      <4>2. MinOf(i * K, L) = i * K
        BY <1>2, <1>3, <2>3, <4>1 DEF MinOf
      <4>3. i + 1 <= C + 1
        BY <1>3, <2>1, <3>2
      <4>4. g[i + 1] = ((i + 1) - 1) * K
        BY <1>7, <3>1, <4>3
      <4> QED BY <3>1, <4>2, <4>4
    <3>3. CASE ~(i <= C)
      <4>1. i = C + 1
        BY <1>3, <2>1, <3>3
      <4>2. MinOf(i * K, L) = L
        BY <1>2, <1>3, <2>3, <4>1 DEF MinOf
      <4>3. ~(i + 1 <= C + 1)
        BY <1>3, <4>1
      <4>4. g[i + 1] = L
        BY <1>7, <3>1, <4>3
      <4> QED BY <4>2, <4>4
    <3> QED BY <3>2, <3>3
  <2>6. PICK x, y : x = (i - 1) * K /\ y = i * K
    OBVIOUS
  <2>7. x \in Nat /\ y \in Nat /\ x <= y /\ x <= L
    BY <1>2, <1>3, <2>2, <2>3, <2>6
  <2>8. MinOf(y, L) \in Nat /\ x <= MinOf(y, L) /\ MinOf(y, L) <= L
    BY <1>2, <2>7 DEF MinOf
  <2> QED BY <2>4, <2>5, <2>6, <2>7, <2>8
<1>9. ASSUME NEW i \in 1..(C + 1)
      PROVE  /\ s[i] \in Seq(Byte) /\ Len(s[i]) = g[i + 1] - g[i]
             /\ \A k \in 1..Len(s[i]) : b[g[i] + k] = s[i][k]
  <2>1. PICK p, q, u : p = g[i] /\ q = g[i + 1] /\ u = s[i]
    OBVIOUS
  <2>2. p \in Nat /\ q \in Nat /\ p <= q /\ q <= L
    BY <1>8, <2>1
  <2>3. u = SubSeq(b, p + 1, q)
    <3>1. s[i] = SubSeq(b, (i - 1) * K + 1, MinOf(i * K, L))
      BY <1>5
    <3> QED BY <1>8, <2>1, <3>1
  <2>4. p + 1 \in Nat \ {0} /\ p + 1 <= q + 1
    BY <2>2
  <2>5. u \in Seq(Byte) /\ Cut(b, p + 1, q, u)
    BY <1>4, <2>2, <2>3, <2>4, CutParts
  <2>6. Len(u) = q - p /\ \A k \in 1..Len(u) : b[p + k] = u[k]
    BY <2>2, <2>5, SMTT(30) DEF Cut
  <2> QED BY <2>1, <2>5, <2>6
<1>10. s \in Seq(Seq(Byte)) /\ Len(s) = C + 1
  <2>1. s \in [1..(C + 1) -> Seq(Byte)]
    BY <1>5, <1>9
  <2> QED BY <1>3, <2>1
<1>11. Layout(s, g)
  <2>1. \A j \in 1..(C + 2) : g[j] \in Nat
    <3> TAKE j \in 1..(C + 2)
    <3>1. CASE j = C + 2
      <4>1. ~(j <= C + 1)
        BY <1>3, <3>1
      <4> QED BY <1>2, <1>7, <4>1
    <3>2. CASE j # C + 2
      <4>1. j \in 1..(C + 1)
        BY <1>3, <3>2
      <4> QED BY <1>8, <4>1
    <3> QED BY <3>1, <3>2
  <2>2. g \in [1..(Len(s) + 1) -> Nat]
    <3>1. Len(s) + 1 = C + 2
      BY <1>3, <1>10
    <3> QED BY <1>7, <2>1, <3>1
  <2>3. g[1] = 0
    <3>1. 1 \in 1..(C + 1) /\ 1 - 1 = 0
      BY <1>3
    <3>2. g[1] = (1 - 1) * K
      BY <1>8, <3>1
    <3>3. 0 * K = 0
      BY <1>2
    <3> QED BY <3>1, <3>2, <3>3
  <2>4. \A i \in 1..(C + 1) : g[i + 1] = g[i] + Len(s[i])
    <3> TAKE i \in 1..(C + 1)
    <3>1. PICK x, y, z : x = g[i] /\ y = g[i + 1] /\ z = Len(s[i])
      OBVIOUS
    <3>2. x \in Nat /\ y \in Nat /\ z = y - x
      BY <1>8, <1>9, <3>1
    <3>3. y = x + z
      BY <3>2
    <3> QED BY <3>1, <3>3
  <2> QED BY <1>10, <2>2, <2>3, <2>4 DEF Layout
<1>12. Flat(s, g, b)
  <2>1. Len(b) = g[Len(s) + 1]
    <3>1. Len(s) + 1 = C + 2 /\ C + 2 \in 1..(C + 2) /\ ~(C + 2 <= C + 1)
      BY <1>3, <1>10
    <3>2. g[C + 2] = L
      BY <1>7, <3>1
    <3> QED BY <1>4, <3>1, <3>2
  <2> QED BY <1>9, <1>10, <1>11, <2>1 DEF Flat
<1>13. FlattenSeq(s) = b
  BY <1>4, <1>10, <1>12, FlattenIs
<1> QED BY <1>1, <1>6, <1>10, <1>13

\* However a message is passed on, write and writev are given its bytes.
LEMMA VectorsAre ==
  ASSUME NEW m \in Msgs, NEW data \in Vectors(m)
  PROVE  data \in Seq(Seq(Byte)) /\ FlattenSeq(data) = Bytes(m)
PROOF
<1>1. PICK b : b = Bytes(m)
  OBVIOUS
<1>2. b \in Seq(Byte)
  BY <1>1, BytesType
<1>3. <<b>> \in Seq(Seq(Byte)) /\ FlattenSeq(<<b>>) = b
  BY <1>2, FlattenOne
<1>4. CASE data = <<b>>
  BY <1>1, <1>3, <1>4
<1>5. CASE ~SplitPanics /\ data = SplitDataForWritev(b)
  <2>1. CASE MsgLen <= ChunkSize
    <3>1. data = <<b>>
      BY <1>5, <2>1 DEF SplitDataForWritev
    <3> QED BY <1>1, <1>3, <3>1
  <2>2. CASE ~(MsgLen <= ChunkSize)
    <3>1. MsgLen > ChunkSize
      BY <2>2, ConnAssumption
    <3> QED BY <1>1, <1>5, <3>1, SplitIs
  <2> QED BY <2>1, <2>2
<1> QED BY <1>1, <1>4, <1>5 DEF Vectors

-----------------------------------------------------------------------------
(* Where the bytes are *)

\* What is in a sequence, and that nothing is in it twice.
Content(s) == {s[i] : i \in 1..Len(s)}
Distinct(s) == \A i, j \in 1..Len(s) : s[i] = s[j] => i = j

\* Two sequences with nothing in common, one behind the other.
LEMMA JoinDistinct ==
  ASSUME NEW A, NEW u \in Seq(A), NEW v \in Seq(A), Distinct(u), Distinct(v),
         Content(u) \cap Content(v) = {}
  PROVE  Distinct(u \o v)
PROOF
<1>1. PICK w : w = u \o v
  OBVIOUS
<1>2. w \in Seq(A) /\ Joined(u, v, w)
  BY <1>1, ConcatParts
<1>3. PICK a, b : a = Len(u) /\ b = Len(v)
  OBVIOUS
<1>4. /\ a \in Nat /\ b \in Nat /\ Len(w) = a + b
      /\ \A k \in 1..a : w[k] = u[k]
      /\ \A k \in 1..b : w[a + k] = v[k]
  BY <1>2, <1>3 DEF Joined
<1>5. \A i \in 1..a, j \in 1..b : u[i] # v[j]
  BY <1>3 DEF Content
<1>6. ASSUME NEW i \in 1..(a + b)
      PROVE  (i \in 1..a /\ w[i] = u[i]) \/ (i - a \in 1..b /\ w[i] = v[i - a])
  <2>1. CASE i <= a
    BY <1>4, <2>1
  <2>2. CASE ~(i <= a)
    <3>1. i - a \in 1..b /\ a + (i - a) = i
      BY <1>4, <2>2
    <3> QED BY <1>4, <3>1
  <2> QED BY <2>1, <2>2
<1>7. ASSUME NEW i \in 1..(a + b), NEW j \in 1..(a + b), w[i] = w[j] PROVE i = j
  <2>1. CASE i \in 1..a /\ w[i] = u[i] /\ j \in 1..a /\ w[j] = u[j]
    BY <1>3, <1>7, <2>1 DEF Distinct
  <2>2. CASE i - a \in 1..b /\ w[i] = v[i - a] /\ j - a \in 1..b /\ w[j] = v[j - a]
    <3>1. i - a = j - a
      BY <1>3, <1>7, <2>2 DEF Distinct
    <3> QED BY <1>4, <3>1
  <2>3. CASE i \in 1..a /\ w[i] = u[i] /\ j - a \in 1..b /\ w[j] = v[j - a]
    BY <1>5, <1>7, <2>3
  <2>4. CASE i - a \in 1..b /\ w[i] = v[i - a] /\ j \in 1..a /\ w[j] = u[j]
    BY <1>5, <1>7, <2>4
  <2> QED BY <1>6, <2>1, <2>2, <2>3, <2>4
<1> QED BY <1>1, <1>4, <1>7 DEF Distinct

\* What two sequences hold, one behind the other.
LEMMA JoinContent ==
  ASSUME NEW A, NEW u \in Seq(A), NEW v \in Seq(A)
  PROVE  u \o v \in Seq(A) /\ Content(u \o v) = Content(u) \cup Content(v)
PROOF
<1>1. PICK w : w = u \o v
  OBVIOUS
<1>2. w \in Seq(A) /\ Joined(u, v, w)
  BY <1>1, ConcatParts
<1>3. PICK a, b : a = Len(u) /\ b = Len(v)
  OBVIOUS
<1>4. /\ a \in Nat /\ b \in Nat /\ Len(w) = a + b
      /\ \A k \in 1..a : k \in 1..(a + b) /\ w[k] = u[k]
      /\ \A k \in 1..b : a + k \in 1..(a + b) /\ w[a + k] = v[k]
  BY <1>2, <1>3 DEF Joined
<1>5. ASSUME NEW x \in Content(w) PROVE x \in Content(u) \cup Content(v)
  <2>1. PICK i \in 1..(a + b) : x = w[i]
    BY <1>4, <1>5 DEF Content
  <2>2. CASE i <= a
    BY <1>3, <1>4, <2>1, <2>2 DEF Content
  <2>3. CASE ~(i <= a)
    <3>1. i - a \in 1..b /\ a + (i - a) = i
      BY <1>4, <2>3
    <3>2. x = v[i - a]
      BY <1>4, <2>1, <3>1
    <3> QED BY <1>3, <3>1, <3>2 DEF Content
  <2> QED BY <2>2, <2>3
<1>6. ASSUME NEW x \in Content(u) \cup Content(v) PROVE x \in Content(w)
  <2>1. CASE x \in Content(u)
    <3>1. PICK i \in 1..a : x = u[i]
      BY <1>3, <2>1 DEF Content
    <3>2. i \in 1..Len(w) /\ x = w[i]
      BY <1>4, <3>1
    <3> QED BY <3>2 DEF Content
  <2>2. CASE x \in Content(v)
    <3>1. PICK i \in 1..b : x = v[i]
      BY <1>3, <2>2 DEF Content
    <3>2. a + i \in 1..Len(w) /\ x = w[a + i]
      BY <1>4, <3>1
    <3> QED BY <3>2 DEF Content
  <2> QED BY <1>6, <2>1, <2>2
<1> QED BY <1>1, <1>2, <1>5, <1>6

\* s is u and then v: both are in it, and have nothing in common.
Halves(s, u, v) ==
  /\ u \o v = s
  /\ Content(u) \subseteq Content(s) /\ Content(v) \subseteq Content(s)
  /\ Distinct(s) => Distinct(u) /\ Distinct(v) /\ Content(u) \cap Content(v) = {}

\* A sequence cut in two.
LEMMA CutDistinct ==
  ASSUME NEW A, NEW s \in Seq(A), NEW n \in 0..Len(s)
  PROVE  /\ SubSeq(s, 1, n) \in Seq(A) /\ SubSeq(s, n + 1, Len(s)) \in Seq(A)
         /\ Halves(s, SubSeq(s, 1, n), SubSeq(s, n + 1, Len(s)))
PROOF
<1> SUFFICES ASSUME NEW u, NEW v, u = SubSeq(s, 1, n), v = SubSeq(s, n + 1, Len(s))
             PROVE  u \in Seq(A) /\ v \in Seq(A) /\ Halves(s, u, v)
  BY Zenon
<1>1. PICK L : L = Len(s)
  OBVIOUS
<1>2. L \in Nat /\ n \in Nat /\ n <= L /\ n + 1 \in Nat \ {0} /\ n + 1 <= L + 1
  BY <1>1
<1>3. u \in Seq(A) /\ Cut(s, 1, n, u)
  BY <1>1, <1>2, CutParts
<1>4. v \in Seq(A) /\ Cut(s, n + 1, L, v)
  BY <1>1, <1>2, CutParts
<1>5. Len(u) = n /\ \A k \in 1..n : k \in 1..L /\ u[k] = s[k]
  BY <1>1, <1>2, <1>3 DEF Cut
<1>6. Len(v) = L - n /\ \A k \in 1..(L - n) : n + k \in 1..L /\ v[k] = s[n + k]
  BY <1>1, <1>2, <1>4 DEF Cut
<1>7. u \o v = s
  <2>1. PICK w : w = u \o v
    OBVIOUS
  <2>2. w \in Seq(A) /\ Joined(u, v, w)
    BY <1>3, <1>4, <2>1, ConcatParts
  <2>3. Len(w) = L
    BY <1>2, <1>5, <1>6, <2>2 DEF Joined
  <2>4. ASSUME NEW i \in 1..L PROVE w[i] = s[i]
    <3>1. CASE i <= n
      <4>1. i \in 1..n
        BY <1>2, <3>1
      <4>2. w[i] = u[i]
        BY <1>5, <2>2, <4>1 DEF Joined
      <4> QED BY <1>5, <4>1, <4>2
    <3>2. CASE ~(i <= n)
      <4>1. i - n \in 1..(L - n) /\ n + (i - n) = i
        BY <1>2, <3>2
      <4>2. w[n + (i - n)] = v[i - n]
        BY <1>5, <1>6, <2>2, <4>1 DEF Joined
      <4> QED BY <1>6, <4>1, <4>2
    <3> QED BY <3>1, <3>2
  <2> QED BY <1>1, <2>1, <2>2, <2>3, <2>4, SeqEqual
<1>8. Content(u) \subseteq Content(s) /\ Content(v) \subseteq Content(s)
  BY <1>1, <1>5, <1>6 DEF Content
<1>9. ASSUME Distinct(s)
      PROVE  Distinct(u) /\ Distinct(v) /\ Content(u) \cap Content(v) = {}
  <2>1. \A i, j \in 1..L : s[i] = s[j] => i = j
    BY <1>1, <1>9 DEF Distinct
  <2>2. Distinct(u)
    BY <1>5, <2>1 DEF Distinct
  <2>3. Distinct(v)
    <3>1. ASSUME NEW i \in 1..(L - n), NEW j \in 1..(L - n), v[i] = v[j] PROVE i = j
      <4>1. n + i = n + j
        BY <1>6, <2>1, <3>1, ZenonT(40)
      <4> QED BY <1>2, <4>1
    <3> QED BY <1>6, <3>1 DEF Distinct
  <2>4. ASSUME NEW x \in Content(u), x \in Content(v) PROVE FALSE
    <3>1. PICK i \in 1..n : x = u[i]
      BY <1>5 DEF Content
    <3>2. PICK j \in 1..(L - n) : x = v[j]
      BY <1>6, <2>4 DEF Content
    <3>3. i = n + j
      BY <1>5, <1>6, <2>1, <3>1, <3>2
    <3> QED BY <1>2, <3>3
  <2> QED BY <2>2, <2>3, <2>4
<1> QED BY <1>3, <1>4, <1>7, <1>8, <1>9 DEF Halves

\* The rest of a sequence after its first k elements, if it has as many.
LEMMA RestType ==
  ASSUME NEW A, NEW s \in Seq(A), NEW k \in Nat
  PROVE  /\ SubSeq(s, k + 1, Len(s)) \in Seq(A)
         /\ k <= Len(s) => Cut(s, k + 1, Len(s), SubSeq(s, k + 1, Len(s)))
         /\ k >= Len(s) => SubSeq(s, k + 1, Len(s)) = <<>>
PROOF
<1>1. Len(s) \in Nat /\ k + 1 \in Nat \ {0}
  OBVIOUS
<1>2. CASE k <= Len(s)
  <2>1. k + 1 <= Len(s) + 1
    BY <1>1, <1>2
  <2>2. SubSeq(s, k + 1, Len(s)) \in Seq(A) /\ Cut(s, k + 1, Len(s), SubSeq(s, k + 1, Len(s)))
    BY <1>1, <2>1, CutParts
  <2>3. k >= Len(s) => SubSeq(s, k + 1, Len(s)) = <<>>
    BY <1>1, SubSeqEmpty
  <2> QED BY <2>2, <2>3
<1>3. CASE ~(k <= Len(s))
  <2>1. SubSeq(s, k + 1, Len(s)) = <<>>
    BY <1>1, <1>3, SubSeqEmpty
  <2> QED BY <1>3, <2>1, EmptySeq
<1> QED BY <1>2, <1>3

-----------------------------------------------------------------------------
(* Types, and where the goroutines are *)

Returns == {"idle", "hook", "track", "onOpen", "closed", "addWrite"}

FlowTypeOK ==
  /\ pc \in [Threads -> ConnPC] /\ ret \in [Threads -> Returns]
  /\ rest \in [Threads -> Seq(Seq(Byte))]
  /\ out \in Seq(Byte) /\ wire \in Seq(Byte) /\ sent \in Seq(Byte)
  /\ room \in Nat

\* The places of a goroutine, and where its calls of write and Close may return to.
LabelsOf(t) ==
  IF t = "handler" THEN {"idle", "out", "in", "track", "closed", "discard"} \cup Busy
  ELSE IF t = "opener"
       THEN Unlisted \cup {"open", "onOpen", "closed", "addWrite", "idle"} \cup Busy
       ELSE {"idle", "done", "hook", "closed"} \cup Busy
BacksOf(t) ==
  IF t = "handler" THEN {"idle", "track", "closed"}
  ELSE IF t = "opener" THEN {"onOpen", "closed", "addWrite"} ELSE {"hook", "closed"}

\* Every goroutine is in a place of its own, and no task is under way while the handler is.
PlacesInv ==
  /\ \A t \in Threads : /\ pc[t] \in LabelsOf(t)
                        /\ pc[t] \in Busy \cup {"out", "in"} => ret[t] \in BacksOf(t)
  /\ handlerPC # "idle" => TasksIdle

\* t goes to another place; the others stay where they are.
OthersStay(t, to, r) ==
  /\ pc' = [pc EXCEPT ![t] = to] /\ ret' = [ret EXCEPT ![t] = r]
  /\ pc'[t] = to /\ \A u \in Threads : u # t => pc'[u] = pc[u]
  /\ ret'[t] = r /\ \A u \in Threads : u # t => ret'[u] = ret[u]

\* A goroutine that goes on.
LEMMA OthersDoStay ==
  ASSUME FlowTypeOK, NEW t \in Threads, NEW to, NEW r, pc' = [pc EXCEPT ![t] = to],
         ret' = [ret EXCEPT ![t] = r]
  PROVE  OthersStay(t, to, r)
PROOF BY DEF FlowTypeOK, OthersStay

\* The same for a step that keeps its return label.
LEMMA OthersStayHere ==
  ASSUME FlowTypeOK, NEW t \in Threads, NEW to, pc' = [pc EXCEPT ![t] = to], ret' = ret
  PROVE  OthersStay(t, to, ret[t])
PROOF BY DEF FlowTypeOK, OthersStay

\* The steps that leave the life of the connection alone, and those of t that may add an
\* error of Open.
LifeKept == UNCHANGED <<ctx, owner, listed, count, opened, closes, overlapped>>
ErrorOf(t) == (openErr => openErr') /\ (t # "opener" => (openErr' => openErr))

\* A step of write: it goes on, returns, or finds that the descriptor is gone.
LEMMA WriteMoves ==
  ASSUME FlowTypeOK, NEW t \in Threads, Write(t)
  PROVE  /\ pc[t] \in Writing /\ LifeKept /\ ErrorOf(t)
         /\ disturbed' = disturbed /\ peer' = peer /\ sent' = sent
         /\ foreign' => foreign \/ owner = "other"
         /\ \E to : /\ OthersStay(t, to, ret[t])
                    /\ \/ to \in Writing \/ to = ret[t]
                       \/ to = "close" /\ (owner # "self" \/ peer = "reset")
PROOF
<1>1. pc[t] \in Writing /\ ret' = ret
  BY DEF Write, WriteCheck, WriteSys, WriteBuffer, WriteModify, CGoto, Writing
<1>2. /\ LifeKept /\ disturbed' = disturbed /\ peer' = peer /\ sent' = sent
      /\ foreign' => foreign \/ owner = "other"
  <2> USE DEF LifeKept, lvars, kvars, wvars, hist
  <2>1. CASE WriteCheck(t)
    BY <2>1 DEF WriteCheck
  <2>2. CASE WriteBuffer(t)
    BY <2>2 DEF WriteBuffer
  <2>3. CASE WriteSys(t)
    <3>1. LifeKept /\ disturbed' = disturbed /\ peer' = peer /\ sent' = sent
      BY <2>3 DEF WriteSys
    <3>2. foreign' => foreign \/ owner = "other"
      BY <2>3, Zenon DEF WriteSys
    <3> QED BY <3>1, <3>2
  <2>4. CASE WriteModify(t)
    BY <2>4 DEF WriteModify
  <2> QED BY <2>1, <2>2, <2>3, <2>4 DEF Write
<1>3. ErrorOf(t)
  <2>1. CASE WriteCheck(t) \/ WriteBuffer(t) \/ WriteSys(t)
    BY <2>1 DEF WriteCheck, WriteBuffer, WriteSys, ErrorOf, lvars
  <2>2. CASE WriteModify(t)
    BY <2>2, Zenon DEF WriteModify, ErrorOf, Returning
  <2> QED BY <2>1, <2>2 DEF Write
<1>4. PICK to : /\ pc' = [pc EXCEPT ![t] = to]
                /\ \/ to \in Writing \/ to = ret[t]
                   \/ to = "close" /\ (owner # "self" \/ peer = "reset")
  <2>1. CASE WriteCheck(t)
    BY <2>1 DEF WriteCheck, CGoto, Writing
  <2>2. CASE WriteSys(t)
    BY <2>2 DEF WriteSys, Writing
  <2>3. CASE WriteBuffer(t)
    BY <2>3 DEF WriteBuffer, Writing
  <2>4. CASE WriteModify(t)
    BY <2>4 DEF WriteModify, CGoto
  <2> QED BY <2>1, <2>2, <2>3, <2>4 DEF Write
<1>5. OthersStay(t, to, ret[t])
  BY <1>1, <1>4, OthersStayHere
<1> QED BY <1>1, <1>2, <1>3, <1>4, <1>5

\* A step of Close: it goes on, or returns.
LEMMA CloseMoves ==
  ASSUME FlowTypeOK, NEW t \in Threads, Close(t)
  PROVE  /\ pc[t] \in Closing \cup {"close"} /\ ErrorOf(t)
         /\ disturbed' = disturbed /\ peer' = peer /\ sent' = sent
         /\ foreign' => foreign \/ owner = "other"
         /\ \E to : OthersStay(t, to, ret[t]) /\ (to \in Closing \/ to = ret[t])
PROOF
<1>1. /\ pc[t] \in Closing \cup {"close"} /\ ret' = ret
      /\ disturbed' = disturbed /\ peer' = peer /\ sent' = sent
  BY DEF Close, CloseTest, CloseFlush, CloseFlushed, CloseRemove, CloseUnlist, CloseNotify,
         CloseRelease, CGoto, Closing, kvars, wvars, hist
<1>2. foreign' => foreign \/ owner = "other"
  BY DEF Close, CloseTest, CloseFlush, CloseFlushed, CloseRemove, CloseUnlist, CloseNotify,
         CloseRelease
<1>3. ErrorOf(t)
  <2>1. CASE CloseTest(t) \/ CloseFlush(t) \/ CloseFlushed(t) \/ CloseUnlist(t) \/ CloseRelease(t)
    BY <2>1 DEF CloseTest, CloseFlush, CloseFlushed, CloseUnlist, CloseRelease, ErrorOf
  <2>2. CASE CloseRemove(t)
    BY <2>2, Zenon DEF CloseRemove, ErrorOf, Returning
  <2>3. CASE CloseNotify(t)
    BY <2>3, Zenon DEF CloseNotify, ErrorOf, Returning
  <2> QED BY <1>1, <2>1, <2>2, <2>3 DEF Close
<1>4. PICK to : pc' = [pc EXCEPT ![t] = to] /\ (to \in Closing \/ to = ret[t])
  BY DEF Close, CloseTest, CloseFlush, CloseFlushed, CloseRemove, CloseUnlist, CloseNotify,
         CloseRelease, CGoto, Closing
<1>5. OthersStay(t, to, ret[t])
  BY <1>1, <1>4, OthersStayHere
<1> QED BY <1>1, <1>2, <1>3, <1>4, <1>5

\* A call of write or writev by user code, and where user code ends.
UserCalls(t, r) == \E m \in MsgsOf(t) : Unwritten(m) /\ Call(t, m, pc[t], r)
UserEnd(t) == IF t = "handler" THEN "idle" ELSE IF t = "opener" THEN "addWrite" ELSE "done"

UserGoes(t, to, r) ==
  \/ /\ to = "write" /\ (r = pc[t] \/ (t = "opener" /\ r = "addWrite"))
     /\ pc[t] = "closed" => disturbed'
     /\ UserCalls(t, r)
  \/ /\ to = "close" /\ r = "closed" /\ (t # "handler" => disturbed')
     /\ UNCHANGED <<out, rest, wire, sent, room>>
  \/ /\ to = UserEnd(t) /\ r = ret[t]
     /\ UNCHANGED <<out, rest, wire, sent, room>>

\* User code writes, closes or returns.
LEMMA UserMoves ==
  ASSUME FlowTypeOK, NEW t \in Threads, User(t)
  PROVE  /\ pc[t] \in {UserLabel(t), "closed"} /\ LifeKept
         /\ openErr' = openErr /\ foreign' = foreign /\ peer' = peer /\ raced' = raced
         /\ disturbed => disturbed'
         /\ \E to, r : OthersStay(t, to, r) /\ UserGoes(t, to, r)
PROOF
<1>1. ASSUME NEW m, NEW l, NEW r, Call(t, m, l, r)
      PROVE  /\ OthersStay(t, "write", r) /\ pc[t] = l /\ LifeKept
             /\ openErr' = openErr /\ foreign' = foreign /\ peer' = peer /\ raced' = raced
             /\ (disturbed => disturbed') /\ (l = "closed" => disturbed')
  <2>1. pc[t] = l /\ pc' = [pc EXCEPT ![t] = "write"] /\ ret' = [ret EXCEPT ![t] = r]
    BY <1>1 DEF Call, CGoto
  <2>2. OthersStay(t, "write", r)
    BY <2>1, OthersDoStay
  <2>3. /\ LifeKept /\ openErr' = openErr /\ foreign' = foreign /\ peer' = peer /\ raced' = raced
        /\ disturbed' = (disturbed \/ l = "closed")
    BY <1>1 DEF Call, LifeKept, kvars
  <2> QED BY <2>1, <2>2, <2>3
<1>2. CASE UserWrite(t)
  <2>1. PICK m \in MsgsOf(t), l \in {UserLabel(t), "closed"} : Unwritten(m) /\ Call(t, m, l, l)
    BY <1>2 DEF UserWrite
  <2>2. /\ OthersStay(t, "write", l) /\ pc[t] = l /\ LifeKept
        /\ openErr' = openErr /\ foreign' = foreign /\ peer' = peer /\ raced' = raced
        /\ (disturbed => disturbed') /\ (l = "closed" => disturbed')
    BY <1>1, <2>1
  <2>3. UserCalls(t, l)
    BY <2>1, <2>2, Zenon DEF UserCalls
  <2>4. pc[t] \in {UserLabel(t), "closed"} /\ l = pc[t]
    BY <2>1, <2>2
  <2>5. UserGoes(t, "write", l)
    BY <2>2, <2>3, <2>4 DEF UserGoes
  <2> QED BY <2>2, <2>4, <2>5
<1>3. CASE UserClose(t)
  <2>1. /\ pc[t] \in {UserLabel(t), "closed"} /\ pc' = [pc EXCEPT ![t] = "close"]
        /\ ret' = [ret EXCEPT ![t] = "closed"] /\ disturbed' = (disturbed \/ t # "handler")
        /\ LifeKept /\ openErr' = openErr /\ foreign' = foreign /\ peer' = peer /\ raced' = raced
        /\ UNCHANGED <<out, rest, wire, sent, room>>
    BY <1>3 DEF UserClose, LifeKept, kvars, wvars
  <2>2. OthersStay(t, "close", "closed")
    BY <2>1, OthersDoStay
  <2>3. UserGoes(t, "close", "closed")
    BY <2>1 DEF UserGoes
  <2> QED BY <2>1, <2>2, <2>3
<1>4. CASE UserReturn(t)
  <2>1. CASE /\ pc[t] \in {UserLabel(t), "closed"}
             /\ pc' = [pc EXCEPT ![t] = IF t = "handler" THEN "idle"
                                ELSE IF t = "opener" THEN "addWrite" ELSE "done"]
             /\ UNCHANGED <<wvars, kvars, lvars, ret>>
    <3>1. PICK to : to = UserEnd(t)
      OBVIOUS
    <3>2. pc' = [pc EXCEPT ![t] = to] /\ ret' = ret
      BY <2>1, <3>1 DEF UserEnd
    <3>3. OthersStay(t, to, ret[t])
      BY <3>2, OthersStayHere
    <3>4. /\ LifeKept /\ openErr' = openErr /\ foreign' = foreign /\ peer' = peer /\ raced' = raced
          /\ disturbed' = disturbed /\ UNCHANGED <<out, rest, wire, sent, room>>
      BY <2>1 DEF LifeKept, lvars, kvars, wvars, hist
    <3>5. UserGoes(t, to, ret[t])
      BY <3>1, <3>4 DEF UserGoes
    <3> QED BY <2>1, <3>3, <3>4, <3>5
  <2>2. CASE /\ t = "opener"
             /\ \E m \in OpenMsgs : \E l \in {"onOpen", "closed"} :
                  Unwritten(m) /\ Call(t, m, l, "addWrite")
    <3>1. PICK m \in OpenMsgs, l \in {"onOpen", "closed"} :
            Unwritten(m) /\ Call(t, m, l, "addWrite")
      BY <2>2
    <3>2. MsgsOf(t) = OpenMsgs /\ UserLabel(t) = "onOpen"
      BY <2>2 DEF MsgsOf, UserLabel
    <3>3. /\ OthersStay(t, "write", "addWrite") /\ pc[t] = l /\ LifeKept
          /\ openErr' = openErr /\ foreign' = foreign /\ peer' = peer /\ raced' = raced
          /\ (disturbed => disturbed') /\ (l = "closed" => disturbed')
      BY <1>1, <3>1
    <3>4. UserCalls(t, "addWrite")
      BY <3>1, <3>2, <3>3, Zenon DEF UserCalls
    <3>5. UserGoes(t, "write", "addWrite")
      BY <2>2, <3>1, <3>3, <3>4 DEF UserGoes
    <3>6. pc[t] \in {UserLabel(t), "closed"}
      BY <3>1, <3>2, <3>3
    <3> QED BY <3>3, <3>5, <3>6
  <2> QED BY <1>4, <2>1, <2>2 DEF UserReturn
<1> QED BY <1>2, <1>3, <1>4 DEF User

\* The steps of the handler outside write, Close and OnTrack.
Event == FetchOut \/ FetchIn \/ FetchClosed \/ EventOut \/ EventDiscard \/ EventIn

EventGoes(to, r) ==
  \/ handlerPC = "idle" /\ listed /\ TasksIdle /\ to \in {"out", "in", "close"} /\ r = "idle"
  \/ /\ handlerPC = "out" /\ r = ret["handler"]
     /\ to \in {"idle", "discard"} \/ (to = "close" /\ (owner # "self" \/ peer = "reset"))
  \/ handlerPC = "discard" /\ to = "idle" /\ r = ret["handler"]
  \/ handlerPC = "in" /\ to \in {"track", "close", "idle"} /\ r = ret["handler"]

\* An event is fetched, and handled.
LEMMA EventMoves ==
  ASSUME FlowTypeOK, Event
  PROVE  /\ LifeKept /\ openErr' = openErr /\ disturbed' = disturbed /\ peer' = peer
         /\ sent' = sent /\ (foreign' => foreign \/ owner = "other")
         /\ \E to, r : OthersStay("handler", to, r) /\ EventGoes(to, r)
PROOF
<1>1. "handler" \in Threads
  BY ThreadsDiffer
<1>2. ASSUME NEW e, NEW l \in {"out", "in", "close"}, Fetch(e, l)
      PROVE  /\ LifeKept /\ openErr' = openErr /\ disturbed' = disturbed /\ peer' = peer
             /\ sent' = sent /\ (foreign' => foreign \/ owner = "other")
             /\ \E to, r : OthersStay("handler", to, r) /\ EventGoes(to, r)
  <2>1. /\ LifeKept /\ openErr' = openErr /\ disturbed' = disturbed /\ peer' = peer
        /\ sent' = sent /\ foreign' = foreign
    BY <1>2 DEF Fetch, LifeKept, lvars, kvars, wvars, hist
  <2>2. /\ handlerPC = "idle" /\ listed /\ TasksIdle
        /\ pc' = [pc EXCEPT !["handler"] = l] /\ ret' = [ret EXCEPT !["handler"] = "idle"]
    BY <1>2 DEF Fetch, handlerPC
  <2>3. OthersStay("handler", l, "idle")
    BY <1>1, <2>2, OthersDoStay
  <2>4. EventGoes(l, "idle")
    BY <2>2 DEF EventGoes
  <2> QED BY <2>1, <2>3, <2>4
<1>3. CASE FetchOut \/ FetchIn \/ FetchClosed
  BY <1>2, <1>3 DEF FetchOut, FetchIn, FetchClosed
<1>4. ASSUME ret' = ret, NEW to, pc' = [pc EXCEPT !["handler"] = to], EventGoes(to, ret["handler"])
      PROVE  \E k, r : OthersStay("handler", k, r) /\ EventGoes(k, r)
  BY <1>1, <1>4, OthersStayHere
<1>5. CASE EventOut
  <2>1. /\ LifeKept /\ openErr' = openErr /\ disturbed' = disturbed /\ peer' = peer
        /\ sent' = sent /\ ret' = ret /\ handlerPC = "out"
    BY <1>5 DEF EventOut, LifeKept, kvars, handlerPC
  <2>2. foreign' => foreign \/ owner = "other"
    BY <1>5, Zenon DEF EventOut
  <2>3. PICK to : /\ pc' = [pc EXCEPT !["handler"] = to]
                  /\ to \in {"idle", "discard"} \/ (to = "close" /\ (owner # "self" \/ peer = "reset"))
    BY <1>5 DEF EventOut
  <2>4. EventGoes(to, ret["handler"])
    BY <2>1, <2>3 DEF EventGoes
  <2>5. \E k, r : OthersStay("handler", k, r) /\ EventGoes(k, r)
    BY <1>4, <2>1, <2>3, <2>4
  <2> QED BY <2>1, <2>2, <2>5
<1>6. CASE EventDiscard
  <2>1. /\ LifeKept /\ openErr' = openErr /\ disturbed' = disturbed /\ peer' = peer
        /\ sent' = sent /\ ret' = ret /\ handlerPC = "discard"
        /\ pc' = [pc EXCEPT !["handler"] = "idle"]
    BY <1>6 DEF EventDiscard, CGoto, LifeKept, kvars, handlerPC
  <2>2. foreign' => foreign \/ owner = "other"
    BY <1>6 DEF EventDiscard
  <2>3. EventGoes("idle", ret["handler"])
    BY <2>1 DEF EventGoes
  <2>4. \E k, r : OthersStay("handler", k, r) /\ EventGoes(k, r)
    BY <1>4, <2>1, <2>3
  <2> QED BY <2>1, <2>2, <2>4
<1>7. CASE EventIn
  <2>1. /\ LifeKept /\ openErr' = openErr /\ disturbed' = disturbed /\ peer' = peer
        /\ sent' = sent /\ ret' = ret /\ handlerPC = "in"
    BY <1>7 DEF EventIn, LifeKept, hist, wvars, handlerPC
  <2>2. foreign' => foreign \/ owner = "other"
    BY <1>7 DEF EventIn
  <2>3. PICK to : pc' = [pc EXCEPT !["handler"] = to] /\ to \in {"track", "close", "idle"}
    BY <1>7 DEF EventIn
  <2>4. EventGoes(to, ret["handler"])
    BY <2>1, <2>3 DEF EventGoes
  <2>5. \E k, r : OthersStay("handler", k, r) /\ EventGoes(k, r)
    BY <1>4, <2>1, <2>3, <2>4
  <2> QED BY <2>1, <2>2, <2>5
<1> QED BY <1>3, <1>5, <1>6, <1>7 DEF Event

\* The steps of RegisterConn and Open outside write, Close and OnOpen.
Registers ==
  RegisterRead \/ RegisterFails \/ RegisterContext \/ RegisterList \/ OpenMark \/ OpenCount

\* RegisterConn and Open go from one place to the next.
LEMMA RegisterMoves ==
  ASSUME FlowTypeOK, Registers
  PROVE  /\ closes' = closes /\ overlapped' = overlapped /\ disturbed' = disturbed
         /\ peer' = peer /\ foreign' = foreign /\ UNCHANGED <<out, rest, wire, sent, room>>
         /\ openerPC \in Unlisted \cup {"open", "addWrite"}
         /\ \E to \in Unlisted \cup {"open", "onOpen", "idle"} :
              OthersStay("opener", to, ret["opener"])
PROOF
<1>1. "opener" \in Threads
  BY ThreadsDiffer
<1>2. /\ closes' = closes /\ overlapped' = overlapped /\ disturbed' = disturbed
      /\ peer' = peer /\ foreign' = foreign /\ UNCHANGED <<out, rest, wire, sent, room>>
      /\ ret' = ret
  BY DEF Registers, RegisterRead, RegisterFails, RegisterContext, RegisterList, OpenMark, OpenCount,
         lvars, kvars, wvars, hist
<1>3. PICK to \in Unlisted \cup {"open", "onOpen", "idle"} : pc' = [pc EXCEPT !["opener"] = to]
  BY DEF Registers, RegisterRead, RegisterFails, RegisterContext, RegisterList, OpenMark, OpenCount,
         CGoto, Unlisted
<1>4. openerPC \in Unlisted \cup {"open", "addWrite"}
  BY DEF Registers, RegisterRead, RegisterFails, RegisterContext, RegisterList, OpenMark, OpenCount,
         CGoto, Unlisted, openerPC
<1>5. OthersStay("opener", to, ret["opener"])
  BY <1>1, <1>2, <1>3, OthersStayHere
<1> QED BY <1>2, <1>4, <1>5

TaskGoes(t, to, r) ==
  \/ to = "write" /\ r = "hook" /\ opened /\ Call(t, t, "idle", "hook")
  \/ to = "done" /\ r = ret[t] /\ UNCHANGED <<out, rest, wire, sent, room>>

\* The sub loop submits a task.
LEMMA TaskMoves ==
  ASSUME FlowTypeOK, NEW t \in TaskMsgs, TaskStart(t)
  PROVE  /\ pc[t] = "idle" /\ handlerPC = "idle" /\ LifeKept
         /\ openErr' = openErr /\ foreign' = foreign /\ peer' = peer /\ raced' = raced
         /\ disturbed => disturbed'
         /\ \E to, r : OthersStay(t, to, r) /\ TaskGoes(t, to, r)
PROOF
<1>1. t \in Threads /\ handlerPC = "idle"
  BY ThreadsDiffer DEF TaskStart, handlerPC
<1>2. CASE opened /\ Call(t, t, "idle", "hook")
  <2>1. /\ pc[t] = "idle" /\ pc' = [pc EXCEPT ![t] = "write"] /\ ret' = [ret EXCEPT ![t] = "hook"]
        /\ LifeKept /\ openErr' = openErr /\ foreign' = foreign /\ peer' = peer /\ raced' = raced
        /\ disturbed' = (disturbed \/ "idle" = "closed")
    BY <1>2 DEF Call, CGoto, LifeKept, kvars
  <2>2. OthersStay(t, "write", "hook")
    BY <1>1, <2>1, OthersDoStay
  <2>3. TaskGoes(t, "write", "hook")
    BY <1>2 DEF TaskGoes
  <2> QED BY <1>1, <2>1, <2>2, <2>3
<1>3. CASE CGoto(t, "idle", "done") /\ UNCHANGED <<wvars, kvars, lvars, ret>>
  <2>1. /\ pc[t] = "idle" /\ pc' = [pc EXCEPT ![t] = "done"] /\ ret' = ret
        /\ LifeKept /\ openErr' = openErr /\ foreign' = foreign /\ peer' = peer /\ raced' = raced
        /\ disturbed' = disturbed /\ UNCHANGED <<out, rest, wire, sent, room>>
    BY <1>3 DEF CGoto, LifeKept, lvars, kvars, wvars, hist
  <2>2. OthersStay(t, "done", ret[t])
    BY <1>1, <2>1, OthersStayHere
  <2>3. TaskGoes(t, "done", ret[t])
    BY <2>1 DEF TaskGoes
  <2> QED BY <1>1, <2>1, <2>2, <2>3
<1> QED BY <1>2, <1>3 DEF TaskStart

\* The steps of the peer and the kernel, and stuttering.
Environment == PeerSends \/ PeerReads \/ PeerFin \/ PeerReset \/ FdReused \/ UNCHANGED cvars

\* They leave the goroutines and the buffers alone.
LEMMA EnvironmentStays ==
  ASSUME Environment
  PROVE  /\ pc' = pc /\ ret' = ret /\ UNCHANGED <<out, rest, wire, sent>>
         /\ room' \in {room, SndBuf}
         /\ UNCHANGED <<ctx, listed, count, opened, closes, overlapped, openErr, foreign, raced>>
         /\ UNCHANGED <<interest, kFilters, backend>>
         /\ owner' = owner \/ (owner = "none" /\ owner' = "other" /\ openerPC = "idle")
         /\ \/ peer' = peer /\ disturbed' = disturbed
            \/ peer' = "fin" /\ disturbed' = disturbed
            \/ peer' = "reset" /\ disturbed' = TRUE /\ CanReset
PROOF
<1>1. CASE PeerSends \/ PeerReads \/ PeerFin
  BY <1>1 DEF PeerSends, PeerReads, PeerFin, lvars, kvars, wvars, hist
<1>2. CASE PeerReset \/ FdReused
  BY <1>2 DEF PeerReset, FdReused, lvars, kvars, wvars, hist, openerPC
<1>3. CASE UNCHANGED cvars
  BY <1>3 DEF cvars, lvars, kvars, wvars, hist
<1> QED BY <1>1, <1>2, <1>3 DEF Environment

\* Every step is one of these.
LEMMA StepCases ==
  ASSUME [CNext]_cvars
  PROVE  \/ Registers \/ Event \/ Environment
         \/ \E t \in TaskMsgs : TaskStart(t)
         \/ \E t \in Threads : User(t) \/ Write(t) \/ Close(t)
PROOF
<1>1. "handler" \in Threads /\ "opener" \in Threads /\ TaskMsgs \subseteq Threads
  BY ThreadsDiffer
<1>2. CASE Opener
  BY <1>1, <1>2 DEF Opener, Registers
<1>3. CASE Handler
  BY <1>1, <1>3 DEF Handler, Event
<1>4. CASE \E t \in TaskMsgs : TaskStart(t) \/ User(t)
  BY <1>1, <1>4
<1>5. CASE \E t \in Threads : Step(t)
  BY <1>5 DEF Step
<1>6. CASE PeerSends \/ PeerReads \/ PeerFin \/ PeerReset \/ FdReused \/ UNCHANGED cvars
  BY <1>6 DEF Environment
<1> QED BY <1>2, <1>3, <1>4, <1>5, <1>6 DEF CNext

\* A goroutine goes to another of its places.
LEMMA PlacesMove ==
  ASSUME FlowTypeOK, PlacesInv, NEW t \in Threads, NEW to, NEW r, OthersStay(t, to, r),
         to \in LabelsOf(t), r \in Returns,
         to \in Busy \cup {"out", "in"} => r \in BacksOf(t),
         t = "handler" /\ to # "idle" => handlerPC # "idle" \/ TasksIdle,
         t \in TaskMsgs /\ to \notin {"idle", "done"} => handlerPC = "idle"
  PROVE  PlacesInv' /\ pc' \in [Threads -> ConnPC] /\ ret' \in [Threads -> Returns]
PROOF
<1>1. to \in ConnPC
  BY DEF LabelsOf, ConnPC, Busy, Writing, Closing, Unlisted
<1>2. pc' \in [Threads -> ConnPC] /\ ret' \in [Threads -> Returns]
  BY <1>1 DEF OthersStay, FlowTypeOK
<1>3. /\ pc'[t] = to /\ ret'[t] = r
      /\ \A u \in Threads : u # t => pc'[u] = pc[u] /\ ret'[u] = ret[u]
  BY DEF OthersStay
<1>4. \A u \in Threads : /\ pc'[u] \in LabelsOf(u)
                         /\ pc'[u] \in Busy \cup {"out", "in"} => ret'[u] \in BacksOf(u)
  BY <1>3 DEF PlacesInv
<1>5. handlerPC' # "idle" => TasksIdle'
  BY <1>3, ThreadsDiffer DEF PlacesInv, TasksIdle, handlerPC
<1> QED BY <1>2, <1>4, <1>5 DEF PlacesInv

\* A goroutine that is inside a call goes on, or returns.
LEMMA PlacesCall ==
  ASSUME FlowTypeOK, PlacesInv, NEW t \in Threads, NEW to, OthersStay(t, to, ret[t]),
         pc[t] \in Busy, to \in Busy \/ to = ret[t]
  PROVE  PlacesInv' /\ pc' \in [Threads -> ConnPC] /\ ret' \in [Threads -> Returns]
PROOF
<1>1. ret[t] \in BacksOf(t) /\ ret[t] \in Returns
  BY DEF PlacesInv, FlowTypeOK
<1>2. to \in LabelsOf(t)
  BY <1>1 DEF LabelsOf, BacksOf
<1>3. t = "handler" => handlerPC # "idle"
  BY DEF handlerPC, Busy, Writing, Closing
<1>4. t \in TaskMsgs => handlerPC = "idle"
  BY DEF PlacesInv, TasksIdle, Busy, Writing, Closing
<1> QED BY <1>1, <1>2, <1>3, <1>4, PlacesMove

\* Every step keeps the goroutines in their places.
LEMMA PlacesStep ==
  ASSUME FlowTypeOK, PlacesInv, [CNext]_cvars
  PROVE  PlacesInv' /\ pc' \in [Threads -> ConnPC] /\ ret' \in [Threads -> Returns]
PROOF
<1>1. "handler" \in Threads /\ "opener" \in Threads /\ TaskMsgs \subseteq Threads
  BY ThreadsDiffer
<1>2. "write" \in Busy /\ "close" \in Busy
      /\ \A s \in {"idle", "discard", "track", "onOpen", "open", "addWrite", "done"} \cup Unlisted :
           s \notin Busy \cup {"out", "in"}
  BY DEF Busy, Writing, Closing, Unlisted
<1>3. \A t \in Threads : ret[t] \in Returns
  BY DEF FlowTypeOK
<1>4. CASE Registers
  <2>1. PICK to \in Unlisted \cup {"open", "onOpen", "idle"} : OthersStay("opener", to, ret["opener"])
    BY <1>4, RegisterMoves
  <2>2. to \in LabelsOf("opener") /\ to \notin Busy \cup {"out", "in"}
    BY <1>2 DEF LabelsOf
  <2>3. "opener" \notin TaskMsgs
    BY ThreadsDiffer
  <2> QED BY <1>1, <1>3, <2>1, <2>2, <2>3, PlacesMove
<1>5. CASE Event
  <2>1. PICK to, r : OthersStay("handler", to, r) /\ EventGoes(to, r)
    BY <1>5, EventMoves
  <2>2. to \in LabelsOf("handler")
    BY <1>2, <2>1 DEF EventGoes, LabelsOf
  <2>3. handlerPC \in {"out", "in"} => ret["handler"] \in BacksOf("handler")
    BY <1>1 DEF PlacesInv, handlerPC
  <2>4. to \in Busy \cup {"out", "in"} => r \in BacksOf("handler")
    BY <1>2, <2>1, <2>3 DEF EventGoes, BacksOf
  <2>5. r \in Returns /\ (handlerPC # "idle" \/ TasksIdle)
    BY <1>1, <1>3, <2>1 DEF EventGoes, Returns
  <2>6. "handler" \notin TaskMsgs
    BY ThreadsDiffer
  <2> QED BY <1>1, <2>1, <2>2, <2>4, <2>5, <2>6, PlacesMove
<1>6. CASE Environment
  <2>1. pc' = pc /\ ret' = ret
    BY <1>6, EnvironmentStays
  <2> QED BY <2>1 DEF PlacesInv, FlowTypeOK, handlerPC, TasksIdle
<1>7. CASE \E t \in TaskMsgs : TaskStart(t)
  <2>1. PICK t \in TaskMsgs : TaskStart(t)
    BY <1>7
  <2>2. t \in Threads /\ t # "handler" /\ t # "opener"
    BY ThreadsDiffer
  <2>3. handlerPC = "idle"
    BY <2>1, TaskMoves
  <2>4. PICK to, r : OthersStay(t, to, r) /\ TaskGoes(t, to, r)
    BY <2>1, TaskMoves
  <2>5. (to = "write" /\ r = "hook") \/ (to = "done" /\ r = ret[t])
    BY <2>4 DEF TaskGoes
  <2>6. to \in LabelsOf(t) /\ r \in Returns /\ (to \in Busy \cup {"out", "in"} => r \in BacksOf(t))
    BY <1>2, <1>3, <2>2, <2>5 DEF LabelsOf, BacksOf, Returns
  <2> QED BY <2>2, <2>3, <2>4, <2>6, PlacesMove
<1>8. CASE \E t \in Threads : User(t)
  <2>1. PICK t \in Threads : User(t)
    BY <1>8
  <2>2. pc[t] \in {UserLabel(t), "closed"}
    BY <2>1, UserMoves
  <2>3. PICK to, r : OthersStay(t, to, r) /\ UserGoes(t, to, r)
    BY <2>1, UserMoves
  <2>4. \/ to = "write" /\ (r = pc[t] \/ (t = "opener" /\ r = "addWrite"))
        \/ to = "close" /\ r = "closed"
        \/ to = UserEnd(t) /\ r = ret[t]
    BY <2>3 DEF UserGoes
  <2>5. to \in LabelsOf(t) /\ r \in Returns /\ (to \in Busy \cup {"out", "in"} => r \in BacksOf(t))
    <3>1. CASE t = "handler"
      BY <1>2, <1>3, <2>2, <2>4, <3>1 DEF LabelsOf, BacksOf, Returns, UserEnd, UserLabel
    <3>2. CASE t = "opener"
      BY <1>2, <1>3, <2>2, <2>4, <3>2 DEF LabelsOf, BacksOf, Returns, UserEnd, UserLabel
    <3>3. CASE t \in TaskMsgs /\ t # "handler" /\ t # "opener"
      BY <1>2, <1>3, <2>2, <2>4, <3>3 DEF LabelsOf, BacksOf, Returns, UserEnd, UserLabel
    <3> QED BY <3>1, <3>2, <3>3, ThreadsDiffer DEF Threads
  <2>6. t = "handler" => handlerPC # "idle"
    BY <2>2 DEF handlerPC, UserLabel
  <2>7. t \in TaskMsgs => handlerPC = "idle"
    BY <2>2, ThreadsDiffer DEF PlacesInv, TasksIdle, UserLabel
  <2> QED BY <2>1, <2>3, <2>5, <2>6, <2>7, PlacesMove
<1>9. CASE \E t \in Threads : Write(t)
  <2>1. PICK t \in Threads : Write(t)
    BY <1>9
  <2>2. pc[t] \in Writing
    BY <2>1, WriteMoves
  <2>3. PICK to : /\ OthersStay(t, to, ret[t])
                  /\ \/ to \in Writing \/ to = ret[t]
                     \/ to = "close" /\ (owner # "self" \/ peer = "reset")
    BY <2>1, WriteMoves
  <2>4. pc[t] \in Busy /\ (to \in Busy \/ to = ret[t])
    BY <1>2, <2>2, <2>3 DEF Busy
  <2> QED BY <2>3, <2>4, PlacesCall
<1>10. CASE \E t \in Threads : Close(t)
  <2>1. PICK t \in Threads : Close(t)
    BY <1>10
  <2>2. pc[t] \in Closing \cup {"close"}
    BY <2>1, CloseMoves
  <2>3. PICK to : OthersStay(t, to, ret[t]) /\ (to \in Closing \/ to = ret[t])
    BY <2>1, CloseMoves
  <2>4. pc[t] \in Busy /\ (to \in Busy \/ to = ret[t])
    BY <2>2, <2>3 DEF Busy
  <2> QED BY <2>3, <2>4, PlacesCall
<1> QED BY <1>4, <1>5, <1>6, <1>7, <1>8, <1>9, <1>10, StepCases

-----------------------------------------------------------------------------
(* How the bytes move *)

\* A goroutine that has bytes still to send or to buffer, and those bytes.
Pending == {"write", "syscall", "buffer", "append"}
Left(t) == IF pc[t] \in Pending THEN FlattenSeq(rest[t]) ELSE <<>>

\* What OutBuffer holds and the kernel has not taken: between WriteToFd's system call
\* and its Discard, the bytes that were just sent are still in OutBuffer.
Unsent ==
  IF pc["handler"] = "discard" THEN SubSeq(out, Flushed + 1, Len(out)) ELSE out

DataTypeOK ==
  /\ rest \in [Threads -> Seq(Seq(Byte))]
  /\ out \in Seq(Byte) /\ wire \in Seq(Byte) /\ sent \in Seq(Byte)
  /\ room \in Nat

\* The bytes stay where they are.
FlowKept ==
  /\ wire' = wire /\ sent' = sent /\ Unsent' = Unsent
  /\ \A u \in Threads : Left(u)' = Left(u)

\* t calls write with a message.
FlowCall(t, m) ==
  /\ wire' = wire /\ sent' = sent \o Bytes(m) /\ Unsent' = Unsent
  /\ Left(t) = <<>> /\ Left(t)' = Bytes(m)
  /\ \A u \in Threads \ {t} : Left(u)' = Left(u)

\* The kernel takes the first n bytes of s, if the descriptor is not another's by now.
Taken(s, n) ==
  /\ n \in 0..Len(s)
  /\ wire' = wire \o SubSeq(s, 1, n) \/ (owner = "other" /\ wire' = wire)

\* It takes bytes of t's.
FlowSend(t, n) ==
  /\ Taken(Left(t), n) /\ sent' = sent /\ Unsent' = Unsent
  /\ Left(t)' = SubSeq(Left(t), n + 1, Len(Left(t)))
  /\ \A u \in Threads \ {t} : Left(u)' = Left(u)

\* t gives its bytes up.
FlowDrop(t) ==
  /\ wire' = wire /\ sent' = sent /\ Unsent' = Unsent
  /\ Left(t)' = <<>>
  /\ \A u \in Threads \ {t} : Left(u)' = Left(u)

\* t puts its bytes into OutBuffer.
FlowBuffer(t) ==
  /\ wire' = wire /\ sent' = sent /\ Unsent' = Unsent \o Left(t)
  /\ Left(t)' = <<>>
  /\ \A u \in Threads \ {t} : Left(u)' = Left(u)

\* The kernel takes bytes of OutBuffer.
FlowFlush(n) ==
  /\ Taken(Unsent, n) /\ sent' = sent
  /\ Unsent' = SubSeq(Unsent, n + 1, Len(Unsent))
  /\ \A u \in Threads : Left(u)' = Left(u)

\* OutBuffer is released.
FlowClear ==
  /\ wire' = wire /\ sent' = sent /\ Unsent' = <<>>
  /\ \A u \in Threads : Left(u)' = Left(u)

\* The bytes of a goroutine and of OutBuffer are sequences of bytes.
LEMMA FlowTypes ==
  ASSUME FlowTypeOK
  PROVE  /\ \A t \in Threads : Left(t) \in Seq(Byte) /\ FlattenSeq(rest[t]) \in Seq(Byte)
         /\ Unsent \in Seq(Byte) /\ Flushed \in Nat
PROOF
<1>1. \A t \in Threads : FlattenSeq(rest[t]) \in Seq(Byte)
  BY FlattenIsFlat DEF FlowTypeOK
<1>2. \A t \in Threads : Left(t) \in Seq(Byte)
  BY <1>1, EmptySeq DEF Left
<1>3. Flushed \in Nat
  BY <1>1, ThreadsDiffer, LenProperties DEF Flushed
<1>4. SubSeq(out, Flushed + 1, Len(out)) \in Seq(Byte)
  BY <1>3, RestType DEF FlowTypeOK
<1>5. Unsent \in Seq(Byte)
  BY <1>4 DEF Unsent, FlowTypeOK
<1> QED BY <1>1, <1>2, <1>3, <1>5

\* A goroutine goes from one place to another.
LEMMA LeftMoves ==
  ASSUME NEW t \in Threads, NEW to, NEW r, OthersStay(t, to, r),
         \A u \in Threads \ {t} : rest'[u] = rest[u]
  PROVE  /\ \A u \in Threads \ {t} : Left(u)' = Left(u)
         /\ Left(t)' = IF to \in Pending THEN FlattenSeq(rest'[t]) ELSE <<>>
PROOF BY DEF OthersStay, Left

\* A step that leaves OutBuffer and its flushing alone.
LEMMA UnsentStays ==
  ASSUME out' = out, pc'["handler"] = "discard" <=> pc["handler"] = "discard",
         pc["handler"] = "discard" => rest'["handler"] = rest["handler"]
  PROVE  Unsent' = Unsent
PROOF BY DEF Unsent, Flushed

\* A goroutine that only goes on.
LEMMA MoveKeeps ==
  ASSUME NEW t \in Threads, NEW to, NEW r, OthersStay(t, to, r),
         UNCHANGED <<out, rest, wire, sent>>,
         to \in Pending <=> pc[t] \in Pending, to # "discard" /\ pc[t] # "discard"
  PROVE  FlowKept
PROOF
<1>1. /\ pc'[t] = to /\ \A u \in Threads \ {t} : pc'[u] = pc[u] /\ Left(u)' = Left(u)
      /\ Left(t)' = IF to \in Pending THEN FlattenSeq(rest'[t]) ELSE <<>>
  BY LeftMoves DEF OthersStay
<1>2. Left(t)' = Left(t)
  BY <1>1 DEF Left
<1>3. \A u \in Threads : Left(u)' = Left(u)
  BY <1>1, <1>2
<1>4. pc'["handler"] = "discard" <=> pc["handler"] = "discard"
  BY <1>1, ThreadsDiffer
<1>5. Unsent' = Unsent
  BY <1>4, UnsentStays
<1> QED BY <1>3, <1>5 DEF FlowKept

\* The lesser of two numbers.
LEMMA MinOfIs ==
  ASSUME NEW a \in Nat, NEW b \in Nat
  PROVE  /\ MinOf(a, b) \in Nat /\ MinOf(a, b) <= a /\ MinOf(a, b) <= b
         /\ MinOf(a, b) \in 0..b /\ a - MinOf(a, b) \in Nat
PROOF BY DEF MinOf

\* A part of a sequence and the rest of it are sequences.
LEMMA PartTypes ==
  ASSUME NEW A, NEW s \in Seq(A), NEW w \in Seq(A), NEW n \in 0..Len(s)
  PROVE  /\ SubSeq(s, 1, n) \in Seq(A) /\ SubSeq(s, n + 1, Len(s)) \in Seq(A)
         /\ w \o SubSeq(s, 1, n) \in Seq(A) /\ Len(SubSeq(s, 1, n)) = n
PROOF
<1>1. PICK u, v : u = SubSeq(s, 1, n) /\ v = SubSeq(s, n + 1, Len(s))
  OBVIOUS
<1>2. u \in Seq(A) /\ v \in Seq(A)
  BY <1>1, CutDistinct
<1>3. w \o u \in Seq(A)
  BY <1>2, ConcatParts
<1>4. Len(u) = n
  <2>1. n \in Nat /\ 1 \in Nat \ {0} /\ 1 <= n + 1 /\ n <= Len(s)
    OBVIOUS
  <2>2. Cut(s, 1, n, SubSeq(s, 1, n))
    BY <2>1, CutParts
  <2>3. Len(u) = n - 1 + 1
    BY <1>1, <2>2 DEF Cut
  <2> QED BY <2>1, <2>3
<1> QED BY <1>1, <1>2, <1>3, <1>4

\* Whatever a goroutine sees in OutBuffer is made of bytes; alone, it sees what is there.
LEMMA SeenType ==
  ASSUME FlowTypeOK, NEW t \in Threads, NEW seen \in Seen(t)
  PROVE  seen \in Seq(Byte) /\ Len(seen) \in Nat /\ (~Racing(t) => seen = out)
PROOF
<1>1. PICK a : a = wire \o out
  OBVIOUS
<1>2. a \in Seq(Byte)
  BY <1>1, ConcatParts DEF FlowTypeOK
<1>3. PICK e : e = <<>>
  OBVIOUS
<1>4. e \in Seq(Byte)
  BY <1>3, EmptySeq
<1>5. seen \in {out, e, a} /\ (~Racing(t) => seen = out)
  BY <1>1, <1>3 DEF Seen
<1>6. seen \in Seq(Byte)
  BY <1>2, <1>4, <1>5 DEF FlowTypeOK
<1> QED BY <1>5, <1>6, LenProperties

\* A system call takes bytes of s: as many as there is room for, or as the other connection has.
LEMMA TakenTypes ==
  ASSUME FlowTypeOK, NEW s \in Seq(Byte), NEW n \in 0..Len(s),
         \/ owner = "self" /\ n = MinOf(room, Len(s)) /\ wire' = wire \o SubSeq(s, 1, n) /\ room' = room - n
         \/ owner = "other" /\ wire' = wire /\ room' = room
  PROVE  wire' \in Seq(Byte) /\ room' \in Nat /\ Taken(s, n)
PROOF
<1>1. Len(s) \in Nat /\ room \in Nat /\ wire \in Seq(Byte)
  BY LenProperties DEF FlowTypeOK
<1>2. room' \in Nat
  BY <1>1, MinOfIs
<1>3. wire \o SubSeq(s, 1, n) \in Seq(Byte)
  BY <1>1, PartTypes
<1>4. wire' \in Seq(Byte)
  BY <1>1, <1>3
<1>5. Taken(s, n)
  BY DEF Taken
<1> QED BY <1>2, <1>4, <1>5

\* A call of write or writev.
LEMMA CallFlows ==
  ASSUME FlowTypeOK, NEW t \in Threads, NEW m \in Msgs, NEW from, NEW back,
         Call(t, m, from, back), from \notin Pending \cup {"discard"}
  PROVE  DataTypeOK' /\ FlowCall(t, m)
PROOF
<1>1. /\ pc[t] = from /\ pc' = [pc EXCEPT ![t] = "write"] /\ ret' = [ret EXCEPT ![t] = back]
      /\ sent' = sent \o Bytes(m) /\ out' = out /\ wire' = wire /\ room' = room
  BY DEF Call, CGoto
<1>2. PICK data \in Vectors(m) : rest' = [rest EXCEPT ![t] = data]
  BY DEF Call
<1>3. data \in Seq(Seq(Byte)) /\ FlattenSeq(data) = Bytes(m)
  BY VectorsAre
<1>4. /\ rest' \in [Threads -> Seq(Seq(Byte))] /\ rest'[t] = data
      /\ \A u \in Threads \ {t} : rest'[u] = rest[u]
  BY <1>2, <1>3 DEF FlowTypeOK
<1>5. "write" \in Pending
  BY DEF Pending
<1>6. OthersStay(t, "write", back)
  BY <1>1, OthersDoStay
<1>7. /\ \A u \in Threads \ {t} : Left(u)' = Left(u)
      /\ Left(t)' = IF "write" \in Pending THEN FlattenSeq(rest'[t]) ELSE <<>>
  BY <1>4, <1>6, LeftMoves
<1>8. Left(t)' = Bytes(m) /\ Left(t) = <<>>
  BY <1>1, <1>3, <1>4, <1>5, <1>7 DEF Left
<1>9. Unsent' = Unsent
  <2>1. pc'["handler"] = "discard" <=> pc["handler"] = "discard"
    BY <1>1, <1>6, ThreadsDiffer DEF OthersStay
  <2>2. pc["handler"] = "discard" => rest'["handler"] = rest["handler"]
    BY <1>1, <1>4, ThreadsDiffer
  <2> QED BY <1>1, <2>1, <2>2, UnsentStays
<1>10. sent' \in Seq(Byte)
  <2>1. Bytes(m) \in Seq(Byte)
    BY BytesType
  <2> QED BY <1>1, <2>1, ConcatParts DEF FlowTypeOK
<1>11. DataTypeOK'
  BY <1>1, <1>4, <1>10 DEF FlowTypeOK, DataTypeOK
<1> QED BY <1>1, <1>7, <1>8, <1>9, <1>11 DEF FlowCall

\* The system call of write or writev takes some of the bytes, or write gives them up.
LEMMA WriteSysFlows ==
  ASSUME FlowTypeOK, NEW t \in Threads, WriteSys(t)
  PROVE  DataTypeOK' /\ (FlowDrop(t) \/ \E n : FlowSend(t, n))
         /\ (owner = "self" /\ peer # "reset" => \E n : FlowSend(t, n))
PROOF
<1>1. pc[t] = "syscall" /\ ret' = ret /\ out' = out /\ sent' = sent
  BY DEF WriteSys
<1>2. ret[t] \notin Pending \cup {"discard"}
  BY DEF FlowTypeOK, Returns, Pending
<1>3. "close" \notin Pending \cup {"discard"} /\ "buffer" \in Pending
  BY DEF Pending
<1>4. PICK data : data = FlattenSeq(rest[t])
  OBVIOUS
<1>5. data \in Seq(Byte) /\ Left(t) = data /\ Len(data) \in Nat
  BY <1>1, <1>4, FlowTypes, LenProperties DEF Left, Pending
<1>6. ASSUME NEW to, pc' = [pc EXCEPT ![t] = to], to # "discard",
             \A u \in Threads \ {t} : rest'[u] = rest[u]
      PROVE  /\ Unsent' = Unsent /\ \A u \in Threads \ {t} : Left(u)' = Left(u)
             /\ Left(t)' = IF to \in Pending THEN FlattenSeq(rest'[t]) ELSE <<>>
  <2>1. OthersStay(t, to, ret[t])
    BY <1>1, <1>6, OthersStayHere
  <2>2. pc'["handler"] = "discard" <=> pc["handler"] = "discard"
    BY <1>1, <1>6, <2>1, ThreadsDiffer DEF OthersStay
  <2>3. pc["handler"] = "discard" => rest'["handler"] = rest["handler"]
    BY <1>1, <1>6, ThreadsDiffer
  <2>4. Unsent' = Unsent
    BY <1>1, <2>2, <2>3, UnsentStays
  <2> QED BY <1>6, <2>1, <2>4, LeftMoves
<1>7. ASSUME NEW n \in 0..Len(FlattenSeq(rest[t])),
             \/ /\ owner = "self" /\ peer # "reset"
                /\ n = MinOf(room, Len(FlattenSeq(rest[t])))
                /\ wire' = wire \o SubSeq(FlattenSeq(rest[t]), 1, n)
                /\ room' = room - n
                /\ UNCHANGED foreign
             \/ /\ owner = "other"
                /\ foreign' = TRUE
                /\ UNCHANGED <<wire, room>>,
             rest' = [rest EXCEPT ![t] = Remainder(@, n)],
             pc' = [pc EXCEPT ![t] = IF n = Len(FlattenSeq(rest[t])) THEN ret[t] ELSE "buffer"]
      PROVE  DataTypeOK' /\ FlowSend(t, n)
  <2>1. n \in 0..Len(data)
    BY <1>4, <1>7
  <2>2. \/ /\ owner = "self" /\ n = MinOf(room, Len(data)) /\ wire' = wire \o SubSeq(data, 1, n)
           /\ room' = room - n
        \/ owner = "other" /\ wire' = wire /\ room' = room
    BY <1>4, <1>7
  <2>3. wire' \in Seq(Byte) /\ room' \in Nat /\ Taken(data, n)
    BY <1>5, <2>1, <2>2, TakenTypes
  <2>4. PICK r : r = Remainder(rest[t], n)
    OBVIOUS
  <2>5. r \in Seq(Seq(Byte)) /\ FlattenSeq(r) = SubSeq(data, n + 1, Len(data))
    <3>1. rest[t] \in Seq(Seq(Byte)) /\ n \in 0..Len(FlattenSeq(rest[t]))
      BY <1>7 DEF FlowTypeOK
    <3> QED BY <1>4, <2>4, <3>1, RemainderIs
  <2>6. /\ rest' \in [Threads -> Seq(Seq(Byte))] /\ rest'[t] = r
        /\ \A u \in Threads \ {t} : rest'[u] = rest[u]
    BY <1>7, <2>4, <2>5 DEF FlowTypeOK
  <2>7. PICK to : to = IF n = Len(data) THEN ret[t] ELSE "buffer"
    OBVIOUS
  <2>8. pc' = [pc EXCEPT ![t] = to] /\ to # "discard"
    BY <1>2, <1>4, <1>7, <2>7
  <2>9. /\ Unsent' = Unsent /\ \A u \in Threads \ {t} : Left(u)' = Left(u)
        /\ Left(t)' = IF to \in Pending THEN FlattenSeq(rest'[t]) ELSE <<>>
    BY <1>6, <2>6, <2>8
  <2>10. Left(t)' = SubSeq(data, n + 1, Len(data))
    <3>1. CASE n = Len(data)
      <4>1. Left(t)' = <<>>
        BY <1>2, <2>7, <2>9, <3>1
      <4>2. SubSeq(data, n + 1, Len(data)) = <<>>
        BY <1>5, <3>1, SubSeqEmpty
      <4> QED BY <4>1, <4>2
    <3>2. CASE n # Len(data)
      BY <1>3, <2>5, <2>6, <2>7, <2>9, <3>2
    <3> QED BY <3>1, <3>2
  <2>11. DataTypeOK'
    BY <1>1, <2>3, <2>6 DEF FlowTypeOK, DataTypeOK
  <2>12. FlowSend(t, n)
    BY <1>1, <1>5, <2>3, <2>9, <2>10 DEF FlowSend
  <2> QED BY <2>11, <2>12
<1>8. ASSUME pc' = [pc EXCEPT ![t] = "close"], UNCHANGED <<wire, room, rest>>
      PROVE  DataTypeOK' /\ FlowDrop(t)
  <2>1. /\ Unsent' = Unsent /\ \A u \in Threads \ {t} : Left(u)' = Left(u)
        /\ Left(t)' = IF "close" \in Pending THEN FlattenSeq(rest'[t]) ELSE <<>>
    BY <1>3, <1>6, <1>8
  <2>2. DataTypeOK'
    BY <1>1, <1>8 DEF FlowTypeOK, DataTypeOK
  <2> QED BY <1>1, <1>3, <1>8, <2>1, <2>2 DEF FlowDrop
<1>9. \/ \E n \in 0..Len(FlattenSeq(rest[t])) : DataTypeOK' /\ FlowSend(t, n)
      \/ (owner # "self" \/ peer = "reset") /\ DataTypeOK' /\ FlowDrop(t)
  BY <1>7, <1>8, Zenon DEF WriteSys
<1> QED BY <1>9

\* OutBuffer.Write and Writev.
LEMMA WriteBufferFlows ==
  ASSUME FlowTypeOK, NEW t \in Threads, WriteBuffer(t)
  PROVE  DataTypeOK' /\ (~Racing(t) => FlowBuffer(t))
PROOF
<1>1. /\ pc[t] \in {"buffer", "append"} /\ ret' = ret /\ sent' = sent /\ wire' = wire
      /\ room' = room
      /\ pc' = [pc EXCEPT ![t] = IF pc[t] = "buffer" THEN "modify" ELSE ret[t]]
  BY DEF WriteBuffer
<1>2. PICK seen \in Seen(t) : out' = seen \o FlattenSeq(rest[t])
  BY DEF WriteBuffer
<1>3. seen \in Seq(Byte) /\ (~Racing(t) => seen = out)
  BY SeenType
<1>4. PICK e : e = <<>> /\ rest' = [rest EXCEPT ![t] = e]
  BY DEF WriteBuffer
<1>5. e \in Seq(Seq(Byte))
  BY <1>4, EmptySeq
<1>6. rest' \in [Threads -> Seq(Seq(Byte))] /\ \A u \in Threads \ {t} : rest'[u] = rest[u]
  BY <1>4, <1>5 DEF FlowTypeOK
<1>7. PICK to : to = IF pc[t] = "buffer" THEN "modify" ELSE ret[t]
  OBVIOUS
<1>8. to \notin Pending \cup {"discard"} /\ pc' = [pc EXCEPT ![t] = to]
  BY <1>1, <1>7 DEF FlowTypeOK, Returns, Pending
<1>9. OthersStay(t, to, ret[t])
  BY <1>1, <1>8, OthersStayHere
<1>10. Left(t)' = <<>> /\ \A u \in Threads \ {t} : Left(u)' = Left(u)
  BY <1>6, <1>8, <1>9, LeftMoves
<1>11. PICK x : x = FlattenSeq(rest[t])
  OBVIOUS
<1>12. x \in Seq(Byte) /\ Left(t) = x
  BY <1>1, <1>11, FlowTypes DEF Left, Pending
<1>13. out' \in Seq(Byte)
  BY <1>2, <1>3, <1>11, <1>12, ConcatParts
<1>14. DataTypeOK'
  BY <1>1, <1>6, <1>13 DEF FlowTypeOK, DataTypeOK
<1>15. ASSUME ~Racing(t) PROVE FlowBuffer(t)
  <2>1. pc["handler"] # "discard"
    BY <1>1, <1>15, ThreadsDiffer DEF Racing, Mutating
  <2>2. pc'["handler"] # "discard"
    BY <1>8, <1>9, <2>1, ThreadsDiffer DEF OthersStay
  <2>3. Unsent' = Unsent \o x
    BY <1>2, <1>3, <1>11, <1>15, <2>1, <2>2 DEF Unsent
  <2> QED BY <1>1, <1>10, <1>12, <2>3 DEF FlowBuffer
<1> QED BY <1>14, <1>15

\* One turn of Close's loop.
LEMMA CloseFlushFlows ==
  ASSUME FlowTypeOK, NEW t \in Threads, CloseFlush(t)
  PROVE  DataTypeOK' /\ (~Racing(t) => \E n : FlowFlush(n))
PROOF
<1>1. /\ pc[t] = "flush" /\ pc' = [pc EXCEPT ![t] = "flush"]
      /\ sent' = sent /\ rest' = rest /\ ret' = ret
  BY DEF CloseFlush, CGoto
<1>2. PICK seen \in Seen(t) : \E n \in 1..Len(seen) :
        /\ \/ /\ owner = "self" /\ peer # "reset" /\ n = MinOf(room, Len(seen))
              /\ wire' = wire \o SubSeq(seen, 1, n)
              /\ room' = room - n
              /\ UNCHANGED foreign
           \/ /\ owner = "other"
              /\ foreign' = TRUE
              /\ UNCHANGED <<wire, room>>
        /\ out' = SubSeq(seen, n + 1, Len(seen))
  BY DEF CloseFlush
<1>3. seen \in Seq(Byte) /\ Len(seen) \in Nat /\ (~Racing(t) => seen = out)
  BY SeenType
<1>4. PICK n \in 0..Len(seen) :
        /\ \/ /\ owner = "self" /\ n = MinOf(room, Len(seen))
              /\ wire' = wire \o SubSeq(seen, 1, n) /\ room' = room - n
           \/ owner = "other" /\ wire' = wire /\ room' = room
        /\ out' = SubSeq(seen, n + 1, Len(seen))
  BY <1>2, <1>3
<1>5. wire' \in Seq(Byte) /\ room' \in Nat /\ Taken(seen, n)
  BY <1>3, <1>4, TakenTypes
<1>6. out' \in Seq(Byte)
  BY <1>3, <1>4, PartTypes DEF FlowTypeOK
<1>7. DataTypeOK'
  BY <1>1, <1>5, <1>6 DEF FlowTypeOK, DataTypeOK
<1>8. pc' = pc
  BY <1>1 DEF FlowTypeOK
<1>9. ASSUME ~Racing(t) PROVE FlowFlush(n)
  <2>1. pc["handler"] # "discard"
    BY <1>1, <1>9, ThreadsDiffer DEF Racing, Mutating
  <2>2. Unsent' = out' /\ Unsent = out
    BY <1>8, <2>1 DEF Unsent
  <2>3. \A u \in Threads : Left(u)' = Left(u)
    BY <1>1, <1>8 DEF Left
  <2> QED BY <1>1, <1>3, <1>4, <1>5, <1>9, <2>2, <2>3 DEF FlowFlush
<1> QED BY <1>7, <1>9

\* releaseTCP empties OutBuffer.
LEMMA CloseReleaseFlows ==
  ASSUME FlowTypeOK, NEW t \in Threads, CloseRelease(t)
  PROVE  DataTypeOK' /\ (~Racing(t) => FlowClear)
PROOF
<1>1. /\ pc[t] = "release" /\ pc' = [pc EXCEPT ![t] = ret[t]] /\ out' = <<>>
      /\ sent' = sent /\ rest' = rest /\ ret' = ret /\ wire' = wire /\ room' = room
  BY DEF CloseRelease, CGoto
<1>2. PICK to : to = ret[t]
  OBVIOUS
<1>3. /\ to \notin Pending \cup {"discard"} /\ "release" \notin Pending
      /\ pc' = [pc EXCEPT ![t] = to]
  BY <1>1, <1>2 DEF Pending, Returns, FlowTypeOK
<1>4. OthersStay(t, to, ret[t])
  BY <1>1, <1>3, OthersStayHere
<1>5. /\ \A u \in Threads \ {t} : Left(u)' = Left(u)
      /\ Left(t)' = IF to \in Pending THEN FlattenSeq(rest'[t]) ELSE <<>>
  BY <1>1, <1>4, LeftMoves
<1>6. Left(t)' = Left(t)
  BY <1>1, <1>3, <1>5 DEF Left
<1>7. \A u \in Threads : Left(u)' = Left(u)
  BY <1>5, <1>6
<1>8. out' \in Seq(Byte)
  BY <1>1, EmptySeq
<1>9. DataTypeOK'
  BY <1>1, <1>8 DEF FlowTypeOK, DataTypeOK
<1>10. ASSUME ~Racing(t) PROVE FlowClear
  <2>1. pc["handler"] # "discard"
    BY <1>1, <1>10, ThreadsDiffer DEF Racing, Mutating
  <2>2. pc'["handler"] # "discard"
    BY <1>3, <1>4, <2>1, ThreadsDiffer DEF OthersStay
  <2>3. Unsent' = <<>>
    BY <1>1, <2>2 DEF Unsent
  <2> QED BY <1>1, <1>7, <2>3 DEF FlowClear
<1> QED BY <1>9, <1>10

\* WriteToFd's system call: the bytes it takes are not unsent any more, although
\* they are in OutBuffer until Discard.
LEMMA EventOutFlows ==
  ASSUME FlowTypeOK, EventOut
  PROVE  DataTypeOK' /\ (~Racing("handler") => FlowKept \/ \E n : FlowFlush(n))
PROOF
<1>1. pc["handler"] = "out" /\ out' = out /\ sent' = sent /\ ret' = ret /\ "handler" \in Threads
  BY ThreadsDiffer DEF EventOut
<1>2. \A s \in {"idle", "close", "discard", "out"} : s \notin Pending
  BY DEF Pending
<1>3. ASSUME NEW to \in {"idle", "close"}, pc' = [pc EXCEPT !["handler"] = to],
             UNCHANGED <<wire, room, rest>>
      PROVE  DataTypeOK' /\ FlowKept
  <2>1. OthersStay("handler", to, ret["handler"])
    BY <1>1, <1>3, OthersStayHere
  <2>2. UNCHANGED <<out, rest, wire, sent>> /\ to # "discard" /\ pc["handler"] # "discard"
        /\ (to \in Pending <=> pc["handler"] \in Pending)
    BY <1>1, <1>2, <1>3
  <2>3. FlowKept
    BY <1>1, <2>1, <2>2, MoveKeeps
  <2>4. DataTypeOK'
    BY <1>1, <1>3 DEF FlowTypeOK, DataTypeOK
  <2> QED BY <2>3, <2>4
<1>4. ASSUME NEW seen \in Seen("handler"), NEW n \in 0..Len(seen),
             \/ /\ owner = "self" /\ peer # "reset" /\ n = MinOf(room, Len(seen))
                /\ wire' = wire \o SubSeq(seen, 1, n)
                /\ room' = room - n
                /\ UNCHANGED foreign
             \/ /\ owner = "other"
                /\ foreign' = TRUE
                /\ UNCHANGED <<wire, room>>,
             rest' = [rest EXCEPT !["handler"] = <<SubSeq(seen, 1, n)>>],
             pc' = [pc EXCEPT !["handler"] = "discard"]
      PROVE  DataTypeOK' /\ (~Racing("handler") => FlowFlush(n))
  <2>1. seen \in Seq(Byte) /\ Len(seen) \in Nat /\ (~Racing("handler") => seen = out)
    BY <1>1, SeenType
  <2>2. wire' \in Seq(Byte) /\ room' \in Nat /\ Taken(seen, n)
    BY <1>4, <2>1, TakenTypes
  <2>3. PICK x : x = SubSeq(seen, 1, n)
    OBVIOUS
  <2>4. x \in Seq(Byte) /\ Len(x) = n
    BY <2>1, <2>3, PartTypes
  <2>5. <<x>> \in Seq(Seq(Byte)) /\ FlattenSeq(<<x>>) = x
    BY <2>4, FlattenOne
  <2>6. PICK v : v = <<x>>
    OBVIOUS
  <2>7. /\ rest' \in [Threads -> Seq(Seq(Byte))] /\ rest'["handler"] = v
        /\ \A u \in Threads \ {"handler"} : rest'[u] = rest[u]
    BY <1>1, <1>4, <2>3, <2>5, <2>6 DEF FlowTypeOK
  <2>8. DataTypeOK'
    BY <1>1, <2>2, <2>7 DEF FlowTypeOK, DataTypeOK
  <2>9. OthersStay("handler", "discard", ret["handler"])
    BY <1>1, <1>4, OthersStayHere
  <2>10. /\ \A u \in Threads \ {"handler"} : Left(u)' = Left(u)
         /\ Left("handler")' = IF "discard" \in Pending THEN FlattenSeq(rest'["handler"]) ELSE <<>>
    BY <1>1, <2>7, <2>9, LeftMoves
  <2>11. Left("handler")' = Left("handler")
    BY <1>1, <1>2, <2>10 DEF Left
  <2>12. \A u \in Threads : Left(u)' = Left(u)
    BY <2>10, <2>11
  <2>13. Flushed' = n /\ pc'["handler"] = "discard"
    BY <2>4, <2>5, <2>6, <2>7, <2>9 DEF Flushed, OthersStay
  <2>14. Unsent = out /\ Unsent' = SubSeq(out, n + 1, Len(out))
    BY <1>1, <2>13 DEF Unsent
  <2>15. ASSUME ~Racing("handler") PROVE FlowFlush(n)
    BY <1>1, <2>1, <2>2, <2>12, <2>14, <2>15 DEF FlowFlush
  <2> QED BY <2>8, <2>15
<1>5. \/ DataTypeOK' /\ FlowKept
      \/ \E n : DataTypeOK' /\ (~Racing("handler") => FlowFlush(n))
  BY <1>3, <1>4, Zenon DEF EventOut
<1> QED BY <1>5

\* OutBuffer.Discard takes out what was sent: nothing moves.
LEMMA EventDiscardFlows ==
  ASSUME FlowTypeOK, EventDiscard
  PROVE  DataTypeOK' /\ (~Racing("handler") => FlowKept /\ out' = Unsent)
PROOF
<1>1. /\ pc["handler"] = "discard" /\ pc' = [pc EXCEPT !["handler"] = "idle"]
      /\ "handler" \in Threads
      /\ sent' = sent /\ wire' = wire /\ room' = room /\ ret' = ret
  BY ThreadsDiffer DEF EventDiscard, CGoto
<1>2. "idle" \notin Pending /\ "discard" \notin Pending
  BY DEF Pending
<1>3. PICK seen \in Seen("handler") : out' = SubSeq(seen, Flushed + 1, Len(seen))
  BY DEF EventDiscard
<1>4. seen \in Seq(Byte) /\ (~Racing("handler") => seen = out) /\ Flushed \in Nat
  BY <1>1, SeenType, FlowTypes
<1>5. out' \in Seq(Byte)
  BY <1>3, <1>4, RestType
<1>6. PICK e : e = <<>> /\ rest' = [rest EXCEPT !["handler"] = e]
  BY DEF EventDiscard
<1>7. e \in Seq(Seq(Byte))
  BY <1>6, EmptySeq
<1>8. rest' \in [Threads -> Seq(Seq(Byte))] /\ \A u \in Threads \ {"handler"} : rest'[u] = rest[u]
  BY <1>6, <1>7 DEF FlowTypeOK
<1>9. DataTypeOK'
  BY <1>1, <1>5, <1>8 DEF FlowTypeOK, DataTypeOK
<1>10. OthersStay("handler", "idle", ret["handler"])
  BY <1>1, OthersStayHere
<1>11. /\ \A u \in Threads \ {"handler"} : Left(u)' = Left(u)
       /\ Left("handler")' = IF "idle" \in Pending THEN FlattenSeq(rest'["handler"]) ELSE <<>>
  BY <1>1, <1>8, <1>10, LeftMoves
<1>12. Left("handler")' = Left("handler")
  BY <1>1, <1>2, <1>11 DEF Left
<1>13. \A u \in Threads : Left(u)' = Left(u)
  BY <1>11, <1>12
<1>14. ASSUME ~Racing("handler") PROVE FlowKept /\ out' = Unsent
  <2>1. Unsent' = out'
    BY <1>10 DEF Unsent, OthersStay
  <2>2. Unsent = out'
    BY <1>1, <1>3, <1>4, <1>14 DEF Unsent
  <2> QED BY <1>1, <1>13, <2>1, <2>2 DEF FlowKept
<1> QED BY <1>9, <1>14

-----------------------------------------------------------------------------
(* No byte is in two places *)

\* Every byte is on the wire, in OutBuffer or with one goroutine, and there once.
Once ==
  /\ Distinct(wire) /\ Distinct(Unsent) /\ Content(wire) \cap Content(Unsent) = {}
  /\ \A t \in Threads : /\ Distinct(Left(t))
                        /\ Content(wire) \cap Content(Left(t)) = {}
                        /\ Content(Unsent) \cap Content(Left(t)) = {}
  /\ \A t, u \in Threads : t # u => Content(Left(t)) \cap Content(Left(u)) = {}

\* The messages that were handed to write, and that there are no bytes of others.
Written == {sent[i][1] : i \in 1..Len(sent)}
Known ==
  /\ \A x \in Content(wire) \cup Content(Unsent) : x[1] \in Written
  /\ \A t \in Threads : \A x \in Content(Left(t)) : x[1] \in Written

\* Nothing is in an empty sequence.
LEMMA ContentNone == Content(<<>>) = {} /\ Distinct(<<>>)
PROOF BY EmptySeq DEF Content, Distinct

\* A step that moves no bytes.
LEMMA KeptOnce ==
  ASSUME Once, Known, FlowKept
  PROVE  Once' /\ Known' /\ Written' = Written
PROOF
<1>1. wire' = wire /\ Unsent' = Unsent /\ sent' = sent /\ \A u \in Threads : Left(u)' = Left(u)
  BY DEF FlowKept
<1>2. Written' = Written
  BY <1>1 DEF Written
<1>3. Once'
  BY <1>1 DEF Once
<1>4. Known'
  BY <1>1, <1>2 DEF Known
<1> QED BY <1>2, <1>3, <1>4

\* A message is written.
LEMMA WrittenGrows ==
  ASSUME FlowTypeOK, NEW m \in Msgs, sent' = sent \o Bytes(m)
  PROVE  Written' = Written \cup {m}
PROOF
<1>1. PICK b : b = Bytes(m)
  OBVIOUS
<1>2. b \in Seq(Byte) /\ Len(b) = MsgLen /\ \A i \in 1..MsgLen : b[i] = <<m, i>>
  BY <1>1, BytesType
<1>3. MsgLen \in Nat /\ 1 \in 1..MsgLen
  BY ConnAssumption
<1>4. \A x \in Content(b) : x[1] = m
  <2>1. ASSUME NEW x \in Content(b) PROVE x[1] = m
    <3>1. PICK i \in 1..MsgLen : x = b[i]
      BY <1>2, <2>1 DEF Content
    <3>2. x = <<m, i>>
      BY <1>2, <3>1
    <3> QED BY <3>2
  <2> QED BY <2>1
<1>5. PICK s, w : s = sent /\ w = s \o b
  OBVIOUS
<1>6. s \in Seq(Byte) /\ w \in Seq(Byte) /\ Content(w) = Content(s) \cup Content(b)
  BY <1>2, <1>5, JoinContent DEF FlowTypeOK
<1>7. Written = {x[1] : x \in Content(s)}
  BY <1>5 DEF Written, Content
<1>8. Written' = {x[1] : x \in Content(w)}
  <2>1. sent' = w
    BY <1>1, <1>5
  <2> QED BY <2>1 DEF Written, Content
<1>9. \E x \in Content(b) : x[1] = m
  <2>1. b[1] \in Content(b)
    BY <1>2, <1>3 DEF Content
  <2> QED BY <1>4, <2>1
<1>10. Written' = {x[1] : x \in Content(s)} \cup {x[1] : x \in Content(b)}
  BY <1>6, <1>8
<1>11. {x[1] : x \in Content(b)} = {m}
  BY <1>4, <1>9
<1> QED BY <1>7, <1>10, <1>11

\* A message nothing of which was handed to write.
LEMMA UnwrittenIs == \A m : Unwritten(m) <=> m \notin Written
PROOF BY DEF Unwritten, Written

\* A new message: none of its bytes is anywhere.
LEMMA CallOnce ==
  ASSUME FlowTypeOK, Once, Known, NEW t \in Threads, NEW m \in Msgs, Unwritten(m), FlowCall(t, m)
  PROVE  Once' /\ Known' /\ Written' = Written \cup {m}
PROOF
<1>1. /\ wire' = wire /\ Unsent' = Unsent /\ Left(t)' = Bytes(m) /\ sent' = sent \o Bytes(m)
      /\ \A u \in Threads \ {t} : Left(u)' = Left(u)
  BY DEF FlowCall
<1>2. PICK b : b = Bytes(m)
  OBVIOUS
<1>3. b \in Seq(Byte) /\ Len(b) = MsgLen /\ \A i \in 1..MsgLen : b[i] = <<m, i>>
  BY <1>2, BytesType
<1>4. MsgLen \in Nat /\ 1 \in 1..MsgLen
  BY ConnAssumption
<1>5. Distinct(b) /\ \A x \in Content(b) : x[1] = m
  <2>1. Distinct(b)
    <3>1. ASSUME NEW i \in 1..MsgLen, NEW j \in 1..MsgLen, b[i] = b[j] PROVE i = j
      <4>1. <<m, i>> = <<m, j>>
        BY <1>3, <3>1
      <4> QED BY <4>1
    <3> QED BY <1>3, <3>1 DEF Distinct
  <2>2. ASSUME NEW x \in Content(b) PROVE x[1] = m
    <3>1. PICK i \in 1..MsgLen : x = b[i]
      BY <1>3, <2>2 DEF Content
    <3>2. x = <<m, i>>
      BY <1>3, <3>1
    <3> QED BY <3>2
  <2> QED BY <2>1, <2>2
<1>6. m \notin Written
  BY DEF Unwritten, Written
<1>7. Written' = Written \cup {m}
  BY <1>1, WrittenGrows
<1>8. PICK W, U, B : W = Content(wire) /\ U = Content(Unsent) /\ B = Content(b)
  OBVIOUS
<1>9. /\ W \cap B = {} /\ U \cap B = {}
      /\ \A u \in Threads : Content(Left(u)) \cap B = {}
  <2>1. \A x \in B : x[1] \notin Written
    BY <1>5, <1>6, <1>8
  <2> QED BY <1>8, <2>1 DEF Known
<1>10. Once'
  <2>1. \A u \in Threads : /\ Distinct(Left(u)')
                           /\ Content(wire) \cap Content(Left(u)') = {}
                           /\ Content(Unsent) \cap Content(Left(u)') = {}
    BY <1>1, <1>2, <1>5, <1>8, <1>9 DEF Once
  <2>2. \A v, u \in Threads : v # u => Content(Left(v)') \cap Content(Left(u)') = {}
    BY <1>1, <1>2, <1>8, <1>9 DEF Once
  <2> QED BY <1>1, <2>1, <2>2 DEF Once
<1>11. Known'
  BY <1>1, <1>2, <1>5, <1>7 DEF Known
<1> QED BY <1>7, <1>10, <1>11

\* Bytes go to the kernel.
LEMMA SendOnce ==
  ASSUME FlowTypeOK, Once, Known, NEW t \in Threads, NEW n, FlowSend(t, n)
  PROVE  Once' /\ Known' /\ Written' = Written
PROOF
<1>1. PICK s, a, b, w : /\ s = Left(t) /\ a = SubSeq(s, 1, n) /\ b = SubSeq(s, n + 1, Len(s))
                        /\ w = wire
  OBVIOUS
<1>2. /\ n \in 0..Len(s) /\ wire' \in {w, w \o a} /\ Left(t)' = b /\ Unsent' = Unsent
      /\ sent' = sent /\ \A u \in Threads \ {t} : Left(u)' = Left(u)
  BY <1>1 DEF FlowSend, Taken
<1>3. s \in Seq(Byte) /\ w \in Seq(Byte) /\ Distinct(s) /\ Distinct(w)
  BY <1>1, FlowTypes DEF Once, FlowTypeOK
<1>4. /\ a \in Seq(Byte) /\ b \in Seq(Byte)
      /\ Content(a) \subseteq Content(s) /\ Content(b) \subseteq Content(s)
      /\ Distinct(a) /\ Distinct(b) /\ Content(a) \cap Content(b) = {}
  <2>1. a \in Seq(Byte) /\ b \in Seq(Byte) /\ Halves(s, a, b)
    BY <1>1, <1>2, <1>3, CutDistinct
  <2> QED BY <1>3, <2>1 DEF Halves
<1>5. Content(w) \cap Content(s) = {} /\ Content(Unsent) \cap Content(s) = {}
      /\ Content(w) \cap Content(Unsent) = {}
  BY <1>1 DEF Once
<1>6. Distinct(wire') /\ Content(wire') \subseteq Content(w) \cup Content(a)
  <2>1. Content(w) \cap Content(a) = {}
    BY <1>4, <1>5
  <2>2. Distinct(w \o a) /\ Content(w \o a) = Content(w) \cup Content(a)
    BY <1>3, <1>4, <2>1, JoinDistinct, JoinContent
  <2> QED BY <1>2, <1>3, <2>2
<1>7. Written' = Written
  BY <1>2 DEF Written
<1>8. Once'
  <2>1. Distinct(wire') /\ Content(wire') \cap Content(Unsent') = {} /\ Distinct(Unsent')
    BY <1>2, <1>4, <1>5, <1>6 DEF Once
  <2>2. ASSUME NEW u \in Threads
        PROVE  /\ Distinct(Left(u)') /\ Content(wire') \cap Content(Left(u)') = {}
               /\ Content(Unsent') \cap Content(Left(u)') = {}
    <3>1. CASE u = t
      BY <1>2, <1>4, <1>5, <1>6, <3>1
    <3>2. CASE u # t
      <4>1. /\ Content(w) \cap Content(Left(u)) = {} /\ Content(s) \cap Content(Left(u)) = {}
            /\ Content(Unsent) \cap Content(Left(u)) = {} /\ Distinct(Left(u))
        BY <1>1, <3>2 DEF Once
      <4> QED BY <1>2, <1>4, <1>6, <3>2, <4>1
    <3> QED BY <3>1, <3>2
  <2>3. ASSUME NEW v \in Threads, NEW u \in Threads, v # u
        PROVE  Content(Left(v)') \cap Content(Left(u)') = {}
    <3>1. \A x \in Threads : Content(Left(x)') \subseteq Content(Left(x))
      BY <1>1, <1>2, <1>4
    <3> QED BY <2>3, <3>1 DEF Once
  <2> QED BY <2>1, <2>2, <2>3 DEF Once
<1>9. Known'
  <2>1. \A x \in Content(wire') \cup Content(Unsent') : x[1] \in Written
    BY <1>1, <1>2, <1>4, <1>6 DEF Known
  <2>2. \A u \in Threads : \A x \in Content(Left(u)') : x[1] \in Written
    BY <1>1, <1>2, <1>4 DEF Known
  <2> QED BY <1>7, <2>1, <2>2 DEF Known
<1> QED BY <1>7, <1>8, <1>9

\* Bytes are given up, or put into OutBuffer.
LEMMA BufferOnce ==
  ASSUME FlowTypeOK, Once, Known, NEW t \in Threads, FlowBuffer(t) \/ FlowDrop(t)
  PROVE  Once' /\ Known' /\ Written' = Written
PROOF
<1>1. PICK s, o : s = Left(t) /\ o = Unsent
  OBVIOUS
<1>2. s \in Seq(Byte) /\ o \in Seq(Byte) /\ Distinct(s) /\ Distinct(o)
      /\ Content(o) \cap Content(s) = {}
  BY <1>1, FlowTypes DEF Once
<1>3. /\ wire' = wire /\ sent' = sent /\ Left(t)' = <<>>
      /\ \A u \in Threads \ {t} : Left(u)' = Left(u)
  BY DEF FlowBuffer, FlowDrop
<1>4. Distinct(Unsent') /\ Content(Unsent') \subseteq Content(o) \cup Content(s)
  <2>1. CASE FlowDrop(t)
    BY <1>1, <1>2, <2>1 DEF FlowDrop
  <2>2. CASE FlowBuffer(t)
    <3>1. PICK b : b = o \o s
      OBVIOUS
    <3>2. b \in Seq(Byte) /\ Distinct(b) /\ Content(b) = Content(o) \cup Content(s)
      BY <1>2, <3>1, JoinDistinct, JoinContent
    <3>3. Unsent' = b
      BY <1>1, <2>2, <3>1 DEF FlowBuffer
    <3> QED BY <3>2, <3>3
  <2> QED BY <2>1, <2>2
<1>5. \A u \in Threads : /\ Content(Left(u)') \subseteq Content(Left(u)) /\ Distinct(Left(u)')
                         /\ u = t => Content(Left(u)') = {}
  BY <1>3, ContentNone DEF Once
<1>6. Written' = Written
  BY <1>3 DEF Written
<1>7. Once'
  <2>1. Distinct(wire') /\ Content(wire') \cap Content(Unsent') = {}
    BY <1>1, <1>3, <1>4 DEF Once
  <2>2. ASSUME NEW u \in Threads
        PROVE  /\ Content(wire') \cap Content(Left(u)') = {}
               /\ Content(Unsent') \cap Content(Left(u)') = {}
    <3>1. CASE u = t
      BY <1>5, <3>1
    <3>2. CASE u # t
      <4>1. /\ Content(wire) \cap Content(Left(u)) = {} /\ Content(o) \cap Content(Left(u)) = {}
            /\ Content(s) \cap Content(Left(u)) = {}
        BY <1>1, <3>2 DEF Once
      <4> QED BY <1>3, <1>4, <1>5, <4>1
    <3> QED BY <3>1, <3>2
  <2>3. \A v, u \in Threads : v # u => Content(Left(v)') \cap Content(Left(u)') = {}
    BY <1>5 DEF Once
  <2> QED BY <1>4, <1>5, <2>1, <2>2, <2>3 DEF Once
<1>8. Known'
  <2>1. \A x \in Content(wire') \cup Content(Unsent') : x[1] \in Written
    BY <1>1, <1>3, <1>4 DEF Known
  <2>2. \A u \in Threads : \A x \in Content(Left(u)') : x[1] \in Written
    BY <1>5 DEF Known
  <2> QED BY <1>6, <2>1, <2>2 DEF Known
<1> QED BY <1>6, <1>7, <1>8

\* OutBuffer goes to the kernel, or is emptied.
LEMMA FlushOnce ==
  ASSUME FlowTypeOK, Once, Known, (\E n : FlowFlush(n)) \/ FlowClear
  PROVE  Once' /\ Known' /\ Written' = Written
PROOF
<1>1. PICK s, w : s = Unsent /\ w = wire
  OBVIOUS
<1>2. s \in Seq(Byte) /\ w \in Seq(Byte) /\ Distinct(s) /\ Distinct(w)
      /\ Content(w) \cap Content(s) = {}
  BY <1>1, FlowTypes DEF Once, FlowTypeOK
<1>3. sent' = sent /\ \A u \in Threads : Left(u)' = Left(u)
  BY DEF FlowFlush, FlowClear
<1>4. /\ Distinct(wire') /\ Distinct(Unsent') /\ Content(wire') \cap Content(Unsent') = {}
      /\ Content(wire') \subseteq Content(w) \cup Content(s) /\ Content(Unsent') \subseteq Content(s)
  <2>1. CASE FlowClear
    BY <1>1, <1>2, <2>1, ContentNone DEF FlowClear
  <2>2. CASE \E n : FlowFlush(n)
    <3>1. PICK n : FlowFlush(n)
      BY <2>2
    <3>2. PICK a, b : a = SubSeq(s, 1, n) /\ b = SubSeq(s, n + 1, Len(s))
      OBVIOUS
    <3>3. n \in 0..Len(s) /\ wire' \in {w, w \o a} /\ Unsent' = b
      BY <1>1, <3>1, <3>2 DEF FlowFlush, Taken
    <3>4. /\ a \in Seq(Byte) /\ b \in Seq(Byte)
          /\ Content(a) \subseteq Content(s) /\ Content(b) \subseteq Content(s)
          /\ Distinct(a) /\ Distinct(b) /\ Content(a) \cap Content(b) = {}
      <4>1. a \in Seq(Byte) /\ b \in Seq(Byte) /\ Halves(s, a, b)
        BY <1>2, <3>2, <3>3, CutDistinct
      <4> QED BY <1>2, <4>1 DEF Halves
    <3>5. Distinct(w \o a) /\ Content(w \o a) = Content(w) \cup Content(a)
      <4>1. Content(w) \cap Content(a) = {}
        BY <1>2, <3>4
      <4> QED BY <1>2, <3>4, <4>1, JoinDistinct, JoinContent
    <3> QED BY <1>2, <3>3, <3>4, <3>5
  <2> QED BY <2>1, <2>2
<1>5. Written' = Written
  BY <1>3 DEF Written
<1>6. Once'
  <2>1. ASSUME NEW u \in Threads
        PROVE  /\ Content(wire') \cap Content(Left(u)') = {}
               /\ Content(Unsent') \cap Content(Left(u)') = {} /\ Distinct(Left(u)')
    <3>1. /\ Content(w) \cap Content(Left(u)) = {} /\ Content(s) \cap Content(Left(u)) = {}
          /\ Distinct(Left(u))
      BY <1>1 DEF Once
    <3> QED BY <1>3, <1>4, <3>1
  <2>2. \A v, u \in Threads : v # u => Content(Left(v)') \cap Content(Left(u)') = {}
    BY <1>3 DEF Once
  <2> QED BY <1>4, <2>1, <2>2 DEF Once
<1>7. Known'
  <2>1. \A x \in Content(wire') \cup Content(Unsent') : x[1] \in Written
    BY <1>1, <1>4 DEF Known
  <2>2. \A u \in Threads : \A x \in Content(Left(u)') : x[1] \in Written
    BY <1>3 DEF Known
  <2> QED BY <1>5, <2>1, <2>2 DEF Known
<1> QED BY <1>5, <1>6, <1>7

\* A task that has not started has a message that was not written.
TaskNew == \A t \in TaskMsgs : pc[t] = "idle" => t \notin Written

OnceInv ==
  /\ FlowTypeOK /\ PlacesInv /\ TaskNew
  /\ ~raced => Once /\ Known

\* What a step does to the bytes, as long as no two goroutines are inside OutBuffer.
Moves ==
  \/ FlowKept \/ FlowClear
  \/ \E n : FlowFlush(n)
  \/ \E t \in Threads : FlowDrop(t) \/ FlowBuffer(t) \/ \E n : FlowSend(t, n)
  \/ \E t \in Threads : \E m \in Msgs : Unwritten(m) /\ FlowCall(t, m)

\* What a step does to the history of the calls: it adds the message of a task that starts, or
\* one that is not a task's.
Calls ==
  \/ sent' = sent
  \/ \E m \in Msgs : sent' = sent \o Bytes(m) /\ (m \in TaskMsgs => pc'[m] # "idle")

\* A step that leaves the buffers alone.
LEMMA PlainMoves ==
  ASSUME FlowTypeOK, NEW t \in Threads, NEW to, NEW r, OthersStay(t, to, r),
         UNCHANGED <<out, rest, wire, sent, room>>,
         to \in Pending <=> pc[t] \in Pending, to # "discard" /\ pc[t] # "discard"
  PROVE  DataTypeOK' /\ Moves /\ Calls
PROOF
<1>1. FlowKept
  BY MoveKeeps
<1>2. DataTypeOK'
  BY DEF FlowTypeOK, DataTypeOK
<1> QED BY <1>1, <1>2 DEF Moves, Calls

\* A call of write or writev.
LEMMA CallMoves ==
  ASSUME FlowTypeOK, NEW t \in Threads, NEW m \in Msgs, NEW from, NEW back,
         Call(t, m, from, back), from \notin Pending \cup {"discard"}, Unwritten(m),
         m \in TaskMsgs => m = t
  PROVE  DataTypeOK' /\ Moves /\ Calls
PROOF
<1>1. DataTypeOK' /\ FlowCall(t, m)
  BY CallFlows
<1>2. pc' = [pc EXCEPT ![t] = "write"] /\ sent' = sent \o Bytes(m)
  BY DEF Call, CGoto
<1>3. pc'[t] # "idle"
  BY <1>2 DEF FlowTypeOK
<1> QED BY <1>1, <1>2, <1>3 DEF Moves, Calls

\* The places outside write and WriteToFd.
LEMMA NotPending ==
  /\ \A s \in Closing \cup Unlisted \cup Returns \cup {"close", "open", "done", "in", "out"} :
       s \notin Pending /\ s # "discard"
  /\ "modify" \notin Pending
PROOF BY DEF Closing, Unlisted, Returns, Pending

\* User code.
LEMMA UserBytes ==
  ASSUME FlowTypeOK, NEW t \in Threads, User(t)
  PROVE  DataTypeOK' /\ Moves /\ Calls
PROOF
<1>1. pc[t] \in {UserLabel(t), "closed"}
  BY UserMoves
<1>2. PICK to, r : OthersStay(t, to, r) /\ UserGoes(t, to, r)
  BY UserMoves
<1>3. pc[t] \notin Pending \cup {"discard"}
  BY <1>1, NotPending DEF UserLabel, Returns
<1>4. CASE UserCalls(t, r)
  <2>1. PICK m \in MsgsOf(t) : Unwritten(m) /\ Call(t, m, pc[t], r)
    BY <1>4 DEF UserCalls
  <2>2. m \in Msgs /\ m \notin TaskMsgs
    BY <2>1, ConnAssumption DEF MsgsOf, Msgs
  <2> QED BY <1>3, <2>1, <2>2, CallMoves
<1>5. CASE to = "close" /\ UNCHANGED <<out, rest, wire, sent, room>>
  <2>1. to \notin Pending \cup {"discard"}
    BY <1>5, NotPending
  <2> QED BY <1>2, <1>3, <1>5, <2>1, PlainMoves
<1>6. CASE to = UserEnd(t) /\ UNCHANGED <<out, rest, wire, sent, room>>
  <2>1. to \notin Pending \cup {"discard"}
    BY <1>6, NotPending DEF UserEnd, Returns
  <2> QED BY <1>2, <1>3, <1>6, <2>1, PlainMoves
<1> QED BY <1>2, <1>4, <1>5, <1>6 DEF UserGoes

\* A task starts.
LEMMA TaskBytes ==
  ASSUME FlowTypeOK, TaskNew, NEW t \in TaskMsgs, TaskStart(t)
  PROVE  DataTypeOK' /\ Moves /\ Calls
PROOF
<1>1. pc[t] = "idle" /\ t \in Threads /\ t \in Msgs
  BY TaskMoves, ThreadsDiffer DEF Msgs
<1>2. PICK to, r : OthersStay(t, to, r) /\ TaskGoes(t, to, r)
  BY TaskMoves
<1>3. pc[t] \notin Pending \cup {"discard"}
  BY <1>1, NotPending DEF Returns
<1>4. CASE Call(t, t, "idle", "hook")
  <2>1. Unwritten(t)
    BY <1>1, UnwrittenIs DEF TaskNew
  <2> QED BY <1>1, <1>3, <1>4, <2>1, CallMoves
<1>5. CASE to = "done" /\ UNCHANGED <<out, rest, wire, sent, room>>
  <2>1. to \notin Pending \cup {"discard"}
    BY <1>5, NotPending
  <2> QED BY <1>1, <1>2, <1>3, <1>5, <2>1, PlainMoves
<1> QED BY <1>2, <1>4, <1>5 DEF TaskGoes

\* Inside write.
LEMMA WriteBytes ==
  ASSUME FlowTypeOK, NEW t \in Threads, Write(t)
  PROVE  DataTypeOK' /\ (~raced' => ~raced /\ Moves) /\ Calls
PROOF
<1>1. sent' = sent
  BY WriteMoves
<1>2. Calls
  BY <1>1 DEF Calls
<1>3. ret[t] \notin Pending /\ ret[t] # "discard"
  BY NotPending DEF FlowTypeOK
<1>4. CASE WriteCheck(t)
  <2>1. PICK to : to = IF out = <<>> THEN "syscall" ELSE "append"
    OBVIOUS
  <2>2. /\ pc[t] = "write" /\ pc' = [pc EXCEPT ![t] = to] /\ ret' = ret /\ raced' = raced
        /\ UNCHANGED <<out, rest, wire, sent, room>>
    BY <1>4, <2>1 DEF WriteCheck, CGoto, wvars, lvars, hist
  <2>3. to \in Pending /\ pc[t] \in Pending /\ to # "discard" /\ pc[t] # "discard"
    BY <2>1, <2>2 DEF Pending
  <2>4. OthersStay(t, to, ret[t])
    BY <2>2, OthersStayHere
  <2> QED BY <2>2, <2>3, <2>4, PlainMoves
<1>5. CASE WriteModify(t)
  <2>1. PICK to : to = ret[t]
    OBVIOUS
  <2>2. /\ pc[t] = "modify" /\ pc' = [pc EXCEPT ![t] = to] /\ ret' = ret /\ raced' = raced
        /\ UNCHANGED <<out, rest, wire, sent, room>>
    BY <1>5, <2>1 DEF WriteModify, CGoto, hist
  <2>3. to \notin Pending /\ to # "discard" /\ pc[t] \notin Pending /\ pc[t] # "discard"
    BY <1>3, <2>1, <2>2, NotPending
  <2>4. OthersStay(t, to, ret[t])
    BY <2>2, OthersStayHere
  <2> QED BY <2>2, <2>3, <2>4, PlainMoves
<1>6. CASE WriteSys(t)
  <2>1. DataTypeOK' /\ (FlowDrop(t) \/ \E n : FlowSend(t, n))
    BY <1>6, WriteSysFlows
  <2>2. raced' = raced
    BY <1>6 DEF WriteSys, hist
  <2> QED BY <1>2, <2>1, <2>2 DEF Moves
<1>7. CASE WriteBuffer(t)
  <2>1. DataTypeOK' /\ (~Racing(t) => FlowBuffer(t))
    BY <1>7, WriteBufferFlows
  <2>2. raced' = (raced \/ Racing(t))
    BY <1>7 DEF WriteBuffer
  <2> QED BY <1>2, <2>1, <2>2 DEF Moves
<1> QED BY <1>4, <1>5, <1>6, <1>7 DEF Write

\* Inside Close.
LEMMA CloseBytes ==
  ASSUME FlowTypeOK, NEW t \in Threads, Close(t)
  PROVE  DataTypeOK' /\ (~raced' => ~raced /\ Moves) /\ Calls
PROOF
<1>1. sent' = sent /\ pc[t] \in Closing \cup {"close"}
  BY CloseMoves
<1>2. Calls
  BY <1>1 DEF Calls
<1>3. PICK to : OthersStay(t, to, ret[t]) /\ (to \in Closing \/ to = ret[t])
  BY CloseMoves
<1>4. /\ to \notin Pending /\ to # "discard" /\ pc[t] \notin Pending /\ pc[t] # "discard"
  BY <1>1, <1>3, NotPending DEF FlowTypeOK
<1>5. CASE \/ CloseTest(t) \/ CloseFlushed(t) \/ CloseRemove(t) \/ CloseUnlist(t)
           \/ CloseNotify(t)
  <2>1. UNCHANGED <<out, rest, wire, sent, room>> /\ raced' = raced
    BY <1>5 DEF CloseTest, CloseFlushed, CloseRemove, CloseUnlist, CloseNotify, wvars, hist
  <2> QED BY <1>3, <1>4, <2>1, PlainMoves
<1>6. CASE CloseFlush(t)
  <2>1. DataTypeOK' /\ (~Racing(t) => \E n : FlowFlush(n))
    BY <1>6, CloseFlushFlows
  <2>2. raced' = (raced \/ Racing(t))
    BY <1>6 DEF CloseFlush
  <2> QED BY <1>2, <2>1, <2>2 DEF Moves
<1>7. CASE CloseRelease(t)
  <2>1. DataTypeOK' /\ (~Racing(t) => FlowClear)
    BY <1>7, CloseReleaseFlows
  <2>2. raced' = (raced \/ Racing(t))
    BY <1>7 DEF CloseRelease
  <2> QED BY <1>2, <2>1, <2>2 DEF Moves
<1> QED BY <1>5, <1>6, <1>7 DEF Close

\* The handler outside write, Close and OnTrack.
LEMMA EventBytes ==
  ASSUME FlowTypeOK, Event
  PROVE  DataTypeOK' /\ (~raced' => ~raced /\ Moves) /\ Calls
PROOF
<1>1. sent' = sent /\ "handler" \in Threads
  BY EventMoves, ThreadsDiffer
<1>2. Calls
  BY <1>1 DEF Calls
<1>3. CASE FetchOut \/ FetchIn \/ FetchClosed \/ EventIn
  <2>1. PICK to, r : OthersStay("handler", to, r) /\ EventGoes(to, r)
    BY EventMoves
  <2>2. /\ UNCHANGED <<out, rest, wire, sent, room>> /\ raced' = raced
        /\ handlerPC \in {"idle", "in"}
    BY <1>3 DEF FetchOut, FetchIn, FetchClosed, Fetch, EventIn, wvars, lvars, hist, handlerPC
  <2>3. /\ to \notin Pending /\ to # "discard"
        /\ pc["handler"] \notin Pending /\ pc["handler"] # "discard"
    BY <2>1, <2>2, NotPending DEF EventGoes, Returns, handlerPC
  <2> QED BY <1>1, <2>1, <2>2, <2>3, PlainMoves
<1>4. CASE EventOut
  <2>1. DataTypeOK' /\ (~Racing("handler") => FlowKept \/ \E n : FlowFlush(n))
    BY <1>4, EventOutFlows
  <2>2. raced' = (raced \/ Racing("handler"))
    BY <1>4 DEF EventOut
  <2> QED BY <1>2, <2>1, <2>2 DEF Moves
<1>5. CASE EventDiscard
  <2>1. DataTypeOK' /\ (~Racing("handler") => FlowKept)
    BY <1>5, EventDiscardFlows
  <2>2. raced' = (raced \/ Racing("handler"))
    BY <1>5 DEF EventDiscard
  <2> QED BY <1>2, <2>1, <2>2 DEF Moves
<1> QED BY <1>3, <1>4, <1>5 DEF Event

\* Every step keeps the types, and moves bytes in one of these ways.
LEMMA StepBytes ==
  ASSUME FlowTypeOK, TaskNew, [CNext]_cvars
  PROVE  DataTypeOK' /\ (~raced' => ~raced /\ Moves) /\ Calls
PROOF
<1>1. CASE Registers
  <2>1. UNCHANGED <<out, rest, wire, sent, room>> /\ openerPC \in Unlisted \cup {"open", "addWrite"}
    BY <1>1, RegisterMoves
  <2>2. PICK to \in Unlisted \cup {"open", "onOpen", "idle"} :
          OthersStay("opener", to, ret["opener"])
    BY <1>1, RegisterMoves
  <2>3. raced' = raced
    BY <1>1 DEF Registers, RegisterRead, RegisterFails, RegisterContext, RegisterList, OpenMark,
                OpenCount, lvars, hist
  <2>4. /\ to \notin Pending /\ to # "discard"
        /\ pc["opener"] \notin Pending /\ pc["opener"] # "discard"
    BY <2>1, <2>2, NotPending DEF Returns, openerPC
  <2> QED BY <2>1, <2>2, <2>3, <2>4, PlainMoves, ThreadsDiffer
<1>2. CASE Event
  BY <1>2, EventBytes
<1>3. CASE Environment
  <2>1. /\ pc' = pc /\ UNCHANGED <<out, rest, wire, sent>> /\ room' \in {room, SndBuf}
        /\ raced' = raced
    BY <1>3, EnvironmentStays
  <2>2. FlowKept
    BY <2>1 DEF FlowKept, Unsent, Flushed, Left
  <2>3. DataTypeOK'
    BY <2>1, ConnAssumption DEF DataTypeOK, FlowTypeOK
  <2> QED BY <2>1, <2>2, <2>3 DEF Moves, Calls
<1>4. CASE \E t \in TaskMsgs : TaskStart(t)
  <2>1. PICK t \in TaskMsgs : TaskStart(t)
    BY <1>4
  <2> QED BY <2>1, TaskBytes, TaskMoves
<1>5. CASE \E t \in Threads : User(t)
  <2>1. PICK t \in Threads : User(t)
    BY <1>5
  <2> QED BY <2>1, UserBytes, UserMoves
<1>6. CASE \E t \in Threads : Write(t) \/ Close(t)
  BY <1>6, WriteBytes, CloseBytes
<1> QED BY <1>1, <1>2, <1>3, <1>4, <1>5, <1>6, StepCases

\* What was written stays written.
LEMMA WrittenStays ==
  ASSUME FlowTypeOK, Calls
  PROVE  Written \subseteq Written'
PROOF
<1>1. CASE sent' = sent
  BY <1>1 DEF Written
<1>2. CASE \E m \in Msgs : sent' = sent \o Bytes(m)
  BY <1>2, WrittenGrows
<1> QED BY <1>1, <1>2 DEF Calls

\* Only a task that starts writes its message.
LEMMA TaskStaysNew ==
  ASSUME FlowTypeOK, PlacesInv, TaskNew, [CNext]_cvars, Calls
  PROVE  TaskNew'
PROOF
<1> SUFFICES ASSUME NEW t \in TaskMsgs, pc'[t] = "idle"
             PROVE  t \notin Written'
  BY DEF TaskNew
<1>1. t \in Threads /\ t # "handler" /\ t # "opener"
  BY ThreadsDiffer
<1>2. pc[t] = "idle"
  <2>1. CASE Registers \/ Event
    <3>1. \E u \in {"opener", "handler"} : \E to, r : OthersStay(u, to, r)
      BY <2>1, RegisterMoves, EventMoves
    <3> QED BY <1>1, <3>1 DEF OthersStay
  <2>2. CASE Environment
    BY <2>2, EnvironmentStays
  <2>3. CASE \E u \in TaskMsgs : TaskStart(u)
    <3>1. PICK u \in TaskMsgs : TaskStart(u)
      BY <2>3
    <3>2. PICK to, r : OthersStay(u, to, r) /\ TaskGoes(u, to, r)
      BY <3>1, TaskMoves
    <3>3. to # "idle"
      BY <3>2 DEF TaskGoes
    <3> QED BY <1>1, <3>2, <3>3 DEF OthersStay
  <2>4. CASE \E u \in Threads : User(u) \/ Write(u) \/ Close(u)
    <3>1. PICK u \in Threads : User(u) \/ Write(u) \/ Close(u)
      BY <2>4
    <3>2. CASE u # t
      <4>1. \E to, r : OthersStay(u, to, r)
        BY <3>1, UserMoves, WriteMoves, CloseMoves
      <4> QED BY <1>1, <3>2, <4>1 DEF OthersStay
    <3>3. CASE u = t /\ User(t)
      <4>1. PICK to, r : OthersStay(t, to, r) /\ UserGoes(t, to, r)
        BY <1>1, <3>3, UserMoves
      <4>2. to # "idle"
        BY <1>1, <4>1 DEF UserGoes, UserEnd
      <4> QED BY <4>1, <4>2 DEF OthersStay
    <3>4. CASE u = t /\ (Write(t) \/ Close(t))
      <4>1. PICK to : /\ OthersStay(t, to, ret[t])
                      /\ to \in Writing \cup Closing \cup {"close"} \/ to = ret[t]
        BY <1>1, <3>4, WriteMoves, CloseMoves
      <4>2. pc[t] \in Busy
        BY <1>1, <3>4, WriteMoves, CloseMoves DEF Busy
      <4>3. ret[t] # "idle"
        BY <1>1, <4>2 DEF PlacesInv, BacksOf
      <4>4. to # "idle"
        BY <4>1, <4>3 DEF Writing, Closing
      <4> QED BY <4>1, <4>4 DEF OthersStay
    <3> QED BY <3>1, <3>2, <3>3, <3>4
  <2> QED BY <2>1, <2>2, <2>3, <2>4, StepCases
<1>3. t \notin Written
  BY <1>2 DEF TaskNew
<1>4. CASE sent' = sent
  BY <1>3, <1>4 DEF Written
<1>5. CASE \E m \in Msgs : sent' = sent \o Bytes(m) /\ (m \in TaskMsgs => pc'[m] # "idle")
  <2>1. PICK m \in Msgs : sent' = sent \o Bytes(m) /\ (m \in TaskMsgs => pc'[m] # "idle")
    BY <1>5
  <2>2. Written' = Written \cup {m} /\ m # t
    BY <2>1, WrittenGrows
  <2> QED BY <1>3, <2>2
<1> QED BY <1>4, <1>5 DEF Calls

\* Nothing has been written.
LEMMA OnceInit == CInit => OnceInv
PROOF
<1> SUFFICES ASSUME CInit PROVE OnceInv
  OBVIOUS
<1>1. PICK e : e = <<>>
  OBVIOUS
<1>2. /\ out = e /\ sent = e /\ wire = e /\ rest = [t \in Threads |-> e] /\ room = SndBuf
      /\ pc = [t \in Threads |-> IF t = "opener" THEN "register" ELSE "idle"]
      /\ ret = [t \in Threads |-> "idle"]
  BY <1>1 DEF CInit
<1>3. e \in Seq(Byte) /\ e \in Seq(Seq(Byte)) /\ Len(e) = 0
  BY <1>1, EmptySeq
<1>4. FlowTypeOK
  <2>1. room \in Nat
    BY <1>2, ConnAssumption
  <2>2. pc \in [Threads -> ConnPC] /\ ret \in [Threads -> Returns]
    BY <1>2 DEF ConnPC, Returns
  <2> QED BY <1>2, <1>3, <2>1, <2>2 DEF FlowTypeOK
<1>5. \A t \in Threads : pc[t] = IF t = "opener" THEN "register" ELSE "idle"
  BY <1>2
<1>6. \A t \in Threads : Left(t) = e
  BY <1>1, <1>5 DEF Left, Pending
<1>7. Unsent = e
  BY <1>2, <1>5, ThreadsDiffer DEF Unsent
<1>8. Written = {}
  BY <1>2, <1>3 DEF Written
<1>9. Content(e) = {} /\ Distinct(e)
  BY <1>1, ContentNone
<1>10. Once
  BY <1>2, <1>6, <1>7, <1>9 DEF Once
<1>11. Known
  BY <1>2, <1>6, <1>7, <1>9 DEF Known
<1>12. TaskNew
  BY <1>8 DEF TaskNew
<1>13. PlacesInv
  <2>1. \A t \in Threads : pc[t] \in LabelsOf(t) /\ pc[t] \notin Busy \cup {"out", "in"}
    BY <1>5 DEF LabelsOf, Busy, Writing, Closing, Unlisted
  <2>2. handlerPC = "idle"
    BY <1>5, ThreadsDiffer DEF handlerPC
  <2> QED BY <2>1, <2>2 DEF PlacesInv
<1> QED BY <1>4, <1>10, <1>11, <1>12, <1>13 DEF OnceInv

\* The bytes of a connection are each in one place at most, in every reachable state, with any
\* number of goroutines in write, Close and user code at the same time, until two of them are
\* inside OutBuffer at once.
THEOREM EachByteInOnePlace == CSafe => []OnceInv
PROOF
<1>1. CInit => OnceInv
  BY OnceInit
<1>2. OnceInv /\ [CNext]_cvars => OnceInv'
  <2> SUFFICES ASSUME OnceInv, [CNext]_cvars
               PROVE  OnceInv'
    OBVIOUS
  <2>1. FlowTypeOK /\ PlacesInv /\ TaskNew
    BY DEF OnceInv
  <2>2. PlacesInv' /\ pc' \in [Threads -> ConnPC] /\ ret' \in [Threads -> Returns]
    BY <2>1, PlacesStep
  <2>3. DataTypeOK' /\ (~raced' => ~raced /\ Moves) /\ Calls
    BY <2>1, StepBytes
  <2>4. FlowTypeOK'
    BY <2>2, <2>3 DEF FlowTypeOK, DataTypeOK
  <2>5. TaskNew'
    BY <2>1, <2>3, TaskStaysNew
  <2>6. ASSUME ~raced' PROVE Once' /\ Known'
    <3>1. Once /\ Known /\ Moves
      BY <2>3, <2>6 DEF OnceInv
    <3>2. CASE FlowKept
      BY <3>1, <3>2, KeptOnce
    <3>3. CASE FlowClear \/ \E n : FlowFlush(n)
      BY <2>1, <3>1, <3>3, FlushOnce
    <3>4. CASE \E t \in Threads : FlowDrop(t) \/ FlowBuffer(t)
      BY <2>1, <3>1, <3>4, BufferOnce
    <3>5. CASE \E t \in Threads : \E n : FlowSend(t, n)
      BY <2>1, <3>1, <3>5, SendOnce
    <3>6. CASE \E t \in Threads : \E m \in Msgs : Unwritten(m) /\ FlowCall(t, m)
      BY <2>1, <3>1, <3>6, CallOnce
    <3> QED BY <3>1, <3>2, <3>3, <3>4, <3>5, <3>6 DEF Moves
  <2> QED BY <2>2, <2>4, <2>5, <2>6 DEF OnceInv
<1> QED BY <1>1, <1>2, PTL DEF CSafe

\* No byte is sent or buffered twice, for any messages, sizes and goroutines, as long as no two
\* of them are inside OutBuffer at once: neither a partial write, nor the flushing of OutBuffer, nor
\* a Close or a reset in the middle, nor a descriptor that names another connection by now
\* duplicates one.
THEOREM NothingSentTwice == CSafe => []NoByteTwice
PROOF
<1>1. OnceInv => NoByteTwice
  <2> SUFFICES ASSUME OnceInv, Quiet, ~raced
               PROVE  Distinct(wire \o out)
    BY DEF NoByteTwice, Distinct
  <2>1. pc["handler"] # "discard"
    BY ThreadsDiffer DEF Quiet
  <2>2. Unsent = out
    BY <2>1 DEF Unsent
  <2>3. Distinct(wire) /\ Distinct(out) /\ Content(wire) \cap Content(out) = {}
    BY <2>2 DEF OnceInv, Once
  <2>4. wire \in Seq(Byte) /\ out \in Seq(Byte)
    BY DEF OnceInv, FlowTypeOK
  <2> QED BY <2>3, <2>4, JoinDistinct
<1> QED BY <1>1, EachByteInOnePlace, PTL

-----------------------------------------------------------------------------
(* The life of a connection *)

\* Before OnOpen; OnOpen and what follows it.
Before == Unlisted \cup {"open"}
Open == {"onOpen", "closed", "addWrite"} \cup Busy

\* RegisterConn has counted the connection; a Close has counted it down.
Counted == openerPC = "idle" /\ ~openErr /\ (opened \/ closes = 1)
Uncounted == closes = 1 \/ \E t \in Threads : pc[t] = "onClose"

\* Unless one Close has overtaken another, one goroutine at a time is inside Close, Opened is
\* true until the end of it, and the connection is closed once.
LifeInv ==
  ~overlapped =>
    /\ closes \in {0, 1} /\ count \in Int
    /\ \A t, u \in Threads : pc[t] \in Closing /\ pc[u] \in Closing => t = u
    /\ \A t \in Threads : pc[t] \in Closing => opened /\ (closes = 1 <=> pc[t] = "release")
    /\ opened /\ closes = 1 => \E t \in Threads : pc[t] = "release"
    /\ openerPC \in Before => ~opened /\ closes = 0
    /\ openerPC \in Open \/ openErr => opened \/ closes = 1
    /\ count = (IF Counted THEN 1 ELSE 0) - (IF Uncounted THEN 1 ELSE 0)

\* The places of the opener are different ones.
LEMMA OpenIs ==
  /\ Before \cap Open = {} /\ "idle" \notin Before \cup Open /\ Closing \subseteq Open
  /\ Writing \subseteq Open /\ "close" \in Open
  /\ Closing \cap (Before \cup Writing \cup Returns \cup {"close", "idle", "done", "out", "in",
                                                          "discard", "open"}) = {}
  /\ BacksOf("opener") \subseteq Open
PROOF BY DEF Before, Open, Unlisted, Busy, Closing, Writing, Returns, BacksOf

\* The error of Open is the opener's.
LEMMA ErrorStays ==
  ASSUME NEW t, ErrorOf(t)
  PROVE  (openErr => openErr') /\ (t # "opener" => (openErr' <=> openErr))
PROOF BY DEF ErrorOf

\* A step outside Close.
LEMMA LifeKeeps ==
  ASSUME LifeInv, NEW t \in Threads, NEW to, NEW r, OthersStay(t, to, r), ErrorOf(t),
         UNCHANGED <<count, opened, closes, overlapped>>,
         pc[t] \notin Closing, to \notin Closing,
         t = "opener" => pc[t] \in Open /\ to \in Open
  PROVE  LifeInv'
PROOF
<1>1. CASE overlapped
  BY <1>1 DEF LifeInv
<1>2. CASE ~overlapped
  <2>1. /\ pc'[t] = to /\ \A u \in Threads : u # t => pc'[u] = pc[u]
    BY DEF OthersStay
  <2>2. \A u \in Threads : /\ pc'[u] \in Closing <=> pc[u] \in Closing
                           /\ pc'[u] = "release" <=> pc[u] = "release"
                           /\ pc'[u] = "onClose" <=> pc[u] = "onClose"
    BY <2>1 DEF Closing
  <2>3. (openErr => openErr') /\ (t # "opener" => (openErr' <=> openErr))
    BY ErrorStays
  <2>4. /\ openerPC' \in Before <=> openerPC \in Before
        /\ openerPC' \in Open <=> openerPC \in Open
        /\ openerPC' = "idle" <=> openerPC = "idle"
        /\ t = "opener" => openerPC \in Open
    BY <2>1, OpenIs, ThreadsDiffer DEF openerPC
  <2>5. (Counted' <=> Counted) /\ (Uncounted' <=> Uncounted)
    <3>1. t = "opener" => ~Counted /\ ~Counted'
      BY <2>4, OpenIs DEF Counted
    <3>2. t # "opener" => (Counted' <=> Counted)
      BY <2>3, <2>4 DEF Counted
    <3>3. Uncounted' <=> Uncounted
      BY <2>2 DEF Uncounted
    <3> QED BY <3>1, <3>2, <3>3
  <2>6. openErr' => openErr \/ openerPC \in Open
    BY <2>3, <2>4
  <2> QED BY <1>2, <2>2, <2>4, <2>5, <2>6 DEF LifeInv
<1> QED BY <1>1, <1>2

\* Inside Close.
LEMMA CloseLife ==
  ASSUME FlowTypeOK, PlacesInv, LifeInv, NEW t \in Threads, Close(t)
  PROVE  LifeInv'
PROOF
<1>1. pc[t] \in Closing \cup {"close"} /\ ErrorOf(t)
  BY CloseMoves
<1>2. PICK to : OthersStay(t, to, ret[t]) /\ (to \in Closing \/ to = ret[t])
  BY CloseMoves
<1>3. /\ pc'[t] = to /\ \A u \in Threads : u # t => pc'[u] = pc[u]
  BY <1>2 DEF OthersStay
<1>4. ret[t] \notin Closing /\ (t = "opener" => ret[t] \in Open)
  <2>1. ret[t] \in Returns
    BY DEF FlowTypeOK
  <2>2. pc[t] \in Busy
    BY <1>1 DEF Busy
  <2>3. ret[t] \in BacksOf(t)
    BY <2>2 DEF PlacesInv
  <2> QED BY <2>1, <2>3, OpenIs
<1>5. (openErr => openErr') /\ (t # "opener" => (openErr' <=> openErr))
  BY <1>1, ErrorStays
<1>6. t = "opener" => openerPC \in Open
  BY <1>1, OpenIs DEF openerPC
<1>7. t = "opener" => openerPC' \in Open
  BY <1>2, <1>3, <1>4, OpenIs DEF openerPC
<1>8. /\ openerPC' \in Before <=> openerPC \in Before
      /\ openerPC' \in Open <=> openerPC \in Open
      /\ openerPC' = "idle" <=> openerPC = "idle"
  BY <1>3, <1>6, <1>7, OpenIs, ThreadsDiffer DEF openerPC
<1>9. t = "opener" => openerPC # "idle" /\ openerPC' # "idle"
  BY <1>6, <1>7, OpenIs
<1>10. openErr' => openErr \/ openerPC \in Open
  BY <1>5, <1>6
<1>11. (opened' \/ closes' = 1 <=> opened \/ closes = 1) => (Counted' <=> Counted)
  BY <1>5, <1>8, <1>9 DEF Counted
<1>12. CASE CloseTest(t)
  <2>1. /\ pc[t] = "close" /\ pc' = [pc EXCEPT ![t] = IF opened THEN "flush" ELSE ret[t]]
        /\ UNCHANGED <<count, opened, closes>>
        /\ overlapped' = (overlapped \/ (opened /\ \E u \in Threads \ {t} : pc[u] \in Closing))
    BY <1>12 DEF CloseTest, CGoto
  <2>2. to = IF opened THEN "flush" ELSE ret[t]
    BY <1>3, <2>1 DEF FlowTypeOK
  <2>3. "close" \notin Closing
    BY DEF Closing
  <2>4. CASE overlapped'
    BY <2>4 DEF LifeInv
  <2>5. CASE ~overlapped' /\ opened
    <3>1. ~overlapped /\ \A u \in Threads : pc[u] \notin Closing
      BY <2>1, <2>3, <2>5
    <3>2. \A u \in Threads : pc[u] # "release" /\ pc[u] # "onClose"
      BY <3>1 DEF Closing
    <3>3. closes = 0
      BY <2>5, <3>1, <3>2 DEF LifeInv
    <3>4. pc'[t] = "flush" /\ "flush" \in Closing
      BY <1>3, <2>2, <2>5 DEF Closing
    <3>5. \A u \in Threads : /\ pc'[u] \in Closing => u = t
                             /\ pc'[u] # "release" /\ pc'[u] # "onClose"
      BY <1>3, <3>1, <3>2, <3>4
    <3>6. (Counted' <=> Counted) /\ (Uncounted' <=> Uncounted)
      BY <1>11, <2>1, <3>2, <3>5 DEF Uncounted
    <3>7. openerPC \notin Before
      BY <2>5, <3>1 DEF LifeInv
    <3> QED BY <1>8, <2>1, <2>5, <3>1, <3>3, <3>5, <3>6, <3>7 DEF LifeInv
  <2>6. CASE ~overlapped' /\ ~opened
    <3>1. to = ret[t] /\ UNCHANGED <<count, opened, closes>> /\ ~overlapped /\ ~overlapped'
      BY <2>1, <2>2, <2>6
    <3>2. \A u \in Threads : /\ pc'[u] \in Closing <=> pc[u] \in Closing
                             /\ pc'[u] = "release" <=> pc[u] = "release"
                             /\ pc'[u] = "onClose" <=> pc[u] = "onClose"
      BY <1>3, <1>4, <2>1, <3>1 DEF Closing
    <3>3. (Counted' <=> Counted) /\ (Uncounted' <=> Uncounted)
      BY <1>11, <3>1, <3>2 DEF Uncounted
    <3> QED BY <1>8, <1>10, <3>1, <3>2, <3>3 DEF LifeInv
  <2> QED BY <2>4, <2>5, <2>6
<1>13. ASSUME pc[t] \in Closing, overlapped' = overlapped, ~overlapped,
              to \in Closing => opened' = opened /\ opened,
              closes' \in {0, 1}, count' \in Int,
              to \in Closing => (closes' = 1 <=> to = "release"),
              to \notin Closing => ~opened' /\ closes' = 1,
              count' = (IF Counted' THEN 1 ELSE 0) - (IF Uncounted' THEN 1 ELSE 0)
       PROVE  LifeInv'
  <2>1. \A u \in Threads : u # t => pc'[u] \notin Closing /\ pc[u] \notin Closing
    BY <1>3, <1>13 DEF LifeInv
  <2>2. \A u, v \in Threads : pc'[u] \in Closing /\ pc'[v] \in Closing => u = v
    BY <2>1
  <2>3. \A u \in Threads : pc'[u] \in Closing => opened' /\ (closes' = 1 <=> pc'[u] = "release")
    BY <1>3, <1>13, <2>1
  <2>4. opened' /\ closes' = 1 => \E u \in Threads : pc'[u] = "release"
    BY <1>3, <1>13
  <2>5. opened
    BY <1>13 DEF LifeInv
  <2>6. openerPC' \notin Before
    BY <1>8, <1>13, <2>5 DEF LifeInv
  <2>7. opened' \/ closes' = 1
    BY <1>13
  <2> QED BY <1>13, <2>2, <2>3, <2>4, <2>6, <2>7 DEF LifeInv
<1>14. ASSUME pc[t] \in Closing, ~overlapped
       PROVE  /\ opened /\ closes \in {0, 1} /\ count \in Int
              /\ closes = 1 <=> pc[t] = "release"
              /\ \A u \in Threads : u # t => pc[u] \notin Closing /\ pc'[u] \notin Closing
              /\ Uncounted <=> pc[t] \in {"onClose", "release"}
              /\ count = (IF Counted THEN 1 ELSE 0) - (IF Uncounted THEN 1 ELSE 0)
              /\ Uncounted' <=> closes' = 1 \/ to = "onClose"
  <2>1. /\ opened /\ closes \in {0, 1} /\ count \in Int
        /\ closes = 1 <=> pc[t] = "release"
        /\ \A u \in Threads : u # t => pc[u] \notin Closing
        /\ count = (IF Counted THEN 1 ELSE 0) - (IF Uncounted THEN 1 ELSE 0)
    BY <1>14 DEF LifeInv
  <2>2. \A u \in Threads : u # t => pc[u] # "onClose" /\ pc'[u] # "onClose" /\ pc'[u] \notin Closing
    BY <1>3, <2>1 DEF Closing
  <2>3. Uncounted <=> pc[t] \in {"onClose", "release"}
    BY <2>1, <2>2 DEF Uncounted
  <2>4. Uncounted' <=> closes' = 1 \/ to = "onClose"
    BY <1>3, <2>2 DEF Uncounted
  <2> QED BY <2>1, <2>2, <2>3, <2>4
<1>15. CASE CloseFlush(t) \/ CloseFlushed(t) \/ CloseRemove(t)
  <2>1. /\ UNCHANGED <<count, opened, closes, overlapped>> /\ pc[t] \in {"flush", "remove"}
        /\ \/ pc' = [pc EXCEPT ![t] = "flush"] \/ pc' = [pc EXCEPT ![t] = "remove"]
           \/ pc' = [pc EXCEPT ![t] = "unlist"]
    BY <1>15 DEF CloseFlush, CloseFlushed, CloseRemove, CGoto, hist
  <2>2. to \in {"flush", "remove", "unlist"}
    BY <1>3, <2>1 DEF FlowTypeOK
  <2>3. CASE overlapped
    BY <2>1, <2>3 DEF LifeInv
  <2>4. CASE ~overlapped
    <3>1. pc[t] \in Closing /\ to \in Closing /\ to # "release" /\ pc[t] # "release"
          /\ to # "onClose" /\ pc[t] # "onClose"
      BY <2>1, <2>2 DEF Closing
    <3>2. /\ opened /\ closes \in {0, 1} /\ count \in Int
          /\ closes = 1 <=> pc[t] = "release"
          /\ Uncounted <=> pc[t] \in {"onClose", "release"}
          /\ count = (IF Counted THEN 1 ELSE 0) - (IF Uncounted THEN 1 ELSE 0)
          /\ Uncounted' <=> closes' = 1 \/ to = "onClose"
      BY <1>14, <2>4, <3>1
    <3>3. (Counted' <=> Counted) /\ (Uncounted' <=> Uncounted)
      BY <1>11, <2>1, <3>1, <3>2
    <3>4. count' = (IF Counted' THEN 1 ELSE 0) - (IF Uncounted' THEN 1 ELSE 0)
      BY <2>1, <3>2, <3>3
    <3> QED BY <1>13, <2>1, <2>4, <3>1, <3>2, <3>4
  <2> QED BY <2>3, <2>4
<1>16. CASE CloseUnlist(t)
  <2>1. /\ UNCHANGED <<opened, closes, overlapped>> /\ pc[t] = "unlist" /\ count' = count - 1
        /\ pc' = [pc EXCEPT ![t] = "onClose"]
    BY <1>16 DEF CloseUnlist, CGoto, hist
  <2>2. to = "onClose"
    BY <1>3, <2>1 DEF FlowTypeOK
  <2>3. CASE overlapped
    BY <2>1, <2>3 DEF LifeInv
  <2>4. CASE ~overlapped
    <3>1. pc[t] \in Closing /\ to \in Closing
      BY <2>1, <2>2 DEF Closing
    <3>2. /\ opened /\ closes \in {0, 1} /\ count \in Int
          /\ closes = 1 <=> pc[t] = "release"
          /\ Uncounted <=> pc[t] \in {"onClose", "release"}
          /\ count = (IF Counted THEN 1 ELSE 0) - (IF Uncounted THEN 1 ELSE 0)
          /\ Uncounted' <=> closes' = 1 \/ to = "onClose"
      BY <1>14, <2>4, <3>1
    <3>3. (Counted' <=> Counted) /\ ~Uncounted /\ Uncounted' /\ closes' = 0
      BY <1>11, <2>1, <2>2, <3>2
    <3>4. count' = (IF Counted' THEN 1 ELSE 0) - (IF Uncounted' THEN 1 ELSE 0)
      BY <2>1, <3>2, <3>3
    <3> QED BY <1>13, <2>1, <2>2, <2>4, <3>1, <3>2, <3>3, <3>4
  <2> QED BY <2>3, <2>4
<1>17. CASE CloseNotify(t)
  <2>1. /\ UNCHANGED <<opened, count, overlapped>> /\ pc[t] = "onClose" /\ closes' = closes + 1
        /\ pc' = [pc EXCEPT ![t] = "release"]
    BY <1>17 DEF CloseNotify, CGoto, hist
  <2>2. to = "release"
    BY <1>3, <2>1 DEF FlowTypeOK
  <2>3. CASE overlapped
    BY <2>1, <2>3 DEF LifeInv
  <2>4. CASE ~overlapped
    <3>1. pc[t] \in Closing /\ to \in Closing
      BY <2>1, <2>2 DEF Closing
    <3>2. /\ opened /\ closes \in {0, 1} /\ count \in Int
          /\ closes = 1 <=> pc[t] = "release"
          /\ Uncounted <=> pc[t] \in {"onClose", "release"}
          /\ count = (IF Counted THEN 1 ELSE 0) - (IF Uncounted THEN 1 ELSE 0)
          /\ Uncounted' <=> closes' = 1 \/ to = "onClose"
      BY <1>14, <2>4, <3>1
    <3>3. (Counted' <=> Counted) /\ Uncounted /\ Uncounted' /\ closes' = 1
      BY <1>11, <2>1, <2>2, <3>2
    <3>4. count' = (IF Counted' THEN 1 ELSE 0) - (IF Uncounted' THEN 1 ELSE 0)
      BY <2>1, <3>2, <3>3
    <3> QED BY <1>13, <2>1, <2>2, <2>4, <3>1, <3>2, <3>3, <3>4
  <2> QED BY <2>3, <2>4
<1>18. CASE CloseRelease(t)
  <2>1. /\ UNCHANGED <<closes, count, overlapped>> /\ pc[t] = "release" /\ opened' = FALSE
        /\ pc' = [pc EXCEPT ![t] = ret[t]]
    BY <1>18 DEF CloseRelease, CGoto
  <2>2. to = ret[t]
    BY <1>3, <2>1 DEF FlowTypeOK
  <2>3. CASE overlapped
    BY <2>1, <2>3 DEF LifeInv
  <2>4. CASE ~overlapped
    <3>1. pc[t] \in Closing /\ to \notin Closing
      BY <1>4, <2>1, <2>2 DEF Closing
    <3>2. /\ opened /\ closes \in {0, 1} /\ count \in Int
          /\ closes = 1 <=> pc[t] = "release"
          /\ Uncounted <=> pc[t] \in {"onClose", "release"}
          /\ count = (IF Counted THEN 1 ELSE 0) - (IF Uncounted THEN 1 ELSE 0)
          /\ Uncounted' <=> closes' = 1 \/ to = "onClose"
      BY <1>14, <2>4, <3>1
    <3>3. (Counted' <=> Counted) /\ Uncounted /\ Uncounted' /\ closes' = 1
      BY <1>11, <2>1, <3>2
    <3>4. count' = (IF Counted' THEN 1 ELSE 0) - (IF Uncounted' THEN 1 ELSE 0)
      BY <2>1, <3>2, <3>3
    <3> QED BY <1>13, <2>1, <2>4, <3>1, <3>2, <3>3, <3>4
  <2> QED BY <2>3, <2>4
<1> QED BY <1>12, <1>15, <1>16, <1>17, <1>18 DEF Close

\* RegisterConn and Open.
LEMMA RegisterLife ==
  ASSUME FlowTypeOK, PlacesInv, LifeInv, Registers
  PROVE  LifeInv'
PROOF
<1>1. /\ closes' = closes /\ overlapped' = overlapped /\ "opener" \in Threads
  BY RegisterMoves, ThreadsDiffer
<1>2. PICK to \in Unlisted \cup {"open", "onOpen", "idle"} :
        OthersStay("opener", to, ret["opener"])
  BY RegisterMoves
<1>3. openerPC' = to /\ \A u \in Threads : u # "opener" => pc'[u] = pc[u]
  BY <1>2 DEF OthersStay, openerPC
<1>4. openerPC \in Before \cup {"addWrite"} /\ "addWrite" \in Open /\ "onOpen" \in Open
  BY RegisterMoves DEF Before, Open
<1>5. openerPC \notin Closing /\ to \notin Closing
  BY <1>2, <1>4, OpenIs DEF Before, Returns
<1>6. /\ \A u \in Threads : /\ pc'[u] \in Closing <=> pc[u] \in Closing
                            /\ pc'[u] = "release" <=> pc[u] = "release"
                            /\ pc'[u] = "onClose" <=> pc[u] = "onClose"
      /\ Uncounted' <=> Uncounted
  <2>1. \A u \in Threads : /\ pc'[u] \in Closing <=> pc[u] \in Closing
                           /\ pc'[u] = "release" <=> pc[u] = "release"
                           /\ pc'[u] = "onClose" <=> pc[u] = "onClose"
    BY <1>3, <1>5 DEF Closing, openerPC
  <2> QED BY <1>1, <2>1 DEF Uncounted
<1>7. CASE overlapped
  BY <1>1, <1>7 DEF LifeInv
<1>8. CASE ~overlapped /\ (RegisterRead \/ RegisterFails \/ RegisterContext \/ RegisterList)
  <2>1. /\ UNCHANGED <<opened, count, openErr>> /\ openerPC \in Before
        /\ \/ pc' = [pc EXCEPT !["opener"] = "context"] \/ pc' = [pc EXCEPT !["opener"] = "list"]
           \/ pc' = [pc EXCEPT !["opener"] = "open"] \/ pc' = [pc EXCEPT !["opener"] = "idle"]
    BY <1>8 DEF RegisterRead, RegisterFails, RegisterContext, RegisterList, CGoto, lvars,
                Before, Unlisted, openerPC
  <2>2. to \in Before \cup {"idle"}
    BY <1>1, <1>3, <2>1 DEF FlowTypeOK, openerPC, Before, Unlisted
  <2>3. ~opened /\ closes = 0 /\ ~openErr
    BY <1>8, <2>1 DEF LifeInv
  <2>4. ~Counted /\ ~Counted'
    BY <1>1, <2>1, <2>3 DEF Counted
  <2>5. openerPC \notin Open /\ openerPC' \notin Open
    BY <1>3, <2>1, <2>2, OpenIs
  <2> QED BY <1>1, <1>6, <1>8, <2>1, <2>3, <2>4, <2>5 DEF LifeInv
<1>9. CASE ~overlapped /\ OpenMark
  <2>1. /\ UNCHANGED <<count, openErr>> /\ openerPC = "open" /\ opened' = TRUE
        /\ pc' = [pc EXCEPT !["opener"] = "onOpen"]
    BY <1>9 DEF OpenMark, CGoto, openerPC
  <2>2. to = "onOpen" /\ openerPC \in Before
    BY <1>1, <1>3, <2>1 DEF FlowTypeOK, openerPC, Before
  <2>3. ~opened /\ closes = 0
    BY <1>9, <2>2 DEF LifeInv
  <2>4. ~Counted /\ ~Counted'
    BY <1>3, <2>1, <2>2 DEF Counted
  <2>5. openerPC' \notin Before
    BY <1>3, <1>4, <2>2, OpenIs
  <2>6. \A u \in Threads : pc[u] \notin Closing
    BY <1>9, <2>3 DEF LifeInv
  <2> QED BY <1>1, <1>6, <1>9, <2>1, <2>3, <2>4, <2>5, <2>6 DEF LifeInv
<1>10. CASE ~overlapped /\ OpenCount
  <2>1. /\ opened' = opened /\ openerPC = "addWrite" /\ pc' = [pc EXCEPT !["opener"] = "idle"]
        /\ count' = IF openErr' THEN count ELSE count + 1
    BY <1>10 DEF OpenCount, CGoto, openerPC
  <2>2. to = "idle" /\ openerPC \in Open
    BY <1>1, <1>3, <1>4, <2>1 DEF FlowTypeOK, openerPC
  <2>3. opened \/ closes = 1
    BY <1>10, <2>2 DEF LifeInv
  <2>4. ~Counted /\ (Counted' <=> ~openErr')
    BY <1>1, <1>3, <2>1, <2>2, <2>3 DEF Counted
  <2>5. openerPC' \notin Before \cup Open
    BY <1>3, <2>2, OpenIs
  <2>6. count \in Int /\ count = (IF Counted THEN 1 ELSE 0) - (IF Uncounted THEN 1 ELSE 0)
    BY <1>10 DEF LifeInv
  <2>7. count' \in Int /\ count' = (IF Counted' THEN 1 ELSE 0) - (IF Uncounted' THEN 1 ELSE 0)
    BY <1>6, <2>1, <2>4, <2>6
  <2> QED BY <1>1, <1>6, <1>10, <2>1, <2>3, <2>5, <2>7 DEF LifeInv
<1> QED BY <1>7, <1>8, <1>9, <1>10 DEF Registers

\* Every step keeps the life of the connection in order.
LEMMA LifeStep ==
  ASSUME FlowTypeOK, PlacesInv, LifeInv, [CNext]_cvars
  PROVE  LifeInv'
PROOF
<1>1. \A u \in Threads : ret[u] \in Returns /\ (pc[u] \in Busy => ret[u] \in BacksOf(u))
  BY DEF FlowTypeOK, PlacesInv
<1>2. CASE Event
  <2>1. LifeKept /\ openErr' = openErr /\ "handler" \in Threads
    BY <1>2, EventMoves, ThreadsDiffer
  <2>2. PICK to, r : OthersStay("handler", to, r) /\ EventGoes(to, r)
    BY <1>2, EventMoves
  <2>3. to \notin Closing /\ handlerPC \notin Closing
    BY <2>2, OpenIs DEF EventGoes, Closing
  <2>4. UNCHANGED <<count, opened, closes, overlapped>> /\ ErrorOf("handler")
    BY <2>1 DEF LifeKept, ErrorOf
  <2> QED BY <2>1, <2>2, <2>3, <2>4, LifeKeeps DEF handlerPC
<1>3. CASE Environment
  <2>1. pc' = pc /\ UNCHANGED <<count, opened, closes, overlapped, openErr>>
    BY <1>3, EnvironmentStays
  <2> QED BY <2>1 DEF LifeInv, Counted, Uncounted, openerPC
<1>4. CASE \E t \in TaskMsgs : TaskStart(t)
  <2>1. PICK t \in TaskMsgs : TaskStart(t)
    BY <1>4
  <2>2. t \in Threads /\ t # "opener"
    BY ThreadsDiffer
  <2>3. LifeKept /\ openErr' = openErr /\ pc[t] = "idle"
    BY <2>1, TaskMoves
  <2>4. PICK to, r : OthersStay(t, to, r) /\ TaskGoes(t, to, r)
    BY <2>1, TaskMoves
  <2>5. to \notin Closing /\ pc[t] \notin Closing
    BY <2>3, <2>4 DEF TaskGoes, Closing
  <2>6. UNCHANGED <<count, opened, closes, overlapped>> /\ ErrorOf(t)
    BY <2>3 DEF LifeKept, ErrorOf
  <2> QED BY <2>2, <2>4, <2>5, <2>6, LifeKeeps
<1>5. CASE \E t \in Threads : User(t)
  <2>1. PICK t \in Threads : User(t)
    BY <1>5
  <2>2. LifeKept /\ openErr' = openErr /\ pc[t] \in {UserLabel(t), "closed"}
    BY <2>1, UserMoves
  <2>3. PICK to, r : OthersStay(t, to, r) /\ UserGoes(t, to, r)
    BY <2>1, UserMoves
  <2>4. to \in {"write", "close", UserEnd(t)}
    BY <2>3 DEF UserGoes
  <2>5. to \notin Closing /\ pc[t] \notin Closing
    BY <2>2, <2>4 DEF UserEnd, UserLabel, Closing
  <2>6. t = "opener" => pc[t] \in Open /\ to \in Open
    BY <2>2, <2>4 DEF UserEnd, UserLabel, Open, Busy, Writing
  <2>7. UNCHANGED <<count, opened, closes, overlapped>> /\ ErrorOf(t)
    BY <2>2 DEF LifeKept, ErrorOf
  <2> QED BY <2>3, <2>5, <2>6, <2>7, LifeKeeps
<1>6. CASE \E t \in Threads : Write(t)
  <2>1. PICK t \in Threads : Write(t)
    BY <1>6
  <2>2. LifeKept /\ ErrorOf(t) /\ pc[t] \in Writing
    BY <2>1, WriteMoves
  <2>3. PICK to : OthersStay(t, to, ret[t]) /\ (to \in Writing \cup {"close"} \/ to = ret[t])
    BY <2>1, WriteMoves
  <2>4. to \notin Closing /\ pc[t] \notin Closing
    BY <1>1, <2>2, <2>3, OpenIs
  <2>5. t = "opener" => pc[t] \in Open /\ to \in Open
    BY <1>1, <2>2, <2>3, OpenIs DEF Busy
  <2>6. UNCHANGED <<count, opened, closes, overlapped>>
    BY <2>2 DEF LifeKept
  <2> QED BY <2>2, <2>3, <2>4, <2>5, <2>6, LifeKeeps
<1>7. CASE \E t \in Threads : Close(t)
  BY <1>7, CloseLife
<1> QED BY <1>2, <1>3, <1>4, <1>5, <1>6, <1>7, RegisterLife, StepCases

\* The life of a connection is in order, in every reachable state, whatever its peer and its
\* goroutines do, until one Close overtakes another.
THEOREM LifeInvariant == CSafe => []LifeInv
PROOF
<1>1. CInit => LifeInv
  <2> SUFFICES ASSUME CInit PROVE LifeInv
    OBVIOUS
  <2>1. \A t \in Threads : pc[t] = IF t = "opener" THEN "register" ELSE "idle"
    BY DEF CInit
  <2>2. \A t \in Threads : pc[t] \notin Closing /\ pc[t] # "onClose"
    BY <2>1 DEF Closing
  <2>3. openerPC = "register" /\ openerPC \notin Open /\ openErr = FALSE
    BY <2>1, ThreadsDiffer DEF openerPC, Open, Busy, Writing, Closing, CInit
  <2>4. count = 0 /\ closes = 0 /\ opened = FALSE
    BY DEF CInit
  <2>5. ~Counted /\ ~Uncounted
    BY <2>2, <2>3, <2>4 DEF Counted, Uncounted
  <2> QED BY <2>2, <2>3, <2>4, <2>5 DEF LifeInv
<1>2. FlowTypeOK /\ PlacesInv /\ LifeInv /\ [CNext]_cvars => LifeInv'
  BY LifeStep
<1>3. OnceInv => FlowTypeOK /\ PlacesInv
  BY DEF OnceInv
<1> QED BY <1>1, <1>2, <1>3, EachByteInOnePlace, PTL DEF CSafe

\* ConnCount follows the connection, whatever its peer, its tasks and user code do, until one Close
\* overtakes another; a failed Open leaves it one too low.
THEOREM CountFollowsTheConn == CSafe => []CountIsConnections
PROOF
<1>1. LifeInv => CountIsConnections
  <2> SUFFICES ASSUME LifeInv, openerPC = "idle", \A t \in Threads : pc[t] \notin Closing, ~overlapped
               PROVE  count = (IF opened THEN 1 ELSE 0) - (IF openErr THEN 1 ELSE 0)
    BY DEF CountIsConnections, openerPC
  <2>1. \A t \in Threads : pc[t] # "release" /\ pc[t] # "onClose"
    BY DEF Closing
  <2>2. /\ closes \in {0, 1} /\ ~(opened /\ closes = 1) /\ (openErr => opened \/ closes = 1)
        /\ count = (IF Counted THEN 1 ELSE 0) - (IF Uncounted THEN 1 ELSE 0)
    BY <2>1 DEF LifeInv
  <2>3. Counted <=> ~openErr /\ (opened \/ closes = 1)
    BY DEF Counted
  <2>4. Uncounted <=> closes = 1
    BY <2>1 DEF Uncounted
  <2> QED BY <2>2, <2>3, <2>4
<1> QED BY <1>1, LifeInvariant, PTL

-----------------------------------------------------------------------------
(* The descriptor and its number *)

\* OnOpen has written, or has returned data.
OpenWritten == \E m \in OpenMsgs : m \in Written

\* What the goroutines do while nobody but the handler closes the connection: the tasks only
\* write, the opener closes the connection only when its descriptor is gone.
TasksAre ==
  \A t \in TaskMsgs : /\ pc[t] \in {"idle", "done", "hook"} \cup Writing
                      /\ pc[t] \in Writing => ret[t] = "hook"
OpenerIs ==
  /\ openerPC # "closed"
  /\ openerPC \in Busy => ret["opener"] # "closed" /\ OpenWritten
  /\ openerPC \in Closing \cup {"close"} => owner # "self"
HandlerIs ==
  /\ handlerPC \in Writing => ret["handler"] = "track"
  /\ handlerPC \in Closing \cup {"close", "out", "in"} => ret["handler"] \in {"idle", "closed"}

\* As long as the descriptor is this connection's: the handler has nothing to do before the
\* connection is in ConnList, and only then are there tasks.
HoldsInv ==
  /\ openerPC \notin {"register", "context"} => ctx
  /\ openerPC \in Unlisted => handlerPC = "idle" /\ ~listed
  /\ openerPC \in Before => ~opened
  /\ handlerPC \in {"flush", "remove"} => opened
  /\ handlerPC \notin {"unlist", "onClose", "release"}
  /\ \A t \in TaskMsgs : pc[t] \notin {"idle", "done"} => opened

\* Afterwards nobody finds the connection, and no goroutine is on the way to the descriptor:
\* only the opener may be, and no other connection gets the number before it has returned.
GoneInv ==
  /\ openerPC \notin Before
  /\ openerPC # "idle" => owner = "none"
  /\ handlerPC \in {"idle", "closed", "close", "unlist", "onClose", "release"}
  /\ handlerPC \in {"idle", "closed", "close"} => ~opened /\ ~listed
  /\ handlerPC \in {"onClose", "release"} => ~listed
  /\ TasksIdle

DescriptorInv ==
  /\ peer = "reset" => disturbed
  /\ ~disturbed => /\ ~foreign /\ OpenerIs /\ HandlerIs /\ TasksAre
                   /\ owner = "self" => HoldsInv
                   /\ owner # "self" => GoneInv
                   /\ overlapped => OpenWritten

\* The handler goes on.
LEMMA HandlerGoesOn ==
  ASSUME PlacesInv, DescriptorInv, ~disturbed, ~disturbed', NEW to, NEW r,
         OthersStay("handler", to, r), ~foreign', peer' = peer, Written \subseteq Written',
         overlapped' => overlapped \/ OpenWritten,
         to \in Writing => r = "track",
         to \in Closing \cup {"close", "out", "in"} => r \in {"idle", "closed"},
         owner' = "self" => /\ owner = "self" /\ UNCHANGED <<ctx, listed, opened>>
                            /\ openerPC \in Unlisted => to = "idle"
                            /\ to \in {"flush", "remove"} => opened
                            /\ to \notin {"unlist", "onClose", "release"},
         owner' # "self" => /\ openerPC \notin Before /\ TasksIdle
                            /\ openerPC # "idle" => owner' = "none"
                            /\ to \in {"idle", "closed", "close", "unlist", "onClose", "release"}
                            /\ to \in {"idle", "closed", "close"} => ~opened' /\ ~listed'
                            /\ to \in {"onClose", "release"} => ~listed',
         openerPC \in Closing \cup {"close"} => owner' # "self"
  PROVE  DescriptorInv'
PROOF
<1>1. /\ handlerPC' = to /\ ret'["handler"] = r
      /\ \A u \in Threads : u # "handler" => pc'[u] = pc[u] /\ ret'[u] = ret[u]
  BY DEF OthersStay, handlerPC
<1>2. /\ openerPC' = openerPC /\ ret'["opener"] = ret["opener"]
      /\ \A u \in TaskMsgs : pc'[u] = pc[u] /\ ret'[u] = ret[u]
  BY <1>1, ThreadsDiffer DEF openerPC
<1>3. OpenWritten => OpenWritten'
  BY DEF OpenWritten
<1>4. peer' # "reset" /\ TasksAre' /\ HandlerIs' /\ (overlapped' => OpenWritten')
  BY <1>1, <1>2, <1>3 DEF DescriptorInv, TasksAre, HandlerIs
<1>5. OpenerIs'
  BY <1>2, <1>3 DEF DescriptorInv, OpenerIs
<1>6. owner' = "self" => HoldsInv'
  BY <1>1, <1>2 DEF DescriptorInv, HoldsInv
<1>7. owner' # "self" => GoneInv'
  BY <1>1, <1>2 DEF GoneInv, TasksIdle
<1> QED BY <1>4, <1>5, <1>6, <1>7 DEF DescriptorInv

\* The opener goes on, after OnOpen.
LEMMA OpenerGoesOn ==
  ASSUME PlacesInv, DescriptorInv, ~disturbed, ~disturbed', NEW to, NEW r,
         OthersStay("opener", to, r), ~foreign', peer' = peer, Written \subseteq Written',
         overlapped' => overlapped \/ OpenWritten,
         openerPC \notin Before \cup {"idle"}, to \notin Before \cup {"closed"},
         to \in Busy => r # "closed" /\ OpenWritten',
         to \in Closing \cup {"close"} => owner # "self",
         owner' = owner, opened' => opened, listed' => listed,
         owner = "self" => UNCHANGED <<ctx, opened>>
  PROVE  DescriptorInv'
PROOF
<1>1. /\ openerPC' = to /\ ret'["opener"] = r
      /\ \A u \in Threads : u # "opener" => pc'[u] = pc[u] /\ ret'[u] = ret[u]
  BY DEF OthersStay, openerPC
<1>2. /\ handlerPC' = handlerPC /\ ret'["handler"] = ret["handler"]
      /\ \A u \in TaskMsgs : pc'[u] = pc[u] /\ ret'[u] = ret[u]
  BY <1>1, ThreadsDiffer DEF handlerPC
<1>3. OpenWritten => OpenWritten'
  BY DEF OpenWritten
<1>4. peer' # "reset" /\ TasksAre' /\ HandlerIs' /\ (overlapped' => OpenWritten')
  BY <1>2, <1>3 DEF DescriptorInv, TasksAre, HandlerIs
<1>5. OpenerIs'
  BY <1>1 DEF OpenerIs
<1>6. owner' = "self" => HoldsInv'
  <2>1. openerPC \notin Unlisted /\ openerPC \notin {"register", "context"} /\ to \notin Unlisted
    BY DEF Before, Unlisted
  <2> QED BY <1>1, <1>2, <2>1 DEF DescriptorInv, HoldsInv
<1>7. owner' # "self" => GoneInv'
  BY <1>1, <1>2 DEF DescriptorInv, GoneInv, TasksIdle
<1> QED BY <1>4, <1>5, <1>6, <1>7 DEF DescriptorInv

\* A task goes on.
LEMMA TaskGoesOn ==
  ASSUME PlacesInv, DescriptorInv, ~disturbed, ~disturbed', NEW t \in TaskMsgs, NEW to, NEW r,
         OthersStay(t, to, r), ~foreign', peer' = peer, Written \subseteq Written', LifeKept,
         to \in {"done", "hook"} \cup Writing, to \in Writing => r = "hook",
         to # "done" => owner = "self" /\ opened
  PROVE  DescriptorInv'
PROOF
<1>1. t \in Threads /\ t # "handler" /\ t # "opener"
  BY ThreadsDiffer
<1>2. /\ handlerPC' = handlerPC /\ ret'["handler"] = ret["handler"]
      /\ openerPC' = openerPC /\ ret'["opener"] = ret["opener"]
      /\ pc'[t] = to /\ ret'[t] = r
      /\ \A u \in TaskMsgs : u # t => pc'[u] = pc[u] /\ ret'[u] = ret[u]
  BY <1>1, ThreadsDiffer DEF OthersStay, handlerPC, openerPC
<1>3. UNCHANGED <<ctx, owner, listed, opened, overlapped>>
  BY DEF LifeKept
<1>4. OpenWritten => OpenWritten'
  BY DEF OpenWritten
<1>5. peer' # "reset" /\ HandlerIs' /\ (overlapped' => OpenWritten') /\ OpenerIs'
  BY <1>2, <1>3, <1>4 DEF DescriptorInv, HandlerIs, OpenerIs
<1>6. TasksAre'
  BY <1>2 DEF DescriptorInv, TasksAre
<1>7. owner' = "self" => HoldsInv'
  BY <1>2, <1>3 DEF DescriptorInv, HoldsInv
<1>8. owner' # "self" => GoneInv'
  BY <1>2, <1>3 DEF DescriptorInv, GoneInv, TasksIdle
<1> QED BY <1>5, <1>6, <1>7, <1>8 DEF DescriptorInv

\* Where the handler and the opener are in the invariant.
LEMMA CalmIs ==
  ASSUME DescriptorInv, ~disturbed
  PROVE  /\ peer # "reset" /\ ~foreign /\ OpenerIs /\ HandlerIs /\ TasksAre
         /\ owner = "self" => HoldsInv
         /\ owner # "self" => GoneInv
         /\ overlapped => OpenWritten
PROOF BY DEF DescriptorInv

\* The labels are different ones.
LEMMA LabelsDiffer ==
  /\ Before \cap (Busy \cup {"closed", "onOpen", "addWrite", "idle"}) = {}
  /\ Unlisted \subseteq Before
  /\ Writing \cap (Closing \cup {"close", "out", "in", "idle", "closed", "done", "hook", "track",
                                 "discard", "onOpen", "addWrite"}) = {}
  /\ Closing \cap {"close", "out", "in", "idle", "closed", "done", "hook", "track", "discard",
                   "onOpen", "addWrite"} = {}
  /\ "write" \in Writing /\ Busy = Writing \cup Closing \cup {"close"}
  /\ {"flush", "remove", "unlist", "onClose", "release"} = Closing
PROOF BY DEF Before, Busy, Unlisted, Writing, Closing

\* The handler outside write, Close and OnTrack.
LEMMA EventDescriptor ==
  ASSUME FlowTypeOK, PlacesInv, DescriptorInv, ~disturbed, ~disturbed', Event
  PROVE  DescriptorInv'
PROOF
<1>1. /\ LifeKept /\ peer' = peer /\ sent' = sent /\ (foreign' => foreign \/ owner = "other")
      /\ "handler" \in Threads
  BY EventMoves, ThreadsDiffer
<1>2. PICK to, r : OthersStay("handler", to, r) /\ EventGoes(to, r)
  BY EventMoves
<1>3. Written' = Written /\ UNCHANGED <<ctx, owner, listed, opened, overlapped>>
  BY <1>1 DEF Written, LifeKept
<1>4. /\ peer # "reset" /\ ~foreign /\ OpenerIs /\ HandlerIs
      /\ owner = "self" => HoldsInv
      /\ owner # "self" => GoneInv
  BY CalmIs
<1>5. owner = "self"
  <2>1. handlerPC = "idle" => listed
    BY <1>2 DEF EventGoes
  <2>2. handlerPC \in {"idle", "out", "in", "discard"}
    BY <1>2 DEF EventGoes
  <2> QED BY <1>4, <2>1, <2>2 DEF GoneInv
<1>6. ~foreign'
  BY <1>1, <1>4, <1>5
<1>7. to \in {"out", "in", "close", "idle", "discard", "track"} /\ to \notin Writing \cup Closing
  BY <1>2, LabelsDiffer DEF EventGoes
<1>8. to \in {"out", "in", "close"} => r \in {"idle", "closed"}
  BY <1>2, <1>4, <1>5 DEF EventGoes, HandlerIs
<1>9. openerPC \notin Unlisted
  BY <1>2, <1>4, <1>5 DEF EventGoes, HoldsInv
<1>10. openerPC \in Closing \cup {"close"} => owner # "self"
  BY <1>4 DEF OpenerIs
<1> QED BY <1>1, <1>2, <1>3, <1>4, <1>5, <1>6, <1>7, <1>8, <1>9, <1>10, LabelsDiffer, HandlerGoesOn

\* User code.
LEMMA UserDescriptor ==
  ASSUME FlowTypeOK, PlacesInv, DescriptorInv, ~disturbed, ~disturbed',
         Written \subseteq Written', NEW t \in Threads, User(t)
  PROVE  DescriptorInv'
PROOF
<1>1. /\ LifeKept /\ peer' = peer /\ foreign' = foreign /\ pc[t] \in {UserLabel(t), "closed"}
  BY UserMoves
<1>2. PICK to, r : OthersStay(t, to, r) /\ UserGoes(t, to, r)
  BY UserMoves
<1>3. /\ peer # "reset" /\ ~foreign /\ OpenerIs /\ HandlerIs /\ TasksAre
      /\ owner = "self" => HoldsInv
      /\ owner # "self" => GoneInv
  BY CalmIs
<1>4. UNCHANGED <<ctx, owner, listed, opened, overlapped>> /\ ~foreign'
  BY <1>1, <1>3 DEF LifeKept
<1>5. \/ to = "write" /\ (r = pc[t] \/ (t = "opener" /\ r = "addWrite")) /\ pc[t] # "closed" /\ UserCalls(t, r)
      \/ to = "close" /\ r = "closed" /\ t = "handler"
      \/ to = UserEnd(t)
  BY <1>2 DEF UserGoes
<1>6. CASE t = "handler"
  <2>1. handlerPC \in {"track", "closed"}
    BY <1>1, <1>6 DEF UserLabel, handlerPC
  <2>2. \/ to = "write" /\ r = "track" /\ handlerPC = "track"
        \/ to = "close" /\ r = "closed"
        \/ to = "idle"
    BY <1>5, <1>6, <2>1 DEF UserEnd, handlerPC
  <2>3. TasksIdle
    BY <2>1 DEF PlacesInv
  <2>4. owner = "self" => openerPC \notin Unlisted
    BY <1>3, <2>1 DEF HoldsInv
  <2>5. owner # "self" => /\ openerPC \notin Before /\ (openerPC # "idle" => owner = "none")
                          /\ handlerPC = "closed" /\ ~opened /\ ~listed
    BY <1>3, <2>1 DEF GoneInv
  <2>6. openerPC \in Closing \cup {"close"} => owner # "self"
    BY <1>3 DEF OpenerIs
  <2>7. /\ to \in Writing => r = "track"
        /\ to \in Closing \cup {"close", "out", "in"} => r \in {"idle", "closed"}
        /\ to \notin {"flush", "remove", "unlist", "onClose", "release"}
    BY <2>2, LabelsDiffer
  <2>8. owner # "self" => to \in {"close", "idle"}
    BY <2>2, <2>5
  <2> QED BY <1>1, <1>2, <1>4, <1>6, <2>3, <2>4, <2>5, <2>6, <2>7, <2>8, HandlerGoesOn
<1>7. CASE t = "opener"
  <2>1. openerPC = "onOpen"
    BY <1>1, <1>3, <1>7 DEF UserLabel, OpenerIs, openerPC
  <2>2. \/ to = "write" /\ r \in {"onOpen", "addWrite"} /\ UserCalls(t, r)
        \/ to = "addWrite"
    BY <1>5, <1>7, <2>1 DEF UserEnd, openerPC
  <2>3. ASSUME UserCalls(t, r) PROVE OpenWritten'
    <3>1. PICK m \in OpenMsgs : Call(t, m, pc[t], r)
      BY <1>7, <2>3 DEF UserCalls, MsgsOf
    <3>2. sent' = sent \o Bytes(m) /\ m \in Msgs
      BY <3>1 DEF Call, Msgs
    <3>3. m \in Written'
      BY <3>2, WrittenGrows
    <3> QED BY <3>3 DEF OpenWritten
  <2>4. /\ to \in Busy => r # "closed" /\ OpenWritten'
        /\ to \notin Before \cup Closing \cup {"closed", "close"}
    BY <2>2, <2>3, LabelsDiffer
  <2>5. openerPC \notin Before \cup {"idle"}
    BY <2>1, LabelsDiffer
  <2> QED BY <1>1, <1>2, <1>4, <1>7, <2>4, <2>5, OpenerGoesOn
<1>8. CASE t \in TaskMsgs
  <2>1. t # "handler" /\ t # "opener"
    BY <1>8, ThreadsDiffer
  <2>2. pc[t] = "hook"
    BY <1>1, <1>3, <1>8, <2>1, LabelsDiffer DEF UserLabel, TasksAre
  <2>3. (to = "write" /\ r = "hook") \/ to = "done"
    BY <1>5, <2>1, <2>2 DEF UserEnd
  <2>4. owner = "self" /\ opened
    BY <1>3, <1>8, <2>2 DEF GoneInv, TasksIdle, HoldsInv
  <2>5. to \in {"done", "hook"} \cup Writing /\ (to \in Writing => r = "hook")
    BY <2>3, LabelsDiffer
  <2> QED BY <1>1, <1>2, <1>4, <1>8, <2>4, <2>5, TaskGoesOn
<1> QED BY <1>6, <1>7, <1>8 DEF Threads

\* A task starts.
LEMMA TaskDescriptor ==
  ASSUME FlowTypeOK, PlacesInv, DescriptorInv, ~disturbed, ~disturbed',
         Written \subseteq Written', NEW t \in TaskMsgs, TaskStart(t)
  PROVE  DescriptorInv'
PROOF
<1>1. /\ LifeKept /\ peer' = peer /\ foreign' = foreign /\ handlerPC = "idle"
  BY TaskMoves
<1>2. PICK to, r : OthersStay(t, to, r) /\ TaskGoes(t, to, r)
  BY TaskMoves
<1>3. ~foreign /\ (owner # "self" => GoneInv)
  BY CalmIs
<1>4. (to = "write" /\ r = "hook" /\ opened) \/ to = "done"
  BY <1>2 DEF TaskGoes
<1>5. opened => owner = "self"
  BY <1>1, <1>3 DEF GoneInv
<1>6. to \in {"done", "hook"} \cup Writing /\ (to \in Writing => r = "hook")
  BY <1>4, LabelsDiffer
<1> QED BY <1>1, <1>2, <1>3, <1>4, <1>5, <1>6, TaskGoesOn

\* Inside write.
LEMMA WriteDescriptor ==
  ASSUME FlowTypeOK, PlacesInv, DescriptorInv, ~disturbed, ~disturbed',
         NEW t \in Threads, Write(t)
  PROVE  DescriptorInv'
PROOF
<1>1. /\ LifeKept /\ peer' = peer /\ (foreign' => foreign \/ owner = "other") /\ pc[t] \in Writing
      /\ sent' = sent
  BY WriteMoves
<1>2. PICK to : /\ OthersStay(t, to, ret[t])
                /\ \/ to \in Writing \/ to = ret[t]
                   \/ to = "close" /\ (owner # "self" \/ peer = "reset")
  BY WriteMoves
<1>3. /\ peer # "reset" /\ ~foreign /\ OpenerIs /\ HandlerIs /\ TasksAre
      /\ owner = "self" => HoldsInv
      /\ owner # "self" => GoneInv
  BY CalmIs
<1>4. UNCHANGED <<ctx, owner, listed, opened, overlapped>> /\ Written' = Written
  BY <1>1 DEF LifeKept, Written
<1>5. CASE t = "handler"
  <2>1. handlerPC \in Writing /\ ret[t] = "track"
    BY <1>1, <1>3, <1>5 DEF HandlerIs, handlerPC
  <2>2. owner = "self"
    BY <1>3, <2>1, LabelsDiffer DEF GoneInv
  <2>3. ~foreign' /\ openerPC \notin Unlisted
    BY <1>1, <1>3, <2>1, <2>2, LabelsDiffer DEF HoldsInv
  <2>4. to \in Writing \cup {"track"}
    BY <1>2, <1>3, <2>1, <2>2
  <2>5. /\ to \notin Closing \cup {"close", "out", "in"}
        /\ to \notin {"flush", "remove", "unlist", "onClose", "release"}
    BY <2>4, LabelsDiffer
  <2>6. openerPC \in Closing \cup {"close"} => owner # "self"
    BY <1>3 DEF OpenerIs
  <2> QED BY <1>1, <1>2, <1>4, <1>5, <2>1, <2>2, <2>3, <2>5, <2>6, HandlerGoesOn
<1>6. CASE t = "opener"
  <2>1. openerPC \in Writing /\ openerPC \in Busy /\ openerPC \notin Before \cup {"idle"}
    BY <1>1, <1>6, LabelsDiffer DEF openerPC
  <2>2. ret[t] \in {"onOpen", "addWrite"} /\ OpenWritten
    BY <1>3, <1>6, <2>1, ThreadsDiffer DEF OpenerIs, PlacesInv, BacksOf, openerPC
  <2>3. owner # "self" => owner = "none"
    BY <1>3, <2>1 DEF GoneInv
  <2>4. ~foreign'
    BY <1>1, <1>3, <2>3
  <2>5. to \in Writing \cup {"onOpen", "addWrite"} \/ (to = "close" /\ owner # "self")
    BY <1>2, <1>3, <2>2
  <2>6. OpenWritten'
    BY <1>4, <2>2 DEF OpenWritten
  <2>7. to \notin Before \cup {"closed"} /\ (to \in Closing \cup {"close"} => owner # "self")
    BY <2>5, LabelsDiffer
  <2> QED BY <1>1, <1>2, <1>4, <1>6, <2>1, <2>2, <2>4, <2>6, <2>7, OpenerGoesOn
<1>7. CASE t \in TaskMsgs
  <2>1. ret[t] = "hook" /\ pc[t] \notin {"idle", "done"}
    BY <1>1, <1>3, <1>7, LabelsDiffer DEF TasksAre
  <2>2. owner = "self" /\ opened
    BY <1>3, <1>7, <2>1 DEF GoneInv, TasksIdle, HoldsInv
  <2>3. to \in {"done", "hook"} \cup Writing /\ ~foreign'
    BY <1>1, <1>2, <1>3, <2>1, <2>2
  <2> QED BY <1>1, <1>2, <1>4, <1>7, <2>1, <2>2, <2>3, TaskGoesOn
<1> QED BY <1>5, <1>6, <1>7 DEF Threads

\* Inside Close.
LEMMA CloseDescriptor ==
  ASSUME FlowTypeOK, PlacesInv, DescriptorInv, ~disturbed, ~disturbed',
         NEW t \in Threads, Close(t)
  PROVE  DescriptorInv'
PROOF
<1>1. /\ pc[t] \in Closing \cup {"close"} /\ peer' = peer /\ sent' = sent
      /\ foreign' => foreign \/ owner = "other"
  BY CloseMoves
<1>2. PICK to : OthersStay(t, to, ret[t]) /\ (to \in Closing \/ to = ret[t])
  BY CloseMoves
<1>3. /\ peer # "reset" /\ ~foreign /\ OpenerIs /\ HandlerIs /\ TasksAre
      /\ owner = "self" => HoldsInv
      /\ owner # "self" => GoneInv
  BY CalmIs
<1>4. Written' = Written
  BY <1>1 DEF Written
<1>5. \/ /\ pc[t] = "close" /\ to = (IF opened THEN "flush" ELSE ret[t])
         /\ UNCHANGED <<ctx, owner, listed, opened, foreign>>
         /\ overlapped' => overlapped \/ \E u \in Threads \ {t} : pc[u] \in Closing
      \/ /\ pc[t] = "flush" /\ to \in {"flush", "remove"}
         /\ to = "flush" => owner # "none"
         /\ UNCHANGED <<ctx, owner, listed, opened, overlapped>>
      \/ /\ pc[t] = "remove" /\ to = "unlist" /\ owner' = "none"
         /\ UNCHANGED <<ctx, listed, opened, overlapped>>
      \/ /\ pc[t] = "unlist" /\ to = "onClose" /\ ~listed'
         /\ UNCHANGED <<ctx, owner, opened, overlapped, foreign>>
      \/ /\ pc[t] = "onClose" /\ to = "release"
         /\ UNCHANGED <<ctx, owner, listed, opened, overlapped, foreign>>
      \/ /\ pc[t] = "release" /\ to = ret[t] /\ ~opened'
         /\ UNCHANGED <<owner, listed, overlapped, foreign>>
  <2>1. pc'[t] = to /\ pc \in [Threads -> ConnPC]
    BY <1>2 DEF OthersStay, FlowTypeOK
  <2>2. CASE CloseTest(t)
    BY <2>1, <2>2 DEF CloseTest, CGoto
  <2>3. CASE CloseFlush(t)
    BY <2>1, <2>3 DEF CloseFlush, CGoto
  <2>4. CASE CloseFlushed(t)
    BY <2>1, <2>4 DEF CloseFlushed, CGoto, hist
  <2>5. CASE CloseRemove(t)
    BY <2>1, <2>5 DEF CloseRemove, CGoto, hist
  <2>6. CASE CloseUnlist(t)
    BY <2>1, <2>6 DEF CloseUnlist, CGoto, hist
  <2>7. CASE CloseNotify(t)
    BY <2>1, <2>7 DEF CloseNotify, CGoto, hist
  <2>8. CASE CloseRelease(t)
    BY <2>1, <2>8 DEF CloseRelease, CGoto
  <2> QED BY <2>2, <2>3, <2>4, <2>5, <2>6, <2>7, <2>8 DEF Close
<1>6. CASE t = "handler"
  <2>1. handlerPC = pc[t] /\ handlerPC \in Closing \cup {"close"} /\ handlerPC # "idle"
    BY <1>1, <1>6, LabelsDiffer DEF handlerPC
  <2>2. TasksIdle /\ ret[t] \in {"idle", "closed"}
    BY <1>3, <1>6, <2>1 DEF PlacesInv, HandlerIs
  <2>3. overlapped' => overlapped \/ OpenWritten
    <3>1. ASSUME NEW u \in Threads \ {t}, pc[u] \in Closing PROVE OpenWritten
      <4>1. u \notin TaskMsgs
        BY <2>2, <3>1, LabelsDiffer DEF TasksIdle
      <4>2. u = "opener"
        BY <1>6, <4>1 DEF Threads
      <4> QED BY <1>3, <3>1, <4>2, LabelsDiffer DEF OpenerIs, openerPC
    <3> QED BY <1>5, <3>1
  <2>4. openerPC \in Closing \cup {"close"} => owner # "self"
    BY <1>3 DEF OpenerIs
  <2>5. CASE owner = "self"
    <3>1. /\ openerPC \notin Unlisted /\ (openerPC \in Before => ~opened)
          /\ handlerPC \in {"flush", "remove"} => opened
          /\ handlerPC \in {"close", "flush", "remove"}
      BY <1>3, <2>1, <2>5, LabelsDiffer DEF HoldsInv
    <3>2. ~foreign'
      BY <1>1, <1>3, <2>5
    <3>3. /\ to \notin Writing
          /\ to \in Closing \cup {"close", "out", "in"} => ret[t] \in {"idle", "closed"}
      BY <1>2, <2>2, LabelsDiffer
    <3>4. CASE handlerPC = "remove"
      <4>1. to = "unlist" /\ owner' = "none" /\ overlapped' = overlapped
        BY <1>5, <2>1, <3>4
      <4>2. openerPC \notin Before
        BY <3>1, <3>4
      <4> QED BY <1>1, <1>2, <1>4, <1>6, <2>2, <2>3, <3>2, <3>3, <4>1, <4>2, HandlerGoesOn
    <3>5. CASE handlerPC \in {"close", "flush"}
      <4>1. UNCHANGED <<ctx, owner, listed, opened>> /\ to \in {"flush", "remove", ret[t]}
        BY <1>5, <2>1, <3>5
      <4>2. to \in {"flush", "remove"} => opened
        BY <1>5, <2>1, <2>2, <3>1, <3>5
      <4>3. to \notin {"unlist", "onClose", "release"}
        BY <2>2, <4>1
      <4> QED BY <1>1, <1>2, <1>4, <1>6, <2>2, <2>3, <2>4, <2>5, <3>1, <3>2, <3>3, <4>1, <4>2, <4>3, HandlerGoesOn
    <3> QED BY <3>1, <3>4, <3>5
  <2>6. CASE owner # "self"
    <3>1. /\ openerPC \notin Before /\ (openerPC # "idle" => owner = "none")
          /\ handlerPC \in {"close", "unlist", "onClose", "release"}
          /\ handlerPC = "close" => ~opened /\ ~listed
          /\ handlerPC \in {"onClose", "release"} => ~listed
      BY <1>3, <2>1, <2>6, LabelsDiffer DEF GoneInv
    <3>2. owner' = owner /\ foreign' = foreign
      BY <1>5, <2>1, <3>1
    <3>3. to \in {"idle", "closed", "onClose", "release"}
      BY <1>5, <2>1, <2>2, <3>1
    <3>4. to \in {"idle", "closed", "close"} => ~opened' /\ ~listed'
      BY <1>5, <2>1, <2>2, <3>1
    <3>5. to \in {"onClose", "release"} => ~listed'
      BY <1>5, <2>1, <2>2, <3>1
    <3>6. /\ to \notin Writing
          /\ to \in Closing \cup {"close", "out", "in"} => ret[t] \in {"idle", "closed"}
          /\ to \in {"idle", "closed", "close", "unlist", "onClose", "release"}
      BY <2>2, <3>3, LabelsDiffer
    <3> QED BY <1>1, <1>2, <1>3, <1>4, <1>6, <2>2, <2>3, <2>6, <3>1, <3>2, <3>4, <3>5, <3>6, HandlerGoesOn
  <2> QED BY <2>5, <2>6
<1>7. CASE t = "opener"
  <2>1. /\ openerPC = pc[t] /\ openerPC \in Busy /\ openerPC \in Closing \cup {"close"}
        /\ openerPC \notin Before \cup {"idle"}
    BY <1>1, <1>7, LabelsDiffer DEF openerPC
  <2>2. ret[t] \in {"onOpen", "addWrite"} /\ OpenWritten /\ owner # "self"
    BY <1>3, <1>7, <2>1, ThreadsDiffer DEF OpenerIs, PlacesInv, BacksOf
  <2>3. owner = "none"
    BY <1>3, <2>1, <2>2 DEF GoneInv
  <2>4. ~foreign' /\ owner' = owner
    BY <1>1, <1>3, <1>5, <2>3
  <2>5. (opened' => opened) /\ (listed' => listed)
    BY <1>5
  <2>6. to \notin Before \cup {"closed"}
    BY <1>2, <2>2, LabelsDiffer
  <2>7. OpenWritten'
    BY <1>4, <2>2 DEF OpenWritten
  <2> QED BY <1>1, <1>2, <1>4, <1>7, <2>1, <2>2, <2>4, <2>5, <2>6, <2>7, OpenerGoesOn
<1>8. CASE t \in TaskMsgs
  BY <1>1, <1>3, <1>8, LabelsDiffer DEF TasksAre
<1> QED BY <1>6, <1>7, <1>8 DEF Threads

\* RegisterConn and Open.
LEMMA RegisterDescriptor ==
  ASSUME FlowTypeOK, PlacesInv, DescriptorInv, ~disturbed, ~disturbed', Registers
  PROVE  DescriptorInv'
PROOF
<1>1. /\ overlapped' = overlapped /\ peer' = peer /\ foreign' = foreign /\ sent' = sent
      /\ "opener" \in Threads
  BY RegisterMoves, ThreadsDiffer
<1>2. PICK to \in Unlisted \cup {"open", "onOpen", "idle"} :
        OthersStay("opener", to, ret["opener"])
  BY RegisterMoves
<1>3. /\ openerPC' = to
      /\ handlerPC' = handlerPC /\ ret'["handler"] = ret["handler"]
      /\ \A u \in TaskMsgs : pc'[u] = pc[u] /\ ret'[u] = ret[u]
  BY <1>2, ThreadsDiffer DEF OthersStay, openerPC, handlerPC
<1>4. /\ peer # "reset" /\ ~foreign /\ OpenerIs /\ HandlerIs /\ TasksAre
      /\ owner = "self" => HoldsInv
      /\ owner # "self" => GoneInv
      /\ overlapped => OpenWritten
  BY CalmIs
<1>5. Written' = Written
  BY <1>1 DEF Written
<1>6. pc \in [Threads -> ConnPC]
  BY DEF FlowTypeOK
<1>7. CASE OpenCount
  <2>1. openerPC = "addWrite" /\ to = "idle" /\ UNCHANGED <<ctx, owner, listed, opened>>
    BY <1>1, <1>3, <1>6, <1>7 DEF OpenCount, CGoto, openerPC
  <2>2. openerPC \notin Before \cup {"idle"} /\ to \notin Before \cup {"closed"} \cup Busy
    BY <2>1, LabelsDiffer DEF Busy, Writing, Closing
  <2> QED BY <1>1, <1>2, <1>4, <1>5, <2>1, <2>2, LabelsDiffer, OpenerGoesOn
<1>8. CASE RegisterRead \/ RegisterFails \/ RegisterContext \/ RegisterList \/ OpenMark
  <2>1. \/ /\ openerPC = "register" /\ to = "context" /\ UNCHANGED <<ctx, owner, listed, opened>>
        \/ /\ openerPC = "register" /\ to = "idle" /\ owner' = "none"
           /\ UNCHANGED <<ctx, listed, opened>>
        \/ /\ openerPC = "context" /\ to = "list" /\ ctx' /\ UNCHANGED <<owner, listed, opened>>
        \/ /\ openerPC = "list" /\ to = "open" /\ UNCHANGED <<ctx, owner, opened>>
        \/ /\ openerPC = "open" /\ to = "onOpen" /\ opened' /\ UNCHANGED <<ctx, owner, listed>>
    BY <1>1, <1>3, <1>6, <1>8 DEF RegisterRead, RegisterFails, RegisterContext, RegisterList, OpenMark,
       CGoto, openerPC, lvars
  <2>2. openerPC \in Before
    BY <2>1 DEF Before, Unlisted
  <2>3. owner = "self" /\ HoldsInv /\ ~opened
    BY <1>4, <2>2 DEF GoneInv, HoldsInv
  <2>4. TasksIdle
    BY <2>3 DEF HoldsInv, TasksIdle
  <2>5. to \notin Busy \cup {"closed"} /\ (to \in Unlisted => openerPC \in Unlisted)
    BY <2>1 DEF Busy, Writing, Closing, Unlisted
  <2>6. OpenerIs' /\ HandlerIs' /\ TasksAre' /\ (overlapped' => OpenWritten')
    BY <1>1, <1>3, <1>4, <1>5, <2>5, LabelsDiffer DEF OpenerIs, HandlerIs, TasksAre, OpenWritten
  <2>7. owner' = "self" => HoldsInv'
    BY <1>3, <2>1, <2>3, <2>4, <2>5 DEF HoldsInv, TasksIdle, Before, Unlisted
  <2>8. owner' # "self" => GoneInv'
    BY <1>3, <2>1, <2>3, <2>4 DEF HoldsInv, GoneInv, TasksIdle, Before, Unlisted
  <2> QED BY <1>1, <1>4, <2>6, <2>7, <2>8 DEF DescriptorInv
<1> QED BY <1>7, <1>8 DEF Registers

\* The peer and the kernel.
LEMMA EnvironmentDescriptor ==
  ASSUME DescriptorInv, ~disturbed, ~disturbed', Environment
  PROVE  DescriptorInv'
PROOF
<1>1. /\ pc' = pc /\ ret' = ret /\ sent' = sent
      /\ UNCHANGED <<ctx, listed, opened, overlapped, foreign>>
      /\ owner' = owner \/ (owner = "none" /\ owner' = "other" /\ openerPC = "idle")
      /\ peer' = "reset" => peer = "reset" \/ disturbed'
  BY EnvironmentStays
<1>2. OpenerIs' /\ HandlerIs' /\ TasksAre' /\ (overlapped' => OpenWritten') /\ ~foreign' /\ peer' # "reset"
  BY <1>1, CalmIs DEF OpenerIs, HandlerIs, TasksAre, OpenWritten, Written, openerPC, handlerPC
<1>3. owner' = "self" => HoldsInv'
  BY <1>1, CalmIs DEF HoldsInv, openerPC, handlerPC
<1>4. owner' # "self" => GoneInv'
  BY <1>1, CalmIs DEF GoneInv, TasksIdle, openerPC, handlerPC
<1> QED BY <1>2, <1>3, <1>4 DEF DescriptorInv

\* Every step keeps goroutines off a number that is not theirs.
LEMMA DescriptorStep ==
  ASSUME OnceInv, DescriptorInv, [CNext]_cvars
  PROVE  DescriptorInv'
PROOF
<1>1. FlowTypeOK /\ PlacesInv /\ TaskNew
  BY DEF OnceInv
<1>2. Written \subseteq Written'
  BY <1>1, StepBytes, WrittenStays
<1>3. CASE disturbed'
  BY <1>3 DEF DescriptorInv
<1>4. CASE ~disturbed'
  <2>1. CASE Registers
    <3>1. ~disturbed
      BY <1>1, <1>4, <2>1, RegisterMoves
    <3> QED BY <1>1, <1>4, <2>1, <3>1, RegisterDescriptor
  <2>2. CASE Event
    <3>1. ~disturbed
      BY <1>1, <1>4, <2>2, EventMoves
    <3> QED BY <1>1, <1>4, <2>2, <3>1, EventDescriptor
  <2>3. CASE Environment
    <3>1. ~disturbed
      BY <1>4, <2>3, EnvironmentStays
    <3> QED BY <1>4, <2>3, <3>1, EnvironmentDescriptor
  <2>4. CASE \E t \in TaskMsgs : TaskStart(t)
    <3>1. PICK t \in TaskMsgs : TaskStart(t)
      BY <2>4
    <3>2. ~disturbed
      BY <1>1, <1>4, <3>1, TaskMoves
    <3> QED BY <1>1, <1>2, <1>4, <3>1, <3>2, TaskDescriptor
  <2>5. CASE \E t \in Threads : User(t)
    <3>1. PICK t \in Threads : User(t)
      BY <2>5
    <3>2. ~disturbed
      BY <1>1, <1>4, <3>1, UserMoves
    <3> QED BY <1>1, <1>2, <1>4, <3>1, <3>2, UserDescriptor
  <2>6. CASE \E t \in Threads : Write(t)
    <3>1. PICK t \in Threads : Write(t)
      BY <2>6
    <3>2. ~disturbed
      BY <1>1, <1>4, <3>1, WriteMoves
    <3> QED BY <1>1, <1>4, <3>1, <3>2, WriteDescriptor
  <2>7. CASE \E t \in Threads : Close(t)
    <3>1. PICK t \in Threads : Close(t)
      BY <2>7
    <3>2. ~disturbed
      BY <1>1, <1>4, <3>1, CloseMoves
    <3> QED BY <1>1, <1>4, <3>1, <3>2, CloseDescriptor
  <2> QED BY <2>1, <2>2, <2>3, <2>4, <2>5, <2>6, <2>7, StepCases
<1> QED BY <1>3, <1>4

\* What packTcpConn has made.
LEMMA DescriptorInit == CInit => DescriptorInv
PROOF
<1> SUFFICES ASSUME CInit PROVE DescriptorInv
  OBVIOUS
<1>1. \A t \in Threads : pc[t] = IF t = "opener" THEN "register" ELSE "idle"
  BY DEF CInit
<1>2. openerPC = "register" /\ handlerPC = "idle" /\ \A t \in TaskMsgs : pc[t] = "idle"
  BY <1>1, ThreadsDiffer DEF openerPC, handlerPC
<1>3. /\ peer = "up" /\ foreign = FALSE /\ owner = "self" /\ overlapped = FALSE
      /\ listed = FALSE /\ opened = FALSE
  BY DEF CInit
<1>4. OpenerIs /\ HandlerIs /\ TasksAre
  BY <1>2, LabelsDiffer DEF OpenerIs, HandlerIs, TasksAre, Busy, Writing, Closing
<1>5. HoldsInv
  BY <1>2, <1>3 DEF HoldsInv
<1> QED BY <1>3, <1>4, <1>5 DEF DescriptorInv

\* Who holds the descriptor, and who is on the way to it, in every reachable state, for any
\* tasks, user code and peer, until somebody closes the connection beside the handler or the
\* peer resets it.
THEOREM DescriptorInvariant == CSafe => []DescriptorInv
PROOF
<1>1. CInit => DescriptorInv
  BY DescriptorInit
<1>2. OnceInv /\ DescriptorInv /\ [CNext]_cvars => DescriptorInv'
  BY DescriptorStep
<1> QED BY <1>1, <1>2, EachByteInOnePlace, PTL DEF CSafe

\* A connection leaves the descriptors of other connections alone, although a late event, a task
\* or the end of OnOpen may come after its Close, unless the peer resets, OnOpen or a hook closes,
\* or user code writes after its own Close.
THEOREM OthersAreLeftAlone == CSafe => []NoForeignAccess
PROOF
<1>1. DescriptorInv => NoForeignAccess
  BY DEF DescriptorInv, NoForeignAccess
<1> QED BY <1>1, DescriptorInvariant, PTL

\* OnTrack runs with the context of its connection: no event gets there before InitContext has
\* run, and none while a Close of the handler has taken the context away.
THEOREM ContextComesFirst == CSafe => []TrackHasContext
PROOF
<1>1. DescriptorInv => TrackHasContext
  <2> SUFFICES ASSUME DescriptorInv, handlerPC = "track", ~disturbed PROVE ctx
    BY DEF TrackHasContext, handlerPC
  <2>1. owner = "self" /\ HoldsInv
    BY CalmIs DEF GoneInv
  <2>2. openerPC \notin {"register", "context"}
    BY <2>1 DEF HoldsInv, Unlisted
  <2> QED BY <2>1, <2>2 DEF HoldsInv
<1> QED BY <1>1, DescriptorInvariant, PTL

\* OnClose is called once at most, whichever of the handler, the opener, the tasks and their
\* callbacks close the connection, unless one Close passes the test of Opened while another is
\* under way; and that never happens to a connection that only the handler closes, as long as
\* the peer does not reset and OnOpen does not write.
THEOREM OnCloseRunsOnce == CSafe => []ClosedOnce
PROOF
<1>1. LifeInv /\ DescriptorInv => ClosedOnce
  <2> SUFFICES ASSUME LifeInv, DescriptorInv PROVE ClosedOnce
    OBVIOUS
  <2>1. closes > 1 => overlapped
    BY DEF LifeInv
  <2>2. overlapped => disturbed \/ OpenWritten
    BY DEF DescriptorInv
  <2>3. OpenWritten => \E m \in OpenMsgs : ~Unwritten(m)
    BY UnwrittenIs DEF OpenWritten
  <2> QED BY <2>1, <2>2, <2>3 DEF ClosedOnce
<1> QED BY <1>1, LifeInvariant, DescriptorInvariant, PTL

-----------------------------------------------------------------------------
(* A connection that only its handler writes to and closes *)

\* OnTrack alone writes and closes, and the peer does not reset.
Synchronous ==
  /\ TaskMsgs = {} /\ OpenMsgs = {} /\ CanReset = FALSE
  /\ "closeInOpen" \notin UserCode /\ "writeAfterClose" \notin UserCode

Calm == FlowTypeOK /\ PlacesInv /\ LifeInv /\ DescriptorInv /\ ~disturbed

\* Nobody is beside the handler in write, Close or OutBuffer.
LEMMA HandlerIsAlone ==
  ASSUME Synchronous, Calm
  PROVE  /\ Threads = {"handler", "opener"} /\ "handler" # "opener"
         /\ openerPC \in Before \cup {"onOpen", "addWrite", "idle"}
         /\ openerPC \notin Busy /\ ~Racing("handler")
         /\ peer # "reset" /\ ~overlapped /\ HandlerIs
         /\ owner = "self" => HoldsInv
         /\ owner # "self" => GoneInv
PROOF
<1>1. Threads = {"handler", "opener"} /\ "handler" # "opener"
  BY DEF Synchronous, Threads
<1>2. /\ peer # "reset" /\ OpenerIs /\ HandlerIs
      /\ owner = "self" => HoldsInv
      /\ owner # "self" => GoneInv
      /\ overlapped => OpenWritten
  BY CalmIs DEF Calm
<1>3. ~OpenWritten
  BY DEF Synchronous, OpenWritten
<1>4. openerPC \notin Busy /\ openerPC # "closed"
  BY <1>2, <1>3 DEF OpenerIs
<1>5. openerPC \in LabelsOf("opener")
  BY <1>1 DEF Calm, PlacesInv, openerPC
<1>6. openerPC \in Before \cup {"onOpen", "addWrite", "idle"}
  BY <1>4, <1>5 DEF LabelsOf, Before, Unlisted
<1>7. openerPC \notin Mutating
  BY <1>4, <1>6 DEF Mutating, Before, Unlisted
<1>8. ~Racing("handler")
  BY <1>1, <1>7 DEF Racing, openerPC
<1> QED BY <1>1, <1>2, <1>3, <1>4, <1>6, <1>8

\* OnOpen only returns.
LEMMA OnOpenReturns ==
  ASSUME Synchronous, FlowTypeOK, User("opener")
  PROVE  /\ openerPC \in {"onOpen", "closed"} /\ OthersStay("opener", "addWrite", ret["opener"])
         /\ UNCHANGED <<out, rest, wire, sent, interest, kFilters, backend, owner, opened, disturbed>>
PROOF
<1>1. "opener" \in Threads
  BY ThreadsDiffer
<1>2. ~UserWrite("opener")
  BY DEF UserWrite, MsgsOf, Synchronous
<1>3. ~UserClose("opener")
  BY DEF UserClose, MayClose, Synchronous
<1>4. UserReturn("opener")
  BY <1>2, <1>3 DEF User
<1>5. /\ pc["opener"] \in {"onOpen", "closed"} /\ pc' = [pc EXCEPT !["opener"] = "addWrite"]
      /\ UNCHANGED <<wvars, kvars, lvars, ret>>
  BY <1>4 DEF UserReturn, UserLabel, Synchronous
<1>6. OthersStay("opener", "addWrite", ret["opener"])
  BY <1>1, <1>5, OthersStayHere
<1> QED BY <1>5, <1>6 DEF wvars, lvars, hist, openerPC

\* OnTrack writes, closes or returns.
LEMMA OnTrackDoes ==
  ASSUME Synchronous, FlowTypeOK, User("handler")
  PROVE  /\ disturbed' => disturbed
         /\ \/ \E m \in TrackMsgs : Call("handler", m, "track", "track")
            \/ \E to, r :
                 /\ OthersStay("handler", to, r) /\ to \in {"close", "idle"}
                 /\ handlerPC \in {"track", "closed"}
                 /\ UNCHANGED <<out, rest, wire, sent, interest, kFilters, backend, owner, opened>>
PROOF
<1>1. "handler" \in Threads
  BY ThreadsDiffer
<1>2. CASE UserWrite("handler")
  <2>1. PICK m \in TrackMsgs, l \in {"track", "closed"} : Call("handler", m, l, l)
    BY <1>2 DEF UserWrite, MsgsOf, UserLabel
  <2>2. l = "track"
    BY <2>1 DEF Call, Synchronous
  <2>3. Call("handler", m, "track", "track")
    BY <2>1, <2>2
  <2>4. disturbed' => disturbed
    BY <2>3 DEF Call
  <2> QED BY <2>3, <2>4
<1>3. CASE UserClose("handler")
  <2>1. /\ pc["handler"] \in {"track", "closed"} /\ pc' = [pc EXCEPT !["handler"] = "close"]
        /\ ret' = [ret EXCEPT !["handler"] = "closed"] /\ (disturbed' => disturbed)
        /\ UNCHANGED <<out, rest, wire, sent, interest, kFilters, backend, owner, opened>>
    BY <1>3 DEF UserClose, UserLabel, wvars
  <2>2. OthersStay("handler", "close", "closed")
    BY <1>1, <2>1, OthersDoStay
  <2> QED BY <2>1, <2>2 DEF handlerPC
<1>4. CASE UserReturn("handler")
  <2>1. /\ pc["handler"] \in {"track", "closed"} /\ pc' = [pc EXCEPT !["handler"] = "idle"]
        /\ ret' = ret /\ disturbed' = disturbed
        /\ UNCHANGED <<out, rest, wire, sent, interest, kFilters, backend, owner, opened>>
    BY <1>4 DEF UserReturn, UserLabel, wvars, lvars, hist
  <2>2. OthersStay("handler", "idle", ret["handler"])
    BY <1>1, <2>1, OthersStayHere
  <2> QED BY <2>1, <2>2 DEF handlerPC
<1> QED BY <1>2, <1>3, <1>4 DEF User

\* The steps of such a connection.
LEMMA SynchronousSteps ==
  ASSUME Synchronous, FlowTypeOK, [CNext]_cvars
  PROVE  \/ Registers \/ Event \/ Environment \/ User("opener") \/ User("handler")
         \/ \E t \in Threads : Write(t) \/ Close(t)
PROOF
<1>1. Threads = {"handler", "opener"} /\ TaskMsgs = {}
  BY DEF Synchronous, Threads
<1> QED BY <1>1, StepCases

\* Nothing disturbs it.
THEOREM SynchronousIsCalm == ASSUME Synchronous PROVE CSafe => []Calm
PROOF
<1>1. CInit => ~disturbed
  BY DEF CInit
<1>2. OnceInv /\ ~disturbed /\ [CNext]_cvars => ~disturbed'
  <2> SUFFICES ASSUME OnceInv, ~disturbed, [CNext]_cvars PROVE ~disturbed'
    OBVIOUS
  <2>1. FlowTypeOK
    BY DEF OnceInv
  <2>2. CASE Registers
    BY <2>1, <2>2, RegisterMoves
  <2>3. CASE Event
    BY <2>1, <2>3, EventMoves
  <2>4. CASE Environment
    BY <2>4, EnvironmentStays DEF Synchronous
  <2>5. CASE User("opener")
    BY <2>1, <2>5, OnOpenReturns
  <2>6. CASE User("handler")
    BY <2>1, <2>6, OnTrackDoes
  <2>7. CASE \E t \in Threads : Write(t) \/ Close(t)
    BY <2>1, <2>7, WriteMoves, CloseMoves
  <2> QED BY <2>1, <2>2, <2>3, <2>4, <2>5, <2>6, <2>7, SynchronousSteps
<1>3. OnceInv /\ LifeInv /\ DescriptorInv /\ ~disturbed => Calm
  BY DEF Calm, OnceInv
<1> QED BY <1>1, <1>2, <1>3, EachByteInOnePlace, LifeInvariant, DescriptorInvariant, PTL DEF CSafe

-----------------------------------------------------------------------------
(* The stream of a connection that only its handler writes to *)

\* The connection is on its way to be open, or it is open.
Live == opened \/ openerPC \in Before

\* What was handed to write is on the wire, in OutBuffer or with the handler, in this
\* order; once the connection is closed a beginning of it has been sent.
Stream ==
  /\ IsPrefix(wire, sent)
  /\ Live => (wire \o Unsent) \o Left("handler") = sent

\* A system call of write is made for an empty OutBuffer only.
Direct == handlerPC \in {"syscall", "buffer"} => out = <<>>

StreamInv == Stream /\ Direct /\ (owner = "self" => Live)

\* The first part of a sequence is a prefix of it.
LEMMA FirstIsPrefix ==
  ASSUME NEW A, NEW s \in Seq(A), NEW t \in Seq(A)
  PROVE  IsPrefix(s, s \o t)
PROOF
<1>1. PICK u : u = s \o t
  OBVIOUS
<1>2. Len(s) \in Nat /\ Len(t) \in Nat /\ Len(u) = Len(s) + Len(t)
  BY <1>1, LenProperties, ConcatProperties
<1>3. SubSeq(s, 1, Len(s)) = SubSeq(u, 1, Len(s))
  <2>1. CASE Len(s) = 0
    BY <2>1, SubSeqEmpty
  <2>2. CASE Len(s) # 0
    <3>1. 1 \in 1..Len(s) /\ Len(s) \in 1..Len(s)
      BY <1>2, <2>2
    <3> QED BY <1>1, <3>1, SubSeqOfConcat1
  <2> QED BY <2>1, <2>2
<1>4. Len(s) <= Len(u)
  BY <1>2
<1> QED BY <1>1, <1>3, <1>4 DEF IsPrefix

\* Nothing between two sequences.
LEMMA JoinAround ==
  ASSUME NEW A, NEW w \in Seq(A), NEW a \in Seq(A), NEW b \in Seq(A), NEW e, e = <<>>
  PROVE  ((w \o a) \o e) \o b = (w \o a) \o b
PROOF
<1>1. w \o a \in Seq(A)
  BY ConcatParts
<1>2. (w \o a) \o e = w \o a
  BY <1>1, ConcatEmptySeq
<1> QED BY <1>2, Zenon

\* The first of three sequences is a prefix of them all.
LEMMA FirstOfThree ==
  ASSUME NEW A, NEW w \in Seq(A), NEW o \in Seq(A), NEW l \in Seq(A)
  PROVE  IsPrefix(w, (w \o o) \o l)
PROOF
<1>1. PICK x : x = o \o l
  OBVIOUS
<1>2. x \in Seq(A)
  BY <1>1, ConcatParts
<1>3. IsPrefix(w, w \o x)
  BY <1>2, FirstIsPrefix
<1>4. (w \o o) \o l = w \o (o \o l)
  BY ConcatAssociative, SMTT(30)
<1> QED BY <1>1, <1>3, <1>4, Zenon

\* A step that moves bytes keeps their order.
LEMMA StreamStep ==
  ASSUME FlowTypeOK, Stream, Live' => Live,
         \/ FlowKept
         \/ Live /\ \E m \in Msgs : FlowCall("handler", m)
         \/ Live /\ owner = "self" /\ Unsent = <<>> /\ \E n : FlowSend("handler", n)
         \/ FlowBuffer("handler")
         \/ Live /\ owner = "self" /\ \E n : FlowFlush(n)
         \/ Live' = FALSE /\ FlowClear
  PROVE  Stream'
PROOF
<1>1. "handler" \in Threads
  BY ThreadsDiffer
<1>2. PICK w, o, l, e : w = wire /\ o = Unsent /\ l = Left("handler") /\ e = <<>>
  OBVIOUS
<1>3. w \in Seq(Byte) /\ o \in Seq(Byte) /\ l \in Seq(Byte) /\ e \in Seq(Byte)
  BY <1>1, <1>2, FlowTypes, EmptySeq DEF FlowTypeOK
<1>4. Live => (w \o o) \o l = sent
  BY <1>2 DEF Stream
<1>5. ASSUME NEW x \in Seq(Byte), NEW y \in Seq(Byte), NEW z \in Seq(Byte),
             wire' = x, Unsent' = y, Left("handler")' = z, (x \o y) \o z = sent'
      PROVE  Stream'
  <2>1. IsPrefix(x, (x \o y) \o z)
    BY FirstOfThree
  <2>2. IsPrefix(wire', sent')
    BY <1>5, <2>1
  <2>3. (wire' \o Unsent') \o Left("handler")' = sent'
    BY <1>5
  <2> QED BY <2>2, <2>3 DEF Stream
<1>6. ASSUME wire' = wire, sent' = sent, Live' = FALSE
      PROVE  Stream'
  BY <1>6 DEF Stream
<1>7. CASE FlowKept
  <2>1. /\ wire' = w /\ Unsent' = o /\ Left("handler")' = l /\ sent' = sent
    BY <1>1, <1>2, <1>7 DEF FlowKept
  <2>2. CASE Live
    BY <1>3, <1>4, <1>5, <2>1, <2>2
  <2>3. CASE ~Live
    BY <1>2, <2>1, <2>3 DEF Stream
  <2> QED BY <2>2, <2>3
<1>8. CASE Live /\ \E m \in Msgs : FlowCall("handler", m)
  <2>1. PICK m \in Msgs : FlowCall("handler", m)
    BY <1>8
  <2>2. PICK b : b = Bytes(m)
    OBVIOUS
  <2>3. /\ wire' = w /\ Unsent' = o /\ Left("handler")' = b /\ sent' = sent \o b /\ l = e
    BY <1>2, <2>1, <2>2 DEF FlowCall
  <2>4. b \in Seq(Byte)
    BY <2>2, BytesType
  <2>5. ((w \o o) \o e) \o b = (w \o o) \o b
    BY <1>2, <1>3, <2>4, JoinAround
  <2>6. (w \o o) \o b = sent'
    BY <1>4, <1>8, <2>3, <2>5, Zenon
  <2> QED BY <1>3, <1>5, <2>3, <2>4, <2>6
<1>9. CASE Live /\ owner = "self" /\ Unsent = <<>> /\ \E n : FlowSend("handler", n)
  <2>1. PICK n : FlowSend("handler", n)
    BY <1>9
  <2>2. PICK a, b : a = SubSeq(l, 1, n) /\ b = SubSeq(l, n + 1, Len(l))
    OBVIOUS
  <2>3. n \in 0..Len(l)
    BY <1>2, <2>1 DEF FlowSend, Taken
  <2>4. a \in Seq(Byte) /\ b \in Seq(Byte)
    BY <1>3, <2>2, <2>3, CutDistinct
  <2>5. a \o b = l
    BY <1>3, <2>2, <2>3, CutDistinct DEF Halves
  <2>6. /\ wire' = w \o a /\ Unsent' = e /\ Left("handler")' = b /\ sent' = sent /\ o = e
    BY <1>2, <1>9, <2>1, <2>2 DEF FlowSend, Taken
  <2>7. ((w \o a) \o e) \o b = (w \o e) \o (a \o b)
    <3>1. ((w \o a) \o e) \o b = (w \o a) \o b
      BY <1>2, <1>3, <2>4, JoinAround
    <3>2. \A x, y, z \in Seq(Byte) : (x \o y) \o z = x \o (y \o z)
      BY ConcatAssociative, SMTT(30)
    <3>3. (w \o a) \o b = w \o (a \o b)
      BY <1>3, <2>4, <3>2, ZenonT(40)
    <3>4. w \o e = w
      BY <1>2, <1>3, ConcatEmptySeq
    <3> QED BY <3>1, <3>3, <3>4, Zenon
  <2>8. ((w \o a) \o e) \o b = sent'
    BY <1>4, <1>9, <2>5, <2>6, <2>7, Zenon
  <2>9. w \o a \in Seq(Byte)
    BY <1>3, <2>4, ConcatParts
  <2> QED BY <1>3, <1>5, <2>4, <2>6, <2>8, <2>9
<1>10. CASE FlowBuffer("handler")
  <2>1. /\ wire' = w /\ Unsent' = o \o l /\ Left("handler")' = e /\ sent' = sent
    BY <1>2, <1>10 DEF FlowBuffer
  <2>2. CASE Live
    <3>1. (w \o (o \o l)) \o e = (w \o o) \o l
      <4>1. PICK x : x = w \o (o \o l)
        OBVIOUS
      <4>2. x \in Seq(Byte)
        BY <1>3, <4>1, ConcatParts
      <4>3. x \o e = x
        BY <1>2, <4>2, ConcatEmptySeq
      <4>4. (w \o o) \o l = w \o (o \o l)
        BY <1>3, ConcatAssociative, SMTT(30)
      <4> QED BY <4>1, <4>3, <4>4, Zenon
    <3>2. (w \o (o \o l)) \o e = sent'
      BY <1>4, <2>1, <2>2, <3>1, Zenon
    <3>3. o \o l \in Seq(Byte)
      BY <1>3, ConcatParts
    <3> QED BY <1>3, <1>5, <2>1, <3>2, <3>3
  <2>3. CASE ~Live
    BY <1>2, <2>1, <2>3 DEF Stream
  <2> QED BY <2>2, <2>3
<1>11. CASE Live /\ owner = "self" /\ \E n : FlowFlush(n)
  <2>1. PICK n : FlowFlush(n)
    BY <1>11
  <2>2. PICK a, b : a = SubSeq(o, 1, n) /\ b = SubSeq(o, n + 1, Len(o))
    OBVIOUS
  <2>3. n \in 0..Len(o)
    BY <1>2, <2>1 DEF FlowFlush, Taken
  <2>4. a \in Seq(Byte) /\ b \in Seq(Byte)
    BY <1>3, <2>2, <2>3, CutDistinct
  <2>5. a \o b = o
    BY <1>3, <2>2, <2>3, CutDistinct DEF Halves
  <2>6. /\ wire' = w \o a /\ Unsent' = b /\ Left("handler")' = l /\ sent' = sent
    BY <1>1, <1>2, <1>11, <2>1, <2>2 DEF FlowFlush, Taken
  <2>7. ((w \o a) \o b) \o l = (w \o (a \o b)) \o l
    <3>1. (w \o a) \o b = w \o (a \o b)
      <4>1. \A x, y, z \in Seq(Byte) : (x \o y) \o z = x \o (y \o z)
        BY ConcatAssociative, SMTT(30)
      <4> QED BY <1>3, <2>4, <4>1, ZenonT(40)
    <3> QED BY <3>1, Zenon
  <2>8. ((w \o a) \o b) \o l = sent'
    BY <1>4, <1>11, <2>5, <2>6, <2>7, Zenon
  <2>9. w \o a \in Seq(Byte)
    BY <1>3, <2>4, ConcatParts
  <2> QED BY <1>3, <1>5, <2>4, <2>6, <2>8, <2>9
<1>12. CASE Live' = FALSE /\ FlowClear
  BY <1>6, <1>12 DEF FlowClear
<1> QED BY <1>7, <1>8, <1>9, <1>10, <1>11, <1>12

\* The handler goes on.
LEMMA HandlerStreams ==
  ASSUME Synchronous, Calm, StreamInv, NEW to, NEW r, OthersStay("handler", to, r),
         opened' => opened, owner' = "self" => owner = "self" /\ opened' = opened,
         to \in {"syscall", "buffer"} => out' = <<>>,
         \/ FlowKept
         \/ Live /\ \E m \in Msgs : FlowCall("handler", m)
         \/ Live /\ owner = "self" /\ Unsent = <<>> /\ \E n : FlowSend("handler", n)
         \/ FlowBuffer("handler")
         \/ Live /\ owner = "self" /\ \E n : FlowFlush(n)
         \/ openerPC \notin Before /\ ~opened' /\ FlowClear
  PROVE  StreamInv'
PROOF
<1>1. handlerPC' = to /\ openerPC' = openerPC
  BY ThreadsDiffer DEF OthersStay, handlerPC, openerPC
<1>2. FlowTypeOK /\ Stream /\ (owner = "self" => Live)
  BY DEF Calm, StreamInv
<1>3. (Live' => Live) /\ (openerPC \notin Before /\ ~opened' => Live' = FALSE)
  BY <1>1 DEF Live
<1>4. Stream'
  BY <1>2, <1>3, StreamStep
<1>5. owner' = "self" => Live'
  BY <1>1, <1>2 DEF Live
<1> QED BY <1>1, <1>4, <1>5 DEF StreamInv, Direct

\* The opener writes nothing.
LEMMA OpenerStreams ==
  ASSUME Synchronous, Calm, StreamInv, Registers \/ User("opener")
  PROVE  StreamInv'
PROOF
<1>1. FlowTypeOK /\ "opener" \in Threads /\ pc \in [Threads -> ConnPC]
  BY ThreadsDiffer DEF Calm, FlowTypeOK
<1>2. PICK to : /\ OthersStay("opener", to, ret["opener"]) /\ UNCHANGED <<out, rest, wire, sent>>
                /\ to \in Before \cup {"onOpen", "idle", "addWrite"}
                /\ openerPC \in Before \cup {"onOpen", "addWrite"}
  <2>1. CASE Registers
    <3>1. openerPC \in Before \cup {"addWrite"} /\ UNCHANGED <<out, rest, wire, sent>>
      BY <1>1, <2>1, RegisterMoves DEF Before
    <3>2. PICK to \in Unlisted \cup {"open", "onOpen", "idle"} :
            OthersStay("opener", to, ret["opener"])
      BY <1>1, <2>1, RegisterMoves
    <3> QED BY <3>1, <3>2 DEF Before
  <2>2. CASE User("opener")
    <3>1. openerPC # "closed"
      BY HandlerIsAlone DEF Before, Unlisted
    <3> QED BY <1>1, <2>2, <3>1, OnOpenReturns
  <2> QED BY <2>1, <2>2
<1>3. /\ to \notin Pending \cup {"discard"} /\ openerPC \notin Pending \cup {"discard"}
  BY <1>2 DEF Pending, Before, Unlisted
<1>4. FlowKept
  BY <1>1, <1>2, <1>3, MoveKeeps DEF openerPC
<1>5. handlerPC' = handlerPC /\ openerPC' = to
  BY <1>2, ThreadsDiffer DEF OthersStay, handlerPC, openerPC
<1>6. /\ to \in Before => openerPC \in Before
      /\ opened' => opened \/ openerPC \in Before
      /\ owner' = "self" => owner = "self"
      /\ owner' = "self" /\ Live => opened' \/ to \in Before
  <2>1. pc["opener"] = openerPC /\ pc'["opener"] = to /\ openerPC' = to
    BY <1>5 DEF openerPC
  <2>2. CASE RegisterRead \/ RegisterContext \/ RegisterList
    <3>1. /\ UNCHANGED <<opened, owner>> /\ openerPC \in Before
          /\ \/ pc' = [pc EXCEPT !["opener"] = "context"] \/ pc' = [pc EXCEPT !["opener"] = "list"]
             \/ pc' = [pc EXCEPT !["opener"] = "open"]
      BY <2>2 DEF RegisterRead, RegisterContext, RegisterList, CGoto, lvars, Before, Unlisted, openerPC
    <3>2. to \in Before
      BY <1>1, <2>1, <3>1 DEF Before, Unlisted
    <3> QED BY <3>1, <3>2
  <2>3. CASE RegisterFails
    <3>1. /\ opened' = opened /\ owner' = "none" /\ openerPC \in Before
      BY <2>3 DEF RegisterFails, CGoto, Before, Unlisted, openerPC
    <3> QED BY <3>1
  <2>4. CASE OpenMark
    <3>1. /\ opened' = TRUE /\ owner' = owner /\ openerPC \in Before
      BY <2>4 DEF OpenMark, CGoto, Before, Unlisted, openerPC
    <3> QED BY <3>1
  <2>5. CASE OpenCount \/ User("opener")
    <3>1. /\ UNCHANGED <<opened, owner>> /\ openerPC \notin Before /\ to \in {"idle", "addWrite"}
      <4>1. CASE OpenCount
        BY <1>1, <2>1, <4>1 DEF OpenCount, CGoto, Before, Unlisted, openerPC
      <4>2. CASE User("opener")
        <5>1. /\ openerPC \in {"onOpen", "closed"} /\ OthersStay("opener", "addWrite", ret["opener"])
              /\ UNCHANGED <<owner, opened>>
          BY <1>1, <4>2, OnOpenReturns
        <5>2. to = "addWrite"
          BY <2>1, <5>1 DEF OthersStay
        <5> QED BY <5>1, <5>2 DEF Before, Unlisted
      <4> QED BY <2>5, <4>1, <4>2
    <3>2. to \notin Before
      BY <3>1 DEF Before, Unlisted
    <3> QED BY <3>1, <3>2 DEF Live
  <2> QED BY <2>2, <2>3, <2>4, <2>5 DEF Registers
<1>7. Live' => Live
  BY <1>5, <1>6 DEF Live
<1>8. Stream'
  BY <1>1, <1>4, <1>7, StreamStep DEF StreamInv
<1>9. owner' = "self" => Live'
  BY <1>5, <1>6 DEF StreamInv, Live
<1>10. Direct'
  BY <1>2, <1>5 DEF StreamInv, Direct
<1> QED BY <1>8, <1>9, <1>10 DEF StreamInv

\* Events.
LEMMA EventStreams ==
  ASSUME Synchronous, Calm, StreamInv, Event
  PROVE  StreamInv'
PROOF
<1>1. FlowTypeOK /\ "handler" \in Threads /\ ~Racing("handler")
  BY ThreadsDiffer, HandlerIsAlone DEF Calm
<1>2. LifeKept /\ sent' = sent
  BY <1>1, EventMoves
<1>3. PICK to, r : OthersStay("handler", to, r) /\ EventGoes(to, r)
  BY <1>1, EventMoves
<1>4. UNCHANGED <<opened, owner>>
  BY <1>2 DEF LifeKept
<1>5. to \in {"idle", "out", "in", "close", "discard", "track"}
  BY <1>3 DEF EventGoes
<1>6. FlowKept \/ (Live /\ owner = "self" /\ \E n : FlowFlush(n))
  <2>1. CASE FetchOut \/ FetchIn \/ FetchClosed \/ EventIn
    <3>1. UNCHANGED <<out, rest, wire, sent>> /\ handlerPC \in {"idle", "in"}
      BY <2>1 DEF FetchOut, FetchIn, FetchClosed, Fetch, EventIn, wvars, handlerPC
    <3>2. to # "discard" /\ pc["handler"] # "discard" /\ to \notin Pending /\ pc["handler"] \notin Pending
      BY <1>3, <3>1 DEF EventGoes, Pending, handlerPC
    <3> QED BY <1>1, <1>3, <3>1, <3>2, MoveKeeps
  <2>2. CASE EventOut
    <3>1. FlowKept \/ \E n : FlowFlush(n)
      BY <1>1, <2>2, EventOutFlows
    <3>2. handlerPC = "out"
      BY <2>2 DEF EventOut, handlerPC
    <3>3. owner = "self"
      BY <3>2, HandlerIsAlone DEF GoneInv
    <3> QED BY <3>1, <3>3 DEF StreamInv
  <2>3. CASE EventDiscard
    BY <1>1, <2>3, EventDiscardFlows
  <2> QED BY <2>1, <2>2, <2>3 DEF Event
<1> QED BY <1>3, <1>4, <1>5, <1>6, HandlerStreams

\* OnTrack.
LEMMA TrackStreams ==
  ASSUME Synchronous, Calm, StreamInv, User("handler")
  PROVE  StreamInv'
PROOF
<1>1. FlowTypeOK /\ "handler" \in Threads
  BY ThreadsDiffer DEF Calm
<1>2. CASE \E m \in TrackMsgs : Call("handler", m, "track", "track")
  <2>1. PICK m \in TrackMsgs : Call("handler", m, "track", "track")
    BY <1>2
  <2>2. m \in Msgs /\ "track" \notin Pending \cup {"discard"}
    BY DEF Msgs, Pending
  <2>3. FlowCall("handler", m)
    BY <1>1, <2>1, <2>2, CallFlows
  <2>4. /\ handlerPC = "track" /\ pc' = [pc EXCEPT !["handler"] = "write"]
        /\ ret' = [ret EXCEPT !["handler"] = "track"] /\ UNCHANGED <<opened, owner>>
    BY <2>1 DEF Call, CGoto, handlerPC
  <2>5. owner = "self"
    BY <2>4, HandlerIsAlone DEF GoneInv
  <2>6. Live
    BY <2>5 DEF StreamInv
  <2>7. OthersStay("handler", "write", "track")
    BY <1>1, <2>4, OthersDoStay
  <2> QED BY <2>2, <2>3, <2>4, <2>6, <2>7, HandlerStreams
<1>3. CASE ~\E m \in TrackMsgs : Call("handler", m, "track", "track")
  <2>1. PICK to, r : /\ OthersStay("handler", to, r) /\ to \in {"close", "idle"}
                     /\ handlerPC \in {"track", "closed"}
                     /\ UNCHANGED <<out, rest, wire, sent, owner, opened>>
    BY <1>1, <1>3, OnTrackDoes
  <2>2. to # "discard" /\ pc["handler"] # "discard" /\ to \notin Pending /\ pc["handler"] \notin Pending
    BY <2>1 DEF Pending, handlerPC
  <2>3. FlowKept
    BY <1>1, <2>1, <2>2, MoveKeeps
  <2> QED BY <2>1, <2>3, HandlerStreams
<1> QED BY <1>2, <1>3

\* Inside write.
LEMMA WriteStreams ==
  ASSUME Synchronous, Calm, StreamInv, Write("handler")
  PROVE  StreamInv'
PROOF
<1>1. FlowTypeOK /\ "handler" \in Threads /\ ~Racing("handler") /\ peer # "reset"
  BY ThreadsDiffer, HandlerIsAlone DEF Calm
<1>2. handlerPC \in Writing /\ LifeKept
  BY <1>1, WriteMoves DEF handlerPC
<1>3. PICK to : OthersStay("handler", to, ret["handler"])
  BY <1>1, WriteMoves
<1>4. owner = "self" /\ ret["handler"] = "track" /\ UNCHANGED <<opened, owner>>
  BY <1>2, HandlerIsAlone, LabelsDiffer DEF GoneInv, HandlerIs, LifeKept
<1>5. Live /\ Direct
  BY <1>4 DEF StreamInv
<1>6. pc'["handler"] = to /\ pc \in [Threads -> ConnPC]
  BY <1>1, <1>3 DEF OthersStay, FlowTypeOK
<1>7. CASE WriteCheck("handler")
  <2>1. /\ pc["handler"] = "write" /\ pc' = [pc EXCEPT !["handler"] = IF out = <<>> THEN "syscall" ELSE "append"]
        /\ UNCHANGED <<out, rest, wire, sent>>
    BY <1>7 DEF WriteCheck, CGoto, wvars
  <2>2. to = IF out = <<>> THEN "syscall" ELSE "append"
    BY <1>1, <1>6, <2>1
  <2>3. to # "discard" /\ pc["handler"] # "discard" /\ to \in Pending /\ pc["handler"] \in Pending
    BY <2>1, <2>2 DEF Pending
  <2>4. FlowKept
    BY <1>1, <1>3, <2>1, <2>3, MoveKeeps
  <2>5. to \in {"syscall", "buffer"} => out' = <<>>
    BY <2>1, <2>2
  <2> QED BY <1>3, <1>4, <2>4, <2>5, HandlerStreams
<1>8. CASE WriteModify("handler")
  <2>1. /\ pc["handler"] = "modify" /\ pc' = [pc EXCEPT !["handler"] = "track"]
        /\ UNCHANGED <<out, rest, wire, sent>>
    BY <1>4, <1>8 DEF WriteModify, CGoto
  <2>2. to = "track"
    BY <1>1, <1>6, <2>1
  <2>3. to # "discard" /\ pc["handler"] # "discard" /\ to \notin Pending /\ pc["handler"] \notin Pending
    BY <2>1, <2>2 DEF Pending
  <2>4. FlowKept
    BY <1>1, <1>3, <2>1, <2>3, MoveKeeps
  <2> QED BY <1>3, <1>4, <2>2, <2>4, HandlerStreams
<1>9. CASE WriteBuffer("handler")
  <2>1. FlowBuffer("handler")
    BY <1>1, <1>9, WriteBufferFlows
  <2>2. pc' = [pc EXCEPT !["handler"] = IF pc["handler"] = "buffer" THEN "modify" ELSE "track"]
    BY <1>4, <1>9 DEF WriteBuffer
  <2>3. to \in {"modify", "track"}
    BY <1>1, <1>6, <2>2
  <2>4. to \notin {"syscall", "buffer"}
    BY <2>3
  <2> QED BY <1>3, <1>4, <2>1, <2>4, HandlerStreams
<1>10. CASE WriteSys("handler")
  <2>1. handlerPC = "syscall" /\ out' = out
    BY <1>10 DEF WriteSys, handlerPC
  <2>2. \E n : FlowSend("handler", n)
    BY <1>1, <1>4, <1>10, WriteSysFlows
  <2>3. out = <<>> /\ Unsent = <<>>
    BY <1>5, <2>1 DEF Direct, Unsent, handlerPC
  <2> QED BY <1>3, <1>4, <1>5, <2>1, <2>2, <2>3, HandlerStreams
<1> QED BY <1>7, <1>8, <1>9, <1>10 DEF Write

\* Inside Close.
LEMMA CloseStreams ==
  ASSUME Synchronous, Calm, StreamInv, Close("handler")
  PROVE  StreamInv'
PROOF
<1>1. FlowTypeOK /\ "handler" \in Threads /\ ~Racing("handler")
  BY ThreadsDiffer, HandlerIsAlone DEF Calm
<1>2. handlerPC \in Closing \cup {"close"}
  BY <1>1, CloseMoves DEF handlerPC
<1>3. PICK to : OthersStay("handler", to, ret["handler"]) /\ (to \in Closing \/ to = ret["handler"])
  BY <1>1, CloseMoves
<1>4. ret["handler"] \in {"idle", "closed"}
  BY <1>2, HandlerIsAlone DEF HandlerIs
<1>5. /\ to # "discard" /\ pc["handler"] # "discard" /\ to \notin Pending /\ pc["handler"] \notin Pending
      /\ to \notin {"syscall", "buffer"}
  BY <1>2, <1>3, <1>4 DEF Closing, Pending, handlerPC
<1>6. CASE CloseTest("handler") \/ CloseFlushed("handler") \/ CloseUnlist("handler")
           \/ CloseNotify("handler") \/ CloseRemove("handler")
  <2>1. /\ UNCHANGED <<out, rest, wire, sent, opened>> /\ (owner' = "self" => owner = "self")
    BY <1>6 DEF CloseTest, CloseFlushed, CloseUnlist, CloseNotify, CloseRemove, wvars
  <2>2. FlowKept
    BY <1>1, <1>3, <1>5, <2>1, MoveKeeps
  <2> QED BY <1>3, <1>5, <2>1, <2>2, HandlerStreams
<1>7. CASE CloseFlush("handler")
  <2>1. handlerPC = "flush" /\ UNCHANGED <<opened, owner>>
    BY <1>7 DEF CloseFlush, CGoto, handlerPC
  <2>2. owner = "self"
    BY <2>1, HandlerIsAlone DEF GoneInv
  <2>3. Live
    BY <2>2 DEF StreamInv
  <2>4. \E n : FlowFlush(n)
    BY <1>1, <1>7, CloseFlushFlows
  <2> QED BY <1>3, <1>5, <2>1, <2>2, <2>3, <2>4, HandlerStreams
<1>8. CASE CloseRelease("handler")
  <2>1. handlerPC = "release" /\ opened' = FALSE /\ owner' = owner
    BY <1>8 DEF CloseRelease, CGoto, handlerPC
  <2>2. FlowClear
    BY <1>1, <1>8, CloseReleaseFlows
  <2>3. owner # "self" /\ openerPC \notin Before
    BY <2>1, HandlerIsAlone DEF GoneInv, HoldsInv
  <2> QED BY <1>3, <1>5, <2>1, <2>2, <2>3, HandlerStreams
<1> QED BY <1>6, <1>7, <1>8 DEF Close

\* The steps of a connection that only its handler writes to.
LEMMA StreamNext ==
  ASSUME Synchronous, Calm, StreamInv, [CNext]_cvars
  PROVE  StreamInv'
PROOF
<1>1. FlowTypeOK
  BY DEF Calm
<1>2. CASE \E t \in Threads : Write(t) \/ Close(t)
  <2>1. ~Write("opener") /\ ~Close("opener")
    BY <1>1, HandlerIsAlone, ThreadsDiffer, WriteMoves, CloseMoves DEF Busy, openerPC
  <2>2. Write("handler") \/ Close("handler")
    BY <1>2, <2>1, HandlerIsAlone
  <2> QED BY <2>2, WriteStreams, CloseStreams
<1>3. CASE Environment
  <2>1. /\ pc' = pc /\ UNCHANGED <<out, rest, wire, sent, opened>> /\ (owner' = "self" => owner = "self")
    BY <1>3, EnvironmentStays
  <2>2. FlowKept
    BY <2>1 DEF FlowKept, Unsent, Flushed, Left
  <2>3. Live' = Live
    BY <2>1 DEF Live, openerPC
  <2>4. Stream'
    BY <1>1, <2>2, <2>3, StreamStep DEF StreamInv
  <2> QED BY <2>1, <2>3, <2>4 DEF StreamInv, Direct, handlerPC
<1> QED BY <1>1, <1>2, <1>3, OpenerStreams, EventStreams, TrackStreams, SynchronousSteps

\* Nothing has been written yet.
LEMMA StreamInit ==
  ASSUME CInit
  PROVE  StreamInv
PROOF
<1>1. PICK e : e = <<>>
  OBVIOUS
<1>2. out = e /\ wire = e /\ sent = e /\ pc["handler"] = "idle"
  BY <1>1, ThreadsDiffer DEF CInit
<1>3. Unsent = e /\ Left("handler") = e
  BY <1>1, <1>2 DEF Unsent, Left, Pending
<1>4. e \in Seq(Byte) /\ e \o e = e
  BY <1>1, EmptySeq, ConcatEmptySeq
<1>5. (e \o e) \o e = e
  BY <1>4, Zenon
<1>6. IsPrefix(e, (e \o e) \o e)
  BY <1>4, FirstOfThree
<1>7. Stream
  BY <1>2, <1>3, <1>5, <1>6 DEF Stream
<1>8. Direct
  BY <1>2 DEF Direct, handlerPC
<1>9. Live
  BY ThreadsDiffer DEF CInit, Live, openerPC, Before, Unlisted
<1> QED BY <1>7, <1>8, <1>9 DEF StreamInv

\* Nothing of the stream is reordered or lost between the calls of write and the wire.
THEOREM StreamInvariant == ASSUME Synchronous PROVE CSafe => []StreamInv
PROOF
<1>1. CInit => StreamInv
  BY StreamInit
<1>2. Calm /\ StreamInv /\ [CNext]_cvars => StreamInv'
  BY StreamNext
<1> QED BY <1>1, <1>2, SynchronousIsCalm, PTL DEF CSafe

\* The peer receives what OnTrack writes in the order of the calls, for any messages and any
\* sizes of the buffers: the direct write, what is left of a vector, OutBuffer and its
\* flushing neither lose a byte of it nor change its place; Close cuts off the end at most.
THEOREM PeerReceivesTheStream == ASSUME Synchronous PROVE CSafe => []StreamIntact
PROOF
<1>1. StreamInv /\ OnceInv => StreamIntact
  <2> SUFFICES ASSUME StreamInv, OnceInv
               PROVE  StreamIntact
    OBVIOUS
  <2>1. IsPrefix(wire, sent)
    BY DEF StreamInv, Stream
  <2>2. ASSUME Quiet, opened PROVE wire \o out = sent
    <3>1. pc["handler"] \notin Pending \cup {"discard"}
      BY <2>2, ThreadsDiffer DEF Quiet, Pending
    <3>2. PICK x : x = wire \o out
      OBVIOUS
    <3>3. Unsent = out /\ Left("handler") = <<>>
      BY <3>1 DEF Unsent, Left
    <3>4. (wire \o Unsent) \o Left("handler") = sent
      BY <2>2 DEF StreamInv, Stream, Live
    <3>5. x \o <<>> = sent
      BY <3>2, <3>3, <3>4, Zenon
    <3>6. x \in Seq(Byte)
      BY <3>2, ConcatParts DEF OnceInv, FlowTypeOK
    <3>7. x \o <<>> = x
      BY <3>6, ConcatEmptySeq
    <3> QED BY <3>2, <3>5, <3>7
  <2> QED BY <2>1, <2>2 DEF StreamIntact
<1> QED BY <1>1, StreamInvariant, EachByteInOnePlace, PTL

-----------------------------------------------------------------------------
(* The interest in a connection that only its handler writes to *)

\* The descriptor is watched for reading, with epoll for writing if and only if OutBuffer
\* holds something, except on the way from the one to the other.  kqueue keeps the filter of
\* RegisterConn or of Open; with the former, a connection with buffered bytes is watched.
Watched ==
  /\ "in" \in interest
  /\ backend = "epoll" /\ handlerPC \notin {"modify", "flush", "remove"} =>
       ("out" \in interest <=> out # <<>>)
  /\ backend = "kqueue" => kFilters \in {{"in"}, {"out"}}
  /\ backend = "kqueue" /\ kFilters = {"in"} /\ handlerPC # "modify" /\ out # <<>> =>
       "out" \in interest

\* It is watched from RegisterConn to CloseFd; write goes to OutBuffer with something, and the
\* handler flushes and watches for what OutBuffer really holds.
InterestInv ==
  /\ backend \in {"epoll", "kqueue"}
  /\ openerPC = "register" => interest = {} /\ out = <<>>
  /\ handlerPC \in {"modify", "append", "discard"} => out # <<>>
  /\ handlerPC = "buffer" => Left("handler") # <<>>
  /\ owner = "self" /\ openerPC # "register" => Watched

\* A descriptor that is not this connection's: nothing is to be watched.
LEMMA Unwatched ==
  ASSUME InterestInv, backend' = backend, owner' # "self", openerPC' # "register",
         handlerPC' \notin {"modify", "append", "discard", "buffer"}
  PROVE  InterestInv'
PROOF BY DEF InterestInv

\* Where the handler works on the descriptor, it is watched.
LEMMA WorkIsWatched ==
  ASSUME Synchronous, Calm, InterestInv,
         handlerPC \in Writing \cup {"out", "in", "track", "discard", "flush"}
  PROVE  /\ owner = "self" /\ openerPC # "register" /\ Watched
         /\ backend \in {"epoll", "kqueue"}
PROOF
<1>1. handlerPC \notin {"idle", "closed", "close", "unlist", "onClose", "release"}
  BY LabelsDiffer
<1>2. owner = "self"
  BY <1>1, HandlerIsAlone DEF GoneInv
<1>3. openerPC # "register"
  BY <1>1, <1>2, HandlerIsAlone DEF HoldsInv, Unlisted
<1> QED BY <1>2, <1>3 DEF InterestInv

\* The handler goes on, and leaves OutBuffer and the interest alone.
LEMMA HandlerWatches ==
  ASSUME InterestInv, NEW to, NEW r, OthersStay("handler", to, r),
         UNCHANGED <<out, interest, kFilters, backend, owner>>,
         handlerPC \notin {"modify", "flush", "remove"},
         to \in {"modify", "append", "discard"} => out # <<>>,
         to = "buffer" => Left("handler")' # <<>>
  PROVE  InterestInv'
PROOF
<1>1. handlerPC' = to /\ openerPC' = openerPC
  BY ThreadsDiffer DEF OthersStay, handlerPC, openerPC
<1>2. owner = "self" /\ openerPC # "register" => Watched'
  BY DEF InterestInv, Watched
<1> QED BY <1>1, <1>2 DEF InterestInv

\* The opener: AddRead begins to watch; AddWrite fails with epoll, and stores its filter with
\* kqueue.
LEMMA OpenerWatches ==
  ASSUME Synchronous, Calm, InterestInv, Registers \/ User("opener")
  PROVE  InterestInv'
PROOF
<1>1. FlowTypeOK /\ "opener" \in Threads /\ "handler" \in Threads /\ pc \in [Threads -> ConnPC]
      /\ "handler" # "opener"
  BY ThreadsDiffer DEF Calm, FlowTypeOK
<1>2. openerPC = "register" => handlerPC = "idle"
  BY HandlerIsAlone DEF HoldsInv, GoneInv, Before, Unlisted
<1>3. ASSUME NEW to, pc' = [pc EXCEPT !["opener"] = to]
      PROVE  openerPC' = to /\ handlerPC' = handlerPC
  BY <1>1, <1>3 DEF openerPC, handlerPC
<1>4. ASSUME NEW to, pc' = [pc EXCEPT !["opener"] = to], openerPC # "register", to # "register",
             UNCHANGED <<out, interest, kFilters, rest, backend, owner>>
      PROVE  InterestInv'
  <2>1. openerPC' = to /\ handlerPC' = handlerPC
    BY <1>3, <1>4
  <2>2. Left("handler")' = Left("handler")
    BY <1>4, <2>1 DEF Left, handlerPC
  <2>3. Watched => Watched'
    BY <1>4, <2>1 DEF Watched
  <2> QED BY <1>4, <2>1, <2>2, <2>3 DEF InterestInv
<1>5. CASE RegisterRead
  <2>1. /\ openerPC = "register" /\ pc' = [pc EXCEPT !["opener"] = "context"]
        /\ out' = out /\ owner' = owner /\ backend' = backend
    BY <1>5 DEF RegisterRead, CGoto, lvars, openerPC
  <2>2. openerPC' = "context" /\ handlerPC' = handlerPC
    BY <1>3, <2>1
  <2>3. interest = {} /\ out = <<>> /\ backend \in {"epoll", "kqueue"}
    BY <2>1 DEF InterestInv
  <2>4. interest' = {"in"} /\ (backend = "kqueue" => kFilters' = {"in"})
    BY <1>5, <2>3 DEF RegisterRead, PollAdd, AddFails
  <2>5. Watched'
    BY <2>1, <2>3, <2>4 DEF Watched
  <2> QED BY <1>2, <2>1, <2>2, <2>3, <2>5 DEF InterestInv
<1>6. CASE RegisterFails
  <2>1. /\ openerPC = "register" /\ pc' = [pc EXCEPT !["opener"] = "idle"]
        /\ owner' = "none" /\ backend' = backend
    BY <1>6 DEF RegisterFails, CGoto, openerPC
  <2>2. openerPC' = "idle" /\ handlerPC' = handlerPC
    BY <1>3, <2>1
  <2> QED BY <1>2, <2>1, <2>2, Unwatched
<1>7. CASE RegisterContext \/ RegisterList \/ OpenMark
  <2>1. PICK to : /\ pc' = [pc EXCEPT !["opener"] = to] /\ to \in {"list", "open", "onOpen"}
                  /\ openerPC \in {"context", "list", "open"}
                  /\ UNCHANGED <<out, interest, kFilters, rest, backend, owner>>
    BY <1>7 DEF RegisterContext, RegisterList, OpenMark, CGoto, wvars, openerPC
  <2>2. openerPC # "register" /\ to # "register"
    BY <2>1
  <2> QED BY <1>4, <2>1, <2>2
<1>8. CASE User("opener")
  <2>1. /\ openerPC \in {"onOpen", "closed"} /\ pc' = [pc EXCEPT !["opener"] = "addWrite"]
        /\ UNCHANGED <<out, interest, kFilters, rest, backend, owner>>
    BY <1>1, <1>8, OnOpenReturns DEF OthersStay
  <2> QED BY <1>4, <2>1
<1>9. CASE OpenCount
  <2>1. /\ openerPC = "addWrite" /\ pc' = [pc EXCEPT !["opener"] = "idle"]
        /\ out' = out /\ owner' = owner /\ backend' = backend /\ rest' = rest
    BY <1>9 DEF OpenCount, CGoto, openerPC
  <2>2. CASE interest' = interest /\ kFilters' = kFilters
    BY <1>4, <2>1, <2>2
  <2>3. CASE ~(interest' = interest /\ kFilters' = kFilters)
    <3>1. openerPC' = "idle" /\ handlerPC' = handlerPC
      BY <1>3, <2>1
    <3>2. owner = "self" /\ PollAdd({"out"})
      BY <1>9, <2>3 DEF OpenCount
    <3>3. Watched /\ backend \in {"epoll", "kqueue"}
      BY <2>1, <3>2 DEF InterestInv
    <3>4. backend = "kqueue"
      BY <2>3, <3>2, <3>3 DEF PollAdd, AddFails, Watched
    <3>5. interest' = interest \cup {"out"} /\ kFilters' = {"out"}
      BY <3>2, <3>4 DEF PollAdd
    <3>6. "out" \in kFilters' /\ "out" \notin {"in"}
      BY <3>5
    <3>7. Watched'
      BY <2>1, <3>3, <3>4, <3>5, <3>6 DEF Watched
    <3>8. Left("handler")' = Left("handler")
      BY <2>1, <3>1 DEF Left, handlerPC
    <3> QED BY <2>1, <3>1, <3>7, <3>8 DEF InterestInv
  <2> QED BY <2>2, <2>3
<1> QED BY <1>5, <1>6, <1>7, <1>8, <1>9 DEF Registers

\* Events: ModRead ends the watching for writability when OutBuffer is empty.
LEMMA EventWatches ==
  ASSUME Synchronous, Calm, InterestInv, Event
  PROVE  InterestInv'
PROOF
<1>1. FlowTypeOK /\ "handler" \in Threads /\ ~Racing("handler")
  BY ThreadsDiffer, HandlerIsAlone DEF Calm
<1>2. LifeKept
  BY <1>1, EventMoves
<1>3. PICK to, r : OthersStay("handler", to, r) /\ EventGoes(to, r)
  BY <1>1, EventMoves
<1>4. owner' = owner
  BY <1>2 DEF LifeKept
<1>5. CASE FetchOut \/ FetchIn \/ FetchClosed \/ EventIn
  <2>1. UNCHANGED <<out, interest, kFilters, backend>> /\ handlerPC \in {"idle", "in"}
    BY <1>5 DEF FetchOut, FetchIn, FetchClosed, Fetch, EventIn, wvars, lvars, handlerPC
  <2>2. to \notin {"modify", "append", "discard", "buffer"} /\ handlerPC \notin {"modify", "flush", "remove"}
    BY <1>3, <2>1 DEF EventGoes
  <2> QED BY <1>3, <1>4, <2>1, <2>2, HandlerWatches
<1>6. CASE EventOut
  <2>1. UNCHANGED <<out, interest, kFilters, backend>> /\ handlerPC = "out"
    BY <1>6 DEF EventOut, handlerPC
  <2>2. pc'["handler"] = to /\ pc \in [Threads -> ConnPC]
    BY <1>1, <1>3 DEF OthersStay, FlowTypeOK
  <2>3. to = "discard" => out # <<>>
    <3>1. Seen("handler") = {out}
      BY <1>1 DEF Seen
    <3>2. \/ pc' = [pc EXCEPT !["handler"] = "idle"] \/ pc' = [pc EXCEPT !["handler"] = "close"]
          \/ out # <<>>
      BY <1>6, <3>1 DEF EventOut
    <3> QED BY <1>1, <2>2, <3>2
  <2>4. to \notin {"modify", "append", "buffer"}
    BY <1>3, <2>1 DEF EventGoes
  <2> QED BY <1>3, <1>4, <2>1, <2>3, <2>4, HandlerWatches
<1>7. CASE EventDiscard
  <2>1. handlerPC = "discard" /\ backend' = backend /\ pc' = [pc EXCEPT !["handler"] = "idle"]
    BY <1>7 DEF EventDiscard, CGoto, handlerPC
  <2>2. handlerPC' = "idle" /\ openerPC' = openerPC
    BY <1>1, <2>1, ThreadsDiffer DEF FlowTypeOK, handlerPC, openerPC
  <2>3. owner = "self" /\ openerPC # "register" /\ Watched /\ backend \in {"epoll", "kqueue"}
    BY <2>1, WorkIsWatched
  <2>4. out # <<>>
    BY <2>1 DEF InterestInv
  <2>5. CASE out' = <<>>
    <3>1. Flushed > 0
      <4>1. PICK seen \in Seen("handler") : out' = SubSeq(seen, Flushed + 1, Len(seen))
        BY <1>7 DEF EventDiscard
      <4>2. seen = out /\ out \in Seq(Byte) /\ Flushed \in Nat /\ Len(out) \in Nat
        BY <1>1, <4>1, SeenType, FlowTypes, LenProperties DEF FlowTypeOK
      <4>3. Flushed = 0 => out' = out
        BY <4>1, <4>2, SubSeqFull
      <4> QED BY <2>4, <2>5, <4>2, <4>3
    <3>2. PollMod({"in"})
      BY <1>7, <2>5, <3>1 DEF EventDiscard
    <3>3. kFilters' = kFilters
      BY <3>2 DEF PollMod
    <3>4. CASE backend = "epoll"
      <4>1. interest' = {"in"}
        BY <2>3, <3>2, <3>4 DEF PollMod, ModFails, Watched
      <4>2. Watched'
        BY <2>1, <2>5, <3>3, <3>4, <4>1 DEF Watched
      <4> QED BY <1>4, <2>1, <2>2, <2>3, <4>2 DEF InterestInv
    <3>5. CASE backend = "kqueue"
      <4>1. kFilters \in {{"in"}, {"out"}} /\ "in" \in interest
        BY <2>3, <3>5 DEF Watched
      <4>2. kFilters # {} /\ "in" \notin kFilters \ {"in"}
        BY <4>1
      <4>3. interest' = (interest \cup ({"in"} \ kFilters)) \ (kFilters \ {"in"})
        BY <3>2, <3>5, <4>2 DEF PollMod, ModFails
      <4>4. "in" \in interest'
        BY <4>1, <4>2, <4>3
      <4>5. Watched'
        BY <2>1, <2>5, <3>3, <3>5, <4>1, <4>4 DEF Watched
      <4> QED BY <1>4, <2>1, <2>2, <2>3, <4>5 DEF InterestInv
    <3> QED BY <2>3, <3>4, <3>5
  <2>6. CASE out' # <<>>
    <3>1. interest' = interest /\ kFilters' = kFilters
      BY <1>7, <2>6 DEF EventDiscard
    <3>2. Watched'
      BY <2>1, <2>2, <2>3, <2>4, <2>6, <3>1 DEF Watched
    <3> QED BY <1>4, <2>1, <2>2, <2>3, <3>2 DEF InterestInv
  <2> QED BY <2>5, <2>6
<1> QED BY <1>5, <1>6, <1>7 DEF Event

\* OnTrack.
LEMMA TrackWatches ==
  ASSUME Synchronous, Calm, InterestInv, User("handler")
  PROVE  InterestInv'
PROOF
<1>1. FlowTypeOK /\ "handler" \in Threads
  BY ThreadsDiffer DEF Calm
<1>2. CASE \E m \in TrackMsgs : Call("handler", m, "track", "track")
  <2>1. /\ handlerPC = "track" /\ pc' = [pc EXCEPT !["handler"] = "write"]
        /\ ret' = [ret EXCEPT !["handler"] = "track"]
        /\ UNCHANGED <<out, interest, kFilters, backend, owner>>
    BY <1>2 DEF Call, CGoto, handlerPC
  <2>2. OthersStay("handler", "write", "track")
    BY <1>1, <2>1, OthersDoStay
  <2> QED BY <2>1, <2>2, HandlerWatches
<1>3. CASE ~\E m \in TrackMsgs : Call("handler", m, "track", "track")
  <2>1. PICK to, r : /\ OthersStay("handler", to, r) /\ to \in {"close", "idle"}
                     /\ handlerPC \in {"track", "closed"}
                     /\ UNCHANGED <<out, interest, kFilters, backend, owner>>
    BY <1>1, <1>3, OnTrackDoes
  <2>2. to \notin {"modify", "append", "discard", "buffer"} /\ handlerPC \notin {"modify", "flush", "remove"}
    BY <2>1
  <2> QED BY <2>1, <2>2, HandlerWatches
<1> QED BY <1>2, <1>3

\* Inside write: what is left over goes to OutBuffer, and then ModReadWrite watches for
\* writability.
LEMMA WriteWatches ==
  ASSUME Synchronous, Calm, InterestInv, Write("handler")
  PROVE  InterestInv'
PROOF
<1>1. FlowTypeOK /\ "handler" \in Threads /\ ~Racing("handler") /\ pc \in [Threads -> ConnPC]
  BY ThreadsDiffer, HandlerIsAlone DEF Calm, FlowTypeOK
<1>2. handlerPC \in Writing /\ LifeKept
  BY <1>1, WriteMoves DEF handlerPC
<1>3. PICK to : OthersStay("handler", to, ret["handler"])
  BY <1>1, WriteMoves
<1>4. owner = "self" /\ openerPC # "register" /\ Watched /\ backend \in {"epoll", "kqueue"}
  BY <1>2, WorkIsWatched
<1>5. ret["handler"] = "track" /\ owner' = owner
  BY <1>2, HandlerIsAlone DEF HandlerIs, LifeKept
<1>6. pc'["handler"] = to /\ handlerPC' = to /\ openerPC' = openerPC
  BY <1>3, ThreadsDiffer DEF OthersStay, handlerPC, openerPC
<1>7. CASE WriteCheck("handler")
  <2>1. /\ handlerPC = "write" /\ UNCHANGED <<out, interest, kFilters, backend>>
        /\ pc' = [pc EXCEPT !["handler"] = IF out = <<>> THEN "syscall" ELSE "append"]
    BY <1>7 DEF WriteCheck, CGoto, wvars, lvars, handlerPC
  <2>2. to = IF out = <<>> THEN "syscall" ELSE "append"
    BY <1>1, <1>6, <2>1
  <2> QED BY <1>3, <1>5, <2>1, <2>2, HandlerWatches
<1>8. CASE WriteSys("handler")
  <2>1. handlerPC = "syscall" /\ UNCHANGED <<out, interest, kFilters, backend>>
    BY <1>8 DEF WriteSys, handlerPC
  <2>2. PICK data : data = FlattenSeq(rest["handler"])
    OBVIOUS
  <2>3. data \in Seq(Byte) /\ Len(data) \in Nat
    BY <1>1, <2>2, FlowTypes, LenProperties
  <2>4. ASSUME to = "buffer" PROVE Left("handler")' # <<>>
    <3>1. PICK n \in 0..Len(FlattenSeq(rest["handler"])) :
            /\ rest' = [rest EXCEPT !["handler"] = Remainder(@, n)]
            /\ n # Len(FlattenSeq(rest["handler"]))
      <4>1. ASSUME NEW l, pc' = [pc EXCEPT !["handler"] = l] PROVE l = "buffer"
        BY <1>1, <1>6, <2>4, <4>1
      <4>2. ret["handler"] # "buffer" /\ "close" # "buffer"
        BY <1>5
      <4> QED BY <1>8, <4>1, <4>2 DEF WriteSys
    <3>2. rest["handler"] \in Seq(Seq(Byte))
      BY <1>1 DEF FlowTypeOK
    <3>3. FlattenSeq(Remainder(rest["handler"], n)) = SubSeq(data, n + 1, Len(data))
      BY <2>2, <3>1, <3>2, RemainderIs
    <3>4. n \in Nat /\ n < Len(data)
      BY <2>2, <2>3, <3>1
    <3>5. PICK v : v = SubSeq(data, n + 1, Len(data))
      OBVIOUS
    <3>6. Cut(data, n + 1, Len(data), v)
      BY <2>3, <3>4, <3>5, RestType
    <3>7. Len(v) = Len(data) - (n + 1) + 1
      BY <3>6 DEF Cut
    <3>8. Len(v) # 0
      BY <2>3, <3>4, <3>7
    <3>9. v # <<>>
      BY <3>8, EmptySeq
    <3>10. PICK x : x = Remainder(rest["handler"], n)
      OBVIOUS
    <3>11. rest'["handler"] = x
      BY <1>1, <3>1, <3>10 DEF FlowTypeOK
    <3>12. Left("handler")' = FlattenSeq(x)
      BY <1>6, <2>4, <3>11 DEF Left, Pending
    <3> QED BY <3>3, <3>5, <3>9, <3>10, <3>12
  <2>5. to \notin {"modify", "append", "discard"}
    <3>1. \/ pc' = [pc EXCEPT !["handler"] = "track"] \/ pc' = [pc EXCEPT !["handler"] = "buffer"]
          \/ pc' = [pc EXCEPT !["handler"] = "close"]
      BY <1>5, <1>8 DEF WriteSys
    <3> QED BY <1>1, <1>6, <3>1
  <2> QED BY <1>3, <1>5, <2>1, <2>4, <2>5, HandlerWatches
<1>9. CASE WriteBuffer("handler")
  <2>1. FlowBuffer("handler")
    BY <1>1, <1>9, WriteBufferFlows
  <2>2. /\ handlerPC \in {"buffer", "append"} /\ UNCHANGED <<interest, kFilters, backend>>
        /\ pc' = [pc EXCEPT !["handler"] = IF handlerPC = "buffer" THEN "modify" ELSE "track"]
    BY <1>5, <1>9 DEF WriteBuffer, handlerPC
  <2>3. to = IF handlerPC = "buffer" THEN "modify" ELSE "track"
    BY <1>1, <1>6, <2>2
  <2>4. PICK o, l : o = out /\ l = Left("handler")
    OBVIOUS
  <2>5. o \in Seq(Byte) /\ l \in Seq(Byte)
    BY <1>1, <2>4, FlowTypes DEF FlowTypeOK
  <2>6. out' = o \o l
    <3>1. Unsent' = Unsent \o Left("handler")
      BY <2>1 DEF FlowBuffer
    <3>2. Unsent = out /\ Unsent' = out'
      BY <1>6, <2>2, <2>3 DEF Unsent, handlerPC
    <3> QED BY <2>4, <3>1, <3>2
  <2>7. o # <<>> \/ l # <<>>
    BY <2>2, <2>4 DEF InterestInv
  <2>8. out' # <<>>
    BY <2>5, <2>6, <2>7, ConcatEqualIffEmpty
  <2>9. to = "track" => out # <<>> /\ handlerPC = "append"
    BY <2>2, <2>3 DEF InterestInv
  <2>10. to \in {"track", "modify"}
    BY <2>3
  <2>11. Watched'
    BY <1>4, <1>6, <2>2, <2>8, <2>9, <2>10 DEF Watched
  <2> QED BY <1>4, <1>5, <1>6, <2>2, <2>8, <2>10, <2>11 DEF InterestInv
<1>10. CASE WriteModify("handler")
  <2>1. /\ handlerPC = "modify" /\ pc' = [pc EXCEPT !["handler"] = "track"]
        /\ UNCHANGED <<out, backend>> /\ PollMod({"in", "out"})
    BY <1>5, <1>10 DEF WriteModify, CGoto, handlerPC
  <2>2. to = "track"
    BY <1>1, <1>6, <2>1
  <2>3. out # <<>> /\ kFilters' = kFilters
    BY <2>1 DEF InterestInv, PollMod
  <2>4. CASE backend = "epoll"
    <3>1. interest' = {"in", "out"}
      BY <1>4, <2>1, <2>4 DEF PollMod, ModFails, Watched
    <3>2. Watched'
      BY <2>1, <2>3, <2>4, <3>1 DEF Watched
    <3> QED BY <1>4, <1>5, <1>6, <2>1, <2>2, <3>2 DEF InterestInv
  <2>5. CASE backend = "kqueue"
    <3>1. kFilters \in {{"in"}, {"out"}} /\ "in" \in interest
      BY <1>4, <2>5 DEF Watched
    <3>2. kFilters # {} /\ kFilters \ {"in", "out"} = {}
      BY <3>1
    <3>3. interest' = (interest \cup ({"in", "out"} \ kFilters)) \ (kFilters \ {"in", "out"})
      BY <2>1, <2>5, <3>2 DEF PollMod, ModFails
    <3>4. interest' = interest \cup ({"in", "out"} \ kFilters)
      BY <3>2, <3>3
    <3>5. "in" \in interest'
      BY <3>1, <3>4
    <3>6. kFilters = {"in"} => "out" \in interest'
      BY <3>4
    <3>7. Watched'
      BY <2>1, <2>3, <2>5, <3>1, <3>5, <3>6 DEF Watched
    <3> QED BY <1>4, <1>5, <1>6, <2>1, <2>2, <3>7 DEF InterestInv
  <2> QED BY <1>4, <2>4, <2>5
<1> QED BY <1>7, <1>8, <1>9, <1>10 DEF Write

\* Inside Close: RemoveFd and CloseFd end the watching.
LEMMA CloseWatches ==
  ASSUME Synchronous, Calm, InterestInv, Close("handler")
  PROVE  InterestInv'
PROOF
<1>1. FlowTypeOK /\ "handler" \in Threads /\ ~Racing("handler") /\ pc \in [Threads -> ConnPC]
  BY ThreadsDiffer, HandlerIsAlone DEF Calm, FlowTypeOK
<1>2. handlerPC \in Closing \cup {"close"}
  BY <1>1, CloseMoves DEF handlerPC
<1>3. PICK to : OthersStay("handler", to, ret["handler"]) /\ (to \in Closing \/ to = ret["handler"])
  BY <1>1, CloseMoves
<1>4. ret["handler"] \in {"idle", "closed"}
  BY <1>2, HandlerIsAlone DEF HandlerIs
<1>5. to \notin {"modify", "append", "discard", "buffer"} /\ to \in Closing \cup {"idle", "closed"}
  BY <1>3, <1>4 DEF Closing
<1>6. openerPC # "register"
  BY <1>2, HandlerIsAlone, LabelsDiffer DEF HoldsInv, GoneInv, Before, Unlisted
<1>7. handlerPC' = to /\ openerPC' = openerPC
  BY <1>3, ThreadsDiffer DEF OthersStay, handlerPC, openerPC
<1>8. CASE CloseTest("handler")
  <2>1. handlerPC = "close" /\ UNCHANGED <<out, interest, kFilters, backend, owner>>
    BY <1>8 DEF CloseTest, CGoto, wvars, handlerPC
  <2> QED BY <1>3, <1>5, <2>1, HandlerWatches
<1>9. CASE CloseUnlist("handler") \/ CloseNotify("handler") \/ CloseRelease("handler")
  <2>1. /\ handlerPC \in {"unlist", "onClose", "release"} /\ backend' = backend /\ owner' = owner
    BY <1>9 DEF CloseUnlist, CloseNotify, CloseRelease, CGoto, handlerPC
  <2>2. owner # "self"
    BY <2>1, HandlerIsAlone DEF HoldsInv
  <2> QED BY <1>5, <1>6, <1>7, <2>1, <2>2, Unwatched
<1>10. CASE CloseRemove("handler")
  <2>1. owner' = "none" /\ backend' = backend
    BY <1>10 DEF CloseRemove
  <2> QED BY <1>5, <1>6, <1>7, <2>1, Unwatched
<1>11. CASE CloseFlush("handler") \/ CloseFlushed("handler")
  <2>1. /\ handlerPC = "flush" /\ UNCHANGED <<interest, kFilters, backend, owner>>
        /\ pc' = [pc EXCEPT !["handler"] = "flush"] \/ pc' = [pc EXCEPT !["handler"] = "remove"]
    BY <1>11 DEF CloseFlush, CloseFlushed, CGoto, wvars, handlerPC
  <2>2. to \in {"flush", "remove"}
    BY <1>1, <1>7, <2>1 DEF handlerPC
  <2>3. Watched /\ backend \in {"epoll", "kqueue"}
    BY <2>1, WorkIsWatched
  <2>4. out' # <<>> => out # <<>>
    <3>1. CASE CloseFlushed("handler")
      BY <3>1 DEF CloseFlushed, wvars
    <3>2. CASE CloseFlush("handler")
      <4>1. PICK seen \in Seen("handler") : \E n \in 1..Len(seen) : TRUE
        BY <3>2 DEF CloseFlush
      <4>2. seen = out
        BY <1>1, <4>1, SeenType
      <4>3. Len(out) # 0
        BY <4>1, <4>2
      <4> QED BY <4>3, EmptySeq
    <3> QED BY <1>11, <3>1, <3>2
  <2>5. Watched'
    BY <1>7, <2>1, <2>2, <2>3, <2>4 DEF Watched
  <2> QED BY <1>5, <1>6, <1>7, <2>1, <2>3, <2>5 DEF InterestInv
<1> QED BY <1>8, <1>9, <1>10, <1>11 DEF Close

\* The invariant holds in every state of a connection that only its handler writes to.
THEOREM InterestInvariant == ASSUME Synchronous PROVE CSafe => []InterestInv
PROOF
<1>1. CInit => InterestInv
  BY ConnAssumption, ThreadsDiffer DEF CInit, InterestInv, handlerPC, openerPC
<1>2. Calm /\ InterestInv /\ [CNext]_cvars => InterestInv'
  <2> SUFFICES ASSUME Calm, InterestInv, [CNext]_cvars
               PROVE  InterestInv'
    OBVIOUS
  <2>1. FlowTypeOK
    BY DEF Calm
  <2>2. CASE \E t \in Threads : Write(t) \/ Close(t)
    <3>1. ~Write("opener") /\ ~Close("opener")
      BY <2>1, HandlerIsAlone, ThreadsDiffer, WriteMoves, CloseMoves DEF Busy, openerPC
    <3>2. Write("handler") \/ Close("handler")
      BY <2>2, <3>1, HandlerIsAlone
    <3> QED BY <3>2, WriteWatches, CloseWatches
  <2>3. CASE Environment
    <3>1. /\ pc' = pc /\ UNCHANGED <<out, interest, kFilters, rest, backend>>
          /\ owner' = "self" => owner = "self"
      BY <2>3, EnvironmentStays
    <3>2. /\ handlerPC' = handlerPC /\ openerPC' = openerPC
          /\ Left("handler")' = Left("handler")
      BY <3>1 DEF handlerPC, openerPC, Left
    <3>3. Watched => Watched'
      BY <3>1, <3>2 DEF Watched
    <3> QED BY <3>1, <3>2, <3>3 DEF InterestInv
  <2> QED BY <2>1, <2>2, <2>3, OpenerWatches, EventWatches, TrackWatches, SynchronousSteps
<1> QED BY <1>1, <1>2, SynchronousIsCalm, PTL DEF CSafe

\* A connection at rest is watched for reading, and for writing if OutBuffer holds something
\* (with epoll only then): whatever write, the flushing of OutBuffer and OpenCount's AddWrite did
\* before, the last ModRead or ModReadWrite agrees with OutBuffer.
THEOREM BufferedBytesAreWatched == ASSUME Synchronous PROVE CSafe => []InterestMatchesBuffer
PROOF
<1>1. InterestInv => InterestMatchesBuffer
  <2> SUFFICES ASSUME InterestInv, Quiet, owner = "self", interest # {}
               PROVE  /\ "in" \in interest
                      /\ out # <<>> /\ ~FilterForgotten => "out" \in interest
                      /\ backend = "epoll" /\ "out" \in interest => out # <<>>
    BY DEF InterestMatchesBuffer
  <2>1. handlerPC \notin {"modify", "flush", "remove"}
    BY ThreadsDiffer DEF Quiet, handlerPC
  <2>2. openerPC # "register"
    BY DEF InterestInv
  <2>3. Watched /\ backend \in {"epoll", "kqueue"}
    BY <2>2 DEF InterestInv
  <2> QED BY <2>1, <2>3 DEF Watched, FilterForgotten
<1> QED BY <1>1, InterestInvariant, PTL
=============================================================================
