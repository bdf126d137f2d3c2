--------------------------- MODULE FlattenLemmas ---------------------------
(***************************************************************************)
(* What FlattenSeq returns, for every sequence of sequences: the parts lie *)
(* one behind the other, each from the offset at which the ones before it  *)
(* end.  ConnIO flattens the vectors of writev, HttpRequest the requests   *)
(* of the peer.                                                            *)
(*                                                                         *)
(* Induction is by the least counterexample: a set of natural numbers that *)
(* is not empty has a least element.                                       *)
(***************************************************************************)
EXTENDS Integers, Sequences, SequencesExt, SequenceTheorems, WellFoundedInduction, TLAPS

\* The parts of s begin behind off[1], off[2], ..., and the last ends at the last offset.
Layout(s, off) ==
  /\ off \in [1..(Len(s) + 1) -> Nat] /\ off[1] = 0
  /\ \A i \in 1..Len(s) : off[i + 1] = off[i] + Len(s[i])

\* t is s with its parts put one behind the other.
Flat(s, off, t) ==
  /\ Layout(s, off)
  /\ Len(t) = off[Len(s) + 1]
  /\ \A i \in 1..Len(s) : \A k \in 1..Len(s[i]) : t[off[i] + k] = s[i][k]

\* The function that FlattenSeq defines by recursion, up to n.
Runs(s, f, n) == f = [i \in 1..n |-> IF i = 1 THEN s[i] ELSE f[i - 1] \o s[i]]

-----------------------------------------------------------------------------
(* The recursion of FlattenSeq *)

\* A set of natural numbers that is not empty has a least element.
LEMMA LeastNat ==
  ASSUME NEW S \in SUBSET Nat, S # {}
  PROVE  \E x \in S : \A y \in S : x <= y
PROOF
<1>1. PICK x \in S : \A y \in S : ~(<<y, x>> \in OpToRel(<, Nat))
  BY NatLessThanWellFounded, WFMin
<1>2. \A y \in S : x <= y
  <2> SUFFICES ASSUME NEW y \in S, ~(x <= y)
               PROVE  FALSE
    OBVIOUS
  <2>1. y < x /\ <<y, x>> \in Nat \X Nat
    OBVIOUS
  <2>2. <<y, x>> \in OpToRel(<, Nat)
    BY <2>1 DEF OpToRel
  <2> QED BY <1>1, <2>2
<1> QED BY <1>2

\* Where the elements of a concatenation are.
Joined(u, v, w) ==
  /\ Len(u) \in Nat /\ Len(v) \in Nat /\ Len(w) = Len(u) + Len(v)
  /\ \A k \in 1..Len(u) : k \in 1..Len(w) /\ w[k] = u[k]
  /\ \A k \in 1..Len(v) : Len(u) + k \in 1..Len(w) /\ w[Len(u) + k] = v[k]

\* A concatenation joins its parts.
LEMMA ConcatParts ==
  ASSUME NEW A, NEW u \in Seq(A), NEW v \in Seq(A)
  PROVE  u \o v \in Seq(A) /\ Joined(u, v, u \o v)
PROOF BY DEF Joined

\* The recursive definition defines a function.
LEMMA RunsExist ==
  ASSUME NEW s, NEW n \in Nat
  PROVE  \E f : Runs(s, f, n)
PROOF
<1> DEFINE Bad == {k \in Nat : ~ \E f : Runs(s, f, k)}
<1> SUFFICES ASSUME Bad # {} PROVE FALSE
  OBVIOUS
<1>1. PICK k \in Bad : \A y \in Bad : k <= y
  BY LeastNat
<1>2. k # 0
  <2>1. Runs(s, <<>>, 0)
    BY DEF Runs
  <2> QED BY <2>1
<1>3. k - 1 \in Nat /\ k - 1 \notin Bad
  BY <1>1, <1>2
<1>4. PICK f : Runs(s, f, k - 1)
  BY <1>3
<1> DEFINE g == [i \in 1..k |-> IF i <= k - 1 THEN f[i]
                                ELSE IF i = 1 THEN s[i] ELSE f[i - 1] \o s[i]]
<1>5. Runs(s, g, k)
  <2>1. f = [i \in 1..(k - 1) |-> IF i = 1 THEN s[i] ELSE f[i - 1] \o s[i]]
    BY <1>4 DEF Runs
  <2>2. ASSUME NEW i \in 1..k
        PROVE  g[i] = IF i = 1 THEN s[i] ELSE g[i - 1] \o s[i]
    <3>1. CASE i = 1
      BY <1>3, <2>1, <3>1
    <3>2. CASE i # 1
      <4>1. i - 1 \in 1..k /\ i - 1 <= k - 1
        BY <3>2
      <4>2. g[i - 1] = f[i - 1]
        BY <4>1
      <4>3. CASE i <= k - 1
        <5>1. i \in 1..(k - 1)
          BY <4>3
        <5>2. f[i] = f[i - 1] \o s[i]
          BY <2>1, <3>2, <5>1, Zenon
        <5> QED BY <3>2, <4>2, <4>3, <5>2
      <4>4. CASE ~(i <= k - 1)
        BY <3>2, <4>2, <4>4
      <4> QED BY <4>3, <4>4
    <3> QED BY <3>1, <3>2
  <2>3. g = [i \in 1..k |-> g[i]]
    OBVIOUS
  <2> HIDE DEF g
  <2> QED BY <2>2, <2>3 DEF Runs
<1> QED BY <1>1, <1>5

\* FlattenSeq is the last value of that function.
LEMMA FlattenIsRun ==
  ASSUME NEW s, Len(s) \in Nat \ {0}
  PROVE  \E f : Runs(s, f, Len(s)) /\ FlattenSeq(s) = f[Len(s)]
PROOF
<1> DEFINE f == CHOOSE f : Runs(s, f, Len(s))
<1>1. Runs(s, f, Len(s))
  BY RunsExist
<1>2. FlattenSeq(s) = f[Len(s)]
  BY Zenon DEF FlattenSeq, Runs
<1> QED BY <1>1, <1>2

\* Its values are sequences.
LEMMA RunsType ==
  ASSUME NEW A, NEW s \in Seq(Seq(A)), NEW f, Runs(s, f, Len(s))
  PROVE  /\ \A i \in 1..Len(s) : f[i] \in Seq(A)
         /\ \A i \in 1..Len(s) : f[i] = IF i = 1 THEN s[i] ELSE f[i - 1] \o s[i]
PROOF
<1>1. \A i \in 1..Len(s) : f[i] = IF i = 1 THEN s[i] ELSE f[i - 1] \o s[i]
  BY Zenon DEF Runs
<1>2. \A i \in 1..Len(s) : f[i] \in Seq(A)
  <2> DEFINE Bad == {k \in 1..Len(s) : f[k] \notin Seq(A)}
  <2> SUFFICES ASSUME Bad # {} PROVE FALSE
    OBVIOUS
  <2>1. PICK k \in Bad : \A y \in Bad : k <= y
    <3>1. Bad \in SUBSET Nat
      OBVIOUS
    <3> QED BY <3>1, LeastNat
  <2>2. s[k] \in Seq(A) /\ k \in 1..Len(s)
    OBVIOUS
  <2>3. CASE k = 1
    BY <1>1, <2>2, <2>3
  <2>4. CASE k # 1
    <3>1. k - 1 \in 1..Len(s) /\ k - 1 \notin Bad
      BY <2>1, <2>2, <2>4
    <3>2. f[k - 1] \in Seq(A) /\ f[k] = f[k - 1] \o s[k]
      BY <1>1, <2>2, <2>4, <3>1
    <3>3. f[k - 1] \o s[k] \in Seq(A)
      BY <2>2, <3>2, ConcatProperties
    <3> QED BY <3>2, <3>3
  <2> QED BY <2>3, <2>4
<1> QED BY <1>1, <1>2

\* What FlattenSeq returns.
LEMMA FlattenIsFlat ==
  ASSUME NEW A, NEW s \in Seq(Seq(A))
  PROVE  FlattenSeq(s) \in Seq(A) /\ \E off : Flat(s, off, FlattenSeq(s))
PROOF
<1>1. CASE Len(s) = 0
  <2>1. s = <<>> /\ FlattenSeq(s) = s
    BY <1>1 DEF FlattenSeq
  <2>2. PICK off : off = [i \in 1..1 |-> 0]
    OBVIOUS
  <2>3. Layout(s, off)
    BY <1>1, <2>2 DEF Layout
  <2>4. Flat(s, off, s)
    BY <1>1, <2>2, <2>3 DEF Flat
  <2>5. s \in Seq(A)
    BY <2>1
  <2> QED BY <2>1, <2>4, <2>5
<1>2. CASE Len(s) # 0
  <2>1. PICK f : Runs(s, f, Len(s)) /\ FlattenSeq(s) = f[Len(s)]
    BY <1>2, FlattenIsRun
  <2>2. /\ \A i \in 1..Len(s) : f[i] \in Seq(A)
        /\ \A i \in 1..Len(s) : f[i] = IF i = 1 THEN s[i] ELSE f[i - 1] \o s[i]
    BY <2>1, RunsType, SMTT(30)
  <2>3. FlattenSeq(s) \in Seq(A)
    BY <1>2, <2>1, <2>2
  <2> DEFINE off == [j \in 1..(Len(s) + 1) |-> IF j = 1 THEN 0 ELSE Len(f[j - 1])]
  <2>4. off \in [1..(Len(s) + 1) -> Nat] /\ off[1] = 0
    <3>1. \A j \in 1..(Len(s) + 1) : j # 1 => j - 1 \in 1..Len(s)
      OBVIOUS
    <3>2. \A j \in 1..(Len(s) + 1) : j # 1 => Len(f[j - 1]) \in Nat
      BY <2>2, <3>1, LenProperties
    <3> QED BY <3>2
  <2>5. ASSUME NEW i \in 1..Len(s)
        PROVE  /\ off[i + 1] = off[i] + Len(s[i])
               /\ off[i + 1] = Len(f[i])
               /\ \A k \in 1..Len(s[i]) : off[i] + k \in 1..Len(f[i]) /\ f[i][off[i] + k] = s[i][k]
    <3>1. s[i] \in Seq(A) /\ f[i] \in Seq(A) /\ i + 1 \in 1..(Len(s) + 1)
      BY <2>2
    <3>2. off[i + 1] = Len(f[i])
      BY <3>1
    <3>3. CASE i = 1
      <4>1. f[i] = s[i] /\ off[i] = 0
        BY <2>2, <3>3
      <4> HIDE DEF off
      <4> QED BY <3>1, <3>2, <4>1
    <3>4. CASE i # 1
      <4>1. i - 1 \in 1..Len(s)
        BY <3>4
      <4>2. f[i] = f[i - 1] \o s[i] /\ f[i - 1] \in Seq(A)
        BY <2>2, <3>4, <4>1
      <4>3. off[i] = Len(f[i - 1])
        BY <3>4
      <4>4. PICK u, v, w : u = f[i - 1] /\ v = s[i] /\ w = f[i]
        OBVIOUS
      <4>5. u \in Seq(A) /\ v \in Seq(A) /\ w = u \o v
        BY <3>1, <4>2, <4>4
      <4> HIDE DEF off
      <4>6. off[i + 1] = Len(w) /\ off[i] = Len(u)
        BY <3>2, <4>3, <4>4
      <4>7. /\ Len(w) = Len(u) + Len(v)
            /\ \A k \in 1..Len(v) : Len(u) + k \in 1..Len(w) /\ w[Len(u) + k] = v[k]
        <5>1. Joined(u, v, w)
          BY <4>5, ConcatParts, Zenon
        <5> QED BY <5>1 DEF Joined
      <4>8. off[i + 1] = off[i] + Len(v)
        BY <4>6, <4>7
      <4>9. \A k \in 1..Len(v) : off[i] + k \in 1..Len(w) /\ w[off[i] + k] = v[k]
        BY <4>6, <4>7
      <4> QED BY <3>2, <4>4, <4>8, <4>9
    <3> QED BY <3>3, <3>4
  <2> HIDE DEF off
  <2>6. Layout(s, off)
    BY <2>4, <2>5 DEF Layout
  <2>7. Len(FlattenSeq(s)) = off[Len(s) + 1]
    <3>1. Len(s) \in 1..Len(s)
      BY <1>2
    <3> QED BY <2>1, <2>5, <3>1
  <2>8. ASSUME NEW i \in 1..Len(s), NEW k \in 1..Len(s[i])
        PROVE  FlattenSeq(s)[off[i] + k] = s[i][k]
    <3> DEFINE p == off[i] + k
    <3> DEFINE Right(j) == p \in 1..Len(f[j]) /\ f[j][p] = s[i][k]
    <3> DEFINE Bad == {j \in i..Len(s) : ~Right(j)}
    <3>1. Right(i)
      BY <2>5
    <3>2. ASSUME NEW j \in i..Len(s), j # i, Right(j - 1)
          PROVE  Right(j)
      <4>1. j - 1 \in 1..Len(s) /\ j \in 1..Len(s) /\ j # 1
        <5>1. Len(s) \in Nat /\ i \in Nat /\ 1 <= i /\ i <= j /\ j <= Len(s) /\ j \in Int
          OBVIOUS
        <5>2. j # i
          BY <3>2
        <5> QED BY <5>1, <5>2
      <4>2. f[j] = f[j - 1] \o s[j] /\ f[j - 1] \in Seq(A) /\ s[j] \in Seq(A)
        <5>1. s[j] \in Seq(A)
          BY <4>1
        <5> QED BY <2>2, <4>1, <5>1, Zenon
      <4>3. PICK u, v, w : u = f[j - 1] /\ v = s[j] /\ w = f[j]
        OBVIOUS
      <4>4. u \in Seq(A) /\ v \in Seq(A) /\ w = u \o v
        BY <4>2, <4>3
      <4> HIDE DEF p
      <4>5. p \in 1..Len(u) /\ u[p] = s[i][k]
        BY <3>2, <4>3
      <4>6. p \in 1..Len(w) /\ w[p] = s[i][k]
        <5>1. Joined(u, v, w)
          BY <4>4, ConcatParts, Zenon
        <5> QED BY <4>5, <5>1 DEF Joined
      <4> QED BY <4>3, <4>6
    <3>3. Bad = {}
      <4> SUFFICES ASSUME Bad # {} PROVE FALSE
        OBVIOUS
      <4>1. PICK j \in Bad : \A y \in Bad : j <= y
        <5>1. Bad \in SUBSET Nat
          OBVIOUS
        <5> QED BY <5>1, LeastNat
      <4>2. j # i /\ j \in i..Len(s) /\ ~Right(j)
        BY <3>1
      <4>3. j - 1 \in i..Len(s) /\ j - 1 \notin Bad
        BY <4>1, <4>2
      <4>4. Right(j - 1)
        BY <4>3
      <4> HIDE DEF Right
      <4> QED BY <3>2, <4>2, <4>4
    <3>4. Len(s) \in i..Len(s)
      OBVIOUS
    <3>5. Right(Len(s))
      BY <3>3, <3>4
    <3> QED BY <2>1, <3>5
  <2>9. Flat(s, off, FlattenSeq(s))
    BY <2>6, <2>7, <2>8 DEF Flat
  <2> QED BY <2>3, <2>9
<1> QED BY <1>1, <1>2

-----------------------------------------------------------------------------
(* Offsets *)

\* The offsets grow.
LEMMA OffsetsGrow ==
  ASSUME NEW A, NEW s \in Seq(Seq(A)), NEW off, Layout(s, off),
         NEW i \in 1..(Len(s) + 1), NEW j \in 1..(Len(s) + 1), i <= j
  PROVE  off[i] <= off[j]
PROOF
<1> DEFINE Bad == {k \in i..(Len(s) + 1) : ~(off[i] <= off[k])}
<1>1. \A k \in 1..(Len(s) + 1) : off[k] \in Nat
  BY DEF Layout
<1>2. Len(s) \in Nat
  OBVIOUS
<1>3. Bad = {}
  <2> SUFFICES ASSUME Bad # {} PROVE FALSE
    OBVIOUS
  <2>1. PICK k \in Bad : \A y \in Bad : k <= y
    <3>1. Bad \in SUBSET Nat
      OBVIOUS
    <3> QED BY <3>1, LeastNat
  <2>2. k # i /\ k \in i..(Len(s) + 1) /\ ~(off[i] <= off[k])
    BY <1>1
  <2>3. PICK m \in Int : m = k - 1
    BY <2>2
  <2>4. m \in i..(Len(s) + 1) /\ m \notin Bad /\ m \in 1..Len(s) /\ k = m + 1
    BY <1>2, <2>1, <2>2, <2>3
  <2>5. off[i] <= off[m]
    BY <2>4
  <2>6. off[m + 1] = off[m] + Len(s[m]) /\ Len(s[m]) \in Nat
    BY <2>4 DEF Layout
  <2>7. off[m] \in Nat /\ off[i] \in Nat
    BY <1>1, <2>4
  <2> QED BY <2>2, <2>4, <2>5, <2>6, <2>7, SMTT(30)
<1> QED BY <1>3

\* Position p is the k-th of part i.
InPart(s, off, p) == \E i \in 1..Len(s) : \E k \in 1..Len(s[i]) : p = off[i] + k

\* Every position up to the end lies in a part.
LEMMA Covered ==
  ASSUME NEW A, NEW s \in Seq(Seq(A)), NEW off, Layout(s, off),
         NEW p \in Nat, 1 <= p, p <= off[Len(s) + 1]
  PROVE  InPart(s, off, p)
PROOF
<1> DEFINE Beyond == {j \in 1..(Len(s) + 1) : p <= off[j]}
<1>1. /\ \A k \in 1..(Len(s) + 1) : off[k] \in Nat
      /\ off[1] = 0 /\ Len(s) \in Nat
  BY DEF Layout
<1>2. p \in Nat /\ p >= 1
  OBVIOUS
<1>3. Len(s) + 1 \in Beyond
  BY <1>1
<1>4. PICK j \in Beyond : \A y \in Beyond : j <= y
  <2>1. Beyond \in SUBSET Nat /\ Beyond # {}
    BY <1>3
  <2> QED BY <2>1, LeastNat
<1>5. j # 1 /\ j \in 1..(Len(s) + 1) /\ p <= off[j]
  BY <1>1, <1>2
<1>6. PICK m \in Int : m = j - 1
  BY <1>5
<1>7. m \in 1..Len(s) /\ j = m + 1 /\ m \notin Beyond
  BY <1>1, <1>4, <1>5, <1>6
<1>8. off[m] < p /\ off[m] \in Nat
  BY <1>1, <1>2, <1>7
<1>9. off[m + 1] = off[m] + Len(s[m]) /\ Len(s[m]) \in Nat
  BY <1>7 DEF Layout
<1>10. p - off[m] \in 1..Len(s[m]) /\ p = off[m] + (p - off[m])
  BY <1>2, <1>5, <1>7, <1>8, <1>9, SMTT(30)
<1> QED BY <1>7, <1>10 DEF InPart

\* Parts of the same lengths have the same offsets.
LEMMA SameOffsets ==
  ASSUME NEW s, NEW t, NEW f, NEW g, Layout(s, f), Layout(t, g),
         NEW n \in Nat, n <= Len(s), n <= Len(t), Len(s) \in Nat, Len(t) \in Nat,
         \A i \in 1..n : Len(s[i]) = Len(t[i])
  PROVE  \A i \in 1..(n + 1) : f[i] = g[i]
PROOF
<1> DEFINE Bad == {k \in 1..(n + 1) : f[k] # g[k]}
<1>1. Bad = {}
  <2> SUFFICES ASSUME Bad # {} PROVE FALSE
    OBVIOUS
  <2>1. PICK k \in Bad : \A y \in Bad : k <= y
    <3>1. Bad \in SUBSET Nat
      OBVIOUS
    <3> QED BY <3>1, LeastNat
  <2>2. k # 1 /\ k \in 1..(n + 1) /\ f[k] # g[k]
    BY DEF Layout
  <2>3. PICK m \in Int : m = k - 1
    BY <2>2
  <2>4. m \in 1..(n + 1) /\ m \notin Bad /\ m \in 1..n /\ m \in 1..Len(s) /\ m \in 1..Len(t)
        /\ k = m + 1
    BY <2>1, <2>2, <2>3
  <2>5. f[m + 1] = f[m] + Len(s[m]) /\ g[m + 1] = g[m] + Len(t[m])
    BY <2>4 DEF Layout
  <2>6. f[m] = g[m] /\ Len(s[m]) = Len(t[m])
    BY <2>4
  <2> QED BY <2>2, <2>4, <2>5, <2>6
<1> QED BY <1>1

\* There is one way to put the parts one behind the other: FlattenSeq's.
LEMMA FlattenIs ==
  ASSUME NEW A, NEW s \in Seq(Seq(A)), NEW t \in Seq(A), NEW off, Flat(s, off, t)
  PROVE  FlattenSeq(s) = t
PROOF
<1>1. PICK u, f : u = FlattenSeq(s) /\ u \in Seq(A) /\ Flat(s, f, u)
  BY FlattenIsFlat
<1>2. Len(s) \in Nat
  OBVIOUS
<1>3. Layout(s, f) /\ Layout(s, off)
  BY <1>1 DEF Flat
<1>4. \A i \in 1..(Len(s) + 1) : f[i] = off[i]
  BY <1>2, <1>3, SameOffsets, SMTT(30)
<1>5. Len(u) = Len(t)
  <2>1. Len(s) + 1 \in 1..(Len(s) + 1)
    BY <1>2
  <2> QED BY <1>1, <1>4, <2>1 DEF Flat
<1>6. ASSUME NEW p \in 1..Len(u) PROVE u[p] = t[p]
  <2>1. p \in Nat /\ 1 <= p /\ p <= f[Len(s) + 1]
    BY <1>1 DEF Flat
  <2>2. PICK i \in 1..Len(s) : \E k \in 1..Len(s[i]) : p = f[i] + k
    <3>1. InPart(s, f, p)
      BY <1>3, <2>1, Covered
    <3> QED BY <3>1 DEF InPart
  <2>3. PICK k \in 1..Len(s[i]) : p = f[i] + k
    BY <2>2
  <2>4. u[f[i] + k] = s[i][k] /\ t[off[i] + k] = s[i][k]
    BY <1>1 DEF Flat
  <2>5. f[i] = off[i]
    <3>1. i \in 1..(Len(s) + 1)
      BY <1>2
    <3> QED BY <1>4, <3>1
  <2> QED BY <2>3, <2>4, <2>5
<1>7. u = t
  BY <1>1, <1>5, <1>6, SeqEqual
<1> QED BY <1>1, <1>7

\* The length of the first k parts is where the next one begins.
LEMMA FirstPartsEnd ==
  ASSUME NEW A, NEW s \in Seq(Seq(A)), NEW off, Layout(s, off), NEW k \in 0..Len(s)
  PROVE  Len(FlattenSeq(SubSeq(s, 1, k))) = off[k + 1]
PROOF
<1>1. PICK c : c = SubSeq(s, 1, k)
  OBVIOUS
<1>2. c \in Seq(Seq(A)) /\ Len(c) = k /\ \A i \in 1..k : c[i] = s[i]
  BY <1>1
<1>3. PICK f : Flat(c, f, FlattenSeq(c))
  BY <1>2, FlattenIsFlat
<1>4. Layout(c, f) /\ Len(FlattenSeq(c)) = f[k + 1]
  BY <1>2, <1>3 DEF Flat
<1>5. Len(s) \in Nat /\ k \in Nat /\ k <= Len(s) /\ k + 1 \in 1..(k + 1)
  OBVIOUS
<1>6. \A i \in 1..k : Len(c[i]) = Len(s[i])
  BY <1>2
<1>7. \A i \in 1..(k + 1) : f[i] = off[i]
  BY <1>2, <1>4, <1>5, <1>6, SameOffsets, SMTT(30)
<1> QED BY <1>1, <1>4, <1>5, <1>7

\* One part is itself.
LEMMA FlattenOne ==
  ASSUME NEW A, NEW t \in Seq(A)
  PROVE  FlattenSeq(<<t>>) = t
PROOF
<1>1. PICK s, off : s = <<t>> /\ off = [i \in 1..2 |-> IF i = 1 THEN 0 ELSE Len(t)]
  OBVIOUS
<1>2. s \in Seq(Seq(A)) /\ Len(s) = 1 /\ s[1] = t
  BY <1>1
<1>3. off[1] = 0 /\ off[2] = Len(t) /\ off \in [1..2 -> Nat]
  BY <1>1
<1>4. Layout(s, off)
  BY <1>2, <1>3 DEF Layout
<1>5. Flat(s, off, t)
  BY <1>2, <1>3, <1>4 DEF Flat
<1>6. FlattenSeq(s) = t
  BY <1>2, <1>5, FlattenIs
<1> QED BY <1>1, <1>6

\* No part is nothing.
LEMMA FlattenNone == FlattenSeq(<<>>) = <<>>
PROOF BY DEF FlattenSeq
=============================================================================
