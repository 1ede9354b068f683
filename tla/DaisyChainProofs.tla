--------------------------- MODULE DaisyChainProofs ---------------------------
(***************************************************************************)
(* What is proved of DaisyChain, for any object, sizes of ranges, chunks    *)
(* and buffer, and any seeks, restarts and failures: its types, that the    *)
(* upload reads the object, and that the buffer is bounded.                 *)
(***************************************************************************)
EXTENDS DaisyChain, FiniteSetTheorems, SequenceTheorems, TLAPS

-----------------------------------------------------------------------------
(* The inductive invariant.                                                *)

\* The hypothesis of the theorems: an upload that seeks takes whole chunks.
WholeChunks ==
    \A u \in Uploads : u.seeks => \A a \in u.amounts : a >= MaxWrite

\* Consecutive chunks of the object, from one position to another.
Chained(chunks, a, b) ==
    \E at \in [1..Len(chunks) + 1 -> Nat] :
        /\ at[1] = a /\ at[Len(chunks) + 1] = b
        /\ \A i, j \in 1..Len(chunks) + 1 : i < j => at[i] < at[j]
        /\ \A i \in 1..Len(chunks) : chunks[i] = Span(at[i], at[i + 1])

\* Where the next read reads: the upload measures the stream and comes back.
Front == IF pc = "end" THEN lastPosition ELSE position

Following == pc \in {"idle", "read", "end", "broken"}

\* What is unused, the buffer and what the thread writes next follow each
\* other, and what was read last precedes them or was put back.
StreamInv ==
    Following =>
        /\ unused = Span(Front, Front + Len(unused))
        /\ Chained(buffer, Front + Len(unused), thread.at)
        /\ lastData = Span(lastPosition, lastPosition + Len(lastData))
        /\ \/ Front \in {lastPosition, lastPosition + Len(lastData)}
           \/ lastData = <<>> /\ Front < Size /\ Front <= confirmed

\* What calls may find, and what an upload that seeks may rely on.
CallInv ==
    /\ pc = "read" => position < Size /\ argument \in upload.amounts
    /\ pc = "end" => lastData = <<>> /\ position = Size
    /\ pc = "drain" => argument < Size /\ argument <= confirmed
    /\ pc = "drain" => upload.seeks
    /\ upload.seeks => unused = <<>>

ChunkInv ==
    /\ \A i \in 1..Len(buffer) : Len(buffer[i]) <= MaxWrite
    /\ Len(lastData) <= MaxWrite /\ Len(unused) <= MaxWrite

\* What a seek may put back into the buffer.
Returnable == IF position = lastPosition THEN 0 ELSE Len(lastData)

CountInv ==
    /\ IsFiniteSet(Bytes(buffer))
    /\ pc # "failed" =>
           /\ buffered = Total(buffer) + Len(unused)
           /\ buffered + Returnable < MaxBufferSize + 2 * MaxWrite
           /\ thread.pc = "append" => buffered + Returnable < MaxBufferSize + MaxWrite

Inv == TypeOK /\ StreamInv /\ CallInv /\ ChunkInv /\ CountInv /\ ReadIsObject

-----------------------------------------------------------------------------
(* Spans and chains of them.                                               *)

LEMMA SpanFacts ==
    ASSUME NEW a \in Nat, NEW b \in Nat, a <= b
    PROVE  /\ Span(a, b) \in Seq(Nat) /\ Len(Span(a, b)) = b - a
           /\ \A i \in 1..b - a : Span(a, b)[i] = a + i - 1
           /\ \A m \in Nat : b <= m => Span(a, b) \in Seq(0..m - 1)
BY DEF Span

\* The beginning and the rest of a span are spans.
LEMMA SpanParts ==
    ASSUME NEW a \in Nat, NEW b \in Nat, NEW n \in 0..b - a
    PROVE  /\ SubSeq(Span(a, b), 1, n) = Span(a, a + n)
           /\ SubSeq(Span(a, b), n + 1, b - a) = Span(a + n, b)
<1>1. Span(a, b) \in Seq(Nat) /\ Len(Span(a, b)) = b - a
      /\ \A i \in 1..b - a : Span(a, b)[i] = a + i - 1
  BY SpanFacts
<1>2. SubSeq(Span(a, b), 1, n) = Span(a, a + n)
  <2>1. \A i \in 1..n : Span(a, b)[i] \in Nat
    BY <1>1
  <2>2. /\ SubSeq(Span(a, b), 1, n) \in Seq(Nat)
        /\ Len(SubSeq(Span(a, b), 1, n)) = n
        /\ \A i \in 1..n : SubSeq(Span(a, b), 1, n)[i] = Span(a, b)[i]
    BY <2>1, <1>1, SubSeqProperties
  <2>3. /\ Span(a, a + n) \in Seq(Nat) /\ Len(Span(a, a + n)) = n
        /\ \A i \in 1..n : Span(a, a + n)[i] = a + i - 1
    <3>1. a + n \in Nat /\ a <= a + n /\ (a + n) - a = n
      OBVIOUS
    <3>. QED  BY ONLY <3>1, SpanFacts, a \in Nat
  <2>4. \A i \in 1..n : SubSeq(Span(a, b), 1, n)[i] = Span(a, a + n)[i]
    BY <2>2, <2>3, <1>1
  <2>. QED  BY <2>2, <2>3, <2>4, SeqEqual
<1>3. SubSeq(Span(a, b), n + 1, b - a) = Span(a + n, b)
  <2>1. \A i \in n + 1..b - a : Span(a, b)[i] \in Nat
    BY <1>1
  <2>2. /\ SubSeq(Span(a, b), n + 1, b - a) \in Seq(Nat)
        /\ Len(SubSeq(Span(a, b), n + 1, b - a)) = b - a - n
        /\ \A i \in 1..b - a - n :
              SubSeq(Span(a, b), n + 1, b - a)[i] = Span(a, b)[n + 1 + i - 1]
    BY <2>1, <1>1, SubSeqProperties
  <2>3. /\ Span(a + n, b) \in Seq(Nat) /\ Len(Span(a + n, b)) = b - a - n
        /\ \A i \in 1..b - a - n : Span(a + n, b)[i] = a + n + i - 1
    <3>1. a + n \in Nat /\ a + n <= b /\ b - (a + n) = b - a - n
      OBVIOUS
    <3>. QED  BY ONLY <3>1, SpanFacts, b \in Nat
  <2>4. \A i \in 1..b - a - n :
           SubSeq(Span(a, b), n + 1, b - a)[i] = Span(a + n, b)[i]
    BY <2>2, <2>3, <1>1
  <2>. QED  BY <2>2, <2>3, <2>4, SeqEqual
<1>. QED  BY <1>2, <1>3

LEMMA ChainEmpty ==
    ASSUME NEW a \in Nat
    PROVE  Chained(<<>>, a, a)
<1> DEFINE at == [i \in 1..1 |-> a]
<1>1. at \in [1..1 -> Nat] /\ at[1] = a
  OBVIOUS
<1>2. \A i, j \in 1..1 : ~(i < j)
  OBVIOUS
<1>3. Len(<<>>) = 0 /\ 0 + 1 = 1 /\ \A i \in 1..0 : FALSE
  OBVIOUS
<1> HIDE DEF at
<1>. QED  BY <1>1, <1>2, <1>3 DEF Chained

LEMMA ChainOrdered ==
    ASSUME NEW s \in Seq(Seq(Nat)), NEW a, NEW b, Chained(s, a, b)
    PROVE  a \in Nat /\ b \in Nat /\ a <= b /\ (s = <<>> => a = b)
<1>1. PICK at \in [1..Len(s) + 1 -> Nat] :
          /\ at[1] = a /\ at[Len(s) + 1] = b
          /\ \A i, j \in 1..Len(s) + 1 : i < j => at[i] < at[j]
  BY DEF Chained
<1>2. 1 \in 1..Len(s) + 1 /\ Len(s) + 1 \in 1..Len(s) + 1 /\ Len(s) \in Nat
  OBVIOUS
<1>3. CASE s = <<>>
  BY <1>1, <1>2, <1>3
<1>4. CASE s # <<>>
  <2>1. 1 < Len(s) + 1
    BY <1>2, <1>4, EmptySeq
  <2>2. at[1] < at[Len(s) + 1]
    BY <2>1, <1>1, <1>2
  <2>. QED  BY <2>2, <1>1, <1>2, <1>4
<1>. QED  BY <1>3, <1>4

\* What the download writes.
LEMMA ChainAppend ==
    ASSUME NEW s \in Seq(Seq(Nat)), NEW a, NEW b, NEW c \in Nat,
           Chained(s, a, b), b < c
    PROVE  Chained(Append(s, Span(b, c)), a, c)
<1> DEFINE n == Len(s)
<1>1. PICK at \in [1..n + 1 -> Nat] :
          /\ at[1] = a /\ at[n + 1] = b
          /\ \A i, j \in 1..n + 1 : i < j => at[i] < at[j]
          /\ \A i \in 1..n : s[i] = Span(at[i], at[i + 1])
  BY DEF Chained
<1>2. n \in Nat /\ Len(Append(s, Span(b, c))) = n + 1
  OBVIOUS
<1> DEFINE new == [i \in 1..n + 2 |-> IF i = n + 2 THEN c ELSE at[i]]
<1>3. new \in [1..n + 2 -> Nat]
  BY <1>1, <1>2
<1>4. new[1] = a /\ new[n + 2] = c
  BY <1>1, <1>2
<1>5. \A i, j \in 1..n + 2 : i < j => new[i] < new[j]
  <2>1. TAKE i, j \in 1..n + 2
  <2>2. HAVE i < j
  <2>3. CASE j = n + 2
    <3>1. i \in 1..n + 1 /\ n + 1 \in 1..n + 1
      BY <2>2, <2>3, <1>2
    <3>3. at[i] \in Nat /\ b \in Nat
      BY <3>1, <1>1
    <3>2. at[i] <= b
      <4>1. CASE i = n + 1
        BY <4>1, <3>1, <3>3, <1>1
      <4>2. CASE i # n + 1
        <5>1. i < n + 1
          BY <4>2, <3>1, <1>2
        <5>2. at[i] < at[n + 1]
          BY <5>1, <3>1, <1>1
        <5>. QED  BY <5>2, <3>3, <1>1
      <4>. QED  BY <4>1, <4>2
    <3>. QED  BY <3>1, <3>2, <3>3, <2>3, <1>2
  <2>4. CASE j # n + 2
    BY <2>2, <2>4, <1>1, <1>2
  <2>. QED  BY <2>3, <2>4
<1>6. \A i \in 1..n + 1 : Append(s, Span(b, c))[i] = Span(new[i], new[i + 1])
  <2>1. TAKE i \in 1..n + 1
  <2>2. CASE i = n + 1
    <3>1. new[i] = b /\ new[i + 1] = c
      BY <2>2, <1>1, <1>2
    <3>2. Append(s, Span(b, c))[i] = Span(b, c)
      BY <2>2, <1>2
    <3>. QED  BY <3>1, <3>2
  <2>3. CASE i # n + 1
    <3>1. i \in 1..n /\ i + 1 \in 1..n + 1
      BY <2>3, <1>2
    <3>2. new[i] = at[i] /\ new[i + 1] = at[i + 1]
      BY <3>1, <1>2
    <3>3. Append(s, Span(b, c))[i] = s[i]
      BY <3>1, <1>2
    <3>. QED  BY <3>1, <3>2, <3>3, <1>1
  <2>. QED  BY <2>2, <2>3
<1> HIDE DEF new
<1>7. (n + 1) + 1 = n + 2
  BY <1>2
<1>. QED  BY <1>2, <1>3, <1>4, <1>5, <1>6, <1>7 DEF Chained

\* What a read takes.
LEMMA ChainTail ==
    ASSUME NEW s \in Seq(Seq(Nat)), NEW a, NEW b, Chained(s, a, b), s # <<>>
    PROVE  \E m \in Nat : /\ a < m /\ m <= b
                          /\ Head(s) = Span(a, m) /\ Chained(Tail(s), m, b)
<1> DEFINE n == Len(s)
<1>1. PICK at \in [1..n + 1 -> Nat] :
          /\ at[1] = a /\ at[n + 1] = b
          /\ \A i, j \in 1..n + 1 : i < j => at[i] < at[j]
          /\ \A i \in 1..n : s[i] = Span(at[i], at[i + 1])
  BY DEF Chained
<1>2. n \in Nat \ {0} /\ Tail(s) \in Seq(Seq(Nat)) /\ Len(Tail(s)) = n - 1
      /\ \A i \in 1..n - 1 : Tail(s)[i] = s[i + 1]
  BY HeadTailProperties, EmptySeq
<1> DEFINE new == [i \in 1..n |-> at[i + 1]]
<1>3. new \in [1..n -> Nat]
  BY <1>1, <1>2
<1>4. new[1] = at[2] /\ new[n] = b
  BY <1>1, <1>2
<1>5. \A i, j \in 1..n : i < j => new[i] < new[j]
  <2>1. TAKE i, j \in 1..n
  <2>2. i + 1 \in 1..n + 1 /\ j + 1 \in 1..n + 1
    BY <1>2
  <2>3. new[i] = at[i + 1] /\ new[j] = at[j + 1]
    OBVIOUS
  <2>4. i < j => i + 1 < j + 1
    BY <1>2
  <2>. QED  BY <2>2, <2>3, <2>4, <1>1
<1>6. \A i \in 1..n - 1 : Tail(s)[i] = Span(new[i], new[i + 1])
  BY <1>1, <1>2
<1> HIDE DEF new
<1>7. (n - 1) + 1 = n
  BY <1>2
<1>8. Chained(Tail(s), at[2], b)
  BY <1>2, <1>3, <1>4, <1>5, <1>6, <1>7 DEF Chained
<1>9. Head(s) = Span(a, at[2]) /\ a < at[2] /\ at[2] \in Nat
  <2>1. 1 \in 1..n /\ 1 \in 1..n + 1 /\ 2 \in 1..n + 1 /\ 1 + 1 = 2
    BY <1>2
  <2>. QED  BY <2>1, <1>1
<1>10. at[2] <= b
  BY <1>8, <1>2, ChainOrdered
<1>. QED  BY <1>8, <1>9, <1>10

\* What a seek puts back.
LEMMA ChainPrepend ==
    ASSUME NEW s \in Seq(Seq(Nat)), NEW a, NEW b, NEW c \in Nat,
           Chained(s, a, b), c < a
    PROVE  Chained(<<Span(c, a)>> \o s, c, b)
<1> DEFINE n == Len(s)
           t == <<Span(c, a)>> \o s
<1>0. a \in Nat
  BY ChainOrdered
<1>1. PICK at \in [1..n + 1 -> Nat] :
          /\ at[1] = a /\ at[n + 1] = b
          /\ \A i, j \in 1..n + 1 : i < j => at[i] < at[j]
          /\ \A i \in 1..n : s[i] = Span(at[i], at[i + 1])
  BY DEF Chained
<1>2. n \in Nat /\ Len(t) = n + 1
      /\ t[1] = Span(c, a) /\ \A i \in 2..n + 1 : t[i] = s[i - 1]
  <2>1. Span(c, a) \in Seq(Nat)
    BY <1>0, SpanFacts
  <2>2. <<Span(c, a)>> \in Seq(Seq(Nat)) /\ Len(<<Span(c, a)>>) = 1
    BY <2>1
  <2>3. \A i \in 1..n + 1 : t[i] = IF i <= 1 THEN <<Span(c, a)>>[i] ELSE s[i - 1]
    BY <2>2, ConcatProperties
  <2>4. Len(t) = n + 1
    BY <2>2, ConcatProperties
  <2>. QED  BY <2>3, <2>4
<1> DEFINE new == [i \in 1..n + 2 |-> IF i = 1 THEN c ELSE at[i - 1]]
<1>3. new \in [1..n + 2 -> Nat]
  BY <1>1, <1>2
<1>4. new[1] = c /\ new[n + 2] = b
  BY <1>1, <1>2
<1>5. \A i, j \in 1..n + 2 : i < j => new[i] < new[j]
  <2>1. TAKE i, j \in 1..n + 2
  <2>2. HAVE i < j
  <2>3. CASE i = 1
    <3>1. j - 1 \in 1..n + 1 /\ 1 \in 1..n + 1 /\ j # 1
      BY <2>2, <2>3, <1>2
    <3>3. at[j - 1] \in Nat /\ new[j] = at[j - 1] /\ new[i] = c
      BY <3>1, <2>3, <1>1
    <3>2. a <= at[j - 1]
      <4>1. CASE j - 1 = 1
        BY <4>1, <3>1, <3>3, <1>1, <1>0
      <4>2. CASE j - 1 # 1
        <5>1. 1 < j - 1
          BY <4>2, <3>1, <1>2
        <5>2. at[1] < at[j - 1]
          BY <5>1, <3>1, <1>1
        <5>. QED  BY <5>2, <3>3, <1>1, <1>0
      <4>. QED  BY <4>1, <4>2
    <3>. QED  BY <3>1, <3>2, <3>3, <1>0
  <2>4. CASE i # 1
    <3>1. /\ i - 1 \in 1..n + 1 /\ j - 1 \in 1..n + 1
          /\ i - 1 < j - 1 /\ j # 1
      BY <2>2, <2>4, <1>2
    <3>2. new[i] = at[i - 1] /\ new[j] = at[j - 1]
      BY <3>1, <2>4
    <3>3. at[i - 1] < at[j - 1]
      BY <3>1, <1>1
    <3>. QED  BY <3>2, <3>3
  <2>. QED  BY <2>3, <2>4
<1>6. \A i \in 1..n + 1 : t[i] = Span(new[i], new[i + 1])
  <2>1. TAKE i \in 1..n + 1
  <2>2. CASE i = 1
    <3>1. new[1] = c /\ new[2] = at[1]
      BY <1>2
    <3>. QED  BY <2>2, <3>1, <1>1, <1>2
  <2>3. CASE i # 1
    <3>1. i - 1 \in 1..n /\ i \in 2..n + 1
      BY <2>3, <1>2
    <3>2. new[i] = at[i - 1] /\ new[i + 1] = at[i]
      <4>1. i \in 1..n + 2 /\ i + 1 \in 1..n + 2 /\ i + 1 # 1 /\ (i + 1) - 1 = i
        BY <3>1, <1>2
      <4>. QED  BY <4>1, <2>3
    <3>3. PICK k \in 1..n : k = i - 1
      BY <3>1
    <3>4. k + 1 = i
      BY <3>3, <1>2
    <3>5. s[k] = Span(at[k], at[k + 1])
      BY <1>1
    <3>. QED  BY <3>1, <3>2, <3>3, <3>4, <3>5, <1>2
  <2>. QED  BY <2>2, <2>3
<1> HIDE DEF new, t
<1>7. (n + 1) + 1 = n + 2
  BY <1>2
<1>8. Chained(t, c, b)
  BY <1>2, <1>3, <1>4, <1>5, <1>6, <1>7 DEF Chained
<1>. QED  BY <1>8 DEF t

-----------------------------------------------------------------------------
(* The number of bytes of chunks.                                          *)

LEMMA BytesMember ==
    ASSUME NEW s \in Seq(Seq(Nat)), NEW x
    PROVE  x \in Bytes(s) <=>
               \E i \in 1..Len(s), j \in Nat : j \in 1..Len(s[i]) /\ x = <<i, j>>
<1>1. DOMAIN s = 1..Len(s)
  BY LenProperties
<1>2. \A i \in 1..Len(s) : DOMAIN s[i] = 1..Len(s[i])
  BY LenProperties, ElementOfSeq
<1>3. x \in Bytes(s) <=> \E i \in 1..Len(s) : x \in {i} \X (1..Len(s[i]))
  BY <1>1, <1>2 DEF Bytes
<1>4. \A i \in 1..Len(s) : 1..Len(s[i]) \subseteq Nat
  OBVIOUS
<1>. QED  BY <1>3, <1>4

LEMMA TotalEmpty == IsFiniteSet(Bytes(<<>>)) /\ Total(<<>>) = 0
<1>1. Bytes(<<>>) = {}
  BY DEF Bytes
<1>. QED  BY <1>1, FS_EmptySet DEF Total

\* The bytes of one more chunk.
LEMMA Row ==
    ASSUME NEW i, NEW n \in Nat
    PROVE  IsFiniteSet({i} \X (1..n)) /\ Cardinality({i} \X (1..n)) = n
<1>1. IsFiniteSet(1..n) /\ Cardinality(1..n) = n
  BY FS_Interval
<1>2. IsFiniteSet({i}) /\ Cardinality({i}) = 1
  BY FS_Singleton
<1>3. /\ IsFiniteSet({i} \X (1..n))
      /\ Cardinality({i} \X (1..n)) = Cardinality({i}) * Cardinality(1..n)
  BY <1>1, <1>2, FS_Product, Zenon
<1>4. 1 * n = n
  OBVIOUS
<1>5. Cardinality({i}) * Cardinality(1..n) = n
  BY <1>1, <1>2, <1>4, Zenon
<1>. QED  BY <1>3, <1>5, Zenon

LEMMA TotalAppend ==
    ASSUME NEW s \in Seq(Seq(Nat)), NEW d \in Seq(Nat), IsFiniteSet(Bytes(s))
    PROVE  /\ IsFiniteSet(Bytes(Append(s, d)))
           /\ Total(Append(s, d)) = Total(s) + Len(d)
<1> DEFINE n == Len(s)
           row == {n + 1} \X (1..Len(d))
           t == Append(s, d)
<1>1. n \in Nat /\ t \in Seq(Seq(Nat)) /\ Len(t) = n + 1 /\ t[n + 1] = d
      /\ \A i \in 1..n : t[i] = s[i]
  BY AppendProperties, LenProperties
<1> HIDE DEF t
<1>2. Bytes(t) = Bytes(s) \union row
  <2>1. ASSUME NEW x \in Bytes(t) PROVE x \in Bytes(s) \union row
    <3>1. PICK i \in 1..n + 1, j \in Nat : j \in 1..Len(t[i]) /\ x = <<i, j>>
      BY BytesMember, <1>1
    <3>2. CASE i = n + 1
      BY <3>1, <3>2, <1>1
    <3>3. CASE i # n + 1
      <4>1. i \in 1..n /\ j \in 1..Len(s[i])
        BY <3>1, <3>3, <1>1
      <4>. QED  BY <4>1, <3>1, BytesMember
    <3>. QED  BY <3>2, <3>3
  <2>2. ASSUME NEW x \in Bytes(s) PROVE x \in Bytes(t)
    <3>1. PICK i \in 1..n, j \in Nat : j \in 1..Len(s[i]) /\ x = <<i, j>>
      BY BytesMember
    <3>2. i \in 1..Len(t) /\ j \in 1..Len(t[i])
      BY <3>1, <1>1
    <3>. QED  BY <3>1, <3>2, <1>1, BytesMember
  <2>3. ASSUME NEW x \in row PROVE x \in Bytes(t)
    <3>1. PICK j \in 1..Len(d) : x = <<n + 1, j>>
      OBVIOUS
    <3>2. n + 1 \in 1..Len(t) /\ j \in 1..Len(t[n + 1])
      BY <3>1, <1>1
    <3>. QED  BY <3>1, <3>2, <1>1, BytesMember
  <2> HIDE DEF row
  <2>. QED  BY <2>1, <2>2, <2>3
<1>3. Bytes(s) \cap row = {}
  <2>1. ASSUME NEW x \in Bytes(s), x \in row PROVE FALSE
    <3>1. PICK i \in 1..n, j \in Nat : j \in 1..Len(s[i]) /\ x = <<i, j>>
      BY BytesMember
    <3>2. x[1] = n + 1 /\ x[1] = i
      BY <2>1, <3>1
    <3>. QED  BY <3>2, <1>1
  <2>. QED  BY <2>1
<1>4. Len(d) \in Nat
  BY LenProperties
<1>5. IsFiniteSet(row) /\ Cardinality(row) = Len(d)
  BY <1>4, Row
<1>6. Cardinality(Bytes(s)) \in Nat
  BY FS_CardinalityType
<1> HIDE DEF row, t
<1>7. IsFiniteSet(Bytes(t)) /\ Cardinality(Bytes(t)) =
          Cardinality(Bytes(s)) + Cardinality(row) - Cardinality({})
  BY <1>2, <1>3, <1>5, FS_Union
<1>8. Cardinality({}) = 0
  BY FS_EmptySet
<1>9. Total(t) = Total(s) + Len(d)
  BY <1>4, <1>5, <1>6, <1>7, <1>8 DEF Total
<1>. QED  BY <1>7, <1>9 DEF t

LEMMA TotalPrepend ==
    ASSUME NEW s \in Seq(Seq(Nat)), NEW d \in Seq(Nat), IsFiniteSet(Bytes(s))
    PROVE  /\ IsFiniteSet(Bytes(<<d>> \o s))
           /\ Total(<<d>> \o s) = Len(d) + Total(s)
<1> DEFINE n == Len(s)
           t == <<d>> \o s
           row == {1} \X (1..Len(d))
           moved == {<<x[1] + 1, x[2]>> : x \in Bytes(s)}
           f == [x \in Bytes(s) |-> <<x[1] + 1, x[2]>>]
<1>1. n \in Nat /\ t \in Seq(Seq(Nat)) /\ Len(t) = n + 1 /\ t[1] = d
      /\ \A i \in 1..n : t[i + 1] = s[i]
  <2>1. <<d>> \in Seq(Seq(Nat)) /\ Len(<<d>>) = 1 /\ n \in Nat
    BY LenProperties
  <2>2. \A i \in 1..n + 1 : t[i] = IF i <= 1 THEN <<d>>[i] ELSE s[i - 1]
    BY <2>1, ConcatProperties
  <2>3. ASSUME NEW i \in 1..n PROVE t[i + 1] = s[i]
    <3>1. i + 1 \in 1..n + 1 /\ ~(i + 1 <= 1) /\ (i + 1) - 1 = i
      BY <2>1
    <3>. QED  BY <3>1, <2>2
  <2>. QED  BY <2>1, <2>2, <2>3, ConcatProperties
<1> HIDE DEF t
<1>2. Bytes(t) = moved \union row
  <2>1. ASSUME NEW x \in Bytes(t) PROVE x \in moved \union row
    <3>1. PICK i \in 1..n + 1, j \in Nat : j \in 1..Len(t[i]) /\ x = <<i, j>>
      BY BytesMember, <1>1
    <3>2. CASE i = 1
      BY <3>1, <3>2, <1>1
    <3>3. CASE i # 1
      <4>1. PICK k \in 1..n : i = k + 1
        BY <3>3, <1>1
      <4>2. j \in 1..Len(s[k])
        BY <3>1, <4>1, <1>1
      <4>3. <<k, j>> \in Bytes(s)
        BY <4>2, <3>1, BytesMember
      <4>4. x = <<(<<k, j>>)[1] + 1, (<<k, j>>)[2]>>
        BY <4>1, <3>1
      <4>. QED  BY <4>3, <4>4
    <3>. QED  BY <3>2, <3>3
  <2>2. ASSUME NEW y \in Bytes(s) PROVE <<y[1] + 1, y[2]>> \in Bytes(t)
    <3>1. PICK i \in 1..n, j \in Nat : j \in 1..Len(s[i]) /\ y = <<i, j>>
      BY BytesMember
    <3>2. i + 1 \in 1..Len(t) /\ j \in 1..Len(t[i + 1])
      BY <3>1, <1>1
    <3>. QED  BY <3>1, <3>2, <1>1, BytesMember
  <2>3. ASSUME NEW x \in row PROVE x \in Bytes(t)
    <3>1. PICK j \in 1..Len(d) : x = <<1, j>>
      OBVIOUS
    <3>2. 1 \in 1..Len(t) /\ j \in 1..Len(t[1])
      BY <3>1, <1>1
    <3>. QED  BY <3>1, <3>2, <1>1, BytesMember
  <2>4. moved \subseteq Bytes(t)
    BY <2>2
  <2> HIDE DEF row, moved
  <2>. QED  BY <2>1, <2>3, <2>4
<1>3. moved \cap row = {}
  <2>1. ASSUME NEW x \in Bytes(s), <<x[1] + 1, x[2]>> \in row PROVE FALSE
    <3>1. PICK i \in 1..n, j \in Nat : j \in 1..Len(s[i]) /\ x = <<i, j>>
      BY BytesMember
    <3>2. i + 1 = 1
      BY <2>1, <3>1
    <3>. QED  BY <3>2, <1>1
  <2>2. ASSUME NEW z \in moved, z \in row PROVE FALSE
    BY <2>1, <2>2
  <2> HIDE DEF moved, row
  <2>. QED  BY <2>2
<1>4. f \in Bijection(Bytes(s), moved)
  <2>1. f \in [Bytes(s) -> moved]
    OBVIOUS
  <2>2. ASSUME NEW x \in Bytes(s), NEW y \in Bytes(s), f[x] = f[y] PROVE x = y
    <3>1. PICK i \in 1..n, j \in Nat : j \in 1..Len(s[i]) /\ x = <<i, j>>
      BY BytesMember
    <3>2. PICK k \in 1..n, l \in Nat : l \in 1..Len(s[k]) /\ y = <<k, l>>
      BY BytesMember
    <3>3. f[x] = <<i + 1, j>> /\ f[y] = <<k + 1, l>>
      BY <3>1, <3>2
    <3>4. i + 1 = k + 1 /\ j = l
      BY <3>3, <2>2
    <3>. QED  BY <3>1, <3>2, <3>4, <1>1
  <2>3. \A z \in moved : \E x \in Bytes(s) : f[x] = z
    OBVIOUS
  <2> HIDE DEF f, moved
  <2>4. f \in Injection(Bytes(s), moved)
    BY <2>1, <2>2 DEF Injection, IsInjective
  <2>5. f \in Surjection(Bytes(s), moved)
    BY <2>1, <2>3 DEF Surjection
  <2>. QED  BY <2>4, <2>5 DEF Bijection
<1>5. ExistsBijection(Bytes(s), moved)
  BY <1>4 DEF ExistsBijection
<1>6. Len(d) \in Nat
  BY LenProperties
<1>7. IsFiniteSet(row) /\ Cardinality(row) = Len(d)
  BY <1>6, Row
<1> HIDE DEF row, t, moved, f
<1>8. IsFiniteSet(moved) /\ Cardinality(moved) = Cardinality(Bytes(s))
  BY <1>5, FS_Bijection
<1>9. Cardinality(Bytes(s)) \in Nat
  BY FS_CardinalityType
<1>10. IsFiniteSet(Bytes(t)) /\ Cardinality(Bytes(t)) =
           Cardinality(moved) + Cardinality(row) - Cardinality({})
  BY <1>2, <1>3, <1>7, <1>8, FS_Union
<1>11. Cardinality({}) = 0
  BY FS_EmptySet
<1>12. Total(t) = Len(d) + Total(s)
  BY <1>6, <1>7, <1>8, <1>9, <1>10, <1>11 DEF Total
<1>. QED  BY <1>10, <1>12 DEF t

LEMMA TotalTail ==
    ASSUME NEW s \in Seq(Seq(Nat)), s # <<>>, IsFiniteSet(Bytes(s))
    PROVE  /\ IsFiniteSet(Bytes(Tail(s)))
           /\ Total(s) = Len(Head(s)) + Total(Tail(s))
<1> DEFINE rest == Tail(s)
           f == [x \in Bytes(rest) |-> <<x[1] + 1, x[2]>>]
<1>1. Len(s) \in Nat \ {0} /\ rest \in Seq(Seq(Nat)) /\ Len(rest) = Len(s) - 1
      /\ Head(s) \in Seq(Nat) /\ \A i \in 1..Len(rest) : rest[i] = s[i + 1]
  BY HeadTailProperties, EmptySeq
<1>2. s = <<Head(s)>> \o Tail(s)
  <2> DEFINE t == <<Head(s)>> \o Tail(s)
  <2>1. <<Head(s)>> \in Seq(Seq(Nat)) /\ Len(<<Head(s)>>) = 1
    BY <1>1
  <2>2. t \in Seq(Seq(Nat)) /\ Len(t) = Len(s)
        /\ \A i \in 1..Len(s) : t[i] = IF i <= 1 THEN <<Head(s)>>[i] ELSE Tail(s)[i - 1]
    BY <2>1, <1>1, ConcatProperties
  <2>3. ASSUME NEW i \in 1..Len(s) PROVE s[i] = t[i]
    <3>1. CASE i = 1
      BY <3>1, <2>2
    <3>2. CASE i # 1
      <4>1. i - 1 \in 1..Len(Tail(s)) /\ ~(i <= 1) /\ (i - 1) + 1 = i
        BY <3>2, <1>1
      <4>. QED  BY <4>1, <2>2, <1>1
    <3>. QED  BY <3>1, <3>2
  <2> HIDE DEF t
  <2>4. s = t
    BY <2>2, <2>3, SeqEqual
  <2>. QED  BY <2>4 DEF t
<1> HIDE DEF rest
<1>3. f \in Injection(Bytes(rest), Bytes(s))
  <2>1. ASSUME NEW x \in Bytes(rest)
        PROVE  \E i \in 1..Len(rest), j \in Nat :
                  x = <<i, j>> /\ f[x] = <<i + 1, j>> /\ f[x] \in Bytes(s)
    <3>1. PICK i \in 1..Len(rest), j \in Nat : j \in 1..Len(rest[i]) /\ x = <<i, j>>
      <4>1. rest \in Seq(Seq(Nat)) /\ x \in Bytes(rest)
        BY <1>1
      <4>. QED  BY ONLY <4>1, BytesMember
    <3>2. f[x] = <<i + 1, j>>
      BY <3>1
    <3>3. i + 1 \in 1..Len(s) /\ j \in 1..Len(s[i + 1])
      BY <3>1, <1>1
    <3>4. f[x] \in Bytes(s)
      BY <3>1, <3>2, <3>3, BytesMember
    <3> HIDE DEF f
    <3>. QED  BY <3>1, <3>2, <3>4
  <2>2. f \in [Bytes(rest) -> Bytes(s)]
    BY <2>1
  <2>3. ASSUME NEW x \in Bytes(rest), NEW y \in Bytes(rest), f[x] = f[y]
        PROVE  x = y
    <3>1. PICK i \in 1..Len(rest), j \in Nat : x = <<i, j>> /\ f[x] = <<i + 1, j>>
      BY <2>1
    <3>2. PICK k \in 1..Len(rest), l \in Nat : y = <<k, l>> /\ f[y] = <<k + 1, l>>
      BY <2>1
    <3>3. i + 1 = k + 1 /\ j = l
      BY <3>1, <3>2, <2>3
    <3>. QED  BY <3>1, <3>2, <3>3, <1>1
  <2> HIDE DEF f
  <2>. QED  BY <2>2, <2>3 DEF Injection, IsInjective
<1> HIDE DEF f
<1>4. IsFiniteSet(Bytes(rest))
  BY <1>3, FS_Injection
<1>5. Total(<<Head(s)>> \o rest) = Len(Head(s)) + Total(rest)
  BY <1>1, <1>4, TotalPrepend
<1>. QED  BY <1>2, <1>4, <1>5 DEF rest

-----------------------------------------------------------------------------
(* Each step keeps the invariant.                                          *)

LEMMA Sizes ==
    /\ Size \in Nat \ {0} /\ RangeSize \in Nat \ {0}
    /\ MaxBufferSize \in Nat \ {0} /\ MaxWrite \in Nat \ {0}
BY SizesAssumption

LEMMA BytesAreNumbers ==
    /\ \A d \in Seq(0..Size - 1) : d \in Seq(Nat)
    /\ \A s \in Seq(Seq(0..Size - 1)) : s \in Seq(Seq(Nat))
<1>1. 0..Size - 1 \subseteq Nat
  BY Sizes
<1>2. \A d \in Seq(0..Size - 1) : d \in Seq(Nat)
  BY <1>1, SeqMonotonic
<1>3. Seq(0..Size - 1) \subseteq Seq(Nat)
  BY <1>2
<1>. QED  BY <1>2, <1>3, SeqMonotonic

\* Where the next read reads is in the object.
LEMMA Positions ==
    ASSUME TypeOK
    PROVE  /\ Front \in 0..Size /\ Returnable \in Nat
           /\ Len(unused) \in Nat /\ Len(lastData) \in Nat
           /\ buffer \in Seq(Seq(Nat))
           /\ thread.at \in Nat /\ thread.end \in Nat /\ thread.at <= Size
BY BytesAreNumbers, Sizes DEF TypeOK, Front, Returnable

LEMMA InitInv ==
    ASSUME WholeChunks, Init
    PROVE  Inv
<1>1. Started(0) \in [pc : {"room", "append", "off"}, at : 0..Size, end : 0..Size]
      /\ Started(0).at = 0 /\ 0 <= Started(0).end /\ Started(0).pc = "room"
  BY Sizes DEF Started, EndOfRange
<1>2. TypeOK
  <2>1. <<>> \in Seq(Seq(0..Size - 1)) /\ <<>> \in Seq(0..Size - 1)
    BY EmptySeq
  <2>2. 0 \in 0..Size /\ 0 \in Int /\ 0 \in Nat
    BY Sizes
  <2>3. [at |-> 0, data |-> <<>>] \in [at : 0..Size, data : Seq(0..Size - 1)]
    BY <2>1, <2>2
  <2>. QED  BY <2>1, <2>2, <2>3, <1>1 DEF Init, TypeOK
<1>3. Span(0, 0) = <<>>
  BY DEF Span
<1>4. StreamInv
  <2>1. Chained(<<>>, 0, 0)
    BY ChainEmpty
  <2>2. Front = 0
    BY DEF Front, Init
  <2>3. Len(<<>>) = 0
    OBVIOUS
  <2>. QED  BY <2>1, <2>2, <2>3, <1>1, <1>3 DEF Init, StreamInv
<1>5. CallInv /\ ChunkInv
  BY Sizes DEF Init, CallInv, ChunkInv
<1>6. CountInv
  BY <1>1, TotalEmpty, Sizes DEF Init, CountInv, Returnable
<1>7. ReadIsObject
  BY <1>3 DEF Init, ReadIsObject
<1>. QED  BY <1>2, <1>4, <1>5, <1>6, <1>7 DEF Inv

\* Steps that move no data.
Quiet ==
    /\ UNCHANGED <<buffer, buffered, stream, upload, got>>
    /\ thread' \in [pc : {"room", "append", "off"}, at : {thread.at}, end : 0..Size]
    /\ thread.at <= thread'.end
    /\ thread'.pc = "append" => thread.pc = "append" \/ buffered < MaxBufferSize
    /\ stop' \in BOOLEAN /\ failure' \in BOOLEAN
    /\ argument' \in Nat /\ confirmed' = confirmed
    /\ restarts' \in Nat /\ faults' \in Nat
    /\ \/ pc' = pc /\ argument' = argument
       \/ Following /\ pc # "end" /\ pc' \in {"idle", "broken", "failed"}
       \/ pc = "idle" /\ pc' = "read" /\ position < Size /\ argument' \in upload.amounts

LEMMA QuietStep ==
    ASSUME Inv, Quiet
    PROVE  Inv'
<1>1. TypeOK'
  BY DEF Inv, TypeOK, Quiet, stream, Following
<1>2. Front' = Front /\ Returnable' = Returnable /\ (Following' => Following)
      /\ thread'.at = thread.at
  BY DEF Front, Returnable, Following, Quiet, stream
<1>3. StreamInv'
  BY <1>2 DEF Inv, StreamInv, Quiet, stream
<1>4. CallInv'
  BY DEF Inv, CallInv, Quiet, stream, Following
<1>5. ChunkInv'
  BY DEF Inv, ChunkInv, Quiet, stream
<1>6. CountInv'
  <2>1. Returnable <= MaxWrite
    BY Sizes DEF Inv, ChunkInv, Returnable
  <2>2. pc' # "failed" => pc # "failed"
    BY DEF Quiet, Following
  <2>3. buffered \in Int /\ Returnable \in Nat
    BY Positions DEF Inv, TypeOK
  <2>4. thread'.pc = "append" /\ pc' # "failed"
            => buffered + Returnable < MaxBufferSize + MaxWrite
    BY <2>1, <2>2, <2>3, Sizes DEF Inv, CountInv, Quiet
  <2>. QED  BY <1>2, <2>2, <2>4 DEF Inv, CountInv, Quiet, stream
<1>7. ReadIsObject'
  BY DEF Inv, ReadIsObject, Quiet
<1>. QED  BY <1>1, <1>3, <1>4, <1>5, <1>6, <1>7 DEF Inv

LEMMA QuietSteps ==
    ASSUME Inv,
           \/ FindRoom \/ RangeEnds \/ DownloadRaises
           \/ (\E amt \in upload.amounts : Read(amt))
           \/ ReadRaises \/ UploadBreaks \/ GiveUp \/ Stopped \/ UNCHANGED vars
    PROVE  Quiet
<1>1. TypeOK
  BY DEF Inv
<1>2. upload.amounts \subseteq Nat
  BY <1>1, UploadsAssumption DEF TypeOK
<1>3. thread.at \in 0..Size /\ thread.end \in 0..Size /\ thread.at <= thread.end
      /\ thread.pc \in {"room", "append", "off"}
      /\ thread = [pc |-> thread.pc, at |-> thread.at, end |-> thread.end]
  BY <1>1 DEF TypeOK
<1>4. CASE FindRoom
  BY <1>1, <1>3, <1>4 DEF FindRoom, HasRoom, ThreadUnchanged, Quiet, TypeOK, stream
<1>5. CASE RangeEnds
  <2>1. CASE thread' = Started(thread.at) /\ UNCHANGED stop
    <3>1. thread.at < Size \/ thread.at = Size
      BY <1>3, Sizes
    <3>2. EndOfRange(thread.at) \in 0..Size /\ thread.at <= EndOfRange(thread.at)
      BY <1>3, Sizes DEF EndOfRange
    <3>. QED  BY <2>1, <3>2, <1>1, <1>3, <1>5
           DEF RangeEnds, ThreadUnchanged, Quiet, TypeOK, stream, Started
  <2>2. CASE thread' = [thread EXCEPT !.pc = "off"] /\ stop' = (stop /\ thread.end = Size)
    BY <2>2, <1>1, <1>3, <1>5 DEF RangeEnds, ThreadUnchanged, Quiet, TypeOK, stream
  <2>. QED  BY <2>1, <2>2, <1>5 DEF RangeEnds
<1>6. CASE DownloadRaises
  <2>1. thread' = [pc |-> "off", at |-> thread.at, end |-> thread.end]
    BY <1>3, <1>6 DEF DownloadRaises
  <2>2. faults' \in Nat
    BY <1>1, <1>6 DEF DownloadRaises, TypeOK
  <2>. QED  BY <2>1, <2>2, <1>1, <1>3, <1>6 DEF DownloadRaises, ThreadUnchanged, Quiet, TypeOK, stream
<1>7. CASE \E amt \in upload.amounts : Read(amt)
  BY <1>1, <1>2, <1>3, <1>7 DEF Read, WrapperUnchanged, Quiet, TypeOK, stream, bounds
<1>8. CASE ReadRaises
  BY <1>1, <1>3, <1>8 DEF ReadRaises, WrapperUnchanged, Quiet, TypeOK, stream, bounds,
     Following
<1>9. CASE UploadBreaks
  BY <1>1, <1>3, <1>9 DEF UploadBreaks, WrapperUnchanged, Quiet, TypeOK, stream, Following
<1>10. CASE GiveUp
  BY <1>1, <1>3, <1>10 DEF GiveUp, WrapperUnchanged, Quiet, TypeOK, stream, bounds,
     Following
<1>11. CASE Stopped \/ UNCHANGED vars
  BY <1>1, <1>3, <1>11 DEF Stopped, vars, Quiet, TypeOK, stream, bounds
<1>. QED  BY <1>4, <1>5, <1>6, <1>7, <1>8, <1>9, <1>10, <1>11

LEMMA WriteStep ==
    ASSUME Inv, NEW n \in 1..MaxWrite, Write(n)
    PROVE  Inv'
<1> DEFINE d == Span(thread.at, thread.at + n)
<1>0. TypeOK /\ thread.at \in Nat /\ n \in Nat \ {0} /\ n <= MaxWrite
      /\ thread.at + n <= thread.end /\ thread.end <= Size /\ thread.end \in Nat
  <2>1. TypeOK
    BY DEF Inv
  <2>2. thread.at \in 0..Size /\ thread.end \in 0..Size
    BY <2>1 DEF TypeOK
  <2>. QED  BY <2>1, <2>2, Sizes DEF Write
<1>1. d \in Seq(Nat) /\ Len(d) = n /\ d \in Seq(0..Size - 1)
  <2>1. thread.at + n \in Nat /\ thread.at <= thread.at + n /\ thread.at + n <= Size
        /\ (thread.at + n) - thread.at = n /\ Size \in Nat
    BY <1>0, Sizes
  <2>. QED  BY <2>1, <1>0, SpanFacts
<1>2. buffer \in Seq(Seq(Nat)) /\ buffer' = Append(buffer, d)
  BY <1>0, Positions DEF Write
<1>3. /\ thread' = [thread EXCEPT !.pc = "room", !.at = @ + n]
      /\ buffered' = buffered + n
      /\ UNCHANGED <<unused, position, lastPosition, lastData, stop, failure, upload,
                     pc, argument, confirmed, got, restarts, faults>>
  BY DEF Write, ThreadUnchanged, stream
<1>4. thread' \in [pc : {"room", "append", "off"}, at : 0..Size, end : 0..Size]
      /\ thread'.at = thread.at + n /\ thread'.end = thread.end /\ thread'.pc = "room"
  <2>1. thread = [pc |-> thread.pc, at |-> thread.at, end |-> thread.end]
    BY <1>0 DEF TypeOK
  <2>2. thread' = [pc |-> "room", at |-> thread.at + n, end |-> thread.end]
    BY <2>1, <1>3
  <2>3. thread.at + n \in 0..Size /\ thread.end \in 0..Size
    BY <1>0, Sizes
  <2>. QED  BY <2>2, <2>3
<1> HIDE DEF d
<1>5. TypeOK'
  <2>1. buffer' \in Seq(Seq(0..Size - 1))
    BY <1>0, <1>1, <1>2, AppendProperties DEF TypeOK
  <2>2. buffered' \in Int
    BY <1>0, <1>3 DEF TypeOK
  <2>. QED  BY <2>1, <2>2, <1>0, <1>3, <1>4 DEF TypeOK
<1>6. Front' = Front /\ Returnable' = Returnable /\ Following' = Following
  BY <1>3 DEF Front, Returnable, Following
<1>7. StreamInv'
  <2>1. ASSUME Following
        PROVE  Chained(buffer', Front + Len(unused), thread.at + n)
    <3>1. Chained(buffer, Front + Len(unused), thread.at)
      BY <2>1 DEF Inv, StreamInv
    <3>2. thread.at + n \in Nat /\ thread.at < thread.at + n
      BY <1>0
    <3>. QED  BY <3>1, <3>2, <1>2, ChainAppend DEF d
  <2>. QED  BY <2>1, <1>3, <1>4, <1>6 DEF Inv, StreamInv
<1>8. CallInv'
  BY <1>3 DEF Inv, CallInv
<1>9. ChunkInv'
  <2>1. Len(buffer') = Len(buffer) + 1 /\ Len(buffer) \in Nat
        /\ buffer'[Len(buffer) + 1] = d /\ \A i \in 1..Len(buffer) : buffer'[i] = buffer[i]
    BY <1>1, <1>2, AppendProperties, LenProperties
  <2>2. ASSUME NEW i \in 1..Len(buffer') PROVE Len(buffer'[i]) <= MaxWrite
    <3>1. CASE i = Len(buffer) + 1
      BY <3>1, <2>1, <1>1, <1>0
    <3>2. CASE i # Len(buffer) + 1
      <4>1. i \in 1..Len(buffer)
        BY <3>2, <2>1
      <4>. QED  BY <4>1, <2>1 DEF Inv, ChunkInv
    <3>. QED  BY <3>1, <3>2
  <2>. QED  BY <2>2, <1>3 DEF Inv, ChunkInv
<1>10. CountInv'
  <2>1. IsFiniteSet(Bytes(buffer')) /\ Total(buffer') = Total(buffer) + n
        /\ Total(buffer) \in Nat
    BY <1>1, <1>2, TotalAppend, FS_CardinalityType DEF Inv, CountInv, Total
  <2>2. buffered \in Int /\ Returnable \in Nat /\ Len(unused) \in Nat
    BY <1>0, Positions DEF TypeOK
  <2>3. pc # "failed" =>
            buffered + n + Returnable < MaxBufferSize + 2 * MaxWrite
    BY <1>0, <2>2, Sizes DEF Inv, CountInv, Write
  <2>. QED  BY <2>1, <2>2, <2>3, <1>0, <1>3, <1>4, <1>6 DEF Inv, CountInv
<1>11. ReadIsObject'
  BY <1>3 DEF Inv, ReadIsObject
<1>. QED  BY <1>5, <1>7, <1>8, <1>9, <1>10, <1>11 DEF Inv

LEMMA TakeStep ==
    ASSUME WholeChunks, Inv, Take
    PROVE  Inv'
<1> DEFINE chunk == IF unused # <<>> THEN unused ELSE Head(buffer)
           L == Len(chunk)
           k == IF argument < L THEN argument ELSE L
           data == SubSeq(chunk, 1, k)
<1>1. /\ unused' = SubSeq(chunk, argument + 1, L)
      /\ buffer' = IF unused # <<>> THEN buffer ELSE Tail(buffer)
      /\ lastPosition' = position /\ lastData' = data
      /\ position' = position + Len(data)
      /\ buffered' = buffered - Len(data)
      /\ got' = [at |-> position, data |-> data]
      /\ pc = "read" /\ pc' = "idle"
      /\ unused # <<>> \/ buffer # <<>>
      /\ UNCHANGED <<stop, failure, thread, upload, argument, confirmed, restarts, faults>>
  BY DEF Take, bounds
<1>2. /\ TypeOK /\ Front = position /\ position \in Nat /\ position <= Size
      /\ buffer \in Seq(Seq(Nat)) /\ unused \in Seq(Nat)
      /\ Len(unused) \in Nat /\ thread.at \in Nat /\ thread.at <= Size
      /\ buffered \in Int /\ Returnable \in Nat /\ upload \in Uploads
  <2>1. TypeOK
    BY DEF Inv
  <2>2. position \in 0..Size /\ unused \in Seq(0..Size - 1) /\ upload \in Uploads
        /\ buffered \in Int
    BY <2>1 DEF TypeOK
  <2>3. buffer \in Seq(Seq(Nat)) /\ Len(unused) \in Nat /\ thread.at \in Nat
        /\ thread.at <= Size /\ Returnable \in Nat
    BY <2>1, Positions
  <2>4. Front = position
    BY <1>1 DEF Front
  <2>. QED  BY <2>1, <2>2, <2>3, <2>4, BytesAreNumbers, Sizes
<1>3. argument \in Nat \ {0} /\ (upload.seeks => argument >= MaxWrite /\ unused = <<>>)
  BY <1>1, <1>2, UploadsAssumption DEF Inv, CallInv, WholeChunks
<1>4. /\ unused = Span(position, position + Len(unused))
      /\ Chained(buffer, position + Len(unused), thread.at)
  BY <1>1, <1>2 DEF Inv, StreamInv, Following
<1>5. /\ L \in Nat \ {0} /\ position + L <= thread.at /\ L <= MaxWrite
      /\ chunk = Span(position, position + L) /\ chunk \in Seq(Nat)
      /\ buffer' \in Seq(Seq(Nat)) /\ Chained(buffer', position + L, thread.at)
      /\ IsFiniteSet(Bytes(buffer'))
      /\ Total(buffer') + L = Total(buffer) + Len(unused)
  <2>1. Total(buffer) \in Nat /\ IsFiniteSet(Bytes(buffer))
    BY FS_CardinalityType DEF Inv, CountInv, Total
  <2>2. CASE unused # <<>>
    <3>1. chunk = unused /\ L = Len(unused) /\ L \in Nat \ {0} /\ buffer' = buffer
      BY <2>2, <1>1, <1>2, EmptySeq
    <3>2. position + L <= thread.at
      BY <3>1, <1>2, <1>4, ChainOrdered
    <3>3. L <= MaxWrite
      BY <3>1 DEF Inv, ChunkInv
    <3>. QED  BY <3>1, <3>2, <3>3, <2>1, <1>2, <1>4
  <2>3. CASE unused = <<>>
    <3>1. buffer # <<>> /\ chunk = Head(buffer) /\ Len(unused) = 0
          /\ buffer' = Tail(buffer) /\ position + Len(unused) = position
      BY <2>3, <1>1, <1>2
    <3>2. PICK m \in Nat : /\ position < m /\ m <= thread.at
                           /\ Head(buffer) = Span(position, m)
                           /\ Chained(Tail(buffer), m, thread.at)
      BY <3>1, <1>2, <1>4, ChainTail
    <3>3. chunk \in Seq(Nat) /\ L = m - position
      <4>1. position \in Nat /\ m \in Nat /\ position <= m
        BY <3>2, <1>2
      <4>2. Span(position, m) \in Seq(Nat) /\ Len(Span(position, m)) = m - position
        BY <4>1, SpanFacts
      <4>. QED  BY <4>2, <3>1, <3>2
    <3>4. position + L = m /\ L \in Nat \ {0}
      BY <3>2, <3>3, <1>2
    <3>5. IsFiniteSet(Bytes(Tail(buffer))) /\ Total(buffer) = L + Total(Tail(buffer))
      BY <3>1, <2>1, <1>2, TotalTail
    <3>6. Total(Tail(buffer)) \in Nat
      BY <3>5, FS_CardinalityType DEF Total
    <3>7. L <= MaxWrite
      <4>1. 1 \in 1..Len(buffer) /\ Head(buffer) = buffer[1]
        BY <3>1, <1>2, EmptySeq
      <4>. QED  BY <4>1, <3>1 DEF Inv, ChunkInv
    <3>8. Tail(buffer) \in Seq(Seq(Nat))
      BY <3>1, <1>2, HeadTailProperties
    <3> HIDE DEF chunk
    <3>. QED  BY <3>1, <3>2, <3>3, <3>4, <3>5, <3>6, <3>7, <3>8, <1>2
  <2>. QED  BY <2>2, <2>3
<1> HIDE DEF chunk
<1>6. k \in 1..L /\ k \in Nat /\ (argument < L => k = argument) /\ (~(argument < L) => k = L)
  BY <1>3, <1>5
<1>7. data = Span(position, position + k) /\ Len(data) = k /\ data \in Seq(0..Size - 1)
  <2> HIDE DEF k, L
  <2>1. position + L \in Nat /\ k \in 0..(position + L) - position
    BY <1>2, <1>5, <1>6
  <2>4. SubSeq(Span(position, position + L), 1, k) = Span(position, position + k)
    BY <2>1, <1>2, SpanParts
  <2>2. data = Span(position, position + k)
    BY <2>4, <1>5
  <2>3. position + k \in Nat /\ position <= position + k /\ (position + k) - position = k
        /\ position + k <= Size
    BY <1>2, <1>5, <1>6, Sizes
  <2> HIDE DEF k, data
  <2>. QED  BY <2>2, <2>3, <1>2, Sizes, SpanFacts
<1>8. unused' = Span(position + k, position + L) /\ Len(unused') = L - k
      /\ unused' \in Seq(0..Size - 1)
  <2>1. position + k \in Nat /\ position + L \in Nat /\ position + k <= position + L
        /\ (position + L) - (position + k) = L - k /\ position + L <= Size
        /\ (position + L) - position = L
    BY <1>2, <1>5, <1>6, Sizes
  <2> HIDE DEF k, L
  <2>2. unused' = Span(position + k, position + L)
    <3>1. CASE argument < L
      <4>1. k = argument /\ k \in 0..(position + L) - position
        BY <3>1, <2>1, <1>6
      <4>2. SubSeq(Span(position, position + L), k + 1, (position + L) - position)
              = Span(position + k, position + L)
        BY <4>1, <2>1, <1>2, SpanParts
      <4>. QED  BY <4>1, <4>2, <2>1, <1>1, <1>5
    <3>2. CASE ~(argument < L)
      <4>1. k = L /\ L < argument + 1 /\ L \in Int /\ argument + 1 \in Int
        BY <3>2, <1>3, <1>5, <1>6
      <4>2. unused' = <<>>
        BY <4>1, <1>1, SubSeqEmpty
      <4>3. Span(position + L, position + L) = <<>>
        <5>1. Len(Span(position + L, position + L)) = 0
              /\ Span(position + L, position + L) \in Seq(Nat)
          <6> DEFINE e == position + L
          <6>1. e \in Nat /\ e <= e /\ e - e = 0
            BY <2>1
          <6> HIDE DEF e
          <6>2. Span(e, e) \in Seq(Nat) /\ Len(Span(e, e)) = 0
            BY <6>1, SpanFacts
          <6>. QED  BY <6>2 DEF e
        <5>. QED  BY <5>1, EmptySeq
      <4>. QED  BY <4>1, <4>2, <4>3
    <3>. QED  BY <3>1, <3>2
  <2>. QED  BY <2>1, <2>2, Sizes, SpanFacts
<1> HIDE DEF k, data, L
<1>9. TypeOK'
  <2>1. buffer' \in Seq(Seq(0..Size - 1))
    <3>1. buffer \in Seq(Seq(0..Size - 1))
      BY <1>2 DEF TypeOK
    <3>2. buffer # <<>> => Tail(buffer) \in Seq(Seq(0..Size - 1))
      BY <3>1, HeadTailProperties
    <3>. QED  BY <3>1, <3>2, <1>1
  <2>2. position' \in 0..Size /\ buffered' \in Int
    <3>1. position' = position + k /\ buffered' = buffered - k
      BY <1>1, <1>7
    <3>2. k <= L /\ k \in Nat /\ L \in Nat /\ position + L <= thread.at
      BY <1>5, <1>6
    <3>. QED  BY <3>1, <3>2, <1>2, Sizes
  <2>3. got' \in [at : 0..Size, data : Seq(0..Size - 1)]
    BY <1>1, <1>2, <1>7, Sizes
  <2>. QED  BY <2>1, <2>2, <2>3, <1>1, <1>2, <1>7, <1>8 DEF TypeOK
<1>10. StreamInv'
  <2>1. Front' = position + k
    BY <1>1, <1>7 DEF Front
  <2>2. (position + k) + (L - k) = position + L
    BY <1>2, <1>5, <1>6
  <2>. QED  BY <2>1, <2>2, <1>1, <1>5, <1>7, <1>8 DEF StreamInv
<1>11. CallInv'
  <2>1. upload.seeks => unused' = <<>>
    <3>1. SUFFICES ASSUME upload.seeks PROVE unused' = <<>>
      OBVIOUS
    <3>2. k = L
      BY <3>1, <1>3, <1>5, <1>6, Sizes
    <3>3. Len(unused') = 0
      BY <3>2, <1>5, <1>8
    <3>. QED  BY <3>3, <1>8, EmptySeq
  <2>. QED  BY <2>1, <1>1 DEF CallInv
<1>12. ChunkInv'
  <2>1. \A i \in 1..Len(buffer') : Len(buffer'[i]) <= MaxWrite
    <3>1. CASE unused # <<>>
      BY <3>1, <1>1 DEF Inv, ChunkInv
    <3>2. CASE unused = <<>>
      <4>1. Len(buffer') = Len(buffer) - 1 /\ Len(buffer) \in Nat
            /\ \A i \in 1..Len(buffer') : buffer'[i] = buffer[i + 1]
        BY <3>2, <1>1, <1>2, HeadTailProperties, LenProperties
      <4>2. \A i \in 1..Len(buffer') : i + 1 \in 1..Len(buffer)
        BY <4>1
      <4>. QED  BY <4>1, <4>2 DEF Inv, ChunkInv
    <3>. QED  BY <3>1, <3>2
  <2>2. k <= MaxWrite /\ L - k <= MaxWrite
    BY <1>5, <1>6, Sizes
  <2>. QED  BY <2>1, <2>2, <1>1, <1>7, <1>8 DEF ChunkInv
<1>13. CountInv'
  <2>1. Returnable' \in Nat /\ Returnable' <= k
    BY <1>1, <1>6, <1>7 DEF Returnable
  <2>2. Total(buffer) \in Nat /\ Total(buffer') \in Nat
    BY <1>5, FS_CardinalityType DEF Inv, CountInv, Total
  <2>3. buffered = Total(buffer) + Len(unused)
        /\ buffered + Returnable < MaxBufferSize + 2 * MaxWrite
        /\ (thread.pc = "append" => buffered + Returnable < MaxBufferSize + MaxWrite)
    BY <1>1 DEF Inv, CountInv
  <2>4. buffered' = buffered - k
    BY <1>1, <1>7
  <2>5. buffered' = Total(buffer') + Len(unused')
    <3>1. Total(buffer') + L = Total(buffer) + Len(unused) /\ L \in Nat /\ k \in Nat
          /\ Len(unused) \in Nat /\ Len(unused') = L - k
      BY <1>2, <1>5, <1>6, <1>8
    <3>. QED  BY <3>1, <2>2, <2>3, <2>4
  <2>6. buffered' + Returnable' <= buffered + Returnable
    <3>1. buffered \in Int /\ Returnable \in Nat /\ k \in Nat
      BY <1>2, <1>6
    <3> DEFINE ret == Returnable'
               bufferedThen == buffered'
    <3>2. ret \in Nat /\ ret <= k /\ bufferedThen = buffered - k
      BY <2>1, <2>4
    <3> HIDE DEF ret, bufferedThen
    <3>3. bufferedThen + ret <= buffered + Returnable
      BY <3>1, <3>2
    <3>. QED  BY <3>3 DEF ret, bufferedThen
  <2>7. buffered' + Returnable' \in Int /\ buffered + Returnable \in Int
    BY <2>1, <2>4, <1>2, <1>6
  <2>8. thread' = thread
    BY <1>1
  <2>. QED  BY <2>3, <2>5, <2>6, <2>7, <2>8, <1>5, Sizes DEF CountInv
<1>14. ReadIsObject'
  BY <1>1, <1>7 DEF ReadIsObject
<1>. QED  BY <1>9, <1>10, <1>11, <1>12, <1>13, <1>14 DEF Inv

LEMMA SeekEndStep ==
    ASSUME Inv, SeekEnd
    PROVE  Inv'
<1>1. /\ pc = "idle" /\ pc' = "end"
      /\ lastPosition' = position /\ lastData' = <<>> /\ position' = Size
      /\ UNCHANGED <<buffer, buffered, unused, stop, failure, thread, upload,
                     argument, confirmed, got, restarts, faults>>
  BY DEF SeekEnd, WrapperUnchanged, SeekUnchanged
<1>2. TypeOK /\ position \in 0..Size /\ position \in Nat
  BY Sizes DEF Inv, TypeOK
<1>3. TypeOK'
  BY <1>1, <1>2, Sizes, EmptySeq DEF TypeOK
<1>4. Front' = position /\ Front = position
  BY <1>1 DEF Front
<1>5. StreamInv'
  <2>1. Len(<<>>) = 0 /\ Span(position, position + 0) = <<>>
    BY <1>2 DEF Span
  <2>. QED  BY <2>1, <1>1, <1>4 DEF Inv, StreamInv, Following
<1>6. CallInv'
  BY <1>1 DEF Inv, CallInv
<1>7. ChunkInv'
  BY <1>1, Sizes DEF Inv, ChunkInv
<1>8. CountInv'
  <2>1. Returnable' = 0
    BY <1>1 DEF Returnable
  <2>2. Returnable \in Nat /\ buffered \in Int
    BY <1>2, Positions DEF TypeOK
  <2>. QED  BY <2>1, <2>2, <1>1, Sizes DEF Inv, CountInv
<1>9. ReadIsObject'
  BY <1>1 DEF Inv, ReadIsObject
<1>. QED  BY <1>3, <1>5, <1>6, <1>7, <1>8, <1>9 DEF Inv

LEMMA SeekBackStep ==
    ASSUME Inv, SeekBack
    PROVE  Inv'
<1>1. /\ pc = "end" /\ pc' = "idle" /\ position' = lastPosition /\ lastData = <<>>
      /\ UNCHANGED <<buffer, buffered, unused, lastPosition, lastData, stop, failure,
                     thread, upload, argument, confirmed, got, restarts, faults>>
  BY DEF SeekBack, Seek, Back, SeekUnchanged, Inv, CallInv
<1>2. TypeOK
  BY DEF Inv
<1>3. TypeOK'
  BY <1>1, <1>2 DEF TypeOK
<1>4. Front' = lastPosition /\ Front = lastPosition
  BY <1>1 DEF Front
<1>5. StreamInv'
  BY <1>1, <1>4 DEF Inv, StreamInv, Following
<1>6. CallInv'
  BY <1>1 DEF Inv, CallInv
<1>7. ChunkInv'
  BY <1>1 DEF Inv, ChunkInv
<1>8. CountInv'
  <2>1. Returnable' = 0
    BY <1>1 DEF Returnable
  <2>2. Returnable \in Nat /\ buffered \in Int
    BY <1>2, Positions DEF TypeOK
  <2>. QED  BY <2>1, <2>2, <1>1, Sizes DEF Inv, CountInv
<1>9. ReadIsObject'
  BY <1>1 DEF Inv, ReadIsObject
<1>. QED  BY <1>3, <1>5, <1>6, <1>7, <1>8, <1>9 DEF Inv

\* A seek of an upload that goes on, or that hashes what it has sent.
LEMMA ResumeStep ==
    ASSUME Inv, NEW offset \in 0..Size - 1, Resume(offset)
    PROVE  Inv'
<1>1. /\ upload.seeks /\ restarts' = restarts + 1
      /\ \/ /\ pc = "broken" /\ offset \in confirmed..position
            /\ confirmed' = offset
         \/ /\ pc = "idle" /\ position = Size /\ offset = 0 /\ confirmed' = Size
      /\ UNCHANGED <<unused, lastPosition, lastData, failure, thread, upload, got, faults>>
  BY DEF Resume, Seek, SeekUnchanged
<1>2. /\ TypeOK /\ Front = position /\ position \in Nat /\ lastPosition \in Nat
      /\ position <= Size /\ lastPosition <= Size /\ confirmed \in 0..Size
      /\ buffer \in Seq(Seq(Nat)) /\ buffered \in Int /\ Returnable \in Nat
      /\ offset \in Nat /\ offset < Size /\ unused = <<>> /\ Len(unused) = 0
      /\ lastData \in Seq(Nat) /\ Len(lastData) \in Nat
  <2>1. TypeOK /\ unused = <<>> /\ Front = position
    BY <1>1 DEF Inv, CallInv, Front
  <2>2. position \in 0..Size /\ lastPosition \in 0..Size /\ confirmed \in 0..Size
        /\ buffered \in Int /\ lastData \in Seq(0..Size - 1)
    BY <2>1 DEF TypeOK
  <2>3. buffer \in Seq(Seq(Nat)) /\ Returnable \in Nat /\ Len(lastData) \in Nat
    BY <2>1, Positions
  <2>. QED  BY <2>1, <2>2, <2>3, BytesAreNumbers, Sizes
<1>3. /\ Chained(buffer, position, thread.at)
      /\ lastData = Span(lastPosition, lastPosition + Len(lastData))
      /\ \/ position \in {lastPosition, lastPosition + Len(lastData)}
         \/ lastData = <<>> /\ position < Size /\ position <= confirmed
  <2>1. position + Len(unused) = position
    BY <1>2
  <2>. QED  BY <2>1, <1>1, <1>2 DEF Inv, StreamInv, Following
<1>4. confirmed' \in 0..Size /\ offset <= confirmed' /\ restarts' \in Nat
  <2>1. restarts \in Nat
    BY <1>2 DEF TypeOK
  <2>. QED  BY <2>1, <1>1, <1>2, Sizes
<1>5. CASE offset = position
  <2>1. /\ pc' = "idle"
        /\ UNCHANGED <<buffer, buffered, position, stop, argument>>
    BY <1>5 DEF Resume, Seek
  <2>2. TypeOK'
    BY <2>1, <1>1, <1>2, <1>4 DEF TypeOK
  <2>3. Front' = position /\ Returnable' = Returnable
    BY <2>1, <1>1 DEF Front, Returnable
  <2>4. StreamInv'
    <3>1. position < Size /\ position <= confirmed'
      BY <1>2, <1>4, <1>5
    <3>2. unused' = Span(position, position + Len(unused'))
          /\ Chained(buffer', position + Len(unused'), thread'.at)
      BY <2>1, <1>1, <1>2 DEF Inv, StreamInv, Following
    <3>. QED  BY <3>1, <3>2, <2>1, <2>3, <1>1, <1>3 DEF StreamInv
  <2>5. CallInv' /\ ChunkInv' /\ ReadIsObject'
    BY <2>1, <1>1 DEF Inv, CallInv, ChunkInv, ReadIsObject
  <2>6. CountInv'
    BY <2>1, <2>3, <1>1 DEF Inv, CountInv
  <2>. QED  BY <2>2, <2>4, <2>5, <2>6 DEF Inv
<1>6. CASE offset # position /\ offset = lastPosition
  <2>1. /\ pc' = "idle" /\ position' = lastPosition
        /\ IF lastData # <<>>
           THEN /\ buffer' = <<lastData>> \o buffer
                /\ buffered' = buffered + Len(lastData)
           ELSE UNCHANGED <<buffer, buffered>>
        /\ UNCHANGED <<stop, argument>>
    BY <1>6 DEF Resume, Seek, Back
  <2>2. position = lastPosition + Len(lastData) /\ lastPosition < position
    <3>1. ~(lastData = <<>> /\ position < Size /\ position <= confirmed)
      BY <1>1, <1>2, <1>6
    <3>. QED  BY <3>1, <1>2, <1>3, <1>6
  <2>3. lastData # <<>>
    BY <2>2, <1>2
  <2>4. /\ buffer' = <<lastData>> \o buffer /\ buffered' = buffered + Len(lastData)
        /\ lastData = Span(lastPosition, position)
    BY <2>1, <2>2, <2>3, <1>3
  <2>5. Chained(buffer', lastPosition, thread.at)
    BY <2>2, <2>4, <1>2, <1>3, ChainPrepend
  <2>6. TypeOK'
    <3>1. buffer' \in Seq(Seq(0..Size - 1))
      BY <2>4, <1>2, ConcatProperties DEF TypeOK
    <3>. QED  BY <3>1, <2>1, <2>4, <1>1, <1>2, <1>4 DEF TypeOK
  <2>7. Front' = lastPosition /\ Returnable' = 0 /\ Returnable = Len(lastData)
    BY <2>1, <2>2, <1>1, <1>2 DEF Front, Returnable
  <2>8. StreamInv'
    <3>1. Span(lastPosition, lastPosition + 0) = <<>> /\ lastPosition + 0 = lastPosition
      BY <1>2 DEF Span
    <3>. QED  BY <3>1, <2>5, <2>7, <1>1, <1>2, <1>3 DEF StreamInv
  <2>9. CallInv' /\ ReadIsObject'
    BY <2>1, <1>1, <1>2 DEF CallInv, ReadIsObject, Inv
  <2>10. ChunkInv'
    <3>1. /\ Len(buffer') = Len(buffer) + 1 /\ Len(buffer) \in Nat
          /\ buffer'[1] = lastData
          /\ \A i \in 2..Len(buffer) + 1 : buffer'[i] = buffer[i - 1]
      <4>1. <<lastData>> \in Seq(Seq(Nat)) /\ Len(<<lastData>>) = 1 /\ Len(buffer) \in Nat
        BY <1>2
      <4>2. Len(buffer') = Len(buffer) + 1
            /\ \A i \in 1..Len(buffer) + 1 :
                  buffer'[i] = IF i <= 1 THEN <<lastData>>[i] ELSE buffer[i - 1]
        BY <4>1, <2>4, <1>2, ConcatProperties
      <4>. QED  BY <4>1, <4>2
    <3>2. ASSUME NEW i \in 1..Len(buffer') PROVE Len(buffer'[i]) <= MaxWrite
      <4>1. CASE i = 1
        BY <4>1, <3>1 DEF Inv, ChunkInv
      <4>2. CASE i # 1
        <5>1. i \in 2..Len(buffer) + 1 /\ i - 1 \in 1..Len(buffer)
          BY <4>2, <3>1
        <5>. QED  BY <5>1, <3>1 DEF Inv, ChunkInv
      <4>. QED  BY <4>1, <4>2
    <3>. QED  BY <3>2, <1>1 DEF Inv, ChunkInv
  <2>11. CountInv'
    <3>1. IsFiniteSet(Bytes(buffer)) /\ Total(buffer) \in Nat
      BY FS_CardinalityType DEF Inv, CountInv, Total
    <3>2. IsFiniteSet(Bytes(buffer')) /\ Total(buffer') = Len(lastData) + Total(buffer)
      BY <3>1, <2>4, <1>2, TotalPrepend
    <3>3. pc # "failed"
      BY <1>1
    <3>4. /\ buffered = Total(buffer) + Len(unused)
          /\ buffered + Returnable < MaxBufferSize + 2 * MaxWrite
          /\ thread.pc = "append" => buffered + Returnable < MaxBufferSize + MaxWrite
      BY <3>3 DEF Inv, CountInv
    <3>5. buffered' = Total(buffer') + Len(unused')
      BY <3>1, <3>2, <3>4, <2>4, <1>1, <1>2
    <3>6. buffered' + Returnable' = buffered + Returnable
      BY <2>4, <2>7, <1>2
    <3>. QED  BY <3>2, <3>4, <3>5, <3>6, <1>1 DEF CountInv
  <2>. QED  BY <2>6, <2>8, <2>9, <2>10, <2>11 DEF Inv
<1>7. CASE offset # position /\ offset # lastPosition
  <2>1. /\ pc' = "drain" /\ argument' = offset /\ stop' = TRUE
        /\ UNCHANGED <<buffer, buffered, position>>
    BY <1>7 DEF Resume, Seek
  <2>2. TypeOK'
    BY <2>1, <1>1, <1>2, <1>4 DEF TypeOK
  <2>3. Returnable' = Returnable /\ ~Following'
    BY <2>1, <1>1 DEF Returnable, Following
  <2>4. StreamInv'
    BY <2>3 DEF StreamInv
  <2>5. CallInv' /\ ChunkInv' /\ ReadIsObject'
    BY <2>1, <1>1, <1>2, <1>4 DEF Inv, CallInv, ChunkInv, ReadIsObject
  <2>6. CountInv'
    BY <2>1, <2>3, <1>1 DEF Inv, CountInv
  <2>. QED  BY <2>2, <2>4, <2>5, <2>6 DEF Inv
<1>. QED  BY <1>5, <1>6, <1>7

LEMMA DrainStep ==
    ASSUME Inv, Drain
    PROVE  Inv'
<1>1. /\ pc = "drain" /\ buffer' = <<>>
      /\ IF buffered = Total(buffer) THEN buffered' = 0 /\ UNCHANGED pc
         ELSE buffered' = buffered - Total(buffer) /\ pc' = "failed"
      /\ UNCHANGED <<unused, position, lastPosition, lastData, stop, failure, thread,
                     upload, argument, confirmed, got, restarts, faults>>
  BY DEF Drain, stream, bounds
<1>2. TypeOK /\ unused = <<>> /\ Len(unused) = 0 /\ buffered \in Int
      /\ Returnable \in Nat /\ Returnable <= MaxWrite
  <2>1. TypeOK /\ unused = <<>>
    BY <1>1 DEF Inv, CallInv
  <2>2. Returnable \in Nat /\ buffered \in Int
    BY <2>1, Positions DEF TypeOK
  <2>3. Returnable <= MaxWrite
    BY Sizes DEF Inv, ChunkInv, Returnable
  <2>. QED  BY <2>1, <2>2, <2>3
<1>3. Total(buffer) \in Nat
  BY FS_CardinalityType DEF Inv, CountInv, Total
<1>4. buffered = Total(buffer)
  BY <1>1, <1>2, <1>3 DEF Inv, CountInv
<1>5. buffered' = 0 /\ pc' = pc
  BY <1>1, <1>4
<1>6. TypeOK'
  BY <1>1, <1>2, <1>5, EmptySeq DEF TypeOK
<1>7. StreamInv' /\ CallInv' /\ ReadIsObject'
  BY <1>1, <1>5 DEF Inv, StreamInv, CallInv, ReadIsObject, Following
<1>8. ChunkInv'
  <2>1. Len(<<>>) = 0 /\ \A i \in 1..0 : FALSE
    OBVIOUS
  <2>. QED  BY <2>1, <1>1 DEF Inv, ChunkInv
<1>9. CountInv'
  <2>1. Returnable' = Returnable
    BY <1>1 DEF Returnable
  <2>. QED  BY <2>1, <1>1, <1>2, <1>5, TotalEmpty, Sizes DEF CountInv
<1>. QED  BY <1>6, <1>7, <1>8, <1>9 DEF Inv

LEMMA RestartStep ==
    ASSUME Inv, Restart
    PROVE  Inv'
<1>1. /\ pc = "drain" /\ pc' = "idle" /\ position' = argument
      /\ buffer' = <<>> /\ buffered' = 0
      /\ lastPosition' = 0 /\ lastData' = <<>> /\ stop' = FALSE
      /\ thread' = Started(argument)
      /\ UNCHANGED <<unused, failure, upload, argument, confirmed, got, restarts, faults>>
  BY DEF Restart, ClearStop, bounds
<1>2. TypeOK /\ unused = <<>> /\ Len(unused) = 0
      /\ argument \in 0..Size /\ argument \in Nat /\ argument < Size /\ argument <= confirmed
  BY <1>1, Sizes DEF Inv, CallInv, TypeOK
<1>3. thread' \in [pc : {"room", "append", "off"}, at : 0..Size, end : 0..Size]
      /\ thread'.at = argument /\ argument <= thread'.end /\ thread'.pc = "room"
  BY <1>1, <1>2, Sizes DEF Started, EndOfRange
<1>4. TypeOK'
  <2>1. <<>> \in Seq(Seq(0..Size - 1)) /\ <<>> \in Seq(0..Size - 1)
    BY EmptySeq
  <2>2. 0 \in 0..Size /\ 0 \in Int
    BY Sizes
  <2>. QED  BY <2>1, <2>2, <1>1, <1>2, <1>3 DEF TypeOK
<1>5. StreamInv'
  <2>1. Front' = argument
    BY <1>1 DEF Front
  <2>2. Span(argument, argument + 0) = <<>> /\ argument + 0 = argument
        /\ Span(0, 0 + 0) = <<>> /\ Len(<<>>) = 0
    BY <1>2 DEF Span
  <2>3. Chained(<<>>, argument, argument)
    BY <1>2, ChainEmpty
  <2>. QED  BY <2>1, <2>2, <2>3, <1>1, <1>2, <1>3 DEF StreamInv
<1>6. CallInv'
  BY <1>1, <1>2 DEF CallInv
<1>7. ChunkInv'
  <2>1. Len(<<>>) = 0 /\ \A i \in 1..0 : FALSE
    OBVIOUS
  <2>. QED  BY <2>1, <1>1, <1>2, Sizes DEF ChunkInv
<1>8. CountInv'
  <2>1. Returnable' = 0
    BY <1>1 DEF Returnable
  <2>. QED  BY <2>1, <1>1, <1>2, <1>3, TotalEmpty, Sizes DEF CountInv
<1>9. ReadIsObject'
  BY <1>1 DEF Inv, ReadIsObject
<1>. QED  BY <1>4, <1>5, <1>6, <1>7, <1>8, <1>9 DEF Inv

LEMMA InvStep ==
    ASSUME WholeChunks, Inv, [Next]_vars
    PROVE  Inv'
<1>1. CASE Download
  BY <1>1, QuietSteps, QuietStep, WriteStep DEF Download
<1>2. CASE Call
  BY <1>2, TakeStep, SeekBackStep, DrainStep, RestartStep, QuietSteps, QuietStep DEF Call
<1>3. CASE \E offset \in 0..Size - 1 : Resume(offset)
  BY <1>3, ResumeStep
<1>4. CASE \/ DownloadRaises \/ (\E amt \in upload.amounts : Read(amt))
           \/ UploadBreaks \/ GiveUp \/ Stopped \/ UNCHANGED vars
  BY <1>4, QuietSteps, QuietStep
<1>. QED  BY <1>1, <1>2, <1>3, <1>4, SeekEndStep DEF Next

-----------------------------------------------------------------------------

\* The state stays of its types, whatever is sought and whatever fails: positions
\* are in the object and the threads hold bytes of it.
THEOREM TypesHold ==
    ASSUME WholeChunks
    PROVE  Spec => []TypeOK
<1>1. Init => Inv
  BY InitInv
<1>2. Inv /\ [Next]_vars => Inv'
  BY InvStep
<1>3. Inv => TypeOK
  BY DEF Inv
<1>. QED  BY <1>1, <1>2, <1>3, PTL DEF Spec

\* What the upload reads at a position are the object's bytes from there,
\* through any number of seeks, restarts of the download and failures, if the
\* uploads that seek take whole chunks (as resumable ones do).
THEOREM ReadIsObjectHolds ==
    ASSUME WholeChunks
    PROVE  Spec => []ReadIsObject
<1>1. Init => Inv
  BY InitInv
<1>2. Inv /\ [Next]_vars => Inv'
  BY InvStep
<1>3. Inv => ReadIsObject
  BY DEF Inv
<1>. QED  BY <1>1, <1>2, <1>3, PTL DEF Spec

\* bytes_buffered is what is held, and bounded by the size of the buffer, one
\* write that had found room and one read that was put back.
THEOREM BufferIsBoundedHolds ==
    ASSUME WholeChunks
    PROVE  Spec => []BufferIsBounded
<1>1. Init => Inv
  BY InitInv
<1>2. Inv /\ [Next]_vars => Inv'
  BY InvStep
<1>3. Inv => BufferIsBounded
  <2>1. SUFFICES ASSUME Inv, pc # "failed"
                 PROVE  /\ buffered = Total(buffer) + Len(unused)
                        /\ buffered < MaxBufferSize + 2 * MaxWrite
    BY DEF BufferIsBounded
  <2>2. Returnable \in Nat /\ buffered \in Int
    BY <2>1, Positions DEF Inv, TypeOK
  <2>. QED  BY <2>1, <2>2, Sizes DEF Inv, CountInv
<1>. QED  BY <1>1, <1>2, <1>3, PTL DEF Spec
=============================================================================
