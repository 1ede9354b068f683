------------------------ MODULE ResumableUploadProofs ------------------------
(***************************************************************************)
(* For any versions of the file, any kinds of source and keys, any chunk   *)
(* size, retries, runs, faults and changes: an upload that succeeds has    *)
(* delivered the source, what a session holds is a prefix of what was sent *)
(* to it, the digest is that of the position, a pipe is never sought       *)
(* outside its buffer, and no two runs in a row fail without a fault.      *)
(***************************************************************************)
EXTENDS ResumableUpload, SequenceTheorems, TLAPS

-----------------------------------------------------------------------------
(* Streams.                                                                *)

Byte == Versions \X Nat

Streams ==
    [src : Seq(Byte), max : Nat, pos : Nat, start : Nat, end : Nat,
     prev : Nat, cur : Nat, prevDigest : Seq(Byte), digest : Seq(Byte),
     away : BOOLEAN, failed : BOOLEAN]

\* The first n bytes, or what there is of them.
FirstBytes(q, n) == SubSeq(q, 1, Smaller(n, Len(q)))

\* A pipe's buffer ends within the pipe, holds the marks and the position.
Buffered(s) ==
    /\ s.start <= s.prev /\ s.cur <= s.end /\ s.end <= Len(s.src)
    /\ s.start <= s.pos /\ s.pos <= s.end
    /\ s.end <= s.start + s.max

\* The digests are those of the marks.
Sound(s) ==
    /\ s \in Streams /\ ~s.failed /\ s.prev <= s.cur
    /\ s.digest = FirstBytes(s.src, s.cur)
    /\ s.prevDigest = FirstBytes(s.src, s.prev)
    /\ s.max # 0 => Buffered(s)

\* The digest is that of the position: the stream may be read.
Aligned(s) == Sound(s) /\ s.cur = s.pos /\ ~s.away

-----------------------------------------------------------------------------
(* The invariant.                                                          *)

\* Every byte is at its own place.
Placed(q) == \A i \in 1..Len(q) : q[i][2] = i

SessionRecords ==
    [bytes : Seq(Byte), total : Nat \union {Unknown},
     state : {"open", "done", "gone"}, key : Keys, gen : Nat]

GenRecords == [bytes : Seq(Byte), key : Keys] \union {Foreign}

SessionOK(s) ==
    /\ s.gen <= Len(gens) /\ Placed(s.bytes)
    /\ s.state = "done" =>
          /\ s.total = Len(s.bytes) /\ s.gen # 0
          /\ gens[s.gen] = [bytes |-> s.bytes, key |-> s.key]
    /\ s.total # Unknown => Len(s.bytes) <= s.total
    /\ s.total = Unknown => job.kind = "stream"
    /\ s.state = "open" /\ job.kind = "stream" => s.total = Unknown

StoreInv ==
    /\ file \in Versions
    /\ sessions \in Seq(SessionRecords) /\ gens \in Seq(GenRecords)
    /\ live \in 0..Len(gens)
    /\ \A id \in 1..Len(sessions) : SessionOK(sessions[id])

TrackerInv ==
    /\ tracker \in {None, Torn} \union {Whole(k, id) : k \in Keys, id \in 1..Len(sessions)}
    /\ tracker.there = "whole" => tracker.key = sessions[tracker.id].key
    /\ ~Resumable => tracker = None

Fresh == {"tracker", "simple", "insert", "resume"}
Tracking == {"register", "record"}
InSession == Tracking \union {"send", "refresh", "complete", "untrack", "verify"}
Ending == {"complete", "untrack", "verify"}

Pcs == {"idle", "startOver", "abort"} \union Fresh \union InSession

Jobs == [pc : Pcs, kind : {"file", "chunked", "small", "stream"}, key : Keys,
         sess : Nat, stream : Streams, last : Nat, retries : Nat,
         startovers : Nat, finishedBefore : BOOLEAN,
         exit : {"none", "ok", "error", "unbuffered", "exhausted", "abort", "mismatch"}]

\* What the run is at, and with which session.
JobInv ==
    /\ job \in Jobs
    /\ job.retries <= NumRetries /\ job.sess <= Len(sessions)
    /\ job.pc \in {"tracker", "resume", "untrack"} \union Tracking => Resumable
    /\ job.kind = "small" => job.pc \in {"idle", "simple", "verify"}
    /\ job.pc = "simple" => job.kind = "small"
    /\ job.pc \in InSession \union {"resume"} =>
          job.sess # 0 /\ Session.key = job.key
    /\ job.pc \in Ending => Session.state = "done"
    /\ job.pc = "verify" => tracker = None
    /\ job.pc = "refresh" => faulted

\* Where the stream is.
StreamInv ==
    LET s == job.stream IN
    /\ Sound(s) /\ Placed(s.src)
    /\ job.pc # "idle" => s.max = IF job.kind = "stream" THEN Chunk ELSE 0
    /\ job.pc \in Fresh => Aligned(s) /\ s.pos = 0
    /\ job.pc \in InSession \ {"refresh"} =>
          Aligned(s) /\ s.pos = Len(Session.bytes)
    /\ job.pc = "refresh" =>
          s.prev <= Len(Session.bytes) /\ Len(Session.bytes) <= s.cur
    /\ job.pc \in InSession /\ job.kind = "stream" /\ Session.state = "done" =>
          Len(Session.bytes) = Len(s.src)
    /\ job.pc \in {"untrack", "verify"} => Len(Session.bytes) = Len(s.src)

\* The object a run finishes is live until the run ends.
LiveInv ==
    /\ job.pc \in InSession /\ Session.state = "done" /\ ~job.finishedBefore =>
          live = Session.gen
    /\ job.exit # "none" => job.pc = "idle"
    /\ job.exit # "unbuffered"
    /\ job.exit = "ok" =>
          /\ job.sess # 0 /\ Session.state = "done"
          /\ Session.bytes = job.stream.src /\ Session.key = job.key
          /\ live = Session.gen \/ job.finishedBefore \/ (live # 0 /\ gens[live] = Foreign)

\* A run after one that failed without a fault begins with a new session.
Healing ==
    /\ job.pc \notin {"resume", "startOver", "abort", "refresh"}
    /\ job.pc = "tracker" => tracker = None
    /\ job.pc \in Tracking \union {"send"} =>
          /\ Session.state = "open"
          /\ Session.bytes = FirstBytes(job.stream.src, Len(Session.bytes))
          /\ Session.total \in {Unknown, Len(job.stream.src)}
    /\ job.pc \in Ending => Session.bytes = job.stream.src

RetryInv ==
    /\ streak \in {0, 1}
    /\ streak = 1 => IF job.pc = "idle" THEN tracker = None
                     ELSE faulted \/ Healing

Counters == runs \in Nat /\ faults \in Nat /\ changes \in Nat /\ faulted \in BOOLEAN

Inv == /\ StoreInv /\ TrackerInv /\ JobInv /\ StreamInv /\ LiveInv
       /\ RetryInv /\ Counters

-----------------------------------------------------------------------------
(* Sequences of bytes and the operations on streams.                       *)

\* The first bytes of a sequence are a sequence, byte by byte the same.
LEMMA FirstBytesFacts ==
  ASSUME NEW q \in Seq(Byte), NEW n \in Nat
  PROVE  /\ Len(q) \in Nat
         /\ FirstBytes(q, n) \in Seq(Byte)
         /\ Len(FirstBytes(q, n)) = Smaller(n, Len(q))
         /\ \A i \in 1..Smaller(n, Len(q)) : FirstBytes(q, n)[i] = q[i]
<1> DEFINE m == Smaller(n, Len(q))
<1>1. Len(q) \in Nat /\ m \in Nat /\ m <= Len(q)
  BY LenProperties DEF Smaller
<1>2. \A i \in 1..m : q[i] \in Byte
  BY <1>1, ElementOfSeq
<1>3. FirstBytes(q, n) = SubSeq(q, 1, m)
  BY DEF FirstBytes
<1> HIDE DEF m
<1>4. /\ SubSeq(q, 1, m) \in Seq(Byte)
      /\ Len(SubSeq(q, 1, m)) = IF 1 <= m THEN m - 1 + 1 ELSE 0
      /\ \A i \in 1..m - 1 + 1 : SubSeq(q, 1, m)[i] = q[1 + i - 1]
  BY <1>1, <1>2, SubSeqProperties
<1>. QED  BY <1>1, <1>3, <1>4 DEF m

\* The first bytes that have all of them are the sequence.
LEMMA FirstBytesAll ==
  ASSUME NEW q \in Seq(Byte), NEW n \in Nat, Len(q) <= n
  PROVE  FirstBytes(q, n) = q
<1>1. Len(q) \in Nat /\ Smaller(n, Len(q)) = Len(q)
  BY LenProperties DEF Smaller
<1>. QED  BY <1>1, FirstBytesFacts, SeqEqual

\* What lies between two positions.
LEMMA BetweenFacts ==
  ASSUME NEW q \in Seq(Byte), NEW p \in Nat, NEW n \in Nat
  PROVE  LET b == SubSeq(q, p + 1, Smaller(p + n, Len(q))) IN
         /\ b \in Seq(Byte)
         /\ Len(b) = IF p <= Smaller(p + n, Len(q)) THEN Smaller(p + n, Len(q)) - p ELSE 0
         /\ \A i \in 1..Len(b) : b[i] = q[p + i]
<1> DEFINE m == Smaller(p + n, Len(q))
           b == SubSeq(q, p + 1, m)
<1>1. Len(q) \in Nat /\ m \in Nat /\ m <= Len(q)
  BY LenProperties DEF Smaller
<1>2. \A i \in p + 1..m : q[i] \in Byte
  <2>1. ASSUME NEW i \in p + 1..m PROVE q[i] \in Byte
    <3>1. i \in 1..Len(q)
      BY <1>1
    <3>. QED  BY <3>1, ElementOfSeq
  <2>. QED  BY <2>1
<1> HIDE DEF m
<1>3. p + 1 \in Int /\ m \in Int
  BY <1>1
<1>4. /\ b \in Seq(Byte)
      /\ Len(b) = IF p + 1 <= m THEN m - (p + 1) + 1 ELSE 0
      /\ \A i \in 1..m - (p + 1) + 1 : b[i] = q[(p + 1) + i - 1]
  BY <1>2, <1>3, SubSeqProperties
<1> HIDE DEF b
<1>5. Len(b) = IF p <= m THEN m - p ELSE 0
  BY <1>4, <1>1
<1>6. ASSUME NEW i \in 1..Len(b) PROVE b[i] = q[p + i]
  <2>1. i \in 1..m - (p + 1) + 1 /\ (p + 1) + i - 1 = p + i
    BY <1>5, <1>1
  <2>. QED  BY <2>1, <1>4
<1>. QED  BY <1>4, <1>5, <1>6 DEF m, b

\* The first bytes and the next ones.
LEMMA FirstBytesMore ==
  ASSUME NEW q \in Seq(Byte), NEW p \in Nat, NEW n \in Nat
  PROVE  FirstBytes(q, p) \o SubSeq(q, p + 1, Smaller(p + n, Len(q))) = FirstBytes(q, p + n)
<1> DEFINE f == FirstBytes(q, p)
           b == SubSeq(q, p + 1, Smaller(p + n, Len(q)))
           w == FirstBytes(q, p + n)
<1>1. /\ f \in Seq(Byte) /\ Len(f) = Smaller(p, Len(q))
      /\ \A i \in 1..Smaller(p, Len(q)) : f[i] = q[i]
      /\ Len(q) \in Nat
  BY FirstBytesFacts
<1>2. /\ w \in Seq(Byte) /\ Len(w) = Smaller(p + n, Len(q))
      /\ \A i \in 1..Smaller(p + n, Len(q)) : w[i] = q[i]
  <2>1. p + n \in Nat
    OBVIOUS
  <2>. QED  BY <2>1, FirstBytesFacts
<1>3. /\ b \in Seq(Byte)
      /\ Len(b) = IF p <= Smaller(p + n, Len(q)) THEN Smaller(p + n, Len(q)) - p ELSE 0
      /\ \A i \in 1..Len(b) : b[i] = q[p + i]
  BY BetweenFacts
<1> HIDE DEF f, b, w
<1>4. /\ f \o b \in Seq(Byte) /\ Len(f \o b) = Len(f) + Len(b)
      /\ \A i \in 1..Len(f) + Len(b) :
            (f \o b)[i] = IF i <= Len(f) THEN f[i] ELSE b[i - Len(f)]
  BY <1>1, <1>3, ConcatProperties, Zenon
<1> DEFINE t == f \o b
<1> HIDE DEF t
<1>5. /\ t \in Seq(Byte) /\ Len(t) = Len(f) + Len(b)
      /\ \A i \in 1..Len(f) + Len(b) : t[i] = IF i <= Len(f) THEN f[i] ELSE b[i - Len(f)]
  BY <1>4 DEF t
<1>6. Len(t) = Len(w)
  <2>1. /\ Len(t) = Len(f) + Len(b) /\ Len(q) \in Nat
        /\ Len(f) = IF p < Len(q) THEN p ELSE Len(q)
        /\ Len(w) = IF p + n < Len(q) THEN p + n ELSE Len(q)
    BY <1>5, <1>1, <1>2 DEF Smaller
  <2>2. Len(b) = IF p <= Len(w) THEN Len(w) - p ELSE 0
    BY <1>2, <1>3
  <2>3. CASE p < Len(q)
    BY <2>1, <2>2, <2>3
  <2>4. CASE ~(p < Len(q))
    BY <2>1, <2>2, <2>4
  <2>. QED  BY <2>3, <2>4
<1>7. ASSUME NEW i \in 1..Len(t) PROVE t[i] = w[i]
  <2>1. CASE i <= Len(f)
    <3>1. i \in 1..Smaller(p, Len(q)) /\ i \in 1..Smaller(p + n, Len(q)) /\ i \in 1..Len(f) + Len(b)
      BY <2>1, <1>1, <1>2, <1>3, <1>5, <1>6
    <3>. QED  BY <3>1, <2>1, <1>1, <1>2, <1>5
  <2>2. CASE ~(i <= Len(f))
    <3>0. i \in 1..Len(f) + Len(b) /\ i \in 1..Len(w) /\ Len(f) \in Nat /\ Len(b) \in Nat
      BY <1>1, <1>3, <1>5, <1>6
    <3>1. /\ i - Len(f) \in 1..Len(b) /\ i \in 1..Len(f) + Len(b)
          /\ i \in 1..Smaller(p + n, Len(q))
      BY <2>2, <3>0, <1>2
    <3>2. Len(f) = p
      BY <3>1, <1>1, <1>3 DEF Smaller
    <3>3. p + (i - Len(f)) = i
      BY <3>2
    <3>. QED  BY <3>1, <3>3, <2>2, <1>2, <1>3, <1>5
  <2>. QED  BY <2>1, <2>2
<1>8. t = w
  BY <1>5, <1>2, <1>6, <1>7, SeqEqual
<1>. QED  BY <1>8 DEF t, f, b, w

\* Reading as many as there are gives the same as reading more.
LEMMA BytesFacts ==
  ASSUME NEW s \in Streams, NEW n \in Nat
  PROVE  LET b == Bytes(s, s.pos, n) IN
         /\ b \in Seq(Byte) /\ Len(b) \in Nat /\ Len(b) <= n
         /\ Len(b) < n => s.pos + Len(b) >= Len(s.src)
         /\ s.pos <= Len(s.src) => s.pos + Len(b) <= Len(s.src)
         /\ s.pos > Len(s.src) => Len(b) = 0
         /\ \A i \in 1..Len(b) : b[i] = s.src[s.pos + i]
         /\ FirstBytes(s.src, s.pos) \o b = FirstBytes(s.src, s.pos + Len(b))
         /\ FirstBytes(s.src, s.pos) \o b = FirstBytes(s.src, s.pos + n)
<1> DEFINE q == s.src  p == s.pos  b == Bytes(s, s.pos, n)
<1>1. q \in Seq(Byte) /\ p \in Nat /\ Len(q) \in Nat
  BY LenProperties DEF Streams
<1>2. b = SubSeq(q, p + 1, Smaller(p + n, Len(q)))
  BY DEF Bytes
<1> HIDE DEF q, p, b
<1>3. /\ b \in Seq(Byte)
      /\ Len(b) = IF p <= Smaller(p + n, Len(q)) THEN Smaller(p + n, Len(q)) - p ELSE 0
      /\ \A i \in 1..Len(b) : b[i] = q[p + i]
  BY <1>1, <1>2, BetweenFacts
<1>4. /\ Len(b) \in Nat /\ Len(b) <= n
      /\ Len(b) < n => p + Len(b) >= Len(q)
      /\ p <= Len(q) => p + Len(b) <= Len(q)
      /\ p > Len(q) => Len(b) = 0
  BY <1>3, <1>1 DEF Smaller
<1>5. FirstBytes(q, p) \o b = FirstBytes(q, p + n)
  BY <1>1, <1>2, FirstBytesMore
<1>6. FirstBytes(q, p + n) = FirstBytes(q, p + Len(b))
  <2>1. CASE Len(b) = n
    BY <2>1
  <2>2. CASE Len(b) < n
    <3>1. p + n \in Nat /\ p + Len(b) \in Nat /\ Len(q) <= p + n /\ Len(q) <= p + Len(b)
      BY <2>2, <1>1, <1>4
    <3>. QED  BY <3>1, <1>1, FirstBytesAll
  <2>. QED  BY <2>1, <2>2, <1>4
<1>. QED  BY <1>3, <1>4, <1>5, <1>6 DEF q, p, b

\* What a read of the wrapped source changes.
LEMMA WrappedReadFacts ==
  ASSUME NEW s \in Streams, NEW n \in Nat
  PROVE  LET w == WrappedRead(s, n)
             pos == s.pos + Len(Bytes(s, s.pos, n)) IN
         /\ w \in Streams /\ w.pos = pos
         /\ s.max = 0 => w.start = s.start /\ w.end = s.end
         /\ s.max # 0 => w.end = Larger(s.end, pos) /\ w.start = Larger(s.start, w.end - s.max)
         /\ w.src = s.src /\ w.max = s.max /\ w.prev = s.prev /\ w.cur = s.cur
         /\ w.digest = s.digest /\ w.prevDigest = s.prevDigest
         /\ w.away = s.away /\ w.failed = s.failed
<1> DEFINE pos == s.pos + Len(Bytes(s, s.pos, n))
           end == Larger(s.end, pos)
           start == Larger(s.start, end - s.max)
           w == WrappedRead(s, n)
<1>1. w = IF s.max = 0 THEN [s EXCEPT !.pos = pos]
          ELSE [s EXCEPT !.pos = pos, !.end = end, !.start = start]
  BY DEF WrappedRead, Trim
<1>2. pos \in Nat /\ end \in Nat /\ start \in Nat
  <2>1. Len(Bytes(s, s.pos, n)) \in Nat
    BY BytesFacts
  <2>. QED  BY <2>1 DEF Streams, Larger
<1> HIDE DEF pos, w
<1>3. end = Larger(s.end, pos) /\ start = Larger(s.start, end - s.max)
  OBVIOUS
<1> HIDE DEF end, start
<1>4. CASE s.max = 0
  <2>1. w = [s EXCEPT !.pos = pos]
    BY <1>1, <1>4
  <2>2. /\ w \in Streams /\ w.pos = pos /\ w.start = s.start /\ w.end = s.end
        /\ w.src = s.src /\ w.max = s.max /\ w.prev = s.prev /\ w.cur = s.cur
        /\ w.digest = s.digest /\ w.prevDigest = s.prevDigest
        /\ w.away = s.away /\ w.failed = s.failed
    BY <2>1, <1>2 DEF Streams
  <2>. QED  BY <2>2, <1>4 DEF w, pos
<1>5. CASE s.max # 0
  <2>1. w = [s EXCEPT !.pos = pos, !.end = end, !.start = start]
    BY <1>1, <1>5
  <2>2. /\ w \in Streams /\ w.pos = pos /\ w.start = start /\ w.end = end
        /\ w.src = s.src /\ w.max = s.max /\ w.prev = s.prev /\ w.cur = s.cur
        /\ w.digest = s.digest /\ w.prevDigest = s.prevDigest
        /\ w.away = s.away /\ w.failed = s.failed
    BY <2>1, <1>2 DEF Streams
  <2>. QED  BY <2>2, <1>3, <1>5 DEF w, pos
<1>. QED  BY <1>4, <1>5

\* A stream with other marks, and what that changes.
Marked(s, p, pd, d, c) ==
    [s EXCEPT !.prev = p, !.prevDigest = pd, !.digest = d, !.cur = c]

LEMMA MarksType ==
  ASSUME NEW s \in Streams, NEW p \in Nat, NEW c \in Nat,
         NEW pd \in Seq(Byte), NEW d \in Seq(Byte)
  PROVE  Marked(s, p, pd, d, c) \in Streams
BY DEF Streams, Marked

LEMMA MarksFacts ==
  ASSUME NEW s \in Streams, NEW p \in Nat, NEW c \in Nat,
         NEW pd \in Seq(Byte), NEW d \in Seq(Byte)
  PROVE  LET t == Marked(s, p, pd, d, c) IN
         /\ t.prev = p /\ t.cur = c /\ t.prevDigest = pd /\ t.digest = d
         /\ t.src = s.src /\ t.max = s.max /\ t.pos = s.pos
         /\ t.start = s.start /\ t.end = s.end
         /\ t.away = s.away /\ t.failed = s.failed
BY DEF Streams, Marked

\* What reading asks for, whatever the earlier mark is.
Readable(s) ==
    /\ s \in Streams /\ ~s.failed /\ ~s.away /\ s.cur = s.pos
    /\ s.digest = FirstBytes(s.src, s.cur)
    /\ s.max # 0 => Buffered(s)

\* A read of n bytes that moves the mark to c.
Digesting(s, n, c) ==
    Marked(WrappedRead(s, n), s.cur, s.digest, s.digest \o Bytes(s, s.pos, n), c)

\* A read of n bytes, in which the mark may move by n or by what there is,
\* keeps the digests those of the marks.
LEMMA ReadSound ==
  ASSUME NEW s, Readable(s), NEW n \in Nat, NEW c \in Nat,
         s.max # 0 => n <= s.max,
         \/ c = s.pos + Len(Bytes(s, s.pos, n))
         \/ c = s.pos + n /\ (s.max # 0 => c <= s.end),
         NEW t, t = Digesting(s, n, c)
  PROVE  /\ Sound(t) /\ ~t.away /\ t.src = s.src /\ t.max = s.max
         /\ t.prev = s.pos /\ t.cur = c
         /\ t.pos = s.pos + Len(Bytes(s, s.pos, n))
         /\ t.digest = FirstBytes(s.src, s.pos + n)
<1> DEFINE b == Bytes(s, s.pos, n)  w == WrappedRead(s, n)
<1>1. /\ s \in Streams /\ s.cur = s.pos /\ s.src \in Seq(Byte) /\ ~s.away /\ ~s.failed
      /\ s.digest = FirstBytes(s.src, s.pos) /\ s.digest \in Seq(Byte)
      /\ s.pos \in Nat /\ s.max \in Nat /\ s.start \in Nat /\ s.end \in Nat
      /\ s.max # 0 => Buffered(s)
  BY DEF Readable, Streams
<1>2. /\ b \in Seq(Byte) /\ Len(b) \in Nat /\ Len(b) <= n
      /\ s.pos <= Len(s.src) => s.pos + Len(b) <= Len(s.src)
      /\ s.digest \o b = FirstBytes(s.src, s.pos + Len(b))
      /\ s.digest \o b = FirstBytes(s.src, s.pos + n)
  <2>1. /\ b \in Seq(Byte) /\ Len(b) \in Nat /\ Len(b) <= n
        /\ s.pos <= Len(s.src) => s.pos + Len(b) <= Len(s.src)
        /\ FirstBytes(s.src, s.pos) \o b = FirstBytes(s.src, s.pos + Len(b))
        /\ FirstBytes(s.src, s.pos) \o b = FirstBytes(s.src, s.pos + n)
    BY <1>1, BytesFacts, Zenon
  <2>. QED  BY <2>1, <1>1, Zenon
<1>3. /\ w \in Streams /\ w.pos = s.pos + Len(b)
      /\ s.max # 0 => w.end = Larger(s.end, s.pos + Len(b)) /\ w.start = Larger(s.start, w.end - s.max)
      /\ w.src = s.src /\ w.max = s.max
      /\ w.away = s.away /\ w.failed = s.failed
  BY <1>1, WrappedReadFacts
<1>4. s.digest \o b \in Seq(Byte)
  <2>1. s.pos + n \in Nat
    BY <1>1
  <2>. QED  BY <2>1, <1>1, <1>2, FirstBytesFacts
<1>6. c = s.pos + Len(b) \/ (c = s.pos + n /\ (s.max # 0 => c <= s.end))
  OBVIOUS
<1> HIDE DEF b, w
<1>7. /\ t \in Streams
      /\ t.prev = s.pos /\ t.cur = c /\ t.prevDigest = s.digest /\ t.digest = s.digest \o b
      /\ t.src = s.src /\ t.max = s.max /\ t.pos = s.pos + Len(b)
      /\ t.start = w.start /\ t.end = w.end
      /\ ~t.away /\ ~t.failed
  <2>1. s.cur \in Nat
    BY <1>1
  <2> DEFINE d == s.digest \o b
  <2>2. t = Marked(w, s.cur, s.digest, d, c)
    BY DEF Digesting, b, w
  <2>3. w \in Streams /\ c \in Nat /\ s.digest \in Seq(Byte) /\ d \in Seq(Byte)
    BY <1>1, <1>3, <1>4
  <2>4. d = s.digest \o b
    OBVIOUS
  <2> HIDE DEF d
  <2>5. t \in Streams
    BY <2>1, <2>2, <2>3, MarksType
  <2>6. /\ t.prev = s.cur /\ t.cur = c /\ t.prevDigest = s.digest /\ t.digest = d
        /\ t.src = w.src /\ t.max = w.max /\ t.pos = w.pos
        /\ t.start = w.start /\ t.end = w.end
        /\ t.away = w.away /\ t.failed = w.failed
    <3> DEFINE m == Marked(w, s.cur, s.digest, d, c)
    <3>1. /\ m.prev = s.cur /\ m.cur = c /\ m.prevDigest = s.digest /\ m.digest = d
          /\ m.src = w.src /\ m.max = w.max /\ m.pos = w.pos
          /\ m.start = w.start /\ m.end = w.end
          /\ m.away = w.away /\ m.failed = w.failed
      <4>1. s.cur \in Nat /\ c \in Nat /\ s.digest \in Seq(Byte) /\ d \in Seq(Byte)
        BY <2>1, <2>3
      <4>2. w \in Streams
        BY <2>3
      <4> HIDE DEF b
      <4>. QED  BY <4>1, <4>2 DEF Streams, Marked
    <3> HIDE DEF m
    <3>2. t = m
      BY <2>2 DEF m
    <3>. QED  BY <3>1, <3>2, Zenon
  <2>. QED  BY <2>4, <2>5, <2>6, <1>1, <1>3, Zenon
<1>8. t.digest = FirstBytes(t.src, t.cur) /\ t.prevDigest = FirstBytes(t.src, t.prev)
      /\ t.prev <= t.cur
  <2>1. CASE c = s.pos + Len(b)
    BY <2>1, <1>1, <1>2, <1>7
  <2>2. CASE c = s.pos + n
    <3>1. t.cur = s.pos + n /\ t.prev = s.pos /\ t.src = s.src /\ t.prevDigest = s.digest
          /\ t.digest = FirstBytes(s.src, s.pos + n)
      BY <2>2, <1>2, <1>7
    <3>2. t.prev <= t.cur
      BY <3>1, <1>1
    <3>. QED  BY <3>1, <3>2, <1>1
  <2>. QED  BY <2>1, <2>2, <1>6
<1>9. ASSUME s.max # 0 PROVE Buffered(t)
  <2>1. /\ s.pos <= s.end /\ s.end <= Len(s.src)
        /\ s.start <= s.pos /\ s.end <= s.start + s.max /\ Len(s.src) \in Nat
    BY <1>1, <1>9, LenProperties DEF Buffered
  <2>2. /\ t.end = IF s.end < s.pos + Len(b) THEN s.pos + Len(b) ELSE s.end
        /\ t.start = IF s.start < t.end - s.max THEN t.end - s.max ELSE s.start
    BY <1>3, <1>7, <1>9 DEF Larger
  <2>3. n <= s.max /\ s.pos + Len(b) <= Len(s.src)
    BY <2>1, <1>1, <1>2, <1>9
  <2>4. t.end \in Nat /\ t.end <= s.pos + s.max /\ t.end <= Len(s.src) /\ s.pos + Len(b) <= t.end
        /\ s.end <= t.end
    <3>1. s.pos \in Nat /\ s.end \in Nat /\ s.start \in Nat /\ s.max \in Nat /\ Len(b) \in Nat
      BY <1>1, <1>2
    <3>2. CASE s.end < s.pos + Len(b)
      <4>1. t.end = s.pos + Len(b)
        BY <3>2, <2>2
      <4>2. Len(b) <= s.max
        BY <3>1, <2>3, <1>2
      <4>3. s.pos + Len(b) \in Nat /\ s.pos + Len(b) <= s.pos + s.max
        BY <4>2, <3>1
      <4>4. s.pos + Len(b) <= Len(s.src) /\ s.end <= s.pos + Len(b)
        BY <3>1, <3>2, <2>3
      <4>. QED  BY <4>1, <4>3, <4>4, <3>1
    <3>3. CASE ~(s.end < s.pos + Len(b))
      <4>1. t.end = s.end
        BY <3>3, <2>2
      <4>. QED  BY <4>1, <3>1, <3>3, <2>1
    <3>. QED  BY <3>2, <3>3
  <2>5. t.start <= s.pos /\ t.end <= t.start + s.max /\ t.start \in Int
    <3>1. s.pos \in Nat /\ s.start \in Nat /\ s.max \in Nat
      BY <1>1
    <3>2. CASE s.start < t.end - s.max
      <4>1. t.start = t.end - s.max
        BY <3>2, <2>2
      <4>. QED  BY <4>1, <3>1, <2>4
    <3>3. CASE ~(s.start < t.end - s.max)
      <4>1. t.start = s.start
        BY <3>3, <2>2
      <4>. QED  BY <4>1, <3>1, <3>3, <2>1, <2>4
    <3>. QED  BY <3>2, <3>3
  <2>6. c <= t.end /\ s.pos <= s.pos + Len(b)
    <3>1. s.pos \in Nat /\ Len(b) \in Nat /\ s.end \in Nat
      BY <1>1, <1>2
    <3>2. c = s.pos + Len(b) \/ c <= s.end
      BY <1>6, <1>9
    <3>. QED  BY <3>1, <3>2, <2>4
  <2>7. /\ t.prev = s.pos /\ t.cur = c /\ t.pos = s.pos + Len(b)
        /\ t.src = s.src /\ t.max = s.max
    BY <1>7
  <2>8. s.pos <= t.end
    BY <2>1, <2>4, <1>1
  <2>. QED  BY <2>4, <2>5, <2>6, <2>7, <2>8, <1>1, <1>2 DEF Buffered
<1>10. Sound(t)
  BY <1>7, <1>8, <1>9 DEF Sound
<1>. QED  BY <1>7, <1>10, <1>2 DEF b

\* A read leaves the digest at the position.
LEMMA HashReadSound ==
  ASSUME NEW s, Aligned(s), NEW n \in Nat, s.max # 0 => n <= s.max
  PROVE  LET t == HashRead(s, n) IN
         /\ Aligned(t) /\ t.src = s.src /\ t.max = s.max /\ t.prev = s.pos
         /\ t.pos = s.pos + Len(Bytes(s, s.pos, n))
<1> DEFINE b == Bytes(s, s.pos, n)  t == HashRead(s, n)
<1>1. s \in Streams /\ s.cur = s.pos /\ s.pos \in Nat /\ ~s.away
  BY DEF Aligned, Sound, Streams
<1>2. Len(b) \in Nat
  BY <1>1, BytesFacts
<1>3. t = Digesting(s, n, s.pos + Len(b))
  BY <1>1, Zenon DEF HashRead, Digesting, Marked
<1> HIDE DEF t
<1>4. s.pos + Len(b) \in Nat
  BY <1>1, <1>2
<1>5. /\ Sound(t) /\ ~t.away /\ t.src = s.src /\ t.max = s.max
      /\ t.prev = s.pos /\ t.cur = s.pos + Len(b) /\ t.pos = s.pos + Len(b)
  <2>1. Readable(s)
    BY DEF Aligned, Sound, Readable
  <2>. QED  BY <2>1, <1>3, <1>4, ReadSound
<1>. QED  BY <1>5 DEF Aligned, t

\* Streams at another position, and with the digest away or at hand.
At(s, p) == [s EXCEPT !.pos = p]

LEMMA AtFacts ==
  ASSUME NEW s \in Streams, NEW p \in Nat
  PROVE  LET t == At(s, p) IN
         /\ t.pos = p /\ t.src = s.src /\ t.max = s.max
         /\ t.start = s.start /\ t.end = s.end /\ t.prev = s.prev /\ t.cur = s.cur
         /\ t.digest = s.digest /\ t.prevDigest = s.prevDigest
         /\ t.away = s.away /\ t.failed = s.failed
BY DEF Streams, At

LEMMA AtType ==
  ASSUME NEW s \in Streams, NEW p \in Nat
  PROVE  At(s, p) \in Streams
BY DEF Streams, At

Near(s) == [s EXCEPT !.away = FALSE]

LEMMA NearFacts ==
  ASSUME NEW s \in Streams
  PROVE  LET t == Near(s) IN
         /\ t.pos = s.pos /\ t.src = s.src /\ t.max = s.max
         /\ t.start = s.start /\ t.end = s.end /\ t.prev = s.prev /\ t.cur = s.cur
         /\ t.digest = s.digest /\ t.prevDigest = s.prevDigest
         /\ ~t.away /\ t.failed = s.failed
BY DEF Streams, Near

LEMMA NearType ==
  ASSUME NEW s \in Streams
  PROVE  Near(s) \in Streams
BY DEF Streams, Near

\* Streams at an earlier mark.
LEMMA ToPreviousFacts ==
  ASSUME NEW s \in Streams
  PROVE  LET t == ToPrevious(s) IN
         /\ t.pos = s.pos /\ t.src = s.src /\ t.max = s.max
         /\ t.start = s.start /\ t.end = s.end /\ t.prev = s.prev /\ t.cur = s.prev
         /\ t.digest = s.prevDigest /\ t.prevDigest = s.prevDigest
         /\ t.away = s.away /\ t.failed = s.failed
BY DEF Streams, ToPrevious

LEMMA ToPreviousType ==
  ASSUME NEW s \in Streams
  PROVE  ToPrevious(s) \in Streams
BY DEF Streams, ToPrevious

LEMMA ToStartFacts ==
  ASSUME NEW s \in Streams
  PROVE  LET t == ToStart(s) IN
         /\ t.pos = s.pos /\ t.src = s.src /\ t.max = s.max
         /\ t.cur = 0 /\ t.digest = <<>>
         /\ t.away = s.away /\ t.failed = s.failed
BY DEF Streams, ToStart

LEMMA ToStartType ==
  ASSUME NEW s \in Streams
  PROVE  ToStart(s) \in Streams
<1>1. <<>> \in Seq(Byte)
  BY EmptySeq
<1>. QED  BY <1>1 DEF Streams, ToStart

\* A seek within the buffer succeeds.
LEMMA WrappedSeekAt ==
  ASSUME NEW s, NEW p \in Nat, s.max # 0 => s.start <= p /\ p <= s.end,
         s \in Streams
  PROVE  WrappedSeek(s, p) = At(s, p)
<1>1. s.start \in Nat /\ s.end \in Nat
  BY DEF Streams
<1>2. ~(s.max # 0 /\ (p < s.start \/ p > s.end))
  BY <1>1
<1>. QED  BY <1>2, Zenon DEF WrappedSeek, At

\* The digest catches up from a mark.
LEMMA CatchUpSound ==
  ASSUME NEW s, s \in Streams, ~s.failed, ~s.away,
         s.digest = FirstBytes(s.src, s.cur),
         s.max # 0 => Buffered(At(s, s.cur)),
         NEW n \in Nat, s.max # 0 => s.cur + n <= s.end /\ n <= s.max
  PROVE  LET t == CatchUp(At(s, s.cur), n) IN
         /\ Sound(t) /\ ~t.away /\ t.src = s.src /\ t.max = s.max
         /\ t.prev = s.cur /\ t.cur = s.cur + n
<1> DEFINE a == At(s, s.cur)  t == CatchUp(a, n)
<1>1. s.cur \in Nat
  BY DEF Streams
<1>2. /\ a.pos = s.cur /\ a.cur = s.cur /\ a.src = s.src /\ a.max = s.max
      /\ a.end = s.end /\ a.digest = s.digest /\ ~a.away /\ ~a.failed
  BY <1>1, AtFacts
<1>3. a \in Streams
  BY <1>1, AtType
<1>4. s.max # 0 => Buffered(a)
  OBVIOUS
<1> HIDE DEF a
<1>5. Readable(a)
  BY <1>2, <1>3, <1>4 DEF Readable
<1>6. t = Digesting(a, n, a.cur + n)
  BY <1>2, Zenon DEF CatchUp, Digesting, Marked
<1> HIDE DEF t
<1>7. a.cur + n \in Nat /\ (a.max # 0 => n <= a.max)
      /\ (a.max # 0 => a.cur + n <= a.end) /\ a.cur + n = a.pos + n
  BY <1>1, <1>2
<1>8. /\ Sound(t) /\ ~t.away /\ t.src = a.src /\ t.max = a.max
      /\ t.prev = a.pos /\ t.cur = a.cur + n
  BY <1>5, <1>6, <1>7, ReadSound
<1>. QED  BY <1>8, <1>2 DEF t, a

\* Nothing comes before the start.
LEMMA FirstBytesNone ==
  ASSUME NEW q \in Seq(Byte)
  PROVE  FirstBytes(q, 0) = <<>>
<1>1. /\ FirstBytes(q, 0) \in Seq(Byte) /\ Len(FirstBytes(q, 0)) = Smaller(0, Len(q))
      /\ Len(q) \in Nat
  BY FirstBytesFacts
<1>2. Len(FirstBytes(q, 0)) = 0
  BY <1>1 DEF Smaller
<1>. QED  BY <1>1, <1>2, EmptySeq

\* The last step of a seek: the wrapped source follows the digest.
LEMMA SeekLands ==
  ASSUME NEW c, Sound(c), ~c.away
  PROVE  LET t == IF c.failed THEN c ELSE WrappedSeek(c, c.cur) IN
         Aligned(t) /\ t.pos = c.cur /\ t.src = c.src /\ t.max = c.max
<1> DEFINE t == At(c, c.cur)
<1>1. /\ c \in Streams /\ ~c.failed /\ c.cur \in Nat /\ c.prev \in Nat /\ c.prev <= c.cur
      /\ c.start \in Nat /\ c.end \in Nat
      /\ c.max # 0 => Buffered(c)
  BY DEF Sound, Streams
<1>2. c.max # 0 => c.start <= c.cur /\ c.cur <= c.end
  BY <1>1 DEF Buffered
<1>3. WrappedSeek(c, c.cur) = t
  BY <1>1, <1>2, WrappedSeekAt
<1>4. /\ t.pos = c.cur /\ t.src = c.src /\ t.max = c.max
      /\ t.start = c.start /\ t.end = c.end /\ t.prev = c.prev /\ t.cur = c.cur
      /\ t.digest = c.digest /\ t.prevDigest = c.prevDigest
      /\ t.away = c.away /\ t.failed = c.failed
  BY <1>1, AtFacts
<1>5. t \in Streams
  BY <1>1, AtType
<1> HIDE DEF t
<1>6. Sound(t)
  <2>1. t.max # 0 => Buffered(t)
    BY <1>1, <1>2, <1>4 DEF Buffered
  <2>. QED  BY <2>1, <1>1, <1>4, <1>5 DEF Sound
<1>7. Aligned(t)
  BY <1>4, <1>6 DEF Aligned
<1>. QED  BY <1>1, <1>3, <1>4, <1>7

\* The four ways the digest follows a seek.
LEMMA SeekFromStart ==
  ASSUME NEW s, Sound(s), ~s.away, s.max = 0, NEW p \in Nat
  PROVE  LET c == CatchUp(WrappedSeek(ToStart(s), 0), p) IN
         Sound(c) /\ ~c.away /\ c.cur = p /\ c.src = s.src /\ c.max = s.max
<1> DEFINE u == ToStart(s)
<1>1. s \in Streams /\ ~s.failed /\ s.src \in Seq(Byte)
  BY DEF Sound, Streams
<1>2. /\ u.src = s.src /\ u.max = 0 /\ u.cur = 0 /\ u.digest = <<>> /\ ~u.away /\ ~u.failed
      /\ u \in Streams
  BY <1>1, ToStartFacts, ToStartType
<1>3. u.digest = FirstBytes(u.src, u.cur)
  BY <1>1, <1>2, FirstBytesNone
<1> HIDE DEF u
<1>4. WrappedSeek(u, 0) = At(u, u.cur)
  BY <1>2, WrappedSeekAt
<1> DEFINE c == CatchUp(At(u, u.cur), p)
<1>5. Sound(c) /\ ~c.away /\ c.src = u.src /\ c.max = u.max /\ c.cur = u.cur + p
  BY <1>2, <1>3, CatchUpSound
<1>. QED  BY <1>2, <1>4, <1>5 DEF u

LEMMA SeekToPrevious ==
  ASSUME NEW s, Sound(s), ~s.away
  PROVE  LET c == ToPrevious(s) IN
         Sound(c) /\ ~c.away /\ c.cur = s.prev /\ c.src = s.src /\ c.max = s.max
<1> DEFINE c == ToPrevious(s)
<1>1. /\ s \in Streams /\ ~s.failed /\ s.prev \in Nat /\ s.cur \in Nat /\ s.prev <= s.cur
      /\ s.end \in Nat /\ s.prevDigest = FirstBytes(s.src, s.prev)
      /\ s.max # 0 => Buffered(s)
  BY DEF Sound, Streams
<1>2. /\ c.pos = s.pos /\ c.src = s.src /\ c.max = s.max
      /\ c.start = s.start /\ c.end = s.end /\ c.prev = s.prev /\ c.cur = s.prev
      /\ c.digest = s.prevDigest /\ c.prevDigest = s.prevDigest
      /\ c.away = s.away /\ c.failed = s.failed
  BY <1>1, ToPreviousFacts
<1>3. c \in Streams
  BY <1>1, ToPreviousType
<1> HIDE DEF c
<1>4. c.max # 0 => Buffered(c)
  BY <1>1, <1>2 DEF Buffered
<1>5. Sound(c)
  BY <1>1, <1>2, <1>3, <1>4 DEF Sound
<1>. QED  BY <1>2, <1>5 DEF c

LEMMA SeekFromPrevious ==
  ASSUME NEW s, Sound(s), ~s.away, NEW p \in Nat, s.prev <= p, p <= s.cur
  PROVE  LET c == CatchUp(WrappedSeek(ToPrevious(s), s.prev), p - s.prev) IN
         Sound(c) /\ ~c.away /\ c.cur = p /\ c.src = s.src /\ c.max = s.max
<1> DEFINE u == ToPrevious(s)
<1>1. /\ s \in Streams /\ ~s.failed /\ s.prev \in Nat /\ s.cur \in Nat
      /\ s.end \in Nat /\ s.start \in Nat /\ s.max \in Nat
      /\ s.prevDigest = FirstBytes(s.src, s.prev)
      /\ s.max # 0 => Buffered(s)
  BY DEF Sound, Streams
<1>2. /\ u.src = s.src /\ u.max = s.max
      /\ u.start = s.start /\ u.end = s.end /\ u.prev = s.prev /\ u.cur = s.prev
      /\ u.digest = s.prevDigest /\ ~u.away /\ ~u.failed
      /\ u \in Streams
  BY <1>1, ToPreviousFacts, ToPreviousType
<1> HIDE DEF u
<1>3. u.max # 0 => u.start <= s.prev /\ s.prev <= u.end
  BY <1>1, <1>2 DEF Buffered
<1>4. WrappedSeek(u, s.prev) = At(u, u.cur)
  BY <1>1, <1>2, <1>3, WrappedSeekAt
<1>5. u.max # 0 => Buffered(At(u, u.cur))
  <2> DEFINE a == At(u, u.cur)
  <2>1. /\ a.pos = u.cur /\ a.src = u.src /\ a.max = u.max
        /\ a.start = u.start /\ a.end = u.end /\ a.prev = u.prev /\ a.cur = u.cur
    BY <1>1, <1>2, AtFacts
  <2> HIDE DEF a
  <2>2. u.max # 0 => Buffered(a)
    BY <2>1, <1>1, <1>2, <1>3 DEF Buffered
  <2>. QED  BY <2>2 DEF a
<1>6. u.max # 0 => u.cur + (p - s.prev) <= u.end /\ p - s.prev <= u.max
  BY <1>1, <1>2 DEF Buffered
<1>7. p - s.prev \in Nat /\ u.cur + (p - s.prev) = p /\ u.digest = FirstBytes(u.src, u.cur)
  BY <1>1, <1>2
<1> DEFINE n == p - s.prev  c == CatchUp(At(u, u.cur), n)
<1>8. n = p - s.prev
  OBVIOUS
<1> HIDE DEF n
<1>9. Sound(c) /\ ~c.away /\ c.src = u.src /\ c.max = u.max /\ c.cur = u.cur + n
  BY <1>2, <1>5, <1>6, <1>7, <1>8, CatchUpSound
<1>10. CatchUp(WrappedSeek(u, s.prev), n) = c
  BY <1>4
<1> HIDE DEF c
<1>. QED  BY <1>2, <1>7, <1>8, <1>9, <1>10 DEF u

LEMMA SeekForward ==
  ASSUME NEW s, Sound(s), ~s.away, NEW p \in Nat, s.cur <= p, s.max # 0 => p = s.cur
  PROVE  LET c == CatchUp(WrappedSeek(s, s.cur), p - s.cur) IN
         Sound(c) /\ ~c.away /\ c.cur = p /\ c.src = s.src /\ c.max = s.max
<1>1. /\ s \in Streams /\ ~s.failed /\ s.cur \in Nat /\ s.prev \in Nat /\ s.prev <= s.cur
      /\ s.end \in Nat /\ s.start \in Nat /\ s.max \in Nat
      /\ s.digest = FirstBytes(s.src, s.cur)
      /\ s.max # 0 => Buffered(s)
  BY DEF Sound, Streams
<1>2. s.max # 0 => s.start <= s.cur /\ s.cur <= s.end
  BY <1>1 DEF Buffered
<1>3. WrappedSeek(s, s.cur) = At(s, s.cur)
  BY <1>1, <1>2, WrappedSeekAt
<1>4. s.max # 0 => Buffered(At(s, s.cur))
  <2> DEFINE a == At(s, s.cur)
  <2>1. /\ a.pos = s.cur /\ a.src = s.src /\ a.max = s.max
        /\ a.start = s.start /\ a.end = s.end /\ a.prev = s.prev /\ a.cur = s.cur
    BY <1>1, AtFacts
  <2> HIDE DEF a
  <2>2. s.max # 0 => Buffered(a)
    BY <2>1, <1>1, <1>2 DEF Buffered
  <2>. QED  BY <2>2 DEF a
<1>5. s.max # 0 => s.cur + (p - s.cur) <= s.end /\ p - s.cur <= s.max
  BY <1>1, <1>2
<1>6. p - s.cur \in Nat /\ s.cur + (p - s.cur) = p
  BY <1>1
<1> DEFINE n == p - s.cur  c == CatchUp(At(s, s.cur), n)
<1>7. n = p - s.cur
  OBVIOUS
<1> HIDE DEF n
<1>8. Sound(c) /\ ~c.away /\ c.src = s.src /\ c.max = s.max /\ c.cur = s.cur + n
  BY <1>1, <1>4, <1>5, <1>6, <1>7, CatchUpSound
<1>9. CatchUp(WrappedSeek(s, s.cur), n) = c
  BY <1>3
<1> HIDE DEF c
<1>. QED  BY <1>6, <1>7, <1>8, <1>9

\* HashSeek's digest before the position is moved.
Caught(t, p) ==
    CASE p < t.prev -> CatchUp(WrappedSeek(ToStart(t), 0), p)
      [] p = t.prev -> ToPrevious(t)
      [] p > t.prev /\ p < t.cur ->
             CatchUp(WrappedSeek(ToPrevious(t), t.prev), p - t.prev)
      [] p > t.prev /\ p >= t.cur -> CatchUp(WrappedSeek(t, t.cur), p - t.cur)

LEMMA CaughtFirst ==
  ASSUME NEW t, NEW p, p < t.prev,
         ~(p = t.prev),
         ~(p > t.prev /\ p < t.cur),
         ~(p > t.prev /\ p >= t.cur)
  PROVE  Caught(t, p) = CatchUp(WrappedSeek(ToStart(t), 0), p)
BY Zenon DEF Caught

LEMMA CaughtSecond ==
  ASSUME NEW t, NEW p, ~(p < t.prev),
         p = t.prev,
         ~(p > t.prev /\ p < t.cur),
         ~(p > t.prev /\ p >= t.cur)
  PROVE  Caught(t, p) = ToPrevious(t)
BY Zenon DEF Caught

LEMMA CaughtThird ==
  ASSUME NEW t, NEW p, ~(p < t.prev),
         ~(p = t.prev),
         (p > t.prev /\ p < t.cur),
         ~(p > t.prev /\ p >= t.cur)
  PROVE  Caught(t, p) = CatchUp(WrappedSeek(ToPrevious(t), t.prev), p - t.prev)
BY Zenon DEF Caught

LEMMA CaughtFourth ==
  ASSUME NEW t, NEW p, ~(p < t.prev),
         ~(p = t.prev),
         ~(p > t.prev /\ p < t.cur),
         (p > t.prev /\ p >= t.cur)
  PROVE  Caught(t, p) = CatchUp(WrappedSeek(t, t.cur), p - t.cur)
BY Zenon DEF Caught

\* A seek of a file, or of a pipe between its marks, lands where it was
\* asked to, and so does the digest.
LEMMA HashSeekSound ==
  ASSUME NEW s, Sound(s), NEW p \in Nat, s.max # 0 => s.prev <= p /\ p <= s.cur
  PROVE  LET t == HashSeek(s, p) IN
         Aligned(t) /\ t.pos = p /\ t.src = s.src /\ t.max = s.max
<1> DEFINE n == Near(s)
           c == Caught(n, p)
           Good == Sound(c) /\ ~c.away /\ c.cur = p /\ c.src = s.src /\ c.max = s.max
<1>1. s \in Streams /\ ~s.failed
  BY DEF Sound
<1>2. /\ n.pos = s.pos /\ n.src = s.src /\ n.max = s.max
      /\ n.start = s.start /\ n.end = s.end /\ n.prev = s.prev /\ n.cur = s.cur
      /\ n.digest = s.digest /\ n.prevDigest = s.prevDigest
      /\ ~n.away /\ n.failed = s.failed
  BY <1>1, NearFacts
<1>3. n \in Streams
  BY <1>1, NearType
<1>4. n.prev \in Nat /\ n.cur \in Nat /\ n.prev <= n.cur
  BY <1>2 DEF Sound, Streams
<1> HIDE DEF n
<1>5. Sound(n)
  <2>1. n.max # 0 => Buffered(n)
    BY <1>2 DEF Sound, Buffered
  <2>. QED  BY <2>1, <1>2, <1>3 DEF Sound
<1>6. HashSeek(s, p) = IF c.failed THEN c ELSE WrappedSeek(c, p)
  BY Zenon DEF HashSeek, Caught, Near, n
<1>7. ASSUME p < n.prev PROVE Good
  <2>1. ~(p = n.prev) /\ ~(p > n.prev /\ p < n.cur) /\ ~(p > n.prev /\ p >= n.cur)
    BY <1>7, <1>4
  <2>2. c = CatchUp(WrappedSeek(ToStart(n), 0), p)
    BY <1>7, <2>1, CaughtFirst
  <2>3. n.max = 0
    BY <1>7, <1>2, <1>4 DEF Sound, Streams
  <2>. QED  BY <2>2, <2>3, <1>2, <1>5, SeekFromStart
<1>8. ASSUME p = n.prev PROVE Good
  <2>1. ~(p < n.prev) /\ ~(p > n.prev /\ p < n.cur) /\ ~(p > n.prev /\ p >= n.cur)
    BY <1>8, <1>4
  <2>2. c = ToPrevious(n)
    BY <1>8, <2>1, CaughtSecond
  <2>. QED  BY <2>2, <1>8, <1>2, <1>5, SeekToPrevious
<1>9. ASSUME p > n.prev, p < n.cur PROVE Good
  <2>1. /\ ~(p < n.prev) /\ ~(p = n.prev) /\ ~(p > n.prev /\ p >= n.cur)
        /\ n.prev <= p /\ p <= n.cur
    BY <1>9, <1>4
  <2>2. c = CatchUp(WrappedSeek(ToPrevious(n), n.prev), p - n.prev)
    BY <1>9, <2>1, CaughtThird
  <2>. QED  BY <2>1, <2>2, <1>2, <1>5, SeekFromPrevious
<1>10. ASSUME p > n.prev, p >= n.cur PROVE Good
  <2>1. /\ ~(p < n.prev) /\ ~(p = n.prev) /\ ~(p > n.prev /\ p < n.cur)
        /\ n.cur <= p
    BY <1>10, <1>4
  <2>2. c = CatchUp(WrappedSeek(n, n.cur), p - n.cur)
    BY <1>10, <2>1, CaughtFourth
  <2>3. n.max # 0 => p = n.cur
    BY <2>1, <1>2, <1>4
  <2>. QED  BY <2>1, <2>2, <2>3, <1>2, <1>5, SeekForward
<1>11. Good
  BY <1>4, <1>7, <1>8, <1>9, <1>10
<1>12. HashSeek(s, p) = IF c.failed THEN c ELSE WrappedSeek(c, c.cur)
  BY <1>6, <1>11
<1> HIDE DEF c
<1>. QED  BY <1>11, <1>12, SeekLands

\* The digest is left behind.
Away(s) == [s EXCEPT !.away = TRUE]

LEMMA AwayFacts ==
  ASSUME NEW s \in Streams
  PROVE  LET t == Away(s) IN
         /\ t.pos = s.pos /\ t.src = s.src /\ t.max = s.max
         /\ t.start = s.start /\ t.end = s.end /\ t.prev = s.prev /\ t.cur = s.cur
         /\ t.digest = s.digest /\ t.prevDigest = s.prevDigest
         /\ t.failed = s.failed
BY DEF Streams, Away

LEMMA AwayType ==
  ASSUME NEW s \in Streams
  PROVE  Away(s) \in Streams
BY DEF Streams, Away

\* The end of a file, or of a pipe that has been read, is found without a
\* change of marks or buffer.
LEMMA HashSeekEndSound ==
  ASSUME NEW s, Sound(s), s.max # 0 => s.pos = Len(s.src)
  PROVE  LET t == HashSeekEnd(s) IN
         /\ Sound(t) /\ t.pos = Len(s.src) /\ t.src = s.src /\ t.max = s.max
         /\ t.prev = s.prev /\ t.cur = s.cur
<1> DEFINE w == WrappedSeekEnd(s)  t == Away(w)
<1>1. /\ s \in Streams /\ s.src \in Seq(Byte) /\ Len(s.src) \in Nat /\ s.pos \in Nat
      /\ s.end \in Nat /\ s.start \in Nat /\ s.max \in Nat /\ ~s.failed
      /\ s.max # 0 => Buffered(s)
  BY LenProperties DEF Sound, Streams
<1>2. /\ w \in Streams /\ w.pos = Len(s.src) /\ w.src = s.src /\ w.max = s.max
      /\ w.start = s.start /\ w.end = s.end /\ w.prev = s.prev /\ w.cur = s.cur
      /\ w.digest = s.digest /\ w.prevDigest = s.prevDigest /\ w.failed = s.failed
  <2>1. CASE s.max = 0
    <3>1. w = At(s, Len(s.src))
      BY <2>1, Zenon DEF WrappedSeekEnd, At
    <3> HIDE DEF w
    <3>. QED  BY <3>1, <1>1, AtFacts, AtType
  <2>2. CASE s.max # 0
    <3>1. w = WrappedRead(s, Len(s.src))
      BY <2>2 DEF WrappedSeekEnd
    <3> DEFINE b == Bytes(s, s.pos, Len(s.src))
    <3>2. Len(b) \in Nat /\ (s.pos <= Len(s.src) => s.pos + Len(b) <= Len(s.src))
      BY <1>1, BytesFacts
    <3> HIDE DEF b
    <3>3. s.pos = Len(s.src) /\ Len(b) = 0 /\ s.pos + Len(b) = s.pos
      BY <2>2, <3>2, <1>1
    <3>4. s.pos <= s.end /\ s.end <= s.start + s.max
      BY <1>1, <2>2 DEF Buffered
    <3> HIDE DEF w
    <3>5. /\ w \in Streams /\ w.pos = s.pos + Len(b)
          /\ w.end = Larger(s.end, s.pos + Len(b)) /\ w.start = Larger(s.start, w.end - s.max)
          /\ w.src = s.src /\ w.max = s.max /\ w.prev = s.prev /\ w.cur = s.cur
          /\ w.digest = s.digest /\ w.prevDigest = s.prevDigest /\ w.failed = s.failed
      BY <3>1, <2>2, <1>1, WrappedReadFacts DEF b
    <3>6. w.end = s.end
      BY <3>3, <3>4, <3>5, <1>1 DEF Larger
    <3>7. w.start = s.start
      BY <3>4, <3>5, <3>6, <1>1 DEF Larger
    <3>. QED  BY <3>3, <3>5, <3>6, <3>7
  <2>. QED  BY <2>1, <2>2
<1>3. HashSeekEnd(s) = t
  BY Zenon DEF HashSeekEnd, Away
<1> HIDE DEF w
<1>4. /\ t.pos = w.pos /\ t.src = w.src /\ t.max = w.max
      /\ t.start = w.start /\ t.end = w.end /\ t.prev = w.prev /\ t.cur = w.cur
      /\ t.digest = w.digest /\ t.prevDigest = w.prevDigest /\ t.failed = w.failed
  BY <1>2, AwayFacts
<1>5. t \in Streams
  BY <1>2, AwayType
<1> HIDE DEF t
<1>6. t.max # 0 => Buffered(t)
  <2>1. ASSUME t.max # 0 PROVE Buffered(t)
    <3>1. s.max # 0 /\ t.pos = s.pos
      BY <2>1, <1>2, <1>4
    <3>. QED  BY <3>1, <1>1, <1>2, <1>4 DEF Buffered
  <2>. QED  BY <2>1
<1>7. Sound(t)
  BY <1>1, <1>2, <1>4, <1>5, <1>6 DEF Sound
<1>. QED  BY <1>2, <1>3, <1>4, <1>7

\* A new stream is at its start.
LEMMA NewStreamFacts ==
  ASSUME NEW src \in Seq(Byte), NEW max \in Nat
  PROVE  LET t == NewStream(src, max) IN
         Aligned(t) /\ t.pos = 0 /\ t.src = src /\ t.max = max
<1> DEFINE t == NewStream(src, max)
<1>1. <<>> \in Seq(Byte) /\ FirstBytes(src, 0) = <<>> /\ Len(src) \in Nat
  BY EmptySeq, FirstBytesNone, LenProperties
<1>2. /\ t.src = src /\ t.max = max /\ t.pos = 0 /\ t.start = 0 /\ t.end = 0
      /\ t.prev = 0 /\ t.cur = 0 /\ t.prevDigest = <<>> /\ t.digest = <<>>
      /\ t.away = FALSE /\ t.failed = FALSE
  BY DEF NewStream
<1>3. t \in Streams
  BY <1>1 DEF NewStream, Streams
<1> HIDE DEF t
<1>4. Buffered(t)
  BY <1>1, <1>2 DEF Buffered
<1>5. Aligned(t)
  BY <1>1, <1>2, <1>3, <1>4 DEF Aligned, Sound
<1>. QED  BY <1>2, <1>5 DEF t

-----------------------------------------------------------------------------
(* What all actions share.                                                 *)

LEMMA InvImpliesTypeOK == ASSUME Inv PROVE TypeOK
<1>1. Len(sessions) \in Nat /\ DOMAIN sessions = 1..Len(sessions) /\ Len(gens) \in Nat
  BY LenProperties DEF Inv, StoreInv
<1>2. job.sess \in 0..Len(sessions) /\ job.retries \in 0..NumRetries
  BY <1>1, BoundsAssumption DEF Inv, JobInv, Jobs
<1>3. ~job.stream.failed
  BY DEF Inv, StreamInv, Sound
<1>4. ASSUME NEW id \in 1..Len(sessions) PROVE sessions[id].gen \in 0..Len(gens)
  <2>1. sessions[id] \in SessionRecords /\ SessionOK(sessions[id])
    BY <1>4, ElementOfSeq DEF Inv, StoreInv
  <2>. QED  BY <2>1, <1>1 DEF SessionRecords, SessionOK
<1>. QED  BY <1>1, <1>2, <1>3, <1>4 DEF TypeOK, Inv, StoreInv, TrackerInv

\* The facts on the state that most steps use.
LEMMA StateFacts ==
  ASSUME Inv
  PROVE  /\ Len(sessions) \in Nat /\ Len(gens) \in Nat /\ live \in Nat
         /\ DOMAIN sessions = 1..Len(sessions)
         /\ job \in Jobs /\ job.stream \in Streams /\ job.sess \in Nat
         /\ job.key \in Keys /\ job.stream.src \in Seq(Byte) /\ Len(job.stream.src) \in Nat
         /\ job.kind \in {"file", "chunked", "small", "stream"} /\ job.pc \in Pcs
<1>1. Len(sessions) \in Nat /\ Len(gens) \in Nat /\ live \in Nat
      /\ DOMAIN sessions = 1..Len(sessions)
  BY LenProperties DEF Inv, StoreInv
<1>2. job \in Jobs
  BY DEF Inv, JobInv
<1>3. /\ job.stream \in Streams /\ job.sess \in Nat /\ job.key \in Keys
      /\ job.kind \in {"file", "chunked", "small", "stream"} /\ job.pc \in Pcs
  BY <1>2 DEF Jobs
<1>4. job.stream.src \in Seq(Byte)
  BY <1>3 DEF Streams
<1>. QED  BY <1>1, <1>2, <1>3, <1>4, LenProperties

\* The session of a run that has one.
LEMMA SessionFacts ==
  ASSUME Inv, job.pc \in InSession \union {"resume"}
  PROVE  /\ job.sess \in 1..Len(sessions) /\ Session \in SessionRecords
         /\ SessionOK(Session) /\ Session.key = job.key
         /\ Session.bytes \in Seq(Byte) /\ Len(Session.bytes) \in Nat
<1>1. job.sess \in 1..Len(sessions) /\ Session.key = job.key
  BY StateFacts DEF Inv, JobInv
<1>2. Session \in SessionRecords /\ SessionOK(Session)
  BY <1>1, ElementOfSeq DEF Inv, StoreInv, Session
<1>3. Session.bytes \in Seq(Byte)
  BY <1>2 DEF SessionRecords
<1>. QED  BY <1>1, <1>2, <1>3, LenProperties

\* A state with the same objects and sessions.
LEMMA StoreFrame ==
  ASSUME StoreInv, UNCHANGED <<gens, sessions>>, file' \in Versions,
         live' \in 0..Len(gens), job'.kind = job.kind
  PROVE  StoreInv'
<1>1. ASSUME NEW id \in 1..Len(sessions) PROVE SessionOK(sessions[id])'
  BY <1>1 DEF StoreInv, SessionOK
<1>. QED  BY <1>1 DEF StoreInv

LEMMA TrackerFrame ==
  ASSUME TrackerInv, UNCHANGED sessions, job'.kind = job.kind,
         tracker' = tracker \/ tracker' = None
  PROVE  TrackerInv'
<1>1. CASE tracker' = tracker
  BY <1>1 DEF TrackerInv, Resumable
<1>2. CASE tracker' = None
  BY <1>2 DEF TrackerInv, Resumable, None
<1>. QED  BY <1>1, <1>2

Exits == {"ok", "error", "exhausted", "abort", "mismatch"}

LEMMA ExitJob ==
  ASSUME Inv, NEW why \in Exits, NEW hit, Exit(why, hit)
  PROVE  /\ job' \in Jobs /\ job'.pc = "idle" /\ job'.kind = job.kind /\ job'.key = job.key
         /\ job'.sess = job.sess /\ job'.exit = why /\ job'.retries = 0
         /\ job'.finishedBefore = job.finishedBefore
         /\ Aligned(job'.stream) /\ job'.stream.src = job.stream.src
<1> DEFINE s == NewStream(job.stream.src, 0)
<1>1. Aligned(s) /\ s.src = job.stream.src
  BY StateFacts, NewStreamFacts
<1>2. s \in Streams
  BY <1>1 DEF Aligned, Sound
<1>3. job' = [Idle EXCEPT !.exit = why, !.kind = job.kind, !.key = job.key,
                          !.sess = job.sess, !.stream = s,
                          !.finishedBefore = job.finishedBefore]
  BY DEF Exit
<1> HIDE DEF s
<1>4. job' = [pc |-> "idle", kind |-> job.kind, key |-> job.key,
              sess |-> job.sess, stream |-> s, last |-> 0, retries |-> 0,
              startovers |-> 0, finishedBefore |-> job.finishedBefore, exit |-> why]
  BY <1>3 DEF Idle
<1>5. /\ job.kind \in {"file", "chunked", "small", "stream"} /\ job.key \in Keys
      /\ job.sess \in Nat /\ job.finishedBefore \in BOOLEAN
      /\ why \in {"none", "ok", "error", "unbuffered", "exhausted", "abort", "mismatch"}
      /\ 0 \in Nat /\ "idle" \in Pcs
  BY StateFacts DEF Jobs, Exits, Pcs
<1>6. job' \in Jobs
  BY <1>2, <1>4, <1>5 DEF Jobs
<1>. QED  BY <1>1, <1>4, <1>6

\* A run ends, with the store and the tracker file in order.
LEMMA ExitInOrder ==
  ASSUME Inv, NEW why \in Exits, NEW hit \in BOOLEAN, Exit(why, hit), job.pc # "idle",
         StoreInv', TrackerInv', Len(sessions) <= Len(sessions'),
         why = "ok" =>
            /\ job.sess # 0 /\ Session = sessions'[job.sess] /\ Session.state = "done"
            /\ Session.bytes = job.stream.src /\ Session.key = job.key
            /\ live' = Session.gen \/ job.finishedBefore,
         why = "ok" \/ faulted \/ hit \/ (streak = 0 /\ tracker' = None)
  PROVE  Inv'
<1>1. /\ job' \in Jobs /\ job'.pc = "idle" /\ job'.kind = job.kind /\ job'.key = job.key
      /\ job'.sess = job.sess /\ job'.exit = why /\ job'.retries = 0
      /\ job'.finishedBefore = job.finishedBefore
      /\ Aligned(job'.stream) /\ job'.stream.src = job.stream.src
  BY ExitJob
<1>2. JobInv'
  <2>1. "idle" \notin {"tracker", "resume", "untrack"} \union Tracking
        /\ "idle" \notin InSession \union {"resume"} /\ "idle" \notin Ending
    BY DEF Tracking, InSession, Ending
  <2>2. job.sess <= Len(sessions) /\ job.sess \in Nat /\ Len(sessions) \in Nat
    BY StateFacts DEF Inv, JobInv
  <2>3. Len(sessions') \in Nat
    BY LenProperties DEF StoreInv
  <2>4. job'.retries <= NumRetries /\ job'.sess <= Len(sessions')
    BY <1>1, <2>2, <2>3, BoundsAssumption
  <2>. QED  BY <1>1, <2>1, <2>4 DEF JobInv
<1>3. StreamInv'
  <2>1. "idle" \notin Fresh /\ "idle" \notin InSession
    BY DEF Fresh, Tracking, InSession
  <2>2. Sound(job'.stream) /\ Placed(job'.stream.src)
    BY <1>1 DEF Aligned, Inv, StreamInv
  <2>. QED  BY <1>1, <2>1, <2>2 DEF StreamInv
<1>4. LiveInv'
  <2>1. "idle" \notin InSession /\ why # "unbuffered"
    BY DEF Tracking, InSession, Exits
  <2>2. Session' = sessions'[job.sess]
    BY <1>1 DEF Session
  <2>. QED  BY <1>1, <2>1, <2>2 DEF LiveInv
<1>5. RetryInv'
  <2>1. streak' = IF why = "ok" \/ faulted \/ hit THEN 0 ELSE streak + 1
    BY DEF Exit
  <2>2. streak \in {0, 1}
    BY DEF Inv, RetryInv
  <2>. QED  BY <1>1, <2>1, <2>2 DEF RetryInv
<1>6. Counters'
  BY DEF Exit, Inv, Counters
<1>. QED  BY <1>2, <1>3, <1>4, <1>5, <1>6 DEF Inv

\* A run ends that changes no session.
LEMMA ExitKeeps ==
  ASSUME Inv, NEW why \in Exits, NEW hit \in BOOLEAN, Exit(why, hit), job.pc # "idle",
         UNCHANGED <<file, gens, sessions>>, live' \in 0..Len(gens),
         tracker' = tracker \/ tracker' = None,
         why = "ok" =>
            /\ job.sess # 0 /\ Session.state = "done"
            /\ Session.bytes = job.stream.src /\ Session.key = job.key
            /\ live' = Session.gen \/ job.finishedBefore,
         why = "ok" \/ faulted \/ hit \/ (streak = 0 /\ tracker' = None)
  PROVE  Inv'
<1>1. job'.kind = job.kind
  BY ExitJob
<1>2. StoreInv'
  BY <1>1, StoreFrame DEF Inv, StoreInv
<1>3. TrackerInv'
  BY <1>1, TrackerFrame DEF Inv
<1>4. Len(sessions) <= Len(sessions') /\ Session = sessions'[job.sess]
  BY StateFacts DEF Session
<1>. QED  BY <1>2, <1>3, <1>4, ExitInOrder

LEMMA ContentFacts ==
  ASSUME NEW v \in Versions
  PROVE  Content(v) \in Seq(Byte) /\ Placed(Content(v))
<1>1. Size[v] \in Nat
  BY SizeAssumption, ElementOfSeq, LenProperties DEF Versions
<1>2. Content(v) \in [1..Size[v] -> Byte]
  BY <1>1 DEF Content, Byte
<1>3. Content(v) \in Seq(Byte)
  BY <1>1, <1>2
<1>4. Len(Content(v)) = Size[v]
  BY <1>1, <1>2, <1>3
<1>5. \A i \in 1..Size[v] : Content(v)[i] = <<v, i>>
  BY DEF Content
<1>. QED  BY <1>3, <1>4, <1>5 DEF Placed

LEMMA KeyChosen == (CHOOSE k \in Keys : TRUE) \in Keys
BY KeysAssumption

\* A job that has not begun.
IdleJob(kind, key) ==
    [pc |-> "idle", kind |-> kind, key |-> key, sess |-> 0,
     stream |-> NewStream(<<>>, 0), last |-> 0, retries |-> 0,
     startovers |-> 0, finishedBefore |-> FALSE, exit |-> "none"]

LEMMA IdleJobFacts ==
  ASSUME NEW kind \in {"file", "chunked", "small", "stream"}, NEW key \in Keys,
         NEW j, j = IdleJob(kind, key)
  PROVE  /\ j \in Jobs /\ j.pc = "idle" /\ j.kind = kind /\ j.key = key
         /\ j.sess = 0 /\ j.retries = 0 /\ j.exit = "none"
         /\ Aligned(j.stream) /\ j.stream.src = <<>>
<1> DEFINE s == NewStream(<<>>, 0)
<1>1. <<>> \in Seq(Byte)
  BY EmptySeq
<1>2. Aligned(s) /\ s.src = <<>>
  BY <1>1, NewStreamFacts
<1>3. s \in Streams
  BY <1>2 DEF Aligned, Sound
<1>4. j = [pc |-> "idle", kind |-> kind, key |-> key, sess |-> 0,
           stream |-> s, last |-> 0, retries |-> 0,
           startovers |-> 0, finishedBefore |-> FALSE, exit |-> "none"]
  BY DEF IdleJob
<1> HIDE DEF s
<1>5. "idle" \in Pcs
  BY DEF Pcs
<1>6. j \in Jobs
  BY <1>3, <1>4, <1>5 DEF Jobs
<1>. QED  BY <1>2, <1>4, <1>6

LEMMA InitInv == Init => Inv
<1> SUFFICES ASSUME Init PROVE Inv
  OBVIOUS
<1>1. PICK kind \in Kinds : job = [Idle EXCEPT !.kind = kind]
  BY DEF Init
<1>2. kind \in {"file", "chunked", "small", "stream"}
  BY KindsAssumption
<1> DEFINE key == CHOOSE k \in Keys : TRUE
<1>3. job = IdleJob(kind, key)
  BY <1>1, Zenon DEF Idle, IdleJob
<1>4. key \in Keys
  BY KeyChosen
<1>5. file = 1 /\ 1 \in Versions
  BY SizeAssumption, LenProperties, EmptySeq DEF Init, Versions
<1>6. /\ gens = <<>> /\ sessions = <<>> /\ live = 0 /\ tracker = None
      /\ runs = 0 /\ faults = 0 /\ changes = 0 /\ faulted = FALSE /\ streak = 0
  BY DEF Init
<1>7. StoreInv
  BY <1>5, <1>6, EmptySeq DEF StoreInv
<1>8. TrackerInv
  BY <1>6 DEF TrackerInv, None
<1>9. /\ job \in Jobs /\ job.pc = "idle" /\ job.sess = 0 /\ job.retries = 0
      /\ job.exit = "none" /\ Aligned(job.stream) /\ job.stream.src = <<>>
  BY <1>2, <1>3, <1>4, IdleJobFacts
<1>10. Len(sessions) = 0 /\ Len(<<>>) = 0
  BY <1>6, EmptySeq
<1>11. JobInv
  BY <1>9, <1>10, BoundsAssumption DEF JobInv, Tracking, InSession, Ending
<1>12. StreamInv
  BY <1>9, <1>10 DEF StreamInv, Fresh, Tracking, InSession, Aligned, Placed
<1>13. LiveInv
  BY <1>9 DEF LiveInv, Tracking, InSession
<1>14. RetryInv /\ Counters
  BY <1>6, <1>9 DEF RetryInv, Counters
<1>. QED  BY <1>7, <1>8, <1>11, <1>12, <1>13, <1>14 DEF Inv

-----------------------------------------------------------------------------
(* Between runs.                                                           *)

LEMMA EditFileKeeps == ASSUME Inv, EditFile PROVE Inv'
<1>1. /\ file' \in Versions /\ UNCHANGED <<gens, live, sessions, tracker, job>>
      /\ changes' = changes + 1 /\ UNCHANGED <<runs, faults, faulted, streak>>
  BY DEF EditFile, Change, service
<1>2. StoreInv'
  BY <1>1, StoreFrame DEF Inv, StoreInv
<1>3. TrackerInv'
  BY <1>1, TrackerFrame DEF Inv
<1>4. JobInv' /\ StreamInv'
  BY <1>1 DEF Inv, JobInv, StreamInv, Session, Resumable
<1>5. LiveInv'
  BY <1>1 DEF Inv, LiveInv, Session
<1>6. RetryInv'
  BY <1>1 DEF EditFile, Inv, RetryInv
<1>7. Counters'
  BY <1>1 DEF Inv, Counters
<1>. QED  BY <1>2, <1>3, <1>4, <1>5, <1>6, <1>7 DEF Inv

LEMMA ChangeKeyKeeps == ASSUME Inv, ChangeKey PROVE Inv'
<1>1. PICK key \in Keys : job' = [Idle EXCEPT !.kind = job.kind, !.key = key]
  BY DEF ChangeKey
<1>2. /\ UNCHANGED <<file, gens, live, sessions, tracker>> /\ job.pc = "idle"
      /\ changes' = changes + 1 /\ UNCHANGED <<runs, faults, faulted, streak>>
  BY DEF ChangeKey, Change, service
<1>3. job' = IdleJob(job.kind, key)
  BY <1>1, Zenon DEF Idle, IdleJob
<1>4. job.kind \in {"file", "chunked", "small", "stream"}
  BY StateFacts
<1>5. job'.kind = job.kind
  BY <1>3, <1>4, IdleJobFacts
<1>6. StoreInv'
  BY <1>2, <1>5, StoreFrame DEF Inv, StoreInv
<1>7. TrackerInv'
  BY <1>2, <1>5, TrackerFrame DEF Inv
<1>8. Counters'
  BY <1>2 DEF Inv, Counters
<1>9. streak' \in {0, 1} /\ (streak' = 1 => tracker' = None)
  BY <1>2 DEF Inv, RetryInv
<1>10. /\ job' \in Jobs /\ job'.pc = "idle" /\ job'.sess = 0 /\ job'.retries = 0
       /\ job'.exit = "none" /\ Aligned(job'.stream) /\ job'.stream.src = <<>>
  BY <1>3, <1>4, IdleJobFacts
<1>11. Len(sessions') \in Nat /\ Len(<<>>) = 0
  BY <1>2, StateFacts, EmptySeq
<1>12. JobInv'
  BY <1>10, <1>11, BoundsAssumption DEF JobInv, Tracking, InSession, Ending
<1>13. StreamInv'
  BY <1>10, <1>11 DEF StreamInv, Fresh, Tracking, InSession, Aligned, Placed
<1>14. LiveInv'
  BY <1>10 DEF LiveInv, Tracking, InSession
<1>15. RetryInv'
  BY <1>9, <1>10 DEF RetryInv
<1>. QED  BY <1>6, <1>7, <1>8, <1>12, <1>13, <1>14, <1>15 DEF Inv

LEMMA OtherWriterKeeps == ASSUME Inv, OtherWriter PROVE Inv'
<1>1. /\ gens' = Append(gens, Foreign) /\ live' = Len(gens) + 1 /\ job.pc = "idle"
      /\ UNCHANGED <<file, sessions, tracker, job>>
      /\ changes' = changes + 1 /\ UNCHANGED <<runs, faults, faulted, streak>>
  BY DEF OtherWriter, Change
<1>2. gens \in Seq(GenRecords) /\ Foreign \in GenRecords
  BY DEF Inv, StoreInv, GenRecords
<1>3. /\ gens' \in Seq(GenRecords) /\ Len(gens') = Len(gens) + 1
      /\ \A i \in 1..Len(gens) : gens'[i] = gens[i]
      /\ gens'[Len(gens) + 1] = Foreign
  BY <1>1, <1>2, AppendProperties
<1>4. StoreInv'
  <2>1. ASSUME NEW id \in 1..Len(sessions) PROVE SessionOK(sessions[id])'
    <3>1. SessionOK(sessions[id])
      BY <2>1 DEF Inv, StoreInv
    <3>2. sessions[id] \in SessionRecords
      BY <2>1, ElementOfSeq DEF Inv, StoreInv
    <3>3. sessions[id].gen \in Nat
      BY <3>2 DEF SessionRecords
    <3>. QED  BY <3>1, <3>3, <1>1, <1>3, StateFacts DEF SessionOK
  <2>. QED  BY <2>1, <1>1, <1>3, StateFacts DEF Inv, StoreInv
<1>5. TrackerInv'
  BY <1>1, TrackerFrame DEF Inv
<1>6. JobInv' /\ StreamInv'
  BY <1>1 DEF Inv, JobInv, StreamInv, Session, Resumable
<1>7. LiveInv'
  <2>1. "idle" \notin InSession
    BY DEF Tracking, InSession
  <2>. QED  BY <2>1, <1>1, <1>3, StateFacts DEF Inv, LiveInv, Session
<1>8. RetryInv'
  BY <1>1 DEF Inv, RetryInv
<1>9. Counters'
  BY <1>1 DEF Inv, Counters
<1>. QED  BY <1>4, <1>5, <1>6, <1>7, <1>8, <1>9 DEF Inv

\* A forgotten session is otherwise the same.
Forgotten(s) == [s EXCEPT !.state = "gone"]

LEMMA ForgottenFacts ==
  ASSUME NEW s \in SessionRecords, NEW t, t = Forgotten(s)
  PROVE  /\ t.bytes = s.bytes /\ t.total = s.total /\ t.key = s.key /\ t.gen = s.gen
         /\ t.state = "gone"
BY DEF SessionRecords, Forgotten

LEMMA ForgottenType ==
  ASSUME NEW s \in SessionRecords
  PROVE  Forgotten(s) \in SessionRecords
BY DEF SessionRecords, Forgotten

LEMMA ExpireKeeps == ASSUME Inv, Expire PROVE Inv'
<1>1. PICK id \in DOMAIN sessions :
          /\ sessions[id].state = "open"
          /\ sessions' = [sessions EXCEPT ![id].state = "gone"]
  BY DEF Expire
<1>2. /\ UNCHANGED <<file, gens, live, tracker, job>> /\ faults' = faults + 1
      /\ faulted' = TRUE /\ UNCHANGED <<runs, changes, streak>>
  BY DEF Expire, Fault
<1>3. sessions \in Seq(SessionRecords) /\ id \in 1..Len(sessions)
      /\ sessions[id] \in SessionRecords
  BY StateFacts, ElementOfSeq DEF Inv, StoreInv
<1> DEFINE s == Forgotten(sessions[id])
<1>4. sessions' = [sessions EXCEPT ![id] = s]
  BY <1>1, Zenon DEF Forgotten
<1>5. s \in SessionRecords
  BY <1>3, ForgottenType
<1>6. /\ s.bytes = sessions[id].bytes /\ s.total = sessions[id].total
      /\ s.key = sessions[id].key /\ s.gen = sessions[id].gen /\ s.state = "gone"
  BY <1>3, ForgottenFacts
<1> HIDE DEF s
<1>7. /\ sessions' \in Seq(SessionRecords) /\ Len(sessions') = Len(sessions)
      /\ \A i \in 1..Len(sessions) : sessions'[i] = IF i = id THEN s ELSE sessions[i]
  BY <1>3, <1>4, <1>5, ExceptSeq
<1>8. ASSUME NEW i \in 1..Len(sessions)
      PROVE  /\ sessions'[i].bytes = sessions[i].bytes /\ sessions'[i].total = sessions[i].total
             /\ sessions'[i].key = sessions[i].key /\ sessions'[i].gen = sessions[i].gen
             /\ sessions'[i].state = "done" <=> sessions[i].state = "done"
             /\ sessions'[i].state = "open" => sessions[i].state = "open"
  BY <1>1, <1>6, <1>7
<1>9. StoreInv'
  <2>1. ASSUME NEW i \in 1..Len(sessions) PROVE SessionOK(sessions[i])'
    <3>1. SessionOK(sessions[i])
      BY <2>1 DEF Inv, StoreInv
    <3>. QED  BY <3>1, <2>1, <1>2, <1>8 DEF SessionOK
  <2>. QED  BY <2>1, <1>2, <1>7 DEF Inv, StoreInv
<1>10. TrackerInv'
  BY <1>2, <1>7, <1>8 DEF Inv, TrackerInv, Resumable, Whole, None, Torn
<1>11. job.sess # 0 => /\ Session'.bytes = Session.bytes /\ Session'.key = Session.key
                       /\ Session'.gen = Session.gen
                       /\ Session'.state = "done" <=> Session.state = "done"
  BY <1>2, <1>8, StateFacts DEF Session, Inv, JobInv
<1>12. JobInv'
  BY <1>2, <1>7, <1>11 DEF Inv, JobInv, Resumable, Ending, InSession
<1>13. job.pc \in InSession => job.sess # 0
  BY DEF Inv, JobInv
<1>14. StreamInv'
  BY <1>2, <1>11, <1>13 DEF Inv, StreamInv, InSession
<1>15. LiveInv'
  BY <1>2, <1>11, <1>13 DEF Inv, LiveInv
<1>16. RetryInv'
  BY <1>2 DEF Inv, RetryInv
<1>17. Counters'
  BY <1>2 DEF Inv, Counters
<1>. QED  BY <1>9, <1>10, <1>12, <1>14, <1>15, <1>16, <1>17 DEF Inv

-----------------------------------------------------------------------------
(* Steps of a run that leave objects and sessions as they are.             *)

\* What stays when only where the run is changes.
SameJob ==
    /\ job'.kind = job.kind /\ job'.key = job.key /\ job'.exit = job.exit
    /\ job'.retries = job.retries

LEMMA GotoFacts ==
  ASSUME Inv, NEW pc \in Pcs, Goto(pc)
  PROVE  /\ job' \in Jobs /\ job'.pc = pc /\ SameJob /\ job'.sess = job.sess
         /\ job'.stream = job.stream /\ job'.finishedBefore = job.finishedBefore
<1>1. job' = [job EXCEPT !.pc = pc] /\ job \in Jobs
  BY StateFacts DEF Goto
<1>2. job' \in Jobs
  BY <1>1, Zenon DEF Jobs
<1>3. /\ job'.pc = pc /\ job'.sess = job.sess
      /\ job'.stream = job.stream /\ job'.finishedBefore = job.finishedBefore
      /\ SameJob
  BY <1>1, Zenon DEF Jobs, SameJob
<1>. QED  BY <1>2, <1>3

LEMMA SessionMoveFacts ==
  ASSUME Inv, NEW pc \in Pcs, NEW sess \in Nat,
         job' = [job EXCEPT !.pc = pc, !.sess = sess]
  PROVE  /\ job' \in Jobs /\ job'.pc = pc /\ SameJob /\ job'.sess = sess
         /\ job'.stream = job.stream /\ job'.finishedBefore = job.finishedBefore
<1>1. job \in Jobs
  BY StateFacts
<1>2. job' \in Jobs
  BY <1>1, Zenon DEF Jobs
<1>3. /\ job'.pc = pc /\ job'.sess = sess
      /\ job'.stream = job.stream /\ job'.finishedBefore = job.finishedBefore
      /\ SameJob
  BY <1>1, Zenon DEF Jobs, SameJob
<1>. QED  BY <1>2, <1>3

LEMMA StreamMoveFacts ==
  ASSUME Inv, NEW pc \in Pcs, NEW s \in Streams,
         job' = [job EXCEPT !.stream = s, !.pc = pc]
  PROVE  /\ job' \in Jobs /\ job'.pc = pc /\ SameJob /\ job'.sess = job.sess
         /\ job'.stream = s /\ job'.finishedBefore = job.finishedBefore
<1>1. job \in Jobs
  BY StateFacts
<1>2. job' \in Jobs
  BY <1>1, Zenon DEF Jobs
<1>3. /\ job'.pc = pc /\ job'.sess = job.sess
      /\ job'.stream = s /\ job'.finishedBefore = job.finishedBefore
      /\ SameJob
  BY <1>1, Zenon DEF Jobs, SameJob
<1>. QED  BY <1>2, <1>3

\* The places a run can be at, as sets of names.
LEMMA Places ==
  /\ Fresh = {"tracker", "simple", "insert", "resume"}
  /\ Tracking = {"register", "record"}
  /\ InSession = {"register", "record", "send", "refresh", "complete", "untrack", "verify"}
  /\ Ending = {"complete", "untrack", "verify"}
  /\ Pcs = {"idle", "startOver", "abort", "tracker", "simple", "insert", "resume",
            "register", "record", "send", "refresh", "complete", "untrack", "verify"}
BY DEF Fresh, Tracking, InSession, Ending, Pcs

\* A run has not ended.
LEMMA Running == ASSUME Inv, job.pc # "idle" PROVE job.exit = "none"
BY DEF Inv, LiveInv

LEMMA SendGoneKeeps == ASSUME Inv, SendGone PROVE Inv'
<1>1. /\ job.pc = "send" /\ Session.state = "gone" /\ Goto("startOver")
      /\ UNCHANGED <<file, gens, live, sessions, tracker, runs, faults, changes, faulted, streak>>
  BY DEF SendGone, service, bounds
<1>2. /\ job' \in Jobs /\ job'.pc = "startOver" /\ SameJob /\ job'.sess = job.sess
      /\ job'.stream = job.stream /\ job'.finishedBefore = job.finishedBefore
  BY <1>1, GotoFacts, Places
<1>3. StoreInv'
  BY <1>1, <1>2, StoreFrame DEF SameJob, Inv, StoreInv
<1>4. TrackerInv'
  BY <1>1, <1>2, TrackerFrame DEF SameJob, Inv
<1>5. JobInv'
  BY <1>1, <1>2, Places DEF SameJob, Inv, JobInv, Resumable
<1>6. StreamInv'
  BY <1>1, <1>2, Places DEF SameJob, Inv, StreamInv
<1>7. LiveInv'
  BY <1>1, <1>2, Running, Places DEF SameJob, Inv, LiveInv
<1>8. RetryInv'
  BY <1>1, <1>2, Places DEF Inv, RetryInv, Healing
<1>9. Counters'
  BY <1>1 DEF Inv, Counters
<1>. QED  BY <1>3, <1>4, <1>5, <1>6, <1>7, <1>8, <1>9 DEF Inv

LEMMA RefreshGoneKeeps == ASSUME Inv, RefreshGone PROVE Inv'
<1>1. /\ job.pc = "refresh" /\ Session.state = "gone" /\ Goto("startOver")
      /\ UNCHANGED <<file, gens, live, sessions, tracker, runs, faults, changes, faulted, streak>>
  BY DEF RefreshGone, service, bounds
<1>2. /\ job' \in Jobs /\ job'.pc = "startOver" /\ SameJob /\ job'.sess = job.sess
      /\ job'.stream = job.stream /\ job'.finishedBefore = job.finishedBefore
  BY <1>1, GotoFacts, Places
<1>3. StoreInv'
  BY <1>1, <1>2, StoreFrame DEF SameJob, Inv, StoreInv
<1>4. TrackerInv'
  BY <1>1, <1>2, TrackerFrame DEF SameJob, Inv
<1>5. JobInv'
  BY <1>1, <1>2, Places DEF SameJob, Inv, JobInv, Resumable
<1>6. StreamInv'
  BY <1>1, <1>2, Places DEF SameJob, Inv, StreamInv
<1>7. LiveInv'
  BY <1>1, <1>2, Running, Places DEF SameJob, Inv, LiveInv
<1>8. RetryInv'
  BY <1>1, <1>2, Places DEF Inv, RetryInv, Healing
<1>9. Counters'
  BY <1>1 DEF Inv, Counters
<1>. QED  BY <1>3, <1>4, <1>5, <1>6, <1>7, <1>8, <1>9 DEF Inv

LEMMA RefusedKeeps == ASSUME Inv, Refused PROVE Inv'
<1>1. /\ job.pc \in {"insert", "resume", "refresh", "send"} /\ Goto("abort") /\ faults' = faults + 1 /\ faulted' = TRUE
      /\ UNCHANGED <<file, gens, live, sessions, tracker, runs, changes, streak>>
  BY DEF Refused, Sending, service
<1>2. /\ job' \in Jobs /\ job'.pc = "abort" /\ SameJob /\ job'.sess = job.sess
      /\ job'.stream = job.stream /\ job'.finishedBefore = job.finishedBefore
  BY <1>1, GotoFacts, Places
<1>3. StoreInv'
  BY <1>1, <1>2, StoreFrame DEF SameJob, Inv, StoreInv
<1>4. TrackerInv'
  BY <1>1, <1>2, TrackerFrame DEF SameJob, Inv
<1>5. JobInv'
  BY <1>1, <1>2, Places DEF SameJob, Inv, JobInv, Resumable
<1>6. StreamInv'
  BY <1>1, <1>2, Places DEF SameJob, Inv, StreamInv
<1>7. LiveInv'
  BY <1>1, <1>2, Running, Places DEF SameJob, Inv, LiveInv
<1>8. RetryInv'
  BY <1>1, <1>2 DEF Inv, RetryInv
<1>9. Counters'
  BY <1>1 DEF Inv, Counters
<1>. QED  BY <1>3, <1>4, <1>5, <1>6, <1>7, <1>8, <1>9 DEF Inv

LEMMA TruncateTrackerKeeps == ASSUME Inv, TruncateTracker PROVE Inv'
<1>1. /\ job.pc = "register" /\ Goto("record") /\ tracker' = Torn
      /\ UNCHANGED <<file, gens, live, sessions, runs, faults, changes, faulted, streak>>
  BY DEF TruncateTracker, service, bounds
<1>2. /\ job' \in Jobs /\ job'.pc = "record" /\ SameJob /\ job'.sess = job.sess
      /\ job'.stream = job.stream /\ job'.finishedBefore = job.finishedBefore
  BY <1>1, GotoFacts, Places
<1>3. Session' = Session
  BY <1>1, <1>2 DEF Session
<1>4. StoreInv'
  BY <1>1, <1>2, StoreFrame DEF SameJob, Inv, StoreInv
<1>5. TrackerInv'
  BY <1>1, <1>2, Places DEF SameJob, Inv, TrackerInv, JobInv, Torn, Resumable
<1>6. JobInv'
  BY <1>1, <1>2, <1>3, Places DEF SameJob, Inv, JobInv, Resumable
<1>7. StreamInv'
  BY <1>1, <1>2, <1>3, Places DEF SameJob, Inv, StreamInv
<1>8. LiveInv'
  BY <1>1, <1>2, <1>3, Running, Places DEF SameJob, Inv, LiveInv
<1>9. RetryInv'
  BY <1>1, <1>2, <1>3, Places DEF Inv, RetryInv, Healing
<1>10. Counters'
  BY <1>1 DEF Inv, Counters
<1>. QED  BY <1>4, <1>5, <1>6, <1>7, <1>8, <1>9, <1>10 DEF Inv

LEMMA WriteTrackerKeeps == ASSUME Inv, WriteTracker PROVE Inv'
<1>1. /\ job.pc = "record" /\ Goto(AfterRefresh) /\ tracker' = Whole(job.key, job.sess)
      /\ UNCHANGED <<file, gens, live, sessions, runs, faults, changes, faulted, streak>>
  BY DEF WriteTracker, service, bounds
<1>2. AfterRefresh \in {"send", "complete"} /\ (AfterRefresh = "complete" <=> Session.state = "done")
  BY DEF AfterRefresh
<1>3. /\ job' \in Jobs /\ job'.pc = AfterRefresh /\ SameJob /\ job'.sess = job.sess
      /\ job'.stream = job.stream /\ job'.finishedBefore = job.finishedBefore
  BY <1>1, <1>2, GotoFacts, Places
<1>4. Session' = Session
  BY <1>1, <1>3 DEF Session
<1>5. /\ job.sess \in 1..Len(sessions) /\ sessions[job.sess].key = job.key
      /\ job.key \in Keys /\ Resumable
  BY <1>1, SessionFacts, StateFacts, Places DEF Session, Inv, JobInv
<1>6. StoreInv'
  BY <1>1, <1>3, StoreFrame DEF SameJob, Inv, StoreInv
<1>7. TrackerInv'
  BY <1>1, <1>3, <1>5 DEF SameJob, TrackerInv, Whole, Resumable
<1>8. JobInv'
  BY <1>1, <1>2, <1>3, <1>4, Places DEF SameJob, Inv, JobInv, Resumable
<1>9. StreamInv'
  BY <1>1, <1>2, <1>3, <1>4, Places DEF SameJob, Inv, StreamInv
<1>10. LiveInv'
  BY <1>1, <1>2, <1>3, <1>4, Running, Places DEF SameJob, Inv, LiveInv
<1>11. RetryInv'
  BY <1>1, <1>2, <1>3, <1>4, Places DEF Inv, RetryInv, Healing
<1>12. Counters'
  BY <1>1 DEF Inv, Counters
<1>. QED  BY <1>6, <1>7, <1>8, <1>9, <1>10, <1>11, <1>12 DEF Inv

LEMMA UntrackKeeps == ASSUME Inv, Untrack PROVE Inv'
<1>1. /\ job.pc = "untrack" /\ Goto("verify") /\ tracker' = None
      /\ UNCHANGED <<file, gens, live, sessions, runs, faults, changes, faulted, streak>>
  BY DEF Untrack, service, bounds
<1>2. /\ job' \in Jobs /\ job'.pc = "verify" /\ SameJob /\ job'.sess = job.sess
      /\ job'.stream = job.stream /\ job'.finishedBefore = job.finishedBefore
  BY <1>1, GotoFacts, Places
<1>3. Session' = Session
  BY <1>1, <1>2 DEF Session
<1>4. StoreInv'
  BY <1>1, <1>2, StoreFrame DEF SameJob, Inv, StoreInv
<1>5. TrackerInv'
  BY <1>1, <1>2, TrackerFrame DEF SameJob, Inv
<1>6. JobInv'
  BY <1>1, <1>2, <1>3, Places DEF SameJob, Inv, JobInv, Resumable
<1>7. StreamInv'
  BY <1>1, <1>2, <1>3, Places DEF SameJob, Inv, StreamInv
<1>8. LiveInv'
  BY <1>1, <1>2, <1>3, Running, Places DEF SameJob, Inv, LiveInv
<1>9. RetryInv'
  BY <1>1, <1>2, <1>3, Places DEF Inv, RetryInv, Healing
<1>10. Counters'
  BY <1>1 DEF Inv, Counters
<1>. QED  BY <1>4, <1>5, <1>6, <1>7, <1>8, <1>9, <1>10 DEF Inv

LEMMA ReadTrackerKeeps == ASSUME Inv, ReadTracker PROVE Inv'
<1>1. /\ job.pc = "tracker"
      /\ UNCHANGED <<file, gens, live, sessions, runs, faults, changes, faulted, streak>>
  BY DEF ReadTracker, service, bounds
<1>2. CASE Usable
  <2>1. job' = [job EXCEPT !.pc = "resume", !.sess = tracker.id] /\ tracker' = tracker
    BY <1>2 DEF ReadTracker
  <2>2. /\ tracker.id \in 1..Len(sessions) /\ sessions[tracker.id].key = job.key
        /\ tracker # None
    BY <1>2 DEF Usable, Inv, TrackerInv, None, Torn, Whole
  <2>3. tracker.id \in Nat /\ tracker.id # 0
    BY <2>2, StateFacts
  <2>4. /\ job' \in Jobs /\ job'.pc = "resume" /\ SameJob /\ job'.sess = tracker.id
        /\ job'.stream = job.stream /\ job'.finishedBefore = job.finishedBefore
    BY <2>1, <2>3, SessionMoveFacts, Places
  <2>5. Session' = sessions[tracker.id]
    BY <1>1, <2>4 DEF Session
  <2>6. StoreInv'
    BY <1>1, <2>4, StoreFrame DEF SameJob, Inv, StoreInv
  <2>7. TrackerInv'
    BY <1>1, <2>1, <2>4, TrackerFrame DEF SameJob, Inv
  <2>8. JobInv'
    BY <1>1, <2>2, <2>3, <2>4, <2>5, StateFacts, Places DEF SameJob, Inv, JobInv, Resumable
  <2>9. StreamInv'
    BY <1>1, <2>4, Places DEF SameJob, Inv, StreamInv
  <2>10. LiveInv'
    BY <1>1, <2>4, Running, Places DEF SameJob, Inv, LiveInv
  <2>11. RetryInv'
    BY <1>1, <2>2, <2>4, Places DEF Inv, RetryInv, Healing
  <2>12. Counters'
    BY <1>1 DEF Inv, Counters
  <2>. QED  BY <2>6, <2>7, <2>8, <2>9, <2>10, <2>11, <2>12 DEF Inv
<1>3. CASE ~Usable
  <2>1. Goto("insert") /\ tracker' = None
    BY <1>3 DEF ReadTracker
  <2>2. /\ job' \in Jobs /\ job'.pc = "insert" /\ SameJob /\ job'.sess = job.sess
        /\ job'.stream = job.stream /\ job'.finishedBefore = job.finishedBefore
    BY <2>1, GotoFacts, Places
  <2>3. StoreInv'
    BY <1>1, <2>2, StoreFrame DEF SameJob, Inv, StoreInv
  <2>4. TrackerInv'
    BY <1>1, <2>1, <2>2, TrackerFrame DEF SameJob, Inv
  <2>5. JobInv'
    BY <1>1, <2>1, <2>2, Places DEF SameJob, Inv, JobInv, Resumable
  <2>6. StreamInv'
    BY <1>1, <2>2, Places DEF SameJob, Inv, StreamInv
  <2>7. LiveInv'
    BY <1>1, <2>2, Running, Places DEF SameJob, Inv, LiveInv
  <2>8. RetryInv'
    BY <1>1, <2>1, <2>2, Places DEF Inv, RetryInv, Healing
  <2>9. Counters'
    BY <1>1 DEF Inv, Counters
  <2>. QED  BY <2>3, <2>4, <2>5, <2>6, <2>7, <2>8, <2>9 DEF Inv
<1>. QED  BY <1>2, <1>3

\* Runs end by errors, kills and refusals.
LEMMA CrashKeeps == ASSUME Inv, Crash PROVE Inv'
<1>1. /\ job.pc # "idle" /\ Exit("error", TRUE)
      /\ UNCHANGED <<file, gens, live, sessions, tracker>>
  BY DEF Crash, Fail, service
<1>2. live' \in 0..Len(gens) /\ "error" \in Exits
  BY <1>1 DEF Inv, StoreInv, Exits
<1>. QED  BY <1>1, <1>2, ExitKeeps

\* A run that is not healing has met a fault, or none has failed before it.
LEMMA Stale ==
  ASSUME Inv, job.pc \in {"resume", "startOver", "abort", "refresh"}
  PROVE  faulted \/ streak = 0
BY DEF Inv, RetryInv, Healing

\* Only resumable uploads of files have tracker files.
LEMMA NoTracker == ASSUME Inv, ~Resumable PROVE tracker = None
<1>1. TrackerInv
  BY DEF Inv
<1>2. ~Resumable => tracker = None
  BY <1>1 DEF TrackerInv
<1>. QED  BY <1>2

LEMMA AbortKeeps == ASSUME Inv, Abort PROVE Inv'
<1>1. /\ job.pc = "abort" /\ Exit("abort", FALSE)
      /\ UNCHANGED <<file, gens, live, sessions>> /\ tracker' = None
  BY NoTracker DEF Abort, service
<1>2. live' \in 0..Len(gens) /\ "abort" \in Exits /\ (faulted \/ streak = 0)
  BY <1>1, Stale DEF Inv, StoreInv, Exits
<1>. QED  BY <1>1, <1>2, ExitKeeps

LEMMA RestartFacts ==
  ASSUME Inv, NEW s \in Streams,
         job' = [job EXCEPT !.pc = "insert", !.sess = 0, !.startovers = @ + 1,
                            !.stream = s, !.last = 0, !.retries = 0]
  PROVE  /\ job' \in Jobs /\ job'.pc = "insert" /\ job'.kind = job.kind /\ job'.key = job.key
         /\ job'.exit = job.exit /\ job'.retries = 0 /\ job'.sess = 0 /\ job'.stream = s
         /\ job'.finishedBefore = job.finishedBefore
<1>1. job \in Jobs /\ job.startovers + 1 \in Nat /\ 0 \in Nat /\ "insert" \in Pcs
  BY StateFacts, Places DEF Jobs
<1>2. job' \in Jobs
  BY <1>1, Zenon DEF Jobs
<1>3. /\ job'.pc = "insert" /\ job'.kind = job.kind /\ job'.key = job.key
      /\ job'.exit = job.exit /\ job'.retries = 0 /\ job'.sess = 0 /\ job'.stream = s
      /\ job'.finishedBefore = job.finishedBefore
  BY <1>1, Zenon DEF Jobs
<1>. QED  BY <1>2, <1>3

LEMMA StartOverKeeps == ASSUME Inv, StartOver PROVE Inv'
<1>1. job.pc = "startOver" /\ UNCHANGED <<file, gens, live, sessions>>
  BY DEF StartOver, service
<1>2. live' \in 0..Len(gens) /\ "error" \in Exits /\ (faulted \/ streak = 0)
  BY <1>1, Stale DEF Inv, StoreInv, Exits
<1>3. ASSUME ~Resumable, Fail("error", FALSE) PROVE Inv'
  <2>1. tracker' = None /\ Exit("error", FALSE)
    BY <1>3, NoTracker DEF Fail
  <2>. QED  BY <2>1, <1>1, <1>2, ExitKeeps
<1>4. ASSUME tracker' = None, NEW hit \in BOOLEAN, Exit("error", hit) PROVE Inv'
  BY <1>4, <1>1, <1>2, ExitKeeps
<1>5. ASSUME Resumable, tracker' = None, UNCHANGED bounds,
             job' = [job EXCEPT !.pc = "insert", !.sess = 0, !.startovers = @ + 1,
                                !.stream = HashSeek(@, 0), !.last = 0, !.retries = 0]
      PROVE  Inv'
  <2> DEFINE s == HashSeek(job.stream, 0)
  <2>1. Sound(job.stream) /\ job.stream.max = 0 /\ Placed(job.stream.src)
    BY <1>1, <1>5 DEF Inv, StreamInv, Resumable
  <2>2. Aligned(s) /\ s.pos = 0 /\ s.src = job.stream.src /\ s.max = 0
    BY <2>1, HashSeekSound
  <2>3. job' = [job EXCEPT !.pc = "insert", !.sess = 0, !.startovers = @ + 1,
                           !.stream = s, !.last = 0, !.retries = 0]
    BY <1>5, Zenon
  <2> HIDE DEF s
  <2>4. s \in Streams
    BY <2>2 DEF Aligned, Sound
  <2>5. /\ job' \in Jobs /\ job'.pc = "insert" /\ job'.kind = job.kind /\ job'.key = job.key
        /\ job'.exit = job.exit /\ job'.retries = 0 /\ job'.sess = 0 /\ job'.stream = s
        /\ job'.finishedBefore = job.finishedBefore
    BY <2>3, <2>4, RestartFacts
  <2>6. UNCHANGED <<runs, faults, changes, faulted, streak>>
    BY <1>5 DEF bounds
  <2>7. StoreInv'
    BY <1>1, <2>5, StoreFrame DEF Inv, StoreInv
  <2>8. TrackerInv'
    BY <1>1, <1>5, <2>5, TrackerFrame DEF Inv
  <2>9. JobInv'
    BY <1>1, <1>5, <2>5, Places, StateFacts, BoundsAssumption DEF Inv, JobInv, Resumable
  <2>10. StreamInv'
    BY <1>1, <1>5, <2>1, <2>2, <2>5, Places DEF StreamInv, Resumable, Aligned
  <2>11. LiveInv'
    BY <1>1, <2>5, Running, Places DEF LiveInv
  <2>12. RetryInv'
    BY <1>2, <2>5, <2>6 DEF Inv, RetryInv
  <2>13. Counters'
    BY <2>6 DEF Inv, Counters
  <2>. QED  BY <2>7, <2>8, <2>9, <2>10, <2>11, <2>12, <2>13 DEF Inv
<1>. QED  BY <1>3, <1>4, <1>5 DEF StartOver

\* A digest of the whole source.
LEMMA DigestIsSource ==
  ASSUME Inv, job.pc = "verify"
  PROVE  job.stream.digest = job.stream.src
<1>1. /\ Aligned(job.stream) /\ job.stream.pos = Len(job.stream.src)
  BY Places DEF Inv, StreamInv
<1>2. job.stream.digest = FirstBytes(job.stream.src, Len(job.stream.src))
  BY <1>1 DEF Aligned, Sound
<1>. QED  BY <1>2, StateFacts, FirstBytesAll

LEMMA VerifyKeeps == ASSUME Inv, Verify PROVE Inv'
<1>1. job.pc = "verify" /\ UNCHANGED <<file, gens, sessions>> /\ tracker' = tracker
      /\ job.pc # "idle" /\ tracker = None
  BY DEF Verify, service, Fail, Inv, JobInv
<1>2. /\ job.sess # 0 /\ Session.state = "done" /\ Session.key = job.key
      /\ live = Session.gen \/ job.finishedBefore
  BY <1>1, Places DEF Inv, JobInv, LiveInv
<1>3. job.stream.digest = job.stream.src
  BY <1>1, DigestIsSource
<1>4. Exits = {"ok", "error", "exhausted", "abort", "mismatch"} /\ live \in 0..Len(gens)
      /\ Len(gens) \in Nat
  BY StateFacts DEF Exits, Inv, StoreInv
<1>5. ASSUME SameHash, Exit("ok", FALSE), live' = live PROVE Inv'
  <2>1. Session.bytes = job.stream.src
    BY <1>3, <1>5 DEF SameHash
  <2>2. Session.key = job.key
    BY <1>2
  <2>. QED  BY <2>1, <1>1, <1>2, <1>4, <1>5, ExitKeeps
<1>6. ASSUME ~SameHash PROVE faulted \/ streak = 0
  <2>1. Session.bytes # job.stream.src
    BY <1>3, <1>6 DEF SameHash
  <2>. QED  BY <2>1, <1>1, Places DEF Inv, RetryInv, Healing
<1>7. ASSUME ~SameHash, NEW why \in {"mismatch", "error"}, NEW hit \in BOOLEAN,
             Exit(why, hit), live' = live \/ live' = 0
      PROVE  Inv'
  BY <1>1, <1>4, <1>6, <1>7, ExitKeeps
<1>. QED  BY <1>1, <1>5, <1>7 DEF Verify, Fail, service

\* A run begins.
RunJob(kind, key, pc, s) ==
    [pc |-> pc, kind |-> kind, key |-> key, sess |-> 0, stream |-> s, last |-> 0,
     retries |-> 0, startovers |-> 0, finishedBefore |-> FALSE, exit |-> "none"]

FirstPc(kind) == CASE kind = "small" -> "simple"
                   [] kind = "stream" -> "insert"
                   [] OTHER -> "tracker"

LEMMA BeginKeeps == ASSUME Inv, Begin PROVE Inv'
<1> DEFINE max == IF job.kind = "stream" THEN Chunk ELSE 0
           s == NewStream(Content(file), max)
           pc == FirstPc(job.kind)
<1>1. /\ job.pc = "idle" /\ runs' = runs + 1 /\ faulted' = FALSE
      /\ UNCHANGED <<file, gens, live, sessions, tracker, faults, changes, streak>>
  BY DEF Begin, service
<1>2. job' = RunJob(job.kind, job.key, pc, s)
  BY Zenon DEF Begin, RunJob, Idle, FirstPc
<1>3. /\ job.kind = "small" => pc = "simple"
      /\ job.kind = "stream" => pc = "insert"
      /\ job.kind \notin {"small", "stream"} => pc = "tracker"
  BY DEF FirstPc
<1>4. max \in Nat /\ file \in Versions
  BY BoundsAssumption DEF Inv, StoreInv
<1>5. Aligned(s) /\ s.pos = 0 /\ s.src = Content(file) /\ s.max = max
  BY <1>4, ContentFacts, NewStreamFacts
<1>6. s \in Streams /\ Placed(s.src)
  BY <1>4, <1>5, ContentFacts DEF Aligned, Sound
<1>7. max = IF job.kind = "stream" THEN Chunk ELSE 0
  OBVIOUS
<1> HIDE DEF s, pc, max
<1>8. pc \in Pcs /\ pc \in {"simple", "insert", "tracker"}
  BY <1>3, Places
<1>9. /\ job'.pc = pc /\ job'.kind = job.kind /\ job'.key = job.key /\ job'.sess = 0
      /\ job'.stream = s /\ job'.retries = 0 /\ job'.exit = "none"
      /\ job'.finishedBefore = FALSE
  BY <1>2 DEF RunJob
<1>10. job' \in Jobs
  BY <1>2, <1>6, <1>8, StateFacts DEF RunJob, Jobs
<1>11. StoreInv'
  BY <1>1, <1>9, StoreFrame DEF Inv, StoreInv
<1>12. TrackerInv'
  BY <1>1, <1>9, TrackerFrame DEF Inv
<1>13. JobInv'
  BY <1>1, <1>3, <1>8, <1>9, <1>10, StateFacts, Places, BoundsAssumption DEF JobInv, Resumable
<1>14. StreamInv'
  BY <1>5, <1>6, <1>7, <1>8, <1>9, Places DEF StreamInv, Aligned
<1>15. LiveInv'
  BY <1>8, <1>9, Places DEF LiveInv
<1>16. RetryInv'
  BY <1>1, <1>8, <1>9, Places DEF Inv, RetryInv, Healing
<1>17. Counters'
  <2>1. runs' \in Nat /\ faults' \in Nat /\ changes' \in Nat
    BY <1>1 DEF Inv, Counters
  <2>2. faulted' \in BOOLEAN
    BY <1>1
  <2>. QED  BY <2>1, <2>2 DEF Counters
<1>. QED  BY <1>11, <1>12, <1>13, <1>14, <1>15, <1>16, <1>17 DEF Inv

-----------------------------------------------------------------------------
(* Steps that ask the service where a session is, and the last seek.       *)

LEMMA PersistedIs ==
  ASSUME Inv, job.pc \in InSession \union {"resume"}
  PROVE  Persisted = Len(Session.bytes)
BY SessionFacts DEF Persisted, SessionOK

LEMMA AfterRefreshIs ==
  /\ AfterRefresh \in {"send", "complete"}
  /\ AfterRefresh = "complete" <=> Session.state = "done"
BY DEF AfterRefresh

LEMMA ResumedFacts ==
  ASSUME Inv, NEW s \in Streams, NEW last \in Nat, NEW before \in BOOLEAN,
         job' = [job EXCEPT !.pc = "register", !.stream = s, !.last = last,
                            !.finishedBefore = before]
  PROVE  /\ job' \in Jobs /\ job'.pc = "register" /\ SameJob /\ job'.sess = job.sess
         /\ job'.stream = s /\ job'.finishedBefore = before
<1>1. job \in Jobs /\ "register" \in Pcs
  BY StateFacts, Places
<1>2. job' \in Jobs
  BY <1>1, Zenon DEF Jobs
<1>3. /\ job'.pc = "register" /\ SameJob /\ job'.sess = job.sess
      /\ job'.stream = s /\ job'.finishedBefore = before
  BY <1>1, Zenon DEF Jobs, SameJob
<1>. QED  BY <1>2, <1>3

LEMMA ResumeKeeps == ASSUME Inv, Resume PROVE Inv'
<1>1. job.pc = "resume" /\ UNCHANGED <<file, gens, live, sessions>>
  BY DEF Resume, service
<1>2. CASE Session.state = "gone" /\ Goto("startOver") /\ UNCHANGED <<tracker, bounds>>
  <2>1. /\ job' \in Jobs /\ job'.pc = "startOver" /\ SameJob /\ job'.sess = job.sess
        /\ job'.stream = job.stream /\ job'.finishedBefore = job.finishedBefore
    BY <1>2, GotoFacts, Places
  <2>2. UNCHANGED <<tracker, runs, faults, changes, faulted, streak>>
    BY <1>2 DEF bounds
  <2>3. StoreInv'
    BY <1>1, <2>1, StoreFrame DEF SameJob, Inv, StoreInv
  <2>4. TrackerInv'
    BY <1>1, <2>1, <2>2, TrackerFrame DEF SameJob, Inv
  <2>5. JobInv'
    BY <1>1, <2>1, <2>2, Places DEF SameJob, Inv, JobInv, Resumable
  <2>6. StreamInv'
    BY <1>1, <2>1, Places DEF SameJob, Inv, StreamInv
  <2>7. LiveInv'
    BY <1>1, <2>1, Running, Places DEF SameJob, Inv, LiveInv
  <2>8. RetryInv'
    BY <1>1, <2>1, <2>2, Stale DEF Inv, RetryInv
  <2>9. Counters'
    BY <2>2 DEF Inv, Counters
  <2>. QED  BY <2>3, <2>4, <2>5, <2>6, <2>7, <2>8, <2>9 DEF Inv
<1>3. ASSUME job' = [job EXCEPT !.pc = "register", !.stream = Resync(@),
                               !.last = Persisted,
                               !.finishedBefore = Session.state = "done"],
             UNCHANGED <<tracker, bounds>>
      PROVE  Inv'
  <2> DEFINE s == Resync(job.stream)  before == Session.state = "done"
  <2>1. Sound(job.stream) /\ job.stream.max = 0 /\ Placed(job.stream.src) /\ Resumable
    BY <1>1, Places DEF Inv, StreamInv, JobInv, Resumable
  <2>2. Persisted = Len(Session.bytes) /\ Persisted \in Nat
    BY <1>1, PersistedIs, SessionFacts
  <2>3. Aligned(s) /\ s.pos = Len(Session.bytes) /\ s.src = job.stream.src /\ s.max = 0
    BY <2>1, <2>2, HashSeekSound DEF Resync
  <2>4. job' = [job EXCEPT !.pc = "register", !.stream = s, !.last = Persisted,
                           !.finishedBefore = before]
    BY <1>3, Zenon
  <2>5. before \in BOOLEAN /\ before = (Session.state = "done")
    OBVIOUS
  <2> HIDE DEF s, before
  <2>6. s \in Streams
    BY <2>3 DEF Aligned, Sound
  <2>7. /\ job' \in Jobs /\ job'.pc = "register" /\ SameJob /\ job'.sess = job.sess
        /\ job'.stream = s /\ job'.finishedBefore = before
    BY <2>2, <2>4, <2>5, <2>6, ResumedFacts, Zenon
  <2>8. UNCHANGED <<tracker, runs, faults, changes, faulted, streak>>
    BY <1>3 DEF bounds
  <2>9. Session' = Session
    BY <1>1, <2>7 DEF Session
  <2>10. StoreInv'
    BY <1>1, <2>7, StoreFrame DEF SameJob, Inv, StoreInv
  <2>11. TrackerInv'
    BY <1>1, <2>7, <2>8, TrackerFrame DEF SameJob, Inv
  <2>12. JobInv'
    BY <1>1, <2>1, <2>7, <2>8, <2>9, Places DEF SameJob, Inv, JobInv, Resumable
  <2>13. StreamInv'
    BY <1>1, <2>1, <2>3, <2>7, <2>9, Places DEF SameJob, StreamInv, Aligned, Resumable
  <2>14. LiveInv'
    BY <1>1, <2>5, <2>7, <2>9, Running, Places DEF SameJob, Inv, LiveInv
  <2>15. RetryInv'
    BY <1>1, <2>7, <2>8, Stale DEF Inv, RetryInv
  <2>16. Counters'
    BY <2>8 DEF Inv, Counters
  <2>. QED  BY <2>10, <2>11, <2>12, <2>13, <2>14, <2>15, <2>16 DEF Inv
<1>4. CASE Fail("error", TRUE)
  <2>1. tracker' = tracker /\ Exit("error", TRUE) /\ live' \in 0..Len(gens) /\ "error" \in Exits
    BY <1>1, <1>4 DEF Fail, Inv, StoreInv, Exits
  <2>. QED  BY <2>1, <1>1, ExitKeeps
<1>. QED  BY <1>2, <1>3, <1>4 DEF Resume

\* Retries are counted or renewed.
LEMMA CountRetryFacts ==
  ASSUME Inv, Persisted \in Nat
  PROVE  LET j == CountRetry(job) IN
         /\ j \in Jobs /\ j.pc = job.pc /\ j.kind = job.kind /\ j.key = job.key
         /\ j.sess = job.sess /\ j.exit = job.exit /\ j.stream = job.stream
         /\ j.finishedBefore = job.finishedBefore
<1> DEFINE r == job.retries + 1  p == Persisted  j == CountRetry(job)
<1>1. job \in Jobs /\ r \in Nat /\ 0 \in Nat /\ p \in Nat
  BY StateFacts DEF Jobs
<1>2. j = [job EXCEPT !.last = p, !.retries = 0] \/ j = [job EXCEPT !.retries = r]
  BY Zenon DEF CountRetry
<1> HIDE DEF r, j, p
<1>3. CASE j = [job EXCEPT !.last = p, !.retries = 0]
  <2>1. j \in Jobs
    BY <1>1, <1>3, Zenon DEF Jobs
  <2>2. /\ j.pc = job.pc /\ j.kind = job.kind /\ j.key = job.key
        /\ j.sess = job.sess /\ j.exit = job.exit /\ j.stream = job.stream
        /\ j.finishedBefore = job.finishedBefore
    BY <1>1, <1>3, Zenon DEF Jobs
  <2>. QED  BY <2>1, <2>2 DEF j
<1>4. CASE j = [job EXCEPT !.retries = r]
  <2>1. j \in Jobs
    BY <1>1, <1>4, Zenon DEF Jobs
  <2>2. /\ j.pc = job.pc /\ j.kind = job.kind /\ j.key = job.key
        /\ j.sess = job.sess /\ j.exit = job.exit /\ j.stream = job.stream
        /\ j.finishedBefore = job.finishedBefore
    BY <1>1, <1>4, Zenon DEF Jobs
  <2>. QED  BY <2>1, <2>2 DEF j
<1>. QED  BY <1>2, <1>3, <1>4

LEMMA RefreshedFacts ==
  ASSUME NEW j \in Jobs, NEW s \in Streams, NEW pc \in Pcs,
         job' = [j EXCEPT !.stream = s, !.pc = pc]
  PROVE  /\ job' \in Jobs /\ job'.pc = pc /\ job'.kind = j.kind /\ job'.key = j.key
         /\ job'.sess = j.sess /\ job'.exit = j.exit /\ job'.stream = s
         /\ job'.retries = j.retries /\ job'.finishedBefore = j.finishedBefore
<1>1. job' \in Jobs
  BY Zenon DEF Jobs
<1>2. /\ job'.pc = pc /\ job'.kind = j.kind /\ job'.key = j.key
      /\ job'.sess = j.sess /\ job'.exit = j.exit /\ job'.stream = s
      /\ job'.retries = j.retries /\ job'.finishedBefore = j.finishedBefore
  BY Zenon DEF Jobs
<1>. QED  BY <1>1, <1>2

LEMMA RefreshKeeps == ASSUME Inv, Refresh PROVE Inv'
<1> DEFINE s == Resync(job.stream)  j == CountRetry(job)
<1>1. /\ job.pc = "refresh" /\ faulted /\ UNCHANGED <<file, gens, live, sessions>>
      /\ Session.state # "gone"
  BY DEF Refresh, service, Inv, JobInv
<1>2. /\ Sound(job.stream) /\ Placed(job.stream.src)
      /\ job.stream.prev <= Len(Session.bytes) /\ Len(Session.bytes) <= job.stream.cur
      /\ job.stream.max = IF job.kind = "stream" THEN Chunk ELSE 0
      /\ job.kind = "stream" /\ Session.state = "done" =>
            Len(Session.bytes) = Len(job.stream.src)
  BY <1>1, Places DEF Inv, StreamInv
<1>3. Persisted = Len(Session.bytes) /\ Persisted \in Nat
  BY <1>1, PersistedIs, SessionFacts, Places
<1>4. /\ Aligned(s) /\ s.pos = Len(Session.bytes) /\ s.src = job.stream.src
      /\ s.max = job.stream.max
  BY <1>2, <1>3, HashSeekSound DEF Resync
<1>5. ~s.failed /\ s \in Streams
  BY <1>4 DEF Aligned, Sound
<1>6. /\ j \in Jobs /\ j.pc = job.pc /\ j.kind = job.kind /\ j.key = job.key
      /\ j.sess = job.sess /\ j.exit = job.exit /\ j.stream = job.stream
      /\ j.finishedBefore = job.finishedBefore
  BY <1>3, CountRetryFacts
<1>7. IF j.retries > NumRetries THEN Fail("exhausted", FALSE)
      ELSE job' = [j EXCEPT !.stream = s, !.pc = AfterRefresh] /\ UNCHANGED <<tracker, bounds>>
  BY <1>5, Zenon DEF Refresh
<1> HIDE DEF s, j
<1>8. CASE j.retries > NumRetries
  <2>1. /\ tracker' = tracker /\ Exit("exhausted", FALSE) /\ live' \in 0..Len(gens)
        /\ "exhausted" \in Exits
    BY <1>1, <1>7, <1>8 DEF Fail, Inv, StoreInv, Exits
  <2>. QED  BY <2>1, <1>1, ExitKeeps
<1>9. CASE ~(j.retries > NumRetries)
  <2>1. job' = [j EXCEPT !.stream = s, !.pc = AfterRefresh] /\ UNCHANGED <<tracker, bounds>>
    BY <1>7, <1>9
  <2>2. UNCHANGED <<tracker, runs, faults, changes, faulted, streak>>
    BY <2>1 DEF bounds
  <2>3. AfterRefresh \in Pcs
    BY AfterRefreshIs, Places
  <2>4. /\ job' \in Jobs /\ job'.pc = AfterRefresh /\ job'.kind = j.kind /\ job'.key = j.key
        /\ job'.sess = j.sess /\ job'.exit = j.exit /\ job'.stream = s
        /\ job'.retries = j.retries /\ job'.finishedBefore = j.finishedBefore
    BY <2>1, <2>3, <1>5, <1>6, RefreshedFacts
  <2>5. Session' = Session
    BY <1>1, <1>6, <2>4 DEF Session
  <2>6. job'.retries <= NumRetries
    <3>1. j.retries \in Nat
      BY <1>6 DEF Jobs
    <3>. QED  BY <3>1, <2>4, <1>9, BoundsAssumption
  <2>7. StoreInv'
    BY <1>1, <1>6, <2>4, StoreFrame DEF Inv, StoreInv
  <2>8. TrackerInv'
    BY <1>1, <1>6, <2>2, <2>4, TrackerFrame DEF Inv
  <2>9. JobInv'
    BY <1>1, <1>6, <2>2, <2>4, <2>5, <2>6, AfterRefreshIs, Places DEF Inv, JobInv, Resumable
  <2>10. StreamInv'
    BY <1>1, <1>2, <1>4, <1>6, <2>4, <2>5, AfterRefreshIs, Places DEF StreamInv, Aligned
  <2>11. LiveInv'
    BY <1>1, <1>6, <2>4, <2>5, AfterRefreshIs, Running, Places DEF Inv, LiveInv
  <2>12. RetryInv'
    BY <1>1, <2>2, <2>4, AfterRefreshIs DEF Inv, RetryInv
  <2>13. Counters'
    BY <2>2 DEF Inv, Counters
  <2>. QED  BY <2>7, <2>8, <2>9, <2>10, <2>11, <2>12, <2>13 DEF Inv
<1>. QED  BY <1>8, <1>9

LEMMA RetriedFacts ==
  ASSUME Inv, NEW r \in Nat, job' = [job EXCEPT !.retries = r]
  PROVE  /\ job' \in Jobs /\ job'.pc = job.pc /\ job'.kind = job.kind /\ job'.key = job.key
         /\ job'.sess = job.sess /\ job'.exit = job.exit /\ job'.stream = job.stream
         /\ job'.retries = r /\ job'.finishedBefore = job.finishedBefore
<1>1. job \in Jobs
  BY StateFacts
<1>2. job' \in Jobs
  BY <1>1, Zenon DEF Jobs
<1>3. /\ job'.pc = job.pc /\ job'.kind = job.kind /\ job'.key = job.key
      /\ job'.sess = job.sess /\ job'.exit = job.exit /\ job'.stream = job.stream
      /\ job'.retries = r /\ job'.finishedBefore = job.finishedBefore
  BY <1>1, Zenon DEF Jobs
<1>. QED  BY <1>2, <1>3

LEMMA RefreshLostKeeps == ASSUME Inv, RefreshLost PROVE Inv'
<1>1. job.pc = "refresh" /\ faulted /\ UNCHANGED <<file, gens, live, sessions>>
  BY DEF RefreshLost, service, Inv, JobInv
<1>2. CASE job.retries + 1 > NumRetries
  <2>1. /\ tracker' = tracker /\ Exit("exhausted", FALSE) /\ live' \in 0..Len(gens)
        /\ "exhausted" \in Exits
    BY <1>1, <1>2 DEF RefreshLost, Fail, Inv, StoreInv, Exits
  <2>. QED  BY <2>1, <1>1, ExitKeeps
<1>3. CASE ~(job.retries + 1 > NumRetries)
  <2> DEFINE r == job.retries + 1
  <2>1. job' = [job EXCEPT !.retries = r] /\ UNCHANGED <<tracker, bounds>>
    BY <1>3, Zenon DEF RefreshLost
  <2>2. UNCHANGED <<tracker, runs, faults, changes, faulted, streak>>
    BY <2>1 DEF bounds
  <2>3. r \in Nat /\ r <= NumRetries
    BY <1>3, StateFacts, BoundsAssumption DEF Jobs
  <2> HIDE DEF r
  <2>4. /\ job' \in Jobs /\ job'.pc = job.pc /\ job'.kind = job.kind /\ job'.key = job.key
        /\ job'.sess = job.sess /\ job'.exit = job.exit /\ job'.stream = job.stream
        /\ job'.retries = r /\ job'.finishedBefore = job.finishedBefore
    BY <2>1, <2>3, RetriedFacts
  <2>5. Session' = Session
    BY <1>1, <2>4 DEF Session
  <2>6. StoreInv'
    BY <1>1, <2>4, StoreFrame DEF Inv, StoreInv
  <2>7. TrackerInv'
    BY <1>1, <2>2, <2>4, TrackerFrame DEF Inv
  <2>8. JobInv'
    BY <1>1, <2>2, <2>3, <2>4, <2>5, Places DEF Inv, JobInv, Resumable
  <2>9. StreamInv'
    BY <1>1, <2>4, <2>5, Places DEF Inv, StreamInv
  <2>10. LiveInv'
    BY <1>1, <2>4, <2>5, Places DEF Inv, LiveInv
  <2>11. RetryInv'
    BY <1>1, <2>2, <2>4 DEF Inv, RetryInv
  <2>12. Counters'
    BY <2>2 DEF Inv, Counters
  <2>. QED  BY <2>6, <2>7, <2>8, <2>9, <2>10, <2>11, <2>12 DEF Inv
<1>. QED  BY <1>2, <1>3

LEMMA CompleteKeeps == ASSUME Inv, Complete PROVE Inv'
<1> DEFINE end == HashSeekEnd(job.stream)  back == HashSeek(end, Offset)
           pc == IF end.pos # Offset THEN "abort"
                 ELSE IF Resumable THEN "untrack" ELSE "verify"
<1>1. /\ job.pc = "complete"
      /\ UNCHANGED <<file, gens, live, sessions, tracker, runs, faults, changes, faulted, streak>>
  BY DEF Complete, service, bounds
<1>2. /\ Aligned(job.stream) /\ Placed(job.stream.src) /\ Session.state = "done"
      /\ Offset = Len(Session.bytes) /\ Offset = job.stream.cur /\ Offset = job.stream.pos
      /\ job.stream.max # 0 => Offset = Len(job.stream.src)
      /\ Offset \in Nat
  BY <1>1, SessionFacts, StateFacts, Places DEF Inv, StreamInv, JobInv, Aligned, Offset
<1>3. /\ Sound(end) /\ end.pos = Len(job.stream.src) /\ end.src = job.stream.src
      /\ end.max = job.stream.max /\ end.cur = Offset /\ end.prev <= Offset
  <2>1. Sound(job.stream)
    BY <1>2 DEF Aligned
  <2>2. job.stream.max # 0 => job.stream.pos = Len(job.stream.src)
    BY <1>2
  <2>3. /\ Sound(end) /\ end.pos = Len(job.stream.src) /\ end.src = job.stream.src
        /\ end.max = job.stream.max /\ end.cur = job.stream.cur
    BY <2>1, <2>2, HashSeekEndSound
  <2> HIDE DEF end
  <2>4. end.prev <= end.cur
    BY <2>3 DEF Sound
  <2>. QED  BY <2>3, <2>4, <1>2
<1>4. job' = [job EXCEPT !.stream = back, !.pc = pc]
  BY Zenon DEF Complete
<1> HIDE DEF end
<1>5. Aligned(back) /\ back.pos = Offset /\ back.src = job.stream.src /\ back.max = job.stream.max
  <2>1. end.max # 0 => end.prev <= Offset /\ Offset <= end.cur
    BY <1>2, <1>3
  <2>. QED  BY <2>1, <1>2, <1>3, HashSeekSound
<1>6. pc \in {"abort", "untrack", "verify"}
      /\ (pc # "abort" => Offset = Len(job.stream.src))
      /\ (pc = "untrack" => Resumable) /\ (pc = "verify" => ~Resumable)
      /\ (pc = "abort" => Offset # Len(job.stream.src))
  BY <1>3
<1> HIDE DEF back, pc
<1>7. back \in Streams /\ pc \in Pcs
  BY <1>5, <1>6, Places DEF Aligned, Sound
<1>8. /\ job' \in Jobs /\ job'.pc = pc /\ SameJob /\ job'.sess = job.sess
      /\ job'.stream = back /\ job'.finishedBefore = job.finishedBefore
  BY <1>4, <1>7, StreamMoveFacts
<1>9. Session' = Session
  BY <1>1, <1>8 DEF Session
<1>10. StoreInv'
  BY <1>1, <1>8, StoreFrame DEF SameJob, Inv, StoreInv
<1>11. TrackerInv'
  BY <1>1, <1>8, TrackerFrame DEF SameJob, Inv
<1>12. pc = "verify" => tracker = None
  BY <1>6, NoTracker
<1>13. JobInv'
  <2>1. /\ job.kind # "small" /\ Session.key = job.key /\ job.sess # 0
        /\ job.retries <= NumRetries /\ job.sess <= Len(sessions)
    BY <1>1, Places DEF Inv, JobInv
  <2>2. Resumable' <=> Resumable
    BY <1>8 DEF Resumable, SameJob
  <2>. QED  BY <1>1, <1>2, <1>6, <1>8, <1>9, <1>12, <2>1, <2>2, Places DEF SameJob, JobInv
<1>14. StreamInv'
  <2>1. job.stream.max = IF job.kind = "stream" THEN Chunk ELSE 0
    BY <1>1 DEF Inv, StreamInv
  <2>2. Sound(back)
    BY <1>5 DEF Aligned
  <2>3. job.kind = "stream" => Len(Session.bytes) = Len(job.stream.src)
    BY <1>1, <1>2, Places DEF Inv, StreamInv
  <2>. QED  BY <1>2, <1>5, <1>6, <1>8, <1>9, <2>1, <2>2, <2>3, Places DEF SameJob, StreamInv
<1>15. LiveInv'
  BY <1>1, <1>6, <1>8, <1>9, Running, Places DEF SameJob, Inv, LiveInv
<1>16. RetryInv'
  <2>1. ASSUME Healing PROVE Healing'
    <3>1. Session.bytes = job.stream.src
      BY <1>1, <2>1, Places DEF Healing
    <3>2. pc # "abort"
      BY <3>1, <1>2, <1>6
    <3>. QED  BY <3>1, <3>2, <1>5, <1>6, <1>8, <1>9, Places DEF Healing
  <2>. QED  BY <2>1, <1>1, <1>6, <1>8 DEF Inv, RetryInv
<1>17. Counters'
  BY <1>1 DEF Inv, Counters
<1>. QED  BY <1>10, <1>11, <1>13, <1>14, <1>15, <1>16, <1>17 DEF Inv

-----------------------------------------------------------------------------
(* Steps that change sessions and objects.                                 *)

\* Objects are only added.
GensGrow ==
    /\ gens' \in Seq(GenRecords) /\ Len(gens') \in Nat /\ Len(gens) <= Len(gens')
    /\ \A i \in 1..Len(gens) : gens'[i] = gens[i]

LEMMA SessionsAppended ==
  ASSUME Inv, NEW s \in SessionRecords, sessions' = Append(sessions, s),
         GensGrow, UNCHANGED file, live' \in 0..Len(gens'), job'.kind = job.kind,
         job'.key = job.key, UNCHANGED tracker,
         s.gen <= Len(gens') /\ Placed(s.bytes),
         s.state = "done" =>
            /\ s.total = Len(s.bytes) /\ s.gen # 0
            /\ gens'[s.gen] = [bytes |-> s.bytes, key |-> s.key],
         s.total # Unknown => Len(s.bytes) <= s.total,
         s.total = Unknown => job.kind = "stream",
         s.state = "open" /\ job.kind = "stream" => s.total = Unknown
  PROVE  /\ StoreInv' /\ TrackerInv'
         /\ Len(sessions') = Len(sessions) + 1 /\ sessions'[Len(sessions) + 1] = s
<1>1. /\ sessions' \in Seq(SessionRecords) /\ Len(sessions') = Len(sessions) + 1
      /\ \A i \in 1..Len(sessions) : sessions'[i] = sessions[i]
      /\ sessions'[Len(sessions) + 1] = s
  BY AppendProperties DEF Inv, StoreInv
<1>2. ASSUME NEW i \in 1..Len(sessions) + 1 PROVE SessionOK(sessions[i])'
  <2>1. CASE i = Len(sessions) + 1
    BY <2>1, <1>1 DEF SessionOK
  <2>2. CASE i # Len(sessions) + 1
    <3>1. i \in 1..Len(sessions) /\ sessions'[i] = sessions[i]
      BY <2>2, <1>1, StateFacts
    <3>2. SessionOK(sessions[i])
      BY <3>1 DEF Inv, StoreInv
    <3>3. sessions[i] \in SessionRecords
      BY <3>1, ElementOfSeq DEF Inv, StoreInv
    <3>4. sessions[i].gen \in Nat
      BY <3>3 DEF SessionRecords
    <3>. QED  BY <3>1, <3>2, <3>4, StateFacts DEF SessionOK, GensGrow
  <2>. QED  BY <2>1, <2>2
<1>3. StoreInv'
  BY <1>1, <1>2 DEF GensGrow, Inv, StoreInv
<1>4. TrackerInv'
  <2>1. CASE tracker = None
    BY <2>1 DEF TrackerInv, None
  <2>2. CASE tracker = Torn
    <3>1. Resumable' /\ tracker'.there # "whole"
      BY <2>2, NoTracker DEF None, Torn, Resumable
    <3>. QED  BY <2>2, <3>1 DEF TrackerInv
  <2>3. ASSUME NEW k \in Keys, NEW id \in 1..Len(sessions), tracker = Whole(k, id)
        PROVE  TrackerInv'
    <3>1. Resumable' /\ tracker' = Whole(k, id)
      BY <2>3, NoTracker DEF None, Whole, Resumable
    <3>2. id \in 1..Len(sessions') /\ sessions'[id] = sessions[id]
      BY <1>1, StateFacts
    <3>3. k = sessions[id].key
      BY <2>3 DEF Inv, TrackerInv, Whole
    <3>4. tracker'.id = id /\ tracker'.key = k
      BY <3>1 DEF Whole
    <3>. QED  BY <3>1, <3>2, <3>3, <3>4 DEF TrackerInv
  <2>4. tracker \in {None, Torn} \union {Whole(k, id) : k \in Keys, id \in 1..Len(sessions)}
    BY DEF Inv, TrackerInv
  <2>. QED  BY <2>1, <2>2, <2>3, <2>4
<1>. QED  BY <1>1, <1>3, <1>4

LEMMA InsertKeeps == ASSUME Inv, Insert PROVE Inv'
<1>1. job.pc = "insert" /\ UNCHANGED <<file, gens, live>>
  BY DEF Insert
<1>2. CASE Fail("error", TRUE) /\ UNCHANGED sessions
  <2>1. tracker' = tracker /\ Exit("error", TRUE) /\ live' \in 0..Len(gens) /\ "error" \in Exits
    BY <1>1, <1>2 DEF Fail, Inv, StoreInv, Exits
  <2>. QED  BY <2>1, <1>1, <1>2, ExitKeeps
<1> DEFINE total == IF job.kind = "stream" THEN Unknown ELSE Len(job.stream.src)
           s == [bytes |-> <<>>, state |-> "open", total |-> total,
                 key |-> job.key, gen |-> 0]
           pc == IF Resumable THEN "register" ELSE "send"
           id == Len(sessions) + 1
<1>3. ASSUME sessions' = Append(sessions, s),
             job' = [job EXCEPT !.sess = Len(sessions) + 1, !.pc = pc],
             UNCHANGED <<tracker, bounds>>
      PROVE  Inv'
  <2>1. /\ s \in SessionRecords /\ s.bytes = <<>> /\ s.state = "open" /\ s.gen = 0
        /\ s.total = total /\ s.key = job.key /\ Len(<<>>) = 0
    BY StateFacts, EmptySeq DEF SessionRecords
  <2>2. pc \in {"register", "send"} /\ (pc = "register" <=> Resumable)
        /\ (job.kind = "stream" => total = Unknown)
        /\ (job.kind # "stream" => total = Len(job.stream.src))
    OBVIOUS
  <2>3. job' = [job EXCEPT !.pc = pc, !.sess = id]
    BY <1>3, StateFacts, Zenon DEF Jobs
  <2> HIDE DEF s, pc, id, total
  <2>4. id = Len(sessions) + 1 /\ id \in Nat /\ id # 0
    BY StateFacts DEF id
  <2>5. /\ job' \in Jobs /\ job'.pc = pc /\ SameJob /\ job'.sess = id
        /\ job'.stream = job.stream /\ job'.finishedBefore = job.finishedBefore
    BY <2>2, <2>3, <2>4, SessionMoveFacts, Places
  <2>6. UNCHANGED <<tracker, runs, faults, changes, faulted, streak>>
    BY <1>3 DEF bounds
  <2>7. GensGrow
    BY <1>1, StateFacts DEF GensGrow, Inv, StoreInv
  <2>8. live' \in 0..Len(gens') /\ job'.kind = job.kind /\ job'.key = job.key
    BY <1>1, <2>5 DEF SameJob, Inv, StoreInv
  <2>9. Placed(s.bytes) /\ s.gen <= Len(gens')
    BY <1>1, <2>1, StateFacts DEF Placed
  <2>10. /\ s.total # Unknown => Len(s.bytes) <= s.total
         /\ s.total = Unknown => job.kind = "stream"
         /\ s.state = "open" /\ job.kind = "stream" => s.total = Unknown
    BY <2>1, <2>2, StateFacts DEF Unknown
  <2>11. /\ StoreInv' /\ TrackerInv'
         /\ Len(sessions') = Len(sessions) + 1 /\ sessions'[Len(sessions) + 1] = s
    BY <1>1, <1>3, <2>1, <2>6, <2>7, <2>8, <2>9, <2>10, SessionsAppended
  <2>12. Session' = s
    BY <2>4, <2>5, <2>11 DEF Session
  <2>13. JobInv'
    <3>1. job.kind # "small" /\ job.retries <= NumRetries /\ job.sess <= Len(sessions)
      BY <1>1, Places DEF Inv, JobInv
    <3>2. job'.sess <= Len(sessions')
      BY <2>4, <2>5, <2>11
    <3>3. Resumable' <=> Resumable
      BY <2>5 DEF Resumable, SameJob
    <3>. QED  BY <2>1, <2>2, <2>4, <2>5, <2>12, <3>1, <3>2, <3>3, Places DEF SameJob, JobInv
  <2>14. StreamInv'
    <3>1. /\ Aligned(job.stream) /\ job.stream.pos = 0 /\ Placed(job.stream.src)
          /\ Sound(job.stream)
          /\ job.stream.max = IF job.kind = "stream" THEN Chunk ELSE 0
      BY <1>1, Places DEF Inv, StreamInv
    <3>. QED  BY <2>1, <2>2, <2>5, <2>12, <3>1, Places DEF SameJob, StreamInv
  <2>15. LiveInv'
    BY <1>1, <2>1, <2>2, <2>5, <2>12, Running, Places DEF SameJob, LiveInv
  <2>16. RetryInv'
    <3>1. Healing'
      <4>1. FirstBytes(job.stream.src, 0) = <<>>
        BY StateFacts, FirstBytesNone
      <4>. QED  BY <4>1, <2>1, <2>2, <2>5, <2>12, StateFacts, Places DEF Healing
    <3>. QED  BY <3>1, <1>1, <2>2, <2>5, <2>6 DEF Inv, RetryInv
  <2>17. Counters'
    BY <2>6 DEF Inv, Counters
  <2>. QED  BY <2>11, <2>13, <2>14, <2>15, <2>16, <2>17 DEF Inv
<1>. QED  BY <1>2, <1>3, Zenon DEF Insert

LEMMA UploadedFacts ==
  ASSUME Inv, NEW s \in Streams, NEW sess \in Nat,
         job' = [job EXCEPT !.pc = "verify", !.stream = s, !.sess = sess]
  PROVE  /\ job' \in Jobs /\ job'.pc = "verify" /\ SameJob /\ job'.sess = sess
         /\ job'.stream = s /\ job'.finishedBefore = job.finishedBefore
<1>1. job \in Jobs /\ "verify" \in Pcs
  BY StateFacts, Places
<1>2. job' \in Jobs
  BY <1>1, Zenon DEF Jobs
<1>3. /\ job'.pc = "verify" /\ SameJob /\ job'.sess = sess
      /\ job'.stream = s /\ job'.finishedBefore = job.finishedBefore
  BY <1>1, Zenon DEF Jobs, SameJob
<1>. QED  BY <1>2, <1>3

\* A new generation is added.
LEMMA GensAppended ==
  ASSUME Inv, NEW g \in GenRecords, gens' = Append(gens, g)
  PROVE  /\ GensGrow /\ Len(gens') = Len(gens) + 1 /\ gens'[Len(gens) + 1] = g
<1>1. /\ gens' \in Seq(GenRecords) /\ Len(gens') = Len(gens) + 1
      /\ \A i \in 1..Len(gens) : gens'[i] = gens[i]
      /\ gens'[Len(gens) + 1] = g
  BY AppendProperties DEF Inv, StoreInv
<1>. QED  BY <1>1, StateFacts DEF GensGrow

LEMMA SimpleUploadKeeps == ASSUME Inv, SimpleUpload PROVE Inv'
<1>1. job.pc = "simple" /\ UNCHANGED file
  BY DEF SimpleUpload
<1>2. CASE Fail("error", TRUE) /\ UNCHANGED service
  <2>1. /\ tracker' = tracker /\ Exit("error", TRUE) /\ live' \in 0..Len(gens)
        /\ "error" \in Exits /\ UNCHANGED <<gens, sessions>>
    BY <1>1, <1>2 DEF Fail, Inv, StoreInv, Exits, service
  <2>. QED  BY <2>1, <1>1, <1>2, ExitKeeps
<1> DEFINE src == job.stream.src
           g == [bytes |-> src, key |-> job.key]
           t == [bytes |-> src, total |-> Len(src), state |-> "done",
                 key |-> job.key, gen |-> Len(gens) + 1]
           s == HashRead(job.stream, Len(src))
           id == Len(sessions) + 1
<1>3. ASSUME gens' = Append(gens, g), sessions' = Append(sessions, t),
             live' = Len(gens) + 1,
             job' = [job EXCEPT !.pc = "verify", !.stream = s, !.sess = Len(sessions) + 1],
             UNCHANGED <<tracker, bounds>>
      PROVE  Inv'
  <2>1. src \in Seq(Byte) /\ Len(src) \in Nat /\ job.key \in Keys /\ src = job.stream.src
    BY StateFacts
  <2>2. g \in GenRecords /\ g = [bytes |-> src, key |-> job.key]
    BY <2>1 DEF GenRecords
  <2>3. /\ t \in SessionRecords /\ t.bytes = src /\ t.state = "done" /\ t.gen = Len(gens) + 1
        /\ t.total = Len(src) /\ t.key = job.key
    BY <2>1, StateFacts DEF SessionRecords
  <2>4. job.kind = "small" /\ ~Resumable
    BY <1>1 DEF Inv, JobInv, Resumable
  <2>5. Aligned(job.stream) /\ job.stream.pos = 0 /\ job.stream.max = 0 /\ Placed(src)
    BY <1>1, <2>4, Places DEF Inv, StreamInv
  <2> DEFINE b == Bytes(job.stream, job.stream.pos, Len(src))
  <2>6. Len(b) = Len(src)
    <3>1. /\ Len(b) \in Nat /\ Len(b) <= Len(src)
          /\ (Len(b) < Len(src) => job.stream.pos + Len(b) >= Len(src))
      BY <2>1, StateFacts, BytesFacts
    <3>. QED  BY <3>1, <2>1, <2>5
  <2>7. Aligned(s) /\ s.src = src /\ s.max = 0 /\ s.pos = Len(src)
    <3>1. Aligned(s) /\ s.src = src /\ s.max = 0 /\ s.pos = job.stream.pos + Len(b)
      BY <2>1, <2>5, HashReadSound
    <3>. QED  BY <3>1, <2>1, <2>5, <2>6
  <2> HIDE DEF b
  <2>8. job' = [job EXCEPT !.pc = "verify", !.stream = s, !.sess = id]
    BY <1>3
  <2>9. id = Len(sessions) + 1
    OBVIOUS
  <2> HIDE DEF src, g, t, s, id
  <2>10. s \in Streams /\ Sound(s)
    BY <2>7 DEF Aligned, Sound
  <2>11. id \in Nat /\ id # 0
    BY <2>9, StateFacts
  <2>12. /\ job' \in Jobs /\ job'.pc = "verify" /\ SameJob /\ job'.sess = id
         /\ job'.stream = s /\ job'.finishedBefore = job.finishedBefore
    BY <2>8, <2>10, <2>11, UploadedFacts
  <2>13. UNCHANGED <<tracker, runs, faults, changes, faulted, streak>>
    BY <1>3 DEF bounds
  <2>14. GensGrow /\ Len(gens') = Len(gens) + 1 /\ gens'[Len(gens) + 1] = g
    BY <1>3, <2>2, GensAppended
  <2>15. live' \in 0..Len(gens') /\ job'.kind = job.kind /\ job'.key = job.key
    BY <1>3, <2>12, <2>14, StateFacts DEF SameJob
  <2>16. /\ t.gen <= Len(gens') /\ Placed(t.bytes) /\ t.gen # 0
         /\ t.total = Len(t.bytes) /\ gens'[t.gen] = [bytes |-> t.bytes, key |-> t.key]
    BY <2>1, <2>2, <2>3, <2>5, <2>14, StateFacts
  <2>17. /\ t.total # Unknown => Len(t.bytes) <= t.total
         /\ t.total = Unknown => job.kind = "stream"
         /\ t.state = "open" /\ job.kind = "stream" => t.total = Unknown
    BY <2>1, <2>3 DEF Unknown
  <2>18. /\ StoreInv' /\ TrackerInv'
         /\ Len(sessions') = Len(sessions) + 1 /\ sessions'[Len(sessions) + 1] = t
    BY <1>1, <1>3, <2>3, <2>13, <2>14, <2>15, <2>16, <2>17, SessionsAppended
  <2>19. Session' = t
    BY <2>9, <2>12, <2>18 DEF Session
  <2>20. tracker' = None
    BY <2>4, <2>13, NoTracker
  <2>21. JobInv'
    <3>1. job.retries <= NumRetries
      BY DEF Inv, JobInv
    <3>2. job'.sess <= Len(sessions')
      BY <2>9, <2>11, <2>12, <2>18
    <3>. QED  BY <2>3, <2>4, <2>11, <2>12, <2>19, <2>20, <3>1, <3>2, Places DEF SameJob, JobInv
  <2>22. StreamInv'
    BY <2>3, <2>4, <2>5, <2>7, <2>10, <2>12, <2>19, Places DEF SameJob, StreamInv
  <2>23. LiveInv'
    BY <1>1, <1>3, <2>3, <2>12, <2>19, Running, Places DEF SameJob, LiveInv
  <2>24. RetryInv'
    <3>1. Healing'
      BY <2>3, <2>7, <2>12, <2>19, Places DEF Healing
    <3>. QED  BY <3>1, <2>12, <2>13 DEF Inv, RetryInv
  <2>25. Counters'
    BY <2>13 DEF Inv, Counters
  <2>. QED  BY <2>18, <2>21, <2>22, <2>23, <2>24, <2>25 DEF Inv
<1>. QED  BY <1>2, <1>3, Zenon DEF SimpleUpload

LEMMA SimpleLostKeeps == ASSUME Inv, SimpleLost PROVE Inv'
<1> DEFINE g == [bytes |-> job.stream.src, key |-> job.key]
<1>1. /\ job.pc = "simple" /\ gens' = Append(gens, g) /\ live' = Len(gens) + 1
      /\ UNCHANGED <<file, sessions>>
  BY DEF SimpleLost
<1>2. g \in GenRecords
  BY StateFacts DEF GenRecords
<1> HIDE DEF g
<1>3. GensGrow /\ Len(gens') = Len(gens) + 1
  BY <1>1, <1>2, GensAppended
<1>4. ASSUME job'.kind = job.kind PROVE StoreInv'
  <2>1. ASSUME NEW id \in 1..Len(sessions) PROVE SessionOK(sessions[id])'
    <3>1. SessionOK(sessions[id])
      BY <2>1 DEF Inv, StoreInv
    <3>2. sessions[id] \in SessionRecords
      BY <2>1, ElementOfSeq DEF Inv, StoreInv
    <3>3. sessions[id].gen \in Nat
      BY <3>2 DEF SessionRecords
    <3>. QED  BY <1>1, <1>3, <1>4, <3>1, <3>3, StateFacts DEF SessionOK, GensGrow
  <2>. QED  BY <1>1, <1>3, <1>4, <2>1, StateFacts DEF Inv, StoreInv, GensGrow
<1>5. CASE Fault /\ UNCHANGED <<tracker, job>>
  <2>1. /\ UNCHANGED <<tracker, job, runs, changes, streak>>
        /\ faults' = faults + 1 /\ faulted' = TRUE
    BY <1>5 DEF Fault
  <2>2. StoreInv' /\ TrackerInv'
    BY <1>1, <1>4, <2>1, TrackerFrame DEF Inv
  <2>3. JobInv' /\ StreamInv'
    BY <1>1, <2>1 DEF Inv, JobInv, StreamInv, Session, Resumable
  <2>4. LiveInv'
    <3>1. "simple" \notin InSession
      BY DEF Tracking, InSession
    <3>. QED  BY <1>1, <2>1, <3>1, Running DEF Inv, LiveInv
  <2>5. RetryInv'
    BY <2>1 DEF Inv, RetryInv
  <2>6. Counters'
    BY <2>1 DEF Inv, Counters
  <2>. QED  BY <2>2, <2>3, <2>4, <2>5, <2>6 DEF Inv
<1>6. CASE Fail("error", TRUE)
  <2>1. tracker' = tracker /\ Exit("error", TRUE) /\ "error" \in Exits
    BY <1>6 DEF Fail, Exits
  <2>2. job'.kind = job.kind
    BY <2>1, ExitJob
  <2>3. StoreInv' /\ TrackerInv' /\ Len(sessions) <= Len(sessions')
    BY <1>1, <1>4, <2>1, <2>2, TrackerFrame, StateFacts DEF Inv
  <2>. QED  BY <1>1, <2>1, <2>3, ExitInOrder
<1>. QED  BY <1>5, <1>6 DEF SimpleLost


-----------------------------------------------------------------------------
(* Requests that send bytes.                                               *)

LEMMA WantedOfFile ==
  ASSUME job.kind = "file", job.kind # "chunked", job.kind # "stream"
  PROVE  Wanted = Session.total - Offset
BY Zenon DEF Wanted

LEMMA WantedOfChunks ==
  ASSUME job.kind = "chunked", job.kind # "file", job.kind # "stream"
  PROVE  Wanted = Smaller(Chunk, Session.total - Offset)
BY Zenon DEF Wanted

LEMMA WantedOfPipe ==
  ASSUME job.kind = "stream", job.kind # "file", job.kind # "chunked"
  PROVE  Wanted = Chunk
BY Zenon DEF Wanted

\* What a request wants to send.
LEMMA WantedFacts ==
  ASSUME Inv, Sending
  PROVE  /\ Aligned(job.stream) /\ Offset = Len(Session.bytes) /\ Offset \in Nat
         /\ Placed(job.stream.src) /\ Placed(Session.bytes)
         /\ Wanted \in Nat
         /\ job.kind # "stream" => Session.total \in Nat /\ Offset + Wanted <= Session.total
         /\ job.kind = "stream" =>
               Session.total = Unknown /\ Offset <= Len(job.stream.src)
         /\ job.stream.max # 0 => Wanted <= job.stream.max
<1>1. /\ job.pc = "send" /\ Session.state = "open" /\ job.kind \in {"file", "chunked", "stream"}
  BY StateFacts DEF Sending, Inv, JobInv
<1>2. /\ Aligned(job.stream) /\ Offset = Len(Session.bytes) /\ Placed(job.stream.src)
      /\ job.stream.max = IF job.kind = "stream" THEN Chunk ELSE 0
  BY <1>1, Places DEF Inv, StreamInv, Offset
<1>3. /\ Session \in SessionRecords /\ SessionOK(Session) /\ Len(Session.bytes) \in Nat
  BY <1>1, SessionFacts, Places
<1>4. /\ Session.total \in Nat \union {Unknown} /\ Placed(Session.bytes)
      /\ Session.total # Unknown => Len(Session.bytes) <= Session.total
      /\ Session.total = Unknown => job.kind = "stream"
      /\ job.kind = "stream" => Session.total = Unknown
  BY <1>1, <1>3 DEF SessionOK, SessionRecords
<1>5. Chunk \in Nat \ {0}
  BY BoundsAssumption
<1>6. CASE job.kind = "file"
  BY <1>2, <1>3, <1>4, <1>6, WantedOfFile
<1>7. CASE job.kind = "chunked"
  BY <1>2, <1>3, <1>4, <1>5, <1>7, WantedOfChunks DEF Smaller
<1>8. CASE job.kind = "stream"
  <2>1. Wanted = Chunk /\ job.stream.max = Chunk
    BY <1>2, <1>8, WantedOfPipe
  <2>2. job.stream.pos \in Nat /\ job.stream.end \in Nat /\ Len(job.stream.src) \in Nat
    BY StateFacts DEF Streams
  <2>3. job.stream.pos <= job.stream.end /\ job.stream.end <= Len(job.stream.src)
    BY <1>2, <1>5, <2>1 DEF Aligned, Sound, Buffered
  <2>4. Offset <= Len(job.stream.src)
    BY <2>2, <2>3 DEF Offset
  <2>. QED  BY <1>2, <1>3, <1>4, <1>5, <1>8, <2>1, <2>4
<1>. QED  BY <1>1, <1>6, <1>7, <1>8

\* What a request can send.
LEMMA DataFacts ==
  ASSUME Inv, Sending
  PROVE  /\ Data \in Seq(Byte) /\ Len(Data) \in Nat /\ Len(Data) <= Wanted
         /\ Short => Offset + Len(Data) >= Len(job.stream.src)
         /\ Offset <= Len(job.stream.src) => Offset + Len(Data) <= Len(job.stream.src)
         /\ Offset > Len(job.stream.src) => Len(Data) = 0
         /\ \A i \in 1..Len(Data) : Data[i] = job.stream.src[Offset + i]
BY StateFacts, WantedFacts, BytesFacts DEF Data, Short, Offset

\* The bytes of the session when the first n are kept.
Kept(n) == SubSeq(Session.bytes, 1, Offset) \o SubSeq(Data, 1, n)

LEMMA KeptFacts ==
  ASSUME Inv, Sending, NEW n \in 0..Len(Data)
  PROVE  LET b == Kept(n) IN
         /\ b \in Seq(Byte) /\ Len(b) = Offset + n /\ Placed(b)
         /\ Session.bytes = FirstBytes(job.stream.src, Offset) =>
               b = FirstBytes(job.stream.src, Offset + n)
<1> DEFINE q == Session.bytes  src == job.stream.src  d == FirstBytes(Data, n)  b == q \o d
<1>1. /\ q \in Seq(Byte) /\ Len(q) = Offset /\ Offset \in Nat /\ Placed(q) /\ Placed(src)
      /\ src \in Seq(Byte) /\ Len(src) \in Nat
  BY WantedFacts, SessionFacts, StateFacts, Places DEF Sending
<1>2. /\ Data \in Seq(Byte) /\ Len(Data) \in Nat /\ n \in Nat /\ n <= Len(Data)
      /\ Offset <= Len(src) => Offset + Len(Data) <= Len(src)
      /\ Offset > Len(src) => Len(Data) = 0
      /\ \A i \in 1..Len(Data) : Data[i] = src[Offset + i]
  BY DataFacts
<1>3. SubSeq(q, 1, Offset) = q
  <2>1. FirstBytes(q, Offset) = q
    BY <1>1, FirstBytesAll
  <2>2. Smaller(Offset, Len(q)) = Offset
    BY <1>1 DEF Smaller
  <2>. QED  BY <2>1, <2>2 DEF FirstBytes
<1>4. SubSeq(Data, 1, n) = d
  <2>1. Smaller(n, Len(Data)) = n
    BY <1>2 DEF Smaller
  <2>. QED  BY <2>1 DEF FirstBytes
<1>5. Kept(n) = b
  BY <1>3, <1>4 DEF Kept
<1>6. d \in Seq(Byte) /\ Len(d) = n /\ \A i \in 1..n : d[i] = Data[i]
  <2>1. Smaller(n, Len(Data)) = n
    BY <1>2 DEF Smaller
  <2>. QED  BY <1>2, <2>1, FirstBytesFacts
<1> HIDE DEF q, src, d
<1>7. /\ b \in Seq(Byte) /\ Len(b) = Len(q) + Len(d)
      /\ \A i \in 1..Len(q) + Len(d) : b[i] = IF i <= Len(q) THEN q[i] ELSE d[i - Len(q)]
  BY <1>1, <1>6, ConcatProperties, Zenon
<1> HIDE DEF b
<1>8. Len(b) = Offset + n
  BY <1>1, <1>6, <1>7
<1>9. ASSUME NEW i \in 1..Offset + n
      PROVE  IF i <= Offset THEN b[i] = q[i]
             ELSE b[i] = src[i] /\ i \in 1..Len(src)
  <2>1. i \in 1..Len(q) + Len(d)
    BY <1>1, <1>6
  <2>2. b[i] = IF i <= Len(q) THEN q[i] ELSE d[i - Len(q)]
    BY <2>1, <1>7
  <2>3. CASE i <= Offset
    BY <2>2, <2>3, <1>1
  <2>4. CASE ~(i <= Offset)
    <3>1. i - Offset \in 1..n /\ i - Offset \in 1..Len(Data) /\ Offset + (i - Offset) = i
      BY <2>4, <1>1, <1>2
    <3>2. b[i] = Data[i - Offset]
      BY <2>2, <2>4, <3>1, <1>1, <1>6
    <3>3. b[i] = src[i]
      BY <3>1, <3>2, <1>2
    <3>4. i <= Len(src)
      BY <3>1, <1>1, <1>2
    <3>. QED  BY <2>4, <3>3, <3>4, <1>1, <1>2
  <2>. QED  BY <2>3, <2>4
<1>10. Placed(b)
  <2>1. ASSUME NEW i \in 1..Len(b) PROVE b[i][2] = i
    <3>1. i \in 1..Offset + n
      BY <1>8
    <3>2. CASE i <= Offset
      <4>1. i \in 1..Len(q) /\ b[i] = q[i]
        BY <3>1, <3>2, <1>1, <1>9
      <4>. QED  BY <4>1, <1>1 DEF Placed
    <3>3. CASE ~(i <= Offset)
      BY <3>1, <3>3, <1>1, <1>9 DEF Placed
    <3>. QED  BY <3>2, <3>3
  <2>. QED  BY <2>1 DEF Placed
<1>11. ASSUME q = FirstBytes(src, Offset) PROVE b = FirstBytes(src, Offset + n)
  <2> DEFINE f == FirstBytes(src, Offset)  w == FirstBytes(src, Offset + n)
  <2>1. Len(f) = Smaller(Offset, Len(src)) /\ \A i \in 1..Smaller(Offset, Len(src)) : f[i] = src[i]
    BY <1>1, FirstBytesFacts
  <2>2. Offset <= Len(src) /\ Smaller(Offset, Len(src)) = Offset
    BY <2>1, <1>11, <1>1 DEF Smaller
  <2>3. Offset + n \in Nat /\ Smaller(Offset + n, Len(src)) = Offset + n
    BY <2>2, <1>1, <1>2 DEF Smaller
  <2>4. /\ w \in Seq(Byte) /\ Len(w) = Offset + n
        /\ \A i \in 1..Offset + n : w[i] = src[i]
    <3>1. /\ w \in Seq(Byte) /\ Len(w) = Smaller(Offset + n, Len(src))
          /\ \A i \in 1..Smaller(Offset + n, Len(src)) : w[i] = src[i]
      BY <2>3, <1>1, FirstBytesFacts, Zenon
    <3>. QED  BY <3>1, <2>3, Zenon
  <2>5. \A i \in 1..Offset : q[i] = src[i]
    BY <2>1, <2>2, <1>11
  <2> HIDE DEF f, w
  <2>6. ASSUME NEW i \in 1..Len(b) PROVE b[i] = w[i]
    <3>1. i \in 1..Offset + n /\ w[i] = src[i]
      BY <1>8, <2>4
    <3>2. CASE i <= Offset
      <4>1. i \in 1..Offset
        BY <3>1, <3>2, <1>1
      <4>. QED  BY <3>1, <3>2, <4>1, <1>9, <2>5
    <3>3. CASE ~(i <= Offset)
      BY <3>1, <3>3, <1>9
    <3>. QED  BY <3>2, <3>3
  <2>7. b = w
    BY <1>7, <1>8, <2>4, <2>6, SeqEqual
  <2>. QED  BY <2>7 DEF w
<1>. QED  BY <1>5, <1>7, <1>8, <1>10, <1>11 DEF b, q, src, d

\* The session after the request, and whether the request finishes it.
Extended(s, bytes, done, gen) ==
    [s EXCEPT !.bytes = bytes,
              !.total = IF done THEN Len(bytes) ELSE @,
              !.state = IF done THEN "done" ELSE @,
              !.gen = IF done THEN gen ELSE @]

Finishes(n) == Last /\ n = Len(Data) /\ (Short => job.kind = "stream")

LEMMA ExtendedType ==
  ASSUME NEW s \in SessionRecords, NEW bytes \in Seq(Byte), NEW done, NEW gen \in Nat,
         Len(bytes) \in Nat
  PROVE  Extended(s, bytes, done, gen) \in SessionRecords
<1>1. CASE done
  BY <1>1 DEF SessionRecords, Extended
<1>2. CASE ~done
  BY <1>2 DEF SessionRecords, Extended
<1>. QED  BY <1>1, <1>2

LEMMA ExtendedFacts ==
  ASSUME NEW s \in SessionRecords, NEW bytes, NEW done, NEW gen,
         NEW t, t = Extended(s, bytes, done, gen)
  PROVE  /\ t.bytes = bytes /\ t.key = s.key
         /\ t.total = IF done THEN Len(bytes) ELSE s.total
         /\ t.state = IF done THEN "done" ELSE s.state
         /\ t.gen = IF done THEN gen ELSE s.gen
BY DEF SessionRecords, Extended

\* What Keep does, by name.
LEMMA KeepIs ==
  ASSUME NEW n, Keep(n)
  PROVE  /\ sessions' = [sessions EXCEPT ![job.sess] =
                            Extended(Session, Kept(n), Finishes(n), Len(gens) + 1)]
         /\ IF Finishes(n)
            THEN /\ gens' = Append(gens, [bytes |-> Kept(n), key |-> Session.key])
                 /\ live' = Len(gens) + 1
            ELSE UNCHANGED <<gens, live>>
<1>1. sessions' = [sessions EXCEPT ![job.sess] =
                      [Session EXCEPT !.bytes = Kept(n),
                                      !.total = IF Finishes(n) THEN Len(Kept(n)) ELSE @,
                                      !.state = IF Finishes(n) THEN "done" ELSE @,
                                      !.gen = IF Finishes(n) THEN Len(gens) + 1 ELSE @]]
  BY Zenon DEF Keep, Kept, Finishes
<1>2. IF Finishes(n)
      THEN /\ gens' = Append(gens, [bytes |-> Kept(n), key |-> Session.key])
           /\ live' = Len(gens) + 1
      ELSE UNCHANGED <<gens, live>>
  BY Zenon DEF Keep, Kept, Finishes
<1>. QED  BY <1>1, <1>2, Zenon DEF Extended

\* What a request finishes is complete.
LEMMA FinishesFacts ==
  ASSUME Inv, Sending, NEW n \in 0..Len(Data)
  PROVE  /\ Finishes(n) /\ job.kind # "stream" => Offset + n = Session.total
         /\ Finishes(n) /\ job.kind = "stream" => Offset + n = Len(job.stream.src)
         /\ job.kind # "stream" => Offset + n <= Session.total
<1>1. /\ Wanted \in Nat /\ Offset \in Nat /\ Len(Data) \in Nat /\ Len(Data) <= Wanted
      /\ Len(job.stream.src) \in Nat
      /\ job.kind # "stream" => Session.total \in Nat /\ Offset + Wanted <= Session.total
      /\ job.kind = "stream" => Offset <= Len(job.stream.src)
      /\ Short => Offset + Len(Data) >= Len(job.stream.src)
      /\ Offset <= Len(job.stream.src) => Offset + Len(Data) <= Len(job.stream.src)
  BY WantedFacts, DataFacts, StateFacts
<1>2. CASE job.kind = "stream"
  <2>1. Finishes(n) => Short /\ n = Len(Data)
    BY <1>2 DEF Finishes, Last
  <2>. QED  BY <1>1, <1>2, <2>1
<1>3. CASE job.kind # "stream"
  <2>1. Finishes(n) => Offset + Wanted = Session.total /\ n = Len(Data) /\ ~Short
    BY <1>3 DEF Finishes, Last
  <2>2. ~Short => Len(Data) = Wanted
    BY <1>1 DEF Short
  <2>. QED  BY <1>1, <1>3, <2>1, <2>2
<1>. QED  BY <1>2, <1>3

LEMMA KeepFacts ==
  ASSUME Inv, Sending, NEW n \in 0..Len(Data), Keep(n),
         job'.kind = job.kind, UNCHANGED <<file, tracker>>
  PROVE  LET t == sessions'[job.sess] IN
         /\ StoreInv' /\ TrackerInv' /\ Len(sessions') = Len(sessions)
         /\ t.bytes = Kept(n) /\ t.key = job.key
         /\ t.total = IF Finishes(n) THEN Offset + n ELSE Session.total
         /\ t.state = IF Finishes(n) THEN "done" ELSE "open"
         /\ Finishes(n) => live' = t.gen
<1> DEFINE s == Extended(Session, Kept(n), Finishes(n), Len(gens) + 1)
           g == [bytes |-> Kept(n), key |-> Session.key]
<1>1. /\ job.sess \in 1..Len(sessions) /\ Session \in SessionRecords /\ SessionOK(Session)
      /\ Session.key = job.key /\ Session.state = "open" /\ job.key \in Keys
      /\ Len(sessions) \in Nat /\ Len(gens) \in Nat
  BY SessionFacts, StateFacts, Places DEF Sending
<1>2. /\ Kept(n) \in Seq(Byte) /\ Len(Kept(n)) = Offset + n /\ Placed(Kept(n))
      /\ Offset \in Nat /\ Offset + n \in Nat
  BY KeptFacts, WantedFacts
<1>3. s \in SessionRecords
  BY <1>1, <1>2, ExtendedType
<1>4. /\ s.bytes = Kept(n) /\ s.key = job.key
      /\ s.total = IF Finishes(n) THEN Offset + n ELSE Session.total
      /\ s.state = IF Finishes(n) THEN "done" ELSE "open"
      /\ s.gen = IF Finishes(n) THEN Len(gens) + 1 ELSE Session.gen
  BY <1>1, <1>2, ExtendedFacts
<1>5. sessions' = [sessions EXCEPT ![job.sess] = s]
  BY KeepIs, Zenon DEF Session
<1>6. /\ g \in GenRecords /\ g = [bytes |-> s.bytes, key |-> s.key]
  BY <1>1, <1>2, <1>4 DEF GenRecords
<1>7. IF Finishes(n) THEN gens' = Append(gens, g) /\ live' = Len(gens) + 1
      ELSE UNCHANGED <<gens, live>>
  BY KeepIs
<1> HIDE DEF s, g
<1>8. /\ sessions' \in Seq(SessionRecords) /\ Len(sessions') = Len(sessions)
      /\ \A i \in 1..Len(sessions) : sessions'[i] = IF i = job.sess THEN s ELSE sessions[i]
  <2>1. sessions \in Seq(SessionRecords)
    BY DEF Inv, StoreInv
  <2>. QED  BY <1>1, <1>3, <1>5, <2>1, ExceptSeq
<1>9. /\ GensGrow /\ live' \in 0..Len(gens')
      /\ Finishes(n) => /\ Len(gens') = Len(gens) + 1 /\ gens'[Len(gens) + 1] = g
                        /\ live' = Len(gens) + 1
  <2>1. CASE Finishes(n)
    <3>1. GensGrow /\ Len(gens') = Len(gens) + 1 /\ gens'[Len(gens) + 1] = g
      BY <1>6, <1>7, <2>1, GensAppended
    <3>. QED  BY <1>1, <1>7, <2>1, <3>1
  <2>2. CASE ~Finishes(n)
    BY <1>1, <1>7, <2>2 DEF GensGrow, Inv, StoreInv
  <2>. QED  BY <2>1, <2>2
<1>10. ASSUME NEW i \in 1..Len(sessions), i = job.sess PROVE SessionOK(sessions[i])'
  <2>1. sessions'[i] = s
    BY <1>1, <1>8, <1>10
  <2>2. s.gen <= Len(gens') /\ Placed(s.bytes)
    <3>1. Session.gen \in Nat /\ Session.gen <= Len(gens)
      BY <1>1 DEF SessionRecords, SessionOK
    <3>2. Len(gens') \in Nat /\ Len(gens) <= Len(gens')
      BY <1>9 DEF GensGrow
    <3>. QED  BY <3>1, <3>2, <1>1, <1>2, <1>4, <1>9
  <2>3. s.state = "done" => /\ s.total = Len(s.bytes) /\ s.gen # 0
                            /\ gens'[s.gen] = [bytes |-> s.bytes, key |-> s.key]
    BY <1>1, <1>2, <1>4, <1>6, <1>9
  <2>4. /\ s.total # Unknown => Len(s.bytes) <= s.total
        /\ s.total = Unknown => job.kind = "stream"
        /\ s.state = "open" /\ job.kind = "stream" => s.total = Unknown
    BY <1>1, <1>2, <1>4, FinishesFacts, WantedFacts DEF Unknown
  <2>. QED  BY <2>1, <2>2, <2>3, <2>4 DEF SessionOK
<1>11. ASSUME NEW i \in 1..Len(sessions), i # job.sess PROVE SessionOK(sessions[i])'
  <2>1. sessions'[i] = sessions[i] /\ SessionOK(sessions[i])
    BY <1>8, <1>11 DEF Inv, StoreInv
  <2>2. sessions[i] \in SessionRecords
    BY ElementOfSeq DEF Inv, StoreInv
  <2>3. sessions[i].gen \in Nat
    BY <2>2 DEF SessionRecords
  <2>. QED  BY <2>1, <2>3, <1>1, <1>9 DEF SessionOK, GensGrow
<1>12. StoreInv'
  <2>1. \A i \in 1..Len(sessions') : SessionOK(sessions[i])'
    BY <1>8, <1>10, <1>11
  <2>. QED  BY <2>1, <1>8, <1>9 DEF StoreInv, GensGrow, Inv
<1>13. TrackerInv'
  <2>1. ASSUME NEW i \in 1..Len(sessions) PROVE sessions'[i].key = sessions[i].key
    BY <1>1, <1>4, <1>8 DEF Session
  <2>. QED  BY <2>1, <1>8 DEF Inv, TrackerInv, Resumable, Whole, None, Torn
<1>14. sessions'[job.sess] = s
  BY <1>1, <1>8
<1>. QED  BY <1>4, <1>8, <1>9, <1>12, <1>13, <1>14

\* The stream after a request.
LEMMA SentFacts ==
  ASSUME Inv, Sending
  PROVE  /\ Aligned(Sent) /\ Sent.src = job.stream.src /\ Sent.max = job.stream.max
         /\ Sent.prev = Offset /\ Sent.pos = Offset + Len(Data)
         /\ Sent \in Streams /\ Sound(Sent) /\ Sent.cur = Sent.pos
<1>1. /\ Aligned(job.stream) /\ Wanted \in Nat
      /\ job.stream.max # 0 => Wanted <= job.stream.max
  BY WantedFacts
<1>2. /\ Aligned(Sent) /\ Sent.src = job.stream.src /\ Sent.max = job.stream.max
      /\ Sent.prev = job.stream.pos
      /\ Sent.pos = job.stream.pos + Len(Bytes(job.stream, job.stream.pos, Wanted))
  BY <1>1, HashReadSound DEF Sent
<1>. QED  BY <1>2 DEF Offset, Data, Aligned, Sound

\* What the run keeps while it sends.
LEMMA SendingFacts ==
  ASSUME Inv, Sending
  PROVE  /\ job.pc = "send" /\ job.exit = "none" /\ job.sess # 0 /\ job.retries <= NumRetries
         /\ job.sess <= Len(sessions) /\ job.kind # "small" /\ Placed(job.stream.src)
         /\ job.stream.max = IF job.kind = "stream" THEN Chunk ELSE 0
         /\ Sound(job.stream)
<1>1. job.pc = "send"
  BY DEF Sending
<1>2. job.exit = "none"
  BY <1>1, Running
<1>3. job.sess # 0 /\ job.retries <= NumRetries /\ job.sess <= Len(sessions) /\ job.kind # "small"
  BY <1>1, Places DEF Inv, JobInv
<1>. QED  BY <1>1, <1>2, <1>3 DEF Inv, StreamInv

LEMMA SendKeeps == ASSUME Inv, Send PROVE Inv'
<1> DEFINE n == Len(Data)
           pc == IF Last THEN "complete" ELSE "send"
           t == sessions'[job.sess]
<1>1. /\ Sending /\ Keep(n) /\ (Short => job.kind = "stream")
      /\ UNCHANGED <<file, tracker, runs, faults, changes, faulted, streak>>
      /\ job' = [job EXCEPT !.stream = Sent, !.pc = pc]
  BY DEF Send, bounds
<1>2. n \in 0..Len(Data) /\ n = Len(Data) /\ Offset \in Nat
  BY <1>1, DataFacts, WantedFacts
<1>3. (pc = "complete" <=> Last) /\ pc \in {"complete", "send"} /\ pc \in Pcs
  BY Places
<1>4. Last <=> Finishes(n)
  BY <1>1 DEF Finishes
<1> HIDE DEF n, pc
<1>5. /\ Aligned(Sent) /\ Sent.src = job.stream.src /\ Sent.max = job.stream.max
      /\ Sent.pos = Offset + n /\ Sent \in Streams /\ Sound(Sent)
  BY <1>1, <1>2, SentFacts
<1>6. /\ job' \in Jobs /\ job'.pc = pc /\ SameJob /\ job'.sess = job.sess
      /\ job'.stream = Sent /\ job'.finishedBefore = job.finishedBefore
  BY <1>1, <1>3, <1>5, StreamMoveFacts
<1>7. job'.kind = job.kind
  BY <1>6 DEF SameJob
<1>8. /\ StoreInv' /\ TrackerInv' /\ Len(sessions') = Len(sessions)
      /\ t.bytes = Kept(n) /\ t.key = job.key
      /\ t.total = IF Finishes(n) THEN Offset + n ELSE Session.total
      /\ t.state = IF Finishes(n) THEN "done" ELSE "open"
      /\ Finishes(n) => live' = t.gen
  BY <1>1, <1>2, <1>7, KeepFacts
<1>9. Session' = t
  BY <1>6 DEF Session
<1> HIDE DEF t
<1>10. Len(t.bytes) = Offset + n
  BY <1>1, <1>2, <1>8, KeptFacts
<1>11. JobInv'
  <2>1. job.sess # 0 /\ job.retries <= NumRetries /\ job.sess <= Len(sessions) /\ job.kind # "small"
    BY <1>1, SendingFacts
  <2>2. Resumable' <=> Resumable
    BY <1>6 DEF Resumable, SameJob
  <2>. QED  BY <1>3, <1>4, <1>6, <1>8, <1>9, <2>1, <2>2, Places DEF SameJob, JobInv
<1>12. StreamInv'
  <2>1. /\ Placed(job.stream.src)
        /\ job.stream.max = IF job.kind = "stream" THEN Chunk ELSE 0
    BY <1>1, SendingFacts
  <2>2. Finishes(n) /\ job.kind = "stream" => Offset + n = Len(job.stream.src)
    BY <1>1, <1>2, FinishesFacts
  <2>. QED  BY <1>3, <1>5, <1>6, <1>8, <1>9, <1>10, <2>1, <2>2, Places DEF SameJob, StreamInv
<1>13. LiveInv'
  <2>1. job.exit = "none"
    BY <1>1, SendingFacts
  <2>. QED  BY <1>6, <1>8, <1>9, <2>1 DEF SameJob, LiveInv
<1>14. RetryInv'
  <2>1. ASSUME Healing PROVE Healing'
    <3>1. /\ Session.bytes = FirstBytes(job.stream.src, Len(Session.bytes))
          /\ Session.total \in {Unknown, Len(job.stream.src)}
      BY <1>1, <2>1 DEF Sending, Healing
    <3>2. t.bytes = FirstBytes(job.stream.src, Offset + n)
      BY <1>1, <1>2, <1>8, <3>1, KeptFacts, WantedFacts
    <3>3. ASSUME Finishes(n) PROVE t.bytes = job.stream.src
      <4>1. Session.total # Unknown => Session.total = Len(job.stream.src)
        BY <3>1
      <4>2. Offset + n = Len(job.stream.src)
        BY <1>1, <1>2, <3>3, <4>1, FinishesFacts, WantedFacts, StateFacts DEF Unknown
      <4>3. Offset + n \in Nat /\ Len(job.stream.src) <= Offset + n
        BY <4>2, StateFacts
      <4>. QED  BY <3>2, <4>3, StateFacts, FirstBytesAll
    <3>4. CASE Finishes(n)
      BY <1>3, <1>4, <1>5, <1>6, <1>9, <3>3, <3>4, Places DEF Healing
    <3>5. CASE ~Finishes(n)
      BY <1>3, <1>4, <1>5, <1>6, <1>8, <1>9, <1>10, <3>1, <3>2, <3>5, Places DEF Healing
    <3>. QED  BY <3>4, <3>5
  <2>. QED  BY <1>1, <1>3, <1>6, <2>1, SendingFacts DEF Inv, RetryInv
<1>15. Counters'
  BY <1>1 DEF Inv, Counters
<1>. QED  BY <1>8, <1>11, <1>12, <1>13, <1>14, <1>15 DEF Inv

LEMMA SendLostKeeps == ASSUME Inv, SendLost PROVE Inv'
<1>1. /\ Sending /\ UNCHANGED <<file, tracker, runs, faults, changes, streak>>
      /\ job' = [job EXCEPT !.stream = Sent, !.pc = "refresh"] /\ faulted' = TRUE
  BY DEF SendLost
<1>2. PICK n \in 0..Len(Data) : Keep(n)
  BY DEF SendLost
<1> DEFINE t == sessions'[job.sess]
<1>3. /\ Sent.src = job.stream.src /\ Sent.max = job.stream.max /\ Sent.prev = Offset
      /\ Sent.cur = Offset + Len(Data) /\ Sent \in Streams /\ Sound(Sent)
  BY <1>1, SentFacts
<1>4. /\ job' \in Jobs /\ job'.pc = "refresh" /\ SameJob /\ job'.sess = job.sess
      /\ job'.stream = Sent /\ job'.finishedBefore = job.finishedBefore
  BY <1>1, <1>3, StreamMoveFacts, Places
<1>5. job'.kind = job.kind
  BY <1>4 DEF SameJob
<1>6. /\ StoreInv' /\ TrackerInv' /\ Len(sessions') = Len(sessions)
      /\ t.bytes = Kept(n) /\ t.key = job.key
      /\ t.state = IF Finishes(n) THEN "done" ELSE "open"
      /\ Finishes(n) => live' = t.gen
  BY <1>1, <1>2, <1>5, KeepFacts
<1>7. Session' = t
  BY <1>4 DEF Session
<1> HIDE DEF t
<1>8. Len(t.bytes) = Offset + n
  BY <1>1, <1>6, KeptFacts
<1>9. JobInv'
  <2>1. job.sess # 0 /\ job.retries <= NumRetries /\ job.sess <= Len(sessions) /\ job.kind # "small"
    BY <1>1, SendingFacts
  <2>. QED  BY <1>1, <1>4, <1>6, <1>7, <2>1, Places DEF SameJob, JobInv
<1>10. StreamInv'
  <2>1. /\ Placed(job.stream.src)
        /\ job.stream.max = IF job.kind = "stream" THEN Chunk ELSE 0
    BY <1>1, SendingFacts
  <2>2. Finishes(n) /\ job.kind = "stream" => Offset + n = Len(job.stream.src)
    BY <1>1, FinishesFacts
  <2>3. Offset <= Offset + n /\ Offset + n <= Offset + Len(Data)
    BY <1>1, WantedFacts, DataFacts
  <2>. QED  BY <1>3, <1>4, <1>6, <1>7, <1>8, <2>1, <2>2, <2>3, Places DEF SameJob, StreamInv
<1>11. LiveInv'
  <2>1. job.exit = "none"
    BY <1>1, SendingFacts
  <2>. QED  BY <1>4, <1>6, <1>7, <2>1 DEF SameJob, LiveInv
<1>12. RetryInv'
  BY <1>1, <1>4 DEF Inv, RetryInv
<1>13. Counters'
  <2>1. runs' \in Nat /\ faults' \in Nat /\ changes' \in Nat
    BY <1>1 DEF Inv, Counters
  <2>2. faulted' \in BOOLEAN
    BY <1>1
  <2>. QED  BY <2>1, <2>2 DEF Counters
<1>. QED  BY <1>6, <1>9, <1>10, <1>11, <1>12, <1>13 DEF Inv

LEMMA SendPausedKeeps == ASSUME Inv, SendPaused PROVE Inv'
<1>1. /\ Sending /\ Exit("error", TRUE) /\ UNCHANGED <<file, tracker>>
  BY DEF SendPaused, Fail
<1>2. PICK n \in 0..Len(Data) - 1 : Keep(n)
  BY DEF SendPaused
<1>3. n \in 0..Len(Data)
  BY <1>1, DataFacts
<1>4. job'.kind = job.kind /\ "error" \in Exits /\ job.pc # "idle"
  BY <1>1, ExitJob DEF Exits, Sending
<1>5. StoreInv' /\ TrackerInv' /\ Len(sessions') = Len(sessions)
  BY <1>1, <1>2, <1>3, <1>4, KeepFacts
<1>6. Len(sessions) <= Len(sessions')
  BY <1>5, StateFacts
<1>. QED  BY <1>1, <1>4, <1>5, <1>6, ExitInOrder

LEMMA SendShortKeeps == ASSUME Inv, SendShort PROVE Inv'
<1>1. /\ Sending /\ Short /\ job.kind # "stream" /\ Goto("abort")
      /\ UNCHANGED <<file, tracker, runs, faults, changes, faulted, streak>>
  BY DEF SendShort, bounds
<1>2. PICK n \in 0..Len(Data) : Keep(n)
  BY DEF SendShort
<1>3. /\ job' \in Jobs /\ job'.pc = "abort" /\ SameJob /\ job'.sess = job.sess
      /\ job'.stream = job.stream /\ job'.finishedBefore = job.finishedBefore
  BY <1>1, GotoFacts, Places
<1>4. job'.kind = job.kind
  BY <1>3 DEF SameJob
<1>5. StoreInv' /\ TrackerInv' /\ Len(sessions') = Len(sessions)
  BY <1>1, <1>2, <1>4, KeepFacts
<1>6. JobInv'
  <2>1. job.sess # 0 /\ job.retries <= NumRetries /\ job.sess <= Len(sessions) /\ job.kind # "small"
    BY <1>1, SendingFacts
  <2>. QED  BY <1>3, <1>5, <2>1, Places DEF SameJob, JobInv
<1>7. StreamInv'
  <2>1. /\ Placed(job.stream.src) /\ Sound(job.stream)
        /\ job.stream.max = IF job.kind = "stream" THEN Chunk ELSE 0
    BY <1>1, SendingFacts
  <2>. QED  BY <1>3, <2>1, Places DEF SameJob, StreamInv
<1>8. LiveInv'
  <2>1. job.exit = "none"
    BY <1>1, SendingFacts
  <2>. QED  BY <1>3, <2>1, Places DEF SameJob, LiveInv
<1>9. RetryInv'
  <2>1. ~Healing
    <3>1. /\ Offset \in Nat /\ Wanted \in Nat /\ Offset + Wanted <= Session.total
          /\ Session.total \in Nat /\ Len(Data) \in Nat /\ Len(Data) < Wanted
          /\ Offset + Len(Data) >= Len(job.stream.src) /\ Len(job.stream.src) \in Nat
      BY <1>1, WantedFacts, DataFacts, StateFacts DEF Short
    <3>2. ~(Session.total \in {Unknown, Len(job.stream.src)})
      BY <3>1 DEF Unknown
    <3>. QED  BY <1>1, <3>2 DEF Sending, Healing
  <2>. QED  BY <1>1, <1>3, <2>1 DEF Inv, RetryInv, Sending
<1>10. Counters'
  BY <1>1 DEF Inv, Counters
<1>. QED  BY <1>5, <1>6, <1>7, <1>8, <1>9, <1>10 DEF Inv

-----------------------------------------------------------------------------
(* The invariant holds, and what follows from it.                          *)

LEMMA StutterKeeps == ASSUME Inv, UNCHANGED vars PROVE Inv'
<1>1. UNCHANGED <<file, gens, live, sessions, tracker, job, runs, faults, changes, faulted, streak>>
  BY DEF vars, service, bounds
<1>2. StoreInv'
  BY <1>1, StoreFrame DEF Inv, StoreInv
<1>3. TrackerInv'
  BY <1>1, TrackerFrame DEF Inv
<1>4. JobInv' /\ StreamInv'
  BY <1>1 DEF Inv, JobInv, StreamInv, Session, Resumable
<1>5. LiveInv'
  BY <1>1 DEF Inv, LiveInv, Session
<1>6. RetryInv'
  BY <1>1 DEF Inv, RetryInv, Healing, Session
<1>7. Counters'
  BY <1>1 DEF Inv, Counters
<1>. QED  BY <1>2, <1>3, <1>4, <1>5, <1>6, <1>7 DEF Inv

LEMMA NextInv == ASSUME Inv, [Next]_vars PROVE Inv'
<1>1. CASE Step
  <2>1. CASE ReadTracker \/ SimpleUpload \/ SimpleLost \/ Insert \/ Resume
    BY <2>1, ReadTrackerKeeps, SimpleUploadKeeps, SimpleLostKeeps, InsertKeeps, ResumeKeeps
  <2>2. CASE TruncateTracker \/ WriteTracker
    BY <2>2, TruncateTrackerKeeps, WriteTrackerKeeps
  <2>3. CASE Send \/ SendLost \/ SendPaused
    BY <2>3, SendKeeps, SendLostKeeps, SendPausedKeeps
  <2>4. CASE SendGone \/ SendShort \/ Refused
    BY <2>4, SendGoneKeeps, SendShortKeeps, RefusedKeeps
  <2>5. CASE Refresh \/ RefreshLost \/ RefreshGone
    BY <2>5, RefreshKeeps, RefreshLostKeeps, RefreshGoneKeeps
  <2>6. CASE StartOver \/ Abort \/ Complete \/ Untrack \/ Verify
    BY <2>6, StartOverKeeps, AbortKeeps, CompleteKeeps, UntrackKeeps, VerifyKeeps
  <2>. QED  BY <1>1, <2>1, <2>2, <2>3, <2>4, <2>5, <2>6 DEF Step
<1>2. CASE Begin \/ Crash
  BY <1>2, BeginKeeps, CrashKeeps
<1>3. CASE EditFile \/ ChangeKey \/ OtherWriter \/ Expire
  BY <1>3, EditFileKeeps, ChangeKeyKeeps, OtherWriterKeeps, ExpireKeeps
<1>4. CASE UNCHANGED vars
  BY <1>4, StutterKeeps
<1>. QED  BY <1>1, <1>2, <1>3, <1>4 DEF Next

LEMMA InvHolds == Spec => []Inv
<1>1. Inv /\ [Next]_vars => Inv'
  BY NextInv
<1>. QED  BY <1>1, InitInv, PTL DEF Spec

\* Every variable keeps its type, retries stay within num_retries and the
\* stream never fails.
THEOREM TypesHold == Spec => []TypeOK
<1>1. Inv => TypeOK
  BY InvImpliesTypeOK
<1>. QED  BY <1>1, InvHolds, PTL

\* A run of _UploadFileToObject that succeeds has delivered the source under
\* its key, whatever was resumed, sent twice, edited or replaced.
THEOREM DeliveredIsFileHolds == Spec => []DeliveredIsFile
<1>1. ASSUME Inv PROVE DeliveredIsFile
  <2>1. SUFFICES ASSUME job.exit = "ok", job.stream.src = Content(file)
                 PROVE  /\ gens[Session.gen] = [bytes |-> Content(file), key |-> job.key]
                        /\ \/ live = Session.gen \/ job.finishedBefore
                           \/ gens[live] = Foreign
    BY DEF DeliveredIsFile
  <2>2. /\ job.sess # 0 /\ Session.state = "done"
        /\ Session.bytes = job.stream.src /\ Session.key = job.key
        /\ live = Session.gen \/ job.finishedBefore \/ (live # 0 /\ gens[live] = Foreign)
    BY <1>1, <2>1 DEF Inv, LiveInv
  <2>3. job.sess \in 1..Len(sessions)
    BY <1>1, <2>2, StateFacts DEF Inv, JobInv
  <2>4. SessionOK(Session)
    BY <1>1, <2>3 DEF Inv, StoreInv, Session
  <2>5. gens[Session.gen] = [bytes |-> Session.bytes, key |-> Session.key]
    BY <2>2, <2>4 DEF SessionOK
  <2>. QED  BY <2>1, <2>2, <2>5
<1>2. Inv => DeliveredIsFile
  BY <1>1
<1>. QED  BY <1>2, InvHolds, PTL

\* What a session holds is, byte by byte and each at its own place, of the
\* versions sent to it, and the next request goes on at its end.
THEOREM SessionHoldsPrefixHolds == Spec => []SessionHoldsPrefix
<1>1. ASSUME Inv PROVE SessionHoldsPrefix
  <2>1. ASSUME NEW id \in DOMAIN sessions, NEW i \in DOMAIN sessions[id].bytes
        PROVE  sessions[id].bytes[i] \in {<<v, i>> : v \in Versions}
    <3> DEFINE b == sessions[id].bytes
    <3>1. id \in 1..Len(sessions) /\ sessions \in Seq(SessionRecords)
      BY <1>1, <2>1, StateFacts DEF Inv, StoreInv
    <3>2. sessions[id] \in SessionRecords /\ SessionOK(sessions[id])
      BY <1>1, <3>1, ElementOfSeq DEF Inv, StoreInv
    <3>3. b \in Seq(Byte) /\ Placed(b)
      BY <3>2 DEF SessionRecords, SessionOK
    <3> HIDE DEF b
    <3>4. i \in 1..Len(b)
      BY <2>1, <3>3, LenProperties DEF b
    <3>5. b[i] \in Byte /\ b[i][2] = i
      BY <3>3, <3>4, ElementOfSeq DEF Placed
    <3>6. PICK v \in Versions, j \in Nat : b[i] = <<v, j>>
      BY <3>5 DEF Byte
    <3>7. b[i] = <<v, i>>
      BY <3>5, <3>6
    <3>. QED  BY <3>7 DEF b
  <2>2. job.pc = "send" => Offset = Len(Session.bytes)
    BY <1>1, Places DEF Inv, StreamInv, Offset
  <2>. QED  BY <2>1, <2>2 DEF SessionHoldsPrefix
<1>2. Inv => SessionHoldsPrefix
  BY <1>1
<1>. QED  BY <1>2, InvHolds, PTL

\* The digest of HashingFileUploadWrapper is of the bytes before the
\* position, whatever was read, sought and read again.
THEOREM DigestIsOfPositionHolds == Spec => []DigestIsOfPosition
<1>1. ASSUME Inv PROVE DigestIsOfPosition
  <2> DEFINE s == job.stream
  <2>1. Sound(s)
    BY <1>1 DEF Inv, StreamInv
  <2>2. s.cur \in Nat /\ Len(s.src) \in Nat /\ s.digest = FirstBytes(s.src, s.cur)
    BY <1>1, <2>1, StateFacts DEF Sound, Streams
  <2>3. s.cur <= Len(s.src) => s.digest = SubSeq(s.src, 1, s.cur)
    <3>1. s.cur <= Len(s.src) => Smaller(s.cur, Len(s.src)) = s.cur
      BY <2>2 DEF Smaller
    <3>. QED  BY <2>2, <3>1 DEF FirstBytes
  <2>4. job.pc \in {"send", "verify"} => s.cur = s.pos
    BY <1>1, Places DEF Inv, StreamInv, Aligned
  <2>. QED  BY <2>3, <2>4 DEF DigestIsOfPosition
<1>2. Inv => DigestIsOfPosition
  BY <1>1
<1>. QED  BY <1>2, InvHolds, PTL

\* A pipe is only ever sought within what its buffer holds.
THEOREM PipeStaysSeekableHolds == Spec => []PipeStaysSeekable
<1>1. Inv => PipeStaysSeekable
  BY DEF Inv, LiveInv, PipeStaysSeekable
<1>. QED  BY <1>1, InvHolds, PTL

\* No two runs in a row fail without a fault: an edited file, a stale
\* session or a tracker file never makes every later run fail.
THEOREM RetryHealsHolds == Spec => []RetryHeals
<1>1. Inv => RetryHeals
  BY DEF Inv, RetryInv, RetryHeals
<1>. QED  BY <1>1, InvHolds, PTL
=============================================================================
