---------------------------- MODULE UploadStreams ----------------------------
(***************************************************************************)
(* The two wrappers between a source and the request that uploads it:      *)
(* ResumableStreamingJsonUploadWrapper (resumable_streaming_upload.py),    *)
(* which lets a pipe be sought within the last chunk it delivered, and     *)
(* around it or around a plain file HashingFileUploadWrapper               *)
(* (hashing_helper.py), which keeps the digest of all bytes before the     *)
(* position while the caller reads and seeks.                              *)
(*                                                                         *)
(* A stream is a record: the source's bytes, max (the bytes buffered, or 0 *)
(* for a plain file), the position, the buffered range start..end, and the *)
(* wrapper's digests, each the sequence of the bytes digested, with the    *)
(* positions (marks) they stand for.                                       *)
(***************************************************************************)
EXTENDS Integers, Sequences

Smaller(a, b) == IF a < b THEN a ELSE b
Larger(a, b) == IF a < b THEN b ELSE a

NewStream(src, max) ==
    [src |-> src, max |-> max, pos |-> 0, start |-> 0, end |-> 0,
     prev |-> 0, cur |-> 0, prevDigest |-> <<>>, digest |-> <<>>,
     away |-> FALSE, failed |-> FALSE]

\* The bytes from position p on, n of them or what is left.
Bytes(s, p, n) == SubSeq(s.src, p + 1, Smaller(p + n, Len(s.src)))

\* Mutant: a piece that no longer fits is dropped whole.
TrimWhole(s, end) == IF end - s.start > s.max THEN end ELSE s.start

\* The oldest pieces leave the deque, and the end of the last one returns to
\* it, so that exactly max bytes stay.
Trim(s, end) == Larger(s.start, end - s.max)

\* ResumableStreamingJsonUploadWrapper.read: what the buffer holds after the
\* position, then new bytes of the source, which the buffer keeps.
WrappedRead(s, n) ==
    LET pos == s.pos + Len(Bytes(s, s.pos, n))
        end == Larger(s.end, pos)
    IN  IF s.max = 0 THEN [s EXCEPT !.pos = pos]
        ELSE [s EXCEPT !.pos = pos, !.end = end, !.start = Trim(s, end)]

\* .seek with SEEK_SET: only within the buffer.  A file is sought anywhere.
WrappedSeek(s, p) ==
    IF s.max # 0 /\ (p < s.start \/ p > s.end)
    THEN [s EXCEPT !.failed = TRUE]
    ELSE [s EXCEPT !.pos = p]

\* .seek(0, SEEK_END) reads the rest of a pipe.
WrappedSeekEnd(s) ==
    IF s.max = 0 THEN [s EXCEPT !.pos = Len(s.src)]
    ELSE WrappedRead(s, Len(s.src))

-----------------------------------------------------------------------------

\* HashingFileUploadWrapper.read.
HashRead(s, n) ==
    IF s.away THEN [s EXCEPT !.failed = TRUE]
    ELSE LET data == Bytes(s, s.pos, n) IN
         [WrappedRead(s, n) EXCEPT !.prev = s.cur, !.prevDigest = s.digest,
                                   !.digest = s.digest \o data,
                                   !.cur = s.cur + Len(data)]

\* _CatchUp: the mark advances by n whether or not the source has n bytes.
CatchUp(s, n) ==
    IF s.failed \/ s.pos # s.cur THEN [s EXCEPT !.failed = TRUE]
    ELSE [WrappedRead(s, n) EXCEPT !.prev = s.cur, !.prevDigest = s.digest,
                                   !.digest = s.digest \o Bytes(s, s.pos, n),
                                   !.cur = s.cur + n]

ToPrevious(s) == [s EXCEPT !.cur = s.prev, !.digest = s.prevDigest]
ToStart(s) == [s EXCEPT !.cur = 0, !.digest = <<>>]

\* Mutant: the digest is not moved when the stream is.
SeekNoRehash(s, p) == WrappedSeek([s EXCEPT !.away = FALSE, !.cur = p], p)

\* .seek with SEEK_SET: the digest follows to the new position, from the
\* nearest digest that is kept.
HashSeek(s, p) ==
    LET t == [s EXCEPT !.away = FALSE]
        caught ==
            CASE p < t.prev -> CatchUp(WrappedSeek(ToStart(t), 0), p)
              [] p = t.prev -> ToPrevious(t)
              [] p > t.prev /\ p < t.cur ->
                     CatchUp(WrappedSeek(ToPrevious(t), t.prev), p - t.prev)
              [] p > t.prev /\ p >= t.cur ->
                     CatchUp(WrappedSeek(t, t.cur), p - t.cur)
    IN  IF caught.failed THEN caught ELSE WrappedSeek(caught, p)

\* .seek(0, SEEK_END): the caller has to seek back before it reads.
HashSeekEnd(s) == [WrappedSeekEnd(s) EXCEPT !.away = TRUE]
=============================================================================
