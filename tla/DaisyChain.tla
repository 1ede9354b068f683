------------------------------ MODULE DaisyChain ------------------------------
(***************************************************************************)
(* The daisy-chain copy (daisy_chain_wrapper.py): a thread downloads the    *)
(* source object in ranges into a bounded buffer, from which the upload     *)
(* reads as from a file.  The upload measures the stream by seeking to its  *)
(* end and back, and after an error, or to hash what it has sent, seeks to  *)
(* an earlier position; the wrapper then stops the thread and starts        *)
(* another one there, unless it still has what was read last.               *)
(*                                                                          *)
(* A byte is its position in the object, so that the data say where they    *)
(* belong.  Both threads wait by polling with the lock released in between; *)
(* a poll that finds nothing is a stutter.                                  *)
(***************************************************************************)
EXTENDS Integers, Sequences, FiniteSets

CONSTANTS
    Size,           \* src_obj_size
    RangeSize,      \* _download_chunk_size
    MaxBufferSize,  \* max_buffer_size
    MaxWrite,       \* the most bytes the download writes at a time
    Uploads,        \* how an upload reads: [amounts, seeks]
    MaxRestarts,    \* bound: seeks to other positions than the current one
    MaxFaults       \* bound: failures of the download and of the upload

ASSUME SizesAssumption ==
    {Size, RangeSize, MaxBufferSize, MaxWrite} \subseteq Nat \ {0}
ASSUME UploadsAssumption ==
    \A u \in Uploads : u.amounts \subseteq Nat \ {0} /\ u.seeks \in BOOLEAN
ASSUME BoundsAssumption == MaxRestarts \in Nat /\ MaxFaults \in Nat

VARIABLES
    buffer, buffered,           \* buffer, bytes_buffered
    unused,                     \* _unused_data_from_previous_read
    position, lastPosition, lastData,
    stop, failure,              \* stop_download, download_exception
    thread,                     \* the download: [pc, at, end]
    upload,                     \* how this upload reads
    pc, argument,               \* where the upload is, and in which call
    confirmed,                  \* what the service had received at the last
                                \* error; Size when the upload is complete
    got,                        \* history: what the last read gave, and where
    restarts, faults

stream == <<unused, position, lastPosition, lastData>>
bounds == <<restarts, faults>>
vars == <<buffer, buffered, stream, stop, failure, thread, upload, pc, argument,
          confirmed, got, bounds>>

Span(a, b) == [i \in 1..b - a |-> a + i - 1]

\* The bytes that chunks hold, each by its chunk and its place in it.
Bytes(chunks) == UNION {{i} \X DOMAIN chunks[i] : i \in DOMAIN chunks}
Total(chunks) == Cardinality(Bytes(chunks))

TypeOK ==
    /\ buffer \in Seq(Seq(0..Size - 1)) /\ buffered \in Int
    /\ unused \in Seq(0..Size - 1) /\ lastData \in Seq(0..Size - 1)
    /\ position \in 0..Size /\ lastPosition \in 0..Size
    /\ stop \in BOOLEAN /\ failure \in BOOLEAN
    /\ thread \in [pc : {"room", "append", "off"}, at : 0..Size, end : 0..Size]
    /\ thread.at <= thread.end
    /\ upload \in Uploads /\ argument \in Nat /\ confirmed \in 0..Size
    /\ pc \in {"idle", "read", "end", "broken", "drain", "failed"}
    /\ got \in [at : 0..Size, data : Seq(0..Size - 1)]
    /\ restarts \in Nat /\ faults \in Nat

\* The first range from a position, and the ones that follow.
EndOfRange(at) == IF at + RangeSize < Size THEN at + RangeSize ELSE Size
Started(at) == [pc |-> "room", at |-> at, end |-> EndOfRange(at)]

Init ==
    /\ buffer = <<>> /\ buffered = 0 /\ unused = <<>>
    /\ position = 0 /\ lastPosition = 0 /\ lastData = <<>>
    /\ stop = FALSE /\ failure = FALSE
    /\ thread = Started(0)
    /\ upload \in Uploads
    /\ pc = "idle" /\ argument = 0 /\ confirmed = 0
    /\ got = [at |-> 0, data |-> <<>>]
    /\ restarts = 0 /\ faults = 0

-----------------------------------------------------------------------------
(* The download thread.                                                    *)

ThreadUnchanged == UNCHANGED <<stream, upload, pc, argument, confirmed, got, restarts>>

\* Mutant: the buffer is not looked at.
RoomAnyway == thread.pc = "room" /\ thread.at < thread.end

HasRoom == thread.pc = "room" /\ thread.at < thread.end /\ buffered < MaxBufferSize

FindRoom ==
    /\ HasRoom
    /\ thread' = [thread EXCEPT !.pc = "append"]
    /\ UNCHANGED <<buffer, buffered, stop, failure, faults>> /\ ThreadUnchanged

Write(n) ==
    /\ thread.pc = "append" /\ thread.at + n <= thread.end
    /\ buffer' = Append(buffer, Span(thread.at, thread.at + n))
    /\ buffered' = buffered + n
    /\ thread' = [thread EXCEPT !.pc = "room", !.at = @ + n]
    /\ UNCHANGED <<stop, failure, faults>> /\ ThreadUnchanged

\* A request has been answered: the next range, unless the thread is to stop.
\* After the last one it does not ask.
RangeEnds ==
    /\ thread.pc = "room" /\ thread.at = thread.end
    /\ IF thread.end < Size /\ ~stop
       THEN thread' = Started(thread.at) /\ UNCHANGED stop
       ELSE /\ thread' = [thread EXCEPT !.pc = "off"]
            /\ stop' = (stop /\ thread.end = Size)
    /\ UNCHANGED <<buffer, buffered, failure, faults>> /\ ThreadUnchanged

DownloadRaises ==
    /\ thread.pc = "room" /\ faults < MaxFaults /\ faults' = faults + 1
    /\ failure' = TRUE /\ thread' = [thread EXCEPT !.pc = "off"]
    /\ UNCHANGED <<buffer, buffered, stop>> /\ ThreadUnchanged

Download == FindRoom \/ (\E n \in 1..MaxWrite : Write(n)) \/ RangeEnds

-----------------------------------------------------------------------------
(* read                                                                    *)

WrapperUnchanged == UNCHANGED <<buffer, buffered, stop, failure, thread>>

Read(amt) ==
    /\ pc = "idle" /\ position < Size
    /\ pc' = "read" /\ argument' = amt
    /\ WrapperUnchanged /\ UNCHANGED <<stream, upload, confirmed, got, bounds>>

\* What is left of a chunk comes before the next chunk.
Take ==
    /\ pc = "read" /\ (unused # <<>> \/ buffer # <<>>)
    /\ LET chunk == IF unused # <<>> THEN unused ELSE Head(buffer)
           data == SubSeq(chunk, 1, IF argument < Len(chunk) THEN argument ELSE Len(chunk))
       IN  /\ unused' = SubSeq(chunk, argument + 1, Len(chunk))
           /\ buffer' = IF unused # <<>> THEN buffer ELSE Tail(buffer)
           /\ lastPosition' = position /\ lastData' = data
           /\ position' = position + Len(data)
           /\ buffered' = buffered - Len(data)
           /\ got' = [at |-> position, data |-> data]
    /\ pc' = "idle"
    /\ UNCHANGED <<stop, failure, thread, upload, argument, confirmed, bounds>>

\* The buffer is empty and the download has raised (a test that takes no lock
\* and that no new download resets; the test for a thread that is dead is
\* never reached).
ReadRaises ==
    /\ pc = "read" /\ unused = <<>> /\ buffer = <<>> /\ failure
    /\ pc' = "broken"
    /\ WrapperUnchanged /\ UNCHANGED <<stream, upload, argument, confirmed, got, bounds>>

-----------------------------------------------------------------------------
(* seek                                                                    *)

SeekUnchanged == UNCHANGED <<unused, upload, got, faults>>

SeekEnd ==
    /\ pc = "idle"
    /\ pc' = "end"
    /\ lastPosition' = position /\ lastData' = <<>> /\ position' = Size
    /\ WrapperUnchanged /\ SeekUnchanged /\ UNCHANGED <<argument, confirmed, restarts>>

\* Mutant: the data that were read last are forgotten, and nothing restarts.
BackWithoutData ==
    /\ position' = lastPosition /\ UNCHANGED <<buffer, buffered>>

\* To the position before the last read or seek: its data come first again.
Back ==
    /\ position' = lastPosition
    /\ IF lastData # <<>>
       THEN /\ buffer' = <<lastData>> \o buffer
            /\ buffered' = buffered + Len(lastData)
       ELSE UNCHANGED <<buffer, buffered>>

\* seek(offset); the first alternative that applies.
Seek(offset) ==
    /\ CASE offset = position ->
                /\ pc' = "idle"
                /\ UNCHANGED <<buffer, buffered, position, stop, argument>>
         [] offset # position /\ offset = lastPosition ->
                /\ pc' = "idle" /\ Back
                /\ UNCHANGED <<stop, argument>>
         [] OTHER ->
                /\ pc' = "drain" /\ argument' = offset /\ stop' = TRUE
                /\ UNCHANGED <<buffer, buffered, position>>
    /\ SeekUnchanged /\ UNCHANGED <<lastPosition, lastData, failure, thread>>

\* From the end to where the upload had been.
SeekBack == pc = "end" /\ Seek(lastPosition) /\ UNCHANGED <<confirmed, restarts>>

\* The connection of the upload breaks.
UploadBreaks ==
    /\ pc = "idle" /\ upload.seeks /\ confirmed < Size
    /\ faults < MaxFaults /\ faults' = faults + 1
    /\ pc' = "broken"
    /\ WrapperUnchanged /\ UNCHANGED <<stream, upload, argument, confirmed, got, restarts>>

\* The upload goes on with what the service has not received; or, when it is
\* complete, reads everything again for the hash.
Resume(offset) ==
    /\ upload.seeks /\ restarts < MaxRestarts /\ restarts' = restarts + 1
    /\ \/ /\ pc = "broken" /\ offset \in confirmed..position
          /\ confirmed' = offset
       \/ /\ pc = "idle" /\ position = Size /\ confirmed < Size /\ offset = 0
          /\ confirmed' = Size
    /\ Seek(offset)

\* What the thread writes is thrown away while it lives; where part of a
\* chunk is kept as unused, the count is not that of the buffer, and popleft
\* raises IndexError.
Drain ==
    /\ pc = "drain" /\ thread.pc # "off" /\ buffered > 0
    /\ buffer' = <<>>
    /\ IF buffered = Total(buffer) THEN buffered' = 0 /\ UNCHANGED pc
       ELSE buffered' = buffered - Total(buffer) /\ pc' = "failed"
    /\ UNCHANGED <<stream, stop, failure, thread, upload, argument, confirmed, got, bounds>>

\* Mutant: the event is left as the old thread left it.
LeaveStop == UNCHANGED stop

ClearStop == stop' = FALSE

Restart ==
    /\ pc = "drain" /\ thread.pc = "off"
    /\ position' = argument
    /\ buffer' = <<>> /\ buffered' = 0
    /\ lastPosition' = 0 /\ lastData' = <<>>
    /\ ClearStop
    /\ thread' = Started(argument)
    /\ pc' = "idle"
    /\ UNCHANGED <<unused, failure, upload, argument, confirmed, got, bounds>>

\* The upload fails for good; nobody stops the thread.
GiveUp ==
    /\ pc = "broken"
    /\ pc' = "failed"
    /\ WrapperUnchanged /\ UNCHANGED <<stream, upload, argument, confirmed, got, bounds>>

Stopped == pc = "failed" /\ UNCHANGED vars

Call == Take \/ ReadRaises \/ SeekBack \/ Drain \/ Restart

Next ==
    \/ Download \/ DownloadRaises
    \/ Call \/ SeekEnd \/ UploadBreaks \/ GiveUp \/ Stopped
    \/ \E amt \in upload.amounts : Read(amt)
    \/ \E offset \in 0..Size - 1 : Resume(offset)

\* Neither thread is stopped for ever: a poll that finds something goes on.
Fairness == WF_vars(Download) /\ WF_vars(Call)

Spec == Init /\ [][Next]_vars /\ Fairness

-----------------------------------------------------------------------------

\* What is read at a position are the object's bytes from there, after any
\* seeks and restarts, whatever an old thread has written.
ReadIsObject == got.data = Span(got.at, got.at + Len(got.data))

\* The count is that of the bytes which are held, and they are never more
\* than the buffer's size, one write and one read that was taken back.
BufferIsBounded ==
    pc # "failed" =>
        /\ buffered = Total(buffer) + Len(unused)
        /\ buffered < MaxBufferSize + 2 * MaxWrite

\* No call hangs: a read gets data or an exception, and a seek ends, although
\* the one waits for a thread that waits for room and the other for its end.
EveryCallReturns == pc \in {"read", "drain"} ~> pc \notin {"read", "drain"}
===============================================================================
