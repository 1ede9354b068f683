--------------------------- MODULE ResumableUpload ---------------------------
(***************************************************************************)
(* Upload of one source to one object in a single piece (copy_helper.py,   *)
(* _UploadFileToObject and the strategies it delegates to; gcs_json_api.py,*)
(* _UploadObject and _PerformResumableUpload).  A resumable upload asks    *)
(* the service for a session, writes the session to a tracker file, sends  *)
(* the bytes, asks after every error how many the session holds and goes   *)
(* on from there; a later run of the command goes on with the session of   *)
(* the tracker file.  At the end the digest of what was read is compared   *)
(* with the object's.                                                      *)
(*                                                                         *)
(* A source is a plain file sent in one request ("file") or in chunks      *)
(* ("chunked"), a file below the threshold ("small") or a pipe ("stream"). *)
(* The service keeps every byte it has acknowledged.  Between runs the     *)
(* file may be edited and the object replaced by another writer.           *)
(***************************************************************************)
EXTENDS UploadStreams, Functions

CONSTANTS
    Size,           \* the file's size in each of its versions
    Kinds,          \* the kinds of source
    Keys,           \* the encryption keys a run may be configured with
    Chunk,          \* json_resumable_chunk_size
    NumRetries,     \* num_retries
    MaxRuns,        \* bound: runs of the command
    MaxFaults,      \* bound: crashes and errors that are not retried
    MaxChanges      \* bound: edits, other keys and writes by others

Versions == DOMAIN Size

ASSUME SizeAssumption == Size \in Seq(Nat) /\ Size # <<>>
ASSUME KindsAssumption == Kinds \subseteq {"file", "chunked", "small", "stream"}
ASSUME KeysAssumption == Keys # {}
ASSUME BoundsAssumption ==
    /\ Chunk \in Nat \ {0} /\ NumRetries \in Nat
    /\ MaxRuns \in Nat /\ MaxFaults \in Nat /\ MaxChanges \in Nat

VARIABLES
    file,       \* the source's version
    gens,       \* the content and key of each generation of the object
    live,       \* the generation that is live, or 0
    sessions,   \* the service's upload sessions
    tracker,    \* the upload tracker file
    job,        \* the run of the command
    runs, faults, changes,
    faulted,    \* the run met a fault
    streak      \* runs in a row that failed without one

bounds == <<runs, faults, changes, faulted, streak>>
service == <<gens, live, sessions>>
vars == <<file, service, tracker, job, bounds>>

Content(v) == [i \in 1..Size[v] |-> <<v, i>>]
Foreign == [bytes |-> <<>>, key |-> "other"]
Unknown == -1
None == [there |-> "none"]
Torn == [there |-> "torn"]
Whole(key, id) == [there |-> "whole", key |-> key, id |-> id]

Resumable == job.kind \in {"file", "chunked"}
Session == sessions[job.sess]

Idle == [pc |-> "idle", kind |-> "file", key |-> CHOOSE k \in Keys : TRUE,
         sess |-> 0, stream |-> NewStream(<<>>, 0), last |-> 0, retries |-> 0,
         startovers |-> 0, finishedBefore |-> FALSE, exit |-> "none"]

Init ==
    /\ file = 1 /\ gens = <<>> /\ live = 0 /\ sessions = <<>>
    /\ tracker = None
    /\ job \in {[Idle EXCEPT !.kind = kind] : kind \in Kinds}
    /\ runs = 0 /\ faults = 0 /\ changes = 0
    /\ faulted = FALSE /\ streak = 0

\* An error that the run does not retry for ever.
Fault ==
    /\ faults < MaxFaults
    /\ faults' = faults + 1
    /\ faulted' = TRUE
    /\ UNCHANGED <<runs, changes, streak>>

\* The run ends, and with it what it kept in memory.
Exit(why, hit) ==
    /\ job' = [Idle EXCEPT !.exit = why, !.kind = job.kind, !.key = job.key,
                           !.sess = job.sess,
                           !.stream = NewStream(job.stream.src, 0),
                           !.finishedBefore = job.finishedBefore]
    /\ streak' = IF why = "ok" \/ faulted \/ hit THEN 0 ELSE streak + 1
    /\ faults' = IF hit THEN faults + 1 ELSE faults
    /\ hit => faults < MaxFaults
    /\ UNCHANGED <<runs, changes, faulted>>

\* An exception that no handler of the upload catches: the tracker file stays.
Fail(why, hit) == Exit(why, hit) /\ UNCHANGED tracker

Goto(pc) == job' = [job EXCEPT !.pc = pc]

-----------------------------------------------------------------------------
(* Between runs.                                                           *)

Change == changes < MaxChanges /\ changes' = changes + 1
          /\ UNCHANGED <<runs, faults, faulted, streak>>

EditFile ==
    /\ job.pc = "idle"
    /\ \E v \in Versions \ {file} : file' = v
    /\ Change
    /\ UNCHANGED <<service, tracker, job>>

\* The user configures another encryption key.
ChangeKey ==
    /\ job.pc = "idle"
    /\ \E key \in Keys \ {job.key} : job' = [Idle EXCEPT !.kind = job.kind,
                                                      !.key = key]
    /\ Change
    /\ UNCHANGED <<file, service, tracker>>

OtherWriter ==
    /\ job.pc = "idle"
    /\ gens' = Append(gens, Foreign) /\ live' = Len(gens) + 1
    /\ Change
    /\ UNCHANGED <<file, sessions, tracker, job>>

\* The service forgets a session that is not finished (one that nobody
\* names any more it may keep or forget, all the same).
Named(id) == id = job.sess \/ (tracker.there = "whole" /\ tracker.id = id)

Expire ==
    /\ \E id \in DOMAIN sessions :
           /\ sessions[id].state = "open" /\ Named(id)
           /\ sessions' = [sessions EXCEPT ![id].state = "gone"]
    /\ Fault
    /\ UNCHANGED <<file, gens, live, tracker, job>>

-----------------------------------------------------------------------------
(* The start of a run.                                                     *)

\* _UploadFileToObject chooses the strategy, and for a pipe the buffer.
Begin ==
    /\ job.pc = "idle"
    /\ runs < MaxRuns
    /\ job' = [Idle EXCEPT
           !.kind = job.kind, !.key = job.key,
           !.stream = NewStream(Content(file),
                                IF job.kind = "stream" THEN Chunk ELSE 0),
           !.pc = CASE job.kind = "small" -> "simple"
                    [] job.kind = "stream" -> "insert"
                    [] OTHER -> "tracker"]
    /\ runs' = runs + 1 /\ faulted' = FALSE
    /\ UNCHANGED <<file, service, tracker, faults, changes, streak>>

\* Mutant: the tracker file of another key will do.
UsableAnyKey == tracker.there = "whole"

Usable == tracker.there = "whole" /\ tracker.key = job.key

\* GetUploadTrackerData.
ReadTracker ==
    /\ job.pc = "tracker"
    /\ IF Usable
       THEN /\ job' = [job EXCEPT !.pc = "resume", !.sess = tracker.id]
            /\ UNCHANGED tracker
       ELSE /\ Goto("insert")
            /\ tracker' = None
    /\ UNCHANGED <<file, service, bounds>>

\* A one-shot upload.
SimpleUpload ==
    /\ job.pc = "simple"
    /\ LET s == HashRead(job.stream, Len(job.stream.src)) IN
       \/ /\ gens' = Append(gens, [bytes |-> job.stream.src, key |-> job.key])
          /\ sessions' = Append(sessions, [bytes |-> job.stream.src,
                 total |-> Len(job.stream.src), state |-> "done",
                 key |-> job.key, gen |-> Len(gens) + 1])
          /\ live' = Len(gens) + 1
          /\ job' = [job EXCEPT !.pc = "verify", !.stream = s,
                                !.sess = Len(sessions) + 1]
          /\ UNCHANGED <<tracker, bounds>>
       \/ Fail("error", TRUE) /\ UNCHANGED service
    /\ UNCHANGED file

\* The one-shot upload is executed and its answer lost: apitools sends the
\* request again, or gives up.
SimpleLost ==
    /\ job.pc = "simple"
    /\ gens' = Append(gens, [bytes |-> job.stream.src, key |-> job.key])
    /\ live' = Len(gens) + 1
    /\ \/ Fault /\ UNCHANGED <<tracker, job>>
       \/ Fail("error", TRUE)
    /\ UNCHANGED <<file, sessions>>

\* objects.Insert returns a new session.
Insert ==
    /\ job.pc = "insert"
    /\ \/ /\ sessions' = Append(sessions, [bytes |-> <<>>, state |-> "open",
                 total |-> IF job.kind = "stream" THEN Unknown
                           ELSE Len(job.stream.src),
                 key |-> job.key, gen |-> 0])
          /\ job' = [job EXCEPT !.sess = Len(sessions) + 1,
                                !.pc = IF Resumable THEN "register"
                                       ELSE "send"]
          /\ UNCHANGED <<tracker, bounds>>
       \/ Fail("error", TRUE) /\ UNCHANGED sessions
    /\ UNCHANGED <<file, gens, live>>

-----------------------------------------------------------------------------
(* The session's state.                                                    *)

Persisted == IF Session.state = "done" THEN Session.total ELSE Len(Session.bytes)

\* Mutant: the stream stays where it is.
NoResync(s) == s

\* RefreshResumableUploadState seeks the stream to what the service has.
Resync(s) == HashSeek(s, Persisted)

AfterRefresh == IF Session.state = "done" THEN "complete" ELSE "send"

\* Upload.FromData asks for the session's state.
Resume ==
    /\ job.pc = "resume"
    /\ UNCHANGED <<file, service>>
    /\ \/ /\ Session.state = "gone"
          /\ Goto("startOver") /\ UNCHANGED <<tracker, bounds>>
       \/ /\ Session.state # "gone"
          /\ job' = [job EXCEPT !.pc = "register", !.stream = Resync(@),
                                !.last = Persisted,
                                !.finishedBefore = Session.state = "done"]
          /\ UNCHANGED <<tracker, bounds>>
       \/ Fail("error", TRUE)

\* _UploadTrackerCallback: the tracker file is truncated, then written.
TruncateTracker ==
    /\ job.pc = "register"
    /\ tracker' = Torn /\ Goto("record")
    /\ UNCHANGED <<file, service, bounds>>

WriteTracker ==
    /\ job.pc = "record"
    /\ tracker' = Whole(job.key, job.sess)
    /\ Goto(AfterRefresh)
    /\ UNCHANGED <<file, service, bounds>>

-----------------------------------------------------------------------------
(* Sending: StreamMedia one request for the rest, StreamInChunks one per   *)
(* chunk.                                                                  *)

Offset == job.stream.pos
Wanted == CASE job.kind = "file" -> Session.total - Offset
            [] job.kind = "chunked" -> Smaller(Chunk, Session.total - Offset)
            [] job.kind = "stream" -> Chunk

Data == Bytes(job.stream, Offset, Wanted)
Short == Len(Data) < Wanted
Last == IF job.kind = "stream" THEN Short ELSE Offset + Wanted = Session.total

\* The service appends the first n bytes it is sent; the last one finishes
\* the object.
Keep(n) ==
    LET bytes == SubSeq(Session.bytes, 1, Offset) \o SubSeq(Data, 1, n)
        done == Last /\ n = Len(Data) /\ (Short => job.kind = "stream")
    IN  /\ sessions' = [sessions EXCEPT ![job.sess] =
              [Session EXCEPT !.bytes = bytes,
                              !.total = IF done THEN Len(bytes) ELSE @,
                              !.state = IF done THEN "done" ELSE @,
                              !.gen = IF done THEN Len(gens) + 1 ELSE @]]
        /\ IF done
           THEN /\ gens' = Append(gens, [bytes |-> bytes, key |-> Session.key])
                /\ live' = Len(gens) + 1
           ELSE UNCHANGED <<gens, live>>

Sending == job.pc = "send" /\ Session.state = "open"
Sent == HashRead(job.stream, Wanted)

\* The request is answered: all of it was kept.
Send ==
    /\ Sending
    /\ Short => job.kind = "stream"
    /\ Keep(Len(Data))
    /\ job' = [job EXCEPT !.stream = Sent,
                          !.pc = IF Last THEN "complete" ELSE "send"]
    /\ UNCHANGED <<file, tracker, bounds>>

\* The request fails: part of it may have been kept, or all and only the
\* answer was lost.  How often this is retried the code bounds.
SendLost ==
    /\ Sending
    /\ Short => job.kind = "stream"
    /\ \E n \in 0..Len(Data) : Keep(n)
    /\ job' = [job EXCEPT !.stream = Sent, !.pc = "refresh"]
    /\ faulted' = TRUE
    /\ UNCHANGED <<file, tracker, runs, faults, changes, streak>>

\* The service answers that it kept less: CommunicationError, not retried.
SendPaused ==
    /\ Sending
    /\ Short => job.kind = "stream"
    /\ \E n \in 0..Len(Data) - 1 : Keep(n)
    /\ Fail("error", TRUE)
    /\ UNCHANGED file

\* The session is gone: 404 or 410.
SendGone ==
    /\ job.pc = "send" /\ Session.state = "gone"
    /\ Goto("startOver")
    /\ UNCHANGED <<file, service, tracker, bounds>>

\* A request for a session, its state or its bytes is refused: another 4xx.
Refused ==
    /\ job.pc \in {"insert", "resume", "refresh"} \/ Sending
    /\ faults < MaxFaults /\ faults' = faults + 1 /\ faulted' = TRUE
    /\ Goto("abort")
    /\ UNCHANGED <<file, service, tracker, runs, changes, streak>>

\* StreamExhausted: the file is shorter than the session's size.
SendShort ==
    /\ Sending
    /\ Short /\ job.kind # "stream"
    /\ \E n \in 0..Len(Data) : Keep(n)
    /\ Goto("abort")
    /\ UNCHANGED <<file, tracker, bounds>>

-----------------------------------------------------------------------------
(* Retries within a run.                                                   *)

\* Mutant: every answer allows a fresh set of retries.
RetriesAlwaysReset(j) == [j EXCEPT !.last = Persisted, !.retries = 0]

\* Progress since the last error allows a fresh set of retries.
CountRetry(j) ==
    IF Persisted > j.last THEN [j EXCEPT !.last = Persisted, !.retries = 0]
    ELSE [j EXCEPT !.retries = @ + 1]

Refresh ==
    /\ job.pc = "refresh"
    /\ Session.state # "gone"
    /\ LET s == Resync(job.stream)
           j == CountRetry(job)
       IN  IF s.failed THEN Fail("unbuffered", FALSE)
           ELSE IF j.retries > NumRetries THEN Fail("exhausted", FALSE)
           ELSE /\ job' = [j EXCEPT !.stream = s, !.pc = AfterRefresh]
                /\ UNCHANGED <<tracker, bounds>>
    /\ UNCHANGED <<file, service>>

\* The state cannot be asked for: counted with the retries.
RefreshLost ==
    /\ job.pc = "refresh"
    /\ IF job.retries + 1 > NumRetries THEN Fail("exhausted", FALSE)
       ELSE /\ job' = [job EXCEPT !.retries = @ + 1]
            /\ UNCHANGED <<tracker, bounds>>
    /\ UNCHANGED <<file, service>>

RefreshGone ==
    /\ job.pc = "refresh" /\ Session.state = "gone"
    /\ Goto("startOver")
    /\ UNCHANGED <<file, service, tracker, bounds>>

\* ResumableUploadStartOverException: from scratch with a new session, as
\* often as num_retries allows and if the bucket is not what is missing.
\* Every way out deletes the tracker file.  A pipe cannot start over.
StartOver ==
    /\ job.pc = "startOver"
    /\ \/ /\ ~Resumable
          /\ Fail("error", FALSE)
       \/ /\ Resumable /\ job.startovers + 1 >= NumRetries
          /\ tracker' = None /\ Exit("error", FALSE)
       \/ /\ Resumable /\ job.startovers + 1 < NumRetries
          /\ tracker' = None
          /\ \/ /\ job' = [job EXCEPT !.pc = "insert", !.sess = 0,
                               !.startovers = @ + 1,
                               !.stream = HashSeek(@, 0),
                               !.last = 0, !.retries = 0]
                /\ UNCHANGED bounds
             \/ Exit("error", TRUE)
    /\ UNCHANGED <<file, service>>

\* Mutant: the next run will find the session again.
AbortKeepingTracker ==
    /\ job.pc = "abort"
    /\ Fail("abort", FALSE)
    /\ UNCHANGED <<file, service>>

\* ResumableUploadAbortException deletes the tracker file.
Abort ==
    /\ job.pc = "abort"
    /\ IF Resumable THEN tracker' = None ELSE UNCHANGED tracker
    /\ Exit("abort", FALSE)
    /\ UNCHANGED <<file, service>>

-----------------------------------------------------------------------------
(* The end of a run.                                                       *)

\* apitools seeks to the end to see whether the source has more bytes.
Complete ==
    /\ job.pc = "complete"
    /\ LET end == HashSeekEnd(job.stream)
           back == HashSeek(end, Offset)
       IN  job' = [job EXCEPT !.stream = back,
                              !.pc = IF end.pos # Offset THEN "abort"
                                     ELSE IF Resumable THEN "untrack"
                                     ELSE "verify"]
    /\ UNCHANGED <<file, service, tracker, bounds>>

Untrack ==
    /\ job.pc = "untrack"
    /\ tracker' = None /\ Goto("verify")
    /\ UNCHANGED <<file, service, bounds>>

\* Mutant: only the length is compared.
SameLength == Len(job.stream.digest) = Len(Session.bytes)

\* _CheckHashes.
SameHash == job.stream.digest = Session.bytes

\* On a mismatch the object is deleted, this generation of it.
Verify ==
    /\ job.pc = "verify"
    /\ IF SameHash THEN Fail("ok", FALSE) /\ UNCHANGED service
       ELSE \/ /\ live = Session.gen
               /\ live' = 0
               /\ Fail("mismatch", FALSE)
               /\ UNCHANGED <<gens, sessions>>
            \/ /\ live # Session.gen
               /\ Fail("error", FALSE)
               /\ UNCHANGED service
            \/ Fail("error", TRUE) /\ UNCHANGED service
    /\ UNCHANGED file

\* The process is killed.
Crash ==
    /\ job.pc # "idle"
    /\ Fail("error", TRUE)
    /\ UNCHANGED <<file, service>>

-----------------------------------------------------------------------------

Step ==
    \/ ReadTracker \/ SimpleUpload \/ SimpleLost \/ Insert \/ Resume
    \/ TruncateTracker \/ WriteTracker
    \/ Send \/ SendLost \/ SendPaused \/ SendGone \/ SendShort \/ Refused
    \/ Refresh \/ RefreshLost \/ RefreshGone \/ StartOver \/ Abort
    \/ Complete \/ Untrack \/ Verify

Next == Step \/ Begin \/ EditFile \/ ChangeKey \/ OtherWriter \/ Expire \/ Crash

\* The run is one thread, which goes on while its requests are answered or
\* fail.
Spec == Init /\ [][Next]_vars /\ WF_vars(Step)

-----------------------------------------------------------------------------

TypeOK ==
    /\ file \in Versions /\ live \in 0..Len(gens)
    /\ tracker \in {None, Torn} \cup {Whole(k, id) : k \in Keys,
                                                     id \in DOMAIN sessions}
    /\ job.sess \in 0..Len(sessions) /\ job.retries \in 0..NumRetries
    /\ ~job.stream.failed
    /\ \A id \in DOMAIN sessions : sessions[id].gen \in 0..Len(gens)

\* A run that succeeds has uploaded the source: the object's bytes are the
\* source's, under the run's key, whatever was resumed, sent twice or edited
\* between runs, and the object is live unless an earlier run had finished
\* it before it was replaced.
DeliveredIsFile ==
    job.exit = "ok" /\ job.pc = "idle" /\ job.stream.src = Content(file) =>
        LET g == Session.gen IN
        /\ gens[g] = [bytes |-> Content(file), key |-> job.key]
        /\ live = g \/ job.finishedBefore \/ gens[live] = Foreign

\* No byte is lost or sent twice at a seam: what a session holds is a prefix
\* of the bytes of the versions that were sent to it, each at its own place,
\* and the place at which the next request goes on is the session's end.
SessionHoldsPrefix ==
    /\ \A id \in DOMAIN sessions : LET b == sessions[id].bytes IN
           \A i \in DOMAIN b : b[i] \in {<<v, i>> : v \in Versions}
    /\ job.pc = "send" => Offset = Len(Session.bytes)

\* Whatever was read, sought and read again, the digest is of the bytes
\* before the position, and of all of them when the object is verified.
DigestIsOfPosition ==
    LET s == job.stream IN
    /\ job.pc # "idle" /\ s.cur <= Len(s.src) =>
           s.digest = SubSeq(s.src, 1, s.cur)
    /\ job.pc \in {"send", "verify"} => s.cur = s.pos

\* A pipe is sought only within its buffer, so an error the code retries
\* never makes it give up a stream.
PipeStaysSeekable == job.exit # "unbuffered"

\* A run that fails although nothing failed around it (the file was edited,
\* the session is stale) has removed what made it fail: the next one does
\* not fail for the same reason.
RetryHeals == streak < 2

\* Every run ends, however often requests are lost: retries are counted,
\* and only progress renews them.
Termination == job.pc # "idle" ~> job.pc = "idle"
=============================================================================
