--------------------------- MODULE ObjectDownload ---------------------------
(***************************************************************************)
(* Download of one object to one file (copy_helper.py,                     *)
(* _DownloadObjectToFile, with tracker_file.py), as a single stream or     *)
(* sliced: the components, byte ranges of the object, are downloaded in    *)
(* parallel into one temporary file.                                       *)
(*                                                                         *)
(* A tracker file says that the temporary file holds the beginning of a    *)
(* stream.  The parent tracker file of a sliced download says for which    *)
(* generation and how many components, each component's own one from which *)
(* byte to go on.  So the next run of the command after a crash or a       *)
(* failure fetches only the rest; it may choose the other strategy.        *)
(*                                                                         *)
(* A byte of the temporary file holds the generation it came from, or 0    *)
(* where the file was only resized.  The object is overwritten only        *)
(* between runs, and one run at a time downloads it.                       *)
(***************************************************************************)
EXTENDS Integers, Sequences, FiniteSets, Functions

CONSTANTS
    Size,           \* the object's size in each of its generations
    Settings,       \* what the user may configure: component size and
                    \* largest number of components; max = 1 stands for
                    \* whatever makes the download a single stream
    Smalls,         \* whether the object may be below the threshold for
                    \* tracker files: a set of BOOLEANs
    CheckHashes,    \* whether check_hashes may be on: a set of BOOLEANs
    MaxRuns,        \* bound: runs of the command
    MaxFaults       \* bound: crashes and failed requests

Generations == DOMAIN Size

\* _GetPartitionInfo, where the sliced strategy is chosen at all.
NumComponents(s, bytes) ==
    LET wanted == (bytes + s.size - 1) \div s.size
        capped == IF wanted < s.max THEN wanted ELSE s.max IN
    IF s.max = 1 THEN 1 ELSE IF capped < 2 THEN 2 ELSE capped

Counts == {NumComponents(s, Size[g]) : s \in Settings, g \in Generations}
Components == UNION {0..k - 1 : k \in Counts}

ASSUME SizeAssumption == Size \in Seq(Nat \ {0}) /\ Size # <<>>
ASSUME SettingsAssumption ==
    /\ Settings \subseteq [size : Nat \ {0}, max : Nat \ {0}] /\ Settings # {}
ASSUME BoundsAssumption ==
    /\ CheckHashes \subseteq BOOLEAN /\ Smalls \subseteq BOOLEAN
    /\ MaxRuns \in Nat /\ MaxFaults \in Nat

VARIABLES
    \* what survives a crash: the object's generation, the temporary file
    \* (absent and empty are one), the tracker files, the parent and those of
    \* the components and of a stream, and the destination
    object, temp, parent, comp, final,
    \* one run: the number of components, the tracker files that
    \* are being deleted, and for each component where it is, its position,
    \* how far the file object has been flushed, and whether all it has
    \* digested are bytes of the object
    pc, count, doomed, cPc, pos, flushed, digestOk, exit,
    \* what the user has configured
    check, small,
    \* bounds and history: the run met a fault; runs in a row that failed
    \* without one; a deletion of tracker files was cut short
    runs, faults, faulted, streak, orphaned

durable == <<object, temp, parent, comp, final>>
bounds == <<check, small, runs, faults, faulted, streak, orphaned>>
slices == <<cPc, pos, flushed, digestOk>>
vars == <<durable, pc, count, doomed, slices, exit, bounds>>

NoBytes == [b \in {} |-> 0]
None == [there |-> "none"]
Torn == [there |-> "torn"]
Whole(g, x) == [there |-> "whole", gen |-> g, value |-> x]
ParentFile == -1
SingleFile == -2

Size0 == Size[object]

Init ==
    /\ object = 1
    /\ temp = NoBytes /\ final = NoBytes
    /\ parent = None /\ comp = [c \in Components \union {SingleFile} |-> None]
    /\ pc = "idle" /\ count \in Counts /\ doomed = <<>>
    /\ cPc = [c \in Components |-> "open"]
    /\ pos = [c \in Components |-> 0] /\ flushed = [c \in Components |-> 0]
    /\ digestOk = [c \in Components |-> TRUE]
    /\ exit = "none"
    /\ check \in CheckHashes /\ small \in Smalls
    /\ runs = 0 /\ faults = 0 /\ faulted = FALSE /\ streak = 0
    /\ orphaned = FALSE

Fault ==
    /\ faults < MaxFaults
    /\ faults' = faults + 1
    /\ faulted' = TRUE
    /\ UNCHANGED <<check, small, runs, streak, orphaned>>

-----------------------------------------------------------------------------
(* The byte ranges: _PartitionObject.                                      *)

ComponentSize == (Size0 + count - 1) \div count
Start(c) == c * ComponentSize

End(c) == LET e == (c + 1) * ComponentSize - 1 IN
          IF e < Size0 - 1 THEN e ELSE Size0 - 1

Mine == 0..count - 1

Sliced == count > 1

\* The tracker file of a component, or of the stream.
Own(c) == IF Sliced THEN c ELSE SingleFile

-----------------------------------------------------------------------------
(* The run before and after its components.                                *)

\* _GetDownloadFile deletes the file that will be replaced.
Begin ==
    /\ pc = "idle"
    /\ runs < MaxRuns
    /\ runs' = runs + 1
    /\ count' \in {NumComponents(s, Size0) : s \in Settings}
    /\ final' = NoBytes
    /\ cPc' = [c \in Components |-> "open"]
    /\ pos' = [c \in Components |-> 0] /\ flushed' = [c \in Components |-> 0]
    /\ digestOk' = [c \in Components |-> TRUE]
    /\ pc' = (IF count' > 1 THEN "maintain" ELSE "fetch") /\ exit' = "none" /\ faulted' = FALSE
    /\ UNCHANGED <<object, temp, parent, comp, doomed, check, small, faults, streak,
                   orphaned>>

\* Mutant: the parent tracker file of another partition will do.
ResumableAnyCount ==
    /\ Cardinality(DOMAIN temp) = Size0
    /\ parent.there = "whole" /\ parent.gen = object

Resumable ==
    /\ Cardinality(DOMAIN temp) = Size0
    /\ parent = Whole(object, count)

\* Mutant: only the tracker files of the run's own components.
OwnFiles == <<SingleFile, ParentFile>> \o [i \in 1..count |-> i - 1]

\* GetSlicedDownloadTrackerFilePaths: how many component tracker files there
\* are is read from the parent, and without it they are not found.
TrackerFiles ==
    <<SingleFile, ParentFile>> \o
    IF parent.there = "whole" THEN [i \in 1..parent.value |-> i - 1] ELSE <<>>

\* _MaintainSlicedDownloadTrackerFiles.
Maintain ==
    /\ pc = "maintain"
    /\ IF small \/ Resumable
       THEN pc' = "resize" /\ UNCHANGED doomed
       ELSE pc' = "restart" /\ doomed' = TrackerFiles
    /\ UNCHANGED <<durable, count, slices, exit, bounds>>

\* DeleteDownloadTrackerFiles unlinks one file after the other.
DeleteTracker ==
    /\ doomed # <<>>
    /\ doomed' = Tail(doomed)
    /\ IF Head(doomed) = ParentFile
       THEN parent' = None /\ UNCHANGED comp
       ELSE comp' = [comp EXCEPT ![Head(doomed)] = None] /\ UNCHANGED parent
    /\ UNCHANGED <<object, temp, final, pc, count, slices, exit, bounds>>

\* The new parent is opened, which truncates it, and then written.
OpenParent ==
    /\ pc = "restart" /\ doomed = <<>>
    /\ parent' = Torn
    /\ pc' = "parent"
    /\ UNCHANGED <<object, temp, comp, final, count, doomed, slices, exit,
                   bounds>>

WriteParent ==
    /\ pc = "parent"
    /\ parent' = Whole(object, count)
    /\ pc' = "resize"
    /\ UNCHANGED <<object, temp, comp, final, count, doomed, slices, exit,
                   bounds>>

Resize ==
    /\ pc = "resize"
    /\ temp' = [b \in 0..Size0 - 1 |-> IF b \in DOMAIN temp THEN temp[b] ELSE 0]
    /\ pc' = "fetch"
    /\ UNCHANGED <<object, parent, comp, final, count, doomed, slices, exit,
                   bounds>>

Joined == pc = "fetch" /\ \A c \in Mine : cPc[c] \in {"done", "failed"}

Fails ==
    /\ exit' = "failed"
    /\ streak' = IF faulted THEN 0 ELSE streak + 1
    /\ UNCHANGED <<check, small, runs, faults, faulted, orphaned>>

\* "Some components were not downloaded successfully."
GiveUp ==
    /\ Joined
    /\ \E c \in Mine : cPc[c] = "failed"
    /\ pc' = "idle"
    /\ Fails
    /\ UNCHANGED <<durable, count, doomed, slices>>

\* _ValidateAndCompleteDownload: the digests of the components are combined
\* and compared with the object's, and the tracker files go either way.
Validate ==
    /\ Joined
    /\ \A c \in Mine : cPc[c] = "done"
    /\ pc' = IF check => \A c \in Mine : digestOk[c] THEN "accept" ELSE "reject"
    /\ doomed' = TrackerFiles
    /\ UNCHANGED <<durable, count, slices, exit, bounds>>

Rename ==
    /\ pc = "accept" /\ doomed = <<>>
    /\ final' = temp /\ temp' = NoBytes
    /\ pc' = "idle" /\ exit' = "ok" /\ streak' = 0
    /\ UNCHANGED <<object, parent, comp, count, doomed, slices, check, small, runs,
                   faults, faulted, orphaned>>

Unlink ==
    /\ pc = "reject" /\ doomed = <<>>
    /\ temp' = NoBytes
    /\ pc' = "idle"
    /\ Fails
    /\ UNCHANGED <<object, parent, comp, final, count, doomed, slices>>

-----------------------------------------------------------------------------
(* One component, or the stream: _DownloadObjectToFileResumable.           *)

At(c, from) == pc = "fetch" /\ c \in Mine /\ cPc[c] = from

Go(c, from, to) == At(c, from) /\ cPc' = [cPc EXCEPT ![c] = to]

\* ReadOrCreateDownloadTrackerFile finds a tracker file of this generation.
Tracked(c) == ~small /\ comp[Own(c)].there = "whole" /\ comp[Own(c)].gen = object

\* Where it goes on: a stream at the end of the file.
Found(c) == IF Sliced THEN comp[c].value ELSE Cardinality(DOMAIN temp)

InRange(c, b) == Start(c) <= b /\ b <= End(c) + 1

Create(c) ==
    /\ ~small /\ ~Tracked(c)
    /\ Go(c, "open", "create")
    /\ comp' = [comp EXCEPT ![Own(c)] = Torn]
    /\ UNCHANGED <<object, temp, parent, final, pc, count, doomed, pos, flushed,
                   digestOk, exit, bounds>>

\* From scratch.
Begins(c) ==
    /\ InRange(c, Start(c))
    /\ Go(c, IF small THEN "open" ELSE "create",
          IF ~Sliced THEN "truncate"
          ELSE IF Start(c) = End(c) + 1 THEN "done" ELSE "first")
    /\ comp' = IF small THEN comp
               ELSE [comp EXCEPT ![Own(c)] = Whole(object, Start(c))]
    /\ pos' = [pos EXCEPT ![c] = Start(c)]
    /\ flushed' = [flushed EXCEPT ![c] = Start(c)]
    /\ digestOk' = [digestOk EXCEPT ![c] = TRUE]
    /\ UNCHANGED <<object, temp, parent, final, pc, count, doomed, exit, bounds>>

\* "Delete file contents and start entire object download from scratch."
Truncate(c) ==
    /\ Go(c, "truncate", "first")
    /\ temp' = NoBytes
    /\ UNCHANGED <<object, parent, comp, final, pc, count, doomed, pos, flushed,
                   digestOk, exit, bounds>>

\* Mutant: what is in the file already is not digested.
TrustFile(c, to) == TRUE

\* The digester catches up with the bytes that are in the file.
CatchUp(c, to) == \A b \in Start(c)..to - 1 : temp[b] = object

Resume(c) ==
    LET b == Found(c) IN
    /\ Tracked(c)
    /\ InRange(c, b)
    /\ Go(c, "open", IF b = End(c) + 1 THEN "done" ELSE "first")
    /\ pos' = [pos EXCEPT ![c] = b]
    /\ flushed' = [flushed EXCEPT ![c] = b]
    /\ digestOk' = [digestOk EXCEPT ![c] = CatchUp(c, b)]
    /\ UNCHANGED <<durable, pc, count, doomed, exit, bounds>>

\* The start point is of another partition, or the file longer than the object,
\* or there are so many components that a late one begins beyond the object.
OutOfRange(c) ==
    /\ cPc[c] = IF small \/ Tracked(c) THEN "open" ELSE "create"
    /\ ~InRange(c, IF Tracked(c) THEN Found(c) ELSE Start(c))
    /\ Go(c, cPc[c], "failed")
    /\ comp' = IF small THEN comp ELSE [comp EXCEPT ![Own(c)] = None]
    /\ UNCHANGED <<object, temp, parent, final, pc, count, doomed, pos, flushed,
                   digestOk, exit, bounds>>

\* The bytes from flushed[c] on are still in the file object's buffer.
Flush(c, from, to) ==
    temp' = [b \in DOMAIN temp \union (from..to - 1) |->
               IF from <= b /\ b < to THEN object ELSE temp[b]]

\* SlicedDownloadFileWrapper.
Wrapped == Sliced /\ ~small

\* A chunk is written, here one byte; the tracker file of a component is
\* updated after the first and the last one, and every so many bytes.
Receive(c) ==
    /\ pos[c] <= End(c)
    /\ \E from \in {"first", "next"}, to \in {"track", "next"} :
          /\ Go(c, from, to)
          /\ Wrapped /\ (from = "first" \/ pos[c] = End(c)) => to = "track"
          /\ ~Wrapped => to = "next"
    /\ pos' = [pos EXCEPT ![c] = @ + 1]
    /\ \E f \in {flushed[c], pos[c], pos[c] + 1} :
          /\ flushed' = [flushed EXCEPT ![c] = f]
          /\ Flush(c, flushed[c], f)
    /\ UNCHANGED <<object, parent, comp, final, pc, count, doomed, digestOk, exit,
                   bounds>>

OpenTracker(c) ==
    /\ Go(c, "track", "torn")
    /\ comp' = [comp EXCEPT ![c] = Torn]
    /\ UNCHANGED <<object, temp, parent, final, pc, count, doomed, pos, flushed,
                   digestOk, exit, bounds>>

WriteTracker(c) ==
    /\ Go(c, "torn", "next")
    /\ comp' = [comp EXCEPT ![c] = Whole(object, pos[c])]
    /\ UNCHANGED <<object, temp, parent, final, pc, count, doomed, pos, flushed,
                   digestOk, exit, bounds>>

\* Closing the file flushes it.
Finish(c) ==
    /\ pos[c] = End(c) + 1
    /\ Go(c, "next", "done")
    /\ Flush(c, flushed[c], pos[c])
    /\ flushed' = [flushed EXCEPT ![c] = pos[c]]
    /\ UNCHANGED <<object, parent, comp, final, pc, count, doomed, pos, digestOk,
                   exit, bounds>>

\* The request fails for good; the file is closed all the same.
FetchFails(c) ==
    /\ \E from \in {"first", "next"} : Go(c, from, "failed")
    /\ Fault
    /\ Flush(c, flushed[c], pos[c])
    /\ flushed' = [flushed EXCEPT ![c] = pos[c]]
    /\ UNCHANGED <<object, parent, comp, final, pc, count, doomed, pos, digestOk,
                   exit>>

Slice(c) ==
    \/ Create(c) \/ Begins(c) \/ Truncate(c) \/ Resume(c) \/ OutOfRange(c)
    \/ Receive(c) \/ OpenTracker(c) \/ WriteTracker(c)
    \/ Finish(c) \/ FetchFails(c)

-----------------------------------------------------------------------------
(* The environment.                                                        *)

\* The process dies, or a signal handler kills it: what is buffered is lost.
Crash ==
    /\ pc # "idle"
    /\ faults < MaxFaults
    /\ faults' = faults + 1
    /\ pc' = "idle" /\ exit' = "crashed" /\ doomed' = <<>> /\ streak' = 0
    /\ orphaned' = (orphaned \/ (doomed # <<>> /\ ParentFile \notin Range(doomed)))
    /\ UNCHANGED <<durable, count, slices, check, small, runs, faulted>>

Overwrite ==
    /\ pc = "idle"
    /\ object < Len(Size)
    /\ object' = object + 1
    /\ streak' = 0
    /\ UNCHANGED <<temp, parent, comp, final, pc, count, doomed, slices, exit,
                   check, small, runs, faults, faulted, orphaned>>

Quiescent == pc = "idle" /\ runs = MaxRuns /\ UNCHANGED vars

Next ==
    \/ Begin \/ Maintain \/ DeleteTracker \/ OpenParent \/ WriteParent
    \/ Resize
    \/ \E c \in Components : Slice(c)
    \/ GiveUp \/ Validate \/ Rename \/ Unlink
    \/ Crash \/ Overwrite
    \/ Quiescent

Spec == Init /\ [][Next]_vars

-----------------------------------------------------------------------------
(* Properties.                                                             *)

SizeMax == CHOOSE s \in {Size[g] : g \in Generations} :
              \A g \in Generations : Size[g] <= s

Files == UNION {[0..l - 1 -> 0..Len(Size)] : l \in 0..SizeMax}

Trackers(values) ==
    {None, Torn} \union {Whole(g, x) : g \in Generations, x \in values}

TypeOK ==
    /\ object \in Generations
    /\ temp \in Files /\ final \in Files
    /\ parent \in Trackers(Counts)
    /\ comp \in [Components \union {SingleFile} -> Trackers(0..SizeMax)]
    /\ pc \in {"idle", "maintain", "restart", "parent", "resize", "fetch",
               "accept", "reject"}
    /\ count \in Counts
    /\ doomed \in Seq(Components \union {SingleFile, ParentFile})
    /\ cPc \in [Components -> {"open", "create", "truncate", "first", "next", "track",
                               "torn", "done", "failed"}]
    /\ pos \in [Components -> 0..SizeMax] /\ flushed \in [Components -> 0..SizeMax]
    /\ digestOk \in [Components -> BOOLEAN]
    /\ check \in CheckHashes /\ small \in Smalls
    /\ exit \in {"none", "ok", "failed", "crashed"}

\* The file that is renamed into place is the object, every byte of it and of
\* one generation, whatever earlier runs left in the temporary file and the
\* tracker files: the digests are taken of what is received, not of the file.
DeliveredIsObject ==
    exit = "ok" /\ pc = "idle" => \E g \in Generations :
        final = [b \in 0..Size[g] - 1 |-> g]

\* After a success the next download of the file, of whatever strategy and
\* partition, takes nothing for downloaded: no tracker file is left, neither
\* the run's own nor one that an earlier run with other settings wrote.  Only
\* a crash in the middle of DeleteDownloadTrackerFiles leaves tracker files
\* of components that nothing finds again.
CleanAfterSuccess ==
    exit = "ok" /\ pc = "idle" =>
        /\ parent = None /\ comp[SingleFile] = None
        /\ orphaned \/ \A c \in Components : comp[c] = None

\* "If you re-try this download it will start from scratch": no trace that an
\* earlier run left makes two runs in a row fail that meet no fault, unless
\* component tracker files were orphaned.
RetryHeals == streak <= 1 \/ orphaned

=============================================================================
