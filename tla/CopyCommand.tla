----------------------------- MODULE CopyCommand -----------------------------
(***************************************************************************)
(* gsutil cp and mv of cloud objects (CpCommand.CopyFunc, PerformCopy): for *)
(* each source a worker looks at the manifest and, with -n, at the          *)
(* destination; copies, by rewriting the object in the service or by a      *)
(* download through a temporary file; writes its row of the manifest; and,  *)
(* for mv, deletes the source.  Runs of the same command may be killed and  *)
(* repeated; manifest, temporary files and rewrite tracker files stay.      *)
(*                                                                          *)
(* Contents are numbered in the order in which users write them, so that a  *)
(* number says which version of what it is.  The transfer of the data of a  *)
(* download is one step: its own failures are the subject of                *)
(* ObjectDownload.  The service keeps what a rewrite has begun to copy.     *)
(***************************************************************************)
EXTENDS Integers, Sequences, FiniteSets

CONSTANTS
    Sources, Dests,
    Commands,       \* jobs (in order), direction and flags
    Initials,       \* contents of sources and destinations to begin with
    FirstNew,       \* contents below this number are Initials
    MaxRuns,        \* bound: runs of the command
    MaxFaults,      \* bound: failed or unanswered requests and crashes
    MaxChanges      \* bound: writes by others

Nothing == 0
JobRecords == [src : Sources, dst : Dests]
NoToken == [hash |-> Nothing, pinned |-> Nothing]

ASSUME CommandsAssumption ==
    \A c \in Commands :
        /\ c.jobs \in Seq(JobRecords) /\ c.to \in {"cloud", "file"}
        /\ {c.mv, c.noClobber, c.manifest, c.keepGoing, c.parallel} \subseteq BOOLEAN
ASSUME InitialsAssumption ==
    /\ FirstNew \in Nat \ {0}
    /\ \A i \in Initials : /\ i.source \in [Sources -> 0..FirstNew - 1]
                           /\ i.dest \in [Dests -> 0..FirstNew - 1]
ASSUME BoundsAssumption ==
    MaxRuns \in Nat /\ MaxFaults \in Nat /\ MaxChanges \in Nat

VARIABLES
    source, dest,   \* the contents of sources and destinations
    temp,           \* the destinations beside which a temporary file is
    tokens,         \* rewrite tracker files: what hash and token stand for
    rows,           \* sources the manifest marks OK or skip
    opts, running,
    pc, meta,       \* per job: where it is; what the listing said is there
    pinned,         \* per job: what its rewrite token copies
    openFiles,      \* open_files_map
    filter,         \* manifest_filter
    failures, exit,
    \* history: what each source held during the last run, and ever; what
    \* others wrote to or deleted
    held, heldEver, touched, intruded,
    next,           \* the number of the next content
    runs, faults, changes

files == <<source, dest, temp, tokens, rows>>
job == <<pc, meta, pinned>>
process == <<running, openFiles, filter, failures, exit>>
history == <<held, heldEver, touched, intruded, next>>
bounds == <<runs, faults, changes>>
vars == <<files, opts, job, process, history, bounds>>

Jobs == DOMAIN opts.jobs
Src(j) == opts.jobs[j].src
Dst(j) == opts.jobs[j].dst

\* The steps of a job that has the temporary file to itself.
Writing == {"open", "renamed"}

TypeOK ==
    /\ opts \in Commands
    /\ source \in [Sources -> Nat] /\ dest \in [Dests -> Nat]
    /\ temp \subseteq Dests /\ rows \subseteq Sources /\ openFiles \subseteq Dests
    /\ tokens \in [JobRecords -> [hash : Nat, pinned : Nat]]
    /\ pc \in [Jobs -> {"waiting", "listed", "checked", "rewriting",
                        "unlinked", "file", "copied", "moving", "done"} \cup Writing]
    /\ meta \in [Jobs -> Nat] /\ pinned \in [Jobs -> Nat]
    /\ failures \in Nat /\ exit \in {"none", "ok", "failed"}
    /\ heldEver \in [Sources -> SUBSET Nat]
    /\ touched \subseteq Sources /\ intruded \subseteq Dests /\ next \in Nat

Init ==
    /\ opts \in Commands
    /\ \E i \in Initials : source = i.source /\ dest = i.dest
    /\ temp = {} /\ tokens = [k \in JobRecords |-> NoToken] /\ rows = {}
    /\ running = FALSE /\ exit = "none" /\ failures = 0
    /\ pc = [j \in Jobs |-> "done"]
    /\ meta = [j \in Jobs |-> Nothing] /\ pinned = [j \in Jobs |-> Nothing]
    /\ openFiles = {} /\ filter = {}
    /\ heldEver = [s \in Sources |-> {source[s]}] /\ held = heldEver
    /\ touched = {} /\ intruded = {} /\ next = FirstNew
    /\ runs = 0 /\ faults = 0 /\ changes = 0

Fault == faults < MaxFaults /\ faults' = faults + 1 /\ UNCHANGED <<runs, changes>>

\* The command starts, or starts again.
Begin ==
    /\ ~running /\ runs < MaxRuns
    /\ running' = TRUE /\ runs' = runs + 1
    /\ pc' = [j \in Jobs |-> "waiting"]
    /\ meta' = [j \in Jobs |-> Nothing] /\ pinned' = [j \in Jobs |-> Nothing]
    /\ openFiles' = {} /\ filter' = rows
    /\ failures' = 0 /\ exit' = "none"
    /\ held' = [s \in Sources |-> {source[s]}]
    /\ UNCHANGED <<files, opts, heldEver, touched, intruded, next, faults, changes>>

-----------------------------------------------------------------------------
(* How a job goes on or ends.                                              *)

Step(j, from, to) == pc[j] = from /\ pc' = [pc EXCEPT ![j] = to]
Job(j, from) == running /\ pc[j] = from

GoesOn == UNCHANGED <<opts, meta, running, filter, failures, exit, history>>

\* The manifest's row for a source that was copied or skipped.
Row(j) == rows' = IF opts.manifest THEN rows \cup {Src(j)} ELSE rows

\* Mutant: with -c or -m the exception is only logged.
FailUncounted(j) ==
    /\ pc' = [pc EXCEPT ![j] = "done"]
    /\ UNCHANGED <<failures, running, exit, opts, meta, pinned, filter, history>>

\* The exception is counted; in one thread it ends the command.
Fail(j) ==
    /\ failures' = failures + 1
    /\ IF opts.keepGoing \/ opts.parallel
       THEN pc' = [pc EXCEPT ![j] = "done"] /\ UNCHANGED <<running, exit>>
       ELSE /\ pc' = [i \in Jobs |-> "done"]
            /\ running' = FALSE /\ exit' = "failed"
    /\ UNCHANGED <<opts, meta, pinned, filter, history>>

\* One thread takes the jobs in order.
Turn(j) == opts.parallel \/ \A i \in 1..j - 1 : pc[i] = "done"

-----------------------------------------------------------------------------
(* Expansion of the arguments, and the beginning of CopyFunc.              *)

\* The listing may run ahead of the copies.
List(j) ==
    /\ Job(j, "waiting") /\ \A i \in 1..j - 1 : pc[i] # "waiting"
    /\ source[Src(j)] # Nothing
    /\ Step(j, "waiting", "listed")
    /\ meta' = [meta EXCEPT ![j] = source[Src(j)]]
    /\ UNCHANGED <<files, opts, pinned, process, history, bounds>>

ListNothing(j) ==
    /\ Job(j, "waiting") /\ \A i \in 1..j - 1 : pc[i] # "waiting"
    /\ source[Src(j)] = Nothing /\ Turn(j)
    /\ Fail(j)
    /\ UNCHANGED <<files, openFiles, bounds>>

Start(j) ==
    /\ Job(j, "listed") /\ Turn(j)
    /\ CASE Src(j) \in filter -> Step(j, "listed", "done") /\ UNCHANGED rows
         [] Src(j) \notin filter /\ opts.noClobber /\ dest[Dst(j)] # Nothing ->
                Step(j, "listed", "done") /\ Row(j)
         [] OTHER -> Step(j, "listed", "checked") /\ UNCHANGED rows
    /\ GoesOn /\ UNCHANGED <<source, dest, temp, tokens, pinned, openFiles, bounds>>

\* A request before the one that copies fails, or the source is gone.
StartFails(j) ==
    /\ running /\ pc[j] \in {"checked", "rewriting"}
    /\ opts.to = "cloud"
    /\ Fail(j)
    /\ Fault \/ (source[Src(j)] = Nothing /\ pc[j] = "checked" /\ UNCHANGED bounds)
    /\ UNCHANGED <<files, openFiles>>

-----------------------------------------------------------------------------
(* CopyObject: rewriting in the service.                                   *)

\* Mutant: any token will do.
AnyToken(j) == tokens[opts.jobs[j]].hash # Nothing

\* ReadRewriteTrackerFile: the etag is among the parameters that are hashed.
HasToken(j) == tokens[opts.jobs[j]].hash = meta[j]

\* What a call to rewrite copies.
Rewritten(j) == CASE pc[j] = "rewriting" -> pinned[j]
                  [] pc[j] # "rewriting" /\ HasToken(j) -> tokens[opts.jobs[j]].pinned
                  [] OTHER -> source[Src(j)]

\* The precondition ifGenerationMatch=0.
Allowed(j) == opts.noClobber => dest[Dst(j)] = Nothing

\* Mutant: the source is what matters, not how the copy ended.
SkipAndMove(j) ==
    pc' = [pc EXCEPT ![j] = IF opts.mv THEN "moving" ELSE "done"]

\* IsNoClobberServerException: no failure, and no deletion.
Skip(j) == pc' = [pc EXCEPT ![j] = "done"]

Ready(j) == running /\ pc[j] \in {"checked", "rewriting"} /\ opts.to = "cloud"
            /\ Rewritten(j) # Nothing

\* A call that does not finish: the token is kept in the tracker file.
RewriteBegins(j) ==
    /\ Ready(j) /\ pc[j] = "checked"
    /\ pinned' = [pinned EXCEPT ![j] = Rewritten(j)]
    /\ tokens' = [tokens EXCEPT ![opts.jobs[j]] =
                      [hash |-> meta[j], pinned |-> Rewritten(j)]]
    /\ Step(j, "checked", "rewriting")
    /\ GoesOn /\ UNCHANGED <<source, dest, temp, rows, openFiles, bounds>>

RewriteEnds(j) ==
    /\ Ready(j) /\ Allowed(j)
    /\ dest' = [dest EXCEPT ![Dst(j)] = Rewritten(j)]
    /\ tokens' = [tokens EXCEPT ![opts.jobs[j]] = NoToken]
    /\ Step(j, pc[j], "copied")
    /\ GoesOn /\ UNCHANGED <<source, temp, rows, pinned, openFiles, bounds>>

\* The answer is lost, and the request will be repeated.
RewriteUnanswered(j) ==
    /\ Ready(j) /\ Allowed(j) /\ Fault
    /\ dest' = [dest EXCEPT ![Dst(j)] = Rewritten(j)]
    /\ GoesOn /\ UNCHANGED <<source, temp, tokens, rows, pc, pinned, openFiles>>

RewriteRejected(j) ==
    /\ Ready(j) /\ ~Allowed(j)
    /\ Skip(j) /\ Row(j)
    /\ GoesOn /\ UNCHANGED <<source, dest, temp, tokens, pinned, openFiles, bounds>>

-----------------------------------------------------------------------------
(* _DownloadObjectToFile.                                                  *)

FileUnchanged == GoesOn /\ UNCHANGED <<source, tokens, pinned, bounds>>

\* The old file is deleted.
GetDownloadFile(j) ==
    /\ Job(j, "checked") /\ opts.to = "file"
    /\ Step(j, "checked", "unlinked")
    /\ dest' = [dest EXCEPT ![Dst(j)] = Nothing]
    /\ FileUnchanged /\ UNCHANGED <<temp, rows, openFiles>>

\* The temporary file is created, unless there is one.
CreateTemp(j) ==
    /\ Job(j, "unlinked")
    /\ Step(j, "unlinked", "file")
    /\ temp' = temp \cup {Dst(j)}
    /\ FileUnchanged /\ UNCHANGED <<dest, rows, openFiles>>

\* Mutant: the name is not looked up.
NeverOpen(j) == FALSE

IsOpen(j) == Dst(j) \in openFiles

Open(j) ==
    /\ Job(j, "file")
    /\ IF IsOpen(j) THEN Step(j, "file", "done") /\ UNCHANGED openFiles
       ELSE Step(j, "file", "open") /\ openFiles' = openFiles \cup {Dst(j)}
    /\ FileUnchanged /\ UNCHANGED <<dest, temp, rows>>

\* The bytes are there, their hash is the listing's: the file gets its name.
Rename(j) ==
    /\ Job(j, "open") /\ Dst(j) \in temp /\ source[Src(j)] = meta[j]
    /\ Step(j, "open", "renamed")
    /\ dest' = [dest EXCEPT ![Dst(j)] = meta[j]]
    /\ temp' = temp \ {Dst(j)}
    /\ FileUnchanged /\ UNCHANGED <<rows, openFiles>>

\* The download raises; the name stays in open_files_map.
DownloadFails(j) ==
    /\ Job(j, "open")
    /\ \/ Fault /\ UNCHANGED temp
       \* The temporary file or the object is gone, or the hash another.
       \/ /\ Dst(j) \notin temp \/ source[Src(j)] # meta[j]
          /\ temp' = IF source[Src(j)] = Nothing THEN temp ELSE temp \ {Dst(j)}
          /\ UNCHANGED bounds
    /\ Fail(j)
    /\ UNCHANGED <<source, dest, tokens, rows, openFiles>>

Release(j) ==
    /\ Job(j, "renamed")
    /\ Step(j, "renamed", "copied")
    /\ openFiles' = openFiles \ {Dst(j)}
    /\ FileUnchanged /\ UNCHANGED <<dest, temp, rows>>

-----------------------------------------------------------------------------
(* The end of CopyFunc, and of the command.                                *)

Record(j) ==
    /\ Job(j, "copied")
    /\ Step(j, "copied", IF opts.mv THEN "moving" ELSE "done")
    /\ Row(j)
    /\ GoesOn /\ UNCHANGED <<source, dest, temp, tokens, pinned, openFiles, bounds>>

\* DeleteObject without a generation: whatever is there now.
Move(j) ==
    /\ Job(j, "moving") /\ source[Src(j)] # Nothing
    /\ Step(j, "moving", "done")
    /\ source' = [source EXCEPT ![Src(j)] = Nothing]
    /\ GoesOn /\ UNCHANGED <<dest, temp, tokens, rows, pinned, openFiles, bounds>>

\* The source is gone already, the request is refused, or its answer is lost
\* and the repeated one says NotFound.
MoveFails(j) ==
    /\ Job(j, "moving")
    /\ \/ source[Src(j)] = Nothing /\ UNCHANGED <<source, bounds>>
       \/ Fault /\ UNCHANGED source
       \/ Fault /\ source' = [source EXCEPT ![Src(j)] = Nothing]
    /\ Fail(j)
    /\ UNCHANGED <<dest, temp, tokens, rows, openFiles>>

Finish ==
    /\ running /\ \A j \in Jobs : pc[j] = "done"
    /\ running' = FALSE
    /\ exit' = IF failures > 0 THEN "failed" ELSE "ok"
    /\ UNCHANGED <<files, opts, job, openFiles, filter, failures, history, bounds>>

Crash ==
    /\ running /\ Fault
    /\ running' = FALSE /\ exit' = "failed"
    /\ pc' = [j \in Jobs |-> "done"]
    /\ UNCHANGED <<files, opts, meta, pinned, openFiles, filter, failures, history>>

\* Somebody else writes a source or a destination, or deletes a source.
Change ==
    /\ changes < MaxChanges /\ changes' = changes + 1
    /\ \/ \E s \in Sources, c \in {Nothing, next} :
              /\ source' = [source EXCEPT ![s] = c]
              /\ held' = [held EXCEPT ![s] = @ \cup {c}]
              /\ heldEver' = [heldEver EXCEPT ![s] = @ \cup {c}]
              /\ touched' = touched \cup {s}
              /\ UNCHANGED <<dest, intruded>>
       \/ \E d \in Dests :
              /\ dest' = [dest EXCEPT ![d] = next]
              /\ intruded' = intruded \cup {d}
              /\ UNCHANGED <<source, held, heldEver, touched>>
    /\ next' = next + 1
    /\ UNCHANGED <<temp, tokens, rows, opts, job, process, runs, faults>>

Copy(j) ==
    \/ List(j) \/ ListNothing(j) \/ Start(j) \/ StartFails(j)
    \/ RewriteBegins(j) \/ RewriteEnds(j) \/ RewriteUnanswered(j) \/ RewriteRejected(j)
    \/ GetDownloadFile(j) \/ CreateTemp(j) \/ Open(j) \/ Rename(j) \/ DownloadFails(j)
    \/ Release(j) \/ Record(j) \/ Move(j) \/ MoveFails(j)

Next == Begin \/ (\E j \in Jobs : Copy(j)) \/ Finish \/ Crash \/ Change

Spec == Init /\ [][Next]_vars

-----------------------------------------------------------------------------

\* At most one download at a time has a temporary file, and open_files_map
\* holds its name as long: the test, the entry and its removal are made by
\* different workers.
OneWriter ==
    \A i, j \in Jobs : /\ {pc[i], pc[j]} \subseteq Writing
                      /\ Dst(i) = Dst(j)
                      => i = j /\ Dst(j) \in openFiles

OwnDests == \A i, j \in Jobs : Dst(i) = Dst(j) => i = j

\* mv loses nothing: what was at a source at the beginning is there or at one
\* of its destinations, in every state of every run, unless somebody else
\* wrote to one of them.  Two sources may have the same destination if the
\* service refuses to clobber it; what -n skips must not be deleted.
JobsOf(s) == {j \in Jobs : Src(j) = s}

Alone(s) == s \notin touched /\ \A j \in JobsOf(s) : Dst(j) \notin intruded

Safe == OwnDests \/ (opts.noClobber /\ opts.to = "cloud")

MoveLosesNothing ==
    opts.mv /\ Safe =>
        \A s \in Sources : Alone(s) =>
            heldEver[s] \subseteq {source[s]} \cup {dest[Dst(j)] : j \in JobsOf(s)}

\* mv that succeeds has moved: no source is left that nobody else wrote, if
\* neither -n nor a manifest is given.  (With a manifest, a crash or a failed
\* deletion after the row leaves the source for ever.)
MoveLeavesNothing ==
    exit = "ok" /\ opts.mv /\ OwnDests /\ ~opts.noClobber /\ ~opts.manifest =>
        \A j \in Jobs : Src(j) \notin touched => source[Src(j)] = Nothing

\* Success delivers: after exit status 0 each destination holds what one of
\* its sources held during the run, or ever, if the manifest says so; with -n
\* it holds something.  Nobody else has written to it, and no two
\* downloads at a time aimed at it.
Delivered(j) ==
    \E i \in Jobs :
        /\ Dst(i) = Dst(j)
        /\ dest[Dst(j)] \in (IF Src(i) \in filter THEN heldEver ELSE held)[Src(i)]
                            \ {Nothing}

SuccessDelivers ==
    exit = "ok" /\ (OwnDests \/ opts.to = "cloud" \/ ~opts.parallel) =>
        \A j \in Jobs :
            Dst(j) \notin intruded =>
                IF opts.noClobber THEN dest[Dst(j)] # Nothing ELSE Delivered(j)

=============================================================================
