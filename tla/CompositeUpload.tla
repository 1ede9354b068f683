-------------------------- MODULE CompositeUpload --------------------------
(***************************************************************************)
(* Parallel composite upload of one file (copy_helper.py,                  *)
(* _DoParallelCompositeUpload, with parallel_tracker_file.py): the parts   *)
(* of the file are uploaded as temporary objects, composed, and deleted.   *)
(* A tracker file remembers which parts are up, so that the next run of    *)
(* the command after a crash or a failure uploads only the rest.           *)
(*                                                                         *)
(* The name of a component is its prefix, random for each new tracker      *)
(* file, and its number.  An upload makes a new generation of the name; in *)
(* a bucket with versioning the older generations stay.  The source file   *)
(* changes only between runs, and one run at a time uploads it.            *)
(***************************************************************************)
EXTENDS Naturals, Sequences, FiniteSets

CONSTANTS
    Parts,          \* component numbers
    Contents,       \* what a part of the file may contain
    Keys,           \* encryption keys the user may configure
    Versioned,      \* whether the bucket may be versioned: a set of BOOLEANs
    MaxRuns,        \* bound: runs of the command
    MaxFaults,      \* bound: crashes, failed calls and lost answers
    MaxEdits        \* bound: changes to a part of the source file

ASSUME BoundsAssumption ==
    /\ IsFiniteSet(Parts)
    /\ Versioned \subseteq BOOLEAN
    /\ MaxRuns \in Nat /\ MaxFaults \in Nat /\ MaxEdits \in Nat

VARIABLES
    \* what survives a crash: the file, the tracker file, the temporary
    \* objects and the destination object
    source, tracker, store, target,
    \* the service's last generation and the last random prefix
    lastGen, lastPrefix,
    \* one run: its key and prefix, the components it has read from the
    \* tracker file, the state of each part and the generation it will
    \* compose, the components to delete, those it has failed to delete
    pc, key, prefix, existing, part, gen, doomed, undeleted,
    \* failures the run has counted; its exit status
    failures, exit,
    \* history and bounds: the run met a fault; the names of components were
    \* forgotten; a run has asked for a retry and the file is what it was then
    faulted, forgotten, asked, runs, faults, edits, versioned

durable == <<source, tracker, store, target, lastGen, lastPrefix>>
volatile == <<pc, key, prefix, existing, part, gen, doomed, undeleted,
              failures, exit>>
bounds == <<faulted, forgotten, asked, runs, faults, edits, versioned>>
vars == <<durable, volatile, bounds>>

NoKey == "no key"
NoTracker == [there |-> "none", key |-> NoKey, prefix |-> 0, components |-> <<>>]
Torn == [NoTracker EXCEPT !.there = "torn"]
Whole(k, pre, cs) == [there |-> "whole", key |-> k, prefix |-> pre, components |-> cs]

Component(p, g) == [part |-> p, gen |-> g]

Init ==
    /\ source \in [Parts -> Contents]
    /\ tracker = NoTracker
    /\ store = {}
    /\ target = <<>>
    /\ lastGen = 0 /\ lastPrefix = 0
    /\ pc = "idle" /\ key = NoKey /\ prefix = 0 /\ existing = <<>>
    /\ part = [p \in Parts |-> "upload"] /\ gen = [p \in Parts |-> 0]
    /\ doomed = {} /\ undeleted = {}
    /\ failures = 0 /\ exit = "none"
    /\ faulted = FALSE /\ forgotten = FALSE /\ asked = FALSE
    /\ runs = 0 /\ faults = 0 /\ edits = 0
    /\ versioned \in Versioned

Fault ==
    /\ faults < MaxFaults
    /\ faults' = faults + 1
    /\ faulted' = TRUE
    /\ UNCHANGED <<forgotten, asked, runs, edits, versioned>>

-----------------------------------------------------------------------------
(* The tracker file.                                                       *)

Begin ==
    /\ pc = "idle"
    /\ runs < MaxRuns
    /\ runs' = runs + 1
    /\ key' \in Keys
    /\ pc' = "read"
    /\ failures' = 0 /\ exit' = "none" /\ faulted' = FALSE
    /\ undeleted' = {}
    /\ UNCHANGED <<durable, prefix, existing, part, gen, doomed, forgotten,
                   asked, faults, edits, versioned>>

\* Mutant: the key the components were encrypted with is not looked at.
UsableAnyKey == tracker.there = "whole"

\* A torn file parses as a legacy one without prefix or components.
Usable == tracker.there = "whole" /\ tracker.key = key

\* ReadParallelUploadTrackerFile and ValidateParallelCompositeTrackerData:
\* with another key the components are given up.  The list of those to delete
\* stays empty, so nothing is deleted.
ReadTracker ==
    /\ pc = "read"
    /\ pc' = "truncate"
    /\ IF Usable
       THEN /\ prefix' = tracker.prefix
            /\ existing' = tracker.components
            /\ UNCHANGED <<lastPrefix, forgotten>>
       ELSE /\ lastPrefix' = lastPrefix + 1
            /\ prefix' = lastPrefix + 1
            /\ existing' = <<>>
            /\ forgotten' = (forgotten \/ tracker.there # "none")
    /\ UNCHANGED <<source, tracker, store, target, lastGen, key, part, gen,
                   doomed, undeleted, failures, exit, faulted, asked, runs,
                   faults, edits, versioned>>

\* The file is opened with O_TRUNC and then written.
TruncateTracker ==
    /\ pc = "truncate"
    /\ pc' = "write"
    /\ tracker' = Torn
    /\ UNCHANGED <<source, store, target, lastGen, lastPrefix, key, prefix,
                   existing, part, gen, doomed, undeleted, failures, exit, bounds>>

WriteTracker ==
    /\ pc = "write"
    /\ pc' = "filter"
    /\ tracker' = Whole(key, prefix, existing)
    /\ UNCHANGED <<source, store, target, lastGen, lastPrefix, key, prefix,
                   existing, part, gen, doomed, undeleted, failures, exit, bounds>>

-----------------------------------------------------------------------------
(* FilterExistingComponents.                                               *)

Named(p) == {o \in store : o.prefix = prefix /\ o.part = p}

\* The live object of a name, if there is one.
Live(p) == {o \in Named(p) : \A q \in Named(p) : q.gen <= o.gen}

\* The first entry of each part decides about the part.  The file has the same
\* parts in every run, so that an entry always names one of them.
Entries == {i \in 1..Len(existing) :
              \A j \in 1..i - 1 : existing[j].part # existing[i].part}

\* Mutant: a component is reused whatever its contents.
MatchesAnything(i, known) ==
    existing[i].part \in known /\ Live(existing[i].part) # {}

\* The metadata is that of the live object, not of the generation listed.
Matches(i, known) ==
    /\ existing[i].part \in known
    /\ \E o \in Live(existing[i].part) : o.content = source[existing[i].part]

\* "known" are the parts whose metadata could be fetched.
Filter ==
    /\ pc = "filter"
    /\ pc' = "upload"
    /\ \E known \in SUBSET Parts :
          LET reused == {i \in Entries : Matches(i, known)} IN
          /\ IF known = Parts THEN UNCHANGED bounds ELSE Fault
          /\ part' = [p \in Parts |->
                        IF \E i \in reused : existing[i].part = p
                        THEN "reused" ELSE "upload"]
          /\ gen' = [p \in Parts |->
                       IF \E i \in reused : existing[i].part = p
                       THEN (CHOOSE c \in {existing[i] : i \in reused} : c.part = p).gen
                       ELSE 0]
          /\ doomed' = {existing[i] : i \in (1..Len(existing)) \ reused}
    /\ UNCHANGED <<durable, key, prefix, existing, undeleted, failures, exit>>

-----------------------------------------------------------------------------
(* _PerformParallelUploadFileToObject, in parallel for the parts.          *)

Object(p, g) == [prefix |-> prefix, part |-> p, gen |-> g,
                 content |-> source[p], key |-> key]

\* The service stores a part; without versioning the older one is replaced.
Store(p) ==
    /\ lastGen' = lastGen + 1
    /\ store' = (IF versioned THEN store ELSE store \ Named(p))
                  \union {Object(p, lastGen + 1)}

\* The call may come with an answer to it, without one, or fail.
Upload(p) ==
    /\ pc = "upload" /\ part[p] = "upload"
    /\ Store(p)
    /\ \/ /\ part' = [part EXCEPT ![p] = "uploaded"]
          /\ gen' = [gen EXCEPT ![p] = lastGen + 1]
          /\ UNCHANGED <<failures, bounds>>
       \/ /\ part' = [part EXCEPT ![p] = "failed"]
          /\ failures' = failures + 1
          /\ Fault
          /\ UNCHANGED gen
    /\ UNCHANGED <<source, tracker, target, lastPrefix, pc, key, prefix,
                   existing, doomed, undeleted, exit>>

UploadFails(p) ==
    /\ pc = "upload" /\ part[p] = "upload"
    /\ Fault
    /\ part' = [part EXCEPT ![p] = "failed"]
    /\ failures' = failures + 1
    /\ UNCHANGED <<durable, pc, key, prefix, existing, gen, doomed, undeleted,
                   exit>>

LockFree == \A q \in Parts : part[q] # "recording"

\* Mutant: a worker adds to what was read when the run began.
RecordFromMemory(p) ==
    /\ pc = "upload" /\ part[p] = "uploaded"
    /\ LockFree
    /\ part' = [part EXCEPT ![p] = "recording"]
    /\ tracker' = Torn
    /\ UNCHANGED <<source, store, target, lastGen, lastPrefix, pc, key,
                   prefix, existing, gen, doomed, undeleted, failures, exit, bounds>>

\* WriteComponentToParallelUploadTrackerFile, up to the truncation ...
ReadToRecord(p) ==
    /\ pc = "upload" /\ part[p] = "uploaded"
    /\ LockFree
    /\ tracker.key = key    \* else an exception; no other run changes it
    /\ part' = [part EXCEPT ![p] = "recording"]
    /\ existing' = tracker.components
    /\ tracker' = Torn
    /\ UNCHANGED <<source, store, target, lastGen, lastPrefix, pc, key,
                   prefix, gen, doomed, undeleted, failures, exit, bounds>>

\* ... and the write.
Record(p) ==
    /\ pc = "upload" /\ part[p] = "recording"
    /\ part' = [part EXCEPT ![p] = "done"]
    /\ tracker' = Whole(key, prefix, Append(existing, Component(p, gen[p])))
    /\ UNCHANGED <<source, store, target, lastGen, lastPrefix, pc, key,
                   prefix, existing, gen, doomed, undeleted, failures, exit, bounds>>

-----------------------------------------------------------------------------
(* Compose and clean up.                                                   *)

Joined == pc = "upload" /\ \A p \in Parts : part[p] \in {"reused", "done", "failed"}

\* existing_components and what was uploaded are as many as there are parts.
Complete == Joined /\ \A p \in Parts : part[p] # "failed"

\* "Some temporary components were not uploaded successfully.  Please retry this
\* upload."
GiveUp ==
    /\ Joined /\ ~Complete
    /\ pc' = "idle" /\ exit' = "failed" /\ asked' = TRUE
    /\ UNCHANGED <<durable, key, prefix, existing, part, gen, doomed, undeleted,
                   failures, faulted, forgotten, runs, faults, edits, versioned>>

Source(p) == {o \in Named(p) : o.gen = gen[p]}

\* Mutant: only what this run has uploaded is deleted.
UploadedNow == {Component(p, gen[p]) : p \in {q \in Parts : part[q] = "done"}}

\* uploaded_components and existing_components.
Composed == {Component(p, gen[p]) : p \in Parts}

Compose ==
    /\ Complete
    /\ \A p \in Parts : Source(p) # {}
    /\ pc' = "delete"
    /\ target' = [p \in Parts |->
                     [content |-> (CHOOSE o \in Source(p) : TRUE).content,
                      key |-> (CHOOSE o \in Source(p) : TRUE).key]]
    /\ doomed' = doomed \union Composed
    /\ UNCHANGED <<source, tracker, store, lastGen, lastPrefix, key, prefix,
                   existing, part, gen, undeleted, failures, exit, bounds>>

\* One of the source objects does not exist, or the call fails: the tracker
\* file and the components stay.
ComposeFails ==
    /\ Complete
    /\ IF \A p \in Parts : Source(p) # {} THEN Fault ELSE UNCHANGED bounds
    /\ pc' = "idle" /\ exit' = "failed"
    /\ UNCHANGED <<durable, key, prefix, existing, part, gen, doomed,
                   undeleted, failures>>

\* A component that is gone already is no error.
Delete(c) ==
    /\ pc = "delete" /\ c \in doomed
    /\ store' = {o \in Named(c.part) : o.gen # c.gen} \union (store \ Named(c.part))
    /\ doomed' = doomed \ {c}
    /\ UNCHANGED <<source, tracker, target, lastGen, lastPrefix, pc, key,
                   prefix, existing, part, gen, undeleted, failures, exit, bounds>>

\* Apply counts the failure and goes on: no exception comes out of it, so the
\* clause that would "reduce this to a warning" is not reached.
DeleteFails(c) ==
    /\ pc = "delete" /\ c \in doomed
    /\ Fault
    /\ failures' = failures + 1
    /\ doomed' = doomed \ {c}
    /\ undeleted' = undeleted \union {c}
    /\ UNCHANGED <<durable, pc, key, prefix, existing, part, gen, exit>>

\* CommandRunner: return_code = 1 if GetFailureCount() > 0.
ExitStatus == IF failures > 0 THEN "failed" ELSE "ok"

Finish ==
    /\ pc = "delete" /\ doomed = {}
    /\ tracker' = NoTracker
    /\ pc' = "done"
    /\ exit' = ExitStatus
    /\ UNCHANGED <<source, store, target, lastGen, lastPrefix, key, prefix,
                   existing, part, gen, doomed, undeleted, failures, bounds>>

-----------------------------------------------------------------------------
(* The environment.                                                        *)

\* The process dies; what it had in memory is gone.
Crash ==
    /\ pc \notin {"idle", "done"}
    /\ Fault
    /\ pc' = "idle" /\ exit' = "crashed"
    /\ UNCHANGED <<durable, key, prefix, existing, part, gen, doomed,
                   undeleted, failures>>

Edit ==
    /\ pc = "idle"
    /\ edits < MaxEdits
    /\ edits' = edits + 1
    /\ \E p \in Parts, c \in Contents :
          c # source[p] /\ source' = [source EXCEPT ![p] = c]
    /\ asked' = FALSE
    /\ UNCHANGED <<tracker, store, target, lastGen, lastPrefix, volatile,
                   faulted, forgotten, runs, faults, versioned>>

Quiescent == (pc = "done" \/ (pc = "idle" /\ runs = MaxRuns)) /\ UNCHANGED vars

Next ==
    \/ Begin \/ ReadTracker \/ TruncateTracker \/ WriteTracker \/ Filter
    \/ \E p \in Parts : Upload(p) \/ UploadFails(p) \/ ReadToRecord(p) \/ Record(p)
    \/ GiveUp \/ Compose \/ ComposeFails
    \/ \E c \in doomed : Delete(c) \/ DeleteFails(c)
    \/ Finish \/ Crash \/ Edit
    \/ Quiescent

Spec == Init /\ [][Next]_vars

-----------------------------------------------------------------------------
(* Properties.                                                             *)

ComponentType == [part : Parts, gen : Nat]

TypeOK ==
    /\ source \in [Parts -> Contents]
    /\ tracker \in [there : {"none", "torn", "whole"}, key : Keys \union {NoKey},
                    prefix : Nat, components : Seq(ComponentType)]
    /\ \A o \in store : /\ o.prefix \in 1..lastPrefix /\ o.part \in Parts
                        /\ o.gen \in 1..lastGen
                        /\ o.content \in Contents /\ o.key \in Keys
    /\ lastGen \in Nat /\ lastPrefix \in Nat
    /\ pc \in {"idle", "read", "truncate", "write", "filter", "upload",
               "delete", "done"}
    /\ key \in Keys \union {NoKey} /\ prefix \in 0..lastPrefix
    /\ existing \in Seq(ComponentType)
    /\ part \in [Parts -> {"reused", "upload", "uploaded", "recording", "done",
                           "failed"}]
    /\ gen \in [Parts -> Nat]
    /\ doomed \subseteq ComponentType /\ undeleted \subseteq ComponentType
    /\ failures \in Nat /\ exit \in {"none", "ok", "failed", "crashed"}
    /\ versioned \in BOOLEAN

HasComposed == pc \in {"delete", "done"}

\* "These objects, when composed, will match the original file"
\* (_PartitionFile): whatever earlier runs left behind, the composed object is
\* the file as it is in this run.
ComposedMatchesSource ==
    HasComposed => /\ DOMAIN target = Parts
                   /\ \A p \in Parts : target[p].content = source[p]

\* All the parts that are composed are encrypted with the key of the run,
\* although earlier runs may have used another one.
ComposedWithOneKey ==
    HasComposed => \A p \in DOMAIN target : target[p].key = key

\* The workers that add to the tracker file at the same time lose nothing:
\* what is up and recorded stays recorded until the components are deleted.
TrackerKeepsUp ==
    /\ pc = "upload" /\ LockFree =>
          \A p \in Parts : part[p] = "done" =>
             \E i \in 1..Len(tracker.components) :
                tracker.components[i] = Component(p, gen[p])
    /\ pc = "upload" => \A p \in Parts : part[p] = "reused" =>
          \E i \in 1..Len(existing) : existing[i] = Component(p, gen[p])

\* A run that has composed leaves no temporary object behind, neither its own
\* nor one of an earlier run whose part has changed since, but for those it has
\* failed to delete itself, and unless a tracker file was lost or given up with
\* its names.
LeavesOnlyUndeleted ==
    pc = "done" => \/ forgotten \/ versioned
                   \/ \A o \in store : Component(o.part, o.gen) \in undeleted


=============================================================================
