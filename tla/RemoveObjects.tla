---------------------------- MODULE RemoveObjects ----------------------------
(***************************************************************************)
(* gsutil rm (commands/rm.py): the arguments are expanded lazily into the  *)
(* objects they name (name_expansion.py), Apply deletes these one by one   *)
(* or by several workers, folder objects and then the buckets named by     *)
(* arguments are deleted, and the exit status follows from two counts: the *)
(* failures the exception handlers count, op_failure_count, and all that   *)
(* Apply counts, failure_count, which handlers correct downwards.          *)
(*                                                                         *)
(* An object (one generation of one name) is named by its bucket, its      *)
(* directory, a sequence of characters, and whether it is the directory's  *)
(* "_$folder$" object.  A URL names a bucket (its directory is empty) or   *)
(* the objects under a directory.                                          *)
(***************************************************************************)
EXTENDS Integers, Sequences, FiniteSets, SequencesExt

CONSTANTS
    Buckets, Directories,
    Commands,       \* argument lists and flags
    Stores,         \* the contents the service starts with
    MaxTroubles,    \* bound: failed or unanswered requests
    MaxWrites       \* bound: objects and buckets written or deleted by others

NoDir == <<>>
Objects == [bucket : Buckets, dir : Directories, folder : BOOLEAN]
Urls == [bucket : Buckets, dir : Directories \cup {NoDir}]
IsBucket(url) == url.dir = NoDir

ASSUME CommandsAssumption ==
    \A c \in Commands :
        /\ c.urls \in Seq(Urls) /\ c.urls # <<>>
        /\ c.recursive \in BOOLEAN /\ c.force \in BOOLEAN
        /\ c.parallel \in BOOLEAN /\ (c.parallel => c.force)
        /\ c.recursive \/ \A i \in DOMAIN c.urls : ~IsBucket(c.urls[i])
ASSUME StoresAssumption ==
    /\ Stores \subseteq [buckets : SUBSET Buckets, objects : SUBSET Objects]
    /\ \A s \in Stores : \A o \in s.objects : o.bucket \in s.buckets
ASSUME LimitsAssumption == MaxTroubles \in Nat /\ MaxWrites \in Nat

VARIABLES
    store,          \* the service: [buckets, objects]
    command,
    stage,
    urls,           \* the arguments still to be expanded, in order
    listed,         \* objects of the URL under expansion, not yet yielded
    tasks,          \* objects handed to a worker
    bucketsLeft,    \* bucket_urls_to_delete
    failureCount,   \* failure_count
    opFailures,     \* op_failure_count
    bucketNotFound, \* bucket_not_found_count
    status,
    \* history: what was there from the start on, the URLs that were listed,
    \* whether a request failed to be executed, whether anyone wrote, and the
    \* buckets whose deletion rm has no answer to, as it is somebody else's or
    \* the answer was lost
    kept, reached, refused, written, gone,
    troubles, writes

counts == <<failureCount, opFailures, bucketNotFound>>
rmHistory == <<kept, reached, refused, written, gone>>
rmBounds == <<troubles, writes>>
rmVars == <<store, command, stage, urls, listed, tasks, bucketsLeft, counts,
          status, rmHistory, rmBounds>>

Stages == {"objects", "checks", "folders", "buckets", "end", "done"}

RmTypeOK ==
    /\ store \in [buckets : SUBSET Buckets, objects : SUBSET Objects]
    /\ \A o \in store.objects : o.bucket \in store.buckets
    /\ stage \in Stages
    /\ urls \in Seq(Urls) /\ listed \subseteq Objects /\ tasks \subseteq Objects
    /\ ~command.parallel => Cardinality(tasks) <= 1
    /\ failureCount \in Int /\ opFailures \in Nat /\ bucketNotFound \in Nat
    /\ status \in {"none", "ok", "failed"} /\ (status = "none" <=> stage # "done")

\* The arguments at these places of the command line, in their order.
Arguments(places) ==
    LET order == CHOOSE p \in SetToSeqs(places) :
                     \A i, j \in DOMAIN p : i < j => p[i] < p[j]
    IN  [k \in DOMAIN order |-> command.urls[order[k]]]

\* The bucket URLs, to be deleted last.
ToDelete ==
    Arguments({i \in DOMAIN command.urls : IsBucket(command.urls[i])})

RmInit ==
    /\ store \in Stores
    /\ command \in Commands
    /\ stage = "objects"
    /\ urls = command.urls /\ listed = {} /\ tasks = {}
    /\ bucketsLeft = ToDelete
    /\ failureCount = 0 /\ opFailures = 0 /\ bucketNotFound = 0
    /\ status = "none"
    /\ kept = store.objects /\ reached = {}
    /\ refused = FALSE /\ written = FALSE /\ gone = {}
    /\ troubles = 0 /\ writes = 0

Trouble == troubles < MaxTroubles /\ troubles' = troubles + 1 /\ UNCHANGED writes

Exit(st) == stage' = "done" /\ status' = st
GoTo(next) == stage' = next /\ UNCHANGED status

-----------------------------------------------------------------------------
(* Name expansion.                                                         *)

\* What a URL, or a folder wildcard made from one, matches.
Matches(url) ==
    {o \in store.objects :
        /\ o.bucket = url.bucket
        /\ IF stage = "folders" THEN o.folder /\ IsPrefix(url.dir, o.dir)
           ELSE IsBucket(url) \/ (o.dir = url.dir /\ ~o.folder)}

Expanding == stage \in {"objects", "folders"}

\* The iterator is asked for more when what it gave is under way; with one
\* thread, when that is done.
MayExpand == /\ Expanding /\ urls # <<>> /\ listed = {}
             /\ command.parallel \/ tasks = {}

\* fail_on_error, as far as Apply honours it.
FailFast == stage = "objects" /\ ~command.force

\* continue_on_error of the iterator; a generator that raises has ended.
Continues == stage = "objects" /\ command.force

\* Apply counts the failure.
Counted == failureCount' = failureCount + 1

\* _RemoveExceptionHandler and _RemoveFoldersExceptionHandler (which raises
\* anew what it does not expect, so that only Apply has counted it).  Kinds:
\* "bucket" (no URLs matched a bucket to be deleted), "nothing" (no URLs
\* matched), "missing" (bucket not found), "denied".
Handler(kind) ==
    IF stage = "folders"
    THEN /\ IF kind \in {"nothing", "missing"} THEN UNCHANGED failureCount
            ELSE Counted
         /\ UNCHANGED <<opFailures, bucketNotFound>>
    ELSE CASE kind = "missing" -> Counted /\ bucketNotFound' = bucketNotFound + 1
                                  /\ UNCHANGED opFailures
           [] kind = "bucket" -> UNCHANGED counts
           [] OTHER -> Counted /\ opFailures' = opFailures + 1
                       /\ UNCHANGED bucketNotFound

\* Apply raises; RunCommand forgives a bucket to be deleted that is empty.
Raise(kind) ==
    /\ UNCHANGED <<opFailures, bucketNotFound>>
    /\ IF kind = "bucket" THEN UNCHANGED failureCount /\ GoTo("checks")
       ELSE Counted /\ Exit("failed")

NothingMatched(url) ==
    IF url \in Range(ToDelete) /\ stage = "objects" THEN "bucket" ELSE "nothing"

\* The iterator raises instead of yielding an object.
IteratorRaises(kind) ==
    /\ listed' = {}
    /\ IF FailFast THEN urls' = <<>> /\ Raise(kind)
       ELSE /\ urls' = IF Continues /\ kind \in {"bucket", "nothing"}
                       THEN Tail(urls) ELSE <<>>
            /\ Handler(kind)
            /\ GoTo(stage)

\* History: the argument was listed for its objects.
Reaches == reached' = IF stage = "objects" THEN reached \cup {Head(urls)}
                      ELSE reached

ExpandUnchanged ==
    UNCHANGED <<store, command, tasks, bucketsLeft, kept, written, gone>>

Expand ==
    /\ MayExpand
    /\ Head(urls).bucket \in store.buckets
    /\ Matches(Head(urls)) # {}
    /\ listed' = Matches(Head(urls))
    /\ urls' = Tail(urls)
    /\ Reaches
    /\ UNCHANGED <<stage, status, counts, refused, rmBounds>> /\ ExpandUnchanged

ExpandNothing ==
    /\ MayExpand
    /\ Head(urls).bucket \in store.buckets
    /\ Matches(Head(urls)) = {}
    /\ IteratorRaises(NothingMatched(Head(urls)))
    /\ Reaches
    /\ UNCHANGED <<refused, rmBounds>> /\ ExpandUnchanged

ExpandMissing ==
    /\ MayExpand
    /\ Head(urls).bucket \notin store.buckets
    /\ IteratorRaises("missing")
    /\ UNCHANGED <<reached, refused, rmBounds>> /\ ExpandUnchanged

\* The listing is refused.
ExpandFails ==
    /\ MayExpand
    /\ IteratorRaises("denied")
    /\ refused' = TRUE /\ Trouble
    /\ UNCHANGED reached /\ ExpandUnchanged

HandOut ==
    /\ Expanding
    /\ command.parallel \/ tasks = {}
    /\ \E o \in listed :
           listed' = listed \ {o} /\ tasks' = tasks \cup {o}
    /\ UNCHANGED <<store, command, stage, urls, bucketsLeft, counts, status,
                   rmHistory, rmBounds>>

-----------------------------------------------------------------------------
(* RemoveFunc.                                                             *)

TaskUnchanged == UNCHANGED <<command, bucketsLeft, kept, reached, written, gone>>

RunGoesOn == UNCHANGED <<stage, status, urls, listed>>

\* Mutant: an object that is gone is a failure.
NotFoundCounted == Counted

\* What was not found was deleted: the failure, if there was one, is taken
\* back.  (DeleteObject's own retries raise nothing, so there was none.)
NotFound == failureCount' = failureCount - 1

Delete(o) ==
    /\ o \in tasks /\ tasks' = tasks \ {o}
    /\ o \in store.objects
    /\ store' = [store EXCEPT !.objects = @ \ {o}]
    /\ \/ UNCHANGED <<counts, rmBounds>>
       \* The answer was lost, and the request repeated by the API layer.
       \/ NotFound /\ Trouble /\ UNCHANGED <<opFailures, bucketNotFound>>
    /\ UNCHANGED refused /\ RunGoesOn /\ TaskUnchanged

DeleteNotFound(o) ==
    /\ o \in tasks /\ tasks' = tasks \ {o}
    /\ o \notin store.objects
    /\ NotFound
    /\ UNCHANGED <<store, opFailures, bucketNotFound, refused, rmBounds>>
    /\ RunGoesOn /\ TaskUnchanged

DeleteFails(o) ==
    /\ o \in tasks
    /\ refused' = TRUE /\ Trouble
    /\ IF FailFast THEN /\ Raise("denied")
                        /\ tasks' = {} /\ listed' = {} /\ urls' = <<>>
       ELSE Handler("denied") /\ tasks' = tasks \ {o} /\ RunGoesOn
    /\ UNCHANGED store /\ TaskUnchanged

-----------------------------------------------------------------------------
(* RunCommand after the objects.                                           *)

Drained == urls = <<>> /\ listed = {} /\ tasks = {}
CommandUnchanged == UNCHANGED <<store, command, listed, tasks, bucketsLeft,
                                counts, rmHistory, rmBounds>>

Applied ==
    /\ stage = "objects" /\ Drained
    /\ GoTo("checks")
    /\ UNCHANGED urls /\ CommandUnchanged

FolderUrls ==
    Arguments({i \in DOMAIN command.urls : ~IsBucket(command.urls[i])})

Check ==
    /\ stage = "checks"
    /\ IF bucketNotFound > 0 \/ (opFailures > 0 /\ ~command.force)
       THEN Exit("failed") /\ UNCHANGED urls
       ELSE GoTo("folders") /\ urls' = IF command.recursive THEN FolderUrls ELSE <<>>
    /\ CommandUnchanged

FoldersApplied ==
    /\ stage = "folders" /\ Drained
    /\ GoTo("buckets")
    /\ UNCHANGED urls /\ CommandUnchanged

BucketUnchanged == UNCHANGED <<command, urls, listed, tasks, counts, kept,
                               reached, written>>

Empty(b) == b \in store.buckets /\ \A o \in store.objects : o.bucket # b

Unbucket(b) == store' = [store EXCEPT !.buckets = @ \ {b}]

DeleteBucket ==
    /\ stage = "buckets" /\ bucketsLeft # <<>>
    /\ LET b == Head(bucketsLeft).bucket IN
           \/ /\ Empty(b)
              /\ Unbucket(b) /\ bucketsLeft' = Tail(bucketsLeft)
              /\ UNCHANGED <<stage, status, refused, gone, rmBounds>>
           \* The answer was lost, and the request repeated by the API layer:
           \* unlike RemoveFunc, RunCommand does not catch the 404.
           \/ /\ Empty(b)
              /\ Unbucket(b) /\ gone' = gone \cup {b} /\ Trouble
              /\ Exit("failed")
              /\ UNCHANGED <<bucketsLeft, refused>>
           \* NotEmptyException three times, or NotFoundException.
           \/ /\ ~Empty(b)
              /\ Exit("failed")
              /\ UNCHANGED <<store, bucketsLeft, refused, gone, rmBounds>>
           \/ /\ refused' = TRUE /\ Trouble
              /\ Exit("failed")
              /\ UNCHANGED <<store, bucketsLeft, gone>>
    /\ BucketUnchanged

BucketsDeleted ==
    /\ stage = "buckets" /\ bucketsLeft = <<>>
    /\ GoTo("end")
    /\ UNCHANGED urls /\ CommandUnchanged

\* Mutant: only what Apply counts decides.
StatusOfApply == IF failureCount > 0 THEN "failed" ELSE "ok"

\* RunCommand's last check and RunNamedCommand's.
ExitStatus == IF opFailures > 0 \/ failureCount > 0 THEN "failed" ELSE "ok"

Return ==
    /\ stage = "end"
    /\ Exit(ExitStatus)
    /\ UNCHANGED urls /\ CommandUnchanged

Other ==
    /\ stage # "done"
    /\ writes < MaxWrites /\ writes' = writes + 1
    /\ UNCHANGED <<command, stage, urls, listed, tasks, bucketsLeft, counts,
                   status, reached, refused, troubles>>

\* Somebody else writes or deletes an object.
OthersWrite ==
    /\ Other
    /\ \E o \in Objects :
           /\ o.bucket \in store.buckets
           /\ kept' = kept \ {o}
           /\ \/ /\ o \notin store.objects /\ written' = TRUE
                 /\ store' = [store EXCEPT !.objects = @ \cup {o}]
              \/ /\ o \in store.objects /\ UNCHANGED written
                 /\ store' = [store EXCEPT !.objects = @ \ {o}]
    /\ UNCHANGED gone

\* Somebody else deletes a bucket, which the service allows if it is empty.
OthersDeleteBucket ==
    /\ Other
    /\ \E b \in Buckets : Empty(b) /\ Unbucket(b) /\ gone' = gone \cup {b}
    /\ UNCHANGED <<kept, written>>

Stopped == stage = "done" /\ UNCHANGED rmVars

RmNext ==
    \/ Expand \/ ExpandNothing \/ ExpandMissing \/ ExpandFails \/ HandOut
    \/ \E o \in tasks : Delete(o) \/ DeleteNotFound(o) \/ DeleteFails(o)
    \/ Applied \/ Check \/ FoldersApplied
    \/ DeleteBucket \/ BucketsDeleted \/ Return
    \/ OthersWrite \/ OthersDeleteBucket
    \/ Stopped

RmSpec == RmInit /\ [][RmNext]_rmVars

-----------------------------------------------------------------------------

Asked(o, url) == o.bucket = url.bucket /\ (IsBucket(url) \/ o.dir = url.dir)

Left == {o \in kept \cap store.objects :
             \E i \in DOMAIN command.urls : Asked(o, command.urls[i])}

\* Exit status 0 is true, as far as the expansion went: no object under an
\* argument it listed is left that was there when the command started, and no
\* bucket.  With -f or -m it reaches every argument.  Folder objects are
\* another matter: a listing that finds none, or a 403 that a 404 cancels in
\* the count of failures, leaves one behind.
SuccessRemovesObjects ==
    status = "ok" =>
        /\ \A o \in Left : ~o.folder =>
               \A url \in Range(command.urls) : Asked(o, url) =>
                   url \notin reached /\ ~command.force
        /\ \A url \in Range(ToDelete) : url.bucket \notin store.buckets

\* The deletion that ended rm was of a bucket that had gone already.
AlarmAtGone == bucketsLeft # <<>> /\ Head(bucketsLeft).bucket \in gone

\* No false alarm about objects: rm -r of buckets with -f or -m, which are all
\* there when they are listed, exits with 0 if no request was refused and nobody
\* wrote an object, whoever else deletes them and whichever answers were lost;
\* only a bucket whose deletion has no answer, as somebody else was first or the
\* answer was lost, is reported.
NoFalseAlarm ==
    /\ status = "failed" /\ command.force /\ ~refused /\ ~written
    /\ Range(command.urls) = Range(ToDelete) /\ IsInjective(command.urls)
    => bucketNotFound > 0 \/ AlarmAtGone

=============================================================================
