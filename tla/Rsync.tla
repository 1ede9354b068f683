-------------------------------- MODULE Rsync --------------------------------
(***************************************************************************)
(* gsutil rsync (commands/rsync.py): two workers list the source and the   *)
(* destination into sorted files, _DiffIterator merges the two files into  *)
(* operations while workers carry out, in any order, the operations it has *)
(* already yielded, and the exit status counts the operations that failed. *)
(*                                                                         *)
(* A name is a sequence of characters, numbered in the order of their URL  *)
(* encodings.  An item is its data and its mtime (NoTime where an object   *)
(* has none); the service creates data d at time d.  Downloads go through  *)
(* a temporary file beside the destination, which a run may leave behind   *)
(* and which the next one lists.  The source may change at any time.       *)
(***************************************************************************)
EXTENDS Integers, Sequences, FiniteSets, Functions, SequencesExt

CONSTANTS
    Names,          \* names under the source and the destination
    Items,          \* what a name may hold: [data, mtime]
    Options,        \* direction and flags of the command
    Initials,       \* the contents source and destination start with
    MaxRuns,        \* bound: runs of the command
    MaxFaults,      \* bound: failed requests
    MaxChanges      \* bound: changes of the source by others

\* The encodings %2F, %40, %5C, a letter, and what ends a temporary name.
Slash == 1
At == 2
Backslash == 3
Letter == 4
Suffix == 5

NoTime == 0
Partial == [data |-> 0, mtime |-> NoTime]
Sides == {"src", "dst"}

\* The temporary name of a download.
Temp(n) == Append(n, Suffix)
IsTemp(n) == n[Len(n)] = Suffix

ASSUME NamesAssumption ==
    /\ IsFiniteSet(Names) /\ Names \subseteq Seq(Slash..Suffix) \ {<<>>}
    /\ \A n \in Names : ~IsTemp(n) => Temp(n) \in Names
ASSUME ItemsAssumption == Items \subseteq [data : Nat \ {0}, mtime : Nat]
ASSUME InitialsAssumption ==
    \A f \in Initials : /\ f \in [DOMAIN f -> Items] /\ DOMAIN f \subseteq Names
                        /\ \A n \in DOMAIN f : ~IsTemp(n)
ASSUME OptionsAssumption ==
    Options \subseteq [dir : {"up", "down", "cloud"}, c : BOOLEAN, d : BOOLEAN,
                       u : BOOLEAN, i : BOOLEAN]
ASSUME BoundsAssumption ==
    /\ MaxRuns \in Nat /\ MaxFaults \in Nat /\ MaxChanges \in Nat

VARIABLES
    at,             \* what each side holds: a function on some names
    opts,
    phase, listing, \* where the run is; the sides still to be listed
    lines,          \* the sorted files, as far as the diff has not read them
    abandon,        \* non_retryable_listing_failures
    aborted,        \* the diff iterator raised an exception
    ops, copying,   \* operations yielded; copies begun, with what they read
    failures, exit, \* failure_count and the exit status
    \* history of the run: the operations it yielded, what the destination
    \* held when it began, the names the source held throughout, the copies
    \* that failed, whether a listing failed, whether anything else did or
    \* changed, and whether all was settled when it began
    issued, before, stable, lost, unlisted, disturbed, settled,
    runs, faults, changes, streak

work == <<listing, lines, abandon, aborted, ops, copying, failures>>
history == <<issued, before, stable, lost, unlisted, disturbed, settled>>
bounds == <<runs, faults, changes, streak>>
vars == <<at, opts, phase, work, exit, history, bounds>>

TypeOK ==
    /\ \A side \in Sides :
           /\ DOMAIN at[side] \subseteq Names
           /\ \A n \in DOMAIN at[side] :
                  /\ at[side][n].data \in {i.data : i \in Items \cup {Partial}}
                  /\ IsTemp(n) <=> at[side][n] = Partial
    /\ phase \in {"idle", "listing", "diff", "drain"}
    /\ listing \subseteq Sides
    /\ Cardinality({c.to : c \in copying}) = Cardinality(copying)
    /\ failures \in Nat /\ exit \in {"none", "ok", "failed"}

\* A file has an mtime.
HasTimes(f) == \A n \in DOMAIN f : f[n].mtime # NoTime

Init ==
    /\ opts \in Options
    /\ \E s \in Initials, d \in Initials :
           /\ opts.dir = "up" => HasTimes(s)
           /\ opts.dir = "down" => HasTimes(d)
           /\ at = [src |-> s, dst |-> d]
    /\ phase = "idle" /\ listing = {} /\ lines = [side \in Sides |-> <<>>]
    /\ abandon = FALSE /\ aborted = FALSE
    /\ ops = {} /\ copying = {} /\ failures = 0 /\ exit = "none"
    /\ issued = {} /\ before = at["dst"] /\ stable = {} /\ lost = {}
    /\ unlisted = FALSE /\ disturbed = FALSE /\ settled = FALSE
    /\ runs = 0 /\ faults = 0 /\ changes = 0 /\ streak = 0

Fault ==
    /\ faults < MaxFaults /\ faults' = faults + 1
    /\ disturbed' = TRUE
    /\ UNCHANGED <<runs, changes, streak>>

Without(f, n) == Restrict(f, DOMAIN f \ {n})
With(f, n, item) == [m \in DOMAIN f \cup {n} |-> IF m = n THEN item ELSE f[m]]

-----------------------------------------------------------------------------
(* Listings.                                                               *)

\* The order of encoded URLs, a shorter one before what it begins.
Before(a, b) ==
    \E k \in 1..Len(a) + 1 :
        /\ k <= Len(b)
        /\ SubSeq(a, 1, k - 1) = SubSeq(b, 1, k - 1)
        /\ k <= Len(a) => a[k] < b[k]

\* Mutant: the order of the characters, in which a slash follows "@".
BeforeRaw(a, b) ==
    LET Raw(n) == [i \in DOMAIN n |-> IF n[i] = Slash THEN At + 1 ELSE n[i]]
    IN  Before(Raw(a), Raw(b))

\* The order _BatchSort puts the lines in.
LineBefore(a, b) == Before(a, b)

\* _FieldedListingIterator and _BatchSort.
Listing(side) ==
    LET names == CHOOSE s \in SetToSeqs(DOMAIN at[side]) :
                     \A i, j \in DOMAIN s : i < j => LineBefore(s[i], s[j])
    IN  [i \in DOMAIN names |-> [name |-> names[i], item |-> at[side][names[i]]]]

Begin ==
    /\ phase = "idle" /\ runs < MaxRuns
    /\ phase' = "listing" /\ listing' = Sides
    /\ lines' = [side \in Sides |-> <<>>]
    /\ abandon' = FALSE /\ aborted' = FALSE
    /\ failures' = 0 /\ exit' = "none"
    /\ issued' = {} /\ before' = at["dst"] /\ stable' = DOMAIN at["src"]
    /\ lost' = {} /\ unlisted' = FALSE /\ disturbed' = FALSE
    /\ settled' = (exit = "ok" /\ ~disturbed)
    /\ runs' = runs + 1
    /\ UNCHANGED <<at, opts, ops, copying, faults, changes, streak>>

\* _ListUrlRootFunc.
List(side) ==
    /\ side \in listing
    /\ listing' = listing \ {side}
    /\ lines' = [lines EXCEPT ![side] = Listing(side)]
    /\ UNCHANGED <<at, opts, phase, abandon, aborted, ops, copying, failures,
                   exit, history, bounds>>

\* An exception of the listing or the sort is caught and noted.
ListFails(side) ==
    /\ side \in listing
    /\ listing' = listing \ {side}
    /\ abandon' = TRUE /\ unlisted' = TRUE
    /\ Fault
    /\ UNCHANGED <<at, opts, phase, lines, aborted, ops, copying, failures,
                   exit, issued, before, stable, lost, settled>>

\* One of opening or closing the output file is not: Apply logs and counts
\* it as the failure of one of its tasks, and the file holds what was
\* written.
ListIsLost(side) ==
    /\ side \in listing
    /\ listing' = listing \ {side}
    /\ \E n \in 0..Len(Listing(side)) - 1 :
           lines' = [lines EXCEPT ![side] = SubSeq(Listing(side), 1, n)]
    /\ failures' = failures + 1 /\ unlisted' = TRUE
    /\ Fault
    /\ UNCHANGED <<at, opts, phase, abandon, aborted, ops, copying, exit,
                   issued, before, stable, lost, settled>>

Checked ==
    IF abandon THEN phase' = "idle" /\ exit' = "failed" /\ streak' = 0
    ELSE phase' = "diff" /\ UNCHANGED <<exit, streak>>

\* _DiffIterator.__init__ after both listings.
Listed ==
    /\ phase = "listing" /\ listing = {}
    /\ Checked
    /\ UNCHANGED <<at, opts, work, history, runs, faults, changes>>

-----------------------------------------------------------------------------
(* The merge: _DiffIterator.__iter__, one step for each line it disposes   *)
(* of.                                                                     *)

\* Skips the base URL and normalizes slashes.
Key(name) == [i \in DOMAIN name |->
                  IF name[i] = Backslash THEN Slash ELSE name[i]]

Size(item) == IF item.data = 1 THEN 1 ELSE 2
IsFile(side) == opts.dir = IF side = "src" THEN "up" ELSE "down"

DifferByTime(s, d, mtime) == mtime # d.mtime \/ Size(s) # Size(d)

\* _CompareObjects: whether the source's item replaces the destination's.
Replaces(s, d, mtime) ==
    LET times == mtime # NoTime /\ d.mtime # NoTime IN
    /\ ~opts.i
    /\ ~(opts.u /\ times /\ mtime < d.mtime)
    /\ IF ~opts.c /\ opts.dir # "cloud" /\ times THEN DifferByTime(s, d, mtime)
       ELSE Size(s) # Size(d) \/ s.data # d.data

\* A checksum of a file that is gone cannot be computed.
Readable(side, line) == IsFile(side) => line.name \in DOMAIN at[side]

Yield(act, from, to, mtime) ==
    LET op == [act |-> act, from |-> from, to |-> to, mtime |-> mtime]
    IN  ops' = ops \cup {op} /\ issued' = issued \cup {op}

Source == lines["src"][1]
Target == lines["dst"][1]
More(side) == lines[side] # <<>>
Advance(sides) ==
    lines' = [side \in Sides |-> IF side \in sides THEN Tail(lines[side])
                                 ELSE lines[side]]

Diffing == phase = "diff"
DiffUnchanged == UNCHANGED <<at, opts, phase, listing, abandon, copying,
                             failures, exit, before, stable, lost, unlisted,
                             disturbed, settled, bounds>>

\* There is no destination for the source.
DiffCopy ==
    /\ Diffing /\ More("src")
    /\ More("dst") => Before(Key(Source.name), Key(Target.name))
    /\ Yield("COPY", Source.name, Source.name, Source.item.mtime)
    /\ Advance({"src"})
    /\ UNCHANGED aborted /\ DiffUnchanged

\* There is no source for the destination.
DiffExtra ==
    /\ Diffing /\ More("dst")
    /\ More("src") => Before(Key(Target.name), Key(Source.name))
    /\ More("src") \/ opts.d
    /\ IF opts.d THEN Yield("REMOVE", <<>>, Target.name, NoTime)
       ELSE UNCHANGED <<ops, issued>>
    /\ Advance({"dst"})
    /\ UNCHANGED aborted /\ DiffUnchanged

\* Both are there: copied, only its mtime is, or nothing.
DiffBoth ==
    /\ Diffing /\ More("src") /\ More("dst")
    /\ Key(Source.name) = Key(Target.name)
    /\ Readable("src", Source) /\ Readable("dst", Target)
    /\ LET s == Source.item
           d == Target.item
           mtime == IF opts.dir = "down" /\ s.mtime = NoTime THEN s.data
                    ELSE s.mtime
       IN  IF Replaces(s, d, mtime)
           THEN Yield("COPY", Source.name, Target.name, s.mtime)
           ELSE IF mtime # NoTime /\ d.mtime = NoTime
           THEN Yield("MTIME", Source.name, Target.name, s.mtime)
           ELSE UNCHANGED <<ops, issued>>
    /\ Advance(Sides)
    /\ UNCHANGED aborted /\ DiffUnchanged

\* The iterator raises when a checksum needs a file that is gone.
DiffAborts ==
    /\ Diffing /\ More("src") /\ More("dst")
    /\ Key(Source.name) = Key(Target.name)
    /\ ~(Readable("src", Source) /\ Readable("dst", Target))
    /\ aborted' = TRUE /\ phase' = "drain"
    /\ UNCHANGED <<at, opts, listing, lines, abandon, ops, copying, failures,
                   exit, history, bounds>>

DiffEnds ==
    /\ Diffing /\ ~More("src")
    /\ ~opts.d \/ ~More("dst")
    /\ phase' = "drain"
    /\ UNCHANGED <<at, opts, work, exit, history, bounds>>

-----------------------------------------------------------------------------
(* The operations: _RsyncFunc.                                             *)

WorkUnchanged == UNCHANGED <<opts, phase, listing, lines, abandon, aborted,
                             exit, issued, before, stable, unlisted, settled>>

Calm == UNCHANGED <<disturbed, bounds>>

\* _RsyncExceptionHandler counts the failure.
Failed(op) == failures' = failures + 1 /\ lost' = lost \cup {op.to}

\* Removing what is already gone is no failure.
RemoveExtra(op) ==
    /\ op \in ops /\ op.act = "REMOVE"
    /\ ops' = ops \ {op}
    /\ \/ /\ at' = [at EXCEPT !["dst"] = Without(@, op.to)]
          /\ UNCHANGED <<failures, lost>> /\ Calm
       \/ Failed(op) /\ Fault /\ UNCHANGED at
    /\ UNCHANGED copying /\ WorkUnchanged

\* The object's mtime is patched, or, where that is refused, all is copied.
SetMtime(op) ==
    /\ op \in ops /\ op.act = "MTIME"
    /\ \/ /\ op.to \in DOMAIN at["dst"]
          /\ at' = [at EXCEPT !["dst"][op.to].mtime = op.mtime]
          /\ ops' = ops \ {op}
          /\ Calm
       \/ /\ ops' = (ops \ {op}) \cup {[op EXCEPT !.act = "COPY"]}
          /\ Fault /\ UNCHANGED at
    /\ UNCHANGED <<copying, failures, lost>> /\ WorkUnchanged

\* Mutant: a download expects its temporary file to be there.
StartCopyNoTemp(op) ==
    /\ op \in ops /\ op.act = "COPY"
    /\ op.from \in DOMAIN at["src"]
    /\ ops' = ops \ {op}
    /\ copying' = copying \cup {[from |-> op.from, to |-> op.to,
                       mtime |-> op.mtime, item |-> at["src"][op.from]]}
    /\ at' = IF opts.dir # "down" THEN at
             ELSE [at EXCEPT !["dst"] = Without(@, op.to)]
    /\ UNCHANGED <<failures, lost>> /\ Calm /\ WorkUnchanged

\* PerformCopy begins: a download deletes the file that it will replace and
\* makes or goes on with the temporary file.
StartCopy(op) ==
    /\ op \in ops /\ op.act = "COPY"
    /\ ops' = ops \ {op}
    /\ IF op.from \notin DOMAIN at["src"]
       THEN Failed(op) /\ UNCHANGED <<at, copying>>
       ELSE /\ copying' = copying \cup
                   {[from |-> op.from, to |-> op.to, mtime |-> op.mtime,
                     item |-> at["src"][op.from]]}
            /\ at' = IF opts.dir # "down" THEN at
                     ELSE [at EXCEPT !["dst"] =
                              With(Without(@, op.to), Temp(op.to), Partial)]
            /\ UNCHANGED <<failures, lost>>
    /\ Calm /\ WorkUnchanged

\* Mutant: the mtime of the listing is not passed on.
CopiedWithoutMtime(c) == [c.item EXCEPT !.mtime = NoTime]

\* The listing's mtime overrides the object's; a downloaded file without one
\* gets the object's creation time.
Copied(c) ==
    LET mtime == IF c.mtime # NoTime THEN c.mtime ELSE c.item.mtime
    IN  [c.item EXCEPT !.mtime = IF opts.dir = "down" /\ mtime = NoTime
                                 THEN c.item.data ELSE mtime]

\* Mutant: a copy that fails is logged only.
FinishUncounted(c) ==
    /\ c \in copying
    /\ copying' = copying \ {c}
    /\ \/ /\ opts.dir = "down" => Temp(c.to) \in DOMAIN at["dst"]
          /\ at' = [at EXCEPT !["dst"] =
                       With(IF opts.dir = "down" THEN Without(@, Temp(c.to))
                            ELSE @, c.to, Copied(c))]
          /\ Calm
       \/ /\ opts.dir = "down" /\ Temp(c.to) \notin DOMAIN at["dst"]
          /\ UNCHANGED at /\ Calm
       \/ Fault /\ UNCHANGED at
    /\ UNCHANGED <<ops, failures, lost>> /\ WorkUnchanged

\* It ends: a download renames its temporary file, if that is still there.
FinishCopy(c) ==
    /\ c \in copying
    /\ copying' = copying \ {c}
    /\ \/ /\ opts.dir = "down" => Temp(c.to) \in DOMAIN at["dst"]
          /\ at' = [at EXCEPT !["dst"] =
                       With(IF opts.dir = "down" THEN Without(@, Temp(c.to))
                            ELSE @, c.to, Copied(c))]
          /\ UNCHANGED <<failures, lost>> /\ Calm
       \/ /\ opts.dir = "down" /\ Temp(c.to) \notin DOMAIN at["dst"]
          /\ Failed(c) /\ UNCHANGED at /\ Calm
       \/ Failed(c) /\ Fault /\ UNCHANGED at
    /\ UNCHANGED ops /\ WorkUnchanged

\* RunCommand after Apply.
Finish ==
    /\ phase = "drain" /\ ops = {} /\ copying = {}
    /\ phase' = "idle"
    /\ exit' = IF failures = 0 /\ ~aborted THEN "ok" ELSE "failed"
    /\ streak' = IF exit' = "ok" \/ disturbed THEN 0 ELSE streak + 1
    /\ UNCHANGED <<at, opts, work, history, runs, faults, changes>>

\* The process is killed; a temporary file stays.
Crash ==
    /\ phase # "idle"
    /\ phase' = "idle" /\ exit' = "failed" /\ streak' = 0
    /\ listing' = {} /\ ops' = {} /\ copying' = {}
    /\ lost' = lost \cup {c.to : c \in copying}
    /\ faults < MaxFaults /\ faults' = faults + 1
    /\ disturbed' = TRUE
    /\ UNCHANGED <<at, opts, lines, abandon, aborted, failures, issued, before,
                   stable, unlisted, settled, runs, changes>>

\* Somebody else writes or deletes a source.
Change ==
    /\ changes < MaxChanges /\ changes' = changes + 1
    /\ \E n \in Names : ~IsTemp(n) /\
           \/ \E item \in Items :
                  /\ IsFile("src") => item.mtime # NoTime
                  /\ at' = [at EXCEPT !["src"] = With(@, n, item)]
                  /\ UNCHANGED stable
           \/ /\ at' = [at EXCEPT !["src"] = Without(@, n)]
              /\ stable' = stable \ {n}
    /\ disturbed' = TRUE
    /\ UNCHANGED <<opts, phase, work, exit, issued, before, lost, unlisted,
                   settled, runs, faults, streak>>

Next ==
    \/ Begin \/ Listed
    \/ \E side \in Sides : List(side) \/ ListFails(side) \/ ListIsLost(side)
    \/ DiffCopy \/ DiffExtra \/ DiffBoth \/ DiffAborts \/ DiffEnds
    \/ \E op \in ops : RemoveExtra(op) \/ SetMtime(op) \/ StartCopy(op)
    \/ \E c \in copying : FinishCopy(c)
    \/ Finish \/ Crash \/ Change

Spec == Init /\ [][Next]_vars

-----------------------------------------------------------------------------

Holds(n) == n \in DOMAIN at["dst"]

\* What the flags allow to differ: nothing newer at the source, or, by time,
\* an item of the same mtime and size.
Alike(s, d) ==
    \/ s.data = d.data
    \/ opts.i
    \/ opts.u /\ s.mtime # NoTime /\ d.mtime # NoTime /\ s.mtime < d.mtime
    \/ opts.u /\ opts.dir = "down" /\ s.mtime = NoTime /\ s.data < d.mtime
    \/ ~opts.c /\ opts.dir # "cloud" /\ Size(s) = Size(d)
       /\ d.mtime = (IF s.mtime # NoTime THEN s.mtime ELSE s.data)

\* When rsync exits with success and nobody changed the source, the
\* destination holds every source, alike as far as the flags ask for, and
\* with -d nothing else: merge, workers and failure count agree.
SuccessIsInSync ==
    phase = "idle" /\ exit = "ok" /\ ~disturbed =>
        /\ \A n \in DOMAIN at["src"] :
               Holds(n) /\ Alike(at["src"][n], at["dst"][n])
        /\ opts.d => DOMAIN at["dst"] \subseteq DOMAIN at["src"]

\* A name that the source holds throughout the run is never lost from the
\* destination, in whatever order the operations are carried out, unless its
\* own copy failed; and without -d nothing is, except to a copy under way.  A
\* listing that failed, and was noted to have, loses nothing either.
KeepsWhatSourceHas ==
    phase = "idle" /\ (unlisted => abandon) =>
        \A n \in DOMAIN before :
            (n \in stable \/ ~opts.d) /\ ~IsTemp(n) =>
                Holds(n) \/ n \in lost

\* A run after one that succeeded, with nothing changed in between, finds
\* nothing to do: what a copy leaves behind compares as equal.
SettledRunIsIdle == settled /\ ~disturbed => issued = {}

\* A run that fails although no request did and nobody interfered (its -d
\* removed a temporary file that its own copy was using) leaves nothing that
\* makes the next one fail.
RetryHeals == streak < 2

\* -d does "Delete extra files under dst_url not found under src_url"
\* (rsync.py:391): what is removed was not listed under the source.
RemovesOnlyExtras ==
    \A op \in issued : op.act = "REMOVE" /\ ~disturbed =>
        op.to \notin DOMAIN at["src"]
=============================================================================
