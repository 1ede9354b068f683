------------------------ MODULE CompositeUploadProofs ------------------------
(***************************************************************************)
(* What is proved of CompositeUpload, for any parts, contents, keys, runs   *)
(* and failures: its types, that one key encrypts what is composed, that    *)
(* the tracker file keeps up with the workers, that success leaves nothing, *)
(* that a retry succeeds, and, in buckets without versioning, that the      *)
(* composed object is the file.                                             *)
(***************************************************************************)
EXTENDS CompositeUpload, TLAPS

-----------------------------------------------------------------------------
(* The inductive invariant.                                                *)

OfPrefix(pre) == {o \in store : o.prefix = pre}

\* All the components of a prefix have one key: the one in the tracker file
\* that names the prefix, and that of the run that uses it.
TrackerInv ==
    tracker.there = "whole" =>
        /\ tracker.prefix \in 1..lastPrefix
        /\ \A o \in OfPrefix(tracker.prefix) : o.key = tracker.key

Started == {"truncate", "write", "filter", "upload"}

RunInv ==
    /\ pc # "idle" => key \in Keys
    /\ pc \in Started =>
           /\ prefix \in 1..lastPrefix
           /\ \A o \in OfPrefix(prefix) : o.key = key

\* After the run has written the tracker file, it is the run's own.
OwnInv ==
    /\ pc = "filter" => tracker = Whole(key, prefix, existing)
    /\ pc = "upload" /\ tracker.there = "whole" =>
           tracker.key = key /\ tracker.prefix = prefix

KeysInv == TypeOK /\ TrackerInv /\ RunInv /\ OwnInv /\ ComposedWithOneKey

\* One worker at a time holds the lock of the tracker file.
LockInv ==
    \A p, q \in Parts : part[p] = "recording" /\ part[q] = "recording" => p = q

\* What the workers have recorded is in the tracker file, or with the worker
\* that is about to write it.
Lists(entries, p) ==
    \E i \in 1..Len(entries) : entries[i] = Component(p, gen[p])

RecordedInv ==
    pc = "upload" =>
        /\ \A p \in Parts : part[p] \in {"reused", "done"} =>
               /\ LockFree => Lists(tracker.components, p)
               /\ ~LockFree => Lists(existing, p)
        /\ \A p \in Parts : part[p] = "reused" => Lists(existing, p)

ListInv == LockInv /\ RecordedInv

\* Without versioning a name has one generation.
UniqueInv ==
    \A o, q \in store : o.prefix = q.prefix /\ o.part = q.part => o = q

\* What the run counts on has the contents of the file.
ContentInv ==
    pc = "upload" =>
        \A p \in Parts : part[p] \in {"reused", "uploaded", "recording", "done"} =>
            \A o \in Named(p) : o.content = source[p]

PlainInv == versioned = FALSE /\ UniqueInv /\ ContentInv /\ ComposedMatchesSource

-----------------------------------------------------------------------------
(* Types.                                                                  *)

Trackers == [there : {"none", "torn", "whole"}, key : Keys \union {NoKey},
             prefix : Nat, components : Seq(ComponentType)]

\* The values a tracker file takes.
LEMMA TrackerTyped ==
    /\ NoTracker \in Trackers
    /\ Torn \in Trackers
    /\ \A k \in Keys, pre \in Nat, cs \in Seq(ComponentType) : Whole(k, pre, cs) \in Trackers
<1>1. <<>> \in Seq(ComponentType)
  OBVIOUS
<1>. QED  BY <1>1 DEF Trackers, NoTracker, Torn, Whole, NoKey

LEMMA ComponentTyped ==
    ASSUME NEW p \in Parts, NEW g \in Nat
    PROVE  Component(p, g) \in ComponentType
BY DEF Component, ComponentType

\* What the service stores.
LEMMA ObjectFields ==
    ASSUME NEW p, NEW g
    PROVE  /\ Object(p, g).prefix = prefix /\ Object(p, g).part = p
           /\ Object(p, g).gen = g /\ Object(p, g).content = source[p]
           /\ Object(p, g).key = key
BY DEF Object

\* A part is uploaded by a run whose prefix and key are known: the objects stay
\* typed, and a new one is of this run.
LEMMA StoreTyped ==
    ASSUME TypeOK, RunInv, pc = "upload", NEW p \in Parts, Store(p)
    PROVE  /\ lastGen' \in Nat
           /\ \A o \in store' : /\ o.prefix \in 1..lastPrefix /\ o.part \in Parts
                                /\ o.gen \in 1..lastGen'
                                /\ o.content \in Contents /\ o.key \in Keys
<1>1. lastGen \in Nat /\ lastGen' = lastGen + 1
  BY DEF TypeOK, Store
<1>2. prefix \in 1..lastPrefix /\ key \in Keys /\ source[p] \in Contents
  BY DEF RunInv, Started, TypeOK
<1>3. ASSUME NEW o \in store
      PROVE  /\ o.prefix \in 1..lastPrefix /\ o.part \in Parts
             /\ o.gen \in 1..lastGen'
             /\ o.content \in Contents /\ o.key \in Keys
  <2>1. o.gen \in 1..lastGen
    BY DEF TypeOK
  <2>2. o.gen \in 1..lastGen'
    BY <2>1, <1>1
  <2>. QED  BY <2>2 DEF TypeOK
<1>4. lastGen + 1 \in 1..lastGen'
  BY <1>1
<1>5. store' \subseteq store \union {Object(p, lastGen + 1)}
  BY DEF Store
<1>. QED  BY <1>1, <1>2, <1>3, <1>4, <1>5, ObjectFields

\* What Filter takes over from the tracker file.
LEMMA FilterTyped ==
    ASSUME TypeOK, Filter
    PROVE  /\ part' \in [Parts -> {"reused", "upload"}]
           /\ gen' \in [Parts -> Nat]
           /\ doomed' \subseteq ComponentType
           /\ \A p \in Parts : part'[p] = "reused" =>
                 /\ \E i \in 1..Len(existing) : existing[i] = [part |-> p, gen |-> gen'[p]]
                 /\ \E o \in Live(p) : o.content = source[p]
<1>1. PICK known \in SUBSET Parts :
          LET reused == {i \in Entries : Matches(i, known)} IN
          /\ part' = [p \in Parts |->
                        IF \E i \in reused : existing[i].part = p
                        THEN "reused" ELSE "upload"]
          /\ gen' = [p \in Parts |->
                       IF \E i \in reused : existing[i].part = p
                       THEN (CHOOSE c \in {existing[i] : i \in reused} : c.part = p).gen
                       ELSE 0]
          /\ doomed' = {existing[i] : i \in (1..Len(existing)) \ reused}
  BY DEF Filter
<1> DEFINE reused == {i \in Entries : Matches(i, known)}
           chosen(p) == CHOOSE c \in {existing[i] : i \in reused} : c.part = p
<1>2. reused \subseteq 1..Len(existing)
  BY DEF Entries
<1>3. \A i \in 1..Len(existing) : existing[i] \in ComponentType
  BY DEF TypeOK
<1>4. ASSUME NEW p \in Parts, \E i \in reused : existing[i].part = p
      PROVE  /\ chosen(p).part = p
             /\ \E i \in reused : chosen(p) = existing[i]
             /\ chosen(p) \in ComponentType
  <2>1. chosen(p) \in {existing[i] : i \in reused} /\ chosen(p).part = p
    BY <1>4
  <2>. QED  BY <2>1, <1>2, <1>3
<1>5. ASSUME NEW p \in Parts
      PROVE  gen'[p] = IF \E i \in reused : existing[i].part = p THEN chosen(p).gen ELSE 0
  BY <1>1
<1>6. ASSUME NEW p \in Parts
      PROVE  gen'[p] \in Nat
  BY <1>4, <1>5 DEF ComponentType
<1>7. ASSUME NEW p \in Parts, part'[p] = "reused"
      PROVE  /\ \E i \in 1..Len(existing) : existing[i] = [part |-> p, gen |-> gen'[p]]
             /\ \E o \in Live(p) : o.content = source[p]
  <2>1. \E i \in reused : existing[i].part = p
    BY <1>1, <1>7
  <2>2. chosen(p) = [part |-> p, gen |-> gen'[p]]
    BY <2>1, <1>4, <1>5 DEF ComponentType
  <2>3. \E i \in 1..Len(existing) : existing[i] = chosen(p)
    BY <2>1, <1>2, <1>4
  <2>4. \E o \in Live(p) : o.content = source[p]
    BY <2>1 DEF Matches
  <2>. QED  BY <2>2, <2>3, <2>4
<1>8. doomed' \subseteq ComponentType
  BY <1>1, <1>3
<1>9. part' \in [Parts -> {"reused", "upload"}]
  BY <1>1
<1>10. gen' \in [Parts -> Nat]
  BY <1>1, <1>6
<1>. QED  BY <1>7, <1>8, <1>9, <1>10

-----------------------------------------------------------------------------
(* The types and keys.                                                     *)

LEMMA TypeInit == Init => TypeOK
<1>. SUFFICES ASSUME Init PROVE TypeOK
  OBVIOUS
<1>1. <<>> \in Seq(ComponentType)
  OBVIOUS
<1>2. tracker \in Trackers
  BY TrackerTyped DEF Init
<1>3. versioned \in BOOLEAN
  BY BoundsAssumption DEF Init
<1>. QED  BY <1>1, <1>2, <1>3 DEF Init, TypeOK, Trackers

\* Every step keeps the types.
LEMMA TypeStep ==
    ASSUME TypeOK, TrackerInv, RunInv, [Next]_vars
    PROVE  TypeOK'
<1>. USE DEF TypeOK, durable, volatile, bounds, Fault
<1>a. <<>> \in Seq(ComponentType)
  OBVIOUS
<1>b. Torn \in Trackers /\ NoTracker \in Trackers
  BY TrackerTyped
<1>1. CASE Begin
  BY <1>1 DEF Begin
<1>2. CASE ReadTracker
  <2>1. CASE Usable
    <3>1. prefix' = tracker.prefix /\ existing' = tracker.components /\ lastPrefix' = lastPrefix
      BY <1>2, <2>1 DEF ReadTracker
    <3>2. prefix' \in 0..lastPrefix' /\ existing' \in Seq(ComponentType)
      BY <2>1, <3>1 DEF Usable, TrackerInv
    <3>. QED  BY <1>2, <3>1, <3>2 DEF ReadTracker
  <2>2. CASE ~Usable
    <3>1. lastPrefix' = lastPrefix + 1 /\ prefix' = lastPrefix + 1 /\ existing' = <<>>
      BY <1>2, <2>2 DEF ReadTracker
    <3>2. /\ lastPrefix' \in Nat /\ prefix' \in 0..lastPrefix'
          /\ \A o \in store : o.prefix \in 1..lastPrefix'
      BY <3>1
    <3>. QED  BY <1>2, <1>a, <3>1, <3>2 DEF ReadTracker
  <2>. QED  BY <2>1, <2>2
<1>3. CASE TruncateTracker
  BY <1>3, <1>b DEF TruncateTracker, Trackers
<1>4. CASE WriteTracker
  <2>1. key \in Keys /\ prefix \in Nat
    BY <1>4 DEF WriteTracker, RunInv
  <2>2. tracker' \in Trackers
    BY <1>4, <2>1, TrackerTyped DEF WriteTracker
  <2>. QED  BY <1>4, <2>2 DEF WriteTracker, Trackers
<1>5. CASE Filter
  <2>1. /\ UNCHANGED <<durable, key, prefix, existing, undeleted, failures, exit,
                    versioned>>
        /\ pc' = "upload"
    BY <1>5 DEF Filter
  <2>. QED  BY <1>5, <2>1, FilterTyped
<1>6. ASSUME NEW p \in Parts, Upload(p)
      PROVE  TypeOK'
  <2>1. Store(p) /\ pc = "upload"
    BY <1>6 DEF Upload
  <2>2. /\ lastGen' \in Nat
        /\ \A o \in store' : /\ o.prefix \in 1..lastPrefix /\ o.part \in Parts
                             /\ o.gen \in 1..lastGen'
                             /\ o.content \in Contents /\ o.key \in Keys
    BY <2>1, StoreTyped
  <2>3. part' \in [Parts -> {"reused", "upload", "uploaded", "recording", "done", "failed"}]
    BY <1>6 DEF Upload
  <2>4. gen' \in [Parts -> Nat]
    BY <1>6 DEF Upload
  <2>5. failures' \in Nat
    BY <1>6 DEF Upload
  <2>6. UNCHANGED <<source, tracker, target, lastPrefix, pc, key, prefix,
                    existing, doomed, undeleted, exit, versioned>>
    BY <1>6 DEF Upload
  <2>. QED  BY <2>2, <2>3, <2>4, <2>5, <2>6
<1>7. ASSUME NEW p \in Parts, UploadFails(p)
      PROVE  TypeOK'
  BY <1>7 DEF UploadFails
<1>8. ASSUME NEW p \in Parts, ReadToRecord(p)
      PROVE  TypeOK'
  BY <1>8, <1>b DEF ReadToRecord, Trackers
<1>9. ASSUME NEW p \in Parts, Record(p)
      PROVE  TypeOK'
  <2>1. key \in Keys /\ prefix \in Nat
    BY <1>9 DEF Record, RunInv, Started
  <2>2. Append(existing, Component(p, gen[p])) \in Seq(ComponentType)
    BY ComponentTyped
  <2>3. tracker' \in Trackers
    BY <1>9, <2>1, <2>2, TrackerTyped DEF Record
  <2>. QED  BY <1>9, <2>3 DEF Record, Trackers
<1>10. CASE GiveUp
  BY <1>10 DEF GiveUp
<1>11. CASE Compose
  <2>1. doomed' \subseteq ComponentType
    BY <1>11, ComponentTyped DEF Compose, Composed
  <2>. QED  BY <1>11, <2>1 DEF Compose
<1>12. CASE ComposeFails
  BY <1>12 DEF ComposeFails
<1>13. ASSUME NEW c \in doomed, Delete(c)
       PROVE  TypeOK'
  <2>1. store' \subseteq store
    BY <1>13 DEF Delete, Named
  <2>. QED  BY <1>13, <2>1 DEF Delete
<1>14. ASSUME NEW c \in doomed, DeleteFails(c)
       PROVE  TypeOK'
  BY <1>14 DEF DeleteFails
<1>15. CASE Finish
  BY <1>15, <1>b DEF Finish, Trackers, ExitStatus
<1>16. CASE Crash
  BY <1>16 DEF Crash
<1>17. CASE Edit
  BY <1>17 DEF Edit
<1>18. CASE UNCHANGED vars
  BY <1>18 DEF vars
<1>. QED
  BY <1>1, <1>2, <1>3, <1>4, <1>5, <1>6, <1>7, <1>8, <1>9, <1>10, <1>11, <1>12,
     <1>13, <1>14, <1>15, <1>16, <1>17, <1>18 DEF Next, Quiescent

\* Every step keeps the keys of the tracker file and of the run.
LEMMA KeysStep ==
    ASSUME KeysInv, [Next]_vars
    PROVE  TrackerInv' /\ RunInv' /\ OwnInv' /\ ComposedWithOneKey'
<1>. USE DEF KeysInv, TrackerInv, RunInv, OwnInv, ComposedWithOneKey, HasComposed,
             Started, OfPrefix, durable, volatile, bounds, Fault
<1>1. CASE Begin
  BY <1>1 DEF Begin
<1>2. CASE ReadTracker
  <2>1. CASE Usable
    BY <1>2, <2>1 DEF ReadTracker, Usable
  <2>2. CASE ~Usable
    <3>1. lastPrefix' = lastPrefix + 1 /\ prefix' = lastPrefix + 1 /\ lastPrefix \in Nat
      BY <1>2, <2>2 DEF ReadTracker, TypeOK
    <3>2. \A o \in store : o.prefix # prefix'
      BY <3>1 DEF TypeOK
    <3>3. prefix' \in 1..lastPrefix' /\ (tracker.prefix \in 1..lastPrefix => tracker.prefix \in 1..lastPrefix')
      BY <3>1
    <3>. QED  BY <1>2, <3>1, <3>2, <3>3 DEF ReadTracker
  <2>. QED  BY <2>1, <2>2
<1>3. CASE TruncateTracker
  BY <1>3 DEF TruncateTracker, Torn, NoTracker
<1>4. CASE WriteTracker
  BY <1>4 DEF WriteTracker, Whole
<1>5. CASE Filter
  BY <1>5 DEF Filter, Whole
<1>6. ASSUME NEW p \in Parts, Upload(p)
      PROVE  TrackerInv' /\ RunInv' /\ OwnInv' /\ ComposedWithOneKey'
  <2>1. Store(p) /\ pc = "upload" /\ UNCHANGED <<tracker, target, lastPrefix, pc, key, prefix, existing>>
    BY <1>6 DEF Upload
  <2>2. store' \subseteq store \union {Object(p, lastGen + 1)}
    BY <2>1 DEF Store
  <2>. QED  BY <2>1, <2>2, ObjectFields
<1>7. ASSUME NEW p \in Parts, UploadFails(p)
      PROVE  TrackerInv' /\ RunInv' /\ OwnInv' /\ ComposedWithOneKey'
  BY <1>7 DEF UploadFails
<1>8. ASSUME NEW p \in Parts, ReadToRecord(p)
      PROVE  TrackerInv' /\ RunInv' /\ OwnInv' /\ ComposedWithOneKey'
  BY <1>8 DEF ReadToRecord, Torn, NoTracker
<1>9. ASSUME NEW p \in Parts, Record(p)
      PROVE  TrackerInv' /\ RunInv' /\ OwnInv' /\ ComposedWithOneKey'
  BY <1>9 DEF Record, Whole
<1>10. CASE GiveUp
  BY <1>10 DEF GiveUp
<1>11. CASE Compose
  <2>1. pc = "upload"
    BY <1>11 DEF Compose, Complete, Joined
  <2>2. ASSUME NEW p \in Parts
        PROVE  target'[p].key = key
    <3>1. PICK o \in Source(p) : o = CHOOSE q \in Source(p) : TRUE
      BY <1>11 DEF Compose
    <3>2. o.key = key
      BY <2>1, <3>1 DEF Source, Named
    <3>3. target'[p].key = (CHOOSE q \in Source(p) : TRUE).key
      BY <1>11 DEF Compose
    <3>. QED  BY <3>1, <3>2, <3>3
  <2>3. DOMAIN target' = Parts
    BY <1>11 DEF Compose
  <2>. QED  BY <1>11, <2>1, <2>2, <2>3 DEF Compose
<1>12. CASE ComposeFails
  BY <1>12 DEF ComposeFails
<1>13. ASSUME NEW c \in doomed, Delete(c)
       PROVE  TrackerInv' /\ RunInv' /\ OwnInv' /\ ComposedWithOneKey'
  <2>1. store' \subseteq store
    BY <1>13 DEF Delete, Named
  <2>. QED  BY <1>13, <2>1 DEF Delete
<1>14. ASSUME NEW c \in doomed, DeleteFails(c)
       PROVE  TrackerInv' /\ RunInv' /\ OwnInv' /\ ComposedWithOneKey'
  BY <1>14 DEF DeleteFails
<1>15. CASE Finish
  BY <1>15 DEF Finish, NoTracker
<1>16. CASE Crash
  BY <1>16 DEF Crash
<1>17. CASE Edit
  BY <1>17 DEF Edit
<1>18. CASE UNCHANGED vars
  BY <1>18 DEF vars
<1>. QED
  BY <1>1, <1>2, <1>3, <1>4, <1>5, <1>6, <1>7, <1>8, <1>9, <1>10, <1>11, <1>12,
     <1>13, <1>14, <1>15, <1>16, <1>17, <1>18 DEF Next, Quiescent

LEMMA KeysInit == Init => KeysInv
<1>. SUFFICES ASSUME Init PROVE KeysInv
  OBVIOUS
<1>1. TypeOK
  BY TypeInit
<1>. QED
  BY <1>1 DEF Init, KeysInv, TrackerInv, RunInv, OwnInv, ComposedWithOneKey,
              HasComposed, Started, NoTracker

\* The inductive invariant of types and keys holds in every state.
THEOREM KeysHold == Spec => []KeysInv
<1>1. KeysInv /\ [Next]_vars => KeysInv'
  BY TypeStep, KeysStep DEF KeysInv
<1>. QED  BY <1>1, KeysInit, PTL DEF Spec

\* Every reachable state is of the stated types.
THEOREM TypesHold == Spec => []TypeOK
<1>1. KeysInv => TypeOK
  BY DEF KeysInv
<1>. QED  BY <1>1, KeysHold, PTL

\* Whatever keys earlier runs used, and wherever they stopped, the parts that
\* are composed are encrypted with the key of the run (_DoParallelCompositeUpload
\* gives up the components of another key).
THEOREM ComposedWithOneKeyHolds == Spec => []ComposedWithOneKey
<1>1. KeysInv => ComposedWithOneKey
  BY DEF KeysInv
<1>. QED  BY <1>1, KeysHold, PTL

-----------------------------------------------------------------------------
(* The tracker file keeps up.                                              *)

\* Outside the upload of parts only the lock matters.
LEMMA ListFrame ==
    ASSUME LockInv, pc' # "upload", part' = part
    PROVE  ListInv'
BY DEF ListInv, LockInv, RecordedInv

\* A step that leaves the lists and what is in them alone.
LEMMA ListSame ==
    ASSUME ListInv, UNCHANGED <<pc, tracker, existing, part, gen>>
    PROVE  ListInv'
BY DEF ListInv, LockInv, RecordedInv, Lists, LockFree, Component

LEMMA ListStep ==
    ASSUME KeysInv, ListInv, [Next]_vars
    PROVE  ListInv'
<1>. USE DEF durable, volatile, bounds, Fault
<1>0. ListInv => LockInv
  BY DEF ListInv
<1>1. CASE Begin \/ ReadTracker \/ TruncateTracker \/ WriteTracker
  BY <1>0, <1>1, ListFrame DEF Begin, ReadTracker, TruncateTracker, WriteTracker
<1>2. CASE Filter
  <2>1. tracker' = tracker /\ existing' = existing /\ tracker.components = existing
    BY <1>2 DEF Filter, KeysInv, OwnInv, Whole
  <2>2. \A p \in Parts : part'[p] \in {"reused", "upload"}
    BY <1>2, FilterTyped DEF KeysInv
  <2>3. ASSUME NEW p \in Parts, part'[p] = "reused"
        PROVE  Lists(existing, p)' /\ Lists(tracker.components, p)'
    BY <1>2, <2>1, <2>3, FilterTyped DEF KeysInv, Lists, Component
  <2>4. LockFree' /\ LockInv'
    BY <2>2 DEF LockFree, LockInv
  <2>5. \A p \in Parts : part'[p] # "done"
    BY <2>2
  <2>. QED  BY <2>3, <2>4, <2>5 DEF ListInv, RecordedInv
<1>3. ASSUME NEW p \in Parts, Upload(p) \/ UploadFails(p)
      PROVE  ListInv'
  <2>1. /\ pc = "upload" /\ part[p] = "upload" /\ part'[p] \in {"uploaded", "failed"}
        /\ \A q \in Parts \ {p} : part'[q] = part[q] /\ gen'[q] = gen[q]
        /\ UNCHANGED <<pc, tracker, existing>>
    BY <1>3 DEF Upload, UploadFails, KeysInv, TypeOK
  <2>2. LockInv' /\ LockFree' = LockFree
    BY <1>0, <2>1 DEF LockInv, LockFree
  <2>3. ASSUME NEW q \in Parts, part'[q] \in {"reused", "done"}
        PROVE  /\ q # p /\ part[q] = part'[q]
               /\ Lists(tracker.components, q)' = Lists(tracker.components, q)
               /\ Lists(existing, q)' = Lists(existing, q)
    BY <2>1, <2>3 DEF Lists, Component
  <2>. QED  BY <2>1, <2>2, <2>3 DEF ListInv, RecordedInv
<1>4. ASSUME NEW p \in Parts, ReadToRecord(p)
      PROVE  ListInv'
  <2>1. /\ pc = "upload" /\ part[p] = "uploaded" /\ part'[p] = "recording" /\ LockFree
        /\ \A q \in Parts \ {p} : part'[q] = part[q]
        /\ existing' = tracker.components /\ UNCHANGED <<pc, gen>>
    BY <1>4 DEF ReadToRecord, KeysInv, TypeOK
  <2>2. LockInv' /\ ~LockFree'
    BY <2>1 DEF LockInv, LockFree
  <2>3. ASSUME NEW q \in Parts, part'[q] \in {"reused", "done"}
        PROVE  Lists(existing, q)'
    <3>1. Lists(tracker.components, q)
      BY <2>1, <2>3 DEF ListInv, RecordedInv
    <3>. QED  BY <2>1, <3>1 DEF Lists, Component
  <2>. QED  BY <2>2, <2>3 DEF ListInv, RecordedInv
<1>5. ASSUME NEW p \in Parts, Record(p)
      PROVE  ListInv'
  <2>1. /\ pc = "upload" /\ part[p] = "recording" /\ part'[p] = "done"
        /\ \A q \in Parts \ {p} : part'[q] = part[q]
        /\ tracker'.components = Append(existing, Component(p, gen[p]))
        /\ UNCHANGED <<pc, gen, existing>>
    BY <1>5 DEF Record, KeysInv, TypeOK, Whole
  <2>2. LockInv' /\ LockFree' /\ ~LockFree
    BY <1>0, <2>1 DEF LockInv, LockFree
  <2>3. existing \in Seq(ComponentType) /\ Component(p, gen[p]) \in ComponentType
    BY ComponentTyped DEF KeysInv, TypeOK
  <2>4. Lists(tracker.components, p)'
    <3>1. /\ Len(existing) + 1 \in 1..Len(tracker'.components)
          /\ tracker'.components[Len(existing) + 1] = Component(p, gen[p])
      BY <2>1, <2>3
    <3>. QED  BY <2>1, <3>1 DEF Lists, Component
  <2>5. ASSUME NEW q \in Parts, Lists(existing, q)
        PROVE  Lists(existing, q)' /\ Lists(tracker.components, q)'
    <3>1. PICK i \in 1..Len(existing) : existing[i] = Component(q, gen[q])
      BY <2>5 DEF Lists
    <3>2. i \in 1..Len(tracker'.components) /\ tracker'.components[i] = existing[i]
      BY <2>1, <2>3
    <3>. QED  BY <2>1, <3>1, <3>2 DEF Lists, Component
  <2>6. ASSUME NEW q \in Parts, q # p, part'[q] \in {"reused", "done"}
        PROVE  Lists(existing, q)
    BY <2>1, <2>2, <2>6 DEF ListInv, RecordedInv
  <2>. QED  BY <2>1, <2>2, <2>4, <2>5, <2>6 DEF ListInv, RecordedInv
<1>6. CASE GiveUp \/ Compose \/ ComposeFails \/ Finish \/ Crash
  BY <1>0, <1>6, ListFrame DEF GiveUp, Compose, ComposeFails, Finish, Crash
<1>7. ASSUME NEW c \in doomed, Delete(c) \/ DeleteFails(c)
      PROVE  ListInv'
  BY <1>0, <1>7, ListFrame DEF Delete, DeleteFails
<1>8. CASE Edit \/ UNCHANGED vars
  BY <1>8, ListSame DEF Edit, vars
<1>. QED
  BY <1>1, <1>2, <1>3, <1>4, <1>5, <1>6, <1>7, <1>8 DEF Next, Quiescent

\* The workers that add to the tracker file at the same time lose nothing: what
\* is recorded stays recorded (WriteComponentToParallelUploadTrackerFile reads
\* and rewrites the file under the lock).
THEOREM TrackerKeepsUpHolds == Spec => []TrackerKeepsUp
<1>1. Init => ListInv
  BY DEF Init, ListInv, LockInv, RecordedInv
<1>2. KeysInv /\ ListInv /\ [Next]_vars => ListInv'
  BY ListStep
<1>3. ListInv => TrackerKeepsUp
  BY DEF ListInv, RecordedInv, Lists, TrackerKeepsUp
<1>. QED  BY <1>1, <1>2, <1>3, KeysHold, PTL DEF Spec

-----------------------------------------------------------------------------
(* The composed object is the file, in a bucket without versioning.        *)

\* Steps outside the upload of parts that add no object and keep what has
\* been composed.
LEMMA PlainFrame ==
    ASSUME PlainInv, store' \subseteq store, versioned' = versioned, pc' # "upload",
           ~HasComposed' \/ (HasComposed /\ UNCHANGED <<target, source>>)
    PROVE  PlainInv'
<1>1. UniqueInv' /\ ContentInv'
  BY DEF PlainInv, UniqueInv, ContentInv
<1>2. ComposedMatchesSource'
  BY DEF PlainInv, ComposedMatchesSource
<1>. QED  BY <1>1, <1>2 DEF PlainInv

LEMMA PlainStep ==
    ASSUME KeysInv, PlainInv, [Next]_vars
    PROVE  PlainInv'
<1>. USE DEF durable, volatile, bounds, Fault
<1>0. /\ versioned = FALSE /\ UniqueInv
      /\ pc = "upload" => ~HasComposed /\ ContentInv
  BY DEF PlainInv, HasComposed
<1>1. CASE Begin \/ ReadTracker \/ TruncateTracker \/ WriteTracker
  BY <1>1, PlainFrame DEF Begin, ReadTracker, TruncateTracker, WriteTracker, HasComposed
<1>2. CASE Filter
  <2>1. UNCHANGED <<store, source, prefix, versioned>> /\ pc' = "upload"
    BY <1>2 DEF Filter
  <2>2. ASSUME NEW p \in Parts, part'[p] \in {"reused", "uploaded", "recording", "done"},
               NEW o \in Named(p)
        PROVE  o.content = source[p]
    <3>1. part'[p] = "reused"
      BY <1>2, <2>2, FilterTyped DEF KeysInv
    <3>2. PICK live \in Live(p) : live.content = source[p]
      BY <1>2, <3>1, FilterTyped DEF KeysInv
    <3>3. o = live
      BY <1>0, <2>2, <3>2 DEF UniqueInv, Live, Named
    <3>. QED  BY <3>2, <3>3
  <2>3. \A p \in Parts : Named(p)' = Named(p)
    BY <2>1 DEF Named
  <2>4. ContentInv'
    BY <2>1, <2>2, <2>3 DEF ContentInv
  <2>. QED
    BY <1>0, <2>1, <2>4 DEF PlainInv, UniqueInv, ComposedMatchesSource, HasComposed
<1>3. ASSUME NEW p \in Parts, Upload(p)
      PROVE  PlainInv'
  <2>1. /\ pc = "upload"
        /\ \A q \in Parts \ {p} : part'[q] = part[q]
        /\ UNCHANGED <<source, prefix, pc, versioned>>
    BY <1>3 DEF Upload, KeysInv, TypeOK
  <2>2. store' = (store \ Named(p)) \union {Object(p, lastGen + 1)}
    BY <1>0, <1>3 DEF Upload, Store
  <2>3. UniqueInv'
    <3>1. \A o \in store \ Named(p) : ~(o.prefix = prefix /\ o.part = p)
      BY DEF Named
    <3>. QED  BY <1>0, <2>2, <3>1, ObjectFields DEF UniqueInv
  <2>4. ASSUME NEW q \in Parts, NEW o \in Named(q)'
        PROVE  \/ q = p /\ o.content = source[p]
               \/ q # p /\ o \in Named(q)
    BY <2>1, <2>2, <2>4, ObjectFields DEF Named
  <2>5. ContentInv'
    BY <1>0, <2>1, <2>4 DEF ContentInv
  <2>. QED
    BY <1>0, <2>1, <2>3, <2>5 DEF PlainInv, ComposedMatchesSource, HasComposed
<1>4. ASSUME NEW p \in Parts, UploadFails(p) \/ ReadToRecord(p) \/ Record(p)
      PROVE  PlainInv'
  <2>1. /\ pc = "upload" /\ UNCHANGED <<source, store, prefix, pc, versioned>>
        /\ \A q \in Parts :
              part'[q] \in {"reused", "uploaded", "recording", "done"} =>
                  part[q] \in {"reused", "uploaded", "recording", "done"}
    BY <1>4 DEF UploadFails, ReadToRecord, Record, KeysInv, TypeOK
  <2>2. \A q \in Parts : Named(q)' = Named(q)
    BY <2>1 DEF Named
  <2>3. ContentInv'
    BY <1>0, <2>1, <2>2 DEF ContentInv
  <2>. QED
    BY <1>0, <2>1, <2>3 DEF PlainInv, UniqueInv, ComposedMatchesSource, HasComposed
<1>5. CASE GiveUp \/ ComposeFails \/ Crash
  BY <1>5, PlainFrame DEF GiveUp, ComposeFails, Crash, HasComposed
<1>6. CASE Compose
  <2>1. /\ pc = "upload" /\ pc' = "delete"
        /\ \A p \in Parts : part[p] \in {"reused", "done"}
        /\ UNCHANGED <<store, source, versioned>>
    BY <1>6 DEF Compose, Complete, Joined
  <2>2. ASSUME NEW p \in Parts
        PROVE  target'[p].content = source[p]
    <3>1. PICK o \in Source(p) : o = CHOOSE q \in Source(p) : TRUE
      BY <1>6 DEF Compose
    <3>2. o.content = source[p]
      BY <1>0, <2>1, <3>1 DEF Source, ContentInv
    <3>3. target'[p].content = (CHOOSE q \in Source(p) : TRUE).content
      BY <1>6 DEF Compose
    <3>. QED  BY <3>1, <3>2, <3>3
  <2>3. DOMAIN target' = Parts
    BY <1>6 DEF Compose
  <2>. QED
    BY <1>0, <2>1, <2>2, <2>3 DEF PlainInv, UniqueInv, ContentInv, ComposedMatchesSource
<1>7. ASSUME NEW c \in doomed, Delete(c) \/ DeleteFails(c)
      PROVE  PlainInv'
  <2>1. store' \subseteq store
    BY <1>7 DEF Delete, DeleteFails, Named
  <2>. QED  BY <1>7, <2>1, PlainFrame DEF Delete, DeleteFails, HasComposed
<1>8. CASE Finish \/ Edit
  BY <1>8, PlainFrame DEF Finish, Edit, HasComposed
<1>9. CASE UNCHANGED vars
  BY <1>9 DEF vars, PlainInv, UniqueInv, ContentInv, Named, ComposedMatchesSource, HasComposed
<1>. QED
  BY <1>1, <1>2, <1>3, <1>4, <1>5, <1>6, <1>7, <1>8, <1>9 DEF Next, Quiescent

\* "These objects, when composed, will match the original file": in a bucket
\* without versioning, whatever crashed runs, lost answers and edits of the
\* file have left behind.
THEOREM ComposedMatchesSourceHolds ==
    ASSUME Versioned \subseteq {FALSE}
    PROVE  Spec => []ComposedMatchesSource
<1>1. Init => PlainInv
  BY DEF Init, PlainInv, UniqueInv, ContentInv, ComposedMatchesSource, HasComposed
<1>2. KeysInv /\ PlainInv /\ [Next]_vars => PlainInv'
  BY PlainStep
<1>3. PlainInv => ComposedMatchesSource
  BY DEF PlainInv
<1>. QED  BY <1>1, <1>2, <1>3, KeysHold, PTL DEF Spec

-----------------------------------------------------------------------------
(* What a run leaves behind, in a bucket without versioning.               *)

\* While the names of the components are known and the objects are not yet
\* being given up, all of them have the prefix that the run uses and that the
\* tracker file names; without a tracker file there is none.
Kept == ~versioned /\ ~forgotten /\ pc # "done"

TrackerThereInv ==
    pc \in {"write", "filter", "upload", "delete"} => tracker.there # "none"

HomeInv ==
    Kept =>
        /\ tracker.there = "none" => store = {}
        /\ tracker.there = "whole" => \A o \in store : o.prefix = tracker.prefix
        /\ pc \in Started \union {"delete"} =>
               \A o \in store : o.prefix = prefix

\* What has been composed is to be deleted, or its deletion has failed.
DeleteInv ==
    Kept /\ pc = "delete" =>
        \A o \in store : Component(o.part, o.gen) \in doomed \union undeleted

NameInv == ~versioned => UniqueInv

CleanInv ==
    NameInv /\ TrackerThereInv /\ HomeInv /\ DeleteInv /\ LeavesOnlyUndeleted

\* Only an upload adds an object: one, of a new generation of its name.
LEMMA StoreStep ==
    ASSUME [Next]_vars
    PROVE  /\ versioned' = versioned
           /\ \/ store' \subseteq store /\ lastGen' = lastGen
              \/ \E p \in Parts : Upload(p)
<1>. USE DEF durable, volatile, bounds, Fault
<1>1. CASE Begin \/ ReadTracker \/ TruncateTracker \/ WriteTracker
  BY <1>1 DEF Begin, ReadTracker, TruncateTracker, WriteTracker
<1>2. CASE Filter
  BY <1>2 DEF Filter
<1>3. ASSUME NEW p \in Parts, Upload(p)
      PROVE  versioned' = versioned
  BY <1>3 DEF Upload
<1>4. ASSUME NEW p \in Parts, UploadFails(p) \/ ReadToRecord(p) \/ Record(p)
      PROVE  store' = store /\ lastGen' = lastGen /\ versioned' = versioned
  BY <1>4 DEF UploadFails, ReadToRecord, Record
<1>5. CASE GiveUp \/ Compose \/ ComposeFails
  BY <1>5 DEF GiveUp, Compose, ComposeFails
<1>6. ASSUME NEW c \in doomed, Delete(c) \/ DeleteFails(c)
      PROVE  store' \subseteq store /\ lastGen' = lastGen /\ versioned' = versioned
  BY <1>6 DEF Delete, DeleteFails, Named
<1>7. CASE Finish \/ Crash \/ Edit \/ UNCHANGED vars
  BY <1>7 DEF Finish, Crash, Edit, vars
<1>. QED
  BY <1>1, <1>2, <1>3, <1>4, <1>5, <1>6, <1>7 DEF Next, Quiescent

LEMMA TrackerFields ==
    ASSUME NEW k, NEW pre, NEW cs
    PROVE  /\ NoTracker.there = "none" /\ Torn.there = "torn"
           /\ Whole(k, pre, cs).there = "whole" /\ Whole(k, pre, cs).prefix = pre
           /\ Whole(k, pre, cs).components = cs /\ Torn.components = <<>>
           /\ NoTracker.components = <<>>
BY DEF NoTracker, Torn, Whole

LEMMA UploadStores ==
    ASSUME NEW p \in Parts, Upload(p)
    PROVE  /\ pc = "upload" /\ lastGen' = lastGen + 1
           /\ store' \subseteq store \union {Object(p, lastGen + 1)}
           /\ ~versioned => store' = (store \ Named(p)) \union {Object(p, lastGen + 1)}
           /\ UNCHANGED <<source, tracker, pc, key, prefix, existing, doomed, exit,
                          forgotten, versioned>>
BY DEF Upload, Store, Fault, bounds

\* Without versioning an upload replaces the object of its name.
LEMMA NameStep ==
    ASSUME NameInv, [Next]_vars
    PROVE  NameInv'
<1>1. SUFFICES ASSUME ~versioned' PROVE UniqueInv'
  BY DEF NameInv
<1>2. ~versioned /\ UniqueInv
  BY <1>1, StoreStep DEF NameInv
<1>3. CASE store' \subseteq store
  BY <1>2, <1>3 DEF UniqueInv
<1>4. ASSUME NEW p \in Parts, Upload(p)
      PROVE  UniqueInv'
  <2>1. store' = (store \ Named(p)) \union {Object(p, lastGen + 1)}
    BY <1>2, <1>4, UploadStores
  <2>2. \A o \in store \ Named(p) : ~(o.prefix = prefix /\ o.part = p)
    BY DEF Named
  <2>. QED  BY <1>2, <2>1, <2>2, ObjectFields DEF UniqueInv
<1>. QED  BY <1>3, <1>4, StoreStep

LEMMA TrackerThereStep ==
    ASSUME TrackerThereInv, [Next]_vars
    PROVE  TrackerThereInv'
<1>. USE DEF TrackerThereInv, durable, volatile, bounds, Fault
<1>1. CASE Begin \/ ReadTracker
  BY <1>1 DEF Begin, ReadTracker
<1>2. CASE TruncateTracker \/ WriteTracker
  BY <1>2 DEF TruncateTracker, WriteTracker, Torn, NoTracker, Whole
<1>3. CASE Filter
  BY <1>3 DEF Filter
<1>4. ASSUME NEW p \in Parts, Upload(p)
      PROVE  TrackerThereInv'
  BY <1>4, UploadStores
<1>5. ASSUME NEW p \in Parts, UploadFails(p) \/ ReadToRecord(p) \/ Record(p)
      PROVE  TrackerThereInv'
  BY <1>5 DEF UploadFails, ReadToRecord, Record, Torn, NoTracker, Whole
<1>6. CASE GiveUp \/ Compose \/ ComposeFails
  BY <1>6 DEF GiveUp, Compose, ComposeFails, Complete, Joined
<1>7. ASSUME NEW c \in doomed, Delete(c) \/ DeleteFails(c)
      PROVE  TrackerThereInv'
  BY <1>7 DEF Delete, DeleteFails
<1>8. CASE Finish \/ Crash \/ Edit \/ UNCHANGED vars
  BY <1>8 DEF Finish, Crash, Edit, vars
<1>. QED
  BY <1>1, <1>2, <1>3, <1>4, <1>5, <1>6, <1>7, <1>8 DEF Next, Quiescent

\* A step that adds no object and leaves the tracker file and the prefix alone.
LEMMA HomeFrame ==
    ASSUME HomeInv, store' \subseteq store, Kept' => Kept,
           UNCHANGED <<tracker, prefix>>,
           pc' \in Started \union {"delete"} => pc \in Started \union {"delete"}
    PROVE  HomeInv'
<1>1. SUFFICES ASSUME Kept'
      PROVE  /\ tracker.there = "none" => store' = {}
             /\ tracker.there = "whole" => \A o \in store' : o.prefix = tracker.prefix
             /\ pc' \in Started \union {"delete"} => \A o \in store' : o.prefix = prefix
  BY DEF HomeInv
<1>. QED  BY <1>1 DEF HomeInv

\* A step in which the run rewrites the tracker file.
LEMMA HomeRewritten ==
    ASSUME HomeInv, pc \in Started, Kept' => Kept, UNCHANGED <<store, prefix>>,
           NEW cs, tracker' = Torn \/ tracker' = Whole(key, prefix, cs)
    PROVE  HomeInv'
<1>1. tracker'.there # "none" /\ (tracker'.there = "whole" => tracker'.prefix = prefix)
  BY TrackerFields
<1>2. SUFFICES ASSUME Kept', NEW o \in store PROVE o.prefix = prefix
  BY <1>1 DEF HomeInv
<1>. QED  BY <1>2 DEF HomeInv

LEMMA HomeStep ==
    ASSUME OwnInv, TrackerThereInv, HomeInv, [Next]_vars
    PROVE  HomeInv'
<1>. USE DEF durable, volatile, bounds, Fault
<1>1. CASE Begin
  BY <1>1, HomeFrame DEF Begin, Kept, Started
<1>2. CASE ReadTracker
  <2>1. SUFFICES ASSUME Kept' PROVE HomeInv'
    BY DEF HomeInv
  <2>2. Kept /\ UNCHANGED <<tracker, store>> /\ pc' = "truncate"
    BY <1>2, <2>1 DEF ReadTracker, Kept
  <2>3. CASE Usable
    BY <1>2, <2>2, <2>3 DEF ReadTracker, Usable, HomeInv, Started
  <2>4. CASE ~Usable
    <3>1. tracker.there = "none"
      BY <1>2, <2>1, <2>4 DEF ReadTracker, Kept
    <3>. QED  BY <2>2, <3>1 DEF HomeInv
  <2>. QED  BY <2>3, <2>4
<1>3. CASE TruncateTracker \/ WriteTracker
  <2>1. /\ UNCHANGED <<store, prefix>> /\ pc \in Started
        /\ Kept' => Kept
    BY <1>3 DEF TruncateTracker, WriteTracker, Kept, Started
  <2>2. tracker' = Torn \/ tracker' = Whole(key, prefix, existing)
    BY <1>3 DEF TruncateTracker, WriteTracker
  <2>. QED  BY <2>1, <2>2, HomeRewritten
<1>4. CASE Filter
  BY <1>4, HomeFrame DEF Filter, Kept, Started
<1>5. ASSUME NEW p \in Parts, Upload(p)
      PROVE  HomeInv'
  <2>1. SUFFICES ASSUME Kept' PROVE HomeInv'
    BY DEF HomeInv
  <2>2. pc = "upload" /\ UNCHANGED <<tracker, prefix, pc>>
    BY <1>5, UploadStores
  <2>3. Kept
    BY <1>5, <2>1, UploadStores DEF Kept
  <2>4. tracker.there # "none"
    BY <2>2 DEF TrackerThereInv
  <2>5. tracker.there = "whole" => tracker.prefix = prefix
    BY <2>2 DEF OwnInv
  <2>6. \A o \in store : o.prefix = prefix
    BY <2>2, <2>3 DEF HomeInv, Started
  <2>7. \A o \in store' : o.prefix = prefix
    BY <1>5, <2>6, UploadStores, ObjectFields
  <2>. QED  BY <2>2, <2>4, <2>5, <2>7 DEF HomeInv
<1>6. ASSUME NEW p \in Parts, UploadFails(p)
      PROVE  HomeInv'
  BY <1>6, HomeFrame DEF UploadFails, Kept, Started
<1>7. ASSUME NEW p \in Parts, ReadToRecord(p) \/ Record(p)
      PROVE  HomeInv'
  <2>1. /\ UNCHANGED <<store, prefix>> /\ pc \in Started
        /\ Kept' => Kept
    BY <1>7 DEF ReadToRecord, Record, Kept, Started
  <2>2. tracker' = Torn \/ tracker' = Whole(key, prefix, Append(existing, Component(p, gen[p])))
    BY <1>7 DEF ReadToRecord, Record
  <2>. QED  BY <2>1, <2>2, HomeRewritten
<1>8. CASE GiveUp \/ Compose \/ ComposeFails
  BY <1>8, HomeFrame DEF GiveUp, Compose, ComposeFails, Complete, Joined, Kept, Started
<1>9. ASSUME NEW c \in doomed, Delete(c) \/ DeleteFails(c)
      PROVE  HomeInv'
  <2>1. store' \subseteq store
    BY <1>9 DEF Delete, DeleteFails, Named
  <2>. QED  BY <1>9, <2>1, HomeFrame DEF Delete, DeleteFails, Kept
<1>10. CASE Finish
  BY <1>10 DEF Finish, HomeInv, Kept
<1>11. CASE Crash \/ Edit
  BY <1>11, HomeFrame DEF Crash, Edit, Kept, Started
<1>12. CASE UNCHANGED vars
  BY <1>12, HomeFrame DEF vars, Kept
<1>. QED
  BY <1>1, <1>2, <1>3, <1>4, <1>5, <1>6, <1>7, <1>8, <1>9, <1>10, <1>11, <1>12
  DEF Next, Quiescent

\* What is composed is all there is, and one deletion leaves the rest doomed.
LEMMA DeleteStep ==
    ASSUME KeysInv, NameInv, HomeInv, DeleteInv, [Next]_vars
    PROVE  DeleteInv'
<1>. USE DEF durable, volatile, bounds, Fault
<1>1. CASE pc' # "delete"
  BY <1>1 DEF DeleteInv
<1>2. CASE Compose
  <2>1. SUFFICES ASSUME Kept', NEW o \in store'
        PROVE  Component(o.part, o.gen) \in doomed' \union undeleted'
    BY DEF DeleteInv
  <2>2. /\ pc = "upload" /\ store' = store /\ Kept
        /\ doomed' = doomed \union {Component(p, gen[p]) : p \in Parts}
        /\ undeleted' = undeleted
        /\ \A p \in Parts : Source(p) # {}
    BY <1>2, <2>1 DEF Compose, Composed, Complete, Joined, Kept
  <2>3. o.prefix = prefix /\ o.part \in Parts
    BY <2>1, <2>2 DEF HomeInv, Started, KeysInv, TypeOK
  <2>4. PICK q \in Source(o.part) : TRUE
    BY <2>2, <2>3
  <2>5. q \in store /\ q.prefix = prefix /\ q.part = o.part /\ q.gen = gen[o.part]
    BY <2>4 DEF Source, Named
  <2>6. q = o
    BY <2>1, <2>2, <2>3, <2>5 DEF NameInv, UniqueInv, Kept
  <2>. QED  BY <2>2, <2>3, <2>5, <2>6
<1>3. ASSUME NEW c \in doomed, Delete(c)
      PROVE  DeleteInv'
  <2>1. SUFFICES ASSUME Kept', NEW o \in store'
        PROVE  Component(o.part, o.gen) \in doomed' \union undeleted'
    BY DEF DeleteInv
  <2>2. /\ pc = "delete" /\ Kept /\ doomed' = doomed \ {c} /\ undeleted' = undeleted
        /\ store' = {q \in Named(c.part) : q.gen # c.gen} \union (store \ Named(c.part))
    BY <1>3, <2>1 DEF Delete, Kept
  <2>3. o \in store /\ (o \in Named(c.part) => o.gen # c.gen)
    BY <2>1, <2>2 DEF Named
  <2>4. o.prefix = prefix /\ Component(o.part, o.gen) \in doomed \union undeleted
    BY <2>2, <2>3 DEF HomeInv, DeleteInv
  <2>5. Component(o.part, o.gen) # c
    BY <2>3, <2>4 DEF Named, Component
  <2>. QED  BY <2>2, <2>4, <2>5
<1>4. ASSUME NEW c \in doomed, DeleteFails(c)
      PROVE  DeleteInv'
  BY <1>4 DEF DeleteFails, DeleteInv, Kept
<1>5. CASE Begin \/ ReadTracker \/ TruncateTracker \/ WriteTracker
  BY <1>5, <1>1 DEF Begin, ReadTracker, TruncateTracker, WriteTracker
<1>6. CASE Filter \/ GiveUp \/ ComposeFails
  BY <1>6, <1>1 DEF Filter, GiveUp, ComposeFails
<1>7. ASSUME NEW p \in Parts, Upload(p) \/ UploadFails(p) \/ ReadToRecord(p) \/ Record(p)
      PROVE  DeleteInv'
  BY <1>7, <1>1 DEF Upload, UploadFails, ReadToRecord, Record
<1>8. CASE Finish \/ Crash \/ Edit
  BY <1>8, <1>1 DEF Finish, Crash, Edit
<1>9. CASE UNCHANGED vars
  BY <1>9 DEF vars, DeleteInv, Kept
<1>. QED
  BY <1>2, <1>3, <1>4, <1>5, <1>6, <1>7, <1>8, <1>9 DEF Next, Quiescent

\* A run that has ended has deleted what was to be deleted, and nothing comes
\* after it.
LEMMA LeaveStep ==
    ASSUME DeleteInv, LeavesOnlyUndeleted, [Next]_vars
    PROVE  LeavesOnlyUndeleted'
<1>. USE DEF durable, volatile, bounds, Fault, LeavesOnlyUndeleted
<1>1. CASE Finish
  <2>1. /\ pc = "delete" /\ doomed = {}
        /\ UNCHANGED <<store, undeleted, forgotten, versioned>>
    BY <1>1 DEF Finish
  <2>. QED  BY <2>1 DEF DeleteInv, Kept
<1>2. CASE Begin \/ GiveUp \/ ComposeFails \/ Crash \/ Edit
  BY <1>2 DEF Begin, GiveUp, ComposeFails, Crash, Edit, Joined, Complete
<1>3. CASE ReadTracker \/ TruncateTracker \/ WriteTracker \/ Filter
  BY <1>3 DEF ReadTracker, TruncateTracker, WriteTracker, Filter
<1>4. ASSUME NEW p \in Parts, Upload(p) \/ UploadFails(p) \/ ReadToRecord(p) \/ Record(p)
      PROVE  LeavesOnlyUndeleted'
  BY <1>4 DEF Upload, UploadFails, ReadToRecord, Record
<1>5. CASE Compose
  BY <1>5 DEF Compose
<1>6. ASSUME NEW c \in doomed, Delete(c) \/ DeleteFails(c)
      PROVE  LeavesOnlyUndeleted'
  BY <1>6 DEF Delete, DeleteFails
<1>7. CASE UNCHANGED vars
  BY <1>7 DEF vars
<1>. QED
  BY <1>1, <1>2, <1>3, <1>4, <1>5, <1>6, <1>7 DEF Next, Quiescent

\* A run that has composed leaves no temporary object, of its own or of an
\* earlier run, but those whose deletion failed, in a bucket without versioning
\* and unless a tracker file was lost or given up with its names.
THEOREM LeavesOnlyUndeletedHolds == Spec => []LeavesOnlyUndeleted
<1>1. Init => CleanInv
  BY DEF Init, CleanInv, NameInv, UniqueInv, TrackerThereInv, HomeInv, Started,
         DeleteInv, LeavesOnlyUndeleted
<1>2. KeysInv /\ CleanInv /\ [Next]_vars => CleanInv'
  BY NameStep, TrackerThereStep, HomeStep, DeleteStep, LeaveStep DEF CleanInv, KeysInv
<1>3. CleanInv => LeavesOnlyUndeleted
  BY DEF CleanInv
<1>. QED  BY <1>1, <1>2, <1>3, KeysHold, PTL DEF Spec
=============================================================================
