----------------------- MODULE ObjectDownloadProofs -----------------------
(***************************************************************************)
(* For any sizes and generations, any numbers of components, any runs,     *)
(* crashes and failed requests: a download that succeeds has delivered one *)
(* generation of the object, byte by byte, if hashes are checked, and has  *)
(* left no tracker file, of no strategy and partition, unless a crash cut  *)
(* a deletion of tracker files short; and a download that has failed by    *)
(* itself does not fail so again, if every component begins within the     *)
(* object and no tracker file was orphaned.                                *)
(***************************************************************************)
EXTENDS ObjectDownload, FiniteSetTheorems, SequenceTheorems,
        WellFoundedInduction, TLAPS

\* The hypothesis of what follows: check_hashes is not "never".
HashesChecked == CheckHashes \subseteq {TRUE}

-----------------------------------------------------------------------------
(* The invariant.                                                          *)

\* What a component has digested: the bytes from its start to where the file
\* has been flushed are in the file, and are the object's if the digest is.
Progress(c) ==
    /\ Start(c) <= flushed[c] /\ flushed[c] <= pos[c] /\ pos[c] <= End(c) + 1
    /\ cPc[c] = "done" => flushed[c] = End(c) + 1
    /\ \A b \in Start(c)..flushed[c] - 1 :
          b \in DOMAIN temp /\ (digestOk[c] => temp[b] = object)
    /\ ~Sliced => DOMAIN temp = 0..flushed[c] - 1

Emptying(c) ==
    /\ ~Sliced /\ flushed[c] = Start(c) /\ pos[c] = Start(c)
    /\ Start(c) <= End(c) + 1

FetchAt(c) ==
    /\ cPc[c] \in {"first", "next", "track", "torn", "done"} => Progress(c)
    /\ cPc[c] = "truncate" => Emptying(c)
    /\ cPc[c] \in {"track", "torn"} => Wrapped

FetchInv ==
    /\ pc \in {"maintain", "restart", "parent", "resize"} => \A c \in Mine : cPc[c] = "open"
    /\ pc = "fetch" =>
          /\ Sliced => DOMAIN temp = 0..Size0 - 1
          /\ \A c \in Mine : FetchAt(c)

DeliveryInv ==
    /\ pc = "accept" => temp = [b \in 0..Size0 - 1 |-> object]
    /\ exit = "ok" => pc = "idle"
    /\ DeliveredIsObject

\* The tracker files of components and streams, and those the run would use.
Owners == Components \union {SingleFile}
InUse == {SingleFile} \union IF Sliced THEN Mine ELSE {}

\* None are written for a small object, and the parent lists those in use.
TrackersKnown ==
    /\ small => parent = None /\ \A f \in Owners : comp[f] = None
    /\ pc \in {"restart", "parent"} => ~small
    /\ pc \in {"resize", "fetch"} /\ Sliced /\ ~small => parent = Whole(object, count)

\* After a success neither a parent nor a stream's tracker file is left.
OwnClean ==
    exit = "ok" /\ pc = "idle" => parent = None /\ comp[SingleFile] = None /\ doomed = <<>>

\* Those that go before a run has succeeded are all that are in use.
TrackerInv ==
    /\ TrackersKnown
    /\ doomed # <<>> => pc \in {"restart", "accept", "reject"}
    /\ pc = "accept" =>
          /\ parent = None \/ ParentFile \in Range(doomed)
          /\ \A f \in InUse : comp[f] = None \/ f \in Range(doomed)
    /\ OwnClean

-----------------------------------------------------------------------------
(* Sizes, partitions, tracker files and files.                             *)

\* Induction over the prefixes of a sequence.
LEMMA Reached ==
    ASSUME NEW n \in Nat, NEW T, 0 \in T,
           \A m \in 0..n : m \in T /\ m < n => m + 1 \in T
    PROVE  n \in T
<1> DEFINE Rest == (0..n) \ T
<1> SUFFICES ASSUME Rest # {} PROVE FALSE
  OBVIOUS
<1>1. \E m \in Rest : \A i \in Rest : ~(<<i, m>> \in OpToRel(<, Nat))
  <2>1. Rest \subseteq Nat
    OBVIOUS
  <2> HIDE DEF Rest
  <2>. QED BY <2>1, NatLessThanWellFounded, WFMin
<1>2. PICK m \in Rest : \A i \in Rest : ~(i < m)
  <2>1. \A i, m \in Rest : i < m => <<i, m>> \in OpToRel(<, Nat)
    BY DEF OpToRel
  <2>. QED BY <1>1, <2>1
<1>3. m \in 1..n /\ m - 1 \in 0..n /\ m - 1 < m /\ m - 1 < n /\ (m - 1) + 1 = m
  OBVIOUS
<1>4. m - 1 \in T
  BY <1>2, <1>3
<1>. QED BY <1>3, <1>4

\* Every generation has a size, and SizeMax is the largest.
LEMMA Sizes ==
    /\ Generations = 1..Len(Size) /\ 1 \in Generations /\ Len(Size) \in Nat
    /\ SizeMax \in Nat
    /\ \A g \in Generations : g \in Nat /\ Size[g] \in Nat \ {0} /\ Size[g] <= SizeMax
<1>1. /\ Generations = 1..Len(Size) /\ Len(Size) \in Nat \ {0}
      /\ \A g \in Generations : g \in Nat /\ Size[g] \in Nat \ {0}
  BY SizeAssumption DEF Generations
<1> DEFINE Largest(m, i) == i \in 1..m /\ \A j \in 1..m : Size[j] <= Size[i]
           T == {m \in 0..Len(Size) : m # 0 => \E i \in 1..m : Largest(m, i)}
<1>2. 0 \in T
  BY <1>1
<1>3. ASSUME NEW m \in 0..Len(Size), m \in T, m < Len(Size) PROVE m + 1 \in T
  <2>1. m + 1 \in 0..Len(Size) /\ m + 1 \in 1..(m + 1)
    BY <1>3
  <2>2. CASE m = 0
    <3>1. Largest(1, 1)
      BY <1>1
    <3>. QED BY <2>1, <2>2, <3>1
  <2>3. CASE m # 0
    <3>1. PICK i \in 1..m : Largest(m, i)
      BY <1>3, <2>3
    <3>2. i \in 1..(m + 1) /\ Size[i] \in Nat /\ Size[m + 1] \in Nat
      BY <1>1, <2>1
    <3>3. Largest(m + 1, i) \/ Largest(m + 1, m + 1)
      <4>1. \A j \in 1..(m + 1) : j = m + 1 \/ j \in 1..m
        OBVIOUS
      <4>2. \A j \in 1..m : Size[j] <= Size[i] /\ Size[j] \in Nat
        BY <1>1, <3>1
      <4>. QED BY <2>1, <3>2, <4>1, <4>2
    <3> HIDE DEF Largest
    <3>. QED BY <2>1, <3>2, <3>3
  <2>. QED BY <2>2, <2>3
<1>4. Len(Size) \in T
  <2> HIDE DEF T
  <2>. QED BY <1>1, <1>2, <1>3, Reached
<1>5. \E s \in {Size[g] : g \in Generations} : \A g \in Generations : Size[g] <= s
  BY <1>1, <1>4
<1>6. SizeMax \in {Size[g] : g \in Generations} /\ \A g \in Generations : Size[g] <= SizeMax
  BY <1>5 DEF SizeMax
<1>. QED BY <1>1, <1>6

\* Whatever is configured, there is at least one component.
LEMMA CountsArePositive ==
    /\ Counts \subseteq Nat \ {0} /\ Counts # {}
    /\ \A s \in Settings, g \in Generations : NumComponents(s, Size[g]) \in Counts
<1>1. \A g \in Generations : Size[g] \in Nat \ {0}
  BY Sizes
<1>2. ASSUME NEW s \in Settings, NEW n \in Nat \ {0}
      PROVE  NumComponents(s, n) \in Nat \ {0}
  <2>1. s.size \in Nat \ {0} /\ s.max \in Nat \ {0}
    BY SettingsAssumption
  <2>2. (n + s.size - 1) \div s.size \in Int
    <3>1. \A a \in Int, b \in Nat \ {0} : a \div b \in Int
      OBVIOUS
    <3>. QED BY <2>1, <3>1
  <2>. QED BY <2>1, <2>2 DEF NumComponents
<1>3. Settings # {} /\ 1 \in Generations
  BY SettingsAssumption, Sizes
<1>4. ASSUME NEW s \in Settings, NEW g \in Generations
      PROVE  NumComponents(s, Size[g]) \in Nat \ {0} /\ NumComponents(s, Size[g]) \in Counts
  BY <1>1, <1>2 DEF Counts
<1>5. ASSUME NEW k \in Counts PROVE k \in Nat \ {0}
  <2>1. PICK s \in Settings, g \in Generations : k = NumComponents(s, Size[g])
    BY DEF Counts
  <2>. QED BY <1>4, <2>1
<1>6. Counts # {}
  BY <1>3, <1>4
<1>. QED BY <1>4, <1>5, <1>6

\* Division as it is used by _GetPartitionInfo.
LEMMA Division ==
    ASSUME NEW x \in Nat, NEW k \in Nat \ {0}
    PROVE  x \div k \in Nat /\ (x \div k) * k <= x /\ x < ((x \div k) + 1) * k
  BY SMT

LEMMA Product ==
    ASSUME NEW a \in Nat, NEW b \in Nat, NEW s \in Nat, a <= b
    PROVE  a * s \in Nat /\ a * s <= b * s
  BY SMT

\* The components cover the object: those of _PartitionObject, when there are
\* more of them than needed too.
LEMMA Partition ==
    ASSUME object \in Generations, count \in Counts
    PROVE  /\ Size0 \in Nat \ {0} /\ Size0 <= SizeMax
           /\ count \in Nat \ {0} /\ Mine \subseteq Components /\ Mine \subseteq Nat
           /\ \A c \in Mine : Start(c) \in Nat /\ End(c) \in Int /\ End(c) < Size0
           /\ \A b \in 0..Size0 - 1 : \E c \in Mine : Start(c) <= b /\ b <= End(c)
           /\ ~Sliced => Mine = {0} /\ Start(0) = 0 /\ End(0) = Size0 - 1
<1> DEFINE s == ComponentSize
<1>1. /\ Size0 \in Nat \ {0} /\ Size0 <= SizeMax
      /\ count \in Nat \ {0} /\ Mine \subseteq Components /\ Mine \subseteq Nat
  BY Sizes, CountsArePositive DEF Size0, Mine, Components
<1>2. s \in Nat \ {0} /\ Size0 <= s * count
  <2>1. Size0 + count - 1 \in Nat
    BY <1>1
  <2>2. s \in Nat /\ Size0 + count - 1 < (s + 1) * count
    BY <1>1, <2>1, Division DEF ComponentSize
  <2>3. (s + 1) * count = s * count + count
    BY <1>1, <2>2, SMT
  <2>4. s * count \in Int /\ (s = 0 => s * count = 0)
    BY <1>1, <2>2, SMT
  <2> HIDE DEF s
  <2>. QED BY <1>1, <2>2, <2>3, <2>4
<1>3. ASSUME NEW c \in Mine PROVE Start(c) \in Nat /\ End(c) \in Int /\ End(c) < Size0
  <2>1. c \in Nat /\ c * s \in Nat /\ (c + 1) * s \in Nat
    BY <1>1, <1>2, Product
  <2> HIDE DEF s
  <2>2. Start(c) = c * s /\ End(c) = IF (c + 1) * s - 1 < Size0 - 1
                                     THEN (c + 1) * s - 1 ELSE Size0 - 1
    BY DEF Start, End, s
  <2>. QED BY <1>1, <2>1, <2>2
<1>4. ASSUME NEW b \in 0..Size0 - 1 PROVE \E c \in Mine : Start(c) <= b /\ b <= End(c)
  <2> DEFINE c == b \div s
  <2>1. c \in Nat /\ c * s <= b /\ b < (c + 1) * s /\ b \in Nat
    BY <1>1, <1>2, Division
  <2> HIDE DEF c
  <2>2. c < count
    <3>1. CASE c >= count
      <4>1. count * s <= c * s /\ c * s \in Nat /\ count * s \in Nat
        BY <1>1, <1>2, <2>1, <3>1, Product
      <4>2. count * s = s * count
        BY <1>1, <1>2, SMT
      <4> HIDE DEF s
      <4>. QED BY <1>1, <1>2, <2>1, <4>1, <4>2
    <3>. QED BY <1>1, <2>1, <3>1
  <2>3. c \in Mine /\ (c + 1) * s \in Nat
    BY <1>1, <1>2, <2>1, <2>2, Product DEF Mine
  <2>4. Start(c) = c * s /\ End(c) = IF (c + 1) * s - 1 < Size0 - 1
                                     THEN (c + 1) * s - 1 ELSE Size0 - 1
    BY DEF Start, End
  <2> HIDE DEF s
  <2>. QED BY <1>1, <2>1, <2>3, <2>4
<1>5. ASSUME ~Sliced PROVE Mine = {0} /\ Start(0) = 0 /\ End(0) = Size0 - 1
  <2>1. count = 1
    BY <1>1, <1>5 DEF Sliced
  <2>2. s = Size0 /\ Mine = {0}
    BY <1>1, <2>1, SMT DEF ComponentSize, Mine
  <2>. QED BY <1>1, <2>2 DEF Start, End
<1>. QED BY <1>1, <1>3, <1>4, <1>5

\* A partition is that of an object and a number of components.
LEMMA SamePartition ==
    ASSUME object' = object, count' = count
    PROVE  /\ Size0' = Size0 /\ Mine' = Mine /\ (Sliced' <=> Sliced)
           /\ \A c \in Mine : Start(c)' = Start(c) /\ End(c)' = End(c) /\ Own(c)' = Own(c)
  BY DEF Size0, Mine, Sliced, Start, End, ComponentSize, Own

LEMMA TrackerCases ==
    ASSUME NEW V
    PROVE  /\ None \in Trackers(V) /\ Torn \in Trackers(V)
           /\ \A g \in Generations, x \in V : Whole(g, x) \in Trackers(V)
           /\ \A g, x : Whole(g, x).there = "whole" /\ Whole(g, x).gen = g
                        /\ Whole(g, x).value = x /\ Whole(g, x) # None
           /\ None.there # "whole" /\ Torn # None /\ Torn.there # "whole"
           /\ \A t \in Trackers(V) : t.there = "whole" =>
                 t.gen \in Generations /\ t.value \in V
<1>1. /\ None \in Trackers(V) /\ Torn \in Trackers(V)
      /\ \A g \in Generations, x \in V : Whole(g, x) \in Trackers(V)
  BY DEF Trackers
<1>2. \A g, x : Whole(g, x).there = "whole" /\ Whole(g, x).gen = g /\ Whole(g, x).value = x
  BY DEF Whole
<1>3. None.there = "none" /\ Torn.there = "torn"
  BY DEF None, Torn
<1>4. \A t \in Trackers(V) : t = None \/ t = Torn \/ \E g \in Generations, x \in V : t = Whole(g, x)
  BY DEF Trackers
<1>5. "none" # "whole" /\ "torn" # "whole" /\ "none" # "torn"
  OBVIOUS
<1>. QED BY <1>1, <1>2, <1>3, <1>4, <1>5

\* Files are of up to SizeMax bytes.
LEMMA FileCases ==
    /\ NoBytes \in Files
    /\ \A f \in Files : \E l \in 0..SizeMax : f \in [0..l - 1 -> 0..Len(Size)]
    /\ \A l \in 0..SizeMax : [0..l - 1 -> 0..Len(Size)] \subseteq Files
<1>1. NoBytes \in [0..0 - 1 -> 0..Len(Size)]
  BY DEF NoBytes
<1>2. \A l \in 0..SizeMax : [0..l - 1 -> 0..Len(Size)] \subseteq Files
  BY DEF Files
<1>3. 0 \in 0..SizeMax
  BY Sizes
<1>4. \A f \in Files : \E l \in 0..SizeMax : f \in [0..l - 1 -> 0..Len(Size)]
  BY DEF Files
<1>. QED BY <1>1, <1>2, <1>3, <1>4

\* The size of a file is the number of its bytes.
LEMMA FileSize ==
    ASSUME NEW f \in Files
    PROVE  Cardinality(DOMAIN f) \in Nat /\ DOMAIN f = 0..Cardinality(DOMAIN f) - 1
<1>1. PICK l \in 0..SizeMax : DOMAIN f = 0..l - 1
  BY FileCases
<1>2. l \in Nat /\ Cardinality(0..l - 1) = l
  BY Sizes, FS_Interval
<1>. QED BY <1>1, <1>2

-----------------------------------------------------------------------------
(* What a component's steps do.                                            *)

SlicePcs == {"open", "create", "truncate", "first", "next", "track", "torn", "done",
             "failed"}
CompTrackers == Trackers(0..SizeMax)

SlicesOK ==
    /\ cPc \in [Components -> SlicePcs]
    /\ pos \in [Components -> 0..SizeMax] /\ flushed \in [Components -> 0..SizeMax]
    /\ digestOk \in [Components -> BOOLEAN]

LEMMA TypeParts ==
    ASSUME TypeOK
    PROVE  /\ SlicesOK /\ comp \in [Owners -> CompTrackers] /\ parent \in Trackers(Counts)
           /\ object \in Generations /\ temp \in Files /\ final \in Files
           /\ count \in Counts /\ check \in CheckHashes /\ small \in Smalls
  BY DEF TypeOK, SlicesOK, SlicePcs, Owners, CompTrackers

\* The components that do not move stay where they are.
Still(c) ==
    \A d \in Components \ {c} :
        /\ cPc'[d] = cPc[d] /\ pos'[d] = pos[d]
        /\ flushed'[d] = flushed[d] /\ digestOk'[d] = digestOk[d]

\* What the step of one component leaves to the others.
Moves(c) ==
    /\ pc = "fetch" /\ c \in Mine
    /\ UNCHANGED <<object, parent, final, pc, count, doomed, exit, check, small>>
    /\ Still(c) /\ SlicesOK'
    /\ comp' \in [Owners -> CompTrackers] /\ (small => comp' = comp)
    /\ temp' \in Files /\ (Sliced => DOMAIN temp' = DOMAIN temp)
    /\ \A b \in DOMAIN temp \cap DOMAIN temp' : temp'[b] \in {temp[b], object}
    /\ FetchAt(c)'

LEMMA Update ==
    ASSUME NEW D, NEW S, NEW f \in [D -> S], NEW c \in D, NEW v \in S,
           NEW g, g = [f EXCEPT ![c] = v]
    PROVE  g \in [D -> S] /\ g[c] = v /\ \A d \in D \ {c} : g[d] = f[d]
  OBVIOUS

\* The values of a component, and its place in the object.
LEMMA Placed ==
    ASSUME TypeOK, NEW c \in Mine
    PROVE  /\ c \in Components /\ Own(c) \in Owners
           /\ pos[c] \in Nat /\ flushed[c] \in Nat /\ digestOk[c] \in BOOLEAN
           /\ Start(c) \in Nat /\ End(c) + 1 \in Int /\ End(c) + 1 <= Size0
           /\ Size0 \in Nat \ {0} /\ Size0 <= SizeMax /\ SizeMax \in Nat
           /\ (~Sliced => c = 0 /\ Start(c) = 0 /\ End(c) + 1 = Size0)
<1>1. /\ Size0 \in Nat \ {0} /\ Size0 <= SizeMax /\ c \in Components /\ SizeMax \in Nat
      /\ Start(c) \in Nat /\ End(c) \in Int /\ End(c) < Size0
      /\ ~Sliced => Mine = {0} /\ Start(0) = 0 /\ End(0) = Size0 - 1
  BY Partition, Sizes, TypeParts
<1>2. pos[c] \in 0..SizeMax /\ flushed[c] \in 0..SizeMax /\ digestOk[c] \in BOOLEAN
  BY <1>1, TypeParts DEF SlicesOK
<1>3. Own(c) \in Owners
  BY <1>1 DEF Own, Owners
<1>4. End(c) + 1 \in Int /\ End(c) + 1 <= Size0 /\ (~Sliced => c = 0 /\ End(c) + 1 = Size0)
  BY <1>1
<1>. QED BY <1>1, <1>2, <1>3, <1>4

\* Progress, of a step that keeps the partition.
LEMMA ProgressThen ==
    ASSUME TypeOK, object' = object, count' = count, NEW c \in Mine,
           Start(c) <= flushed'[c] /\ flushed'[c] <= pos'[c] /\ pos'[c] <= End(c) + 1,
           cPc'[c] = "done" => flushed'[c] = End(c) + 1,
           \A b \in Start(c)..flushed'[c] - 1 :
               b \in DOMAIN temp' /\ (digestOk'[c] => temp'[b] = object),
           ~Sliced => DOMAIN temp' = 0..flushed'[c] - 1
    PROVE  Progress(c)'
<1>1. Start(c)' = Start(c) /\ End(c)' = End(c) /\ (Sliced' <=> Sliced)
  BY SamePartition
<1>. QED BY <1>1 DEF Progress

\* Flush writes bytes of the object, and leaves no hole.
LEMMA Flushing ==
    ASSUME TypeOK, FetchInv, pc = "fetch", NEW c \in Mine, Progress(c),
           NEW to \in Nat, flushed[c] <= to, to <= End(c) + 1, Flush(c, flushed[c], to)
    PROVE  /\ temp' \in Files /\ (Sliced => DOMAIN temp' = DOMAIN temp)
           /\ ~Sliced => DOMAIN temp' = 0..to - 1
           /\ \A b \in DOMAIN temp : temp'[b] \in {temp[b], object}
           /\ \A b \in Start(c)..to - 1 :
                 b \in DOMAIN temp' /\ (digestOk[c] => temp'[b] = object)
<1> DEFINE from == flushed[c]
           D == DOMAIN temp \union (from..to - 1)
<1>0. /\ from \in Nat /\ Start(c) \in Nat /\ to <= Size0 /\ Size0 \in Nat /\ Size0 <= SizeMax
      /\ SizeMax \in Nat /\ from <= to
  BY Placed
<1>1. temp' = [b \in D |-> IF from <= b /\ b < to THEN object ELSE temp[b]]
  BY DEF Flush
<1>2. DOMAIN temp' = D /\ \A b \in D : temp'[b] = IF from <= b /\ b < to THEN object ELSE temp[b]
  BY <1>1
<1>3. Start(c) <= from /\ (~Sliced => DOMAIN temp = 0..from - 1)
      /\ \A b \in Start(c)..from - 1 : b \in DOMAIN temp /\ (digestOk[c] => temp[b] = object)
  BY DEF Progress
<1> HIDE DEF from
<1>6. (Sliced => D = DOMAIN temp /\ D = 0..Size0 - 1) /\ (~Sliced => D = 0..to - 1)
  <2>1. CASE Sliced
    BY <1>0, <2>1 DEF FetchInv
  <2>2. CASE ~Sliced
    BY <1>0, <1>3, <2>2
  <2>. QED BY <2>1, <2>2
<1>7. \A b \in DOMAIN temp : temp[b] \in 0..Len(Size)
  <2>1. PICK l \in 0..SizeMax : temp \in [0..l - 1 -> 0..Len(Size)]
    BY FileCases, TypeParts
  <2>. QED BY <2>1
<1>8. object \in 0..Len(Size)
  BY TypeParts, Sizes
<1> HIDE DEF D
<1>9. temp' \in [D -> 0..Len(Size)]
  <2>1. \A b \in D : b \in DOMAIN temp \/ (from <= b /\ b < to)
    BY <1>0 DEF D
  <2>2. \A b \in D : (IF from <= b /\ b < to THEN object ELSE temp[b]) \in 0..Len(Size)
    BY <1>7, <1>8, <2>1
  <2>. QED BY <1>1, <2>2
<1>10. temp' \in Files
  <2>1. Size0 \in 0..SizeMax /\ to \in 0..SizeMax
    BY <1>0
  <2>2. CASE Sliced
    <3>1. temp' \in [0..Size0 - 1 -> 0..Len(Size)]
      BY <1>6, <1>9, <2>2
    <3>. QED BY <2>1, <3>1, FileCases
  <2>3. CASE ~Sliced
    <3>1. temp' \in [0..to - 1 -> 0..Len(Size)]
      BY <1>6, <1>9, <2>3
    <3>. QED BY <2>1, <3>1, FileCases
  <2>. QED BY <2>2, <2>3
<1>11. \A b \in DOMAIN temp : temp'[b] \in {temp[b], object}
  BY <1>2 DEF D
<1>12. ASSUME NEW b \in Start(c)..to - 1 PROVE b \in D /\ (digestOk[c] => temp'[b] = object)
  <2>1. CASE b < from
    BY <1>0, <1>2, <1>3, <2>1 DEF D
  <2>2. CASE from <= b
    BY <1>0, <1>2, <2>2 DEF D
  <2>. QED BY <1>0, <2>1, <2>2
<1>. QED BY <1>2, <1>6, <1>10, <1>11, <1>12

\* A function that keeps its values but for one.
Becomes(f, g, c, v) ==
    \/ g = f /\ v = f[c]
    \/ g = [f EXCEPT ![c] = v]

PerComponent(S) == [Components -> S]

LEMMA OneChange ==
    ASSUME NEW S, NEW f \in PerComponent(S), NEW c \in Components, NEW v \in S,
           NEW g, Becomes(f, g, c, v)
    PROVE  g \in PerComponent(S) /\ g[c] = v /\ \A d \in Components \ {c} : g[d] = f[d]
<1>1. CASE g = f /\ v = f[c]
  BY <1>1
<1>2. CASE g = [f EXCEPT ![c] = v]
  BY <1>2, Update DEF PerComponent
<1>. QED BY <1>1, <1>2 DEF Becomes

LEMMA Stepping ==
    ASSUME TypeOK, NEW c \in Mine,
           NEW x \in SlicePcs, NEW p \in 0..SizeMax, NEW f \in 0..SizeMax, NEW d \in BOOLEAN,
           Becomes(cPc, cPc', c, x), Becomes(pos, pos', c, p),
           Becomes(flushed, flushed', c, f), Becomes(digestOk, digestOk', c, d)
    PROVE  /\ Still(c) /\ SlicesOK'
           /\ cPc'[c] = x /\ pos'[c] = p /\ flushed'[c] = f /\ digestOk'[c] = d
<1> DEFINE P == 0..SizeMax
<1>1. /\ cPc \in PerComponent(SlicePcs) /\ c \in Components
      /\ pos \in PerComponent(P) /\ flushed \in PerComponent(P)
      /\ digestOk \in PerComponent(BOOLEAN) /\ p \in P /\ f \in P
  BY TypeParts, Placed DEF SlicesOK, PerComponent
<1> HIDE DEF P
<1>2. /\ cPc' \in PerComponent(SlicePcs) /\ cPc'[c] = x
      /\ \A e \in Components \ {c} : cPc'[e] = cPc[e]
  BY <1>1, OneChange
<1>3. /\ pos' \in PerComponent(P) /\ pos'[c] = p
      /\ \A e \in Components \ {c} : pos'[e] = pos[e]
  BY <1>1, OneChange
<1>4. /\ flushed' \in PerComponent(P) /\ flushed'[c] = f
      /\ \A e \in Components \ {c} : flushed'[e] = flushed[e]
  BY <1>1, OneChange
<1>5. /\ digestOk' \in PerComponent(BOOLEAN) /\ digestOk'[c] = d
      /\ \A e \in Components \ {c} : digestOk'[e] = digestOk[e]
  BY <1>1, OneChange
<1>. QED BY <1>2, <1>3, <1>4, <1>5 DEF Still, SlicesOK, PerComponent, P

\* A tracker file is written, for a component or the stream.
LEMMA Tracking ==
    ASSUME TypeOK, NEW c \in Owners, NEW v \in CompTrackers, comp' = [comp EXCEPT ![c] = v]
    PROVE  comp' \in [Owners -> CompTrackers]
<1>1. comp \in [Owners -> CompTrackers]
  BY TypeParts
<1>. QED BY <1>1, Update

\* A step of a component that writes no bytes.
Quiet(c) ==
    /\ pc = "fetch" /\ c \in Mine
    /\ UNCHANGED <<object, temp, parent, final, pc, count, doomed, exit, check, small>>
    /\ comp' \in [Owners -> CompTrackers] /\ (small => comp' = comp)

LEMMA QuietMoves ==
    ASSUME TypeOK, NEW c \in Mine, Quiet(c), Still(c), SlicesOK', FetchAt(c)'
    PROVE  Moves(c)
<1>1. temp \in Files /\ temp' = temp
  BY TypeParts DEF Quiet
<1>. QED BY <1>1 DEF Moves, Quiet

\* The component is at its start, or the stream about to be emptied.
LEMMA CreateMoves ==
    ASSUME TypeOK, FetchInv, NEW c \in Components, Create(c)
    PROVE  Moves(c)
<1>1. /\ c \in Mine /\ cPc' = [cPc EXCEPT ![c] = "create"]
      /\ comp' = [comp EXCEPT ![Own(c)] = Torn]
      /\ pc = "fetch" /\ ~small
  BY DEF Create, Go, At
<1>2. /\ pos[c] \in 0..SizeMax /\ flushed[c] \in 0..SizeMax /\ digestOk[c] \in BOOLEAN
      /\ "create" \in SlicePcs /\ Own(c) \in Owners /\ Torn \in CompTrackers
  BY <1>1, Placed, TypeParts, TrackerCases DEF SlicesOK, SlicePcs, CompTrackers
<1>3. Still(c) /\ SlicesOK' /\ cPc'[c] = "create"
  BY <1>1, <1>2, Stepping DEF Create, Becomes
<1>4. Quiet(c)
  BY <1>1, <1>2, Tracking DEF Create, Quiet, bounds
<1>5. FetchAt(c)'
  BY <1>3 DEF FetchAt
<1>. QED BY <1>1, <1>3, <1>4, <1>5, QuietMoves

LEMMA BeginsMoves ==
    ASSUME TypeOK, FetchInv, NEW c \in Components, Begins(c)
    PROVE  Moves(c)
<1> DEFINE x == IF ~Sliced THEN "truncate"
                ELSE IF Start(c) = End(c) + 1 THEN "done" ELSE "first"
<1>1. /\ c \in Mine /\ cPc' = [cPc EXCEPT ![c] = x] /\ pc = "fetch"
      /\ Start(c) <= End(c) + 1
  BY DEF Begins, Go, At, InRange
<1>2. /\ Start(c) \in 0..SizeMax /\ x \in SlicePcs /\ TRUE \in BOOLEAN
      /\ Own(c) \in Owners /\ Whole(object, Start(c)) \in CompTrackers
  BY <1>1, Placed, TypeParts, TrackerCases DEF SlicePcs, CompTrackers
<1>3. /\ Still(c) /\ SlicesOK' /\ cPc'[c] = x
      /\ pos'[c] = Start(c) /\ flushed'[c] = Start(c) /\ digestOk'[c] = TRUE
  BY <1>1, <1>2, Stepping DEF Begins, Becomes
<1>4. Quiet(c)
  <2>1. comp' \in [Owners -> CompTrackers] /\ (small => comp' = comp)
    BY <1>2, Tracking, TypeParts DEF Begins
  <2>. QED BY <1>1, <2>1 DEF Begins, Quiet, bounds
<1>5. FetchAt(c)'
  <2>1. object' = object /\ count' = count
    BY DEF Begins
  <2>2. Start(c)' = Start(c) /\ End(c)' = End(c) /\ (Sliced' <=> Sliced)
    BY <1>1, <2>1, SamePartition
  <2>3. CASE ~Sliced
    BY <1>1, <1>3, <2>2, <2>3 DEF FetchAt, Emptying
  <2>4. CASE Sliced
    <3>1. Start(c) \in Nat /\ End(c) + 1 \in Int
      BY <1>1, Placed
    <3>2. Progress(c)'
      BY <1>1, <1>3, <2>1, <2>4, <3>1, ProgressThen
    <3>. QED BY <1>3, <2>4, <3>2 DEF FetchAt
  <2>. QED BY <2>3, <2>4
<1>. QED BY <1>1, <1>3, <1>4, <1>5, QuietMoves

LEMMA TruncateMoves ==
    ASSUME TypeOK, FetchInv, NEW c \in Components, Truncate(c)
    PROVE  Moves(c)
<1>1. /\ c \in Mine /\ cPc' = [cPc EXCEPT ![c] = "first"] /\ pc = "fetch"
      /\ temp' = NoBytes /\ object' = object /\ count' = count /\ comp' = comp
      /\ UNCHANGED <<pos, flushed, digestOk>>
      /\ cPc[c] = "truncate"
  BY DEF Truncate, Go, At
<1>2. /\ pos[c] \in 0..SizeMax /\ flushed[c] \in 0..SizeMax /\ digestOk[c] \in BOOLEAN
      /\ "first" \in SlicePcs
  BY <1>1, Placed, TypeParts DEF SlicesOK, SlicePcs
<1>3. /\ Still(c) /\ SlicesOK' /\ cPc'[c] = "first"
      /\ pos'[c] = pos[c] /\ flushed'[c] = flushed[c]
  BY <1>1, <1>2, Stepping DEF Becomes
<1>4. Emptying(c)
  BY <1>1 DEF FetchInv, FetchAt
<1>5. ~Sliced /\ flushed[c] = 0 /\ pos[c] = 0 /\ Start(c) = 0 /\ 0 <= End(c) + 1
  BY <1>1, <1>4, Placed DEF Emptying
<1>6. DOMAIN temp' = {} /\ {} = 0..0 - 1
  BY <1>1 DEF NoBytes
<1>7. Progress(c)'
  BY <1>1, <1>3, <1>5, <1>6, ProgressThen
<1>8. FetchAt(c)'
  BY <1>3, <1>7 DEF FetchAt
<1>9. temp' \in Files /\ comp \in [Owners -> CompTrackers]
  BY <1>1, FileCases, TypeParts
<1>. QED BY <1>1, <1>3, <1>5, <1>6, <1>8, <1>9 DEF Moves, Truncate, bounds

LEMMA ResumeMoves ==
    ASSUME TypeOK, FetchInv, NEW c \in Components, Resume(c)
    PROVE  Moves(c)
<1> DEFINE b == Found(c)
           x == IF b = End(c) + 1 THEN "done" ELSE "first"
           d == CatchUp(c, b)
<1>1. /\ c \in Mine /\ cPc' = [cPc EXCEPT ![c] = x] /\ pc = "fetch" /\ Tracked(c)
      /\ Start(c) <= b /\ b <= End(c) + 1
      /\ object' = object /\ count' = count /\ comp' = comp /\ temp' = temp
      /\ pos' = [pos EXCEPT ![c] = b] /\ flushed' = [flushed EXCEPT ![c] = b]
      /\ digestOk' = [digestOk EXCEPT ![c] = d]
  BY DEF Resume, Go, At, InRange, durable
<1>2. b \in Nat /\ (~Sliced => DOMAIN temp = 0..b - 1)
  <2>1. CASE Sliced
    <3>1. comp[Own(c)] \in CompTrackers /\ comp[Own(c)].there = "whole" /\ Own(c) = c
      BY <1>1, <2>1, Placed, TypeParts DEF Tracked, Own
    <3>2. comp[c].value \in 0..SizeMax
      BY <3>1, TrackerCases DEF CompTrackers
    <3>3. comp[c].value \in Nat
      BY <3>2, Sizes
    <3>. QED BY <2>1, <3>3 DEF Found
  <2>2. CASE ~Sliced
    BY <2>2, FileSize, TypeParts DEF Found
  <2>. QED BY <2>1, <2>2
<1>3. Size0 \in Nat /\ Start(c) \in Nat /\ End(c) + 1 \in Int /\ End(c) + 1 <= Size0
      /\ Size0 <= SizeMax /\ SizeMax \in Nat
  BY <1>1, Placed
<1>4. d \in BOOLEAN /\ x \in SlicePcs
  BY DEF CatchUp, SlicePcs
<1>5. b \in 0..SizeMax /\ b <= Size0
  BY <1>1, <1>2, <1>3
<1>6. d => \A i \in Start(c)..b - 1 : temp[i] = object
  BY DEF CatchUp
<1>7. x = "done" => b = End(c) + 1
  OBVIOUS
<1>8. x \in {"first", "done"}
  OBVIOUS
<1> HIDE DEF b, x, d
<1>9. /\ Still(c) /\ SlicesOK' /\ cPc'[c] = x
      /\ pos'[c] = b /\ flushed'[c] = b /\ digestOk'[c] = d
  BY <1>1, <1>4, <1>5, Stepping DEF Becomes
<1>10. \A i \in Start(c)..b - 1 : i \in DOMAIN temp
  <2>1. CASE Sliced
    <3>1. DOMAIN temp = 0..Size0 - 1
      BY <1>1, <2>1 DEF FetchInv
    <3>. QED BY <1>2, <1>3, <1>5, <3>1
  <2>2. CASE ~Sliced
    BY <1>2, <1>3, <2>2
  <2>. QED BY <2>1, <2>2
<1>11. Progress(c)'
  BY <1>1, <1>2, <1>3, <1>6, <1>7, <1>9, <1>10, ProgressThen
<1>12. FetchAt(c)'
  BY <1>8, <1>9, <1>11 DEF FetchAt
<1>13. Quiet(c)
  BY <1>1, TypeParts DEF Quiet, Resume, durable, bounds
<1>. QED BY <1>1, <1>9, <1>12, <1>13, QuietMoves

LEMMA OutOfRangeMoves ==
    ASSUME TypeOK, FetchInv, NEW c \in Components, OutOfRange(c)
    PROVE  Moves(c)
<1>1. /\ c \in Mine /\ cPc' = [cPc EXCEPT ![c] = "failed"] /\ pc = "fetch"
      /\ comp' = IF small THEN comp ELSE [comp EXCEPT ![Own(c)] = None]
      /\ UNCHANGED <<pos, flushed, digestOk>>
  BY DEF OutOfRange, Go, At
<1>2. /\ pos[c] \in 0..SizeMax /\ flushed[c] \in 0..SizeMax /\ digestOk[c] \in BOOLEAN
      /\ "failed" \in SlicePcs /\ Own(c) \in Owners /\ None \in CompTrackers
  BY <1>1, Placed, TypeParts, TrackerCases DEF SlicesOK, SlicePcs, CompTrackers
<1>3. Still(c) /\ SlicesOK' /\ cPc'[c] = "failed"
  BY <1>1, <1>2, Stepping DEF Becomes
<1>4. comp' \in [Owners -> CompTrackers] /\ (small => comp' = comp)
  BY <1>1, <1>2, Tracking, TypeParts
<1>5. Quiet(c)
  BY <1>1, <1>4 DEF OutOfRange, Quiet, bounds
<1>6. FetchAt(c)'
  BY <1>3 DEF FetchAt
<1>. QED BY <1>1, <1>3, <1>5, <1>6, QuietMoves

LEMMA ReceiveMoves ==
    ASSUME TypeOK, FetchInv, NEW c \in Components, Receive(c)
    PROVE  Moves(c)
<1>1. PICK x \in {"track", "next"}, f \in {flushed[c], pos[c], pos[c] + 1} :
        /\ cPc' = [cPc EXCEPT ![c] = x] /\ (x = "track" => Wrapped)
        /\ flushed' = [flushed EXCEPT ![c] = f] /\ Flush(c, flushed[c], f)
  BY DEF Receive, Go
<1>2. /\ c \in Mine /\ pc = "fetch" /\ cPc[c] \in {"first", "next"}
      /\ pos[c] <= End(c) /\ pos' = [pos EXCEPT ![c] = pos[c] + 1]
      /\ object' = object /\ count' = count /\ comp' = comp /\ digestOk' = digestOk
  BY DEF Receive, Go, At
<1>3. Progress(c)
  BY <1>2 DEF FetchInv, FetchAt
<1>4. /\ Start(c) <= flushed[c] /\ flushed[c] <= pos[c] /\ Start(c) \in Nat
      /\ pos[c] \in Nat /\ flushed[c] \in Nat /\ digestOk[c] \in BOOLEAN
      /\ End(c) + 1 \in Int /\ End(c) + 1 <= Size0 /\ Size0 <= SizeMax
      /\ Size0 \in Nat /\ SizeMax \in Nat
  BY <1>2, <1>3, Placed DEF Progress
<1>5. End(c) \in Int /\ pos[c] + 1 <= End(c) + 1
  BY <1>2, <1>4, Partition, TypeParts
<1>6. f \in Nat /\ flushed[c] <= f /\ f <= pos[c] + 1 /\ f <= End(c) + 1
  BY <1>1, <1>4, <1>5
<1>7. f \in 0..SizeMax /\ pos[c] + 1 \in 0..SizeMax /\ x \in SlicePcs
  BY <1>1, <1>4, <1>5, <1>6 DEF SlicePcs
<1>8. /\ Still(c) /\ SlicesOK' /\ cPc'[c] = x
      /\ pos'[c] = pos[c] + 1 /\ flushed'[c] = f /\ digestOk'[c] = digestOk[c]
  <2>1. /\ cPc' = [cPc EXCEPT ![c] = x] /\ flushed' = [flushed EXCEPT ![c] = f]
        /\ pos' = [pos EXCEPT ![c] = pos[c] + 1] /\ digestOk' = digestOk
    BY <1>1, <1>2
  <2> DEFINE p == pos[c] + 1
  <2>2. p \in 0..SizeMax /\ pos' = [pos EXCEPT ![c] = p]
    BY <1>7, <2>1
  <2> HIDE DEF p
  <2>3. /\ Still(c) /\ SlicesOK' /\ cPc'[c] = x
        /\ pos'[c] = p /\ flushed'[c] = f /\ digestOk'[c] = digestOk[c]
    <3>1. /\ Becomes(cPc, cPc', c, x) /\ Becomes(pos, pos', c, p)
          /\ Becomes(flushed, flushed', c, f) /\ Becomes(digestOk, digestOk', c, digestOk[c])
      BY <2>1, <2>2 DEF Becomes
    <3>. QED BY <1>2, <1>4, <1>7, <2>2, <3>1, Stepping
  <2>. QED BY <2>3 DEF p
<1>9. /\ temp' \in Files /\ (Sliced => DOMAIN temp' = DOMAIN temp)
      /\ ~Sliced => DOMAIN temp' = 0..f - 1
      /\ \A b \in DOMAIN temp : temp'[b] \in {temp[b], object}
      /\ \A b \in Start(c)..f - 1 : b \in DOMAIN temp' /\ (digestOk[c] => temp'[b] = object)
  BY <1>1, <1>2, <1>3, <1>6, Flushing
<1>10. Start(c) <= f
  BY <1>4, <1>6
<1>11. cPc'[c] # "done"
  BY <1>1, <1>8
<1>12. Progress(c)'
  BY <1>2, <1>5, <1>6, <1>8, <1>9, <1>10, <1>11, ProgressThen
<1>13. FetchAt(c)'
  <2>1. Wrapped' <=> Wrapped
    BY <1>2, SamePartition DEF Wrapped, Receive, OpenTracker, WriteTracker, bounds
  <2>2. cPc'[c] \in {"track", "next"}
    BY <1>1, <1>8
  <2>. QED BY <1>1, <1>8, <1>12, <2>1, <2>2 DEF FetchAt
<1>14. comp \in [Owners -> CompTrackers]
  BY TypeParts
<1>. QED BY <1>2, <1>8, <1>9, <1>13, <1>14 DEF Moves, Receive, bounds

\* A tracker file is opened, and written.
LEMMA TrackMoves ==
    ASSUME TypeOK, FetchInv, NEW c \in Components, OpenTracker(c) \/ WriteTracker(c)
    PROVE  Moves(c)
<1>1. PICK x \in {"torn", "next"}, v \in {Torn, Whole(object, pos[c])} :
        /\ cPc' = [cPc EXCEPT ![c] = x] /\ comp' = [comp EXCEPT ![c] = v]
  BY DEF OpenTracker, WriteTracker, Go
<1>2. /\ c \in Mine /\ pc = "fetch" /\ cPc[c] \in {"track", "torn"}
      /\ object' = object /\ count' = count /\ temp' = temp
      /\ UNCHANGED <<pos, flushed, digestOk>>
  BY DEF OpenTracker, WriteTracker, Go, At
<1>3. Progress(c) /\ Wrapped
  BY <1>2 DEF FetchInv, FetchAt
<1>4. /\ pos[c] \in 0..SizeMax /\ flushed[c] \in 0..SizeMax /\ digestOk[c] \in BOOLEAN
      /\ x \in SlicePcs /\ c \in Owners /\ v \in CompTrackers
  BY <1>1, <1>2, Placed, TypeParts, TrackerCases DEF SlicesOK, SlicePcs, CompTrackers, Owners
<1>5. /\ Still(c) /\ SlicesOK' /\ cPc'[c] = x
      /\ pos'[c] = pos[c] /\ flushed'[c] = flushed[c] /\ digestOk'[c] = digestOk[c]
  BY <1>1, <1>2, <1>4, Stepping DEF Becomes
<1>6. Progress(c)'
  <2>1. cPc'[c] # "done"
    BY <1>1, <1>5
  <2>. QED BY <1>2, <1>3, <1>5, <2>1, ProgressThen DEF Progress
<1>7. FetchAt(c)'
  <2>1. Wrapped' <=> Wrapped
    BY <1>2, SamePartition DEF Wrapped, Receive, OpenTracker, WriteTracker, bounds
  <2>. QED BY <1>1, <1>3, <1>5, <1>6, <2>1 DEF FetchAt
<1>8. comp' \in [Owners -> CompTrackers]
  BY <1>1, <1>4, Tracking
<1>. QED BY <1>2, <1>3, <1>5, <1>7, <1>8, QuietMoves DEF Quiet, Wrapped, OpenTracker, WriteTracker, bounds

\* The file is closed, after the last byte or after a failure.
LEMMA CloseMoves ==
    ASSUME TypeOK, FetchInv, NEW c \in Components, Finish(c) \/ FetchFails(c)
    PROVE  Moves(c)
<1>1. PICK x \in {"done", "failed"} :
        cPc' = [cPc EXCEPT ![c] = x] /\ (x = "done" => pos[c] = End(c) + 1)
  BY DEF Finish, FetchFails, Go
<1>2. /\ c \in Mine /\ pc = "fetch" /\ cPc[c] \in {"first", "next"}
      /\ Flush(c, flushed[c], pos[c]) /\ flushed' = [flushed EXCEPT ![c] = pos[c]]
      /\ object' = object /\ count' = count /\ comp' = comp
      /\ pos' = pos /\ digestOk' = digestOk
  BY DEF Finish, FetchFails, Go, At
<1>3. Progress(c)
  BY <1>2 DEF FetchInv, FetchAt
<1>4. /\ Start(c) <= flushed[c] /\ flushed[c] <= pos[c] /\ pos[c] <= End(c) + 1
      /\ Start(c) \in Nat /\ pos[c] \in Nat /\ flushed[c] \in Nat /\ digestOk[c] \in BOOLEAN
      /\ pos[c] \in 0..SizeMax /\ x \in SlicePcs
  BY <1>1, <1>2, <1>3, Placed, TypeParts DEF Progress, SlicesOK, SlicePcs
<1>5. /\ Still(c) /\ SlicesOK' /\ cPc'[c] = x
      /\ pos'[c] = pos[c] /\ flushed'[c] = pos[c] /\ digestOk'[c] = digestOk[c]
  BY <1>1, <1>2, <1>4, Stepping DEF Becomes
<1>6. /\ temp' \in Files /\ (Sliced => DOMAIN temp' = DOMAIN temp)
      /\ ~Sliced => DOMAIN temp' = 0..pos[c] - 1
      /\ \A b \in DOMAIN temp : temp'[b] \in {temp[b], object}
      /\ \A b \in Start(c)..pos[c] - 1 :
            b \in DOMAIN temp' /\ (digestOk[c] => temp'[b] = object)
  BY <1>2, <1>3, <1>4, Flushing
<1>7. Start(c) <= pos[c]
  BY <1>4
<1>8. Progress(c)'
  BY <1>1, <1>2, <1>4, <1>5, <1>6, <1>7, ProgressThen
<1>9. FetchAt(c)'
  BY <1>1, <1>5, <1>8 DEF FetchAt
<1>10. comp \in [Owners -> CompTrackers]
  BY TypeParts
<1>11. UNCHANGED <<parent, final, pc, doomed, exit, check, small>>
  BY DEF Finish, FetchFails, Fault, bounds
<1>. QED BY <1>2, <1>5, <1>6, <1>9, <1>10, <1>11 DEF Moves

LEMMA SliceMoves ==
    ASSUME TypeOK, FetchInv, NEW c \in Components, Slice(c)
    PROVE  Moves(c)
  BY CreateMoves, BeginsMoves, TruncateMoves, ResumeMoves, OutOfRangeMoves, ReceiveMoves,
     TrackMoves, CloseMoves DEF Slice

-----------------------------------------------------------------------------
(* The types.                                                              *)

AllTrackers == Components \union {SingleFile, ParentFile}

LEMMA TrackersDeleted ==
    ASSUME NEW S, NEW s \in Seq(S), s # <<>>
    PROVE  /\ Head(s) \in S /\ Tail(s) \in Seq(S)
           /\ \A x \in Range(s) : x = Head(s) \/ x \in Range(Tail(s))
<1>1. Head(s) \in S /\ Tail(s) \in Seq(S)
  OBVIOUS
<1>2. ASSUME NEW x \in Range(s) PROVE x = Head(s) \/ x \in Range(Tail(s))
  <2>1. PICK i \in 1..Len(s) : x = s[i]
    BY DEF Range
  <2>2. CASE i = 1
    BY <2>1, <2>2
  <2>3. CASE i # 1
    <3>1. /\ i - 1 \in 1..Len(Tail(s)) /\ Tail(s)[i - 1] = s[i]
          /\ DOMAIN Tail(s) = 1..Len(Tail(s))
      BY <2>1, <2>3
    <3>. QED BY <2>1, <3>1 DEF Range
  <2>. QED BY <2>2, <2>3
<1>. QED BY <1>1, <1>2

LEMMA Appended ==
    ASSUME NEW S, NEW t \in Seq(S), NEW u \in Seq(S), Len(t) = 2
    PROVE  /\ t \o u \in Seq(S) /\ Len(t \o u) = 2 + Len(u) /\ Len(u) \in Nat
           /\ (t \o u)[1] = t[1] /\ (t \o u)[2] = t[2]
           /\ \A i \in 1..Len(u) : (t \o u)[i + 2] = u[i]
<1> DEFINE s == t \o u
<1>1. /\ s \in Seq(S) /\ Len(s) = Len(t) + Len(u)
      /\ \A i \in 1..Len(t) + Len(u) : s[i] = IF i <= Len(t) THEN t[i] ELSE u[i - Len(t)]
  BY ConcatProperties, Zenon
<1>2. Len(u) \in Nat
  OBVIOUS
<1> HIDE DEF s
<1>3. /\ Len(s) = 2 + Len(u)
      /\ \A i \in 1..2 + Len(u) : s[i] = IF i <= 2 THEN t[i] ELSE u[i - 2]
  BY <1>1
<1>4. s[1] = t[1] /\ s[2] = t[2] /\ \A i \in 1..Len(u) : s[i + 2] = u[i]
  BY <1>2, <1>3
<1>. QED BY <1>1, <1>2, <1>3, <1>4 DEF s

\* The parent and what it lists.
LEMMA TrackersFound ==
    ASSUME parent \in Trackers(Counts)
    PROVE  /\ TrackerFiles \in Seq(AllTrackers) /\ TrackerFiles # <<>>
           /\ SingleFile \in Range(TrackerFiles) /\ ParentFile \in Range(TrackerFiles)
           /\ parent.there = "whole" => 0..parent.value - 1 \subseteq Range(TrackerFiles)
<1> DEFINE t == <<SingleFile, ParentFile>>
           u == IF parent.there = "whole" THEN [i \in 1..parent.value |-> i - 1] ELSE <<>>
           s == t \o u
<1>1. parent.there = "whole" =>
         /\ parent.value \in Nat \ {0}
         /\ \A i \in 1..parent.value : i - 1 \in Components
  <2>1. ASSUME parent.there = "whole" PROVE parent.value \in Counts
    BY <2>1, TrackerCases
  <2>2. ASSUME NEW k \in Counts PROVE k \in Nat \ {0} /\ \A i \in 1..k : i - 1 \in Components
    BY CountsArePositive DEF Components
  <2>. QED BY <2>1, <2>2
<1>2. u \in Seq(AllTrackers) /\ (parent.there = "whole" => Len(u) = parent.value)
  <2>1. CASE parent.there = "whole"
    BY <1>1, <2>1 DEF AllTrackers
  <2>2. CASE parent.there # "whole"
    BY <2>2
  <2>. QED BY <2>1, <2>2
<1>3. t \in Seq(AllTrackers) /\ Len(t) = 2 /\ t[1] = SingleFile /\ t[2] = ParentFile
  BY DEF AllTrackers
<1>4. parent.there = "whole" => \A i \in 1..parent.value : u[i] = i - 1
  OBVIOUS
<1>5. TrackerFiles = s
  BY DEF TrackerFiles
<1> HIDE DEF t, u
<1>6. /\ s \in Seq(AllTrackers) /\ Len(s) = 2 + Len(u) /\ Len(u) \in Nat
      /\ s[1] = t[1] /\ s[2] = t[2] /\ \A i \in 1..Len(u) : s[i + 2] = u[i]
  BY <1>2, <1>3, Appended
<1>7. 1 \in DOMAIN s /\ 2 \in DOMAIN s /\ \A i \in 1..Len(u) : i + 2 \in DOMAIN s
  BY <1>6
<1>8. parent.there = "whole" => 0..parent.value - 1 \subseteq Range(s)
  <2>1. ASSUME parent.there = "whole", NEW x \in 0..parent.value - 1 PROVE x \in Range(s)
    <3>1. parent.value \in Nat
      BY <1>1, <2>1
    <3>2. x + 1 \in 1..parent.value /\ (x + 1) - 1 = x
      BY <3>1
    <3>3. u[x + 1] = x /\ x + 1 \in 1..Len(u)
      BY <1>2, <1>4, <2>1, <3>2
    <3>4. s[x + 3] = x /\ x + 3 \in DOMAIN s
      BY <1>6, <1>7, <3>2, <3>3
    <3>. QED BY <3>4 DEF Range
  <2>. QED BY <2>1
<1>9. s # <<>>
  BY <1>6
<1>. QED BY <1>3, <1>5, <1>6, <1>7, <1>8, <1>9 DEF Range

LEMMA TypeInit ==
    ASSUME Init
    PROVE  TypeOK
<1>1. 1 \in Generations /\ 0 \in 0..SizeMax
  BY Sizes
<1>2. NoBytes \in Files /\ None \in Trackers(Counts) /\ None \in Trackers(0..SizeMax)
  BY FileCases, TrackerCases
<1>3. <<>> \in Seq(AllTrackers)
  OBVIOUS
<1>4. comp \in [Components \union {SingleFile} -> Trackers(0..SizeMax)]
  BY <1>2 DEF Init
<1>5. /\ cPc \in [Components -> SlicePcs] /\ digestOk \in [Components -> BOOLEAN]
      /\ pos \in [Components -> 0..SizeMax] /\ flushed \in [Components -> 0..SizeMax]
  BY <1>1 DEF Init, SlicePcs
<1>6. /\ object \in Generations /\ temp \in Files /\ final \in Files
      /\ parent \in Trackers(Counts) /\ doomed \in Seq(AllTrackers)
      /\ pc = "idle" /\ count \in Counts /\ exit = "none"
      /\ check \in CheckHashes /\ small \in Smalls
  BY <1>1, <1>2, <1>3 DEF Init
<1>. QED BY <1>4, <1>5, <1>6 DEF TypeOK, AllTrackers, SlicePcs

LEMMA MovesKeep ==
    ASSUME TypeOK, FetchInv, NEW c, Moves(c)
    PROVE  TypeOK' /\ FetchInv'
<1>1. TypeOK'
  BY DEF TypeOK, Moves, SlicesOK, SlicePcs, Owners, CompTrackers
<1>2. /\ Size0' = Size0 /\ Mine' = Mine /\ (Sliced' <=> Sliced)
      /\ \A d \in Mine : Start(d)' = Start(d) /\ End(d)' = End(d) /\ Own(d)' = Own(d)
      /\ c \in Mine /\ pc = "fetch" /\ pc' = pc /\ object' = object /\ small' = small
  BY SamePartition DEF Moves
<1>3. Sliced => DOMAIN temp' = 0..Size0 - 1
  BY <1>2 DEF Moves, FetchInv
<1>4. ASSUME NEW d \in Mine PROVE FetchAt(d)'
  <2>1. CASE d = c
    BY <2>1 DEF Moves
  <2>2. CASE d # c
    <3>1. /\ d \in Components /\ Start(d)' = Start(d) /\ End(d)' = End(d) /\ FetchAt(d)
      BY <1>2, Placed DEF FetchInv
    <3>2. cPc'[d] = cPc[d] /\ pos'[d] = pos[d] /\ flushed'[d] = flushed[d]
          /\ digestOk'[d] = digestOk[d]
      BY <2>2, <3>1 DEF Moves, Still
    <3>3. Sliced
      BY <1>2, <2>2, Placed
    <3>4. \A b \in DOMAIN temp : b \in DOMAIN temp' /\ temp'[b] \in {temp[b], object}
      BY <3>3 DEF Moves
    <3>5. Progress(d) => Progress(d)'
      BY <1>2, <3>1, <3>2, <3>3, <3>4 DEF Progress
    <3>. QED BY <1>2, <3>1, <3>2, <3>3, <3>5 DEF FetchAt, Emptying, Wrapped
  <2>. QED BY <2>1, <2>2
<1>. QED BY <1>1, <1>2, <1>3, <1>4 DEF FetchInv

\* What the steps between those of components leave alone.
LEMMA TypeNext ==
    ASSUME TypeOK, FetchInv, Next
    PROVE  TypeOK'
<1>0. /\ object \in Generations /\ temp \in Files /\ final \in Files
      /\ parent \in Trackers(Counts) /\ count \in Counts
      /\ comp \in [Owners -> CompTrackers] /\ doomed \in Seq(AllTrackers)
      /\ SlicesOK /\ check \in CheckHashes /\ small \in Smalls
  BY DEF TypeOK, Owners, CompTrackers, AllTrackers, SlicesOK, SlicePcs
<1>. SUFFICES /\ object' \in Generations /\ temp' \in Files /\ final' \in Files
              /\ parent' \in Trackers(Counts) /\ comp' \in [Owners -> CompTrackers]
              /\ pc' \in {"idle", "maintain", "restart", "parent", "resize", "fetch",
                          "accept", "reject"}
              /\ count' \in Counts /\ doomed' \in Seq(AllTrackers) /\ SlicesOK'
              /\ check' \in CheckHashes /\ small' \in Smalls
              /\ exit' \in {"none", "ok", "failed", "crashed"}
  BY DEF TypeOK, Owners, CompTrackers, AllTrackers, SlicesOK, SlicePcs
<1>1. pc \in {"idle", "maintain", "restart", "parent", "resize", "fetch", "accept", "reject"}
      /\ exit \in {"none", "ok", "failed", "crashed"}
  BY DEF TypeOK
<1>2. <<>> \in Seq(AllTrackers) /\ TrackerFiles \in Seq(AllTrackers)
  BY <1>0, TrackersFound
<1>3. NoBytes \in Files /\ None \in Trackers(Counts) /\ Torn \in Trackers(Counts)
      /\ None \in CompTrackers /\ Whole(object, count) \in Trackers(Counts)
  BY <1>0, FileCases, TrackerCases DEF CompTrackers
<1>4. UNCHANGED slices => SlicesOK'
  BY <1>0 DEF slices, SlicesOK
<1>5. CASE Begin
  <2>1. SlicesOK'
    BY <1>5, Sizes DEF Begin, SlicesOK, SlicePcs
  <2>2. count' \in Counts /\ final' = NoBytes /\ exit' = "none"
        /\ pc' \in {"maintain", "fetch"} /\ check' = check /\ small' = small
        /\ UNCHANGED <<object, temp, parent, comp, doomed>>
    BY <1>0, <1>5, CountsArePositive DEF Begin, Size0
  <2>. QED BY <1>0, <1>3, <2>1, <2>2
<1>6. CASE Maintain
  BY <1>0, <1>1, <1>2, <1>4, <1>6 DEF Maintain, durable, bounds
<1>7. CASE DeleteTracker
  <2>1. Head(doomed) \in AllTrackers /\ Tail(doomed) \in Seq(AllTrackers)
    BY <1>0, <1>7, TrackersDeleted DEF DeleteTracker
  <2>2. parent' \in Trackers(Counts) /\ comp' \in [Owners -> CompTrackers]
    <3>1. CASE Head(doomed) = ParentFile
      BY <1>0, <1>3, <1>7, <3>1 DEF DeleteTracker
    <3>2. CASE Head(doomed) # ParentFile
      <4>1. Head(doomed) \in Owners
        BY <2>1, <3>2 DEF AllTrackers, Owners
      <4>2. comp' = [comp EXCEPT ![Head(doomed)] = None] /\ parent' = parent
        BY <1>7, <3>2 DEF DeleteTracker
      <4>. QED BY <1>0, <1>3, <4>1, <4>2, Tracking
    <3>. QED BY <3>1, <3>2
  <2>3. /\ doomed' = Tail(doomed) /\ UNCHANGED <<object, temp, final, pc, count, exit>>
        /\ UNCHANGED <<slices, check, small>>
    BY <1>7 DEF DeleteTracker, bounds
  <2>. QED BY <1>0, <1>1, <1>4, <2>1, <2>2, <2>3
<1>8. CASE OpenParent \/ WriteParent
  <2>1. parent' \in {Torn, Whole(object, count)} /\ pc' \in {"parent", "resize"}
        /\ UNCHANGED <<object, temp, comp, final, count, doomed, slices, exit, check, small>>
    BY <1>8 DEF OpenParent, WriteParent, bounds
  <2>. QED BY <1>0, <1>1, <1>3, <1>4, <2>1
<1>9. CASE Resize
  <2>1. temp' = [b \in 0..Size0 - 1 |-> IF b \in DOMAIN temp THEN temp[b] ELSE 0]
        /\ pc' = "fetch"
        /\ UNCHANGED <<object, parent, comp, final, count, doomed, slices, exit, check, small>>
    BY <1>9 DEF Resize, bounds
  <2>2. PICK l \in 0..SizeMax : temp \in [0..l - 1 -> 0..Len(Size)]
    BY <1>0, FileCases
  <2>3. 0 \in 0..Len(Size) /\ Size0 \in 0..SizeMax
    BY <1>0, Sizes, Partition
  <2>4. temp' \in [0..Size0 - 1 -> 0..Len(Size)]
    BY <2>1, <2>2, <2>3
  <2>5. temp' \in Files
    BY <2>3, <2>4, FileCases
  <2>. QED BY <1>0, <1>1, <1>4, <2>1, <2>5
<1>11. CASE GiveUp \/ Validate
  <2>1. pc' \in {"idle", "accept", "reject"} /\ doomed' \in {doomed, TrackerFiles}
        /\ exit' \in {exit, "failed"}
        /\ UNCHANGED <<durable, count, slices, check, small>>
    BY <1>11 DEF GiveUp, Validate, Fails, bounds
  <2>. QED BY <1>0, <1>1, <1>2, <1>4, <2>1 DEF durable
<1>12. CASE Rename \/ Unlink
  <2>1. temp' = NoBytes /\ final' \in {temp, final} /\ pc' = "idle" /\ exit' \in {"ok", "failed"}
        /\ UNCHANGED <<object, parent, comp, count, doomed, slices, check, small>>
    BY <1>12 DEF Rename, Unlink, Fails
  <2>. QED BY <1>0, <1>3, <1>4, <2>1
<1>13. CASE Crash
  <2>1. pc' = "idle" /\ exit' = "crashed" /\ doomed' = <<>>
        /\ UNCHANGED <<durable, count, slices, check, small>>
    BY <1>13 DEF Crash
  <2>. QED BY <1>0, <1>2, <1>4, <2>1 DEF durable
<1>14. CASE Overwrite
  <2>1. object' = object + 1 /\ object < Len(Size)
        /\ UNCHANGED <<temp, parent, comp, final, pc, count, doomed, slices, exit, check, small>>
    BY <1>14 DEF Overwrite
  <2>2. object' \in Generations
    BY <1>0, <2>1, Sizes
  <2>. QED BY <1>0, <1>1, <1>4, <2>1, <2>2
<1>15. CASE Quiescent
  BY <1>0, <1>1, <1>4, <1>15 DEF Quiescent, vars, durable, bounds
<1>16. ASSUME NEW c \in Components, Slice(c)
       PROVE  /\ object' \in Generations /\ temp' \in Files /\ final' \in Files
              /\ parent' \in Trackers(Counts) /\ comp' \in [Owners -> CompTrackers]
              /\ pc' \in {"idle", "maintain", "restart", "parent", "resize", "fetch",
                          "accept", "reject"}
              /\ count' \in Counts /\ doomed' \in Seq(AllTrackers) /\ SlicesOK'
              /\ check' \in CheckHashes /\ small' \in Smalls
              /\ exit' \in {"none", "ok", "failed", "crashed"}
  BY <1>0, <1>1, <1>16, SliceMoves DEF Moves
<1>. QED BY <1>5, <1>6, <1>7, <1>8, <1>9, <1>11, <1>12, <1>13, <1>14, <1>15, <1>16 DEF Next

LEMMA FetchSame ==
    ASSUME FetchInv, UNCHANGED <<object, temp, pc, count, slices, small>>
    PROVE  FetchInv'
<1>1. /\ Size0' = Size0 /\ Mine' = Mine /\ (Sliced' <=> Sliced)
      /\ \A c \in Mine : Start(c)' = Start(c) /\ End(c)' = End(c)
  BY SamePartition
<1>2. ASSUME NEW c \in Mine, FetchAt(c) PROVE FetchAt(c)'
  <2>1. Progress(c)' <=> Progress(c)
    BY <1>1 DEF Progress, slices
  <2>. QED BY <1>1, <1>2, <2>1 DEF FetchAt, Emptying, Wrapped, slices
<1>. QED BY <1>1, <1>2 DEF FetchInv, slices

\* The run before and after its components.
LEMMA FetchNext ==
    ASSUME TypeOK, FetchInv, Next
    PROVE  FetchInv'
<1>1. ASSUME NEW c \in Components, Slice(c) PROVE FetchInv'
  BY <1>1, SliceMoves, MovesKeep
<1>2. CASE Begin
  <2>1. count' \in Counts /\ (pc' = "fetch" => ~(count' > 1))
        /\ cPc' = [c \in Components |-> "open"]
    BY <1>2, CountsArePositive DEF Begin, Size0, TypeOK
  <2>2. Mine' \subseteq Components
    BY <2>1 DEF Mine, Components
  <2>3. \A c \in Mine' : cPc'[c] = "open"
    BY <2>1, <2>2
  <2>. QED BY <2>1, <2>3 DEF FetchInv, FetchAt, Sliced
<1>3. CASE Resize
  <2>1. Size0' = Size0 /\ Mine' = Mine
    BY <1>3, SamePartition DEF Resize
  <2>2. DOMAIN temp' = 0..Size0 - 1
    BY <1>3 DEF Resize
  <2>3. \A c \in Mine : cPc'[c] = "open"
    BY <1>3 DEF Resize, FetchInv, slices
  <2>. QED BY <1>3, <2>1, <2>2, <2>3 DEF Resize, FetchInv, FetchAt
<1>4. CASE GiveUp \/ Validate \/ Rename \/ Unlink \/ Crash \/ Overwrite
  BY <1>4 DEF GiveUp, Validate, Rename, Unlink, Crash, Overwrite, FetchInv
<1>5. CASE Maintain \/ OpenParent \/ WriteParent
  <2>1. pc' \in {"restart", "parent", "resize"} /\ pc \in {"maintain", "restart", "parent"}
        /\ UNCHANGED <<count, cPc>>
    BY <1>5 DEF Maintain, OpenParent, WriteParent, slices
  <2>. QED BY <2>1 DEF FetchInv, Mine
<1>6. CASE UNCHANGED <<object, temp, pc, count, slices, small>>
  BY <1>6, FetchSame
<1>7. DeleteTracker \/ Quiescent => UNCHANGED <<object, temp, pc, count, slices, small>>
  BY DEF DeleteTracker, Quiescent, vars, durable, bounds
<1>. QED BY <1>1, <1>2, <1>3, <1>4, <1>5, <1>6, <1>7 DEF Next

\* Object, files, tracker files, positions and pcs are of their types, for any
\* sizes, numbers of components, runs and faults: a component never goes beyond
\* its range, nor a file beyond the largest generation.
THEOREM TypesHold == Spec => []TypeOK
<1>1. Init => TypeOK /\ FetchInv
  BY TypeInit DEF Init, FetchInv
<1>2. TypeOK /\ FetchInv /\ [Next]_vars => TypeOK' /\ FetchInv'
  <2>1. ASSUME TypeOK, FetchInv, UNCHANGED vars PROVE TypeOK' /\ FetchInv'
    <3>1. TypeOK'
      BY <2>1 DEF TypeOK, vars, durable, slices, bounds
    <3>. QED BY <2>1, <3>1, FetchSame DEF vars, durable, bounds
  <2>. QED BY <2>1, TypeNext, FetchNext
<1>. QED BY <1>1, <1>2, PTL DEF Spec

-----------------------------------------------------------------------------
(* What is delivered.                                                      *)

\* If all digests are of the object, so is the file.
LEMMA DigestedIsObject ==
    ASSUME TypeOK, FetchInv, pc = "fetch", \A c \in Mine : cPc[c] = "done" /\ digestOk[c]
    PROVE  temp = [b \in 0..Size0 - 1 |-> object]
<1>1. \A c \in Mine : Progress(c) /\ flushed[c] = End(c) + 1
  BY DEF FetchInv, FetchAt, Progress
<1>2. ASSUME NEW b \in 0..Size0 - 1 PROVE temp[b] = object
  <2>1. PICK c \in Mine : Start(c) <= b /\ b <= End(c)
    BY Partition, TypeParts
  <2>2. Start(c) \in Nat /\ End(c) \in Int /\ Size0 \in Nat
    BY Partition, TypeParts
  <2>3. b \in Start(c)..flushed[c] - 1
    BY <1>1, <2>1, <2>2
  <2>. QED BY <1>1, <2>3 DEF Progress
<1>3. DOMAIN temp = 0..Size0 - 1
  <2>1. CASE Sliced
    BY <2>1 DEF FetchInv
  <2>2. CASE ~Sliced
    <3>1. 0 \in Mine /\ Size0 \in Nat /\ End(0) + 1 = Size0
      BY <2>2, Partition, TypeParts
    <3>2. DOMAIN temp = 0..flushed[0] - 1 /\ flushed[0] = Size0
      BY <1>1, <2>2, <3>1 DEF Progress
    <3>. QED BY <3>2
  <2>. QED BY <2>1, <2>2
<1>4. PICK l \in 0..SizeMax : temp \in [0..l - 1 -> 0..Len(Size)]
  BY FileCases, TypeParts
<1>. QED BY <1>2, <1>3, <1>4

LEMMA DeliveryNext ==
    ASSUME HashesChecked, TypeOK, FetchInv, DeliveryInv, Next
    PROVE  DeliveryInv'
<1>1. object \in Generations /\ check = TRUE
  BY TypeParts DEF HashesChecked
<1>2. CASE Begin
  BY <1>2 DEF Begin, DeliveryInv, DeliveredIsObject
<1>3. CASE Maintain \/ OpenParent \/ WriteParent \/ Resize
  <2>1. exit # "ok" /\ exit' = exit /\ pc' # "accept"
    BY <1>3 DEF Maintain, OpenParent, WriteParent, Resize, DeliveryInv
  <2>. QED BY <2>1 DEF DeliveryInv, DeliveredIsObject
<1>4. ASSUME NEW c \in Components, Slice(c) PROVE DeliveryInv'
  <2>1. pc = "fetch" /\ pc' = pc /\ exit' = exit
    BY <1>4, SliceMoves DEF Moves
  <2>. QED BY <2>1 DEF DeliveryInv, DeliveredIsObject
<1>5. CASE GiveUp \/ Unlink \/ Crash
  BY <1>5 DEF GiveUp, Unlink, Crash, Fails, DeliveryInv, DeliveredIsObject
<1>6. CASE Validate
  <2>1. pc = "fetch" /\ UNCHANGED <<exit, object, temp>> /\ exit # "ok"
    BY <1>6 DEF Validate, Joined, DeliveryInv, durable
  <2>2. ASSUME pc' = "accept" PROVE temp' = [b \in 0..Size0 - 1 |-> object]
    <3>1. \A c \in Mine : cPc[c] = "done" /\ digestOk[c]
      BY <1>1, <1>6, <2>2 DEF Validate
    <3>. QED BY <2>1, <3>1, DigestedIsObject
  <2>. QED BY <2>1, <2>2 DEF DeliveryInv, DeliveredIsObject, Size0
<1>7. CASE Rename
  <2>1. final' = [b \in 0..Size[object] - 1 |-> object] /\ pc' = "idle"
    BY <1>7 DEF Rename, DeliveryInv, Size0
  <2>. QED BY <1>1, <2>1 DEF DeliveryInv, DeliveredIsObject
<1>8. CASE DeleteTracker \/ Quiescent
  BY <1>8 DEF DeleteTracker, Quiescent, vars, durable, DeliveryInv, DeliveredIsObject, Size0
<1>9. CASE Overwrite
  BY <1>9 DEF Overwrite, DeliveryInv, DeliveredIsObject
<1>. QED BY <1>2, <1>3, <1>4, <1>5, <1>6, <1>7, <1>8, <1>9 DEF Next

\* The renamed file is one generation of the object, byte by byte: what earlier
\* runs left in it, of other generations, other partitions or never written,
\* does not pass the digests, which are of the bytes received and of the bytes
\* found in the file.  It needs check_hashes to be on.
THEOREM DeliveredIsObjectHolds ==
    ASSUME HashesChecked
    PROVE  Spec => []DeliveredIsObject
<1>1. Init => TypeOK /\ FetchInv /\ DeliveryInv
  BY TypeInit DEF Init, FetchInv, DeliveryInv, DeliveredIsObject
<1>2. TypeOK /\ FetchInv /\ DeliveryInv /\ [Next]_vars => TypeOK' /\ FetchInv' /\ DeliveryInv'
  <2>1. ASSUME TypeOK, FetchInv, DeliveryInv, UNCHANGED vars
        PROVE  TypeOK' /\ FetchInv' /\ DeliveryInv'
    <3>1. TypeOK'
      BY <2>1 DEF TypeOK, vars, durable, slices, bounds
    <3>2. DeliveryInv'
      BY <2>1 DEF DeliveryInv, DeliveredIsObject, Size0, vars, durable
    <3>. QED BY <2>1, <3>1, <3>2, FetchSame DEF vars, durable, bounds
  <2>. QED BY <2>1, TypeNext, FetchNext, DeliveryNext
<1>3. DeliveryInv => DeliveredIsObject
  BY DEF DeliveryInv
<1>. QED BY <1>1, <1>2, <1>3, PTL DEF Spec

-----------------------------------------------------------------------------
(* What is left.                                                           *)

LEMMA UsedAreOwned ==
    ASSUME count \in Counts
    PROVE  /\ InUse \subseteq Owners /\ ParentFile \notin Owners
           /\ \A c \in Mine : Own(c) \in InUse
<1>1. Mine \subseteq Components /\ Components \subseteq Nat
  BY CountsArePositive DEF Mine, Components
<1>. QED BY <1>1 DEF InUse, Owners, Own, ParentFile, SingleFile

LEMMA KnownNext ==
    ASSUME TypeOK, FetchInv, TrackerInv, Next
    PROVE  TrackersKnown'
<1>0. /\ comp \in [Owners -> CompTrackers] /\ count \in Counts
      /\ small => parent = None /\ \A f \in Owners : comp[f] = None
      /\ pc \in {"restart", "parent"} => ~small
      /\ pc \in {"resize", "fetch"} /\ Sliced /\ ~small => parent = Whole(object, count)
  BY TypeParts DEF TrackerInv, TrackersKnown
<1>1. CASE Begin
  BY <1>0, <1>1 DEF Begin, TrackersKnown, Sliced
<1>2. CASE Maintain
  BY <1>0, <1>2 DEF Maintain, Resumable, durable, bounds, TrackersKnown, Sliced
<1>3. CASE DeleteTracker
  <2>1. doomed # <<>> /\ pc \in {"restart", "accept", "reject"}
    BY <1>3 DEF DeleteTracker, TrackerInv
  <2>2. UNCHANGED <<pc, small>>
    BY <1>3 DEF DeleteTracker, bounds
  <2>3. ASSUME small PROVE parent' = None /\ \A f \in Owners : comp'[f] = None
    <3>1. parent' \in {parent, None} /\ (comp' = comp \/ comp' = [comp EXCEPT ![Head(doomed)] = None])
      BY <1>3 DEF DeleteTracker
    <3>. QED BY <1>0, <2>3, <3>1
  <2>. QED BY <1>0, <2>1, <2>2, <2>3 DEF TrackersKnown
<1>4. CASE OpenParent \/ WriteParent
  BY <1>0, <1>4 DEF OpenParent, WriteParent, bounds, TrackersKnown
<1>5. CASE Resize
  BY <1>0, <1>5 DEF Resize, bounds, TrackersKnown, Sliced
<1>6. ASSUME NEW c \in Components, Slice(c) PROVE TrackersKnown'
  BY <1>0, <1>6, SliceMoves DEF Moves, TrackersKnown, Sliced
<1>7. CASE GiveUp \/ Validate \/ Rename \/ Unlink \/ Crash \/ Overwrite
  BY <1>0, <1>7 DEF GiveUp, Validate, Rename, Unlink, Crash, Overwrite, Fails, durable, bounds,
                    TrackersKnown
<1>8. CASE Quiescent
  BY <1>0, <1>8 DEF Quiescent, vars, durable, bounds, TrackersKnown, Sliced
<1>. QED BY <1>1, <1>2, <1>3, <1>4, <1>5, <1>6, <1>7, <1>8 DEF Next

LEMMA TrackerNext ==
    ASSUME TypeOK, FetchInv, TrackerInv, Next
    PROVE  TrackerInv'
<1> DEFINE Going == doomed # <<>> => pc \in {"restart", "accept", "reject"}
           Accepting == pc = "accept" =>
                          /\ parent = None \/ ParentFile \in Range(doomed)
                          /\ \A f \in InUse : comp[f] = None \/ f \in Range(doomed)
<1>0. /\ comp \in [Owners -> CompTrackers] /\ count \in Counts
      /\ parent \in Trackers(Counts) /\ doomed \in Seq(AllTrackers)
      /\ Going /\ Accepting /\ OwnClean /\ TrackersKnown
  BY TypeParts DEF TypeOK, AllTrackers, TrackerInv
<1>1. InUse \subseteq Owners /\ ParentFile \notin Owners /\ \A c \in Mine : Own(c) \in InUse
  BY <1>0, UsedAreOwned
<1>. SUFFICES Going' /\ Accepting' /\ OwnClean'
  BY KnownNext DEF TrackerInv
<1>2. CASE Begin \/ Maintain \/ OpenParent \/ WriteParent \/ Resize \/ GiveUp \/ Unlink \/ Crash
  <2>1. pc' # "accept" /\ (exit' # "ok" \/ pc' # "idle")
    BY <1>2 DEF Begin, Maintain, OpenParent, WriteParent, Resize, GiveUp, Unlink, Crash, Fails
  <2>2. \/ doomed' = <<>>
        \/ pc' = "restart"
        \/ doomed' = doomed /\ pc \in {"idle", "maintain", "parent", "resize", "fetch"}
    BY <1>2 DEF Begin, Maintain, OpenParent, WriteParent, Resize, GiveUp, Joined, Unlink, Crash
  <2>3. Going'
    BY <1>0, <2>2
  <2>. QED BY <2>1, <2>3 DEF OwnClean
<1>3. CASE DeleteTracker
  <2>1. /\ doomed # <<>> /\ pc' = pc /\ count' = count /\ pc # "idle"
        /\ doomed' = Tail(doomed)
        /\ IF Head(doomed) = ParentFile
           THEN parent' = None /\ UNCHANGED comp
           ELSE comp' = [comp EXCEPT ![Head(doomed)] = None] /\ UNCHANGED parent
    BY <1>0, <1>3 DEF DeleteTracker
  <2>2. \A x \in Range(doomed) : x = Head(doomed) \/ x \in Range(doomed')
    BY <1>0, <2>1, TrackersDeleted
  <2>3. InUse' = InUse
    BY <2>1 DEF InUse, Sliced, Mine
  <2>4. parent = None \/ ParentFile \in Range(doomed) =>
          parent' = None \/ ParentFile \in Range(doomed')
    BY <2>1, <2>2
  <2>5. ASSUME NEW f \in InUse, comp[f] = None \/ f \in Range(doomed)
        PROVE  comp'[f] = None \/ f \in Range(doomed')
    <3>1. f \in Owners /\ f # ParentFile
      BY <1>1
    <3>. QED BY <1>0, <2>1, <2>2, <2>5, <3>1
  <2>6. Accepting'
    BY <1>0, <2>1, <2>3, <2>4, <2>5
  <2>. QED BY <1>0, <2>1, <2>6 DEF OwnClean
<1>4. ASSUME NEW c \in Components, Slice(c) PROVE Going' /\ Accepting' /\ OwnClean'
  <2>1. pc = "fetch" /\ pc' = pc /\ doomed' = doomed
    BY <1>4, SliceMoves DEF Moves
  <2>. QED BY <1>0, <2>1 DEF OwnClean
<1>5. CASE Validate
  <2>1. /\ pc = "fetch" /\ pc' \in {"accept", "reject"} /\ doomed' = TrackerFiles
        /\ UNCHANGED <<parent, comp, count>>
    BY <1>5 DEF Validate, Joined, durable
  <2>2. /\ SingleFile \in Range(TrackerFiles) /\ ParentFile \in Range(TrackerFiles)
        /\ parent.there = "whole" => 0..parent.value - 1 \subseteq Range(TrackerFiles)
    BY <1>0, TrackersFound
  <2>3. Sliced /\ ~small => Mine \subseteq Range(TrackerFiles)
    <3>1. Sliced /\ ~small => parent = Whole(object, count)
      BY <1>0, <2>1 DEF TrackersKnown
    <3>2. parent = Whole(object, count) => parent.there = "whole" /\ parent.value = count
      BY TrackerCases
    <3>. QED BY <2>2, <3>1, <3>2 DEF Mine
  <2>4. small => \A f \in InUse : comp[f] = None
    BY <1>0, <1>1 DEF TrackersKnown
  <2>5. \A f \in InUse : comp[f] = None \/ f \in Range(TrackerFiles)
    BY <2>2, <2>3, <2>4 DEF InUse
  <2>6. InUse' = InUse
    BY <2>1 DEF InUse, Sliced, Mine
  <2>. QED BY <2>1, <2>2, <2>5, <2>6 DEF OwnClean
<1>6. CASE Rename
  <2>1. /\ pc = "accept" /\ doomed = <<>> /\ doomed' = doomed /\ pc' = "idle"
        /\ UNCHANGED <<parent, comp, count>>
    BY <1>6 DEF Rename
  <2>2. Range(doomed) = {}
    BY <2>1 DEF Range
  <2>3. parent = None /\ \A f \in InUse : comp[f] = None
    BY <1>0, <2>1, <2>2
  <2>4. comp[SingleFile] = None
    BY <2>3 DEF InUse
  <2>. QED BY <2>1, <2>3, <2>4 DEF OwnClean
<1>7. CASE Overwrite \/ Quiescent
  <2>1. pc = "idle" /\ UNCHANGED <<pc, exit, parent, comp, count, doomed>>
    BY <1>7 DEF Overwrite, Quiescent, vars, durable
  <2>. QED BY <1>0, <2>1 DEF OwnClean
<1>. QED BY <1>2, <1>3, <1>4, <1>5, <1>6, <1>7 DEF Next

LEMMA TrackerStutter ==
    ASSUME TrackerInv, UNCHANGED vars
    PROVE  TrackerInv'
<1>1. UNCHANGED <<object, parent, comp, pc, count, doomed, exit, small>>
  BY DEF vars, durable, bounds
<1>2. (Sliced' <=> Sliced) /\ Mine' = Mine /\ \A c \in Mine : Own(c)' = Own(c)
  BY <1>1 DEF Sliced, Mine, Own
<1>3. TrackersKnown'
  BY <1>1, <1>2 DEF TrackerInv, TrackersKnown
<1>4. OwnClean'
  BY <1>1, <1>2 DEF TrackerInv, OwnClean
<1>. QED BY <1>1, <1>2, <1>3, <1>4 DEF TrackerInv, InUse

-----------------------------------------------------------------------------
(* A retry heals.                                                          *)

\* The ranges of _PartitionObject, for any generation and number.
Share(g, k) == (Size[g] + k - 1) \div k
Low(g, k, c) == c * Share(g, k)
High(g, k, c) == LET e == (c + 1) * Share(g, k) - 1 IN
                 IF e < Size[g] - 1 THEN e ELSE Size[g] - 1

\* The hypothesis of what follows: there are not so many components that one
\* begins beyond the object.
PartitionsFit ==
    \A g \in Generations, k \in Counts : \A c \in 0..k - 1 :
        Low(g, k, c) <= High(g, k, c) + 1

\* Unless some were orphaned, the tracker files of components are those the
\* parent lists, or are about to be deleted with it.
FiledInv ==
    ~orphaned => \A c \in Components : comp[c] # None =>
        /\ doomed = <<>> \/ ParentFile \in Range(doomed) =>
              parent.there = "whole" /\ c < parent.value
        /\ doomed # <<>> => c \in Range(doomed)

\* They were written for the parent's partition.
RangeInv ==
    ~orphaned => \A c \in Components :
        parent.there = "whole" /\ comp[c].there = "whole" =>
            /\ comp[c].gen = parent.gen
            /\ Low(parent.gen, parent.value, c) <= comp[c].value
            /\ comp[c].value <= High(parent.gen, parent.value, c) + 1

Once(s) ==
    \A i, j \in DOMAIN s : s[i] = ParentFile /\ s[j] = ParentFile => i = j

\* The parent is deleted once and before the new one is written, and the
\* stream's tracker file goes with the rest.
DeletionInv ==
    /\ Once(doomed)
    /\ pc = "restart" => parent = None \/ ParentFile \in Range(doomed)
    /\ pc = "parent" => parent = Torn
    /\ pc = "reject" => comp[SingleFile] = None \/ SingleFile \in Range(doomed)

Oversized == Cardinality(DOMAIN temp) # Size0 /\ comp[SingleFile] = None

\* Without a fault only a stream fails to start, when the file is too long.
FailedInv ==
    pc = "fetch" /\ ~orphaned /\ ~faulted =>
        \A c \in Mine : cPc[c] = "failed" => ~Sliced /\ Oversized

\* After a run that failed without a fault the next one finds nothing to go on
\* from, and what it fetches itself is right.
Heals ==
    /\ pc \in {"idle", "maintain"} => Oversized
    /\ pc \in {"restart", "parent", "resize"} => comp[SingleFile] = None
    /\ pc = "resize" => \A c \in Components : comp[c] = None
    /\ pc = "fetch" => \A c \in Mine :
          digestOk[c] /\ cPc[c] # "failed" /\ (cPc[c] = "open" => comp[Own(c)] = None)
    /\ pc # "reject"

HealInv ==
    /\ streak \in Nat /\ RetryHeals
    /\ streak # 0 /\ ~orphaned /\ (pc = "idle" \/ ~faulted) => Heals
    /\ pc \in {"maintain", "restart", "parent", "resize"} => \A c \in Mine : digestOk[c]

LEMMA Ranges ==
    \A c : Start(c) = Low(object, count, c) /\ End(c) = High(object, count, c)
  BY DEF Start, End, ComponentSize, Size0, Low, High, Share

\* A component can be started from scratch.
LEMMA StartsInRange ==
    ASSUME PartitionsFit, TypeOK, NEW c \in Mine
    PROVE  InRange(c, Start(c))
<1>1. Low(object, count, c) <= High(object, count, c) + 1
  BY TypeParts DEF PartitionsFit, Mine
<1>2. Start(c) \in Nat /\ Start(c) <= End(c) + 1
  BY <1>1, Ranges, Placed
<1>. QED BY <1>2 DEF InRange

\* The parent that a sliced run goes on from is its own, and so are the tracker
\* files of the components.
LEMMA TrackedInRange ==
    ASSUME TypeOK, TrackersKnown, FiledInv, RangeInv, ~orphaned, pc = "fetch", Sliced,
           NEW c \in Mine, Tracked(c)
    PROVE  InRange(c, Found(c))
<1>1. ~small /\ comp[c].there = "whole" /\ Found(c) = comp[c].value
  BY DEF Tracked, Own, Found
<1>2. parent = Whole(object, count)
  BY <1>1 DEF TrackersKnown
<1>3. parent.there = "whole" /\ parent.gen = object /\ parent.value = count
  BY <1>2, TrackerCases
<1>4. c \in Components
  BY Placed
<1>5. Low(object, count, c) <= comp[c].value /\ comp[c].value <= High(object, count, c) + 1
  BY <1>1, <1>3, <1>4 DEF RangeInv
<1>. QED BY <1>1, <1>5, Ranges DEF InRange

\* What is not in range is a stream's file, which is too long.
LEMMA StreamFails ==
    ASSUME PartitionsFit, TypeOK, TrackersKnown, FiledInv, RangeInv, ~orphaned,
           NEW c \in Components, OutOfRange(c)
    PROVE  ~Sliced /\ Oversized'
<1>1. /\ c \in Mine /\ pc = "fetch" /\ UNCHANGED <<object, temp>>
      /\ comp' = IF small THEN comp ELSE [comp EXCEPT ![Own(c)] = None]
      /\ ~InRange(c, IF Tracked(c) THEN Found(c) ELSE Start(c))
  BY DEF OutOfRange, Go, At
<1>2. Tracked(c) /\ ~InRange(c, Found(c))
  BY <1>1, StartsInRange
<1>3. ~Sliced
  BY <1>1, <1>2, TrackedInRange
<1>4. /\ Found(c) = Cardinality(DOMAIN temp) /\ Cardinality(DOMAIN temp) \in Nat
      /\ Start(c) = 0 /\ End(c) + 1 = Size0 /\ Size0 \in Nat
  BY <1>1, <1>3, FileSize, Placed, TypeParts DEF Found
<1>5. Cardinality(DOMAIN temp) # Size0
  BY <1>2, <1>4 DEF InRange
<1>6. ~small /\ Own(c) = SingleFile /\ comp \in [Owners -> CompTrackers]
  BY <1>2, <1>3, TypeParts DEF Tracked, Own
<1>7. comp'[SingleFile] = None
  BY <1>1, <1>6 DEF Owners
<1>8. Size0' = Size0
  BY <1>1 DEF Size0
<1>. QED BY <1>1, <1>3, <1>5, <1>7, <1>8 DEF Oversized

\* What a step of a component does to its own tracker file.
Entries(c) == {None, Torn} \union {Whole(object, b) : b \in {b \in Nat : InRange(c, b)}}

LEMMA SliceTracks ==
    ASSUME TypeOK, FetchInv, NEW c \in Components, Slice(c)
    PROVE  \/ comp' = comp
           \/ ~small /\ \E v \in Entries(c) : comp' = [comp EXCEPT ![Own(c)] = v]
<1>1. CASE Create(c)
  BY <1>1 DEF Create, Entries
<1>2. CASE Begins(c)
  <2>1. InRange(c, Start(c)) /\ Start(c) \in Nat
    BY <1>2, Placed DEF Begins, Go, At
  <2>. QED BY <1>2, <2>1 DEF Begins, Entries
<1>3. CASE Truncate(c) \/ Resume(c) \/ Receive(c) \/ Finish(c) \/ FetchFails(c)
  BY <1>3 DEF Truncate, Resume, Receive, Finish, FetchFails, durable
<1>4. CASE OutOfRange(c)
  BY <1>4 DEF OutOfRange, Entries
<1>5. CASE OpenTracker(c) \/ WriteTracker(c)
  <2>1. c \in Mine /\ pc = "fetch" /\ cPc[c] \in {"track", "torn"}
    BY <1>5 DEF OpenTracker, WriteTracker, Go, At
  <2>2. Wrapped /\ Progress(c)
    BY <2>1 DEF FetchInv, FetchAt
  <2>3. ~small /\ Own(c) = c
    BY <2>2 DEF Wrapped, Own
  <2>4. pos[c] \in Nat /\ InRange(c, pos[c])
    BY <2>1, <2>2, Placed DEF Progress, InRange
  <2>5. Torn \in Entries(c) /\ Whole(object, pos[c]) \in Entries(c)
    BY <2>4 DEF Entries
  <2>. QED BY <1>5, <2>3, <2>5 DEF OpenTracker, WriteTracker
<1>. QED BY <1>1, <1>2, <1>3, <1>4, <1>5 DEF Slice

\* The steps of components neither orphan nor count, and what fails in them
\* meets a fault or is out of range.
LEMMA SliceEnds ==
    ASSUME TypeOK, FetchInv, NEW c \in Components, Slice(c)
    PROVE  /\ UNCHANGED <<orphaned, streak>> /\ (faulted => faulted')
           /\ cPc'[c] # "open"
           /\ cPc'[c] = "failed" => faulted' \/ OutOfRange(c)
           /\ digestOk'[c] = digestOk[c] \/ digestOk'[c] = TRUE \/ Resume(c)
<1>1. UNCHANGED <<orphaned, streak>> /\ (faulted => faulted')
  BY DEF Slice, Create, Begins, Truncate, Resume, OutOfRange, Receive, OpenTracker,
         WriteTracker, Finish, FetchFails, Fault, bounds
<1>2. cPc \in [Components -> SlicePcs] /\ digestOk \in [Components -> BOOLEAN]
  BY TypeParts DEF SlicesOK
<1>3. CASE Create(c) \/ Truncate(c) \/ Receive(c) \/ OpenTracker(c) \/ WriteTracker(c) \/ Finish(c)
  <2>1. PICK x \in {"create", "first", "track", "next", "torn", "done"} :
           cPc' = [cPc EXCEPT ![c] = x]
    BY <1>3 DEF Create, Truncate, Receive, OpenTracker, WriteTracker, Finish, Go
  <2>2. digestOk' = digestOk
    BY <1>3 DEF Create, Truncate, Receive, OpenTracker, WriteTracker, Finish
  <2>. QED BY <1>1, <1>2, <2>1, <2>2
<1>4. CASE Begins(c)
  <2>1. PICK x \in {"truncate", "done", "first"} : cPc' = [cPc EXCEPT ![c] = x]
    BY <1>4 DEF Begins, Go
  <2>2. digestOk' = [digestOk EXCEPT ![c] = TRUE]
    BY <1>4 DEF Begins
  <2>. QED BY <1>1, <1>2, <2>1, <2>2
<1>5. CASE Resume(c)
  <2>1. PICK x \in {"done", "first"} : cPc' = [cPc EXCEPT ![c] = x]
    BY <1>5 DEF Resume, Go
  <2>. QED BY <1>1, <1>2, <1>5, <2>1
<1>6. CASE OutOfRange(c)
  <2>1. cPc' = [cPc EXCEPT ![c] = "failed"] /\ digestOk' = digestOk
    BY <1>6 DEF OutOfRange, Go
  <2>. QED BY <1>1, <1>2, <1>6, <2>1
<1>7. CASE FetchFails(c)
  <2>1. cPc' = [cPc EXCEPT ![c] = "failed"] /\ digestOk' = digestOk /\ faulted'
    BY <1>7 DEF FetchFails, Go, Fault
  <2>. QED BY <1>1, <1>2, <2>1
<1>. QED BY <1>3, <1>4, <1>5, <1>6, <1>7 DEF Slice

-----------------------------------------------------------------------------
(* The tracker files of components are found again.                        *)

LEMMA OnceTail ==
    ASSUME NEW S, NEW s \in Seq(S), s # <<>>, Once(s)
    PROVE  Once(Tail(s)) /\ (Head(s) = ParentFile => ParentFile \notin Range(Tail(s)))
<1>1. /\ Head(s) = s[1] /\ 1 \in DOMAIN s
      /\ \A i \in DOMAIN Tail(s) : i \in Nat \ {0} /\ i + 1 \in DOMAIN s /\ Tail(s)[i] = s[i + 1]
  OBVIOUS
<1>2. Once(Tail(s))
  <2>1. SUFFICES ASSUME NEW i \in DOMAIN Tail(s), NEW j \in DOMAIN Tail(s),
                        Tail(s)[i] = ParentFile, Tail(s)[j] = ParentFile
                 PROVE  i = j
    BY DEF Once
  <2>2. i + 1 = j + 1
    BY <1>1, <2>1 DEF Once
  <2>. QED BY <1>1, <2>1, <2>2
<1>3. ASSUME Head(s) = ParentFile, NEW i \in DOMAIN Tail(s), Tail(s)[i] = ParentFile
      PROVE  FALSE
  <2>1. i + 1 = 1
    BY <1>1, <1>3 DEF Once
  <2>. QED BY <1>1, <2>1
<1>. QED BY <1>2, <1>3 DEF Range

LEMMA OnceListed ==
    ASSUME parent \in Trackers(Counts)
    PROVE  Once(TrackerFiles)
<1> DEFINE t == <<SingleFile, ParentFile>>
           u == IF parent.there = "whole" THEN [i \in 1..parent.value |-> i - 1] ELSE <<>>
<1>1. u \in Seq(Nat) /\ \A i \in 1..Len(u) : u[i] # ParentFile
  <2>1. CASE parent.there = "whole"
    <3>1. parent.value \in Nat
      BY <2>1, TrackerCases, CountsArePositive
    <3>. QED BY <2>1, <3>1 DEF ParentFile
  <2>2. CASE parent.there # "whole"
    BY <2>2
  <2>. QED BY <2>1, <2>2
<1>2. t \in Seq(Int) /\ u \in Seq(Int) /\ Len(t) = 2 /\ t[1] # ParentFile
  BY <1>1 DEF ParentFile, SingleFile
<1>3. TrackerFiles = t \o u
  BY DEF TrackerFiles
<1> HIDE DEF t, u
<1>4. /\ t \o u \in Seq(Int) /\ Len(t \o u) = 2 + Len(u) /\ Len(u) \in Nat
      /\ (t \o u)[1] = t[1] /\ \A i \in 1..Len(u) : (t \o u)[i + 2] = u[i]
  BY <1>2, Appended
<1>5. ASSUME NEW i \in DOMAIN (t \o u), (t \o u)[i] = ParentFile PROVE i = 2
  <2>1. i \in 1..2 + Len(u)
    BY <1>4
  <2>2. i # 1
    BY <1>2, <1>4, <1>5
  <2>3. ASSUME i > 2 PROVE FALSE
    <3>1. i - 2 \in 1..Len(u) /\ (i - 2) + 2 = i
      BY <1>4, <2>1, <2>3
    <3>. QED BY <1>1, <1>4, <1>5, <3>1
  <2>. QED BY <1>4, <2>1, <2>2, <2>3
<1>. QED BY <1>3, <1>5 DEF Once

FilesInv == FiledInv /\ RangeInv /\ DeletionInv

\* Steps that leave the tracker files alone.
LEMMA FilesFrame ==
    ASSUME FiledInv, RangeInv, UNCHANGED <<parent, comp, doomed, orphaned>>
    PROVE  FiledInv' /\ RangeInv'
  BY DEF FiledInv, RangeInv

\* A list of those to be deleted is made.
LEMMA FilesDoomed ==
    ASSUME TypeOK, FiledInv, RangeInv, doomed = <<>>, doomed' = TrackerFiles,
           UNCHANGED <<parent, comp, orphaned>>
    PROVE  /\ FiledInv' /\ RangeInv' /\ Once(doomed')
           /\ SingleFile \in Range(doomed') /\ ParentFile \in Range(doomed')
<1>1. /\ SingleFile \in Range(TrackerFiles) /\ ParentFile \in Range(TrackerFiles)
      /\ parent.there = "whole" => 0..parent.value - 1 \subseteq Range(TrackerFiles)
      /\ Once(TrackerFiles)
  BY TypeParts, TrackersFound, OnceListed
<1>2. RangeInv'
  BY DEF RangeInv
<1>3. ASSUME ~orphaned, NEW c \in Components, comp[c] # None
      PROVE  parent.there = "whole" /\ c < parent.value /\ c \in Range(TrackerFiles)
  <2>1. parent.there = "whole" /\ c < parent.value
    BY <1>3 DEF FiledInv
  <2>2. parent.value \in Nat /\ c \in Nat
    <3>1. parent.value \in Counts
      BY <2>1, TypeParts, TrackerCases
    <3>2. Components \subseteq Nat
      BY CountsArePositive DEF Components
    <3>. QED BY <3>1, <3>2, CountsArePositive
  <2>. QED BY <1>1, <2>1, <2>2
<1>. QED BY <1>1, <1>2, <1>3 DEF FiledInv

LEMMA FilesDeleted ==
    ASSUME TypeOK, TrackerInv, FilesInv, DeleteTracker
    PROVE  FilesInv'
<1>1. /\ doomed # <<>> /\ doomed' = Tail(doomed) /\ doomed \in Seq(AllTrackers)
      /\ comp \in [Owners -> CompTrackers] /\ orphaned' = orphaned /\ pc' = pc
      /\ IF Head(doomed) = ParentFile
         THEN parent' = None /\ comp' = comp
         ELSE comp' = [comp EXCEPT ![Head(doomed)] = None] /\ parent' = parent
  BY TypeParts DEF DeleteTracker, bounds, TypeOK, AllTrackers
<1>2. /\ Head(doomed) \in AllTrackers
      /\ \A x \in Range(doomed) : x = Head(doomed) \/ x \in Range(doomed')
  BY <1>1, TrackersDeleted
<1>3. FiledInv /\ RangeInv /\ DeletionInv /\ Once(doomed)
  BY DEF FilesInv, DeletionInv
<1>4. Once(doomed') /\ (Head(doomed) = ParentFile => ParentFile \notin Range(doomed'))
  BY <1>1, <1>3, OnceTail
<1>5. Components \subseteq Owners /\ \A c \in Components : c # ParentFile /\ c # SingleFile
  <2>1. Components \subseteq Nat
    BY CountsArePositive DEF Components
  <2>. QED BY <2>1 DEF Owners, ParentFile, SingleFile
<1>6. None # Torn /\ None.there # "whole"
  BY TrackerCases
<1>7. Range(<<>>) = {}
  BY DEF Range
<1>8. CASE Head(doomed) = ParentFile
  <2>1. FiledInv'
    <3>1. SUFFICES ASSUME ~orphaned, NEW c \in Components, comp[c] # None
                   PROVE  doomed' # <<>> /\ ParentFile \notin Range(doomed') /\ c \in Range(doomed')
      BY <1>1, <1>8 DEF FiledInv
    <3>2. c \in Range(doomed)
      BY <1>1, <1>3, <3>1 DEF FiledInv
    <3>3. c \in Range(doomed')
      BY <1>2, <1>5, <1>8, <3>2
    <3>. QED BY <1>4, <1>7, <1>8, <3>3
  <2>2. RangeInv'
    BY <1>1, <1>6, <1>8 DEF RangeInv
  <2>3. DeletionInv'
    <3>1. pc # "parent"
      BY <1>1 DEF TrackerInv
    <3>2. pc = "reject" => comp'[SingleFile] = None \/ SingleFile \in Range(doomed')
      <4>1. SingleFile # ParentFile
        BY DEF SingleFile, ParentFile
      <4>. QED BY <1>1, <1>2, <1>3, <1>8, <4>1 DEF DeletionInv
    <3>. QED BY <1>1, <1>4, <1>8, <3>1, <3>2 DEF DeletionInv
  <2>. QED BY <2>1, <2>2, <2>3 DEF FilesInv
<1>9. CASE Head(doomed) # ParentFile
  <2>1. /\ Head(doomed) \in Owners /\ parent' = parent
        /\ comp' = [comp EXCEPT ![Head(doomed)] = None]
    BY <1>1, <1>2, <1>9 DEF AllTrackers, Owners
  <2>2. comp'[Head(doomed)] = None /\ \A f \in Owners : f # Head(doomed) => comp'[f] = comp[f]
    BY <1>1, <2>1
  <2>3. ParentFile \in Range(doomed') => ParentFile \in Range(doomed)
    <3>1. \A i \in DOMAIN Tail(doomed) : i + 1 \in DOMAIN doomed /\ Tail(doomed)[i] = doomed[i + 1]
      BY <1>1
    <3>. QED BY <1>1, <3>1 DEF Range
  <2>4. FiledInv'
    <3>1. SUFFICES ASSUME ~orphaned, NEW c \in Components, comp'[c] # None
                   PROVE  /\ doomed' = <<>> \/ ParentFile \in Range(doomed') =>
                                parent.there = "whole" /\ c < parent.value
                          /\ doomed' # <<>> => c \in Range(doomed')
      BY <1>1, <2>1 DEF FiledInv
    <3>2. c # Head(doomed) /\ comp[c] # None
      BY <1>5, <2>2, <3>1
    <3>3. c \in Range(doomed')
      BY <1>1, <1>2, <1>3, <3>1, <3>2 DEF FiledInv
    <3>4. doomed' # <<>>
      BY <1>7, <3>3
    <3>. QED BY <1>3, <2>3, <3>1, <3>2, <3>3, <3>4 DEF FiledInv
  <2>5. RangeInv'
    <3>1. SUFFICES ASSUME ~orphaned, NEW c \in Components,
                          parent.there = "whole", comp'[c].there = "whole"
                   PROVE  /\ comp'[c].gen = parent.gen
                          /\ Low(parent.gen, parent.value, c) <= comp'[c].value
                          /\ comp'[c].value <= High(parent.gen, parent.value, c) + 1
      BY <1>1, <2>1 DEF RangeInv
    <3>2. comp'[c] = comp[c]
      BY <1>5, <1>6, <2>2, <3>1
    <3>. QED BY <1>3, <3>1, <3>2 DEF RangeInv
  <2>6. DeletionInv'
    <3>1. pc = "restart" => parent = None \/ ParentFile \in Range(doomed')
      BY <1>2, <1>3, <1>9 DEF DeletionInv
    <3>2. pc = "reject" => comp'[SingleFile] = None \/ SingleFile \in Range(doomed')
      <4>1. SingleFile \in Owners
        BY DEF Owners
      <4>. QED BY <1>2, <1>3, <2>2, <4>1 DEF DeletionInv
    <3>. QED BY <1>1, <1>3, <1>4, <2>1, <3>1, <3>2 DEF DeletionInv
  <2>. QED BY <2>4, <2>5, <2>6 DEF FilesInv
<1>. QED BY <1>8, <1>9

\* Only the component's own tracker file changes, within its range.
LEMMA FilesSliced ==
    ASSUME TypeOK, FetchInv, TrackerInv, FilesInv, NEW c \in Components, Slice(c)
    PROVE  FilesInv'
<1>1. /\ pc = "fetch" /\ c \in Mine /\ UNCHANGED <<parent, doomed, pc>>
      /\ orphaned' = orphaned
  BY SliceMoves, SliceEnds DEF Moves
<1>2. doomed = <<>> /\ TrackersKnown /\ FiledInv /\ RangeInv
  BY <1>1 DEF TrackerInv, FilesInv
<1>3. DeletionInv'
  BY <1>1 DEF FilesInv, DeletionInv
<1>4. CASE \A d \in Components : comp'[d] = comp[d]
  <2>1. FiledInv'
    BY <1>1, <1>2, <1>4 DEF FiledInv
  <2>2. RangeInv'
    BY <1>1, <1>2, <1>4 DEF RangeInv
  <2>. QED BY <1>3, <2>1, <2>2 DEF FilesInv
<1>5. CASE ~(\A d \in Components : comp'[d] = comp[d])
  <2>1. ~small /\ \E v \in Entries(c) : comp' = [comp EXCEPT ![Own(c)] = v]
    BY <1>5, SliceTracks
  <2>2. PICK v \in Entries(c) : comp' = [comp EXCEPT ![Own(c)] = v]
    BY <2>1
  <2>3. comp \in [Owners -> CompTrackers] /\ Components \subseteq Owners
    BY TypeParts DEF Owners
  <2>4. Own(c) \in Components
    BY <1>5, <2>2, <2>3
  <2>5. Sliced /\ Own(c) = c
    <3>1. SingleFile \notin Components
      BY CountsArePositive DEF Components, SingleFile
    <3>. QED BY <2>4, <3>1 DEF Own
  <2>6. comp'[c] = v /\ \A d \in Components \ {c} : comp'[d] = comp[d]
    BY <2>2, <2>3, <2>5
  <2>7. parent = Whole(object, count)
    BY <1>1, <1>2, <2>1, <2>5 DEF TrackersKnown
  <2>8. parent.there = "whole" /\ parent.gen = object /\ parent.value = count
    BY <2>7, TrackerCases
  <2>9. c < count
    <3>1. count \in Nat
      BY TypeParts, CountsArePositive
    <3>. QED BY <1>1, <3>1 DEF Mine
  <2>10. FiledInv'
    BY <1>1, <1>2, <2>6, <2>8, <2>9 DEF FiledInv
  <2>11. v.there = "whole" => /\ v.gen = object
                              /\ Low(object, count, c) <= v.value
                              /\ v.value <= High(object, count, c) + 1
    <3>1. v = None \/ v = Torn \/ \E b \in Nat : InRange(c, b) /\ v = Whole(object, b)
      BY <2>2 DEF Entries
    <3>2. None.there # "whole" /\ Torn.there # "whole"
      BY TrackerCases
    <3>3. ASSUME NEW b \in Nat, InRange(c, b), v = Whole(object, b)
          PROVE  v.gen = object /\ v.value = b
                 /\ Low(object, count, c) <= b /\ b <= High(object, count, c) + 1
      <4>1. v.gen = object /\ v.value = b
        BY <3>3, TrackerCases
      <4>2. Low(object, count, c) <= b /\ b <= High(object, count, c) + 1
        BY <3>3, Ranges DEF InRange
      <4>. QED BY <4>1, <4>2
    <3>. QED BY <3>1, <3>2, <3>3
  <2>12. RangeInv'
    <3>1. SUFFICES ASSUME ~orphaned, NEW d \in Components, comp'[d].there = "whole"
                   PROVE  /\ comp'[d].gen = parent.gen
                          /\ Low(parent.gen, parent.value, d) <= comp'[d].value
                          /\ comp'[d].value <= High(parent.gen, parent.value, d) + 1
      BY <1>1 DEF RangeInv
    <3>2. CASE d = c
      BY <2>6, <2>8, <2>11, <3>1, <3>2
    <3>3. CASE d # c
      BY <1>2, <2>6, <2>8, <3>1, <3>3 DEF RangeInv
    <3>. QED BY <3>2, <3>3
  <2>. QED BY <1>3, <2>10, <2>12 DEF FilesInv
<1>. QED BY <1>4, <1>5

LEMMA FilesNext ==
    ASSUME TypeOK, FetchInv, TrackerInv, FilesInv, Next
    PROVE  FilesInv'
<1>0. FiledInv /\ RangeInv /\ DeletionInv /\ Once(doomed)
  BY DEF FilesInv, DeletionInv
<1>1. doomed # <<>> => pc \in {"restart", "accept", "reject"}
  BY DEF TrackerInv
<1>2. CASE Begin \/ Resize \/ GiveUp \/ Rename \/ Unlink \/ Overwrite
  <2>1. UNCHANGED <<parent, comp, doomed, orphaned>> /\ pc' \in {"idle", "maintain", "fetch"}
    BY <1>2 DEF Begin, Resize, GiveUp, Rename, Unlink, Overwrite, Fails, durable, bounds
  <2>. QED BY <1>0, <2>1, FilesFrame DEF FilesInv, DeletionInv
<1>3. CASE Maintain \/ Validate
  <2>1. /\ doomed = <<>> /\ UNCHANGED <<parent, comp, orphaned>>
        /\ \/ doomed' = doomed /\ pc' = "resize"
           \/ doomed' = TrackerFiles /\ pc' \in {"restart", "accept", "reject"}
    BY <1>1, <1>3 DEF Maintain, Validate, Joined, durable, bounds
  <2>2. CASE doomed' = doomed /\ pc' = "resize"
    BY <1>0, <2>1, <2>2, FilesFrame DEF FilesInv, DeletionInv
  <2>3. CASE doomed' = TrackerFiles /\ pc' \in {"restart", "accept", "reject"}
    BY <1>0, <2>1, <2>3, FilesDoomed DEF FilesInv, DeletionInv
  <2>. QED BY <2>1, <2>2, <2>3
<1>4. CASE DeleteTracker
  BY <1>4, FilesDeleted
<1>5. CASE OpenParent \/ WriteParent
  <2>1. /\ doomed = <<>> /\ doomed' = doomed /\ comp' = comp /\ orphaned' = orphaned
        /\ pc \in {"restart", "parent"} /\ pc' \in {"parent", "resize"}
        /\ pc' = "parent" => parent' = Torn
    BY <1>1, <1>5 DEF OpenParent, WriteParent, bounds
  <2>2. parent \in {None, Torn}
    <3>1. Range(doomed) = {}
      BY <2>1 DEF Range
    <3>. QED BY <1>0, <2>1, <3>1 DEF DeletionInv
  <2>3. ~orphaned => \A c \in Components : comp[c] = None
    <3>1. parent.there # "whole"
      BY <2>2, TrackerCases
    <3>. QED BY <1>0, <2>1, <3>1 DEF FiledInv
  <2>4. FiledInv'
    BY <2>1, <2>3 DEF FiledInv
  <2>5. RangeInv'
    <3>1. None.there # "whole"
      BY TrackerCases
    <3>. QED BY <2>1, <2>3, <3>1 DEF RangeInv
  <2>. QED BY <1>0, <2>1, <2>4, <2>5 DEF FilesInv, DeletionInv
<1>6. ASSUME NEW c \in Components, Slice(c) PROVE FilesInv'
  BY <1>6, FilesSliced
<1>7. CASE Crash
  <2>1. /\ UNCHANGED <<parent, comp>> /\ doomed' = <<>> /\ pc' = "idle"
        /\ orphaned' = (orphaned \/ (doomed # <<>> /\ ParentFile \notin Range(doomed)))
    BY <1>7 DEF Crash, durable
  <2>2. FiledInv'
    BY <1>0, <2>1 DEF FiledInv
  <2>3. RangeInv'
    BY <1>0, <2>1 DEF RangeInv
  <2>4. Once(doomed')
    BY <2>1 DEF Once
  <2>. QED BY <2>1, <2>2, <2>3, <2>4 DEF FilesInv, DeletionInv
<1>8. CASE Quiescent
  BY <1>0, <1>8, FilesFrame DEF Quiescent, vars, durable, bounds, FilesInv, DeletionInv
<1>. QED BY <1>2, <1>3, <1>4, <1>5, <1>6, <1>7, <1>8 DEF Next

LEMMA FilesInit ==
    ASSUME Init
    PROVE  FilesInv
<1>1. comp[SingleFile] = None /\ \A c \in Components : comp[c] = None
  BY DEF Init
<1>2. FiledInv
  BY <1>1 DEF FiledInv
<1>3. RangeInv
  BY <1>1, TrackerCases DEF RangeInv
<1>. QED BY <1>2, <1>3 DEF Init, FilesInv, DeletionInv, Once

CleanInv == TypeOK /\ FetchInv /\ TrackerInv /\ FilesInv

LEMMA CleanInit ==
    ASSUME Init
    PROVE  CleanInv
<1>1. TypeOK /\ FetchInv
  BY TypeInit DEF Init, FetchInv
<1>2. TrackerInv
  BY DEF Init, TrackerInv, TrackersKnown, OwnClean, Owners
<1>. QED BY <1>1, <1>2, FilesInit DEF CleanInv

LEMMA CleanStutter ==
    ASSUME CleanInv, UNCHANGED vars
    PROVE  CleanInv'
<1>1. UNCHANGED <<durable, pc, count, doomed, slices, small, orphaned>>
      /\ UNCHANGED <<object, temp, parent, comp>>
  BY DEF vars, durable, bounds
<1>2. TypeOK'
  BY DEF CleanInv, TypeOK, vars, durable, slices, bounds
<1>3. FilesInv'
  BY <1>1, FilesFrame DEF CleanInv, FilesInv, DeletionInv
<1>. QED BY <1>1, <1>2, <1>3, FetchSame, TrackerStutter DEF CleanInv

\* After a success the next download takes nothing for downloaded, whichever
\* strategies, partitions and generations the earlier runs had: the parent
\* still lists the components of the run that wrote their tracker files when
\* the files are deleted.  Only a crash within such a deletion leaves some.
THEOREM CleanAfterSuccessHolds == Spec => []CleanAfterSuccess
<1>1. Init => CleanInv
  BY CleanInit
<1>2. CleanInv /\ [Next]_vars => CleanInv'
  BY TypeNext, FetchNext, TrackerNext, FilesNext, CleanStutter DEF CleanInv
<1>3. CleanInv => CleanAfterSuccess
  <2> SUFFICES ASSUME CleanInv, exit = "ok", pc = "idle"
               PROVE  /\ parent = None /\ comp[SingleFile] = None
                      /\ ~orphaned => \A c \in Components : comp[c] = None
    BY DEF CleanAfterSuccess
  <2>1. parent = None /\ comp[SingleFile] = None /\ doomed = <<>>
    BY DEF CleanInv, TrackerInv, OwnClean
  <2>2. parent.there # "whole"
    BY <2>1, TrackerCases
  <2>. QED BY <2>1, <2>2 DEF CleanInv, FilesInv, FiledInv
<1>. QED BY <1>1, <1>2, <1>3, PTL DEF Spec

-----------------------------------------------------------------------------
(* The run after a failed one.                                             *)

\* Without a fault only a stream fails, whose file is longer than the object.
LEMMA FailedNext ==
    ASSUME PartitionsFit, TypeOK, FetchInv, TrackerInv, FilesInv, FailedInv, Next
    PROVE  FailedInv'
<1>1. CASE pc' # "fetch"
  BY <1>1 DEF FailedInv
<1>2. ASSUME NEW c \in Components, Slice(c) PROVE FailedInv'
  <2>1. /\ pc = "fetch" /\ c \in Mine /\ UNCHANGED <<object, count, orphaned>>
        /\ faulted => faulted'
        /\ cPc'[c] = "failed" => faulted' \/ OutOfRange(c)
        /\ Still(c)
    BY <1>2, SliceMoves, SliceEnds DEF Moves
  <2>2. Mine' = Mine /\ (Sliced' <=> Sliced)
    BY <2>1, SamePartition
  <2>3. SUFFICES ASSUME ~orphaned, ~faulted', NEW d \in Mine, cPc'[d] = "failed"
                 PROVE  ~Sliced /\ Oversized'
    BY <2>1, <2>2 DEF FailedInv
  <2>4. CASE d = c
    <3>1. OutOfRange(c)
      BY <2>1, <2>3, <2>4
    <3>. QED BY <2>3, <3>1, StreamFails DEF FilesInv, TrackerInv
  <2>5. CASE d # c
    <3>1. Sliced /\ d \in Components
      BY <2>1, <2>5, Placed
    <3>2. cPc[d] = "failed"
      BY <2>1, <2>3, <2>5, <3>1 DEF Still
    <3>. QED BY <2>1, <2>3, <3>1, <3>2 DEF FailedInv
  <2>. QED BY <2>4, <2>5
<1>3. CASE Begin
  <2>1. Mine' \subseteq Components
    <3>1. count' \in Counts
      BY <1>3, CountsArePositive DEF Begin, Size0, TypeOK
    <3>. QED BY <3>1 DEF Mine, Components
  <2>2. \A c \in Mine' : cPc'[c] = "open"
    BY <1>3, <2>1 DEF Begin
  <2>. QED BY <2>2 DEF FailedInv
<1>4. CASE Resize
  <2>1. Mine' = Mine /\ \A c \in Mine : cPc'[c] = "open"
    BY <1>4, SamePartition DEF Resize, FetchInv, slices
  <2>. QED BY <2>1 DEF FailedInv
<1>5. CASE Maintain \/ OpenParent \/ WriteParent \/ GiveUp \/ Validate \/ Rename \/ Unlink \/ Crash
  BY <1>1, <1>5 DEF Maintain, OpenParent, WriteParent, GiveUp, Validate, Rename, Unlink, Crash
<1>6. CASE DeleteTracker
  BY <1>1, <1>6 DEF DeleteTracker, TrackerInv
<1>7. CASE Overwrite \/ Quiescent
  BY <1>1, <1>7 DEF Overwrite, Quiescent, vars
<1>. QED BY <1>2, <1>3, <1>4, <1>5, <1>6, <1>7 DEF Next

\* A file that is too long, or too short, is not gone on from.
LEMMA OversizedSame ==
    ASSUME UNCHANGED <<object, temp, comp>>
    PROVE  Oversized' <=> Oversized
  BY DEF Oversized, Size0

\* What is fetched after a failure starts from scratch, and does not fail.
LEMMA HealSliced ==
    ASSUME PartitionsFit, TypeOK, FetchInv, HealInv, NEW c \in Components, Slice(c)
    PROVE  HealInv'
<1>1. /\ pc = "fetch" /\ c \in Mine /\ UNCHANGED <<object, count, pc, orphaned, streak>>
      /\ faulted => faulted'
      /\ cPc'[c] # "open" /\ (cPc'[c] = "failed" => faulted' \/ OutOfRange(c))
      /\ digestOk'[c] = digestOk[c] \/ digestOk'[c] = TRUE \/ Resume(c)
      /\ Still(c)
  BY SliceMoves, SliceEnds DEF Moves
<1>2. Mine' = Mine /\ \A d \in Mine : Own(d)' = Own(d)
  BY <1>1, SamePartition
<1>3. streak' \in Nat /\ RetryHeals'
  BY <1>1 DEF HealInv, RetryHeals
<1>4. ASSUME streak # 0, ~orphaned, ~faulted' PROVE Heals'
  <2>1. \A d \in Mine : digestOk[d] /\ cPc[d] # "failed" /\ (cPc[d] = "open" => comp[Own(d)] = None)
    BY <1>1, <1>4 DEF HealInv, Heals
  <2>2. cPc[c] = "open" => ~Tracked(c)
    BY <1>1, <2>1, TrackerCases DEF Tracked
  <2>3. ~Resume(c)
    BY <2>2 DEF Resume, Go, At
  <2>4. ~OutOfRange(c)
    <3>1. InRange(c, Start(c))
      BY <1>1, StartsInRange
    <3>2. Tracked(c) => cPc[c] # "open"
      BY <2>2
    <3>. QED BY <3>1, <3>2 DEF OutOfRange
  <2>5. digestOk[c]
    BY <1>1, <2>1
  <2>6. digestOk'[c] /\ cPc'[c] # "failed" /\ cPc'[c] # "open"
    BY <1>1, <1>4, <2>3, <2>4, <2>5
  <2>7. ASSUME NEW d \in Mine, d # c
        PROVE  digestOk'[d] /\ cPc'[d] # "failed" /\ (cPc'[d] = "open" => comp'[Own(d)] = None)
    <3>1. d \in Components /\ Sliced /\ Own(d) = d /\ Own(c) = c
      BY <1>1, <2>7, Placed DEF Own
    <3>2. cPc'[d] = cPc[d] /\ digestOk'[d] = digestOk[d]
      BY <1>1, <2>7, <3>1 DEF Still
    <3>3. comp'[d] = comp[d]
      <4>1. comp \in [Owners -> CompTrackers] /\ d \in Owners
        BY <3>1, TypeParts DEF Owners
      <4>. QED BY <2>7, <3>1, <4>1, SliceTracks
    <3>. QED BY <2>1, <3>1, <3>2, <3>3
  <2>. QED BY <1>1, <1>2, <2>6, <2>7 DEF Heals
<1>. QED BY <1>1, <1>3, <1>4 DEF HealInv

LEMMA HealNext ==
    ASSUME PartitionsFit, TypeOK, FetchInv, TrackerInv, FilesInv, FailedInv, HealInv, Next
    PROVE  HealInv'
<1>0. /\ streak \in Nat /\ (streak <= 1 \/ orphaned) /\ RetryHeals
      /\ streak # 0 /\ ~orphaned /\ (pc = "idle" \/ ~faulted) => Heals
      /\ pc \in {"maintain", "restart", "parent", "resize"} => \A c \in Mine : digestOk[c]
  BY DEF HealInv, RetryHeals
<1>1. ASSUME NEW c \in Components, Slice(c) PROVE HealInv'
  BY <1>1, HealSliced
<1>2. CASE Begin
  <2>1. /\ pc = "idle" /\ count' \in Counts
        /\ cPc' = [c \in Components |-> "open"] /\ digestOk' = [c \in Components |-> TRUE]
        /\ pc' = (IF count' > 1 THEN "maintain" ELSE "fetch")
        /\ UNCHANGED <<object, temp, comp, streak, orphaned>>
    BY <1>2, CountsArePositive DEF Begin, Size0, TypeOK
  <2>2. Mine' \subseteq Components
    BY <2>1 DEF Mine, Components
  <2>3. \A c \in Mine' : cPc'[c] = "open" /\ digestOk'[c]
    BY <2>1, <2>2
  <2>4. streak' \in Nat /\ RetryHeals'
    BY <1>0, <2>1 DEF RetryHeals
  <2>5. ASSUME streak # 0, ~orphaned PROVE Heals'
    <3>1. Oversized
      BY <1>0, <2>1, <2>5 DEF Heals
    <3>2. Oversized'
      BY <2>1, <3>1, OversizedSame
    <3>3. pc' = "fetch" => \A c \in Mine' : comp'[Own(c)'] = None
      <4>1. pc' = "fetch" => \A c \in Mine' : Own(c)' = SingleFile
        BY <2>1 DEF Own, Sliced
      <4>2. comp'[SingleFile] = None
        BY <3>2 DEF Oversized
      <4>. QED BY <4>1, <4>2
    <3>. QED BY <2>1, <2>3, <3>2, <3>3 DEF Heals
  <2>. QED BY <2>1, <2>3, <2>4, <2>5 DEF HealInv
<1>3. CASE Maintain
  <2>1. /\ pc = "maintain" /\ UNCHANGED <<durable, count, digestOk, streak, orphaned, faulted>>
        /\ pc' = IF small \/ Resumable THEN "resize" ELSE "restart"
    BY <1>3 DEF Maintain, slices, bounds
  <2>2. Mine' = Mine
    BY <2>1 DEF Mine
  <2>3. ASSUME streak # 0, ~orphaned, ~faulted PROVE Heals'
    <3>1. Oversized
      BY <1>0, <2>1, <2>3 DEF Heals
    <3>2. ~Resumable /\ comp[SingleFile] = None
      BY <3>1 DEF Oversized, Resumable
    <3>3. small => \A c \in Components : comp[c] = None
      BY DEF TrackerInv, TrackersKnown, Owners
    <3>. QED BY <2>1, <3>2, <3>3 DEF Heals, durable
  <2>. QED BY <1>0, <2>1, <2>2, <2>3 DEF HealInv, RetryHeals
<1>4. CASE DeleteTracker
  <2>1. /\ pc \in {"restart", "accept", "reject"} /\ UNCHANGED <<pc, count, digestOk>>
        /\ UNCHANGED <<streak, orphaned, faulted>>
        /\ comp' = comp \/ comp' = [comp EXCEPT ![Head(doomed)] = None]
    BY <1>4 DEF DeleteTracker, TrackerInv, slices, bounds
  <2>2. comp[SingleFile] = None => comp'[SingleFile] = None
    <3>1. comp \in [Owners -> CompTrackers] /\ SingleFile \in Owners
      BY TypeParts DEF Owners
    <3>. QED BY <2>1, <3>1
  <2>3. Heals => Heals'
    BY <2>1, <2>2 DEF Heals
  <2>4. Mine' = Mine
    BY <2>1 DEF Mine
  <2>. QED BY <1>0, <2>1, <2>3, <2>4 DEF HealInv, RetryHeals
<1>5. CASE OpenParent \/ WriteParent
  <2>1. /\ pc \in {"restart", "parent"} /\ pc' \in {"parent", "resize"}
        /\ pc' = "resize" => pc = "parent"
        /\ UNCHANGED <<comp, count, doomed, digestOk, streak, orphaned, faulted>>
    BY <1>5 DEF OpenParent, WriteParent, slices, bounds
  <2>2. ASSUME streak # 0, ~orphaned, ~faulted PROVE Heals'
    <3>1. comp[SingleFile] = None
      BY <1>0, <2>1, <2>2 DEF Heals
    <3>2. pc = "parent" => \A c \in Components : comp[c] = None
      <4>1. SUFFICES ASSUME pc = "parent", NEW c \in Components, comp[c] # None PROVE FALSE
        OBVIOUS
      <4>2. doomed = <<>> /\ parent = Torn
        BY <4>1 DEF TrackerInv, FilesInv, DeletionInv
      <4>3. parent.there = "whole"
        BY <2>2, <4>1, <4>2 DEF FilesInv, FiledInv
      <4>. QED BY <4>2, <4>3, TrackerCases
    <3>. QED BY <2>1, <3>1, <3>2 DEF Heals
  <2>3. Mine' = Mine
    BY <2>1 DEF Mine
  <2>. QED BY <1>0, <2>1, <2>2, <2>3 DEF HealInv, RetryHeals
<1>6. CASE Resize
  <2>1. /\ pc = "resize" /\ pc' = "fetch"
        /\ UNCHANGED <<object, comp, count, cPc, digestOk, streak, orphaned, faulted>>
    BY <1>6 DEF Resize, slices, bounds
  <2>2. Mine' = Mine /\ \A c \in Mine : Own(c)' = Own(c) /\ c \in Components
    BY <2>1, SamePartition, Placed
  <2>3. ASSUME streak # 0, ~orphaned, ~faulted PROVE Heals'
    <3>1. comp[SingleFile] = None /\ \A c \in Components : comp[c] = None
      BY <1>0, <2>1, <2>3 DEF Heals
    <3>2. \A c \in Mine : comp[Own(c)] = None
      BY <2>2, <3>1 DEF Own
    <3>3. \A c \in Mine : cPc[c] = "open" /\ digestOk[c]
      BY <1>0, <2>1 DEF FetchInv
    <3>. QED BY <2>1, <2>2, <3>2, <3>3 DEF Heals
  <2>. QED BY <1>0, <2>1, <2>3 DEF HealInv, RetryHeals
<1>7. CASE Validate
  <2>1. /\ pc = "fetch" /\ UNCHANGED <<streak, orphaned, faulted>>
        /\ pc' = IF check => \A c \in Mine : digestOk[c] THEN "accept" ELSE "reject"
    BY <1>7 DEF Validate, Joined, bounds
  <2>2. Heals => Heals'
    BY <2>1 DEF Heals
  <2>. QED BY <1>0, <2>1, <2>2 DEF HealInv, RetryHeals
<1>8. CASE GiveUp \/ Unlink
  <2>1. /\ pc' = "idle" /\ UNCHANGED <<object, comp, orphaned>>
        /\ streak' = IF faulted THEN 0 ELSE streak + 1
    BY <1>8 DEF GiveUp, Unlink, Fails, durable
  <2>2. CASE faulted
    BY <2>1, <2>2 DEF HealInv, RetryHeals
  <2>3. CASE orphaned
    BY <1>0, <2>1, <2>3 DEF HealInv, RetryHeals
  <2>4. CASE ~faulted /\ ~orphaned
    <3>1. streak = 0
      <4>1. SUFFICES ASSUME streak # 0 PROVE FALSE
        OBVIOUS
      <4>2. Heals
        BY <1>0, <2>4, <4>1
      <4>. QED BY <1>8, <4>2 DEF Heals, GiveUp, Unlink, Joined
    <3>2. Oversized'
      <4>1. CASE GiveUp
        <5>1. Oversized
          BY <2>4, <4>1 DEF GiveUp, Joined, FailedInv
        <5>. QED BY <4>1, <5>1, OversizedSame DEF GiveUp, durable
      <4>2. CASE Unlink
        <5>1. pc = "reject" /\ doomed = <<>> /\ temp' = NoBytes
          BY <4>2 DEF Unlink
        <5>2. comp[SingleFile] = None
          <6>1. Range(doomed) = {}
            BY <5>1 DEF Range
          <6>. QED BY <5>1, <6>1 DEF FilesInv, DeletionInv
        <5>3. Cardinality(DOMAIN NoBytes) = 0
          BY FS_EmptySet DEF NoBytes
        <5>4. Size0' = Size0 /\ Size0 # 0
          BY <2>1, TypeParts, Partition DEF Size0
        <5>. QED BY <2>1, <5>1, <5>2, <5>3, <5>4 DEF Oversized
      <4>. QED BY <1>8, <4>1, <4>2
    <3>3. Heals'
      BY <2>1, <3>2 DEF Heals
    <3>4. streak' = 1
      BY <2>1, <2>4, <3>1
    <3>. QED BY <2>1, <3>3, <3>4 DEF HealInv, RetryHeals
  <2>. QED BY <2>2, <2>3, <2>4
<1>9. CASE Rename \/ Crash \/ Overwrite
  <2>1. streak' = 0 /\ pc' = "idle"
    BY <1>9 DEF Rename, Crash, Overwrite
  <2>. QED BY <2>1 DEF HealInv, RetryHeals
<1>10. CASE Quiescent
  <2>1. /\ pc = "idle" /\ UNCHANGED <<object, temp, comp, pc, count, streak, orphaned, faulted>>
    BY <1>10 DEF Quiescent, vars, durable, bounds
  <2>2. Heals => Heals'
    BY <2>1, OversizedSame DEF Heals
  <2>. QED BY <1>0, <2>1, <2>2 DEF HealInv, RetryHeals
<1>. QED BY <1>1, <1>2, <1>3, <1>4, <1>5, <1>6, <1>7, <1>8, <1>9, <1>10 DEF Next

HealingInv == CleanInv /\ FailedInv /\ HealInv

LEMMA HealingInit ==
    ASSUME Init
    PROVE  HealingInv
<1>1. FailedInv /\ HealInv
  BY DEF Init, FailedInv, HealInv, RetryHeals
<1>. QED BY <1>1, CleanInit DEF HealingInv

LEMMA HealingStutter ==
    ASSUME HealingInv, UNCHANGED vars
    PROVE  HealingInv'
<1>1. /\ UNCHANGED <<durable, pc, count, doomed, slices, bounds>>
      /\ UNCHANGED <<object, temp, parent, comp, cPc, digestOk, small, faulted, streak, orphaned>>
  BY DEF vars, durable, slices, bounds
<1>2. /\ Mine' = Mine /\ (Sliced' <=> Sliced) /\ (Oversized' <=> Oversized)
      /\ \A c \in Mine : Own(c)' = Own(c)
  BY <1>1, SamePartition, OversizedSame
<1>3. FailedInv'
  BY <1>1, <1>2 DEF HealingInv, FailedInv
<1>4. Heals => Heals'
  BY <1>1, <1>2 DEF Heals
<1>5. HealInv'
  BY <1>1, <1>2, <1>4 DEF HealingInv, HealInv, RetryHeals
<1>. QED BY <1>3, <1>5, CleanStutter DEF HealingInv

\* "If you re-try this download it will start from scratch": no two runs in a
\* row fail without a fault of their own, for any sizes, strategies, partitions
\* and crashes, unless a crash in the middle of DeleteDownloadTrackerFiles has
\* orphaned component tracker files.  It needs partitions whose components all
\* begin within the object.
THEOREM RetryHealsHolds ==
    ASSUME PartitionsFit
    PROVE  Spec => []RetryHeals
<1>1. Init => HealingInv
  BY HealingInit
<1>2. HealingInv /\ [Next]_vars => HealingInv'
  BY TypeNext, FetchNext, TrackerNext, FilesNext, FailedNext, HealNext, HealingStutter
  DEF HealingInv, CleanInv
<1>3. HealingInv => RetryHeals
  BY DEF HealingInv, HealInv
<1>. QED BY <1>1, <1>2, <1>3, PTL DEF Spec

=============================================================================
