------------------------- MODULE RsyncRemoveProofs -------------------------
(***************************************************************************)
(* Proofs about Rsync and RemoveObjects, the two commands that compare or  *)
(* walk listings and hand what they find to parallel workers.              *)
(*                                                                         *)
(* Rsync, for any names, items, options and numbers of runs: success means *)
(* that the destination is in sync, a name that the source keeps is never  *)
(* lost, a settled run finds nothing to do, and a run after one that       *)
(* failed undisturbed succeeds.  The theorems suppose that no name has a   *)
(* backslash: with one they do not hold.                                   *)
(*                                                                         *)
(* RemoveObjects, for any buckets, objects and commands: success means     *)
(* that what was asked for is gone, and without trouble no failure is      *)
(* reported.                                                               *)
(***************************************************************************)
EXTENDS Rsync, RemoveObjects, FiniteSetTheorems, SequenceTheorems,
        WellFoundedInduction, TLAPS

-----------------------------------------------------------------------------
(* Sequences that list a set.                                              *)

\* A sequence that lists a set lists all of it.
LEMMA ListsAll ==
  ASSUME NEW S, IsFiniteSet(S), NEW p \in SetToSeqs(S)
  PROVE  /\ Cardinality(S) \in Nat
         /\ p \in [1..Cardinality(S) -> S]
         /\ \A i, j \in 1..Cardinality(S) : i # j => p[i] # p[j]
         /\ \A x \in S : \E i \in 1..Cardinality(S) : p[i] = x
<1> DEFINE N == Cardinality(S)
<1>1. N \in Nat
  BY FS_CardinalityType
<1>2. p \in [1..N -> S] /\ \A i, j \in 1..N : i # j => p[i] # p[j]
  BY DEF SetToSeqs
<1>3. IsFiniteSet(1..N) /\ Cardinality(1..N) = N
  BY <1>1, FS_Interval
<1>4. p \in Injection(1..N, S)
  BY <1>2 DEF Injection, IsInjective
<1>5. p \in Surjection(1..N, S)
  BY <1>3, <1>4, FS_Injection
<1>6. \A x \in S : \E i \in 1..N : p[i] = x
  BY <1>5 DEF Surjection
<1> QED BY <1>1, <1>2, <1>6

\* A finite set with a strict order R can be listed in that order: the rank
\* of an element is the number of those before it.
LEMMA InOrder ==
  ASSUME NEW S, IsFiniteSet(S), NEW R,
         \A x \in S : <<x, x>> \notin R,
         \A x, y, z \in S : <<x, y>> \in R /\ <<y, z>> \in R => <<x, z>> \in R,
         \A x, y \in S : x = y \/ <<x, y>> \in R \/ <<y, x>> \in R
  PROVE  \E p \in SetToSeqs(S) : \A i, j \in DOMAIN p : i < j => <<p[i], p[j]>> \in R
<1> DEFINE N == Cardinality(S)
           Under(x) == {y \in S : <<y, x>> \in R}
           rank == [x \in S |-> Cardinality(Under(x)) + 1]
<1>1. N \in Nat
  BY FS_CardinalityType
<1>2. ASSUME NEW x \in S
      PROVE  rank[x] \in 1..N
  <2>1. Under(x) \in SUBSET S /\ x \notin Under(x)
    OBVIOUS
  <2>2. IsFiniteSet(Under(x)) /\ Cardinality(Under(x)) <= N
          /\ (N = Cardinality(Under(x)) => S = Under(x))
    BY <2>1, FS_Subset
  <2>3. Cardinality(Under(x)) \in Nat
    BY <2>2, FS_CardinalityType
  <2>4. Cardinality(Under(x)) # N
    BY <2>1, <2>2
  <2> HIDE DEF Under
  <2>5. rank[x] = Cardinality(Under(x)) + 1
    OBVIOUS
  <2> QED BY <1>1, <2>2, <2>3, <2>4, <2>5
<1>3. ASSUME NEW x \in S, NEW y \in S, <<x, y>> \in R
      PROVE  rank[x] < rank[y]
  <2>1. Under(x) \in SUBSET Under(y) /\ Under(y) \in SUBSET S
    BY <1>3
  <2>2. x \in Under(y) /\ x \notin Under(x)
    BY <1>3
  <2>3. IsFiniteSet(Under(y))
    BY <2>1, FS_Subset
  <2>4. IsFiniteSet(Under(x)) /\ Cardinality(Under(x)) <= Cardinality(Under(y))
          /\ (Cardinality(Under(y)) = Cardinality(Under(x)) => Under(y) = Under(x))
    BY <2>1, <2>3, FS_Subset
  <2>5. Cardinality(Under(x)) \in Nat /\ Cardinality(Under(y)) \in Nat
    BY <2>3, <2>4, FS_CardinalityType
  <2>6. Cardinality(Under(x)) # Cardinality(Under(y))
    BY <2>2, <2>4
  <2> HIDE DEF Under
  <2>7. rank[x] = Cardinality(Under(x)) + 1 /\ rank[y] = Cardinality(Under(y)) + 1
    OBVIOUS
  <2> QED BY <2>4, <2>5, <2>6, <2>7
<1>4. rank \in [S -> 1..N]
  BY <1>2
<1> HIDE DEF rank
<1>5. ASSUME NEW x \in S, NEW y \in S, x # y
      PROVE  rank[x] # rank[y]
  <2>1. rank[x] \in Int /\ rank[y] \in Int
    BY <1>1, <1>4
  <2>2. rank[x] < rank[y] \/ rank[y] < rank[x]
    BY <1>3, <1>5
  <2> QED BY <2>1, <2>2
<1>6. rank \in Injection(S, 1..N)
  BY <1>4, <1>5 DEF Injection, IsInjective
<1>7. IsFiniteSet(1..N) /\ Cardinality(1..N) = N
  BY <1>1, FS_Interval
<1>8. rank \in Surjection(S, 1..N)
  BY <1>6, <1>7, FS_Injection
<1>9. \A i \in 1..N : \E x \in S : rank[x] = i
  BY <1>8 DEF Surjection
<1> DEFINE p == [i \in 1..N |-> CHOOSE x \in S : rank[x] = i]
<1>10. \A i \in 1..N : p[i] \in S /\ rank[p[i]] = i
  BY <1>9
<1>11. p \in [1..N -> S]
  BY <1>10
<1>12. DOMAIN p = 1..N
  OBVIOUS
<1> HIDE DEF p
<1>13. p \in SetToSeqs(S)
  BY <1>10, <1>11 DEF SetToSeqs
<1>14. ASSUME NEW i \in 1..N, NEW j \in 1..N, i < j
       PROVE  <<p[i], p[j]>> \in R
  <2>1. p[i] # p[j]
    BY <1>10, <1>14
  <2>2. ~(<<p[j], p[i]>> \in R)
    <3> SUFFICES ASSUME <<p[j], p[i]>> \in R PROVE FALSE
      OBVIOUS
    <3>1. rank[p[j]] < rank[p[i]]
      BY <1>3, <1>10
    <3> QED BY <1>1, <1>10, <1>14, <3>1
  <2> QED BY <1>10, <2>1, <2>2
<1> QED BY <1>12, <1>13, <1>14

\* What the first element and the rest of a sequence hold.
LEMMA HeadAndTail ==
  ASSUME NEW S, NEW s \in Seq(S), s # <<>>
  PROVE  /\ Head(s) \in S /\ Tail(s) \in Seq(S)
         /\ Range(s) = {Head(s)} \cup Range(Tail(s))
         /\ IsInjective(s) => Head(s) \notin Range(Tail(s)) /\ IsInjective(Tail(s))
<1>1. Len(s) \in Nat /\ Len(s) >= 1 /\ DOMAIN s = 1..Len(s)
  BY EmptySeq
<1>2. Head(s) = s[1] /\ s[1] \in S
  BY <1>1
<1>3. /\ Tail(s) \in Seq(S) /\ DOMAIN Tail(s) = 1..Len(s) - 1
      /\ \A i \in 1..Len(s) - 1 : Tail(s)[i] = s[i + 1]
  BY <1>1
<1>4. ASSUME NEW x
      PROVE  x \in Range(s) <=> x = Head(s) \/ x \in Range(Tail(s))
  <2>1. ASSUME NEW i \in DOMAIN s, s[i] = x
        PROVE  x = Head(s) \/ x \in Range(Tail(s))
    <3>1. CASE i = 1 BY <1>2, <2>1, <3>1
    <3>2. CASE i # 1
      <4>1. i - 1 \in 1..Len(s) - 1 /\ (i - 1) + 1 = i
        BY <1>1, <3>2
      <4>2. Tail(s)[i - 1] = x
        BY <1>3, <2>1, <4>1
      <4> QED BY <1>3, <4>1, <4>2 DEF Range
    <3> QED BY <3>1, <3>2
  <2>2. ASSUME NEW i \in DOMAIN Tail(s), Tail(s)[i] = x
        PROVE  x \in Range(s)
    <3>1. i + 1 \in DOMAIN s /\ s[i + 1] = x
      BY <1>1, <1>3, <2>2
    <3> QED BY <3>1 DEF Range
  <2>3. 1 \in DOMAIN s
    BY <1>1
  <2> QED BY <1>2, <2>1, <2>2, <2>3 DEF Range
<1>5. ASSUME IsInjective(s)
      PROVE  Head(s) \notin Range(Tail(s)) /\ IsInjective(Tail(s))
  <2>1. ASSUME NEW i \in DOMAIN Tail(s), NEW j \in DOMAIN Tail(s),
               Tail(s)[i] = Tail(s)[j]
        PROVE  i = j
    <3>1. i + 1 \in DOMAIN s /\ j + 1 \in DOMAIN s /\ s[i + 1] = s[j + 1]
      BY <1>1, <1>3, <2>1
    <3>2. i + 1 = j + 1
      BY <1>5, <3>1 DEF IsInjective
    <3> QED BY <1>3, <3>2
  <2>2. ASSUME NEW i \in DOMAIN Tail(s)
        PROVE  Tail(s)[i] # s[1]
    <3>1. i + 1 \in DOMAIN s /\ 1 \in DOMAIN s /\ i + 1 # 1 /\ Tail(s)[i] = s[i + 1]
      BY <1>1, <1>3
    <3> QED BY <1>5, <3>1 DEF IsInjective
  <2> QED BY <1>2, <2>1, <2>2 DEF IsInjective, Range
<1> QED BY <1>2, <1>3, <1>4, <1>5

\* Nothing is in the empty sequence.
LEMMA NoneInEmpty == Range(<<>>) = {}
  BY DEF Range

-----------------------------------------------------------------------------
(* Rsync: the invariant.                                                   *)

\* What the theorems about Rsync suppose: the merge compares names with every
\* backslash made a slash (rsync.py:1221-1222), the listings are sorted without.
NoBackslash == \A n \in Names : \A i \in DOMAIN n : n[i] # Backslash

\* What the two sides hold.
Src == at["src"]
Dst == at["dst"]

\* What a name, a line, an operation and a copy hold.
Entry == [data : Nat, mtime : Nat]
Held == UNION {[N -> Entry] : N \in SUBSET Names}
Line == [name : Names, item : Entry]
Op == [act : {"COPY", "MTIME", "REMOVE"}, from : Names \cup {<<>>}, to : Names,
       mtime : Nat]
Copy == [from : Names, to : Names, mtime : Nat, item : Items]

\* What a destination may hold under a name.
Fits(n, e) ==
    IF IsTemp(n) THEN e = Partial
    ELSE /\ \E i \in Items : e.data = i.data
         /\ opts.dir = "down" => e.mtime # NoTime

\* The lines are in the order of _BatchSort.
Sorted(s) == \A i, j \in DOMAIN s : i < j => Before(s[i].name, s[j].name)

\* The types that the other conjuncts, and the proofs, rely on.
StateTypes ==
    /\ at \in [Sides -> Held] /\ lines \in [Sides -> Seq(Line)]
    /\ opts \in Options
    /\ phase \in {"idle", "listing", "diff", "drain"} /\ listing \subseteq Sides
    /\ ops \subseteq Op /\ copying \subseteq Copy
    /\ failures \in Nat /\ exit \in {"none", "ok", "failed"} /\ streak \in Nat
    /\ abandon \in BOOLEAN /\ aborted \in BOOLEAN /\ unlisted \in BOOLEAN
    /\ disturbed \in BOOLEAN /\ settled \in BOOLEAN

\* The files of the two sides, of which only the destination's may be
\* temporary.
AtOK ==
    /\ \A n \in DOMAIN Src : ~IsTemp(n) /\ Src[n] \in Items
    /\ \A n \in DOMAIN Dst : Fits(n, Dst[n])

\* What is left of the two listings is sorted, and holds such files.
LinesOK ==
    /\ \A side \in Sides : Sorted(lines[side])
    /\ \A l \in Range(lines["src"]) : ~IsTemp(l.name) /\ l.item \in Items
    /\ \A l \in Range(lines["dst"]) : Fits(l.name, l.item)

\* Operations and copies write names that are not temporary; only objects
\* have their mtimes set, and only -d removes.
OpsOK ==
    \A op \in ops :
        /\ op.act # "REMOVE" => ~IsTemp(op.to) /\ op.from = op.to
        /\ op.act = "MTIME" => op.mtime # NoTime /\ opts.dir # "down"
        /\ op.act = "REMOVE" => opts.d

\* Copies likewise.
CopiesOK == \A c \in copying : ~IsTemp(c.to) /\ c.from = c.to

\* There is work only once both sides are listed.
PhaseOK ==
    /\ phase \in {"idle", "listing"} => ops = {} /\ copying = {}
    /\ phase # "listing" => listing = {}

\* Files, lines, operations and copies are such as the code makes.
ContentInv == AtOK /\ LinesOK /\ OpsOK /\ CopiesOK /\ PhaseOK

\* The names that the diff has yet to read on a side.
NamesOf(side) == {l.name : l \in Range(lines[side])}

\* No two operations or copies have the same target, nor a name that the diff
\* has yet to read.
TargetInv ==
    /\ \A x \in ops \cup copying : \A side \in Sides : x.to \notin NamesOf(side)
    /\ \A x, y \in ops : x.to = y.to => x = y
    /\ \A x, y \in copying : x.to = y.to => x = y
    /\ \A x \in ops, y \in copying : x.to # y.to

\* What the source holds throughout the run is in its listing, and -d does not
\* remove it, unless a listing was lost.
StableInv ==
    /\ stable \subseteq DOMAIN Src
    /\ phase \in {"diff", "drain"} => ~abandon
    /\ phase = "listing" /\ "src" \notin listing /\ ~unlisted
           => stable \subseteq NamesOf("src")
    /\ phase = "diff" /\ ~unlisted => stable \cap NamesOf("dst") \subseteq NamesOf("src")
    /\ ~unlisted => \A op \in ops : op.act = "REMOVE" => op.to \notin stable
    /\ ~disturbed /\ phase # "idle" => stable = DOMAIN Src

\* The names being copied to.
Targets == {c.to : c \in copying}

\* A name that is not in the destination any more was lost or is being copied.
KeepInv ==
    /\ phase = "listing" => DOMAIN before = DOMAIN Dst
    /\ (unlisted => abandon) =>
           \A n \in DOMAIN before :
               (n \in stable \/ ~opts.d) /\ ~IsTemp(n) =>
                   Holds(n) \/ n \in lost \/ n \in Targets

\* The mtime that _CompareObjects is given, and a pair it leaves as it is.
TimeOf(s) == IF opts.dir = "down" /\ s.mtime = NoTime THEN s.data ELSE s.mtime
InSync(s, d) ==
    ~Replaces(s, d, TimeOf(s)) /\ ~(TimeOf(s) # NoTime /\ d.mtime = NoTime)
\* A name on which _DiffIterator would yield nothing.
Synced(n) == n \in DOMAIN Dst /\ InSync(Src[n], Dst[n])

\* The two listings are complete.
Merging == phase \in {"diff", "drain"}

\* While nobody interferes, the lines are what the sides hold; a listing leaves
\* out nothing.
LinesFresh ==
    /\ phase # "idle" =>
        /\ \A l \in Range(lines["src"]) : l.name \in DOMAIN Src /\ l.item = Src[l.name]
        /\ \A l \in Range(lines["dst"]) :
              ~IsTemp(l.name) => l.name \in DOMAIN Dst /\ l.item = Dst[l.name]
    /\ phase = "listing" =>
        \A side \in Sides \ listing : NamesOf(side) = DOMAIN at[side]

\* The mtime is all that a file lacks.
Patched(op) ==
    /\ op.to \in DOMAIN Dst
    /\ InSync(Src[op.to], [data |-> Dst[op.to].data, mtime |-> op.mtime])

\* Operations and copies are about what the source holds now.
WorkFresh ==
    /\ \A op \in ops :
        /\ op.act = "REMOVE" => op.to \notin DOMAIN Src
        /\ op.act # "REMOVE" => op.to \in DOMAIN Src /\ op.mtime = Src[op.to].mtime
        /\ op.act = "MTIME" => Patched(op)
    /\ \A c \in copying : c.to \in DOMAIN Src /\ c.item = Src[c.to]
                          /\ c.mtime = Src[c.to].mtime

\* Unless a copy failed, a name of the source is ahead in the listing, has an
\* operation or a copy under way, or is in sync.
NothingMissing ==
    Merging /\ failures = 0 =>
        \A n \in DOMAIN Src :
            \/ n \in NamesOf("src")
            \/ \E op \in ops : op.act # "REMOVE" /\ op.to = n
            \/ n \in Targets
            \/ Synced(n)

\* With -d, a name of the destination is one of the source, ahead in the listing,
\* to be removed, or the temporary file of a copy under way.
NothingExtra ==
    Merging /\ opts.d =>
        \A n \in DOMAIN Dst :
            \/ n \in DOMAIN Src
            \/ n \in NamesOf("dst")
            \/ \E op \in ops : op.act = "REMOVE" /\ op.to = n
            \/ opts.dir = "down" /\ \E c \in copying : n = Temp(c.to)

\* The only failures that need no fault come from a -d that removes the
\* temporary file of a download.
FailuresInv ==
    phase # "idle" =>
        /\ ~unlisted /\ ~aborted
        /\ phase = "listing" => failures = 0
        /\ failures # 0 => opts.d
        /\ ~opts.d /\ opts.dir = "down" =>
              \A c \in copying : Temp(c.to) \in DOMAIN Dst

\* A run that succeeded left the sides in sync.
AtEnd ==
    phase = "idle" /\ exit = "ok" =>
        /\ \A n \in DOMAIN Src : Synced(n)
        /\ opts.d => DOMAIN Dst \subseteq DOMAIN Src

\* What holds of a run in which no request failed and nobody interfered.
Fresh == /\ LinesFresh /\ WorkFresh
         /\ NothingMissing /\ NothingExtra /\ FailuresInv /\ AtEnd

\* Until something disturbs it, a run is such.
CalmInv == ~disturbed => Fresh

\* The workers are waited for only when the merge is over, unless it raised an
\* exception.
DrainInv ==
    phase = "drain" /\ ~aborted =>
        lines["src"] = <<>> /\ (opts.d => lines["dst"] = <<>>)

\* A run after one that succeeded finds the sides as they were left.
SettledInv ==
    settled /\ ~disturbed =>
        /\ issued = {} /\ ops = {} /\ copying = {}
        /\ \A n \in DOMAIN Src : Synced(n)
        /\ opts.d => DOMAIN Dst \subseteq DOMAIN Src
        /\ phase = "diff" => /\ NamesOf("src") \subseteq NamesOf("dst")
                             /\ opts.d => NamesOf("dst") \subseteq NamesOf("src")

\* A run after one that failed undisturbed meets no temporary file: the failed
\* one has removed them, or renamed those it wrote.
HealInv ==
    /\ streak \in {0, 1}
    /\ streak = 1 /\ phase \in {"idle", "listing"} => \A n \in DOMAIN Dst : ~IsTemp(n)
    /\ streak = 1 /\ ~disturbed /\ phase # "idle" =>
        /\ failures = 0
        /\ \A l \in Range(lines["dst"]) : ~IsTemp(l.name)
        /\ \A op \in ops : ~IsTemp(op.to)
        /\ opts.dir = "down" => \A c \in copying : Temp(c.to) \in DOMAIN Dst

\* A number set that is not empty has a least element.
LEMMA Least ==
  ASSUME NEW S \in SUBSET Nat, S # {}
  PROVE  \E n \in S : \A k \in S : ~(k < n)
<1> DEFINE R == OpToRel(<, Nat)
<1>1. IsWellFoundedOn(R, Nat)
  BY NatLessThanWellFounded
<1>2. \A k, n \in Nat : k < n => <<k, n>> \in R
  BY DEF OpToRel
<1> HIDE DEF R
<1>3. PICK n \in S : \A k \in S : ~(<<k, n>> \in R)
  BY <1>1, WFMin
<1> QED BY <1>2, <1>3

\* Before, character by character.
BeforeAt(a, b, k) ==
    /\ k \in 1..Len(a) + 1 /\ k <= Len(b)
    /\ \A i \in 1..k - 1 : a[i] = b[i]
    /\ k <= Len(a) => a[k] < b[k]

\* Before in terms of the first character at which two names differ.
LEMMA BeforeIs ==
  ASSUME NEW a \in Seq(Int), NEW b \in Seq(Int)
  PROVE  Before(a, b) <=> \E k \in Nat : BeforeAt(a, b, k)
<1> DEFINE Same(k) == SubSeq(a, 1, k - 1) = SubSeq(b, 1, k - 1)
<1>1. ASSUME NEW k \in 1..Len(a) + 1, k <= Len(b)
      PROVE  Same(k) <=> \A i \in 1..k - 1 : a[i] = b[i]
  <2>1. Len(a) \in Nat /\ Len(b) \in Nat /\ k - 1 \in Nat /\ k - 1 <= Len(a) /\ k - 1 <= Len(b)
    BY <1>1
  <2>2. /\ SubSeq(a, 1, k - 1) = [i \in 1..k - 1 |-> a[i]]
        /\ SubSeq(b, 1, k - 1) = [i \in 1..k - 1 |-> b[i]]
    BY <2>1
  <2> QED BY <2>2
<1>2. Before(a, b) <=> \E k \in 1..Len(a) + 1 : k <= Len(b) /\ Same(k) /\ (k <= Len(a) => a[k] < b[k])
  BY DEF Before
<1> HIDE DEF Same
<1> QED BY <1>1, <1>2 DEF BeforeAt

\* Before is a strict order on names.
LEMMA BeforeOrders ==
  /\ \A a \in Names : ~Before(a, a)
  /\ \A a, b, c \in Names : Before(a, b) /\ Before(b, c) => Before(a, c)
  /\ \A a, b \in Names : a = b \/ Before(a, b) \/ Before(b, a)
<1>1. \A n \in Names : n \in Seq(Int) /\ Len(n) \in Nat
  BY NamesAssumption DEF Slash, Suffix
<1>2. ASSUME NEW a \in Names, Before(a, a) PROVE FALSE
  <2>1. PICK k \in Nat : BeforeAt(a, a, k)
    BY <1>1, <1>2, BeforeIs
  <2> QED BY <1>1, <2>1 DEF BeforeAt
<1>3. ASSUME NEW a \in Names, NEW b \in Names, NEW c \in Names,
             Before(a, b), Before(b, c)
      PROVE  Before(a, c)
  <2>1. PICK k \in Nat : BeforeAt(a, b, k)
    BY <1>1, <1>3, BeforeIs
  <2>2. PICK l \in Nat : BeforeAt(b, c, l)
    BY <1>1, <1>3, BeforeIs
  <2>3. a \in Seq(Int) /\ b \in Seq(Int) /\ c \in Seq(Int)
        /\ Len(a) \in Nat /\ Len(b) \in Nat /\ Len(c) \in Nat
    BY <1>1
  <2>4. CASE k <= l
    <3>1. BeforeAt(a, c, k)
      <4>1. k \in 1..Len(a) + 1 /\ k <= Len(c)
        BY <2>1, <2>2, <2>3, <2>4 DEF BeforeAt
      <4>2. \A i \in 1..k - 1 : a[i] = c[i]
        BY <2>1, <2>2, <2>3, <2>4 DEF BeforeAt
      <4>3. ASSUME k <= Len(a) PROVE a[k] < c[k]
        <5>1. a[k] < b[k] /\ k <= Len(b) /\ k \in 1..Len(a)
          BY <2>1, <2>3, <4>3 DEF BeforeAt
        <5>2. k < l => b[k] = c[k]
          BY <2>1, <2>2, <2>3, <2>4 DEF BeforeAt
        <5>3. k = l => b[k] < c[k]
          BY <2>2, <5>1 DEF BeforeAt
        <5>4. a[k] \in Int /\ b[k] \in Int /\ c[k] \in Int
          BY <2>3, <4>1, <5>1
        <5> QED BY <2>4, <5>1, <5>2, <5>3, <5>4
      <4> QED BY <4>1, <4>2, <4>3 DEF BeforeAt
    <3> QED BY <2>3, <3>1, BeforeIs
  <2>5. CASE l < k
    <3>1. BeforeAt(a, c, l)
      <4>1. l \in 1..Len(a) /\ l <= Len(b) /\ l <= Len(c)
        BY <2>1, <2>2, <2>3, <2>5 DEF BeforeAt
      <4>2. \A i \in 1..l - 1 : a[i] = c[i]
        BY <2>1, <2>2, <2>3, <2>5 DEF BeforeAt
      <4>3. a[l] = b[l] /\ b[l] < c[l]
        BY <2>1, <2>2, <2>3, <2>5, <4>1 DEF BeforeAt
      <4> QED BY <2>3, <4>1, <4>2, <4>3 DEF BeforeAt
    <3> QED BY <2>3, <3>1, BeforeIs
  <2> QED BY <2>4, <2>5
<1>4. ASSUME NEW a \in Names, NEW b \in Names
      PROVE  a = b \/ Before(a, b) \/ Before(b, a)
  <2> DEFINE Differ == {k \in Nat : k >= 1 /\ (k > Len(a) \/ k > Len(b) \/ a[k] # b[k])}
  <2>1. a \in Seq(Int) /\ b \in Seq(Int) /\ Len(a) \in Nat /\ Len(b) \in Nat
    BY <1>1
  <2>2. Len(a) + 1 \in Differ
    BY <2>1
  <2>3. Differ \in SUBSET Nat /\ Differ # {}
    BY <2>2
  <2>4. PICK k \in Differ : \A i \in Differ : ~(i < k)
    <3> HIDE DEF Differ
    <3> QED BY <2>3, Least
  <2>5. k \in Nat /\ k >= 1 /\ (k > Len(a) \/ k > Len(b) \/ a[k] # b[k])
    BY <2>4
  <2>6. ASSUME NEW i \in 1..k - 1
        PROVE  i <= Len(a) /\ i <= Len(b) /\ a[i] = b[i]
    <3>1. i \in Nat /\ i >= 1 /\ i < k
      BY <2>5
    <3>2. i \notin Differ
      BY <2>4, <3>1
    <3> QED BY <2>1, <3>1, <3>2
  <2>7. k - 1 <= Len(a) /\ k - 1 <= Len(b)
    <3>1. CASE k = 1 BY <2>1, <3>1
    <3>2. CASE k # 1
      <4>1. k - 1 \in 1..k - 1
        BY <2>5, <3>2
      <4> QED BY <2>6, <4>1
    <3> QED BY <3>1, <3>2
  <2> HIDE DEF Differ
  <2>8. CASE k <= Len(a) /\ k <= Len(b)
    <3>1. a[k] # b[k] /\ a[k] \in Int /\ b[k] \in Int
      BY <2>1, <2>5, <2>8
    <3>2. CASE a[k] < b[k]
      <4>1. BeforeAt(a, b, k)
        BY <2>1, <2>5, <2>6, <2>8, <3>2 DEF BeforeAt
      <4> QED BY <2>1, <2>5, <4>1, BeforeIs
    <3>3. CASE b[k] < a[k]
      <4>1. BeforeAt(b, a, k)
        BY <2>1, <2>5, <2>6, <2>8, <3>3 DEF BeforeAt
      <4> QED BY <2>1, <2>5, <4>1, BeforeIs
    <3> QED BY <3>1, <3>2, <3>3
  <2>9. CASE k > Len(a) /\ k <= Len(b)
    <3>1. BeforeAt(a, b, k)
      BY <2>1, <2>5, <2>6, <2>7, <2>9 DEF BeforeAt
    <3> QED BY <2>1, <2>5, <3>1, BeforeIs
  <2>10. CASE k <= Len(a) /\ k > Len(b)
    <3>1. BeforeAt(b, a, k)
      BY <2>1, <2>5, <2>6, <2>7, <2>10 DEF BeforeAt
    <3> QED BY <2>1, <2>5, <3>1, BeforeIs
  <2>11. CASE k > Len(a) /\ k > Len(b)
    <3>1. Len(a) = k - 1 /\ Len(b) = k - 1
      BY <2>1, <2>5, <2>7, <2>11
    <3>2. a = b
      BY <2>1, <2>6, <3>1, SeqEqual
    <3> QED BY <3>2
  <2> QED BY <2>1, <2>5, <2>8, <2>9, <2>10, <2>11
<1> QED BY <1>2, <1>3, <1>4

\* Without a backslash, the key of a name is the name.
LEMMA KeyIs ==
  ASSUME NoBackslash, NEW n \in Names
  PROVE  Key(n) = n
<1>1. n \in Seq(Int) /\ n = [i \in DOMAIN n |-> n[i]]
  BY NamesAssumption DEF Slash, Suffix
<1>2. \A i \in DOMAIN n : (IF n[i] = Backslash THEN Slash ELSE n[i]) = n[i]
  BY DEF NoBackslash
<1> QED BY <1>1, <1>2 DEF Key

\* A temporary name is one, and tells what it is for.
LEMMA Temps ==
  ASSUME NEW n \in Names, ~IsTemp(n)
  PROVE  /\ Temp(n) \in Names /\ IsTemp(Temp(n)) /\ Temp(n) # n
         /\ \A m \in Names : Temp(m) = Temp(n) => m = n
<1>1. \A m \in Names : m \in Seq(Int) /\ Len(m) \in Nat
  BY NamesAssumption DEF Slash, Suffix
<1>2. Temp(n) \in Names
  BY NamesAssumption
<1>3. Suffix \in Int
  BY DEF Suffix
<1>4. ASSUME NEW m \in Names
      PROVE  /\ Temp(m) \in Seq(Int) /\ Len(Temp(m)) = Len(m) + 1
             /\ Temp(m)[Len(m) + 1] = Suffix
             /\ \A i \in 1..Len(m) : Temp(m)[i] = m[i]
  BY <1>1, <1>3 DEF Temp
<1>5. IsTemp(Temp(n))
  BY <1>1, <1>4 DEF IsTemp
<1>6. ASSUME NEW m \in Names, Temp(m) = Temp(n)
      PROVE  m = n
  <2>1. Len(m) = Len(n)
    BY <1>1, <1>4, <1>6
  <2>2. \A i \in 1..Len(m) : m[i] = n[i]
    BY <1>4, <1>6, <2>1
  <2> QED BY <1>1, <2>1, <2>2, SeqEqual
<1> QED BY <1>2, <1>5, <1>6

\* A file that is not empty: its first line comes before all others.
LEMMA FirstLine ==
  ASSUME NEW s \in Seq(Line), s # <<>>, Sorted(s)
  PROVE  /\ s[1] \in Line /\ Tail(s) \in Seq(Line)
         /\ Range(s) = {s[1]} \cup Range(Tail(s))
         /\ Sorted(Tail(s))
         /\ \A l \in Range(Tail(s)) : Before(s[1].name, l.name)
<1>1. Len(s) \in Nat /\ Len(s) >= 1 /\ DOMAIN s = 1..Len(s)
  BY EmptySeq
<1>2. Head(s) = s[1] /\ s[1] \in Line
  BY <1>1
<1>3. /\ Tail(s) \in Seq(Line) /\ DOMAIN Tail(s) = 1..Len(s) - 1
      /\ \A i \in 1..Len(s) - 1 : Tail(s)[i] = s[i + 1]
  BY <1>1
<1>4. Range(s) = {s[1]} \cup Range(Tail(s))
  BY <1>2, HeadAndTail
<1>5. ASSUME NEW i \in DOMAIN Tail(s), NEW j \in DOMAIN Tail(s), i < j
      PROVE  Before(Tail(s)[i].name, Tail(s)[j].name)
  <2>1. i + 1 \in DOMAIN s /\ j + 1 \in DOMAIN s /\ i + 1 < j + 1
    BY <1>1, <1>3, <1>5
  <2>2. Before(s[i + 1].name, s[j + 1].name)
    BY <2>1 DEF Sorted
  <2> QED BY <1>3, <2>2
<1>6. ASSUME NEW l \in Range(Tail(s))
      PROVE  Before(s[1].name, l.name)
  <2>1. PICK i \in DOMAIN Tail(s) : Tail(s)[i] = l
    BY DEF Range
  <2>2. 1 \in DOMAIN s /\ i + 1 \in DOMAIN s /\ 1 < i + 1 /\ l = s[i + 1]
    BY <1>1, <1>3, <2>1
  <2> QED BY <2>2 DEF Sorted
<1> QED BY <1>2, <1>3, <1>4, <1>5, <1>6 DEF Sorted

\* A listing has a line for each name, in order.
LEMMA ListingIs ==
  ASSUME at \in [Sides -> Held], NEW side \in Sides
  PROVE  /\ Listing(side) \in Seq(Line) /\ Sorted(Listing(side))
         /\ \A n : (\E l \in Range(Listing(side)) : l.name = n) <=> n \in DOMAIN at[side]
         /\ \A l \in Range(Listing(side)) : l.item = at[side][l.name]
<1> DEFINE S == DOMAIN at[side]
           R == {e \in S \X S : Before(e[1], e[2])}
           Ordered(s) == \A i, j \in DOMAIN s : i < j => LineBefore(s[i], s[j])
           names == CHOOSE s \in SetToSeqs(S) : Ordered(s)
           N == Cardinality(S)
<1>1. S \subseteq Names /\ at[side] \in [S -> Entry]
  BY DEF Held
<1>2. IsFiniteSet(S)
  BY <1>1, NamesAssumption, FS_Subset
<1>3. \A x, y \in S : <<x, y>> \in R <=> Before(x, y)
  OBVIOUS
<1> HIDE DEF R, S
<1>4. PICK p \in SetToSeqs(S) : \A i, j \in DOMAIN p : i < j => <<p[i], p[j]>> \in R
  <2>1. \A x \in S : <<x, x>> \notin R
    BY <1>1, <1>3, BeforeOrders
  <2>2. \A x, y, z \in S : <<x, y>> \in R /\ <<y, z>> \in R => <<x, z>> \in R
    BY <1>1, <1>3, BeforeOrders
  <2>3. \A x, y \in S : x = y \/ <<x, y>> \in R \/ <<y, x>> \in R
    BY <1>1, <1>3, BeforeOrders
  <2> QED BY <1>2, <2>1, <2>2, <2>3, InOrder
<1>5. N \in Nat /\ p \in [1..N -> S]
  BY <1>2, ListsAll
<1>6. Ordered(p)
  BY <1>3, <1>4, <1>5 DEF LineBefore
<1>7. names \in SetToSeqs(S) /\ Ordered(names)
  BY <1>6
<1>8. Listing(side) = [i \in DOMAIN names |-> [name |-> names[i], item |-> at[side][names[i]]]]
  BY DEF Listing, S
<1> HIDE DEF names
<1>9. names \in [1..N -> S] /\ \A x \in S : \E i \in 1..N : names[i] = x
  BY <1>2, <1>7, ListsAll
<1> HIDE DEF N
<1>10. DOMAIN names = 1..N
  BY <1>9
<1>11. ASSUME NEW i \in 1..N
       PROVE  /\ names[i] \in S
              /\ [name |-> names[i], item |-> at[side][names[i]]] \in Line
  <2>1. names[i] \in S
    BY <1>9
  <2>2. names[i] \in Names /\ at[side][names[i]] \in Entry
    BY <1>1, <2>1
  <2> QED BY <2>1, <2>2 DEF Line
<1>12. Listing(side) \in [1..N -> Line]
  BY <1>8, <1>10, <1>11
<1>13. Listing(side) \in Seq(Line) /\ DOMAIN Listing(side) = 1..N
  BY <1>5, <1>12
<1>14. \A i \in 1..N : Listing(side)[i].name = names[i]
                       /\ Listing(side)[i].item = at[side][names[i]]
  BY <1>8, <1>10
<1>15. Sorted(Listing(side))
  BY <1>7, <1>10, <1>13, <1>14 DEF Sorted, LineBefore
<1>16. ASSUME NEW n
       PROVE  (\E l \in Range(Listing(side)) : l.name = n) <=> n \in S
  <2>1. \A i \in 1..N : Listing(side)[i] \in Range(Listing(side))
    BY <1>13 DEF Range
  <2>2. \A l \in Range(Listing(side)) : \E i \in 1..N : l = Listing(side)[i]
    BY <1>13 DEF Range
  <2> QED BY <1>9, <1>11, <1>14, <2>1, <2>2
<1>17. \A l \in Range(Listing(side)) : l.item = at[side][l.name]
  BY <1>13, <1>14 DEF Range
<1> QED BY <1>13, <1>15, <1>16, <1>17 DEF S

\* A part of it is in order, too.
LEMMA PartOfListing ==
  ASSUME NEW s \in Seq(Line), Sorted(s), NEW n \in 0..Len(s) - 1
  PROVE  /\ SubSeq(s, 1, n) \in Seq(Line) /\ Sorted(SubSeq(s, 1, n))
         /\ Range(SubSeq(s, 1, n)) \subseteq Range(s)
<1>1. Len(s) \in Nat /\ DOMAIN s = 1..Len(s) /\ n \in Nat /\ n <= Len(s)
  OBVIOUS
<1>2. SubSeq(s, 1, n) = [i \in 1..n |-> s[i]]
  BY <1>1
<1>3. SubSeq(s, 1, n) \in [1..n -> Line]
  <2>1. \A i \in 1..n : s[i] \in Line
    BY <1>1
  <2> QED BY <1>2, <2>1
<1>4. SubSeq(s, 1, n) \in Seq(Line) /\ DOMAIN SubSeq(s, 1, n) = 1..n
  BY <1>1, <1>3
<1>5. \A i \in 1..n : SubSeq(s, 1, n)[i] = s[i] /\ i \in DOMAIN s
  BY <1>1, <1>2
<1>6. Sorted(SubSeq(s, 1, n))
  <2> SUFFICES ASSUME NEW i \in 1..n, NEW j \in 1..n, i < j
               PROVE  Before(SubSeq(s, 1, n)[i].name, SubSeq(s, 1, n)[j].name)
    BY <1>4 DEF Sorted
  <2>1. Before(s[i].name, s[j].name)
    BY <1>5 DEF Sorted
  <2> QED BY <1>5, <2>1
<1>7. Range(SubSeq(s, 1, n)) \subseteq Range(s)
  BY <1>4, <1>5 DEF Range
<1> QED BY <1>4, <1>6, <1>7

\* A side without a name.
LEMMA WithoutIs ==
  ASSUME NEW f \in Held, NEW n
  PROVE  /\ Without(f, n) \in Held /\ DOMAIN Without(f, n) = DOMAIN f \ {n}
         /\ \A m \in DOMAIN f \ {n} : Without(f, n)[m] = f[m]
<1>1. PICK N \in SUBSET Names : f \in [N -> Entry]
  BY DEF Held
<1>2. Without(f, n) = [m \in N \ {n} |-> f[m]]
  BY <1>1 DEF Without, Restrict
<1>3. Without(f, n) \in [N \ {n} -> Entry] /\ N \ {n} \in SUBSET Names
  BY <1>1, <1>2
<1> QED BY <1>1, <1>2, <1>3 DEF Held

\* A side with a name.
LEMMA WithIs ==
  ASSUME NEW f \in Held, NEW n \in Names, NEW e \in Entry
  PROVE  /\ With(f, n, e) \in Held /\ DOMAIN With(f, n, e) = DOMAIN f \cup {n}
         /\ With(f, n, e)[n] = e
         /\ \A m \in DOMAIN f \ {n} : With(f, n, e)[m] = f[m]
<1>1. PICK N \in SUBSET Names : f \in [N -> Entry]
  BY DEF Held
<1>2. With(f, n, e) = [m \in N \cup {n} |-> IF m = n THEN e ELSE f[m]]
  BY <1>1 DEF With
<1>3. With(f, n, e) \in [N \cup {n} -> Entry] /\ N \cup {n} \in SUBSET Names
  BY <1>1, <1>2
<1> QED BY <1>1, <1>2, <1>3 DEF Held

\* What _CompareObjects leaves as it is is alike.
LEMMA InSyncAlike ==
  ASSUME opts \in Options, NEW s \in Items, NEW d \in Entry, InSync(s, d)
  PROVE  Alike(s, d)
<1>1. s.mtime \in Nat /\ s.data \in Nat /\ s.data # 0
  BY ItemsAssumption
<1>2. d.mtime \in Nat /\ d.data \in Nat
  BY DEF Entry
<1> DEFINE m == TimeOf(s)
<1>3. m = IF opts.dir = "down" /\ s.mtime = NoTime THEN s.data ELSE s.mtime
  BY DEF TimeOf
<1>4. ~Replaces(s, d, m) /\ ~(m # NoTime /\ d.mtime = NoTime)
  BY DEF InSync
<1> HIDE DEF m
<1>5. \/ opts.i
      \/ opts.u /\ m # NoTime /\ d.mtime # NoTime /\ m < d.mtime
      \/ /\ ~opts.c /\ opts.dir # "cloud" /\ m # NoTime /\ d.mtime # NoTime
         /\ m = d.mtime /\ Size(s) = Size(d)
      \/ s.data = d.data
  BY <1>4 DEF Replaces, DifferByTime
<1>6. CASE opts.u /\ m # NoTime /\ d.mtime # NoTime /\ m < d.mtime
  <2>1. CASE s.mtime # NoTime BY <1>3, <1>6, <2>1 DEF Alike
  <2>2. CASE s.mtime = NoTime BY <1>3, <1>6, <2>2 DEF Alike
  <2> QED BY <2>1, <2>2
<1>7. CASE /\ ~opts.c /\ opts.dir # "cloud" /\ m # NoTime /\ d.mtime # NoTime
           /\ m = d.mtime /\ Size(s) = Size(d)
  <2>1. m = IF s.mtime # NoTime THEN s.mtime ELSE s.data
    BY <1>3, <1>7
  <2> QED BY <1>7, <2>1 DEF Alike
<1> QED BY <1>5, <1>6, <1>7 DEF Alike

\* What a copy of the current source leaves behind is in sync with it.
LEMMA CopiedInSync ==
  ASSUME opts \in Options, NEW c \in Copy, c.mtime = c.item.mtime
  PROVE  InSync(c.item, Copied(c))
<1> DEFINE s == c.item
           d == Copied(c)
           m == TimeOf(s)
<1>1. s \in Items /\ s.mtime \in Nat /\ s.data \in Nat /\ s.data # 0
  BY ItemsAssumption DEF Copy
<1>2. d.data = s.data /\ d.mtime = IF opts.dir = "down" /\ s.mtime = NoTime
                                   THEN s.data ELSE s.mtime
  BY <1>1, ItemsAssumption DEF Copied
<1>3. m = d.mtime
  BY <1>2 DEF TimeOf
<1>4. Size(s) = Size(d)
  BY <1>2 DEF Size
<1>5. m \in Nat
  BY <1>1 DEF TimeOf
<1> HIDE DEF s, d, m
<1>6. ~Replaces(s, d, m)
  BY <1>2, <1>3, <1>4, <1>5 DEF Replaces, DifferByTime
<1> QED BY <1>3, <1>6 DEF InSync, s, d, m

\* So is a destination whose mtime was patched, where only that was missing.
LEMMA PatchedInSync ==
  ASSUME opts \in Options, NEW s \in Items, NEW d \in Entry, d.mtime = NoTime,
         opts.dir # "down", s.mtime # NoTime, ~Replaces(s, d, TimeOf(s))
  PROVE  InSync(s, [data |-> d.data, mtime |-> s.mtime])
<1> DEFINE e == [data |-> d.data, mtime |-> s.mtime]
<1>1. s.mtime \in Nat /\ s.data \in Nat
  BY ItemsAssumption
<1>2. e.data = d.data /\ e.mtime = s.mtime /\ TimeOf(s) = s.mtime
  BY DEF TimeOf
<1> HIDE DEF e
<1>3. opts.i \/ (Size(s) = Size(d) /\ s.data = d.data)
  BY DEF Replaces
<1>4. Size(d) = Size(e)
  BY <1>2 DEF Size
<1>5. ~Replaces(s, e, s.mtime)
  BY <1>1, <1>2, <1>3, <1>4 DEF Replaces, DifferByTime
<1> QED BY <1>2, <1>5 DEF InSync, e

-----------------------------------------------------------------------------
(* What the steps do.                                                      *)

\* The merge copies a source whose name comes before all that is left.
LEMMA CopyEffect ==
  ASSUME NoBackslash, StateTypes, ContentInv, DiffCopy
  PROVE  \E l \in Line :
            /\ l \in Range(lines["src"])
            /\ Range(lines["src"]) = {l} \cup Range(lines'["src"])
            /\ lines'["dst"] = lines["dst"]
            /\ \A k \in Range(lines'["src"]) \cup Range(lines["dst"]) : k.name # l.name
            /\ lines' \in [Sides -> Seq(Line)]
            /\ Sorted(lines'["src"]) /\ Sorted(lines'["dst"])
            /\ ops' = ops \cup {[act |-> "COPY", from |-> l.name, to |-> l.name,
                                 mtime |-> l.item.mtime]}
            /\ issued' = issued \cup {[act |-> "COPY", from |-> l.name, to |-> l.name,
                                       mtime |-> l.item.mtime]}
<1>1. /\ lines["src"] \in Seq(Line) /\ lines["dst"] \in Seq(Line)
      /\ Sorted(lines["src"]) /\ Sorted(lines["dst"])
  BY DEF StateTypes, ContentInv, LinesOK, Sides
<1>2. lines["src"] # <<>>
  BY DEF DiffCopy, More
<1>3. /\ Source \in Line /\ Tail(lines["src"]) \in Seq(Line)
      /\ Range(lines["src"]) = {Source} \cup Range(Tail(lines["src"]))
      /\ Sorted(Tail(lines["src"]))
      /\ \A l \in Range(Tail(lines["src"])) : Before(Source.name, l.name)
  BY <1>1, <1>2, FirstLine DEF Source
<1>4. ASSUME NEW k \in Range(lines["dst"])
      PROVE  Before(Source.name, k.name)
  <2>1. lines["dst"] # <<>>
    BY <1>4, NoneInEmpty
  <2>2. /\ Target \in Line /\ Tail(lines["dst"]) \in Seq(Line)
        /\ Range(lines["dst"]) = {Target} \cup Range(Tail(lines["dst"]))
        /\ \A l \in Range(Tail(lines["dst"])) : Before(Target.name, l.name)
    BY <1>1, <2>1, FirstLine DEF Target
  <2>3. Source.name \in Names /\ Target.name \in Names
    BY <1>3, <2>2 DEF Line
  <2>4. Before(Source.name, Target.name)
    BY <2>1, <2>3, KeyIs DEF DiffCopy, More
  <2>5. CASE k = Target BY <2>4, <2>5
  <2>6. CASE k \in Range(Tail(lines["dst"]))
    <3>1. k \in Line
      BY <2>2, <2>6 DEF Range
    <3>2. k.name \in Names /\ Before(Target.name, k.name)
      BY <2>2, <2>6, <3>1 DEF Line
    <3> QED BY <2>3, <2>4, <3>2, BeforeOrders
  <2> QED BY <1>4, <2>2, <2>5, <2>6
<1>5. \A k \in Range(Tail(lines["src"])) \cup Range(lines["dst"]) : k.name # Source.name
  <2>1. Source.name \in Names
    BY <1>3 DEF Line
  <2> QED BY <1>3, <1>4, <2>1, BeforeOrders
<1>6. /\ lines' = [side \in Sides |-> IF side \in {"src"} THEN Tail(lines[side])
                                      ELSE lines[side]]
      /\ ops' = ops \cup {[act |-> "COPY", from |-> Source.name, to |-> Source.name,
                           mtime |-> Source.item.mtime]}
      /\ issued' = issued \cup {[act |-> "COPY", from |-> Source.name,
                                 to |-> Source.name, mtime |-> Source.item.mtime]}
  BY DEF DiffCopy, Yield, Advance
<1>7. lines'["src"] = Tail(lines["src"]) /\ lines'["dst"] = lines["dst"]
      /\ lines' \in [Sides -> Seq(Line)]
  BY <1>1, <1>3, <1>6 DEF Sides
<1> QED BY <1>1, <1>3, <1>5, <1>6, <1>7

\* It passes over, or removes, a destination whose name comes before all
\* that is left.
LEMMA ExtraEffect ==
  ASSUME NoBackslash, StateTypes, ContentInv, DiffExtra
  PROVE  \E l \in Line :
            /\ l \in Range(lines["dst"])
            /\ Range(lines["dst"]) = {l} \cup Range(lines'["dst"])
            /\ lines'["src"] = lines["src"]
            /\ \A k \in Range(lines'["dst"]) \cup Range(lines["src"]) : k.name # l.name
            /\ lines' \in [Sides -> Seq(Line)]
            /\ Sorted(lines'["src"]) /\ Sorted(lines'["dst"])
            /\ \/ /\ opts.d
                  /\ ops' = ops \cup {[act |-> "REMOVE", from |-> <<>>, to |-> l.name,
                                       mtime |-> NoTime]}
                  /\ issued' = issued \cup {[act |-> "REMOVE", from |-> <<>>,
                                             to |-> l.name, mtime |-> NoTime]}
               \/ ~opts.d /\ UNCHANGED <<ops, issued>>
<1>1. /\ lines["src"] \in Seq(Line) /\ lines["dst"] \in Seq(Line)
      /\ Sorted(lines["src"]) /\ Sorted(lines["dst"])
  BY DEF StateTypes, ContentInv, LinesOK, Sides
<1>2. lines["dst"] # <<>>
  BY DEF DiffExtra, More
<1>3. /\ Target \in Line /\ Tail(lines["dst"]) \in Seq(Line)
      /\ Range(lines["dst"]) = {Target} \cup Range(Tail(lines["dst"]))
      /\ Sorted(Tail(lines["dst"]))
      /\ \A l \in Range(Tail(lines["dst"])) : Before(Target.name, l.name)
  BY <1>1, <1>2, FirstLine DEF Target
<1>4. ASSUME NEW k \in Range(lines["src"])
      PROVE  Before(Target.name, k.name)
  <2>1. lines["src"] # <<>>
    BY <1>4, NoneInEmpty
  <2>2. /\ Source \in Line /\ Tail(lines["src"]) \in Seq(Line)
        /\ Range(lines["src"]) = {Source} \cup Range(Tail(lines["src"]))
        /\ \A l \in Range(Tail(lines["src"])) : Before(Source.name, l.name)
    BY <1>1, <2>1, FirstLine DEF Source
  <2>3. Source.name \in Names /\ Target.name \in Names
    BY <1>3, <2>2 DEF Line
  <2>4. Before(Target.name, Source.name)
    BY <2>1, <2>3, KeyIs DEF DiffExtra, More
  <2>5. CASE k = Source BY <2>4, <2>5
  <2>6. CASE k \in Range(Tail(lines["src"]))
    <3>1. k \in Line
      BY <2>2, <2>6 DEF Range
    <3>2. k.name \in Names /\ Before(Source.name, k.name)
      BY <2>2, <2>6, <3>1 DEF Line
    <3> QED BY <2>3, <2>4, <3>2, BeforeOrders
  <2> QED BY <1>4, <2>2, <2>5, <2>6
<1>5. \A k \in Range(Tail(lines["dst"])) \cup Range(lines["src"]) : k.name # Target.name
  <2>1. Target.name \in Names
    BY <1>3 DEF Line
  <2> QED BY <1>3, <1>4, <2>1, BeforeOrders
<1>6. /\ lines' = [side \in Sides |-> IF side \in {"dst"} THEN Tail(lines[side])
                                      ELSE lines[side]]
      /\ \/ /\ opts.d
            /\ ops' = ops \cup {[act |-> "REMOVE", from |-> <<>>, to |-> Target.name,
                                 mtime |-> NoTime]}
            /\ issued' = issued \cup {[act |-> "REMOVE", from |-> <<>>,
                                       to |-> Target.name, mtime |-> NoTime]}
         \/ ~opts.d /\ UNCHANGED <<ops, issued>>
  BY DEF DiffExtra, Yield, Advance
<1>7. lines'["dst"] = Tail(lines["dst"]) /\ lines'["src"] = lines["src"]
      /\ lines' \in [Sides -> Seq(Line)]
  BY <1>1, <1>3, <1>6 DEF Sides
<1> QED BY <1>1, <1>3, <1>5, <1>6, <1>7

\* Where both have the name, it compares the items.
LEMMA BothEffect ==
  ASSUME NoBackslash, StateTypes, ContentInv, DiffBoth
  PROVE  \E s, d \in Line :
            /\ s \in Range(lines["src"]) /\ d \in Range(lines["dst"]) /\ s.name = d.name
            /\ Range(lines["src"]) = {s} \cup Range(lines'["src"])
            /\ Range(lines["dst"]) = {d} \cup Range(lines'["dst"])
            /\ \A k \in Range(lines'["src"]) \cup Range(lines'["dst"]) : k.name # s.name
            /\ lines' \in [Sides -> Seq(Line)]
            /\ Sorted(lines'["src"]) /\ Sorted(lines'["dst"])
            /\ \/ /\ Replaces(s.item, d.item, TimeOf(s.item))
                  /\ ops' = ops \cup {[act |-> "COPY", from |-> s.name, to |-> s.name,
                                       mtime |-> s.item.mtime]}
                  /\ issued' # {}
               \/ /\ ~Replaces(s.item, d.item, TimeOf(s.item))
                  /\ TimeOf(s.item) # NoTime /\ d.item.mtime = NoTime
                  /\ ops' = ops \cup {[act |-> "MTIME", from |-> s.name, to |-> s.name,
                                       mtime |-> s.item.mtime]}
                  /\ issued' # {}
               \/ InSync(s.item, d.item) /\ UNCHANGED <<ops, issued>>
<1>1. /\ lines["src"] \in Seq(Line) /\ lines["dst"] \in Seq(Line)
      /\ Sorted(lines["src"]) /\ Sorted(lines["dst"])
  BY DEF StateTypes, ContentInv, LinesOK, Sides
<1>2. lines["src"] # <<>> /\ lines["dst"] # <<>>
  BY DEF DiffBoth, More
<1>3. /\ Source \in Line /\ Tail(lines["src"]) \in Seq(Line)
      /\ Range(lines["src"]) = {Source} \cup Range(Tail(lines["src"]))
      /\ Sorted(Tail(lines["src"]))
      /\ \A l \in Range(Tail(lines["src"])) : Before(Source.name, l.name)
  BY <1>1, <1>2, FirstLine DEF Source
<1>4. /\ Target \in Line /\ Tail(lines["dst"]) \in Seq(Line)
      /\ Range(lines["dst"]) = {Target} \cup Range(Tail(lines["dst"]))
      /\ Sorted(Tail(lines["dst"]))
      /\ \A l \in Range(Tail(lines["dst"])) : Before(Target.name, l.name)
  BY <1>1, <1>2, FirstLine DEF Target
<1>5. Source.name \in Names /\ Target.name \in Names
  BY <1>3, <1>4 DEF Line
<1>6. Source.name = Target.name
  BY <1>5, KeyIs DEF DiffBoth
<1>7. \A k \in Range(Tail(lines["src"])) \cup Range(Tail(lines["dst"])) :
          k.name # Source.name
  BY <1>3, <1>4, <1>5, <1>6, BeforeOrders
<1>8. lines' = [side \in Sides |-> IF side \in Sides THEN Tail(lines[side])
                                   ELSE lines[side]]
  BY DEF DiffBoth, Advance
<1>9. lines'["src"] = Tail(lines["src"]) /\ lines'["dst"] = Tail(lines["dst"])
      /\ lines' \in [Sides -> Seq(Line)]
  BY <1>3, <1>4, <1>8 DEF Sides
<1>10. \/ /\ Replaces(Source.item, Target.item, TimeOf(Source.item))
          /\ ops' = ops \cup {[act |-> "COPY", from |-> Source.name,
                               to |-> Source.name, mtime |-> Source.item.mtime]}
          /\ issued' # {}
       \/ /\ ~Replaces(Source.item, Target.item, TimeOf(Source.item))
          /\ TimeOf(Source.item) # NoTime /\ Target.item.mtime = NoTime
          /\ ops' = ops \cup {[act |-> "MTIME", from |-> Source.name,
                               to |-> Source.name, mtime |-> Source.item.mtime]}
          /\ issued' # {}
       \/ InSync(Source.item, Target.item) /\ UNCHANGED <<ops, issued>>
  <2> DEFINE m == TimeOf(Source.item)
  <2>1. IF Replaces(Source.item, Target.item, m)
        THEN Yield("COPY", Source.name, Target.name, Source.item.mtime)
        ELSE IF m # NoTime /\ Target.item.mtime = NoTime
        THEN Yield("MTIME", Source.name, Target.name, Source.item.mtime)
        ELSE UNCHANGED <<ops, issued>>
    BY DEF DiffBoth, TimeOf
  <2> HIDE DEF m
  <2>2. CASE Replaces(Source.item, Target.item, m)
    BY <1>6, <2>1, <2>2 DEF Yield, m
  <2>3. CASE ~Replaces(Source.item, Target.item, m) /\ m # NoTime
             /\ Target.item.mtime = NoTime
    BY <1>6, <2>1, <2>3 DEF Yield, m
  <2>4. CASE ~Replaces(Source.item, Target.item, m)
             /\ ~(m # NoTime /\ Target.item.mtime = NoTime)
    BY <2>1, <2>4 DEF InSync, m
  <2> QED BY <2>2, <2>3, <2>4
<1> QED BY <1>3, <1>4, <1>6, <1>7, <1>9, <1>10

\* Only the destination's files change.
LEMMA DstBecomes ==
  ASSUME StateTypes, NEW f, f \in Held, at' = [at EXCEPT !["dst"] = f]
  PROVE  Src' = Src /\ Dst' = f /\ at' \in [Sides -> Held]
BY DEF StateTypes, Src, Dst, Sides

\* Both sides are functions on some of the names.
LEMMA SidesHold == StateTypes => Src \in Held /\ Dst \in Held
BY DEF StateTypes, Src, Dst, Sides

\* A removal takes the name away, or fails.
LEMMA RemoveEffect ==
  ASSUME StateTypes, NEW op \in ops, RemoveExtra(op)
  PROVE  /\ op.act = "REMOVE" /\ ops' = ops \ {op} /\ Src' = Src
         /\ at' \in [Sides -> Held]
         /\ \/ /\ DOMAIN Dst' = DOMAIN Dst \ {op.to}
               /\ \A n \in DOMAIN Dst' : Dst'[n] = Dst[n]
               /\ UNCHANGED <<failures, lost, disturbed, bounds>>
            \/ /\ Dst' = Dst /\ failures' = failures + 1
               /\ lost' = lost \cup {op.to} /\ disturbed' = TRUE /\ UNCHANGED streak
<1>1. op.act = "REMOVE" /\ ops' = ops \ {op}
  BY DEF RemoveExtra
<1>2. CASE /\ at' = [at EXCEPT !["dst"] = Without(at["dst"], op.to)]
           /\ UNCHANGED <<failures, lost>> /\ Calm
  <2>1. Dst \in Held
    BY SidesHold
  <2>2. /\ Without(Dst, op.to) \in Held /\ DOMAIN Without(Dst, op.to) = DOMAIN Dst \ {op.to}
        /\ \A m \in DOMAIN Dst \ {op.to} : Without(Dst, op.to)[m] = Dst[m]
    BY <2>1, WithoutIs
  <2>3. Src' = Src /\ Dst' = Without(Dst, op.to) /\ at' \in [Sides -> Held]
    BY <1>2, <2>2, DstBecomes DEF Dst
  <2> QED BY <1>1, <1>2, <2>2, <2>3 DEF Calm
<1>3. CASE Failed(op) /\ Fault /\ UNCHANGED at
  BY <1>1, <1>3 DEF Failed, Fault, Src, Dst, StateTypes
<1> QED BY <1>2, <1>3 DEF RemoveExtra

\* The mtime is set, or all is to be copied.
LEMMA MtimeEffect ==
  ASSUME StateTypes, NEW op \in ops, SetMtime(op)
  PROVE  /\ op.act = "MTIME" /\ Src' = Src /\ at' \in [Sides -> Held]
         /\ \/ /\ op.to \in DOMAIN Dst /\ DOMAIN Dst' = DOMAIN Dst
               /\ Dst'[op.to] = [data |-> Dst[op.to].data, mtime |-> op.mtime]
               /\ \A n \in DOMAIN Dst \ {op.to} : Dst'[n] = Dst[n]
               /\ ops' = ops \ {op} /\ UNCHANGED <<disturbed, bounds>>
            \/ /\ Dst' = Dst /\ disturbed' = TRUE /\ UNCHANGED streak
               /\ ops' = (ops \ {op}) \cup {[act |-> "COPY", from |-> op.from,
                                             to |-> op.to, mtime |-> op.mtime]}
<1>1. op.act = "MTIME" /\ op \in Op
  BY DEF SetMtime, StateTypes
<1>2. CASE /\ op.to \in DOMAIN at["dst"]
           /\ at' = [at EXCEPT !["dst"][op.to].mtime = op.mtime]
           /\ ops' = ops \ {op} /\ Calm
  <2> DEFINE e == [data |-> Dst[op.to].data, mtime |-> op.mtime]
             f == [Dst EXCEPT ![op.to] = e]
  <2>1. Dst \in Held /\ op.to \in DOMAIN Dst
    BY <1>2, SidesHold DEF Dst
  <2>2. PICK N \in SUBSET Names : Dst \in [N -> Entry]
    BY <2>1 DEF Held
  <2>3. Dst[op.to] \in Entry /\ op.mtime \in Nat
    BY <1>1, <2>1, <2>2 DEF Op
  <2>4. e \in Entry
    BY <2>3 DEF Entry
  <2>5. [Dst[op.to] EXCEPT !.mtime = op.mtime] = e
    BY <2>3 DEF Entry
  <2>6. at' = [at EXCEPT !["dst"] = [Dst EXCEPT ![op.to] =
                                        [Dst[op.to] EXCEPT !.mtime = op.mtime]]]
    BY <1>2, Zenon DEF Dst
  <2>7. at' = [at EXCEPT !["dst"] = f]
    BY <2>5, <2>6
  <2> HIDE DEF e
  <2>8. f \in Held /\ DOMAIN f = DOMAIN Dst /\ f[op.to] = e
        /\ \A n \in DOMAIN Dst \ {op.to} : f[n] = Dst[n]
    BY <2>1, <2>2, <2>4 DEF Held
  <2> HIDE DEF f
  <2>9. Src' = Src /\ Dst' = f /\ at' \in [Sides -> Held]
    BY <2>7, <2>8, DstBecomes
  <2>10. ops' = ops \ {op} /\ UNCHANGED <<disturbed, bounds>>
    BY <1>2 DEF Calm
  <2> QED BY <1>1, <2>1, <2>8, <2>9, <2>10 DEF e
<1>3. CASE /\ ops' = (ops \ {op}) \cup {[op EXCEPT !.act = "COPY"]}
           /\ Fault /\ UNCHANGED at
  <2>1. [op EXCEPT !.act = "COPY"] = [act |-> "COPY", from |-> op.from, to |-> op.to,
                                      mtime |-> op.mtime]
    BY <1>1 DEF Op
  <2>2. ops' = (ops \ {op}) \cup {[act |-> "COPY", from |-> op.from, to |-> op.to,
                                   mtime |-> op.mtime]}
    BY <1>3, <2>1
  <2> QED BY <1>1, <1>3, <2>2 DEF Fault, Src, Dst, StateTypes
<1> QED BY <1>2, <1>3, Zenon DEF SetMtime

\* A copy begins, unless its source is gone; a download takes the file away
\* and puts the temporary one.
LEMMA StartEffect ==
  ASSUME StateTypes, ContentInv, NEW op \in ops, StartCopy(op)
  PROVE  /\ op.act = "COPY" /\ ops' = ops \ {op} /\ Src' = Src
         /\ at' \in [Sides -> Held] /\ UNCHANGED <<disturbed, bounds>>
         /\ \/ /\ op.from \notin DOMAIN Src /\ Dst' = Dst /\ copying' = copying
               /\ failures' = failures + 1 /\ lost' = lost \cup {op.to}
            \/ /\ op.from \in DOMAIN Src
               /\ copying' = copying \cup {[from |-> op.from, to |-> op.to,
                                  mtime |-> op.mtime, item |-> Src[op.from]]}
               /\ UNCHANGED <<failures, lost>>
               /\ \/ opts.dir # "down" /\ Dst' = Dst
                  \/ /\ opts.dir = "down"
                     /\ DOMAIN Dst' = (DOMAIN Dst \ {op.to}) \cup {Temp(op.to)}
                     /\ Dst'[Temp(op.to)] = Partial
                     /\ \A n \in DOMAIN Dst \ {op.to, Temp(op.to)} : Dst'[n] = Dst[n]
<1>1. op.act = "COPY" /\ ops' = ops \ {op} /\ UNCHANGED <<disturbed, bounds>>
  BY DEF StartCopy, Calm
<1>2. op.to \in Names /\ ~IsTemp(op.to) /\ op.from = op.to
  BY <1>1 DEF StateTypes, Op, ContentInv, OpsOK, CopiesOK
<1>3. CASE op.from \notin DOMAIN at["src"]
  BY <1>1, <1>3 DEF StartCopy, Failed, Src, Dst, StateTypes
<1>4. CASE op.from \in DOMAIN at["src"]
  <2>1. /\ copying' = copying \cup {[from |-> op.from, to |-> op.to,
                           mtime |-> op.mtime, item |-> Src[op.from]]}
        /\ UNCHANGED <<failures, lost>>
        /\ at' = IF opts.dir # "down" THEN at
                 ELSE [at EXCEPT !["dst"] =
                          With(Without(at["dst"], op.to), Temp(op.to), Partial)]
    BY <1>4 DEF StartCopy, Src
  <2>2. CASE opts.dir # "down"
    BY <1>1, <1>4, <2>1, <2>2 DEF Src, Dst, StateTypes
  <2>3. CASE opts.dir = "down"
    <3> DEFINE w == Without(Dst, op.to)
               f == With(w, Temp(op.to), Partial)
    <3>1. w \in Held /\ DOMAIN w = DOMAIN Dst \ {op.to}
          /\ \A m \in DOMAIN Dst \ {op.to} : w[m] = Dst[m]
      BY SidesHold, WithoutIs
    <3>2. Temp(op.to) \in Names /\ Partial \in Entry
      BY <1>2, Temps DEF Partial, Entry, NoTime
    <3> HIDE DEF w
    <3>3. f \in Held /\ DOMAIN f = DOMAIN w \cup {Temp(op.to)}
          /\ f[Temp(op.to)] = Partial
          /\ \A m \in DOMAIN w \ {Temp(op.to)} : f[m] = w[m]
      BY <3>1, <3>2, WithIs
    <3>4. at' = [at EXCEPT !["dst"] = f]
      BY <2>1, <2>3 DEF w, Dst
    <3> HIDE DEF f
    <3>5. Src' = Src /\ Dst' = f /\ at' \in [Sides -> Held]
      BY <3>3, <3>4, DstBecomes
    <3> QED BY <1>1, <1>4, <2>1, <2>3, <3>1, <3>3, <3>5 DEF Src
  <2> QED BY <2>2, <2>3
<1> QED BY <1>3, <1>4

\* What a copy writes: the data it read, and a time where files have one.
LEMMA CopiedIs ==
  ASSUME NEW c \in Copy
  PROVE  /\ Copied(c) \in Entry /\ Copied(c).data = c.item.data
         /\ opts.dir = "down" => Copied(c).mtime # NoTime
<1> DEFINE m == IF c.mtime # NoTime THEN c.mtime ELSE c.item.mtime
           t == IF opts.dir = "down" /\ m = NoTime THEN c.item.data ELSE m
<1>1. c.item \in [data : Nat \ {0}, mtime : Nat] /\ c.mtime \in Nat
  BY ItemsAssumption DEF Copy
<1>2. Copied(c) = [c.item EXCEPT !.mtime = t]
  BY DEF Copied
<1>3. t \in Nat /\ (opts.dir = "down" => t # NoTime)
  BY <1>1 DEF NoTime
<1> HIDE DEF t
<1>4. Copied(c) = [data |-> c.item.data, mtime |-> t]
  BY <1>1, <1>2
<1> QED BY <1>1, <1>3, <1>4 DEF Entry

\* A copy ends: its target holds what it read, or it has failed.
LEMMA FinishEffect ==
  ASSUME StateTypes, ContentInv, NEW c \in copying, FinishCopy(c)
  PROVE  /\ copying' = copying \ {c} /\ Src' = Src /\ at' \in [Sides -> Held]
         /\ ops' = ops
         /\ \/ /\ opts.dir = "down" => Temp(c.to) \in DOMAIN Dst
               /\ DOMAIN Dst' = (DOMAIN Dst \ (IF opts.dir = "down" THEN {Temp(c.to)}
                                               ELSE {})) \cup {c.to}
               /\ Dst'[c.to] = Copied(c)
               /\ \A n \in DOMAIN Dst' \ {c.to} : Dst'[n] = Dst[n]
               /\ UNCHANGED <<failures, lost, disturbed, bounds>>
            \/ /\ Dst' = Dst /\ failures' = failures + 1 /\ lost' = lost \cup {c.to}
               /\ UNCHANGED streak
               /\ \/ /\ opts.dir = "down" /\ Temp(c.to) \notin DOMAIN Dst
                     /\ UNCHANGED <<disturbed, bounds>>
                  \/ disturbed' = TRUE
<1>1. copying' = copying \ {c} /\ ops' = ops
  BY DEF FinishCopy
<1>2. c \in Copy /\ c.to \in Names /\ ~IsTemp(c.to)
  BY DEF StateTypes, Copy, ContentInv, OpsOK, CopiesOK
<1>3. CASE /\ opts.dir = "down" => Temp(c.to) \in DOMAIN at["dst"]
           /\ at' = [at EXCEPT !["dst"] =
                        With(IF opts.dir = "down" THEN Without(at["dst"], Temp(c.to))
                             ELSE at["dst"], c.to, Copied(c))]
           /\ UNCHANGED <<failures, lost>> /\ Calm
  <2> DEFINE w == IF opts.dir = "down" THEN Without(Dst, Temp(c.to)) ELSE Dst
             e == Copied(c)
             f == With(w, c.to, e)
             taken == IF opts.dir = "down" THEN {Temp(c.to)} ELSE {}
  <2>1. w \in Held /\ DOMAIN w = DOMAIN Dst \ taken
        /\ \A m \in DOMAIN w : w[m] = Dst[m]
    BY SidesHold, WithoutIs
  <2>2. e \in Entry
    BY <1>2, CopiedIs
  <2>3. at' = [at EXCEPT !["dst"] = f]
    BY <1>3 DEF Dst
  <2> HIDE DEF w, e, taken
  <2>4. f \in Held /\ DOMAIN f = DOMAIN w \cup {c.to} /\ f[c.to] = e
        /\ \A m \in DOMAIN w \ {c.to} : f[m] = w[m]
    <3>1. w \in Held
      BY <2>1
    <3>2. c.to \in Names
      BY <1>2
    <3>3. ASSUME NEW n \in Names
          PROVE  /\ With(w, n, e) \in Held /\ DOMAIN With(w, n, e) = DOMAIN w \cup {n}
                 /\ With(w, n, e)[n] = e
                 /\ \A m \in DOMAIN w \ {n} : With(w, n, e)[m] = w[m]
      BY <2>2, <3>1, WithIs
    <3> QED BY <3>2, <3>3, Zenon
  <2> HIDE DEF f
  <2>5. Src' = Src /\ Dst' = f /\ at' \in [Sides -> Held]
    BY <2>3, <2>4, DstBecomes
  <2>6. DOMAIN Dst' = (DOMAIN Dst \ taken) \cup {c.to} /\ Dst'[c.to] = Copied(c)
        /\ \A n \in DOMAIN Dst' \ {c.to} : Dst'[n] = Dst[n]
    BY <2>1, <2>4, <2>5 DEF e
  <2> QED BY <1>1, <1>3, <2>5, <2>6 DEF Calm, taken, Dst
<1>4. CASE /\ opts.dir = "down" /\ Temp(c.to) \notin DOMAIN at["dst"]
           /\ Failed(c) /\ UNCHANGED at /\ Calm
  BY <1>1, <1>4 DEF Failed, Calm, Src, Dst, StateTypes, bounds
<1>5. CASE Failed(c) /\ Fault /\ UNCHANGED at
  BY <1>1, <1>5 DEF Failed, Fault, Src, Dst, StateTypes
<1> QED BY <1>3, <1>4, <1>5, Zenon DEF FinishCopy

-----------------------------------------------------------------------------
(* Types and contents.                                                     *)

\* Which names a side's lines hold, once it has been listed.
LEMMA ListedLines ==
  ASSUME StateTypes, ContentInv, NEW side \in Sides, List(side)
  PROVE  /\ lines' \in [Sides -> Seq(Line)] /\ listing' = listing \ {side}
         /\ lines'[side] = Listing(side)
         /\ \A other \in Sides \ {side} : lines'[other] = lines[other]
         /\ \A s \in Sides : Sorted(lines'[s])
         /\ \A l \in Range(lines'[side]) :
                l.name \in DOMAIN at[side] /\ l.item = at[side][l.name]
         /\ NamesOf(side)' = DOMAIN at[side]
<1>1. at \in [Sides -> Held] /\ lines \in [Sides -> Seq(Line)]
  BY DEF StateTypes
<1>2. /\ Listing(side) \in Seq(Line) /\ Sorted(Listing(side))
      /\ \A n : (\E l \in Range(Listing(side)) : l.name = n) <=> n \in DOMAIN at[side]
      /\ \A l \in Range(Listing(side)) : l.item = at[side][l.name]
  BY <1>1, ListingIs
<1>3. lines' = [lines EXCEPT ![side] = Listing(side)] /\ listing' = listing \ {side}
  BY DEF List
<1>4. /\ lines' \in [Sides -> Seq(Line)] /\ lines'[side] = Listing(side)
      /\ \A other \in Sides \ {side} : lines'[other] = lines[other]
  BY <1>1, <1>2, <1>3
<1>5. \A s \in Sides : Sorted(lines'[s])
  BY <1>2, <1>4 DEF ContentInv, LinesOK
<1>6. NamesOf(side)' = DOMAIN at[side]
  BY <1>2, <1>4 DEF NamesOf
<1> QED BY <1>2, <1>3, <1>4, <1>5, <1>6

\* A file that is cut short holds some of them.
LEMMA LostLines ==
  ASSUME StateTypes, ContentInv, NEW side \in Sides, ListIsLost(side)
  PROVE  /\ lines' \in [Sides -> Seq(Line)] /\ listing' = listing \ {side}
         /\ \A other \in Sides \ {side} : lines'[other] = lines[other]
         /\ \A s \in Sides : Sorted(lines'[s])
         /\ \A l \in Range(lines'[side]) :
                l.name \in DOMAIN at[side] /\ l.item = at[side][l.name]
<1>1. at \in [Sides -> Held] /\ lines \in [Sides -> Seq(Line)]
  BY DEF StateTypes
<1>2. /\ Listing(side) \in Seq(Line) /\ Sorted(Listing(side))
      /\ \A n : (\E l \in Range(Listing(side)) : l.name = n) <=> n \in DOMAIN at[side]
      /\ \A l \in Range(Listing(side)) : l.item = at[side][l.name]
  BY <1>1, ListingIs
<1>3. PICK n \in 0..Len(Listing(side)) - 1 :
          lines' = [lines EXCEPT ![side] = SubSeq(Listing(side), 1, n)]
  BY DEF ListIsLost
<1> DEFINE s == SubSeq(Listing(side), 1, n)
<1>4. s \in Seq(Line) /\ Sorted(s) /\ Range(s) \subseteq Range(Listing(side))
  BY <1>2, PartOfListing
<1>5. lines' = [lines EXCEPT ![side] = s]
  BY <1>3
<1> HIDE DEF s
<1>6. /\ lines' \in [Sides -> Seq(Line)] /\ lines'[side] = s
      /\ \A other \in Sides \ {side} : lines'[other] = lines[other]
  BY <1>1, <1>4, <1>5
<1>7. \A t \in Sides : Sorted(lines'[t])
  BY <1>4, <1>6 DEF ContentInv, LinesOK
<1>8. listing' = listing \ {side}
  BY DEF ListIsLost
<1> QED BY <1>2, <1>4, <1>6, <1>7, <1>8

\* The listings a run begins with.
LEMMA EmptyLines ==
  [side \in Sides |-> <<>>] \in [Sides -> Seq(Line)] /\ Sorted(<<>>)
<1>1. <<>> \in Seq(Line)
  BY EmptySeq
<1> QED BY <1>1 DEF Sorted

\* The steps before and after the work.
LEMMA TypesRun ==
  ASSUME StateTypes, ContentInv,
         Begin \/ Listed \/ DiffAborts \/ DiffEnds \/ Finish \/ Crash \/ UNCHANGED vars
  PROVE  StateTypes' /\ ContentInv'
<1>1. LinesOK /\ OpsOK /\ CopiesOK /\ AtOK /\ PhaseOK
  BY DEF ContentInv
<1>2. AtOK'
  BY <1>1 DEF AtOK, Src, Dst, Fits, Begin, Listed, Checked, DiffAborts, DiffEnds, Finish, Crash, vars
<1>3. lines' = lines \/ lines' = [side \in Sides |-> <<>>]
  BY DEF Begin, Listed, Checked, DiffAborts, DiffEnds, Finish, Crash, vars, work
<1>4. lines' \in [Sides -> Seq(Line)]
  BY <1>3, EmptyLines DEF StateTypes
<1>5. opts' = opts
  BY DEF Begin, Listed, Checked, DiffAborts, DiffEnds, Finish, Crash, vars
<1>6. LinesOK'
  <2>1. CASE lines' = lines
    BY <1>1, <1>5, <2>1 DEF LinesOK, Fits
  <2>2. CASE lines' = [side \in Sides |-> <<>>]
    BY <2>2, EmptyLines, NoneInEmpty DEF LinesOK, Sides
  <2> QED BY <1>3, <2>1, <2>2
<1>7. ops' \subseteq ops /\ copying' \subseteq copying
  BY DEF Begin, Listed, Checked, DiffAborts, DiffEnds, Finish, Crash, vars, work
<1>8. OpsOK' /\ CopiesOK'
  BY <1>1, <1>5, <1>7 DEF OpsOK, CopiesOK
<1>9. PhaseOK'
  BY <1>1 DEF PhaseOK, Begin, Listed, Checked, DiffAborts, DiffEnds, Finish, Crash, vars, work, Diffing
<1>10. StateTypes'
  <2>1. at' = at /\ opts' = opts
    BY DEF Begin, Listed, Checked, DiffAborts, DiffEnds, Finish, Crash, vars
  <2>2. ops' \subseteq Op /\ copying' \subseteq Copy
    BY <1>7 DEF StateTypes
  <2>3. listing' \subseteq Sides /\ phase' \in {"idle", "listing", "diff", "drain"}
          /\ exit' \in {"none", "ok", "failed"}
    BY DEF StateTypes, Begin, Listed, Checked, DiffAborts, DiffEnds, Finish, Crash, vars, work
  <2>4. failures' \in Nat /\ streak' \in Nat
    BY DEF StateTypes, Begin, Listed, Checked, DiffAborts, DiffEnds, Finish, Crash, vars, work, history, bounds
  <2>5. abandon' \in BOOLEAN /\ aborted' \in BOOLEAN
    BY DEF StateTypes, Begin, Listed, Checked, DiffAborts, DiffEnds, Finish, Crash, vars, work
  <2>6. unlisted' \in BOOLEAN /\ disturbed' \in BOOLEAN /\ settled' \in BOOLEAN
    BY DEF StateTypes, Begin, Listed, Checked, DiffAborts, DiffEnds, Finish, Crash, vars, work, history
  <2> QED BY <1>4, <2>1, <2>2, <2>3, <2>4, <2>5, <2>6 DEF StateTypes
<1> QED BY <1>2, <1>6, <1>8, <1>9, <1>10 DEF ContentInv

\* What lines of a listing hold is what the side holds.
LEMMA ListedFit ==
  ASSUME ContentInv, NEW side \in Sides, NEW s, opts' = opts,
         \A l \in Range(s) : l.name \in DOMAIN at[side] /\ l.item = at[side][l.name]
  PROVE  /\ side = "src" => \A l \in Range(s) : ~IsTemp(l.name) /\ l.item \in Items
         /\ side = "dst" => \A l \in Range(s) : Fits(l.name, l.item)'
BY DEF ContentInv, AtOK, Src, Dst, Fits

\* A listing, complete or cut short, is sorted and holds what the side holds.
LEMMA TypesList ==
  ASSUME StateTypes, ContentInv, NEW side \in Sides,
         List(side) \/ ListFails(side) \/ ListIsLost(side)
  PROVE  StateTypes' /\ ContentInv'
<1>1. /\ at' = at /\ opts' = opts /\ phase' = phase /\ listing' = listing \ {side}
      /\ ops' = ops /\ copying' = copying /\ aborted' = aborted /\ exit' = exit
      /\ settled' = settled /\ streak' = streak
  BY DEF List, ListFails, ListIsLost, Fault, history, bounds
<1>2. failures' \in Nat /\ abandon' \in BOOLEAN /\ unlisted' \in BOOLEAN
        /\ disturbed' \in BOOLEAN
  <2>1. failures' = failures \/ failures' = failures + 1
    BY DEF List, ListFails, ListIsLost
  <2>2. failures' \in Nat
    BY <2>1 DEF StateTypes
  <2>3. abandon' \in {abandon, TRUE} /\ unlisted' \in {unlisted, TRUE}
          /\ disturbed' \in {disturbed, TRUE}
    BY DEF List, ListFails, ListIsLost, Fault, history
  <2> QED BY <2>2, <2>3 DEF StateTypes
<1>3. \/ lines' = lines
      \/ /\ lines' \in [Sides -> Seq(Line)]
         /\ \A s \in Sides : Sorted(lines'[s])
         /\ \A other \in Sides \ {side} : lines'[other] = lines[other]
         /\ \A l \in Range(lines'[side]) :
                l.name \in DOMAIN at[side] /\ l.item = at[side][l.name]
  <2>1. CASE List(side) BY <2>1, ListedLines
  <2>2. CASE ListFails(side) BY <2>2 DEF ListFails
  <2>3. CASE ListIsLost(side) BY <2>3, LostLines
  <2> QED BY <2>1, <2>2, <2>3
<1>4. lines' \in [Sides -> Seq(Line)]
  BY <1>3 DEF StateTypes
<1>5. LinesOK'
  <2>1. CASE lines' = lines
    BY <1>1, <2>1 DEF ContentInv, LinesOK, Fits
  <2>2. CASE /\ \A s \in Sides : Sorted(lines'[s])
             /\ \A other \in Sides \ {side} : lines'[other] = lines[other]
             /\ \A l \in Range(lines'[side]) :
                    l.name \in DOMAIN at[side] /\ l.item = at[side][l.name]
    <3>1. side = "src" => \A l \in Range(lines'["src"]) : ~IsTemp(l.name) /\ l.item \in Items
      BY <1>1, <2>2, ListedFit
    <3>2. side = "dst" => \A l \in Range(lines'["dst"]) : Fits(l.name, l.item)'
      BY <1>1, <2>2, ListedFit
    <3>3. side # "src" => lines'["src"] = lines["src"]
      BY <2>2 DEF Sides
    <3>4. side # "dst" => lines'["dst"] = lines["dst"]
      BY <2>2 DEF Sides
    <3>5. \A l \in Range(lines'["src"]) : ~IsTemp(l.name) /\ l.item \in Items
      BY <3>1, <3>3 DEF ContentInv, LinesOK
    <3>6. \A l \in Range(lines'["dst"]) : Fits(l.name, l.item)'
      BY <1>1, <3>2, <3>4 DEF ContentInv, LinesOK, Fits
    <3> QED BY <2>2, <3>5, <3>6 DEF LinesOK
  <2> QED BY <1>3, <2>1, <2>2
<1>6. AtOK' /\ OpsOK' /\ CopiesOK' /\ PhaseOK'
  BY <1>1 DEF ContentInv, AtOK, OpsOK, CopiesOK, PhaseOK, Src, Dst, Fits
<1> QED BY <1>1, <1>2, <1>4, <1>5, <1>6 DEF StateTypes, ContentInv

\* The merge drops lines, and yields operations on their names.
LEMMA TypesDiff ==
  ASSUME NoBackslash, StateTypes, ContentInv, DiffCopy \/ DiffExtra \/ DiffBoth
  PROVE  StateTypes' /\ ContentInv'
<1>1. /\ at' = at /\ opts' = opts /\ phase' = phase /\ listing' = listing
      /\ copying' = copying /\ aborted' = aborted /\ exit' = exit /\ abandon' = abandon
      /\ unlisted' = unlisted /\ disturbed' = disturbed /\ failures' = failures
      /\ settled' = settled /\ streak' = streak /\ phase = "diff"
  BY DEF DiffCopy, DiffExtra, DiffBoth, DiffUnchanged, Diffing, bounds
<1>2. /\ lines' \in [Sides -> Seq(Line)]
      /\ Sorted(lines'["src"]) /\ Sorted(lines'["dst"])
      /\ Range(lines'["src"]) \subseteq Range(lines["src"])
      /\ Range(lines'["dst"]) \subseteq Range(lines["dst"])
      /\ \/ ops' = ops
         \/ \E op \in Op : /\ ops' = ops \cup {op}
                           /\ op.act # "REMOVE" => ~IsTemp(op.to) /\ op.from = op.to
                           /\ op.act = "MTIME" => op.mtime # NoTime /\ opts.dir # "down"
                           /\ op.act = "REMOVE" => opts.d
  <2>0. ASSUME NEW l \in Line
        PROVE  l.name \in Names /\ l.item \in Entry /\ l.item.mtime \in Nat
    BY DEF Line, Entry
  <2>1. CASE DiffCopy
    <3>1. PICK l \in Line :
            /\ l \in Range(lines["src"])
            /\ Range(lines["src"]) = {l} \cup Range(lines'["src"])
            /\ lines'["dst"] = lines["dst"]
            /\ lines' \in [Sides -> Seq(Line)]
            /\ Sorted(lines'["src"]) /\ Sorted(lines'["dst"])
            /\ ops' = ops \cup {[act |-> "COPY", from |-> l.name, to |-> l.name,
                                 mtime |-> l.item.mtime]}
      BY <2>1, CopyEffect
    <3>2. ~IsTemp(l.name)
      BY <3>1 DEF ContentInv, LinesOK
    <3> DEFINE op == [act |-> "COPY", from |-> l.name, to |-> l.name, mtime |-> l.item.mtime]
    <3>3. op \in Op /\ op.act = "COPY" /\ op.to = l.name /\ op.from = l.name
      BY <2>0 DEF Op
    <3>4. ops' = ops \cup {op}
      BY <3>1
    <3> HIDE DEF op
    <3> QED BY <3>1, <3>2, <3>3, <3>4
  <2>2. CASE DiffExtra
    <3>1. PICK l \in Line :
            /\ l \in Range(lines["dst"])
            /\ Range(lines["dst"]) = {l} \cup Range(lines'["dst"])
            /\ lines'["src"] = lines["src"]
            /\ lines' \in [Sides -> Seq(Line)]
            /\ Sorted(lines'["src"]) /\ Sorted(lines'["dst"])
            /\ \/ /\ opts.d
                  /\ ops' = ops \cup {[act |-> "REMOVE", from |-> <<>>, to |-> l.name,
                                       mtime |-> NoTime]}
               \/ ~opts.d /\ UNCHANGED <<ops, issued>>
      BY <2>2, ExtraEffect
    <3> DEFINE op == [act |-> "REMOVE", from |-> <<>>, to |-> l.name, mtime |-> NoTime]
    <3>3. op \in Op /\ op.act = "REMOVE"
      BY <2>0 DEF Op, NoTime
    <3>4. ops' = ops \/ (opts.d /\ ops' = ops \cup {op})
      BY <3>1
    <3> HIDE DEF op
    <3> QED BY <3>1, <3>3, <3>4
  <2>3. CASE DiffBoth
    <3>1. PICK s \in Line, d \in Line :
            /\ s \in Range(lines["src"]) /\ d \in Range(lines["dst"]) /\ s.name = d.name
            /\ Range(lines["src"]) = {s} \cup Range(lines'["src"])
            /\ Range(lines["dst"]) = {d} \cup Range(lines'["dst"])
            /\ lines' \in [Sides -> Seq(Line)]
            /\ Sorted(lines'["src"]) /\ Sorted(lines'["dst"])
            /\ \/ ops' = ops \cup {[act |-> "COPY", from |-> s.name, to |-> s.name,
                                    mtime |-> s.item.mtime]}
               \/ /\ TimeOf(s.item) # NoTime /\ d.item.mtime = NoTime
                  /\ ops' = ops \cup {[act |-> "MTIME", from |-> s.name, to |-> s.name,
                                       mtime |-> s.item.mtime]}
               \/ UNCHANGED <<ops, issued>>
      BY <2>3, BothEffect
    <3>2. ~IsTemp(s.name)
      BY <3>1 DEF ContentInv, LinesOK
    <3>3. d.item.mtime = NoTime => opts.dir # "down"
      BY <3>1, <3>2 DEF ContentInv, LinesOK, Fits
    <3> DEFINE c == [act |-> "COPY", from |-> s.name, to |-> s.name, mtime |-> s.item.mtime]
               m == [act |-> "MTIME", from |-> s.name, to |-> s.name, mtime |-> s.item.mtime]
    <3>4. /\ c \in Op /\ c.act = "COPY" /\ c.to = s.name /\ c.from = s.name
          /\ m \in Op /\ m.act = "MTIME" /\ m.to = s.name /\ m.from = s.name
          /\ m.mtime = s.item.mtime
      BY <2>0 DEF Op
    <3>5. \/ ops' = ops \cup {c}
          \/ TimeOf(s.item) # NoTime /\ d.item.mtime = NoTime /\ ops' = ops \cup {m}
          \/ ops' = ops
      BY <3>1
    <3>6. opts.dir # "down" => TimeOf(s.item) = s.item.mtime
      BY DEF TimeOf
    <3> HIDE DEF c, m
    <3>7. CASE ops' = ops \cup {c} BY <3>1, <3>2, <3>4, <3>7
    <3>8. CASE TimeOf(s.item) # NoTime /\ d.item.mtime = NoTime /\ ops' = ops \cup {m}
      BY <3>1, <3>2, <3>3, <3>4, <3>6, <3>8
    <3>9. CASE ops' = ops BY <3>1, <3>9
    <3> QED BY <3>5, <3>7, <3>8, <3>9
  <2> QED BY <2>1, <2>2, <2>3
<1>3. LinesOK'
  BY <1>1, <1>2 DEF ContentInv, LinesOK, Fits, Sides
<1>4. OpsOK' /\ ops' \subseteq Op
  BY <1>1, <1>2 DEF ContentInv, OpsOK, StateTypes
<1>5. AtOK' /\ CopiesOK' /\ PhaseOK'
  BY <1>1 DEF ContentInv, AtOK, CopiesOK, PhaseOK, Src, Dst, Fits
<1> QED BY <1>1, <1>2, <1>3, <1>4, <1>5 DEF StateTypes, ContentInv

\* A step of the work leaves the run where it is.
LEMMA TypesFrom ==
  ASSUME StateTypes, ContentInv, ops # {} \/ copying # {},
         UNCHANGED <<opts, phase, listing, lines, abandon, aborted, exit, unlisted, settled>>,
         at' \in [Sides -> Held], AtOK', ops' \subseteq Op, OpsOK',
         copying' \subseteq Copy, CopiesOK',
         failures' = failures \/ failures' = failures + 1,
         disturbed' \in {disturbed, TRUE}, streak' = streak
  PROVE  StateTypes' /\ ContentInv'
<1>1. phase \notin {"idle", "listing"} /\ listing = {}
  BY DEF ContentInv, PhaseOK, StateTypes
<1>2. LinesOK' /\ PhaseOK'
  BY <1>1 DEF ContentInv, LinesOK, PhaseOK, Fits
<1>3. failures' \in Nat
  BY DEF StateTypes
<1>4. disturbed' \in BOOLEAN
  BY DEF StateTypes
<1> QED BY <1>2, <1>3, <1>4 DEF StateTypes, ContentInv

\* A removal takes a name away.
LEMMA TypesRemove ==
  ASSUME StateTypes, ContentInv, NEW op \in ops, RemoveExtra(op)
  PROVE  StateTypes' /\ ContentInv'
<1>1. /\ UNCHANGED <<opts, phase, listing, lines, abandon, aborted, exit, unlisted, settled>>
      /\ copying' = copying
  BY DEF RemoveExtra, WorkUnchanged
<1>2. /\ ops' = ops \ {op} /\ Src' = Src /\ at' \in [Sides -> Held]
      /\ \/ /\ DOMAIN Dst' = DOMAIN Dst \ {op.to}
            /\ \A n \in DOMAIN Dst' : Dst'[n] = Dst[n]
            /\ UNCHANGED <<failures, disturbed, bounds>>
         \/ Dst' = Dst /\ failures' = failures + 1 /\ disturbed' = TRUE /\ UNCHANGED streak
  BY RemoveEffect
<1>3. AtOK'
  BY <1>1, <1>2 DEF ContentInv, AtOK, Fits
<1>4. OpsOK' /\ ops' \subseteq Op /\ CopiesOK' /\ copying' \subseteq Copy
  BY <1>1, <1>2 DEF ContentInv, OpsOK, CopiesOK, StateTypes
<1>5. failures' \in {failures, failures + 1} /\ streak' = streak
  BY <1>2 DEF bounds
<1>6. disturbed' \in {disturbed, TRUE}
  BY <1>2
<1> QED BY <1>1, <1>2, <1>3, <1>4, <1>5, <1>6, TypesFrom

\* A patch of the mtime changes an object under a name that is not temporary.
LEMMA TypesMtime ==
  ASSUME StateTypes, ContentInv, NEW op \in ops, SetMtime(op)
  PROVE  StateTypes' /\ ContentInv'
<1>1. /\ UNCHANGED <<opts, phase, listing, lines, abandon, aborted, exit, unlisted, settled>>
      /\ copying' = copying /\ failures' = failures
  BY DEF SetMtime, WorkUnchanged
<1>2. /\ op.act = "MTIME" /\ Src' = Src /\ at' \in [Sides -> Held]
      /\ \/ /\ op.to \in DOMAIN Dst /\ DOMAIN Dst' = DOMAIN Dst
            /\ Dst'[op.to] = [data |-> Dst[op.to].data, mtime |-> op.mtime]
            /\ \A n \in DOMAIN Dst \ {op.to} : Dst'[n] = Dst[n]
            /\ ops' = ops \ {op} /\ UNCHANGED <<disturbed, bounds>>
         \/ /\ Dst' = Dst /\ disturbed' = TRUE /\ UNCHANGED streak
            /\ ops' = (ops \ {op}) \cup {[act |-> "COPY", from |-> op.from,
                                          to |-> op.to, mtime |-> op.mtime]}
  BY MtimeEffect
<1>3. /\ op \in Op /\ op.from \in Names \cup {<<>>} /\ op.to \in Names /\ op.mtime \in Nat
      /\ ~IsTemp(op.to) /\ op.from = op.to /\ op.mtime # NoTime /\ opts.dir # "down"
  BY <1>2 DEF StateTypes, Op, ContentInv, OpsOK
<1>4. \A n \in DOMAIN Dst : Fits(n, Dst[n])
  BY DEF ContentInv, AtOK
<1>5. \A n \in DOMAIN Dst' : Fits(n, Dst'[n])
  <2>1. CASE op.to \in DOMAIN Dst /\ DOMAIN Dst' = DOMAIN Dst
             /\ Dst'[op.to] = [data |-> Dst[op.to].data, mtime |-> op.mtime]
             /\ \A n \in DOMAIN Dst \ {op.to} : Dst'[n] = Dst[n]
    <3>1. Dst'[op.to].data = Dst[op.to].data /\ Dst'[op.to].mtime = op.mtime
      BY <2>1
    <3>2. Fits(op.to, Dst'[op.to])
      BY <1>3, <1>4, <2>1, <3>1 DEF Fits
    <3> QED BY <1>4, <2>1, <3>2
  <2>2. CASE Dst' = Dst BY <1>4, <2>2
  <2> QED BY <1>2, <2>1, <2>2
<1>6. AtOK'
  BY <1>1, <1>2, <1>5 DEF ContentInv, AtOK, Fits
<1> DEFINE c == [act |-> "COPY", from |-> op.from, to |-> op.to, mtime |-> op.mtime]
<1>7. c \in Op /\ c.act = "COPY" /\ c.to = op.to /\ c.from = op.from
  BY <1>3 DEF Op
<1>8. ops' = ops \ {op} \/ ops' = (ops \ {op}) \cup {c}
  BY <1>2
<1> HIDE DEF c
<1>9. OpsOK' /\ ops' \subseteq Op /\ CopiesOK' /\ copying' \subseteq Copy
  BY <1>1, <1>3, <1>7, <1>8 DEF ContentInv, OpsOK, CopiesOK, StateTypes
<1>10. disturbed' \in {disturbed, TRUE} /\ streak' = streak
  BY <1>2 DEF bounds
<1> QED BY <1>1, <1>2, <1>6, <1>9, <1>10, TypesFrom

\* A copy begins with the temporary file, if it is a download.
LEMMA TypesStart ==
  ASSUME StateTypes, ContentInv, NEW op \in ops, StartCopy(op)
  PROVE  StateTypes' /\ ContentInv'
<1>1. UNCHANGED <<opts, phase, listing, lines, abandon, aborted, exit, unlisted, settled>>
  BY DEF StartCopy, WorkUnchanged
<1>2. /\ op.act = "COPY" /\ ops' = ops \ {op} /\ Src' = Src
      /\ at' \in [Sides -> Held] /\ UNCHANGED <<disturbed, bounds>>
      /\ \/ /\ op.from \notin DOMAIN Src /\ Dst' = Dst /\ copying' = copying
            /\ failures' = failures + 1
         \/ /\ op.from \in DOMAIN Src
            /\ copying' = copying \cup {[from |-> op.from, to |-> op.to,
                               mtime |-> op.mtime, item |-> Src[op.from]]}
            /\ failures' = failures
            /\ \/ opts.dir # "down" /\ Dst' = Dst
               \/ /\ opts.dir = "down"
                  /\ DOMAIN Dst' = (DOMAIN Dst \ {op.to}) \cup {Temp(op.to)}
                  /\ Dst'[Temp(op.to)] = Partial
                  /\ \A n \in DOMAIN Dst \ {op.to, Temp(op.to)} : Dst'[n] = Dst[n]
  BY StartEffect
<1>3. /\ op.to \in Names /\ op.mtime \in Nat /\ ~IsTemp(op.to) /\ op.from = op.to
  BY <1>2 DEF StateTypes, Op, ContentInv, OpsOK
<1>4. \A n \in DOMAIN Dst : Fits(n, Dst[n])
  BY DEF ContentInv, AtOK
<1>5. \A n \in DOMAIN Dst' : Fits(n, Dst'[n])
  <2>1. Fits(Temp(op.to), Partial)
    BY <1>3, Temps DEF Fits
  <2> QED BY <1>2, <1>4, <2>1
<1>6. AtOK'
  BY <1>1, <1>2, <1>5 DEF ContentInv, AtOK, Fits
<1>7. OpsOK' /\ ops' \subseteq Op
  BY <1>1, <1>2 DEF ContentInv, OpsOK, StateTypes
<1>8. CopiesOK' /\ copying' \subseteq Copy
  <2>1. CASE copying' = copying
    BY <2>1 DEF ContentInv, CopiesOK, StateTypes
  <2>2. CASE op.from \in DOMAIN Src /\ copying' = copying \cup {[from |-> op.from,
                 to |-> op.to, mtime |-> op.mtime, item |-> Src[op.from]]}
    <3>1. Src[op.from] \in Items
      BY <2>2 DEF ContentInv, AtOK
    <3> QED BY <1>3, <2>2, <3>1 DEF ContentInv, CopiesOK, StateTypes, Copy
  <2> QED BY <1>2, <2>1, <2>2
<1>9. failures' \in {failures, failures + 1} /\ streak' = streak
  BY <1>2 DEF bounds
<1>10. disturbed' \in {disturbed, TRUE}
  BY <1>2
<1> QED BY <1>1, <1>2, <1>6, <1>7, <1>8, <1>9, <1>10, TypesFrom

\* A copy ends with what it read, under its name.
LEMMA TypesFinish ==
  ASSUME StateTypes, ContentInv, NEW c \in copying, FinishCopy(c)
  PROVE  StateTypes' /\ ContentInv'
<1>1. UNCHANGED <<opts, phase, listing, lines, abandon, aborted, exit, unlisted, settled>>
  BY DEF FinishCopy, WorkUnchanged
<1>2. /\ copying' = copying \ {c} /\ Src' = Src /\ at' \in [Sides -> Held] /\ ops' = ops
      /\ \/ /\ DOMAIN Dst' = (DOMAIN Dst \ (IF opts.dir = "down" THEN {Temp(c.to)}
                                            ELSE {})) \cup {c.to}
            /\ Dst'[c.to] = Copied(c)
            /\ \A n \in DOMAIN Dst' \ {c.to} : Dst'[n] = Dst[n]
            /\ UNCHANGED <<failures, disturbed, bounds>>
         \/ /\ Dst' = Dst /\ failures' = failures + 1 /\ UNCHANGED streak
            /\ disturbed' \in {disturbed, TRUE}
  BY FinishEffect
<1>3. c \in Copy /\ c.to \in Names /\ c.item \in Items /\ ~IsTemp(c.to)
  BY DEF StateTypes, Copy, ContentInv, CopiesOK
<1>4. \A n \in DOMAIN Dst : Fits(n, Dst[n])
  BY DEF ContentInv, AtOK
<1>5. Copied(c).data = c.item.data /\ (opts.dir = "down" => Copied(c).mtime # NoTime)
  BY <1>3, CopiedIs
<1>6. Fits(c.to, Copied(c))
  BY <1>3, <1>5 DEF Fits
<1>7. \A n \in DOMAIN Dst' : Fits(n, Dst'[n])
  BY <1>2, <1>4, <1>6
<1>8. AtOK'
  BY <1>1, <1>2, <1>7 DEF ContentInv, AtOK, Fits
<1>9. OpsOK' /\ ops' \subseteq Op /\ CopiesOK' /\ copying' \subseteq Copy
  BY <1>1, <1>2 DEF ContentInv, OpsOK, CopiesOK, StateTypes
<1>10. failures' \in {failures, failures + 1} /\ streak' = streak
  BY <1>2 DEF bounds
<1>11. disturbed' \in {disturbed, TRUE}
  BY <1>2
<1> QED BY <1>1, <1>2, <1>8, <1>9, <1>10, <1>11, TypesFrom

\* Somebody writes or deletes a source.
LEMMA ChangeEffect ==
  ASSUME StateTypes, ContentInv, Change
  PROVE  /\ at' \in [Sides -> Held] /\ Dst' = Dst /\ AtOK' /\ disturbed' = TRUE
         /\ \/ stable' = stable /\ DOMAIN Src \subseteq DOMAIN Src'
            \/ \E n \in Names : stable' = stable \ {n} /\ DOMAIN Src' = DOMAIN Src \ {n}
         /\ UNCHANGED <<opts, phase, work, exit, issued, before, lost, unlisted,
                        settled, runs, faults, streak>>
<1>1. disturbed' = TRUE /\ UNCHANGED <<opts, phase, work, exit, issued, before, lost,
                                       unlisted, settled, runs, faults, streak>>
  BY DEF Change
<1>2. PICK n \in Names : ~IsTemp(n) /\
           \/ \E item \in Items :
                  /\ at' = [at EXCEPT !["src"] = With(at["src"], n, item)]
                  /\ UNCHANGED stable
           \/ /\ at' = [at EXCEPT !["src"] = Without(at["src"], n)]
              /\ stable' = stable \ {n}
  BY DEF Change
<1>3. ASSUME NEW f \in Held, at' = [at EXCEPT !["src"] = f],
             \A m \in DOMAIN f : ~IsTemp(m) /\ f[m] \in Items
      PROVE  at' \in [Sides -> Held] /\ Src' = f /\ Dst' = Dst /\ AtOK'
  BY <1>1, <1>3 DEF StateTypes, Src, Dst, Sides, ContentInv, AtOK, Fits
<1>4. Src \in Held /\ \A m \in DOMAIN Src : ~IsTemp(m) /\ Src[m] \in Items
  BY SidesHold DEF ContentInv, AtOK
<1>5. CASE \E item \in Items : /\ at' = [at EXCEPT !["src"] = With(at["src"], n, item)]
                               /\ UNCHANGED stable
  <2>1. PICK item \in Items : at' = [at EXCEPT !["src"] = With(at["src"], n, item)]
    BY <1>5
  <2> DEFINE f == With(Src, n, item)
  <2>2. item \in Entry
    BY ItemsAssumption DEF Entry
  <2>3. /\ f \in Held /\ DOMAIN f = DOMAIN Src \cup {n} /\ f[n] = item
        /\ \A m \in DOMAIN Src \ {n} : f[m] = Src[m]
    <3>1. Src \in Held /\ n \in Names /\ item \in Entry
      BY <1>2, <1>4, <2>2
    <3>2. ASSUME NEW g \in Held
          PROVE  /\ With(g, n, item) \in Held /\ DOMAIN With(g, n, item) = DOMAIN g \cup {n}
                 /\ With(g, n, item)[n] = item
                 /\ \A m \in DOMAIN g \ {n} : With(g, n, item)[m] = g[m]
      BY <3>1, WithIs
    <3> QED BY <3>1, <3>2, Zenon
  <2>4. at' = [at EXCEPT !["src"] = f]
    BY <2>1 DEF Src
  <2> HIDE DEF f
  <2>5. \A m \in DOMAIN f : ~IsTemp(m) /\ f[m] \in Items
    BY <1>2, <1>4, <2>3
  <2> QED BY <1>1, <1>3, <1>5, <2>3, <2>4, <2>5
<1>6. CASE /\ at' = [at EXCEPT !["src"] = Without(at["src"], n)] /\ stable' = stable \ {n}
  <2> DEFINE f == Without(Src, n)
  <2>1. /\ f \in Held /\ DOMAIN f = DOMAIN Src \ {n}
        /\ \A m \in DOMAIN Src \ {n} : f[m] = Src[m]
    BY <1>4, WithoutIs
  <2>2. at' = [at EXCEPT !["src"] = f]
    BY <1>6 DEF Src
  <2> HIDE DEF f
  <2>3. \A m \in DOMAIN f : ~IsTemp(m) /\ f[m] \in Items
    BY <1>4, <2>1
  <2> QED BY <1>1, <1>3, <1>6, <2>1, <2>2, <2>3
<1> QED BY <1>2, <1>5, <1>6

\* Others write items, under names that are not temporary.
LEMMA TypesChange ==
  ASSUME StateTypes, ContentInv, Change
  PROVE  StateTypes' /\ ContentInv'
<1>1. /\ at' \in [Sides -> Held] /\ AtOK' /\ disturbed' = TRUE
      /\ UNCHANGED <<opts, phase, work, exit, unlisted, settled, streak>>
  BY ChangeEffect
<1>2. LinesOK' /\ OpsOK' /\ CopiesOK' /\ PhaseOK'
  BY <1>1 DEF ContentInv, LinesOK, OpsOK, CopiesOK, PhaseOK, Fits, work
<1> QED BY <1>1, <1>2 DEF StateTypes, ContentInv, work

\* Every step keeps the types and the contents.
LEMMA RsTypesNext ==
  ASSUME NoBackslash, StateTypes, ContentInv, [Next]_vars
  PROVE  StateTypes' /\ ContentInv'
BY TypesRun, TypesList, TypesDiff, TypesRemove, TypesMtime, TypesStart, TypesFinish,
   TypesChange DEF Next

-----------------------------------------------------------------------------
(* One operation for each name, and what it may remove.                    *)

\* Where there are operations or copies, both sides have been listed.
LEMMA Working ==
  ASSUME StateTypes, ContentInv
  PROVE  /\ ops # {} \/ copying # {} => phase \in {"diff", "drain"}
         /\ \A side \in listing : phase = "listing" /\ ops = {} /\ copying = {}
BY DEF StateTypes, ContentInv, PhaseOK

\* What a step of the merge does to the names: it takes one that no side has
\* any more, and yields at most one operation, for that name.
LEMMA MergeTakes ==
  ASSUME NoBackslash, StateTypes, ContentInv, DiffCopy \/ DiffExtra \/ DiffBoth
  PROVE  \E n \in Names :
            /\ n \in NamesOf("src") \/ n \in NamesOf("dst")
            /\ NamesOf("src")' = NamesOf("src") \ {n}
            /\ NamesOf("dst")' = NamesOf("dst") \ {n}
            /\ \/ ops' = ops
               \/ \E op : /\ ops' = ops \cup {op} /\ op.to = n
                          /\ op.act = "REMOVE" =>
                                n \in NamesOf("dst") /\ n \notin NamesOf("src")
            /\ copying' = copying /\ phase = "diff" /\ phase' = "diff"
            /\ UNCHANGED <<at, stable, unlisted, abandon, before, lost, opts, listing, disturbed>>
<1>0. /\ copying' = copying /\ phase = "diff" /\ phase' = "diff"
      /\ UNCHANGED <<at, stable, unlisted, abandon, before, lost, opts, listing, disturbed>>
  BY DEF DiffCopy, DiffExtra, DiffBoth, DiffUnchanged, Diffing
<1>1. ASSUME NEW l \in Line PROVE l.name \in Names
  BY DEF Line
<1>2. CASE DiffCopy
  <2>1. PICK l \in Line :
            /\ Range(lines["src"]) = {l} \cup Range(lines'["src"])
            /\ lines'["dst"] = lines["dst"]
            /\ \A k \in Range(lines'["src"]) \cup Range(lines["dst"]) : k.name # l.name
            /\ ops' = ops \cup {[act |-> "COPY", from |-> l.name, to |-> l.name,
                                 mtime |-> l.item.mtime]}
    BY <1>2, CopyEffect
  <2>2. /\ NamesOf("src")' = NamesOf("src") \ {l.name}
        /\ NamesOf("dst")' = NamesOf("dst") \ {l.name} /\ l.name \in NamesOf("src")
    BY <2>1 DEF NamesOf
  <2> DEFINE op == [act |-> "COPY", from |-> l.name, to |-> l.name, mtime |-> l.item.mtime]
  <2>3. ops' = ops \cup {op} /\ op.to = l.name /\ op.act = "COPY"
    BY <2>1
  <2> HIDE DEF op
  <2> QED BY <1>0, <1>1, <2>2, <2>3
<1>3. CASE DiffExtra
  <2>1. PICK l \in Line :
            /\ Range(lines["dst"]) = {l} \cup Range(lines'["dst"])
            /\ lines'["src"] = lines["src"]
            /\ \A k \in Range(lines'["dst"]) \cup Range(lines["src"]) : k.name # l.name
            /\ \/ ops' = ops \cup {[act |-> "REMOVE", from |-> <<>>, to |-> l.name,
                                    mtime |-> NoTime]}
               \/ UNCHANGED <<ops, issued>>
    BY <1>3, ExtraEffect
  <2>2. /\ NamesOf("src")' = NamesOf("src") \ {l.name}
        /\ NamesOf("dst")' = NamesOf("dst") \ {l.name} /\ l.name \in NamesOf("dst")
        /\ l.name \notin NamesOf("src")
    BY <2>1 DEF NamesOf
  <2> DEFINE op == [act |-> "REMOVE", from |-> <<>>, to |-> l.name, mtime |-> NoTime]
  <2>3. (ops' = ops \/ ops' = ops \cup {op}) /\ op.to = l.name
    BY <2>1
  <2> HIDE DEF op
  <2> QED BY <1>0, <1>1, <2>2, <2>3
<1>4. CASE DiffBoth
  <2>1. PICK s \in Line, d \in Line :
            /\ s.name = d.name
            /\ Range(lines["src"]) = {s} \cup Range(lines'["src"])
            /\ Range(lines["dst"]) = {d} \cup Range(lines'["dst"])
            /\ \A k \in Range(lines'["src"]) \cup Range(lines'["dst"]) : k.name # s.name
            /\ \/ ops' = ops \cup {[act |-> "COPY", from |-> s.name, to |-> s.name,
                                    mtime |-> s.item.mtime]}
               \/ ops' = ops \cup {[act |-> "MTIME", from |-> s.name, to |-> s.name,
                                    mtime |-> s.item.mtime]}
               \/ UNCHANGED <<ops, issued>>
    BY <1>4, BothEffect
  <2>2. /\ NamesOf("src")' = NamesOf("src") \ {s.name}
        /\ NamesOf("dst")' = NamesOf("dst") \ {s.name} /\ s.name \in NamesOf("src")
    BY <2>1 DEF NamesOf
  <2> DEFINE c == [act |-> "COPY", from |-> s.name, to |-> s.name, mtime |-> s.item.mtime]
             m == [act |-> "MTIME", from |-> s.name, to |-> s.name, mtime |-> s.item.mtime]
  <2>3. /\ c.to = s.name /\ c.act = "COPY" /\ m.to = s.name /\ m.act = "MTIME"
        /\ ops' = ops \/ ops' = ops \cup {c} \/ ops' = ops \cup {m}
    BY <2>1
  <2> HIDE DEF c, m
  <2> QED BY <1>0, <1>1, <2>2, <2>3
<1> QED BY <1>2, <1>3, <1>4

\* Each step keeps the targets apart: the merge reads a name once.
LEMMA TargetNext ==
  ASSUME NoBackslash, StateTypes, ContentInv, TargetInv, [Next]_vars
  PROVE  TargetInv'
<1>1. CASE ops' = {} /\ copying' = {}
  BY <1>1 DEF TargetInv
<1>2. CASE UNCHANGED <<lines, ops, copying>>
  BY <1>2 DEF TargetInv, NamesOf
<1>3. CASE DiffCopy \/ DiffExtra \/ DiffBoth
  <2>1. PICK n \in Names :
            /\ n \in NamesOf("src") \/ n \in NamesOf("dst")
            /\ NamesOf("src")' = NamesOf("src") \ {n}
            /\ NamesOf("dst")' = NamesOf("dst") \ {n}
            /\ ops' = ops \/ \E op : ops' = ops \cup {op} /\ op.to = n
            /\ copying' = copying
    BY <1>3, MergeTakes
  <2>2. \A x \in ops \cup copying : x.to # n
    BY <2>1 DEF TargetInv, Sides
  <2> QED BY <2>1, <2>2 DEF TargetInv, Sides
<1>4. ASSUME NEW op \in ops, RemoveExtra(op) \/ SetMtime(op) \/ StartCopy(op)
      PROVE  TargetInv'
  <2>1. lines' = lines
    BY <1>4 DEF RemoveExtra, SetMtime, StartCopy, WorkUnchanged
  <2>2. CASE ops' = ops \ {op} /\ copying' = copying
    BY <2>1, <2>2 DEF TargetInv, NamesOf
  <2>3. CASE SetMtime(op)
    <3>1. \/ ops' = ops \ {op}
          \/ ops' = (ops \ {op}) \cup {[act |-> "COPY", from |-> op.from,
                                        to |-> op.to, mtime |-> op.mtime]}
      BY <2>3, MtimeEffect
    <3>2. copying' = copying
      BY <2>3 DEF SetMtime
    <3> DEFINE c == [act |-> "COPY", from |-> op.from, to |-> op.to, mtime |-> op.mtime]
    <3>3. c.to = op.to /\ (ops' = ops \ {op} \/ ops' = (ops \ {op}) \cup {c})
      BY <3>1
    <3> HIDE DEF c
    <3> QED BY <2>1, <3>2, <3>3 DEF TargetInv, NamesOf
  <2>4. CASE StartCopy(op)
    <3>1. /\ ops' = ops \ {op}
          /\ \/ copying' = copying
             \/ copying' = copying \cup {[from |-> op.from, to |-> op.to,
                                  mtime |-> op.mtime, item |-> Src[op.from]]}
      BY <2>4, StartEffect
    <3> DEFINE c == [from |-> op.from, to |-> op.to, mtime |-> op.mtime, item |-> Src[op.from]]
    <3>2. c.to = op.to /\ (copying' = copying \/ copying' = copying \cup {c})
      BY <3>1
    <3> HIDE DEF c
    <3> QED BY <2>1, <3>1, <3>2 DEF TargetInv, NamesOf
  <2>5. CASE RemoveExtra(op)
    BY <2>2, <2>5 DEF RemoveExtra
  <2> QED BY <1>4, <2>3, <2>4, <2>5
<1>5. ASSUME NEW c \in copying, FinishCopy(c)
      PROVE  TargetInv'
  BY <1>5 DEF FinishCopy, WorkUnchanged, TargetInv, NamesOf
<1>6. CASE Begin
  BY <1>1, <1>6, Working DEF Begin, ContentInv, PhaseOK
<1>7. ASSUME NEW side \in Sides, List(side) \/ ListFails(side) \/ ListIsLost(side)
      PROVE  TargetInv'
  <2>1. side \in listing /\ ops' = ops /\ copying' = copying
    BY <1>7 DEF List, ListFails, ListIsLost
  <2> QED BY <1>1, <2>1, Working
<1>8. CASE Crash
  BY <1>1, <1>8 DEF Crash
<1>9. CASE Listed \/ DiffAborts \/ DiffEnds \/ Finish \/ Change \/ UNCHANGED vars
  BY <1>2, <1>9 DEF Listed, DiffAborts, DiffEnds, Finish, Change, vars, work
<1> QED BY <1>3, <1>4, <1>5, <1>6, <1>7, <1>8, <1>9 DEF Next

\* Each step keeps what the source holds throughout out of the reach of -d.
LEMMA StableNext ==
  ASSUME NoBackslash, StateTypes, ContentInv, StableInv, [Next]_vars
  PROVE  StableInv'
<1>1. CASE Begin
  BY <1>1 DEF Begin, StableInv, ContentInv, PhaseOK, Src, Sides
<1>2. CASE Listed
  BY <1>2 DEF Listed, Checked, StableInv, work, history, NamesOf, Src, ContentInv, PhaseOK
<1>3. ASSUME NEW side \in Sides, List(side)
      PROVE  StableInv'
  <2>1. /\ side \in listing /\ listing' = listing \ {side}
        /\ UNCHANGED <<at, phase, abandon, ops, stable, unlisted, disturbed>>
    BY <1>3 DEF List, history
  <2>2. phase = "listing" /\ ops = {}
    BY <2>1, Working
  <2>3. lines'[side] = Listing(side) /\ NamesOf(side)' = DOMAIN at[side]
        /\ \A other \in Sides \ {side} : lines'[other] = lines[other]
    BY <1>3, ListedLines
  <2>4. CASE side = "src"
    BY <2>1, <2>2, <2>3, <2>4 DEF StableInv, Src
  <2>5. CASE side = "dst"
    <3>1. NamesOf("src")' = NamesOf("src")
      BY <2>3, <2>5 DEF NamesOf, Sides
    <3>2. "src" \in listing' <=> "src" \in listing
      BY <2>1, <2>5
    <3> QED BY <2>1, <2>2, <3>1, <3>2 DEF StableInv, Src
  <2> QED BY <2>4, <2>5 DEF Sides
<1>4. ASSUME NEW side \in Sides, ListFails(side) \/ ListIsLost(side)
      PROVE  StableInv'
  <2>1. side \in listing /\ unlisted' = TRUE /\ disturbed' = TRUE
          /\ UNCHANGED <<at, phase, stable>>
    BY <1>4 DEF ListFails, ListIsLost, Fault
  <2>2. phase = "listing"
    BY <2>1, Working
  <2> QED BY <2>1, <2>2 DEF StableInv, Src
<1>5. CASE DiffCopy \/ DiffExtra \/ DiffBoth
  <2>1. PICK n \in Names :
            /\ NamesOf("src")' = NamesOf("src") \ {n}
            /\ NamesOf("dst")' = NamesOf("dst") \ {n}
            /\ \/ ops' = ops
               \/ \E op : /\ ops' = ops \cup {op} /\ op.to = n
                          /\ op.act = "REMOVE" =>
                                n \in NamesOf("dst") /\ n \notin NamesOf("src")
            /\ phase = "diff" /\ phase' = "diff"
            /\ UNCHANGED <<at, stable, unlisted, abandon, disturbed>>
    BY <1>5, MergeTakes
  <2> QED BY <2>1 DEF StableInv, Src
<1>6. ASSUME NEW op \in ops, RemoveExtra(op) \/ SetMtime(op) \/ StartCopy(op)
      PROVE  StableInv'
  <2>1. UNCHANGED <<phase, listing, lines, abandon, stable, unlisted>>
    BY <1>6 DEF RemoveExtra, SetMtime, StartCopy, WorkUnchanged
  <2>0. disturbed' = disturbed \/ disturbed' = TRUE
    BY <1>6 DEF RemoveExtra, SetMtime, StartCopy, Calm, Fault
  <2>2. Src' = Src /\ \/ ops' \subseteq ops
                      \/ \E c : ops' \subseteq ops \cup {c} /\ c.act = "COPY"
    <3>1. CASE RemoveExtra(op) BY <3>1, RemoveEffect
    <3>2. CASE StartCopy(op) BY <3>2, StartEffect
    <3>3. CASE SetMtime(op)
      <4> DEFINE c == [act |-> "COPY", from |-> op.from, to |-> op.to, mtime |-> op.mtime]
      <4>1. Src' = Src /\ c.act = "COPY"
            /\ (ops' = ops \ {op} \/ ops' = (ops \ {op}) \cup {c})
        BY <3>3, MtimeEffect
      <4> HIDE DEF c
      <4> QED BY <4>1
    <3> QED BY <1>6, <3>1, <3>2, <3>3
  <2> QED BY <2>0, <2>1, <2>2, Working DEF StableInv, NamesOf
<1>7. ASSUME NEW c \in copying, FinishCopy(c)
      PROVE  StableInv'
  <2>1. UNCHANGED <<phase, listing, lines, abandon, stable, unlisted, ops>> /\ Src' = Src
    BY <1>7, FinishEffect DEF FinishCopy, WorkUnchanged
  <2>2. disturbed' = disturbed \/ disturbed' = TRUE
    BY <1>7 DEF FinishCopy, Calm, Fault
  <2> QED BY <2>1, <2>2 DEF StableInv, NamesOf
<1>8. CASE DiffAborts \/ DiffEnds \/ Finish \/ Crash \/ UNCHANGED vars
  <2>1. /\ UNCHANGED <<at, stable, unlisted, abandon, lines>> /\ ops' \subseteq ops
        /\ phase' \in {"idle", "drain"} \/ UNCHANGED <<phase, listing>>
        /\ phase' = "drain" => phase \in {"diff", "drain"}
        /\ disturbed' = disturbed \/ phase' = "idle"
    BY <1>8 DEF DiffAborts, DiffEnds, Finish, Crash, vars, work, history, Diffing
  <2> QED BY <2>1 DEF StableInv, NamesOf, Src
<1>9. CASE Change
  <2>1. /\ UNCHANGED <<phase, work, unlisted>>
        /\ disturbed' = TRUE
        /\ \/ stable' = stable /\ DOMAIN Src \subseteq DOMAIN Src'
           \/ \E n \in Names : stable' = stable \ {n} /\ DOMAIN Src' = DOMAIN Src \ {n}
    BY <1>9, ChangeEffect
  <2> QED BY <2>1 DEF StableInv, NamesOf, work
<1> QED BY <1>1, <1>2, <1>3, <1>4, <1>5, <1>6, <1>7, <1>8, <1>9 DEF Next

\* Each step that takes a name from the destination loses it, or copies to it.
LEMMA KeepNext ==
  ASSUME NoBackslash, StateTypes, ContentInv, StableInv, KeepInv, [Next]_vars
  PROVE  KeepInv'
<1>1. CASE Begin
  BY <1>1 DEF Begin, KeepInv, Holds, Dst
<1>2. ASSUME NEW side \in Sides, List(side) \/ ListFails(side) \/ ListIsLost(side)
      PROVE  KeepInv'
  <2>1. side \in listing /\ UNCHANGED <<at, before, phase>>
    BY <1>2 DEF List, ListFails, ListIsLost, history
  <2>2. phase = "listing"
    BY <2>1, Working
  <2> QED BY <2>1, <2>2 DEF KeepInv, Holds, Dst
<1>3. CASE DiffCopy \/ DiffExtra \/ DiffBoth
  <2>1. /\ UNCHANGED <<at, stable, unlisted, abandon, before, lost, opts, copying>>
        /\ phase' = "diff"
    BY <1>3, MergeTakes
  <2> QED BY <2>1 DEF KeepInv, Holds, Dst, Targets
<1>4. CASE Listed \/ DiffAborts \/ DiffEnds \/ Finish \/ UNCHANGED vars
  <2>1. /\ UNCHANGED <<at, stable, unlisted, abandon, before, lost, opts, copying>>
        /\ phase' # "listing" \/ phase' = phase
    BY <1>4 DEF Listed, Checked, DiffAborts, DiffEnds, Finish, vars, work, history
  <2> QED BY <2>1 DEF KeepInv, Holds, Dst, Targets
<1>5. CASE Crash
  <2>1. /\ UNCHANGED <<at, stable, unlisted, abandon, before, opts>>
        /\ phase' = "idle" /\ lost' = lost \cup Targets
    BY <1>5 DEF Crash, Targets
  <2> QED BY <2>1 DEF KeepInv, Holds, Dst
<1>6. CASE Change
  <2>1. /\ Dst' = Dst /\ UNCHANGED <<opts, phase, work, before, lost, unlisted>>
        /\ stable' \subseteq stable
    BY <1>6, ChangeEffect
  <2> QED BY <2>1 DEF KeepInv, Holds, Dst, Targets, work
<1>7. ASSUME NEW op \in ops, RemoveExtra(op)
      PROVE  KeepInv'
  <2>1. UNCHANGED <<phase, stable, unlisted, abandon, before, opts, copying>>
    BY <1>7 DEF RemoveExtra, WorkUnchanged
  <2>2. /\ op.act = "REMOVE" /\ lost \subseteq lost'
        /\ DOMAIN Dst' = DOMAIN Dst \ {op.to} \/ Dst' = Dst
    BY <1>7, RemoveEffect
  <2>3. phase \in {"diff", "drain"} /\ opts.d
    BY <2>2, Working DEF ContentInv, OpsOK
  <2>4. (unlisted => abandon) => op.to \notin stable
    BY <2>2, <2>3 DEF StableInv
  <2> QED BY <2>1, <2>2, <2>3, <2>4 DEF KeepInv, Holds, Dst, Targets
<1>8. ASSUME NEW op \in ops, SetMtime(op)
      PROVE  KeepInv'
  <2>1. UNCHANGED <<phase, stable, unlisted, abandon, before, opts, copying, lost>>
    BY <1>8 DEF SetMtime, WorkUnchanged
  <2>2. DOMAIN Dst' = DOMAIN Dst
    BY <1>8, MtimeEffect
  <2> QED BY <2>1, <2>2 DEF KeepInv, Holds, Dst, Targets
<1>9. ASSUME NEW op \in ops, StartCopy(op)
      PROVE  KeepInv'
  <2>1. UNCHANGED <<phase, stable, unlisted, abandon, before, opts>>
    BY <1>9 DEF StartCopy, WorkUnchanged
  <2>2. phase # "listing"
    BY Working
  <2>3. CASE Dst' = Dst /\ copying' = copying /\ lost' = lost \cup {op.to}
    BY <2>1, <2>2, <2>3 DEF KeepInv, Holds, Dst, Targets
  <2> DEFINE c == [from |-> op.from, to |-> op.to, mtime |-> op.mtime, item |-> Src[op.from]]
  <2>4. CASE /\ copying' = copying \cup {c} /\ UNCHANGED lost
             /\ DOMAIN Dst' = DOMAIN Dst
                  \/ DOMAIN Dst' = (DOMAIN Dst \ {op.to}) \cup {Temp(op.to)}
    <3>1. c.to = op.to
      OBVIOUS
    <3> HIDE DEF c
    <3>2. Targets' = Targets \cup {op.to}
      BY <2>4, <3>1 DEF Targets
    <3>3. DOMAIN Dst \ {op.to} \subseteq DOMAIN Dst'
      BY <2>4
    <3> QED BY <2>1, <2>2, <2>4, <3>2, <3>3 DEF KeepInv, Holds, Dst
  <2> QED BY <1>9, <2>3, <2>4, StartEffect
<1>10. ASSUME NEW c \in copying, FinishCopy(c)
       PROVE  KeepInv'
  <2>1. UNCHANGED <<phase, stable, unlisted, abandon, before, opts>>
    BY <1>10 DEF FinishCopy, WorkUnchanged
  <2>2. phase # "listing"
    BY Working
  <2>3. c.to \in Names /\ ~IsTemp(c.to) /\ IsTemp(Temp(c.to))
    BY Temps DEF ContentInv, CopiesOK, StateTypes, Copy
  <2>4. /\ copying' = copying \ {c}
        /\ \/ /\ DOMAIN Dst' = (DOMAIN Dst \ (IF opts.dir = "down" THEN {Temp(c.to)}
                                               ELSE {})) \cup {c.to}
              /\ UNCHANGED lost
           \/ Dst' = Dst /\ lost' = lost \cup {c.to}
    BY <1>10, FinishEffect
  <2>5. Targets \subseteq Targets' \cup {c.to}
    BY <2>4 DEF Targets
  <2>6. ASSUME NEW n, ~IsTemp(n), n \in DOMAIN Dst \/ n \in lost \/ n \in Targets
        PROVE  n \in DOMAIN Dst' \/ n \in lost' \/ n \in Targets'
    BY <2>3, <2>4, <2>5, <2>6
  <2> QED BY <2>1, <2>2, <2>6 DEF KeepInv, Holds, Dst
<1> QED BY <1>1, <1>2, <1>3, <1>4, <1>5, <1>6, <1>7, <1>8, <1>9, <1>10 DEF Next

-----------------------------------------------------------------------------
(* A run that nothing disturbs.                                            *)

\* A name whose files stay as they are stays in sync.
LEMMA StaysSynced ==
  ASSUME opts' = opts, NEW n, Src' = Src, n \in DOMAIN Dst', Dst'[n] = Dst[n], Synced(n)
  PROVE  Synced(n)'
BY DEF Synced, InSync, TimeOf, Replaces, DifferByTime, Size

\* A name that gets a file alike is in sync.
LEMMA BecomesSynced ==
  ASSUME opts' = opts, NEW n, NEW s, NEW d, n \in DOMAIN Dst', Src'[n] = s, Dst'[n] = d,
         InSync(s, d)
  PROVE  Synced(n)'
BY DEF Synced, InSync, TimeOf, Replaces, DifferByTime, Size

\* A name whose files stay as they are lacks no more than its mtime.
LEMMA StaysPatched ==
  ASSUME opts' = opts, NEW op, Src' = Src, op.to \in DOMAIN Dst',
         Dst'[op.to] = Dst[op.to], Patched(op)
  PROVE  Patched(op)'
BY DEF Patched, InSync, TimeOf, Replaces, DifferByTime, Size

\* Nothing changes but the phase.
LEMMA StaysFresh ==
  ASSUME UNCHANGED <<at, opts, lines, ops, copying, listing, failures, aborted, unlisted>>
  PROVE  /\ \A n : Synced(n)' <=> Synced(n)
         /\ WorkFresh' <=> WorkFresh
         /\ Src' = Src /\ Dst' = Dst /\ Targets' = Targets
         /\ \A side \in Sides : NamesOf(side)' = NamesOf(side)
<1>1. \A op : Patched(op)' <=> Patched(op)
  BY DEF Patched, InSync, TimeOf, Replaces, DifferByTime, Size, Src, Dst
<1>2. \A n : Synced(n)' <=> Synced(n)
  BY DEF Synced, InSync, TimeOf, Replaces, DifferByTime, Size, Src, Dst
<1> QED BY <1>1, <1>2 DEF WorkFresh, Src, Dst, Targets, NamesOf

\* Begin: nothing is listed, nothing is to be done.
LEMMA FreshBegin ==
  ASSUME StateTypes, ContentInv, Begin
  PROVE  Fresh'
<1>1. /\ phase' = "listing" /\ listing' = Sides /\ lines' = [side \in Sides |-> <<>>]
      /\ ops' = {} /\ copying' = {} /\ failures' = 0 /\ aborted' = FALSE /\ unlisted' = FALSE
  BY DEF Begin, ContentInv, PhaseOK
<1>2. Range(lines'["src"]) = {} /\ Range(lines'["dst"]) = {}
  BY <1>1, NoneInEmpty DEF Sides
<1> QED BY <1>1, <1>2 DEF Fresh, LinesFresh, WorkFresh, NothingMissing, NothingExtra,
           FailuresInv, AtEnd, Merging

\* Both sides are listed: every name is ahead in the listings.
LEMMA FreshListed ==
  ASSUME StateTypes, ContentInv, Fresh, Listed
  PROVE  Fresh'
<1>1. /\ UNCHANGED <<at, opts, lines, ops, copying, listing, failures, aborted, unlisted>>
      /\ phase = "listing" /\ listing = {}
      /\ phase' = "diff" \/ (phase' = "idle" /\ exit' = "failed")
  BY DEF Listed, Checked, work, history
<1>2. WorkFresh'
  BY <1>1, StaysFresh DEF Fresh
<1>3. LinesFresh'
  BY <1>1 DEF Fresh, LinesFresh, Src, Dst
<1>4. NamesOf("src") = DOMAIN Src /\ NamesOf("dst") = DOMAIN Dst
  BY <1>1 DEF Fresh, LinesFresh, Sides, Src, Dst
<1>5. NothingMissing' /\ NothingExtra'
  BY <1>1, <1>4 DEF NothingMissing, NothingExtra, NamesOf, Src, Dst
<1>6. FailuresInv'
  BY <1>1 DEF Fresh, FailuresInv, Dst
<1>7. AtEnd'
  BY <1>1 DEF AtEnd
<1> QED BY <1>2, <1>3, <1>5, <1>6, <1>7 DEF Fresh

\* A listing holds what its side holds.
LEMMA FreshList ==
  ASSUME StateTypes, ContentInv, Fresh, NEW side \in Sides, List(side)
  PROVE  Fresh'
<1>1. /\ UNCHANGED <<at, opts, phase, ops, copying, failures, aborted, unlisted>>
      /\ side \in listing
  BY DEF List, history
<1>2. phase = "listing" /\ ops = {} /\ copying = {}
  BY <1>1, Working
<1>3. /\ lines' \in [Sides -> Seq(Line)] /\ listing' = listing \ {side}
      /\ \A other \in Sides \ {side} : lines'[other] = lines[other]
      /\ \A l \in Range(lines'[side]) :
             l.name \in DOMAIN at[side] /\ l.item = at[side][l.name]
      /\ NamesOf(side)' = DOMAIN at[side]
  BY ListedLines
<1>4. /\ \A l \in Range(lines'["src"]) : l.name \in DOMAIN Src /\ l.item = Src[l.name]
      /\ \A l \in Range(lines'["dst"]) :
              ~IsTemp(l.name) => l.name \in DOMAIN Dst /\ l.item = Dst[l.name]
  <2>1. CASE side = "src"
    <3>1. lines'["dst"] = lines["dst"]
      BY <1>3, <2>1 DEF Sides
    <3> QED BY <1>2, <1>3, <2>1, <3>1 DEF Fresh, LinesFresh, Src
  <2>2. CASE side = "dst"
    <3>1. lines'["src"] = lines["src"]
      BY <1>3, <2>2 DEF Sides
    <3> QED BY <1>2, <1>3, <2>2, <3>1 DEF Fresh, LinesFresh, Dst
  <2> QED BY <2>1, <2>2 DEF Sides
<1>5. \A other \in Sides \ listing' : NamesOf(other)' = DOMAIN at[other]
  <2>1. ASSUME NEW other \in Sides \ listing', other # side
        PROVE  NamesOf(other)' = DOMAIN at[other]
    <3>1. lines'[other] = lines[other] /\ other \in Sides \ listing
      BY <1>3, <2>1
    <3>2. NamesOf(other) = DOMAIN at[other]
      BY <1>2, <3>1 DEF Fresh, LinesFresh
    <3> QED BY <3>1, <3>2 DEF NamesOf
  <2> QED BY <1>3, <2>1
<1>6. LinesFresh'
  BY <1>1, <1>4, <1>5 DEF LinesFresh, Src, Dst
<1> QED BY <1>1, <1>2, <1>6 DEF Fresh, WorkFresh, NothingMissing, NothingExtra,
           FailuresInv, AtEnd, Merging

\* The merge raises no exception.
LEMMA NoAbort ==
  ASSUME NoBackslash, StateTypes, ContentInv, Fresh, DiffAborts
  PROVE  FALSE
<1>1. lines["src"] # <<>> /\ lines["dst"] # <<>> /\ phase = "diff"
  BY DEF DiffAborts, More, Diffing
<1>2. /\ lines["src"] \in Seq(Line) /\ lines["dst"] \in Seq(Line)
      /\ Sorted(lines["src"]) /\ Sorted(lines["dst"])
  BY DEF StateTypes, ContentInv, LinesOK, Sides
<1>3. /\ Source \in Range(lines["src"]) /\ Target \in Range(lines["dst"])
      /\ Source.name \in Names /\ Target.name \in Names
  BY <1>1, <1>2, FirstLine DEF Source, Target, Line
<1>4. Source.name \in DOMAIN at["src"] /\ ~IsTemp(Source.name)
  BY <1>1, <1>3 DEF Fresh, LinesFresh, ContentInv, LinesOK, Src
<1>5. Target.name \in DOMAIN at["dst"] \/ IsTemp(Target.name)
  BY <1>1, <1>3 DEF Fresh, LinesFresh, Dst
<1>6. Key(Source.name) = Key(Target.name) => ~IsTemp(Target.name)
  BY <1>3, <1>4, KeyIs
<1> QED BY <1>4, <1>5, <1>6 DEF DiffAborts, Readable

\* The merge has read both listings.
LEMMA FreshEnds ==
  ASSUME StateTypes, ContentInv, Fresh, DiffEnds \/ UNCHANGED vars
  PROVE  Fresh'
<1>1. /\ UNCHANGED <<at, opts, lines, ops, copying, listing, failures, aborted, unlisted>>
      /\ \/ phase = "diff" /\ phase' = "drain"
         \/ UNCHANGED <<phase, exit>>
  BY DEF DiffEnds, Diffing, vars, work, history
<1>2. /\ \A n : Synced(n)' <=> Synced(n)
      /\ WorkFresh' <=> WorkFresh
      /\ Src' = Src /\ Dst' = Dst /\ Targets' = Targets
      /\ \A side \in Sides : NamesOf(side)' = NamesOf(side)
  BY <1>1, StaysFresh
<1>3. LinesFresh'
  BY <1>1, <1>2 DEF Fresh, LinesFresh
<1>4. NothingMissing' /\ NothingExtra'
  BY <1>1, <1>2 DEF Fresh, NothingMissing, NothingExtra, Merging, Sides
<1>5. FailuresInv' /\ AtEnd'
  BY <1>1, <1>2 DEF Fresh, FailuresInv, AtEnd
<1> QED BY <1>2, <1>3, <1>4, <1>5 DEF Fresh

\* The run ends with all lines read and all work done.
LEMMA FreshFinish ==
  ASSUME StateTypes, ContentInv, Fresh, DrainInv, Finish
  PROVE  Fresh'
<1>1. /\ UNCHANGED <<at, opts, lines, ops, copying, listing, failures, aborted, unlisted>>
      /\ phase = "drain" /\ phase' = "idle" /\ ops = {} /\ copying = {}
      /\ exit' = "ok" => failures = 0 /\ ~aborted
  BY DEF Finish, work, history
<1>2. /\ \A n : Synced(n)' <=> Synced(n)
      /\ WorkFresh' <=> WorkFresh
      /\ Src' = Src /\ Dst' = Dst /\ Targets' = Targets
  BY <1>1, StaysFresh
<1>3. ~aborted => NamesOf("src") = {} /\ (opts.d => NamesOf("dst") = {})
  BY <1>1, NoneInEmpty DEF DrainInv, NamesOf
<1>4. Targets = {}
  BY <1>1 DEF Targets
<1>5. AtEnd'
  <2>1. ASSUME exit' = "ok", NEW n \in DOMAIN Src PROVE Synced(n)
    BY <1>1, <1>3, <1>4, <2>1 DEF Fresh, NothingMissing, Merging
  <2>2. ASSUME exit' = "ok", opts.d PROVE DOMAIN Dst \subseteq DOMAIN Src
    BY <1>1, <1>3, <2>2 DEF Fresh, NothingExtra, Merging
  <2> QED BY <1>1, <1>2, <2>1, <2>2 DEF AtEnd
<1> QED BY <1>1, <1>2, <1>5 DEF Fresh, LinesFresh, NothingMissing, NothingExtra,
           FailuresInv, Merging

\* A name of the source alone is copied.
LEMMA FreshCopy ==
  ASSUME NoBackslash, StateTypes, ContentInv, Fresh, DiffCopy
  PROVE  Fresh'
<1>1. /\ UNCHANGED <<at, opts, copying, failures, aborted, unlisted>>
      /\ phase = "diff" /\ phase' = "diff"
  BY DEF DiffCopy, DiffUnchanged, Diffing
<1>2. PICK l \in Line :
            /\ l \in Range(lines["src"])
            /\ Range(lines["src"]) = {l} \cup Range(lines'["src"])
            /\ lines'["dst"] = lines["dst"]
            /\ ops' = ops \cup {[act |-> "COPY", from |-> l.name, to |-> l.name,
                                 mtime |-> l.item.mtime]}
  BY CopyEffect
<1> DEFINE op == [act |-> "COPY", from |-> l.name, to |-> l.name, mtime |-> l.item.mtime]
<1>3. ops' = ops \cup {op} /\ op.act = "COPY" /\ op.to = l.name /\ op.mtime = l.item.mtime
  BY <1>2
<1> HIDE DEF op
<1>4. l.name \in DOMAIN Src /\ l.item = Src[l.name]
  BY <1>1, <1>2 DEF Fresh, LinesFresh
<1>5. Src' = Src /\ Dst' = Dst
  BY <1>1 DEF Src, Dst
<1>6. \A n : Synced(n)' <=> Synced(n)
  BY <1>1 DEF Synced, InSync, TimeOf, Replaces, DifferByTime, Size, Src, Dst
<1>7. \A o : Patched(o)' <=> Patched(o)
  BY <1>1 DEF Patched, InSync, TimeOf, Replaces, DifferByTime, Size, Src, Dst
<1>8. LinesFresh'
  BY <1>1, <1>2, <1>5 DEF Fresh, LinesFresh
<1>9. WorkFresh'
  BY <1>1, <1>3, <1>4, <1>5, <1>7 DEF Fresh, WorkFresh
<1>10. NamesOf("src") = NamesOf("src")' \cup {l.name} /\ NamesOf("dst")' = NamesOf("dst")
  BY <1>2 DEF NamesOf
<1>11. NothingMissing'
  BY <1>1, <1>3, <1>5, <1>6, <1>10 DEF Fresh, NothingMissing, Targets, Merging
<1>12. NothingExtra'
  BY <1>1, <1>3, <1>5, <1>10 DEF Fresh, NothingExtra, Merging
<1>13. FailuresInv' /\ AtEnd'
  BY <1>1, <1>5 DEF Fresh, FailuresInv, AtEnd
<1> QED BY <1>8, <1>9, <1>11, <1>12, <1>13 DEF Fresh

\* A name of the destination alone is removed with -d.
LEMMA FreshExtra ==
  ASSUME NoBackslash, StateTypes, ContentInv, StableInv, ~disturbed, Fresh, DiffExtra
  PROVE  Fresh'
<1>1. /\ UNCHANGED <<at, opts, copying, failures, aborted, unlisted>>
      /\ phase = "diff" /\ phase' = "diff"
  BY DEF DiffExtra, DiffUnchanged, Diffing
<1>2. PICK l \in Line :
            /\ l \in Range(lines["dst"])
            /\ Range(lines["dst"]) = {l} \cup Range(lines'["dst"])
            /\ lines'["src"] = lines["src"]
            /\ \A k \in Range(lines'["dst"]) \cup Range(lines["src"]) : k.name # l.name
            /\ \/ /\ opts.d
                  /\ ops' = ops \cup {[act |-> "REMOVE", from |-> <<>>, to |-> l.name,
                                       mtime |-> NoTime]}
               \/ ~opts.d /\ UNCHANGED <<ops, issued>>
  BY ExtraEffect
<1> DEFINE op == [act |-> "REMOVE", from |-> <<>>, to |-> l.name, mtime |-> NoTime]
<1>3. /\ op.act = "REMOVE" /\ op.to = l.name
      /\ \/ opts.d /\ ops' = ops \cup {op}
         \/ ~opts.d /\ ops' = ops
  BY <1>2
<1> HIDE DEF op
<1>4. l.name \notin DOMAIN Src
  <2>1. l.name \in NamesOf("dst") /\ l.name \notin NamesOf("src")
    BY <1>2 DEF NamesOf
  <2>2. ~unlisted
    BY <1>1 DEF Fresh, FailuresInv
  <2> QED BY <1>1, <2>1, <2>2 DEF StableInv
<1>5. Src' = Src /\ Dst' = Dst
  BY <1>1 DEF Src, Dst
<1>6. \A n : Synced(n)' <=> Synced(n)
  BY <1>1 DEF Synced, InSync, TimeOf, Replaces, DifferByTime, Size, Src, Dst
<1>7. \A o : Patched(o)' <=> Patched(o)
  BY <1>1 DEF Patched, InSync, TimeOf, Replaces, DifferByTime, Size, Src, Dst
<1>8. LinesFresh'
  BY <1>1, <1>2, <1>5 DEF Fresh, LinesFresh
<1>9. WorkFresh'
  BY <1>1, <1>3, <1>4, <1>5, <1>7 DEF Fresh, WorkFresh
<1>10. NamesOf("dst") = NamesOf("dst")' \cup {l.name} /\ NamesOf("src")' = NamesOf("src")
  BY <1>2 DEF NamesOf
<1>11. NothingMissing'
  BY <1>1, <1>3, <1>5, <1>6, <1>10 DEF Fresh, NothingMissing, Targets, Merging
<1>12. NothingExtra'
  BY <1>1, <1>3, <1>5, <1>10 DEF Fresh, NothingExtra, Merging
<1>13. FailuresInv' /\ AtEnd'
  BY <1>1, <1>5 DEF Fresh, FailuresInv, AtEnd
<1> QED BY <1>8, <1>9, <1>11, <1>12, <1>13 DEF Fresh

\* A name of both is copied, patched or in sync.
LEMMA FreshBoth ==
  ASSUME NoBackslash, StateTypes, ContentInv, Fresh, DiffBoth
  PROVE  Fresh'
<1>1. /\ UNCHANGED <<at, opts, copying, failures, aborted, unlisted>>
      /\ phase = "diff" /\ phase' = "diff"
  BY DEF DiffBoth, DiffUnchanged, Diffing
<1>2. PICK s \in Line, d \in Line :
            /\ s \in Range(lines["src"]) /\ d \in Range(lines["dst"]) /\ s.name = d.name
            /\ Range(lines["src"]) = {s} \cup Range(lines'["src"])
            /\ Range(lines["dst"]) = {d} \cup Range(lines'["dst"])
            /\ \/ ops' = ops \cup {[act |-> "COPY", from |-> s.name, to |-> s.name,
                                    mtime |-> s.item.mtime]}
               \/ /\ ~Replaces(s.item, d.item, TimeOf(s.item))
                  /\ TimeOf(s.item) # NoTime /\ d.item.mtime = NoTime
                  /\ ops' = ops \cup {[act |-> "MTIME", from |-> s.name, to |-> s.name,
                                       mtime |-> s.item.mtime]}
               \/ InSync(s.item, d.item) /\ UNCHANGED <<ops, issued>>
  BY BothEffect
<1> DEFINE c == [act |-> "COPY", from |-> s.name, to |-> s.name, mtime |-> s.item.mtime]
           m == [act |-> "MTIME", from |-> s.name, to |-> s.name, mtime |-> s.item.mtime]
<1>3. /\ c.act = "COPY" /\ c.to = s.name /\ c.mtime = s.item.mtime
      /\ m.act = "MTIME" /\ m.to = s.name /\ m.mtime = s.item.mtime
      /\ \/ ops' = ops \cup {c}
         \/ /\ ~Replaces(s.item, d.item, TimeOf(s.item))
            /\ TimeOf(s.item) # NoTime /\ d.item.mtime = NoTime
            /\ ops' = ops \cup {m}
         \/ InSync(s.item, d.item) /\ ops' = ops
  BY <1>2
<1> HIDE DEF c, m
<1>4. /\ s.name \in DOMAIN Src /\ s.item = Src[s.name] /\ ~IsTemp(s.name) /\ s.item \in Items
  BY <1>1, <1>2 DEF Fresh, LinesFresh, ContentInv, LinesOK
<1>5. /\ s.name \in DOMAIN Dst /\ d.item = Dst[s.name] /\ d.item \in Entry
  BY <1>1, <1>2, <1>4 DEF Fresh, LinesFresh, Line
<1>6. Src' = Src /\ Dst' = Dst
  BY <1>1 DEF Src, Dst
<1>7. \A n : Synced(n)' <=> Synced(n)
  BY <1>1 DEF Synced, InSync, TimeOf, Replaces, DifferByTime, Size, Src, Dst
<1>8. \A o : Patched(o)' <=> Patched(o)
  BY <1>1 DEF Patched, InSync, TimeOf, Replaces, DifferByTime, Size, Src, Dst
<1>9. LinesFresh'
  BY <1>1, <1>2, <1>6 DEF Fresh, LinesFresh
<1>10. ASSUME ops' = ops \cup {m}, ~Replaces(s.item, d.item, TimeOf(s.item)),
              TimeOf(s.item) # NoTime, d.item.mtime = NoTime
       PROVE  Patched(m)
  <2>1. opts.dir # "down"
    BY <1>2, <1>4, <1>10 DEF ContentInv, LinesOK, Fits
  <2>2. s.item.mtime # NoTime
    BY <1>10, <2>1 DEF TimeOf
  <2>3. InSync(s.item, [data |-> d.item.data, mtime |-> s.item.mtime])
    BY <1>4, <1>5, <1>10, <2>1, <2>2, PatchedInSync DEF StateTypes
  <2> QED BY <1>3, <1>4, <1>5, <2>3 DEF Patched
<1>11. WorkFresh'
  BY <1>1, <1>3, <1>4, <1>6, <1>8, <1>10 DEF Fresh, WorkFresh
<1>12. NamesOf("dst") = NamesOf("dst")' \cup {s.name}
         /\ NamesOf("src") = NamesOf("src")' \cup {s.name}
  BY <1>2 DEF NamesOf
<1>13. InSync(s.item, d.item) => Synced(s.name)
  BY <1>4, <1>5 DEF Synced
<1>14. NothingMissing'
  BY <1>1, <1>3, <1>6, <1>7, <1>12, <1>13 DEF Fresh, NothingMissing, Targets, Merging
<1>15. NothingExtra'
  BY <1>1, <1>3, <1>4, <1>6, <1>12 DEF Fresh, NothingExtra, Merging
<1>16. FailuresInv' /\ AtEnd'
  BY <1>1, <1>6 DEF Fresh, FailuresInv, AtEnd
<1> QED BY <1>9, <1>11, <1>14, <1>15, <1>16 DEF Fresh

\* While there is work, the lines that are left are as the files still are.
LEMMA FreshLines ==
  ASSUME UNCHANGED <<phase, listing, lines>>, phase \in {"diff", "drain"}, LinesFresh,
         Src' = Src,
         \A l \in Range(lines["dst"]) : ~IsTemp(l.name) /\ l.name \in DOMAIN Dst =>
             l.name \in DOMAIN Dst' /\ Dst'[l.name] = Dst[l.name]
  PROVE  LinesFresh' /\ NamesOf("src")' = NamesOf("src") /\ NamesOf("dst")' = NamesOf("dst")
BY DEF LinesFresh, NamesOf

\* No line that is left is for the name that some work is for.
LEMMA LineApart ==
  ASSUME TargetInv, NEW x \in ops \cup copying, NEW side \in Sides,
         NEW l \in Range(lines[side])
  PROVE  l.name # x.to
BY DEF TargetInv, NamesOf

\* A removal takes away no name of the source.
LEMMA FreshRemove ==
  ASSUME StateTypes, ContentInv, TargetInv, Fresh, NEW op \in ops, RemoveExtra(op), ~disturbed'
  PROVE  Fresh'
<1>1. /\ UNCHANGED <<opts, phase, listing, lines, aborted, unlisted, copying>>
  BY DEF RemoveExtra, WorkUnchanged
<1>2. /\ op.act = "REMOVE" /\ ops' = ops \ {op} /\ Src' = Src
      /\ DOMAIN Dst' = DOMAIN Dst \ {op.to}
      /\ \A n \in DOMAIN Dst' : Dst'[n] = Dst[n]
      /\ failures' = failures
  BY RemoveEffect
<1>3. phase \in {"diff", "drain"} /\ opts.d /\ op.to \notin DOMAIN Src
  BY <1>2, Working DEF ContentInv, OpsOK, Fresh, WorkFresh
<1>4. \A y \in ops' : y \in ops /\ y.to # op.to
  BY <1>2 DEF TargetInv
<1>5. LinesFresh' /\ NamesOf("src")' = NamesOf("src") /\ NamesOf("dst")' = NamesOf("dst")
  BY <1>1, <1>2, <1>3, FreshLines, LineApart DEF Fresh, Sides
<1>6. WorkFresh'
  <2>1. ASSUME NEW y \in ops', y.act = "MTIME"
        PROVE  Patched(y)'
    <3>1. Patched(y) /\ y.to # op.to
      BY <1>4, <2>1 DEF Fresh, WorkFresh
    <3>2. y.to \in DOMAIN Dst' /\ Dst'[y.to] = Dst[y.to]
      BY <1>2, <3>1 DEF Patched
    <3> QED BY <1>1, <1>2, <3>1, <3>2, StaysPatched
  <2> QED BY <1>1, <1>2, <2>1 DEF Fresh, WorkFresh
<1>7. ASSUME NEW n \in DOMAIN Src, Synced(n)
      PROVE  Synced(n)'
  <2>1. n \in DOMAIN Dst' /\ Dst'[n] = Dst[n]
    BY <1>2, <1>3, <1>7 DEF Synced
  <2> QED BY <1>1, <1>2, <1>7, <2>1, StaysSynced
<1>8. NothingMissing'
  BY <1>1, <1>2, <1>5, <1>7 DEF Fresh, NothingMissing, Targets, Merging
<1>9. NothingExtra'
  BY <1>1, <1>2, <1>5 DEF Fresh, NothingExtra, Merging
<1>10. FailuresInv' /\ AtEnd'
  BY <1>1, <1>2, <1>3 DEF Fresh, FailuresInv, AtEnd
<1> QED BY <1>5, <1>6, <1>8, <1>9, <1>10 DEF Fresh

\* A patch puts a name in sync.
LEMMA FreshMtime ==
  ASSUME StateTypes, ContentInv, TargetInv, Fresh, NEW op \in ops, SetMtime(op), ~disturbed'
  PROVE  Fresh'
<1>1. UNCHANGED <<opts, phase, listing, lines, aborted, unlisted, copying, failures>>
  BY DEF SetMtime, WorkUnchanged
<1>2. /\ op.act = "MTIME" /\ ops' = ops \ {op} /\ Src' = Src
      /\ op.to \in DOMAIN Dst /\ DOMAIN Dst' = DOMAIN Dst
      /\ Dst'[op.to] = [data |-> Dst[op.to].data, mtime |-> op.mtime]
      /\ \A n \in DOMAIN Dst \ {op.to} : Dst'[n] = Dst[n]
  BY MtimeEffect
<1>3. phase \in {"diff", "drain"} /\ op.to \in DOMAIN Src /\ Patched(op)
  BY <1>2, Working DEF Fresh, WorkFresh
<1>4. \A y \in ops' : y \in ops /\ y.to # op.to
  BY <1>2 DEF TargetInv
<1>5. LinesFresh' /\ NamesOf("src")' = NamesOf("src") /\ NamesOf("dst")' = NamesOf("dst")
  BY <1>1, <1>2, <1>3, FreshLines, LineApart DEF Fresh, Sides
<1>6. WorkFresh'
  <2>1. ASSUME NEW y \in ops', y.act = "MTIME"
        PROVE  Patched(y)'
    <3>1. Patched(y) /\ y.to # op.to
      BY <1>4, <2>1 DEF Fresh, WorkFresh
    <3>2. y.to \in DOMAIN Dst' /\ Dst'[y.to] = Dst[y.to]
      BY <1>2, <3>1 DEF Patched
    <3> QED BY <1>1, <1>2, <3>1, <3>2, StaysPatched
  <2> QED BY <1>1, <1>2, <2>1 DEF Fresh, WorkFresh
<1>7. Synced(op.to)'
  <2>1. op.to \in DOMAIN Dst' /\ Src'[op.to] = Src[op.to]
        /\ InSync(Src[op.to], Dst'[op.to])
    BY <1>2, <1>3 DEF Patched
  <2>2. ASSUME NEW n, NEW s, NEW d, n \in DOMAIN Dst', Src'[n] = s, Dst'[n] = d,
               InSync(s, d)
        PROVE  Synced(n)'
    BY <1>1, <2>2, BecomesSynced
  <2> QED BY <2>1, <2>2
<1>8. ASSUME NEW n \in DOMAIN Src, Synced(n)
      PROVE  Synced(n)'
  <2>1. CASE n = op.to BY <1>7, <2>1
  <2>2. CASE n # op.to
    <3>1. n \in DOMAIN Dst' /\ Dst'[n] = Dst[n]
      BY <1>2, <1>8, <2>2 DEF Synced
    <3> QED BY <1>1, <1>2, <1>8, <3>1, StaysSynced
  <2> QED BY <2>1, <2>2
<1>9. NothingMissing'
  BY <1>1, <1>2, <1>5, <1>7, <1>8 DEF Fresh, NothingMissing, Targets, Merging
<1>10. NothingExtra'
  BY <1>1, <1>2, <1>5 DEF Fresh, NothingExtra, Merging
<1>11. FailuresInv' /\ AtEnd'
  BY <1>1, <1>2, <1>3 DEF Fresh, FailuresInv, AtEnd
<1> QED BY <1>5, <1>6, <1>9, <1>10, <1>11 DEF Fresh

\* A copy that begins is under way, or failed for its temporary file.
LEMMA FreshStart ==
  ASSUME StateTypes, ContentInv, TargetInv, Fresh, NEW op \in ops, StartCopy(op), ~disturbed'
  PROVE  Fresh'
<1>1. UNCHANGED <<opts, phase, listing, lines, aborted, unlisted>>
  BY DEF StartCopy, WorkUnchanged
<1> DEFINE c == [from |-> op.from, to |-> op.to, mtime |-> op.mtime, item |-> Src[op.from]]
<1>2. /\ op.act = "COPY" /\ ops' = ops \ {op} /\ Src' = Src
      /\ \/ op.from \notin DOMAIN Src
         \/ /\ copying' = copying \cup {c} /\ failures' = failures
            /\ \/ opts.dir # "down" /\ Dst' = Dst
               \/ /\ opts.dir = "down"
                  /\ DOMAIN Dst' = (DOMAIN Dst \ {op.to}) \cup {Temp(op.to)}
                  /\ \A n \in DOMAIN Dst \ {op.to, Temp(op.to)} : Dst'[n] = Dst[n]
  BY StartEffect
<1>3. /\ phase \in {"diff", "drain"} /\ op.from = op.to /\ op.to \in Names
      /\ ~IsTemp(op.to) /\ IsTemp(Temp(op.to))
      /\ op.to \in DOMAIN Src /\ op.mtime = Src[op.to].mtime
  BY <1>2, Working, Temps DEF Fresh, WorkFresh, ContentInv, OpsOK, StateTypes, Op
<1>4. c.to = op.to /\ c.item = Src[op.to] /\ c.mtime = Src[op.to].mtime
  BY <1>3
<1> HIDE DEF c
<1>5. /\ copying' = copying \cup {c} /\ failures' = failures
      /\ \/ opts.dir # "down" /\ Dst' = Dst
         \/ /\ opts.dir = "down"
            /\ DOMAIN Dst' = (DOMAIN Dst \ {op.to}) \cup {Temp(op.to)}
            /\ \A n \in DOMAIN Dst \ {op.to, Temp(op.to)} : Dst'[n] = Dst[n]
  BY <1>2, <1>3
<1>6. \A y \in ops' : y \in ops /\ y.to # op.to
  BY <1>2 DEF TargetInv
<1>7. ASSUME NEW n, ~IsTemp(n), n # op.to, n \in DOMAIN Dst
      PROVE  n \in DOMAIN Dst' /\ Dst'[n] = Dst[n]
  BY <1>3, <1>5, <1>7
<1>8. LinesFresh' /\ NamesOf("src")' = NamesOf("src") /\ NamesOf("dst")' = NamesOf("dst")
  BY <1>1, <1>2, <1>3, <1>7, FreshLines, LineApart DEF Fresh, Sides
<1>9. WorkFresh'
  <2>1. ASSUME NEW y \in ops', y.act = "MTIME"
        PROVE  Patched(y)'
    <3>1. Patched(y) /\ y.to # op.to /\ ~IsTemp(y.to)
      BY <1>6, <2>1 DEF Fresh, WorkFresh, ContentInv, OpsOK
    <3>2. y.to \in DOMAIN Dst' /\ Dst'[y.to] = Dst[y.to]
      BY <1>7, <3>1 DEF Patched
    <3> QED BY <1>1, <1>2, <3>1, <3>2, StaysPatched
  <2>2. \A y \in ops' : y \in ops
    BY <1>6
  <2> QED BY <1>2, <1>3, <1>4, <1>5, <2>1, <2>2 DEF Fresh, WorkFresh
<1>10. ASSUME NEW n \in DOMAIN Src, n # op.to, Synced(n)
       PROVE  Synced(n)'
  <2>1. n \in DOMAIN Dst' /\ Dst'[n] = Dst[n]
    BY <1>7, <1>10 DEF Synced, ContentInv, AtOK
  <2> QED BY <1>1, <1>2, <1>10, <2>1, StaysSynced
<1>11. Targets' = Targets \cup {op.to}
  BY <1>4, <1>5 DEF Targets
<1>12. NothingMissing'
  BY <1>1, <1>2, <1>5, <1>8, <1>10, <1>11 DEF Fresh, NothingMissing, Merging
<1>13. NothingExtra'
  <2>1. ASSUME Merging, opts.d, NEW n \in DOMAIN Dst', n # Temp(op.to) \/ opts.dir # "down"
        PROVE  \/ n \in DOMAIN Src
               \/ n \in NamesOf("dst")
               \/ \E y \in ops' : y.act = "REMOVE" /\ y.to = n
               \/ opts.dir = "down" /\ \E y \in copying' : n = Temp(y.to)
    <3>1. n \in DOMAIN Dst
      BY <1>5, <2>1
    <3> QED BY <1>2, <1>5, <2>1, <3>1 DEF Fresh, NothingExtra
  <2> QED BY <1>1, <1>2, <1>4, <1>5, <1>8, <2>1 DEF NothingExtra, Merging
<1>14. FailuresInv'
  <2>1. ASSUME ~opts.d, opts.dir = "down", NEW y \in copying'
        PROVE  Temp(y.to) \in DOMAIN Dst'
    <3>1. CASE y = c BY <1>4, <1>5, <2>1, <3>1
    <3>2. CASE y \in copying
      <4>1. Temp(y.to) \in DOMAIN Dst
        BY <1>3, <2>1, <3>2 DEF Fresh, FailuresInv
      <4>2. y.to \in Names /\ ~IsTemp(y.to)
        BY <3>2 DEF StateTypes, Copy, ContentInv, CopiesOK
      <4>3. IsTemp(Temp(y.to))
        BY <4>2, Temps
      <4> QED BY <1>3, <1>5, <2>1, <4>1, <4>3
    <3> QED BY <1>5, <3>1, <3>2
  <2> QED BY <1>1, <1>3, <1>5, <2>1 DEF Fresh, FailuresInv
<1>15. AtEnd'
  BY <1>1, <1>3 DEF AtEnd
<1> QED BY <1>8, <1>9, <1>12, <1>13, <1>14, <1>15 DEF Fresh

\* A copy that ends puts a name in sync.
LEMMA FreshCopied ==
  ASSUME StateTypes, ContentInv, TargetInv, Fresh, NEW c \in copying, FinishCopy(c),
         ~disturbed'
  PROVE  Fresh'
<1>1. UNCHANGED <<opts, phase, listing, lines, aborted, unlisted>>
  BY DEF FinishCopy, WorkUnchanged
<1>2. /\ copying' = copying \ {c} /\ Src' = Src /\ ops' = ops
      /\ \/ /\ DOMAIN Dst' = (DOMAIN Dst \ (IF opts.dir = "down" THEN {Temp(c.to)}
                                            ELSE {})) \cup {c.to}
            /\ Dst'[c.to] = Copied(c)
            /\ \A n \in DOMAIN Dst' \ {c.to} : Dst'[n] = Dst[n]
            /\ failures' = failures
         \/ /\ Dst' = Dst /\ failures' = failures + 1
            /\ opts.dir = "down" /\ Temp(c.to) \notin DOMAIN Dst
  BY FinishEffect
<1>3. /\ phase \in {"diff", "drain"} /\ c.to \in Names /\ c \in Copy
      /\ ~IsTemp(c.to) /\ IsTemp(Temp(c.to))
      /\ c.to \in DOMAIN Src /\ c.item = Src[c.to] /\ c.mtime = c.item.mtime
  BY Working, Temps DEF Fresh, WorkFresh, ContentInv, CopiesOK, StateTypes, Copy
<1>4. ASSUME NEW n, ~IsTemp(n), n # c.to, n \in DOMAIN Dst
      PROVE  n \in DOMAIN Dst' /\ Dst'[n] = Dst[n]
  BY <1>2, <1>3, <1>4
<1>5. LinesFresh' /\ NamesOf("src")' = NamesOf("src") /\ NamesOf("dst")' = NamesOf("dst")
  BY <1>1, <1>2, <1>3, <1>4, FreshLines, LineApart DEF Fresh, Sides
<1>6. WorkFresh'
  <2>1. ASSUME NEW y \in ops, y.act = "MTIME"
        PROVE  Patched(y)'
    <3>1. Patched(y) /\ y.to # c.to /\ ~IsTemp(y.to)
      BY <2>1 DEF Fresh, WorkFresh, ContentInv, OpsOK, TargetInv
    <3>2. y.to \in DOMAIN Dst' /\ Dst'[y.to] = Dst[y.to]
      BY <1>4, <3>1 DEF Patched
    <3> QED BY <1>1, <1>2, <3>1, <3>2, StaysPatched
  <2> QED BY <1>2, <2>1 DEF Fresh, WorkFresh
<1>7. ASSUME NEW n \in DOMAIN Src, n # c.to, Synced(n)
      PROVE  Synced(n)'
  <2>1. n \in DOMAIN Dst' /\ Dst'[n] = Dst[n]
    BY <1>4, <1>7 DEF Synced, ContentInv, AtOK
  <2> QED BY <1>1, <1>2, <1>7, <2>1, StaysSynced
<1>8. Targets \subseteq Targets' \cup {c.to}
  BY <1>2 DEF Targets
<1>9. \A y \in copying' : y \in copying /\ Temp(y.to) # Temp(c.to)
  <2>1. ASSUME NEW y \in copying'
        PROVE  y \in copying /\ y.to # c.to /\ y.to \in Names
    BY <1>2 DEF TargetInv, StateTypes, Copy
  <2> QED BY <1>3, <2>1, Temps
<1>10. CASE /\ DOMAIN Dst' = (DOMAIN Dst \ (IF opts.dir = "down" THEN {Temp(c.to)}
                                            ELSE {})) \cup {c.to}
            /\ Dst'[c.to] = Copied(c)
            /\ failures' = failures
  <2>1. Synced(c.to)'
    <3>1. InSync(c.item, Copied(c))
      BY <1>3, CopiedInSync DEF StateTypes
    <3>2. ASSUME NEW n, NEW s, NEW d, n \in DOMAIN Dst', Src'[n] = s, Dst'[n] = d,
                 InSync(s, d)
          PROVE  Synced(n)'
      BY <1>1, <3>2, BecomesSynced
    <3>3. c.to \in DOMAIN Dst' /\ Src'[c.to] = c.item
      BY <1>2, <1>3, <1>10
    <3> QED BY <1>10, <3>1, <3>2, <3>3
  <2>2. NothingMissing'
    BY <1>1, <1>2, <1>5, <1>7, <1>8, <1>10, <2>1 DEF Fresh, NothingMissing, Merging
  <2>3. NothingExtra'
    <3>1. ASSUME Merging, opts.d, NEW n \in DOMAIN Dst', n # c.to
          PROVE  \/ n \in DOMAIN Src
                 \/ n \in NamesOf("dst")
                 \/ \E y \in ops : y.act = "REMOVE" /\ y.to = n
                 \/ opts.dir = "down" /\ \E y \in copying' : n = Temp(y.to)
      <4>1. n \in DOMAIN Dst /\ (opts.dir = "down" => n # Temp(c.to))
        BY <1>10, <3>1
      <4> QED BY <1>2, <3>1, <4>1 DEF Fresh, NothingExtra
    <3> QED BY <1>1, <1>2, <1>3, <1>5, <3>1 DEF NothingExtra, Merging
  <2>4. FailuresInv'
    BY <1>1, <1>3, <1>9, <1>10 DEF Fresh, FailuresInv
  <2> QED BY <1>1, <1>3, <1>5, <1>6, <2>2, <2>3, <2>4 DEF Fresh, AtEnd
<1>11. CASE /\ Dst' = Dst /\ failures' = failures + 1
            /\ opts.dir = "down" /\ Temp(c.to) \notin DOMAIN Dst
  <2>1. opts.d
    BY <1>3, <1>11 DEF Fresh, FailuresInv, ContentInv, OpsOK, StateTypes
  <2>2. failures' # 0
    BY <1>11 DEF StateTypes
  <2>3. NothingExtra'
    BY <1>1, <1>2, <1>5, <1>11 DEF Fresh, NothingExtra, Merging
  <2> QED BY <1>1, <1>3, <1>5, <1>6, <2>1, <2>2, <2>3 DEF Fresh, AtEnd, FailuresInv, NothingMissing
<1> QED BY <1>2, <1>10, <1>11

\* Each step of an undisturbed run keeps it fresh; the steps that do not are the
\* faults, the crash and the changes by others, which disturb it.
LEMMA CalmNext ==
  ASSUME NoBackslash, StateTypes, ContentInv, TargetInv, StableInv, DrainInv, CalmInv,
         [Next]_vars
  PROVE  CalmInv'
<1> SUFFICES ASSUME ~disturbed' PROVE Fresh'
  BY DEF CalmInv
<1>1. CASE Begin BY <1>1, FreshBegin
<1>2. ASSUME NEW side \in Sides, ListFails(side) \/ ListIsLost(side)
      PROVE  FALSE
  BY <1>2 DEF ListFails, ListIsLost, Fault
<1>3. ~(Crash \/ Change)
  BY DEF Crash, Change
<1>4. ASSUME ~Begin PROVE ~disturbed
  BY <1>2, <1>3, <1>4 DEF Next, Listed, List, DiffCopy, DiffExtra, DiffBoth, DiffAborts, DiffEnds,
     DiffUnchanged, RemoveExtra, SetMtime, StartCopy, FinishCopy, Calm, Fault, Finish, vars,
     work, history, bounds
<1>5. CASE ~Begin
  <2>1. Fresh /\ ~disturbed
    BY <1>4, <1>5 DEF CalmInv
  <2>2. CASE Listed BY <2>1, <2>2, FreshListed
  <2>3. ASSUME NEW side \in Sides, List(side) PROVE Fresh'
    BY <2>1, <2>3, FreshList
  <2>4. CASE DiffCopy BY <2>1, <2>4, FreshCopy
  <2>5. CASE DiffExtra BY <2>1, <2>5, FreshExtra
  <2>6. CASE DiffBoth BY <2>1, <2>6, FreshBoth
  <2>7. CASE DiffAborts BY <2>1, <2>7, NoAbort
  <2>8. CASE DiffEnds \/ UNCHANGED vars BY <2>1, <2>8, FreshEnds
  <2>9. ASSUME NEW op \in ops, RemoveExtra(op) PROVE Fresh'
    BY <2>1, <2>9, FreshRemove
  <2>10. ASSUME NEW op \in ops, SetMtime(op) PROVE Fresh'
    BY <2>1, <2>10, FreshMtime
  <2>11. ASSUME NEW op \in ops, StartCopy(op) PROVE Fresh'
    BY <2>1, <2>11, FreshStart
  <2>12. ASSUME NEW c \in copying, FinishCopy(c) PROVE Fresh'
    BY <2>1, <2>12, FreshCopied
  <2>13. CASE Finish BY <2>1, <2>13, FreshFinish
  <2> QED BY <1>2, <1>3, <1>5, <2>2, <2>3, <2>4, <2>5, <2>6, <2>7, <2>8, <2>9, <2>10,
             <2>11, <2>12, <2>13 DEF Next
<1> QED BY <1>1, <1>5

\* The merge ends with both listings read.
LEMMA DrainNext ==
  ASSUME StateTypes, ContentInv, DrainInv, [Next]_vars
  PROVE  DrainInv'
<1>1. CASE DiffEnds
  BY <1>1 DEF DiffEnds, DrainInv, More, work
<1>2. CASE DiffAborts
  BY <1>2 DEF DiffAborts, DrainInv
<1>3. CASE phase' # "drain"
  BY <1>3 DEF DrainInv
<1>4. CASE UNCHANGED <<phase, lines, aborted, opts>>
  BY <1>4 DEF DrainInv
<1>5. ASSUME NEW op \in ops, RemoveExtra(op) \/ SetMtime(op) \/ StartCopy(op)
      PROVE  DrainInv'
  BY <1>4, <1>5 DEF RemoveExtra, SetMtime, StartCopy, WorkUnchanged
<1>6. ASSUME NEW c \in copying, FinishCopy(c)
      PROVE  DrainInv'
  BY <1>4, <1>6 DEF FinishCopy, WorkUnchanged
<1>7. ASSUME NEW side \in Sides, List(side) \/ ListFails(side) \/ ListIsLost(side)
      PROVE  DrainInv'
  <2>1. side \in listing /\ phase' = phase
    BY <1>7 DEF List, ListFails, ListIsLost
  <2> QED BY <1>3, <2>1, Working
<1>8. CASE Change \/ UNCHANGED vars
  BY <1>4, <1>8 DEF Change, vars, work
<1>9. CASE Begin \/ Listed \/ Finish \/ Crash \/ DiffCopy \/ DiffExtra \/ DiffBoth
  BY <1>3, <1>9 DEF Begin, Listed, Checked, Finish, Crash, DiffCopy, DiffExtra, DiffBoth,
     DiffUnchanged, Diffing
<1> QED BY <1>1, <1>2, <1>5, <1>6, <1>7, <1>8, <1>9 DEF Next

-----------------------------------------------------------------------------
(* A run after one that succeeded, and one after one that failed.          *)

\* A settled run yields nothing: every name is in sync, and with -d the two
\* sides hold the same names.
LEMMA SettledNext ==
  ASSUME NoBackslash, StateTypes, ContentInv, StableInv, CalmInv, SettledInv, [Next]_vars
  PROVE  SettledInv'
<1> SUFFICES ASSUME settled', ~disturbed' PROVE SettledInv'
  BY DEF SettledInv
<1>1. CASE Begin
  <2>1. /\ exit = "ok" /\ ~disturbed /\ phase = "idle" /\ phase' = "listing"
        /\ issued' = {} /\ UNCHANGED <<at, opts, ops, copying>>
    BY <1>1 DEF Begin
  <2>2. ops = {} /\ copying = {}
    BY <2>1 DEF ContentInv, PhaseOK
  <2>3. (\A n \in DOMAIN Src : Synced(n)) /\ (opts.d => DOMAIN Dst \subseteq DOMAIN Src)
    BY <2>1 DEF CalmInv, Fresh, AtEnd
  <2>4. \A n : Synced(n)' <=> Synced(n)
    BY <2>1 DEF Synced, InSync, TimeOf, Replaces, DifferByTime, Size, Src, Dst
  <2> QED BY <2>1, <2>2, <2>3, <2>4 DEF SettledInv, Src, Dst
<1>2. CASE ~Begin
  <2>1. settled' = settled /\ (disturbed' = disturbed \/ disturbed' = TRUE)
    BY <1>2 DEF Next, Listed, List, ListFails, ListIsLost, DiffCopy, DiffExtra, DiffBoth,
       DiffAborts, DiffEnds, DiffUnchanged, RemoveExtra, SetMtime, StartCopy, FinishCopy, Calm,
       Fault, Finish, Crash, Change, WorkUnchanged, vars, work, history, bounds
  <2>2. /\ ~disturbed /\ settled /\ Fresh /\ issued = {} /\ ops = {} /\ copying = {}
        /\ \A n \in DOMAIN Src : Synced(n)
        /\ opts.d => DOMAIN Dst \subseteq DOMAIN Src
        /\ phase = "diff" => /\ NamesOf("src") \subseteq NamesOf("dst")
                             /\ opts.d => NamesOf("dst") \subseteq NamesOf("src")
    BY <2>1 DEF SettledInv, CalmInv
  <2>3. ASSUME UNCHANGED <<at, opts, issued, ops, copying>>,
               phase' = "diff" => /\ NamesOf("src")' \subseteq NamesOf("dst")'
                                  /\ opts.d => NamesOf("dst")' \subseteq NamesOf("src")'
        PROVE  SettledInv'
    <3>1. \A n : Synced(n)' <=> Synced(n)
      BY <2>3 DEF Synced, InSync, TimeOf, Replaces, DifferByTime, Size, Src, Dst
    <3>2. Src' = Src /\ Dst' = Dst
      BY <2>3 DEF Src, Dst
    <3> QED BY <2>2, <2>3, <3>1, <3>2 DEF SettledInv
  <2>4. CASE Listed
    <3>1. /\ UNCHANGED <<at, opts, issued, ops, copying, lines>>
          /\ phase = "listing" /\ listing = {}
      BY <2>4 DEF Listed, work, history
    <3>2. NamesOf("src") = DOMAIN Src /\ NamesOf("dst") = DOMAIN Dst
      BY <2>2, <3>1 DEF Fresh, LinesFresh, Sides, Src, Dst
    <3>3. NamesOf("src")' = NamesOf("src") /\ NamesOf("dst")' = NamesOf("dst")
      BY <3>1 DEF NamesOf
    <3>4. DOMAIN Src \subseteq DOMAIN Dst
      BY <2>2 DEF Synced
    <3> QED BY <2>2, <2>3, <3>1, <3>2, <3>3, <3>4
  <2>5. ASSUME NEW side \in Sides, List(side) PROVE SettledInv'
    <3>1. side \in listing /\ UNCHANGED <<at, opts, issued, ops, copying, phase>>
      BY <2>5 DEF List, history
    <3> QED BY <2>3, <3>1, Working
  <2>6. ASSUME NEW side \in Sides, ListFails(side) \/ ListIsLost(side) PROVE FALSE
    BY <2>6 DEF ListFails, ListIsLost, Fault
  <2>7. CASE DiffCopy
    <3>1. PICK l \in Line : /\ l \in Range(lines["src"])
                            /\ \A k \in Range(lines["dst"]) : k.name # l.name
      BY <2>7, CopyEffect
    <3>2. l.name \in NamesOf("src") /\ l.name \notin NamesOf("dst")
      BY <3>1 DEF NamesOf
    <3> QED BY <2>2, <2>7, <3>2 DEF DiffCopy, Diffing
  <2>8. CASE DiffExtra
    <3>1. UNCHANGED <<at, opts, copying>> /\ phase = "diff"
      BY <2>8 DEF DiffExtra, DiffUnchanged, Diffing
    <3>2. PICK l \in Line :
            /\ l \in Range(lines["dst"])
            /\ Range(lines["dst"]) = {l} \cup Range(lines'["dst"])
            /\ lines'["src"] = lines["src"]
            /\ \A k \in Range(lines'["dst"]) \cup Range(lines["src"]) : k.name # l.name
            /\ opts.d \/ UNCHANGED <<ops, issued>>
      BY <2>8, ExtraEffect
    <3>3. /\ l.name \in NamesOf("dst") /\ l.name \notin NamesOf("src")
          /\ NamesOf("src")' = NamesOf("src") /\ NamesOf("dst")' = NamesOf("dst") \ {l.name}
      BY <3>2 DEF NamesOf
    <3>4. ~opts.d
      BY <2>2, <3>1, <3>3
    <3> QED BY <2>2, <2>3, <3>1, <3>2, <3>3, <3>4
  <2>9. CASE DiffBoth
    <3>1. UNCHANGED <<at, opts, copying>> /\ phase = "diff"
      BY <2>9 DEF DiffBoth, DiffUnchanged, Diffing
    <3>2. PICK s \in Line, d \in Line :
            /\ s \in Range(lines["src"]) /\ d \in Range(lines["dst"]) /\ s.name = d.name
            /\ Range(lines["src"]) = {s} \cup Range(lines'["src"])
            /\ Range(lines["dst"]) = {d} \cup Range(lines'["dst"])
            /\ \A k \in Range(lines'["src"]) \cup Range(lines'["dst"]) : k.name # s.name
            /\ \/ Replaces(s.item, d.item, TimeOf(s.item))
               \/ TimeOf(s.item) # NoTime /\ d.item.mtime = NoTime
               \/ UNCHANGED <<ops, issued>>
      BY <2>9, BothEffect
    <3>3. /\ s.name \in DOMAIN Src /\ s.item = Src[s.name] /\ ~IsTemp(s.name)
      BY <2>2, <3>1, <3>2 DEF Fresh, LinesFresh, ContentInv, LinesOK
    <3>4. s.name \in DOMAIN Dst /\ d.item = Dst[s.name]
      BY <2>2, <3>1, <3>2, <3>3 DEF Fresh, LinesFresh
    <3>5. InSync(s.item, d.item)
      BY <2>2, <3>3, <3>4 DEF Synced
    <3>6. UNCHANGED <<ops, issued>>
      BY <3>2, <3>5 DEF InSync
    <3>7. /\ NamesOf("src")' = NamesOf("src") \ {s.name}
          /\ NamesOf("dst")' = NamesOf("dst") \ {s.name}
      BY <3>2 DEF NamesOf
    <3> QED BY <2>2, <2>3, <3>1, <3>6, <3>7
  <2>10. CASE DiffAborts
    BY <2>2, <2>10, NoAbort
  <2>11. CASE DiffEnds \/ Finish \/ UNCHANGED vars
    <3>1. /\ UNCHANGED <<at, opts, issued, ops, copying, lines>>
          /\ phase' # "diff" \/ phase' = phase
      BY <2>11 DEF DiffEnds, Finish, vars, work, history
    <3> QED BY <2>2, <2>3, <3>1 DEF NamesOf
  <2>12. ~(Crash \/ Change)
    BY DEF Crash, Change
  <2> QED BY <1>2, <2>2, <2>4, <2>5, <2>6, <2>7, <2>8, <2>9, <2>10, <2>11, <2>12 DEF Next
<1> QED BY <1>1, <1>2

\* A run that fails undisturbed leaves no temporary file behind, and a run
\* without them does not fail.
LEMMA HealNext ==
  ASSUME NoBackslash, StateTypes, ContentInv, TargetInv, DrainInv, CalmInv, HealInv, [Next]_vars
  PROVE  HealInv'
<1>1. CASE Begin
  <2>1. /\ phase = "idle" /\ lines' = [side \in Sides |-> <<>>] /\ failures' = 0
        /\ UNCHANGED <<at, ops, copying, streak>>
    BY <1>1 DEF Begin
  <2>2. Range(lines'["dst"]) = {} /\ ops' = {} /\ copying' = {}
    BY <2>1, NoneInEmpty DEF Sides, ContentInv, PhaseOK
  <2> QED BY <2>1, <2>2 DEF HealInv, Dst
<1>2. CASE Listed
  BY <1>2 DEF Listed, Checked, HealInv, work, history, Dst
<1>3. ASSUME NEW side \in Sides, List(side) PROVE HealInv'
  <2>1. /\ side \in listing
        /\ UNCHANGED <<at, opts, phase, ops, copying, failures, streak, disturbed>>
    BY <1>3 DEF List, history, bounds
  <2>2. phase = "listing"
    BY <2>1, Working
  <2>3. \/ lines'["dst"] = lines["dst"]
        \/ \A l \in Range(lines'["dst"]) : l.name \in DOMAIN Dst
    BY <1>3, ListedLines DEF Sides, Dst
  <2>4. streak = 1 => \A n \in DOMAIN Dst : ~IsTemp(n)
    BY <2>2 DEF HealInv
  <2>5. streak = 1 /\ ~disturbed => \A l \in Range(lines'["dst"]) : ~IsTemp(l.name)
    BY <2>2, <2>3, <2>4 DEF HealInv
  <2> QED BY <2>1, <2>5 DEF HealInv, Dst
<1>4. ASSUME NEW side \in Sides, ListFails(side) \/ ListIsLost(side) PROVE HealInv'
  BY <1>4 DEF ListFails, ListIsLost, Fault, HealInv, Dst
<1>5. CASE DiffCopy \/ DiffExtra \/ DiffBoth
  <2>1. /\ phase = "diff" /\ phase' = "diff"
        /\ UNCHANGED <<at, opts, copying, failures, streak, disturbed>>
    BY <1>5 DEF DiffCopy, DiffExtra, DiffBoth, DiffUnchanged, Diffing, bounds
  <2>2. PICK n \in Names :
            /\ n \in NamesOf("src") \/ n \in NamesOf("dst")
            /\ NamesOf("dst")' = NamesOf("dst") \ {n}
            /\ ops' = ops \/ \E op : ops' = ops \cup {op} /\ op.to = n
    BY <1>5, MergeTakes
  <2>3. n \in NamesOf("src") => ~IsTemp(n)
    BY DEF NamesOf, ContentInv, LinesOK
  <2>4. (\A l \in Range(lines["dst"]) : ~IsTemp(l.name)) <=> \A m \in NamesOf("dst") : ~IsTemp(m)
    BY DEF NamesOf
  <2>5. (\A l \in Range(lines'["dst"]) : ~IsTemp(l.name)) <=> \A m \in NamesOf("dst")' : ~IsTemp(m)
    BY DEF NamesOf
  <2>6. streak = 1 /\ ~disturbed => /\ \A l \in Range(lines'["dst"]) : ~IsTemp(l.name)
                                    /\ \A op \in ops' : ~IsTemp(op.to)
    BY <2>1, <2>2, <2>3, <2>4, <2>5 DEF HealInv
  <2> QED BY <2>1, <2>6 DEF HealInv, Dst
<1>6. CASE DiffAborts \/ DiffEnds \/ UNCHANGED vars
  BY <1>6 DEF DiffAborts, DiffEnds, Diffing, HealInv, vars, work, history, bounds, Dst
<1>7. ASSUME NEW op \in ops, RemoveExtra(op) PROVE HealInv'
  <2>1. UNCHANGED <<opts, phase, listing, lines, aborted, copying>> /\ phase # "listing"
          /\ phase # "idle"
    BY <1>7, Working DEF RemoveExtra, WorkUnchanged
  <2>2. /\ ops' = ops \ {op}
        /\ \/ DOMAIN Dst' = DOMAIN Dst \ {op.to} /\ UNCHANGED <<failures, disturbed, bounds>>
           \/ disturbed' = TRUE /\ UNCHANGED streak
    BY <1>7, RemoveEffect
  <2>3. streak' = streak
    BY <2>2 DEF bounds
  <2>4. ASSUME streak = 1, ~disturbed'
        PROVE  /\ failures' = 0
               /\ opts.dir = "down" => \A c \in copying : Temp(c.to) \in DOMAIN Dst'
    <3>1. ~disturbed /\ failures' = failures /\ DOMAIN Dst' = DOMAIN Dst \ {op.to}
      BY <2>2, <2>4
    <3>2. ~IsTemp(op.to)
      BY <2>1, <2>4, <3>1 DEF HealInv
    <3>3. \A c \in copying : IsTemp(Temp(c.to))
      BY Temps DEF StateTypes, Copy, ContentInv, CopiesOK
    <3> QED BY <2>1, <2>4, <3>1, <3>2, <3>3 DEF HealInv
  <2>5. disturbed' = disturbed \/ disturbed' = TRUE
    BY <2>2
  <2> QED BY <2>1, <2>2, <2>3, <2>4, <2>5 DEF HealInv
<1>8. ASSUME NEW op \in ops, SetMtime(op) PROVE HealInv'
  <2>1. UNCHANGED <<opts, phase, listing, lines, copying, failures>> /\ phase # "listing"
          /\ phase # "idle"
    BY <1>8, Working DEF SetMtime, WorkUnchanged
  <2>2. \/ DOMAIN Dst' = DOMAIN Dst /\ ops' = ops \ {op} /\ UNCHANGED <<disturbed, bounds>>
        \/ disturbed' = TRUE /\ UNCHANGED streak
    BY <1>8, MtimeEffect
  <2> QED BY <2>1, <2>2 DEF HealInv, bounds
<1>9. ASSUME NEW op \in ops, StartCopy(op) PROVE HealInv'
  <2>1. UNCHANGED <<opts, phase, listing, lines>> /\ phase # "listing" /\ phase # "idle"
    BY <1>9, Working DEF StartCopy, WorkUnchanged
  <2> DEFINE c == [from |-> op.from, to |-> op.to, mtime |-> op.mtime, item |-> Src[op.from]]
  <2>2. /\ op.act = "COPY" /\ ops' = ops \ {op} /\ UNCHANGED <<disturbed, bounds>>
        /\ \/ op.from \notin DOMAIN Src
           \/ /\ copying' = copying \cup {c} /\ failures' = failures
              /\ \/ opts.dir # "down"
                 \/ DOMAIN Dst' = (DOMAIN Dst \ {op.to}) \cup {Temp(op.to)}
    BY <1>9, StartEffect
  <2>3. c.to = op.to
    OBVIOUS
  <2> HIDE DEF c
  <2>4. ~IsTemp(op.to) /\ op.from = op.to
    BY <2>2 DEF ContentInv, OpsOK
  <2>5. ASSUME streak = 1, ~disturbed
        PROVE  /\ failures' = 0
               /\ opts.dir = "down" => \A y \in copying' : Temp(y.to) \in DOMAIN Dst'
    <3>1. op.to \in DOMAIN Src
      BY <2>2, <2>5 DEF CalmInv, Fresh, WorkFresh
    <3>2. \A y \in copying : IsTemp(Temp(y.to))
      BY Temps DEF StateTypes, Copy, ContentInv, CopiesOK
    <3> QED BY <2>1, <2>2, <2>3, <2>4, <2>5, <3>1, <3>2 DEF HealInv
  <2> QED BY <2>1, <2>2, <2>5 DEF HealInv, bounds
<1>10. ASSUME NEW c \in copying, FinishCopy(c) PROVE HealInv'
  <2>1. UNCHANGED <<opts, phase, listing, lines>> /\ phase # "listing" /\ phase # "idle"
    BY <1>10, Working DEF FinishCopy, WorkUnchanged
  <2>2. /\ copying' = copying \ {c} /\ ops' = ops
        /\ \/ /\ DOMAIN Dst' = (DOMAIN Dst \ (IF opts.dir = "down" THEN {Temp(c.to)}
                                              ELSE {})) \cup {c.to}
              /\ UNCHANGED <<failures, disturbed, bounds>>
           \/ /\ UNCHANGED streak
              /\ \/ /\ opts.dir = "down" /\ Temp(c.to) \notin DOMAIN Dst
                    /\ UNCHANGED <<disturbed, bounds>>
                 \/ disturbed' = TRUE
    BY <1>10, FinishEffect
  <2>3. streak' = streak
    BY <2>2 DEF bounds
  <2>4. \A y \in copying' : y \in copying /\ Temp(y.to) # Temp(c.to)
    <3>1. ASSUME NEW y \in copying'
          PROVE  y \in copying /\ y.to # c.to /\ y.to \in Names
      BY <2>2, <2>2 DEF TargetInv, StateTypes, Copy
    <3>2. c.to \in Names /\ ~IsTemp(c.to)
      BY DEF StateTypes, Copy, ContentInv, CopiesOK
    <3> QED BY <3>1, <3>2, Temps
  <2>5. ASSUME streak = 1, ~disturbed'
        PROVE  /\ failures' = 0 /\ ~disturbed
               /\ opts.dir = "down" => \A y \in copying' : Temp(y.to) \in DOMAIN Dst'
    <3>1. ~disturbed
      BY <2>2, <2>5
    <3>2. opts.dir = "down" => \A y \in copying : Temp(y.to) \in DOMAIN Dst
      BY <2>1, <2>5, <3>1 DEF HealInv
    <3>3. failures = 0
      BY <2>1, <2>5, <3>1 DEF HealInv
    <3> QED BY <2>2, <2>4, <2>5, <3>1, <3>2, <3>3
  <2> QED BY <2>1, <2>2, <2>3, <2>5 DEF HealInv
<1>11. CASE Finish
  <2>1. /\ phase = "drain" /\ phase' = "idle" /\ ops = {} /\ copying = {} /\ at' = at
        /\ exit' = (IF failures = 0 /\ ~aborted THEN "ok" ELSE "failed")
        /\ streak' = (IF exit' = "ok" \/ disturbed THEN 0 ELSE streak + 1)
    BY <1>11 DEF Finish
  <2>2. CASE exit' = "ok" \/ disturbed
    BY <2>1, <2>2 DEF HealInv
  <2>3. CASE exit' # "ok" /\ ~disturbed
    <3>1. Fresh
      BY <2>3 DEF CalmInv
    <3>2. ~aborted /\ failures # 0 /\ opts.d
      BY <2>1, <2>3, <3>1 DEF Fresh, FailuresInv
    <3>3. streak = 0
      BY <2>1, <2>3, <3>2 DEF HealInv
    <3>4. NamesOf("dst") = {}
      BY <2>1, <3>2, NoneInEmpty DEF DrainInv, NamesOf
    <3>5. \A n \in DOMAIN Dst : n \in DOMAIN Src
      BY <2>1, <3>1, <3>2, <3>4 DEF Fresh, NothingExtra, Merging
    <3>6. \A n \in DOMAIN Dst : ~IsTemp(n)
      BY <3>5 DEF ContentInv, AtOK
    <3>7. streak' = 1 /\ Dst' = Dst
      BY <2>1, <2>3, <3>3 DEF Dst
    <3> QED BY <2>1, <3>6, <3>7 DEF HealInv
  <2> QED BY <2>2, <2>3
<1>12. CASE Crash
  BY <1>12 DEF Crash, HealInv
<1>13. CASE Change
  <2>1. Dst' = Dst /\ disturbed' = TRUE /\ UNCHANGED <<phase, streak>>
    BY <1>13, ChangeEffect
  <2> QED BY <2>1 DEF HealInv
<1> QED BY <1>1, <1>2, <1>3, <1>4, <1>5, <1>6, <1>7, <1>8, <1>9, <1>10, <1>11, <1>12, <1>13 DEF Next

\* -d yields a removal only for a name that the source does not hold.
LEMMA RemovesNext ==
  ASSUME NoBackslash, StateTypes, ContentInv, StableInv, CalmInv, RemovesOnlyExtras, [Next]_vars
  PROVE  RemovesOnlyExtras'
<1> SUFFICES ASSUME ~disturbed' PROVE RemovesOnlyExtras'
  BY DEF RemovesOnlyExtras
<1>1. CASE Begin
  BY <1>1 DEF Begin, RemovesOnlyExtras
<1>2. CASE issued' = issued /\ Src' = Src /\ ~disturbed
  BY <1>2 DEF RemovesOnlyExtras, Src
<1>3. CASE Listed \/ DiffAborts \/ DiffEnds \/ Finish \/ UNCHANGED vars
  BY <1>2, <1>3 DEF Listed, DiffAborts, DiffEnds, Finish, vars, history, Src
<1>4. ASSUME NEW side \in Sides, List(side) PROVE RemovesOnlyExtras'
  BY <1>2, <1>4 DEF List, history, Src
<1>5. ASSUME NEW side \in Sides, ListFails(side) \/ ListIsLost(side) PROVE FALSE
  BY <1>5 DEF ListFails, ListIsLost, Fault
<1>6. ~(Crash \/ Change)
  BY DEF Crash, Change
<1>7. ASSUME NEW op \in ops, RemoveExtra(op) \/ SetMtime(op) \/ StartCopy(op)
      PROVE  RemovesOnlyExtras'
  <2>1. Src' = Src
    BY <1>7, RemoveEffect, MtimeEffect, StartEffect
  <2> QED BY <1>2, <1>7, <2>1 DEF RemoveExtra, SetMtime, StartCopy, WorkUnchanged, Calm, Fault
<1>8. ASSUME NEW c \in copying, FinishCopy(c) PROVE RemovesOnlyExtras'
  <2>1. Src' = Src
    BY <1>8, FinishEffect
  <2> QED BY <1>2, <1>8, <2>1 DEF FinishCopy, WorkUnchanged, Calm, Fault
<1>9. CASE DiffCopy \/ DiffExtra \/ DiffBoth
  <2>1. Src' = Src /\ ~disturbed /\ phase = "diff"
    BY <1>9 DEF DiffCopy, DiffExtra, DiffBoth, DiffUnchanged, Diffing, Src
  <2>2. CASE DiffExtra
    <3>1. PICK l \in Line :
            /\ l \in Range(lines["dst"])
            /\ \A k \in Range(lines'["dst"]) \cup Range(lines["src"]) : k.name # l.name
            /\ \/ issued' = issued \cup {[act |-> "REMOVE", from |-> <<>>,
                                          to |-> l.name, mtime |-> NoTime]}
               \/ UNCHANGED <<ops, issued>>
      BY <2>2, ExtraEffect
    <3>2. l.name \in NamesOf("dst") /\ l.name \notin NamesOf("src")
      BY <3>1 DEF NamesOf
    <3>3. l.name \notin DOMAIN Src
      BY <2>1, <3>2 DEF StableInv, CalmInv, Fresh, FailuresInv
    <3> QED BY <2>1, <3>1, <3>3 DEF RemovesOnlyExtras, Src
  <2>3. CASE DiffCopy \/ DiffBoth
    <3>1. issued' = issued \/ \E op : issued' = issued \cup {op} /\ op.act # "REMOVE"
      <4>1. CASE DiffCopy
        BY <4>1 DEF DiffCopy, Yield
      <4>2. CASE DiffBoth
        <5>1. \/ Yield("COPY", Source.name, Target.name, Source.item.mtime)
              \/ Yield("MTIME", Source.name, Target.name, Source.item.mtime)
              \/ issued' = issued
          BY <4>2 DEF DiffBoth
        <5> QED BY <5>1 DEF Yield
      <4> QED BY <2>3, <4>1, <4>2
    <3> QED BY <2>1, <3>1 DEF RemovesOnlyExtras, Src
  <2> QED BY <1>9, <2>2, <2>3
<1> QED BY <1>1, <1>3, <1>4, <1>5, <1>6, <1>7, <1>8, <1>9 DEF Next

-----------------------------------------------------------------------------
(* The theorems.                                                           *)

\* The inductive invariant.
RsInv ==
    /\ StateTypes /\ ContentInv /\ TargetInv /\ StableInv /\ KeepInv
    /\ DrainInv /\ CalmInv /\ SettledInv /\ HealInv /\ RemovesOnlyExtras

\* The invariant holds at first.
LEMMA RsInitInv == Init => RsInv
<1> SUFFICES ASSUME Init PROVE RsInv
  OBVIOUS
<1>1. PICK s \in Initials, d \in Initials :
           /\ opts.dir = "down" => HasTimes(d)
           /\ at = [src |-> s, dst |-> d]
  BY DEF Init
<1>2. Src = s /\ Dst = d
  BY <1>1 DEF Src, Dst
<1>3. ASSUME NEW f \in Initials
      PROVE  f \in Held /\ \A n \in DOMAIN f : ~IsTemp(n) /\ f[n] \in Items
  <2>1. f \in [DOMAIN f -> Items] /\ DOMAIN f \subseteq Names /\ \A n \in DOMAIN f : ~IsTemp(n)
    BY InitialsAssumption
  <2>2. Items \subseteq Entry
    BY ItemsAssumption DEF Entry
  <2>3. f \in [DOMAIN f -> Entry]
    BY <2>1, <2>2
  <2> QED BY <2>1, <2>3 DEF Held
<1>4. at \in [Sides -> Held]
  BY <1>1, <1>3 DEF Sides
<1>5. /\ opts \in Options /\ phase = "idle" /\ listing = {}
      /\ lines = [side \in Sides |-> <<>>] /\ abandon = FALSE /\ aborted = FALSE
      /\ ops = {} /\ copying = {} /\ failures = 0 /\ exit = "none" /\ issued = {}
      /\ before = at["dst"] /\ stable = {} /\ unlisted = FALSE /\ disturbed = FALSE
      /\ settled = FALSE /\ streak = 0
  BY DEF Init
<1>6. /\ lines \in [Sides -> Seq(Line)] /\ \A side \in Sides : Sorted(lines[side])
      /\ Range(lines["src"]) = {} /\ Range(lines["dst"]) = {}
  BY <1>5, EmptyLines, NoneInEmpty DEF Sides
<1>7. StateTypes
  <2>1. failures \in Nat /\ streak \in Nat
    BY <1>5
  <2>2. /\ abandon \in BOOLEAN /\ aborted \in BOOLEAN /\ unlisted \in BOOLEAN
        /\ disturbed \in BOOLEAN /\ settled \in BOOLEAN
    BY <1>5
  <2> QED BY <1>4, <1>5, <1>6, <2>1, <2>2 DEF StateTypes
<1>8. AtOK
  <2>1. \A n \in DOMAIN Dst : Fits(n, Dst[n])
    BY <1>1, <1>2, <1>3 DEF Fits, HasTimes
  <2> QED BY <1>2, <1>3, <2>1 DEF AtOK
<1>9. ContentInv
  BY <1>5, <1>6, <1>8 DEF ContentInv, LinesOK, OpsOK, CopiesOK, PhaseOK
<1>10. TargetInv /\ StableInv /\ KeepInv /\ DrainInv
  BY <1>5, <1>6 DEF TargetInv, StableInv, KeepInv, DrainInv, Holds, Dst
<1>11. CalmInv
  BY <1>5 DEF CalmInv, Fresh, LinesFresh, WorkFresh, NothingMissing, NothingExtra,
     FailuresInv, AtEnd, Merging
<1>12. SettledInv /\ RemovesOnlyExtras
  BY <1>5 DEF SettledInv, RemovesOnlyExtras
<1>13. HealInv
  BY <1>5 DEF HealInv
<1> QED BY <1>7, <1>9, <1>10, <1>11, <1>12, <1>13 DEF RsInv

\* Every step keeps it.
LEMMA RsInvNext == ASSUME NoBackslash, RsInv, [Next]_vars PROVE RsInv'
BY RsTypesNext, TargetNext, StableNext, KeepNext, DrainNext, CalmNext, SettledNext, HealNext,
   RemovesNext DEF RsInv

\* The invariant holds always.
LEMMA RsInvHolds == ASSUME NoBackslash PROVE Spec => []RsInv
<1>1. Init => RsInv
  BY RsInitInv
<1>2. RsInv /\ [Next]_vars => RsInv'
  BY RsInvNext
<1> QED BY <1>1, <1>2, PTL DEF Spec

\* Types: each name, line, operation and copy of a run of rsync.py is of its
\* kind, temporary files are on the destination's side alone, and no two workers
\* copy to one name.
THEOREM RsTypesHold == ASSUME NoBackslash PROVE Spec => []TypeOK
<1>1. RsInv => TypeOK
  <2> SUFFICES ASSUME RsInv PROVE TypeOK
    OBVIOUS
  <2>1. StateTypes /\ ContentInv /\ TargetInv
    BY DEF RsInv
  <2>2. \A n \in DOMAIN Src : /\ n \in Names
                              /\ Src[n].data \in {i.data : i \in Items \cup {Partial}}
                              /\ IsTemp(n) <=> Src[n] = Partial
    <3>1. DOMAIN Src \subseteq Names
      BY <2>1, SidesHold DEF Held
    <3>2. ASSUME NEW n \in DOMAIN Src
          PROVE  ~IsTemp(n) /\ Src[n] \in Items
      BY <2>1 DEF ContentInv, AtOK
    <3>3. Partial \notin Items
      BY ItemsAssumption DEF Partial
    <3> QED BY <3>1, <3>2, <3>3
  <2>3. \A n \in DOMAIN Dst : /\ n \in Names
                              /\ Dst[n].data \in {i.data : i \in Items \cup {Partial}}
                              /\ IsTemp(n) <=> Dst[n] = Partial
    <3>1. DOMAIN Dst \subseteq Names
      BY <2>1, SidesHold DEF Held
    <3>2. ASSUME NEW n \in DOMAIN Dst
          PROVE  Fits(n, Dst[n])
      BY <2>1 DEF ContentInv, AtOK
    <3>3. ASSUME NEW i \in Items PROVE i.data # Partial.data
      BY ItemsAssumption DEF Partial
    <3> QED BY <3>1, <3>2, <3>3 DEF Fits
  <2>4. Cardinality(Targets) = Cardinality(copying)
    <3>1. \A x, y \in copying : x.to = y.to => x = y
      BY <2>1 DEF TargetInv
    <3>2. Targets \subseteq Names
      BY <2>1 DEF Targets, StateTypes, Copy
    <3>3. IsFiniteSet(Targets)
      BY <3>2, NamesAssumption, FS_Subset
    <3> DEFINE f == [t \in Targets |-> CHOOSE c \in copying : c.to = t]
    <3>4. \A t \in Targets : f[t] \in copying /\ f[t].to = t
      BY DEF Targets
    <3>5. \A c \in copying : c.to \in Targets /\ f[c.to] = c
      BY <3>1, <3>4 DEF Targets
    <3>6. f \in [Targets -> copying]
      BY <3>4
    <3> HIDE DEF f
    <3>7. f \in Bijection(Targets, copying)
      BY <3>4, <3>5, <3>6 DEF Bijection, Injection, Surjection, IsInjective
    <3> QED BY <3>3, <3>7, FS_Bijection DEF ExistsBijection
  <2> QED BY <2>1, <2>2, <2>3, <2>4 DEF TypeOK, StateTypes, Sides, Src, Dst, Targets
<1> QED BY <1>1, RsInvHolds, PTL

\* An rsync that exits with 0, no request of which failed and with nobody
\* changing the source meanwhile, leaves the destination in sync with it: what
\* _DiffIterator leaves alone is alike, what it yields is carried out or counted
\* in the failures that RunCommand looks at, and with -d nothing else remains.
THEOREM SuccessIsInSyncHolds == ASSUME NoBackslash PROVE Spec => []SuccessIsInSync
<1>1. RsInv => SuccessIsInSync
  <2> SUFFICES ASSUME RsInv, phase = "idle", exit = "ok", ~disturbed
               PROVE  /\ \A n \in DOMAIN Src : Holds(n) /\ Alike(Src[n], Dst[n])
                      /\ opts.d => DOMAIN Dst \subseteq DOMAIN Src
    BY DEF SuccessIsInSync, Src, Dst
  <2>1. StateTypes /\ ContentInv /\ AtEnd
    BY DEF RsInv, CalmInv, Fresh
  <2>2. ASSUME NEW n \in DOMAIN Src
        PROVE  Holds(n) /\ Alike(Src[n], Dst[n])
    <3>1. n \in DOMAIN Dst /\ InSync(Src[n], Dst[n])
      BY <2>1 DEF AtEnd, Synced
    <3>2. Src[n] \in Items /\ Dst[n] \in Entry /\ opts \in Options
      BY <2>1, <3>1, SidesHold DEF ContentInv, AtOK, Held, StateTypes
    <3>3. ASSUME NEW s \in Items, NEW d \in Entry, InSync(s, d)
          PROVE  Alike(s, d)
      BY <3>2, <3>3, InSyncAlike
    <3> QED BY <3>1, <3>2, <3>3 DEF Holds, Dst
  <2> QED BY <2>1, <2>2 DEF AtEnd
<1> QED BY <1>1, RsInvHolds, PTL

\* Whatever the order in which _RsyncFunc is called, whatever fails, whoever
\* interferes and wherever a run is killed: a name that the source holds
\* throughout does not vanish from the destination, unless its own copy failed.
\* Exempt are the runs of which a listing was cut short unnoticed.
THEOREM KeepsWhatSourceHasHolds == ASSUME NoBackslash PROVE Spec => []KeepsWhatSourceHas
<1>1. RsInv => KeepsWhatSourceHas
  <2> SUFFICES ASSUME RsInv PROVE KeepsWhatSourceHas
    OBVIOUS
  <2>1. phase = "idle" => Targets = {}
    BY DEF RsInv, ContentInv, PhaseOK, Targets
  <2>2. KeepInv
    BY DEF RsInv
  <2> QED BY <2>1, <2>2 DEF KeepInv, KeepsWhatSourceHas
<1> QED BY <1>1, RsInvHolds, PTL

\* A second rsync has nothing to do: what _RsyncFunc writes, with its data and
\* mtime, is what _CompareObjects takes for equal, for all combinations of flags.
THEOREM SettledRunIsIdleHolds == ASSUME NoBackslash PROVE Spec => []SettledRunIsIdle
<1>1. RsInv => SettledRunIsIdle
  BY DEF RsInv, SettledInv, SettledRunIsIdle
<1> QED BY <1>1, RsInvHolds, PTL

\* An rsync that failed with no fault and no interference, because -d removed a
\* temporary file of its own, succeeds the second time.
THEOREM RetryHealsHolds == ASSUME NoBackslash PROVE Spec => []RetryHeals
<1>1. RsInv => RetryHeals
  BY DEF RsInv, HealInv, RetryHeals
<1> QED BY <1>1, RsInvHolds, PTL

\* -d removes extras only, as rsync.py:391 says: for names without a backslash
\* the merge never takes a name that both sides hold for two.
THEOREM RemovesOnlyExtrasHolds == ASSUME NoBackslash PROVE Spec => []RemovesOnlyExtras
<1>1. RsInv => RemovesOnlyExtras
  BY DEF RsInv
<1> QED BY <1>1, RsInvHolds, PTL

-----------------------------------------------------------------------------
(* RemoveObjects: the invariant.                                           *)

\* The types that the other conjuncts, and the proofs, rely on.
RmTypes ==
    /\ RmTypeOK
    /\ command \in Commands
    /\ bucketsLeft \in Seq(Urls) /\ reached \subseteq Urls
    /\ kept \subseteq Objects
    /\ ~command.parallel => \A a, b \in tasks : a = b
    /\ refused \in BOOLEAN /\ written \in BOOLEAN /\ gone \subseteq Buckets

\* Objects are expanded and deleted in two stages only.
StageInv ==
    /\ ~Expanding => listed = {} /\ tasks = {}
    /\ stage = "folders" => \A o \in listed \cup tasks : o.folder
    /\ stage \in {"folders", "buckets", "end"} \/ status = "ok" => bucketNotFound = 0

\* A bucket to be deleted is still in the list or gone.
BucketsInv ==
    /\ \A url \in Range(ToDelete) :
          url \in Range(bucketsLeft) \/ url.bucket \notin store.buckets
    /\ stage = "end" \/ status = "ok" => bucketsLeft = <<>>
    /\ status = "ok" => opFailures = 0

\* What an argument asked for and is there since the start.
Missed(url) == {o \in kept \cap store.objects : ~o.folder /\ Asked(o, url)}

\* Unless a failure was counted, what a listed argument asked for is on its way.
ReachInv ==
    status # "failed" /\ opFailures = 0 =>
        \A url \in reached : Missed(url) \subseteq listed \cup tasks

\* With -f or -m every argument gets its turn.
ForceInv ==
    command.force /\ opFailures = 0 /\ bucketNotFound = 0 /\ status # "failed" =>
        \A url \in Range(command.urls) :
            url \in reached \/ (stage = "objects" /\ url \in Range(urls))

\* The premise of NoFalseAlarm.
Untroubled ==
    /\ command.force /\ ~refused /\ ~written
    /\ Range(command.urls) = Range(ToDelete) /\ IsInjective(command.urls)
    /\ bucketNotFound = 0

\* The objects of the bucket of a URL.
Contents(url) == {o \in store.objects : o.bucket = url.bucket}

\* No failure is counted; every bucket to be deleted is still to be listed, or
\* has all its objects under way; and it is there, or known to have gone.
Quiet ==
    /\ opFailures = 0 /\ failureCount <= 0
    /\ status = "failed" => AlarmAtGone
    /\ stage = "objects" => Range(urls) \subseteq Range(ToDelete)
    /\ stage = "folders" => Drained
    /\ IsInjective(bucketsLeft) /\ Range(bucketsLeft) \subseteq Range(ToDelete)
    /\ \A url \in Range(bucketsLeft) :
          \/ stage = "objects" /\ url \in Range(urls)
          \/ /\ url.bucket \in store.buckets \cup gone
             /\ Contents(url) \subseteq listed \cup tasks

\* Until something troubles it, rm is quiet.
AlarmInv == Untroubled => Quiet

\* The inductive invariant.
RmInv == RmTypes /\ StageInv /\ BucketsInv /\ ReachInv /\ ForceInv /\ AlarmInv

\* What Arguments gives: the arguments at these places, each place once.
LEMMA ArgumentsAt ==
  ASSUME command.urls \in Seq(Urls), NEW places \in SUBSET (DOMAIN command.urls)
  PROVE  /\ Arguments(places) \in Seq(Urls)
         /\ Range(Arguments(places)) = {command.urls[i] : i \in places}
         /\ IsInjective(command.urls) => IsInjective(Arguments(places))
<1> DEFINE R == {e \in places \X places : e[1] < e[2]}
           Rising(p) == \A i, j \in DOMAIN p : i < j => p[i] < p[j]
           order == CHOOSE p \in SetToSeqs(places) : Rising(p)
           N == Cardinality(places)
<1>1. DOMAIN command.urls = 1..Len(command.urls) /\ Len(command.urls) \in Nat
  OBVIOUS
<1>2. IsFiniteSet(places)
  <2>1. IsFiniteSet(1..Len(command.urls))
    BY <1>1, FS_Interval
  <2> QED BY <1>1, <2>1, FS_Subset
<1>3. places \subseteq Nat
  BY <1>1
<1>4. \A x, y \in places : <<x, y>> \in R <=> x < y
  OBVIOUS
<1> HIDE DEF R
<1>5. PICK p \in SetToSeqs(places) : \A i, j \in DOMAIN p : i < j => <<p[i], p[j]>> \in R
  <2>1. \A x \in places : <<x, x>> \notin R
    BY <1>3, <1>4
  <2>2. \A x, y, z \in places : <<x, y>> \in R /\ <<y, z>> \in R => <<x, z>> \in R
    BY <1>3, <1>4
  <2>3. ASSUME NEW x \in places, NEW y \in places
        PROVE  x = y \/ <<x, y>> \in R \/ <<y, x>> \in R
    <3>1. x = y \/ x < y \/ y < x
      BY <1>3
    <3> QED BY <1>4, <3>1
  <2> QED BY <1>2, <2>1, <2>2, <2>3, InOrder
<1>6. N \in Nat /\ p \in [1..N -> places]
  BY <1>2, ListsAll
<1>7. Rising(p)
  BY <1>4, <1>5, <1>6
<1>8. order \in SetToSeqs(places)
  BY <1>7
<1> HIDE DEF order
<1>9. /\ order \in [1..N -> places]
      /\ \A i, j \in 1..N : i # j => order[i] # order[j]
      /\ \A x \in places : \E i \in 1..N : order[i] = x
  BY <1>2, <1>8, ListsAll
<1>10. Arguments(places) = [k \in DOMAIN order |-> command.urls[order[k]]]
  BY DEF Arguments, order
<1>11. DOMAIN order = 1..N
  BY <1>9
<1> HIDE DEF N
<1>12. \A k \in 1..N : order[k] \in DOMAIN command.urls /\ command.urls[order[k]] \in Urls
  BY <1>9
<1>13. Arguments(places) \in [1..N -> Urls]
  BY <1>10, <1>11, <1>12
<1>14. Arguments(places) \in Seq(Urls)
  BY <1>6, <1>13
<1>15. DOMAIN Arguments(places) = 1..N
  BY <1>13
<1>16. \A k \in 1..N : Arguments(places)[k] = command.urls[order[k]]
  BY <1>10, <1>11
<1>17. Range(Arguments(places)) = {command.urls[i] : i \in places}
  BY <1>9, <1>15, <1>16 DEF Range
<1>18. ASSUME IsInjective(command.urls) PROVE IsInjective(Arguments(places))
  BY <1>9, <1>12, <1>15, <1>16, <1>18 DEF IsInjective
<1> QED BY <1>14, <1>17, <1>18

\* The buckets among the arguments, and the others.
LEMMA ArgumentsSplit ==
  ASSUME command \in Commands
  PROVE  /\ command.urls \in Seq(Urls) /\ command.urls # <<>>
         /\ ToDelete \in Seq(Urls) /\ FolderUrls \in Seq(Urls)
         /\ Range(ToDelete) = {url \in Range(command.urls) : IsBucket(url)}
         /\ Range(FolderUrls) = {url \in Range(command.urls) : ~IsBucket(url)}
         /\ IsInjective(command.urls) => IsInjective(ToDelete)
<1>1. command.urls \in Seq(Urls) /\ command.urls # <<>>
  BY CommandsAssumption
<1> DEFINE Bs == {i \in DOMAIN command.urls : IsBucket(command.urls[i])}
           Fs == {i \in DOMAIN command.urls : ~IsBucket(command.urls[i])}
<1>2. Bs \in SUBSET (DOMAIN command.urls) /\ Fs \in SUBSET (DOMAIN command.urls)
  OBVIOUS
<1>3. /\ Arguments(Bs) \in Seq(Urls)
      /\ Range(Arguments(Bs)) = {command.urls[i] : i \in Bs}
      /\ IsInjective(command.urls) => IsInjective(Arguments(Bs))
  BY <1>1, <1>2, ArgumentsAt
<1>4. /\ Arguments(Fs) \in Seq(Urls)
      /\ Range(Arguments(Fs)) = {command.urls[i] : i \in Fs}
  BY <1>1, <1>2, ArgumentsAt
<1>5. ToDelete = Arguments(Bs) /\ FolderUrls = Arguments(Fs)
  BY DEF ToDelete, FolderUrls
<1>6. /\ {command.urls[i] : i \in Bs} = {url \in Range(command.urls) : IsBucket(url)}
      /\ {command.urls[i] : i \in Fs} = {url \in Range(command.urls) : ~IsBucket(url)}
  BY DEF Range
<1> QED BY <1>1, <1>3, <1>4, <1>5, <1>6

\* The lists of arguments depend on the command line alone.
LEMMA SameArguments ==
  command' = command => ToDelete' = ToDelete /\ FolderUrls' = FolderUrls
  BY DEF ToDelete, FolderUrls, Arguments

\* A raise leaves no more to expand of its argument; which count grows, and
\* whether the command goes on, depends on the stage and the kind.
LEMMA Raises ==
  ASSUME RmTypes, MayExpand, NEW kind, IteratorRaises(kind)
  PROVE  /\ urls # <<>> /\ listed = {} /\ listed' = {}
         /\ urls' \in {<<>>, Tail(urls)}
         /\ \/ /\ stage = "objects" /\ ~command.force /\ kind = "bucket"
               /\ stage' = "checks" /\ tasks = {} /\ UNCHANGED <<status, counts>>
            \/ /\ stage = "objects" /\ ~command.force /\ kind # "bucket"
               /\ stage' = "done" /\ status' = "failed" /\ tasks = {}
               /\ failureCount' = failureCount + 1
               /\ UNCHANGED <<opFailures, bucketNotFound>>
            \/ /\ stage = "objects" /\ command.force /\ UNCHANGED <<stage, status>>
               /\ \/ /\ kind = "missing" /\ failureCount' = failureCount + 1
                     /\ bucketNotFound' = bucketNotFound + 1
                     /\ UNCHANGED opFailures
                  \/ /\ kind = "bucket" /\ urls' = Tail(urls)
                     /\ UNCHANGED counts
                  \/ /\ kind \notin {"missing", "bucket"}
                     /\ failureCount' = failureCount + 1
                     /\ opFailures' = opFailures + 1
                     /\ UNCHANGED bucketNotFound
            \/ /\ stage = "folders"
               /\ failureCount' \in {failureCount, failureCount + 1}
               /\ UNCHANGED <<stage, status, opFailures, bucketNotFound>>
<1> USE DEF MayExpand, Expanding, IteratorRaises, FailFast, Continues, Raise,
            Counted, counts
<1>1. urls # <<>> /\ listed = {} /\ listed' = {} /\ urls' \in {<<>>, Tail(urls)}
  OBVIOUS
<1>2. ~command.force => ~command.parallel
  BY CommandsAssumption DEF RmTypes
<1>3. CASE FailFast
  BY <1>2, <1>3 DEF GoTo, Exit
<1>4. CASE stage = "objects" /\ command.force
  <2>1. Handler(kind) /\ UNCHANGED <<stage, status>>
        /\ (kind = "bucket" => urls' = Tail(urls))
    BY <1>4 DEF GoTo
  <2>2. CASE kind = "missing" BY <1>4, <2>1, <2>2 DEF Handler
  <2>3. CASE kind = "bucket" BY <1>4, <2>1, <2>3 DEF Handler
  <2>4. CASE kind \notin {"missing", "bucket"} BY <1>4, <2>1, <2>4 DEF Handler
  <2> QED BY <1>1, <2>2, <2>3, <2>4
<1>5. CASE stage = "folders"
  <2>1. Handler(kind) /\ UNCHANGED <<stage, status>>
    BY <1>5 DEF GoTo
  <2>2. failureCount' \in {failureCount, failureCount + 1}
          /\ UNCHANGED <<opFailures, bucketNotFound>>
    BY <1>5, <2>1 DEF Handler
  <2> QED BY <1>1, <1>5, <2>1, <2>2
<1> QED BY <1>1, <1>3, <1>4, <1>5

\* A refused request ends the command or is counted.
LEMMA Denied ==
  ASSUME RmTypes, NEW o \in tasks, DeleteFails(o)
  PROVE  \/ /\ stage' = "done" /\ status' = "failed"
            /\ tasks' = {} /\ listed' = {} /\ urls' = <<>>
            /\ failureCount' = failureCount + 1
            /\ UNCHANGED <<opFailures, bucketNotFound>>
         \/ /\ tasks' = tasks \ {o} /\ UNCHANGED <<stage, status, urls, listed>>
            /\ failureCount' = failureCount + 1
            /\ UNCHANGED bucketNotFound
            /\ opFailures' = IF stage = "folders" THEN opFailures
                             ELSE opFailures + 1
<1> USE DEF DeleteFails
<1>1. CASE FailFast
  BY <1>1 DEF Raise, Counted, Exit, counts
<1>2. CASE ~FailFast
  <2>1. Handler("denied") /\ tasks' = tasks \ {o} /\ RunGoesOn
    BY <1>2
  <2>2. CASE stage = "folders" BY <2>1, <2>2 DEF Handler, Counted, RunGoesOn
  <2>3. CASE stage # "folders" BY <2>1, <2>3 DEF Handler, Counted, RunGoesOn
  <2> QED BY <2>2, <2>3
<1> QED BY <1>1, <1>2

\* One thread has one task.
LEMMA FewTasks ==
  ASSUME RmTypes, tasks' \subseteq tasks
  PROVE  ~command.parallel => Cardinality(tasks') <= 1
<1> SUFFICES ASSUME ~command.parallel PROVE Cardinality(tasks') <= 1
  OBVIOUS
<1>1. \A a, b \in tasks' : a = b
  BY DEF RmTypes
<1>2. CASE tasks' = {} BY <1>2, FS_EmptySet
<1>3. CASE tasks' # {}
  <2>1. PICK a \in tasks' : tasks' = {a}
    BY <1>1, <1>3
  <2>2. Cardinality(tasks') = 1
    BY <2>1, FS_Singleton
  <2> QED BY <2>2
<1> QED BY <1>2, <1>3

\* What the service holds.
Stored == [buckets : SUBSET Buckets, objects : SUBSET Objects]

\* An update of one field.
LEMMA Edits ==
  ASSUME NEW s \in Stored, NEW x
  PROVE  /\ [s EXCEPT !.objects = x].objects = x
         /\ [s EXCEPT !.objects = x].buckets = s.buckets
         /\ x \subseteq Objects => [s EXCEPT !.objects = x] \in Stored
         /\ [s EXCEPT !.buckets = x].buckets = x
         /\ [s EXCEPT !.buckets = x].objects = s.objects
         /\ x \subseteq Buckets => [s EXCEPT !.buckets = x] \in Stored
  BY DEF Stored

\* What the three kinds of write do to the service.
LEMMA Deletes ==
  ASSUME RmTypes, NEW o \in tasks, Delete(o)
  PROVE  /\ store'.objects = store.objects \ {o} /\ store'.buckets = store.buckets
         /\ store' \in Stored
<1>1. store \in Stored
  BY DEF RmTypes, RmTypeOK, Stored
<1>2. store' = [store EXCEPT !.objects = store.objects \ {o}]
  BY Zenon DEF Delete
<1>3. store.objects \ {o} \subseteq Objects
  BY <1>1 DEF Stored
<1> QED BY <1>1, <1>2, <1>3, Edits

\* A bucket that goes leaves the objects alone.
LEMMA Goes ==
  ASSUME RmTypes, NEW b \in Buckets, Empty(b), Unbucket(b)
  PROVE  /\ b \in store.buckets /\ \A o \in store.objects : o.bucket # b
         /\ store'.buckets = store.buckets \ {b} /\ store'.objects = store.objects
         /\ store' \in Stored
         /\ \A o \in store'.objects : o.bucket \in store'.buckets
<1>1. store \in Stored /\ \A o \in store.objects : o.bucket \in store.buckets
  BY DEF RmTypes, RmTypeOK, Stored
<1>2. store' = [store EXCEPT !.buckets = store.buckets \ {b}]
  BY Zenon DEF Unbucket
<1>3. store.buckets \ {b} \subseteq Buckets
  BY <1>1 DEF Stored
<1>4. /\ store'.buckets = store.buckets \ {b} /\ store'.objects = store.objects
      /\ store' \in Stored
  BY <1>1, <1>2, <1>3, Edits
<1>5. b \in store.buckets /\ \A o \in store.objects : o.bucket # b
  BY DEF Empty
<1> QED BY <1>1, <1>4, <1>5

\* The first bucket to be deleted.
LEMMA HeadBucket ==
  ASSUME RmTypes, DeleteBucket
  PROVE  Head(bucketsLeft).bucket \in Buckets
<1>1. Head(bucketsLeft) \in Urls
  BY HeadAndTail DEF RmTypes, DeleteBucket
<1> QED BY <1>1 DEF Urls

\* The deletion of a bucket fails and ends the command, or takes an empty one.
LEMMA Unbuckets ==
  ASSUME RmTypes, DeleteBucket
  PROVE  \/ /\ UNCHANGED <<store, bucketsLeft, gone>>
            /\ stage' = "done" /\ status' = "failed"
            /\ (~Empty(Head(bucketsLeft).bucket) \/ refused')
         \/ /\ Empty(Head(bucketsLeft).bucket)
            /\ store'.buckets = store.buckets \ {Head(bucketsLeft).bucket}
            /\ store'.objects = store.objects
            /\ store' \in Stored /\ UNCHANGED refused
            /\ \A o \in store'.objects : o.bucket \in store'.buckets
            /\ \/ /\ bucketsLeft' = Tail(bucketsLeft)
                  /\ UNCHANGED <<stage, status, gone>>
               \/ /\ UNCHANGED bucketsLeft
                  /\ gone' = gone \cup {Head(bucketsLeft).bucket}
                  /\ stage' = "done" /\ status' = "failed"
<1> DEFINE b == Head(bucketsLeft).bucket
<1>1. CASE /\ Empty(b) /\ Unbucket(b) /\ UNCHANGED refused
           /\ \/ bucketsLeft' = Tail(bucketsLeft) /\ UNCHANGED <<stage, status, gone>>
              \/ UNCHANGED bucketsLeft /\ gone' = gone \cup {b} /\ Exit("failed")
  <2>1. /\ store'.buckets = store.buckets \ {b} /\ store'.objects = store.objects
        /\ store' \in Stored /\ \A o \in store'.objects : o.bucket \in store'.buckets
    BY <1>1, HeadBucket, Goes
  <2> QED BY <1>1, <2>1 DEF Exit
<1>2. CASE /\ UNCHANGED <<store, bucketsLeft, gone>> /\ Exit("failed")
           /\ (~Empty(b) \/ refused')
  BY <1>2 DEF Exit
<1> QED BY <1>1, <1>2, Zenon DEF DeleteBucket, Trouble

\* So does a bucket that somebody else deletes.
LEMMA Rivals ==
  ASSUME RmTypes, OthersDeleteBucket
  PROVE  \E b \in Buckets :
            /\ store'.buckets = store.buckets \ {b} /\ store'.objects = store.objects
            /\ store' \in Stored /\ gone' = gone \cup {b}
            /\ \A o \in store'.objects : o.bucket \in store'.buckets
<1>1. PICK b \in Buckets : Empty(b) /\ Unbucket(b) /\ gone' = gone \cup {b}
  BY Zenon DEF OthersDeleteBucket
<1>2. /\ store'.buckets = store.buckets \ {b} /\ store'.objects = store.objects
      /\ store' \in Stored /\ \A o \in store'.objects : o.bucket \in store'.buckets
  BY <1>1, Goes
<1> QED BY Zenon, <1>1, <1>2

\* A write by somebody else adds an object or takes one away.
LEMMA Others ==
  ASSUME RmTypes, OthersWrite
  PROVE  \E o \in Objects :
            /\ o.bucket \in store.buckets
            /\ kept' = kept \ {o}
            /\ store' \in Stored /\ store'.buckets = store.buckets
            /\ \/ written' = TRUE /\ store'.objects = store.objects \cup {o}
               \/ UNCHANGED written /\ store'.objects = store.objects \ {o}
<1>1. store \in Stored
  BY DEF RmTypes, RmTypeOK, Stored
<1>2. PICK o \in Objects :
          /\ o.bucket \in store.buckets
          /\ kept' = kept \ {o}
          /\ \/ /\ o \notin store.objects /\ written' = TRUE
                /\ store' = [store EXCEPT !.objects = store.objects \cup {o}]
             \/ /\ o \in store.objects /\ UNCHANGED written
                /\ store' = [store EXCEPT !.objects = store.objects \ {o}]
  BY Zenon DEF OthersWrite
<1>3. store.objects \cup {o} \subseteq Objects /\ store.objects \ {o} \subseteq Objects
  BY <1>1 DEF Stored
<1>4. CASE written' = TRUE
           /\ store' = [store EXCEPT !.objects = store.objects \cup {o}]
  <2>1. /\ store' \in Stored /\ store'.buckets = store.buckets
        /\ store'.objects = store.objects \cup {o}
    BY Zenon, <1>1, <1>3, <1>4, Edits
  <2>2. written' = TRUE
    BY <1>4
  <2>3. o.bucket \in store.buckets /\ kept' = kept \ {o}
    BY Zenon, <1>2
  <2> QED BY Zenon, <2>1, <2>2, <2>3
<1>5. CASE UNCHANGED written
           /\ store' = [store EXCEPT !.objects = store.objects \ {o}]
  <2>1. /\ store' \in Stored /\ store'.buckets = store.buckets
        /\ store'.objects = store.objects \ {o}
    BY Zenon, <1>1, <1>3, <1>5, Edits
  <2>2. UNCHANGED written
    BY <1>5
  <2>3. o.bucket \in store.buckets /\ kept' = kept \ {o}
    BY Zenon, <1>2
  <2> QED BY Zenon, <2>1, <2>2, <2>3
<1>6. \/ /\ written' = TRUE
         /\ store' = [store EXCEPT !.objects = store.objects \cup {o}]
      \/ /\ UNCHANGED written
         /\ store' = [store EXCEPT !.objects = store.objects \ {o}]
  BY Zenon, <1>2
<1> QED BY Zenon, <1>4, <1>5, <1>6

\* The state keeps its types.
LEMMA TypesNext == RmTypes /\ [RmNext]_rmVars => RmTypes'
<1> SUFFICES ASSUME RmTypes, [RmNext]_rmVars PROVE RmTypes'
  OBVIOUS
<1> USE DEF RmTypes, RmTypeOK, Stages
<1>1. CASE Expand
  <2>1. Tail(urls) \in Seq(Urls) /\ Head(urls) \in Urls
    BY <1>1, HeadAndTail DEF Expand, MayExpand
  <2>2. Matches(Head(urls)) \subseteq Objects
    BY DEF Matches
  <2> QED BY <1>1, <2>1, <2>2 DEF Expand, Reaches, ExpandUnchanged, rmBounds, counts
<1>2. CASE ExpandNothing
  <2>1. PICK kind : IteratorRaises(kind) /\ MayExpand
    BY <1>2 DEF ExpandNothing
  <2>2. Tail(urls) \in Seq(Urls) /\ Head(urls) \in Urls
    BY <2>1, HeadAndTail DEF MayExpand
  <2>3. reached' \subseteq Urls
    BY <1>2, <2>2 DEF ExpandNothing, Reaches
  <2>4. urls' \in Seq(Urls) /\ listed' = {} /\ stage' \in Stages
        /\ failureCount' \in Int /\ opFailures' \in Nat /\ bucketNotFound' \in Nat
        /\ status' \in {"none", "ok", "failed"} /\ (status' = "none" <=> stage' # "done")
    <3>1. stage \in {"objects", "folders"}
      BY <2>1 DEF MayExpand, Expanding
    <3>2. RmTypes
      OBVIOUS
    <3> HIDE DEF RmTypes
    <3>3. stage' \in {stage, "checks", "done"}
          /\ (stage' # "done" => status' = status)
          /\ (stage' = "done" => status' = "failed")
          /\ urls' \in {<<>>, Tail(urls)} /\ listed' = {}
      BY <2>1, <3>1, <3>2, Raises
    <3>4. failureCount' \in {failureCount, failureCount + 1}
          /\ opFailures' \in {opFailures, opFailures + 1}
          /\ bucketNotFound' \in {bucketNotFound, bucketNotFound + 1}
      BY <2>1, <3>2, Raises DEF counts
    <3>5. failureCount \in Int /\ opFailures \in Nat /\ bucketNotFound \in Nat
          /\ stage \in Stages /\ status \in {"none", "ok", "failed"}
          /\ (status = "none" <=> stage # "done")
      BY <3>2 DEF RmTypes
    <3>6. failureCount' \in Int /\ opFailures' \in Nat /\ bucketNotFound' \in Nat
      BY <3>4, <3>5
    <3>7. stage' \in Stages /\ status' \in {"none", "ok", "failed"}
          /\ (status' = "none" <=> stage' # "done")
      BY <3>1, <3>3, <3>5
    <3>8. urls' \in Seq(Urls)
      BY <2>2, <3>3, EmptySeq
    <3> QED BY <3>3, <3>6, <3>7, <3>8
  <2> QED BY <1>2, <2>3, <2>4 DEF ExpandNothing, ExpandUnchanged, rmBounds, Trouble
<1>3. CASE ExpandMissing
  <2>1. PICK kind : IteratorRaises(kind) /\ MayExpand
    BY <1>3 DEF ExpandMissing
  <2>2. Tail(urls) \in Seq(Urls) /\ Head(urls) \in Urls
    BY <2>1, HeadAndTail DEF MayExpand
  <2>3. reached' \subseteq Urls
    BY <1>3, <2>2 DEF ExpandMissing, Reaches
  <2>4. urls' \in Seq(Urls) /\ listed' = {} /\ stage' \in Stages
        /\ failureCount' \in Int /\ opFailures' \in Nat /\ bucketNotFound' \in Nat
        /\ status' \in {"none", "ok", "failed"} /\ (status' = "none" <=> stage' # "done")
    <3>1. stage \in {"objects", "folders"}
      BY <2>1 DEF MayExpand, Expanding
    <3>2. RmTypes
      OBVIOUS
    <3> HIDE DEF RmTypes
    <3>3. stage' \in {stage, "checks", "done"}
          /\ (stage' # "done" => status' = status)
          /\ (stage' = "done" => status' = "failed")
          /\ urls' \in {<<>>, Tail(urls)} /\ listed' = {}
      BY <2>1, <3>1, <3>2, Raises
    <3>4. failureCount' \in {failureCount, failureCount + 1}
          /\ opFailures' \in {opFailures, opFailures + 1}
          /\ bucketNotFound' \in {bucketNotFound, bucketNotFound + 1}
      BY <2>1, <3>2, Raises DEF counts
    <3>5. failureCount \in Int /\ opFailures \in Nat /\ bucketNotFound \in Nat
          /\ stage \in Stages /\ status \in {"none", "ok", "failed"}
          /\ (status = "none" <=> stage # "done")
      BY <3>2 DEF RmTypes
    <3>6. failureCount' \in Int /\ opFailures' \in Nat /\ bucketNotFound' \in Nat
      BY <3>4, <3>5
    <3>7. stage' \in Stages /\ status' \in {"none", "ok", "failed"}
          /\ (status' = "none" <=> stage' # "done")
      BY <3>1, <3>3, <3>5
    <3>8. urls' \in Seq(Urls)
      BY <2>2, <3>3, EmptySeq
    <3> QED BY <3>3, <3>6, <3>7, <3>8
  <2> QED BY <1>3, <2>3, <2>4 DEF ExpandMissing, ExpandUnchanged, rmBounds, Trouble
<1>4. CASE ExpandFails
  <2>1. PICK kind : IteratorRaises(kind) /\ MayExpand
    BY <1>4 DEF ExpandFails
  <2>2. Tail(urls) \in Seq(Urls) /\ Head(urls) \in Urls
    BY <2>1, HeadAndTail DEF MayExpand
  <2>3. reached' \subseteq Urls
    BY <1>4, <2>2 DEF ExpandFails, Reaches
  <2>4. urls' \in Seq(Urls) /\ listed' = {} /\ stage' \in Stages
        /\ failureCount' \in Int /\ opFailures' \in Nat /\ bucketNotFound' \in Nat
        /\ status' \in {"none", "ok", "failed"} /\ (status' = "none" <=> stage' # "done")
    <3>1. stage \in {"objects", "folders"}
      BY <2>1 DEF MayExpand, Expanding
    <3>2. RmTypes
      OBVIOUS
    <3> HIDE DEF RmTypes
    <3>3. stage' \in {stage, "checks", "done"}
          /\ (stage' # "done" => status' = status)
          /\ (stage' = "done" => status' = "failed")
          /\ urls' \in {<<>>, Tail(urls)} /\ listed' = {}
      BY <2>1, <3>1, <3>2, Raises
    <3>4. failureCount' \in {failureCount, failureCount + 1}
          /\ opFailures' \in {opFailures, opFailures + 1}
          /\ bucketNotFound' \in {bucketNotFound, bucketNotFound + 1}
      BY <2>1, <3>2, Raises DEF counts
    <3>5. failureCount \in Int /\ opFailures \in Nat /\ bucketNotFound \in Nat
          /\ stage \in Stages /\ status \in {"none", "ok", "failed"}
          /\ (status = "none" <=> stage # "done")
      BY <3>2 DEF RmTypes
    <3>6. failureCount' \in Int /\ opFailures' \in Nat /\ bucketNotFound' \in Nat
      BY <3>4, <3>5
    <3>7. stage' \in Stages /\ status' \in {"none", "ok", "failed"}
          /\ (status' = "none" <=> stage' # "done")
      BY <3>1, <3>3, <3>5
    <3>8. urls' \in Seq(Urls)
      BY <2>2, <3>3, EmptySeq
    <3> QED BY <3>3, <3>6, <3>7, <3>8
  <2> QED BY <1>4, <2>3, <2>4 DEF ExpandFails, ExpandUnchanged, rmBounds, Trouble
<1>5. CASE HandOut
  <2>1. PICK o \in listed : listed' = listed \ {o} /\ tasks' = tasks \cup {o}
    BY <1>5 DEF HandOut
  <2>2. ~command.parallel => tasks = {}
    BY <1>5 DEF HandOut
  <2>3. ~command.parallel => \A a, b \in tasks' : a = b
    BY <2>1, <2>2
  <2>4. ~command.parallel => Cardinality(tasks') <= 1
    <3> SUFFICES ASSUME ~command.parallel PROVE Cardinality(tasks') <= 1
      OBVIOUS
    <3>1. tasks' = {o}
      BY <2>1, <2>2
    <3>2. Cardinality({o}) = 1
      BY FS_Singleton
    <3> QED BY <3>1, <3>2
  <2> QED BY <1>5, <2>1, <2>3, <2>4 DEF HandOut, rmHistory, rmBounds, counts
<1>6. ASSUME NEW o \in tasks, Delete(o) PROVE RmTypes'
  <2>1. RmTypes
    OBVIOUS
  <2>2. ~command.parallel => Cardinality(tasks') <= 1
    BY <1>6, FewTasks DEF Delete
  <2>3. store' \in Stored /\ \A x \in store'.objects : x.bucket \in store'.buckets
    BY <1>6, <2>1, Deletes
  <2> QED BY <1>6, <2>2, <2>3 DEF Delete, TaskUnchanged, RunGoesOn, NotFound, counts, rmBounds, Stored
<1>7. ASSUME NEW o \in tasks, DeleteNotFound(o) PROVE RmTypes'
  <2>1. ~command.parallel => Cardinality(tasks') <= 1
    BY <1>7, FewTasks DEF DeleteNotFound
  <2> QED BY <1>7, <2>1 DEF DeleteNotFound, TaskUnchanged, RunGoesOn, NotFound, rmBounds
<1>8. ASSUME NEW o \in tasks, DeleteFails(o) PROVE RmTypes'
  <2>1. tasks' \subseteq tasks /\ listed' \in {listed, {}} /\ urls' \in {urls, <<>>}
        /\ stage' \in Stages /\ status' \in {"none", "ok", "failed"}
        /\ (status' = "none" <=> stage' # "done")
        /\ failureCount' \in Int /\ opFailures' \in Nat /\ bucketNotFound' \in Nat
    BY <1>8, Denied
  <2>2. ~command.parallel => Cardinality(tasks') <= 1
    BY <2>1, FewTasks
  <2>3. ~command.parallel => \A a, b \in tasks' : a = b
    BY <2>1
  <2>4. /\ UNCHANGED <<store, command, bucketsLeft, kept, reached, written, gone>>
        /\ refused' \in BOOLEAN
    BY <1>8 DEF DeleteFails, TaskUnchanged
  <2>5. urls' \in Seq(Urls) /\ listed' \subseteq Objects /\ tasks' \subseteq Objects
    BY <2>1, EmptySeq
  <2> QED BY <2>1, <2>2, <2>3, <2>4, <2>5
<1>9. CASE Applied
  BY <1>9 DEF Applied, Drained, GoTo, CommandUnchanged, rmHistory, rmBounds, counts
<1>10. CASE Check
  <2>1. urls' \in Seq(Urls)
    <3>1. urls \in Seq(Urls) /\ <<>> \in Seq(Urls) /\ FolderUrls \in Seq(Urls)
      BY ArgumentsSplit
    <3> QED BY <1>10, <3>1 DEF Check
  <2> QED BY <1>10, <2>1 DEF Check, GoTo, Exit, CommandUnchanged, rmHistory, rmBounds, counts
<1>11. CASE FoldersApplied
  BY <1>11 DEF FoldersApplied, Drained, GoTo, CommandUnchanged, rmHistory, rmBounds, counts
<1>12. CASE DeleteBucket
  <2>1. RmTypes
    OBVIOUS
  <2>2. bucketsLeft # <<>> /\ stage = "buckets"
    BY <1>12 DEF DeleteBucket
  <2>3. Tail(bucketsLeft) \in Seq(Urls)
    BY <2>2, HeadAndTail
  <2>4. store' \in Stored /\ (\A o \in store'.objects : o.bucket \in store'.buckets)
    <3>1. store' = store \/ (store' \in Stored
              /\ \A o \in store'.objects : o.bucket \in store'.buckets)
      BY <1>12, <2>1, Unbuckets
    <3>2. store \in Stored /\ (\A o \in store.objects : o.bucket \in store.buckets)
      BY DEF Stored
    <3> QED BY <3>1, <3>2, Zenon
  <2>5. bucketsLeft' \in Seq(Urls) /\ stage' \in Stages
        /\ status' \in {"none", "ok", "failed"} /\ (status' = "none" <=> stage' # "done")
    BY <1>12, <2>1, <2>3, Unbuckets
  <2>6. refused' \in BOOLEAN /\ gone' \subseteq Buckets
    BY <1>12, <2>1, HeadBucket DEF DeleteBucket
  <2> QED BY <1>12, <2>4, <2>5, <2>6 DEF DeleteBucket, BucketUnchanged, counts, Stored
<1>13. CASE BucketsDeleted
  BY <1>13 DEF BucketsDeleted, GoTo, CommandUnchanged, rmHistory, rmBounds, counts
<1>14. CASE Return
  BY <1>14 DEF Return, Exit, ExitStatus, CommandUnchanged, rmHistory, rmBounds, counts
<1>15. CASE OthersWrite
  <2>1. RmTypes
    OBVIOUS
  <2>2. /\ store' \in Stored /\ \A o \in store'.objects : o.bucket \in store'.buckets
        /\ kept' \subseteq Objects /\ written' \in BOOLEAN
    BY <1>15, <2>1, Others
  <2> QED BY <1>15, <2>2 DEF OthersWrite, Other, counts, Stored
<1>16. CASE UNCHANGED rmVars
  BY <1>16 DEF rmVars, rmHistory, rmBounds, counts
<1>17. CASE OthersDeleteBucket
  <2>1. RmTypes
    OBVIOUS
  <2>2. /\ store' \in Stored /\ \A o \in store'.objects : o.bucket \in store'.buckets
        /\ gone' \subseteq Buckets
    BY <1>17, <2>1, Rivals
  <2> QED BY <1>17, <2>2 DEF OthersDeleteBucket, Other, counts, Stored
<1> QED
  BY <1>1, <1>2, <1>3, <1>4, <1>5, <1>6, <1>7, <1>8, <1>9, <1>10, <1>11, <1>12, <1>13, <1>14, <1>15, <1>16, <1>17 DEF RmNext, Stopped

\* Objects are under way in two stages only.
LEMMA StageNext == RmTypes /\ StageInv /\ [RmNext]_rmVars => StageInv'
<1> SUFFICES ASSUME RmTypes, StageInv, [RmNext]_rmVars PROVE StageInv'
  OBVIOUS
<1> USE DEF StageInv, Expanding
<1>1. CASE Expand
  <2>1. tasks \subseteq Objects /\ urls # <<>>
    BY <1>1 DEF Expand, MayExpand, RmTypes, RmTypeOK
  <2> QED BY <1>1, <2>1 DEF Expand, MayExpand, Matches, ExpandUnchanged, counts
<1>2. CASE ExpandNothing
  <2>1. PICK kind : IteratorRaises(kind) /\ MayExpand
    BY <1>2 DEF ExpandNothing
  <2>2. UNCHANGED tasks
    BY <1>2 DEF ExpandNothing, ExpandUnchanged
  <2>3. status # "ok"
    BY <2>1 DEF MayExpand, RmTypes, RmTypeOK
  <2> QED BY <2>1, <2>2, <2>3, Raises DEF MayExpand, counts
<1>3. CASE ExpandMissing
  <2>1. PICK kind : IteratorRaises(kind) /\ MayExpand
    BY <1>3 DEF ExpandMissing
  <2>2. UNCHANGED tasks
    BY <1>3 DEF ExpandMissing, ExpandUnchanged
  <2>3. status # "ok"
    BY <2>1 DEF MayExpand, RmTypes, RmTypeOK
  <2> QED BY <2>1, <2>2, <2>3, Raises DEF MayExpand, counts
<1>4. CASE ExpandFails
  <2>1. PICK kind : IteratorRaises(kind) /\ MayExpand
    BY <1>4 DEF ExpandFails
  <2>2. UNCHANGED tasks
    BY <1>4 DEF ExpandFails, ExpandUnchanged
  <2>3. status # "ok"
    BY <2>1 DEF MayExpand, RmTypes, RmTypeOK
  <2> QED BY <2>1, <2>2, <2>3, Raises DEF MayExpand, counts
<1>5. CASE HandOut
  BY <1>5 DEF HandOut, Expanding, rmHistory, rmBounds, counts
<1>6. ASSUME NEW o \in tasks, Delete(o) PROVE StageInv'
  BY <1>6 DEF Delete, TaskUnchanged, RunGoesOn, counts
<1>7. ASSUME NEW o \in tasks, DeleteNotFound(o) PROVE StageInv'
  BY <1>7 DEF DeleteNotFound, TaskUnchanged, RunGoesOn, NotFound, rmBounds
<1>8. ASSUME NEW o \in tasks, DeleteFails(o) PROVE StageInv'
  BY <1>8, Denied
<1>9. CASE Applied
  BY <1>9 DEF Applied, Drained, GoTo, CommandUnchanged, rmHistory, rmBounds, counts
<1>10. CASE Check
  <2>1. bucketNotFound \in Nat
    BY DEF RmTypes, RmTypeOK
  <2> QED BY <1>10, <2>1 DEF Check, GoTo, Exit, CommandUnchanged, rmHistory, rmBounds, counts
<1>11. CASE FoldersApplied
  BY <1>11 DEF FoldersApplied, Drained, GoTo, CommandUnchanged, rmHistory, rmBounds, counts
<1>12. CASE DeleteBucket
  <2>1. UNCHANGED <<listed, tasks, bucketNotFound>>
    BY <1>12 DEF DeleteBucket, BucketUnchanged, counts
  <2>2. stage = "buckets"
    BY <1>12 DEF DeleteBucket
  <2> QED BY <1>12, <2>1, <2>2, Unbuckets
<1>13. CASE BucketsDeleted
  BY <1>13 DEF BucketsDeleted, GoTo, CommandUnchanged, rmHistory, rmBounds, counts
<1>14. CASE Return
  BY <1>14 DEF Return, Exit, ExitStatus, CommandUnchanged, rmHistory, rmBounds, counts
<1>15. CASE OthersWrite
  BY <1>15 DEF OthersWrite, Other, counts
<1>16. CASE UNCHANGED rmVars
  BY <1>16 DEF rmVars, rmHistory, rmBounds, counts
<1>17. CASE OthersDeleteBucket
  BY <1>17 DEF OthersDeleteBucket, Other, counts
<1> QED
  BY <1>1, <1>2, <1>3, <1>4, <1>5, <1>6, <1>7, <1>8, <1>9, <1>10, <1>11, <1>12, <1>13, <1>14, <1>15, <1>16, <1>17 DEF RmNext, Stopped

\* A bucket leaves the list when it is gone.
LEMMA BucketsNext == RmTypes /\ StageInv /\ BucketsInv /\ [RmNext]_rmVars => BucketsInv'
<1> SUFFICES ASSUME RmTypes, StageInv, BucketsInv, [RmNext]_rmVars PROVE BucketsInv'
  OBVIOUS
<1> USE DEF BucketsInv
<1>1. CASE Expand
  <2>1. UNCHANGED <<store, command, bucketsLeft, stage, status, opFailures>>
    BY <1>1 DEF Expand, ExpandUnchanged, counts
  <2> QED BY <2>1, SameArguments
<1>2. CASE ExpandNothing
  <2>1. UNCHANGED <<store, command, bucketsLeft>>
    BY <1>2 DEF ExpandNothing, ExpandUnchanged
  <2>2. PICK kind : IteratorRaises(kind) /\ MayExpand
    BY <1>2 DEF ExpandNothing
  <2>3. stage' # "end" /\ status' # "ok"
    BY <2>2, Raises DEF MayExpand, Expanding, RmTypes, RmTypeOK, counts
  <2> QED BY <2>1, <2>3, SameArguments
<1>3. CASE ExpandMissing
  <2>1. UNCHANGED <<store, command, bucketsLeft>>
    BY <1>3 DEF ExpandMissing, ExpandUnchanged
  <2>2. PICK kind : IteratorRaises(kind) /\ MayExpand
    BY <1>3 DEF ExpandMissing
  <2>3. stage' # "end" /\ status' # "ok"
    BY <2>2, Raises DEF MayExpand, Expanding, RmTypes, RmTypeOK, counts
  <2> QED BY <2>1, <2>3, SameArguments
<1>4. CASE ExpandFails
  <2>1. UNCHANGED <<store, command, bucketsLeft>>
    BY <1>4 DEF ExpandFails, ExpandUnchanged
  <2>2. PICK kind : IteratorRaises(kind) /\ MayExpand
    BY <1>4 DEF ExpandFails
  <2>3. stage' # "end" /\ status' # "ok"
    BY <2>2, Raises DEF MayExpand, Expanding, RmTypes, RmTypeOK, counts
  <2> QED BY <2>1, <2>3, SameArguments
<1>5. CASE HandOut
  <2>1. UNCHANGED <<store, command, bucketsLeft, stage, status, opFailures>>
    BY <1>5 DEF HandOut, counts
  <2> QED BY <2>1, SameArguments
<1>6. ASSUME NEW o \in tasks, Delete(o) PROVE BucketsInv'
  <2>1. UNCHANGED <<command, bucketsLeft, stage, status, opFailures>>
    BY <1>6 DEF Delete, RunGoesOn, TaskUnchanged, counts
  <2>2. store'.buckets = store.buckets
    BY <1>6, Deletes
  <2> QED BY <2>1, <2>2, SameArguments
<1>7. ASSUME NEW o \in tasks, DeleteNotFound(o) PROVE BucketsInv'
  <2>1. UNCHANGED <<store, command, bucketsLeft, stage, status, opFailures>>
    BY <1>7 DEF DeleteNotFound, RunGoesOn, TaskUnchanged
  <2> QED BY <2>1, SameArguments
<1>8. ASSUME NEW o \in tasks, DeleteFails(o) PROVE BucketsInv'
  <2>1. UNCHANGED <<store, command, bucketsLeft>>
    BY <1>8 DEF DeleteFails, TaskUnchanged
  <2>2. status # "ok"
    BY DEF StageInv, Expanding, RmTypes, RmTypeOK
  <2>3. stage' # "end" /\ status' # "ok"
    BY <1>8, <2>2, Denied DEF StageInv, Expanding
  <2> QED BY <2>1, <2>3, SameArguments
<1>9. CASE Applied
  <2>1. UNCHANGED <<store, command, bucketsLeft, status, opFailures>> /\ stage' # "end"
    BY <1>9 DEF Applied, GoTo, CommandUnchanged, counts
  <2> QED BY <2>1, SameArguments
<1>10. CASE Check
  <2>1. UNCHANGED <<store, command, bucketsLeft, opFailures>> /\ stage' # "end"
        /\ status' \in {status, "failed"}
    BY <1>10 DEF Check, GoTo, Exit, CommandUnchanged, counts
  <2> QED BY <2>1, SameArguments
<1>11. CASE FoldersApplied
  <2>1. UNCHANGED <<store, command, bucketsLeft, status, opFailures>> /\ stage' # "end"
    BY <1>11 DEF FoldersApplied, GoTo, CommandUnchanged, counts
  <2> QED BY <2>1, SameArguments
<1>12. CASE DeleteBucket
  <2>1. UNCHANGED <<command, opFailures>> /\ stage = "buckets" /\ bucketsLeft # <<>>
    BY <1>12 DEF DeleteBucket, BucketUnchanged, counts
  <2>2. /\ Tail(bucketsLeft) \in Seq(Urls)
        /\ Range(bucketsLeft) = {Head(bucketsLeft)} \cup Range(Tail(bucketsLeft))
    BY <2>1, HeadAndTail DEF RmTypes
  <2>3. status = "none"
    BY <2>1 DEF RmTypes, RmTypeOK
  <2>4. CASE store'.buckets \subseteq store.buckets /\ UNCHANGED bucketsLeft
             /\ stage' = "done" /\ status' = "failed"
    BY <2>1, <2>4, SameArguments
  <2>5. CASE /\ store'.buckets = store.buckets \ {Head(bucketsLeft).bucket}
             /\ bucketsLeft' = Tail(bucketsLeft) /\ UNCHANGED <<stage, status>>
    BY <2>1, <2>2, <2>3, <2>5, SameArguments
  <2>6. \/ /\ store'.buckets \subseteq store.buckets /\ UNCHANGED bucketsLeft
           /\ stage' = "done" /\ status' = "failed"
        \/ /\ store'.buckets = store.buckets \ {Head(bucketsLeft).bucket}
           /\ bucketsLeft' = Tail(bucketsLeft) /\ UNCHANGED <<stage, status>>
    BY <1>12, Unbuckets
  <2> QED BY <2>4, <2>5, <2>6
<1>13. CASE BucketsDeleted
  <2>1. UNCHANGED <<store, command, bucketsLeft, status, opFailures>> /\ bucketsLeft = <<>>
    BY <1>13 DEF BucketsDeleted, GoTo, CommandUnchanged, counts
  <2> QED BY <2>1, SameArguments
<1>14. CASE Return
  <2>1. UNCHANGED <<store, command, bucketsLeft, opFailures>> /\ stage = "end"
        /\ stage' = "done"
    BY <1>14 DEF Return, Exit, CommandUnchanged, counts
  <2>2. opFailures \in Nat
    BY DEF RmTypes, RmTypeOK
  <2>3. status' = "ok" => opFailures = 0
    BY <1>14, <2>2 DEF Return, Exit, ExitStatus
  <2> QED BY <2>1, <2>3, SameArguments
<1>15. CASE OthersWrite
  <2>1. UNCHANGED <<command, bucketsLeft, stage, status, opFailures>>
    BY <1>15 DEF OthersWrite, Other, counts
  <2>2. store'.buckets = store.buckets
    BY <1>15, Others
  <2> QED BY <2>1, <2>2, SameArguments
<1>16. CASE UNCHANGED rmVars
  <2>1. UNCHANGED <<store, command, bucketsLeft, stage, status, opFailures>>
    BY <1>16 DEF rmVars, counts
  <2> QED BY <2>1, SameArguments
<1>17. CASE OthersDeleteBucket
  <2>1. UNCHANGED <<command, bucketsLeft, stage, status, opFailures>>
    BY <1>17 DEF OthersDeleteBucket, Other, counts
  <2>2. store'.buckets \subseteq store.buckets
    BY <1>17, Rivals
  <2> QED BY <2>1, <2>2, SameArguments
<1> QED
  BY <1>1, <1>2, <1>3, <1>4, <1>5, <1>6, <1>7, <1>8, <1>9, <1>10, <1>11, <1>12, <1>13, <1>14, <1>15, <1>16, <1>17 DEF RmNext, Stopped

\* What a listed argument asked for is on its way until it is gone.
LEMMA ReachNext == RmTypes /\ StageInv /\ ReachInv /\ [RmNext]_rmVars => ReachInv'
<1> SUFFICES ASSUME RmTypes, StageInv, ReachInv, [RmNext]_rmVars PROVE ReachInv'
  OBVIOUS
<1> USE DEF ReachInv, Missed
<1>1. CASE Expand
  <2>1. UNCHANGED <<store, kept, status, opFailures, tasks>> /\ listed = {}
    BY <1>1 DEF Expand, ExpandUnchanged, MayExpand, counts
  <2>2. CASE stage = "folders"
    BY <1>1, <2>1, <2>2 DEF Expand, Reaches
  <2>3. CASE stage = "objects"
    <3>1. reached' = reached \cup {Head(urls)} /\ listed' = Matches(Head(urls))
      BY <1>1, <2>3 DEF Expand, Reaches
    <3>2. \A o \in store.objects : ~o.folder /\ Asked(o, Head(urls)) => o \in listed'
      BY <2>3, <3>1 DEF Matches, Asked
    <3> QED BY <2>1, <3>1, <3>2
  <2> QED BY <1>1, <2>2, <2>3 DEF Expand, MayExpand, Expanding
<1>2. CASE ExpandNothing
  <2>1. UNCHANGED <<store, kept, tasks>> /\ Matches(Head(urls)) = {}
    BY <1>2 DEF ExpandNothing, ExpandUnchanged
  <2>2. PICK kind : IteratorRaises(kind) /\ MayExpand
    BY <1>2 DEF ExpandNothing
  <2>3. /\ listed = {} /\ listed' = {}
        /\ status' # "failed" => status # "failed"
        /\ opFailures' \in {opFailures, opFailures + 1}
    BY <2>2, Raises DEF counts
  <2>4. opFailures' = 0 => opFailures = 0
    BY <2>3 DEF RmTypes, RmTypeOK
  <2>5. reached' \subseteq reached \cup {Head(urls)}
        /\ (stage # "objects" => reached' = reached)
    BY <1>2 DEF ExpandNothing, Reaches
  <2>6. stage = "objects" =>
            \A o \in store.objects : ~(~o.folder /\ Asked(o, Head(urls)))
    BY <2>1 DEF Matches, Asked
  <2> QED BY <2>1, <2>3, <2>4, <2>5, <2>6
<1>3. CASE ExpandMissing
  <2>1. UNCHANGED <<store, kept, reached, tasks>>
    BY <1>3 DEF ExpandMissing, ExpandUnchanged
  <2>2. PICK kind : IteratorRaises(kind) /\ MayExpand
    BY <1>3 DEF ExpandMissing
  <2>3. /\ listed = {} /\ listed' = {}
        /\ status' # "failed" => status # "failed"
        /\ opFailures' \in {opFailures, opFailures + 1}
    BY <2>2, Raises DEF counts
  <2>4. opFailures' = 0 => opFailures = 0
    BY <2>3 DEF RmTypes, RmTypeOK
  <2> QED BY <2>1, <2>3, <2>4
<1>4. CASE ExpandFails
  <2>1. UNCHANGED <<store, kept, reached, tasks>>
    BY <1>4 DEF ExpandFails, ExpandUnchanged
  <2>2. PICK kind : IteratorRaises(kind) /\ MayExpand
    BY <1>4 DEF ExpandFails
  <2>3. /\ listed = {} /\ listed' = {}
        /\ status' # "failed" => status # "failed"
        /\ opFailures' \in {opFailures, opFailures + 1}
    BY <2>2, Raises DEF counts
  <2>4. opFailures' = 0 => opFailures = 0
    BY <2>3 DEF RmTypes, RmTypeOK
  <2> QED BY <2>1, <2>3, <2>4
<1>5. CASE HandOut
  <2>1. UNCHANGED <<store, kept, reached, status, opFailures>>
    BY <1>5 DEF HandOut, rmHistory, counts
  <2>2. listed' \cup tasks' = listed \cup tasks
    BY <1>5 DEF HandOut
  <2> QED BY <2>1, <2>2
<1>6. ASSUME NEW o \in tasks, Delete(o) PROVE ReachInv'
  <2>1. UNCHANGED <<kept, reached, status, opFailures, listed>> /\ tasks' = tasks \ {o}
    BY <1>6 DEF Delete, RunGoesOn, TaskUnchanged, counts
  <2>2. store'.objects = store.objects \ {o}
    BY <1>6, Deletes
  <2> QED BY <2>1, <2>2
<1>7. ASSUME NEW o \in tasks, DeleteNotFound(o) PROVE ReachInv'
  <2>1. UNCHANGED <<store, kept, reached, status, opFailures, listed>>
        /\ tasks' = tasks \ {o} /\ o \notin store.objects
    BY <1>7 DEF DeleteNotFound, RunGoesOn, TaskUnchanged
  <2> QED BY <2>1
<1>8. ASSUME NEW o \in tasks, DeleteFails(o) PROVE ReachInv'
  <2>1. UNCHANGED <<store, kept, reached>>
    BY <1>8 DEF DeleteFails, TaskUnchanged
  <2>2. CASE status' = "failed"
    BY <2>2
  <2>3. CASE /\ tasks' = tasks \ {o} /\ UNCHANGED <<status, listed>>
             /\ opFailures' = IF stage = "folders" THEN opFailures
                              ELSE opFailures + 1
    <3>1. CASE stage = "folders"
      <4>1. o.folder
        BY <3>1 DEF StageInv
      <4> QED BY <2>1, <2>3, <3>1, <4>1
    <3>2. CASE stage # "folders"
      <4>1. opFailures' # 0
        BY <2>3, <3>2 DEF RmTypes, RmTypeOK
      <4> QED BY <4>1
    <3> QED BY <3>1, <3>2
  <2> QED BY <1>8, <2>2, <2>3, Denied
<1>9. CASE Applied
  <2>1. UNCHANGED <<store, kept, reached, opFailures, listed, tasks>>
        /\ (status' # "failed" => status # "failed")
    BY <1>9 DEF Applied, GoTo, Exit, CommandUnchanged, rmHistory, counts, RmTypes, RmTypeOK
  <2> QED BY <2>1
<1>10. CASE Check
  <2>1. UNCHANGED <<store, kept, reached, opFailures, listed, tasks>>
        /\ (status' # "failed" => status # "failed")
    BY <1>10 DEF Check, GoTo, Exit, CommandUnchanged, rmHistory, counts, RmTypes, RmTypeOK
  <2> QED BY <2>1
<1>11. CASE FoldersApplied
  <2>1. UNCHANGED <<store, kept, reached, opFailures, listed, tasks>>
        /\ (status' # "failed" => status # "failed")
    BY <1>11 DEF FoldersApplied, GoTo, Exit, CommandUnchanged, rmHistory, counts, RmTypes, RmTypeOK
  <2> QED BY <2>1
<1>12. CASE DeleteBucket
  <2>1. UNCHANGED <<kept, reached, opFailures, listed, tasks>>
    BY <1>12 DEF DeleteBucket, BucketUnchanged, counts
  <2>2. store'.objects = store.objects /\ (status' # "failed" => status # "failed")
    BY <1>12, Unbuckets
  <2> QED BY <2>1, <2>2
<1>13. CASE BucketsDeleted
  <2>1. UNCHANGED <<store, kept, reached, opFailures, listed, tasks>>
        /\ (status' # "failed" => status # "failed")
    BY <1>13 DEF BucketsDeleted, GoTo, Exit, CommandUnchanged, rmHistory, counts, RmTypes, RmTypeOK
  <2> QED BY <2>1
<1>14. CASE Return
  <2>1. UNCHANGED <<store, kept, reached, opFailures, listed, tasks>>
        /\ (status' # "failed" => status # "failed")
    BY <1>14 DEF Return, GoTo, Exit, CommandUnchanged, rmHistory, counts, RmTypes, RmTypeOK
  <2> QED BY <2>1
<1>15. CASE OthersWrite
  <2>1. UNCHANGED <<reached, status, opFailures, listed, tasks>>
    BY <1>15 DEF OthersWrite, Other, counts
  <2>2. PICK o \in Objects : kept' = kept \ {o}
            /\ (store'.objects = store.objects \cup {o}
                 \/ store'.objects = store.objects \ {o})
    BY <1>15, Others
  <2>3. kept' \cap store'.objects \subseteq kept \cap store.objects
    BY <2>2
  <2> QED BY <2>1, <2>3
<1>16. CASE UNCHANGED rmVars
  BY <1>16 DEF rmVars, rmHistory, counts
<1>17. CASE OthersDeleteBucket
  <2>1. UNCHANGED <<kept, reached, status, opFailures, listed, tasks>>
    BY <1>17 DEF OthersDeleteBucket, Other, counts
  <2>2. store'.objects = store.objects
    BY <1>17, Rivals
  <2> QED BY <2>1, <2>2
<1> QED
  BY <1>1, <1>2, <1>3, <1>4, <1>5, <1>6, <1>7, <1>8, <1>9, <1>10, <1>11, <1>12, <1>13, <1>14, <1>15, <1>16, <1>17 DEF RmNext, Stopped

\* With -f or -m no argument is passed over unless a failure is counted.
LEMMA ForceNext == RmTypes /\ StageInv /\ ForceInv /\ [RmNext]_rmVars => ForceInv'
<1> SUFFICES ASSUME RmTypes, StageInv, ForceInv, [RmNext]_rmVars PROVE ForceInv'
  OBVIOUS
<1> USE DEF ForceInv
<1>1. CASE Expand
  <2>1. UNCHANGED <<command, stage, status, opFailures, bucketNotFound>>
    BY <1>1 DEF Expand, ExpandUnchanged, counts
  <2>2. urls # <<>> /\ urls' = Tail(urls) /\ Reaches
    BY <1>1 DEF Expand, MayExpand
  <2>3. Range(urls) = {Head(urls)} \cup Range(Tail(urls))
    BY <2>2, HeadAndTail DEF RmTypes, RmTypeOK
  <2> QED BY <2>1, <2>2, <2>3 DEF Reaches
<1>2. CASE ExpandNothing
  <2>1. UNCHANGED command /\ Reaches
    BY <1>2 DEF ExpandNothing, ExpandUnchanged
  <2>2. IteratorRaises(NothingMatched(Head(urls))) /\ MayExpand
    BY <1>2 DEF ExpandNothing
  <2>3. Range(urls) = {Head(urls)} \cup Range(Tail(urls))
    BY <2>2, HeadAndTail DEF RmTypes, RmTypeOK, MayExpand
  <2>4. CASE stage = "objects" /\ command.force
    <3>1. NothingMatched(Head(urls)) # "missing"
      BY DEF NothingMatched
    <3>2. \/ urls' = Tail(urls) /\ UNCHANGED <<stage, status, opFailures, bucketNotFound>>
          \/ opFailures' = opFailures + 1
      BY <2>2, <2>4, <3>1, Raises DEF counts
    <3>3. opFailures' = 0 => urls' = Tail(urls)
            /\ UNCHANGED <<stage, status, opFailures, bucketNotFound>>
      BY <3>2 DEF RmTypes, RmTypeOK
    <3> QED BY <2>1, <2>3, <2>4, <3>3 DEF Reaches
  <2>5. CASE stage = "folders"
    <3>1. UNCHANGED <<stage, status, opFailures, bucketNotFound>>
      BY <2>2, <2>5, Raises
    <3> QED BY <2>1, <2>5, <3>1 DEF Reaches
  <2>6. CASE ~command.force
    BY <2>1, <2>6
  <2> QED BY <2>2, <2>4, <2>5, <2>6 DEF MayExpand, Expanding
<1>3. CASE ExpandMissing
  <2>1. UNCHANGED <<command, reached>>
    BY <1>3 DEF ExpandMissing, ExpandUnchanged
  <2>2. MayExpand /\ IteratorRaises("missing")
    BY <1>3 DEF ExpandMissing
  <2>3. CASE stage = "objects" /\ command.force
    <3>1. bucketNotFound' = bucketNotFound + 1 \/ opFailures' = opFailures + 1
      BY <2>2, <2>3, Raises
    <3>2. ~(bucketNotFound' = 0 /\ opFailures' = 0)
      BY <3>1 DEF RmTypes, RmTypeOK
    <3> QED BY <3>2
  <2>4. CASE stage = "folders"
    <3>1. UNCHANGED <<stage, status, opFailures, bucketNotFound>>
      BY <2>2, <2>4, Raises
    <3> QED BY <2>1, <2>4, <3>1
  <2>5. CASE ~command.force
    BY <2>1, <2>5
  <2> QED BY <2>2, <2>3, <2>4, <2>5 DEF MayExpand, Expanding
<1>4. CASE ExpandFails
  <2>1. UNCHANGED <<command, reached>>
    BY <1>4 DEF ExpandFails, ExpandUnchanged
  <2>2. MayExpand /\ IteratorRaises("denied")
    BY <1>4 DEF ExpandFails
  <2>3. CASE stage = "objects" /\ command.force
    <3>1. bucketNotFound' = bucketNotFound + 1 \/ opFailures' = opFailures + 1
      BY <2>2, <2>3, Raises
    <3>2. ~(bucketNotFound' = 0 /\ opFailures' = 0)
      BY <3>1 DEF RmTypes, RmTypeOK
    <3> QED BY <3>2
  <2>4. CASE stage = "folders"
    <3>1. UNCHANGED <<stage, status, opFailures, bucketNotFound>>
      BY <2>2, <2>4, Raises
    <3> QED BY <2>1, <2>4, <3>1
  <2>5. CASE ~command.force
    BY <2>1, <2>5
  <2> QED BY <2>2, <2>3, <2>4, <2>5 DEF MayExpand, Expanding
<1>5. CASE HandOut
  BY <1>5 DEF HandOut, rmHistory, counts
<1>6. ASSUME NEW o \in tasks, Delete(o) PROVE ForceInv'
  BY <1>6 DEF Delete, RunGoesOn, TaskUnchanged, counts
<1>7. ASSUME NEW o \in tasks, DeleteNotFound(o) PROVE ForceInv'
  BY <1>7 DEF DeleteNotFound, RunGoesOn, TaskUnchanged
<1>8. ASSUME NEW o \in tasks, DeleteFails(o) PROVE ForceInv'
  <2>1. UNCHANGED <<command, reached>>
    BY <1>8 DEF DeleteFails, TaskUnchanged
  <2>2. CASE status' = "failed"
    BY <2>2
  <2>3. CASE /\ UNCHANGED <<status, stage, urls, bucketNotFound>>
             /\ opFailures' = IF stage = "folders" THEN opFailures
                              ELSE opFailures + 1
    <3>1. opFailures' = 0 => opFailures = 0
      BY <2>3 DEF RmTypes, RmTypeOK
    <3> QED BY <2>1, <2>3, <3>1
  <2> QED BY <1>8, <2>2, <2>3, Denied
<1>9. CASE Applied
  <2>1. /\ UNCHANGED <<command, reached, opFailures, bucketNotFound, status>>
        /\ urls = <<>>
    BY <1>9 DEF Applied, Drained, GoTo, CommandUnchanged, rmHistory, counts
  <2> QED BY <2>1, NoneInEmpty
<1>10. CASE Check
  <2>1. UNCHANGED <<command, reached, opFailures, bucketNotFound>>
        /\ stage # "objects" /\ (status' # "failed" => status # "failed")
    BY <1>10 DEF Check, GoTo, Exit, CommandUnchanged, rmHistory, counts, RmTypes, RmTypeOK
  <2> QED BY <2>1
<1>11. CASE FoldersApplied
  <2>1. UNCHANGED <<command, reached, opFailures, bucketNotFound>>
        /\ stage # "objects" /\ (status' # "failed" => status # "failed")
    BY <1>11 DEF FoldersApplied, GoTo, Exit, CommandUnchanged, rmHistory, counts, RmTypes, RmTypeOK
  <2> QED BY <2>1
<1>12. CASE DeleteBucket
  <2>1. UNCHANGED <<command, reached, opFailures, bucketNotFound, urls>>
        /\ stage = "buckets"
    BY <1>12 DEF DeleteBucket, BucketUnchanged, counts
  <2>2. status' # "failed" => status # "failed"
    BY <1>12, Unbuckets
  <2> QED BY <2>1, <2>2
<1>13. CASE BucketsDeleted
  <2>1. UNCHANGED <<command, reached, opFailures, bucketNotFound>>
        /\ stage # "objects" /\ (status' # "failed" => status # "failed")
    BY <1>13 DEF BucketsDeleted, GoTo, Exit, CommandUnchanged, rmHistory, counts, RmTypes, RmTypeOK
  <2> QED BY <2>1
<1>14. CASE Return
  <2>1. UNCHANGED <<command, reached, opFailures, bucketNotFound>>
        /\ stage # "objects" /\ (status' # "failed" => status # "failed")
    BY <1>14 DEF Return, GoTo, Exit, CommandUnchanged, rmHistory, counts, RmTypes, RmTypeOK
  <2> QED BY <2>1
<1>15. CASE OthersWrite
  BY <1>15 DEF OthersWrite, Other, counts
<1>16. CASE UNCHANGED rmVars
  BY <1>16 DEF rmVars, rmHistory, counts
<1>17. CASE OthersDeleteBucket
  BY <1>17 DEF OthersDeleteBucket, Other, counts
<1> QED
  BY <1>1, <1>2, <1>3, <1>4, <1>5, <1>6, <1>7, <1>8, <1>9, <1>10, <1>11, <1>12, <1>13, <1>14, <1>15, <1>16, <1>17 DEF RmNext, Stopped

\* A sequence that holds nothing is empty.
LEMMA EmptyRange ==
  ASSUME NEW S, NEW s \in Seq(S), Range(s) = {}
  PROVE  s = <<>>
<1> SUFFICES ASSUME s # <<>> PROVE FALSE
  OBVIOUS
<1>1. Range(s) = {Head(s)} \cup Range(Tail(s))
  BY HeadAndTail
<1> QED BY <1>1

\* The premise of NoFalseAlarm held before, and nothing it excludes happens.
LEMMA UntroubledBefore ==
  ASSUME RmTypes, [RmNext]_rmVars, Untroubled'
  PROVE  /\ Untroubled /\ UNCHANGED <<command, bucketNotFound>>
         /\ ~refused' /\ ~written' /\ gone \subseteq gone'
<1>1. command' = command /\ (written => written') /\ (refused => refused')
      /\ gone \subseteq gone'
  <2>1. CASE Expand BY <2>1 DEF Expand, ExpandUnchanged
  <2>2. CASE ExpandNothing BY <2>2 DEF ExpandNothing, ExpandUnchanged
  <2>3. CASE ExpandMissing BY <2>3 DEF ExpandMissing, ExpandUnchanged
  <2>4. CASE ExpandFails BY <2>4 DEF ExpandFails, ExpandUnchanged
  <2>5. CASE HandOut BY <2>5 DEF HandOut, rmHistory
  <2>6. ASSUME NEW o \in tasks, Delete(o)
        PROVE  command' = command /\ (written => written') /\ (refused => refused')
               /\ gone \subseteq gone'
    BY <2>6 DEF Delete, TaskUnchanged
  <2>7. ASSUME NEW o \in tasks, DeleteNotFound(o)
        PROVE  command' = command /\ (written => written') /\ (refused => refused')
               /\ gone \subseteq gone'
    BY <2>7 DEF DeleteNotFound, TaskUnchanged
  <2>8. ASSUME NEW o \in tasks, DeleteFails(o)
        PROVE  command' = command /\ (written => written') /\ (refused => refused')
               /\ gone \subseteq gone'
    BY <2>8 DEF DeleteFails, TaskUnchanged
  <2>9. CASE Applied BY <2>9 DEF Applied, CommandUnchanged, rmHistory
  <2>10. CASE Check BY <2>10 DEF Check, CommandUnchanged, rmHistory
  <2>11. CASE FoldersApplied BY <2>11 DEF FoldersApplied, CommandUnchanged, rmHistory
  <2>12. CASE DeleteBucket BY <2>12 DEF DeleteBucket, BucketUnchanged
  <2>13. CASE BucketsDeleted BY <2>13 DEF BucketsDeleted, CommandUnchanged, rmHistory
  <2>14. CASE Return BY <2>14 DEF Return, CommandUnchanged, rmHistory
  <2>15. CASE OthersWrite BY <2>15 DEF OthersWrite, Other
  <2>16. CASE UNCHANGED rmVars BY <2>16 DEF rmVars, rmHistory
  <2>17. CASE OthersDeleteBucket BY <2>17, Rivals DEF OthersDeleteBucket, Other
  <2> QED
    BY <2>1, <2>2, <2>3, <2>4, <2>5, <2>6, <2>7, <2>8, <2>9, <2>10, <2>11, <2>12,
       <2>13, <2>14, <2>15, <2>16, <2>17 DEF RmNext, Stopped
<1>2. bucketNotFound' \in {bucketNotFound, bucketNotFound + 1}
  <2>1. CASE Expand BY <2>1 DEF Expand, counts
  <2>2. ASSUME NEW kind, IteratorRaises(kind), MayExpand
        PROVE  bucketNotFound' \in {bucketNotFound, bucketNotFound + 1}
    BY <2>2, Raises DEF counts
  <2>3. CASE ExpandNothing \/ ExpandMissing \/ ExpandFails
    BY <2>2, <2>3 DEF ExpandNothing, ExpandMissing, ExpandFails
  <2>5. CASE HandOut BY <2>5 DEF HandOut, counts
  <2>6. ASSUME NEW o \in tasks, Delete(o)
        PROVE  bucketNotFound' \in {bucketNotFound, bucketNotFound + 1}
    BY <2>6 DEF Delete, counts
  <2>7. ASSUME NEW o \in tasks, DeleteNotFound(o)
        PROVE  bucketNotFound' \in {bucketNotFound, bucketNotFound + 1}
    BY <2>7 DEF DeleteNotFound
  <2>8. ASSUME NEW o \in tasks, DeleteFails(o)
        PROVE  bucketNotFound' \in {bucketNotFound, bucketNotFound + 1}
    BY <2>8, Denied
  <2>9. CASE Applied BY <2>9 DEF Applied, CommandUnchanged, counts
  <2>10. CASE Check BY <2>10 DEF Check, CommandUnchanged, counts
  <2>11. CASE FoldersApplied BY <2>11 DEF FoldersApplied, CommandUnchanged, counts
  <2>12. CASE DeleteBucket BY <2>12 DEF DeleteBucket, BucketUnchanged, counts
  <2>13. CASE BucketsDeleted BY <2>13 DEF BucketsDeleted, CommandUnchanged, counts
  <2>14. CASE Return BY <2>14 DEF Return, CommandUnchanged, counts
  <2>15. CASE OthersWrite BY <2>15 DEF OthersWrite, Other, counts
  <2>16. CASE UNCHANGED rmVars BY <2>16 DEF rmVars, counts
  <2>17. CASE OthersDeleteBucket BY <2>17 DEF OthersDeleteBucket, Other, counts
  <2> QED
    BY <2>1, <2>3, <2>5, <2>6, <2>7, <2>8, <2>9, <2>10, <2>11, <2>12,
       <2>13, <2>14, <2>15, <2>16, <2>17 DEF RmNext, Stopped
<1>3. bucketNotFound' = 0 => bucketNotFound = 0
  BY <1>2 DEF RmTypes, RmTypeOK
<1>4. ToDelete' = ToDelete
  BY <1>1, SameArguments
<1> QED BY <1>1, <1>3, <1>4 DEF Untroubled

\* Nothing is counted or missed in the calm.
LEMMA AlarmNext == RmTypes /\ StageInv /\ AlarmInv /\ [RmNext]_rmVars => AlarmInv'
<1> SUFFICES ASSUME RmTypes, StageInv, AlarmInv, [RmNext]_rmVars, Untroubled' PROVE Quiet'
  BY DEF AlarmInv
<1>a. /\ Untroubled /\ UNCHANGED <<command, bucketNotFound>> /\ ~refused' /\ ~written'
      /\ Quiet /\ bucketNotFound = 0 /\ gone \subseteq gone'
  BY UntroubledBefore DEF AlarmInv, Untroubled
<1>b. ToDelete' = ToDelete
  BY <1>a, SameArguments
<1>d. /\ \A url \in Range(ToDelete) : IsBucket(url) /\ url \in Urls
      /\ FolderUrls \in Seq(Urls) /\ Range(FolderUrls) = {}
  <2>1. command \in Commands
    BY DEF RmTypes
  <2>2. \A url \in Range(ToDelete) : IsBucket(url)
    BY <2>1, ArgumentsSplit
  <2>3. \A url \in Range(ToDelete) : url \in Urls
    BY <2>1, ArgumentsSplit DEF Range
  <2>4. FolderUrls \in Seq(Urls)
    BY <2>1, ArgumentsSplit
  <2>5. Range(FolderUrls) = {}
    BY <1>a, <2>1, <2>2, ArgumentsSplit DEF Untroubled
  <2> QED BY <2>2, <2>3, <2>4, <2>5
<1>e. UNCHANGED <<status, bucketsLeft>> => (status' = "failed" => AlarmAtGone')
  BY <1>a DEF Quiet, AlarmAtGone
<1> USE <1>a, <1>b, <1>e DEF Quiet
<1>1. CASE Expand
  <2>1. /\ UNCHANGED <<store, opFailures, failureCount, bucketsLeft, tasks, status, stage>>
        /\ urls # <<>> /\ urls' = Tail(urls) /\ listed = {}
        /\ listed' = Matches(Head(urls)) /\ Head(urls).bucket \in store.buckets
    BY <1>1 DEF Expand, ExpandUnchanged, counts, MayExpand
  <2>2. stage = "objects"
    BY <1>1, <2>1 DEF Expand, MayExpand, Expanding, Drained
  <2>3. Range(urls) = {Head(urls)} \cup Range(Tail(urls))
    BY <2>1, HeadAndTail DEF RmTypes, RmTypeOK
  <2>4. IsBucket(Head(urls))
    BY <1>d, <2>2, <2>3
  <2>5. Contents(Head(urls)) \subseteq listed'
    BY <2>1, <2>2, <2>4 DEF Contents, Matches
  <2> QED BY <2>1, <2>2, <2>3, <2>5 DEF Contents
<1>2. CASE ExpandNothing
  <2>1. /\ UNCHANGED <<store, bucketsLeft, tasks>>
        /\ Matches(Head(urls)) = {} /\ Head(urls).bucket \in store.buckets
        /\ IteratorRaises(NothingMatched(Head(urls))) /\ MayExpand
    BY <1>2 DEF ExpandNothing, ExpandUnchanged
  <2>2. urls # <<>> /\ stage = "objects" /\ command.force
    BY <2>1 DEF MayExpand, Expanding, Drained, Untroubled
  <2>3. Range(urls) = {Head(urls)} \cup Range(Tail(urls))
    BY <2>2, HeadAndTail DEF RmTypes, RmTypeOK
  <2>4. Head(urls) \in Range(ToDelete) /\ IsBucket(Head(urls))
    BY <1>d, <2>2, <2>3
  <2>5. NothingMatched(Head(urls)) = "bucket"
    BY <2>2, <2>4 DEF NothingMatched
  <2>6. /\ UNCHANGED <<stage, status, opFailures, failureCount>> /\ urls' = Tail(urls)
        /\ listed = {} /\ listed' = {}
    BY <2>1, <2>2, <2>5, Raises DEF counts
  <2>7. Contents(Head(urls)) = {}
    BY <2>1, <2>2, <2>4 DEF Contents, Matches
  <2> QED BY <2>1, <2>2, <2>3, <2>6, <2>7 DEF Contents
<1>3. CASE ExpandMissing
  <2>1. IteratorRaises("missing") /\ MayExpand
    BY <1>3 DEF ExpandMissing
  <2>2. urls # <<>> /\ stage = "objects" /\ command.force
    BY <2>1 DEF MayExpand, Expanding, Drained, Untroubled
  <2>3. bucketNotFound' = bucketNotFound + 1
    BY <2>1, <2>2, Raises
  <2> QED BY <1>a, <2>3 DEF RmTypes, RmTypeOK
<1>4. CASE ExpandFails
  BY <1>4, <1>a DEF ExpandFails
<1>5. CASE HandOut
  <2>1. UNCHANGED <<store, opFailures, failureCount, bucketsLeft, urls, status, stage>>
    BY <1>5 DEF HandOut, counts
  <2>2. listed' \cup tasks' = listed \cup tasks
    BY <1>5 DEF HandOut
  <2>3. stage # "folders"
    BY <1>5 DEF HandOut, Drained
  <2> QED BY <2>1, <2>2, <2>3 DEF Contents
<1>6. ASSUME NEW o \in tasks, Delete(o) PROVE Quiet'
  <2>1. /\ UNCHANGED <<opFailures, bucketsLeft, urls, listed, status, stage>>
        /\ tasks' = tasks \ {o} /\ failureCount' \in {failureCount, failureCount - 1}
    BY <1>6 DEF Delete, RunGoesOn, TaskUnchanged, NotFound, counts
  <2>2. store'.objects = store.objects \ {o} /\ store'.buckets = store.buckets
    BY <1>6, Deletes
  <2>3. failureCount' <= 0
    BY <2>1 DEF RmTypes, RmTypeOK
  <2>4. stage # "folders"
    BY DEF Drained
  <2> QED BY <2>1, <2>2, <2>3, <2>4 DEF Contents
<1>7. ASSUME NEW o \in tasks, DeleteNotFound(o) PROVE Quiet'
  <2>1. /\ UNCHANGED <<store, opFailures, bucketsLeft, urls, listed, status, stage>>
        /\ tasks' = tasks \ {o} /\ failureCount' = failureCount - 1
        /\ o \notin store.objects
    BY <1>7 DEF DeleteNotFound, RunGoesOn, TaskUnchanged, NotFound
  <2>2. failureCount' <= 0
    BY <2>1 DEF RmTypes, RmTypeOK
  <2>3. stage # "folders"
    BY DEF Drained
  <2> QED BY <2>1, <2>2, <2>3 DEF Contents
<1>8. ASSUME NEW o \in tasks, DeleteFails(o) PROVE Quiet'
  BY <1>8, <1>a DEF DeleteFails
<1>9. CASE Applied
  <2>1. /\ UNCHANGED <<store, opFailures, failureCount, bucketsLeft, urls, listed, tasks, status>>
        /\ stage = "objects" /\ stage' \notin {"objects", "folders"}
    BY <1>9 DEF Applied, Drained, GoTo, CommandUnchanged, counts
  <2>2. stage = "objects" => urls = <<>>
    BY <1>9 DEF Applied, Drained
  <2> QED BY <2>1, <2>2, NoneInEmpty DEF Contents
<1>10. CASE Check
  <2>1. stage = "checks" /\ ~(bucketNotFound > 0 \/ (opFailures > 0 /\ ~command.force))
    BY <1>10 DEF Check, Untroubled
  <2>2. /\ UNCHANGED <<store, opFailures, failureCount, bucketsLeft, listed, tasks, status>>
        /\ stage' = "folders" /\ urls' = IF command.recursive THEN FolderUrls ELSE <<>>
    BY <1>10, <2>1 DEF Check, GoTo, CommandUnchanged, counts
  <2>3. listed = {} /\ tasks = {}
    BY <2>1 DEF StageInv, Expanding
  <2>4. FolderUrls = <<>>
    BY <1>d, EmptyRange
  <2> QED BY <2>1, <2>2, <2>3, <2>4 DEF Drained, Contents
<1>11. CASE FoldersApplied
  <2>1. /\ UNCHANGED <<store, opFailures, failureCount, bucketsLeft, urls, listed, tasks, status>>
        /\ stage = "folders" /\ stage' \notin {"objects", "folders"}
    BY <1>11 DEF FoldersApplied, Drained, GoTo, CommandUnchanged, counts
  <2>2. stage = "objects" => urls = <<>>
    BY <1>11 DEF FoldersApplied, Drained
  <2> QED BY <2>1, <2>2, NoneInEmpty DEF Contents
<1>12. CASE DeleteBucket
  <2> DEFINE b == Head(bucketsLeft)
  <2>1. /\ UNCHANGED <<opFailures, failureCount, urls, listed, tasks>>
        /\ stage = "buckets" /\ bucketsLeft # <<>>
    BY <1>12 DEF DeleteBucket, BucketUnchanged, counts
  <2>2. /\ Range(bucketsLeft) = {b} \cup Range(Tail(bucketsLeft))
        /\ b \notin Range(Tail(bucketsLeft)) /\ IsInjective(Tail(bucketsLeft))
    BY <2>1, HeadAndTail DEF RmTypes
  <2>3. listed = {} /\ tasks = {}
    BY <2>1 DEF StageInv, Expanding
  <2>4. b.bucket \in store.buckets \cup gone /\ Contents(b) = {}
    BY <2>1, <2>2, <2>3
  <2>5. \A o \in store.objects : o.bucket # b.bucket
    BY <2>4 DEF Contents
  <2>6. Empty(b.bucket) \/ b.bucket \in gone
    BY <2>4, <2>5 DEF Empty
  <2>7. store'.objects = store.objects /\ store.buckets \subseteq store'.buckets \cup {b.bucket}
    BY <1>12, Unbuckets
  <2>8. CASE /\ UNCHANGED bucketsLeft /\ b.bucket \in gone'
             /\ stage' = "done" /\ status' = "failed" /\ gone \subseteq gone'
    <3>1. AlarmAtGone'
      BY <2>1, <2>8 DEF AlarmAtGone
    <3>2. store.buckets \cup gone \subseteq store'.buckets \cup gone'
      BY <2>7, <2>8
    <3> HIDE DEF b
    <3> QED BY <2>1, <2>3, <2>7, <2>8, <3>1, <3>2 DEF Contents
  <2>9. CASE bucketsLeft' = Tail(bucketsLeft) /\ UNCHANGED <<stage, status, gone>>
    <3>1. \A url \in Range(Tail(bucketsLeft)) : url.bucket # b.bucket
      BY <1>d, <2>2 DEF IsBucket, Urls
    <3>2. status' # "failed"
      BY <2>1, <2>9 DEF RmTypes, RmTypeOK
    <3> HIDE DEF b
    <3> QED BY <2>1, <2>2, <2>3, <2>7, <2>9, <3>1, <3>2 DEF Contents
  <2>10. \/ /\ UNCHANGED bucketsLeft /\ b.bucket \in gone'
            /\ stage' = "done" /\ status' = "failed" /\ gone \subseteq gone'
         \/ bucketsLeft' = Tail(bucketsLeft) /\ UNCHANGED <<stage, status, gone>>
    BY <1>12, <1>a, <2>6, Unbuckets
  <2> QED BY <2>8, <2>9, <2>10
<1>13. CASE BucketsDeleted
  <2>1. /\ UNCHANGED <<store, opFailures, failureCount, bucketsLeft, urls, listed, tasks, status>>
        /\ stage = "buckets" /\ stage' \notin {"objects", "folders"}
    BY <1>13 DEF BucketsDeleted, Drained, GoTo, CommandUnchanged, counts
  <2>2. stage = "objects" => urls = <<>>
    BY <1>13 DEF BucketsDeleted, Drained
  <2> QED BY <2>1, <2>2, NoneInEmpty DEF Contents
<1>14. CASE Return
  <2>1. /\ UNCHANGED <<store, opFailures, failureCount, bucketsLeft, urls, listed, tasks>>
        /\ stage = "end" /\ stage' = "done" /\ status' = ExitStatus
    BY <1>14 DEF Return, Exit, CommandUnchanged, counts
  <2>2. ExitStatus = "ok"
    BY DEF ExitStatus, RmTypes, RmTypeOK
  <2> QED BY <2>1, <2>2 DEF Contents
<1>15. CASE OthersWrite
  <2>1. UNCHANGED <<opFailures, failureCount, bucketsLeft, urls, listed, tasks, status, stage>>
    BY <1>15 DEF OthersWrite, Other, counts
  <2>2. store'.buckets = store.buckets /\ store'.objects \subseteq store.objects
    BY <1>15, <1>a, Others
  <2> QED BY <2>1, <2>2 DEF Drained, Contents
<1>16. CASE UNCHANGED rmVars
  <2>1. UNCHANGED <<store, opFailures, failureCount, bucketsLeft, urls, listed, tasks, status, stage>>
    BY <1>16 DEF rmVars, counts
  <2> QED BY <2>1 DEF Drained, Contents
<1>17. CASE OthersDeleteBucket
  <2>1. UNCHANGED <<opFailures, failureCount, bucketsLeft, urls, listed, tasks, status, stage>>
    BY <1>17 DEF OthersDeleteBucket, Other, counts
  <2>2. PICK b \in Buckets :
            /\ store'.buckets = store.buckets \ {b} /\ store'.objects = store.objects
            /\ gone' = gone \cup {b}
    BY <1>17, Rivals
  <2>3. store'.buckets \cup gone' = store.buckets \cup gone \cup {b} /\ gone \subseteq gone'
    BY <2>2
  <2> QED BY <2>1, <2>2, <2>3 DEF Drained, Contents, AlarmAtGone
<1> QED
  BY <1>1, <1>2, <1>3, <1>4, <1>5, <1>6, <1>7, <1>8, <1>9, <1>10, <1>11, <1>12, <1>13, <1>14, <1>15, <1>16, <1>17 DEF RmNext, Stopped

\* The invariant holds at first.
LEMMA RmInitInv == RmInit => RmInv
<1> SUFFICES ASSUME RmInit PROVE RmInv
  OBVIOUS
<1> USE DEF RmInit
<1>1. /\ command.urls \in Seq(Urls) /\ ToDelete \in Seq(Urls)
      /\ Range(ToDelete) = {url \in Range(command.urls) : IsBucket(url)}
      /\ (IsInjective(command.urls) => IsInjective(ToDelete))
  BY ArgumentsSplit
<1>2. /\ store \in [buckets : SUBSET Buckets, objects : SUBSET Objects]
      /\ \A o \in store.objects : o.bucket \in store.buckets
  BY StoresAssumption
<1>3. Cardinality({}) = 0
  BY FS_EmptySet
<1>4. RmTypes
  <2>1. store.objects \subseteq Objects
    BY <1>2
  <2>2. /\ stage \in Stages /\ urls \in Seq(Urls) /\ bucketsLeft \in Seq(Urls)
        /\ Cardinality(tasks) <= 1 /\ \A a, b \in tasks : a = b
    BY <1>1, <1>3 DEF Stages
  <2>3. RmTypeOK
    BY <1>2, <2>2 DEF RmTypeOK
  <2> QED BY <2>1, <2>2, <2>3 DEF RmTypes
<1>5. StageInv /\ BucketsInv /\ ReachInv /\ ForceInv
  BY DEF StageInv, Expanding, BucketsInv, ReachInv, ForceInv
<1>6. AlarmInv
  BY <1>1 DEF AlarmInv, Untroubled, Quiet
<1> QED BY <1>4, <1>5, <1>6 DEF RmInv

\* Each step preserves it.
LEMMA RmInvNext == RmInv /\ [RmNext]_rmVars => RmInv'
  BY TypesNext, StageNext, BucketsNext, ReachNext, ForceNext, AlarmNext DEF RmInv

\* The invariant holds always.
LEMMA RmInvHolds == RmSpec => []RmInv
  BY RmInitInv, RmInvNext, PTL DEF RmSpec

\* The counts, the stages and what is under way keep their types.
THEOREM RmTypesHold == RmSpec => []RmTypeOK
<1>1. RmInv => RmTypeOK
  BY DEF RmInv, RmTypes
<1> QED BY <1>1, RmInvHolds, PTL

\* Exit status 0 of rm is true: every object under an argument that was listed,
\* and with -f or -m every argument is, is gone unless somebody else wrote it
\* anew, and so is every bucket.  RunCommand checks opFailures, bucketNotFound
\* and failureCount in three places, and RemoveFunc takes back what a 404 was
\* counted as; no order of the workers makes a failure disappear.
THEOREM SuccessRemovesObjectsHolds == RmSpec => []SuccessRemovesObjects
<1>1. RmInv => SuccessRemovesObjects
  <2> SUFFICES ASSUME RmInv, status = "ok" PROVE
        /\ \A o \in Left : ~o.folder =>
               \A url \in Range(command.urls) : Asked(o, url) =>
                   url \notin reached /\ ~command.force
        /\ \A url \in Range(ToDelete) : url.bucket \notin store.buckets
    BY DEF SuccessRemovesObjects
  <2>1. stage = "done"
    BY DEF RmInv, RmTypes, RmTypeOK
  <2>2. listed = {} /\ tasks = {} /\ bucketNotFound = 0
    BY <2>1 DEF RmInv, StageInv, Expanding
  <2>3. opFailures = 0 /\ bucketsLeft = <<>>
    BY DEF RmInv, BucketsInv
  <2>4. \A url \in Range(ToDelete) : url.bucket \notin store.buckets
    BY <2>3, NoneInEmpty DEF RmInv, BucketsInv
  <2>5. ASSUME NEW o \in Left, ~o.folder,
               NEW url \in Range(command.urls), Asked(o, url)
        PROVE  url \notin reached /\ ~command.force
    <3>1. o \in Missed(url)
      BY <2>5 DEF Left, Missed
    <3>2. url \notin reached
      BY <2>2, <2>3, <3>1 DEF RmInv, ReachInv
    <3>3. ~command.force
      BY <2>1, <2>2, <2>3, <3>2 DEF RmInv, ForceInv
    <3> QED BY <3>2, <3>3
  <2> QED BY <2>4, <2>5
<1> QED BY <1>1, RmInvHolds, PTL

\* rm -r of buckets that are there, each named once, with -f or -m, exits with 0
\* unless a request was refused, somebody wrote an object, or the bucket at which
\* it stopped had gone without an answer to its own deletion: neither a lost
\* answer nor a rival that deletes the same objects makes the counts go wrong.
THEOREM NoFalseAlarmHolds == RmSpec => []NoFalseAlarm
<1>1. RmInv => NoFalseAlarm
  <2> SUFFICES ASSUME RmInv, status = "failed", command.force, ~refused, ~written,
                      Range(command.urls) = Range(ToDelete),
                      IsInjective(command.urls)
               PROVE  bucketNotFound > 0 \/ AlarmAtGone
    BY DEF NoFalseAlarm
  <2>1. bucketNotFound # 0 \/ AlarmAtGone
    BY DEF RmInv, AlarmInv, Untroubled, Quiet
  <2> QED BY <2>1 DEF RmInv, RmTypes, RmTypeOK
<1> QED BY <1>1, RmInvHolds, PTL
=============================================================================
