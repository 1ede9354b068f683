------------------------ MODULE MetadataUpdateProofs ------------------------
(***************************************************************************)
(* For any commands, any number of them, any changes by others and any      *)
(* faults: no update of a part of the metadata is lost, a command that      *)
(* succeeds has had its effect, and one that reads again fails only after   *)
(* three changes by others.                                                 *)
(***************************************************************************)
EXTENDS MetadataUpdate, WellFoundedInduction, TLAPS

-----------------------------------------------------------------------------
(* The invariant.                                                          *)

\* A reading with the version of now has the value of now.
Reliable(p, s) ==
    /\ s.version <= version[Container(p)]
    /\ s.version = version[Container(p)] => s.value = value[p]

ReadingsInv == \A c \in Clients : Reliable(part(c), seen[c]) /\ Reliable(part(c), listed[c])

\* What a command has read as it asks for has been so while it ran.
EffectInv ==
    \A c \in Clients :
        pc[c] # "begin" =>
            (Satisfied(c, seen[c].value) \/ Satisfied(c, listed[c].value) => effective[c])

Stale(c) == seen[c].version < version[Container(part(c))]

\* A command has been disturbed once for each of its attempts that were
\* rejected, and once more if what it has read is stale.
TriesOf(c) ==
    IF op(c) = "aclObject"
    THEN /\ tries[c] > 1 => disturbed[c] >= tries[c]
         /\ pc[c] \in {"change", "patch"} /\ Stale(c) => disturbed[c] >= tries[c]
         /\ pc[c] \in {"refetch", "rechange", "repatch"} =>
                disturbed[c] + 1 >= inner[c] + tries[c]
         /\ pc[c] \in {"rechange", "repatch"} /\ Stale(c) =>
                disturbed[c] >= inner[c] + tries[c]
    ELSE /\ pc[c] \notin {"refetch", "rechange", "repatch"}
         /\ disturbed[c] + 1 >= tries[c]
         /\ pc[c] \in {"change", "patch"} /\ Stale(c) => disturbed[c] >= tries[c]

TriesInv ==
    \A c \in Clients :
        op(c) \in Rereads /\ ~raised[c] =>
            /\ TriesOf(c)
            /\ pc[c] = "failed" /\ ~NoAcl(c) /\ ~Misplaced(c) => disturbed[c] >= 3

-----------------------------------------------------------------------------
(* What a list of changes makes of a part.                                 *)

MapsOfKeys == [Keys -> Vals \cup {None}]
Policies == [Keys -> SUBSET Vals]
Relations == SUBSET (Keys \X Vals)

\* Induction over the prefixes of a sequence.
LEMMA Reached ==
    ASSUME NEW n \in Nat, NEW T, 0 \in T,
           \A m \in 0..n : m \in T /\ m < n => m + 1 \in T
    PROVE  0..n \subseteq T
<1> DEFINE Rest == (0..n) \ T
<1> SUFFICES ASSUME Rest # {} PROVE FALSE
  OBVIOUS
<1>1. \E m \in Rest : \A i \in Rest : ~(<<i, m>> \in OpToRel(<, Nat))
  <2>1. Rest \subseteq Nat
    OBVIOUS
  <2> HIDE DEF Rest
  <2>. QED BY <2>1, NatLessThanWellFounded, WFMin
<1>2. PICK m \in Rest : \A i \in Rest : ~(i < m)
  <2>1. \A i, m \in Rest : i < m => <<i, m>> \in OpToRel(<, Nat)
    BY DEF OpToRel
  <2>. QED BY <1>1, <2>1
<1>3. m \in 1..n /\ m - 1 \in 0..n /\ m - 1 < m /\ m - 1 < n /\ (m - 1) + 1 = m
  OBVIOUS
<1>4. m - 1 \in T
  BY <1>2, <1>3
<1>. QED BY <1>3, <1>4

Steps(S, n) == [1..n -> [S -> S]]
Results(h, S, base, n, step) ==
    /\ h \in [0..n -> S]
    /\ h[0] = base /\ \A i \in 1..n : h[i] = step[i][h[i - 1]]

\* The results of the first steps of a list exist.
LEMMA StepsExist ==
    ASSUME NEW S, NEW base \in S, NEW n \in Nat, NEW step \in Steps(S, n)
    PROVE  \E h : Results(h, S, base, n, step)
<1>0. step \in [1..n -> [S -> S]]
  BY DEF Steps
<1> DEFINE Good(m, h) ==
      /\ h \in [0..m -> S]
      /\ h[0] = base /\ \A i \in 1..m : h[i] = step[i][h[i - 1]]
           T == {m \in 0..n : \E h \in [0..m -> S] : Good(m, h)}
<1>1. 0 \in T
  <2> DEFINE g == [i \in 0..0 |-> base]
  <2>1. Good(0, g) /\ g \in [0..0 -> S] /\ 0 \in 0..n
    OBVIOUS
  <2> HIDE DEF Good, g
  <2>. QED BY <2>1
<1>2. ASSUME NEW m \in 0..n, m \in T, m < n PROVE m + 1 \in T
  <2>1. PICK h \in [0..m -> S] : Good(m, h)
    BY <1>2
  <2> DEFINE g == [i \in 0..(m + 1) |-> IF i = m + 1 THEN step[m + 1][h[m]] ELSE h[i]]
  <2>2. m + 1 \in 1..n /\ h[m] \in S /\ step[m + 1][h[m]] \in S
    BY <1>0, <1>2
  <2>3. g \in [0..(m + 1) -> S]
    BY <2>2
  <2>4. ASSUME NEW i \in 1..(m + 1) PROVE g[i] = step[i][g[i - 1]]
    <3>1. CASE i = m + 1
      <4>1. i - 1 = m /\ m \in 0..(m + 1) /\ m # m + 1
        BY <3>1
      <4>2. g[i] = step[m + 1][h[m]] /\ g[m] = h[m]
        BY <3>1, <4>1
      <4> HIDE DEF g
      <4>. QED BY <3>1, <4>1, <4>2
    <3>2. CASE i # m + 1
      <4>1. i \in 1..m /\ h[i] = step[i][h[i - 1]]
        BY <2>1, <3>2
      <4>2. g[i] = h[i] /\ g[i - 1] = h[i - 1]
        BY <3>2
      <4> HIDE DEF g
      <4>. QED BY <4>1, <4>2
    <3>. QED BY <3>1, <3>2
  <2>7. g[0] = base
    BY <2>1
  <2>5. Good(m + 1, g)
    <3> HIDE DEF g
    <3>. QED BY <2>3, <2>4, <2>7
  <2>6. m + 1 \in 0..n
    BY <1>2
  <2> HIDE DEF Good, g
  <2>. QED BY <2>3, <2>5, <2>6
<1>3. 0..n \subseteq T
  <2> HIDE DEF T
  <2>. QED BY <1>1, <1>2, Reached
<1>4. n \in T
  BY <1>3
<1>. QED BY <1>4 DEF Results

\* And are what the first step starts from is.
LEMMA StepsTyped ==
    ASSUME NEW S, NEW n \in Nat, NEW f, f[0] \in S,
           \A i \in 1..n : f[i - 1] \in S => f[i] \in S
    PROVE  \A i \in 0..n : f[i] \in S
<1> DEFINE T == {i \in 0..n : f[i] \in S}
<1>1. 0 \in T
  OBVIOUS
<1>2. ASSUME NEW m \in 0..n, m \in T, m < n PROVE m + 1 \in T
  <2>1. m + 1 \in 1..n /\ (m + 1) - 1 = m
    BY <1>2
  <2>. QED BY <1>2, <2>1
<1>3. 0..n \subseteq T
  <2> HIDE DEF T
  <2>. QED BY <1>1, <1>2, Reached
<1>. QED BY <1>3

Executions == [acl : MapsOfKeys, count : Nat]
Unexecuted(map) == [acl |-> map, count |-> 0]

Updated(map, w) == [map EXCEPT ![w.key] = w.val]

LEMMA ExecuteTyped ==
    ASSUME NEW o
    PROVE  \A s \in Executions, w \in Words :
               /\ Execute(o, s, w) \in Executions
               /\ Execute(o, s, w).acl = IF Skips(o, w) THEN s.acl ELSE Updated(s.acl, w)
               /\ Execute(o, s, w).count >= s.count
               /\ Execute(o, s, w).count = s.count => Execute(o, s, w) = s
<1> SUFFICES ASSUME NEW s \in Executions, NEW w \in Words
             PROVE  /\ Execute(o, s, w) \in Executions
                    /\ Execute(o, s, w).acl = IF Skips(o, w) THEN s.acl ELSE Updated(s.acl, w)
                    /\ Execute(o, s, w).count >= s.count
                    /\ Execute(o, s, w).count = s.count => Execute(o, s, w) = s
  OBVIOUS
<1>1. w.key \in Keys /\ w.val \in Vals \cup {None}
  BY DEF Words
<1>2. s.acl \in MapsOfKeys /\ s.count \in Nat
  BY DEF Executions
<1>3. CASE Skips(o, w)
  BY <1>2, <1>3 DEF Execute
<1>4. CASE ~Skips(o, w) /\ s.acl[w.key] = w.val
  <2>1. Execute(o, s, w) = s
    BY <1>4 DEF Execute
  <2>2. Updated(s.acl, w) = s.acl
    BY <1>1, <1>2, <1>4 DEF MapsOfKeys, Updated
  <2>. QED BY <1>2, <1>4, <2>1, <2>2
<1>5. CASE ~Skips(o, w) /\ s.acl[w.key] # w.val
  <2>1. Execute(o, s, w) = [acl |-> Updated(s.acl, w), count |-> s.count + 1]
    BY <1>5 DEF Execute, Updated
  <2>2. Updated(s.acl, w) \in MapsOfKeys /\ s.count + 1 \in Nat
    BY <1>1, <1>2 DEF MapsOfKeys, Updated
  <2>3. Execute(o, s, w).count = s.count + 1
    BY <2>1
  <2>. QED BY <1>2, <1>5, <2>1, <2>2, <2>3 DEF Executions
<1>. QED BY <1>3, <1>4, <1>5

LEMMA PatchBindingsTyped ==
    \A b \in Policies, w \in Grants : PatchBindings(b, w) \in Policies
<1> SUFFICES ASSUME NEW b \in Policies, NEW w \in Grants PROVE PatchBindings(b, w) \in Policies
  OBVIOUS
<1>1. CASE w.grant
  <2>1. w.role \in Keys /\ w.member \in Vals
    BY <1>1 DEF Grants
  <2>2. b[w.role] \cup {w.member} \in SUBSET Vals
    BY <2>1 DEF Policies
  <2>. QED BY <1>1, <2>1, <2>2 DEF PatchBindings, Policies
<1>2. CASE ~w.grant
  BY <1>2 DEF PatchBindings, Policies
<1>. QED BY <1>1, <1>2

LEMMA RegrantTyped ==
    \A x \in Relations, w \in Grants : Regrant(x, w) \in Relations
<1> SUFFICES ASSUME NEW x \in Relations, NEW w \in Grants
             PROVE  Regrant(x, w) \in Relations
  OBVIOUS
<1>1. CASE w.grant
  <2>1. w.role \in Keys /\ w.member \in Vals
    BY <1>1 DEF Grants
  <2>. QED BY <1>1, <2>1 DEF Regrant, Relations
<1>2. CASE ~w.grant
  BY <1>2 DEF Regrant, Relations
<1>. QED BY <1>1, <1>2

\* The changes of acl ch, one after the other.
LEMMA ExecuteAllSteps ==
    ASSUME NEW o, NEW acl \in MapsOfKeys, NEW ch \in Seq(Words)
    PROVE  \E h \in [0..Len(ch) -> Executions] :
               /\ h[0] = Unexecuted(acl)
               /\ \A i \in 1..Len(ch) : h[i] = Execute(o, h[i - 1], ch[i])
               /\ ExecuteAll(o, acl, ch) = h[Len(ch)]
<1> DEFINE n == Len(ch)
           step == [i \in 1..n |-> [s \in Executions |-> Execute(o, s, ch[i])]]
<1>1. n \in Nat /\ Unexecuted(acl) \in Executions
  BY DEF Executions, Unexecuted
<1>2. \A s \in Executions, i \in 1..n : Execute(o, s, ch[i]) \in Executions
  <2>1. \A i \in 1..n : ch[i] \in Words
    OBVIOUS
  <2>. QED BY <2>1, ExecuteTyped
<1>3. step \in Steps(Executions, n)
  <2> HIDE DEF n
  <2>. QED BY <1>2 DEF Steps
<1>4. PICK h : Results(h, Executions, Unexecuted(acl), n, step)
  <2> HIDE DEF step, n
  <2>. QED BY <1>1, <1>3, StepsExist
<1>5. h = [i \in 0..n |-> IF i = 0 THEN Unexecuted(acl) ELSE Execute(o, h[i - 1], ch[i])]
  <2>1. \A i \in 1..n : i \in 0..n /\ i # 0 /\ i - 1 \in 0..n
    OBVIOUS
  <2>2. \A i \in 1..n : h[i - 1] \in Executions /\ step[i][h[i - 1]] = Execute(o, h[i - 1], ch[i])
    <3> HIDE DEF n
    <3>. QED BY <1>4, <2>1 DEF Results
  <2>3. \A i \in 0..n : i = 0 \/ i \in 1..n
    OBVIOUS
  <2>4. \A i \in 0..n : h[i] = IF i = 0 THEN Unexecuted(acl) ELSE Execute(o, h[i - 1], ch[i])
    <3> HIDE DEF step, n
    <3>. QED BY <1>4, <2>2, <2>3 DEF Results
  <2> HIDE DEF step, n
  <2>. QED BY <1>4, <2>4 DEF Results
<1> DEFINE after[i \in 0..Len(ch)] ==
               IF i = 0 THEN Unexecuted(acl) ELSE Execute(o, after[i - 1], ch[i])
<1>6. after = [i \in 0..n |-> IF i = 0 THEN Unexecuted(acl) ELSE Execute(o, after[i - 1], ch[i])]
  <2>1. after = CHOOSE g : g = [i \in 0..n |-> IF i = 0 THEN Unexecuted(acl)
                                               ELSE Execute(o, g[i - 1], ch[i])]
    OBVIOUS
  <2> HIDE DEF after, n, step
  <2>. QED BY <1>5, <2>1
<1>7. ExecuteAll(o, acl, ch) = after[n]
  BY DEF ExecuteAll, Unexecuted
<1> HIDE DEF after, step
<1>8. after[0] = Unexecuted(acl) /\ \A i \in 1..n : after[i] = Execute(o, after[i - 1], ch[i])
  <2>1. 0 \in 0..n /\ \A i \in 1..n : i \in 0..n /\ i # 0
    BY <1>1
  <2> HIDE DEF n
  <2>. QED BY <1>6, <2>1
<1>9. \A i \in 0..n : after[i] \in Executions
  <2>1. \A i \in 1..n : after[i - 1] \in Executions => after[i] \in Executions
    BY <1>2, <1>8
  <2> HIDE DEF n
  <2>. QED BY <1>1, <1>8, <2>1, StepsTyped
<1>10. after \in [0..n -> Executions]
  <2> HIDE DEF n
  <2>. QED BY <1>6, <1>9
<1>. QED BY <1>7, <1>8, <1>10

\* The same of iam ch.
LEMMA PatchAllSteps ==
    ASSUME NEW policy \in Policies, NEW ch \in Seq(Grants)
    PROVE  \E h \in [0..Len(ch) -> Policies] :
               /\ h[0] = policy
               /\ \A i \in 1..Len(ch) : h[i] = PatchBindings(h[i - 1], ch[i])
               /\ PatchAll(policy, ch) = h[Len(ch)]
<1> DEFINE n == Len(ch)
           step == [i \in 1..n |-> [s \in Policies |-> PatchBindings(s, ch[i])]]
<1>1. n \in Nat /\ policy \in Policies
  BY DEF Executions
<1>2. \A s \in Policies, i \in 1..n : PatchBindings(s, ch[i]) \in Policies
  <2>1. \A i \in 1..n : ch[i] \in Grants
    OBVIOUS
  <2>. QED BY <2>1, PatchBindingsTyped
<1>3. step \in Steps(Policies, n)
  <2> HIDE DEF n
  <2>. QED BY <1>2 DEF Steps
<1>4. PICK h : Results(h, Policies, policy, n, step)
  <2> HIDE DEF step, n
  <2>. QED BY <1>1, <1>3, StepsExist
<1>5. h = [i \in 0..n |-> IF i = 0 THEN policy ELSE PatchBindings(h[i - 1], ch[i])]
  <2>1. \A i \in 1..n : i \in 0..n /\ i # 0 /\ i - 1 \in 0..n
    OBVIOUS
  <2>2. \A i \in 1..n : h[i - 1] \in Policies /\ step[i][h[i - 1]] = PatchBindings(h[i - 1], ch[i])
    <3> HIDE DEF n
    <3>. QED BY <1>4, <2>1 DEF Results
  <2>3. \A i \in 0..n : i = 0 \/ i \in 1..n
    OBVIOUS
  <2>4. \A i \in 0..n : h[i] = IF i = 0 THEN policy ELSE PatchBindings(h[i - 1], ch[i])
    <3> HIDE DEF step, n
    <3>. QED BY <1>4, <2>2, <2>3 DEF Results
  <2> HIDE DEF step, n
  <2>. QED BY <1>4, <2>4 DEF Results
<1> DEFINE after[i \in 0..Len(ch)] ==
               IF i = 0 THEN policy ELSE PatchBindings(after[i - 1], ch[i])
<1>6. after = [i \in 0..n |-> IF i = 0 THEN policy ELSE PatchBindings(after[i - 1], ch[i])]
  <2>1. after = CHOOSE g : g = [i \in 0..n |-> IF i = 0 THEN policy
                                               ELSE PatchBindings(g[i - 1], ch[i])]
    OBVIOUS
  <2> HIDE DEF after, n, step
  <2>. QED BY <1>5, <2>1
<1>7. PatchAll(policy, ch) = after[n]
  BY DEF PatchAll
<1> HIDE DEF after, step
<1>8. after[0] = policy /\ \A i \in 1..n : after[i] = PatchBindings(after[i - 1], ch[i])
  <2>1. 0 \in 0..n /\ \A i \in 1..n : i \in 0..n /\ i # 0
    BY <1>1
  <2> HIDE DEF n
  <2>. QED BY <1>6, <2>1
<1>9. \A i \in 0..n : after[i] \in Policies
  <2>1. \A i \in 1..n : after[i - 1] \in Policies => after[i] \in Policies
    BY <1>2, <1>8
  <2> HIDE DEF n
  <2>. QED BY <1>1, <1>8, <2>1, StepsTyped
<1>10. after \in [0..n -> Policies]
  <2> HIDE DEF n
  <2>. QED BY <1>6, <1>9
<1>. QED BY <1>7, <1>8, <1>10

\* And of what iam ch is meant to do.
LEMMA RegrantedSteps ==
    ASSUME NEW pairs \in Relations, NEW ch \in Seq(Grants)
    PROVE  \E h \in [0..Len(ch) -> Relations] :
               /\ h[0] = pairs
               /\ \A i \in 1..Len(ch) : h[i] = Regrant(h[i - 1], ch[i])
               /\ Regranted(pairs, ch) = h[Len(ch)]
<1> DEFINE n == Len(ch)
           step == [i \in 1..n |-> [s \in Relations |-> Regrant(s, ch[i])]]
<1>1. n \in Nat /\ pairs \in Relations
  BY DEF Executions
<1>2. \A s \in Relations, i \in 1..n : Regrant(s, ch[i]) \in Relations
  <2>1. \A i \in 1..n : ch[i] \in Grants
    OBVIOUS
  <2>. QED BY <2>1, RegrantTyped
<1>3. step \in Steps(Relations, n)
  <2> HIDE DEF n
  <2>. QED BY <1>2 DEF Steps
<1>4. PICK h : Results(h, Relations, pairs, n, step)
  <2> HIDE DEF step, n
  <2>. QED BY <1>1, <1>3, StepsExist
<1>5. h = [i \in 0..n |-> IF i = 0 THEN pairs ELSE Regrant(h[i - 1], ch[i])]
  <2>1. \A i \in 1..n : i \in 0..n /\ i # 0 /\ i - 1 \in 0..n
    OBVIOUS
  <2>2. \A i \in 1..n : h[i - 1] \in Relations /\ step[i][h[i - 1]] = Regrant(h[i - 1], ch[i])
    <3> HIDE DEF n
    <3>. QED BY <1>4, <2>1 DEF Results
  <2>3. \A i \in 0..n : i = 0 \/ i \in 1..n
    OBVIOUS
  <2>4. \A i \in 0..n : h[i] = IF i = 0 THEN pairs ELSE Regrant(h[i - 1], ch[i])
    <3> HIDE DEF step, n
    <3>. QED BY <1>4, <2>2, <2>3 DEF Results
  <2> HIDE DEF step, n
  <2>. QED BY <1>4, <2>4 DEF Results
<1> DEFINE after[i \in 0..Len(ch)] ==
               IF i = 0 THEN pairs ELSE Regrant(after[i - 1], ch[i])
<1>6. after = [i \in 0..n |-> IF i = 0 THEN pairs ELSE Regrant(after[i - 1], ch[i])]
  <2>1. after = CHOOSE g : g = [i \in 0..n |-> IF i = 0 THEN pairs
                                               ELSE Regrant(g[i - 1], ch[i])]
    OBVIOUS
  <2> HIDE DEF after, n, step
  <2>. QED BY <1>5, <2>1
<1>7. Regranted(pairs, ch) = after[n]
  BY DEF Regranted
<1> HIDE DEF after, step
<1>8. after[0] = pairs /\ \A i \in 1..n : after[i] = Regrant(after[i - 1], ch[i])
  <2>1. 0 \in 0..n /\ \A i \in 1..n : i \in 0..n /\ i # 0
    BY <1>1
  <2> HIDE DEF n
  <2>. QED BY <1>6, <2>1
<1>9. \A i \in 0..n : after[i] \in Relations
  <2>1. \A i \in 1..n : after[i - 1] \in Relations => after[i] \in Relations
    BY <1>2, <1>8
  <2> HIDE DEF n
  <2>. QED BY <1>1, <1>8, <2>1, StepsTyped
<1>10. after \in [0..n -> Relations]
  <2> HIDE DEF n
  <2>. QED BY <1>6, <1>9
<1>. QED BY <1>7, <1>8, <1>10

-----------------------------------------------------------------------------
(* The commands write what they are meant to.                              *)

LEMMA LastOfGrown ==
    ASSUME NEW m \in Nat, NEW I \in SUBSET (1..m)
    PROVE  LastOf(I \cup {m + 1}) = m + 1
<1>1. \A i \in I : i \in Nat /\ i <= m
  OBVIOUS
<1>2. \A i \in I \cup {m + 1} : (\A j \in I \cup {m + 1} : j <= i) <=> i = m + 1
  BY <1>1
<1>. QED BY <1>2 DEF LastOf

\* One word more.
LEMMA OverrideGrown ==
    ASSUME NEW map \in MapsOfKeys, NEW ch \in Seq(Words), NEW W,
           NEW m \in Nat, m + 1 \in 1..Len(ch)
    PROVE  OverrideWith(ch, W \cap (1..(m + 1)), map) =
               IF m + 1 \in W THEN Updated(OverrideWith(ch, W \cap (1..m), map), ch[m + 1])
               ELSE OverrideWith(ch, W \cap (1..m), map)
<1> DEFINE words(n, k) == {i \in W \cap (1..n) : ch[i].key = k}
           one == OverrideWith(ch, W \cap (1..m), map)
           two == OverrideWith(ch, W \cap (1..(m + 1)), map)
<1>1. /\ one = [k \in Keys |-> IF words(m, k) = {} THEN map[k] ELSE ch[LastOf(words(m, k))].val]
      /\ two = [k \in Keys |-> IF words(m + 1, k) = {} THEN map[k]
                               ELSE ch[LastOf(words(m + 1, k))].val]
  BY DEF OverrideWith
<1>2. 1..(m + 1) = (1..m) \cup {m + 1}
  OBVIOUS
<1>3. CASE m + 1 \notin W
  <2>1. W \cap (1..(m + 1)) = W \cap (1..m)
    BY <1>2, <1>3
  <2>. QED BY <1>3, <2>1
<1>4. CASE m + 1 \in W
  <2>1. ASSUME NEW k \in Keys, ch[m + 1].key = k PROVE two[k] = ch[m + 1].val
    <3>1. words(m + 1, k) = words(m, k) \cup {m + 1} /\ words(m, k) \in SUBSET (1..m)
      BY <1>2, <1>4, <2>1
    <3>2. LastOf(words(m + 1, k)) = m + 1
      <4> HIDE DEF words
      <4>. QED BY <3>1, LastOfGrown
    <3>. QED BY <1>1, <3>1, <3>2
  <2>2. ASSUME NEW k \in Keys, ch[m + 1].key # k PROVE two[k] = one[k]
    <3>1. \A i \in 1..(m + 1) : ch[i].key = k => i \in 1..m
      BY <1>2, <2>2
    <3>2. \A i \in 1..m : i \in 1..(m + 1)
      BY <1>2
    <3>3. words(m + 1, k) = words(m, k)
      BY <3>1, <3>2
    <3>4. one[k] = IF words(m, k) = {} THEN map[k] ELSE ch[LastOf(words(m, k))].val
      BY <1>1, Zenon
    <3>5. two[k] = IF words(m + 1, k) = {} THEN map[k] ELSE ch[LastOf(words(m + 1, k))].val
      BY <1>1, Zenon
    <3> HIDE DEF words, one, two
    <3>. QED BY <3>3, <3>4, <3>5
  <2>3. one = [k \in Keys |-> one[k]] /\ two = [k \in Keys |-> two[k]]
    BY <1>1, Zenon
  <2> HIDE DEF one, two
  <2>4. Updated(one, ch[m + 1]) =
            [k \in Keys |-> IF k = ch[m + 1].key THEN ch[m + 1].val ELSE one[k]]
    BY <2>3 DEF Updated
  <2>5. \A k \in Keys : two[k] = IF k = ch[m + 1].key THEN ch[m + 1].val ELSE one[k]
    BY <2>1, <2>2
  <2>6. two = Updated(one, ch[m + 1])
    BY <2>3, <2>4, <2>5
  <2>. QED BY <1>4, <2>6 DEF one, two
<1>. QED BY <1>3, <1>4

LEMMA OverrideNone ==
    ASSUME NEW map \in MapsOfKeys, NEW ch
    PROVE  OverrideWith(ch, {}, map) = map
BY DEF OverrideWith, MapsOfKeys

\* acl ch makes in order the changes that apply, and counts none if they
\* change nothing.
LEMMA ExecutedIsMeant ==
    ASSUME NEW o, NEW map \in MapsOfKeys, NEW ch \in Seq(Words)
    PROVE  /\ ExecuteAll(o, map, ch).acl = OverrideWith(ch, Applied(o, ch), map)
           /\ ExecuteAll(o, map, ch).acl \in MapsOfKeys
           /\ ExecuteAll(o, map, ch).count = 0 => ExecuteAll(o, map, ch).acl = map
<1> DEFINE n == Len(ch)
           W == Applied(o, ch)
<1>0. n \in Nat /\ DOMAIN ch = 1..n /\ \A i \in 1..n : ch[i] \in Words
  OBVIOUS
<1>1. PICK h \in [0..n -> Executions] :
          /\ h[0] = Unexecuted(map)
          /\ \A i \in 1..n : h[i] = Execute(o, h[i - 1], ch[i])
          /\ ExecuteAll(o, map, ch) = h[n]
  BY ExecuteAllSteps
<1>a. \A i \in 1..n : Skips(o, ch[i]) <=> i \notin W
  BY <1>0 DEF Applied
<1>b. W \cap (1..n) = W
  BY <1>0 DEF Applied
<1> HIDE DEF n, W
<1>2. \A i \in 0..n : h[i].acl = OverrideWith(ch, W \cap (1..i), map)
  <2> DEFINE T == {i \in 0..n : h[i].acl = OverrideWith(ch, W \cap (1..i), map)}
  <2>1. 0 \in T
    <3>1. h[0].acl = map /\ W \cap (1..0) = {} /\ 0 \in 0..n
      BY <1>0, <1>1 DEF Unexecuted
    <3>. QED BY <3>1, OverrideNone
  <2>2. ASSUME NEW m \in 0..n, m \in T, m < n PROVE m + 1 \in T
    <3>1. m \in Nat /\ m + 1 \in 1..n /\ m + 1 \in 0..n /\ (m + 1) - 1 = m
      BY <1>0, <2>2
    <3>2. h[m + 1] = Execute(o, h[m], ch[m + 1]) /\ h[m] \in Executions /\ ch[m + 1] \in Words
      BY <1>0, <1>1, <3>1
    <3>3. h[m + 1].acl = IF m + 1 \in W THEN Updated(h[m].acl, ch[m + 1]) ELSE h[m].acl
      <4>1. h[m + 1].acl = IF Skips(o, ch[m + 1]) THEN h[m].acl
                           ELSE Updated(h[m].acl, ch[m + 1])
        BY <3>2, ExecuteTyped
      <4>2. Skips(o, ch[m + 1]) <=> m + 1 \notin W
        BY <1>a, <3>1
      <4>. QED BY <4>1, <4>2
    <3>4. h[m].acl = OverrideWith(ch, W \cap (1..m), map)
      BY <2>2
    <3>5. OverrideWith(ch, W \cap (1..(m + 1)), map) =
             IF m + 1 \in W THEN Updated(OverrideWith(ch, W \cap (1..m), map), ch[m + 1])
             ELSE OverrideWith(ch, W \cap (1..m), map)
      BY <3>1, OverrideGrown DEF n
    <3>. QED BY <3>1, <3>3, <3>4, <3>5
  <2>3. 0..n \subseteq T
    <3> HIDE DEF T
    <3>. QED BY <1>0, <2>1, <2>2, Reached
  <2>. QED BY <2>3
<1>3. \A i \in 0..n : h[i].count = 0 => h[i].acl = map
  <2> DEFINE T == {i \in 0..n : h[i].count = 0 => h[i].acl = map}
  <2>1. 0 \in T
    BY <1>0, <1>1 DEF Unexecuted
  <2>2. ASSUME NEW m \in 0..n, m \in T, m < n PROVE m + 1 \in T
    <3>1. m + 1 \in 1..n /\ m + 1 \in 0..n /\ (m + 1) - 1 = m
      BY <1>0, <2>2
    <3>2. h[m + 1] = Execute(o, h[m], ch[m + 1]) /\ h[m] \in Executions /\ ch[m + 1] \in Words
      BY <1>0, <1>1, <3>1
    <3>3. /\ h[m + 1].count >= h[m].count
          /\ h[m + 1].count = h[m].count => h[m + 1] = h[m]
          /\ h[m].count \in Nat /\ h[m + 1].count \in Nat
      <4>1. h[m + 1] \in Executions
        BY <3>2, ExecuteTyped
      <4>2. /\ h[m + 1].count >= h[m].count
            /\ h[m + 1].count = h[m].count => h[m + 1] = h[m]
        BY <3>2, ExecuteTyped
      <4>. QED BY <3>2, <4>1, <4>2 DEF Executions
    <3>4. h[m + 1].count = 0 => h[m].count = 0 /\ h[m + 1] = h[m]
      <4> DEFINE x == h[m].count
                 y == h[m + 1].count
      <4>1. x \in Nat /\ y \in Nat /\ y >= x
        BY <3>3
      <4>2. y = 0 => x = 0 /\ y = x
        <5> HIDE DEF x, y
        <5>. QED BY <4>1
      <4>. QED BY <3>3, <4>2
    <3>. QED BY <2>2, <3>1, <3>4
  <2>3. 0..n \subseteq T
    <3> HIDE DEF T
    <3>. QED BY <1>0, <2>1, <2>2, Reached
  <2>. QED BY <2>3
<1>4. n \in 0..n /\ h[n] \in Executions
  BY <1>0, <1>1
<1>5. h[n].acl \in MapsOfKeys
  BY <1>4 DEF Executions
<1>6. h[n].acl = OverrideWith(ch, W, map)
  BY <1>2, <1>4, <1>b
<1>. QED BY <1>1, <1>3, <1>4, <1>5, <1>6 DEF W

\* Who has been overridden is not changed by the same words.
LEMMA OverrideTwice ==
    ASSUME NEW map, NEW ch, NEW W
    PROVE  OverrideWith(ch, W, OverrideWith(ch, W, map)) = OverrideWith(ch, W, map)
BY DEF OverrideWith

\* iam ch, likewise.
LEMMA PatchedIsMeant ==
    ASSUME NEW policy \in Policies, NEW ch \in Seq(Grants)
    PROVE  /\ PatchAll(policy, ch) \in Policies
           /\ Pairs(PatchAll(policy, ch)) = Regranted(Pairs(policy), ch)
<1> DEFINE n == Len(ch)
<1>0. n \in Nat /\ \A i \in 1..n : ch[i] \in Grants
  OBVIOUS
<1>1. PICK h \in [0..n -> Policies] :
          /\ h[0] = policy
          /\ \A i \in 1..n : h[i] = PatchBindings(h[i - 1], ch[i])
          /\ PatchAll(policy, ch) = h[n]
  BY PatchAllSteps
<1>2. Pairs(policy) \in Relations
  BY DEF Pairs, Relations
<1>3. PICK g \in [0..n -> Relations] :
          /\ g[0] = Pairs(policy)
          /\ \A i \in 1..n : g[i] = Regrant(g[i - 1], ch[i])
          /\ Regranted(Pairs(policy), ch) = g[n]
  BY <1>2, RegrantedSteps
<1> HIDE DEF n
<1>4. ASSUME NEW b \in Policies, NEW w \in Grants
      PROVE  Pairs(PatchBindings(b, w)) = Regrant(Pairs(b), w)
  <2>1. CASE w.grant
    <3>1. w.role \in Keys /\ w.member \in Vals
      BY <2>1 DEF Grants
    <3>2. PatchBindings(b, w) = [r \in Keys |-> IF r = w.role THEN b[r] \cup {w.member} ELSE b[r]]
      BY <2>1, <3>1 DEF PatchBindings, Policies
    <3>3. Regrant(Pairs(b), w) = Pairs(b) \cup {<<w.role, w.member>>}
      BY <2>1 DEF Regrant
    <3>4. ASSUME NEW p \in Keys \X Vals
          PROVE  p \in Pairs(PatchBindings(b, w)) <=> p \in Regrant(Pairs(b), w)
      <4>1. p[1] \in Keys /\ p[2] \in Vals /\ p = <<p[1], p[2]>>
        OBVIOUS
      <4>. QED BY <3>1, <3>2, <3>3, <4>1 DEF Pairs
    <3>5. Regrant(Pairs(b), w) \subseteq Keys \X Vals
      BY <3>1, <3>3 DEF Pairs
    <3>6. Pairs(PatchBindings(b, w)) \subseteq Keys \X Vals
      BY DEF Pairs
    <3>. QED BY <3>4, <3>5, <3>6
  <2>2. CASE ~w.grant
    <3>1. PatchBindings(b, w) = [r \in Keys |-> IF w.role \in {r, DropAll} THEN b[r] \ {w.member}
                                                ELSE b[r]]
      BY <2>2 DEF PatchBindings
    <3>2. Regrant(Pairs(b), w) =
            {p \in Pairs(b) : p[2] # w.member \/ w.role \notin {p[1], DropAll}}
      BY <2>2 DEF Regrant
    <3>3. ASSUME NEW p \in Keys \X Vals
          PROVE  p \in Pairs(PatchBindings(b, w)) <=> p \in Regrant(Pairs(b), w)
      <4>1. p[1] \in Keys /\ p[2] \in Vals
        OBVIOUS
      <4>. QED BY <3>1, <3>2, <4>1 DEF Pairs
    <3>4. Regrant(Pairs(b), w) \subseteq Keys \X Vals
      BY <3>2 DEF Pairs
    <3>5. Pairs(PatchBindings(b, w)) \subseteq Keys \X Vals
      BY DEF Pairs
    <3>. QED BY <3>3, <3>4, <3>5
  <2>. QED BY <2>1, <2>2
<1>5. \A i \in 0..n : Pairs(h[i]) = g[i]
  <2> DEFINE T == {i \in 0..n : Pairs(h[i]) = g[i]}
  <2>1. 0 \in T
    BY <1>0, <1>1, <1>3
  <2>2. ASSUME NEW m \in 0..n, m \in T, m < n PROVE m + 1 \in T
    <3>1. m + 1 \in 1..n /\ m + 1 \in 0..n /\ (m + 1) - 1 = m
      BY <1>0, <2>2
    <3>2. /\ h[m + 1] = PatchBindings(h[m], ch[m + 1]) /\ g[m + 1] = Regrant(g[m], ch[m + 1])
          /\ h[m] \in Policies /\ ch[m + 1] \in Grants
      BY <1>0, <1>1, <1>3, <3>1
    <3>. QED BY <1>4, <2>2, <3>1, <3>2
  <2>3. 0..n \subseteq T
    <3> HIDE DEF T
    <3>. QED BY <1>0, <2>1, <2>2, Reached
  <2>. QED BY <2>3
<1>6. n \in 0..n
  BY <1>0
<1>. QED BY <1>1, <1>3, <1>5, <1>6

\* What has been regranted is not changed by the same grants.
LEMMA RegrantedTwice ==
    ASSUME NEW x \in Relations, NEW ch \in Seq(Grants)
    PROVE  /\ Regranted(x, ch) \in Relations
           /\ Regranted(Regranted(x, ch), ch) = Regranted(x, ch)
<1> DEFINE n == Len(ch)
<1>0. n \in Nat /\ n \in 0..n /\ \A i \in 1..n : ch[i] \in Grants
  OBVIOUS
<1>1. PICK g \in [0..n -> Relations] :
          /\ g[0] = x
          /\ \A i \in 1..n : g[i] = Regrant(g[i - 1], ch[i])
          /\ Regranted(x, ch) = g[n]
  BY RegrantedSteps
<1>2. PICK h \in [0..n -> Relations] :
          /\ h[0] = g[n]
          /\ \A i \in 1..n : h[i] = Regrant(h[i - 1], ch[i])
          /\ Regranted(g[n], ch) = h[n]
  <2>1. g[n] \in Relations
    BY <1>0, <1>1
  <2>. QED BY <2>1, RegrantedSteps
<1> HIDE DEF n
<1> DEFINE Agree(p, i) == \/ (p \in h[i] <=> p \in g[n]) /\ (p \in g[i] <=> p \in x)
                          \/ p \in h[i] <=> p \in g[i]
<1>3. ASSUME NEW p, NEW a, NEW b, NEW w \in Grants,
             (p \in a <=> p \in b)
      PROVE  p \in Regrant(a, w) <=> p \in Regrant(b, w)
  BY <1>3 DEF Regrant
<1>4. ASSUME NEW p, NEW w \in Grants
      PROVE  \/ \A a : p \in Regrant(a, w) <=> p \in a
             \/ \A a : p \in Regrant(a, w)
             \/ \A a : p \notin Regrant(a, w)
  BY DEF Regrant
<1>5. ASSUME NEW p PROVE \A i \in 0..n : Agree(p, i)
  <2> DEFINE T == {i \in 0..n : Agree(p, i)}
  <2>1. 0 \in T
    BY <1>0, <1>1, <1>2
  <2>2. ASSUME NEW m \in 0..n, m \in T, m < n PROVE m + 1 \in T
    <3>1. m + 1 \in 1..n /\ m + 1 \in 0..n /\ (m + 1) - 1 = m
      BY <1>0, <2>2
    <3>2. /\ h[m + 1] = Regrant(h[m], ch[m + 1]) /\ g[m + 1] = Regrant(g[m], ch[m + 1])
          /\ ch[m + 1] \in Grants
      BY <1>0, <1>1, <1>2, <3>1
    <3> DEFINE w == ch[m + 1]
    <3>0. w \in Grants /\ (p \in h[m + 1] <=> p \in Regrant(h[m], w))
                      /\ (p \in g[m + 1] <=> p \in Regrant(g[m], w))
      BY <3>2
    <3>3. Agree(p, m)
      BY <2>2
    <3> HIDE DEF w
    <3>6. Agree(p, m + 1)
      <4>1. CASE p \in h[m] <=> p \in g[m]
        <5>1. p \in Regrant(h[m], w) <=> p \in Regrant(g[m], w)
          BY <1>3, <3>0, <4>1
        <5>. QED BY <3>0, <5>1
      <4>2. CASE (p \in h[m] <=> p \in g[n]) /\ (p \in g[m] <=> p \in x)
        <5>1. CASE \A a : p \in Regrant(a, w) <=> p \in a
          <6>1. (p \in h[m + 1] <=> p \in h[m]) /\ (p \in g[m + 1] <=> p \in g[m])
            BY <3>0, <5>1
          <6>. QED BY <4>2, <6>1
        <5>2. CASE \A a : p \in Regrant(a, w)
          BY <3>0, <5>2
        <5>3. CASE \A a : p \notin Regrant(a, w)
          BY <3>0, <5>3
        <5>. QED BY <1>4, <3>0, <5>1, <5>2, <5>3
      <4>. QED BY <3>3, <4>1, <4>2
    <3>. QED BY <3>1, <3>6
  <2>3. 0..n \subseteq T
    <3> HIDE DEF T
    <3>. QED BY <1>0, <2>1, <2>2, Reached
  <2>. QED BY <2>3
<1>6. \A p : p \in h[n] <=> p \in g[n]
  <2> SUFFICES ASSUME NEW p PROVE p \in h[n] <=> p \in g[n]
    OBVIOUS
  <2>1. Agree(p, n)
    <3> HIDE DEF Agree
    <3>. QED BY <1>0, <1>5
  <2>. QED BY <2>1
<1>7. h[n] = g[n]
  BY <1>6
<1>. QED BY <1>0, <1>1, <1>2, <1>7

-----------------------------------------------------------------------------
(* Types.                                                                  *)

Ops == {"aclBucket", "aclSet", "aclObject", "defacl", "iamCh", "iamSet", "labelCh",
        "labelSet", "setmeta", "lock"}
Counters == {"begin", "read", "change", "rechange", "refetch", "patch", "repatch",
             "ok", "failed"}
Containers == {"bucket", "object", "policy"}

LEMMA OpsAndParts ==
    ASSUME plan \in Plans, NEW c \in Clients
    PROVE  /\ op(c) \in Ops /\ part(c) \in Parts
           /\ op(c) \in {"aclBucket", "aclSet"} <=> part(c) = "acl"
           /\ op(c) = "aclObject" <=> part(c) = "objacl"
           /\ op(c) = "defacl" <=> part(c) = "defacl"
           /\ op(c) \in {"iamCh", "iamSet"} <=> part(c) = "policy"
           /\ op(c) \in {"labelCh", "labelSet"} <=> part(c) = "labels"
           /\ op(c) = "setmeta" <=> part(c) = "custom"
           /\ op(c) = "lock" <=> part(c) = "retention"
<1>1. plan[c].op \in DOMAIN PartOf
  BY PlansAssumption
<1>2. DOMAIN PartOf = Ops
  BY DEF PartOf, Ops
<1>3. op(c) \in Ops
  BY <1>1, <1>2 DEF op
<1>4. /\ PartOf["aclBucket"] = "acl" /\ PartOf["aclSet"] = "acl"
      /\ PartOf["aclObject"] = "objacl" /\ PartOf["defacl"] = "defacl"
      /\ PartOf["iamCh"] = "policy" /\ PartOf["iamSet"] = "policy"
      /\ PartOf["labelCh"] = "labels" /\ PartOf["labelSet"] = "labels"
      /\ PartOf["setmeta"] = "custom" /\ PartOf["lock"] = "retention"
  BY DEF PartOf
<1>. QED BY <1>3, <1>4 DEF part, Ops, Parts

LEMMA ChangesTyped ==
    ASSUME plan \in Plans, NEW c \in Clients
    PROVE  /\ part(c) = "policy" => change(c) \in Seq(Grants)
           /\ part(c) # "policy" => change(c) \in Seq(Words)
           /\ op(c) = "labelCh" => MentionedOnce(change(c))
<1>1. CASE op(c) \in {"iamCh", "iamSet"}
  BY <1>1, PlansAssumption, OpsAndParts DEF op, change
<1>2. CASE op(c) \in {"labelCh", "labelSet", "setmeta"}
  BY <1>2, PlansAssumption, OpsAndParts DEF op, change
<1>3. CASE op(c) \notin {"iamCh", "iamSet", "labelCh", "labelSet", "setmeta"}
  BY <1>3, PlansAssumption, OpsAndParts DEF op, change
<1>. QED BY <1>1, <1>2, <1>3

LEMMA ContentsOf ==
    /\ \A p \in Maps : Contents(p) = MapsOfKeys /\ p # "policy" /\ p # "retention" /\ p \in Parts
    /\ Contents("policy") = Policies
    /\ Contents("retention") = [period : Vals \cup {None}, locked : BOOLEAN]
    /\ \A p \in Parts : p \in Maps \/ p = "policy" \/ p = "retention"
    /\ \A p \in Parts : Container(p) \in Containers
<1>1. "policy" \notin Maps /\ "retention" \notin Maps
  BY DEF Maps, Parts
<1>2. \A p \in Parts : p \in Maps \/ p = "policy" \/ p = "retention"
  BY DEF Maps, Parts
<1>3. \A p \in Parts : Container(p) \in Containers
  BY DEF Parts, Container, Containers
<1>. QED BY <1>1, <1>2, <1>3 DEF Contents, MapsOfKeys, Policies, Maps

ServiceOK ==
    /\ value = [p \in Parts |-> value[p]] /\ \A p \in Parts : value[p] \in Contents(p)
    /\ version \in [Containers -> Nat] /\ born \in Nat
    /\ ledger = [p \in Parts |-> ledger[p]]

ReadingsOK ==
    /\ seen = [c \in Clients |-> seen[c]] /\ listed = [c \in Clients |-> listed[c]]
    /\ \A c \in Clients : {seen[c], listed[c]} \subseteq Readings(part(c))

ClientsOK ==
    /\ pc \in [Clients -> Counters]
    /\ tries \in [Clients -> 1..3] /\ inner \in [Clients -> 1..3]

HistoryOK ==
    /\ effective \in [Clients -> BOOLEAN] /\ raised \in [Clients -> BOOLEAN]
    /\ disturbed \in [Clients -> Nat]
    /\ changes \in 0..MaxChanges /\ faults \in 0..MaxFaults

LEMMA TypeParts == TypeOK <=> plan \in Plans /\ ServiceOK /\ ReadingsOK /\ ClientsOK /\ HistoryOK
BY DEF TypeOK, ServiceOK, ReadingsOK, ClientsOK, HistoryOK, Containers, Counters

LEMMA EmptyTyped == Empty \in MapsOfKeys
BY DEF Empty, MapsOfKeys

LEMMA MapsTyped ==
    ASSUME NEW map \in MapsOfKeys, NEW k \in Keys, NEW v \in Vals \cup {None}
    PROVE  [map EXCEPT ![k] = v] \in MapsOfKeys
BY DEF MapsOfKeys

LEMMA OverrideWithTyped ==
    ASSUME NEW ch \in Seq(Words), NEW W \in SUBSET (DOMAIN ch), NEW map \in MapsOfKeys
    PROVE  OverrideWith(ch, W, map) \in MapsOfKeys
<1>1. ASSUME NEW k \in Keys
      PROVE  LET words == {i \in W : ch[i].key = k}
             IN (IF words = {} THEN map[k] ELSE ch[LastOf(words)].val) \in Vals \cup {None}
  <2> DEFINE words == {i \in W : ch[i].key = k}
  <2>1. CASE words = {}
    BY <2>1 DEF MapsOfKeys
  <2>2. CASE words # {}
    <3>1. LastOf(words) \in words
      <4>1. \E i \in words : \A j \in words : j <= i
        <5> DEFINE Bound(m) == \E i \in words : \A j \in words : j <= m => j <= i
                   n == Len(ch)
                   T == {m \in 0..n : (\E j \in words : j <= m) => Bound(m)}
        <5>1. n \in Nat /\ words \subseteq 1..n
          OBVIOUS
        <5> HIDE DEF words, n
        <5>2. 0 \in T
          BY <5>1
        <5>3. ASSUME NEW m \in 0..n, m \in T, m < n PROVE m + 1 \in T
          <6>1. m + 1 \in 0..n
            BY <5>1, <5>3
          <6>2. CASE m + 1 \in words
            <7>1. \A j \in words : j <= m + 1 => j <= m + 1
              OBVIOUS
            <7>. QED BY <6>1, <6>2, <7>1
          <6>3. CASE m + 1 \notin words
            <7>1. \A j \in words : j <= m + 1 <=> j <= m
              BY <5>1, <6>3
            <7>. QED BY <5>3, <6>1, <7>1
          <6>. QED BY <6>2, <6>3
        <5>4. 0..n \subseteq T
          <6> HIDE DEF T
          <6>. QED BY <5>1, <5>2, <5>3, Reached
        <5>5. \A j \in words : j <= n
          BY <5>1
        <5>6. n \in T
          <6> HIDE DEF T
          <6>. QED BY <5>1, <5>4
        <5>. QED BY <2>2, <5>5, <5>6 DEF words
      <4>. QED BY <4>1 DEF LastOf
    <3>2. LastOf(words) \in DOMAIN ch
      BY <3>1
    <3>3. ch[LastOf(words)] \in Words
      <4> HIDE DEF words
      <4>. QED BY <3>2
    <3>. QED BY <2>2, <3>3 DEF Words
  <2>. QED BY <2>1, <2>2
<1>. QED BY <1>1 DEF OverrideWith, MapsOfKeys

LEMMA OverrideTyped ==
    ASSUME NEW map \in MapsOfKeys, NEW ch \in Seq(Words)
    PROVE  Override(ch, map) \in MapsOfKeys
BY OverrideWithTyped DEF Override

LEMMA WrittenTyped ==
    ASSUME TypeOK, NEW c \in Clients
    PROVE  Written(c) \in Contents(part(c))
<1>. USE TypeParts, OpsAndParts, ChangesTyped
<1> DEFINE p == part(c)
           others(old) == [k \in Keys |-> IF seen[c].value[k] # None THEN old[k]
                                          ELSE value[p][k]]
<1>1. p \in Parts /\ seen[c].value \in Contents(p) /\ value[p] \in Contents(p)
  BY DEF ReadingsOK, ServiceOK, Readings
<1>2. CASE op(c) \in {"aclBucket", "aclObject", "aclSet", "defacl", "labelCh", "labelSet", "setmeta"}
  <2>1. p \in Maps
    BY <1>1, <1>2 DEF Maps
  <2>2. seen[c].value \in MapsOfKeys /\ value[p] \in MapsOfKeys
    BY <1>1, <2>1, ContentsOf
  <2>3. change(c) \in Seq(Words)
    BY <2>1, ContentsOf
  <2>4. Executed(c).acl \in MapsOfKeys
    BY <2>2, <2>3, ExecutedIsMeant DEF Executed
  <2>5. \A old \in MapsOfKeys : others(old) \in MapsOfKeys
    BY <2>2 DEF MapsOfKeys
  <2>6. \A map \in MapsOfKeys : Override(change(c), map) \in MapsOfKeys
    BY <2>3, OverrideTyped
  <2>7. OverrideWith(change(c), Corrected(c), value[p]) \in MapsOfKeys
    <3>1. Corrected(c) \in SUBSET (DOMAIN change(c))
      BY DEF Corrected
    <3>. QED BY <2>2, <2>3, <3>1, OverrideWithTyped
  <2>8. others(Empty) \in MapsOfKeys /\ others(seen[c].value) \in MapsOfKeys
    <3> HIDE DEF others
    <3>. QED BY <2>2, <2>5, EmptyTyped
  <2>9. Written(c) \in MapsOfKeys
    <3>1. CASE op(c) \in {"aclBucket", "aclObject", "defacl"}
      BY <2>2, <2>4, <3>1 DEF Written, NewAcl
    <3>2. CASE op(c) = "aclSet"
      BY <2>2, <2>6, <3>2, EmptyTyped DEF Written, NewAcl
    <3>3. CASE op(c) = "labelCh"
      BY <2>7, <3>3 DEF Written
    <3>4. CASE op(c) = "labelSet"
      <4>1. Written(c) = Override(change(c), others(Empty))
        BY <3>4 DEF Written
      <4> HIDE DEF others
      <4>. QED BY <2>6, <2>8, <4>1
    <3>5. CASE op(c) = "setmeta"
      <4>1. Written(c) = Override(change(c), others(seen[c].value))
        BY <3>5 DEF Written
      <4> HIDE DEF others
      <4>. QED BY <2>6, <2>8, <4>1
    <3>. QED BY <1>2, <3>1, <3>2, <3>3, <3>4, <3>5
  <2>. QED BY <2>1, <2>9, ContentsOf
<1>3. CASE op(c) \in {"iamCh", "iamSet"}
  <2>1. p = "policy" /\ Written(c) = Patched(c)
    BY <1>3 DEF Written
  <2>2. seen[c].value \in Policies /\ change(c) \in Seq(Grants)
    BY <1>1, <2>1, ContentsOf
  <2>. QED BY <2>1, <2>2, ContentsOf, PatchedIsMeant DEF Patched
<1>4. CASE op(c) = "lock"
  <2>1. p = "retention" /\ Written(c) = [period |-> value[p].period, locked |-> TRUE]
    BY <1>4 DEF Written
  <2>2. value[p] \in [period : Vals \cup {None}, locked : BOOLEAN]
    BY <1>1, <2>1, ContentsOf
  <2>3. [period |-> value[p].period, locked |-> TRUE] \in [period : Vals \cup {None}, locked : BOOLEAN]
    BY <2>2
  <2>. QED BY <2>1, <2>3, ContentsOf
<1>. QED BY <1>2, <1>3, <1>4 DEF Ops

-----------------------------------------------------------------------------
(* What a command writes is what it is meant to, if it has read what is    *)
(* there.                                                                  *)

LEMMA MeantOf ==
    ASSUME plan \in Plans, NEW c \in Clients, NEW x
    PROVE  /\ op(c) \in {"aclBucket", "aclObject", "defacl"} =>
                  Meant(c, x) = OverrideWith(change(c), Applied(op(c), change(c)), x)
           /\ op(c) \in {"labelCh", "setmeta"} => Meant(c, x) = Override(change(c), x)
           /\ op(c) \in {"aclSet", "labelSet"} => Meant(c, x) = Override(change(c), Empty)
           /\ op(c) \in {"iamCh", "iamSet"} => Meant(c, x) = Regranted(x, change(c))
           /\ op(c) = "lock" => Meant(c, x) = [period |-> seen[c].value.period, locked |-> TRUE]
BY DEF Meant, Asked

LEMMA GuardedOf ==
    ASSUME NEW c
    PROVE  /\ op(c) \notin {"aclSet", "labelCh"} => Guarded(c)
           /\ op(c) = "labelCh" /\ Deletions(c) # {} /\ seen[c].value = Empty => Guarded(c)
BY DEF Guarded

\* label ch writes what it is meant to, although it leaves out deletions.
LEMMA CorrectedIsMeant ==
    ASSUME NEW ch \in Seq(Words), MentionedOnce(ch),
           NEW D, D = {i \in DOMAIN ch : ch[i].val = None}
    PROVE  OverrideWith(ch, DOMAIN ch \ D, Empty) = Override(ch, Empty)
<1> DEFINE all(k) == {i \in DOMAIN ch : ch[i].key = k}
           kept(k) == {i \in DOMAIN ch \ D : ch[i].key = k}
<1>1. ASSUME NEW k \in Keys
      PROVE  (IF kept(k) = {} THEN Empty[k] ELSE ch[LastOf(kept(k))].val) =
                 (IF all(k) = {} THEN Empty[k] ELSE ch[LastOf(all(k))].val)
  <2>1. CASE all(k) = {}
    BY <2>1
  <2>2. CASE \E i \in all(k) : i \in D
    <3>1. PICK i \in all(k) : i \in D
      BY <2>2
    <3>2. all(k) = {i} /\ kept(k) = {} /\ ch[i].val = None
      BY <3>1 DEF MentionedOnce
    <3>3. LastOf({i}) = i
      <4>1. i \in Nat
        BY <3>1
      <4>. QED BY <4>1 DEF LastOf
    <3>4. Empty[k] = None
      BY DEF Empty
    <3> HIDE DEF all, kept
    <3>. QED BY <3>2, <3>3, <3>4
  <2>3. CASE \A i \in all(k) : i \notin D
    <3>1. all(k) = kept(k)
      BY <2>3
    <3> HIDE DEF all, kept
    <3>. QED BY <3>1
  <2>. QED BY <2>1, <2>2, <2>3
<1>2. /\ OverrideWith(ch, DOMAIN ch \ D, Empty) =
             [k \in Keys |-> IF kept(k) = {} THEN Empty[k] ELSE ch[LastOf(kept(k))].val]
      /\ Override(ch, Empty) =
             [k \in Keys |-> IF all(k) = {} THEN Empty[k] ELSE ch[LastOf(all(k))].val]
  BY DEF OverrideWith, Override
<1> HIDE DEF all, kept
<1>. QED BY <1>1, <1>2

LEMMA WrittenIsMeant ==
    ASSUME TypeOK, ReadingsInv, NoLostUpdate, NEW c \in Clients, Allowed(c), ~Unsent(c)
    PROVE  View(part(c), Written(c)) = Meant(c, ledger[part(c)])
<1> DEFINE p == part(c)
           others(old) == [k \in Keys |-> IF seen[c].value[k] # None THEN old[k]
                                          ELSE value[p][k]]
<1>0. plan \in Plans
  BY TypeParts
<1>1. p \in Parts /\ seen[c].value \in Contents(p) /\ value[p] \in Contents(p)
  BY <1>0, TypeParts, OpsAndParts DEF ReadingsOK, ServiceOK, Readings
<1>2. Guarded(c) => seen[c].value = value[p]
  BY DEF Allowed, ReadingsInv, Reliable
<1>3. ledger[p] = View(p, value[p])
  BY <1>1 DEF NoLostUpdate
<1>4. CASE op(c) \in {"aclBucket", "aclObject", "aclSet", "defacl", "labelCh", "labelSet", "setmeta"}
  <2>1. p \in Maps
    BY <1>0, <1>4, OpsAndParts DEF Maps, Parts
  <2>2. seen[c].value \in MapsOfKeys /\ value[p] \in MapsOfKeys /\ p # "policy"
    BY <1>1, <2>1, ContentsOf
  <2>3. change(c) \in Seq(Words)
    BY <1>0, <2>2, ChangesTyped
  <2>4. ledger[p] = value[p] /\ View(p, Written(c)) = Written(c)
    BY <1>3, <2>2 DEF View
  <2>5. Executed(c).acl = OverrideWith(change(c), Applied(op(c), change(c)), seen[c].value)
    BY <2>2, <2>3, ExecutedIsMeant DEF Executed
  <2>6. CASE op(c) \in {"aclBucket", "aclObject", "defacl"}
    <3>1. Written(c) = Executed(c).acl
      BY <2>6 DEF Written, NewAcl
    <3>2. seen[c].value = value[p]
      BY <1>2, <2>6, GuardedOf
    <3>3. Meant(c, ledger[p]) = OverrideWith(change(c), Applied(op(c), change(c)), ledger[p])
      BY <1>0, <2>6, MeantOf
    <3> HIDE DEF p
    <3>. QED BY <2>4, <2>5, <3>1, <3>2, <3>3 DEF p
  <2>8. CASE op(c) = "aclSet"
    <3>1. Written(c) = Override(change(c), Empty)
      BY <2>8 DEF Written, NewAcl
    <3>2. Meant(c, ledger[p]) = Override(change(c), Empty)
      BY <1>0, <2>8, MeantOf
    <3>. QED BY <2>4, <3>1, <3>2
  <2>9. CASE op(c) = "labelCh"
    <3>1. Written(c) = OverrideWith(change(c), Corrected(c), value[p])
      BY <2>9 DEF Written
    <3>2. Meant(c, ledger[p]) = Override(change(c), value[p])
      BY <1>0, <2>4, <2>9, MeantOf
    <3>3. CASE Deletions(c) # {} /\ seen[c].value = Empty
      <4>1. value[p] = Empty
        BY <1>2, <2>9, <3>3, GuardedOf
      <4>2. Corrected(c) = DOMAIN change(c) \ Deletions(c)
        BY <3>3 DEF Corrected
      <4>3. OverrideWith(change(c), Corrected(c), Empty) = Override(change(c), Empty)
        <5>1. MentionedOnce(change(c))
          BY <1>0, <2>9, ChangesTyped
        <5>2. Deletions(c) = {i \in DOMAIN change(c) : change(c)[i].val = None}
          BY DEF Deletions
        <5>. QED BY <2>3, <4>2, <5>1, <5>2, CorrectedIsMeant
      <4>. QED BY <2>4, <3>1, <3>2, <4>1, <4>3
    <3>4. CASE ~(Deletions(c) # {} /\ seen[c].value = Empty)
      <4>1. Corrected(c) = DOMAIN change(c)
        BY <3>4 DEF Corrected
      <4>. QED BY <2>4, <3>1, <3>2, <4>1 DEF Override
    <3>. QED BY <3>3, <3>4
  <2>10. CASE op(c) = "labelSet"
    <3>1. Written(c) = Override(change(c), others(Empty))
      BY <2>10 DEF Written
    <3>2. seen[c].value = value[p]
      BY <1>2, <2>10, GuardedOf
    <3>3. others(Empty) = Empty
      BY <3>2 DEF Empty
    <3>4. Meant(c, ledger[p]) = Override(change(c), Empty)
      BY <1>0, <2>10, MeantOf
    <3> HIDE DEF others
    <3>. QED BY <2>4, <3>1, <3>3, <3>4
  <2>11. CASE op(c) = "setmeta"
    <3>1. Written(c) = Override(change(c), others(seen[c].value))
      BY <2>11 DEF Written
    <3>2. seen[c].value = value[p]
      BY <1>2, <2>11, GuardedOf
    <3>3. others(seen[c].value) = value[p]
      BY <2>2, <3>2 DEF MapsOfKeys
    <3>4. Meant(c, ledger[p]) = Override(change(c), value[p])
      BY <1>0, <2>4, <2>11, MeantOf
    <3> HIDE DEF others
    <3>. QED BY <2>4, <3>1, <3>3, <3>4
  <2>. QED BY <1>4, <2>6, <2>8, <2>9, <2>10, <2>11
<1>5. CASE op(c) \in {"iamCh", "iamSet"}
  <2>1. p = "policy" /\ Written(c) = Patched(c)
    BY <1>0, <1>5, OpsAndParts DEF Written
  <2>2. seen[c].value = value[p]
    BY <1>2, <1>5, GuardedOf
  <2>3. value[p] \in Policies /\ change(c) \in Seq(Grants)
    BY <1>0, <1>1, <2>1, ContentsOf, ChangesTyped
  <2>4. Pairs(Patched(c)) = Regranted(Pairs(value[p]), change(c))
    BY <2>2, <2>3, PatchedIsMeant DEF Patched
  <2>5. Meant(c, ledger[p]) = Regranted(ledger[p], change(c))
    BY <1>0, <1>5, MeantOf
  <2>. QED BY <1>3, <2>1, <2>4, <2>5 DEF View
<1>6. CASE op(c) = "lock"
  <2>1. p = "retention" /\ Written(c) = [period |-> value[p].period, locked |-> TRUE]
    BY <1>0, <1>6, OpsAndParts DEF Written
  <2>2. seen[c].value = value[p]
    BY <1>2, <1>6, GuardedOf
  <2>3. Meant(c, ledger[p]) = [period |-> seen[c].value.period, locked |-> TRUE]
    BY <1>0, <1>6, MeantOf
  <2>. QED BY <2>1, <2>2, <2>3 DEF View
<1>7. op(c) \in Ops
  BY <1>0, OpsAndParts
<1>. QED BY <1>4, <1>5, <1>6, <1>7 DEF Ops

\* What is not sent changes neither the part nor what it should be.
LEMMA UnsentIsNothing ==
    ASSUME plan \in Plans, NEW c \in Clients, Unsent(c)
    PROVE  Written(c) = value[part(c)] /\ Due(c) = ledger[part(c)]
BY DEF Unsent, Written, Due

LEMMA WrittenIsDue ==
    ASSUME TypeOK, ReadingsInv, NoLostUpdate, NEW c \in Clients, Allowed(c)
    PROVE  View(part(c), Written(c)) = Due(c)
<1>0. plan \in Plans
  BY TypeParts
<1>1. CASE Unsent(c)
  <2>1. part(c) \in Parts
    BY <1>0, OpsAndParts
  <2>. QED BY <1>0, <1>1, <2>1, UnsentIsNothing DEF NoLostUpdate
<1>2. CASE ~Unsent(c)
  BY <1>2, WrittenIsMeant DEF Due
<1>. QED BY <1>1, <1>2

\* What a command writes is as it asks for.
LEMMA WrittenSatisfies ==
    ASSUME TypeOK, ReadingsInv, NoLostUpdate, NEW c \in Clients, Allowed(c), ~Unsent(c)
    PROVE  Satisfied(c, Written(c))
<1> DEFINE x == View(part(c), Written(c))
           y == ledger[part(c)]
<1>0. plan \in Plans
  BY TypeParts
<1>1. x = Meant(c, y)
  BY WrittenIsMeant
<1>2. CASE op(c) = "lock"
  <2>1. Meant(c, y).locked
    BY <1>0, <1>2, MeantOf
  <2>. QED BY <1>1, <1>2, <2>1 DEF Satisfied, Meant
<1>3. CASE op(c) \in {"aclBucket", "aclObject", "defacl", "labelCh", "setmeta"}
  <2>1. PICK W : /\ Meant(c, y) = OverrideWith(change(c), W, y)
                 /\ Meant(c, x) = OverrideWith(change(c), W, x)
    <3>1. CASE op(c) \in {"aclBucket", "aclObject", "defacl"}
      BY <1>0, <3>1, MeantOf
    <3>2. CASE op(c) \in {"labelCh", "setmeta"}
      BY <1>0, <3>2, MeantOf DEF Override
    <3>. QED BY <1>3, <3>1, <3>2
  <2>2. Meant(c, x) = x
    <3> HIDE DEF x, y
    <3>. QED BY <1>1, <2>1, OverrideTwice
  <2>. QED BY <1>3, <2>2 DEF Satisfied, Meant
<1>4. CASE op(c) \in {"aclSet", "labelSet"}
  <2>1. Meant(c, y) = Override(change(c), Empty) /\ Meant(c, x) = Override(change(c), Empty)
    BY <1>0, <1>4, MeantOf
  <2>. QED BY <1>1, <1>4, <2>1 DEF Satisfied, Meant
<1>5. CASE op(c) \in {"iamCh", "iamSet"}
  <2>1. Meant(c, y) = Regranted(y, change(c)) /\ Meant(c, x) = Regranted(x, change(c))
    BY <1>0, <1>5, MeantOf
  <2>2. part(c) = "policy" /\ part(c) \in Parts /\ change(c) \in Seq(Grants)
    BY <1>0, <1>5, OpsAndParts, ChangesTyped
  <2>3. y \in Relations
    <3>1. y = View("policy", value["policy"])
      BY <2>2 DEF NoLostUpdate
    <3>. QED BY <3>1 DEF View, Pairs, Relations
  <2>4. Meant(c, x) = x
    <3> HIDE DEF x, y
    <3>. QED BY <1>1, <2>1, <2>2, <2>3, RegrantedTwice
  <2>. QED BY <1>5, <2>4 DEF Satisfied, Meant
<1>6. op(c) \in Ops
  BY <1>0, OpsAndParts
<1>. QED BY <1>2, <1>3, <1>4, <1>5, <1>6 DEF Ops

\* A command that finds nothing to change finds the part as it asks for.
LEMMA UnchangedSatisfies ==
    ASSUME TypeOK, NEW c \in Clients, Unchanged(c)
    PROVE  Satisfied(c, seen[c].value)
<1> DEFINE p == part(c)
           v == seen[c].value
<1>0. plan \in Plans /\ v \in Contents(p) /\ p \in Parts
  BY TypeParts, OpsAndParts DEF ReadingsOK, Readings
<1>1. CASE op(c) \in {"aclBucket", "aclObject", "defacl"}
  <2>1. p \in Maps /\ p # "policy"
    BY <1>0, <1>1, OpsAndParts DEF Maps, Parts
  <2>2. v \in MapsOfKeys /\ change(c) \in Seq(Words)
    BY <1>0, <2>1, ContentsOf, ChangesTyped
  <2>3. Executed(c).count = 0
    BY <1>1 DEF Unchanged
  <2>4. OverrideWith(change(c), Applied(op(c), change(c)), v) = v
    BY <2>2, <2>3, ExecutedIsMeant DEF Executed
  <2>5. /\ Meant(c, v) = OverrideWith(change(c), Applied(op(c), change(c)), v)
        /\ View(p, v) = v
    BY <1>0, <1>1, <2>1, MeantOf DEF View
  <2>. QED BY <1>1, <2>4, <2>5 DEF Satisfied, Meant
<1>2. CASE op(c) = "iamCh"
  <2>1. p = "policy" /\ change(c) \in Seq(Grants)
    BY <1>0, <1>2, OpsAndParts, ChangesTyped
  <2>2. v \in Policies
    BY <1>0, <2>1, ContentsOf
  <2>3. Patched(c) = v
    BY <1>2 DEF Unchanged
  <2>4. Regranted(Pairs(v), change(c)) = Pairs(v)
    BY <2>1, <2>2, <2>3, PatchedIsMeant DEF Patched
  <2>5. View(p, v) = Pairs(v) /\ Meant(c, Pairs(v)) = Regranted(Pairs(v), change(c))
    BY <1>0, <1>2, <2>1, MeantOf DEF View
  <2>. QED BY <1>2, <2>4, <2>5 DEF Satisfied, Meant
<1>3. CASE op(c) = "lock"
  <2>1. p = "retention" /\ v.locked
    BY <1>0, <1>3, OpsAndParts DEF Unchanged
  <2>. QED BY <1>3, <2>1 DEF Satisfied, Meant, View
<1>4. CASE op(c) \notin {"aclBucket", "aclObject", "defacl", "iamCh", "lock"}
  BY <1>4 DEF Unchanged
<1>. QED BY <1>1, <1>2, <1>3, <1>4

-----------------------------------------------------------------------------
(* What each step does to the readings and to the service.                 *)

\* A reading taken now.
Now(c) == Current(part(c))

\* The service goes on: what was reliable is.
ServiceGoesOn ==
    /\ ServiceOK'
    /\ \A q \in Parts : \A s \in Readings(q) : Reliable(q, s) => Reliable(q, s)'

LEMMA StoreGoesOn ==
    ASSUME ServiceOK, NEW p \in Parts, NEW v \in Contents(p), NEW m, Store(p, v, m)
    PROVE  ServiceGoesOn
<1>1. /\ value' = [value EXCEPT ![p] = v] /\ ledger' = [ledger EXCEPT ![p] = m]
      /\ version' = [version EXCEPT ![Container(p)] = @ + 1]
  BY DEF Store
<1>2. /\ value' = [q \in Parts |-> value'[q]] /\ \A q \in Parts : value'[q] \in Contents(q)
      /\ \A q \in Parts : q # p => value'[q] = value[q]
  BY <1>1 DEF ServiceOK
<1>3. \A q \in Parts : Container(q) \in Containers
  BY ContentsOf
<1>4. /\ version' \in [Containers -> Nat]
      /\ \A d \in Containers : version'[d] = IF d = Container(p) THEN version[d] + 1 ELSE version[d]
      /\ \A d \in Containers : version[d] \in Nat
  BY <1>1, <1>3 DEF ServiceOK
<1>5. ledger' = [q \in Parts |-> ledger'[q]]
  BY <1>1 DEF ServiceOK
<1>6. ServiceOK'
  BY <1>2, <1>4, <1>5 DEF ServiceOK, Contents, Store
<1>7. ASSUME NEW q \in Parts, NEW s \in Readings(q), Reliable(q, s) PROVE Reliable(q, s)'
  <2>1. s.version \in Nat
    BY DEF Readings
  <2>2. CASE Container(q) = Container(p)
    <3>1. s.version < version'[Container(q)]
      BY <1>3, <1>4, <1>7, <2>1, <2>2 DEF Reliable
    <3>. QED BY <1>3, <1>4, <2>1, <3>1 DEF Reliable
  <2>3. CASE Container(q) # Container(p)
    <3>1. version'[Container(q)] = version[Container(q)] /\ value'[q] = value[q]
      BY <1>2, <1>3, <1>4, <2>3
    <3>. QED BY <1>7, <3>1 DEF Reliable
  <2>. QED BY <2>2, <2>3
<1>. QED BY <1>6, <1>7 DEF ServiceGoesOn

LEMMA QuietGoesOn ==
    ASSUME ServiceOK, UNCHANGED service
    PROVE  ServiceGoesOn
<1>1. value' = value /\ version' = version /\ ledger' = ledger /\ born' = born
  BY DEF service
<1>2. ServiceOK'
  BY <1>1 DEF ServiceOK, Contents
<1>. QED BY <1>1, <1>2 DEF ServiceGoesOn, Reliable

LEMMA OverwriteGoesOn ==
    ASSUME ServiceOK, Overwrite
    PROVE  /\ ServiceGoesOn
           /\ value' = [value EXCEPT !["objacl"] = InitialMap, !["custom"] = Empty]
           /\ ledger' = [ledger EXCEPT !["objacl"] = InitialMap, !["custom"] = Empty]
<1>1. /\ value' = [value EXCEPT !["objacl"] = InitialMap, !["custom"] = Empty]
      /\ ledger' = [ledger EXCEPT !["objacl"] = InitialMap, !["custom"] = Empty]
      /\ version' = [version EXCEPT !["object"] = @ + 1]
  BY DEF Overwrite
<1>2. {"objacl", "custom"} \subseteq Maps
  BY DEF Maps, Parts
<1>3. InitialMap \in MapsOfKeys /\ Empty \in MapsOfKeys
  BY ValsAssumption, EmptyTyped DEF MapsOfKeys
<1>4. Contents("objacl") = MapsOfKeys /\ Contents("custom") = MapsOfKeys
  BY <1>2, ContentsOf
<1>5. "objacl" \in Parts /\ "custom" \in Parts
  BY <1>2 DEF Maps
<1>6. /\ value' = [q \in Parts |-> value'[q]]
      /\ \A q \in Parts : q \notin {"objacl", "custom"} => value'[q] = value[q]
      /\ value'["objacl"] = InitialMap /\ value'["custom"] = Empty
  BY <1>1, <1>5 DEF ServiceOK
<1>7. \A q \in Parts : value'[q] \in Contents(q)
  BY <1>3, <1>4, <1>6 DEF ServiceOK
<1>8. \A q \in Parts : Container(q) \in Containers
  BY ContentsOf
<1>9. "object" \in Containers
  BY DEF Containers
<1>10. /\ version' \in [Containers -> Nat]
       /\ \A d \in Containers : version'[d] = IF d = "object" THEN version[d] + 1 ELSE version[d]
       /\ \A d \in Containers : version[d] \in Nat
  BY <1>1, <1>9 DEF ServiceOK
<1>11. ledger' = [q \in Parts |-> ledger'[q]]
  BY <1>1 DEF ServiceOK
<1>12. ServiceOK'
  <2>1. born' \in Nat
    BY <1>9 DEF Overwrite, ServiceOK
  <2>. QED BY <1>6, <1>7, <1>10, <1>11, <2>1 DEF ServiceOK, Contents
<1>13. Container("objacl") = "object" /\ Container("custom") = "object"
  BY DEF Container
<1>14. ASSUME NEW q \in Parts, NEW s \in Readings(q), Reliable(q, s) PROVE Reliable(q, s)'
  <2>1. s.version \in Nat
    BY DEF Readings
  <2>2. CASE Container(q) = "object"
    <3>1. s.version < version'[Container(q)]
      BY <1>8, <1>10, <1>14, <2>1, <2>2 DEF Reliable
    <3>. QED BY <1>8, <1>10, <2>1, <3>1 DEF Reliable
  <2>3. CASE Container(q) # "object"
    <3>1. version'[Container(q)] = version[Container(q)] /\ value'[q] = value[q]
      BY <1>6, <1>8, <1>10, <1>13, <2>3
    <3>. QED BY <1>14, <3>1 DEF Reliable
  <2>. QED BY <2>2, <2>3
<1>. QED BY <1>1, <1>12, <1>14 DEF ServiceGoesOn

\* What another user writes.
LEMMA OtherStores ==
    ASSUME TypeOK, Other
    PROVE  \E p \in Parts : \E v \in Contents(p) : Store(p, v, View(p, v))
<1>1. PICK p \in InUse, k \in Keys, v \in Vals \cup {None} :
          LET new == CASE p \in Maps -> [value[p] EXCEPT ![k] = v]
                       [] p = "policy" -> [value[p] EXCEPT ![k] = {v} \ {None}]
                       [] p = "retention" -> [period |-> v, locked |-> value[p].locked]
          IN Store(p, new, View(p, new))
  BY DEF Other
<1>2. p \in Parts /\ value[p] \in Contents(p)
  BY TypeParts, OpsAndParts DEF InUse, ServiceOK
<1>3. CASE p \in Maps
  <2>1. [value[p] EXCEPT ![k] = v] \in Contents(p)
    BY <1>2, <1>3, ContentsOf, MapsTyped
  <2> DEFINE new == [value[p] EXCEPT ![k] = v]
  <2>2. p # "policy" /\ p # "retention"
    BY <1>3, ContentsOf
  <2>3. Store(p, new, View(p, new))
    BY <1>1, <1>3, <2>2
  <2>. QED BY <1>2, <2>1, <2>3
<1>4. CASE p = "policy"
  <2> DEFINE new == [value[p] EXCEPT ![k] = {v} \ {None}]
  <2>1. value[p] \in Policies /\ {v} \ {None} \in SUBSET Vals /\ p \notin Maps
    BY <1>2, <1>4, ContentsOf
  <2>2. new \in Contents(p)
    <3>1. new \in Policies
      BY <2>1 DEF Policies
    <3>. QED BY <1>4, <3>1, ContentsOf
  <2>3. Store(p, new, View(p, new))
    BY <1>1, <1>4, <2>1
  <2> HIDE DEF new
  <2>. QED BY <1>2, <2>2, <2>3
<1>5. CASE p = "retention"
  <2> DEFINE new == [period |-> v, locked |-> value[p].locked]
  <2>1. value[p] \in [period : Vals \cup {None}, locked : BOOLEAN] /\ p \notin Maps
        /\ p # "policy"
    BY <1>2, <1>5, ContentsOf
  <2>2. new \in Contents(p)
    <3>1. new \in [period : Vals \cup {None}, locked : BOOLEAN]
      BY <2>1
    <3>. QED BY <1>5, <3>1, ContentsOf
  <2>3. Store(p, new, View(p, new))
    BY <1>1, <1>5, <2>1
  <2> HIDE DEF new
  <2>. QED BY <1>2, <2>2, <2>3
<1>. QED BY <1>2, <1>3, <1>4, <1>5, ContentsOf

\* A part of the retried function.
Retried(c) ==
    /\ pc' = [pc EXCEPT ![c] = pc'[c]] /\ pc'[c] \in Counters \ {"begin", "ok"}
    /\ seen' = [seen EXCEPT ![c] = seen'[c]] /\ seen'[c] \in {seen[c], listed[c]}
    /\ tries' \in [Clients -> 1..3] /\ inner' \in [Clients -> 1..3]

LEMMA GoesTyped ==
    ASSUME ClientsOK, NEW c \in Clients, NEW to \in Counters, Goes(c, to)
    PROVE  /\ pc' = [pc EXCEPT ![c] = to] /\ pc'[c] = to /\ pc' \in [Clients -> Counters]
           /\ pc' = [pc EXCEPT ![c] = pc'[c]]
BY DEF Goes, ClientsOK

LEMMA KeepsReading ==
    ASSUME ReadingsOK, NEW c \in Clients, seen' = seen
    PROVE  seen' = [seen EXCEPT ![c] = seen'[c]] /\ seen'[c] = seen[c]
<1>1. seen = [d \in Clients |-> seen[d]]
  BY DEF ReadingsOK
<1>. QED BY <1>1

LEMMA AgainRetries ==
    ASSUME ClientsOK, ReadingsOK, NEW c \in Clients, Again(c)
    PROVE  Retried(c)
<1>1. CASE tries[c] = 3
  <2>1. Goes(c, "failed") /\ "failed" \in Counters /\ UNCHANGED <<seen, tries, inner>>
    BY <1>1 DEF Again, Counters
  <2>2. pc' = [pc EXCEPT ![c] = pc'[c]] /\ pc'[c] = "failed"
    BY <2>1, GoesTyped
  <2>3. seen' = [seen EXCEPT ![c] = seen'[c]] /\ seen'[c] = seen[c]
    BY <2>1, KeepsReading
  <2>. QED BY <2>1, <2>2, <2>3 DEF Retried, ClientsOK, Counters
<1>2. CASE tries[c] # 3
  <2> DEFINE to == CASE op(c) = "aclObject" -> "change"
                     [] op(c) = "setmeta" \/ Blind(c) -> "patch"
                     [] OTHER -> "read"
  <2>1. /\ tries' = [tries EXCEPT ![c] = @ + 1] /\ seen' = [seen EXCEPT ![c] = listed[c]]
        /\ inner' = [inner EXCEPT ![c] = 1] /\ Goes(c, to)
    BY <1>2 DEF Again
  <2>2. to \in {"change", "patch", "read"}
    OBVIOUS
  <2>3. pc' = [pc EXCEPT ![c] = pc'[c]] /\ pc'[c] = to
    <3>1. to \in Counters
      BY <2>2 DEF Counters
    <3> HIDE DEF to
    <3>. QED BY <2>1, <3>1, GoesTyped
  <2>4. seen' = [seen EXCEPT ![c] = seen'[c]] /\ seen'[c] = listed[c]
    <3>1. seen = [d \in Clients |-> seen[d]]
      BY DEF ReadingsOK
    <3>. QED BY <2>1, <3>1
  <2>5. tries' \in [Clients -> 1..3] /\ inner' \in [Clients -> 1..3]
    BY <1>2, <2>1 DEF ClientsOK
  <2> HIDE DEF to
  <2>. QED BY <2>2, <2>3, <2>4, <2>5 DEF Retried, Counters
<1>. QED BY <1>1, <1>2

LEMMA FailedRetries ==
    ASSUME ClientsOK, ReadingsOK, NEW c \in Clients, NEW to \in {"failed", "refetch"},
           Goes(c, to), UNCHANGED <<seen, tries>>, inner' \in [Clients -> 1..3]
    PROVE  Retried(c)
<1>1. to \in Counters
  BY DEF Counters
<1>2. pc' = [pc EXCEPT ![c] = pc'[c]] /\ pc'[c] = to
  BY <1>1, GoesTyped
<1>3. seen' = [seen EXCEPT ![c] = seen'[c]] /\ seen'[c] = seen[c]
  BY KeepsReading
<1>. QED BY <1>1, <1>2, <1>3 DEF Retried, ClientsOK

LEMMA RejectedRetries ==
    ASSUME ClientsOK, ReadingsOK, plan \in Plans, NEW c \in Clients, Rejected(c)
    PROVE  Retried(c)
<1>1. CASE op(c) \in {"aclBucket", "defacl", "iamCh", "labelSet", "labelCh", "setmeta"}
           \/ Gone(c)
  <2>1. Again(c)
    BY <1>1 DEF Rejected, Gone
  <2>. QED BY <2>1, AgainRetries
<1>2. CASE op(c) = "aclObject" /\ ~Gone(c) /\ pc[c] = "repatch" /\ inner[c] = 3
  <2>1. Goes(c, "failed") /\ UNCHANGED <<seen, tries, inner>>
    BY <1>2 DEF Rejected
  <2>. QED BY <2>1, FailedRetries DEF ClientsOK
<1>3. CASE op(c) = "aclObject" /\ ~Gone(c) /\ ~(pc[c] = "repatch" /\ inner[c] = 3)
  <2>1. /\ Goes(c, "refetch") /\ UNCHANGED <<seen, tries>>
        /\ inner' = [inner EXCEPT ![c] = IF pc[c] = "patch" THEN 1 ELSE @ + 1]
        /\ pc[c] \in {"patch", "repatch"}
    BY <1>3 DEF Rejected, Sending
  <2>2. inner' \in [Clients -> 1..3]
    <3>1. inner[c] \in 1..3 /\ (pc[c] # "patch" => inner[c] # 3)
      BY <1>3, <2>1 DEF ClientsOK
    <3>2. (IF pc[c] = "patch" THEN 1 ELSE inner[c] + 1) \in 1..3
      BY <3>1
    <3>. QED BY <2>1, <3>2 DEF ClientsOK
  <2>. QED BY <2>1, <2>2, FailedRetries
<1>4. CASE op(c) \in {"iamSet", "lock"}
  <2>1. Goes(c, "failed") /\ UNCHANGED <<seen, tries, inner>>
    BY <1>4 DEF Rejected, Gone
  <2>. QED BY <2>1, FailedRetries DEF ClientsOK
<1>5. CASE op(c) = "aclSet"
  <2>1. Allowed(c)
    BY <1>5 DEF Allowed, Guarded
  <2>. QED BY <2>1 DEF Rejected
<1>. QED BY <1>1, <1>2, <1>3, <1>4, <1>5, OpsAndParts DEF Ops

LEMMA RaiseRetries ==
    ASSUME ClientsOK, ReadingsOK, NEW c \in Clients, Raise(c)
    PROVE  Retried(c)
<1>1. CASE op(c) \in {"aclBucket", "aclObject", "defacl"}
  BY <1>1, AgainRetries DEF Raise
<1>2. CASE op(c) \notin {"aclBucket", "aclObject", "defacl"}
  <2>1. Goes(c, "failed") /\ UNCHANGED <<seen, tries, inner>>
    BY <1>2 DEF Raise
  <2>. QED BY <2>1, FailedRetries DEF ClientsOK
<1>. QED BY <1>1, <1>2

-----------------------------------------------------------------------------
(* The steps of one command.                                               *)

\* What a step of a command leaves to the others, and does to its own.
Works(c) ==
    /\ plan' = plan
    /\ pc' = [pc EXCEPT ![c] = pc'[c]] /\ pc'[c] \in Counters
    /\ seen' = [seen EXCEPT ![c] = seen'[c]]
    /\ listed' = [listed EXCEPT ![c] = listed'[c]]
    /\ tries' \in [Clients -> 1..3] /\ inner' \in [Clients -> 1..3]
    /\ raised' \in [Clients -> BOOLEAN] /\ disturbed' \in [Clients -> Nat]
    /\ changes' \in 0..MaxChanges /\ faults' \in 0..MaxFaults
    /\ seen'[c] \in {seen[c], listed[c]} \/ seen'[c] = Now(c)'
    /\ listed'[c] = listed[c] \/ listed'[c] = Now(c)'
    /\ pc'[c] # "begin"
    /\ pc[c] = "begin" => seen'[c] = Now(c)' /\ listed'[c] = Now(c)'
    /\ pc'[c] = "ok" => \/ pc[c] # "begin" /\ Unchanged(c)
                        \/ /\ Allowed(c) /\ value'[part(c)] = Written(c)
                           /\ seen'[c] = seen[c]

\* The service is left as it is, or written by the command.
Commits(c) == Allowed(c) /\ Store(part(c), Written(c), Due(c))
Serves(c) == UNCHANGED service \/ Commits(c)

LEMMA Disturbed ==
    ASSUME HistoryOK, NEW S, Disturb(S)
    PROVE  disturbed' \in [Clients -> Nat]
BY DEF HistoryOK, Disturb

LEMMA ReadsNow ==
    ASSUME TypeOK, NEW c \in Clients, Reading(c), UNCHANGED service, plan' = plan
    PROVE  seen' = [seen EXCEPT ![c] = seen'[c]] /\ seen'[c] = Now(c)'
<1>1. seen' = [seen EXCEPT ![c] = Current(part(c))]
  BY DEF Reading
<1>2. Now(c)' = Current(part(c))
  BY DEF Now, Current, part, op, service
<1>3. seen = [d \in Clients |-> seen[d]]
  BY TypeParts DEF ReadingsOK
<1>. QED BY <1>1, <1>2, <1>3

LEMMA KeepsListing ==
    ASSUME ReadingsOK, NEW c \in Clients, listed' = listed
    PROVE  listed' = [listed EXCEPT ![c] = listed'[c]] /\ listed'[c] = listed[c]
<1>1. listed = [d \in Clients |-> listed[d]]
  BY DEF ReadingsOK
<1>. QED BY <1>1

LEMMA WorkWorks ==
    ASSUME TypeOK, NEW c \in Clients, Work(c)
    PROVE  Works(c) /\ Serves(c) /\ Observe
<1>. USE TypeParts
<1>1. CASE Begin(c)
  <2> DEFINE to == CASE op(c) \in {"aclObject"} -> "change"
                     [] op(c) \in {"setmeta", "iamSet"} \/ Blind(c) -> "patch"
                     [] OTHER -> "read"
  <2>1. /\ Reading(c) /\ listed' = [listed EXCEPT ![c] = Current(part(c))] /\ Goes(c, to)
        /\ UNCHANGED <<service, tries, inner, disturbed>> /\ NoFault /\ Observe
    BY <1>1 DEF Begin
  <2>2. to \in Counters \ {"begin", "ok"}
    BY DEF Counters
  <2>3. plan' = plan
    BY <2>1 DEF Observe
  <2>4. seen' = [seen EXCEPT ![c] = seen'[c]] /\ seen'[c] = Now(c)'
    BY <2>1, <2>3, ReadsNow
  <2>5. listed' = [listed EXCEPT ![c] = listed'[c]] /\ listed'[c] = Now(c)'
    <3>1. Now(c)' = Current(part(c))
      BY <2>1, <2>3 DEF Now, Current, part, op, service
    <3>2. listed = [d \in Clients |-> listed[d]]
      BY DEF ReadingsOK
    <3>. QED BY <2>1, <3>1, <3>2
  <2>6. pc' = [pc EXCEPT ![c] = pc'[c]] /\ pc'[c] \in Counters \ {"begin", "ok"}
    <3> HIDE DEF to
    <3>. QED BY <2>1, <2>2, GoesTyped
  <2>. QED BY <2>1, <2>3, <2>4, <2>5, <2>6 DEF Works, Serves, NoFault, bounds, ClientsOK, HistoryOK
<1>2. CASE Read(c) \/ Refetch(c)
  <2>1. PICK to \in {"change", "rechange"} :
        /\ pc[c] # "begin" /\ Reading(c) /\ Goes(c, to)
        /\ UNCHANGED <<service, listed, tries, inner, disturbed>> /\ NoFault /\ Observe
    BY <1>2 DEF Read, Refetch
  <2>2. plan' = plan
    BY <2>1 DEF Observe
  <2>3. seen' = [seen EXCEPT ![c] = seen'[c]] /\ seen'[c] = Now(c)'
    BY <2>1, <2>2, ReadsNow
  <2>4. listed' = [listed EXCEPT ![c] = listed'[c]] /\ listed'[c] = listed[c]
    BY <2>1, KeepsListing
  <2>5. pc' = [pc EXCEPT ![c] = pc'[c]] /\ pc'[c] \in Counters \ {"begin", "ok"}
    <3>1. to \in Counters
      BY DEF Counters
    <3>. QED BY <2>1, <3>1, GoesTyped
  <2>. QED BY <2>1, <2>2, <2>3, <2>4, <2>5 DEF Works, Serves, NoFault, bounds, ClientsOK, HistoryOK
<1>3. CASE Change(c) \/ BadRequest(c)
  <2>1. PICK to \in {"failed", "ok", "patch", "repatch"} :
        /\ pc[c] # "begin" /\ Goes(c, to) /\ (to = "ok" => Unchanged(c))
        /\ UNCHANGED <<service, seen, listed, tries, inner, disturbed>> /\ NoFault /\ Observe
    <3>1. CASE Change(c)
      <4>1. CASE Hopeless(c)
        BY <3>1, <4>1 DEF Change
      <4>2. CASE ~Hopeless(c) /\ Unchanged(c)
        BY <3>1, <4>2 DEF Change
      <4>3. CASE ~Hopeless(c) /\ ~Unchanged(c)
        BY <3>1, <4>3 DEF Change
      <4>. QED BY <4>1, <4>2, <4>3
    <3>2. CASE BadRequest(c)
      BY <3>2 DEF BadRequest, Sending
    <3>. QED BY <1>3, <3>1, <3>2
  <2>2. plan' = plan
    BY <2>1 DEF Observe
  <2>3. seen' = [seen EXCEPT ![c] = seen'[c]] /\ seen'[c] = seen[c]
    BY <2>1, KeepsReading
  <2>4. listed' = [listed EXCEPT ![c] = listed'[c]] /\ listed'[c] = listed[c]
    BY <2>1, KeepsListing
  <2>5. pc' = [pc EXCEPT ![c] = pc'[c]] /\ pc'[c] = to /\ to \in Counters \ {"begin"}
    <3>1. to \in Counters
      BY DEF Counters
    <3>. QED BY <2>1, <3>1, GoesTyped
  <2>. QED BY <2>1, <2>2, <2>3, <2>4, <2>5 DEF Works, Serves, NoFault, bounds, ClientsOK, HistoryOK
<1>4. CASE Accepted(c)
  <2>1. /\ Commit(c) /\ Goes(c, "ok") /\ Disturb(Beside(c, part(c)))
        /\ UNCHANGED <<seen, listed, tries, inner>> /\ NoFault /\ Observe /\ pc[c] # "begin"
    BY <1>4 DEF Accepted, Sending
  <2>2. plan' = plan
    BY <2>1 DEF Observe
  <2>3. seen' = [seen EXCEPT ![c] = seen'[c]] /\ seen'[c] = seen[c]
    BY <2>1, KeepsReading
  <2>4. listed' = [listed EXCEPT ![c] = listed'[c]] /\ listed'[c] = listed[c]
    BY <2>1, KeepsListing
  <2>5. pc' = [pc EXCEPT ![c] = pc'[c]] /\ pc'[c] = "ok" /\ pc'[c] \in Counters
    <3>1. "ok" \in Counters
      BY DEF Counters
    <3>. QED BY <2>1, <3>1, GoesTyped
  <2>6. disturbed' \in [Clients -> Nat]
    BY <2>1, Disturbed
  <2>7. Allowed(c) /\ value' = [value EXCEPT ![part(c)] = Written(c)]
    BY <2>1 DEF Commit, Store
  <2>8. value'[part(c)] = Written(c)
    <3>1. part(c) \in Parts /\ value = [p \in Parts |-> value[p]]
      BY OpsAndParts DEF ServiceOK
    <3>. QED BY <2>7, <3>1
  <2>9. Commits(c)
    BY <2>1 DEF Commit, Commits
  <2>. QED BY <2>1, <2>2, <2>3, <2>4, <2>5, <2>6, <2>7, <2>8, <2>9
           DEF Works, Serves, NoFault, bounds, ClientsOK, HistoryOK
<1>5. ASSUME Retried(c), listed' = listed, pc[c] # "begin", disturbed' \in [Clients -> Nat],
             raised' \in [Clients -> BOOLEAN], changes' \in 0..MaxChanges,
             faults' \in 0..MaxFaults, Observe
      PROVE  Works(c) /\ Observe
  <2>1. plan' = plan
    BY <1>5 DEF Observe
  <2>2. listed' = [listed EXCEPT ![c] = listed'[c]] /\ listed'[c] = listed[c]
    BY <1>5, KeepsListing
  <2>. QED BY <1>5, <2>1, <2>2 DEF Works, Retried
<1>6. ASSUME Fault(c)
      PROVE  /\ raised' \in [Clients -> BOOLEAN] /\ changes' \in 0..MaxChanges
             /\ faults' \in 0..MaxFaults
  BY <1>6, BoundsAssumption DEF Fault, HistoryOK
<1>7. CASE Rejected(c)
  <2>1. /\ UNCHANGED <<service, listed, disturbed>> /\ NoFault /\ Observe /\ pc[c] # "begin"
    BY <1>7 DEF Rejected, Sending
  <2>2. Retried(c)
    BY <1>7, RejectedRetries
  <2>. QED BY <1>5, <2>1, <2>2 DEF Serves, NoFault, bounds, HistoryOK
<1>8. CASE Error(c)
  <2>1. /\ UNCHANGED <<service, listed, disturbed>> /\ Fault(c) /\ Raise(c) /\ Observe
        /\ pc[c] # "begin"
    BY <1>8 DEF Error
  <2>2. Retried(c)
    BY <2>1, RaiseRetries
  <2>. QED BY <1>5, <1>6, <2>1, <2>2 DEF Serves, HistoryOK
<1>9. CASE Unanswered(c)
  <2>1. /\ Commit(c) /\ Disturb({c} \cup Beside(c, part(c))) /\ listed' = listed /\ Observe
        /\ pc[c] \in {"patch", "repatch"}
    BY <1>9 DEF Unanswered, Sending
  <2>2. disturbed' \in [Clients -> Nat]
    BY <2>1, Disturbed
  <2>3. Commits(c)
    BY <2>1 DEF Commit, Commits
  <2>4. CASE Fault(c) /\ Raise(c)
    <3>1. Retried(c)
      BY <2>4, RaiseRetries
    <3>. QED BY <1>5, <1>6, <2>1, <2>2, <2>3, <2>4, <3>1 DEF Serves
  <2>5. CASE /\ faults < MaxFaults /\ faults' = faults + 1
             /\ Goes(c, pc[c]) /\ UNCHANGED <<seen, tries, inner, raised, changes>>
    <3>1. pc' = [pc EXCEPT ![c] = pc'[c]] /\ pc'[c] = pc[c]
      BY <2>1, <2>5, GoesTyped DEF Counters
    <3>2. seen' = [seen EXCEPT ![c] = seen'[c]] /\ seen'[c] = seen[c]
      BY <2>5, KeepsReading
    <3>3. Retried(c)
      BY <2>1, <2>5, <3>1, <3>2 DEF Retried, ClientsOK, Counters
    <3>4. faults' \in 0..MaxFaults
      BY <2>5, BoundsAssumption DEF HistoryOK
    <3>. QED BY <1>5, <2>1, <2>2, <2>3, <2>5, <3>3, <3>4 DEF Serves, HistoryOK
  <2>. QED BY <1>9, <2>4, <2>5 DEF Unanswered
<1>. QED BY <1>1, <1>2, <1>3, <1>4, <1>7, <1>8, <1>9 DEF Work

-----------------------------------------------------------------------------
(* The steps of everybody.                                                 *)

LEMMA CommitsGoOn ==
    ASSUME TypeOK, NEW c \in Clients, Commits(c)
    PROVE  ServiceGoesOn
<1>1. ServiceOK /\ part(c) \in Parts /\ Written(c) \in Contents(part(c))
  BY TypeParts, OpsAndParts, WrittenTyped
<1>. QED BY <1>1, StoreGoesOn DEF Commits

LEMMA NextGoesOn ==
    ASSUME TypeOK, Next
    PROVE  ServiceGoesOn /\ Observe
<1>1. ASSUME NEW c \in Clients, Work(c) PROVE ServiceGoesOn /\ Observe
  BY <1>1, WorkWorks, CommitsGoOn, QuietGoesOn, TypeParts DEF Serves
<1>2. CASE Other
  <2>1. PICK p \in Parts, v \in UNION {Contents(q) : q \in Parts} :
           v \in Contents(p) /\ Store(p, v, View(p, v))
    BY <1>2, OtherStores
  <2>2. ServiceOK
    BY TypeParts
  <2>. QED BY <1>2, <2>1, <2>2, StoreGoesOn DEF Other
<1>3. CASE Overwrite
  BY <1>3, OverwriteGoesOn, TypeParts DEF Overwrite
<1>. QED BY <1>1, <1>2, <1>3 DEF Next

LEMMA OthersKeep ==
    ASSUME TypeOK, Other \/ Overwrite
    PROVE  UNCHANGED client /\ plan' = plan /\ HistoryOK'
<1>1. UNCHANGED <<client, raised, faults>> /\ plan' = plan
  BY DEF Other, Overwrite, Observe
<1>2. disturbed' \in [Clients -> Nat]
  BY Disturbed, TypeParts DEF Other, Overwrite
<1>3. changes' \in 0..MaxChanges
  BY TypeParts, BoundsAssumption DEF Other, Overwrite, HistoryOK
<1>4. effective' \in [Clients -> BOOLEAN]
  BY TypeParts DEF Other, Overwrite, Observe, HistoryOK
<1>. QED BY <1>1, <1>2, <1>3, <1>4, TypeParts DEF HistoryOK

LEMMA TypeInit ==
    ASSUME Init
    PROVE  TypeOK
<1>1. plan \in Plans
  BY DEF Init
<1> DEFINE first(p) ==
      CASE p \in Maps -> InitialMap
        [] p = "policy" -> [r \in Keys |-> {m \in Vals : m = InitialMap[r]}]
        [] p = "retention" -> [period |-> CHOOSE v \in Vals : TRUE, locked |-> FALSE]
<1>2. value = [p \in Parts |-> first(p)]
  BY DEF Init
<1>3. ASSUME NEW p \in Parts PROVE first(p) \in Contents(p)
  <2>1. CASE p \in Maps
    <3>1. Contents(p) = MapsOfKeys /\ p # "policy" /\ p # "retention"
      BY <2>1, ContentsOf
    <3>2. InitialMap \in MapsOfKeys
      BY ValsAssumption DEF MapsOfKeys
    <3>. QED BY <2>1, <3>1, <3>2
  <2>2. CASE p = "policy"
    <3>1. p \notin Maps
      BY <2>2, ContentsOf
    <3>2. [r \in Keys |-> {m \in Vals : m = InitialMap[r]}] \in Policies
      BY DEF Policies
    <3>3. first(p) = [r \in Keys |-> {m \in Vals : m = InitialMap[r]}]
      BY <2>2, <3>1
    <3> HIDE DEF first
    <3>. QED BY <2>2, <3>2, <3>3, ContentsOf
  <2>3. CASE p = "retention"
    <3>1. p \notin Maps /\ p # "policy"
      BY <2>3, ContentsOf
    <3>2. (CHOOSE v \in Vals : TRUE) \in Vals
      BY ValsAssumption
    <3>3. first(p) = [period |-> CHOOSE v \in Vals : TRUE, locked |-> FALSE]
      BY <2>3, <3>1
    <3>4. [period |-> CHOOSE v \in Vals : TRUE, locked |-> FALSE] \in Contents("retention")
      BY <3>2, ContentsOf
    <3> HIDE DEF first
    <3>. QED BY <2>3, <3>3, <3>4
  <2>. QED BY <2>1, <2>2, <2>3, ContentsOf
<1>4. version \in [Containers -> Nat] /\ born \in Nat
  BY DEF Init, Containers
<1>5. ServiceOK
  <2>1. ledger = [p \in Parts |-> ledger[p]]
    <3>1. ledger = [p \in Parts |-> View(p, value[p])]
      BY DEF Init
    <3>. QED BY <3>1
  <2> HIDE DEF first
  <2>. QED BY <1>2, <1>3, <1>4, <2>1 DEF ServiceOK
<1>6. ReadingsOK
  <2>1. seen = [c \in Clients |-> Current(part(c))] /\ listed = seen
    BY DEF Init, part, op
  <2>2. ASSUME NEW c \in Clients PROVE Current(part(c)) \in Readings(part(c))
    <3>1. part(c) \in Parts /\ Container(part(c)) \in Containers
      BY <1>1, OpsAndParts, ContentsOf
    <3>. QED BY <1>4, <1>5, <3>1 DEF ServiceOK, Current, Readings
  <2>. QED BY <2>1, <2>2 DEF ReadingsOK
<1>7. ClientsOK
  BY DEF Init, ClientsOK, Counters
<1>8. HistoryOK
  BY BoundsAssumption DEF Init, HistoryOK
<1>. QED BY <1>1, <1>5, <1>6, <1>7, <1>8, TypeParts

LEMMA TypePartsNext ==
    ASSUME plan' \in Plans, ServiceOK', ReadingsOK', ClientsOK', HistoryOK'
    PROVE  TypeOK'
BY DEF TypeOK, ServiceOK, ReadingsOK, ClientsOK, HistoryOK, Containers, Counters

LEMMA TypePartsThen ==
    ASSUME TypeOK'
    PROVE  plan' \in Plans /\ ServiceOK' /\ ReadingsOK' /\ ClientsOK' /\ HistoryOK'
BY DEF TypeOK, ServiceOK, ReadingsOK, ClientsOK, HistoryOK, Containers, Counters

LEMMA TypeNext ==
    ASSUME TypeOK, Next
    PROVE  TypeOK'
<1>. USE TypeParts
<1>1. ServiceOK' /\ Observe /\ plan' = plan
  BY NextGoesOn DEF ServiceGoesOn, Observe
<1>2. ASSUME NEW c \in Clients PROVE Readings(part(c))' = Readings(part(c))
  BY <1>1 DEF part, op, Readings, Contents
<1>3. ASSUME NEW c \in Clients PROVE Now(c)' \in Readings(part(c))
  <2>1. part(c)' = part(c) /\ part(c) \in Parts /\ Container(part(c)) \in Containers
    BY <1>1, OpsAndParts, ContentsOf DEF part, op
  <2>2. value'[part(c)] \in Contents(part(c)) /\ version'[Container(part(c))] \in Nat
    BY <1>1, <2>1 DEF ServiceOK, Contents
  <2>3. Now(c)' = [value |-> value'[part(c)], version |-> version'[Container(part(c))]]
    BY <1>1, <2>1 DEF Now, Current, part, op
  <2>. QED BY <2>2, <2>3 DEF Readings
<1>4. effective' \in [Clients -> BOOLEAN]
  BY <1>1 DEF Observe, HistoryOK
<1>5. ASSUME NEW c \in Clients, Work(c) PROVE TypeOK'
  <2>1. Works(c)
    BY <1>5, WorkWorks
  <2>2. /\ seen' = [d \in Clients |-> seen'[d]] /\ listed' = [d \in Clients |-> listed'[d]]
        /\ \A d \in Clients : d # c => seen'[d] = seen[d] /\ listed'[d] = listed[d]
    BY <2>1 DEF Works, ReadingsOK
  <2>3. seen'[c] \in Readings(part(c)) /\ listed'[c] \in Readings(part(c))
    BY <1>3, <2>1 DEF Works, ReadingsOK
  <2>4. ReadingsOK'
    <3>1. \A d \in Clients : {seen'[d], listed'[d]} \subseteq Readings(part(d))
      BY <2>2, <2>3 DEF ReadingsOK
    <3>. QED BY <1>2, <2>2, <3>1 DEF ReadingsOK
  <2>5. ClientsOK'
    BY <2>1 DEF Works, ClientsOK
  <2>6. HistoryOK'
    BY <1>4, <2>1 DEF Works, HistoryOK
  <2>. QED BY <1>1, <2>4, <2>5, <2>6, TypePartsNext
<1>6. CASE Other \/ Overwrite
  <2>1. UNCHANGED client /\ HistoryOK'
    BY <1>6, OthersKeep
  <2>2. ReadingsOK'
    <3>1. seen' = seen /\ listed' = listed
      BY <2>1 DEF client
    <3>. QED BY <1>2, <3>1 DEF ReadingsOK
  <2>3. ClientsOK'
    BY <2>1 DEF client, ClientsOK
  <2>. QED BY <1>1, <2>1, <2>2, <2>3, TypePartsNext
<1>. QED BY <1>5, <1>6 DEF Next

\* Parts, versions, readings and counters keep their types: TypeOK holds in
\* every state, so a part only ever holds what some command could write.
THEOREM TypesHold == Spec => []TypeOK
<1>1. TypeOK /\ UNCHANGED vars => TypeOK'
  <2> SUFFICES ASSUME TypeOK, UNCHANGED vars PROVE TypeOK'
    OBVIOUS
  <2>1. UNCHANGED <<value, version, ledger, born, plan, pc, seen, listed, tries, inner, effective,
                    disturbed, raised, changes, faults>>
    BY DEF vars, service, client, bounds
  <2>. QED BY <2>1 DEF TypeOK, Contents, Readings, part, op
<1>. QED BY TypeInit, TypeNext, <1>1, PTL DEF Spec

-----------------------------------------------------------------------------
(* No update is lost, and success takes effect.                            *)

EffectsInv == ReadingsInv /\ NoLostUpdate /\ EffectInv /\ SuccessTakesEffect

LEMMA EffectsInit ==
    ASSUME Init
    PROVE  EffectsInv
<1>1. plan \in Plans /\ TypeOK
  BY TypeInit DEF Init
<1>2. seen = [c \in Clients |-> Current(part(c))] /\ listed = seen
  BY DEF Init, part, op
<1>3. ReadingsInv
  <2>1. ASSUME NEW c \in Clients PROVE Reliable(part(c), Current(part(c)))
    <3>1. Container(part(c)) \in Containers
      BY <1>1, OpsAndParts, ContentsOf
    <3>2. version[Container(part(c))] \in Nat
      BY <1>1, <3>1, TypeParts DEF ServiceOK
    <3>. QED BY <3>2 DEF Reliable, Current
  <2>. QED BY <1>2, <2>1 DEF ReadingsInv
<1>4. NoLostUpdate
  <2>1. ledger = [p \in Parts |-> View(p, value[p])]
    BY DEF Init
  <2>. QED BY <2>1 DEF NoLostUpdate
<1>5. \A c \in Clients : pc[c] = "begin"
  BY DEF Init
<1>. QED BY <1>3, <1>4, <1>5 DEF EffectsInv, EffectInv, SuccessTakesEffect

\* What a command asks for does not change while it runs.
LEMMA SatisfiedSame ==
    ASSUME plan \in Plans, plan' = plan, NEW c \in Clients
    PROVE  /\ Satisfied(c, seen[c].value)' <=> Satisfied(c, seen'[c].value)
           /\ Satisfied(c, listed[c].value)' <=> Satisfied(c, listed'[c].value)
           /\ part(c)' = part(c) /\ op(c)' = op(c)
<1>1. part(c)' = part(c) /\ op(c)' = op(c) /\ change(c)' = change(c)
  BY DEF part, op, change
<1>. QED BY <1>1 DEF Satisfied, View, Pairs

LEMMA StoreIsMeant ==
    ASSUME ServiceOK, NoLostUpdate, NEW p \in Parts, NEW v, Store(p, v, View(p, v))
    PROVE  NoLostUpdate'
<1>1. value' = [value EXCEPT ![p] = v] /\ ledger' = [ledger EXCEPT ![p] = View(p, v)]
  BY DEF Store
<1>2. \A q \in Parts : value'[q] = (IF q = p THEN v ELSE value[q])
                       /\ ledger'[q] = (IF q = p THEN View(p, v) ELSE ledger[q])
  BY <1>1 DEF ServiceOK
<1>. QED BY <1>2 DEF NoLostUpdate

LEMMA NothingLost ==
    ASSUME TypeOK, EffectsInv, Next
    PROVE  NoLostUpdate'
<1>0. ServiceOK /\ NoLostUpdate /\ ReadingsInv /\ plan \in Plans
  BY TypeParts DEF EffectsInv
<1>1. ASSUME NEW c \in Clients, Work(c) PROVE NoLostUpdate'
  <2>1. CASE UNCHANGED service
    BY <1>0, <2>1 DEF NoLostUpdate, service
  <2>2. CASE Commits(c)
    <3>1. View(part(c), Written(c)) = Due(c)
      BY <1>0, <2>2, WrittenIsDue DEF Commits
    <3>2. Store(part(c), Written(c), View(part(c), Written(c))) /\ part(c) \in Parts
      BY <1>0, <2>2, <3>1, OpsAndParts DEF Commits
    <3>. QED BY <1>0, <3>2, StoreIsMeant
  <2>. QED BY <1>1, <2>1, <2>2, WorkWorks DEF Serves
<1>2. CASE Other
  <2>1. PICK p \in Parts, v \in UNION {Contents(q) : q \in Parts} : Store(p, v, View(p, v))
    BY <1>2, OtherStores
  <2>. QED BY <1>0, <2>1, StoreIsMeant
<1>3. CASE Overwrite
  <2>1. /\ value' = [value EXCEPT !["objacl"] = InitialMap, !["custom"] = Empty]
        /\ ledger' = [ledger EXCEPT !["objacl"] = InitialMap, !["custom"] = Empty]
    BY <1>0, <1>3, OverwriteGoesOn
  <2>2. "objacl" \in Parts /\ "custom" \in Parts
    BY DEF Parts
  <2>3. /\ value'["objacl"] = InitialMap /\ ledger'["objacl"] = InitialMap
        /\ value'["custom"] = Empty /\ ledger'["custom"] = Empty
        /\ \A q \in Parts : q \notin {"objacl", "custom"} =>
               value'[q] = value[q] /\ ledger'[q] = ledger[q]
    BY <1>0, <2>1, <2>2 DEF ServiceOK
  <2>. QED BY <1>0, <2>3 DEF NoLostUpdate, View
<1>. QED BY <1>1, <1>2, <1>3 DEF Next

\* A client reads now, or has read before.
Rereading(d) ==
    /\ seen'[d] \in {seen[d], listed[d]} \/ seen'[d] = Now(d)'
    /\ listed'[d] = listed[d] \/ listed'[d] = Now(d)'
    /\ pc'[d] # "begin" /\ pc[d] = "begin" => seen'[d] = Now(d)' /\ listed'[d] = Now(d)'
    /\ pc'[d] = "ok" => \/ pc[d] = "ok"
                        \/ pc[d] # "begin" /\ Unchanged(d)
                        \/ /\ Allowed(d) /\ value'[part(d)] = Written(d)
                           /\ seen'[d] = seen[d]
    /\ pc[d] = "ok" => seen'[d] = seen[d]

LEMMA NextRereads ==
    ASSUME TypeOK, Next, NEW d \in Clients
    PROVE  Rereading(d)
<1>1. ASSUME NEW c \in Clients, Work(c) PROVE Rereading(d)
  <2>1. Works(c)
    BY <1>1, WorkWorks
  <2>2. CASE c = d
    <3>1. pc[c] # "ok"
      BY <1>1 DEF Work, Begin, Read, Change, Refetch, Accepted, Rejected, BadRequest, Error,
                  Unanswered, Sending
    <3>. QED BY <2>1, <2>2, <3>1 DEF Works, Rereading
  <2>3. CASE c # d
    <3>1. pc'[d] = pc[d] /\ seen'[d] = seen[d] /\ listed'[d] = listed[d]
      BY <2>1, <2>3, TypeParts DEF Works, ReadingsOK, ClientsOK
    <3>. QED BY <3>1 DEF Rereading
  <2>. QED BY <2>2, <2>3
<1>2. CASE Other \/ Overwrite
  <2>1. UNCHANGED client
    BY <1>2, OthersKeep
  <2>. QED BY <2>1 DEF client, Rereading
<1>. QED BY <1>1, <1>2 DEF Next

\* What is read is reliable, and a later version makes it no less so.
LEMMA ReadingsNext ==
    ASSUME TypeOK, ReadingsInv, Next
    PROVE  ReadingsInv'
<1>0. plan \in Plans /\ ServiceOK /\ ReadingsOK /\ TypeOK'
  BY TypeParts, TypeNext
<1>1. ServiceGoesOn /\ plan' = plan
  BY NextGoesOn DEF Observe
<1>2. ASSUME NEW d \in Clients
      PROVE  /\ part(d)' = part(d) /\ part(d) \in Parts /\ Container(part(d)) \in Containers
             /\ Now(d)' = [value |-> value'[part(d)], version |-> version'[Container(part(d))]]
  BY <1>0, <1>1, OpsAndParts, ContentsOf DEF Now, Current, part, op
<1> DEFINE Holds(q, s) == /\ s.version <= version'[Container(q)]
                          /\ s.version = version'[Container(q)] => s.value = value'[q]
<1>3. ASSUME NEW d \in Clients
      PROVE  Holds(part(d), seen'[d]) /\ Holds(part(d), listed'[d])
  <2>1. ASSUME NEW s \in Readings(part(d)), Reliable(part(d), s) PROVE Holds(part(d), s)
    <3>1. \A q \in Parts : \A t \in Readings(q) : Reliable(q, t) => Reliable(q, t)'
      BY <1>1 DEF ServiceGoesOn
    <3>. QED BY <1>2, <2>1, <3>1 DEF Reliable
  <2>2. Holds(part(d), Now(d)')
    <3>1. version'[Container(part(d))] \in Nat
      BY <1>0, <1>2, TypePartsThen DEF ServiceOK
    <3>. QED BY <1>2, <3>1
  <2>3. /\ Reliable(part(d), seen[d]) /\ Reliable(part(d), listed[d])
        /\ seen[d] \in Readings(part(d)) /\ listed[d] \in Readings(part(d))
    BY <1>0 DEF ReadingsInv, ReadingsOK
  <2> HIDE DEF Holds
  <2>4. Holds(part(d), seen[d]) /\ Holds(part(d), listed[d])
    BY <2>1, <2>3
  <2>. QED BY <2>2, <2>4, NextRereads DEF Rereading
<1>4. ASSUME NEW d \in Clients
      PROVE  Reliable(part(d), seen[d])' /\ Reliable(part(d), listed[d])'
  BY <1>2, <1>3 DEF Reliable
<1>. QED BY <1>4 DEF ReadingsInv

LEMMA EffectsNext ==
    ASSUME TypeOK, EffectsInv, Next
    PROVE  EffectsInv'
<1>0. plan \in Plans /\ ServiceOK /\ ReadingsOK /\ TypeOK'
  BY TypeParts, TypeNext
<1>1. ServiceGoesOn /\ Observe /\ plan' = plan
  BY NextGoesOn DEF Observe
<1>2. ASSUME NEW d \in Clients
      PROVE  /\ part(d)' = part(d) /\ part(d) \in Parts /\ Container(part(d)) \in Containers
             /\ Now(d)' = [value |-> value'[part(d)], version |-> version'[Container(part(d))]]
  BY <1>0, <1>1, OpsAndParts, ContentsOf DEF Now, Current, part, op
<1>3. ReadingsInv'
  BY ReadingsNext DEF EffectsInv
<1>4. ASSUME NEW d \in Clients
      PROVE  /\ effective[d] => effective'[d]
             /\ pc'[d] # "begin" /\ Satisfied(d, value'[part(d)]) => effective'[d]
  BY <1>1 DEF Observe
<1>5. EffectInv'
  <2>1. ASSUME NEW d \in Clients, pc'[d] # "begin"
        PROVE  /\ Satisfied(d, seen'[d].value) => effective'[d]
               /\ Satisfied(d, listed'[d].value) => effective'[d]
    <3>1. Now(d)'.value = value'[part(d)]
      BY <1>2
    <3>2. CASE pc[d] = "begin"
      <4>1. seen'[d] = Now(d)' /\ listed'[d] = Now(d)'
        BY <2>1, <3>2, NextRereads DEF Rereading
      <4>. QED BY <1>4, <2>1, <3>1, <4>1
    <3>3. CASE pc[d] # "begin"
      <4>1. /\ Satisfied(d, seen[d].value) => effective'[d]
            /\ Satisfied(d, listed[d].value) => effective'[d]
        BY <1>4, <3>3 DEF EffectsInv, EffectInv
      <4>2. Satisfied(d, Now(d)'.value) => effective'[d]
        BY <1>4, <2>1, <3>1
      <4>3. /\ seen'[d] \in {seen[d], listed[d], Now(d)'}
            /\ listed'[d] \in {listed[d], Now(d)'}
        BY NextRereads DEF Rereading
      <4>. QED BY <4>1, <4>2, <4>3
    <3>. QED BY <3>2, <3>3
  <2>2. ASSUME NEW d \in Clients, pc'[d] # "begin"
        PROVE  (Satisfied(d, seen[d].value) \/ Satisfied(d, listed[d].value))' => effective'[d]
    <3>1. /\ Satisfied(d, seen[d].value)' <=> Satisfied(d, seen'[d].value)
          /\ Satisfied(d, listed[d].value)' <=> Satisfied(d, listed'[d].value)
      BY <1>0, <1>1, SatisfiedSame
    <3>2. /\ Satisfied(d, seen'[d].value) => effective'[d]
          /\ Satisfied(d, listed'[d].value) => effective'[d]
      BY <2>1, <2>2
    <3>. QED BY <3>1, <3>2
  <2>. QED BY <2>2 DEF EffectInv
<1>6. SuccessTakesEffect'
  <2>1. ASSUME NEW d \in Clients, pc'[d] = "ok" PROVE effective'[d] \/ Unsent(d)'
    <3>0. seen'[d] = seen[d] => (Unsent(d)' <=> Unsent(d))
      BY <1>1 DEF Unsent, NewAcl, Executed, op, change
    <3>1. CASE pc[d] = "ok"
      <4>1. seen'[d] = seen[d]
        BY <3>1, NextRereads DEF Rereading
      <4>. QED BY <1>4, <3>0, <3>1, <4>1 DEF EffectsInv, SuccessTakesEffect
    <3>2. CASE pc[d] # "begin" /\ Unchanged(d)
      <4>1. Satisfied(d, seen[d].value)
        BY <3>2, UnchangedSatisfies
      <4>. QED BY <1>4, <3>2, <4>1 DEF EffectsInv, EffectInv
    <3>3. CASE Allowed(d) /\ value'[part(d)] = Written(d) /\ seen'[d] = seen[d]
      <4>1. CASE Unsent(d)
        BY <3>0, <3>3, <4>1
      <4>2. CASE ~Unsent(d)
        <5>1. Satisfied(d, Written(d))
          BY <3>3, <4>2, WrittenSatisfies DEF EffectsInv
        <5>. QED BY <1>4, <2>1, <3>3, <5>1
      <4>. QED BY <4>1, <4>2
    <3>. QED BY <2>1, <3>1, <3>2, <3>3, NextRereads DEF Rereading
  <2>. QED BY <2>1 DEF SuccessTakesEffect
<1>. QED BY <1>3, <1>5, <1>6, NothingLost DEF EffectsInv

LEMMA EffectsStutter ==
    ASSUME EffectsInv, UNCHANGED vars
    PROVE  EffectsInv'
<1>1. UNCHANGED <<value, version, ledger, plan, pc, seen, listed, effective>>
  BY DEF vars, service, client
<1>2. ReadingsInv'
  BY <1>1 DEF EffectsInv, ReadingsInv, Reliable, part, op
<1>3. NoLostUpdate'
  BY <1>1 DEF EffectsInv, NoLostUpdate
<1>4. EffectInv'
  BY <1>1 DEF EffectsInv, EffectInv, Satisfied, View, part, op, change
<1>5. SuccessTakesEffect'
  BY <1>1 DEF EffectsInv, SuccessTakesEffect, Unsent, NewAcl, Executed, op, change
<1>. QED BY <1>2, <1>3, <1>4, <1>5 DEF EffectsInv

LEMMA EffectsHold == Spec => []EffectsInv
<1>1. Init => EffectsInv
  BY EffectsInit
<1>2. TypeOK /\ EffectsInv /\ [Next]_vars => EffectsInv'
  BY EffectsNext, EffectsStutter
<1>. QED BY <1>1, <1>2, TypesHold, PTL DEF Spec

\* No update is lost: NoLostUpdate holds in every state, because a guarded
\* request is executed only on what the command has read.
THEOREM NoLostUpdateHolds == Spec => []NoLostUpdate
<1>1. EffectsInv => NoLostUpdate
  BY DEF EffectsInv
<1>. QED BY <1>1, EffectsHold, PTL

\* A command that succeeds has had its effect, whether it has written it or
\* found nothing to change, or an earlier request of its own has written it,
\* unless the new ACL was not sent because it has no entry.
THEOREM SuccessTakesEffectHolds == Spec => []SuccessTakesEffect
<1>1. EffectsInv => SuccessTakesEffect
  BY DEF EffectsInv
<1>. QED BY <1>1, EffectsHold, PTL

-----------------------------------------------------------------------------
(* A command fails only after three tries.                                 *)

TriesAt(c) ==
    op(c) \in Rereads /\ ~raised[c] =>
        /\ TriesOf(c)
        /\ pc[c] = "failed" /\ ~NoAcl(c) /\ ~Misplaced(c) => disturbed[c] >= 3

\* A client whose bucket or object has changed has been disturbed.
Bumped(d) ==
    \/ version'[Container(part(d))] = version[Container(part(d))] /\ disturbed'[d] >= disturbed[d]
    \/ /\ version'[Container(part(d))] = version[Container(part(d))] + 1
       /\ disturbed'[d] = disturbed[d] + 1

LEMMA StoreBumps ==
    ASSUME TypeOK, NEW p \in Parts, NEW v, NEW m, Store(p, v, m), NEW S, Disturb(S),
           NEW d \in Clients, Container(part(d)) = Container(p) => d \in S
    PROVE  Bumped(d)
<1>1. /\ Container(part(d)) \in Containers /\ Container(p) \in Containers
      /\ version \in [Containers -> Nat] /\ disturbed \in [Clients -> Nat]
  BY TypeParts, OpsAndParts, ContentsOf DEF ServiceOK, HistoryOK
<1>2. /\ version' = [version EXCEPT ![Container(p)] = @ + 1]
      /\ disturbed'[d] = disturbed[d] + IF d \in S THEN 1 ELSE 0
  BY DEF Store, Disturb
<1>3. CASE Container(part(d)) = Container(p)
  BY <1>1, <1>2, <1>3 DEF Bumped
<1>4. CASE Container(part(d)) # Container(p)
  BY <1>1, <1>2, <1>4 DEF Bumped
<1>. QED BY <1>3, <1>4

LEMMA QuietBumps ==
    ASSUME TypeOK, UNCHANGED <<version, disturbed>>, NEW d \in Clients
    PROVE  Bumped(d)
<1>1. disturbed[d] \in Nat
  BY TypeParts DEF HistoryOK
<1>. QED BY <1>1 DEF Bumped

LEMMA KeepsTries ==
    ASSUME TypeOK, ReadingsInv, NEW d \in Clients, TriesAt(d), Bumped(d), plan' = plan,
           pc'[d] = pc[d], seen'[d] = seen[d], inner'[d] = inner[d], tries'[d] = tries[d],
           raised'[d] = raised[d], disturbed'[d] \in Nat
    PROVE  TriesAt(d)'
<1> DEFINE s == seen[d].version
           now == version[Container(part(d))]
           then == version'[Container(part(d))]
           times == disturbed[d]
           timesThen == disturbed'[d]
<1>1. part(d)' = part(d) /\ op(d)' = op(d) /\ change(d)' = change(d)
  BY DEF part, op, change
<1>2. s \in Nat /\ now \in Nat /\ times \in Nat /\ s <= now
  <2>1. seen[d] \in Readings(part(d)) /\ times \in Nat
    BY TypeParts DEF ReadingsOK, HistoryOK
  <2>2. Container(part(d)) \in Containers
    BY TypeParts, OpsAndParts, ContentsOf
  <2>3. now \in Nat
    BY <2>2, TypeParts DEF ServiceOK
  <2>4. s <= now
    BY DEF ReadingsInv, Reliable
  <2>. QED BY <2>1, <2>3, <2>4 DEF Readings
<1>3. \/ then = now /\ timesThen >= times
      \/ then = now + 1 /\ timesThen = times + 1
  BY DEF Bumped
<1>4. inner[d] \in Nat /\ tries[d] \in Nat
  <2>1. inner[d] \in 1..3 /\ tries[d] \in 1..3
    BY TypeParts DEF ClientsOK
  <2>. QED BY <2>1
<1>5. /\ Stale(d) <=> s < now
      /\ Stale(d)' <=> s < then
      /\ NoAcl(d)' <=> NoAcl(d)
      /\ Misplaced(d)' <=> Misplaced(d)
      /\ TriesOf(d) <=>
           IF op(d) = "aclObject"
           THEN /\ tries[d] > 1 => times >= tries[d]
                /\ pc[d] \in {"change", "patch"} /\ s < now => times >= tries[d]
                /\ pc[d] \in {"refetch", "rechange", "repatch"} =>
                       times + 1 >= inner[d] + tries[d]
                /\ pc[d] \in {"rechange", "repatch"} /\ s < now =>
                       times >= inner[d] + tries[d]
           ELSE /\ pc[d] \notin {"refetch", "rechange", "repatch"}
                /\ times + 1 >= tries[d]
                /\ pc[d] \in {"change", "patch"} /\ s < now => times >= tries[d]
      /\ TriesOf(d)' <=>
           IF op(d) = "aclObject"
           THEN /\ tries[d] > 1 => timesThen >= tries[d]
                /\ pc[d] \in {"change", "patch"} /\ s < then => timesThen >= tries[d]
                /\ pc[d] \in {"refetch", "rechange", "repatch"} =>
                       timesThen + 1 >= inner[d] + tries[d]
                /\ pc[d] \in {"rechange", "repatch"} /\ s < then =>
                       timesThen >= inner[d] + tries[d]
           ELSE /\ pc[d] \notin {"refetch", "rechange", "repatch"}
                /\ timesThen + 1 >= tries[d]
                /\ pc[d] \in {"change", "patch"} /\ s < then => timesThen >= tries[d]
  BY <1>1 DEF Stale, TriesOf, NoAcl, Misplaced
<1>6. TriesAt(d)' <=> (op(d) \in Rereads /\ ~raised[d] =>
           TriesOf(d)' /\ (pc[d] = "failed" /\ ~NoAcl(d)' /\ ~Misplaced(d)' => timesThen >= 3))
  BY <1>1 DEF TriesAt, Rereads
<1>7. TriesAt(d) <=> (op(d) \in Rereads /\ ~raised[d] =>
           TriesOf(d) /\ (pc[d] = "failed" /\ ~NoAcl(d) /\ ~Misplaced(d) => times >= 3))
  BY DEF TriesAt
<1>8. timesThen \in Nat
  OBVIOUS
<1> HIDE DEF s, now, then, times, timesThen
<1>9. TriesOf(d) => TriesOf(d)'
  BY <1>2, <1>3, <1>4, <1>5, <1>8
<1>10. times >= 3 => timesThen >= 3
  BY <1>2, <1>3, <1>8
<1>. QED BY <1>5, <1>6, <1>7, <1>9, <1>10

\* Whoever has just read is not stale.
LEMMA FreshIsNotStale ==
    ASSUME TypeOK, TypeOK', plan' = plan, NEW c \in Clients, seen'[c] = Now(c)'
    PROVE  ~Stale(c)'
<1>1. part(c)' = part(c) /\ Container(part(c)) \in Containers
  BY TypeParts, OpsAndParts, ContentsOf DEF part, op
<1>2. version'[Container(part(c))] \in Nat
  BY <1>1, TypePartsThen DEF ServiceOK
<1>3. seen'[c].version = version'[Container(part(c))]
  BY <1>1 DEF Now, Current
<1>. QED BY <1>1, <1>2, <1>3 DEF Stale

\* A command that reads what has been read is rejected if it is stale.
LEMMA RejectedIsStale ==
    ASSUME TypeOK, ReadingsInv, NEW c \in Clients, ~Allowed(c)
    PROVE  Stale(c)
<1>1. Container(part(c)) \in Containers /\ seen[c] \in Readings(part(c))
  BY TypeParts, OpsAndParts, ContentsOf DEF ReadingsOK
<1>2. version[Container(part(c))] \in Nat /\ seen[c].version \in Nat
  BY <1>1, TypeParts DEF ServiceOK, Readings
<1>3. seen[c].version <= version[Container(part(c))]
  BY DEF ReadingsInv, Reliable
<1>. QED BY <1>2, <1>3 DEF Allowed, Stale

LEMMA OwnTries ==
    ASSUME TypeOK, TypeOK', ReadingsInv, NEW c \in Clients, TriesAt(c), Work(c)
    PROVE  TriesAt(c)'
<1>0. plan' = plan /\ op(c)' = op(c) /\ (Misplaced(c)' <=> Misplaced(c))
  BY WorkWorks DEF Works, op, Misplaced, change
<1>1. /\ disturbed[c] \in Nat /\ inner[c] \in 1..3 /\ tries[c] \in 1..3
      /\ disturbed'[c] \in Nat /\ inner'[c] \in 1..3 /\ tries'[c] \in 1..3
  BY TypeParts, TypePartsThen DEF HistoryOK, ClientsOK
<1>2. pc \in [Clients -> Counters] /\ inner \in [Clients -> 1..3] /\ tries \in [Clients -> 1..3]
  BY TypeParts DEF ClientsOK
<1>. SUFFICES ASSUME op(c) \in Rereads, ~raised'[c]
              PROVE  TriesOf(c)' /\ (pc'[c] = "failed" /\ ~NoAcl(c)' /\ ~Misplaced(c)' => disturbed'[c] >= 3)
  BY <1>0 DEF TriesAt, Rereads
<1>3. op(c) \in {"aclBucket", "aclObject", "defacl", "iamCh", "labelSet"}
  BY DEF Rereads
<1>4. ASSUME raised' = raised
      PROVE  TriesOf(c) /\ (pc[c] = "failed" /\ ~NoAcl(c) /\ ~Misplaced(c) => disturbed[c] >= 3)
  BY <1>3, <1>4 DEF TriesAt
<1>5. CASE Begin(c)
  <2>1. /\ pc'[c] \in {"change", "patch", "read"} /\ raised' = raised
        /\ disturbed' = disturbed /\ tries' = tries /\ pc[c] = "begin"
    BY <1>2, <1>5 DEF Begin, Goes, NoFault
  <2>2. ~Stale(c)'
    <3>1. seen'[c] = Now(c)'
      BY <1>5, WorkWorks DEF Works, Begin
    <3>. QED BY <1>0, <3>1, FreshIsNotStale
  <2>. QED BY <1>0, <1>1, <1>4, <2>1, <2>2 DEF TriesOf
<1>6. CASE Read(c)
  <2>1. /\ pc[c] = "read" /\ pc'[c] = "change" /\ raised' = raised
        /\ disturbed' = disturbed /\ tries' = tries /\ Reading(c) /\ UNCHANGED service
    BY <1>2, <1>6 DEF Read, Goes, NoFault
  <2>2. ~Stale(c)'
    <3>1. seen'[c] = Now(c)'
      BY <1>0, <2>1, ReadsNow
    <3>. QED BY <1>0, <3>1, FreshIsNotStale
  <2>. QED BY <1>0, <1>1, <1>4, <2>1, <2>2 DEF TriesOf
<1>7. CASE Refetch(c)
  <2>1. /\ pc[c] = "refetch" /\ pc'[c] = "rechange" /\ raised' = raised
        /\ disturbed' = disturbed /\ tries' = tries /\ inner' = inner
        /\ Reading(c) /\ UNCHANGED service
    BY <1>2, <1>7 DEF Refetch, Goes, NoFault
  <2>2. ~Stale(c)'
    <3>1. seen'[c] = Now(c)'
      BY <1>0, <2>1, ReadsNow
    <3>. QED BY <1>0, <3>1, FreshIsNotStale
  <2>. QED BY <1>0, <1>1, <1>4, <2>1, <2>2 DEF TriesOf
<1>8. CASE Change(c)
  <2>1. /\ pc[c] \in {"change", "rechange"} /\ raised' = raised
        /\ disturbed' = disturbed /\ tries' = tries /\ inner' = inner /\ seen' = seen
        /\ version' = version
    BY <1>8 DEF Change, NoFault, service
  <2>2. (NoAcl(c)' <=> NoAcl(c)) /\ (Stale(c)' <=> Stale(c))
    BY <1>0, <2>1 DEF NoAcl, Stale, part, op
  <2>3. \/ pc'[c] = "failed" /\ (NoAcl(c) \/ Misplaced(c))
        \/ pc'[c] = "ok"
        \/ pc[c] = "change" /\ pc'[c] = "patch"
        \/ pc[c] = "rechange" /\ pc'[c] = "repatch"
    <3>1. CASE Hopeless(c)
      <4>1. NoAcl(c) \/ Misplaced(c)
        BY <1>3, <3>1 DEF Hopeless
      <4>2. Goes(c, "failed")
        BY <1>8, <3>1 DEF Change
      <4>. QED BY <1>2, <4>1, <4>2 DEF Goes
    <3>2. CASE ~Hopeless(c) /\ Unchanged(c)
      <4>1. Goes(c, "ok")
        BY <1>8, <3>2 DEF Change
      <4>. QED BY <1>2, <4>1 DEF Goes
    <3>3. CASE ~Hopeless(c) /\ ~Unchanged(c)
      <4>1. Goes(c, IF pc[c] = "change" THEN "patch" ELSE "repatch")
        BY <1>8, <3>3 DEF Change
      <4>. QED BY <1>2, <2>1, <4>1 DEF Goes
    <3>. QED BY <3>1, <3>2, <3>3
  <2>. QED BY <1>0, <1>1, <1>4, <2>1, <2>2, <2>3 DEF TriesOf
<1>9. CASE Accepted(c)
  <2>1. /\ pc'[c] = "ok" /\ raised' = raised /\ tries' = tries
        /\ pc[c] \in {"patch", "repatch"} /\ Disturb(Beside(c, part(c)))
    BY <1>2, <1>9 DEF Accepted, Sending, Goes, NoFault
  <2>2. disturbed'[c] >= disturbed[c]
    <3>1. disturbed'[c] = disturbed[c] + IF c \in Beside(c, part(c)) THEN 1 ELSE 0
      BY <2>1 DEF Disturb
    <3>. QED BY <1>1, <3>1
  <2>. QED BY <1>0, <1>1, <1>4, <2>1, <2>2 DEF TriesOf
<1>10. CASE Rejected(c)
  <2>1. /\ pc[c] \in {"patch", "repatch"} /\ ~Allowed(c) /\ raised' = raised
        /\ disturbed' = disturbed
    BY <1>10 DEF Rejected, Sending, NoFault
  <2>2. Stale(c)
    BY <2>1, RejectedIsStale
  <2>3. CASE op(c) \in {"aclBucket", "defacl", "iamCh", "labelSet"}
    <3>1. Again(c)
      BY <1>10, <2>3 DEF Rejected
    <3>2. disturbed[c] >= tries[c]
      BY <1>4, <2>1, <2>2, <2>3 DEF TriesOf
    <3>3. CASE tries[c] = 3
      <4>1. pc'[c] = "failed" /\ tries' = tries
        BY <1>2, <3>1, <3>3 DEF Again, Goes
      <4>. QED BY <1>0, <1>1, <2>1, <2>3, <3>2, <3>3, <4>1 DEF TriesOf
    <3>4. CASE tries[c] # 3
      <4>1. tries'[c] = tries[c] + 1
        BY <1>2, <3>1, <3>4 DEF Again
      <4>2. pc'[c] = "read"
        <5>1. ~Blind(c)
          BY <2>3 DEF Blind
        <5>2. Goes(c, "read")
          BY <2>3, <3>1, <3>4, <5>1 DEF Again
        <5>. QED BY <1>2, <5>2 DEF Goes
      <4>. QED BY <1>0, <1>1, <2>1, <2>3, <3>2, <4>1, <4>2 DEF TriesOf
    <3>. QED BY <3>3, <3>4
  <2>4. CASE op(c) = "aclObject" /\ ~Gone(c) /\ pc[c] = "repatch" /\ inner[c] = 3
    <3>1. pc'[c] = "failed"
      BY <1>2, <1>10, <2>4 DEF Rejected, Goes
    <3>2. disturbed[c] >= 4 /\ tries'[c] = tries[c] /\ (tries[c] > 1 => disturbed[c] >= tries[c])
      BY <1>1, <1>4, <1>10, <2>1, <2>2, <2>4 DEF TriesOf, Rejected
    <3>. QED BY <1>0, <1>1, <2>1, <2>4, <3>1, <3>2 DEF TriesOf
  <2>6. CASE op(c) = "aclObject" /\ Gone(c)
    <3>1. Again(c)
      BY <1>10, <2>6 DEF Rejected
    <3>2. disturbed[c] >= inner[c] + tries[c]
      BY <1>4, <2>1, <2>2, <2>6 DEF TriesOf, Gone
    <3>3. CASE tries[c] = 3
      <4>1. pc'[c] = "failed" /\ tries' = tries
        BY <1>2, <3>1, <3>3 DEF Again, Goes
      <4>. QED BY <1>0, <1>1, <2>1, <2>6, <3>2, <3>3, <4>1 DEF TriesOf
    <3>4. CASE tries[c] # 3
      <4>1. tries'[c] = tries[c] + 1
        BY <1>2, <3>1, <3>4 DEF Again
      <4>2. pc'[c] = "change"
        <5>1. Goes(c, "change")
          BY <2>6, <3>1, <3>4 DEF Again, Blind
        <5>. QED BY <1>2, <5>1 DEF Goes
      <4>. QED BY <1>0, <1>1, <2>1, <2>6, <3>2, <4>1, <4>2 DEF TriesOf
    <3>. QED BY <3>3, <3>4
  <2>5. CASE op(c) = "aclObject" /\ ~Gone(c) /\ ~(pc[c] = "repatch" /\ inner[c] = 3)
    <3>1. /\ Goes(c, "refetch") /\ tries' = tries
          /\ inner' = [inner EXCEPT ![c] = IF pc[c] = "patch" THEN 1 ELSE @ + 1]
      BY <1>10, <2>5 DEF Rejected
    <3>2. pc'[c] = "refetch" /\ inner'[c] = IF pc[c] = "patch" THEN 1 ELSE inner[c] + 1
      BY <1>2, <3>1 DEF Goes
    <3>3. /\ disturbed[c] + 1 >= inner'[c] + tries[c]
          /\ tries[c] > 1 => disturbed[c] >= tries[c]
      BY <1>1, <1>4, <2>1, <2>2, <2>5, <3>2 DEF TriesOf
    <3>. QED BY <1>0, <1>1, <2>1, <2>5, <3>1, <3>2, <3>3 DEF TriesOf
  <2>. QED BY <1>3, <2>3, <2>4, <2>5, <2>6
<1>11. CASE BadRequest(c)
  BY <1>3, <1>11 DEF BadRequest, Refused
<1>12. ASSUME Fault(c) PROVE raised'[c]
  BY <1>12, TypeParts DEF Fault, HistoryOK
<1>13. CASE Error(c)
  BY <1>12, <1>13 DEF Error
<1>14. CASE Unanswered(c)
  <2>1. Commit(c) /\ Disturb({c} \cup Beside(c, part(c)))
    BY <1>14 DEF Unanswered
  <2>2. Goes(c, pc[c]) /\ UNCHANGED <<seen, tries, inner, raised>>
    BY <1>12, <1>14 DEF Unanswered
  <2>3. Bumped(c)
    BY <2>1, StoreBumps, TypeParts, OpsAndParts DEF Commit
  <2>4. pc'[c] = pc[c]
    BY <1>2, <2>2 DEF Goes
  <2>5. TriesAt(c)'
    BY <1>0, <1>1, <2>2, <2>3, <2>4, KeepsTries
  <2>. QED BY <1>0, <2>5 DEF TriesAt, Rereads
<1>. QED BY <1>5, <1>6, <1>7, <1>8, <1>9, <1>10, <1>11, <1>13, <1>14 DEF Work

LEMMA TriesNext ==
    ASSUME TypeOK, TypeOK', ReadingsInv, TriesInv, Next
    PROVE  TriesInv'
<1>1. ASSUME NEW d \in Clients PROVE TriesAt(d)'
  <2>0. TriesAt(d) /\ disturbed'[d] \in Nat /\ plan \in Plans
    BY TypeParts, TypePartsThen DEF TriesInv, TriesAt, HistoryOK
  <2>1. ASSUME NEW c \in Clients, Work(c) PROVE TriesAt(d)'
    <3>1. CASE c = d
      BY <2>0, <2>1, <3>1, OwnTries
    <3>2. CASE c # d
      <4>1. /\ pc'[d] = pc[d] /\ seen'[d] = seen[d] /\ plan' = plan
        BY <2>1, <3>2, WorkWorks, TypeParts DEF Works, ReadingsOK, ClientsOK
      <4>2. raised'[d] = raised[d] /\ inner'[d] = inner[d] /\ tries'[d] = tries[d]
        <5>1. /\ raised \in [Clients -> BOOLEAN]
              /\ inner \in [Clients -> 1..3] /\ tries \in [Clients -> 1..3]
          BY TypeParts DEF HistoryOK, ClientsOK
        <5>2. raised' = raised \/ Fault(c)
          BY <2>1 DEF Work, Begin, Read, Change, Refetch, Accepted, Rejected, BadRequest,
                      Error, Unanswered, NoFault
        <5>3. raised'[d] = raised[d]
          BY <3>2, <5>1, <5>2 DEF Fault
        <5>4. \/ UNCHANGED <<tries, inner>> \/ Again(c)
              \/ tries' = tries /\ inner' = [inner EXCEPT ![c] = IF pc[c] = "patch" THEN 1 ELSE @ + 1]
          <6>1. ASSUME Raise(c) PROVE UNCHANGED <<tries, inner>> \/ Again(c)
            BY <6>1 DEF Raise
          <6>2. CASE Rejected(c)
            <7>1. CASE op(c) \in {"aclBucket", "defacl", "iamCh", "labelSet", "labelCh", "setmeta"}
                       \/ Gone(c)
              BY <6>2, <7>1 DEF Rejected
            <7>2. CASE op(c) = "aclObject" /\ ~Gone(c) /\ pc[c] = "repatch" /\ inner[c] = 3
              BY <6>2, <7>2 DEF Rejected
            <7>3. CASE op(c) = "aclObject" /\ ~Gone(c) /\ ~(pc[c] = "repatch" /\ inner[c] = 3)
              BY <6>2, <7>3 DEF Rejected
            <7>4. CASE op(c) \in {"iamSet", "lock"}
              BY <6>2, <7>4 DEF Rejected
            <7>5. op(c) # "aclSet"
              BY <6>2 DEF Rejected, Allowed, Guarded
            <7>. QED BY <2>0, <7>1, <7>2, <7>3, <7>4, <7>5, OpsAndParts DEF Ops
          <6>. QED BY <2>1, <6>1, <6>2 DEF Work, Begin, Read, Change, Refetch, Accepted,
                                         BadRequest, Error, Unanswered
        <5>5. ASSUME Again(c) PROVE tries'[d] = tries[d] /\ inner'[d] = inner[d]
          BY <3>2, <5>1, <5>5 DEF Again
        <5>. QED BY <3>2, <5>1, <5>3, <5>4, <5>5
      <4>3. Bumped(d)
        <5>1. CASE UNCHANGED service /\ disturbed' = disturbed
          BY <5>1, QuietBumps DEF service
        <5>2. CASE Commit(c) /\ \E S : Beside(c, part(c)) \subseteq S /\ Disturb(S)
          <6>1. Container(part(d)) = Container(part(c)) => d \in Beside(c, part(c))
            BY <3>2 DEF Beside
          <6>2. part(c) \in Parts
            BY <2>0, OpsAndParts
          <6>. QED BY <5>2, <6>1, <6>2, StoreBumps DEF Commit
        <5>3. (UNCHANGED service /\ disturbed' = disturbed)
              \/ (Commit(c) /\ \E S : Beside(c, part(c)) \subseteq S /\ Disturb(S))
          <6>1. CASE Accepted(c)
            BY <6>1 DEF Accepted
          <6>2. CASE Unanswered(c)
            <7>1. /\ Commit(c) /\ Disturb({c} \cup Beside(c, part(c)))
                  /\ Beside(c, part(c)) \subseteq {c} \cup Beside(c, part(c))
              BY <6>2 DEF Unanswered
            <7>. QED BY <7>1
          <6>. QED BY <2>1, <6>1, <6>2 DEF Work, Begin, Read, Change, Refetch, Rejected,
                                           BadRequest, Error
        <5>. QED BY <5>1, <5>2, <5>3
      <4>. QED BY <2>0, <4>1, <4>2, <4>3, KeepsTries
    <3>. QED BY <3>1, <3>2
  <2>2. ASSUME Other \/ Overwrite PROVE TriesAt(d)'
    <3>1. UNCHANGED client /\ plan' = plan /\ raised' = raised
      BY <2>2, OthersKeep DEF Other, Overwrite
    <3>2. Bumped(d)
      <4>1. CASE Other
        <5>1. PICK p \in InUse :
                  /\ \E v, m : Store(p, v, m)
                  /\ Disturb({e \in Clients : Container(part(e)) = Container(p)})
          BY <4>1 DEF Other
        <5>2. p \in Parts
          BY <2>0, OpsAndParts DEF InUse
        <5>. QED BY <5>1, <5>2, StoreBumps
      <4>2. CASE Overwrite
        <5>1. /\ version' = [version EXCEPT !["object"] = @ + 1]
              /\ Disturb({e \in Clients : Container(part(e)) = "object"})
          BY <4>2 DEF Overwrite
        <5>2. /\ Container(part(d)) \in Containers /\ "object" \in Containers
              /\ version \in [Containers -> Nat] /\ disturbed \in [Clients -> Nat]
          BY <2>0, TypeParts, OpsAndParts, ContentsOf DEF ServiceOK, HistoryOK, Containers
        <5>3. disturbed'[d] = disturbed[d] + IF Container(part(d)) = "object" THEN 1 ELSE 0
          BY <5>1 DEF Disturb
        <5>. QED BY <5>1, <5>2, <5>3 DEF Bumped
      <4>. QED BY <2>2, <4>1, <4>2
    <3>. QED BY <2>0, <3>1, <3>2, KeepsTries DEF client
  <2>. QED BY <2>1, <2>2 DEF Next
<1>. QED BY <1>1 DEF TriesInv, TriesAt

\* No command has been disturbed, and none has tried again.
LEMMA TriesInit ==
    ASSUME Init
    PROVE  ReadingsInv /\ TriesInv
<1>1. /\ pc = [c \in Clients |-> "begin"] /\ tries = [c \in Clients |-> 1]
      /\ disturbed = [c \in Clients |-> 0]
  BY DEF Init
<1>2. \A c \in Clients : pc[c] = "begin" /\ tries[c] = 1 /\ disturbed[c] = 0
  BY <1>1
<1>3. TriesInv
  BY <1>2 DEF TriesInv, TriesOf
<1>. QED BY <1>3, EffectsInit DEF EffectsInv

LEMMA TriesStutter ==
    ASSUME ReadingsInv, TriesInv, UNCHANGED vars
    PROVE  ReadingsInv' /\ TriesInv'
<1>1. UNCHANGED <<value, version, plan, pc, seen, listed, inner, tries, raised, disturbed>>
  BY DEF vars, service, client
<1>2. ReadingsInv'
  BY <1>1 DEF ReadingsInv, Reliable, part, op
<1>3. \A c \in Clients :
        /\ TriesOf(c)' <=> TriesOf(c)
        /\ NoAcl(c)' <=> NoAcl(c)
        /\ Misplaced(c)' <=> Misplaced(c)
        /\ op(c)' = op(c)
  BY <1>1 DEF TriesOf, Stale, NoAcl, Misplaced, part, op, change
<1>4. TriesInv'
  BY <1>1, <1>3 DEF TriesInv, Rereads
<1>. QED BY <1>2, <1>4

\* A command that reads again after a rejected request fails only when
\* others have changed its bucket or object three times while it ran, or when
\* it may not read the ACL it is to change, or is to make WRITER a default.
THEOREM FailsAfterThreeTriesHolds ==
    Spec => []FailsAfterThreeTries
<1>1. Init => ReadingsInv /\ TriesInv
  BY TriesInit
<1>2. TypeOK /\ TypeOK' /\ ReadingsInv /\ TriesInv /\ [Next]_vars => ReadingsInv' /\ TriesInv'
  BY ReadingsNext, TriesNext, TriesStutter
<1>3. TriesInv => FailsAfterThreeTries
  BY DEF TriesInv, FailsAfterThreeTries
<1>. QED BY <1>1, <1>2, <1>3, TypesHold, PTL DEF Spec

=============================================================================
