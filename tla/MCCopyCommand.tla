---------------------------- MODULE MCCopyCommand ----------------------------
(* Instances of CopyCommand for TLC: two sources with two destinations or   *)
(* one, one source with two, and the flags.                                 *)
EXTENDS CopyCommand, TLC

CONSTANTS s1, s2, d1, d2

TwoSources == {s1, s2}
TwoDests == {d1, d2}

To(s, d) == [src |-> s, dst |-> d]
Apart == <<To(s1, d1), To(s2, d2)>>
Together == <<To(s1, d1), To(s2, d1)>>
Twice == <<To(s1, d1), To(s1, d2)>>

Cp(jobs, to, mv, n, l, c, m) ==
    [jobs |-> jobs, to |-> to, mv |-> mv, noClobber |-> n, manifest |-> l,
     keepGoing |-> c, parallel |-> m]

\* Apart: with and without -m and a manifest.  Together: -n or -m.
SomeCommands ==
    {Cp(Apart, to, mv, FALSE, l, ~m, m) : to \in {"cloud", "file"}, mv \in BOOLEAN,
                                         l \in BOOLEAN, m \in BOOLEAN}
    \cup {Cp(Together, to, mv, n, FALSE, FALSE, m) :
              to \in {"cloud", "file"}, mv \in BOOLEAN, n \in BOOLEAN, m \in BOOLEAN}
    \cup {Cp(Twice, to, mv, FALSE, FALSE, c, ~c) : to \in {"cloud", "file"},
              mv \in BOOLEAN, c \in BOOLEAN}
    \cup {Cp(Apart, "cloud", TRUE, TRUE, TRUE, FALSE, FALSE)}

\* A destination may be there before.
SomeInitials ==
    {[source |-> (s1 :> 1 @@ s2 :> 2), dest |-> (d1 :> c @@ d2 :> 0)] : c \in {0, 3}}
=============================================================================
