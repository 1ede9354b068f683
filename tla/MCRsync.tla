------------------------------- MODULE MCRsync -------------------------------
(* Instances of Rsync for TLC: a directory "d" beside the name "d@", whose  *)
(* order differs between characters and encodings, and temporary files.     *)
EXTENDS Rsync

InDir == <<Letter, Slash, Letter>>
AtName == <<Letter, At>>
Odd == <<Letter, Backslash>>

Plain == {InDir, AtName}
PlainNames == Plain \cup {Temp(n) : n \in Plain}
OddPlain == {AtName, Odd}
OddNames == OddPlain \cup {Temp(n) : n \in OddPlain}

Item(d, t) == [data |-> d, mtime |-> t]
SmallItems == {Item(1, 1), Item(2, 2), Item(3, 2), Item(2, NoTime)}
OneItem == {Item(1, 1)}

\* Everything about one name, presence of the other.
Functions(names, items) == UNION {[N -> items] : N \in SUBSET names}
PlainInitials ==
    {f \in Functions(Plain, SmallItems) :
         AtName \in DOMAIN f => f[AtName] = Item(1, 1)}
OddInitials == Functions(OddPlain, OneItem)

Flags(dir, c, d, u, i) == [dir |-> dir, c |-> c, d |-> d, u |-> u, i |-> i]
SomeOptions ==
    {Flags(dir, c, d, FALSE, FALSE) : dir \in {"up", "down", "cloud"},
                                      c \in BOOLEAN, d \in BOOLEAN}
    \cup {Flags(dir, FALSE, TRUE, TRUE, FALSE) : dir \in {"up", "down"}}
    \cup {Flags("cloud", FALSE, FALSE, FALSE, TRUE)}
DeleteUp == {Flags("up", FALSE, TRUE, FALSE, FALSE)}
=============================================================================
