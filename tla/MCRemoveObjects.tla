--------------------------- MODULE MCRemoveObjects ---------------------------
(* Instances of RemoveObjects for TLC: two buckets, a directory whose name   *)
(* begins another's, and argument lists that overlap or name nothing.        *)
EXTENDS RemoveObjects

CONSTANTS b1, b2

TwoBuckets == {b1, b2}
Dir == <<1>>
Longer == <<1, 2>>
TwoDirs == {Dir, Longer}

Obj(b, d, f) == [bucket |-> b, dir |-> d, folder |-> f]
InFirst == {Obj(b1, Dir, FALSE), Obj(b1, Dir, TRUE), Obj(b1, Longer, FALSE),
            Obj(b1, Longer, TRUE)}
InSecond == {Obj(b2, Dir, FALSE)}

\* Any contents of the first bucket, and a second one that is full, empty or
\* missing.
AnyStore ==
    {[buckets |-> bs, objects |-> first \cup IF full THEN InSecond ELSE {}] :
        bs \in {TwoBuckets}, first \in SUBSET InFirst, full \in BOOLEAN}
    \cup {[buckets |-> {b1}, objects |-> first] : first \in SUBSET InFirst}

Url(b, d) == [bucket |-> b, dir |-> d]
ArgumentLists == {<<Url(b1, NoDir)>>,
                  <<Url(b1, NoDir), Url(b2, NoDir)>>,
                  <<Url(b1, Dir), Url(b1, Longer)>>,
                  <<Url(b1, Dir), Url(b1, Dir)>>,
                  <<Url(b2, NoDir), Url(b1, Dir)>>,
                  <<Url(b2, NoDir), Url(b1, Dir), Url(b1, NoDir)>>}

Rm(us, r, f, p) == [urls |-> us, recursive |-> r, force |-> f, parallel |-> p]
AllCommands ==
    {Rm(us, TRUE, f, p) : us \in ArgumentLists, f \in BOOLEAN, p \in BOOLEAN}
    \cup {Rm(<<Url(b1, Dir), Url(b1, Longer)>>, FALSE, f, f) : f \in BOOLEAN}
ValidCommands == {c \in AllCommands : c.parallel => c.force}
=============================================================================
