--------------------------- MODULE MCObjectDownload ---------------------------
(* Instances of ObjectDownload for TLC: objects of a few bytes, so that    *)
(* three components may leave the last one empty.                          *)
EXTENDS ObjectDownload

TwoGenerations == <<4, 3>>

\* A stream, two components, which is the least, and one per byte but no more
\* than three.
SomeSettings ==
    {[size |-> 1, max |-> 1], [size |-> 8, max |-> 3], [size |-> 1, max |-> 3]}
=============================================================================
