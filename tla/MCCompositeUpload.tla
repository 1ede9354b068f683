------------------------- MODULE MCCompositeUpload -------------------------
(* Instances of CompositeUpload for TLC: two parts, two contents.          *)
EXTENDS CompositeUpload

CONSTANTS k1, k2

TwoParts == {0, 1}
TwoContents == {"a", "b"}
=============================================================================
