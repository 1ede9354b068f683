---------------------------- MODULE MCDaisyChain ----------------------------
(* Instances of DaisyChain for TLC: an object of seven bytes in three ranges. *)
EXTENDS DaisyChain

\* Uploads that take whole chunks seek anywhere; others only read.
WholeOrStraight == {[amounts |-> {MaxWrite}, seeks |-> TRUE],
                    [amounts |-> {1, 2}, seeks |-> FALSE]}

=============================================================================
