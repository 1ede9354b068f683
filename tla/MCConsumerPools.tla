-------------------------- MODULE MCConsumerPools --------------------------
(* A call tree of three levels for TLC: three calls need the pool of the   *)
(* middle level at once, and one of them may end while a call of the last  *)
(* level waits for its pool.                                               *)
EXTENDS ConsumerPools

DeepCalls == {"root", "a", "b", "c", "aa", "bb"}
DeepParent == [c \in DeepCalls \ {"root"} |->
                 CASE c = "aa" -> "a" [] c = "bb" -> "b" [] OTHER -> "root"]
DeepLevel == [c \in DeepCalls |->
                CASE c = "root" -> 0 [] c \in {"aa", "bb"} -> 2 [] OTHER -> 1]
=============================================================================
