----------------------------- MODULE ApplyCall -----------------------------
(***************************************************************************)
(* What one call of Command.Apply promises its caller, whatever runs it    *)
(* (the current thread, a pool of threads, pools of processes): it accepts *)
(* arguments from an iterator until the iterator stops or fails, calls     *)
(* func exactly once on each accepted argument, in any order, and gives    *)
(* the caller an answer only when the iterator is closed and every         *)
(* accepted argument has been dealt with.                                  *)
(***************************************************************************)
EXTENDS Naturals

CONSTANT MaxArgs    \* how many arguments the iterator yields at most, in Nat

VARIABLES
    accepted,       \* arguments 1..accepted have been taken from the iterator
    open,           \* the iterator may yield more
    performed,      \* the arguments func has been called on
    outcome         \* "pending" until the call answers its caller

vars == <<accepted, open, performed, outcome>>

Outcomes == {"pending", "returned", "raised"}

Init ==
    /\ accepted = 0
    /\ open = TRUE
    /\ performed = {}
    /\ outcome = "pending"

Accept ==
    /\ open
    /\ accepted < MaxArgs
    /\ accepted' = accepted + 1
    /\ UNCHANGED <<open, performed, outcome>>

Close ==
    /\ open
    /\ open' = FALSE
    /\ UNCHANGED <<accepted, performed, outcome>>

Perform(i) ==
    /\ i \notin performed
    /\ performed' = performed \union {i}
    /\ UNCHANGED <<accepted, open, outcome>>

Answer ==
    /\ outcome = "pending"
    /\ ~open
    /\ performed = 1..accepted
    /\ outcome' \in {"returned", "raised"}
    /\ UNCHANGED <<accepted, open, performed>>

Next ==
    \/ Accept
    \/ Close
    \/ \E i \in 1..accepted : Perform(i)
    \/ Answer

Spec == Init /\ [][Next]_vars
=============================================================================
