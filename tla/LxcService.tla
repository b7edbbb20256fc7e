----------------------------- MODULE LxcService -----------------------------
(***************************************************************************)
(* What lxcuser promises of a container it shares among its runs: the      *)
(* first user brings the container up, the last one takes it down, and it  *)
(* stays up in between.                                                    *)
(***************************************************************************)
CONSTANT Users

VARIABLES
    active,     \* the users of the container
    up          \* is the container started?

vars == <<active, up>>

Init ==
    /\ active = {}
    /\ up = FALSE

\* The first user starts the container.
First(u) ==
    /\ active = {}
    /\ ~up
    /\ active' = {u}
    /\ up' = TRUE

\* A later user finds it started.
Join(u) ==
    /\ active # {}
    /\ up
    /\ u \notin active
    /\ active' = active \cup {u}
    /\ UNCHANGED up

Leave(u) ==
    /\ active \ {u} # {}
    /\ u \in active
    /\ active' = active \ {u}
    /\ UNCHANGED up

\* The last user stops the container.
Last(u) ==
    /\ active = {u}
    /\ active' = {}
    /\ up' = FALSE

Next == \E u \in Users : First(u) \/ Join(u) \/ Leave(u) \/ Last(u)

Spec == Init /\ [][Next]_vars
=============================================================================
