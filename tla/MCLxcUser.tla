----------------------------- MODULE MCLxcUser -----------------------------
(* Instances of LxcUser for TLC; the .cfg files choose the runs and faults. *)
EXTENDS LxcUser, TLC

\* The runs of lxcuser are interchangeable.
Symmetry == Permutations(Procs)
=============================================================================
