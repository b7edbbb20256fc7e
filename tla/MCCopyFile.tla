----------------------------- MODULE MCCopyFile -----------------------------
(* Instances of CopyFile for TLC; the .cfg files choose the list and faults. *)
EXTENDS CopyFile, TLC

\* The copiers are interchangeable.
Symmetry == Permutations(Copiers)
=============================================================================
