---------------------------- MODULE MCDebArchive ----------------------------
(* Instance of DebArchive for TLC. *)
EXTENDS DebArchive, TLC

\* A .changes file names the .dsc and a tarball, the .dsc names the tarball.
MCListed == [f \in Names |-> CASE f = "changes" -> <<"dsc", "tar">>
                               [] f = "dsc" -> <<"tar">>
                               [] OTHER -> <<>>]

Job(m, f, n, a) == [mode |-> m, force |-> f, preserve |-> n, args |-> a]
MCJobs == {Job("copy", FALSE, TRUE, <<"dsc">>), Job("copy", TRUE, FALSE, <<"changes">>),
           Job("move", FALSE, TRUE, <<"dsc", "changes">>), Job("move", TRUE, TRUE, <<"changes">>),
           Job("remove", FALSE, TRUE, <<"changes", "dsc">>), Job("remove", FALSE, TRUE, <<"dsc">>),
           Job("release", FALSE, TRUE, <<>>)}

MCCut == [t \in Texts |-> CASE t = "debian: sid" -> "debian"
                             [] t = ": none" -> ""
                             [] OTHER -> t]
\* A value that is kept, one that is cut, one of which nothing is left, fields
\* that are not given, and one that deb-release does not know.
MCSayings == {[k \in Fields |-> CASE k = "Archive" -> "stable"
                                   [] k = "Origin" -> "debian: sid"
                                   [] k = "Label" -> ": none"
                                   [] k = "Other" -> "debian"
                                   [] OTHER -> ""]}

Symmetry == Permutations(Procs)
=============================================================================
