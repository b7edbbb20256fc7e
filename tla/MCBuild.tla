------------------------------ MODULE MCBuild ------------------------------
(* Instance of Build for TLC. *)
EXTENDS Build, TLC

\* A library and a program from .dsc files, one with a stray comma in its
\* Build-Depends, a source rpm, and something else.
MCKind == [p \in Packages |-> CASE p = "rpm" -> "rpm" [] p = "tar" -> "other" [] OTHER -> "dsc"]

MCLists == {<<>>, <<"lib">>, <<"lib", "app">>, <<"app", "lib">>, <<"app", "comma">>,
            <<"app", "rpm">>, <<"tar">>}
=============================================================================
