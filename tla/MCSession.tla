----------------------------- MODULE MCSession -----------------------------
(* Instances of Session for TLC; the .cfg files choose sessions and faults. *)
EXTENDS Session, TLC

\* Sessions that run the same program with the same options.
Symmetry == Permutations(Sessions)

\* What a fresh debootstrap leaves empty: everything but /dev and /root.
DistroSolid == {"dev", "root"}
\* A distro in which every mount point but /sys, /tmp and /proc has content.
MostlySolid == DistroDirs \ {"sys", "tmp", "proc"}
\* Every setup step may fail.
AnyFault == Mounts \cup {"unshare", "fork"}
=============================================================================
