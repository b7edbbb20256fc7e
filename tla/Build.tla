------------------------------- MODULE Build -------------------------------
(***************************************************************************)
(* Runs of buildit that build Debian packages in one distro: the loop of   *)
(* main() that accepts and copies the source packages, and pid 1 in the    *)
(* chroot, which updates the distro and then builds the packages one after *)
(* the other.  Each build is a process of its own with a tmpfs on /tmp, in *)
(* which it runs dpkg-source, mk-build-deps, dpkg-buildpackage and apt-get *)
(* purge and copies out what the .changes files name.  The mounts and the  *)
(* unwinding around this are Session, a single copy is CopyFile.           *)
(*                                                                         *)
(* Any fork() may fail.  fork_handler() then waits for a child it does not *)
(* have and judges by a status that nobody has written: it throws a code,  *)
(* or returns as if a child had done the work.                             *)
(*                                                                         *)
(* External: the commands.  Any of them may fail or be killed.  A package  *)
(* is built from its sources with its dependencies installed, which leaves *)
(* its binaries and a .changes file; mk-build-deps installs one package of *)
(* dependencies per source package into the distro, which all builds       *)
(* share; apt-get does not purge what is not installed.                    *)
(***************************************************************************)
EXTENDS Integers, Sequences

CONSTANTS
    Builds,     \* the runs of buildit
    Packages,   \* the packages a command line may name
    Kind,       \* of each: "dsc", "rpm" (a .src.rpm), or "other"
    Needs,      \* those whose dependencies are not part of the distro
    BadDeps,    \* those with an empty item in Build-Depends
    Lists,      \* the lists of packages a run may be given
    Updates,    \* number of update tasks
    Codes,      \* exit codes of commands that fail, and of what fork() leaves
    MaxFaults,  \* bound: calls and commands that fail for outside reasons
    Killable,   \* runs of which one process may be killed
    None        \* no exit code yet

ASSUME PackagesAssumption == Needs \subseteq Packages /\ BadDeps \subseteq Packages
ASSUME KindAssumption     == Kind \in [Packages -> {"dsc", "rpm", "other"}]
ASSUME ListsAssumption    == Lists \subseteq Seq(Packages)
ASSUME CodesAssumption    == Codes \subseteq 1..255
ASSUME NoneAssumption     == None \notin 0..255 /\ None \notin {"success", "failed"}
ASSUME BoundsAssumption   == Updates \in Nat /\ MaxFaults \in Nat /\ Killable \subseteq Builds

VARIABLES
    list,       \* the packages of each run
    depends,    \* its option --depends
    pc,         \* where main(), pid 1 or the build is
    i,          \* the package or task it is at
    tmp,        \* what is in /tmp/buildd
    left,       \* entries of it that the listing has still to return
    changes,    \* has the listing returned a .changes file?
    report,     \* what was printed for each package
    code,       \* exit code of the run
    source,     \* packages in the source directory, which the runs share
    results,    \* files in the directory the runs were started from
    installed,  \* packages whose dependencies are installed in the distro
    failed,     \* faults so far
    killed,     \* runs of which a process was killed
    unlisted,   \* runs that could not list /tmp/buildd
    unforked    \* runs in which a fork() failed and nobody noticed

shared == <<source, results, installed>>
counts == <<failed, killed, unlisted, unforked>>
work   == <<tmp, left, changes>>
vars   == <<list, depends, pc, i, work, report, code, shared, counts>>

Commands == {"extract", "depends", "build", "purge"}
InBuild  == Commands \cup {"opendir", "get"}
InPid1   == InBuild \cup {"task", "next", "mount"}
AtItem   == InBuild \cup {"mount"}    \* pid 1 or a build is at a package

Init ==
    /\ list \in [Builds -> Lists]
    /\ depends \in [Builds -> BOOLEAN]
    /\ pc = [b \in Builds |-> "copy"]
    /\ i = [b \in Builds |-> 1]
    /\ tmp = [b \in Builds |-> {}]
    /\ left = [b \in Builds |-> {}]
    /\ changes = [b \in Builds |-> FALSE]
    /\ report = [b \in Builds |-> [k \in DOMAIN list[b] |-> None]]
    /\ code = [b \in Builds |-> None]
    /\ source = {}
    /\ results = {}
    /\ installed = {}
    /\ failed = 0
    /\ killed = {}
    /\ unlisted = {}
    /\ unforked = {}

-----------------------------------------------------------------------------
Pkg(b)      == list[b][i[b]]
Goto(b, to) == pc' = [pc EXCEPT ![b] = to]

\* The next package, or the next update task.
Advance(b, at) ==
    /\ Goto(b, at)
    /\ i' = [i EXCEPT ![b] = @ + 1]
    /\ UNCHANGED code

\* The run is over: main() returns this code, or pid 1 does and main() after it.
Exit(b, c) ==
    /\ Goto(b, "ended")
    /\ code' = [code EXCEPT ![b] = c]
    /\ UNCHANGED i

Fault ==
    /\ failed < MaxFaults
    /\ failed' = failed + 1
    /\ UNCHANGED <<killed, unlisted, unforked>>

-----------------------------------------------------------------------------
(* main(): the source packages *)

Compared     == 7   \* characters at the end of a name that are compared
SuffixLength == 8   \* characters of .src.rpm

\* Mutant of IsSrcRpm: as many characters are compared as the suffix has.
IsSrcRpmEight(p) == Kind[p] = "rpm"

\* The end of a name is .src.rpm only if all of that is compared.
IsSrcRpm(p) == Kind[p] = "rpm" /\ Compared = SuffixLength

AtPackage(b) == pc[b] = "copy" /\ i[b] <= Len(list[b])

\* A source package is copied to the source directory.
Accept(b) ==
    /\ AtPackage(b)
    /\ IsSrcRpm(Pkg(b)) \/ Kind[Pkg(b)] = "dsc"
    /\ source' = source \cup {Pkg(b)}
    /\ Advance(b, "copy")
    /\ UNCHANGED <<list, depends, work, report, results, installed, counts>>

AcceptFails(b) ==
    /\ AtPackage(b)
    /\ IsSrcRpm(Pkg(b)) \/ Kind[Pkg(b)] = "dsc"
    /\ Fault
    /\ Exit(b, 4)
    /\ UNCHANGED <<list, depends, work, report, shared>>

\* bad_pkg: neither kind.
Reject(b) ==
    /\ AtPackage(b)
    /\ ~IsSrcRpm(Pkg(b)) /\ Kind[Pkg(b)] # "dsc"
    /\ Exit(b, 4)
    /\ UNCHANGED <<list, depends, work, report, shared, counts>>

\* The session is set up, and pid 1 begins with the update tasks.
Pid1(b) ==
    /\ pc[b] = "copy"
    /\ i[b] > Len(list[b])
    /\ Goto(b, "task")
    /\ i' = [i EXCEPT ![b] = 1]
    /\ UNCHANGED <<list, depends, work, report, code, shared, counts>>

-----------------------------------------------------------------------------
(* pid 1: the update tasks, and the loop over the packages *)

Task(b) ==
    /\ pc[b] = "task"
    /\ i[b] <= Updates
    /\ Advance(b, "task")
    /\ UNCHANGED <<list, depends, work, report, shared, counts>>

TasksDone(b) ==
    /\ pc[b] = "task"
    /\ i[b] > Updates
    /\ Goto(b, "next")
    /\ i' = [i EXCEPT ![b] = 1]
    /\ UNCHANGED <<list, depends, work, report, code, shared, counts>>

\* The next package; one that is not a .dsc is passed over.
NextPackage(b) ==
    /\ pc[b] = "next"
    /\ IF i[b] > Len(list[b]) THEN Exit(b, 0)
       ELSE IF Kind[Pkg(b)] = "dsc" THEN Goto(b, "mount") /\ UNCHANGED <<i, code>>
       ELSE Advance(b, "next")
    /\ UNCHANGED <<list, depends, work, report, shared, counts>>

\* Mutant of Mount: the tmpfs of the package before is used again.
MountStale(b) ==
    /\ pc[b] = "mount"
    /\ IF Pkg(b) \in BadDeps THEN Exit(b, 1)
                             ELSE Goto(b, "extract") /\ UNCHANGED <<i, code>>
    /\ UNCHANGED <<list, depends, work, report, shared, counts>>

\* debian(): a new tmpfs, and the .dsc is read before the fork.  strip() of an
\* empty item throws, which ends pid 1.
Mount(b) ==
    /\ pc[b] = "mount"
    /\ tmp' = [tmp EXCEPT ![b] = {}]
    /\ IF Pkg(b) \in BadDeps THEN Exit(b, 1)
                             ELSE Goto(b, "extract") /\ UNCHANGED <<i, code>>
    /\ UNCHANGED <<list, depends, left, changes, report, shared, counts>>

\* bad_mount is caught in pid 1: exit(-1).  task() mounts as debian() does.
MountFails(b) ==
    /\ pc[b] = "mount" \/ (pc[b] = "task" /\ i[b] <= Updates)
    /\ Fault
    /\ Exit(b, 255)
    /\ UNCHANGED <<list, depends, work, report, shared>>

-----------------------------------------------------------------------------
(* The process that debian() forks *)

\* The command after this one; two of them only run with --depends.
After(b) ==
    CASE pc[b] = "extract" -> IF depends[b] THEN "depends" ELSE "build"
      [] pc[b] = "depends" -> "build"
      [] pc[b] = "build"   -> IF depends[b] THEN "purge" ELSE "opendir"
      [] pc[b] = "purge"   -> "opendir"

\* A command does its work.
Command(b, at) ==
    /\ pc[b] = at
    /\ Goto(b, After(b))
    /\ UNCHANGED <<list, depends, i, left, changes, report, code, source, results, counts>>

\* dpkg-source -x
Extract(b) ==
    /\ Command(b, "extract")
    /\ Pkg(b) \in source
    /\ tmp' = [tmp EXCEPT ![b] = @ \cup {<<"source", Pkg(b)>>}]
    /\ UNCHANGED installed

\* mk-build-deps -i, which reads the control file of the sources
Depends(b) ==
    /\ Command(b, "depends")
    /\ <<"source", Pkg(b)>> \in tmp[b]
    /\ installed' = installed \cup {Pkg(b)}
    /\ UNCHANGED tmp

Buildable(b) == <<"source", Pkg(b)>> \in tmp[b] /\ (Pkg(b) \in Needs => Pkg(b) \in installed)

\* dpkg-buildpackage
BuildPackage(b) ==
    /\ Command(b, "build")
    /\ Buildable(b)
    /\ tmp' = [tmp EXCEPT ![b] = @ \cup {<<"deb", Pkg(b)>>, <<"changes", Pkg(b)>>}]
    /\ UNCHANGED installed

\* Mutant of Purge: what other builds have installed is purged too.
PurgeAll(b) ==
    /\ Command(b, "purge")
    /\ Pkg(b) \in installed
    /\ installed' = {}
    /\ UNCHANGED tmp

\* Mutant of Purge: nothing is purged.
PurgeNothing(b) ==
    /\ Command(b, "purge")
    /\ Pkg(b) \in installed
    /\ UNCHANGED <<tmp, installed>>

\* apt-get purge --auto-remove of the package of dependencies
Purge(b) ==
    /\ Command(b, "purge")
    /\ Pkg(b) \in installed
    /\ installed' = installed \ {Pkg(b)}
    /\ UNCHANGED tmp

\* What cannot work.
Hopeless(b) ==
    \/ pc[b] = "extract" /\ Pkg(b) \notin source
    \/ pc[b] = "depends" /\ <<"source", Pkg(b)>> \notin tmp[b]
    \/ pc[b] = "build" /\ ~Buildable(b)
    \/ pc[b] = "purge" /\ Pkg(b) \notin installed

\* Mutant of CommandFails: the status of waitpid() is thrown as it is.
CommandFailsRaw(b) ==
    /\ pc[b] \in Commands \/ (pc[b] = "task" /\ i[b] <= Updates)
    /\ Fault \/ (Hopeless(b) /\ UNCHANGED counts)
    /\ \E c \in Codes : Exit(b, 256 * c)
    /\ UNCHANGED <<list, depends, work, report, shared>>

\* A command exits with a code, or its fork() fails and leaves one, which
\* fork_handler() throws: the build exits with it, pid 1 does, and main() does.
CommandFails(b) ==
    /\ pc[b] \in Commands \/ (pc[b] = "task" /\ i[b] <= Updates)
    /\ Fault \/ (Hopeless(b) /\ UNCHANGED counts)
    /\ \E c \in Codes : Exit(b, c)
    /\ UNCHANGED <<list, depends, work, report, shared>>

\* fork() for pid 1 or for a build fails, and what is thrown ends the run.
ForkThrows(b) ==
    /\ \/ pc[b] = "copy" /\ i[b] > Len(list[b])
       \/ pc[b] = "mount" /\ Pkg(b) \notin BadDeps
    /\ Fault
    /\ \E c \in Codes : Exit(b, c)
    /\ UNCHANGED <<list, depends, work, report, shared>>

\* A fork() fails and the status happens to be 0: a command or a task is taken
\* for done, pid 1 goes on to the next package, or main() returns 0.
NotForked(b) ==
    /\ failed < MaxFaults
    /\ failed' = failed + 1
    /\ unforked' = unforked \cup {b}
    /\ \/ pc[b] \in Commands /\ Goto(b, After(b)) /\ UNCHANGED <<i, code>>
       \/ pc[b] = "task" /\ i[b] <= Updates /\ Advance(b, "task")
       \/ pc[b] = "mount" /\ Pkg(b) \notin BadDeps /\ Advance(b, "next")
       \/ pc[b] = "copy" /\ i[b] > Len(list[b]) /\ Exit(b, 0)
    /\ UNCHANGED <<list, depends, work, report, shared, killed, unlisted>>

\* A process of the run is killed, for which fork_handler() sees the status 0.
Killed(b) ==
    /\ b \in Killable \ killed
    /\ killed' = killed \cup {b}
    /\ UNCHANGED <<failed, unlisted, unforked>>

\* A command, which may have done its work on the distro or not.
CommandKilled(b) ==
    /\ pc[b] \in Commands
    /\ Killed(b)
    /\ Goto(b, After(b))
    /\ installed' \in {installed}
         \cup (IF pc[b] = "depends" /\ ~Hopeless(b) THEN {installed \cup {Pkg(b)}} ELSE {})
         \cup (IF pc[b] = "purge" THEN {installed \ {Pkg(b)}} ELSE {})
    /\ UNCHANGED <<list, depends, i, work, report, code, source, results>>

TaskKilled(b) ==
    /\ pc[b] = "task"
    /\ i[b] <= Updates
    /\ Killed(b)
    /\ Advance(b, "task")
    /\ UNCHANGED <<list, depends, work, report, shared>>

\* The build: pid 1 goes on with the next package.
BuildKilled(b) ==
    /\ pc[b] \in InBuild
    /\ Killed(b)
    /\ Advance(b, "next")
    /\ UNCHANGED <<list, depends, work, report, shared>>

\* pid 1, and all processes of its name space with it.
Pid1Killed(b) ==
    /\ pc[b] \in InPid1
    /\ Killed(b)
    /\ Exit(b, 0)
    /\ UNCHANGED <<list, depends, work, report, shared>>

\* dir results("..")
OpenDir(b) ==
    /\ pc[b] = "opendir"
    /\ Goto(b, "get")
    /\ changes' = [changes EXCEPT ![b] = FALSE]
    /\ left' = [left EXCEPT ![b] = tmp[b]]
    /\ UNCHANGED <<list, depends, i, tmp, report, code, shared, counts>>

\* A directory that cannot be opened lists nothing.
OpenDirFails(b) ==
    /\ pc[b] = "opendir"
    /\ failed < MaxFaults
    /\ failed' = failed + 1
    /\ unlisted' = unlisted \cup {b}
    /\ Goto(b, "get")
    /\ changes' = [changes EXCEPT ![b] = FALSE]
    /\ left' = [left EXCEPT ![b] = {}]
    /\ UNCHANGED <<list, depends, i, tmp, report, code, shared, killed, unforked>>

\* results.get() and, for a .changes file, copy_dsc() of it and what it names.
Get(b) ==
    /\ pc[b] = "get"
    /\ \E e \in left[b] :
         /\ left' = [left EXCEPT ![b] = @ \ {e}]
         /\ IF e[1] = "changes"
              THEN /\ changes' = [changes EXCEPT ![b] = TRUE]
                   /\ results' = results \cup {<<"deb", e[2]>>, e}
              ELSE UNCHANGED <<changes, results>>
    /\ UNCHANGED <<list, depends, pc, i, tmp, report, code, source, installed, counts>>

\* copy_dsc() fails: throw -1.
CopyOutFails(b) ==
    /\ pc[b] = "get"
    /\ \E e \in left[b] : e[1] = "changes"
    /\ Fault
    /\ Exit(b, 255)
    /\ UNCHANGED <<list, depends, work, report, shared>>

\* Mutant of Report: pid 1 stays at the package.
ReportAgain(b) ==
    /\ pc[b] = "get"
    /\ left[b] = {}
    /\ report' = [report EXCEPT ![b][i[b]] = IF changes[b] THEN "success" ELSE "failed"]
    /\ Goto(b, "next")
    /\ UNCHANGED <<list, depends, i, work, code, shared, counts>>

\* The package is reported, the build exits with 0, and pid 1 goes on.  A success
\* goes to the standard output of the build, which is /dev/null without --verbose.
Report(b) ==
    /\ pc[b] = "get"
    /\ left[b] = {}
    /\ report' = [report EXCEPT ![b][i[b]] = IF changes[b] THEN "success" ELSE "failed"]
    /\ Advance(b, "next")
    /\ UNCHANGED <<list, depends, work, shared, counts>>

-----------------------------------------------------------------------------
Step(b) ==
    \/ Accept(b) \/ Reject(b) \/ Pid1(b)
    \/ Task(b) \/ TasksDone(b) \/ NextPackage(b) \/ Mount(b)
    \/ Extract(b) \/ Depends(b) \/ BuildPackage(b) \/ Purge(b) \/ CommandFails(b)
    \/ OpenDir(b) \/ Get(b) \/ Report(b)

Disturbed(b) ==
    \/ AcceptFails(b) \/ MountFails(b) \/ OpenDirFails(b) \/ CopyOutFails(b)
    \/ ForkThrows(b) \/ NotForked(b)
    \/ CommandKilled(b) \/ TaskKilled(b) \/ BuildKilled(b) \/ Pid1Killed(b)

Over == \A b \in Builds : pc[b] = "ended"
Finished == Over /\ UNCHANGED vars

Next == (\E b \in Builds : Step(b) \/ Disturbed(b)) \/ Finished

Spec == Init /\ [][Next]_vars

\* The scheduler runs every process, and every command ends some day.
Fairness == \A b \in Builds : WF_vars(Step(b))
FairSpec == Spec /\ Fairness

-----------------------------------------------------------------------------
(* Properties *)

Entries == {"source", "deb", "changes"} \X Packages

\* The variables have their types; a run at a package is within its list.
TypeOK ==
    /\ list \in [Builds -> Lists]
    /\ depends \in [Builds -> BOOLEAN]
    /\ pc \in [Builds -> InPid1 \cup {"copy", "ended"}]
    /\ i \in [Builds -> Nat \ {0}]
    /\ tmp \in [Builds -> SUBSET Entries]
    /\ left \in [Builds -> SUBSET Entries]
    /\ changes \in [Builds -> BOOLEAN]
    /\ \A b \in Builds : report[b] \in [DOMAIN list[b] -> {None, "success", "failed"}]
    /\ code \in [Builds -> 0..255 \cup {None}]
    /\ source \in SUBSET Packages
    /\ results \in SUBSET Entries
    /\ installed \in SUBSET Packages
    /\ failed \in 0..MaxFaults
    /\ killed \in SUBSET Builds
    /\ unlisted \in SUBSET Builds
    /\ unforked \in SUBSET Builds
    /\ \A b \in Builds : pc[b] \in AtItem => i[b] \in DOMAIN list[b]

\* A package that is reported a success has its own binaries and .changes file in
\* the results: never those of another package of the run, whatever was killed
\* and whatever could not be listed.
SuccessHasResults ==
    \A b \in Builds : \A k \in DOMAIN list[b] :
      report[b][k] = "success"
        => {<<"deb", list[b][k]>>, <<"changes", list[b][k]>>} \subseteq results

\* A run that exits with 0, of which no process was killed and no fork() failed
\* unnoticed, has reported on every package it was given, and all as a success
\* unless it could not list the results: nothing else, neither what the other runs
\* do nor any other fault, makes it pass over a package in silence.
ZeroMeansBuilt ==
    \A b \in Builds : code[b] = 0 /\ b \notin killed \cup unforked =>
      \A k \in DOMAIN list[b] :
        report[b][k] = "success" \/ (report[b][k] = "failed" /\ b \in unlisted)

Names(b, p) == \E k \in DOMAIN list[b] : list[b][k] = p

\* Dependencies that are installed belong to a run with --depends that names the
\* package and is between installing and purging them, or has failed, or lost a
\* process, or could not fork one: nothing else stays installed in the distro.
DependsAccounted ==
    \A p \in installed : \E b \in Builds :
      /\ depends[b] /\ Names(b, p)
      /\ \/ pc[b] \in {"build", "purge"} /\ Pkg(b) = p
         \/ code[b] \notin {None, 0}
         \/ b \in killed \cup unforked

\* Runs on the same distro purge each other's dependencies.  When nothing else
\* goes wrong, a run in which a command fails at a package with --depends has
\* lost it to another run, which has built that package.
LoserHasWinner ==
    Over /\ failed = 0 /\ killed = {} =>
      \A b \in Builds : (/\ depends[b] /\ code[b] \in Codes
                         /\ Kind[Pkg(b)] = "dsc" /\ Pkg(b) \notin BadDeps) =>
        \E c \in Builds \ {b} : \E k \in DOMAIN list[c] :
          list[c][k] = Pkg(b) /\ report[c][k] = "success"

\* Every run of buildit ends.
BuildEnds == <>Over
=============================================================================
