----------------------------- MODULE DebArchive -----------------------------
(***************************************************************************)
(* The scripts that keep a Debian archive directory: deb-archive copies or *)
(* moves a control file (.dsc, .changes) and the files it names into it,   *)
(* deb-remove removes them, deb-release rewrites the file Release.  They   *)
(* take no lock; a run may be killed anywhere and started again.           *)
(*                                                                         *)
(* External (ruby's FileUtils and the file system): a copy opens its       *)
(* source, then its target, which truncates it, writes, and sets the       *)
(* target's owner and times if they are to be preserved; a move is a       *)
(* rename, or on another device a copy that preserves and a removal of the *)
(* original, and with the option force its errors are ignored; what is     *)
(* written to a file whose name was removed is gone.                       *)
(***************************************************************************)
EXTENDS Integers, Sequences, FiniteSets

CONSTANTS
    Procs,      \* the runs
    Names,      \* file names, the same in both directories
    Listed,     \* the names each of them lists under Files (none for a .deb)
    Jobs,       \* mode, options and arguments a run may be given
    Origins,    \* what may be in the directory files are archived from
    Archives,   \* what may be in the archive at first
    MaxRuns,    \* bound: times a run is started
    Killable,   \* runs that may be killed
    Faulty,     \* runs that may meet a failure: a full disk, a file not readable
    None,       \* no inode, no exit code
    Old,        \* inode of a file that is in the archive at first
    Src,        \* inode of a file that is in the origin at first
    Texts,      \* what a field of Release may say
    Cut,        \* the part of it before a colon
    Sayings     \* what Release may say at first

Modes == {"copy", "move", "remove", "release"}
ASSUME ListedAssumption == Listed \in [Names -> Seq(Names)]
ASSUME JobsAssumption   ==
    /\ Jobs \subseteq [mode : Modes, force : BOOLEAN, preserve : BOOLEAN,
                     args : Seq(Names)]
    /\ \A j \in Jobs : j.mode = "release" => j.args = <<>>     \* it takes a directory
ASSUME DirsAssumption   == \A d \in Origins \cup Archives : d \subseteq Names
ASSUME RunsAssumption   == MaxRuns \in Nat \ {0} /\ Killable \cup Faulty \subseteq Procs
ASSUME InodesAssumption == /\ Procs \cap {None, Old, Src} = {}
                           /\ None # Old /\ None # Src /\ Old # Src

\* The fields of Release that deb-release knows; "Other" stands for all others.
Kept   == {"Archive", "Codename", "Origin", "Label", "Architecture"}
Fields == Kept \cup {"Other"}
Empty  == [k \in Fields |-> ""]

ASSUME TextsAssumption  ==
    /\ {"", "stretch", "all"} \subseteq Texts
    /\ Cut \in [Texts -> Texts]
    /\ \A t \in Texts : Cut[Cut[t]] = Cut[t]
    /\ \A t \in {"", "stretch", "all"} : Cut[t] = t
    /\ Sayings \subseteq [Fields -> Texts] \ {Empty}

VARIABLES
    job,        \* what each run is to do
    rename,     \* is the origin on the same device as the archive?
    given,      \* what the origin had at first
    said,       \* what Release said at first
    origin,     \* what it has
    archive,    \* the inode each name has in the archive
    writer,     \* per name and inode: who last opened it, None once it is whole
    release,    \* the inodes of the names Release and Release.tmp
    text,       \* what each inode of these says, per field
    pc,         \* where each run is
    arg,        \* the argument it is at
    at,         \* the file it is at, in Order
    fd,         \* the inode it writes
    relinfo,    \* what it has read from Release
    code,       \* its exit code
    runs,       \* times it was started
    killed,     \* history: runs that were killed
    failed,     \* history: runs that met a failure
    crowd       \* history: runs that ran beside another one

input == <<job, rename, given, said>>
dirs  == <<origin, archive, writer>>
rel   == <<release, text, relinfo>>
local == <<arg, at, fd>>
hist  == <<runs, killed, failed, crowd>>
vars  == <<input, dirs, rel, pc, local, code, hist>>

Inodes == Procs \cup {Old, Src}

\* What deb-release takes for a field that Release does not give.
Default == [k \in Kept |-> CASE k = "Archive" -> "stretch"
                             [] k = "Architecture" -> "all"
                             [] OTHER -> ""]

Init ==
    /\ job \in [Procs -> Jobs]
    /\ rename \in BOOLEAN
    /\ origin \in Origins
    /\ given = origin
    /\ \E a \in Archives : archive = [f \in Names |-> IF f \in a THEN Old ELSE None]
    /\ writer = [f \in Names |-> [n \in Inodes |-> None]]
    /\ release = [name |-> Old, tmp |-> None]
    /\ said \in Sayings
    /\ text = [n \in Inodes |-> said]
    /\ pc = [p \in Procs |-> "idle"]
    /\ arg = [p \in Procs |-> 1]
    /\ at = [p \in Procs |-> 1]
    /\ fd = [p \in Procs |-> None]
    /\ relinfo = [p \in Procs |-> Default]
    /\ code = [p \in Procs |-> None]
    /\ runs = [p \in Procs |-> 0]
    /\ killed = {}
    /\ failed = {}
    /\ crowd = {}

-----------------------------------------------------------------------------
Mode(p)  == job[p].mode
Goto(p, to) == pc' = [pc EXCEPT ![p] = to]
Active == {p \in Procs : pc[p] \notin {"idle", "ended"}}

Exit(p, c) ==
    /\ Goto(p, "ended")
    /\ code' = [code EXCEPT ![p] = c]

\* A run is started, or started again after it was killed or has failed.
Start(p) ==
    /\ pc[p] = "idle" \/ (pc[p] = "ended" /\ code[p] # 0)
    /\ runs[p] < MaxRuns
    /\ runs' = [runs EXCEPT ![p] = @ + 1]
    /\ crowd' = IF Active = {} THEN crowd ELSE crowd \cup Active \cup {p}
    /\ Goto(p, IF Mode(p) = "release" THEN "read" ELSE "arg")
    /\ code' = [code EXCEPT ![p] = None]
    /\ arg' = [arg EXCEPT ![p] = 1]
    /\ at' = [at EXCEPT ![p] = 1]
    /\ fd' = [fd EXCEPT ![p] = None]
    /\ UNCHANGED <<input, dirs, rel, killed, failed>>

\* A killed run has no exit code of its own.
Kill(p) ==
    /\ p \in Killable \ killed
    /\ p \in Active
    /\ killed' = killed \cup {p}
    /\ Exit(p, 137)
    /\ UNCHANGED <<input, dirs, rel, local, runs, failed, crowd>>

-----------------------------------------------------------------------------
(* deb-archive and deb-remove *)

Control(p) == job[p].args[arg[p]]

\* Mutant of Order: a control file is always the first.
OrderFirst(p) == <<Control(p)>> \o Listed[Control(p)]

\* The files in the order in which a run handles them: a copy begins with the
\* control file, a move or a removal ends with it.
Order(p) == IF Mode(p) = "copy" THEN <<Control(p)>> \o Listed[Control(p)]
                                ELSE Listed[Control(p)] \o <<Control(p)>>
Cur(p) == Order(p)[at[p]]
\* Is the run at the control file itself?
AtControl(p) == at[p] = IF Mode(p) = "copy" THEN 1 ELSE Len(Order(p))

\* Go on with the next file, or with the next argument; a copy reads the list
\* after it has copied the control file.
Advance(p) ==
    IF at[p] = Len(Order(p))
      THEN /\ Goto(p, "arg")
           /\ arg' = [arg EXCEPT ![p] = @ + 1]
           /\ at' = [at EXCEPT ![p] = 1]
      ELSE /\ Goto(p, IF AtControl(p) THEN "list" ELSE "file")
           /\ at' = [at EXCEPT ![p] = @ + 1]
           /\ UNCHANGED arg

\* An error of FileUtils ends the script, only a forced move ignores it.
Error(p) ==
    IF Mode(p) = "move" /\ job[p].force
      THEN Advance(p) /\ UNCHANGED code
      ELSE Exit(p, 1) /\ UNCHANGED <<arg, at>>

NoMoreArgs(p) ==
    /\ pc[p] = "arg"
    /\ arg[p] > Len(job[p].args)
    /\ Exit(p, 0)
    /\ UNCHANGED <<input, dirs, rel, local, hist>>

\* deb-archive stops at an argument that is not there, or that the archive has
\* already, unless it is forced.
Abort(p) ==
    /\ pc[p] = "arg"
    /\ arg[p] <= Len(job[p].args)
    /\ Mode(p) # "remove"
    /\ Control(p) \notin origin \/ (archive[Control(p)] # None /\ ~job[p].force)
    /\ Exit(p, 1)
    /\ UNCHANGED <<input, dirs, rel, local, hist>>

\* deb-remove ends at an argument that is not there, as if all were done.
Quit(p) ==
    /\ pc[p] = "arg"
    /\ arg[p] <= Len(job[p].args)
    /\ Mode(p) = "remove"
    /\ archive[Control(p)] = None
    /\ Exit(p, 0)
    /\ UNCHANGED <<input, dirs, rel, local, hist>>

\* A copy begins with the control file, as does a .deb, which lists nothing.
Begin(p) ==
    /\ pc[p] = "arg"
    /\ arg[p] <= Len(job[p].args)
    /\ IF Mode(p) = "remove"
         THEN archive[Control(p)] # None
         ELSE Control(p) \in origin /\ (archive[Control(p)] = None \/ job[p].force)
    /\ Goto(p, IF AtControl(p) THEN "file" ELSE "list")
    /\ UNCHANGED <<input, dirs, rel, local, code, hist>>

There(p, f) == IF Mode(p) = "remove" THEN archive[f] # None ELSE f \in origin

\* File.open of the control file, which may have gone since it was looked for;
\* that ends the script even if it is forced.
ReadList(p) ==
    /\ pc[p] = "list"
    /\ IF There(p, Control(p)) THEN Goto(p, "file") /\ UNCHANGED code
                               ELSE Exit(p, 1)
    /\ UNCHANGED <<input, dirs, rel, local, hist>>

\* Mutant of Look: what the archive has already is skipped.
LookSkips(p) ==
    /\ pc[p] = "file"
    /\ IF AtControl(p) \/ (There(p, Cur(p)) /\ (Mode(p) = "remove" \/ archive[Cur(p)] = None))
         THEN Goto(p, "open") /\ UNCHANGED <<arg, at>>
         ELSE Advance(p)
    /\ UNCHANGED <<input, dirs, rel, fd, code, hist>>

\* Look at the next file of the list: one that is not there is skipped.
Look(p) ==
    /\ pc[p] = "file"
    /\ IF AtControl(p) \/ There(p, Cur(p))
         THEN Goto(p, "open") /\ UNCHANGED <<arg, at>>
         ELSE Advance(p)
    /\ UNCHANGED <<input, dirs, rel, fd, code, hist>>

Copies(p) == Mode(p) = "copy" \/ (Mode(p) = "move" /\ ~rename)

\* It has gone since; or one of source and target is gone when the owner and the
\* times of the source are to be given to the target.
Vanished(p) ==
    /\ \/ pc[p] = "open" /\ ~There(p, Cur(p))
       \/ pc[p] = "meta" /\ (Cur(p) \notin origin \/ archive[Cur(p)] = None)
    /\ Error(p)
    /\ UNCHANGED <<input, dirs, rel, fd, hist>>

\* A copy opens its source, which has its content even when it loses its name.
OpenSource(p) ==
    /\ pc[p] = "open"
    /\ Copies(p)
    /\ Cur(p) \in origin
    /\ Goto(p, "target")
    /\ UNCHANGED <<input, dirs, rel, local, code, hist>>

\* Mutant of OpenTarget: a move takes the original away before it is written.
OpenTargetTakes(p) ==
    LET f == Cur(p)
        n == IF archive[f] = None THEN p ELSE archive[f]
    IN  /\ pc[p] = "target"
        /\ origin' = IF Mode(p) = "move" THEN origin \ {f} ELSE origin
        /\ archive' = [archive EXCEPT ![f] = n]
        /\ writer' = [writer EXCEPT ![f][n] = p]
        /\ fd' = [fd EXCEPT ![p] = n]
        /\ Goto(p, "write")
        /\ UNCHANGED <<input, rel, arg, at, code, hist>>

\* It opens its target and truncates it, the source too if another run has
\* renamed that to be the target.
OpenTarget(p) ==
    LET f == Cur(p)
        n == IF archive[f] = None THEN p ELSE archive[f]
    IN  /\ pc[p] = "target"
        /\ archive' = [archive EXCEPT ![f] = n]
        /\ writer' = [writer EXCEPT ![f][n] = p]
        /\ fd' = [fd EXCEPT ![p] = n]
        /\ Goto(p, "write")
        /\ UNCHANGED <<input, origin, rel, arg, at, code, hist>>

\* The content is written; it is whole unless another copy truncated the target
\* in the meantime or the source is no longer whole itself.
WriteTarget(p) ==
    LET f == Cur(p)
        whole == writer[f][fd[p]] = p /\ writer[f][Src] = None
    IN  /\ pc[p] = "write"
        /\ writer' = [writer EXCEPT ![f][fd[p]] = IF whole THEN None ELSE @]
        /\ IF Mode(p) = "move" \/ job[p].preserve
             THEN Goto(p, "meta") /\ UNCHANGED <<arg, at>>
             ELSE Advance(p)
        /\ UNCHANGED <<input, origin, archive, rel, fd, code, hist>>

\* The target is given the owner and the times of the source.
Metadata(p) ==
    /\ pc[p] = "meta"
    /\ Cur(p) \in origin /\ archive[Cur(p)] # None
    /\ IF Mode(p) = "move" THEN Goto(p, "unlink") /\ UNCHANGED <<arg, at>>
                           ELSE Advance(p)
    /\ UNCHANGED <<input, dirs, rel, fd, code, hist>>

\* The end of a move to another device.
Unlink(p) ==
    /\ pc[p] = "unlink"
    /\ origin' = origin \ {Cur(p)}
    /\ IF Cur(p) \in origin THEN Advance(p) /\ UNCHANGED code
                            ELSE Error(p)
    /\ UNCHANGED <<input, archive, writer, rel, fd, hist>>

\* A move on the same device replaces what the archive has under the name.
Rename(p) ==
    LET f == Cur(p)
    IN  /\ pc[p] = "open"
        /\ Mode(p) = "move" /\ rename
        /\ f \in origin
        /\ origin' = origin \ {f}
        /\ archive' = [archive EXCEPT ![f] = Src]
        /\ Advance(p)
        /\ UNCHANGED <<input, writer, rel, fd, code, hist>>

\* FileUtils.remove_file
Remove(p) ==
    /\ pc[p] = "open"
    /\ Mode(p) = "remove"
    /\ archive[Cur(p)] # None
    /\ archive' = [archive EXCEPT ![Cur(p)] = None]
    /\ Advance(p)
    /\ UNCHANGED <<input, origin, writer, rel, fd, code, hist>>

-----------------------------------------------------------------------------
(* deb-release *)

\* Mutant of ReadRelease: a field that says nothing overrides the default.
ReadReleaseBlank(p) ==
    /\ pc[p] = "read"
    /\ relinfo' = [relinfo EXCEPT ![p] = [k \in Kept |-> Cut[text[release.name][k]]]]
    /\ Goto(p, "create")
    /\ UNCHANGED <<input, dirs, release, text, local, code, hist>>

\* Read Release: a line is split at its colons and the second part is the value;
\* a field with none has its default.
ReadRelease(p) ==
    LET value(k) == Cut[text[release.name][k]]
    IN  /\ pc[p] = "read"
        /\ relinfo' = [relinfo EXCEPT ![p] =
                          [k \in Kept |-> IF value(k) = "" THEN Default[k] ELSE value(k)]]
        /\ Goto(p, "create")
        /\ UNCHANGED <<input, dirs, release, text, local, code, hist>>

\* File.open('Release.tmp', 'w'); what is written stays in a buffer.
CreateTmp(p) ==
    LET n == IF release.tmp = None THEN p ELSE release.tmp
    IN  /\ pc[p] = "create"
        /\ release' = [release EXCEPT !.tmp = n]
        /\ text' = [text EXCEPT ![n] = Empty]
        /\ fd' = [fd EXCEPT ![p] = n]
        /\ Goto(p, "mv")
        /\ UNCHANGED <<input, dirs, relinfo, arg, at, code, hist>>

\* Mutant of MvRelease: the old file is removed first.
MvReleaseAlways(p) ==
    /\ pc[p] = "mv"
    /\ release' = [name |-> release.tmp, tmp |-> None]
    /\ Goto(p, "close")
    /\ UNCHANGED <<input, dirs, text, relinfo, local, code, hist>>

\* system 'mv', whose result is not looked at, and before the block ends.
MvRelease(p) ==
    /\ pc[p] = "mv"
    /\ release' = IF release.tmp = None THEN release
                                        ELSE [name |-> release.tmp, tmp |-> None]
    /\ Goto(p, "close")
    /\ UNCHANGED <<input, dirs, text, relinfo, local, code, hist>>

\* The end of the block closes the file and writes the buffer: the fields that
\* deb-release knows, and no others.
CloseTmp(p) ==
    /\ pc[p] = "close"
    /\ text' = [text EXCEPT ![fd[p]] =
                  [k \in Fields |-> IF k \in Kept THEN relinfo[p][k] ELSE ""]]
    /\ Exit(p, 0)
    /\ UNCHANGED <<input, dirs, release, relinfo, local, hist>>

-----------------------------------------------------------------------------
\* An operation fails for a reason outside of the scripts: a full disk, a file
\* that may not be read, at "read" also a last line that ends with its colon.
\* Nobody looks at the result of mv.
Fails(p) ==
    /\ p \in Faulty \ failed
    /\ failed' = failed \cup {p}
    /\ \/ pc[p] \in {"open", "target", "write", "meta", "unlink"} /\ Error(p)
       \/ /\ pc[p] \in {"list", "read", "create", "close"}
          /\ Exit(p, 1)
          /\ UNCHANGED <<arg, at>>
       \/ pc[p] = "mv" /\ Goto(p, "close") /\ UNCHANGED <<arg, at, code>>
    /\ UNCHANGED <<input, dirs, rel, fd, runs, killed, crowd>>

-----------------------------------------------------------------------------
Step(p) ==
    \/ NoMoreArgs(p) \/ Abort(p) \/ Quit(p) \/ Begin(p) \/ ReadList(p) \/ Look(p)
    \/ Vanished(p) \/ OpenSource(p) \/ OpenTarget(p) \/ WriteTarget(p) \/ Metadata(p)
    \/ Unlink(p) \/ Rename(p) \/ Remove(p)
    \/ ReadRelease(p) \/ CreateTmp(p) \/ MvRelease(p) \/ CloseTmp(p)

Over == \A p \in Procs : pc[p] = "ended"
Finished == Over /\ UNCHANGED vars

Next == (\E p \in Procs : Start(p) \/ Step(p) \/ Fails(p) \/ Kill(p)) \/ Finished

Spec == Init /\ [][Next]_vars

-----------------------------------------------------------------------------
(* Properties *)

\* Where a run is at a file, or at the list, or writes.
AtFile  == {"list", "file", "open", "target", "write", "meta", "unlink"}
Writing == {"write", "mv", "close"}

\* The variables have their types; a run that is at a file is at one of those of
\* an argument it was given, and one that writes has a file open.
TypeOK ==
    /\ origin \subseteq given
    /\ archive \in [Names -> Inodes \cup {None}]
    /\ writer \in [Names -> [Inodes -> Procs \cup {None}]]
    /\ release \in [name : Inodes, tmp : Inodes \cup {None}]
    /\ text \in [Inodes -> [Fields -> Texts]]
    /\ pc \in [Procs -> {"idle", "arg", "read", "create", "mv", "close", "ended"} \cup AtFile]
    /\ \A p \in Procs : /\ arg[p] \in 1..(Len(job[p].args) + 1)
                        /\ at[p] \in Nat \ {0}
                        /\ pc[p] \in AtFile => /\ arg[p] <= Len(job[p].args)
                                               /\ at[p] <= Len(Order(p))
                        /\ pc[p] \in Writing => fd[p] # None
    /\ fd \in [Procs -> Inodes \cup {None}]
    /\ relinfo \in [Procs -> [Kept -> Texts]]
    /\ code \in [Procs -> {0, 1, 137, None}]
    /\ runs \in [Procs -> 0..MaxRuns]
    /\ killed \subseteq Procs
    /\ failed \subseteq Procs
    /\ crowd \subseteq Procs

Whole(f) == archive[f] # None /\ writer[f][archive[f]] = None
Runs(m)  == {p \in Procs : Mode(p) = m /\ runs[p] > 0}
Files(c) == {c} \cup {Listed[c][k] : k \in DOMAIN Listed[c]}

\* Copies beside renames of the same files: a run that has opened its source
\* truncates it when the other has renamed it in the meantime.
Mixed    == rename /\ Runs("copy") # {} /\ Runs("move") # {}
Orderly  == killed = {} /\ failed = {} /\ ~Mixed
\* Moves that were told to ignore a failure they met.
Ignoring == {p \in failed : Mode(p) = "move" /\ job[p].force}

\* deb-archive never loses a file: it is whole in one of the directories at any
\* time if the runs do not overlap, wherever they are killed and whatever fails;
\* and in the end if they do, none is killed or meets a failure, and none copies
\* what another one renames (which does lose files).
NothingLost ==
    Runs("remove") = {} /\ (crowd = {} \/ (Over /\ Orderly))
      => \A f \in given : f \in origin \/ Whole(f)

\* When the last runs of deb-archive have all exited with 0, every file that
\* their control files name and that was there is whole in the archive, also
\* when earlier runs were killed or failed half-way or they overlapped in the
\* order NothingLost asks for.  A forced move that met a failure is excepted: it
\* exits with 0 all the same.
ArchivedWhole ==
    /\ Over /\ Runs("remove") = {} /\ Ignoring = {} /\ (crowd = {} \/ Orderly)
    /\ \A p \in Procs : code[p] = 0
    => \A p \in Procs : \A k \in DOMAIN job[p].args :
         \A f \in Files(job[p].args[k]) \cap given : Whole(f)

\* Control files that none names, nor they themselves.
Roots == {c \in Names : \A d \in Names : \A k \in DOMAIN Listed[d] : Listed[d][k] # c}
OnlyMode(m) == \A p \in Procs : runs[p] > 0 => Mode(p) \in {m, "release"}

\* A move puts a control file into the archive after the files it names: where
\* runs only move, do not overlap, and ignore no failure, nobody finds one there
\* without them, even if a move was killed or failed and was not repeated.
MoveKeepsOrder ==
    crowd = {} /\ Ignoring = {} /\ OnlyMode("move") =>
      \A c \in Roots : archive[c] \in Procs \cup {Src} =>
        \A f \in Files(c) \cap given : f = c \/ Whole(f)

\* deb-remove removes a control file after the files it names: where runs only
\* remove, a control file that is gone has left nothing behind, however they
\* overlap, fail and are killed, so a run that did not finish can be repeated.
RemovedInOrder ==
    OnlyMode("remove") =>
      \A c \in Roots : archive[c] = None => \A f \in Files(c) : archive[f] = None

\* What is left of what Release said after deb-release, however often it runs:
\* of the known fields the part before a colon, "stretch" and "all" for an
\* Archive and an Architecture that have none, and of the other fields nothing.
Rewritten(k) == CASE k = "Other" -> ""
                  [] k = "Archive" /\ Cut[said[k]] = "" -> "stretch"
                  [] k = "Architecture" /\ Cut[said[k]] = "" -> "all"
                  [] OTHER -> Cut[said[k]]

\* As long as no run of deb-release is killed or fails, Release is not empty in
\* the end; and if runs do not overlap it says what it said until the first of
\* them has ended, and then what Rewritten tells, which repeated runs keep
\* (while one is between mv and the end of the block, it is empty).
ReleaseKept ==
    Runs("release") \cap (killed \cup failed) = {} =>
      /\ Over => text[release.name] # Empty
      /\ crowd = {} /\ (\A p \in Procs : pc[p] # "close") =>
           text[release.name] = IF \E p \in Runs("release") : pc[p] = "ended"
                                  THEN [k \in Fields |-> Rewritten(k)]
                                  ELSE said
=============================================================================
