------------------------------ MODULE CopyFile ------------------------------
(***************************************************************************)
(* Concurrent runs of shellit and buildit that copy the same files to the  *)
(* same place: fsys::copy_file, one call after the other, as fsys::copy_dsc*)
(* makes them (the files a .dsc or .changes names, then that file itself)  *)
(* and as main() makes them for the files of /etc; and the repository file *)
(* of the distro, which main() writes in the same way by itself, with less *)
(* care.  Every file is written under one fixed temporary name next to the *)
(* target, which is renamed to the target; nothing orders the runs.        *)
(*                                                                         *)
(* External (the file system): an open file is an inode, which keeps its   *)
(* content when its name is renamed or removed; opening the temporary name *)
(* truncates the inode it names; what is written past a truncation leaves  *)
(* a hole before it.                                                       *)
(***************************************************************************)
EXTENDS Integers, FiniteSets

CONSTANTS
    Copiers,    \* the processes; each copies the list once
    Dsc,        \* is the last file a .dsc or .changes that names the others
                \*   (those that are not Optional)?
    Last,       \* number of files in the list
    Size,       \* pieces in which the content of a file is written
    Missing,    \* files that do not exist in the source
    Optional,   \* files whose copying may fail (/etc/gshadow, Repo)
    Repo,       \* the repository file that main() writes itself
    MaxFaults,  \* bound: calls that fail for want of resources or permissions
    Killable,   \* copiers that may be killed
    None        \* no inode

Files  == 1..Last
Pieces == 1..Size
\* An inode is named after the copier that created it and the file.
Inodes == Copiers \X Files

ASSUME ListAssumption    == Dsc \in BOOLEAN
ASSUME LastAssumption    == Last \in Nat \ {0} /\ Size \in Nat \ {0}
ASSUME FilesAssumption   == /\ Missing \subseteq Files
                            /\ Repo \subseteq Optional /\ Optional \subseteq Files
ASSUME FaultsAssumption  == MaxFaults \in Nat
ASSUME CopiersAssumption == /\ Copiers # {} /\ Killable \subseteq Copiers
                            /\ None \notin Inodes

VARIABLES
    pc,     \* where each copier is
    cur,    \* the file of the list it is at
    fd,     \* the inode it writes to
    pos,    \* pieces it has read and written
    tmp,    \* the inode that the temporary name of each file names
    final,  \* the inode that its target names
    data,   \* the pieces that are in each inode
    failed, \* calls that have failed
    shared, \* history: inodes that were opened while another copier was busy
            \*   with the same file
    cut     \* history: inodes that a full disk has cut short

hist == <<shared, cut>>
vars == <<pc, cur, fd, pos, tmp, final, data, failed, hist>>

Busy  == {"write", "chmod", "rename", "undo"}
Ended == {"true", "false", "killed"}

Init ==
    /\ pc = [c \in Copiers |-> "open"]
    /\ cur = [c \in Copiers |-> 1]
    /\ fd = [c \in Copiers |-> None]
    /\ pos = [c \in Copiers |-> 0]
    /\ tmp = [f \in Files |-> None]
    /\ final = [f \in Files |-> None]
    /\ data = [i \in Inodes |-> {}]
    /\ failed = 0
    /\ shared = {}
    /\ cut = {}

Goto(c, from, to) ==
    /\ pc[c] = from
    /\ pc' = [pc EXCEPT ![c] = to]

\* A call fails: because it must, or because the system lets it.
Fault(must) ==
    \/ must /\ UNCHANGED failed
    \/ failed < MaxFaults /\ failed' = failed + 1

-----------------------------------------------------------------------------
(* The list: copy_dsc(), and the loops of main() *)

\* copy_dsc() returns at once when there is no .dsc to read the names from.
Absent(f) == f \in Missing \/ (Dsc /\ Last \in Missing /\ f \notin Optional)

\* Mutant of Advance: the end of the list is missed by one.
AdvanceOver(c) ==
    IF cur[c] > Last
      THEN pc' = [pc EXCEPT ![c] = "true"] /\ UNCHANGED cur
      ELSE /\ pc' = [pc EXCEPT ![c] = "open"]
           /\ cur' = [cur EXCEPT ![c] = @ + 1]

\* Go on with the next file, or return true after the last one.
Advance(c) ==
    IF cur[c] = Last
      THEN pc' = [pc EXCEPT ![c] = "true"] /\ UNCHANGED cur
      ELSE /\ pc' = [pc EXCEPT ![c] = "open"]
           /\ cur' = [cur EXCEPT ![c] = @ + 1]

\* Mutant of Fail: the result of copy_file is ignored.
FailIgnored(c) == Advance(c)

\* copy_file() returns false: the caller gives up, unless the file is optional.
Fail(c) ==
    IF cur[c] \in Optional
      THEN Advance(c)
      ELSE pc' = [pc EXCEPT ![c] = "false"] /\ UNCHANGED cur

-----------------------------------------------------------------------------
(* copy_file() *)

\* The source cannot be read, or the temporary file not be created.
OpenFails(c) ==
    /\ pc[c] = "open"
    /\ Fault(Absent(cur[c]))
    /\ Fail(c)
    /\ UNCHANGED <<fd, pos, tmp, final, data, hist>>

\* Both are opened; a temporary file that exists is truncated.
Open(c) ==
    LET f == cur[c]
        i == IF tmp[f] = None THEN <<c, f>> ELSE tmp[f]
        others == {q \in Copiers \ {c} : pc[q] \in Busy /\ cur[q] = f}
    IN  /\ Goto(c, "open", "write")
        /\ ~Absent(f)
        /\ tmp' = [tmp EXCEPT ![f] = i]
        /\ data' = [data EXCEPT ![i] = {}]
        /\ fd' = [fd EXCEPT ![c] = i]
        /\ pos' = [pos EXCEPT ![c] = 0]
        /\ shared' = IF others = {} THEN shared \ {i} ELSE shared \cup {i}
        /\ cut' = cut \ {i}
        /\ UNCHANGED <<cur, final, failed>>

\* After the last piece both files are closed; the repository file keeps the
\* permissions it was created with.
Closed(c) == IF cur[c] \in Repo THEN "rename" ELSE "chmod"

\* Mutant of Write: the last piece is not flushed.
WriteShort(c) ==
    /\ Goto(c, "write", IF pos[c] + 2 >= Size THEN Closed(c) ELSE "write")
    /\ pos' = [pos EXCEPT ![c] = @ + 1]
    /\ data' = [data EXCEPT ![fd[c]] = @ \cup {pos[c] + 1}]
    /\ UNCHANGED <<cur, fd, tmp, final, failed, hist>>

\* One more piece.
Write(c) ==
    /\ Goto(c, "write", IF pos[c] + 1 = Size THEN Closed(c) ELSE "write")
    /\ pos' = [pos EXCEPT ![c] = @ + 1]
    /\ data' = [data EXCEPT ![fd[c]] = @ \cup {pos[c] + 1}]
    /\ UNCHANGED <<cur, fd, tmp, final, failed, hist>>

\* The disk is full: writing stops, and nobody looks at the stream's state.
WriteFails(c) ==
    /\ Fault(FALSE)
    /\ Goto(c, "write", Closed(c))
    /\ cut' = cut \cup {fd[c]}
    /\ UNCHANGED <<cur, fd, pos, tmp, final, data, shared>>

\* The permissions of whatever the temporary name names now.
Permissions(c) ==
    /\ tmp[cur[c]] # None
    /\ Goto(c, "chmod", "rename")
    /\ UNCHANGED <<cur, fd, pos, tmp, final, data, failed, hist>>

PermissionsFail(c) ==
    /\ Fault(tmp[cur[c]] = None)
    /\ Goto(c, "chmod", "undo")
    /\ UNCHANGED <<cur, fd, pos, tmp, final, data, hist>>

\* The temporary name, whichever inode it names now, becomes the target.
Rename(c) ==
    LET f == cur[c]
    IN  /\ pc[c] = "rename"
        /\ tmp[f] # None
        /\ final' = [final EXCEPT ![f] = tmp[f]]
        /\ tmp' = [tmp EXCEPT ![f] = None]
        /\ Advance(c)
        /\ UNCHANGED <<fd, pos, data, failed, hist>>

RenameFails(c) ==
    /\ cur[c] \notin Repo
    /\ Fault(tmp[cur[c]] = None)
    /\ Goto(c, "rename", "undo")
    /\ UNCHANGED <<cur, fd, pos, tmp, final, data, hist>>

\* Nobody looks at the result for the repository file, and nothing is undone.
RepoRenameFails(c) ==
    /\ pc[c] = "rename"
    /\ cur[c] \in Repo
    /\ Fault(tmp[cur[c]] = None)
    /\ Advance(c)
    /\ UNCHANGED <<fd, pos, tmp, final, data, hist>>

\* Mutant of Undo: the target is removed, not the temporary file.
UndoTarget(c) ==
    /\ pc[c] = "undo"
    /\ final' = [final EXCEPT ![cur[c]] = None]
    /\ Fail(c)
    /\ UNCHANGED <<fd, pos, tmp, data, failed, hist>>

\* After a failure the temporary name is removed, whosever it is by now.
Undo(c) ==
    /\ pc[c] = "undo"
    /\ tmp' = [tmp EXCEPT ![cur[c]] = None]
    /\ Fail(c)
    /\ UNCHANGED <<fd, pos, final, data, failed, hist>>

-----------------------------------------------------------------------------
Kill(c) ==
    /\ c \in Killable
    /\ pc[c] \notin Ended
    /\ pc' = [pc EXCEPT ![c] = "killed"]
    /\ UNCHANGED <<cur, fd, pos, tmp, final, data, failed, hist>>

Over == \A c \in Copiers : pc[c] \in Ended

\* Every copier has ended: nothing is left to do.
Finished == Over /\ UNCHANGED vars

Copy(c) == \/ OpenFails(c) \/ Open(c) \/ Write(c) \/ WriteFails(c)
           \/ Permissions(c) \/ PermissionsFail(c) \/ Rename(c)
           \/ RenameFails(c) \/ RepoRenameFails(c) \/ Undo(c)

Next == (\E c \in Copiers : Copy(c) \/ Kill(c)) \/ Finished

Spec == Init /\ [][Next]_vars

-----------------------------------------------------------------------------
(* Properties *)

\* The variables have their types.
TypeOK ==
    /\ pc \in [Copiers -> Busy \cup Ended \cup {"open"}]
    /\ cur \in [Copiers -> Files]
    /\ fd \in [Copiers -> Inodes \cup {None}]
    /\ pos \in [Copiers -> 0..Size]
    /\ tmp \in [Files -> Inodes \cup {None}]
    /\ final \in [Files -> Inodes \cup {None}]
    /\ data \in [Inodes -> SUBSET Pieces]
    /\ failed \in 0..MaxFaults
    /\ shared \in SUBSET Inodes
    /\ cut \in SUBSET Inodes

Complete(f) == final[f] # None /\ data[final[f]] = Pieces

\* A file appears only after all those that copy_dsc copies before it, however
\* many copiers rename each other's temporary files, fail or are killed: a
\* .dsc in the target directory has its files beside it.
InOrder == \A f, g \in Files : g < f /\ final[f] # None /\ g \notin Optional
                                 => final[g] # None

\* A target with a partial content is one that two copiers wrote at the same
\* time or that a full disk cut short: a copier that is killed or fails never
\* leaves one by itself, nor does a temporary file that was left behind.
PartialOnlyIfShared ==
    \A f \in Files : final[f] # None /\ ~Complete(f)
                       => final[f] \in shared \cup cut

Unharmed == \A c \in Copiers : pc[c] # "killed"

\* When all have ended and none was killed, no temporary file is left, whatever
\* failed and whoever removed or renamed whose; only that of the repository
\* file stays if a call has failed, because main() undoes nothing there.
NoTmpLeft == Over /\ Unharmed
               => \A f \in Files : tmp[f] # None => f \in Repo /\ failed > 0

\* Copiers that race may make each other fail, but when nothing else has failed
\* one of them returns true, and in the end every file is complete, with what
\* the losers still wrote into files that the winner had renamed.
RaceHasWinner ==
    Over /\ Unharmed /\ failed = 0 /\ Missing = {}
      => /\ \E c \in Copiers : pc[c] = "true"
         /\ \A f \in Files : Complete(f)

\* buildit.1: "The resulting binary packages, when successful, are copied back
\* to the current directory buildit was ran from", so when copy_dsc returns
\* true the files are there with their content.
SuccessIsComplete ==
    \A c \in Copiers : pc[c] = "true"
                         => \A f \in Files \ Optional : Complete(f)
=============================================================================
