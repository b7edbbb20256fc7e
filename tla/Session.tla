------------------------------ MODULE Session ------------------------------
(***************************************************************************)
(* Concurrent shellit and buildit sessions on one distro.                  *)
(*                                                                         *)
(* main() of both programs constructs a fixed list of RAII objects         *)
(* (fsys::tmpdir and fsys::mount, src/src/mount.cpp), forks a child that   *)
(* works in the chroot, waits for it, and lets the objects unwind in       *)
(* reverse order; an exception unwinds those constructed so far.  Sessions *)
(* share the directories under /tmp/.produceit, the host's store           *)
(* directories and the mount points inside the distro's root file system.  *)
(*                                                                         *)
(* External (the kernel): each session has its mounts in a mount namespace *)
(* of its own with private propagation; umount is refused while something  *)
(* is mounted below; rmdir is refused for a directory that is not empty or *)
(* is a mount point in the caller's namespace, and otherwise detaches what *)
(* other namespaces have mounted there.                                    *)
(***************************************************************************)
EXTENDS Integers, Sequences, FiniteSets

CONSTANTS
    Sessions,       \* session processes; a process id may be used again
    Builders,       \* those that run buildit, the others run shellit
    Users,          \* shellit sessions with uid >= 1000: home is mounted
    XServers,       \* shellit sessions with -X: dbus is mounted
    Solid,          \* mount points that are not empty in the distro itself
    Faulty,         \* setup steps that may fail for want of resources
    ParentKillable, \* sessions whose parent process may be killed
    ChildKillable,  \* sessions whose pid 1 in the chroot may be killed
    Codes,          \* exit codes of the commands run in the chroot
    MaxTasks        \* bound: commands a buildit session runs in the chroot

\* Items whose directory is created in the host's store if it is missing.
Store   == {"homeuser", "binary", "source"}
Tmpdirs == {"prefix", "session", "sources"}
\* Mount points that are directories of the distro.
DistroDirs == {"root", "dev", "sys", "tmp", "vartmp", "libdbus", "rundbus",
               "origin", "results", "archive", "home", "proc"}
\* The session directory, and mount points inside the mounted /dev.
Mounts == DistroDirs \cup {"top", "pts", "shm"}

ASSUME SessionsAssumption ==
    /\ Builders \subseteq Sessions
    /\ Users \subseteq Sessions
    /\ XServers \subseteq Sessions
    /\ ParentKillable \subseteq Sessions
    /\ ChildKillable \subseteq Sessions
ASSUME SolidAssumption  == Solid \subseteq DistroDirs /\ "dev" \in Solid
ASSUME FaultyAssumption == Faulty \subseteq Mounts \cup {"unshare", "fork"}
ASSUME CodesAssumption  == Codes \subseteq 0..255 /\ 0 \in Codes
ASSUME TasksAssumption  == MaxTasks \in Nat

VARIABLES
    pc,         \* where the session's parent process is
    n,          \* how many items of its Setup list are constructed
    code,       \* its exit code
    child,      \* where the session's pid 1 is
    todo,       \* commands that pid 1 still has to run
    status,     \* wait status that pid 1 leaves, or of its last command
    mnt,        \* what is mounted in the session's namespace
    made,       \* which of prefix and sources exist
    sdirs,      \* session directories that exist
    dirs,       \* mount points that exist in the distro
    store,      \* store directories that exist
    crowd       \* history: sessions that ran beside another one

fs    == <<made, sdirs, dirs, store>>
local == <<n, code, child, todo, status>>
vars  == <<pc, local, mnt, fs, crowd>>

\* What main() sets up, in the order of the code; "unshare" stands for
\* unshare() and the copying of files, which are not undone.
ShellitSetup ==
    <<"homeuser", "binary", "prefix", "session", "unshare", "top", "root",
      "dev", "sys", "pts", "shm", "tmp", "vartmp", "libdbus", "rundbus",
      "archive", "home", "proc">>

BuilditSetup ==
    <<"binary", "source", "prefix", "session", "sources", "unshare", "top",
      "root", "dev", "sys", "pts", "shm", "vartmp", "origin", "results",
      "archive", "proc">>

Setup(s) == IF s \in Builders THEN BuilditSetup ELSE ShellitSetup

\* Objects that are constructed empty and mount only under an option.
Bound(s, x) ==
    /\ x = "home" => s \in Users
    /\ x \in {"libdbus", "rundbus"} => s \in XServers

Working == {"chroot", "procdir", "work", "taskdir", "task", "tasked",
            "failed"}
Live(s) == pc[s] \notin {"idle", "done"} \/ child[s] \in Working

Init ==
    /\ pc = [s \in Sessions |-> "idle"]
    /\ n = [s \in Sessions |-> 0]
    /\ code = [s \in Sessions |-> 0]
    /\ child = [s \in Sessions |-> "none"]
    /\ todo = [s \in Sessions |-> 0]
    /\ status = [s \in Sessions |-> 0]
    /\ mnt = [s \in Sessions |-> {}]
    /\ made = {}
    /\ sdirs = {}
    /\ dirs = Solid
    /\ store = {}
    /\ crowd = {}

-----------------------------------------------------------------------------
(* Wait statuses, src/src/proc.cpp *)

Exited(c) == 256 * c
Killed    == 9

\* Mutant of WEXITSTATUS: the status itself is taken for the exit code.
WEXITSTATUSRaw(w) == w
WEXITSTATUS(w)    == (w \div 256) % 256

-----------------------------------------------------------------------------
(* Setting up *)

Goto(s, from, to) ==
    /\ pc[s] = from
    /\ pc' = [pc EXCEPT ![s] = to]

Next1(s) == Setup(s)[n[s] + 1]
Top1(s)  == Setup(s)[n[s]]

\* The session is about to construct an item of the set.
Sets(s, items) ==
    /\ pc[s] = "next"
    /\ n[s] < Len(Setup(s))
    /\ Next1(s) \in items

\* The item is constructed, the next one follows.
Done(s) ==
    /\ pc' = [pc EXCEPT ![s] = "next"]
    /\ n' = [n EXCEPT ![s] = @ + 1]
    /\ UNCHANGED <<code, child, todo, status, crowd>>

\* An exception: what is constructed unwinds, main returns c.
Throw(s, c) ==
    /\ pc' = [pc EXCEPT ![s] = "unwind"]
    /\ code' = [code EXCEPT ![s] = c]
    /\ UNCHANGED <<n, child, todo, status, crowd>>

\* main() ends before it has changed anything: no privileges, help, no distro,
\* bad arguments, unknown user or group, no such root file system.
Refuse(s) ==
    /\ Goto(s, "idle", "done")
    /\ \E c \in 0..4 : code' = [code EXCEPT ![s] = c]
    /\ UNCHANGED <<n, child, todo, status, mnt, fs, crowd>>

Begin(s) ==
    LET others == {q \in Sessions \ {s} : Live(q)}
    IN  /\ Goto(s, "idle", "next")
        /\ crowd' = IF others = {} THEN crowd \ {s}
                                   ELSE crowd \cup {s} \cup others
        /\ UNCHANGED <<local, mnt, fs>>

\* A store directory: first exists(), then create_directory(), which fails
\* if the directory has appeared in between.
CheckStore(s) ==
    /\ Sets(s, Store)
    /\ IF Next1(s) \in store
         THEN Done(s)
         ELSE /\ Goto(s, "next", "second")
              /\ UNCHANGED <<local, crowd>>
    /\ UNCHANGED <<mnt, fs>>

CreateStore(s) ==
    /\ pc[s] = "second" /\ Next1(s) \in Store
    /\ IF Next1(s) \in store THEN Throw(s, 4) ELSE Done(s)
    /\ store' = store \cup {Next1(s)}
    /\ UNCHANGED <<mnt, made, sdirs, dirs>>

\* Mutant of Tmpdir: a directory that exists is an error.
TmpdirExclusive(s) ==
    /\ Sets(s, Tmpdirs)
    /\ IF /\ Next1(s) = "prefix" \/ "prefix" \in made
          /\ Next1(s) = "session" => s \notin sdirs
         THEN /\ Done(s)
              /\ IF Next1(s) = "session"
                   THEN sdirs' = sdirs \cup {s} /\ UNCHANGED made
                   ELSE made' = made \cup {Next1(s)} /\ UNCHANGED sdirs
         ELSE Throw(s, 4) /\ UNCHANGED <<made, sdirs>>
    /\ UNCHANGED <<mnt, dirs, store>>

\* tmpdir::tmpdir: a directory that exists already is taken over.
Tmpdir(s) ==
    /\ Sets(s, Tmpdirs)
    /\ IF Next1(s) = "prefix" \/ "prefix" \in made
         THEN /\ Done(s)
              /\ IF Next1(s) = "session"
                   THEN sdirs' = sdirs \cup {s} /\ UNCHANGED made
                   ELSE made' = made \cup {Next1(s)} /\ UNCHANGED sdirs
         ELSE Throw(s, 4) /\ UNCHANGED <<made, sdirs>>
    /\ UNCHANGED <<mnt, dirs, store>>

\* unshare() and the copying of configuration files and source packages.
Unshare(s) ==
    /\ Sets(s, {"unshare"})
    /\ \/ Done(s)
       \/ "unshare" \in Faulty /\ \E c \in {2, 4} : Throw(s, c)
    /\ UNCHANGED <<mnt, fs>>

\* mount::bind and mount::temp: create_directory(), whose result is ignored.
Mkdir(s) ==
    /\ Sets(s, Mounts \ {"proc"})
    /\ Bound(s, Next1(s))
    /\ Goto(s, "next", "second")
    /\ dirs' = dirs \cup ({Next1(s)} \cap DistroDirs)
    /\ UNCHANGED <<local, mnt, made, sdirs, store, crowd>>

\* Is the directory still there when it is mounted on?
Resolves(s, x) ==
    CASE x = "top"            -> s \in sdirs
      [] x \in {"pts", "shm"} -> "dev" \in mnt[s]
      [] OTHER                -> x \in dirs

Mount(s) ==
    LET x == Next1(s)
    IN  /\ pc[s] = "second" /\ x \in Mounts
        /\ \/ /\ Resolves(s, x)
              /\ mnt' = [mnt EXCEPT ![s] = @ \cup {x}]
              /\ Done(s)
           \/ /\ ~Resolves(s, x) \/ x \in Faulty
              /\ Throw(s, 4)
              /\ UNCHANGED mnt
        /\ UNCHANGED fs

\* An object that is constructed without mounting anything: an option that is
\* off, and proc_release, which is there to release what pid 1 mounts.
Empty(s) ==
    /\ Sets(s, Mounts)
    /\ Next1(s) = "proc" \/ ~Bound(s, Next1(s))
    /\ Done(s)
    /\ UNCHANGED <<mnt, fs>>

-----------------------------------------------------------------------------
(* fork_handler() in the parent *)

Ready(s) == pc[s] = "next" /\ n[s] = Len(Setup(s))

Fork(s) ==
    /\ Ready(s)
    /\ Goto(s, "next", "wait")
    /\ child' = [child EXCEPT ![s] = "chroot"]
    /\ \E t \in IF s \in Builders THEN 0..MaxTasks ELSE {1} :
          todo' = [todo EXCEPT ![s] = t]
    /\ UNCHANGED <<n, code, status, mnt, fs, crowd>>

\* fork() fails and so does waitpid(): the status is never written.
ForkFails(s) ==
    /\ Ready(s)
    /\ "fork" \in Faulty
    /\ \E c \in Codes : Throw(s, c)
    /\ UNCHANGED <<mnt, fs>>

\* waitpid() returns: main returns 0 or unwinds with the exit code.
Reap(s) ==
    /\ pc[s] = "wait" /\ child[s] = "ended"
    /\ Throw(s, WEXITSTATUS(status[s]))
    /\ UNCHANGED <<mnt, fs>>

-----------------------------------------------------------------------------
(* pid 1 in the chroot *)

ChildGoto(s, from, to) ==
    /\ child[s] = from
    /\ child' = [child EXCEPT ![s] = to]
    /\ UNCHANGED <<pc, n, code, crowd>>

\* pid 1 ends, and with a dead parent so does the namespace.
ChildEnds(s, from, w, mounts) ==
    /\ ChildGoto(s, from, "ended")
    /\ status' = [status EXCEPT ![s] = w]
    /\ mnt' = [mnt EXCEPT ![s] = IF pc[s] = "wait" THEN mounts ELSE {}]
    /\ UNCHANGED todo

\* mount::proc after chroot().
ChrootMkdir(s) ==
    /\ ChildGoto(s, "chroot", "procdir")
    /\ dirs' = dirs \cup {"proc"}
    /\ UNCHANGED <<todo, status, mnt, made, sdirs, store>>

ProcMount(s) ==
    /\ "proc" \in dirs
    /\ ChildGoto(s, "procdir", "work")
    /\ mnt' = [mnt EXCEPT ![s] = @ \cup {"proc"}]
    /\ UNCHANGED <<todo, status, fs>>

ProcMountFails(s) ==
    /\ "proc" \notin dirs \/ "proc" \in Faulty
    /\ ChildEnds(s, "procdir", Exited(4), mnt[s])
    /\ UNCHANGED fs

\* shellit: the shell or command ends.
Command(s) ==
    /\ s \notin Builders
    /\ \E c \in Codes : ChildEnds(s, "work", Exited(c), mnt[s])
    /\ UNCHANGED fs

\* Mutant of TaskMkdir: the loop does not advance to the next command.
TaskMkdirAgain(s) ==
    /\ s \in Builders /\ todo[s] > 0
    /\ ChildGoto(s, "work", "taskdir")
    /\ dirs' = dirs \cup {"tmp"}
    /\ UNCHANGED <<todo, status, mnt, made, sdirs, store>>

\* buildit: task() and debian() mount a tmpfs on /tmp around each command.
TaskMkdir(s) ==
    /\ s \in Builders /\ todo[s] > 0
    /\ ChildGoto(s, "work", "taskdir")
    /\ todo' = [todo EXCEPT ![s] = @ - 1]
    /\ dirs' = dirs \cup {"tmp"}
    /\ UNCHANGED <<status, mnt, made, sdirs, store>>

TaskMount(s) ==
    /\ "tmp" \in dirs
    /\ ChildGoto(s, "taskdir", "task")
    /\ mnt' = [mnt EXCEPT ![s] = @ \cup {"tmp"}]
    /\ UNCHANGED <<todo, status, fs>>

TaskMountFails(s) ==
    /\ "tmp" \notin dirs \/ "tmp" \in Faulty
    /\ ChildEnds(s, "taskdir", Exited(255), mnt[s])
    /\ UNCHANGED fs

\* Mutant of TaskEnds: /tmp stays mounted.
TaskEndsMounted(s) ==
    /\ ChildGoto(s, "task", "tasked")
    /\ \E c \in Codes : status' = [status EXCEPT ![s] = Exited(c)]
    /\ UNCHANGED <<todo, mnt, fs>>

\* The command ends; with or without an exception /tmp is released.
TaskEnds(s) ==
    /\ ChildGoto(s, "task", "tasked")
    /\ \E c \in Codes : status' = [status EXCEPT ![s] = Exited(c)]
    /\ mnt' = [mnt EXCEPT ![s] = @ \ {"tmp"}]
    /\ UNCHANGED <<todo, fs>>

\* What rmdir of a mount point x in the distro does for session s.
Removable(s, x) == x \in dirs \ Solid /\ x \notin mnt[s]

RemoveDir(s, x) ==
    IF Removable(s, x)
      THEN /\ dirs' = dirs \ {x}
           /\ mnt' = [q \in Sessions |-> mnt[q] \ {x}]
      ELSE UNCHANGED <<dirs, mnt>>

\* /tmp is removed, and the next command follows unless this one failed.
TaskRmdir(s) ==
    /\ RemoveDir(s, "tmp")
    /\ ChildGoto(s, "tasked", IF WEXITSTATUS(status[s]) = 0
                                THEN "work" ELSE "failed")
    /\ UNCHANGED <<todo, status, made, sdirs, store>>

BuildEnds(s) ==
    /\ \/ /\ s \in Builders /\ todo[s] = 0
          /\ ChildEnds(s, "work", Exited(0), mnt[s])
       \/ ChildEnds(s, "failed", status[s], mnt[s])
    /\ UNCHANGED fs

KillChild(s) ==
    /\ s \in ChildKillable
    /\ child[s] \in Working
    /\ ChildEnds(s, child[s], Killed, mnt[s])
    /\ UNCHANGED fs

-----------------------------------------------------------------------------
(* Unwinding *)

Popped(s) ==
    /\ pc' = [pc EXCEPT ![s] = "unwind"]
    /\ n' = [n EXCEPT ![s] = @ - 1]
    /\ UNCHANGED <<code, child, todo, status, crowd>>

Unwinds(s, items) == pc[s] = "unwind" /\ n[s] > 0 /\ Top1(s) \in items

\* Nothing to undo: no destructor, or an empty object.
PopEmpty(s) ==
    /\ \/ Unwinds(s, Store \cup {"unshare"})
       \/ Unwinds(s, Mounts) /\ ~Bound(s, Top1(s))
    /\ Popped(s)
    /\ UNCHANGED <<mnt, fs>>

\* Mutant of PopTmpdir: sources is not removed.
PopTmpdirSources(s) ==
    /\ Unwinds(s, Tmpdirs)
    /\ Popped(s)
    /\ sdirs' = IF Top1(s) = "session" /\ "top" \notin mnt[s]
                  THEN sdirs \ {s} ELSE sdirs
    /\ made' = IF Top1(s) = "prefix" /\ sdirs = {} /\ made = {"prefix"}
                 THEN {} ELSE made
    /\ UNCHANGED <<mnt, dirs, store>>

\* tmpdir::~tmpdir: rmdir, which fails if the directory is gone, not empty or
\* still mounted on.
PopTmpdir(s) ==
    /\ Unwinds(s, Tmpdirs)
    /\ Popped(s)
    /\ CASE Top1(s) = "session" ->
              /\ sdirs' = IF "top" \in mnt[s] THEN sdirs ELSE sdirs \ {s}
              /\ UNCHANGED made
         [] Top1(s) = "sources" ->
              made' = made \ {"sources"} /\ UNCHANGED sdirs
         [] OTHER ->
              /\ made' = IF sdirs = {} /\ made = {"prefix"} THEN {} ELSE made
              /\ UNCHANGED sdirs
    /\ UNCHANGED <<mnt, dirs, store>>

\* What is mounted below a mount point.
Below(x) == CASE x = "top" -> Mounts \ {"top"}
              [] x = "dev" -> {"pts", "shm"}
              [] OTHER     -> {}

Busy(s, x) == mnt[s] \cap Below(x) # {}

\* mountpoint::release: umount, whose result is ignored.
Umount(s) ==
    LET x == Top1(s)
    IN  /\ Unwinds(s, Mounts)
        /\ Bound(s, x)
        /\ Goto(s, "unwind", "rmdir")
        /\ mnt' = [mnt EXCEPT ![s] = IF Busy(s, x) THEN @ ELSE @ \ {x}]
        /\ UNCHANGED <<local, fs, crowd>>

\* Mutant of Rmdir: the directory is removed with what is in it.
RmdirRecursive(s) ==
    LET x == Top1(s)
    IN  /\ pc[s] = "rmdir"
        /\ Popped(s)
        /\ IF x \in DistroDirs \ mnt[s]
             THEN /\ dirs' = dirs \ {x}
                  /\ mnt' = [q \in Sessions |-> mnt[q] \ {x}]
             ELSE UNCHANGED <<dirs, mnt>>
        /\ sdirs' = IF x = "top" /\ "top" \notin mnt[s] THEN sdirs \ {s}
                                                        ELSE sdirs
        /\ UNCHANGED <<made, store>>

\* mountpoint::release: remove_directory.  The host's /dev/pts and /dev/shm
\* are mount points in every namespace and cannot be removed.
Rmdir(s) ==
    LET x == Top1(s)
    IN  /\ pc[s] = "rmdir"
        /\ Popped(s)
        /\ IF x \in DistroDirs THEN RemoveDir(s, x) ELSE UNCHANGED <<dirs, mnt>>
        /\ sdirs' = IF x = "top" /\ "top" \notin mnt[s] THEN sdirs \ {s}
                                                        ELSE sdirs
        /\ UNCHANGED <<made, store>>

\* The process exits, and with it its mount namespace.
Exit(s) ==
    /\ n[s] = 0
    /\ Goto(s, "unwind", "done")
    /\ mnt' = [mnt EXCEPT ![s] = {}]
    /\ UNCHANGED <<local, fs, crowd>>

-----------------------------------------------------------------------------
(* The environment *)

\* The parent is killed: nothing unwinds, and pid 1 works on by itself.
KillParent(s) ==
    /\ s \in ParentKillable
    /\ pc[s] \notin {"idle", "done"}
    /\ pc' = [pc EXCEPT ![s] = "done"]
    /\ n' = [n EXCEPT ![s] = 0]
    /\ mnt' = [mnt EXCEPT ![s] = IF child[s] \in Working THEN @ ELSE {}]
    /\ UNCHANGED <<code, child, todo, status, fs, crowd>>

\* A later session gets the same process id.
Rerun(s) ==
    /\ ~Live(s)
    /\ Goto(s, "done", "idle")
    /\ code' = [code EXCEPT ![s] = 0]
    /\ child' = [child EXCEPT ![s] = "none"]
    /\ todo' = [todo EXCEPT ![s] = 0]
    /\ status' = [status EXCEPT ![s] = 0]
    /\ UNCHANGED <<n, mnt, fs, crowd>>

-----------------------------------------------------------------------------
SetupStep(s) == \/ CheckStore(s) \/ CreateStore(s) \/ Tmpdir(s) \/ Unshare(s)
                \/ Mkdir(s) \/ Mount(s) \/ Empty(s)
ForkStep(s)  == Fork(s) \/ ForkFails(s) \/ Reap(s)
ChildStep(s) == \/ ChrootMkdir(s) \/ ProcMount(s) \/ ProcMountFails(s)
                \/ Command(s) \/ TaskMkdir(s) \/ TaskMount(s)
                \/ TaskMountFails(s) \/ TaskEnds(s) \/ TaskRmdir(s)
                \/ BuildEnds(s)
UnwindStep(s) == PopEmpty(s) \/ PopTmpdir(s) \/ Umount(s) \/ Rmdir(s) \/ Exit(s)

Parent(s) == SetupStep(s) \/ ForkStep(s) \/ UnwindStep(s)

Next == \E s \in Sessions :
            \/ Refuse(s) \/ Begin(s) \/ Parent(s) \/ ChildStep(s)
            \/ KillChild(s) \/ KillParent(s) \/ Rerun(s)

Spec == Init /\ [][Next]_vars

\* A process that can run does run, and the work in the chroot ends some day.
Fairness == \A s \in Sessions : WF_vars(Parent(s)) /\ WF_vars(ChildStep(s))

FairSpec == Spec /\ Fairness

-----------------------------------------------------------------------------
(* Properties *)

\* The variables have their types.
TypeOK ==
    /\ pc \in [Sessions -> {"idle", "next", "second", "wait", "unwind",
                            "rmdir", "done"}]
    /\ n \in [Sessions -> Nat]
    /\ \A s \in Sessions : n[s] <= Len(Setup(s))
    /\ code \in [Sessions -> 0..255]
    /\ child \in [Sessions -> Working \cup {"none", "ended"}]
    /\ todo \in [Sessions -> Nat]
    /\ status \in [Sessions -> Nat]
    /\ mnt \in [Sessions -> SUBSET Mounts]
    /\ made \in SUBSET {"prefix", "sources"}
    /\ sdirs \in SUBSET Sessions
    /\ dirs \in SUBSET DistroDirs
    /\ store \in SUBSET Store
    /\ crowd \in SUBSET Sessions

InUse(s) == pc[s] \notin {"idle", "done"}

\* Nothing stays behind in /tmp/.produceit: a session directory has a running
\* session, and prefix and sources are gone when the last session is, however
\* the sessions overlap and wherever they fail.
NoStrayDirs ==
    /\ \A s \in sdirs : InUse(s)
    /\ made # {} => \E s \in Sessions : InUse(s)

\* The mounts that are left when an object's destructor has run are those of
\* the objects still in scope: release() is never refused, not even for the
\* session's root, below which everything else is mounted.
OutOfScopeUnmounted ==
    \A s \in Sessions : pc[s] = "unwind"
                          => mnt[s] \subseteq {Setup(s)[i] : i \in 1..n[s]}

Wanted(s) == {x \in Mounts : /\ \E i \in 1..Len(Setup(s)) : Setup(s)[i] = x
                             /\ Bound(s, x)}

\* A session that runs alone, with nothing failing, gets as far as its command
\* and keeps every mount while it works, whatever killed sessions left behind.
LoneSucceeds ==
    \A s \in Sessions \ crowd :
        /\ pc[s] = "unwind" => child[s] = "ended"
        /\ child[s] \in {"work", "task"} => Wanted(s) \subseteq mnt[s]

\* Whatever other sessions do, a working session keeps its root, /dev,
\* /dev/pts, /dev/shm and everything on directories that are not empty.
SolidMountsKept ==
    \A s \in Sessions :
        child[s] \in {"work", "task"}
          => Wanted(s) \ mnt[s] \subseteq DistroDirs \ Solid

\* A session that has begun ends, with everything it constructed unwound.
SessionEnds == \A s \in Sessions : pc[s] = "next" ~> pc[s] = "done"

\* shellit.1: "Shellit creates bind mounts and a private namespace to run the
\* chroot in", so what a session has mounted stays while it works.
MountsIntact ==
    \A s \in Sessions : child[s] \in {"work", "task"}
                          => Wanted(s) \subseteq mnt[s]
=============================================================================
