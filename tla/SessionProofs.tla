--------------------------- MODULE SessionProofs ---------------------------
(***************************************************************************)
(* Theorems about overlapping shellit and buildit sessions, for every set  *)
(* of sessions, every distro and every setup fault.                        *)
(***************************************************************************)
EXTENDS Session, TLAPS

-----------------------------------------------------------------------------
(* Facts about the setup lists *)

LEMMA ShellitFacts ==
  /\ Len(ShellitSetup) = 18
  /\ \A i \in 1..18 :
       /\ ShellitSetup[i] \in Store \cup Tmpdirs \cup {"unshare"} \cup Mounts
       /\ ShellitSetup[i] = "prefix" <=> i = 3
       /\ ShellitSetup[i] = "session" <=> i = 4
       /\ ShellitSetup[i] # "sources"
       /\ ShellitSetup[i] \in Mounts => i >= 6
       /\ ShellitSetup[i] = "top" => i = 6
       /\ ShellitSetup[i] = "dev" => i = 8
       /\ ShellitSetup[i] \in {"pts", "shm"} => i > 8
       /\ ShellitSetup[i] = "proc" <=> i = 18
  BY DEF ShellitSetup, Store, Tmpdirs, Mounts, DistroDirs

LEMMA BuilditFacts ==
  /\ Len(BuilditSetup) = 17
  /\ \A i \in 1..17 :
       /\ BuilditSetup[i] \in Store \cup Tmpdirs \cup {"unshare"} \cup Mounts
       /\ BuilditSetup[i] = "prefix" <=> i = 3
       /\ BuilditSetup[i] = "session" <=> i = 4
       /\ BuilditSetup[i] = "sources" <=> i = 5
       /\ BuilditSetup[i] \in Mounts => i >= 7
       /\ BuilditSetup[i] = "top" => i = 7
       /\ BuilditSetup[i] = "dev" => i = 9
       /\ BuilditSetup[i] \in {"pts", "shm"} => i > 9
       /\ BuilditSetup[i] = "proc" <=> i = 17
  BY DEF BuilditSetup, Store, Tmpdirs, Mounts, DistroDirs

\* What the proofs use of the lists: the items are known ones, prefix and
\* session come before all that they hold, nothing mounted below another
\* mount point comes before it, and proc is the last item.
GoodList(L) ==
  /\ Len(L) \in Nat /\ Len(L) >= 5
  /\ \A i \in 1..Len(L) :
       /\ L[i] \in Store \cup Tmpdirs \cup {"unshare"} \cup Mounts
       /\ L[i] = "prefix" <=> i = 3
       /\ L[i] = "session" <=> i = 4
       /\ L[i] = "sources" => i = 5
       /\ L[i] \in Mounts => i > 5
       /\ L[i] = "proc" <=> i = Len(L)
  /\ \A i \in 1..Len(L) : \A j \in 1..i : L[j] \notin Below(L[i])

LEMMA ShellitGood == GoodList(ShellitSetup)
<1> DEFINE L == ShellitSetup
<1>1. ASSUME NEW i \in 1..18, NEW j \in 1..i PROVE L[j] \notin Below(L[i])
  <2>1. CASE L[i] = "top"
    BY <2>1, ShellitFacts DEF Below
  <2>2. CASE L[i] = "dev"
    BY <2>2, ShellitFacts DEF Below
  <2>3. CASE L[i] \notin {"top", "dev"}
    BY <2>3 DEF Below
  <2> QED
    BY <2>1, <2>2, <2>3
<1> HIDE DEF L
<1>2. /\ Len(L) = 18
      /\ \A i \in 1..18 :
           /\ L[i] \in Store \cup Tmpdirs \cup {"unshare"} \cup Mounts
           /\ L[i] = "prefix" <=> i = 3
           /\ L[i] = "session" <=> i = 4
           /\ L[i] # "sources"
           /\ L[i] \in Mounts => i > 5
           /\ L[i] = "proc" <=> i = 18
  BY ShellitFacts DEF L
<1>3. GoodList(L)
  BY <1>1, <1>2 DEF GoodList
<1> QED
  BY <1>3 DEF L

LEMMA BuilditGood == GoodList(BuilditSetup)
<1> DEFINE L == BuilditSetup
<1>1. ASSUME NEW i \in 1..17, NEW j \in 1..i PROVE L[j] \notin Below(L[i])
  <2>1. CASE L[i] = "top"
    BY <2>1, BuilditFacts DEF Below
  <2>2. CASE L[i] = "dev"
    BY <2>2, BuilditFacts DEF Below
  <2>3. CASE L[i] \notin {"top", "dev"}
    BY <2>3 DEF Below
  <2> QED
    BY <2>1, <2>2, <2>3
<1> HIDE DEF L
<1>2. /\ Len(L) = 17
      /\ \A i \in 1..17 :
           /\ L[i] \in Store \cup Tmpdirs \cup {"unshare"} \cup Mounts
           /\ L[i] = "prefix" <=> i = 3
           /\ L[i] = "session" <=> i = 4
           /\ L[i] = "sources" <=> i = 5
           /\ L[i] \in Mounts => i > 5
           /\ L[i] = "proc" <=> i = 17
  BY BuilditFacts DEF L
<1>3. GoodList(L)
  BY <1>1, <1>2 DEF GoodList
<1> QED
  BY <1>3 DEF L

LEMMA SetupGood == \A s : GoodList(Setup(s))
  BY ShellitGood, BuilditGood DEF Setup

LEMMA LenNat == \A s \in Sessions : Len(Setup(s)) \in Nat
  BY SetupGood DEF GoodList

-----------------------------------------------------------------------------
(* Type correctness *)

LEMMA StatusFacts ==
  /\ \A w \in Nat : WEXITSTATUS(w) \in 0..255
  /\ \A c \in 0..255 : Exited(c) \in Nat
  /\ Killed \in Nat
  BY DEF WEXITSTATUS, Exited, Killed

\* An item is left half constructed or half released only where there is one.
HalfWay ==
  \A s \in Sessions :
    /\ pc[s] = "second" => n[s] < Len(Setup(s)) /\ Next1(s) \in Store \cup Mounts
    /\ pc[s] = "rmdir" => n[s] > 0 /\ Top1(s) \in Mounts

\* The type invariant in two parts, the processes and what they act upon.
ProcOK ==
  /\ pc \in [Sessions -> {"idle", "next", "second", "wait", "unwind",
                          "rmdir", "done"}]
  /\ n \in [Sessions -> Nat]
  /\ \A s \in Sessions : n[s] <= Len(Setup(s))
  /\ code \in [Sessions -> 0..255]
  /\ child \in [Sessions -> Working \cup {"none", "ended"}]
  /\ todo \in [Sessions -> Nat]
  /\ status \in [Sessions -> Nat]
  /\ crowd \in SUBSET Sessions

FsOK ==
  /\ mnt \in [Sessions -> SUBSET Mounts]
  /\ made \in SUBSET {"prefix", "sources"}
  /\ sdirs \in SUBSET Sessions
  /\ dirs \in SUBSET DistroDirs
  /\ store \in SUBSET Store

TypeInv == ProcOK /\ HalfWay /\ FsOK

LEMMA TypeInit == Init => TypeInv
  BY SolidAssumption, LenNat
     DEF Init, TypeInv, ProcOK, FsOK, HalfWay, Working

LEMMA DoneType ==
  ASSUME ProcOK, HalfWay, NEW s \in Sessions, n[s] < Len(Setup(s)), Done(s)
  PROVE  ProcOK' /\ HalfWay'
<1>1. /\ pc' = [pc EXCEPT ![s] = "next"]
      /\ n' = [n EXCEPT ![s] = n[s] + 1]
      /\ UNCHANGED <<code, child, todo, status, crowd>>
  BY DEF Done
<1>2. \A q \in Sessions : n'[q] <= Len(Setup(q))
  BY <1>1, LenNat DEF ProcOK
<1>3. ProcOK'
  BY <1>1, <1>2 DEF ProcOK
<1>4. HalfWay'
  BY <1>1 DEF HalfWay, ProcOK, Next1, Top1
<1> QED
  BY <1>3, <1>4

LEMMA ThrowType ==
  ASSUME ProcOK, HalfWay, NEW s \in Sessions, NEW c \in 0..255, Throw(s, c)
  PROVE  ProcOK' /\ HalfWay'
  BY DEF ProcOK, HalfWay, Throw, Next1, Top1

LEMMA PoppedType ==
  ASSUME ProcOK, HalfWay, NEW s \in Sessions, n[s] > 0, Popped(s)
  PROVE  ProcOK' /\ HalfWay'
<1>1. /\ pc' = [pc EXCEPT ![s] = "unwind"]
      /\ n' = [n EXCEPT ![s] = n[s] - 1]
      /\ UNCHANGED <<code, child, todo, status, crowd>>
  BY DEF Popped
<1>2. \A q \in Sessions : n'[q] \in Nat /\ n'[q] <= Len(Setup(q))
  BY <1>1, LenNat DEF ProcOK
<1>3. ProcOK'
  BY <1>1, <1>2 DEF ProcOK
<1>4. HalfWay'
  BY <1>1 DEF HalfWay, ProcOK, Next1, Top1
<1> QED
  BY <1>3, <1>4

\* A step from one place in the code to another that constructs nothing.
LEMMA GotoType ==
  ASSUME ProcOK, HalfWay, NEW s \in Sessions, NEW to, UNCHANGED local,
         crowd' \in SUBSET Sessions, pc' = [pc EXCEPT ![s] = to],
         to \in {"idle", "next", "second", "wait", "unwind", "rmdir", "done"},
         to = "second" => /\ n[s] < Len(Setup(s))
                          /\ Next1(s) \in Store \cup Mounts,
         to = "rmdir" => n[s] > 0 /\ Top1(s) \in Mounts
  PROVE  ProcOK' /\ HalfWay'
  BY DEF ProcOK, HalfWay, local, Next1, Top1

LEMMA ChildType ==
  ASSUME ProcOK, HalfWay, UNCHANGED <<pc, n, code, crowd>>,
         child' \in [Sessions -> Working \cup {"none", "ended"}],
         todo' \in [Sessions -> Nat], status' \in [Sessions -> Nat]
  PROVE  ProcOK' /\ HalfWay'
  BY DEF ProcOK, HalfWay, Next1, Top1

LEMMA TypeSetup ==
  ASSUME TypeInv, NEW s \in Sessions, Refuse(s) \/ Begin(s) \/ SetupStep(s)
  PROVE  TypeInv'
<1> USE DEF TypeInv
<1>0. \A c \in {2, 4} : Throw(s, c) => ProcOK' /\ HalfWay'
  <2>1. {2, 4} \subseteq 0..255
    OBVIOUS
  <2> QED
    BY <2>1, ThrowType
<1>1. CASE Refuse(s)
  BY <1>1 DEF Refuse, Goto, fs, ProcOK, HalfWay, FsOK, Next1, Top1
<1>2. CASE Begin(s)
  <2>1. ProcOK' /\ HalfWay'
    BY <1>2, GotoType DEF Begin, Goto, ProcOK
  <2> QED
    BY <1>2, <2>1 DEF Begin, fs, FsOK
<1>3. CASE CheckStore(s)
  <2>1. ProcOK' /\ HalfWay'
    BY <1>3, GotoType, DoneType DEF CheckStore, Sets, Goto, ProcOK
  <2> QED
    BY <1>3, <2>1 DEF CheckStore, fs, FsOK
<1>4. CASE CreateStore(s)
  <2>1. n[s] < Len(Setup(s)) /\ Next1(s) \in Store
    BY <1>4 DEF CreateStore, HalfWay
  <2>2. ProcOK' /\ HalfWay'
    BY <1>0, <1>4, <2>1, DoneType DEF CreateStore
  <2> QED
    BY <1>4, <2>1, <2>2 DEF CreateStore, FsOK
<1>5. CASE Tmpdir(s)
  <2>1. ProcOK' /\ HalfWay'
    BY <1>0, <1>5, DoneType DEF Tmpdir, Sets
  <2>2. FsOK'
    BY <1>5 DEF Tmpdir, Sets, FsOK, Tmpdirs
  <2> QED
    BY <2>1, <2>2
<1>6. CASE Unshare(s)
  <2>1. ProcOK' /\ HalfWay'
    BY <1>0, <1>6, DoneType DEF Unshare, Sets
  <2> QED
    BY <1>6, <2>1 DEF Unshare, fs, FsOK
<1>7. CASE Mkdir(s)
  <2>1. ProcOK' /\ HalfWay'
    BY <1>7, GotoType DEF Mkdir, Sets, Goto, ProcOK
  <2> QED
    BY <1>7, <2>1 DEF Mkdir, FsOK
<1>8. CASE Mount(s)
  <2>1. n[s] < Len(Setup(s))
    BY <1>8 DEF Mount, HalfWay
  <2>2. ProcOK' /\ HalfWay'
    BY <1>0, <1>8, <2>1, DoneType DEF Mount
  <2>3. FsOK'
    BY <1>8 DEF Mount, fs, FsOK
  <2> QED
    BY <2>2, <2>3
<1>9. CASE Empty(s)
  <2>1. ProcOK' /\ HalfWay'
    BY <1>9, DoneType DEF Empty, Sets
  <2> QED
    BY <1>9, <2>1 DEF Empty, fs, FsOK
<1> QED
  BY <1>1, <1>2, <1>3, <1>4, <1>5, <1>6, <1>7, <1>8, <1>9 DEF SetupStep

LEMMA TypeChild ==
  ASSUME TypeInv, NEW s \in Sessions, ForkStep(s) \/ ChildStep(s) \/ KillChild(s)
  PROVE  TypeInv'
<1> USE DEF TypeInv
<1>1. CASE Fork(s)
  <2>1. PICK t \in IF s \in Builders THEN 0..MaxTasks ELSE {1} :
               todo' = [todo EXCEPT ![s] = t]
    BY <1>1 DEF Fork
  <2>2. t \in Nat
    BY TasksAssumption
  <2> QED
    BY <1>1, <2>1, <2>2
       DEF Fork, Ready, Goto, fs, ProcOK, HalfWay, FsOK, Working, Next1, Top1
<1>2. CASE ForkFails(s)
  BY <1>2, ThrowType, CodesAssumption DEF ForkFails, fs, FsOK
<1>3. CASE Reap(s)
  <2>1. WEXITSTATUS(status[s]) \in 0..255
    BY StatusFacts DEF ProcOK
  <2> QED
    BY <1>3, <2>1, ThrowType DEF Reap, fs, FsOK
<1>4. CASE ChrootMkdir(s) \/ TaskMkdir(s)
  <2>1. todo' \in [Sessions -> Nat]
    <3>1. CASE TaskMkdir(s)
      <4>1. todo[s] - 1 \in Nat
        BY <3>1 DEF TaskMkdir, ProcOK
      <4> QED
        BY <3>1, <4>1 DEF TaskMkdir, ProcOK
    <3> QED
      BY <1>4, <3>1 DEF ChrootMkdir, ProcOK
  <2>2. ProcOK' /\ HalfWay'
    BY <1>4, <2>1, ChildType
       DEF ChrootMkdir, TaskMkdir, ChildGoto, ProcOK, Working
  <2> QED
    BY <1>4, <2>2 DEF ChrootMkdir, TaskMkdir, FsOK, DistroDirs
<1>5. CASE ProcMount(s) \/ TaskMount(s)
  <2>1. ProcOK' /\ HalfWay'
    BY <1>5, ChildType DEF ProcMount, TaskMount, ChildGoto, ProcOK, Working
  <2> QED
    BY <1>5, <2>1 DEF ProcMount, TaskMount, fs, FsOK, Mounts, DistroDirs
<1>6. CASE TaskEnds(s)
  <2>1. PICK c \in Codes : status' = [status EXCEPT ![s] = Exited(c)]
    BY <1>6 DEF TaskEnds
  <2>2. status' \in [Sessions -> Nat]
    BY <2>1, StatusFacts, CodesAssumption DEF ProcOK
  <2>3. ProcOK' /\ HalfWay'
    BY <1>6, <2>2, ChildType DEF TaskEnds, ChildGoto, ProcOK, Working
  <2> QED
    BY <1>6, <2>3 DEF TaskEnds, fs, FsOK
<1>7. CASE TaskRmdir(s)
  <2>1. ProcOK' /\ HalfWay'
    BY <1>7, ChildType DEF TaskRmdir, ChildGoto, ProcOK, Working
  <2> QED
    BY <1>7, <2>1 DEF TaskRmdir, RemoveDir, FsOK
<1>8. ASSUME NEW from, NEW w \in Nat, ChildEnds(s, from, w, mnt[s]),
             UNCHANGED fs
      PROVE  TypeInv'
  <2>1. ProcOK' /\ HalfWay'
    BY <1>8, ChildType DEF ChildEnds, ChildGoto, ProcOK
  <2> QED
    BY <1>8, <2>1 DEF ChildEnds, fs, FsOK
<1>9. CASE ProcMountFails(s) \/ TaskMountFails(s) \/ KillChild(s)
  <2>1. Exited(4) \in Nat /\ Exited(255) \in Nat /\ Killed \in Nat
    BY DEF Exited, Killed
  <2> QED
    BY <1>8, <1>9, <2>1 DEF ProcMountFails, TaskMountFails, KillChild
<1>10. CASE Command(s)
  <2>1. PICK c \in Codes : ChildEnds(s, "work", Exited(c), mnt[s])
    BY <1>10 DEF Command
  <2> QED
    BY <1>8, <1>10, <2>1, StatusFacts, CodesAssumption DEF Command
<1>11. CASE BuildEnds(s)
  <2>1. Exited(0) \in Nat /\ status[s] \in Nat
    BY DEF Exited, ProcOK
  <2> QED
    BY <1>8, <1>11, <2>1 DEF BuildEnds
<1> QED
  BY <1>1, <1>2, <1>3, <1>4, <1>5, <1>6, <1>7, <1>9, <1>10, <1>11
     DEF ForkStep, ChildStep

LEMMA TypeUnwind ==
  ASSUME TypeInv, NEW s \in Sessions, UnwindStep(s) \/ KillParent(s) \/ Rerun(s)
  PROVE  TypeInv'
<1> USE DEF TypeInv
<1>1. CASE PopEmpty(s)
  BY <1>1, PoppedType DEF PopEmpty, Unwinds, fs, FsOK
<1>2. CASE PopTmpdir(s)
  <2>1. ProcOK' /\ HalfWay'
    BY <1>2, PoppedType DEF PopTmpdir, Unwinds
  <2> QED
    BY <1>2, <2>1 DEF PopTmpdir, FsOK
<1>3. CASE Umount(s)
  <2>1. ProcOK' /\ HalfWay'
    BY <1>3, GotoType DEF Umount, Unwinds, Goto, ProcOK
  <2> QED
    BY <1>3, <2>1 DEF Umount, fs, FsOK
<1>4. CASE Rmdir(s)
  <2>1. ProcOK' /\ HalfWay'
    BY <1>4, PoppedType DEF Rmdir, HalfWay
  <2> QED
    BY <1>4, <2>1 DEF Rmdir, RemoveDir, FsOK
<1>5. CASE Exit(s)
  BY <1>5 DEF Exit, Goto, fs, local, ProcOK, HalfWay, FsOK, Next1, Top1
<1>6. CASE KillParent(s)
  <2>1. \A q \in Sessions : n'[q] \in Nat /\ n'[q] <= Len(Setup(q))
    BY <1>6, LenNat DEF KillParent, ProcOK
  <2> QED
    BY <1>6, <2>1 DEF KillParent, fs, ProcOK, HalfWay, FsOK, Next1, Top1
<1>7. CASE Rerun(s)
  BY <1>7 DEF Rerun, Goto, fs, ProcOK, HalfWay, FsOK, Next1, Top1
<1> QED
  BY <1>1, <1>2, <1>3, <1>4, <1>5, <1>6, <1>7 DEF UnwindStep

LEMMA TypeNext == TypeInv /\ [Next]_vars => TypeInv'
<1>1. ASSUME TypeInv, UNCHANGED vars PROVE TypeInv'
  BY <1>1 DEF vars, local, fs, TypeInv, ProcOK, FsOK, HalfWay, Next1, Top1
<1> QED
  BY <1>1, TypeSetup, TypeChild, TypeUnwind DEF Next, Parent

\* The variables of every session keep their types, whatever fails or is killed:
\* no destructor runs without its object, and every exit code is a byte.
THEOREM TypeCorrect == Spec => []TypeOK
<1>1. TypeInv => TypeOK
  BY DEF TypeInv, ProcOK, FsOK, TypeOK
<1> QED
  BY <1>1, TypeInit, TypeNext, PTL DEF Spec

-----------------------------------------------------------------------------
(* What goes out of scope is unmounted *)

\* The parent is never killed, and pid 1 only where it has mounted no /tmp.
Gentle == ParentKillable = {} /\ Builders \cap ChildKillable = {}

Phases ==
  \A s \in Sessions :
    /\ pc[s] \in {"idle", "done"} => n[s] = 0
    /\ pc[s] = "second" /\ Next1(s) \in Mounts => Bound(s, Next1(s))
    /\ pc[s] = "wait" => n[s] = Len(Setup(s))
    /\ child[s] \in Working => pc[s] = "wait"
    /\ child[s] \in {"taskdir", "task"} => s \in Builders

\* The items whose mounts may exist: those constructed and not yet unmounted,
\* and the /tmp of a running build command.
InScope(s) ==
  {x \in Mounts :
     /\ Bound(s, x)
     /\ \/ \E i \in 1..(IF pc[s] = "rmdir" THEN n[s] - 1 ELSE n[s]) :
             Setup(s)[i] = x
        \/ child[s] = "task" /\ x = "tmp"}

Scoped == \A s \in Sessions : mnt[s] \subseteq InScope(s)

ScopeInv == TypeInv /\ Phases /\ Scoped

LEMMA ScopeInit == Init => ScopeInv
  BY TypeInit DEF Init, ScopeInv, Phases, Scoped, InScope, Working

\* A step of s leaves the other sessions alone but for mounts it detaches.
StepOf(s) ==
  \A q \in Sessions \ {s} : /\ mnt'[q] \subseteq mnt[q]
                            /\ pc'[q] = pc[q]
                            /\ n'[q] = n[q]
                            /\ child'[q] = child[q]

\* Such a step of s while it constructs or works.
Extends(s) ==
  /\ StepOf(s)
  /\ pc[s] # "rmdir" /\ pc'[s] # "rmdir"
  /\ n'[s] \in Nat /\ n'[s] >= n[s]
  /\ child[s] = "task" => child'[s] = "task"

\* It is enough to look at the session that takes the step.
LEMMA OneSession ==
  ASSUME NEW s \in Sessions, Scoped, StepOf(s), mnt'[s] \subseteq InScope(s)'
  PROVE  Scoped'
  BY DEF Scoped, InScope, StepOf

LEMMA ScopeKept ==
  ASSUME NEW s \in Sessions, TypeInv, Scoped, Extends(s),
         mnt'[s] \subseteq mnt[s] \cup InScope(s)'
  PROVE  Scoped'
<1>1. InScope(s) \subseteq InScope(s)'
  BY DEF Extends, InScope, TypeInv, ProcOK
<1>2. mnt[s] \subseteq InScope(s) /\ StepOf(s)
  BY DEF Scoped, Extends
<1> QED
  BY <1>1, <1>2, OneSession

LEMMA PhasesNext ==
  ASSUME Gentle, TypeInv, Phases, [Next]_vars PROVE Phases'
<1> USE LenNat DEF Gentle, TypeInv, ProcOK, Phases, Next1
<1>1. ASSUME NEW s \in Sessions, pc[s] \in {"next", "second", "unwind"},
             Done(s) \/ (\E c : Throw(s, c))
      PROVE  Phases'
  BY <1>1 DEF Done, Throw
<1>2. ASSUME NEW s \in Sessions, Refuse(s) \/ Begin(s) PROVE Phases'
  BY <1>2 DEF Refuse, Begin, Goto, local
<1>3. ASSUME NEW s \in Sessions, SetupStep(s) PROVE Phases'
  <2>1. CASE CheckStore(s) \/ Mkdir(s)
    BY <1>1, <2>1 DEF CheckStore, Mkdir, Sets, Goto, local, Store, Mounts,
                      DistroDirs
  <2>2. CASE CreateStore(s) \/ Tmpdir(s) \/ Unshare(s) \/ Mount(s) \/ Empty(s)
    BY <1>1, <2>2 DEF CreateStore, Tmpdir, Unshare, Mount, Empty, Sets
  <2> QED
    BY <1>3, <2>1, <2>2 DEF SetupStep
<1>4. ASSUME NEW s \in Sessions, Fork(s) PROVE Phases'
  BY <1>4 DEF Fork, Ready, Goto, Working
<1>5. ASSUME NEW s \in Sessions, ForkFails(s) PROVE Phases'
  BY <1>1, <1>5 DEF ForkFails, Ready
<1>6. ASSUME NEW s \in Sessions, Reap(s) PROVE Phases'
  BY <1>6 DEF Reap, Throw, Working
<1>7. ASSUME NEW s \in Sessions, ChrootMkdir(s) \/ ProcMount(s) \/ TaskMkdir(s)
      PROVE  Phases'
  BY <1>7 DEF ChrootMkdir, ProcMount, TaskMkdir, ChildGoto, Working
<1>8. ASSUME NEW s \in Sessions, NEW from \in Working, NEW w,
             ChildEnds(s, from, w, mnt[s])
      PROVE  Phases'
  BY <1>8 DEF ChildEnds, ChildGoto, Working
<1>9. ASSUME NEW s \in Sessions,
             \/ ProcMountFails(s) \/ Command(s) \/ TaskMountFails(s)
             \/ BuildEnds(s) \/ KillChild(s)
      PROVE  Phases'
  BY <1>8, <1>9 DEF ProcMountFails, Command, TaskMountFails, BuildEnds,
                    KillChild, Working
<1>10. ASSUME NEW s \in Sessions, TaskMount(s) \/ TaskEnds(s) \/ TaskRmdir(s)
       PROVE  Phases'
  BY <1>10 DEF TaskMount, TaskEnds, TaskRmdir, ChildGoto, Working
<1>11. ASSUME NEW s \in Sessions, UnwindStep(s) PROVE Phases'
  <2>1. CASE PopEmpty(s) \/ PopTmpdir(s) \/ Rmdir(s)
    BY <1>11, <2>1 DEF PopEmpty, PopTmpdir, Rmdir, Unwinds, Popped
  <2>2. CASE Umount(s) \/ Exit(s)
    BY <1>11, <2>2 DEF Umount, Exit, Unwinds, Goto, local
  <2> QED
    BY <1>11, <2>1, <2>2 DEF UnwindStep
<1>12. ASSUME NEW s \in Sessions, Rerun(s) PROVE Phases'
  BY <1>12 DEF Rerun, Goto, Working
<1>13. ASSUME NEW s \in Sessions, KillParent(s) PROVE FALSE
  BY <1>13 DEF KillParent
<1>14. CASE UNCHANGED vars
  BY <1>14 DEF vars, local
<1> QED
  BY <1>2, <1>3, <1>4, <1>5, <1>6, <1>7, <1>9, <1>10, <1>11, <1>12, <1>13,
     <1>14 DEF Next, Parent, ForkStep, ChildStep

\* umount in release() is not refused: no item below was constructed before.
LEMMA UmountNotBusy ==
  ASSUME ScopeInv, NEW s \in Sessions, Umount(s)
  PROVE  /\ mnt'[s] = mnt[s] \ {Top1(s)}
         /\ mnt[s] \subseteq {Setup(s)[i] : i \in 1..n[s]}
<1>1. n[s] \in 1..Len(Setup(s)) /\ pc[s] = "unwind"
  BY LenNat DEF Umount, Unwinds, ScopeInv, TypeInv, ProcOK
<1>2. mnt[s] \subseteq {Setup(s)[i] : i \in 1..n[s]}
  BY <1>1 DEF ScopeInv, Phases, Scoped, InScope, Working
<1>3. \A j \in 1..n[s] : Setup(s)[j] \notin Below(Top1(s))
  BY <1>1, SetupGood DEF GoodList, Top1
<1>4. ~Busy(s, Top1(s))
  BY <1>2, <1>3 DEF Busy
<1> QED
  BY <1>2, <1>4 DEF Umount, ScopeInv, TypeInv, FsOK

LEMMA ScopedSetup ==
  ASSUME ScopeInv, NEW s \in Sessions, Refuse(s) \/ Begin(s) \/ SetupStep(s)
  PROVE  Scoped'
<1> USE DEF ScopeInv
<1>1. ASSUME pc[s] \in {"next", "second"}, Done(s),
             \/ mnt' = mnt
             \/ /\ mnt' = [mnt EXCEPT ![s] = mnt[s] \cup {Next1(s)}]
                /\ Next1(s) \in Mounts /\ Bound(s, Next1(s))
      PROVE  Scoped'
  <2>1. n'[s] = n[s] + 1 /\ n[s] \in Nat /\ pc'[s] = "next" /\ child' = child
    BY <1>1 DEF Done, TypeInv, ProcOK
  <2>2. Extends(s)
    BY <1>1, <2>1 DEF Extends, StepOf, Done, TypeInv, ProcOK, FsOK
  <2>3. CASE mnt' = mnt
    BY <2>2, <2>3, ScopeKept
  <2>4. CASE /\ mnt' = [mnt EXCEPT ![s] = mnt[s] \cup {Next1(s)}]
             /\ Next1(s) \in Mounts /\ Bound(s, Next1(s))
    <3>1. n[s] + 1 \in 1..n'[s] /\ pc'[s] # "rmdir"
      BY <2>1
    <3>2. Setup(s)[n[s] + 1] \in InScope(s)'
      BY <2>4, <3>1 DEF InScope, Next1
    <3>3. mnt'[s] = mnt[s] \cup {Setup(s)[n[s] + 1]}
      BY <2>4 DEF Next1, TypeInv, FsOK
    <3> QED
      BY <2>2, <3>2, <3>3, ScopeKept
  <2> QED
    BY <1>1, <2>3, <2>4
<1>2. ASSUME pc[s] # "rmdir", NEW c, Throw(s, c), mnt' = mnt
      PROVE  Scoped'
  <2>1. Extends(s)
    BY <1>2 DEF Extends, StepOf, Throw, TypeInv, ProcOK
  <2> QED
    BY <1>2, <2>1, ScopeKept
<1>3. ASSUME NEW to, to # "rmdir", pc[s] # "rmdir",
             pc' = [pc EXCEPT ![s] = to], UNCHANGED <<n, child, mnt>>
      PROVE  Scoped'
  <2>1. Extends(s)
    BY <1>3 DEF Extends, StepOf, TypeInv, ProcOK
  <2> QED
    BY <1>3, <2>1, ScopeKept
<1>4. CASE Refuse(s) \/ Begin(s)
  BY <1>3, <1>4 DEF Refuse, Begin, Goto, local
<1>5. CASE CheckStore(s)
  BY <1>1, <1>3, <1>5 DEF CheckStore, Sets, Goto, local
<1>6. CASE Mkdir(s)
  BY <1>3, <1>6 DEF Mkdir, Sets, Goto, local
<1>7. CASE CreateStore(s) \/ Tmpdir(s) \/ Unshare(s) \/ Empty(s)
  BY <1>1, <1>2, <1>7 DEF CreateStore, Tmpdir, Unshare, Empty, Sets
<1>8. CASE Mount(s)
  BY <1>1, <1>2, <1>8 DEF Mount, Phases
<1> QED
  BY <1>4, <1>5, <1>6, <1>7, <1>8 DEF SetupStep

LEMMA ScopedChild ==
  ASSUME Gentle, ScopeInv, NEW s \in Sessions,
         ForkStep(s) \/ ChildStep(s) \/ KillChild(s)
  PROVE  Scoped'
<1> USE DEF ScopeInv
<1>1. CASE Fork(s)
  <2>1. child[s] # "task"
    BY <1>1 DEF Fork, Ready, Phases, Working
  <2>2. Extends(s)
    BY <1>1, <2>1 DEF Extends, StepOf, Fork, Ready, Goto, TypeInv, ProcOK
  <2> QED
    BY <1>1, <2>2, ScopeKept DEF Fork
<1>2. CASE ForkFails(s) \/ Reap(s)
  <2>1. Extends(s)
    BY <1>2 DEF ForkFails, Ready, Reap, Throw, Extends, StepOf, TypeInv, ProcOK
  <2> QED
    BY <1>2, <2>1, ScopeKept DEF ForkFails, Reap
<1>3. ASSUME NEW from, NEW to, from # "task", from \in Working,
             ChildGoto(s, from, to),
             \A q \in Sessions \ {s} : mnt'[q] \subseteq mnt[q]
      PROVE  Extends(s) /\ pc'[s] = "wait" /\ n' = n /\ n[s] = Len(Setup(s))
  BY <1>3 DEF Extends, StepOf, ChildGoto, TypeInv, ProcOK, Phases
<1>4. CASE ChrootMkdir(s) \/ TaskMkdir(s)
  <2>1. Extends(s)
    BY <1>3, <1>4 DEF ChrootMkdir, TaskMkdir, Working
  <2> QED
    BY <1>4, <2>1, ScopeKept DEF ChrootMkdir, TaskMkdir
<1>5. CASE ProcMount(s)
  <2>1. mnt' = [mnt EXCEPT ![s] = mnt[s] \cup {"proc"}]
    BY <1>5 DEF ProcMount
  <2>2. Extends(s) /\ pc'[s] = "wait" /\ n' = n /\ n[s] = Len(Setup(s))
    BY <1>3, <1>5, <2>1 DEF ProcMount, Working, TypeInv, FsOK
  <2>3. Setup(s)[n[s]] = "proc" /\ n[s] \in 1..n[s]
    BY <2>2, SetupGood DEF GoodList
  <2>4. "proc" \in InScope(s)'
    BY <2>2, <2>3 DEF InScope, Bound, Mounts, DistroDirs
  <2> QED
    BY <2>1, <2>2, <2>4, ScopeKept DEF TypeInv, FsOK
<1>6. CASE TaskMount(s)
  <2>1. mnt' = [mnt EXCEPT ![s] = mnt[s] \cup {"tmp"}]
    BY <1>6 DEF TaskMount
  <2>2. Extends(s)
    BY <1>3, <1>6, <2>1 DEF TaskMount, Working, TypeInv, FsOK
  <2>3. child'[s] = "task"
    BY <1>6 DEF TaskMount, ChildGoto, TypeInv, ProcOK
  <2>4. "tmp" \in InScope(s)'
    BY <2>3 DEF InScope, Bound, Mounts, DistroDirs
  <2> QED
    BY <2>1, <2>2, <2>4, ScopeKept DEF TypeInv, FsOK
<1>7. CASE TaskEnds(s)
  <2>1. /\ mnt'[s] = mnt[s] \ {"tmp"} /\ UNCHANGED <<pc, n>>
        /\ StepOf(s)
    BY <1>7 DEF TaskEnds, ChildGoto, StepOf, TypeInv, ProcOK, FsOK
  <2>2. mnt'[s] \subseteq InScope(s)'
    BY <2>1 DEF Scoped, InScope
  <2> QED
    BY <2>1, <2>2, OneSession
<1>8. CASE TaskRmdir(s)
  <2>1. \A q \in Sessions : mnt'[q] \subseteq mnt[q]
    BY <1>8 DEF TaskRmdir, RemoveDir
  <2>2. Extends(s)
    BY <1>3, <1>8, <2>1 DEF TaskRmdir, Working
  <2> QED
    BY <2>1, <2>2, ScopeKept
<1>9. ASSUME NEW from \in Working, from # "task", NEW w,
             ChildEnds(s, from, w, mnt[s])
      PROVE  Scoped'
  <2>1. \A q \in Sessions : mnt'[q] \subseteq mnt[q]
    BY <1>9 DEF ChildEnds, TypeInv, FsOK
  <2>2. Extends(s)
    BY <1>3, <1>9, <2>1 DEF ChildEnds
  <2> QED
    BY <2>1, <2>2, ScopeKept
<1>10. CASE ProcMountFails(s) \/ Command(s) \/ TaskMountFails(s) \/ BuildEnds(s)
  BY <1>9, <1>10
     DEF ProcMountFails, Command, TaskMountFails, BuildEnds, Working
<1>11. CASE KillChild(s)
  BY <1>9, <1>11 DEF KillChild, Gentle, Phases
<1> QED
  BY <1>1, <1>2, <1>4, <1>5, <1>6, <1>7, <1>8, <1>10, <1>11
     DEF ForkStep, ChildStep

LEMMA ScopedUnwind ==
  ASSUME ScopeInv, NEW s \in Sessions, UnwindStep(s) \/ Rerun(s)
  PROVE  Scoped'
<1> USE DEF ScopeInv
<1>1. CASE PopEmpty(s) \/ PopTmpdir(s)
  <2>1. /\ n[s] > 0 /\ pc[s] = "unwind" /\ Popped(s) /\ mnt' = mnt
        /\ ~(Top1(s) \in Mounts /\ Bound(s, Top1(s)))
    BY <1>1 DEF PopEmpty, PopTmpdir, Unwinds, Store, Tmpdirs, Mounts, DistroDirs
  <2>2. /\ n[s] \in Nat /\ n'[s] = n[s] - 1 /\ pc'[s] = "unwind"
        /\ child' = child /\ StepOf(s)
    BY <2>1 DEF Popped, StepOf, TypeInv, ProcOK
  <2>3. mnt'[s] \subseteq InScope(s)'
    BY <2>1, <2>2 DEF Scoped, InScope, Top1
  <2> QED
    BY <2>2, <2>3, OneSession
<1>2. CASE Umount(s)
  <2>1. mnt' = [mnt EXCEPT ![s] = mnt[s] \ {Top1(s)}]
    BY <1>2, UmountNotBusy DEF Umount, TypeInv, FsOK
  <2>2. /\ n[s] > 0 /\ n[s] \in Nat /\ pc[s] = "unwind" /\ n' = n
        /\ pc'[s] = "rmdir" /\ child' = child /\ StepOf(s)
    BY <1>2, <2>1
       DEF Umount, Unwinds, Goto, local, StepOf, TypeInv, ProcOK, FsOK
  <2>3. mnt'[s] \subseteq InScope(s)'
    BY <2>1, <2>2 DEF Scoped, InScope, Top1, TypeInv, FsOK
  <2> QED
    BY <2>2, <2>3, OneSession
<1>3. CASE Rmdir(s)
  <2>1. /\ pc[s] = "rmdir" /\ pc'[s] = "unwind" /\ n'[s] = n[s] - 1
        /\ child' = child
    BY <1>3 DEF Rmdir, Popped, TypeInv, ProcOK
  <2>2. \A q \in Sessions : mnt'[q] \subseteq mnt[q]
    BY <1>3 DEF Rmdir, RemoveDir
  <2>3. mnt'[s] \subseteq InScope(s)'
    BY <2>1, <2>2 DEF Scoped, InScope
  <2> QED
    BY <1>3, <2>2, <2>3, OneSession DEF Rmdir, Popped, StepOf, TypeInv, ProcOK
<1>4. CASE Exit(s)
  <2>1. mnt'[s] = {} /\ StepOf(s)
    BY <1>4 DEF Exit, Goto, local, StepOf, TypeInv, ProcOK, FsOK
  <2> QED
    BY <2>1, OneSession
<1>5. CASE Rerun(s)
  <2>1. Extends(s) /\ mnt' = mnt
    BY <1>5 DEF Rerun, Goto, Live, Working, Extends, StepOf, TypeInv, ProcOK
  <2> QED
    BY <2>1, ScopeKept
<1> QED
  BY <1>1, <1>2, <1>3, <1>4, <1>5 DEF UnwindStep

LEMMA ScopedNext ==
  ASSUME Gentle, ScopeInv, [Next]_vars PROVE Scoped'
<1>1. ASSUME NEW s \in Sessions, KillParent(s) PROVE FALSE
  BY <1>1 DEF KillParent, Gentle
<1>2. CASE UNCHANGED vars
  BY <1>2 DEF vars, local, ScopeInv, Scoped, InScope
<1> QED
  BY <1>1, <1>2, ScopedSetup, ScopedChild, ScopedUnwind DEF Next, Parent

LEMMA ScopeAlways == ASSUME Gentle PROVE Spec => []ScopeInv
<1>1. ScopeInv /\ [Next]_vars => ScopeInv'
  BY TypeNext, PhasesNext, ScopedNext DEF ScopeInv
<1> QED
  BY <1>1, ScopeInit, PTL DEF Spec

\* However many sessions overlap and whatever fails, what a session still has
\* mounted while it unwinds belongs to objects that are still in scope.
THEOREM Unmounted == ASSUME Gentle PROVE Spec => []OutOfScopeUnmounted
<1>1. ScopeInv => OutOfScopeUnmounted
  BY DEF ScopeInv, Scoped, InScope, Phases, Working, OutOfScopeUnmounted
<1> QED
  BY <1>1, ScopeAlways, PTL

-----------------------------------------------------------------------------
(* Nothing stays behind in /tmp/.produceit *)

\* Only buildit has a sources directory, its fifth item.
LEMMA SourcesFacts ==
  ASSUME NEW s
  PROVE  /\ s \in Builders => Setup(s)[5] = "sources"
         /\ \A i \in 1..Len(Setup(s)) : Setup(s)[i] = "sources" => s \in Builders
<1>1. BuilditSetup[5] = "sources"
  BY DEF BuilditSetup
<1>2. \A i \in 1..Len(ShellitSetup) : ShellitSetup[i] # "sources"
  BY ShellitFacts
<1> QED
  BY <1>1, <1>2 DEF Setup

\* Every directory is held by a session that has constructed it and has not
\* yet destroyed it.
Held ==
  /\ \A s \in sdirs : n[s] >= 4
  /\ "sources" \in made => \E s \in Builders : n[s] >= 5
  /\ "prefix" \in made => \E s \in Sessions : n[s] >= 3

HeldInv == ScopeInv /\ Held

\* Steps that destroy no object and create no directory.
LEMMA HeldKept ==
  ASSUME TypeInv, TypeInv', Held, made' \subseteq made, sdirs' \subseteq sdirs,
         \A q \in Sessions : n'[q] >= n[q]
  PROVE  Held'
<1>1. \A q \in Sessions : n[q] \in Nat /\ n'[q] \in Nat
  BY DEF TypeInv, ProcOK
<1>2. Builders \subseteq Sessions /\ sdirs \subseteq Sessions
  BY SessionsAssumption DEF TypeInv, FsOK
<1> QED
  BY <1>1, <1>2 DEF Held

LEMMA HeldSetup ==
  ASSUME TypeInv, TypeInv', Held, NEW s \in Sessions,
         Refuse(s) \/ Begin(s) \/ SetupStep(s)
  PROVE  Held'
<1>1. ASSUME Done(s) \/ (\E c : Throw(s, c)) \/ n' = n
      PROVE  \A q \in Sessions : n'[q] >= n[q]
  <2>1. n \in [Sessions -> Nat]
    BY DEF TypeInv, ProcOK
  <2>2. n' = [n EXCEPT ![s] = n[s] + 1] \/ n' = n
    BY <1>1 DEF Done, Throw
  <2> QED
    BY <2>1, <2>2
<1>2. CASE Refuse(s) \/ Begin(s)
  BY <1>1, <1>2, HeldKept DEF Refuse, Begin, local, fs
<1>3. CASE \/ CheckStore(s) \/ CreateStore(s) \/ Unshare(s) \/ Mkdir(s)
           \/ Mount(s) \/ Empty(s)
  <2>1. \A q \in Sessions : n'[q] >= n[q]
    BY <1>1, <1>3
       DEF CheckStore, CreateStore, Unshare, Mkdir, Mount, Empty, local
  <2>2. made' = made /\ sdirs' = sdirs
    BY <1>3 DEF CheckStore, CreateStore, Unshare, Mkdir, Mount, Empty, fs
  <2> QED
    BY <2>1, <2>2, HeldKept
<1>4. CASE Tmpdir(s)
  <2>1. CASE UNCHANGED <<made, sdirs>>
    BY <1>1, <1>4, <2>1, HeldKept DEF Tmpdir
  <2>2. CASE ~UNCHANGED <<made, sdirs>>
    <3>1. /\ Done(s) /\ Sets(s, Tmpdirs)
          /\ IF Next1(s) = "session"
               THEN sdirs' = sdirs \cup {s} /\ made' = made
               ELSE made' = made \cup {Next1(s)} /\ sdirs' = sdirs
      BY <1>4, <2>2 DEF Tmpdir
    <3>2. /\ n[s] \in Nat /\ n[s] + 1 \in 1..Len(Setup(s))
          /\ \A q \in Sessions : n'[q] = IF q = s THEN n[s] + 1 ELSE n[q]
          /\ \A q \in Sessions : n[q] \in Nat
      BY <3>1, LenNat DEF Sets, Done, TypeInv, ProcOK
    <3>3. /\ Next1(s) = "prefix" => n[s] = 2
          /\ Next1(s) = "session" => n[s] = 3
          /\ Next1(s) = "sources" => n[s] = 4 /\ s \in Builders
      BY <3>2, SetupGood, SourcesFacts DEF GoodList, Next1
    <3>4. Builders \subseteq Sessions /\ sdirs \subseteq Sessions
      BY SessionsAssumption DEF TypeInv, FsOK
    <3>5. Next1(s) \in {"prefix", "session", "sources"}
      BY <3>1 DEF Sets, Tmpdirs
    <3>6. CASE Next1(s) = "prefix"
      BY <3>1, <3>2, <3>3, <3>4, <3>6 DEF Held
    <3>7. CASE Next1(s) = "session"
      BY <3>1, <3>2, <3>3, <3>4, <3>7 DEF Held
    <3>8. CASE Next1(s) = "sources"
      BY <3>1, <3>2, <3>3, <3>4, <3>8 DEF Held
    <3> QED
      BY <3>5, <3>6, <3>7, <3>8
  <2> QED
    BY <2>1, <2>2
<1> QED
  BY <1>2, <1>3, <1>4 DEF SetupStep

LEMMA HeldChild ==
  ASSUME TypeInv, TypeInv', Held, NEW s \in Sessions,
         ForkStep(s) \/ ChildStep(s) \/ KillChild(s) \/ Rerun(s)
  PROVE  Held'
<1>1. n' = n /\ made' = made /\ sdirs' = sdirs
  <2>1. CASE ForkStep(s) \/ Rerun(s)
    BY <2>1 DEF ForkStep, Fork, ForkFails, Reap, Throw, Rerun, fs
  <2>2. CASE KillChild(s)
    BY <2>2 DEF KillChild, ChildEnds, ChildGoto, fs
  <2>3. CASE ChildStep(s)
    BY <2>3 DEF ChildStep, ChrootMkdir, ProcMount, ProcMountFails, Command,
                TaskMkdir, TaskMount, TaskMountFails, TaskEnds, TaskRmdir,
                BuildEnds, ChildEnds, ChildGoto, fs
  <2> QED
    BY <2>1, <2>2, <2>3
<1>2. \A q \in Sessions : n'[q] >= n[q]
  BY <1>1 DEF TypeInv, ProcOK
<1> QED
  BY <1>1, <1>2, HeldKept

LEMMA HeldUnwind ==
  ASSUME HeldInv, TypeInv', NEW s \in Sessions, UnwindStep(s)
  PROVE  Held'
<1> USE DEF HeldInv, ScopeInv
<1>1. CASE Umount(s) \/ Exit(s)
  <2>1. n' = n /\ made' = made /\ sdirs' = sdirs
    BY <1>1 DEF Umount, Exit, local, fs
  <2>2. \A q \in Sessions : n'[q] >= n[q]
    BY <2>1 DEF TypeInv, ProcOK
  <2> QED
    BY <2>1, <2>2, HeldKept
<1>2. CASE PopEmpty(s) \/ PopTmpdir(s) \/ Rmdir(s)
  <2>1. /\ n[s] > 0 /\ pc[s] \in {"unwind", "rmdir"} /\ Popped(s)
        /\ n[s] \in 1..Len(Setup(s))
    BY <1>2, LenNat
       DEF PopEmpty, PopTmpdir, Rmdir, Unwinds, TypeInv, ProcOK, HalfWay
  <2>2. /\ \A q \in Sessions : n'[q] = IF q = s THEN n[s] - 1 ELSE n[q]
        /\ \A q \in Sessions : n[q] \in Nat
    BY <2>1 DEF Popped, TypeInv, ProcOK
  <2>3. /\ Top1(s) = "prefix" <=> n[s] = 3
        /\ Top1(s) = "session" <=> n[s] = 4
        /\ Top1(s) = "sources" => n[s] = 5
        /\ Top1(s) \in Mounts => n[s] > 5
        /\ s \in Builders /\ n[s] = 5 => Top1(s) = "sources"
    BY <2>1, SetupGood, SourcesFacts DEF GoodList, Top1
  <2>4. Builders \subseteq Sessions /\ sdirs \subseteq Sessions
    BY SessionsAssumption DEF TypeInv, FsOK
  <2>5. CASE PopEmpty(s) \/ Rmdir(s)
    <3>1. made' = made /\ sdirs' \subseteq sdirs
      BY <2>5 DEF PopEmpty, Rmdir, fs
    <3>2. Top1(s) \notin Tmpdirs
      BY <2>5 DEF PopEmpty, Rmdir, Unwinds, HalfWay, TypeInv, Store, Tmpdirs,
                  Mounts, DistroDirs
    <3>3. n[s] # 3 /\ n[s] # 4 /\ ~(s \in Builders /\ n[s] = 5)
      BY <2>3, <3>2 DEF Tmpdirs
    <3> QED
      BY <2>2, <2>4, <3>1, <3>3 DEF Held
  <2>6. CASE PopTmpdir(s)
    <3>1. CASE Top1(s) = "session"
      <4>1. n[s] = 4 /\ pc[s] = "unwind" /\ child[s] \notin Working
        BY <2>3, <2>6, <3>1 DEF PopTmpdir, Unwinds, Phases
      <4>2. \A x \in mnt[s] : \E i \in 1..4 : Setup(s)[i] = x /\ x \in Mounts
        BY <4>1 DEF Scoped, InScope, Working
      <4>3. 4 \in 1..Len(Setup(s))
        BY <2>1, <4>1
      <4>4. "top" \notin mnt[s]
        BY <4>2, <4>3, SetupGood DEF GoodList, Mounts
      <4>5. sdirs' = sdirs \ {s} /\ made' = made
        BY <2>6, <3>1, <4>4 DEF PopTmpdir
      <4> QED
        BY <2>2, <2>4, <4>1, <4>5 DEF Held
    <3>2. CASE Top1(s) = "sources"
      <4>1. made' = made \ {"sources"} /\ sdirs' = sdirs /\ n[s] = 5
        BY <2>3, <2>6, <3>2 DEF PopTmpdir
      <4> QED
        BY <2>2, <2>4, <4>1 DEF Held
    <3>3. CASE Top1(s) = "prefix"
      <4>1. /\ made' = IF sdirs = {} /\ made = {"prefix"} THEN {} ELSE made
            /\ sdirs' = sdirs /\ n[s] = 3
        BY <2>3, <2>6, <3>3 DEF PopTmpdir
      <4>2. \A q \in sdirs : n'[q] >= 4
        BY <2>2, <2>4, <4>1 DEF Held
      <4>3. "sources" \in made' => \E q \in Builders : n'[q] >= 5
        BY <2>2, <2>4, <4>1 DEF Held
      <4>4. ASSUME "prefix" \in made' PROVE \E q \in Sessions : n'[q] >= 3
        <5>1. sdirs # {} \/ "sources" \in made'
          BY <4>1, <4>4 DEF TypeInv, FsOK
        <5>2. PICK q \in Sessions : n'[q] >= 4 \/ n'[q] >= 5
          BY <2>4, <4>2, <4>3, <5>1
        <5>3. n'[q] \in Int
          BY <2>2
        <5> QED
          BY <5>2, <5>3
      <4> QED
        BY <4>1, <4>2, <4>3, <4>4 DEF Held
    <3> QED
      BY <2>6, <3>1, <3>2, <3>3 DEF PopTmpdir, Unwinds, Tmpdirs
  <2> QED
    BY <1>2, <2>5, <2>6
<1> QED
  BY <1>1, <1>2 DEF UnwindStep

LEMMA HeldNext ==
  ASSUME Gentle, HeldInv, TypeInv', [Next]_vars PROVE Held'
<1>1. ASSUME NEW s \in Sessions, KillParent(s) PROVE FALSE
  BY <1>1 DEF KillParent, Gentle
<1>2. CASE UNCHANGED vars
  BY <1>2 DEF vars, local, fs, HeldInv, Held
<1> QED
  BY <1>1, <1>2, HeldSetup, HeldChild, HeldUnwind
     DEF Next, Parent, HeldInv, ScopeInv

\* However the sessions overlap and wherever their setup fails, a session
\* directory has a running session, and prefix and sources go with the last.
THEOREM NoStray == ASSUME Gentle PROVE Spec => []NoStrayDirs
<1>1. Init => HeldInv
  BY ScopeInit DEF Init, HeldInv, Held
<1>2. HeldInv /\ [Next]_vars => HeldInv'
  BY TypeNext, PhasesNext, ScopedNext, HeldNext DEF HeldInv, ScopeInv
<1>3. HeldInv => NoStrayDirs
  <2> SUFFICES ASSUME HeldInv PROVE NoStrayDirs
    OBVIOUS
  <2>1. \A s \in Sessions : n[s] > 0 => InUse(s)
    BY DEF HeldInv, ScopeInv, Phases, InUse
  <2>2. \A s \in Sessions : n[s] \in Nat
    BY DEF HeldInv, ScopeInv, TypeInv, ProcOK
  <2>3. /\ Builders \subseteq Sessions /\ sdirs \subseteq Sessions
        /\ made \subseteq {"prefix", "sources"}
    BY SessionsAssumption DEF HeldInv, ScopeInv, TypeInv, FsOK
  <2>4. \A s \in sdirs : InUse(s)
    BY <2>1, <2>2, <2>3 DEF HeldInv, Held
  <2>5. ASSUME made # {} PROVE \E s \in Sessions : InUse(s)
    <3>1. "prefix" \in made \/ "sources" \in made
      BY <2>3, <2>5
    <3>2. PICK s \in Sessions : n[s] >= 3 \/ n[s] >= 5
      BY <2>3, <3>1 DEF HeldInv, Held
    <3>3. n[s] > 0
      BY <2>2, <3>2
    <3> QED
      BY <2>1, <3>3
  <2> QED
    BY <2>4, <2>5 DEF NoStrayDirs
<1> QED
  BY <1>1, <1>2, <1>3, PTL DEF Spec

-----------------------------------------------------------------------------
(* What nobody can detach *)

\* The wanted mounts on directories that no other session can remove.
Firm(s) == Wanted(s) \ (DistroDirs \ Solid)

FirmOf(s) ==
  /\ pc[s] \in {"idle", "done"} => n[s] = 0
  /\ child[s] \in Working => pc[s] \in {"wait", "done"}
  /\ child[s] \in {"taskdir", "task", "tasked"} => s \in Builders
  /\ pc[s] = "wait" => n[s] = Len(Setup(s))
  /\ pc[s] \in {"next", "second", "wait"} =>
       \A i \in 1..n[s] : Setup(s)[i] \in Firm(s) \ {"proc"} => Setup(s)[i] \in mnt[s]
  /\ child[s] \in Working => Firm(s) \ {"proc"} \subseteq mnt[s]
  /\ child[s] \in Working \ {"chroot", "procdir"} => Firm(s) \subseteq mnt[s]

FirmInv == \A s \in Sessions : FirmOf(s)

AnyStep(s) == \/ Refuse(s) \/ Begin(s) \/ Parent(s) \/ ChildStep(s)
              \/ KillChild(s) \/ KillParent(s) \/ Rerun(s)

\* A step of s takes from another session at most mounts on removable directories.
LEMMA FirmFrame ==
  ASSUME TypeInv, NEW s \in Sessions, AnyStep(s), NEW q \in Sessions \ {s}
  PROVE  /\ pc'[q] = pc[q] /\ n'[q] = n[q] /\ child'[q] = child[q]
         /\ mnt[q] \ (DistroDirs \ Solid) \subseteq mnt'[q]
<1> USE DEF TypeInv, ProcOK, FsOK, Goto, Done, Throw, Popped, ChildGoto, ChildEnds, local, fs
<1>1. CASE Refuse(s) \/ Begin(s) \/ Rerun(s) \/ KillParent(s) \/ KillChild(s)
  BY <1>1 DEF Refuse, Begin, Rerun, KillParent, KillChild
<1>2. CASE CheckStore(s) \/ CreateStore(s) \/ Tmpdir(s) \/ Unshare(s)
  BY <1>2 DEF CheckStore, CreateStore, Tmpdir, Unshare
<1>3. CASE Mkdir(s) \/ Mount(s) \/ Empty(s)
  BY <1>3 DEF Mkdir, Mount, Empty
<1>4. CASE Fork(s) \/ ForkFails(s) \/ Reap(s)
  BY <1>4 DEF Fork, ForkFails, Reap
<1>5. CASE ChrootMkdir(s) \/ ProcMount(s) \/ ProcMountFails(s) \/ Command(s) \/ TaskMkdir(s)
  BY <1>5 DEF ChrootMkdir, ProcMount, ProcMountFails, Command, TaskMkdir
<1>6. CASE TaskMount(s) \/ TaskMountFails(s) \/ TaskEnds(s) \/ BuildEnds(s)
  BY <1>6 DEF TaskMount, TaskMountFails, TaskEnds, BuildEnds
<1>7. CASE TaskRmdir(s)
  BY <1>7 DEF TaskRmdir, RemoveDir, Removable
<1>8. CASE PopEmpty(s) \/ PopTmpdir(s) \/ Umount(s) \/ Exit(s)
  BY <1>8 DEF PopEmpty, PopTmpdir, Umount, Exit
<1>9. CASE Rmdir(s)
  BY <1>9 DEF Rmdir, RemoveDir, Removable
<1> QED
  BY <1>1, <1>2, <1>3, <1>4, <1>5, <1>6, <1>7, <1>8, <1>9
     DEF AnyStep, Parent, SetupStep, ForkStep, ChildStep, UnwindStep

LEMMA FirmOthers ==
  ASSUME TypeInv, NEW s \in Sessions, AnyStep(s), NEW q \in Sessions \ {s}, FirmOf(q)
  PROVE  FirmOf(q)'
<1>1. /\ pc'[q] = pc[q] /\ n'[q] = n[q] /\ child'[q] = child[q]
      /\ mnt[q] \cap Firm(q) \subseteq mnt'[q]
  BY FirmFrame DEF Firm
<1> QED
  BY <1>1 DEF FirmOf

\* An item is constructed, and mounted if it is one that is to be kept.
LEMMA FirmDone ==
  ASSUME TypeInv, NEW s \in Sessions, FirmOf(s), pc[s] \in {"next", "second"}, Done(s),
         mnt[s] \subseteq mnt'[s], Next1(s) \in Firm(s) \ {"proc"} => Next1(s) \in mnt'[s]
  PROVE  FirmOf(s)'
<1>1. /\ pc'[s] = "next" /\ n'[s] = n[s] + 1 /\ n[s] \in Nat /\ child'[s] = child[s]
      /\ child[s] \notin Working
  BY DEF Done, TypeInv, ProcOK, FirmOf
<1>2. \A i \in 1..n[s] : Setup(s)[i] \in Firm(s) \ {"proc"} => Setup(s)[i] \in mnt'[s]
  BY DEF FirmOf
<1> QED
  BY <1>1, <1>2 DEF FirmOf, Next1, Working

\* The session stops working or constructing, or has not begun.
LEMMA FirmEnds ==
  ASSUME NEW s \in Sessions, child'[s] \notin Working, pc'[s] \notin {"next", "second", "wait"},
         pc'[s] \in {"idle", "done"} => n'[s] = 0
  PROVE  FirmOf(s)'
  BY DEF FirmOf, Working

LEMMA FirmSetup ==
  ASSUME TypeInv, NEW s \in Sessions, FirmOf(s), SetupStep(s)
  PROVE  FirmOf(s)'
<1> USE DEF TypeInv, ProcOK, FsOK
<1>0. pc[s] \in {"next", "second"}
  BY DEF SetupStep, CheckStore, CreateStore, Tmpdir, Unshare, Mkdir, Mount, Empty, Sets
<1>1. child[s] \notin Working
  BY <1>0 DEF FirmOf
<1>2. ASSUME NEW c, Throw(s, c) PROVE FirmOf(s)'
  BY <1>1, <1>2, FirmEnds DEF Throw
<1>3. ASSUME pc' = [pc EXCEPT ![s] = "second"], UNCHANGED <<local, mnt>> PROVE FirmOf(s)'
  BY <1>0, <1>1, <1>3 DEF FirmOf, local, Working
<1>4. Firm(s) \subseteq Mounts
  BY DEF Firm, Wanted
<1>5. CASE CheckStore(s) \/ CreateStore(s) \/ Tmpdir(s) \/ Unshare(s)
  <2>1. mnt' = mnt /\ (Done(s) \/ (\E c : Throw(s, c))
          \/ (pc' = [pc EXCEPT ![s] = "second"] /\ UNCHANGED local))
    BY <1>5 DEF CheckStore, CreateStore, Tmpdir, Unshare, Goto, fs
  <2>2. Next1(s) \notin Mounts
    BY <1>5 DEF CheckStore, CreateStore, Tmpdir, Unshare, Sets, Store, Tmpdirs, Mounts, DistroDirs
  <2> QED
    BY <1>0, <1>2, <1>3, <1>4, <2>1, <2>2, FirmDone
<1>6. CASE Mkdir(s)
  BY <1>3, <1>6 DEF Mkdir, Goto
<1>7. CASE Mount(s)
  <2>1. CASE mnt' = [mnt EXCEPT ![s] = @ \cup {Next1(s)}] /\ Done(s)
    BY <1>0, <2>1, FirmDone
  <2> QED
    BY <1>2, <1>7, <2>1 DEF Mount
<1>8. CASE Empty(s)
  <2>1. Next1(s) \notin Firm(s) \ {"proc"}
    BY <1>8 DEF Empty, Firm, Wanted
  <2> QED
    BY <1>0, <1>8, <2>1, FirmDone DEF Empty
<1> QED
  BY <1>5, <1>6, <1>7, <1>8 DEF SetupStep

LEMMA FirmFork ==
  ASSUME TypeInv, NEW s \in Sessions, FirmOf(s), ForkStep(s)
  PROVE  FirmOf(s)'
<1> USE DEF TypeInv, ProcOK, FsOK
<1>1. CASE Fork(s)
  <2>1. /\ pc[s] = "next" /\ n[s] = Len(Setup(s)) /\ pc'[s] = "wait" /\ n' = n /\ mnt' = mnt
        /\ child'[s] = "chroot"
    BY <1>1 DEF Fork, Ready, Goto
  <2>2. Firm(s) \ {"proc"} \subseteq mnt[s]
    BY <2>1 DEF FirmOf, Firm, Wanted
  <2> QED
    BY <2>1, <2>2 DEF FirmOf, Working
<1>2. CASE ForkFails(s) \/ Reap(s)
  <2>1. pc'[s] = "unwind" /\ child' = child
    BY <1>2 DEF ForkFails, Reap, Throw
  <2>2. child[s] \notin Working
    BY <1>2 DEF ForkFails, Reap, Ready, FirmOf, Working
  <2> QED
    BY <2>1, <2>2, FirmEnds
<1> QED
  BY <1>1, <1>2 DEF ForkStep

LEMMA FirmChild ==
  ASSUME TypeInv, NEW s \in Sessions, FirmOf(s), ChildStep(s) \/ KillChild(s)
  PROVE  FirmOf(s)'
<1> USE DEF TypeInv, ProcOK, FsOK
<1>0. pc' = pc /\ n' = n /\ child[s] \in Working
  BY DEF ChildStep, KillChild, ChrootMkdir, ProcMount, ProcMountFails, Command, TaskMkdir, TaskMount,
         TaskMountFails, TaskEnds, TaskRmdir, BuildEnds, ChildEnds, ChildGoto, Working
<1>1. pc[s] \in {"wait", "done"}
  BY <1>0 DEF FirmOf
<1>2. s \in Builders => "tmp" \notin Firm(s)
  <2>1. \A i \in 1..17 : BuilditSetup[i] # "tmp"
    BY DEF BuilditSetup
  <2> QED
    BY <2>1, BuilditFacts DEF Firm, Wanted, Setup
<1>3. ASSUME NEW from, NEW w, ChildEnds(s, from, w, mnt[s]) PROVE FirmOf(s)'
  <2>1. child'[s] = "ended" /\ (pc[s] = "wait" => mnt'[s] = mnt[s])
    BY <1>3 DEF ChildEnds, ChildGoto
  <2> QED
    BY <1>0, <1>1, <2>1 DEF FirmOf, Working
<1>4. CASE ChrootMkdir(s)
  BY <1>0, <1>1, <1>4 DEF FirmOf, ChrootMkdir, ChildGoto, Working
<1>5. CASE ProcMount(s)
  BY <1>0, <1>1, <1>5 DEF FirmOf, ProcMount, ChildGoto, Working
<1>6. CASE ProcMountFails(s) \/ Command(s) \/ TaskMountFails(s) \/ BuildEnds(s) \/ KillChild(s)
  BY <1>3, <1>6 DEF ProcMountFails, Command, TaskMountFails, BuildEnds, KillChild
<1>7. CASE TaskMkdir(s)
  BY <1>0, <1>1, <1>7 DEF FirmOf, TaskMkdir, ChildGoto, Working
<1>8. CASE TaskMount(s)
  BY <1>0, <1>1, <1>8 DEF FirmOf, TaskMount, ChildGoto, Working
<1>9. CASE TaskEnds(s)
  BY <1>0, <1>1, <1>2, <1>9 DEF FirmOf, TaskEnds, ChildGoto, Working
<1>10. CASE TaskRmdir(s)
  <2>1. /\ child[s] = "tasked" /\ child'[s] \in {"work", "failed"}
        /\ mnt[s] \ (DistroDirs \ Solid) \subseteq mnt'[s]
    BY <1>10 DEF TaskRmdir, RemoveDir, Removable, ChildGoto
  <2>2. mnt[s] \cap Firm(s) \subseteq mnt'[s]
    BY <2>1 DEF Firm
  <2> QED
    BY <1>0, <1>1, <2>1, <2>2 DEF FirmOf, Working
<1> QED
  BY <1>4, <1>5, <1>6, <1>7, <1>8, <1>9, <1>10 DEF ChildStep

LEMMA FirmRest ==
  ASSUME TypeInv, NEW s \in Sessions, FirmOf(s),
         Refuse(s) \/ Begin(s) \/ UnwindStep(s) \/ KillParent(s) \/ Rerun(s)
  PROVE  FirmOf(s)'
<1> USE DEF TypeInv, ProcOK, FsOK
<1>1. CASE Refuse(s)
  <2>1. child[s] \notin Working
    BY <1>1 DEF Refuse, Goto, FirmOf
  <2>2. pc'[s] = "done" /\ child' = child /\ n'[s] = 0
    BY <1>1 DEF Refuse, Goto, FirmOf
  <2> QED
    BY <2>1, <2>2, FirmEnds
<1>2. CASE Rerun(s)
  <2>1. pc'[s] = "idle" /\ child'[s] = "none" /\ n'[s] = 0
    BY <1>2 DEF Rerun, Goto, FirmOf
  <2> QED
    BY <2>1, FirmEnds DEF Working
<1>3. CASE Begin(s)
  <2>1. child[s] \notin Working /\ pc'[s] = "next" /\ n' = n /\ child' = child /\ mnt' = mnt
        /\ pc[s] = "idle"
    BY <1>3 DEF Begin, Goto, FirmOf, local
  <2>2. n[s] = 0
    BY <2>1 DEF FirmOf
  <2> QED
    BY <2>1, <2>2 DEF FirmOf, Working
<1>4. CASE KillParent(s)
  <2>1. pc'[s] = "done" /\ n'[s] = 0 /\ child' = child /\ (child[s] \in Working => mnt'[s] = mnt[s])
    BY <1>4 DEF KillParent
  <2> QED
    BY <2>1 DEF FirmOf, Working
<1>5. CASE UnwindStep(s)
  <2>1. pc[s] \in {"unwind", "rmdir"} /\ pc'[s] \in {"unwind", "rmdir", "done"} /\ child' = child
    BY <1>5 DEF UnwindStep, PopEmpty, PopTmpdir, Umount, Rmdir, Exit, Unwinds, Popped, Goto, local
  <2>2. pc'[s] = "done" => n'[s] = 0
    BY <1>5 DEF UnwindStep, PopEmpty, PopTmpdir, Umount, Rmdir, Exit, Popped, Goto, local
  <2> QED
    BY <2>1, <2>2, FirmEnds DEF FirmOf
<1> QED
  BY <1>1, <1>2, <1>3, <1>4, <1>5

LEMMA FirmNext ==
  ASSUME TypeInv, FirmInv, [Next]_vars PROVE FirmInv'
<1>1. CASE UNCHANGED vars
  BY <1>1 DEF vars, local, FirmInv, FirmOf
<1>2. ASSUME NEW s \in Sessions, AnyStep(s) PROVE FirmInv'
  <2>1. FirmOf(s)'
    BY <1>2, FirmSetup, FirmFork, FirmChild, FirmRest DEF AnyStep, Parent, FirmInv
  <2>2. \A q \in Sessions \ {s} : FirmOf(q)'
    BY <1>2, FirmOthers DEF FirmInv
  <2> QED
    BY <2>1, <2>2 DEF FirmInv
<1> QED
  BY <1>1, <1>2 DEF Next, AnyStep

\* However the sessions overlap, fail or are killed, one that works keeps what
\* it has mounted on directories that rmdir refuses to remove.
THEOREM SolidIsKept == Spec => []SolidMountsKept
<1>1. Init => FirmInv
  BY DEF Init, FirmInv, FirmOf, Working
<1>2. TypeInv /\ FirmInv => SolidMountsKept
  BY DEF FirmInv, FirmOf, Firm, SolidMountsKept, Working
<1> QED
  BY <1>1, <1>2, TypeInit, TypeNext, FirmNext, PTL DEF Spec

-----------------------------------------------------------------------------
(* A session by itself *)

\* Nothing fails for want of resources.
Faultless == Faulty = {}

\* What has been constructed is there.
Built(s) ==
  /\ n[s] >= 3 => "prefix" \in made
  /\ n[s] >= 4 => s \in sdirs
  /\ \A i \in 1..n[s] : Setup(s)[i] \in Wanted(s) \ {"proc"} => Setup(s)[i] \in mnt[s]

\* What was missing is missing still, what was created is there still.
Fresh(s) ==
  /\ Next1(s) \in Store => Next1(s) \notin store
  /\ Next1(s) \in DistroDirs => Next1(s) \in dirs

Well(s) ==
  /\ pc[s] \in {"unwind", "rmdir"} => child[s] = "ended"
  /\ pc[s] \in {"next", "second", "wait"} => Built(s)
  /\ pc[s] = "second" => Fresh(s)
  /\ child[s] \in Working => Wanted(s) \ {"proc"} \subseteq mnt[s]
  /\ child[s] \in Working \ {"chroot", "procdir"} => Wanted(s) \subseteq mnt[s]
  /\ child[s] = "procdir" => "proc" \in dirs

\* A live session outside the crowd has no other one beside it, and is well.
LoneOf(s) ==
  s \notin crowd /\ Live(s) => /\ \A q \in Sessions \ {s} : ~Live(q)
                               /\ Well(s)

LoneInv == \A s \in Sessions : LoneOf(s)

\* Mount points in /dev come after /dev.
LEMMA DevFirst ==
  ASSUME NEW s, NEW i \in 1..Len(Setup(s)), Setup(s)[i] \in {"pts", "shm"}
  PROVE  \E j \in 1..(i - 1) : Setup(s)[j] = "dev"
<1>1. ShellitSetup[8] = "dev" /\ BuilditSetup[9] = "dev"
  BY DEF ShellitSetup, BuilditSetup
<1>2. CASE s \in Builders
  <2>1. i > 9 /\ i \in Int
    BY <1>2, BuilditFacts DEF Setup
  <2> QED
    BY <1>1, <1>2, <2>1 DEF Setup
<1>3. CASE s \notin Builders
  <2>1. i > 8 /\ i \in Int
    BY <1>3, ShellitFacts DEF Setup
  <2> QED
    BY <1>1, <1>3, <2>1 DEF Setup
<1> QED
  BY <1>2, <1>3

\* Only Begin changes the crowd or brings a session to life.
LEMMA LoneFrame ==
  ASSUME TypeInv, NEW s \in Sessions, FirmOf(s), AnyStep(s), ~Begin(s)
  PROVE  /\ crowd' = crowd
         /\ Live(s)' => Live(s)
         /\ ~Live(s) => UNCHANGED <<n, mnt, made, sdirs, dirs, store>>
<1> USE DEF TypeInv, ProcOK, FsOK, Goto, Done, Throw, Popped, ChildGoto, ChildEnds, local, fs
<1>1. CASE Refuse(s) \/ Rerun(s)
  BY <1>1 DEF Refuse, Rerun, Live, Working
<1>2. CASE KillParent(s) \/ KillChild(s)
  BY <1>2 DEF KillParent, KillChild, Live, Working
<1>3. CASE SetupStep(s)
  <2>1. pc[s] \in {"next", "second"}
    BY <1>3 DEF SetupStep, CheckStore, CreateStore, Tmpdir, Unshare, Mkdir, Mount, Empty, Sets
  <2>2. crowd' = crowd
    BY <1>3 DEF SetupStep, CheckStore, CreateStore, Tmpdir, Unshare, Mkdir, Mount, Empty
  <2> QED
    BY <2>1, <2>2 DEF Live
<1>4. CASE ForkStep(s)
  BY <1>4 DEF ForkStep, Fork, ForkFails, Reap, Ready, Live
<1>5. CASE ChildStep(s)
  <2>1. child[s] \in Working
    BY <1>5 DEF ChildStep, ChrootMkdir, ProcMount, ProcMountFails, Command, TaskMkdir, TaskMount,
                TaskMountFails, TaskEnds, TaskRmdir, BuildEnds, Working
  <2>2. crowd' = crowd
    BY <1>5 DEF ChildStep, ChrootMkdir, ProcMount, ProcMountFails, Command, TaskMkdir, TaskMount,
                TaskMountFails, TaskEnds, TaskRmdir, BuildEnds
  <2> QED
    BY <2>1, <2>2 DEF Live
<1>6. CASE UnwindStep(s)
  <2>1. pc[s] \in {"unwind", "rmdir"}
    BY <1>6 DEF UnwindStep, PopEmpty, PopTmpdir, Umount, Rmdir, Exit, Unwinds
  <2>2. crowd' = crowd
    BY <1>6 DEF UnwindStep, PopEmpty, PopTmpdir, Umount, Rmdir, Exit
  <2> QED
    BY <2>1, <2>2 DEF Live
<1> QED
  BY <1>1, <1>2, <1>3, <1>4, <1>5, <1>6 DEF AnyStep, Parent

\* A step of s finds another session q in the crowd, or s is not live.
LEMMA LoneOthers ==
  ASSUME TypeInv, NEW s \in Sessions, FirmOf(s), AnyStep(s), NEW q \in Sessions \ {s}, LoneOf(q)
  PROVE  LoneOf(q)'
<1> SUFFICES ASSUME q \notin crowd', Live(q)'
             PROVE  /\ \A r \in Sessions \ {q} : ~Live(r)'
                    /\ Well(q)'
  BY DEF LoneOf
<1>1. \A r \in Sessions \ {s} : pc'[r] = pc[r] /\ n'[r] = n[r] /\ child'[r] = child[r]
  BY FirmFrame
<1>2. Live(q)
  BY <1>1 DEF Live
<1>3. ~Begin(s)
  BY <1>2 DEF Begin
<1>4. q \notin crowd /\ (Live(s)' => Live(s))
  BY <1>3, LoneFrame
<1>5. (\A r \in Sessions \ {q} : ~Live(r)) /\ Well(q)
  BY <1>2, <1>4 DEF LoneOf
<1>6. ~Live(s)' /\ UNCHANGED <<mnt, made, sdirs, dirs, store>>
  BY <1>3, <1>4, <1>5, LoneFrame
<1>7. \A r \in Sessions \ {q} : ~Live(r)'
  BY <1>1, <1>5, <1>6 DEF Live
<1>8. Well(q)'
  BY <1>1, <1>5, <1>6 DEF Well, Built, Fresh, Next1
<1> QED
  BY <1>7, <1>8

\* The next item is constructed, and what it stands for is there.
LEMMA WellDone ==
  ASSUME TypeInv, NEW s \in Sessions, FirmOf(s), Well(s), pc[s] \in {"next", "second"}, Done(s),
         made \subseteq made', sdirs \subseteq sdirs', mnt[s] \subseteq mnt'[s],
         Next1(s) = "prefix" => "prefix" \in made', Next1(s) = "session" => s \in sdirs',
         Next1(s) \in Wanted(s) \ {"proc"} => Next1(s) \in mnt'[s], n[s] < Len(Setup(s))
  PROVE  Well(s)'
<1>1. /\ pc'[s] = "next" /\ n'[s] = n[s] + 1 /\ n[s] \in Nat /\ child'[s] = child[s]
      /\ child[s] \notin Working
  BY DEF Done, TypeInv, ProcOK, FirmOf
<1>2. n'[s] >= 3 => "prefix" \in made'
  <2>1. n[s] + 1 = 3 => Next1(s) = "prefix"
    BY SetupGood, LenNat DEF GoodList, Next1
  <2> QED
    BY <1>1, <2>1 DEF Well, Built
<1>3. n'[s] >= 4 => s \in sdirs'
  <2>1. n[s] + 1 = 4 => Next1(s) = "session"
    BY SetupGood, LenNat DEF GoodList, Next1
  <2> QED
    BY <1>1, <2>1 DEF Well, Built
<1>4. \A i \in 1..n'[s] : Setup(s)[i] \in Wanted(s) \ {"proc"} => Setup(s)[i] \in mnt'[s]
  <2>1. \A i \in 1..n[s] : Setup(s)[i] \in Wanted(s) \ {"proc"} => Setup(s)[i] \in mnt'[s]
    BY DEF Well, Built
  <2> QED
    BY <1>1, <2>1 DEF Next1
<1> QED
  BY <1>1, <1>2, <1>3, <1>4 DEF Well, Built, Working

LEMMA WellSetup ==
  ASSUME Faultless, TypeInv, NEW s \in Sessions, FirmOf(s), Well(s), SetupStep(s)
  PROVE  Well(s)'
<1> USE DEF TypeInv, ProcOK, FsOK
<1>0. pc[s] \in {"next", "second"} /\ child[s] \notin Working /\ n[s] \in Nat
  BY DEF SetupStep, CheckStore, CreateStore, Tmpdir, Unshare, Mkdir, Mount, Empty, Sets, FirmOf
<1>1. n[s] < Len(Setup(s)) /\ Next1(s) = Setup(s)[n[s] + 1] /\ n[s] + 1 \in 1..Len(Setup(s))
  <2>1. n[s] < Len(Setup(s))
    BY DEF SetupStep, CheckStore, CreateStore, Tmpdir, Unshare, Mkdir, Mount, Empty, Sets, HalfWay
  <2> QED
    BY <1>0, <2>1, LenNat DEF Next1
<1>2. Built(s)
  BY <1>0 DEF Well
<1>3. Wanted(s) \subseteq Mounts
  BY DEF Wanted
<1>4. Store \cap Mounts = {} /\ Tmpdirs \cap Mounts = {} /\ Store \cap DistroDirs = {}
      /\ Store \cap Tmpdirs = {} /\ DistroDirs \subseteq Mounts
      /\ Mounts \ DistroDirs = {"top", "pts", "shm"}
  BY DEF Store, Mounts, DistroDirs, Tmpdirs
<1>5. ASSUME pc' = [pc EXCEPT ![s] = "second"], UNCHANGED <<local, mnt, made, sdirs, store>>,
             Next1(s) \in Store => Next1(s) \notin store,
             Next1(s) \in DistroDirs => Next1(s) \in dirs'
      PROVE  Well(s)'
  <2>1. pc'[s] = "second" /\ n' = n /\ child' = child
    BY <1>5 DEF local
  <2>2. Built(s)'
    BY <1>2, <1>5, <2>1 DEF Built
  <2>3. Fresh(s)'
    BY <1>5, <2>1 DEF Fresh, Next1
  <2> QED
    BY <1>0, <2>1, <2>2, <2>3 DEF Well, Working
<1>6. CASE CheckStore(s)
  <2>1. Next1(s) \in Store /\ UNCHANGED <<mnt, made, sdirs, dirs, store>>
    BY <1>6 DEF CheckStore, Sets, fs
  <2>2. CASE Next1(s) \in store
    <3>1. Done(s)
      BY <1>6, <2>2 DEF CheckStore
    <3> QED
      BY <1>0, <1>1, <1>3, <1>4, <2>1, <3>1, WellDone DEF Store
  <2>3. CASE Next1(s) \notin store
    BY <1>4, <1>5, <1>6, <2>1, <2>3 DEF CheckStore, Goto
  <2> QED
    BY <2>2, <2>3
<1>7. CASE CreateStore(s)
  <2>1. Next1(s) \in Store /\ Next1(s) \notin store /\ UNCHANGED <<mnt, made, sdirs, dirs>> /\ Done(s)
    BY <1>7 DEF CreateStore, Well, Fresh
  <2> QED
    BY <1>0, <1>1, <1>3, <1>4, <2>1, WellDone DEF Store
<1>8. CASE Tmpdir(s)
  <2>1. Next1(s) \in Tmpdirs /\ mnt' = mnt
    BY <1>8 DEF Tmpdir, Sets
  <2>2. Next1(s) # "prefix" => "prefix" \in made
    <3>1. Next1(s) \in {"session", "sources", "prefix"}
      BY <2>1 DEF Tmpdirs
    <3>2. Next1(s) # "prefix" => n[s] >= 3
      BY <1>0, <1>1, <3>1, SetupGood DEF GoodList
    <3> QED
      BY <1>2, <3>2 DEF Built
  <2>3. Done(s) /\ IF Next1(s) = "session"
                     THEN sdirs' = sdirs \cup {s} /\ UNCHANGED made
                     ELSE made' = made \cup {Next1(s)} /\ UNCHANGED sdirs
    BY <1>8, <2>2 DEF Tmpdir
  <2>4. Next1(s) \notin Wanted(s)
    BY <1>3, <1>4, <2>1
  <2> QED
    BY <1>0, <1>1, <2>1, <2>3, <2>4, WellDone
<1>9. CASE Unshare(s)
  <2>1. Next1(s) = "unshare" /\ Done(s) /\ UNCHANGED <<mnt, made, sdirs>>
    BY <1>9 DEF Unshare, Sets, Faultless, fs
  <2>2. Next1(s) \notin Wanted(s)
    BY <1>3, <2>1 DEF Mounts, DistroDirs
  <2> QED
    BY <1>0, <1>1, <2>1, <2>2, WellDone
<1>10. CASE Mkdir(s)
  <2>1. /\ Next1(s) \in Mounts /\ pc' = [pc EXCEPT ![s] = "second"]
        /\ UNCHANGED <<local, mnt, made, sdirs, store>>
        /\ dirs' = dirs \cup ({Next1(s)} \cap DistroDirs)
    BY <1>10 DEF Mkdir, Sets, Goto
  <2> QED
    BY <1>4, <1>5, <2>1
<1>11. CASE Mount(s)
  <2>1. pc[s] = "second" /\ Next1(s) \in Mounts /\ UNCHANGED <<made, sdirs>>
    BY <1>11 DEF Mount, fs
  <2>2. Resolves(s, Next1(s))
    <3>1. CASE Next1(s) = "top"
      <4>1. n[s] >= 4
        BY <1>0, <1>1, <2>1, SetupGood DEF GoodList
      <4> QED
        BY <1>2, <3>1, <4>1 DEF Resolves, Built
    <3>2. CASE Next1(s) \in {"pts", "shm"}
      <4>1. PICK j \in 1..n[s] : Setup(s)[j] = "dev"
        BY <1>0, <1>1, <3>2, DevFirst
      <4>2. "dev" \in Wanted(s) \ {"proc"}
        BY <1>0, <1>1, <4>1 DEF Wanted, Bound, Mounts, DistroDirs
      <4> QED
        BY <1>2, <3>2, <4>1, <4>2 DEF Resolves, Built
    <3>3. CASE Next1(s) \in DistroDirs
      <4>1. Next1(s) \in dirs
        BY <2>1, <3>3 DEF Well, Fresh
      <4> QED
        BY <3>3, <4>1 DEF Resolves, DistroDirs
    <3> QED
      BY <1>4, <2>1, <3>1, <3>2, <3>3
  <2>3. mnt' = [mnt EXCEPT ![s] = @ \cup {Next1(s)}] /\ Done(s)
    BY <1>11, <2>2 DEF Mount, Faultless
  <2>4. Next1(s) \notin {"prefix", "session"}
    BY <2>1 DEF Mounts, DistroDirs
  <2>5. mnt'[s] = mnt[s] \cup {Next1(s)}
    BY <2>3
  <2> QED
    BY <1>0, <1>1, <2>1, <2>3, <2>4, <2>5, WellDone
<1>12. CASE Empty(s)
  <2>1. Next1(s) \in Mounts /\ Done(s) /\ UNCHANGED <<mnt, made, sdirs>>
    BY <1>12 DEF Empty, Sets, fs
  <2>2. Next1(s) \notin Wanted(s) \ {"proc"}
    BY <1>12 DEF Empty, Wanted
  <2>3. Next1(s) \notin {"prefix", "session"}
    BY <2>1 DEF Mounts, DistroDirs
  <2> QED
    BY <1>0, <1>1, <2>1, <2>2, <2>3, WellDone
<1> QED
  BY <1>6, <1>7, <1>8, <1>9, <1>10, <1>11, <1>12 DEF SetupStep

LEMMA WellFork ==
  ASSUME Faultless, TypeInv, NEW s \in Sessions, FirmOf(s), Well(s), ForkStep(s)
  PROVE  Well(s)'
<1> USE DEF TypeInv, ProcOK, FsOK
<1>1. CASE Fork(s)
  <2>1. /\ pc[s] = "next" /\ n[s] = Len(Setup(s)) /\ pc'[s] = "wait"
        /\ UNCHANGED <<n, mnt, made, sdirs>> /\ child'[s] = "chroot"
    BY <1>1 DEF Fork, Ready, Goto, fs
  <2>2. Built(s) /\ Built(s)'
    BY <2>1 DEF Well, Built
  <2>3. ASSUME NEW x \in Wanted(s) \ {"proc"} PROVE x \in mnt[s]
    <3>1. PICK i \in 1..Len(Setup(s)) : Setup(s)[i] = x
      BY DEF Wanted
    <3> QED
      BY <2>1, <2>2, <3>1 DEF Built
  <2> QED
    BY <2>1, <2>2, <2>3 DEF Well, Working
<1>2. CASE Reap(s)
  <2>1. pc'[s] = "unwind" /\ child' = child /\ child[s] = "ended"
    BY <1>2 DEF Reap, Throw
  <2> QED
    BY <2>1 DEF Well, Working
<1> QED
  BY <1>1, <1>2 DEF ForkStep, ForkFails, Faultless

LEMMA WellChild ==
  ASSUME TypeInv, NEW s \in Sessions, FirmOf(s), Well(s), ChildStep(s) \/ KillChild(s)
  PROVE  Well(s)'
<1> USE DEF TypeInv, ProcOK, FsOK
<1>0. pc' = pc /\ n' = n /\ child[s] \in Working /\ UNCHANGED <<made, sdirs>>
  BY DEF ChildStep, KillChild, ChrootMkdir, ProcMount, ProcMountFails, Command, TaskMkdir, TaskMount,
         TaskMountFails, TaskEnds, TaskRmdir, BuildEnds, ChildEnds, ChildGoto, Working, fs
<1>1. pc[s] \in {"wait", "done"} /\ (child[s] \in {"taskdir", "task", "tasked"} => s \in Builders)
  BY <1>0 DEF FirmOf
<1>2. s \in Builders => "tmp" \notin Wanted(s)
  <2>1. \A i \in 1..17 : BuilditSetup[i] # "tmp"
    BY DEF BuilditSetup
  <2> QED
    BY <2>1, BuilditFacts DEF Wanted, Setup
<1>3. ASSUME pc[s] = "wait" => mnt[s] \cap Wanted(s) \subseteq mnt'[s]
      PROVE  pc[s] = "wait" => Built(s)'
  BY <1>0, <1>3 DEF Well, Built
<1>4. ASSUME child'[s] = "ended", pc[s] = "wait" => mnt[s] \cap Wanted(s) \subseteq mnt'[s]
      PROVE  Well(s)'
  BY <1>0, <1>1, <1>3, <1>4 DEF Well, Working
<1>5. ASSUME child'[s] \in Working, mnt[s] \cap Wanted(s) \subseteq mnt'[s],
             child'[s] = "procdir" => "proc" \in dirs',
             child'[s] \notin {"chroot", "procdir"} => Wanted(s) \subseteq mnt'[s]
      PROVE  Well(s)'
  <2>1. Wanted(s) \ {"proc"} \subseteq mnt'[s]
    BY <1>0, <1>5 DEF Well
  <2> QED
    BY <1>0, <1>1, <1>3, <1>5, <2>1 DEF Well, Working
<1>6. CASE ChrootMkdir(s)
  <2>1. child'[s] = "procdir" /\ mnt' = mnt /\ "proc" \in dirs'
    BY <1>6 DEF ChrootMkdir, ChildGoto
  <2> QED
    BY <1>5, <2>1 DEF Working
<1>7. CASE ProcMount(s)
  <2>1. child'[s] = "work" /\ mnt'[s] = mnt[s] \cup {"proc"}
    BY <1>7 DEF ProcMount, ChildGoto
  <2>2. Wanted(s) \ {"proc"} \subseteq mnt[s]
    BY <1>0 DEF Well
  <2> QED
    BY <1>5, <2>1, <2>2 DEF Working
<1>8. CASE ProcMountFails(s) \/ Command(s) \/ TaskMountFails(s) \/ BuildEnds(s) \/ KillChild(s)
  <2>1. child'[s] = "ended" /\ (pc[s] = "wait" => mnt'[s] = mnt[s])
    BY <1>8 DEF ProcMountFails, Command, TaskMountFails, BuildEnds, KillChild, ChildEnds, ChildGoto
  <2> QED
    BY <1>4, <2>1
<1>9. CASE TaskMkdir(s) \/ TaskMount(s) \/ TaskEnds(s) \/ TaskRmdir(s)
  <2>1. /\ child[s] \in {"work", "taskdir", "task", "tasked"}
        /\ child'[s] \in {"work", "taskdir", "task", "tasked", "failed"}
        /\ mnt[s] \ {"tmp"} \subseteq mnt'[s]
    BY <1>9 DEF TaskMkdir, TaskMount, TaskEnds, TaskRmdir, RemoveDir, ChildGoto
  <2>2. s \in Builders
    BY <1>1, <1>9 DEF TaskMkdir, TaskMount, TaskEnds, TaskRmdir, ChildGoto
  <2>3. Wanted(s) \subseteq mnt[s]
    BY <2>1 DEF Well, Working
  <2> QED
    BY <1>2, <1>5, <2>1, <2>2, <2>3 DEF Working
<1> QED
  BY <1>6, <1>7, <1>8, <1>9 DEF ChildStep

\* A session begins alone or in the crowd; what it does later keeps it well.
LEMMA LoneOwn ==
  ASSUME Faultless, TypeInv, NEW s \in Sessions, FirmOf(s), LoneOf(s), AnyStep(s)
  PROVE  LoneOf(s)'
<1> USE DEF TypeInv, ProcOK, FsOK
<1>0. \A q \in Sessions \ {s} : Live(q)' <=> Live(q)
  BY FirmFrame DEF Live
<1>1. CASE Begin(s)
  <2>1. /\ pc'[s] = "next" /\ UNCHANGED <<n, child, mnt, made, sdirs>> /\ n[s] = 0
        /\ child[s] \notin Working
    BY <1>1 DEF Begin, Goto, FirmOf, local, fs
  <2>2. s \notin crowd' => \A q \in Sessions \ {s} : ~Live(q)
    BY <1>1 DEF Begin
  <2>3. Well(s)'
    BY <2>1 DEF Well, Built, Working
  <2> QED
    BY <1>0, <2>2, <2>3 DEF LoneOf
<1>2. CASE ~Begin(s)
  <2> SUFFICES ASSUME s \notin crowd', Live(s)' PROVE Well(s)'
    <3>1. crowd' = crowd /\ (Live(s)' => Live(s))
      BY <1>2, LoneFrame
    <3> QED
      BY <1>0, <3>1 DEF LoneOf
  <2>1. Well(s)
    BY <1>2, LoneFrame DEF LoneOf
  <2>2. CASE Refuse(s) \/ Rerun(s)
    <3>1. pc'[s] \in {"idle", "done"} /\ child'[s] \notin Working
      BY <2>2 DEF Refuse, Rerun, Goto, FirmOf, Working
    <3> QED
      BY <3>1 DEF Live
  <2>3. CASE KillParent(s)
    <3>1. pc'[s] = "done" /\ child' = child /\ dirs' = dirs
      BY <2>3 DEF KillParent, fs
    <3>2. child[s] \in Working /\ mnt'[s] = mnt[s]
      BY <2>3, <3>1 DEF Live, KillParent
    <3> QED
      BY <2>1, <3>1, <3>2 DEF Well
  <2>4. CASE UnwindStep(s)
    <3>1. pc[s] \in {"unwind", "rmdir"} /\ pc'[s] \in {"unwind", "rmdir", "done"} /\ child' = child
      BY <2>4 DEF UnwindStep, PopEmpty, PopTmpdir, Umount, Rmdir, Exit, Unwinds, Popped, Goto, local
    <3> QED
      BY <2>1, <3>1 DEF Well, Working
  <2> QED
    BY <1>2, <2>1, <2>2, <2>3, <2>4, WellSetup, WellFork, WellChild DEF AnyStep, Parent
<1> QED
  BY <1>1, <1>2

LEMMA LoneNext ==
  ASSUME Faultless, TypeInv, FirmInv, LoneInv, [Next]_vars PROVE LoneInv'
<1>1. CASE UNCHANGED vars
  <2>1. UNCHANGED <<pc, n, child, mnt, made, sdirs, dirs, store, crowd>>
    BY <1>1 DEF vars, local, fs
  <2>2. \A s \in Sessions : (Live(s)' <=> Live(s)) /\ (Well(s)' <=> Well(s))
    BY <2>1 DEF Live, Well, Built, Fresh, Next1
  <2> QED
    BY <2>1, <2>2 DEF LoneInv, LoneOf
<1>2. ASSUME NEW s \in Sessions, AnyStep(s) PROVE LoneInv'
  <2>1. LoneOf(s)'
    BY <1>2, LoneOwn DEF FirmInv, LoneInv
  <2>2. \A q \in Sessions \ {s} : LoneOf(q)'
    BY <1>2, LoneOthers DEF FirmInv, LoneInv
  <2> QED
    BY <2>1, <2>2 DEF LoneInv
<1> QED
  BY <1>1, <1>2 DEF Next, AnyStep

\* With nothing failing, a session that has had no other beside it reaches its
\* command with every mount, whatever sessions killed before it left behind.
THEOREM LoneIsServed == ASSUME Faultless PROVE Spec => []LoneSucceeds
<1>1. Init => FirmInv /\ LoneInv
  BY DEF Init, FirmInv, FirmOf, LoneInv, LoneOf, Live, Working
<1>2. LoneInv => LoneSucceeds
  BY DEF LoneInv, LoneOf, Live, Well, LoneSucceeds, Working
<1> QED
  BY <1>1, <1>2, TypeInit, TypeNext, FirmNext, LoneNext, PTL DEF Spec
=============================================================================
