-------------------------- MODULE DebArchiveProofs --------------------------
(***************************************************************************)
(* Theorems about deb-archive, deb-remove and deb-release, for any number  *)
(* of runs, names, lists and jobs.                                         *)
(***************************************************************************)
EXTENDS DebArchive, TLAPS

-----------------------------------------------------------------------------
(* Type correctness *)

InRelease == {"read", "create", "mv", "close"}

\* The type of the variables one by one.
Plain ==
    /\ job \in [Procs -> Jobs]
    /\ rename \in BOOLEAN
    /\ given \in SUBSET Names
    /\ said \in Sayings
    /\ origin \in SUBSET given
    /\ archive \in [Names -> Inodes \cup {None}]
    /\ writer \in [Names -> [Inodes -> Procs \cup {None}]]
    /\ release \in [name : Inodes, tmp : Inodes \cup {None}]
    /\ text \in [Inodes -> [Fields -> Texts]]
    /\ pc \in [Procs -> {"idle", "arg", "ended"} \cup AtFile \cup InRelease]
    /\ arg \in [Procs -> Nat \ {0}]
    /\ at \in [Procs -> Nat \ {0}]
    /\ fd \in [Procs -> Inodes \cup {None}]
    /\ relinfo \in [Procs -> [Kept -> Texts]]
    /\ code \in [Procs -> {0, 1, 137, None}]
    /\ runs \in [Procs -> 0..MaxRuns]
    /\ killed \in SUBSET Procs
    /\ failed \in SUBSET Procs
    /\ crowd \in SUBSET Procs

\* Where a run is: within its arguments and within the files of one of them,
\* with an open file where it is about to write, and with all behind it when it
\* has ended well.
Place(p) ==
    /\ arg[p] <= Len(job[p].args) + 1
    /\ pc[p] \in AtFile => arg[p] <= Len(job[p].args) /\ at[p] <= Len(Order(p))
    /\ pc[p] \in {"arg"} \cup InRelease => at[p] = 1
    /\ pc[p] \in {"arg"} \cup AtFile => Mode(p) # "release"
    /\ pc[p] \in InRelease => Mode(p) = "release"
    /\ pc[p] \in {"target", "write", "meta", "unlink"} => Copies(p)
    /\ pc[p] = "unlink" => Mode(p) = "move"
    /\ pc[p] \in Writing => fd[p] \in Inodes
    /\ pc[p] # "idle" => runs[p] > 0
    /\ pc[p] = "ended" /\ code[p] = 0 =>
         Mode(p) = "remove" \/ (arg[p] = Len(job[p].args) + 1 /\ at[p] = 1)
Places == \A p \in Procs : Place(p)

TypeInv == Plain /\ Places

LEMMA JobFacts ==
  ASSUME job \in [Procs -> Jobs], NEW p \in Procs
  PROVE  /\ job[p].mode \in Modes /\ job[p].force \in BOOLEAN
         /\ job[p].args \in Seq(Names)
         /\ Len(job[p].args) \in Nat
         /\ DOMAIN job[p].args = 1..Len(job[p].args)
         /\ \A k \in 1..Len(job[p].args) : job[p].args[k] \in Names
         /\ job[p].mode = "release" => Len(job[p].args) = 0
<1>1. /\ job[p].mode \in Modes /\ job[p].force \in BOOLEAN
      /\ job[p].args \in Seq(Names)
      /\ job[p].mode = "release" => job[p].args = <<>>
  BY JobsAssumption
<1> QED
  BY <1>1

\* The order in which a run handles the files of its control file.
LEMMA OrderFacts ==
  ASSUME Plain, NEW p \in Procs, arg[p] <= Len(job[p].args)
  PROVE  /\ Control(p) \in Names
         /\ Order(p) \in Seq(Names)
         /\ Len(Order(p)) \in Nat \ {0}
         /\ \A k \in 1..Len(Order(p)) : Order(p)[k] \in Files(Control(p))
         /\ \A f \in Files(Control(p)) : \E k \in 1..Len(Order(p)) : Order(p)[k] = f
         /\ Mode(p) # "copy" => Order(p)[Len(Order(p))] = Control(p)
         /\ Mode(p) = "copy" => Order(p)[1] = Control(p)
         /\ \A k \in 1..Len(Order(p)) :
              Mode(p) # "copy" /\ k < Len(Order(p)) =>
                k \in DOMAIN Listed[Control(p)] /\ Order(p)[k] = Listed[Control(p)][k]
<1>1. Control(p) \in Names
  BY JobFacts DEF Control, Plain
<1> DEFINE l == Listed[Control(p)]
           c == Control(p)
<1>2. l \in Seq(Names) /\ Len(l) \in Nat /\ DOMAIN l = 1..Len(l)
  BY <1>1, ListedAssumption
<1>3. Files(c) = {c} \cup {l[k] : k \in 1..Len(l)}
  BY <1>2 DEF Files
<1>4. Order(p) = IF Mode(p) = "copy" THEN <<c>> \o l ELSE l \o <<c>>
  BY DEF Order
<1> HIDE DEF l, c
<1>5. CASE Mode(p) = "copy"
  <2>1. /\ Order(p) = <<c>> \o l /\ Order(p) \in Seq(Names)
        /\ Len(Order(p)) = Len(l) + 1 /\ Order(p)[1] = c
        /\ \A k \in 2..(Len(l) + 1) : Order(p)[k] = l[k - 1]
    BY <1>1, <1>2, <1>4, <1>5 DEF c
  <2>2. \A k \in 1..(Len(l) + 1) : Order(p)[k] \in Files(c)
    BY <2>1, <1>2, <1>3
  <2>3. \A k \in 1..Len(l) : Order(p)[k + 1] = l[k] /\ k + 1 \in 1..(Len(l) + 1)
    BY <2>1, <1>2
  <2>4. \A f \in Files(c) : \E k \in 1..(Len(l) + 1) : Order(p)[k] = f
    BY <2>1, <2>3, <1>2, <1>3
  <2>5. Len(Order(p)) = Len(l) + 1 /\ Len(Order(p)) \in Nat \ {0}
    BY <2>1, <1>2
  <2> QED
    BY <1>1, <1>5, <2>1, <2>2, <2>4, <2>5, Zenon DEF c
<1>6. CASE Mode(p) # "copy"
  <2>1. /\ Order(p) = l \o <<c>> /\ Order(p) \in Seq(Names)
        /\ Len(Order(p)) = Len(l) + 1 /\ Order(p)[Len(l) + 1] = c
        /\ \A k \in 1..Len(l) : Order(p)[k] = l[k]
    BY <1>1, <1>2, <1>4, <1>6 DEF c
  <2>2. \A k \in 1..(Len(l) + 1) : Order(p)[k] \in Files(c)
    BY <2>1, <1>2, <1>3
  <2>3. \A f \in Files(c) : \E k \in 1..(Len(l) + 1) : Order(p)[k] = f
    BY <2>1, <1>2, <1>3
  <2> QED
    BY <1>1, <1>2, <1>6, <2>1, <2>2, <2>3 DEF c, l
<1> QED
  BY <1>5, <1>6

LEMMA CurFacts ==
  ASSUME TypeInv, NEW p \in Procs, pc[p] \in AtFile
  PROVE  /\ Cur(p) \in Names /\ Control(p) \in Names
         /\ Cur(p) \in Files(Control(p))
         /\ at[p] \in 1..Len(Order(p)) /\ arg[p] \in 1..Len(job[p].args)
<1>1. /\ arg[p] <= Len(job[p].args) /\ at[p] <= Len(Order(p))
      /\ arg[p] \in Nat \ {0} /\ at[p] \in Nat \ {0}
  BY DEF TypeInv, Plain, Places, Place
<1>2. Plain
  BY DEF TypeInv
<1>3. Len(job[p].args) \in Nat /\ Len(Order(p)) \in Nat
  BY <1>1, <1>2, JobFacts, OrderFacts DEF Plain
<1>4. at[p] \in 1..Len(Order(p)) /\ arg[p] \in 1..Len(job[p].args)
  BY <1>1, <1>3
<1> QED
  BY <1>1, <1>2, <1>4, OrderFacts DEF Cur

LEMMA DefaultType == Default \in [Kept -> Texts]
<1>1. ASSUME NEW k \in Kept PROVE Default[k] \in Texts
  BY TextsAssumption DEF Default
<1> QED
  BY <1>1 DEF Default

LEMMA EmptyType == Empty \in [Fields -> Texts]
  BY TextsAssumption DEF Empty

LEMMA WrittenType ==
  ASSUME NEW info \in [Kept -> Texts]
  PROVE  [k \in Fields |-> IF k \in Kept THEN info[k] ELSE ""] \in [Fields -> Texts]
<1>1. "" \in Texts
  BY TextsAssumption
<1> QED
  BY <1>1

LEMMA PlainInit == ASSUME Init PROVE Plain
<1>1. \A d \in Origins : d \subseteq Names
  BY DirsAssumption
<1>2. text \in [Inodes -> [Fields -> Texts]] /\ said \in Sayings
  BY TextsAssumption DEF Init
<1>3. relinfo \in [Procs -> [Kept -> Texts]]
  BY DefaultType DEF Init
<1> QED
  BY <1>1, <1>2, <1>3, RunsAssumption DEF Init, Plain, Inodes, AtFile, InRelease

LEMMA AdvanceTypes ==
  ASSUME Plain, NEW p \in Procs, Advance(p)
  PROVE  /\ pc' \in [Procs -> {"idle", "arg", "ended"} \cup AtFile \cup InRelease]
         /\ arg' \in [Procs -> Nat \ {0}]
         /\ at' \in [Procs -> Nat \ {0}]
<1> DEFINE pcs == {"idle", "arg", "ended"} \cup AtFile \cup InRelease
<1>1. pc \in [Procs -> pcs] /\ arg \in [Procs -> Nat \ {0}] /\ at \in [Procs -> Nat \ {0}]
  BY DEF Plain
<1>2. arg[p] + 1 \in Nat \ {0} /\ at[p] + 1 \in Nat \ {0} /\ 1 \in Nat \ {0}
  BY <1>1
<1>3. "arg" \in pcs /\ "file" \in pcs /\ "list" \in pcs
  BY DEF AtFile
<1> HIDE DEF pcs
<1>4. pc' \in [Procs -> pcs]
  BY <1>1, <1>3 DEF Advance, Goto
<1>5. arg' \in [Procs -> Nat \ {0}] /\ at' \in [Procs -> Nat \ {0}]
  BY <1>1, <1>2 DEF Advance
<1> QED
  BY <1>4, <1>5 DEF pcs

LEMMA ErrorTypes ==
  ASSUME Plain, NEW p \in Procs, Error(p)
  PROVE  /\ pc' \in [Procs -> {"idle", "arg", "ended"} \cup AtFile \cup InRelease]
         /\ arg' \in [Procs -> Nat \ {0}]
         /\ at' \in [Procs -> Nat \ {0}]
         /\ code' \in [Procs -> {0, 1, 137, None}]
<1>1. CASE Advance(p) /\ UNCHANGED code
  BY <1>1, AdvanceTypes DEF Plain
<1>2. CASE Exit(p, 1) /\ UNCHANGED <<arg, at>>
  BY <1>2 DEF Exit, Goto, Plain
<1> QED
  BY <1>1, <1>2 DEF Error

LEMMA PlainNext == ASSUME TypeInv, [Next]_vars PROVE Plain'
<1>0. Plain
  BY DEF TypeInv
<1> USE <1>0, AdvanceTypes DEF Plain, AtFile, InRelease, Goto, Exit, input, dirs, rel, local, hist
<1>1. ASSUME NEW p \in Procs, Start(p) PROVE Plain'
  <2>1. runs[p] + 1 \in 0..MaxRuns
    BY <1>1, RunsAssumption DEF Start
  <2>2. crowd' \in SUBSET Procs
    BY <1>1 DEF Start, Active
  <2> QED
    BY <1>1, <2>1, <2>2 DEF Start
<1>2. ASSUME NEW p \in Procs, Kill(p) PROVE Plain'
  BY <1>2 DEF Kill
<1>3. ASSUME NEW p \in Procs,
             NoMoreArgs(p) \/ Abort(p) \/ Quit(p) \/ Begin(p) \/ ReadList(p) \/ OpenSource(p)
      PROVE  Plain'
  <2>1. /\ UNCHANGED <<input, dirs, rel, local, hist>>
        /\ \/ Exit(p, 0) \/ Exit(p, 1)
           \/ Goto(p, "file") /\ UNCHANGED code
           \/ Goto(p, "list") /\ UNCHANGED code
           \/ Goto(p, "target") /\ UNCHANGED code
    BY <1>3 DEF NoMoreArgs, Abort, Quit, Begin, ReadList, OpenSource
  <2> QED
    BY <2>1
<1>4. ASSUME NEW p \in Procs, Look(p) PROVE Plain'
  BY <1>4 DEF Look
<1>5. ASSUME NEW p \in Procs, Vanished(p) PROVE Plain'
  BY <1>5, ErrorTypes DEF Vanished
<1>6. ASSUME NEW p \in Procs, OpenTarget(p) PROVE Plain'
  <2> DEFINE f == Cur(p)
             n == IF archive[f] = None THEN p ELSE archive[f]
  <2>1. f \in Names
    BY <1>6, CurFacts DEF OpenTarget
  <2>2. n \in Inodes
    BY <2>1 DEF Inodes
  <2> QED
    BY <1>6, <2>1, <2>2 DEF OpenTarget
<1>7. ASSUME NEW p \in Procs, WriteTarget(p) PROVE Plain'
  <2>1. Cur(p) \in Names /\ fd[p] \in Inodes
    BY <1>7, CurFacts DEF WriteTarget, TypeInv, Places, Place, Writing
  <2>2. writer' \in [Names -> [Inodes -> Procs \cup {None}]]
    BY <1>7, <2>1 DEF WriteTarget
  <2> QED
    BY <1>7, <2>2 DEF WriteTarget
<1>8. ASSUME NEW p \in Procs, Unlink(p) PROVE Plain'
  <2>1. Error(p) \/ (Advance(p) /\ UNCHANGED code)
    BY <1>8 DEF Unlink
  <2> QED
    BY <1>8, <2>1, ErrorTypes DEF Unlink
<1>9. ASSUME NEW p \in Procs, Rename(p) PROVE Plain'
  <2>1. Cur(p) \in Names /\ Src \in Inodes
    BY <1>9, CurFacts DEF Rename, Inodes
  <2> QED
    BY <1>9, <2>1 DEF Rename
<1>10. ASSUME NEW p \in Procs, Remove(p) PROVE Plain'
  <2>1. Cur(p) \in Names
    BY <1>10, CurFacts DEF Remove
  <2> QED
    BY <1>10, <2>1 DEF Remove
<1>11. ASSUME NEW p \in Procs, ReadRelease(p) PROVE Plain'
  <2>1. release.name \in Inodes /\ text[release.name] \in [Fields -> Texts]
    OBVIOUS
  <2>2. ASSUME NEW k \in Kept
        PROVE  Cut[text[release.name][k]] \in Texts /\ Default[k] \in Texts
    BY <2>1, TextsAssumption, DefaultType DEF Fields
  <2>3. relinfo' \in [Procs -> [Kept -> Texts]]
    BY <1>11, <2>2 DEF ReadRelease
  <2> QED
    BY <1>11, <2>3 DEF ReadRelease
<1>12. ASSUME NEW p \in Procs, CreateTmp(p) PROVE Plain'
  <2> DEFINE n == IF release.tmp = None THEN p ELSE release.tmp
  <2>1. n \in Inodes
    BY DEF Inodes
  <2> QED
    BY <1>12, <2>1, EmptyType DEF CreateTmp
<1>13. ASSUME NEW p \in Procs, MvRelease(p) PROVE Plain'
  BY <1>13 DEF MvRelease
<1>14. ASSUME NEW p \in Procs, CloseTmp(p) PROVE Plain'
  <2>1. [k \in Fields |-> IF k \in Kept THEN relinfo[p][k] ELSE ""] \in [Fields -> Texts]
    BY WrittenType
  <2> QED
    BY <1>14, <2>1 DEF CloseTmp
<1>15. ASSUME NEW p \in Procs, Metadata(p) PROVE Plain'
  BY <1>15 DEF Metadata
<1>16. ASSUME NEW p \in Procs, Fails(p) PROVE Plain'
  <2>1. failed' \in SUBSET Procs /\ UNCHANGED <<input, dirs, rel, fd, runs, killed, crowd>>
    BY <1>16, RunsAssumption DEF Fails
  <2>2. \/ Error(p)
        \/ Exit(p, 1) /\ UNCHANGED <<arg, at>>
        \/ Goto(p, "close") /\ UNCHANGED <<arg, at, code>>
    BY <1>16 DEF Fails
  <2> QED
    BY <2>1, <2>2, ErrorTypes
<1>17. CASE UNCHANGED vars
  BY <1>17 DEF vars
<1> HIDE DEF Plain
<1> QED
  BY <1>1, <1>2, <1>3, <1>4, <1>5, <1>6, <1>7, <1>8, <1>9, <1>10, <1>11, <1>12,
     <1>13, <1>14, <1>15, <1>16, <1>17 DEF Next, Step, Finished

Act(p) == Start(p) \/ Step(p) \/ Fails(p) \/ Kill(p)

\* What a step of a run leaves alone.
Same(q) ==
    /\ pc'[q] = pc[q] /\ arg'[q] = arg[q] /\ at'[q] = at[q] /\ fd'[q] = fd[q]
    /\ code'[q] = code[q] /\ runs'[q] = runs[q] /\ relinfo'[q] = relinfo[q]

LEMMA OneRunMoves ==
  ASSUME Plain, NEW p \in Procs, Act(p)
  PROVE  /\ job' = job /\ rename' = rename /\ given' = given /\ said' = said
         /\ \A q \in Procs \ {p} : Same(q)
<1> USE DEF Plain, Same, Goto, Exit, Error, Advance, input, dirs, rel, local, hist
<1>1. CASE Start(p)
  BY <1>1 DEF Start
<1>2. CASE Kill(p) \/ Fails(p)
  BY <1>2 DEF Kill, Fails
<1>3. CASE NoMoreArgs(p) \/ Abort(p) \/ Quit(p) \/ Begin(p) \/ ReadList(p)
  BY <1>3 DEF NoMoreArgs, Abort, Quit, Begin, ReadList
<1>4. CASE Look(p) \/ Vanished(p) \/ OpenSource(p)
  BY <1>4 DEF Look, Vanished, OpenSource
<1>5. CASE OpenTarget(p) \/ WriteTarget(p) \/ Metadata(p)
  BY <1>5 DEF OpenTarget, WriteTarget, Metadata
<1>6. CASE Unlink(p) \/ Rename(p) \/ Remove(p)
  BY <1>6 DEF Unlink, Rename, Remove
<1>7. CASE ReadRelease(p) \/ CreateTmp(p) \/ MvRelease(p) \/ CloseTmp(p)
  BY <1>7 DEF ReadRelease, CreateTmp, MvRelease, CloseTmp
<1> QED
  BY <1>1, <1>2, <1>3, <1>4, <1>5, <1>6, <1>7 DEF Act, Step

\* A step keeps the order of files of a run that stays at its argument.
LEMMA SameOrder ==
  ASSUME job' = job, NEW q \in Procs, arg'[q] = arg[q]
  PROVE  Control(q)' = Control(q) /\ Order(q)' = Order(q)
  BY DEF Order, Control, Mode

LEMMA SamePlace ==
  ASSUME job' = job, rename' = rename, NEW q \in Procs, Same(q), Place(q)
  PROVE  Place(q)'
  BY SameOrder DEF Place, Same, Mode, Copies

\* Going on with the next file or argument.
LEMMA AdvanceFacts ==
  ASSUME TypeInv, NEW p \in Procs, pc[p] \in AtFile, Advance(p), job' = job
  PROVE  \/ /\ at[p] = Len(Order(p)) /\ pc'[p] = "arg"
            /\ arg'[p] = arg[p] + 1 /\ at'[p] = 1
         \/ /\ at[p] < Len(Order(p)) /\ pc'[p] \in {"list", "file"}
            /\ arg'[p] = arg[p] /\ at'[p] = at[p] + 1
            /\ Order(p)' = Order(p) /\ Control(p)' = Control(p)
<1>1. at[p] \in 1..Len(Order(p))
  BY CurFacts
<1>2. Len(Order(p)) \in Nat
  BY OrderFacts, CurFacts DEF TypeInv
<1>3. CASE at[p] = Len(Order(p))
  BY <1>3 DEF Advance, Goto, TypeInv, Plain
<1>4. CASE at[p] # Len(Order(p))
  BY <1>1, <1>2, <1>4, SameOrder DEF Advance, Goto, TypeInv, Plain
<1> QED
  BY <1>3, <1>4

LEMMA AdvancePlace ==
  ASSUME TypeInv, NEW p \in Procs, pc[p] \in AtFile, Advance(p), job' = job, runs' = runs
  PROVE  Place(p)'
<1>1. /\ Mode(p)' = Mode(p) /\ Mode(p) # "release" /\ runs'[p] > 0
  BY DEF TypeInv, Places, Place, Mode, AtFile
<1>2. at[p] \in 1..Len(Order(p)) /\ arg[p] \in 1..Len(job[p].args)
  BY CurFacts
<1>3. Len(Order(p)) \in Nat /\ Len(job[p].args) \in Nat
  BY OrderFacts, CurFacts, JobFacts DEF TypeInv, Plain
<1>4. CASE pc'[p] = "arg" /\ arg'[p] = arg[p] + 1 /\ at'[p] = 1
  BY <1>1, <1>2, <1>3, <1>4 DEF Place, AtFile, InRelease, Writing
<1>5. CASE /\ at[p] < Len(Order(p)) /\ pc'[p] \in {"list", "file"}
           /\ arg'[p] = arg[p] /\ at'[p] = at[p] + 1
           /\ Order(p)' = Order(p)
  BY <1>1, <1>2, <1>3, <1>5 DEF Place, AtFile, InRelease, Writing
<1> QED
  BY <1>4, <1>5, AdvanceFacts

\* Ending with an error, or being killed, keeps the place.
LEMMA ExitPlace ==
  ASSUME TypeInv, NEW p \in Procs, NEW c \in {1, 137}, Exit(p, c), job' = job,
         arg' = arg, at' = at, runs' = runs, pc[p] # "idle"
  PROVE  Place(p)'
<1>1. pc'[p] = "ended" /\ code'[p] = c
  BY DEF Exit, Goto, TypeInv, Plain
<1>2. arg'[p] = arg[p] /\ arg[p] <= Len(job[p].args) + 1 /\ runs[p] > 0
  BY DEF TypeInv, Places, Place
<1> QED
  BY <1>1, <1>2 DEF Place, AtFile, InRelease, Writing

LEMMA ErrorPlace ==
  ASSUME TypeInv, NEW p \in Procs, pc[p] \in AtFile, Error(p), job' = job, runs' = runs
  PROVE  Place(p)'
<1>1. CASE Advance(p)
  BY <1>1, AdvancePlace
<1>2. CASE Exit(p, 1) /\ UNCHANGED <<arg, at>>
  BY <1>2, ExitPlace DEF AtFile
<1> QED
  BY <1>1, <1>2 DEF Error

\* Going on with the same file keeps the place.
LEMMA NextPlace ==
  ASSUME TypeInv, NEW p \in Procs, pc[p] \in AtFile, pc'[p] \in AtFile, job' = job, rename' = rename,
         arg'[p] = arg[p], at'[p] = at[p], runs'[p] = runs[p],
         pc'[p] = "write" => fd'[p] \in Inodes,
         pc'[p] \in {"target", "write", "meta", "unlink"} => Copies(p),
         pc'[p] = "unlink" => Mode(p) = "move"
  PROVE  Place(p)'
<1>1. Place(p) /\ Mode(p)' = Mode(p) /\ (Copies(p)' <=> Copies(p))
  BY DEF TypeInv, Places, Mode, Copies
<1> QED
  BY <1>1, SameOrder DEF Place, AtFile, InRelease, Writing

LEMMA PlacesNext == ASSUME TypeInv, [Next]_vars PROVE Places'
<1>0. Plain /\ Places
  BY DEF TypeInv
<1>1. SUFFICES ASSUME NEW p \in Procs, Act(p)
               PROVE  Place(p)'
  <2>1. CASE UNCHANGED vars
    BY <1>0, <2>1 DEF vars, input, dirs, rel, local, hist, Places, Place, Order, Control, Mode, Copies
  <2>2. ASSUME NEW p \in Procs, Act(p)
        PROVE  Places'
    BY <1>0, <1>1, <2>2, OneRunMoves, SamePlace DEF Places
  <2> QED
    BY <2>1, <2>2 DEF Next, Finished, Act
<1>2. /\ job' = job /\ rename' = rename /\ Mode(p)' = Mode(p) /\ Place(p)
      /\ Mode(p) \in Modes /\ Len(job[p].args) \in Nat
      /\ Mode(p) = "release" => Len(job[p].args) = 0
  BY <1>0, <1>1, OneRunMoves, JobFacts DEF Mode, Places, Plain
<1>3. CASE Start(p)
  <2>1. /\ pc'[p] = IF Mode(p) = "release" THEN "read" ELSE "arg"
        /\ arg'[p] = 1 /\ at'[p] = 1 /\ runs'[p] = runs[p] + 1 /\ runs[p] \in Nat
    BY <1>0, <1>3 DEF Start, Goto, Plain
  <2> QED
    BY <1>2, <2>1 DEF Place, AtFile, InRelease, Writing
<1>4. CASE Kill(p)
  BY <1>2, <1>4, ExitPlace DEF Kill, local, Active
<1>5. CASE NoMoreArgs(p)
  <2>1. pc'[p] = "ended" /\ arg'[p] = arg[p] /\ at'[p] = at[p] /\ runs'[p] = runs[p]
    BY <1>0, <1>5 DEF NoMoreArgs, Exit, Goto, local, hist, Plain
  <2>2. arg[p] \in Nat /\ arg[p] > Len(job[p].args) /\ pc[p] = "arg"
    BY <1>0, <1>5 DEF NoMoreArgs, Plain
  <2> QED
    BY <1>2, <2>1, <2>2 DEF Place, AtFile, InRelease, Writing
<1>6. CASE Abort(p)
  BY <1>2, <1>6, ExitPlace DEF Abort, local, hist
<1>7. CASE Quit(p)
  <2>1. pc'[p] = "ended" /\ arg'[p] = arg[p] /\ at'[p] = at[p] /\ runs'[p] = runs[p]
        /\ Mode(p) = "remove" /\ pc[p] = "arg"
    BY <1>0, <1>7 DEF Quit, Exit, Goto, local, hist, Plain
  <2> QED
    BY <1>2, <2>1 DEF Place, AtFile, InRelease, Writing
<1>8. CASE Begin(p)
  <2>1. /\ pc'[p] \in {"file", "list"} /\ arg'[p] = arg[p] /\ at'[p] = at[p]
        /\ runs'[p] = runs[p] /\ pc[p] = "arg" /\ arg[p] <= Len(job[p].args)
    BY <1>0, <1>8 DEF Begin, Goto, local, hist, Plain
  <2>2. Len(Order(p)) \in Nat \ {0} /\ Order(p)' = Order(p)
    BY <1>0, <1>2, <2>1, OrderFacts, SameOrder
  <2>3. at[p] = 1 /\ 1 <= Len(Order(p))
    BY <1>2, <2>1, <2>2 DEF Place
  <2> QED
    BY <1>2, <2>1, <2>2, <2>3 DEF Place, AtFile, InRelease, Writing
<1>9. CASE ReadList(p)
  <2>1. CASE Exit(p, 1)
    BY <1>2, <1>9, <2>1, ExitPlace DEF ReadList, local, hist
  <2>2. CASE Goto(p, "file")
    <3>1. /\ pc'[p] = "file" /\ arg'[p] = arg[p] /\ at'[p] = at[p] /\ runs'[p] = runs[p]
          /\ pc[p] = "list"
      BY <1>0, <1>9, <2>2 DEF ReadList, Goto, local, hist, Plain
    <3> QED
      BY <1>2, <3>1, NextPlace DEF AtFile
  <2> QED
    BY <1>9, <2>1, <2>2 DEF ReadList
<1>10. CASE Look(p)
  <2>1. CASE Advance(p)
    BY <1>2, <1>10, <2>1, AdvancePlace DEF Look, hist, AtFile
  <2>2. CASE Goto(p, "open") /\ UNCHANGED <<arg, at>>
    <3>1. /\ pc'[p] = "open" /\ arg'[p] = arg[p] /\ at'[p] = at[p] /\ runs'[p] = runs[p]
          /\ pc[p] = "file"
      BY <1>0, <1>10, <2>2 DEF Look, Goto, hist, Plain
    <3> QED
      BY <1>2, <3>1, NextPlace DEF AtFile
  <2> QED
    BY <1>10, <2>1, <2>2 DEF Look
<1>11. CASE Vanished(p)
  BY <1>2, <1>11, ErrorPlace DEF Vanished, hist, AtFile
<1>12. CASE OpenSource(p)
  <2>1. /\ pc'[p] = "target" /\ arg'[p] = arg[p] /\ at'[p] = at[p] /\ runs'[p] = runs[p]
        /\ pc[p] = "open" /\ Copies(p)
    BY <1>0, <1>12 DEF OpenSource, Goto, local, hist, Plain
  <2> QED
    BY <1>2, <2>1, NextPlace DEF AtFile
<1>13. CASE OpenTarget(p)
  <2>1. /\ pc'[p] = "write" /\ arg'[p] = arg[p] /\ at'[p] = at[p] /\ runs'[p] = runs[p]
        /\ pc[p] = "target"
        /\ fd'[p] = IF archive[Cur(p)] = None THEN p ELSE archive[Cur(p)]
    BY <1>0, <1>13 DEF OpenTarget, Goto, hist, Plain
  <2>2. Cur(p) \in Names /\ Copies(p)
    BY <1>2, <2>1, CurFacts DEF AtFile, Place
  <2>3. fd'[p] \in Inodes
    BY <1>0, <2>1, <2>2 DEF Plain, Inodes
  <2> QED
    BY <1>2, <2>1, <2>2, <2>3, NextPlace DEF AtFile
<1>14. CASE WriteTarget(p)
  <2>1. CASE Advance(p)
    BY <1>2, <1>14, <2>1, AdvancePlace DEF WriteTarget, hist, AtFile
  <2>2. CASE Goto(p, "meta") /\ UNCHANGED <<arg, at>>
    <3>1. /\ pc'[p] = "meta" /\ arg'[p] = arg[p] /\ at'[p] = at[p] /\ runs'[p] = runs[p]
          /\ pc[p] = "write" /\ Copies(p)
      BY <1>0, <1>2, <1>14, <2>2 DEF WriteTarget, Goto, hist, Plain, Place
    <3> QED
      BY <1>2, <3>1, NextPlace DEF AtFile
  <2> QED
    BY <1>14, <2>1, <2>2 DEF WriteTarget
<1>15. CASE Metadata(p)
  <2>1. CASE Advance(p)
    BY <1>2, <1>15, <2>1, AdvancePlace DEF Metadata, hist, AtFile
  <2>2. CASE Mode(p) = "move" /\ Goto(p, "unlink") /\ UNCHANGED <<arg, at>>
    <3>1. /\ pc'[p] = "unlink" /\ arg'[p] = arg[p] /\ at'[p] = at[p] /\ runs'[p] = runs[p]
          /\ pc[p] = "meta" /\ Copies(p)
      BY <1>0, <1>2, <1>15, <2>2 DEF Metadata, Goto, hist, Plain, Place
    <3> QED
      BY <1>2, <2>2, <3>1, NextPlace DEF AtFile
  <2> QED
    BY <1>15, <2>1, <2>2 DEF Metadata
<1>16. CASE Unlink(p)
  <2>1. CASE Advance(p)
    BY <1>2, <1>16, <2>1, AdvancePlace DEF Unlink, hist, AtFile
  <2>2. CASE Error(p)
    BY <1>2, <1>16, <2>2, ErrorPlace DEF Unlink, hist, AtFile
  <2> QED
    BY <1>16, <2>1, <2>2 DEF Unlink
<1>17. CASE Rename(p) \/ Remove(p)
  BY <1>2, <1>17, AdvancePlace DEF Rename, Remove, hist, AtFile
<1>18. CASE ReadRelease(p) \/ CreateTmp(p) \/ MvRelease(p)
  <2>1. \/ pc[p] = "read" /\ pc'[p] = "create" /\ fd'[p] = fd[p]
        \/ pc[p] = "create" /\ pc'[p] = "mv" /\ fd'[p] \in Inodes
        \/ pc[p] = "mv" /\ pc'[p] = "close" /\ fd'[p] = fd[p]
    BY <1>0, <1>18 DEF ReadRelease, CreateTmp, MvRelease, Goto, local, Plain, Inodes
  <2>2. arg'[p] = arg[p] /\ at'[p] = at[p] /\ runs'[p] = runs[p]
    BY <1>0, <1>18 DEF ReadRelease, CreateTmp, MvRelease, local, hist
  <2> QED
    BY <1>2, <2>1, <2>2 DEF Place, AtFile, InRelease, Writing
<1>19. CASE CloseTmp(p)
  <2>1. /\ pc'[p] = "ended" /\ arg'[p] = arg[p] /\ at'[p] = at[p] /\ runs'[p] = runs[p]
        /\ pc[p] = "close" /\ arg[p] \in Nat \ {0}
    BY <1>0, <1>19 DEF CloseTmp, Exit, Goto, local, hist, Plain
  <2> QED
    BY <1>2, <2>1 DEF Place, AtFile, InRelease, Writing
<1>20. CASE Fails(p)
  <2>1. fd' = fd /\ runs' = runs
    BY <1>20 DEF Fails
  <2>2. CASE pc[p] \in {"open", "target", "write", "meta", "unlink"} /\ Error(p)
    BY <1>2, <2>1, <2>2, ErrorPlace DEF AtFile
  <2>3. CASE /\ pc[p] \in {"list", "read", "create", "close"}
             /\ Exit(p, 1) /\ UNCHANGED <<arg, at>>
    BY <1>2, <2>1, <2>3, ExitPlace
  <2>4. CASE pc[p] = "mv" /\ Goto(p, "close") /\ UNCHANGED <<arg, at, code>>
    <3>1. pc'[p] = "close" /\ arg'[p] = arg[p] /\ at'[p] = at[p] /\ pc[p] = "mv"
      BY <1>0, <2>4 DEF Goto, Plain
    <3> QED
      BY <1>2, <2>1, <3>1 DEF Place, AtFile, InRelease, Writing
  <2> QED
    BY <1>20, <2>2, <2>3, <2>4 DEF Fails
<1> QED
  BY <1>1, <1>3, <1>4, <1>5, <1>6, <1>7, <1>8, <1>9, <1>10, <1>11, <1>12, <1>13, <1>14,
     <1>15, <1>16, <1>17, <1>18, <1>19, <1>20 DEF Act, Step

LEMMA TypeInvInit == ASSUME Init PROVE TypeInv
<1>1. Plain
  BY PlainInit
<1>2. ASSUME NEW p \in Procs PROVE Place(p)
  <2>1. pc[p] = "idle" /\ arg[p] = 1 /\ Len(job[p].args) \in Nat
    BY <1>1, JobFacts DEF Init, Plain
  <2> QED
    BY <2>1 DEF Place, AtFile, InRelease, Writing
<1> QED
  BY <1>1, <1>2 DEF TypeInv, Places

LEMMA TypeInvNext == ASSUME TypeInv, [Next]_vars PROVE TypeInv'
  BY PlainNext, PlacesNext DEF TypeInv

LEMMA TypeInvOK == ASSUME TypeInv PROVE TypeOK
<1>1. ASSUME NEW p \in Procs
      PROVE  /\ arg[p] \in 1..(Len(job[p].args) + 1) /\ at[p] \in Nat \ {0}
             /\ pc[p] \in AtFile => arg[p] <= Len(job[p].args) /\ at[p] <= Len(Order(p))
             /\ pc[p] \in Writing => fd[p] # None
  BY JobFacts, InodesAssumption DEF TypeInv, Plain, Places, Place, Inodes
<1>2. pc \in [Procs -> {"idle", "arg", "read", "create", "mv", "close", "ended"} \cup AtFile]
  BY DEF TypeInv, Plain, InRelease
<1> QED
  BY <1>1, <1>2 DEF TypeInv, Plain, TypeOK

LEMMA TypeInvariant == Spec => []TypeInv
  BY TypeInvInit, TypeInvNext, PTL DEF Spec

\* The variables have their types: a run of the scripts is never beyond its
\* arguments or the files of one of them, and writes only to a file it has open.
THEOREM TypeCorrect == Spec => []TypeOK
<1>1. TypeInv => TypeOK
  BY TypeInvOK
<1> QED
  BY <1>1, TypeInvariant, PTL

-----------------------------------------------------------------------------
(* What a step needs to have happened before *)

LEMMA NeverIdle ==
  ASSUME TypeInv, NEW p \in Procs, Act(p)
  PROVE  pc'[p] # "idle"
<1> USE DEF TypeInv, Plain, Goto, Exit, Error
<1>1. CASE Start(p) \/ Kill(p) \/ Fails(p)
  BY <1>1 DEF Start, Kill, Fails, Advance
<1>2. CASE NoMoreArgs(p) \/ Abort(p) \/ Quit(p) \/ Begin(p) \/ ReadList(p)
  BY <1>2 DEF NoMoreArgs, Abort, Quit, Begin, ReadList
<1>3. CASE ReadRelease(p) \/ CreateTmp(p) \/ MvRelease(p) \/ CloseTmp(p)
  BY <1>3 DEF ReadRelease, CreateTmp, MvRelease, CloseTmp
<1>4. CASE OpenSource(p) \/ OpenTarget(p)
  BY <1>4 DEF OpenSource, OpenTarget
<1>5. CASE Look(p) \/ Vanished(p) \/ WriteTarget(p) \/ Metadata(p) \/ Unlink(p)
  BY <1>5 DEF Look, Vanished, WriteTarget, Metadata, Unlink, Advance
<1>6. CASE Rename(p) \/ Remove(p)
  BY <1>6 DEF Rename, Remove, Advance
<1> QED
  BY <1>1, <1>2, <1>3, <1>4, <1>5, <1>6 DEF Act, Step

\* A run that takes a step was started; who was not started before and after is
\* the same but for it, so what holds of all that were started after the step
\* held before it.
LEMMA RunsGrow ==
  ASSUME TypeInv, TypeInv', NEW p \in Procs, Act(p)
  PROVE  /\ runs'[p] > 0
         /\ \A q \in Procs : runs[q] > 0 => runs'[q] > 0
<1>1. runs'[p] > 0
  BY NeverIdle DEF TypeInv, Places, Place
<1> QED
  BY <1>1, OneRunMoves DEF TypeInv, Same

LEMMA OnlyModeBefore ==
  ASSUME TypeInv, TypeInv', NEW p \in Procs, Act(p), NEW m, OnlyMode(m)'
  PROVE  OnlyMode(m) /\ Mode(p) \in {m, "release"}
<1>1. job' = job
  BY OneRunMoves DEF TypeInv
<1> QED
  BY <1>1, RunsGrow DEF OnlyMode, Mode

-----------------------------------------------------------------------------
(* Removal: the control file goes last *)

\* No archive has at first a file of a control file that is not there itself.
CompleteArchives == \A a \in Archives : \A c \in Roots : c \notin a => Files(c) \cap a = {}

\* A run of deb-remove has no file of its control file left behind it.
NothingBehind(p) ==
    Mode(p) = "remove" /\ pc[p] \in {"list", "file", "open"} =>
      \A k \in 1..(at[p] - 1) : archive[Order(p)[k]] = None

RemoveInv == OnlyMode("remove") => (\A p \in Procs : NothingBehind(p)) /\ RemovedInOrder

LEMMA RemoveNext ==
  ASSUME TypeInv, TypeInv', RemoveInv, [Next]_vars
  PROVE  RemoveInv'
<1>1. CASE UNCHANGED vars
  BY <1>1 DEF vars, input, dirs, local, hist, RemoveInv, OnlyMode, NothingBehind,
              RemovedInOrder, Mode, Order, Control
<1>2. SUFFICES ASSUME NEW p \in Procs, Act(p), OnlyMode("remove")'
               PROVE  (\A q \in Procs : NothingBehind(q)') /\ RemovedInOrder'
  BY <1>1 DEF Next, Finished, RemoveInv, Act
<1>3. Plain /\ Plain' /\ Place(p)
  BY DEF TypeInv, Places
<1>4. /\ OnlyMode("remove") /\ Mode(p) \in {"remove", "release"}
      /\ \A q \in Procs : NothingBehind(q)
      /\ RemovedInOrder
  BY <1>2, OnlyModeBefore DEF RemoveInv
<1>5. job' = job /\ \A q \in Procs \ {p} : Same(q)
  BY <1>2, <1>3, OneRunMoves
<1>6. archive' = archive \/ Remove(p)
  <2>1. ~OpenTarget(p) /\ ~Rename(p)
    BY <1>3, <1>4 DEF OpenTarget, Rename, Copies, Place
  <2> QED
    BY <1>2, <2>1 DEF Act, Start, Step, Kill, NoMoreArgs, Abort, Quit, Begin, ReadList,
       OpenSource, Metadata, Fails, Error, Look, Vanished, WriteTarget, Unlink, ReadRelease,
       CreateTmp, MvRelease, CloseTmp, dirs
<1>7. \A f \in Names : archive[f] = None => archive'[f] = None
  BY <1>3, <1>6 DEF Remove, Plain
<1>8. ASSUME NEW q \in Procs \ {p} PROVE NothingBehind(q)'
  <2>1. SUFFICES ASSUME Mode(q)' = "remove", pc'[q] \in {"list", "file", "open"},
                        NEW k \in 1..(at'[q] - 1)
                 PROVE  archive'[Order(q)'[k]] = None
    BY DEF NothingBehind
  <2>2. Same(q) /\ Order(q)' = Order(q) /\ Mode(q)' = Mode(q)
    BY <1>5, SameOrder DEF Same, Mode
  <2>3. archive[Order(q)[k]] = None
    BY <1>4, <2>1, <2>2 DEF NothingBehind, Same
  <2>4. Order(q) \in Seq(Names) /\ at[q] \in 1..Len(Order(q)) /\ Len(Order(q)) \in Nat
    BY <1>3, <2>1, <2>2, CurFacts, OrderFacts DEF Same, AtFile, TypeInv
  <2>5. Order(q)[k] \in Names
    BY <2>1, <2>2, <2>4 DEF Same
  <2> QED
    BY <1>7, <2>2, <2>3, <2>5
<1>9. NothingBehind(p)'
  <2>1. SUFFICES ASSUME Mode(p) = "remove", pc'[p] \in {"list", "file", "open"},
                        NEW k \in 1..(at'[p] - 1)
                 PROVE  archive'[Order(p)'[k]] = None
    BY <1>5 DEF NothingBehind, Mode
  <2>2. CASE pc[p] \in AtFile
    <3>1. Order(p) \in Seq(Names) /\ at[p] \in 1..Len(Order(p)) /\ Len(Order(p)) \in Nat
      BY <1>3, <2>2, CurFacts, OrderFacts DEF TypeInv
    <3>2. pc[p] \in {"list", "file", "open"}
      BY <1>3, <2>1, <2>2 DEF Place, AtFile, Copies
    <3>3. \A j \in 1..(at[p] - 1) : archive'[Order(p)[j]] = None
      <4>1. \A j \in 1..(at[p] - 1) : archive[Order(p)[j]] = None /\ Order(p)[j] \in Names
        BY <1>4, <2>1, <3>1, <3>2 DEF NothingBehind
      <4> QED
        BY <1>7, <4>1
    <3>4. CASE Advance(p)
      <4>1. at'[p] = at[p] + 1 /\ Order(p)' = Order(p)
        BY <1>5, <2>1, <2>2, <3>4, AdvanceFacts
      <4>2. archive'[Cur(p)] = None
        <5>1. Cur(p) \in Names
          BY <2>2, CurFacts
        <5>2. CASE Look(p)
          <6>1. ~There(p, Cur(p))
            BY <1>3, <3>4, <4>1, <5>2, <3>1 DEF Look, Plain, Goto, Advance
          <6> QED
            BY <2>1, <5>1, <6>1, <1>7 DEF There
        <5>3. CASE Remove(p)
          BY <1>3, <5>1, <5>3 DEF Remove, Plain
        <5>4. CASE Vanished(p)
          BY <2>1, <1>7, <3>2, <5>1, <5>4 DEF Vanished, There
        <5>5. ~Fails(p)
          BY <1>3, <2>1 DEF Fails, Error, Exit, Goto, Plain
        <5>6. ~ReadList(p)
          BY <3>1, <4>1 DEF ReadList, local
        <5> QED
          BY <1>2, <1>3, <2>1, <3>2, <5>2, <5>3, <5>4, <5>5, <5>6 DEF Act, Start, Kill, Step, NoMoreArgs,
             Abort, Quit, Begin, ReadList, OpenSource, Metadata, Fails, Error, OpenTarget,
             WriteTarget, Unlink, Rename, ReadRelease, CreateTmp, MvRelease, CloseTmp, Copies,
             Active, Exit, Goto, Plain
      <4> QED
        BY <2>1, <3>1, <3>3, <4>1, <4>2 DEF Cur
    <3>5. CASE ~Advance(p)
      <4>1. at'[p] = at[p] /\ arg'[p] = arg[p]
        BY <1>2, <1>3, <2>1, <3>2, <3>5 DEF Act, Start, Kill, Step, NoMoreArgs, Abort, Quit,
           Begin, ReadList, OpenSource, Metadata, Fails, Error, Look, Vanished, OpenTarget,
           WriteTarget, Unlink, Rename, Remove, ReadRelease, CreateTmp, MvRelease, CloseTmp,
           Copies, local, Exit, Goto, Plain
      <4> QED
        BY <1>5, <2>1, <3>3, <4>1, SameOrder
    <3> QED
      BY <3>4, <3>5
  <2>3. CASE pc[p] \notin AtFile
    <3>1. at'[p] = 1
      BY <1>2, <1>3, <2>1, <2>3 DEF Act, Start, Kill, Step, NoMoreArgs, Abort, Quit, Begin,
         ReadList, OpenSource, Metadata, Fails, Error, Place, Look, Vanished, OpenTarget,
         WriteTarget, Unlink, Rename, Remove, ReadRelease, CreateTmp, MvRelease, CloseTmp,
         local, Exit, Goto, Plain, AtFile, InRelease
    <3> QED
      BY <2>1, <3>1
  <2> QED
    BY <2>2, <2>3
<1>10. RemovedInOrder'
  <2>1. SUFFICES ASSUME NEW c \in Roots, archive'[c] = None, NEW f \in Files(c)
                 PROVE  archive'[f] = None
    BY DEF RemovedInOrder
  <2>2. c \in Names /\ f \in Names
    BY ListedAssumption DEF Roots, Files
  <2>3. CASE archive[c] = None
    BY <1>4, <1>7, <2>1, <2>2, <2>3 DEF RemovedInOrder
  <2>4. CASE archive[c] # None
    <3>1. Remove(p) /\ Cur(p) = c
      BY <1>3, <1>6, <2>1, <2>2, <2>4 DEF Remove, Plain
    <3>2. pc[p] = "open" /\ Mode(p) = "remove"
      BY <3>1 DEF Remove
    <3>3. /\ at[p] \in 1..Len(Order(p)) /\ Len(Order(p)) \in Nat /\ Control(p) \in Names
          /\ Mode(p) # "copy" /\ at[p] < Len(Order(p)) =>
               at[p] \in DOMAIN Listed[Control(p)] /\ Cur(p) = Listed[Control(p)][at[p]]
          /\ Order(p)[Len(Order(p))] = Control(p)
          /\ \A g \in Files(Control(p)) : \E k \in 1..Len(Order(p)) : Order(p)[k] = g
      BY <1>3, <3>2, CurFacts, OrderFacts DEF TypeInv, AtFile, Cur
    <3>4. at[p] = Len(Order(p)) /\ Control(p) = c
      BY <3>1, <3>2, <3>3 DEF Roots, Cur
    <3>5. PICK k \in 1..Len(Order(p)) : Order(p)[k] = f
      BY <3>3, <3>4
    <3>6. CASE k = at[p]
      BY <2>1, <3>4, <3>5, <3>6, <3>3
    <3>7. CASE k # at[p]
      <4>1. archive[f] = None
        BY <1>4, <3>2, <3>3, <3>4, <3>5, <3>7 DEF NothingBehind
      <4> QED
        BY <1>7, <2>2, <4>1
    <3> QED
      BY <3>6, <3>7
  <2> QED
    BY <2>3, <2>4
<1> QED
  BY <1>8, <1>9, <1>10

\* Where runs only remove, a control file that is gone has left none of the
\* files it names in the archive, however the runs of deb-remove overlap and
\* wherever they are killed, if that was so of what was in the archive at first.
THEOREM RemoveIsOrdered == ASSUME CompleteArchives PROVE Spec => []RemovedInOrder
<1>1. Init => RemoveInv
  <2> SUFFICES ASSUME Init PROVE RemoveInv
    OBVIOUS
  <2>1. Plain
    BY PlainInit
  <2>2. PICK a \in Archives : archive = [f \in Names |-> IF f \in a THEN Old ELSE None]
    BY DEF Init
  <2>3. ASSUME NEW c \in Roots, archive[c] = None, NEW f \in Files(c)
        PROVE  archive[f] = None
    <3>1. c \in Names /\ f \in Names
      BY ListedAssumption DEF Roots, Files
    <3>2. c \notin a
      BY <2>2, <2>3, <3>1, InodesAssumption
    <3> QED
      BY <2>2, <3>1, <3>2 DEF CompleteArchives
  <2>4. \A p \in Procs : NothingBehind(p)
    BY DEF Init, NothingBehind
  <2> QED
    BY <2>3, <2>4 DEF RemoveInv, RemovedInOrder
<1>2. TypeInv /\ TypeInv' /\ RemoveInv /\ [Next]_vars => RemoveInv'
  BY RemoveNext
<1>3. RemoveInv => RemovedInOrder
  BY DEF RemoveInv, RemovedInOrder
<1> QED
  BY <1>1, <1>2, <1>3, TypeInvariant, PTL DEF Spec

-----------------------------------------------------------------------------
(* Runs that do not overlap *)

AloneInv == crowd = {} => \A p, q \in Active : p = q

LEMMA StepIsActive ==
  ASSUME TypeInv, NEW p \in Procs, Step(p) \/ Fails(p) \/ Kill(p)
  PROVE  p \in Active /\ runs' = runs /\ crowd' = crowd
<1>1. pc[p] \notin {"idle", "ended"}
  BY DEF Act, Step, Kill, Active, NoMoreArgs, Abort, Quit, Begin, ReadList, OpenSource,
     Metadata, Fails, Error, Look, Vanished, OpenTarget, WriteTarget, Unlink, Rename, Remove,
     ReadRelease, CreateTmp, MvRelease, CloseTmp
<1>2. runs' = runs /\ crowd' = crowd
  BY DEF Act, Step, Kill, NoMoreArgs, Abort, Quit, Begin, ReadList, OpenSource, Metadata,
     Fails, Error, Look, Vanished, OpenTarget, hist, WriteTarget, Unlink, Rename, Remove,
     ReadRelease, CreateTmp, MvRelease, CloseTmp
<1> QED
  BY <1>1, <1>2 DEF Active

LEMMA AloneNext == ASSUME TypeInv, AloneInv, [Next]_vars PROVE AloneInv'
<1>1. CASE UNCHANGED vars
  BY <1>1 DEF vars, hist, AloneInv, Active
<1>2. SUFFICES ASSUME NEW p \in Procs, Act(p), crowd' = {}
               PROVE  \A q, r \in Active' : q = r
  BY <1>1 DEF Next, Finished, AloneInv, Act
<1>3. \A q \in Procs \ {p} : pc'[q] = pc[q]
  BY <1>2, OneRunMoves DEF TypeInv, Same
<1>4. CASE Start(p)
  <2>1. Active = {}
    BY <1>2, <1>4 DEF Start
  <2> QED
    BY <1>3, <2>1 DEF Active
<1>5. CASE Step(p) \/ Fails(p) \/ Kill(p)
  <2>1. crowd = {} /\ p \in Active
    BY <1>2, <1>5, StepIsActive
  <2> QED
    BY <1>3, <2>1 DEF AloneInv, Active
<1> QED
  BY <1>2, <1>4, <1>5 DEF Act

\* As long as no two have overlapped, who takes a step is the only one at work.
LEMMA OthersRest ==
  ASSUME TypeInv, AloneInv, NEW p \in Procs, Act(p), crowd' = {}
  PROVE  crowd = {} /\ \A q \in Procs \ {p} : q \notin Active /\ Same(q)
<1>1. \A q \in Procs \ {p} : Same(q)
  BY OneRunMoves DEF TypeInv
<1>2. CASE Start(p)
  BY <1>1, <1>2 DEF Start
<1>3. CASE Step(p) \/ Fails(p) \/ Kill(p)
  BY <1>1, <1>3, StepIsActive DEF AloneInv
<1> QED
  BY <1>2, <1>3 DEF Act

-----------------------------------------------------------------------------
(* Release *)

\* No run of deb-release was killed or met a failure.
Well == Runs("release") \cap (killed \cup failed) = {}

LEMMA WellBefore ==
  ASSUME TypeInv, TypeInv', NEW p \in Procs, Act(p), Well'
  PROVE  Well /\ (Mode(p) = "release" => ~Kill(p) /\ ~Fails(p))
<1>1. job' = job
  BY OneRunMoves DEF TypeInv
<1>2. killed \subseteq killed' /\ failed \subseteq failed'
  BY DEF Act, Start, Step, Kill, NoMoreArgs, Abort, Quit, Begin, ReadList, OpenSource, Metadata,
     Fails, Look, Vanished, OpenTarget, WriteTarget, Unlink, Rename, Remove, ReadRelease,
     CreateTmp, MvRelease, CloseTmp, hist
<1>3. Runs("release") \subseteq Runs("release")' /\ (Mode(p) = "release" => p \in Runs("release")')
  BY <1>1, RunsGrow DEF Runs, Mode
<1>4. (Kill(p) => p \in killed') /\ (Fails(p) => p \in failed')
  BY DEF Kill, Fails
<1> QED
  BY <1>2, <1>3, <1>4 DEF Well

\* Only the steps of deb-release touch its files.
Steps4(p) == ReadRelease(p) \/ CreateTmp(p) \/ MvRelease(p) \/ CloseTmp(p)

LEMMA OthersKeepRelease ==
  ASSUME TypeInv, NEW p \in Procs, Act(p), ~Steps4(p), Mode(p) = "release" => ~Kill(p) /\ ~Fails(p)
  PROVE  /\ release' = release /\ text' = text /\ relinfo' = relinfo
         /\ pc[p] \notin InRelease /\ pc'[p] \notin {"create", "mv", "close"}
         /\ Mode(p) = "release" => Start(p) /\ pc'[p] = "read"
<1>0. Place(p) /\ Plain
  BY DEF TypeInv, Places
<1>1. Mode(p) = "release" => Start(p) /\ pc'[p] = "read"
  <2>1. SUFFICES ASSUME Mode(p) = "release" PROVE Start(p) /\ pc'[p] = "read"
    OBVIOUS
  <2>2. pc[p] \notin {"arg"} \cup AtFile
    BY <1>0, <2>1 DEF Place
  <2>3. ~Step(p)
    BY <2>2 DEF Steps4, Step, NoMoreArgs, Abort, Quit, Begin, ReadList, OpenSource, Metadata, Look,
       Vanished, OpenTarget, WriteTarget, Unlink, Rename, Remove, AtFile
  <2> QED
    BY <1>0, <2>1, <2>3 DEF Act, Start, Goto, Plain
<1>2. release' = release /\ text' = text /\ relinfo' = relinfo
  BY DEF Act, Start, Step, Kill, NoMoreArgs, Abort, Quit, Begin, ReadList, OpenSource, Metadata,
     Fails, Look, Vanished, OpenTarget, WriteTarget, Unlink, Rename, Remove, Steps4, rel
<1>3. pc[p] \notin InRelease
  <2>1. CASE Mode(p) = "release"
    BY <1>1, <2>1 DEF Start, InRelease
  <2>2. CASE Mode(p) # "release"
    BY <1>0, <2>2 DEF Place
  <2> QED
    BY <2>1, <2>2
<1>4. pc'[p] \notin {"create", "mv", "close"}
  <2>1. SUFFICES ASSUME Mode(p) # "release" PROVE pc'[p] \notin {"create", "mv", "close"}
    BY <1>1
  <2> USE <1>0 DEF Plain, Goto, Exit, Advance, Error
  <2>2. CASE Start(p) \/ Kill(p)
    BY <2>1, <2>2 DEF Start, Kill
  <2>3. CASE Fails(p)
    BY <1>3, <2>3 DEF Fails, InRelease
  <2>4. CASE NoMoreArgs(p) \/ Abort(p) \/ Quit(p) \/ Begin(p) \/ ReadList(p)
    BY <2>4 DEF NoMoreArgs, Abort, Quit, Begin, ReadList
  <2>5. CASE Look(p) \/ Vanished(p) \/ OpenSource(p)
    BY <2>5 DEF Look, Vanished, OpenSource
  <2>6. CASE OpenTarget(p) \/ WriteTarget(p) \/ Metadata(p)
    BY <2>6 DEF OpenTarget, WriteTarget, Metadata
  <2>7. CASE Unlink(p) \/ Rename(p) \/ Remove(p)
    BY <2>7 DEF Unlink, Rename, Remove
  <2> QED
    BY <2>2, <2>3, <2>4, <2>5, <2>6, <2>7 DEF Act, Step, Steps4
<1> QED
  BY <1>1, <1>2, <1>3, <1>4

\* A run of deb-release always has an architecture to write.
InfoInv == \A p \in Procs : relinfo[p]["Architecture"] # ""

LEMMA InfoNext == ASSUME TypeInv, InfoInv, [Next]_vars PROVE InfoInv'
<1>1. CASE relinfo' = relinfo
  BY <1>1 DEF InfoInv
<1>2. ASSUME NEW p \in Procs, ReadRelease(p) PROVE InfoInv'
  <2> DEFINE value(k) == Cut[text[release.name][k]]
             info == [k \in Kept |-> IF value(k) = "" THEN Default[k] ELSE value(k)]
  <2>1. relinfo' = [relinfo EXCEPT ![p] = info] /\ relinfo \in [Procs -> [Kept -> Texts]]
    BY <1>2 DEF ReadRelease, TypeInv, Plain
  <2>2. "Architecture" \in Kept /\ Default["Architecture"] = "all"
    BY DEF Kept, Default
  <2>3. info["Architecture"] # ""
    <3>1. info["Architecture"] = IF value("Architecture") = "" THEN Default["Architecture"]
                                                              ELSE value("Architecture")
      BY <2>2
    <3> HIDE DEF value, info
    <3> QED
      BY <2>2, <3>1
  <2> HIDE DEF info
  <2> QED
    BY <2>1, <2>3 DEF InfoInv
<1> QED
  BY <1>1, <1>2 DEF Next, Finished, vars, Start, Step, Kill, NoMoreArgs, Abort, Quit, Begin,
     ReadList, OpenSource, Metadata, Fails, Look, Vanished, OpenTarget, WriteTarget, Unlink,
     Rename, Remove, CreateTmp, MvRelease, CloseTmp, rel

\* Somebody is about to fill an empty file.
EmptyIsOpen ==
    Well => \A n \in Inodes : text[n] = Empty =>
              \E p \in Procs : pc[p] \in {"mv", "close"} /\ fd[p] = n

LEMMA EmptyNext ==
  ASSUME TypeInv, TypeInv', InfoInv, EmptyIsOpen, [Next]_vars
  PROVE  EmptyIsOpen'
<1>1. CASE UNCHANGED vars
  BY <1>1 DEF vars, input, hist, rel, local, EmptyIsOpen, Well, Runs, Mode
<1>2. SUFFICES ASSUME NEW p \in Procs, Act(p), Well',
                      NEW n \in Inodes, text'[n] = Empty
               PROVE  \E q \in Procs : pc'[q] \in {"mv", "close"} /\ fd'[q] = n
  BY <1>1 DEF Next, Finished, EmptyIsOpen, Act
<1>3. Plain /\ Place(p)
  BY DEF TypeInv, Places
<1>4. Well /\ (Mode(p) = "release" => ~Kill(p) /\ ~Fails(p))
  BY <1>2, WellBefore
<1>5. \A q \in Procs \ {p} : pc'[q] = pc[q] /\ fd'[q] = fd[q]
  BY <1>2, <1>3, OneRunMoves DEF Same
<1>6. CASE CreateTmp(p)
  <2>1. /\ pc'[p] = "mv" /\ pc[p] = "create"
        /\ text' = [text EXCEPT ![fd'[p]] = Empty]
    BY <1>3, <1>6 DEF CreateTmp, Goto, Plain
  <2>2. CASE n = fd'[p]
    BY <2>1, <2>2
  <2>3. CASE n # fd'[p]
    <3>1. PICK q \in Procs : pc[q] \in {"mv", "close"} /\ fd[q] = n
      BY <1>2, <1>3, <1>4, <2>1, <2>3 DEF EmptyIsOpen, Plain
    <3> QED
      BY <1>5, <2>1, <3>1
  <2> QED
    BY <2>2, <2>3
<1>7. CASE MvRelease(p)
  <2>1. PICK q \in Procs : pc[q] \in {"mv", "close"} /\ fd[q] = n
    BY <1>2, <1>4, <1>7 DEF EmptyIsOpen, MvRelease
  <2>2. pc'[p] = "close" /\ fd'[p] = fd[p]
    BY <1>3, <1>7 DEF MvRelease, Goto, local, Plain
  <2> QED
    BY <1>5, <2>1, <2>2
<1>8. CASE CloseTmp(p)
  <2> DEFINE now == [k \in Fields |-> IF k \in Kept THEN relinfo[p][k] ELSE ""]
  <2>1. fd[p] \in Inodes /\ text' = [text EXCEPT ![fd[p]] = now]
    BY <1>3, <1>8 DEF CloseTmp, Plain, Place, Writing
  <2>2. "Architecture" \in Kept /\ "Architecture" \in Fields
    BY DEF Kept, Fields
  <2>3. now["Architecture"] = relinfo[p]["Architecture"] /\ Empty["Architecture"] = ""
    BY <2>2 DEF Empty
  <2>4. now # Empty
    BY <2>3 DEF InfoInv
  <2> HIDE DEF now
  <2>5. n # fd[p] /\ text[n] = Empty
    BY <1>2, <1>3, <2>1, <2>4 DEF Plain
  <2>6. PICK q \in Procs : pc[q] \in {"mv", "close"} /\ fd[q] = n
    BY <1>4, <2>5 DEF EmptyIsOpen
  <2> QED
    BY <1>5, <2>5, <2>6
<1>9. CASE ReadRelease(p)
  <2>1. text' = text /\ pc[p] = "read"
    BY <1>9 DEF ReadRelease
  <2>2. PICK q \in Procs : pc[q] \in {"mv", "close"} /\ fd[q] = n
    BY <1>2, <1>4, <2>1 DEF EmptyIsOpen
  <2> QED
    BY <1>5, <2>1, <2>2
<1>10. CASE ~Steps4(p)
  <2>1. text' = text /\ pc[p] \notin InRelease
    BY <1>2, <1>4, <1>10, OthersKeepRelease
  <2>2. PICK q \in Procs : pc[q] \in {"mv", "close"} /\ fd[q] = n
    BY <1>2, <1>4, <2>1 DEF EmptyIsOpen
  <2> QED
    BY <1>5, <2>1, <2>2 DEF InRelease
<1> QED
  BY <1>6, <1>7, <1>8, <1>9, <1>10 DEF Steps4

\* Reading what was said, or what was written of it, gives the same values.
LEMMA ReadsTheSame ==
  ASSUME said \in Sayings, NEW k \in Kept, NEW t, t = said[k] \/ t = Rewritten(k)
  PROVE  (IF Cut[t] = "" THEN Default[k] ELSE Cut[t]) = Rewritten(k)
<1>1. /\ said[k] \in Texts /\ k # "Other"
      /\ Cut["stretch"] = "stretch" /\ Cut["all"] = "all" /\ Cut[""] = ""
      /\ Cut[Cut[said[k]]] = Cut[said[k]]
  BY TextsAssumption DEF Kept, Fields
<1>2. Default[k] = IF k = "Archive" THEN "stretch" ELSE IF k = "Architecture" THEN "all" ELSE ""
  BY DEF Default
<1>3. Rewritten(k) = IF Cut[said[k]] = "" THEN Default[k] ELSE Cut[said[k]]
  BY <1>1, <1>2 DEF Rewritten
<1> QED
  BY <1>1, <1>2, <1>3

RewrittenAll == [k \in Fields |-> Rewritten(k)]
Ended == \E p \in Runs("release") : pc[p] = "ended"

\* Without an overlap, a run of deb-release has read what Release says, writes it
\* to a new file, and that is Release when it closes it.
ReleaseOf(p) ==
    /\ pc[p] \in {"create", "mv", "close"} => relinfo[p] = [k \in Kept |-> Rewritten(k)]
    /\ pc[p] = "mv" => release.tmp = p /\ fd[p] = p
    /\ pc[p] = "close" => fd[p] = release.name
    /\ release.name = p => pc[p] \in {"close", "ended"} /\ Mode(p) = "release"
    /\ Mode(p) = "release" /\ pc[p] = "ended" => code[p] = 0

ReleaseInv ==
    Well /\ crowd = {} =>
      /\ \A p \in Procs : ReleaseOf(p)
      /\ (\A p \in Procs : pc[p] # "mv") => release.tmp = None
      /\ (\A p \in Procs : pc[p] # "close") =>
           text[release.name] = IF Ended THEN RewrittenAll ELSE said

LEMMA ReleaseNext ==
  ASSUME TypeInv, TypeInv', AloneInv, ReleaseInv, [Next]_vars
  PROVE  ReleaseInv'
<1>1. CASE UNCHANGED vars
  BY <1>1 DEF vars, input, hist, rel, local, ReleaseInv, ReleaseOf, Well, Runs, Mode, Ended,
     RewrittenAll, Rewritten
<1>2. SUFFICES ASSUME NEW p \in Procs, Act(p), Well', crowd' = {}
               PROVE  /\ \A q \in Procs : ReleaseOf(q)'
                      /\ (\A q \in Procs : pc'[q] # "mv") => release'.tmp = None
                      /\ (\A q \in Procs : pc'[q] # "close") =>
                           text'[release'.name] = IF Ended' THEN RewrittenAll' ELSE said'
  BY <1>1 DEF Next, Finished, ReleaseInv, Act
<1>3. Plain /\ Place(p) /\ Plain' /\ Place(p)'
  BY DEF TypeInv, Places
<1>4. Well /\ (Mode(p) = "release" => ~Kill(p) /\ ~Fails(p))
  BY <1>2, WellBefore
<1>5. /\ crowd = {} /\ job' = job /\ said' = said
      /\ \A q \in Procs \ {p} : pc[q] \in {"idle", "ended"} /\ Same(q)
  BY <1>2, <1>3, OthersRest, OneRunMoves DEF Active
<1>6. /\ \A q \in Procs : ReleaseOf(q)
      /\ pc[p] # "mv" => release.tmp = None
      /\ pc[p] # "close" => text[release.name] = IF Ended THEN RewrittenAll ELSE said
  BY <1>4, <1>5 DEF ReleaseInv
<1>7. release.name \in Inodes /\ p \in Inodes
  BY <1>3 DEF Plain, Inodes
<1>8. /\ \A k : Rewritten(k)' = Rewritten(k)
      /\ \A q \in Procs : Mode(q)' = Mode(q)
  BY <1>5 DEF Rewritten, Mode
<1>9. RewrittenAll' = RewrittenAll /\ [k \in Kept |-> Rewritten(k)]' = [k \in Kept |-> Rewritten(k)]
  BY <1>8 DEF RewrittenAll
<1>10. ASSUME pc[p] # "ended", pc'[p] # "ended" PROVE Ended' = Ended
  <2>1. Runs("release") \ {p} = Runs("release")' \ {p}
    BY <1>5, <1>8 DEF Runs, Same
  <2> QED
    BY <1>5, <1>10, <2>1 DEF Ended, Runs, Same
<1>11. CASE CreateTmp(p)
  <2>1. pc[p] = "create" /\ pc'[p] = "mv" /\ release.tmp = None
    BY <1>3, <1>6, <1>11 DEF CreateTmp, Goto, Plain
  <2>2. /\ release'.tmp = p /\ release'.name = release.name /\ fd'[p] = p
        /\ text' = [text EXCEPT ![p] = Empty] /\ relinfo'[p] = relinfo[p]
    BY <1>3, <1>11, <2>1 DEF CreateTmp, Plain
  <2>3. release.name # p
    BY <1>6, <2>1 DEF ReleaseOf
  <2>4. text'[release'.name] = text[release.name]
    BY <1>3, <1>7, <2>1, <2>2, <2>3 DEF Plain
  <2>5. ReleaseOf(p)'
    BY <1>6, <1>9, <2>1, <2>2, <2>3 DEF ReleaseOf
  <2>6. \A q \in Procs \ {p} : ReleaseOf(q)'
    BY <1>5, <1>6, <1>8, <2>2 DEF ReleaseOf, Same
  <2> QED
    BY <1>5, <1>6, <1>9, <1>10, <2>1, <2>4, <2>5, <2>6
<1>12. CASE MvRelease(p)
  <2>1. pc[p] = "mv" /\ pc'[p] = "close" /\ fd'[p] = fd[p] /\ relinfo'[p] = relinfo[p]
    BY <1>3, <1>12 DEF MvRelease, Goto, local, Plain
  <2>2. release.tmp = fd[p] /\ fd[p] \in Inodes /\ fd[p] = p /\ Mode(p) = "release"
    BY <1>3, <1>6, <2>1 DEF ReleaseOf, Place, Writing, InRelease
  <2>3. release.tmp # None
    BY <2>2, InodesAssumption DEF Inodes
  <2>4. release'.name = fd[p] /\ release'.tmp = None
    BY <1>12, <2>2, <2>3 DEF MvRelease
  <2>5. ReleaseOf(p)'
    BY <1>6, <1>8, <1>9, <2>1, <2>2, <2>4 DEF ReleaseOf
  <2>6. \A q \in Procs \ {p} : ReleaseOf(q)'
    BY <1>5, <1>6, <1>8, <2>2, <2>4 DEF ReleaseOf, Same
  <2> QED
    BY <2>1, <2>4, <2>5, <2>6
<1>13. CASE CloseTmp(p)
  <2>1. /\ pc[p] = "close" /\ pc'[p] = "ended" /\ code'[p] = 0 /\ fd[p] \in Inodes
        /\ Mode(p) = "release"
    BY <1>3, <1>13 DEF CloseTmp, Exit, Goto, Plain, Place, Writing, InRelease
  <2> DEFINE now == [k \in Fields |-> IF k \in Kept THEN relinfo[p][k] ELSE ""]
  <2>2. release' = release /\ text'[fd[p]] = now
    BY <1>3, <1>13, <2>1 DEF CloseTmp, Plain
  <2>3. fd[p] = release.name /\ relinfo[p] = [k \in Kept |-> Rewritten(k)]
    BY <1>6, <2>1 DEF ReleaseOf
  <2>4. now = RewrittenAll
    <3>1. ASSUME NEW k \in Fields
          PROVE  (IF k \in Kept THEN relinfo[p][k] ELSE "") = Rewritten(k)
      <4>1. CASE k \in Kept
        BY <2>3, <4>1
      <4>2. CASE k \notin Kept
        BY <4>2 DEF Fields, Rewritten
      <4> QED
        BY <4>1, <4>2
    <3> QED
      BY <3>1 DEF RewrittenAll
  <2> HIDE DEF now
  <2>5. ReleaseOf(p)'
    BY <1>8, <2>1 DEF ReleaseOf
  <2>6. \A q \in Procs \ {p} : ReleaseOf(q)'
    BY <1>5, <1>6, <1>8, <2>2 DEF ReleaseOf, Same
  <2>7. Ended'
    <3>1. runs'[p] > 0
      BY <1>3, <2>1 DEF Place
    <3> QED
      BY <1>8, <2>1, <3>1 DEF Ended, Runs
  <2>8. release'.tmp = None /\ text'[release'.name] = RewrittenAll'
    BY <1>6, <1>9, <2>1, <2>2, <2>3, <2>4
  <2> QED
    BY <2>5, <2>6, <2>7, <2>8
<1>14. CASE ReadRelease(p)
  <2> DEFINE value(k) == Cut[text[release.name][k]]
             info == [k \in Kept |-> IF value(k) = "" THEN Default[k] ELSE value(k)]
  <2>1. /\ pc[p] = "read" /\ pc'[p] = "create" /\ release' = release /\ text' = text
        /\ relinfo'[p] = info /\ Mode(p) = "release"
    BY <1>3, <1>14 DEF ReadRelease, Goto, Plain, Place, InRelease
  <2>2. text[release.name] = RewrittenAll \/ text[release.name] = said
    BY <1>6, <2>1
  <2>3. info = [k \in Kept |-> Rewritten(k)]
    <3>1. ASSUME NEW k \in Kept
          PROVE  (IF value(k) = "" THEN Default[k] ELSE value(k)) = Rewritten(k)
      <4>1. text[release.name][k] = said[k] \/ text[release.name][k] = Rewritten(k)
        BY <2>2 DEF RewrittenAll, Fields
      <4>2. said \in Sayings
        BY <1>3 DEF Plain
      <4> QED
        BY <4>1, <4>2, ReadsTheSame
    <3> QED
      BY <3>1
  <2> HIDE DEF info
  <2>4. ReleaseOf(p)'
    BY <1>6, <1>8, <1>9, <2>1, <2>3 DEF ReleaseOf
  <2>5. \A q \in Procs \ {p} : ReleaseOf(q)'
    BY <1>5, <1>6, <1>8, <2>1 DEF ReleaseOf, Same
  <2> QED
    BY <1>5, <1>6, <1>9, <1>10, <2>1, <2>4, <2>5
<1>15. CASE ~Steps4(p)
  <2>1. /\ release' = release /\ text' = text /\ relinfo' = relinfo
        /\ pc[p] \notin InRelease /\ pc'[p] \notin {"create", "mv", "close"}
        /\ Mode(p) = "release" => Start(p) /\ pc'[p] = "read"
    BY <1>2, <1>4, <1>15, OthersKeepRelease
  <2>2. Mode(p) = "release" => pc[p] = "idle" /\ release.name # p
    BY <1>6, <2>1 DEF Start, ReleaseOf
  <2>3. Ended' = Ended
    <3>1. CASE Mode(p) = "release"
      BY <1>10, <2>1, <2>2, <3>1
    <3>2. CASE Mode(p) # "release"
      BY <1>5, <1>8, <3>2 DEF Ended, Runs, Same
    <3> QED
      BY <3>1, <3>2
  <2>4. ReleaseOf(p)'
    BY <1>6, <1>8, <2>1, <2>2 DEF ReleaseOf
  <2>5. \A q \in Procs \ {p} : ReleaseOf(q)'
    BY <1>5, <1>6, <1>8, <2>1 DEF ReleaseOf, Same
  <2> QED
    BY <1>5, <1>6, <1>9, <2>1, <2>3, <2>4, <2>5 DEF InRelease
<1> QED
  BY <1>11, <1>12, <1>13, <1>14, <1>15 DEF Steps4

\* As long as no run of deb-release was killed or failed, Release is not empty
\* when all have ended; and if no two runs overlapped it says what it said at
\* first until one has ended, and then the part of it that deb-release keeps,
\* which further runs do not change.
THEOREM ReleaseIsKept == Spec => []ReleaseKept
<1>1. Init => AloneInv /\ InfoInv /\ EmptyIsOpen /\ ReleaseInv
  <2> SUFFICES ASSUME Init PROVE AloneInv /\ InfoInv /\ EmptyIsOpen /\ ReleaseInv
    OBVIOUS
  <2>1. /\ release.name = Old /\ release.tmp = None /\ said # Empty
        /\ \A n \in Inodes : text[n] = said
        /\ \A p \in Procs : pc[p] = "idle" /\ relinfo[p] = Default
    BY TextsAssumption DEF Init
  <2>2. Old \in Inodes /\ Old \notin Procs
    BY InodesAssumption DEF Inodes
  <2>3. "Architecture" \in Kept /\ Default["Architecture"] = "all"
    BY DEF Kept, Default
  <2>4. ~Ended
    BY <2>1 DEF Ended, Runs
  <2> QED
    BY <2>1, <2>2, <2>3, <2>4 DEF AloneInv, Active, InfoInv, EmptyIsOpen, ReleaseInv, ReleaseOf
<1>2. TypeInv /\ TypeInv' /\ AloneInv /\ InfoInv /\ EmptyIsOpen /\ ReleaseInv /\ [Next]_vars
        => AloneInv' /\ InfoInv' /\ EmptyIsOpen' /\ ReleaseInv'
  BY AloneNext, InfoNext, EmptyNext, ReleaseNext
<1>3. TypeInv /\ EmptyIsOpen /\ ReleaseInv => ReleaseKept
  <2> SUFFICES ASSUME TypeInv, EmptyIsOpen, ReleaseInv, Well PROVE ReleaseKept
    BY DEF ReleaseKept, Well
  <2>1. ASSUME Over PROVE text[release.name] # Empty
    <3>1. release.name \in Inodes /\ \A p \in Procs : pc[p] = "ended"
      BY <2>1 DEF TypeInv, Plain, Over
    <3> QED
      BY <3>1 DEF EmptyIsOpen
  <2>2. ASSUME crowd = {}, \A p \in Procs : pc[p] # "close"
        PROVE  text[release.name] = IF Ended THEN RewrittenAll ELSE said
    BY <2>2 DEF ReleaseInv
  <2> QED
    BY <2>1, <2>2 DEF ReleaseKept, Ended, RewrittenAll
<1> QED
  BY <1>1, <1>2, <1>3, TypeInvariant, PTL DEF Spec

-----------------------------------------------------------------------------
(* Archiving: a file is in one of the directories *)

LEMMA RemoversBefore ==
  ASSUME TypeInv, TypeInv', NEW p \in Procs, Act(p), Runs("remove")' = {}
  PROVE  Runs("remove") = {} /\ Mode(p) # "remove"
<1>1. job' = job
  BY OneRunMoves DEF TypeInv
<1> QED
  BY <1>1, RunsGrow DEF Runs, Mode

LEMMA SameCur ==
  ASSUME job' = job, NEW q \in Procs, arg'[q] = arg[q], at'[q] = at[q]
  PROVE  Cur(q)' = Cur(q)
  BY SameOrder DEF Cur

\* Only these change the directories.
Files4(p) == OpenTarget(p) \/ WriteTarget(p) \/ Unlink(p) \/ Rename(p)

LEMMA OthersKeepDirs ==
  ASSUME NEW p \in Procs, Act(p), Mode(p) # "remove", ~Files4(p)
  PROVE  origin' = origin /\ archive' = archive /\ writer' = writer
  BY DEF Act, Files4, Start, Kill, Step, NoMoreArgs, Abort, Quit, Begin, ReadList, OpenSource,
     Metadata, Fails, Error, Look, Vanished, Remove, ReadRelease, CreateTmp, MvRelease,
     CloseTmp, dirs

\* What the steps on files do to their file and their run.
LEMMA OpenFacts ==
  ASSUME TypeInv, NEW p \in Procs, OpenTarget(p)
  PROVE  /\ pc[p] = "target" /\ pc'[p] = "write" /\ Copies(p)
         /\ Cur(p)' = Cur(p) /\ arg'[p] = arg[p] /\ at'[p] = at[p]
         /\ fd'[p] = IF archive[Cur(p)] = None THEN p ELSE archive[Cur(p)]
         /\ fd'[p] \in Inodes /\ origin' = origin
         /\ archive' = [archive EXCEPT ![Cur(p)] = fd'[p]]
         /\ writer' = [writer EXCEPT ![Cur(p)][fd'[p]] = p]
<1>1. /\ pc[p] = "target" /\ pc'[p] = "write"
      /\ arg'[p] = arg[p] /\ at'[p] = at[p] /\ job' = job /\ origin' = origin
      /\ fd'[p] = IF archive[Cur(p)] = None THEN p ELSE archive[Cur(p)]
      /\ archive' = [archive EXCEPT ![Cur(p)] = fd'[p]]
      /\ writer' = [writer EXCEPT ![Cur(p)][fd'[p]] = p]
  BY DEF OpenTarget, Goto, input, TypeInv, Plain
<1>2. Cur(p) \in Names /\ Copies(p)
  BY <1>1, CurFacts DEF AtFile, TypeInv, Places, Place
<1>3. fd'[p] \in Inodes
  BY <1>1, <1>2 DEF TypeInv, Plain, Inodes
<1> QED
  BY <1>1, <1>2, <1>3, SameCur

WholeNow(p) == writer[Cur(p)][fd[p]] = p /\ writer[Cur(p)][Src] = None

LEMMA WriteFacts ==
  ASSUME TypeInv, NEW p \in Procs, WriteTarget(p)
  PROVE  /\ pc[p] = "write" /\ fd[p] \in Inodes /\ fd'[p] = fd[p]
         /\ origin' = origin /\ archive' = archive
         /\ writer' = [writer EXCEPT ![Cur(p)][fd[p]] = IF WholeNow(p) THEN None ELSE @]
         /\ \/ /\ pc'[p] = "meta"
               /\ Cur(p)' = Cur(p) /\ arg'[p] = arg[p] /\ at'[p] = at[p]
            \/ Advance(p) /\ Mode(p) # "move" /\ pc'[p] \in {"arg", "list", "file"}
<1>1. /\ pc[p] = "write" /\ origin' = origin /\ archive' = archive /\ fd'[p] = fd[p]
      /\ writer' = [writer EXCEPT ![Cur(p)][fd[p]] = IF WholeNow(p) THEN None ELSE @]
      /\ job' = job
  BY DEF WriteTarget, input, WholeNow
<1>2. fd[p] \in Inodes
  BY <1>1 DEF TypeInv, Places, Place, Writing
<1>3. CASE Mode(p) # "move" /\ Advance(p)
  BY <1>1, <1>2, <1>3, AdvanceFacts DEF AtFile
<1>4. CASE Goto(p, "meta") /\ UNCHANGED <<arg, at>>
  BY <1>1, <1>2, <1>4, SameCur DEF Goto, TypeInv, Plain
<1> QED
  BY <1>3, <1>4 DEF WriteTarget

LEMMA MetaFacts ==
  ASSUME TypeInv, NEW p \in Procs, Metadata(p)
  PROVE  /\ pc[p] = "meta" /\ Cur(p) \in origin
         /\ origin' = origin /\ archive' = archive /\ writer' = writer
         /\ \/ /\ pc'[p] = "unlink" /\ Mode(p) = "move"
               /\ Cur(p)' = Cur(p) /\ arg'[p] = arg[p] /\ at'[p] = at[p]
            \/ Advance(p) /\ Mode(p) # "move" /\ pc'[p] \in {"arg", "list", "file"}
<1>1. /\ pc[p] = "meta" /\ Cur(p) \in origin /\ job' = job
      /\ origin' = origin /\ archive' = archive /\ writer' = writer
  BY DEF Metadata, input, dirs
<1>2. CASE Mode(p) # "move" /\ Advance(p)
  BY <1>1, <1>2, AdvanceFacts DEF AtFile
<1>3. CASE Mode(p) = "move" /\ Goto(p, "unlink") /\ UNCHANGED <<arg, at>>
  BY <1>1, <1>3, SameCur DEF Goto, TypeInv, Plain
<1> QED
  BY <1>2, <1>3 DEF Metadata

LEMMA UnlinkFacts ==
  ASSUME TypeInv, NEW p \in Procs, Unlink(p)
  PROVE  /\ pc[p] = "unlink" /\ Mode(p) = "move"
         /\ origin' = origin \ {Cur(p)} /\ archive' = archive /\ writer' = writer
         /\ \/ Advance(p) /\ pc'[p] \in {"arg", "list", "file"}
            \/ pc'[p] = "ended" /\ code'[p] = 1
<1>1. /\ pc[p] = "unlink" /\ job' = job
      /\ origin' = origin \ {Cur(p)} /\ archive' = archive /\ writer' = writer
  BY DEF Unlink, input
<1>2. Mode(p) = "move"
  BY <1>1 DEF TypeInv, Places, Place
<1>3. CASE Advance(p)
  BY <1>1, <1>2, <1>3, AdvanceFacts DEF AtFile
<1>4. CASE Exit(p, 1)
  BY <1>1, <1>2, <1>4 DEF Exit, Goto, TypeInv, Plain
<1> QED
  BY <1>3, <1>4 DEF Unlink, Error

LEMMA RenameFacts ==
  ASSUME TypeInv, NEW p \in Procs, Rename(p)
  PROVE  /\ pc[p] = "open" /\ Mode(p) = "move" /\ rename /\ Cur(p) \in origin
         /\ origin' = origin \ {Cur(p)}
         /\ archive' = [archive EXCEPT ![Cur(p)] = Src] /\ writer' = writer
         /\ Advance(p) /\ pc'[p] \in {"arg", "list", "file"}
  BY AdvanceFacts DEF Rename, AtFile, input

\* Who has opened the source, or is about to write, to set the owner or to take
\* the original away, has just done the step before.
AtCopy == {"target", "write", "meta", "unlink"}

LEMMA NewWrite ==
  ASSUME TypeInv, NEW p \in Procs, Act(p), pc'[p] \in AtCopy
  PROVE  OpenSource(p) \/ OpenTarget(p) \/ WriteTarget(p) \/ Metadata(p)
<1> USE DEF TypeInv, Plain, Goto, Exit, Error, Advance, AtCopy
<1>1. CASE Start(p) \/ Kill(p) \/ NoMoreArgs(p) \/ Abort(p) \/ Quit(p) \/ Begin(p) \/ ReadList(p)
  BY <1>1 DEF Start, Kill, NoMoreArgs, Abort, Quit, Begin, ReadList
<1>2. CASE Look(p) \/ Vanished(p) \/ Unlink(p)
  BY <1>2 DEF Look, Vanished, Unlink
<1>3. CASE Rename(p) \/ Remove(p)
  BY <1>3 DEF Rename, Remove
<1>4. CASE ReadRelease(p) \/ CreateTmp(p) \/ MvRelease(p) \/ CloseTmp(p)
  BY <1>4 DEF ReadRelease, CreateTmp, MvRelease, CloseTmp
<1>5. CASE Fails(p)
  BY <1>5 DEF Fails
<1> QED
  BY <1>1, <1>2, <1>3, <1>4, <1>5 DEF Act, Step

LEMMA ArchiveGrows ==
  ASSUME TypeInv, NEW p \in Procs, Act(p), Mode(p) # "remove"
  PROVE  \A f \in Names : archive[f] # None => archive'[f] # None
<1>1. archive \in [Names -> Inodes \cup {None}] /\ Src \in Inodes /\ None \notin Inodes
  BY InodesAssumption DEF TypeInv, Plain, Inodes
<1>2. CASE OpenTarget(p)
  BY <1>1, <1>2, OpenFacts
<1>3. CASE Rename(p)
  BY <1>1, <1>3, RenameFacts
<1>4. CASE WriteTarget(p) \/ Unlink(p)
  BY <1>4, WriteFacts, UnlinkFacts
<1> QED
  BY <1>2, <1>3, <1>4, OthersKeepDirs DEF Files4

\* Where nobody removes, what has left the origin is in the archive.
KeptInv ==
    Runs("remove") = {} =>
      /\ \A f \in given \ origin : archive[f] # None
      /\ \A p \in Procs : pc[p] \in {"write", "meta", "unlink"} => archive[Cur(p)] # None

LEMMA KeptNext ==
  ASSUME TypeInv, TypeInv', KeptInv, [Next]_vars
  PROVE  KeptInv'
<1>1. CASE UNCHANGED vars
  BY <1>1 DEF vars, input, dirs, local, hist, KeptInv, Runs, Mode, Cur, Order, Control
<1>2. SUFFICES ASSUME NEW p \in Procs, Act(p), Runs("remove")' = {}
               PROVE  /\ \A f \in given' \ origin' : archive'[f] # None
                      /\ \A q \in Procs : pc'[q] \in {"write", "meta", "unlink"} => archive'[Cur(q)'] # None
  BY <1>1 DEF Next, Finished, KeptInv, Act
<1>3. /\ Mode(p) # "remove"
      /\ \A f \in given \ origin : archive[f] # None
      /\ \A q \in Procs : pc[q] \in {"write", "meta", "unlink"} => archive[Cur(q)] # None
  BY <1>2, RemoversBefore DEF KeptInv
<1>4. job' = job /\ given' = given /\ \A q \in Procs \ {p} : Same(q)
  BY <1>2, OneRunMoves DEF TypeInv
<1>5. archive \in [Names -> Inodes \cup {None}] /\ origin \subseteq given /\ given \subseteq Names
  BY DEF TypeInv, Plain
<1>6. p \in Inodes /\ Src \in Inodes /\ None \notin Inodes
  BY InodesAssumption DEF Inodes
<1>7. \A q \in Procs : pc[q] \in AtFile => Cur(q) \in Names
  BY CurFacts
<1>8. \A f \in Names : archive[f] # None => archive'[f] # None
  BY <1>2, <1>3, ArchiveGrows
<1>9. \A f \in given \ origin' : archive'[f] # None
  <2>1. CASE Unlink(p)
    BY <2>1, <1>3, <1>5, <1>8, UnlinkFacts
  <2>2. CASE Rename(p)
    BY <2>2, <1>3, <1>5, <1>6, <1>8, RenameFacts
  <2>3. CASE ~Unlink(p) /\ ~Rename(p)
    <3>1. origin' = origin
      BY <1>2, <1>3, <2>3, OpenFacts, WriteFacts, OthersKeepDirs DEF Files4
    <3> QED
      BY <1>3, <1>5, <1>8, <3>1
  <2> QED
    BY <2>1, <2>2, <2>3
<1>10. ASSUME NEW q \in Procs \ {p}, pc'[q] \in {"write", "meta", "unlink"}
       PROVE  archive'[Cur(q)'] # None
  <2>1. Cur(q)' = Cur(q) /\ pc[q] \in {"write", "meta", "unlink"}
    BY <1>4, <1>10, SameCur DEF Same
  <2> QED
    BY <1>3, <1>7, <1>8, <2>1 DEF AtFile
<1>11. ASSUME pc'[p] \in {"write", "meta", "unlink"}
       PROVE  archive'[Cur(p)'] # None
  <2>1. CASE OpenTarget(p)
    BY <2>1, <1>5, <1>6, <1>7, OpenFacts DEF AtFile
  <2>2. CASE WriteTarget(p)
    BY <2>2, <1>3, <1>7, <1>8, <1>11, WriteFacts DEF AtFile
  <2>3. CASE Metadata(p)
    BY <2>3, <1>3, <1>7, <1>8, <1>11, MetaFacts DEF AtFile
  <2>4. ~OpenSource(p)
    BY <1>11 DEF OpenSource, Goto, TypeInv, Plain
  <2> QED
    BY <1>2, <1>11, <2>1, <2>2, <2>3, <2>4, NewWrite DEF AtCopy
<1> QED
  BY <1>4, <1>9, <1>10, <1>11

\* The archive has a file of the origin itself only after a rename, and then the
\* origin has it no longer.
SrcInv ==
    \A f \in Names : archive[f] = Src => rename /\ Runs("move") # {} /\ f \notin origin

LEMMA SrcNext == ASSUME TypeInv, TypeInv', SrcInv, [Next]_vars PROVE SrcInv'
<1>1. CASE UNCHANGED vars
  BY <1>1 DEF vars, input, dirs, hist, SrcInv, Runs, Mode
<1>2. SUFFICES ASSUME NEW p \in Procs, Act(p), NEW f \in Names, archive'[f] = Src
               PROVE  rename' /\ Runs("move")' # {} /\ f \notin origin'
  BY <1>1 DEF Next, Finished, SrcInv, Act
<1>3. /\ job' = job /\ rename' = rename /\ runs'[p] > 0
      /\ Runs("move") # {} => Runs("move")' # {}
  BY <1>2, OneRunMoves, RunsGrow DEF TypeInv, Runs, Mode
<1>4. archive \in [Names -> Inodes \cup {None}] /\ p # Src /\ None # Src
  BY InodesAssumption DEF TypeInv, Plain
<1>5. CASE Rename(p)
  <2>1. /\ Mode(p) = "move" /\ rename /\ origin' = origin \ {Cur(p)}
        /\ archive' = [archive EXCEPT ![Cur(p)] = Src]
    BY <1>5, RenameFacts
  <2>2. Runs("move")' # {}
    BY <1>3, <2>1 DEF Runs, Mode
  <2>3. CASE f = Cur(p)
    BY <1>3, <2>1, <2>2, <2>3
  <2>4. CASE f # Cur(p)
    BY <1>2, <1>3, <1>4, <2>1, <2>2, <2>4 DEF SrcInv
  <2> QED
    BY <2>3, <2>4
<1>6. CASE ~Rename(p)
  <2>1. archive[f] = Src /\ origin' \subseteq origin
    <3>1. CASE OpenTarget(p)
      BY <1>2, <1>4, <3>1, OpenFacts
    <3>2. CASE WriteTarget(p) \/ Unlink(p)
      BY <1>2, <3>2, WriteFacts, UnlinkFacts
    <3>3. CASE Remove(p)
      BY <1>2, <1>4, <3>3 DEF Remove
    <3> QED
      BY <1>2, <1>6, <3>1, <3>2, <3>3 DEF Act, Start, Kill, Step, NoMoreArgs, Abort, Quit, Begin,
         ReadList, OpenSource, Metadata, Fails, Look, Vanished, ReadRelease, CreateTmp,
         MvRelease, CloseTmp, dirs
  <2> QED
    BY <1>3, <2>1 DEF SrcInv
<1> QED
  BY <1>5, <1>6

LEMMA OrderlyBefore ==
  ASSUME TypeInv, TypeInv', NEW p \in Procs, Act(p), Orderly'
  PROVE  Orderly /\ ~Kill(p) /\ ~Fails(p)
<1>1. job' = job /\ rename' = rename
  BY OneRunMoves DEF TypeInv
<1>2. killed \subseteq killed' /\ failed \subseteq failed'
  BY DEF Act, Start, Step, Kill, NoMoreArgs, Abort, Quit, Begin, ReadList, OpenSource, Metadata,
     Fails, Look, Vanished, OpenTarget, WriteTarget, Unlink, Rename, Remove, ReadRelease,
     CreateTmp, MvRelease, CloseTmp, hist
<1>3. \A m \in Modes : Runs(m) \subseteq Runs(m)'
  BY <1>1, RunsGrow DEF Runs, Mode
<1>4. (Kill(p) => killed' # {}) /\ (Fails(p) => failed' # {})
  BY DEF Kill, Fails
<1>5. Mixed => Mixed'
  BY <1>1, <1>3 DEF Mixed, Modes
<1> QED
  BY <1>2, <1>4, <1>5 DEF Orderly

\* Without a kill, a failure and copies beside renames, who has truncated a file
\* last is about to write it, and it is none of the origin.
WriterInv ==
    Orderly =>
      /\ \A f \in Names, n \in Inodes, q \in Procs :
           writer[f][n] = q => pc[q] = "write" /\ Cur(q) = f /\ fd[q] = n
      /\ \A f \in Names : writer[f][Src] = None

LEMMA WriterNext ==
  ASSUME TypeInv, TypeInv', SrcInv, WriterInv, [Next]_vars
  PROVE  WriterInv'
<1>1. CASE UNCHANGED vars
  <2>1. \A q \in Procs : Cur(q)' = Cur(q)
    BY <1>1, SameCur DEF vars, input, local
  <2>2. writer' = writer /\ pc' = pc /\ fd' = fd
    BY <1>1 DEF vars, dirs, local, hist
  <2>3. Orderly' <=> Orderly
    BY <1>1 DEF vars, input, hist, Orderly, Mixed, Runs, Mode
  <2> QED
    BY <2>1, <2>2, <2>3 DEF WriterInv
<1>2. SUFFICES ASSUME NEW p \in Procs, Act(p), Orderly'
               PROVE  /\ \A f \in Names, n \in Inodes, q \in Procs :
                           writer'[f][n] = q => pc'[q] = "write" /\ Cur(q)' = f /\ fd'[q] = n
                      /\ \A f \in Names : writer'[f][Src] = None
  BY <1>1 DEF Next, Finished, WriterInv, Act
<1>3. Orderly /\ ~Kill(p) /\ ~Fails(p)
  BY <1>2, OrderlyBefore
<1>4. /\ \A f \in Names, n \in Inodes, q \in Procs :
           writer[f][n] = q => pc[q] = "write" /\ Cur(q) = f /\ fd[q] = n
      /\ \A f \in Names : writer[f][Src] = None
  BY <1>3 DEF WriterInv
<1>5. job' = job /\ \A r \in Procs \ {p} : Same(r)
  BY <1>2, OneRunMoves DEF TypeInv
<1>6. \A q \in Procs : q # p => pc'[q] = pc[q] /\ Cur(q)' = Cur(q) /\ fd'[q] = fd[q]
  BY <1>5, SameCur DEF Same
<1>7. /\ writer \in [Names -> [Inodes -> Procs \cup {None}]] /\ None \notin Procs
      /\ p \in Inodes /\ Src \in Inodes /\ p # Src /\ (pc[p] \in AtFile => Cur(p) \in Names)
  BY InodesAssumption, CurFacts DEF TypeInv, Plain, Inodes
<1>8. CASE OpenTarget(p)
  <2>1. /\ pc[p] = "target" /\ pc'[p] = "write" /\ Copies(p) /\ Cur(p)' = Cur(p)
        /\ fd'[p] = IF archive[Cur(p)] = None THEN p ELSE archive[Cur(p)]
        /\ fd'[p] \in Inodes /\ writer' = [writer EXCEPT ![Cur(p)][fd'[p]] = p]
        /\ Cur(p) \in Names
    BY <1>7, <1>8, OpenFacts DEF AtFile
  <2>2. fd'[p] # Src
    <3>1. SUFFICES ASSUME archive[Cur(p)] = Src PROVE FALSE
      BY <1>7, <2>1
    <3>2. rename /\ Runs("move") # {}
      BY <2>1, <3>1 DEF SrcInv
    <3>3. Mode(p) = "copy" /\ runs[p] > 0
      BY <2>1, <3>2 DEF Copies, TypeInv, Places, Place
    <3> QED
      BY <1>3, <3>2, <3>3 DEF Orderly, Mixed, Runs
  <2>3. \A f \in Names : writer'[f][Src] = None
    BY <1>4, <1>7, <2>1, <2>2
  <2>4. ASSUME NEW f \in Names, NEW n \in Inodes, NEW q \in Procs, writer'[f][n] = q
        PROVE  pc'[q] = "write" /\ Cur(q)' = f /\ fd'[q] = n
    <3>1. CASE f = Cur(p) /\ n = fd'[p]
      <4>1. q = p
        BY <1>7, <2>1, <2>4, <3>1
      <4> QED
        BY <2>1, <3>1, <4>1
    <3>2. CASE ~(f = Cur(p) /\ n = fd'[p])
      <4>1. writer[f][n] = q
        BY <1>7, <2>1, <2>4, <3>2
      <4>2. q # p
        BY <1>4, <2>1, <4>1
      <4> QED
        BY <1>4, <1>6, <4>1, <4>2
    <3> QED
      BY <3>1, <3>2
  <2> QED
    BY <2>3, <2>4
<1>9. CASE WriteTarget(p)
  <2>1. /\ pc[p] = "write" /\ fd[p] \in Inodes /\ Cur(p) \in Names
        /\ writer' = [writer EXCEPT ![Cur(p)][fd[p]] = IF WholeNow(p) THEN None ELSE @]
    BY <1>7, <1>9, WriteFacts DEF AtFile
  <2>2. WholeNow(p) <=> writer[Cur(p)][fd[p]] = p
    BY <1>4, <2>1 DEF WholeNow
  <2>3. ASSUME NEW f \in Names, NEW n \in Inodes
        PROVE  writer'[f][n] = IF f = Cur(p) /\ n = fd[p] /\ writer[f][n] = p THEN None
                                                                          ELSE writer[f][n]
    BY <1>7, <2>1, <2>2
  <2>4. ASSUME NEW f \in Names, NEW n \in Inodes, NEW q \in Procs, writer'[f][n] = q
        PROVE  pc'[q] = "write" /\ Cur(q)' = f /\ fd'[q] = n
    <3>1. writer[f][n] = q /\ q # p
      BY <1>4, <1>7, <2>3, <2>4
    <3> QED
      BY <1>4, <1>6, <3>1
  <2>5. \A f \in Names : writer'[f][Src] = None
    BY <1>4, <1>7, <2>3
  <2> QED
    BY <2>4, <2>5
<1>10. CASE ~OpenTarget(p) /\ ~WriteTarget(p)
  <2>1. writer' = writer
    BY <1>2, <1>3, <1>10 DEF Act, Start, Step, NoMoreArgs, Abort, Quit, Begin, ReadList,
       OpenSource, Metadata, Look, Vanished, Unlink, Rename, Remove, ReadRelease, CreateTmp,
       MvRelease, CloseTmp, dirs
  <2>2. pc[p] # "write"
    BY <1>2, <1>3, <1>10 DEF Act, Start, Step, NoMoreArgs, Abort, Quit, Begin, ReadList,
       OpenSource, Metadata, Look, Vanished, Unlink, Rename, Remove, ReadRelease, CreateTmp,
       MvRelease, CloseTmp
  <2>3. ASSUME NEW f \in Names, NEW n \in Inodes, NEW q \in Procs, writer'[f][n] = q
        PROVE  pc'[q] = "write" /\ Cur(q)' = f /\ fd'[q] = n
    <3>1. pc[q] = "write" /\ Cur(q) = f /\ fd[q] = n
      BY <1>4, <2>1, <2>3
    <3> QED
      BY <1>6, <2>2, <3>1
  <2> QED
    BY <1>4, <2>1, <2>3
<1> QED
  BY <1>8, <1>9, <1>10

\* Where nobody removes and no two runs overlap, what has left the origin is
\* whole in the archive, also after a kill or a failure; a run that copies has
\* its original still there.
SerialOf(p) ==
    /\ pc[p] \in AtCopy => Cur(p) \in origin
    /\ pc[p] = "write" => archive[Cur(p)] = fd[p] /\ writer[Cur(p)][fd[p]] = p
    /\ pc[p] \in {"meta", "unlink"} => Whole(Cur(p))

SerialInv ==
    crowd = {} /\ Runs("remove") = {} =>
      /\ \A f \in given \ origin : Whole(f)
      /\ \A f \in Names : writer[f][Src] = None
      /\ \A p \in Procs : SerialOf(p)

LEMMA SerialNext ==
  ASSUME TypeInv, TypeInv', AloneInv, SrcInv, SerialInv, [Next]_vars
  PROVE  SerialInv'
<1>1. CASE UNCHANGED vars
  <2>1. \A q \in Procs : Cur(q)' = Cur(q)
    BY <1>1, SameCur DEF vars, input, local
  <2>2. /\ crowd' = crowd /\ writer' = writer /\ pc' = pc /\ fd' = fd /\ given' = given
        /\ archive' = archive /\ origin' = origin /\ runs' = runs /\ job' = job
    BY <1>1 DEF vars, dirs, local, hist, input
  <2>3. Runs("remove")' = Runs("remove")
    BY <2>2 DEF Runs, Mode
  <2>4. (\A f \in given : Whole(f)' = Whole(f)) /\ (\A q \in Procs : SerialOf(q)' = SerialOf(q))
    BY <2>1, <2>2 DEF Whole, SerialOf
  <2> QED
    BY <2>2, <2>3, <2>4 DEF SerialInv
<1>2. SUFFICES ASSUME NEW p \in Procs, Act(p), crowd' = {}, Runs("remove")' = {}
               PROVE  /\ \A f \in given' \ origin' : Whole(f)'
                      /\ \A f \in Names : writer'[f][Src] = None
                      /\ \A q \in Procs : SerialOf(q)'
  BY <1>1 DEF Next, Finished, SerialInv, Act
<1>3. /\ Mode(p) # "remove"
      /\ \A f \in given \ origin : Whole(f)
      /\ \A f \in Names : writer[f][Src] = None
      /\ SerialOf(p)
  BY <1>2, RemoversBefore, OthersRest DEF SerialInv
<1>4. given' = given /\ \A q \in Procs \ {p} : SerialOf(q)'
  <2>1. given' = given /\ \A q \in Procs \ {p} : pc'[q] \in {"idle", "ended"}
    BY <1>2, OneRunMoves, OthersRest DEF TypeInv, Active, Same
  <2> QED
    BY <2>1 DEF SerialOf, AtCopy
<1>5. /\ archive \in [Names -> Inodes \cup {None}] /\ origin \subseteq given /\ given \subseteq Names
      /\ writer \in [Names -> [Inodes -> Procs \cup {None}]]
      /\ p \in Inodes /\ Src \in Inodes /\ p # Src /\ None \notin Inodes /\ None \notin Procs
  BY InodesAssumption DEF TypeInv, Plain, Inodes
<1>6. pc[p] \in AtFile => Cur(p) \in Names
  BY CurFacts
<1>7. CASE OpenTarget(p)
  <2>1. /\ pc'[p] = "write" /\ Cur(p)' = Cur(p) /\ Cur(p) \in Names /\ pc[p] = "target"
        /\ origin' = origin /\ fd'[p] \in Inodes
        /\ fd'[p] = IF archive[Cur(p)] = None THEN p ELSE archive[Cur(p)]
        /\ archive' = [archive EXCEPT ![Cur(p)] = fd'[p]]
        /\ writer' = [writer EXCEPT ![Cur(p)][fd'[p]] = p]
    BY <1>6, <1>7, OpenFacts DEF AtFile
  <2>2. Cur(p) \in origin
    BY <1>3, <2>1 DEF SerialOf, AtCopy
  <2>3. fd'[p] # Src
    BY <1>5, <2>1, <2>2 DEF SrcInv
  <2>4. SerialOf(p)'
    BY <1>5, <2>1, <2>2 DEF SerialOf
  <2>5. \A f \in given \ origin' : Whole(f)'
    BY <1>3, <1>5, <2>1, <2>2 DEF Whole
  <2>6. \A f \in Names : writer'[f][Src] = None
    BY <1>3, <1>5, <2>1, <2>3
  <2> QED
    BY <1>4, <2>4, <2>5, <2>6
<1>8. CASE WriteTarget(p)
  <2>1. /\ pc[p] = "write" /\ fd[p] \in Inodes /\ Cur(p) \in Names
        /\ origin' = origin /\ archive' = archive
        /\ writer' = [writer EXCEPT ![Cur(p)][fd[p]] = IF WholeNow(p) THEN None ELSE @]
        /\ (pc'[p] = "meta" /\ Cur(p)' = Cur(p)) \/ pc'[p] \in {"arg", "list", "file"}
    BY <1>6, <1>8, WriteFacts DEF AtFile
  <2>2. archive[Cur(p)] = fd[p] /\ WholeNow(p) /\ Cur(p) \in origin
    BY <1>3, <1>5, <2>1 DEF SerialOf, WholeNow, AtCopy
  <2>3. writer'[Cur(p)][fd[p]] = None
    BY <1>5, <2>1, <2>2
  <2>4. SerialOf(p)'
    BY <1>5, <2>1, <2>2, <2>3 DEF SerialOf, Whole, AtCopy
  <2>5. \A f \in given \ origin' : Whole(f)'
    BY <1>3, <1>5, <2>1, <2>2 DEF Whole
  <2>6. \A f \in Names : writer'[f][Src] = None
    BY <1>3, <1>5, <2>1, <2>2
  <2> QED
    BY <1>4, <2>4, <2>5, <2>6
<1>9. CASE Unlink(p)
  <2>1. /\ origin' = origin \ {Cur(p)} /\ archive' = archive /\ writer' = writer
        /\ pc'[p] \notin AtCopy /\ pc[p] = "unlink"
    BY <1>9, UnlinkFacts DEF AtCopy
  <2>2. \A f \in given \ origin' : Whole(f)'
    BY <1>3, <2>1 DEF Whole, SerialOf
  <2>3. SerialOf(p)'
    BY <2>1 DEF SerialOf, AtCopy
  <2> QED
    BY <1>3, <1>4, <2>1, <2>2, <2>3
<1>10. CASE Rename(p)
  <2>1. /\ origin' = origin \ {Cur(p)} /\ Cur(p) \in Names
        /\ archive' = [archive EXCEPT ![Cur(p)] = Src] /\ writer' = writer
        /\ pc'[p] \notin AtCopy
    BY <1>6, <1>10, RenameFacts DEF AtFile, AtCopy
  <2>2. ASSUME NEW f \in given \ origin' PROVE Whole(f)'
    <3>1. CASE f = Cur(p)
      BY <1>3, <1>5, <2>1, <3>1 DEF Whole
    <3>2. CASE f # Cur(p)
      BY <1>3, <1>5, <2>1, <2>2, <3>2 DEF Whole
    <3> QED
      BY <3>1, <3>2
  <2>3. SerialOf(p)'
    BY <2>1 DEF SerialOf, AtCopy
  <2> QED
    BY <1>3, <1>4, <2>1, <2>2, <2>3
<1>11. CASE ~Files4(p)
  <2>1. origin' = origin /\ archive' = archive /\ writer' = writer
    BY <1>2, <1>3, <1>11, OthersKeepDirs
  <2>2. SerialOf(p)'
    <3>1. CASE pc'[p] \notin AtCopy
      BY <3>1 DEF SerialOf, AtCopy
    <3>2. CASE OpenSource(p)
      <4>1. /\ pc'[p] = "target" /\ Cur(p) \in origin /\ job' = job
            /\ arg'[p] = arg[p] /\ at'[p] = at[p]
        BY <3>2 DEF OpenSource, Goto, input, local, TypeInv, Plain
      <4> QED
        BY <2>1, <4>1, SameCur DEF SerialOf
    <3>3. CASE Metadata(p)
      <4>1. \/ pc'[p] = "unlink" /\ Cur(p)' = Cur(p) /\ Cur(p) \in origin /\ pc[p] = "meta"
            \/ pc'[p] \in {"arg", "list", "file"}
        BY <3>3, MetaFacts
      <4> QED
        BY <1>3, <2>1, <4>1 DEF SerialOf, Whole, AtCopy
    <3> QED
      BY <1>2, <1>11, <3>1, <3>2, <3>3, NewWrite DEF Files4
  <2> QED
    BY <1>3, <1>4, <2>1, <2>2 DEF Whole
<1> QED
  BY <1>7, <1>8, <1>9, <1>10, <1>11 DEF Files4

LEMMA ArchiveInvariants == Spec => [](AloneInv /\ KeptInv /\ SrcInv /\ WriterInv /\ SerialInv)
<1>1. Init => AloneInv /\ KeptInv /\ SrcInv /\ WriterInv /\ SerialInv
  <2> SUFFICES ASSUME Init PROVE AloneInv /\ KeptInv /\ SrcInv /\ WriterInv /\ SerialInv
    OBVIOUS
  <2>1. /\ \A p \in Procs : pc[p] = "idle"
        /\ given = origin
        /\ \A f \in Names, n \in Inodes : writer[f][n] = None
        /\ \A f \in Names : archive[f] \in {Old, None}
    BY DEF Init
  <2>2. Src \in Inodes /\ Src \notin {Old, None} /\ None \notin Procs
    BY InodesAssumption DEF Inodes
  <2>3. AloneInv /\ KeptInv
    BY <2>1 DEF AloneInv, Active, KeptInv
  <2>4. SrcInv /\ WriterInv
    BY <2>1, <2>2 DEF SrcInv, WriterInv
  <2>5. SerialInv
    BY <2>1, <2>2 DEF SerialInv, SerialOf, AtCopy
  <2> QED
    BY <2>3, <2>4, <2>5
<1>2. /\ TypeInv /\ TypeInv' /\ AloneInv /\ KeptInv /\ SrcInv /\ WriterInv /\ SerialInv /\ [Next]_vars
      => AloneInv' /\ KeptInv' /\ SrcInv' /\ WriterInv' /\ SerialInv'
  BY AloneNext, KeptNext, SrcNext, WriterNext, SerialNext
<1> QED
  BY <1>1, <1>2, TypeInvariant, PTL DEF Spec

\* deb-archive loses no file: where nobody removes, every file that was in the
\* origin is there or whole in the archive, at any time and after any kill or
\* failure if no two runs overlapped; and when all have ended if they did, none
\* was killed or failed, and none copied beside one that renames.
THEOREM NothingIsLost == Spec => []NothingLost
<1>1. TypeInv /\ KeptInv /\ WriterInv /\ SerialInv => NothingLost
  <2> SUFFICES ASSUME TypeInv, KeptInv, WriterInv, SerialInv, Runs("remove") = {},
                      crowd = {} \/ (Over /\ Orderly), NEW f \in given, f \notin origin
               PROVE  Whole(f)
    BY DEF NothingLost
  <2>1. CASE crowd = {}
    BY <2>1 DEF SerialInv
  <2>2. CASE Over /\ Orderly
    <3>1. f \in Names /\ archive[f] \in Inodes
      BY DEF KeptInv, TypeInv, Plain
    <3>2. writer[f][archive[f]] \in Procs \cup {None}
      BY <3>1 DEF TypeInv, Plain
    <3>3. writer[f][archive[f]] \notin Procs
      BY <2>2, <3>1 DEF WriterInv, Over
    <3> QED
      BY <3>2, <3>3 DEF Whole, KeptInv
  <2> QED
    BY <2>1, <2>2
<1> QED
  BY <1>1, TypeInvariant, ArchiveInvariants, PTL

-----------------------------------------------------------------------------
(* Archiving: the files behind a run *)

\* A file is behind a run: of an earlier argument, or earlier in its list.
Passed(p, f) ==
    \/ \E k \in 1..(arg[p] - 1) : f \in Files(job[p].args[k])
    \/ \E k \in 1..(at[p] - 1) : f = Order(p)[k]

LEMMA AdvancePasses ==
  ASSUME TypeInv, NEW p \in Procs, pc[p] \in AtFile, Advance(p), job' = job,
         NEW f, Passed(p, f)'
  PROVE  Passed(p, f) \/ f = Cur(p)
<1>1. /\ at[p] \in 1..Len(Order(p)) /\ Len(Order(p)) \in Nat /\ arg[p] \in Nat \ {0}
      /\ \A g \in Files(Control(p)) : \E k \in 1..Len(Order(p)) : Order(p)[k] = g
  BY CurFacts, OrderFacts DEF TypeInv, Plain
<1>2. CASE at[p] = Len(Order(p)) /\ arg'[p] = arg[p] + 1 /\ at'[p] = 1
  <2>1. PICK k \in 1..arg[p] : f \in Files(job[p].args[k])
    BY <1>1, <1>2 DEF Passed
  <2>2. CASE k = arg[p]
    <3>1. PICK j \in 1..Len(Order(p)) : Order(p)[j] = f
      BY <1>1, <2>1, <2>2 DEF Control
    <3> QED
      BY <1>1, <1>2, <3>1 DEF Passed, Cur
  <2>3. CASE k # arg[p]
    <3>1. k \in 1..(arg[p] - 1)
      BY <1>1, <2>3
    <3> QED
      BY <2>1, <3>1 DEF Passed
  <2> QED
    BY <2>2, <2>3
<1>3. CASE arg'[p] = arg[p] /\ at'[p] = at[p] + 1 /\ Order(p)' = Order(p)
  <2>1. \/ \E k \in 1..(arg[p] - 1) : f \in Files(job[p].args[k])
        \/ \E k \in 1..at[p] : f = Order(p)[k]
    BY <1>1, <1>3 DEF Passed
  <2>2. ASSUME NEW k \in 1..at[p], f = Order(p)[k] PROVE Passed(p, f) \/ f = Cur(p)
    BY <1>1, <2>2 DEF Passed, Cur
  <2> QED
    BY <2>1, <2>2 DEF Passed
<1> QED
  BY <1>2, <1>3, AdvanceFacts

LEMMA SamePassed ==
  ASSUME job' = job, NEW q \in Procs, arg'[q] = arg[q], at'[q] = at[q], NEW f
  PROVE  Passed(q, f)' <=> Passed(q, f)
  BY SameOrder DEF Passed

\* What a step does to the place of its run: back to the first argument, an end
\* with an error, no change, or on to the next file.
Stays(p) ==
    /\ p \in Active /\ arg'[p] = arg[p] /\ at'[p] = at[p]
    /\ pc[p] = "write" => WriteTarget(p)
    /\ pc'[p] = "ended" => Mode(p) = "release" \/ (pc[p] = "arg" /\ arg[p] > Len(job[p].args))

Skips(p) ==
    /\ \/ pc[p] \in {"file", "open"} /\ Cur(p) \notin origin
       \/ pc[p] = "meta" /\ (Cur(p) \notin origin \/ archive[Cur(p)] = None)
    /\ origin' = origin /\ archive' = archive /\ writer' = writer

GoesOn(p) ==
    /\ pc[p] \in AtFile /\ Advance(p) /\ pc'[p] \in {"arg", "list", "file"}
    /\ Skips(p) \/ WriteTarget(p) \/ Metadata(p) \/ Unlink(p) \/ Rename(p)

LEMMA StepKinds ==
  ASSUME TypeInv, NEW p \in Procs, Act(p), Mode(p) # "remove", Ignoring' = {}
  PROVE  \/ Start(p) /\ pc'[p] \in {"arg", "read"} /\ arg'[p] = 1 /\ at'[p] = 1
         \/ pc'[p] = "ended" /\ code'[p] # 0
         \/ Stays(p)
         \/ GoesOn(p)
<1>0. Plain /\ job' = job /\ Place(p)
  BY OneRunMoves DEF TypeInv, Places
<1>1. CASE Start(p)
  BY <1>0, <1>1 DEF Start, Goto, Plain
<1>2. CASE Kill(p) \/ Abort(p)
  BY <1>0, <1>2 DEF Kill, Abort, Exit, Goto, Plain
<1>3. CASE NoMoreArgs(p) \/ Begin(p)
  BY <1>0, <1>3 DEF NoMoreArgs, Begin, Exit, Goto, Plain, local, Stays, Active
<1>4. CASE Quit(p) \/ Remove(p)
  BY <1>4 DEF Quit, Remove
<1>5. CASE ReadList(p) \/ OpenSource(p)
  BY <1>0, <1>5 DEF ReadList, OpenSource, Exit, Goto, Plain, local, Stays, Active
<1>6. CASE Look(p)
  <2>1. CASE Advance(p) /\ Cur(p) \notin origin
    BY <1>0, <1>6, <2>1, AdvanceFacts DEF Look, GoesOn, Skips, AtFile, dirs
  <2>2. CASE Goto(p, "open") /\ UNCHANGED <<arg, at>>
    BY <1>0, <1>6, <2>2 DEF Look, Goto, Stays, Active, Plain
  <2> QED
    BY <1>6, <2>1, <2>2 DEF Look, There
<1>7. CASE Vanished(p)
  <2>1. CASE Advance(p)
    <3>1. Skips(p) /\ pc[p] \in AtFile
      BY <1>7 DEF Vanished, There, Skips, AtFile, dirs
    <3> QED
      BY <1>0, <2>1, <3>1, AdvanceFacts DEF GoesOn
  <2>2. CASE Exit(p, 1)
    BY <1>0, <2>2 DEF Exit, Goto, Plain
  <2> QED
    BY <1>7, <2>1, <2>2 DEF Vanished, Error
<1>8. CASE OpenTarget(p)
  BY <1>8, OpenFacts DEF Stays, Active
<1>9. CASE WriteTarget(p)
  BY <1>9, WriteFacts DEF Stays, Active, AtFile, GoesOn
<1>10. CASE Metadata(p)
  BY <1>10, MetaFacts DEF Stays, Active, AtFile, GoesOn
<1>11. CASE Unlink(p)
  BY <1>11, UnlinkFacts DEF AtFile, GoesOn
<1>12. CASE Rename(p)
  BY <1>12, RenameFacts DEF AtFile, GoesOn
<1>13. CASE ReadRelease(p) \/ CreateTmp(p) \/ MvRelease(p) \/ CloseTmp(p)
  <2>1. pc[p] \in InRelease /\ arg'[p] = arg[p] /\ at'[p] = at[p]
    BY <1>13 DEF ReadRelease, CreateTmp, MvRelease, CloseTmp, local, InRelease
  <2> QED
    BY <1>0, <2>1 DEF Stays, Active, Place, InRelease
<1>14. CASE Fails(p)
  <2>1. ~(Mode(p) = "move" /\ job[p].force)
    BY <1>0, <1>14 DEF Ignoring, Fails, Mode
  <2>2. CASE Exit(p, 1)
    BY <1>0, <2>2 DEF Exit, Goto, Plain
  <2>3. CASE pc[p] = "mv" /\ Goto(p, "close") /\ UNCHANGED <<arg, at, code>>
    BY <1>0, <2>3 DEF Goto, Plain, Stays, Active
  <2> QED
    BY <1>14, <2>1, <2>2, <2>3 DEF Fails, Error
<1> QED
  BY <1>1, <1>2, <1>3, <1>4, <1>5, <1>6, <1>7, <1>8, <1>9, <1>10, <1>11, <1>12, <1>13,
     <1>14 DEF Act, Step

LEMMA IgnoringBefore ==
  ASSUME TypeInv, NEW p \in Procs, Act(p), Ignoring' = {}
  PROVE  Ignoring = {}
<1>1. job' = job
  BY OneRunMoves DEF TypeInv
<1>2. failed \subseteq failed'
  BY DEF Act, Start, Step, Kill, NoMoreArgs, Abort, Quit, Begin, ReadList, OpenSource, Metadata,
     Fails, Look, Vanished, OpenTarget, WriteTarget, Unlink, Rename, Remove, ReadRelease,
     CreateTmp, MvRelease, CloseTmp, hist
<1> QED
  BY <1>1, <1>2 DEF Ignoring, Mode

\* Unless it ignored a failure, a run that is at work or has ended well has all
\* behind it in the archive.
DoneOf(p) ==
    p \in Active \/ (pc[p] = "ended" /\ code[p] = 0) =>
      \A f \in given : Passed(p, f) => archive[f] # None

DoneInv == Runs("remove") = {} /\ Ignoring = {} => \A p \in Procs : DoneOf(p)

LEMMA DoneNext ==
  ASSUME TypeInv, TypeInv', KeptInv, DoneInv, [Next]_vars
  PROVE  DoneInv'
<1>1. CASE UNCHANGED vars
  <2>1. \A q \in Procs : \A f : Passed(q, f)' <=> Passed(q, f)
    BY <1>1, SamePassed DEF vars, input, local
  <2>2. /\ pc' = pc /\ code' = code /\ given' = given /\ archive' = archive
        /\ runs' = runs /\ job' = job /\ failed' = failed
    BY <1>1 DEF vars, dirs, hist, input
  <2>3. Runs("remove")' = Runs("remove") /\ Active' = Active /\ Ignoring' = Ignoring
    BY <2>2 DEF Runs, Mode, Active, Ignoring
  <2> QED
    BY <2>1, <2>2, <2>3 DEF DoneInv, DoneOf
<1>2. SUFFICES ASSUME NEW p \in Procs, Act(p), Runs("remove")' = {}, Ignoring' = {}
               PROVE  \A q \in Procs : DoneOf(q)'
  BY <1>1 DEF Next, Finished, DoneInv, Act
<1>3. /\ Runs("remove") = {} /\ Mode(p) # "remove"
      /\ \A q \in Procs : DoneOf(q)
  BY <1>2, RemoversBefore, IgnoringBefore DEF DoneInv
<1>4. job' = job /\ given' = given /\ \A q \in Procs \ {p} : Same(q)
  BY <1>2, OneRunMoves DEF TypeInv
<1>5. \A f \in given : f \in Names /\ (archive[f] # None => archive'[f] # None)
  BY <1>2, <1>3, ArchiveGrows DEF TypeInv, Plain
<1>6. ASSUME NEW q \in Procs \ {p} PROVE DoneOf(q)'
  <2>1. /\ pc'[q] = pc[q] /\ code'[q] = code[q]
        /\ \A f : Passed(q, f)' <=> Passed(q, f)
    BY <1>4, SamePassed DEF Same
  <2> QED
    BY <1>3, <1>4, <1>5, <2>1 DEF DoneOf, Active
<1>7. DoneOf(p)'
  <2>1. SUFFICES ASSUME p \in Active' \/ (pc'[p] = "ended" /\ code'[p] = 0),
                        NEW f \in given, Passed(p, f)'
                 PROVE  archive'[f] # None
    BY <1>4 DEF DoneOf
  <2>2. ~(arg'[p] = 1 /\ at'[p] = 1)
    BY <2>1 DEF Passed
  <2>3. ~(pc'[p] = "ended" /\ code'[p] # 0)
    BY <2>1 DEF Active
  <2>4. CASE Stays(p)
    BY <1>3, <1>4, <1>5, <2>1, <2>4, SamePassed DEF Stays, DoneOf
  <2>5. CASE GoesOn(p)
    <3>1. CASE Passed(p, f)
      BY <1>3, <1>5, <2>5, <3>1 DEF DoneOf, Active, AtFile, GoesOn
    <3>2. CASE f = Cur(p)
      <4>1. CASE Skips(p)
        BY <1>3, <3>2, <4>1 DEF Skips, KeptInv
      <4>2. CASE WriteTarget(p) \/ Metadata(p) \/ Unlink(p)
        BY <1>3, <1>5, <3>2, <4>2, WriteFacts, MetaFacts, UnlinkFacts DEF KeptInv
      <4>3. CASE Rename(p)
        BY <1>5, <3>2, <4>3, RenameFacts, InodesAssumption DEF TypeInv, Plain
      <4> QED
        BY <2>5, <4>1, <4>2, <4>3 DEF GoesOn
    <3> QED
      BY <1>4, <2>1, <2>5, <3>1, <3>2, AdvancePasses DEF GoesOn
  <2> QED
    BY <1>2, <1>3, <2>2, <2>3, <2>4, <2>5, StepKinds
<1> QED
  BY <1>6, <1>7

\* Where no two runs overlap and none ignored a failure, who has truncated a file
\* of the archive and not written it is about to do so, has ended with an error,
\* or has been started again and will come to the file.
TornOf(q, f) ==
    /\ \E k \in 1..Len(job[q].args) : f \in Files(job[q].args[k])
    /\ \/ pc[q] = "write" /\ Cur(q) = f
       \/ pc[q] = "ended" /\ code[q] # 0
       \/ q \in Active /\ ~Passed(q, f)

TornInv ==
    crowd = {} /\ Runs("remove") = {} /\ Ignoring = {} =>
      \A f \in given, q \in Procs :
        archive[f] # None /\ writer[f][archive[f]] = q => TornOf(q, f)

LEMMA TornNext ==
  ASSUME TypeInv, TypeInv', AloneInv, SerialInv, TornInv, [Next]_vars
  PROVE  TornInv'
<1>1. CASE UNCHANGED vars
  <2>1. \A q \in Procs : Cur(q)' = Cur(q) /\ \A f : Passed(q, f)' <=> Passed(q, f)
    BY <1>1, SameCur, SamePassed DEF vars, input, local
  <2>2. /\ pc' = pc /\ code' = code /\ given' = given /\ archive' = archive
        /\ runs' = runs /\ job' = job /\ crowd' = crowd /\ writer' = writer
        /\ failed' = failed
    BY <1>1 DEF vars, dirs, hist, input
  <2>3. Runs("remove")' = Runs("remove") /\ Active' = Active /\ Ignoring' = Ignoring
    BY <2>2 DEF Runs, Mode, Active, Ignoring
  <2>4. \A f \in given, q \in Procs : TornOf(q, f)' <=> TornOf(q, f)
    BY <2>1, <2>2, <2>3 DEF TornOf
  <2> QED
    BY <2>2, <2>3, <2>4 DEF TornInv
<1>2. SUFFICES ASSUME NEW p \in Procs, Act(p), crowd' = {}, Runs("remove")' = {},
                      Ignoring' = {}, NEW f \in given, NEW q \in Procs,
                      archive'[f] # None, writer'[f][archive'[f]] = q
               PROVE  TornOf(q, f)'
  <2>1. ASSUME NEW p \in Procs, Act(p) PROVE TornInv'
    BY <1>2, <2>1, OneRunMoves DEF TornInv, TypeInv
  <2> QED
    BY <1>1, <2>1 DEF Next, Finished, Act
<1>3. /\ crowd = {} /\ Runs("remove") = {} /\ Mode(p) # "remove"
      /\ archive[f] # None /\ writer[f][archive[f]] = q => TornOf(q, f)
  BY <1>2, RemoversBefore, IgnoringBefore, OthersRest DEF TornInv
<1>4. job' = job /\ given' = given /\ \A r \in Procs \ {p} : Same(r)
  BY <1>2, OneRunMoves DEF TypeInv
<1>5. /\ archive \in [Names -> Inodes \cup {None}] /\ f \in Names
      /\ writer \in [Names -> [Inodes -> Procs \cup {None}]]
      /\ p \in Inodes /\ None \notin Inodes /\ None \notin Procs
      /\ \A g \in Names : writer[g][Src] = None
  BY <1>3, InodesAssumption DEF TypeInv, Plain, Inodes, SerialInv
<1>6. CASE OpenTarget(p) /\ f = Cur(p)
  <2>1. /\ pc'[p] = "write" /\ Cur(p)' = Cur(p) /\ fd'[p] \in Inodes
        /\ archive' = [archive EXCEPT ![Cur(p)] = fd'[p]]
        /\ writer' = [writer EXCEPT ![Cur(p)][fd'[p]] = p]
    BY <1>6, OpenFacts
  <2>2. q = p
    BY <1>2, <1>5, <1>6, <2>1
  <2>3. arg[p] \in 1..Len(job[p].args) /\ f \in Files(job[p].args[arg[p]])
    BY <1>6, CurFacts, OpenFacts DEF AtFile, Control
  <2> QED
    BY <1>4, <1>6, <2>1, <2>2, <2>3 DEF TornOf
<1>7. CASE ~(OpenTarget(p) /\ f = Cur(p))
  <2>1. archive'[f] = archive[f] /\ writer[f][archive[f]] = q /\ ~(Rename(p) /\ f = Cur(p))
    <3>1. CASE OpenTarget(p)
      BY <1>2, <1>5, <1>7, <3>1, OpenFacts DEF OpenTarget, Rename
    <3>2. CASE WriteTarget(p)
      BY <1>2, <1>5, <3>2, WriteFacts DEF Rename
    <3>3. CASE Unlink(p)
      BY <1>2, <3>3, UnlinkFacts DEF Unlink, Rename
    <3>4. CASE Rename(p)
      BY <1>2, <1>5, <3>4, RenameFacts
    <3> QED
      BY <1>2, <1>3, <3>1, <3>2, <3>3, <3>4, OthersKeepDirs DEF Files4
  <2>2. TornOf(q, f) /\ \E k \in 1..Len(job'[q].args) : f \in Files(job'[q].args[k])
    BY <1>2, <1>3, <1>4, <2>1 DEF TornOf
  <2>3. CASE q # p
    <3>1. /\ pc'[q] = pc[q] /\ code'[q] = code[q] /\ Cur(q)' = Cur(q)
          /\ Passed(q, f)' <=> Passed(q, f)
      BY <1>4, <2>3, SameCur, SamePassed DEF Same
    <3> QED
      BY <2>2, <3>1 DEF TornOf, Active
  <2>4. CASE q = p
    <3>1. SerialOf(p) /\ \A g \in given \ origin : Whole(g)
      BY <1>3 DEF SerialInv
    <3>2. ~(WriteTarget(p) /\ f = Cur(p))
      <4>1. SUFFICES ASSUME WriteTarget(p), f = Cur(p) PROVE FALSE
        OBVIOUS
      <4>2. archive[f] = fd[p] /\ writer[f][fd[p]] = p /\ fd[p] \in Inodes
        BY <3>1, <4>1, WriteFacts DEF SerialOf
      <4>3. writer'[f][fd[p]] = None
        BY <1>5, <4>1, <4>2, WriteFacts DEF WholeNow
      <4> QED
        BY <1>2, <1>5, <2>1, <4>2, <4>3
    <3>3. ~Whole(f)
      BY <1>5, <2>1 DEF Whole
    <3>4. CASE Start(p) /\ pc'[p] \in {"arg", "read"} /\ arg'[p] = 1 /\ at'[p] = 1
      BY <2>2, <2>4, <3>4 DEF TornOf, Active, Passed
    <3>5. CASE pc'[p] = "ended" /\ code'[p] # 0
      BY <2>2, <2>4, <3>5 DEF TornOf
    <3>6. CASE Stays(p)
      <4>1. ~Passed(p, f)
        BY <2>2, <2>4, <3>2, <3>6 DEF TornOf, Stays, Active
      <4>2. pc'[p] # "ended"
        <5>1. PICK k \in 1..Len(job[p].args) : f \in Files(job[p].args[k])
          BY <2>2, <2>4 DEF TornOf
        <5>2. Mode(p) # "release" /\ Len(job[p].args) \in Nat /\ arg[p] \in Nat
          BY <5>1, JobFacts DEF TypeInv, Plain, Mode
        <5>3. ~(arg[p] > Len(job[p].args))
          BY <4>1, <5>1, <5>2 DEF Passed
        <5> QED
          BY <3>6, <5>2, <5>3 DEF Stays
      <4>3. ~Passed(p, f)'
        BY <1>4, <3>6, <4>1, SamePassed DEF Stays
      <4>4. pc'[p] # "idle"
        BY <1>2, NeverIdle
      <4> QED
        BY <2>2, <2>4, <4>2, <4>3, <4>4 DEF TornOf, Active
    <3>7. CASE GoesOn(p)
      <4>1. f # Cur(p)
        BY <1>2, <2>1, <3>1, <3>2, <3>3, <3>7, UnlinkFacts, MetaFacts DEF GoesOn, Skips, SerialOf
      <4>2. ~Passed(p, f)
        BY <2>2, <2>4, <3>7, <4>1 DEF TornOf, AtFile, GoesOn
      <4>3. ~Passed(p, f)'
        BY <1>4, <3>7, <4>1, <4>2, AdvancePasses DEF GoesOn
      <4> QED
        BY <2>2, <2>4, <3>7, <4>3 DEF TornOf, Active, GoesOn
    <3> QED
      BY <1>2, <1>3, <3>4, <3>5, <3>6, <3>7, StepKinds
  <2> QED
    BY <2>3, <2>4
<1> QED
  BY <1>6, <1>7

\* When the last runs of deb-archive have all exited with 0, every file that
\* their control files name and that was there is whole in the archive, also if
\* earlier runs were killed or failed half-way; or, if none was, none failed and
\* none copied beside one that renames, they overlapped.  A forced move that met
\* a failure is excepted.
THEOREM ArchivedIsWhole == Spec => []ArchivedWhole
<1>1. Init => DoneInv /\ TornInv
  <2> SUFFICES ASSUME Init PROVE DoneInv /\ TornInv
    OBVIOUS
  <2>1. /\ \A p \in Procs : pc[p] = "idle"
        /\ \A f \in Names, n \in Inodes : writer[f][n] = None
    BY DEF Init
  <2>2. given \subseteq Names /\ archive \in [Names -> Inodes \cup {None}]
    BY PlainInit DEF Plain
  <2> QED
    BY <2>1, <2>2, InodesAssumption DEF DoneInv, DoneOf, Active, TornInv
<1>2. /\ TypeInv /\ TypeInv' /\ AloneInv /\ KeptInv /\ SerialInv
      /\ DoneInv /\ TornInv /\ [Next]_vars
      => DoneInv' /\ TornInv'
  BY DoneNext, TornNext
<1>3. TypeInv /\ WriterInv /\ DoneInv /\ TornInv => ArchivedWhole
  <2> SUFFICES ASSUME TypeInv, WriterInv, DoneInv, TornInv, Over, Runs("remove") = {},
                      Ignoring = {}, crowd = {} \/ Orderly, \A p \in Procs : code[p] = 0,
                      NEW p \in Procs, NEW k \in DOMAIN job[p].args,
                      NEW f \in Files(job[p].args[k]) \cap given
               PROVE  Whole(f)
    BY DEF ArchivedWhole
  <2>1. \A q \in Procs : pc[q] = "ended" /\ code[q] = 0
    BY DEF Over
  <2>2. k \in 1..Len(job[p].args) /\ Len(job[p].args) \in Nat
    BY JobFacts DEF TypeInv, Plain
  <2>3. arg[p] = Len(job[p].args) + 1
    <3>1. runs[p] > 0 /\ Place(p)
      BY <2>1 DEF TypeInv, Places, Place
    <3>2. Mode(p) # "remove"
      BY <3>1 DEF Runs
    <3> QED
      BY <2>1, <3>1, <3>2 DEF Place
  <2>4. Passed(p, f)
    BY <2>2, <2>3 DEF Passed
  <2>5. archive[f] # None
    BY <2>1, <2>4 DEF DoneInv, DoneOf
  <2>6. f \in Names /\ archive[f] \in Inodes /\ writer[f][archive[f]] \in Procs \cup {None}
    BY <2>5 DEF TypeInv, Plain
  <2>7. writer[f][archive[f]] \notin Procs
    <3>1. CASE crowd = {}
      BY <2>1, <2>5, <3>1 DEF TornInv, TornOf, Active
    <3>2. CASE Orderly
      BY <2>1, <2>6, <3>2 DEF WriterInv
    <3> QED
      BY <3>1, <3>2
  <2> QED
    BY <2>5, <2>6, <2>7 DEF Whole
<1> QED
  BY <1>1, <1>2, <1>3, TypeInvariant, ArchiveInvariants, PTL DEF Spec

-----------------------------------------------------------------------------
(* Moving: the control file comes last *)

\* Where runs only move and ignore no failure, the files behind a run in its list
\* have left the origin.
MovedBehind(p) ==
    Mode(p) = "move" /\ pc[p] \in AtFile => \A k \in 1..(at[p] - 1) : Order(p)[k] \notin origin

\* A control file that was moved has left none of its files in the origin.
RootsMoved ==
    \A c \in Roots : archive[c] \in Procs \cup {Src} =>
      \A f \in Files(c) \ {c} : f \notin origin

MoveInv == OnlyMode("move") /\ Ignoring = {} => (\A p \in Procs : MovedBehind(p)) /\ RootsMoved

LEMMA MoveNext ==
  ASSUME TypeInv, TypeInv', KeptInv, MoveInv, [Next]_vars
  PROVE  MoveInv'
<1>1. CASE UNCHANGED vars
  BY <1>1 DEF vars, input, dirs, local, hist, MoveInv, OnlyMode, MovedBehind,
              RootsMoved, Mode, Order, Control, Ignoring
<1>2. SUFFICES ASSUME NEW p \in Procs, Act(p), OnlyMode("move")', Ignoring' = {}
               PROVE  (\A q \in Procs : MovedBehind(q)') /\ RootsMoved'
  BY <1>1 DEF Next, Finished, MoveInv, Act
<1>3. Plain /\ Place(p)
  BY DEF TypeInv, Places
<1>4. /\ Mode(p) \in {"move", "release"}
      /\ \A q \in Procs : MovedBehind(q)
      /\ RootsMoved /\ OnlyMode("move")
  BY <1>2, OnlyModeBefore, IgnoringBefore DEF MoveInv
<1>5. job' = job /\ \A q \in Procs \ {p} : Same(q)
  BY <1>2, <1>3, OneRunMoves
<1>6. origin' \subseteq origin
  BY <1>2, <1>4, OpenFacts, WriteFacts, UnlinkFacts, RenameFacts, OthersKeepDirs DEF Files4
<1>7. ASSUME NEW q \in Procs \ {p} PROVE MovedBehind(q)'
  <2>1. Same(q) /\ Order(q)' = Order(q) /\ Mode(q)' = Mode(q)
    BY <1>5, SameOrder DEF Same, Mode
  <2> QED
    BY <1>4, <1>6, <2>1 DEF MovedBehind, Same
<1>8. MovedBehind(p)'
  <2>1. SUFFICES ASSUME Mode(p) = "move", pc'[p] \in AtFile, NEW k \in 1..(at'[p] - 1)
                 PROVE  Order(p)'[k] \notin origin'
    BY <1>5 DEF MovedBehind, Mode
  <2>2. ~(Start(p) /\ pc'[p] \in {"arg", "read"}) /\ pc'[p] # "ended" /\ pc'[p] # "arg"
    BY <2>1 DEF AtFile
  <2>3. CASE Stays(p)
    <3>1. Order(p)' = Order(p) /\ at'[p] = at[p]
      BY <1>5, <2>3, SameOrder DEF Stays
    <3>2. at[p] # 1
      BY <1>3, <2>1, <3>1 DEF Plain
    <3>3. pc[p] \in AtFile
      BY <1>3, <2>3, <3>2 DEF Plain, Place, Stays, Active
    <3> QED
      BY <1>4, <1>6, <2>1, <3>1, <3>3 DEF MovedBehind
  <2>4. CASE GoesOn(p)
    <3>1. at'[p] = at[p] + 1 /\ Order(p)' = Order(p) /\ at[p] \in 1..Len(Order(p))
      BY <1>5, <2>2, <2>4, AdvanceFacts, CurFacts DEF GoesOn
    <3>2. Cur(p) \notin origin'
      <4>1. CASE WriteTarget(p) \/ Metadata(p)
        <5>1. at'[p] = at[p]
          BY <2>1, <4>1, WriteFacts, MetaFacts
        <5> QED
          BY <1>3, <3>1, <5>1 DEF Plain
      <4>2. CASE Skips(p)
        <5>1. Runs("remove") = {}
          BY <1>4 DEF Runs, OnlyMode
        <5>2. pc[p] = "meta" => archive[Cur(p)] # None
          BY <5>1 DEF KeptInv
        <5> QED
          BY <4>2, <5>2 DEF Skips
      <4> QED
        BY <2>4, <4>1, <4>2, UnlinkFacts, RenameFacts DEF GoesOn
    <3>3. CASE k = at[p]
      BY <3>1, <3>2, <3>3 DEF Cur
    <3>4. CASE k # at[p]
      <4>1. k \in 1..(at[p] - 1)
        BY <1>3, <2>1, <3>1, <3>4 DEF Plain
      <4> QED
        BY <1>4, <1>6, <2>1, <2>4, <3>1, <4>1 DEF MovedBehind, GoesOn
    <3> QED
      BY <3>3, <3>4
  <2> QED
    BY <1>2, <1>4, <2>2, <2>3, <2>4, StepKinds
<1>9. RootsMoved'
  <2>1. SUFFICES ASSUME NEW c \in Roots, archive'[c] \in Procs \cup {Src}, NEW f \in Files(c) \ {c}
                 PROVE  f \notin origin'
    BY DEF RootsMoved
  <2>2. c \in Names
    BY DEF Roots
  <2>3. CASE archive'[c] = archive[c]
    BY <1>4, <1>6, <2>1, <2>3 DEF RootsMoved
  <2>4. CASE archive'[c] # archive[c]
    <3>1. /\ pc[p] \in {"open", "target"} /\ Cur(p) = c
      <4>1. CASE OpenTarget(p)
        BY <1>3, <2>2, <2>4, <4>1, OpenFacts DEF Plain
      <4>2. CASE Rename(p)
        BY <1>3, <2>2, <2>4, <4>2, RenameFacts DEF Plain
      <4> QED
        BY <1>2, <1>4, <2>4, <4>1, <4>2, WriteFacts, UnlinkFacts, OthersKeepDirs DEF Files4
    <3>2. Mode(p) = "move"
      BY <1>3, <1>4, <3>1 DEF Place, AtFile
    <3>3. /\ at[p] \in 1..Len(Order(p)) /\ Len(Order(p)) \in Nat /\ Control(p) \in Names
          /\ Mode(p) # "copy" /\ at[p] < Len(Order(p)) =>
               at[p] \in DOMAIN Listed[Control(p)] /\ Cur(p) = Listed[Control(p)][at[p]]
          /\ Order(p)[Len(Order(p))] = Control(p)
          /\ \A g \in Files(Control(p)) : \E k \in 1..Len(Order(p)) : Order(p)[k] = g
      BY <1>3, <3>1, <3>2, CurFacts, OrderFacts DEF TypeInv, AtFile, Cur
    <3>4. at[p] = Len(Order(p)) /\ Control(p) = c
      BY <3>1, <3>2, <3>3 DEF Roots, Cur
    <3>5. PICK k \in 1..Len(Order(p)) : Order(p)[k] = f
      BY <3>3, <3>4
    <3>6. k \in 1..(at[p] - 1)
      BY <2>1, <3>3, <3>4, <3>5
    <3> QED
      BY <1>4, <1>6, <3>1, <3>2, <3>5, <3>6 DEF MovedBehind, AtFile
  <2> QED
    BY <2>3, <2>4
<1> QED
  BY <1>7, <1>8, <1>9

\* Where runs only move, no two overlap and none ignored a failure, a control
\* file that was moved into the archive has the files it names there, whole, even
\* if the move was killed or failed.
THEOREM MoveIsOrdered == Spec => []MoveKeepsOrder
<1>1. Init => MoveInv
  <2> SUFFICES ASSUME Init PROVE MoveInv
    OBVIOUS
  <2>1. \A p \in Procs : pc[p] = "idle"
    BY DEF Init
  <2>2. \A f \in Names : archive[f] \notin Procs \cup {Src}
    BY InodesAssumption DEF Init
  <2> QED
    BY <2>1, <2>2 DEF MoveInv, MovedBehind, RootsMoved, AtFile, Roots
<1>2. TypeInv /\ TypeInv' /\ KeptInv /\ MoveInv /\ [Next]_vars => MoveInv'
  BY MoveNext
<1>3. SerialInv /\ MoveInv => MoveKeepsOrder
  <2> SUFFICES ASSUME SerialInv, MoveInv, crowd = {}, Ignoring = {}, OnlyMode("move"),
                      NEW c \in Roots, archive[c] \in Procs \cup {Src},
                      NEW f \in Files(c) \cap given, f # c
               PROVE  Whole(f)
    BY DEF MoveKeepsOrder
  <2>1. Runs("remove") = {}
    BY DEF Runs, OnlyMode
  <2>2. f \notin origin
    BY DEF MoveInv, RootsMoved
  <2> QED
    BY <2>1, <2>2 DEF SerialInv
<1> QED
  BY <1>1, <1>2, <1>3, TypeInvariant, ArchiveInvariants, PTL DEF Spec
=============================================================================
