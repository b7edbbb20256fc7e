---------------------------- MODULE BuildProofs ----------------------------
(***************************************************************************)
(* Theorems about runs of buildit on one distro, for any number of runs,   *)
(* packages, update tasks and faults.                                      *)
(***************************************************************************)
EXTENDS Build, TLAPS

-----------------------------------------------------------------------------
(* Type correctness *)

\* A run that is at a package is within its list.
WithinList == \A b \in Builds : pc[b] \in AtItem => i[b] \in DOMAIN list[b]

Reports == UNION {[DOMAIN l -> {None, "success", "failed"}] : l \in Lists}

TypeInv == TypeOK /\ report \in [Builds -> Reports]

\* The type of the variables one by one, apart from the reports.
Plain ==
    /\ list \in [Builds -> Lists]
    /\ depends \in [Builds -> BOOLEAN]
    /\ pc \in [Builds -> InPid1 \cup {"copy", "ended"}]
    /\ i \in [Builds -> Nat \ {0}]
    /\ tmp \in [Builds -> SUBSET Entries]
    /\ left \in [Builds -> SUBSET Entries]
    /\ changes \in [Builds -> BOOLEAN]
    /\ code \in [Builds -> 0..255 \cup {None}]
    /\ source \in SUBSET Packages
    /\ results \in SUBSET Entries
    /\ installed \in SUBSET Packages
    /\ failed \in 0..MaxFaults
    /\ killed \in SUBSET Builds
    /\ unlisted \in SUBSET Builds
    /\ unforked \in SUBSET Builds

LEMMA ListFacts ==
  ASSUME list \in [Builds -> Lists], NEW b \in Builds
  PROVE  /\ list[b] \in Seq(Packages)
         /\ Len(list[b]) \in Nat
         /\ DOMAIN list[b] = 1..Len(list[b])
         /\ \A k \in DOMAIN list[b] : list[b][k] \in Packages
  BY ListsAssumption

\* A run at a package has one.
LEMMA HasPackage ==
  ASSUME TypeInv, NEW b \in Builds, pc[b] \in AtItem \/ AtPackage(b)
  PROVE  i[b] \in DOMAIN list[b] /\ Pkg(b) \in Packages
<1>1. list \in [Builds -> Lists] /\ i[b] \in Nat \ {0}
  BY DEF TypeInv, TypeOK
<1>2. i[b] \in DOMAIN list[b]
  BY <1>1, ListFacts DEF TypeInv, TypeOK, WithinList, AtPackage
<1> QED
  BY <1>1, <1>2, ListFacts DEF Pkg

LEMMA PlainNext == ASSUME TypeInv, [Next]_vars PROVE Plain'
<1>0. Plain
  BY DEF TypeInv, TypeOK, Plain
<1> USE <1>0 DEF Plain, AtItem, InPid1, InBuild, Commands, Goto, Advance, Exit, Fault,
                 Killed, shared, counts, work
<1>1. ASSUME NEW b \in Builds, Accept(b) PROVE Plain'
  BY <1>1, HasPackage DEF Accept
<1>2. ASSUME NEW b \in Builds, AcceptFails(b) \/ Reject(b) PROVE Plain'
  BY <1>2, BoundsAssumption DEF AcceptFails, Reject
<1>3. ASSUME NEW b \in Builds, Pid1(b) PROVE  Plain'
  BY <1>3 DEF Pid1
<1>20. ASSUME NEW b \in Builds, TasksDone(b) PROVE  Plain'
  BY <1>20 DEF TasksDone
<1>4. ASSUME NEW b \in Builds, Task(b) \/ TaskKilled(b) PROVE  Plain'
  BY <1>4 DEF Task, TaskKilled
<1>16. ASSUME NEW b \in Builds, NextPackage(b) PROVE Plain'
  <2>1. /\ Exit(b, 0) \/ (Goto(b, "mount") /\ UNCHANGED <<i, code>>) \/ Advance(b, "next")
        /\ UNCHANGED <<list, depends, work, report, shared, counts>>
    BY <1>16 DEF NextPackage
  <2> QED
    BY <2>1
<1>17. ASSUME NEW b \in Builds, Mount(b) PROVE Plain'
  BY <1>17 DEF Mount
<1>5. ASSUME NEW b \in Builds, MountFails(b) \/ CopyOutFails(b) PROVE Plain'
  BY <1>5, BoundsAssumption DEF MountFails, CopyOutFails
<1>22. ASSUME NEW b \in Builds, ForkThrows(b) PROVE Plain'
  BY <1>22, BoundsAssumption, CodesAssumption DEF ForkThrows
<1>6. ASSUME NEW b \in Builds, Extract(b) PROVE Plain'
  BY <1>6, HasPackage DEF Extract, Command, After, Entries
<1>7. ASSUME NEW b \in Builds, Depends(b) \/ Purge(b) PROVE Plain'
  BY <1>7, HasPackage DEF Depends, Purge, Command, After
<1>8. ASSUME NEW b \in Builds, BuildPackage(b) PROVE Plain'
  BY <1>8, HasPackage DEF BuildPackage, Command, After, Entries
<1>9. ASSUME NEW b \in Builds, CommandFails(b) PROVE Plain'
  BY <1>9, BoundsAssumption, CodesAssumption DEF CommandFails
<1>10. ASSUME NEW b \in Builds, CommandKilled(b) PROVE Plain'
  BY <1>10, HasPackage DEF CommandKilled, After
<1>11. ASSUME NEW b \in Builds, BuildKilled(b) PROVE Plain'
  BY <1>11 DEF BuildKilled
<1>18. ASSUME NEW b \in Builds, Pid1Killed(b) PROVE Plain'
  BY <1>18 DEF Pid1Killed
<1>12. ASSUME NEW b \in Builds, OpenDir(b) PROVE Plain'
  BY <1>12 DEF OpenDir
<1>19. ASSUME NEW b \in Builds, OpenDirFails(b) PROVE Plain'
  BY <1>19, BoundsAssumption DEF OpenDirFails
<1>13. ASSUME NEW b \in Builds, Get(b) PROVE Plain'
  <2>1. PICK e \in left[b] :
          /\ left' = [left EXCEPT ![b] = @ \ {e}]
          /\ IF e[1] = "changes"
               THEN /\ changes' = [changes EXCEPT ![b] = TRUE]
                    /\ results' = results \cup {<<"deb", e[2]>>, e}
               ELSE UNCHANGED <<changes, results>>
    BY <1>13 DEF Get
  <2>2. e \in Entries /\ <<"deb", e[2]>> \in Entries
    BY DEF Entries
  <2>3. CASE e[1] = "changes"
    <3>1. results' \in SUBSET Entries
      BY <2>1, <2>2, <2>3 DEF Plain
    <3>2. changes' \in [Builds -> BOOLEAN] /\ left' \in [Builds -> SUBSET Entries]
      BY <2>1, <2>3 DEF Plain
    <3> QED
      BY <1>13, <3>1, <3>2 DEF Get
  <2>4. CASE e[1] # "changes"
    BY <1>13, <2>1, <2>4 DEF Get
  <2> QED
    BY <2>3, <2>4
<1>14. ASSUME NEW b \in Builds, Report(b) PROVE Plain'
  BY <1>14 DEF Report
<1>21. ASSUME NEW b \in Builds, NotForked(b) PROVE Plain'
  <2>1. /\ failed' \in 0..MaxFaults /\ unforked' \in SUBSET Builds
        /\ UNCHANGED <<list, depends, work, report, shared, killed, unlisted>>
    BY <1>21, BoundsAssumption DEF NotForked
  <2>2. CASE pc[b] \in Commands /\ Goto(b, After(b)) /\ UNCHANGED <<i, code>>
    BY <2>1, <2>2 DEF After
  <2>3. CASE Advance(b, "task") \/ Advance(b, "next")
    BY <2>1, <2>3
  <2>4. CASE Exit(b, 0)
    BY <2>1, <2>4
  <2> QED
    BY <1>21, <2>2, <2>3, <2>4 DEF NotForked
<1>15. CASE UNCHANGED vars
  BY <1>15 DEF vars
<1> HIDE DEF Plain
<1> QED
  BY <1>1, <1>2, <1>3, <1>4, <1>5, <1>6, <1>7, <1>8, <1>9, <1>10, <1>11, <1>12,
     <1>13, <1>14, <1>15, <1>16, <1>17, <1>18, <1>19, <1>20, <1>21,
     <1>22
     DEF Next, Step, Disturbed, Finished

\* Only Report changes the reports.
LEMMA OnlyReport ==
  ASSUME NEW b \in Builds, Step(b) \/ Disturbed(b)
  PROVE  list' = list /\ depends' = depends /\ (report' = report \/ Report(b))
<1>1. CASE \/ Accept(b) \/ AcceptFails(b) \/ Reject(b) \/ Pid1(b) \/ Task(b)
           \/ TasksDone(b) \/ TaskKilled(b) \/ NextPackage(b) \/ Mount(b)
           \/ MountFails(b) \/ ForkThrows(b) \/ NotForked(b) \/ OpenDir(b) \/ OpenDirFails(b)
  BY <1>1 DEF Accept, AcceptFails, Reject, Pid1, Task, TasksDone, TaskKilled,
              NextPackage, Mount, MountFails, ForkThrows, NotForked, OpenDir, OpenDirFails
<1>2. CASE \/ Extract(b) \/ Depends(b) \/ Purge(b) \/ BuildPackage(b)
           \/ CommandFails(b) \/ CommandKilled(b) \/ BuildKilled(b)
           \/ Pid1Killed(b) \/ Get(b) \/ CopyOutFails(b)
  BY <1>2 DEF Extract, Depends, Purge, BuildPackage, Command, CommandFails,
              CommandKilled, BuildKilled, Pid1Killed, Get, CopyOutFails
<1>3. CASE Report(b)
  BY <1>3 DEF Report
<1> QED
  BY <1>1, <1>2, <1>3 DEF Step, Disturbed

LEMMA NextIsARun ==
  [Next]_vars => UNCHANGED vars \/ \E b \in Builds : Step(b) \/ Disturbed(b)
  BY DEF Next, Finished

LEMMA ReportsOf ==
  ASSUME [Next]_vars
  PROVE  list' = list /\ (report' = report \/ \E b \in Builds : Report(b))
  BY OnlyReport, NextIsARun DEF vars

\* A step of run b leaves what belongs to another run alone.
Same(c) ==
    /\ list'[c] = list[c] /\ depends'[c] = depends[c]
    /\ pc'[c] = pc[c] /\ i'[c] = i[c]
    /\ tmp'[c] = tmp[c] /\ left'[c] = left[c] /\ changes'[c] = changes[c]
    /\ report'[c] = report[c] /\ code'[c] = code[c]
    /\ c \in killed' <=> c \in killed
    /\ c \in unlisted' <=> c \in unlisted
    /\ c \in unforked' <=> c \in unforked

\* What the runs share, and the faults, only grow; dependencies may be purged.
Grows ==
    /\ source \subseteq source' /\ results \subseteq results'
    /\ killed \subseteq killed' /\ unlisted \subseteq unlisted'
    /\ unforked \subseteq unforked'
    /\ failed' # failed => failed' > 0

LEMMA OneRunMoves ==
  ASSUME TypeInv, NEW b \in Builds, Step(b) \/ Disturbed(b)
  PROVE  Grows /\ \A c \in Builds \ {b} : Same(c)
<1> DEFINE Goal == Grows /\ \A c \in Builds \ {b} : Same(c)
<1>0. Plain /\ report \in [Builds -> Reports]
  BY DEF TypeInv, TypeOK, Plain
<1> USE <1>0 DEF Plain, Goto, Advance, Exit, Fault, Killed, shared, counts, work, Same,
                 Grows
<1>1. CASE Accept(b)
  BY <1>1 DEF Accept
<1>2. CASE AcceptFails(b) \/ Reject(b)
  BY <1>2, BoundsAssumption DEF AcceptFails, Reject
<1>3. CASE Pid1(b) \/ Task(b) \/ TasksDone(b) \/ TaskKilled(b)
  BY <1>3 DEF Pid1, Task, TasksDone, TaskKilled
<1>4. CASE NextPackage(b)
  BY <1>4 DEF NextPackage
<1>5. CASE Mount(b)
  BY <1>5 DEF Mount
<1>6. CASE MountFails(b) \/ ForkThrows(b) \/ CopyOutFails(b)
  BY <1>6 DEF MountFails, ForkThrows, CopyOutFails
<1>7. CASE Extract(b) \/ Depends(b) \/ BuildPackage(b) \/ Purge(b)
  BY <1>7 DEF Extract, Depends, BuildPackage, Purge, Command
<1>8. CASE CommandFails(b)
  BY <1>8 DEF CommandFails
<1>9. CASE CommandKilled(b)
  BY <1>9 DEF CommandKilled
<1>10. CASE BuildKilled(b) \/ Pid1Killed(b)
  BY <1>10 DEF BuildKilled, Pid1Killed
<1>11. CASE OpenDir(b) \/ OpenDirFails(b)
  BY <1>11 DEF OpenDir, OpenDirFails
<1>12. CASE Get(b)
  BY <1>12 DEF Get
<1>13. CASE Report(b)
  BY <1>13 DEF Report
<1>14. CASE NotForked(b)
  BY <1>14, BoundsAssumption DEF NotForked
<1> QED
  BY <1>1, <1>2, <1>3, <1>4, <1>5, <1>6, <1>7, <1>8, <1>9, <1>10, <1>11, <1>12,
     <1>13, <1>14 DEF Step, Disturbed

\* How a run comes to a package: from the head of the loop, within the list.
LEMMA EntersItem ==
  ASSUME TypeInv, NEW b \in Builds, Step(b) \/ Disturbed(b), pc'[b] \in AtItem
  PROVE  /\ i'[b] = i[b]
         /\ pc[b] \in AtItem \/ (pc[b] = "next" /\ i[b] <= Len(list[b]))
<1>0. Plain
  BY DEF TypeInv, TypeOK, Plain
<1> USE <1>0 DEF Plain, AtItem, InBuild, Commands, Goto, Advance, Exit
<1>1. ~ (Accept(b) \/ AcceptFails(b) \/ Reject(b) \/ Pid1(b) \/ Report(b))
  BY DEF Accept, AcceptFails, Reject, Pid1, Report
<1>2. ~ (Task(b) \/ TasksDone(b) \/ TaskKilled(b) \/ MountFails(b) \/ ForkThrows(b) \/ CopyOutFails(b))
  BY DEF Task, TasksDone, TaskKilled, MountFails, ForkThrows, CopyOutFails
<1>3. ~ (CommandFails(b) \/ BuildKilled(b) \/ Pid1Killed(b))
  BY DEF CommandFails, BuildKilled, Pid1Killed
<1>4. CASE NextPackage(b)
  BY <1>4, ListFacts DEF NextPackage
<1>5. CASE Mount(b)
  BY <1>5 DEF Mount
<1>6. CASE Extract(b) \/ Depends(b) \/ BuildPackage(b) \/ Purge(b)
  BY <1>6 DEF Extract, Depends, BuildPackage, Purge, Command
<1>7. CASE CommandKilled(b)
  BY <1>7 DEF CommandKilled
<1>8. CASE OpenDir(b) \/ OpenDirFails(b) \/ Get(b)
  BY <1>8 DEF OpenDir, OpenDirFails, Get
<1>9. CASE NotForked(b)
  BY <1>9 DEF NotForked
<1> QED
  BY <1>1, <1>2, <1>3, <1>4, <1>5, <1>6, <1>7, <1>8, <1>9 DEF Step, Disturbed

LEMMA TypeNext == TypeInv /\ [Next]_vars => TypeInv'
<1> SUFFICES ASSUME TypeInv, [Next]_vars PROVE TypeInv'
  OBVIOUS
<1>1. Plain' /\ list' = list
  BY PlainNext, ReportsOf
<1>2. \A b \in Builds : i[b] \in Nat \ {0} /\ DOMAIN list[b] = 1..Len(list[b])
                          /\ Len(list[b]) \in Nat
  BY ListFacts DEF TypeInv, TypeOK
<1>3. WithinList'
  <2>1. ASSUME NEW b \in Builds, Step(b) \/ Disturbed(b), NEW c \in Builds,
               pc'[c] \in AtItem
        PROVE  i'[c] \in DOMAIN list[c]
    <3>1. CASE c = b
      BY <1>2, <2>1, <3>1, EntersItem DEF TypeInv, TypeOK, WithinList
    <3>2. CASE c # b
      BY <2>1, <3>2, OneRunMoves DEF TypeInv, TypeOK, WithinList, Same
    <3> QED
      BY <3>1, <3>2
  <2>2. CASE UNCHANGED vars
    BY <2>2 DEF vars, TypeInv, TypeOK, WithinList
  <2> QED
    BY <1>1, <2>1, <2>2, NextIsARun DEF WithinList
<1>4. /\ report' \in [Builds -> Reports]
      /\ \A b \in Builds : report'[b] \in [DOMAIN list[b] -> {None, "success", "failed"}]
  <2>1. ASSUME NEW b \in Builds, Report(b)
        PROVE  \A c \in Builds :
                 report'[c] \in [DOMAIN list[c] -> {None, "success", "failed"}]
    <3>1. i[b] \in DOMAIN list[b]
      BY <2>1, HasPackage DEF Report, AtItem, InBuild
    <3> QED
      BY <2>1, <3>1 DEF Report, TypeInv, TypeOK
  <2>2. \A c \in Builds : report'[c] \in [DOMAIN list[c] -> {None, "success", "failed"}]
    BY <2>1, ReportsOf DEF TypeInv, TypeOK
  <2>3. \A c \in Builds : list[c] \in Lists
    BY DEF TypeInv, TypeOK
  <2>4. \A c \in Builds : report'[c] \in Reports
    BY <2>2, <2>3 DEF Reports
  <2>5. report' = [c \in Builds |-> report'[c]]
    BY ReportsOf DEF Report, TypeInv
  <2> QED
    BY <2>2, <2>4, <2>5
<1> QED
  BY <1>1, <1>3, <1>4 DEF TypeInv, TypeOK, WithinList, Plain

LEMMA TypeInit == Init => TypeInv
<1> SUFFICES ASSUME Init PROVE TypeInv
  OBVIOUS
<1>1. report \in [Builds -> Reports]
  BY DEF Init, Reports
<1> QED
  BY <1>1, BoundsAssumption
     DEF Init, TypeInv, TypeOK, AtItem, InPid1, InBuild, Commands

LEMMA TypeAlways == Spec => []TypeInv
  BY TypeInit, TypeNext, PTL DEF Spec

\* The variables of every run of buildit keep their types under every fault and
\* kill: no package is looked up outside its list and every exit code is a byte.
THEOREM TypeCorrect == Spec => []TypeOK
<1>1. TypeInv => TypeOK
  BY DEF TypeInv
<1> QED
  BY <1>1, TypeAlways, PTL

-----------------------------------------------------------------------------
(* What is reported a success is there *)

Own(p) == {<<"deb", p>>, <<"changes", p>>}

\* The tmpfs of a build holds nothing of another package, the listing returns
\* what is in it, and a .changes file it has returned was copied.
ListsOwn(b) ==
    /\ pc[b] \in InBuild => \A e \in tmp[b] : e[2] = Pkg(b)
    /\ pc[b] = "get" => /\ left[b] \subseteq tmp[b]
                        /\ changes[b] => Own(Pkg(b)) \subseteq results

SuccessOf(b) ==
    \A k \in DOMAIN list[b] : report[b][k] = "success" => Own(list[b][k]) \subseteq results

SuccessInv == TypeInv /\ \A b \in Builds : ListsOwn(b) /\ SuccessOf(b)

LEMMA SuccessOther ==
  ASSUME NEW c \in Builds, ListsOwn(c), SuccessOf(c), Same(c), Grows
  PROVE  ListsOwn(c)' /\ SuccessOf(c)'
  BY DEF ListsOwn, SuccessOf, Same, Grows, Pkg

\* The steps that end in a build, apart from Mount, go on with what is there.
LEMMA SuccessOwn ==
  ASSUME TypeInv, NEW b \in Builds, ListsOwn(b), SuccessOf(b), Step(b) \/ Disturbed(b)
  PROVE  ListsOwn(b)' /\ SuccessOf(b)'
<1>0. Plain /\ Grows /\ report \in [Builds -> Reports]
  BY OneRunMoves DEF TypeInv, TypeOK, Plain
<1> USE <1>0 DEF Plain, ListsOwn, Goto, Advance, Exit, InBuild, Commands, Pkg
<1>1. CASE Report(b)
  BY <1>1 DEF Report, SuccessOf, TypeInv, TypeOK, shared
<1>2. ASSUME ~Report(b) PROVE SuccessOf(b)'
  <2>1. report' = report /\ list' = list
    BY <1>2, OnlyReport
  <2> QED
    BY <2>1 DEF SuccessOf, Grows
<1>3. ASSUME \/ Accept(b) \/ AcceptFails(b) \/ Reject(b) \/ Pid1(b) \/ Task(b)
             \/ TasksDone(b) \/ TaskKilled(b)
      PROVE  ListsOwn(b)'
  BY <1>3 DEF Accept, AcceptFails, Reject, Pid1, Task, TasksDone, TaskKilled
<1>4. ASSUME NextPackage(b) \/ Mount(b) PROVE ListsOwn(b)'
  BY <1>4 DEF NextPackage, Mount
<1>5. ASSUME \/ MountFails(b) \/ ForkThrows(b) \/ CopyOutFails(b) \/ CommandFails(b)
             \/ BuildKilled(b) \/ Pid1Killed(b)
      PROVE  ListsOwn(b)'
  BY <1>5 DEF MountFails, ForkThrows, CopyOutFails, CommandFails, BuildKilled, Pid1Killed
<1>6. ASSUME Extract(b) PROVE ListsOwn(b)'
  BY <1>6 DEF Extract, Command, After
<1>7. ASSUME BuildPackage(b) PROVE ListsOwn(b)'
  BY <1>7 DEF BuildPackage, Command, After
<1>8. ASSUME Depends(b) \/ Purge(b) \/ CommandKilled(b) \/ NotForked(b) PROVE ListsOwn(b)'
  BY <1>8 DEF Depends, Purge, CommandKilled, NotForked, Command, After, work
<1>9. ASSUME OpenDir(b) \/ OpenDirFails(b) PROVE ListsOwn(b)'
  BY <1>9 DEF OpenDir, OpenDirFails
<1>10. ASSUME Get(b) PROVE ListsOwn(b)'
  <2>1. PICK e \in left[b] :
          /\ left' = [left EXCEPT ![b] = @ \ {e}]
          /\ IF e[1] = "changes"
               THEN /\ changes' = [changes EXCEPT ![b] = TRUE]
                    /\ results' = results \cup {<<"deb", e[2]>>, e}
               ELSE UNCHANGED <<changes, results>>
    BY <1>10 DEF Get
  <2>2. e = <<e[1], e[2]>> /\ e[2] = Pkg(b) /\ left[b] \subseteq tmp[b]
    BY <1>10, <2>1 DEF Get, Entries
  <2>3. pc'[b] = "get" /\ Pkg(b)' = Pkg(b) /\ tmp' = tmp
    BY <1>10 DEF Get
  <2>4. changes'[b] => Own(Pkg(b)) \subseteq results'
    BY <1>10, <2>1, <2>2 DEF Get, Own
  <2>5. left'[b] \subseteq tmp'[b]
    BY <2>1, <2>2, <2>3
  <2>6. \A x \in tmp'[b] : x[2] = Pkg(b)
    BY <1>10, <2>3 DEF Get
  <2> HIDE DEF Pkg
  <2> QED
    BY <2>3, <2>4, <2>5, <2>6 DEF Own
<1>11. Report(b) => ListsOwn(b)'
  BY DEF Report
<1> QED
  BY <1>1, <1>2, <1>3, <1>4, <1>5, <1>6, <1>7, <1>8, <1>9, <1>10, <1>11
     DEF Step, Disturbed

\* For any number of runs, faults and kills: a package that is reported a success
\* has its own binaries and .changes file in the results.
THEOREM SuccessIsReal == Spec => []SuccessHasResults
<1>1. Init => SuccessInv
  BY TypeInit, NoneAssumption DEF Init, SuccessInv, ListsOwn, SuccessOf, InBuild, Commands
<1>2. SuccessInv /\ [Next]_vars => SuccessInv'
  <2> SUFFICES ASSUME SuccessInv, [Next]_vars PROVE SuccessInv'
    OBVIOUS
  <2>1. TypeInv'
    BY TypeNext DEF SuccessInv
  <2>2. ASSUME NEW b \in Builds, Step(b) \/ Disturbed(b), NEW c \in Builds
        PROVE  ListsOwn(c)' /\ SuccessOf(c)'
    BY <2>2, OneRunMoves, SuccessOwn, SuccessOther DEF SuccessInv
  <2>3. CASE UNCHANGED vars
    BY <2>1, <2>3 DEF SuccessInv, ListsOwn, SuccessOf, Pkg, vars, work, shared
  <2> QED
    BY <2>1, <2>2, <2>3, NextIsARun DEF SuccessInv
<1>3. SuccessInv => SuccessHasResults
  BY DEF SuccessInv, SuccessOf, SuccessHasResults, Own
<1> QED
  BY <1>1, <1>2, <1>3, PTL DEF Spec

-----------------------------------------------------------------------------
(* An exit code of 0 *)

Good(b, k) == report[b][k] = "success" \/ (report[b][k] = "failed" /\ b \in unlisted)

\* main() has accepted and copied the packages before the one it is at; pid 1
\* has only packages that are .dsc files and in the source directory.
Accepted(b) ==
    \A k \in DOMAIN list[b] :
      pc[b] \in InPid1 \/ (pc[b] = "copy" /\ k < i[b])
        => Kind[list[b][k]] = "dsc" /\ list[b][k] \in source

\* A build that lost no process and forked all has left a .changes file, and the listing returns
\* it or could not be made.
HasChanges(b) ==
    b \notin killed \cup unforked =>
      /\ pc[b] \in {"purge", "opendir"} => <<"changes", Pkg(b)>> \in tmp[b]
      /\ pc[b] = "get" => \/ <<"changes", Pkg(b)>> \in left[b]
                          \/ changes[b]
                          \/ b \in unlisted

\* The packages before the one pid 1 is at are done; so are all when it exits 0.
DoneBefore(b) ==
    /\ code[b] # None => pc[b] = "ended"
    /\ b \notin killed \cup unforked =>
         \A k \in DOMAIN list[b] :
           (pc[b] \in AtItem \cup {"next"} /\ k < i[b]) \/ code[b] = 0 => Good(b, k)

ZeroInv ==
    TypeInv /\ \A b \in Builds : Accepted(b) /\ HasChanges(b) /\ DoneBefore(b)

LEMMA ZeroOther ==
  ASSUME NEW c \in Builds, Accepted(c), HasChanges(c), DoneBefore(c), Same(c), Grows
  PROVE  Accepted(c)' /\ HasChanges(c)' /\ DoneBefore(c)'
  BY DEF Accepted, HasChanges, DoneBefore, Good, Same, Grows, Pkg

\* A .src.rpm is never accepted: its end is compared with too few characters.
LEMMA AcceptedOwn ==
  ASSUME TypeInv, NEW b \in Builds, Accepted(b), Step(b) \/ Disturbed(b)
  PROVE  Accepted(b)'
<1>0. Plain /\ Grows
  BY OneRunMoves DEF TypeInv, TypeOK, Plain
<1>1. list' = list /\ DOMAIN list[b] = 1..Len(list[b]) /\ Len(list[b]) \in Nat
  BY <1>0, OnlyReport, ListFacts DEF Plain
<1> USE <1>0, <1>1 DEF Plain, Accepted, Goto, Advance, Exit, InPid1, InBuild, Commands,
                       Pkg, Grows
<1>2. CASE Accept(b)
  BY <1>2 DEF Accept, AtPackage, IsSrcRpm, Compared, SuffixLength
<1>3. CASE Pid1(b)
  BY <1>3 DEF Pid1
<1>4. CASE AcceptFails(b) \/ Reject(b)
  BY <1>4 DEF AcceptFails, Reject
<1>5. ASSUME pc[b] \in InPid1, pc'[b] # "copy" PROVE Accepted(b)'
  BY <1>5
<1>6. ASSUME Task(b) \/ TasksDone(b) \/ TaskKilled(b) \/ NextPackage(b) \/ Mount(b)
      PROVE  pc[b] \in InPid1 /\ pc'[b] # "copy"
  BY <1>6 DEF Task, TasksDone, TaskKilled, NextPackage, Mount
<1>7. ASSUME \/ MountFails(b) \/ CopyOutFails(b) \/ CommandFails(b)
             \/ BuildKilled(b) \/ Pid1Killed(b)
      PROVE  pc[b] \in InPid1 /\ pc'[b] # "copy"
  BY <1>7 DEF MountFails, CopyOutFails, CommandFails, BuildKilled, Pid1Killed
<1>8. ASSUME \/ Extract(b) \/ Depends(b) \/ BuildPackage(b) \/ Purge(b)
             \/ CommandKilled(b)
      PROVE  pc[b] \in InPid1 /\ pc'[b] # "copy"
  BY <1>8 DEF Extract, Depends, BuildPackage, Purge, Command, CommandKilled, After
<1>9. ASSUME OpenDir(b) \/ OpenDirFails(b) \/ Get(b) \/ Report(b)
      PROVE  pc[b] \in InPid1 /\ pc'[b] # "copy"
  BY <1>9 DEF OpenDir, OpenDirFails, Get, Report
<1>10. CASE NotForked(b)
  BY <1>10 DEF NotForked, After
<1>11. CASE ForkThrows(b)
  BY <1>11 DEF ForkThrows
<1> HIDE DEF Accepted, InPid1
<1> QED
  BY <1>2, <1>3, <1>4, <1>5, <1>6, <1>7, <1>8, <1>9, <1>10, <1>11 DEF Step, Disturbed

LEMMA HasChangesOwn ==
  ASSUME TypeInv, NEW b \in Builds, HasChanges(b), Step(b) \/ Disturbed(b)
  PROVE  HasChanges(b)'
<1>0. Plain /\ Grows
  BY OneRunMoves DEF TypeInv, TypeOK, Plain
<1> USE <1>0 DEF Plain, HasChanges, Goto, Advance, Exit, Pkg, Grows
<1>1. CASE \/ Accept(b) \/ AcceptFails(b) \/ Reject(b) \/ Pid1(b) \/ Task(b)
           \/ TasksDone(b) \/ TaskKilled(b)
  BY <1>1 DEF Accept, AcceptFails, Reject, Pid1, Task, TasksDone, TaskKilled
<1>2. CASE NextPackage(b) \/ Mount(b) \/ Report(b)
  BY <1>2 DEF NextPackage, Mount, Report
<1>3. CASE \/ MountFails(b) \/ ForkThrows(b) \/ CopyOutFails(b) \/ CommandFails(b)
           \/ BuildKilled(b) \/ Pid1Killed(b)
  BY <1>3 DEF MountFails, ForkThrows, CopyOutFails, CommandFails, BuildKilled, Pid1Killed
<1>4. CASE Extract(b) \/ Depends(b) \/ Purge(b)
  BY <1>4 DEF Extract, Depends, Purge, Command, After, counts
<1>5. CASE BuildPackage(b)
  BY <1>5 DEF BuildPackage, Command, After
<1>6. CASE CommandKilled(b)
  BY <1>6 DEF CommandKilled, Killed
<1>7. CASE OpenDir(b) \/ OpenDirFails(b)
  BY <1>7 DEF OpenDir, OpenDirFails, counts
<1>8. CASE Get(b)
  <2>1. PICK e \in left[b] :
          /\ left' = [left EXCEPT ![b] = @ \ {e}]
          /\ IF e[1] = "changes"
               THEN /\ changes' = [changes EXCEPT ![b] = TRUE]
                    /\ results' = results \cup {<<"deb", e[2]>>, e}
               ELSE UNCHANGED <<changes, results>>
    BY <1>8 DEF Get
  <2>2. CASE e = <<"changes", Pkg(b)>>
    BY <1>8, <2>1, <2>2 DEF Get
  <2>3. CASE e # <<"changes", Pkg(b)>>
    <3>1. changes[b] => changes'[b]
      BY <1>8, <2>1 DEF Get
    <3>2. <<"changes", Pkg(b)>> \in left[b] => <<"changes", Pkg(b)>> \in left'[b]
      BY <2>1, <2>3
    <3> QED
      BY <1>8, <3>1, <3>2 DEF Get, counts
  <2> QED
    BY <2>2, <2>3
<1>9. CASE NotForked(b)
  BY <1>9 DEF NotForked
<1> HIDE DEF HasChanges
<1> QED
  BY <1>1, <1>2, <1>3, <1>4, <1>5, <1>6, <1>7, <1>8, <1>9 DEF Step, Disturbed

LEMMA DoneBeforeOwn ==
  ASSUME TypeInv, NEW b \in Builds, Accepted(b), HasChanges(b), DoneBefore(b),
         Step(b) \/ Disturbed(b)
  PROVE  DoneBefore(b)'
<1>0. Plain /\ Grows
  BY OneRunMoves DEF TypeInv, TypeOK, Plain
<1>1. list' = list /\ DOMAIN list[b] = 1..Len(list[b]) /\ Len(list[b]) \in Nat
  BY <1>0, OnlyReport, ListFacts DEF Plain
<1>13. code[b] = 0 => pc[b] = "ended"
  BY NoneAssumption DEF DoneBefore
<1> USE <1>0, <1>1, <1>13 DEF Plain, Goto, Advance, Exit, AtItem, InBuild, Commands,
                       DoneBefore, Grows
<1>2. CASE \/ Accept(b) \/ AcceptFails(b) \/ Reject(b) \/ Pid1(b) \/ Task(b)
           \/ TaskKilled(b)
  BY <1>2 DEF Accept, AcceptFails, Reject, Pid1, Task, TaskKilled, AtPackage
<1>3. CASE TasksDone(b)
  BY <1>3 DEF TasksDone
<1>4. CASE NextPackage(b)
  <2>1. i[b] \in DOMAIN list[b] => Kind[Pkg(b)] = "dsc"
    BY <1>4 DEF NextPackage, Accepted, InPid1, Pkg
  <2>2. CASE i[b] > Len(list[b])
    BY <1>4, <2>2 DEF NextPackage, Good, counts
  <2>3. CASE i[b] <= Len(list[b])
    BY <1>4, <2>1, <2>3 DEF NextPackage, Good, counts
  <2> QED
    BY <2>2, <2>3
<1>5. CASE Mount(b)
  BY <1>5 DEF Mount, Good, counts
<1>6. CASE MountFails(b) \/ ForkThrows(b) \/ CopyOutFails(b)
  BY <1>6, CodesAssumption DEF MountFails, ForkThrows, CopyOutFails
<1>7. CASE CommandFails(b)
  BY <1>7, CodesAssumption DEF CommandFails
<1>8. CASE BuildKilled(b) \/ Pid1Killed(b)
  BY <1>8 DEF BuildKilled, Pid1Killed, Killed
<1>9. CASE Extract(b) \/ Depends(b) \/ BuildPackage(b) \/ Purge(b)
  BY <1>9 DEF Extract, Depends, BuildPackage, Purge, Command, After, Good, counts
<1>10. CASE CommandKilled(b)
  BY <1>10 DEF CommandKilled, Killed
<1>11. CASE OpenDir(b) \/ OpenDirFails(b) \/ Get(b)
  BY <1>11 DEF OpenDir, OpenDirFails, Get, Good, counts
<1>12. CASE Report(b)
  <2>1. i[b] \in DOMAIN list[b]
    BY <1>12, HasPackage DEF Report
  <2>2. \A k \in DOMAIN list[b] :
          report'[b][k] = IF k # i[b] THEN report[b][k]
                          ELSE IF changes[b] THEN "success" ELSE "failed"
    BY <1>12, <2>1 DEF Report, TypeInv, TypeOK
  <2>3. b \notin killed \cup unforked => changes[b] \/ b \in unlisted
    BY <1>12 DEF Report, HasChanges
  <2>4. /\ unlisted' = unlisted /\ killed' = killed /\ unforked' = unforked /\ code' = code
        /\ pc'[b] = "next" /\ i'[b] = i[b] + 1 /\ pc[b] = "get"
    BY <1>12 DEF Report, counts
  <2>5. ASSUME NEW k \in DOMAIN list[b], k < i'[b], b \notin killed \cup unforked PROVE Good(b, k)'
    <3>1. CASE k = i[b]
      <4>1. report'[b][k] = IF changes[b] THEN "success" ELSE "failed"
        BY <2>2, <3>1
      <4> QED
        BY <2>3, <2>4, <2>5, <4>1 DEF Good
    <3>2. CASE k < i[b]
      <4>1. Good(b, k)
        BY <2>4, <2>5, <3>2
      <4>2. k # i[b]
        BY <2>1, <3>2
      <4>3. report'[b][k] = report[b][k]
        BY <2>2, <4>2
      <4> QED
        BY <2>4, <4>1, <4>3 DEF Good
    <3> QED
      BY <2>4, <2>5, <3>1, <3>2
  <2> QED
    BY <2>4, <2>5
<1>14. CASE NotForked(b)
  BY <1>14 DEF NotForked, After
<1> HIDE DEF DoneBefore
<1> QED
  BY <1>2, <1>3, <1>4, <1>5, <1>6, <1>7, <1>8, <1>9, <1>10, <1>11, <1>12, <1>14
     DEF Step, Disturbed

LEMMA ZeroInit == Init => ZeroInv
<1> SUFFICES ASSUME Init PROVE ZeroInv
  OBVIOUS
<1>1. \A b \in Builds : DOMAIN list[b] = 1..Len(list[b]) /\ Len(list[b]) \in Nat
  BY ListFacts DEF Init
<1>2. ASSUME NEW b \in Builds
      PROVE  Accepted(b) /\ HasChanges(b) /\ DoneBefore(b)
  <2>1. pc[b] = "copy" /\ i[b] = 1 /\ code[b] = None
    BY DEF Init
  <2>2. \A k \in DOMAIN list[b] : ~(k < i[b])
    BY <1>1, <2>1
  <2>3. None # 0
    BY NoneAssumption
  <2> QED
    BY <2>1, <2>2, <2>3 DEF Accepted, HasChanges, DoneBefore, AtItem, InPid1, InBuild, Commands
<1> QED
  BY <1>2, TypeInit DEF ZeroInv

LEMMA ZeroNext == ZeroInv /\ [Next]_vars => ZeroInv'
<1> SUFFICES ASSUME ZeroInv, [Next]_vars PROVE ZeroInv'
  OBVIOUS
<1>1. TypeInv'
  BY TypeNext DEF ZeroInv
<1>2. ASSUME NEW b \in Builds, Step(b) \/ Disturbed(b), NEW c \in Builds
      PROVE  Accepted(c)' /\ HasChanges(c)' /\ DoneBefore(c)'
  <2>1. CASE c = b
    BY <1>2, <2>1, AcceptedOwn, HasChangesOwn, DoneBeforeOwn DEF ZeroInv
  <2>2. CASE c # b
    BY <1>2, <2>2, OneRunMoves, ZeroOther DEF ZeroInv
  <2> QED
    BY <2>1, <2>2
<1>3. CASE UNCHANGED vars
  BY <1>1, <1>3 DEF ZeroInv, Accepted, HasChanges, DoneBefore, Good, Pkg, vars, work,
                    shared, counts
<1> QED
  BY <1>1, <1>2, <1>3, NextIsARun DEF ZeroInv

\* For any number of runs: one that exits with 0, lost no process and failed to
\* fork none unnoticed has reported on every package, as a success unless it could
\* not list its results.
THEOREM ZeroIsBuilt == Spec => []ZeroMeansBuilt
<1>1. ZeroInv => ZeroMeansBuilt
  BY DEF ZeroInv, DoneBefore, Good, ZeroMeansBuilt
<1> QED
  BY <1>1, ZeroInit, ZeroNext, PTL DEF Spec

-----------------------------------------------------------------------------
(* Dependencies that stay installed *)

\* Run b answers for the installed dependencies of p.
Answers(b, p) ==
    /\ depends[b] /\ Names(b, p)
    /\ \/ pc[b] \in {"build", "purge"} /\ Pkg(b) = p
       \/ code[b] \notin {None, 0}
       \/ b \in killed \cup unforked

\* Only runs with --depends install and purge.
WithDepends(b) == pc[b] \in {"depends", "purge"} => depends[b]

DependsInv == ZeroInv /\ (\A b \in Builds : WithDepends(b)) /\ DependsAccounted

LEMMA WithDependsOwn ==
  ASSUME TypeInv, NEW b \in Builds, WithDepends(b), Step(b) \/ Disturbed(b)
  PROVE  WithDepends(b)'
<1>0. Plain /\ depends' = depends
  BY OnlyReport DEF TypeInv, TypeOK, Plain
<1> USE <1>0 DEF Plain, WithDepends, Goto, Advance, Exit
<1>1. CASE \/ Accept(b) \/ AcceptFails(b) \/ Reject(b) \/ Pid1(b) \/ Task(b)
           \/ TasksDone(b) \/ TaskKilled(b)
  BY <1>1 DEF Accept, AcceptFails, Reject, Pid1, Task, TasksDone, TaskKilled
<1>2. CASE NextPackage(b) \/ Mount(b) \/ Report(b)
  BY <1>2 DEF NextPackage, Mount, Report
<1>3. CASE \/ MountFails(b) \/ ForkThrows(b) \/ CopyOutFails(b) \/ CommandFails(b)
           \/ BuildKilled(b) \/ Pid1Killed(b)
  BY <1>3 DEF MountFails, ForkThrows, CopyOutFails, CommandFails, BuildKilled, Pid1Killed
<1>4. CASE \/ Extract(b) \/ Depends(b) \/ BuildPackage(b) \/ Purge(b)
           \/ CommandKilled(b) \/ NotForked(b)
  BY <1>4 DEF Extract, Depends, BuildPackage, Purge, Command, CommandKilled, NotForked, After,
              Commands
<1>5. CASE OpenDir(b) \/ OpenDirFails(b) \/ Get(b)
  BY <1>5 DEF OpenDir, OpenDirFails, Get
<1> HIDE DEF WithDepends
<1> QED
  BY <1>1, <1>2, <1>3, <1>4, <1>5 DEF Step, Disturbed

\* A run answers for what it answered for, unless it purges it, and for what it
\* installs.
LEMMA AnswersOwn ==
  ASSUME TypeInv, NEW b \in Builds, WithDepends(b), DoneBefore(b),
         Step(b) \/ Disturbed(b),
         NEW p \in installed', p \in installed => Answers(b, p)
  PROVE  Answers(b, p)'
<1>0. Plain /\ Grows /\ list' = list /\ depends' = depends
  BY OneRunMoves, OnlyReport DEF TypeInv, TypeOK, Plain
<1>1. code[b] # None => pc[b] = "ended"
  BY DEF DoneBefore
<1>2. Names(b, p)' <=> Names(b, p)
  BY <1>0 DEF Names
<1>3. pc[b] \in InBuild => Names(b, Pkg(b))
  BY HasPackage DEF AtItem, Names, Pkg
<1> USE <1>0, <1>1, <1>2 DEF Plain, Answers, Goto, Advance, Exit, Pkg, Grows, shared
<1>4. CASE \/ Accept(b) \/ AcceptFails(b) \/ Reject(b) \/ Pid1(b) \/ Task(b)
           \/ TasksDone(b) \/ TaskKilled(b)
  BY <1>4 DEF Accept, AcceptFails, Reject, Pid1, Task, TasksDone, TaskKilled, AtPackage
<1>5. CASE NextPackage(b) \/ Mount(b) \/ Report(b)
  BY <1>5 DEF NextPackage, Mount, Report
<1>6. CASE MountFails(b) \/ ForkThrows(b) \/ CopyOutFails(b)
  BY <1>6, CodesAssumption, NoneAssumption DEF MountFails, ForkThrows, CopyOutFails
<1>7. CASE CommandFails(b)
  BY <1>7, CodesAssumption, NoneAssumption DEF CommandFails
<1>8. CASE BuildKilled(b) \/ Pid1Killed(b)
  BY <1>8 DEF BuildKilled, Pid1Killed, Killed
<1>9. CASE Extract(b) \/ BuildPackage(b)
  BY <1>9 DEF Extract, BuildPackage, Command, After
<1>10. CASE Depends(b)
  BY <1>3, <1>10 DEF Depends, Command, After, WithDepends, InBuild, Commands
<1>11. CASE Purge(b)
  BY <1>11 DEF Purge, Command, After
<1>12. CASE CommandKilled(b)
  BY <1>3, <1>12 DEF CommandKilled, Killed, WithDepends, InBuild, Commands
<1>13. CASE OpenDir(b) \/ OpenDirFails(b) \/ Get(b)
  BY <1>13 DEF OpenDir, OpenDirFails, Get
<1>14. CASE NotForked(b)
  BY <1>14 DEF NotForked
<1> HIDE DEF Answers
<1> QED
  BY <1>4, <1>5, <1>6, <1>7, <1>8, <1>9, <1>10, <1>11, <1>12, <1>13, <1>14
     DEF Step, Disturbed

LEMMA DependsNext == DependsInv /\ [Next]_vars => DependsInv'
<1> SUFFICES ASSUME DependsInv, [Next]_vars PROVE DependsInv'
  OBVIOUS
<1>1. ZeroInv' /\ TypeInv /\ ZeroInv
  BY ZeroNext DEF DependsInv, ZeroInv
<1>2. ASSUME NEW b \in Builds, Step(b) \/ Disturbed(b)
      PROVE  /\ \A c \in Builds : WithDepends(c)'
             /\ \A p \in installed' : \E c \in Builds : Answers(c, p)'
  <2>1. ASSUME NEW c \in Builds PROVE WithDepends(c)'
    <3>1. CASE c = b
      BY <1>1, <1>2, <3>1, WithDependsOwn DEF DependsInv
    <3>2. CASE c # b
      BY <1>1, <1>2, <3>2, OneRunMoves DEF DependsInv, Same, WithDepends
    <3> QED
      BY <3>1, <3>2
  <2>2. ASSUME NEW p \in installed' PROVE \E c \in Builds : Answers(c, p)'
    <3>1. CASE p \notin installed \/ Answers(b, p)
      BY <1>1, <1>2, <2>2, <3>1, AnswersOwn DEF DependsInv, ZeroInv
    <3>2. CASE p \in installed /\ ~Answers(b, p)
      <4>1. PICK c \in Builds : Answers(c, p)
        BY <3>2 DEF DependsInv, DependsAccounted, Answers
      <4>2. Same(c)
        BY <1>1, <1>2, <3>2, <4>1, OneRunMoves
      <4> QED
        BY <4>1, <4>2 DEF Answers, Same, Names, Pkg
    <3> QED
      BY <3>1, <3>2
  <2> QED
    BY <2>1, <2>2
<1>3. CASE UNCHANGED vars
  BY <1>1, <1>3 DEF DependsInv, WithDepends, DependsAccounted, Names, Pkg, vars, shared,
                    counts
<1> QED
  BY <1>1, <1>2, <1>3, NextIsARun DEF DependsInv, DependsAccounted, Answers

\* For any number of runs, faults and kills: dependencies that are installed in
\* the distro belong to a run that is at work on them, failed, or lost a process
\* or failed to fork one.
THEOREM DependsAnswered == Spec => []DependsAccounted
<1>1. Init => DependsInv
  BY ZeroInit DEF Init, DependsInv, WithDepends, DependsAccounted
<1>2. DependsInv => DependsAccounted
  BY DEF DependsInv
<1> QED
  BY <1>1, <1>2, DependsNext, PTL DEF Spec

-----------------------------------------------------------------------------
(* Runs that purge each other's dependencies *)

\* Run c has built p and will report it, or has.
Won(c, p) ==
    \/ pc[c] \in {"opendir", "get"} /\ Pkg(c) = p
    \/ \E k \in DOMAIN list[c] : list[c][k] = p /\ report[c][k] = "success"

Lost(b) == \E c \in Builds \ {b} : Won(c, Pkg(b))

Calm == failed = 0 /\ killed = {}

\* A run with --depends has its sources unpacked, and its dependencies installed
\* unless another run that built the package has purged them.
Contest(b) ==
    /\ pc[b] \in {"depends", "build"} => <<"source", Pkg(b)>> \in tmp[b]
    /\ pc[b] \in {"build", "purge"} /\ depends[b] => Pkg(b) \in installed \/ Lost(b)
    /\ (/\ depends[b] /\ code[b] \in Codes
        /\ Kind[Pkg(b)] = "dsc" /\ Pkg(b) \notin BadDeps) => Lost(b)

NothingUnlisted == failed = 0 => unlisted = {} /\ unforked = {}

ContestInv ==
    /\ ZeroInv /\ NothingUnlisted
    /\ Calm => \A b \in Builds : Contest(b)

LEMMA FailureCodes == None \notin Codes /\ 0 \notin Codes
<1>1. \A c \in Codes : c \in 0..255 /\ c # 0
  BY CodesAssumption
<1> QED
  BY <1>1, NoneAssumption

\* Nothing is disturbed in a step after which nothing has been disturbed.
LEMMA CalmStep ==
  ASSUME TypeInv, NEW b \in Builds, Step(b) \/ Disturbed(b), Calm'
  PROVE  Calm /\ ~Disturbed(b) /\ (CommandFails(b) => Hopeless(b))
<1>0. Plain /\ Grows
  BY OneRunMoves DEF TypeInv, TypeOK, Plain
<1>1. failed \in Nat /\ MaxFaults \in Nat
  BY <1>0, BoundsAssumption DEF Plain
<1>2. ~Fault /\ ~Killed(b)
  BY <1>1 DEF Fault, Killed, Calm
<1>3. ~OpenDirFails(b) /\ ~NotForked(b)
  BY <1>1 DEF OpenDirFails, NotForked, Calm
<1>4. Calm
  BY <1>0, <1>1 DEF Grows, Calm
<1> QED
  BY <1>2, <1>3, <1>4
     DEF Disturbed, AcceptFails, MountFails, ForkThrows, CopyOutFails, CommandKilled, TaskKilled,
         BuildKilled, Pid1Killed, CommandFails

LEMMA UnlistedOwn ==
  ASSUME TypeInv, NothingUnlisted, NEW b \in Builds, Step(b) \/ Disturbed(b)
  PROVE  NothingUnlisted'
<1>0. Plain /\ Grows
  BY OneRunMoves DEF TypeInv, TypeOK, Plain
<1>1. failed \in Nat /\ MaxFaults \in Nat
  BY <1>0, BoundsAssumption DEF Plain
<1>2. CASE OpenDirFails(b) \/ NotForked(b)
  BY <1>1, <1>2 DEF OpenDirFails, NotForked, NothingUnlisted
<1>3. ASSUME \/ Accept(b) \/ Reject(b) \/ Pid1(b) \/ Task(b) \/ TasksDone(b)
             \/ NextPackage(b) \/ Mount(b) \/ Extract(b) \/ Depends(b)
             \/ BuildPackage(b) \/ Purge(b) \/ OpenDir(b) \/ Get(b) \/ Report(b)
      PROVE  unlisted' = unlisted /\ unforked' = unforked
  BY <1>3 DEF Accept, Reject, Pid1, Task, TasksDone, NextPackage, Mount, Extract,
              Depends, BuildPackage, Purge, Command, OpenDir, Get, Report, counts
<1>4. ASSUME \/ AcceptFails(b) \/ MountFails(b) \/ ForkThrows(b) \/ CopyOutFails(b) \/ CommandFails(b)
             \/ CommandKilled(b) \/ TaskKilled(b) \/ BuildKilled(b) \/ Pid1Killed(b)
      PROVE  unlisted' = unlisted /\ unforked' = unforked
  BY <1>4 DEF AcceptFails, MountFails, ForkThrows, CopyOutFails, CommandFails, CommandKilled,
              TaskKilled, BuildKilled, Pid1Killed, Fault, Killed, counts
<1> QED
  BY <1>0, <1>1, <1>2, <1>3, <1>4 DEF Step, Disturbed, NothingUnlisted, Grows

\* What the quiet steps of a run do with its listing.
LEMMA ListingStep ==
  ASSUME TypeInv, NEW b \in Builds, Step(b), pc[b] \in {"opendir", "get"}
  PROVE  \/ pc'[b] = "get" /\ i'[b] = i[b]
         \/ Report(b)
<1> USE DEF TypeInv, TypeOK, Commands
<1>1. ~ (Accept(b) \/ Reject(b) \/ Pid1(b) \/ Task(b) \/ TasksDone(b)
           \/ NextPackage(b) \/ Mount(b))
  BY DEF Accept, Reject, Pid1, Task, TasksDone, NextPackage, Mount, AtPackage
<1>2. ~ (Extract(b) \/ Depends(b) \/ BuildPackage(b) \/ Purge(b) \/ CommandFails(b))
  BY DEF Extract, Depends, BuildPackage, Purge, Command, CommandFails
<1>3. OpenDir(b) \/ Get(b) => pc'[b] = "get" /\ i'[b] = i[b]
  BY DEF OpenDir, Get, Goto
<1> QED
  BY <1>1, <1>2, <1>3 DEF Step

LEMMA WonStays ==
  ASSUME ZeroInv, NothingUnlisted, NEW b \in Builds, Step(b) \/ Disturbed(b), Calm',
         NEW c \in Builds, NEW p, Won(c, p)
  PROVE  Won(c, p)'
<1>1. CASE c # b
  BY <1>1, OneRunMoves DEF ZeroInv, Same, Won, Pkg
<1>2. CASE c = b /\ Report(b)
  <2>1. i[b] \in DOMAIN list[b]
    BY <1>2, HasPackage DEF Report, ZeroInv, AtItem, InBuild
  <2>2. changes[b]
    BY <1>2, CalmStep DEF Report, ZeroInv, HasChanges, NothingUnlisted, Calm
  <2>3. list' = list
    BY <1>2 DEF Report
  <2>4. /\ report'[b][i[b]] = "success"
        /\ \A k \in DOMAIN list[b] : report[b][k] = "success" => report'[b][k] = "success"
    BY <1>2, <2>1, <2>2 DEF Report, ZeroInv, TypeInv, TypeOK
  <2> QED
    BY <1>2, <2>1, <2>3, <2>4 DEF Won, Pkg
<1>3. CASE c = b /\ ~Report(b)
  <2>1. list' = list /\ report' = report /\ Step(b)
    BY <1>3, OnlyReport, CalmStep DEF ZeroInv
  <2>2. pc[b] \in {"opendir", "get"} => pc'[b] = "get" /\ i'[b] = i[b]
    BY <1>3, <2>1, ListingStep DEF ZeroInv
  <2> QED
    BY <1>3, <2>1, <2>2 DEF Won, Pkg
<1> QED
  BY <1>1, <1>2, <1>3

\* Dependencies vanish only when a run that has built their package purges them.
LEMMA PurgedIsWon ==
  ASSUME TypeInv, NEW b \in Builds, Step(b), NEW p \in installed \ installed'
  PROVE  Won(b, p)'
<1>0. Plain
  BY DEF TypeInv, TypeOK, Plain
<1>1. CASE Purge(b)
  <2>1. p = Pkg(b) /\ pc'[b] = "opendir" /\ Pkg(b)' = Pkg(b)
    BY <1>0, <1>1 DEF Plain, Purge, Command, After, Goto, Pkg
  <2> QED
    BY <2>1 DEF Won
<1>2. ~ (Accept(b) \/ Reject(b) \/ Pid1(b) \/ Task(b) \/ TasksDone(b)
           \/ NextPackage(b) \/ Mount(b) \/ CommandFails(b))
  BY DEF Accept, Reject, Pid1, Task, TasksDone, NextPackage, Mount, CommandFails, shared
<1>3. ~ (Extract(b) \/ Depends(b) \/ BuildPackage(b) \/ OpenDir(b) \/ Get(b)
           \/ Report(b))
  BY DEF Extract, Depends, BuildPackage, OpenDir, Get, Report, shared
<1> QED
  BY <1>1, <1>2, <1>3 DEF Step

LEMMA ContestOther ==
  ASSUME ContestInv, NEW b \in Builds, Step(b) \/ Disturbed(b), Calm',
         NEW c \in Builds \ {b}
  PROVE  Contest(c)'
<1>1. Same(c) /\ Calm /\ Step(b) /\ TypeInv /\ ZeroInv
  BY OneRunMoves, CalmStep DEF ContestInv, ZeroInv
<1>2. Pkg(c)' = Pkg(c)
  BY <1>1 DEF Same, Pkg
<1>3. Lost(c) => Lost(c)'
  <2>1. ASSUME NEW d \in Builds \ {c}, Won(d, Pkg(c)) PROVE Won(d, Pkg(c))'
    BY <1>1, <1>2, <2>1, WonStays DEF ContestInv
  <2> QED
    BY <2>1 DEF Lost
<1>4. Pkg(c) \in installed \ installed' => Lost(c)'
  BY <1>1, <1>2, PurgedIsWon DEF Lost
<1> QED
  BY <1>1, <1>2, <1>3, <1>4 DEF ContestInv, Contest, Same

LEMMA ContestOwn ==
  ASSUME ContestInv, NEW b \in Builds, Step(b) \/ Disturbed(b), Calm'
  PROVE  Contest(b)'
<1>1. /\ TypeInv /\ ZeroInv /\ Plain /\ Calm /\ Step(b) /\ Contest(b)
      /\ CommandFails(b) => Hopeless(b)
  BY CalmStep DEF ContestInv, ZeroInv, TypeInv, TypeOK, Plain
<1>2. list' = list /\ depends' = depends
  BY OnlyReport
<1>3. code[b] # None => pc[b] = "ended"
  BY <1>1 DEF ZeroInv, DoneBefore
<1>4. None \notin Codes /\ 0 \notin Codes
  BY FailureCodes
<1>5. Pkg(b)' = Pkg(b) /\ Lost(b) => Lost(b)'
  <2>1. ASSUME Pkg(b)' = Pkg(b), NEW d \in Builds \ {b}, Won(d, Pkg(b))
        PROVE  Won(d, Pkg(b))'
    BY <1>1, <2>1, WonStays DEF ContestInv
  <2> QED
    BY <2>1 DEF Lost
<1> USE <1>1, <1>2, <1>3, <1>4, <1>5 DEF Plain, Contest, Goto, Advance, Exit, Pkg
<1>6. CASE Accept(b) \/ Reject(b) \/ Pid1(b) \/ Task(b) \/ TasksDone(b)
  BY <1>6 DEF Accept, Reject, Pid1, Task, TasksDone, AtPackage
<1>7. CASE NextPackage(b)
  BY <1>7 DEF NextPackage
<1>8. CASE Mount(b)
  BY <1>8 DEF Mount
<1>9. CASE Extract(b)
  BY <1>9 DEF Extract, Command, After
<1>10. CASE Depends(b)
  BY <1>10 DEF Depends, Command, After
<1>11. CASE BuildPackage(b)
  BY <1>11 DEF BuildPackage, Command, After
<1>12. CASE Purge(b)
  BY <1>12 DEF Purge, Command, After
<1>13. CASE CommandFails(b)
  <2>1. pc[b] \in Commands /\ Hopeless(b)
    BY <1>13 DEF Hopeless, Commands
  <2>2. Pkg(b) \in source
    BY <2>1, HasPackage DEF ZeroInv, Accepted, InPid1, InBuild, AtItem
  <2>3. depends[b] => Lost(b)
    BY <2>1, <2>2 DEF Hopeless, Buildable
  <2>4. Pkg(b)' = Pkg(b) /\ pc'[b] = "ended"
    BY <1>13 DEF CommandFails
  <2> QED
    BY <2>3, <2>4
<1>14. CASE OpenDir(b) \/ Get(b) \/ Report(b)
  BY <1>14 DEF OpenDir, Get, Report
<1> HIDE DEF Contest
<1> QED
  BY <1>6, <1>7, <1>8, <1>9, <1>10, <1>11, <1>12, <1>13, <1>14 DEF Step

\* For any number of runs in which nothing fails for outside reasons: a run whose
\* command fails at a package with --depends lost it to a run that built it.
THEOREM LosersHaveWinners == Spec => []LoserHasWinner
<1>1. Init => ContestInv
  <2> SUFFICES ASSUME Init PROVE ContestInv
    OBVIOUS
  <2>1. None \notin Codes
    BY FailureCodes
  <2> QED
    BY <2>1, ZeroInit DEF Init, ContestInv, NothingUnlisted, Contest
<1>2. ContestInv /\ [Next]_vars => ContestInv'
  <2> SUFFICES ASSUME ContestInv, [Next]_vars PROVE ContestInv'
    OBVIOUS
  <2>1. ZeroInv'
    BY ZeroNext DEF ContestInv
  <2>2. ASSUME NEW b \in Builds, Step(b) \/ Disturbed(b)
        PROVE  NothingUnlisted' /\ (Calm' => \A c \in Builds : Contest(c)')
    BY <2>2, UnlistedOwn, ContestOwn, ContestOther DEF ContestInv, ZeroInv
  <2>3. CASE UNCHANGED vars
    BY <2>1, <2>3 DEF ContestInv, NothingUnlisted, Calm, Contest, Lost, Won, Pkg, vars,
                      work, shared, counts
  <2> QED
    BY <2>1, <2>2, <2>3, NextIsARun DEF ContestInv
<1>3. ContestInv => LoserHasWinner
  <2> SUFFICES ASSUME ContestInv, Over, failed = 0, killed = {}, NEW b \in Builds,
                      depends[b], code[b] \in Codes, Kind[Pkg(b)] = "dsc",
                      Pkg(b) \notin BadDeps
               PROVE  \E c \in Builds \ {b} : \E k \in DOMAIN list[c] :
                        list[c][k] = Pkg(b) /\ report[c][k] = "success"
    BY DEF LoserHasWinner
  <2>1. PICK c \in Builds \ {b} : Won(c, Pkg(b))
    BY DEF ContestInv, Calm, Contest, Lost
  <2> QED
    BY <2>1 DEF Won, Over
<1> QED
  BY <1>1, <1>2, <1>3, PTL DEF Spec
=============================================================================
