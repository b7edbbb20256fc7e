-------------------------- MODULE CopyFileProofs --------------------------
(***************************************************************************)
(* Theorems about copy_file and copy_dsc, for any number of copiers, any   *)
(* list of files and any failures.                                         *)
(***************************************************************************)
EXTENDS CopyFile, WellFoundedInduction, TLAPS

\* A copier that writes has opened an inode and has pieces left to write.
Writing == \A c \in Copiers : pc[c] = "write" => /\ fd[c] \in Inodes
                                                 /\ pos[c] < Size

TypeInv == TypeOK /\ Writing

LEMMA FilesFacts == 1 \in Files /\ Files \subseteq Nat /\ Size \in Nat \ {0}
  BY LastAssumption DEF Files

LEMMA TypeInit == Init => TypeInv
  BY FilesFacts, FaultsAssumption DEF Init, TypeInv, TypeOK, Writing, Busy, Ended

\* Going on with the list keeps the types and starts no writing.
LEMMA AdvanceType ==
  ASSUME TypeInv, NEW c \in Copiers, Advance(c)
  PROVE  /\ pc' \in [Copiers -> Busy \cup Ended \cup {"open"}]
         /\ cur' \in [Copiers -> Files]
         /\ \A q \in Copiers : pc'[q] = "write" => pc[q] = "write"
<1>1. CASE cur[c] = Last
  BY <1>1 DEF Advance, TypeInv, TypeOK, Ended
<1>2. CASE cur[c] # Last
  <2>1. cur[c] + 1 \in Files
    BY <1>2, LastAssumption DEF Files, TypeInv, TypeOK
  <2> QED
    BY <1>2, <2>1 DEF Advance, TypeInv, TypeOK
<1> QED
  BY <1>1, <1>2

LEMMA FailType ==
  ASSUME TypeInv, NEW c \in Copiers, Fail(c)
  PROVE  /\ pc' \in [Copiers -> Busy \cup Ended \cup {"open"}]
         /\ cur' \in [Copiers -> Files]
         /\ \A q \in Copiers : pc'[q] = "write" => pc[q] = "write"
<1>1. CASE cur[c] \in Optional
  BY <1>1, AdvanceType DEF Fail
<1>2. CASE cur[c] \notin Optional
  BY <1>2 DEF Fail, TypeInv, TypeOK, Ended
<1> QED
  BY <1>1, <1>2

LEMMA FaultType ==
  ASSUME TypeInv, NEW b, Fault(b) PROVE failed' \in 0..MaxFaults
  BY FaultsAssumption DEF Fault, TypeInv, TypeOK

LEMMA TypeNext == TypeInv /\ [Next]_vars => TypeInv'
<1> SUFFICES ASSUME TypeInv, [Next]_vars PROVE TypeInv'
  OBVIOUS
<1> USE DEF TypeInv
<1>1. ASSUME NEW c \in Copiers, Permissions(c) \/ Kill(c)
      PROVE  TypeInv'
  BY <1>1 DEF Permissions, Kill, Goto, TypeOK, Writing, Busy, Ended, hist
<1>2. ASSUME NEW c \in Copiers, OpenFails(c) PROVE TypeInv'
  BY <1>2, FailType, FaultType DEF OpenFails, TypeOK, Writing, hist
<1>3. ASSUME NEW c \in Copiers, Open(c) PROVE TypeInv'
  <2> DEFINE f == cur[c]
             i == IF tmp[f] = None THEN <<c, f>> ELSE tmp[f]
  <2>1. f \in Files /\ i \in Inodes
    BY DEF TypeOK, Inodes
  <2>2. /\ pc' = [pc EXCEPT ![c] = "write"]
        /\ tmp' = [tmp EXCEPT ![f] = i]
        /\ data' = [data EXCEPT ![i] = {}]
        /\ fd' = [fd EXCEPT ![c] = i]
        /\ pos' = [pos EXCEPT ![c] = 0]
        /\ shared' \in {shared \ {i}, shared \cup {i}} /\ cut' = cut \ {i}
        /\ UNCHANGED <<cur, final, failed>>
    BY <1>3 DEF Open, Goto
  <2> HIDE DEF f, i
  <2>3. TypeOK'
    BY <2>1, <2>2, FilesFacts DEF TypeOK, Busy
  <2>4. Writing'
    BY <2>1, <2>2, FilesFacts DEF TypeOK, Writing
  <2> QED
    BY <2>3, <2>4
<1>4. ASSUME NEW c \in Copiers, Write(c) PROVE TypeInv'
  <2>1. fd[c] \in Inodes /\ pos[c] + 1 \in 0..Size /\ pos[c] + 1 \in Pieces
    BY <1>4, FilesFacts DEF Write, Goto, TypeOK, Writing, Pieces
  <2>2. /\ pc' = [pc EXCEPT ![c] = IF pos[c] + 1 = Size THEN Closed(c) ELSE "write"]
        /\ pos' = [pos EXCEPT ![c] = pos[c] + 1]
        /\ data' = [data EXCEPT ![fd[c]] = data[fd[c]] \cup {pos[c] + 1}]
        /\ UNCHANGED <<cur, fd, tmp, final, failed, shared, cut>>
    BY <1>4 DEF Write, Goto, hist
  <2>3. TypeOK'
    BY <2>1, <2>2 DEF TypeOK, Busy, Closed
  <2>4. Writing'
    BY <2>1, <2>2, FilesFacts DEF TypeOK, Writing, Closed
  <2> QED
    BY <2>3, <2>4
<1>5. ASSUME NEW c \in Copiers, PermissionsFail(c) \/ RenameFails(c)
      PROVE  TypeInv'
  BY <1>5, FaultType
     DEF PermissionsFail, RenameFails, Goto, TypeOK, Writing, Busy, hist
<1>6. ASSUME NEW c \in Copiers, WriteFails(c) PROVE TypeInv'
  <2>1. fd[c] \in Inodes
    BY <1>6 DEF WriteFails, Goto, Writing
  <2> QED
    BY <1>6, <2>1, FaultType DEF WriteFails, Goto, Closed, TypeOK, Writing, Busy
<1>7. ASSUME NEW c \in Copiers, Rename(c) PROVE TypeInv'
  BY <1>7, AdvanceType DEF Rename, TypeOK, Writing, hist
<1>10. ASSUME NEW c \in Copiers, RepoRenameFails(c) PROVE TypeInv'
  BY <1>10, AdvanceType, FaultType DEF RepoRenameFails, TypeOK, Writing, hist
<1>8. ASSUME NEW c \in Copiers, Undo(c) PROVE TypeInv'
  BY <1>8, FailType DEF Undo, TypeOK, Writing, hist
<1>9. CASE UNCHANGED vars
  BY <1>9 DEF vars, TypeOK, Writing, hist
<1> QED
  BY <1>1, <1>2, <1>3, <1>4, <1>5, <1>6, <1>7, <1>8, <1>9, <1>10
     DEF Next, Copy, Finished

\* The variables keep their types: the list is never run over, and nobody
\* writes without an open file or past the end of the content.
THEOREM TypeCorrect == Spec => []TypeOK
<1>1. TypeInv => TypeOK
  BY DEF TypeInv
<1> QED
  BY <1>1, TypeInit, TypeNext, PTL DEF Spec

-----------------------------------------------------------------------------
(* The order of the list *)

\* The files that a copier has left behind in its list are in place.
Passed == \A c \in Copiers, g \in Files : g < cur[c] /\ g \notin Optional
                                            => final[g] # None

OrderInv == TypeInv /\ Passed /\ InOrder

\* A step of c that loses no target and passes no file that is not in place.
LEMMA PassedKept ==
  ASSUME TypeInv, TypeInv', Passed, NEW c \in Copiers,
         \A g \in Files : final[g] # None => final'[g] # None,
         \A q \in Copiers \ {c} : cur'[q] = cur[q],
         \/ cur'[c] = cur[c]
         \/ /\ cur'[c] = cur[c] + 1
            /\ cur[c] \in Optional \/ final'[cur[c]] # None
  PROVE  Passed'
<1>1. \A q \in Copiers : cur[q] \in Nat /\ cur'[q] \in Nat
  BY FilesFacts DEF TypeInv, TypeOK
<1>2. ASSUME NEW q \in Copiers, NEW g \in Files, g < cur'[q], g \notin Optional
      PROVE  final'[g] # None
  <2>1. CASE g < cur[q]
    BY <1>2, <2>1 DEF Passed
  <2>2. CASE ~(g < cur[q])
    <3>1. q = c /\ cur'[c] = cur[c] + 1
      <4>1. cur'[q] # cur[q]
        BY <1>2, <2>2
      <4> QED
        BY <4>1
    <3>2. g = cur[c]
      BY <1>1, <1>2, <2>2, <3>1, FilesFacts
    <3>3. cur[c] \in Optional \/ final'[cur[c]] # None
      BY <1>1, <3>1
    <3> QED
      BY <1>2, <3>2, <3>3
  <2> QED
    BY <2>1, <2>2
<1> QED
  BY <1>2 DEF Passed

LEMMA AdvanceCur ==
  ASSUME TypeInv, NEW c \in Copiers, Advance(c)
  PROVE  /\ \A q \in Copiers \ {c} : cur'[q] = cur[q]
         /\ cur'[c] = cur[c] \/ cur'[c] = cur[c] + 1
  BY DEF Advance, TypeInv, TypeOK

LEMMA FailCur ==
  ASSUME TypeInv, NEW c \in Copiers, Fail(c)
  PROVE  /\ \A q \in Copiers \ {c} : cur'[q] = cur[q]
         /\ \/ cur'[c] = cur[c]
            \/ cur'[c] = cur[c] + 1 /\ cur[c] \in Optional
  BY AdvanceCur DEF Fail, TypeInv, TypeOK

LEMMA OrderNext == OrderInv /\ [Next]_vars => OrderInv'
<1> SUFFICES ASSUME OrderInv, [Next]_vars PROVE OrderInv'
  OBVIOUS
<1> USE DEF OrderInv
<1>0. TypeInv'
  BY TypeNext
<1>1. CASE UNCHANGED <<cur, final>>
  BY <1>0, <1>1 DEF Passed, InOrder
<1>2. ASSUME NEW c \in Copiers, OpenFails(c) \/ Undo(c) \/ RepoRenameFails(c)
      PROVE  OrderInv'
  <2>1. final' = final /\ Fail(c)
    BY <1>2, FilesAssumption DEF OpenFails, Undo, RepoRenameFails, Fail
  <2>2. Passed'
    BY <1>0, <2>1, FailCur, PassedKept
  <2> QED
    BY <1>0, <2>1, <2>2 DEF InOrder
<1>3. ASSUME NEW c \in Copiers, Rename(c) PROVE OrderInv'
  <2>1. /\ Advance(c) /\ tmp[cur[c]] # None /\ cur[c] \in Files
        /\ final' = [final EXCEPT ![cur[c]] = tmp[cur[c]]]
    BY <1>3 DEF Rename, TypeInv, TypeOK
  <2>2. /\ \A g \in Files : final[g] # None => final'[g] # None
        /\ final'[cur[c]] # None
    BY <2>1 DEF TypeInv, TypeOK
  <2>3. Passed'
    BY <1>0, <2>1, <2>2, AdvanceCur, PassedKept
  <2>4. ASSUME NEW f \in Files, NEW g \in Files, g < f, final'[f] # None,
               g \notin Optional
        PROVE  final'[g] # None
    <3>1. CASE f = cur[c]
      BY <2>2, <2>4, <3>1 DEF Passed
    <3>2. CASE f # cur[c]
      <4>1. final[f] # None
        BY <2>1, <2>4, <3>2 DEF TypeInv, TypeOK
      <4> QED
        BY <2>2, <2>4, <4>1 DEF InOrder
    <3> QED
      BY <3>1, <3>2
  <2> QED
    BY <1>0, <2>3, <2>4 DEF InOrder
<1> QED
  BY <1>1, <1>2, <1>3
     DEF Next, Copy, Finished, vars, Open, Write, WriteFails,
         Permissions, PermissionsFail, RenameFails, Kill

\* However many copiers race on however long a list, and whatever fails, a
\* .dsc or .changes is in the target only with all the files it names.
THEOREM DscComesLast == Spec => []InOrder
<1>1. Init => OrderInv
  <2> SUFFICES ASSUME Init PROVE OrderInv
    OBVIOUS
  <2>1. TypeInv
    BY TypeInit
  <2>2. Passed
    BY LastAssumption DEF Init, Passed, Files
  <2>3. InOrder
    BY DEF Init, InOrder
  <2> QED
    BY <2>1, <2>2, <2>3 DEF OrderInv
<1>2. OrderInv => InOrder
  BY DEF OrderInv
<1> QED
  BY <1>1, <1>2, OrderNext, PTL DEF Spec

-----------------------------------------------------------------------------
(* Temporary files *)

\* Without kills a temporary file has a copier that is at work on it, or is that
\* of the repository file after a failure.
Tended ==
    Unharmed => \A f \in Files : tmp[f] # None =>
      \/ f \in Repo /\ failed > 0
      \/ \E c \in Copiers : pc[c] \in Busy /\ cur[c] = f

\* Where a copier goes from a file: to the next one, or out.
LEMMA Leaves ==
  ASSUME TypeInv, NEW c \in Copiers, Advance(c) \/ Fail(c)
  PROVE  /\ \A q \in Copiers \ {c} : pc'[q] = pc[q] /\ cur'[q] = cur[q]
         /\ \/ pc'[c] = "open" /\ cur'[c] = cur[c] + 1
            \/ /\ pc'[c] \in {"true", "false"} /\ cur'[c] = cur[c]
               /\ pc'[c] = "true" => cur[c] = Last
               /\ Advance(c) => pc'[c] = "true"
         /\ pc'[c] \notin Busy
  BY DEF Advance, Fail, TypeInv, TypeOK, Busy

LEMMA HarmStays ==
  ASSUME TypeInv, [Next]_vars, Unharmed' PROVE Unharmed
<1> USE DEF TypeInv, TypeOK, Unharmed, Goto
<1>1. ASSUME NEW c \in Copiers, OpenFails(c) \/ Undo(c) PROVE Unharmed
  BY <1>1, Leaves DEF OpenFails, Undo
<1>2. ASSUME NEW c \in Copiers, Rename(c) \/ RepoRenameFails(c) PROVE Unharmed
  BY <1>2, Leaves DEF Rename, RepoRenameFails
<1>3. ASSUME NEW c \in Copiers,
             \/ Open(c) \/ Write(c) \/ WriteFails(c) \/ Permissions(c)
             \/ PermissionsFail(c) \/ RenameFails(c)
      PROVE  Unharmed
  BY <1>3 DEF Open, Write, WriteFails, Permissions, PermissionsFail, RenameFails
<1>4. ASSUME NEW c \in Copiers, Kill(c) PROVE Unharmed
  BY <1>4 DEF Kill
<1>5. CASE UNCHANGED vars
  BY <1>5 DEF vars
<1> QED
  BY <1>1, <1>2, <1>3, <1>4, <1>5 DEF Next, Copy, Finished

LEMMA FaultCounts ==
  ASSUME TypeInv, NEW must, Fault(must)
  PROVE  failed' \in Nat /\ (failed > 0 => failed' > 0) /\ (~must => failed' > 0)
  BY FaultsAssumption DEF Fault, TypeInv, TypeOK

LEMMA TendedNext == ASSUME TypeInv, Tended, [Next]_vars PROVE Tended'
<1> SUFFICES ASSUME Unharmed', NEW f \in Files, tmp'[f] # None
             PROVE  \/ f \in Repo /\ failed' > 0
                    \/ \E c \in Copiers : pc'[c] \in Busy /\ cur'[c] = f
  BY DEF Tended
<1> DEFINE Goal == \/ f \in Repo /\ failed' > 0
                   \/ \E c \in Copiers : pc'[c] \in Busy /\ cur'[c] = f
<1>0. Unharmed /\ failed \in Nat
  BY HarmStays, FaultsAssumption DEF TypeInv, TypeOK
<1> USE <1>0 DEF TypeInv, TypeOK, Tended, Goto
<1>1. ASSUME NEW c \in Copiers, OpenFails(c) PROVE Goal
  BY <1>1, Leaves, FaultCounts DEF OpenFails, Busy
<1>2. ASSUME NEW c \in Copiers, Undo(c) PROVE Goal
  BY <1>2, Leaves DEF Undo
<1>3. ASSUME NEW c \in Copiers, Rename(c) PROVE Goal
  BY <1>3, Leaves DEF Rename
<1>4. ASSUME NEW c \in Copiers, RepoRenameFails(c) PROVE Goal
  <2>1. /\ failed > 0 => failed' > 0
        /\ tmp[cur[c]] # None => failed' > 0
    BY <1>4, FaultCounts DEF RepoRenameFails
  <2>2. \A q \in Copiers \ {c} : pc'[q] = pc[q] /\ cur'[q] = cur[q]
    BY <1>4, Leaves DEF RepoRenameFails
  <2> QED
    BY <1>4, <2>1, <2>2 DEF RepoRenameFails
<1>5. ASSUME NEW c \in Copiers, Open(c) PROVE Goal
  BY <1>5 DEF Open, Busy
<1>6. ASSUME NEW c \in Copiers, Write(c) \/ Permissions(c) PROVE Goal
  BY <1>6 DEF Write, Closed, Permissions, Busy
<1>7. ASSUME NEW c \in Copiers, WriteFails(c) \/ PermissionsFail(c) \/ RenameFails(c)
      PROVE  Goal
  <2>1. /\ \A q \in Copiers : pc[q] \in Busy => pc'[q] \in Busy
        /\ cur' = cur /\ tmp' = tmp
    BY <1>7 DEF WriteFails, Closed, PermissionsFail, RenameFails, Busy
  <2>2. failed > 0 => failed' > 0
    BY <1>7, FaultCounts DEF WriteFails, PermissionsFail, RenameFails
  <2> QED
    BY <2>1, <2>2
<1>8. ASSUME NEW c \in Copiers, Kill(c) PROVE Goal
  BY <1>8 DEF Kill, Unharmed
<1>9. CASE UNCHANGED vars
  BY <1>9 DEF vars
<1> QED
  BY <1>1, <1>2, <1>3, <1>4, <1>5, <1>6, <1>7, <1>8, <1>9 DEF Next, Copy, Finished

\* However many copiers race and whatever fails: when all have ended and none was
\* killed no temporary file is left, but for the repository file after a failure.
THEOREM TmpIsRemoved == Spec => []NoTmpLeft
<1> DEFINE Inv == TypeInv /\ Tended
<1>1. Init => Inv
  BY TypeInit DEF Init, Tended
<1>2. Inv /\ [Next]_vars => Inv'
  BY TypeNext, TendedNext
<1>3. Inv => NoTmpLeft
  BY DEF Tended, NoTmpLeft, Over, Ended, Busy
<1> QED
  BY <1>1, <1>2, <1>3, PTL DEF Spec
-----------------------------------------------------------------------------
(* Partial contents *)

\* The inode c would create for file f exists only once c has opened f, every
\* inode stays with its file, and no inode has both names.
OneFileEach ==
    /\ \A f \in Files : tmp[f] # None => tmp[f][2] = f /\ tmp[f] # final[f]
    /\ \A f \in Files : final[f] # None => final[f][2] = f
    /\ \A c \in Copiers : pc[c] \in Busy => fd[c] \in Inodes /\ fd[c][2] = cur[c]

NotYetOpened(c, f) == cur[c] < f \/ (cur[c] = f /\ pc[c] = "open")

Fresh ==
    \A c \in Copiers, f \in Files : NotYetOpened(c, f) =>
      /\ tmp[f] # <<c, f>> /\ final[f] # <<c, f>>
      /\ \A q \in Copiers : pc[q] \in Busy => fd[q] # <<c, f>>

\* A busy copier's inode has the temporary name, or both the inode and what has
\* the name by now were opened while two copiers were busy with the file; so it
\* is while two are.
NameOrShared ==
    \A c \in Copiers : pc[c] \in Busy =>
      \/ tmp[cur[c]] = fd[c]
      \/ fd[c] \in shared /\ tmp[cur[c]] \in shared \cup {None}

TwoShare ==
    \A c, q \in Copiers :
      c # q /\ pc[c] \in Busy /\ pc[q] \in Busy /\ cur[c] = cur[q] => fd[c] \in shared

\* What a copier has written alone is there.
Whole(i) == i \in shared \cup cut \/ data[i] = Pieces

WrittenAlone ==
    /\ \A c \in Copiers :
         /\ pc[c] = "write" => fd[c] \in shared \cup cut \/ data[fd[c]] = 1..pos[c]
         /\ pc[c] \in {"chmod", "rename"} => Whole(fd[c])
    /\ \A f \in Files : final[f] # None => Whole(final[f])

PartialInv ==
    TypeInv /\ OneFileEach /\ Fresh /\ NameOrShared /\ TwoShare /\ WrittenAlone

LEMMA PartialInit == Init => PartialInv
<1> SUFFICES ASSUME Init PROVE PartialInv
  OBVIOUS
<1>1. \A c \in Copiers, f \in Files : <<c, f>> # None
  BY CopiersAssumption DEF Inodes
<1> QED
  BY <1>1, TypeInit
     DEF Init, PartialInv, OneFileEach, Fresh, NameOrShared, TwoShare, WrittenAlone, Busy

\* Nobody returns to a file.
LEMMA NoReturn ==
  ASSUME TypeInv, [Next]_vars, NEW c \in Copiers, NEW f \in Files, NotYetOpened(c, f)'
  PROVE  NotYetOpened(c, f)
<1>0. \A q \in Copiers : cur[q] \in Nat
  BY FilesFacts DEF TypeInv, TypeOK
<1>1. f \in Nat
  BY FilesFacts
<1> USE <1>0, <1>1 DEF NotYetOpened, Goto
<1>2. ASSUME NEW q \in Copiers, Advance(q) \/ Fail(q) PROVE NotYetOpened(c, f)
  <2>1. CASE c = q
    <3>1. \/ pc'[c] = "open" /\ cur'[c] = cur[c] + 1
          \/ pc'[c] # "open" /\ cur'[c] = cur[c]
      BY <1>2, <2>1, Leaves
    <3> QED
      BY <3>1
  <2>2. CASE c # q
    BY <1>2, <2>2, Leaves
  <2> QED
    BY <2>1, <2>2
<1>3. ASSUME NEW q \in Copiers,
             \/ Open(q) \/ Write(q) \/ WriteFails(q) \/ Permissions(q)
             \/ PermissionsFail(q) \/ RenameFails(q) \/ Kill(q)
      PROVE  NotYetOpened(c, f)
  BY <1>3 DEF Open, Write, Closed, WriteFails, Permissions, PermissionsFail,
              RenameFails, Kill, TypeInv, TypeOK
<1>4. CASE UNCHANGED vars
  BY <1>4 DEF vars
<1> QED
  BY <1>2, <1>3, <1>4 DEF Next, Copy, Finished, OpenFails, Undo, Rename, RepoRenameFails

\* Steps of c after which c is not at work, and nothing is renamed or written.
LEMMA PartialGivesUp ==
  ASSUME PartialInv, TypeInv', [Next]_vars, NEW c \in Copiers,
         pc'[c] \notin Busy,
         \A q \in Copiers \ {c} : pc'[q] = pc[q] /\ cur'[q] = cur[q],
         UNCHANGED <<fd, pos, tmp, final, data, shared, cut>>
  PROVE  PartialInv'
<1>1. Fresh'
  BY NoReturn DEF PartialInv, Fresh
<1>2. OneFileEach' /\ NameOrShared' /\ TwoShare'
  BY DEF PartialInv, OneFileEach, NameOrShared, TwoShare
<1>3. WrittenAlone'
  BY DEF PartialInv, WrittenAlone, Whole, Busy
<1> QED
  BY <1>1, <1>2, <1>3 DEF PartialInv

\* Steps of c within the work on its file that write nothing.
LEMMA PartialGoesOn ==
  ASSUME PartialInv, TypeInv', [Next]_vars, NEW c \in Copiers,
         pc[c] \in Busy, pc'[c] \in {"rename", "undo"}, pc[c] # "undo",
         pc'[c] = "rename" => pc[c] = "chmod",
         \A q \in Copiers \ {c} : pc'[q] = pc[q],
         UNCHANGED <<cur, fd, pos, tmp, final, data, shared, cut>>
  PROVE  PartialInv'
<1>1. Fresh'
  BY NoReturn DEF PartialInv, Fresh, Busy
<1>2. OneFileEach' /\ NameOrShared' /\ TwoShare'
  BY DEF PartialInv, OneFileEach, NameOrShared, TwoShare, Busy
<1>3. WrittenAlone'
  BY DEF PartialInv, WrittenAlone, Whole
<1> QED
  BY <1>1, <1>2, <1>3 DEF PartialInv

\* Two copiers that write to one inode share it.
LEMMA OneWriter ==
  ASSUME PartialInv, NEW c \in Copiers, NEW q \in Copiers, c # q,
         pc[c] \in Busy, pc[q] \in Busy, fd[c] = fd[q]
  PROVE  fd[c] \in shared
  BY DEF PartialInv, OneFileEach, TwoShare

LEMMA PartialWrite ==
  ASSUME PartialInv, TypeInv', [Next]_vars, NEW c \in Copiers, Write(c)
  PROVE  PartialInv'
<1>1. /\ pc[c] = "write" /\ pc' = [pc EXCEPT ![c] = IF pos[c] + 1 = Size THEN Closed(c)
                                                                     ELSE "write"]
      /\ pos' = [pos EXCEPT ![c] = pos[c] + 1]
      /\ data' = [data EXCEPT ![fd[c]] = data[fd[c]] \cup {pos[c] + 1}]
      /\ UNCHANGED <<cur, fd, tmp, final, shared, cut>>
  BY DEF Write, Goto, hist
<1>2. pc'[c] \in Busy /\ \A q \in Copiers \ {c} : pc'[q] = pc[q]
  BY <1>1 DEF Closed, Busy, PartialInv, TypeInv, TypeOK
<1>3. Fresh'
  BY <1>1, <1>2, NoReturn DEF PartialInv, Fresh, Busy
<1>4. OneFileEach' /\ NameOrShared' /\ TwoShare'
  BY <1>1, <1>2 DEF PartialInv, OneFileEach, NameOrShared, TwoShare, Busy
<1>5. fd[c] \in Inodes /\ pos[c] \in Nat /\ pos[c] + 1 \in Pieces
  BY <1>1, FilesFacts DEF PartialInv, TypeInv, TypeOK, Writing, Pieces
<1>6. ASSUME NEW i \in Inodes, Whole(i) PROVE Whole(i)'
  BY <1>1, <1>5, <1>6 DEF Whole, PartialInv, TypeInv, TypeOK
<1>7. fd[c] \in shared \cup cut \/ data'[fd[c]] = 1..(pos[c] + 1)
  <2>1. CASE data[fd[c]] = 1..pos[c]
    BY <1>1, <1>5, <2>1 DEF PartialInv, TypeInv, TypeOK
  <2> QED
    BY <1>1, <2>1 DEF PartialInv, WrittenAlone
<1>8. ASSUME NEW q \in Copiers \ {c}, pc[q] = "write"
      PROVE  fd[q] \in shared \cup cut \/ data'[fd[q]] = 1..pos[q]
  <2>1. CASE fd[q] = fd[c]
    BY <1>1, <1>8, <2>1, OneWriter DEF Busy
  <2>2. CASE fd[q] # fd[c]
    BY <1>1, <1>8, <2>2 DEF PartialInv, TypeInv, TypeOK, Writing, WrittenAlone
  <2> QED
    BY <2>1, <2>2
<1>9. WrittenAlone'
  <2>1. ASSUME NEW q \in Copiers, pc'[q] = "write"
        PROVE  fd[q] \in shared \cup cut \/ data'[fd[q]] = 1..pos'[q]
    BY <1>1, <1>7, <1>8, <2>1 DEF PartialInv, TypeInv, TypeOK
  <2>2. ASSUME NEW q \in Copiers, pc'[q] \in {"chmod", "rename"} PROVE Whole(fd[q])'
    <3>1. CASE q = c
      <4>1. pos[c] + 1 = Size
        BY <1>1, <2>2, <3>1 DEF PartialInv, TypeInv, TypeOK
      <4> QED
        BY <1>1, <1>7, <3>1, <4>1 DEF Whole, Pieces
    <3>2. CASE q # c
      BY <1>1, <1>2, <1>6, <2>2, <3>2 DEF PartialInv, WrittenAlone, OneFileEach, Busy
    <3> QED
      BY <3>1, <3>2
  <2>3. ASSUME NEW f \in Files, final'[f] # None PROVE Whole(final[f])'
    BY <1>1, <1>6, <2>3 DEF PartialInv, WrittenAlone, TypeInv, TypeOK
  <2> QED
    BY <1>1, <2>1, <2>2, <2>3 DEF WrittenAlone, Whole
<1> QED
  BY <1>3, <1>4, <1>9 DEF PartialInv

LEMMA PartialWriteFails ==
  ASSUME PartialInv, TypeInv', [Next]_vars, NEW c \in Copiers, WriteFails(c)
  PROVE  PartialInv'
<1>1. /\ pc[c] = "write" /\ pc' = [pc EXCEPT ![c] = Closed(c)]
      /\ cut' = cut \cup {fd[c]}
      /\ UNCHANGED <<cur, fd, pos, tmp, final, data, shared>>
  BY DEF WriteFails, Goto
<1>2. /\ pc'[c] \in {"chmod", "rename"}
      /\ \A q \in Copiers \ {c} : pc'[q] = pc[q]
  BY <1>1 DEF Closed, PartialInv, TypeInv, TypeOK
<1>3. Fresh'
  BY <1>1, <1>2, NoReturn DEF PartialInv, Fresh, Busy
<1>4. OneFileEach' /\ NameOrShared' /\ TwoShare'
  BY <1>1, <1>2 DEF PartialInv, OneFileEach, NameOrShared, TwoShare, Busy
<1>5. WrittenAlone'
  BY <1>1, <1>2 DEF PartialInv, WrittenAlone, Whole
<1> QED
  BY <1>3, <1>4, <1>5 DEF PartialInv

LEMMA PartialOpen ==
  ASSUME PartialInv, TypeInv', [Next]_vars, NEW c \in Copiers, Open(c)
  PROVE  PartialInv'
<1> DEFINE f == cur[c]
           i == IF tmp[f] = None THEN <<c, f>> ELSE tmp[f]
           others == {q \in Copiers \ {c} : pc[q] \in Busy /\ cur[q] = f}
<1>1. /\ pc[c] = "open" /\ pc' = [pc EXCEPT ![c] = "write"]
      /\ tmp' = [tmp EXCEPT ![f] = i]
      /\ data' = [data EXCEPT ![i] = {}]
      /\ fd' = [fd EXCEPT ![c] = i]
      /\ pos' = [pos EXCEPT ![c] = 0]
      /\ shared' = IF others = {} THEN shared \ {i} ELSE shared \cup {i}
      /\ cut' = cut \ {i}
      /\ UNCHANGED <<cur, final>>
  BY DEF Open, Goto
<1>2. f \in Files /\ i \in Inodes /\ i[2] = f /\ i # None
  BY CopiersAssumption DEF PartialInv, TypeInv, TypeOK, OneFileEach, Inodes
<1>3. NotYetOpened(c, f)
  BY <1>1 DEF NotYetOpened
\* The inode has no target name, and whoever has it open is one of the others.
<1>4. final[f] # i
  BY <1>2, <1>3 DEF PartialInv, OneFileEach, Fresh
<1>5. ASSUME NEW q \in Copiers \ {c}, pc[q] \in Busy, fd[q] = i
      PROVE  q \in others
  BY <1>2, <1>5 DEF PartialInv, OneFileEach
<1>6. /\ \A q \in Copiers \ {c} : pc'[q] = pc[q] /\ fd'[q] = fd[q] /\ pos'[q] = pos[q]
      /\ pc'[c] = "write" /\ fd'[c] = i /\ pos'[c] = 0
      /\ tmp'[f] = i /\ \A g \in Files \ {f} : tmp'[g] = tmp[g]
      /\ data'[i] = {} /\ \A j \in Inodes \ {i} : data'[j] = data[j]
  BY <1>1, <1>2 DEF PartialInv, TypeInv, TypeOK
<1>7. /\ \A j : j # i => (j \in shared' <=> j \in shared) /\ (j \in cut' <=> j \in cut)
      /\ others # {} => i \in shared'
      /\ i \notin cut'
  BY <1>1
<1> HIDE DEF i
<1>8. OneFileEach'
  BY <1>1, <1>2, <1>4, <1>6 DEF PartialInv, OneFileEach
<1>9. Fresh'
  <2>1. ASSUME NEW q \in Copiers, NEW g \in Files, NotYetOpened(q, g)'
        PROVE  <<q, g>> # i
    <3>1. NotYetOpened(q, g)
      BY <2>1, NoReturn DEF PartialInv
    <3>2. CASE tmp[f] # None
      BY <1>2, <3>1, <3>2 DEF i, PartialInv, Fresh, OneFileEach
    <3>3. CASE tmp[f] = None
      <4>1. cur'[c] = f /\ f \in Nat /\ pc'[c] = "write"
        BY <1>1, <1>2, <1>6, FilesFacts
      <4>2. <<q, g>> # <<c, f>>
        BY <2>1, <4>1 DEF NotYetOpened
      <4> QED
        BY <3>3, <4>2 DEF i
    <3> QED
      BY <3>2, <3>3
  <2>2. ASSUME NEW q \in Copiers, NEW g \in Files, NotYetOpened(q, g)'
        PROVE  /\ tmp'[g] # <<q, g>> /\ final'[g] # <<q, g>>
               /\ \A r \in Copiers : pc'[r] \in Busy => fd'[r] # <<q, g>>
    <3>1. NotYetOpened(q, g)
      BY <2>2, NoReturn DEF PartialInv
    <3>2. <<q, g>> # i
      BY <2>1, <2>2
    <3>3. /\ tmp[g] # <<q, g>> /\ final[g] # <<q, g>>
          /\ \A r \in Copiers : pc[r] \in Busy => fd[r] # <<q, g>>
      BY <3>1 DEF PartialInv, Fresh
    <3>4. tmp'[g] \in {tmp[g], i} /\ final' = final
      BY <1>1, <1>6
    <3>5. ASSUME NEW r \in Copiers, pc'[r] \in Busy PROVE fd'[r] # <<q, g>>
      BY <1>6, <3>2, <3>3, <3>5
    <3> QED
      BY <3>2, <3>3, <3>4, <3>5
  <2> QED
    BY <2>2 DEF Fresh
<1>10. NameOrShared'
  <2>1. ASSUME NEW q \in Copiers \ {c}, pc[q] \in Busy
        PROVE  \/ tmp'[cur[q]] = fd[q]
               \/ fd[q] \in shared' /\ tmp'[cur[q]] \in shared' \cup {None}
    <3>1. CASE cur[q] = f
      <4>1. i \in shared'
        BY <1>7, <2>1, <3>1
      <4>2. fd[q] = i \/ fd[q] \in shared
        <5>1. fd[q] \in Inodes /\ fd[q] # None
          BY <2>1, CopiersAssumption DEF PartialInv, OneFileEach
        <5> QED
          BY <2>1, <3>1, <5>1 DEF i, PartialInv, NameOrShared
      <4> QED
        BY <1>6, <1>7, <3>1, <4>1, <4>2
    <3>2. CASE cur[q] # f
      <4>1. fd[q] # i /\ cur[q] \in Files
        BY <1>2, <2>1, <3>2 DEF PartialInv, OneFileEach, TypeInv, TypeOK
      <4>2. tmp[cur[q]] # i
        BY <1>2, <3>2, <4>1 DEF PartialInv, OneFileEach
      <4> QED
        BY <1>6, <1>7, <2>1, <3>2, <4>1, <4>2 DEF PartialInv, NameOrShared
    <3> QED
      BY <3>1, <3>2
  <2> QED
    BY <1>1, <1>6, <2>1 DEF NameOrShared
<1>11. TwoShare'
  <2>1. ASSUME NEW q \in Copiers, NEW r \in Copiers, q # r, pc'[q] \in Busy,
               pc'[r] \in Busy, cur[q] = cur[r]
        PROVE  fd'[q] \in shared'
    <3>1. CASE q = c
      <4>1. r \in others
        BY <1>6, <2>1, <3>1
      <4> QED
        BY <1>6, <1>7, <3>1, <4>1
    <3>2. CASE r = c
      <4>1. q \in others
        BY <1>6, <2>1, <3>2
      <4>2. fd[q] = i \/ fd[q] \in shared
        <5>1. fd[q] \in Inodes /\ fd[q] # None
          BY <4>1, CopiersAssumption DEF PartialInv, OneFileEach
        <5> QED
          BY <4>1, <5>1 DEF i, PartialInv, NameOrShared
      <4> QED
        BY <1>6, <1>7, <4>1, <4>2
    <3>3. CASE q # c /\ r # c
      <4>1. fd[q] \in shared /\ pc[q] \in Busy
        BY <1>6, <2>1, <3>3 DEF PartialInv, TwoShare
      <4> QED
        BY <1>5, <1>6, <1>7, <3>3, <4>1
    <3> QED
      BY <3>1, <3>2, <3>3
  <2> QED
    BY <1>1, <2>1 DEF TwoShare
<1>12. WrittenAlone'
  <2>1. ASSUME NEW j \in Inodes \ {i}, Whole(j) PROVE Whole(j)'
    BY <1>6, <1>7, <2>1 DEF Whole
  <2>2. ASSUME NEW q \in Copiers \ {c}, pc[q] = "write"
        PROVE  fd[q] \in shared' \cup cut' \/ data'[fd[q]] = 1..pos[q]
    <3>1. CASE fd[q] = i
      BY <1>5, <1>7, <2>2, <3>1 DEF Busy
    <3>2. CASE fd[q] # i
      BY <1>6, <1>7, <2>2, <3>2 DEF PartialInv, WrittenAlone, OneFileEach, Busy
    <3> QED
      BY <3>1, <3>2
  <2>3. ASSUME NEW q \in Copiers \ {c}, pc[q] \in {"chmod", "rename"}
        PROVE  Whole(fd[q])'
    <3>0. pc[q] \in Busy /\ fd[q] \in Inodes
      BY <2>3 DEF Busy, PartialInv, OneFileEach
    <3>1. CASE fd[q] = i
      BY <1>5, <1>6, <1>7, <3>0, <3>1 DEF Whole
    <3>2. CASE fd[q] # i
      BY <1>6, <2>1, <2>3, <3>0, <3>2 DEF PartialInv, WrittenAlone, Whole
    <3> QED
      BY <3>1, <3>2
  <2>4. ASSUME NEW g \in Files, final[g] # None PROVE Whole(final[g])'
    <3>1. final[g] \in Inodes /\ final[g] # i
      BY <1>2, <1>4, <2>4 DEF PartialInv, OneFileEach, TypeInv, TypeOK
    <3> QED
      BY <1>1, <2>1, <2>4, <3>1 DEF PartialInv, WrittenAlone, Whole
  <2>5. data'[fd'[c]] = 1..pos'[c] /\ pc'[c] = "write"
    BY <1>6
  <2> QED
    BY <1>1, <1>6, <2>2, <2>3, <2>4, <2>5 DEF WrittenAlone, Whole
<1> QED
  BY <1>8, <1>9, <1>10, <1>11, <1>12 DEF PartialInv

\* The name that c renames or removes is that of its own inode, or the inode of
\* everybody at work on the file was shared.
LEMMA PartialRename ==
  ASSUME PartialInv, TypeInv', [Next]_vars, NEW c \in Copiers, Rename(c) \/ Undo(c)
  PROVE  PartialInv'
<1> DEFINE f == cur[c]
<1>1. /\ pc[c] \in {"rename", "undo"} /\ f \in Files
      /\ tmp' = [tmp EXCEPT ![f] = None]
      /\ \/ final' = final
         \/ pc[c] = "rename" /\ tmp[f] # None /\ final' = [final EXCEPT ![f] = tmp[f]]
      /\ UNCHANGED <<fd, pos, data, shared, cut>>
      /\ Advance(c) \/ Fail(c)
  BY DEF Rename, Undo, hist, PartialInv, TypeInv, TypeOK
<1>2. /\ pc'[c] \notin Busy
      /\ \A q \in Copiers \ {c} : pc'[q] = pc[q] /\ cur'[q] = cur[q]
  BY <1>1, Leaves DEF PartialInv
<1>3. /\ tmp'[f] = None /\ \A g \in Files \ {f} : tmp'[g] = tmp[g] /\ final'[g] = final[g]
      /\ final'[f] # final[f] => /\ pc[c] = "rename" /\ tmp[f] # None
                                 /\ final'[f] = tmp[f]
  BY <1>1 DEF PartialInv, TypeInv, TypeOK
<1>4. OneFileEach'
  BY <1>1, <1>2, <1>3 DEF PartialInv, OneFileEach
<1>5. Fresh'
  <2>1. ASSUME NEW q \in Copiers, NEW g \in Files, NotYetOpened(q, g)'
        PROVE  /\ tmp'[g] # <<q, g>> /\ final'[g] # <<q, g>>
               /\ \A r \in Copiers : pc'[r] \in Busy => fd'[r] # <<q, g>>
    <3>1. NotYetOpened(q, g)
      BY <2>1, NoReturn DEF PartialInv
    <3>2. /\ tmp[g] # <<q, g>> /\ final[g] # <<q, g>>
          /\ \A r \in Copiers : pc[r] \in Busy => fd[r] # <<q, g>>
      BY <3>1 DEF PartialInv, Fresh
    <3>3. tmp'[g] \in {tmp[g], None} /\ final'[g] \in {final[g], tmp[g]}
      BY <1>3
    <3>4. <<q, g>> # None
      BY CopiersAssumption DEF Inodes
    <3> QED
      BY <1>1, <1>2, <3>2, <3>3, <3>4
  <2> QED
    BY <2>1 DEF Fresh
<1>6. NameOrShared'
  <2>1. ASSUME NEW q \in Copiers \ {c}, pc[q] \in Busy
        PROVE  \/ tmp'[cur[q]] = fd[q]
               \/ fd[q] \in shared /\ tmp'[cur[q]] \in shared \cup {None}
    <3>1. CASE cur[q] = f
      BY <1>1, <1>3, <2>1, <3>1 DEF PartialInv, TwoShare, Busy
    <3>2. CASE cur[q] # f
      <4>1. cur[q] \in Files
        BY DEF PartialInv, TypeInv, TypeOK
      <4> QED
        BY <1>3, <2>1, <3>2, <4>1 DEF PartialInv, NameOrShared
    <3> QED
      BY <3>1, <3>2
  <2> QED
    BY <1>1, <1>2, <2>1 DEF NameOrShared
<1>7. TwoShare'
  BY <1>1, <1>2 DEF PartialInv, TwoShare
<1>8. WrittenAlone'
  <2>1. pc[c] = "rename" /\ tmp[f] # None => Whole(tmp[f])
    BY DEF PartialInv, NameOrShared, WrittenAlone, Whole, Busy
  <2>2. ASSUME NEW g \in Files, final'[g] # None PROVE Whole(final'[g])
    BY <1>3, <2>1, <2>2 DEF PartialInv, WrittenAlone
  <2>3. \A i : Whole(i) => i \in shared' \cup cut' \/ data'[i] = Pieces
    BY <1>1 DEF Whole
  <2>4. \A q \in Copiers : pc'[q] \in Busy => q # c /\ pc'[q] = pc[q]
    BY <1>2
  <2> QED
    BY <1>1, <2>2, <2>3, <2>4 DEF PartialInv, WrittenAlone, Whole, Busy
<1> QED
  BY <1>4, <1>5, <1>6, <1>7, <1>8 DEF PartialInv

LEMMA PartialNext == PartialInv /\ [Next]_vars => PartialInv'
<1> SUFFICES ASSUME PartialInv, [Next]_vars PROVE PartialInv'
  OBVIOUS
<1>0. TypeInv /\ TypeInv'
  BY TypeNext DEF PartialInv
<1>1. ASSUME NEW c \in Copiers, OpenFails(c) \/ RepoRenameFails(c) PROVE PartialInv'
  <2>1. /\ UNCHANGED <<fd, pos, tmp, final, data, shared, cut>>
        /\ Advance(c) \/ Fail(c)
    BY <1>1 DEF OpenFails, RepoRenameFails, hist
  <2> QED
    BY <1>0, <2>1, Leaves, PartialGivesUp
<1>2. ASSUME NEW c \in Copiers, Kill(c) PROVE PartialInv'
  <2>1. /\ UNCHANGED <<fd, pos, tmp, final, data, shared, cut>>
        /\ pc'[c] \notin Busy
        /\ \A q \in Copiers \ {c} : pc'[q] = pc[q] /\ cur'[q] = cur[q]
    BY <1>0, <1>2 DEF Kill, hist, Busy, TypeInv, TypeOK
  <2> QED
    BY <1>0, <2>1, PartialGivesUp
<1>3. ASSUME NEW c \in Copiers, Permissions(c) \/ PermissionsFail(c) \/ RenameFails(c)
      PROVE  PartialInv'
  <2>1. /\ UNCHANGED <<cur, fd, pos, tmp, final, data, shared, cut>>
        /\ pc[c] \in Busy /\ pc[c] # "undo" /\ pc'[c] \in {"rename", "undo"}
        /\ pc'[c] = "rename" => pc[c] = "chmod"
        /\ \A q \in Copiers \ {c} : pc'[q] = pc[q]
    BY <1>0, <1>3 DEF Permissions, PermissionsFail, RenameFails, Goto, hist, Busy,
                      TypeInv, TypeOK
  <2> QED
    BY <1>0, <2>1, PartialGoesOn
<1>4. ASSUME NEW c \in Copiers, Write(c) \/ WriteFails(c) \/ Open(c) PROVE PartialInv'
  BY <1>0, <1>4, PartialWrite, PartialWriteFails, PartialOpen
<1>5. ASSUME NEW c \in Copiers, Rename(c) \/ Undo(c) PROVE PartialInv'
  BY <1>0, <1>5, PartialRename
<1>6. CASE UNCHANGED vars
  BY <1>0, <1>6 DEF vars, hist, PartialInv, OneFileEach, Fresh, NotYetOpened,
                    NameOrShared, TwoShare, WrittenAlone, Whole
<1> QED
  BY <1>1, <1>2, <1>3, <1>4, <1>5, <1>6 DEF Next, Copy, Finished

\* However many copiers race, fail and are killed: a target is only partial when
\* two copiers wrote it at the same time or the disk was full.
THEOREM PartialIsShared == Spec => []PartialOnlyIfShared
<1>1. PartialInv => PartialOnlyIfShared
  BY DEF PartialInv, WrittenAlone, Whole, PartialOnlyIfShared, Complete
<1> QED
  BY <1>1, PartialInit, PartialNext, PTL DEF Spec
-----------------------------------------------------------------------------
(* The race *)

Calm == Unharmed /\ failed = 0 /\ Missing = {}

\* A copier is past a file, or has given it up, only when the target is there.
GivenUp ==
    \A c \in Copiers :
      /\ pc[c] \in {"undo", "false"} => final[cur[c]] # None
      /\ pc[c] \in Busy /\ tmp[cur[c]] = None => final[cur[c]] # None
      /\ \A f \in Files : f < cur[c] \/ pc[c] = "true" => final[f] # None

\* Whoever renamed a file has gone on from it.
WentOn == \A f \in Files : final[f] # None =>
            \E c \in Copiers : f < cur[c] \/ pc[c] = "true"

\* An inode that has a name is complete, or somebody is still writing all of it.
Filling(i) ==
    \/ data[i] = Pieces
    \/ \E c \in Copiers : pc[c] = "write" /\ fd[c] = i /\ 1..pos[c] \subseteq data[i]

Filled == \A f \in Files : \A i \in {tmp[f], final[f]} \ {None} : Filling(i)

RaceInv == TypeInv /\ (Calm => GivenUp /\ WentOn /\ Filled)

LEMMA CalmBefore ==
  ASSUME TypeInv, [Next]_vars, Calm' PROVE Calm
<1>1. failed \in Nat
  BY FaultsAssumption DEF TypeInv, TypeOK
<1>2. ASSUME NEW must, Fault(must) PROVE failed' = failed \/ failed' > 0
  BY <1>1, <1>2 DEF Fault
<1>3. failed' = failed \/ failed' > 0
  BY <1>2
     DEF Next, Copy, Finished, vars, OpenFails, Open, Write, WriteFails, Permissions,
         PermissionsFail, Rename, RenameFails, RepoRenameFails, Undo, Kill
<1> QED
  BY <1>3, HarmStays DEF Calm

\* Without faults a call only fails when the temporary name is gone.
LEMMA CalmFault ==
  ASSUME TypeInv, NEW must, Fault(must), Calm' PROVE must /\ failed' = failed
<1>1. failed \in Nat
  BY FaultsAssumption DEF TypeInv, TypeOK
<1>2. failed' = 0
  BY DEF Calm
<1> QED
  BY <1>1, <1>2 DEF Fault

LEMMA RaceOpen ==
  ASSUME TypeInv, TypeInv', NEW c \in Copiers, Open(c), GivenUp, WentOn, Filled
  PROVE  GivenUp' /\ WentOn' /\ Filled'
<1> DEFINE f == cur[c]
<1>0. PICK i : i = IF tmp[f] = None THEN <<c, f>> ELSE tmp[f]
  OBVIOUS
<1>1. /\ pc[c] = "open" /\ pc' = [pc EXCEPT ![c] = "write"]
      /\ tmp' = [tmp EXCEPT ![f] = i]
      /\ data' = [data EXCEPT ![i] = {}]
      /\ fd' = [fd EXCEPT ![c] = i]
      /\ pos' = [pos EXCEPT ![c] = 0]
      /\ UNCHANGED <<cur, final>>
  BY <1>0 DEF Open, Goto
<1>2. f \in Files /\ i \in Inodes /\ i # None
  BY <1>0, CopiersAssumption DEF TypeInv, TypeOK, Inodes
<1>3. /\ \A q \in Copiers \ {c} : pc'[q] = pc[q] /\ fd'[q] = fd[q] /\ pos'[q] = pos[q]
      /\ pc'[c] = "write" /\ fd'[c] = i /\ pos'[c] = 0
      /\ tmp'[f] = i /\ \A g \in Files \ {f} : tmp'[g] = tmp[g]
      /\ data'[i] = {} /\ \A j \in Inodes \ {i} : data'[j] = data[j]
  BY <1>1, <1>2 DEF TypeInv, TypeOK
<1>4. GivenUp'
  BY <1>1, <1>2, <1>3 DEF GivenUp, TypeInv, TypeOK, Busy
<1>5. WentOn'
  BY <1>1, <1>3 DEF WentOn
<1>6. Filling(i)'
  BY <1>3 DEF Filling
<1>7. ASSUME NEW j \in Inodes \ {i}, Filling(j) PROVE Filling(j)'
  BY <1>1, <1>3, <1>7 DEF Filling
<1>8. ASSUME NEW g \in Files, NEW j \in {tmp'[g], final'[g]} \ {None} PROVE Filling(j)'
  <2>1. j \in Inodes /\ (j = i \/ j \in {tmp[g], final[g]})
    BY <1>1, <1>2, <1>3, <1>8 DEF TypeInv, TypeOK
  <2> QED
    BY <1>6, <1>7, <1>8, <2>1 DEF Filled, Filling
<1> QED
  BY <1>4, <1>5, <1>8 DEF Filled, Filling

LEMMA RaceWrite ==
  ASSUME TypeInv, TypeInv', NEW c \in Copiers, Write(c), GivenUp, WentOn, Filled
  PROVE  GivenUp' /\ WentOn' /\ Filled'
<1>1. /\ pc[c] = "write"
      /\ pc' = [pc EXCEPT ![c] = IF pos[c] + 1 = Size THEN Closed(c) ELSE "write"]
      /\ pos' = [pos EXCEPT ![c] = pos[c] + 1]
      /\ data' = [data EXCEPT ![fd[c]] = data[fd[c]] \cup {pos[c] + 1}]
      /\ UNCHANGED <<cur, fd, tmp, final>>
  BY DEF Write, Goto
<1>2. /\ pc'[c] \in {"write", "chmod", "rename"} /\ pos'[c] = pos[c] + 1
      /\ pc'[c] # "write" => pos[c] + 1 = Size
      /\ \A q \in Copiers \ {c} : pc'[q] = pc[q] /\ pos'[q] = pos[q]
  BY <1>1 DEF Closed, TypeInv, TypeOK
<1>3. fd[c] \in Inodes /\ pos[c] \in Nat /\ pos[c] + 1 \in Pieces
  BY <1>1, FilesFacts DEF TypeInv, TypeOK, Writing, Pieces
<1>4. GivenUp' /\ WentOn'
  BY <1>1, <1>2 DEF GivenUp, WentOn, Busy
<1>5. ASSUME NEW i \in Inodes, Filling(i) PROVE Filling(i)'
  <2>1. data[i] \subseteq data'[i] /\ data'[i] \subseteq Pieces
    BY <1>1, <1>3 DEF TypeInv, TypeOK
  <2>2. CASE data[i] = Pieces
    BY <2>1, <2>2 DEF Filling
  <2>3. ASSUME NEW q \in Copiers, pc[q] = "write", fd[q] = i, 1..pos[q] \subseteq data[i]
        PROVE  Filling(i)'
    <3>1. CASE q # c
      BY <1>1, <1>2, <2>1, <2>3, <3>1 DEF Filling
    <3>2. CASE q = c
      <4>1. 1..(pos[c] + 1) \subseteq data'[i]
        BY <1>1, <1>3, <2>1, <2>3, <3>2 DEF TypeInv, TypeOK
      <4>2. CASE pc'[c] = "write"
        BY <1>1, <1>2, <2>3, <3>2, <4>1, <4>2 DEF Filling
      <4>3. CASE pc'[c] # "write"
        BY <1>2, <2>1, <4>1, <4>3 DEF Filling, Pieces
      <4> QED
        BY <4>2, <4>3
    <3> QED
      BY <3>1, <3>2
  <2> QED
    BY <1>5, <2>2, <2>3 DEF Filling
<1>6. Filled'
  BY <1>1, <1>5 DEF Filled, Filling, TypeInv, TypeOK
<1> QED
  BY <1>4, <1>6

\* A copier that leaves a file: by renaming it, or because it was renamed.
LEMMA RaceLeaves ==
  ASSUME TypeInv, TypeInv', NEW c \in Copiers, GivenUp, WentOn, Filled,
         Advance(c) \/ Fail(c), pc[c] \in {"open", "rename", "undo"},
         UNCHANGED <<fd, pos, data>>,
         \/ tmp' = tmp /\ final' = final
         \/ tmp' = [tmp EXCEPT ![cur[c]] = None] /\ final' = final
         \/ /\ tmp' = [tmp EXCEPT ![cur[c]] = None] /\ Advance(c)
            /\ final' = [final EXCEPT ![cur[c]] = tmp[cur[c]]],
         final'[cur[c]] # None
  PROVE  GivenUp' /\ WentOn' /\ Filled'
<1> DEFINE f == cur[c]
<1>0. \A q \in Copiers : cur[q] \in Files /\ cur[q] \in Nat
  BY FilesFacts DEF TypeInv, TypeOK
<1>1. /\ \A q \in Copiers \ {c} : pc'[q] = pc[q] /\ cur'[q] = cur[q]
      /\ \/ pc'[c] = "open" /\ cur'[c] = cur[c] + 1
         \/ /\ pc'[c] \in {"true", "false"} /\ cur'[c] = cur[c]
            /\ pc'[c] = "true" => cur[c] = Last
            /\ Advance(c) => pc'[c] = "true"
      /\ pc'[c] \notin Busy
  BY Leaves
<1>2. /\ \A g \in Files : final[g] # None => final'[g] # None
      /\ \A g \in Files \ {f} : tmp'[g] = tmp[g] /\ final'[g] = final[g]
      /\ tmp'[f] = tmp[f] \/ tmp'[f] = None
      /\ final'[f] = final[f] \/ (Advance(c) /\ final'[f] = tmp[f])
  BY DEF TypeInv, TypeOK
<1>3. GivenUp'
  <2>1. ASSUME NEW g \in Files, g < cur'[c] \/ pc'[c] = "true" PROVE final'[g] # None
    <3>1. g < cur[c] \/ g = cur[c]
      BY <1>0, <1>1, <2>1, FilesFacts, LastAssumption DEF Files
    <3> QED
      BY <1>2, <2>1, <3>1 DEF GivenUp
  <2>2. ASSUME NEW q \in Copiers \ {c}, pc[q] \in Busy, tmp'[cur[q]] = None
        PROVE  final'[cur[q]] # None
    BY <1>0, <1>2, <2>2 DEF GivenUp
  <2>3. \A q \in Copiers \ {c} :
          /\ pc'[q] \in {"undo", "false"} => final'[cur'[q]] # None
          /\ \A g \in Files : g < cur'[q] \/ pc'[q] = "true" => final'[g] # None
    BY <1>0, <1>1, <1>2 DEF GivenUp
  <2>4. pc'[c] \in {"undo", "false"} => final'[cur'[c]] # None
    BY <1>1, <1>2 DEF Busy
  <2> QED
    BY <1>1, <2>1, <2>2, <2>3, <2>4 DEF GivenUp
<1>4. WentOn'
  <2>1. ASSUME NEW g \in Files, NEW q \in Copiers, g < cur[q] \/ pc[q] = "true"
        PROVE  g < cur'[q] \/ pc'[q] = "true"
    <3>1. CASE q # c
      BY <1>1, <2>1, <3>1
    <3>2. CASE q = c
      <4>1. g < cur[c] /\ cur'[c] \in {cur[c], cur[c] + 1} /\ g \in Nat
        BY <1>1, <2>1, <3>2, FilesFacts
      <4> QED
        BY <1>0, <3>2, <4>1
    <3> QED
      BY <3>1, <3>2
  <2>2. Advance(c) => f < cur'[c] \/ pc'[c] = "true"
    BY <1>0, <1>1
  <2>3. ASSUME NEW g \in Files, final'[g] # None
        PROVE  final[g] # None \/ (g = f /\ Advance(c))
    BY <1>2, <2>3
  <2> QED
    BY <2>1, <2>2, <2>3 DEF WentOn
<1>5. ASSUME NEW i, Filling(i) PROVE Filling(i)'
  BY <1>1, <1>5 DEF Filling
<1>6. \A g \in Files : \A i \in {tmp'[g], final'[g]} \ {None} : i \in {tmp[g], final[g]}
  BY <1>2
<1>7. Filled'
  BY <1>5, <1>6 DEF Filled
<1> QED
  BY <1>3, <1>4, <1>7

\* A nonempty set of files has a last one.
LEMMA LastOne ==
  ASSUME NEW S \in SUBSET Files, S # {}
  PROVE  \E m \in S : \A n \in S : n <= m
<1> DEFINE R == OpToRel(<, Nat)
           T == {Last - n : n \in S}
<1>0. \A n \in S : n \in Int /\ Last - n \in Nat
  BY LastAssumption DEF Files
<1>1. T \subseteq Nat /\ T # {}
  BY <1>0
<1>2. \E x \in T : \A y \in T : ~ (<<y, x>> \in R)
  <2> HIDE DEF T, R
  <2> QED
    BY <1>1, WFMin, NatLessThanWellFounded DEF R
<1>3. PICK m \in S : \A n \in S : ~ (<<Last - n, Last - m>> \in R)
  BY <1>2
<1>4. ASSUME NEW n \in S PROVE n <= m
  <2>1. Last - n \in Nat /\ Last - m \in Nat
    BY <1>0
  <2>2. ~ (Last - n < Last - m)
    BY <1>3, <2>1 DEF OpToRel
  <2> QED
    BY <1>0, <2>2, LastAssumption
<1> QED
  BY <1>4

\* Steps within the work on a file that only move the copier.
LEMMA RaceGoesOn ==
  ASSUME TypeInv, NEW c \in Copiers, GivenUp, WentOn, Filled,
         pc[c] \in {"chmod", "rename"}, pc' = [pc EXCEPT ![c] = pc'[c]],
         pc'[c] \in {"rename", "undo"},
         pc'[c] = "undo" => final[cur[c]] # None,
         UNCHANGED <<cur, fd, pos, tmp, final, data>>
  PROVE  GivenUp' /\ WentOn' /\ Filled'
<1>1. \A q \in Copiers \ {c} : pc'[q] = pc[q]
  BY DEF TypeInv, TypeOK
<1>2. GivenUp'
  BY <1>1 DEF GivenUp, Busy
<1>3. WentOn'
  BY <1>1 DEF WentOn
<1>4. Filled'
  BY <1>1 DEF Filled, Filling
<1> QED
  BY <1>2, <1>3, <1>4

LEMMA RaceNext == RaceInv /\ [Next]_vars => RaceInv'
<1> SUFFICES ASSUME RaceInv, [Next]_vars, Calm' PROVE GivenUp' /\ WentOn' /\ Filled'
  BY TypeNext DEF RaceInv
<1> DEFINE Goal == GivenUp' /\ WentOn' /\ Filled'
<1>0. TypeInv /\ TypeInv' /\ GivenUp /\ WentOn /\ Filled /\ Missing = {}
  BY TypeNext, CalmBefore DEF RaceInv, Calm
<1>1. ASSUME NEW c \in Copiers, OpenFails(c) \/ WriteFails(c) PROVE Goal
  BY <1>0, <1>1, CalmFault DEF OpenFails, WriteFails, Absent
<1>2. ASSUME NEW c \in Copiers, Kill(c) PROVE Goal
  BY <1>0, <1>2 DEF Kill, Calm, Unharmed, TypeInv, TypeOK
<1>3. ASSUME NEW c \in Copiers, Open(c) \/ Write(c) PROVE Goal
  BY <1>0, <1>3, RaceOpen, RaceWrite
<1>4. ASSUME NEW c \in Copiers, Permissions(c) \/ PermissionsFail(c) \/ RenameFails(c)
      PROVE  Goal
  <2>1. /\ pc[c] \in {"chmod", "rename"} /\ pc' = [pc EXCEPT ![c] = pc'[c]]
        /\ pc'[c] \in {"rename", "undo"}
        /\ UNCHANGED <<cur, fd, pos, tmp, final, data>>
    BY <1>0, <1>4 DEF Permissions, PermissionsFail, RenameFails, Goto, TypeInv, TypeOK
  <2>2. pc'[c] = "undo" => tmp[cur[c]] = None
    BY <1>0, <1>4, CalmFault DEF Permissions, PermissionsFail, RenameFails, Goto,
                                 TypeInv, TypeOK
  <2> QED
    BY <1>0, <2>1, <2>2, RaceGoesOn DEF GivenUp, Busy
<1>5. ASSUME NEW c \in Copiers, Rename(c) PROVE Goal
  <2>1. final'[cur[c]] # None
    BY <1>0, <1>5 DEF Rename, TypeInv, TypeOK
  <2> QED
    BY <1>0, <1>5, <2>1, RaceLeaves DEF Rename
<1>6. ASSUME NEW c \in Copiers, RepoRenameFails(c) PROVE Goal
  <2>1. tmp[cur[c]] = None
    BY <1>0, <1>6, CalmFault DEF RepoRenameFails
  <2>2. final'[cur[c]] # None
    BY <1>0, <1>6, <2>1 DEF RepoRenameFails, GivenUp, Busy
  <2> QED
    BY <1>0, <1>6, <2>2, RaceLeaves DEF RepoRenameFails
<1>7. ASSUME NEW c \in Copiers, Undo(c) PROVE Goal
  <2>1. final'[cur[c]] # None
    BY <1>0, <1>7 DEF Undo, GivenUp
  <2> QED
    BY <1>0, <1>7, <2>1, RaceLeaves DEF Undo
<1>8. CASE UNCHANGED vars
  BY <1>0, <1>8 DEF vars, GivenUp, WentOn, Filled, Filling
<1> QED
  BY <1>1, <1>2, <1>3, <1>4, <1>5, <1>6, <1>7, <1>8 DEF Next, Copy, Finished

\* However many copiers race on however long a list: when nothing else fails one
\* of them returns true, and in the end every file is complete.
THEOREM RaceIsWon == Spec => []RaceHasWinner
<1>1. Init => RaceInv
  <2> SUFFICES ASSUME Init PROVE RaceInv
    OBVIOUS
  <2>1. GivenUp /\ WentOn /\ Filled
    BY LastAssumption DEF Init, GivenUp, WentOn, Filled, Busy, Files
  <2> QED
    BY <2>1, TypeInit DEF RaceInv
<1>2. RaceInv => RaceHasWinner
  <2> SUFFICES ASSUME TypeInv, Over, Calm, GivenUp, WentOn, Filled
               PROVE  /\ \E c \in Copiers : pc[c] = "true"
                      /\ \A f \in Files : Complete(f)
    BY DEF RaceInv, RaceHasWinner, Calm
  <2>1. ASSUME \A c \in Copiers : pc[c] # "true" PROVE FALSE
    <3> DEFINE S == {cur[c] : c \in Copiers}
    <3>1. S \in SUBSET Files /\ S # {}
      BY CopiersAssumption DEF TypeInv, TypeOK
    <3>2. PICK c \in Copiers : \A q \in Copiers : cur[q] <= cur[c]
      <4> HIDE DEF S
      <4>1. PICK m \in S : \A n \in S : n <= m
        BY <3>1, LastOne
      <4> QED
        BY <4>1 DEF S
    <3>3. pc[c] = "false"
      BY <2>1 DEF Over, Calm, Unharmed, Ended
    <3>4. PICK q \in Copiers : cur[c] < cur[q]
      BY <2>1, <3>3 DEF GivenUp, WentOn, TypeInv, TypeOK
    <3>5. cur[c] \in Nat /\ cur[q] \in Nat
      BY FilesFacts DEF TypeInv, TypeOK
    <3> QED
      BY <3>2, <3>4, <3>5
  <2>2. PICK c \in Copiers : pc[c] = "true"
    BY <2>1
  <2>3. ASSUME NEW f \in Files PROVE Complete(f)
    <3>1. final[f] # None
      BY <2>2 DEF GivenUp
    <3>2. Filling(final[f])
      BY <3>1 DEF Filled
    <3> QED
      BY <3>1, <3>2 DEF Filling, Complete, Over, Ended
  <2> QED
    BY <2>2, <2>3
<1> QED
  BY <1>1, <1>2, RaceNext, PTL DEF Spec
=============================================================================
