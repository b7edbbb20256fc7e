--------------------------- MODULE LxcUserProofs ---------------------------
(***************************************************************************)
(* Theorems about the counting of lxcuser runs, for every set of runs.     *)
(***************************************************************************)
EXTENDS LxcUser, FiniteSetTheorems, TLAPS

-----------------------------------------------------------------------------
(* Type correctness *)

\* What the type invariant needs: a run that is past sem_open has a semaphore.
SemOpened == \A p \in Procs : pc[p] \in Running => sem[p] \in Procs

TypeInv == TypeOK /\ SemOpened

LEMMA TypeInit == Init => TypeInv
BY DEF Init, TypeInv, TypeOK, SemOpened, PC, Running

LEMMA TypeNext == TypeInv /\ [Next]_vars => TypeInv'
<1> SUFFICES ASSUME TypeInv, [Next]_vars PROVE TypeInv'
  OBVIOUS
<1> USE ProcsAssumption DEF TypeInv, TypeOK, SemOpened, PC, Running, Ended
<1>1. ASSUME NEW p \in Procs, Refuse(p) PROVE TypeInv'
  BY <1>1 DEF Refuse, Goto
<1>2. ASSUME NEW p \in Procs, SemOpen(p) PROVE TypeInv'
  BY <1>2 DEF SemOpen, Goto
<1>3. ASSUME NEW p \in Procs, SemOpenFails(p) PROVE TypeInv'
  BY <1>3 DEF SemOpenFails, Goto
<1>4. ASSUME NEW p \in Procs, GetValue(p) PROVE TypeInv'
  BY <1>4 DEF GetValue, Goto
<1>5. ASSUME NEW p \in Procs, Post(p) PROVE TypeInv'
  BY <1>5 DEF Post, PostTarget, Goto
<1>6. ASSUME NEW p \in Procs, LxcStart(p) PROVE TypeInv'
  BY <1>6 DEF LxcStart, Goto
<1>7. ASSUME NEW p \in Procs, LxcStartFails(p) PROVE TypeInv'
  BY <1>7 DEF LxcStartFails, Goto
<1>8. ASSUME NEW p \in Procs, Installed(p) PROVE TypeInv'
  BY <1>8 DEF Installed, Goto
<1>9. ASSUME NEW p \in Procs, LxcWait(p) PROVE TypeInv'
  BY <1>9 DEF LxcWait, Goto
<1>10. ASSUME NEW p \in Procs, LxcAttach(p) PROVE TypeInv'
  BY <1>10 DEF LxcAttach, Goto
<1>11. ASSUME NEW p \in Procs, Logout(p) PROVE TypeInv'
  BY <1>11 DEF Logout, Goto
<1>12. ASSUME NEW p \in Procs, SemWait(p) PROVE TypeInv'
  BY <1>12 DEF SemWait, Goto
<1>13. ASSUME NEW p \in Procs, CountLeft(p) PROVE TypeInv'
  BY <1>13 DEF CountLeft, Goto
<1>14. ASSUME NEW p \in Procs, LxcStop(p) PROVE TypeInv'
  BY <1>14 DEF LxcStop, Goto
<1>15. ASSUME NEW p \in Procs, SemUnlink(p) PROVE TypeInv'
  BY <1>15 DEF SemUnlink, Goto
<1>16. ASSUME NEW p \in Procs, Kill(p) PROVE TypeInv'
  BY <1>16 DEF Kill
<1>17. ASSUME NEW p \in Procs, NEW sig \in Signals, Signal(p, sig)
       PROVE TypeInv'
  BY <1>17 DEF Signal
<1>18. CASE LxcBoot
  BY <1>18 DEF LxcBoot
<1>19. CASE UNCHANGED vars
  BY <1>19 DEF vars
<1>20. CASE Finished
  BY <1>19, <1>20 DEF Finished
<1> QED
  BY <1>1, <1>2, <1>3, <1>4, <1>5, <1>6, <1>7, <1>8, <1>9, <1>10, <1>11,
     <1>12, <1>13, <1>14, <1>15, <1>16, <1>17, <1>18, <1>19, <1>20
     DEF Next, Steps, Startup, Shutdown

\* The variables of every run of lxcuser keep their types under every fault and
\* signal; in particular no semaphore value becomes negative.
THEOREM TypeCorrect == Spec => []TypeOK
<1>1. TypeInv => TypeOK
  BY DEF TypeInv
<1> QED
  BY <1>1, TypeInit, TypeNext, PTL DEF Spec

-----------------------------------------------------------------------------
(* The semaphore counts the runs that hold it *)

\* A run that has not reached sem_open has created no semaphore, and a run that
\* has not returned from sem_post is not counted.
Bookkeeping ==
    /\ \A p \in Procs : pc[p] = "main" => /\ named # p
                                          /\ \A q \in Procs : sem[q] # p
    /\ \A p \in holders : pc[p] \notin {"main", "getvalue", "post"}

\* Between sem_post and its own sem_wait a run is counted, unless a signal has
\* re-entered shutdown().
HoldsThere ==
    \A p \in Procs : pc[p] \in {"start", "install", "lxcwait", "attach",
                                "session", "sem_wait"}
                       => p \in holders

OverInv  == TypeInv /\ Bookkeeping /\ CountNeverOver
ExactInv == TypeInv /\ Bookkeeping /\ (Quiet => HoldsThere) /\ CountConserved

LEMMA RunsFinite ==
  ASSUME NEW R \in SUBSET Procs
  PROVE  IsFiniteSet(R) /\ Cardinality(R) \in Nat
  BY FS_Subset, FS_CardinalityType, ProcsAssumption

LEMMA OpenKeepsHolders ==
  ASSUME TypeInv, Bookkeeping, NEW p \in Procs, SemOpen(p)
  PROVE  /\ \A s \in Procs : HoldersOf(s)' = HoldersOf(s)
         /\ \A s \in Procs : value'[s] = IF named = None /\ s = p
                                           THEN 0 ELSE value[s]
         /\ HoldersOf(p) = {}
  BY DEF TypeInv, TypeOK, Bookkeeping, SemOpen, Goto, HoldersOf

LEMMA PostAddsHolder ==
  ASSUME TypeInv, Bookkeeping, NEW p \in Procs, Post(p), NEW s \in Procs
  PROVE  IF s = sem[p]
           THEN /\ value'[s] = value[s] + 1
                /\ Cardinality(HoldersOf(s)') = Cardinality(HoldersOf(s)) + 1
           ELSE value'[s] = value[s] /\ HoldersOf(s)' = HoldersOf(s)
<1>1. p \notin HoldersOf(s)
  BY DEF Bookkeeping, HoldersOf, Post, Goto
<1>2. CASE s = sem[p]
  <2>1. HoldersOf(s)' = HoldersOf(s) \cup {p}
    BY <1>2 DEF HoldersOf, Post
  <2>2. Cardinality(HoldersOf(s) \cup {p}) = Cardinality(HoldersOf(s)) + 1
    BY <1>1, RunsFinite, FS_AddElement DEF TypeInv, TypeOK, HoldersOf
  <2> QED
    BY <1>2, <2>1, <2>2 DEF Post, TypeInv, TypeOK
<1>3. CASE s # sem[p]
  BY <1>3 DEF HoldersOf, Post, TypeInv, TypeOK
<1> QED
  BY <1>2, <1>3

LEMMA WaitRemovesHolder ==
  ASSUME TypeInv, NEW p \in Procs, SemWait(p), NEW s \in Procs
  PROVE  IF s = sem[p]
           THEN /\ value'[s] = value[s] - 1
                /\ IF p \in holders
                     THEN Cardinality(HoldersOf(s)') = Cardinality(HoldersOf(s)) - 1
                     ELSE HoldersOf(s)' = HoldersOf(s)
           ELSE value'[s] = value[s] /\ HoldersOf(s)' = HoldersOf(s)
<1>1. CASE s = sem[p] /\ p \in holders
  <2>1. HoldersOf(s)' = HoldersOf(s) \ {p} /\ p \in HoldersOf(s)
    BY <1>1 DEF HoldersOf, SemWait
  <2>2. Cardinality(HoldersOf(s) \ {p}) = Cardinality(HoldersOf(s)) - 1
    BY <2>1, RunsFinite, FS_RemoveElement DEF TypeInv, TypeOK, HoldersOf
  <2> QED
    BY <1>1, <2>1, <2>2 DEF SemWait, TypeInv, TypeOK
<1>2. CASE s = sem[p] /\ p \notin holders
  BY <1>2 DEF HoldersOf, SemWait, TypeInv, TypeOK
<1>3. CASE s # sem[p]
  BY <1>3 DEF HoldersOf, SemWait, TypeInv, TypeOK
<1> QED
  BY <1>1, <1>2, <1>3

\* Every other step leaves the semaphores and their holders alone.
LEMMA OtherSteps ==
  ASSUME [Next]_vars, ~ \E p \in Procs : SemOpen(p) \/ Post(p) \/ SemWait(p)
  PROVE  UNCHANGED <<sem, value, holders>>
  BY DEF Next, Steps, Startup, Shutdown, vars, Refuse, SemOpenFails, GetValue,
         LxcStart, LxcStartFails, Installed, LxcWait, LxcAttach, Logout,
         CountLeft, LxcStop, SemUnlink, LxcBoot, Signal, Kill, Finished

LEMMA BookkeepingNext ==
  ASSUME TypeInv, Bookkeeping, [Next]_vars PROVE Bookkeeping'
<1> USE ProcsAssumption DEF TypeInv, TypeOK, Bookkeeping, PC, Running, Ended
<1>1. ASSUME NEW p \in Procs, SemOpen(p) PROVE Bookkeeping'
  BY <1>1 DEF SemOpen, Goto
<1>2. ASSUME NEW p \in Procs, Post(p) PROVE Bookkeeping'
  BY <1>2 DEF Post, PostTarget, Goto
<1>3. ASSUME NEW p \in Procs, SemWait(p) PROVE Bookkeeping'
  BY <1>3 DEF SemWait, Goto
<1>4. ASSUME NEW p \in Procs, GetValue(p) PROVE Bookkeeping'
  BY <1>4 DEF GetValue, Goto
<1>5. ASSUME NEW p \in Procs,
             \/ Refuse(p) \/ SemOpenFails(p) \/ LxcStart(p) \/ LxcStartFails(p)
             \/ Installed(p) \/ LxcWait(p)
      PROVE  Bookkeeping'
  BY <1>5 DEF Refuse, SemOpenFails, LxcStart, LxcStartFails, Installed,
              LxcWait, Goto
<1>6. ASSUME NEW p \in Procs,
             \/ LxcAttach(p) \/ Logout(p) \/ CountLeft(p) \/ LxcStop(p)
             \/ SemUnlink(p) \/ Kill(p)
      PROVE  Bookkeeping'
  BY <1>6 DEF LxcAttach, Logout, CountLeft, LxcStop, SemUnlink, Kill, Goto
<1>7. ASSUME NEW p \in Procs, NEW sig \in Signals, Signal(p, sig)
      PROVE  Bookkeeping'
  BY <1>7 DEF Signal
<1>8. CASE LxcBoot \/ UNCHANGED vars
  BY <1>8 DEF LxcBoot, vars
<1>9. CASE Finished
  BY <1>8, <1>9 DEF Finished
<1> QED
  BY <1>1, <1>2, <1>3, <1>4, <1>5, <1>6, <1>7, <1>8, <1>9
     DEF Next, Steps, Startup, Shutdown

LEMMA EmptyHolders ==
  ASSUME Init PROVE \A s \in Procs : Cardinality(HoldersOf(s)) = 0
<1>1. \A s \in Procs : HoldersOf(s) = {}
  BY DEF Init, HoldersOf
<1> QED
  BY <1>1, FS_EmptySet

\* Under every fault and signal, no semaphore counts more runs than were posted
\* by startup() and not taken back by shutdown().
THEOREM NeverOver == Spec => []CountNeverOver
<1>1. Init => OverInv
  BY TypeInit, EmptyHolders, ProcsAssumption
     DEF Init, OverInv, Bookkeeping, CountNeverOver
<1>2. ASSUME OverInv, [Next]_vars PROVE OverInv'
  <2>1. TypeInv' /\ Bookkeeping'
    BY <1>2, TypeNext, BookkeepingNext DEF OverInv
  <2>2. ASSUME NEW s \in Procs
        PROVE  value'[s] <= Cardinality(HoldersOf(s)')
    <3>1. value[s] <= Cardinality(HoldersOf(s)) /\ value[s] \in Nat
      BY <1>2, <2>2 DEF OverInv, CountNeverOver, TypeInv, TypeOK
    <3>2. Cardinality(HoldersOf(s)) \in Nat /\ Cardinality(HoldersOf(s)') \in Nat
      BY <1>2, <2>1, RunsFinite DEF OverInv, TypeInv, TypeOK, HoldersOf
    <3>3. ASSUME NEW p \in Procs, SemOpen(p)
          PROVE  value'[s] <= Cardinality(HoldersOf(s)')
      BY <1>2, <3>1, <3>2, <3>3, OpenKeepsHolders DEF OverInv
    <3>4. ASSUME NEW p \in Procs, Post(p)
          PROVE  value'[s] <= Cardinality(HoldersOf(s)')
      BY <1>2, <3>1, <3>2, <3>4, PostAddsHolder DEF OverInv
    <3>5. ASSUME NEW p \in Procs, SemWait(p)
          PROVE  value'[s] <= Cardinality(HoldersOf(s)')
      BY <1>2, <3>1, <3>2, <3>5, WaitRemovesHolder DEF OverInv
    <3>6. CASE UNCHANGED <<sem, value, holders>>
      BY <3>1, <3>6 DEF HoldersOf
    <3> QED
      BY <1>2, <3>3, <3>4, <3>5, <3>6, OtherSteps
  <2> QED
    BY <2>1, <2>2 DEF OverInv, CountNeverOver, HoldersOf
<1>3. OverInv => CountNeverOver
  BY DEF OverInv
<1> QED
  BY <1>1, <1>2, <1>3, PTL DEF Spec

\* A step after which no signal has been handled is no signal itself, and none
\* was handled before it either.
LEMMA QuietStep ==
  ASSUME TypeInv, [Next]_vars, Quiet'
  PROVE  Quiet /\ ~ \E p \in Procs, sig \in Signals : Signal(p, sig)
<1>1. ASSUME NEW p \in Procs, NEW sig \in Signals, Signal(p, sig) PROVE FALSE
  BY <1>1 DEF Signal, Quiet, TypeInv, TypeOK
<1>2. UNCHANGED taken
  BY <1>1 DEF Next, Steps, Startup, Shutdown, vars, Refuse, SemOpen,
              SemOpenFails, GetValue, Post, LxcStart, LxcStartFails, Installed,
              LxcWait, LxcAttach, Logout, SemWait, CountLeft, LxcStop,
              SemUnlink, LxcBoot, Kill, Finished
<1> QED
  BY <1>1, <1>2 DEF Quiet

LEMMA HoldsThereNext ==
  ASSUME TypeInv, HoldsThere, [Next]_vars, Quiet' PROVE HoldsThere'
<1> USE DEF TypeInv, TypeOK, HoldsThere, PC, Running, Ended
<1>1. ASSUME NEW p \in Procs, SemOpen(p) \/ GetValue(p) PROVE HoldsThere'
  BY <1>1 DEF SemOpen, GetValue, Goto
<1>2. ASSUME NEW p \in Procs, Post(p) PROVE HoldsThere'
  BY <1>2 DEF Post, PostTarget, Goto
<1>3. ASSUME NEW p \in Procs, SemWait(p) PROVE HoldsThere'
  BY <1>3 DEF SemWait, Goto
<1>4. ASSUME NEW p \in Procs,
             \/ Refuse(p) \/ SemOpenFails(p) \/ LxcStart(p) \/ LxcStartFails(p)
             \/ Installed(p) \/ LxcWait(p)
      PROVE  HoldsThere'
  BY <1>4 DEF Refuse, SemOpenFails, LxcStart, LxcStartFails, Installed,
              LxcWait, Goto
<1>5. ASSUME NEW p \in Procs,
             \/ LxcAttach(p) \/ Logout(p) \/ CountLeft(p) \/ LxcStop(p)
             \/ SemUnlink(p) \/ Kill(p)
      PROVE  HoldsThere'
  BY <1>5 DEF LxcAttach, Logout, CountLeft, LxcStop, SemUnlink, Kill, Goto
<1>6. CASE LxcBoot \/ UNCHANGED vars
  BY <1>6 DEF LxcBoot, vars
<1>7. CASE Finished
  BY <1>6, <1>7 DEF Finished
<1> QED
  BY <1>1, <1>2, <1>3, <1>4, <1>5, <1>6, <1>7, QuietStep
     DEF Next, Steps, Startup, Shutdown

LEMMA ExactInit == Init => ExactInv
  BY TypeInit, EmptyHolders, ProcsAssumption
     DEF Init, ExactInv, Bookkeeping, HoldsThere, CountConserved

LEMMA ExactNext ==
  ASSUME ExactInv, [Next]_vars PROVE ExactInv'
<1>1. TypeInv' /\ Bookkeeping' /\ (Quiet' => Quiet /\ HoldsThere')
  BY TypeNext, BookkeepingNext, HoldsThereNext, QuietStep DEF ExactInv
<1>2. ASSUME Quiet', NEW s \in Procs
      PROVE  value'[s] = Cardinality(HoldersOf(s)')
  <2>0. Quiet
    BY <1>1, <1>2
  <2>1. value[s] = Cardinality(HoldersOf(s)) /\ value[s] \in Nat
    BY <1>2, <2>0 DEF ExactInv, CountConserved, TypeInv, TypeOK
  <2>2. ASSUME NEW p \in Procs, SemOpen(p)
        PROVE  value'[s] = Cardinality(HoldersOf(s)')
    BY <2>1, <2>2, OpenKeepsHolders, FS_EmptySet DEF ExactInv
  <2>3. ASSUME NEW p \in Procs, Post(p)
        PROVE  value'[s] = Cardinality(HoldersOf(s)')
    BY <2>1, <2>3, PostAddsHolder DEF ExactInv
  <2>4. ASSUME NEW p \in Procs, SemWait(p)
        PROVE  value'[s] = Cardinality(HoldersOf(s)')
    <3>1. p \in holders
      BY <2>0, <2>4 DEF ExactInv, HoldsThere, SemWait, Goto
    <3> QED
      BY <2>1, <2>4, <3>1, WaitRemovesHolder DEF ExactInv
  <2>5. CASE UNCHANGED <<sem, value, holders>>
    BY <2>1, <2>5 DEF HoldersOf
  <2> QED
    BY <2>2, <2>3, <2>4, <2>5, OtherSteps
<1> QED
  BY <1>1, <1>2 DEF ExactInv, CountConserved, HoldersOf

LEMMA ExactAlways == Spec => []ExactInv
<1>1. ExactInv /\ [Next]_vars => ExactInv'
  BY ExactNext
<1> QED
  BY <1>1, ExactInit, PTL DEF Spec

\* Until a signal is handled each semaphore counts exactly the runs that hold
\* it, for any number of overlapping, failing and killed runs.
THEOREM Conserved == Spec => []CountConserved
<1>1. ExactInv => CountConserved
  BY DEF ExactInv
<1> QED
  BY <1>1, ExactAlways, PTL

\* Until a signal is handled no run blocks in the sem_wait of shutdown().
THEOREM NeverBlocks == Spec => []SemWaitNeverBlocks
<1>1. ASSUME ExactInv, Quiet, NEW p \in Procs, pc[p] = "sem_wait"
      PROVE  value[sem[p]] > 0
  <2> DEFINE H == HoldersOf(sem[p])
  <2>1. p \in H /\ sem[p] \in Procs
    BY <1>1 DEF ExactInv, HoldsThere, HoldersOf, TypeInv, SemOpened, Running
  <2>2. IsFiniteSet(H) /\ Cardinality(H) \in Nat
    BY <1>1, RunsFinite DEF ExactInv, TypeInv, TypeOK, HoldersOf
  <2>3. Cardinality(H) # 0
    BY <2>1, <2>2, FS_EmptySet
  <2>4. value[sem[p]] = Cardinality(H)
    BY <1>1, <2>1 DEF ExactInv, CountConserved
  <2> QED
    BY <2>2, <2>3, <2>4
<1>2. ExactInv => SemWaitNeverBlocks
  BY <1>1 DEF SemWaitNeverBlocks
<1> QED
  BY <1>2, ExactAlways, PTL

\* Until a signal is handled shutdown() decides to stop the container only when
\* no other run is counted in its semaphore.
THEOREM StopsWhenUnused == Spec => StopDecision
<1>1. ASSUME ExactInv, [Next]_vars, Quiet, NEW p \in Procs, pc[p] = "left",
             pc'[p] = "stop"
      PROVE  HoldersOf(sem[p]) = {}
  <2>1. CountLeft(p)
    <3> USE <1>1 DEF ExactInv, TypeInv, TypeOK, Goto
    <3>1. ASSUME NEW q \in Procs,
                 \/ Refuse(q) \/ SemOpen(q) \/ SemOpenFails(q) \/ GetValue(q)
                 \/ LxcStart(q) \/ LxcStartFails(q) \/ Installed(q) \/ LxcWait(q)
          PROVE  FALSE
      BY <3>1 DEF Refuse, SemOpen, SemOpenFails, GetValue, LxcStart,
                  LxcStartFails, Installed, LxcWait
    <3>2. ASSUME NEW q \in Procs,
                 \/ Post(q) \/ LxcAttach(q) \/ Logout(q) \/ SemWait(q)
                 \/ LxcStop(q) \/ SemUnlink(q) \/ Kill(q)
          PROVE  FALSE
      BY <3>2 DEF Post, PostTarget, LxcAttach, Logout, SemWait, LxcStop,
                  SemUnlink, Kill
    <3>3. ASSUME NEW q \in Procs, CountLeft(q) PROVE q = p
      BY <3>3 DEF CountLeft
    <3>4. ~ (LxcBoot \/ Finished \/ UNCHANGED vars)
      BY DEF LxcBoot, Finished, vars
    <3>5. ~ \E q \in Procs, sig \in Signals : Signal(q, sig)
      BY DEF Signal
    <3> QED
      BY <3>1, <3>2, <3>3, <3>4, <3>5 DEF Next, Steps, Startup, Shutdown
  <2>2. sem[p] \in Procs /\ value[sem[p]] = 0
    BY <1>1, <2>1 DEF CountLeft, Goto, ExactInv, TypeInv, TypeOK, SemOpened,
                      Running
  <2>3. Cardinality(HoldersOf(sem[p])) = 0
    BY <1>1, <2>2 DEF ExactInv, CountConserved
  <2>4. IsFiniteSet(HoldersOf(sem[p]))
    BY <1>1, RunsFinite DEF ExactInv, TypeInv, TypeOK, HoldersOf
  <2> QED
    BY <2>3, <2>4, FS_EmptySet
<1>2. ExactInv /\ [Next]_vars =>
        [\A p \in Procs : Quiet /\ pc[p] = "left" /\ pc'[p] = "stop"
                            => HoldersOf(sem[p]) = {}]_vars
  BY <1>1
<1> QED
  BY <1>2, ExactAlways, PTL DEF Spec, StopDecision

-----------------------------------------------------------------------------
(* A container that stays up was left by a failure *)

Holding == {"start", "install", "lxcwait", "attach", "session", "sem_wait"}

NoFailure == \A p \in Procs : pc[p] \notin {"crit", "killed"}

\* Without failures the runs that are counted are those on their way from
\* sem_post to sem_wait, and while the container is up one of these, or one that
\* is about to read the count or has read 0, is still there to stop it.  While
\* COUNTER has a name, a run that uses the semaphore of that name, or one that is
\* on its way to sem_unlink, is still there to remove it.
Visiting == Holding \cup {"getvalue", "post", "left"}

Attended ==
    Quiet /\ NoFailure =>
      /\ \A p \in holders : pc[p] \in Holding
      /\ lxc # "STOPPED" => \E p \in Procs : pc[p] \in Holding \cup {"left", "stop"}
      /\ named # None => \E p \in Procs : \/ pc[p] \in Visiting /\ sem[p] = named
                                          \/ pc[p] \in Closed

AttendInv == ExactInv /\ Attended

\* The steps that move one run along without changing semaphores or container.
Quietly(p) == \/ Refuse(p) \/ SemOpenFails(p) \/ GetValue(p) \/ LxcStartFails(p)
              \/ Installed(p) \/ LxcWait(p) \/ LxcAttach(p) \/ Logout(p) \/ Kill(p)

LEMMA AttendedNext ==
  ASSUME AttendInv, [Next]_vars PROVE Attended'
<1> SUFFICES ASSUME Quiet', NoFailure'
             PROVE  /\ \A q \in holders' : pc'[q] \in Holding
                    /\ lxc' # "STOPPED"
                         => \E q \in Procs : pc'[q] \in Holding \cup {"left", "stop"}
                    /\ named' # None
                         => \E q \in Procs : \/ pc'[q] \in Visiting /\ sem'[q] = named'
                                             \/ pc'[q] \in Closed
  BY DEF Attended
<1>0. Quiet /\ ~ \E p \in Procs, sig \in Signals : Signal(p, sig)
  BY QuietStep DEF AttendInv, ExactInv
<1> USE DEF AttendInv, ExactInv, TypeInv, TypeOK, Attended, NoFailure, Holding,
        Visiting, Closed, Goto
<1>1. ASSUME NEW p \in Procs, SemOpen(p) PROVE Attended'
  BY <1>0, <1>1 DEF SemOpen
<1>2. ASSUME NEW p \in Procs, Post(p) PROVE Attended'
  BY <1>0, <1>2 DEF Post, PostTarget
<1>3. ASSUME NEW p \in Procs, LxcStart(p) PROVE Attended'
  BY <1>0, <1>3 DEF LxcStart
<1>4. ASSUME NEW p \in Procs, SemWait(p) PROVE Attended'
  BY <1>0, <1>4 DEF SemWait
<1>5. ASSUME NEW p \in Procs, CountLeft(p) PROVE Attended'
  <2>1. sem[p] \in Procs
    BY <1>5 DEF CountLeft, SemOpened, Running
  <2>2. CASE value[sem[p]] = 0
    BY <1>0, <1>5, <2>2 DEF CountLeft
  <2>3. CASE value[sem[p]] # 0
    <3>1. HoldersOf(sem[p]) # {}
      BY <1>0, <2>1, <2>3, FS_EmptySet DEF CountConserved
    <3>2. PICK q \in holders : sem[q] = sem[p]
      BY <3>1 DEF HoldersOf
    <3>3. \A r \in Procs : r # p => pc'[r] = pc[r]
      BY <1>5 DEF CountLeft
    <3>4. NoFailure
      BY <1>5, <3>3 DEF CountLeft
    <3>5. pc[q] \in Holding /\ q \in Procs /\ q # p
      BY <1>0, <1>5, <3>2, <3>4 DEF CountLeft
    <3>6. pc'[q] \in Holding /\ sem[q] = sem[p]
      BY <3>2, <3>3, <3>5
    <3>7. ASSUME named' # None
          PROVE  \E r \in Procs : \/ pc'[r] \in Visiting /\ sem'[r] = named'
                                  \/ pc'[r] \in Closed
      <4>1. PICK r \in Procs : \/ pc[r] \in Visiting /\ sem[r] = named
                               \/ pc[r] \in Closed
        BY <1>0, <1>5, <3>4, <3>7 DEF CountLeft
      <4>2. CASE r = p
        BY <1>5, <3>5, <3>6, <4>1, <4>2 DEF CountLeft
      <4>3. CASE r # p
        BY <1>5, <3>3, <4>1, <4>3 DEF CountLeft
      <4> QED
        BY <4>2, <4>3
    <3>8. \A r \in holders' : pc'[r] \in Holding
      BY <1>0, <1>5, <3>3, <3>4 DEF CountLeft
    <3> QED
      BY <3>5, <3>6, <3>7, <3>8
  <2> QED
    BY <2>2, <2>3
<1>6. ASSUME NEW p \in Procs, LxcStop(p) \/ SemUnlink(p) PROVE Attended'
  BY <1>0, <1>6 DEF LxcStop, SemUnlink
<1>7. ASSUME NEW p \in Procs, Quietly(p) PROVE Attended'
  BY <1>0, <1>7 DEF Quietly, Refuse, SemOpenFails, GetValue, LxcStartFails,
                    Installed, LxcWait, LxcAttach, Logout, Kill, Bookkeeping
<1>8. CASE LxcBoot \/ Finished \/ UNCHANGED vars
  BY <1>0, <1>8 DEF LxcBoot, Finished, vars
<1> QED
  BY <1>0, <1>1, <1>2, <1>3, <1>4, <1>5, <1>6, <1>7, <1>8
     DEF Next, Steps, Startup, Shutdown, Quietly

\* For any number of runs that overlap anywhere: when all have ended and the
\* container is still up, or a counter is left under COUNTER, a run was
\* signalled, killed or left through crit().
THEOREM OnlyFailureAbandons == Spec => []AbandonedOnlyByFailure
<1>1. Init => AttendInv
  BY ExactInit DEF Init, AttendInv, Attended
<1>2. AttendInv /\ [Next]_vars => AttendInv'
  BY ExactNext, AttendedNext DEF AttendInv
<1>3. AttendInv => AbandonedOnlyByFailure
  BY DEF AttendInv, Attended, NoFailure, Holding, Visiting, Closed,
         AbandonedOnlyByFailure, Ended
<1> QED
  BY <1>1, <1>2, <1>3, PTL DEF Spec
=============================================================================
