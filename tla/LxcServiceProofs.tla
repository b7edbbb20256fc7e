-------------------------- MODULE LxcServiceProofs --------------------------
(***************************************************************************)
(* When the startup and shutdown sequences of the runs do not overlap, and *)
(* nothing fails, lxcuser keeps what LxcService promises of the container: *)
(* for every set of runs, the first one brings it up and the last one      *)
(* takes it down.                                                          *)
(***************************************************************************)
EXTENDS LxcUserProofs

\* No run is signalled or killed, and lxc-start brings up a stopped container.
Undisturbed == Signals = {} /\ Killable = {} /\ StartMayFail = FALSE

SerialNext == Next /\ OneDecides'

\* Program points at which a run uses the container.
Inside == Holding \ {"start"}

\* Every run past sem_open counts in the semaphore COUNTER names, and the runs
\* counted are those between sem_post and sem_wait.
SameSemaphore ==
    /\ \A p \in Procs : pc[p] \in Running => sem[p] = named
    /\ \A p \in holders : pc[p] \in Holding

\* What the one run inside startup() or shutdown() has read is still true.
DecidesOnTruth ==
    \A p \in Procs :
      /\ pc[p] = "post" => count[p] = value[sem[p]]
      /\ pc[p] = "start" => holders = {p} /\ lxc = "STOPPED"
      /\ pc[p] = "stop" => holders = {}
      /\ pc[p] = "unlink" => holders = {} /\ lxc = "STOPPED"

\* The container is up exactly while a run uses it or is about to stop it.
UpWhileUsed ==
    lxc # "STOPPED" <=> \E p \in Procs : pc[p] \in Inside \cup {"left", "stop"}

SerialInv == ExactInv /\ OneDecides /\ SameSemaphore /\ DecidesOnTruth /\ UpWhileUsed

-----------------------------------------------------------------------------
(* The invariant *)

LEMMA AlwaysQuiet == ASSUME Undisturbed, TypeInv PROVE Quiet
  BY DEF Undisturbed, TypeInv, TypeOK, Quiet

\* A run past sem_open reads 0 exactly when no run is counted.
LEMMA CountsEveryone ==
  ASSUME Undisturbed, ExactInv, SameSemaphore, NEW p \in Procs, pc[p] \in Running
  PROVE  /\ sem[p] \in Procs /\ sem[p] = named
         /\ value[sem[p]] \in Nat
         /\ value[sem[p]] = 0 <=> holders = {}
<1>1. sem[p] \in Procs /\ sem[p] = named /\ value[sem[p]] \in Nat
  BY DEF ExactInv, TypeInv, TypeOK, SemOpened, SameSemaphore
<1>2. HoldersOf(sem[p]) = holders
  BY <1>1 DEF ExactInv, TypeInv, TypeOK, SameSemaphore, Holding, Running, HoldersOf
<1>3. value[sem[p]] = Cardinality(holders)
  BY <1>1, <1>2, AlwaysQuiet DEF ExactInv, CountConserved
<1>4. IsFiniteSet(holders)
  BY RunsFinite DEF ExactInv, TypeInv, TypeOK
<1> QED
  BY <1>1, <1>3, <1>4, FS_EmptySet

\* Steps of one run that leave the semaphores and the container alone and stay
\* among the points at which the run is, or is not, inside.
Walks(p) == \/ Refuse(p) \/ SemOpenFails(p) \/ Installed(p) \/ LxcWait(p)
            \/ LxcAttach(p) \/ Logout(p)

LEMMA NextCases ==
  ASSUME Undisturbed, [Next]_vars
  PROVE  \/ \E p \in Procs : Walks(p) \/ SemOpen(p) \/ GetValue(p) \/ Post(p)
                               \/ LxcStart(p) \/ LxcStartFails(p) \/ Shutdown(p)
         \/ LxcBoot
         \/ UNCHANGED vars
  BY DEF Undisturbed, Next, Steps, Startup, Walks, Kill, Finished

LEMMA SerialInit == Init => SerialInv
  BY ExactInit DEF Init, SerialInv, OneDecides, Deciding, SameSemaphore,
       DecidesOnTruth, UpWhileUsed, Inside, Holding, Running

LEMMA SerialStep ==
  ASSUME Undisturbed, SerialInv, [SerialNext]_vars PROVE SerialInv'
<1> DEFINE Core == SameSemaphore /\ DecidesOnTruth /\ UpWhileUsed
<1>1. [Next]_vars /\ ExactInv' /\ OneDecides'
  BY ExactNext DEF SerialNext, SerialInv, OneDecides, vars
<1>2. SUFFICES Core'
  BY <1>1 DEF SerialInv
<1>3. Quiet /\ HoldsThere
  BY AlwaysQuiet DEF SerialInv, ExactInv
<1> USE <1>1, <1>3 DEF SerialInv, ExactInv, TypeInv, TypeOK, OneDecides, Deciding,
      SameSemaphore, DecidesOnTruth, UpWhileUsed, HoldsThere, Goto, Running, Holding,
      Inside
<1>4. ASSUME NEW p \in Procs, Walks(p) PROVE Core'
  BY <1>4 DEF Walks, Refuse, SemOpenFails, Installed, LxcWait, LxcAttach, Logout
<1>5. ASSUME NEW p \in Procs, SemOpen(p) PROVE Core'
  BY <1>5, ProcsAssumption DEF SemOpen, SemOpened
<1>6. ASSUME NEW p \in Procs, GetValue(p) PROVE Core'
  BY <1>6 DEF GetValue
<1>7. ASSUME NEW p \in Procs, Post(p) PROVE Core'
  <2>1. count[p] = 0 <=> holders = {}
    BY <1>7, CountsEveryone DEF Post
  <2> QED
    BY <1>7, <2>1 DEF Post, PostTarget
<1>8. ASSUME NEW p \in Procs, LxcStart(p) PROVE Core'
  BY <1>8 DEF LxcStart
<1>9. ASSUME NEW p \in Procs, LxcStartFails(p) PROVE Core'
  BY <1>9 DEF LxcStartFails, Undisturbed
<1>10. ASSUME NEW p \in Procs, SemWait(p) PROVE Core'
  BY <1>10 DEF SemWait
<1>11. ASSUME NEW p \in Procs, CountLeft(p) PROVE Core'
  <2>1. value[sem[p]] = 0 <=> holders = {}
    BY <1>11, CountsEveryone DEF CountLeft
  <2> QED
    BY <1>11, <2>1 DEF CountLeft
<1>12. ASSUME NEW p \in Procs, LxcStop(p) PROVE Core'
  BY <1>12 DEF LxcStop
<1>13. ASSUME NEW p \in Procs, SemUnlink(p) PROVE Core'
  BY <1>13 DEF SemUnlink
<1>14. CASE LxcBoot
  BY <1>14 DEF LxcBoot
<1>15. CASE UNCHANGED vars
  BY <1>15 DEF vars
<1> QED
  BY <1>4, <1>5, <1>6, <1>7, <1>8, <1>9, <1>10, <1>11, <1>12, <1>13, <1>14,
     <1>15, NextCases DEF Shutdown

-----------------------------------------------------------------------------
(* The refinement *)

\* The users of the abstract container without the semaphores.
Occupants ==
    {p \in Procs : \/ pc[p] \in Inside
                   \/ pc[p] \in {"left", "stop"} /\ holders = {}}

LEMMA ActiveAreOccupants == Undisturbed /\ SerialInv => ActiveRuns = Occupants
<1> SUFFICES ASSUME Undisturbed, SerialInv PROVE ActiveRuns = Occupants
  OBVIOUS
<1>1. \A p \in Procs : pc[p] \in {"left", "stop"}
                         => (value[sem[p]] = 0 <=> holders = {})
  BY CountsEveryone DEF SerialInv, Running
<1> QED
  BY <1>1 DEF ActiveRuns, Occupants, Inside, Holding

LEMMA ActiveAreOccupantsNext ==
  (Undisturbed /\ SerialInv)' => (ActiveRuns = Occupants)'
  BY ActiveAreOccupants, PTL

\* Every step of a run is a step of the abstract container or changes nothing
\* of it: LxcStart is First, a Post that finds the container up is Join, a
\* SemWait that leaves others behind is Leave, and LxcStop is Last.
LEMMA ServiceStep ==
  ASSUME Undisturbed, SerialInv, SerialInv', [SerialNext]_vars
  PROVE  [Service!Next]_Service!vars
<1>1. [Next]_vars /\ HoldsThere
  BY AlwaysQuiet DEF SerialNext, SerialInv, ExactInv
<1>2. ActiveRuns = Occupants /\ ActiveRuns' = Occupants'
  BY ActiveAreOccupants, ActiveAreOccupantsNext DEF Undisturbed
<1> DEFINE up == lxc # "STOPPED"
           Idle == Occupants' = Occupants /\ up' = up
<1> USE <1>1 DEF SerialInv, ExactInv, TypeInv, TypeOK, OneDecides, Deciding,
      SameSemaphore, DecidesOnTruth, UpWhileUsed, HoldsThere, Goto, Running,
      Holding, Inside, Occupants
<1>3. ASSUME NEW p \in Procs, Walks(p) PROVE Idle
  BY <1>3 DEF Walks, Refuse, SemOpenFails, Installed, LxcWait, LxcAttach, Logout
<1>4. ASSUME NEW p \in Procs, SemOpen(p) \/ GetValue(p) \/ SemUnlink(p) PROVE Idle
  BY <1>4 DEF SemOpen, GetValue, SemUnlink
<1>5. ASSUME NEW p \in Procs, Post(p), count[p] = 0 PROVE Idle
  BY <1>5 DEF Post, PostTarget
<1>6. ASSUME NEW p \in Procs, Post(p), count[p] # 0
      PROVE  /\ Occupants # {} /\ p \notin Occupants /\ Occupants' = Occupants \cup {p}
             /\ up /\ up'
  <2>1. holders # {}
    BY <1>6, CountsEveryone DEF Post
  <2> QED
    BY <1>6, <2>1 DEF Post, PostTarget
<1>7. ASSUME NEW p \in Procs, LxcStart(p)
      PROVE  Occupants = {} /\ Occupants' = {p} /\ ~up /\ up'
  BY <1>7 DEF LxcStart
<1>8. ASSUME NEW p \in Procs, LxcStartFails(p) PROVE Idle
  BY <1>8 DEF LxcStartFails, Undisturbed
<1>9. ASSUME NEW p \in Procs, SemWait(p), holders' = {} PROVE Idle
  BY <1>9 DEF SemWait
<1>10. ASSUME NEW p \in Procs, SemWait(p), holders' # {}
       PROVE  /\ p \in Occupants /\ Occupants \ {p} # {}
              /\ Occupants' = Occupants \ {p}
              /\ up = up'
  BY <1>10 DEF SemWait
<1>11. ASSUME NEW p \in Procs, CountLeft(p) PROVE Idle
  <2>1. value[sem[p]] = 0 <=> holders = {}
    BY <1>11, CountsEveryone DEF CountLeft
  <2> QED
    BY <1>11, <2>1 DEF CountLeft
<1>12. ASSUME NEW p \in Procs, LxcStop(p)
       PROVE  Occupants = {p} /\ Occupants' = {} /\ ~up'
  BY <1>12 DEF LxcStop
<1>13. ASSUME LxcBoot \/ UNCHANGED vars PROVE Idle
  BY <1>13 DEF LxcBoot, vars
<1>14. ASSUME Idle PROVE UNCHANGED Service!vars
  BY <1>2, <1>14 DEF Service!vars
<1>15. ASSUME NEW p \in Procs, Post(p), count[p] # 0 PROVE Service!Join(p)
  BY <1>2, <1>6, <1>15 DEF Service!Join
<1>16. ASSUME NEW p \in Procs, LxcStart(p) PROVE Service!First(p)
  BY <1>2, <1>7, <1>16 DEF Service!First
<1>17. ASSUME NEW p \in Procs, SemWait(p), holders' # {} PROVE Service!Leave(p)
  BY <1>2, <1>10, <1>17 DEF Service!Leave
<1>18. ASSUME NEW p \in Procs, LxcStop(p) PROVE Service!Last(p)
  BY <1>2, <1>12, <1>18 DEF Service!Last
<1> HIDE DEF Idle
<1> QED
  BY <1>3, <1>4, <1>5, <1>8, <1>9, <1>11, <1>13, <1>14, <1>15, <1>16, <1>17, <1>18,
     NextCases DEF Shutdown, Service!Next

\* For any number of runs whose startup() and shutdown() do not overlap: the
\* first run brings the container up, it stays up while a run uses it, and the
\* last run takes it down.
THEOREM SerialImplementsService ==
  ASSUME Undisturbed PROVE SerialSpec => ServiceSpec
<1>1. Init => Service!Init
  BY DEF Init, Service!Init, ActiveRuns
<1>2. SerialInv /\ [SerialNext]_vars => SerialInv' /\ [Service!Next]_Service!vars
  BY SerialStep, ServiceStep
<1>3. SerialSpec => Init /\ [][SerialNext]_vars
  BY DEF SerialSpec, SerialNext
<1> QED
  BY <1>1, <1>2, <1>3, SerialInit, PTL DEF ServiceSpec, Service!Spec
=============================================================================
