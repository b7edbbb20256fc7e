------------------------------ MODULE LxcUser ------------------------------
(***************************************************************************)
(* Concurrent runs of the lxcuser program (src/src/lxcuser.cpp) that share *)
(* one lxc container.  Each run counts itself in a named POSIX semaphore:  *)
(* startup() posts it and starts the container if the value it read before *)
(* was 0; shutdown() takes the post back and stops the container if the    *)
(* value it reads afterwards is 0.  Reading and changing the value are     *)
(* separate calls, and nothing else orders the runs.                       *)
(*                                                                         *)
(* A semaphore object is named after the run whose sem_open created it.    *)
(* The container and the semaphores are external (lxc tools and libc); a   *)
(* system() call is one step, except lxc-attach, which lasts as long as    *)
(* the user's session.                                                     *)
(***************************************************************************)
EXTENDS Integers, FiniteSets

CONSTANTS
    Procs,          \* the runs of lxcuser; each process runs once
    None,           \* no semaphore
    StartMayFail,   \* may lxc-start fail although the container is stopped?
    Signals,        \* signals that may be sent to a run that handles them
    Killable        \* runs that SIGKILL or an unhandled SIGHUP may end

Handled == {"SIGINT", "SIGQUIT", "SIGTERM"}

ASSUME ProcsAssumption    == IsFiniteSet(Procs) /\ None \notin Procs
ASSUME StartAssumption    == StartMayFail \in BOOLEAN
ASSUME SignalsAssumption  == Signals \subseteq Handled
ASSUME KillableAssumption == Killable \subseteq Procs

VARIABLES
    pc,         \* where each run is
    sem,        \* the semaphore each run has opened (global "sem")
    count,      \* the value each run last read (local "count")
    handlers,   \* runs that have installed shutdown as signal handler
    taken,      \* signals each run is already handling
    named,      \* the semaphore COUNTER names in the system, or None
    value,      \* the value of each semaphore
    lxc,        \* state of the container
    holders     \* history: runs that startup() has counted and
                \*   whose own sem_wait has not taken it back

vars == <<pc, sem, count, handlers, taken, named, value, lxc, holders>>

Ended   == {"exit", "crit", "killed"}
Running == {"getvalue", "post", "start", "install", "lxcwait", "attach",
            "session", "sem_wait", "left", "stop", "unlink"}
PC      == {"main"} \cup Running \cup Ended

\* Program points after sem_close, where "sem" is a dangling pointer.
Closed == {"stop", "unlink"}

Goto(p, from, to) ==
    /\ pc[p] = from
    /\ pc' = [pc EXCEPT ![p] = to]

Init ==
    /\ pc = [p \in Procs |-> "main"]
    /\ sem = [p \in Procs |-> None]
    /\ count = [p \in Procs |-> 0]
    /\ handlers = {}
    /\ taken = [p \in Procs |-> {}]
    /\ named = None
    /\ value = [p \in Procs |-> 0]
    /\ lxc = "STOPPED"
    /\ holders = {}

-----------------------------------------------------------------------------
(* main() *)

\* main leaves before startup(): wrong privileges, help, no name, unknown
\* user, user not in the group, unreadable configuration, no such container.
Refuse(p) ==
    /\ Goto(p, "main", "exit")
    /\ UNCHANGED <<sem, count, handlers, taken, named, value, lxc, holders>>

-----------------------------------------------------------------------------
(* startup() *)

\* sem_open with O_CREAT: the named semaphore, or a new one with value 0.
SemOpen(p) ==
    /\ Goto(p, "main", "getvalue")
    /\ IF named = None
         THEN /\ named' = p
              /\ value' = [value EXCEPT ![p] = 0]
         ELSE UNCHANGED <<named, value>>
    /\ sem' = [sem EXCEPT ![p] = named']
    /\ UNCHANGED <<count, handlers, taken, lxc, holders>>

\* sem_open fails: crit(10).
SemOpenFails(p) ==
    /\ Goto(p, "main", "crit")
    /\ UNCHANGED <<sem, count, handlers, taken, named, value, lxc, holders>>

GetValue(p) ==
    /\ Goto(p, "getvalue", "post")
    /\ count' = [count EXCEPT ![p] = value[sem[p]]]
    /\ UNCHANGED <<sem, handlers, taken, named, value, lxc, holders>>

\* sem_post, then return to main unless the value read before it was 0.
PostTarget(p) == IF count[p] # 0 THEN "attach" ELSE "start"

\* Mutant of Post: the early return comes before sem_post.
PostAfterReturn(p) ==
    /\ Goto(p, "post", PostTarget(p))
    /\ value' = [value EXCEPT ![sem[p]] = IF count[p] # 0 THEN @ ELSE @ + 1]
    /\ holders' = holders \cup {p}
    /\ UNCHANGED <<sem, count, handlers, taken, named, lxc>>

Post(p) ==
    /\ Goto(p, "post", PostTarget(p))
    /\ value' = [value EXCEPT ![sem[p]] = @ + 1]
    /\ holders' = holders \cup {p}
    /\ UNCHANGED <<sem, count, handlers, taken, named, lxc>>

\* lxc-start succeeds; the handlers are installed when it returns.
LxcStart(p) ==
    /\ Goto(p, "start", "install")
    /\ lxc = "STOPPED"
    /\ lxc' = "STARTING"
    /\ handlers' = handlers \cup {p}
    /\ UNCHANGED <<sem, count, taken, named, value, holders>>

\* lxc-start fails, always so when the container is not stopped: crit(-1)
\* exits at once, without sem_wait.
LxcStartFails(p) ==
    /\ Goto(p, "start", "crit")
    /\ lxc # "STOPPED" \/ StartMayFail
    /\ UNCHANGED <<sem, count, handlers, taken, named, value, lxc, holders>>

\* The handlers are installed and lxc-wait has been called.
Installed(p) ==
    /\ Goto(p, "install", "lxcwait")
    /\ UNCHANGED <<sem, count, handlers, taken, named, value, lxc, holders>>

\* lxc-wait -s RUNNING and sleep(2).
LxcWait(p) ==
    /\ Goto(p, "lxcwait", "attach")
    /\ lxc = "RUNNING"
    /\ UNCHANGED <<sem, count, handlers, taken, named, value, lxc, holders>>

-----------------------------------------------------------------------------
(* main(), the login *)

\* lxc-attach opens a session in a running container, fails at once if the
\* container is stopped, and may do either while it boots.
LxcAttach(p) ==
    /\ \/ lxc # "STOPPED" /\ Goto(p, "attach", "session")
       \/ lxc # "RUNNING" /\ Goto(p, "attach", "sem_wait")
    /\ UNCHANGED <<sem, count, handlers, taken, named, value, lxc, holders>>

\* lxc-attach returns: the user has logged out or the container was stopped.
Logout(p) ==
    /\ Goto(p, "session", "sem_wait")
    /\ UNCHANGED <<sem, count, handlers, taken, named, value, lxc, holders>>

-----------------------------------------------------------------------------
(* shutdown(), called by main with code 0 or by a signal with its number *)

\* Mutant of SemWait: sem_wait does not wait for a post.
SemWaitUnguarded(p) ==
    /\ Goto(p, "sem_wait", "left")
    /\ value' = [value EXCEPT ![sem[p]] = @ - 1]
    /\ holders' = holders \ {p}
    /\ UNCHANGED <<sem, count, handlers, taken, named, lxc>>

\* Mutant of SemWait: the run reads the count without taking its post back.
SemWaitForgotten(p) ==
    /\ Goto(p, "sem_wait", "left")
    /\ holders' = holders \ {p}
    /\ UNCHANGED <<sem, count, handlers, taken, named, value, lxc>>

SemWait(p) ==
    /\ Goto(p, "sem_wait", "left")
    /\ value[sem[p]] > 0
    /\ value' = [value EXCEPT ![sem[p]] = @ - 1]
    /\ holders' = holders \ {p}
    /\ UNCHANGED <<sem, count, handlers, taken, named, lxc>>

\* Mutant of CountLeft: the last but one run stops the container.
CountLeftOne(p) ==
    /\ Goto(p, "left", IF value[sem[p]] <= 1 THEN "stop" ELSE "exit")
    /\ count' = [count EXCEPT ![p] = value[sem[p]]]
    /\ UNCHANGED <<sem, handlers, taken, named, value, lxc, holders>>

\* Mutant of CountLeft: a run that was not the first never stops it.
CountLeftFirst(p) ==
    /\ Goto(p, "left", IF value[sem[p]] = 0 /\ count[p] = 0
                         THEN "stop" ELSE "exit")
    /\ count' = [count EXCEPT ![p] = value[sem[p]]]
    /\ UNCHANGED <<sem, handlers, taken, named, value, lxc, holders>>

\* sem_getvalue and sem_close.
CountLeft(p) ==
    /\ Goto(p, "left", IF value[sem[p]] = 0 THEN "stop" ELSE "exit")
    /\ count' = [count EXCEPT ![p] = value[sem[p]]]
    /\ UNCHANGED <<sem, handlers, taken, named, value, lxc, holders>>

\* Mutant of LxcStop: sem_unlink is forgotten.
LxcStopKeepsName(p) ==
    /\ Goto(p, "stop", "exit")
    /\ lxc' = "STOPPED"
    /\ UNCHANGED <<sem, count, handlers, taken, named, value, holders>>

LxcStop(p) ==
    /\ Goto(p, "stop", "unlink")
    /\ lxc' = "STOPPED"
    /\ UNCHANGED <<sem, count, handlers, taken, named, value, holders>>

\* sem_unlink removes the name, whichever semaphore it names by now.
SemUnlink(p) ==
    /\ Goto(p, "unlink", "exit")
    /\ named' = None
    /\ UNCHANGED <<sem, count, handlers, taken, value, lxc, holders>>

-----------------------------------------------------------------------------
(* The environment *)

\* The container finishes booting.
LxcBoot ==
    /\ lxc = "STARTING"
    /\ lxc' = "RUNNING"
    /\ UNCHANGED <<pc, sem, count, handlers, taken, named, value, holders>>

\* A signal calls shutdown(signo), which never returns to what it interrupts.
\* system() ignores SIGINT and SIGQUIT while its command runs, and a signal is
\* blocked while it is handled.  After sem_close the handler's sem_wait uses an
\* unmapped semaphore, and the run dies of it.
Signal(p, sig) ==
    /\ p \in handlers
    /\ pc[p] \in Running
    /\ sig \notin taken[p]
    /\ pc[p] \in {"lxcwait", "session"} => sig = "SIGTERM"
    /\ taken' = [taken EXCEPT ![p] = @ \cup {sig}]
    /\ pc' = [pc EXCEPT ![p] = IF pc[p] \in Closed THEN "killed"
                                                   ELSE "sem_wait"]
    /\ UNCHANGED <<sem, count, handlers, named, value, lxc, holders>>

Kill(p) ==
    /\ p \in Killable
    /\ pc[p] \in Running
    /\ pc' = [pc EXCEPT ![p] = "killed"]
    /\ UNCHANGED <<sem, count, handlers, taken, named, value, lxc, holders>>

\* Every run has ended: nothing is left to do.
Finished ==
    /\ \A p \in Procs : pc[p] \in Ended
    /\ lxc # "STARTING"
    /\ UNCHANGED vars

-----------------------------------------------------------------------------
Startup(p)  == SemOpen(p) \/ GetValue(p) \/ Post(p)
                 \/ LxcStart(p) \/ LxcStartFails(p)
                 \/ Installed(p) \/ LxcWait(p)
Shutdown(p) == SemWait(p) \/ CountLeft(p) \/ LxcStop(p) \/ SemUnlink(p)
Steps(p)    == Startup(p) \/ LxcAttach(p) \/ Logout(p) \/ Shutdown(p)

Next ==
    \/ \E p \in Procs : Refuse(p) \/ SemOpenFails(p) \/ Steps(p) \/ Kill(p)
    \/ \E p \in Procs, sig \in Signals : Signal(p, sig)
    \/ LxcBoot
    \/ Finished

Spec == Init /\ [][Next]_vars

\* A run that can take a step takes it, a booting container comes up, and a
\* session ends some day.
Fairness == WF_vars(LxcBoot) /\ \A p \in Procs : WF_vars(Steps(p))

FairSpec == Spec /\ Fairness

-----------------------------------------------------------------------------
(* Runs that do not overlap inside the startup and shutdown sequences *)

\* Program points between reading or changing the count and acting on it.
Deciding == {"getvalue", "post", "start", "left", "stop", "unlink"}

OneDecides == \A p, q \in Procs : pc[p] \in Deciding /\ pc[q] \in Deciding
                                    => p = q

\* The behaviours in which startup() and shutdown() happen to be atomic with
\* respect to each other.  This is an assumption about how the program is used:
\* the counting scheme presumes it and nothing in the code enforces it.  Spec
\* has every overlap, and LastOutStops shows what one of them does.
SerialSpec == Init /\ [][Next /\ OneDecides']_vars /\ Fairness

-----------------------------------------------------------------------------
(* Properties *)

\* The variables have their types: in particular no semaphore goes negative.
TypeOK ==
    /\ pc \in [Procs -> PC]
    /\ sem \in [Procs -> Procs \cup {None}]
    /\ count \in [Procs -> Nat]
    /\ handlers \in SUBSET Procs
    /\ taken \in [Procs -> SUBSET Signals]
    /\ named \in Procs \cup {None}
    /\ value \in [Procs -> Nat]
    /\ lxc \in {"STOPPED", "STARTING", "RUNNING"}
    /\ holders \in SUBSET Procs

HoldersOf(s) == {p \in holders : sem[p] = s}

\* No run has handled a signal so far.
Quiet == \A p \in Procs : taken[p] = {}

\* Until a signal is handled the value of every semaphore is the number of runs
\* that posted it in startup() and have not waited for it in shutdown(),
\* whatever the interleaving and whichever runs were killed or failed to start.
CountConserved ==
    Quiet => \A s \in Procs : value[s] = Cardinality(HoldersOf(s))

\* Even when signals re-enter shutdown(), a semaphore never counts more runs
\* than hold it.
CountNeverOver == \A s \in Procs : value[s] <= Cardinality(HoldersOf(s))

\* Until a signal is handled the sem_wait in shutdown() never blocks: the run's
\* own post is still there to be taken, whichever runs come and go.
SemWaitNeverBlocks ==
    Quiet => \A p \in Procs : pc[p] = "sem_wait" => value[sem[p]] > 0

\* shutdown() decides to stop the container only when no other run, killed ones
\* included, is still counted in the semaphore it used.
StopDecision ==
    [][\A p \in Procs : Quiet /\ pc[p] = "left" /\ pc'[p] = "stop"
                          => HoldersOf(sem[p]) = {}]_vars

\* When every run has ended and no run was signalled, killed or left through
\* crit(), the container has been stopped and no counter is left under COUNTER:
\* however startup() and shutdown() overlap, and even though sem_unlink may
\* remove a name that a later run has created, the last run to leave each
\* semaphore reads 0 and cleans up.
AbandonedOnlyByFailure ==
    (/\ Quiet
     /\ \A p \in Procs : pc[p] \in Ended
     /\ lxc # "STOPPED" \/ named # None)
      => \E p \in Procs : pc[p] \in {"crit", "killed"}

\* Every run ends, or waits for ever in the lxc-wait of startup() for a container
\* that another run has stopped.  Nothing else holds a run up: in particular it
\* never waits for ever on the semaphore.
Termination ==
    \A p \in Procs : \/ <>(pc[p] \in Ended)
                      \/ <>[](pc[p] = "lxcwait" /\ lxc = "STOPPED")

\* In the end the container is stopped and its counter is gone.
AllQuiet == <>[](lxc = "STOPPED" /\ named = None)

\* lxcuser.1: "When the last lxcuser instance exits, the lxc container is
\* automatically shut down as well."
LastOutStops == (\A p \in Procs : pc[p] \in Ended) => lxc = "STOPPED"

-----------------------------------------------------------------------------
(* What lxcuser promises of the container *)

\* The runs that use the container; the last one out uses it until it is down.
ActiveRuns ==
    {p \in Procs : \/ pc[p] \in {"install", "lxcwait", "attach", "session",
                                 "sem_wait"}
                   \/ pc[p] \in {"left", "stop"} /\ value[sem[p]] = 0}

Service == INSTANCE LxcService WITH Users <- Procs, active <- ActiveRuns,
                                    up <- lxc # "STOPPED"

\* The container is up exactly while somebody uses it: Service!Spec.
ServiceSpec == Service!Spec
=============================================================================
