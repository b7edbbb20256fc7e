# A TLA+ verification of ProduceIt

ProduceIt runs shells, package builds and lxc logins in prepared Linux root file
systems. Three setuid programs carry its logic: `lxcuser`, `shellit` and
`buildit`. They keep no daemon and no lock. Runs that overlap meet only in what
the kernel and the file system share between them: a named semaphore, a
container, directories, mount points, temporary file names, an installed distro,
an archive. This project models that part and what each run does before and
around it, checks it with TLC and proves its main invariants with TLAPS.

Paths below are relative to the repository; `lxcuser.cpp` is `src/lxcuser.cpp`
of it, and so on.

## 1. Inventory

| Part | State it keeps | Operations | Interacts with |
|---|---|---|---|
| `lxcuser` (lxcuser.cpp) | global `sem`, the named semaphore `COUNTER`, the container | `startup()`, login in `main()`, `shutdown()` as a call and as a signal handler, `crit()` exits | other runs through the semaphore and the container |
| mount and tmpdir classes (mount.cpp) | `path` of each object; mounts, directories | constructors, `bind`, `temp`, `proc`, `release`, destructors | other sessions through `/tmp/.produceit` and the mount points inside the distro |
| `fork_handler`, `fork_command` (proc.cpp) | wait status | fork, wait, throw the exit code | `shellit`, `buildit` |
| `shellit` (shellit.cpp) | a list of RAII objects, a child in the chroot | set-up, fork, wait, unwind | all of the above, file copying |
| `buildit` (buildit.cpp) | the same, and the list of tasks of pid 1 | set-up, update tasks, `debian()`, unwind | all of the above, file copying |
| file copying (fsys.cpp) | source, `.tmp` and target files | `copy_file`, `copy_dsc` (`remove_dsc` has no caller) | other copiers through the fixed `.tmp` name |
| other helpers of fsys | none | `exists`, `create_directory`, `remove_directory`, paths, status | sessions |
| arguments (args.cpp) | registered options, the pointer into `argv` | the constructor of `args` | the three programs |
| key files (keyfile.cpp) | settings by section and key | defaults, `load()` | `shellit`, `buildit` |
| directory listing (dir.cpp), strings, output | an open directory | `open`, `get`, `next`, `close`; pure functions; messages | `debian()`, the parsers |
| `deb-archive`, `deb-remove`, `deb-release` (utils/*.rb) | an archive directory | copy, move, remove, rebuild the index | builds that read the archive |

What is hard to test in this code, and where it bites, is the list `hazards` of
PROJECT.json. In short:

* *lxcuser*: reading the count and acting on it are separate calls; a run can
  fail or be killed between its post and its wait; a signal re-enters
  `shutdown()`; `sem_unlink` removes whichever semaphore has the name.
  It is correct if the semaphore counts the runs that hold it, `shutdown()` never
  blocks, the container is up exactly while somebody uses it, and all runs end.
* *sessions*: seventeen or eighteen set-up steps, each of which may fail and must
  then be undone in reverse; directories shared by all sessions; `umount` and
  `rmdir` whose results are ignored; killed parents and children. They are correct
  if nothing stays behind, nothing stays mounted that is out of scope, a session
  is not disturbed by others, its exit code is that of its command, and it ends.
* *copying*: one temporary name for all processes, errors of the stream that
  nobody looks at, a list that must be copied in order. It is correct if a `.dsc`
  appears only after its files and a target is never partial.
* *starting*: a parser that moves one pointer from three places, values that look
  like options, a configuration in which sections and entries come again and a
  second file stands in for the first. It is correct if every start has the
  outcome that the command line and the files mean.
* *building*: pid 1 goes on after a build that was killed or left no result;
  builds of one distro install and purge the same dependencies; each package is
  built in the same place. It is correct if what is reported a success is there,
  0 means built, and the distro is left as it was.
* *the archive*: scripts without a lock that can be killed or fail between any two
  steps of a copy and are started again. It is correct if no file is lost and nobody finds a
  control file without its files where the scripts promise an order.

## 2. Modules

| Module | Content |
|---|---|
| `LxcUser` | runs of `lxcuser` that share one container |
| `LxcService` | abstract specification: what `lxcuser` promises of the container |
| `Session` | overlapping `shellit` and `buildit` sessions on one distro |
| `CopyFile` | `copy_file`, `copy_dsc` and the repository file, written by several processes |
| `Args` | the parser of the command line |
| `KeyFile` | the settings: defaults and `load()` |
| `Startup` | composes `Args` and `KeyFile`: `main()` of `shellit` and `buildit` up to the session |
| `Build` | the package loop of `buildit`, pid 1, `debian()` command by command |
| `DebArchive` | `deb-archive`, `deb-remove`, `deb-release` |
| `MCLxcUser`, `MCSession`, `MCCopyFile`, `MCStartup`, `MCBuild`, `MCDebArchive` | instances for TLC, with their `.cfg` files |
| `LxcUserProofs`, `SessionProofs`, `CopyFileProofs`, `ArgsProofs`, `StartupProofs`, `BuildProofs`, `DebArchiveProofs` | theorems about the module each is named after |
| `LxcServiceProofs` | that `LxcUser` implements `LxcService` |

A run of `buildit` is followed through four modules: `Startup` ends with the root
file system that the session goes on with; `Session` has the directories, mounts
and processes of the session with one step for the work of a task; `Build` has
that work, with one step for each copy of a `.dsc`; `CopyFile` has the steps of the
copy.

Definitions marked *Mutant* state a plausible mistake in the definition that
follows them. Nothing uses them; put in its place they make a property fail,
which shows that the property depends on the code.

### LxcUser

`pc[p]` follows run `p` through `main()`, `startup()`, the login and
`shutdown()`. There is one step for each library call and each `system()`, since
other runs may come in between any two of them. `lxc-attach` lasts as long as
the user's session and has a step for each end. A semaphore object is named after the
run whose `sem_open` created it, so that the object a run has open (`sem[p]`) and
the one that the name leads to (`named`) can differ, as they do after
`sem_unlink`. `count[p]` is the local variable, `handlers` and `taken` the
signal dispositions, `holders` a history variable: the runs that have posted and
not waited.

`Signal` stands for a handled signal. The handlers are installed after
`lxc-start`, `system()` ignores SIGINT and SIGQUIT while its command runs, and a
signal is blocked while its handler runs (the BSD semantics of glibc's
`signal`). `shutdown(signo)` starts anew and ends in `exit`. After `sem_close`
glibc has unmapped the semaphore, so its `sem_wait` kills the run. `Kill` is
SIGKILL, SIGHUP, or another signal without a handler.

External, from how the code uses them: the container (`STOPPED`, `STARTING`,
`RUNNING`); `lxc-start` fails on one that is not stopped, `lxc-attach` on one that
is not up, and `lxc-stop` always works. Names, the 64-byte buffers, messages and
the checks of users and groups before `startup()` (`Refuse`) are abstracted.

`LxcService` has two variables, the users of the container and whether it is up,
and four actions: the first user starts it, later ones join and leave, the last
one stops it. `LxcUser!Service` instantiates it with `ActiveRuns`, the runs
between a successful start (or joining) and their `sem_wait`, and the last one
out until the container is down.

### Session

`Setup(s)` is the list of objects that `main()` constructs, in the order of the
code; `n[s]` says how many of them exist. Construction goes up the list,
unwinding goes down, and an exception (`Throw`) turns the one into the other.
Steps that other sessions can observe half done are two steps: `exists` and
`create_directory` of a store directory, `create_directory` and `mount`, `umount`
and `rmdir`. `child[s]` is pid 1 in the chroot: it makes and mounts `/proc`, then
runs the shell, or the tasks of `buildit` with a tmpfs on `/tmp` around each.

Shared state: the `prefix` and `sources` directories (`made`), one directory per
session (`sdirs`), the mount points in the distro (`dirs`), the store (`store`).
`mnt[s]` is what is mounted in the session's namespace. `crowd` is a history
variable: sessions that ran beside another one.

Choices a reader should know of:

* Mount propagation is taken to be private, so a session sees only its own
  mounts. The kernel lets `rmdir` remove a directory that is a mount point in
  *another* namespace only, and detaches that mount; inside the caller's own
  namespace it is refused.
* `Solid` is the set of mount points that have content in the distro, which
  `rmdir` therefore never removes. `/dev` is always one of them.
* The item `unshare` stands for `unshare()` and the file copying after it; the
  copying itself, and the repository file written after the archive mount, are
  `CopyFile`. The creation of `rootuser` (shellit.cpp:199) and `homefs`
  (buildit.cpp:278), whose results are ignored, the mounts of `[bind]`,
  environment, qemu and personality are left out.
* A failing `fork()` leaves `status` uninitialized (proc.cpp:51). `ForkFails`
  takes any of the exit codes for it.
* A child that cannot mount `/proc` unwinds its copies of the parent's objects.
  Their paths do not resolve inside the chroot, so this changes nothing.
* A process id is used again (`Rerun`) once neither the session nor an orphaned
  pid 1 of it runs.
* `debian()` and `task()` are a mount, one step for the command with some exit
  code, and a release; `Build` has their commands.

### CopyFile

Copiers work through the same list of `Last` files. Each file has a temporary
name and a target name, each naming an inode or nothing; an inode is named after
the copier that created it and the file, and `data` says which of its `Size`
pieces it holds. `Open` truncates what the temporary name names. Every later
call (`Permissions`, `Rename`, `Undo`) acts on what the *name* names by then, and
`Write` on the open inode. With `Dsc` the files that are not `Optional` are those
of `copy_dsc`, which looks for the last one first (`Absent`); otherwise the list is
that of the `/etc` files, in which one may be `Optional`. `Repo` is the file
`chroot.list` or `chroot.repo` that `main()` writes itself (shellit.cpp:294-324,
buildit.cpp:394-428): a failing open skips it, nothing sets its permissions, the
result of the rename is ignored and nothing is undone. Any call may fail up to
`MaxFaults` times. `shared` and `cut` are history variables.

### Args, KeyFile and Startup

`Args` is the loop of the constructor: `list` is the pointer, `Long` a long name
with its value, `NoLong` and `Letter` a group of letters, `TakeValue` the
`*(list++)` of both. An element of the command line is a record of what the loop
finds out about it: its dashes, the option whose long name it begins with (the
code compares only as many characters as the name has, so `--archive` is
`--arch`), whether `=` follows, its letters, and what it says as a word. `value`
of `Mode` is left out, since no program asks for it.

`KeyFile` is `load()` over lines of five classes. An entry without a value throws
(`substr(npos)`); the settings read before it stay. `SetDefaults` takes any of the
`Configs` for what the two files hold when they are opened.

`Startup` extends both and adds what `main()` does before them, the checks of
`geteuid()` and, in `shellit`, of the current directory (`Bar`, exit code 2), and
what it does with them: help, no operand,
defaults, the two files, the refusals and `fsys::exists(distrofs)`, each exit
with its code. `Expected` says the outcome without the pointer and without the
order of steps: `Correct`, `FirstOperand` and `Value` define what a command line
means, `Read` and `Meaning` what the files mean. Parsers and reference are written
independently, and `ParsesRight`, `LoadsRight` and `EndsRight` compare them.

Two observations that no property is about: `[bind]` is read with source and
target the other way round than the comment in produceit.conf:10-13, and `buildit`
prefixes its `PATH` before the file is loaded, so an entry there replaces it.

### Build

`pc[b]` follows a run of `buildit`: `main()` over its packages, pid 1 over its
update tasks and packages, and the process that `debian()` forks over the four
commands and the listing of `/tmp/buildd`. `source`, `results` and `installed` are
shared by the runs: the source directory, the directory they were started from,
and the dependencies installed in the distro.

* `fork_handler()` throws a non-zero exit code, which ends the build, pid 1 and
  the run with that code. For a process that was killed it sees 0: a killed
  command is followed by the next one, a killed build by the next package, and a
  killed pid 1 ends the run with 0.
* A `fork()` that fails leaves `status` uninitialized (proc.cpp:51), for pid 1, a
  build, a task or a command. `ForkThrows` and `CommandFails` have the codes that
  are thrown, `NotForked` the value 0, after which the caller goes on as if the
  process had run; `unforked` is a history variable.
* The message of a success is written to `/dev/null` without `--verbose`; `report`
  is what the code reports, whether or not somebody can read it.
* A killed `mk-build-deps` or `apt-get purge` may have done its work or not. One
  process of a run is killed at most, and what an orphaned command still does
  after its build was killed is not followed.
* `.src.rpm` is compared with seven characters (buildit.cpp:354), so `IsSrcRpm`
  never holds. `ZeroMeansBuilt` rests on that: pid 1 only builds `.dsc` files and
  would pass over a source rpm without a word, as the mutant shows.
* An empty item in `Build-Depends` makes `strip()` throw in pid 1, where only
  `bad_mount` and `int` are caught; the handler of `main()` returns 1.
* A `.changes` file that is copied out is one step; its own steps are `CopyFile`.

### DebArchive

`archive` gives each name in the archive an inode and `writer` says whether that
inode is whole. `Order` is the order of the files: a copy begins with the control
file, a move and a removal end with it. `Begin` looks for the control file and
`ReadList` opens it again; `Look` is the test before a listed file and what follows
is the call, with `Vanished` for a file that has gone in between. A copy opens its
source (`OpenSource`), opens and truncates its target (`OpenTarget`), writes
(`WriteTarget`) and, with `preserve`, sets owner and times by name (`Metadata`). A move
is a `Rename`, or across devices such a copy and an `Unlink`. A file in the origin is
the inode `Src`, which a rename brings into the archive: a copier that has it open
may then truncate it as its own target.

`Fails` is a call that fails from outside. Every error of FileUtils (`Error`) ends
the script with 1, except that a forced move ignores it and goes on; a control file
that cannot be opened always ends it. `deb-archive` passes its options to
`FileUtils.move` as a hash (deb-archive.rb:76, 79), which is taken as Ruby 2 takes
it, as keywords. A run that was killed or failed may be started again.

`Release` is modelled as the value of each field: the five that `deb-release` knows
(`Kept`), and `Other` for all that it does not. `Cut` is the part of a value before a
colon. `ReadRelease` takes the last value of a field that is not blank (deb-release.rb
skips blank ones), or its default; the block writes the known fields when it ends,
after the `mv` inside it (deb-release.rb:90). Date and checksums are computed anew each
time and left out, as are file extensions and the way lines under `Files` are found.
A control file that another run has only half written is read as a whole one.
`Release` and the directories exist at first: the aborts at deb-release.rb:34-35 and
deb-archive.rb:50-51 change nothing.

## 3. Runs

Passing runs:

| Run | Instance | Shows |
|---|---|---|
| `lxc_counts` | 3 runs, SIGINT and SIGTERM, failing `lxc-start`, one run killable | `CountNeverOver` under everything; `CountConserved`, `SemWaitNeverBlocks`, `StopDecision`, `AbandonedOnlyByFailure` until a signal re-enters `shutdown()` |
| `lxc_serial` | 3 runs that do not overlap inside start-up and shut-down (`SerialSpec`) | the code implements `LxcService` (`ServiceSpec`); in the end all is stopped (`AllQuiet`). Nothing in the code keeps runs apart like this: the run says what holds without the races that `lxc_last_out` and the consequences below show |
| `lxc_live` | 3 runs that overlap anywhere, failing `lxc-start` | every run ends, or waits for ever in `lxc-wait` for a container that another one has stopped, and nothing else holds it up (`Termination`) |
| `session_dirs` | a `shellit -X` of a user and a `buildit`, every set-up step may fail, the shell may be killed | `NoStrayDirs`, `OutOfScopeUnmounted`, `SessionEnds` |
| `session_mounts` | the same two programs, either parent killable, process ids reused | `LoneSucceeds`, `SolidMountsKept` |
| `copy_race` | 2 runs, the repository file and a `.changes` with one file, 3 pieces each, two failing calls, both killable | `InOrder`, `PartialOnlyIfShared`, `NoTmpLeft`, `RaceHasWinner` |
| `startup` | both programs, all command lines of up to two out of 16 elements, three out of 8 and some of four; 18 pairs of files; with and without the rights of root and a current directory | `InBounds`, `ParsesRight`, `LoadsRight`, `EndsRight`, `DirectoriesKnown`; every start ends (`StartEnds`) |
| `build` | 2 runs, 7 lists of packages, with and without `--depends`, one failing call, command or `fork()`, one process of one run killed | `SuccessHasResults`, `ZeroMeansBuilt`, `DependsAccounted`, `LoserHasWinner`; every run ends (`BuildEnds`) |
| `archive` | 2 runs, 7 jobs each, a `.changes` with a `.dsc` and a tarball, same or another device; each run may meet one failure, be killed once and be started twice | `NothingLost`, `ArchivedWhole`, `MoveKeepsOrder`, `RemovedInOrder`, `ReleaseKept` |

Runs that show where the code and its documentation differ:

| Run | Documentation | What happens |
|---|---|---|
| `lxc_last_out` | lxcuser.1: the container is shut down when the last instance exits | The first run has had its session, and its `sem_wait` takes the semaphore to 0. Before it reads the value, a second run that has opened the same semaphore reads 0 and posts. The first one then reads 1 and exits without stopping the container; the `lxc-start` of the second one fails because the container is up, and it leaves through `crit()` with its post in the semaphore. |
| `session_private` | shellit.1: "bind mounts and a private namespace" | A session that ends removes an empty mount point, such as `/sys`, which detaches what another session has mounted there. |
| `copy_full` | buildit.1: results, "when successful, are copied back" | A full disk truncates the temporary file, which is renamed all the same, and `true` is returned. |

More consequences follow from the same lines and can be seen by changing an
instance or a property.

* A run of `lxcuser` leaves and reads 0; another one posts and logs in before its
  `lxc-stop`, and loses its container (`pc[p] = "session"` with `lxc = "STOPPED"`).
  `StopDecision` speaks of the decision only and does not exclude this.
* A run that has just created a new semaphore loses its name to the `sem_unlink` of
  the one before. It is still counted, cleans up after itself and so
  `AbandonedOnlyByFailure` holds, but later runs count in yet another semaphore.
* A run that has to wait for the container can be left waiting in `lxc-wait` for
  ever, by one that stops it (the exception in `Termination`).
* A failed `lxc-start` leaves the count at 1, and later runs do not start the
  container. A SIGTERM during `shutdown()` waits for a post that is already taken.
* `WEXITSTATUS` of a killed command is 0, so `shellit` returns success for it
  although shellit.1 says that it returns "with the exit code status".
* A killed pid 1 of `buildit` leaves `/tmp` mounted, and the release of the
  session's root is refused.
* A failed build leaves its dependencies installed; a build that loses them to
  another one fails (what `DependsAccounted` and `LoserHasWinner` allow).
* A `fork()` that fails leaves the status to chance. If it is 0, `buildit` takes a
  command for done, passes over a package, or returns 0 without having built
  anything (the exception `unforked` in `ZeroMeansBuilt` and `DependsAccounted`).
* Without an entry `homefs` the home directory of `buildit` is the host's `/root`
  (the exception in `DirectoriesKnown`).
* A copy by `deb-archive` that is killed leaves a control file without its files,
  and a repeated run without `--force` stops at it (`MoveKeepsOrder` holds only of
  moves).
* A copy by `deb-archive` that has opened its source while another run renames that
  into the archive truncates it: the file is lost (`Mixed`).
* A forced move to another device whose copy fails keeps the original, goes on,
  puts the control file into the archive and exits with 0 (`Ignoring`).
* `deb-release` drops all fields but five and what follows a second colon in a
  value. A run that starts while another one is between `mv` and the end of its
  block reads an empty file and writes the defaults; one that is killed or meets a
  full disk there leaves `Release` empty.

**Bounds.** Three runs of `lxcuser` are needed for one to enter between two
others that leave, two for every race between a leaver and a starter. Each
process runs once: a later run is another process. Two sessions suffice for
what one can do to another's directories, since each step of a session looks at
shared directories only, and the proofs cover any number. `MaxTasks = 1` gives a
build with and one without a command. `Codes` has a zero and a non-zero code. `MostlySolid`
keeps three removable mount points so that the run with all faults stays small;
`DistroSolid` is the distro as debootstrap leaves it. Two pieces are the fewest
for a partial file, and three let a copier truncate one that is half written and
be overtaken; two files are the fewest for an order. Four elements are enough for
a group of letters that takes a value, a second option and two operands; each
class of element and of line occurs, alone and before each other one. The lists of
packages of `build` have the same package in both runs in either order, the
package without a valid `Build-Depends` after another one, and each kind that is
refused. Three files are the fewest in which a control file names another one. The
seven jobs of `archive` have each mode, copies and moves with and without `--force`,
a copy that preserves and one that does not, and a second argument that names what
the first one has already handled. One failure and one kill per run and two starts
are enough for a run to meet what it, or another one, left half done.
Symmetry is used only in runs of invariants whose processes have the same options.

**Deadlock** is checked except in `lxc_counts` and `lxc_live`. There a run can really
stop for ever: of three runs one can wait in `lxc-wait` for a container that another
has stopped, and in `lxc_counts` a signal that re-enters `shutdown()` blocks in
`sem_wait`.

**Fairness.** `LxcUser!Fairness`: a run whose next call can return makes it
(the scheduler runs every process), a container that boots comes up, and a login
ends some day. `sem_wait` and `lxc-wait` are taken only when they are enabled:
weak fairness does not unblock them. `Session!Fairness`: the same for the parent
and pid 1 of each session, whose command ends some day. `Startup!Spec`: the program
is one process that waits for nobody, so it goes on while it can. `Build!Fairness`:
each run goes on while it can, since pid 1 only waits for commands and those end
some day. No fairness is assumed of signals, kills, faults, or a session's start.

## 4. Proofs

`tlapm` checks every proof, and no theorem depends on a bound: they hold for any
number of processes, any lists, files, options, faults and kills that the
constants allow. Every safety invariant and every action property of the passing
runs is a theorem.

| Theorem | States | Invariant |
|---|---|---|
| `LxcUserProofs!TypeCorrect` | `Spec => []TypeOK` | `TypeInv`: a run past `sem_open` has a semaphore |
| `LxcUserProofs!NeverOver` | `Spec => []CountNeverOver` | `OverInv` |
| `LxcUserProofs!Conserved` | `Spec => []CountConserved` | `ExactInv` |
| `LxcUserProofs!NeverBlocks` | `Spec => []SemWaitNeverBlocks` | `ExactInv` |
| `LxcUserProofs!StopsWhenUnused` | `Spec => StopDecision` | `ExactInv` |
| `LxcUserProofs!OnlyFailureAbandons` | `Spec => []AbandonedOnlyByFailure` | `AttendInv`: a container that is up has a run that answers for it |
| `LxcServiceProofs!SerialImplementsService` | `SerialSpec => ServiceSpec`, under `Undisturbed` | `SerialInv` |
| `SessionProofs!TypeCorrect` | `Spec => []TypeOK` | `TypeInv`: a half-done step is one of the list |
| `SessionProofs!Unmounted` | `Spec => []OutOfScopeUnmounted`, under `Gentle` | `ScopeInv` |
| `SessionProofs!NoStray` | `Spec => []NoStrayDirs`, under `Gentle` | `HeldInv` |
| `SessionProofs!SolidIsKept` | `Spec => []SolidMountsKept` | `FirmInv` |
| `SessionProofs!LoneIsServed` | `Spec => []LoneSucceeds`, under `Faultless` | `FirmInv`, `LoneInv` |
| `CopyFileProofs!TypeCorrect` | `Spec => []TypeOK` | `TypeInv`: a writer has an inode and pieces left |
| `CopyFileProofs!DscComesLast` | `Spec => []InOrder` | `OrderInv` |
| `CopyFileProofs!TmpIsRemoved` | `Spec => []NoTmpLeft` | `Tended`: a temporary file has a copier that is busy with it |
| `CopyFileProofs!PartialIsShared` | `Spec => []PartialOnlyIfShared` | `PartialInv` |
| `CopyFileProofs!RaceIsWon` | `Spec => []RaceHasWinner` | `RaceInv` |
| `ArgsProofs!ParserInBounds` | `ArgsSpec => []InBounds` | `ArgsInv` |
| `ArgsProofs!ParserIsRight` | `ArgsSpec => []ParsesRight` | `ParseInv` |
| `StartupProofs!TypeCorrect` | `Spec => []TypeOK` | `StartInv` |
| `StartupProofs!LoadIsRight` | `Spec => []LoadsRight` | `LoadInv` |
| `StartupProofs!DirectoriesAreKnown` | `Spec => []DirectoriesKnown` | `LoadInv` |
| `StartupProofs!StartEndsRight` | `Spec => []EndsRight` | `EndInv` |
| `BuildProofs!TypeCorrect` | `Spec => []TypeOK` | `TypeInv`: a run at a package is within its list |
| `BuildProofs!SuccessIsReal` | `Spec => []SuccessHasResults` | `SuccessInv` |
| `BuildProofs!ZeroIsBuilt` | `Spec => []ZeroMeansBuilt` | `ZeroInv` |
| `BuildProofs!DependsAnswered` | `Spec => []DependsAccounted` | `DependsInv` |
| `BuildProofs!LosersHaveWinners` | `Spec => []LoserHasWinner` | `ContestInv` |
| `DebArchiveProofs!TypeCorrect` | `Spec => []TypeOK` | `TypeInv`: where each run is in its arguments and files |
| `DebArchiveProofs!NothingIsLost` | `Spec => []NothingLost` | `KeptInv`, `SrcInv`, `WriterInv`, `SerialInv` |
| `DebArchiveProofs!ArchivedIsWhole` | `Spec => []ArchivedWhole` | `DoneInv`, `WriterInv`, `TornInv` |
| `DebArchiveProofs!MoveIsOrdered` | `Spec => []MoveKeepsOrder` | `MoveInv`, `SerialInv` |
| `DebArchiveProofs!RemoveIsOrdered` | `Spec => []RemovedInOrder`, under `CompleteArchives` | `RemoveInv` |
| `DebArchiveProofs!ReleaseIsKept` | `Spec => []ReleaseKept` | `InfoInv`, `EmptyIsOpen`, `ReleaseInv` |

*lxcuser.* That a value equals the number of holders is not inductive: a run
could create a semaphore under an identity that already has holders, a post could
count a run twice, and a wait could take somebody else's post. `Bookkeeping`
excludes the first two: a run before `sem_open` has no semaphore, one before
`sem_post` is no holder. `HoldsThere` excludes the third: between its post and its
wait a run is a holder. A signal breaks `HoldsThere`, because `shutdown()` may
then wait twice. So `ExactInv` asks for it only while `Quiet` holds, and the lemma
`QuietStep` says that a step into a quiet state is no signal and starts in a quiet
state. What survives signals is the inequality `CountNeverOver`. The proofs use
the finiteness of `Procs` and the library's facts about cardinalities.

*The refinement of `LxcService`.* `Undisturbed` says that no run is signalled or
killed and that `lxc-start` starts a stopped container; each of the three really
breaks the promise. With `SerialSpec`, `SerialInv` adds to the exact count that
all runs at work have the semaphore that the name leads to (`SameSemaphore`), that
what a run has read of the count is still true when it acts on it
(`DecidesOnTruth`), and that the container is up exactly while it is used
(`UpWhileUsed`). The users of the abstract container are then definable without
the semaphores (`Occupants`), and each step is one of its four actions or a
stutter: `LxcStart` is `First`, a `Post` that finds the container up is `Join`, a
`SemWait` that leaves others behind is `Leave`, `LxcStop` is `Last`.

*Sessions.* `Gentle` says that no parent is killed and no `buildit` pid 1; both
really break the statements, since destructors then do not run. `ScopeInv` relates
`mnt[s]` to the list: what is mounted belongs to objects constructed and not yet
unmounted (`InScope`), or is the `/tmp` of a running command. Unwinding in reverse
then never meets a busy mount point, because nothing in the list comes before a
mount point it is mounted below (`GoodList`, proved of both lists). `Phases` ties
`n`, `pc` and `child` together. `Held` adds that a directory in `/tmp/.produceit`
is held by an object of some session, so that the last one to let go removes it
and finds it empty.

`FirmInv` needs no `Gentle`: it says only what is mounted and not what is unmounted,
and only of mounts on directories that no other session can remove, so no step of
another session can break it. `LoneInv` says of a live session outside the crowd
that no other one is live, and that it is `Well`: what it has constructed is there,
what it found missing is missing still. Directories that killed sessions left
behind do it no harm, because the code looks for them or ignores that they exist.
`Faultless` is `Faulty = {}`, the instance of the run: a failing call is of course
enough for a lone session to fail.

*Copying.* `Passed` says that the files before the one a copier is at are in the
target already, except optional ones. Nothing removes a target, so a rename keeps
the order. For partial targets the invariant is about names: as long as a copier
is busy with a file the temporary name leads to the inode that it has open, unless
both that inode and what has the name by now were opened while two were busy with
the file (`NameOrShared`, `TwoShare`). So what is renamed is either what this copier
wrote by itself or a shared inode. The race has a winner because a copier gives a
file up only when its target is there (`GivenUp`), which needs that another one
renamed it and went on (`WentOn`); the target is complete since an inode with a
name is, or has a writer from whose first piece on nothing is missing (`Filled`).

*Arguments.* For any set of options and any command line the pointer is behind the
null only when the parser throws. `InBounds` is not inductive by itself: a group
of letters must be an element of the command line, and the pointer is advanced by
two places in one step of `Long`, so `ArgsInv` adds where `group` and `list` are in
each state. For `ParsesRight`, `ParseInv` says how far the walk over the heads
has come: the pointer is at the next head (`Walked`), and each option is set as its
one place so far says, if there is one (`Counted`). The reference definition of the
heads is a recursive function. That it exists and is the least set closed under
going from one head to the next (`Reached`) is proved with the least element of a
set of numbers (`LeastOf`), because the library's induction theorems cannot be used.

*Starting.* `LoadInv` says that after each line every setting has the value of the
last entry for it so far, the section is that of the line read next, and no entry
so far was without a value. Together with `ParseInv` it gives the outcome of each
start: `Configured` adds that a program which loads has an operand and was not
asked for help.

*Building.* A success is real because the tmpfs of a build holds nothing of
another package and the listing returns only what is in it (`ListsOwn`); nobody
removes results. `DoneBefore` says that the packages before the one pid 1 is at
are done, and `Accepted` that nothing but `.dsc` files came through the checks, which
rests on the comparison with seven characters. `Contest` says of a run with
`--depends` that its dependencies are installed unless another run which built the
package has purged them, so a run that fails there has lost to that one.

*The archive.* Two kinds of argument. Without an overlap (`AloneInv`) a run that
works is the only one, so what it opened is what the name leads to (`SerialInv`); a
kill or a failing copy leaves at most its own file torn (`TornInv`), with the original
still there, and a restarted run meets it again. With overlaps but without kills,
failures and copies beside renames, no copier truncates an original, since the
archive has one only after a rename (`SrcInv`), and whoever truncated a file last is
about to write it (`WriterInv`), so at the end nothing is torn. `DoneInv` says what a run has
behind it when it goes on, for which `StepKinds` sorts the steps into those that go on
with a file done, skip one that is not there, and stay. The orders follow from what
is behind a run in its list: nothing of it left in the archive (removal), nothing
left in the origin (moves, `MoveInv`). For `Release`, `EmptyIsOpen` says that an inode
which is empty has a run that is about to write it, and `ReleaseInv` follows the
text through a run; that the next run does not change it again rests on the
lemma `ReadsTheSame`: rewriting is idempotent. `CompleteArchives` says
that no archive has at first files of a control file that is missing; without it
the order is broken before the first step.

Assumptions: those named in the modules (`ProcsAssumption` and so on), which TLC
evaluates in every run, and the four above. The named ones say what the code or
the form of its input gives: an exit code is a byte, no option has an empty long
name, a job of `deb-release` has no arguments, there is a copier, the marker for
an unset value is no value.

**Only model-checked**: liveness (`Termination`, `AllQuiet`, `SessionEnds`,
`StartEnds`, `BuildEnds`), which the prover cannot do, and the three runs that
show a disagreement by a counterexample.

## 5. Not modelled

Output streams (messages), `args::help` and `Mode`, the option classes no program
uses, path and status helpers of fsys and the other string functions (pure code on
strings), the mounts of `[bind]`, environment, qemu and personality, the lengths of
the 64-byte buffers of `lxcuser` (a long container or user name cuts the end of a
command off; no interleaving matters there), and the checksums of `deb-release`. PROJECT.json
gives the reason for each.

## 6. Plan

1. `LxcUser`, `Session`, `CopyFile` with their runs and first theorems (done).
2. `Args`, `KeyFile`, `Startup`, `Build`, `DebArchive` and the repository file
   in `CopyFile` (done).
3. Every safety invariant and action property of the passing runs, and the
   refinement of `LxcService`, as theorems (done).
4. Progress measures: that each step of `Startup` and of a run in `Build` brings it
   nearer to its end, as action properties that say why `StartEnds` and `BuildEnds`
   hold for every input.
5. The mounts of `[bind]` in `Session`.
