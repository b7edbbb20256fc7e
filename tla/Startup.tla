------------------------------ MODULE Startup ------------------------------
(***************************************************************************)
(* How shellit and buildit start: main() checks that it has the rights of  *)
(* root and a current directory, parses its command line (Args), assigns   *)
(* defaults and loads the configuration (KeyFile), and goes on with the    *)
(* root file system that the three of them name, or ends with an exit code *)
(* for the first thing that is wrong.  What follows is Session.            *)
(***************************************************************************)
EXTENDS Args, KeyFile

CONSTANTS
    Programs,   \* subset of {"shellit", "buildit"}
    Machine,    \* uts.machine
    Rootfs      \* root file systems that exist: path, distro, architecture

ASSUME ProgramsAssumption == Programs \subseteq {"shellit", "buildit"}
ASSUME SystemSettings ==
    \A k \in {"rootfs", "homefs", "archive", "prefix", "source"} : <<"system", k>> \in Settings
ASSUME StartOptions == {"helpflag", "althelp", "arch"} \subseteq Options /\ "arch" \in Uses

VARIABLES
    prog,       \* the program
    privileged, \* is geteuid() 0?
    cwd,        \* does current_path() work?  Only shellit asks.
    root,       \* is it run by root?
    allowed,    \* is there a group produceit and, for users of shellit, are they
                \*   members of it?
    code,       \* exit code, None while it runs
    distrofs    \* the root file system it goes on with

inputs == <<prog, privileged, cwd, root, allowed>>
startVars == <<inputs, code, distrofs>>
vars == <<argVars, keyVars, startVars>>

Init ==
    /\ ArgsInit
    /\ KeyInit
    /\ prog \in Programs
    /\ privileged \in BOOLEAN
    /\ cwd \in IF prog = "shellit" THEN BOOLEAN ELSE {TRUE}
    /\ root \in BOOLEAN
    /\ allowed \in BOOLEAN
    /\ code = None
    /\ distrofs = None

Running == code = None /\ distrofs = None
Operand(i) == argv[list + i - 1].word
HasOperand(i) == list + i - 1 <= Len(argv)

\* cpu() has other names for the processors that uname() and users name.
Cpu(id) == CASE id \in {"i386", "i486", "i586", "i686"} -> "i386"
             [] id = "x86_64" -> "amd64"
             [] OTHER -> id
Arch == Cpu(IF used["arch"] > 0 THEN argv[text["arch"]].word ELSE Machine)

\* Mutant of Defaults: those of shellit for both programs.
DefaultsShellit ==
    LET system(k) == <<"system", k>>
    IN  [s \in {system("rootfs"), system("archive"), system("prefix"), system("homefs"),
                <<"shell", Operand(1)>>} \cap Settings |-> "default"]

\* The defaults of the section "system" and of "shell" for the distro.  Those of
\* buildit have the home directories under another key than it reads.
Defaults ==
    LET system(k) == <<"system", k>>
    IN  [s \in {system("rootfs"), system("archive"), system("prefix"),
                IF prog = "shellit" THEN system("homefs") ELSE system("source"),
                <<"shell", Operand(1)>>} \cap Settings |-> "default"]

Exit(c) ==
    /\ code' = c
    /\ UNCHANGED <<inputs, distrofs>>

\* Mutant of Barred: shellit goes on without a current directory.
BarredRoot == ~privileged

Barred == ~privileged \/ (prog = "shellit" /\ ~cwd)

\* runtime_error before the command line is looked at.
Bar ==
    /\ Running
    /\ Barred
    /\ Exit(2)
    /\ UNCHANGED <<argVars, keyVars>>

Parse ==
    /\ Running
    /\ ~Barred
    /\ ArgsNext
    /\ UNCHANGED <<keyVars, startVars>>

BadArg ==
    /\ Running
    /\ state = "bad_arg"
    /\ Exit(3)
    /\ UNCHANGED <<argVars, keyVars>>

Help == used["helpflag"] > 0 \/ used["althelp"] > 0

ShowHelp ==
    /\ Running
    /\ state = "done" /\ load = "idle"
    /\ Help
    /\ Exit(0)
    /\ UNCHANGED <<argVars, keyVars>>

NoDistro ==
    /\ Running
    /\ state = "done" /\ load = "idle"
    /\ ~Help /\ ~HasOperand(1)
    /\ Exit(2)
    /\ UNCHANGED <<argVars, keyVars>>

Configure ==
    /\ Running
    /\ state = "done"
    /\ ~Help /\ HasOperand(1)
    /\ SetDefaults(Defaults)
    /\ UNCHANGED <<argVars, startVars>>

Load == Running /\ LoadNext /\ UNCHANGED <<argVars, startVars>>

\* std::out_of_range is caught as std::exception.
BadConfig ==
    /\ Running
    /\ load = "out_of_range"
    /\ Exit(1)
    /\ UNCHANGED <<argVars, keyVars>>

Loaded == load \in {"true", "false"}
Refused == ~allowed \/ (prog = "shellit" /\ root /\ HasOperand(2))

\* root may only log in with shellit, and others must be members of the group.
Refuse ==
    /\ Running
    /\ Loaded
    /\ Refused
    /\ Exit(2)
    /\ UNCHANGED <<argVars, keyVars>>

Distrofs == <<sections[<<"system", "rootfs">>], Operand(1), Arch>>

\* fsys::exists(distrofs), or bad_path.
FindDistro ==
    /\ Running
    /\ Loaded
    /\ ~Refused
    /\ IF Distrofs \in Rootfs
         THEN distrofs' = Distrofs /\ UNCHANGED <<inputs, code>>
         ELSE Exit(4)
    /\ UNCHANGED <<argVars, keyVars>>

\* The program has ended, or goes on as a session.
Ended == ~Running /\ UNCHANGED vars

Next == Bar \/ Parse \/ BadArg \/ ShowHelp \/ NoDistro \/ Configure \/ Load \/ BadConfig
          \/ Refuse \/ FindDistro \/ Ended

\* The program is one process that waits for nobody.
Spec == Init /\ [][Next]_vars /\ WF_vars(Next)

-----------------------------------------------------------------------------
(* Properties *)

\* The variables have their types.
TypeOK ==
    /\ ArgsTypeOK
    /\ file \in 1..2
    /\ next \in Nat \ {0}
    /\ section \in SectionNames
    /\ sections \in [Settings -> (Values \ {Empty}) \cup {"default", Unset}]
    /\ load \in {"idle", "open", "lines", "true", "false", "out_of_range"}
    /\ code \in {0, 1, 2, 3, 4, None}

\* What the command line, the files and the user make of a start: an exit code, 2
\* without the rights of root or, for shellit, without a current directory, or
\* the root file system of the first operand, for the architecture that was named
\* or the host's, where the last entry of the first readable file has them.
Expected ==
    LET first == FirstOperand(argv)
        lines == Read(config)
        named(o) == Places(argv, o) # {}
        place == CHOOSE p \in Places(argv, "arch") : TRUE
        word == IF named("arch") THEN argv[Value(argv[place[1]], place[1], place[2])].word
                                 ELSE Machine
        path == <<Meaning(lines, Defaults, <<"system", "rootfs">>), argv[first].word, Cpu(word)>>
        entered == privileged /\ (cwd \/ prog = "buildit")
    IN  CASE ~entered -> 2
          [] entered /\ ~Correct(argv) -> 3
          [] entered /\ Correct(argv) /\ (named("helpflag") \/ named("althelp")) -> 0
          [] OTHER ->
               IF first > Len(argv) THEN 2
               ELSE IF Broken(lines) THEN 1
               ELSE IF ~allowed \/ (prog = "shellit" /\ root /\ first < Len(argv)) THEN 2
               ELSE IF path \in Rootfs THEN path ELSE 4

\* A start ends as Expected says, whatever the order in which options, values,
\* operands, sections and repeated entries come.
EndsRight == ~Running => Expected = IF code = None THEN distrofs ELSE code

\* After load() every setting has the value of its last entry in the first file
\* that can be opened, or else its default; load() throws only for an entry
\* without a value.
LoadsRight ==
    /\ load = "out_of_range" => Broken(Read(config))
    /\ Loaded => /\ ~Broken(Read(config))
                 /\ \A s \in Settings : sections[s] = Meaning(Read(config), Defaults, s)

SystemKeys == {"rootfs", "homefs", "archive", "prefix"} \cup (IF prog = "buildit" THEN {"source"} ELSE {})

\* A program that goes on has a value for every directory it is about to use,
\* but for one: the home directory of buildit, which is then the host's /root.
DirectoriesKnown ==
    distrofs # None =>
      \A k \in SystemKeys : sections[<<"system", k>>] = Unset
                              => prog = "buildit" /\ k = "homefs"

\* Every start comes to an end or to a session: no command line and no file
\* keeps the parsers busy for ever.
StartEnds == <>~Running
=============================================================================
