------------------------------ MODULE KeyFile ------------------------------
(***************************************************************************)
(* Class keyfile: settings by section and key, with the defaults that      *)
(* main() assigns and what load() reads from a file over them.  The        *)
(* programs load ETC_PREFIX/produceit.conf and, if that cannot be opened,  *)
(* /etc/produceit.conf.                                                    *)
(*                                                                         *)
(* A line is abstracted to what load() finds in it once the white space    *)
(* around it is gone: a section header, an entry with '=', or one of the   *)
(* three kinds that it skips.                                              *)
(***************************************************************************)
EXTENDS Integers, Sequences

CONSTANTS
    Settings,   \* pairs of a section and a key
    Values,     \* values of entries; Empty is one
    Empty,      \* nothing behind the '='
    Unset,      \* value of a key that is not in the map
    NoFile,     \* a file that cannot be opened
    NoSection,  \* the section "_" before the first header
    Configs     \* the contents of the two files, each a sequence of lines

SectionNames == {s[1] : s \in Settings} \cup {NoSection}
KeyNames     == {s[2] : s \in Settings}

\* Lines that load() skips: blank, no letter or digit in front, no '='.
Skipped == {"blank", "comment", "plain"}
Header(s)   == [kind |-> "header", section |-> s]
Entry(k, v) == [kind |-> "entry", key |-> k, value |-> v]
Lines == [kind : Skipped] \cup {Header(s) : s \in SectionNames}
           \cup {Entry(k, v) : k \in KeyNames, v \in Values}

ASSUME SettingsAssumption == \A s \in Settings : s = <<s[1], s[2]>>
ASSUME ValuesAssumption == Empty \in Values /\ Unset \notin Values \cup {"default"}
ASSUME ConfigsAssumption ==
    \A c \in Configs : DOMAIN c = 1..2 /\ \A f \in 1..2 : c[f] = NoFile \/ c[f] \in Seq(Lines)

VARIABLES
    config,     \* the two files
    file,       \* the file that is tried or read
    next,       \* the line of it that getline() reads next
    section,    \* the section of the lines read now
    sections,   \* the settings
    load        \* "idle", "open", "lines"; or "true", "false", "out_of_range"

keyVars == <<config, file, next, section, sections, load>>

KeyInit ==
    /\ config = <<NoFile, NoFile>>
    /\ file = 1
    /\ next = 1
    /\ section = NoSection
    /\ sections = [s \in Settings |-> Unset]
    /\ load = "idle"

\* main() assigns its defaults, then calls load(); the files hold whatever they
\* hold by then.
SetDefaults(defaults) ==
    /\ load = "idle"
    /\ config' \in Configs
    /\ load' = "open"
    /\ sections' = [s \in Settings |-> IF s \in DOMAIN defaults THEN defaults[s] ELSE Unset]
    /\ UNCHANGED <<file, next, section>>

\* The file is opened, or main() tries the other one, or goes on without.
OpenFile ==
    /\ load = "open"
    /\ IF config[file] = NoFile
         THEN IF file = 1 THEN file' = 2 /\ UNCHANGED load
                          ELSE load' = "false" /\ UNCHANGED file
         ELSE load' = "lines" /\ UNCHANGED file
    /\ next' = 1
    /\ section' = NoSection
    /\ UNCHANGED <<config, sections>>

Reading == load = "lines" /\ next <= Len(config[file])
Line == config[file][next]

SkipLine ==
    /\ Reading
    /\ Line.kind \in Skipped
    /\ next' = next + 1
    /\ UNCHANGED <<config, file, section, sections, load>>

ReadHeader ==
    /\ Reading
    /\ Line.kind = "header"
    /\ next' = next + 1
    /\ section' = Line.section
    /\ UNCHANGED <<config, file, sections, load>>

\* Mutant of ReadEntry: the first of several entries wins.
ReadEntryFirst ==
    /\ Reading
    /\ Line.kind = "entry"
    /\ next' = next + 1
    /\ LET s == <<section, Line.key>>
       IN  IF Line.value = Empty
             THEN load' = "out_of_range" /\ UNCHANGED sections
             ELSE /\ sections' = IF s \in Settings /\ sections[s] = Unset
                                   THEN [sections EXCEPT ![s] = Line.value] ELSE sections
                  /\ UNCHANGED load
    /\ UNCHANGED <<config, file, section>>

\* A key and its value.  Without a value find_first_not_of() returns npos, and
\* substr(npos) throws.
ReadEntry ==
    /\ Reading
    /\ Line.kind = "entry"
    /\ next' = next + 1
    /\ LET s == <<section, Line.key>>
       IN  IF Line.value = Empty
             THEN load' = "out_of_range" /\ UNCHANGED sections
             ELSE /\ sections' = IF s \in Settings
                                   THEN [sections EXCEPT ![s] = Line.value] ELSE sections
                  /\ UNCHANGED load
    /\ UNCHANGED <<config, file, section>>

EndOfFile ==
    /\ load = "lines"
    /\ next > Len(config[file])
    /\ load' = "true"
    /\ UNCHANGED <<config, file, next, section, sections>>

LoadNext == OpenFile \/ SkipLine \/ ReadHeader \/ ReadEntry \/ EndOfFile

-----------------------------------------------------------------------------
(* What the files mean, said of the lines of the file that is read *)

Read(c) == IF c[1] # NoFile THEN c[1] ELSE IF c[2] # NoFile THEN c[2] ELSE <<>>

\* Line i belongs to section s: the last header before it says so.
Governs(lines, i, s) ==
    LET headers == {j \in 1..(i - 1) : lines[j].kind = "header"}
    IN  IF headers = {} THEN s = NoSection
        ELSE \E j \in headers : lines[j].section = s /\ \A h \in headers : h <= j

Entries(lines, s) == {i \in DOMAIN lines : /\ lines[i].kind = "entry"
                                           /\ lines[i].key = s[2]
                                           /\ Governs(lines, i, s[1])}
Broken(lines) == \E i \in DOMAIN lines : lines[i].kind = "entry" /\ lines[i].value = Empty

\* The last entry for a setting, or else its default.
Meaning(lines, defaults, s) ==
    LET entries == Entries(lines, s)
    IN  IF entries = {} THEN (IF s \in DOMAIN defaults THEN defaults[s] ELSE Unset)
        ELSE lines[CHOOSE i \in entries : \A j \in entries : j <= i].value
=============================================================================
