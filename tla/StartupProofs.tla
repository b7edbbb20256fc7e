--------------------------- MODULE StartupProofs ---------------------------
(***************************************************************************)
(* Theorems about the start of shellit and buildit, for all options,       *)
(* command lines, settings and configuration files.                        *)
(***************************************************************************)
EXTENDS Startup, ArgsProofs

-----------------------------------------------------------------------------
(* Type correctness *)

DefaultValue == [s \in Settings |-> IF s \in DOMAIN Defaults THEN "default" ELSE Unset]

\* The type of what load() works on.
KeyPlain ==
    /\ config \in Configs \cup {<<NoFile, NoFile>>}
    /\ file \in 1..2
    /\ next \in Nat \ {0}
    /\ section \in SectionNames
    /\ sections \in [Settings -> (Values \ {Empty}) \cup {"default", Unset}]
    /\ load \in {"idle", "open", "lines", "true", "false", "out_of_range"}

\* A program that loads has parsed its command line; one that is in a file has
\* opened it; one that goes on has loaded; one that is barred has done nothing.
Phase ==
    /\ Barred => state = "next" /\ load = "idle"
    /\ load # "idle" => state = "done"
    /\ load \in {"lines", "true"} => config[file] # NoFile
    /\ distrofs # None => Loaded

StartInv == ArgsInv /\ KeyPlain /\ Phase /\ prog \in Programs /\ code \in {0, 1, 2, 3, 4, None}

LEMMA FileFacts ==
  ASSUME KeyPlain, NEW f \in 1..2, config[f] # NoFile
  PROVE  config[f] \in Seq(Lines)
<1>1. CASE config \in Configs
  BY <1>1, ConfigsAssumption
<1>2. CASE config = <<NoFile, NoFile>>
  <2>1. config[1] = NoFile /\ config[2] = NoFile
    BY <1>2
  <2> QED
    BY <2>1
<1> QED
  BY <1>1, <1>2 DEF KeyPlain

\* What a line has.
LEMMA LineFacts ==
  ASSUME NEW l \in Lines
  PROVE  /\ l.kind \in Skipped \cup {"header", "entry"}
         /\ l.kind = "header" => l.section \in SectionNames
         /\ l.kind = "entry" => l.key \in KeyNames /\ l.value \in Values
<1>1. CASE l \in [kind : Skipped]
  BY <1>1 DEF Skipped
<1>2. CASE \E s \in SectionNames : l = Header(s)
  BY <1>2 DEF Header
<1>3. CASE \E k \in KeyNames, v \in Values : l = Entry(k, v)
  BY <1>3 DEF Entry
<1> QED
  BY <1>1, <1>2, <1>3 DEF Lines

LEMMA ReadingFacts ==
  ASSUME StartInv, Reading
  PROVE  /\ config[file] \in Seq(Lines) /\ Len(config[file]) \in Nat
         /\ next \in 1..Len(config[file]) /\ Line \in Lines
<1>1. config[file] \in Seq(Lines) /\ next \in Nat \ {0} /\ next <= Len(config[file])
  BY FileFacts DEF StartInv, KeyPlain, Phase, Reading
<1> QED
  BY <1>1 DEF Line

\* Before the command line is parsed nothing is loaded, and then it is left alone.
LEMMA ParsedOnce ==
  ASSUME StartInv, [Next]_vars
  PROVE  \/ ArgsNext /\ load = "idle" /\ UNCHANGED <<keyVars, startVars>>
         \/ UNCHANGED argVars
<1>1. ArgsNext => state # "done"
  BY DEF ArgsNext, NoMore, Mark, Word, Long, NoLong, Letter, GroupEnd
<1> QED
  BY <1>1 DEF StartInv, Phase, Next, Parse, Bar, BadArg, ShowHelp, NoDistro, Configure, Load,
     BadConfig, Refuse, FindDistro, Ended, vars

LEMMA ArgsInvNext == ASSUME StartInv, [Next]_vars PROVE ArgsInv'
<1>1. [ArgsNext]_argVars
  BY ParsedOnce
<1> QED
  BY <1>1, ArgsStep DEF StartInv

LEMMA LoadStep ==
  ASSUME StartInv, LoadNext
  PROVE  KeyPlain' /\ (load' \in {"lines", "true"} => config'[file'] # NoFile)
         /\ load # "idle" /\ load' # "idle" /\ config' = config /\ ~Loaded
<1> USE DEF StartInv, KeyPlain, Phase, Loaded
<1>1. CASE OpenFile
  <2>1. NoSection \in SectionNames
    BY DEF SectionNames
  <2> QED
    BY <1>1, <2>1 DEF OpenFile
<1>2. CASE SkipLine
  BY <1>2 DEF SkipLine, Reading
<1>3. CASE ReadHeader
  <2>1. Line.section \in SectionNames
    BY <1>3, ReadingFacts, LineFacts DEF ReadHeader
  <2> QED
    BY <1>3, <2>1 DEF ReadHeader, Reading
<1>4. CASE ReadEntry
  <2>1. Line.value \in Values
    BY <1>4, ReadingFacts, LineFacts DEF ReadEntry
  <2> QED
    BY <1>4, <2>1 DEF ReadEntry, Reading
<1>5. CASE EndOfFile
  BY <1>5 DEF EndOfFile
<1> QED
  BY <1>1, <1>2, <1>3, <1>4, <1>5 DEF LoadNext

LEMMA StartInvInit == ASSUME Init PROVE StartInv
<1>1. ArgsInv
  BY ArgsInitial DEF Init
<1>2. KeyPlain
  BY DEF Init, KeyInit, KeyPlain, SectionNames
<1> QED
  BY <1>1, <1>2 DEF Init, ArgsInit, KeyInit, StartInv, Phase, Barred

LEMMA StartInvNext == ASSUME StartInv, [Next]_vars PROVE StartInv'
<1>1. ArgsInv'
  BY ArgsInvNext
<1>2. CASE Parse
  <2>1. load = "idle"
    BY <1>2, ParsedOnce DEF Parse, ArgsNext, StartInv, Phase, Barred, NoMore, Mark, Word, Long, NoLong,
       Letter, GroupEnd
  <2> QED
    BY <1>1, <1>2, <2>1 DEF Parse, StartInv, KeyPlain, Phase, Barred, keyVars, startVars, inputs, Loaded
<1>3. CASE Bar \/ BadArg \/ ShowHelp \/ NoDistro \/ BadConfig \/ Refuse
  BY <1>1, <1>3 DEF Bar, BadArg, ShowHelp, NoDistro, BadConfig, Refuse, Exit, Running, inputs, argVars,
     keyVars, StartInv, KeyPlain, Phase, Barred, Loaded
<1>4. CASE Configure
  <2>1. /\ sections' = [s \in Settings |-> IF s \in DOMAIN Defaults THEN Defaults[s] ELSE Unset]
        /\ config' \in Configs /\ load' = "open" /\ UNCHANGED <<file, next, section>>
        /\ state' = state /\ state = "done" /\ UNCHANGED <<startVars, inputs>> /\ distrofs = None
    BY <1>4 DEF Configure, SetDefaults, argVars, startVars, inputs, Running
  <2>2. \A s \in DOMAIN Defaults : Defaults[s] = "default"
    BY DEF Defaults
  <2> QED
    BY <1>1, <2>1, <2>2 DEF StartInv, KeyPlain, Phase, Barred, startVars, inputs, Loaded
<1>5. CASE Load
  BY <1>1, <1>5, LoadStep DEF Load, StartInv, Phase, Barred, Running, startVars, inputs, argVars, Loaded
<1>6. CASE FindDistro
  BY <1>1, <1>6 DEF FindDistro, Exit, Running, inputs, argVars, keyVars, StartInv, KeyPlain, Phase, Barred, Loaded
<1>7. CASE UNCHANGED vars
  BY <1>1, <1>7 DEF vars, argVars, keyVars, startVars, inputs, StartInv, KeyPlain, Phase, Barred, Loaded
<1> QED
  BY <1>2, <1>3, <1>4, <1>5, <1>6, <1>7 DEF Next, Ended

LEMMA StartInvariant == Spec => []StartInv
  BY StartInvInit, StartInvNext, PTL DEF Spec

\* The variables have their types from main() to the session, in the parser of
\* the command line and in that of the configuration.
THEOREM TypeCorrect == Spec => []TypeOK
<1>1. StartInv => TypeOK
  BY DEF StartInv, ArgsInv, KeyPlain, TypeOK
<1> QED
  BY <1>1, StartInvariant, PTL

-----------------------------------------------------------------------------
(* What load() has made of the lines it has read *)

\* The entries for a setting before the line that is read next.
Seen(lines, s) == {i \in Entries(lines, s) : i < next}

SettingRight(lines, s) ==
    \/ Seen(lines, s) = {} /\ sections[s] = DefaultValue[s]
    \/ \E i \in Seen(lines, s) : /\ \A j \in Seen(lines, s) : j <= i
                                 /\ sections[s] = lines[i].value

\* The section is that of the line read next, no entry so far is without value,
\* and every setting has the value of its last entry so far.
SeenRight(lines) ==
    /\ Governs(lines, next, section)
    /\ \A i \in 1..(next - 1) : ~(lines[i].kind = "entry" /\ lines[i].value = Empty)
    /\ \A s \in Settings : SettingRight(lines, s)

LoadInv ==
    /\ load = "idle" => file = 1
    /\ load = "open" => (file = 1 \/ config[1] = NoFile) /\ sections = DefaultValue
    /\ load \in {"lines", "true"} => /\ Read(config) = config[file]
                                     /\ next <= Len(config[file]) + 1
                                     /\ SeenRight(config[file])
    /\ load = "true" => next = Len(config[file]) + 1
    /\ load = "false" => Read(config) = <<>> /\ sections = DefaultValue
    /\ load = "out_of_range" => Broken(Read(config))

\* A line belongs to one section only.
LEMMA OneSection ==
  ASSUME NEW lines, NEW i \in Nat, NEW s, NEW t, Governs(lines, i, s), Governs(lines, i, t)
  PROVE  s = t
<1> DEFINE headers == {j \in 1..(i - 1) : lines[j].kind = "header"}
<1>1. CASE headers = {}
  BY <1>1 DEF Governs
<1>2. CASE headers # {}
  <2>1. PICK j \in headers : lines[j].section = s /\ \A h \in headers : h <= j
    BY <1>2 DEF Governs
  <2>2. PICK k \in headers : lines[k].section = t /\ \A h \in headers : h <= k
    BY <1>2 DEF Governs
  <2>3. j = k
    BY <2>1, <2>2
  <2> QED
    BY <2>1, <2>2, <2>3
<1> QED
  BY <1>1, <1>2

\* The section of the line after a header is the header's; after another line
\* it stays.
LEMMA NextSection ==
  ASSUME NEW lines, NEW i \in Nat \ {0}, NEW s, Governs(lines, i, s)
  PROVE  /\ lines[i].kind # "header" => Governs(lines, i + 1, s)
         /\ lines[i].kind = "header" => Governs(lines, i + 1, lines[i].section)
<1> DEFINE headers == {j \in 1..(i - 1) : lines[j].kind = "header"}
           after == {j \in 1..((i + 1) - 1) : lines[j].kind = "header"}
<1>1. CASE lines[i].kind # "header"
  <2>1. after = headers
    BY <1>1
  <2> QED
    BY <1>1, <2>1 DEF Governs
<1>2. CASE lines[i].kind = "header"
  <2>1. i \in after /\ \A h \in after : h <= i
    BY <1>2
  <2>2. after # {}
    BY <2>1
  <2> QED
    BY <1>2, <2>1, <2>2 DEF Governs
<1> QED
  BY <1>1, <1>2

\* The defaults do not change once they are assigned.
LEMMA SameDefaults ==
  ASSUME UNCHANGED <<argv, list, prog>>
  PROVE  Defaults' = Defaults /\ DefaultValue' = DefaultValue
  BY DEF Defaults, DefaultValue, Operand

LEMMA SkipSeen ==
  ASSUME NEW lines \in Seq(Lines), next \in 1..Len(lines), lines[next].kind # "entry",
         NEW s, next' = next + 1
  PROVE  Seen(lines, s)' = Seen(lines, s)
  BY DEF Seen, Entries

LEMMA EntrySeen ==
  ASSUME NEW lines \in Seq(Lines), next \in 1..Len(lines), lines[next].kind = "entry",
         Governs(lines, next, section), NEW s \in Settings, next' = next + 1
  PROVE  Seen(lines, s)' = IF s = <<section, lines[next].key>> THEN Seen(lines, s) \cup {next}
                                                                ELSE Seen(lines, s)
<1>1. next \in Entries(lines, s) <=> s = <<section, lines[next].key>>
  <2>1. next \in Entries(lines, s) <=> lines[next].key = s[2] /\ Governs(lines, next, s[1])
    BY DEF Entries
  <2>2. Governs(lines, next, s[1]) <=> s[1] = section
    BY OneSection
  <2>3. s = <<s[1], s[2]>>
    BY SettingsAssumption
  <2> QED
    BY <2>1, <2>2, <2>3
<1>2. Entries(lines, s) \subseteq 1..Len(lines)
  BY DEF Entries
<1>3. Seen(lines, s)' = {i \in Entries(lines, s) : i < next + 1}
  BY DEF Seen
<1> QED
  BY <1>1, <1>2, <1>3 DEF Seen

LEMMA LoadInvLines ==
  ASSUME StartInv, StartInv', LoadInv, SkipLine \/ ReadHeader \/ ReadEntry,
         UNCHANGED <<argVars, startVars>>
  PROVE  LoadInv'
<1> DEFINE lines == config[file]
<1>1. /\ config' = config /\ file' = file /\ next' = next + 1 /\ Reading /\ load = "lines"
      /\ load' \in {"lines", "out_of_range"}
  BY DEF SkipLine, ReadHeader, ReadEntry, Reading
<1>2. lines \in Seq(Lines) /\ Len(lines) \in Nat /\ next \in 1..Len(lines) /\ Line = lines[next]
  BY <1>1, ReadingFacts DEF Line
<1>3. Read(config) = lines /\ SeenRight(lines)
  BY <1>1 DEF LoadInv
<1>4. DefaultValue' = DefaultValue
  BY SameDefaults DEF argVars, startVars, inputs
<1>5. PICK l : l = lines
  OBVIOUS
<1>6. l \in Seq(Lines) /\ Len(l) \in Nat /\ next \in 1..Len(l) /\ Line = l[next] /\ next \in Nat \ {0}
      /\ Read(config) = l /\ SeenRight(l) /\ Governs(l, next, section)
  BY <1>2, <1>3, <1>5 DEF SeenRight
<1>7. CASE load' = "out_of_range"
  <2>1. l[next].kind = "entry" /\ l[next].value = Empty
    BY <1>1, <1>6, <1>7 DEF SkipLine, ReadHeader, ReadEntry
  <2>2. Broken(Read(config'))
    BY <1>1, <1>6, <2>1 DEF Broken
  <2> QED
    BY <1>7, <2>2 DEF LoadInv
<1>8. CASE load' = "lines"
  <2>1. SUFFICES SeenRight(l)'
    <3>1. config'[file'] = l /\ Read(config') = l /\ next' <= Len(l) + 1
      BY <1>1, <1>5, <1>6
    <3> QED
      BY <1>8, <2>1, <3>1 DEF LoadInv, SeenRight, SettingRight, Seen
  <2>2. Governs(l, next', section')
    <3>1. CASE ReadHeader
      BY <1>1, <1>6, <3>1, NextSection DEF ReadHeader
    <3>2. CASE SkipLine \/ ReadEntry
      <4>1. l[next].kind # "header" /\ section' = section
        BY <1>6, <3>2 DEF SkipLine, ReadEntry, Skipped
      <4> QED
        BY <1>1, <1>6, <4>1, NextSection
    <3> QED
      BY <3>1, <3>2
  <2>3. \A i \in 1..(next' - 1) : ~(l[i].kind = "entry" /\ l[i].value = Empty)
    <3>1. ~(l[next].kind = "entry" /\ l[next].value = Empty)
      BY <1>6, <1>8 DEF SkipLine, ReadHeader, ReadEntry, Skipped
    <3> QED
      BY <1>1, <1>6, <3>1 DEF SeenRight
  <2>4. ASSUME NEW s \in Settings PROVE SettingRight(l, s)'
    <3>1. SettingRight(l, s)
      BY <1>6 DEF SeenRight
    <3>2. CASE SkipLine \/ ReadHeader
      <4>1. l[next].kind # "entry" /\ sections' = sections
        BY <1>6, <3>2 DEF SkipLine, ReadHeader, Skipped
      <4>2. Seen(l, s)' = Seen(l, s)
        BY <1>1, <1>6, <4>1, SkipSeen
      <4> QED
        BY <1>4, <3>1, <4>1, <4>2 DEF SettingRight
    <3>3. CASE ReadEntry
      <4>1. /\ l[next].kind = "entry"
            /\ sections' = IF <<section, l[next].key>> \in Settings
                             THEN [sections EXCEPT ![<<section, l[next].key>>] = l[next].value]
                             ELSE sections
        BY <1>6, <1>8, <3>3 DEF ReadEntry
      <4>2. sections \in [Settings -> (Values \ {Empty}) \cup {"default", Unset}]
        BY DEF StartInv, KeyPlain
      <4>3. CASE s = <<section, l[next].key>>
        <5>1. Seen(l, s)' = Seen(l, s) \cup {next}
          BY <1>1, <1>6, <4>1, <4>3, EntrySeen
        <5>2. next \in Seen(l, s)' /\ \A j \in Seen(l, s)' : j <= next
          BY <1>6, <5>1 DEF Seen, Entries
        <5>3. sections'[s] = l[next].value
          BY <4>1, <4>2, <4>3
        <5> QED
          BY <5>2, <5>3 DEF SettingRight
      <4>4. CASE s # <<section, l[next].key>>
        <5>1. Seen(l, s)' = Seen(l, s)
          BY <1>1, <1>6, <4>1, <4>4, EntrySeen
        <5>2. sections'[s] = sections[s]
          BY <4>1, <4>2, <4>4
        <5> QED
          BY <1>4, <3>1, <5>1, <5>2 DEF SettingRight
      <4> QED
        BY <4>3, <4>4
    <3> QED
      BY <3>2, <3>3
  <2> QED
    BY <2>2, <2>3, <2>4 DEF SeenRight
<1> QED
  BY <1>1, <1>7, <1>8

LEMMA LoadInvNext ==
  ASSUME StartInv, StartInv', LoadInv, [Next]_vars
  PROVE  LoadInv'
<1>1. CASE UNCHANGED <<argVars, keyVars>> /\ prog' = prog
  <2>1. DefaultValue' = DefaultValue
    BY <1>1, SameDefaults DEF argVars
  <2>2. UNCHANGED <<config, file, next, section, sections, load>>
    BY <1>1 DEF keyVars
  <2>3. PICK l : l = config[file]
    OBVIOUS
  <2>4. (\A s \in Settings : SettingRight(l, s)' <=> SettingRight(l, s))
    BY <2>1, <2>2 DEF SettingRight, Seen
  <2>5. SeenRight(l) => SeenRight(l)'
    BY <2>2, <2>4 DEF SeenRight
  <2>6. SeenRight(config[file]) => SeenRight(config[file])'
    BY <2>2, <2>3, <2>5 DEF SeenRight, SettingRight, Seen
  <2> QED
    BY <2>1, <2>2, <2>6 DEF LoadInv
<1>2. CASE ArgsNext /\ load = "idle" /\ UNCHANGED <<keyVars, startVars>>
  BY <1>2 DEF LoadInv, keyVars
<1>3. CASE Configure
  <2>1. UNCHANGED <<argv, list, prog>> /\ load' = "open" /\ load = "idle" /\ file' = file
        /\ sections' = [s \in Settings |-> IF s \in DOMAIN Defaults THEN Defaults[s] ELSE Unset]
    BY <1>3 DEF Configure, SetDefaults, argVars, startVars, inputs
  <2>2. DefaultValue' = DefaultValue /\ \A s \in DOMAIN Defaults : Defaults[s] = "default"
    BY <2>1, SameDefaults DEF Defaults
  <2>3. sections' = DefaultValue'
    BY <2>1, <2>2 DEF DefaultValue
  <2>4. file = 1
    BY <2>1 DEF LoadInv
  <2> QED
    BY <2>1, <2>3, <2>4 DEF LoadInv
<1>4. CASE Load
  <2>1. LoadNext /\ UNCHANGED <<argVars, startVars>> /\ DefaultValue' = DefaultValue
    BY <1>4, SameDefaults DEF Load, argVars, startVars, inputs
  <2>2. CASE OpenFile
    <3>1. /\ config' = config /\ sections' = sections /\ load = "open" /\ next' = 1
          /\ section' = NoSection /\ file \in 1..2
      BY <2>2 DEF OpenFile, StartInv, KeyPlain
    <3>2. (file = 1 \/ config[1] = NoFile) /\ sections = DefaultValue
      BY <3>1 DEF LoadInv
    <3>3. CASE config[file] = NoFile /\ file = 1
      BY <2>1, <2>2, <3>1, <3>2, <3>3 DEF OpenFile, LoadInv
    <3>4. CASE config[file] = NoFile /\ file # 1
      <4>1. file = 2 /\ load' = "false"
        BY <2>2, <3>1, <3>4 DEF OpenFile
      <4>2. Read(config') = <<>>
        BY <3>1, <3>2, <3>4, <4>1 DEF Read
      <4> QED
        BY <2>1, <3>1, <3>2, <4>1, <4>2 DEF LoadInv
    <3>5. CASE config[file] # NoFile
      <4>1. load' = "lines" /\ file' = file
        BY <2>2, <3>5 DEF OpenFile
      <4>2. PICK l : l = config[file]
        OBVIOUS
      <4>3. l \in Seq(Lines) /\ Read(config) = l
        BY <3>1, <3>2, <3>5, <4>2, FileFacts DEF Read, StartInv
      <4>4. Governs(l, next', section')
        BY <3>1 DEF Governs
      <4>5. \A s \in Settings : Seen(l, s)' = {}
        BY <3>1, <4>3 DEF Seen, Entries
      <4>6. SeenRight(l)'
        BY <2>1, <3>1, <3>2, <4>4, <4>5 DEF SeenRight, SettingRight
      <4>7. SeenRight(config[file])'
        BY <3>1, <4>1, <4>2, <4>6 DEF SeenRight, SettingRight, Seen
      <4> QED
        BY <3>1, <4>1, <4>2, <4>3, <4>7 DEF LoadInv
    <3> QED
      BY <3>3, <3>4, <3>5
  <2>3. CASE EndOfFile
    <3>1. load = "lines" /\ load' = "true" /\ UNCHANGED <<config, file, next, section, sections>>
          /\ next > Len(config[file])
      BY <2>3 DEF EndOfFile
    <3>2. PICK l : l = config[file]
      OBVIOUS
    <3>3. l \in Seq(Lines) /\ next \in Nat
      BY <3>1, <3>2, FileFacts DEF StartInv, Phase, KeyPlain
    <3>4. SeenRight(l) /\ Read(config) = l /\ next <= Len(l) + 1
      BY <3>1, <3>2 DEF LoadInv
    <3>5. SeenRight(l)'
      BY <2>1, <3>1, <3>4 DEF SeenRight, SettingRight, Seen
    <3>6. SeenRight(config[file])'
      BY <3>1, <3>2, <3>5 DEF SeenRight, SettingRight, Seen
    <3>7. next = Len(l) + 1
      BY <3>1, <3>2, <3>3, <3>4
    <3> QED
      BY <3>1, <3>2, <3>4, <3>6, <3>7 DEF LoadInv
  <2>4. CASE SkipLine \/ ReadHeader \/ ReadEntry
    BY <2>1, <2>4, LoadInvLines
  <2> QED
    BY <2>1, <2>2, <2>3, <2>4 DEF LoadNext
<1> QED
  BY <1>1, <1>2, <1>3, <1>4, ParsedOnce DEF Next, Parse, Bar, BadArg, ShowHelp, NoDistro, BadConfig,
     Refuse, FindDistro, Ended, Exit, vars, startVars, inputs

LEMMA LoadInvariant == Spec => []LoadInv
<1>1. Init => LoadInv
  BY DEF Init, KeyInit, LoadInv
<1>2. StartInv /\ StartInv' /\ LoadInv /\ [Next]_vars => LoadInv'
  BY LoadInvNext
<1> QED
  BY <1>1, <1>2, StartInvariant, PTL DEF Spec

LEMMA MeaningOfDefault ==
  ASSUME NEW lines, NEW s \in Settings, Entries(lines, s) = {}
  PROVE  Meaning(lines, Defaults, s) = DefaultValue[s]
  BY DEF Meaning, DefaultValue, Defaults

LEMMA MeaningOfLast ==
  ASSUME NEW lines \in Seq(Lines), NEW s, NEW i \in Entries(lines, s),
         \A j \in Entries(lines, s) : j <= i
  PROVE  Meaning(lines, Defaults, s) = lines[i].value
<1> DEFINE entries == Entries(lines, s)
           last == CHOOSE k \in entries : \A j \in entries : j <= k
<1>1. entries \subseteq 1..Len(lines)
  BY DEF Entries
<1>2. last \in entries /\ \A j \in entries : j <= last
  OBVIOUS
<1>3. last = i
  BY <1>1, <1>2
<1> QED
  BY <1>3 DEF Meaning

\* What has been loaded, in one place.
LEMMA LoadedRight ==
  ASSUME StartInv, LoadInv, Loaded
  PROVE  /\ ~Broken(Read(config))
         /\ \A s \in Settings : /\ sections[s] = Meaning(Read(config), Defaults, s)
                                /\ sections[s] \in Values \/ sections[s] = DefaultValue[s]
<1>1. CASE load = "false"
  <2>1. Read(config) = <<>> /\ sections = DefaultValue
    BY <1>1 DEF LoadInv
  <2>2. \A s : Entries(<<>>, s) = {}
    BY DEF Entries
  <2>3. ~Broken(<<>>)
    BY DEF Broken
  <2> QED
    BY <2>1, <2>2, <2>3, MeaningOfDefault
<1>2. CASE load = "true"
  <2>1. PICK l : l = config[file]
    OBVIOUS
  <2>2. Read(config) = l /\ next = Len(l) + 1 /\ SeenRight(l)
    BY <1>2, <2>1 DEF LoadInv
  <2>3. l \in Seq(Lines)
    BY <1>2, <2>1, FileFacts DEF StartInv, Phase, KeyPlain
  <2>4. Len(l) \in Nat /\ DOMAIN l = 1..Len(l) /\ \A i \in 1..Len(l) : l[i] \in Lines
    BY <2>3
  <2>5. ~Broken(l)
    BY <2>2, <2>4 DEF SeenRight, Broken
  <2>6. ASSUME NEW s \in Settings
        PROVE  /\ sections[s] = Meaning(l, Defaults, s)
               /\ sections[s] \in Values \/ sections[s] = DefaultValue[s]
    <3>1. Seen(l, s) = Entries(l, s)
      BY <2>2, <2>4 DEF Seen, Entries
    <3>2. SettingRight(l, s)
      BY <2>2 DEF SeenRight
    <3>3. CASE Entries(l, s) = {} /\ sections[s] = DefaultValue[s]
      BY <3>3, MeaningOfDefault
    <3>4. CASE \E i \in Entries(l, s) : /\ \A j \in Entries(l, s) : j <= i
                                        /\ sections[s] = l[i].value
      <4>1. PICK i \in Entries(l, s) : /\ \A j \in Entries(l, s) : j <= i
                                       /\ sections[s] = l[i].value
        BY <3>4
      <4>2. l[i] \in Lines /\ l[i].kind = "entry"
        BY <2>4 DEF Entries
      <4> QED
        BY <2>3, <4>1, <4>2, LineFacts, MeaningOfLast
    <3> QED
      BY <3>1, <3>2, <3>3, <3>4 DEF SettingRight
  <2> QED
    BY <2>2, <2>5, <2>6
<1> QED
  BY <1>1, <1>2 DEF Loaded

\* After keyfile::load() every setting has the value of its last entry in the
\* first file that can be opened, or else the default that main() assigned, and
\* load() throws only for an entry without a value.
THEOREM LoadIsRight == Spec => []LoadsRight
<1>1. StartInv /\ LoadInv => LoadsRight
  BY LoadedRight DEF LoadsRight, LoadInv
<1> QED
  BY <1>1, StartInvariant, LoadInvariant, PTL

\* A program that goes on has a value for every directory it is about to use,
\* but for the home directory of buildit.
THEOREM DirectoriesAreKnown == Spec => []DirectoriesKnown
<1>1. StartInv /\ LoadInv => DirectoriesKnown
  <2> SUFFICES ASSUME StartInv, LoadInv, distrofs # None, NEW k \in SystemKeys,
                      sections[<<"system", k>>] = Unset
               PROVE  prog = "buildit" /\ k = "homefs"
    BY DEF DirectoriesKnown
  <2>1. Loaded
    BY DEF StartInv, Phase
  <2>2. <<"system", k>> \in Settings
    BY SystemSettings DEF SystemKeys
  <2>3. sections[<<"system", k>>] = DefaultValue[<<"system", k>>]
    BY <2>1, <2>2, LoadedRight, ValuesAssumption
  <2>4. <<"system", k>> \notin DOMAIN Defaults
    BY <2>2, <2>3, ValuesAssumption DEF DefaultValue
  <2>5. prog \in {"shellit", "buildit"}
    BY ProgramsAssumption DEF StartInv
  <2> QED
    BY <2>2, <2>4, <2>5 DEF SystemKeys, Defaults
<1> QED
  BY <1>1, StartInvariant, LoadInvariant, PTL

-----------------------------------------------------------------------------
(* From the command line and the files to the outcome *)

\* A program that loads has been told to, and what.
Configured == load # "idle" => ~Help /\ HasOperand(1)

EndInv == ParseInv /\ Configured

LEMMA EndInvNext == ASSUME StartInv, EndInv, [Next]_vars PROVE EndInv'
<1>1. CASE ArgsNext /\ load = "idle" /\ UNCHANGED <<keyVars, startVars>>
  <2>1. ParseInv'
    BY <1>1, ParseStep DEF StartInv, EndInv
  <2> QED
    BY <1>1, <2>1 DEF EndInv, Configured, keyVars
<1>2. CASE UNCHANGED argVars
  <2>1. ParseInv'
    BY <1>2, ParseStep DEF StartInv, EndInv
  <2>2. Help' = Help /\ HasOperand(1)' = HasOperand(1)
    BY <1>2 DEF argVars, Help, HasOperand
  <2>3. load' # "idle" => load # "idle" \/ (~Help /\ HasOperand(1))
    <3>1. ASSUME Parse PROVE load' = load
      BY <3>1 DEF Parse, keyVars
    <3>2. ASSUME Bar \/ BadArg \/ ShowHelp \/ NoDistro \/ BadConfig \/ Refuse \/ FindDistro PROVE load' = load
      BY <3>2 DEF Bar, BadArg, ShowHelp, NoDistro, BadConfig, Refuse, FindDistro, keyVars
    <3>3. ASSUME Load PROVE load # "idle"
      BY <3>3, LoadStep DEF Load
    <3>4. ASSUME Configure PROVE ~Help /\ HasOperand(1)
      BY <3>4 DEF Configure
    <3>5. ASSUME UNCHANGED vars PROVE load' = load
      BY <3>5 DEF vars, keyVars
    <3> QED
      BY <3>1, <3>2, <3>3, <3>4, <3>5 DEF Next, Ended
  <2> QED
    BY <2>1, <2>2, <2>3 DEF EndInv, Configured
<1> QED
  BY <1>1, <1>2, ParsedOnce

LEMMA EndInvariant == Spec => []EndInv
<1>1. Init => EndInv
  BY ParseInit DEF Init, KeyInit, EndInv, Configured
<1> QED
  BY <1>1, StartInvariant, EndInvNext, PTL DEF Spec

\* The parser of the command line is right in the programs too.
LEMMA CommandLineIsRight == Spec => []ParsesRight
<1>1. StartInv /\ EndInv => ParsesRight
  BY DEF StartInv, ArgsInv, ArgsTypeOK, EndInv, ParseInv, ParsesRight
<1> QED
  BY <1>1, StartInvariant, EndInvariant, PTL

\* What main() sees of an option is where the command line has it.
LEMMA NamedFacts ==
  ASSUME StartInv, ParsesRight, state = "done", NEW o \in Options
  PROVE  /\ used[o] > 0 <=> Places(argv, o) # {}
         /\ \A p \in Places(argv, o) : text[o] = Value(argv[p[1]], p[1], p[2])
<1>1. used[o] = Cardinality(Places(argv, o)) /\ \A p, q \in Places(argv, o) : p = q
  BY DEF ParsesRight, Correct
<1>2. CASE Places(argv, o) = {}
  BY <1>1, <1>2, FS_EmptySet
<1>3. CASE Places(argv, o) # {}
  <2>1. PICK p : Places(argv, o) = {p}
    BY <1>1, <1>3
  <2>2. Cardinality({p}) = 1
    BY FS_Singleton
  <2>3. used[o] = 1
    BY <1>1, <2>1, <2>2
  <2> QED
    BY <1>3, <2>3 DEF ParsesRight
<1> QED
  BY <1>2, <1>3 DEF ParsesRight

LEMMA ExpectedFacts ==
  ASSUME StartInv, ParsesRight, state = "done"
  PROVE  LET path == <<Meaning(Read(config), Defaults, <<"system", "rootfs">>), Operand(1), Arch>>
         IN  /\ Help => Expected = 0
             /\ ~Help /\ ~HasOperand(1) => Expected = 2
             /\ ~Help /\ HasOperand(1) =>
                  /\ Broken(Read(config)) => Expected = 1
                  /\ ~Broken(Read(config)) /\ Refused => Expected = 2
                  /\ ~Broken(Read(config)) /\ ~Refused =>
                       Expected = IF path \in Rootfs THEN path ELSE 4
<1> DEFINE lines == Read(config)
           place == CHOOSE p \in Places(argv, "arch") : TRUE
           word == IF Places(argv, "arch") # {}
                     THEN argv[Value(argv[place[1]], place[1], place[2])].word ELSE Machine
           path == <<Meaning(lines, Defaults, <<"system", "rootfs">>), Operand(1), Arch>>
<1>1. Correct(argv) /\ FirstOperand(argv) = list
  BY DEF ParsesRight
<1>2. list \in Nat /\ Len(argv) \in Nat
  BY DEF StartInv, ArgsInv, ArgsTypeOK
<1>3. /\ HasOperand(1) <=> ~(list > Len(argv))
      /\ HasOperand(2) <=> list < Len(argv)
      /\ Operand(1) = argv[list].word
  <2>1. list + 1 - 1 = list /\ list + 2 - 1 = list + 1
    BY <1>2
  <2> QED
    BY <1>2, <2>1 DEF HasOperand, Operand
<1>4. Help <=> Places(argv, "helpflag") # {} \/ Places(argv, "althelp") # {}
  BY NamedFacts, StartOptions DEF Help
<1>5. Arch = Cpu(word)
  <2>1. used["arch"] > 0 <=> Places(argv, "arch") # {}
    BY NamedFacts, StartOptions
  <2>2. ASSUME Places(argv, "arch") # {}
        PROVE  text["arch"] = Value(argv[place[1]], place[1], place[2])
    <3>1. place \in Places(argv, "arch")
      BY <2>2
    <3> HIDE DEF place
    <3> QED
      BY <3>1, NamedFacts, StartOptions
  <2> HIDE DEF place
  <2> QED
    BY <2>1, <2>2 DEF Arch
<1>6. Refused <=> ~allowed \/ (prog = "shellit" /\ root /\ list < Len(argv))
  BY <1>3 DEF Refused
<1> DEFINE rest == IF list > Len(argv) THEN 2
                   ELSE IF Broken(lines) THEN 1
                   ELSE IF ~allowed \/ (prog = "shellit" /\ root /\ list < Len(argv)) THEN 2
                   ELSE IF path \in Rootfs THEN path ELSE 4
<1> DEFINE entered == privileged /\ (cwd \/ prog = "buildit")
<1>0. entered
  BY ProgramsAssumption DEF StartInv, Phase, Barred
<1>7. Expected = CASE ~entered -> 2
                   [] entered /\ ~Correct(argv) -> 3
                   [] entered /\ Correct(argv) /\ Help -> 0
                   [] OTHER -> rest
  BY <1>1, <1>3, <1>4, <1>5, Zenon DEF Expected
<1> HIDE DEF rest, entered
<1>8. Expected = IF Help THEN 0 ELSE rest
  BY <1>0, <1>1, <1>7
<1> QED
  BY <1>3, <1>6, <1>8 DEF rest

\* The outcome does not change once there is one, and none comes unexpected.
LEMMA EndsRightNext ==
  ASSUME StartInv, LoadInv, EndInv, ParsesRight, EndsRight, [Next]_vars PROVE EndsRight'
<1> DEFINE path == <<Meaning(Read(config), Defaults, <<"system", "rootfs">>), Operand(1), Arch>>
<1>0. ASSUME UNCHANGED <<argVars, keyVars, inputs>> PROVE Expected' = Expected
  <2>1. UNCHANGED <<argv, list, config, inputs>>
    BY <1>0 DEF argVars, keyVars, inputs
  <2>2. Defaults' = Defaults
    BY <2>1, SameDefaults DEF inputs
  <2> QED
    BY <2>1, <2>2 DEF Expected, inputs
<1>1. CASE ~Running
  <2>1. UNCHANGED vars
    BY <1>1 DEF Next, Parse, Bar, BadArg, ShowHelp, NoDistro, Configure, Load, BadConfig, Refuse,
       FindDistro, Ended
  <2> QED
    BY <1>0, <1>1, <2>1 DEF vars, startVars, inputs, EndsRight, Running
<1>2. ASSUME NEW c, Exit(c), UNCHANGED <<argVars, keyVars>>, Running, Expected = c PROVE EndsRight'
  BY <1>0, <1>2 DEF Exit, EndsRight, Running
<1>3. CASE Parse \/ Configure \/ Load
  BY <1>3 DEF Parse, Configure, Load, startVars, inputs, EndsRight, Running
<1>4. CASE BadArg
  <2>1. ~Correct(argv) /\ ~Barred
    BY <1>4 DEF BadArg, ParsesRight, StartInv, Phase
  <2>2. privileged /\ (cwd \/ prog = "buildit")
    BY <2>1, ProgramsAssumption DEF Barred, StartInv
  <2>3. Expected = 3
    BY <2>1, <2>2 DEF Expected
  <2> QED
    BY <1>2, <1>4, <2>3 DEF BadArg
<1>12. CASE Bar
  <2>1. ~(privileged /\ (cwd \/ prog = "buildit"))
    BY <1>12 DEF Bar, Barred
  <2>2. Expected = 2
    BY <2>1 DEF Expected
  <2> QED
    BY <1>2, <1>12, <2>2 DEF Bar
<1>5. CASE ShowHelp
  BY <1>2, <1>5, ExpectedFacts DEF ShowHelp
<1>6. CASE NoDistro
  BY <1>2, <1>6, ExpectedFacts DEF NoDistro
<1>7. CASE BadConfig
  <2>1. state = "done" /\ ~Help /\ HasOperand(1) /\ Broken(Read(config))
    BY <1>7 DEF BadConfig, StartInv, Phase, EndInv, Configured, LoadInv
  <2>2. Expected = 1
    BY <2>1, ExpectedFacts
  <2> QED
    BY <1>2, <1>7, <2>2 DEF BadConfig
<1>8. ASSUME Loaded
      PROVE  /\ state = "done" /\ ~Help /\ HasOperand(1) /\ ~Broken(Read(config))
             /\ Distrofs = path
  <2>1. state = "done" /\ ~Help /\ HasOperand(1)
    BY <1>8 DEF Loaded, StartInv, Phase, EndInv, Configured
  <2>2. <<"system", "rootfs">> \in Settings
    BY SystemSettings
  <2> QED
    BY <1>8, <2>1, <2>2, LoadedRight DEF Distrofs
<1>9. CASE Refuse
  <2>1. Expected = 2
    BY <1>8, <1>9, ExpectedFacts DEF Refuse
  <2> QED
    BY <1>2, <1>9, <2>1 DEF Refuse
<1>10. CASE FindDistro
  <2>1. Expected = IF path \in Rootfs THEN path ELSE 4
    BY <1>8, <1>10, ExpectedFacts DEF FindDistro
  <2>2. CASE path \in Rootfs
    <3>1. distrofs' = path /\ UNCHANGED <<argVars, keyVars, inputs, code>> /\ code = None
      BY <1>8, <1>10, <2>2 DEF FindDistro, Running
    <3> QED
      BY <1>0, <2>1, <2>2, <3>1 DEF EndsRight
  <2>3. CASE path \notin Rootfs
    BY <1>2, <1>8, <1>10, <2>1, <2>3 DEF FindDistro
  <2> QED
    BY <2>2, <2>3
<1>11. CASE UNCHANGED vars
  BY <1>0, <1>11 DEF vars, startVars, inputs, EndsRight, Running
<1> QED
  BY <1>3, <1>4, <1>5, <1>6, <1>7, <1>9, <1>10, <1>11, <1>12 DEF Next, Ended

\* Every start ends as its command line, its files and its user make it end.
THEOREM StartEndsRight == Spec => []EndsRight
<1>1. Init => EndsRight
  BY DEF Init, EndsRight, Running
<1> QED
  BY <1>1, EndsRightNext, StartInvariant, LoadInvariant, EndInvariant, CommandLineIsRight, PTL DEF Spec
=============================================================================
