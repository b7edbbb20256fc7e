-------------------------------- MODULE Args --------------------------------
(***************************************************************************)
(* The constructor of class args: parsing the command line.  It walks once *)
(* over the null-terminated vector argv with the pointer list, sets the    *)
(* registered options, and leaves list at the first operand.               *)
(*                                                                         *)
(* An element of argv is abstracted to what the parser finds out about it: *)
(*   dashes    leading '-' characters that it skips, 0, 1 or 2             *)
(*   long      the first registered option whose long name the text after  *)
(*             the dashes begins with (the text may go on after the name)  *)
(*   eq        does '=' follow that name?                                  *)
(*   letters   the characters of that text, each as the option it is the   *)
(*             short name of                                               *)
(*   word      what the element says as a value (behind '=' if there is    *)
(*             one) or as an operand                                       *)
(* Every option of the programs is single-use, and none uses Mode.         *)
(***************************************************************************)
EXTENDS Integers, Sequences, FiniteSets

CONSTANTS
    Options,    \* the registered options
    Uses,       \* those that take a value (args::string)
    None,       \* no option
    Words,      \* values and operands
    Elements,   \* elements of a command line
    Argvs       \* the command lines to parse, without argv[0]

Element == [dashes : 0..2, long : Options \cup {None}, eq : BOOLEAN,
            letters : Seq(Options \cup {None}), word : Words]

ASSUME OptionsAssumption  == Uses \subseteq Options /\ None \notin Options
\* No long name is empty.
ASSUME ElementsAssumption ==
    \A e \in Elements : e \in Element /\ (e.letters = <<>> => e.long = None)
ASSUME ArgvsAssumption    == \A a \in Argvs : a \in Seq(Elements)

VARIABLES
    argv,   \* the command line
    list,   \* the element the pointer is at; Len(argv) + 1 is the null
    group,  \* the element whose letters are read
    at,     \* the letter of it that is looked at
    used,   \* used_count of each option
    text,   \* the element that holds an option's value
    state   \* what the constructor does: "next", "letters"; or "done", "bad_arg"

argVars == <<argv, list, group, at, used, text, state>>

ArgsInit ==
    /\ argv \in Argvs
    /\ list = 1
    /\ group = 0
    /\ at = 1
    /\ used = [o \in Options |-> 0]
    /\ text = [o \in Options |-> 0]
    /\ state = "next"

Arg   == argv[list]
AtEnd == list = Len(argv) + 1
\* The element "--".
IsMark(e) == e.dashes = 2 /\ e.letters = <<>>
IsWord(e) == e.dashes = 0

-----------------------------------------------------------------------------
\* Mutant of Assign: an option may be given again.
AssignAgain(o, i, then) ==
    /\ used' = [used EXCEPT ![o] = 1]
    /\ text' = [text EXCEPT ![o] = i]
    /\ state' = then

\* assign(): element i holds the value; an option is given only once.
Assign(o, i, then) ==
    IF used[o] > 0
      THEN state' = "bad_arg" /\ UNCHANGED <<used, text>>
      ELSE /\ used' = [used EXCEPT ![o] = @ + 1]
           /\ text' = [text EXCEPT ![o] = i]
           /\ state' = then

\* Mutant of TakeValue: the null that ends argv is taken for a value.
TakeValueUnchecked(o, i, then) ==
    /\ list' = i + 1
    /\ Assign(o, i, then)

\* op_value = *(list++): element i is the value, unless it is the null.
TakeValue(o, i, then) ==
    /\ list' = i + 1
    /\ IF i > Len(argv)
         THEN state' = "bad_arg" /\ UNCHANGED <<used, text>>
         ELSE Assign(o, i, then)

\* The null: there are no operands.
NoMore ==
    /\ state = "next"
    /\ AtEnd
    /\ state' = "done"
    /\ UNCHANGED <<argv, list, group, at, used, text>>

\* "--" ends the options and is not an operand.
Mark ==
    /\ state = "next"
    /\ ~AtEnd
    /\ IsMark(Arg)
    /\ list' = list + 1
    /\ state' = "done"
    /\ UNCHANGED <<argv, group, at, used, text>>

\* The first element without a dash is the first operand.
Word ==
    /\ state = "next"
    /\ ~AtEnd
    /\ IsWord(Arg)
    /\ state' = "done"
    /\ UNCHANGED <<argv, list, group, at, used, text>>

\* A long name, after one dash or two; its value follows '=' or is the next
\* element, whatever that looks like.
Long ==
    /\ state = "next"
    /\ ~AtEnd
    /\ ~IsWord(Arg)
    /\ Arg.long # None
    /\ LET op == Arg.long
       IN  \/ /\ Arg.eq /\ op \in Uses
              /\ list' = list + 1
              /\ Assign(op, list, "next")
           \/ /\ Arg.eq /\ op \notin Uses
              /\ list' = list + 1
              /\ state' = "bad_arg"
              /\ UNCHANGED <<used, text>>
           \/ ~Arg.eq /\ op \in Uses /\ TakeValue(op, list + 1, "next")
           \/ /\ ~Arg.eq /\ op \notin Uses
              /\ list' = list + 1
              /\ Assign(op, 0, "next")
    /\ UNCHANGED <<argv, group, at>>

\* No long name: after two dashes an error, after one a group of letters.
NoLong ==
    /\ state = "next"
    /\ ~AtEnd
    /\ ~IsWord(Arg) /\ ~IsMark(Arg)
    /\ Arg.long = None
    /\ list' = list + 1
    /\ group' = list
    /\ at' = 1
    /\ state' = IF Arg.dashes = 2 THEN "bad_arg" ELSE "letters"
    /\ UNCHANGED <<argv, used, text>>

Letters == argv[group].letters

\* One letter of a group; the values that letters take are the elements after
\* the group, in the order of the letters.
Letter ==
    /\ state = "letters"
    /\ at <= Len(Letters)
    /\ at' = at + 1
    /\ LET op == Letters[at]
       IN  \/ /\ op = None
              /\ state' = "bad_arg"
              /\ UNCHANGED <<list, used, text>>
           \/ op \in Uses /\ TakeValue(op, list, "letters")
           \/ /\ op \in Options \ Uses
              /\ Assign(op, 0, "letters")
              /\ UNCHANGED list
    /\ UNCHANGED <<argv, group>>

\* Mutant of GroupEnd: the loop over the letters does not end.
GroupEndAgain ==
    /\ state = "letters"
    /\ at > Len(Letters)
    /\ at' = 1
    /\ UNCHANGED <<argv, list, group, used, text, state>>

\* The group is read; a single "-" is one without letters.
GroupEnd ==
    /\ state = "letters"
    /\ at > Len(Letters)
    /\ state' = "next"
    /\ UNCHANGED <<argv, list, group, at, used, text>>

ArgsNext == NoMore \/ Mark \/ Word \/ Long \/ NoLong \/ Letter \/ GroupEnd

ArgsSpec == ArgsInit /\ [][ArgsNext]_argVars

-----------------------------------------------------------------------------
(* Properties *)

\* The variables have their types.
ArgsTypeOK ==
    /\ argv \in Seq(Elements)
    /\ list \in 1..(Len(argv) + 2)
    /\ group \in 0..Len(argv)
    /\ at \in Nat \ {0}
    /\ used \in [Options -> 0..1]
    /\ text \in [Options -> 0..Len(argv)]
    /\ state \in {"next", "letters", "done", "bad_arg"}

\* The pointer passes the null only in the step that throws: a parser that goes
\* on, or has returned, never reads behind argv, and paths() points into it.
InBounds == state # "bad_arg" => list <= Len(argv) + 1

\* What a command line means, said without the pointer.  The options an element
\* names, and which of them take an element after it for their value.
IsOption(e) == ~IsWord(e) /\ ~IsMark(e)
Names(e) == IF e.long = None THEN e.letters ELSE <<e.long>>
Takers(e) == {k \in DOMAIN Names(e) : Names(e)[k] \in Uses /\ ~(e.long # None /\ e.eq)}
Valid(e) == IF e.long = None
              THEN e.dashes = 1 /\ \A k \in DOMAIN e.letters : e.letters[k] # None
              ELSE e.eq => e.long \in Uses

\* The elements that are read as options or end them: the first, and the one
\* after the values of each of these.
After(e, i) == i + 1 + Cardinality(Takers(e))
IsHead(a) ==
    LET head[i \in 1..(Len(a) + 1)] ==
          \/ i = 1
          \/ \E j \in 1..(i - 1) : IsOption(a[j]) /\ i = After(a[j], j) /\ head[j]
    IN  head
Heads(a) == {i \in 1..Len(a) : IsHead(a)[i] /\ IsOption(a[i])}
Stops(a) == {i \in 1..(Len(a) + 1) : IsHead(a)[i]} \ Heads(a)

\* Where option o is named: heads and places in them.  Its value is element
\* Value(e, i, k) if it is named at place k of head i, which is e.
Places(a, o) == UNION {{<<i, k>> : k \in {k \in DOMAIN Names(a[i]) : Names(a[i])[k] = o}}
                         : i \in Heads(a)}
FirstOperand(a) == LET i == CHOOSE i \in Stops(a) : TRUE
                   IN  IF i <= Len(a) /\ IsMark(a[i]) THEN i + 1 ELSE i
Value(e, i, k) == IF k \in Takers(e) THEN i + Cardinality(Takers(e) \cap 1..k)
                  ELSE IF Names(e)[k] \in Uses THEN i ELSE 0

Correct(a) ==
    /\ Stops(a) # {}
    /\ \A i \in Heads(a) : Valid(a[i])
    /\ \A o \in Options : \A p, q \in Places(a, o) : p = q

\* The parser accepts exactly the command lines that are correct, and then every
\* option has the value that follows it, no element is read twice or left out,
\* and the operands are all that remains.
ParsesRight ==
    /\ state = "bad_arg" => ~Correct(argv)
    /\ state = "done" =>
         /\ Correct(argv)
         /\ list = FirstOperand(argv)
         /\ \A o \in Options :
              /\ used[o] = Cardinality(Places(argv, o))
              /\ \A p \in Places(argv, o) : text[o] = Value(argv[p[1]], p[1], p[2])
=============================================================================
