----------------------------- MODULE ArgsProofs -----------------------------
(* Proofs about Args: for every set of options and every command line. *)
EXTENDS Args, FiniteSetTheorems, TLAPS

\* The inductive invariant: the pointer is inside the vector while the parser
\* goes on, and the group whose letters are read is an element of it.
ArgsInv ==
    /\ ArgsTypeOK
    /\ InBounds
    /\ state = "letters" => group \in 1..Len(argv)

USE OptionsAssumption, ElementsAssumption

\* Every element of a command line has the fields of one.
LEMMA ElementFields ==
    ASSUME NEW a \in Seq(Elements), NEW i \in 1..Len(a)
    PROVE  /\ a[i].long \in Options \cup {None}
           /\ a[i].letters \in Seq(Options \cup {None})
  <1>1. a[i] \in Elements
    OBVIOUS
  <1>2. a[i] \in Element
    BY <1>1
  <1> QED
    BY <1>2 DEF Element

\* The parser starts inside the vector.
LEMMA ArgsInitial == ArgsInit => ArgsInv
  <1> SUFFICES ASSUME ArgsInit PROVE ArgsInv
    OBVIOUS
  <1>1. argv \in Seq(Elements) /\ Len(argv) \in Nat
    BY ArgvsAssumption DEF ArgsInit
  <1> QED
    BY <1>1 DEF ArgsInit, ArgsInv, ArgsTypeOK, InBounds

\* assign() keeps the types, and goes where it is told or throws.
LEMMA AssignFacts ==
    ASSUME ArgsTypeOK, NEW o \in Options, NEW i \in 0..Len(argv), NEW then,
           Assign(o, i, then)
    PROVE  /\ used' \in [Options -> 0..1]
           /\ text' \in [Options -> 0..Len(argv)]
           /\ state' \in {then, "bad_arg"}
  <1>1. Len(argv) \in Nat
    BY DEF ArgsTypeOK
  <1>2. CASE used[o] > 0
    BY <1>2 DEF Assign, ArgsTypeOK
  <1>3. CASE ~(used[o] > 0)
    <2>1. used[o] = 0
      BY <1>3 DEF ArgsTypeOK
    <2>2. used' = [used EXCEPT ![o] = 1] /\ text' = [text EXCEPT ![o] = i] /\ state' = then
      BY <1>3, <2>1 DEF Assign
    <2> QED
      BY <2>2, <1>1 DEF ArgsTypeOK
  <1> QED
    BY <1>2, <1>3

\* Taking a value: the pointer passes the null only when the step throws.
LEMMA TakeValueFacts ==
    ASSUME ArgsTypeOK, NEW o \in Options, NEW i \in 1..(Len(argv) + 1), NEW then,
           then # "bad_arg", TakeValue(o, i, then)
    PROVE  /\ used' \in [Options -> 0..1]
           /\ text' \in [Options -> 0..Len(argv)]
           /\ state' \in {then, "bad_arg"}
           /\ list' \in 1..(Len(argv) + 2)
           /\ state' # "bad_arg" => list' <= Len(argv) + 1
  <1>1. Len(argv) \in Nat /\ list' = i + 1
    BY DEF ArgsTypeOK, TakeValue
  <1>2. CASE i > Len(argv)
    BY <1>1, <1>2 DEF TakeValue, ArgsTypeOK
  <1>3. CASE ~(i > Len(argv))
    <2>1. i \in 0..Len(argv) /\ Assign(o, i, then)
      BY <1>1, <1>3 DEF TakeValue
    <2>2. used' \in [Options -> 0..1] /\ text' \in [Options -> 0..Len(argv)]
            /\ state' \in {then, "bad_arg"}
      BY <2>1, AssignFacts
    <2> QED
      BY <2>1, <2>2, <1>1
  <1> QED
    BY <1>2, <1>3

\* Every step of the parser keeps the invariant.
LEMMA ArgsStep == ArgsInv /\ [ArgsNext]_argVars => ArgsInv'
  <1> SUFFICES ASSUME ArgsInv, [ArgsNext]_argVars PROVE ArgsInv'
    OBVIOUS
  <1> USE DEF ArgsInv
  <1>0. Len(argv) \in Nat /\ list \in Nat /\ at \in Nat
    BY DEF ArgsTypeOK
  <1>1. CASE NoMore
    BY <1>0, <1>1 DEF NoMore, AtEnd, ArgsTypeOK, InBounds
  <1>2. CASE Mark
    BY <1>0, <1>2 DEF Mark, AtEnd, ArgsTypeOK, InBounds
  <1>3. CASE Word
    BY <1>0, <1>3 DEF Word, AtEnd, ArgsTypeOK, InBounds
  <1>4. CASE Long
    <2> DEFINE op == Arg.long
    <2>1. list \in 1..Len(argv) /\ state = "next" /\ argv' = argv /\ group' = group /\ at' = at
      BY <1>0, <1>4 DEF Long, AtEnd, ArgsTypeOK, InBounds
    <2>2. op \in Options
      BY <1>4, <2>1, ElementFields DEF Long, Arg, ArgsTypeOK
    <2>3. CASE list' = list + 1 /\ Assign(op, list, "next")
      <3>1. list \in 0..Len(argv)
        BY <2>1, <1>0
      <3>2. used' \in [Options -> 0..1] /\ text' \in [Options -> 0..Len(argv)]
              /\ state' \in {"next", "bad_arg"}
        BY <2>2, <2>3, <3>1, AssignFacts
      <3> QED
        BY <1>0, <2>1, <2>3, <3>2 DEF ArgsTypeOK, InBounds
    <2>4. CASE list' = list + 1 /\ state' = "bad_arg" /\ UNCHANGED <<used, text>>
      BY <1>0, <2>1, <2>4 DEF ArgsTypeOK, InBounds
    <2>5. CASE TakeValue(op, list + 1, "next")
      <3>1. list + 1 \in 1..(Len(argv) + 1)
        BY <2>1, <1>0
      <3>2. /\ used' \in [Options -> 0..1]
            /\ text' \in [Options -> 0..Len(argv)]
            /\ state' \in {"next", "bad_arg"}
            /\ list' \in 1..(Len(argv) + 2)
            /\ state' # "bad_arg" => list' <= Len(argv) + 1
        BY <2>2, <2>5, <3>1, TakeValueFacts
      <3> QED
        BY <1>0, <2>1, <3>2 DEF ArgsTypeOK, InBounds
    <2>6. CASE list' = list + 1 /\ Assign(op, 0, "next")
      <3>1. 0 \in 0..Len(argv)
        BY <1>0
      <3>2. used' \in [Options -> 0..1] /\ text' \in [Options -> 0..Len(argv)]
              /\ state' \in {"next", "bad_arg"}
        BY <2>2, <2>6, <3>1, AssignFacts
      <3> QED
        BY <1>0, <2>1, <2>6, <3>2 DEF ArgsTypeOK, InBounds
    <2> QED
      BY <1>4, <2>3, <2>4, <2>5, <2>6 DEF Long
  <1>5. CASE NoLong
    BY <1>0, <1>5 DEF NoLong, AtEnd, ArgsTypeOK, InBounds
  <1>6. CASE Letter
    <2> DEFINE op == Letters[at]
    <2>1. group \in 1..Len(argv) /\ state = "letters" /\ argv' = argv /\ group' = group
            /\ at' = at + 1 /\ list \in 1..(Len(argv) + 1)
      BY <1>0, <1>6 DEF Letter, ArgsTypeOK, InBounds
    <2>2. op \in Options \cup {None}
      BY <1>0, <1>6, <2>1, ElementFields DEF Letter, Letters, ArgsTypeOK
    <2>3. CASE state' = "bad_arg" /\ UNCHANGED <<list, used, text>>
      BY <1>0, <2>1, <2>3 DEF ArgsTypeOK, InBounds
    <2>4. CASE op \in Uses /\ TakeValue(op, list, "letters")
      <3>1. /\ used' \in [Options -> 0..1]
            /\ text' \in [Options -> 0..Len(argv)]
            /\ state' \in {"letters", "bad_arg"}
            /\ list' \in 1..(Len(argv) + 2)
            /\ state' # "bad_arg" => list' <= Len(argv) + 1
        BY <2>1, <2>4, TakeValueFacts
      <3> QED
        BY <1>0, <2>1, <3>1 DEF ArgsTypeOK, InBounds
    <2>5. CASE op \in Options \ Uses /\ Assign(op, 0, "letters") /\ UNCHANGED list
      <3>1. 0 \in 0..Len(argv)
        BY <1>0
      <3>2. used' \in [Options -> 0..1] /\ text' \in [Options -> 0..Len(argv)]
              /\ state' \in {"letters", "bad_arg"}
        BY <2>5, <3>1, AssignFacts
      <3> QED
        BY <1>0, <2>1, <2>5, <3>2 DEF ArgsTypeOK, InBounds
    <2> QED
      BY <1>6, <2>3, <2>4, <2>5 DEF Letter
  <1>7. CASE GroupEnd
    BY <1>7 DEF GroupEnd, ArgsTypeOK, InBounds
  <1>8. CASE UNCHANGED argVars
    BY <1>8 DEF argVars, ArgsTypeOK, InBounds
  <1> QED
    BY <1>1, <1>2, <1>3, <1>4, <1>5, <1>6, <1>7, <1>8 DEF ArgsNext

\* args::args never reads behind the null that ends argv and goes on, whatever
\* options are registered and whatever the command line is.
THEOREM ParserInBounds == ArgsSpec => []InBounds
  <1>1. ArgsInv => InBounds
    BY DEF ArgsInv
  <1> QED
    BY <1>1, ArgsInitial, ArgsStep, PTL DEF ArgsSpec

-----------------------------------------------------------------------------
(* Which elements are read as options *)

\* The least set that has the first element and, with an option, the element
\* after the values it takes.
Follows(a, H) ==
    /\ 1 \in H
    /\ \A i \in H : i <= Len(a) /\ IsOption(a[i]) /\ After(a[i], i) <= Len(a) + 1
                      => After(a[i], i) \in H

Reached(a) == {i \in 1..(Len(a) + 1) :
                 \A H \in SUBSET (1..(Len(a) + 1)) : Follows(a, H) => i \in H}

\* An element names finitely many options.
LEMMA TakersFacts ==
    ASSUME NEW a \in Seq(Elements), NEW i \in 1..Len(a)
    PROVE  /\ Names(a[i]) \in Seq(Options \cup {None}) /\ Len(Names(a[i])) \in Nat
           /\ Takers(a[i]) \subseteq 1..Len(Names(a[i]))
           /\ \A k \in Nat : /\ IsFiniteSet(Takers(a[i]) \cap 1..k)
                             /\ Cardinality(Takers(a[i]) \cap 1..k) \in Nat
           /\ IsFiniteSet(Takers(a[i])) /\ Cardinality(Takers(a[i])) \in Nat
           /\ After(a[i], i) \in Nat /\ After(a[i], i) > i
  <1>1. Names(a[i]) \in Seq(Options \cup {None})
    <2>1. CASE a[i].long = None
      BY <2>1, ElementFields DEF Names
    <2>2. CASE a[i].long # None
      <3>1. Names(a[i]) = <<a[i].long>> /\ a[i].long \in Options
        BY <2>2, ElementFields DEF Names
      <3> QED
        BY <3>1
    <2> QED
      BY <2>1, <2>2
  <1>2. Len(Names(a[i])) \in Nat /\ DOMAIN Names(a[i]) = 1..Len(Names(a[i]))
    BY <1>1
  <1>3. Takers(a[i]) \subseteq 1..Len(Names(a[i]))
    BY <1>2 DEF Takers
  <1>4. IsFiniteSet(1..Len(Names(a[i])))
    BY <1>2, FS_Interval
  <1>5. IsFiniteSet(Takers(a[i]))
    BY <1>3, <1>4, FS_Subset
  <1>6. ASSUME NEW k \in Nat
        PROVE  IsFiniteSet(Takers(a[i]) \cap 1..k) /\ Cardinality(Takers(a[i]) \cap 1..k) \in Nat
    <2>1. IsFiniteSet(Takers(a[i]) \cap 1..k)
      BY <1>5, FS_Subset
    <2> QED
      BY <2>1, FS_CardinalityType
  <1>7. Cardinality(Takers(a[i])) \in Nat
    BY <1>5, FS_CardinalityType
  <1>8. After(a[i], i) \in Nat /\ After(a[i], i) > i
    BY <1>7 DEF After
  <1> QED
    BY <1>1, <1>2, <1>3, <1>5, <1>6, <1>7, <1>8

\* The least set is closed, and no smaller set is.
LEMMA ReachedFollows ==
    ASSUME NEW a \in Seq(Elements)
    PROVE  Follows(a, Reached(a))
  <1>1. Len(a) \in Nat
    OBVIOUS
  <1>2. 1 \in Reached(a)
    BY <1>1 DEF Reached, Follows
  <1>3. ASSUME NEW i \in Reached(a), i <= Len(a), IsOption(a[i]), After(a[i], i) <= Len(a) + 1
        PROVE  After(a[i], i) \in Reached(a)
    <2>1. i \in 1..Len(a)
      BY <1>1, <1>3 DEF Reached
    <2>2. After(a[i], i) \in 1..(Len(a) + 1)
      BY <1>1, <1>3, <2>1, TakersFacts
    <2>3. ASSUME NEW H \in SUBSET (1..(Len(a) + 1)), Follows(a, H) PROVE After(a[i], i) \in H
      BY <1>3, <2>3 DEF Follows, Reached
    <2> QED
      BY <2>2, <2>3 DEF Reached
  <1> QED
    BY <1>2, <1>3 DEF Follows

LEMMA ReachedLeast ==
    ASSUME NEW a, NEW H \in SUBSET (1..(Len(a) + 1)), Follows(a, H)
    PROVE  Reached(a) \subseteq H
  BY DEF Reached

\* Why an element is reached.
LEMMA ReachedWhy ==
    ASSUME NEW a \in Seq(Elements), NEW i \in 1..(Len(a) + 1)
    PROVE  i \in Reached(a) <=>
             \/ i = 1
             \/ \E j \in 1..(i - 1) : IsOption(a[j]) /\ i = After(a[j], j) /\ j \in Reached(a)
  <1>1. Len(a) \in Nat /\ Reached(a) \subseteq 1..(Len(a) + 1)
    BY DEF Reached
  <1>2. ASSUME i \in Reached(a), i # 1,
               ~\E j \in 1..(i - 1) : IsOption(a[j]) /\ i = After(a[j], j) /\ j \in Reached(a)
        PROVE  FALSE
    <2> DEFINE H == Reached(a) \ {i}
    <2>1. 1 \in H
      BY <1>2, ReachedFollows DEF Follows
    <2>2. ASSUME NEW j \in H, j <= Len(a), IsOption(a[j]), After(a[j], j) <= Len(a) + 1
          PROVE  After(a[j], j) \in H
      <3>1. After(a[j], j) \in Reached(a)
        BY <2>2, ReachedFollows DEF Follows
      <3>2. j \in 1..Len(a)
        BY <1>1, <2>2
      <3>3. After(a[j], j) \in Nat /\ After(a[j], j) > j
        BY <3>2, TakersFacts
      <3>4. After(a[j], j) # i
        BY <1>2, <2>2, <3>2, <3>3
      <3> QED
        BY <3>1, <3>4
    <2>3. Follows(a, H)
      BY <2>1, <2>2 DEF Follows
    <2> QED
      BY <1>1, <1>2, <2>3, ReachedLeast
  <1>3. i = 1 => i \in Reached(a)
    BY ReachedFollows DEF Follows
  <1>4. ASSUME NEW j \in 1..(i - 1), IsOption(a[j]), i = After(a[j], j), j \in Reached(a)
        PROVE  i \in Reached(a)
    BY <1>1, <1>4, ReachedFollows DEF Follows
  <1> QED
    BY <1>2, <1>3, <1>4

\* A set of natural numbers has a least one.
LEMMA LeastOf ==
    ASSUME NEW T \in SUBSET Nat, T # {}
    PROVE  \E x \in T : \A y \in T : x <= y
  <1>1. \E x \in T : \A y \in T : ~(<<y, x>> \in OpToRel(<, Nat))
    BY NatLessThanWellFounded, WFMin
  <1>2. \A x, y \in Nat : y < x => <<y, x>> \in OpToRel(<, Nat)
    BY Zenon DEF OpToRel
  <1>3. \E x \in T : \A y \in T : ~(y < x)
    BY <1>1, <1>2, Zenon
  <1> QED
    BY <1>3

\* The recursive definition has a solution, and it is that set.
LEMMA HeadIsReached ==
    ASSUME NEW a \in Seq(Elements), NEW i \in 1..(Len(a) + 1)
    PROVE  IsHead(a)[i] <=> i \in Reached(a)
  <1> DEFINE N == 1..(Len(a) + 1)
             Why(h, k) == \/ k = 1
                          \/ \E j \in 1..(k - 1) : IsOption(a[j]) /\ k = After(a[j], j) /\ h[j]
             Def(h) == h = [k \in N |-> Why(h, k)]
             known == [k \in N |-> k \in Reached(a)]
  <1>1. Len(a) \in Nat
    OBVIOUS
  <1>2. \A k \in N : \A j \in 1..(k - 1) : j \in N
    BY <1>1
  <1>3. ASSUME NEW k \in N PROVE Why(known, k) <=> k \in Reached(a)
    BY <1>2, ReachedWhy
  <1> HIDE DEF Why
  <1>4. Def(known)
    <2>1. \A k \in N : known[k] = Why(known, k)
      <3> TAKE k \in N
      <3>1. known[k] = (k \in Reached(a))
        OBVIOUS
      <3>2. Why(known, k) \in BOOLEAN
        BY DEF Why
      <3>3. Why(known, k) <=> k \in Reached(a)
        BY <1>3
      <3> HIDE DEF known
      <3> QED
        BY <3>1, <3>2, <3>3
    <2> QED
      BY <2>1, Zenon
  <1>5. IsHead(a) = CHOOSE h : Def(h)
    BY DEF IsHead, Why
  <1>6. Def(IsHead(a))
    <2> HIDE DEF Def
    <2> QED
      BY <1>4, <1>5, Zenon
  <1> USE DEF Why
  <1> DEFINE h == IsHead(a)
             diff == {k \in N : ~(h[k] <=> k \in Reached(a))}
  <1>7. \A k \in N : h[k] <=> Why(h, k)
    BY <1>6
  <1> HIDE DEF h, Def
  <1>8. diff = {}
    <2> SUFFICES ASSUME diff # {} PROVE FALSE
      OBVIOUS
    <2>1. diff \subseteq Nat
      BY <1>1
    <2>2. PICK k \in diff : \A y \in diff : k <= y
      BY <2>1, LeastOf
    <2>3. \A j \in 1..(k - 1) : h[j] <=> j \in Reached(a)
      BY <1>1, <1>2, <2>1, <2>2
    <2>4. h[k] <=> k \in Reached(a)
      BY <1>7, <2>2, <2>3, ReachedWhy
    <2> QED
      BY <2>2, <2>4
  <1> QED
    BY <1>8 DEF h

LEMMA HeadsFacts ==
    ASSUME NEW a \in Seq(Elements)
    PROVE  /\ Heads(a) = {i \in Reached(a) : i <= Len(a) /\ IsOption(a[i])}
           /\ Stops(a) = Reached(a) \ Heads(a)
  <1>1. Reached(a) \subseteq 1..(Len(a) + 1) /\ Len(a) \in Nat
    BY DEF Reached
  <1>2. \A i \in 1..Len(a) : i \in 1..(Len(a) + 1)
    BY <1>1
  <1>3. Heads(a) = {i \in Reached(a) : i <= Len(a) /\ IsOption(a[i])}
    BY <1>1, <1>2, HeadIsReached DEF Heads
  <1> QED
    BY <1>1, <1>3, HeadIsReached DEF Stops

-----------------------------------------------------------------------------
(* How far a walk over the heads has come *)

\* Head h is reached, and what was reached before it were correct options whose
\* values end before h.
Walked(a, h) ==
    /\ h \in Reached(a)
    /\ \A i \in Reached(a) : i < h => /\ IsOption(a[i]) /\ Valid(a[i])
                                      /\ After(a[i], i) <= h

\* Where option o is named before place k of head h.
Before(a, o, h, k) == {p \in Places(a, o) : p[1] < h \/ (p[1] = h /\ p[2] < k)}

LEMMA ReachedRange ==
    ASSUME NEW a \in Seq(Elements)
    PROVE  Len(a) \in Nat /\ Reached(a) \subseteq 1..(Len(a) + 1)
  BY DEF Reached

\* The values of a head are not reached.
LEMMA StepOver ==
    ASSUME NEW a \in Seq(Elements), NEW h \in Heads(a), Walked(a, h)
    PROVE  /\ h \in 1..Len(a)
           /\ \A i \in Reached(a) : i < After(a[h], h) => i <= h
           /\ After(a[h], h) <= Len(a) + 1 => After(a[h], h) \in Reached(a)
  <1>1. h \in 1..Len(a) /\ h \in Reached(a) /\ IsOption(a[h])
    BY DEF Heads, Walked
  <1> DEFINE l == After(a[h], h)
             H == {i \in Reached(a) : i <= h \/ i >= l}
  <1>2. l \in Nat /\ l > h
    BY <1>1, TakersFacts
  <1>3. Follows(a, H)
    <2>1. 1 \in H
      BY <1>1, ReachedFollows DEF Follows
    <2>2. ASSUME NEW j \in H, j <= Len(a), IsOption(a[j]), After(a[j], j) <= Len(a) + 1
          PROVE  After(a[j], j) \in H
      <3>1. After(a[j], j) \in Reached(a) /\ j \in 1..Len(a) /\ j \in Reached(a)
        BY <2>2, ReachedFollows, ReachedRange DEF Follows
      <3>2. After(a[j], j) \in Nat /\ After(a[j], j) > j
        BY <3>1, TakersFacts
      <3>3. CASE j < h
        BY <3>1, <3>3 DEF Walked
      <3>4. CASE j = h
        BY <1>2, <3>1, <3>4
      <3>5. CASE j >= l
        BY <1>2, <3>1, <3>2, <3>5
      <3> QED
        BY <1>1, <1>2, <2>2, <3>1, <3>3, <3>4, <3>5
    <2> QED
      BY <2>1, <2>2 DEF Follows
  <1>4. Reached(a) \subseteq H
    BY <1>3, ReachedRange, ReachedLeast
  <1>5. \A i \in Reached(a) : i < l => i <= h
    BY <1>2, <1>4, ReachedRange
  <1> QED
    BY <1>1, <1>5, ReachedFollows DEF Follows

\* The walk ends where no option is reached.
LEMMA StopHere ==
    ASSUME NEW a \in Seq(Elements), NEW h, Walked(a, h), h \notin Heads(a)
    PROVE  /\ Stops(a) = {h}
           /\ Heads(a) = {i \in Reached(a) : i < h}
           /\ \A i \in Heads(a) : Valid(a[i])
  <1>1. h \in 1..(Len(a) + 1) /\ h \in Reached(a) /\ ~(h <= Len(a) /\ IsOption(a[h]))
    BY ReachedRange, HeadsFacts DEF Walked
  <1> DEFINE H == {i \in Reached(a) : i <= h}
  <1>2. Follows(a, H)
    <2>1. 1 \in H
      BY <1>1, ReachedFollows DEF Follows
    <2>2. ASSUME NEW j \in H, j <= Len(a), IsOption(a[j]), After(a[j], j) <= Len(a) + 1
          PROVE  After(a[j], j) \in H
      <3>1. After(a[j], j) \in Reached(a) /\ j < h
        BY <1>1, <2>2, ReachedFollows, ReachedRange DEF Follows
      <3> QED
        BY <2>2, <3>1 DEF Walked
    <2> QED
      BY <2>1, <2>2 DEF Follows
  <1>3. \A i \in Reached(a) : i <= h
    BY <1>2, ReachedRange, ReachedLeast
  <1>4. \A i \in Reached(a) : i < h => i <= Len(a) /\ IsOption(a[i]) /\ Valid(a[i])
    BY <1>1, ReachedRange DEF Walked
  <1>5. Heads(a) = {i \in Reached(a) : i < h}
    BY <1>1, <1>3, <1>4, HeadsFacts, ReachedRange
  <1>6. Stops(a) = {h}
    BY <1>1, <1>3, <1>5, HeadsFacts, ReachedRange
  <1> QED
    BY <1>4, <1>5, <1>6

\* The walk does not end if a value is missing.
LEMMA NoStop ==
    ASSUME NEW a \in Seq(Elements), NEW h \in Heads(a), Walked(a, h), After(a[h], h) > Len(a) + 1
    PROVE  Stops(a) = {}
  <1>1. h \in 1..Len(a) /\ IsOption(a[h])
    BY DEF Heads
  <1>2. After(a[h], h) \in Nat
    BY <1>1, TakersFacts
  <1>3. \A i \in Reached(a) : i <= h /\ i \in 1..(Len(a) + 1)
    BY <1>2, StepOver, ReachedRange
  <1>4. \A i \in Reached(a) : i <= Len(a) /\ IsOption(a[i])
    BY <1>1, <1>3 DEF Walked
  <1> QED
    BY <1>4, HeadsFacts

LEMMA PlacesFacts ==
    ASSUME NEW a, NEW o
    PROVE  /\ \A p \in Places(a, o) : /\ p = <<p[1], p[2]>> /\ p[1] \in Heads(a)
                                      /\ p[2] \in DOMAIN Names(a[p[1]])
                                      /\ Names(a[p[1]])[p[2]] = o
           /\ \A i \in Heads(a) : \A k \in DOMAIN Names(a[i]) :
                Names(a[i])[k] = o => <<i, k>> \in Places(a, o)
  BY DEF Places

\* The places before the next one, and before the next head.
LEMMA PlaceFacts ==
    ASSUME NEW a \in Seq(Elements), NEW h \in Heads(a), NEW o, NEW k \in DOMAIN Names(a[h])
    PROVE  /\ h \in Nat /\ k \in Nat
           /\ \A p \in Places(a, o) :
                /\ p[1] \in Nat /\ p[2] \in Nat
                /\ (p[1] = h /\ p[2] < k + 1) <=> ((p[1] = h /\ p[2] < k) \/ p = <<h, k>>)
  <1>1. h \in 1..Len(a)
    BY DEF Heads
  <1>2. \A i \in 1..Len(a) : DOMAIN Names(a[i]) \subseteq Nat
    BY TakersFacts
  <1>3. \A p \in Places(a, o) : p[1] \in Nat /\ p[2] \in Nat
    BY <1>2, PlacesFacts DEF Heads
  <1>4. k \in Nat
    BY <1>1, <1>2
  <1> QED
    BY <1>1, <1>3, <1>4, PlacesFacts

LEMMA BeforeNew ==
    ASSUME NEW a \in Seq(Elements), NEW h \in Heads(a), NEW o,
           NEW k \in DOMAIN Names(a[h]), Names(a[h])[k] = o
    PROVE  <<h, k>> \in Places(a, o) \ Before(a, o, h, k)
  BY PlacesFacts, PlaceFacts DEF Before

LEMMA BeforeFirst ==
    ASSUME NEW a \in Seq(Elements), NEW h \in Heads(a), NEW o,
           NEW k \in DOMAIN Names(a[h]), Names(a[h])[k] = o, Before(a, o, h, k) = {}
    PROVE  Before(a, o, h, k + 1) = {<<h, k>>}
  BY BeforeNew, PlaceFacts DEF Before

LEMMA BeforeSame ==
    ASSUME NEW a \in Seq(Elements), NEW h \in Heads(a), NEW o,
           NEW k \in DOMAIN Names(a[h]), Names(a[h])[k] # o
    PROVE  Before(a, o, h, k + 1) = Before(a, o, h, k)
  <1>1. <<h, k>> \notin Places(a, o)
    BY PlacesFacts
  <1> QED
    BY <1>1, PlaceFacts DEF Before

LEMMA BeforeHead ==
    ASSUME NEW a \in Seq(Elements), NEW h \in Heads(a), Walked(a, h), NEW o
    PROVE  Before(a, o, After(a[h], h), 1) = Before(a, o, h, Len(Names(a[h])) + 1)
  <1> DEFINE l == After(a[h], h)
  <1>1. h \in 1..Len(a) /\ Heads(a) \subseteq Reached(a)
    BY HeadsFacts DEF Heads
  <1>2. l \in Nat /\ l > h /\ \A i \in Reached(a) : i < l => i <= h
    BY <1>1, TakersFacts, StepOver
  <1>3. \A p \in Places(a, o) : /\ p[1] \in Nat /\ p[2] \in Nat /\ p[2] >= 1
                                /\ p[1] < l <=> p[1] <= h
                                /\ p[1] = h => p[2] < Len(Names(a[h])) + 1
    <2> TAKE p \in Places(a, o)
    <2>1. p[1] \in Heads(a) /\ p[1] \in 1..Len(a) /\ p[2] \in DOMAIN Names(a[p[1]])
      BY PlacesFacts DEF Heads
    <2>2. p[2] \in 1..Len(Names(a[p[1]])) /\ Len(Names(a[p[1]])) \in Nat
      BY <2>1, TakersFacts
    <2> QED
      BY <1>1, <1>2, <2>1, <2>2
  <1> QED
    BY <1>1, <1>2, <1>3 DEF Before

LEMMA BeforeStop ==
    ASSUME NEW a \in Seq(Elements), NEW h, Walked(a, h), h \notin Heads(a), NEW o
    PROVE  Before(a, o, h, 1) = Places(a, o)
  BY StopHere, PlacesFacts DEF Before

-----------------------------------------------------------------------------
(* What the parser has made of the part of the command line it has read *)

\* Option o is set as its one place before place k of head h says, if any.
Counted(o, h, k) ==
    \/ used[o] = 0 /\ Before(argv, o, h, k) = {}
    \/ /\ used[o] = 1
       /\ \E p : /\ Before(argv, o, h, k) = {p}
                 /\ text[o] = Value(argv[p[1]], p[1], p[2])

ReadTo(h, k) == Walked(argv, h) /\ \A o \in Options : Counted(o, h, k)

InGroup ==
    LET e == argv[group]
    IN  /\ IsOption(e) /\ e.long = None /\ e.dashes = 1
        /\ at <= Len(e.letters) + 1
        /\ \A k \in 1..(at - 1) : e.letters[k] # None
        /\ list = group + 1 + Cardinality(Takers(e) \cap 1..(at - 1))

ParseInv ==
    /\ state = "next" => ReadTo(list, 1)
    /\ state = "letters" => ReadTo(group, at) /\ InGroup
    /\ state \in {"done", "bad_arg"} => ParsesRight

\* assign() sets an option named at a new place, or finds that it is there twice.
LEMMA AssignRight ==
    ASSUME ArgsInv, argv' = argv, NEW h \in Heads(argv), NEW k \in DOMAIN Names(argv[h]),
           \A o \in Options : Counted(o, h, k), Names(argv[h])[k] \in Options,
           NEW i, NEW then, Assign(Names(argv[h])[k], i, then), i = Value(argv[h], h, k)
    PROVE  \/ state' = then /\ \A o \in Options : Counted(o, h, k + 1)'
           \/ state' = "bad_arg" /\ ~Correct(argv)
  <1> DEFINE op == Names(argv[h])[k]
  <1>1. argv \in Seq(Elements) /\ used \in [Options -> 0..1]
        /\ text \in [Options -> 0..Len(argv)]
    BY DEF ArgsInv, ArgsTypeOK
  <1>2. CASE used[op] > 0
    <2>1. state' = "bad_arg"
      BY <1>2 DEF Assign
    <2>2. PICK p : Before(argv, op, h, k) = {p}
      BY <1>2 DEF Counted
    <2>3. p \in Places(argv, op) /\ p # <<h, k>>
      BY <1>1, <2>2, BeforeNew DEF Before
    <2>4. <<h, k>> \in Places(argv, op)
      BY PlacesFacts
    <2> QED
      BY <2>1, <2>3, <2>4 DEF Correct
  <1>3. CASE used[op] = 0
    <2>1. /\ used' = [used EXCEPT ![op] = 1] /\ text' = [text EXCEPT ![op] = i] /\ state' = then
      BY <1>3 DEF Assign
    <2>2. ASSUME NEW o \in Options, o # op PROVE Counted(o, h, k + 1)'
      <3>1. used'[o] = used[o] /\ text'[o] = text[o]
        BY <1>1, <2>1, <2>2
      <3>2. Before(argv, o, h, k + 1) = Before(argv, o, h, k)
        BY <1>1, <2>2, BeforeSame
      <3> QED
        BY <3>1, <3>2 DEF Counted
    <2>3. Counted(op, h, k + 1)'
      <3>1. used'[op] = 1 /\ text'[op] = i
        BY <1>1, <2>1
      <3>2. Before(argv, op, h, k) = {}
        BY <1>3 DEF Counted
      <3>3. Before(argv, op, h, k + 1) = {<<h, k>>}
        BY <1>1, <3>2, BeforeFirst
      <3>4. <<h, k>>[1] = h /\ <<h, k>>[2] = k
        OBVIOUS
      <3> QED
        BY <3>1, <3>2, <3>3, <3>4 DEF Counted
    <2> QED
      BY <2>1, <2>2, <2>3
  <1> QED
    BY <1>1, <1>2, <1>3

\* One place more takes one value more, or none.
LEMMA TakersNext ==
    ASSUME NEW a \in Seq(Elements), NEW h \in 1..Len(a), NEW k \in Nat \ {0}
    PROVE  /\ k \in Takers(a[h]) => Cardinality(Takers(a[h]) \cap 1..k)
                                      = Cardinality(Takers(a[h]) \cap 1..(k - 1)) + 1
           /\ h + 1 + Cardinality(Takers(a[h]) \cap 1..k) <= After(a[h], h)
  <1> DEFINE T == Takers(a[h])
  <1>1. k - 1 \in Nat /\ IsFiniteSet(T) /\ IsFiniteSet(T \cap 1..(k - 1))
    BY TakersFacts
  <1>2. 1..k = (1..(k - 1)) \cup {k} /\ k \notin 1..(k - 1)
    OBVIOUS
  <1>3. k \in T => T \cap 1..k = (T \cap 1..(k - 1)) \cup {k}
    BY <1>2, Zenon
  <1>5. k \in T => Cardinality(T \cap 1..k) = Cardinality(T \cap 1..(k - 1)) + 1
    BY <1>1, <1>2, <1>3, FS_AddElement
  <1>6. Cardinality(T \cap 1..k) \in Nat /\ Cardinality(T) \in Nat
    BY TakersFacts
  <1>7. Cardinality(T \cap 1..k) <= Cardinality(T)
    BY <1>1, FS_Subset
  <1>8. h + 1 + Cardinality(T \cap 1..k) <= After(a[h], h)
    BY <1>6, <1>7 DEF After
  <1> QED
    BY <1>5, <1>8

\* A head is read: the walk goes on behind its values.
LEMMA HeadRead ==
    ASSUME NEW a \in Seq(Elements), NEW h \in Heads(a), Walked(a, h), Valid(a[h]),
           After(a[h], h) <= Len(a) + 1
    PROVE  Walked(a, After(a[h], h))
  <1>1. h \in 1..Len(a) /\ IsOption(a[h])
    BY DEF Heads
  <1>2. After(a[h], h) \in Nat /\ After(a[h], h) > h
    BY <1>1, TakersFacts
  <1>3. ASSUME NEW i \in Reached(a), i < After(a[h], h)
        PROVE  IsOption(a[i]) /\ Valid(a[i]) /\ After(a[i], i) <= After(a[h], h)
    <2>1. i <= h /\ i \in 1..(Len(a) + 1)
      BY <1>3, StepOver, ReachedRange
    <2>2. CASE i = h
      BY <1>1, <1>2, <2>2
    <2>3. CASE i < h
      <3>1. IsOption(a[i]) /\ Valid(a[i]) /\ After(a[i], i) <= h
        BY <1>3, <2>3 DEF Walked
      <3>2. i \in 1..Len(a)
        BY <1>1, <2>1, <2>3
      <3>3. After(a[i], i) \in Nat
        BY <3>2, TakersFacts
      <3> QED
        BY <1>1, <1>2, <3>1, <3>3
    <2> QED
      BY <1>1, <2>1, <2>2, <2>3
  <1> QED
    BY <1>3, StepOver DEF Walked

\* The parser returns where the walk ends.
LEMMA DoneRight ==
    ASSUME ArgsInv, ReadTo(list, 1), list \notin Heads(argv), UNCHANGED <<argv, used, text>>,
           state' = "done",
           list' = IF list <= Len(argv) /\ IsMark(argv[list]) THEN list + 1 ELSE list
    PROVE  ParsesRight'
  <1>1. argv \in Seq(Elements) /\ Walked(argv, list)
    BY DEF ArgsInv, ArgsTypeOK, ReadTo
  <1>2. Stops(argv) = {list} /\ \A i \in Heads(argv) : Valid(argv[i])
    BY <1>1, StopHere
  <1>3. ASSUME NEW o \in Options
        PROVE  \/ used[o] = 0 /\ Places(argv, o) = {}
               \/ used[o] = 1 /\ \E p : /\ Places(argv, o) = {p}
                                        /\ text[o] = Value(argv[p[1]], p[1], p[2])
    BY <1>1, BeforeStop DEF ReadTo, Counted
  <1>4. Correct(argv)
    BY <1>2, <1>3 DEF Correct
  <1>5. FirstOperand(argv) = list'
    <2>1. (CHOOSE i \in {list} : TRUE) = list
      OBVIOUS
    <2> QED
      BY <1>2, <2>1 DEF FirstOperand
  <1>6. \A o \in Options : /\ used[o] = Cardinality(Places(argv, o))
                           /\ \A p \in Places(argv, o) : text[o] = Value(argv[p[1]], p[1], p[2])
    <2> TAKE o \in Options
    <2>1. CASE used[o] = 0 /\ Places(argv, o) = {}
      BY <2>1, FS_EmptySet
    <2>2. ASSUME NEW p, used[o] = 1, Places(argv, o) = {p},
                 text[o] = Value(argv[p[1]], p[1], p[2])
          PROVE  /\ used[o] = Cardinality(Places(argv, o))
                 /\ \A q \in Places(argv, o) : text[o] = Value(argv[q[1]], q[1], q[2])
      <3>1. Cardinality({p}) = 1
        BY FS_Singleton
      <3> QED
        BY <2>2, <3>1
    <2> QED
      BY <1>3, <2>1, <2>2
  <1> QED
    BY <1>4, <1>5, <1>6 DEF ParsesRight

LEMMA StopRight ==
    ASSUME ArgsInv, ParseInv, NoMore \/ Mark \/ Word
    PROVE  ParseInv'
  <1>1. /\ state = "next" /\ state' = "done" /\ UNCHANGED <<argv, used, text>>
        /\ list \in Nat /\ Len(argv) \in Nat /\ list <= Len(argv) + 1
    BY DEF NoMore, Mark, Word, ArgsInv, ArgsTypeOK, InBounds
  <1>2. ReadTo(list, 1)
    BY <1>1 DEF ParseInv
  <1>3. list \notin Heads(argv)
    BY <1>1 DEF NoMore, Mark, Word, AtEnd, Arg, IsOption, Heads
  <1>4. list' = IF list <= Len(argv) /\ IsMark(argv[list]) THEN list + 1 ELSE list
    BY <1>1 DEF NoMore, Mark, Word, AtEnd, Arg, IsMark, IsWord
  <1>5. ParsesRight'
    BY <1>1, <1>2, <1>3, <1>4, DoneRight
  <1> QED
    BY <1>1, <1>5 DEF ParseInv

\* The throw of bad_arg is right: something is wrong with the command line.
LEMMA ThrowRight ==
    ASSUME state' = "bad_arg", argv' = argv, ~Correct(argv)
    PROVE  ParseInv'
  BY DEF ParseInv, ParsesRight

LEMMA LongRight ==
    ASSUME ArgsInv, ParseInv, Long
    PROVE  ParseInv'
  <1> PICK h : h = list
    OBVIOUS
  <1> DEFINE e == argv[h]
             T == Takers(e)
  <1>1. /\ argv \in Seq(Elements) /\ h \in 1..Len(argv) /\ Len(argv) \in Nat
        /\ state = "next" /\ argv' = argv /\ group' = group /\ at' = at
        /\ ~IsWord(e) /\ e.long # None /\ Arg = e
    BY DEF Long, AtEnd, Arg, ArgsInv, ArgsTypeOK, InBounds
  <1>2. Walked(argv, h) /\ \A o \in Options : Counted(o, h, 1)
    BY <1>1 DEF ParseInv, ReadTo
  <1>3. e.long \in Options /\ e.letters # <<>>
    <2>1. e \in Elements
      BY <1>1
    <2> QED
      BY <1>1, <2>1, ElementFields
  <1>4. h \in Heads(argv)
    BY <1>1, <1>2, <1>3, HeadsFacts DEF Walked, IsOption, IsMark
  <1>5. Names(e) = <<e.long>> /\ DOMAIN Names(e) = {1} /\ Names(e)[1] = e.long /\ Len(Names(e)) = 1
    BY <1>1 DEF Names
  <1>6. T = IF e.long \in Uses /\ ~e.eq THEN {1} ELSE {}
    BY <1>1, <1>5 DEF Takers
  <1>7. Cardinality({1}) = 1 /\ Cardinality({}) = 0
    BY FS_Singleton, FS_EmptySet
  <1>8. After(e, h) = IF e.long \in Uses /\ ~e.eq THEN h + 2 ELSE h + 1
    BY <1>1, <1>6, <1>7 DEF After
  <1>9. Value(e, h, 1) = IF e.long \in Uses THEN (IF e.eq THEN h ELSE h + 1) ELSE 0
    <2>1. {1} \cap 1..1 = {1}
      OBVIOUS
    <2> QED
      BY <1>1, <1>5, <1>6, <1>7, <2>1 DEF Value
  <1>10. Valid(e) <=> (e.eq => e.long \in Uses)
    BY <1>1 DEF Valid
  <1>11. ASSUME Assign(e.long, Value(e, h, 1), "next"), list' = After(e, h), Valid(e),
                After(e, h) <= Len(argv) + 1
         PROVE  ParseInv'
    <2>1. \/ state' = "next" /\ \A o \in Options : Counted(o, h, 1 + 1)'
          \/ state' = "bad_arg" /\ ~Correct(argv)
      BY <1>1, <1>2, <1>3, <1>4, <1>5, <1>11, AssignRight
    <2>2. CASE state' = "next" /\ \A o \in Options : Counted(o, h, 1 + 1)'
      <3> PICK l : l = After(e, h)
        OBVIOUS
      <3>1. Walked(argv, l)
        BY <1>1, <1>2, <1>4, <1>11, HeadRead
      <3>2. \A o \in Options : Before(argv, o, l, 1) = Before(argv, o, h, 1 + 1)
        BY <1>1, <1>2, <1>4, <1>5, BeforeHead
      <3>3. \A o \in Options : Counted(o, l, 1)'
        BY <1>1, <2>2, <3>2 DEF Counted
      <3>4. ReadTo(list, 1)'
        BY <1>1, <1>11, <3>1, <3>3 DEF ReadTo
      <3> QED
        BY <2>2, <3>4 DEF ParseInv
    <2> QED
      BY <1>1, <2>1, <2>2, ThrowRight
  <1>12. CASE e.eq /\ e.long \in Uses
    <2>1. list' = h + 1 /\ Assign(e.long, h, "next")
      BY <1>1, <1>12 DEF Long
    <2> QED
      BY <1>1, <1>8, <1>9, <1>10, <1>11, <1>12, <2>1
  <1>13. CASE e.eq /\ e.long \notin Uses
    <2>1. state' = "bad_arg"
      BY <1>1, <1>13 DEF Long
    <2>2. ~Correct(argv)
      BY <1>4, <1>10, <1>13 DEF Correct
    <2> QED
      BY <1>1, <2>1, <2>2, ThrowRight
  <1>14. CASE ~e.eq /\ e.long \in Uses
    <2>1. TakeValue(e.long, h + 1, "next")
      BY <1>1, <1>14 DEF Long
    <2>2. CASE h + 1 > Len(argv)
      <3>1. state' = "bad_arg"
        BY <2>1, <2>2 DEF TakeValue
      <3>2. After(e, h) > Len(argv) + 1
        BY <1>1, <1>8, <1>14, <2>2
      <3>3. ~Correct(argv)
        BY <1>1, <1>2, <1>4, <3>2, NoStop DEF Correct
      <3> QED
        BY <1>1, <3>1, <3>3, ThrowRight
    <2>3. CASE h + 1 <= Len(argv)
      <3>1. Assign(e.long, h + 1, "next") /\ list' = h + 2
        BY <1>1, <2>1, <2>3 DEF TakeValue
      <3> QED
        BY <1>1, <1>8, <1>9, <1>10, <1>11, <1>14, <2>3, <3>1
    <2> QED
      BY <1>1, <2>2, <2>3
  <1>15. CASE ~e.eq /\ e.long \notin Uses
    <2>1. list' = h + 1 /\ Assign(e.long, 0, "next")
      BY <1>1, <1>15 DEF Long
    <2> QED
      BY <1>1, <1>8, <1>9, <1>10, <1>11, <1>15, <2>1
  <1> QED
    BY <1>12, <1>13, <1>14, <1>15

LEMMA NoLongRight ==
    ASSUME ArgsInv, ParseInv, NoLong
    PROVE  ParseInv'
  <1> PICK h : h = list
    OBVIOUS
  <1> DEFINE e == argv[h]
  <1>1. /\ argv \in Seq(Elements) /\ h \in 1..Len(argv) /\ Len(argv) \in Nat
        /\ state = "next" /\ UNCHANGED <<argv, used, text>> /\ group' = h /\ at' = 1
        /\ list' = h + 1 /\ IsOption(e) /\ e.long = None
        /\ state' = IF e.dashes = 2 THEN "bad_arg" ELSE "letters"
    <2>0. state = "next" /\ ~AtEnd
      BY DEF NoLong
    <2>1. argv \in Seq(Elements) /\ h \in 1..Len(argv) /\ Len(argv) \in Nat /\ Arg = e
      BY <2>0 DEF AtEnd, Arg, ArgsInv, ArgsTypeOK, InBounds
    <2> QED
      BY <2>1 DEF NoLong, IsOption
  <1>2. Walked(argv, h) /\ \A o \in Options : Counted(o, h, 1)
    BY <1>1 DEF ParseInv, ReadTo
  <1>3. e.dashes \in 1..2 /\ Len(e.letters) \in Nat
    <2>1. e \in Element
      BY <1>1
    <2>2. e.dashes \in 0..2 /\ e.letters \in Seq(Options \cup {None})
      BY <2>1 DEF Element
    <2> QED
      BY <1>1, <2>2 DEF IsOption, IsWord
  <1>4. CASE e.dashes = 2
    <2>1. h \in Heads(argv)
      BY <1>1, <1>2, HeadsFacts DEF Walked
    <2>2. ~Correct(argv)
      BY <1>1, <1>4, <2>1 DEF Correct, Valid
    <2> QED
      BY <1>1, <1>4, <2>2, ThrowRight
  <1>5. CASE e.dashes = 1
    <2>1. \A o \in Options : Counted(o, h, 1)'
      BY <1>1, <1>2 DEF Counted
    <2>2. ReadTo(group, at)'
      BY <1>1, <1>2, <2>1 DEF ReadTo
    <2>3. Takers(e) \cap 1..(1 - 1) = {}
      OBVIOUS
    <2>4. list' = h + 1 + Cardinality(Takers(e) \cap 1..(1 - 1))
      BY <1>1, <2>3, FS_EmptySet
    <2>5. InGroup'
      BY <1>1, <1>3, <1>5, <2>4 DEF InGroup
    <2> QED
      BY <1>1, <1>5, <2>2, <2>5 DEF ParseInv
  <1> QED
    BY <1>3, <1>4, <1>5

LEMMA GroupEndRight ==
    ASSUME ArgsInv, ParseInv, GroupEnd
    PROVE  ParseInv'
  <1> PICK h : h = group
    OBVIOUS
  <1> DEFINE e == argv[h]
  <1>1. /\ argv \in Seq(Elements) /\ h \in 1..Len(argv) /\ Len(argv) \in Nat
        /\ state = "letters" /\ state' = "next" /\ at > Len(e.letters) /\ at \in Nat
        /\ UNCHANGED <<argv, list, used, text>> /\ list <= Len(argv) + 1
    BY DEF GroupEnd, Letters, ArgsInv, ArgsTypeOK, InBounds
  <1>2. /\ Walked(argv, h) /\ \A o \in Options : Counted(o, h, at)
        /\ IsOption(e) /\ e.long = None /\ e.dashes = 1 /\ at <= Len(e.letters) + 1
        /\ \A k \in 1..(at - 1) : e.letters[k] # None
        /\ list = h + 1 + Cardinality(Takers(e) \cap 1..(at - 1))
    BY <1>1 DEF ParseInv, ReadTo, InGroup
  <1>3. Names(e) = e.letters /\ Len(e.letters) \in Nat /\ DOMAIN e.letters = 1..Len(e.letters)
    <2>1. e.letters \in Seq(Options \cup {None})
      BY <1>1, ElementFields
    <2> QED
      BY <1>2, <2>1 DEF Names
  <1>4. at = Len(Names(e)) + 1 /\ at - 1 = Len(Names(e))
    BY <1>1, <1>2, <1>3
  <1>5. Takers(e) \cap 1..(at - 1) = Takers(e)
    <2>1. Takers(e) \subseteq 1..Len(Names(e))
      BY <1>1, TakersFacts
    <2> QED
      BY <1>4, <2>1
  <1>6. list = After(e, h)
    BY <1>2, <1>5 DEF After
  <1>7. h \in Heads(argv)
    BY <1>1, <1>2, HeadsFacts DEF Walked
  <1>8. Valid(e)
    BY <1>2, <1>3, <1>4 DEF Valid
  <1>9. Walked(argv, list)
    BY <1>1, <1>2, <1>6, <1>7, <1>8, HeadRead
  <1>10. \A o \in Options : Before(argv, o, list, 1) = Before(argv, o, h, at)
    BY <1>1, <1>2, <1>4, <1>6, <1>7, BeforeHead
  <1>11. \A o \in Options : Counted(o, list, 1)
    BY <1>2, <1>10 DEF Counted
  <1>12. ReadTo(list, 1)'
    BY <1>1, <1>9, <1>11 DEF ReadTo, Counted
  <1> QED
    BY <1>1, <1>12 DEF ParseInv

LEMMA LetterRight ==
    ASSUME ArgsInv, ParseInv, Letter
    PROVE  ParseInv'
  <1> PICK h : h = group
    OBVIOUS
  <1> PICK k : k = at
    OBVIOUS
  <1> DEFINE e == argv[h]
             op == e.letters[k]
             T == Takers(e)
  <1>1. /\ argv \in Seq(Elements) /\ h \in 1..Len(argv) /\ Len(argv) \in Nat
        /\ state = "letters" /\ k \in Nat \ {0} /\ k <= Len(e.letters) /\ at' = k + 1
        /\ argv' = argv /\ group' = h /\ list <= Len(argv) + 1 /\ list \in Nat
    BY DEF Letter, Letters, ArgsInv, ArgsTypeOK, InBounds
  <1>2. /\ Walked(argv, h) /\ \A o \in Options : Counted(o, h, k)
        /\ IsOption(e) /\ e.long = None /\ e.dashes = 1
        /\ \A j \in 1..(k - 1) : e.letters[j] # None
        /\ list = h + 1 + Cardinality(T \cap 1..(k - 1))
    BY <1>1 DEF ParseInv, ReadTo, InGroup
  <1>3. /\ Names(e) = e.letters /\ Len(e.letters) \in Nat /\ DOMAIN e.letters = 1..Len(e.letters)
        /\ k \in DOMAIN Names(e) /\ Names(e)[k] = op
    <2>1. e.letters \in Seq(Options \cup {None})
      BY <1>1, ElementFields
    <2> QED
      BY <1>1, <1>2, <2>1 DEF Names
  <1>4. h \in Heads(argv)
    BY <1>1, <1>2, HeadsFacts DEF Walked
  <1>5. k \in T <=> op \in Uses
    BY <1>2, <1>3 DEF Takers
  <1>6. /\ k \in T => Cardinality(T \cap 1..k) = Cardinality(T \cap 1..(k - 1)) + 1
        /\ k \notin T => T \cap 1..k = T \cap 1..(k - 1)
        /\ h + 1 + Cardinality(T \cap 1..k) <= After(e, h)
        /\ Cardinality(T \cap 1..k) \in Nat /\ Cardinality(T \cap 1..(k - 1)) \in Nat
        /\ After(e, h) \in Nat
    <2>1. ASSUME k \in T PROVE Cardinality(T \cap 1..k) = Cardinality(T \cap 1..(k - 1)) + 1
      BY <1>1, <2>1, TakersNext
    <2>2. ASSUME k \notin T PROVE T \cap 1..k = T \cap 1..(k - 1)
      <3>1. 1..k = (1..(k - 1)) \cup {k}
        BY <1>1
      <3> QED
        BY <2>2, <3>1, Zenon
    <2>3. h + 1 + Cardinality(T \cap 1..k) <= After(e, h)
      BY <1>1, TakersNext
    <2>4. k \in Nat /\ k - 1 \in Nat
      BY <1>1
    <2> QED
      BY <1>1, <2>1, <2>2, <2>3, <2>4, TakersFacts
  <1>7. ASSUME op \in Options, Assign(op, Value(e, h, k), "letters"),
               list' = h + 1 + Cardinality(T \cap 1..k)
        PROVE  ParseInv'
    <2>1. \/ state' = "letters" /\ \A o \in Options : Counted(o, h, k + 1)'
          \/ state' = "bad_arg" /\ ~Correct(argv)
      BY <1>1, <1>2, <1>3, <1>4, <1>7, AssignRight
    <2>2. CASE state' = "letters" /\ \A o \in Options : Counted(o, h, k + 1)'
      <3>1. ReadTo(group, at)'
        BY <1>1, <1>2, <2>2 DEF ReadTo
      <3>2. op # None /\ (k + 1) - 1 = k
        BY <1>1, <1>7, OptionsAssumption
      <3>3. \A j \in 1..((k + 1) - 1) : e.letters[j] # None
        BY <1>1, <1>2, <3>2
      <3>4. InGroup'
        BY <1>1, <1>2, <1>3, <1>7, <3>2, <3>3 DEF InGroup
      <3> QED
        BY <2>2, <3>1, <3>4 DEF ParseInv
    <2> QED
      BY <1>1, <2>1, <2>2, ThrowRight
  <1>8. CASE op = None
    <2>1. state' = "bad_arg"
      BY <1>8, OptionsAssumption DEF Letter, Letters
    <2>2. ~Valid(e)
      BY <1>2, <1>3, <1>8 DEF Valid
    <2>3. ~Correct(argv)
      BY <1>4, <2>2 DEF Correct
    <2> QED
      BY <1>1, <2>1, <2>3, ThrowRight
  <1>9. CASE op \in Uses
    <2>1. TakeValue(op, list, "letters")
      BY <1>9, OptionsAssumption DEF Letter, Letters
    <2>2. list = h + Cardinality(T \cap 1..k)
      BY <1>1, <1>2, <1>5, <1>6, <1>9
    <2>3. CASE list > Len(argv)
      <3>1. state' = "bad_arg"
        BY <2>1, <2>3 DEF TakeValue
      <3>2. After(e, h) > Len(argv) + 1
        BY <1>1, <1>6, <2>2, <2>3
      <3>3. ~Correct(argv)
        BY <1>1, <1>2, <1>4, <3>2, NoStop DEF Correct
      <3> QED
        BY <1>1, <3>1, <3>3, ThrowRight
    <2>4. CASE list <= Len(argv)
      <3>1. Assign(op, list, "letters") /\ list' = list + 1
        BY <1>1, <2>1, <2>4 DEF TakeValue
      <3>2. Value(e, h, k) = list
        BY <1>5, <1>9, <2>2 DEF Value
      <3>3. list' = h + 1 + Cardinality(T \cap 1..k)
        BY <1>1, <1>6, <2>2, <3>1
      <3> QED
        BY <1>7, <1>9, <3>1, <3>2, <3>3, OptionsAssumption
    <2> QED
      BY <1>1, <2>3, <2>4
  <1>10. CASE op \in Options \ Uses
    <2>1. Assign(op, 0, "letters") /\ list' = list
      BY <1>10, OptionsAssumption DEF Letter, Letters
    <2>2. Value(e, h, k) = 0
      BY <1>3, <1>5, <1>10 DEF Value
    <2>3. list' = h + 1 + Cardinality(T \cap 1..k)
      BY <1>2, <1>5, <1>6, <1>10, <2>1
    <2> QED
      BY <1>7, <1>10, <2>1, <2>2, <2>3
  <1> QED
    BY <1>8, <1>9, <1>10 DEF Letter, Letters

LEMMA ParseStep == ArgsInv /\ ParseInv /\ [ArgsNext]_argVars => ParseInv'
  <1>1. ASSUME ParseInv, UNCHANGED argVars PROVE ParseInv'
    BY <1>1 DEF argVars, ParseInv, ReadTo, Counted, InGroup, ParsesRight
  <1> QED
    BY <1>1, StopRight, LongRight, NoLongRight, LetterRight, GroupEndRight DEF ArgsNext

LEMMA ParseInit == ArgsInit => ParseInv
  <1> SUFFICES ASSUME ArgsInit PROVE ParseInv
    OBVIOUS
  <1>1. argv \in Seq(Elements)
    BY ArgvsAssumption DEF ArgsInit
  <1>2. 1 \in Reached(argv)
    BY <1>1, ReachedFollows DEF Follows
  <1>3. Walked(argv, 1)
    BY <1>1, <1>2, ReachedRange DEF Walked
  <1>4. \A o \in Options : Before(argv, o, 1, 1) = {}
    <2> TAKE o \in Options
    <2>1. ASSUME NEW p \in Places(argv, o) PROVE ~(p[1] < 1 \/ (p[1] = 1 /\ p[2] < 1))
      <3>1. p[1] \in 1..Len(argv) /\ p[2] \in DOMAIN Names(argv[p[1]])
        BY PlacesFacts DEF Heads
      <3>2. p[2] \in 1..Len(Names(argv[p[1]]))
        BY <1>1, <3>1, TakersFacts
      <3> QED
        BY <3>1, <3>2
    <2> QED
      BY <2>1 DEF Before
  <1> QED
    BY <1>3, <1>4 DEF ArgsInit, ParseInv, ReadTo, Counted

\* args::args takes a command line apart as it is meant: whichever options are
\* registered and however the command line is written, it is refused only if it
\* is wrong, and otherwise every option has its own value.
THEOREM ParserIsRight == ArgsSpec => []ParsesRight
  <1>1. ArgsInv /\ ParseInv => ParsesRight
    BY DEF ArgsInv, ArgsTypeOK, ParseInv, ParsesRight
  <1> QED
    BY <1>1, ArgsInitial, ArgsStep, ParseInit, ParseStep, PTL DEF ArgsSpec
=============================================================================
