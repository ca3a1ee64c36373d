------------------------- MODULE ScilProgramsProofs -------------------------
(***************************************************************************)
(* What the programs promise, for every command line and table of options, *)
(* every array and file, every data set and number of runs: an inductive   *)
(* invariant of each program, and that a step of another one leaves it.    *)
(***************************************************************************)
EXTENDS ScilPrograms, FiniteSetTheorems, SequenceTheorems, TLAPS

-----------------------------------------------------------------------------
(* The command line (ScilOptions) *)

(* The arguments that this and the earlier calls have looked at *)
Seen == parsed + i - 1

(* The call of an argument, and those of them that give option o of table t *)
Section(n) == Parser!SectionOf(n)

(* The arguments among the first d that give option o of table t *)
GivenUpTo(d, t, o) ==
    {n \in DOMAIN argv : n <= d /\ Section(n) <= 3 /\ Parser!Table(Section(n)) = t
                         /\ argv[n].name = o.name}

(* What a variable holds when these arguments have given its option. *)
ValueOf(o, given) ==
    IF o.arg = "flag" THEN Cardinality(given)
    ELSE IF given = {} THEN Parser!Default(o)
    ELSE Parser!Stored(o, argv[CHOOSE n \in given : \A n2 \in given : n2 <= n].arg, 0)

(* An argument that names an option of its section and has a value the     *)
(* option takes                                                            *)
GoodArgument(n) ==
    LET found == Parser!OptionOf(Parser!Table(Section(n)), argv[n].name)
    IN  found # {} /\ \A o \in found : ~Parser!Wrong(o, argv[n].arg)

(* The arguments of this call that give a required option *)
RequiredSeen ==
    {n \in DOMAIN argv : /\ parsed < n /\ n <= Seen
                         /\ \E o \in Parser!Required(Parser!Table(part)) : argv[n].name = o.name}

(* Where the call is *)
ParserAt ==
    /\ part \in 1 .. 3 /\ parsed \in Nat /\ i \in Nat \ {0}
    /\ \A k \in 1 .. part : Parser!Table(k) \in Tables
    /\ \A k \in 2 .. part : Parser!Table(k) # "tool"
    /\ Seen <= Len(argv) => Section(Seen) = part
    /\ \A n \in DOMAIN argv :
        /\ n <= parsed => argv[n].name = "--" \/ Section(n) < part
        /\ parsed < n /\ n <= Seen => argv[n].name # "--" /\ Section(n) = part
        /\ Seen < n => Section(n) >= part

(* What it has found so far *)
ParserFound ==
    /\ DOMAIN value = Tables
    /\ \A t \in Tables : DOMAIN value[t] = {o.name : o \in Options[t]}
    /\ seen = Cardinality(RequiredSeen)
    /\ error \in BOOLEAN
    /\ error => Parser!Faulty(part)
    /\ printhelp # 0 => \E k \in 1 .. 3 : Parser!Faulty(k)
    /\ ~error /\ printhelp = 0 =>
        /\ \A n \in DOMAIN argv : n <= Seen => argv[n].name = "--" \/ GoodArgument(n)
        /\ \A k \in 1 .. part - 1 : ~Parser!Faulty(k)
        /\ \A t \in Tables : \A o \in Options[t] :
              value[t][o.name] = ValueOf(o, GivenUpTo(Seen, t, o))

(* The inductive invariant: while the calls go on, each variable holds     *)
(* what the arguments looked at so far say, and the error flags tell the   *)
(* faults among them. AnswerIsRight speaks of the end only.                *)
ParserInv ==
    /\ argv \in Seq([name : STRING, arg : {"none", "number", "unit", "text"} \X Int])
    /\ parse = "parsing" => ParserAt /\ ParserFound
    /\ AnswerIsRight

(* What is assumed of the tables of options and of the command lines *)
LEMMA ParserConstants ==
  /\ "tool" \in Tables
  /\ \A t \in Tables : IsFiniteSet(Options[t])
  /\ \A t \in Tables : \A o \in Options[t] :
        /\ o.arg \in {"flag", "optional", "required"} /\ o.type \in {"number", "string", "enum"}
        /\ o.name # "--" /\ (o.arg = "flag" => o.type = "number")
        /\ \A p \in Options[t] : o.name = p.name => o = p
  /\ CommandLines \subseteq Seq([name : STRING, arg : {"none", "number", "unit", "text"} \X Int])
<1>1. Parser!OptionsAssumption
  BY ProgramsAssumption DEF ProgramsAssumption
<1>2. \A S : Parser!IsFiniteSet(S) <=> IsFiniteSet(S)
  BY DEF Parser!IsFiniteSet, IsFiniteSet
<1> QED BY <1>1, <1>2 DEF Parser!OptionsAssumption

(* The module has its own copy of FiniteSets. *)
LEMMA ParserCardinality ==
  ASSUME NEW S PROVE Parser!Cardinality(S) = Cardinality(S)
BY DEF Parser!Cardinality, Cardinality

(* An argument is in the section of the one before it, a separator begins  *)
(* the next.                                                               *)
LEMMA SectionStep ==
  ASSUME argv \in Seq([name : STRING, arg : {"none", "number", "unit", "text"} \X Int]),
         NEW n \in DOMAIN argv
  PROVE  /\ Section(n) \in Nat /\ Section(n - 1) \in Nat
         /\ Section(n) = Section(n - 1) + (IF argv[n].name = "--" THEN 1 ELSE 0)
<1> DEFINE Sep(m) == {k \in 1 .. m : argv[k].name = "--"}
<1>1. n \in Nat \ {0} /\ n \in 1 .. n
  BY LenProperties
<1>2. IsFiniteSet(Sep(n - 1)) /\ IsFiniteSet(Sep(n)) /\ n \notin Sep(n - 1)
  <2>1. IsFiniteSet(1 .. n) /\ IsFiniteSet(1 .. n - 1)
    BY <1>1, FS_Interval
  <2> QED BY <2>1, <1>1, FS_Subset
<1>3. Sep(n) = IF argv[n].name = "--" THEN Sep(n - 1) \cup {n} ELSE Sep(n - 1)
  BY <1>1
<1>4. Cardinality(Sep(n - 1)) \in Nat /\ Cardinality(Sep(n)) \in Nat
  BY <1>2, FS_CardinalityType
<1>5. Cardinality(Sep(n)) = Cardinality(Sep(n - 1)) + (IF argv[n].name = "--" THEN 1 ELSE 0)
  <2>1. Cardinality(Sep(n - 1) \cup {n}) = Cardinality(Sep(n - 1)) + 1
    BY <1>2, FS_AddElement
  <2> HIDE DEF Sep
  <2> QED BY <2>1, <1>3, <1>4
<1>6. Section(n) = Cardinality(Sep(n)) + 1 /\ Section(n - 1) = Cardinality(Sep(n - 1)) + 1
  BY ParserCardinality DEF Section, Parser!SectionOf
<1> HIDE DEF Sep
<1> QED BY <1>4, <1>5, <1>6

(* Sections are numbered along the command line. *)
LEMMA SectionMonotonic ==
  ASSUME NEW m \in Nat, NEW n \in Nat, m <= n
  PROVE  Section(m) \in Nat \ {0} /\ Section(n) \in Nat \ {0} /\ Section(m) <= Section(n)
<1> DEFINE Sep(d) == {k \in 1 .. d : argv[k].name = "--"}
<1>1. IsFiniteSet(Sep(n)) /\ Sep(m) \subseteq Sep(n)
  <2>1. IsFiniteSet(1 .. n)
    BY FS_Interval
  <2> QED BY <2>1, FS_Subset
<1>2. /\ Section(n) = Cardinality(Sep(n)) + 1 /\ Section(m) = Cardinality(Sep(m)) + 1
  BY ParserCardinality DEF Section, Parser!SectionOf
<1> HIDE DEF Sep
<1> QED BY <1>1, <1>2, FS_Subset, FS_CardinalityType

(* The command line does not change. *)
LEMMA SectionsUnchanged ==
  ASSUME UNCHANGED <<argv, format>>
  PROVE  /\ \A n : Section(n)' = Section(n) /\ GoodArgument(n)' = GoodArgument(n)
         /\ \A k : Parser!Table(k)' = Parser!Table(k) /\ Parser!Faulty(k)' = Parser!Faulty(k)
         /\ \A n, k, o : Parser!Gives(n, k, o)' = Parser!Gives(n, k, o)
         /\ \A d, t, o : GivenUpTo(d, t, o)' = GivenUpTo(d, t, o)
         /\ \A o, S : ValueOf(o, S)' = ValueOf(o, S)
<1>1. \A n : Section(n)' = Section(n) /\ Parser!SectionOf(n)' = Parser!SectionOf(n)
  BY DEF Section, Parser!SectionOf
<1>2. \A k : Parser!Table(k)' = Parser!Table(k)
  BY DEF Parser!Table
<1>3. \A n : GoodArgument(n)' = GoodArgument(n)
  BY <1>1, <1>2 DEF GoodArgument
<1>4. \A n, k : Parser!InSection(n, k)' = Parser!InSection(n, k)
  BY <1>1 DEF Parser!InSection
<1>5. \A n, k, o : Parser!Gives(n, k, o)' = Parser!Gives(n, k, o)
  BY <1>4 DEF Parser!Gives
<1>6. \A k : Parser!Faulty(k)' = Parser!Faulty(k)
  BY <1>2, <1>4, <1>5 DEF Parser!Faulty
<1>7. \A d, t, o : GivenUpTo(d, t, o)' = GivenUpTo(d, t, o)
  BY <1>1, <1>2 DEF GivenUpTo
<1>8. \A o, S : ValueOf(o, S)' = ValueOf(o, S)
  BY DEF ValueOf
<1> QED BY <1>1, <1>2, <1>3, <1>5, <1>6, <1>7, <1>8

(* A section with a wrong argument has a fault. *)
LEMMA BadIsFaulty ==
  ASSUME NEW n \in DOMAIN argv, argv[n].name # "--", ~GoodArgument(n)
  PROVE  Parser!Faulty(Section(n))
BY DEF GoodArgument, Parser!Faulty, Parser!InSection, Section

(* The first call has looked at nothing. *)
LEMMA ParserInit == Parser!Init => ParserInv
<1> SUFFICES ASSUME Parser!Init PROVE ParserInv
  OBVIOUS
<1>1. /\ argv \in CommandLines /\ part = 1 /\ parsed = 0 /\ i = 1 /\ seen = 0
      /\ error = FALSE /\ printhelp = 0 /\ parse = "parsing"
      /\ value = [t \in Tables |-> Parser!Defaults(t)]
  BY DEF Parser!Init
<1>2. argv \in Seq([name : STRING, arg : {"none", "number", "unit", "text"} \X Int])
  BY <1>1, ParserConstants
<1>3. Seen = 0
  BY <1>1 DEF Seen
<1>4. DOMAIN argv = 1 .. Len(argv) /\ Len(argv) \in Nat
  BY <1>2, LenProperties
<1>5. Section(0) = 1
  BY ParserCardinality, FS_EmptySet DEF Section, Parser!SectionOf
<1>6. ParserAt
  <2>1. \A n \in DOMAIN argv : Section(n) >= 1 /\ n > 0
    BY <1>4, SectionMonotonic
  <2>2. Parser!Table(1) = "tool"
    BY DEF Parser!Table
  <2> QED BY <1>1, <1>3, <1>4, <1>5, <2>1, <2>2, ParserConstants DEF ParserAt
<1>7. RequiredSeen = {} /\ \A t, o : GivenUpTo(Seen, t, o) = {}
  BY <1>1, <1>3, <1>4 DEF RequiredSeen, GivenUpTo
<1>8. ASSUME NEW t \in Tables
      PROVE  /\ DOMAIN value[t] = {o.name : o \in Options[t]}
             /\ \A o \in Options[t] : value[t][o.name] = ValueOf(o, {})
  <2>1. value[t] = [n \in {o.name : o \in Options[t]} |->
                      Parser!Default(CHOOSE o \in Options[t] : o.name = n)]
    BY <1>1 DEF Parser!Defaults
  <2>2. ASSUME NEW o \in Options[t] PROVE value[t][o.name] = ValueOf(o, {})
    <3>1. (CHOOSE o2 \in Options[t] : o2.name = o.name) = o
      BY ParserConstants
    <3>2. value[t][o.name] = Parser!Default(o)
      BY <2>1, <3>1
    <3>3. o.arg = "flag" => Parser!Default(o) = 0
      BY ParserConstants DEF Parser!Default
    <3> QED BY <3>2, <3>3, FS_EmptySet DEF ValueOf
  <2> QED BY <2>1, <2>2
<1>9. ParserFound
  <2>1. seen = Cardinality(RequiredSeen)
    BY <1>1, <1>7, FS_EmptySet
  <2>2. \A t \in Tables : \A o \in Options[t] :
          value[t][o.name] = ValueOf(o, GivenUpTo(Seen, t, o))
    BY <1>7, <1>8
  <2>3. \A n \in DOMAIN argv : ~(n <= Seen)
    BY <1>3, <1>4
  <2>4. \A k \in 1 .. part - 1 : FALSE
    BY <1>1
  <2> QED BY <1>1, <1>8, <2>1, <2>2, <2>3, <2>4 DEF ParserFound
<1>10. AnswerIsRight
  BY <1>1 DEF AnswerIsRight, Parser!AnswerIsRight, Parser!ParsedAsWritten,
     Parser!FaultyIsRefused, Parser!MissingNeedsRepeated
<1> QED BY <1>2, <1>6, <1>9, <1>10 DEF ParserInv

(* The argument that is looked at next *)
LEMMA NextArgument ==
  ASSUME ParserInv, parse = "parsing"
  PROVE  /\ Seen \in Nat /\ parsed + i = Seen + 1 /\ parsed <= Seen
         /\ DOMAIN argv = 1 .. Len(argv) /\ Len(argv) \in Nat
         /\ Seen + 1 \in DOMAIN argv <=> parsed + i <= Len(argv)
         /\ Seen + 1 \in DOMAIN argv =>
                Section(Seen + 1) = part + (IF argv[Seen + 1].name = "--" THEN 1 ELSE 0)
         /\ \A n \in DOMAIN argv :
                Seen + 1 < n => Seen + 1 \in DOMAIN argv /\ Section(n) >= Section(Seen + 1)
<1>1. argv \in Seq([name : STRING, arg : {"none", "number", "unit", "text"} \X Int])
  BY DEF ParserInv
<1>2. parsed \in Nat /\ i \in Nat \ {0} /\ (Seen <= Len(argv) => Section(Seen) = part)
  BY DEF ParserInv, ParserAt
<1>3. Seen \in Nat /\ parsed + i = Seen + 1 /\ parsed <= Seen
  BY <1>2 DEF Seen
<1>4. DOMAIN argv = 1 .. Len(argv) /\ Len(argv) \in Nat
  BY <1>1, LenProperties
<1>5. Seen + 1 \in DOMAIN argv =>
        Section(Seen + 1) = part + (IF argv[Seen + 1].name = "--" THEN 1 ELSE 0)
  <2> SUFFICES ASSUME Seen + 1 \in DOMAIN argv
               PROVE  Section(Seen + 1) = part + (IF argv[Seen + 1].name = "--" THEN 1 ELSE 0)
    OBVIOUS
  <2>1. (Seen + 1) - 1 = Seen /\ Section(Seen) = part
    BY <1>2, <1>3, <1>4
  <2> QED BY <1>1, <2>1, SectionStep
<1>6. \A n \in DOMAIN argv :
        Seen + 1 < n => Seen + 1 \in DOMAIN argv /\ Section(n) >= Section(Seen + 1)
  BY <1>3, <1>4, SectionMonotonic
<1> QED BY <1>3, <1>4, <1>5, <1>6

(* ParserAt behind one more argument *)
LEMMA ArgumentAt ==
  ASSUME ParserInv, Parser!Argument
  PROVE  /\ ParserAt' /\ Seen' = Seen + 1
         /\ Seen + 1 \in DOMAIN argv /\ argv[Seen + 1].name # "--"
         /\ Section(Seen + 1) = part
<1>1. /\ parse = "parsing" /\ ~Parser!AtEnd /\ i' = i + 1
      /\ UNCHANGED <<argv, format, part, parsed, parse>>
  BY DEF Parser!Argument
<1>2. ParserAt
  BY <1>1 DEF ParserInv
<1>3. /\ Seen + 1 \in DOMAIN argv /\ argv[Seen + 1].name # "--"
      /\ Section(Seen + 1) = part
  BY <1>1, <1>2, NextArgument DEF Parser!AtEnd, Parser!Current, ParserAt
<1>4. Seen' = Seen + 1 /\ Seen \in Nat
  BY <1>1, <1>2, NextArgument DEF Seen, ParserAt
<1>5. \A k : Parser!Table(k)' = Parser!Table(k)
  BY <1>1, SectionsUnchanged
<1>6. \A n : Section(n)' = Section(n)
  BY <1>1, SectionsUnchanged
<1>7. DOMAIN argv = 1 .. Len(argv)
  BY <1>1, NextArgument
<1>8. /\ part' \in 1 .. 3 /\ parsed' \in Nat /\ i' \in Nat \ {0}
      /\ \A k \in 1 .. part' : Parser!Table(k)' \in Tables
      /\ \A k \in 2 .. part' : Parser!Table(k)' # "tool"
  BY <1>1, <1>2, <1>5 DEF ParserAt
<1>9. Section(Seen)' = part'
  BY <1>1, <1>3, <1>4, <1>6
<1>10. ASSUME NEW n \in DOMAIN argv
       PROVE  /\ n <= parsed' => argv[n].name = "--" \/ Section(n)' < part'
              /\ parsed' < n /\ n <= Seen' => argv[n].name # "--" /\ Section(n)' = part'
              /\ Seen' < n => Section(n)' >= part'
  <2>1. n \in Nat
    BY <1>7
  <2>2. Section(n)' = Section(n)
    BY <1>6
  <2>3. n <= Seen' => n <= Seen \/ n = Seen + 1
    BY <1>4, <2>1
  <2>4. Seen' < n => Seen < n
    BY <1>4, <2>1
  <2> QED BY <1>1, <1>2, <1>3, <2>2, <2>3, <2>4 DEF ParserAt
<1> QED BY <1>1, <1>3, <1>4, <1>8, <1>9, <1>10 DEF ParserAt

(* What one more argument adds to the arguments of an option *)
LEMMA GivenStep ==
  ASSUME NEW n \in DOMAIN argv, DOMAIN argv = 1 .. Len(argv), Len(argv) \in Nat,
         NEW t, NEW o, Section(n) <= 3
  PROVE  GivenUpTo(n, t, o) =
            GivenUpTo(n - 1, t, o) \cup
                (IF Parser!Table(Section(n)) = t /\ argv[n].name = o.name THEN {n} ELSE {})
BY DEF GivenUpTo

(* As finitely many arguments give an option, looking at one more adds at  *)
(* most one.                                                               *)
LEMMA GivenFinite ==
  ASSUME DOMAIN argv = 1 .. Len(argv), Len(argv) \in Nat, NEW d, NEW t, NEW o
  PROVE  IsFiniteSet(GivenUpTo(d, t, o)) /\ GivenUpTo(d, t, o) \subseteq DOMAIN argv
<1>1. IsFiniteSet(DOMAIN argv)
  BY FS_Interval
<1> QED BY <1>1, FS_Subset DEF GivenUpTo

(* An argument that is right counts a flag, and sets another option       *)
(* whatever it was before.                                                *)
LEMMA ValueStep ==
  ASSUME NEW n \in Int, NEW G, IsFiniteSet(G), G \subseteq Int, \A m \in G : m < n,
         NEW t \in Tables, NEW o \in Options[t], ~Parser!Wrong(o, argv[n].arg)
  PROVE  Parser!Stored(o, argv[n].arg, ValueOf(o, G)) = ValueOf(o, G \cup {n})
<1>1. CASE o.arg = "flag"
  <2>1. Cardinality(G \cup {n}) = Cardinality(G) + 1
    <3>1. n \notin G
      OBVIOUS
    <3> QED BY <3>1, FS_AddElement
  <2> QED BY <1>1, <2>1 DEF Parser!Stored, ValueOf
<1>2. CASE o.arg # "flag"
  <2>1. (CHOOSE m \in G \cup {n} : \A m2 \in G \cup {n} : m2 <= m) = n
    <3>1. \A m \in G \cup {n} : (\A m2 \in G \cup {n} : m2 <= m) <=> m = n
      OBVIOUS
    <3> QED BY <3>1
  <2>2. ValueOf(o, G \cup {n}) = Parser!Stored(o, argv[n].arg, 0)
    BY <1>2, <2>1 DEF ValueOf
  <2>3. \A old : Parser!Stored(o, argv[n].arg, old) = Parser!Stored(o, argv[n].arg, 0)
    <3>1. argv[n].arg # Parser!NoArg /\ (o.type = "enum" => Parser!GoodEnum(argv[n].arg))
      BY <1>2 DEF Parser!Wrong
    <3>2. o.type \in {"number", "string", "enum"}
      BY ParserConstants
    <3> QED BY <1>2, <3>1, <3>2 DEF Parser!Stored
  <2> QED BY <2>2, <2>3
<1> QED BY <1>1, <1>2

(* An argument that names an option is stored and counted. *)
LEMMA ArgumentKnown ==
  ASSUME ParserInv, Parser!Argument,
         NEW o \in Parser!OptionOf(Parser!Table(part), argv[Seen + 1].name),
         Parser!Known(o, argv[Seen + 1].arg)
  PROVE  ParserFound'
<1> DEFINE n == Seen + 1
           t == Parser!Table(part)
<1>1. /\ ParserAt /\ ParserFound /\ ParserAt' /\ Seen' = n
      /\ n \in DOMAIN argv /\ argv[n].name # "--" /\ Section(n) = part
      /\ UNCHANGED <<argv, format, part, parsed, parse>>
  BY ArgumentAt DEF Parser!Argument, ParserInv
<1>2. /\ DOMAIN argv = 1 .. Len(argv) /\ Len(argv) \in Nat /\ Seen \in Nat /\ parsed <= Seen
  BY NextArgument DEF Parser!Argument
<1>3. t \in Tables /\ part \in 1 .. 3
  BY <1>1 DEF ParserAt
<1>4. o \in Options[t] /\ o.name = argv[n].name
      /\ \A p \in Options[t] : p.name = argv[n].name => p = o
      /\ o \in Parser!OptionOf(t, argv[n].name)
  BY <1>3, ParserConstants DEF Parser!OptionOf
<1>5. /\ value' = [value EXCEPT ![t][o.name] = Parser!Stored(o, argv[n].arg, @)]
      /\ seen' = seen + (IF o.arg = "required" THEN 1 ELSE 0)
      /\ error' = (error \/ Parser!Wrong(o, argv[n].arg))
      /\ UNCHANGED printhelp
  BY DEF Parser!Known
<1> HIDE DEF n, t
<1>6. /\ DOMAIN value' = Tables
      /\ \A u \in Tables : DOMAIN value'[u] = {p.name : p \in Options[u]}
  BY <1>1, <1>3, <1>5 DEF ParserFound
<1>7. seen' = Cardinality(RequiredSeen)'
  <2>1. (\E p \in Parser!Required(t) : argv[n].name = p.name) <=> o.arg = "required"
    BY <1>4 DEF Parser!Required
  <2>2. Parser!Table(part)' = t
    BY <1>1, SectionsUnchanged DEF t
  <2>3. n \notin RequiredSeen /\ IsFiniteSet(RequiredSeen)
    <3>1. IsFiniteSet(DOMAIN argv)
      BY <1>2, FS_Interval
    <3> QED BY <1>2, <3>1, FS_Subset DEF RequiredSeen, n
  <2>4. RequiredSeen' = RequiredSeen \cup (IF o.arg = "required" THEN {n} ELSE {})
    <3>1. RequiredSeen' =
            {m \in DOMAIN argv : /\ parsed < m /\ m <= n
                                 /\ \E p \in Parser!Required(t) : argv[m].name = p.name}
      BY <1>1, <2>2 DEF RequiredSeen, Parser!Required
    <3>2. \A m \in DOMAIN argv : m <= n <=> m <= Seen \/ m = n
      BY <1>2 DEF n
    <3>3. parsed < n
      BY <1>1, <1>2 DEF n, ParserAt
    <3> QED BY <1>1, <2>1, <3>1, <3>2, <3>3 DEF RequiredSeen, t
  <2>5. Cardinality(RequiredSeen \cup {n}) = seen + 1 /\ Cardinality(RequiredSeen) = seen
        /\ seen \in Nat
    BY <1>1, <2>3, FS_AddElement, FS_CardinalityType DEF ParserFound
  <2>6. CASE o.arg = "required"
    <3>1. RequiredSeen' = RequiredSeen \cup {n} /\ seen' = seen + 1
      BY <1>5, <2>4, <2>6
    <3> QED BY <2>5, <3>1
  <2>7. CASE o.arg # "required"
    <3>1. RequiredSeen' = RequiredSeen /\ seen' = seen
      BY <1>5, <2>4, <2>5, <2>7
    <3> QED BY <2>5, <3>1
  <2> QED BY <2>6, <2>7
<1>8. Parser!Wrong(o, argv[n].arg) => Parser!Faulty(part)
  <2>1. Parser!Wrong(o, argv[n].arg) => ~GoodArgument(n)
    BY <1>1, <1>4 DEF GoodArgument, t
  <2> QED BY <1>1, <2>1, BadIsFaulty
<1>9. error' \in BOOLEAN /\ (error' => Parser!Faulty(part)')
      /\ (printhelp' # 0 => (\E k \in 1 .. 3 : Parser!Faulty(k))')
  <2>1. \A k : Parser!Faulty(k)' = Parser!Faulty(k)
    BY <1>1, SectionsUnchanged
  <2>2. Parser!Faulty(part)' = Parser!Faulty(part)
    BY <1>1, <2>1
  <2>3. Parser!Wrong(o, argv[n].arg) \in BOOLEAN
    BY DEF Parser!Wrong
  <2> QED BY <1>1, <1>5, <1>8, <2>1, <2>2, <2>3 DEF ParserFound
<1>10. ASSUME ~error', printhelp' = 0
       PROVE  /\ ~error /\ printhelp = 0 /\ ~Parser!Wrong(o, argv[n].arg)
              /\ GoodArgument(n)
  <2>1. ~error /\ printhelp = 0 /\ ~Parser!Wrong(o, argv[n].arg)
    BY <1>5, <1>10
  <2> QED BY <1>1, <2>1, <1>4 DEF GoodArgument, Parser!OptionOf, t, n
<1>11. ASSUME ~error', printhelp' = 0, NEW m \in DOMAIN argv, m <= n
       PROVE  argv[m].name = "--" \/ GoodArgument(m)
  BY <1>1, <1>2, <1>10, <1>11 DEF ParserFound, n
<1>12. ASSUME ~error', printhelp' = 0, NEW u \in Tables, NEW p \in Options[u]
       PROVE  value'[u][p.name] = ValueOf(p, GivenUpTo(n, u, p))
  <2>1. value[u][p.name] = ValueOf(p, GivenUpTo(Seen, u, p))
    BY <1>1, <1>10, <1>12 DEF ParserFound
  <2>2. GivenUpTo(n, u, p) = GivenUpTo(Seen, u, p) \cup
            (IF t = u /\ argv[n].name = p.name THEN {n} ELSE {})
    <3>1. n - 1 = Seen /\ Section(n) <= 3
      BY <1>1, <1>2, <1>3 DEF n
    <3> QED BY <1>1, <1>2, <3>1, GivenStep DEF t
  <2>3. CASE t = u /\ argv[n].name = p.name
    <3>1. p = o
      BY <1>4, <2>3
    <3>2. value'[u][p.name] = Parser!Stored(o, argv[n].arg, value[t][o.name])
      BY <1>1, <1>3, <1>4, <1>5, <2>3, <3>1 DEF ParserFound
    <3>3. IsFiniteSet(GivenUpTo(Seen, u, p)) /\ GivenUpTo(Seen, u, p) \subseteq Int
          /\ \A m \in GivenUpTo(Seen, u, p) : m < n
      <4>1. IsFiniteSet(GivenUpTo(Seen, u, p)) /\ GivenUpTo(Seen, u, p) \subseteq Int
        BY <1>2, GivenFinite
      <4>2. ASSUME NEW m \in GivenUpTo(Seen, u, p) PROVE m < n
        <5>1. m \in Int /\ m <= Seen
          BY <1>2 DEF GivenUpTo
        <5> QED BY <1>2, <5>1 DEF n
      <4> QED BY <4>1, <4>2
    <3>4. n \in Int /\ ~Parser!Wrong(o, argv[n].arg)
      BY <1>2, <1>10, <1>12 DEF n
    <3>5. Parser!Stored(p, argv[n].arg, ValueOf(p, GivenUpTo(Seen, u, p)))
            = ValueOf(p, GivenUpTo(Seen, u, p) \cup {n})
      BY <3>1, <3>3, <3>4, ValueStep
    <3> QED BY <2>1, <2>2, <2>3, <3>1, <3>2, <3>5
  <2>4. CASE ~(t = u /\ argv[n].name = p.name)
    <3>1. value'[u][p.name] = value[u][p.name]
      BY <1>1, <1>3, <1>4, <1>5, <2>4 DEF ParserFound
    <3> QED BY <2>1, <2>2, <2>4, <3>1
  <2> QED BY <2>3, <2>4
<1>13. ASSUME ~error', printhelp' = 0
       PROVE  /\ (\A m \in DOMAIN argv : m <= Seen => argv[m].name = "--" \/ GoodArgument(m))'
              /\ (\A k \in 1 .. part - 1 : ~Parser!Faulty(k))'
              /\ (\A u \in Tables : \A p \in Options[u] :
                    value[u][p.name] = ValueOf(p, GivenUpTo(Seen, u, p)))'
  <2>1. (\A m : GoodArgument(m)' = GoodArgument(m)) /\ (\A k : Parser!Faulty(k)' = Parser!Faulty(k))
    BY <1>1, SectionsUnchanged
  <2>2. \A k \in 1 .. part - 1 : ~Parser!Faulty(k)
    BY <1>1, <1>10, <1>13 DEF ParserFound
  <2>3. ASSUME NEW u \in Tables, NEW p \in Options[u]
        PROVE  ValueOf(p, GivenUpTo(Seen, u, p))' = ValueOf(p, GivenUpTo(n, u, p))
    <3>1. GivenUpTo(Seen, u, p)' = GivenUpTo(n, u, p)
      BY <1>1, SectionsUnchanged
    <3> QED BY <1>1, <3>1, SectionsUnchanged
  <2>4. \A u \in Tables : \A p \in Options[u] :
          value'[u][p.name] = ValueOf(p, GivenUpTo(Seen, u, p))'
    BY <1>12, <1>13, <2>3
  <2> QED BY <1>1, <1>11, <1>13, <2>1, <2>2, <2>4
<1> QED BY <1>6, <1>7, <1>9, <1>13 DEF ParserFound

(* An argument that names none, or asks for help, is a fault of its        *)
(* section.                                                                *)
LEMMA ArgumentUnknown ==
  ASSUME ParserInv, Parser!Argument,
         Parser!OptionOf(Parser!Table(part), argv[Seen + 1].name) = {}, Parser!Unknown
  PROVE  ParserFound'
<1> DEFINE n == Seen + 1
           t == Parser!Table(part)
<1>1. /\ ParserAt /\ ParserFound /\ ParserAt' /\ Seen' = n
      /\ n \in DOMAIN argv /\ argv[n].name # "--" /\ Section(n) = part
      /\ UNCHANGED <<argv, format, part, parsed, parse>> /\ part \in 1 .. 3
  BY ArgumentAt DEF Parser!Argument, ParserInv, ParserAt
<1>2. /\ DOMAIN argv = 1 .. Len(argv) /\ Len(argv) \in Nat /\ Seen \in Nat
      /\ Parser!Current = argv[n]
  BY NextArgument DEF Parser!Argument, Parser!Current
<1>3. /\ UNCHANGED <<value, seen>>
      /\ \/ error' = TRUE /\ UNCHANGED printhelp
         \/ printhelp' = 1 /\ UNCHANGED error
  BY DEF Parser!Unknown
<1>4. Parser!Faulty(part)
  <2>1. ~GoodArgument(n)
    BY <1>1 DEF GoodArgument
  <2> HIDE DEF n
  <2> QED BY <1>1, <2>1, BadIsFaulty
<1>5. (\A k : Parser!Faulty(k)' = Parser!Faulty(k)) /\ Parser!Faulty(part)' = Parser!Faulty(part)
  BY <1>1, SectionsUnchanged
<1>6. RequiredSeen' = RequiredSeen
  <2>1. Parser!Table(part)' = t
    BY <1>1, SectionsUnchanged
  <2>2. ~\E p \in Parser!Required(t) : argv[n].name = p.name
    BY DEF Parser!OptionOf, Parser!Required
  <2>3. RequiredSeen' =
          {m \in DOMAIN argv : /\ parsed < m /\ m <= n
                               /\ \E p \in Parser!Required(t) : argv[m].name = p.name}
    BY <1>1, <2>1 DEF RequiredSeen, Parser!Required
  <2>4. \A m \in DOMAIN argv : m <= n <=> m <= Seen \/ m = n
    BY <1>2
  <2> QED BY <2>2, <2>3, <2>4 DEF RequiredSeen
<1>7. ~(~error' /\ printhelp' = 0)
  BY <1>3, <1>1 DEF ParserFound
<1>8. seen' = Cardinality(RequiredSeen)'
  <2>1. seen' = Cardinality(RequiredSeen)
    BY <1>1, <1>3 DEF ParserFound
  <2> QED BY <1>6, <2>1
<1>9. /\ DOMAIN value' = Tables
      /\ \A u \in Tables : DOMAIN value'[u] = {p.name : p \in Options[u]}
  BY <1>1, <1>3 DEF ParserFound
<1>10. error' \in BOOLEAN
  BY <1>1, <1>3 DEF ParserFound
<1> QED BY <1>1, <1>4, <1>5, <1>7, <1>8, <1>9, <1>10 DEF ParserFound

(* Nothing is promised of a program that has not given its answer, or has  *)
(* ended.                                                                  *)
LEMMA NoAnswerYet ==
  ASSUME parse' \in {"parsing", "exit", "fault"} PROVE AnswerIsRight'
BY DEF AnswerIsRight, Parser!AnswerIsRight, Parser!ParsedAsWritten,
     Parser!FaultyIsRefused, Parser!MissingNeedsRepeated

(* One pass of the loop of scilO_parseOptions keeps the invariant. *)
LEMMA ParserArgument == ASSUME ParserInv, Parser!Argument PROVE ParserInv'
<1>1. parse = "parsing" /\ UNCHANGED <<argv, parse>>
  BY DEF Parser!Argument
<1>2. ParserAt'
  BY ArgumentAt
<1>3. Parser!Current = argv[Seen + 1]
  BY <1>1, NextArgument DEF Parser!Current
<1>4. ParserFound'
  BY <1>3, ArgumentKnown, ArgumentUnknown DEF Parser!Argument
<1>5. AnswerIsRight'
  BY <1>1, NoAnswerYet
<1> QED BY <1>1, <1>2, <1>4, <1>5 DEF ParserInv

(* At the end of a call, the arguments of its section are those it looked  *)
(* at, and those of the sections so far all it has come past.              *)
LEMMA SectionIsSeen ==
  ASSUME ParserInv, parse = "parsing", Parser!AtEnd, NEW n \in DOMAIN argv,
         argv[n].name # "--"
  PROVE  /\ Section(n) = part <=> parsed < n /\ n <= Seen
         /\ Section(n) <= part <=> n <= Seen
         /\ Section(n) \in Nat \ {0}
<1>1. /\ Seen \in Nat /\ DOMAIN argv = 1 .. Len(argv) /\ parsed \in Nat /\ parsed <= Seen
      /\ part \in 1 .. 3 /\ ParserAt
  BY NextArgument DEF ParserInv, ParserAt
<1>2. Seen + 1 \in DOMAIN argv => argv[Seen + 1].name = "--" /\ Section(Seen + 1) = part + 1
  BY NextArgument DEF Parser!AtEnd, Parser!Current
<1>3. Section(n) \in Nat \ {0} /\ n \in Nat
  BY <1>1, SectionMonotonic
<1>4. CASE n <= Seen
  BY <1>1, <1>3, <1>4 DEF ParserAt
<1>5. CASE n > Seen
  <2>1. n # Seen + 1
    BY <1>2
  <2>2. Section(n) >= part + 1
    BY <1>1, <1>2, <1>3, <1>5, <2>1, NextArgument
  <2> QED BY <1>1, <1>3, <1>5, <2>2
<1> QED BY <1>1, <1>3, <1>4, <1>5

(* What the call returns tells whether a section so far has a fault. *)
LEMMA VerdictIsTrue ==
  ASSUME ParserInv, parse = "parsing", Parser!AtEnd
  PROVE  /\ Parser!Verdict # 0 => \E k \in 1 .. 3 : Parser!Faulty(k)
         /\ Parser!Verdict = 0 =>
                ~error /\ printhelp = 0 /\ \A k \in 1 .. part : ~Parser!Faulty(k)
<1>1. part \in 1 .. 3 /\ ParserFound /\ Parser!Table(part) \in Tables
  BY DEF ParserInv, ParserAt
<1> DEFINE t == Parser!Table(part)
           N == {n \in DOMAIN argv : \E o \in Parser!Required(t) : Parser!Gives(n, part, o)}
<1>2. N = RequiredSeen
  <2>1. \A o \in Parser!Required(t) : o.name # "--"
    BY <1>1, ParserConstants DEF Parser!Required
  <2>2. ASSUME NEW n \in DOMAIN argv, NEW o \in Parser!Required(t), argv[n].name = o.name
        PROVE  Parser!Gives(n, part, o) <=> parsed < n /\ n <= Seen
    <3>1. argv[n].name # "--"
      BY <2>1, <2>2
    <3>2. Section(n) = part <=> parsed < n /\ n <= Seen
      BY <3>1, SectionIsSeen
    <3> QED BY <2>2, <3>1, <3>2 DEF Parser!Gives, Parser!InSection, Section
  <2> QED BY <2>2 DEF RequiredSeen, Parser!Gives
<1>3. seen = Cardinality(N) /\ Cardinality(N) = Parser!Cardinality(N)
  BY <1>1, <1>2, ParserCardinality DEF ParserFound
<1>4. seen # Parser!Cardinality(Parser!Required(t)) => Parser!Faulty(part)
  BY <1>3 DEF Parser!Faulty
<1>5. ASSUME seen = Parser!Cardinality(Parser!Required(t)), ~error, printhelp = 0
      PROVE  ~Parser!Faulty(part)
  <2>1. ASSUME NEW n \in DOMAIN argv, Parser!InSection(n, part) PROVE GoodArgument(n)
    <3>1. argv[n].name # "--" /\ Section(n) = part
      BY <2>1 DEF Parser!InSection, Section
    <3>2. n <= Seen
      BY <3>1, SectionIsSeen
    <3> QED BY <1>1, <1>5, <3>1, <3>2 DEF ParserFound
  <2>2. ASSUME NEW n \in DOMAIN argv, Parser!InSection(n, part)
        PROVE  ~(\/ Parser!OptionOf(t, argv[n].name) = {}
                 \/ \E o \in Parser!OptionOf(t, argv[n].name) : Parser!Wrong(o, argv[n].arg))
    <3>1. Section(n) = part
      BY <2>2 DEF Parser!InSection, Section
    <3> QED BY <2>1, <2>2, <3>1 DEF GoodArgument
  <2> QED BY <1>3, <1>5, <2>2 DEF Parser!Faulty
<1>6. ~error /\ printhelp = 0 => \A k \in 1 .. part - 1 : ~Parser!Faulty(k)
  BY <1>1 DEF ParserFound
<1>7. ASSUME Parser!Verdict # 0 PROVE \E k \in 1 .. 3 : Parser!Faulty(k)
  BY <1>1, <1>4, <1>7 DEF Parser!Verdict, ParserFound
<1>8. ASSUME Parser!Verdict = 0
      PROVE  ~error /\ printhelp = 0 /\ \A k \in 1 .. part : ~Parser!Faulty(k)
  <2>1. seen = Parser!Cardinality(Parser!Required(t)) /\ ~error /\ printhelp = 0
    BY <1>8 DEF Parser!Verdict
  <2>2. \A k \in 1 .. part : k = part \/ k \in 1 .. part - 1
    BY <1>1
  <2> HIDE DEF t
  <2> QED BY <1>5, <1>6, <2>1, <2>2
<1> QED BY <1>7, <1>8

(* The call returns, and the next one begins at the separator: what the    *)
(* first one found is kept in printhelp.                                   *)
LEMMA ReturnToNext ==
  ASSUME ParserInv, Parser!Return, parse' = "parsing"
  PROVE  ParserInv'
<1>1. /\ parse = "parsing" /\ Parser!AtEnd /\ part < 3 /\ part' = part + 1
      /\ Parser!FindPlugin(format[part])
      /\ parsed' = parsed + i /\ i' = 1 /\ seen' = 0 /\ error' = FALSE
      /\ printhelp' = Parser!Verdict
      /\ UNCHANGED <<argv, format, value>>
  BY DEF Parser!Return, Parser!NextPart
<1>2. ParserAt /\ ParserFound /\ part \in 1 .. 2
  BY <1>1 DEF ParserInv, ParserAt
<1>3. /\ DOMAIN argv = 1 .. Len(argv) /\ Len(argv) \in Nat /\ Seen \in Nat
      /\ parsed' = Seen + 1 /\ parsed <= Seen
  BY <1>1, NextArgument
<1>4. Seen' = Seen + 1
  BY <1>1, <1>3 DEF Seen
<1>5. /\ \A k : Parser!Table(k)' = Parser!Table(k) /\ Parser!Faulty(k)' = Parser!Faulty(k)
      /\ \A n : Section(n)' = Section(n) /\ GoodArgument(n)' = GoodArgument(n)
      /\ \A d, t, o : GivenUpTo(d, t, o)' = GivenUpTo(d, t, o)
      /\ \A o, S : ValueOf(o, S)' = ValueOf(o, S)
  BY <1>1, SectionsUnchanged
<1>6. Seen + 1 \in DOMAIN argv => argv[Seen + 1].name = "--" /\ Section(Seen + 1) = part + 1
  BY <1>1, <1>3, NextArgument DEF Parser!AtEnd, Parser!Current
<1>7. ParserAt'
  <2>1. Parser!Table(part + 1) \in Tables /\ Parser!Table(part + 1) # "tool"
    <3>1. Parser!Table(part + 1) = format[part]
      BY <1>2 DEF Parser!Table
    <3> QED BY <1>1, <3>1 DEF Parser!FindPlugin
  <2>2. /\ \A k \in 1 .. part' : Parser!Table(k)' \in Tables
        /\ \A k \in 2 .. part' : Parser!Table(k)' # "tool"
    <3>1. \A k \in 1 .. part' : k \in 1 .. part \/ k = part + 1
      BY <1>1, <1>2
    <3>2. \A k \in 2 .. part' : k \in 2 .. part \/ k = part + 1
      BY <1>1, <1>2
    <3> QED BY <1>2, <1>5, <2>1, <3>1, <3>2 DEF ParserAt
  <2>3. Seen' <= Len(argv) => Section(Seen)' = part'
    <3>1. Seen' <= Len(argv) => Section(Seen + 1) = part + 1
      BY <1>3, <1>4, <1>6
    <3> QED BY <1>1, <1>4, <1>5, <3>1
  <2>4. ASSUME NEW n \in DOMAIN argv
        PROVE  /\ n <= parsed' => argv[n].name = "--" \/ Section(n) < part + 1
               /\ ~(parsed' < n /\ n <= Seen')
               /\ Seen' < n => Section(n) >= part + 1
    <3>1. n \in Nat /\ Section(n) \in Nat
      BY <1>3, SectionMonotonic
    <3>2. n <= parsed' => argv[n].name = "--" \/ Section(n) < part + 1
      <4>1. CASE n = Seen + 1
        BY <1>6, <4>1
      <4>2. CASE n <= Seen /\ argv[n].name # "--"
        <5>1. Section(n) <= part
          BY <1>1, <4>2, SectionIsSeen
        <5> QED BY <1>2, <3>1, <5>1
      <4> QED BY <1>3, <3>1, <4>1, <4>2
    <3>3. Seen' < n => Section(n) >= part + 1
      BY <1>1, <1>4, <1>6, NextArgument
    <3> QED BY <1>3, <1>4, <3>1, <3>2, <3>3
  <2> QED BY <1>1, <1>2, <1>3, <1>5, <2>2, <2>3, <2>4 DEF ParserAt
<1>8. seen' = Cardinality(RequiredSeen)'
  <2>1. RequiredSeen' = {}
    BY <1>1, <1>3, <1>4 DEF RequiredSeen
  <2> QED BY <1>1, <2>1, FS_EmptySet
<1>9. ASSUME printhelp' = 0
      PROVE  /\ (\A n \in DOMAIN argv : n <= Seen => argv[n].name = "--" \/ GoodArgument(n))'
             /\ (\A k \in 1 .. part - 1 : ~Parser!Faulty(k))'
             /\ (\A t \in Tables : \A o \in Options[t] :
                    value[t][o.name] = ValueOf(o, GivenUpTo(Seen, t, o)))'
  <2>1. ~error /\ printhelp = 0 /\ \A k \in 1 .. part : ~Parser!Faulty(k)
    BY <1>1, <1>9, VerdictIsTrue
  <2>2. \A n \in DOMAIN argv : n <= Seen' => argv[n].name = "--" \/ GoodArgument(n)
    BY <1>2, <1>3, <1>4, <1>6, <2>1 DEF ParserFound
  <2>3. part' - 1 = part
    BY <1>1, <1>2
  <2>4. ASSUME NEW t \in Tables, NEW o \in Options[t]
        PROVE  value'[t][o.name] = ValueOf(o, GivenUpTo(Seen, t, o))'
    <3>1. value[t][o.name] = ValueOf(o, GivenUpTo(Seen, t, o))
      BY <1>2, <2>1 DEF ParserFound
    <3>2. o.name # "--"
      BY ParserConstants
    <3>3. GivenUpTo(Seen + 1, t, o) = GivenUpTo(Seen, t, o)
      BY <1>3, <1>6, <3>2 DEF GivenUpTo
    <3>4. GivenUpTo(Seen, t, o)' = GivenUpTo(Seen + 1, t, o)
      BY <1>4, <1>5
    <3>5. ValueOf(o, GivenUpTo(Seen, t, o))' = ValueOf(o, GivenUpTo(Seen, t, o))
      BY <1>5, <3>3, <3>4
    <3> QED BY <1>1, <3>1, <3>5
  <2> QED BY <1>1, <1>5, <2>1, <2>2, <2>3, <2>4
<1>10. printhelp' # 0 => (\E k \in 1 .. 3 : Parser!Faulty(k))'
  BY <1>1, <1>5, VerdictIsTrue
<1>11. /\ DOMAIN value' = Tables
       /\ \A t \in Tables : DOMAIN value'[t] = {o.name : o \in Options[t]}
  BY <1>1, <1>2 DEF ParserFound
<1>12. ParserFound'
  BY <1>1, <1>8, <1>9, <1>10, <1>11 DEF ParserFound
<1>13. AnswerIsRight'
  BY NoAnswerYet
<1> QED BY <1>1, <1>7, <1>12, <1>13 DEF ParserInv

(* Of as many arguments as there are required options, one option is left  *)
(* out only if another is given twice.                                     *)
LEMMA MissedMeansRepeated ==
  ASSUME NEW k, NEW t \in Tables, DOMAIN argv = 1 .. Len(argv), Len(argv) \in Nat,
         Cardinality({n \in DOMAIN argv : \E o \in Parser!Required(t) : Parser!Gives(n, k, o)})
            = Cardinality(Parser!Required(t)),
         NEW missed \in Parser!Required(t), \A n \in DOMAIN argv : ~Parser!Gives(n, k, missed)
  PROVE  \E o \in Parser!Required(t) : \E n, n2 \in DOMAIN argv :
            n # n2 /\ Parser!Gives(n, k, o) /\ Parser!Gives(n2, k, o)
<1> DEFINE R == Parser!Required(t)
           N == {n \in DOMAIN argv : \E o \in R : Parser!Gives(n, k, o)}
           given == [n \in N |-> CHOOSE o \in R : Parser!Gives(n, k, o)]
<1>1. IsFiniteSet(R) /\ IsFiniteSet(N) /\ Cardinality(N) = Cardinality(R)
  <2>1. IsFiniteSet(DOMAIN argv) /\ IsFiniteSet(Options[t])
    BY FS_Interval, ParserConstants
  <2>2. R \in SUBSET Options[t] /\ N \in SUBSET (DOMAIN argv)
    BY DEF Parser!Required
  <2> QED BY <2>1, <2>2, FS_Subset
<1>2. given \in [N -> R \ {missed}] /\ \A n \in N : Parser!Gives(n, k, given[n])
  OBVIOUS
<1>3. /\ IsFiniteSet(R \ {missed}) /\ Cardinality(R \ {missed}) = Cardinality(R) - 1
      /\ Cardinality(R) \in Nat
  BY <1>1, FS_RemoveElement, FS_CardinalityType
<1> HIDE DEF given, N, R
<1>4. Cardinality(R \ {missed}) < Cardinality(N)
  BY <1>1, <1>3
<1>5. PICK n \in N, n2 \in N : n # n2 /\ given[n] = given[n2]
  BY <1>1, <1>2, <1>3, <1>4, FS_PigeonHole
<1>6. given[n] \in R /\ n \in DOMAIN argv /\ n2 \in DOMAIN argv
  BY <1>2 DEF N
<1> QED BY <1>2, <1>5, <1>6 DEF R

(* The last call returns. *)
LEMMA ReturnToMain ==
  ASSUME ParserInv, Parser!Return, parse' # "parsing"
  PROVE  ParserInv'
<1>1. /\ parse = "parsing" /\ Parser!AtEnd /\ printhelp' = Parser!Verdict
      /\ UNCHANGED <<argv, format, value>>
      /\ \/ parse' = "exit"
         \/ part = 3 /\ parse' = IF printhelp' # 0 THEN "help" ELSE "ready"
  BY DEF Parser!Return
<1>2. ParserAt /\ ParserFound /\ DOMAIN argv = 1 .. Len(argv) /\ Len(argv) \in Nat
  BY <1>1, NextArgument DEF ParserInv
<1>3. CASE parse' = "exit"
  BY <1>1, <1>3, NoAnswerYet DEF ParserInv
<1>4. CASE part = 3 /\ parse' = "help"
  <2>1. (\E k \in 1 .. 3 : Parser!Faulty(k))'
    <3>1. \E k \in 1 .. 3 : Parser!Faulty(k)
      BY <1>1, <1>4, VerdictIsTrue
    <3> QED BY <1>1, <3>1, SectionsUnchanged
  <2>2. AnswerIsRight'
    BY <1>4, <2>1 DEF AnswerIsRight, Parser!AnswerIsRight, Parser!ParsedAsWritten,
       Parser!FaultyIsRefused, Parser!MissingNeedsRepeated
  <2> QED BY <1>1, <1>4, <2>2 DEF ParserInv
<1>5. CASE part = 3 /\ parse' = "ready"
  <2>1. ~error /\ printhelp = 0 /\ \A k \in 1 .. 3 : ~Parser!Faulty(k)
    BY <1>1, <1>5, VerdictIsTrue
  <2>2. \A k \in 1 .. 3 : Parser!Table(k) \in Tables
    BY <1>2, <1>5 DEF ParserAt
  <2>3. ASSUME NEW t \in Tables, NEW o \in Options[t]
        PROVE  value[t][o.name] = Parser!Written({k \in 1 .. 3 : Parser!Table(k) = t}, o)
    <3> DEFINE given == {n \in DOMAIN argv :
                            \E k \in {k \in 1 .. 3 : Parser!Table(k) = t} : Parser!Gives(n, k, o)}
    <3>1. given = GivenUpTo(Seen, t, o)
      <4>1. o.name # "--"
        BY ParserConstants
      <4>2. ASSUME NEW n \in DOMAIN argv, argv[n].name = o.name
            PROVE  (\E k \in {k \in 1 .. 3 : Parser!Table(k) = t} : Parser!Gives(n, k, o))
                    <=> n <= Seen /\ Section(n) <= 3 /\ Parser!Table(Section(n)) = t
        <5>1. argv[n].name # "--"
          BY <4>1, <4>2
        <5>2. \A k : Parser!Gives(n, k, o) <=> Section(n) = k
          BY <4>2, <5>1 DEF Parser!Gives, Parser!InSection, Section
        <5>3. Section(n) \in Nat \ {0} /\ (Section(n) <= 3 <=> n <= Seen)
          BY <1>1, <1>5, <5>1, SectionIsSeen
        <5> QED BY <5>2, <5>3
      <4> QED BY <4>2 DEF GivenUpTo, Parser!Gives
    <3> HIDE DEF given
    <3>2. value[t][o.name] = ValueOf(o, given)
      BY <1>2, <2>1, <3>1 DEF ParserFound
    <3>3. Parser!Written({k \in 1 .. 3 : Parser!Table(k) = t}, o) =
            CASE o.arg = "flag" -> Parser!Cardinality(given)
              [] o.arg # "flag" /\ given = {} -> Parser!Default(o)
              [] o.arg # "flag" /\ given # {} ->
                    Parser!Stored(o, argv[CHOOSE n \in given : \A n2 \in given : n2 <= n].arg, 0)
      BY DEF Parser!Written, given
    <3> QED BY <3>2, <3>3, ParserCardinality DEF ValueOf
  <2>4. ASSUME NEW k \in 1 .. 3
        PROVE  \/ \A o \in Parser!Required(Parser!Table(k)) :
                    \E n \in DOMAIN argv : Parser!Gives(n, k, o)
               \/ \E o \in Parser!Required(Parser!Table(k)) : \E n, n2 \in DOMAIN argv :
                    n # n2 /\ Parser!Gives(n, k, o) /\ Parser!Gives(n2, k, o)
    <3>1. Cardinality({n \in DOMAIN argv : \E o \in Parser!Required(Parser!Table(k)) :
                            Parser!Gives(n, k, o)})
            = Cardinality(Parser!Required(Parser!Table(k)))
      BY <2>1, ParserCardinality DEF Parser!Faulty
    <3> QED BY <1>2, <2>2, <3>1, MissedMeansRepeated
  <2>5. AnswerIsRight'
    <3>1. /\ \A k : Parser!Table(k)' = Parser!Table(k) /\ Parser!Faulty(k)' = Parser!Faulty(k)
          /\ \A n, k, o : Parser!Gives(n, k, o)' = Parser!Gives(n, k, o)
      BY <1>1, SectionsUnchanged
    <3>2. \A S, o : Parser!Written(S, o)' = Parser!Written(S, o)
      BY <1>1, <3>1 DEF Parser!Written
    <3>3. Parser!ParsedAsWritten'
      BY <1>1, <2>3, <3>1, <3>2 DEF Parser!ParsedAsWritten
    <3>4. Parser!FaultyIsRefused'
      BY <1>5, <2>1, <3>1 DEF Parser!FaultyIsRefused
    <3>5. Parser!MissingNeedsRepeated'
      BY <1>1, <2>4, <3>1 DEF Parser!MissingNeedsRepeated
    <3> QED BY <3>3, <3>4, <3>5 DEF AnswerIsRight, Parser!AnswerIsRight
  <2> QED BY <1>1, <1>5, <2>5 DEF ParserInv
<1> QED BY <1>1, <1>3, <1>4, <1>5

(* Every step of the parser, and every step of another program, keeps the  *)
(* invariant.                                                              *)
LEMMA ParserStep ==
  ASSUME ParserInv, Parser!Next \/ UNCHANGED parserVars PROVE ParserInv'
<1>1. CASE Parser!PrintHelp
  <2>1. parse' \in {"exit", "fault"} /\ UNCHANGED argv
    BY <1>1 DEF Parser!PrintHelp
  <2> QED BY <2>1, NoAnswerYet DEF ParserInv
<1>2. CASE UNCHANGED parserVars
  <2>1. UNCHANGED <<argv, format, part, parsed, i, seen, error, printhelp, value, parse>>
    BY <1>2 DEF parserVars
  <2>2. /\ \A k : Parser!Table(k)' = Parser!Table(k) /\ Parser!Faulty(k)' = Parser!Faulty(k)
        /\ \A n : Section(n)' = Section(n) /\ GoodArgument(n)' = GoodArgument(n)
        /\ \A n, k, o : Parser!Gives(n, k, o)' = Parser!Gives(n, k, o)
        /\ \A d, t, o : GivenUpTo(d, t, o)' = GivenUpTo(d, t, o)
        /\ \A o, S : ValueOf(o, S)' = ValueOf(o, S)
    BY <2>1, SectionsUnchanged
  <2>3. /\ Seen' = Seen /\ RequiredSeen' = RequiredSeen
        /\ \A S, o : Parser!Written(S, o)' = Parser!Written(S, o)
    <3>1. Seen' = Seen
      BY <2>1 DEF Seen
    <3>2. RequiredSeen' = RequiredSeen
      BY <2>1, <2>2, <3>1 DEF RequiredSeen
    <3>3. \A S, o : Parser!Written(S, o)' = Parser!Written(S, o)
      BY <2>1, <2>2 DEF Parser!Written
    <3> QED BY <3>1, <3>2, <3>3
  <2>4. ParserAt => ParserAt'
    BY <2>1, <2>2, <2>3 DEF ParserAt
  <2>5. ParserFound => ParserFound'
    <3>1. (\A t \in Tables : \A o \in Options[t] :
             value[t][o.name] = ValueOf(o, GivenUpTo(Seen, t, o)))
          => (\A t \in Tables : \A o \in Options[t] :
                value[t][o.name] = ValueOf(o, GivenUpTo(Seen, t, o)))'
      BY <2>1, <2>2, <2>3
    <3>2. (\A n \in DOMAIN argv : n <= Seen => argv[n].name = "--" \/ GoodArgument(n))
          => (\A n \in DOMAIN argv : n <= Seen => argv[n].name = "--" \/ GoodArgument(n))'
      BY <2>1, <2>2, <2>3
    <3>3. (\A k \in 1 .. part - 1 : ~Parser!Faulty(k)) => (\A k \in 1 .. part - 1 : ~Parser!Faulty(k))'
      BY <2>1, <2>2
    <3>4. (\E k \in 1 .. 3 : Parser!Faulty(k)) => (\E k \in 1 .. 3 : Parser!Faulty(k))'
      BY <2>2
    <3>5. (error => Parser!Faulty(part)) => (error => Parser!Faulty(part))'
      BY <2>1, <2>2
    <3>6. (seen = Cardinality(RequiredSeen)) => (seen = Cardinality(RequiredSeen))'
      BY <2>1, <2>3
    <3> QED BY <2>1, <3>1, <3>2, <3>3, <3>4, <3>5, <3>6 DEF ParserFound
  <2>6. AnswerIsRight => AnswerIsRight'
    <3>1. Parser!ParsedAsWritten => Parser!ParsedAsWritten'
      BY <2>1, <2>2, <2>3 DEF Parser!ParsedAsWritten
    <3>2. Parser!FaultyIsRefused => Parser!FaultyIsRefused'
      BY <2>1, <2>2 DEF Parser!FaultyIsRefused
    <3>3. Parser!MissingNeedsRepeated => Parser!MissingNeedsRepeated'
      BY <2>1, <2>2 DEF Parser!MissingNeedsRepeated
    <3> QED BY <3>1, <3>2, <3>3 DEF AnswerIsRight, Parser!AnswerIsRight
  <2> QED BY <2>1, <2>4, <2>5, <2>6 DEF ParserInv
<1> QED BY <1>1, <1>2, ParserArgument, ReturnToNext, ReturnToMain DEF Parser!Next

(* Every command line is answered as it is written, for any tables of      *)
(* options: the tool goes on exactly if no section has a fault, each       *)
(* variable holds what its sections say, and only a repeated option can    *)
(* hide a missing one (scilO_parseOptions, scil-option.c).                 *)
THEOREM AnswerRight == Spec => []AnswerIsRight
<1>1. Init => ParserInv
  BY ParserInit DEF Init
<1>2. ParserInv /\ [Next]_vars => ParserInv'
  <2>1. [Next]_vars => Parser!Next \/ UNCHANGED parserVars
    BY DEF Next, vars
  <2> QED BY <2>1, ParserStep
<1>3. ParserInv => AnswerIsRight
  BY DEF ParserInv
<1> QED BY <1>1, <1>2, <1>3, PTL DEF Spec

-----------------------------------------------------------------------------
(* The CSV plugin (ScilCsv) *)

(* Lines of the first k that are not of comment *)
Filled(k) == Cardinality({n \in 1 .. k : file.rows[n] # <<>>})

(* The first k lines that are not of comment have c tokens. *)
Alike(k, c) == \A n \in 1 .. k : file.rows[n] = <<>> \/ Len(file.rows[n]) = c

(* No line has a single token. *)
NoSingle == \A n \in DOMAIN file.rows : Len(file.rows[n]) # 1

(* An array that has to be read as it was written *)
OfOurs == Len(written) \in {1, 2} /\ Csv!Tellable(written)

(* A sequence, of whatever it consists *)
IsSeq(s) == s \in Seq({s[n] : n \in 1 .. Len(s)})

(* A file of rows of numbers: one written here is what the writer makes of *)
(* the array.                                                              *)
CsvFile ==
    /\ file.rows \in Seq(Seq(Int))
    /\ \/ written = <<>>
       \/ /\ written \in Shapes /\ file.rows = Csv!Lines(written)
          /\ file.head = IF ignoreHeader THEN <<>> ELSE Csv!Padded(written)

(* The first pass *)
CsvCount ==
    /\ line \in 0 .. Len(file.rows) + 1 /\ x \in Nat /\ y \in Nat /\ refX \in Int
    /\ ~foundHeader /\ stored = <<>>
    /\ line = 0 => refX = -1 /\ x = 0 /\ y = 0
    /\ line > 0 /\ written # <<>> => ignoreHeader
    /\ NoSingle => /\ y = Filled(line - 1) /\ Alike(line - 1, x)
                   /\ refX = x \/ (refX = -1 /\ x = 0)
                   /\ y = 0 => x = 0
    /\ OfOurs => /\ refX \in {-1, written[1]}
                 /\ line > 1 => x = written[1]
                 /\ line > 0 => y = IF written[1] > 1 THEN line - 1 ELSE 0

(* The second pass *)
CsvStore ==
    /\ line \in 1 .. Len(file.rows) + 1 /\ IsSeq(stored)
    /\ NoSingle /\ ~foundHeader =>
        \E c \in Nat : /\ Csv!Count(shape) = c * Filled(Len(file.rows))
                       /\ Alike(Len(file.rows), c)
                       /\ Len(stored) = c * Filled(line - 1)
    /\ OfOurs => /\ shape = written
                 /\ stored = [n \in 1 .. (line - 1) * written[1] |-> n - 1]

(* The inductive invariant of a call of the plugin, from the writing of    *)
(* the file to the end of the second pass                                  *)
CsvInv ==
    /\ ignoreHeader \in BOOLEAN
    /\ step \in {"idle", "count", "store", "done", "failed"}
    /\ step = "idle" => line = 0 /\ x = 0 /\ y = 0 /\ refX = -1 /\ ~foundHeader /\ stored = <<>>
    /\ step # "idle" => CsvFile
    /\ step = "count" => CsvCount
    /\ step \in {"store", "done"} => CsvStore
    /\ step = "done" => line = Len(file.rows) + 1
    /\ step = "failed" => ~OfOurs

(* What is assumed of the arrays written and of the files of others *)
LEMMA CsvConstants ==
  /\ \A s \in Shapes : s \in Seq(Nat \ {0}) /\ Len(s) \in 1 .. 4
  /\ \A f \in Files : f.rows \in Seq(Seq(Int))
BY ProgramsAssumption DEF ProgramsAssumption, Csv!CsvAssumption

(* No file is open. *)
LEMMA CsvInit == Csv!Init => CsvInv
BY DEF Csv!Init, CsvInv

(* A line counts if it is not of comment. *)
LEMMA FilledStep ==
  ASSUME NEW n \in Nat \ {0}
  PROVE  /\ Filled(n) \in Nat /\ Filled(n - 1) \in Nat
         /\ Filled(n) = Filled(n - 1) + (IF file.rows[n] # <<>> THEN 1 ELSE 0)
<1> DEFINE F(m) == {k \in 1 .. m : file.rows[k] # <<>>}
<1>1. IsFiniteSet(F(n - 1)) /\ IsFiniteSet(F(n)) /\ n \notin F(n - 1)
  <2>1. IsFiniteSet(1 .. n) /\ IsFiniteSet(1 .. n - 1)
    BY FS_Interval
  <2> QED BY <2>1, FS_Subset
<1>2. F(n) = IF file.rows[n] # <<>> THEN F(n - 1) \cup {n} ELSE F(n - 1)
  OBVIOUS
<1>3. Filled(n) = Cardinality(F(n)) /\ Filled(n - 1) = Cardinality(F(n - 1))
  BY DEF Filled
<1> HIDE DEF F
<1>4. Cardinality(F(n - 1)) \in Nat /\ Cardinality(F(n)) \in Nat
  BY <1>1, FS_CardinalityType
<1>5. Cardinality(F(n - 1) \cup {n}) = Cardinality(F(n - 1)) + 1
  BY <1>1, FS_AddElement
<1> QED BY <1>2, <1>3, <1>4, <1>5

(* Before the first line nothing is counted. *)
LEMMA FilledNone == Filled(0) = 0 /\ Filled(-1) = 0
<1>1. {n \in 1 .. 0 : file.rows[n] # <<>>} = {} /\ {n \in 1 .. -1 : file.rows[n] # <<>>} = {}
  OBVIOUS
<1> QED BY <1>1, FS_EmptySet DEF Filled

(* What the concatenation of two sequences is *)
LEMMA Concatenated ==
  ASSUME NEW s, NEW t, IsSeq(s), IsSeq(t)
  PROVE  /\ IsSeq(s \o t) /\ Len(s \o t) = Len(s) + Len(t)
         /\ \A n \in 1 .. Len(s) + Len(t) : (s \o t)[n] = IF n <= Len(s) THEN s[n] ELSE t[n - Len(s)]
<1> DEFINE S == {s[n] : n \in 1 .. Len(s)} \cup {t[n] : n \in 1 .. Len(t)}
<1>1. s \in Seq(S) /\ t \in Seq(S)
  <2>1. {s[n] : n \in 1 .. Len(s)} \subseteq S /\ {t[n] : n \in 1 .. Len(t)} \subseteq S
    OBVIOUS
  <2> HIDE DEF S
  <2> QED BY <2>1, SeqMonotonic DEF IsSeq
<1>2. /\ s \o t \in Seq(S) /\ Len(s \o t) = Len(s) + Len(t)
      /\ \A n \in 1 .. Len(s) + Len(t) : (s \o t)[n] = IF n <= Len(s) THEN s[n] ELSE t[n - Len(s)]
  <2> HIDE DEF S
  <2> QED BY <1>1, ConcatProperties
<1>3. IsSeq(s \o t)
  <2> DEFINE u == s \o t
  <2>1. u \in [1 .. Len(u) -> S] /\ Len(u) \in Nat
    <3> HIDE DEF S
    <3> QED BY <1>2, LenProperties
  <2> HIDE DEF u, S
  <2>2. u \in [1 .. Len(u) -> {u[n] : n \in 1 .. Len(u)}]
    BY <2>1
  <2>3. IsSeq(u)
    <3>1. u \in Seq({u[n] : n \in 1 .. Len(u)})
      BY <2>1, <2>2, SeqDef
    <3> QED BY <3>1 DEF IsSeq
  <2> QED BY <2>3 DEF u
<1> QED BY <1>2, <1>3

(* A line stores as many values as it has tokens, and the tokens if none   *)
(* of them is blank.                                                       *)
LEMMA NumbersAre ==
  ASSUME NEW tokens \in Seq(Int), NEW old
  PROVE  /\ IsSeq(Csv!Numbers(old, tokens)) /\ Len(Csv!Numbers(old, tokens)) = Len(tokens)
         /\ (\A n \in 1 .. Len(tokens) : tokens[n] # -1) => Csv!Numbers(old, tokens) = tokens
<1> DEFINE u == Csv!Numbers(old, tokens)
<1>1. /\ u = [n \in 1 .. Len(tokens) |-> Csv!LastNumber(old, SubSeq(tokens, 1, n))]
      /\ Len(tokens) \in Nat
  BY LenProperties DEF Csv!Numbers
<1>2. DOMAIN u = 1 .. Len(tokens) /\ Len(u) = Len(tokens)
  BY <1>1
<1>3. IsSeq(u)
  <2>1. u \in [1 .. Len(tokens) -> {u[n] : n \in 1 .. Len(tokens)}]
    BY <1>1
  <2> HIDE DEF u
  <2> QED BY <1>1, <1>2, <2>1, SeqDef DEF IsSeq
<1>4. ASSUME \A n \in 1 .. Len(tokens) : tokens[n] # -1, NEW n \in 1 .. Len(tokens)
      PROVE  u[n] = tokens[n]
  <2> DEFINE t == SubSeq(tokens, 1, n)
             N == {k \in DOMAIN t : t[k] # Csv!Blank}
  <2>1. \A k \in 1 .. n : tokens[k] \in Int /\ tokens[k] # -1
    BY <1>1, <1>4, ElementOfSeq
  <2>2. t \in Seq(Int) /\ Len(t) = n /\ \A k \in 1 .. n : t[k] = tokens[k]
    BY <1>1, <2>1, SubSeqProperties
  <2>3. DOMAIN t = 1 .. n
    BY <2>2, LenProperties
  <2> HIDE DEF t
  <2>4. N = 1 .. n /\ n \in N
    <3>1. \A k \in 1 .. n : t[k] # Csv!Blank
      BY <2>1, <2>2 DEF Csv!Blank
    <3> QED BY <1>1, <2>3, <3>1
  <2>5. (CHOOSE k \in N : \A j \in N : j <= k) = n
    BY <1>1, <2>4
  <2>6. Csv!LastNumber(old, t) = tokens[n]
    BY <1>1, <2>2, <2>4, <2>5 DEF Csv!LastNumber
  <2> QED BY <1>1, <2>6 DEF t
<1>5. (\A n \in 1 .. Len(tokens) : tokens[n] # -1) => u = tokens
  <2>1. tokens = [n \in 1 .. Len(tokens) |-> tokens[n]]
    BY LenProperties
  <2> QED BY <1>1, <1>4, <2>1
<1> QED BY <1>2, <1>3, <1>5

(* Lengths of an array are positive. *)
LEMMA LengthsAre ==
  ASSUME NEW s \in Seq(Nat \ {0}), Len(s) \in 1 .. 4
  PROVE  /\ \A k \in 1 .. 4 : Csv!Length(s, k) \in Nat \ {0}
         /\ Csv!Length(s, 1) = s[1] /\ s[1] \in Nat \ {0}
BY DEF Csv!Length

(* The lines of an array are sequences of numbers, of one or two dimensions *)
(* its rows in order.                                                       *)
LEMMA LinesAre ==
  ASSUME NEW s \in Shapes
  PROVE  /\ Csv!Lines(s) \in Seq(Seq(Int))
         /\ Len(s) \in {1, 2} =>
              /\ Len(Csv!Lines(s)) = Csv!Length(s, 2)
              /\ \A r \in 1 .. Csv!Length(s, 2) :
                    Csv!Lines(s)[r] = [n \in 1 .. s[1] |-> (r - 1) * s[1] + n - 1]
<1> DEFINE A == Csv!Length(s, 1)
           B == Csv!Length(s, 2)
           C == Csv!Length(s, 3)
           D == Csv!Length(s, 4)
<1>1. /\ s \in Seq(Nat \ {0}) /\ Len(s) \in 1 .. 4
      /\ A \in Nat \ {0} /\ B \in Nat \ {0} /\ C \in Nat \ {0} /\ D \in Nat \ {0}
      /\ A = s[1] /\ s[1] \in Nat \ {0}
  BY CsvConstants, LengthsAre
<1>2. Csv!Lines(s) = [r \in 1 .. B * C * D |-> Csv!LineOf(s, r - 1)]
  BY DEF Csv!Lines
<1>3. ASSUME NEW yy \in Int, NEW zz \in Int, NEW ww \in Int
      PROVE  Csv!LineStart(s, yy, zz, ww) \in Int
  <2>1. yy * A \in Int /\ zz * B \in Int /\ ww * C \in Int
    <3> HIDE DEF A, B, C
    <3> QED BY <1>1, <1>3
  <2>2. /\ (IF Len(s) > 2 THEN zz * B ELSE 0) \in Int
        /\ (IF Len(s) > 3 THEN ww * C ELSE 0) \in Int
    <3> HIDE DEF A, B, C
    <3> QED BY <2>1
  <2>3. Csv!LineStart(s, yy, zz, ww) = yy * A + (IF Len(s) > 2 THEN zz * B ELSE 0)
                                              + (IF Len(s) > 3 THEN ww * C ELSE 0)
    BY DEF Csv!LineStart
  <2> HIDE DEF A, B, C
  <2> QED BY <2>1, <2>2, <2>3
<1>4. ASSUME NEW r \in 0 .. B * C * D - 1 PROVE Csv!LineOf(s, r) \in Seq(Int)
  <2> DEFINE start == Csv!LineStart(s, r % B, (r \div B) % C, r \div (B * C))
  <2> HIDE DEF A, B, C, D
  <2>1. B * C \in Nat \ {0} /\ r \in Int
    BY <1>1
  <2>2. r % B \in Int /\ r \div B \in Int /\ r \div (B * C) \in Int
    BY <1>1, <2>1
  <2>3. (r \div B) % C \in Int
    BY <1>1, <2>2
  <2>4. start \in Int
    BY <1>3, <2>2, <2>3
  <2>5. Csv!LineOf(s, r) = [n \in 1 .. s[1] |-> start + n - 1]
    BY DEF Csv!LineOf, A, B, C
  <2> HIDE DEF start
  <2>6. Csv!LineOf(s, r) \in [1 .. s[1] -> Int]
    BY <1>1, <2>4, <2>5
  <2> QED BY <1>1, <2>6, SeqDef
<1>5. Csv!Lines(s) \in Seq(Seq(Int))
  <2> HIDE DEF A, B, C, D
  <2>1. B * C * D \in Nat
    BY <1>1
  <2>2. Csv!Lines(s) \in [1 .. B * C * D -> Seq(Int)]
    BY <1>2, <1>4, <2>1
  <2> QED BY <2>1, <2>2, SeqDef
<1>6. ASSUME Len(s) \in {1, 2}
      PROVE  /\ Len(Csv!Lines(s)) = B
             /\ \A r \in 1 .. B : Csv!Lines(s)[r] = [n \in 1 .. s[1] |-> (r - 1) * s[1] + n - 1]
  <2>1. C = 1 /\ D = 1
    BY <1>6 DEF Csv!Length
  <2>2. B * C * D = B
    <3> HIDE DEF A, B, C, D
    <3> QED BY <1>1, <2>1
  <2>3. Csv!Lines(s) = [r \in 1 .. B |-> Csv!LineOf(s, r - 1)]
    BY <1>2, <2>2
  <2>4. Len(Csv!Lines(s)) = B
    <3> HIDE DEF A, B, C, D
    <3> QED BY <1>1, <1>5, <2>3, LenProperties
  <2>5. ASSUME NEW r \in 1 .. B
        PROVE  Csv!LineOf(s, r - 1) = [n \in 1 .. s[1] |-> (r - 1) * s[1] + n - 1]
    <3>1. (r - 1) % B = r - 1
      <4> HIDE DEF A, B, C, D
      <4> QED BY <1>1
    <3>2. Csv!LineStart(s, (r - 1) % B, ((r - 1) \div B) % C, (r - 1) \div (B * C)) = (r - 1) * s[1]
      <4>1. \A yy \in Int : \A zz, ww : Csv!LineStart(s, yy, zz, ww) = yy * s[1]
        <5> SUFFICES ASSUME NEW yy \in Int, NEW zz, NEW ww
                     PROVE  Csv!LineStart(s, yy, zz, ww) = yy * s[1]
          OBVIOUS
        <5>1. ~(Len(s) > 2) /\ ~(Len(s) > 3)
          <6>1. ASSUME NEW l \in {1, 2} PROVE ~(l > 2) /\ ~(l > 3)
            OBVIOUS
          <6> QED BY <1>6, <6>1
        <5>2. Csv!LineStart(s, yy, zz, ww) = yy * A + 0 + 0
          BY <5>1 DEF Csv!LineStart
        <5>3. yy * A \in Int
          <6> HIDE DEF A
          <6> QED BY <1>1
        <5> HIDE DEF A
        <5> QED BY <1>1, <5>2, <5>3
      <4> HIDE DEF A, B, C, D
      <4> QED BY <1>1, <3>1, <4>1
    <3> QED BY <3>2 DEF Csv!LineOf
  <2> HIDE DEF A, B, C, D
  <2> QED BY <2>3, <2>4, <2>5
<1> QED BY <1>5, <1>6

(* What the header says is the shape. *)
LEMMA HeaderIs ==
  ASSUME NEW s \in Shapes, Len(s) \in {1, 2}
  PROVE  /\ Csv!Padded(s) \notin {<<>>, <<-1>>}
         /\ Csv!Dims4d(Csv!Padded(s)) = s
<1> DEFINE p == Csv!Padded(s)
<1>1. s \in Seq(Nat \ {0}) /\ Len(s) \in Nat /\ \A n \in 1 .. Len(s) : s[n] \in Nat \ {0}
  BY CsvConstants, ElementOfSeq
<1>2. p = [n \in 1 .. 4 |-> IF n <= Len(s) THEN s[n] ELSE 0]
  BY DEF Csv!Padded
<1>3. /\ p[3] = 0 /\ p[4] = 0 /\ p[1] = s[1]
      /\ Len(s) = 1 => p[2] = 0
      /\ Len(s) = 2 => p[2] = s[2] /\ s[2] > 0
  <2>1. CASE Len(s) = 1
    BY <1>2, <2>1
  <2>2. CASE Len(s) = 2
    BY <1>1, <1>2, <2>2
  <2> QED BY <2>1, <2>2
<1>4. p \notin {<<>>, <<-1>>}
  <2>1. DOMAIN p = 1 .. 4 /\ 4 \in DOMAIN p
    BY <1>2
  <2>2. 4 \notin DOMAIN <<>> /\ 4 \notin DOMAIN <<-1>>
    OBVIOUS
  <2> HIDE DEF p
  <2> QED BY <2>1, <2>2
<1>5. SubSeq(p, 1, Len(s)) = s
  <2>1. \A n \in 1 .. Len(s) : p[n] = s[n]
    <3>1. CASE Len(s) = 1
      BY <1>2, <3>1
    <3>2. CASE Len(s) = 2
      BY <1>2, <3>2
    <3> QED BY <3>1, <3>2
  <2> HIDE DEF p
  <2>2. /\ SubSeq(p, 1, Len(s)) \in Seq(Nat \ {0}) /\ Len(SubSeq(p, 1, Len(s))) = Len(s)
        /\ \A n \in 1 .. Len(s) : SubSeq(p, 1, Len(s))[n] = p[n]
    <3>1. /\ SubSeq(p, 1, Len(s)) \in Seq(Nat \ {0})
          /\ Len(SubSeq(p, 1, Len(s))) = IF 1 <= Len(s) THEN Len(s) - 1 + 1 ELSE 0
          /\ \A n \in 1 .. Len(s) - 1 + 1 : SubSeq(p, 1, Len(s))[n] = p[1 + n - 1]
      <4>1. \A n \in 1 .. Len(s) : p[n] \in Nat \ {0}
        BY <1>1, <2>1
      <4> QED BY <1>1, <4>1, SubSeqProperties
    <3>2. Len(s) - 1 + 1 = Len(s) /\ 1 <= Len(s) /\ \A n \in 1 .. Len(s) : 1 + n - 1 = n
      <4>1. CASE Len(s) = 1
        BY <4>1
      <4>2. CASE Len(s) = 2
        BY <4>2
      <4> QED BY <4>1, <4>2
    <3> QED BY <3>1, <3>2
  <2> QED BY <1>1, <2>1, <2>2, SeqEqual
<1>6. Csv!Dims4d(p) = SubSeq(p, 1, Len(s))
  <2> HIDE DEF p
  <2>1. CASE Len(s) = 1
    BY <1>3, <2>1 DEF Csv!Dims4d
  <2>2. CASE Len(s) = 2
    BY <1>3, <2>2 DEF Csv!Dims4d
  <2> QED BY <2>1, <2>2
<1> QED BY <1>4, <1>5, <1>6

(* Steps of the other programs leave the plugin as it is. *)
LEMMA CsvUnchanged ==
  ASSUME CsvInv, UNCHANGED csvVars PROVE CsvInv'
<1>1. UNCHANGED <<step, ignoreHeader, file, written, line, x, y, refX, foundHeader, shape, stored>>
  BY DEF csvVars
<1>2. /\ (\A k : Filled(k)' = Filled(k)) /\ \A k, c : Alike(k, c)' = Alike(k, c)
      /\ NoSingle' = NoSingle /\ OfOurs' = OfOurs
  BY <1>1 DEF Filled, Alike, NoSingle, OfOurs, Csv!Tellable
<1>3. CsvFile => CsvFile'
  BY <1>1 DEF CsvFile
<1>4. CsvCount => CsvCount'
  BY <1>1, <1>2 DEF CsvCount
<1>5. CsvStore => CsvStore'
  BY <1>1, <1>2 DEF CsvStore, IsSeq
<1> QED BY <1>1, <1>2, <1>3, <1>4, <1>5 DEF CsvInv

(* While a file is read, neither it nor what it comes from changes. *)
LEMMA SameFile ==
  ASSUME UNCHANGED <<ignoreHeader, file, written>>
  PROVE  /\ (\A k : Filled(k)' = Filled(k)) /\ \A k, c : Alike(k, c)' = Alike(k, c)
         /\ NoSingle' = NoSingle /\ OfOurs' = OfOurs /\ CsvFile' = CsvFile
BY DEF Filled, Alike, NoSingle, OfOurs, Csv!Tellable, CsvFile

(* A file is there to be read from its first line on. *)
LEMMA CsvOpen ==
  ASSUME CsvInv, step = "idle",
         (\E s \in Shapes : Csv!WriteData(s)) \/ (\E f \in Files : Csv!FromElsewhere(f))
  PROVE  CsvInv'
<1>1. /\ step' = "count" /\ UNCHANGED <<ignoreHeader, line, x, y, refX, foundHeader, stored>>
      /\ line = 0 /\ x = 0 /\ y = 0 /\ refX = -1 /\ ~foundHeader /\ stored = <<>>
      /\ ignoreHeader \in BOOLEAN
  BY DEF CsvInv, Csv!WriteData, Csv!FromElsewhere
<1>2. CsvFile'
  <2>1. CASE \E s \in Shapes : Csv!WriteData(s)
    <3>1. PICK s \in Shapes : Csv!WriteData(s)
      BY <2>1
    <3>2. /\ file' = [head |-> IF ignoreHeader THEN <<>> ELSE Csv!Padded(s), rows |-> Csv!Lines(s)]
          /\ written' = s
      BY <3>1 DEF Csv!WriteData, Csv!NoHeader
    <3> QED BY <1>1, <3>2, LinesAre DEF CsvFile
  <2>2. CASE \E f \in Files : Csv!FromElsewhere(f)
    <3>1. PICK f \in Files : file' = f /\ written' = <<>>
      BY <2>2 DEF Csv!FromElsewhere, Csv!NoShape
    <3> QED BY <3>1, CsvConstants DEF CsvFile
  <2> QED BY <2>1, <2>2
<1>3. file'.rows \in Seq(Seq(Int)) /\ Len(file'.rows) \in Nat
  BY <1>2, LenProperties DEF CsvFile
<1>4. Filled(line - 1)' = 0 /\ Alike(line - 1, x)'
  <2>1. line' - 1 = -1
    BY <1>1
  <2>2. Filled(-1)' = 0
    <3>1. {n \in 1 .. -1 : file'.rows[n] # <<>>} = {}
      OBVIOUS
    <3> QED BY <3>1, FS_EmptySet DEF Filled
  <2> QED BY <2>1, <2>2 DEF Alike, Filled
<1>5. CsvCount'
  BY <1>1, <1>3, <1>4 DEF CsvCount
<1> QED BY <1>1, <1>2, <1>5 DEF CsvInv

(* What an array that has to be read as it was written consists of *)
LEMMA OursIs ==
  ASSUME CsvFile, OfOurs
  PROVE  /\ written \in Shapes /\ written \in Seq(Nat \ {0}) /\ Len(written) \in {1, 2}
         /\ written # <<>> /\ written[1] \in Nat \ {0} /\ Csv!Length(written, 2) \in Nat \ {0}
         /\ Len(file.rows) = Csv!Length(written, 2)
         /\ \A r \in 1 .. Len(file.rows) :
               /\ file.rows[r] = [n \in 1 .. written[1] |-> (r - 1) * written[1] + n - 1]
               /\ file.rows[r] \in Seq(Int) /\ Len(file.rows[r]) = written[1]
<1>1. Len(written) \in {1, 2} /\ written # <<>>
  BY DEF OfOurs
<1>2. written \in Shapes /\ file.rows = Csv!Lines(written) /\ file.rows \in Seq(Seq(Int))
  BY <1>1 DEF CsvFile
<1>3. /\ written \in Seq(Nat \ {0}) /\ Csv!Length(written, 2) \in Nat \ {0}
      /\ written[1] \in Nat \ {0}
  BY <1>2, CsvConstants, LengthsAre
<1>4. /\ Len(file.rows) = Csv!Length(written, 2)
      /\ \A r \in 1 .. Len(file.rows) :
            file.rows[r] = [n \in 1 .. written[1] |-> (r - 1) * written[1] + n - 1]
  BY <1>1, <1>2, LinesAre
<1>5. ASSUME NEW r \in 1 .. Len(file.rows)
      PROVE  file.rows[r] \in Seq(Int) /\ Len(file.rows[r]) = written[1]
  <2>1. file.rows[r] \in Seq(Int)
    BY <1>2, ElementOfSeq
  <2>2. DOMAIN file.rows[r] = 1 .. written[1] /\ DOMAIN file.rows[r] = 1 .. Len(file.rows[r])
    BY <1>4, <2>1, LenProperties
  <2>3. Len(file.rows[r]) \in Nat
    BY <2>1, LenProperties
  <2> QED BY <1>3, <2>1, <2>2, <2>3
<1> QED BY <1>1, <1>2, <1>3, <1>4, <1>5

(* A header ends the first pass, and is the shape of the array that was    *)
(* written.                                                                *)
LEMMA CsvFirstLine ==
  ASSUME CsvInv, Csv!FirstLine PROVE CsvInv'
<1>1. /\ step = "count" /\ line = 0 /\ line' = 1
      /\ UNCHANGED <<ignoreHeader, file, written, x, y, refX, dbl, stored>>
      /\ CsvCount /\ CsvFile
  BY DEF CsvInv, Csv!FirstLine
<1>2. /\ NoSingle' = NoSingle /\ OfOurs' = OfOurs /\ CsvFile'
      /\ (\A k : Filled(k)' = Filled(k)) /\ \A k, c : Alike(k, c)' = Alike(k, c)
  BY <1>1, SameFile
<1>3. Len(file.rows) \in Nat /\ x = 0 /\ y = 0 /\ refX = -1 /\ stored = <<>> /\ ~foundHeader
  BY <1>1, LenProperties DEF CsvFile, CsvCount
<1>4. CASE /\ file.head \in {Csv!NoHeader, Csv!Comment} \/ ignoreHeader
           /\ UNCHANGED <<step, shape, foundHeader>>
  <2>1. written # <<>> => ignoreHeader
    <3>1. written # <<>> /\ ~ignoreHeader => FALSE
      <4> SUFFICES ASSUME written # <<>>, ~ignoreHeader PROVE FALSE
        OBVIOUS
      <4>1. written \in Shapes /\ file.head = Csv!Padded(written)
        BY <1>1 DEF CsvFile
      <4>2. DOMAIN Csv!Padded(written) = 1 .. 4 /\ 4 \in 1 .. 4
        BY DEF Csv!Padded
      <4>3. 4 \notin DOMAIN <<>> /\ 4 \notin DOMAIN <<-1>>
        OBVIOUS
      <4>4. file.head \in {<<>>, <<-1>>}
        BY <1>4 DEF Csv!NoHeader, Csv!Comment
      <4> QED BY <4>1, <4>2, <4>3, <4>4
    <3> QED BY <3>1
  <2>2. Filled(line - 1)' = 0 /\ Alike(line - 1, x)'
    <3>1. line' - 1 = 0
      BY <1>1
    <3>2. Filled(line' - 1) = 0
      BY <3>1, FilledNone
    <3>3. Filled(line - 1)' = Filled(line' - 1)
      BY <1>1 DEF Filled
    <3> QED BY <1>1, <1>2, <3>1, <3>2, <3>3 DEF Alike
  <2>3. OfOurs => 0 = IF written[1] > 1 THEN line' - 1 ELSE 0
    BY <1>1
  <2>4. CsvCount'
    BY <1>1, <1>2, <1>3, <1>4, <2>1, <2>2, <2>3 DEF CsvCount
  <2> QED BY <1>1, <1>2, <1>4, <2>4 DEF CsvInv
<1>5. CASE /\ ~(file.head \in {Csv!NoHeader, Csv!Comment} \/ ignoreHeader)
           /\ shape' = Csv!Dims4d(file.head) /\ foundHeader' = TRUE /\ step' = "store"
  <2>1. OfOurs => shape' = written /\ stored' = [n \in 1 .. (line' - 1) * written'[1] |-> n - 1]
    <3> SUFFICES ASSUME OfOurs
                 PROVE  shape' = written /\ stored' = [n \in 1 .. (line' - 1) * written'[1] |-> n - 1]
      OBVIOUS
    <3>1. /\ written \in Shapes /\ written # <<>> /\ written[1] \in Nat
          /\ Len(written) \in {1, 2}
      BY <1>1, OursIs
    <3>2. file.head = Csv!Padded(written)
      BY <1>1, <1>5, <3>1 DEF CsvFile
    <3>3. (line' - 1) * written'[1] = 0
      BY <1>1, <3>1
    <3> QED BY <1>1, <1>3, <1>5, <3>1, <3>2, <3>3, HeaderIs
  <2>2. IsSeq(stored)'
    BY <1>1, <1>3 DEF IsSeq
  <2>3. CsvStore'
    BY <1>1, <1>2, <1>3, <1>5, <2>1, <2>2 DEF CsvStore
  <2> QED BY <1>1, <1>2, <1>5, <2>3 DEF CsvInv
<1> QED BY <1>4, <1>5 DEF Csv!FirstLine

(* The variables of a call end with it. *)
LEMMA CsvNextCall ==
  ASSUME CsvInv, Csv!NextCall PROVE CsvInv'
BY DEF CsvInv, Csv!NextCall

(* The second pass ends behind the last line. *)
LEMMA CsvEndOfStore ==
  ASSUME CsvInv, Csv!EndOfStore PROVE CsvInv'
<1>1. /\ step = "store" /\ step' = "done" /\ line = Len(file.rows) + 1
      /\ UNCHANGED <<ignoreHeader, file, written, line, foundHeader, shape, stored>>
  BY DEF Csv!EndOfStore
<1>2. /\ NoSingle' = NoSingle /\ OfOurs' = OfOurs /\ CsvFile' = CsvFile
      /\ (\A k : Filled(k)' = Filled(k)) /\ \A k, c : Alike(k, c)' = Alike(k, c)
  BY <1>1, SameFile
<1>3. CsvStore'
  BY <1>1, <1>2 DEF CsvInv, CsvStore, IsSeq
<1> QED BY <1>1, <1>2, <1>3 DEF CsvInv

(* A line is counted, or refused because its columns vary; those of an     *)
(* array that was written do not.                                          *)
LEMMA CsvCountLine ==
  ASSUME CsvInv, Csv!CountLine PROVE CsvInv'
<1> DEFINE tokens == file.rows[line]
           n == Len(tokens)
<1>1. /\ step = "count" /\ line \in 1 .. Len(file.rows) /\ line' = line + 1
      /\ UNCHANGED <<ignoreHeader, file, written, foundHeader, shape, stored>>
      /\ CsvCount /\ CsvFile
  BY DEF CsvInv, Csv!CountLine
<1>2. /\ NoSingle' = NoSingle /\ OfOurs' = OfOurs /\ CsvFile'
      /\ (\A k : Filled(k)' = Filled(k)) /\ \A k, c : Alike(k, c)' = Alike(k, c)
  BY <1>1, SameFile
<1>3. /\ Len(file.rows) \in Nat /\ line \in Nat \ {0} /\ tokens \in Seq(Int) /\ n \in Nat
      /\ DOMAIN file.rows = 1 .. Len(file.rows) /\ (tokens # <<>> => n > 0)
  <2>1. Len(file.rows) \in Nat /\ DOMAIN file.rows = 1 .. Len(file.rows) /\ tokens \in Seq(Int)
    BY <1>1, LenProperties, ElementOfSeq DEF CsvFile
  <2> HIDE DEF tokens
  <2> QED BY <1>1, <2>1, EmptySeq, LenProperties
<1>4. /\ Filled(line) \in Nat /\ Filled(line - 1) \in Nat
      /\ Filled(line) = Filled(line - 1) + (IF tokens # <<>> THEN 1 ELSE 0)
  BY <1>3, FilledStep
<1>5. /\ x \in Nat /\ y \in Nat /\ refX \in Int /\ ~foundHeader /\ stored = <<>>
      /\ written # <<>> => ignoreHeader
      /\ NoSingle => /\ y = Filled(line - 1) /\ Alike(line - 1, x)
                     /\ refX = x \/ (refX = -1 /\ x = 0)
                     /\ y = 0 => x = 0
      /\ OfOurs => /\ refX \in {-1, written[1]}
                   /\ y = IF written[1] > 1 THEN line - 1 ELSE 0
  BY <1>1, <1>3 DEF CsvCount
<1>6. OfOurs => n = written[1] /\ tokens # <<>> /\ written[1] \in Nat \ {0}
  BY <1>1, OursIs, EmptySeq
<1>7. line' \in 1 .. Len(file'.rows) + 1 /\ line' - 1 = line /\ line' > 1
  BY <1>1, <1>3
<1>8. ASSUME UNCHANGED step, x' \in Nat, y' \in Nat, refX' \in Int,
             NoSingle => /\ y' = Filled(line) /\ Alike(line, x')
                         /\ refX' = x' \/ (refX' = -1 /\ x' = 0)
                         /\ y' = 0 => x' = 0,
             OfOurs => /\ refX' \in {-1, written[1]} /\ x' = written[1]
                       /\ y' = IF written[1] > 1 THEN line ELSE 0
      PROVE  CsvInv'
  <2>1. NoSingle' => y' = Filled(line - 1)' /\ Alike(line - 1, x)'
    BY <1>1, <1>2, <1>7, <1>8 DEF Filled, Alike
  <2>2. CsvCount'
    BY <1>1, <1>2, <1>5, <1>7, <1>8, <2>1 DEF CsvCount
  <2> QED BY <1>1, <1>2, <1>8, <2>2 DEF CsvInv
<1> HIDE DEF tokens, n
<1>9. CASE tokens = <<>> /\ UNCHANGED <<x, y, refX, step>>
  <2>1. NoSingle => y' = Filled(line) /\ Alike(line, x')
    <3>1. Filled(line) = Filled(line - 1)
      BY <1>4, <1>9
    <3>2. Alike(line - 1, x) => Alike(line, x)
      BY <1>3, <1>9 DEF Alike, tokens
    <3> QED BY <1>5, <1>9, <3>1, <3>2
  <2> QED BY <1>5, <1>6, <1>8, <1>9, <2>1
<1>10. CASE tokens # <<>> /\ x' = n /\ Csv!Varies(n) /\ step' = "failed" /\ UNCHANGED <<refX, y>>
  <2>1. ~OfOurs
    BY <1>5, <1>6, <1>10 DEF Csv!Varies
  <2> QED BY <1>1, <1>2, <1>10, <2>1 DEF CsvInv
<1>11. CASE /\ tokens # <<>> /\ x' = n /\ ~Csv!Varies(n) /\ UNCHANGED step
            /\ refX' = n /\ y' = IF n > 1 THEN y + 1 ELSE y
  <2>1. NoSingle => y' = Filled(line) /\ Alike(line, x') /\ y' # 0
    <3> SUFFICES ASSUME NoSingle PROVE y' = Filled(line) /\ Alike(line, x') /\ y' # 0
      OBVIOUS
    <3>1. n > 1
      <4>1. line \in DOMAIN file.rows
        BY <1>1, <1>3
      <4>2. n # 1
        BY <4>1 DEF NoSingle, tokens, n
      <4> QED BY <1>3, <1>11, <4>2
    <3>2. refX = -1 \/ refX = n
      BY <3>1, <1>11 DEF Csv!Varies
    <3>3. Alike(line, n)
      <4> SUFFICES ASSUME NEW k \in 1 .. line
                   PROVE  file.rows[k] = <<>> \/ Len(file.rows[k]) = n
        BY DEF Alike
      <4>1. CASE k = line
        BY <4>1 DEF n, tokens
      <4>2. CASE k # line
        <5>1. k \in 1 .. line - 1 /\ k \in 1 .. Len(file.rows)
          BY <1>1, <1>3, <4>2
        <5>2. file.rows[k] = <<>> \/ Len(file.rows[k]) = x
          BY <1>5, <5>1 DEF Alike
        <5>3. file.rows[k] \in Seq(Int)
          BY <1>1, <5>1, ElementOfSeq DEF CsvFile
        <5>4. Len(file.rows[k]) = 0 => file.rows[k] = <<>>
          BY <5>3, EmptySeq
        <5>5. x = n \/ x = 0
          BY <1>3, <1>5, <3>2
        <5> QED BY <5>2, <5>4, <5>5
      <4> QED BY <4>1, <4>2
    <3> QED BY <1>4, <1>5, <1>11, <3>1, <3>3
  <2>2. OfOurs => y' = IF written[1] > 1 THEN line ELSE 0
    BY <1>3, <1>5, <1>6, <1>11
  <2>3. x' \in Nat /\ y' \in Nat /\ refX' \in Int /\ refX' = x'
    BY <1>3, <1>5, <1>11
  <2> QED BY <1>6, <1>8, <1>11, <2>1, <2>2, <2>3
<1> QED BY <1>9, <1>10, <1>11 DEF Csv!CountLine, tokens, n

(* What the first pass has counted is the shape of the array that was      *)
(* written, and of any file the number of its values.                      *)
LEMMA CsvEndOfCount ==
  ASSUME CsvInv, Csv!EndOfCount PROVE CsvInv'
<1>1. /\ step = "count" /\ line = Len(file.rows) + 1 /\ line' = 1 /\ step' = "store"
      /\ shape' = Csv!Counted(x, y)
      /\ UNCHANGED <<ignoreHeader, file, written, foundHeader, stored>>
      /\ CsvCount /\ CsvFile
  BY DEF CsvInv, Csv!EndOfCount
<1>2. /\ NoSingle' = NoSingle /\ OfOurs' = OfOurs /\ CsvFile'
      /\ (\A k : Filled(k)' = Filled(k)) /\ \A k, c : Alike(k, c)' = Alike(k, c)
  BY <1>1, SameFile
<1>3. /\ Len(file.rows) \in Nat /\ line \in Nat \ {0} /\ line - 1 = Len(file.rows)
      /\ line' - 1 = 0 /\ line' \in 1 .. Len(file'.rows) + 1
  BY <1>1, LenProperties DEF CsvFile
<1>4. /\ x \in Nat /\ y \in Nat /\ ~foundHeader /\ stored = <<>>
      /\ written # <<>> => ignoreHeader
      /\ NoSingle => y = Filled(Len(file.rows)) /\ Alike(Len(file.rows), x) /\ (y = 0 => x = 0)
      /\ OfOurs => /\ line > 1 => x = written[1]
                   /\ y = IF written[1] > 1 THEN Len(file.rows) ELSE 0
  BY <1>1, <1>3 DEF CsvCount
<1>5. Csv!Count(Csv!Counted(x, y)) = IF y > 1 THEN x * y ELSE x
  <2>1. CASE y > 1
    <3>1. /\ Csv!Length(<<x, y>>, 1) = x /\ Csv!Length(<<x, y>>, 2) = y
          /\ Csv!Length(<<x, y>>, 3) = 1 /\ Csv!Length(<<x, y>>, 4) = 1
      BY DEF Csv!Length
    <3>2. x * y * 1 * 1 = x * y
      BY <1>4
    <3> QED BY <2>1, <3>1, <3>2 DEF Csv!Count, Csv!Counted
  <2>2. CASE ~(y > 1)
    <3>1. /\ Csv!Length(<<x>>, 1) = x /\ Csv!Length(<<x>>, 2) = 1
          /\ Csv!Length(<<x>>, 3) = 1 /\ Csv!Length(<<x>>, 4) = 1
      BY DEF Csv!Length
    <3>2. x * 1 * 1 * 1 = x
      BY <1>4
    <3> QED BY <2>2, <3>1, <3>2 DEF Csv!Count, Csv!Counted
  <2> QED BY <2>1, <2>2
<1>6. NoSingle => \E c \in Nat : /\ Csv!Count(shape') = c * Filled(Len(file.rows))
                                  /\ Alike(Len(file.rows), c)
                                  /\ Len(stored) = c * Filled(0)
  <2>1. NoSingle => Csv!Count(shape') = x * Filled(Len(file.rows))
    <3>1. CASE y > 1
      BY <1>1, <1>4, <1>5, <3>1
    <3>2. CASE y = 1
      BY <1>1, <1>4, <1>5, <3>2
    <3>3. CASE y = 0
      BY <1>1, <1>4, <1>5, <3>3
    <3> QED BY <1>4, <3>1, <3>2, <3>3
  <2>2. Len(stored) = x * Filled(0)
    BY <1>4, FilledNone
  <2> QED BY <1>4, <2>1, <2>2
<1>7. (NoSingle /\ ~foundHeader =>
         \E c \in Nat : /\ Csv!Count(shape) = c * Filled(Len(file.rows))
                        /\ Alike(Len(file.rows), c)
                        /\ Len(stored) = c * Filled(line - 1))'
  <2>1. Csv!Count(shape)' = Csv!Count(shape')
    BY DEF Csv!Count, Csv!Length
  <2>2. Filled(line - 1)' = Filled(0) /\ Filled(Len(file.rows))' = Filled(Len(file.rows))
    BY <1>1, <1>3 DEF Filled
  <2>3. \A c : Alike(Len(file.rows), c)' = Alike(Len(file.rows), c)
    BY <1>1 DEF Alike
  <2> QED BY <1>1, <1>2, <1>6, <2>1, <2>2, <2>3
<1>8. OfOurs => shape' = written
  <2> SUFFICES ASSUME OfOurs PROVE shape' = written
    OBVIOUS
  <2>1. /\ written \in Seq(Nat \ {0}) /\ Len(written) \in {1, 2} /\ written # <<>>
        /\ written[1] \in Nat \ {0} /\ Len(file.rows) = Csv!Length(written, 2)
        /\ Csv!Length(written, 2) \in Nat \ {0}
    BY <1>1, OursIs
  <2>2. x = written[1] /\ ignoreHeader
    BY <1>3, <1>4, <2>1
  <2>3. CASE Len(written) = 1
    <3>1. Csv!Length(written, 2) = 1
      BY <2>3 DEF Csv!Length
    <3>2. shape' = <<written[1]>>
      BY <1>1, <1>4, <2>1, <2>2, <3>1 DEF Csv!Counted
    <3> QED BY <2>1, <2>3, <3>2
  <2>4. CASE Len(written) = 2
    <3>1. Csv!Length(written, 2) = written[2]
      BY <2>4 DEF Csv!Length
    <3>2. written[1] > 1 /\ written[2] > 1
      BY <2>2, <2>4 DEF OfOurs, Csv!Tellable
    <3>3. shape' = <<written[1], written[2]>>
      BY <1>1, <1>4, <2>1, <2>2, <3>1, <3>2 DEF Csv!Counted
    <3> QED BY <2>1, <2>4, <3>3
  <2> QED BY <2>1, <2>3, <2>4
<1>9. OfOurs => stored' = [n \in 1 .. (line' - 1) * written'[1] |-> n - 1]
  <2>1. OfOurs => (line' - 1) * written'[1] = 0
    BY <1>1, <1>3, OursIs
  <2> QED BY <1>1, <1>4, <2>1
<1>10. IsSeq(stored)'
  BY <1>1, <1>4 DEF IsSeq
<1>11. CsvStore'
  BY <1>1, <1>2, <1>3, <1>7, <1>8, <1>9, <1>10 DEF CsvStore
<1> QED BY <1>1, <1>2, <1>11 DEF CsvInv

(* A line adds its values behind those of the lines before it. *)
LEMMA CsvStoreLine ==
  ASSUME CsvInv, Csv!StoreLine PROVE CsvInv'
<1> DEFINE tokens == file.rows[line]
           new == Csv!Numbers(dbl, tokens)
<1>1. /\ step = "store" /\ step' = "store" /\ line \in 1 .. Len(file.rows) /\ line' = line + 1
      /\ stored' = stored \o new
      /\ UNCHANGED <<ignoreHeader, file, written, foundHeader, shape>>
      /\ CsvStore /\ CsvFile
  BY DEF CsvInv, Csv!StoreLine
<1>2. /\ NoSingle' = NoSingle /\ OfOurs' = OfOurs /\ CsvFile'
      /\ (\A k : Filled(k)' = Filled(k)) /\ \A k, c : Alike(k, c)' = Alike(k, c)
  BY <1>1, SameFile
<1>3. /\ Len(file.rows) \in Nat /\ line \in Nat \ {0} /\ tokens \in Seq(Int)
      /\ Len(tokens) \in Nat
  <2>1. Len(file.rows) \in Nat /\ tokens \in Seq(Int)
    BY <1>1, LenProperties, ElementOfSeq DEF CsvFile
  <2> HIDE DEF tokens
  <2> QED BY <1>1, <2>1, LenProperties
<1>4. /\ Filled(line) \in Nat /\ Filled(line - 1) \in Nat
      /\ Filled(line) = Filled(line - 1) + (IF tokens # <<>> THEN 1 ELSE 0)
  BY <1>3, FilledStep
<1> HIDE DEF tokens
<1>5. /\ IsSeq(new) /\ Len(new) = Len(tokens)
      /\ (\A n \in 1 .. Len(tokens) : tokens[n] # -1) => new = tokens
  BY <1>3, NumbersAre
<1>6. line' \in 1 .. Len(file'.rows) + 1 /\ line' - 1 = line
  BY <1>1, <1>3
<1> HIDE DEF new
<1>7. IsSeq(stored) /\ IsSeq(stored \o new) /\ Len(stored \o new) = Len(stored) + Len(tokens)
      /\ \A n \in 1 .. Len(stored) + Len(tokens) :
            (stored \o new)[n] = IF n <= Len(stored) THEN stored[n] ELSE new[n - Len(stored)]
  <2>1. IsSeq(stored)
    BY <1>1 DEF CsvStore
  <2> QED BY <1>5, <2>1, Concatenated
<1>8. NoSingle /\ ~foundHeader =>
        \E c \in Nat : /\ Csv!Count(shape) = c * Filled(Len(file.rows))
                       /\ Alike(Len(file.rows), c)
                       /\ Len(stored') = c * Filled(line)
  <2> SUFFICES ASSUME NoSingle, ~foundHeader
               PROVE  \E c \in Nat : /\ Csv!Count(shape) = c * Filled(Len(file.rows))
                                     /\ Alike(Len(file.rows), c)
                                     /\ Len(stored') = c * Filled(line)
    OBVIOUS
  <2>1. PICK c \in Nat : /\ Csv!Count(shape) = c * Filled(Len(file.rows))
                         /\ Alike(Len(file.rows), c)
                         /\ Len(stored) = c * Filled(line - 1)
    BY <1>1 DEF CsvStore
  <2>2. CASE tokens = <<>>
    <3>1. Filled(line) = Filled(line - 1) /\ Len(tokens) = 0 /\ Len(stored) \in Nat
      BY <1>4, <2>1, <2>2
    <3> QED BY <1>1, <1>7, <2>1, <3>1
  <2>3. CASE tokens # <<>>
    <3>1. Len(tokens) = c /\ Filled(line) = Filled(line - 1) + 1
      BY <1>1, <1>4, <2>1, <2>3 DEF Alike, tokens
    <3>2. c * (Filled(line - 1) + 1) = c * Filled(line - 1) + c
      BY <1>4
    <3> QED BY <1>1, <1>7, <2>1, <3>1, <3>2
  <2> QED BY <2>2, <2>3
<1>9. (NoSingle /\ ~foundHeader =>
         \E c \in Nat : /\ Csv!Count(shape) = c * Filled(Len(file.rows))
                        /\ Alike(Len(file.rows), c)
                        /\ Len(stored) = c * Filled(line - 1))'
  <2>1. Csv!Count(shape)' = Csv!Count(shape)
    BY <1>1 DEF Csv!Count, Csv!Length
  <2>2. Filled(line - 1)' = Filled(line) /\ Filled(Len(file.rows))' = Filled(Len(file.rows))
    BY <1>1, <1>6 DEF Filled
  <2>3. \A c : Alike(Len(file.rows), c)' = Alike(Len(file.rows), c)
    BY <1>1 DEF Alike
  <2> QED BY <1>1, <1>2, <1>8, <2>1, <2>2, <2>3
<1>10. OfOurs => stored' = [n \in 1 .. (line' - 1) * written'[1] |-> n - 1]
  <2> SUFFICES ASSUME OfOurs
               PROVE  stored \o new = [n \in 1 .. line * written[1] |-> n - 1]
    BY <1>1, <1>6
  <2> DEFINE W == written[1]
             done == (line - 1) * W
  <2>1. /\ W \in Nat \ {0} /\ tokens = [n \in 1 .. W |-> done + n - 1] /\ Len(tokens) = W
    BY <1>1, OursIs DEF tokens
  <2>2. stored = [n \in 1 .. done |-> n - 1]
    BY <1>1 DEF CsvStore
  <2> HIDE DEF W
  <2>3. done \in Nat /\ line * W = done + W
    BY <1>3, <2>1
  <2> HIDE DEF done
  <2>4. Len(stored) = done
    BY <2>2, <2>3
  <2>5. \A n \in 1 .. Len(tokens) : tokens[n] # -1
    BY <2>1, <2>3
  <2>6. new = tokens
    BY <1>5, <2>5
  <2>7. /\ Len(stored \o new) = done + W
        /\ \A n \in 1 .. done + W : (stored \o new)[n] = n - 1
    <3>1. Len(stored \o new) = done + W
      BY <1>7, <2>1, <2>4
    <3>2. ASSUME NEW n \in 1 .. done + W PROVE (stored \o new)[n] = n - 1
      <4>1. (stored \o new)[n] = IF n <= done THEN stored[n] ELSE tokens[n - done]
        BY <1>7, <2>1, <2>4, <2>6, <3>2
      <4>2. CASE n <= done
        BY <2>1, <2>2, <2>3, <3>2, <4>1, <4>2
      <4>3. CASE ~(n <= done)
        <5>1. n - done \in 1 .. W /\ done + (n - done) - 1 = n - 1
          BY <2>1, <2>3, <3>2, <4>3
        <5> QED BY <2>1, <4>1, <4>3, <5>1
      <4> QED BY <4>2, <4>3
    <3> QED BY <3>1, <3>2
  <2>8. stored \o new = [n \in 1 .. done + W |-> (stored \o new)[n]]
    BY <1>7, <2>7, LenProperties DEF IsSeq
  <2>9. stored \o new = [n \in 1 .. done + W |-> n - 1]
    BY <2>7, <2>8
  <2>10. line * written[1] = done + W
    BY <2>3 DEF W
  <2> QED BY <2>9, <2>10
<1>11. IsSeq(stored)'
  BY <1>1, <1>7 DEF IsSeq
<1>12. OfOurs => shape' = written
  BY <1>1 DEF CsvStore
<1>13. CsvStore'
  BY <1>1, <1>2, <1>6, <1>9, <1>10, <1>11, <1>12 DEF CsvStore
<1> QED BY <1>1, <1>2, <1>13 DEF CsvInv

(* Every step of the plugin, and every step of another program, keeps the  *)
(* invariant.                                                              *)
LEMMA CsvStep ==
  ASSUME CsvInv, Csv!Next \/ UNCHANGED csvVars PROVE CsvInv'
BY CsvUnchanged, CsvOpen, CsvFirstLine, CsvCountLine, CsvEndOfCount, CsvStoreLine, CsvEndOfStore,
   CsvNextCall DEF Csv!Next

(* At the end of both passes the invariant says that the array is back. *)
LEMMA CsvRight == CsvInv => ReadAsWritten
<1> SUFFICES ASSUME CsvInv PROVE Csv!WrittenIsRead /\ Csv!PassesAgree
  BY DEF ReadAsWritten, Csv!ReadAsWritten
<1>1. Csv!WrittenIsRead
  <2> SUFFICES ASSUME step \in {"done", "failed"}, OfOurs PROVE step = "done" /\ Csv!Restored
    BY DEF Csv!WrittenIsRead, OfOurs
  <2>1. step = "done" /\ CsvStore /\ CsvFile /\ line = Len(file.rows) + 1
    BY DEF CsvInv
  <2>2. /\ written[1] \in Nat \ {0} /\ Len(file.rows) = Csv!Length(written, 2)
        /\ Csv!Length(written, 2) \in Nat /\ Len(written) \in {1, 2}
        /\ written \in Seq(Nat \ {0}) /\ Len(written) \in 1 .. 4
    BY <2>1, OursIs, CsvConstants
  <2>3. /\ Csv!Length(written, 3) = 1 /\ Csv!Length(written, 4) = 1
        /\ Csv!Length(written, 1) = written[1]
    BY <2>2 DEF Csv!Length
  <2>4. (line - 1) * written[1] = Csv!Count(written)
    BY <2>1, <2>2, <2>3 DEF Csv!Count
  <2>5. shape = written /\ stored = [n \in 1 .. (line - 1) * written[1] |-> n - 1]
    BY <2>1 DEF CsvStore
  <2> QED BY <2>1, <2>4, <2>5 DEF Csv!Restored
<1>2. Csv!PassesAgree
  <2> SUFFICES ASSUME step = "done", ~foundHeader, NoSingle
               PROVE  Csv!Count(shape) = Len(stored)
    BY DEF Csv!PassesAgree, NoSingle
  <2>1. CsvStore /\ CsvFile /\ line = Len(file.rows) + 1
    BY DEF CsvInv
  <2>2. line - 1 = Len(file.rows)
    BY <2>1, LenProperties DEF CsvFile
  <2> QED BY <2>1, <2>2 DEF CsvStore
<1> QED BY <1>1, <1>2

(* Every array of one or two dimensions that is written is read as it was, *)
(* with a header always and without one as far as counting can tell; and   *)
(* for files of others the shape the first pass counts holds exactly the   *)
(* values the second one stores (readData and writeData, file-csv.c).      *)
THEOREM WrittenRead == Spec => []ReadAsWritten
<1>1. Init => CsvInv
  BY CsvInit DEF Init
<1>2. CsvInv /\ [Next]_vars => CsvInv'
  <2>1. [Next]_vars => Csv!Next \/ UNCHANGED csvVars
    BY DEF Next, vars
  <2> QED BY <2>1, CsvStep
<1> QED BY <1>1, <1>2, CsvRight, PTL DEF Spec

-----------------------------------------------------------------------------
(* scil-compress (ScilTool) *)

(* What the files of the tool are *)
FileType ==
    [format : {"csv", "bin", "nc"}, data : Seq(Tool!Deeds), size : Int, len : Nat,
     array : {0, ArraySize}, meant : Seq(Tool!Deeds)]

(* A file is what it is meant to be, unless it was cut off. *)
FileInv(f) ==
    /\ f \in FileType
    /\ Tool!IsArray(f) => f.data = f.meant
    /\ Tool!IsPacked(f) /\ f.len > 0 => f.data = f.meant

(* What was read of a file of the format it is taken for *)
WasRead ==
    /\ input \in [data : Seq(Tool!Deeds), len : Nat] /\ array \in {0, ArraySize}
    /\ readSize \in Int
    /\ Tool!File.format = opt.inFormat =>
        \/ Tool!File.format = "nc" /\ array = 0
        \/ /\ input.data = Tool!File.data /\ array = Tool!File.array
           /\ \/ input.len = Tool!File.len /\ readSize = Tool!File.size /\ input.len > 0
              \/ input.len = Tool!Limit(array) /\ Tool!File.format # "bin"

(* What there is to write *)
WasProcessed ==
    /\ output \in [data : Seq(Tool!Deeds), len : Nat] /\ binary \in BOOLEAN
    /\ binary => /\ output.len = buffSize /\ output.data # <<>>
                 /\ ~opt.cycle /\ opt.compress
    /\ ~binary => /\ output.len = array
                  /\ \/ /\ ~opt.cycle /\ ~opt.compress /\ opt.decompress
                        /\ Tool!Understood(input, readSize, array) =>
                              output.data = Tool!Front(input.data)
                     \/ /\ opt.cycle \/ Tool!WithoutMode
                        /\ array # 0 /\ input.len >= array => output.data = input.data

(* The inductive invariant of the runs: it relates every file to the run   *)
(* that wrote it and the variables of a run to the file it reads.          *)
ToolInv ==
    /\ files \in Seq(FileType)
    /\ \A n \in DOMAIN files : FileInv(files[n])
    /\ phase \in {"idle", "read", "context", "process", "write"}
    /\ phase # "idle" => opt.in \in DOMAIN files /\ opt.inFormat \in {"csv", "bin", "nc"}
    /\ phase \in {"context", "process", "write"} => WasRead
    /\ phase = "write" => WasProcessed

(* What is assumed of the sizes, the options and the files that are given *)
LEMMA ToolConstants ==
  /\ ArraySize \in Nat \ {0}
  /\ PackedSizes \subseteq Nat \ {0}
  /\ \A o \in ToolOptions : o.inFormat \in {"csv", "bin", "nc"}
  /\ Given \in Seq(FileType)
  /\ \A n \in DOMAIN Given : Given[n].data = Given[n].meant
BY ProgramsAssumption DEF ProgramsAssumption, Tool!ToolAssumption, FileType

(* The files that are given are what they are meant to be. *)
LEMMA ToolInit == Tool!Init => ToolInv
<1> SUFFICES ASSUME Tool!Init PROVE ToolInv
  OBVIOUS
<1>1. files = Given /\ phase = "idle"
  BY DEF Tool!Init
<1>2. DOMAIN files = 1 .. Len(files) /\ Len(files) \in Nat
  BY <1>1, ToolConstants, LenProperties
<1>3. ASSUME NEW n \in DOMAIN files PROVE FileInv(files[n])
  <2>1. files[n] \in FileType
    BY <1>1, <1>2, ToolConstants, ElementOfSeq
  <2> QED BY <1>1, <2>1, ToolConstants DEF FileInv
<1> QED BY <1>1, <1>3, ToolConstants DEF ToolInv

(* What was appended last is taken off. *)
LEMMA Ends ==
  ASSUME NEW d \in Seq(Tool!Deeds), NEW s \in Tool!Deeds
  PROVE  /\ Append(d, s) \in Seq(Tool!Deeds) /\ Append(d, s) # <<>>
         /\ Tool!Last(Append(d, s)) = s /\ Tool!Front(Append(d, s)) = d
<1>1. Append(d, s) \in Seq(Tool!Deeds) /\ Len(Append(d, s)) = Len(d) + 1 /\ Len(d) \in Nat
  BY AppendProperties, LenProperties
<1>2. Append(d, s)[Len(d) + 1] = s
  BY AppendProperties
<1>3. SubSeq(Append(d, s), 1, Len(d)) = d
  <2> DEFINE t == SubSeq(Append(d, s), 1, Len(d))
  <2>1. \A n \in 1 .. Len(d) : Append(d, s)[n] = d[n] /\ d[n] \in Tool!Deeds
    BY AppendProperties, ElementOfSeq
  <2>2. t \in Seq(Tool!Deeds) /\ Len(t) = Len(d) /\ \A n \in 1 .. Len(d) : t[n] = Append(d, s)[n]
    BY <1>1, <2>1, SubSeqProperties
  <2> HIDE DEF t
  <2> QED BY <2>1, <2>2, SeqEqual
<1>4. Append(d, s) # <<>>
  BY AppendProperties
<1>5. Tool!Last(Append(d, s)) = s
  BY <1>1, <1>2 DEF Tool!Last
<1>6. Tool!Front(Append(d, s)) = d
  BY <1>1, <1>3 DEF Tool!Front
<1> QED BY <1>1, <1>4, <1>5, <1>6

(* The marks of data that is no array and no compression *)
LEMMA ToolData ==
  /\ Tool!Garbage \in Seq(Tool!Deeds) /\ Tool!Garbage # <<>> /\ Tool!Last(Tool!Garbage) = "garbage"
  /\ Tool!Empty \in Seq(Tool!Deeds) /\ Tool!Empty # <<>> /\ Tool!Last(Tool!Empty) = "empty"
  /\ Tool!Nothing \in [data : Seq(Tool!Deeds), len : Nat]
<1>1. ASSUME NEW s \in Tool!Deeds
      PROVE  <<s>> \in Seq(Tool!Deeds) /\ <<s>> # <<>> /\ Tool!Last(<<s>>) = s
  <2>1. <<s>> \in [1 .. 1 -> Tool!Deeds]
    OBVIOUS
  <2> QED BY <2>1, SeqDef DEF Tool!Last
<1>2. "garbage" \in Tool!Deeds /\ "empty" \in Tool!Deeds
  BY DEF Tool!Deeds
<1> QED BY <1>1, <1>2 DEF Tool!Garbage, Tool!Empty, Tool!Nothing

(* What the compression of data is *)
LEMMA CompressedIs ==
  ASSUME NEW d \in [data : Seq(Tool!Deeds), len : Nat], NEW n \in {0, ArraySize},
         NEW result \in Tool!Compressed(d, n)
  PROVE  /\ result \in [data : Seq(Tool!Deeds), len : Nat] /\ result.data # <<>>
         /\ result.data \notin {Tool!Garbage, Tool!Empty} =>
                n # 0 /\ d.len >= n /\ result.data = Append(d.data, "packed")
         /\ n # 0 /\ d.len >= n => result.data = Append(d.data, "packed")
<1>1. CASE n = 0
  BY <1>1, ToolData DEF Tool!Compressed
<1>2. CASE n # 0
  <2>1. PICK l \in PackedSizes : result = [data |-> IF d.len >= n THEN Append(d.data, "packed")
                                                  ELSE Tool!Garbage, len |-> l]
    BY <1>2 DEF Tool!Compressed
  <2>2. d.data \in Seq(Tool!Deeds) /\ l \in Nat
    BY ToolConstants
  <2>3. CASE d.len >= n
    <3>1. Append(d.data, "packed") \in Seq(Tool!Deeds) /\ Append(d.data, "packed") # <<>>
      BY <2>2, Ends DEF Tool!Deeds
    <3>2. result = [data |-> Append(d.data, "packed"), len |-> l]
      BY <2>1, <2>3
    <3> QED BY <1>2, <2>2, <2>3, <3>1, <3>2
  <2>4. CASE ~(d.len >= n)
    BY <1>2, <2>1, <2>2, <2>4, ToolData
  <2> QED BY <2>3, <2>4
<1> QED BY <1>1, <1>2

(* Steps of the other programs leave the tool as it is. *)
LEMMA ToolUnchanged ==
  ASSUME ToolInv, UNCHANGED toolVars PROVE ToolInv'
<1>1. UNCHANGED <<files, phase, opt, input, readSize, array, output, binary, buffSize>>
  BY DEF toolVars
<1>2. Tool!File' = Tool!File
  BY <1>1 DEF Tool!File
<1>3. WasRead => WasRead'
  BY <1>1, <1>2 DEF WasRead
<1>4. WasProcessed => WasProcessed'
  BY <1>1 DEF WasProcessed, Tool!Understood, Tool!WithoutMode
<1> QED BY <1>1, <1>3, <1>4 DEF ToolInv

(* A run that ends without a file *)
LEMMA RunEnds ==
  ASSUME ToolInv, phase' = "idle", UNCHANGED files PROVE ToolInv'
BY DEF ToolInv

(* A run begins with a file that is there. *)
LEMMA ToolStart ==
  ASSUME ToolInv, NEW o \in ToolOptions, Tool!Start(o) PROVE ToolInv'
<1>1. UNCHANGED files /\ opt' = o /\ phase' = "read" /\ o.in \in DOMAIN files
  BY DEF Tool!Start
<1> QED BY <1>1, ToolConstants DEF ToolInv

(* The plugins read the file and its size, or end the run. *)
LEMMA ToolReads ==
  ASSUME ToolInv, Tool!ReadBin \/ Tool!ReadCsv \/ Tool!ReadNetcdf \/ Tool!ReadOther PROVE ToolInv'
<1> DEFINE f == Tool!File
<1>1. phase = "read" /\ FileInv(f)
  BY DEF ToolInv, Tool!ReadBin, Tool!ReadCsv, Tool!ReadNetcdf, Tool!ReadOther, Tool!File
<1>2. /\ f.format \in {"csv", "bin", "nc"} /\ f.data \in Seq(Tool!Deeds) /\ f.size \in Int
      /\ f.len \in Nat /\ f.array \in {0, ArraySize} /\ Tool!Limit(f.array) \in Nat
      /\ ArraySize \in Nat
  BY <1>1, ToolConstants DEF FileInv, FileType, Tool!Limit
<1>3. ASSUME NEW d, NEW size, NEW n, Tool!Read(d, size, n),
             d \in [data : Seq(Tool!Deeds), len : Nat], size \in Int, n \in {0, ArraySize},
             f.format = opt.inFormat =>
                \/ f.format = "nc" /\ n = 0
                \/ /\ d.data = f.data /\ n = f.array
                   /\ \/ d.len = f.len /\ size = f.size /\ d.len > 0
                      \/ d.len = Tool!Limit(n) /\ f.format # "bin"
      PROVE  ToolInv'
  <2>1. /\ UNCHANGED <<files, opt>> /\ phase' = "context"
        /\ input' = d /\ readSize' = size /\ array' = n
    BY <1>3 DEF Tool!Read
  <2>2. Tool!File' = f
    BY <2>1 DEF Tool!File
  <2>3. WasRead'
    BY <1>3, <2>1, <2>2 DEF WasRead, Tool!Limit
  <2> QED BY <1>1, <2>1, <2>3 DEF ToolInv
<1>4. ASSUME Tool!ReadFails PROVE ToolInv'
  BY <1>4, RunEnds DEF Tool!ReadFails, Tool!Exit
<1> HIDE DEF f
<1>5. CASE Tool!ReadBin
  <2>1. CASE Tool!ReadFails
    BY <2>1, <1>4
  <2>2. CASE f.len > 0 /\ Tool!Read([data |-> f.data, len |-> f.len], f.size, f.array)
    BY <1>2, <1>3, <2>2
  <2> QED BY <1>5, <2>1, <2>2 DEF Tool!ReadBin, f
<1>6. CASE Tool!ReadCsv
  <2>1. f.format = "csv" /\ Tool!Read([data |-> f.data, len |-> Tool!Limit(f.array)], -1, f.array)
    BY <1>6 DEF Tool!ReadCsv, f, Tool!Unset
  <2> QED BY <1>2, <1>3, <2>1
<1>7. CASE Tool!ReadNetcdf
  <2>1. f.format = "nc"
    BY <1>7 DEF Tool!ReadNetcdf, f
  <2>2. CASE Tool!Read([data |-> f.data, len |-> Tool!Limit(f.array)], f.array, f.array)
    BY <1>2, <1>3, <2>1, <2>2
  <2>3. CASE Tool!Read(Tool!Nothing, 0, 0)
    BY <1>2, <1>3, <2>1, <2>3, ToolData
  <2> QED BY <1>7, <2>2, <2>3 DEF Tool!ReadNetcdf, f
<1>8. CASE Tool!ReadOther
  <2>1. f.format # opt.inFormat
        /\ Tool!Read([data |-> Tool!Garbage, len |-> ArraySize], ArraySize, ArraySize)
    BY <1>8 DEF Tool!ReadOther, f
  <2>2. /\ [data |-> Tool!Garbage, len |-> ArraySize] \in [data : Seq(Tool!Deeds), len : Nat]
        /\ ArraySize \in Int /\ ArraySize \in {0, ArraySize}
    BY <1>2, ToolData
  <2> HIDE DEF Tool!Read
  <2> QED BY <1>3, <2>1, <2>2
<1> QED BY <1>5, <1>6, <1>7, <1>8

(* Creating the context leaves what was read. *)
LEMMA ToolContext ==
  ASSUME ToolInv, Tool!CreateContext PROVE ToolInv'
<1>1. /\ phase = "context" /\ phase' = "process"
      /\ UNCHANGED <<files, opt, input, readSize, array>>
  BY DEF Tool!CreateContext
<1>2. Tool!File' = Tool!File
  BY <1>1 DEF Tool!File
<1>3. WasRead'
  BY <1>1, <1>2 DEF ToolInv, WasRead
<1> QED BY <1>1, <1>3 DEF ToolInv

(* The three modes: what there is to write comes from what was read. *)
LEMMA ToolProcesses ==
  ASSUME ToolInv, Tool!Cycle \/ Tool!Compress \/ Tool!Uncompress PROVE ToolInv'
<1>1. /\ phase = "process" /\ phase' = "write"
      /\ UNCHANGED <<files, opt, input, readSize, array>>
  BY DEF Tool!Cycle, Tool!Compress, Tool!Uncompress
<1>2. Tool!File' = Tool!File /\ Tool!WithoutMode' = Tool!WithoutMode
  BY <1>1 DEF Tool!File, Tool!WithoutMode
<1>3. WasRead /\ WasRead'
  BY <1>1, <1>2 DEF ToolInv, WasRead
<1>4. /\ input \in [data : Seq(Tool!Deeds), len : Nat] /\ array \in {0, ArraySize}
      /\ array \in Nat /\ input.data \in Seq(Tool!Deeds)
  BY <1>3, ToolConstants DEF WasRead
<1>5. CASE Tool!Cycle
  <2>1. PICK result \in Tool!Compressed(input, array) :
          output' = IF result.data \in {Tool!Garbage, Tool!Empty}
                    THEN [data |-> Tool!Garbage, len |-> array]
                    ELSE Tool!Decompressed(result, array)
    BY <1>5 DEF Tool!Cycle
  <2>2. (opt.cycle \/ Tool!WithoutMode) /\ binary' = FALSE
    BY <1>5 DEF Tool!Cycle
  <2>3. CASE result.data \in {Tool!Garbage, Tool!Empty}
    <3>1. output' = [data |-> Tool!Garbage, len |-> array]
      BY <2>1, <2>3
    <3>2. ~(array # 0 /\ input.len >= array)
      <4>1. Append(input.data, "packed") \notin {Tool!Garbage, Tool!Empty}
        <5>1. Tool!Last(Append(input.data, "packed")) = "packed"
          BY <1>4, Ends DEF Tool!Deeds
        <5> QED BY <5>1, ToolData
      <4> QED BY <1>4, <2>1, <2>3, <4>1, CompressedIs
    <3>3. output' \in [data : Seq(Tool!Deeds), len : Nat] /\ output'.len = array
      BY <1>4, <3>1, ToolData
    <3>4. WasProcessed'
      BY <1>1, <1>2, <2>2, <3>2, <3>3 DEF WasProcessed
    <3> QED BY <1>1, <1>3, <3>4 DEF ToolInv
  <2>4. CASE result.data \notin {Tool!Garbage, Tool!Empty}
    <3>1. result.data = Append(input.data, "packed")
      BY <1>4, <2>1, <2>4, CompressedIs
    <3>2. output' = [data |-> input.data, len |-> array]
      BY <1>4, <2>1, <2>4, <3>1, Ends DEF Tool!Decompressed, Tool!Deeds
    <3>3. WasProcessed'
      BY <1>1, <1>2, <1>4, <2>2, <3>2 DEF WasProcessed
    <3> QED BY <1>1, <1>3, <3>3 DEF ToolInv
  <2> QED BY <2>3, <2>4
<1>6. CASE Tool!Compress
  <2>1. /\ output' \in Tool!Compressed(input, array) /\ buffSize' = output'.len /\ binary' = TRUE
        /\ ~opt.cycle /\ opt.compress
    BY <1>6 DEF Tool!Compress
  <2>2. output' \in [data : Seq(Tool!Deeds), len : Nat] /\ output'.data # <<>>
    BY <1>4, <2>1, CompressedIs
  <2>3. WasProcessed'
    BY <1>1, <2>1, <2>2 DEF WasProcessed
  <2> QED BY <1>1, <1>3, <2>3 DEF ToolInv
<1>7. CASE Tool!Uncompress
  <2>1. /\ ~opt.cycle /\ ~opt.compress /\ opt.decompress /\ binary' = FALSE
        /\ output' = IF Tool!Understood(input, readSize, array)
                     THEN Tool!Decompressed(input, array)
                     ELSE [data |-> Tool!Garbage, len |-> array]
    BY <1>7 DEF Tool!Uncompress
  <2>2. /\ output' \in [data : Seq(Tool!Deeds), len : Nat] /\ output'.len = array
        /\ Tool!Understood(input, readSize, array) => output'.data = Tool!Front(input.data)
    <3>1. CASE Tool!Understood(input, readSize, array)
      <4>1. input.data # <<>>
        BY <3>1 DEF Tool!Understood
      <4>2. Tool!Front(input.data) \in Seq(Tool!Deeds)
        <5>1. PICK d \in Seq(Tool!Deeds), s \in Tool!Deeds : input.data = Append(d, s)
          BY <1>4, <4>1, SequenceEmptyOrAppend
        <5> QED BY <5>1, Ends
      <4>3. output' = [data |-> Tool!Front(input.data), len |-> array]
        BY <2>1, <3>1 DEF Tool!Decompressed
      <4> QED BY <1>4, <4>2, <4>3
    <3>2. CASE ~Tool!Understood(input, readSize, array)
      BY <1>4, <2>1, <3>2, ToolData
    <3> QED BY <3>1, <3>2
  <2>3. Tool!Understood(input, readSize, array)' = Tool!Understood(input, readSize, array)
    BY <1>1 DEF Tool!Understood
  <2>4. WasProcessed'
    BY <1>1, <2>1, <2>2, <2>3 DEF WasProcessed
  <2> QED BY <1>1, <1>3, <2>4 DEF ToolInv
<1> QED BY <1>5, <1>6, <1>7

(* A residual is never empty, so that it is not taken for an array. *)
LEMMA WrittenIs ==
  ASSUME WasRead, WasProcessed
  PROVE  /\ Tool!Written.data \in Seq(Tool!Deeds)
         /\ binary => Tool!Written.data # <<>>
         /\ ~opt.residual => Tool!Written.data = output.data
<1> DEFINE res == Tool!Residual(input)
<1>1. output \in [data : Seq(Tool!Deeds), len : Nat] /\ input.data \in Seq(Tool!Deeds)
  BY DEF WasRead, WasProcessed
<1>2. res \in Seq(Tool!Deeds) /\ res # <<>>
  BY <1>1, ToolData, Ends DEF Tool!Residual, Tool!Deeds
<1>3. Tool!Written.data = res \/ Tool!Written.data = output.data
  <2> HIDE DEF res
  <2>1. [output EXCEPT !.data = res].data = res
    BY <1>1
  <2> QED BY <2>1 DEF Tool!Written, res
<1>4. ~opt.residual => Tool!Written.data = output.data
  BY DEF Tool!Written
<1> QED BY <1>1, <1>2, <1>3, <1>4 DEF WasProcessed

(* A file is written whole, or its length shows that it is not. *)
NewIs(f) ==
    /\ f \in FileType
    /\ f.meant = Tool!Written.data /\ f.array = array
    /\ f.format = "bin" /\ f.len = f.size /\ f.len > 0 => f.data = f.meant
    /\ ~binary => /\ f.len \in {0, 1, array}
                  /\ f.len = array /\ f.len > 0 => f.data = f.meant

(* Each of the writers leaves a file that is whole or shows that it is     *)
(* not, or none.                                                           *)
LEMMA ToolWrites ==
  ASSUME ToolInv, Tool!Write
  PROVE  phase' = "idle" /\ (UNCHANGED files \/ \E f : files' = Append(files, f) /\ NewIs(f))
<1>1. WasRead /\ WasProcessed
  BY DEF ToolInv, Tool!Write
<1>2. /\ Tool!Written.data \in Seq(Tool!Deeds) /\ array \in {0, ArraySize} /\ array \in Nat
      /\ Tool!Garbage \in Seq(Tool!Deeds) /\ Tool!BinSize \in Nat /\ output.len = Tool!BinSize
      /\ ~binary => Tool!BinSize = array
      /\ binary \in BOOLEAN
  BY <1>1, WrittenIs, ToolData, ToolConstants DEF WasRead, WasProcessed, Tool!BinSize
<1>3. ASSUME NEW fmt \in {"csv", "bin", "nc"}, NEW d \in Seq(Tool!Deeds), NEW size \in Int,
             NEW len \in Nat, Tool!NewFile(fmt, d, size, len),
             fmt = "bin" /\ len = size /\ len > 0 => d = Tool!Written.data,
             ~binary => /\ len \in {0, 1, array}
                        /\ len = array /\ len > 0 => d = Tool!Written.data
      PROVE  \E f : files' = Append(files, f) /\ NewIs(f)
  <2> DEFINE f == [format |-> fmt, data |-> d, size |-> size, len |-> len, array |-> array,
                   meant |-> Tool!Written.data]
  <2>1. files' = Append(files, f)
    BY <1>3 DEF Tool!NewFile
  <2>2. NewIs(f)
    BY <1>2, <1>3 DEF NewIs, FileType
  <2> QED BY <2>1, <2>2
<1>4. phase' = "idle"
  BY DEF Tool!Write, Tool!WriteBin, Tool!WriteCsv, Tool!WriteNetcdf, Tool!Exit
<1>5. CASE Tool!WriteBin
  <2>1. CASE \E len \in {1, Tool!BinSize} :
               Tool!NewFile("bin", IF len = output.len THEN Tool!Written.data ELSE Tool!Garbage,
                            Tool!BinSize, len)
    <3>1. PICK len \in {1, Tool!BinSize} :
            Tool!NewFile("bin", IF len = output.len THEN Tool!Written.data ELSE Tool!Garbage,
                         Tool!BinSize, len)
      BY <2>1
    <3>2. CASE len = output.len
      <4>1. Tool!NewFile("bin", Tool!Written.data, Tool!BinSize, len)
        BY <3>1, <3>2
      <4> QED BY <1>2, <1>3, <1>4, <3>2, <4>1
    <3>3. CASE len # output.len
      <4>1. Tool!NewFile("bin", Tool!Garbage, Tool!BinSize, len)
        BY <3>1, <3>3
      <4> QED BY <1>2, <1>3, <1>4, <3>1, <3>3, <4>1
    <3> QED BY <3>2, <3>3
  <2>2. CASE Tool!NewFile("bin", Tool!Garbage, Tool!BinSize, 0)
    <3>1. PICK len \in {0} : Tool!NewFile("bin", Tool!Garbage, Tool!BinSize, len)
      BY <2>2
    <3> QED BY <1>2, <1>3, <1>4, <3>1
  <2> QED BY <1>5, <2>1, <2>2 DEF Tool!WriteBin
<1>6. CASE Tool!WriteCsv
  <2>1. CASE binary
    <3>1. Tool!NewFile("csv", Tool!Garbage, -1, 0)
      BY <1>6, <2>1 DEF Tool!WriteCsv, Tool!Unset
    <3> QED BY <1>2, <1>3, <1>4, <2>1, <3>1
  <2>2. CASE ~binary
    <3>1. Tool!NewFile("csv", Tool!Written.data, -1, array)
      BY <1>6, <2>2 DEF Tool!WriteCsv, Tool!Unset
    <3> QED BY <1>2, <1>3, <1>4, <2>2, <3>1
  <2> QED BY <2>1, <2>2
<1>7. CASE Tool!WriteNetcdf
  <2>1. CASE Tool!NewFile("nc", Tool!Written.data, -1, array)
    BY <1>2, <1>3, <1>4, <2>1
  <2>2. CASE Tool!NewFile("nc", Tool!Garbage, -1, 0)
    <3>1. PICK len \in {0} : Tool!NewFile("nc", Tool!Garbage, -1, len)
      BY <2>2
    <3> QED BY <1>2, <1>3, <1>4, <3>1
  <2> QED BY <1>4, <1>7, <2>1, <2>2 DEF Tool!WriteNetcdf, Tool!Unset
<1> QED BY <1>5, <1>6, <1>7 DEF Tool!Write

(* The run reads back what one before it has written. *)
LEMMA ToolWritesRight ==
  ASSUME ToolInv, Tool!Write, NEW f, files' = Append(files, f), NewIs(f)
  PROVE  /\ FileInv(f) /\ Tool!New = f
         /\ Tool!File.format = opt.inFormat /\ ~opt.residual /\ f.len > 1 /\ ~binary =>
              /\ Tool!IsPacked(Tool!File) /\ opt.decompress /\ ~opt.cycle =>
                    f.data = Tool!Front(Tool!File.meant)
              /\ Tool!IsArray(Tool!File) /\ (opt.cycle \/ Tool!WithoutMode) =>
                    f.data = Tool!File.meant
<1>1. /\ WasRead /\ WasProcessed /\ phase = "write" /\ FileInv(Tool!File)
      /\ files \in Seq(FileType) /\ f \in FileType
  BY DEF ToolInv, Tool!Write, Tool!File, NewIs
<1>2. Tool!New = f
  BY <1>1, AppendProperties DEF Tool!New, Tool!Last
<1>3. ArraySize \in Nat \ {0} /\ array \in {0, ArraySize} /\ f.len \in Nat /\ binary \in BOOLEAN
  BY <1>1, ToolConstants DEF WasRead, WasProcessed, NewIs, FileType
<1>4. FileInv(f)
  <2>1. Tool!IsArray(f) => f.data = f.meant
    <3>1. Tool!IsArray(f) => f.meant = <<>> /\ f.array = ArraySize /\ f.len = ArraySize
      BY DEF Tool!IsArray, Tool!Array
    <3>2. CASE binary
      BY <1>1, <3>1, <3>2, WrittenIs DEF NewIs
    <3>3. CASE ~binary
      BY <1>3, <3>1, <3>3 DEF NewIs
    <3> QED BY <1>3, <3>2, <3>3
  <2>2. Tool!IsPacked(f) /\ f.len > 0 => f.data = f.meant
    BY DEF Tool!IsPacked, NewIs
  <2> QED BY <2>1, <2>2 DEF FileInv, NewIs
<1>5. ASSUME Tool!File.format = opt.inFormat, ~opt.residual, f.len > 1, ~binary
      PROVE  /\ Tool!IsPacked(Tool!File) /\ opt.decompress /\ ~opt.cycle =>
                   f.data = Tool!Front(Tool!File.meant)
             /\ Tool!IsArray(Tool!File) /\ (opt.cycle \/ Tool!WithoutMode) =>
                   f.data = Tool!File.meant
  <2>1. f.data = output.data /\ array = ArraySize
    BY <1>1, <1>3, <1>5, WrittenIs DEF NewIs
  <2>2. /\ input.data = Tool!File.data /\ array = Tool!File.array
        /\ \/ input.len = Tool!File.len /\ readSize = Tool!File.size /\ input.len > 0
           \/ input.len = Tool!Limit(array) /\ Tool!File.format # "bin"
    BY <1>1, <1>3, <1>5, <2>1 DEF WasRead
  <2>3. ASSUME Tool!IsPacked(Tool!File), opt.decompress, ~opt.cycle
        PROVE  f.data = Tool!Front(Tool!File.meant)
    <3>1. /\ Tool!File.meant # <<>> /\ Tool!Last(Tool!File.meant) = "packed"
          /\ Tool!File.format = "bin" /\ Tool!File.len = Tool!File.size
      BY <2>3 DEF Tool!IsPacked
    <3>2. Tool!File.data = Tool!File.meant
      BY <1>1, <2>2, <2>3, <3>1 DEF FileInv
    <3>3. Tool!Understood(input, readSize, array)
      BY <2>1, <2>2, <3>1, <3>2 DEF Tool!Understood
    <3> QED BY <1>1, <1>5, <2>1, <2>2, <2>3, <3>2, <3>3 DEF WasProcessed, Tool!WithoutMode
  <2>4. ASSUME Tool!IsArray(Tool!File), opt.cycle \/ Tool!WithoutMode
        PROVE  f.data = Tool!File.meant
    <3>1. Tool!File.data = Tool!File.meant /\ Tool!File.len = ArraySize
      BY <1>1, <2>4 DEF FileInv, Tool!IsArray
    <3>2. array # 0 /\ input.len >= array
      <4>1. 4 * array + 1024 >= array /\ array \in Nat \ {0}
        BY <1>3, <2>1
      <4>2. CASE input.len = Tool!File.len
        BY <1>3, <2>1, <3>1, <4>1, <4>2
      <4>3. CASE input.len = Tool!Limit(array)
        <5>1. Tool!Limit(array) = 4 * array + 1024
          BY DEF Tool!Limit
        <5> QED BY <4>1, <4>3, <5>1
      <4> QED BY <2>2, <4>2, <4>3
    <3> QED BY <1>1, <1>5, <2>1, <2>2, <2>4, <3>1, <3>2 DEF WasProcessed, Tool!WithoutMode
  <2> QED BY <2>3, <2>4
<1> QED BY <1>2, <1>4, <1>5

(* Every step of the tool, and every step of another program, keeps the    *)
(* invariant.                                                              *)
LEMMA ToolStep ==
  ASSUME ToolInv, Tool!Next \/ UNCHANGED toolVars PROVE ToolInv'
<1>1. CASE Tool!OpenFails \/ Tool!ContextFails \/ Tool!Aborts \/ Tool!NoWrite
  BY <1>1, RunEnds DEF Tool!OpenFails, Tool!ReadFails, Tool!ContextFails, Tool!Aborts,
     Tool!NoWrite, Tool!Exit
<1>2. CASE Tool!Write
  <2>1. CASE UNCHANGED files
    BY <1>2, <2>1, ToolWrites, RunEnds
  <2>2. CASE \E f : files' = Append(files, f) /\ NewIs(f)
    <3>1. PICK f : files' = Append(files, f) /\ NewIs(f)
      BY <2>2
    <3>2. FileInv(f) /\ f \in FileType /\ phase' = "idle" /\ files \in Seq(FileType)
      BY <1>2, <3>1, ToolWrites, ToolWritesRight DEF FileInv, ToolInv
    <3>3. /\ files' \in Seq(FileType) /\ Len(files') = Len(files) + 1 /\ Len(files) \in Nat
          /\ \A n \in 1 .. Len(files) : files'[n] = files[n]
          /\ files'[Len(files) + 1] = f
          /\ DOMAIN files = 1 .. Len(files) /\ DOMAIN files' = 1 .. Len(files')
      BY <3>1, <3>2, AppendProperties, LenProperties
    <3>4. \A n \in DOMAIN files' : FileInv(files'[n])
      <4> SUFFICES ASSUME NEW n \in DOMAIN files' PROVE FileInv(files'[n])
        OBVIOUS
      <4>1. CASE n = Len(files) + 1
        BY <3>2, <3>3, <4>1
      <4>2. CASE n # Len(files) + 1
        BY <3>3, <4>2 DEF ToolInv
      <4> QED BY <4>1, <4>2
    <3>5. (\A n \in DOMAIN files : FileInv(files[n]))'
      BY <3>4 DEF FileInv, FileType, Tool!IsArray, Tool!IsPacked
    <3> QED BY <3>2, <3>3, <3>5 DEF ToolInv, FileType
  <2> QED BY <1>2, <2>1, <2>2, ToolWrites
<1> QED BY <1>1, <1>2, ToolStart, ToolReads, ToolContext, ToolProcesses, ToolUnchanged
        DEF Tool!Next

(* A step that adds a file writes it as RoundTrip says. *)
LEMMA ToolStepRight ==
  ASSUME ToolInv, Tool!Next, Tool!Writes, Tool!File.format = opt.inFormat, ~opt.residual,
         Tool!New.len > 1, ~binary
  PROVE  /\ Tool!IsPacked(Tool!File) /\ opt.decompress /\ ~opt.cycle =>
               Tool!New.data = Tool!Front(Tool!File.meant)
         /\ Tool!IsArray(Tool!File) /\ (opt.cycle \/ Tool!WithoutMode) =>
               Tool!New.data = Tool!File.meant
<1>1. phase = "write" /\ Len(files') > Len(files)
  BY DEF Tool!Writes
<1>2. Tool!Write \/ UNCHANGED files
  BY <1>1 DEF Tool!Next, Tool!Start, Tool!ReadBin, Tool!ReadCsv, Tool!ReadNetcdf, Tool!ReadOther,
     Tool!OpenFails, Tool!CreateContext, Tool!ContextFails, Tool!Cycle, Tool!Compress,
     Tool!Uncompress, Tool!Aborts, Tool!NoWrite
<1>3. files \in Seq(FileType) /\ Len(files) \in Nat
  BY LenProperties DEF ToolInv
<1>4. PICK f : files' = Append(files, f) /\ NewIs(f)
  BY <1>1, <1>2, <1>3, ToolWrites
<1> QED BY <1>1, <1>2, <1>3, <1>4, ToolWritesRight

(* Whatever earlier runs made of the files, and however many there were:   *)
(* what a run compressed, a run that decompresses it restores, and         *)
(* compressing and decompressing at once gives the input back, provided    *)
(* the output is stored (scil-compress.c, file-bin.c).                     *)
THEOREM RoundTrips == Spec => RoundTrip
<1>1. Init => ToolInv
  BY ToolInit DEF Init
<1>2. [Next]_vars => Tool!Next \/ UNCHANGED toolVars
  BY DEF Next, vars
<1>3. ToolInv /\ [Next]_vars => ToolInv'
  BY <1>2, ToolStep
<1>4. ToolInv /\ [Next]_vars =>
        [ Tool!Writes /\ Tool!File.format = opt.inFormat /\ ~opt.residual
          /\ Tool!New.len > 1 /\ ~binary =>
              /\ Tool!IsPacked(Tool!File) /\ opt.decompress /\ ~opt.cycle =>
                    Tool!New.data = Tool!Front(Tool!File.meant)
              /\ Tool!IsArray(Tool!File) /\ (opt.cycle \/ Tool!WithoutMode) =>
                    Tool!New.data = Tool!File.meant ]_Tool!vars
  BY <1>2, ToolStepRight DEF toolVars, Tool!vars
<1> QED BY <1>1, <1>3, <1>4, PTL DEF Spec, RoundTrip, Tool!RoundTrip

-----------------------------------------------------------------------------
(* The generators (ScilGenerator) *)

(* The combinations that the nested loops are meant to visit *)
AllMeant == {s \in Generator!Combinations : Generator!Meant(s)}

(* The order of the nested loops of data2 *)
Before(s, t) ==
    \/ s.pattern < t.pattern
    \/ s.pattern = t.pattern /\ s.mult < t.mult
    \/ s.pattern = t.pattern /\ s.mult = t.mult /\ s.arg1 < t.arg1
    \/ s.pattern = t.pattern /\ s.mult = t.mult /\ s.arg1 = t.arg1 /\ s.arg2 < t.arg2

(* Those that come before one *)
Passed(s) == {t \in AllMeant : Before(t, s)}

(* The record of the line is of the buffer and the compressor of this run. *)
CurrentRun ==
    /\ current = [algo |-> current.algo, of |-> current.of, comp |-> current.comp,
                  decomp |-> current.decomp]
    /\ state \in {"compress", "decompress"} => current.of = sample
    /\ state = "decompress" => current.algo = algo /\ current.comp = <<sample, algo>>

(* What was visited is what comes before the buffer of this moment, and at *)
(* the end everything.                                                     *)
VisitedInOrder ==
    main = "data2" =>
        /\ state # "draw"
        /\ state \in {"begin", "generate"} => visited = {}
        /\ state \in {"create", "compress", "decompress"} => sample \in AllMeant
        /\ state = "create" => visited = Passed(sample)
        /\ state \in {"compress", "decompress"} => visited = Passed(sample) \cup {sample}
        /\ state = "close" => visited = AllMeant

(* The inductive invariant of both generators: the record current_data as  *)
(* the error exits leave it, and the order of the loops                    *)
GeneratorInv ==
    /\ state \in {"begin", "draw", "generate", "create", "compress", "decompress",
                  "close", "closeagain", "exit", "crashed"}
    /\ main \in {"data", "data2"}
    /\ CurrentRun
    /\ VisitedInOrder
    /\ Generator!LineOfOneRun

(* What is assumed of the bounds of the loops *)
LEMMA GeneratorConstants ==
  Algos \in Nat /\ Mults \in Nat /\ Args \in Nat \ {0}
BY ProgramsAssumption DEF ProgramsAssumption, Generator!GeneratorAssumption

(* The parts of a buffer's parameters *)
LEMMA BufferFields ==
  ASSUME NEW p, NEW m, NEW a, NEW b
  PROVE  /\ Generator!Buffer(p, m, a, b).pattern = p /\ Generator!Buffer(p, m, a, b).mult = m
         /\ Generator!Buffer(p, m, a, b).arg1 = a /\ Generator!Buffer(p, m, a, b).arg2 = b
BY DEF Generator!Buffer

(* A combination has an argument exactly if its pattern takes one. *)
LEMMA MeantIsBuffer ==
  ASSUME NEW s
  PROVE  s \in AllMeant <=>
            \E p \in 0 .. 4, m \in 0 .. Mults, a \in 0 .. Args, b \in 0 .. Args :
                /\ s = Generator!Buffer(p, m, a, b)
                /\ a = 0 <=> p < 2
                /\ b = 0 <=> p < 3
<1>2. s \in Generator!Combinations <=>
        \E p \in 0 .. 4, m \in 0 .. Mults, a \in 0 .. Args, b \in 0 .. Args :
            s = Generator!Buffer(p, m, a, b)
  BY DEF Generator!Combinations, Generator!Patterns
<1>3. \A p, m, a, b : Generator!Meant(Generator!Buffer(p, m, a, b)) <=>
        (a = 0 <=> p < 2) /\ (b = 0 <=> p < 3)
  BY BufferFields DEF Generator!Meant
<1> QED BY <1>2, <1>3 DEF AllMeant

(* A combination that is meant is determined by its parts. *)
LEMMA MeantFields ==
  ASSUME NEW s \in AllMeant
  PROVE  /\ s.pattern \in 0 .. 4 /\ s.mult \in 0 .. Mults
         /\ s.arg1 \in 0 .. Args /\ s.arg2 \in 0 .. Args
         /\ s.arg1 = 0 <=> s.pattern < 2
         /\ s.arg2 = 0 <=> s.pattern < 3
         /\ s = Generator!Buffer(s.pattern, s.mult, s.arg1, s.arg2)
<1>1. PICK p \in 0 .. 4, m \in 0 .. Mults, a \in 0 .. Args, b \in 0 .. Args :
        s = Generator!Buffer(p, m, a, b) /\ (a = 0 <=> p < 2) /\ (b = 0 <=> p < 3)
  BY MeantIsBuffer
<1> QED BY <1>1, BufferFields

(* Following is the next one in the order, and Start behind the last. *)
LEMMA FollowingIsNext ==
  ASSUME NEW s \in AllMeant
  PROVE  IF Generator!Following(s) = Generator!Start
           THEN AllMeant = Passed(s) \cup {s}
           ELSE /\ Generator!Following(s) \in AllMeant
                /\ Passed(Generator!Following(s)) = Passed(s) \cup {s}
<1> DEFINE n == Generator!Following(s)
<1>0. Args \in Nat \ {0} /\ Mults \in Nat
  BY GeneratorConstants
<1>1. /\ s.pattern \in 0 .. 4 /\ s.mult \in 0 .. Mults
      /\ s.arg1 \in 0 .. Args /\ s.arg2 \in 0 .. Args
      /\ s.arg1 = 0 <=> s.pattern < 2
      /\ s.arg2 = 0 <=> s.pattern < 3
      /\ s = Generator!Buffer(s.pattern, s.mult, s.arg1, s.arg2)
  BY MeantFields
<1>2. ASSUME NEW p \in 0 .. 4, NEW m \in 0 .. Mults, NEW a \in 0 .. Args, NEW b \in 0 .. Args,
             a = 0 <=> p < 2, b = 0 <=> p < 3, n = Generator!Buffer(p, m, a, b),
             p # 0 \/ m # 0,
             \A t \in AllMeant : Before(t, Generator!Buffer(p, m, a, b)) <=> Before(t, s) \/ t = s
      PROVE  /\ n # Generator!Start
             /\ n \in AllMeant
             /\ Passed(n) = Passed(s) \cup {s}
  <2>1. n.pattern = p /\ n.mult = m
    BY <1>2, BufferFields
  <2>2. n # Generator!Start
    BY <2>1, <1>2 DEF Generator!Start
  <2>3. n \in AllMeant
    BY <1>2, MeantIsBuffer
  <2>4. Passed(n) = Passed(s) \cup {s}
    BY <1>2 DEF Passed
  <2> HIDE DEF n
  <2> QED BY <2>2, <2>3, <2>4
<1>3. ASSUME NEW t \in AllMeant
      PROVE  /\ t.pattern \in 0 .. 4 /\ t.mult \in 0 .. Mults
             /\ t.arg1 \in 0 .. Args /\ t.arg2 \in 0 .. Args
             /\ t.arg1 = 0 <=> t.pattern < 2
             /\ t.arg2 = 0 <=> t.pattern < 3
             /\ t = s <=> /\ t.pattern = s.pattern /\ t.mult = s.mult
                          /\ t.arg1 = s.arg1 /\ t.arg2 = s.arg2
  BY <1>1, MeantFields
<1>4. CASE Generator!HasNextArg2(s)
  <2>1. s.pattern > 2 /\ s.arg2 < Args
        /\ n = Generator!Buffer(s.pattern, s.mult, s.arg1, s.arg2 + 1)
    BY <1>4 DEF Generator!HasNextArg2, Generator!Following
  <2> DEFINE f == Generator!Buffer(s.pattern, s.mult, s.arg1, s.arg2 + 1)
  <2>2. f.pattern = s.pattern /\ f.mult = s.mult /\ f.arg1 = s.arg1 /\ f.arg2 = s.arg2 + 1
    BY BufferFields
  <2> HIDE DEF f
  <2>3. \A t \in AllMeant : Before(t, f) <=> Before(t, s) \/ t = s
    BY <1>0, <1>1, <1>3, <2>1, <2>2 DEF Before
  <2> QED
    BY <1>0, <1>1, <1>2, <2>1, <2>3 DEF f
<1>5. CASE ~Generator!HasNextArg2(s) /\ Generator!HasNextArg1(s)
  <2> DEFINE b == IF s.pattern > 2 THEN 1 ELSE 0
             f == Generator!Buffer(s.pattern, s.mult, s.arg1 + 1, b)
  <2>1. s.pattern >= 2 /\ s.arg1 < Args /\ n = f /\ (s.pattern > 2 => s.arg2 = Args)
    BY <1>0, <1>1, <1>5 DEF Generator!HasNextArg2, Generator!HasNextArg1, Generator!Following
  <2>2. f.pattern = s.pattern /\ f.mult = s.mult /\ f.arg1 = s.arg1 + 1 /\ f.arg2 = b
    BY BufferFields
  <2>3. b \in 0 .. Args /\ (b = 0 <=> s.pattern < 3) /\ (s.pattern > 2 => b = 1)
    BY <1>0, <1>1
  <2> HIDE DEF f, b
  <2>4. \A t \in AllMeant : Before(t, f) <=> Before(t, s) \/ t = s
    BY <1>0, <1>1, <1>3, <2>1, <2>2, <2>3 DEF Before
  <2> QED
    BY <1>0, <1>1, <1>2, <2>1, <2>3, <2>4 DEF f
<1> DEFINE a1(p) == IF p < 2 THEN 0 ELSE 1
           a2(p) == IF p < 3 THEN 0 ELSE 1
<1>6. ASSUME NEW p \in 0 .. 4
      PROVE  /\ a1(p) \in 0 .. Args /\ (a1(p) = 0 <=> p < 2)
             /\ a2(p) \in 0 .. Args /\ (a2(p) = 0 <=> p < 3)
             /\ p >= 2 => a1(p) = 1
             /\ p >= 3 => a2(p) = 1
  BY <1>0
<1>7. CASE /\ ~Generator!HasNextArg2(s) /\ ~Generator!HasNextArg1(s)
           /\ ~Generator!LastMult(s)
  <2> DEFINE f == Generator!Buffer(s.pattern, s.mult + 1, a1(s.pattern), a2(s.pattern))
  <2>1. /\ n = f /\ s.mult < Mults
        /\ (s.pattern > 2 => s.arg2 = Args) /\ (s.pattern >= 2 => s.arg1 = Args)
    BY <1>0, <1>1, <1>7 DEF Generator!HasNextArg2, Generator!HasNextArg1, Generator!LastMult,
       Generator!Following, Generator!FirstOf
  <2>2. /\ f.pattern = s.pattern /\ f.mult = s.mult + 1 /\ f.arg1 = a1(s.pattern)
        /\ f.arg2 = a2(s.pattern)
    BY BufferFields
  <2> HIDE DEF f, a1, a2
  <2>3. \A t \in AllMeant : Before(t, f) <=> Before(t, s) \/ t = s
    BY <1>0, <1>1, <1>3, <1>6, <2>1, <2>2 DEF Before
  <2> QED
    BY <1>0, <1>1, <1>2, <1>6, <2>1, <2>3 DEF f
<1>8. CASE /\ ~Generator!HasNextArg2(s) /\ ~Generator!HasNextArg1(s)
           /\ Generator!LastMult(s) /\ s.pattern < 4
  <2> DEFINE p == s.pattern + 1
             f == Generator!Buffer(p, 0, a1(p), a2(p))
  <2>1. /\ n = f /\ s.mult = Mults
        /\ (s.pattern > 2 => s.arg2 = Args) /\ (s.pattern >= 2 => s.arg1 = Args)
    BY <1>0, <1>1, <1>8 DEF Generator!HasNextArg2, Generator!HasNextArg1, Generator!LastMult,
       Generator!Following, Generator!FirstOf
  <2>2. f.pattern = p /\ f.mult = 0 /\ f.arg1 = a1(p) /\ f.arg2 = a2(p)
    BY BufferFields
  <2> HIDE DEF f, a1, a2
  <2>3. p \in 0 .. 4 /\ p # 0
    BY <1>1, <1>8
  <2>4. \A t \in AllMeant : Before(t, f) <=> Before(t, s) \/ t = s
    BY <1>0, <1>1, <1>3, <1>6, <2>1, <2>2, <2>3 DEF Before
  <2> QED
    BY <1>0, <1>1, <1>2, <1>6, <2>1, <2>3, <2>4 DEF f
<1>9. CASE /\ ~Generator!HasNextArg2(s) /\ ~Generator!HasNextArg1(s)
           /\ Generator!LastMult(s) /\ ~(s.pattern < 4)
  <2>1. n = Generator!Start
    BY <1>9 DEF Generator!Following
  <2>2. s.pattern = 4 /\ s.mult = Mults /\ s.arg1 = Args /\ s.arg2 = Args
    BY <1>0, <1>1, <1>9 DEF Generator!HasNextArg2, Generator!HasNextArg1, Generator!LastMult
  <2>3. \A t \in AllMeant : Before(t, s) \/ t = s
    BY <1>0, <1>1, <1>3, <2>2 DEF Before
  <2> QED BY <2>1, <2>3 DEF Passed
<1> QED BY <1>4, <1>5, <1>7, <1>8, <1>9

(* The first buffer is the first in the order. *)
LEMMA FirstIsFirst ==
  Generator!FirstOf(0, 0) \in AllMeant /\ Passed(Generator!FirstOf(0, 0)) = {}
<1>1. Generator!FirstOf(0, 0) = Generator!Buffer(0, 0, 0, 0)
  BY DEF Generator!FirstOf
<1>2. Generator!Buffer(0, 0, 0, 0) \in AllMeant
  BY MeantIsBuffer, GeneratorConstants
<1>3. \A t \in AllMeant : ~Before(t, Generator!Buffer(0, 0, 0, 0))
  BY MeantFields, GeneratorConstants, BufferFields DEF Before
<1> QED BY <1>1, <1>2, <1>3 DEF Passed

(* No combination comes before itself. *)
LEMMA BeforeIsStrict ==
  ASSUME NEW s \in AllMeant PROVE s \notin Passed(s)
BY MeantFields, GeneratorConstants DEF Passed, Before

(* Nothing is visited at the beginning. *)
LEMMA GeneratorInit == Generator!Init => GeneratorInv
BY DEF Generator!Init, GeneratorInv, CurrentRun, VisitedInOrder, Generator!LineOfOneRun,
       Generator!NoRow, Generator!NoRun

(* From one buffer to the next, or behind the last *)
LEMMA NextSampleInOrder ==
  ASSUME state \in {"compress", "decompress"}, VisitedInOrder,
         Generator!NextSample, UNCHANGED <<main, visited>>,
         main \in {"data", "data2"}
  PROVE  VisitedInOrder' /\ state' \in {"draw", "close", "create"}
<1>1. CASE main = "data"
  BY <1>1 DEF Generator!NextSample, VisitedInOrder
<1>2. CASE main = "data2"
  <2>1. sample' = Generator!Following(sample)
        /\ state' = IF sample' = Generator!Start THEN "close" ELSE "create"
    BY <1>2 DEF Generator!NextSample
  <2>2. sample \in AllMeant /\ visited = Passed(sample) \cup {sample}
    BY <1>2 DEF VisitedInOrder
  <2>3. CASE sample' = Generator!Start
    <3>1. state' = "close" /\ visited = AllMeant
      BY <2>1, <2>2, <2>3, FollowingIsNext
    <3> QED BY <3>1 DEF VisitedInOrder, AllMeant
  <2>4. CASE sample' # Generator!Start
    <3>1. state' = "create" /\ sample' \in AllMeant /\ visited = Passed(sample')
      BY <2>1, <2>2, <2>4, FollowingIsNext
    <3>2. visited' = Passed(sample)'
      BY <3>1 DEF Passed, AllMeant
    <3> QED BY <3>1, <3>2 DEF VisitedInOrder, AllMeant
  <2> QED BY <2>3, <2>4
<1> QED BY <1>1, <1>2

(* The buffer of this moment was not visited before. *)
LEMMA SampleNotVisited ==
  ASSUME VisitedInOrder PROVE Generator!EachCombinationOnce
BY BeforeIsStrict DEF VisitedInOrder, Generator!EachCombinationOnce, AllMeant

(* The steps around the loop: of those the loops only begin in one. *)
LEMMA GeneratorAround ==
  ASSUME GeneratorInv,
         \/ Generator!Open \/ Generator!WriteHeading \/ Generator!OpenFails
         \/ Generator!GenerateStddev \/ Generator!Draw \/ Generator!LastDrawn
         \/ Generator!CloseDataFile \/ Generator!CloseAgain
  PROVE  GeneratorInv'
<1>1. CASE Generator!GenerateStddev
  <2>1. /\ state = "generate" /\ state' = "create" /\ sample' = Generator!FirstOf(0, 0)
        /\ current' = [current EXCEPT !.of = <<>>, !.comp = <<>>, !.decomp = <<>>]
        /\ UNCHANGED <<main, algo, row, visited>>
    BY <1>1 DEF Generator!GenerateStddev, Generator!NoRun
  <2>2. CurrentRun'
    BY <2>1 DEF GeneratorInv, CurrentRun
  <2>3. VisitedInOrder'
    <3>1. main = "data2" => visited' = Passed(sample)' /\ sample' \in AllMeant
      BY <2>1, FirstIsFirst DEF GeneratorInv, VisitedInOrder, Passed, AllMeant
    <3> QED BY <2>1, <3>1 DEF VisitedInOrder, AllMeant
  <2> QED BY <2>1, <2>2, <2>3 DEF GeneratorInv, Generator!LineOfOneRun
<1>2. CASE Generator!Draw
  <2>1. /\ state = "draw" /\ state' = "create"
        /\ UNCHANGED <<main, algo, current, row, visited>>
    BY <1>2 DEF Generator!Draw
  <2>2. CurrentRun' /\ VisitedInOrder'
    BY <2>1 DEF GeneratorInv, CurrentRun, VisitedInOrder
  <2> QED BY <2>1, <2>2 DEF GeneratorInv, Generator!LineOfOneRun
<1>3. CASE \/ Generator!Open \/ Generator!WriteHeading \/ Generator!OpenFails
           \/ Generator!LastDrawn \/ Generator!CloseDataFile \/ Generator!CloseAgain
  <2>1. /\ state' \in {"draw", "generate", "crashed", "exit", "close", "closeagain"}
        /\ state' = "draw" => main = "data"
        /\ state' = "close" => state = "draw"
        /\ state' = "generate" => state = "begin"
        /\ UNCHANGED <<main, sample, algo, current, row, visited>>
    BY <1>3 DEF Generator!Open, Generator!WriteHeading, Generator!OpenFails,
       Generator!LastDrawn, Generator!CloseDataFile, Generator!CloseAgain
  <2>2. CurrentRun'
    BY <2>1 DEF GeneratorInv, CurrentRun
  <2>3. VisitedInOrder'
    BY <2>1 DEF GeneratorInv, VisitedInOrder, AllMeant
  <2> QED BY <2>1, <2>2, <2>3 DEF GeneratorInv, Generator!LineOfOneRun
<1> QED BY <1>1, <1>2, <1>3

(* Creating the pattern makes the next sample the one the record may speak *)
(* of.                                                                     *)
LEMMA GeneratorCreate ==
  ASSUME GeneratorInv, Generator!CreatePattern PROVE GeneratorInv'
<1>1. /\ state = "create" /\ state' = "compress"
      /\ current' = [current EXCEPT !.of = sample]
      /\ visited' = IF main = "data2" THEN visited \cup {sample} ELSE visited
      /\ UNCHANGED <<main, sample, row>>
  BY DEF Generator!CreatePattern
<1>2. CurrentRun'
  BY <1>1 DEF GeneratorInv, CurrentRun
<1>3. VisitedInOrder'
  <2>1. main = "data2" => visited' = (Passed(sample) \cup {sample})' /\ sample' \in AllMeant
    BY <1>1 DEF GeneratorInv, VisitedInOrder, Passed, AllMeant
  <2> QED BY <1>1, <2>1 DEF VisitedInOrder, AllMeant
<1> QED BY <1>1, <1>2, <1>3 DEF GeneratorInv, Generator!LineOfOneRun

(* After the last compressor the loops go to the following combination or  *)
(* end.                                                                    *)
LEMMA NextAlgoInOrder ==
  ASSUME state \in {"compress", "decompress"}, VisitedInOrder,
         Generator!NextAlgo, UNCHANGED <<main, visited>>, main \in {"data", "data2"}
  PROVE  VisitedInOrder' /\ state' \in {"draw", "close", "create", "compress"}
         /\ (state' = "compress" => sample' = sample)
<1>1. CASE algo < Algos
  BY <1>1 DEF Generator!NextAlgo, VisitedInOrder, Passed, AllMeant
<1>2. CASE ~(algo < Algos)
  BY <1>2, NextSampleInOrder DEF Generator!NextAlgo
<1> QED BY <1>1, <1>2

(* A compression fills in the record, a failure goes to the next           *)
(* compressor.                                                             *)
LEMMA GeneratorCompress ==
  ASSUME GeneratorInv, Generator!Compress PROVE GeneratorInv'
<1>1. state = "compress" /\ row' = Generator!NoRow /\ UNCHANGED <<main, visited>>
      /\ current.of = sample
  BY DEF Generator!Compress, GeneratorInv, CurrentRun
<1>2. CASE /\ current' = [current EXCEPT !.algo = algo, !.comp = <<sample, algo>>]
           /\ state' = "decompress" /\ UNCHANGED <<sample, algo>>
  <2>1. CurrentRun'
    BY <1>1, <1>2 DEF GeneratorInv, CurrentRun
  <2>2. VisitedInOrder'
    BY <1>1, <1>2 DEF GeneratorInv, VisitedInOrder, Passed, AllMeant
  <2> QED BY <1>1, <1>2, <2>1, <2>2 DEF GeneratorInv, Generator!LineOfOneRun
<1>3. CASE current' = [current EXCEPT !.algo = algo] /\ Generator!NextAlgo
  <2>1. VisitedInOrder' /\ state' \in {"draw", "close", "create", "compress"}
        /\ (state' = "compress" => sample' = sample)
    BY <1>1, <1>3, NextAlgoInOrder DEF GeneratorInv
  <2>2. CurrentRun'
    BY <1>1, <1>3, <2>1 DEF GeneratorInv, CurrentRun
  <2> QED BY <1>1, <2>1, <2>2 DEF GeneratorInv, Generator!LineOfOneRun
<1> QED BY <1>2, <1>3 DEF Generator!Compress

(* A line is written of what this run has measured. *)
LEMMA GeneratorDecompress ==
  ASSUME GeneratorInv, Generator!Decompress PROVE GeneratorInv'
<1>1. /\ state = "decompress" /\ UNCHANGED <<main, visited>> /\ Generator!NextAlgo
      /\ current.of = sample /\ current.algo = algo /\ current.comp = <<sample, algo>>
      /\ current = [algo |-> current.algo, of |-> current.of, comp |-> current.comp,
                    decomp |-> current.decomp]
  BY DEF Generator!Decompress, GeneratorInv, CurrentRun
<1>2. VisitedInOrder' /\ state' \in {"draw", "close", "create", "compress"}
      /\ (state' = "compress" => sample' = sample)
  BY <1>1, NextAlgoInOrder DEF GeneratorInv
<1>3. CASE Generator!WriteLine
  <2>1. row' = [current EXCEPT !.decomp = <<sample, algo>>] /\ current' = row'
    BY <1>3 DEF Generator!WriteLine
  <2>2. CurrentRun' /\ Generator!LineOfOneRun'
    BY <1>1, <1>2, <2>1 DEF CurrentRun, Generator!LineOfOneRun
  <2> QED BY <1>1, <1>2, <2>2 DEF GeneratorInv
<1>4. CASE row' = Generator!NoRow /\ UNCHANGED current
  <2>1. CurrentRun' /\ Generator!LineOfOneRun'
    BY <1>1, <1>2, <1>4 DEF CurrentRun, Generator!LineOfOneRun
  <2> QED BY <1>1, <1>2, <2>1 DEF GeneratorInv
<1> QED BY <1>3, <1>4 DEF Generator!Decompress

(* Every step of a generator keeps the invariant. *)
LEMMA GeneratorStep ==
  ASSUME GeneratorInv, Generator!Next \/ UNCHANGED generatorVars PROVE GeneratorInv'
<1>1. UNCHANGED generatorVars => GeneratorInv'
  BY DEF generatorVars, GeneratorInv, CurrentRun, VisitedInOrder, Passed, AllMeant,
         Generator!LineOfOneRun
<1> QED BY <1>1, GeneratorAround, GeneratorCreate, GeneratorCompress, GeneratorDecompress
           DEF Generator!Next

(* For any bounds of the loops and any failures of compressors: each line  *)
(* of the training data is of one buffer and one compressor, and the loops *)
(* visit every combination once (evaluate_compression_algorithm and        *)
(* generate_stddev_data).                                                  *)
THEOREM DataComplete == Spec => []DataIsComplete
<1>1. Init => GeneratorInv
  BY GeneratorInit DEF Init
<1>2. GeneratorInv /\ [Next]_vars => GeneratorInv'
  <2>1. [Next]_vars => Generator!Next \/ UNCHANGED generatorVars
    BY DEF Next, vars
  <2> QED BY <2>1, GeneratorStep
<1>3. GeneratorInv => DataIsComplete
  BY SampleNotVisited DEF GeneratorInv, DataIsComplete, Generator!DataIsComplete
<1> QED BY <1>1, <1>2, <1>3, PTL DEF Spec

-----------------------------------------------------------------------------
(* scil-benchmark and the chooser (ScilBenchmark) *)

(* A run is between its start and its end. *)
Measuring == pc \in {"pattern", "measure", "close"}

(* The patterns that the environment selects. *)
Selected(p) == check_pattern = "" \/ check_pattern = PatternNames[p]

(* What the loops have passed. *)
Measured == {c \in Benchmark!Combination : Benchmark!Earlier(c, at) /\ Selected(c[1])}

(* Where the loops are *)
BenchmarkTypeOK ==
    /\ pc \in {"idle", "pattern", "measure", "close"}
    /\ at \in (1 .. Len(PatternNames) + 1) \X (DOMAIN Types) \X (DOMAIN Compressors)
    /\ pc = "pattern" => at[2] = 1 /\ at[3] = 1
    /\ pc = "measure" => at[1] <= Len(PatternNames) /\ Selected(at[1])
    /\ pc = "close" => at[1] > Len(PatternNames)

(* The inductive invariant of the benchmark: what it holds in memory and   *)
(* in the file it writes is exactly what the loops have passed.            *)
BenchmarkInv ==
    /\ BenchmarkTypeOK
    /\ Measuring =>
        /\ DOMAIN results = Measured /\ IsFiniteSet(DOMAIN results)
        /\ Benchmark!AreLinesOf(bak, results)
        /\ error_occured <=> \E c \in DOMAIN results : results[c] = "failed"
    /\ OutcomeIsTrue

(* The module has its own copy of FiniteSets. *)
LEMMA BenchmarkCardinality ==
  ASSUME NEW S PROVE Benchmark!Cardinality(S) = Cardinality(S)
BY DEF Benchmark!Cardinality, Cardinality

(* What is assumed of the lists that the loops walk *)
LEMMA BenchmarkConstants ==
  /\ PatternNames \in Seq(STRING) /\ Len(PatternNames) \in Nat \ {0}
  /\ DOMAIN PatternNames = 1 .. Len(PatternNames)
  /\ \A m, n \in DOMAIN PatternNames : PatternNames[m] = PatternNames[n] => m = n
  /\ Len(Types) \in Nat \ {0} /\ DOMAIN Types = 1 .. Len(Types)
  /\ Len(Compressors) \in Nat \ {0} /\ DOMAIN Compressors = 1 .. Len(Compressors)
<1>1. \A s \in {PatternNames, Types, Compressors} :
        s \in Seq(STRING) /\ Len(s) > 0 /\ Benchmark!IsInjective(s)
  BY ProgramsAssumption DEF ProgramsAssumption, Benchmark!BenchmarkAssumption
<1>2. \A s \in {PatternNames, Types, Compressors} :
        Len(s) \in Nat \ {0} /\ DOMAIN s = 1 .. Len(s)
  BY <1>1
<1> QED BY <1>1, <1>2 DEF Benchmark!IsInjective

(* The place of the loops by its parts *)
LEMMA BenchmarkAt ==
  ASSUME BenchmarkTypeOK
  PROVE  /\ at[1] \in 1 .. Len(PatternNames) + 1
         /\ at[2] \in 1 .. Len(Types) /\ at[3] \in 1 .. Len(Compressors)
         /\ at = <<at[1], at[2], at[3]>>
         /\ at[1] <= Len(PatternNames) <=> ~(at[1] > Len(PatternNames))
<1>1. at \in (1 .. Len(PatternNames) + 1) \X (DOMAIN Types) \X (DOMAIN Compressors)
  BY DEF BenchmarkTypeOK
<1> QED BY <1>1, BenchmarkConstants

(* There is a configuration or none, and no run. *)
LEMMA BenchmarkInit == Benchmark!Init => BenchmarkInv
<1> SUFFICES ASSUME Benchmark!Init PROVE BenchmarkInv
  OBVIOUS
<1>1. BenchmarkTypeOK
  <2>1. pc = "idle" /\ at = <<1, 1, 1>>
    BY DEF Benchmark!Init
  <2> QED BY <2>1, BenchmarkConstants DEF BenchmarkTypeOK
<1>2. ~Measuring
  BY DEF Benchmark!Init, Measuring
<1>3. OutcomeIsTrue
  BY DEF Benchmark!Init, OutcomeIsTrue, Benchmark!OutcomeIsTrue, Benchmark!ConfIsWhole,
         Benchmark!NothingSkipped, Benchmark!ExitTellsErrors
<1> QED BY <1>1, <1>2, <1>3 DEF BenchmarkInv

(* A run begins with an empty file, whatever one before it has left. *)
LEMMA BenchmarkStart ==
  ASSUME BenchmarkInv, Benchmark!Start PROVE BenchmarkInv'
<1>1. /\ pc' = "pattern" /\ at' = <<1, 1, 1>> /\ bak' = <<>> /\ error_occured' = FALSE
      /\ UNCHANGED <<conf, published>>
  BY DEF Benchmark!Start
<1>2. results' = Benchmark!Nothing /\ DOMAIN results' = {}
  BY DEF Benchmark!Start, Benchmark!Nothing
<1>3. BenchmarkTypeOK'
  BY <1>1, BenchmarkConstants DEF BenchmarkTypeOK
<1>4. Measured' = {}
  <2>1. \A c \in Benchmark!Combination : ~Benchmark!Earlier(c, <<1, 1, 1>>)
    BY BenchmarkConstants DEF Benchmark!Earlier, Benchmark!Combination
  <2> QED BY <1>1, <2>1 DEF Measured, Benchmark!Combination
<1>5. Benchmark!AreLinesOf(bak, results)'
  <2>1. Benchmark!Succeeded(results') = {}
    BY <1>2 DEF Benchmark!Succeeded
  <2> QED BY <1>1, <2>1, FS_EmptySet, EmptySeq, BenchmarkCardinality DEF Benchmark!AreLinesOf
<1>6. OutcomeIsTrue'
  BY <1>1 DEF OutcomeIsTrue, Benchmark!OutcomeIsTrue, Benchmark!ConfIsWhole,
         Benchmark!NothingSkipped, Benchmark!ExitTellsErrors, BenchmarkInv
<1> QED BY <1>1, <1>2, <1>3, <1>4, <1>5, <1>6, FS_EmptySet DEF BenchmarkInv

(* The lines of a file are determined by the results. *)
LEMMA LinesOfSame ==
  ASSUME NEW l, NEW r, NEW r2, Benchmark!AreLinesOf(l, r),
         Benchmark!Succeeded(r2) = Benchmark!Succeeded(r)
  PROVE  Benchmark!AreLinesOf(l, r2)
BY DEF Benchmark!AreLinesOf

(* A line is appended for a combination behind all the others. *)
LEMMA LinesOfAppend ==
  ASSUME NEW l, NEW r, NEW r2, NEW c, Benchmark!AreLinesOf(l, r),
         IsFiniteSet(Benchmark!Succeeded(r)),
         c \notin Benchmark!Succeeded(r),
         Benchmark!Succeeded(r2) = Benchmark!Succeeded(r) \cup {c},
         \A d \in Benchmark!Succeeded(r) :
            Benchmark!Earlier(d, c) /\ ~Benchmark!Earlier(c, d) /\ ~Benchmark!Earlier(d, d),
         ~Benchmark!Earlier(c, c)
  PROVE  Benchmark!AreLinesOf(Append(l, Benchmark!Line(c)), r2)
<1> DEFINE S     == Benchmark!Succeeded(r)
           T     == Benchmark!Succeeded(r2)
           l2    == Append(l, Benchmark!Line(c))
           All   == Benchmark!Range(l) \cup {Benchmark!Line(c)}
           before(d) == {e \in S : Benchmark!Earlier(e, d)}
           before2(d) == {e \in T : Benchmark!Earlier(e, d)}
<1>1. l \in Seq(Benchmark!Range(l)) /\ Len(l) = Cardinality(S) /\ Cardinality(S) \in Nat
  BY BenchmarkCardinality, FS_CardinalityType DEF Benchmark!AreLinesOf
<1>2. l \in Seq(All) /\ Benchmark!Line(c) \in All
  BY <1>1, SeqMonotonic
<1> HIDE DEF All
<1>3. /\ l2 \in Seq(All) /\ Len(l2) = Len(l) + 1
      /\ l2[Len(l) + 1] = Benchmark!Line(c)
      /\ \A n \in 1 .. Len(l) : l2[n] = l[n]
  BY <1>2, AppendProperties
<1> HIDE DEF l2
<1>4. l2 \in Seq(Benchmark!Range(l2))
  BY <1>3, LenProperties DEF Benchmark!Range
<1>5. Len(l2) = Cardinality(T)
  BY <1>1, <1>3, FS_AddElement
<1>6. ASSUME NEW d \in T PROVE l2[Cardinality(before2(d)) + 1] = Benchmark!Line(d)
  <2>1. CASE d = c
    <3>1. before2(d) = S
      BY <2>1
    <3> QED BY <1>1, <1>3, <2>1, <3>1
  <2>2. CASE d # c
    <3>1. d \in S /\ before2(d) = before(d)
      BY <2>2
    <3>2. before(d) \subseteq S /\ before(d) # S
      BY <3>1
    <3> HIDE DEF before
    <3>3. Cardinality(before(d)) + 1 \in 1 .. Len(l)
      BY <1>1, <3>2, FS_Subset, FS_CardinalityType
    <3>4. l[Cardinality(before(d)) + 1] = Benchmark!Line(d)
      BY <3>1, BenchmarkCardinality DEF Benchmark!AreLinesOf, before
    <3> QED BY <1>3, <3>1, <3>3, <3>4
  <2> QED BY <2>1, <2>2
<1>7. Benchmark!Cardinality(T) = Cardinality(T)
      /\ \A d : Benchmark!Cardinality(before2(d)) = Cardinality(before2(d))
  BY BenchmarkCardinality
<1> QED BY <1>4, <1>5, <1>6, <1>7 DEF Benchmark!AreLinesOf, l2

(* The order of the loops on positions that are numbers *)
LEMMA EarlierIsAnOrder ==
  ASSUME NEW c, NEW d, c[1] \in Int, c[2] \in Int, c[3] \in Int,
         d[1] \in Int, d[2] \in Int, d[3] \in Int
  PROVE  /\ ~Benchmark!Earlier(c, c)
         /\ Benchmark!Earlier(c, d) => ~Benchmark!Earlier(d, c)
BY DEF Benchmark!Earlier

(* A pattern that is not selected is passed as a whole. *)
LEMMA BenchmarkPattern ==
  ASSUME BenchmarkInv, Benchmark!Pattern PROVE BenchmarkInv'
<1>1. /\ pc = "pattern" /\ pc' \in {"close", "measure", "pattern"} /\ BenchmarkTypeOK
      /\ UNCHANGED <<check_pattern, bak, conf, error_occured, results, published>>
  BY DEF Benchmark!Pattern, BenchmarkInv
<1>2. BenchmarkTypeOK' /\ Measured' = Measured
  <2>1. CASE at[1] > Len(PatternNames)
    <3>1. pc' = "close" /\ at' = at
      BY <2>1 DEF Benchmark!Pattern
    <3> QED BY <1>1, <2>1, <3>1 DEF BenchmarkTypeOK, Measured, Selected
  <2>2. CASE at[1] <= Len(PatternNames) /\ Selected(at[1])
    <3>1. pc' = "measure" /\ at' = at
      <4>1. ~(at[1] > Len(PatternNames)) /\ check_pattern \in {"", PatternNames[at[1]]}
        BY <1>1, <2>2, BenchmarkAt DEF Selected
      <4> QED BY <4>1 DEF Benchmark!Pattern
    <3> QED BY <1>1, <2>2, <3>1 DEF BenchmarkTypeOK, Measured, Selected
  <2>3. CASE at[1] <= Len(PatternNames) /\ ~Selected(at[1])
    <3>1. pc' = "pattern" /\ at' = <<at[1] + 1, 1, 1>>
      <4>1. ~(at[1] > Len(PatternNames)) /\ check_pattern \notin {"", PatternNames[at[1]]}
        BY <1>1, <2>3, BenchmarkAt DEF Selected
      <4> QED BY <4>1 DEF Benchmark!Pattern
    <3>2. at[1] \in 1 .. Len(PatternNames) /\ at[2] = 1 /\ at[3] = 1
      BY <1>1, <2>3, BenchmarkConstants DEF BenchmarkTypeOK
    <3>3. BenchmarkTypeOK'
      BY <3>1, <3>2, BenchmarkConstants DEF BenchmarkTypeOK
    <3>4. ASSUME NEW c \in Benchmark!Combination, Selected(c[1])
          PROVE  Benchmark!Earlier(c, at') <=> Benchmark!Earlier(c, at)
      <4>1. c[1] \in Nat \ {0} /\ c[2] \in Nat \ {0} /\ c[3] \in Nat \ {0} /\ c[1] # at[1]
        BY <2>3, <3>4, BenchmarkConstants DEF Benchmark!Combination
      <4> QED BY <3>1, <3>2, <4>1 DEF Benchmark!Earlier
    <3> QED BY <1>1, <3>3, <3>4 DEF Measured, Selected
  <2> QED BY <1>1, <2>1, <2>2, <2>3, BenchmarkConstants DEF BenchmarkTypeOK
<1>3. OutcomeIsTrue'
  BY <1>1 DEF OutcomeIsTrue, Benchmark!OutcomeIsTrue, Benchmark!ConfIsWhole,
         Benchmark!NothingSkipped, Benchmark!ExitTellsErrors, BenchmarkInv
<1>4. Benchmark!AreLinesOf(bak, results)'
  BY <1>1 DEF BenchmarkInv, Measuring
<1> QED BY <1>1, <1>2, <1>3, <1>4 DEF BenchmarkInv, Measuring

(* One combination more is passed. *)
LEMMA AdvanceByOne ==
  ASSUME BenchmarkTypeOK, pc = "measure", Benchmark!Advance, UNCHANGED check_pattern
  PROVE  /\ BenchmarkTypeOK'
         /\ at \in Benchmark!Combination /\ Selected(at[1])
         /\ Measured' = Measured \cup {at}
<1>1. /\ at[1] \in 1 .. Len(PatternNames) /\ at[2] \in 1 .. Len(Types)
      /\ at[3] \in 1 .. Len(Compressors) /\ at = <<at[1], at[2], at[3]>>
      /\ Selected(at[1])
  BY BenchmarkAt, BenchmarkConstants DEF BenchmarkTypeOK
<1>2. at \in Benchmark!Combination
  BY <1>1, BenchmarkConstants DEF Benchmark!Combination
<1>3. ASSUME NEW c \in Benchmark!Combination
      PROVE  /\ c[1] \in 1 .. Len(PatternNames) /\ c[2] \in 1 .. Len(Types)
             /\ c[3] \in 1 .. Len(Compressors) /\ c = <<c[1], c[2], c[3]>>
  BY BenchmarkConstants DEF Benchmark!Combination
<1>4. /\ BenchmarkTypeOK'
      /\ \A c \in Benchmark!Combination :
            Benchmark!Earlier(c, at') <=> Benchmark!Earlier(c, at) \/ c = at
  <2>1. CASE at[3] < Len(Compressors)
    <3>1. at' = <<at[1], at[2], at[3] + 1>> /\ pc' = pc
      BY <1>1, <2>1 DEF Benchmark!Advance
    <3>2. BenchmarkTypeOK'
      <4>1. /\ at' \in (1 .. Len(PatternNames) + 1) \X (DOMAIN Types) \X (DOMAIN Compressors)
            /\ at'[1] = at[1] /\ pc' = "measure"
        BY <1>1, <2>1, <3>1, BenchmarkConstants
      <4> QED BY <1>1, <4>1, BenchmarkConstants DEF BenchmarkTypeOK, Selected
    <3>3. ASSUME NEW c \in Benchmark!Combination
          PROVE  Benchmark!Earlier(c, at') <=> Benchmark!Earlier(c, at) \/ c = at
      BY <1>1, <1>3, <2>1, <3>1 DEF Benchmark!Earlier
    <3> QED BY <3>2, <3>3
  <2>2. CASE ~(at[3] < Len(Compressors)) /\ at[2] < Len(Types)
    <3>1. at' = <<at[1], at[2] + 1, 1>> /\ pc' = pc
      BY <1>1, <2>2 DEF Benchmark!Advance
    <3>2. BenchmarkTypeOK'
      <4>1. /\ at' \in (1 .. Len(PatternNames) + 1) \X (DOMAIN Types) \X (DOMAIN Compressors)
            /\ at'[1] = at[1] /\ pc' = "measure"
        BY <1>1, <2>2, <3>1, BenchmarkConstants
      <4> QED BY <1>1, <4>1, BenchmarkConstants DEF BenchmarkTypeOK, Selected
    <3>3. ASSUME NEW c \in Benchmark!Combination
          PROVE  Benchmark!Earlier(c, at') <=> Benchmark!Earlier(c, at) \/ c = at
      <4>1. at[3] = Len(Compressors)
        BY <1>1, <2>2, BenchmarkConstants
      <4> QED BY <1>1, <1>3, <4>1, <3>1 DEF Benchmark!Earlier
    <3> QED BY <3>2, <3>3
  <2>3. CASE ~(at[3] < Len(Compressors)) /\ ~(at[2] < Len(Types))
    <3>1. at' = <<at[1] + 1, 1, 1>> /\ pc' = "pattern"
      BY <1>1, <2>3 DEF Benchmark!Advance
    <3>2. BenchmarkTypeOK'
      BY <1>1, <3>1, BenchmarkConstants DEF BenchmarkTypeOK
    <3>3. ASSUME NEW c \in Benchmark!Combination
          PROVE  Benchmark!Earlier(c, at') <=> Benchmark!Earlier(c, at) \/ c = at
      <4>1. at[3] = Len(Compressors) /\ at[2] = Len(Types)
        BY <1>1, <2>3, BenchmarkConstants
      <4> QED BY <1>1, <1>3, <4>1, <3>1 DEF Benchmark!Earlier
    <3> QED BY <3>2, <3>3
  <2> QED BY <2>1, <2>2, <2>3
<1>5. Measured' = Measured \cup {at}
  <2>1. \A p : Selected(p)' <=> Selected(p)
    BY DEF Selected
  <2>2. Measured' = {c \in Benchmark!Combination : Benchmark!Earlier(c, at') /\ Selected(c[1])}
    BY <2>1 DEF Measured
  <2> QED BY <1>1, <1>2, <1>4, <2>2 DEF Measured
<1> QED BY <1>1, <1>2, <1>4, <1>5

(* A measurement adds its line, or is remembered as failed. *)
LEMMA BenchmarkMeasure ==
  ASSUME BenchmarkInv, Benchmark!Measure PROVE BenchmarkInv'
<1>1. /\ pc = "measure" /\ BenchmarkTypeOK /\ Benchmark!Advance
      /\ UNCHANGED <<check_pattern, conf, status, published>>
      /\ DOMAIN results = Measured /\ IsFiniteSet(DOMAIN results)
      /\ Benchmark!AreLinesOf(bak, results)
      /\ error_occured <=> \E c \in DOMAIN results : results[c] = "failed"
  BY DEF Benchmark!Measure, BenchmarkInv, Measuring
<1>2. PICK r \in {"ok", "invalid", "failed"} :
        /\ results' = [c \in DOMAIN results \cup {at} |-> IF c = at THEN r ELSE results[c]]
        /\ bak' = IF r = "ok" THEN Append(bak, Benchmark!Line(at)) ELSE bak
        /\ error_occured' = (error_occured \/ r = "failed")
  BY DEF Benchmark!Measure
<1>3. /\ BenchmarkTypeOK' /\ at \in Benchmark!Combination
      /\ Measured' = Measured \cup {at}
  BY <1>1, AdvanceByOne
<1>4. pc' \in {"pattern", "measure"}
  BY <1>1 DEF Benchmark!Advance
<1>5. ASSUME NEW c \in Benchmark!Combination
      PROVE  c[1] \in Int /\ c[2] \in Int /\ c[3] \in Int
  BY BenchmarkConstants DEF Benchmark!Combination
<1>6. at \notin Measured
  BY <1>3, <1>5, EarlierIsAnOrder DEF Measured
<1>7. DOMAIN results' = Measured' /\ IsFiniteSet(DOMAIN results')
  <2>1. DOMAIN results' = DOMAIN results \cup {at}
    BY <1>2
  <2> QED BY <2>1, <1>1, <1>3, FS_AddElement
<1>8. Benchmark!AreLinesOf(bak, results)'
  <2>1. CASE r = "ok"
    <3>1. Benchmark!Succeeded(results') = Benchmark!Succeeded(results) \cup {at}
      BY <1>1, <1>2, <1>6, <2>1 DEF Benchmark!Succeeded
    <3>2. IsFiniteSet(Benchmark!Succeeded(results)) /\ at \notin Benchmark!Succeeded(results)
      BY <1>1, <1>6, FS_Subset DEF Benchmark!Succeeded
    <3>3. ASSUME NEW d \in Benchmark!Succeeded(results)
          PROVE  /\ Benchmark!Earlier(d, at) /\ ~Benchmark!Earlier(at, d)
                 /\ ~Benchmark!Earlier(d, d)
      <4>1. d \in Benchmark!Combination /\ Benchmark!Earlier(d, at)
        BY <1>1 DEF Benchmark!Succeeded, Measured
      <4> QED BY <4>1, <1>3, <1>5, EarlierIsAnOrder
    <3>4. ~Benchmark!Earlier(at, at)
      BY <1>3, <1>5, EarlierIsAnOrder
    <3>5. Benchmark!AreLinesOf(Append(bak, Benchmark!Line(at)), results')
      BY <1>1, <3>1, <3>2, <3>3, <3>4, LinesOfAppend
    <3>6. bak' = Append(bak, Benchmark!Line(at))
      BY <1>2, <2>1
    <3> QED BY <3>5, <3>6
  <2>2. CASE r # "ok"
    <3>1. Benchmark!Succeeded(results') = Benchmark!Succeeded(results)
      BY <1>1, <1>2, <1>6, <2>2 DEF Benchmark!Succeeded
    <3>2. Benchmark!AreLinesOf(bak, results')
      BY <1>1, <3>1, LinesOfSame
    <3>3. bak' = bak
      BY <1>2, <2>2
    <3> QED BY <3>2, <3>3
  <2> QED BY <2>1, <2>2
<1>9. error_occured' <=> \E c \in DOMAIN results' : results'[c] = "failed"
  BY <1>1, <1>2, <1>6
<1>10. OutcomeIsTrue'
  BY <1>1, <1>4 DEF OutcomeIsTrue, Benchmark!OutcomeIsTrue, Benchmark!ConfIsWhole,
         Benchmark!NothingSkipped, Benchmark!ExitTellsErrors, BenchmarkInv
<1> QED BY <1>3, <1>7, <1>8, <1>9, <1>10 DEF BenchmarkInv

(* What a run has measured when it replaces the file *)
LEMMA AllMeasured ==
  ASSUME BenchmarkInv, pc = "close"
  PROVE  \E chosen \in SUBSET (DOMAIN PatternNames) :
            /\ Cardinality(chosen) \in {0, 1, Len(PatternNames)}
            /\ DOMAIN results = {c \in Benchmark!Combination : c[1] \in chosen}
<1> DEFINE chosen == {p \in DOMAIN PatternNames : Selected(p)}
<1>1. DOMAIN results = Measured /\ at[1] > Len(PatternNames) /\ BenchmarkTypeOK
  BY DEF BenchmarkInv, Measuring, BenchmarkTypeOK
<1>2. ASSUME NEW c \in Benchmark!Combination
      PROVE  c[1] \in DOMAIN PatternNames /\ Benchmark!Earlier(c, at)
  <2>1. c[1] \in 1 .. Len(PatternNames)
    BY BenchmarkConstants DEF Benchmark!Combination
  <2> QED BY <1>1, <2>1, BenchmarkAt, BenchmarkConstants DEF Benchmark!Earlier
<1>3. DOMAIN results = {c \in Benchmark!Combination : c[1] \in chosen}
  BY <1>1, <1>2 DEF Measured
<1>4. Cardinality(chosen) \in {0, 1, Len(PatternNames)}
  <2>1. CASE check_pattern = ""
    <3>1. chosen = 1 .. Len(PatternNames)
      BY <2>1, BenchmarkConstants DEF Selected
    <3>2. Cardinality(1 .. Len(PatternNames)) = Len(PatternNames)
      BY FS_Interval, BenchmarkConstants
    <3> QED BY <3>1, <3>2
  <2>2. CASE check_pattern # "" /\ \E p \in DOMAIN PatternNames : PatternNames[p] = check_pattern
    <3>1. PICK p \in DOMAIN PatternNames : PatternNames[p] = check_pattern
      BY <2>2
    <3>2. chosen = {p}
      BY <2>2, <3>1, BenchmarkConstants DEF Selected
    <3> QED BY <3>2, FS_Singleton
  <2>3. CASE check_pattern # "" /\ ~\E p \in DOMAIN PatternNames : PatternNames[p] = check_pattern
    <3>1. chosen = {}
      BY <2>3 DEF Selected
    <3> QED BY <3>1, FS_EmptySet
  <2> QED BY <2>1, <2>2, <2>3
<1> QED BY <1>3, <1>4

(* The configuration is replaced by the whole file, and the status tells   *)
(* the errors.                                                             *)
LEMMA BenchmarkReplace ==
  ASSUME BenchmarkInv, Benchmark!Replace PROVE BenchmarkInv'
<1>1. /\ pc = "close" /\ pc' = "idle"
      /\ conf' = bak /\ published' = {results} /\ UNCHANGED <<at, results>>
      /\ status' = IF error_occured THEN "errors" ELSE "success"
  BY DEF Benchmark!Replace, Benchmark!Ended
<1>2. /\ BenchmarkTypeOK /\ Benchmark!AreLinesOf(bak, results)
      /\ error_occured <=> \E c \in DOMAIN results : results[c] = "failed"
  BY <1>1 DEF BenchmarkInv, Measuring
<1>3. BenchmarkTypeOK' /\ ~Measuring'
  BY <1>1, <1>2 DEF BenchmarkTypeOK, Measuring
<1>4. Benchmark!ConfIsWhole'
  <2>1. Benchmark!AreLinesOf(bak, results')
    BY <1>1, <1>2
  <2> QED BY <1>1, <2>1 DEF Benchmark!ConfIsWhole
<1>5. Benchmark!NothingSkipped'
  BY <1>1, AllMeasured, BenchmarkCardinality DEF Benchmark!NothingSkipped
<1>6. Benchmark!ExitTellsErrors'
  BY <1>1, <1>2 DEF Benchmark!ExitTellsErrors
<1> QED BY <1>3, <1>4, <1>5, <1>6 DEF BenchmarkInv, OutcomeIsTrue, Benchmark!OutcomeIsTrue

(* A run that ends without replacing scil.conf *)
LEMMA BenchmarkGivesUp ==
  ASSUME BenchmarkInv, Benchmark!ReplaceFails \/ Benchmark!Die PROVE BenchmarkInv'
<1>1. /\ pc' = "idle" /\ status' \in {"not renamed", "died"}
      /\ UNCHANGED <<at, conf, published>>
  BY DEF Benchmark!ReplaceFails, Benchmark!Die, Benchmark!Ended
<1>2. BenchmarkTypeOK' /\ ~Measuring'
  BY <1>1 DEF BenchmarkInv, BenchmarkTypeOK, Measuring
<1>3. OutcomeIsTrue'
  BY <1>1 DEF OutcomeIsTrue, Benchmark!OutcomeIsTrue, Benchmark!ConfIsWhole,
         Benchmark!NothingSkipped, Benchmark!ExitTellsErrors, BenchmarkInv
<1> QED BY <1>2, <1>3 DEF BenchmarkInv

(* Steps of the other programs leave the benchmark as it is. *)
LEMMA BenchmarkUnchanged ==
  ASSUME BenchmarkInv,
         UNCHANGED <<pc, check_pattern, at, bak, conf, error_occured, status, results, published>>
  PROVE  BenchmarkInv'
BY DEF BenchmarkInv, BenchmarkTypeOK, Measuring, Measured, Selected, OutcomeIsTrue,
       Benchmark!OutcomeIsTrue, Benchmark!ConfIsWhole, Benchmark!NothingSkipped,
       Benchmark!ExitTellsErrors

(* Every step of the benchmark and of another program keeps the invariant. *)
LEMMA BenchmarkStep ==
  ASSUME BenchmarkInv, Benchmark!Next \/ UNCHANGED benchmarkVars PROVE BenchmarkInv'
<1>1. UNCHANGED benchmarkVars => BenchmarkInv'
  BY BenchmarkUnchanged DEF benchmarkVars
<1> QED BY <1>1, BenchmarkStart, BenchmarkPattern, BenchmarkMeasure, BenchmarkReplace,
           BenchmarkGivesUp DEF Benchmark!Next

(* For any lists of patterns, datatypes and compressors and any number of  *)
(* runs, dying anywhere: scil.conf is always what one whole run has        *)
(* measured or what it was before, nothing is skipped, and the exit status *)
(* tells whether a compressor failed (scil-benchmark.c).                   *)
THEOREM OutcomeTrue == Spec => []OutcomeIsTrue
<1>1. Init => BenchmarkInv
  BY BenchmarkInit DEF Init
<1>2. BenchmarkInv /\ [Next]_vars => BenchmarkInv'
  <2>1. [Next]_vars => Benchmark!Next \/ UNCHANGED benchmarkVars
    BY DEF Next, vars
  <2> QED BY <2>1, BenchmarkStep
<1>3. BenchmarkInv => OutcomeIsTrue
  BY DEF BenchmarkInv
<1> QED BY <1>1, <1>2, <1>3, PTL DEF Spec

=============================================================================
