----------------------------- MODULE ScilOptions ----------------------------
(***************************************************************************)
(* The command line of scil-compress: scilO_parseOptions of                *)
(* src/src/scil-option.c, called once for the options of the tool and once *)
(* each for those of the input and the output plugin, which follow behind  *)
(* a "--" (src/src/tools/scil-compress.c).  An argument is a name and what *)
(* stands behind its "=": <<"number", n>> for what atoi reads as n,        *)
(* <<"unit", n>> for the name of a performance unit, <<"text", n>> for     *)
(* anything else.                                                          *)
(***************************************************************************)
EXTENDS Integers, Sequences, FiniteSets

CONSTANTS
    Tables,     \* names of the tables of options: "tool" and the plugins
    Options,    \* of each table, the set of its options: records of name,
                \* arg ("flag", "optional", "required") and type ("number",
                \* "string", "enum")
    Lines,      \* the command lines
    Formats     \* that in_file_format and out_file_format may name

Units == 0 .. 5
NoArg == <<"none", 0>>

OptionsAssumption ==
    /\ "tool" \in Tables
    /\ \A t \in Tables :
        /\ IsFiniteSet(Options[t])
        /\ Options[t] \subseteq [name : STRING, arg : {"flag", "optional", "required"},
                                 type : {"number", "string", "enum"}]
    /\ \A t \in Tables : \A o, p \in Options[t] :
        /\ o.name = p.name => o = p
        /\ o.name # "--"
        /\ o.arg = "flag" => o.type = "number"
    /\ Lines \subseteq Seq([name : STRING,
                            arg : {"none", "number", "unit", "text"} \X Int])

VARIABLES
    argv, format,   \* the command line; the two file formats
    part,           \* which of the three calls, 1 .. 3
    parsed,         \* arguments the calls before this one returned
    i,              \* argument of this call
    seen, error,    \* requiredArgsSeen, error
    printhelp,
    value,          \* of each table, what the variables of its options hold
    phase           \* "parsing", "help", "ready", "exit" or "fault"

vars == <<argv, format, part, parsed, i, seen, error, printhelp, value, phase>>

-----------------------------------------------------------------------------
Table(k) == CASE k = 1 -> "tool" [] k = 2 -> format[1] [] k = 3 -> format[2]

(* scil_find_plugin *)
FindPlugin(name) == name \in Tables \ {"tool"}

OptionOf(t, name) == {o \in Options[t] : o.name = name}

Required(t) == {o \in Options[t] : o.arg = "required"}

Atoi(arg) == IF arg[1] = "number" THEN arg[2] ELSE 0

GoodEnum(arg) ==
    IF Atoi(arg) # 0 THEN Atoi(arg) \in Units ELSE arg[1] = "unit" /\ arg[2] \in Units

(* A number goes into the variable before it is found to be no unit. *)
Stored(o, arg, old) ==
    CASE o.arg = "flag"                       -> old + 1
      [] o.arg # "flag" /\ arg = NoArg        -> old
      [] o.arg # "flag" /\ arg # NoArg /\ o.type = "string" -> arg
      [] o.arg # "flag" /\ arg # NoArg /\ o.type = "number" -> Atoi(arg)
      [] o.arg # "flag" /\ arg # NoArg /\ o.type = "enum"   ->
            IF Atoi(arg) # 0 THEN Atoi(arg)
            ELSE IF GoodEnum(arg) THEN arg[2] ELSE old

Wrong(o, arg) ==
    \/ o.arg # "flag" /\ arg = NoArg
    \/ o.arg # "flag" /\ arg # NoArg /\ o.type = "enum" /\ ~GoodEnum(arg)

(* The argument the call looks at: its argv begins at the separator it     *)
(* takes for the name of the program.                                      *)
Current == argv[parsed + i]

AtEnd == parsed + i <= Len(argv) => Current.name = "--"

Known(o, arg) ==
    LET t == Table(part)
    IN  /\ value' = [value EXCEPT ![t][o.name] = Stored(o, arg, @)]
        /\ seen' = seen + (IF o.arg = "required" THEN 1 ELSE 0)
        /\ error' = (error \/ Wrong(o, arg))
        /\ UNCHANGED printhelp

Unknown ==
    /\ IF Current.name = "help"
         THEN printhelp' = 1 /\ UNCHANGED error
         ELSE error' = TRUE /\ UNCHANGED printhelp
    /\ UNCHANGED <<value, seen>>

(* One pass of the loop of scilO_parseOptions *)
Argument ==
    /\ phase = "parsing"
    /\ ~AtEnd
    /\ LET found == OptionOf(Table(part), Current.name)
       IN  \/ \E o \in found : Known(o, Current.arg)
           \/ found = {} /\ Unknown
    /\ i' = i + 1
    /\ UNCHANGED <<argv, format, part, parsed, phase>>

(* What it returns is the index of the separator, or argc. *)
NextPart ==
    /\ parsed' = parsed + i
    /\ i' = 1
    /\ seen' = 0
    /\ error' = FALSE

(* Mutant: a call without an error forgets that one before it had one. *)
VerdictOfLast ==
    IF seen # Cardinality(Required(Table(part))) \/ error THEN -1 ELSE 0

Verdict ==
    IF seen # Cardinality(Required(Table(part))) \/ error THEN -1 ELSE printhelp

(* The end of scilO_parseOptions, and main up to the next call *)
Return ==
    /\ phase = "parsing"
    /\ AtEnd
    /\ printhelp' = Verdict
    /\ NextPart
    /\ \/ /\ part < 3
          /\ FindPlugin(format[part])
          /\ part' = part + 1
          /\ UNCHANGED phase
       \/ /\ part < 3
          /\ ~FindPlugin(format[part])
          /\ phase' = "exit"
          /\ UNCHANGED part
       \/ /\ part = 3
          /\ phase' = IF printhelp' # 0 THEN "help" ELSE "ready"
          /\ UNCHANGED part
    /\ UNCHANGED <<argv, format, value>>

(* print_value looks up the name of a unit by the number in the variable. *)
Printable(t) ==
    \A o \in Options[t] : o.arg # "flag" /\ o.type = "enum" => value[t][o.name] \in Units

(* scilO_print_help, for each of the three tables *)
PrintHelp ==
    /\ phase = "help"
    /\ phase' = IF \A k \in 1 .. 3 : Printable(Table(k)) THEN "exit" ELSE "fault"
    /\ UNCHANGED <<argv, format, part, parsed, i, seen, error, printhelp, value>>

Default(o) == IF o.type = "string" THEN NoArg ELSE 0

Defaults(t) ==
    [n \in {o.name : o \in Options[t]} |-> Default(CHOOSE o \in Options[t] : o.name = n)]

Init ==
    /\ argv \in Lines
    /\ format \in Formats \X Formats
    /\ part = 1
    /\ parsed = 0
    /\ i = 1
    /\ seen = 0
    /\ error = FALSE
    /\ printhelp = 0
    /\ value = [t \in Tables |-> Defaults(t)]
    /\ phase = "parsing"

Next == Argument \/ Return \/ PrintHelp

Spec == Init /\ [][Next]_vars

-----------------------------------------------------------------------------
(* Properties *)

(* The sections of the command line, as the synopsis of scil-compress.c:123 *)
(* writes them: the arguments between separators.                          *)
SectionOf(n) == Cardinality({k \in 1 .. n : argv[k].name = "--"}) + 1

InSection(n, k) == argv[n].name # "--" /\ SectionOf(n) = k

Gives(n, k, o) == InSection(n, k) /\ argv[n].name = o.name

(* What the last of the arguments that give an option says, or the default, *)
(* of a flag how many they are.                                            *)
Written(sections, o) ==
    LET given == {n \in DOMAIN argv : \E k \in sections : Gives(n, k, o)}
    IN  CASE o.arg = "flag" -> Cardinality(given)
          [] o.arg # "flag" /\ given = {} -> Default(o)
          [] o.arg # "flag" /\ given # {} ->
                Stored(o, argv[CHOOSE n \in given : \A n2 \in given : n2 <= n].arg, 0)

(* A command line that is accepted sets each option to what its sections   *)
(* say, and nothing of one section reaches the options of another.         *)
ParsedAsWritten ==
    phase = "ready" =>
        \A t \in Tables : \A o \in Options[t] :
            value[t][o.name] = Written({k \in 1 .. 3 : Table(k) = t}, o)

Faulty(k) ==
    \/ \E n \in DOMAIN argv :
        /\ InSection(n, k)
        /\ \/ OptionOf(Table(k), argv[n].name) = {}
           \/ \E o \in OptionOf(Table(k), argv[n].name) : Wrong(o, argv[n].arg)
    \/ Cardinality({n \in DOMAIN argv : \E o \in Required(Table(k)) : Gives(n, k, o)})
         # Cardinality(Required(Table(k)))

(* The tool goes on exactly if no section of the command line has a fault; *)
(* no later call clears what an earlier one found.                         *)
FaultyIsRefused ==
    /\ phase = "ready" => \A k \in 1 .. 3 : ~Faulty(k)
    /\ phase = "help"  => \E k \in 1 .. 3 : Faulty(k)

(* scil-option.c:364: "Missing some required arguments".  The code counts  *)
(* them: a tool that goes on misses one only if another is given more than *)
(* once.                                                                   *)
MissingNeedsRepeated ==
    phase = "ready" =>
        \A k \in 1 .. 3 :
            \/ \A o \in Required(Table(k)) : \E n \in DOMAIN argv : Gives(n, k, o)
            \/ \E o \in Required(Table(k)) : \E n, n2 \in DOMAIN argv :
                    n # n2 /\ Gives(n, k, o) /\ Gives(n2, k, o)

(* What the tool says to a command line, and the values it goes on with,   *)
(* are what the line says.                                                 *)
AnswerIsRight == ParsedAsWritten /\ FaultyIsRefused /\ MissingNeedsRepeated
=============================================================================
