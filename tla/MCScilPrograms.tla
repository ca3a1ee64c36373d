--------------------------- MODULE MCScilPrograms ---------------------------
(***************************************************************************)
(* Instance of ScilPrograms for TLC.                                       *)
(***************************************************************************)
EXTENDS ScilPrograms

-----------------------------------------------------------------------------
(* The tool has two required options, a flag and a unit; one plugin has an *)
(* option and a flag, one has none.                                        *)
Opt(n, a, t) == [name |-> n, arg |-> a, type |-> t]
Arg(n, a) == [name |-> n, arg |-> a]

MCTables == {"tool", "csv", "bin"}

MCOptions ==
    [t \in MCTables |->
        CASE t = "tool" -> {Opt("i", "required", "string"), Opt("o", "required", "string"),
                            Opt("v", "flag", "number"), Opt("unit", "optional", "enum")}
          [] t = "csv"  -> {Opt("d", "optional", "string"), Opt("f", "flag", "number")}
          [] t = "bin"  -> {}]

NoArg   == <<"none", 0>>
Text(n) == <<"text", n>>

(* Up to three arguments, or up to four behind the required ones, one of *)
(* four a separator.                                                      *)
MCTool   == {Arg("i", Text(1)), Arg("o", Text(2)), Arg("v", NoArg), Arg("unit", NoArg),
             Arg("unit", <<"unit", 2>>), Arg("unit", <<"number", 9>>),
             Arg("unit", <<"number", 1>>), Arg("unit", Text(1)), Arg("help", NoArg)}
MCPlugin == {Arg("d", Text(1)), Arg("d", Text(2)), Arg("f", NoArg), Arg("v", NoArg),
             Arg("help", NoArg), Arg("--", NoArg)}

UpTo(n, S) == UNION {[1 .. m -> S] : m \in 0 .. n}

MCLines   == UpTo(3, MCTool) \cup
             {<<Arg("i", Text(1)), Arg("o", Text(2))>> \o s : s \in
                {s \in UpTo(4, MCPlugin) : Len(s) = 4 => Arg("--", NoArg) \in {s[n] : n \in 1 .. 4}}}
MCFormats == {"csv", "bin", "list"}

-----------------------------------------------------------------------------
(* Arrays of up to three dimensions; files of others of up to three lines, *)
(* blank lines and comments among them, with a header that need not fit.   *)
MCShapes == UNION {[1 .. n -> 1 .. 3] : n \in 1 .. 3}

Tokens(n) == IF n = 1 THEN {<<-1>>, <<7>>} ELSE {[k \in 1 .. n |-> 6 + k]}

MCFiles ==
    {[head |-> h, rows |-> r] :
        h \in {<<>>, <<-1>>, <<2, 1, 0, 0>>, <<2, 2, 2, 2>>},
        r \in UpTo(3, UNION {Tokens(n) : n \in 0 .. 3})}

-----------------------------------------------------------------------------
(* Two runs of scil-compress over a file of each format and, in the second *)
(* run, the one the first has left; the first file and the one that was    *)
(* left may be taken for another format.                                   *)
GivenFile(f) ==
    [format |-> f, data |-> <<>>, size |-> IF f = "bin" THEN 8 ELSE -1,
     len |-> 8, array |-> 8, meant |-> <<>>]

MCGiven == <<GivenFile("csv"), GivenFile("bin"), GivenFile("nc")>>

MCToolOptions ==
    {o \in [cycle : BOOLEAN, compress : BOOLEAN, decompress : BOOLEAN,
            residual : BOOLEAN, noWrite : BOOLEAN, named : BOOLEAN,
            inFormat : {"csv", "bin", "nc"}, outFormat : {"csv", "bin", "nc"},
            in : 1 .. 4] :
        /\ o.noWrite => ~o.residual /\ o.outFormat = "bin"
        /\ o.cycle => ~(o.compress /\ o.decompress)
        /\ ~o.named => "nc" \in {o.inFormat, o.outFormat} /\ ~o.residual
        /\ o.in = 2 => o.inFormat = "bin"
        /\ o.in = 3 => o.inFormat = "nc" }

MCPackedSizes == {5, 12}

-----------------------------------------------------------------------------
MCPoints == {-1, 2, 3}

(* The example has a line of each kind of dev/scil.conf. *)
MCPatterns    == <<"steps", "sin">>
MCTypes       == <<"0", "1">>
MCCompressors == <<"memcopy", "lz4">>
Num(s)  == <<"number", s>>
Word(s) == <<"word", s>>
MCExample ==
    <<<<Num("1"), Word("memcopy"), Num("10000"), Num("10000"), Num("1")>>,
      <<Num("0"), Word("abstol;lz4"), Num("300"), Num("600"), Num("0")>>>>
=============================================================================
