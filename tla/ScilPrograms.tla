---------------------------- MODULE ScilPrograms ----------------------------
(***************************************************************************)
(* The programs around the library, one at a time: the command line        *)
(* (ScilOptions), the CSV plugin (ScilCsv), runs of scil-compress          *)
(* (ScilTool), the two generators of training data (ScilGenerator) and     *)
(* scil-benchmark with the chooser (ScilBenchmark).  The others rest in an *)
(* initial state.                                                          *)
(***************************************************************************)
EXTENDS Integers, Sequences

CONSTANTS
    Tables, Options, CommandLines, Formats,             \* of ScilOptions
    Shapes, Files,                                      \* of ScilCsv
    ToolOptions, Given, ArraySize, PackedSizes, Runs,   \* of ScilTool
    Algos, Mults, Args, Points, SampleSize,             \* of ScilGenerator
    PatternNames, Types, Compressors, Example, NoFile,  \* of ScilBenchmark
    MaxRuns, MaxFaults

VARIABLES
    program,        \* "options", "csv", "tool", "generator" or "benchmark"
    argv, format, part, parsed, i, seen, error, printhelp, value, parse,
    step, ignoreHeader, file, written, line, x, y, refX, foundHeader, shape, dbl, stored,
    files, phase, opt, input, readSize, array, output, binary, buffSize, tmpSize, exit,
    main, state, stream, sample, algo, current, row, visited,
    pc, check_pattern, at, bak, conf, error_occured, status, results, published,
    runs

Parser    == INSTANCE ScilOptions WITH Lines <- CommandLines, phase <- parse
Csv       == INSTANCE ScilCsv WITH phase <- step
Tool      == INSTANCE ScilTool WITH Options <- ToolOptions
Generator == INSTANCE ScilGenerator WITH phase <- state, file <- stream
Benchmark == INSTANCE ScilBenchmark WITH Patterns <- PatternNames

ASSUME ProgramsAssumption ==
    /\ Parser!OptionsAssumption
    /\ Csv!CsvAssumption
    /\ Tool!ToolAssumption
    /\ Generator!GeneratorAssumption
    /\ Benchmark!BenchmarkAssumption

-----------------------------------------------------------------------------
parserVars    == <<argv, format, part, parsed, i, seen, error, printhelp, value, parse>>
csvVars       == <<step, ignoreHeader, file, written, line, x, y, refX, foundHeader, shape,
                   dbl, stored>>
toolVars      == <<files, phase, opt, input, readSize, array, output, binary, buffSize,
                   tmpSize, exit>>
generatorVars == <<main, state, stream, sample, algo, current, row, visited>>
benchmarkVars == <<pc, check_pattern, at, bak, conf, error_occured, status, results,
                   published, runs>>

vars == <<program, parserVars, csvVars, toolVars, generatorVars, benchmarkVars>>

Init ==
    /\ program \in {"options", "csv", "tool", "generator", "benchmark"}
    /\ Parser!Init /\ (program # "options" => argv = <<>> /\ format = <<"csv", "csv">>)
    /\ Csv!Init /\ (program # "csv" => ignoreHeader)
    /\ Tool!Init
    /\ Generator!Init /\ (program # "generator" => main = "data")
    /\ Benchmark!Init

Next ==
    /\ \/ /\ program = "options" /\ Parser!Next
          /\ UNCHANGED <<csvVars, toolVars, generatorVars, benchmarkVars>>
       \/ /\ program = "csv" /\ Csv!Next
          /\ UNCHANGED <<parserVars, toolVars, generatorVars, benchmarkVars>>
       \/ /\ program = "tool" /\ Tool!Next
          /\ UNCHANGED <<parserVars, csvVars, generatorVars, benchmarkVars>>
       \/ /\ program = "generator" /\ Generator!Next
          /\ UNCHANGED <<parserVars, csvVars, toolVars, benchmarkVars>>
       \/ /\ program = "benchmark" /\ Benchmark!Next
          /\ UNCHANGED <<parserVars, csvVars, toolVars, generatorVars>>
    /\ UNCHANGED program

Spec == Init /\ [][Next]_vars

-----------------------------------------------------------------------------
(* Properties *)

(* ScilOptions: what is accepted and set is what the command line says. *)
AnswerIsRight == Parser!AnswerIsRight

(* ScilCsv: what is written is read, and both passes agree. *)
ReadAsWritten == Csv!ReadAsWritten

(* ScilTool: what a run compressed, another one restores. *)
RoundTrip == Tool!RoundTrip

(* ScilGenerator: every combination, each line of one buffer. *)
DataIsComplete == Generator!DataIsComplete

(* ScilBenchmark: what a run leaves is what it measured. *)
OutcomeIsTrue == Benchmark!OutcomeIsTrue
=============================================================================
