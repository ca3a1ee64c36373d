---------------------------- MODULE ScilGenerator ---------------------------
(***************************************************************************)
(* The programs that make the training data of the chooser:                *)
(* src/src/tools/scil-generate-chooser-data.c ("data"), which draws        *)
(* samples, and scil-generate-chooser-data2.c ("data2"), which loops over  *)
(* the parameters of the patterns.  Each buffer goes through every         *)
(* compressor, and what is measured into one record, current_data, that is *)
(* written to the file line by line.                                       *)
(*                                                                         *)
(* Of what is measured the model keeps of which buffer and compressor it   *)
(* is.                                                                     *)
(***************************************************************************)
EXTENDS Integers

CONSTANTS
    Algos,          \* 7: the compressors are the methods 0 .. Algos
    Mults,          \* 12: the powers of 2 of generate_stddev_data, 0 .. Mults
    Args,           \* 16: the arguments of patterns, 1 .. Args
    Points,         \* point_a and point_b of generate_data
    SampleSize      \* SAMPLE_SIZE

GeneratorAssumption ==
    /\ Algos \in Nat /\ Mults \in Nat /\ Args \in Nat \ {0} /\ SampleSize \in Nat \ {0}
    /\ Points \subseteq Int

VARIABLES
    main,       \* which of the programs runs: "data" or "data2"
    phase,      \* what comes next
    file,       \* "null", "open" or "closed"
    sample,     \* parameters of the buffer: pattern (0 constant, 1 random,
                \* 2 steps, 3 sin, 4 simplexNoise), min, max, arg1, arg2;
                \* nr counts those of "data"
    algo,       \* i of evaluate_compression_algorithms
    current,    \* current_data: algo, and what the characteristics, the
                \* throughput and ratio of compression and the throughput of
                \* decompression are of
    row,        \* the line of the file just written
    visited     \* the samples so far (history)

vars == <<main, phase, file, sample, algo, current, row, visited>>

NoRun   == <<>>
NoRow   == <<>>
Patterns == 0 .. 4

Start == [nr |-> 0, pattern |-> 0, mult |-> 0, min |-> 0, max |-> 0, arg1 |-> 0, arg2 |-> 0]

-----------------------------------------------------------------------------
(* The loops of generate_stddev_data; mult stands for 2^(mult - 6). *)
Buffer(pattern, mult, arg1, arg2) ==
    [nr |-> 0, pattern |-> pattern, mult |-> mult,
     min |-> IF pattern = 0 THEN 0 ELSE -2 ^ mult, max |-> 2 ^ mult,
     arg1 |-> arg1, arg2 |-> arg2]

FirstOf(pattern, mult) ==
    Buffer(pattern, mult, IF pattern < 2 THEN 0 ELSE 1, IF pattern < 3 THEN 0 ELSE 1)

LastMult(s) == s.mult = Mults

HasNextArg2(s) == s.pattern > 2 /\ s.arg2 < Args
HasNextArg1(s) == s.pattern >= 2 /\ s.arg1 < Args

Following(s) ==
    CASE HasNextArg2(s) -> Buffer(s.pattern, s.mult, s.arg1, s.arg2 + 1)
      [] ~HasNextArg2(s) /\ HasNextArg1(s) ->
            Buffer(s.pattern, s.mult, s.arg1 + 1, IF s.pattern > 2 THEN 1 ELSE 0)
      [] ~HasNextArg2(s) /\ ~HasNextArg1(s) /\ ~LastMult(s) ->
            FirstOf(s.pattern, s.mult + 1)
      [] ~HasNextArg2(s) /\ ~HasNextArg1(s) /\ LastMult(s) /\ s.pattern < 4 ->
            FirstOf(s.pattern + 1, 0)
      [] OTHER -> Start

(* generate_data: the else branch assigns the same point to each as the    *)
(* branch before it.  A constant has no maximum: -INFINITY.                *)
Drawn(nr) ==
    {[Start EXCEPT !.nr = nr, !.pattern = p, !.min = a,
                   !.max = IF p = 0 THEN -1000 ELSE b] :
        p \in Patterns, a \in Points, b \in Points}

-----------------------------------------------------------------------------
(* main: "data" opens its file, "data2" writes the heading before there is *)
(* one, which a library that does not check does not survive.              *)
Open ==
    /\ phase = "begin"
    /\ main = "data"
    /\ file' = "open"
    /\ phase' = "draw"
    /\ UNCHANGED <<main, sample, algo, current, row, visited>>

WriteHeading ==
    /\ phase = "begin"
    /\ main = "data2"
    /\ phase' \in {"crashed", "generate"}
    /\ UNCHANGED <<main, file, sample, algo, current, row, visited>>

(* The file cannot be opened. *)
OpenFails ==
    /\ phase \in {"begin", "generate"}
    /\ phase = "begin" => main = "data"
    /\ phase' = "exit"
    /\ UNCHANGED <<main, file, sample, algo, current, row, visited>>

(* generate_stddev_data up to its first buffer *)
GenerateStddev ==
    /\ phase = "generate"
    /\ current' = [current EXCEPT !.of = NoRun, !.comp = NoRun, !.decomp = NoRun]
    /\ file' = "open"
    /\ sample' = FirstOf(0, 0)
    /\ phase' = "create"
    /\ UNCHANGED <<main, algo, row, visited>>

(* generate_data up to its buffer *)
Draw ==
    /\ phase = "draw"
    /\ sample.nr < SampleSize
    /\ sample' \in Drawn(sample.nr + 1)
    /\ phase' = "create"
    /\ UNCHANGED <<main, file, algo, current, row, visited>>

(* scilPa_create_pattern and set_data_characteristics *)
CreatePattern ==
    /\ phase = "create"
    /\ current' = [current EXCEPT !.of = sample]
    /\ visited' = IF main = "data2" THEN visited \cup {sample} ELSE visited
    /\ algo' = 0
    /\ phase' = "compress"
    /\ UNCHANGED <<main, file, sample, row>>

NextSample ==
    IF main = "data" THEN phase' = "draw" /\ UNCHANGED sample
    ELSE /\ sample' = Following(sample)
         /\ phase' = IF sample' = Start THEN "close" ELSE "create"

NextAlgo ==
    IF algo < Algos
      THEN algo' = algo + 1 /\ phase' = "compress" /\ UNCHANGED sample
      ELSE NextSample /\ UNCHANGED algo

(* Mutant: no return after "Compression error". *)
CompressGoesOn ==
    /\ phase = "compress"
    /\ \/ /\ current' = [current EXCEPT !.algo = algo, !.comp = <<sample, algo>>]
          /\ phase' = "decompress"
       \/ /\ current' = [current EXCEPT !.algo = algo]
          /\ phase' = "decompress"
    /\ UNCHANGED <<main, file, sample, algo, row, visited>>

(* evaluate_compression_algorithm: an error ends it before anything is     *)
(* measured.                                                               *)
Compress ==
    /\ phase = "compress"
    /\ \/ /\ current' = [current EXCEPT !.algo = algo, !.comp = <<sample, algo>>]
          /\ phase' = "decompress"
          /\ UNCHANGED <<sample, algo>>
       \/ /\ current' = [current EXCEPT !.algo = algo]
          /\ NextAlgo
    /\ row' = NoRow
    /\ UNCHANGED <<main, file, visited>>

WriteLine ==
    /\ row' = [current EXCEPT !.decomp = <<sample, algo>>]
    /\ current' = row'

Decompress ==
    /\ phase = "decompress"
    /\ \/ WriteLine
       \/ row' = NoRow /\ UNCHANGED current
    /\ NextAlgo
    /\ UNCHANGED <<main, file, visited>>

(* close_data_file, and main of "data2" closes once more *)
CloseDataFile ==
    /\ phase = "close"
    /\ file' = "closed"
    /\ phase' = IF main = "data" THEN "exit" ELSE "closeagain"
    /\ UNCHANGED <<main, sample, algo, current, row, visited>>

CloseAgain ==
    /\ phase = "closeagain"
    /\ phase' \in {"exit", "crashed"}
    /\ UNCHANGED <<main, file, sample, algo, current, row, visited>>

LastDrawn ==
    /\ phase = "draw"
    /\ sample.nr = SampleSize
    /\ phase' = "close"
    /\ UNCHANGED <<main, file, sample, algo, current, row, visited>>

Init ==
    /\ main \in {"data", "data2"}
    /\ phase = "begin"
    /\ file = "null"
    /\ sample = Start
    /\ algo = 0
    /\ current = [algo |-> -1, of |-> NoRun, comp |-> NoRun, decomp |-> NoRun]
    /\ row = NoRow
    /\ visited = {}

Next ==
    \/ Open \/ WriteHeading \/ OpenFails
    \/ GenerateStddev \/ Draw \/ LastDrawn
    \/ CreatePattern \/ Compress \/ Decompress
    \/ CloseDataFile \/ CloseAgain

Spec == Init /\ [][Next]_vars

-----------------------------------------------------------------------------
(* Properties *)

(* A line tells of one buffer and one compressor: no characteristic, ratio *)
(* or throughput in it is left from another one, whatever failed before.   *)
LineOfOneRun ==
    row # NoRow =>
        /\ row.comp = <<row.of, row.algo>>
        /\ row.decomp = <<row.of, row.algo>>

(* The combinations the nested loops of data2 are to visit: patterns 0 and *)
(* 1 have no argument, steps has one, the others two.                      *)
Combinations ==
    {Buffer(p, m, a, b) :
        p \in Patterns, m \in 0 .. Mults, a \in 0 .. Args, b \in 0 .. Args}

Meant(s) ==
    /\ s.arg1 = 0 <=> s.pattern < 2
    /\ s.arg2 = 0 <=> s.pattern < 3

(* The loops visit each of them, and none twice. *)
EachCombinationOnce ==
    main = "data2" =>
        /\ phase = "create" => sample \notin visited
        /\ phase = "close" => visited = {s \in Combinations : Meant(s)}

(* The training data has every combination, each line of its own run. *)
DataIsComplete == LineOfOneRun /\ EachCombinationOnce
=============================================================================
