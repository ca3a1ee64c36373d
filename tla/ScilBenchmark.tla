--------------------------- MODULE ScilBenchmark ---------------------------
(***************************************************************************)
(* scil-benchmark (src/src/tools/scil-benchmark.c) and its file scil.conf: *)
(* it measures all patterns, datatypes and compressors and replaces the    *)
(* file, which the algorithm chooser of any other process may read at any  *)
(* moment.  scil-benchmark may die between any two steps: codecs assert.   *)
(*                                                                         *)
(* A line is the sequence of its words, each without the ';' behind it;    *)
(* the comment at the top of the file and the lines of hardware limits are *)
(* left out.                                                               *)
(***************************************************************************)
EXTENDS Integers, Sequences, SequencesExt

CONSTANTS
    Patterns,       \* names of the library of patterns
    Types,          \* the datatypes below SCIL_DATATYPE_NUMERIC_MAX
    Compressors,    \* names of the compressors
    Example,        \* a configuration that is installed or found, or NoFile
    NoFile,
    MaxRuns,        \* bound on the runs of scil-benchmark
    MaxFaults       \* bound on the combinations that fail in a run

BenchmarkAssumption ==
    /\ \A s \in {Patterns, Types, Compressors} :
          s \in Seq(STRING) /\ Len(s) > 0 /\ IsInjective(s)
    /\ NoFile \notin Seq(Seq({"number", "word"} \X STRING))
    /\ {MaxRuns, MaxFaults} \subseteq Nat

VARIABLES
    pc,             \* "idle", "pattern", "measure", "close"
    check_pattern,  \* SCIL_PATTERN_TO_USE, or "" where it is not set
    at,             \* the pattern, the datatype and the compressor measured
    bak, conf,      \* scil.conf.bak and scil.conf
    error_occured,
    status,         \* what the last run of scil-benchmark ended with
    results,        \* what this run found, combination by combination
    published,      \* the results of the run that wrote scil.conf: none or one
    runs

vars == <<pc, check_pattern, at, bak, conf, error_occured, status, results,
          published, runs>>

Combination == (DOMAIN Patterns) \X (DOMAIN Types) \X (DOMAIN Compressors)
Nothing     == [c \in {} |-> ""]

Num(s)  == <<"number", s>>
Word(s) == <<"word", s>>

(* What scil-benchmark prints of a combination. *)
Line(c) ==
    <<Num("r"), Num(Types[c[2]]), Word(Patterns[c[1]]), Word(Compressors[c[3]]),
      Num("c"), Num("d"), Num("ratio")>>

-----------------------------------------------------------------------------

Init ==
    /\ pc = "idle"
    /\ check_pattern = ""
    /\ at = <<1, 1, 1>>
    /\ bak = NoFile /\ conf = Example
    /\ error_occured = FALSE
    /\ status = "none"
    /\ results = Nothing /\ published = {}
    /\ runs = 0

(* Mutant: the file of a run that died is written on. *)
StartAppending ==
    /\ pc = "idle" /\ runs < MaxRuns
    /\ runs' = runs + 1
    /\ check_pattern' \in Range(Patterns) \cup {"", "unknown"}
    /\ bak' = IF bak = NoFile THEN <<>> ELSE bak
    /\ at' = <<1, 1, 1>> /\ results' = Nothing /\ error_occured' = FALSE
    /\ pc' = "pattern"
    /\ UNCHANGED <<conf, status, published>>

Start ==
    /\ pc = "idle" /\ runs < MaxRuns
    /\ runs' = runs + 1
    /\ check_pattern' \in Range(Patterns) \cup {"", "unknown"}
    /\ bak' = <<>>
    /\ at' = <<1, 1, 1>> /\ results' = Nothing /\ error_occured' = FALSE
    /\ pc' = "pattern"
    /\ UNCHANGED <<conf, status, published>>

(* The next pattern is skipped or measured; behind the last the file is    *)
(* closed.                                                                 *)
Pattern ==
    /\ pc = "pattern"
    /\ IF at[1] > Len(Patterns)
       THEN pc' = "close" /\ at' = at
       ELSE IF check_pattern \in {"", Patterns[at[1]]}
       THEN pc' = "measure" /\ at' = at
       ELSE pc' = "pattern" /\ at' = <<at[1] + 1, 1, 1>>
    /\ UNCHANGED <<check_pattern, bak, conf, error_occured, status, results, published,
                   runs>>

(* The loops over datatypes and compressors. *)
Advance ==
    IF at[3] < Len(Compressors)
    THEN at' = [at EXCEPT ![3] = @ + 1] /\ pc' = pc
    ELSE IF at[2] < Len(Types)
    THEN at' = [at EXCEPT ![2] = @ + 1, ![3] = 1] /\ pc' = pc
    ELSE at' = <<at[1] + 1, 1, 1>> /\ pc' = "pattern"

Faults == Cardinality({c \in DOMAIN results : results[c] # "ok"})

(* A compressor the context refuses is passed over, one that fails to      *)
(* compress or decompress noted; for the others a line is written.         *)
Measure ==
    /\ pc = "measure"
    /\ \E r \in {"ok", "invalid", "failed"} :
          /\ r = "ok" \/ Faults < MaxFaults
          /\ results' = [c \in DOMAIN results \cup {at} |-> IF c = at THEN r ELSE results[c]]
          /\ bak' = IF r = "ok" THEN Append(bak, Line(at)) ELSE bak
          /\ error_occured' = (error_occured \/ r = "failed")
    /\ Advance
    /\ UNCHANGED <<check_pattern, conf, status, published, runs>>

Ended == pc' = "idle" /\ UNCHANGED <<check_pattern, at, error_occured, results, runs>>

(* The file is closed and renamed, or cannot be renamed. *)
Replace ==
    /\ pc = "close"
    /\ conf' = bak /\ bak' = NoFile
    /\ published' = {results}
    /\ status' = IF error_occured THEN "errors" ELSE "success"
    /\ Ended

ReplaceFails ==
    /\ pc = "close"
    /\ status' = "not renamed"
    /\ UNCHANGED <<bak, conf, published>>
    /\ Ended

(* An assertion fails: what was not flushed is lost. *)
Die ==
    /\ pc # "idle"
    /\ \E n \in 0 .. Len(bak) : bak' = SubSeq(bak, 1, n)
    /\ status' = "died"
    /\ UNCHANGED <<conf, published>>
    /\ Ended

Next ==
    \/ Start \/ Pattern \/ Measure \/ Replace \/ ReplaceFails \/ Die

Spec == Init /\ [][Next]_vars

-----------------------------------------------------------------------------
(* Properties *)

(* The order of the loops *)
Earlier(c, d) ==
    \/ c[1] < d[1]
    \/ c[1] = d[1] /\ c[2] < d[2]
    \/ c[1] = d[1] /\ c[2] = d[2] /\ c[3] < d[3]

Succeeded(r) == {c \in DOMAIN r : r[c] = "ok"}

(* These are the lines a run has to write that found these results, in the *)
(* order of the loops.                                                     *)
AreLinesOf(lines, r) ==
    /\ lines \in Seq(Range(lines))
    /\ Len(lines) = Cardinality(Succeeded(r))
    /\ \A c \in Succeeded(r) :
          lines[Cardinality({d \in Succeeded(r) : Earlier(d, c)}) + 1] = Line(c)

(* Whatever runs die or fail, scil.conf is the one that was found or has   *)
(* exactly the lines of one run that came to its end, in their order: the  *)
(* chooser never reads half a file, or what a dead run has left.           *)
ConfIsWhole ==
    /\ published = {} => conf = Example
    /\ \A r \in published : AreLinesOf(conf, r)

(* A run that replaced the file has measured every datatype and compressor *)
(* of every pattern it was to use, and of no other.                        *)
NothingSkipped ==
    \A r \in published :
        \E chosen \in SUBSET (DOMAIN Patterns) :
            /\ Cardinality(chosen) \in {0, 1, Len(Patterns)}
            /\ DOMAIN r = {c \in Combination : c[1] \in chosen}

(* A run that came to its end tells whether a compressor failed in it, in  *)
(* whichever combination, and does not take a refused one for a failure.   *)
ExitTellsErrors ==
    pc = "idle" /\ status \in {"success", "errors"} =>
        (status = "errors" <=> \E c \in DOMAIN results : results[c] = "failed")

(* What a run leaves, in scil.conf and as its status, is what it measured. *)
OutcomeIsTrue == ConfIsWhole /\ NothingSkipped /\ ExitTellsErrors
=============================================================================
