----------------------------- MODULE ScilArrays ------------------------------
(***************************************************************************)
(* What works on arrays of numbers, one at a time: the quantizer and its   *)
(* algorithms (ScilQuantize), significant bits (ScilSigbits), validation   *)
(* (ScilValidate), the iteration (ScilGrid), the mutators (ScilMutators)   *)
(* and the characteristics of data (ScilStatistics).  The others rest in   *)
(* an initial state.                                                       *)
(***************************************************************************)
EXTENDS Integers, Sequences

CONSTANTS
    Elements,               \* of ScilQuantize and ScilSigbits
    Types, Tolerances, Denom, MaxCodeBits,
    Formats, MaskTop,
    Width, Length,          \* of ScilValidate
    Parts, Hints, Deviation, Ulps,
    Calls,                  \* of ScilGrid
    Cubes, Blocks,          \* of ScilMutators
    Arrays, Garbage         \* of ScilStatistics

VARIABLES
    walk,           \* "quantize", "sigbits", "validate", "grid", "mutators" or
                    \* "statistics"
    type, coding, tol, param, algo, source, stored, out_size, status, restored,
    format, packing, trip, bits, numbers, back, header, codes,
    pc, data_uncompressed, data_out, hints, lossless, threshold, element, accuracy, ret, again,
    place, iteration, pos, stackpos, visited,
    stage, dims, block, dim, data, todo,
    phase, array, current

Quantizer  == INSTANCE ScilQuantize WITH
                  phase <- coding, src <- source, ret <- status, out <- restored,
                  size <- out_size
Sigbits    == INSTANCE ScilSigbits WITH phase <- packing, src <- numbers, out <- back
Validation == INSTANCE ScilValidate WITH i <- element, a <- accuracy
Grid       == INSTANCE ScilGrid WITH phase <- place, call <- iteration
Mutators   == INSTANCE ScilMutators WITH
                  phase <- stage, l <- block, Arrays <- Cubes, Lengths <- Blocks
Statistics == INSTANCE ScilStatistics

ASSUME ArraysAssumption ==
    /\ Quantizer!QuantizeAssumption
    /\ Sigbits!SigbitsAssumption
    /\ Validation!ValidateAssumption
    /\ Grid!GridAssumption
    /\ Mutators!MutatorAssumption
    /\ Statistics!StatisticsAssumption

-----------------------------------------------------------------------------
quantizerVars  == <<type, coding, tol, param, algo, source, stored, out_size, status, restored>>
sigbitsVars    == <<format, packing, trip, bits, numbers, back, header, codes>>
validationVars == <<pc, data_uncompressed, data_out, hints, lossless, threshold, element,
                    accuracy, ret, again>>
gridVars       == <<place, iteration, pos, stackpos, visited>>
mutatorVars    == <<stage, dims, block, dim, data, todo>>
statVars       == <<phase, array, current>>

codecVars == <<quantizerVars, sigbitsVars>>
vars == <<walk, codecVars, validationVars, gridVars, mutatorVars, statVars>>

(* Where those rest that have several initial states *)
QuantizerRests ==
    type = (CHOOSE t \in Types : TRUE) /\ tol = (CHOOSE t \in Tolerances : TRUE)

SigbitsRest == format = (CHOOSE f \in Formats : TRUE) /\ bits = 0

ValidationRests ==
    /\ hints.absolute = 0 /\ hints.percent[1] = 0 /\ hints.finest = 0 /\ lossless
    /\ \A k \in DOMAIN data_uncompressed : data_uncompressed[k] = 0

Init ==
    /\ walk \in {"quantize", "sigbits", "validate", "grid", "mutators", "statistics"}
    /\ Quantizer!Init /\ (walk # "quantize" => QuantizerRests)
    /\ Sigbits!Init /\ (walk # "sigbits" => SigbitsRest)
    /\ Validation!Init /\ (walk # "validate" => ValidationRests)
    /\ Grid!Init /\ Mutators!Init /\ Statistics!Init

Iterating ==
    /\ walk = "grid" /\ Grid!Iterate
    /\ UNCHANGED <<walk, codecVars, validationVars, mutatorVars, statVars>>

Next ==
    /\ \/ /\ walk = "quantize" /\ Quantizer!Next
          /\ UNCHANGED <<sigbitsVars, validationVars, gridVars, mutatorVars, statVars>>
       \/ /\ walk = "sigbits" /\ Sigbits!Next
          /\ UNCHANGED <<quantizerVars, validationVars, gridVars, mutatorVars, statVars>>
       \/ /\ walk = "validate" /\ Validation!Next
          /\ UNCHANGED <<codecVars, gridVars, mutatorVars, statVars>>
       \/ /\ walk = "grid" /\ Grid!Next
          /\ UNCHANGED <<codecVars, validationVars, mutatorVars, statVars>>
       \/ /\ walk = "mutators" /\ Mutators!Next
          /\ UNCHANGED <<codecVars, validationVars, gridVars, statVars>>
       \/ /\ walk = "statistics" /\ Statistics!Next
          /\ UNCHANGED <<codecVars, validationVars, gridVars, mutatorVars>>
    /\ UNCHANGED walk

(* A thread that is in scilG_iter goes on. *)
Spec == Init /\ [][Next]_vars /\ WF_vars(Iterating)

-----------------------------------------------------------------------------
(* Properties *)

(* ScilQuantize: what comes back is within the tolerance, with whole codes. *)
QuantizedIsClose == Quantizer!QuantizedIsClose

(* ScilSigbits: the sign, the exponent and the bits asked for come back,   *)
(* and a second trip changes nothing.                                      *)
BitsSurvive == Sigbits!BitsSurvive

(* ScilValidate: what is accepted is within the absolute tolerance. *)
AcceptedMeetsAbsolute == Validation!AcceptedMeetsAbsolute

(* ScilValidate: the verdict, and the accuracy reported with it. *)
VerdictIsRight == Validation!VerdictIsRight

(* ScilGrid: the iteration visits its range, and each element once. *)
EveryElementOnce == Grid!EveryElementOnce

(* ScilGrid: the iteration ends. *)
IterationEnds == Grid!IterationEnds

(* ScilMutators: blocks of one value, or smooth between points, no NaN. *)
MutatedAsMeant == Mutators!MutatedAsMeant

(* ScilMutators: the interpolator reads no value that is still to change. *)
ReadsAreFinal == Mutators!ReadsAreFinal

(* ScilStatistics: largest step, deviation and median. *)
CharacteristicsAreRight == Statistics!CharacteristicsAreRight
=============================================================================
