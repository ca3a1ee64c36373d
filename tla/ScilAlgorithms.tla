--------------------------- MODULE ScilAlgorithms ---------------------------
(***************************************************************************)
(* The registry of algorithms (src/src/util/scil-compressors.c) and the    *)
(* order in which a compression chain may combine them.  Chains are lists  *)
(*      PF*  ( C  PS* )?  D?  B?                                           *)
(* of first preconditioners, a converter with its second preconditioners,  *)
(* a data compressor and a byte compressor.                                *)
(***************************************************************************)
EXTENDS Naturals, Sequences

CONSTANTS
    Algo,       \* the registered algorithms (algo_array)
    AlgoType    \* compressor_type of each algorithm

PF == "preconditioner_first"
C  == "converter"
PS == "preconditioner_second"
D  == "datatypes"
B  == "individual_bytes"
CompressorType == {PF, C, PS, D, B}

ASSUME AlgoAssumption == AlgoType \in [Algo -> CompressorType]

(* The order of the types in a chain, and on the way back from the right.  *)
Rank(a) == CASE AlgoType[a] = PF -> 0
             [] AlgoType[a] = C  -> 1
             [] AlgoType[a] = PS -> 2
             [] AlgoType[a] = D  -> 3
             [] OTHER            -> 4

Outermost == 5                      \* above every rank

Has(list, type) == \E i \in 1 .. Len(list) : AlgoType[list[i]] = type

(* What scilI_create_chain accepts: types in order, one converter, one     *)
(* data compressor and one byte compressor at most, second preconditioners *)
(* only behind a converter.                                                *)
WellFormed(list) ==
    /\ \A i, j \in 1 .. Len(list) : i < j =>
          \/ Rank(list[i]) < Rank(list[j])
          \/ AlgoType[list[i]] \in {PF, PS} /\ AlgoType[list[j]] = AlgoType[list[i]]
    /\ Has(list, PS) => Has(list, C)

(* A chain ready for use: its algorithms in the order they are applied     *)
(* (total_size is their number) and how many first preconditioners it      *)
(* starts with (precond_first_count).                                      *)
IsChain(ch) ==
    /\ ch = [stages |-> ch.stages, first |-> ch.first]
    /\ ch.stages \in Seq(Algo) \ {<<>>}
    /\ WellFormed(ch.stages)
    /\ ch.first \in 0 .. Len(ch.stages)
    /\ \A i \in 1 .. Len(ch.stages) :
          AlgoType[ch.stages[i]] = PF <=> i <= ch.first
=============================================================================
