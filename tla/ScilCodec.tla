------------------------------ MODULE ScilCodec ------------------------------
(***************************************************************************)
(* What scil_compress and scil_decompress promise their caller             *)
(* (src/src/scil.h), without buffers, trailer items or ids: compressing    *)
(* applies the stages of a chain one after the other, decompressing undoes *)
(* the one applied last, and a decompression that comes to its end has     *)
(* given the data back.  Any call may fail instead; nothing is promised of *)
(* its output then.  ScilPipeline implements this module.                  *)
(***************************************************************************)
EXTENDS Naturals, Sequences

CONSTANT Lists      \* the lists of stages a context may hold

VARIABLES
    call,           \* which call runs, or how the last one ended
    stages,         \* the stages of the context's chain
    stack           \* the stages whose effect is on the data, oldest first

codecvars == <<call, stages, stack>>

CodecInit ==
    /\ call = "compress"
    /\ stages \in Lists
    /\ stack = <<>>

(* The next stage is applied; after the last one the data is stored.       *)
Apply ==
    /\ call = "compress"
    /\ stack' = Append(stack, stages[Len(stack) + 1])
    /\ call' = IF Len(stack') = Len(stages) THEN "stored" ELSE "compress"
    /\ UNCHANGED stages

(* Stored data is read, once or again.                                     *)
Open ==
    /\ call \in {"stored", "restored"}
    /\ call' = "decompress"
    /\ stack' = stages
    /\ UNCHANGED stages

(* The stage applied last is undone; after the first one the data is back. *)
Revert ==
    /\ call = "decompress"
    /\ stack' = SubSeq(stack, 1, Len(stack) - 1)
    /\ call' = IF stack' = <<>> THEN "restored" ELSE "decompress"
    /\ UNCHANGED stages

Fail ==
    /\ call \in {"compress", "decompress"}
    /\ call' = "failed"
    /\ stack' = <<>>
    /\ UNCHANGED stages

(* The caller compresses anew.                                             *)
Restart ==
    /\ call \in {"restored", "failed"}
    /\ call' = "compress"
    /\ stages' \in Lists
    /\ stack' = <<>>

CodecNext == Apply \/ Open \/ Revert \/ Fail \/ Restart

CodecSpec == CodecInit /\ [][CodecNext]_codecvars
=============================================================================
