---------------------------- MODULE ScilPipeline ----------------------------
(***************************************************************************)
(* scil_compress and scil_decompress (src/src/scil.c) as the walk of one   *)
(* compression chain through a handful of buffers.  A chain is a list of   *)
(* algorithms  PF* C? D? B?  (first preconditioners, a converter, a data   *)
(* compressor, a byte compressor).  Compression applies it left to right   *)
(* and leaves, to the right of the data, one TRAILER ITEM per stage: the   *)
(* stage's private header followed by its compressor id.  Decompression    *)
(* knows only the chain length, the buffer and its size: it reads the ids  *)
(* from the right and undoes the stages one by one.                        *)
(*                                                                         *)
(* Buffers are disjoint here and large enough; addresses, sizes and the    *)
(* overlap of "dest" and "buff_tmp" are the subject of ScilArena.          *)
(*                                                                         *)
(* A content is symbolic: applied[b] is the list of algorithms the         *)
(* elements of b went through (<<>> is the user's data, Junk marks bytes   *)
(* that are not such a result) and trail[b][i] is the i-th trailer item    *)
(* of b.  A stage's decompressor undoes its own compressor exactly: the    *)
(* loss of a lossy algorithm happens when it compresses.                   *)
(***************************************************************************)
EXTENDS ScilAlgorithms

CONSTANTS
    Chains,     \* the chains scilI_create_chain may leave in a context
    Junk,       \* bytes that are no result of the pipeline
    MaxStages   \* longest chain considered

ASSUME PipelineAssumption == Junk \notin Algo /\ MaxStages \in Nat

(* Chains as ScilChain builds them.  No registered algorithm is a second   *)
(* preconditioner.                                                         *)
ASSUME ChainsAssumption ==
    \A ch \in Chains :
        /\ IsChain(ch)
        /\ Len(ch.stages) <= MaxStages
        /\ ~Has(ch.stages, PS)

Items  == 1 .. MaxStages
Term   == Seq(Algo \cup {Junk})
Phases == {"compress", "stored", "decompress",
           "restored", "stage_error", "buffer_error"}

(* "source" is the user's array; "dest" the compressed buffer, which the   *)
(* reader sees as src_adj; "out" is the array decompression fills.         *)
Buffers == {"source", "dest", "buff_tmp", "out", "buff_tmp1", "buff_tmp2"}

VARIABLES
    phase,      \* where the caller is; "stored" is between the two calls
    chain,      \* ctx->chain during compression
    total,      \* total_compressors: dest[0], then source[0]
    remaining,  \* remaining_compressors
    items,      \* trailer items that input_size/out_size account for
    applied,    \* buffer -> algorithms its elements went through
    trail,      \* buffer -> trailer item at each position
    short,      \* buffer -> do the items start before offset datatypes_size?
    gate,       \* decompression: rank of the last stage undone (the place in
                \* scil_decompress that control has reached)
    algo,       \* decompression: the algorithm whose id was read last
    hbuf,       \* decompression: the buffer "header" points into
    hpos        \* decompression: the item "header" points at

bufvars  == <<applied, trail, short>>
readvars == <<gate, algo, hbuf, hpos>>
vars == <<phase, chain, total, remaining, items, applied, trail, short,
          gate, algo, hbuf, hpos>>

-----------------------------------------------------------------------------
(* Mutant: the parity test forgets is_src. *)
PickBufferSameParity(is_src, tot, remain, src, dest, buff1, buff2) ==
    IF remain = tot /\ is_src = 1 THEN src
    ELSE IF remain = 1 /\ is_src = 0 THEN dest
    ELSE IF remain % 2 = 0 THEN buff1
    ELSE buff2

(* pick_buffer, with is_src \in {0, 1} as in the code. *)
PickBuffer(is_src, tot, remain, src, dest, buff1, buff2) ==
    IF remain = tot /\ is_src = 1 THEN src
    ELSE IF remain = 1 /\ is_src = 0 THEN dest
    ELSE IF remain % 2 = is_src THEN buff1
    ELSE buff2

(* Mutants: the scratch buffers of decompression are swapped, or the call  *)
(* is copied from compression, where the last scratch buffer is dest.      *)
DDstSwapped(r) == PickBuffer(0, total, r, "dest", "out", "buff_tmp2", "buff_tmp1")
DDstCopied(r) == PickBuffer(0, total, r, "dest", "out", "buff_tmp1", "dest")

(* The two ways it is called: while compressing, dest is also buff2. *)
CSrc(r) == PickBuffer(1, total, r, "source", "dest", "buff_tmp", "dest")
CDst(r) == PickBuffer(0, total, r, "source", "dest", "buff_tmp", "dest")
DSrc(r) == PickBuffer(1, total, r, "dest", "out", "buff_tmp1", "buff_tmp2")
DDst(r) == PickBuffer(0, total, r, "dest", "out", "buff_tmp1", "buff_tmp2")

(* Mutant: off by one in the stage whose destination collects the items. *)
HeaderBufferNext == CDst(total - chain.first)

(* The buffer that collects the items of all first preconditioners: the    *)
(* one the last of them writes its data to.                                *)
HeaderBuffer == CDst(1 + total - chain.first)

Stage == total - remaining + 1      \* the stage that runs next

(* Decompressing a with something that is not the result of a gives junk. *)
Undo(a, term) == IF term # <<>> /\ term[Len(term)] = a
                 THEN SubSeq(term, 1, Len(term) - 1)
                 ELSE <<Junk>>

(* Writing datatypes_size bytes at the start of b destroys its first items *)
(* when they start below that offset; how many depends on their sizes.     *)
Cuts(b) == IF short[b] THEN Items ELSE {0}
Clobbered(b, cut) == [i \in Items |-> IF i <= cut THEN Junk ELSE trail[b][i]]

-----------------------------------------------------------------------------
(* scil_compress: one action per pass of a stage. *)

Compressing(type) ==
    /\ phase = "compress"
    /\ remaining > 0
    /\ AlgoType[chain.stages[Stage]] = type

(* What follows each stage, and the end of the call after the last one. *)
StageCompressed ==
    /\ remaining' = remaining - 1
    /\ phase' = IF remaining = 1 THEN "stored" ELSE "compress"
    /\ UNCHANGED <<chain, total, readvars>>

(* A first preconditioner writes its elements to dst and its item to the   *)
(* right of the elements of the buffer the last preconditioner ends in.    *)
CompressFirst ==
    /\ Compressing(PF)
    /\ LET a == chain.stages[Stage] IN
       /\ applied' = [applied EXCEPT ![CDst(remaining)] =
                                        Append(applied[CSrc(remaining)], a)]
       /\ trail' = [trail EXCEPT ![HeaderBuffer][Stage] = a]
       /\ short' = [short EXCEPT ![HeaderBuffer] = FALSE]
       /\ items' = items + 1
    /\ StageCompressed

(* The converter and the data compressor take the elements and carry over  *)
(* the items that input_size counts, then add their own.                   *)
Preserving(a) ==
    trail' = [trail EXCEPT ![CDst(remaining)] =
                [i \in Items |->
                    IF i <= items THEN trail[CSrc(remaining)][i]
                    ELSE IF i = items + 1 THEN a
                    ELSE trail[CDst(remaining)][i]]]

(* The converter's result, an int64_t per element, is never shorter than   *)
(* the elements.                                                           *)
CompressConvert ==
    /\ Compressing(C)
    /\ LET a == chain.stages[Stage] IN
       /\ applied' = [applied EXCEPT ![CDst(remaining)] =
                                        Append(applied[CSrc(remaining)], a)]
       /\ Preserving(a)
       /\ short' = [short EXCEPT ![CDst(remaining)] = FALSE]
       /\ items' = items + 1
    /\ StageCompressed

(* A data compressor reads dims elements of the datatype.  After a         *)
(* converter these are only the leading bytes of what the converter wrote. *)
CompressData ==
    /\ Compressing(D)
    /\ LET a == chain.stages[Stage]
           converted == Stage > 1 /\ AlgoType[chain.stages[Stage - 1]] = C
           elements == IF converted THEN <<Junk>> ELSE applied[CSrc(remaining)]
       IN
       /\ applied' = [applied EXCEPT ![CDst(remaining)] = Append(elements, a)]
       /\ Preserving(a)
       /\ \E s \in BOOLEAN : short' = [short EXCEPT ![CDst(remaining)] = s]
       /\ items' = items + 1
    /\ StageCompressed

(* The byte compressor packs all input_size bytes, items included, into    *)
(* dest.                                                                   *)
CompressBytes ==
    /\ Compressing(B)
    /\ LET a == chain.stages[Stage]
           src == CSrc(remaining) IN
       /\ applied' = [applied EXCEPT !["dest"] = Append(applied[src], a)]
       /\ trail' = [trail EXCEPT !["dest"] =
                      [i \in Items |-> IF i <= items THEN trail[src][i]
                                       ELSE IF i = items + 1 THEN a
                                       ELSE trail["dest"][i]]]
       /\ short' = [short EXCEPT !["dest"] = short[src]]
       /\ items' = items + 1
    /\ StageCompressed

(* A stage returns an error (precision, size): scil_compress returns it. *)
CompressError ==
    /\ phase = "compress"
    /\ phase' = "stage_error"
    /\ UNCHANGED <<chain, total, remaining, items, bufvars, readvars>>

-----------------------------------------------------------------------------
(* scil_decompress *)

(* Entry: the chain length is read and the id at the right end.  A stored  *)
(* buffer may be read again.                                               *)
DecompressStart ==
    /\ phase \in {"stored", "restored"}
    /\ phase' = "decompress"
    /\ remaining' = total
    /\ gate' = Outermost
    /\ algo' = trail["dest"][items]
    /\ hbuf' = "dest"
    /\ hpos' = items
    /\ UNCHANGED <<chain, total, items, bufvars>>

(* The branches of scil_decompress stand in the order B, D, C, PF*; each   *)
(* but the last is passed once.                                            *)
Dispatchable(a) == a \in Algo /\ (Rank(a) < gate \/ AlgoType[a] = PF)

Decompressing(type) ==
    /\ phase = "decompress"
    /\ Dispatchable(algo)
    /\ AlgoType[algo] = type

(* Mutant: "header" stays in the packed buffer after unpacking. *)
FetchNextOldHeader(tr, b, pos) ==
    /\ remaining' = remaining - 1
    /\ gate' = Rank(algo)
    /\ UNCHANGED hbuf
    /\ IF remaining = 1
       THEN phase' = "restored" /\ UNCHANGED <<algo, hpos>>
       ELSE /\ algo' = tr[b][pos]
            /\ hpos' = pos
            /\ UNCHANGED phase
    /\ UNCHANGED <<chain, total, items>>

(* After a stage the id to the left of the item just used is fetched, if a *)
(* stage is left.  tr is the trailer after the stage wrote its result.     *)
FetchNext(tr, b, pos) ==
    /\ remaining' = remaining - 1
    /\ gate' = Rank(algo)
    /\ hbuf' = b
    /\ IF remaining = 1
       THEN phase' = "restored" /\ UNCHANGED <<algo, hpos>>
       ELSE /\ algo' = tr[b][pos]
            /\ hpos' = pos
            /\ UNCHANGED phase
    /\ UNCHANGED <<chain, total, items>>

(* Unpacking gives back everything that was packed, and "header" moves     *)
(* into the result.                                                        *)
DecompressBytes ==
    /\ Decompressing(B)
    /\ LET src == DSrc(remaining)
           dst == DDst(remaining) IN
       /\ applied' = [applied EXCEPT ![dst] = Undo(algo, applied[src])]
       /\ trail' = [trail EXCEPT ![dst] = trail[src]]
       /\ short' = [short EXCEPT ![dst] = short[src]]
       /\ FetchNext(trail', dst, hpos - 1)

(* A data compressor or a converter rebuilds the elements in dst. *)
DecompressElements(type) ==
    /\ Decompressing(type)
    /\ LET src == DSrc(remaining)
           dst == DDst(remaining) IN
       /\ applied' = [applied EXCEPT ![dst] = Undo(algo, applied[src])]
       /\ \E cut \in Cuts(dst) :
             trail' = [trail EXCEPT ![dst] = Clobbered(dst, cut)]
       /\ FetchNext(trail', hbuf, hpos - 1)
    /\ UNCHANGED short

DecompressData    == DecompressElements(D)
DecompressConvert == DecompressElements(C)

(* A first preconditioner writes dst, then parses its own header: it finds *)
(* its item there or reports SCIL_BUFFER_ERR.                              *)
DecompressFirst ==
    /\ Decompressing(PF)
    /\ LET src == DSrc(remaining)
           dst == DDst(remaining) IN
       /\ applied' = [applied EXCEPT ![dst] = Undo(algo, applied[src])]
       /\ \E cut \in Cuts(dst) :
             trail' = [trail EXCEPT ![dst] = Clobbered(dst, cut)]
       /\ IF trail'[hbuf][hpos] = algo
          THEN FetchNext(trail', hbuf, hpos - 1)
          ELSE /\ phase' = "buffer_error"
               /\ UNCHANGED <<chain, total, remaining, items, readvars>>
    /\ UNCHANGED short

(* SCIL_BUFFER_ERR from the dispatch: the byte read as an id is none of a  *)
(* registered algorithm (CHECK_COMPRESSOR_ID), or its type has no branch   *)
(* left.  An item that was overwritten always ends here: should its id     *)
(* byte name a preconditioner by accident, the header beside it does not   *)
(* parse.                                                                  *)
DecompressBadId ==
    /\ phase = "decompress"
    /\ ~Dispatchable(algo)
    /\ phase' = "buffer_error"
    /\ UNCHANGED <<chain, total, remaining, items, bufvars, readvars>>

(* Mutant: after an error of a stage the call starts over. *)
DecompressErrorRetry ==
    /\ phase = "decompress"
    /\ Dispatchable(algo)
    /\ remaining' = total
    /\ gate' = Outermost
    /\ algo' = trail["dest"][items]
    /\ hbuf' = "dest"
    /\ hpos' = items
    /\ UNCHANGED <<phase, chain, total, items, bufvars>>

(* A stage returns an error of its own. *)
DecompressError ==
    /\ phase = "decompress"
    /\ Dispatchable(algo)
    /\ phase' = "stage_error"
    /\ UNCHANGED <<chain, total, remaining, items, bufvars, readvars>>

-----------------------------------------------------------------------------
(* Mutant: the trailer count of the previous call is kept. *)
CompressStartStale ==
    /\ phase \in {"restored", "stage_error", "buffer_error"}
    /\ phase' = "compress"
    /\ \E ch \in Chains :
          /\ chain' = ch
          /\ total' = Len(ch.stages)
          /\ remaining' = Len(ch.stages)
    /\ UNCHANGED <<items, bufvars, readvars>>

(* The caller starts over with new data, the buffers as the last call left *)
(* them.  scil_compress stores the chain length in dest[0].                *)
CompressStart ==
    /\ phase \in {"restored", "stage_error", "buffer_error"}
    /\ phase' = "compress"
    /\ \E ch \in Chains :
          /\ chain' = ch
          /\ total' = Len(ch.stages)
          /\ remaining' = Len(ch.stages)
    /\ items' = 0
    /\ UNCHANGED <<bufvars, readvars>>

Init ==
    /\ phase = "compress"
    /\ chain \in Chains
    /\ total = Len(chain.stages)
    /\ remaining = Len(chain.stages)
    /\ items = 0
    /\ applied = [b \in Buffers |-> IF b = "source" THEN <<>> ELSE <<Junk>>]
    /\ trail = [b \in Buffers |-> [i \in Items |-> Junk]]
    /\ short = [b \in Buffers |-> FALSE]
    /\ gate = Outermost
    /\ algo = Junk
    /\ hbuf = "dest"
    /\ hpos = 0

Compress == \/ CompressStart
            \/ CompressFirst
            \/ CompressConvert
            \/ CompressData
            \/ CompressBytes
            \/ CompressError

Decompress == \/ DecompressStart
              \/ DecompressBytes
              \/ DecompressData
              \/ DecompressConvert
              \/ DecompressFirst
              \/ DecompressBadId
              \/ DecompressError

Next == Compress \/ Decompress

Spec == Init /\ [][Next]_vars

(* Both functions run to their return statement once called; the caller    *)
(* need not call.                                                          *)
InCall == phase \in {"compress", "decompress"}
FairSpec == Spec /\ WF_vars(InCall /\ Next)

-----------------------------------------------------------------------------
(* Properties *)

TypeOK ==
    /\ phase \in Phases
    /\ chain \in Chains
    /\ total = Len(chain.stages)
    /\ remaining \in 0 .. total
    /\ items \in 0 .. total
    /\ applied \in [Buffers -> Term]
    /\ trail \in [Buffers -> [Items -> Algo \cup {Junk}]]
    /\ short \in [Buffers -> BOOLEAN]
    /\ gate \in 0 .. Outermost
    /\ algo \in Algo \cup {Junk}
    /\ hbuf \in Buffers
    /\ hpos \in 0 .. MaxStages

(* pick_buffer hands "restrict" pointers to every stage: no stage reads    *)
(* the buffer it writes, and none writes the caller's input.               *)
StagesNotInPlace ==
    /\ phase = "compress" => /\ CSrc(remaining) # CDst(remaining)
                             /\ CDst(remaining) # "source"
    /\ phase = "decompress" => /\ DSrc(remaining) # DDst(remaining)
                               /\ DDst(remaining) # "dest"

(* A compressed buffer describes itself: when scil_compress succeeds, dest *)
(* holds the items of all stages, in order, and out_size counts them all,  *)
(* whichever buffers the stages passed them through.                       *)
StoredSelfDescribing ==
    phase \in {"stored", "decompress", "restored"} =>
        /\ items = Len(chain.stages)
        /\ \A i \in 1 .. Len(chain.stages) : trail["dest"][i] = chain.stages[i]

(* The reader undoes the stages in the reverse order of their application: *)
(* an id it acts on is that of the stage that is due, or a byte that is no *)
(* trailer item any more.                                                  *)
DispatchMatchesChain ==
    phase = "decompress" => algo \in {chain.stages[remaining], Junk}

(* A chain with a converter before a data compressor: accepted by          *)
(* scilI_create_chain, but the data compressor sees only part of the       *)
(* converter's result.                                                     *)
ConvertsThenData(ch) == Has(ch.stages, C) /\ Has(ch.stages, D)

(* scil_decompress never reports success with anything but the data that   *)
(* was compressed, for every chain without a converter before a data       *)
(* compressor: even when items were lost on the way.                       *)
RestoredIsOriginal ==
    phase = "restored" /\ ~ConvertsThenData(chain) => applied["out"] = <<>>

(* A chain whose byte compressor packs the result of a data compressor     *)
(* and in which two more stages follow on decompression: the second of     *)
(* them writes over the buffer "header" still points into.                 *)
ReusesHeaderBuffer(ch) == Len(ch.stages) >= 4 /\ Has(ch.stages, D) /\ Has(ch.stages, B)

(* scil_decompress rejects a buffer scil_compress produced only for such a *)
(* chain.                                                                  *)
RejectsOnlyReusedHeader ==
    phase = "buffer_error" => ReusesHeaderBuffer(chain)

(* What compression-chain.c asserts of its chains: no buffer that was      *)
(* compressed is rejected.                                                 *)
StoredIsAccepted == phase # "buffer_error"

(* Decompression only reads the compressed buffer: it can be read again.   *)
ReadOnlyStored ==
    [][phase # "compress" /\ phase' # "compress" =>
          <<applied["dest"], trail["dest"]>>' = <<applied["dest"], trail["dest"]>>
      ]_vars

(* The data a call works on: what the stages still to be run will read, or *)
(* the result of the call that has ended.                                  *)
LiveElements ==
    CASE phase = "compress"   -> applied[CSrc(remaining)]
      [] phase = "stored"     -> applied["dest"]
      [] phase = "decompress" -> applied[DSrc(remaining)]
      [] phase = "restored"   -> applied["out"]
      [] OTHER                -> <<>>

Codec == INSTANCE ScilCodec WITH
    Lists  <- { ch.stages : ch \in Chains },
    call   <- IF phase \in {"stage_error", "buffer_error"} THEN "failed"
              ELSE phase,
    stages <- chain.stages,
    stack  <- LiveElements

(* The walk through the buffers is a codec: what is in the buffer the next *)
(* stage reads is always the data with exactly the stages applied so far,  *)
(* and a stage is undone only when it is the last on the data.             *)
ImplementsCodec == Codec!CodecSpec

(* Every call returns. *)
CallsReturn == InCall ~> ~InCall

-----------------------------------------------------------------------------
(* The inductive invariant.  With k stages applied, or k left to undo, the *)
(* live buffer holds the elements after the first k stages of the chain    *)
(* and the trailer buffer their k items.                                   *)

SpellsStages(term, k) ==
    /\ Len(term) = k
    /\ \A i \in 1 .. k : term[i] = chain.stages[i]

ItemsInOrder(b, k) == \A i \in 1 .. k : trail[b][i] = chain.stages[i]

(* Where the items of the first k stages are while compressing. *)
TrailBuffer(k) == IF k < chain.first THEN HeaderBuffer ELSE CSrc(total - k)

CompressInv ==
    phase = "compress" =>
        LET k == total - remaining IN
        /\ remaining > 0
        /\ items = k
        /\ ~ConvertsThenData(chain) => SpellsStages(applied[CSrc(remaining)], k)
        /\ ItemsInOrder(TrailBuffer(k), k)
        /\ k > 0 /\ short[TrailBuffer(k)] =>
              \E i \in 1 .. k : AlgoType[chain.stages[i]] = D

StoredInv ==
    phase \in {"stored", "decompress", "restored"} =>
        /\ items = total
        /\ ~ConvertsThenData(chain) => SpellsStages(applied["dest"], total)
        /\ ItemsInOrder("dest", total)
        /\ short["dest"] => Has(chain.stages, D)

(* Until the byte compressor is undone "header" is in dest, from then on   *)
(* in the buffer its result was written to.                                *)
DecompressInv ==
    phase = "decompress" =>
        /\ remaining > 0
        /\ hpos = remaining
        /\ gate = IF remaining = total THEN Outermost
                  ELSE Rank(chain.stages[remaining + 1])
        /\ hbuf = IF remaining < total /\ Has(chain.stages, B) THEN DDst(total)
                  ELSE "dest"
        /\ ~ConvertsThenData(chain) =>
              SpellsStages(applied[DSrc(remaining)], remaining)
        /\ \A i \in 1 .. remaining : trail[hbuf][i] \in {chain.stages[i], Junk}
        /\ algo \in {chain.stages[remaining], Junk}
        /\ ~ReusesHeaderBuffer(chain) =>
              /\ ItemsInOrder(hbuf, remaining)
              /\ algo = chain.stages[remaining]
        /\ short[hbuf] => Has(chain.stages, D)

ResultInv ==
    /\ applied["source"] = <<>> /\ ~short["source"]
    /\ RestoredIsOriginal
    /\ RejectsOnlyReusedHeader

IInv == TypeOK /\ CompressInv /\ StoredInv /\ DecompressInv /\ ResultInv
=============================================================================
