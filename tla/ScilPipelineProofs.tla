------------------------- MODULE ScilPipelineProofs -------------------------
(* What ScilPipeline promises, for every registry, every set of chains of  *)
(* the shape scilI_create_chain enforces, and every length of chain.       *)
EXTENDS ScilPipeline, TLAPS

(* pick_buffer as scil_compress calls it: what a stage wrote is what the   *)
(* next one reads, no stage works in place, the last one writes dest.      *)
LEMMA CompressBuffers ==
    ASSUME total \in Nat, NEW r \in 1 .. total
    PROVE  /\ CDst(r) \in {"dest", "buff_tmp"}
           /\ CSrc(r) \in {"source", "dest", "buff_tmp"}
           /\ CSrc(r) # CDst(r)
           /\ r = total => CSrc(r) = "source"
           /\ r # 1 => CSrc(r - 1) = CDst(r)
           /\ r = 1 => CDst(r) = "dest"
BY DEF CSrc, CDst, PickBuffer

(* pick_buffer as scil_decompress calls it.  Besides, two stages with the  *)
(* same scratch buffer as destination are at least two apart.              *)
LEMMA DecompressBuffers ==
    ASSUME total \in Nat, NEW r \in 1 .. total
    PROVE  /\ DDst(r) \in {"out", "buff_tmp1", "buff_tmp2"}
           /\ DSrc(r) \in {"dest", "buff_tmp1", "buff_tmp2"}
           /\ DSrc(r) # DDst(r)
           /\ r = total => DSrc(r) = "dest"
           /\ r # 1 => DSrc(r - 1) = DDst(r)
           /\ DDst(r) = "out" <=> r = 1
           /\ r # 1 /\ r < total /\ DDst(r) = DDst(total) => total >= r + 2
BY DEF DSrc, DDst, PickBuffer

LEMMA RankOfType ==
    ASSUME NEW a \in Algo
    PROVE  /\ AlgoType[a] \in CompressorType
           /\ Rank(a) \in 0 .. 4
           /\ AlgoType[a] = B <=> Rank(a) = 4
BY AlgoAssumption DEF Rank, CompressorType, PF, C, PS, D, B

(* The stages of a chain: preconditioners first, then strictly rising.     *)
LEMMA ChainShape ==
    ASSUME NEW ch \in Chains
    PROVE  /\ ch.stages \in Seq(Algo)
           /\ Len(ch.stages) \in 1 .. MaxStages
           /\ ch.first \in 0 .. Len(ch.stages)
           /\ \A i \in 1 .. Len(ch.stages) :
                 /\ ch.stages[i] \in Algo
                 /\ AlgoType[ch.stages[i]] = PF <=> i <= ch.first
           /\ \A i, j \in 1 .. Len(ch.stages) : ch.first < j /\ i < j =>
                 Rank(ch.stages[i]) < Rank(ch.stages[j])
<1>1. /\ ch.stages \in Seq(Algo) /\ ch.stages # <<>>
      /\ Len(ch.stages) <= MaxStages
      /\ WellFormed(ch.stages)
      /\ ch.first \in 0 .. Len(ch.stages)
      /\ \A i \in 1 .. Len(ch.stages) :
            AlgoType[ch.stages[i]] = PF <=> i <= ch.first
      /\ ~Has(ch.stages, PS)
    BY ChainsAssumption DEF IsChain
<1>2. Len(ch.stages) \in 1 .. MaxStages
    BY <1>1, PipelineAssumption
<1>3. ASSUME NEW i \in 1 .. Len(ch.stages), NEW j \in 1 .. Len(ch.stages),
             ch.first < j, i < j
      PROVE  Rank(ch.stages[i]) < Rank(ch.stages[j])
  <2>1. AlgoType[ch.stages[j]] # PF /\ AlgoType[ch.stages[j]] # PS
      BY <1>1, <1>3 DEF Has
  <2> QED
      BY <1>1, <1>3, <2>1 DEF WellFormed
<1> QED
    BY <1>1, <1>2, <1>3

(* The byte compressor, if there is one, is the last stage.                *)
LEMMA BytesComeLast ==
    ASSUME NEW ch \in Chains, NEW i \in 1 .. Len(ch.stages),
           AlgoType[ch.stages[i]] = B
    PROVE  i = Len(ch.stages)
<1> DEFINE last == Len(ch.stages)
<1>1. /\ last \in Nat /\ last >= 1 /\ last \in 1 .. last
      /\ ch.stages[i] \in Algo /\ ch.stages[last] \in Algo
      /\ ch.first \in 0 .. last /\ i > ch.first
    BY ChainShape DEF B, PF
<1>2. Rank(ch.stages[i]) = 4 /\ Rank(ch.stages[last]) \in 0 .. 4
    BY <1>1, RankOfType
<1>3. i < last => Rank(ch.stages[i]) < Rank(ch.stages[last])
    BY <1>1, ChainShape
<1> QED
    BY <1>1, <1>2, <1>3

-----------------------------------------------------------------------------
LEMMA InitInv == Init => IInv
<1> SUFFICES ASSUME Init PROVE IInv
    OBVIOUS
<1>1. /\ total \in Nat /\ total = Len(chain.stages) /\ total >= 1
      /\ remaining = total /\ total <= MaxStages /\ MaxStages \in Nat
      /\ chain.first \in 0 .. total
    BY ChainShape, PipelineAssumption DEF Init
<1>2. TypeOK
  <2>1. applied \in [Buffers -> Term]
      BY DEF Init, Term, Buffers
  <2>2. QED
      BY <1>1, <2>1 DEF Init, TypeOK, Phases, Buffers, Outermost, Items
<1>3. CompressInv
  <2>1. CSrc(remaining) = "source"
      BY <1>1, CompressBuffers
  <2>2. applied["source"] = <<>>
      BY DEF Init, Buffers
  <2>3. QED
      BY <1>1, <2>1, <2>2 DEF Init, CompressInv, SpellsStages, ItemsInOrder
<1>4. StoredInv /\ DecompressInv
    BY DEF Init, StoredInv, DecompressInv
<1>5. ResultInv
    BY DEF Init, ResultInv, RestoredIsOriginal, RejectsOnlyReusedHeader, Buffers
<1> QED
    BY <1>2, <1>3, <1>4, <1>5 DEF IInv

-----------------------------------------------------------------------------
(* Compression *)

(* Where a stage that is about to run stands. *)
LEMMA StageFacts ==
    ASSUME IInv, phase = "compress"
    PROVE  /\ MaxStages \in Nat
           /\ total = Len(chain.stages) /\ total \in 1 .. MaxStages
           /\ remaining \in 1 .. total
           /\ Stage = total - remaining + 1 /\ Stage \in 1 .. total
           /\ items = total - remaining /\ items \in Nat
           /\ chain \in Chains /\ chain.stages[Stage] \in Algo
<1>1. TypeOK /\ CompressInv
    BY DEF IInv
<1>2. chain \in Chains /\ total = Len(chain.stages) /\ remaining \in 0 .. total
    BY <1>1 DEF TypeOK
<1>3. /\ Len(chain.stages) \in 1 .. MaxStages
      /\ \A i \in 1 .. Len(chain.stages) : chain.stages[i] \in Algo
    BY <1>2, ChainShape
<1>4. remaining > 0 /\ items = total - remaining
    BY <1>1 DEF CompressInv
<1> QED
    BY <1>2, <1>3, <1>4, PipelineAssumption DEF Stage

(* Where the items are once the stage has run. *)
NextTrailBuffer == IF Stage < chain.first THEN HeaderBuffer
                   ELSE CDst(remaining)

(* What every stage has to establish for the invariant to go on. *)
LEMMA StageDone ==
    ASSUME IInv, phase = "compress", StageCompressed, items' = items + 1,
           applied' \in [Buffers -> Term],
           trail' \in [Buffers -> [Items -> Algo \cup {Junk}]],
           short' \in [Buffers -> BOOLEAN],
           applied'["source"] = <<>>, ~short'["source"],
           ~ConvertsThenData(chain) =>
               /\ Len(applied'[CDst(remaining)]) = Stage
               /\ \A i \in 1 .. Stage :
                     applied'[CDst(remaining)][i] = chain.stages[i],
           \A i \in 1 .. Stage : trail'[NextTrailBuffer][i] = chain.stages[i],
           short'[NextTrailBuffer] =>
               \E i \in 1 .. Stage : AlgoType[chain.stages[i]] = D
    PROVE  IInv'
<1> USE StageFacts
<1>1. /\ UNCHANGED <<chain, total, gate, algo, hbuf, hpos>>
      /\ remaining' = remaining - 1
      /\ phase' = IF remaining = 1 THEN "stored" ELSE "compress"
    BY DEF StageCompressed, readvars
<1>2. TypeOK'
    BY <1>1 DEF IInv, TypeOK, Phases
<1>3. ConvertsThenData(chain)' = ConvertsThenData(chain)
    BY <1>1 DEF ConvertsThenData, Has
<1>4. CASE remaining # 1
  <2>1. phase' = "compress" /\ remaining' \in 1 .. total
        /\ total' - remaining' = Stage
      BY <1>1, <1>4
  <2>2. CSrc(remaining)' = CDst(remaining)
    <3>1. CSrc(remaining)' = CSrc(remaining - 1)
        BY <1>1 DEF CSrc
    <3> QED
        BY <3>1, <1>4, CompressBuffers
  <2>3. TrailBuffer(total - remaining)' = NextTrailBuffer
    <3>1. HeaderBuffer' = HeaderBuffer
        BY <1>1 DEF HeaderBuffer, CDst
    <3>2. CSrc(total - (total - remaining))' = CSrc(remaining)'
      <4>1. total' - (total' - remaining') = remaining'
          BY <2>1, <1>1
      <4> QED
          BY <4>1 DEF CSrc
    <3>3. TrailBuffer(total - remaining)' =
             IF total' - remaining' < chain'.first THEN HeaderBuffer'
             ELSE CSrc(total - (total - remaining))'
        BY DEF TrailBuffer
    <3> QED
        BY <1>1, <2>1, <2>2, <3>1, <3>2, <3>3 DEF NextTrailBuffer
  <2>4. CompressInv'
    <3>1. remaining' > 0 /\ items' = total' - remaining'
        BY <1>1, <2>1
    <3>2. ~ConvertsThenData(chain)' =>
             SpellsStages(applied[CSrc(remaining)], total - remaining)'
        BY <1>1, <1>3, <2>1, <2>2 DEF SpellsStages
    <3>3. ItemsInOrder(TrailBuffer(total - remaining), total - remaining)'
        BY <1>1, <2>1, <2>3 DEF ItemsInOrder
    <3>4. short'[TrailBuffer(total - remaining)'] =>
             \E i \in 1 .. total' - remaining' :
                 AlgoType[chain'.stages[i]] = D
        BY <1>1, <2>1, <2>3
    <3> QED
        BY <3>1, <3>2, <3>3, <3>4 DEF CompressInv
  <2>5. StoredInv' /\ DecompressInv' /\ ResultInv'
      BY <2>1 DEF StoredInv, DecompressInv, ResultInv,
            RestoredIsOriginal, RejectsOnlyReusedHeader
  <2> QED
      BY <1>2, <2>4, <2>5 DEF IInv
<1>5. CASE remaining = 1
  <2>1. Stage = total /\ phase' = "stored" /\ CDst(remaining) = "dest"
    <3>1. Stage = total /\ phase' = "stored"
        BY <1>1, <1>5
    <3>2. total \in Nat /\ remaining \in 1 .. total
        OBVIOUS
    <3> QED
        BY <3>1, <3>2, <1>5, CompressBuffers
  <2>2. NextTrailBuffer = "dest"
    <3>1. chain.first \in 0 .. Len(chain.stages)
        BY ChainShape
    <3> QED
        BY <2>1, <3>1 DEF NextTrailBuffer
  <2>3. StoredInv'
    <3>1. items' = total'
        BY <1>1, <1>5
    <3>2. ~ConvertsThenData(chain)' => SpellsStages(applied["dest"], total)'
        BY <1>1, <1>3, <2>1 DEF SpellsStages
    <3>3. ItemsInOrder("dest", total)'
        BY <1>1, <2>1, <2>2 DEF ItemsInOrder
    <3>4. short'["dest"] => Has(chain.stages, D)'
        BY <1>1, <2>1, <2>2 DEF Has
    <3> QED
        BY <3>1, <3>2, <3>3, <3>4 DEF StoredInv
  <2>4. CompressInv' /\ DecompressInv' /\ ResultInv'
      BY <2>1 DEF CompressInv, DecompressInv, ResultInv,
            RestoredIsOriginal, RejectsOnlyReusedHeader
  <2> QED
      BY <1>2, <2>3, <2>4 DEF IInv
<1> QED
    BY <1>4, <1>5

(* The elements of a stage's result, for every kind of stage.              *)
LEMMA AppliedNext ==
    ASSUME IInv, phase = "compress", NEW elements \in Term,
           ~ConvertsThenData(chain) => elements = applied[CSrc(remaining)],
           applied' = [applied EXCEPT ![CDst(remaining)] =
                                        Append(elements, chain.stages[Stage])]
    PROVE  /\ applied' \in [Buffers -> Term]
           /\ applied'["source"] = <<>>
           /\ ~ConvertsThenData(chain) =>
                 /\ Len(applied'[CDst(remaining)]) = Stage
                 /\ \A i \in 1 .. Stage :
                       applied'[CDst(remaining)][i] = chain.stages[i]
<1>1. /\ total \in 1 .. MaxStages /\ remaining \in 1 .. total
      /\ Stage = total - remaining + 1 /\ chain.stages[Stage] \in Algo
    BY StageFacts
<1>2. CDst(remaining) \in {"dest", "buff_tmp"}
    BY <1>1, CompressBuffers, PipelineAssumption
<1>3. applied \in [Buffers -> Term] /\ applied["source"] = <<>>
    BY DEF IInv, TypeOK, ResultInv
<1>4. Append(elements, chain.stages[Stage]) \in Term
    BY <1>1 DEF Term
<1>5. /\ applied' \in [Buffers -> Term]
      /\ applied'["source"] = <<>>
      /\ applied'[CDst(remaining)] = Append(elements, chain.stages[Stage])
    BY <1>2, <1>3, <1>4 DEF Buffers
<1>6. ASSUME ~ConvertsThenData(chain)
      PROVE  /\ Len(applied'[CDst(remaining)]) = Stage
             /\ \A i \in 1 .. Stage :
                   applied'[CDst(remaining)][i] = chain.stages[i]
  <2>1. SpellsStages(elements, total - remaining)
      BY <1>6 DEF IInv, CompressInv
  <2>2. /\ elements \in Seq(Algo \cup {Junk})
        /\ Len(elements) = Stage - 1
        /\ \A i \in 1 .. Stage - 1 : elements[i] = chain.stages[i]
      BY <1>1, <2>1 DEF SpellsStages, Term
  <2>3. /\ Len(Append(elements, chain.stages[Stage])) = Stage
        /\ \A i \in 1 .. Stage :
              Append(elements, chain.stages[Stage])[i] = chain.stages[i]
    <3>1. Stage \in Nat
        BY <1>1
    <3> HIDE DEF Stage
    <3> QED
        BY <2>2, <3>1
  <2> QED
      BY <1>5, <2>3
<1> QED
    BY <1>5, <1>6

(* The items after a stage that is not a first preconditioner.             *)
LEMMA PreservedItems ==
    ASSUME IInv, phase = "compress", Stage > chain.first,
           Preserving(chain.stages[Stage])
    PROVE  /\ trail' \in [Buffers -> [Items -> Algo \cup {Junk}]]
           /\ NextTrailBuffer = CDst(remaining)
           /\ TrailBuffer(total - remaining) = CSrc(remaining)
           /\ \A i \in 1 .. Stage :
                 trail'[CDst(remaining)][i] = chain.stages[i]
<1>1. /\ MaxStages \in Nat
      /\ total \in 1 .. MaxStages /\ remaining \in 1 .. total
      /\ Stage = total - remaining + 1 /\ Stage \in 1 .. total
      /\ items = total - remaining
      /\ chain \in Chains /\ chain.stages[Stage] \in Algo
    BY StageFacts
<1>2. chain.first \in Nat
    BY <1>1, ChainShape
<1>3. /\ CDst(remaining) \in {"dest", "buff_tmp"}
      /\ CSrc(remaining) \in {"source", "dest", "buff_tmp"}
    BY <1>1, CompressBuffers
<1>4. trail \in [Buffers -> [Items -> Algo \cup {Junk}]]
    BY DEF IInv, TypeOK
<1>5. NextTrailBuffer = CDst(remaining)
    BY <1>1, <1>2 DEF NextTrailBuffer
<1>6. TrailBuffer(total - remaining) = CSrc(remaining)
  <2>1. total - (total - remaining) = remaining
      BY <1>1
  <2> QED
      BY <1>1, <1>2, <2>1 DEF TrailBuffer
<1>7. ItemsInOrder(CSrc(remaining), total - remaining)
    BY <1>6 DEF IInv, CompressInv
<1>8. trail'[CDst(remaining)] =
         [i \in Items |-> IF i <= items THEN trail[CSrc(remaining)][i]
                          ELSE IF i = items + 1 THEN chain.stages[Stage]
                          ELSE trail[CDst(remaining)][i]]
    BY <1>3, <1>4 DEF Preserving, Buffers
<1>9. trail'[CDst(remaining)] \in [Items -> Algo \cup {Junk}]
    BY <1>1, <1>3, <1>4, <1>8 DEF Buffers
<1>10. trail' \in [Buffers -> [Items -> Algo \cup {Junk}]]
    BY <1>3, <1>4, <1>9 DEF Preserving, Buffers
<1>11. ASSUME NEW i \in 1 .. Stage
       PROVE  trail'[CDst(remaining)][i] = chain.stages[i]
    BY <1>1, <1>7, <1>8 DEF ItemsInOrder, Items
<1> QED
    BY <1>5, <1>6, <1>10, <1>11

LEMMA CompressFirstInv == IInv /\ CompressFirst => IInv'
<1> SUFFICES ASSUME IInv, CompressFirst PROVE IInv'
    OBVIOUS
<1>1. phase = "compress" /\ StageCompressed /\ items' = items + 1
    BY DEF CompressFirst, Compressing
<1>2. /\ total = Len(chain.stages)
      /\ total \in 1 .. MaxStages /\ remaining \in 1 .. total
      /\ Stage = total - remaining + 1 /\ Stage \in 1 .. total
      /\ chain \in Chains /\ chain.stages[Stage] \in Algo
      /\ MaxStages \in Nat
    BY <1>1, StageFacts
<1>3. chain.first \in 0 .. total /\ Stage <= chain.first
    BY <1>2, ChainShape DEF CompressFirst, Compressing
<1>4. HeaderBuffer \in {"dest", "buff_tmp"}
  <2>1. 1 + total - chain.first \in 1 .. total /\ total \in Nat
      BY <1>2, <1>3
  <2> QED
      BY <2>1, CompressBuffers DEF HeaderBuffer
<1>5. NextTrailBuffer = HeaderBuffer
  <2>1. Stage = chain.first => remaining = 1 + total - chain.first
      BY <1>2, <1>3
  <2> QED
      BY <1>2, <1>3, <2>1 DEF NextTrailBuffer, HeaderBuffer
<1>6. /\ trail \in [Buffers -> [Items -> Algo \cup {Junk}]]
      /\ short \in [Buffers -> BOOLEAN] /\ applied \in [Buffers -> Term]
    BY DEF IInv, TypeOK
<1>7. ItemsInOrder(HeaderBuffer, total - remaining)
    BY <1>1, <1>2, <1>3 DEF IInv, CompressInv, TrailBuffer
<1>8. /\ applied' \in [Buffers -> Term]
      /\ applied'["source"] = <<>>
      /\ ~ConvertsThenData(chain) =>
            /\ Len(applied'[CDst(remaining)]) = Stage
            /\ \A i \in 1 .. Stage :
                  applied'[CDst(remaining)][i] = chain.stages[i]
  <2>1. applied[CSrc(remaining)] \in Term
      BY <1>2, <1>6, CompressBuffers DEF Buffers
  <2> QED
      BY <1>1, <2>1, AppliedNext DEF CompressFirst
<1>9. trail' = [trail EXCEPT ![HeaderBuffer][Stage] = chain.stages[Stage]]
      /\ short' = [short EXCEPT ![HeaderBuffer] = FALSE]
    BY DEF CompressFirst
<1>10. /\ trail' \in [Buffers -> [Items -> Algo \cup {Junk}]]
       /\ short' \in [Buffers -> BOOLEAN]
       /\ ~short'[HeaderBuffer] /\ ~short'["source"]
    BY <1>2, <1>4, <1>6, <1>9 DEF Buffers, Items, IInv, ResultInv
<1>11. ASSUME NEW i \in 1 .. Stage
       PROVE  trail'[HeaderBuffer][i] = chain.stages[i]
  <2>1. trail'[HeaderBuffer] =
           [trail[HeaderBuffer] EXCEPT ![Stage] = chain.stages[Stage]]
      BY <1>4, <1>6, <1>9 DEF Buffers
  <2>2. trail[HeaderBuffer] \in [Items -> Algo \cup {Junk}]
      BY <1>4, <1>6 DEF Buffers
  <2>3. i # Stage => trail[HeaderBuffer][i] = chain.stages[i]
    <3>1. i # Stage => i \in 1 .. total - remaining
        BY <1>2
    <3> QED
        BY <1>7, <3>1 DEF ItemsInOrder
  <2> QED
      BY <1>2, <2>1, <2>2, <2>3 DEF Items
<1> QED
    BY <1>1, <1>5, <1>8, <1>10, <1>11, StageDone

(* A stage after the first preconditioners, once its effect on "short" is  *)
(* known.                                                                  *)
LEMMA LaterStage ==
    ASSUME IInv, phase = "compress", StageCompressed, items' = items + 1,
           Stage > chain.first, Preserving(chain.stages[Stage]),
           NEW elements \in Term,
           ~ConvertsThenData(chain) => elements = applied[CSrc(remaining)],
           applied' = [applied EXCEPT ![CDst(remaining)] =
                                        Append(elements, chain.stages[Stage])],
           NEW s \in BOOLEAN,
           short' = [short EXCEPT ![CDst(remaining)] = s],
           s => \E i \in 1 .. Stage : AlgoType[chain.stages[i]] = D
    PROVE  IInv'
<1>1. total \in 1 .. MaxStages /\ remaining \in 1 .. total /\ MaxStages \in Nat
    BY StageFacts
<1>2. CDst(remaining) \in {"dest", "buff_tmp"}
    BY <1>1, CompressBuffers
<1>3. short \in [Buffers -> BOOLEAN]
    BY DEF IInv, TypeOK
<1>4. /\ short' \in [Buffers -> BOOLEAN] /\ short'[CDst(remaining)] = s
      /\ ~short'["source"]
    BY <1>2, <1>3 DEF Buffers, IInv, ResultInv
<1>5. /\ applied' \in [Buffers -> Term]
      /\ applied'["source"] = <<>>
      /\ ~ConvertsThenData(chain) =>
            /\ Len(applied'[CDst(remaining)]) = Stage
            /\ \A i \in 1 .. Stage :
                  applied'[CDst(remaining)][i] = chain.stages[i]
    BY AppliedNext
<1>6. /\ trail' \in [Buffers -> [Items -> Algo \cup {Junk}]]
      /\ NextTrailBuffer = CDst(remaining)
      /\ \A i \in 1 .. Stage :
            trail'[CDst(remaining)][i] = chain.stages[i]
    BY PreservedItems
<1> QED
    BY <1>4, <1>5, <1>6, StageDone

LEMMA LaterStageFacts ==
    ASSUME IInv, phase = "compress", AlgoType[chain.stages[Stage]] # PF
    PROVE  /\ Stage > chain.first
           /\ applied[CSrc(remaining)] \in Term
           /\ Stage \in 1 .. Len(chain.stages)
<1>1. /\ total = Len(chain.stages)
      /\ total \in 1 .. MaxStages /\ remaining \in 1 .. total
      /\ Stage \in 1 .. total /\ chain \in Chains
    BY StageFacts
<1>2. Stage > chain.first
    BY <1>1, ChainShape
<1>3. CSrc(remaining) \in Buffers
    BY <1>1, CompressBuffers DEF Buffers
<1>4. applied \in [Buffers -> Term]
    BY DEF IInv, TypeOK
<1> QED
    BY <1>1, <1>2, <1>3, <1>4

LEMMA CompressConvertInv == IInv /\ CompressConvert => IInv'
<1> SUFFICES ASSUME IInv, CompressConvert PROVE IInv'
    OBVIOUS
<1>1. phase = "compress" /\ AlgoType[chain.stages[Stage]] = C
    BY DEF CompressConvert, Compressing
<1>2. Stage > chain.first /\ applied[CSrc(remaining)] \in Term
    BY <1>1, LaterStageFacts DEF C, PF
<1> QED
    BY <1>1, <1>2, LaterStage DEF CompressConvert

LEMMA CompressDataInv == IInv /\ CompressData => IInv'
<1> SUFFICES ASSUME IInv, CompressData PROVE IInv'
    OBVIOUS
<1>1. phase = "compress" /\ AlgoType[chain.stages[Stage]] = D
    BY DEF CompressData, Compressing
<1>2. /\ Stage > chain.first /\ applied[CSrc(remaining)] \in Term
      /\ Stage \in 1 .. Len(chain.stages)
    BY <1>1, LaterStageFacts DEF D, PF
<1> DEFINE converted == Stage > 1 /\ AlgoType[chain.stages[Stage - 1]] = C
           elements == IF converted THEN <<Junk>> ELSE applied[CSrc(remaining)]
<1>3. elements \in Term
  <2>1. <<Junk>> \in Term
      BY DEF Term
  <2> QED
      BY <1>2, <2>1
<1>4. converted => ConvertsThenData(chain)
    BY <1>1, <1>2 DEF ConvertsThenData, Has
<1>5. PICK s \in BOOLEAN : short' = [short EXCEPT ![CDst(remaining)] = s]
    BY DEF CompressData
<1>6. /\ StageCompressed /\ items' = items + 1
      /\ Preserving(chain.stages[Stage])
      /\ applied' = [applied EXCEPT ![CDst(remaining)] =
                                       Append(elements, chain.stages[Stage])]
    BY DEF CompressData
<1>7. \E i \in 1 .. Stage : AlgoType[chain.stages[i]] = D
    BY <1>1, <1>2
<1> HIDE DEF elements
<1>8. ~ConvertsThenData(chain) => elements = applied[CSrc(remaining)]
    BY <1>4 DEF elements
<1> QED
    BY <1>1, <1>2, <1>3, <1>5, <1>6, <1>7, <1>8, LaterStage

(* The byte compressor comes last: its destination is dest, and it carries *)
(* the items over as they were.                                            *)
LEMMA CompressBytesInv == IInv /\ CompressBytes => IInv'
<1> SUFFICES ASSUME IInv, CompressBytes PROVE IInv'
    OBVIOUS
<1>1. phase = "compress" /\ AlgoType[chain.stages[Stage]] = B
    BY DEF CompressBytes, Compressing
<1>2. /\ Stage > chain.first /\ applied[CSrc(remaining)] \in Term
      /\ Stage \in 1 .. Len(chain.stages) /\ chain \in Chains
      /\ total = Len(chain.stages) /\ remaining \in 1 .. total
      /\ Stage = total - remaining + 1
    BY <1>1, LaterStageFacts, StageFacts DEF B, PF
<1>3. Stage = total
    BY <1>1, <1>2, BytesComeLast
<1>4. CDst(remaining) = "dest"
    BY <1>2, <1>3, CompressBuffers
<1>5. Preserving(chain.stages[Stage])
    BY <1>4 DEF CompressBytes, Preserving
<1>6. TrailBuffer(total - remaining) = CSrc(remaining)
    BY <1>1, <1>2, <1>5, PreservedItems
<1>7. short \in [Buffers -> BOOLEAN] /\ CSrc(remaining) \in Buffers
    BY <1>2, CompressBuffers DEF IInv, TypeOK, Buffers
<1>8. short[CSrc(remaining)] => \E i \in 1 .. Stage : AlgoType[chain.stages[i]] = D
  <2>1. CASE remaining = total
      BY <1>2, <2>1, CompressBuffers DEF IInv, ResultInv
  <2>2. CASE remaining < total
    <3>1. short[CSrc(remaining)] =>
             \E i \in 1 .. total - remaining : AlgoType[chain.stages[i]] = D
        BY <1>1, <1>2, <1>6, <2>2 DEF IInv, CompressInv
    <3> QED
        BY <1>2, <3>1
  <2> QED
      BY <1>2, <2>1, <2>2
<1>9. /\ StageCompressed /\ items' = items + 1
      /\ applied' = [applied EXCEPT ![CDst(remaining)] =
                        Append(applied[CSrc(remaining)], chain.stages[Stage])]
      /\ short' = [short EXCEPT ![CDst(remaining)] = short[CSrc(remaining)]]
    BY <1>4 DEF CompressBytes
<1> QED
    BY <1>1, <1>2, <1>5, <1>7, <1>8, <1>9, LaterStage

LEMMA CompressStartInv == IInv /\ CompressStart => IInv'
<1> SUFFICES ASSUME IInv, CompressStart PROVE IInv'
    OBVIOUS
<1>1. /\ phase' = "compress" /\ chain' \in Chains /\ items' = 0
      /\ total' = Len(chain'.stages) /\ remaining' = total'
      /\ UNCHANGED <<applied, trail, short, gate, algo, hbuf, hpos>>
    BY DEF CompressStart, bufvars, readvars
<1>2. /\ total' \in Nat /\ total' >= 1
      /\ chain'.first \in 0 .. total'
    BY <1>1, ChainShape, PipelineAssumption
<1>3. TypeOK'
    BY <1>1, <1>2 DEF IInv, TypeOK, Phases
<1>4. applied'["source"] = <<>> /\ ~short'["source"]
    BY <1>1 DEF IInv, ResultInv
<1>5. CSrc(remaining)' = "source"
    BY <1>1, <1>2 DEF CSrc, PickBuffer
<1>6. CompressInv'
    BY <1>1, <1>2, <1>4, <1>5 DEF CompressInv, SpellsStages, ItemsInOrder
<1>7. StoredInv' /\ DecompressInv' /\ ResultInv'
    BY <1>1, <1>4 DEF StoredInv, DecompressInv, ResultInv,
          RestoredIsOriginal, RejectsOnlyReusedHeader
<1> QED
    BY <1>3, <1>6, <1>7 DEF IInv

LEMMA StageErrorInv == IInv /\ (CompressError \/ DecompressError) => IInv'
<1> SUFFICES ASSUME IInv, CompressError \/ DecompressError PROVE IInv'
    OBVIOUS
<1>1. /\ phase' = "stage_error"
      /\ UNCHANGED <<chain, total, remaining, items, applied, trail, short,
                     gate, algo, hbuf, hpos>>
    BY DEF CompressError, DecompressError, bufvars, readvars
<1>2. TypeOK'
    BY <1>1 DEF IInv, TypeOK, Phases
<1> QED
    BY <1>1, <1>2 DEF IInv, CompressInv, StoredInv, DecompressInv, ResultInv,
          RestoredIsOriginal, RejectsOnlyReusedHeader

-----------------------------------------------------------------------------
(* Decompression *)

LEMMA DecompressStartInv == IInv /\ DecompressStart => IInv'
<1> SUFFICES ASSUME IInv, DecompressStart PROVE IInv'
    OBVIOUS
<1>1. /\ phase \in {"stored", "restored"} /\ phase' = "decompress"
      /\ remaining' = total /\ gate' = Outermost
      /\ algo' = trail["dest"][items] /\ hbuf' = "dest" /\ hpos' = items
      /\ UNCHANGED <<chain, total, items, applied, trail, short>>
    BY DEF DecompressStart, bufvars
<1>2. /\ chain \in Chains /\ total = Len(chain.stages)
      /\ total \in 1 .. MaxStages /\ MaxStages \in Nat
      /\ total \in Items /\ chain.stages[total] \in Algo
  <2>1. chain \in Chains /\ total = Len(chain.stages)
      BY DEF IInv, TypeOK
  <2> QED
      BY <2>1, ChainShape, PipelineAssumption DEF Items
<1>3. StoredInv /\ items = total /\ ItemsInOrder("dest", total)
    BY <1>1 DEF IInv, StoredInv
<1>4. algo' = chain.stages[total] /\ hpos' = total
    BY <1>1, <1>2, <1>3 DEF ItemsInOrder
<1>5. TypeOK'
    BY <1>1, <1>2, <1>4 DEF IInv, TypeOK, Phases, Buffers, Outermost
<1>6. StoredInv'
    BY <1>1, <1>3 DEF StoredInv, SpellsStages, ItemsInOrder,
          ConvertsThenData, Has
<1>7. DSrc(remaining)' = "dest"
    BY <1>1, <1>2 DEF DSrc, PickBuffer
<1>8. DecompressInv'
    BY <1>1, <1>2, <1>3, <1>4, <1>6, <1>7
       DEF DecompressInv, StoredInv, ItemsInOrder
<1>9. CompressInv' /\ ResultInv'
    BY <1>1 DEF IInv, CompressInv, ResultInv, RestoredIsOriginal,
          RejectsOnlyReusedHeader
<1> QED
    BY <1>5, <1>6, <1>8, <1>9 DEF IInv

(* Undoing the last of r stages leaves the first r - 1.                    *)
LEMMA UndoTerm ==
    ASSUME NEW term \in Term, NEW a
    PROVE  /\ Undo(a, term) \in Term
           /\ \A r \in Nat \ {0} :
                 SpellsStages(term, r) /\ a = chain.stages[r] =>
                     SpellsStages(Undo(a, term), r - 1)
<1>1. <<Junk>> \in Term
    BY DEF Term
<1>2. term # <<>> => SubSeq(term, 1, Len(term) - 1) \in Term
    BY DEF Term
<1>3. Undo(a, term) \in Term
    BY <1>1, <1>2 DEF Undo
<1>4. ASSUME NEW r \in Nat \ {0}, SpellsStages(term, r), a = chain.stages[r]
      PROVE  SpellsStages(Undo(a, term), r - 1)
  <2>1. Len(term) = r /\ term[r] = a /\ term # <<>>
      BY <1>4 DEF SpellsStages, Term
  <2>2. Undo(a, term) = SubSeq(term, 1, r - 1)
      BY <2>1 DEF Undo
  <2> QED
      BY <1>4, <2>1, <2>2 DEF SpellsStages, Term
<1> QED
    BY <1>3, <1>4

(* Where a stage that is about to be undone stands.                        *)
LEMMA UndoFacts ==
    ASSUME IInv, phase = "decompress"
    PROVE  /\ MaxStages \in Nat
           /\ total = Len(chain.stages) /\ total \in 1 .. MaxStages
           /\ remaining \in 1 .. total /\ hpos = remaining
           /\ chain \in Chains /\ chain.stages[remaining] \in Algo
           /\ Dispatchable(algo) => algo = chain.stages[remaining]
           /\ hbuf \in Buffers
<1>1. TypeOK /\ DecompressInv
    BY DEF IInv
<1>2. /\ chain \in Chains /\ total = Len(chain.stages)
      /\ remaining \in 0 .. total /\ hbuf \in Buffers
    BY <1>1 DEF TypeOK
<1>3. /\ Len(chain.stages) \in 1 .. MaxStages
      /\ \A i \in 1 .. Len(chain.stages) : chain.stages[i] \in Algo
    BY <1>2, ChainShape
<1>4. remaining > 0 /\ hpos = remaining /\ algo \in {chain.stages[remaining], Junk}
    BY <1>1 DEF DecompressInv
<1>5. Dispatchable(algo) => algo # Junk
    BY PipelineAssumption DEF Dispatchable
<1> QED
    BY <1>2, <1>3, <1>4, <1>5, PipelineAssumption

(* Where "header" is once the stage has been undone.                       *)
NextHeaderBuffer == IF Has(chain.stages, B) THEN DDst(total) ELSE "dest"

(* What undoing a stage has to establish for the invariant to go on.       *)
LEMMA StageUndone ==
    ASSUME IInv, phase = "decompress", Dispatchable(algo),
           FetchNext(trail', NextHeaderBuffer, remaining - 1),
           applied' = [applied EXCEPT ![DDst(remaining)] =
                                        Undo(algo, applied[DSrc(remaining)])],
           trail' \in [Buffers -> [Items -> Algo \cup {Junk}]],
           trail'["dest"] = trail["dest"],
           short' \in [Buffers -> BOOLEAN],
           short'["dest"] = short["dest"], ~short'["source"],
           short'[NextHeaderBuffer] => Has(chain.stages, D),
           \A i \in 1 .. remaining - 1 :
               /\ trail'[NextHeaderBuffer][i] \in {chain.stages[i], Junk}
               /\ ~ReusesHeaderBuffer(chain) =>
                     trail'[NextHeaderBuffer][i] = chain.stages[i]
    PROVE  IInv'
<1>1. /\ MaxStages \in Nat
      /\ total = Len(chain.stages) /\ total \in 1 .. MaxStages
      /\ remaining \in 1 .. total
      /\ chain \in Chains /\ chain.stages[remaining] \in Algo
      /\ algo = chain.stages[remaining]
    BY UndoFacts
<1>2. /\ UNCHANGED <<chain, total, items>>
      /\ remaining' = remaining - 1
      /\ gate' = Rank(algo) /\ hbuf' = NextHeaderBuffer
    BY DEF FetchNext
<1>3. /\ DDst(remaining) \in {"out", "buff_tmp1", "buff_tmp2"}
      /\ DSrc(remaining) \in {"dest", "buff_tmp1", "buff_tmp2"}
      /\ remaining # 1 => DSrc(remaining - 1) = DDst(remaining)
      /\ remaining = 1 => DDst(remaining) = "out"
    BY <1>1, DecompressBuffers
<1>4. NextHeaderBuffer \in Buffers
  <2>1. total \in 1 .. total /\ total \in Nat
      BY <1>1
  <2> QED
      BY <2>1, DecompressBuffers DEF NextHeaderBuffer, Buffers
<1>5. /\ applied \in [Buffers -> Term] /\ applied["source"] = <<>>
      /\ gate \in 0 .. Outermost /\ items \in 0 .. total
    BY DEF IInv, TypeOK, ResultInv
<1>6. Undo(algo, applied[DSrc(remaining)]) \in Term
    BY <1>3, <1>5, UndoTerm DEF Buffers
<1>7. /\ applied' \in [Buffers -> Term]
      /\ applied'["source"] = <<>> /\ applied'["dest"] = applied["dest"]
      /\ applied'[DDst(remaining)] = Undo(algo, applied[DSrc(remaining)])
    BY <1>3, <1>5, <1>6 DEF Buffers
<1>8. ASSUME ~ConvertsThenData(chain)
      PROVE  /\ Len(applied'[DDst(remaining)]) = remaining - 1
             /\ \A i \in 1 .. remaining - 1 :
                   applied'[DDst(remaining)][i] = chain.stages[i]
  <2>1. SpellsStages(applied[DSrc(remaining)], remaining)
      BY <1>8 DEF IInv, DecompressInv
  <2>2. applied[DSrc(remaining)] \in Term /\ remaining \in Nat \ {0}
      BY <1>1, <1>3, <1>5 DEF Buffers
  <2>3. SpellsStages(Undo(algo, applied[DSrc(remaining)]), remaining - 1)
      BY <1>1, <2>1, <2>2, UndoTerm
  <2> QED
      BY <1>7, <2>3 DEF SpellsStages
<1>9. Rank(algo) \in 0 .. Outermost
    BY <1>1, RankOfType DEF Outermost
<1>10. StoredInv'
  <2>1. StoredInv
      BY DEF IInv
  <2> QED
      BY <1>2, <1>7, <2>1 DEF StoredInv, SpellsStages, ItemsInOrder,
            ConvertsThenData, Has
<1>11. CASE remaining = 1
  <2>1. phase' = "restored" /\ UNCHANGED <<algo, hpos>>
      BY <1>11 DEF FetchNext
  <2>2. TypeOK'
      BY <1>1, <1>2, <1>4, <1>5, <1>7, <1>9, <2>1 DEF IInv, TypeOK, Phases
  <2>3. ~ConvertsThenData(chain) => applied'["out"] = <<>>
      BY <1>1, <1>3, <1>7, <1>8, <1>11 DEF Term, Buffers
  <2>4. ResultInv'
      BY <1>2, <1>7, <2>1, <2>3 DEF ResultInv, RestoredIsOriginal,
            RejectsOnlyReusedHeader, ConvertsThenData, Has
  <2>5. CompressInv' /\ DecompressInv'
      BY <2>1 DEF CompressInv, DecompressInv
  <2> QED
      BY <1>10, <2>2, <2>4, <2>5 DEF IInv
<1>12. CASE remaining # 1
  <2>1. /\ phase' = "decompress" /\ hpos' = remaining - 1
        /\ algo' = trail'[NextHeaderBuffer][remaining - 1]
      BY <1>12 DEF FetchNext
  <2>2. remaining - 1 \in Items /\ remaining - 1 \in 1 .. remaining - 1
        /\ remaining - 1 < total
      BY <1>1, <1>12 DEF Items
  <2>3. algo' \in Algo \cup {Junk}
      BY <1>4, <2>1, <2>2
  <2>4. TypeOK'
      BY <1>1, <1>2, <1>4, <1>5, <1>7, <1>9, <2>1, <2>2, <2>3
         DEF IInv, TypeOK, Phases, Items
  <2>5. CompressInv' /\ ResultInv'
      BY <1>7, <2>1 DEF CompressInv, ResultInv, RestoredIsOriginal,
            RejectsOnlyReusedHeader
  <2>6. DecompressInv'
    <3>1. remaining' > 0 /\ hpos' = remaining'
        BY <1>1, <1>2, <1>12, <2>1
    <3>2. gate' = IF remaining' = total' THEN Outermost
                  ELSE Rank(chain'.stages[remaining' + 1])
      <4>1. remaining' + 1 = remaining /\ remaining' # total'
          BY <1>1, <1>2
      <4> QED
          BY <1>1, <1>2, <4>1
    <3>3. hbuf' = IF remaining' < total' /\ Has(chain.stages, B)' THEN DDst(total)'
                  ELSE "dest"
        BY <1>1, <1>2, <2>2 DEF NextHeaderBuffer, Has, DDst
    <3>4. ~ConvertsThenData(chain)' =>
             SpellsStages(applied[DSrc(remaining)], remaining)'
      <4>1. DSrc(remaining)' = DSrc(remaining - 1)
          BY <1>2 DEF DSrc
      <4>2. ConvertsThenData(chain)' = ConvertsThenData(chain)
          BY <1>2 DEF ConvertsThenData, Has
      <4> QED
          BY <1>2, <1>3, <1>8, <1>12, <4>1, <4>2 DEF SpellsStages
    <3>5. \A i \in 1 .. remaining' :
             trail'[hbuf'][i] \in {chain'.stages[i], Junk}
        BY <1>2
    <3>6. algo' \in {chain'.stages[remaining'], Junk}
        BY <1>2, <2>1, <2>2
    <3>7. ~ReusesHeaderBuffer(chain)' =>
             /\ ItemsInOrder(hbuf, remaining)'
             /\ algo' = chain'.stages[remaining']
        BY <1>2, <2>1, <2>2 DEF ReusesHeaderBuffer, Has, ItemsInOrder
    <3>8. short'[hbuf'] => Has(chain.stages, D)'
        BY <1>2 DEF Has
    <3> QED
        BY <3>1, <3>2, <3>3, <3>4, <3>5, <3>6, <3>7, <3>8 DEF DecompressInv
  <2> QED
      BY <1>10, <2>4, <2>5, <2>6 DEF IInv
<1> QED
    BY <1>11, <1>12

(* A stage other than the byte compressor leaves "header" in its buffer.   *)
LEMMA HeaderStays ==
    ASSUME IInv, phase = "decompress", Dispatchable(algo), AlgoType[algo] # B
    PROVE  hbuf = NextHeaderBuffer
<1>1. /\ total = Len(chain.stages) /\ total \in 1 .. MaxStages
      /\ MaxStages \in Nat /\ remaining \in 1 .. total
      /\ chain \in Chains /\ algo = chain.stages[remaining]
    BY UndoFacts
<1>2. Has(chain.stages, B) => remaining # total
    BY <1>1, BytesComeLast DEF Has
<1>3. hbuf = IF remaining < total /\ Has(chain.stages, B) THEN DDst(total)
             ELSE "dest"
    BY DEF IInv, DecompressInv
<1> QED
    BY <1>1, <1>2, <1>3 DEF NextHeaderBuffer

(* What such a stage does to the items: it can only destroy those of the   *)
(* buffer "header" points into if the chain is one that reuses it.         *)
LEMMA ClobberedItems ==
    ASSUME IInv, phase = "decompress", Dispatchable(algo), AlgoType[algo] # B,
           NEW cut \in Cuts(DDst(remaining)),
           trail' = [trail EXCEPT ![DDst(remaining)] =
                                    Clobbered(DDst(remaining), cut)]
    PROVE  /\ trail' \in [Buffers -> [Items -> Algo \cup {Junk}]]
           /\ trail'["dest"] = trail["dest"]
           /\ \A i \in 1 .. remaining :
                 /\ trail'[hbuf][i] \in {chain.stages[i], Junk}
                 /\ ~ReusesHeaderBuffer(chain) =>
                       trail'[hbuf][i] = chain.stages[i]
<1>1. /\ MaxStages \in Nat
      /\ total = Len(chain.stages) /\ total \in 1 .. MaxStages
      /\ remaining \in 1 .. total /\ hbuf \in Buffers
    BY UndoFacts
<1>2. DDst(remaining) \in {"out", "buff_tmp1", "buff_tmp2"}
    BY <1>1, DecompressBuffers
<1>3. trail \in [Buffers -> [Items -> Algo \cup {Junk}]]
    BY DEF IInv, TypeOK
<1>4. Clobbered(DDst(remaining), cut) \in [Items -> Algo \cup {Junk}]
    BY <1>2, <1>3 DEF Clobbered, Buffers
<1>5. /\ trail' \in [Buffers -> [Items -> Algo \cup {Junk}]]
      /\ trail'["dest"] = trail["dest"]
    BY <1>2, <1>3, <1>4 DEF Buffers
<1>6. \A i \in 1 .. remaining :
          /\ trail[hbuf][i] \in {chain.stages[i], Junk}
          /\ ~ReusesHeaderBuffer(chain) => trail[hbuf][i] = chain.stages[i]
    BY DEF IInv, DecompressInv, ItemsInOrder
<1>7. CASE hbuf # DDst(remaining)
    BY <1>1, <1>3, <1>5, <1>6, <1>7
<1>8. CASE hbuf = DDst(remaining)
  <2>1. /\ hbuf # "dest" /\ Has(chain.stages, B) /\ remaining < total
        /\ hbuf = DDst(total)
      BY <1>2, <1>8 DEF IInv, DecompressInv
  <2>2. total >= 4
    <3>1. total \in Nat /\ total \in 1 .. total /\ remaining \in 1 .. total
        BY <1>1
    <3>2. DDst(total) # "out"
      <4>1. DDst(total) = "out" <=> total = 1
          BY <3>1, DecompressBuffers
      <4> QED
          BY <2>1, <3>1, <4>1
    <3>3. /\ DDst(remaining) = "out" <=> remaining = 1
          /\ remaining # 1 /\ remaining < total
                /\ DDst(remaining) = DDst(total) => total >= remaining + 2
        BY <3>1, DecompressBuffers
    <3> QED
        BY <1>8, <2>1, <3>1, <3>2, <3>3
  <2>3. cut # 0 => ReusesHeaderBuffer(chain)
    <3>1. cut # 0 => short[hbuf]
        BY <1>8 DEF Cuts
    <3>2. short[hbuf] => Has(chain.stages, D)
        BY DEF IInv, DecompressInv
    <3> QED
        BY <1>1, <2>1, <2>2, <3>1, <3>2 DEF ReusesHeaderBuffer
  <2>4. trail'[hbuf] = [i \in Items |-> IF i <= cut THEN Junk ELSE trail[hbuf][i]]
      BY <1>1, <1>3, <1>8 DEF Clobbered
  <2>5. cut \in Nat
      BY <1>1 DEF Cuts, Items
  <2>6. \A i \in 1 .. remaining :
            trail'[hbuf][i] = IF i <= cut THEN Junk ELSE trail[hbuf][i]
      BY <1>1, <2>4 DEF Items
  <2> QED
      BY <1>1, <1>5, <1>6, <2>3, <2>5, <2>6
<1> QED
    BY <1>7, <1>8

LEMMA DecompressBytesInv == IInv /\ DecompressBytes => IInv'
<1> SUFFICES ASSUME IInv, DecompressBytes PROVE IInv'
    OBVIOUS
<1>1. phase = "decompress" /\ Dispatchable(algo) /\ AlgoType[algo] = B
    BY DEF DecompressBytes, Decompressing
<1>2. /\ MaxStages \in Nat /\ hpos = remaining
      /\ total = Len(chain.stages) /\ total \in 1 .. MaxStages
      /\ remaining \in 1 .. total /\ chain \in Chains
      /\ algo = chain.stages[remaining]
    BY <1>1, UndoFacts
<1>3. remaining = total /\ Has(chain.stages, B)
    BY <1>1, <1>2, BytesComeLast DEF Has
<1>4. NextHeaderBuffer = DDst(remaining)
    BY <1>3 DEF NextHeaderBuffer
<1>5. /\ DSrc(remaining) = "dest"
      /\ DDst(remaining) \in {"out", "buff_tmp1", "buff_tmp2"}
    BY <1>2, <1>3, DecompressBuffers
<1>6. hbuf = "dest"
    BY <1>1, <1>2, <1>3 DEF IInv, DecompressInv
<1>7. /\ applied' = [applied EXCEPT ![DDst(remaining)] =
                                       Undo(algo, applied[DSrc(remaining)])]
      /\ trail' = [trail EXCEPT ![DDst(remaining)] = trail["dest"]]
      /\ short' = [short EXCEPT ![DDst(remaining)] = short["dest"]]
      /\ FetchNext(trail', DDst(remaining), hpos - 1)
    BY <1>5 DEF DecompressBytes
<1>8. /\ trail \in [Buffers -> [Items -> Algo \cup {Junk}]]
      /\ short \in [Buffers -> BOOLEAN] /\ ~short["source"]
    BY DEF IInv, TypeOK, ResultInv
<1>9. /\ trail' \in [Buffers -> [Items -> Algo \cup {Junk}]]
      /\ trail'["dest"] = trail["dest"]
      /\ trail'[DDst(remaining)] = trail["dest"]
      /\ short' \in [Buffers -> BOOLEAN]
      /\ short'["dest"] = short["dest"] /\ ~short'["source"]
      /\ short'[DDst(remaining)] = short["dest"]
  <2>1. /\ trail' \in [Buffers -> [Items -> Algo \cup {Junk}]]
        /\ trail'["dest"] = trail["dest"]
        /\ trail'[DDst(remaining)] = trail["dest"]
      BY <1>5, <1>7, <1>8 DEF Buffers
  <2>2. /\ short' \in [Buffers -> BOOLEAN]
        /\ short'["dest"] = short["dest"] /\ ~short'["source"]
        /\ short'[DDst(remaining)] = short["dest"]
      BY <1>5, <1>7, <1>8 DEF Buffers
  <2> QED
      BY <2>1, <2>2
<1>10. short["dest"] => Has(chain.stages, D)
    BY <1>1, <1>6 DEF IInv, DecompressInv
<1>11. \A i \in 1 .. remaining - 1 :
          /\ trail["dest"][i] \in {chain.stages[i], Junk}
          /\ ~ReusesHeaderBuffer(chain) => trail["dest"][i] = chain.stages[i]
    BY <1>1, <1>2, <1>6 DEF IInv, DecompressInv, ItemsInOrder
<1> QED
    BY <1>1, <1>2, <1>4, <1>7, <1>9, <1>10, <1>11, StageUndone

LEMMA DecompressElementsInv ==
    ASSUME NEW type \in {C, D}
    PROVE  IInv /\ DecompressElements(type) => IInv'
<1> SUFFICES ASSUME IInv, DecompressElements(type) PROVE IInv'
    OBVIOUS
<1>1. phase = "decompress" /\ Dispatchable(algo) /\ AlgoType[algo] # B
    BY DEF DecompressElements, Decompressing, B, C, D
<1>2. /\ remaining \in 1 .. total /\ total \in 1 .. MaxStages
      /\ hpos = remaining
    BY <1>1, UndoFacts
<1>3. hbuf = NextHeaderBuffer
    BY <1>1, HeaderStays
<1>4. PICK cut \in Cuts(DDst(remaining)) :
         trail' = [trail EXCEPT ![DDst(remaining)] =
                                  Clobbered(DDst(remaining), cut)]
    BY DEF DecompressElements
<1>5. /\ applied' = [applied EXCEPT ![DDst(remaining)] =
                                       Undo(algo, applied[DSrc(remaining)])]
      /\ FetchNext(trail', hbuf, hpos - 1) /\ UNCHANGED short
    BY DEF DecompressElements
<1>6. /\ trail' \in [Buffers -> [Items -> Algo \cup {Junk}]]
      /\ trail'["dest"] = trail["dest"]
      /\ \A i \in 1 .. remaining :
            /\ trail'[hbuf][i] \in {chain.stages[i], Junk}
            /\ ~ReusesHeaderBuffer(chain) =>
                  trail'[hbuf][i] = chain.stages[i]
    BY <1>1, <1>4, ClobberedItems
<1>7. /\ short' \in [Buffers -> BOOLEAN]
      /\ short'["dest"] = short["dest"] /\ ~short'["source"]
      /\ short'[NextHeaderBuffer] => Has(chain.stages, D)
    BY <1>1, <1>3, <1>5 DEF IInv, TypeOK, ResultInv, DecompressInv
<1>8. \A i \in 1 .. remaining - 1 : i \in 1 .. remaining
    BY <1>2, PipelineAssumption
<1> QED
    BY <1>1, <1>2, <1>3, <1>5, <1>6, <1>7, <1>8, StageUndone

LEMMA DecompressFirstInv == IInv /\ DecompressFirst => IInv'
<1> SUFFICES ASSUME IInv, DecompressFirst PROVE IInv'
    OBVIOUS
<1>1. phase = "decompress" /\ Dispatchable(algo) /\ AlgoType[algo] # B
    BY DEF DecompressFirst, Decompressing, B, PF
<1>2. /\ remaining \in 1 .. total /\ total \in 1 .. MaxStages
      /\ hpos = remaining /\ MaxStages \in Nat
      /\ algo = chain.stages[remaining]
    BY <1>1, UndoFacts
<1>3. hbuf = NextHeaderBuffer
    BY <1>1, HeaderStays
<1>4. PICK cut \in Cuts(DDst(remaining)) :
         trail' = [trail EXCEPT ![DDst(remaining)] =
                                  Clobbered(DDst(remaining), cut)]
    BY DEF DecompressFirst
<1>5. /\ applied' = [applied EXCEPT ![DDst(remaining)] =
                                       Undo(algo, applied[DSrc(remaining)])]
      /\ UNCHANGED short
    BY DEF DecompressFirst
<1>6. /\ trail' \in [Buffers -> [Items -> Algo \cup {Junk}]]
      /\ trail'["dest"] = trail["dest"]
      /\ \A i \in 1 .. remaining :
            /\ trail'[hbuf][i] \in {chain.stages[i], Junk}
            /\ ~ReusesHeaderBuffer(chain) =>
                  trail'[hbuf][i] = chain.stages[i]
    BY <1>1, <1>4, ClobberedItems
<1>7. /\ short' \in [Buffers -> BOOLEAN]
      /\ short'["dest"] = short["dest"] /\ ~short'["source"]
      /\ short'[NextHeaderBuffer] => Has(chain.stages, D)
    BY <1>1, <1>3, <1>5 DEF IInv, TypeOK, ResultInv, DecompressInv
<1>8. CASE trail'[hbuf][hpos] = algo
  <2>1. FetchNext(trail', hbuf, hpos - 1)
      BY <1>8 DEF DecompressFirst
  <2>2. \A i \in 1 .. remaining - 1 : i \in 1 .. remaining
      BY <1>2
  <2> QED
      BY <1>1, <1>2, <1>3, <1>5, <1>6, <1>7, <2>1, <2>2, StageUndone
<1>9. CASE trail'[hbuf][hpos] # algo
  <2>1. /\ phase' = "buffer_error"
        /\ UNCHANGED <<chain, total, remaining, items, gate, algo, hbuf, hpos>>
      BY <1>9 DEF DecompressFirst, readvars
  <2>2. ReusesHeaderBuffer(chain)
      BY <1>2, <1>6, <1>9
  <2>3. applied' \in [Buffers -> Term] /\ applied'["source"] = <<>>
    <3>1. /\ DDst(remaining) \in {"out", "buff_tmp1", "buff_tmp2"}
          /\ DSrc(remaining) \in {"dest", "buff_tmp1", "buff_tmp2"}
        BY <1>2, DecompressBuffers
    <3>2. applied \in [Buffers -> Term] /\ applied["source"] = <<>>
        BY DEF IInv, TypeOK, ResultInv
    <3>3. Undo(algo, applied[DSrc(remaining)]) \in Term
        BY <3>1, <3>2, UndoTerm DEF Buffers
    <3> QED
        BY <1>5, <3>1, <3>2, <3>3 DEF Buffers
  <2>4. TypeOK'
      BY <1>6, <1>7, <2>1, <2>3 DEF IInv, TypeOK, Phases
  <2> QED
      BY <1>7, <2>1, <2>2, <2>3, <2>4 DEF IInv, CompressInv, StoredInv,
            DecompressInv, ResultInv, RestoredIsOriginal,
            RejectsOnlyReusedHeader, ReusesHeaderBuffer, Has
<1> QED
    BY <1>8, <1>9

(* An id the dispatch rejects is not that of the stage that is due: that   *)
(* one would have its branch still ahead.                                  *)
LEMMA DecompressBadIdInv == IInv /\ DecompressBadId => IInv'
<1> SUFFICES ASSUME IInv, DecompressBadId PROVE IInv'
    OBVIOUS
<1>1. /\ phase = "decompress" /\ ~Dispatchable(algo)
      /\ phase' = "buffer_error"
      /\ UNCHANGED <<chain, total, remaining, items, applied, trail, short,
                     gate, algo, hbuf, hpos>>
    BY DEF DecompressBadId, bufvars, readvars
<1>2. /\ total = Len(chain.stages) /\ total \in 1 .. MaxStages
      /\ remaining \in 1 .. total /\ chain \in Chains
      /\ chain.stages[remaining] \in Algo /\ MaxStages \in Nat
    BY <1>1, UndoFacts
<1>3. gate = IF remaining = total THEN Outermost
             ELSE Rank(chain.stages[remaining + 1])
    BY <1>1 DEF IInv, DecompressInv
<1>4. Rank(chain.stages[remaining]) \in 0 .. 4
    BY <1>2, RankOfType
<1>5. Dispatchable(chain.stages[remaining])
  <2>1. CASE remaining = total
      BY <1>2, <1>3, <1>4, <2>1 DEF Dispatchable, Outermost
  <2>2. CASE remaining <= chain.first
    <3>1. AlgoType[chain.stages[remaining]] = PF
        BY <1>2, <2>2, ChainShape
    <3> QED
        BY <1>2, <3>1 DEF Dispatchable
  <2>3. CASE remaining # total /\ remaining > chain.first
    <3>1. /\ chain.first \in Nat /\ remaining + 1 \in 1 .. Len(chain.stages)
          /\ chain.first < remaining + 1 /\ remaining < remaining + 1
      <4>1. chain.first \in 0 .. Len(chain.stages)
          BY <1>2, ChainShape
      <4> QED
          BY <1>2, <2>3, <4>1
    <3>2. Rank(chain.stages[remaining]) < Rank(chain.stages[remaining + 1])
        BY <1>2, <3>1, ChainShape
    <3> QED
        BY <1>2, <1>3, <2>3, <3>2 DEF Dispatchable
  <2>4. chain.first \in Nat
      BY <1>2, ChainShape
  <2> QED
      BY <1>2, <2>1, <2>2, <2>3, <2>4
<1>6. ReusesHeaderBuffer(chain)
    BY <1>1, <1>5 DEF IInv, DecompressInv
<1>7. TypeOK'
    BY <1>1 DEF IInv, TypeOK, Phases
<1> QED
    BY <1>1, <1>6, <1>7 DEF IInv, CompressInv, StoredInv, DecompressInv,
          ResultInv, RestoredIsOriginal, RejectsOnlyReusedHeader,
          ReusesHeaderBuffer, Has

-----------------------------------------------------------------------------
LEMMA NextInv == IInv /\ [Next]_vars => IInv'
<1> SUFFICES ASSUME IInv, [Next]_vars PROVE IInv'
    OBVIOUS
<1>1. CASE Compress
  <2>1. CASE CompressStart
      BY <2>1, CompressStartInv
  <2>2. CASE CompressFirst
      BY <2>2, CompressFirstInv
  <2>3. CASE CompressConvert
      BY <2>3, CompressConvertInv
  <2>4. CASE CompressData
      BY <2>4, CompressDataInv
  <2>5. CASE CompressBytes
      BY <2>5, CompressBytesInv
  <2>6. CASE CompressError
      BY <2>6, StageErrorInv
  <2> QED
      BY <1>1, <2>1, <2>2, <2>3, <2>4, <2>5, <2>6 DEF Compress
<1>2. CASE Decompress
  <2>1. CASE DecompressStart
      BY <2>1, DecompressStartInv
  <2>2. CASE DecompressBytes
      BY <2>2, DecompressBytesInv
  <2>3. CASE DecompressData \/ DecompressConvert
      BY <2>3, DecompressElementsInv DEF DecompressData, DecompressConvert
  <2>4. CASE DecompressFirst
      BY <2>4, DecompressFirstInv
  <2>5. CASE DecompressBadId
      BY <2>5, DecompressBadIdInv
  <2>6. CASE DecompressError
      BY <2>6, StageErrorInv
  <2> QED
      BY <1>2, <2>1, <2>2, <2>3, <2>4, <2>5, <2>6 DEF Decompress
<1>3. CASE UNCHANGED vars
  <2>1. UNCHANGED <<phase, chain, total, remaining, items, applied, trail,
                    short, gate, algo, hbuf, hpos>>
      BY <1>3 DEF vars
  <2>2. TypeOK'
      BY <2>1 DEF IInv, TypeOK
  <2>3. CompressInv'
      BY <2>1 DEF IInv, CompressInv, SpellsStages, ItemsInOrder, TrailBuffer,
            HeaderBuffer, ConvertsThenData, Has, CSrc, CDst
  <2>4. StoredInv' /\ DecompressInv' /\ ResultInv'
      BY <2>1 DEF IInv, StoredInv, DecompressInv, ResultInv, SpellsStages,
            ItemsInOrder, ConvertsThenData, Has, ReusesHeaderBuffer, DSrc,
            DDst, RestoredIsOriginal, RejectsOnlyReusedHeader
  <2> QED
      BY <2>2, <2>3, <2>4 DEF IInv
<1> QED
    BY <1>1, <1>2, <1>3 DEF Next

(* The inductive invariant holds in every reachable state.                 *)
THEOREM Inductive == Spec => []IInv
<1> QED
    BY InitInv, NextInv, PTL DEF Spec

(* Every variable of scil_compress and scil_decompress stays in its type:  *)
(* no stage index, item position or buffer leaves its range, for chains of *)
(* any length.                                                             *)
THEOREM TypeCorrect == Spec => []TypeOK
<1>1. IInv => TypeOK
    BY DEF IInv
<1> QED
    BY <1>1, Inductive, PTL

(* pick_buffer never makes a stage work in place, overwrite the caller's   *)
(* input or overwrite the compressed buffer while it is read.              *)
THEOREM NeverInPlace == Spec => []StagesNotInPlace
<1>1. IInv => StagesNotInPlace
  <2>1. ASSUME IInv, phase = "compress"
        PROVE  CSrc(remaining) # CDst(remaining) /\ CDst(remaining) # "source"
    <3>1. remaining \in 1 .. total /\ total \in 1 .. MaxStages
        BY <2>1, StageFacts
    <3> QED
        BY <3>1, CompressBuffers, PipelineAssumption
  <2>2. ASSUME IInv, phase = "decompress"
        PROVE  DSrc(remaining) # DDst(remaining) /\ DDst(remaining) # "dest"
    <3>1. remaining \in 1 .. total /\ total \in 1 .. MaxStages
        BY <2>2, UndoFacts
    <3> QED
        BY <3>1, DecompressBuffers, PipelineAssumption
  <2> QED
      BY <2>1, <2>2 DEF StagesNotInPlace
<1> QED
    BY <1>1, Inductive, PTL

(* What scil_compress leaves in dest lists all the stages of the chain in  *)
(* order, and its size counts them all.                                    *)
THEOREM SelfDescribing == Spec => []StoredSelfDescribing
<1>1. IInv => StoredSelfDescribing
    BY DEF IInv, TypeOK, StoredInv, ItemsInOrder, StoredSelfDescribing
<1> QED
    BY <1>1, Inductive, PTL

(* scil_decompress dispatches on the id of the stage that is due, never on *)
(* that of another stage.                                                  *)
THEOREM UndoneInReverse == Spec => []DispatchMatchesChain
<1>1. IInv => DispatchMatchesChain
    BY DEF IInv, DecompressInv, DispatchMatchesChain
<1> QED
    BY <1>1, Inductive, PTL

(* A decompression that reports success restored the data that was         *)
(* compressed.                                                             *)
THEOREM RoundTrip == Spec => []RestoredIsOriginal
<1>1. IInv => RestoredIsOriginal
    BY DEF IInv, ResultInv
<1> QED
    BY <1>1, Inductive, PTL

(* A stored buffer is rejected only if its chain has at least four stages  *)
(* and ends in a data and a byte compressor: every shorter chain can be    *)
(* read back.                                                              *)
THEOREM OnlyReusedHeaderRejected == Spec => []RejectsOnlyReusedHeader
<1>1. IInv => RejectsOnlyReusedHeader
    BY DEF IInv, ResultInv
<1> QED
    BY <1>1, Inductive, PTL

(* No step of a decompression, and none between two calls, touches the     *)
(* stored buffer.                                                          *)
THEOREM StoredOnlyRead == Spec => ReadOnlyStored
<1>1. IInv /\ [Next]_vars =>
         (phase # "compress" /\ phase' # "compress" =>
            <<applied["dest"], trail["dest"]>>' =
                <<applied["dest"], trail["dest"]>>)
  <2> SUFFICES ASSUME IInv, [Next]_vars, phase # "compress",
                      phase' # "compress"
               PROVE  /\ applied'["dest"] = applied["dest"]
                      /\ trail'["dest"] = trail["dest"]
      OBVIOUS
  <2>1. CASE DecompressStart \/ DecompressBadId \/ DecompressError
             \/ UNCHANGED vars
      BY <2>1 DEF DecompressStart, DecompressBadId, DecompressError,
            bufvars, vars
  <2>2. ASSUME phase = "decompress", NEW b, NEW x, NEW y,
               b = DDst(remaining),
               applied' = [applied EXCEPT ![b] = x],
               trail' = [trail EXCEPT ![b] = y]
        PROVE  /\ applied'["dest"] = applied["dest"]
               /\ trail'["dest"] = trail["dest"]
    <3>1. remaining \in 1 .. total /\ total \in 1 .. MaxStages
        BY <2>2, UndoFacts
    <3>2. b # "dest"
        BY <2>2, <3>1, DecompressBuffers, PipelineAssumption
    <3>3. applied \in [Buffers -> Term]
          /\ trail \in [Buffers -> [Items -> Algo \cup {Junk}]]
        BY DEF IInv, TypeOK
    <3> QED
        BY <2>2, <3>2, <3>3 DEF Buffers
  <2>3. CASE DecompressBytes
      BY <2>2, <2>3 DEF DecompressBytes, Decompressing
  <2>4. CASE DecompressData \/ DecompressConvert
      BY <2>2, <2>4 DEF DecompressData, DecompressConvert,
            DecompressElements, Decompressing
  <2>5. CASE DecompressFirst
      BY <2>2, <2>5 DEF DecompressFirst, Decompressing
  <2>6. CASE Compress
      BY <2>6 DEF Compress, CompressStart, CompressFirst, CompressConvert,
            CompressData, CompressBytes, CompressError, Compressing
  <2> QED
      BY <2>1, <2>3, <2>4, <2>5, <2>6 DEF Next, Decompress
<1> QED
    BY <1>1, Inductive, PTL DEF Spec, ReadOnlyStored

-----------------------------------------------------------------------------
(* ScilPipeline implements ScilCodec: for chains of any length, the walk   *)
(* through the buffers applies the stages in order and undoes them in      *)
(* reverse.                                                                *)

(* The state function that plays "call" in the refinement.                 *)
Call == IF phase \in {"stage_error", "buffer_error"} THEN "failed" ELSE phase

(* What the next stage reads went through exactly the stages so far.       *)
LEMMA LiveWhileCompressing ==
    ASSUME IInv, phase = "compress", ~ConvertsThenData(chain)
    PROVE  /\ LiveElements = applied[CSrc(remaining)]
           /\ LiveElements \in Term
           /\ Len(LiveElements) = total - remaining
<1>1. total \in 1 .. MaxStages /\ remaining \in 1 .. total /\ MaxStages \in Nat
    BY StageFacts
<1>2. CSrc(remaining) \in Buffers
    BY <1>1, CompressBuffers DEF Buffers
<1> QED
    BY <1>2 DEF IInv, TypeOK, CompressInv, SpellsStages, LiveElements

LEMMA LiveWhileDecompressing ==
    ASSUME IInv, phase = "decompress", ~ConvertsThenData(chain)
    PROVE  /\ LiveElements = applied[DSrc(remaining)]
           /\ LiveElements \in Term
           /\ SpellsStages(LiveElements, remaining)
<1>1. total \in 1 .. MaxStages /\ remaining \in 1 .. total /\ MaxStages \in Nat
    BY UndoFacts
<1>2. DSrc(remaining) \in Buffers
    BY <1>1, DecompressBuffers DEF Buffers
<1> QED
    BY <1>2 DEF IInv, TypeOK, DecompressInv, LiveElements

-----------------------------------------------------------------------------
(* A stage that leaves its result in dst applies itself to the data.       *)
LEMMA ApplyStep ==
    ASSUME IInv, phase = "compress", ~ConvertsThenData(chain),
           StageCompressed,
           applied' = [applied EXCEPT ![CDst(remaining)] =
                         Append(applied[CSrc(remaining)], chain.stages[Stage])]
    PROVE  Codec!Apply
<1>1. /\ total = Len(chain.stages) /\ total \in 1 .. MaxStages
      /\ MaxStages \in Nat /\ remaining \in 1 .. total
      /\ Stage = total - remaining + 1
    BY StageFacts
<1>2. /\ CDst(remaining) \in {"dest", "buff_tmp"}
      /\ remaining # 1 => CSrc(remaining - 1) = CDst(remaining)
      /\ remaining = 1 => CDst(remaining) = "dest"
    BY <1>1, CompressBuffers
<1>3. /\ LiveElements = applied[CSrc(remaining)]
      /\ LiveElements \in Term
      /\ Len(LiveElements) = total - remaining
    BY LiveWhileCompressing
<1>4. /\ UNCHANGED <<chain, total>> /\ remaining' = remaining - 1
      /\ phase' = IF remaining = 1 THEN "stored" ELSE "compress"
    BY DEF StageCompressed
<1>5. applied'[CDst(remaining)] = Append(LiveElements, chain.stages[Stage])
    BY <1>2, <1>3 DEF IInv, TypeOK, Buffers
<1>6. LiveElements' = applied'[CDst(remaining)]
  <2>1. CASE remaining = 1
      BY <1>2, <1>4, <2>1 DEF LiveElements
  <2>2. CASE remaining # 1
    <3>1. CSrc(remaining)' = CSrc(remaining - 1)
        BY <1>4 DEF CSrc
    <3> QED
        BY <1>2, <1>4, <2>2, <3>1 DEF LiveElements
  <2> QED
      BY <2>1, <2>2
<1>7. LiveElements' = Append(LiveElements, chain.stages[Len(LiveElements) + 1])
    BY <1>1, <1>3, <1>5, <1>6
<1>8. Len(LiveElements') = Len(chain.stages) <=> remaining = 1
  <2>1. Len(LiveElements') = Len(LiveElements) + 1
      BY <1>3, <1>7 DEF Term
  <2> QED
      BY <1>1, <1>3, <2>1
<1>9. Call = "compress" /\ Call' = IF remaining = 1 THEN "stored" ELSE "compress"
    BY <1>4 DEF Call
<1> QED
    BY <1>4, <1>7, <1>8, <1>9 DEF Codec!Apply, Call

(* Undoing the stage whose id was read reverts the one applied last.       *)
LEMMA RevertStep ==
    ASSUME IInv, phase = "decompress", ~ConvertsThenData(chain),
           Dispatchable(algo), UNCHANGED <<chain, total>>,
           remaining' = remaining - 1,
           phase' = IF remaining = 1 THEN "restored" ELSE "decompress",
           applied' = [applied EXCEPT ![DDst(remaining)] =
                                        Undo(algo, applied[DSrc(remaining)])]
    PROVE  Codec!Revert
<1>1. /\ total \in 1 .. MaxStages /\ MaxStages \in Nat
      /\ remaining \in 1 .. total /\ algo = chain.stages[remaining]
    BY UndoFacts
<1>2. /\ DDst(remaining) \in {"out", "buff_tmp1", "buff_tmp2"}
      /\ remaining # 1 => DSrc(remaining - 1) = DDst(remaining)
      /\ remaining = 1 => DDst(remaining) = "out"
    BY <1>1, DecompressBuffers
<1>3. /\ LiveElements = applied[DSrc(remaining)]
      /\ LiveElements \in Term
      /\ SpellsStages(LiveElements, remaining)
    BY LiveWhileDecompressing
<1>4. /\ LiveElements # <<>> /\ Len(LiveElements) = remaining
      /\ LiveElements[Len(LiveElements)] = algo
    BY <1>1, <1>3 DEF SpellsStages, Term
<1>5. LiveElements' = applied'[DDst(remaining)]
  <2>1. CASE remaining = 1
      BY <1>2, <2>1 DEF LiveElements
  <2>2. CASE remaining # 1
    <3>1. DSrc(remaining)' = DSrc(remaining - 1)
        BY DEF DSrc
    <3> QED
        BY <1>2, <2>2, <3>1 DEF LiveElements
  <2> QED
      BY <2>1, <2>2
<1>6. LiveElements' = SubSeq(LiveElements, 1, Len(LiveElements) - 1)
    BY <1>2, <1>3, <1>4, <1>5 DEF IInv, TypeOK, Buffers, Undo
<1>7. LiveElements' = <<>> <=> remaining = 1
  <2>1. Len(LiveElements') = remaining - 1
      BY <1>1, <1>3, <1>4, <1>6 DEF Term
  <2>2. LiveElements' \in Seq(Algo \cup {Junk})
      BY <1>1, <1>3, <1>4, <1>6 DEF Term
  <2> QED
      BY <1>1, <2>1, <2>2
<1> QED
    BY <1>6, <1>7 DEF Codec!Revert

LEMMA CodecStart ==
    ASSUME \A ch \in Chains : ~ConvertsThenData(ch)
    PROVE  Init => Codec!CodecInit
<1> SUFFICES ASSUME Init PROVE Codec!CodecInit
    OBVIOUS
<1>1. total \in Nat /\ remaining = total /\ total \in 1 .. total
    BY ChainShape DEF Init
<1>2. CSrc(remaining) = "source"
    BY <1>1, CompressBuffers
<1>3. LiveElements = <<>>
    BY <1>2 DEF Init, LiveElements, Buffers
<1> QED
    BY <1>3 DEF Init, Codec!CodecInit

(* Every step of scil_compress and scil_decompress is one of the codec, or *)
(* none.                                                                   *)
LEMMA CodecStep ==
    ASSUME \A ch \in Chains : ~ConvertsThenData(ch), IInv, [Next]_vars
    PROVE  [Codec!CodecNext]_Codec!codecvars
<1>1. chain \in Chains /\ ~ConvertsThenData(chain)
    BY DEF IInv, TypeOK
<1>2. CASE CompressStart
  <2>1. /\ phase \in {"restored", "stage_error", "buffer_error"}
        /\ phase' = "compress" /\ chain' \in Chains
        /\ remaining' = total' /\ total' = Len(chain'.stages)
        /\ applied' = applied
      BY <1>2 DEF CompressStart, bufvars
  <2>2. total' \in Nat /\ total' >= 1
      BY <2>1, ChainShape
  <2>3. CSrc(remaining)' = "source"
      BY <2>1, <2>2 DEF CSrc, PickBuffer
  <2>4. LiveElements' = <<>>
      BY <2>1, <2>3 DEF IInv, ResultInv, LiveElements
  <2>5. Codec!Restart
      BY <2>1, <2>4 DEF Codec!Restart
  <2> QED
      BY <2>5 DEF Codec!CodecNext
<1>3. CASE CompressFirst \/ CompressConvert \/ CompressData \/ CompressBytes
  <2>1. phase = "compress" /\ StageCompressed
      BY <1>3 DEF CompressFirst, CompressConvert, CompressData,
            CompressBytes, Compressing
  <2>2. applied' = [applied EXCEPT ![CDst(remaining)] =
                      Append(applied[CSrc(remaining)], chain.stages[Stage])]
    <3>1. CASE CompressFirst \/ CompressConvert
        BY <3>1 DEF CompressFirst, CompressConvert
    <3>2. CASE CompressData
      <4>1. ~(Stage > 1 /\ AlgoType[chain.stages[Stage - 1]] = C)
        <5>1. Stage \in 1 .. Len(chain.stages)
            BY <2>1, StageFacts
        <5>2. AlgoType[chain.stages[Stage]] = D
            BY <3>2 DEF CompressData, Compressing
        <5> HIDE DEF Stage
        <5> QED
            BY <1>1, <5>1, <5>2 DEF ConvertsThenData, Has
      <4> QED
          BY <3>2, <4>1 DEF CompressData
    <3>3. CASE CompressBytes
      <4>1. /\ total = Len(chain.stages) /\ total \in 1 .. MaxStages
            /\ remaining \in 1 .. total /\ Stage = total - remaining + 1
            /\ Stage \in 1 .. total
          BY <2>1, StageFacts
      <4>2. AlgoType[chain.stages[Stage]] = B
          BY <3>3 DEF CompressBytes, Compressing
      <4>3. Stage = total
          BY <1>1, <4>1, <4>2, BytesComeLast
      <4>4. CDst(remaining) = "dest"
        <5>1. total \in Nat /\ remaining = 1
            BY <4>1, <4>3, PipelineAssumption
        <5> QED
            BY <4>1, <5>1, CompressBuffers
      <4> QED
          BY <3>3, <4>4 DEF CompressBytes
    <3> QED
        BY <1>3, <3>1, <3>2, <3>3
  <2>3. Codec!Apply
      BY <1>1, <2>1, <2>2, ApplyStep
  <2> QED
      BY <2>3 DEF Codec!CodecNext
<1>4. CASE CompressError \/ DecompressError \/ DecompressBadId
  <2>1. /\ phase \in {"compress", "decompress"}
        /\ phase' \in {"stage_error", "buffer_error"}
        /\ UNCHANGED chain
      BY <1>4 DEF CompressError, DecompressError, DecompressBadId
  <2>2. LiveElements' = <<>>
      BY <2>1 DEF LiveElements
  <2>3. Codec!Fail
      BY <2>1, <2>2 DEF Codec!Fail
  <2> QED
      BY <2>3 DEF Codec!CodecNext
<1>5. CASE DecompressStart
  <2>1. /\ phase \in {"stored", "restored"} /\ phase' = "decompress"
        /\ remaining' = total /\ UNCHANGED <<chain, total, applied>>
      BY <1>5 DEF DecompressStart, bufvars
  <2>2. total = Len(chain.stages) /\ total \in Nat /\ total >= 1
      BY <1>1, ChainShape DEF IInv, TypeOK
  <2>3. DSrc(remaining)' = "dest"
      BY <2>1, <2>2 DEF DSrc, PickBuffer
  <2>4. LiveElements' = applied["dest"]
      BY <2>1, <2>3 DEF LiveElements
  <2>5. applied["dest"] = chain.stages
    <3>1. SpellsStages(applied["dest"], total)
        BY <1>1, <2>1 DEF IInv, StoredInv
    <3>2. applied["dest"] \in Seq(Algo \cup {Junk})
        BY DEF IInv, TypeOK, Term, Buffers
    <3>3. chain.stages \in Seq(Algo)
        BY <1>1, ChainShape
    <3> QED
        BY <2>2, <3>1, <3>2, <3>3 DEF SpellsStages
  <2>6. Codec!Open
      BY <2>1, <2>4, <2>5 DEF Codec!Open
  <2> QED
      BY <2>6 DEF Codec!CodecNext
<1>6. ASSUME phase = "decompress", Dispatchable(algo),
             NEW tr, NEW b, NEW pos, FetchNext(tr, b, pos),
             applied' = [applied EXCEPT ![DDst(remaining)] =
                                          Undo(algo, applied[DSrc(remaining)])]
      PROVE  [Codec!CodecNext]_Codec!codecvars
  <2>1. /\ UNCHANGED <<chain, total>> /\ remaining' = remaining - 1
        /\ phase' = IF remaining = 1 THEN "restored" ELSE "decompress"
      BY <1>6 DEF FetchNext
  <2>2. Codec!Revert
      BY <1>1, <1>6, <2>1, RevertStep
  <2> QED
      BY <2>2 DEF Codec!CodecNext
<1>7. CASE DecompressBytes
    BY <1>6, <1>7 DEF DecompressBytes, Decompressing
<1>8. CASE DecompressData \/ DecompressConvert
    BY <1>6, <1>8 DEF DecompressData, DecompressConvert, DecompressElements,
          Decompressing
<1>9. CASE DecompressFirst
  <2>1. CASE trail'[hbuf][hpos] = algo
      BY <1>6, <1>9, <2>1 DEF DecompressFirst, Decompressing
  <2>2. CASE trail'[hbuf][hpos] # algo
    <3>1. phase = "decompress" /\ phase' = "buffer_error" /\ UNCHANGED chain
        BY <1>9, <2>2 DEF DecompressFirst, Decompressing
    <3>2. LiveElements' = <<>>
        BY <3>1 DEF LiveElements
    <3>3. Codec!Fail
        BY <3>1, <3>2 DEF Codec!Fail
    <3> QED
        BY <3>3 DEF Codec!CodecNext
  <2> QED
      BY <2>1, <2>2
<1>10. CASE UNCHANGED vars
    BY <1>10 DEF vars, Codec!codecvars, LiveElements, CSrc, DSrc
<1> QED
    BY <1>2, <1>3, <1>4, <1>5, <1>7, <1>8, <1>9, <1>10
       DEF Next, Compress, Decompress

(* If no chain has a converter before a data compressor, scil_compress and *)
(* scil_decompress implement the codec: a decompression that succeeds has  *)
(* undone, in reverse, exactly the stages that were applied.               *)
THEOREM Refinement ==
    ASSUME \A ch \in Chains : ~ConvertsThenData(ch)
    PROVE  Spec => ImplementsCodec
<1>1. Init => Codec!CodecInit
    BY CodecStart
<1>2. IInv /\ [Next]_vars => [Codec!CodecNext]_Codec!codecvars
    BY CodecStep
<1> QED
    BY <1>1, <1>2, Inductive, PTL
       DEF Spec, ImplementsCodec, Codec!CodecSpec
=============================================================================
