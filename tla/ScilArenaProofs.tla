-------------------------- MODULE ScilArenaProofs --------------------------
(***************************************************************************)
(* The memory of both calls for arrays of every size: how much they use,   *)
(* and that in roomy arrays nothing is overwritten that is still read.     *)
(***************************************************************************)
EXTENDS ScilArena, TLAPS

USE DEF Item, Slack

(* The buffers of consecutive stages: the source of a stage is what the    *)
(* stage before has written, and is never its own destination.             *)
LEMMA CompressBuffers ==
    ASSUME NEW r \in Nat \ {0}
    PROVE  /\ CDst(r) \in {"dest", "buff_tmp"}
           /\ CDst(1) = "dest"
           /\ r = Total => CSrc(r) = "source"
           /\ r # Total => CSrc(r) \in {"dest", "buff_tmp"} \ {CDst(r)}
           /\ r # Total => CSrc(r) = CDst(r + 1)
  <1>1. r % 2 \in {0, 1} /\ (r + 1) % 2 \in {0, 1} /\ r % 2 # (r + 1) % 2
    OBVIOUS
  <1> QED BY <1>1 DEF CSrc, CDst, PickBuffer

LEMMA DecompressBuffers ==
    ASSUME NEW r \in Nat \ {0}
    PROVE  /\ DDst(r) \in {"out", "buff_tmp1", "buff_tmp2"}
           /\ DDst(r) = "out" <=> r = 1
           /\ DDst(r + 1) # DDst(r)
           /\ DDst(r + 1) \in {"buff_tmp1", "buff_tmp2"}
  <1>1. r % 2 \in {0, 1} /\ (r + 1) % 2 \in {0, 1} /\ r % 2 # (r + 1) % 2
    OBVIOUS
  <1>2. DDst(r) = IF r = 1 THEN "out" ELSE IF r % 2 = 0 THEN "buff_tmp1" ELSE "buff_tmp2"
    BY <1>1 DEF DDst, PickBuffer
  <1>3. DDst(r + 1) = IF (r + 1) % 2 = 0 THEN "buff_tmp1" ELSE "buff_tmp2"
    BY <1>1 DEF DDst, PickBuffer
  <1> QED BY <1>1, <1>2, <1>3

(* The numbers a stage starts from. *)
Done == Total - remaining

(* The length behind all stages but the byte compressor. *)
Encoded(n) ==
    CASE call.data = None       -> n = S + Item * call.pre
      [] call.data = "quantize" -> n = 16 + (IF call.width = 4 THEN 2 * S ELSE S)
                                        + Item * call.pre + 1
      [] call.data = "abstol"   -> n \in 18 + Item * call.pre .. 18 + S + Item * call.pre

State ==
    /\ pc \in {"compress", "stored", "decompress", "done", "failed", "crashed"}
    /\ call \in Calls
    /\ remaining \in 0 .. Total
    /\ pc \in {"compress", "decompress"} => remaining > 0
    /\ pc = "decompress" => S > 0
    /\ pc = "crashed" => S = 0
    /\ {length, raw, top} \subseteq Nat
    /\ clash \in BOOLEAN

(* How long the data is. *)
Lengths ==
    /\ pc = "compress" /\ Done <= call.pre => length = S + Item * Done
    /\ pc = "compress" /\ S > 0 /\ remaining <= One(call.byte) => Encoded(length)
    /\ pc # "compress" /\ S > 0 /\ call.byte # None => Encoded(raw)

(* Where the elements and the items are while compressing. *)
CompressInv ==
    pc = "compress" =>
        /\ Done = 0 => /\ elems = Region("source", 0, S)
                       /\ items = Region("source", S, 0)
        /\ Done \in 1 .. call.pre =>
               /\ elems = Region(CDst(remaining + 1), 0, S)
               /\ items = Region(CDst(1 + Total - call.pre), S, Item * Done)

(* The items that are left in the unpacked buffer. *)
Left == IF remaining > call.pre THEN Trailer ELSE Item * remaining

InStored(x) == "block" \in DOMAIN x /\ x.block = Stored

(* Where they are while decompressing. *)
DecompressInv ==
    pc = "decompress" =>
        /\ remaining = Total => elems.block = Stored
        /\ remaining = Total \/ call.byte = None => InStored(items)
        /\ remaining < Total =>
               elems = Region(DDst(remaining + 1), 0,
                              IF remaining + 1 = Total /\ call.byte # None
                              THEN raw - Trailer ELSE S)
        /\ remaining < Total /\ call.byte # None =>
               items = Region(DDst(Total), raw - Trailer, Left)

(* All but the decompression of an empty array stays within the limit. *)
Within == pc # "crashed" => top <= 4 * S + 1024

(* What the sizes of the stages alone show, and where they write. *)
Sizes  == State /\ Lengths /\ Within /\ RoomSuffices
Places == CompressInv /\ DecompressInv /\ StagesApart

(* What the assumptions say of one call. *)
LEMMA CallFacts ==
    ASSUME call \in Calls
    PROVE  /\ S \in Nat /\ call.pre \in 0 .. 10
           /\ call.data \in {None, "quantize", "abstol"}
           /\ call.byte \in {None, "memcopy", "gzip", "lz4"}
           /\ call.width \in {1, 2, 4, 8}
           /\ Total = call.pre + One(call.data) + One(call.byte)
           /\ One(call.data) \in {0, 1} /\ One(call.byte) \in {0, 1}
           /\ One(call.data) = 0 <=> call.data = None
           /\ One(call.byte) = 0 <=> call.byte = None
           /\ Total \in 1 .. 12
           /\ call.data = "quantize" => call.width \in {4, 8}
  <1>1. call \in Call /\ (call.pre > 0 \/ call.data # None \/ call.byte # None)
        /\ (call.data = "quantize" => call.width \in {4, 8})
    BY CallsAssumption DEF CallsAssumption
  <1>2. S \in Nat /\ call.pre \in 0 .. 10 /\ call.width \in {1, 2, 4, 8}
        /\ call.data \in {None, "quantize", "abstol"}
        /\ call.byte \in {None, "memcopy", "gzip", "lz4"}
    BY <1>1 DEF Call, S, Limit
  <1> QED BY <1>1, <1>2 DEF Total, One, None

(* How long encoded data is at most, in any array and in a roomy one. *)
LEMMA EncodedBound ==
    ASSUME call \in Calls, NEW n \in Nat, Encoded(n)
    PROVE  /\ n <= 2 * S + Item * call.pre + 18
           /\ n >= Trailer
           /\ call.data # "abstol" => n - Trailer >= S
           /\ Roomy => n <= S + Item * call.pre + 18
  <1> USE CallFacts DEF Item, Trailer, One, None
  <1>1. CASE call.data = None
    BY <1>1 DEF Encoded
  <1>2. CASE call.data = "quantize"
    BY <1>2 DEF Encoded, Roomy
  <1>3. CASE call.data = "abstol"
    BY <1>3 DEF Encoded
  <1> QED BY <1>1, <1>2, <1>3

(* Roomy arrays have room for two packed ones and everything behind them. *)
LEMMA RoomyBound ==
    ASSUME call \in Calls, Roomy, NEW n \in Nat, Encoded(n)
    PROVE  /\ n + 20 + n \div 255 < 2 * S + 10
           /\ n + 13 + n \div 1024 < 2 * S + 10
  <1>1. S \in Nat /\ call.pre \in 0 .. 10
    BY CallFacts
  <1>2. n <= S + 6 * call.pre + 18 /\ S >= 6 * call.pre + 29
    BY EncodedBound DEF Roomy, Sizeable, Item
  <1>3. 255 * (n \div 255) <= n /\ n \div 1024 <= n \div 255 /\ n \div 255 \in Nat
    OBVIOUS
  <1> HIDE DEF S
  <1>4. n + 20 + n \div 255 < 2 * S + 10
    BY <1>1, <1>2, <1>3
  <1> QED BY <1>1, <1>2, <1>3, <1>4

Scratch == {"dest", "buff_tmp", "buff_tmp1", "buff_tmp2"}

(* Two buffers are apart as long as neither is used beyond the distance    *)
(* they have, and so are two places one behind the other in one buffer.    *)
LEMMA RegionsApart ==
    ASSUME call \in Calls, NEW b \in Scratch, NEW c \in Scratch,
           NEW d \in Nat, NEW m \in Nat, NEW e \in Nat, NEW n \in Nat,
           \/ b # c /\ d + m <= 2 * S + 10 /\ e + n <= 2 * S + 10
           \/ b = c /\ d + m <= e
    PROVE  ~Meet(Region(b, d, m), Region(c, e, n)) /\ ~Meet(Region(c, e, n), Region(b, d, m))
  <1>1. S \in Nat
    BY CallFacts
  <1> HIDE DEF S
  <1> QED BY <1>1 DEF Meet, Region, Block, Offset, Scratch

(* Other blocks never meet. *)
LEMMA BlocksApart ==
    ASSUME NEW x, NEW y, x.block # y.block
    PROVE  ~Meet(x, y) /\ ~Meet(y, x)
  BY DEF Meet

(* A region that begins within its buffer ends where its length says. *)
LEMMA RegionEnds ==
    ASSUME call \in Calls, NEW b, NEW d \in Nat, NEW m \in Nat
    PROVE  Region(b, d, m).to \in Nat /\ Region(b, d, m).to <= 2 * S + 11 + d + m
  <1>1. S \in Nat
    BY CallFacts
  <1> HIDE DEF S
  <1>2. Offset(b) \in Nat /\ Offset(b) <= 2 * S + 11
    BY <1>1 DEF Offset
  <1> QED BY <1>1, <1>2 DEF Region

LEMMA HigherBound ==
    ASSUME NEW bl, NEW x, NEW k \in Nat, x.to \in Nat, x.to <= k, top \in Nat, top <= k
    PROVE  Higher(bl, x) \in Nat /\ Higher(bl, x) <= k
  BY DEF Higher

LEMMA LargerBound ==
    ASSUME NEW x \in Nat, NEW y \in Nat, NEW k \in Nat, x <= k, y <= k
    PROVE  Larger(x, y) \in Nat /\ Larger(x, y) <= k
  BY DEF Larger

(* The sizes at the start of a call. *)
LEMMA InitSizes == Init => Sizes
  <1> SUFFICES ASSUME Init PROVE Sizes
    OBVIOUS
  <1>1. call \in Calls /\ pc = "compress" /\ remaining = Total /\ length = S /\ raw = S
        /\ top = 1 /\ clash = FALSE
    BY DEF Init
  <1>2. Total \in 1 .. 12 /\ S \in Nat /\ Done = 0 /\ call.pre \in 0 .. 10
    BY <1>1, CallFacts DEF Done
  <1>3. State
    <2>1. length \in Nat /\ raw \in Nat /\ top \in Nat /\ remaining \in 0 .. Total
          /\ remaining > 0
      BY <1>1, <1>2
    <2>2. clash \in BOOLEAN
      BY <1>1, Zenon
    <2> QED BY <1>1, <2>1, <2>2 DEF State
  <1>4. Lengths
    <2>1. ASSUME remaining <= One(call.byte) PROVE Encoded(length)
      <3>1. call.pre = 0 /\ call.data = None
        BY <1>1, <1>2, <2>1, CallFacts
      <3> QED BY <1>1, <1>2, <3>1 DEF Encoded, None
    <2>2. length = S + Item * Done
      BY <1>1, <1>2
    <2> QED BY <1>1, <2>1, <2>2 DEF Lengths
  <1>5. Within
    <2> HIDE DEF S
    <2> QED BY <1>1, <1>2 DEF Within
  <1> QED BY <1>1, <1>3, <1>4, <1>5 DEF Sizes, RoomSuffices

(* What a step that keeps the call and its sizes needs of its numbers. *)
LEMMA SameSizes ==
    ASSUME call' = call
    PROVE  /\ S' = S /\ Total' = Total /\ Trailer' = Trailer /\ (Roomy' <=> Roomy)
           /\ Lengths' <=>
                 /\ pc' = "compress" /\ Total - remaining' <= call.pre =>
                        length' = S + 6 * (Total - remaining')
                 /\ pc' = "compress" /\ S > 0 /\ remaining' <= One(call.byte) =>
                        Encoded(length')
                 /\ pc' # "compress" /\ S > 0 /\ call.byte # None => Encoded(raw')
           /\ Within' <=> (pc' # "crashed" => top' <= 4 * S + 1024)
           /\ RoomSuffices' <=> (pc' = "failed" => ~Roomy)
  <1>1. S' = S /\ Total' = Total /\ Trailer' = Trailer /\ (Roomy' <=> Roomy)
    BY DEF S, Total, Trailer, Roomy, Sizeable
  <1>2. Lengths' <=>
                 /\ pc' = "compress" /\ Total - remaining' <= call.pre =>
                        length' = S + 6 * (Total - remaining')
                 /\ pc' = "compress" /\ S > 0 /\ remaining' <= One(call.byte) =>
                        Encoded(length')
                 /\ pc' # "compress" /\ S > 0 /\ call.byte # None => Encoded(raw')
    BY <1>1 DEF Lengths, Done, Encoded, S
  <1> QED BY <1>1, <1>2 DEF Within, RoomSuffices

(* A stage of either call that ends within its length stays in the limit. *)
LEMMA WithinLimit ==
    ASSUME call \in Calls, top \in Nat, top <= 4 * S + 1024,
           NEW bl, NEW b, NEW d \in Nat, NEW m \in Nat, d + m <= 2 * S + 200
    PROVE  /\ Higher(bl, Region(b, d, m)) \in Nat
           /\ Higher(bl, Region(b, d, m)) <= 4 * S + 1024
  <1>1. S \in Nat
    BY CallFacts
  <1>2. Region(b, d, m).to \in Nat /\ Region(b, d, m).to <= 2 * S + 11 + d + m
    BY RegionEnds
  <1> HIDE DEF S
  <1> QED BY <1>1, <1>2 DEF Higher

(* The end of a stage of scil_compress. *)
LEMMA CompressedState ==
    ASSUME State, Compressing, Compressed, length' \in Nat, raw' \in Nat, top' \in Nat,
           clash' \in BOOLEAN
    PROVE  /\ State'
           /\ call' = call /\ S' = S /\ Total' = Total
           /\ remaining' = remaining - 1 /\ remaining \in 1 .. Total
           /\ pc' \in {"compress", "stored"} /\ (pc' = "compress" <=> remaining # 1)
  <1>1. call' = call /\ remaining' = remaining - 1 /\ remaining > 0
        /\ pc' = IF remaining = 1 THEN "stored" ELSE "compress"
    BY DEF Compressing, Compressed
  <1>2. S' = S /\ Total' = Total
    BY <1>1 DEF S, Total
  <1>3. Total \in Nat /\ remaining \in 0 .. Total
    BY CallFacts DEF State
  <1>4. remaining \in 1 .. Total /\ remaining' \in 0 .. Total
        /\ (pc' \in {"compress", "decompress"} => remaining' > 0)
    BY <1>1, <1>3
  <1>5. State'
    BY <1>1, <1>2, <1>4 DEF State
  <1> QED BY <1>1, <1>2, <1>4, <1>5

LEMMA PreconditionSizes ==
    ASSUME Sizes, Precondition
    PROVE  Sizes'
  <1>1. /\ State /\ Lengths /\ Within /\ call \in Calls /\ pc = "compress"
        /\ Compressing /\ Compressed /\ S > 0 /\ Total - remaining < call.pre /\ raw' = raw
    BY DEF Sizes, State, Precondition, Compressing
  <1>2. /\ S \in Nat /\ call.pre \in 0 .. 10 /\ Total \in 1 .. 12 /\ remaining \in 0 .. Total
        /\ raw \in Nat /\ top \in Nat /\ top <= 4 * S + 1024
        /\ Total = call.pre + One(call.data) + One(call.byte)
        /\ One(call.data) \in {0, 1} /\ One(call.byte) \in {0, 1}
        /\ (One(call.byte) = 0 <=> call.byte = None)
        /\ (One(call.data) = 0 <=> call.data = None)
    BY <1>1, CallFacts DEF State, Within
  <1> DEFINE done   == 6 * (Total - remaining)
             header == CDst(1 + Total - call.pre)
  <1>3. /\ clash' \in BOOLEAN
        /\ top' = Larger(Higher("dest", Region(CDst(remaining), 0, S)),
                         Higher("dest", Region(header, S + done, 6)))
        /\ length' = S + done + 6
    <2>1. clash \in BOOLEAN
      BY <1>1 DEF State
    <2> QED BY <2>1 DEF Precondition, Meet
  <1> HIDE DEF S
  <1>4. done \in 0 .. 54 /\ S + done \in Nat /\ length' \in Nat
    BY <1>1, <1>2, <1>3
  <1> HIDE DEF done, header
  <1>5. top' \in Nat /\ top' <= 4 * S + 1024
    <2>1. /\ Higher("dest", Region(CDst(remaining), 0, S)) \in Nat
          /\ Higher("dest", Region(CDst(remaining), 0, S)) <= 4 * S + 1024
      BY <1>1, <1>2, WithinLimit
    <2>2. /\ Higher("dest", Region(header, S + done, 6)) \in Nat
          /\ Higher("dest", Region(header, S + done, 6)) <= 4 * S + 1024
      BY <1>1, <1>2, <1>4, WithinLimit
    <2> QED BY <1>2, <1>3, <2>1, <2>2, LargerBound
  <1>6. /\ State' /\ call' = call /\ remaining' = remaining - 1 /\ remaining \in 1 .. Total
        /\ pc' \in {"compress", "stored"} /\ (pc' = "compress" <=> remaining # 1)
    BY <1>1, <1>2, <1>3, <1>4, <1>5, CompressedState
  <1>7. Lengths'
    <2>1. length' = S + 6 * (Total - remaining')
      BY <1>2, <1>3, <1>6 DEF done
    <2>2. ASSUME remaining' <= One(call.byte) PROVE Encoded(length')
      <3>1. Total - remaining' = call.pre /\ call.data = None
        BY <1>1, <1>2, <1>6, <2>2
      <3> QED BY <2>1, <3>1 DEF Encoded, None
    <2>3. ASSUME pc' # "compress", call.byte # None PROVE FALSE
      BY <1>1, <1>2, <1>6, <2>3
    <2> QED BY <1>6, <2>1, <2>2, <2>3, SameSizes
  <1> QED BY <1>5, <1>6, <1>7, SameSizes DEF Sizes

(* What both calls know of a state in which the sizes hold. *)
LEMMA SizesFacts ==
    ASSUME Sizes
    PROVE  /\ call \in Calls /\ S \in Nat /\ call.pre \in 0 .. 10 /\ Total \in 1 .. 12
           /\ remaining \in 0 .. Total
           /\ length \in Nat /\ raw \in Nat /\ top \in Nat
           /\ Total = call.pre + One(call.data) + One(call.byte)
           /\ One(call.data) \in {0, 1} /\ One(call.byte) \in {0, 1}
           /\ (One(call.byte) = 0 <=> call.byte = None)
           /\ (One(call.data) = 0 <=> call.data = None)
           /\ Trailer \in Nat /\ Trailer = 6 * call.pre + One(call.data)
  <1>1. State /\ Within
    BY DEF Sizes
  <1> QED BY <1>1, CallFacts DEF State, Within, Trailer

(* Every state but that crash is within the limit. *)
LEMMA TopIs ==
    ASSUME Sizes, pc # "crashed"
    PROVE  top <= 4 * S + 1024
  BY DEF Sizes, Within

LEMMA EncodeSizes ==
    ASSUME Sizes, Encode
    PROVE  Sizes'
  <1>1. /\ State /\ Lengths /\ pc = "compress" /\ Compressing /\ Compressed /\ S > 0
        /\ Total - remaining = call.pre /\ call.data # None /\ raw' = raw
    BY DEF Sizes, State, Encode, Compressing
  <1>2. PICK out \in EncodedLengths :
          LET kept == length - S
              dst  == Region(CDst(remaining), 0, IF call.data = "abstol" THEN out + 1 ELSE out)
              copy == Region(CDst(remaining), out, kept)
              from == Region(CSrc(remaining), S, kept)
          IN  /\ clash' = (clash \/ Meet(dst, elems) \/ Meet(dst, from) \/ Meet(copy, from))
              /\ items' = Region(CDst(remaining), out, kept + 1)
              /\ top'   = Larger(Higher("dest", dst), Higher("dest", items'))
              /\ length' = out + kept + 1
    BY DEF Encode
  <1>3. length = S + 6 * call.pre
    BY <1>1, SizesFacts DEF Lengths, Done
  <1>4. /\ out \in Nat /\ out <= 2 * S + 17
        /\ call.data = "quantize" => out = 16 + (IF call.width = 4 THEN 2 * S ELSE S)
        /\ call.data = "abstol" => out \in 17 .. 17 + S
        /\ call.data \in {"quantize", "abstol"}
    <2>1. call.data \in {"quantize", "abstol"} /\ S \in Nat
      BY <1>1, SizesFacts, CallFacts DEF None
    <2> HIDE DEF S
    <2>2. CASE call.data = "quantize"
      BY <2>1, <2>2 DEF EncodedLengths
    <2>3. CASE call.data = "abstol"
      BY <2>1, <2>3 DEF EncodedLengths
    <2> QED BY <2>1, <2>2, <2>3
  <1> DEFINE kept == length - S
             n    == IF call.data = "abstol" THEN out + 1 ELSE out
  <1> HIDE DEF S
  <1>5. kept = 6 * call.pre /\ kept \in Nat /\ kept <= 60 /\ n \in Nat /\ n <= 2 * S + 18
    BY <1>3, <1>4, SizesFacts
  <1>6. /\ clash' \in BOOLEAN
        /\ top' = Larger(Higher("dest", Region(CDst(remaining), 0, n)),
                         Higher("dest", Region(CDst(remaining), out, kept + 1)))
        /\ length' = out + kept + 1
    <2>1. clash \in BOOLEAN
      BY <1>1 DEF State
    <2> QED BY <1>2, <2>1 DEF Meet
  <1> HIDE DEF kept, n
  <1>7. top' \in Nat /\ top' <= 4 * S + 1024
    <2>1. /\ Higher("dest", Region(CDst(remaining), 0, n)) \in Nat
          /\ Higher("dest", Region(CDst(remaining), 0, n)) <= 4 * S + 1024
      BY <1>1, <1>5, SizesFacts, TopIs, WithinLimit
    <2>2. /\ Higher("dest", Region(CDst(remaining), out, kept + 1)) \in Nat
          /\ Higher("dest", Region(CDst(remaining), out, kept + 1)) <= 4 * S + 1024
      <3>1. kept + 1 \in Nat /\ out + (kept + 1) <= 2 * S + 200
        BY <1>4, <1>5, SizesFacts
      <3> QED BY <1>1, <1>4, <3>1, SizesFacts, TopIs, WithinLimit
    <2>3. 4 * S + 1024 \in Nat
      BY SizesFacts
    <2> QED BY <1>6, <2>1, <2>2, <2>3, LargerBound
  <1>8. length' \in Nat
    BY <1>4, <1>5, <1>6
  <1>9. /\ State' /\ call' = call /\ remaining' = remaining - 1 /\ remaining \in 1 .. Total
        /\ pc' \in {"compress", "stored"} /\ (pc' = "compress" <=> remaining # 1)
    BY <1>1, <1>6, <1>7, <1>8, SizesFacts, CompressedState
  <1>10. Lengths'
    <2>1. Encoded(length')
      <3>1. CASE call.data = "quantize"
        <4>1. length' = 16 + (IF call.width = 4 THEN 2 * S ELSE S) + 6 * call.pre + 1
          BY <1>4, <1>5, <1>6, <3>1, SizesFacts
        <4> QED BY <3>1, <4>1 DEF Encoded, None
      <3>2. CASE call.data = "abstol"
        <4>1. length' \in 18 + 6 * call.pre .. 18 + S + 6 * call.pre
          BY <1>4, <1>5, <1>6, <3>2, SizesFacts
        <4> QED BY <3>2, <4>1 DEF Encoded, None
      <3> QED BY <1>4, <3>1, <3>2
    <2>2. Total - remaining' > call.pre
      BY <1>1, <1>9, SizesFacts
    <2>3. ASSUME pc' # "compress" PROVE call.byte = None
      BY <1>1, <1>9, <2>3, SizesFacts
    <2> QED BY <1>9, <2>1, <2>2, <2>3, SizesFacts, SameSizes
  <1> QED BY <1>7, <1>9, <1>10, SameSizes DEF Sizes

LEMMA PackSizes ==
    ASSUME Sizes, Pack
    PROVE  Sizes'
  <1>1. /\ State /\ Lengths /\ pc = "compress" /\ Compressing /\ Compressed /\ S > 0
        /\ remaining = 1 /\ call.byte # None /\ raw' = length /\ length' = length
    BY DEF Sizes, State, Pack, Compressing
  <1>2. PICK out \in PackedLengths :
          /\ clash' = (clash \/ Meet(Region("dest", 0, out + 1), Region(CSrc(remaining), 0, length)))
          /\ top'   = Higher("dest", Region("dest", 0, out + 1))
    BY DEF Pack
  <1>3. Encoded(length) /\ length <= 2 * S + 6 * call.pre + 18
    <2>1. Encoded(length)
      BY <1>1, SizesFacts DEF Lengths
    <2> QED BY <2>1, SizesFacts, EncodedBound
  <1>4. out \in Nat /\ out <= length + length \div 255 + 20
    <2>1. call.byte \in {"memcopy", "gzip", "lz4"} /\ length \in Nat
      BY <1>1, SizesFacts, CallFacts DEF None
    <2>2. /\ length \div 255 \in Nat /\ length \div 1024 \in Nat
          /\ length \div 1024 <= length \div 255
      BY <2>1
    <2>3. CASE call.byte = "memcopy"
      BY <2>1, <2>2, <2>3 DEF PackedLengths
    <2>4. CASE call.byte = "gzip"
      BY <2>1, <2>2, <2>4 DEF PackedLengths, Smaller
    <2>5. CASE call.byte = "lz4"
      BY <2>1, <2>2, <2>5 DEF PackedLengths
    <2> QED BY <2>1, <2>3, <2>4, <2>5
  <1> HIDE DEF S
  <1>5. 0 + (out + 1) <= 2 * S + 200 + length \div 255 /\ out + 1 \in Nat
    BY <1>3, <1>4, SizesFacts
  <1>6. top' \in Nat /\ top' <= 4 * S + 1024
    <2>1. Region("dest", 0, out + 1).to = out + 2
      BY <1>4 DEF Region, Offset
    <2>2. out + 2 <= 4 * S + 1024
      <3>1. length \div 255 <= length /\ 255 * (length \div 255) <= length
        BY SizesFacts
      <3> QED BY <1>3, <1>4, <3>1, SizesFacts
    <2> QED BY <1>1, <1>2, <1>4, <2>1, <2>2, SizesFacts, TopIs, HigherBound
  <1>7. clash' \in BOOLEAN
    <2>1. clash \in BOOLEAN
      BY <1>1 DEF State
    <2> QED BY <1>2, <2>1 DEF Meet
  <1>8. /\ State' /\ call' = call /\ remaining' = 0 /\ pc' = "stored"
    BY <1>1, <1>6, <1>7, SizesFacts, CompressedState
  <1>9. Lengths'
    BY <1>1, <1>3, <1>8, SameSizes
  <1> QED BY <1>6, <1>8, <1>9, SameSizes DEF Sizes

(* The end of a stage of scil_decompress. *)
LEMMA DecompressedState ==
    ASSUME State, Decompressing, Decompressed, top' \in Nat, clash' \in BOOLEAN
    PROVE  /\ State'
           /\ call' = call /\ length' = length /\ raw' = raw
           /\ remaining' = remaining - 1 /\ remaining \in 1 .. Total
           /\ pc' \in {"decompress", "done"} /\ (pc' = "decompress" <=> remaining # 1)
  <1>1. /\ call' = call /\ remaining' = remaining - 1 /\ remaining > 0
        /\ pc' = (IF remaining = 1 THEN "done" ELSE "decompress")
        /\ length' = length /\ raw' = raw
    BY DEF Decompressing, Decompressed
  <1>2. S' = S /\ Total' = Total
    BY <1>1 DEF S, Total
  <1>3. Total \in Nat /\ remaining \in 0 .. Total
    BY CallFacts DEF State
  <1>4. remaining \in 1 .. Total /\ remaining' \in 0 .. Total
        /\ (pc' \in {"compress", "decompress"} => remaining' > 0)
    BY <1>1, <1>3
  <1>5. pc = "decompress"
    BY DEF Decompressing
  <1>6. State'
    BY <1>1, <1>2, <1>4, <1>5 DEF State
  <1> QED BY <1>1, <1>4, <1>6

(* Steps that are no stage. *)
LEMMA CallSizes ==
    ASSUME Sizes, StoreEmpty \/ StartEmpty \/ Start \/ UnpackFails
    PROVE  Sizes'
  <1>1. State /\ Lengths /\ Within /\ RoomSuffices
    BY DEF Sizes
  <1>2. call' = call /\ length' = length /\ raw' = raw /\ S' = S /\ Total' = Total
    BY DEF StoreEmpty, StartEmpty, Start, UnpackFails, S, Total
  <1>3. CASE StoreEmpty
    <2>1. /\ pc' = "stored" /\ remaining' = remaining /\ top' = top /\ clash' = clash
          /\ S = 0 /\ pc = "compress"
      BY <1>3 DEF StoreEmpty
    <2>2. State'
      BY <1>1, <1>2, <2>1 DEF State
    <2> QED BY <1>1, <1>2, <2>1, <2>2, SizesFacts, TopIs, SameSizes DEF Sizes
  <1>4. CASE Start
    <2>1. /\ pc = "stored" /\ remaining' = Total /\ top' = 0 /\ clash' = FALSE
          /\ pc' = "decompress" /\ S > 0
      BY <1>4 DEF Start
    <2>2. State'
      <3>1. clash' \in BOOLEAN
        BY <2>1, Zenon
      <3>2. /\ remaining' \in 0 .. Total' /\ remaining' > 0 /\ top' \in Nat
            /\ pc' \in {"compress", "stored", "decompress", "done", "failed", "crashed"}
        BY <1>2, <2>1, SizesFacts
      <3>3. pc' = "decompress" => S' > 0
        BY <1>2, <2>1, SizesFacts
      <3> QED BY <1>1, <1>2, <2>1, <3>1, <3>2, <3>3 DEF State
    <2>3. Lengths'
      BY <1>1, <1>2, <2>1, SizesFacts, SameSizes DEF Lengths
    <2>4. top' <= 4 * S + 1024
      <3>1. S \in Nat
        BY SizesFacts
      <3> HIDE DEF S
      <3> QED BY <2>1, <3>1
    <2>5. pc' # "failed"
      BY <2>1
    <2> QED BY <1>2, <2>2, <2>3, <2>4, <2>5, SameSizes DEF Sizes
  <1>6. CASE StartEmpty
    <2>1. /\ pc' = "crashed" /\ S = 0 /\ remaining' = 0 /\ clash' = TRUE
          /\ top' = Region(DDst(0), 0, (-1) % (SizeMax + 1)).to
      BY <1>6 DEF StartEmpty
    <2>2. (-1) % (SizeMax + 1) \in Nat
      BY CallsAssumption DEF CallsAssumption
    <2>3. top' \in Nat
      BY <2>1, <2>2, SizesFacts, RegionEnds
    <2>4. State'
      BY <1>1, <1>2, <2>1, <2>3, SizesFacts DEF State
    <2>5. Lengths'
      BY <1>1, <1>2, <2>1, SameSizes
    <2> QED BY <1>2, <2>1, <2>4, <2>5, SameSizes DEF Sizes
  <1>5. CASE UnpackFails
    <2>1. /\ pc = "decompress" /\ pc' = "failed" /\ top' = top /\ clash' = clash
          /\ remaining' = remaining
          /\ call.byte = "gzip" /\ raw > 2 * S + 10 /\ remaining > 0
      BY <1>5 DEF UnpackFails, Decompressing
    <2>2. State'
      BY <1>1, <1>2, <2>1 DEF State
    <2>3. ASSUME S > 0, Roomy PROVE FALSE
      <3>1. Encoded(raw) /\ raw \in Nat
        BY <1>1, <2>1, <2>3, SizesFacts DEF Lengths, None
      <3>2. raw + 13 + raw \div 1024 < 2 * S + 10 /\ raw \div 1024 \in Nat
        BY <2>3, <3>1, SizesFacts, RoomyBound
      <3>3. S \in Nat
        BY SizesFacts
      <3> HIDE DEF S
      <3> QED BY <2>1, <3>1, <3>2, <3>3
    <2>4. Roomy => S > 0
      BY SizesFacts DEF Roomy, Sizeable
    <2>5. Lengths'
      BY <1>1, <1>2, <2>1, SizesFacts, SameSizes DEF Lengths
    <2> QED BY <1>1, <1>2, <2>1, <2>2, <2>3, <2>4, <2>5, SizesFacts, TopIs, SameSizes DEF Sizes
  <1> QED BY <1>3, <1>4, <1>5, <1>6

LEMMA UnpackSizes ==
    ASSUME Sizes, Unpack
    PROVE  Sizes'
  <1>1. /\ State /\ Lengths /\ pc = "decompress" /\ Decompressing /\ Decompressed
        /\ call.byte # None /\ clash' = clash
        /\ top' = Higher("tmp", Region(DDst(remaining), 0, raw))
    BY DEF Sizes, State, Unpack, Decompressing
  <1>2. raw \in Nat /\ 0 + raw <= 2 * S + 200
    <2>1. raw <= 2 * S + 6 * call.pre + 18
      <3>1. Encoded(raw)
        BY <1>1 DEF Lengths, State
      <3> QED BY <3>1, SizesFacts, EncodedBound
    <2> HIDE DEF S
    <2> QED BY <2>1, SizesFacts
  <1>3. top' \in Nat /\ top' <= 4 * S + 1024
    BY <1>1, <1>2, SizesFacts, TopIs, WithinLimit
  <1>4. clash' \in BOOLEAN
    BY <1>1 DEF State
  <1>5. /\ State' /\ call' = call /\ raw' = raw /\ pc' \in {"decompress", "done"}
    BY <1>1, <1>3, <1>4, DecompressedState
  <1>6. Lengths'
    BY <1>1, <1>5, SameSizes DEF Lengths
  <1> QED BY <1>3, <1>5, <1>6, SameSizes DEF Sizes

LEMMA RevertSizes ==
    ASSUME Sizes, Revert
    PROVE  Sizes'
  <1> DEFINE dst == Region(DDst(remaining), 0, S)
  <1>1. /\ State /\ Lengths /\ pc = "decompress" /\ Decompressing /\ Decompressed
        /\ top' = Higher("tmp", dst)
    BY DEF Sizes, State, Revert, Decompressing
  <1>2. clash' \in BOOLEAN
    <2>1. clash \in BOOLEAN
      BY <1>1 DEF State
    <2> QED BY <2>1 DEF Revert, Meet
  <1>3. 0 + S <= 2 * S + 200 /\ S \in Nat
    <2>1. S \in Nat
      BY SizesFacts
    <2> HIDE DEF S
    <2> QED BY <2>1
  <1>4. top' \in Nat /\ top' <= 4 * S + 1024
    BY <1>1, <1>3, SizesFacts, TopIs, WithinLimit
  <1>5. /\ State' /\ call' = call /\ raw' = raw /\ pc' \in {"decompress", "done"}
    BY <1>1, <1>2, <1>4, DecompressedState
  <1>6. Lengths'
    BY <1>1, <1>5, SameSizes DEF Lengths
  <1> QED BY <1>4, <1>5, <1>6, SameSizes DEF Sizes

(* The sizes hold in every state of both calls. *)
THEOREM SizesHold == Spec => []Sizes
  <1>1. Sizes /\ [Next]_vars => Sizes'
    <2> SUFFICES ASSUME Sizes, [Next]_vars PROVE Sizes'
      OBVIOUS
    <2>1. CASE Next
      BY <2>1, PreconditionSizes, EncodeSizes, PackSizes, CallSizes, UnpackSizes, RevertSizes
         DEF Next
    <2>2. CASE UNCHANGED vars
      <3>1. call' = call /\ pc' = pc /\ remaining' = remaining /\ length' = length
            /\ raw' = raw /\ top' = top /\ clash' = clash
        BY <2>2 DEF vars
      <3>2. State'
        BY <3>1 DEF Sizes, State, S, Total
      <3>3. Lengths'
        BY <3>1, SameSizes DEF Sizes, Lengths, Done
      <3> QED BY <3>1, <3>2, <3>3, SizesFacts, TopIs, SameSizes DEF Sizes, RoomSuffices
    <2> QED BY <2>1, <2>2
  <1> QED BY InitSizes, <1>1, PTL DEF Spec

(* The variables keep their types. *)
THEOREM TypeCorrect == Spec => []TypeOK
  <1>1. Sizes => TypeOK
    BY CallsAssumption DEF Sizes, State, TypeOK, CallsAssumption
  <1> QED BY <1>1, SizesHold, PTL

(* Neither call writes beyond scilPr_get_compressed_data_size_limit bytes, *)
(* unless scil_decompress is given an empty array.                         *)
THEOREM LimitIsKept == Spec => []LimitSuffices
  <1>1. Sizes => LimitSuffices
    <2> SUFFICES ASSUME Sizes, top > 4 * S + 1024 PROVE S = 0 /\ pc = "crashed"
      BY DEF LimitSuffices, Slack
    <2>1. S \in Nat /\ top \in Nat /\ (pc # "crashed" => top <= 4 * S + 1024)
      BY SizesFacts, TopIs
    <2>2. pc = "crashed" => S = 0
      BY DEF Sizes, State
    <2> HIDE DEF S
    <2>3. pc = "crashed"
      BY <2>1
    <2> QED BY <2>2, <2>3
  <1> QED BY <1>1, SizesHold, PTL

(* The room scil_decompress tells gzip is enough in every roomy array. *)
THEOREM RoomIsEnough == Spec => []RoomSuffices
  <1>1. Sizes => RoomSuffices
    BY DEF Sizes
  <1> QED BY <1>1, SizesHold, PTL

-----------------------------------------------------------------------------

(* Where things are depends on the call alone. *)
LEMMA SamePlaces ==
    ASSUME call' = call
    PROVE  /\ CompressInv' <=>
                 (pc' = "compress" =>
                     /\ Total - remaining' = 0 =>
                            /\ elems' = Region("source", 0, S)
                            /\ items' = Region("source", S, 0)
                     /\ Total - remaining' \in 1 .. call.pre =>
                            /\ elems' = Region(CDst(remaining' + 1), 0, S)
                            /\ items' = Region(CDst(1 + Total - call.pre), S,
                                               6 * (Total - remaining')))
           /\ DecompressInv' <=>
                 (pc' = "decompress" =>
                     /\ remaining' = Total => elems'.block = Stored
                     /\ remaining' = Total \/ call.byte = None => InStored(items')
                     /\ remaining' < Total =>
                            elems' = Region(DDst(remaining' + 1), 0,
                                            IF remaining' + 1 = Total /\ call.byte # None
                                            THEN raw' - Trailer ELSE S)
                     /\ remaining' < Total /\ call.byte # None =>
                            items' = Region(DDst(Total), raw' - Trailer,
                                            IF remaining' > call.pre THEN Trailer
                                            ELSE 6 * remaining'))
           /\ StagesApart' <=>
                 (clash' => ~Roomy \/ (pc' \in {"decompress", "done"} /\ Reuses))
  BY DEF CompressInv, DecompressInv, StagesApart, Region, Block, Offset, CDst, DDst,
         PickBuffer, Total, S, One, Done, Trailer, Left, Roomy, Sizeable, Reuses,
         Decompresses, None, InStored

LEMMA InitPlaces == Init => Places
  <1> SUFFICES ASSUME Init PROVE Places
    OBVIOUS
  <1>1. /\ pc = "compress" /\ call \in Calls /\ remaining = Total /\ clash = FALSE
        /\ elems = Region("source", 0, S) /\ items = Region("source", S, 0)
    BY DEF Init
  <1>2. Done = 0
    BY <1>1, CallFacts DEF Done
  <1>3. CompressInv
    BY <1>1, <1>2 DEF CompressInv
  <1> QED BY <1>1, <1>3 DEF Places, DecompressInv, StagesApart

LEMMA PreconditionPlaces ==
    ASSUME Sizes, Sizes', Places, Precondition
    PROVE  Places'
  <1> DEFINE dst    == Region(CDst(remaining), 0, S)
             header == CDst(1 + Total - call.pre)
             done   == 6 * (Total - remaining)
             item   == Region(header, S + done, 6)
  <1>1. /\ CompressInv /\ StagesApart /\ call \in Calls /\ pc = "compress"
        /\ remaining > 0 /\ Total - remaining < call.pre
        /\ call' = call /\ remaining' = remaining - 1 /\ pc' \in {"compress", "stored"}
        /\ clash' = (clash \/ Meet(dst, elems) \/ Meet(dst, items) \/ Meet(item, dst))
        /\ elems' = dst /\ items' = Region(header, S, done + 6)
    BY DEF Places, Sizes, State, Precondition, Compressing, Compressed
  <1>2. /\ S \in Nat /\ call.pre \in 0 .. 10 /\ Total \in 1 .. 12 /\ call.pre <= Total
        /\ remaining \in 1 .. Total
    BY <1>1, SizesFacts
  <1>3. /\ CDst(remaining) \in {"dest", "buff_tmp"} /\ header \in {"dest", "buff_tmp"}
        /\ remaining # Total =>
              CDst(remaining + 1) \in {"dest", "buff_tmp"} \ {CDst(remaining)}
    <2>1. 1 + Total - call.pre \in Nat \ {0} /\ remaining \in Nat \ {0}
      BY <1>2
    <2> QED BY <2>1, CompressBuffers
  <1> HIDE DEF S
  <1>4. done \in 0 .. 54
    BY <1>1, <1>2
  <1> HIDE DEF dst, header, done, item
  <1>5. CompressInv'
    <2>1. /\ remaining' + 1 = remaining /\ Total - remaining' # 0
          /\ done + 6 = 6 * (Total - remaining')
      BY <1>1, <1>2 DEF done
    <2>2. items' = Region(header, S, 6 * (Total - remaining'))
      BY <1>1, <2>1
    <2> QED BY <1>1, <2>1, <2>2, SamePlaces DEF dst, header
  <1>6. StagesApart'
    <2>1. ASSUME Roomy PROVE ~Meet(dst, elems) /\ ~Meet(dst, items) /\ ~Meet(item, dst)
      <3>1. S >= 6 * call.pre + 29 /\ done + 6 <= 6 * call.pre
        BY <1>1, <1>2, <2>1 DEF Roomy, Sizeable, done
      <3>2. ~Meet(item, dst)
        <4>1. /\ 0 + S <= 2 * S + 10 /\ (S + done) + 6 <= 2 * S + 10
              /\ 0 + S <= S + done /\ S + done \in Nat
          BY <1>2, <1>4, <3>1
        <4> QED BY <1>1, <1>2, <1>3, <4>1, RegionsApart DEF item, dst, Scratch
      <3>3. CASE remaining = Total
        <4>1. elems = Region("source", 0, S) /\ items = Region("source", S, 0)
          BY <1>1, <1>2, <3>3 DEF CompressInv, Done
        <4>2. elems.block # dst.block /\ items.block # dst.block
          BY <1>3, <4>1 DEF dst, Region, Block
        <4> QED BY <3>2, <4>2, BlocksApart
      <3>4. CASE remaining # Total
        <4>1. elems = Region(CDst(remaining + 1), 0, S) /\ items = Region(header, S, done)
          <5>1. Done \in 1 .. call.pre /\ 6 * Done = done
            BY <1>1, <1>2, <3>4 DEF Done, done
          <5> QED BY <1>1, <5>1 DEF CompressInv, header
        <4>2. ~Meet(dst, elems)
          <5>1. 0 + S <= 2 * S + 10
            BY <1>2
          <5> QED BY <1>1, <1>2, <1>3, <3>4, <4>1, <5>1, RegionsApart DEF dst, Scratch
        <4>3. ~Meet(dst, items)
          <5>1. 0 + S <= 2 * S + 10 /\ S + done <= 2 * S + 10 /\ 0 + S <= S /\ done \in Nat
            BY <1>2, <1>4, <3>1
          <5> QED BY <1>1, <1>2, <1>3, <4>1, <5>1, RegionsApart DEF dst, Scratch
        <4> QED BY <3>2, <4>2, <4>3
      <3> QED BY <3>3, <3>4
    <2>2. clash => ~Roomy
      BY <1>1 DEF StagesApart, Decompresses
    <2> QED BY <1>1, <2>1, <2>2, SamePlaces
  <1>7. DecompressInv'
    BY <1>1, SamePlaces
  <1> QED BY <1>5, <1>6, <1>7 DEF Places

LEMMA EncodePlaces ==
    ASSUME Sizes, Sizes', Places, Encode
    PROVE  Places'
  <1>1. /\ CompressInv /\ StagesApart /\ Lengths /\ call \in Calls /\ pc = "compress"
        /\ remaining > 0 /\ Total - remaining = call.pre /\ call.data # None
        /\ call' = call /\ remaining' = remaining - 1 /\ pc' \in {"compress", "stored"}
    BY DEF Places, Sizes, State, Encode, Compressing, Compressed
  <1>2. PICK out \in EncodedLengths :
          LET kept == length - S
              dst  == Region(CDst(remaining), 0, IF call.data = "abstol" THEN out + 1 ELSE out)
              copy == Region(CDst(remaining), out, kept)
              from == Region(CSrc(remaining), S, kept)
          IN  clash' = (clash \/ Meet(dst, elems) \/ Meet(dst, from) \/ Meet(copy, from))
    BY DEF Encode
  <1>3. /\ S \in Nat /\ call.pre \in 0 .. 10 /\ Total \in 1 .. 12 /\ remaining \in 1 .. Total
    BY <1>1, SizesFacts
  <1>4. length = S + 6 * call.pre
    BY <1>1, <1>3 DEF Lengths, Done
  <1> DEFINE kept == 6 * call.pre
             n    == IF call.data = "abstol" THEN out + 1 ELSE out
             dst  == Region(CDst(remaining), 0, n)
             copy == Region(CDst(remaining), out, kept)
             from == Region(CSrc(remaining), S, kept)
  <1>5. clash' = (clash \/ Meet(dst, elems) \/ Meet(dst, from) \/ Meet(copy, from))
    <2>1. length - S = kept
      <3> HIDE DEF S
      <3> QED BY <1>3, <1>4
    <2> QED BY <1>2, <2>1
  <1>6. Roomy => /\ out \in Nat /\ n \in Nat /\ kept \in Nat
                 /\ 0 + n <= 2 * S + 10 /\ out + kept <= 2 * S + 10
                 /\ S + kept <= 2 * S + 10 /\ 0 + S <= 2 * S + 10
    <2>1. call.data \in {"quantize", "abstol"}
      BY <1>1, CallFacts DEF None
    <2>2. ASSUME Roomy
          PROVE  S >= 6 * call.pre + 29 /\ (call.data = "quantize" => call.width = 8)
      BY <2>2 DEF Roomy, Sizeable
    <2> HIDE DEF S
    <2>3. CASE call.data = "quantize"
      BY <1>3, <2>2, <2>3 DEF EncodedLengths
    <2>4. CASE call.data = "abstol"
      BY <1>3, <2>2, <2>4 DEF EncodedLengths
    <2> QED BY <2>1, <2>3, <2>4
  <1>7. CDst(remaining) \in {"dest", "buff_tmp"}
    BY <1>3, CompressBuffers
  <1> HIDE DEF S, kept, n, dst, copy, from
  <1>8. ASSUME Roomy PROVE ~Meet(dst, elems) /\ ~Meet(dst, from) /\ ~Meet(copy, from)
    <2>1. CASE remaining = Total
      <3>1. elems = Region("source", 0, S) /\ CSrc(remaining) = "source"
        BY <1>1, <1>3, <2>1, CompressBuffers DEF CompressInv, Done
      <3>2. elems.block # dst.block /\ from.block # dst.block /\ from.block # copy.block
        BY <1>7, <3>1 DEF dst, from, copy, Region, Block
      <3> QED BY <3>2, BlocksApart
    <2>2. CASE remaining # Total
      <3>1. /\ CSrc(remaining) = CDst(remaining + 1)
            /\ CSrc(remaining) \in {"dest", "buff_tmp"} \ {CDst(remaining)}
        BY <1>3, <2>2, CompressBuffers
      <3>2. elems = Region(CSrc(remaining), 0, S)
        <4>1. Done \in 1 .. call.pre
          BY <1>1, <1>3, <2>2 DEF Done
        <4> QED BY <1>1, <3>1, <4>1 DEF CompressInv
      <3>3. ~Meet(dst, elems)
        BY <1>1, <1>3, <1>6, <1>7, <1>8, <3>1, <3>2, RegionsApart DEF dst, Scratch
      <3>4. ~Meet(dst, from)
        BY <1>1, <1>3, <1>6, <1>7, <1>8, <3>1, RegionsApart DEF dst, from, Scratch
      <3>5. ~Meet(copy, from)
        BY <1>1, <1>3, <1>6, <1>7, <1>8, <3>1, RegionsApart DEF copy, from, Scratch
      <3> QED BY <3>3, <3>4, <3>5
    <2> QED BY <2>1, <2>2
  <1>9. StagesApart'
    <2>1. clash => ~Roomy
      BY <1>1 DEF StagesApart, Decompresses
    <2> QED BY <1>1, <1>5, <1>8, <2>1, SamePlaces
  <1>10. CompressInv'
    <2>1. Total - remaining' # 0 /\ Total - remaining' \notin 1 .. call.pre
      BY <1>1, <1>3
    <2> QED BY <1>1, <2>1, SamePlaces
  <1>11. DecompressInv'
    BY <1>1, SamePlaces
  <1> QED BY <1>9, <1>10, <1>11 DEF Places

LEMMA PackPlaces ==
    ASSUME Sizes, Sizes', Places, Pack
    PROVE  Places'
  <1>1. /\ StagesApart /\ Lengths /\ call \in Calls /\ pc = "compress" /\ S > 0
        /\ remaining = 1 /\ call.byte # None /\ call' = call /\ pc' = "stored"
    BY DEF Places, Sizes, State, Pack, Compressing, Compressed
  <1>2. PICK out \in PackedLengths :
           clash' = (clash \/ Meet(Region("dest", 0, out + 1), Region(CSrc(1), 0, length)))
    BY <1>1 DEF Pack
  <1>3. ASSUME Roomy
        PROVE  ~Meet(Region("dest", 0, out + 1), Region(CSrc(1), 0, length))
    <2>1. CASE Total = 1
      <3>1. CSrc(1) = "source"
        BY <2>1, CompressBuffers
      <3>2. Region("dest", 0, out + 1).block # Region(CSrc(1), 0, length).block
        BY <3>1 DEF Region, Block
      <3> QED BY <3>2, BlocksApart
    <2>2. CASE Total # 1
      <3>1. CSrc(1) \in {"dest", "buff_tmp"} \ {"dest"}
        BY <2>2, CompressBuffers
      <3>2. /\ length \in Nat /\ S \in Nat
            /\ length + 20 + length \div 255 < 2 * S + 10
            /\ length + 13 + length \div 1024 < 2 * S + 10
        BY <1>1, <1>3, SizesFacts, RoomyBound DEF Lengths
      <3>3. length \div 255 \in Nat /\ length \div 1024 \in Nat
        BY <3>2
      <3> HIDE DEF S
      <3>4. out \in Nat /\ out + 1 <= 2 * S + 10 /\ length <= 2 * S + 10
        <4>1. call.byte \in {"memcopy", "gzip", "lz4"}
          BY <1>1, CallFacts DEF None
        <4>2. CASE call.byte = "memcopy"
          BY <3>2, <3>3, <4>2 DEF PackedLengths
        <4>3. CASE call.byte = "gzip"
          BY <3>2, <3>3, <4>3 DEF PackedLengths, Smaller
        <4>4. CASE call.byte = "lz4"
          BY <3>2, <3>3, <4>4 DEF PackedLengths
        <4> QED BY <4>1, <4>2, <4>3, <4>4
      <3>5. out + 1 \in Nat /\ 0 + (out + 1) <= 2 * S + 10 /\ 0 + length <= 2 * S + 10
        BY <3>2, <3>4
      <3> QED BY <1>1, <3>1, <3>2, <3>5, RegionsApart DEF Scratch
    <2> QED BY <2>1, <2>2
  <1>4. StagesApart'
    <2>1. clash => ~Roomy
      BY <1>1 DEF StagesApart, Decompresses
    <2> QED BY <1>1, <1>2, <1>3, <2>1, SamePlaces
  <1>5. CompressInv' /\ DecompressInv'
    BY <1>1, SamePlaces
  <1> QED BY <1>4, <1>5 DEF Places

LEMMA CallPlaces ==
    ASSUME Sizes, Sizes', Places, StoreEmpty \/ StartEmpty \/ Start \/ UnpackFails
    PROVE  Places'
  <1>1. StagesApart
    BY DEF Places
  <1>2. CASE StoreEmpty
    <2>1. pc = "compress" /\ pc' = "stored" /\ call' = call /\ clash' = clash
      BY <1>2 DEF StoreEmpty
    <2> QED BY <1>1, <2>1, SamePlaces DEF Places, StagesApart, Decompresses
  <1>3. CASE Start
    <2>1. /\ pc' = "decompress" /\ call' = call /\ clash' = FALSE
          /\ remaining' = Total
          /\ elems' = Region(Stored, 0, S) /\ items' = Region(Stored, S, length - S)
      BY <1>3 DEF Start
    <2>2. elems'.block = Stored /\ InStored(items')
      BY <2>1 DEF Region, Block, Stored, InStored
    <2>3. ~(remaining' < Total)
      BY <2>1, SizesFacts
    <2> QED BY <2>1, <2>2, <2>3, SamePlaces DEF Places
  <1>4. CASE UnpackFails
    <2>1. pc' = "failed" /\ call' = call
      BY <1>4 DEF UnpackFails
    <2>2. ~Roomy
      BY <2>1, SameSizes DEF Sizes
    <2> QED BY <2>1, <2>2, SamePlaces DEF Places
  <1>5. CASE StartEmpty
    <2>1. pc' = "crashed" /\ call' = call /\ S = 0
      BY <1>5 DEF StartEmpty
    <2>2. ~Roomy
      BY <2>1, SizesFacts DEF Roomy, Sizeable, Item
    <2> QED BY <2>1, <2>2, SamePlaces DEF Places
  <1> QED BY <1>2, <1>3, <1>4, <1>5

LEMMA UnpackPlaces ==
    ASSUME Sizes, Sizes', Places, Unpack
    PROVE  Places'
  <1>1. /\ StagesApart /\ pc = "decompress" /\ remaining = Total /\ call.byte # None
        /\ call \in Calls /\ call' = call /\ raw' = raw /\ remaining' = Total - 1
        /\ pc' \in {"decompress", "done"} /\ clash' = clash
        /\ elems' = Region(DDst(Total), 0, raw - Trailer)
        /\ items' = Region(DDst(Total), raw - Trailer, Trailer)
    BY DEF Places, Sizes, State, Unpack, Decompressing, Decompressed
  <1>2. StagesApart'
    BY <1>1, SamePlaces DEF StagesApart, Decompresses
  <1>3. CompressInv'
    BY <1>1, SamePlaces
  <1>4. DecompressInv'
    <2>1. remaining' < Total /\ remaining' # Total /\ remaining' + 1 = Total
      BY <1>1, SizesFacts
    <2>2. remaining' > call.pre \/ Trailer = 6 * remaining'
      BY <1>1, SizesFacts
    <2> QED BY <1>1, <2>1, <2>2, SamePlaces
  <1> QED BY <1>2, <1>3, <1>4 DEF Places

LEMMA RevertPlaces ==
    ASSUME Sizes, Sizes', Places, Revert
    PROVE  Places'
  <1> DEFINE dst  == Region(DDst(remaining), 0, S)
             own  == [items EXCEPT !.to = @ - 1]
             left == IF remaining > call.pre THEN Trailer ELSE 6 * remaining
  <1>1. /\ DecompressInv /\ StagesApart /\ Lengths /\ pc = "decompress" /\ remaining > 0
        /\ call \in Calls /\ (call.byte # None => remaining < Total) /\ S > 0
        /\ call' = call /\ raw' = raw /\ remaining' = remaining - 1
        /\ pc' \in {"decompress", "done"}
        /\ clash' = (clash \/ Meet(dst, elems) \/ Meet(dst, own))
        /\ elems' = dst
        /\ items' = [items EXCEPT !.to = @ - IF remaining > call.pre THEN 1 ELSE 6]
    BY DEF Places, Sizes, State, Revert, Decompressing, Decompressed
  <1>2. /\ S \in Nat /\ call.pre \in 0 .. 10 /\ Total \in 1 .. 12 /\ remaining \in 1 .. Total
        /\ raw \in Nat /\ Trailer \in Nat
        /\ Total = call.pre + One(call.data) + One(call.byte)
        /\ One(call.data) \in {0, 1} /\ One(call.byte) \in {0, 1}
        /\ (One(call.byte) = 0 <=> call.byte = None)
        /\ (One(call.data) = 0 <=> call.data = None)
        /\ Trailer = 6 * call.pre + One(call.data)
    BY <1>1, SizesFacts
  <1>3. call.byte # None => /\ Encoded(raw) /\ raw >= Trailer
                            /\ (call.data # "abstol" => raw - Trailer >= S)
                            /\ (Roomy => raw < 2 * S + 10)
    <2>1. ASSUME call.byte # None
          PROVE  /\ Encoded(raw) /\ raw >= Trailer
                 /\ (call.data # "abstol" => raw - Trailer >= S)
      BY <1>1, <1>2, <2>1, EncodedBound DEF Lengths
    <2>2. ASSUME call.byte # None, Roomy PROVE raw < 2 * S + 10
      <3>1. Encoded(raw)
        BY <2>1, <2>2
      <3>2. raw + 13 + raw \div 1024 < 2 * S + 10
        BY <1>1, <1>2, <2>2, <3>1, RoomyBound
      <3>3. raw \div 1024 \in Nat
        BY <1>2
      <3> HIDE DEF S
      <3> QED BY <1>2, <3>2, <3>3
    <2> QED BY <2>1, <2>2
  <1>4. /\ remaining = Total => elems.block = Stored
        /\ call.byte = None => InStored(items)
        /\ remaining < Total => elems = Region(DDst(remaining + 1), 0,
                                    IF remaining + 1 = Total /\ call.byte # None
                                    THEN raw - Trailer ELSE S)
        /\ remaining < Total /\ call.byte # None =>
               items = Region(DDst(Total), raw - Trailer, left)
    BY <1>1 DEF DecompressInv, Left
  <1>5. /\ DDst(remaining) \in {"out", "buff_tmp1", "buff_tmp2"}
        /\ (DDst(remaining) = "out" <=> remaining = 1)
        /\ DDst(remaining + 1) # DDst(remaining)
        /\ DDst(remaining + 1) \in {"buff_tmp1", "buff_tmp2"}
    BY <1>2, DecompressBuffers
  <1> HIDE DEF S, dst, own
  <1>6. ASSUME Roomy PROVE ~Meet(dst, elems)
    <2>1. CASE remaining = Total
      <3>1. dst.block # elems.block
        BY <1>4, <1>5, <2>1 DEF dst, Region, Block, Stored
      <3> QED BY <3>1, BlocksApart
    <2>2. CASE remaining # Total
      <3> DEFINE m == IF remaining + 1 = Total /\ call.byte # None THEN raw - Trailer ELSE S
      <3>1. elems = Region(DDst(remaining + 1), 0, m)
        BY <1>2, <1>4, <2>2
      <3>2. m \in Nat /\ 0 + m <= 2 * S + 10 /\ 0 + S <= 2 * S + 10
        BY <1>2, <1>3, <1>6
      <3> HIDE DEF m
      <3>3. CASE remaining = 1
        <4>1. dst.block # elems.block
          BY <1>5, <3>1, <3>3 DEF dst, Region, Block
        <4> QED BY <4>1, BlocksApart
      <3>4. CASE remaining # 1
        <4>1. DDst(remaining) \in Scratch /\ DDst(remaining + 1) \in Scratch
          BY <1>5, <3>4 DEF Scratch
        <4> QED BY <1>1, <1>2, <1>5, <3>1, <3>2, <4>1, RegionsApart DEF dst
      <3> QED BY <3>3, <3>4
    <2> QED BY <2>1, <2>2
  <1>7. ASSUME Roomy, ~Reuses PROVE ~Meet(dst, own)
    <2>1. CASE call.byte = None
      <3>1. own.block = Stored \/ own.block # dst.block
        BY <1>4, <2>1 DEF own, InStored
      <3>2. dst.block # Stored
        BY <1>5 DEF dst, Region, Block, Stored
      <3>3. own.block # dst.block
        BY <3>1, <3>2
      <3> QED BY <3>3, BlocksApart
    <2>2. CASE call.byte # None
      <3>1. items = Region(DDst(Total), raw - Trailer, left) /\ remaining < Total
        BY <1>1, <1>4, <2>2
      <3>2. left \in 1 .. Trailer
        BY <1>1, <1>2, <2>2
      <3>3. own = Region(DDst(Total), raw - Trailer, left - 1)
        <4>1. raw - Trailer \in Nat /\ left \in Nat
          BY <1>2, <1>3, <2>2, <3>2
        <4>2. Offset(DDst(Total)) \in Nat
          BY <1>2 DEF Offset
        <4> HIDE DEF left
        <4> QED BY <3>1, <4>1, <4>2 DEF own, Region
      <3>4. DDst(Total) \in {"buff_tmp1", "buff_tmp2"}
        <4>1. Total \in Nat \ {0} /\ Total # 1
          BY <1>2, <3>1
        <4> QED BY <4>1, DecompressBuffers
      <3>5. CASE remaining = 1
        <4>1. dst.block # own.block
          BY <1>5, <3>3, <3>4, <3>5 DEF dst, Region, Block
        <4> QED BY <4>1, BlocksApart
      <3>6. CASE remaining # 1 /\ DDst(remaining) # DDst(Total)
        <4>1. /\ 0 + S <= 2 * S + 10 /\ raw - Trailer \in Nat /\ left - 1 \in Nat
              /\ (raw - Trailer) + (left - 1) <= 2 * S + 10
          BY <1>2, <1>3, <1>7, <2>2, <3>2
        <4> HIDE DEF left
        <4> QED BY <1>1, <1>2, <1>5, <3>3, <3>4, <3>6, <4>1, RegionsApart DEF dst, Scratch
      <3>7. CASE remaining # 1 /\ DDst(remaining) = DDst(Total)
        <4>1. remaining + 1 # Total
          BY <1>5, <3>7
        <4>2. call.pre >= 2
          BY <1>2, <3>1, <3>7, <4>1
        <4>3. call.data # "abstol"
          BY <1>7, <2>2, <4>2 DEF Reuses
        <4>4. 0 + S <= raw - Trailer /\ raw - Trailer \in Nat /\ left - 1 \in Nat
          BY <1>2, <1>3, <2>2, <3>2, <4>3
        <4> HIDE DEF left
        <4> QED BY <1>1, <1>2, <3>3, <3>4, <3>7, <4>4, RegionsApart DEF dst, Scratch
      <3> QED BY <3>5, <3>6, <3>7
    <2> QED BY <2>1, <2>2
  <1>8. StagesApart'
    BY <1>1, <1>6, <1>7, SamePlaces DEF StagesApart, Decompresses
  <1>9. DecompressInv'
    <2>1. remaining' + 1 = remaining /\ remaining' < Total /\ remaining' # Total
      BY <1>1, <1>2
    <2>2. elems' = Region(DDst(remaining' + 1), 0,
                          IF remaining' + 1 = Total /\ call.byte # None
                          THEN raw' - Trailer ELSE S)
      <3>1. ~(remaining' + 1 = Total /\ call.byte # None)
        BY <1>1, <1>2, <2>1
      <3> QED BY <1>1, <2>1, <3>1 DEF dst
    <2>3. ASSUME call.byte = None PROVE InStored(items')
      <3> DEFINE end == items.to - IF remaining > call.pre THEN 1 ELSE 6
      <3>1. "block" \in DOMAIN items /\ items["block"] = Stored
        BY <1>4, <2>3 DEF InStored
      <3>2. items' = [items EXCEPT !["to"] = end]
        BY <1>1
      <3> HIDE DEF end
      <3>3. "block" \in DOMAIN items' /\ items'["block"] = Stored
        BY <3>1, <3>2
      <3> QED BY <3>3 DEF InStored
    <2>4. ASSUME call.byte # None
          PROVE  items' = Region(DDst(Total), raw' - Trailer,
                                 IF remaining' > call.pre THEN Trailer ELSE 6 * remaining')
      <3> DEFINE next == IF remaining' > call.pre THEN Trailer ELSE 6 * remaining'
                 used == IF remaining > call.pre THEN 1 ELSE 6
      <3>1. items = Region(DDst(Total), raw - Trailer, left)
        BY <1>1, <1>4, <2>4
      <3>2. next = left - used /\ left \in Nat /\ used \in Nat
        <4>1. CASE remaining > call.pre
          <5>1. remaining = call.pre + 1 /\ Trailer = 6 * call.pre + 1
            BY <1>1, <1>2, <2>4, <4>1
          <5> QED BY <1>1, <1>2, <4>1, <5>1
        <4>2. CASE ~(remaining > call.pre)
          BY <1>1, <1>2, <4>2
        <4> QED BY <4>1, <4>2
      <3>3. raw - Trailer \in Nat /\ Offset(DDst(Total)) \in Nat
        BY <1>2, <1>3, <2>4 DEF Offset
      <3>4. items' = [items EXCEPT !.to = @ - used]
        BY <1>1
      <3> HIDE DEF left, next, used
      <3>5. items' = Region(DDst(Total), raw - Trailer, next)
        BY <3>1, <3>2, <3>3, <3>4 DEF Region
      <3> QED BY <1>1, <3>5 DEF next
    <2> QED BY <1>1, <2>1, <2>2, <2>3, <2>4, SamePlaces
  <1>10. CompressInv'
    BY <1>1, SamePlaces
  <1> QED BY <1>8, <1>9, <1>10 DEF Places

(* In roomy arrays no stage of either call writes over what is still read, *)
(* but for the items of the chains that use a buffer again.                *)
THEOREM StagesKeptApart == Spec => []StagesApart
  <1>1. Init => Sizes /\ Places
    BY InitSizes, InitPlaces
  <1>2. Places /\ Sizes /\ Sizes' /\ [Next]_vars => Places'
    <2> SUFFICES ASSUME Places, Sizes, Sizes', [Next]_vars PROVE Places'
      OBVIOUS
    <2>1. CASE Next
      BY <2>1, PreconditionPlaces, EncodePlaces, PackPlaces, CallPlaces, UnpackPlaces,
         RevertPlaces DEF Next
    <2>2. CASE UNCHANGED vars
      <3>1. /\ call' = call /\ pc' = pc /\ remaining' = remaining /\ clash' = clash
            /\ raw' = raw /\ elems' = elems /\ items' = items
        BY <2>2 DEF vars
      <3>2. CompressInv'
        BY <3>1, SamePlaces DEF Places, CompressInv, Done
      <3>3. DecompressInv'
        BY <3>1, SamePlaces DEF Places, DecompressInv, Left
      <3>4. StagesApart'
        BY <3>1, SamePlaces DEF Places, StagesApart, Decompresses
      <3> QED BY <3>2, <3>3, <3>4 DEF Places
    <2> QED BY <2>1, <2>2
  <1>3. Places => StagesApart
    BY DEF Places
  <1> QED BY <1>1, <1>2, <1>3, SizesHold, PTL DEF Spec
=============================================================================
