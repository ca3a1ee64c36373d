----------------------------- MODULE ScilArena -----------------------------
(***************************************************************************)
(* The memory of scil_compress and scil_decompress (src/src/scil.c): where *)
(* the buffers of ScilPipeline lie and how many bytes each stage reads and *)
(* writes.  Compression has one block, the caller's dest, with buff_tmp    *)
(* 2*datatypes_size+10 bytes into it; decompression has one scratch block  *)
(* with buff_tmp2 at the same distance.  Nothing checks a size but the     *)
(* first test of scil_compress and the byte decompressor of gzip.          *)
(*                                                                         *)
(* The stages are those the repository implements itself or whose sizes    *)
(* their library bounds: dummy-precond, quantize, abstol, memcopy, gzip    *)
(* and lz4.  A chain has "pre" preconditioners, then perhaps quantize or   *)
(* abstol, then perhaps a byte compressor.                                 *)
(***************************************************************************)
EXTENDS Integers

CONSTANTS
    Calls,      \* the data and chains scil_compress is called with
    SizeMax     \* the largest size_t

None  == "none"
Limit == 10             \* PRECONDITIONER_LIMIT
Item  == 6              \* header and id of dummy-precond
Slack == 1024           \* SCIL_BLOCK_HEADER_MAX_SIZE

Call == [size : Nat, width : {1, 2, 4, 8}, pre : 0 .. Limit,
         data : {None, "quantize", "abstol"},
         byte : {None, "memcopy", "gzip", "lz4"}]

ASSUME CallsAssumption ==
    /\ Calls \subseteq Call /\ SizeMax \in Nat
    /\ \A c \in Calls :
          /\ c.pre > 0 \/ c.data # None \/ c.byte # None
          /\ c.data = "quantize" => c.width \in {4, 8}
          /\ c.size = 0 \/ c.size >= c.width

VARIABLES
    pc,         \* "compress", "stored", "decompress", "done", "failed", "crashed"
    call,
    remaining,  \* remaining_compressors
    length,     \* input_size: elements and trailer items of the data
    raw,        \* what it was before byte compression
    elems, items,   \* where the elements and the trailer items are
    top,        \* bytes used of the block that is written
    clash       \* a stage wrote over what it or a later one reads

vars == <<pc, call, remaining, length, raw, elems, items, top, clash>>

-----------------------------------------------------------------------------
(* Addresses *)

S     == call.size                              \* datatypes_size, output_size
One(x) == IF x = None THEN 0 ELSE 1
Total == call.pre + One(call.data) + One(call.byte)

PickBuffer(is_src, remain, src, dest, buff1, buff2) ==
    CASE remain = Total /\ is_src = 1 -> src
      [] remain = 1 /\ is_src = 0     -> dest
      [] remain % 2 = is_src /\ ~(remain = Total /\ is_src = 1)
                             /\ ~(remain = 1 /\ is_src = 0) -> buff1
      [] OTHER                        -> buff2

CSrc(r) == PickBuffer(1, r, "source", "dest", "buff_tmp", "dest")
CDst(r) == PickBuffer(0, r, "source", "dest", "buff_tmp", "dest")
DSrc(r) == PickBuffer(1, r, "stored", "out", "buff_tmp1", "buff_tmp2")
DDst(r) == PickBuffer(0, r, "stored", "out", "buff_tmp1", "buff_tmp2")

Block(b) == CASE b \in {"dest", "buff_tmp"}       -> "dest"
              [] b \in {"buff_tmp1", "buff_tmp2"} -> "tmp"
              [] OTHER                            -> b

(* Mutants: the distance is that of one array; dest is taken to be longer. *)
OffsetShort(b) == CASE b = "dest"      -> 1
                    [] b = "buff_tmp"  -> 1 + S
                    [] b = "buff_tmp2" -> S
                    [] OTHER           -> 0

OffsetFar(b) == CASE b = "dest"      -> 1
                  [] b = "buff_tmp"  -> 1 + 4 * S + Slack
                  [] b = "buff_tmp2" -> 2 * S + 10
                  [] OTHER           -> 0

Offset(b) == CASE b = "dest"      -> 1
               [] b = "buff_tmp"  -> 1 + 2 * S + 10
               [] b = "buff_tmp2" -> 2 * S + 10
               [] OTHER           -> 0

(* len bytes at distance d into buffer b *)
Region(b, d, len) == [block |-> Block(b), from |-> Offset(b) + d, to |-> Offset(b) + d + len]

Meet(r, s) ==
    /\ r.block = s.block
    /\ r.from < r.to /\ s.from < s.to
    /\ r.from < s.to /\ s.from < r.to

Higher(block, r) == IF r.block = block /\ r.to > top THEN r.to ELSE top
Larger(m, n)     == IF m > n THEN m ELSE n
Smaller(m, n)    == IF m < n THEN m ELSE n

-----------------------------------------------------------------------------
(* scil_compress *)

Init ==
    /\ pc = "compress"
    /\ call \in Calls
    /\ remaining = Total
    /\ length = S /\ raw = S
    /\ elems = Region("source", 0, S) /\ items = Region("source", S, 0)
    /\ top = 1 /\ clash = FALSE

(* An empty array is stored as one byte. *)
StoreEmpty ==
    /\ pc = "compress" /\ S = 0
    /\ pc' = "stored"
    /\ UNCHANGED <<call, remaining, length, raw, elems, items, top, clash>>

Compressing == pc = "compress" /\ S > 0 /\ remaining > 0
Compressed  ==
    /\ remaining' = remaining - 1
    /\ pc' = IF remaining = 1 THEN "stored" ELSE "compress"
    /\ UNCHANGED call

(* A preconditioner copies the elements, then writes its item behind those *)
(* of the ones before, in the buffer the last preconditioner ends in.      *)
Precondition ==
    /\ Compressing /\ Total - remaining < call.pre
    /\ LET dst    == Region(CDst(remaining), 0, S)
           header == CDst(1 + Total - call.pre)
           done   == Item * (Total - remaining)
           item   == Region(header, S + done, Item)
       IN  /\ clash' = (clash \/ Meet(dst, elems) \/ Meet(dst, items) \/ Meet(item, dst))
           /\ elems' = dst
           /\ items' = Region(header, S, done + Item)
           /\ top'   = Larger(Higher("dest", dst), Higher("dest", item))
           /\ length' = S + done + Item
    /\ UNCHANGED raw
    /\ Compressed

(* quantize stores 16 bytes and an int64_t per element, abstol 17 bytes    *)
(* and between no bit and all bits of an element but one, in whole bytes;  *)
(* packing writes a byte more.                                             *)
EncodedLengths ==
    CASE call.data = "quantize" -> {16 + (IF call.width = 4 THEN 2 * S ELSE S)}
      [] call.data = "abstol"   -> {17, 17 + S}

(* The converter or the data compressor encodes the elements; the items    *)
(* are copied behind the result, its own behind them.                      *)
Encode ==
    /\ Compressing /\ Total - remaining = call.pre /\ call.data # None
    /\ \E out \in EncodedLengths :
          LET kept == length - S
              dst  == Region(CDst(remaining), 0, IF call.data = "abstol" THEN out + 1 ELSE out)
              copy == Region(CDst(remaining), out, kept)
              from == Region(CSrc(remaining), S, kept)
          IN  /\ clash' = (clash \/ Meet(dst, elems) \/ Meet(dst, from) \/ Meet(copy, from))
              /\ elems' = Region(CDst(remaining), 0, out)
              /\ items' = Region(CDst(remaining), out, kept + 1)
              /\ top'   = Larger(Higher("dest", dst), Higher("dest", items'))
              /\ length' = out + kept + 1
    /\ UNCHANGED raw
    /\ Compressed

(* What zlib and lz4 make of data they cannot compress is longer; gzip     *)
(* allows twice the length, which is enough.                               *)
PackedLengths ==
    CASE call.byte = "memcopy" -> {length}
      [] call.byte = "gzip"    -> {1, Smaller(2 * length, length + length \div 1024 + 13)}
      [] call.byte = "lz4"     -> {5, 4 + length + length \div 255 + 16}

Pack ==
    /\ Compressing /\ remaining = 1 /\ call.byte # None
    /\ \E out \in PackedLengths :
          LET src == Region(CSrc(remaining), 0, length)
              dst == Region("dest", 0, out + 1)
          IN  /\ clash' = (clash \/ Meet(dst, src))
              /\ top'   = Higher("dest", dst)
    /\ raw' = length
    /\ UNCHANGED <<length, elems, items>>
    /\ Compressed

-----------------------------------------------------------------------------
(* scil_decompress *)

Stored == "stored"

(* The size of what is stored of an empty array, behind a chain of no      *)
(* stages, counts an id that is not there: it wraps around, the id read    *)
(* before it is that of memcopy, which is asked to copy as many bytes.     *)
StartEmpty ==
    /\ pc = "stored" /\ S = 0
    /\ pc' = "crashed"
    /\ remaining' = 0
    /\ top' = Region(DDst(0), 0, (-1) % (SizeMax + 1)).to
    /\ clash' = TRUE
    /\ UNCHANGED <<call, length, raw, elems, items>>

Start ==
    /\ pc = "stored" /\ S > 0
    /\ pc' = "decompress"
    /\ remaining' = Total /\ top' = 0 /\ clash' = FALSE
    /\ elems' = Region(Stored, 0, S) /\ items' = Region(Stored, S, length - S)
    /\ UNCHANGED <<call, length, raw>>

Decompressing == pc = "decompress" /\ remaining > 0
Decompressed  ==
    /\ remaining' = remaining - 1
    /\ pc' = IF remaining = 1 THEN "done" ELSE "decompress"
    /\ UNCHANGED <<call, length, raw>>

(* What of the data are items: those of the preconditioners and the id. *)
Trailer == Item * call.pre + One(call.data)

(* Only gzip respects the room it is told. *)
Unpack ==
    /\ Decompressing /\ remaining = Total /\ call.byte # None
    /\ call.byte = "gzip" => raw <= 2 * S + 10
    /\ LET dst == Region(DDst(remaining), 0, raw)
       IN  /\ elems' = Region(DDst(remaining), 0, raw - Trailer)
           /\ items' = Region(DDst(remaining), raw - Trailer, Trailer)
           /\ top'   = Higher("tmp", dst)
    /\ UNCHANGED clash
    /\ Decompressed

(* Mutant: the room is that of the array. *)
UnpackFailsEarly ==
    /\ Decompressing /\ remaining = Total
    /\ call.byte = "gzip" /\ raw > S
    /\ pc' = "failed"
    /\ UNCHANGED <<call, remaining, length, raw, elems, items, top, clash>>

UnpackFails ==
    /\ Decompressing /\ remaining = Total
    /\ call.byte = "gzip" /\ raw > 2 * S + 10
    /\ pc' = "failed"
    /\ UNCHANGED <<call, remaining, length, raw, elems, items, top, clash>>

(* Every other stage writes the elements; the items of the ones that have  *)
(* still to run, and its own header, must survive that.  Its id is read.   *)
Revert ==
    /\ Decompressing /\ (call.byte # None => remaining < Total)
    /\ LET dst  == Region(DDst(remaining), 0, S)
           own  == [items EXCEPT !.to = @ - 1]
       IN  /\ clash' = (clash \/ Meet(dst, elems) \/ Meet(dst, own))
           /\ elems' = dst
           /\ items' = [items EXCEPT !.to =
                           @ - IF remaining > call.pre THEN 1 ELSE Item]
           /\ top'   = Higher("tmp", dst)
    /\ Decompressed

Next ==
    \/ StoreEmpty \/ Precondition \/ Encode \/ Pack
    \/ StartEmpty \/ Start \/ Unpack \/ UnpackFails \/ Revert

Spec == Init /\ [][Next]_vars

-----------------------------------------------------------------------------
(* Properties *)

Decompresses == pc \in {"decompress", "done"}

(* Arrays of a size for which all bounds suffice, unless quantize makes of *)
(* a float twice its size.                                                 *)
Sizeable == S >= Item * call.pre + 29
Roomy    == Sizeable /\ (call.data = "quantize" => call.width = 8)

(* The chains whose trailer items decompression overwrites in the buffer   *)
(* it reads them from (RejectsOnlyReusedHeader of ScilPipeline).           *)
Reuses == call.pre >= 2 /\ call.data = "abstol" /\ call.byte # None

(* The variables have the values of their types. *)
TypeOK ==
    /\ pc \in {"compress", "stored", "decompress", "done", "failed", "crashed"}
    /\ call \in Call
    /\ remaining \in 0 .. Total
    /\ {length, raw, top} \subseteq Nat
    /\ clash \in BOOLEAN

(* Where arrays are roomy no stage writes over what it, or a later one,    *)
(* still reads, but for the items lost in the buffer that is used again.   *)
StagesApart == clash => ~Roomy \/ (Decompresses /\ Reuses)

(* Both calls stay within scilPr_get_compressed_data_size_limit bytes, but *)
(* for the decompression of an empty array.                                *)
LimitSuffices == top > 4 * S + Slack => S = 0 /\ pc = "crashed"

(* In roomy arrays the room scil_decompress tells gzip is enough. *)
RoomSuffices == pc = "failed" => ~Roomy

(* Violated: half of the size limit is enough for tmp_buff. *)
HalfSuffices == Decompresses => top <= (4 * S + Slack) \div 2

=============================================================================
