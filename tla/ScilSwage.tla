------------------------------ MODULE ScilSwage ------------------------------
(***************************************************************************)
(* The bit packer of src/src/scil-swager.c: scil_swage writes the lowest   *)
(* bits_per_value bits of every word one behind the other into a buffer of *)
(* bytes, scil_unswage reads them back.                                    *)
(*                                                                         *)
(* The buffer is a function from bit addresses to bits: bit p of byte j,   *)
(* counted from the most significant one, has the address 8*j + p, and a   *)
(* word is a function from the weight of a bit to the bit.  All shifts of  *)
(* the code move the bit of weight k of the current word to or from the    *)
(* address bit_index + bits_per_value - 1 - k; what they differ in is the  *)
(* bytes they reach.  One step is one pass of the loop over the values.    *)
(***************************************************************************)
EXTENDS Integers

CONSTANTS
    Word,       \* bits of a value: those of uint64_t
    Count,      \* values to pack
    Size,       \* bytes of buf_out
    Widths,     \* the values of bits_per_value
    Sources,    \* the words to pack
    Memories    \* what buf_out holds before

Weight  == 0 .. Word - 1
Index   == 0 .. Count - 1
Address == 0 .. 8 * Size - 1
Bit     == {0, 1}

ASSUME SizesAssumption ==
    /\ Word \in Nat /\ Count \in Nat /\ Size \in Nat
    /\ Widths \subseteq 0 .. Word
    /\ Sources \subseteq [Weight -> Bit]
    /\ Memories \subseteq [Address -> Bit]
    /\ \A w \in Widths : Count * w + 8 <= 8 * Size

VARIABLES
    pc,                 \* "swage", "unswage" or "done"
    bits_per_value, src, mem,   \* the arguments; mem is buf_out as it was
    i, bit_index,       \* of the loop that runs
    buf,                \* the packed buffer
    out                 \* the unpacked values

args == <<bits_per_value, src, mem>>
vars == <<pc, args, i, bit_index, buf, out>>

StartByte == bit_index \div 8
EndByte   == (bit_index + bits_per_value) \div 8

Digit(word, k) == IF k \in Weight THEN word[k] ELSE 0

(* Mutant: the first byte is written, its leading bits are not kept. *)
StoreByte(word) ==
    [a \in Address |->
        LET d == Digit(word, bits_per_value - 1 - (a - bit_index))
        IN  IF a \in 8 * StartByte .. 8 * EndByte + 7 THEN d ELSE buf[a]]

(* Mutant: the bits behind the offset are not cleared. *)
StoreOr(word) ==
    [a \in Address |->
        LET d == Digit(word, bits_per_value - 1 - (a - bit_index))
        IN  CASE a \in 8 * StartByte .. 8 * StartByte + 7 -> IF d = 1 THEN 1 ELSE buf[a]
              [] a \in 8 * StartByte + 8 .. 8 * EndByte + 7 -> d
              [] OTHER -> buf[a]]

(* The first byte keeps the bits before the offset, into which the bits of *)
(* a word too wide are or-ed; all other bytes up to the last are written.  *)
Store(word) ==
    [a \in Address |->
        LET d == Digit(word, bits_per_value - 1 - (a - bit_index))
        IN  CASE a \in 8 * StartByte .. bit_index - 1 -> IF d = 1 THEN 1 ELSE buf[a]
              [] a \in bit_index .. 8 * EndByte + 7 -> d
              [] OTHER -> buf[a]]

Load ==
    [k \in Weight |->
        LET a == bit_index + bits_per_value - 1 - k
        IN  IF a \in bit_index .. 8 * EndByte + 7 THEN buf[a] ELSE 0]

Advance ==
    /\ i < Count
    /\ i' = i + 1
    /\ bit_index' = bit_index + bits_per_value
    /\ UNCHANGED <<pc, args>>

Swage ==
    /\ pc = "swage"
    /\ Advance
    /\ buf' = Store(src[i])
    /\ UNCHANGED out

Unswage ==
    /\ pc = "unswage"
    /\ Advance
    /\ out' = [out EXCEPT ![i] = Load]
    /\ UNCHANGED buf

Return(from, to) ==
    /\ pc = from
    /\ i = Count
    /\ pc' = to
    /\ i' = 0
    /\ bit_index' = 0
    /\ UNCHANGED <<args, buf, out>>

Init ==
    /\ pc = "swage"
    /\ bits_per_value \in Widths
    /\ src \in [Index -> Sources]
    /\ mem \in Memories
    /\ i = 0
    /\ bit_index = 0
    /\ buf = mem
    /\ out = [n \in Index |-> [k \in Weight |-> 0]]

Next == Swage \/ Return("swage", "unswage") \/ Unswage \/ Return("unswage", "done")

Spec == Init /\ [][Next]_vars

-----------------------------------------------------------------------------
(* Properties *)

(* What the callers owe: no value needs more than bits_per_value bits.     *)
Fits == \A n \in Index, k \in Weight : k >= bits_per_value => src[n][k] = 0

(* Values that fit are read back as they were, from a buffer that held     *)
(* anything, for every number of bits: scil_unswage undoes scil_swage.     *)
RoundTrip == pc = "done" /\ Fits => out = src

(* Behind the packed bits at most the rest of the byte they end in is      *)
(* written, or one byte when they end at its boundary: the callers need a  *)
(* byte of room behind the size they compute with round_up_byte.           *)
OneByteBehind ==
    \A a \in Address : a >= 8 * ((Count * bits_per_value) \div 8) + 8 => buf[a] = mem[a]

TypeOK ==
    /\ pc \in {"swage", "unswage", "done"}
    /\ bits_per_value \in Widths
    /\ src \in [Index -> Sources]
    /\ mem \in Memories
    /\ i \in 0 .. Count
    /\ bit_index = i * bits_per_value
    /\ buf \in [Address -> Bit]
    /\ out \in [Index -> [Weight -> Bit]]

(* The values packed so far stand in the buffer, whatever is packed behind *)
(* them: no later value reaches back over the bits of an earlier one.      *)
Stored(n) ==
    \A k \in Weight : k < bits_per_value =>
        buf[n * bits_per_value + bits_per_value - 1 - k] = src[n][k]

PackedStays == Fits => \A n \in Index : (pc = "swage" /\ n >= i) \/ Stored(n)

IInv ==
    /\ TypeOK
    /\ PackedStays
    /\ OneByteBehind
    /\ Fits => \A n \in Index : (pc = "done" \/ (pc = "unswage" /\ n < i)) => out[n] = src[n]
=============================================================================
