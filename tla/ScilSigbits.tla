----------------------------- MODULE ScilSigbits ----------------------------
(***************************************************************************)
(* The compressor sigbits (src/src/algo/algo-sigbits.dtype.c), which keeps *)
(* the sign, the exponent and the first bits of the mantissa of every      *)
(* number.  A number is the record of its three fields, as in the union    *)
(* datatype_cast of src/src/util/scil-util.h; packing is a code modulo     *)
(* 2^bits, as ScilSwage shows.                                             *)
(***************************************************************************)
EXTENDS Integers, ScilPowers

CONSTANTS
    Formats,    \* of float and double: records of the lengths of mantissa (23
                \* or 52 bits) and exponent (8 or 11)
    MaskTop,    \* 52, the last index of mask
    Elements    \* how many an array has

IGNORE == 0     \* SCIL_ACCURACY_INT_IGNORE
FINEST == -1    \* SCIL_ACCURACY_INT_FINEST

SigbitsAssumption ==
    /\ Formats \subseteq [mantissa : Nat \ {0}, exponent : Nat \ {0}]
    /\ MaskTop \in Nat /\ Elements \in Nat \ {0}

VARIABLES format,   \* of the datatype of the context
          phase,    \* "idle", "stored", "restored" or "failed"
          trip,     \* how often the array was compressed
          bits,     \* hints.significant_bits, as the context leaves them
          src, out,
          header,   \* what write_header writes
          codes     \* the packed numbers

vars == <<format, phase, trip, bits, src, out, header, codes>>

MantissaLength == format.mantissa
ExponentLength == format.exponent

Index   == 0 .. Elements - 1
Numbers == [sign     : 0 .. 1,
            exponent : 0 .. Two[ExponentLength] - 1,
            mantissa : 0 .. Two[MantissaLength] - 1]

Zero    == [sign |-> 0, exponent |-> 0, mantissa |-> 0]
Nothing == [n \in Index |-> Zero]
NoCodes == [n \in Index |-> 0]
Blank   == [signs |-> 0, exponentBits |-> 0, mantissaBits |-> 0, minimum |-> 0]

-----------------------------------------------------------------------------
SignsId(a) ==
    IF \A n \in Index : a[n].sign = a[0].sign THEN a[0].sign ELSE 2

MinExponent(a) == CHOOSE e \in {a[n].exponent : n \in Index} :
                    \A n \in Index : e <= a[n].exponent
MaxExponent(a) == CHOOSE e \in {a[n].exponent : n \in Index} :
                    \A n \in Index : e >= a[n].exponent

(* Mutant: the 1 is missing. *)
ExponentBitsShort(min, max) ==
    CHOOSE b \in 0 .. ExponentLength :
        /\ Two[b] >= max - min
        /\ \A c \in 0 .. b - 1 : Two[c] < max - min

(* ceil(log2(max - min + 1)) *)
ExponentBits(min, max) ==
    CHOOSE b \in 0 .. ExponentLength :
        /\ Two[b] >= max - min + 1
        /\ \A c \in 0 .. b - 1 : Two[c] < max - min + 1

HeaderOf(a) ==
    [signs        |-> SignsId(a),
     exponentBits |-> ExponentBits(MinExponent(a), MaxExponent(a)),
     mantissaBits |-> bits - 1,
     minimum      |-> MinExponent(a)]

BitsPerValue(h) == (IF h.signs = 2 THEN 1 ELSE 0) + h.exponentBits + h.mantissaBits

(* compress_value: sign, exponent and mantissa side by side *)
CompressValue(v, h) ==
    ((IF h.signs = 2 THEN v.sign * Two[h.exponentBits] ELSE 0)
        + v.exponent - h.minimum) * Two[h.mantissaBits]
      + v.mantissa \div Two[MantissaLength - h.mantissaBits]

GetSign(code, h) == IF h.signs # 2 THEN h.signs ELSE code \div Two[BitsPerValue(h) - 1]

(* The table mask ends at MaskTop; what lies behind it masks nothing or    *)
(* everything away (beyond).                                               *)
MaskCovers(h) == h.mantissaBits + h.exponentBits <= MaskTop

GetExponent(code, h, beyond) ==
    LET upper == code \div Two[h.mantissaBits]
    IN  (h.minimum + (CASE MaskCovers(h)  -> upper % Two[h.exponentBits]
                        [] ~MaskCovers(h) -> IF beyond = 0 THEN 0 ELSE upper))
          % Two[ExponentLength]

GetMantissa(code, h) ==
    (code % Two[h.mantissaBits]) * Two[MantissaLength - h.mantissaBits]

DecompressValue(code, h, beyond) ==
    [sign     |-> GetSign(code, h),
     exponent |-> GetExponent(code, h, beyond),
     mantissa |-> GetMantissa(code, h)]

-----------------------------------------------------------------------------
CompressBuffer(a, h) == [n \in Index |-> CompressValue(a[n], h) % Two[BitsPerValue(h)]]

(* scil_sigbits_compress.  IGNORE, not FINEST, makes a mantissa of -1 bits; *)
(* the -2 of FINEST is 254 as a number of bits, and no shift by it is      *)
(* defined: the codes mean nothing.                                        *)
Compress ==
    /\ phase = "idle"
    /\ trip' = trip + 1
    /\ IF trip = 0 THEN src' \in [Index -> Numbers] ELSE UNCHANGED src
    /\ \/ /\ bits - 1 = FINEST
          /\ phase' = "failed"
          /\ UNCHANGED <<header, codes>>
       \/ /\ bits - 1 # FINEST
          /\ phase' = "stored"
          /\ header' = HeaderOf(src')
          /\ codes' = IF bits = FINEST THEN NoCodes ELSE CompressBuffer(src', header')
    /\ UNCHANGED <<format, bits, out>>

(* scil_sigbits_decompress *)
Decompress ==
    /\ phase = "stored"
    /\ phase' = "restored"
    /\ \/ /\ bits = FINEST
          /\ \E v \in {Zero, [Zero EXCEPT !.exponent = 1]} : out' = [n \in Index |-> v]
       \/ /\ bits # FINEST
          /\ \E beyond \in IF MaskCovers(header) THEN {0} ELSE {0, 1} :
                out' = [n \in Index |-> DecompressValue(codes[n], header, beyond)]
    /\ UNCHANGED <<format, trip, bits, src, header, codes>>

(* The caller compresses what it got once more. *)
Again ==
    /\ phase = "restored"
    /\ trip = 1
    /\ phase' = "idle"
    /\ src' = out
    /\ out' = Nothing
    /\ header' = Blank
    /\ codes' = NoCodes
    /\ UNCHANGED <<format, trip, bits>>

(* The arrays are done with. *)
Release ==
    /\ phase = "failed" \/ (phase = "restored" /\ trip = 2)
    /\ phase' = "idle"
    /\ trip' = 0
    /\ src' = Nothing
    /\ out' = Nothing
    /\ header' = Blank
    /\ codes' = NoCodes
    /\ UNCHANGED <<format, bits>>

Init ==
    /\ format \in Formats
    /\ phase = "idle"
    /\ trip = 0
    /\ bits \in {FINEST, IGNORE} \cup 1 .. MantissaLength
    /\ src = Nothing
    /\ out = Nothing
    /\ header = Blank
    /\ codes = NoCodes

Next == Compress \/ Decompress \/ Again \/ Release

Spec == Init /\ [][Next]_vars

-----------------------------------------------------------------------------
(* Properties *)

(* The order of numbers of one sign is that of these. *)
Magnitude(v) == v.exponent * Two[MantissaLength] + v.mantissa

(* The first kept digits of w are those of v. *)
Keeps(v, w, kept) ==
    /\ w.sign = v.sign
    /\ Magnitude(v) - Magnitude(w) \in 0 .. Two[MantissaLength - kept] - 1

(* As many bits are kept as the hint asks for (scil-user-hints.h:75), but  *)
(* for FINEST and for arrays whose codes the table of masks does not       *)
(* cover: finding signs and exponents of the whole array, taking the       *)
(* fields together, packing them and taking them apart loses nothing but   *)
(* the end of the mantissa.                                                *)
CoveredBitsKept ==
    phase = "restored" /\ bits # FINEST /\ MaskCovers(header) =>
        \A n \in Index : Keeps(src[n], out[n], bits - 1)

(* Data that went through sigbits once goes through unchanged: the bits    *)
(* that are lost are lost at the first trip.                               *)
SecondTripExact ==
    phase = "restored" /\ trip = 2 /\ bits # FINEST /\ MaskCovers(header) => out = src

(* What sigbits keeps, it keeps at every trip through it. *)
BitsSurvive == CoveredBitsKept /\ SecondTripExact
=============================================================================
