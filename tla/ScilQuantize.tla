---------------------------- MODULE ScilQuantize ----------------------------
(***************************************************************************)
(* Quantization to an absolute tolerance: the arithmetic of                *)
(* src/src/scil-quantizer.dtype.c, the compressors abstol and allquant     *)
(* that pack its codes, the converter quantize, which puts their width     *)
(* into the dictionary of the context, and swage, which looks for it there. *)
(*                                                                         *)
(* A value of an integer type is an integer, one of a floating-point type  *)
(* a multiple of 1/Denom; a tolerance is a multiple of 1/Denom.            *)
(* Arithmetic on doubles is exact here.  What swage packs is its codes     *)
(* modulo 2^bits: ScilSwage shows when that is so.                         *)
(***************************************************************************)
EXTENDS Integers, ScilPowers

CONSTANTS
    Types,          \* records of kind ("int": int8_t and int16_t, computed as
                    \* int; "wide": int32_t and int64_t; "float": float and
                    \* double), bits (8 * sizeof), and values
    Tolerances,     \* hints.absolute_tolerance, times Denom
    Denom,
    Elements,       \* how many an array has
    MaxCodeBits     \* 53, what the quantizer accepts

QuantizeAssumption ==
    /\ \A t \in Types :
          /\ t.kind \in {"int", "wide", "float"} /\ t.bits \in Nat \ {0}
          /\ t.values \subseteq
                (IF t.kind = "float" THEN Int ELSE -Two[t.bits - 1] .. Two[t.bits - 1] - 1)
    /\ Tolerances \subseteq Nat \ {0}
    /\ Denom \in Nat \ {0} /\ Elements \in Nat \ {0} /\ MaxCodeBits \in Nat

VARIABLES
    type,       \* the datatype of the context
    phase,      \* "idle", "stored", "restored" or "failed"
    tol,        \* hints.absolute_tolerance
    param,      \* "bits_per_value" of ctx->pipeline_params
    algo,       \* who made what is stored
    src,        \* the data of the call of scil_compress
    stored,     \* minimum, tolerance and bits of the header, and the codes
    size,       \* *out_size
    ret, out

vars == <<type, phase, tol, param, algo, src, stored, size, ret, out>>

Kind  == type.kind
Index == 0 .. Elements - 1
Data  == [Index -> type.values]
Half  == Two[type.bits - 1]

(* No arrays: their contents do not matter. *)
Nothing == [n \in Index |-> 0]
Blank   == [min |-> 0, tol |-> 0, bits |-> 0, codes |-> Nothing]

Missing == -1       \* a key that is not in the dictionary
NaN     == 2 ^ 20       \* for 2^63: a NaN or an infinity as uint64_t (x86-64)
Huge    == 2 ^ 20 - 1   \* for 2^64 - 1 and below: a negative number as uint64_t
Unset   == -1       \* *out_size as it was

-----------------------------------------------------------------------------
(* scil-quantizer.dtype.c *)

Wrap(x) == IF Kind = "float" THEN x ELSE ((x + Half) % (2 * Half)) - Half

(* value - minimum, in units of 1/Denom *)
Difference(v, min) ==
    CASE Kind = "float" -> v - min
      [] Kind = "int"   -> Denom * (v - min)
      [] Kind = "wide"  -> Denom * Wrap(v - min)

(* round(): to the nearest code *)
Code(v, min, t) == (2 * Difference(v, min) + t) \div (2 * t)

(* The cast to an integer type cuts the fraction off; what does not fit is *)
(* the smallest value (int32_t, int64_t) or loses its upper bits (x86-64). *)
Cast(x) == IF Kind = "wide" /\ x >= Half THEN -Half ELSE x

Value(q, min, t) ==
    IF Kind = "float" THEN min + q * t ELSE Wrap(min + Cast((q * t) \div Denom))

Minimum(data) == CHOOSE v \in {data[n] : n \in Index} : \A n \in Index : v <= data[n]
Maximum(data) == CHOOSE v \in {data[n] : n \in Index} : \A n \in Index : v >= data[n]

(* ceil(log2(1 + d/t)), as uint64_t *)
Enough(b, d, t) == t * Two[b] >= t + d

(* Mutant: without the 1. *)
BitsOfQuotient(min, max, t) ==
    LET d == Difference(max, min)
    IN  CASE t + d <= 0 -> NaN
          [] t + d > 0 /\ 2 * (t + d) <= t -> Huge
          [] OTHER -> CHOOSE b \in 0 .. t + d :
                        t * Two[b] >= d /\ \A c \in 0 .. b - 1 : t * Two[c] < d

Bits(min, max, t) ==
    LET d == Difference(max, min)
    IN  CASE t + d <= 0 -> NaN
          [] t + d > 0 /\ 2 * (t + d) <= t -> Huge
          [] OTHER -> CHOOSE b \in 0 .. t + d :
                        Enough(b, d, t) /\ \A c \in 0 .. b - 1 : ~Enough(c, d, t)

-----------------------------------------------------------------------------
Fail(a, error) ==
    /\ algo' = a
    /\ ret' = error
    /\ phase' = "failed"
    /\ UNCHANGED <<type, tol, stored, out>>

(* scil_quantize_buffer_minmax and scil_unquantize_buffer *)
Codes(data, min) == [n \in Index |-> Code(data[n], min, tol)]

Restored == [n \in Index |-> Value(stored.codes[n], stored.min, stored.tol)]

(* What swage keeps of each *)
Packed(numbers, bits) == [n \in Index |-> numbers[n] % Two[bits]]

RoundUpByte(bits) == (bits + 7) \div 8

Header(min, bits) == [min |-> min, tol |-> tol, bits |-> bits, codes |-> Nothing]

(* scil_abstol_compress and scil_allquant_compress: the same steps *)
Compress(a) ==
    /\ phase = "idle"
    /\ src' \in Data
    /\ LET min  == Minimum(src')
           bits == Bits(min, Maximum(src'), tol)
       IN  \/ /\ bits >= type.bits
              /\ Fail(a, "PRECISION_ERR")
              /\ size' = Unset
           \/ /\ bits < type.bits
              /\ size' = RoundUpByte(bits * Elements) + 17
              /\ \/ bits > MaxCodeBits /\ Fail(a, "BUFFER_ERR")
                 \/ /\ bits <= MaxCodeBits
                    /\ stored' = [Header(min, bits) EXCEPT
                                    !.codes = Packed(Codes(src', min), bits)]
                    /\ algo' = a
                    /\ ret' = "NO_ERR"
                    /\ phase' = "stored"
                    /\ UNCHANGED <<type, tol, out>>
    /\ UNCHANGED param

CompressAbstol   == Compress("abstol")
CompressAllquant == Kind # "float" /\ Compress("allquant")

(* scil_abstol_decompress and scil_allquant_decompress: all they know is in *)
(* the header                                                              *)
Decompress(a) ==
    /\ phase = "stored"
    /\ algo = a
    /\ out' = Restored
    /\ ret' = "NO_ERR"
    /\ phase' = "restored"
    /\ UNCHANGED <<type, tol, param, algo, src, stored, size>>

DecompressAbstol   == Decompress("abstol")
DecompressAllquant == Decompress("allquant")

(* snprintf(value, 2, ...): the first digit of the number *)
FirstDigit(x) == CHOOSE c \in 0 .. 9 : \E k \in 0 .. 2 : x \div 10 ^ k = c /\ (c # 0 \/ x = 0)

Put(bits) == param' = FirstDigit(bits)

(* scil_quantize_compress: for float and double *)
Quantize ==
    /\ phase = "idle"
    /\ Kind = "float"
    /\ src' \in Data
    /\ LET min  == Minimum(src')
           bits == Bits(min, Maximum(src'), tol) % 256
       IN  \/ /\ bits > 64
              /\ Fail("quantize", "1")
              /\ size' = Unset
              /\ UNCHANGED param
           \/ /\ bits <= 64
              /\ size' = 16 + 8 * Elements
              /\ Put(bits)
              /\ \/ /\ Bits(min, Maximum(src'), tol) > MaxCodeBits
                    /\ Fail("quantize", "EINVAL")
                 \/ /\ Bits(min, Maximum(src'), tol) <= MaxCodeBits
                    /\ stored' = [Header(min, bits) EXCEPT !.codes = Codes(src', min)]
                    /\ algo' = "quantize"
                    /\ ret' = "NO_ERR"
                    /\ phase' = "stored"
                    /\ UNCHANGED <<type, tol, out>>

(* scil_quantize_decompress *)
Unquantize == Decompress("quantize")

(* scil_swage_compress, for integers: the width comes from the dictionary, *)
(* in which quantize, for floating-point data only, never put one; then    *)
(* bits_per_value is read unset.  *out_size is not set either.             *)
Swage ==
    /\ phase = "idle"
    /\ Kind # "float"
    /\ src' \in Data
    /\ \E bits \in IF param = Missing THEN {0, 1, type.bits} ELSE {param} :
          stored' = [Blank EXCEPT !.bits = bits, !.codes = Packed(src', bits)]
    /\ algo' = "swage"
    /\ ret' = "NO_ERR"
    /\ phase' = "stored"
    /\ size' = Unset
    /\ UNCHANGED <<type, tol, param, out>>

(* scil_swage_decompress: bits_per_value is 0, every value too. *)
Unswage ==
    /\ phase = "stored"
    /\ algo = "swage"
    /\ out' = Nothing
    /\ ret' = "NO_ERR"
    /\ phase' = "restored"
    /\ UNCHANGED <<type, tol, param, algo, src, stored, size>>

(* The caller is done with its arrays and keeps the context. *)
Release ==
    /\ phase \in {"restored", "failed"}
    /\ phase' = "idle"
    /\ algo' = "none"
    /\ src' = Nothing
    /\ stored' = Blank
    /\ size' = Unset
    /\ ret' = "NO_ERR"
    /\ out' = Nothing
    /\ UNCHANGED <<type, tol, param>>

Init ==
    /\ type \in Types
    /\ phase = "idle"
    /\ tol \in Tolerances
    /\ param = Missing
    /\ algo = "none"
    /\ src = Nothing
    /\ stored = Blank
    /\ size = Unset
    /\ ret = "NO_ERR"
    /\ out = Nothing

Next ==
    \/ CompressAbstol \/ DecompressAbstol
    \/ CompressAllquant \/ DecompressAllquant
    \/ Quantize \/ Unquantize \/ Swage \/ Unswage
    \/ Release

Spec == Init /\ [][Next]_vars

-----------------------------------------------------------------------------
(* Properties *)

Abs(x) == IF x < 0 THEN -x ELSE x

Scale == IF Kind = "float" THEN 1 ELSE Denom

(* Where the code cannot keep the tolerance: integers with a tolerance     *)
(* below 1, an array whose span overflows its type, and one that ends      *)
(* within half a tolerance of the largest value of its type.               *)
Unsafe ==
    /\ Kind # "float"
    /\ \/ tol < Denom
       \/ Maximum(src) - Minimum(src) >= Half /\ Kind = "wide"
       \/ 2 * Denom * (Maximum(src) - Half + 1) + tol > 0

(* scil-user-hints.h:68: "absolute tolerable error (e.g. 1 means the value *)
(* 2 can become 1-3)".  But for these three cases it holds, for            *)
(* floating-point data half of it: rounding, the header, the width and the *)
(* cut of the cast together never lose more.                               *)
ToleranceKept ==
    phase = "restored" /\ algo # "swage" /\ ~Unsafe =>
        \A n \in Index :
            (IF Kind = "float" THEN 2 ELSE 1) * Scale * Abs(src[n] - out[n]) <= tol

(* The width computed from the span of the data holds every code that      *)
(* rounding makes of it, so that packing loses none of their bits.         *)
CodesFit ==
    phase \in {"stored", "restored"} /\ algo \in {"abstol", "allquant"} /\ ~Unsafe =>
        \A n \in Index : Code(src[n], stored.min, tol) < Two[stored.bits]

(* What a codec made of an array and back is as close as the user asked,   *)
(* and no code was cut to get there.                                       *)
QuantizedIsClose == CodesFit /\ ToleranceKept
=============================================================================
