---------------------------- MODULE ScilValidate ----------------------------
(***************************************************************************)
(* scil_validate_compression (src/src/scil.c) for arrays of integers: the  *)
(* data is decompressed into a temporary buffer, scil_determine_accuracy   *)
(* (src/src/scil-dtypes-int.dtype.h) measures it against the original      *)
(* element by element, and what is measured is compared with the hints of  *)
(* the context.                                                            *)
(*                                                                         *)
(* A value has Width bits.  The types are those narrower than int, whose   *)
(* differences are computed in int and converted to the type: what does    *)
(* not fit wraps around.  Relative errors are quotients of float, rounded  *)
(* in a way that is a parameter, as pairs of numerator and denominator;    *)
(* INFINITY has the denominator 0.  The tolerances are double: numbers of  *)
(* 1/Parts, of which the finest is converted to the type of the values.    *)
(* Digits and bits are measured, but a context of integers never asks for  *)
(* them (EffectiveDigits of ScilContext).                                  *)
(***************************************************************************)
EXTENDS Integers, ScilPowers

CONSTANTS
    Width,      \* bits of a value
    Length,     \* elements of the array
    Parts,      \* into which the absolute tolerances divide 1
    Hints,      \* what the contexts ask for, where 0 is IGNORE
    Deviation,  \* fabs(1 - c2 / (float) c1) as it is computed
    Ulps        \* how exact that is, 2^22 for float

Half  == Two[Width - 1]
Value == -Half .. Half - 1
Index == 1 .. Length
Array == [Index -> Value]
Ratio == Nat \X Nat
Hint  == [absolute : Nat, percent : Ratio, finest : Nat]

Abs(n) == IF n < 0 THEN -n ELSE n

(* Both operations round, by at most 2^-24 of their results. *)
IsRounded(c1, c2) ==
    LET r == Deviation[c1, c2]
        d == Abs(c1 - c2)
    IN  /\ r \in Ratio /\ r[2] > 0
        /\ c1 = c2 => r[1] = 0
        /\ Abs(r[1] * Abs(c1) - d * r[2]) * Ulps <= (Abs(c1) + d) * r[2]

ValidateAssumption ==
    /\ Width \in Nat \ {0} /\ Length \in Nat
    /\ Parts \in Nat \ {0} /\ Ulps \in Nat \ {0}
    /\ Hints \subseteq Hint
    /\ \A c1 \in Value \ {0}, c2 \in Value : IsRounded(c1, c2)

VARIABLES
    pc,         \* "decompress", "measure" or "done"
    data_uncompressed, data_out,
    hints, lossless,    \* hints and lossless_compression_needed of the context
    threshold,  \* the finest tolerance in the type of the values
    i,          \* of the loop over the elements
    a,          \* the accuracy measured so far, at the end *out_accuracy
    ret,        \* "ok", "precision", "differs" or "failed"
    again       \* the hints are the accuracy an earlier call reported

call == <<data_uncompressed, hints, lossless, again>>
vars == <<pc, call, data_out, threshold, i, a, ret>>

Accuracy == [set : BOOLEAN, absolute : Int, percent : Ratio, finest : Int, bits : 0 .. Width]

-----------------------------------------------------------------------------
(* One pair of elements, c1 restored and c2 original *)

Exceeds(q, r) == q[1] * r[2] > r[1] * q[2]

Error(c1, c2) ==
    LET d == Abs(c1 - c2)
    IN  IF d < Half THEN d ELSE d - 2 * Half

(* (<DATATYPE>) relative_err_finest_abs_tolerance drops the fraction; what *)
(* it is of a tolerance beyond the type is not defined.                    *)
Casts(finest) == IF finest \div Parts < Half THEN {finest \div Parts} ELSE Value

(* 0/0 is NaN, which max() never takes. *)
Relative(c1, c2) ==
    CASE c1 = 0 /\ c2 = 0 -> <<0, 1>>
      [] c1 = 0 /\ c2 # 0 -> <<1, 0>>
      [] c1 # 0           -> Deviation[c1, c2]

Bits(c1, c2) ==
    LET Differ == {m \in 0 .. Width - 1 : (c1 \div Two[m]) % 2 # (c2 \div Two[m]) % 2}
    IN  IF Differ = {} THEN Width
        ELSE Width - (CHOOSE m \in Differ : \A k \in Differ : k <= m)

Larger(m, n)  == IF m > n THEN m ELSE n
Smaller(m, n) == IF m < n THEN m ELSE n

(* Mutant: the last element alone counts for the absolute tolerance. *)
WithLast(acc, c1, c2) ==
    LET err == Error(c1, c2) IN
    [acc EXCEPT
        !.absolute = err,
        !.finest   = IF err >= threshold THEN @ ELSE Larger(err, @),
        !.percent  = LET r == Relative(c1, c2)
                     IN  IF err >= threshold /\ Exceeds(r, @) THEN r ELSE @,
        !.bits     = Smaller(Bits(c1, c2), @)]

With(acc, c1, c2) ==
    LET err == Error(c1, c2) IN
    [acc EXCEPT
        !.absolute = Larger(err, @),
        !.finest   = IF err >= threshold THEN @ ELSE Larger(err, @),
        !.percent  = LET r == Relative(c1, c2)
                     IN  IF err >= threshold /\ Exceeds(r, @) THEN r ELSE @,
        !.bits     = Smaller(Bits(c1, c2), @)]

(* The end of scil_determine_accuracy. *)
Final(acc) ==
    [acc EXCEPT !.percent = <<100 * @[1], @[2]>>,
                !.finest  = IF @ = 0 THEN acc.absolute ELSE @]

(* Mutant: the relative error counts where no finest tolerance is given. *)
MeetsHintsUnlessFinest(acc) ==
    /\ hints.absolute > 0 => Parts * acc.absolute <= hints.absolute
    /\ hints.percent[1] > 0 /\ hints.finest = 0 => ~Exceeds(acc.percent, hints.percent)
    /\ hints.finest > 0 => Parts * acc.finest <= hints.finest

MeetsHints(acc) ==
    /\ hints.absolute > 0 => Parts * acc.absolute <= hints.absolute
    /\ hints.percent[1] > 0 => ~Exceeds(acc.percent, hints.percent)
    /\ hints.finest > 0 => Parts * acc.finest <= hints.finest

-----------------------------------------------------------------------------
(* The call *)

Unset == [set |-> FALSE, absolute |-> 0, percent |-> <<0, 1>>, finest |-> 0, bits |-> Width]

Init ==
    /\ pc = "decompress"
    /\ data_uncompressed \in Array
    /\ hints \in Hints
    /\ lossless \in BOOLEAN
    /\ data_out = data_uncompressed
    /\ threshold = 0 /\ i = 1 /\ a = Unset /\ ret = "ok" /\ again = FALSE

(* No memory, or scil_decompress fails: nobody has set a. *)
Fail ==
    /\ pc = "decompress" /\ ~again
    /\ ret' = "failed" /\ pc' = "done"
    /\ UNCHANGED <<call, data_out, threshold, i, a>>

(* scil_decompress restores an array.  Validation of lossless compression  *)
(* compares as many bytes as the size limit has, at least four times those *)
(* of the array: what lies behind the two arrays is equal or not.          *)
Decompress ==
    /\ pc = "decompress"
    /\ data_out' \in IF again THEN {data_out} ELSE Array
    /\ \E equalBehind \in BOOLEAN :
          ret' = IF lossless /\ ~(data_out' = data_uncompressed /\ equalBehind)
                 THEN "differs" ELSE "ok"
    /\ threshold' \in Casts(hints.finest)
    /\ pc' = "measure" /\ i' = 1 /\ a' = [Unset EXCEPT !.set = TRUE]
    /\ UNCHANGED call

Measure ==
    /\ pc = "measure" /\ i <= Length
    /\ a' = With(a, data_out[i], data_uncompressed[i])
    /\ i' = i + 1
    /\ UNCHANGED <<pc, call, data_out, threshold, ret>>

Return ==
    /\ pc = "measure" /\ i > Length
    /\ a' = Final(a)
    /\ ret' = IF lossless \/ MeetsHints(Final(a)) THEN ret ELSE "precision"
    /\ pc' = "done"
    /\ UNCHANGED <<call, data_out, threshold, i>>

(* The caller validates the same data again, under a context whose hints   *)
(* are the accuracy he was told.                                           *)
Revalidate ==
    /\ pc = "done" /\ a.set /\ ~again
    /\ hints' = [absolute |-> Parts * a.absolute, percent |-> a.percent,
                  finest |-> Parts * a.finest]
    /\ lossless' = FALSE /\ again' = TRUE /\ pc' = "decompress"
    /\ UNCHANGED <<data_uncompressed, data_out, threshold, i, a, ret>>

Next == Fail \/ Decompress \/ Measure \/ Return \/ Revalidate

Spec == Init /\ [][Next]_vars

-----------------------------------------------------------------------------
(* Properties *)

Returned == pc = "done" /\ ret # "failed"
Accepts  == Returned /\ ret = "ok" /\ ~lossless

Distance(k) == Abs(data_out[k] - data_uncompressed[k])

Leading(n, bits) == (n % Two[Width]) \div Two[Width - bits]

(* The whole part of relative_err_finest_abs_tolerance *)
Finest == hints.finest \div Parts

(* By how much rounding moves a relative error, in 1/Ulps of the restored  *)
(* value                                                                   *)
Rounding(k) == IF Distance(k) = 0 THEN 0 ELSE Abs(data_out[k]) + Distance(k)

(* The distance, and a rounding error more or less, is no more than        *)
(* relative_tolerance_percent of the restored value.                       *)
WithinPercent(k, rounding) ==
    100 * hints.percent[2] * (Ulps * Distance(k) + rounding)
        <= Ulps * hints.percent[1] * Abs(data_out[k])

(* A result is accepted only if no element is further from its original    *)
(* than absolute_tolerance, but for those whose distance the type of the   *)
(* values cannot hold.                                                     *)
AcceptedMeetsAbsolute ==
    Accepts /\ hints.absolute > 0 =>
        \A k \in Index : Distance(k) < Half => Parts * Distance(k) <= hints.absolute

(* A result is accepted only if every element as far away as the whole     *)
(* part of relative_err_finest_abs_tolerance, and no further than the type *)
(* can hold, is within the percentage that relative_tolerance_percent      *)
(* allows of the restored value, up to the rounding of the quotient.       *)
AcceptedMeetsRelative ==
    Accepts /\ hints.percent[1] > 0 =>
        \A k \in Index :
            Distance(k) \in Finest .. Half - 1 => WithinPercent(k, -Rounding(k))

(* A result is rejected only if an element misses a tolerance, up to the   *)
(* rounding of the quotient and with the whole part of the finest          *)
(* tolerance for it, every element being measured against the percentage   *)
(* where that part is beyond the type, or if no difference is below that   *)
(* part and the largest one, which then stands for it, is above the finest *)
(* tolerance.                                                              *)
RejectsOnlyUnmet ==
    Returned /\ ret = "precision" =>
        \/ \E k \in Index : hints.absolute > 0 /\ Parts * Distance(k) > hints.absolute
        \/ /\ hints.percent[1] > 0
           /\ \E k \in Index : /\ Finest < Half => Distance(k) >= Finest
                             /\ ~WithinPercent(k, Rounding(k))
        \/ /\ hints.finest > 0
           /\ \E k \in Index : Parts * Distance(k) > hints.finest
           /\ \A k \in Index : Distance(k) \notin 1 .. Finest - 1

(* Of the significant_bits reported all but the last are those both arrays *)
(* have in common in every element.                                        *)
BitsInCommon ==
    Returned =>
        \A k \in Index :
            data_out[k] # data_uncompressed[k] =>
                Leading(data_out[k], a.bits - 1) = Leading(data_uncompressed[k], a.bits - 1)

(* The verdict, and the accuracy reported with it, tell of every element. *)
VerdictIsRight == AcceptedMeetsRelative /\ RejectsOnlyUnmet /\ BitsInCommon
=============================================================================
