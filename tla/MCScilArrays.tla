---------------------------- MODULE MCScilArrays ----------------------------
(***************************************************************************)
(* Instance of ScilArrays for TLC.                                         *)
(***************************************************************************)
EXTENDS ScilArrays

(* Every value of types of four and five bits; of the latter there are     *)
(* codes that are refused.                                                 *)
MCTypes == {[kind |-> "int",   bits |-> 4, values |-> -8 .. 7],
            [kind |-> "wide",  bits |-> 5, values |-> -16 .. 15],
            [kind |-> "float", bits |-> 5, values |-> -8 .. 7]}

(* The shorter format has all its codes in a table of masks that ends at 3,*)
(* the longer one has not.                                                 *)
MCFormats == {[mantissa |-> m, exponent |-> 2] : m \in {2, 3}}

-----------------------------------------------------------------------------
(* Arrays of three bits; hints on both sides of the errors they have, in   *)
(* halves: 2 for the absolute one, none, 2 1/2 and, beyond the type, 4 1/2 *)
(* for the finest one.  Two thirds are measured as 11/16.                  *)
MCHints ==
    {h \in [absolute : {0, 4}, percent : {<<0, 1>>, <<200, 3>>}, finest : {0, 5, 9}] :
        h.finest = 9 => h.absolute = 0 /\ h.percent[1] > 0}

(* A quotient rounded to sixteenths *)
Sixteenths(n, m) == (32 * n + m) \div (2 * m)

MCDeviation ==
    [c \in (-4 .. 3) \X (-4 .. 3) |->
        LET sign == IF c[1] < 0 THEN -1 ELSE 1
            part == 16 - Sixteenths(sign * c[2], sign * c[1])
        IN  IF c[1] = 0 THEN <<0, 1>> ELSE <<IF part < 0 THEN -part ELSE part, 16>>]

-----------------------------------------------------------------------------
(* All ranges of one and two dimensions, some of three. *)
Vectors(n, s) == [1 .. n -> s]

CallsOf(n, lengths, ends) ==
    {c \in [dims : Vectors(n, lengths), offset : Vectors(n, 0 .. 2),
            ende : Vectors(n, ends), iter : Vectors(n, 1 .. 2)] :
        /\ \A d \in 1 .. n : c.ende[d] <= c.dims[d] /\ c.offset[d] <= c.ende[d]
        /\ n = 3 => /\ c.offset[1] = c.offset[2] /\ c.iter[2] = c.iter[3]
                    /\ c.ende[1] = c.dims[1] /\ c.ende[3] > 0}

MCCalls == CallsOf(1, 1 .. 4, 0 .. 4) \cup CallsOf(2, 1 .. 3, 0 .. 3) \cup CallsOf(3, 2 .. 3, 1 .. 3)

-----------------------------------------------------------------------------
(* Arrays that end at, before and behind the end of a block *)
MCCubes == {<<n>> : n \in 1 .. 12} \cup {<<n, n>> : n \in 2 .. 10}
              \cup {<<n, n, n>> : n \in 3 .. 4}

-----------------------------------------------------------------------------
(* Arrays of 0 but for v at p and w at q, of equal and unequal lengths *)
Shapes == {<<1>>, <<2>>, <<5>>, <<2, 3>>, <<3, 2>>, <<3, 1>>,
           <<2, 3, 2>>, <<3, 2, 1>>, <<1, 2, 3>>, <<2, 1, 3, 2>>, <<1, 2, 2, 3>>}

MCGarbage == {-9, 9}

Size(length) ==
    LET part[k \in 0 .. Len(length)] == IF k = 0 THEN 1 ELSE part[k - 1] * length[k]
    IN  part[Len(length)]

Peaks(n, p, q, v, w) == [k \in 0 .. n - 1 |-> IF k = p THEN v ELSE IF k = q THEN w ELSE 0]

MCArrays ==
    UNION {{[length |-> s, data |-> Peaks(Size(s), p, q, v, w)] :
                p, q \in 0 .. Size(s) - 1, v, w \in {-2, 1, 4}} : s \in Shapes}
=============================================================================
