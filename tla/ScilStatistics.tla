---------------------------- MODULE ScilStatistics --------------------------
(***************************************************************************)
(* The characteristics of the data that the training data of the chooser   *)
(* names: minimum, maximum, mean, median, standard deviation and largest   *)
(* step (src/src/tools/scil-generate-chooser-data.c), computed from the    *)
(* flat buffer of an array of one to four dimensions.                      *)
(*                                                                         *)
(* Data are integers.  A mean is kept as the sum of which it is the count- *)
(* th part, a deviation as its square times count^3, a median doubled.     *)
(***************************************************************************)
EXTENDS Integers, Sequences, FiniteSetsExt

CONSTANTS
    Arrays,     \* records of length, the lengths of an array, and data, its
                \* buffer: a function of 0 .. count - 1
    Garbage     \* what may lie behind a buffer

(* The numbers of elements of the first k dimensions of an array *)
Volume(length) ==
    LET part[k \in 0 .. Len(length)] == IF k = 0 THEN 1 ELSE part[k - 1] * length[k]
    IN  part

ElementsOf(length) == Volume(length)[Len(length)]

StatisticsAssumption ==
    /\ \A a \in Arrays :
          /\ a.length \in Seq(Nat \ {0}) /\ Len(a.length) \in 1 .. 4
          /\ a.data \in [0 .. ElementsOf(a.length) - 1 -> Int]
    /\ Garbage \subseteq Int

VARIABLES array, phase, current

vars == <<array, phase, current>>

Abs(x) == IF x < 0 THEN -x ELSE x

ValuesOf(data)  == {data[i] : i \in DOMAIN data}
Count(data)     == Cardinality(DOMAIN data)

-----------------------------------------------------------------------------
(* Positions are counted from 0, dimensions from 1. *)
Index1d(p, length) == p[1]

(* Mutant: the second dimension varies fastest. *)
Index2dTransposed(p, length) == p[1] * length[2] + p[2]

Index2d(p, length) == p[2] * length[1] + p[1]
Index3d(p, length) == (p[3] * length[2] + p[2]) * length[1] + p[1]
Index4d(p, length) == ((p[4] * length[3] + p[3]) * length[2] + p[2]) * length[1] + p[1]

Positions(length) ==
    {p \in [DOMAIN length -> 0 .. Max(ValuesOf(length)) - 1] :
        \A k \in DOMAIN length : p[k] < length[k]}

(* No buffer is empty: the infinities the loops begin with do not last. *)
Minimum(data) == Min(ValuesOf(data))
Maximum(data) == Max(ValuesOf(data))

(* The sum of the values of f, one after the other *)
Sum(f) ==
    LET sum[k \in 0 .. Count(f)] == IF k = 0 THEN 0 ELSE sum[k - 1] + f[k - 1]
    IN  sum[Count(f)]

MeanSum(data) == Sum(data)

(* The place of an element after qsort; equal values may change places. *)
Rank(data, i) ==
    Cardinality({j \in DOMAIN data : data[j] < data[i] \/ (data[j] = data[i] /\ j < i)})

(* The sorted copy, and what lies behind it *)
SortedCopy(data, garbage) ==
    [k \in 0 .. Count(data) |->
        IF k < Count(data) THEN data[CHOOSE i \in DOMAIN data : Rank(data, i) = k] ELSE garbage]

Median(data, garbage) ==
    LET sorted == SortedCopy(data, garbage)
        half   == Count(data) \div 2
    IN  IF Count(data) % 2 = 0 THEN sorted[half] + sorted[half + 1] ELSE 2 * sorted[half]

Variance(data, mean) ==
    Sum([i \in DOMAIN data |-> (Count(data) * data[i] - mean) * (Count(data) * data[i] - mean)])

(* get_data_std_deviation_alt *)
VarianceAlt(data) ==
    Count(data) *
        (Count(data) * Sum([i \in DOMAIN data |-> data[i] * data[i]]) - Sum(data) * Sum(data))

(* All pairs that the loops for one dimension after the other compare; at  *)
(* is the flat position of each.                                           *)
Steps(a, at) ==
    UNION {{Abs(a.data[at[p]] - a.data[at[[p EXCEPT ![k] = @ - 1]]]) :
               p \in {q \in Positions(a.length) : q[k] >= 1}} :
             k \in DOMAIN a.length}

MaxStep1d(a) == Max({0} \cup Steps(a, [p \in Positions(a.length) |-> Index1d(p, a.length)]))
MaxStep2d(a) == Max({0} \cup Steps(a, [p \in Positions(a.length) |-> Index2d(p, a.length)]))
MaxStep3d(a) == Max({0} \cup Steps(a, [p \in Positions(a.length) |-> Index3d(p, a.length)]))
MaxStep4d(a) == Max({0} \cup Steps(a, [p \in Positions(a.length) |-> Index4d(p, a.length)]))

MaxStep(a) ==
    CASE Len(a.length) = 1 -> MaxStep1d(a)
      [] Len(a.length) = 2 -> MaxStep2d(a)
      [] Len(a.length) = 3 -> MaxStep3d(a)
      [] Len(a.length) = 4 -> MaxStep4d(a)

-----------------------------------------------------------------------------
NoArray == [length |-> <<>>, data |-> <<>>]
Unknown == [min |-> 0, max |-> 0, mean |-> 0, median |-> 0, stddev |-> 0, maxstep |-> 0]

Characteristics(a, garbage) ==
    [min     |-> Minimum(a.data),
     max     |-> Maximum(a.data),
     mean    |-> MeanSum(a.data),
     median  |-> Median(a.data, garbage),
     stddev  |-> Variance(a.data, MeanSum(a.data)),
     maxstep |-> MaxStep(a)]

SetDataCharacteristics ==
    /\ phase = "generated"
    /\ phase' = "described"
    /\ \E garbage \in IF Count(array.data) = 2 THEN Garbage ELSE {0} :
          current' = Characteristics(array, garbage)
    /\ UNCHANGED array

(* A buffer with a pattern, and its end *)
Generate ==
    /\ phase = "idle"
    /\ phase' = "generated"
    /\ array' \in Arrays
    /\ UNCHANGED current

Free ==
    /\ phase = "described"
    /\ phase' = "idle"
    /\ array' = NoArray
    /\ current' = Unknown

Init ==
    /\ array = NoArray
    /\ phase = "idle"
    /\ current = Unknown

Next == Generate \/ SetDataCharacteristics \/ Free

Spec == Init /\ [][Next]_vars

-----------------------------------------------------------------------------
(* Properties *)

(* i and j lie side by side along dimension k of the buffer, whose first   *)
(* dimension varies fastest.                                               *)
Stride(length, k) == Volume(length)[k - 1]

Beside(i, j, length) ==
    \E k \in DOMAIN length :
        /\ j = i + Stride(length, k)
        /\ (i \div Stride(length, k)) \div length[k] = (j \div Stride(length, k)) \div length[k]

(* The step is the largest difference between neighbours: no pair of the   *)
(* nested loops is no pair of neighbours, and none is left out.            *)
StepIsSteepest ==
    phase = "described" =>
        LET d == array.data
        IN  /\ \A i, j \in DOMAIN d :
                  Beside(i, j, array.length) => Abs(d[i] - d[j]) <= current.maxstep
            /\ current.maxstep > 0 =>
                  \E i, j \in DOMAIN d :
                      Beside(i, j, array.length) /\ Abs(d[i] - d[j]) = current.maxstep

(* The deviation from the mean, computed after it, is that of the formula  *)
(* with sums of squares.                                                   *)
DeviationsAgree == phase = "described" => current.stddev = VarianceAlt(array.data)

(* As many values are below the median as above it. *)
Balanced(d, median) ==
    LET below == {i \in DOMAIN d : 2 * d[i] < median}
        above == {i \in DOMAIN d : 2 * d[i] > median}
    IN  2 * Cardinality(below) <= Count(d) /\ 2 * Cardinality(above) <= Count(d)

(* The column "Median" (scil-generate-chooser-data.c:654) is one for every *)
(* odd number of values.  Of an even number the code takes the two behind  *)
(* the middle.                                                             *)
OddMedianIsMiddle ==
    phase = "described" /\ Count(array.data) % 2 = 1 => Balanced(array.data, current.median)

(* The characteristics written for a buffer are those it has. *)
CharacteristicsAreRight == StepIsSteepest /\ DeviationsAgree /\ OddMedianIsMiddle
=============================================================================
