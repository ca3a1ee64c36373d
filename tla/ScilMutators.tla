---------------------------- MODULE ScilMutators ----------------------------
(***************************************************************************)
(* The mutators of patterns, src/src/pattern/basic-mutators.c, which       *)
(* coarsen a pattern of random values: the repeater copies the first value *)
(* of each block of l elements, the interpolator computes what lies        *)
(* between them, dimension by dimension from the last.                     *)
(*                                                                         *)
(* An array is a function of positions, which needs equal lengths, and     *)
(* scilG_iter the set of those it visits (see ScilGrid).  A value is the   *)
(* raw one of a position, or Smooth, or NaN.                               *)
(***************************************************************************)
EXTENDS Integers, Sequences

CONSTANTS
    Arrays,     \* sequences of lengths
    Lengths     \* l, the argument of a mutator

MutatorAssumption ==
    /\ \A d \in Arrays :
          d \in Seq(Nat \ {0}) /\ Len(d) > 0 /\ \A i \in DOMAIN d : d[i] = d[1]
    /\ Lengths \subseteq Nat \ {0, 1}

VARIABLES
    phase,      \* "idle", "repeat", "inner", "edge", "done"
    dims,
    l,
    dim,        \* the dimension that is interpolated; 0: all are
    data,
    todo        \* the blocks the repeater has not copied

vars == <<phase, dims, l, dim, data, todo>>

Smooth == <<>>
NaN    == <<-1>>
Raw(p) == p

Least(a, b) == IF a < b THEN a ELSE b

Positions(d) == [DOMAIN d -> 0 .. d[1] - 1]

(* The positions from one on, below another one, in steps *)
Visited(first, end, step) ==
    {p \in Positions(dims) :
        \A i \in DOMAIN dims :
            /\ p[i] >= first[i] /\ p[i] < end[i]
            /\ (p[i] - first[i]) % step[i] = 0}

Zero  == [i \in DOMAIN dims |-> 0]
One   == [i \in DOMAIN dims |-> 1]
Final == [i \in DOMAIN dims |-> dims[i] - 1]
Block == [i \in DOMAIN dims |-> l]

-----------------------------------------------------------------------------
(* The pattern "random" fills the array before a mutator is called. *)
Call(d, len, first) ==
    /\ dims' = d
    /\ l' = len
    /\ data' = [p \in Positions(d) |-> Raw(p)]
    /\ phase' = first

Repeat(d, len) ==
    /\ Call(d, len, "repeat")
    /\ todo' = {p \in Positions(d) : \A i \in DOMAIN d : p[i] % len = 0}
    /\ dim' = 0

Interpolate(d, len) ==
    /\ Call(d, len, "inner")
    /\ todo' = {}
    /\ dim' = Len(d)

(* The end of the block that begins at p *)
Extend(p) == [i \in DOMAIN dims |-> Least(p[i] + l, dims[i])]

(* m_repeater_func, in the order of the iteration *)
Before(p, q) ==
    \E i \in DOMAIN dims : p[i] < q[i] /\ \A j \in 1 .. i - 1 : p[j] = q[j]

RepeatBlock ==
    /\ phase = "repeat"
    /\ \E p \in todo :
          /\ \A q \in todo \ {p} : Before(p, q)
          /\ data' = [q \in DOMAIN data |->
                        IF q \in Visited(p, Extend(p), One) THEN data[p] ELSE data[q]]
          /\ todo' = todo \ {p}
    /\ UNCHANGED <<phase, dims, l, dim>>

Repeated ==
    /\ phase = "repeat"
    /\ todo = {}
    /\ phase' = "done"
    /\ UNCHANGED <<dims, l, dim, data, todo>>

-----------------------------------------------------------------------------
StartOf(p) == [p EXCEPT ![dim] = (p[dim] \div l) * l]

(* Mutant: the lengths are those of the last element, not of the array. *)
EndOfFinal(p) == [p EXCEPT ![dim] = Least((p[dim] \div l) * l + l, Final[dim] - 1)]

EndOf(p)   == [p EXCEPT ![dim] = Least((p[dim] \div l) * l + l, dims[dim] - 1)]

(* m_interpolator_func: the weight of a position whose interval is empty   *)
(* is 0 / 0; a weight of 0 keeps the value at the start.                   *)
Interpolated(p) ==
    CASE StartOf(p) = EndOf(p) -> NaN
      [] StartOf(p) # EndOf(p) /\ NaN \in {data[StartOf(p)], data[EndOf(p)]} -> NaN
      [] StartOf(p) # EndOf(p) /\ NaN \notin {data[StartOf(p)], data[EndOf(p)]} ->
            IF p = StartOf(p) THEN data[p] ELSE Smooth

(* What this dimension and the ones after it have been interpolated for *)
Stride == [i \in DOMAIN dims |-> IF i >= dim THEN 1 ELSE l]

InnerPoints == Visited(Zero, Final, Stride)
EdgePoints  == Visited([Final EXCEPT ![dim] = 0], dims, Stride)

(* Within one iteration only the values of other intervals change. *)
Compute(points) ==
    data' = [p \in DOMAIN data |-> IF p \in points THEN Interpolated(p) ELSE data[p]]

Inner ==
    /\ phase = "inner"
    /\ Compute(InnerPoints)
    /\ phase' = "edge"
    /\ UNCHANGED <<dims, l, dim, todo>>

(* Mutant: the last row is left out. *)
EdgeOmitted ==
    /\ phase = "edge"
    /\ UNCHANGED data
    /\ dim' = dim - 1
    /\ phase' = IF dim = 1 THEN "done" ELSE "inner"
    /\ UNCHANGED <<dims, l, todo>>

Edge ==
    /\ phase = "edge"
    /\ Compute(EdgePoints)
    /\ dim' = dim - 1
    /\ phase' = IF dim = 1 THEN "done" ELSE "inner"
    /\ UNCHANGED <<dims, l, todo>>

NoArray == [p \in {} |-> NaN]

Return ==
    /\ phase = "done"
    /\ phase' = "idle" /\ dims' = <<>> /\ l' = 0 /\ dim' = 0 /\ data' = NoArray /\ todo' = {}

Init ==
    /\ phase = "idle" /\ dims = <<>> /\ l = 0 /\ dim = 0 /\ data = NoArray /\ todo = {}

Next ==
    \/ /\ phase = "idle"
       /\ \E d \in Arrays, len \in Lengths : Repeat(d, len) \/ Interpolate(d, len)
    \/ RepeatBlock \/ Repeated
    \/ Inner \/ Edge
    \/ Return

Spec == Init /\ [][Next]_vars

-----------------------------------------------------------------------------
(* Properties *)

IsPoint(p) == \A i \in DOMAIN dims : p[i] % l = 0 \/ p[i] = dims[i] - 1

(* The repeater leaves each block with the random value it began with,     *)
(* also where the array ends within a block.                               *)
BlocksAreConstant ==
    phase = "repeat" /\ todo = {} =>
        \A p \in DOMAIN data : data[p] = Raw([i \in DOMAIN dims |-> (p[i] \div l) * l])

(* When a dimension is interpolated, the values it reads are final: those  *)
(* of points that are kept, or computed for a dimension before.  Otherwise *)
(* noise gets into what should be smooth.                                  *)
ReadsAreFinal ==
    [][ (phase = "inner" \/ phase = "edge") /\ Len(dims) < 3 =>
            \A p \in IF phase = "inner" THEN InnerPoints ELSE EdgePoints :
                \A q \in {StartOf(p), EndOf(p)} :
                    IsPoint(q) \/ data[q] \in {Smooth, NaN} ]_vars

(* The interpolator leaves no random value between its points. *)
NothingRawBetween ==
    phase = "done" /\ todo = {} /\ (\E p \in DOMAIN data : data[p] = Smooth) /\ Len(dims) < 3 =>
        \A p \in DOMAIN data : IsPoint(p) \/ data[p] \in {Smooth, NaN}

(* No mutator makes a value that is no number, in whatever order the       *)
(* dimensions follow, unless the last element of the array begins a block: *)
(* its interval is empty and the weight 0 / 0 (basic-mutators.c:53).       *)
NumbersIfBlocksFit ==
    \A p \in DOMAIN data : data[p] = NaN => dims[1] % l = 1

(* What a mutator leaves is what its pattern is to be: blocks of one value,*)
(* or smooth between the points that are kept, and numbers.                *)
MutatedAsMeant == BlocksAreConstant /\ NothingRawBetween /\ NumbersIfBlocksFit
=============================================================================
