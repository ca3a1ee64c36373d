------------------------------ MODULE ScilGrid ------------------------------
(***************************************************************************)
(* The iteration over an array of several dimensions, scilG_iter and       *)
(* scilG_data_pos of src/src/util/scil-util.c.  The function that is       *)
(* called for each element is a record of its position in visited.         *)
(* Dimension i of the code is i + 1 here.                                  *)
(***************************************************************************)
EXTENDS Integers, Sequences, Functions

CONSTANT Calls      \* arguments of scilG_iter: dims, offset, ende, iter

GridAssumption ==
    \A c \in Calls :
        /\ c.dims \in Seq(Nat \ {0}) /\ Len(c.dims) > 0
        /\ {c.offset, c.ende} \subseteq [DOMAIN c.dims -> Nat]
        /\ c.iter \in [DOMAIN c.dims -> Nat \ {0}]
        /\ \A i \in DOMAIN c.dims : c.ende[i] <= c.dims[i]

VARIABLES
    phase,      \* "idle", "walk", "propagate", "done"
    call,
    pos,
    stackpos,   \* 0 above the first dimension
    visited

vars == <<phase, call, pos, stackpos, visited>>

Rank == Len(call.dims)

-----------------------------------------------------------------------------
(* scilG_data_pos *)

(* cur after k dimensions, from the last one on *)
DataPos(p, size) ==
    LET n == Len(size)
        cur[k \in 1 .. n] == IF k = 1 THEN p[n] ELSE cur[k - 1] * size[n - k + 2] + p[n - k + 1]
    IN  cur[n]

-----------------------------------------------------------------------------
(* scilG_iter *)

Begin(c) ==
    /\ call' = c
    /\ pos' = c.offset
    /\ stackpos' = Len(c.dims)
    /\ visited' = <<>>
    /\ phase' = "walk"

(* The passes of the loop over a dimension, and where the k-th one is *)
Passes(c, i) ==
    IF c.offset[i] < c.ende[i] THEN (c.ende[i] - c.offset[i] - 1) \div c.iter[i] + 1 ELSE 0

At(c, i, k) == c.offset[i] + (k - 1) * c.iter[i]

(* The walk over the last dimension *)
Walk ==
    /\ phase = "walk"
    /\ LET passes == Passes(call, stackpos)
       IN /\ visited' = visited \o
                [k \in 1 .. passes |-> [pos EXCEPT ![stackpos] = At(call, stackpos, k)]]
          /\ pos' = IF passes = 0 THEN pos
                    ELSE [pos EXCEPT ![stackpos] = At(call, stackpos, passes)]
    /\ stackpos' = stackpos - 1
    /\ phase' = "propagate"
    /\ UNCHANGED call

(* Mutant: a dimension begins anew at 0. *)
PropagateToZero ==
    /\ phase = "propagate"
    /\ stackpos > 0
    /\ LET next == pos[stackpos] + call.iter[stackpos]
       IN IF next < call.ende[stackpos]
            THEN /\ pos' = [pos EXCEPT ![stackpos] = next]
                 /\ stackpos' = Rank
                 /\ phase' = "walk"
            ELSE /\ pos' = [pos EXCEPT ![stackpos] = 0]
                 /\ stackpos' = stackpos - 1
                 /\ UNCHANGED phase
    /\ UNCHANGED <<call, visited>>

(* Mutant: the first dimension is not left. *)
PropagateForever ==
    /\ phase = "propagate"
    /\ stackpos > 0
    /\ LET next == pos[stackpos] + call.iter[stackpos]
       IN /\ pos' = [pos EXCEPT ![stackpos] =
                        IF next < call.ende[stackpos] THEN next ELSE call.offset[stackpos]]
          /\ stackpos' = Rank
          /\ phase' = "walk"
    /\ UNCHANGED <<call, visited>>

(* The next step of a dimension above, or on to the one above that. *)
Propagate ==
    /\ phase = "propagate"
    /\ stackpos > 0
    /\ LET next == pos[stackpos] + call.iter[stackpos]
       IN IF next < call.ende[stackpos]
            THEN /\ pos' = [pos EXCEPT ![stackpos] = next]
                 /\ stackpos' = Rank
                 /\ phase' = "walk"
            ELSE /\ pos' = [pos EXCEPT ![stackpos] = call.offset[stackpos]]
                 /\ stackpos' = stackpos - 1
                 /\ UNCHANGED phase
    /\ UNCHANGED <<call, visited>>

Finish ==
    /\ phase = "propagate"
    /\ stackpos = 0
    /\ phase' = "done"
    /\ UNCHANGED <<call, pos, stackpos, visited>>

NoCall == [dims |-> <<>>, offset |-> <<>>, ende |-> <<>>, iter |-> <<>>]

Return ==
    /\ phase = "done"
    /\ phase' = "idle" /\ call' = NoCall /\ pos' = <<>> /\ stackpos' = 0 /\ visited' = <<>>

Init ==
    phase = "idle" /\ call = NoCall /\ pos = <<>> /\ stackpos = 0 /\ visited = <<>>

Iterate == Walk \/ Propagate \/ Finish

Next ==
    \/ phase = "idle" /\ \E c \in Calls : Begin(c)
    \/ Iterate \/ Return

(* A thread that is in scilG_iter goes on. *)
Spec == Init /\ [][Next]_vars /\ WF_vars(Iterate)

-----------------------------------------------------------------------------
(* Properties *)

(* The steps of a dimension from its offset to its end. *)
Steps(c, i) ==
    {k \in c.offset[i] .. c.ende[i] - 1 : (k - c.offset[i]) % c.iter[i] = 0}

Positions(c) ==
    {p \in [DOMAIN c.dims -> UNION {Steps(c, i) : i \in DOMAIN c.dims}] :
        \A i \in DOMAIN c.dims : p[i] \in Steps(c, i)}

NotEmpty(c) == \A i \in DOMAIN c.dims : c.offset[i] < c.ende[i]

AsSet == {visited[k] : k \in DOMAIN visited}

(* Every element of the range is visited, none twice, and nothing else,    *)
(* for all steps and beginnings.                                           *)
VisitsRange ==
    phase = "done" /\ NotEmpty(call) =>
        IsInjective(visited) /\ AsSet = Positions(call)

Count ==
    LET product[k \in 0 .. Rank] == IF k = 0 THEN 1 ELSE product[k - 1] * call.dims[k]
    IN  product[Rank]

OneToOne ==
    \A p, q \in AsSet :
        /\ DataPos(p, call.dims) \in 0 .. Count - 1
        /\ DataPos(p, call.dims) = DataPos(q, call.dims) => p = q

(* In an array of equal lengths each element has a place of its own in the *)
(* buffer.                                                                 *)
EqualLengthsHavePlaces ==
    (phase = "done" /\ \A i \in 1 .. Rank : call.dims[i] = call.dims[1]) /\ NotEmpty(call)
        => OneToOne

(* The iteration ends. *)
IterationEnds == phase = "walk" ~> phase = "done"

(* An iteration meets every element of its range once, and where lengths   *)
(* are equal at a place of its own.                                        *)
EveryElementOnce == VisitsRange /\ EqualLengthsHavePlaces
=============================================================================
