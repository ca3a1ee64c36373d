---------------------------- MODULE MCScilChain -----------------------------
(* A registry with one algorithm of each type, every list of at most       *)
(* MaxNames names and a few longer ones.                                   *)
EXTENDS ScilChain

CONSTANTS p, c, s, d, b, MaxNames

MCAlgo == {p, c, s, d, b}
MCAlgoType == [a \in MCAlgo |-> CASE a = p -> PF
                                  [] a = c -> C
                                  [] a = s -> PS
                                  [] a = d -> D
                                  [] a = b -> B]
MCLossy == {c, d}
(* Bound: malloc'ed places all hold the same. *)
MCGarbage == { [q \in Places |-> a] : a \in MCAlgo \cup {Null} }
MCInputs ==
    UNION { [1 .. n -> MCAlgo \cup {Unknown}] : n \in 0 .. MaxNames }
    \cup { <<p, p, p>>, <<p, c, d, b>>, <<p, p, d, b>>, <<c, s, s, d>>,
           <<c, s, s, s>>, <<p, c, s, d, b>>, <<p, c, s, b, d>> }
=============================================================================
