------------------------------ MODULE MCScilDict ------------------------------
(***************************************************************************)
(* Instance of ScilDict: three keys of one bucket and one of another.      *)
(***************************************************************************)
EXTENDS ScilDict

CONSTANTS k1, k2, k3, k4

MCKey  == {k1, k2, k3, k4}
MCHash == [x \in MCKey |-> IF x = k4 THEN "b" ELSE "a"]

(* Memory that was never used: its contents do not matter. *)
MCInit ==
    /\ Init
    /\ key = [n \in Element |-> k1]
    /\ value = [n \in Element |-> CHOOSE x \in Value : TRUE]
    /\ k = k1
    /\ v = CHOOSE x \in Value : TRUE

MCSpec == MCInit /\ [][Next]_vars /\ WF_vars(Step)
=============================================================================
