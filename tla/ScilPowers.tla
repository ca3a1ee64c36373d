------------------------------ MODULE ScilPowers -----------------------------
(***************************************************************************)
(* The powers of two, by which the types of different widths are described.*)
(***************************************************************************)
EXTENDS Naturals

Two[n \in Nat] == IF n = 0 THEN 1 ELSE 2 * Two[n - 1]
=============================================================================
