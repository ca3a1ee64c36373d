---------------------------- MODULE MCScilSwage ----------------------------
(***************************************************************************)
(* Instance of ScilSwage for TLC: words of twelve bits, the fewest with    *)
(* parts of up to three bytes.                                             *)
(***************************************************************************)
EXTENDS ScilSwage

Binary(x) == [k \in 0 .. 11 |-> (x \div 2 ^ k) % 2]

MCSources  == {Binary(x) : x \in {0, 1, 5, 255, 2729, 4095}}
MCMemories == {[a \in 0 .. 47 |-> b] : b \in {0, 1}}
=============================================================================
