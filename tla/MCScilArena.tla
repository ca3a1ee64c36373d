---------------------------- MODULE MCScilArena ----------------------------
(***************************************************************************)
(* Arrays of up to 110 bytes and one of 600, chains of up to five and of   *)
(* ten preconditioners.                                                    *)
(***************************************************************************)
EXTENDS ScilArena

MCCalls ==
    {c \in [size : 0 .. 110 \cup {600},
            width : {1, 2, 4, 8}, pre : {0, 1, 2, 3, 4, 5, 10},
            data  : {None, "quantize", "abstol"}, byte : {None, "memcopy", "gzip", "lz4"}] :
        /\ c.size % c.width = 0
        /\ c.pre > 0 \/ c.data # None \/ c.byte # None
        /\ c.data = "quantize" => c.width \in {4, 8}}
=============================================================================
