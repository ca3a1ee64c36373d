---------------------------- MODULE MCScilContext ----------------------------
(***************************************************************************)
(* Instances of ScilContext: six of the registered algorithms, one of     *)
(* each kind the decisions tell apart.                                     *)
(***************************************************************************)
EXTENDS ScilContext

MCAlgo == {"dummy-precond", "quantize", "swage", "sz", "lz4", "memcopy"}
MCAlgoType == [a \in MCAlgo |-> CASE a = "dummy-precond"  -> PF
                                  [] a = "quantize"       -> C
                                  [] a \in {"swage", "sz"} -> D
                                  [] OTHER                -> B]
MCLossy == {"quantize", "swage", "sz"}
MCSupports == [a \in MCAlgo |-> CASE a = "dummy-precond"       -> Elementary
                                  [] a \in {"quantize", "sz"} -> FloatTypes
                                  [] a = "swage"              -> Elementary \ FloatTypes
                                  [] OTHER                    -> {}]

MCLists == {<<"lz4">>, <<"dummy-precond", "lz4">>, <<"sz">>, <<"swage", "lz4">>,
            <<"quantize">>, <<"quantize", "swage">>, <<"sz", "swage">>, <<>>, <<"unknown">>}

(* Contexts next to each other: hints differ in the list and in whether    *)
(* they ask for lossless compression.                                      *)
SideTypes == {"double", "int64", "binary"}
SideHints == [digits : {IGNORE}, bits : {IGNORE},
              finest : {{}, {"absolute_tolerance"}}, force : MCLists \cup {None}]

(* A context of its own for every pair of digits and bits up to some the   *)
(* types do not have.                                                      *)
AccuracyHints == [digits : FINEST .. 17, bits : FINEST .. 55,
                  finest : {{}}, force : {None}]

MCTypes == SideTypes \cup FloatTypes
MCHints == SideHints \cup AccuracyHints
MCEnv   == {None, Lossless, <<"sz">>, <<"lz4", "sz">>}

NobodyLives == ctx = [c \in Context |-> None]
OnlySides   == \A c \in Context : Live(c) => ctx[c].asked \in SideHints

(* Some of the steps of Next: a context with hints for digits and bits     *)
(* lives alone, and the program around it rests.                           *)
MCNext ==
    \/ /\ OnlySides
       /\ \/ \E c \in Context, dt \in SideTypes, h \in SideHints :
                CreateContext(c, dt, h) \/ CreateRejected(c, dt, h)
          \/ CallerStep
    \/ /\ NobodyLives
       /\ env = None
       /\ \E dt \in FloatTypes, h \in AccuracyHints :
             CreateContext(CHOOSE c \in Context : TRUE, dt, h)
    \/ \E c \in Context : Compress(c) \/ Destroy(c)

MCSpec == Init /\ [][MCNext]_vars
=============================================================================
