--------------------------- MODULE MCScilPipeline ---------------------------
(* Small registries for ScilPipeline: two first preconditioners, so that   *)
(* their order shows, and one algorithm of each other type.                *)
EXTENDS ScilPipeline, FiniteSets

CONSTANTS p, q, c, d, b, junk, MaxFirst

MCAlgo == {p, q, c, d, b}
MCAlgoType == [a \in MCAlgo |-> CASE a \in {p, q} -> PF
                                  [] a = c -> C
                                  [] a = d -> D
                                  [] a = b -> B]
(* What scilI_create_chain makes of a well-formed list. *)
MCChain(list) ==
    [stages |-> list,
     first  |-> Cardinality({i \in DOMAIN list : MCAlgoType[list[i]] = PF})]
MCChains(lists) == { MCChain(l) : l \in lists }

Option(a) == {<<>>, <<a>>}

(* Every chain with at most MaxFirst first preconditioners. *)
AllChains == MCChains(
    { f \o co \o da \o by :
        f \in UNION { [1 .. n -> {p, q}] : n \in 0 .. MaxFirst },
        co \in Option(c), da \in Option(d), by \in Option(b) } \ {<<>>})

(* A few chains of different lengths and parities, for runs in which calls *)
(* follow one another on the same buffers.                                 *)
ReuseChains == MCChains({ <<p, p, p>>, <<p, c>>, <<p, p, d, b>> })

(* Bound: a single compression per behaviour. *)
SingleCall == phase' = "compress" => phase = "compress"

(* The chains of compression-chain.c, with one preconditioner. *)
TestedChains == MCChains(
    { <<p>>, <<p, p>>, <<p, p, p, p>>, <<p, b>>, <<p, p, b>>, <<p, p, p, b>>,
      <<b>>, <<d>>, <<d, b>>, <<p, d>>, <<p, p, d>>, <<p, d, b>>,
      <<p, p, d, b>> })
=============================================================================
