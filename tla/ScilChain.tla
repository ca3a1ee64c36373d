------------------------------ MODULE ScilChain ------------------------------
(***************************************************************************)
(* scilI_create_chain (src/src/internal/scil-chain.c): the parser that     *)
(* turns a list of algorithm names into the chain structure scil_compress  *)
(* walks.  The structure is memory that outlives a parse: five places for  *)
(* algorithms, side by side, and the counters.  A parse resets the         *)
(* counters, never the places, and stops where it meets a bad name, leaving*)
(* what it wrote.  Two owners use it differently: a context, whose memory  *)
(* is zeroed when it is created (scil-context.c:80), and the entries of    *)
(* the configuration file, whose memory is as malloc returned it and is    *)
(* given to the next line when a line is rejected                          *)
(* (scil-algo-chooser.c:101-114).                                          *)
(***************************************************************************)
EXTENDS ScilAlgorithms

CONSTANTS
    Lossy,      \* the algorithms with is_lossy set
    Unknown,    \* a name scilI_find_compressor_by_name does not find
    Limit,      \* PRECONDITIONER_LIMIT
    Null,       \* no algorithm
    Garbage,    \* what the places of malloc'ed memory may hold
    Inputs      \* the lists of names that are parsed

Names == Algo \cup {Unknown}

(* The places, in the order of the structure: Limit first preconditioners, *)
(* the converter, Limit second preconditioners, the data and the byte      *)
(* compressor.  An index past pre_cond_first meets what lies behind it.    *)
Places      == 1 .. 2 * Limit + 3
First(i)    == i
Converter   == Limit + 1
Second(i)   == Limit + 1 + i
DataPlace   == 2 * Limit + 2
BytePlace   == 2 * Limit + 3

ASSUME ChainAssumption ==
    /\ Lossy \subseteq Algo
    /\ Unknown \notin Algo
    /\ Null \notin Algo
    /\ Limit \in Nat \ {0}
    /\ Garbage \subseteq [Places -> Algo \cup {Null}]
    /\ Inputs \subseteq Seq(Names)

VARIABLES
    owner,          \* "context" or "config": whose chain this is
    names,          \* the list being parsed
    pos,            \* tokens consumed
    place,          \* the algorithm in each place, or Null
    precond_first_count,
    precond_second_count,
    total_size,
    is_lossy,
    stage,          \* local variable of the parse
    lossy,          \* local variable of the parse
    result          \* "parsing", "ok", "invalid_chain" (-1) or "einval"

vars == <<owner, names, pos, place, precond_first_count,
          precond_second_count, total_size, is_lossy, stage, lossy, result>>

-----------------------------------------------------------------------------
(* A parse of list begins. *)
Begin(list) ==
    /\ names' = list
    /\ pos' = 0
    /\ precond_first_count' = 0
    /\ precond_second_count' = 0
    /\ total_size' = 0
    /\ stage' = 0
    /\ lossy' = 0
    /\ result' = "parsing"

Parsing == result = "parsing"
Token   == names[pos + 1]

(* The next token names algorithm a of the given type, and a may stand     *)
(* here; it is counted before it is looked at.                             *)
Take(type, fits) ==
    /\ Parsing
    /\ pos < Len(names)
    /\ Token \in Algo
    /\ AlgoType[Token] = type
    /\ fits
    /\ pos' = pos + 1
    /\ total_size' = total_size + 1
    /\ lossy' = lossy + (IF Token \in Lossy THEN 1 ELSE 0)
    /\ UNCHANGED <<owner, names, is_lossy, result>>

(* The token is stored.  Bound: writes past the structure are left out.    *)
Put(p) == p \in Places /\ place' = [place EXCEPT ![p] = Token]

(* Mutant: the place is not advanced. *)
TakeFirstInPlace ==
    /\ Take(PF, stage = 0)
    /\ Put(First(1))
    /\ precond_first_count' = precond_first_count + 1
    /\ UNCHANGED <<precond_second_count, stage>>

TakeFirst ==
    /\ Take(PF, stage = 0)
    /\ Put(First(precond_first_count + 1))
    /\ precond_first_count' = precond_first_count + 1
    /\ UNCHANGED <<precond_second_count, stage>>

TakeConverter ==
    /\ Take(C, stage = 0)
    /\ Put(Converter)
    /\ stage' = 1
    /\ UNCHANGED <<precond_first_count, precond_second_count>>

TakeSecond ==
    /\ Take(PS, stage = 1)
    /\ Put(Second(precond_second_count + 1))
    /\ precond_second_count' = precond_second_count + 1
    /\ UNCHANGED <<precond_first_count, stage>>

(* Mutant: a data compressor may follow a data compressor. *)
TakeDataAgain ==
    /\ Take(D, stage <= 2)
    /\ Put(DataPlace)
    /\ stage' = 2
    /\ UNCHANGED <<precond_first_count, precond_second_count>>

TakeData ==
    /\ Take(D, stage <= 1)
    /\ Put(DataPlace)
    /\ stage' = 2
    /\ UNCHANGED <<precond_first_count, precond_second_count>>

TakeBytes ==
    /\ Take(B, stage <= 2)
    /\ Put(BytePlace)
    /\ stage' = 3
    /\ UNCHANGED <<precond_first_count, precond_second_count>>

(* A name nobody registered: the token is not counted. *)
RejectName ==
    /\ Parsing
    /\ pos < Len(names)
    /\ Token \notin Algo
    /\ result' = "einval"
    /\ UNCHANGED <<owner, names, pos, place, precond_first_count,
                   precond_second_count, total_size, is_lossy, stage, lossy>>

Fits == CASE AlgoType[Token] \in {PF, C} -> stage = 0
          [] AlgoType[Token] = PS        -> stage = 1
          [] AlgoType[Token] = D         -> stage <= 1
          [] OTHER                       -> stage <= 2

(* An algorithm in the wrong place: it is counted, but not stored. *)
RejectOrder ==
    /\ Parsing
    /\ pos < Len(names)
    /\ Token \in Algo
    /\ ~Fits
    /\ result' = "invalid_chain"
    /\ total_size' = total_size + 1
    /\ lossy' = lossy + (IF Token \in Lossy THEN 1 ELSE 0)
    /\ UNCHANGED <<owner, names, pos, place, precond_first_count,
                   precond_second_count, is_lossy, stage>>

(* Mutant: the entry keeps the flag of the line before. *)
FinishSticky ==
    /\ Parsing
    /\ pos = Len(names)
    /\ is_lossy' = (is_lossy \/ lossy > 0)
    /\ result' = IF total_size = 0 THEN "einval" ELSE "ok"
    /\ UNCHANGED <<owner, names, pos, place, precond_first_count,
                   precond_second_count, total_size, stage, lossy>>

(* All tokens are taken; an empty list is no chain. *)
Finish ==
    /\ Parsing
    /\ pos = Len(names)
    /\ is_lossy' = (lossy > 0)
    /\ result' = IF total_size = 0 THEN "einval" ELSE "ok"
    /\ UNCHANGED <<owner, names, pos, place, precond_first_count,
                   precond_second_count, total_size, stage, lossy>>

(* Mutant: the memory of the last context is used again as it is. *)
NewContextDirty ==
    /\ ~Parsing
    /\ owner' = "context"
    /\ \E list \in Inputs : Begin(list)
    /\ UNCHANGED <<place, is_lossy>>

(* scilPr_create_context: the chain of a new context, zeroed. *)
NewContext ==
    /\ ~Parsing
    /\ owner' = "context"
    /\ place' = [p \in Places |-> Null]
    /\ is_lossy' = FALSE
    /\ \E list \in Inputs : Begin(list)

(* scilC_algo_chooser_initialize: the next line of the configuration file, *)
(* in the entry of the line before if that one was rejected, otherwise in  *)
(* a new one that holds what malloc returned.                              *)
NextLine ==
    /\ ~Parsing
    /\ owner' = "config"
    /\ \E list \in Inputs : Begin(list)
    /\ IF owner = "config" /\ result # "ok"
       THEN UNCHANGED <<place, is_lossy>>
       ELSE place' \in Garbage /\ is_lossy' \in BOOLEAN

Init ==
    /\ owner \in {"context", "config"}
    /\ names \in Inputs
    /\ pos = 0
    /\ precond_first_count = 0
    /\ precond_second_count = 0
    /\ total_size = 0
    /\ stage = 0
    /\ lossy = 0
    /\ result = "parsing"
    /\ IF owner = "context"
       THEN place = [p \in Places |-> Null] /\ is_lossy = FALSE
       ELSE place \in Garbage /\ is_lossy \in BOOLEAN

Parse == \/ TakeFirst
         \/ TakeConverter
         \/ TakeSecond
         \/ TakeData
         \/ TakeBytes
         \/ RejectName
         \/ RejectOrder
         \/ Finish

Next == Parse \/ NewContext \/ NextLine

Spec == Init /\ [][Next]_vars

-----------------------------------------------------------------------------
(* Properties *)

TypeOK ==
    /\ owner \in {"context", "config"}
    /\ names \in Inputs
    /\ pos \in 0 .. Len(names)
    /\ place \in [Places -> Algo \cup {Null}]
    /\ precond_first_count \in 0 .. pos
    /\ precond_second_count \in 0 .. pos
    /\ total_size \in Nat
    /\ is_lossy \in BOOLEAN
    /\ stage \in 0 .. 3
    /\ lossy \in Nat
    /\ result \in {"parsing", "ok", "invalid_chain", "einval"}

(* The parser accepts exactly the chains the pipeline can walk: nothing    *)
(* out of order or repeated slips through, and nothing else is rejected.   *)
AcceptsWellFormed ==
    /\ result = "ok" => names \in Seq(Algo) \ {<<>>} /\ WellFormed(names)
    /\ result \in {"invalid_chain", "einval"} =>
          names = <<>> \/ names \notin Seq(Algo) \/ ~WellFormed(names)

(* What scil_compress runs when it walks the places of a chain             *)
(* (scil.c:180-386).                                                       *)
Present(p) == IF place[p] = Null THEN <<>> ELSE <<place[p]>>
Walk == [i \in 1 .. precond_first_count |-> place[First(i)]]
        \o Present(Converter)
        \o [i \in 1 .. precond_second_count |-> place[Second(i)]]
        \o Present(DataPlace)
        \o Present(BytePlace)

WithinLimit == precond_first_count <= Limit /\ precond_second_count <= Limit

(* Within the limit on preconditioners the walk through a context's chain  *)
(* is the list the user asked for, and its length the total_size that is   *)
(* stored with the data: nothing an earlier parse left is ever run.        *)
RunsWhatWasAsked ==
    owner = "context" /\ result = "ok" /\ WithinLimit =>
        Walk = names /\ total_size = Len(Walk)

(* An accepted chain is called lossless only if none of its algorithms is  *)
(* lossy, whoever's memory it was built in: parse_losless_list relies on   *)
(* it.                                                                     *)
LossyIsKnown ==
    result = "ok" => (is_lossy <=> \E i \in 1 .. Len(names) : names[i] \in Lossy)

(* What a parse accepts is a chain as scil_compress and scil_decompress    *)
(* take it (ScilPipeline), its count of first preconditioners included.    *)
BuildsChain ==
    result = "ok" => IsChain([stages |-> names, first |-> precond_first_count])

-----------------------------------------------------------------------------
(* The inductive invariant.                                                *)

Seen(type) == \E i \in 1 .. pos : AlgoType[names[i]] = type

(* The tokens taken are in order, and "stage" remembers the last of them.  *)
OrderInv ==
    /\ \A i \in 1 .. pos : names[i] \in Algo
    /\ \A i, j \in 1 .. pos : i < j =>
          \/ Rank(names[i]) < Rank(names[j])
          \/ AlgoType[names[i]] \in {PF, PS} /\ AlgoType[names[j]] = AlgoType[names[i]]
    /\ \A i \in 1 .. pos : AlgoType[names[i]] = PF <=> i <= precond_first_count
    /\ Seen(C) => stage >= 1
    /\ Seen(PS) => Seen(C)
    /\ Seen(D) => stage >= 2
    /\ Seen(B) => stage = 3
    /\ stage = 1 => Seen(C)
    /\ stage = 2 => Seen(D)
    /\ stage = 3 => Seen(B)
    /\ total_size = pos \/ result = "invalid_chain"

(* How many algorithms stand in a place that holds one or none.            *)
Taken(p) == IF place[p] = Null THEN 0 ELSE 1

(* The places of a context's chain spell the tokens taken.                 *)
PlaceInv ==
    owner = "context" /\ WithinLimit =>
        LET f == precond_first_count
            g == f + Taken(Converter)
            h == g + precond_second_count
            k == h + Taken(DataPlace) IN
        /\ pos = k + Taken(BytePlace)
        /\ \A i \in 1 .. f : place[First(i)] = names[i]
        /\ place[Converter] # Null => place[Converter] = names[g]
        /\ \A i \in 1 .. precond_second_count : place[Second(i)] = names[g + i]
        /\ place[DataPlace] # Null => place[DataPlace] = names[k]
        /\ place[BytePlace] # Null => place[BytePlace] = names[pos]
        /\ stage = 0 => place[Converter] = Null /\ precond_second_count = 0
        /\ stage = 1 => place[Converter] # Null
        /\ stage <= 1 => place[DataPlace] = Null
        /\ stage <= 2 => place[BytePlace] = Null

LossyInv ==
    /\ result # "invalid_chain" =>
          (lossy > 0 <=> \E i \in 1 .. pos : names[i] \in Lossy)
    /\ LossyIsKnown

ResultInv ==
    /\ result = "ok" => pos = Len(names) /\ pos > 0
    /\ AcceptsWellFormed

IInv == TypeOK /\ OrderInv /\ PlaceInv /\ LossyInv /\ ResultInv
=============================================================================
