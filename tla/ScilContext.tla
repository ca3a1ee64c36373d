----------------------------- MODULE ScilContext -----------------------------
(***************************************************************************)
(* Compression contexts: scilPr_create_context, scilPr_destroy_context     *)
(* (src/src/prepare/scil-context.c) and the choice of a chain at the first *)
(* scil_compress (src/src/compression/scil-algo-chooser.c).  A context     *)
(* fixes how accurate the data must stay and, now or later, the chain that *)
(* compresses it.  The chain comes from the hints, from the environment or *)
(* from the look of the first data.                                        *)
(*                                                                         *)
(* The parser is taken by what it accepts (ScilChain, AcceptsWellFormed).  *)
(* Of the floating-point tolerances only "finest" matters here.            *)
(***************************************************************************)
EXTENDS Integers, ScilAlgorithms

CONSTANTS
    Lossy,      \* the algorithms with is_lossy set
    Supports,   \* the datatypes an algorithm has functions for
    Memcopy, Lz4,
    Context,    \* the contexts that may live at the same time
    Types,      \* the datatypes contexts are created for
    Hints,      \* the hints they are created with
    EnvValues,  \* the values of SCIL_FORCE_COMPRESSION_CHAIN
    Lossless,   \* its value "lossless"
    Caller,     \* the caller's copy of force_compression_methods
    None        \* no context, string or value

FloatTypes == {"float", "double"}
Elementary == FloatTypes \cup {"int8", "int16", "int32", "int64"}
Datatype   == Elementary \cup {"unknown", "binary", "string"}

IGNORE == 0                         \* SCIL_ACCURACY_INT_IGNORE
FINEST == -1                        \* SCIL_ACCURACY_INT_FINEST
MaxDigits(dt) == IF dt = "float" THEN 6 ELSE 15
MaxBits(dt)   == IF dt = "float" THEN 23 ELSE 52

Tolerance == {"absolute_tolerance", "relative_err_finest_abs_tolerance",
              "relative_tolerance_percent"}

ASSUME ContextAssumption ==
    /\ Lossy \subseteq Algo
    /\ Supports \in [Algo -> SUBSET Elementary]
    /\ {Memcopy, Lz4} \subseteq Algo \ Lossy
    /\ AlgoType[Memcopy] = B /\ AlgoType[Lz4] = B
    /\ Types \subseteq Datatype
    /\ \A h \in Hints :
          /\ h = [digits |-> h.digits, bits |-> h.bits, finest |-> h.finest, force |-> h.force]
          /\ h.digits \in FINEST .. 64 /\ h.bits \in FINEST .. 64
          /\ h.finest \subseteq Tolerance
    /\ Caller \notin Context
    /\ None \notin Context \cup {Caller, Lossless} \cup Seq(Algo)
    /\ Lossless \notin Seq(Algo)

ContextRecord ==
    [datatype : Types, asked : Hints, digits : Int, bits : Int, lossless : BOOLEAN,
     force : Context \cup {None}, chain : Seq(Algo),
     chosenBy : {"nobody", "caller", "environment", "chooser"}]

ASSUME NoneAssumption == None \notin ContextRecord

VARIABLES
    ctx,        \* the contexts
    heap,       \* the strings that are allocated; a context's copy has its name
    env,        \* SCIL_FORCE_COMPRESSION_CHAIN
    result      \* of the last call: "ok", "rejected", "crashed" or "exited"

vars == <<ctx, heap, env, result>>

-----------------------------------------------------------------------------
(* Accuracy *)

CeilDiv(n, d) == (n + d - 1) \div d

(* The tables sig_bits and sig_decimals; the constants are log2(10) and    *)
(* log10(2) as far as their 65 entries tell them from the code's.          *)
ToBits(digits) == IF digits = FINEST THEN FINEST ELSE CeilDiv(digits * 332193, 100000)
ToDigits(bits) == IF bits = FINEST THEN FINEST ELSE CeilDiv(bits * 30103, 100000)

(* Mutant: the comparison is the wrong way round. *)
Smaller(m, n) == IF m < n THEN m ELSE n

Larger(m, n) == IF m > n THEN m ELSE n

(* More than the type has is all it has; other types have no such hints.   *)
TooFine(dt, h) == h.digits > MaxDigits(dt) \/ h.bits > MaxBits(dt)
Adjust(dt, n, h) == CASE dt \notin FloatTypes -> IGNORE
                      [] dt \in FloatTypes /\ TooFine(dt, h) -> FINEST
                      [] OTHER -> n

EffectiveDigits(dt, h) ==
    LET d == Adjust(dt, h.digits, h)
        b == Adjust(dt, h.bits, h) IN
    CASE b = IGNORE -> d
      [] d = IGNORE /\ b # IGNORE -> ToDigits(b)
      [] OTHER -> Larger(ToDigits(b), d)

EffectiveBits(dt, h) ==
    LET d == Adjust(dt, h.digits, h)
        b == Adjust(dt, h.bits, h) IN
    CASE d = IGNORE -> b
      [] b = IGNORE /\ d # IGNORE -> ToBits(d)
      [] OTHER -> Larger(ToBits(d), b)

(* check_compress_lossless_needed.  No relative_tolerance_percent can meet *)
(* its condition, which wants it below and above IGNORE.                   *)
LosslessNeeded(digits, bits, h) ==
    \/ h.finest \cap {"absolute_tolerance", "relative_err_finest_abs_tolerance"} # {}
    \/ digits = FINEST
    \/ bits = FINEST

-----------------------------------------------------------------------------
(* Chains *)

Accepts(list) == list \in Seq(Algo) \ {<<>>} /\ WellFormed(list)

Uses(list, type, dt) ==
    \A i \in 1 .. Len(list) : AlgoType[list[i]] = type => dt \in Supports[list[i]]

(* Mutant: the converter is looked at, the data compressor is not. *)
IsApplicableConverter(list, dt) == Uses(list, C, dt)

(* scilI_chain_is_applicable: the data compressor, or else the converter. *)
IsApplicable(list, dt) ==
    IF Has(list, D) THEN Uses(list, D, dt) ELSE Uses(list, C, dt)

(* What scil_compress can run: the functions it calls for the datatype are *)
(* there.  Without one it calls a NULL pointer or meets assert(0).         *)
Supported(list, dt) == Uses(list, PF, dt) /\ Uses(list, C, dt) /\ Uses(list, D, dt)

Alive   == result \in {"ok", "rejected"}
Live(c) == ctx[c] # None

Creates(c, dt, h) ==
    /\ Alive
    /\ ~Live(c)
    /\ h.force # None => Caller \in heap
    /\ UNCHANGED env

ForceFits(dt, h) == h.force # None => Accepts(h.force) /\ IsApplicable(h.force, dt)

NewContext(c, dt, h) ==
    LET digits == EffectiveDigits(dt, h)
        bits   == EffectiveBits(dt, h) IN
    [datatype |-> dt,
     asked    |-> h,                                 \* what the caller passed
     digits   |-> digits,
     bits     |-> bits,
     lossless |-> LosslessNeeded(digits, bits, h),
     force    |-> IF h.force = None THEN None ELSE c,
     chain    |-> IF h.force = None THEN <<>> ELSE h.force,
     chosenBy |-> IF h.force = None THEN "nobody" ELSE "caller"]

(* Mutant: the caller's string is kept instead of a copy. *)
CreateContextAlias(c, dt, h) ==
    /\ Creates(c, dt, h)
    /\ ForceFits(dt, h)
    /\ ctx' = [ctx EXCEPT ![c] = [NewContext(c, dt, h) EXCEPT
                                    !.force = IF h.force = None THEN None ELSE Caller]]
    /\ heap' = heap
    /\ result' = "ok"

(* scilPr_create_context; the forced list is duplicated. *)
CreateContext(c, dt, h) ==
    /\ Creates(c, dt, h)
    /\ ForceFits(dt, h)
    /\ ctx' = [ctx EXCEPT ![c] = NewContext(c, dt, h)]
    /\ heap' = IF h.force = None THEN heap ELSE heap \cup {c}
    /\ result' = "ok"

(* The forced list is no chain, or none for the datatype. *)
CreateRejected(c, dt, h) ==
    /\ Creates(c, dt, h)
    /\ ~ForceFits(dt, h)
    /\ result' = "rejected"
    /\ UNCHANGED <<ctx, heap>>

(* Mutant: the list is not freed. *)
DestroyLeaking(c) ==
    /\ Alive
    /\ Live(c)
    /\ ctx' = [ctx EXCEPT ![c] = None]
    /\ result' = "ok"
    /\ UNCHANGED <<heap, env>>

(* scilPr_destroy_context *)
Destroy(c) ==
    /\ Alive
    /\ Live(c)
    /\ heap' = heap \ {ctx[c].force}
    /\ ctx' = [ctx EXCEPT ![c] = None]
    /\ result' = "ok"
    /\ UNCHANGED env

-----------------------------------------------------------------------------
(* scil_compress, of an array that is not empty. *)

Runs(list, dt) == result' = IF Supported(list, dt) THEN "ok" ELSE "crashed"

Decided(c) == ctx[c].force # None \/ ctx[c].chain # <<>>

CompressDecided(c) ==
    /\ Alive
    /\ Live(c)
    /\ Decided(c)
    /\ Runs(ctx[c].chain, ctx[c].datatype)
    /\ UNCHANGED <<ctx, heap, env>>

(* Mutant: the decision is taken again at every call. *)
ChoosingAlways(c) == Alive /\ Live(c) /\ ctx[c].force = None

Choosing(c) == Alive /\ Live(c) /\ ~Decided(c)

(* The environment names a chain; the datatype is not looked at. *)
ChooseFromEnv(c) ==
    /\ Choosing(c)
    /\ env \notin {None, Lossless}
    /\ Accepts(env)
    /\ ctx' = [ctx EXCEPT ![c].chain = env, ![c].chosenBy = "environment"]
    /\ Runs(env, ctx[c].datatype)
    /\ UNCHANGED <<heap, env>>

(* It names something else: critical() ends the program. *)
ChooseFromBadEnv(c) ==
    /\ Choosing(c)
    /\ env \notin {None, Lossless}
    /\ ~Accepts(env)
    /\ result' = "exited"
    /\ UNCHANGED <<ctx, heap, env>>

(* Mutant: a lossy algorithm is picked without a look at the context. *)
ChooseFromDataLossy(c) ==
    /\ Choosing(c)
    /\ env \in {None, Lossless}
    /\ \E chosen \in {Memcopy, Lz4} \cup Lossy :
          /\ ctx' = [ctx EXCEPT ![c].chain = <<chosen>>,
                                ![c].chosenBy = "chooser",
                                ![c].lossless = @ \/ env = Lossless]
          /\ Runs(<<chosen>>, ctx[c].datatype)
    /\ UNCHANGED <<heap, env>>

(* Few elements, or random ones, are copied. *)
ChooseFromData(c) ==
    /\ Choosing(c)
    /\ env \in {None, Lossless}
    /\ \E chosen \in {Memcopy, Lz4} :
          /\ ctx' = [ctx EXCEPT ![c].chain = <<chosen>>,
                                ![c].chosenBy = "chooser",
                                ![c].lossless = @ \/ env = Lossless]
          /\ Runs(<<chosen>>, ctx[c].datatype)
    /\ UNCHANGED <<heap, env>>

-----------------------------------------------------------------------------
(* The program around the library: it may free its list once the context   *)
(* is created, build another one, and set the environment.                 *)

CallerFrees     == Caller \in heap /\ heap' = heap \ {Caller}
CallerAllocates == Caller \notin heap /\ heap' = heap \cup {Caller}

CallerStep ==
    /\ Alive
    /\ \/ (CallerFrees \/ CallerAllocates) /\ UNCHANGED env
       \/ env' \in EnvValues /\ UNCHANGED heap
    /\ UNCHANGED <<ctx, result>>

Init ==
    /\ ctx = [c \in Context |-> None]
    /\ heap = {Caller}
    /\ env \in EnvValues
    /\ result = "ok"

Compress(c) == \/ CompressDecided(c)
               \/ ChooseFromEnv(c)
               \/ ChooseFromBadEnv(c)
               \/ ChooseFromData(c)

Next ==
    \/ \E c \in Context, dt \in Types, h \in Hints :
          CreateContext(c, dt, h) \/ CreateRejected(c, dt, h)
    \/ \E c \in Context : Compress(c) \/ Destroy(c)
    \/ CallerStep

Spec == Init /\ [][Next]_vars

-----------------------------------------------------------------------------
(* Properties *)

TypeOK ==
    /\ ctx \in [Context -> ContextRecord \cup {None}]
    /\ heap \subseteq Context \cup {Caller}
    /\ env \in EnvValues
    /\ result \in {"ok", "rejected", "crashed", "exited"}

(* A context's copy of the forced list is its own, whatever the caller     *)
(* does with his string and in whatever order contexts are destroyed:      *)
(* nobody frees a string another context still reads, and no copy is left  *)
(* behind (scil-context.c:155, 171).                                       *)
OwnsItsList ==
    /\ \A c \in Context : Live(c) /\ ctx[c].force # None => ctx[c].force \in heap
    /\ \A c, e \in Context :
          /\ Live(c) /\ Live(e) /\ c # e
          /\ ctx[c].force # None
          => ctx[c].force # ctx[e].force
    /\ heap \ {Caller} \subseteq {ctx[c].force : c \in {e \in Context : Live(e)}}

(* The accuracy scil_validate_compression measures, in bits, and whether   *)
(* it lets it pass (scil.c:680, 746-757).                                  *)
MeetsHints(c, bits) == ToDigits(bits) >= ctx[c].digits /\ bits >= ctx[c].bits

Enforced(c, digits, bits) ==
    \/ ctx[c].lossless
    \/ \A n \in 0 .. MaxBits(ctx[c].datatype) :
          MeetsHints(c, n) => ToDigits(n) >= digits /\ n >= bits

(* "Finest" next to a number in the other unit. *)
FinestBesideNumber(h) ==
    \/ h.digits = FINEST /\ h.bits > IGNORE
    \/ h.bits = FINEST /\ h.digits > IGNORE

(* Through the adjustment, both conversions and the maximum, what the      *)
(* caller asked for stays enforced: the context keeps all bits, or no      *)
(* result with fewer digits or bits than asked passes validation.          *)
(* The exception is the one of FinerTaken.   *)
AskedIsEnforced ==
    \A c \in Context :
        Live(c) /\ ctx[c].datatype \in FloatTypes =>
            LET h == ctx[c].asked IN
            /\ ~FinestBesideNumber(h) => Enforced(c, h.digits, h.bits)
            /\ h.digits = FINEST /\ ~FinestBesideNumber(h) => ctx[c].lossless
            /\ h.bits = FINEST /\ ~FinestBesideNumber(h) => ctx[c].lossless

(* scil-context.c:134: "If the user provided both, calculate each other    *)
(* and take the finer ones".                                               *)
FinerTaken ==
    \A c \in Context :
        Live(c) /\ ctx[c].datatype \in FloatTypes =>
            (ctx[c].asked.digits = FINEST \/ ctx[c].asked.bits = FINEST => ctx[c].lossless)

(* The digits and bits a context asks for do not contradict each other:    *)
(* validation never fails for the digits of a result whose bits suffice.   *)
DigitsFollowBits ==
    \A c \in Context :
        Live(c) /\ ctx[c].bits # FINEST =>
            \A n \in 0 .. 52 : n >= ctx[c].bits => ToDigits(n) >= ctx[c].digits

(* The decision for a chain is taken once in the life of a context, data   *)
(* and environment may change as they like; with it, whether the data must *)
(* be kept exactly is settled (scil-algo-chooser.c:142).                   *)
DecidedOnce ==
    [][\A c \in Context :
          Live(c) /\ Decided(c) => ctx'[c] \in {ctx[c], None}]_vars

(* A forced list without preconditioner, and not with both a converter and *)
(* a data compressor, is only accepted if scil_compress can run it.        *)
ForcedChainRuns ==
    \A c \in Context :
        /\ Live(c)
        /\ ctx[c].chosenBy = "caller"
        /\ ~Has(ctx[c].chain, PF)
        /\ ~(Has(ctx[c].chain, C) /\ Has(ctx[c].chain, D))
        => Supported(ctx[c].chain, ctx[c].datatype)

(* What the chooser picks itself is safe for every context: it loses       *)
(* nothing and runs for every datatype, so that only a chain somebody      *)
(* forced can lose data of a context that must not lose any, or crash.     *)
LossOnlyIfForced ==
    \A c \in Context :
        /\ Live(c) /\ ctx[c].chain # <<>>
        /\ \/ ctx[c].lossless /\ \E i \in 1 .. Len(ctx[c].chain) : ctx[c].chain[i] \in Lossy
           \/ ~Supported(ctx[c].chain, ctx[c].datatype)
        => ctx[c].chosenBy \in {"caller", "environment"}

-----------------------------------------------------------------------------
(* The inductive invariant. *)

AccuracyInv(c) ==
    LET r == ctx[c] IN
    /\ r.digits = EffectiveDigits(r.datatype, r.asked)
    /\ r.bits = EffectiveBits(r.datatype, r.asked)
    /\ LosslessNeeded(r.digits, r.bits, r.asked) => r.lossless

ChainInv(c) ==
    LET r == ctx[c] IN
    /\ r.chosenBy = "caller"  => IsApplicable(r.chain, r.datatype)
    /\ r.chosenBy = "nobody"  => r.chain = <<>>
    /\ r.chosenBy = "chooser" => r.chain \in {<<Memcopy>>, <<Lz4>>}

(* A copy is named after its context, lives as long and no longer. *)
HeapInv ==
    /\ \A c \in Context : Live(c) => ctx[c].force \in {None, c}
    /\ \A c \in Context : c \in heap <=> Live(c) /\ ctx[c].force = c

IInv ==
    /\ TypeOK
    /\ HeapInv
    /\ \A c \in Context : Live(c) => AccuracyInv(c) /\ ChainInv(c)
=============================================================================
