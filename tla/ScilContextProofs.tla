-------------------------- MODULE ScilContextProofs --------------------------
(***************************************************************************)
(* Proofs about ScilContext, for every registry, every set of contexts,    *)
(* hints and values of the environment.                                    *)
(***************************************************************************)
EXTENDS ScilContext, TLAPS

-----------------------------------------------------------------------------
(* The conversions.  CeilDiv is the smallest multiple that reaches n.      *)

LEMMA ToDigitsNat ==
    ASSUME NEW n \in Nat
    PROVE  ToDigits(n) \in Int /\ 100000 * ToDigits(n) >= 30103 * n
                               /\ 100000 * ToDigits(n) < 30103 * n + 100000
BY SMT DEF ToDigits, CeilDiv, FINEST

LEMMA ToBitsNat ==
    ASSUME NEW n \in Nat
    PROVE  ToBits(n) \in Int /\ 100000 * ToBits(n) >= 332193 * n
                             /\ 100000 * ToBits(n) < 332193 * n + 100000
BY SMT DEF ToBits, CeilDiv, FINEST

(* More bits never are fewer digits. *)
LEMMA DigitsMonotone ==
    ASSUME NEW m \in Nat, NEW n \in Nat, m >= n
    PROVE  ToDigits(m) >= ToDigits(n)
<1>1. 100000 * ToDigits(m) >= 30103 * n
  BY ToDigitsNat
<1>2. 100000 * ToDigits(n) < 30103 * n + 100000
  BY ToDigitsNat
<1>3. ToDigits(m) \in Int /\ ToDigits(n) \in Int
  BY ToDigitsNat
<1> QED
  BY <1>1, <1>2, <1>3

(* The bits digits are converted to carry at least these digits. *)
LEMMA DigitsOfBits ==
    ASSUME NEW d \in Nat, NEW n \in Nat, n >= ToBits(d)
    PROVE  ToDigits(n) >= d
<1>1. 100000 * n >= 332193 * d
  BY ToBitsNat
<1>2. 100000 * ToDigits(n) >= 30103 * n
  BY ToDigitsNat
<1>3. 10000000000 * ToDigits(n) >= 10000005879 * d
  BY <1>1, <1>2, ToDigitsNat
<1> QED
  BY <1>3, ToDigitsNat

LEMMA LargerMax ==
    ASSUME NEW m \in Int, NEW n \in Int
    PROVE  /\ Larger(m, n) \in {m, n}
           /\ Larger(m, n) >= m /\ Larger(m, n) >= n
BY DEF Larger

LEMMA HintRange ==
    ASSUME NEW h \in Hints
    PROVE  /\ h.digits \in Int /\ h.digits >= FINEST
           /\ h.bits \in Int /\ h.bits >= FINEST
<1> DEFINE InRange(g) == /\ g.digits \in FINEST .. 64 /\ g.bits \in FINEST .. 64
<1>1. InRange(h)
  BY ContextAssumption
<1> QED
  BY <1>1 DEF FINEST

(* The adjusted hints, by what the conversions make of them.               *)
LEMMA AdjustRange ==
    ASSUME NEW h \in Hints, NEW dt
    PROVE  LET d == Adjust(dt, h.digits, h)
               b == Adjust(dt, h.bits, h) IN
           /\ d \in Int /\ d >= FINEST
           /\ b \in Int /\ b >= FINEST
BY HintRange DEF Adjust, FINEST, IGNORE

LEMMA EffectiveIs ==
    ASSUME NEW h \in Hints, NEW dt, NEW d, NEW b,
           d = Adjust(dt, h.digits, h), b = Adjust(dt, h.bits, h)
    PROVE  /\ b = IGNORE => EffectiveDigits(dt, h) = d
           /\ b # IGNORE /\ d = IGNORE => EffectiveDigits(dt, h) = ToDigits(b)
           /\ b # IGNORE /\ d # IGNORE => EffectiveDigits(dt, h) = Larger(ToDigits(b), d)
           /\ d = IGNORE => EffectiveBits(dt, h) = b
           /\ d # IGNORE /\ b = IGNORE => EffectiveBits(dt, h) = ToBits(d)
           /\ d # IGNORE /\ b # IGNORE => EffectiveBits(dt, h) = Larger(ToBits(d), b)
BY DEF EffectiveDigits, EffectiveBits

LEMMA OfFinest == ToDigits(FINEST) = FINEST /\ ToBits(FINEST) = FINEST
BY DEF ToDigits, ToBits

(* Both hints are numbers: the effective ones are not below them.          *)
LEMMA EffectiveOfNumbers ==
    ASSUME NEW h \in Hints, NEW dt,
           NEW d \in Nat, NEW b \in Nat,
           d = Adjust(dt, h.digits, h), b = Adjust(dt, h.bits, h)
    PROVE  /\ EffectiveDigits(dt, h) \in Int /\ EffectiveBits(dt, h) \in Int
           /\ EffectiveDigits(dt, h) \in {d, ToDigits(b)}
           /\ EffectiveDigits(dt, h) >= d
           /\ EffectiveBits(dt, h) >= b
           /\ d # 0 => EffectiveBits(dt, h) >= ToBits(d)
           /\ b = 0 => EffectiveDigits(dt, h) = d
<1>1. ToDigits(b) \in Int /\ 100000 * ToDigits(b) >= 30103 * b
  BY ONLY b \in Nat, ToDigitsNat
<1>2. ToBits(d) \in Int /\ 100000 * ToBits(d) >= 332193 * d
  BY ONLY d \in Nat, ToBitsNat
<1>3. ToDigits(b) >= 0 /\ ToBits(d) >= 0
  BY <1>1, <1>2
<1> QED
  BY <1>1, <1>2, <1>3, EffectiveIs, LargerMax DEF IGNORE

(* A result with the effective bits has the effective digits.              *)
LEMMA DigitsFollow ==
    ASSUME NEW h \in Hints, NEW dt, EffectiveBits(dt, h) # FINEST,
           NEW n \in Nat, n >= EffectiveBits(dt, h)
    PROVE  ToDigits(n) >= EffectiveDigits(dt, h)
<1> DEFINE d == Adjust(dt, h.digits, h)
           b == Adjust(dt, h.bits, h)
<1>1. /\ d \in Int /\ d >= FINEST
      /\ b \in Int /\ b >= FINEST
  BY AdjustRange
<1> HIDE DEF d, b
<1>2. CASE d \in Nat /\ b \in Nat
  <2>1. /\ EffectiveDigits(dt, h) \in {d, ToDigits(b)}
        /\ EffectiveBits(dt, h) \in Int
        /\ EffectiveBits(dt, h) >= b
        /\ d # 0 => EffectiveBits(dt, h) >= ToBits(d)
        /\ b = 0 => EffectiveDigits(dt, h) = d
    BY <1>2, EffectiveOfNumbers DEF d, b
  <2>2. ToDigits(n) >= ToDigits(b)
    BY <1>2, <2>1, DigitsMonotone
  <2>3. d # 0 => ToDigits(n) >= d
    BY <1>2, <2>1, DigitsOfBits, ToBitsNat
  <2>4. ToDigits(n) \in Int /\ ToDigits(n) >= 0
    BY ToDigitsNat
  <2> QED
    BY <2>1, <2>2, <2>3, <2>4
<1>3. CASE d = FINEST /\ b \in Nat
  <2>1. b # 0
    BY <1>3, EffectiveIs, OfFinest DEF d, b, IGNORE, FINEST
  <2>2. /\ EffectiveDigits(dt, h) = Larger(ToDigits(b), FINEST)
        /\ EffectiveBits(dt, h) = Larger(FINEST, b)
    BY <1>3, <2>1, EffectiveIs, OfFinest DEF d, b, IGNORE, FINEST
  <2>3. ToDigits(b) \in Int /\ ToDigits(b) >= 0
    BY <1>3, ToDigitsNat
  <2>4. /\ EffectiveDigits(dt, h) = ToDigits(b)
        /\ EffectiveBits(dt, h) = b
    BY <1>3, <2>2, <2>3 DEF Larger, FINEST
  <2> QED
    BY <1>3, <2>4, DigitsMonotone
<1>4. CASE d \in Nat /\ b = FINEST
  <2>1. d # 0
    BY <1>4, EffectiveIs DEF d, b, IGNORE, FINEST
  <2>2. /\ EffectiveDigits(dt, h) = Larger(FINEST, d)
        /\ EffectiveBits(dt, h) = Larger(ToBits(d), FINEST)
    BY <1>4, <2>1, EffectiveIs, OfFinest DEF d, b, IGNORE, FINEST
  <2>3. ToBits(d) \in Int /\ ToBits(d) >= 0
    BY <1>4, ToBitsNat
  <2>4. /\ EffectiveDigits(dt, h) = d
        /\ EffectiveBits(dt, h) = ToBits(d)
    BY <1>4, <2>2, <2>3 DEF Larger, FINEST
  <2> QED
    BY <1>4, <2>4, DigitsOfBits
<1>5. CASE d = FINEST /\ b = FINEST
  <2>1. EffectiveBits(dt, h) = Larger(FINEST, FINEST)
    BY <1>5, EffectiveIs, OfFinest DEF d, b, IGNORE, FINEST
  <2> QED
    BY <2>1 DEF Larger
<1> QED
  BY <1>1, <1>2, <1>3, <1>4, <1>5 DEF FINEST

(* "Finest" reaches the context, unless a number stands beside it.         *)
LEMMA FinestIsKept ==
    ASSUME NEW h \in Hints, NEW dt \in FloatTypes, ~FinestBesideNumber(h),
           h.digits = FINEST \/ h.bits = FINEST \/ TooFine(dt, h)
    PROVE  EffectiveDigits(dt, h) = FINEST \/ EffectiveBits(dt, h) = FINEST
<1> DEFINE d == Adjust(dt, h.digits, h)
           b == Adjust(dt, h.bits, h)
<1>1. CASE TooFine(dt, h)
  <2>1. d = FINEST /\ b = FINEST
    BY <1>1 DEF Adjust
  <2>2. EffectiveDigits(dt, h) = Larger(FINEST, FINEST)
    BY <2>1, EffectiveIs, OfFinest DEF IGNORE, FINEST
  <2> QED
    BY <2>2 DEF Larger
<1>2. CASE ~TooFine(dt, h)
  <2>1. d = h.digits /\ b = h.bits
    BY <1>2 DEF Adjust
  <2>2. \/ d = FINEST /\ b = IGNORE
        \/ d = IGNORE /\ b = FINEST
        \/ d = FINEST /\ b = FINEST
    BY <1>2, <2>1, HintRange DEF FinestBesideNumber, FINEST, IGNORE
  <2>3. CASE d = FINEST /\ b = IGNORE
    BY <2>3, EffectiveIs
  <2>4. CASE d = IGNORE /\ b = FINEST
    BY <2>4, EffectiveIs
  <2>5. CASE d = FINEST /\ b = FINEST
    <3>1. EffectiveDigits(dt, h) = Larger(FINEST, FINEST)
      BY <2>5, EffectiveIs, OfFinest DEF IGNORE, FINEST
    <3> QED
      BY <3>1 DEF Larger
  <2> QED
    BY <2>2, <2>3, <2>4, <2>5
<1> QED
  BY <1>1, <1>2

LEMMA NumbersAreKept ==
    ASSUME NEW h \in Hints, NEW dt \in FloatTypes,
           h.digits # FINEST, h.bits # FINEST, ~TooFine(dt, h)
    PROVE  /\ EffectiveDigits(dt, h) \in Int /\ EffectiveDigits(dt, h) >= h.digits
           /\ EffectiveBits(dt, h) \in Int /\ EffectiveBits(dt, h) >= h.bits
<1>1. h.digits \in Nat /\ h.bits \in Nat
  BY HintRange DEF FINEST
<1>2. h.digits = Adjust(dt, h.digits, h) /\ h.bits = Adjust(dt, h.bits, h)
  BY DEF Adjust
<1> QED
  BY <1>1, <1>2, EffectiveOfNumbers

LEMMA EffectiveInt ==
    ASSUME NEW h \in Hints, NEW dt
    PROVE  EffectiveDigits(dt, h) \in Int /\ EffectiveBits(dt, h) \in Int
<1> DEFINE d == Adjust(dt, h.digits, h)
           b == Adjust(dt, h.bits, h)
<1>1. /\ d \in Int /\ d >= FINEST
      /\ b \in Int /\ b >= FINEST
  BY AdjustRange
<1> HIDE DEF d, b
<1>2. ToDigits(b) \in Int /\ ToBits(d) \in Int
  <2>1. d = FINEST \/ d \in Nat
    BY <1>1 DEF FINEST
  <2>2. b = FINEST \/ b \in Nat
    BY <1>1 DEF FINEST
  <2>3. FINEST \in Int
    BY DEF FINEST
  <2>4. \A n \in Nat : ToDigits(n) \in Int /\ ToBits(n) \in Int
    BY ToDigitsNat, ToBitsNat
  <2>5. ToDigits(b) \in Int
    BY <2>2, <2>3, <2>4, OfFinest
  <2>6. ToBits(d) \in Int
    BY <2>1, <2>3, <2>4, OfFinest
  <2> QED
    BY <2>5, <2>6
<1>3. Larger(ToDigits(b), d) \in Int /\ Larger(ToBits(d), b) \in Int
  BY <1>1, <1>2 DEF Larger
<1>4. EffectiveDigits(dt, h) \in {d, ToDigits(b), Larger(ToDigits(b), d)}
  BY EffectiveIs DEF d, b
<1>5. EffectiveBits(dt, h) \in {b, ToBits(d), Larger(ToBits(d), b)}
  BY EffectiveIs DEF d, b
<1> QED
  BY <1>1, <1>2, <1>3, <1>4, <1>5

-----------------------------------------------------------------------------
(* The invariant.                                                          *)


LEMMA NewContextInv ==
    ASSUME NEW c \in Context, NEW dt \in Types, NEW h \in Hints, ForceFits(dt, h)
    PROVE  /\ NewContext(c, dt, h) \in ContextRecord
           /\ NewContext(c, dt, h).force \in {None, c}
           /\ NewContext(c, dt, h).force = c <=> h.force # None
<1>1. EffectiveDigits(dt, h) \in Int /\ EffectiveBits(dt, h) \in Int
  BY EffectiveInt
<1>2. LosslessNeeded(EffectiveDigits(dt, h), EffectiveBits(dt, h), h) \in BOOLEAN
  BY DEF LosslessNeeded
<1>3. h.force # None => h.force \in Seq(Algo)
  BY DEF ForceFits, Accepts
<1>4. None \notin Context
  BY ContextAssumption
<1> QED
  BY <1>1, <1>2, <1>3, <1>4 DEF NewContext, ContextRecord

LEMMA InvInit == Init => IInv
<1> SUFFICES ASSUME Init PROVE IInv
  OBVIOUS
<1>1. \A c \in Context : ~Live(c) /\ c \notin heap
  BY ContextAssumption DEF Init, Live
<1> QED
  BY <1>1 DEF Init, IInv, TypeOK, HeapInv

LEMMA InvCreate ==
    ASSUME IInv, NEW c \in Context, NEW dt \in Types, NEW h \in Hints,
           CreateContext(c, dt, h)
    PROVE  IInv'
<1> DEFINE r == NewContext(c, dt, h)
<1>1. /\ ctx[c] = None /\ ForceFits(dt, h) /\ env' = env /\ result' = "ok"
      /\ ctx' = [ctx EXCEPT ![c] = r]
      /\ heap' = IF h.force = None THEN heap ELSE heap \cup {c}
  BY DEF CreateContext, Creates, Live
<1>2. /\ r \in ContextRecord /\ r.force \in {None, c}
      /\ r.force = c <=> h.force # None
  BY <1>1, NewContextInv
<1>3. ctx'[c] = r /\ \A e \in Context \ {c} : ctx'[e] = ctx[e]
  BY <1>1 DEF IInv, TypeOK
<1>4. c \notin heap /\ r # None
  BY <1>1, <1>2, NoneAssumption DEF IInv, HeapInv, Live
<1>5. TypeOK'
  BY <1>1, <1>2, <1>3 DEF IInv, TypeOK
<1>6. HeapInv'
  BY <1>1, <1>2, <1>3, <1>4 DEF IInv, HeapInv, Live
<1>7. AccuracyInv(c)'
  <2>1. /\ r.digits = EffectiveDigits(dt, h) /\ r.bits = EffectiveBits(dt, h)
        /\ r.datatype = dt /\ r.asked = h
        /\ r.lossless = LosslessNeeded(r.digits, r.bits, h)
    BY DEF NewContext
  <2> HIDE DEF r
  <2> QED
    BY <1>3, <2>1 DEF AccuracyInv
<1>8. ChainInv(c)'
  <2>1. /\ r.datatype = dt
        /\ h.force = None => r.chosenBy = "nobody" /\ r.chain = <<>>
        /\ h.force # None => r.chosenBy = "caller" /\ r.chain = h.force
    BY DEF NewContext
  <2> HIDE DEF r
  <2>2. h.force # None => IsApplicable(h.force, dt)
    BY <1>1 DEF ForceFits
  <2> QED
    BY <1>3, <2>1, <2>2 DEF ChainInv
<1>9. \A e \in Context \ {c} : Live(e)' => AccuracyInv(e)' /\ ChainInv(e)'
  BY <1>3 DEF IInv, Live, AccuracyInv, ChainInv
<1> QED
  BY <1>5, <1>6, <1>7, <1>8, <1>9 DEF IInv

LEMMA InvDestroy ==
    ASSUME IInv, NEW c \in Context, Destroy(c)
    PROVE  IInv'
<1>1. /\ ctx' = [ctx EXCEPT ![c] = None] /\ heap' = heap \ {ctx[c].force}
      /\ env' = env /\ result' = "ok" /\ Live(c)
  BY DEF Destroy
<1>2. ctx'[c] = None /\ \A e \in Context \ {c} : ctx'[e] = ctx[e]
  BY <1>1 DEF IInv, TypeOK
<1>3. ctx[c].force \in {None, c}
  BY <1>1 DEF IInv, HeapInv
<1>4. TypeOK'
  BY <1>1, <1>2 DEF IInv, TypeOK
<1>5. HeapInv'
  <2>1. None \notin Context
    BY ContextAssumption
  <2>2. c \notin heap'
    BY <1>1, <1>3 DEF IInv, HeapInv
  <2>3. \A e \in Context \ {c} : e \in heap' <=> e \in heap
    BY <1>1, <1>3, <2>1
  <2> QED
    BY <1>2, <2>2, <2>3 DEF IInv, HeapInv, Live
<1>6. \A e \in Context : Live(e)' => AccuracyInv(e)' /\ ChainInv(e)'
  BY <1>2 DEF IInv, Live, AccuracyInv, ChainInv
<1> QED
  BY <1>4, <1>5, <1>6 DEF IInv

(* A choice changes the chain, who chose it and perhaps the need to be     *)
(* lossless, of a context whose chain nobody chose.                        *)
LEMMA InvChoose ==
    ASSUME IInv, NEW c \in Context, Live(c),
           NEW STATE list, list \in Seq(Algo), NEW who,
           NEW STATE lossless, lossless \in BOOLEAN,
           \/ who = "environment"
           \/ who = "chooser" /\ list \in {<<Memcopy>>, <<Lz4>>},
           ctx[c].lossless => lossless,
           ctx' = [ctx EXCEPT ![c] = [ctx[c] EXCEPT !.chain = list, !.chosenBy = who,
                                                    !.lossless = lossless]],
           heap' = heap, env' = env, result' \in {"ok", "crashed"}
    PROVE  IInv'
<1> DEFINE r == [ctx[c] EXCEPT !.chain = list, !.chosenBy = who, !.lossless = lossless]
<1>1. ctx[c] \in ContextRecord
  BY DEF IInv, TypeOK, Live
<1>2. /\ r \in ContextRecord /\ r.force = ctx[c].force /\ r.chain = list
      /\ r.chosenBy = who /\ r.lossless = lossless /\ r.datatype = ctx[c].datatype
      /\ r.asked = ctx[c].asked /\ r.digits = ctx[c].digits /\ r.bits = ctx[c].bits
  BY <1>1 DEF ContextRecord
<1>3. ctx' = [ctx EXCEPT ![c] = r]
  OBVIOUS
<1> HIDE DEF r
<1>4. ctx'[c] = r /\ \A e \in Context \ {c} : ctx'[e] = ctx[e]
  BY <1>3 DEF IInv, TypeOK
<1>5. TypeOK'
  BY <1>2, <1>3 DEF IInv, TypeOK
<1>6. HeapInv'
  <2>1. r # None
    BY <1>2, NoneAssumption
  <2>2. r.force \in {None, c} /\ (c \in heap' <=> r.force = c)
    BY <1>2 DEF IInv, HeapInv
  <2>3. \A e \in Context \ {c} :
            /\ Live(e)' => ctx'[e].force \in {None, e}
            /\ e \in heap' <=> Live(e)' /\ ctx'[e].force = e
    BY <1>4 DEF IInv, HeapInv, Live
  <2>4. /\ Live(c)' => ctx'[c].force \in {None, c}
        /\ c \in heap' <=> Live(c)' /\ ctx'[c].force = c
    BY <1>4, <2>1, <2>2 DEF Live
  <2> QED
    BY <2>3, <2>4 DEF HeapInv
<1>7. AccuracyInv(c)' /\ ChainInv(c)'
  BY <1>2, <1>4 DEF IInv, AccuracyInv, ChainInv
<1>8. \A e \in Context \ {c} : Live(e)' => AccuracyInv(e)' /\ ChainInv(e)'
  BY <1>4 DEF IInv, Live, AccuracyInv, ChainInv
<1> QED
  BY <1>5, <1>6, <1>7, <1>8 DEF IInv

LEMMA InvNext == IInv /\ [Next]_vars => IInv'
<1> SUFFICES ASSUME IInv, [Next]_vars PROVE IInv'
  OBVIOUS
<1>1. ASSUME ctx' = ctx, heap' = heap, env' = env,
             result' \in {"ok", "rejected", "crashed", "exited"}
      PROVE  IInv'
  BY <1>1 DEF IInv, TypeOK, HeapInv, Live, AccuracyInv, ChainInv
<1>2. ASSUME NEW c \in Context, NEW dt \in Types, NEW h \in Hints,
             CreateContext(c, dt, h)
      PROVE  IInv'
  BY <1>2, InvCreate
<1>3. ASSUME NEW c \in Context, NEW dt \in Types, NEW h \in Hints,
             CreateRejected(c, dt, h)
      PROVE  IInv'
  BY <1>1, <1>3 DEF CreateRejected, Creates
<1>4. ASSUME NEW c \in Context, CompressDecided(c) PROVE IInv'
  BY <1>1, <1>4 DEF CompressDecided, Runs
<1>5. ASSUME NEW c \in Context, ChooseFromEnv(c) PROVE IInv'
  <2>1. ctx[c] \in ContextRecord /\ Live(c)
    BY <1>5 DEF ChooseFromEnv, Choosing, IInv, TypeOK, Live
  <2>2. /\ env \in Seq(Algo) /\ heap' = heap /\ env' = env
        /\ result' \in {"ok", "crashed"}
        /\ ctx' = [ctx EXCEPT ![c].chain = env, ![c].chosenBy = "environment"]
    BY <1>5 DEF ChooseFromEnv, Accepts, Runs
  <2>3. ctx' = [ctx EXCEPT ![c] = [ctx[c] EXCEPT !.chain = env, !.chosenBy = "environment",
                                                 !.lossless = ctx[c].lossless]]
    BY <2>1, <2>2 DEF ContextRecord, IInv, TypeOK
  <2>4. ctx[c].lossless \in BOOLEAN
    BY <2>1 DEF ContextRecord
  <2> QED
    BY <2>1, <2>2, <2>3, <2>4, InvChoose
<1>6. ASSUME NEW c \in Context, ChooseFromBadEnv(c) PROVE IInv'
  BY <1>1, <1>6 DEF ChooseFromBadEnv
<1>7. ASSUME NEW c \in Context, ChooseFromData(c) PROVE IInv'
  <2>1. ctx[c] \in ContextRecord /\ Live(c)
    BY <1>7 DEF ChooseFromData, Choosing, IInv, TypeOK, Live
  <2>2. heap' = heap /\ env' = env /\ result' \in {"ok", "crashed"}
    BY <1>7 DEF ChooseFromData, Runs
  <2>3. PICK chosen \in {Memcopy, Lz4} :
            ctx' = [ctx EXCEPT ![c].chain = <<chosen>>,
                               ![c].chosenBy = "chooser",
                               ![c].lossless = @ \/ env = Lossless]
    BY <1>7 DEF ChooseFromData
  <2> DEFINE lossless == ctx[c].lossless \/ env = Lossless
  <2>4. ctx' = [ctx EXCEPT ![c] = [ctx[c] EXCEPT !.chain = <<chosen>>, !.chosenBy = "chooser",
                                                 !.lossless = lossless]]
    BY <2>1, <2>3 DEF ContextRecord, IInv, TypeOK
  <2>5. <<chosen>> \in Seq(Algo)
    BY ContextAssumption
  <2>6. lossless \in BOOLEAN /\ (ctx[c].lossless => lossless)
    OBVIOUS
  <2> HIDE DEF lossless
  <2> QED
    BY <2>1, <2>2, <2>3, <2>4, <2>5, <2>6, InvChoose
<1>8. ASSUME NEW c \in Context, Destroy(c) PROVE IInv'
  BY <1>8, InvDestroy
<1>9. CASE CallerStep
  <2>1. /\ ctx' = ctx /\ result' = result /\ env' \in EnvValues
        /\ heap' \ {Caller} = heap \ {Caller} /\ heap' \subseteq heap \cup {Caller}
    BY <1>9 DEF CallerStep, CallerFrees, CallerAllocates, IInv, TypeOK
  <2>2. \A c \in Context : c \in heap' <=> c \in heap
    BY <2>1, ContextAssumption
  <2> QED
    BY <2>1, <2>2 DEF IInv, TypeOK, HeapInv, Live, AccuracyInv, ChainInv
<1>10. CASE UNCHANGED vars
  BY <1>1, <1>10 DEF vars, IInv, TypeOK
<1> QED
  BY <1>2, <1>3, <1>4, <1>5, <1>6, <1>7, <1>8, <1>9, <1>10 DEF Next, Compress

-----------------------------------------------------------------------------
(* The theorems. *)

(* What the invariant says holds in every reachable state. *)
THEOREM Inductive == Spec => []IInv
<1>1. IInv /\ [Next]_vars => IInv'
  BY InvNext
<1> QED
  BY InvInit, <1>1, PTL DEF Spec

(* The four variables keep their types. *)
THEOREM TypeCorrect == Spec => []TypeOK
<1>1. IInv => TypeOK
  BY DEF IInv
<1> QED
  BY <1>1, Inductive, PTL

(* No context ever reads a freed list, and no copy is lost, however the    *)
(* caller and the contexts take turns.                                     *)
THEOREM ListsAreOwned == Spec => []OwnsItsList
<1>1. IInv => OwnsItsList
  <2> SUFFICES ASSUME IInv PROVE OwnsItsList
    OBVIOUS
  <2>1. \A c \in Context : Live(c) => ctx[c].force \in {None, c}
    BY DEF IInv, HeapInv
  <2>2. \A c \in Context : c \in heap <=> Live(c) /\ ctx[c].force = c
    BY DEF IInv, HeapInv
  <2>3. \A c \in heap \ {Caller} : c \in Context /\ Live(c) /\ ctx[c].force = c
    BY <2>2 DEF IInv, TypeOK
  <2>4. heap \ {Caller} \subseteq {ctx[c].force : c \in {e \in Context : Live(e)}}
    BY <2>3
  <2> QED
    BY <2>1, <2>2, <2>4, ContextAssumption DEF OwnsItsList
<1> QED
  BY <1>1, Inductive, PTL

(* What was asked for in digits and bits is enforced, for every pair of    *)
(* hints but "finest" beside a number.                                     *)
THEOREM AccuracyEnforced == Spec => []AskedIsEnforced
<1>1. IInv => AskedIsEnforced
  <2> SUFFICES ASSUME IInv, NEW c \in Context, Live(c), ctx[c].datatype \in FloatTypes,
                      ~FinestBesideNumber(ctx[c].asked)
               PROVE  /\ Enforced(c, ctx[c].asked.digits, ctx[c].asked.bits)
                      /\ ctx[c].asked.digits = FINEST => ctx[c].lossless
                      /\ ctx[c].asked.bits = FINEST => ctx[c].lossless
    BY DEF AskedIsEnforced
  <2> DEFINE h == ctx[c].asked
             dt == ctx[c].datatype
  <2>1. h \in Hints
    BY DEF IInv, TypeOK, Live, ContextRecord
  <2>2. /\ ctx[c].digits = EffectiveDigits(dt, h) /\ ctx[c].bits = EffectiveBits(dt, h)
        /\ LosslessNeeded(ctx[c].digits, ctx[c].bits, h) => ctx[c].lossless
    BY DEF IInv, AccuracyInv
  <2> HIDE DEF h, dt
  <2>3. CASE h.digits = FINEST \/ h.bits = FINEST \/ TooFine(dt, h)
    <3>1. ctx[c].digits = FINEST \/ ctx[c].bits = FINEST
      BY <2>1, <2>2, <2>3, FinestIsKept DEF h, dt
    <3>2. ctx[c].lossless
      BY <2>2, <3>1 DEF LosslessNeeded
    <3> QED
      BY <3>2 DEF Enforced
  <2>4. CASE h.digits # FINEST /\ h.bits # FINEST /\ ~TooFine(dt, h)
    <3>1. /\ ctx[c].digits \in Int /\ ctx[c].digits >= h.digits
          /\ ctx[c].bits \in Int /\ ctx[c].bits >= h.bits
      BY <2>1, <2>2, <2>4, NumbersAreKept DEF dt
    <3>2. ASSUME NEW n \in 0 .. MaxBits(ctx[c].datatype), MeetsHints(c, n)
          PROVE  ToDigits(n) >= h.digits /\ n >= h.bits
      <4>1. n \in Nat
        BY DEF MaxBits
      <4>2. ToDigits(n) \in Int
        BY <4>1, ToDigitsNat
      <4> QED
        BY <2>1, <3>1, <3>2, <4>1, <4>2, HintRange DEF MeetsHints
    <3>3. Enforced(c, h.digits, h.bits)
      BY <3>2 DEF Enforced
    <3> QED
      BY <2>4, <3>3 DEF h
  <2> QED
    BY <2>3, <2>4
<1> QED
  BY <1>1, Inductive, PTL

(* The effective digits never ask for more than the effective bits give.   *)
THEOREM HintsAgree == Spec => []DigitsFollowBits
<1>1. IInv => DigitsFollowBits
  <2> SUFFICES ASSUME IInv, NEW c \in Context, Live(c), ctx[c].bits # FINEST,
                      NEW n \in 0 .. 52, n >= ctx[c].bits
               PROVE  ToDigits(n) >= ctx[c].digits
    BY DEF DigitsFollowBits
  <2>1. ctx[c].asked \in Hints
    BY DEF IInv, TypeOK, Live, ContextRecord
  <2>2. /\ ctx[c].digits = EffectiveDigits(ctx[c].datatype, ctx[c].asked)
        /\ ctx[c].bits = EffectiveBits(ctx[c].datatype, ctx[c].asked)
    BY DEF IInv, AccuracyInv
  <2> QED
    BY <2>1, <2>2, DigitsFollow
<1> QED
  BY <1>1, Inductive, PTL

(* Forced lists of the shape scilI_chain_is_applicable covers never lead   *)
(* to a function that is not there.                                        *)
THEOREM CheckedChainsRun == Spec => []ForcedChainRuns
<1>1. IInv => ForcedChainRuns
  <2> SUFFICES ASSUME IInv, NEW c \in Context, Live(c), ctx[c].chosenBy = "caller",
                      ~Has(ctx[c].chain, PF),
                      ~(Has(ctx[c].chain, C) /\ Has(ctx[c].chain, D))
               PROVE  Supported(ctx[c].chain, ctx[c].datatype)
    BY DEF ForcedChainRuns
  <2>1. IsApplicable(ctx[c].chain, ctx[c].datatype)
    BY DEF IInv, ChainInv
  <2>2. \A type : ~Has(ctx[c].chain, type) => Uses(ctx[c].chain, type, ctx[c].datatype)
    BY DEF Has, Uses
  <2> QED
    BY <2>1, <2>2 DEF IsApplicable, Supported
<1> QED
  BY <1>1, Inductive, PTL

(* The chooser's own chains lose nothing and run for every datatype. *)
THEOREM ChooserIsSafe == Spec => []LossOnlyIfForced
<1>1. IInv => LossOnlyIfForced
  <2> SUFFICES ASSUME IInv, NEW c \in Context, Live(c), ctx[c].chain # <<>>,
                      ctx[c].chosenBy \notin {"caller", "environment"}
               PROVE  /\ ~ \E i \in 1 .. Len(ctx[c].chain) : ctx[c].chain[i] \in Lossy
                      /\ Supported(ctx[c].chain, ctx[c].datatype)
    BY DEF LossOnlyIfForced
  <2>1. ctx[c].chosenBy \in {"nobody", "chooser"}
    BY DEF IInv, TypeOK, Live, ContextRecord
  <2>2. ctx[c].chain \in {<<Memcopy>>, <<Lz4>>}
    BY <2>1 DEF IInv, ChainInv
  <2>3. \A i \in 1 .. Len(ctx[c].chain) :
            ctx[c].chain[i] \notin Lossy /\ AlgoType[ctx[c].chain[i]] = B
    BY <2>2, ContextAssumption
  <2> QED
    BY <2>3 DEF Supported, Uses, PF, C, D, B
<1> QED
  BY <1>1, Inductive, PTL

(* Nothing that happens later changes the decision of a context. *)
THEOREM DecisionStands == Spec => DecidedOnce
<1>1. ASSUME IInv, Next, NEW c \in Context, Live(c), Decided(c)
      PROVE  ctx'[c] \in {ctx[c], None}
  <2>1. ASSUME NEW e \in Context, NEW dt \in Types, NEW h \in Hints,
               CreateContext(e, dt, h)
        PROVE  ctx'[c] = ctx[c]
    BY <1>1, <2>1 DEF CreateContext, Creates, Live, IInv, TypeOK
  <2>2. ASSUME NEW e \in Context, NEW dt \in Types, NEW h \in Hints,
               CreateRejected(e, dt, h)
        PROVE  ctx'[c] = ctx[c]
    BY <2>2 DEF CreateRejected
  <2>3. ASSUME NEW e \in Context, Compress(e)
        PROVE  ctx'[c] = ctx[c]
    <3>1. e = c => CompressDecided(e)
      BY <1>1, <2>3 DEF Compress, ChooseFromEnv, ChooseFromBadEnv, ChooseFromData, Choosing
    <3>2. CASE e = c
      BY <3>1, <3>2 DEF CompressDecided
    <3>3. CASE e # c
      <4>1. ctx' = ctx \/ \E r : ctx' = [ctx EXCEPT ![e] = r]
        BY <2>3 DEF Compress, CompressDecided, ChooseFromEnv, ChooseFromBadEnv, ChooseFromData
      <4> QED
        BY <1>1, <3>3, <4>1 DEF IInv, TypeOK
    <3> QED
      BY <3>2, <3>3
  <2>4. ASSUME NEW e \in Context, Destroy(e)
        PROVE  ctx'[c] \in {ctx[c], None}
    BY <1>1, <2>4 DEF Destroy, IInv, TypeOK
  <2>5. CASE CallerStep
    BY <2>5 DEF CallerStep
  <2> QED
    BY <1>1, <2>1, <2>2, <2>3, <2>4, <2>5 DEF Next
<1>2. IInv /\ [Next]_vars =>
          [\A c \in Context : Live(c) /\ Decided(c) => ctx'[c] \in {ctx[c], None}]_vars
  BY <1>1
<1> QED
  BY <1>2, Inductive, PTL DEF DecidedOnce, Spec
=============================================================================
