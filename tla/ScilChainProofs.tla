-------------------------- MODULE ScilChainProofs ---------------------------
(* What scilI_create_chain guarantees for every registry, every limit and  *)
(* every list of names: it accepts the well-formed lists, and only these,  *)
(* and what it builds is what ScilPipeline assumes of a chain.             *)
EXTENDS ScilChain, SequenceTheorems, TLAPS

LEMMA RankOf ==
    ASSUME NEW a \in Algo
    PROVE  /\ AlgoType[a] \in CompressorType
           /\ AlgoType[a] = PF => Rank(a) = 0
           /\ AlgoType[a] = C => Rank(a) = 1
           /\ AlgoType[a] = PS => Rank(a) = 2
           /\ AlgoType[a] = D => Rank(a) = 3
           /\ AlgoType[a] = B => Rank(a) = 4
BY AlgoAssumption DEF Rank, CompressorType, PF, C, PS, D, B

(* The five types are different.                                           *)
LEMMA Types ==
    /\ PF # C /\ PF # PS /\ PF # D /\ PF # B /\ C # PS /\ C # D /\ C # B
    /\ PS # D /\ PS # B /\ D # B
BY DEF PF, C, PS, D, B

-----------------------------------------------------------------------------
(* A parse that begins, on zeroed memory or on what a config entry holds.  *)
LEMMA BeginInv ==
    ASSUME NEW list \in Inputs, Begin(list),
           owner' \in {"context", "config"},
           place' \in [Places -> Algo \cup {Null}], is_lossy' \in BOOLEAN,
           owner' = "context" => place' = [p \in Places |-> Null]
    PROVE  IInv'
<1>1. /\ names' = list /\ pos' = 0 /\ total_size' = 0 /\ stage' = 0
      /\ precond_first_count' = 0 /\ precond_second_count' = 0
      /\ lossy' = 0 /\ result' = "parsing"
    BY DEF Begin
<1>2. Len(list) \in Nat
    BY ChainAssumption
<1>3. TypeOK'
    BY <1>1, <1>2 DEF TypeOK
<1>4. OrderInv'
    BY <1>1 DEF OrderInv, Seen
<1>5. PlaceInv'
  <2>1. SUFFICES ASSUME owner' = "context" PROVE PlaceInv'
      BY DEF PlaceInv
  <2>2. /\ Converter \in Places /\ DataPlace \in Places /\ BytePlace \in Places
      BY ChainAssumption DEF Converter, DataPlace, BytePlace, Places
  <2>3. /\ place'[Converter] = Null /\ place'[DataPlace] = Null
        /\ place'[BytePlace] = Null
      BY <2>1, <2>2
  <2> QED
      BY <1>1, <2>3 DEF PlaceInv, Taken
<1>6. LossyInv' /\ ResultInv'
    BY <1>1 DEF LossyInv, LossyIsKnown, ResultInv, AcceptsWellFormed
<1> QED
    BY <1>3, <1>4, <1>5, <1>6 DEF IInv

LEMMA ChainInit == Init => IInv
<1> SUFFICES ASSUME Init PROVE IInv
    OBVIOUS
<1>1. /\ names \in Inputs /\ pos = 0 /\ total_size = 0 /\ stage = 0
      /\ precond_first_count = 0 /\ precond_second_count = 0
      /\ lossy = 0 /\ result = "parsing" /\ is_lossy \in BOOLEAN
      /\ owner \in {"context", "config"}
      /\ place \in [Places -> Algo \cup {Null}]
      /\ owner = "context" => place = [p \in Places |-> Null]
    BY ChainAssumption DEF Init
<1>2. Len(names) \in Nat
    BY <1>1, ChainAssumption
<1>3. TypeOK
    BY <1>1, <1>2 DEF TypeOK
<1>4. OrderInv
    BY <1>1 DEF OrderInv, Seen
<1>5. PlaceInv
  <2>1. SUFFICES ASSUME owner = "context" PROVE PlaceInv
      BY DEF PlaceInv
  <2>2. /\ Converter \in Places /\ DataPlace \in Places /\ BytePlace \in Places
      BY ChainAssumption DEF Converter, DataPlace, BytePlace, Places
  <2>3. /\ place[Converter] = Null /\ place[DataPlace] = Null
        /\ place[BytePlace] = Null
      BY <1>1, <2>1, <2>2
  <2> QED
      BY <1>1, <2>3 DEF PlaceInv, Taken
<1>6. LossyInv /\ ResultInv
    BY <1>1 DEF LossyInv, LossyIsKnown, ResultInv, AcceptsWellFormed
<1> QED
    BY <1>3, <1>4, <1>5, <1>6 DEF IInv

-----------------------------------------------------------------------------
(* What every action that takes a token does, wherever it stores it.       *)
LEMMA TakeFacts ==
    ASSUME IInv, NEW type \in CompressorType, NEW fits, Take(type, fits)
    PROVE  /\ pos \in Nat /\ pos < Len(names) /\ pos' = pos + 1
           /\ Len(names) \in Nat /\ names \in Inputs /\ names' = names
           /\ owner' = owner /\ owner \in {"context", "config"}
           /\ result = "parsing" /\ result' = "parsing"
           /\ fits
           /\ names[pos + 1] \in Algo /\ AlgoType[names[pos + 1]] = type
           /\ precond_first_count \in 0 .. pos
           /\ precond_second_count \in 0 .. pos
           /\ stage \in 0 .. 3 /\ lossy \in Nat
           /\ total_size = pos /\ total_size' = pos + 1
           /\ place \in [Places -> Algo \cup {Null}]
           /\ Limit \in Nat \ {0}
<1>1. TypeOK /\ OrderInv
    BY DEF IInv
<1>2. names \in Inputs /\ Len(names) \in Nat
    BY <1>1, ChainAssumption DEF TypeOK
<1>3. total_size = pos
    BY <1>1 DEF OrderInv, Take, Parsing
<1> QED
    BY <1>1, <1>2, <1>3, ChainAssumption DEF TypeOK, Take, Parsing, Token

(* Flags and result are the same for all of them.                          *)
LEMMA TakeLossy ==
    ASSUME IInv, NEW type \in CompressorType, NEW fits, Take(type, fits)
    PROVE  LossyInv' /\ ResultInv' /\ lossy' \in Nat
<1>1. /\ pos \in Nat /\ pos < Len(names) /\ pos' = pos + 1 /\ names' = names
      /\ result = "parsing" /\ result' = "parsing" /\ lossy \in Nat
    BY TakeFacts
<1>2. lossy' = lossy + (IF names[pos + 1] \in Lossy THEN 1 ELSE 0)
    BY DEF Take, Token
<1>3. lossy > 0 <=> \E i \in 1 .. pos : names[i] \in Lossy
    BY <1>1 DEF IInv, LossyInv
<1>4. lossy' > 0 <=> \E i \in 1 .. pos + 1 : names[i] \in Lossy
  <2>1. CASE names[pos + 1] \in Lossy
      BY <1>1, <1>2, <2>1
  <2>2. CASE names[pos + 1] \notin Lossy
    <3>1. lossy' = lossy
        BY <1>1, <1>2, <2>2
    <3>2. \A i \in 1 .. pos + 1 : i \in 1 .. pos \/ i = pos + 1
        BY <1>1
    <3>3. \A i \in 1 .. pos : i \in 1 .. pos + 1
        BY <1>1
    <3> QED
        BY <1>3, <2>2, <3>1, <3>2, <3>3
  <2> QED
      BY <2>1, <2>2
<1> QED
    BY <1>1, <1>2, <1>4 DEF LossyInv, LossyIsKnown, ResultInv, AcceptsWellFormed

(* The order is kept when the algorithm fits the stage.                    *)
LEMMA TakeOrder ==
    ASSUME IInv, NEW type \in CompressorType, NEW fits, Take(type, fits),
           type = PF => /\ stage = 0 /\ stage' = 0
                        /\ precond_first_count' = precond_first_count + 1,
           type # PF => precond_first_count' = precond_first_count,
           type = C => stage = 0 /\ stage' = 1,
           type = PS => stage = 1 /\ stage' = 1,
           type = D => stage <= 1 /\ stage' = 2,
           type = B => stage <= 2 /\ stage' = 3
    PROVE  OrderInv'
<1>1. /\ pos \in Nat /\ pos < Len(names) /\ pos' = pos + 1 /\ names' = names
      /\ names[pos + 1] \in Algo /\ AlgoType[names[pos + 1]] = type
      /\ precond_first_count \in 0 .. pos /\ stage \in 0 .. 3
      /\ total_size' = pos + 1
    BY TakeFacts
<1>2. OrderInv
    BY DEF IInv
<1>3. \A i \in 1 .. pos : names[i] \in Algo
    BY <1>2 DEF OrderInv
<1>4. \A i \in 1 .. pos + 1 : i \in 1 .. pos \/ i = pos + 1
    BY <1>1
<1>5. stage = 0 => \A i \in 1 .. pos : AlgoType[names[i]] = PF
  <2>1. SUFFICES ASSUME stage = 0, NEW i \in 1 .. pos
                 PROVE  AlgoType[names[i]] = PF
      OBVIOUS
  <2>2. AlgoType[names[i]] \in CompressorType
      BY <1>3, RankOf
  <2>3. ~Seen(C) /\ ~Seen(PS) /\ ~Seen(D) /\ ~Seen(B)
      BY <1>2, <2>1 DEF OrderInv
  <2> QED
      BY <2>2, <2>3 DEF Seen, CompressorType
<1>6. ASSUME NEW i \in 1 .. pos
      PROVE  \/ Rank(names[i]) < Rank(names[pos + 1])
             \/ AlgoType[names[i]] \in {PF, PS} /\ AlgoType[names[pos + 1]] = AlgoType[names[i]]
  <2>1. /\ names[i] \in Algo /\ AlgoType[names[i]] \in CompressorType
      BY <1>3, RankOf
  <2>2. /\ AlgoType[names[i]] = D => stage >= 2
        /\ AlgoType[names[i]] = B => stage = 3
        /\ stage = 0 => AlgoType[names[i]] = PF
      BY <1>2, <1>5 DEF OrderInv, Seen
  <2>3. /\ AlgoType[names[i]] = PF => Rank(names[i]) = 0
        /\ AlgoType[names[i]] = C => Rank(names[i]) = 1
        /\ AlgoType[names[i]] = PS => Rank(names[i]) = 2
        /\ AlgoType[names[i]] = D => Rank(names[i]) = 3
      BY <2>1, RankOf
  <2>4. /\ type = C => Rank(names[pos + 1]) = 1
        /\ type = PS => Rank(names[pos + 1]) = 2
        /\ type = D => Rank(names[pos + 1]) = 3
        /\ type = B => Rank(names[pos + 1]) = 4
      BY <1>1, RankOf
  <2>5. CASE type = PF
      BY <1>1, <2>2, <2>5
  <2>6. CASE type = C
      BY <2>2, <2>3, <2>4, <2>6
  <2>7. CASE type = PS
      BY <1>1, <2>1, <2>2, <2>3, <2>4, <2>7, Types DEF CompressorType
  <2>8. CASE type = D
      BY <1>1, <2>1, <2>2, <2>3, <2>4, <2>8 DEF CompressorType
  <2>9. CASE type = B
      BY <1>1, <2>1, <2>2, <2>3, <2>4, <2>9 DEF CompressorType
  <2> QED
      BY <2>5, <2>6, <2>7, <2>8, <2>9 DEF CompressorType
<1>7. \A i, j \in 1 .. pos + 1 : i < j =>
         \/ Rank(names[i]) < Rank(names[j])
         \/ AlgoType[names[i]] \in {PF, PS} /\ AlgoType[names[j]] = AlgoType[names[i]]
  <2>1. ASSUME NEW i \in 1 .. pos + 1, NEW j \in 1 .. pos + 1, i < j
        PROVE  i \in 1 .. pos /\ (j \in 1 .. pos \/ j = pos + 1)
      BY <1>1, <2>1
  <2> QED
      BY <1>2, <1>6, <2>1 DEF OrderInv
<1>8. \A i \in 1 .. pos + 1 :
         AlgoType[names[i]] = PF <=> i <= precond_first_count'
  <2>1. \A i \in 1 .. pos : AlgoType[names[i]] = PF <=> i <= precond_first_count
      BY <1>2 DEF OrderInv
  <2>2. CASE type # PF
      BY <1>1, <1>4, <2>1, <2>2
  <2>3. CASE type = PF
    <3>1. precond_first_count = pos
        BY <1>1, <1>5, <2>1, <2>3
    <3> QED
        BY <1>1, <1>4, <1>5, <2>3, <3>1
  <2> QED
      BY <2>2, <2>3
<1>9. \A t \in CompressorType : Seen(t)' <=> Seen(t) \/ t = type
    BY <1>1, <1>4 DEF Seen
<1>10. /\ Seen(C)' => stage' >= 1
       /\ Seen(PS)' => Seen(C)'
       /\ Seen(D)' => stage' >= 2
       /\ Seen(B)' => stage' = 3
       /\ stage' = 1 => Seen(C)'
       /\ stage' = 2 => Seen(D)'
       /\ stage' = 3 => Seen(B)'
  <2>1. /\ Seen(C)' <=> Seen(C) \/ type = C
        /\ Seen(PS)' <=> Seen(PS) \/ type = PS
        /\ Seen(D)' <=> Seen(D) \/ type = D
        /\ Seen(B)' <=> Seen(B) \/ type = B
      BY <1>9 DEF CompressorType
  <2>2. /\ Seen(C) => stage >= 1
        /\ Seen(PS) => Seen(C)
        /\ Seen(D) => stage >= 2
        /\ Seen(B) => stage = 3
        /\ stage = 1 => Seen(C)
      BY <1>2 DEF OrderInv
  <2>3. stage' \in 0 .. 3
      BY <1>1 DEF CompressorType
  <2> QED
      BY <1>1, <2>1, <2>2, <2>3, Types DEF CompressorType
<1>11. \A i \in 1 .. pos + 1 : names[i] \in Algo
    BY <1>1, <1>3, <1>4
<1> QED
    BY <1>1, <1>7, <1>8, <1>10, <1>11 DEF OrderInv

(* The places, and the values they may hold.                               *)
LEMMA PlaceFacts ==
    ASSUME Limit \in Nat \ {0}
    PROVE  /\ Converter \in Places /\ DataPlace \in Places /\ BytePlace \in Places
           /\ Converter # DataPlace /\ Converter # BytePlace /\ DataPlace # BytePlace
           /\ \A i \in 1 .. Limit :
                 /\ First(i) \in Places /\ Second(i) \in Places
                 /\ First(i) \notin {Converter, DataPlace, BytePlace}
                 /\ Second(i) \notin {Converter, DataPlace, BytePlace}
                 /\ \A j \in 1 .. Limit : /\ First(i) # Second(j)
                                          /\ i # j => /\ First(i) # First(j)
                                                      /\ Second(i) # Second(j)
BY DEF Converter, DataPlace, BytePlace, Places, First, Second

LEMMA TakeTypes ==
    ASSUME IInv, NEW type \in CompressorType, NEW fits, Take(type, fits),
           NEW p, Put(p),
           precond_first_count' \in 0 .. pos + 1,
           precond_second_count' \in 0 .. pos + 1, stage' \in 0 .. 3
    PROVE  /\ TypeOK'
           /\ p \in Places
           /\ place'[p] = names[pos + 1] /\ place'[p] # Null
           /\ \A r \in Places : r # p => place'[r] = place[r]
<1>1. /\ pos \in Nat /\ pos < Len(names) /\ pos' = pos + 1 /\ names' = names
      /\ Len(names) \in Nat /\ names \in Inputs
      /\ owner' = owner /\ owner \in {"context", "config"}
      /\ result' = "parsing" /\ names[pos + 1] \in Algo
      /\ total_size' = pos + 1
      /\ place \in [Places -> Algo \cup {Null}]
    BY TakeFacts
<1>2. lossy' \in Nat
    BY TakeLossy
<1>3. is_lossy' \in BOOLEAN
    BY DEF IInv, TypeOK, Take
<1>4. p \in Places /\ place' = [place EXCEPT ![p] = names[pos + 1]]
    BY DEF Put, Token
<1>5. place' \in [Places -> Algo \cup {Null}]
    BY <1>1, <1>4
<1>6. TypeOK'
    BY <1>1, <1>2, <1>3, <1>5 DEF TypeOK
<1> QED
    BY <1>1, <1>4, <1>6, ChainAssumption

LEMMA TakeFirstInv == IInv /\ TakeFirst => IInv'
<1> SUFFICES ASSUME IInv, TakeFirst PROVE IInv'
    OBVIOUS
<1>1. /\ Take(PF, stage = 0) /\ PF \in CompressorType
      /\ Put(First(precond_first_count + 1))
      /\ precond_first_count' = precond_first_count + 1
      /\ UNCHANGED <<precond_second_count, stage>>
    BY DEF TakeFirst, CompressorType
<1>2. /\ pos \in Nat /\ pos' = pos + 1 /\ names' = names /\ owner' = owner
      /\ stage = 0 /\ Limit \in Nat \ {0}
      /\ precond_first_count \in 0 .. pos /\ precond_second_count \in 0 .. pos
    BY <1>1, TakeFacts
<1>3. OrderInv'
    BY <1>1, <1>2, TakeOrder, Types
<1>4. LossyInv' /\ ResultInv'
    BY <1>1, TakeLossy
<1> DEFINE p == First(precond_first_count + 1)
<1>5. /\ TypeOK' /\ p \in Places /\ place'[p] = names[pos + 1]
      /\ \A r \in Places : r # p => place'[r] = place[r]
  <2>1. /\ precond_first_count' \in 0 .. pos + 1
        /\ precond_second_count' \in 0 .. pos + 1 /\ stage' \in 0 .. 3
      BY <1>1, <1>2
  <2> QED
      BY <1>1, <2>1, TakeTypes
<1>6. PlaceInv'
  <2>1. SUFFICES ASSUME owner' = "context", WithinLimit' PROVE PlaceInv'
      BY DEF PlaceInv
  <2>2. /\ precond_first_count + 1 \in 1 .. Limit
        /\ owner = "context" /\ WithinLimit
      BY <1>1, <1>2, <2>1 DEF WithinLimit
  <2>3. /\ pos = precond_first_count
        /\ \A i \in 1 .. precond_first_count : place[First(i)] = names[i]
        /\ place[Converter] = Null /\ precond_second_count = 0
        /\ place[DataPlace] = Null /\ place[BytePlace] = Null
      BY <1>2, <2>2 DEF IInv, PlaceInv, Taken
  <2>4. /\ place'[Converter] = Null /\ place'[DataPlace] = Null
        /\ place'[BytePlace] = Null
      BY <1>2, <1>5, <2>2, <2>3, PlaceFacts
  <2>5. \A i \in 1 .. precond_first_count + 1 : place'[First(i)] = names[i]
    <3>1. ASSUME NEW i \in 1 .. precond_first_count
          PROVE  place'[First(i)] = names[i]
      <4>1. i \in 1 .. Limit /\ i # precond_first_count + 1
          BY <1>2, <2>2
      <4>2. First(i) \in Places /\ First(i) # p
          BY <1>2, <2>2, <4>1, PlaceFacts
      <4> QED
          BY <1>5, <2>3, <4>2
    <3> QED
        BY <1>2, <1>5, <2>3, <3>1
  <2> QED
      BY <1>1, <1>2, <2>3, <2>4, <2>5 DEF PlaceInv, Taken
<1> QED
    BY <1>3, <1>4, <1>5, <1>6 DEF IInv

LEMMA TakeConverterInv == IInv /\ TakeConverter => IInv'
<1> SUFFICES ASSUME IInv, TakeConverter PROVE IInv'
    OBVIOUS
<1>1. /\ Take(C, stage = 0) /\ C \in CompressorType /\ Put(Converter)
      /\ stage' = 1
      /\ UNCHANGED <<precond_first_count, precond_second_count>>
    BY DEF TakeConverter, CompressorType
<1>2. /\ pos \in Nat /\ pos' = pos + 1 /\ names' = names /\ owner' = owner
      /\ stage = 0 /\ Limit \in Nat \ {0}
      /\ precond_first_count \in 0 .. pos /\ precond_second_count \in 0 .. pos
    BY <1>1, TakeFacts
<1>3. OrderInv'
    BY <1>1, <1>2, TakeOrder, Types
<1>4. LossyInv' /\ ResultInv'
    BY <1>1, TakeLossy
<1>5. /\ TypeOK' /\ place'[Converter] = names[pos + 1] /\ place'[Converter] # Null
      /\ \A r \in Places : r # Converter => place'[r] = place[r]
  <2>1. /\ precond_first_count' \in 0 .. pos + 1
        /\ precond_second_count' \in 0 .. pos + 1 /\ stage' \in 0 .. 3
      BY <1>1, <1>2
  <2> QED
      BY <1>1, <2>1, TakeTypes
<1>6. PlaceInv'
  <2>1. SUFFICES ASSUME owner' = "context", WithinLimit' PROVE PlaceInv'
      BY DEF PlaceInv
  <2>2. owner = "context" /\ WithinLimit
      BY <1>1, <1>2, <2>1 DEF WithinLimit
  <2>3. /\ pos = precond_first_count
        /\ \A i \in 1 .. precond_first_count : place[First(i)] = names[i]
        /\ place[Converter] = Null /\ precond_second_count = 0
        /\ place[DataPlace] = Null /\ place[BytePlace] = Null
      BY <1>2, <2>2 DEF IInv, PlaceInv, Taken
  <2>4. place'[DataPlace] = Null /\ place'[BytePlace] = Null
      BY <1>2, <1>5, <2>3, PlaceFacts
  <2>5. ASSUME NEW i \in 1 .. precond_first_count
        PROVE  place'[First(i)] = names[i]
    <3>1. i \in 1 .. Limit
        BY <1>2, <2>2 DEF WithinLimit
    <3> QED
        BY <1>2, <1>5, <2>3, <3>1, PlaceFacts
  <2> QED
      BY <1>1, <1>2, <1>5, <2>3, <2>4, <2>5 DEF PlaceInv, Taken
<1> QED
    BY <1>3, <1>4, <1>5, <1>6 DEF IInv

LEMMA TakeSecondInv == IInv /\ TakeSecond => IInv'
<1> SUFFICES ASSUME IInv, TakeSecond PROVE IInv'
    OBVIOUS
<1>1. /\ Take(PS, stage = 1) /\ PS \in CompressorType
      /\ Put(Second(precond_second_count + 1))
      /\ precond_second_count' = precond_second_count + 1
      /\ UNCHANGED <<precond_first_count, stage>>
    BY DEF TakeSecond, CompressorType
<1>2. /\ pos \in Nat /\ pos' = pos + 1 /\ names' = names /\ owner' = owner
      /\ stage = 1 /\ Limit \in Nat \ {0}
      /\ precond_first_count \in 0 .. pos /\ precond_second_count \in 0 .. pos
    BY <1>1, TakeFacts
<1>3. OrderInv'
    BY <1>1, <1>2, TakeOrder, Types
<1>4. LossyInv' /\ ResultInv'
    BY <1>1, TakeLossy
<1> DEFINE p == Second(precond_second_count + 1)
<1>5. /\ TypeOK' /\ p \in Places /\ place'[p] = names[pos + 1]
      /\ \A r \in Places : r # p => place'[r] = place[r]
  <2>1. /\ precond_first_count' \in 0 .. pos + 1
        /\ precond_second_count' \in 0 .. pos + 1 /\ stage' \in 0 .. 3
      BY <1>1, <1>2
  <2> QED
      BY <1>1, <2>1, TakeTypes
<1>6. PlaceInv'
  <2>1. SUFFICES ASSUME owner' = "context", WithinLimit' PROVE PlaceInv'
      BY DEF PlaceInv
  <2>2. /\ precond_second_count + 1 \in 1 .. Limit
        /\ owner = "context" /\ WithinLimit
      BY <1>1, <1>2, <2>1 DEF WithinLimit
  <2>3. /\ pos = precond_first_count + 1 + precond_second_count
        /\ \A i \in 1 .. precond_first_count : place[First(i)] = names[i]
        /\ place[Converter] # Null
        /\ place[Converter] = names[precond_first_count + 1]
        /\ \A i \in 1 .. precond_second_count :
              place[Second(i)] = names[precond_first_count + 1 + i]
        /\ place[DataPlace] = Null /\ place[BytePlace] = Null
      BY <1>2, <2>2 DEF IInv, PlaceInv, Taken
  <2>4. /\ place'[Converter] = place[Converter]
        /\ place'[DataPlace] = Null /\ place'[BytePlace] = Null
      BY <1>2, <1>5, <2>2, <2>3, PlaceFacts
  <2>5. ASSUME NEW i \in 1 .. precond_first_count
        PROVE  place'[First(i)] = names[i]
    <3>1. i \in 1 .. Limit
        BY <1>2, <2>2 DEF WithinLimit
    <3> QED
        BY <1>2, <1>5, <2>2, <2>3, <3>1, PlaceFacts
  <2>6. ASSUME NEW i \in 1 .. precond_second_count + 1
        PROVE  place'[Second(i)] = names[precond_first_count + 1 + i]
    <3>1. CASE i = precond_second_count + 1
      <4>1. precond_first_count + 1 + i = pos + 1
          BY <1>2, <2>3, <3>1
      <4> QED
          BY <1>5, <3>1, <4>1
    <3>2. CASE i # precond_second_count + 1
      <4>1. i \in 1 .. precond_second_count /\ i \in 1 .. Limit
          BY <1>2, <2>2, <3>2
      <4>2. Second(i) \in Places /\ Second(i) # p
          BY <1>2, <2>2, <3>2, <4>1, PlaceFacts
      <4> QED
          BY <1>5, <2>3, <4>1, <4>2
    <3> QED
        BY <3>1, <3>2
  <2> QED
      BY <1>1, <1>2, <2>3, <2>4, <2>5, <2>6 DEF PlaceInv, Taken
<1> QED
    BY <1>3, <1>4, <1>5, <1>6 DEF IInv

LEMMA TakeDataInv == IInv /\ TakeData => IInv'
<1> SUFFICES ASSUME IInv, TakeData PROVE IInv'
    OBVIOUS
<1>1. /\ Take(D, stage <= 1) /\ D \in CompressorType /\ Put(DataPlace)
      /\ stage' = 2
      /\ UNCHANGED <<precond_first_count, precond_second_count>>
    BY DEF TakeData, CompressorType
<1>2. /\ pos \in Nat /\ pos' = pos + 1 /\ names' = names /\ owner' = owner
      /\ stage <= 1 /\ stage \in 0 .. 3 /\ Limit \in Nat \ {0}
      /\ precond_first_count \in 0 .. pos /\ precond_second_count \in 0 .. pos
  <2>1. stage <= 1
      BY <1>1, Zenon DEF Take
  <2> QED
      BY <1>1, <2>1, TakeFacts
<1>3. OrderInv'
    BY <1>1, <1>2, TakeOrder, Types
<1>4. LossyInv' /\ ResultInv'
    BY <1>1, TakeLossy
<1>5. /\ TypeOK' /\ place'[DataPlace] = names[pos + 1] /\ place'[DataPlace] # Null
      /\ \A r \in Places : r # DataPlace => place'[r] = place[r]
  <2>1. /\ precond_first_count' \in 0 .. pos + 1
        /\ precond_second_count' \in 0 .. pos + 1 /\ stage' \in 0 .. 3
      BY <1>1, <1>2
  <2> QED
      BY <1>1, <2>1, TakeTypes
<1>6. PlaceInv'
  <2>1. SUFFICES ASSUME owner' = "context", WithinLimit' PROVE PlaceInv'
      BY DEF PlaceInv
  <2>2. owner = "context" /\ WithinLimit
      BY <1>1, <1>2, <2>1 DEF WithinLimit
  <2> DEFINE f == precond_first_count
             g == f + Taken(Converter)
  <2>3. /\ pos = g + precond_second_count
        /\ \A i \in 1 .. f : place[First(i)] = names[i]
        /\ place[Converter] # Null => place[Converter] = names[g]
        /\ \A i \in 1 .. precond_second_count : place[Second(i)] = names[g + i]
        /\ place[BytePlace] = Null
    <3>1. place[DataPlace] = Null /\ place[BytePlace] = Null
        BY <1>2, <2>2 DEF IInv, PlaceInv
    <3>2. Taken(DataPlace) = 0 /\ Taken(BytePlace) = 0
        BY <3>1 DEF Taken
    <3>3. g \in Nat
        BY <1>2 DEF Taken
    <3> QED
        BY <1>2, <2>2, <3>1, <3>2, <3>3 DEF IInv, PlaceInv
  <2>4. /\ place'[Converter] = place[Converter]
        /\ place'[BytePlace] = Null
      BY <1>2, <1>5, <2>3, PlaceFacts
  <2>5. g' = g /\ g \in Nat /\ Taken(DataPlace)' = 1 /\ Taken(BytePlace)' = 0
      BY <1>1, <1>2, <1>5, <2>4 DEF Taken
  <2>6. ASSUME NEW i \in 1 .. f
        PROVE  place'[First(i)] = names[i]
    <3>1. i \in 1 .. Limit
        BY <1>2, <2>2 DEF WithinLimit
    <3> QED
        BY <1>2, <1>5, <2>3, <3>1, PlaceFacts
  <2>7. ASSUME NEW i \in 1 .. precond_second_count
        PROVE  place'[Second(i)] = names[g + i]
    <3>1. i \in 1 .. Limit
        BY <1>2, <2>2 DEF WithinLimit
    <3> QED
        BY <1>2, <1>5, <2>3, <3>1, PlaceFacts
  <2> QED
      BY <1>1, <1>2, <1>5, <2>3, <2>4, <2>5, <2>6, <2>7 DEF PlaceInv
<1> QED
    BY <1>3, <1>4, <1>5, <1>6 DEF IInv

LEMMA TakeBytesInv == IInv /\ TakeBytes => IInv'
<1> SUFFICES ASSUME IInv, TakeBytes PROVE IInv'
    OBVIOUS
<1>1. /\ Take(B, stage <= 2) /\ B \in CompressorType /\ Put(BytePlace)
      /\ stage' = 3
      /\ UNCHANGED <<precond_first_count, precond_second_count>>
    BY DEF TakeBytes, CompressorType
<1>2. /\ pos \in Nat /\ pos' = pos + 1 /\ names' = names /\ owner' = owner
      /\ stage <= 2 /\ stage \in 0 .. 3 /\ Limit \in Nat \ {0}
      /\ precond_first_count \in 0 .. pos /\ precond_second_count \in 0 .. pos
  <2>1. stage <= 2
      BY <1>1, Zenon DEF Take
  <2> QED
      BY <1>1, <2>1, TakeFacts
<1>3. OrderInv'
    BY <1>1, <1>2, TakeOrder, Types
<1>4. LossyInv' /\ ResultInv'
    BY <1>1, TakeLossy
<1>5. /\ TypeOK' /\ place'[BytePlace] = names[pos + 1] /\ place'[BytePlace] # Null
      /\ \A r \in Places : r # BytePlace => place'[r] = place[r]
  <2>1. /\ precond_first_count' \in 0 .. pos + 1
        /\ precond_second_count' \in 0 .. pos + 1 /\ stage' \in 0 .. 3
      BY <1>1, <1>2
  <2> QED
      BY <1>1, <2>1, TakeTypes
<1>6. PlaceInv'
  <2>1. SUFFICES ASSUME owner' = "context", WithinLimit' PROVE PlaceInv'
      BY DEF PlaceInv
  <2>2. owner = "context" /\ WithinLimit
      BY <1>1, <1>2, <2>1 DEF WithinLimit
  <2> DEFINE f == precond_first_count
             g == f + Taken(Converter)
             k == g + precond_second_count + Taken(DataPlace)
  <2>3. /\ pos = k
        /\ \A i \in 1 .. f : place[First(i)] = names[i]
        /\ place[Converter] # Null => place[Converter] = names[g]
        /\ \A i \in 1 .. precond_second_count : place[Second(i)] = names[g + i]
        /\ place[DataPlace] # Null => place[DataPlace] = names[k]
    <3>1. place[BytePlace] = Null
        BY <1>2, <2>2 DEF IInv, PlaceInv
    <3>2. Taken(BytePlace) = 0
        BY <3>1 DEF Taken
    <3>3. k \in Nat
        BY <1>2 DEF Taken
    <3> QED
        BY <1>2, <2>2, <3>1, <3>2, <3>3 DEF IInv, PlaceInv
  <2>4. /\ place'[Converter] = place[Converter]
        /\ place'[DataPlace] = place[DataPlace]
      BY <1>2, <1>5, <2>3, PlaceFacts
  <2>5. /\ g' = g /\ k' = k /\ g \in Nat /\ k \in Nat
        /\ Taken(BytePlace)' = 1
      BY <1>1, <1>2, <1>5, <2>4 DEF Taken
  <2>6. ASSUME NEW i \in 1 .. f
        PROVE  place'[First(i)] = names[i]
    <3>1. i \in 1 .. Limit
        BY <1>2, <2>2 DEF WithinLimit
    <3> QED
        BY <1>2, <1>5, <2>3, <3>1, PlaceFacts
  <2>7. ASSUME NEW i \in 1 .. precond_second_count
        PROVE  place'[Second(i)] = names[g + i]
    <3>1. i \in 1 .. Limit
        BY <1>2, <2>2 DEF WithinLimit
    <3> QED
        BY <1>2, <1>5, <2>3, <3>1, PlaceFacts
  <2> QED
      BY <1>1, <1>2, <1>5, <2>3, <2>4, <2>5, <2>6, <2>7 DEF PlaceInv
<1> QED
    BY <1>3, <1>4, <1>5, <1>6 DEF IInv

-----------------------------------------------------------------------------
(* A list is well formed only if every token in it fits where it stands.   *)
LEMMA OutOfOrder ==
    ASSUME IInv, pos < Len(names), Token \in Algo, ~Fits, names \in Seq(Algo)
    PROVE  ~WellFormed(names)
<1>1. /\ pos \in Nat /\ stage \in 0 .. 3 /\ OrderInv /\ Len(names) \in Nat
    BY ChainAssumption DEF IInv, TypeOK
<1> DEFINE n == pos + 1
<1>2. /\ n \in 1 .. Len(names) /\ names[n] = Token
      /\ AlgoType[names[n]] \in CompressorType
    BY <1>1, RankOf DEF Token
<1>3. \A i \in 1 .. Len(names) : names[i] \in Algo
    BY ElementOfSeq
(* An algorithm already taken that may not stand before the token.         *)
<1>4. ASSUME NEW i \in 1 .. pos, ~(Rank(names[i]) < Rank(names[n])),
             AlgoType[names[i]] \notin {PF, PS}
      PROVE  ~WellFormed(names)
  <2>1. i \in 1 .. Len(names) /\ i < n
      BY <1>1, <1>2
  <2> QED
      BY <1>2, <1>4, <2>1 DEF WellFormed
<1>5. /\ AlgoType[names[n]] = PF => Rank(names[n]) = 0
      /\ AlgoType[names[n]] = C => Rank(names[n]) = 1
      /\ AlgoType[names[n]] = PS => Rank(names[n]) = 2
      /\ AlgoType[names[n]] = D => Rank(names[n]) = 3
      /\ AlgoType[names[n]] = B => Rank(names[n]) = 4
    BY <1>2, RankOf
<1>6. ASSUME Seen(B) PROVE ~WellFormed(names)
  <2>1. PICK i \in 1 .. pos : AlgoType[names[i]] = B
      BY <1>6 DEF Seen
  <2>2. names[i] \in Algo /\ Rank(names[i]) = 4
      BY <1>1, <2>1, RankOf DEF OrderInv
  <2>3. ~(4 < Rank(names[n]))
      BY <1>2, <1>5 DEF CompressorType
  <2> QED
      BY <1>4, <2>1, <2>2, <2>3, Types
<1>7. ASSUME Seen(D), AlgoType[names[n]] # B PROVE ~WellFormed(names)
  <2>1. PICK i \in 1 .. pos : AlgoType[names[i]] = D
      BY <1>7 DEF Seen
  <2>2. names[i] \in Algo /\ Rank(names[i]) = 3
      BY <1>1, <2>1, RankOf DEF OrderInv
  <2>3. ~(3 < Rank(names[n]))
      BY <1>2, <1>5, <1>7 DEF CompressorType
  <2> QED
      BY <1>4, <2>1, <2>2, <2>3, Types
<1>8. ASSUME Seen(C), AlgoType[names[n]] \in {PF, C} PROVE ~WellFormed(names)
  <2>1. PICK i \in 1 .. pos : AlgoType[names[i]] = C
      BY <1>8 DEF Seen
  <2>2. names[i] \in Algo /\ Rank(names[i]) = 1
      BY <1>1, <2>1, RankOf DEF OrderInv
  <2>3. ~(1 < Rank(names[n]))
      BY <1>5, <1>8
  <2> QED
      BY <1>4, <2>1, <2>2, <2>3, Types
(* A second preconditioner whose converter, if any, comes later.           *)
<1>9. ASSUME ~Seen(C), AlgoType[names[n]] = PS PROVE ~WellFormed(names)
  <2>1. SUFFICES ASSUME WellFormed(names) PROVE FALSE
      OBVIOUS
  <2>2. Has(names, PS)
      BY <1>2, <1>9 DEF Has
  <2>3. PICK j \in 1 .. Len(names) : AlgoType[names[j]] = C
      BY <2>1, <2>2 DEF WellFormed, Has
  <2>4. j \notin 1 .. pos /\ j # n
      BY <1>9, <2>3, Types DEF Seen
  <2>5. n < j
      BY <1>1, <2>3, <2>4
  <2>6. Rank(names[j]) = 1 /\ Rank(names[n]) = 2
      BY <1>3, <1>5, <1>9, <2>3, RankOf
  <2> QED
      BY <1>2, <1>9, <2>1, <2>3, <2>5, <2>6, Types DEF WellFormed
<1>10. /\ stage = 1 => Seen(C)
       /\ stage = 2 => Seen(D)
       /\ stage = 3 => Seen(B)
       /\ Seen(C) => stage >= 1
    BY <1>1 DEF OrderInv
<1>11. CASE stage = 3
    BY <1>6, <1>10, <1>11
<1>12. CASE stage = 2
  <2>1. AlgoType[names[n]] # B
      BY <1>2, <1>12, Types DEF Fits, CompressorType
  <2> QED
      BY <1>7, <1>10, <1>12, <2>1
<1>13. CASE stage = 1
  <2>1. AlgoType[names[n]] \in {PF, C}
      BY <1>2, <1>13, Types DEF Fits, CompressorType
  <2> QED
      BY <1>8, <1>10, <1>13, <2>1
<1>14. CASE stage = 0
  <2>1. AlgoType[names[n]] = PS
      BY <1>2, <1>14, Types DEF Fits, CompressorType
  <2> QED
      BY <1>9, <1>10, <1>14, <2>1
<1> QED
    BY <1>1, <1>11, <1>12, <1>13, <1>14

LEMMA RejectOrderInv == IInv /\ RejectOrder => IInv'
<1> SUFFICES ASSUME IInv, RejectOrder PROVE IInv'
    OBVIOUS
<1>1. /\ result' = "invalid_chain" /\ total_size' = total_size + 1
      /\ lossy' = lossy + (IF Token \in Lossy THEN 1 ELSE 0)
      /\ UNCHANGED <<owner, names, pos, place, precond_first_count,
                     precond_second_count, is_lossy, stage>>
      /\ pos < Len(names) /\ Token \in Algo /\ ~Fits
    BY DEF RejectOrder
<1>2. TypeOK'
    BY <1>1 DEF IInv, TypeOK
<1>3. OrderInv'
    BY <1>1 DEF IInv, OrderInv, Seen
<1>4. PlaceInv'
  <2>1. PlaceInv
      BY DEF IInv
  <2> QED
      BY <1>1, <2>1 DEF PlaceInv, WithinLimit, Taken
<1>5. LossyInv'
    BY <1>1 DEF LossyInv, LossyIsKnown
<1>6. ResultInv'
    BY <1>1, OutOfOrder DEF ResultInv, AcceptsWellFormed
<1> QED
    BY <1>2, <1>3, <1>4, <1>5, <1>6 DEF IInv

LEMMA RejectNameInv == IInv /\ RejectName => IInv'
<1> SUFFICES ASSUME IInv, RejectName PROVE IInv'
    OBVIOUS
<1>1. /\ result = "parsing" /\ result' = "einval"
      /\ pos < Len(names) /\ Token \notin Algo
      /\ UNCHANGED <<owner, names, pos, place, precond_first_count,
                     precond_second_count, total_size, is_lossy, stage, lossy>>
    BY DEF RejectName, Parsing
<1>2. TypeOK'
    BY <1>1 DEF IInv, TypeOK
<1>3. OrderInv'
    BY <1>1 DEF IInv, OrderInv, Seen
<1>4. PlaceInv'
  <2>1. PlaceInv
      BY DEF IInv
  <2> QED
      BY <1>1, <2>1 DEF PlaceInv, WithinLimit, Taken
<1>5. LossyInv'
    BY <1>1 DEF IInv, LossyInv, LossyIsKnown
<1>6. names \notin Seq(Algo)
  <2>1. pos + 1 \in 1 .. Len(names)
      BY <1>1, ChainAssumption DEF IInv, TypeOK
  <2> QED
      BY <1>1, <2>1, ElementOfSeq DEF Token
<1>7. ResultInv'
    BY <1>1, <1>6 DEF ResultInv, AcceptsWellFormed
<1> QED
    BY <1>2, <1>3, <1>4, <1>5, <1>7 DEF IInv

LEMMA FinishInv == IInv /\ Finish => IInv'
<1> SUFFICES ASSUME IInv, Finish PROVE IInv'
    OBVIOUS
<1>1. /\ result = "parsing" /\ pos = Len(names)
      /\ is_lossy' = (lossy > 0)
      /\ result' = IF total_size = 0 THEN "einval" ELSE "ok"
      /\ UNCHANGED <<owner, names, pos, place, precond_first_count,
                     precond_second_count, total_size, stage, lossy>>
    BY DEF Finish, Parsing
<1>2. TypeOK'
    BY <1>1 DEF IInv, TypeOK
<1>3. /\ OrderInv /\ total_size = pos /\ names \in Seq(Names)
      /\ pos \in Nat
    BY <1>1, ChainAssumption DEF IInv, OrderInv, TypeOK
<1>4. OrderInv'
    BY <1>1, <1>3 DEF OrderInv, Seen
<1>5. PlaceInv'
  <2>1. PlaceInv
      BY DEF IInv
  <2> QED
      BY <1>1, <2>1 DEF PlaceInv, WithinLimit, Taken
<1>6. LossyInv'
    BY <1>1 DEF IInv, LossyInv, LossyIsKnown
<1>7. names \in Seq(Algo)
  <2>1. names \in [1 .. Len(names) -> Algo]
    <3>1. names \in [1 .. Len(names) -> Names]
        BY <1>3, LenProperties
    <3>2. \A i \in 1 .. Len(names) : names[i] \in Algo
        BY <1>1, <1>3 DEF OrderInv
    <3> QED
        BY <3>1, <3>2
  <2> QED
      BY <1>1, <1>3, <2>1, SeqDef
<1>8. WellFormed(names)
    BY <1>1, <1>3 DEF WellFormed, Has, OrderInv, Seen
<1>9. ResultInv'
  <2>1. total_size = 0 => names = <<>>
      BY <1>1, <1>3, EmptySeq
  <2>2. total_size # 0 => pos > 0 /\ names # <<>>
      BY <1>1, <1>3, EmptySeq
  <2> QED
      BY <1>1, <1>7, <1>8, <2>1, <2>2 DEF ResultInv, AcceptsWellFormed
<1> QED
    BY <1>2, <1>4, <1>5, <1>6, <1>9 DEF IInv

LEMMA BeginsInv == IInv /\ (NewContext \/ NextLine) => IInv'
<1> SUFFICES ASSUME IInv, NewContext \/ NextLine PROVE IInv'
    OBVIOUS
<1>1. /\ place \in [Places -> Algo \cup {Null}] /\ is_lossy \in BOOLEAN
    BY DEF IInv, TypeOK
<1>2. CASE NewContext
  <2>1. PICK list \in Inputs : Begin(list)
      BY <1>2 DEF NewContext
  <2> QED
      BY <1>2, <2>1, BeginInv DEF NewContext
<1>3. CASE NextLine
  <2>1. PICK list \in Inputs : Begin(list)
      BY <1>3 DEF NextLine
  <2>2. owner' \in {"context", "config"} /\ owner' # "context"
      BY <1>3 DEF NextLine
  <2>3. place' \in [Places -> Algo \cup {Null}] /\ is_lossy' \in BOOLEAN
      BY <1>1, <1>3, ChainAssumption DEF NextLine
  <2> QED
      BY <2>1, <2>2, <2>3, BeginInv
<1> QED
    BY <1>2, <1>3

(* IInv holds in every state: it remembers what the tokens taken say about *)
(* the stage and about the places, which AcceptsWellFormed does not.       *)
THEOREM Inductive == Spec => []IInv
<1>1. Init => IInv
    BY ChainInit
<1>2. IInv /\ [Next]_vars => IInv'
  <2> SUFFICES ASSUME IInv, [Next]_vars PROVE IInv'
      OBVIOUS
  <2>1. CASE TakeFirst
      BY <2>1, TakeFirstInv
  <2>2. CASE TakeConverter
      BY <2>2, TakeConverterInv
  <2>3. CASE TakeSecond
      BY <2>3, TakeSecondInv
  <2>4. CASE TakeData
      BY <2>4, TakeDataInv
  <2>5. CASE TakeBytes
      BY <2>5, TakeBytesInv
  <2>6. CASE RejectName
      BY <2>6, RejectNameInv
  <2>7. CASE RejectOrder
      BY <2>7, RejectOrderInv
  <2>8. CASE Finish
      BY <2>8, FinishInv
  <2>9. CASE NewContext \/ NextLine
      BY <2>9, BeginsInv
  <2>10. CASE UNCHANGED vars
      BY <2>10 DEF vars, IInv, TypeOK, OrderInv, Seen, PlaceInv, WithinLimit,
                   Taken, LossyInv, LossyIsKnown, ResultInv, AcceptsWellFormed
  <2> QED
      BY <2>1, <2>2, <2>3, <2>4, <2>5, <2>6, <2>7, <2>8, <2>9, <2>10
         DEF Next, Parse
<1> QED
    BY <1>1, <1>2, PTL DEF Spec

(* The counters stay within the tokens taken and the places hold           *)
(* algorithms or nothing.                                                  *)
THEOREM TypeCorrect == Spec => []TypeOK
<1>1. IInv => TypeOK
    BY DEF IInv
<1> QED
    BY <1>1, Inductive, PTL

(* scilI_create_chain accepts a list of names if and only if all of them   *)
(* are registered and they are in order, whatever the memory held before.  *)
THEOREM ParserIsExact == Spec => []AcceptsWellFormed
<1>1. IInv => AcceptsWellFormed
    BY DEF IInv, ResultInv
<1> QED
    BY <1>1, Inductive, PTL

(* The is_lossy flag of an accepted chain is that of its algorithms, in a  *)
(* reused entry of the configuration too.                                  *)
THEOREM FlagIsRight == Spec => []LossyIsKnown
<1>1. IInv => LossyIsKnown
    BY DEF IInv, LossyInv
<1> QED
    BY <1>1, Inductive, PTL

-----------------------------------------------------------------------------
(* The sequence s spells the tokens behind the first n of the list.        *)
Spells(s, n) ==
    /\ s \in Seq(Algo \cup {Null})
    /\ \A i \in 1 .. Len(s) : s[i] = names[n + i]

(* Two pieces that continue each other are one longer piece.               *)
LEMMA Continue ==
    ASSUME NEW s, NEW t, NEW m \in Nat, Spells(s, 0), Len(s) = m, Spells(t, m)
    PROVE  Spells(s \o t, 0) /\ Len(s \o t) = m + Len(t)
<1> DEFINE S == Algo \cup {Null}
<1>1. s \in Seq(S) /\ t \in Seq(S)
    BY DEF Spells
<1> HIDE DEF S
<1>2. /\ s \o t \in Seq(S)
      /\ Len(s \o t) = Len(s) + Len(t)
      /\ \A i \in 1 .. Len(s) + Len(t) :
            (s \o t)[i] = IF i <= Len(s) THEN s[i] ELSE t[i - Len(s)]
    BY <1>1, ConcatProperties
<1>3. Len(t) \in Nat
    BY <1>1, LenProperties
<1>4. ASSUME NEW i \in 1 .. m + Len(t)
      PROVE  (s \o t)[i] = names[0 + i]
  <2>1. CASE i <= m
    <3>1. i \in 1 .. Len(s) /\ i \in 1 .. Len(s) + Len(t)
        BY <1>3, <2>1
    <3> QED
        BY <1>2, <2>1, <3>1 DEF Spells
  <2>2. CASE ~(i <= m)
    <3>1. i - m \in 1 .. Len(t) /\ m + (i - m) = i /\ 0 + i = i
        BY <1>3, <2>2
    <3>2. (s \o t)[i] = t[i - m]
        BY <1>2, <2>2
    <3> QED
        BY <3>1, <3>2 DEF Spells
  <2> QED
      BY <2>1, <2>2
<1> QED
    BY <1>2, <1>4 DEF Spells, S

(* A place that holds one algorithm or none.                               *)
LEMMA PresentSpells ==
    ASSUME NEW q, place[q] \in Algo \cup {Null}, NEW m \in Nat,
           place[q] # Null => place[q] = names[m + Taken(q)]
    PROVE  /\ Spells(Present(q), m)
           /\ Len(Present(q)) = Taken(q)
           /\ Taken(q) \in {0, 1}
<1>1. CASE place[q] = Null
  <2>1. Present(q) = <<>> /\ Taken(q) = 0
      BY <1>1 DEF Present, Taken
  <2> QED
      BY <2>1, EmptySeq DEF Spells
<1>2. CASE place[q] # Null
  <2>1. Present(q) = <<place[q]>> /\ Taken(q) = 1
      BY <1>2 DEF Present, Taken
  <2>2. <<place[q]>> \in Seq(Algo \cup {Null}) /\ Len(<<place[q]>>) = 1
      BY SMT
  <2> QED
      BY <1>2, <2>1, <2>2 DEF Spells
<1> QED
    BY <1>1, <1>2

LEMMA WalkSpells == IInv => RunsWhatWasAsked
<1> SUFFICES ASSUME IInv, owner = "context", result = "ok", WithinLimit
             PROVE  Walk = names /\ total_size = Len(Walk)
    BY DEF RunsWhatWasAsked
<1> DEFINE f  == precond_first_count
           n  == precond_second_count
           w1 == [i \in 1 .. f |-> place[First(i)]]
           w2 == w1 \o Present(Converter)
           v  == [i \in 1 .. n |-> place[Second(i)]]
           w3 == w2 \o v
           w4 == w3 \o Present(DataPlace)
           w5 == w4 \o Present(BytePlace)
           g  == f + Taken(Converter)
           h  == g + n
           k  == h + Taken(DataPlace)
<1>1. /\ f \in Nat /\ n \in Nat /\ pos \in Nat
      /\ pos = Len(names) /\ total_size = pos
      /\ place \in [Places -> Algo \cup {Null}]
      /\ names \in Seq(Algo \cup {Null})
  <2>1. names \in Seq(Algo)
      BY DEF IInv, ResultInv, AcceptsWellFormed
  <2>2. names \in Seq(Algo \cup {Null})
      BY <2>1, SeqMonotonic
  <2>3. pos \in Nat
      BY <2>1, LenProperties DEF IInv, TypeOK
  <2> QED
      BY <2>2, <2>3 DEF IInv, TypeOK, OrderInv, ResultInv
<1>2. /\ place[Converter] \in Algo \cup {Null}
      /\ place[DataPlace] \in Algo \cup {Null}
      /\ place[BytePlace] \in Algo \cup {Null}
      /\ \A i \in 1 .. f : place[First(i)] \in Algo \cup {Null}
      /\ \A i \in 1 .. n : place[Second(i)] \in Algo \cup {Null}
  <2>1. /\ \A i \in 1 .. f : i \in 1 .. Limit
        /\ \A i \in 1 .. n : i \in 1 .. Limit
      BY <1>1, ChainAssumption DEF WithinLimit
  <2> QED
      BY <1>1, <2>1, PlaceFacts, ChainAssumption
<1>3. /\ pos = k + Taken(BytePlace)
      /\ \A i \in 1 .. f : place[First(i)] = names[i]
      /\ place[Converter] # Null => place[Converter] = names[g]
      /\ \A i \in 1 .. n : place[Second(i)] = names[g + i]
      /\ place[DataPlace] # Null => place[DataPlace] = names[k]
      /\ place[BytePlace] # Null => place[BytePlace] = names[pos]
    BY DEF IInv, PlaceInv
<1>4. Spells(w1, 0) /\ Len(w1) = f
  <2>1. \A i \in 1 .. f : 0 + i = i
      OBVIOUS
  <2>2. w1 \in [1 .. f -> Algo \cup {Null}]
      BY <1>2
  <2>3. w1 \in Seq(Algo \cup {Null})
      BY <1>1, <2>2, SeqDef
  <2>4. Len(w1) = f
      BY <1>1, <2>2, <2>3, LenProperties
  <2> QED
      BY <1>3, <2>1, <2>3, <2>4 DEF Spells
<1>5. g \in Nat /\ Spells(w2, 0) /\ Len(w2) = g
  <2>1. /\ Spells(Present(Converter), f) /\ Taken(Converter) \in {0, 1}
        /\ Len(Present(Converter)) = Taken(Converter)
      BY <1>1, <1>2, <1>3, PresentSpells
  <2> HIDE DEF w1
  <2> QED
      BY <1>1, <1>4, <2>1, Continue
<1>6. Spells(v, g) /\ Len(v) = n
  <2>1. v \in [1 .. n -> Algo \cup {Null}]
      BY <1>2
  <2>2. v \in Seq(Algo \cup {Null})
      BY <1>1, <2>1, SeqDef
  <2>3. Len(v) = n
      BY <1>1, <2>1, <2>2, LenProperties
  <2> QED
      BY <1>3, <2>2, <2>3 DEF Spells
<1> HIDE DEF w1, w2, v
<1>7. h \in Nat /\ Spells(w3, 0) /\ Len(w3) = h
    BY <1>1, <1>5, <1>6, Continue
<1> HIDE DEF w3, g
<1>8. k \in Nat /\ Spells(w4, 0) /\ Len(w4) = k
  <2>1. /\ Spells(Present(DataPlace), h) /\ Taken(DataPlace) \in {0, 1}
        /\ Len(Present(DataPlace)) = Taken(DataPlace)
      BY <1>2, <1>3, <1>7, PresentSpells
  <2> QED
      BY <1>7, <2>1, Continue
<1> HIDE DEF w4, k
<1>9. Spells(w5, 0) /\ Len(w5) = pos
  <2>1. /\ Spells(Present(BytePlace), k)
        /\ Len(Present(BytePlace)) = Taken(BytePlace)
      BY <1>2, <1>3, <1>8, PresentSpells
  <2> QED
      BY <1>3, <1>8, <2>1, Continue
<1>10. Walk = w5
    BY DEF Walk, w4, w3, w2, w1, v
<1> HIDE DEF w5
<1>11. w5 = names
  <2>1. \A i \in 1 .. Len(w5) : w5[i] = names[i]
    <3>1. \A i \in 1 .. Len(w5) : 0 + i = i
        OBVIOUS
    <3> QED
        BY <1>9, <3>1 DEF Spells
  <2> QED
      BY <1>1, <1>9, <2>1, SeqEqual DEF Spells
<1> QED
    BY <1>1, <1>9, <1>10, <1>11

(* Walking the places of a context's chain runs the algorithms the user    *)
(* named, in that order, and total_size is their number.                   *)
THEOREM RunsTheList == Spec => []RunsWhatWasAsked
BY WalkSpells, Inductive, PTL

(* What a context hands to scil_compress is what ScilPipeline assumes of   *)
(* every chain.                                                            *)
THEOREM ChainsForThePipeline == Spec => []BuildsChain
<1>1. ASSUME IInv, result = "ok"
      PROVE  IsChain([stages |-> names, first |-> precond_first_count])
  <2>1. /\ names \in Seq(Algo) \ {<<>>} /\ WellFormed(names)
        /\ pos = Len(names) /\ precond_first_count \in 0 .. pos
      BY <1>1 DEF IInv, ResultInv, AcceptsWellFormed, TypeOK
  <2>2. \A i \in 1 .. Len(names) :
           AlgoType[names[i]] = PF <=> i <= precond_first_count
      BY <1>1, <2>1 DEF IInv, OrderInv
  <2> QED
      BY <2>1, <2>2 DEF IsChain
<1>2. IInv => BuildsChain
    BY <1>1 DEF BuildsChain
<1> QED
    BY <1>2, Inductive, PTL
=============================================================================
