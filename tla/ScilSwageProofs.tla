--------------------------- MODULE ScilSwageProofs ---------------------------
(***************************************************************************)
(* What is packed is read back, for every number of values, every number   *)
(* of bits and every word that fits: proofs about ScilSwage.               *)
(***************************************************************************)
EXTENDS ScilSwage, TLAPS

(* The bits of an earlier value end before those of a later one begin.     *)
LEMMA SlotsApart ==
    ASSUME NEW w \in Nat, NEW m \in Nat, NEW n \in Nat, m < n
    PROVE  /\ m * w \in Nat /\ n * w \in Nat
           /\ m * w + w <= n * w
<1>1. PICK d \in Nat : n = m + 1 + d
    <2>1. n - m - 1 \in Nat /\ n = m + 1 + (n - m - 1)
        OBVIOUS
    <2> QED  BY <2>1
<1>2. n * w = m * w + w + d * w /\ d * w \in Nat /\ m * w \in Nat
    BY <1>1
<1> QED  BY <1>2

(* The same for the end of the buffer. *)
LEMMA SlotInside ==
    ASSUME NEW w \in Nat, NEW m \in Nat, NEW n \in Nat, m <= n
    PROVE  m * w \in Nat /\ n * w \in Nat /\ m * w <= n * w
<1>1. CASE m < n  BY <1>1, SlotsApart
<1>2. CASE m = n  BY <1>2
<1> QED  BY <1>1, <1>2

(* The bytes of the current value, as linear facts. *)
LEMMA Bytes ==
    ASSUME NEW x \in Nat
    PROVE  /\ x \div 8 \in Nat
           /\ 8 * (x \div 8) <= x
           /\ x < 8 * (x \div 8) + 8
OBVIOUS

(* The numbers one pass of a loop works with. *)
LEMMA Numbers ==
    ASSUME TypeOK, i < Count
    PROVE  /\ i \in Index /\ i \in Nat
           /\ bits_per_value \in Nat /\ bits_per_value <= Word
           /\ bit_index \in Nat
           /\ bit_index = i * bits_per_value
           /\ bit_index + bits_per_value <= Count * bits_per_value
           /\ Count * bits_per_value \in Nat
           /\ Count * bits_per_value + 8 <= 8 * Size
           /\ (i + 1) * bits_per_value = bit_index + bits_per_value
<1>1. i \in Nat /\ Count \in Nat /\ bits_per_value \in Nat /\ bits_per_value <= Word
    BY SizesAssumption DEF TypeOK
<1>2. i * bits_per_value + bits_per_value <= Count * bits_per_value
      /\ i * bits_per_value \in Nat /\ Count * bits_per_value \in Nat
    BY <1>1, SlotsApart
<1>3. (i + 1) * bits_per_value = i * bits_per_value + bits_per_value
    BY <1>1
<1>4. bit_index = i * bits_per_value
    BY DEF TypeOK
<1>5. Count * bits_per_value + 8 <= 8 * Size
    BY SizesAssumption DEF TypeOK
<1> QED  BY <1>1, <1>2, <1>3, <1>4, <1>5 DEF Index

LEMMA Initially == Init => IInv
<1> SUFFICES ASSUME Init PROVE IInv
    OBVIOUS
<1>1. TypeOK
    <2>1. bits_per_value \in Nat /\ Count \in Nat
        BY SizesAssumption DEF Init
    <2>2. bit_index = i * bits_per_value
        BY <2>1 DEF Init
    <2> QED  BY <2>1, <2>2, SizesAssumption DEF Init, TypeOK, Bit
<1>2. PackedStays
    BY SizesAssumption DEF Init, PackedStays, Index
<1>3. OneByteBehind
    BY DEF Init, OneByteBehind
<1>4. \A n \in Index : ~(pc = "done" \/ (pc = "unswage" /\ n < i))
    BY DEF Init
<1> QED  BY <1>1, <1>2, <1>3, <1>4 DEF IInv

(* A pass of scil_swage. *)
LEMMA SwageStep ==
    ASSUME IInv, Swage
    PROVE  IInv'
<1> USE DEF IInv, Swage, Advance, args
<1>n. TypeOK /\ i < Count
    OBVIOUS
<1>1. /\ i \in Index /\ i \in Nat
      /\ bits_per_value \in Nat /\ bits_per_value <= Word
      /\ bit_index \in Nat
      /\ bit_index = i * bits_per_value
      /\ bit_index + bits_per_value <= Count * bits_per_value
      /\ Count * bits_per_value \in Nat
      /\ Count * bits_per_value + 8 <= 8 * Size
      /\ (i + 1) * bits_per_value = bit_index + bits_per_value
    BY <1>n, Numbers
<1>2. /\ EndByte \in Nat /\ StartByte \in Nat
      /\ 8 * EndByte <= bit_index + bits_per_value
      /\ bit_index + bits_per_value < 8 * EndByte + 8
      /\ 8 * StartByte <= bit_index
    BY <1>1, Bytes DEF EndByte, StartByte
<1>3. src[i] \in [Weight -> Bit]
    BY <1>1, SizesAssumption DEF TypeOK
<1>4. \A k : Digit(src[i], k) \in Bit
    BY <1>3 DEF Digit, Bit
<1>5. buf' = Store(src[i]) /\ buf \in [Address -> Bit]
    BY DEF TypeOK
<1>6. buf' \in [Address -> Bit]
    <2>1. \A a \in Address : buf[a] \in Bit
        BY <1>5
    <2> QED  BY <2>1, <1>4, <1>5 DEF Store, Bit
<1>7. TypeOK'
    <2>1. i' \in 0 .. Count
        BY <1>1, SizesAssumption
    <2>2. bit_index' = i' * bits_per_value'
        BY <1>1
    <2> QED  BY <2>1, <2>2, <1>6 DEF TypeOK
<1>8. OneByteBehind'
    <2> SUFFICES ASSUME NEW a \in Address, a >= 8 * ((Count * bits_per_value) \div 8) + 8
                 PROVE  buf'[a] = mem[a]
        BY DEF OneByteBehind
    <2>1. a > 8 * EndByte + 7 /\ ~(a < bit_index)
        <3>1. Count * bits_per_value < 8 * ((Count * bits_per_value) \div 8) + 8
            BY <1>1, Bytes
        <3>2. (bit_index + bits_per_value) \div 8 <= (Count * bits_per_value) \div 8
            BY <1>1
        <3>3. (Count * bits_per_value) \div 8 \in Nat /\ a \in Nat
            BY <1>1, SizesAssumption DEF Address
        <3> QED  BY <3>1, <3>2, <3>3, <1>1, <1>2 DEF EndByte
    <2>2. ~(a \in 8 * StartByte .. bit_index - 1) /\ ~(a \in bit_index .. 8 * EndByte + 7)
        BY <2>1, <1>1, <1>2
    <2>3. buf'[a] = buf[a]
        BY ONLY <2>2, <1>5, a \in Address DEF Store
    <2> QED  BY <2>3 DEF OneByteBehind
<1>9. PackedStays'
    <2> SUFFICES ASSUME Fits, NEW n \in Index, n < i + 1,
                        NEW k \in Weight, k < bits_per_value
                 PROVE  buf'[n * bits_per_value + bits_per_value - 1 - k] = src[n][k]
        <3>1. Fits' => Fits
            BY DEF Fits
        <3>2. pc' = "swage" /\ i' = i + 1 /\ src' = src /\ bits_per_value' = bits_per_value
            OBVIOUS
        <3>3. \A n \in Index : n < i + 1 \/ n >= i'
            BY <3>2, <1>1 DEF Index
        <3>4. \A n \in Index : Fits /\ n < i + 1 => Stored(n)'
            BY <3>2 DEF Stored
        <3> QED  BY ONLY <3>1, <3>2, <3>3, <3>4 DEF PackedStays
    <2> DEFINE a == n * bits_per_value + bits_per_value - 1 - k
    <2>0. n \in Nat /\ k \in Nat /\ k < Word
        BY SizesAssumption DEF Index, Weight
    <2>1. n * bits_per_value \in Nat /\ n * bits_per_value + bits_per_value <= Count * bits_per_value
        <3>1. n < Count /\ Count \in Nat
            BY SizesAssumption DEF Index
        <3> QED  BY <3>1, <2>0, <1>1, SlotsApart
    <2>2. a \in Address
        BY <2>0, <2>1, <1>1, SizesAssumption DEF Address
    <2>3. CASE n = i
        <3>1. a = bit_index + bits_per_value - 1 - k
            BY <2>3, <1>1
        <3>2. a \in bit_index .. 8 * EndByte + 7 /\ bits_per_value - 1 - (a - bit_index) = k
            BY <3>1, <2>0, <1>1, <1>2
        <3>3. ~(a \in 8 * StartByte .. bit_index - 1)
            BY <3>2, <1>1, <1>2, <2>2 DEF Address
        <3> HIDE DEF a
        <3>4. buf'[a] = Digit(src[i], k)
            BY ONLY <3>2, <3>3, <2>2, <1>5 DEF Store
        <3> QED  BY <3>4, <2>3 DEF a, Digit
    <2>4. CASE n < i
        <3>1. n * bits_per_value + bits_per_value <= bit_index
            BY <2>4, <2>0, <1>1, SlotsApart
        <3>2. a \in Int /\ a < bit_index
            BY <3>1, <2>0, <2>1, <1>1
        <3>3. buf[a] = src[n][k]
            BY <2>4, <1>1, <2>0 DEF PackedStays, Stored
        <3> DEFINE w == bits_per_value - 1 - (a - bit_index)
        <3>4. w \in Int /\ w >= bits_per_value
            BY <3>2, <1>1
        <3>5. Digit(src[i], w) = 0
            BY <3>4, <1>1 DEF Digit, Fits
        <3> HIDE DEF a
        <3>6. ~(a \in bit_index .. 8 * EndByte + 7)
            BY <3>2, <1>1, <1>2
        <3>7. buf'[a] = buf[a]
            BY ONLY <3>5, <3>6, <2>2, <1>5 DEF Store, w
        <3> QED  BY <3>7, <3>3 DEF a
    <2>5. n < i \/ n = i
        BY <2>0, <1>1
    <2> QED  BY <2>3, <2>4, <2>5
<1>10. \A n \in Index : ~(pc' = "done" \/ (pc' = "unswage" /\ n < i'))
    OBVIOUS
<1> QED  BY <1>7, <1>8, <1>9, <1>10

(* A pass of scil_unswage. *)
LEMMA UnswageStep ==
    ASSUME IInv, Unswage
    PROVE  IInv'
<1> USE DEF IInv, Unswage, Advance, args
<1>n. TypeOK /\ i < Count
    OBVIOUS
<1>1. /\ i \in Index /\ i \in Nat
      /\ bits_per_value \in Nat /\ bits_per_value <= Word
      /\ bit_index \in Nat
      /\ bit_index = i * bits_per_value
      /\ bit_index + bits_per_value <= Count * bits_per_value
      /\ Count * bits_per_value \in Nat
      /\ Count * bits_per_value + 8 <= 8 * Size
      /\ (i + 1) * bits_per_value = bit_index + bits_per_value
    BY <1>n, Numbers
<1>2. /\ EndByte \in Nat
      /\ bit_index + bits_per_value < 8 * EndByte + 8
      /\ 8 * EndByte <= bit_index + bits_per_value
    BY <1>1, Bytes DEF EndByte
<1>3. Load \in [Weight -> Bit]
    <2>1. \A a : a \in bit_index .. 8 * EndByte + 7 => a \in Address
        BY <1>1, <1>2, SizesAssumption DEF Address
    <2>2. buf \in [Address -> Bit]
        BY DEF TypeOK
    <2> QED  BY <2>1, <2>2 DEF Load, Bit
<1>4. TypeOK'
    <2>1. i' \in 0 .. Count
        BY <1>1, SizesAssumption
    <2>2. bit_index' = i' * bits_per_value'
        BY <1>1
    <2> QED  BY <2>1, <2>2, <1>3 DEF TypeOK
<1>5. OneByteBehind' /\ PackedStays'
    BY DEF OneByteBehind, PackedStays, Stored, Fits
<1>6. Fits' => \A n \in Index : (pc' = "done" \/ (pc' = "unswage" /\ n < i')) => out'[n] = src'[n]
    <2> SUFFICES ASSUME Fits, NEW n \in Index, n < i + 1
                 PROVE  out'[n] = src[n]
        BY DEF Fits
    <2>1. CASE n # i
        <3>1. n < i
            BY <2>1, <1>1 DEF Index
        <3> QED  BY <3>1, <2>1, <1>1 DEF TypeOK
    <2>2. CASE n = i
        <3>1. out'[i] = Load
            BY <1>1 DEF TypeOK
        <3>2. \A k \in Weight : Load[k] = src[i][k]
            <4> TAKE k \in Weight
            <4>0. k \in Nat /\ k < Word
                BY SizesAssumption DEF Weight
            <4>1. CASE k < bits_per_value
                <5>1. bit_index + bits_per_value - 1 - k \in bit_index .. 8 * EndByte + 7
                    BY <4>0, <4>1, <1>1, <1>2
                <5>2. Stored(i)
                    BY <1>1 DEF PackedStays
                <5> QED  BY <5>1, <5>2, <4>1, <1>1 DEF Load, Stored
            <4>2. CASE k >= bits_per_value
                <5>1. ~(bit_index + bits_per_value - 1 - k \in bit_index .. 8 * EndByte + 7)
                    BY <4>0, <4>2, <1>1, <1>2
                <5>2. src[i][k] = 0
                    BY <4>2, <1>1 DEF Fits
                <5> QED  BY <5>1, <5>2 DEF Load
            <4> QED  BY <4>0, <4>1, <4>2, <1>1
        <3>3. src[i] \in [Weight -> Bit]
            BY <1>1, SizesAssumption DEF TypeOK
        <3> QED  BY <3>1, <3>2, <3>3, <1>3, <2>2
    <2> QED  BY <2>1, <2>2
<1> QED  BY <1>4, <1>5, <1>6

LEMMA ReturnStep ==
    ASSUME IInv, Return("swage", "unswage") \/ Return("unswage", "done")
    PROVE  IInv'
<1> USE DEF IInv, Return, args
<1>0. Count \in Nat /\ bits_per_value \in Nat /\ i = Count
    BY SizesAssumption DEF TypeOK
<1>1. TypeOK'
    <2>1. bit_index' = i' * bits_per_value'
        BY <1>0
    <2> QED  BY <2>1, <1>0 DEF TypeOK
<1>2. OneByteBehind'
    BY DEF OneByteBehind
<1>3. \A n \in Index : n < Count
    BY <1>0 DEF Index
<1>4. PackedStays'
    BY <1>0, <1>3 DEF PackedStays, Stored, Fits, Index
<1>5. Fits' => \A n \in Index : (pc' = "done" \/ (pc' = "unswage" /\ n < i')) => out'[n] = src'[n]
    BY <1>0, <1>3 DEF Fits, Index
<1> QED  BY <1>1, <1>2, <1>4, <1>5

(* The inductive invariant: the values packed so far stand in the buffer,  *)
(* and those unpacked so far are what they were.                           *)
THEOREM Inductive == Spec => []IInv
<1>1. IInv /\ [Next]_vars => IInv'
    <2> SUFFICES ASSUME IInv, [Next]_vars PROVE IInv'
        OBVIOUS
    <2>1. CASE Swage  BY <2>1, SwageStep
    <2>2. CASE Unswage  BY <2>2, UnswageStep
    <2>3. CASE Return("swage", "unswage") \/ Return("unswage", "done")  BY <2>3, ReturnStep
    <2>4. CASE UNCHANGED vars
        BY <2>4 DEF IInv, TypeOK, PackedStays, Stored, Fits, OneByteBehind, vars, args
    <2> QED  BY <2>1, <2>2, <2>3, <2>4 DEF Next
<1> QED  BY Initially, <1>1, PTL DEF Spec

(* scil_unswage undoes scil_swage for every count and every width. *)
THEOREM UnswageUndoesSwage == Spec => []RoundTrip
<1>1. IInv => RoundTrip
    <2> SUFFICES ASSUME IInv, pc = "done", Fits PROVE out = src
        BY DEF RoundTrip
    <2>1. \A n \in Index : out[n] = src[n]
        BY DEF IInv
    <2>2. out \in [Index -> [Weight -> Bit]] /\ src \in [Index -> Sources]
        BY DEF IInv, TypeOK
    <2> QED  BY <2>1, <2>2
<1> QED  BY <1>1, Inductive, PTL

(* No more than one byte behind the packed bits is ever written. *)
THEOREM AtMostOneByteBehind == Spec => []OneByteBehind
<1>1. IInv => OneByteBehind
    BY DEF IInv
<1> QED  BY <1>1, Inductive, PTL

(* What is packed stays packed. *)
THEOREM PackedValuesStay == Spec => []PackedStays
<1>1. IInv => PackedStays
    BY DEF IInv
<1> QED  BY <1>1, Inductive, PTL
=============================================================================
