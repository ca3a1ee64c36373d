--------------------------- MODULE ScilDictProofs ---------------------------
(***************************************************************************)
(* Proofs about ScilDict, for every set of keys and values, every hash     *)
(* function and every number of elements.                                  *)
(***************************************************************************)
EXTENDS ScilDict, TLAPS

LEMMA PointerNat ==
    /\ \A p \in Pointer : p \in Nat
    /\ \A n \in Element : n \in Pointer /\ n > 0 /\ n # NULL
    /\ NULL \in Pointer /\ NULL = 0
BY DictAssumption DEF Pointer, Element, NULL

(* Live elements are elements, and their keys have buckets. *)
LEMMA LiveElement ==
    ASSUME TypeOK
    PROVE  /\ \A n \in live : n \in Element /\ n \in Nat /\ n > 0 /\ n <= count
           /\ \A n \in Element : key[n] \in Key /\ Hash[key[n]] \in Bucket
           /\ Hash[k] \in Bucket
           /\ \A n \in Element : next[n] \in Nat
           /\ \A b \in Bucket : elem[b] \in Nat
           /\ element \in Nat /\ previous \in Nat
           /\ \A n \in Element : n \in Nat
<1>1. \A n \in live : n \in Element /\ n \in Nat /\ n > 0 /\ n <= count
  <2> SUFFICES ASSUME NEW n \in live
               PROVE  n \in Element /\ n \in Nat /\ n > 0 /\ n <= count
    OBVIOUS
  <2>1. n \in 1 .. count /\ count \in 0 .. MaxElements /\ MaxElements \in Nat
    BY DictAssumption DEF TypeOK
  <2> QED
    BY <2>1 DEF Element
<1>2. \A n \in Element : key[n] \in Key /\ next[n] \in Pointer
  BY DEF TypeOK
<1>3. \A b \in Bucket : elem[b] \in Pointer
  BY DEF TypeOK
<1>4. element \in Pointer /\ previous \in Pointer /\ k \in Key
  BY DEF TypeOK
<1>5. \A key1 \in Key : Hash[key1] \in Bucket
  BY DictAssumption
<1>6. \A n \in Element : n \in Nat
  BY PointerNat
<1> QED
  BY <1>1, <1>2, <1>3, <1>4, <1>5, <1>6, PointerNat

LEMMA InvInit == Init => IInv
<1> SUFFICES ASSUME Init PROVE IInv
  OBVIOUS
<1>1. TypeOK
  BY DictAssumption, PointerNat DEF Init, TypeOK
<1>2. LinkInv
  BY DEF Init, LinkInv
<1>3. DistinctInv /\ SearchInv
  BY DEF Init, DistinctInv, SearchInv, Searching
<1> QED
  BY <1>1, <1>2, <1>3 DEF IInv, Init

-----------------------------------------------------------------------------
(* Calls and searches. *)

LEMMA InvCreate ==
    ASSUME IInv, Create
    PROVE  IInv'
<1>1. TypeOK'
  BY PointerNat DEF Create, Zeroed, IInv, TypeOK
<1>2. LinkInv'
  BY DEF Create, Zeroed, IInv, LinkInv
<1>3. DistinctInv' /\ SearchInv'
  BY DEF Create, IInv, DistinctInv, SearchInv, Searching
<1> QED
  BY <1>1, <1>2, <1>3 DEF IInv, Create

LEMMA InvDestroy ==
    ASSUME IInv, Destroy
    PROVE  IInv'
<1>1. TypeOK'
  BY DEF Destroy, IInv, TypeOK
<1>2. DistinctInv' /\ SearchInv'
  BY DEF Destroy, IInv, DistinctInv, SearchInv, Searching
<1> QED
  BY <1>1, <1>2 DEF IInv, Destroy

LEMMA InvCall ==
    ASSUME IInv, Call
    PROVE  IInv'
<1> USE DEF IInv
<1>1. TypeOK'
  BY DictAssumption, PointerNat DEF Call, TypeOK, table
<1>2. LinkInv' /\ DistinctInv'
  BY DEF Call, LinkInv, DistinctInv, SameBucket, table
<1>3. SearchInv'
  <2>1. /\ element' = elem[Hash[k']] /\ previous' = NULL /\ k' \in Key
        /\ live' = live /\ key' = key /\ elem' = elem /\ next' = next /\ op = "idle"
    BY DEF Call, table
  <2>2. LinkInv /\ Hash[k'] \in Bucket
    BY <2>1, DictAssumption
  <2>3. element' # NULL => element' \in live /\ Hash[key[element']] = Hash[k']
    BY <2>1, <2>2 DEF LinkInv
  <2>4. ASSUME NEW n \in live, n > element', key[n] = k'
        PROVE  FALSE
    <3>1. n <= elem[Hash[key[n]]]
      BY <2>2 DEF LinkInv
    <3>2. n <= element'
      BY <2>1, <2>4, <3>1
    <3>3. n \in Nat /\ element' \in Nat
      BY <2>1, <2>2, LiveElement
    <3> QED
      BY <2>4, <3>2, <3>3
  <2> QED
    BY <2>1, <2>3, <2>4 DEF SearchInv
<1> QED
  BY <1>1, <1>2, <1>3 DEF Call

LEMMA InvAdvance ==
    ASSUME IInv, Advance
    PROVE  IInv'
<1> USE DEF IInv
<1>1. /\ element' = next[element] /\ previous' = element /\ k' = k /\ op' = op
      /\ live' = live /\ key' = key /\ elem' = elem /\ next' = next
      /\ value' = value /\ count' = count /\ v' = v
      /\ Searching /\ element # NULL /\ key[element] # k
  BY DEF Advance, table, Found, NotFound
<1>2. LinkInv /\ SearchInv /\ DistinctInv
  BY <1>1 DEF Searching
<1>3. /\ element \in live /\ Hash[key[element]] = Hash[k]
      /\ \A n \in live : n > element => key[n] # k
  BY <1>1, <1>2 DEF SearchInv
<1>4. element \in Element
  BY <1>3, LiveElement
<1>5. TypeOK'
  BY <1>1, <1>4, PointerNat DEF TypeOK
<1>6. LinkInv' /\ DistinctInv'
  BY <1>1, <1>2 DEF LinkInv, DistinctInv, SameBucket
<1>7. next[element] # NULL => next[element] \in live /\ Hash[key[next[element]]] = Hash[k]
  BY <1>2, <1>3 DEF LinkInv, SameBucket
<1>8. ASSUME NEW n \in live, n > next[element], key[n] = k
      PROVE  FALSE
  <2>1. n < element
    BY <1>1, <1>3, <1>8, LiveElement
  <2>2. SameBucket(n, element)
    BY <1>3, <1>8 DEF SameBucket
  <2>3. n <= next[element]
    BY <1>2, <1>3, <2>1, <2>2 DEF LinkInv
  <2> QED
    BY <1>4, <1>8, <2>3, LiveElement
<1>9. SearchInv'
  BY <1>1, <1>3, <1>7, <1>8 DEF SearchInv
<1> QED
  BY <1>1, <1>5, <1>6, <1>9 DEF Searching

-----------------------------------------------------------------------------
(* The ends of the calls.                                                  *)

(* A return that leaves the lists alone. *)
LEMMA InvSameLists ==
    ASSUME IInv, op # "closed",
           elem' = elem, key' = key, next' = next, live' = live, count' = count,
           value' \in [Element -> Value \cup {NoValue}],
           op' = "idle", k' = k, v' = v, element' = NULL, previous' = NULL
    PROVE  IInv'
<1>1. TypeOK'
  BY PointerNat DEF IInv, TypeOK
<1>2. LinkInv' /\ DistinctInv'
  BY DEF IInv, LinkInv, DistinctInv, SameBucket
<1> QED
  BY <1>1, <1>2 DEF IInv, SearchInv, Searching

LEMMA InvGet ==
    ASSUME IInv, Get \/ PutFails \/ RemoveNothing
    PROVE  IInv'
BY InvSameLists DEF Get, PutFails, RemoveNothing, Return, table, IInv, TypeOK

LEMMA InvPutReplace ==
    ASSUME IInv, PutReplace
    PROVE  IInv'
<1>1. value' \in [Element -> Value \cup {NoValue}]
  BY DEF PutReplace, IInv, TypeOK
<1> QED
  BY <1>1, InvSameLists DEF PutReplace, Return

LEMMA InvPutNew ==
    ASSUME IInv, PutNew
    PROVE  IInv'
<1> DEFINE n == count + 1
           b == Hash[k]
<1>1. TypeOK /\ LinkInv /\ DistinctInv /\ SearchInv /\ op = "put" /\ element = NULL
  BY DEF IInv, PutNew, Return, NotFound
<1>2. /\ count \in Nat /\ n \in Nat /\ n > count /\ n \in Element
      /\ count' \in 0 .. MaxElements
      /\ live' \subseteq 1 .. count'
  BY <1>1, DictAssumption DEF TypeOK, PutNew, Element
<1>3. /\ live' = live \cup {n} /\ count' = n
      /\ key' = [key EXCEPT ![n] = k]
      /\ elem' = [elem EXCEPT ![b] = n]
      /\ next' = [next EXCEPT ![n] = elem[b]]
      /\ op' = "idle" /\ k' = k /\ v' = v /\ element' = NULL /\ previous' = NULL
  BY DEF PutNew, Link, Return
<1>4. value' \in [Element -> Value \cup {NoValue}]
  BY <1>1, <1>2 DEF PutNew, TypeOK
<1>5. /\ \A m \in live : m \in Element /\ m \in Nat /\ m > 0 /\ m < n
      /\ b \in Bucket
  BY <1>1, <1>2, LiveElement
<1>6. TypeOK'
  <2>1. elem' \in [Bucket -> Pointer] /\ key' \in [Element -> Key] /\ next' \in [Element -> Pointer]
    BY <1>1, <1>2, <1>3, <1>5, PointerNat DEF TypeOK
  <2> QED
    BY <1>1, <1>2, <1>3, <1>4, <2>1, PointerNat DEF TypeOK
<1>7. /\ \A m \in live : key'[m] = key[m] /\ next'[m] = next[m]
      /\ key'[n] = k /\ next'[n] = elem[b]
      /\ elem'[b] = n
      /\ \A c \in Bucket : c # b => elem'[c] = elem[c]
  BY <1>1, <1>2, <1>3, <1>5 DEF TypeOK
<1>8. \A m \in live : key[m] # k
  BY <1>1, <1>5 DEF SearchInv, Searching, NULL
<1> HIDE DEF n, b
<1>9. DistinctInv'
  BY <1>1, <1>3, <1>7, <1>8 DEF DistinctInv
<1>10. LinkInv'
  <2>1. ASSUME NEW c \in Bucket, elem'[c] # NULL
        PROVE  elem'[c] \in live' /\ Hash[key'[elem'[c]]] = c
    BY <1>1, <1>3, <1>7, <2>1 DEF LinkInv, b
  <2>2. ASSUME NEW m \in live'
        PROVE  m <= elem'[Hash[key'[m]]]
    <3>1. CASE m = n
      BY <1>2, <1>7, <3>1 DEF b
    <3>2. CASE m \in live /\ Hash[key[m]] = b
      BY <1>2, <1>5, <1>7, <3>2
    <3>3. CASE m \in live /\ Hash[key[m]] # b
      BY <1>1, <1>5, <1>7, <3>3, LiveElement DEF LinkInv
    <3> QED
      BY <1>3, <3>1, <3>2, <3>3
  <2>3. ASSUME NEW m \in live', next'[m] # NULL
        PROVE  next'[m] \in live' /\ next'[m] < m /\ Hash[key'[next'[m]]] = Hash[key'[m]]
    <3>1. CASE m = n
      BY <1>1, <1>5, <1>3, <1>7, <2>3, <3>1 DEF LinkInv, b
    <3>2. CASE m \in live
      BY <1>1, <1>3, <1>7, <2>3, <3>2 DEF LinkInv, SameBucket
    <3> QED
      BY <1>3, <3>1, <3>2
  <2>4. ASSUME NEW m \in live', NEW j \in live', Hash[key'[m]] = Hash[key'[j]], m < j
        PROVE  m <= next'[j]
    <3>1. m \in live
      BY <1>2, <1>3, <1>5, <2>4
    <3>2. CASE j = n
      BY <1>1, <1>7, <2>4, <3>1, <3>2 DEF LinkInv, b
    <3>3. CASE j \in live
      BY <1>1, <1>7, <2>4, <3>1, <3>3 DEF LinkInv, SameBucket
    <3> QED
      BY <1>3, <3>2, <3>3
  <2> QED
    BY <2>1, <2>2, <2>3, <2>4 DEF LinkInv, SameBucket
<1> QED
  BY <1>3, <1>6, <1>9, <1>10 DEF IInv, SearchInv, Searching

LEMMA InvRemoveFound ==
    ASSUME IInv, RemoveFound
    PROVE  IInv'
<1> DEFINE e == element
           b == Hash[k]
           p == previous
<1>1. TypeOK /\ LinkInv /\ DistinctInv /\ SearchInv /\ Searching
  BY DEF IInv, RemoveFound, Return, Searching
<1>2. e # NULL /\ key[e] = k /\ e \in live /\ Hash[key[e]] = b
  BY <1>1 DEF RemoveFound, Found, SearchInv
<1>3. /\ live' = live \ {e} /\ key' = key /\ count' = count /\ value' = value
      /\ op' = "idle" /\ k' = k /\ v' = v /\ element' = NULL /\ previous' = NULL
  BY DEF RemoveFound, Return
<1>4. /\ \A m \in live : m \in Element /\ m \in Nat /\ m > 0 /\ Hash[key[m]] \in Bucket
      /\ \A m \in live : next[m] \in Nat /\ next[m] \in Pointer
      /\ \A c \in Bucket : elem[c] \in Nat
      /\ b \in Bucket
  BY <1>1, LiveElement DEF TypeOK
<1>5. DistinctInv'
  BY <1>1, <1>3 DEF DistinctInv
<1>6. next[e] # NULL => next[e] \in live' /\ next[e] < e /\ Hash[key[next[e]]] = b
  BY <1>1, <1>2, <1>3, <1>4 DEF LinkInv, SameBucket
<1>7. \A m \in live : Hash[key[m]] = b /\ m < e => m <= next[e]
  BY <1>1, <1>2 DEF LinkInv, SameBucket
<1>8. CASE p = NULL
  <2>1. elem' = [elem EXCEPT ![b] = next[e]] /\ next' = next /\ e = elem[b]
    BY <1>1, <1>8 DEF RemoveFound, Unlink, SearchInv
  <2>2. TypeOK'
    BY <1>1, <1>2, <1>3, <1>4, <2>1, PointerNat DEF TypeOK
  <2>3. elem'[b] = next[e] /\ \A c \in Bucket : c # b => elem'[c] = elem[c]
    BY <1>1, <1>4, <2>1 DEF TypeOK
  <2> HIDE DEF e, b, p
  <2>4. ASSUME NEW c \in Bucket, elem'[c] # NULL
        PROVE  elem'[c] \in live' /\ Hash[key'[elem'[c]]] = c
    BY <1>1, <1>2, <1>3, <1>6, <2>3, <2>4 DEF LinkInv
  <2>5. ASSUME NEW m \in live'
        PROVE  m <= elem'[Hash[key'[m]]]
    <3>1. m \in live /\ m # e /\ m <= elem[Hash[key[m]]]
      BY <1>1, <1>3, <2>5 DEF LinkInv
    <3>2. CASE Hash[key[m]] = b
      BY <1>2, <1>3, <1>4, <1>7, <2>1, <2>3, <3>1, <3>2
    <3>3. CASE Hash[key[m]] # b
      BY <1>3, <1>4, <2>3, <3>1, <3>3
    <3> QED
      BY <3>2, <3>3
  <2>6. ASSUME NEW m \in live', next'[m] # NULL
        PROVE  next'[m] \in live' /\ next'[m] < m /\ Hash[key'[next'[m]]] = Hash[key'[m]]
    <3>1. m \in live /\ next[m] \in live /\ next[m] < m /\ Hash[key[next[m]]] = Hash[key[m]]
      BY <1>1, <1>3, <2>1, <2>6 DEF LinkInv, SameBucket
    <3>2. m <= elem[Hash[key[m]]]
      BY <1>1, <3>1 DEF LinkInv
    <3>3. next[m] # e
      BY <1>2, <1>4, <2>1, <3>1, <3>2
    <3> QED
      BY <1>3, <2>1, <3>1, <3>3
  <2>7. \A m, n \in live' : SameBucket(m, n)' /\ m < n => m <= next'[n]
    BY <1>1, <1>3, <2>1 DEF LinkInv, SameBucket
  <2>8. LinkInv'
    BY <2>4, <2>5, <2>6, <2>7 DEF LinkInv, SameBucket
  <2> QED
    BY <1>3, <1>5, <2>2, <2>8 DEF IInv, SearchInv, Searching
<1>9. CASE p # NULL
  <2>1. elem' = elem /\ next' = [next EXCEPT ![p] = next[e]]
    BY <1>9 DEF RemoveFound, Unlink
  <2>2. p \in live /\ Hash[key[p]] = b /\ next[p] = e /\ e < p
    BY <1>1, <1>2, <1>9 DEF SearchInv, LinkInv
  <2>3. TypeOK'
    BY <1>1, <1>2, <1>3, <1>4, <2>1, <2>2, PointerNat DEF TypeOK
  <2>4. next'[p] = next[e] /\ \A m \in live : m # p => next'[m] = next[m]
    BY <1>1, <1>4, <2>1, <2>2 DEF TypeOK
  <2> HIDE DEF e, b, p
  <2>5. ASSUME NEW c \in Bucket, elem'[c] # NULL
        PROVE  elem'[c] \in live' /\ Hash[key'[elem'[c]]] = c
    <3>1. elem[c] \in live /\ Hash[key[elem[c]]] = c
      BY <1>1, <2>1, <2>5 DEF LinkInv
    <3>2. p <= elem[b]
      BY <1>1, <2>2 DEF LinkInv
    <3>3. elem[c] # e
      BY <1>2, <1>4, <2>2, <3>1, <3>2
    <3> QED
      BY <1>3, <2>1, <3>1, <3>3
  <2>6. \A m \in live' : m <= elem'[Hash[key'[m]]]
    BY <1>1, <1>3, <2>1 DEF LinkInv
  <2>7. ASSUME NEW m \in live', next'[m] # NULL
        PROVE  next'[m] \in live' /\ next'[m] < m /\ Hash[key'[next'[m]]] = Hash[key'[m]]
    <3>1. CASE m = p
      BY <1>2, <1>3, <1>4, <1>6, <2>2, <2>4, <2>7, <3>1
    <3>2. CASE m # p
      <4>1. /\ m \in live /\ next'[m] = next[m] /\ next[m] \in live /\ next[m] < m
            /\ Hash[key[next[m]]] = Hash[key[m]]
        BY <1>1, <1>3, <2>4, <2>7, <3>2 DEF LinkInv, SameBucket
      <4>2. ASSUME next[m] = e PROVE FALSE
        <5>1. Hash[key[m]] = Hash[key[p]]
          BY <1>2, <2>2, <4>1, <4>2
        <5>2. CASE m < p
          BY <1>1, <1>2, <1>4, <2>2, <4>1, <4>2, <5>1, <5>2 DEF LinkInv, SameBucket
        <5>3. CASE p < m
          BY <1>1, <1>2, <1>4, <2>2, <4>1, <4>2, <5>1, <5>3 DEF LinkInv, SameBucket
        <5> QED
          BY <1>4, <2>2, <3>2, <4>1, <5>2, <5>3
      <4> QED
        BY <1>3, <4>1, <4>2
    <3> QED
      BY <3>1, <3>2
  <2>8. ASSUME NEW m \in live', NEW n \in live', Hash[key'[m]] = Hash[key'[n]], m < n
        PROVE  m <= next'[n]
    <3>1. m \in live /\ n \in live /\ m # e /\ m <= next[n] /\ Hash[key[m]] = Hash[key[n]]
      BY <1>1, <1>3, <2>8 DEF LinkInv, SameBucket
    <3>2. CASE n = p
      BY <1>2, <1>4, <1>7, <2>2, <2>4, <3>1, <3>2
    <3>3. CASE n # p
      BY <2>4, <3>1, <3>3
    <3> QED
      BY <3>2, <3>3
  <2>9. LinkInv'
    BY <2>5, <2>6, <2>7, <2>8 DEF LinkInv, SameBucket
  <2> QED
    BY <1>3, <1>5, <2>3, <2>9 DEF IInv, SearchInv, Searching
<1> QED
  BY <1>8, <1>9

-----------------------------------------------------------------------------

LEMMA InvNext == IInv /\ [Next]_vars => IInv'
<1> SUFFICES ASSUME IInv, [Next]_vars PROVE IInv'
  OBVIOUS
<1>1. CASE UNCHANGED vars
  BY <1>1 DEF vars, table, IInv, TypeOK, LinkInv, DistinctInv, SearchInv, Searching, SameBucket
<1>2. CASE Next
  BY <1>2, InvCreate, InvDestroy, InvCall, InvAdvance, InvGet, InvPutReplace, InvPutNew,
     InvRemoveFound DEF Next, Step
<1> QED
  BY <1>1, <1>2

(* The lists of the dictionary stay lists: every bucket is linked from its *)
(* newest element to its oldest, no key is there twice, and a search has   *)
(* left no element of its key behind.                                      *)
THEOREM Inductive == Spec => []IInv
<1>1. IInv /\ [Next]_vars => IInv'
  BY InvNext
<1> QED
  BY InvInit, <1>1, PTL DEF Spec

(* A call of the dictionary never follows a pointer to a freed element, nor *)
(* writes through one.                                                      *)
THEOREM PointersAreLive == Spec => []NoDangling
<1>1. IInv => NoDangling
  BY DEF IInv, SearchInv, NoDangling
<1> QED
  BY Inductive, <1>1, PTL

-----------------------------------------------------------------------------
(* The dictionary implements the map.                                      *)

(* What a key is mapped to, of the live elements L, their keys and values. *)
WithKey(L, K, key1) == {n \in L : K[n] = key1}
Lookup(L, K, V, key1) ==
    IF WithKey(L, K, key1) = {} THEN Missing
    ELSE V[CHOOSE n \in WithKey(L, K, key1) : TRUE]

LEMMA MapIsLookup ==
    /\ Map = [key1 \in Key |-> Lookup(live, key, value, key1)]
    /\ Map' = [key1 \in Key |-> Lookup(live', key', value', key1)]
BY DEF Map, In, Lookup, WithKey

LEMMA LookupSame ==
    ASSUME NEW L, NEW K, NEW V, NEW L1, NEW K1, NEW V1, NEW key1,
           WithKey(L, K, key1) = WithKey(L1, K1, key1),
           \A n \in WithKey(L, K, key1) : V[n] = V1[n]
    PROVE  Lookup(L, K, V, key1) = Lookup(L1, K1, V1, key1)
BY DEF Lookup

LEMMA LookupOne ==
    ASSUME NEW L, NEW K, NEW V, NEW key1, NEW n, WithKey(L, K, key1) = {n}
    PROVE  Lookup(L, K, V, key1) = V[n]
BY DEF Lookup

LEMMA LookupNone ==
    ASSUME NEW L, NEW K, NEW V, NEW key1, WithKey(L, K, key1) = {}
    PROVE  Lookup(L, K, V, key1) = Missing
BY DEF Lookup

(* A step that changes what one key is mapped to and nothing else. *)
LEMMA MapChanges ==
    ASSUME NEW x, k \in Key,
           \A key1 \in Key \ {k} :
               Lookup(live', key', value', key1) = Lookup(live, key, value, key1),
           Lookup(live', key', value', k) = x
    PROVE  Map' = [Map EXCEPT ![k] = x]
BY MapIsLookup

(* What a finished search tells. *)
LEMMA FoundIsMap ==
    ASSUME IInv, Searching, Found
    PROVE  /\ element \in live /\ element \in Element
           /\ WithKey(live, key, k) = {element}
           /\ Map[k] = value[element]
<1>1. element \in live /\ key[element] = k /\ k \in Key
  BY DEF IInv, TypeOK, SearchInv, Found
<1>2. WithKey(live, key, k) = {element}
  BY <1>1 DEF IInv, DistinctInv, WithKey
<1>3. element \in Element
  BY <1>1, LiveElement DEF IInv
<1>4. Lookup(live, key, value, k) = value[element]
  BY <1>2, LookupOne
<1> QED
  BY <1>1, <1>2, <1>3, <1>4, MapIsLookup

LEMMA NotFoundIsMissing ==
    ASSUME IInv, Searching, NotFound
    PROVE  /\ WithKey(live, key, k) = {}
           /\ Map[k] = Missing
<1>1. \A n \in live : n > NULL
  BY LiveElement DEF IInv, NULL
<1>2. WithKey(live, key, k) = {}
  BY <1>1 DEF IInv, SearchInv, NotFound, WithKey
<1> QED
  BY <1>2, LookupNone, MapIsLookup DEF IInv, TypeOK

LEMMA MapReplace ==
    ASSUME IInv, PutReplace
    PROVE  AbstractMap!Put \/ AbstractMap!PutNoValue
<1>1. Searching /\ k \in Key /\ value \in [Element -> Value \cup {NoValue}]
  BY DEF PutReplace, Return, Searching, IInv, TypeOK
<1>2. element \in live /\ element \in Element /\ WithKey(live, key, k) = {element}
  BY <1>1, FoundIsMap DEF PutReplace
<1>3. live' = live /\ key' = key
  BY DEF PutReplace
<1>4. ASSUME NEW x, value' = [value EXCEPT ![element] = x]
      PROVE  Map' = [Map EXCEPT ![k] = x]
  <2>1. value'[element] = x /\ \A n \in Element \ {element} : value'[n] = value[n]
    BY <1>1, <1>2, <1>4
  <2>2. Lookup(live', key', value', k) = x
    BY <1>2, <1>3, <2>1, LookupOne
  <2>3. ASSUME NEW key1 \in Key \ {k}
        PROVE  Lookup(live', key', value', key1) = Lookup(live, key, value, key1)
    <3>1. \A n \in WithKey(live, key, key1) : n \in Element \ {element}
      BY <1>2, LiveElement DEF WithKey, IInv, PutReplace, Found
    <3> QED
      BY <1>3, <2>1, <3>1, LookupSame
  <2> QED
    BY <1>1, <2>2, <2>3, MapChanges
<1> QED
  BY <1>4 DEF PutReplace, Return, AbstractMap!Put, AbstractMap!PutNoValue, AbstractMap!Return

LEMMA MapNew ==
    ASSUME IInv, PutNew
    PROVE  AbstractMap!Put \/ AbstractMap!PutNoValue
<1> DEFINE n == count + 1
<1>1. /\ Searching /\ k \in Key
      /\ value \in [Element -> Value \cup {NoValue}] /\ key \in [Element -> Key]
  BY DEF PutNew, Return, Searching, IInv, TypeOK
<1>2. n \in Element /\ \A m \in live : m \in Element /\ m # n
  <2>1. \A m \in live : m \in Element /\ m \in Nat /\ m <= count
    BY LiveElement DEF IInv
  <2> QED
    BY <2>1, DictAssumption DEF IInv, TypeOK, PutNew, Element
<1>3. live' = live \cup {n} /\ key' = [key EXCEPT ![n] = k]
  BY DEF PutNew
<1>4. WithKey(live, key, k) = {}
  BY <1>1, NotFoundIsMissing DEF PutNew
<1> HIDE DEF n
<1>5. key'[n] = k /\ \A m \in live : key'[m] = key[m]
  BY <1>1, <1>2, <1>3
<1>6. WithKey(live', key', k) = {n}
  BY <1>3, <1>4, <1>5 DEF WithKey
<1>7. ASSUME NEW x, value' = [value EXCEPT ![n] = x]
      PROVE  Map' = [Map EXCEPT ![k] = x]
  <2>1. value'[n] = x /\ \A m \in live : value'[m] = value[m]
    BY <1>1, <1>2, <1>7
  <2>2. Lookup(live', key', value', k) = x
    BY <1>6, <2>1, LookupOne
  <2>3. ASSUME NEW key1 \in Key \ {k}
        PROVE  Lookup(live', key', value', key1) = Lookup(live, key, value, key1)
    <3>1. WithKey(live', key', key1) = WithKey(live, key, key1)
      BY <1>3, <1>5 DEF WithKey
    <3>2. \A m \in WithKey(live', key', key1) : value'[m] = value[m]
      BY <2>1, <3>1 DEF WithKey
    <3> QED
      BY <3>1, <3>2, LookupSame
  <2> QED
    BY <1>1, <2>2, <2>3, MapChanges
<1> QED
  BY <1>7 DEF PutNew, Return, AbstractMap!Put, AbstractMap!PutNoValue, AbstractMap!Return, n

LEMMA MapRemove ==
    ASSUME IInv, RemoveFound
    PROVE  AbstractMap!Remove
<1>1. Searching /\ k \in Key
  BY DEF RemoveFound, Return, Searching, IInv, TypeOK
<1>2. WithKey(live, key, k) = {element}
  BY <1>1, FoundIsMap DEF RemoveFound
<1>3. live' = live \ {element} /\ key' = key /\ value' = value
  BY DEF RemoveFound
<1>4. Lookup(live', key', value', k) = Missing
  <2>1. WithKey(live', key', k) = {}
    BY <1>2, <1>3 DEF WithKey
  <2> QED
    BY <2>1, LookupNone
<1>5. ASSUME NEW key1 \in Key \ {k}
      PROVE  Lookup(live', key', value', key1) = Lookup(live, key, value, key1)
  <2>1. WithKey(live', key', key1) = WithKey(live, key, key1)
    BY <1>2, <1>3 DEF WithKey
  <2> QED
    BY <1>3, <2>1, LookupSame
<1>6. Map' = [Map EXCEPT ![k] = Missing]
  BY <1>1, <1>4, <1>5, MapChanges
<1> QED
  BY <1>6 DEF RemoveFound, Return, AbstractMap!Remove, AbstractMap!Return

LEMMA MapSame ==
    ASSUME live' = live, key' = key, value' = value
    PROVE  Map' = Map
BY MapIsLookup

LEMMA MapEmpty ==
    /\ live = {} => Map = AbstractMap!Empty
    /\ live' = {} => Map' = AbstractMap!Empty
<1>1. live = {} => \A key1 \in Key : Lookup(live, key, value, key1) = Missing
  BY LookupNone DEF WithKey
<1>2. live' = {} => \A key1 \in Key : Lookup(live', key', value', key1) = Missing
  BY LookupNone DEF WithKey
<1> QED
  BY <1>1, <1>2, MapIsLookup DEF AbstractMap!Empty

LEMMA StepImplements ==
    ASSUME IInv, [Next]_vars
    PROVE  [AbstractMap!MapNext]_AbstractMap!mapVars
<1> USE DEF AbstractMap!MapNext
<1>1. CASE Create
  BY <1>1, MapSame DEF Create, AbstractMap!Create
<1>2. CASE Destroy
  BY <1>2, MapEmpty DEF Destroy, AbstractMap!Destroy
<1>3. CASE Call
  BY <1>3, MapSame DEF Call, AbstractMap!Call, table
<1>4. CASE Advance
  BY <1>4, MapSame DEF Advance, table, AbstractMap!mapVars
<1>5. CASE Get
  <2>1. op = "get" /\ Searching /\ Map' = Map
    BY <1>5, MapSame DEF Get, Return, Searching, table
  <2>2. CASE Found /\ Return("get", value[element])
    BY <2>1, <2>2, FoundIsMap DEF Return, AbstractMap!Get, AbstractMap!Return
  <2>3. CASE NotFound /\ Return("get", Missing)
    BY <2>1, <2>3, NotFoundIsMissing DEF Return, AbstractMap!Get, AbstractMap!Return
  <2> QED
    BY <1>5, <2>2, <2>3 DEF Get
<1>6. CASE PutReplace
  BY <1>6, MapReplace
<1>7. CASE PutNew
  BY <1>7, MapNew
<1>8. CASE PutFails
  <2>1. Searching /\ Map' = Map
    BY <1>8, MapSame DEF PutFails, Return, Searching, table
  <2> QED
    BY <1>8, <2>1, NotFoundIsMissing
       DEF PutFails, Return, AbstractMap!PutNothing, AbstractMap!Return
<1>9. CASE RemoveFound
  BY <1>9, MapRemove
<1>10. CASE RemoveNothing
  <2>1. Searching /\ Map' = Map /\ k \in Key
    BY <1>10, MapSame DEF RemoveNothing, Return, Searching, table, IInv, TypeOK
  <2>2. Map[k] = Missing
    BY <1>10, <2>1, NotFoundIsMissing DEF RemoveNothing
  <2>3. Map' = [Map EXCEPT ![k] = Missing]
    BY <2>1, <2>2 DEF Map
  <2> QED
    BY <1>10, <2>3 DEF RemoveNothing, Return, AbstractMap!Remove, AbstractMap!Return
<1>11. CASE UNCHANGED vars
  BY <1>11, MapSame DEF vars, table, AbstractMap!mapVars
<1> QED
  BY <1>1, <1>2, <1>3, <1>4, <1>5, <1>6, <1>7, <1>8, <1>9, <1>10, <1>11 DEF Next, Step

(* Why every call returns, whatever was put and removed before it: the     *)
(* element a search goes on to is older than the one it leaves, and there  *)
(* is an end to older elements.                                            *)
SearchesGoBack == Searching /\ Searching' => previous' = element /\ element' < element

THEOREM SearchesEnd == Spec => [][SearchesGoBack]_vars
<1>1. ASSUME IInv, Next, Searching, Searching'
      PROVE  previous' = element /\ element' < element
  <2>1. Advance
    BY <1>1 DEF Next, Step, Create, Destroy, Call, Get, PutReplace, PutNew, PutFails,
          RemoveFound, RemoveNothing, Return, Searching
  <2>2. LinkInv /\ element \in live /\ element \in Element
    BY <1>1, <2>1, LiveElement DEF IInv, Advance, NotFound, SearchInv, Searching
  <2>3. element \in Nat \ {0}
    BY <2>2, DictAssumption DEF Element
  <2>4. next[element] = NULL \/ next[element] < element
    BY <2>2 DEF LinkInv
  <2> QED
    BY <2>1, <2>3, <2>4 DEF Advance, NULL
<1>2. IInv /\ [Next]_vars => [SearchesGoBack]_vars
  BY <1>1 DEF SearchesGoBack
<1> QED
  BY <1>2, Inductive, PTL DEF Spec

(* Whoever calls the dictionary sees a map: a list of any length, searched *)
(* and relinked step by step, gives what the last put of the key stored.   *)
THEOREM DictIsAMap == Spec => ImplementsMap
<1>1. Init => AbstractMap!MapInit
  BY MapEmpty DEF Init, AbstractMap!MapInit
<1>2. IInv /\ [Next]_vars => [AbstractMap!MapNext]_AbstractMap!mapVars
  BY StepImplements
<1> QED
  BY <1>1, <1>2, Inductive, PTL DEF Spec, ImplementsMap, AbstractMap!MapSpec
=============================================================================
