------------------------------- MODULE ScilDict -------------------------------
(***************************************************************************)
(* The dictionary of src/src/internal/scil-dict.c: a table of buckets,     *)
(* each a list of elements linked through "next", the newest in front.     *)
(* Every context owns one, for what the algorithms of a chain tell each    *)
(* other.  Calls search a list element by element; a put may run out of    *)
(* memory at each of its three allocations.                                *)
(*                                                                         *)
(* Elements are numbered in the order they are allocated and a number is   *)
(* not used again, so that a pointer to a freed element is never mistaken  *)
(* for one to a later element.                                             *)
(***************************************************************************)
EXTENDS Naturals

CONSTANTS
    Key, Value,
    Bucket, Hash,   \* scilI_dict_hash of every key
    MaxElements,    \* bound: elements that are ever allocated
    NoValue, Missing

NULL    == 0
Element == 1 .. MaxElements
Pointer == Element \cup {NULL}

ASSUME DictAssumption ==
    /\ Hash \in [Key -> Bucket]
    /\ MaxElements \in Nat
    /\ Missing \notin Value \cup {NoValue}

VARIABLES
    elem,       \* the first element of each bucket
    key, value, next,
    live,       \* elements that are allocated and not freed, lost ones apart
    count,      \* elements allocated so far
    op, k, v,   \* the call under way and its arguments
    element, previous,  \* where its search stands
    ret         \* what the last call returned

table  == <<elem, key, value, next, live, count>>
vars   == <<table, op, k, v, element, previous, ret>>

-----------------------------------------------------------------------------
(* scilI_dict_create; the table is zeroed. *)
Zeroed == elem' = [b \in Bucket |-> NULL]

Create ==
    /\ op = "closed"
    /\ Zeroed
    /\ op' = "idle"
    /\ UNCHANGED <<key, value, next, live, count, k, v, element, previous, ret>>

(* scilI_dict_destroy frees the elements and the table, which keeps what   *)
(* was in it.                                                              *)
Destroy ==
    /\ op = "idle"
    /\ live' = {}
    /\ op' = "closed"
    /\ UNCHANGED <<elem, key, value, next, count, k, v, element, previous, ret>>

(* A call begins at the first element of the key's bucket. *)
Call ==
    /\ op = "idle"
    /\ op' \in {"get", "put", "remove"}
    /\ k' \in Key
    /\ v' \in Value
    /\ element' = elem[Hash[k']]
    /\ previous' = NULL
    /\ UNCHANGED <<table, ret>>

Searching == op \in {"get", "put", "remove"}
Found     == element # NULL /\ key[element] = k
NotFound  == element = NULL

(* Mutant: the search stands still. *)
AdvanceNot ==
    /\ Searching
    /\ ~Found /\ ~NotFound
    /\ previous' = element
    /\ UNCHANGED <<table, op, k, v, element, ret>>

Advance ==
    /\ Searching
    /\ ~Found /\ ~NotFound
    /\ previous' = element
    /\ element' = next[element]
    /\ UNCHANGED <<table, op, k, v, ret>>

Return(operation, result) ==
    /\ op = operation
    /\ op' = "idle"
    /\ ret' = result
    /\ element' = NULL
    /\ previous' = NULL
    /\ UNCHANGED <<k, v>>

(* scilI_dict_get, and scilI_dict_contains, which looks whether it returns *)
(* an element; the caller reads its value.                                 *)
Get ==
    /\ \/ Found /\ Return("get", value[element])
       \/ NotFound /\ Return("get", Missing)
    /\ UNCHANGED table

(* The key is there: its value is freed and replaced by a duplicate of v,  *)
(* or by NULL if there is no memory for one.                               *)
PutReplace ==
    /\ Found
    /\ \/ Return("put", "ok") /\ value' = [value EXCEPT ![element] = v]
       \/ Return("put", "failed") /\ value' = [value EXCEPT ![element] = NoValue]
    /\ UNCHANGED <<elem, key, next, live, count>>

(* Mutant: the new element forgets the rest of its bucket. *)
LinkFirst(n) ==
    /\ elem' = [elem EXCEPT ![Hash[k]] = n]
    /\ next' = [next EXCEPT ![n] = NULL]

Link(n) ==
    /\ elem' = [elem EXCEPT ![Hash[k]] = n]
    /\ next' = [next EXCEPT ![n] = elem[Hash[k]]]

(* The key is not there: a new element becomes the first of the bucket; it *)
(* stays there when its value cannot be duplicated.                        *)
PutNew ==
    /\ NotFound
    /\ count < MaxElements
    /\ count' = count + 1
    /\ key' = [key EXCEPT ![count + 1] = k]
    /\ live' = live \cup {count + 1}
    /\ Link(count + 1)
    /\ \/ Return("put", "ok") /\ value' = [value EXCEPT ![count + 1] = v]
       \/ Return("put", "failed") /\ value' = [value EXCEPT ![count + 1] = NoValue]

(* No memory for the element, or for its key; then the element is lost.    *)
PutFails ==
    /\ NotFound
    /\ Return("put", "failed")
    /\ UNCHANGED table

(* Mutant: "previous" is not looked at, the bucket begins behind the       *)
(* removed element.                                                        *)
UnlinkToFirst ==
    /\ elem' = [elem EXCEPT ![Hash[k]] = next[element]]
    /\ UNCHANGED next

Unlink ==
    \/ /\ previous = NULL
       /\ elem' = [elem EXCEPT ![Hash[k]] = next[element]]
       /\ UNCHANGED next
    \/ /\ previous # NULL
       /\ next' = [next EXCEPT ![previous] = next[element]]
       /\ UNCHANGED elem

(* scilI_dict_remove *)
RemoveFound ==
    /\ Found
    /\ Return("remove", "done")
    /\ Unlink
    /\ live' = live \ {element}
    /\ UNCHANGED <<key, value, count>>

RemoveNothing ==
    /\ NotFound
    /\ Return("remove", "done")
    /\ UNCHANGED table

Init ==
    /\ elem = [b \in Bucket |-> NULL]
    /\ key \in [Element -> Key]
    /\ value \in [Element -> Value]
    /\ next = [n \in Element |-> NULL]
    /\ live = {}
    /\ count = 0
    /\ op = "idle"
    /\ k \in Key
    /\ v \in Value
    /\ element = NULL
    /\ previous = NULL
    /\ ret = "none"

Step == Advance \/ Get \/ PutReplace \/ PutNew \/ PutFails \/ RemoveFound \/ RemoveNothing

Next == Create \/ Destroy \/ Call \/ Step

Spec     == Init /\ [][Next]_vars
FairSpec == Spec /\ WF_vars(Step)

-----------------------------------------------------------------------------
(* Properties *)

TypeOK ==
    /\ elem \in [Bucket -> Pointer]
    /\ key \in [Element -> Key]
    /\ value \in [Element -> Value \cup {NoValue}]
    /\ next \in [Element -> Pointer]
    /\ live \subseteq 1 .. count
    /\ count \in 0 .. MaxElements
    /\ op \in {"closed", "idle", "get", "put", "remove"}
    /\ k \in Key
    /\ v \in Value
    /\ element \in Pointer
    /\ previous \in Pointer

(* Every pointer a search follows or a removal writes through leads to an  *)
(* element that has not been freed, after any history of calls and         *)
(* failures.                                                               *)
NoDangling ==
    Searching => /\ element \in live \cup {NULL}
                 /\ previous \in live \cup {NULL}

(* The dictionary is a map: the lists, searched and changed one element at *)
(* a time, lose no key, keep none twice and bring none back.               *)
In(key1) == {n \in live : key[n] = key1}
Map == [key1 \in Key |-> IF In(key1) = {} THEN Missing
                         ELSE value[CHOOSE n \in In(key1) : TRUE]]

AbstractMap == INSTANCE ScilMap WITH map <- Map

ImplementsMap == AbstractMap!MapSpec

(* Every call returns: no history makes a list run in a circle. *)
CallsReturn == Searching ~> op = "idle"

-----------------------------------------------------------------------------
(* The inductive invariant.                                                *)

SameBucket(m, n) == Hash[key[m]] = Hash[key[n]]

(* The first element of a bucket is its newest, and "next" leads to the    *)
(* next older one of the bucket.                                           *)
LinkInv ==
    /\ \A b \in Bucket : elem[b] # NULL => elem[b] \in live /\ Hash[key[elem[b]]] = b
    /\ \A n \in live : n <= elem[Hash[key[n]]]
    /\ \A n \in live : next[n] # NULL =>
          next[n] \in live /\ next[n] < n /\ SameBucket(next[n], n)
    /\ \A m, n \in live : SameBucket(m, n) /\ m < n => m <= next[n]

DistinctInv == \A m, n \in live : key[m] = key[n] => m = n

(* What is newer than the element the search looks at has another key, and *)
(* "previous" points to that element.                                      *)
SearchInv ==
    Searching =>
        /\ element # NULL => element \in live /\ Hash[key[element]] = Hash[k]
        /\ \A n \in live : n > element => key[n] # k
        /\ previous = NULL => element = elem[Hash[k]]
        /\ previous # NULL => /\ previous \in live /\ Hash[key[previous]] = Hash[k]
                              /\ next[previous] = element

IInv ==
    /\ TypeOK
    /\ op # "closed" => LinkInv
    /\ op = "closed" => live = {}
    /\ DistinctInv
    /\ SearchInv
=============================================================================
