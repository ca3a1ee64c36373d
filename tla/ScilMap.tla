------------------------------- MODULE ScilMap -------------------------------
(***************************************************************************)
(* What the dictionary of pipeline parameters promises                     *)
(* (src/src/internal/scil-dict.h): a map from keys to values.  A put that  *)
(* runs out of memory changes nothing of a key that was not there, or      *)
(* leaves the key without a value; it never touches another key.           *)
(***************************************************************************)
CONSTANTS
    Key, Value,
    NoValue,    \* of a key whose value could not be duplicated
    Missing     \* of a key that is not there

VARIABLES
    map,
    op, k, v,   \* the call under way and its arguments
    ret         \* what the last call returned

mapVars == <<map, op, k, v, ret>>

Empty == [key \in Key |-> Missing]

MapInit ==
    /\ map = Empty
    /\ op = "idle"
    /\ k \in Key
    /\ v \in Value
    /\ ret = "none"

Call ==
    /\ op = "idle"
    /\ op' \in {"get", "put", "remove"}
    /\ k' \in Key
    /\ v' \in Value
    /\ UNCHANGED <<map, ret>>

Return(operation, result) ==
    /\ op = operation
    /\ op' = "idle"
    /\ ret' = result
    /\ UNCHANGED <<k, v>>

Get        == Return("get", map[k]) /\ UNCHANGED map
Put        == Return("put", "ok") /\ map' = [map EXCEPT ![k] = v]
PutNothing == Return("put", "failed") /\ map[k] = Missing /\ UNCHANGED map
PutNoValue == Return("put", "failed") /\ map' = [map EXCEPT ![k] = NoValue]
Remove     == Return("remove", "done") /\ map' = [map EXCEPT ![k] = Missing]

Destroy == op = "idle" /\ op' = "closed" /\ map' = Empty /\ UNCHANGED <<k, v, ret>>
Create  == op = "closed" /\ op' = "idle" /\ UNCHANGED <<map, k, v, ret>>

MapNext == Call \/ Get \/ Put \/ PutNothing \/ PutNoValue \/ Remove \/ Destroy \/ Create

MapSpec == MapInit /\ [][MapNext]_mapVars
=============================================================================
