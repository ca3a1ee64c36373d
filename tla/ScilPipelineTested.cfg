CONSTANTS
    p = p
    q = q
    c = c
    d = d
    b = b
    junk = junk
    Junk = junk
    MaxFirst = 1
    MaxStages = 4
    Algo <- MCAlgo
    AlgoType <- MCAlgoType
    Chains <- TestedChains

SPECIFICATION Spec

INVARIANT StoredIsAccepted

ACTION_CONSTRAINT SingleCall
