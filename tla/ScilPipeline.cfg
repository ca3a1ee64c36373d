CONSTANTS
    p = p
    q = q
    c = c
    d = d
    b = b
    junk = junk
    Junk = junk
    MaxFirst = 3
    MaxStages = 6
    Algo <- MCAlgo
    AlgoType <- MCAlgoType
    Chains <- AllChains

SPECIFICATION Spec

INVARIANTS
    StagesNotInPlace
    RestoredIsOriginal
    RejectsOnlyReusedHeader

PROPERTIES
    ReadOnlyStored

ACTION_CONSTRAINT SingleCall
