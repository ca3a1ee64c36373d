CONSTANTS
    p = p
    q = q
    c = c
    d = d
    b = b
    junk = junk
    Junk = junk
    MaxFirst = 2
    MaxStages = 4
    Algo <- MCAlgo
    AlgoType <- MCAlgoType
    Chains <- ReuseChains

SPECIFICATION FairSpec

INVARIANTS
    StoredSelfDescribing
    IInv

PROPERTIES
    CallsReturn
    ImplementsCodec
