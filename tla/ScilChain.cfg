CONSTANTS
    p = p
    c = c
    s = s
    d = d
    b = b
    Unknown = unknown
    Null = null
    Limit = 2
    MaxNames = 3
    Algo <- MCAlgo
    AlgoType <- MCAlgoType
    Lossy <- MCLossy
    Garbage <- MCGarbage
    Inputs <- MCInputs

SPECIFICATION Spec

INVARIANTS
    AcceptsWellFormed
    RunsWhatWasAsked
    LossyIsKnown
    IInv
