SPECIFICATION MCSpec
CONSTANTS
    Algo <- MCAlgo
    AlgoType <- MCAlgoType
    Lossy <- MCLossy
    Supports <- MCSupports
    Memcopy = "memcopy"
    Lz4 = "lz4"
    Lossless = Lossless
    Caller = Caller
    None = None
    Context = {c1, c2}
    Types <- MCTypes
    Hints <- MCHints
    EnvValues <- MCEnv

CHECK_DEADLOCK FALSE

INVARIANTS
    FinerTaken
