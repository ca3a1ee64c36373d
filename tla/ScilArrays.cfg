SPECIFICATION Spec
CONSTANTS
    Elements = 2
    Types <- MCTypes
    Tolerances = {1, 2, 3, 4, 5, 7, 12, 20}
    Denom = 2
    MaxCodeBits = 3
    Formats <- MCFormats
    MaskTop = 3
    Width = 3
    Length = 2
    Parts = 2
    Hints <- MCHints
    Deviation <- MCDeviation
    Ulps = 64
    Calls <- MCCalls
    Cubes <- MCCubes
    Blocks = {2, 3, 5}
    Arrays <- MCArrays
    Garbage <- MCGarbage

INVARIANTS
    QuantizedIsClose
    BitsSurvive
    AcceptedMeetsAbsolute
    VerdictIsRight
    EveryElementOnce
    MutatedAsMeant
    CharacteristicsAreRight

PROPERTIES
    IterationEnds
    ReadsAreFinal

CHECK_DEADLOCK FALSE
