SPECIFICATION Spec
CONSTANTS
    Tables <- MCTables
    Options <- MCOptions
    CommandLines <- MCLines
    Formats <- MCFormats
    Shapes <- MCShapes
    Files <- MCFiles
    ToolOptions <- MCToolOptions
    Given <- MCGiven
    ArraySize = 8
    PackedSizes <- MCPackedSizes
    Runs = 2
    Algos = 1
    Mults = 1
    Args = 2
    Points <- MCPoints
    SampleSize = 2
    PatternNames <- MCPatterns
    Types <- MCTypes
    Compressors <- MCCompressors
    Example <- MCExample
    NoFile = NoFile
    MaxRuns = 2
    MaxFaults = 1

INVARIANTS
    AnswerIsRight
    ReadAsWritten
    DataIsComplete
    OutcomeIsTrue

PROPERTIES
    RoundTrip

CHECK_DEADLOCK FALSE
