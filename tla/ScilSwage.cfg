SPECIFICATION Spec
CONSTANTS
    Word = 12
    Count = 3
    Size = 6
    Widths = {0, 1, 3, 4, 7, 8, 9, 12}
    Sources <- MCSources
    Memories <- MCMemories

INVARIANTS
    RoundTrip
    IInv

CHECK_DEADLOCK FALSE
