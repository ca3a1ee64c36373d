SPECIFICATION Spec
CONSTANTS
    Calls <- MCCalls
    SizeMax = 65535

INVARIANTS
    StagesApart
    LimitSuffices
    RoomSuffices

CHECK_DEADLOCK FALSE
