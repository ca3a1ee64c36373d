SPECIFICATION Spec
CONSTANTS
    Calls <- MCCalls
    SizeMax = 65535

INVARIANTS
    HalfSuffices

CHECK_DEADLOCK FALSE
