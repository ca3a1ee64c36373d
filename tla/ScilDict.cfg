SPECIFICATION MCSpec
CONSTANTS
    k1 = k1
    k2 = k2
    k3 = k3
    k4 = k4
    Key <- MCKey
    Hash <- MCHash
    Bucket = {"a", "b"}
    Value = {x}
    MaxElements = 3
    NoValue = NoValue
    Missing = Missing

INVARIANTS
    IInv

PROPERTIES
    ImplementsMap
    CallsReturn
