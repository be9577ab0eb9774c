\* One key on a wheel of three slots.
CONSTANTS
    Keys = {k1}
    Values = {v1}
    Items = {i1, i2}
    NumSlots = 3
    MaxSteps = 6
    None = None
SPECIFICATION Spec
PROPERTIES MovesExactly
CHECK_DEADLOCK FALSE
