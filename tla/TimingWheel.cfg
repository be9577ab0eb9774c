\* Two keys on a wheel of two slots, delays of up to two revolutions, a spare entry.
CONSTANTS
    Keys = {k1, k2}
    Values = {v1}
    Items = {i1, i2, i3}
    NumSlots = 2
    MaxSteps = 4
    None = None
SPECIFICATION Spec
SYMMETRY Symmetry
INVARIANT TimersKnowLive
PROPERTY ImplementsAlarms
CHECK_DEADLOCK FALSE
