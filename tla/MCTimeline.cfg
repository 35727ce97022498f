CONSTANTS
    Services = {s1, s2}
    Times = {0, 1}
    Actions <- MCActions
    Undefined = Undefined
    MaxEvents = 3
    MaxMarks = 1
    Multiples = {1, 2}
SPECIFICATION Spec
INVARIANTS
    TypeOK
    StaircaseShape
    BoundsEncloseCounts
PROPERTIES
    TimelinesOnlyGrow
