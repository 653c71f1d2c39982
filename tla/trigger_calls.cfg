SPECIFICATION Spec
CONSTANTS
    Intervals = {1, 3, 6}
    Distance = 2
INVARIANTS
    TypeOK
    CalledAtDistance
    AtMostOnce
PROPERTIES
    KeepsCalling
