SPECIFICATION Spec
CONSTANTS
    Nil = Nil
    Cases <- MCCases
INVARIANTS
    Undominated
    UnmetIsTight
PROPERTIES
    OneWay
CHECK_DEADLOCK FALSE
