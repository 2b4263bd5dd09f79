CONSTANTS
    Plain = {p1}
    Reentrant = {g1}
    Writers = {w1}
SPECIFICATION LiveSpec
CHECK_DEADLOCK FALSE
PROPERTIES
    RoundsEnd
