CONSTANTS
    Half = 4
    Interval = 3
    TickStep = 3
    FirstCmp = 6
    MaxTime = 12
    Operands = {0, 5, 11}
SPECIFICATION Spec
INVARIANTS StimecmpCoherent NoFalseAlarm HalfReadsTimely
PROPERTY DeadlineFires
CHECK_DEADLOCK FALSE
