CONSTANTS
    ClockHalf = 17
    Unit = 2
    Half = 5
    MaxPreset = 3
    MaxGap = 2
SPECIFICATION Spec
INVARIANTS
    TypeOK
    EtIsTheTrueTime
PROPERTIES
    QIsTheIdealTimers
    FirstCallStartsOver
    DelaysEnd
