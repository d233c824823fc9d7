SPECIFICATION MCSpec
CONSTANTS
    Width = 8
    US_PER_MS = 2
    PS_PER_US = 4
    MaxDrift = 2
    Delays = {3}
    MaxNow = 5
INVARIANTS
    DriftExact
    AlarmsExactlyDue
    MediumExact
    RadioInOrder
    HeapsOrdered
PROPERTIES
    RealtimeInStep
CHECK_DEADLOCK FALSE
