CONSTANTS
    Programs <- MCPrograms
    Inputs <- MCInputs
    LenModulus = 8
    CycleMax = 3
    MaxOps = 4
    MaxDamage = 1
SPECIFICATION Spec
CHECK_DEADLOCK FALSE
INVARIANTS
    LogsAccepted
    DamagedHarmless
PROPERTY
    SendTakesEffect
