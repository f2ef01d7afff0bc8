CONSTANTS
    Codes <- MCCodes
    Counts = {0, 1, 2, 4}
    McycleMax = 4
    MaxSteps = 3
SPECIFICATION Spec
CHECK_DEADLOCK FALSE
INVARIANTS
    StepsProved
    StepDamageHarmless
