SPECIFICATION Spec
CONSTANTS
    MaxServers = 4
    MaxFaults = 1
    Epochs <- MCEpochs
    Outputs = 1
INVARIANTS
    FaultsContained
    EpochKept
PROPERTIES
    AnsweredByListener
    EverythingStops
