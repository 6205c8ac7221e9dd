SPECIFICATION Spec
CONSTANTS
    HeaderRead = 1
    HeaderSize = 2
    MaxBuf = 5
    MaxLength = 5
    DataSizes = {0, 1}
    MaxCommands = 3
    MaxEvents = 1
    MaxFaults = 1
    Faults = {"lost", "late", "garbled", "unplugged"}
INVARIANTS TypeOK OwnAnswer StaysInStep
PROPERTY CallReturns
CHECK_DEADLOCK FALSE
