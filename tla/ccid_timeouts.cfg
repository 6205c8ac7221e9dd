SPECIFICATION Spec
CONSTANTS
    PowerOnVoltage <- MinusOne
    BVoltageSupport = {1, 2, 3}
    CardTimeouts = {1500, 120000}
    Multipliers = {0, 1, 3}
    BTimeOuts = {0, 255}
    MaxRefusals = 4
    MaxTimeout = 300000
INVARIANTS
    TypeOK
    TimeoutBalanced
    CardHasItsTime
