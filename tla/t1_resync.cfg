SPECIFICATION ExFairSpec
CONSTANTS
    Retries = 3
    UintMax = 5
    DefaultIfsc = 2
    IfscValues = {2}
    ChecksumSizes = {1}
    SendSizes = {1, 5}
    RecvSizes = {3}
    InfSizes = {0, 1, 2}
    WtxValues = {1, 2}
    CardMalforms = FALSE
    CardIfsd = 2
    RespSizes = {1, 3, 4}
    MaxCalls = 2
    MaxFaults = 3
    MaxExecs = 6
INVARIANTS ResponseIsOurs InStep
PROPERTY CallReturns
