SPECIFICATION ExSpec
CONSTANTS
    Retries = 3
    UintMax = 5
    DefaultIfsc = 2
    IfscValues = {2}
    ChecksumSizes = {1}
    SendSizes = {1}
    RecvSizes = {1}
    InfSizes = {0, 1, 2}
    WtxValues = {1}
    CardMalforms = FALSE
    CardIfsd = 2
    RespSizes = {1}
    MaxCalls = 1
    MaxFaults = 12
    MaxExecs = 5
INVARIANT ResyncsLimited
