SPECIFICATION Spec
CONSTANTS
    Retries = 3
    UintMax = 5
    DefaultIfsc = 2
    IfscValues = {1, 3}
    ChecksumSizes = {1, 2}
    SendSizes = {0, 1, 4}
    RecvSizes = {2}
    InfSizes = {0, 1, 2}
    WtxValues = {1, 2}
    CardMalforms = TRUE
INVARIANTS TypeOK ChainWindow IfscRespected WholeLrcBlocks
PROPERTY OutcomeState RetriesSpent
