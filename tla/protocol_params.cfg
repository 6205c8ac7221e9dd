SPECIFICATION Spec
CONSTANTS
    Readers = {"GemPCTwin", "GemCoreSIMPro", "SEC1210"}
    Cards <- McCards
    CallerPts1 = {149}
INVARIANTS
    TypeOK
    AtrRead
    RatesAgree
    ProtocolAgrees
    ChecksumAgrees
    SizesAgree
