SPECIFICATION Spec
CONSTANTS
    TaskID = {task1, task2}
    Solution = {s1, s2}
    DFAEvent = {"", "resolve"}
    Width = 2
    MaxAsset = 1
    MaxGroup = 2
    MaxPlaced = 3
    MagicM = 100
    MagicR = 101
    Version = 1
    NotUTF8 = 7
    TxidLen = 2
    TagLen = 2
    LenWrap = 15
    GroupOrder = 11
    PkhLen = 2
    Modulus = 5
    MaxShares = 3
    Records <- SmallRecords
    Buffers <- AlteredEncodings
    Changes <- SmallChanges
    Images = {"image1", "image2"}
    Payloads <- SmallPayloads
    Blocks <- SmallBlocks
    Indexes <- SmallIndexes
    Partners <- SmallPartners
INVARIANTS NeverOverpays PayoutEarned CodecExact SecretsAgree TagsBind
    EnvelopesReadBack InclusionExact ThresholdExact BridgeConsistent
    DocumentsComplete
CHECK_DEADLOCK FALSE
