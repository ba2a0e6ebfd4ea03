SPECIFICATION DocSpec
CONSTANTS
    Party = {p1, p2}
    WalletKey = fee
    NoRecord = none
    Funding = 2
    Width = 8
    MaxTxs = 5
    MayFail = TRUE
    DocType <- TradeTypes
    DocDef <- TradeDocuments
    ObjectID = {id1, id2}
    BodyHash = {nil, h}
    NoBody = nil
    StateSats = 1
SYMMETRY SymNames
INVARIANTS DocTypeOK LegalHistory SingleState StepsLegal
CHECK_DEADLOCK FALSE
