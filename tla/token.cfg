SPECIFICATION TokenSpec
CONSTANTS
    Party = {p1, p2}
    WalletKey = fee
    NoRecord = none
    Funding = 6
    Width = 16
    MaxTxs = 5
    MayFail = TRUE
    cash = cash
    goods = goods
    TypeID = {cash, goods}
    Def <- TwoTypes
    Micro = 2
    TokenID = {id1, id2}
    MintValue = {1, 4}
SYMMETRY SymParties
INVARIANTS TokenTypeOK VerifiedState WalletSound TitlesHeld
PROPERTY ImplementsTitles
CHECK_DEADLOCK FALSE
