SPECIFICATION DrillSpec
CONSTANTS
    coinbaseStream = coinbaseStream
    walletStream = walletStream
    secretStream = secretStream
    Stream = {coinbaseStream, walletStream, secretStream}
    Hardening = {h1, h2}
    Plan <- Plans
    Maturity = 2
    ConfDepth = 3
    Polls = 2
    MaxErrors = 1
    Together = 2
INVARIANTS FinalMeansBuried
PROPERTIES InChainSound FailHasCause DrillsEnd
CHECK_DEADLOCK FALSE
