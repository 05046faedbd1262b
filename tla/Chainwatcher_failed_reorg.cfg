SPECIFICATION FairSpec
CONSTANTS
    Tx = {t1}
    Payment = {"p1"}
    Genesis = "g"
    House = "house"
    NoBlock = NoBlock
    NoTx = NoTx
    NoPayment = NoPayment
    Block <- MCBlock
    Branch <- MCBranch
    Number <- MCNumber
    Includes <- MCIncludes
    Account <- MCAccount
    DestOf <- MCDestOf
    Amount <- MCAmount
    Opening <- MCOpening
    Depth = 2
    FinalityDepth = 3
    Revisit = FALSE
    MaxFaults = 1
    MaxRestarts = 0
    MaxPayments = 0
PROPERTY EventuallyReversed
CHECK_DEADLOCK FALSE
