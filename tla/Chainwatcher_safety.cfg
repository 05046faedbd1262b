SPECIFICATION Spec
CONSTANTS
    Tx = {t1}
    Payment = {"p1", "direct"}
    Genesis = "g"
    House = "house"
    NoBlock = NoBlock
    NoTx = NoTx
    NoPayment = NoPayment
    Block <- MCBlock
    Branch <- MCBranch
    Number <- MCNumber
    Includes <- MCIncludes
    Account <- MCAccount
    DestOf <- MCDestOf
    Amount <- MCAmount
    Opening <- MCOpening
    Depth = 2
    FinalityDepth = 3
    Revisit = TRUE
    MaxFaults = 1
    MaxRestarts = 1
    MaxPayments = 2
INVARIANTS
    TypeOK
    PostingsMatchRows
    SettledOnceUnlessFaults
    DeepEnough
    EventsTellTheRow
    HouseCovers
CHECK_DEADLOCK FALSE
