SPECIFICATION Spec
CONSTANTS
    Tx <- MCTx
    Payment <- MCPayment
    Genesis = "g"
    House = "house"
    NoBlock = NoBlock
    NoPayment = NoPayment
    Block <- MCBlock
    Branch <- MCBranch
    Number <- MCNumber
    Includes <- MCIncludes
    Account <- MCAccount
    DestOf <- MCDestOf
    Amount <- MCAmount
    Opening <- MCOpening
    Depth = 1
    FinalityDepth = 2
    Revisit = FALSE
    Asset = {"usdc", "eurc"}
    AssetOf <- MCAssetOf
    IdOf <- MCIdOf
    Links <- MCLinks
    Transfers <- MCTransfers
    NoAsset = NoAsset
    Address <- MCAddress
    Lower <- MCLower
    Malformed = {"q"}
    Manifest <- MCManifest
    Holdings <- MCHoldings
    PageSize = 2
    MaxTransfers = 1
    MaxPayments = 1
INVARIANT CountedOnce
PROPERTY TrueExit
CHECK_DEADLOCK FALSE
