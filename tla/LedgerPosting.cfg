SPECIFICATION Spec
CONSTANTS
    Proc = {c1, c2, c3}
    Account = {1, 2, 3, 4, 5}
    Entries <- MCEntries
    AssetOf <- MCAssetOf
    Opening <- MCOpening
    NoEntry = NoEntry
    NoProc = NoProc
INVARIANTS
    TypeOK
    Solvent
    Conserved
    FreshHead
    ChainIntact
    TamperEvident
PROPERTIES
    AtomicPosting
    PostingsEnd
