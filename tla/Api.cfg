SPECIFICATION Spec
CONSTANTS
    Account = {"src", "dst", "other"}
    Attempt = {1, 2, 3}
    BodyOf <- MCBodyOf
    KeyOf <- MCKeyOf
    Key = {"k"}
    Aging = {"k"}
    Canceller = {c1, c2}
    Times = {1}
    PageLimit = 1
    Opening <- MCOpening
    Others <- MCOthers
    MaxFaults = 1
    NoPayment = NoPayment
    NoAnswer = NoAnswer
INVARIANTS
    TypeOK
    OncePerClaim
    TruthfulAnswers
    BooksMatch
    WalkComplete
PROPERTIES
    KeysFreed
CHECK_DEADLOCK FALSE
