SPECIFICATION Spec
CONSTANTS
    Command = {c1, c2, c3}
    Intent = {small, large, banned}
    Key = {k1}
    k1 = k1
    small = small
    large = large
    None = None
    Operator = {x, y, z}
    Approvers = {x, y}
    Threshold = 4
    MaxInt64 = 10
    Window = 1
    MaxCount = 2
    MaxAmount = 7
    Denied = {banned}
    Fee = {1, 2, 3}
    FeeCap = 2
    MaxFaults = 1
    KeyOf <- MCKeyOf
    AmountOf <- MCAmountOf
    SpendLimit <- MCSpendLimit
    Time <- MCTime
SYMMETRY Symmetry
INVARIANT NoDoubleSend
CHECK_DEADLOCK FALSE
