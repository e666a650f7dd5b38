CONSTANTS
    CharCode <- MCCharCode
    Keys <- MCKeys
    Vals <- MCVals
    MaxVals = 2
    Operations <- MCOperations
    TrustField <- MCTrustField
    Method <- MCMethod
    ClientId <- MCClientId
    Limit <- MCLimit
SPECIFICATION Spec
INVARIANT TrustTokenDeterministic
\* One request is rendered, sent back and checked: the check is the end.
CHECK_DEADLOCK FALSE
