SPECIFICATION MCSpec
CONSTANTS
    None = None
    Cut = Cut
    Garbage = Garbage
    Runs = {r1, r2}
    Foreign = {foreign}
    MaxEditsG = 1
    Inputs <- MCInputs
    Policies <- MCPolicies
    Ops = {o1, o2}
    Typed <- MCTyped
    Documents <- MCDocuments
    Receipts <- MCReceipts
    MaxUse = 3
    Bad = Bad
    Null = Null
    Alphabets <- MCAlphabets
    Nonces = {n1, n2}
    MaxLifetime = 2
    ClockSkew = 1
    MaxTime = 5
SYMMETRY Interchangeable
INVARIANT AcceptedOnce
PROPERTY PersistedBeforeAccepted
INVARIANT ReadableIsWhole
INVARIANT ShownIsHeld
INVARIANT ParserIsGrammar
INVARIANT CanonicalIsUnique
CHECK_DEADLOCK FALSE
