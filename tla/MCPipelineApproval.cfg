SPECIFICATION Spec
CONSTANTS
    i1 = i1
    i2 = i2
    b1 = b1
    NoToken = NoToken
    Ids = {i1, i2}
    Tokens = {b1}
    Budgets = {6}
    MaxSafe = 15
    Requests <- MCRequests
INVARIANT ApprovalEnforced
