SPECIFICATION Spec
CONSTANTS
    Writer = {u1, u2}
    Limit = 2
    MaxOffset = 4
    Initial = 4
    MaxRemovals = 2
INVARIANTS
    WalkAccountsForRows
    TotalFitsPage
