SPECIFICATION Spec
CONSTANTS
    q1 = q1
    q2 = q2
    q3 = q3
    q4 = q4
    Address <- Addresses
    Lower <- LowerCase
    None = None
    Password = {"right", "wrong"}
    Request = {q1, q2, q3, q4}
    Calls <- AccountCalls
    MaxUsers = 4
    MaxChanges = 2
SYMMETRY Symmetry
INVARIANTS
    OneAccountPerAddress
    ActsOnlyIfEntitled
    TokenStaysWithHolder
