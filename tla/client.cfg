SPECIFICATION Spec
CONSTANTS
    Tokens = {t1, t2}
    Modes = {sync, async}
    MaxClients = 2
    MaxHttp = 3
    None = None
SYMMETRY Symmetry
INVARIANTS
    BlocksStayOpen
    BuiltForItsOwner
