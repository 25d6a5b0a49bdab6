CONSTANTS
    Handlers = {h1, h2}
    NoHandler = NoHandler
    Admins = {adm}
    Waiters = {w}
    Keys = {k}
    MaxPubsubs = 2
SYMMETRY HandlerSymmetry
SPECIFICATION Spec
INVARIANTS
    TypeOK
    NoLostWakeup
    LeavesNothing
    ListedIsKnown
PROPERTIES
    ImplementsStreams
