CONSTANTS
    Handlers = {h1, h2}
    NoHandler = NoHandler
    Admins = {}
    Waiters = {w}
    Keys = {k}
    MaxPubsubs = 2
SPECIFICATION FairSpec
PROPERTIES
    HandlerDetached
    CallsReturn
    WaiterServed
