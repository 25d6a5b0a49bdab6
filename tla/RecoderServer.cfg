SPECIFICATION FairSpec
CONSTANTS
    Calls = {h1, h2}
    NoCall = NoCall
    MaxContexts = 1
    MaxInputs = 1
    MaxOutputs = 2
INVARIANTS
    TypeOK
    RegistryExclusive
    NoLockCycle
    NoAbandonedWaiter
    ShutdownCutsInputs
PROPERTIES
    ImplementsLifecycle
    WaiterReleased
    HandlersReturn
