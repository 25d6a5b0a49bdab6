SPECIFICATION ForwardSpec
CONSTANTS
    Main = Main
    Waiter = Waiter
    Callers = {Main, Waiter}
    Collector = Collector
    MaxLate = 1
    Builds <- AllBuilds
INVARIANTS
    ForwardTypeOK
    WaitTruthful
    
    ExitJustified
    AsksNothingFatal
PROPERTIES
    
    ClosedIsQuiet
    CallsReturn
    WaitReturns
    ForwardEnds
