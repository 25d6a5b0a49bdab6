SPECIFICATION Spec
CONSTANTS
    Calls = {h1, h2}
    NoCall = NoCall
    MaxContexts = 1
    MaxInputs = 1
    MaxOutputs = 2
SYMMETRY CallSymmetry
INVARIANTS
    OutputMapGuarded
