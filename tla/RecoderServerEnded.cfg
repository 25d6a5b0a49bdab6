SPECIFICATION Spec
CONSTANTS
    Calls = {h1, h2}
    NoCall = NoCall
    MaxContexts = 1
    MaxInputs = 1
    MaxOutputs = 1
SYMMETRY CallSymmetry
INVARIANTS
    EndedMeansNotServing
