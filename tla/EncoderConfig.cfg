SPECIFICATION Spec
CONSTANTS
    Configs <- SomeConfigs
    Streams = {0, 1, 2}
    Word = 64
    Long = 128
    Exponent = 8
INVARIANTS
    TypeOK
    
    
    ServerSurvives
    MediaKeptApart
CHECK_DEADLOCK FALSE
