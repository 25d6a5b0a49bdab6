CONSTANTS
    Subs = {s1}
    MaxTags = 3
    QueueLength = 2
SPECIFICATION FairSpec
INVARIANTS
    TypeOK
    NothingForgotten
    SentInOrder
    BurstHasItsHeaders
    NoSilentGap
    LossIsNoticed
PROPERTIES
    ImplementsFeed
    PublisherNotBlocked
    LostIsClosed
