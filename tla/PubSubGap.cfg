CONSTANTS
    Subs = {s1}
    MaxTags = 3
    QueueLength = 1
SPECIFICATION Spec
INVARIANT NothingAfterGap
