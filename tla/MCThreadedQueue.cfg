CONSTANTS
    Producers = {p1, p2}
    Consumers = {c1, c2}
    Stoppers = {s1}
    AllTakers = {c2}
    MaxItems = 2
    MaxSpurious = 1
SPECIFICATION FairSpec
CHECK_DEADLOCK FALSE
INVARIANTS
    NobodySleepsOnWork
PROPERTIES
    KeepsContract
    ItemIsTaken
    ConsumersEnd
