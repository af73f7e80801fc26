CONSTANTS
    Stoppers = {s1, s2}
    Providers = {p1}
    Handlers = {h1, h2}
    Requests = {r1}
SPECIFICATION FairSpec
CHECK_DEADLOCK FALSE
INVARIANTS
    AnsweredOnce
    NoRequestForgotten
    NoConnectionSurvives
PROPERTIES
    StopReturns
    StartReturns
    DestructorReturns
