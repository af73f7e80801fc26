SPECIFICATION FairSpec
CHECK_DEADLOCK FALSE
CONSTANTS
    Vars <- MCVars
    NumberOf <- MCNumberOf
    Arguments <- MCArguments
    Documents <- MCDocuments
    Modules <- MCModules
    Texts <- MCTexts
    Handlers = {h1}
    Listeners = {l1}
    Providers = {p1}
INVARIANTS
    ResolvedRight
    ThreadsEndFirst
PROPERTY
    ProgramEnds
