SPECIFICATION FairSpec
CONSTANTS
    c1 = c1
    c2 = c2
    f1 = f1
    f2 = f2
    foo1 = foo1
    foo2 = foo2
    foo3 = foo3
    empty = empty
    Clients = {c1, c2}
    Names = {f1, f2}
    Bodies <- MCBodies
    BodySize <- MCBodySize
    TextSize <- MCTextSize
    LineLen = 11
    ListLen = 60
    NoName = NoName
    NoFile = NoFile
    Notice = Notice
    MaxFaults = 1
    StoreInit <- MCStore
    LocalInit <- MCLocalMixed
    Typed = {"get", "put", "delete"}
    MaxCmds = 2
CHECK_DEADLOCK FALSE
INVARIANTS
    TypeOK
    StoreFits
    InStepInv
    GetFaithfulInStep
    AnswersInStep
PROPERTY InStepAnswered
