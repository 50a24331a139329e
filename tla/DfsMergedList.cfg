SPECIFICATION FairSpec
CONSTANTS
    c1 = c1
    c2 = c2
    foo = foo
    foo2 = foo2
    dir = dir
    dir2 = dir2
    Clients = {c1}
    Trusted = {c1}
    Spelling = {}
    Running = {0}
    Names = {foo}
    Second <- MCSecond
    Coalesce = TRUE
    NoReq = NoReq
    Missing = Missing
    MaxFds = 4
    Creatable = {foo, foo2}
    Zeros = Zeros
    Local <- MCLocal
    Typed <- MCList
    MaxCmds <- MCOnce
CHECK_DEADLOCK FALSE
PROPERTY FirstListReturns
