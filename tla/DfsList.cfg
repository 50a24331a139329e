SPECIFICATION FairSpec
CONSTANTS
    c1 = c1
    c2 = c2
    foo = foo
    foo2 = foo2
    dir = dir
    dir2 = dir2
    Clients = {c1, c2}
    Trusted = {c1}
    Spelling = {}
    Running = {0, 1}
    Names = {foo}
    Second <- MCSecond
    Coalesce = FALSE
    NoReq = NoReq
    Missing = Missing
    MaxFds = 6
    Creatable = {foo, foo2}
    Zeros = Zeros
    Local <- MCLocalNo
    Typed <- MCLists
    MaxCmds <- MCTwice
CHECK_DEADLOCK FALSE
INVARIANTS AskedInv ListComes ListInv
PROPERTY FirstListReturns
