SPECIFICATION Spec
CONSTANTS
    c1 = c1
    c2 = c2
    foo = foo
    foo2 = foo2
    dir = dir
    dir2 = dir2
    Clients = {c1, c2}
    Trusted = {c1}
    Spelling = {}
    Running = {0}
    Names = {foo, dir}
    Second <- MCSecond
    Coalesce = TRUE
    NoReq = NoReq
    Missing = Missing
    MaxFds = 7
    Creatable = {foo, foo2}
    Zeros = Zeros
    Local <- MCLocalTwo
    Typed <- MCMixed
    MaxCmds <- MCC2Twice
CHECK_DEADLOCK FALSE
INVARIANTS
    TypeOK
    
    TrustInv
