SPECIFICATION FairSpec
CONSTANTS
    c1 = c1
    c2 = c2
    index = index
    fancybox = fancybox
    root = root
    lost = lost
    empty = empty
    Conns = {c1, c2}
    Threads = {1, 2}
    Fds = {4, 5, 6}
    NoFd = NoFd
    Nobody = Nobody
    Paths = {index, fancybox, root, lost, empty}
    Kind <- MCKind
    Size <- MCSize
    Text <- MCText
    Index = index
    Junk = {root}
    NoPath = NoPath
    NoHead = NoHead
CHECK_DEADLOCK FALSE
INVARIANTS
    TypeOK
    HttpInv
    LeaksBounded
    EndsOnlyFor
    Attended
PROPERTIES
    ServiceSpec
    Answered
    Progress
