SPECIFICATION Spec
CONSTANTS
    c1 = c1
    c2 = c2
    news = news
    social = social
    lost = lost
    down = down
    mixed = mixed
    nowhere = nowhere
    Conns = {c1, c2}
    Threads = {1, 2}
    Fds = {4, 5, 6, 7, 8}
    NoFd = NoFd
    Nobody = Nobody
    Names = {news, social, lost, down}
    Known = {news, social, down}
    Address <- MCAddress
    Torn = {mixed, nowhere}
    Up = {news, social, mixed}
    Blacklist = {social}
    Requests <- MCRequests
    Junk = {lost}
    NoName = NoName
    NoRequest = NoRequest
    NoAddress = NoAddress
    Itself = Itself
CHECK_DEADLOCK FALSE
INVARIANT OwnHost
