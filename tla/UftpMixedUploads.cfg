SPECIFICATION Spec
CONSTANTS
    c1 = c1
    c2 = c2
    f1 = f1
    f2 = f2
    foo1 = foo1
    foo2 = foo2
    foo3 = foo3
    empty = empty
    Clients = {c1, c2}
    Names = {f1}
    Bodies <- MCBodies
    BodySize <- MCBodySize
    TextSize <- MCTextSize
    LineLen = 11
    ListLen = 60
    NoName = NoName
    NoFile = NoFile
    Notice = Notice
    MaxFaults = 0
    StoreInit <- MCStore
    LocalInit <- MCLocal
    Typed = {"put", "ls"}
    MaxCmds = 1
CHECK_DEADLOCK FALSE
INVARIANT UploadsPaired
