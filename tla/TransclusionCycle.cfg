SPECIFICATION FairSpec
CONSTANTS
    a = a
    b = b
    c = c
    x = x
    root = root
    dir = dir
    sub = sub
    NULL = NULL
    Files <- AllFiles
    Dirs <- AllDirs
    Denied = {x}
    Root = root
    DirOf <- Parents
    Disks <- CutDisks
    Commands <- SourceA
    kBUFFERSIZE = 2
    MaxDepth = 9
INVARIANT NoFileInsideItself
CHECK_DEADLOCK FALSE
