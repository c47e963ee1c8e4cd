SPECIFICATION FairSpec
CONSTANTS
    a = a
    b = b
    c = c
    x = x
    root = root
    dir = dir
    sub = sub
    NULL = NULL
    Files <- AllFiles
    Dirs <- AllDirs
    Denied = {x}
    Root = root
    DirOf <- Parents
    Disks <- AllDisks
    Commands <- AllCommands
    kBUFFERSIZE = 2
    MaxDepth = 9
INVARIANTS
    TypeOK
    OnlyCutPathsRepeat
    DepthBounded
    OnlyLostFoldersCrash
    ExpandsLikeReference
    UnreadableFilesReported
PROPERTY
    TransclusionEnds
CHECK_DEADLOCK FALSE
