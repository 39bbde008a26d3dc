CONSTANTS
    RootInode = RootInode
    DevInode = DevInode
    SysInode = SysInode
    TtyInode = TtyInode
    SysfsRoot = SysfsRoot
    MeminfoInode = MeminfoInode
    NoInode = NoInode
    NoPath = NoPath
    Inodes = {RootInode, DevInode, SysInode, TtyInode, SysfsRoot, MeminfoInode, n1, n2}
    UserNames = {"a"}
    Tasks = {1, 2}
    InitTask = 1
    Paths <- MCFdPaths
    ResolvePaths <- MCResolvePaths
    FdArgs = {0, 1}
    Offsets = {1}
    OpenFlagSets <- MCFlagSets
    FdBits = 2
    MaxFileObjects = 2
    Lengths = {}
    TruncateSizes = {}
    Bytes = {1}
    MaxOffset = 0
    RAMFS_CLUSTER_CAPACITY = 3
SPECIFICATION Spec
VIEW MCView
INVARIANTS
    FilesTypeOK
    FdsSortedUnique
    ResolveMatchesReference
PROPERTIES
    FdMapRefined
