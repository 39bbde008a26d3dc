CONSTANTS
    RootInode = RootInode
    DevInode = DevInode
    SysInode = SysInode
    TtyInode = TtyInode
    SysfsRoot = SysfsRoot
    MeminfoInode = MeminfoInode
    NoInode = NoInode
    NoPath = NoPath
    Inodes = {RootInode, DevInode, SysInode, TtyInode, SysfsRoot, MeminfoInode, n1}
    UserNames = {"a"}
    Tasks = {1, 2}
    InitTask = 1
    Paths <- MCDataPaths
    ResolvePaths <- MCDataPaths
    FdArgs = {0}
    Offsets = {3}
    OpenFlagSets <- MCFlagSets
    FdBits = 2
    MaxFileObjects = 2
    Lengths = {1, 2}
    TruncateSizes = {1}
    Bytes = {1}
    MaxOffset = 3
    RAMFS_CLUSTER_CAPACITY = 2
SPECIFICATION Spec
VIEW MCView
INVARIANTS
    RamfsReadMatchesContent
