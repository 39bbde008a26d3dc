\* Two-byte clusters and pages, two entries per directory page, name[] of
\* three bytes; every FAT over clusters 2-4 and the directory images of
\* MCExfat; reads and writes of 1 and 3 bytes; offsets up to 5.  The model
\* stops where the kernel does: in a directory chain that loops, and when
\* every path through the mount point faults.
CONSTANTS
    PAGE = 2
    ENTRIES_PER_PAGE = 2
    DENTRY_MAX_NAME_LENGTH = 2
    NAME_CHARS_PER_ENTRY = 2
    BytesPerSectorExp = 0
    SectorsPerClusterExp = 1
    ClusterHeapOffset = 0
    Clusters = {2, 3, 4}
    RootCluster = 2
    DirImages <- MCDirImages
    Lengths = {1, 3}
    MaxOffset = 5
    MaxFaults = 1

SPECIFICATION Spec
INVARIANTS
    ExfatTypeOK
    DirMatchesEntries
    LoadFollowsChain
    TransferStaysInFile
CHECK_DEADLOCK FALSE
