SPECIFICATION MCSpec
CONSTANTS
    Nodes = {n1, n2}
    NoTag = NoTag
    MaxToken = 2
    MaxEdits = 2
    FenceTries = 2
    PutTries = 2
    MaxFaults = 1
    Scenarios = {{}, {"reattach"}, {"restart"}}
    Callers = {a, b}
    NoThread = NoThread
    NumEntries = 3
    PerByte = 2
    PageBytes = 1
    SMUses <- MapUses
    BlockUnits = 2
    GroupBlocks = 12
    InodesPerBlock = 2
    MaxGroupInodes = 4
    GroupsPerGd = 2
    DiskBlocks = 60
    ExtentBlocks = 3
    InlineExtents = 2
    LeafExtents = 2
    DirEntries = 3
    InlineBytes = 2
    SmallLink = 2
    LinkLimit = 4
    XPaths <- TarPaths
    XFiles <- TarFiles
    XOptions <- TarOptions
    WriteChunk = 7
    XOps = 3
    Stacks <- TarStacks
    TreePairs <- Snapshots
    ErBlock = 8
    ErSlot = 2
    ErFirst = 6
    ErDirFit = 3
    ErXattr = 3
    ErPaths <- ErofsPaths
    ErFiles <- ErofsFiles
    ErOptions <- ErofsOptions
    ErOps = 3
INVARIANTS
    ScanExact
    Ext4Sound
    LayersAreOverlay
    ErofsSound
PROPERTIES TokensDecide ImplementsSingleWriter MapIsAtomic
CHECK_DEADLOCK FALSE
