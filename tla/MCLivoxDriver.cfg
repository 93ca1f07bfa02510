SPECIFICATION FairSpec
CONSTANTS
    a = a
    b = b
    NumLidars = 2
    Configured <- MCConfigured
    Items = {a}
    QueueSize = 2
    IndexMod = 4
    Frame = {a, b}
    Sends <- MCSends
    MaxInfo <- MCMaxInfo
INVARIANTS TypeOK NoSlotRace
PROPERTIES DeliversFramesInOrder QueuedIsPublished ShutdownCompletes
