CONSTANTS
    DRAM <- MCDRAM
    SECTOR_SIZE = 2
    capacity = 2
    U64 = 64
    BLK_MAX_CHAIN = 4
    RNG_MAX_CHAIN = 2
    SERIAL_LEN = 1
    HeadIds = {0, 1}
    BufLen = 3
    BlkShapes <- MCBlkShapes
    RngShapes <- MCRngShapes
    MaxRequests = 3
    MaxFaults = 1
SPECIFICATION Spec
INVARIANTS AckedWritesKept ReadsCoherent UsedLenExact
PROPERTIES WritesWhole DeviceKeepsOut
