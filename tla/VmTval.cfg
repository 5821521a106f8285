CONSTANTS
    PageSize = 4
    VPages = 2
    PPages = 4
    Ram = {0, 2}
    Mrom = {1}
    Wide = 4
    Sizes = {2, 4}
    Values = {0, 3}
    MromByte = 3
SPECIFICATION VmSpec
INVARIANT TvalNamesFault
