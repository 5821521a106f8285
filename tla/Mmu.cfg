CONSTANTS
    Levels = 3
    Entries = 2
    Tables = {0, 1, 2}
    Rom = {2}
    Root = 0
    Frames = {0, 1, 2, 4, 5, 6, 7}
    Ptes <- MCPtes
    RomPte <- MCRomPte
    Ctxs <- MCCtxs
SPECIFICATION Spec
INVARIANTS WalkFollowsTables DirtyTracksStores
