CONSTANTS
    TaskIds = {t1, t2, t3}
    BlockSize = 2
    FileSizes <- MCFileSizes
    MaxConnections = 2
    MaxSpansPerCall = 2
    MaxWebseeds = 1
    RequestTags = 1
SPECIFICATION Spec
SYMMETRY TaskSymmetry
INVARIANT GotDataOnLiveWebseed
