CONSTANTS
    TaskIds = {t1, t2, t3}
    BlockSize = 2
    FileSizes <- MCFileSizes
    MaxConnections = 2
    MaxSpansPerCall = 2
    MaxWebseeds = 1
    RequestTags = 1
SPECIFICATION Spec
INVARIANT TypeOK
INVARIANT CacheIntegrity
INVARIANT ChunkFollowsBuffer
INVARIANT LimiterCountsFetches
INVARIANT HeldTaskHasFetch
PROPERTY AdmissionRespectsLimit
PROPERTY BlocksAccounted
PROPERTY TaskTransferRefined
SYMMETRY TaskSymmetry
