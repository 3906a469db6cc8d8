CONSTANTS
    TaskIds = {t1}
    BlockSize = 2
    FileSizes <- MCFileSizes
    MaxConnections = 2
    MaxSpansPerCall = 2
    MaxWebseeds = 1
    RequestTags = 2
SPECIFICATION TransportFairSpec
PROPERTY TaskEventuallyRetires
