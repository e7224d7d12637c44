SPECIFICATION ConnectionSpec
CONSTANTS
    BaseDelay <- MCBaseDelay
    MaxDelay <- MCMaxDelay
    MaxConnects = 2
    MaxDisconnects = 2
    MaxDrops = 3
INVARIANTS
    ConnectionTypeOK
    ReconnectsDoNotMultiply
PROPERTIES
    FeedComesBack
CHECK_DEADLOCK FALSE
