SPECIFICATION Spec
CONSTANTS
    Conn = {k1}
    Uri = {1}
    Root = 1
    Modulas = {}
    Keys = {0, 1}
    CacheMax = 2
    Timeout = 1
    MaxPage = 3
    MaxTime = 1
    MaxRequest = 3
PROPERTY
    ChangeNoticed
CHECK_DEADLOCK FALSE
