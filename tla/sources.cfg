SPECIFICATION Spec
CONSTANTS
    Paths = {"p", "q"}
    ElementSize <- MCElementSize
    Scalarised = {"INT", "REAL"}
    Word = 1000
    Ids = {"o"}
    LoadCount = 1
    Threads = {"R", "B"}
    RThread = "R"
    Workers = {"w1", "w2"}
    Orders <- MCOrders
    Written = {99}
    AltIds = {"a", "b"}
    AltSeqs <- MCAltSeqs
    AltWritten = {98}
    Room = 2
    UfoRoom = 2
    MaxStores = 1
    Disk0 <- MCDisk0
INVARIANTS   FilesAccounted
PROPERTIES ReadsReturn
CHECK_DEADLOCK FALSE
