SPECIFICATION FairSpec
CONSTANTS
    Ids = {"t1", "t2", "t3"}
    Users = {"alice", "bob", ""}
    Contexts = {"c1", "c2"}
    Senders <- MCSenders
    TaskTTL = 1
    PageSize = 2
    MaxPage = 2
    OverFetch = 2
    MaxVersion = 2
    Faults = {"error", "stop"}
    None = None
INVARIANTS
    IInv
    ListIsNewestMatching
PROPERTIES
    StoredFollowsLife
    TasksAreSettled
