\* The favorite label against the eviction of records.
SPECIFICATION NodesSpec
CHECK_DEADLOCK FALSE
SYMMETRY Hearers
CONSTANTS
    Absent = Absent
    Bad = Bad
    h1 = h1
    h2 = h2
    id1 = id1
    id2 = id2
    mac1 = mac1
    Handlers = {h1, h2}
    Keys <- TheKeys
    Order <- TheOrder
    Observations <- TheObservations
    Worlds <- TheWorlds
    LocalIds = {id2}
    NodeLimit = 2
    MinLimit = 1
    Budget = 2
    OtherEntities = 1
    YieldEvery = 1
    Timeout = 0
    MaxTime = 2
PROPERTY FavoritesStay
