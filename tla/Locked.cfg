SPECIFICATION Spec
CONSTANTS
    None = None
    Users = {u1, u2}
    Requests = {r1, r2}
    MaxTabs = 1
    TicketsPerUser = 3
    SessionsPerUser = 3
    MaxActiveSessions = 1
    RoomCapacity = 1
    TicketTTL = 1
    SessionTTL = 2
    HasLocker = TRUE
    CanFail = FALSE
    MaxLag = 1
SYMMETRY Symmetry
INVARIANT CapacityRespected
INVARIANT LiveSessionsCounted
INVARIANT SessionsExpire
PROPERTY PoolSpec
PROPERTY PointerLostOnlyWhileExtending
