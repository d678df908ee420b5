SPECIFICATION Spec
CONSTANTS
    None = None
    Users = {u1}
    Requests = {r1, r2}
    MaxTabs = 2
    TicketsPerUser = 3
    SessionsPerUser = 1
    MaxActiveSessions = 1
    RoomCapacity = 1
    TicketTTL = 1
    SessionTTL = 1
    HasLocker = FALSE
    CanFail = TRUE
    MaxLag = 0
SYMMETRY Symmetry
INVARIANT TypeOK
INVARIANT TicketPointersResolve
