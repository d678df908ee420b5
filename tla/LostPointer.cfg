SPECIFICATION Spec
CONSTANTS
    None = None
    Users = {u1}
    Requests = {r1}
    MaxTabs = 1
    TicketsPerUser = 3
    SessionsPerUser = 3
    MaxActiveSessions = 1
    RoomCapacity = 1
    TicketTTL = 1
    SessionTTL = 2
    HasLocker = FALSE
    CanFail = FALSE
    MaxLag = 0
SYMMETRY Symmetry
INVARIANT LiveSessionFindable
