SPECIFICATION Spec
CONSTANTS
    None = None
    Users = {u1, u2, u3, u4}
    Requests = {r1, r2}
    MaxTabs = 1
    TicketsPerUser = 3
    SessionsPerUser = 3
    MaxActiveSessions = 1
    RoomCapacity = 1
    TicketTTL = 1
    SessionTTL = 0
    HasLocker = FALSE
    CanFail = FALSE
    MaxLag = 0
SYMMETRY Symmetry
INVARIANT QueueHasNoDuplicates
INVARIANT BoundedOvershoot
