SPECIFICATION Spec
CONSTANTS
    None = None
    Users = {u1, u2, u3}
    Requests = {r1}
    MaxTabs = 1
    TicketsPerUser = 4
    SessionsPerUser = 3
    MaxActiveSessions = 1
    RoomCapacity = 3
    TicketTTL = 2
    SessionTTL = 2
    HasLocker = FALSE
    CanFail = FALSE
    MaxLag = 1
SYMMETRY Symmetry
INVARIANT RecordsAgree
PROPERTY FirstComeFirstServed
PROPERTY PlaceKept
PROPERTY TurnstileSpec
