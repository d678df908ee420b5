SPECIFICATION VisitorsSpec
CONSTANTS
    None = None
    Users = {u1, u2}
    Requests = {r1, r2}
    MaxTabs = 1
    TicketsPerUser = 3
    SessionsPerUser = 3
    MaxActiveSessions = 1
    RoomCapacity = 1
    TicketTTL = 2
    SessionTTL = 2
    HasLocker = FALSE
    CanFail = FALSE
    MaxLag = 0
    Browsers = {b1, b2}
    ApiClients = {}
    TabsPerBrowser = 1
    MaxVisits = 2
    RefreshTicks = 1
    HeartbeatTicks = 1
    Prompt = TRUE
    MayClose = FALSE
PROPERTY FreeSlotFilled
