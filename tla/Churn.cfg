SPECIFICATION VisitorsSpec
CONSTANTS
    None = None
    Users = {u1, u2}
    Requests = {r1, r2}
    MaxTabs = 2
    TicketsPerUser = 2
    SessionsPerUser = 2
    MaxActiveSessions = 1
    RoomCapacity = 1
    TicketTTL = 2
    SessionTTL = 1
    HasLocker = FALSE
    CanFail = TRUE
    MaxLag = 1
    Browsers = {b1}
    ApiClients = {}
    TabsPerBrowser = 2
    MaxVisits = 1
    RefreshTicks = 1
    HeartbeatTicks = 1
    Prompt = FALSE
    MayClose = TRUE
PROPERTY EveryVisitAnswered
