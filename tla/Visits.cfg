SPECIFICATION VisitorsSpec
CONSTANTS
    None = None
    Users = {u1, u2, u3}
    Requests = {r1}
    MaxTabs = 1
    TicketsPerUser = 3
    SessionsPerUser = 3
    MaxActiveSessions = 2
    RoomCapacity = 1
    TicketTTL = 2
    SessionTTL = 2
    HasLocker = FALSE
    CanFail = FALSE
    MaxLag = 0
    Browsers = {b1, b2}
    ApiClients = {a1}
    TabsPerBrowser = 1
    MaxVisits = 2
    RefreshTicks = 1
    HeartbeatTicks = 1
    Prompt = TRUE
    MayClose = FALSE
INVARIANT VisitorsTypeOK
INVARIANT WaitingPageHasPlace
INVARIANT EveryPlaceHasAVisitor
INVARIANT HeartbeatsKeepPlace
INVARIANT LiveSessionFindable
PROPERTY WaitingEnters
