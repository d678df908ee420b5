--------------------------- MODULE VisitorProofs ---------------------------
(***************************************************************************)
(* What a visitor may rely on, as far as it is a matter of safety.         *)
(*                                                                         *)
(* Visitors and handlers together behave as the handlers do by themselves  *)
(* (VisitorsRefine), so that all that is proved of EnterWaitingRoom holds  *)
(* here.  What is added is who knows what: which page a request is for,    *)
(* and that no two pages of different owners ever act under the same user  *)
(* id (VisitorsInv).  A request of a page that is the only one of its      *)
(* owner is therefore the only one of its user, and what it has read of    *)
(* his keys nobody else changes.  From this follow, one after the other:   *)
(* places in the queue belong to somebody (PlacesInv), the waiting page    *)
(* means a place (WaitingInv), a live session can be found (FindInv), and  *)
(* heartbeats keep it (KeepInv).                                           *)
(***************************************************************************)
EXTENDS VisitorProperties, AgreementProofs
-----------------------------------------------------------------------------
(***************************************************************************)
(* The handlers among their visitors.                                      *)
(***************************************************************************)

\* What every step of request r does to the requests: it is for the same user
\* until it is answered, and a heartbeat remains one.
Proceeds(r) ==
    /\ \A q \in Requests \ {r} : req'[q] = req[q]
    /\ \/ req'[r] = Idle
       \/ /\ req'[r].pc # "idle" /\ req'[r].user = req[r].user
          /\ req[r].path = "refresh" => req'[r].path = "refresh" /\ req'[r].session = req[r].session

\* Every step does so.
LEMMA ProceedsStep ==
    ASSUME RequestsOK, NEW r \in Requests, Step(r)
    PROVE  Proceeds(r)
<1>0. /\ req \in [Requests -> GoodRequest] /\ req[r] \in RequestType
      /\ req[r].pc \in Loading => req[r].path = "none"
  BY RequestFacts DEF RequestsOK, Consistent
<1>1. CASE GetUser(r)
  BY <1>0, <1>1 DEF GetUser, At, Loading, RequestType, Proceeds
<1>2. CASE GetActiveSession(r)
  BY <1>0, <1>2 DEF GetActiveSession, At, Goto, Loading, RequestType, Proceeds
<1>3. CASE GetSession(r)
  BY <1>0, <1>3 DEF GetSession, At, Take, Idle, Loading, RequestType, Proceeds
<1>4. CASE GetActiveTicket(r)
  BY <1>0, <1>4 DEF GetActiveTicket, At, Loading, RequestType, Proceeds
<1>5. CASE ExpireTicket(r)
  BY <1>0, <1>5 DEF ExpireTicket, At, TicketFound, Take, Idle, Loading, RequestType, Proceeds
<1>6. CASE TryPromote(r)
  BY <1>0, <1>6 DEF TryPromote, At, TicketFound, Loading, RequestType, Proceeds
<1>7. CASE StayQueued(r)
  BY <1>0, <1>7 DEF StayQueued, At, TicketFound, Take, Idle, Loading, RequestType, Proceeds
<1>8. CASE TryUse(r)
  BY <1>0, <1>8 DEF TryUse, At, TicketFound, Loading, RequestType, Proceeds
<1>9. CASE TryDirect(r)
  BY <1>0, <1>9 DEF TryDirect, At, TicketMissing, Take, Idle, Loading, RequestType, Proceeds
<1>10. CASE TryIssue(r)
  BY <1>0, <1>10 DEF TryIssue, At, TicketMissing, IssueTicket, Take, Idle, Loading, RequestType, Proceeds
<1>11. CASE Lock(r)
  BY <1>0, <1>11 DEF Lock, At, Loading, RequestType, Proceeds
<1>12. CASE Exists(r)
  <2>1. PICK s \in req[r].todo :
          \/ req' = [req EXCEPT ![r].todo = @ \ {s}, ![r].counted = @ \cup {s}]
          \/ req' = [req EXCEPT ![r].pc = "srem", ![r].todo = @ \ {s}, ![r].member = s]
    BY <1>12 DEF Exists
  <2> QED
    BY <1>0, <1>12, <2>1 DEF Exists, At, Loading, RequestType, Proceeds
<1>13. CASE Srem(r)
  BY <1>0, <1>13 DEF Srem, At, Loading, RequestType, Proceeds
<1>14. CASE PromoteAdmitted(r)
  BY <1>0, <1>14 DEF PromoteAdmitted, At, Counted, Loading, RequestType, Proceeds
<1>15. CASE PromoteRefused(r)
  BY <1>0, <1>15 DEF PromoteRefused, At, Counted, Take, Idle, Loading, RequestType, Proceeds
<1>16. CASE UseAdmitted(r)
  BY <1>0, <1>16 DEF UseAdmitted, At, Counted, CreateSession, Take, Idle, Loading, RequestType, Proceeds
<1>17. CASE UseRefused(r)
  BY <1>0, <1>17 DEF UseRefused, At, Counted, Take, Idle, Loading, RequestType, Proceeds
<1>18. CASE DirectAdmitted(r)
  BY <1>0, <1>18 DEF DirectAdmitted, At, Counted, CreateSession, Take, Idle, Loading, RequestType, Proceeds
<1>19. CASE DirectRefused(r)
  BY <1>0, <1>19 DEF DirectRefused, At, Counted, IssueTicket, Take, Idle, Loading, RequestType, Proceeds
<1>20. CASE SetTicket(r)
  BY <1>0, <1>20 DEF SetTicket, At, Loading, RequestType, Proceeds
<1>21. CASE SetActiveTicket(r)
  BY <1>0, <1>21 DEF SetActiveTicket, At, Goto, Loading, RequestType, Proceeds
<1>22. CASE SetRoom(r)
  <2>1. \/ req' = [req EXCEPT ![r] = Idle]
        \/ \E next \in {"setTicket", "setUser"} :
              req' = [req EXCEPT ![r].pc = next, ![r].room = <<>>]
    BY <1>22 DEF SetRoom, Finish
  <2> QED
    BY <1>0, <2>1 DEF RequestType, Proceeds
<1>23. CASE SetUser(r)
  BY <1>0, <1>23 DEF SetUser, At, Finish, Idle, Loading, RequestType, Proceeds
<1>24. CASE SetSession(r)
  BY <1>0, <1>24 DEF SetSession, At, Goto, Loading, RequestType, Proceeds
<1>25. CASE SetActiveSession(r)
  BY <1>0, <1>25 DEF SetActiveSession, At, Goto, Loading, RequestType, Proceeds
<1>26. CASE AddActive(r)
  BY <1>0, <1>26 DEF AddActive, At, Goto, Loading, RequestType, Proceeds
<1>27. CASE ExpireSession(r)
  BY <1>0, <1>27 DEF ExpireSession, At, Goto, Loading, RequestType, Proceeds
<1>28. CASE ExpireActive(r)
  BY <1>0, <1>28 DEF ExpireActive, At, Goto, Loading, RequestType, Proceeds
<1>29. CASE RefreshActive(r)
  BY <1>0, <1>29 DEF RefreshActive, At, Finish, Idle, Goto, Loading, RequestType, Proceeds
<1> QED
  BY <1>1, <1>2, <1>3, <1>4, <1>5, <1>6, <1>7, <1>8, <1>9, <1>10, <1>11, <1>12, <1>13,
     <1>14, <1>15, <1>16, <1>17, <1>18, <1>19, <1>20, <1>21, <1>22, <1>23, <1>24, <1>25,
     <1>26, <1>27, <1>28, <1>29 DEF Step

\* Every page has an owner, who is a visitor.
LEMMA PagesHaveOwners ==
    /\ \A p \in Pages : Owner(p) \in Visitor /\ p # None
    /\ Browsers \cap ApiClients = {}
  BY VisitorsAssumption DEF Pages, Visitor, Owner

\* The timers, counts and views that the code sets are of their types.
LEMMA Timers ==
    /\ RefreshTicks \in 0..(IF RefreshTicks > HeartbeatTicks THEN RefreshTicks ELSE HeartbeatTicks)
    /\ HeartbeatTicks \in 0..(IF RefreshTicks > HeartbeatTicks THEN RefreshTicks ELSE HeartbeatTicks)
    /\ 0 \in 0..(IF RefreshTicks > HeartbeatTicks THEN RefreshTicks ELSE HeartbeatTicks)
    /\ 0 \in 0..MaxVisits
    /\ \A timer \in 0..(IF RefreshTicks > HeartbeatTicks THEN RefreshTicks ELSE HeartbeatTicks) :
          timer > 0 =>
             timer - 1 \in 0..(IF RefreshTicks > HeartbeatTicks THEN RefreshTicks ELSE HeartbeatTicks)
  BY VisitorsAssumption

\* A request that is being served has a page that awaits its answer.
Connected == \A r \in Requests : conn[r] = None <=> At(r, "idle")

\* What a request is asked for: a user of the right kind.
LEMMA IdentityFacts ==
    ASSUME VisitorsTypeOK, NEW p \in Pages, NEW u \in Identity(p)
    PROVE  /\ u \in Users
           /\ userId[Owner(p)] # None => u = userId[Owner(p)]
           /\ userId[Owner(p)] = None => u \notin known
<1>1. userId[Owner(p)] \in Users \cup {None}
  BY PagesHaveOwners DEF VisitorsTypeOK
<1>2. ~(Users \subseteq known) => Some(Users \ known) \in Users \ known
  BY DEF Some
<1> QED
  BY <1>1, <1>2 DEF Identity

\* Whatever visitors do, the handlers take a step of their own or none.
LEMMA HandlersStep ==
    ASSUME VisitorsTypeOK, [VisitorsNext]_allVars
    PROVE  [Next]_vars
<1>1. ASSUME NEW p \in Pages, Visit(p) \/ Refresh(p) PROVE Next
  <2>1. PICK r \in Requests, u \in Identity(p) : Start(r, u)
    BY <1>1 DEF Visit, Refresh, Ask
  <2> QED
    BY <2>1, IdentityFacts DEF Next
<1>2. ASSUME NEW p \in Pages, Beat(p) PROVE Next \/ UNCHANGED vars
  <2>1. page[p].session \in SessionIds
    BY <1>2 DEF Beat, VisitorsTypeOK, PageType
  <2> QED
    BY <1>2, <2>1 DEF Beat, Next
<1>3. ASSUME NEW p \in Pages, ClosePage(p) PROVE UNCHANGED vars
  BY <1>3 DEF ClosePage
<1>4. ASSUME NEW r \in Requests, Serve(r) \/ Fail(r) PROVE Next
  BY <1>4 DEF Serve, Fail, LastReplyLost, Next
<1>5. Crash \/ Pass => Next
  BY DEF Crash, Pass, Next
<1>6. UNCHANGED allVars => UNCHANGED vars
  BY DEF allVars
<1> QED
  BY <1>1, <1>2, <1>3, <1>4, <1>5, <1>6 DEF VisitorsNext

\* A visitor or a connection does only what is of its type, and whoever asks
\* or is answered is connected just as long as his request is in flight.
LEMMA VisitorsTypeStep ==
    ASSUME VisitorsTypeOK, Connected, IInv, VisitorsNext
    PROVE  VisitorsTypeOK' /\ Connected'
<1> DEFINE timers == 0..(IF RefreshTicks > HeartbeatTicks THEN RefreshTicks ELSE HeartbeatTicks)
<1>0. /\ userId \in [Visitor -> Users \cup {None}] /\ page \in [Pages -> PageType]
      /\ conn \in [Requests -> Pages \cup {None}] /\ known \in SUBSET Users
      /\ req \in [Requests -> GoodRequest]
      /\ \A r \in Requests : req[r] \in RequestType
      /\ \A p \in Pages : page[p] \in PageType
  BY RequestFacts DEF VisitorsTypeOK, IInv, RequestsOK
<1> DEFINE Of(view, timer, s, cookie, visits) ==
      [view |-> view, timer |-> timer, session |-> s, cookie |-> cookie, visits |-> visits]
<1>1. ASSUME NEW p \in Pages, NEW visits \in 0..MaxVisits, Ask(p, visits)
      PROVE  VisitorsTypeOK' /\ Connected'
  <2>1. PICK r \in Requests, u \in Identity(p) :
          /\ Start(r, u) /\ conn' = [conn EXCEPT ![r] = p] /\ known' = known \cup {u}
          /\ userId' = IF IsApi(p) THEN [userId EXCEPT ![Owner(p)] = u] ELSE userId
          /\ page' = [page EXCEPT ![p] =
                        [Blank EXCEPT !.view = "loading", !.visits = visits,
                                      !.cookie = IF userId[Owner(p)] = None THEN u ELSE None]]
    BY <1>1 DEF Ask
  <2>2. u \in Users /\ Owner(p) \in Visitor /\ p # None
    BY IdentityFacts, PagesHaveOwners
  <2>3. [Blank EXCEPT !.view = "loading", !.visits = visits,
                      !.cookie = IF userId[Owner(p)] = None THEN u ELSE None] \in PageType
    BY <2>2, Timers DEF PageType, PageViews, Blank
  <2>4. VisitorsTypeOK'
    BY <1>0, <2>1, <2>2, <2>3 DEF VisitorsTypeOK
  <2>5. \A q \in Requests : req'[q].pc = IF q = r THEN "getUser" ELSE req[q].pc
    BY <1>0, <2>1 DEF Start, Idle
  <2>6. \A q \in Requests : conn'[q] = IF q = r THEN p ELSE conn[q]
    BY <1>0, <2>1
  <2> QED
    BY <2>2, <2>4, <2>5, <2>6 DEF Connected, At
<1>2. ASSUME NEW p \in Pages, Visit(p) \/ Refresh(p) PROVE VisitorsTypeOK' /\ Connected'
  <2>1. page[p].visits \in 0..MaxVisits /\ MaxVisits \in Nat
    BY <1>0, VisitorsAssumption DEF PageType
  <2>2. page[p].visits < MaxVisits => page[p].visits + 1 \in 0..MaxVisits
    BY <2>1
  <2> QED
    BY <1>1, <1>2, <2>1, <2>2 DEF Visit, Refresh
<1>3. ASSUME NEW p \in Pages, Beat(p) PROVE VisitorsTypeOK' /\ Connected'
  <2>1. /\ page' = [page EXCEPT ![p].timer = HeartbeatTicks] /\ UNCHANGED <<userId, known>>
        /\ \/ \E r \in Requests : Heartbeat(r, page[p].session) /\ conn' = [conn EXCEPT ![r] = p]
           \/ UNCHANGED <<vars, conn>>
    BY <1>3 DEF Beat
  <2>2. [page[p] EXCEPT !.timer = HeartbeatTicks] \in PageType
    BY <1>0, Timers DEF PageType
  <2>3. VisitorsTypeOK'
    BY <1>0, <2>1, <2>2 DEF VisitorsTypeOK
  <2>4. ASSUME NEW r \in Requests, Heartbeat(r, page[p].session), conn' = [conn EXCEPT ![r] = p]
        PROVE  Connected'
    <3>1. \A q \in Requests : req'[q].pc = IF q = r THEN "expireSession" ELSE req[q].pc
      BY <1>0, <2>4 DEF Heartbeat, Idle
    <3>2. \A q \in Requests : conn'[q] = IF q = r THEN p ELSE conn[q]
      BY <1>0, <2>4
    <3> QED
      BY <3>1, <3>2, PagesHaveOwners DEF Connected, At
  <2> QED
    BY <2>1, <2>3, <2>4 DEF Connected, At, vars
<1>4. ASSUME NEW p \in Pages, ClosePage(p) PROVE VisitorsTypeOK' /\ Connected'
  <2>1. [Blank EXCEPT !.view = "closed"] \in PageType
    BY Timers DEF PageType, PageViews, Blank
  <2> QED
    BY <1>0, <1>4, <2>1 DEF ClosePage, VisitorsTypeOK, Connected, At, vars
<1>5. ASSUME NEW p \in Pages PROVE ErrorPage(p) \in PageType
  BY <1>0, Timers DEF PageType, PageViews, ErrorPage, Blank
<1>6. ASSUME NEW r \in Requests, Serve(r) PROVE VisitorsTypeOK' /\ Connected'
  <2>1. Proceeds(r) /\ req[r].pc # "idle"
    BY <1>6, NotIdle, ProceedsStep DEF Serve, IInv
  <2>2. conn[r] \in Pages /\ Owner(conn[r]) \in Visitor /\ page[conn[r]] \in PageType
    BY <1>0, <2>1, PagesHaveOwners DEF Connected, At
  <2>3. CASE req'[r].pc = "idle"
    <3>1. Answered(r) /\ conn' = [conn EXCEPT ![r] = None] /\ known' = known
      BY <1>6, <2>3 DEF Serve
    <3>2. /\ page' \in [Pages -> PageType]
          /\ userId' \in [Visitor -> Users \cup {None}]
      <4>1. req[r].session \in SessionIds \cup {None}
        BY <1>0 DEF RequestType
      <4>2. page[conn[r]].cookie \in Users \cup {None}
        BY <2>2 DEF PageType
      <4>3. [page[conn[r]] EXCEPT !.view = "target", !.cookie = None,
                !.timer = IF IsApi(conn[r]) THEN HeartbeatTicks ELSE 0,
                !.session = SessionTold(conn[r], r)] \in PageType
        BY <2>2, <4>1, Timers DEF PageType, PageViews, SessionTold
      <4>4. [page[conn[r]] EXCEPT !.view = "waiting", !.cookie = None, !.timer = RefreshTicks] \in PageType
        BY <2>2, Timers DEF PageType, PageViews
      <4> QED
        BY <1>0, <2>2, <3>1, <4>2, <4>3, <4>4 DEF Answered, SetCookie
    <3>3. VisitorsTypeOK'
      BY <1>0, <3>1, <3>2 DEF VisitorsTypeOK
    <3> QED
      BY <1>0, <2>1, <2>3, <3>1, <3>3 DEF Connected, At, Proceeds
  <2>4. CASE req'[r].pc # "idle"
    <3>1. UNCHANGED visitorVars
      BY <1>6, <2>4 DEF Serve, visitorVars
    <3> QED
      BY <2>1, <2>4, <3>1 DEF Proceeds, VisitorsTypeOK, Connected, At, visitorVars
  <2> QED
    BY <2>3, <2>4
<1>7. ASSUME NEW r \in Requests, Fail(r) PROVE VisitorsTypeOK' /\ Connected'
  <2>1. /\ conn' = [conn EXCEPT ![r] = None] /\ known' = known
        /\ page' = [page EXCEPT ![conn[r]] = ErrorPage(conn[r])]
        /\ SetCookie(conn[r]) \/ UNCHANGED userId
        /\ ~At(r, "idle") /\ req'[r].pc = "idle" /\ \A q \in Requests \ {r} : req'[q] = req[q]
    <3>1. CASE Abort(r)
      BY <1>0, <1>7, <3>1 DEF Fail, Abort, Finish, Idle, IInv, RequestsOK
    <3>2. CASE LastReplyLost(r)
      <4>1. ~At(r, "idle") /\ \A q \in Requests \ {r} : req'[q] = req[q]
        BY <3>2, NotIdle, ProceedsStep DEF LastReplyLost, At, IInv, Proceeds
      <4> QED
        BY <1>7, <3>2, <4>1 DEF Fail, LastReplyLost
    <3> QED
      BY <1>7, <3>1, <3>2 DEF Fail
  <2>2. conn[r] \in Pages /\ Owner(conn[r]) \in Visitor /\ page[conn[r]].cookie \in Users \cup {None}
    BY <1>0, <2>1, PagesHaveOwners DEF Connected, PageType
  <2>3. VisitorsTypeOK'
    BY <1>0, <1>5, <2>1, <2>2 DEF VisitorsTypeOK, SetCookie
  <2> QED
    BY <1>0, <2>1, <2>3 DEF Connected, At, Idle
<1>8. CASE Crash
  BY <1>0, <1>5, <1>8 DEF Crash, Restart, VisitorsTypeOK, Connected, At, Idle
<1>9. CASE Pass
  <2>1. ASSUME NEW p \in Pages
        PROVE  [page[p] EXCEPT !.timer = CountDown(p)] \in PageType
    <3>1. page[p].timer \in timers /\ CountDown(p) \in timers
      <4>1. page[p].timer \in timers
        BY <1>0 DEF PageType
      <4>2. HasTimer(p) => page[p].timer > 0
        BY <1>9 DEF Pass
      <4> QED
        BY <4>1, <4>2, Timers DEF CountDown
    <3> QED
      BY <1>0, <3>1 DEF PageType
  <2>2. /\ page' = [p \in Pages |-> [page[p] EXCEPT !.timer = CountDown(p)]]
        /\ UNCHANGED <<userId, conn, known>> /\ Tick
    BY <1>9 DEF Pass
  <2>3. VisitorsTypeOK'
    BY <1>0, <2>1, <2>2 DEF VisitorsTypeOK
  <2>4. \A r \in Requests : req'[r].pc = req[r].pc
    BY <1>0, <2>2 DEF Tick, RequestType
  <2> QED
    BY <2>2, <2>3, <2>4 DEF Connected, At
<1> QED
  BY <1>2, <1>3, <1>4, <1>6, <1>7, <1>8, <1>9 DEF VisitorsNext

\* All this holds from the start on.
Base == VisitorsTypeOK /\ Connected /\ IInv

\* Types, connections and the invariant of the handlers always hold.
THEOREM BaseInvariance == VisitorsSpec => []Base
<1>1. VisitorsInit => VisitorsTypeOK /\ Connected
  <2>1. Blank \in PageType
    BY Timers DEF PageType, PageViews, Blank
  <2> QED
    BY <2>1 DEF VisitorsInit, Init, VisitorsTypeOK, Connected, At, Idle
<1>2. VisitorsInit => IInv
  BY InitialInvariant DEF VisitorsInit
<1>3. Base /\ [VisitorsNext]_allVars => Base'
  <2> SUFFICES ASSUME Base, [VisitorsNext]_allVars PROVE Base'
    OBVIOUS
  <2>1. IInv'
    BY HandlersStep, InvariantStep DEF Base
  <2>2. VisitorsTypeOK' /\ Connected'
    <3>1. CASE VisitorsNext
      BY <3>1, VisitorsTypeStep DEF Base
    <3>2. CASE UNCHANGED allVars
      BY <3>2 DEF allVars, vars, visitorVars, Base, VisitorsTypeOK, Connected, At
    <3> QED
      BY <3>1, <3>2
  <2> QED
    BY <2>1, <2>2 DEF Base
<1> QED
  BY <1>1, <1>2, <1>3, PTL DEF VisitorsSpec, Base

\* Visitors and connections hold what the code can put there.
THEOREM VisitorsTypeCorrect == VisitorsSpec => []VisitorsTypeOK
  BY BaseInvariance, PTL DEF Base

\* All that is true of the handlers by themselves is true of them here.
THEOREM VisitorsRefine == VisitorsSpec => Spec
<1>1. VisitorsInit => Init
  BY DEF VisitorsInit
<1>2. VisitorsTypeOK /\ [VisitorsNext]_allVars => [Next]_vars
  BY HandlersStep
<1> QED
  BY <1>1, <1>2, VisitorsTypeCorrect, PTL DEF VisitorsSpec, Spec
-----------------------------------------------------------------------------
(***************************************************************************)
(* Who is who.                                                             *)
(***************************************************************************)

\* Page p is the only one of its owner.
Sole(p) == \A q \in Pages : Owner(q) = Owner(p) => q = p

\* Visitor v acts as user u, or will when an answer brings the cookie.
Uses(v, u) ==
    /\ u # None
    /\ \/ userId[v] = u
       \/ \E p \in Pages : Owner(p) = v /\ page[p].cookie = u

\* No two visitors ever act as the same user.
NamesInv ==
    \A v \in Visitor, u \in Users :
        Uses(v, u) => u \in known /\ \A w \in Visitor : Uses(w, u) => w = v

\* What page p knows.
PageInv(p) ==
    /\ page[p].cookie # None => Views(p, "loading")
    /\ Views(p, "loading") => Awaiting(p)
    /\ page[p].session # None =>
           IsApi(p) /\ Views(p, "target") /\ Owner(page[p].session) = Me(p)
    /\ Sole(p) /\ page[p].cookie # None =>
           Me(p) = page[p].cookie \/ (Me(p) = None /\ ~IsApi(p))

\* Whose request r is.
RequestInv(r) ==
    conn[r] # None =>
        /\ req[r].user \in known
        /\ \A v \in Visitor : Uses(v, req[r].user) => v = Owner(conn[r])
        /\ Sole(conn[r]) => Uses(Owner(conn[r]), req[r].user)
        /\ \/ Views(conn[r], "loading")
           \/ page[conn[r]].session # None /\ page[conn[r]].session = req[r].session /\ req[r].path = "refresh"
        /\ \A q \in Requests : conn[q] = conn[r] => q = r

\* The inductive invariant.
VisitorsInv ==
    /\ NamesInv
    /\ \A p \in Pages : PageInv(p)
    /\ \A r \in Requests : RequestInv(r)

\* An API client has one page.
LEMMA ApiPages == \A p \in Pages : IsApi(p) => Sole(p)
  BY VisitorsAssumption DEF Pages, IsApi, Sole, Owner

\* A page that is the only one of its owner has told all it knows him by.
LEMMA SoleUses ==
    ASSUME NEW p \in Pages, Sole(p), NEW u
    PROVE  Uses(Owner(p), u) <=> u # None /\ u \in {Me(p), page[p].cookie}
  BY DEF Uses, Sole, Me

\* What asking does to who is who.
LEMMA AskStep ==
    ASSUME Base, Base', VisitorsInv, NEW p \in Pages, NEW visits, Ask(p, visits), ~Views(p, "loading")
    PROVE  VisitorsInv'
<1>1. PICK r \in Requests, u \in Identity(p) :
        /\ Start(r, u) /\ conn' = [conn EXCEPT ![r] = p] /\ known' = known \cup {u}
        /\ userId' = IF IsApi(p) THEN [userId EXCEPT ![Owner(p)] = u] ELSE userId
        /\ page' = [page EXCEPT ![p] =
                      [Blank EXCEPT !.view = "loading", !.visits = visits,
                                    !.cookie = IF userId[Owner(p)] = None THEN u ELSE None]]
  BY DEF Ask
<1>2. /\ userId \in [Visitor -> Users \cup {None}] /\ page \in [Pages -> PageType]
      /\ conn \in [Requests -> Pages \cup {None}] /\ known \in SUBSET Users
      /\ req \in [Requests -> GoodRequest]
  BY DEF Base, VisitorsTypeOK, IInv, RequestsOK
<1>3. /\ u \in Users /\ u # None /\ Owner(p) \in Visitor /\ p # None
      /\ userId[Owner(p)] # None => u = userId[Owner(p)]
      /\ userId[Owner(p)] = None => u \notin known
  BY IdentityFacts, PagesHaveOwners, NoIdIsNone DEF Base
<1>4. /\ req' = [req EXCEPT ![r] = [Idle EXCEPT !.pc = "getUser", !.user = u, !.room = queue]]
      /\ req[r].pc = "idle" /\ conn[r] = None
  BY <1>1 DEF Start, At, Base, Connected
<1>5. /\ \A q \in Requests \ {r} : req'[q] = req[q] /\ conn'[q] = conn[q]
      /\ req'[r].user = u /\ conn'[r] = p
  BY <1>1, <1>2, <1>4 DEF Idle
<1>6. /\ \A q \in Pages \ {p} : page'[q] = page[q]
      /\ page'[p].view = "loading" /\ page'[p].session = None
      /\ page'[p].cookie = IF userId[Owner(p)] = None THEN u ELSE None
  BY <1>1, <1>2 DEF Blank
<1>7. /\ \A v \in Visitor \ {Owner(p)} : userId'[v] = userId[v]
      /\ userId'[Owner(p)] \in {userId[Owner(p)], u}
      /\ IsApi(p) => userId'[Owner(p)] = u
      /\ ~IsApi(p) => userId' = userId
  BY <1>1, <1>2, <1>3
<1>8. page[p].cookie = None
  BY DEF VisitorsInv, PageInv
<1>9. ASSUME NEW v \in Visitor, NEW w PROVE Uses(v, w)' <=> Uses(v, w) \/ (v = Owner(p) /\ w = u)
  BY <1>3, <1>6, <1>7, <1>8 DEF Uses
<1>10. NamesInv'
  BY <1>1, <1>3, <1>9 DEF VisitorsInv, NamesInv, Uses
<1>11. ASSUME NEW q \in Pages PROVE PageInv(q)'
  <2>1. CASE q = p
    <3>1. Awaiting(p)'
      BY <1>5 DEF Awaiting
    <3> QED
      BY <1>3, <1>6, <1>7, <2>1, <3>1 DEF PageInv, Views, Me
  <2>2. CASE q # p
    <3>1. Awaiting(q) => Awaiting(q)'
      BY <1>3, <1>4, <1>5, PagesHaveOwners DEF Awaiting
    <3>2. Sole(q) \/ IsApi(q) => userId'[Owner(q)] = userId[Owner(q)]
      BY <1>7, <2>2, PagesHaveOwners, ApiPages DEF Sole
    <3>3. page'[q] = page[q] /\ PageInv(q)
      BY <1>6, <2>2 DEF VisitorsInv
    <3> QED
      BY <3>1, <3>2, <3>3 DEF PageInv, Views, Me
  <2> QED
    BY <2>1, <2>2
<1>12. ASSUME NEW q \in Requests PROVE RequestInv(q)'
  <2>1. \A k \in Requests : conn[k] # p
    BY DEF Ask, Awaiting
  <2>2. CASE q = r
    <3>1. \A v \in Visitor : Uses(v, u)' => v = Owner(p)
      BY <1>3, <1>9 DEF VisitorsInv, NamesInv, Uses
    <3>2. Uses(Owner(p), u)'
      BY <1>3, <1>9
    <3> QED
      BY <1>1, <1>5, <1>6, <2>1, <2>2, <3>1, <3>2 DEF RequestInv, Views
  <2>3. CASE q # r /\ conn[q] # None
    <3>1. /\ conn'[q] = conn[q] /\ conn[q] # p /\ conn[q] \in Pages /\ req'[q] = req[q]
          /\ page'[conn[q]] = page[conn[q]]
          /\ RequestInv(q)
      BY <1>2, <1>5, <1>6, <2>1, <2>3 DEF VisitorsInv
    <3>2. \A k \in Requests : conn'[k] = conn'[q] => k = q
      BY <1>5, <2>3, <3>1 DEF RequestInv
    <3>3. \A v \in Visitor : Uses(v, req[q].user)' => v = Owner(conn[q])
      <4>1. req[q].user = u => Owner(conn[q]) = Owner(p)
        BY <1>3, <2>3, <3>1 DEF RequestInv, Uses
      <4> QED
        BY <1>9, <2>3, <3>1, <4>1 DEF RequestInv
    <3>4. Sole(conn[q]) => Uses(Owner(conn[q]), req[q].user)'
      BY <1>9, <2>3, <3>1, PagesHaveOwners DEF RequestInv
    <3> QED
      BY <1>1, <2>3, <3>1, <3>2, <3>3, <3>4 DEF RequestInv, Views
  <2> QED
    BY <1>5, <2>2, <2>3 DEF RequestInv
<1> QED
  BY <1>10, <1>11, <1>12 DEF VisitorsInv

\* A heartbeat is for whoever has been told the session.
LEMMA BeatStep ==
    ASSUME Base, Base', VisitorsInv, NEW p \in Pages, Beat(p)
    PROVE  VisitorsInv'
<1>1. /\ page \in [Pages -> PageType] /\ conn \in [Requests -> Pages \cup {None}]
      /\ req \in [Requests -> GoodRequest] /\ userId \in [Visitor -> Users \cup {None}]
  BY DEF Base, VisitorsTypeOK, IInv, RequestsOK
<1>2. /\ UNCHANGED <<userId, known>> /\ ~Awaiting(p) /\ page[p].session # None
      /\ page' = [page EXCEPT ![p].timer = HeartbeatTicks]
      /\ \/ \E r \in Requests : Heartbeat(r, page[p].session) /\ conn' = [conn EXCEPT ![r] = p]
         \/ UNCHANGED <<vars, conn>>
  BY DEF Beat
<1>3. \A q \in Pages : /\ page'[q].view = page[q].view /\ page'[q].session = page[q].session
                       /\ page'[q].cookie = page[q].cookie
  BY <1>1, <1>2 DEF PageType
<1>4. \A v, w : Uses(v, w)' <=> Uses(v, w)
  BY <1>2, <1>3 DEF Uses
<1>5. NamesInv'
  BY <1>2, <1>4 DEF VisitorsInv, NamesInv
<1>6. ASSUME NEW r \in Requests, Heartbeat(r, page[p].session), conn' = [conn EXCEPT ![r] = p]
      PROVE  VisitorsInv'
  <2>1. /\ req[r].pc = "idle" /\ conn[r] = None
        /\ \A q \in Requests \ {r} : req'[q] = req[q] /\ conn'[q] = conn[q]
        /\ req'[r].user = Owner(page[p].session) /\ req'[r].session = page[p].session
        /\ req'[r].path = "refresh" /\ conn'[r] = p
    BY <1>1, <1>6 DEF Heartbeat, Idle, At, Base, Connected
  <2>2. /\ Owner(page[p].session) = Me(p) /\ IsApi(p) /\ Views(p, "target")
        /\ Owner(page[p].session) \in Users /\ Owner(p) \in Visitor /\ p # None
    <3>1. page[p].session \in SessionIds
      BY <1>1, <1>2 DEF PageType
    <3> QED
      BY <1>2, <3>1, PagesHaveOwners DEF VisitorsInv, PageInv, SessionIds, Owner
  <2>3. Uses(Owner(p), Me(p))
    BY <2>2, NoIdIsNone DEF Uses, Me
  <2>4. ASSUME NEW q \in Pages PROVE PageInv(q)'
    <3>1. Awaiting(q) => Awaiting(q)'
      BY <2>1, PagesHaveOwners DEF Awaiting
    <3> QED
      BY <1>2, <1>3, <3>1 DEF VisitorsInv, PageInv, Views, Me
  <2>5. ASSUME NEW q \in Requests PROVE RequestInv(q)'
    <3>1. \A k \in Requests : conn[k] # p
      BY <1>2 DEF Awaiting
    <3>2. CASE q = r
      <4>1. Me(p) \in known /\ \A v \in Visitor : Uses(v, Me(p)) => v = Owner(p)
        BY <2>2, <2>3 DEF VisitorsInv, NamesInv
      <4> QED
        BY <1>2, <1>3, <1>4, <2>1, <2>2, <2>3, <3>1, <3>2, <4>1 DEF RequestInv, Views
    <3>3. CASE q # r /\ conn[q] # None
      <4>1. conn[q] # p /\ conn[q] \in Pages /\ RequestInv(q) /\ conn'[q] = conn[q] /\ req'[q] = req[q]
        BY <1>1, <2>1, <3>1, <3>3 DEF VisitorsInv
      <4>2. \A k \in Requests : conn'[k] = conn'[q] => k = q
        BY <2>1, <3>3, <4>1 DEF RequestInv
      <4> QED
        BY <1>2, <1>3, <1>4, <3>3, <4>1, <4>2 DEF RequestInv, Views
    <3> QED
      BY <2>1, <3>2, <3>3 DEF RequestInv
  <2> QED
    BY <1>5, <2>4, <2>5 DEF VisitorsInv
<1>7. ASSUME UNCHANGED <<vars, conn>> PROVE VisitorsInv'
  <2>1. \A q \in Pages : PageInv(q)'
    BY <1>2, <1>3, <1>7 DEF VisitorsInv, PageInv, Views, Me, Awaiting
  <2>2. \A q \in Requests : RequestInv(q)'
    BY <1>1, <1>2, <1>3, <1>4, <1>7 DEF VisitorsInv, RequestInv, Views, vars
  <2> QED
    BY <1>5, <2>1, <2>2 DEF VisitorsInv
<1> QED
  BY <1>2, <1>6, <1>7

\* What a closed page was known by is not used again.
LEMMA CloseStep ==
    ASSUME Base, Base', VisitorsInv, NEW p \in Pages, ClosePage(p)
    PROVE  VisitorsInv'
<1>1. /\ page \in [Pages -> PageType] /\ conn \in [Requests -> Pages \cup {None}]
  BY DEF Base, VisitorsTypeOK
<1>2. /\ UNCHANGED <<vars, userId, conn, known>> /\ ~Awaiting(p)
      /\ page' = [page EXCEPT ![p] = [Blank EXCEPT !.view = "closed"]]
  BY DEF ClosePage
<1>3. /\ page'[p].view = "closed" /\ page'[p].session = None /\ page'[p].cookie = None
      /\ \A q \in Pages \ {p} : page'[q] = page[q]
  BY <1>1, <1>2 DEF Blank
<1>4. ~Views(p, "loading") /\ page[p].cookie = None
  BY <1>2 DEF VisitorsInv, PageInv
<1>5. \A v, w : Uses(v, w)' <=> Uses(v, w)
  BY <1>2, <1>3, <1>4 DEF Uses
<1>6. NamesInv'
  BY <1>2, <1>5 DEF VisitorsInv, NamesInv
<1>7. \A q \in Pages : PageInv(q)'
  BY <1>2, <1>3 DEF VisitorsInv, PageInv, Views, Me, Awaiting
<1>8. \A q \in Requests : RequestInv(q)'
  BY <1>1, <1>2, <1>3, <1>5 DEF VisitorsInv, RequestInv, Views, vars, Awaiting
<1> QED
  BY <1>6, <1>7, <1>8 DEF VisitorsInv

\* What an answer does.
LEMMA AnswerFacts ==
    ASSUME Base, NEW r \in Requests, Serve(r), req'[r].pc = "idle",
           NEW p \in Pages, p = conn[r], Views(p, "loading")
    PROVE  /\ conn' = [conn EXCEPT ![r] = None]
           /\ \A q \in Pages \ {p} : page'[q] = page[q]
           /\ page'[p].cookie = None
           /\ LetsIn(r) => /\ page'[p].view = "target" /\ page'[p].session = SessionTold(p, r)
                           /\ page'[p].timer = IF IsApi(p) THEN HeartbeatTicks ELSE 0
           /\ ~LetsIn(r) => page'[p].view = "waiting" /\ page'[p].session = page[p].session
           /\ \A v \in Visitor \ {Owner(p)} : userId'[v] = userId[v]
           /\ userId'[Owner(p)] = IF page[p].cookie = None THEN userId[Owner(p)] ELSE page[p].cookie
<1>1. /\ page \in [Pages -> PageType] /\ userId \in [Visitor -> Users \cup {None}]
      /\ page[p] \in PageType /\ Owner(p) \in Visitor
  BY PagesHaveOwners DEF Base, VisitorsTypeOK
<1>2. Answered(r) /\ conn' = [conn EXCEPT ![r] = None]
  BY DEF Serve
<1>3. /\ SetCookie(p)
      /\ page' = [page EXCEPT ![p] =
                     IF LetsIn(r)
                     THEN [page[p] EXCEPT !.view = "target", !.cookie = None,
                              !.timer = IF IsApi(p) THEN HeartbeatTicks ELSE 0,
                              !.session = SessionTold(p, r)]
                     ELSE [page[p] EXCEPT !.view = "waiting", !.cookie = None, !.timer = RefreshTicks]]
  BY <1>2 DEF Answered
<1>4. /\ \A v \in Visitor \ {Owner(p)} : userId'[v] = userId[v]
      /\ userId'[Owner(p)] = IF page[p].cookie = None THEN userId[Owner(p)] ELSE page[p].cookie
  BY <1>1, <1>3 DEF SetCookie
<1>5. CASE LetsIn(r)
  BY <1>1, <1>2, <1>3, <1>4, <1>5 DEF PageType
<1>6. CASE ~LetsIn(r)
  BY <1>1, <1>2, <1>3, <1>4, <1>6 DEF PageType
<1> QED
  BY <1>5, <1>6

\* An answer tells nobody but its page.
LEMMA ServeStep ==
    ASSUME Base, Base', SessionsOwn, VisitorsInv, NEW r \in Requests, Serve(r)
    PROVE  VisitorsInv'
<1>1. /\ page \in [Pages -> PageType] /\ conn \in [Requests -> Pages \cup {None}]
      /\ req \in [Requests -> GoodRequest] /\ userId \in [Visitor -> Users \cup {None}]
  BY DEF Base, VisitorsTypeOK, IInv, RequestsOK
<1>2. Proceeds(r) /\ req[r].pc # "idle" /\ known' = known
  BY NotIdle, ProceedsStep DEF Serve, Base, IInv
<1>p. PICK p \in Pages : p = conn[r]
  BY <1>1, <1>2 DEF Base, Connected, At
<1>3. Owner(p) \in Visitor /\ p # None /\ RequestInv(r) /\ PageInv(p)
  BY PagesHaveOwners DEF VisitorsInv
<1>4. CASE req'[r].pc # "idle"
  <2>1. UNCHANGED <<page, userId, conn>>
    BY <1>4 DEF Serve
  <2>2. \A v, w : Uses(v, w)' <=> Uses(v, w)
    BY <2>1 DEF Uses
  <2>3. NamesInv' /\ \A q \in Pages : PageInv(q)'
    BY <1>2, <2>1, <2>2 DEF VisitorsInv, NamesInv, PageInv, Views, Me, Awaiting
  <2>4. RequestInv(r)'
    BY <1>2, <1>3, <1>4, <2>1, <2>2 DEF RequestInv, Views, Proceeds, Idle
  <2>5. \A q \in Requests \ {r} : RequestInv(q)'
    BY <1>2, <2>1, <2>2 DEF VisitorsInv, RequestInv, Views, Proceeds
  <2> QED
    BY <2>3, <2>4, <2>5 DEF VisitorsInv
<1>5. CASE req'[r].pc = "idle" /\ ~Views(p, "loading")
  <2>1. UNCHANGED <<page, userId>> /\ conn' = [conn EXCEPT ![r] = None]
    BY <1>p, <1>5 DEF Serve, Answered
  <2>2. \A v, w : Uses(v, w)' <=> Uses(v, w)
    BY <2>1 DEF Uses
  <2>3. NamesInv'
    BY <1>2, <2>1, <2>2 DEF VisitorsInv, NamesInv
  <2>4. \A q \in Pages : PageInv(q)'
    BY <1>1, <1>p, <1>5, <2>1 DEF VisitorsInv, PageInv, Views, Me, Awaiting
  <2>5. \A q \in Requests : RequestInv(q)'
    BY <1>1, <1>2, <2>1, <2>2 DEF VisitorsInv, RequestInv, Views, Proceeds
  <2> QED
    BY <2>3, <2>4, <2>5 DEF VisitorsInv
<1>6. CASE req'[r].pc = "idle" /\ Views(p, "loading")
  <2>1. conn' = [conn EXCEPT ![r] = None]
    BY <1>p, <1>6, AnswerFacts
  <2>2. /\ \A q \in Pages \ {p} : page'[q] = page[q]
        /\ page'[p].cookie = None
        /\ \/ page'[p].view = "target" /\ page'[p].session = SessionTold(p, r)
           \/ page'[p].view = "waiting" /\ page'[p].session = page[p].session
    BY <1>p, <1>6, AnswerFacts
  <2>3. page[p].session = None
    BY <1>3, <1>6 DEF PageInv, Views
  <2>4. /\ \A v \in Visitor \ {Owner(p)} : userId'[v] = userId[v]
        /\ userId'[Owner(p)] = IF page[p].cookie = None THEN userId[Owner(p)] ELSE page[p].cookie
    BY <1>p, <1>6, AnswerFacts
  <2>5. \A v \in Visitor, w \in Users : Uses(v, w)' => Uses(v, w)
    BY <1>3, <2>2, <2>4 DEF Uses
  <2>6. \A v \in Visitor, w \in Users : v # Owner(p) => (Uses(v, w)' <=> Uses(v, w))
    BY <1>3, <2>2, <2>4 DEF Uses
  <2>7. NamesInv'
    BY <1>2, <2>5 DEF VisitorsInv, NamesInv
  <2>8. ASSUME IsApi(p), req[r].session # None PROVE Owner(req[r].session) = Me(p)'
    <3>1. Sole(p) /\ Uses(Owner(p), req[r].user)
      BY <1>p, <1>3, <2>8, ApiPages DEF RequestInv
    <3>2. req[r].user # None /\ req[r].user \in {Me(p), page[p].cookie}
      BY <1>3, <3>1, SoleUses
    <3>3. Owner(req[r].session) = req[r].user
      BY <2>8 DEF SessionsOwn
    <3> QED
      BY <1>3, <2>4, <2>8, <3>1, <3>2, <3>3 DEF PageInv, Me
  <2>9. PageInv(p)'
    BY <2>2, <2>3, <2>8 DEF PageInv, Views, Me, SessionTold
  <2>10. ASSUME NEW q \in Pages, q # p PROVE PageInv(q)'
    <3>1. Awaiting(q) => Awaiting(q)'
      BY <1>1, <1>p, <2>1, <2>10 DEF Awaiting
    <3>2. Sole(q) \/ IsApi(q) => userId'[Owner(q)] = userId[Owner(q)]
      BY <1>3, <2>4, <2>10, PagesHaveOwners, ApiPages DEF Sole
    <3>3. page'[q] = page[q] /\ PageInv(q)
      BY <2>2, <2>10 DEF VisitorsInv
    <3> QED
      BY <3>1, <3>2, <3>3 DEF PageInv, Views, Me
  <2>11. ASSUME NEW q \in Requests, conn'[q] # None PROVE RequestInv(q)'
    <3>1. /\ q # r /\ conn'[q] = conn[q] /\ conn[q] \in Pages /\ req'[q] = req[q] /\ RequestInv(q)
          /\ req[q].user \in Users
      <4>1. q # r /\ conn'[q] = conn[q] /\ conn[q] \in Pages /\ req'[q] = req[q]
        BY <1>1, <1>2, <2>1, <2>11 DEF Proceeds
      <4>2. req[q].user \in Users
        BY <2>11, <4>1, RequestFacts DEF Base, Connected, At, IInv
      <4> QED
        BY <4>1, <4>2 DEF VisitorsInv
    <3>2. conn[q] # p
      BY <1>p, <1>3, <3>1 DEF RequestInv
    <3>3. page'[conn[q]] = page[conn[q]]
      BY <2>2, <3>1, <3>2
    <3>4. Sole(conn[q]) => Uses(Owner(conn[q]), req[q].user)'
      BY <1>3, <2>6, <2>11, <3>1, <3>2, PagesHaveOwners DEF RequestInv, Sole
    <3>5. \A k \in Requests : conn'[k] = conn'[q] => k = q
      BY <1>1, <2>1, <2>11, <3>1 DEF RequestInv
    <3> QED
      BY <1>2, <2>5, <2>11, <3>1, <3>3, <3>4, <3>5 DEF RequestInv, Views
  <2>12. \A q \in Requests : RequestInv(q)'
    BY <2>11 DEF RequestInv
  <2>13. \A q \in Pages : PageInv(q)'
    BY <2>9, <2>10
  <2> QED
    BY <2>7, <2>12, <2>13 DEF VisitorsInv
<1> QED
  BY <1>4, <1>5, <1>6

\* Passing time changes no name.
LEMMA PassStep ==
    ASSUME Base, Base', VisitorsInv, Pass
    PROVE  VisitorsInv'
<1>1. /\ page \in [Pages -> PageType] /\ conn \in [Requests -> Pages \cup {None}]
      /\ req \in [Requests -> GoodRequest] /\ \A r \in Requests : req[r] \in RequestType
  BY RequestFacts DEF Base, VisitorsTypeOK, IInv, RequestsOK
<1>2. UNCHANGED <<userId, conn, known>> /\ Tick
  BY DEF Pass
<1>3. \A q \in Pages : /\ page'[q].view = page[q].view /\ page'[q].session = page[q].session
                       /\ page'[q].cookie = page[q].cookie
  BY <1>1 DEF PageType, Pass
<1>4. \A r \in Requests : /\ req'[r].user = req[r].user /\ req'[r].session = req[r].session
                          /\ req'[r].path = req[r].path
  BY <1>1, <1>2 DEF Tick, RequestType
<1>5. \A v, w : Uses(v, w)' <=> Uses(v, w)
  BY <1>2, <1>3 DEF Uses
<1>6. NamesInv' /\ \A q \in Pages : PageInv(q)'
  BY <1>2, <1>3, <1>5 DEF VisitorsInv, NamesInv, PageInv, Views, Me, Awaiting
<1>7. ASSUME NEW r \in Requests PROVE RequestInv(r)'
  <2>1. conn[r] # None => conn[r] \in Pages
    BY <1>1
  <2> QED
    BY <1>2, <1>3, <1>4, <1>5, <2>1 DEF VisitorsInv, RequestInv, Views
<1> QED
  BY <1>6, <1>7 DEF VisitorsInv

\* As long as no command fails, visitors are told apart.
THEOREM VisitorsInvariance ==
    ASSUME ~CanFail
    PROVE  VisitorsSpec => []VisitorsInv
<1>1. VisitorsInit => VisitorsInv
  BY DEF VisitorsInit, VisitorsInv, NamesInv, Uses, PageInv, RequestInv, Views, Blank
<1>2. ASSUME Base, Base', SessionsOwn, VisitorsInv, [VisitorsNext]_allVars PROVE VisitorsInv'
  <2>1. ASSUME NEW p \in Pages, Visit(p) \/ Refresh(p) PROVE VisitorsInv'
    BY <1>2, <2>1, AskStep DEF Visit, Refresh, Views
  <2>2. ASSUME NEW p \in Pages, Beat(p) \/ ClosePage(p) PROVE VisitorsInv'
    BY <1>2, <2>2, BeatStep, CloseStep
  <2>3. ASSUME NEW r \in Requests, Serve(r) \/ Fail(r) PROVE VisitorsInv'
    BY <1>2, <2>3, ServeStep DEF Fail, Abort, LastReplyLost
  <2>4. CASE Crash \/ Pass
    BY <1>2, <2>4, PassStep DEF Crash, Restart
  <2>5. CASE UNCHANGED allVars
    BY <1>2, <2>5 DEF allVars, vars, visitorVars, VisitorsInv, NamesInv, Uses, PageInv, RequestInv,
       Views, Me, Awaiting
  <2> QED
    BY <1>2, <2>1, <2>2, <2>3, <2>4, <2>5 DEF VisitorsNext
<1>3. PointerInv => SessionsOwn
  BY DEF PointerInv
<1> QED
  BY <1>1, <1>2, <1>3, BaseInvariance, VisitorsRefine, PointerInvariance, PTL DEF VisitorsSpec
-----------------------------------------------------------------------------
(***************************************************************************)
(* Places in the queue.                                                    *)
(***************************************************************************)

\* What every step of request r makes of the queue and of its copy.
Rooms(r) ==
    /\ queue' \in {queue, req[r].room}
    /\ req'[r].room \in {<<>>, req[r].room, RequeuedRoom(r), Remove(req[r].room, req[r].user)}

\* Every step does so.
LEMMA RoomsStep ==
    ASSUME RequestsOK, NEW r \in Requests, Step(r)
    PROVE  Rooms(r)
<1>0. req \in [Requests -> GoodRequest] /\ req[r] \in RequestType
  BY RequestFacts DEF RequestsOK
<1>1. CASE GetUser(r)
  BY <1>0, <1>1 DEF GetUser, At, RequestType, store, roomKeys, Rooms
<1>2. CASE GetActiveSession(r)
  BY <1>0, <1>2 DEF GetActiveSession, At, Goto, RequestType, store, roomKeys, Rooms
<1>3. CASE GetSession(r)
  BY <1>0, <1>3 DEF GetSession, At, Take, Idle, RequestType, store, roomKeys, Rooms
<1>4. CASE GetActiveTicket(r)
  BY <1>0, <1>4 DEF GetActiveTicket, At, RequestType, store, roomKeys, Rooms
<1>5. CASE ExpireTicket(r)
  BY <1>0, <1>5 DEF ExpireTicket, At, TicketFound, Take, Idle, RequestType, store, roomKeys, Rooms
<1>6. CASE TryPromote(r)
  BY <1>0, <1>6 DEF TryPromote, At, TicketFound, RequestType, store, roomKeys, Rooms
<1>7. CASE StayQueued(r)
  BY <1>0, <1>7 DEF StayQueued, At, TicketFound, Take, Idle, RequestType, store, roomKeys, Rooms
<1>8. CASE TryUse(r)
  BY <1>0, <1>8 DEF TryUse, At, TicketFound, RequestType, store, roomKeys, Rooms
<1>9. CASE TryDirect(r)
  BY <1>0, <1>9 DEF TryDirect, At, TicketMissing, Take, Idle, RequestType, store, roomKeys, Rooms
<1>10. CASE TryIssue(r)
  BY <1>0, <1>10 DEF TryIssue, At, TicketMissing, IssueTicket, Take, Idle, RequestType, store, roomKeys, Rooms
<1>11. CASE Lock(r)
  BY <1>0, <1>11 DEF Lock, At, RequestType, store, roomKeys, Rooms
<1>12. CASE Exists(r)
  <2>1. PICK s \in req[r].todo :
          \/ req' = [req EXCEPT ![r].todo = @ \ {s}, ![r].counted = @ \cup {s}]
          \/ req' = [req EXCEPT ![r].pc = "srem", ![r].todo = @ \ {s}, ![r].member = s]
    BY <1>12 DEF Exists
  <2> QED
    BY <1>0, <1>12, <2>1 DEF Exists, At, RequestType, store, roomKeys, Rooms
<1>13. CASE Srem(r)
  BY <1>0, <1>13 DEF Srem, At, RequestType, store, roomKeys, Rooms
<1>14. CASE PromoteAdmitted(r)
  BY <1>0, <1>14 DEF PromoteAdmitted, At, Counted, RequestType, store, roomKeys, Rooms
<1>15. CASE PromoteRefused(r)
  BY <1>0, <1>15 DEF PromoteRefused, At, Counted, Take, Idle, RequestType, store, roomKeys, Rooms
<1>16. CASE UseAdmitted(r)
  BY <1>0, <1>16 DEF UseAdmitted, At, Counted, CreateSession, Take, Idle, RequestType, store, roomKeys, Rooms
<1>17. CASE UseRefused(r)
  BY <1>0, <1>17 DEF UseRefused, At, Counted, Take, Idle, RequestType, store, roomKeys, Rooms
<1>18. CASE DirectAdmitted(r)
  BY <1>0, <1>18 DEF DirectAdmitted, At, Counted, CreateSession, Take, Idle, RequestType, store, roomKeys, Rooms
<1>19. CASE DirectRefused(r)
  BY <1>0, <1>19 DEF DirectRefused, At, Counted, IssueTicket, Take, Idle, RequestType, store, roomKeys, Rooms
<1>20. CASE SetTicket(r)
  BY <1>0, <1>20 DEF SetTicket, At, RequestType, store, roomKeys, Rooms
<1>21. CASE SetActiveTicket(r)
  BY <1>0, <1>21 DEF SetActiveTicket, At, Goto, RequestType, store, roomKeys, Rooms
<1>22. CASE SetRoom(r)
  <2>1. \/ req' = [req EXCEPT ![r] = Idle]
        \/ \E next \in {"setTicket", "setUser"} :
              req' = [req EXCEPT ![r].pc = next, ![r].room = <<>>]
    BY <1>22 DEF SetRoom, Finish
  <2>2. queue' = req[r].room
    BY <1>22 DEF SetRoom
  <2> QED
    BY <1>0, <2>1, <2>2 DEF RequestType, Idle, Rooms
<1>23. CASE SetUser(r)
  BY <1>0, <1>23 DEF SetUser, At, Finish, Idle, RequestType, store, roomKeys, Rooms
<1>24. CASE SetSession(r)
  BY <1>0, <1>24 DEF SetSession, At, Goto, RequestType, store, roomKeys, Rooms
<1>25. CASE SetActiveSession(r)
  BY <1>0, <1>25 DEF SetActiveSession, At, Goto, RequestType, store, roomKeys, Rooms
<1>26. CASE AddActive(r)
  BY <1>0, <1>26 DEF AddActive, At, Goto, RequestType, store, roomKeys, Rooms
<1>27. CASE ExpireSession(r)
  BY <1>0, <1>27 DEF ExpireSession, At, Goto, RequestType, store, roomKeys, Rooms
<1>28. CASE ExpireActive(r)
  BY <1>0, <1>28 DEF ExpireActive, At, Goto, RequestType, store, roomKeys, Rooms
<1>29. CASE RefreshActive(r)
  BY <1>0, <1>29 DEF RefreshActive, At, Finish, Idle, Goto, RequestType, store, roomKeys, Rooms
<1> QED
  BY <1>1, <1>2, <1>3, <1>4, <1>5, <1>6, <1>7, <1>8, <1>9, <1>10, <1>11, <1>12, <1>13,
     <1>14, <1>15, <1>16, <1>17, <1>18, <1>19, <1>20, <1>21, <1>22, <1>23, <1>24, <1>25,
     <1>26, <1>27, <1>28, <1>29 DEF Step

\* Everybody in the queue, or in a copy of it, has a page open that knows it
\* or is going to be told.
PlacesInv ==
    /\ queue \in Seq(known)
    /\ \A r \in Requests : req[r].room \in Seq(known)
    /\ \A u \in known : \E p \in Pages : ~Views(p, "closed") /\ u \in {Me(p), page[p].cookie}

\* Who is known stays known.
LEMMA KnownGrows ==
    ASSUME PlacesInv, NEW K, known \subseteq K
    PROVE  queue \in Seq(K) /\ \A r \in Requests : req[r].room \in Seq(K)
<1>1. ASSUME NEW q \in Seq(known) PROVE q \in Seq(K)
  OBVIOUS
<1> QED
  BY <1>1 DEF PlacesInv

\* Asking, beating and time.
LEMMA PlacesAsk ==
    ASSUME Base, VisitorsInv, PlacesInv, NEW p \in Pages, NEW visits, Ask(p, visits), ~Views(p, "loading"),
           \A q \in Pages : Sole(q)
    PROVE  PlacesInv'
<1>1. PICK r \in Requests, u \in Identity(p) :
        /\ Start(r, u) /\ known' = known \cup {u}
        /\ userId' = IF IsApi(p) THEN [userId EXCEPT ![Owner(p)] = u] ELSE userId
        /\ page' = [page EXCEPT ![p] =
                      [Blank EXCEPT !.view = "loading", !.visits = visits,
                                    !.cookie = IF userId[Owner(p)] = None THEN u ELSE None]]
  BY DEF Ask
<1>2. /\ userId \in [Visitor -> Users \cup {None}] /\ page \in [Pages -> PageType]
      /\ known \in SUBSET Users /\ req \in [Requests -> GoodRequest]
  BY DEF Base, VisitorsTypeOK, IInv, RequestsOK
<1>3. /\ u \in Users /\ u # None /\ Owner(p) \in Visitor
      /\ userId[Owner(p)] # None => u = userId[Owner(p)]
      /\ \A w \in Users : w # None
  BY IdentityFacts, PagesHaveOwners, NoIdIsNone DEF Base
<1>4. /\ queue' = queue /\ req'[r].room = queue
      /\ \A q \in Requests \ {r} : req'[q] = req[q]
  BY <1>1, <1>2 DEF Start, store, roomKeys, Idle
<1>5. /\ \A q \in Pages \ {p} : page'[q] = page[q]
      /\ page'[p].view = "loading"
      /\ page'[p].cookie = IF userId[Owner(p)] = None THEN u ELSE None
  BY <1>1, <1>2 DEF Blank
<1>6. /\ \A v \in Visitor \ {Owner(p)} : userId'[v] = userId[v]
      /\ userId'[Owner(p)] \in {userId[Owner(p)], u}
  BY <1>1, <1>2, <1>3
<1>7. queue' \in Seq(known') /\ \A q \in Requests : req'[q].room \in Seq(known')
  BY <1>1, <1>4, KnownGrows
<1>8. u \in {Me(p)', page'[p].cookie}
  BY <1>3, <1>5, <1>6 DEF Me
<1>9. ASSUME NEW w \in known PROVE \E q \in Pages : page'[q].view # "closed" /\ w \in {Me(q)', page'[q].cookie}
  <2>1. PICK q \in Pages : ~Views(q, "closed") /\ w \in {Me(q), page[q].cookie}
    BY DEF PlacesInv
  <2>2. CASE q # p
    <3>1. userId'[Owner(q)] = userId[Owner(q)]
      BY <1>6, <2>2, PagesHaveOwners DEF Sole
    <3> QED
      BY <1>5, <2>1, <2>2, <3>1 DEF Me, Views
  <2>3. CASE q = p
    <3>1. page[p].cookie = None
      BY DEF VisitorsInv, PageInv
    <3>2. w \in Users /\ w # None
      BY <1>2, <1>3
    <3>3. w = userId[Owner(p)] /\ w = u
      BY <1>3, <2>1, <2>3, <3>1, <3>2 DEF Me
    <3> QED
      BY <1>5, <1>8, <3>3
  <2> QED
    BY <2>2, <2>3
<1>10. \A w \in known' : \E q \in Pages : page'[q].view # "closed" /\ w \in {Me(q)', page'[q].cookie}
  BY <1>1, <1>5, <1>8, <1>9
<1> QED
  BY <1>7, <1>10 DEF PlacesInv, Views

\* A step of a handler, whether it answers or not.
LEMMA PlacesServe ==
    ASSUME Base, VisitorsInv, PlacesInv, NEW r \in Requests, Serve(r), \A q \in Pages : Sole(q)
    PROVE  PlacesInv'
<1>1. /\ Proceeds(r) /\ Rooms(r) /\ known' = known /\ req[r].pc # "idle"
      /\ conn \in [Requests -> Pages \cup {None}] /\ \A q \in Pages : page[q] \in PageType
      /\ known \in SUBSET Users /\ \A u \in Users : u # None
  BY NotIdle, ProceedsStep, RoomsStep, NoIdIsNone DEF Serve, Base, VisitorsTypeOK, IInv
<1>p. PICK p \in Pages : p = conn[r]
  BY <1>1 DEF Base, Connected, At
<1>2. req[r].user \in known
  BY <1>p, PagesHaveOwners DEF VisitorsInv, RequestInv
<1>3. RequeuedRoom(r) \in Seq(known) /\ Remove(req[r].room, req[r].user) \in Seq(known) /\ <<>> \in Seq(known)
  <2>1. req[r].room \in Seq(known)
    BY DEF PlacesInv
  <2>2. EnsureQueued(req[r].room, req[r].user) \in Seq(known)
    BY <1>2, <2>1, EnsureQueuedLemma
  <2>3. Remove(req[r].room, req[r].user) \in Seq(known)
    BY <1>2, <2>1, RemoveLemma
  <2>4. <<>> \in Seq(known)
    OBVIOUS
  <2> QED
    BY <2>2, <2>3, <2>4 DEF RequeuedRoom
<1>4. queue' \in Seq(known') /\ \A q \in Requests : req'[q].room \in Seq(known')
  BY <1>1, <1>3 DEF PlacesInv, Rooms, Proceeds
<1>5. CASE UNCHANGED <<page, userId>>
  BY <1>1, <1>4, <1>5 DEF PlacesInv, Me, Views
<1>6. CASE req'[r].pc = "idle" /\ Views(p, "loading")
  <2>1. /\ \A q \in Pages \ {p} : page'[q] = page[q]
        /\ page'[p].view # "closed"
        /\ \A v \in Visitor \ {Owner(p)} : userId'[v] = userId[v]
        /\ userId'[Owner(p)] = IF page[p].cookie = None THEN userId[Owner(p)] ELSE page[p].cookie
    BY <1>p, <1>6, AnswerFacts
  <2>2. page[p].cookie # None => Me(p) = page[p].cookie \/ Me(p) = None
    BY DEF VisitorsInv, PageInv
  <2>3. ASSUME NEW w \in known PROVE \E q \in Pages : page'[q].view # "closed" /\ w \in {Me(q)', page'[q].cookie}
    <3>1. PICK q \in Pages : ~Views(q, "closed") /\ w \in {Me(q), page[q].cookie} /\ w # None
      BY <1>1 DEF PlacesInv
    <3>2. CASE q # p
      <4>1. userId'[Owner(q)] = userId[Owner(q)]
        BY <2>1, <3>2, PagesHaveOwners DEF Sole
      <4> QED
        BY <2>1, <3>1, <3>2, <4>1 DEF Me, Views
    <3>3. CASE q = p
      BY <2>1, <2>2, <3>1, <3>3 DEF Me
    <3> QED
      BY <3>2, <3>3
  <2> QED
    BY <1>1, <1>4, <2>3 DEF PlacesInv, Views
<1> QED
  BY <1>p, <1>5, <1>6 DEF Serve, Answered

\* As long as no command fails, nobody closes a page and no browser has two of
\* them, every place in the queue belongs to somebody who will ask again.
THEOREM PlacesHaveVisitors ==
    ASSUME ~CanFail, ~MayClose, TabsPerBrowser = 1
    PROVE  VisitorsSpec => []EveryPlaceHasAVisitor
<1>1. \A q \in Pages : Sole(q)
  BY VisitorsAssumption DEF Pages, Sole, Owner
<1>2. VisitorsInit => PlacesInv
  <2>1. <<>> \in Seq(known)
    OBVIOUS
  <2>2. VisitorsInit => queue = <<>> /\ known = {} /\ \A r \in Requests : req[r].room = <<>>
    BY DEF VisitorsInit, Init, NewWaitingRoom, Idle
  <2> QED
    BY <2>1, <2>2 DEF PlacesInv
<1>3. ASSUME Base, VisitorsInv, PlacesInv, [VisitorsNext]_allVars PROVE PlacesInv'
  <2>1. ASSUME NEW p \in Pages, Visit(p) \/ Refresh(p) PROVE PlacesInv'
    BY <1>1, <1>3, <2>1, PlacesAsk DEF Visit, Refresh, Views
  <2>2. ASSUME NEW r \in Requests, Serve(r) PROVE PlacesInv'
    BY <1>1, <1>3, <2>2, PlacesServe
  <2>3. ASSUME UNCHANGED <<queue, userId, known>>,
               \A p \in Pages : page'[p].view = page[p].view /\ page'[p].cookie = page[p].cookie,
               \A r \in Requests : req'[r].room \in {<<>>, req[r].room}
        PROVE  PlacesInv'
    <3>1. queue' \in Seq(known') /\ \A r \in Requests : req'[r].room \in Seq(known')
      <4>1. <<>> \in Seq(known)
        OBVIOUS
      <4> QED
        BY <1>3, <2>3, <4>1 DEF PlacesInv
    <3>2. \A u \in known' : \E p \in Pages : page'[p].view # "closed" /\ u \in {userId'[Owner(p)], page'[p].cookie}
      BY <1>3, <2>3 DEF PlacesInv, Me, Views
    <3> QED
      BY <3>1, <3>2 DEF PlacesInv, Me, Views
  <2>4. /\ page \in [Pages -> PageType] /\ req \in [Requests -> GoodRequest]
        /\ \A r \in Requests : req[r] \in RequestType
    BY <1>3, RequestFacts DEF Base, VisitorsTypeOK, IInv, RequestsOK
  <2>5. ASSUME NEW p \in Pages, Beat(p) PROVE PlacesInv'
    <3>1. \A r \in Requests : req'[r].room \in {<<>>, req[r].room}
      <4>1. CASE UNCHANGED vars
        BY <4>1 DEF vars
      <4>2. CASE \E r \in Requests : Heartbeat(r, page[p].session)
        BY <2>4, <4>2 DEF Heartbeat, Idle
      <4> QED
        BY <2>5, <4>1, <4>2 DEF Beat
    <3>2. UNCHANGED <<queue, userId, known>>
      BY <2>5 DEF Beat, Heartbeat, vars, store, roomKeys
    <3>3. \A q \in Pages : page'[q].view = page[q].view /\ page'[q].cookie = page[q].cookie
      BY <2>4, <2>5 DEF Beat, PageType
    <3> QED
      BY <2>3, <3>1, <3>2, <3>3
  <2>6. CASE Pass
    <3>1. \A r \in Requests : req'[r].room \in {<<>>, req[r].room}
      BY <2>4, <2>6 DEF Pass, Tick, RequestType
    <3>2. UNCHANGED <<queue, userId, known>>
      BY <2>6 DEF Pass, Tick, roomKeys
    <3>3. \A q \in Pages : page'[q].view = page[q].view /\ page'[q].cookie = page[q].cookie
      BY <2>4, <2>6 DEF Pass, PageType
    <3> QED
      BY <2>3, <3>1, <3>2, <3>3
  <2>7. CASE UNCHANGED allVars
    BY <2>3, <2>7 DEF allVars, vars, visitorVars, store, roomKeys
  <2> QED
    BY <1>3, <2>1, <2>2, <2>5, <2>6, <2>7 DEF VisitorsNext, ClosePage, Fail, Abort, LastReplyLost, Crash, Restart
<1>4. PlacesInv => EveryPlaceHasAVisitor
  BY DEF PlacesInv, EveryPlaceHasAVisitor, Members
<1> QED
  BY <1>2, <1>3, <1>4, BaseInvariance, VisitorsInvariance, PTL DEF VisitorsSpec
-----------------------------------------------------------------------------
(***************************************************************************)
(* The waiting page.                                                       *)
(***************************************************************************)

\* Where every step of request r may lead: who ends, and who has only the user
\* left to store.
Ends(r) ==
    /\ req'[r].pc = "idle" => \/ At(r, "getSession") /\ SessionTTL = 0
                              \/ SetRoom(r) \/ SetUser(r)
                              \/ At(r, "refreshActive") /\ req[r].path = "refresh"
    /\ req'[r].pc = "setUser" => /\ req'[r].path = req[r].path /\ req'[r].user = req[r].user
                                 /\ req[r].path = "use" \/ SetRoom(r)

\* Every step does so.
LEMMA EndsStep ==
    ASSUME RequestsOK, NEW r \in Requests, Step(r)
    PROVE  Ends(r)
<1>0. req \in [Requests -> GoodRequest] /\ req[r] \in RequestType
  BY RequestFacts DEF RequestsOK
<1>1. CASE GetUser(r)
  BY <1>0, <1>1 DEF GetUser, At, RequestType, Ends
<1>2. CASE GetActiveSession(r)
  BY <1>0, <1>2 DEF GetActiveSession, At, Goto, RequestType, Ends
<1>3. CASE GetSession(r)
  BY <1>0, <1>3 DEF GetSession, At, Take, Idle, RequestType, Ends
<1>4. CASE GetActiveTicket(r)
  BY <1>0, <1>4 DEF GetActiveTicket, At, RequestType, Ends
<1>5. CASE ExpireTicket(r)
  BY <1>0, <1>5 DEF ExpireTicket, At, TicketFound, Take, Idle, RequestType, Ends
<1>6. CASE TryPromote(r)
  BY <1>0, <1>6 DEF TryPromote, At, TicketFound, RequestType, Ends
<1>7. CASE StayQueued(r)
  BY <1>0, <1>7 DEF StayQueued, At, TicketFound, Take, Idle, RequestType, Ends
<1>8. CASE TryUse(r)
  BY <1>0, <1>8 DEF TryUse, At, TicketFound, RequestType, Ends
<1>9. CASE TryDirect(r)
  BY <1>0, <1>9 DEF TryDirect, At, TicketMissing, Take, Idle, RequestType, Ends
<1>10. CASE TryIssue(r)
  BY <1>0, <1>10 DEF TryIssue, At, TicketMissing, IssueTicket, Take, Idle, RequestType, Ends
<1>11. CASE Lock(r)
  BY <1>0, <1>11 DEF Lock, At, RequestType, Ends
<1>12. CASE Exists(r)
  <2>1. PICK s \in req[r].todo :
          \/ req' = [req EXCEPT ![r].todo = @ \ {s}, ![r].counted = @ \cup {s}]
          \/ req' = [req EXCEPT ![r].pc = "srem", ![r].todo = @ \ {s}, ![r].member = s]
    BY <1>12 DEF Exists
  <2> QED
    BY <1>0, <1>12, <2>1 DEF Exists, At, RequestType, Ends
<1>13. CASE Srem(r)
  BY <1>0, <1>13 DEF Srem, At, RequestType, Ends
<1>14. CASE PromoteAdmitted(r)
  BY <1>0, <1>14 DEF PromoteAdmitted, At, Counted, RequestType, Ends
<1>15. CASE PromoteRefused(r)
  BY <1>0, <1>15 DEF PromoteRefused, At, Counted, Take, Idle, RequestType, Ends
<1>16. CASE UseAdmitted(r)
  BY <1>0, <1>16 DEF UseAdmitted, At, Counted, CreateSession, Take, Idle, RequestType, Ends
<1>17. CASE UseRefused(r)
  BY <1>0, <1>17 DEF UseRefused, At, Counted, Take, Idle, RequestType, Ends
<1>18. CASE DirectAdmitted(r)
  BY <1>0, <1>18 DEF DirectAdmitted, At, Counted, CreateSession, Take, Idle, RequestType, Ends
<1>19. CASE DirectRefused(r)
  BY <1>0, <1>19 DEF DirectRefused, At, Counted, IssueTicket, Take, Idle, RequestType, Ends
<1>20. CASE SetTicket(r)
  BY <1>0, <1>20 DEF SetTicket, At, RequestType, Ends
<1>21. CASE SetActiveTicket(r)
  BY <1>0, <1>21 DEF SetActiveTicket, At, Goto, RequestType, Ends
<1>22. CASE SetRoom(r)
  <2>1. \/ req' = [req EXCEPT ![r] = Idle]
        \/ \E next \in {"setTicket", "setUser"} :
              req' = [req EXCEPT ![r].pc = next, ![r].room = <<>>]
    BY <1>22 DEF SetRoom, Finish
  <2> QED
    BY <1>0, <1>22, <2>1 DEF RequestType, Idle, Ends
<1>23. CASE SetUser(r)
  BY <1>0, <1>23 DEF SetUser, At, Finish, Idle, RequestType, Ends
<1>24. CASE SetSession(r)
  BY <1>0, <1>24 DEF SetSession, At, Goto, RequestType, Ends
<1>25. CASE SetActiveSession(r)
  BY <1>0, <1>25 DEF SetActiveSession, At, Goto, RequestType, Ends
<1>26. CASE AddActive(r)
  BY <1>0, <1>26 DEF AddActive, At, Goto, RequestType, Ends
<1>27. CASE ExpireSession(r)
  BY <1>0, <1>27 DEF ExpireSession, At, Goto, RequestType, Ends
<1>28. CASE ExpireActive(r)
  BY <1>0, <1>28 DEF ExpireActive, At, Goto, RequestType, Ends
<1>29. CASE RefreshActive(r)
  <2>1. \/ req[r].path = "refresh" /\ req' = [req EXCEPT ![r] = Idle]
        \/ req' = [req EXCEPT ![r].pc = "setRoom"]
    BY <1>29 DEF RefreshActive, Finish, Goto
  <2> QED
    BY <1>0, <1>29, <2>1 DEF RequestType, RefreshActive, At, Idle, Ends
<1> QED
  BY <1>1, <1>2, <1>3, <1>4, <1>5, <1>6, <1>7, <1>8, <1>9, <1>10, <1>11, <1>12, <1>13,
     <1>14, <1>15, <1>16, <1>17, <1>18, <1>19, <1>20, <1>21, <1>22, <1>23, <1>24, <1>25,
     <1>26, <1>27, <1>28, <1>29 DEF Step

\* A request that has only its user left to store has stored the queue.
Seated(r) == At(r, "setUser") => req[r].path \in {"use", "direct"} \/ req[r].user \in Members(queue)

\* The inductive invariant.
WaitingInv == WaitingPageHasPlace /\ \A r \in Requests : Seated(r)

\* A request stores the queue with its user in it, unless it lets him in.
LEMMA RoomSeats ==
    ASSUME IInv, QueueInv, NEW r \in Requests, SetRoom(r), req[r].path \notin {"use", "direct"}
    PROVE  req[r].user \in Members(queue')
<1>1. /\ req[r].user \in Users /\ queue \in Seq(Users) /\ queue' = req[r].room
      /\ req[r].path \in Queueing /\ req[r].pc = "setRoom"
  BY StoredQueue DEF SetRoom, At
<1>2. req[r].room = EnsureQueued(queue, req[r].user)
  BY <1>1 DEF QueueInv, Orderly
<1> QED
  BY <1>1, <1>2, QueuedNow

\* Nobody is sent to the waiting page without a place in the queue.
LEMMA AnswerSeats ==
    ASSUME IInv, QueueInv, NEW r \in Requests, Step(r), Seated(r), req'[r].pc = "idle", ~LetsIn(r)
    PROVE  req[r].user \in Members(queue')
<1>1. SetRoom(r) \/ SetUser(r)
  BY EndsStep DEF Ends, LetsIn, IInv
<1>2. CASE SetRoom(r)
  BY <1>2, RoomSeats DEF LetsIn
<1>3. CASE SetUser(r)
  BY <1>3 DEF SetUser, Seated, LetsIn
<1> QED
  BY <1>1, <1>2, <1>3

\* With a single handler a request keeps the place it has stored.
LEMMA SeatedStep ==
    ASSUME Solo, ~CanFail, IInv, QueueInv, [Next]_vars, \A r \in Requests : Seated(r), NEW r \in Requests
    PROVE  Seated(r)'
<1>0. /\ req \in [Requests -> GoodRequest] /\ \A q \in Requests : req[q] \in RequestType
  BY RequestFacts DEF IInv, RequestsOK
<1>1. CASE Step(r)
  <2>1. ASSUME req'[r].pc = "setUser", req[r].path \notin {"use", "direct"}
        PROVE  req[r].user \in Members(queue')
    <3>1. SetRoom(r)
      BY <1>1, <2>1, EndsStep DEF Ends, IInv
    <3> QED
      BY <2>1, <3>1, RoomSeats
  <2> QED
    BY <1>1, <2>1, EndsStep DEF Ends, IInv, Seated, At
<1>2. ASSUME NEW q \in Requests, NEW u \in Users, Start(q, u) PROVE Seated(r)'
  BY <1>0, <1>2 DEF Start, Idle, Seated, At, Solo
<1>3. ASSUME NEW q \in Requests, NEW s \in SessionIds, Heartbeat(q, s) PROVE Seated(r)'
  BY <1>0, <1>3 DEF Heartbeat, Idle, Seated, At, Solo
<1>4. CASE Tick
  <2>1. /\ req'[r].pc = req[r].pc /\ req'[r].path = req[r].path /\ req'[r].user = req[r].user
        /\ queue' = queue
    BY <1>0, <1>4 DEF Tick, RequestType, roomKeys
  <2> QED
    BY <2>1 DEF Seated, At
<1>5. CASE UNCHANGED vars
  BY <1>5 DEF vars, store, roomKeys, Seated, At
<1> QED
  BY <1>1, <1>2, <1>3, <1>4, <1>5 DEF Next, Solo, Abort, Restart

\* Who looks at the waiting page is not being let in by another request.
LEMMA WaiterStays ==
    ASSUME ~CanFail, Base, VisitorsInv, QueueInv, WaitingInv, [Next]_vars,
           NEW p \in Pages, Sole(p), Views(p, "waiting")
    PROVE  Me(p) \in Members(queue')
<1>1. Me(p) \in Members(queue) /\ Me(p) \in Users /\ Owner(p) \in Visitor
  <2>1. Me(p) \in Members(queue)
    BY DEF WaitingInv, WaitingPageHasPlace
  <2>2. queue \in Seq(Users)
    BY DEF Base, IInv, StoreOK
  <2> QED
    BY <2>1, <2>2, PagesHaveOwners DEF Members
<1>2. ASSUME NEW r \in Requests, req[r].user = Me(p), req[r].path \in {"use", "direct"}
      PROVE  FALSE
  <2>1. conn[r] # None /\ conn[r] \in Pages
    <3>1. req[r].pc # "idle"
      BY <1>2, RequestFacts DEF Base, IInv, Consistent, Loading
    <3> QED
      BY <3>1 DEF Base, Connected, At, VisitorsTypeOK
  <2>2. Uses(Owner(p), req[r].user)
    BY <1>1, <1>2, NoIdIsNone DEF Uses, Me
  <2>3. conn[r] = p
    BY <1>1, <2>1, <2>2 DEF VisitorsInv, RequestInv, Sole
  <2> QED
    BY <1>2, <2>1, <2>3 DEF VisitorsInv, RequestInv, Views
<1> QED
  BY <1>1, <1>2, PlaceStep DEF Base

\* No visitor and no handler breaks it.
LEMMA WaitingStep ==
    ASSUME Solo, ~CanFail, Base, VisitorsInv, QueueInv, WaitingInv, [VisitorsNext]_allVars,
           \A q \in Pages : Sole(q)
    PROVE  WaitingInv'
<1>0. /\ page \in [Pages -> PageType] /\ userId \in [Visitor -> Users \cup {None}]
      /\ conn \in [Requests -> Pages \cup {None}]
      /\ \A q \in Pages : page[q] \in PageType
  BY DEF Base, VisitorsTypeOK
<1>1. [Next]_vars
  BY HandlersStep DEF Base
<1>2. \A r \in Requests : Seated(r)'
  BY <1>1, SeatedStep DEF Base, WaitingInv
<1>3. \A q \in Pages : Views(q, "waiting") => Me(q) \in Members(queue')
  BY <1>1, WaiterStays
<1>4. ASSUME NEW q \in Pages, page'[q].view = "waiting" PROVE userId'[Owner(q)] \in Members(queue')
  <2>1. ASSUME page[q].view = "waiting", userId'[Owner(q)] = userId[Owner(q)]
        PROVE  userId'[Owner(q)] \in Members(queue')
    BY <1>3, <2>1 DEF Me, Views
  <2>2. ASSUME NEW p \in Pages, Visit(p) \/ Refresh(p) PROVE userId'[Owner(q)] \in Members(queue')
    <3>1. PICK visits : Ask(p, visits)
      BY <2>2 DEF Visit, Refresh
    <3>2. PICK u : /\ page' = [page EXCEPT ![p] =
                             [Blank EXCEPT !.view = "loading", !.visits = visits,
                                           !.cookie = IF userId[Owner(p)] = None THEN u ELSE None]]
                   /\ userId' = IF IsApi(p) THEN [userId EXCEPT ![Owner(p)] = u] ELSE userId
      BY <3>1 DEF Ask
    <3>3. page'[p].view = "loading" /\ \A k \in Pages \ {p} : page'[k] = page[k]
      BY <1>0, <3>2 DEF Blank
    <3>4. q # p /\ Owner(q) # Owner(p)
      BY <1>4, <3>3 DEF Sole
    <3> QED
      BY <1>0, <1>4, <2>1, <3>2, <3>3, <3>4, PagesHaveOwners
  <2>3. ASSUME NEW p \in Pages, Beat(p) \/ ClosePage(p) PROVE userId'[Owner(q)] \in Members(queue')
    <3>1. page'[q].view \in {page[q].view, "closed"} /\ userId' = userId
      BY <1>0, <2>3 DEF Beat, ClosePage, Blank, PageType
    <3> QED
      BY <1>4, <2>1, <3>1
  <2>4. ASSUME NEW r \in Requests, Serve(r) PROVE userId'[Owner(q)] \in Members(queue')
    <3>p. PICK p \in Pages : p = conn[r]
      BY <1>0, <2>4, NotIdle DEF Serve, Base, Connected, At
    <3>1. CASE UNCHANGED <<page, userId>>
      BY <1>4, <2>1, <3>1
    <3>2. CASE req'[r].pc = "idle" /\ Views(p, "loading")
      <4>1. /\ \A k \in Pages \ {p} : page'[k] = page[k]
            /\ \A v \in Visitor \ {Owner(p)} : userId'[v] = userId[v]
            /\ userId'[Owner(p)] = IF page[p].cookie = None THEN userId[Owner(p)] ELSE page[p].cookie
            /\ LetsIn(r) => page'[p].view = "target"
        BY <2>4, <3>p, <3>2, AnswerFacts
      <4>2. CASE q = p
        <5>1. ~LetsIn(r)
          BY <1>4, <4>1, <4>2
        <5>2. req[r].user \in Members(queue')
          BY <2>4, <3>2, <5>1, AnswerSeats DEF Serve, Base, WaitingInv
        <5>3. Uses(Owner(p), req[r].user) /\ PageInv(p)
          BY <3>p, PagesHaveOwners DEF VisitorsInv, RequestInv
        <5>4. req[r].user \in {Me(p), page[p].cookie} /\ req[r].user # None
          BY <5>3, SoleUses
        <5> QED
          BY <4>1, <4>2, <5>2, <5>3, <5>4 DEF PageInv, Me
      <4>3. CASE q # p
        <5>1. Owner(q) # Owner(p)
          BY <4>3 DEF Sole
        <5> QED
          BY <1>4, <2>1, <4>1, <4>3, <5>1, PagesHaveOwners
      <4> QED
        BY <4>2, <4>3
    <3> QED
      BY <2>4, <3>p, <3>1, <3>2 DEF Serve, Answered
  <2>5. CASE Pass
    <3>1. page'[q].view = page[q].view /\ userId' = userId
      BY <1>0, <2>5 DEF Pass, PageType
    <3> QED
      BY <1>4, <2>1, <3>1
  <2>6. CASE UNCHANGED allVars
    BY <1>4, <2>1, <2>6 DEF allVars, visitorVars
  <2> QED
    BY <2>2, <2>3, <2>4, <2>5, <2>6 DEF VisitorsNext, Fail, Abort, LastReplyLost, Crash, Restart
<1> QED
  BY <1>2, <1>4 DEF WaitingInv, WaitingPageHasPlace, Views, Me

\* With a single handler, as long as no command fails and no browser has two
\* pages, whoever sees the waiting page has a place in the queue, at every
\* moment and not only when it is sent.
THEOREM WaitersHavePlaces ==
    ASSUME Solo, ~CanFail, TabsPerBrowser = 1
    PROVE  VisitorsSpec => []WaitingPageHasPlace
<1>1. \A q \in Pages : Sole(q)
  BY VisitorsAssumption DEF Pages, Sole, Owner
<1>2. VisitorsInit => WaitingInv
  BY DEF VisitorsInit, Init, Idle, Blank, WaitingInv, WaitingPageHasPlace, Views, Seated, At
<1>3. Base /\ VisitorsInv /\ QueueInv /\ WaitingInv /\ [VisitorsNext]_allVars => WaitingInv'
  BY <1>1, WaitingStep
<1>4. WaitingInv => WaitingPageHasPlace
  BY DEF WaitingInv
<1> QED
  BY <1>2, <1>3, <1>4, BaseInvariance, VisitorsInvariance, VisitorsRefine, QueueInvariance, PTL
     DEF VisitorsSpec
-----------------------------------------------------------------------------
(***************************************************************************)
(* The keys of a session, as the only request of its user sees them.       *)
(***************************************************************************)

\* Request record x has stored the session it holds, or has found it.
Stored(x) ==
    \/ x.path = "refresh"
    \/ x.path \in {"use", "direct"} /\ x.pc \notin Counting \cup {"setSession", "setActiveSession"}

\* What every step of request r makes of what it knows of sessions.
Turns(r) ==
    /\ Sessionless(req'[r]) =>
           \/ Sessionless(req[r])
           \/ At(r, "getActiveSession") /\ activeSession[req[r].user].id = None
           \/ At(r, "getSession") /\ ~Live(req[r].session)
    /\ req'[r].pc = "getSession" =>
           At(r, "getActiveSession") /\ activeSession[req[r].user].id = req'[r].session
    /\ req'[r].pc = "setActiveSession" => At(r, "setSession") /\ req'[r].session = req[r].session
    /\ Stored(req'[r]) =>
           /\ req'[r].session = req[r].session
           /\ \/ Stored(req[r])
              \/ At(r, "getSession") /\ Live(req[r].session) /\ req'[r].pc = "expireSession"
              \/ At(r, "setActiveSession") /\ req'[r].pc = "addActive"
           /\ At(r, "addActive") => req'[r].pc = "expireSession" \/ SessionTTL = 0
           /\ At(r, "expireSession") => req'[r].pc = "expireActive"

\* Every step does so.
LEMMA TurnsStep ==
    ASSUME IInv, NEW r \in Requests, Step(r)
    PROVE  Turns(r)
<1>0. /\ req \in [Requests -> GoodRequest] /\ req[r] \in RequestType
      /\ req[r].pc \in Loading => req[r].path = "none"
      /\ req[r].pc \in {"setSession", "setActiveSession", "addActive"} => req[r].path \in {"use", "direct"}
      /\ SessionTTL \in Nat
  BY RequestFacts, ConstantsAssumption DEF IInv, RequestsOK, Consistent
<1>1. CASE GetUser(r)
  BY <1>0, <1>1 DEF GetUser, At, Loading, Queueing, Counting, RequestType, Sessionless, Stored, Turns
<1>2. CASE GetActiveSession(r)
  BY <1>0, <1>2 DEF GetActiveSession, At, Goto, Loading, Queueing, Counting, RequestType, Sessionless, Stored, Turns
<1>3. CASE GetSession(r)
  BY <1>0, <1>3 DEF GetSession, At, Take, Idle, Loading, Queueing, Counting, RequestType, Sessionless, Stored, Turns
<1>4. CASE GetActiveTicket(r)
  BY <1>0, <1>4 DEF GetActiveTicket, At, Loading, Queueing, Counting, RequestType, Sessionless, Stored, Turns
<1>5. CASE ExpireTicket(r)
  BY <1>0, <1>5 DEF ExpireTicket, At, TicketFound, Take, Idle, Loading, Queueing, Counting, RequestType, Sessionless, Stored, Turns
<1>6. CASE TryPromote(r)
  BY <1>0, <1>6 DEF TryPromote, At, TicketFound, Loading, Queueing, Counting, RequestType, Sessionless, Stored, Turns
<1>7. CASE StayQueued(r)
  BY <1>0, <1>7 DEF StayQueued, At, TicketFound, Take, Idle, Loading, Queueing, Counting, RequestType, Sessionless, Stored, Turns
<1>8. CASE TryUse(r)
  BY <1>0, <1>8 DEF TryUse, At, TicketFound, Loading, Queueing, Counting, RequestType, Sessionless, Stored, Turns
<1>9. CASE TryDirect(r)
  BY <1>0, <1>9 DEF TryDirect, At, TicketMissing, Take, Idle, Loading, Queueing, Counting, RequestType, Sessionless, Stored, Turns
<1>10. CASE TryIssue(r)
  BY <1>0, <1>10 DEF TryIssue, At, TicketMissing, IssueTicket, Take, Idle, Loading, Queueing, Counting, RequestType, Sessionless, Stored, Turns
<1>11. CASE Lock(r)
  BY <1>0, <1>11 DEF Lock, At, Loading, Queueing, Counting, RequestType, Sessionless, Stored, Turns
<1>12. CASE Exists(r)
  <2>1. PICK s \in req[r].todo :
          \/ req' = [req EXCEPT ![r].todo = @ \ {s}, ![r].counted = @ \cup {s}]
          \/ req' = [req EXCEPT ![r].pc = "srem", ![r].todo = @ \ {s}, ![r].member = s]
    BY <1>12 DEF Exists
  <2> QED
    BY <1>0, <1>12, <2>1 DEF Exists, At, Loading, Queueing, Counting, RequestType, Sessionless, Stored, Turns
<1>13. CASE Srem(r)
  BY <1>0, <1>13 DEF Srem, At, Loading, Queueing, Counting, RequestType, Sessionless, Stored, Turns
<1>14. CASE PromoteAdmitted(r)
  BY <1>0, <1>14 DEF PromoteAdmitted, At, Counted, Loading, Queueing, Counting, RequestType, Sessionless, Stored, Turns
<1>15. CASE PromoteRefused(r)
  BY <1>0, <1>15 DEF PromoteRefused, At, Counted, Take, Idle, Loading, Queueing, Counting, RequestType, Sessionless, Stored, Turns
<1>16. CASE UseAdmitted(r)
  BY <1>0, <1>16 DEF UseAdmitted, At, Counted, CreateSession, Take, Idle, Loading, Queueing, Counting, RequestType, Sessionless, Stored, Turns
<1>17. CASE UseRefused(r)
  BY <1>0, <1>17 DEF UseRefused, At, Counted, Take, Idle, Loading, Queueing, Counting, RequestType, Sessionless, Stored, Turns
<1>18. CASE DirectAdmitted(r)
  BY <1>0, <1>18 DEF DirectAdmitted, At, Counted, CreateSession, Take, Idle, Loading, Queueing, Counting, RequestType, Sessionless, Stored, Turns
<1>19. CASE DirectRefused(r)
  BY <1>0, <1>19 DEF DirectRefused, At, Counted, IssueTicket, Take, Idle, Loading, Queueing, Counting, RequestType, Sessionless, Stored, Turns
<1>20. CASE SetTicket(r)
  BY <1>0, <1>20 DEF SetTicket, At, Loading, Queueing, Counting, RequestType, Sessionless, Stored, Turns
<1>21. CASE SetActiveTicket(r)
  BY <1>0, <1>21 DEF SetActiveTicket, At, Goto, Loading, Queueing, Counting, RequestType, Sessionless, Stored, Turns
<1>22. CASE SetRoom(r)
  BY <1>0, <1>22 DEF SetRoom, At, Finish, Idle, Loading, Queueing, Counting, RequestType, Sessionless, Stored, Turns
<1>23. CASE SetUser(r)
  BY <1>0, <1>23 DEF SetUser, At, Finish, Idle, Loading, Queueing, Counting, RequestType, Sessionless, Stored, Turns
<1>24. CASE SetSession(r)
  BY <1>0, <1>24 DEF SetSession, At, Goto, Loading, Queueing, Counting, RequestType, Sessionless, Stored, Turns
<1>25. CASE SetActiveSession(r)
  BY <1>0, <1>25 DEF SetActiveSession, At, Goto, Loading, Queueing, Counting, RequestType, Sessionless, Stored, Turns
<1>26. CASE AddActive(r)
  BY <1>0, <1>26 DEF AddActive, At, Goto, Loading, Queueing, Counting, RequestType, Sessionless, Stored, Turns
<1>27. CASE ExpireSession(r)
  BY <1>0, <1>27 DEF ExpireSession, At, Goto, Loading, Queueing, Counting, RequestType, Sessionless, Stored, Turns
<1>28. CASE ExpireActive(r)
  BY <1>0, <1>28 DEF ExpireActive, At, Goto, Loading, Queueing, Counting, RequestType, Sessionless, Stored, Turns
<1>29. CASE RefreshActive(r)
  BY <1>0, <1>29 DEF RefreshActive, At, Finish, Idle, Goto, Loading, Queueing, Counting, RequestType, Sessionless, Stored, Turns
<1> QED
  BY <1>1, <1>2, <1>3, <1>4, <1>5, <1>6, <1>7, <1>8, <1>9, <1>10, <1>11, <1>12, <1>13,
     <1>14, <1>15, <1>16, <1>17, <1>18, <1>19, <1>20, <1>21, <1>22, <1>23, <1>24, <1>25,
     <1>26, <1>27, <1>28, <1>29 DEF Step

\* Which action a request is at, when it writes a session.
LEMMA WhichSessionStep ==
    ASSUME NEW r \in Requests, Step(r)
    PROVE  /\ req[r].pc = "setSession" => SetSession(r)
           /\ req[r].pc = "setActiveSession" => SetActiveSession(r)
  BY DEF Step, At, GetUser, GetActiveSession, GetSession, GetActiveTicket, ExpireTicket,
     TryPromote, StayQueued, TryUse, TryDirect, TryIssue, TicketFound, TicketMissing, Lock, Exists,
     Srem, PromoteAdmitted, PromoteRefused, UseAdmitted, UseRefused, DirectAdmitted, DirectRefused,
     Counted,
     SetTicket, SetActiveTicket, SetRoom, SetUser, SetSession, SetActiveSession, AddActive,
     ExpireSession, ExpireActive, RefreshActive

\* What every step of request r does to sessions and pointers: it touches only
\* the session it holds and the pointer of its user.
Touches(r) ==
    /\ \A s \in SessionIds : s # req[r].session => session'[s] = session[s]
    /\ \A u \in Users : u # req[r].user => activeSession'[u] = activeSession[u]
    /\ ~At(r, "setSession") => \A s \in SessionIds : session'[s] # Gone <=> session[s] # Gone
    /\ ~At(r, "setActiveSession") => \A u \in Users : activeSession'[u].id = activeSession[u].id
    /\ req[r].pc \notin {"setSession", "expireSession"} => session' = session
    /\ req[r].pc \notin {"setActiveSession", "expireActive"} => activeSession' = activeSession
    /\ At(r, "setSession") => session'[req[r].session] = Persistent
    /\ At(r, "setActiveSession") => activeSession'[req[r].user] = [id |-> req[r].session, ttl |-> Persistent]
    /\ At(r, "expireSession") /\ Live(req[r].session) => session'[req[r].session] = SessionTTL
    /\ At(r, "expireActive") /\ activeSession[req[r].user].ttl # Gone =>
           activeSession'[req[r].user].ttl = SessionTTL

\* Every step does so.
LEMMA TouchesStep ==
    ASSUME IInv, NEW r \in Requests, Step(r)
    PROVE  Touches(r)
<1> DEFINE s == req[r].session
<1>0. /\ req[r].user \in Users /\ session \in [SessionIds -> TTLs]
      /\ activeSession \in [Users -> [id : SessionIds \cup {None}, ttl : TTLs]]
      /\ req[r].pc \in {"setSession", "setActiveSession", "addActive", "expireSession", "expireActive"} =>
             s \in SessionIds
      /\ req[r].pc \in {"expireSession", "expireActive"} => SessionTTL > 0
  BY NotIdle, RequestFacts DEF IInv, StoreOK, Consistent
<1>1. CASE ~SetSession(r) /\ ~SetActiveSession(r) /\ ~AddActive(r) /\ ~ExpireSession(r) /\ ~ExpireActive(r)
  BY <1>1, BystanderStep, WhichSessionStep DEF Bystander, Touches, At
<1>2. CASE SetSession(r)
  BY <1>0, <1>2 DEF SetSession, At, Touches
<1>3. CASE SetActiveSession(r)
  BY <1>0, <1>3 DEF SetActiveSession, At, Touches
<1>4. CASE AddActive(r)
  BY <1>0, <1>4 DEF AddActive, At, Touches
<1>5. CASE ExpireSession(r)
  <2>1. /\ req[r].pc = "expireSession" /\ UNCHANGED activeSession
        /\ session' = [session EXCEPT ![s] = Expire(@)]
    BY <1>5 DEF ExpireSession, At
  <2>2. /\ session'[s] = Expire(session[s]) /\ \A t \in SessionIds : t # s => session'[t] = session[t]
    BY <1>0, <2>1
  <2>3. /\ session[s] # Gone => session'[s] = SessionTTL
        /\ session'[s] # Gone <=> session[s] # Gone
    BY <1>0, <2>1, <2>2 DEF Expire, Gone
  <2> QED
    BY <2>1, <2>2, <2>3 DEF Touches, At, Live
<1>6. CASE ExpireActive(r)
  <2>1. /\ req[r].pc = "expireActive" /\ UNCHANGED session
        /\ activeSession' = [activeSession EXCEPT ![req[r].user].ttl = Expire(@)]
    BY <1>6 DEF ExpireActive, At
  <2>2. /\ \A u \in Users : activeSession'[u].id = activeSession[u].id
        /\ \A u \in Users : u # req[r].user => activeSession'[u] = activeSession[u]
        /\ activeSession'[req[r].user].ttl = Expire(activeSession[req[r].user].ttl)
    BY <1>0, <2>1
  <2> QED
    BY <2>1, <2>2 DEF Touches, At, Expire
<1> QED
  BY <1>1, <1>2, <1>3, <1>4, <1>5, <1>6

\* The request of a page that is the only one of its owner is the only one of
\* its user.
LEMMA OnlyRequest ==
    ASSUME Base, VisitorsInv, NEW q \in Requests, NEW r \in Requests,
           conn[q] # None, conn[r] # None, Sole(conn[r]), req[q].user = req[r].user
    PROVE  q = r
<1>1. conn[q] \in Pages /\ conn[r] \in Pages /\ Owner(conn[r]) \in Visitor
  BY PagesHaveOwners DEF Base, VisitorsTypeOK
<1>2. Uses(Owner(conn[r]), req[r].user)
  BY DEF VisitorsInv, RequestInv
<1>3. Owner(conn[r]) = Owner(conn[q])
  BY <1>1, <1>2 DEF VisitorsInv, RequestInv
<1> QED
  BY <1>1, <1>3 DEF VisitorsInv, RequestInv, Sole

\* What request record x knows, given the TTLs of the sessions and the
\* pointers.
KnowsKeys(x, lifetime, pointer) ==
    /\ x.pc = "getSession" => pointer[x.user].id = x.session
    /\ x.pc = "setActiveSession" => lifetime[x.session] # Gone
    /\ Stored(x) => /\ x.session # None /\ pointer[x.user].id = x.session
                    /\ lifetime[x.session] # Gone
    /\ SessionTTL > 0 /\ Stored(x) /\ x.pc \notin {"addActive", "expireSession"} =>
           lifetime[x.session] = SessionTTL
    /\ SessionTTL > 0 /\ Stored(x) /\ x.pc \notin {"addActive", "expireSession", "expireActive"} =>
           pointer[x.user].ttl = SessionTTL

\* The inductive invariant.
KeysInv == \A r \in Requests : conn[r] # None /\ Sole(conn[r]) => KnowsKeys(req[r], session, activeSession)

\* A step of a request and what it knows itself.
LEMMA OwnKeysStep ==
    ASSUME IInv, PointersOwn, NEW r \in Requests, Step(r), KnowsKeys(req[r], session, activeSession)
    PROVE  KnowsKeys(req'[r], session', activeSession')
<1>0. /\ Turns(r) /\ Touches(r) /\ Proceeds(r)
      /\ req[r].session \in SessionIds \cup {None} /\ req[r].user \in Users
      /\ activeSession \in [Users -> [id : SessionIds \cup {None}, ttl : TTLs]]
      /\ SessionTTL \in Nat
  BY TurnsStep, TouchesStep, ProceedsStep, NotIdle, RequestFacts, ConstantsAssumption DEF IInv, StoreOK
<1>1. CASE req'[r] = Idle
  BY <1>1 DEF Idle, KnowsKeys, Stored
<1>2. CASE req'[r] # Idle
  <2>0. req'[r].user = req[r].user /\ req'[r].pc # "idle"
    BY <1>0, <1>2 DEF Proceeds
  <2>1. req'[r].pc = "getSession" => activeSession'[req'[r].user].id = req'[r].session
    BY <1>0, <2>0 DEF Turns, Touches, At
  <2>2. req'[r].pc = "setActiveSession" => session'[req'[r].session] # Gone
    BY <1>0 DEF Turns, Touches, Gone, Persistent
  <2>3. ASSUME Stored(req'[r])
        PROVE  /\ req'[r].session = req[r].session /\ req[r].session # None
               /\ activeSession'[req[r].user].id = req[r].session
               /\ session'[req[r].session] # Gone
    <3>1. /\ req'[r].session = req[r].session
          /\ \/ Stored(req[r])
             \/ At(r, "getSession") /\ Live(req[r].session)
             \/ At(r, "setActiveSession")
      BY <1>0, <2>3 DEF Turns
    <3>2. CASE Stored(req[r])
      <4>1. ~At(r, "setSession") /\ ~At(r, "setActiveSession")
        BY <3>2, RequestFacts DEF Stored, At, IInv, Consistent
      <4> QED
        BY <1>0, <3>1, <3>2, <4>1 DEF Touches, KnowsKeys
    <3>3. CASE At(r, "getSession") /\ Live(req[r].session)
      <4>1. req[r].session # None
        BY <3>3, RequestFacts DEF IInv, Consistent, At
      <4> QED
        BY <1>0, <3>1, <3>3, <4>1 DEF Touches, KnowsKeys, At, Live
    <3>4. CASE At(r, "setActiveSession")
      <4>1. req[r].session # None
        BY <3>4, RequestFacts DEF IInv, Consistent, At
      <4> QED
        BY <1>0, <3>1, <3>4, <4>1 DEF Touches, KnowsKeys, At
    <3> QED
      BY <3>1, <3>2, <3>3, <3>4
  <2>4. ASSUME SessionTTL > 0, Stored(req'[r]), req'[r].pc \notin {"addActive", "expireSession"}
        PROVE  session'[req[r].session] = SessionTTL
    <3>1. Stored(req[r]) /\ req[r].pc # "addActive"
      BY <1>0, <2>4 DEF Turns, At
    <3>2. req[r].pc # "setSession"
      BY <3>1, RequestFacts DEF Stored, IInv, Consistent
    <3>3. CASE req[r].pc = "expireSession"
      BY <1>0, <3>1, <3>3 DEF Touches, KnowsKeys, At, Live
    <3>4. CASE req[r].pc # "expireSession"
      BY <1>0, <2>4, <3>1, <3>2, <3>4 DEF Touches, KnowsKeys
    <3> QED
      BY <3>3, <3>4
  <2>5. ASSUME SessionTTL > 0, Stored(req'[r]), req'[r].pc \notin {"addActive", "expireSession", "expireActive"}
        PROVE  activeSession'[req[r].user].ttl = SessionTTL
    <3>1. Stored(req[r]) /\ req[r].pc # "addActive" /\ req[r].pc # "expireSession"
      BY <1>0, <2>5 DEF Turns, At
    <3>2. req[r].pc # "setActiveSession"
      BY <3>1, RequestFacts DEF Stored, IInv, Consistent
    <3>3. CASE req[r].pc = "expireActive"
      <4>1. activeSession[req[r].user].ttl # Gone
        BY <1>0, <3>1 DEF PointersOwn, KnowsKeys
      <4> QED
        BY <1>0, <3>3, <4>1 DEF Touches, At
    <3>4. CASE req[r].pc # "expireActive"
      BY <1>0, <2>5, <3>1, <3>2, <3>4 DEF Touches, KnowsKeys
    <3> QED
      BY <3>3, <3>4
  <2> QED
    BY <2>0, <2>1, <2>2, <2>3, <2>4, <2>5 DEF KnowsKeys
<1> QED
  BY <1>1, <1>2
-----------------------------------------------------------------------------
(***************************************************************************)
(* A session that is alive can be found.                                   *)
(***************************************************************************)

\* No two requests of a user are in flight.
Apart ==
    \A q, r \in Requests : req[q].pc # "idle" /\ req[r].pc # "idle" /\ req[q].user = req[r].user => q = r

\* Request r has stored session s and not yet the pointer to it.
Creating(r, s) == req[r].session = s /\ At(r, "setActiveSession")

\* The inductive invariant: a session without a pointer is being created, and
\* whoever is about to create one has seen that there is none.
FindInv ==
    /\ \A s \in SessionIds : Live(s) =>
           activeSession[Owner(s)].id = s \/ \E r \in Requests : Creating(r, s)
    /\ \A r \in Requests : Sessionless(req[r]) =>
           \A s \in SessionIds : Live(s) => Owner(s) # req[r].user
    /\ \A r \in Requests : At(r, "setActiveSession") =>
           \A s \in SessionIds : Live(s) /\ Owner(s) = req[r].user => s = req[r].session
    /\ \A r \in Requests : At(r, "getSession") => activeSession[req[r].user].id = req[r].session

\* No step of a request hides a session.
LEMMA FindStep ==
    ASSUME IInv, SessionsOwn, Apart, FindInv, NEW r \in Requests, Step(r)
    PROVE  FindInv'
<1> DEFINE u == req[r].user
<1>0. /\ Turns(r) /\ Touches(r) /\ Proceeds(r)
      /\ u \in Users /\ req[r].pc # "idle"
      /\ req \in [Requests -> GoodRequest] /\ req[r] \in RequestType
      /\ \A q \in Requests : req[q].session \in SessionIds \cup {None}
      /\ activeSession \in [Users -> [id : SessionIds \cup {None}, ttl : TTLs]]
      /\ \A s \in SessionIds : s # None /\ Owner(s) \in Users
  BY TurnsStep, TouchesStep, ProceedsStep, NotIdle, RequestFacts, NoIdIsNone
     DEF IInv, StoreOK, RequestsOK, SessionIds, Owner
<1>1. ASSUME NEW q \in Requests, Sessionless(req[q]) \/ At(q, "setActiveSession") \/ At(q, "getSession"), q # r
      PROVE  req[q].user # u /\ req'[q] = req[q]
  <2>1. req[q].pc # "idle"
    BY <1>1, RequestFacts DEF IInv, Sessionless, Consistent, Loading, Queueing, Counting, At
  <2> QED
    BY <1>0, <1>1, <2>1 DEF Apart, Proceeds
<1>2. At(r, "setSession") => /\ req'[r].pc = "setActiveSession" /\ req'[r].session = req[r].session
                             /\ req[r].session \in SessionIds /\ Owner(req[r].session) = u
                             /\ Sessionless(req[r])
  <2> SUFFICES ASSUME At(r, "setSession")
               PROVE  /\ req'[r].pc = "setActiveSession" /\ req'[r].session = req[r].session
                      /\ req[r].session \in SessionIds /\ Owner(req[r].session) = u
                      /\ Sessionless(req[r])
    OBVIOUS
  <2>1. req[r].session # None /\ req[r].path \in {"use", "direct"}
    BY RequestFacts DEF IInv, Consistent, At
  <2>2. req' = [req EXCEPT ![r].pc = "setActiveSession"]
    BY WhichSessionStep DEF At, SetSession, Goto
  <2> QED
    BY <1>0, <2>1, <2>2 DEF RequestType, SessionsOwn, Sessionless, At
<1>3. ASSUME NEW s \in SessionIds, session'[s] # Gone
      PROVE  session[s] # Gone \/ (At(r, "setSession") /\ s = req[r].session)
  BY <1>0, <1>3 DEF Touches
<1>4. ASSUME NEW s \in SessionIds, session[s] # Gone, Owner(s) = u, ~At(r, "setActiveSession")
      PROVE  activeSession[u].id = s
  <2>1. ASSUME NEW q \in Requests, Creating(q, s) PROVE FALSE
    <3>1. Owner(s) = req[q].user /\ At(q, "setActiveSession")
      BY <1>0, <2>1 DEF Creating, SessionsOwn
    <3> QED
      BY <1>1, <1>4, <3>1
  <2> QED
    BY <1>4, <2>1 DEF FindInv, Live
<1>5. ASSUME NEW s \in SessionIds, session'[s] # Gone
      PROVE  activeSession'[Owner(s)].id = s \/ \E q \in Requests : Creating(q, s)'
  <2>1. CASE At(r, "setSession") /\ s = req[r].session
    BY <1>2, <2>1 DEF Creating, At
  <2>2. CASE session[s] # Gone /\ activeSession[Owner(s)].id = s
    <3>1. CASE At(r, "setActiveSession") /\ Owner(s) = u
      <4>1. s = req[r].session
        BY <2>2, <3>1 DEF FindInv, Live
      <4> QED
        BY <1>0, <3>1, <4>1 DEF Touches
    <3>2. CASE ~At(r, "setActiveSession") \/ Owner(s) # u
      BY <1>0, <2>2, <3>2 DEF Touches
    <3> QED
      BY <3>1, <3>2
  <2>3. ASSUME NEW q \in Requests, Creating(q, s)
        PROVE  activeSession'[Owner(s)].id = s \/ \E k \in Requests : Creating(k, s)'
    <3>1. CASE q # r
      <4>1. req'[q] = req[q]
        BY <1>1, <2>3, <3>1 DEF Creating
      <4> QED
        BY <2>3, <4>1 DEF Creating, At
    <3>2. CASE q = r
      <4>1. At(r, "setActiveSession") /\ s = req[r].session /\ Owner(s) = u
        BY <1>0, <2>3, <3>2 DEF Creating, SessionsOwn
      <4> QED
        BY <1>0, <4>1 DEF Touches
    <3> QED
      BY <3>1, <3>2
  <2> QED
    BY <1>3, <1>5, <2>1, <2>2, <2>3 DEF FindInv, Live
<1>6. ASSUME NEW q \in Requests, Sessionless(req'[q]), NEW s \in SessionIds, session'[s] # Gone
      PROVE  Owner(s) # req'[q].user
  <2>1. CASE q # r
    <3>1. req'[q] = req[q]
      BY <1>0, <2>1 DEF Proceeds
    <3>2. req[q].user # u /\ Sessionless(req[q])
      BY <1>1, <1>6, <2>1, <3>1
    <3> QED
      BY <1>2, <1>3, <1>6, <3>1, <3>2 DEF FindInv, Live
  <2>2. CASE q = r
    <3>1. req'[r].user = u /\ ~At(r, "setSession") /\ session[s] # Gone
      <4>1. ~At(r, "setSession")
        <5> SUFFICES ASSUME At(r, "setSession") PROVE FALSE
          OBVIOUS
        <5>1. req[r].path \in {"use", "direct"} /\ req' = [req EXCEPT ![r].pc = "setActiveSession"]
          BY WhichSessionStep, RequestFacts DEF IInv, Consistent, At, SetSession, Goto
        <5>2. req'[r].path = req[r].path /\ req'[r].pc = "setActiveSession"
          BY <1>0, <5>1 DEF RequestType
        <5> QED
          BY <1>6, <2>2, <5>1, <5>2 DEF Sessionless, Queueing, Counting
      <4>2. req'[r] # Idle
        BY <1>6, <2>2 DEF Sessionless, Idle, Queueing, Counting
      <4> QED
        BY <1>0, <1>3, <1>6, <4>1, <4>2 DEF Proceeds
    <3>2. CASE Sessionless(req[r])
      BY <2>2, <3>1, <3>2 DEF FindInv, Live
    <3>3. CASE At(r, "getActiveSession") /\ activeSession[u].id = None
      BY <1>0, <1>4, <2>2, <3>1, <3>3 DEF At
    <3>4. CASE At(r, "getSession") /\ ~Live(req[r].session)
      <4>1. activeSession[u].id = req[r].session
        BY <3>4 DEF FindInv
      <4> QED
        BY <1>4, <2>2, <3>1, <3>4, <4>1 DEF At, Live
    <3> QED
      BY <1>0, <1>6, <2>2, <3>2, <3>3, <3>4 DEF Turns
  <2> QED
    BY <2>1, <2>2
<1>7. ASSUME NEW q \in Requests, req'[q].pc = "setActiveSession", NEW s \in SessionIds, session'[s] # Gone,
             Owner(s) = req'[q].user
      PROVE  s = req'[q].session
  <2>1. CASE q # r
    <3>1. req'[q] = req[q]
      BY <1>0, <2>1 DEF Proceeds
    <3>2. req[q].user # u /\ At(q, "setActiveSession")
      BY <1>1, <1>7, <2>1, <3>1 DEF At
    <3> QED
      BY <1>2, <1>3, <1>7, <3>1, <3>2 DEF FindInv, Live
  <2>2. CASE q = r
    <3>1. At(r, "setSession") /\ req'[r].session = req[r].session /\ req'[r].user = u
      BY <1>0, <1>7, <2>2 DEF Turns, Proceeds, Idle
    <3> QED
      BY <1>2, <1>3, <1>7, <2>2, <3>1 DEF FindInv, Live
  <2> QED
    BY <2>1, <2>2
<1>8. ASSUME NEW q \in Requests, req'[q].pc = "getSession"
      PROVE  activeSession'[req'[q].user].id = req'[q].session
  <2>1. CASE q # r
    <3>1. req'[q] = req[q]
      BY <1>0, <2>1 DEF Proceeds
    <3>2. req[q].user # u /\ At(q, "getSession")
      BY <1>1, <1>8, <2>1, <3>1 DEF At
    <3>3. req[q].user \in Users
      BY <3>2, RequestFacts DEF IInv, At
    <3> QED
      BY <1>0, <3>1, <3>2, <3>3 DEF FindInv, Touches
  <2>2. CASE q = r
    BY <1>0, <1>8, <2>2 DEF Turns, Touches, Proceeds, Idle, At
  <2> QED
    BY <2>1, <2>2
<1> QED
  BY <1>5, <1>6, <1>7, <1>8 DEF FindInv, Live, At

\* A request that has just begun knows nothing of sessions yet, or has the one
\* it is a heartbeat for.
LEMMA FindStart ==
    ASSUME IInv, FindInv, NEW r \in Requests,
           (\E u \in Users : Start(r, u)) \/ \E s \in SessionIds : Heartbeat(r, s)
    PROVE  FindInv'
<1>1. /\ req[r].pc = "idle" /\ UNCHANGED <<session, activeSession>>
      /\ \A q \in Requests \ {r} : req'[q] = req[q]
      /\ \/ req'[r].pc = "getUser" /\ req'[r].path = "none"
         \/ req'[r].pc = "expireSession" /\ req'[r].path = "refresh"
  <2>1. req \in [Requests -> GoodRequest]
    BY DEF IInv, RequestsOK
  <2>2. CASE \E u \in Users : Start(r, u)
    <3>1. PICK u \in Users : Start(r, u)
      BY <2>2
    <3>2. req' = [req EXCEPT ![r] = [Idle EXCEPT !.pc = "getUser", !.user = u, !.room = queue]]
      BY <3>1 DEF Start
    <3>3. req'[r].pc = "getUser" /\ req'[r].path = "none"
      BY <2>1, <3>2 DEF Idle
    <3> QED
      BY <2>1, <3>1, <3>2, <3>3 DEF Start, At, store, sessionKeys
  <2>3. CASE \E s \in SessionIds : Heartbeat(r, s)
    <3>1. PICK s \in SessionIds : Heartbeat(r, s)
      BY <2>3
    <3>2. req' = [req EXCEPT ![r] = [Idle EXCEPT !.pc = "expireSession", !.path = "refresh",
                                     !.user = Owner(s), !.session = s]]
      BY <3>1 DEF Heartbeat
    <3>3. req'[r].pc = "expireSession" /\ req'[r].path = "refresh"
      BY <2>1, <3>2 DEF Idle
    <3> QED
      BY <2>1, <3>1, <3>2, <3>3 DEF Heartbeat, At, store, sessionKeys
  <2> QED
    BY <2>2, <2>3
<1>2. ~Sessionless(req'[r]) /\ req'[r].pc \notin {"setActiveSession", "getSession"}
  BY <1>1 DEF Sessionless, Queueing, Counting
<1>3. \A q \in Requests, s \in SessionIds : Creating(q, s) => Creating(q, s)'
  BY <1>1 DEF Creating, At
<1> QED
  BY <1>1, <1>2, <1>3 DEF FindInv, Live, At

\* When a pointer expires its session does.
LEMMA FindTick ==
    ASSUME IInv, PointerInv, FindInv, Tick, \A r \in Requests : At(r, "idle")
    PROVE  FindInv'
<1>1. ASSUME NEW q \in Requests
      PROVE  ~Sessionless(req'[q]) /\ req'[q].pc \notin {"setActiveSession", "getSession"}
  <2>1. req[q] \in RequestType /\ Consistent(req[q]) /\ req[q].pc = "idle"
    BY RequestFacts DEF IInv, At
  <2>2. req'[q] = req[q]
    <3>1. ~NowNeeded(q)
      BY <2>1 DEF NowNeeded
    <3> QED
      BY <3>1 DEF Tick
  <2> QED
    BY <2>1, <2>2 DEF Sessionless, Consistent, Loading, Queueing, Counting
<1>2. ASSUME NEW s \in SessionIds, session'[s] # Gone PROVE activeSession'[Owner(s)].id = s
  <2> DEFINE u == Owner(s)
  <2>0. /\ u \in Users /\ s # None /\ session[s] \in TTLs /\ activeSession[u].ttl \in TTLs
        /\ activeSession \in [Users -> [id : SessionIds \cup {None}, ttl : TTLs]]
    BY NoIdIsNone DEF IInv, StoreOK, SessionIds, Owner
  <2>1. session'[s] = Age(session[s])
    BY DEF Tick
  <2>2. session[s] # Gone /\ session[s] # 1
    BY <1>2, <2>1 DEF Age, Gone
  <2>3. activeSession[u].id = s
    BY <2>2 DEF FindInv, Live, Creating, At
  <2>4. activeSession[u].ttl # 1
    <3>1. CASE SessionTTL = 0
      BY <2>0, <3>1 DEF TTLs, Gone, Persistent
    <3>2. CASE SessionTTL > 0
      <4>1. session[s] \in 1..activeSession[u].ttl
        BY <2>0, <2>2, <2>3, <3>2 DEF PointerInv, Outlives, Live, Extending, At
      <4> QED
        BY <2>2, <4>1
    <3> QED
      BY <3>1, <3>2, ConstantsAssumption
  <2>5. activeSession'[u] = [activeSession[u] EXCEPT !.ttl = Age(@)]
    BY <2>0, <2>4 DEF Tick
  <2> QED
    BY <2>0, <2>3, <2>5
<1> QED
  BY <1>1, <1>2 DEF FindInv, Live, At

\* As long as no command fails, requests take less than a tick and no browser
\* has two pages, a live session is found by GetActiveByUserID whenever no
\* request of its user is in flight, however many handlers there are.
THEOREM LiveSessionsAreFound ==
    ASSUME ~CanFail, Prompt, TabsPerBrowser = 1
    PROVE  VisitorsSpec => []LiveSessionFindable
<1>1. \A q \in Pages : Sole(q)
  BY VisitorsAssumption DEF Pages, Sole, Owner
<1>2. VisitorsInit => FindInv
  BY DEF VisitorsInit, Init, Idle, FindInv, Live, Sessionless, Queueing, Counting, At
<1>3. ASSUME Base, VisitorsInv, PointerInv, FindInv, [VisitorsNext]_allVars PROVE FindInv'
  <2>1. Apart
    <3> SUFFICES ASSUME NEW q \in Requests, NEW r \in Requests, req[q].pc # "idle", req[r].pc # "idle",
                        req[q].user = req[r].user
                 PROVE  q = r
      BY DEF Apart
    <3>1. conn[q] # None /\ conn[r] # None /\ conn[r] \in Pages
      BY <1>3 DEF Base, Connected, At, VisitorsTypeOK
    <3> QED
      BY <1>1, <1>3, <3>1, OnlyRequest
  <2>2. ASSUME NEW p \in Pages, Visit(p) \/ Refresh(p) PROVE FindInv'
    <3>1. PICK r \in Requests, u \in Identity(p) : Start(r, u)
      BY <2>2 DEF Visit, Refresh, Ask
    <3> QED
      BY <1>3, <3>1, IdentityFacts, FindStart DEF Base
  <2>3. CASE UNCHANGED vars
    BY <1>3, <2>3 DEF vars, store, sessionKeys, FindInv, Live, Creating, At
  <2>4. ASSUME NEW p \in Pages, Beat(p) PROVE FindInv'
    <3>1. page[p].session \in SessionIds
      BY <1>3, <2>4 DEF Beat, Base, VisitorsTypeOK, PageType
    <3> QED
      BY <1>3, <2>3, <2>4, <3>1, FindStart DEF Beat, Base
  <2>5. ASSUME NEW r \in Requests, Serve(r) PROVE FindInv'
    BY <1>3, <2>1, <2>5, FindStep DEF Serve, Base, PointerInv
  <2>6. CASE Pass
    BY <1>3, <2>6, FindTick DEF Pass, Base
  <2> QED
    BY <1>3, <2>2, <2>3, <2>4, <2>5, <2>6 DEF VisitorsNext, ClosePage, Fail, Abort, LastReplyLost, Crash, Restart, allVars
<1>4. FindInv /\ SessionsOwn /\ IInv => LiveSessionFindable
  <2> SUFFICES ASSUME FindInv, SessionsOwn, IInv, NEW s \in SessionIds, Live(s)
               PROVE  HasSession(Owner(s)) \/ \E r \in Requests : req[r].user = Owner(s)
    BY DEF LiveSessionFindable, LiveSessions
  <2>1. s # None
    BY NoIdIsNone
  <2> QED
    BY <2>1 DEF FindInv, HasSession, Creating, SessionsOwn
<1>5. Base => IInv
  BY DEF Base
<1>6. PointerInv => SessionsOwn
  BY DEF PointerInv
<1> QED
  BY <1>2, <1>3, <1>4, <1>5, <1>6, BaseInvariance, VisitorsInvariance, VisitorsRefine,
     PointerInvariance, PTL DEF VisitorsSpec
-----------------------------------------------------------------------------
(***************************************************************************)
(* Heartbeats.                                                             *)
(***************************************************************************)

\* The session that an API client inside has been told outlives its timer,
\* unless a heartbeat is on its way, and so does the pointer to it.
Kept(p) ==
    IsApi(p) /\ Views(p, "target") =>
        LET s == page[p].session
            pointer == activeSession[Me(p)]
        IN  /\ s # None /\ pointer.id = s /\ Live(s) /\ page[p].timer <= HeartbeatTicks
            /\ ~Awaiting(p) => session[s] > page[p].timer /\ pointer.ttl > page[p].timer

\* The inductive invariant.
KeepInv == KeysInv /\ \A p \in Pages : Kept(p)

\* Whatever happens to another visitor leaves a client its session.
LEMMA KeptUnseen ==
    ASSUME NEW q \in Pages, Kept(q),
           page'[q] = page[q], userId'[Owner(q)] = userId[Owner(q)], Awaiting(q) => Awaiting(q)',
           IsApi(q) /\ Views(q, "target") =>
               /\ activeSession'[Me(q)] = activeSession[Me(q)]
               /\ session'[page[q].session] = session[page[q].session]
    PROVE  Kept(q)'
  BY DEF Kept, IsApi, Views, Me, Live

\* Asking to be let in takes nobody's session.
LEMMA KeptAsk ==
    ASSUME Base, KeepInv, NEW p \in Pages, NEW visits, Ask(p, visits)
    PROVE  KeepInv'
<1>1. PICK r \in Requests, u \in Identity(p) :
        /\ Start(r, u) /\ conn' = [conn EXCEPT ![r] = p]
        /\ userId' = IF IsApi(p) THEN [userId EXCEPT ![Owner(p)] = u] ELSE userId
        /\ page' = [page EXCEPT ![p] =
                      [Blank EXCEPT !.view = "loading", !.visits = visits,
                                    !.cookie = IF userId[Owner(p)] = None THEN u ELSE None]]
  BY DEF Ask
<1>2. /\ userId \in [Visitor -> Users \cup {None}] /\ page \in [Pages -> PageType]
      /\ conn \in [Requests -> Pages \cup {None}] /\ req \in [Requests -> GoodRequest]
  BY DEF Base, VisitorsTypeOK, IInv, RequestsOK
<1>3. /\ req' = [req EXCEPT ![r] = [Idle EXCEPT !.pc = "getUser", !.user = u, !.room = queue]]
      /\ conn[r] = None /\ UNCHANGED <<session, activeSession>>
  BY <1>1 DEF Start, At, Base, Connected, store, sessionKeys
<1>4. /\ \A q \in Requests \ {r} : req'[q] = req[q] /\ conn'[q] = conn[q]
      /\ req'[r].pc = "getUser" /\ req'[r].path = "none"
  BY <1>1, <1>2, <1>3 DEF Idle
<1>5. page'[p].view = "loading" /\ \A q \in Pages \ {p} : page'[q] = page[q]
  BY <1>1, <1>2 DEF Blank
<1>6. KeysInv'
  BY <1>3, <1>4 DEF KeepInv, KeysInv, KnowsKeys, Stored, Sole
<1>7. ASSUME NEW q \in Pages PROVE Kept(q)'
  <2>1. CASE q = p
    BY <1>5, <2>1 DEF Kept, Views
  <2>2. CASE q # p
    <3>1. IsApi(q) => userId'[Owner(q)] = userId[Owner(q)]
      BY <1>1, <1>2, <2>2, PagesHaveOwners, ApiPages DEF Sole
    <3>2. Awaiting(q) => Awaiting(q)'
      BY <1>3, <1>4, PagesHaveOwners DEF Awaiting
    <3>3. Kept(q)
      BY DEF KeepInv
    <3> QED
      BY <1>3, <1>5, <2>2, <3>1, <3>2, <3>3, KeptUnseen DEF Kept, IsApi
  <2> QED
    BY <2>1, <2>2
<1> QED
  BY <1>6, <1>7 DEF KeepInv

\* A client inside knows its session when it sends a heartbeat.
LEMMA KeptBeat ==
    ASSUME Base, VisitorsInv, KeepInv, NEW p \in Pages, Beat(p)
    PROVE  KeepInv'
<1> DEFINE s == page[p].session
<1>1. /\ userId \in [Visitor -> Users \cup {None}] /\ page \in [Pages -> PageType]
      /\ conn \in [Requests -> Pages \cup {None}] /\ req \in [Requests -> GoodRequest]
  BY DEF Base, VisitorsTypeOK, IInv, RequestsOK
<1>2. /\ Views(p, "target") /\ s # None /\ IsApi(p) /\ Owner(s) = Me(p) /\ s \in SessionIds
      /\ activeSession[Me(p)].id = s /\ Live(s)
  <2>1. Views(p, "target") /\ s # None /\ s \in SessionIds
    BY <1>1 DEF Beat, PageType
  <2> QED
    BY <2>1 DEF VisitorsInv, PageInv, KeepInv, Kept
<1>3. PICK r \in Requests : Heartbeat(r, s) /\ conn' = [conn EXCEPT ![r] = p]
  BY <1>2 DEF Beat
<1>4. /\ conn[r] = None /\ UNCHANGED <<userId, session, activeSession>>
      /\ req' = [req EXCEPT ![r] = [Idle EXCEPT !.pc = "expireSession", !.path = "refresh",
                                                !.user = Owner(s), !.session = s]]
      /\ page' = [page EXCEPT ![p].timer = HeartbeatTicks]
  BY <1>3 DEF Heartbeat, Beat, At, Base, Connected, store, sessionKeys
<1>5. /\ \A q \in Requests \ {r} : req'[q] = req[q] /\ conn'[q] = conn[q]
      /\ req'[r].pc = "expireSession" /\ req'[r].user = Owner(s) /\ req'[r].session = s
      /\ conn'[r] = p
  BY <1>1, <1>3, <1>4 DEF Idle
<1>6. /\ \A q \in Pages \ {p} : page'[q] = page[q]
      /\ page'[p].timer = HeartbeatTicks /\ page'[p].session = s
  BY <1>1, <1>4 DEF PageType
<1>7. KeysInv'
  <2>1. KnowsKeys(req'[r], session', activeSession')
    BY <1>2, <1>4, <1>5 DEF KnowsKeys, Live
  <2>2. ASSUME NEW q \in Requests, q # r, conn'[q] # None, Sole(conn'[q])
        PROVE  KnowsKeys(req'[q], session', activeSession')
    BY <1>4, <1>5, <2>2 DEF KeepInv, KeysInv
  <2> QED
    BY <2>1, <2>2 DEF KeysInv, Sole
<1>8. ASSUME NEW q \in Pages PROVE Kept(q)'
  <2>1. Awaiting(q) => Awaiting(q)'
    BY <1>4, <1>5, PagesHaveOwners DEF Awaiting
  <2>2. CASE q = p
    <3>1. Awaiting(p)'
      BY <1>5 DEF Awaiting
    <3> QED
      BY <1>2, <1>4, <1>6, <2>2, <3>1, VisitorsAssumption DEF Kept, Me, Live
  <2>3. CASE q # p
    <3>1. Kept(q)
      BY DEF KeepInv
    <3> QED
      BY <1>4, <1>6, <2>1, <2>3, <3>1, KeptUnseen
  <2> QED
    BY <2>2, <2>3
<1> QED
  BY <1>7, <1>8 DEF KeepInv

\* An API client knows its session when it is let in, and a heartbeat that is
\* answered has given it its full lifetime.
LEMMA KeptServe ==
    ASSUME Base, VisitorsInv, PointerInv, KeepInv, HeartbeatTicks < SessionTTL,
           NEW r \in Requests, Serve(r)
    PROVE  KeepInv'
<1>1. /\ page \in [Pages -> PageType] /\ conn \in [Requests -> Pages \cup {None}]
      /\ req \in [Requests -> GoodRequest] /\ userId \in [Visitor -> Users \cup {None}]
  BY DEF Base, VisitorsTypeOK, IInv, RequestsOK
<1>2. /\ Step(r) /\ Proceeds(r) /\ Touches(r) /\ Ends(r) /\ req[r].pc # "idle"
      /\ req[r].user \in Users /\ Consistent(req[r])
  BY NotIdle, RequestFacts, ProceedsStep, TouchesStep, EndsStep DEF Serve, Base, IInv
<1>p. PICK p \in Pages : p = conn[r]
  BY <1>1, <1>2 DEF Base, Connected, At
<1>3. Owner(p) \in Visitor /\ p # None /\ RequestInv(r) /\ PageInv(p) /\ Kept(p)
  BY PagesHaveOwners DEF VisitorsInv, KeepInv
<1>4. SessionsOwn /\ PointersOwn
  BY DEF PointerInv
<1>5. /\ \A q \in Requests \ {r} : req'[q] = req[q] /\ conn'[q] = conn[q]
      /\ IF req'[r].pc = "idle" THEN conn'[r] = None ELSE conn'[r] = p
  BY <1>1, <1>2, <1>p DEF Serve, Proceeds
<1>6. Sole(p) => KnowsKeys(req[r], session, activeSession)
  BY <1>p, <1>3 DEF KeepInv, KeysInv
<1>7. Sole(p) => KnowsKeys(req'[r], session', activeSession')
  BY <1>2, <1>4, <1>6, OwnKeysStep DEF Base
<1>8. KeysInv'
  <2>1. ASSUME NEW q \in Requests, q # r, conn[q] # None, Sole(conn[q])
        PROVE  KnowsKeys(req[q], session', activeSession')
    <3>1. req[q].user # req[r].user
      BY <1>p, <1>3, <2>1, OnlyRequest
    <3>2. /\ req[q].user \in Users /\ req[q].session \in SessionIds \cup {None} /\ Consistent(req[q])
          /\ KnowsKeys(req[q], session, activeSession)
      <4>1. ~At(q, "idle")
        BY <2>1 DEF Base, Connected
      <4> QED
        BY <2>1, <4>1, RequestFacts DEF KeepInv, KeysInv, Base, IInv, At
    <3>3. activeSession'[req[q].user] = activeSession[req[q].user]
      BY <1>2, <3>1, <3>2 DEF Touches
    <3>4. req[q].session # None => session'[req[q].session] = session[req[q].session]
      <4>1. req[q].session # None => req[q].session # req[r].session
        BY <1>4, <3>1 DEF SessionsOwn
      <4> QED
        BY <1>2, <3>2, <4>1 DEF Touches
    <3>5. req[q].pc = "setActiveSession" \/ Stored(req[q]) => req[q].session # None
      BY <3>2 DEF KnowsKeys, Consistent
    <3> QED
      BY <3>2, <3>3, <3>4, <3>5 DEF KnowsKeys
  <2> QED
    BY <1>5, <1>7, <2>1 DEF KeysInv, Sole
<1>9. ASSUME req'[r].pc = "idle", Stored(req[r]), Sole(p)
      PROVE  LET s == req[r].session
                 pointer == activeSession'[req[r].user]
             IN  s # None /\ pointer.id = s /\ session'[s] = SessionTTL /\ pointer.ttl = SessionTTL
  <2>1. req[r].pc \in {"setRoom", "setUser", "refreshActive"}
    BY <1>2, <1>9, <1>3, VisitorsAssumption DEF Ends, SetRoom, SetUser, At, Stored, Consistent, Loading
  <2>2. UNCHANGED <<session, activeSession>>
    BY <1>2, <2>1 DEF Touches
  <2> QED
    BY <1>6, <1>9, <2>1, <2>2, VisitorsAssumption, ConstantsAssumption DEF KnowsKeys
<1>10. ASSUME NEW q \in Pages, q # p PROVE Kept(q)'
  <2>1. Kept(q) /\ PageInv(q)
    BY DEF KeepInv, VisitorsInv
  <2>2. page'[q] = page[q] /\ (IsApi(q) => userId'[Owner(q)] = userId[Owner(q)])
    <3>1. IsApi(q) => Owner(q) # Owner(p)
      BY <1>10, ApiPages DEF Sole
    <3>2. CASE req'[r].pc = "idle" /\ Views(p, "loading")
      BY <1>p, <1>10, <3>1, <3>2, AnswerFacts, PagesHaveOwners
    <3>3. CASE ~(req'[r].pc = "idle" /\ Views(p, "loading"))
      BY <1>p, <3>3 DEF Serve, Answered
    <3> QED
      BY <3>2, <3>3
  <2>3. Awaiting(q) => Awaiting(q)'
    BY <1>p, <1>5, <1>10 DEF Awaiting
  <2>4. ASSUME IsApi(q), Views(q, "target")
        PROVE  /\ activeSession'[Me(q)] = activeSession[Me(q)]
               /\ session'[page[q].session] = session[page[q].session]
    <3>1. /\ page[q].session # None /\ Owner(page[q].session) = Me(q) /\ page[q].session \in SessionIds
          /\ Me(q) \in Users
      <4>1. page[q].session # None /\ Owner(page[q].session) = Me(q) /\ page[q].session \in SessionIds
        BY <1>1, <2>1, <2>4 DEF Kept, PageInv, PageType
      <4> QED
        BY <4>1 DEF SessionIds, Owner
    <3>2. Uses(Owner(q), Me(q)) /\ Owner(q) \in Visitor /\ Owner(q) # Owner(p)
      BY <1>10, <2>4, <3>1, NoIdIsNone, PagesHaveOwners, ApiPages DEF Uses, Me, Sole
    <3>3. Me(q) # req[r].user
      BY <1>p, <1>3, <3>2 DEF RequestInv
    <3>4. page[q].session # req[r].session
      BY <1>4, <3>1, <3>3 DEF SessionsOwn
    <3> QED
      BY <1>2, <3>1, <3>3, <3>4 DEF Touches
  <2> QED
    BY <2>1, <2>2, <2>3, <2>4, KeptUnseen DEF Kept, IsApi
<1>11. ASSUME ~Views(p, "loading") PROVE Kept(p)'
  <2>1. /\ UNCHANGED <<page, userId>>
        /\ page[p].session # None /\ page[p].session = req[r].session /\ req[r].path = "refresh"
    BY <1>p, <1>3, <1>11 DEF Serve, Answered, RequestInv
  <2>2. /\ IsApi(p) /\ Sole(p) /\ req[r].user = Me(p) /\ Stored(req[r])
        /\ page[p].timer <= HeartbeatTicks
    BY <1>3, <1>4, <2>1, ApiPages DEF PageInv, SessionsOwn, Stored, Kept
  <2>3. CASE req'[r].pc = "idle"
    <3>1. page[p].timer \in Int /\ SessionTTL > page[p].timer /\ SessionTTL # Gone
      BY <1>1, <2>2, VisitorsAssumption, ConstantsAssumption DEF PageType, Gone
    <3> QED
      BY <1>9, <2>1, <2>2, <2>3, <3>1 DEF Kept, Me, Live
  <2>4. CASE req'[r].pc # "idle"
    <3>1. Awaiting(p)'
      BY <1>5, <2>4 DEF Awaiting
    <3>2. Stored(req'[r]) /\ req'[r].user = req[r].user /\ req'[r].session = req[r].session
      BY <1>2, <2>1, <2>4 DEF Proceeds, Idle, Stored
    <3> QED
      BY <1>7, <2>1, <2>2, <3>1, <3>2 DEF Kept, KnowsKeys, Me, Live
  <2> QED
    BY <2>3, <2>4
<1>12. ASSUME Views(p, "loading"), IsApi(p), page'[p].view = "target" PROVE Kept(p)'
  <2>1. req'[r].pc = "idle"
    BY <1>12 DEF Serve, Views
  <2>2. /\ LetsIn(r) /\ page'[p].session = req[r].session /\ page'[p].timer = HeartbeatTicks
        /\ userId'[Owner(p)] = IF page[p].cookie = None THEN userId[Owner(p)] ELSE page[p].cookie
    BY <1>p, <1>12, <2>1, AnswerFacts DEF SessionTold
  <2>3. Sole(p) /\ Stored(req[r])
    <3>1. req[r].pc \in {"setRoom", "setUser", "refreshActive"}
      BY <1>2, <2>1, VisitorsAssumption DEF Ends, SetRoom, SetUser, At
    <3> QED
      BY <1>12, <2>2, <3>1, ApiPages DEF LetsIn, Stored, At, Counting
  <2>4. userId'[Owner(p)] = req[r].user
    <3>1. Uses(Owner(p), req[r].user)
      BY <1>p, <1>3, <2>3 DEF RequestInv
    <3>2. req[r].user # None /\ req[r].user \in {Me(p), page[p].cookie}
      BY <1>3, <2>3, <3>1, SoleUses
    <3> QED
      BY <1>3, <1>12, <2>2, <2>3, <3>2 DEF PageInv, Me
  <2> QED
    <3>1. SessionTTL > HeartbeatTicks /\ SessionTTL # Gone /\ HeartbeatTicks <= HeartbeatTicks
      BY VisitorsAssumption, ConstantsAssumption DEF Gone
    <3> QED
      BY <1>9, <2>1, <2>2, <2>3, <2>4, <3>1 DEF Kept, Me, Live
<1>13. \A q \in Pages : Kept(q)'
  BY <1>10, <1>11, <1>12 DEF Kept, IsApi, Views
<1> QED
  BY <1>8, <1>13 DEF KeepInv

\* The timer of a client runs down no later than its session.
LEMMA KeptPass ==
    ASSUME Base, VisitorsInv, KeepInv, Prompt, Pass
    PROVE  KeepInv'
<1>1. /\ page \in [Pages -> PageType] /\ userId \in [Visitor -> Users \cup {None}]
      /\ session \in [SessionIds -> TTLs]
      /\ activeSession \in [Users -> [id : SessionIds \cup {None}, ttl : TTLs]]
  BY DEF Base, VisitorsTypeOK, IInv, StoreOK
<1>2. UNCHANGED <<userId, conn>> /\ Tick /\ \A r \in Requests : conn[r] = None
  BY DEF Pass, Base, Connected
<1>3. KeysInv'
  BY <1>2 DEF KeysInv
<1>4. ASSUME NEW p \in Pages, IsApi(p), Views(p, "target")' PROVE Kept(p)'
  <2> DEFINE s == page[p].session
             u == Me(p)
  <2>1. Views(p, "target") /\ page'[p].session = s /\ page'[p].timer = CountDown(p)
    BY <1>1, <1>4 DEF Pass, Views, PageType
  <2>2. /\ s # None /\ activeSession[u].id = s /\ Live(s) /\ page[p].timer <= HeartbeatTicks
        /\ session[s] > page[p].timer /\ activeSession[u].ttl > page[p].timer
    BY <1>2, <1>4, <2>1, PagesHaveOwners DEF KeepInv, Kept, Awaiting
  <2>3. /\ page[p].timer > 0 /\ page'[p].timer = page[p].timer - 1 /\ page[p].timer \in Int
    BY <1>1, <2>1, <2>2 DEF Pass, HasTimer, CountDown, PageType
  <2>4. s \in SessionIds /\ u \in Users
    <3>1. s \in SessionIds
      BY <1>1, <2>2 DEF PageType
    <3>2. Owner(s) = u
      BY <2>2 DEF VisitorsInv, PageInv
    <3> QED
      BY <3>1, <3>2 DEF SessionIds, Owner
  <2>5. session'[s] = Age(session[s]) /\ session[s] \in Int /\ activeSession[u].ttl \in Int
    BY <1>1, <1>2, <2>4, ConstantsAssumption DEF Tick, TTLs, Gone, Persistent
  <2>6. session'[s] = session[s] - 1
    BY <2>2, <2>3, <2>5 DEF Age
  <2>7. activeSession'[u] = [activeSession[u] EXCEPT !.ttl = Age(@)]
    BY <1>2, <2>2, <2>3, <2>4, <2>5 DEF Tick
  <2>8. activeSession'[u].id = s /\ activeSession'[u].ttl = activeSession[u].ttl - 1
    BY <1>1, <2>2, <2>3, <2>4, <2>5, <2>7 DEF Age
  <2> QED
    BY <1>2, <2>1, <2>2, <2>3, <2>5, <2>6, <2>8, VisitorsAssumption DEF Kept, Me, Live, Gone
<1> QED
  BY <1>3, <1>4 DEF KeepInv, Kept, IsApi, Views

\* As long as no command fails, requests take less than a tick and heartbeats
\* come more often than a session expires, an API client inside keeps its
\* session, whatever others do.
THEOREM HeartbeatsKeepSessions ==
    ASSUME ~CanFail, Prompt, HeartbeatTicks < SessionTTL
    PROVE  VisitorsSpec => []HeartbeatsKeepPlace
<1>1. VisitorsInit => KeepInv
  BY DEF VisitorsInit, KeepInv, KeysInv, Kept, Views, Blank
<1>2. ASSUME Base, VisitorsInv, PointerInv, KeepInv, [VisitorsNext]_allVars PROVE KeepInv'
  <2>1. ASSUME NEW p \in Pages, Visit(p) \/ Refresh(p) PROVE KeepInv'
    BY <1>2, <2>1, KeptAsk DEF Visit, Refresh
  <2>2. ASSUME NEW p \in Pages, Beat(p) PROVE KeepInv'
    BY <1>2, <2>2, KeptBeat
  <2>3. ASSUME NEW p \in Pages, ClosePage(p) PROVE KeepInv'
    <3>1. /\ UNCHANGED <<req, session, activeSession, userId, conn>>
          /\ page'[p].view = "closed" /\ \A q \in Pages \ {p} : page'[q] = page[q]
      BY <1>2, <2>3 DEF ClosePage, Blank, vars, store, sessionKeys, Base, VisitorsTypeOK
    <3>2. KeysInv'
      BY <1>2, <3>1 DEF KeepInv, KeysInv, Sole
    <3>3. \A q \in Pages : Kept(q)'
      BY <1>2, <3>1 DEF KeepInv, Kept, IsApi, Views, Me, Live, Awaiting
    <3> QED
      BY <3>2, <3>3 DEF KeepInv
  <2>4. ASSUME NEW r \in Requests, Serve(r) PROVE KeepInv'
    BY <1>2, <2>4, KeptServe
  <2>5. CASE Pass
    BY <1>2, <2>5, KeptPass
  <2>6. CASE UNCHANGED allVars
    BY <1>2, <2>6 DEF allVars, vars, store, sessionKeys, visitorVars, KeepInv, KeysInv, Sole, Kept,
       IsApi, Views, Me, Live, Awaiting
  <2> QED
    BY <1>2, <2>1, <2>2, <2>3, <2>4, <2>5, <2>6 DEF VisitorsNext, Fail, Abort, LastReplyLost, Crash, Restart
<1>3. KeepInv => HeartbeatsKeepPlace
  BY DEF KeepInv, Kept, HeartbeatsKeepPlace, HasSession
<1> QED
  BY <1>1, <1>2, <1>3, BaseInvariance, VisitorsInvariance, VisitorsRefine, PointerInvariance, PTL
     DEF VisitorsSpec
=============================================================================
