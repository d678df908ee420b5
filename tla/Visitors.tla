------------------------------ MODULE Visitors ------------------------------
(***************************************************************************)
(* Who asks to be let in, and what they do with the answer.                *)
(*                                                                         *)
(* A browser asks for "/" and is redirected to the target or to the        *)
(* waiting page, which asks again by itself after some seconds             *)
(* (controllers/enter_waiting_room_web_controller.go, its template).  A    *)
(* cookie that comes with the first answer tells who it is.  An API client *)
(* posts its own user id to /waiting-room/enter and is told the id of its  *)
(* session, with which it can send heartbeats                              *)
(* (controllers/enter_waiting_room_controller.go, session_controller.go,   *)
(* the presenter).                                                         *)
(*                                                                         *)
(* The handlers that serve them are those of EnterWaitingRoom: every       *)
(* action of a visitor or of a connection is joined with the action of the *)
(* use case that it causes or that causes it.                              *)
(***************************************************************************)
EXTENDS EnterWaitingRoom

CONSTANTS
    Browsers,
    ApiClients,
    TabsPerBrowser,     \* bound: pages that a browser has open
    MaxVisits,          \* bound: how often a page is opened or reloaded by hand
    RefreshTicks,       \* seconds until the waiting page asks again (5 in deps.go), in ticks
    HeartbeatTicks,     \* time between two heartbeats of an API client (60 s in the sample app)
    Prompt,             \* TRUE iff requests take less than a tick
    MayClose            \* TRUE iff a page may be closed for good

Visitor == Browsers \cup ApiClients
Pages   == (Browsers \X (1..TabsPerBrowser)) \cup (ApiClients \X {1})
IsApi(p) == Owner(p) \in ApiClients

ASSUME VisitorsAssumption ==
    /\ Browsers \cap ApiClients = {} /\ None \notin Pages
    /\ TabsPerBrowser \in Nat /\ MaxVisits \in Nat
    /\ RefreshTicks \in Nat \ {0} /\ HeartbeatTicks \in Nat \ {0}
    /\ Prompt \in BOOLEAN /\ MayClose \in BOOLEAN

VARIABLES
    userId,     \* the waiting_room_user_id cookie of a browser, the id of an API client
    page,       \* what a page shows, and what it knows
    conn,       \* the page that awaits the answer of a request
    known       \* the user ids given out so far

visitorVars == <<userId, page, conn, known>>
allVars     == <<vars, visitorVars>>

\* A page shows nothing, is loading, or shows the waiting page, the target or
\* an error, or has been closed.  It asks again when its timer has run down.
\* cookie is the id in the Set-Cookie header of the answer it awaits.
Blank == [view |-> "blank", timer |-> 0, session |-> None, cookie |-> None, visits |-> 0]

VisitorsInit ==
    /\ Init
    /\ userId = [v \in Visitor |-> None]
    /\ page = [p \in Pages |-> Blank]
    /\ conn = [r \in Requests |-> None]
    /\ known = {}

Views(p, view) == page[p].view = view
Awaiting(p)    == \E r \in Requests : conn[r] = p
-----------------------------------------------------------------------------
(***************************************************************************)
(* Requests.                                                               *)
(***************************************************************************)

\* The user a request is for: who the cookie says, or a new one
\* (ensureUserIDCookie; an API client makes up its id itself).
Identity(p) ==
    IF userId[Owner(p)] # None THEN {userId[Owner(p)]}
    ELSE IF Users \subseteq known THEN {}
    ELSE {Some(Users \ known)}

\* Page p asks to be let in.
Ask(p, visits) ==
    /\ ~Awaiting(p)
    /\ \E r \in Requests, u \in Identity(p) :
          /\ Start(r, u)
          /\ conn' = [conn EXCEPT ![r] = p]
          /\ known' = known \cup {u}
          /\ userId' = IF IsApi(p) THEN [userId EXCEPT ![Owner(p)] = u] ELSE userId
          /\ page' = [page EXCEPT ![p] =
                        [Blank EXCEPT !.view = "loading", !.visits = visits,
                                      !.cookie = IF userId[Owner(p)] = None THEN u ELSE None]]

\* Somebody opens the page, follows its link or reloads it.
Visit(p) ==
    /\ page[p].visits < MaxVisits
    /\ ~Views(p, "loading") /\ ~Views(p, "closed")
    /\ Ask(p, page[p].visits + 1)

\* The waiting page asks for "/" by itself.
Refresh(p) ==
    /\ Views(p, "waiting") /\ page[p].timer = 0
    /\ Ask(p, page[p].visits)

\* An API client inside reports that it is.  It goes on when nobody knows its
\* session any more (404).
Beat(p) ==
    /\ Views(p, "target") /\ page[p].session # None /\ page[p].timer = 0
    /\ ~Awaiting(p)
    /\ \/ \E r \in Requests :
             /\ Heartbeat(r, page[p].session)
             /\ conn' = [conn EXCEPT ![r] = p]
       \/ /\ ~Live(page[p].session)
          /\ UNCHANGED <<vars, conn>>
    /\ page' = [page EXCEPT ![p].timer = HeartbeatTicks]
    /\ UNCHANGED <<userId, known>>

\* A page is closed and does not come back.
ClosePage(p) ==
    /\ MayClose /\ ~Views(p, "closed") /\ ~Awaiting(p)
    /\ page' = [page EXCEPT ![p] = [Blank EXCEPT !.view = "closed"]]
    /\ UNCHANGED <<vars, userId, conn, known>>
-----------------------------------------------------------------------------
(***************************************************************************)
(* Answers.                                                                *)
(***************************************************************************)

\* (Mutant: only a session found or made from a ticket lets in.)
LetsInByTicket(r) == req[r].path \in {"refresh", "use"} \/ At(r, "getSession")

\* The last command of request r ends it with EnterTarget, not with
\* RedirectWaitingRoom.  Without a SessionTTL that is the GET of the session.
LetsIn(r) == req[r].path \in {"refresh", "use", "direct"} \/ At(r, "getSession")

\* (Mutant: the answer does not carry the cookie.)
NoCookie(p) == UNCHANGED userId

\* The browser keeps the cookie that comes with the answer.
SetCookie(p) ==
    userId' = IF page[p].cookie = None THEN userId ELSE [userId EXCEPT ![Owner(p)] = page[p].cookie]

\* (Mutant: the presenter confuses the two ids.)
UserTold(p, r) == IF IsApi(p) THEN req[r].user ELSE None

\* The presenter tells an API client the id of its session; the redirect of
\* a browser says nothing of it.
SessionTold(p, r) == IF IsApi(p) THEN req[r].session ELSE None

\* The answer arrives: page p shows the target or the waiting page, which asks
\* again after RefreshTicks.
Answered(r) ==
    LET p == conn[r]
        shown == IF LetsIn(r)
                 THEN [page[p] EXCEPT !.view = "target", !.cookie = None,
                          !.timer = IF IsApi(p) THEN HeartbeatTicks ELSE 0,
                          !.session = SessionTold(p, r)]
                 ELSE [page[p] EXCEPT !.view = "waiting", !.cookie = None, !.timer = RefreshTicks]
    IN  IF Views(p, "loading")
        THEN page' = [page EXCEPT ![p] = shown] /\ SetCookie(p)
        ELSE UNCHANGED <<page, userId>>

\* A step of a handler, and the answer if it is the last.
Serve(r) ==
    /\ Step(r)
    /\ IF req'[r].pc = "idle"
       THEN Answered(r) /\ conn' = [conn EXCEPT ![r] = None]
       ELSE UNCHANGED <<page, userId, conn>>
    /\ UNCHANGED known

\* What a page shows when its request has failed.
ErrorPage(p) ==
    IF Views(p, "loading") THEN [Blank EXCEPT !.view = "error", !.visits = page[p].visits] ELSE page[p]

\* The last command of request r has taken effect and returns an error, or the
\* answer gets lost.
LastReplyLost(r) == CanFail /\ Step(r) /\ req'[r].pc = "idle"

\* A request fails.  The answer, a 500, brings the cookie unless it is lost.
Fail(r) ==
    /\ Abort(r) \/ LastReplyLost(r)
    /\ LET p == conn[r]
       IN  /\ page' = [page EXCEPT ![p] = ErrorPage(p)]
           /\ SetCookie(p) \/ UNCHANGED userId
    /\ conn' = [conn EXCEPT ![r] = None]
    /\ UNCHANGED known

\* The server restarts; all connections break.
Crash ==
    /\ Restart
    /\ page' = [p \in Pages |-> ErrorPage(p)]
    /\ conn' = [r \in Requests |-> None]
    /\ UNCHANGED <<userId, known>>
-----------------------------------------------------------------------------
(***************************************************************************)
(* Time.                                                                   *)
(***************************************************************************)
HasTimer(p) == Views(p, "waiting") \/ (Views(p, "target") /\ page[p].session # None)

CountDown(p) == IF HasTimer(p) THEN page[p].timer - 1 ELSE page[p].timer

\* A tick passes for the store and for the pages.  Timers are precise.
Pass ==
    /\ \A p \in Pages : HasTimer(p) => page[p].timer > 0
    /\ Prompt => \A r \in Requests : At(r, "idle")
    /\ Tick
    /\ page' = [p \in Pages |-> [page[p] EXCEPT !.timer = CountDown(p)]]
    /\ UNCHANGED <<userId, conn, known>>

VisitorsNext ==
    \/ \E p \in Pages : Visit(p) \/ Refresh(p) \/ Beat(p) \/ ClosePage(p)
    \/ \E r \in Requests : Serve(r) \/ Fail(r)
    \/ Crash
    \/ Pass

\* Handlers run, and Valkey answers them; time passes; the timers of open
\* pages fire.  Nobody has to come, or to leave.  Without a RoomLocker, as in
\* deps.go, no handler waits for another.
Fairness ==
    /\ \A r \in Requests : WF_allVars(Serve(r))
    /\ \A p \in Pages : WF_allVars(Refresh(p)) /\ WF_allVars(Beat(p))
    /\ WF_allVars(Pass)

VisitorsSpec == VisitorsInit /\ [][VisitorsNext]_allVars /\ Fairness
=============================================================================
