-------------------------- MODULE EnterWaitingRoom --------------------------
(***************************************************************************)
(* The admission use case (usecases/enter_waiting_room_usecase.go) running *)
(* against Valkey (infrastructure/repositories/valkey).                    *)
(*                                                                         *)
(* HTTP handlers run concurrently; each is a request r that walks through  *)
(* Execute or KeepSessionAlive.  Every Valkey command is one atomic step,  *)
(* named after the command it sends, and everything between two commands   *)
(* is local to the request.  A request works on copies: it loads the room, *)
(* the user and the ticket, changes the copies and writes whole records    *)
(* back, possibly long after others have written the same keys.            *)
(*                                                                         *)
(* The pc of a request is the command it sends next; its path is the       *)
(* reason it is sending it:                                                *)
(*   refresh    the user has a live session, or a heartbeat came for one   *)
(*   expired    his ticket has expired, put him back in the queue          *)
(*   wait       his ticket is not admitted and he is not first             *)
(*   promote    first in the queue, admit the ticket if there is room      *)
(*   requeue    promote found the target full                              *)
(*   use        the ticket is admitted, turn it into a session             *)
(*   bounce     use found the target full                                  *)
(*   direct     no ticket and an empty queue, enter at once                *)
(*   issue      no ticket, issue one and queue                             *)
(*                                                                         *)
(* Ticks are the time unit of the TTLs.  All times are relative to the     *)
(* present, as in Valkey's own TTL command, so that passing time does not  *)
(* make states distinct by itself.                                         *)
(***************************************************************************)
EXTENDS Integers, Sequences, FiniteSets, WaitingRoom

CONSTANTS
    Users,              \* ids of the browsers and API clients
    Requests,           \* handlers that can be in flight at a time
    MaxTabs,            \* bound: how many of them serve the same user
    TicketsPerUser,     \* bound: tickets of one user that something still refers to
    SessionsPerUser,    \* bound: likewise for sessions
    None,               \* "no id"
    MaxActiveSessions,  \* TARGET_MAX_ACTIVE_SESSIONS; 0 or less means "no limit"
    RoomCapacity,       \* WAITING_ROOM_CAPACITY
    TicketTTL,          \* lifetime of a ticket, in ticks; at most 0 if it is born expired
    SessionTTL,         \* SESSION_TTL_SECONDS in ticks; 0 means "never set a TTL"
    HasLocker,          \* TRUE iff the use case is given a RoomLocker (deps.go passes nil)
    CanFail,            \* TRUE iff a command may fail and the server may restart
    MaxLag              \* bound: no request is in flight for more ticks than this

\* uuid.New(), abstracted to the owner (the user_id of every record) and a number.
TicketIds   == Users \X (1..TicketsPerUser)
SessionIds  == Users \X (1..SessionsPerUser)
Owner(id)   == id[1]

ASSUME ConstantsAssumption ==
    /\ MaxTabs \in Nat /\ TicketsPerUser \in Nat /\ SessionsPerUser \in Nat
    /\ None \notin Users \cup Requests \cup TicketIds \cup SessionIds
    /\ MaxActiveSessions \in Int /\ RoomCapacity \in Int
    /\ TicketTTL \in Int /\ SessionTTL \in Nat /\ MaxLag \in Nat
    /\ HasLocker \in BOOLEAN /\ CanFail \in BOOLEAN
    /\ HasLocker => ~CanFail   \* what a failure does to a locker is up to the locker

VARIABLES
    queue,          \* waiting_room:<id>, the queue of the stored room
    userStatus,     \* user:<id>; a user never stored is loaded as a waiting one (NewQueuedUser)
    ticket,         \* ticket:<id>
    activeTicket,   \* ticket:active:<user>
    session,        \* session:<id> and its TTL
    activeSession,  \* session:active:<user> and its TTL
    activeSet,      \* session:active, the set that CountActive counts
    holder,         \* the request in a critical section of the RoomLocker
    req             \* what each request has loaded and where it is

roomKeys    == <<queue, userStatus>>
ticketKeys  == <<ticket, activeTicket>>
sessionKeys == <<session, activeSession, activeSet>>
store       == <<roomKeys, ticketKeys, sessionKeys>>
vars        == <<store, holder, req>>
-----------------------------------------------------------------------------
(***************************************************************************)
(* Keys of the store.  Gone and Persistent are Valkey's own TTL replies    *)
(* for "no such key" and "no expiry".                                      *)
(***************************************************************************)
Gone       == -2
Persistent == -1

\* A ticket's remaining is the time left until its ExpiresAt, which IsExpired
\* counts as expired.  Only the active statuses are indexed by user.
IsExpired(remaining) == remaining <= 0
ActiveStatuses       == {"Waiting", "Admitted"}

NoTicket  == [status |-> "absent", remaining |-> 0]
NoPointer == [id |-> None, ttl |-> Gone]

Live(s) == session[s] # Gone

\* EXPIRE: a no-op on a key that is gone.
Expire(ttl) == IF ttl = Gone THEN Gone ELSE SessionTTL

\* One tick of a key.
Age(ttl) == IF ttl = 1 THEN Gone ELSE IF ttl > 1 THEN ttl - 1 ELSE ttl

(***************************************************************************)
(* Requests.                                                               *)
(***************************************************************************)
Idle == [pc |-> "idle", path |-> "none", user |-> None, lag |-> 0,
         room |-> <<>>, status |-> "Waiting", ticket |-> None, tstatus |-> "absent",
         session |-> None, todo |-> {}, counted |-> {}, member |-> None]

At(r, pc) == req[r].pc = pc

Goto(r, pc) == req' = [req EXCEPT ![r].pc = pc]

\* What is left of request r once it has decided on a path: its user, and
\* then only the copies it will write.
Take(r, path, pc) == [Idle EXCEPT !.pc = pc, !.path = path, !.user = req[r].user]

\* The request has yet to use its "now": to see whether its ticket has
\* expired, or to issue one.
NowNeeded(r) ==
    \/ req[r].pc \in {"getUser", "getActiveSession", "getSession", "getActiveTicket", "getTicket"}
    \/ req[r].path = "direct" /\ req[r].pc \in {"lock", "count", "srem"}
    \/ req[r].path = "issue" /\ req[r].pc \in {"lock", "setTicket"}

\* withRoomLock returns.  RoomLocker is an interface without an implementation
\* in the repository; HasLocker supposes one whose WithLock runs one function
\* at a time and returns after it.
Release(r) == holder' = IF holder = r THEN None ELSE holder

\* The handler returns: its copies are garbage and withRoomLock has returned.
Finish(r) == req' = [req EXCEPT ![r] = Idle] /\ Release(r)

\* uuid.New(): an id that no key and no request knows.
FreshTicket(t) ==
    /\ \A u \in Users : activeTicket[u] # t
    /\ \A r \in Requests : req[r].ticket # t

FreshSession(s) ==
    /\ ~Live(s) /\ s \notin activeSet
    /\ \A u \in Users : activeSession[u].id # s
    /\ \A r \in Requests : req[r].session # s /\ req[r].member # s /\ s \notin req[r].todo

FreshTickets(u)  == {t \in TicketIds : Owner(t) = u /\ FreshTicket(t)}
FreshSessions(u) == {s \in SessionIds : Owner(s) = u /\ FreshSession(s)}

\* Which of the fresh ids it is does not matter.
Some(ids) == CHOOSE id \in ids : TRUE

Init ==
    /\ queue = NewWaitingRoom
    /\ userStatus = [u \in Users |-> "Waiting"]
    /\ ticket = [t \in TicketIds |-> NoTicket]
    /\ activeTicket = [u \in Users |-> None]
    /\ session = [s \in SessionIds |-> Gone]
    /\ activeSession = [u \in Users |-> NoPointer]
    /\ activeSet = {}
    /\ holder = None
    /\ req = [r \in Requests |-> Idle]
-----------------------------------------------------------------------------
(***************************************************************************)
(* Execute up to its decision: load the room, the user, the session.       *)
(***************************************************************************)

MayServe(u) == Cardinality({r \in Requests : req[r].user = u}) < MaxTabs

\* A controller calls Execute: "now" is fixed and the room is loaded.
Start(r, u) ==
    /\ At(r, "idle") /\ MayServe(u)
    /\ req' = [req EXCEPT ![r] = [Idle EXCEPT !.pc = "getUser", !.user = u, !.room = queue]]
    /\ UNCHANGED <<store, holder>>

GetUser(r) ==
    /\ At(r, "getUser")
    /\ req' = [req EXCEPT ![r].pc = "getActiveSession", ![r].status = userStatus[req[r].user]]
    /\ UNCHANGED <<store, holder>>

\* GetActiveByUserID, first GET: the pointer.
GetActiveSession(r) ==
    /\ At(r, "getActiveSession")
    /\ LET id == activeSession[req[r].user].id
       IN  IF id = None THEN Goto(r, "getActiveTicket")
           ELSE req' = [req EXCEPT ![r].pc = "getSession", ![r].session = id]
    /\ UNCHANGED <<store, holder>>

\* GetActiveByUserID, second GET.  A live session means "enter the target".
GetSession(r) ==
    /\ At(r, "getSession")
    /\ LET s == req[r].session
       IN  req' = [req EXCEPT ![r] =
                      IF ~Live(s) THEN [@ EXCEPT !.pc = "getActiveTicket", !.session = None]
                      ELSE IF SessionTTL = 0 THEN Idle
                      ELSE [Take(r, "refresh", "expireSession") EXCEPT !.session = s]]
    /\ UNCHANGED <<store, holder>>

\* KeepSessionAlive with the id of a live session (any other id is answered
\* with 404 and changes nothing; without a TTL the call does nothing).  The
\* client has the id from a response, which comes after it has been counted.
Heartbeat(r, s) ==
    /\ At(r, "idle")
    /\ SessionTTL > 0 /\ Live(s) /\ s \in activeSet /\ MayServe(Owner(s))
    /\ req' = [req EXCEPT ![r] = [Idle EXCEPT !.pc = "expireSession", !.path = "refresh",
                                              !.user = Owner(s), !.session = s]]
    /\ UNCHANGED <<store, holder>>

\* GetActiveByUserID of the ticket, first GET, when the pointer exists.
GetActiveTicket(r) ==
    /\ At(r, "getActiveTicket")
    /\ LET t == activeTicket[req[r].user]
       IN  t # None /\ req' = [req EXCEPT ![r].pc = "getTicket", ![r].ticket = t]
    /\ UNCHANGED <<store, holder>>
-----------------------------------------------------------------------------
(***************************************************************************)
(* The decision, on a ticket or on its absence.                            *)
(***************************************************************************)

\* The second GET finds ticket t, with this much of its life left at "now".
TicketFound(r)    == At(r, "getTicket") /\ ticket[req[r].ticket].status # "absent"
TicketStatus(r)   == ticket[req[r].ticket].status
TicketExpired(r)  == IsExpired(ticket[req[r].ticket].remaining + req[r].lag)
IsQueued(r)       == req[r].user \in Members(req[r].room)   \* (mutant of IsFront)
IsFront(r)        == Peek(req[r].room, 1) = <<req[r].user>>

\* One of the two GETs finds nothing.
TicketMissing(r) ==
    \/ At(r, "getActiveTicket") /\ activeTicket[req[r].user] = None
    \/ At(r, "getTicket") /\ ticket[req[r].ticket].status = "absent"

RequeuedRoom(r) == EnsureQueued(req[r].room, req[r].user)

\* An expired ticket is marked so and its user queues again.
ExpireTicket(r) ==
    /\ TicketFound(r) /\ TicketExpired(r)
    /\ req' = [req EXCEPT ![r] =
                  [Take(r, "expired", "setTicket") EXCEPT
                      !.ticket = req[r].ticket, !.tstatus = "Expired", !.room = RequeuedRoom(r)]]
    /\ UNCHANGED <<store, holder>>

\* The front of the loaded queue tries to have a waiting ticket admitted.
TryPromote(r) ==
    /\ TicketFound(r) /\ ~TicketExpired(r)
    /\ TicketStatus(r) = "Waiting" /\ IsFront(r)
    /\ req' = [req EXCEPT ![r].pc = "lock", ![r].path = "promote", ![r].lag = 0]
    /\ UNCHANGED <<store, holder>>

\* Everybody else keeps waiting; a ticket in any other status waits again.
StayQueued(r) ==
    /\ TicketFound(r) /\ ~TicketExpired(r)
    /\ TicketStatus(r) # "Admitted"
    /\ ~(TicketStatus(r) = "Waiting" /\ IsFront(r))
    /\ LET pc == IF TicketStatus(r) = "Waiting" THEN "setRoom" ELSE "setTicket"
       IN  req' = [req EXCEPT ![r] =
                      [Take(r, "wait", pc) EXCEPT
                          !.ticket = req[r].ticket, !.tstatus = "Waiting",
                          !.room = RequeuedRoom(r), !.status = req[r].status]]
    /\ UNCHANGED <<store, holder>>

\* An admitted ticket is used without looking at the queue.
TryUse(r) ==
    /\ TicketFound(r) /\ ~TicketExpired(r)
    /\ TicketStatus(r) = "Admitted"
    /\ req' = [req EXCEPT ![r].pc = "lock", ![r].path = "use", ![r].lag = 0]
    /\ UNCHANGED <<store, holder>>

\* Both tests of the empty queue (before the lock and under it) look at the
\* copy loaded by GetRoom, so one guard stands for both.
MayEnterDirectly(r) == HasCapacity(req[r].room, RoomCapacity) /\ Len(req[r].room) = 0

TryDirect(r) ==
    /\ TicketMissing(r) /\ MayEnterDirectly(r)
    /\ req' = [req EXCEPT ![r] = [Take(r, "direct", "lock") EXCEPT !.lag = req[r].lag]]
    /\ UNCHANGED <<store, holder>>

\* Issue a waiting ticket; it is stored under the lock.
IssueTicket(r) ==
    /\ FreshTickets(req[r].user) # {}
    /\ req' = [req EXCEPT ![r] =
                  [Take(r, "issue", "lock") EXCEPT
                      !.ticket = Some(FreshTickets(req[r].user)), !.tstatus = "Waiting",
                      !.room = RequeuedRoom(r), !.lag = req[r].lag]]

TryIssue(r) ==
    /\ TicketMissing(r) /\ ~MayEnterDirectly(r)
    /\ IssueTicket(r)
    /\ UNCHANGED <<store, holder>>
-----------------------------------------------------------------------------
(***************************************************************************)
(* withRoomLock and ensureCapacity.                                        *)
(***************************************************************************)
\* The lock is taken and CountActive sends its SMEMBERS (issueTicket does not
\* count; without a limit nothing is counted).
Lock(r) ==
    /\ At(r, "lock")
    /\ HasLocker => holder = None
    /\ holder' = IF HasLocker THEN r ELSE holder
    /\ req' = [req EXCEPT
                  ![r].pc = IF req[r].path = "issue" THEN "setTicket" ELSE "count",
                  ![r].todo = IF req[r].path = "issue" \/ MaxActiveSessions <= 0 THEN {} ELSE activeSet]
    /\ UNCHANGED store

\* CountActive: EXISTS for every member, in the order of the reply, and SREM
\* for a member whose session is gone.
Exists(r) ==
    /\ At(r, "count")
    /\ \E s \in req[r].todo :
          \/ /\ Live(s)
             /\ req' = [req EXCEPT ![r].todo = @ \ {s}, ![r].counted = @ \cup {s}]
          \/ /\ ~Live(s)
             /\ req' = [req EXCEPT ![r].pc = "srem", ![r].todo = @ \ {s}, ![r].member = s]
    /\ UNCHANGED <<store, holder>>

Srem(r) ==
    /\ At(r, "srem")
    /\ activeSet' = activeSet \ {req[r].member}
    /\ req' = [req EXCEPT ![r].pc = "count", ![r].member = None]
    /\ UNCHANGED <<roomKeys, ticketKeys, session, activeSession, holder>>

\* The count is complete.
Counted(r, path) == At(r, "count") /\ req[r].todo = {} /\ req[r].path = path

\* (Mutant: one session too many.)
CapacityExceeded(r) ==
    MaxActiveSessions > 0 /\ Cardinality(req[r].counted) > MaxActiveSessions

CapacityReached(r) ==
    MaxActiveSessions > 0 /\ Cardinality(req[r].counted) >= MaxActiveSessions

PromoteAdmitted(r) ==
    /\ Counted(r, "promote") /\ ~CapacityReached(r)
    /\ req' = [req EXCEPT ![r].pc = "setTicket", ![r].tstatus = "Admitted", ![r].counted = {}]
    /\ UNCHANGED <<store, holder>>

\* (Mutant: the handler tries again until there is room.)
PromoteRetried(r) ==
    /\ Counted(r, "promote") /\ CapacityReached(r)
    /\ req' = [req EXCEPT ![r].pc = "lock", ![r].counted = {}]
    /\ Release(r)
    /\ UNCHANGED store

\* The target is full: leave the critical section, then save the queue.
PromoteRefused(r) ==
    /\ Counted(r, "promote") /\ CapacityReached(r)
    /\ req' = [req EXCEPT ![r] =
                  [Take(r, "requeue", "setRoom") EXCEPT
                      !.room = RequeuedRoom(r), !.status = req[r].status]]
    /\ Release(r)
    /\ UNCHANGED store

\* sessionPolicy.Create and room.Remove on the loaded room.
CreateSession(r, tstatus) ==
    /\ FreshSessions(req[r].user) # {}
    /\ req' = [req EXCEPT ![r] =
                  [Take(r, req[r].path, "setSession") EXCEPT
                      !.session = Some(FreshSessions(req[r].user)), !.ticket = req[r].ticket, !.tstatus = tstatus,
                      !.room = Remove(req[r].room, req[r].user)]]
    /\ UNCHANGED holder

\* ValidateAndUse marks the ticket Used.  It cannot refuse: the copy of the
\* ticket is Admitted, and the test of ExpiresAt against the same "now" has
\* been passed in TryUse or TryPromote.
UseAdmitted(r) ==
    /\ Counted(r, "use") /\ ~CapacityReached(r)
    /\ CreateSession(r, "Used")
    /\ UNCHANGED store

\* The ticket goes back to Waiting, still inside the critical section.
UseRefused(r) ==
    /\ Counted(r, "use") /\ CapacityReached(r)
    /\ req' = [req EXCEPT ![r] =
                  [Take(r, "bounce", "setTicket") EXCEPT
                      !.ticket = req[r].ticket, !.tstatus = "Waiting",
                      !.room = RequeuedRoom(r), !.status = req[r].status]]
    /\ UNCHANGED <<store, holder>>

DirectAdmitted(r) ==
    /\ Counted(r, "direct") /\ ~CapacityReached(r)
    /\ CreateSession(r, "absent")
    /\ UNCHANGED store

\* The target is full: leave the critical section and queue with a ticket.
DirectRefused(r) ==
    /\ Counted(r, "direct") /\ CapacityReached(r)
    /\ IssueTicket(r)
    /\ Release(r)
    /\ UNCHANGED store
-----------------------------------------------------------------------------
(***************************************************************************)
(* The writes.                                                             *)
(***************************************************************************)

\* (Mutant: Save writes the pointer and forgets the record.)
SetTicketForgotten(r) ==
    /\ At(r, "setTicket")
    /\ req' = [req EXCEPT ![r].pc = "setActiveTicket", ![r].lag = 0]
    /\ UNCHANGED <<store, holder>>

\* ticketRepository.Save, first command.  A new ticket expires TicketTTL
\* after the request's "now"; a saved one keeps its ExpiresAt.
SetTicket(r) ==
    /\ At(r, "setTicket")
    /\ LET t == req[r].ticket
           remaining == IF req[r].path = "issue" THEN TicketTTL - req[r].lag
                        ELSE ticket[t].remaining
       IN  ticket' = [ticket EXCEPT ![t] = [status |-> req[r].tstatus, remaining |-> remaining]]
    /\ req' = [req EXCEPT ![r].pc = "setActiveTicket",
                          ![r].lag = 0]
    /\ UNCHANGED <<roomKeys, activeTicket, sessionKeys, holder>>

\* ticketRepository.Save, second command: SET or DEL of the pointer.
SetActiveTicket(r) ==
    /\ At(r, "setActiveTicket")
    /\ activeTicket' = [activeTicket EXCEPT ![req[r].user] =
                            IF req[r].tstatus \in ActiveStatuses THEN req[r].ticket ELSE None]
    /\ \/ /\ req[r].path = "promote"
          /\ req' = [req EXCEPT ![r].pc = "lock", ![r].path = "use"]
          /\ Release(r)
       \/ req[r].path = "use" /\ Goto(r, "setUser") /\ UNCHANGED holder
       \/ req[r].path \notin {"promote", "use"} /\ Goto(r, "setRoom") /\ UNCHANGED holder
    /\ UNCHANGED <<roomKeys, ticket, sessionKeys>>

\* waitingRoomRepository.Save writes the whole loaded queue back.  Those who
\* only keep waiting save their user record if it does not say so already.
SetRoom(r) ==
    /\ At(r, "setRoom")
    /\ queue' = req[r].room
    /\ LET saved == req[r].path \in {"wait", "requeue", "bounce"} /\ req[r].status = "Waiting"
           next  == IF req[r].path = "use" THEN "setTicket" ELSE "setUser"
       IN  \/ saved /\ Finish(r)
           \/ ~saved /\ req' = [req EXCEPT ![r].pc = next, ![r].room = <<>>] /\ UNCHANGED holder
    /\ UNCHANGED <<userStatus, ticketKeys, sessionKeys>>

\* (Mutant: MarkExited instead of MarkEntered.)
SetUserExited(r) ==
    /\ At(r, "setUser")
    /\ userStatus' = [userStatus EXCEPT ![req[r].user] =
                          IF req[r].path \in {"use", "direct"} THEN "Exited" ELSE "Waiting"]
    /\ Finish(r)
    /\ UNCHANGED <<queue, ticketKeys, sessionKeys>>

\* MarkEntered for those who enter, ResetToWaiting for the others.
SetUser(r) ==
    /\ At(r, "setUser")
    /\ userStatus' = [userStatus EXCEPT ![req[r].user] =
                          IF req[r].path \in {"use", "direct"} THEN "Entered" ELSE "Waiting"]
    /\ Finish(r)
    /\ UNCHANGED <<queue, ticketKeys, sessionKeys>>

\* sessionRepository.Save: the session and the pointer, both without a TTL
\* (SET clears the TTL the pointer may have had), then the counted set.
SetSession(r) ==
    /\ At(r, "setSession")
    /\ session' = [session EXCEPT ![req[r].session] = Persistent]
    /\ Goto(r, "setActiveSession")
    /\ UNCHANGED <<roomKeys, ticketKeys, activeSession, activeSet, holder>>

SetActiveSession(r) ==
    /\ At(r, "setActiveSession")
    /\ activeSession' = [activeSession EXCEPT ![req[r].user] = [id |-> req[r].session, ttl |-> Persistent]]
    /\ Goto(r, "addActive")
    /\ UNCHANGED <<roomKeys, ticketKeys, session, activeSet, holder>>

\* (Mutants: the counted set is left to RefreshTTL; the TTL is never set.)
AddActiveLater(r) ==
    /\ At(r, "addActive")
    /\ Goto(r, "expireSession")
    /\ UNCHANGED <<store, holder>>

AddActiveWithoutTTL(r) ==
    /\ At(r, "addActive")
    /\ activeSet' = activeSet \cup {req[r].session}
    /\ Goto(r, "setRoom")
    /\ UNCHANGED <<roomKeys, ticketKeys, session, activeSession, holder>>

AddActive(r) ==
    /\ At(r, "addActive")
    /\ activeSet' = activeSet \cup {req[r].session}
    /\ Goto(r, IF SessionTTL > 0 THEN "expireSession" ELSE "setRoom")
    /\ UNCHANGED <<roomKeys, ticketKeys, session, activeSession, holder>>

\* sessionRepository.RefreshTTL.
ExpireSession(r) ==
    /\ At(r, "expireSession")
    /\ session' = [session EXCEPT ![req[r].session] = Expire(@)]
    /\ Goto(r, "expireActive")
    /\ UNCHANGED <<roomKeys, ticketKeys, activeSession, activeSet, holder>>

\* (Mutant: a pointer that has a TTL already is not extended.)
ExpireActiveOnce(r) ==
    /\ At(r, "expireActive")
    /\ activeSession' = [activeSession EXCEPT ![req[r].user].ttl =
                            IF @ = Persistent THEN Expire(@) ELSE @]
    /\ Goto(r, "refreshActive")
    /\ UNCHANGED <<roomKeys, ticketKeys, session, activeSet, holder>>

ExpireActive(r) ==
    /\ At(r, "expireActive")
    /\ activeSession' = [activeSession EXCEPT ![req[r].user].ttl = Expire(@)]
    /\ Goto(r, "refreshActive")
    /\ UNCHANGED <<roomKeys, ticketKeys, session, activeSet, holder>>

RefreshActive(r) ==
    /\ At(r, "refreshActive")
    /\ activeSet' = activeSet \cup {req[r].session}
    /\ \/ req[r].path = "refresh" /\ Finish(r)
       \/ req[r].path \in {"use", "direct"} /\ Goto(r, "setRoom") /\ UNCHANGED holder
    /\ UNCHANGED <<roomKeys, ticketKeys, session, activeSession>>
-----------------------------------------------------------------------------
(***************************************************************************)
(* The environment.                                                        *)
(***************************************************************************)

\* A command returns an error (the client hung up and r.Context() was
\* cancelled, Valkey is unreachable), before or after it took effect.  Every
\* such error ends the request at once; nothing already written is undone.
Abort(r) ==
    /\ CanFail /\ ~At(r, "idle")
    /\ Finish(r)
    /\ UNCHANGED store

\* The process dies with its requests, and NewDependencies seeds an empty
\* room over the stored one.  There is no locker to recover (CanFail).
Restart ==
    /\ CanFail
    /\ queue' = NewWaitingRoom
    /\ req' = [r \in Requests |-> Idle]
    /\ UNCHANGED <<userStatus, ticketKeys, sessionKeys, holder>>

\* A tick: keys with a TTL age and vanish, tickets come nearer to ExpiresAt
\* (how long ago one expired matters only up to the oldest "now").  The record
\* of a ticket that nothing leads to is never read again and is forgotten.
Tick ==
    /\ \A r \in Requests : NowNeeded(r) => req[r].lag < MaxLag
    /\ ticket' = [t \in TicketIds |->
                    IF FreshTicket(t) THEN NoTicket
                    ELSE IF ticket[t].status = "absent" \/ ticket[t].remaining <= -MaxLag THEN ticket[t]
                    ELSE [ticket[t] EXCEPT !.remaining = @ - 1]]
    /\ session' = [s \in SessionIds |-> Age(session[s])]
    /\ activeSession' = [u \in Users |->
                            IF activeSession[u].ttl = 1 THEN NoPointer
                            ELSE [activeSession[u] EXCEPT !.ttl = Age(@)]]
    /\ req' = [r \in Requests |-> IF NowNeeded(r) THEN [req[r] EXCEPT !.lag = @ + 1] ELSE req[r]]
    /\ UNCHANGED <<roomKeys, activeTicket, activeSet, holder>>

Step(r) ==
    \/ GetUser(r) \/ GetActiveSession(r) \/ GetSession(r) \/ GetActiveTicket(r)
    \/ ExpireTicket(r) \/ TryPromote(r) \/ StayQueued(r) \/ TryUse(r) \/ TryDirect(r) \/ TryIssue(r)
    \/ Lock(r) \/ Exists(r) \/ Srem(r)
    \/ PromoteAdmitted(r) \/ PromoteRefused(r) \/ UseAdmitted(r) \/ UseRefused(r)
    \/ DirectAdmitted(r) \/ DirectRefused(r)
    \/ SetTicket(r) \/ SetActiveTicket(r) \/ SetRoom(r) \/ SetUser(r)
    \/ SetSession(r) \/ SetActiveSession(r) \/ AddActive(r)
    \/ ExpireSession(r) \/ ExpireActive(r) \/ RefreshActive(r)

Next ==
    \/ \E r \in Requests, u \in Users : Start(r, u)
    \/ \E r \in Requests, s \in SessionIds : Heartbeat(r, s)
    \/ \E r \in Requests : Step(r)
    \/ \E r \in Requests : Abort(r)
    \/ Restart
    \/ Tick

Spec == Init /\ [][Next]_vars
=============================================================================
