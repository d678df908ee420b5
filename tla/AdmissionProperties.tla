------------------------ MODULE AdmissionProperties ------------------------
(***************************************************************************)
(* What the admission use case should guarantee.  Some properties need the *)
(* RoomLocker, some one request at a time, some that no command fails; the *)
(* configurations say under which constants each is checked.               *)
(***************************************************************************)
EXTENDS EnterWaitingRoom

PCs == {"idle", "getUser", "getActiveSession", "getSession", "getActiveTicket", "getTicket",
        "lock", "count", "srem", "setTicket", "setActiveTicket", "setRoom", "setUser",
        "setSession", "setActiveSession", "addActive",
        "expireSession", "expireActive", "refreshActive"}

Paths == {"none", "refresh", "expired", "wait", "promote", "requeue", "use", "bounce",
          "direct", "issue"}

UserStatuses   == {"Waiting", "Entered"}
TicketStatuses == ActiveStatuses \cup {"Used", "Expired", "absent"}
TTLs           == {Gone, Persistent} \cup 1..SessionTTL

RequestType ==
    [pc : PCs, path : Paths, user : Users \cup {None}, lag : 0..MaxLag,
     room : Seq(Users), status : UserStatuses,
     ticket : TicketIds \cup {None}, tstatus : TicketStatuses,
     session : SessionIds \cup {None}, todo : SUBSET SessionIds,
     counted : SUBSET SessionIds, member : SessionIds \cup {None}]

\* The store and the requests hold what the code can put there.
TypeOK ==
    /\ queue \in Seq(Users)
    /\ userStatus \in [Users -> UserStatuses]
    /\ ticket \in [TicketIds -> [status : TicketStatuses, remaining : Int]]
    /\ activeTicket \in [Users -> TicketIds \cup {None}]
    /\ session \in [SessionIds -> TTLs]
    /\ activeSession \in [Users -> [id : SessionIds \cup {None}, ttl : TTLs]]
    /\ activeSet \in SUBSET SessionIds
    /\ holder \in Requests \cup {None}
    /\ req \in [Requests -> RequestType]
-----------------------------------------------------------------------------
(***************************************************************************)
(* Sessions.                                                               *)
(***************************************************************************)
LiveSessions == {s \in SessionIds : Live(s)}

\* Request r has stored session s and not yet added it to the counted set.
Storing(r, s) == req[r].session = s /\ req[r].pc \in {"setActiveSession", "addActive"}

\* No more sessions are alive than TARGET_MAX_ACTIVE_SESSIONS: what
\* ensureCapacity is for.
CapacityRespected == MaxActiveSessions > 0 => Cardinality(LiveSessions) <= MaxActiveSessions

\* Without a RoomLocker the check of the capacity and the creation of the
\* session are apart: every handler but one can overshoot the limit by one
\* session, and not by more however long they run.
BoundedOvershoot ==
    MaxActiveSessions > 0 =>
        Cardinality(LiveSessions) <= MaxActiveSessions + Cardinality(Requests) - 1

\* CountActive misses no session: every live one is in session:active, unless
\* its creator is about to add it.  EXISTS and SREM are apart, and heartbeats
\* add members while others prune.
LiveSessionsCounted ==
    \A s \in SessionIds : Live(s) => s \in activeSet \/ \E r \in Requests : Storing(r, s)

\* No session lives for ever: one without a TTL has a creator that is about
\* to set it (refreshSession comes after sessionRepository.Save).
SessionsExpire ==
    SessionTTL > 0 =>
        \A s \in SessionIds : session[s] = Persistent =>
            \E r \in Requests : Storing(r, s) \/ (req[r].session = s /\ At(r, "expireSession"))

\* Request r is storing or extending session s and has still to send the last
\* EXPIRE, that of the pointer.
Extending(r, s) ==
    req[r].session = s /\ req[r].pc \in {"addActive", "expireSession", "expireActive"}

\* The pointer by which GetActiveByUserID finds a session expires no earlier
\* than the session, but in the middle of a RefreshTTL: a live session loses
\* its pointer only while a request has still to send the second EXPIRE.
\* Neither another tab nor a heartbeat for an older session takes it away.
PointerLostOnlyWhileExtending ==
    [][\A u \in Users :
          LET s == activeSession[u].id
          IN  s # None /\ Live(s) /\ session'[s] # Gone /\ activeSession'[u].id = None =>
                 SessionTTL > 0 /\ \E r \in Requests : Extending(r, s)]_vars

\* The sessions form a pool of bounded size: with the lock, each one that is
\* created is admitted while the limit leaves room for it, not merely counted
\* afterwards.
Pool == INSTANCE SessionPool WITH Ids <- SessionIds, Max <- MaxActiveSessions, alive <- LiveSessions
PoolSpec == Pool!Spec

\* What GetActiveByUserID finds.
HasSession(u) == activeSession[u].id # None /\ Live(activeSession[u].id)

\* While no request of its user is in flight, a live session is found by
\* GetActiveByUserID, so that the user's next visit is admitted at once.  A
\* request that takes more than a tick may break it: the pointer may expire
\* between the two EXPIREs of RefreshTTL.
LiveSessionFindable ==
    \A s \in LiveSessions : HasSession(Owner(s)) \/ \E r \in Requests : req[r].user = Owner(s)
-----------------------------------------------------------------------------
(***************************************************************************)
(* Tickets.                                                                *)
(***************************************************************************)

\* ticket:active:<user> leads to a stored ticket of that user: the record is
\* written before the pointer and never deleted, even if a request dies
\* between the two.
TicketPointersResolve ==
    \A u \in Users : activeTicket[u] # None =>
        Owner(activeTicket[u]) = u /\ ticket[activeTicket[u]].status # "absent"
-----------------------------------------------------------------------------
(***************************************************************************)
(* The queue.                                                              *)
(***************************************************************************)

\* Whatever stale copies are written back, no user is queued twice.
QueueHasNoDuplicates == NoDuplicates(queue)

\* Those in front of user u in the queue q: everybody if u is not in it.
Ahead(q, u) ==
    {q[i] : i \in {j \in 1..Len(q) : \A k \in 1..j : q[k] # u}}

\* First come, first served: a session is created for a user only if nobody
\* stands in front of him.
FirstComeFirstServed ==
    [][\A s \in SessionIds : ~Live(s) /\ Live(s)' => Ahead(queue, Owner(s)) = {}]_vars

\* Whoever is in the queue keeps his place until he enters: he is never
\* dropped, and nobody gets in front of him.
PlaceKept ==
    [][\A u \in Members(queue) :
          \/ Ahead(queue', u) \subseteq Ahead(queue, u) /\ u \in Members(queue')
          \/ \E r \in Requests : req[r].user = u /\ req[r].path \in {"use", "direct"}]_vars

\* Request r has stored its session and not yet the queue without its user.
Entering(r) ==
    /\ req[r].path \in {"use", "direct"}
    /\ req[r].pc \in {"setActiveSession", "addActive", "expireSession", "expireActive",
                      "refreshActive", "setRoom"}

\* One request at a time, the queue and the sessions are a line in front of a
\* turnstile: a session and the queue without its owner are written one after
\* the other, but nobody can tell.
Line == IF \E r \in Requests : Entering(r) THEN req[CHOOSE r \in Requests : Entering(r)].room ELSE queue

Gate == INSTANCE Turnstile WITH
            People <- Users, Max <- MaxActiveSessions,
            line <- Line, inside <- {Owner(s) : s \in LiveSessions}
TurnstileSpec == Gate!Spec

Quiet == \A r \in Requests : At(r, "idle")

\* Between requests the records agree: a ticket holder is in the queue with a
\* ticket that waits, and whoever is in the queue is recorded as waiting and
\* has no session that could be found.
RecordsAgree ==
    Quiet =>
        /\ \A u \in Users : activeTicket[u] # None =>
              u \in Members(queue) /\ ticket[activeTicket[u]].status = "Waiting"
        /\ \A u \in Members(queue) :
              userStatus[u] = "Waiting" /\ ~HasSession(u)
=============================================================================
