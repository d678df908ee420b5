--------------------------- MODULE AgreementProofs ---------------------------
(***************************************************************************)
(* A single handler, and no failures: between requests the queue, the      *)
(* tickets, the users and the sessions agree (RecordsAgree), whatever has  *)
(* expired meanwhile.                                                      *)
(*                                                                         *)
(* The records are written one after the other, so that the invariant says *)
(* of every user what may be out of step while the handler is at a given   *)
(* command of his request (TicketsWait, TicketsQueued, QueueAgrees), and   *)
(* of the handler what it has learnt and nobody can have changed since     *)
(* (Knowledge).                                                            *)
(***************************************************************************)
EXTENDS QueueProofs

\* Request record x has stored the ticket of user u as expired and is about to
\* delete the pointer to it.
Expires(x, u) == x.user = u /\ x.path = "expired" /\ x.pc = "setActiveTicket"

\* The user of request record x has no session that could be found.
Sessionless(x) ==
    \/ x.pc \in {"getActiveTicket", "getTicket"}
    \/ x.path \in Queueing \cup {"promote"}
    \/ x.path \in {"use", "direct"} /\ x.pc \in Counting \cup {"setSession"}

\* The user's status in request record x is the stored one.
StatusLoaded(x) ==
    \/ x.pc \in {"getActiveSession", "getSession", "getActiveTicket", "getTicket"}
    \/ x.path \in {"wait", "requeue", "bounce", "promote"}
    \/ x.path = "use" /\ x.pc \in Counting

\* The users who have a session that could be found.
Found == {u \in Users : HasSession(u)}

\* What request record x says of its user, given the users in the queue, those
\* with a session, the statuses of users and the session pointers.
Knows(x, queued, found, status, pointer) ==
    /\ x.pc = "getSession" => pointer[x.user].id \in {None, x.session}
    /\ Sessionless(x) => x.user \notin found
    /\ StatusLoaded(x) => x.status = status[x.user]
    /\ x.path = "bounce" /\ x.pc \in {"setTicket", "setActiveTicket"} => x.user \in queued
    /\ x.path \in {"use", "direct"} /\ x.pc \in {"setTicket", "setActiveTicket", "setUser"} =>
           x.user \notin queued
    /\ x.path = "wait" => x.pc \notin {"setTicket", "setActiveTicket"}

Knowledge(r) == Knows(req[r], Members(queue), Found, userStatus, activeSession)

\* A ticket that can be found waits, unless it is being admitted, used or
\* marked expired.
TicketsWait ==
    \A u \in Users :
        activeTicket[u] # None /\ ticket[activeTicket[u]].status # "Waiting" =>
            \E r \in Requests : Admits(req[r], u) \/ Expires(req[r], u)

\* Its user is in the queue, not yet, or not any more.
TicketsQueued ==
    \A u \in Users : activeTicket[u] # None =>
        \/ u \in Members(queue)
        \/ \E r \in Requests : /\ req[r].user = u
                              /\ \/ req[r].path = "issue" /\ req[r].pc = "setRoom"
                                 \/ req[r].path = "use" /\ req[r].pc \in {"setTicket", "setActiveTicket"}

\* Who is in the queue waits outside, unless he is about to leave it, or has
\* just joined it.
QueueAgrees ==
    \A u \in Members(queue) :
        /\ HasSession(u) => \E r \in Requests : req[r].user = u /\ Entering(r)
        /\ \/ userStatus[u] = "Waiting"
           \/ \E r \in Requests : req[r].user = u /\ req[r].path \in Queueing /\ req[r].pc = "setUser"

\* The inductive invariant.
AgreementInv ==
    /\ \A r \in Requests : Knowledge(r)
    /\ TicketsWait /\ TicketsQueued /\ QueueAgrees

\* The invariants it rests on.
Basis == SInv /\ TicketInv /\ QueueInv
-----------------------------------------------------------------------------
(***************************************************************************)
(* Sessions and queues.                                                    *)
(***************************************************************************)

\* Who was at the head of a queue without duplicates is not in its tail.
LEMMA HeadGone ==
    ASSUME NEW q \in Seq(Users), NoDuplicates(q), q # <<>>
    PROVE  Head(q) \notin Members(Tail(q))
<1>1. \A i \in 1..Len(Tail(q)) : Tail(q)[i] = q[i + 1] /\ i + 1 \in 1..Len(q) /\ i + 1 # 1
  OBVIOUS
<1>2. Head(q) = q[1] /\ 1 \in 1..Len(q)
  OBVIOUS
<1> QED
  BY <1>1, <1>2 DEF Members, NoDuplicates

\* Who is queued is in the queue.
LEMMA QueuedNow ==
    ASSUME NEW q \in Seq(Users), NEW u \in Users
    PROVE  u \in Members(EnsureQueued(q, u))
<1>1. CASE u \in Members(q)
  BY <1>1 DEF EnsureQueued, Enqueue, Members, SeqExt!Contains
<1>2. CASE u \notin Members(q)
  <2>1. EnsureQueued(q, u) = Append(q, u)
    BY <1>2 DEF EnsureQueued, Enqueue, Members, SeqExt!Contains
  <2>2. Len(Append(q, u)) = Len(q) + 1 /\ Append(q, u)[Len(q) + 1] = u
    OBVIOUS
  <2> QED
    BY <2>1, <2>2 DEF Members
<1> QED
  BY <1>1, <1>2

\* Which action a request is at.
LEMMA WhichStep ==
    ASSUME NEW r \in Requests, Step(r)
    PROVE  /\ req[r].pc = "setTicket" => SetTicket(r)
           /\ req[r].pc = "setActiveTicket" => SetActiveTicket(r)
           /\ req[r].pc = "setRoom" => SetRoom(r)
           /\ req[r].pc = "setUser" => SetUser(r)
  BY DEF Step, At, GetUser, GetActiveSession, GetSession, GetActiveTicket, ExpireTicket,
     TryPromote, StayQueued, TryUse, TryDirect, TryIssue, TicketFound, TicketMissing, Lock, Exists,
     Srem, PromoteAdmitted, PromoteRefused, UseAdmitted, UseRefused, DirectAdmitted, DirectRefused,
     Counted,
     SetTicket, SetActiveTicket, SetRoom, SetUser, SetSession, SetActiveSession, AddActive,
     ExpireSession, ExpireActive, RefreshActive

\* Who has a session changes in SetActiveSession, and when keys expire.
LEMMA SessionFound ==
    ASSUME SInv, NEW r \in Requests, Step(r), ~SetActiveSession(r)
    PROVE  \A u \in Users : HasSession(u)' <=> HasSession(u)
<1>0. /\ session \in [SessionIds -> TTLs]
      /\ activeSession \in [Users -> [id : SessionIds \cup {None}, ttl : TTLs]]
      /\ req[r].user \in Users
  BY NotIdle, RequestFacts DEF SInv, IInv, StoreOK
<1>1. CASE SetSession(r)
  <2>1. /\ \A u \in Users : activeSession[u].id # req[r].session
        /\ session' = [session EXCEPT ![req[r].session] = Persistent] /\ UNCHANGED activeSession
    BY <1>1 DEF SetSession, SInv, NewSessionUnknown
  <2> QED
    BY <1>0, <2>1 DEF HasSession, Live
<1>2. CASE ExpireSession(r)
  <2>1. /\ session' = [session EXCEPT ![req[r].session] = Expire(@)] /\ UNCHANGED activeSession
    BY <1>2 DEF ExpireSession
  <2>2. \A s \in SessionIds : session'[s] = Gone <=> session[s] = Gone
    BY <1>0, <2>1, ConstantsAssumption DEF Expire, Gone
  <2> QED
    BY <1>0, <2>1, <2>2 DEF HasSession, Live
<1>3. CASE ExpireActive(r)
  <2>1. /\ UNCHANGED session
        /\ activeSession' = [activeSession EXCEPT ![req[r].user].ttl = Expire(@)]
    BY <1>3 DEF ExpireActive
  <2>2. \A u \in Users : activeSession'[u].id = activeSession[u].id
    BY <1>0, <2>1
  <2> QED
    BY <2>1, <2>2 DEF HasSession, Live
<1>4. CASE ~SetSession(r) /\ ~ExpireSession(r) /\ ~ExpireActive(r)
  <2>1. UNCHANGED <<session, activeSession>>
    BY <1>4 DEF Step, GetUser, GetActiveSession, GetSession, GetActiveTicket, ExpireTicket,
       TryPromote, StayQueued, TryUse, TryDirect, TryIssue, Lock, Exists, Srem, PromoteAdmitted,
       PromoteRefused, UseAdmitted, UseRefused, DirectAdmitted, DirectRefused, CreateSession,
       SetTicket, SetActiveTicket, SetRoom, SetUser, AddActive, RefreshActive, store, sessionKeys
  <2> QED
    BY <2>1 DEF HasSession, Live
<1> QED
  BY <1>1, <1>2, <1>3, <1>4
-----------------------------------------------------------------------------
(***************************************************************************)
(* A step of the handler.                                                  *)
(***************************************************************************)

\* What the handler has learnt stays true as it moves on.
LEMMA KnowledgeStep ==
    ASSUME Solo, Basis, AgreementInv, NEW r \in Requests, Step(r)
    PROVE  Knows(req'[r], Members(queue'), Found', userStatus', activeSession')
<1> USE DEF Basis
<1>0. /\ req \in [Requests -> GoodRequest] /\ req[r] \in RequestType /\ req[r].user \in Users
      /\ queue \in Seq(Users) /\ NoDuplicates(queue)
      /\ Orderly(req[r], queue) /\ Knows(req[r], Members(queue), Found, userStatus, activeSession)
      /\ req[r].pc \in Loading => req[r].path = "none"
      /\ req[r].pc \in {"setSession", "setActiveSession", "addActive"} => req[r].path \in {"use", "direct"}
  BY NotIdle, RequestFacts DEF SInv, IInv, StoreOK, RequestsOK, QueueInv, Consistent, AgreementInv, Knowledge
<1>a. req[r].pc # "setActiveSession" => Found' = Found
  BY SessionFound DEF Found, SetActiveSession, At
<1>1. CASE GetUser(r)
  BY <1>0, <1>a, <1>1 DEF GetUser, At,
     RequestType, Loading, Orderly, Knows, Sessionless, StatusLoaded, Queueing, Counting, store, roomKeys, sessionKeys
<1>2. CASE GetActiveSession(r)
  <2>1. /\ req[r].pc = "getActiveSession" /\ req[r].path = "none"
        /\ UNCHANGED <<queue, userStatus, activeSession, session>>
        /\ req'[r].path = "none" /\ req'[r].user = req[r].user /\ req'[r].status = req[r].status
        /\ \/ activeSession[req[r].user].id = None /\ req'[r].pc = "getActiveTicket"
           \/ req'[r].pc = "getSession" /\ req'[r].session = activeSession[req[r].user].id
    BY <1>0, <1>2 DEF GetActiveSession, At, Goto, RequestType, Loading, store, roomKeys, sessionKeys
  <2> QED
    BY <1>0, <1>a, <2>1 DEF Found, HasSession, Knows, Sessionless, StatusLoaded, Queueing
<1>3. CASE GetSession(r)
  <2>1. /\ req[r].pc = "getSession" /\ req[r].path = "none"
        /\ UNCHANGED <<queue, userStatus, activeSession, session>>
        /\ \/ /\ ~Live(req[r].session) /\ req'[r].pc = "getActiveTicket" /\ req'[r].path = "none"
              /\ req'[r].user = req[r].user /\ req'[r].status = req[r].status
           \/ req'[r] = Idle
           \/ req'[r].path = "refresh" /\ req'[r].pc = "expireSession"
    BY <1>0, <1>3 DEF GetSession, At, Take, RequestType, Loading, store, roomKeys, sessionKeys
  <2> QED
    BY <1>0, <1>a, <2>1 DEF Idle, Found, HasSession, Knows, Sessionless, StatusLoaded, Queueing
<1>4. CASE GetActiveTicket(r)
  BY <1>0, <1>a, <1>4 DEF GetActiveTicket, At,
     RequestType, Loading, Orderly, Knows, Sessionless, StatusLoaded, Queueing, Counting, store, roomKeys, sessionKeys
<1>5. CASE ExpireTicket(r)
  BY <1>0, <1>a, <1>5 DEF ExpireTicket, At, TicketFound, Take, Idle,
     RequestType, Loading, Orderly, Knows, Sessionless, StatusLoaded, Queueing, Counting, store, roomKeys, sessionKeys
<1>6. CASE TryPromote(r)
  BY <1>0, <1>a, <1>6 DEF TryPromote, At, TicketFound,
     RequestType, Loading, Orderly, Knows, Sessionless, StatusLoaded, Queueing, Counting, store, roomKeys, sessionKeys
<1>7. CASE StayQueued(r)
  <2>1. TicketStatus(r) = "Waiting"
    <3>1. /\ req[r].pc = "getTicket" /\ req[r].path = "none" /\ req[r].ticket # None
          /\ req[r].ticket = activeTicket[req[r].user]
      BY <1>0, <1>7, RequestFacts DEF StayQueued, TicketFound, At, SInv, IInv, Consistent, Loading,
         QueueInv, TicketKnown
    <3>2. ~Admits(req[r], req[r].user) /\ ~Expires(req[r], req[r].user) /\ \A q \in Requests : q = r
      BY <3>1 DEF Admits, Expires, Solo
    <3> QED
      BY <1>0, <3>1, <3>2 DEF AgreementInv, TicketsWait, TicketStatus
  <2> QED
    BY <1>0, <1>a, <1>7, <2>1 DEF StayQueued, TicketFound, At, Take, Idle,
       RequestType, Loading, Orderly, Knows, Sessionless, StatusLoaded, Queueing, Counting, store, roomKeys, sessionKeys
<1>8. CASE TryUse(r)
  BY <1>8, NothingToUse DEF SInv
<1>9. CASE TryDirect(r)
  BY <1>0, <1>a, <1>9 DEF TryDirect, At, TicketMissing, Take, Idle,
     RequestType, Loading, Orderly, Knows, Sessionless, StatusLoaded, Queueing, Counting, store, roomKeys, sessionKeys
<1>10. CASE TryIssue(r)
  BY <1>0, <1>a, <1>10 DEF TryIssue, At, TicketMissing, IssueTicket, Take, Idle,
     RequestType, Loading, Orderly, Knows, Sessionless, StatusLoaded, Queueing, Counting, store, roomKeys, sessionKeys
<1>11. CASE Lock(r)
  BY <1>0, <1>a, <1>11 DEF Lock, At,
     RequestType, Loading, Orderly, Knows, Sessionless, StatusLoaded, Queueing, Counting, store, roomKeys, sessionKeys
<1>12. CASE Exists(r)
  <2>1. PICK s \in req[r].todo :
          \/ req' = [req EXCEPT ![r].todo = @ \ {s}, ![r].counted = @ \cup {s}]
          \/ req' = [req EXCEPT ![r].pc = "srem", ![r].todo = @ \ {s}, ![r].member = s]
    BY <1>12 DEF Exists
  <2>2. /\ req[r].pc = "count" /\ req'[r].pc \in {"count", "srem"} /\ queue' = queue /\ userStatus' = userStatus
        /\ req'[r].path = req[r].path /\ req'[r].user = req[r].user /\ req'[r].status = req[r].status
    BY <1>0, <1>12, <2>1 DEF Exists, At, RequestType, store, roomKeys, sessionKeys
  <2> QED
    BY <1>0, <1>a, <1>12, <2>2 DEF RequestType, Loading, Orderly, Knows, Sessionless, StatusLoaded, Queueing, Counting
<1>13. CASE Srem(r)
  BY <1>0, <1>a, <1>13 DEF Srem, At,
     RequestType, Loading, Orderly, Knows, Sessionless, StatusLoaded, Queueing, Counting, store, roomKeys, sessionKeys
<1>14. CASE PromoteAdmitted(r)
  BY <1>0, <1>a, <1>14 DEF PromoteAdmitted, At, Counted,
     RequestType, Loading, Orderly, Knows, Sessionless, StatusLoaded, Queueing, Counting, store, roomKeys, sessionKeys
<1>15. CASE PromoteRefused(r)
  BY <1>0, <1>a, <1>15 DEF PromoteRefused, At, Counted, Take, Idle,
     RequestType, Loading, Orderly, Knows, Sessionless, StatusLoaded, Queueing, Counting, store, roomKeys, sessionKeys
<1>16. CASE UseAdmitted(r)
  BY <1>0, <1>a, <1>16 DEF UseAdmitted, At, Counted, CreateSession, Take, Idle,
     RequestType, Loading, Orderly, Knows, Sessionless, StatusLoaded, Queueing, Counting, store, roomKeys, sessionKeys
<1>17. CASE UseRefused(r)
  <2>1. req[r].pc = "count" /\ req[r].path = "use"
    BY <1>17 DEF UseRefused, Counted, At
  <2>2. req[r].user \in Members(queue)
    BY <1>0, <2>1 DEF Orderly, Counting, Members
  <2> QED
    BY <1>0, <1>a, <1>17, <2>1, <2>2 DEF UseRefused, Take, Idle, RequestType, Loading, Orderly, Knows, Sessionless, StatusLoaded, Queueing, Counting, store, roomKeys, sessionKeys
<1>18. CASE DirectAdmitted(r)
  BY <1>0, <1>a, <1>18 DEF DirectAdmitted, At, Counted, CreateSession, Take, Idle,
     RequestType, Loading, Orderly, Knows, Sessionless, StatusLoaded, Queueing, Counting, store, roomKeys, sessionKeys
<1>19. CASE DirectRefused(r)
  BY <1>0, <1>a, <1>19 DEF DirectRefused, At, Counted, IssueTicket, Take, Idle,
     RequestType, Loading, Orderly, Knows, Sessionless, StatusLoaded, Queueing, Counting, store, roomKeys, sessionKeys
<1>20. CASE SetTicket(r)
  BY <1>0, <1>a, <1>20 DEF SetTicket, At,
     RequestType, Loading, Orderly, Knows, Sessionless, StatusLoaded, Queueing, Counting, store, roomKeys, sessionKeys
<1>21. CASE SetActiveTicket(r)
  BY <1>0, <1>a, <1>21 DEF SetActiveTicket, At, Goto,
     RequestType, Loading, Orderly, Knows, Sessionless, StatusLoaded, Queueing, Counting, store, roomKeys, sessionKeys
<1>22. CASE SetRoom(r)
  <2>1. /\ req[r].path \in Queueing \cup {"use", "direct"}
        /\ req[r].path = "use" => queue # <<>> /\ Head(queue) = req[r].user /\ queue' = Tail(queue)
        /\ req[r].path = "direct" => queue' = <<>>
    BY <1>22, StoredQueue DEF SInv
  <2>2. req[r].path \in {"use", "direct"} => req[r].user \notin Members(queue')
    BY <1>0, <2>1, HeadGone DEF Members
  <2>3. \/ req'[r] = Idle
        \/ /\ req'[r].path = req[r].path /\ req'[r].user = req[r].user /\ req'[r].status = req[r].status
           /\ req'[r].pc = IF req[r].path = "use" THEN "setTicket" ELSE "setUser"
    BY <1>0, <1>22 DEF SetRoom, Finish, RequestType
  <2>4. req[r].pc = "setRoom" /\ UNCHANGED userStatus
    BY <1>22 DEF SetRoom, At
  <2> QED
    BY <1>0, <1>a, <1>22, <2>1, <2>2, <2>3, <2>4 DEF Idle, Knows, Sessionless, StatusLoaded, Queueing, Counting
<1>23. CASE SetUser(r)
  BY <1>0, <1>a, <1>23 DEF SetUser, At, Finish, Idle,
     RequestType, Loading, Orderly, Knows, Sessionless, StatusLoaded, Queueing, Counting, store, roomKeys, sessionKeys
<1>24. CASE SetSession(r)
  BY <1>0, <1>a, <1>24 DEF SetSession, At, Goto,
     RequestType, Loading, Orderly, Knows, Sessionless, StatusLoaded, Queueing, Counting, store, roomKeys, sessionKeys
<1>25. CASE SetActiveSession(r)
  BY <1>0, <1>a, <1>25 DEF SetActiveSession, At, Goto,
     RequestType, Loading, Orderly, Knows, Sessionless, StatusLoaded, Queueing, Counting, store, roomKeys, sessionKeys
<1>26. CASE AddActive(r)
  BY <1>0, <1>a, <1>26 DEF AddActive, At, Goto,
     RequestType, Loading, Orderly, Knows, Sessionless, StatusLoaded, Queueing, Counting, store, roomKeys, sessionKeys
<1>27. CASE ExpireSession(r)
  BY <1>0, <1>a, <1>27 DEF ExpireSession, At, Goto,
     RequestType, Loading, Orderly, Knows, Sessionless, StatusLoaded, Queueing, Counting, store, roomKeys, sessionKeys
<1>28. CASE ExpireActive(r)
  BY <1>0, <1>a, <1>28 DEF ExpireActive, At, Goto,
     RequestType, Loading, Orderly, Knows, Sessionless, StatusLoaded, Queueing, Counting, store, roomKeys, sessionKeys
<1>29. CASE RefreshActive(r)
  BY <1>0, <1>a, <1>29 DEF RefreshActive, At, Goto, Finish, Idle,
     RequestType, Loading, Orderly, Knows, Sessionless, StatusLoaded, Queueing, Counting, store, roomKeys, sessionKeys
<1> QED
  BY <1>1, <1>2, <1>3, <1>4, <1>5, <1>6, <1>7, <1>8, <1>9, <1>10, <1>11, <1>12, <1>13,
     <1>14, <1>15, <1>16, <1>17, <1>18, <1>19, <1>20, <1>21, <1>22, <1>23, <1>24, <1>25, <1>26,
     <1>27, <1>28, <1>29 DEF Step

\* No step loses a ticket out of its order.
LEMMA TicketsStep ==
    ASSUME Solo, Basis, AgreementInv, NEW r \in Requests, Step(r)
    PROVE  TicketsWait' /\ TicketsQueued'
<1> USE DEF Basis
<1>0. /\ req \in [Requests -> GoodRequest] /\ req[r] \in RequestType /\ req[r].user \in Users
      /\ queue \in Seq(Users)
      /\ Orderly(req[r], queue) /\ Fitting(req[r]) /\ Knowledge(r) /\ OwnTicket(req[r])
      /\ ticket \in [TicketIds -> [status : TicketStatuses, remaining : Int]]
      /\ activeTicket \in [Users -> TicketIds \cup {None}]
      /\ \A q \in Requests : q = r
  BY NotIdle, RequestFacts DEF SInv, IInv, StoreOK, RequestsOK, QueueInv, AgreementInv, TicketInv, Solo
<1>1. CASE SetTicket(r)
  <2>1. req[r].ticket \in TicketIds /\ Owner(req[r].ticket) = req[r].user
    BY <1>0, <1>1, RequestFacts DEF SetTicket, At, OwnTicket, SInv, IInv, Consistent
  <2>2. /\ \A t \in TicketIds : t # req[r].ticket => ticket'[t] = ticket[t]
        /\ ticket'[req[r].ticket].status = req[r].tstatus /\ UNCHANGED <<activeTicket, queue>>
        /\ req'[r].path = req[r].path /\ req'[r].user = req[r].user
        /\ req[r].pc = "setTicket" /\ req'[r].pc = "setActiveTicket"
    BY <1>0, <1>1, <2>1 DEF SetTicket, At, RequestType, roomKeys
  <2>3. ASSUME NEW u \in Users, activeTicket[u] # None, ticket'[activeTicket[u]].status # "Waiting"
        PROVE  Admits(req'[r], u) \/ Expires(req'[r], u)
    <3>1. CASE activeTicket[u] = req[r].ticket
      <4>1. u = req[r].user
        BY <2>1, <2>3, <3>1 DEF TicketInv, TicketPointersResolve
      <4>2. req[r].path \in {"promote", "use", "expired"}
        BY <1>0, <2>2, <2>3, <3>1 DEF Fitting, Orderly, Queueing
      <4> QED
        BY <2>2, <4>1, <4>2 DEF Admits, Expires
    <3>2. CASE activeTicket[u] # req[r].ticket
      <4>1. Admits(req[r], u) \/ Expires(req[r], u)
        BY <1>0, <2>2, <2>3, <3>2 DEF AgreementInv, TicketsWait
      <4> QED
        BY <2>2, <4>1 DEF Admits, Expires
    <3> QED
      BY <3>1, <3>2
  <2>4. TicketsWait'
    BY <2>2, <2>3 DEF TicketsWait
  <2>5. TicketsQueued'
    BY <1>0, <2>2 DEF AgreementInv, TicketsQueued
  <2> QED
    BY <2>4, <2>5
<1>2. CASE SetActiveTicket(r)
  <2>1. /\ req[r].pc = "setActiveTicket" /\ ticket[req[r].ticket].status = req[r].tstatus
    BY <1>2 DEF SetActiveTicket, At, QueueInv, TicketKnown
  <2>2. /\ \A u \in Users : u # req[r].user => activeTicket'[u] = activeTicket[u]
        /\ activeTicket'[req[r].user] = IF req[r].tstatus \in ActiveStatuses THEN req[r].ticket ELSE None
        /\ UNCHANGED <<ticket, queue>> /\ req'[r].pc \in {"lock", "setUser", "setRoom"}
        /\ req'[r].user = req[r].user
        /\ req[r].path = "promote" => req'[r].path = "use" /\ req'[r].pc = "lock"
        /\ req[r].path = "issue" => req'[r].path = "issue" /\ req'[r].pc = "setRoom"
    BY <1>0, <1>2 DEF SetActiveTicket, Goto, RequestType, roomKeys
  <2>3. req[r].path \in {"issue", "expired", "bounce", "promote", "use"}
    BY <1>0, <2>1 DEF Orderly, Queueing, Knowledge, Knows
  <2>4. ASSUME NEW u \in Users, activeTicket'[u] # None, ticket[activeTicket'[u]].status # "Waiting"
        PROVE  Admits(req'[r], u) \/ Expires(req'[r], u)
    <3>1. CASE u = req[r].user
      <4>1. req[r].tstatus = "Admitted"
        BY <2>1, <2>2, <2>4, <3>1 DEF ActiveStatuses
      <4>2. req[r].path = "promote"
        BY <1>0, <2>1, <2>3, <4>1 DEF Fitting, Counting
      <4> QED
        BY <2>2, <3>1, <4>2 DEF Admits
    <3>2. CASE u # req[r].user
      <4>1. Admits(req[r], u) \/ Expires(req[r], u)
        BY <1>0, <2>2, <2>4, <3>2 DEF AgreementInv, TicketsWait
      <4> QED
        BY <3>2, <4>1 DEF Admits, Expires
    <3> QED
      BY <3>1, <3>2
  <2>5. TicketsWait'
    BY <2>2, <2>4 DEF TicketsWait
  <2>6. ASSUME NEW u \in Users, activeTicket'[u] # None
        PROVE  u \in Members(queue) \/ (req'[r].user = u /\ req'[r].path = "issue" /\ req'[r].pc = "setRoom")
    <3>1. CASE u = req[r].user
      <4>1. req[r].path \in {"issue", "bounce", "promote"}
        BY <1>0, <2>1, <2>2, <2>3, <2>6, <3>1 DEF Fitting, Counting, ActiveStatuses
      <4> QED
        BY <1>0, <2>1, <2>2, <3>1, <4>1 DEF Knowledge, Knows, Orderly, Members
    <3>2. CASE u # req[r].user
      BY <1>0, <2>2, <2>6, <3>2 DEF AgreementInv, TicketsQueued
    <3> QED
      BY <3>1, <3>2
  <2>7. TicketsQueued'
    BY <2>2, <2>6 DEF TicketsQueued
  <2> QED
    BY <2>5, <2>7
<1>3. CASE ~SetTicket(r) /\ ~SetActiveTicket(r)
  <2>1. UNCHANGED ticketKeys
    BY <1>3 DEF Step, GetUser, GetActiveSession, GetSession, GetActiveTicket, ExpireTicket,
       TryPromote, StayQueued, TryUse, TryDirect, TryIssue, Lock, Exists, Srem, PromoteAdmitted,
       PromoteRefused, UseAdmitted, UseRefused, DirectAdmitted, DirectRefused, SetRoom, SetUser,
       SetSession, SetActiveSession, AddActive, ExpireSession, ExpireActive, RefreshActive, store
  <2>2. \A u \in Users : Admits(req[r], u) => Admits(req'[r], u)
    BY <1>3, AdmitsStep DEF SInv
  <2>3. \A u \in Users : ~Expires(req[r], u)
    BY <1>3, WhichStep DEF Expires
  <2>4. TicketsWait'
    BY <1>0, <2>1, <2>2, <2>3 DEF AgreementInv, TicketsWait, ticketKeys
  <2>5. TicketsQueued'
    <3> SUFFICES ASSUME NEW u \in Users, activeTicket[u] # None
                 PROVE  \/ u \in Members(queue')
                        \/ /\ req'[r].user = u
                           /\ req'[r].path = "use" /\ req'[r].pc = "setTicket"
      BY <2>1 DEF TicketsQueued, ticketKeys
    <3>1. \/ u \in Members(queue)
          \/ req[r].user = u /\ req[r].path = "issue" /\ req[r].pc = "setRoom"
      BY <1>0, <1>3, WhichStep DEF AgreementInv, TicketsQueued
    <3>2. CASE SetRoom(r)
      <4>1. /\ req[r].path \in Queueing \cup {"use", "direct"}
            /\ req[r].path \in Queueing => queue' \in {queue, Append(queue, req[r].user)}
            /\ req[r].path = "use" => queue # <<>> /\ Head(queue) = req[r].user /\ queue' = Tail(queue)
            /\ req[r].path = "direct" => queue = <<>> /\ queue' = <<>>
        BY <3>2, StoredQueue DEF SInv
      <4>2. req[r].path \in Queueing => req[r].user \in Members(queue')
        BY <1>0, <3>2, QueuedNow DEF SetRoom, At, Orderly, Queueing
      <4>3. CASE u = req[r].user /\ req[r].path = "use"
        <5>1. req'[r].user = u /\ req'[r].path = "use" /\ req'[r].pc = "setTicket"
          BY <1>0, <3>2, <4>3 DEF SetRoom, RequestType
        <5> QED
          BY <5>1
      <4>4. CASE u = req[r].user /\ req[r].path \in Queueing
        BY <4>2, <4>4
      <4>5. CASE u = req[r].user /\ req[r].path = "direct"
        BY <3>1, <4>1, <4>5 DEF Members
      <4>6. CASE u # req[r].user
        <5>1. u \in Members(queue) /\ queue # <<>>
          BY <3>1, <4>6 DEF Members
        <5>2. u \in Members(Append(queue, req[r].user)) /\ (u # Head(queue) => u \in Members(Tail(queue)))
          BY <1>0, <5>1, OrderKept
        <5> QED
          BY <4>1, <4>6, <5>1, <5>2
      <4> QED
        BY <4>1, <4>3, <4>4, <4>5, <4>6
    <3>3. CASE ~SetRoom(r)
      <4>1. queue' = queue
        BY <3>3 DEF Step, GetUser, GetActiveSession, GetSession, GetActiveTicket, ExpireTicket,
           TryPromote, StayQueued, TryUse, TryDirect, TryIssue, Lock, Exists, Srem, PromoteAdmitted,
           PromoteRefused, UseAdmitted, UseRefused, DirectAdmitted, DirectRefused, SetTicket,
           SetActiveTicket, SetUser, SetSession, SetActiveSession, AddActive, ExpireSession,
           ExpireActive, RefreshActive, store, roomKeys
      <4> QED
        BY <3>1, <3>3, <4>1, WhichStep
    <3> QED
      BY <3>2, <3>3
  <2> QED
    BY <2>4, <2>5
<1> QED
  BY <1>1, <1>2, <1>3

\* A request on its way to the queue without its user keeps to it.
LEMMA EnteringKept ==
    ASSUME SInv, NEW r \in Requests, Step(r), Entering(r), ~SetRoom(r)
    PROVE  req'[r].user = req[r].user
<1>0. req \in [Requests -> GoodRequest] /\ req[r] \in RequestType
  BY RequestFacts DEF SInv, IInv, RequestsOK
<1>1. SetActiveSession(r) \/ AddActive(r) \/ ExpireSession(r) \/ ExpireActive(r) \/ RefreshActive(r)
  BY DEF Entering, Step, At, GetUser, GetActiveSession, GetSession, GetActiveTicket, ExpireTicket,
     TryPromote, StayQueued, TryUse, TryDirect, TryIssue, TicketFound, TicketMissing, Lock, Exists,
     Srem, PromoteAdmitted, PromoteRefused, UseAdmitted, UseRefused, DirectAdmitted, DirectRefused,
     Counted, SetTicket, SetActiveTicket, SetUser, SetSession
<1>2. req[r].path # "refresh"
  BY DEF Entering
<1> QED
  BY <1>0, <1>1, <1>2 DEF SetActiveSession, AddActive, ExpireSession, ExpireActive, RefreshActive,
     At, Goto, RequestType

\* Who is in the queue still waits outside.
LEMMA QueueAgreesStep ==
    ASSUME Solo, Basis, AgreementInv, NEW r \in Requests, Step(r)
    PROVE  QueueAgrees'
<1> USE DEF Basis
<1>0. /\ req \in [Requests -> GoodRequest] /\ req[r] \in RequestType /\ req[r].user \in Users
      /\ queue \in Seq(Users) /\ NoDuplicates(queue) /\ userStatus \in [Users -> UserStatuses]
      /\ Orderly(req[r], queue) /\ Knows(req[r], Members(queue), Found, userStatus, activeSession)
      /\ \A q \in Requests : q = r
      /\ req[r].pc \in {"setSession", "setActiveSession", "addActive"} => req[r].path \in {"use", "direct"}
  BY NotIdle, RequestFacts DEF SInv, IInv, StoreOK, RequestsOK, QueueInv, AgreementInv, Knowledge,
     Consistent, Solo
<1>1. \A u \in Members(queue) : u \in Users
  BY <1>0 DEF Members
<1>2. \A u \in Members(queue) :
          /\ u \in Found => req[r].user = u /\ Entering(r)
          /\ userStatus[u] # "Waiting" =>
                 req[r].user = u /\ req[r].path \in Queueing /\ req[r].pc = "setUser"
  BY <1>0 DEF AgreementInv, QueueAgrees, Found
<1>3. ~SetRoom(r) => queue' = queue
  BY DEF Step, GetUser, GetActiveSession, GetSession, GetActiveTicket, ExpireTicket,
     TryPromote, StayQueued, TryUse, TryDirect, TryIssue, Lock, Exists, Srem, PromoteAdmitted,
     PromoteRefused, UseAdmitted, UseRefused, DirectAdmitted, DirectRefused, SetTicket,
     SetActiveTicket, SetUser, SetSession, SetActiveSession, AddActive, ExpireSession,
     ExpireActive, RefreshActive, store, roomKeys
<1>4. SUFFICES ASSUME NEW u \in Members(queue')
               PROVE  /\ u \in Found' => req'[r].user = u /\ Entering(r)'
                      /\ userStatus'[u] # "Waiting" =>
                             req'[r].user = u /\ req'[r].path \in Queueing /\ req'[r].pc = "setUser"
  <2>1. Members(queue') \subseteq Users
    <3>1. CASE SetRoom(r)
      BY <1>0, <3>1, RequestFacts DEF SetRoom, SInv, IInv, Members
    <3>2. CASE ~SetRoom(r)
      BY <1>1, <1>3, <3>2
    <3> QED
      BY <3>1, <3>2
  <2> QED
    BY <1>4, <2>1 DEF QueueAgrees, Found
<1>5. CASE SetRoom(r)
  <2>1. /\ req[r].pc = "setRoom" /\ UNCHANGED userStatus /\ Found' = Found
        /\ req[r].path \in Queueing \cup {"use", "direct"}
        /\ req[r].path \in Queueing => queue' \in {queue, Append(queue, req[r].user)}
        /\ req[r].path = "use" => queue # <<>> /\ Head(queue) = req[r].user /\ queue' = Tail(queue)
        /\ req[r].path = "direct" => queue' = <<>>
    BY <1>5, StoredQueue, SessionFound DEF SInv, SetRoom, SetActiveSession, At, Found
  <2>2. CASE u # req[r].user
    <3>1. u \in Members(queue)
      <4>1. CASE queue' = Append(queue, req[r].user)
        BY <1>0, <2>2, <4>1 DEF Members
      <4>2. CASE queue # <<>> /\ queue' = Tail(queue)
        BY <1>0, <4>2 DEF Members
      <4>3. queue' # <<>>
        BY DEF Members
      <4> QED
        BY <2>1, <4>1, <4>2, <4>3
    <3> QED
      BY <1>2, <2>1, <2>2, <3>1
  <2>3. CASE u = req[r].user
    <3>1. req[r].path \in Queueing
      <4>1. req[r].path # "use"
        BY <1>0, <2>1, <2>3, HeadGone
      <4>2. req[r].path # "direct"
        BY <2>1 DEF Members
      <4> QED
        BY <2>1, <4>1, <4>2
    <3>2. u \notin Found
      BY <1>0, <2>3, <3>1 DEF Knows, Sessionless
    <3>3. CASE userStatus[u] # "Waiting"
      <4>1. req[r].path \in {"wait", "requeue", "bounce"} => req[r].status # "Waiting"
        BY <1>0, <2>3, <3>3 DEF Knows, StatusLoaded
      <4> QED
        BY <1>0, <1>5, <2>1, <2>3, <3>1, <3>2, <4>1 DEF SetRoom, RequestType, Queueing
    <3> QED
      BY <2>1, <3>2, <3>3
  <2> QED
    BY <2>2, <2>3
<1>6. CASE ~SetRoom(r)
  <2>1. queue' = queue
    BY <1>3, <1>6
  <2>2. userStatus'[u] = "Waiting"
    <3>1. CASE SetUser(r)
      BY <1>0, <1>1, <1>2, <2>1, <3>1 DEF SetUser, At, Knows
    <3>2. CASE ~SetUser(r)
      <4>1. userStatus' = userStatus
        BY <1>6, <3>2 DEF Step, GetUser, GetActiveSession, GetSession, GetActiveTicket, ExpireTicket,
           TryPromote, StayQueued, TryUse, TryDirect, TryIssue, Lock, Exists, Srem, PromoteAdmitted,
           PromoteRefused, UseAdmitted, UseRefused, DirectAdmitted, DirectRefused, SetTicket,
           SetActiveTicket, SetSession, SetActiveSession, AddActive, ExpireSession,
           ExpireActive, RefreshActive, store, roomKeys
      <4> QED
        BY <1>2, <2>1, <3>2, <4>1, WhichStep
    <3> QED
      BY <3>1, <3>2
  <2>3. ASSUME u \in Found' PROVE req'[r].user = u /\ Entering(r)'
    <3>1. CASE SetActiveSession(r)
      <4>1. /\ req'[r].user = req[r].user /\ Entering(r)'
        BY <1>0, <3>1 DEF SetActiveSession, At, Goto, Entering, RequestType
      <4>2. CASE u # req[r].user
        <5>1. u \in Found
          BY <1>0, <1>1, <2>1, <2>3, <3>1, <4>2 DEF SetActiveSession, Found, HasSession, Live
        <5> QED
          BY <1>2, <2>1, <4>2, <5>1
      <4> QED
        BY <4>1, <4>2
    <3>2. CASE ~SetActiveSession(r)
      <4>1. req[r].user = u /\ Entering(r)
        BY <1>2, <2>1, <2>3, <3>2, SessionFound DEF Found
      <4>2. ~SetSession(r)
        BY <4>1 DEF SetSession, At, Entering
      <4> QED
        BY <1>6, <4>1, <4>2, EnteringStep, EnteringKept DEF SInv
    <3> QED
      BY <3>1, <3>2
  <2> QED
    BY <2>2, <2>3
<1> QED
  BY <1>5, <1>6

\* What holds between two requests holds when the next one arrives.
LEMMA AgreementStart ==
    ASSUME Solo, Basis, AgreementInv, NEW r \in Requests,
           (\E u \in Users : Start(r, u)) \/ \E s \in SessionIds : Heartbeat(r, s)
    PROVE  AgreementInv'
<1>1. /\ req[r].pc = "idle" /\ req[r].path = "none" /\ req \in [Requests -> GoodRequest]
      /\ UNCHANGED <<queue, userStatus, activeTicket, ticket, session, activeSession>>
      /\ \A q \in Requests : q = r
  BY RequestFacts DEF Start, Heartbeat, At, Basis, SInv, IInv, RequestsOK, Consistent, Loading, store,
     roomKeys, ticketKeys, sessionKeys, Solo
<1>2. \/ req'[r].path = "none" /\ req'[r].pc = "getUser"
      \/ req'[r].path = "refresh" /\ req'[r].pc = "expireSession"
  BY <1>1 DEF Start, Heartbeat, Idle
<1>3. Knowledge(r)'
  <2>1. Knows(req'[r], Members(queue'), Found', userStatus', activeSession')
    BY <1>2 DEF Knows, Sessionless, StatusLoaded, Queueing
  <2> QED
    BY <2>1 DEF Knowledge, Knows
<1>4. /\ \A u \in Users : ~Admits(req[r], u) /\ ~Expires(req[r], u)
      /\ ~Entering(r)
  BY <1>1 DEF Admits, Expires, Entering
<1>5. TicketsWait' /\ TicketsQueued'
  BY <1>1, <1>4 DEF AgreementInv, TicketsWait, TicketsQueued
<1>6. QueueAgrees'
  BY <1>1, <1>4 DEF AgreementInv, QueueAgrees, HasSession, Live
<1> QED
  BY <1>1, <1>3, <1>5, <1>6 DEF AgreementInv

\* Time takes sessions and pointers away, never a ticket or a place.
LEMMA AgreementTick ==
    ASSUME Basis, AgreementInv, Tick
    PROVE  AgreementInv'
<1> USE DEF Basis
<1>0. /\ activeSession \in [Users -> [id : SessionIds \cup {None}, ttl : TTLs]]
      /\ session \in [SessionIds -> TTLs] /\ activeTicket \in [Users -> TicketIds \cup {None}]
  BY DEF SInv, IInv, StoreOK
<1>1. /\ \A t \in TicketIds : ~FreshTicket(t) => ticket'[t].status = ticket[t].status
      /\ UNCHANGED <<queue, userStatus, activeTicket>>
  BY DEF Tick, SInv, IInv, StoreOK, roomKeys
<1>2. ASSUME NEW r \in Requests
      PROVE  /\ req'[r].pc = req[r].pc /\ req'[r].path = req[r].path /\ req'[r].user = req[r].user
             /\ req'[r].status = req[r].status /\ req'[r].session = req[r].session
  <2>1. req[r] \in RequestType
    BY RequestFacts DEF SInv, IInv
  <2>2. req'[r] \in {req[r], [req[r] EXCEPT !.lag = @ + 1]}
    BY DEF Tick
  <2> QED
    BY <2>1, <2>2 DEF RequestType
<1>3. \A u \in Users : activeSession'[u].id \in {None, activeSession[u].id}
  BY <1>0 DEF Tick, NoPointer
<1>4. \A s \in SessionIds : session[s] = Gone => session'[s] = Gone
  BY <1>0 DEF Tick, Age, Gone
<1>5. \A u \in Users : HasSession(u)' => HasSession(u)
  BY <1>0, <1>3, <1>4 DEF HasSession, Live
<1>6. Found' \subseteq Found
  BY <1>5 DEF Found
<1>7. ASSUME NEW r \in Requests PROVE Knowledge(r)'
  <2>1. Knows(req[r], Members(queue), Found, userStatus, activeSession)
    BY DEF AgreementInv, Knowledge
  <2>2. req[r].pc = "getSession" => req[r].user \in Users
    BY RequestFacts DEF SInv, IInv
  <2>3. Knows(req'[r], Members(queue'), Found', userStatus', activeSession')
    BY <1>1, <1>2, <1>3, <1>6, <2>1, <2>2 DEF Knows, Sessionless, StatusLoaded
  <2> QED
    BY <2>3 DEF Knowledge, Knows
<1>8. TicketsWait'
  <2> SUFFICES ASSUME NEW u \in Users, activeTicket[u] # None, ticket'[activeTicket[u]].status # "Waiting"
               PROVE  \E r \in Requests : Admits(req'[r], u) \/ Expires(req'[r], u)
    BY <1>1 DEF TicketsWait
  <2>1. activeTicket[u] \in TicketIds /\ ~FreshTicket(activeTicket[u])
    BY <1>0 DEF FreshTicket
  <2>2. PICK r \in Requests : Admits(req[r], u) \/ Expires(req[r], u)
    BY <1>1, <2>1 DEF AgreementInv, TicketsWait
  <2> QED
    BY <1>2, <2>2 DEF Admits, Expires
<1>9. TicketsQueued'
  BY <1>1, <1>2 DEF AgreementInv, TicketsQueued
<1>10. QueueAgrees'
  <2> SUFFICES ASSUME NEW u \in Members(queue)
               PROVE  /\ HasSession(u)' => \E r \in Requests : req'[r].user = u /\ Entering(r)'
                      /\ \/ userStatus[u] = "Waiting"
                         \/ \E r \in Requests : /\ req'[r].user = u /\ req'[r].path \in Queueing
                                               /\ req'[r].pc = "setUser"
    BY <1>1 DEF QueueAgrees
  <2>1. u \in Users
    BY DEF SInv, IInv, StoreOK, Members
  <2>2. \A r \in Requests : Entering(r) => Entering(r)'
    BY <1>2 DEF Entering
  <2> QED
    BY <1>2, <1>5, <2>1, <2>2 DEF AgreementInv, QueueAgrees
<1> QED
  BY <1>7, <1>8, <1>9, <1>10 DEF AgreementInv

\* AgreementInv holds in every reachable state.
THEOREM AgreementInvariance ==
    ASSUME Solo, ~CanFail
    PROVE  Spec => []AgreementInv
<1>1. Init => AgreementInv
  BY DEF Init, NewWaitingRoom, Members, AgreementInv, Knowledge, Knows, Sessionless, StatusLoaded, Queueing,
     TicketsWait, TicketsQueued, QueueAgrees, Idle
<1>2. SInv /\ TicketInv /\ QueueInv /\ AgreementInv /\ [Next]_vars => AgreementInv'
  <2> SUFFICES ASSUME Basis, AgreementInv, [Next]_vars PROVE AgreementInv'
    BY DEF Basis
  <2>1. CASE \E r \in Requests : Step(r)
    <3>1. PICK r \in Requests : Step(r)
      BY <2>1
    <3>2. \A q \in Requests : q = r
      BY DEF Solo
    <3>3. Knowledge(r)'
      BY <3>1, KnowledgeStep DEF Knowledge, Knows
    <3> QED
      BY <3>1, <3>2, <3>3, TicketsStep, QueueAgreesStep DEF AgreementInv
  <2>2. CASE \E r \in Requests : (\E u \in Users : Start(r, u)) \/ \E s \in SessionIds : Heartbeat(r, s)
    BY <2>2, AgreementStart
  <2>3. CASE Tick
    BY <2>3, AgreementTick
  <2>4. CASE UNCHANGED vars
    BY <2>4 DEF vars, store, roomKeys, ticketKeys, sessionKeys, AgreementInv, Knowledge, Knows, Found,
       HasSession, Live, TicketsWait, TicketsQueued, QueueAgrees, Entering
  <2> QED
    BY <2>1, <2>2, <2>3, <2>4 DEF Next, Abort, Restart
<1> QED
  BY <1>1, <1>2, SessionInvariance, TicketInvariance, QueueInvariance, PTL DEF Spec

\* With a single handler and no failures the records that Execute writes one
\* after the other (queue, ticket, ticket pointer, user, session) agree between
\* requests, whatever has expired meanwhile, for any number of users.
THEOREM RecordsStayInAgreement ==
    ASSUME Solo, ~CanFail
    PROVE  Spec => []RecordsAgree
<1>1. SInv /\ AgreementInv => RecordsAgree
  <2> SUFFICES ASSUME SInv, AgreementInv, Quiet PROVE RecordsAgree
    BY DEF RecordsAgree
  <2>1. \A r \in Requests : req[r].pc = "idle" /\ req[r].path = "none"
    BY RequestFacts DEF Quiet, At, SInv, IInv, Consistent, Loading
  <2>2. \A r \in Requests, u \in Users : ~Admits(req[r], u) /\ ~Expires(req[r], u) /\ ~Entering(r)
    BY <2>1 DEF Admits, Expires, Entering
  <2>3. \A u \in Members(queue) : u \in Users
    BY DEF SInv, IInv, StoreOK, Members
  <2> QED
    BY <2>1, <2>2, <2>3 DEF RecordsAgree, AgreementInv, TicketsWait, TicketsQueued, QueueAgrees
<1> QED
  BY <1>1, AgreementInvariance, SessionInvariance, PTL
=============================================================================
